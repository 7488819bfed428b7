------------------------------ MODULE Archive ------------------------------
(***************************************************************************)
(* A directory of manifests over time: committers add manifests to it      *)
(* while it is verified again and again.  Composes Verifier with the way   *)
(* cmd_prereg and cmd_postreg put a finished manifest on disk.             *)
(*                                                                         *)
(* manifest.save opens the file for writing and then writes it, so for a   *)
(* while - for ever, if the writer dies in between - the file is there and *)
(* is not a manifest.  A verify run that reads it then finds it malformed. *)
(* Here every write creates a new file; nothing is overwritten or removed. *)
(***************************************************************************)
EXTENDS Verifier

CONSTANT Shelves    \* the directories that an archive may begin as

ASSUME ShelvesAssumption ==
  /\ Shelves \subseteq [Path -> (Docs \ {Malformed}) \cup {NoFile}]
  /\ \A shelf \in Shelves : IsFiniteSet({p \in Path : shelf[p] # NoFile})

\* What is verified is the directory as a whole.
ASSUME DirectoryAssumption == \A args \in Arguments : args = <<Directory>>

VARIABLE writing    \* for each path, the document being written there, or NoFile

allVars == <<vars, writing>>

run == <<pc, setup, read, preregs, grouping, report>>

ArchiveInit ==
  /\ Init
  /\ disk \in Shelves
  /\ writing = [p \in Path |-> NoFile]

\* manifest.save, first half: open(path, "w") on a path that is free
Create(p, d) ==
  /\ disk[p] = NoFile
  /\ d # Malformed
  /\ disk' = [disk EXCEPT ![p] = Malformed]
  /\ writing' = [writing EXCEPT ![p] = d]
  /\ UNCHANGED <<clock, run>>

\* manifest.save, second half: the JSON text is on disk and the file closed
Fill(p) ==
  /\ writing[p] # NoFile
  /\ disk' = [disk EXCEPT ![p] = writing[p]]
  /\ writing' = [writing EXCEPT ![p] = NoFile]
  /\ UNCHANGED <<clock, run>>

Tick ==
  /\ clock + 1 \in Times
  /\ clock' = clock + 1
  /\ UNCHANGED <<disk, run, writing>>

\* The next `asexec verify' on the directory
Again ==
  /\ pc \in {"done", "refused", "unlisted", "raised"}
  /\ pc' = "idle"
  /\ UNCHANGED <<env, setup, read, preregs, grouping, report, writing>>

ArchiveNext ==
  \/ Next /\ UNCHANGED writing
  \/ Again
  \/ Tick
  \/ \E p \in Path, d \in Docs : Create(p, d)
  \/ \E p \in Path : Fill(p)

ArchiveSpec == ArchiveInit /\ [][ArchiveNext]_allVars

-----------------------------------------------------------------------------
(* Properties: what the next report may say, given the last one *)

NewReport == report # NoReport /\ report' # report

RivalFree(rep) ==
  \A p, q \in DOMAIN rep.read :
    IsPrereg(rep.read[p]) /\ IsPrereg(rep.read[q]) /\ rep.read[p].ref = rep.read[q].ref
      => rep.read[p].keyid = rep.read[q].keyid

CountedDocs(rep, r) == {rep.read[i] : i \in rep.commitments[r].counted}

\* A postreg that has counted goes on counting, under the same prereg: files
\* added later, wherever their names sort, take nothing away from it - unless
\* one of them is a prereg with the same body under another key.
CountedStaysCounted ==
  [][NewReport /\ RivalFree(report') =>
       \A r \in DOMAIN report.commitments :
         /\ r \in DOMAIN report'.commitments
         /\ CountedDocs(report, r) \subseteq CountedDocs(report', r)]_allVars

\* Two roots, or two successors of one receipt: not a mere gap.
Broken(rep, r) ==
  LET R == rep.commitments[r].counted
      prev == [i \in R |-> PrevOf(rep.read[i])]
  IN Cardinality(Roots(R, prev)) > 1 \/ ~ NoFork(R, prev)

\* A forked history cannot be mended by adding to it.  (A gap can: the missing
\* receipt may turn up.)
BrokenStaysBroken ==
  [][NewReport /\ RivalFree(report') =>
       \A r \in DOMAIN report.commitments :
         Broken(report, r) => ~ report'.commitments[r].chainOK]_allVars

\* A missed deadline stays missed: a commitment reported elapsed is never
\* reported open again, and one fulfilled never becomes anything else.
NoReprieve ==
  [][NewReport /\ RivalFree(report') =>
       \A r \in DOMAIN report.commitments :
         CASE report.commitments[r].state = "elapsed-no-receipt" ->
                report'.commitments[r].state \in {"elapsed-no-receipt", "fulfilled"}
           [] report.commitments[r].state = "fulfilled" ->
                report'.commitments[r].state = "fulfilled"
           [] OTHER -> TRUE]_allVars
=============================================================================
