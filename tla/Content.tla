------------------------------ MODULE Content ------------------------------
(***************************************************************************)
(* The digests of a manifest's subject: taken when it is signed, by a walk *)
(* over files that may change meanwhile, and taken again when it is        *)
(* verified against a directory of artifacts.                              *)
(*                                                                         *)
(* A place is what --subject, or a name under --artifacts, stands for: one *)
(* file, or directories with files in them.  A file is read block by       *)
(* block.  Symbolic links below a place are no regular files, hence left   *)
(* out.  SHA-256 is a free constructor, and two digests are ordered as the *)
(* bytes that they are taken of.                                           *)
(***************************************************************************)
EXTENDS Integers, Sequences, SequencesExt, FiniteSetsExt

CONSTANTS
  File,         \* the files
  Rel,          \* the relative path of each, below its place
  Directory, In,  \* the directories, and the one that each file is in
  Place,        \* the places
  IsDir,        \* whether each is a directory
  FilesOf,      \* the files that may exist there
  Name,         \* the basename of each
  NoPlace,      \* nothing is there, or it lies outside --artifacts
  NoFile,       \* the file does not exist
  Block,        \* what a block may hold
  FileLength,   \* bound: the blocks of a file
  Scenes,       \* what is signed into which file, what is found by its name, and
                \* bound: the files that others have or change meanwhile
  Faulty,       \* the directories that may refuse to be listed
  Undecodable,  \* the relative paths that are not UTF-8
  MaxWrites     \* bound: how often others change a file

Uniform(b) == [i \in 1 .. FileLength |-> b]
Contents == {Uniform(b) : b \in Block}
Manifest == Uniform(0)

ASSUME ContentAssumption ==
  /\ NoPlace \notin Place
  /\ Rel \in [File -> Nat \ {0}] /\ In \in [File -> Directory]
  /\ Undecodable \subseteq Nat \ {0}
  /\ IsDir \in [Place -> BOOLEAN] /\ FilesOf \in [Place -> SUBSET File]
  /\ \A p \in Place :
       /\ \A f, g \in FilesOf[p] : Rel[f] = Rel[g] => f = g
       /\ ~ IsDir[p] => \E f \in File : FilesOf[p] = {f}
  /\ Block \subseteq Nat \ {0} /\ NoFile \notin File \cup Contents \cup {Manifest}
  /\ FileLength \in Nat \ {0} /\ MaxWrites \in Nat
  /\ \A s \in Scenes :
       /\ s.subject \in Seq(Place) /\ s.out \in File /\ s.files \subseteq File
       /\ \A p \in Range(s.subject) : s.found[Name[p]] \in Place \cup {NoPlace}

VARIABLES
  scene,      \* the member of Scenes that is played
  disk,       \* what each file holds
  before,     \* history: the disk when signing began
  writes,     \* how often others have changed a file
  calm,       \* history: nobody has since verification began
  unlisted,   \* history: the directories that could not be listed
  task,       \* "sign", "saved", "verify", "done", "failed" or, without a report, "raised"
  turn,       \* the entry of the subject that the task is at
  begun,      \* whether its digest is being taken
  dirs,       \* its directories still to be listed
  todo,       \* the files listed and not yet looked at
  reading,    \* the open file, and what has been read of it
  lines,      \* the lines of the entry so far
  signed,     \* the digests in the manifest
  verdicts    \* ok, for each entry verified

env == <<scene, disk, before, writes, calm>>
at == <<task, turn, begun>>
results == <<signed, verdicts>>
vars == <<env, unlisted, at, dirs, todo, reading, lines, results>>

NotReading == [file |-> NoFile, got |-> <<>>]

\* build_subject keeps the basename of a place; _resolve_inside looks it up.
Found(p) == scene.found[Name[p]]
Here == IF task = "sign" THEN scene.subject[turn] ELSE Found(scene.subject[turn])

Exists(p) == p # NoPlace /\ (IsDir[p] \/ \A f \in FilesOf[p] : disk[f] # NoFile)

Init ==
  /\ scene \in Scenes
  /\ disk \in [File -> Contents \cup {NoFile}] /\ before = disk
  /\ \A f \in File \ scene.files : disk[f] = NoFile
  /\ writes = 0 /\ calm = FALSE /\ unlisted = {}
  /\ task = "sign" /\ turn = 1 /\ begun = FALSE
  /\ dirs = {} /\ todo = {} /\ reading = NotReading /\ lines = <<>>
  /\ signed = <<>> /\ verdicts = <<>>

\* Others overwrite a file in place, create it or remove it.  An open file that
\* is removed keeps its bytes: it might as well be removed once it is read.
Change(f) ==
  /\ f \in scene.files /\ writes < MaxWrites
  /\ \E content \in (Contents \cup {NoFile}) \ {disk[f]} :
       /\ content = NoFile => reading.file # f
       /\ disk' = [disk EXCEPT ![f] = content]
  /\ writes' = writes + 1 /\ calm' = FALSE
  /\ UNCHANGED <<scene, before, unlisted, at, dirs, todo, reading, lines, results>>

-----------------------------------------------------------------------------
(* digest_path *)

\* What it does next depends on whether it is at a file.
Walking == begun /\ reading = NotReading

Pending == task \in {"sign", "verify"} /\ turn <= Len(scene.subject) /\ ~ begun

BeginEntry ==
  /\ Pending
  /\ task = "verify" => Exists(Here)
  /\ begun' = TRUE
  /\ dirs' = IF IsDir[Here] THEN {In[f] : f \in FilesOf[Here]} ELSE {}
  /\ todo' = IF IsDir[Here] THEN {} ELSE FilesOf[Here]
  /\ lines' = <<>>
  /\ UNCHANGED <<env, unlisted, task, turn, reading, results>>

\* os.walk comes to another directory; what is there now will be looked at.
ListDirectory(d) ==
  /\ Walking /\ todo = {} /\ d \in dirs
  /\ dirs' = dirs \ {d}
  /\ todo' = {f \in FilesOf[Here] : In[f] = d /\ disk[f] # NoFile}
  /\ UNCHANGED <<env, unlisted, at, reading, lines, results>>

\* os.walk, called without onerror, passes over a directory it cannot list.
ListingFails(d) ==
  /\ Walking /\ todo = {} /\ d \in dirs \cap Faulty
  /\ dirs' = dirs \ {d}
  /\ unlisted' = unlisted \cup {d}
  /\ UNCHANGED <<env, at, todo, reading, lines, results>>

\* What was listed is not there any more.
SkipFile(f) ==
  /\ Walking /\ f \in todo /\ IsDir[Here] /\ disk[f] = NoFile
  /\ todo' = todo \ {f}
  /\ UNCHANGED <<env, unlisted, at, dirs, reading, lines, results>>

\* Mutant: a file is hashed once for each time that it is met.
OpenFileAgain(f) ==
  /\ Walking /\ f \in todo /\ disk[f] # NoFile
  /\ reading' = [file |-> f, got |-> <<>>]
  /\ UNCHANGED <<env, unlisted, at, dirs, todo, lines, results>>

OpenFile(f) ==
  /\ Walking /\ f \in todo /\ disk[f] # NoFile
  /\ todo' = todo \ {f}
  /\ reading' = [file |-> f, got |-> <<>>]
  /\ UNCHANGED <<env, unlisted, at, dirs, lines, results>>

\* It went between the look and the open: when signing that ends the command,
\* when verifying the entry is unreadable.
OpenFails(f) ==
  /\ Walking /\ f \in todo /\ disk[f] = NoFile
  /\ IF task = "sign"
     THEN task' = "failed" /\ UNCHANGED <<turn, verdicts>>
     ELSE turn' = turn + 1 /\ verdicts' = Append(verdicts, FALSE) /\ UNCHANGED task
  /\ begun' = FALSE /\ dirs' = {} /\ todo' = {} /\ lines' = <<>>
  /\ UNCHANGED <<env, unlisted, reading, signed>>

NextBlock == Append(reading.got, disk[reading.file][Len(reading.got) + 1])

\* Mutant: a file is its first block.
IsWholeAtOnce(got) == TRUE

IsWhole(got) == Len(got) = FileLength

\* hash_file reads another block; with the last one the line is complete.
ReadBlock ==
  /\ begun /\ reading # NotReading
  /\ IF IsWhole(NextBlock)
     THEN /\ reading' = NotReading
          /\ lines' = Append(lines, [digest |-> NextBlock,
                                     rel |-> IF IsDir[Here] THEN Rel[reading.file] ELSE 0])
     ELSE reading' = [reading EXCEPT !.got = NextBlock] /\ UNCHANGED lines
  /\ UNCHANGED <<env, unlisted, at, dirs, todo, results>>

\* Lines begin with the hash, so this is the order that sorted() gives them.
Before(a, b) ==
  IF a.digest = b.digest THEN a.rel < b.rel
  ELSE LET i == Min({j \in DOMAIN a.digest : a.digest[j] # b.digest[j]})
       IN a.digest[i] < b.digest[i]

\* Mutant: the lines stay as they came.
DigestAsWalked(ls) == ls

\* hash_dir of the lines, no two of which are equal; hash_file, of the only one
Digest(ls) ==
  CHOOSE s \in [DOMAIN ls -> ToSet(ls)] : \A i, j \in DOMAIN ls : i < j => Before(s[i], s[j])

\* The lines of a directory are encoded before they are hashed.
Encodable == \A i \in DOMAIN lines : lines[i].rel \notin Undecodable

\* UnicodeEncodeError is no OSError: nobody catches it, and the command ends, when
\* verifying without a report.
EncodingFails ==
  /\ Walking /\ dirs = {} /\ todo = {} /\ ~ Encodable
  /\ task' = IF task = "sign" THEN "failed" ELSE "raised"
  /\ begun' = FALSE /\ lines' = <<>>
  /\ UNCHANGED <<env, unlisted, turn, dirs, todo, reading, results>>

\* The digest is complete: build_subject keeps it, _verify_subject_item compares.
EndEntry ==
  /\ Walking /\ dirs = {} /\ todo = {} /\ Encodable
  /\ turn' = turn + 1 /\ begun' = FALSE /\ lines' = <<>>
  /\ IF task = "sign"
     THEN signed' = Append(signed, Digest(lines)) /\ UNCHANGED verdicts
     ELSE verdicts' = Append(verdicts, Digest(lines) = signed[turn]) /\ UNCHANGED signed
  /\ UNCHANGED <<env, unlisted, task, dirs, todo, reading>>

-----------------------------------------------------------------------------
(* The commands *)

\* cmd_prereg or cmd_postreg goes on, signs and writes the manifest.
Save ==
  /\ task = "sign" /\ turn > Len(scene.subject)
  /\ task' = "saved"
  /\ disk' = [disk EXCEPT ![scene.out] = Manifest]
  /\ UNCHANGED <<scene, before, writes, calm, unlisted, turn, begun, dirs, todo, reading, lines,
                 results>>

\* verify_content
Verify ==
  /\ task = "saved"
  /\ task' = "verify" /\ turn' = 1
  /\ calm' = TRUE
  /\ UNCHANGED <<scene, disk, before, writes, unlisted, begun, dirs, todo, reading, lines, results>>

\* "artifact not found", or "path resolves outside --artifacts"
NotFound ==
  /\ Pending /\ task = "verify" /\ ~ Exists(Here)
  /\ turn' = turn + 1
  /\ verdicts' = Append(verdicts, FALSE)
  /\ UNCHANGED <<env, unlisted, task, begun, dirs, todo, reading, lines, signed>>

Finish ==
  /\ task = "verify" /\ turn > Len(scene.subject)
  /\ task' = "done"
  /\ UNCHANGED <<env, unlisted, turn, begun, dirs, todo, reading, lines, results>>

Next ==
  \/ \E f \in File : Change(f) \/ SkipFile(f) \/ OpenFile(f) \/ OpenFails(f)
  \/ \E d \in Directory : ListDirectory(d) \/ ListingFails(d)
  \/ BeginEntry \/ ReadBlock \/ EncodingFails \/ EndEntry
  \/ Save \/ Verify \/ NotFound \/ Finish

Spec == Init /\ [][Next]_vars

-----------------------------------------------------------------------------
(* Properties *)

\* Type correctness: in particular no file has two lines in a digest.
TypeOK ==
  /\ scene \in Scenes
  /\ disk \in [File -> Contents \cup {Manifest, NoFile}]
  /\ task \in {"sign", "saved", "verify", "done", "failed", "raised"}
  /\ turn \in 1 .. Len(scene.subject) + 1
  /\ begun => Here \in Place /\ todo \subseteq FilesOf[Here]
  /\ reading # NotReading => reading.file \in FilesOf[Here] /\ Len(reading.got) < FileLength
  /\ \A i, j \in DOMAIN lines : lines[i].rel = lines[j].rel => i = j
  /\ Len(signed) <= Len(scene.subject) /\ Len(verdicts) <= Len(scene.subject)

\* The lines that a place should have: all its files, each as a whole.
Whole(d, p) ==
  {[digest |-> d[f], rel |-> IF IsDir[p] THEN Rel[f] ELSE 0] :
     f \in {g \in FilesOf[p] : d[g] # NoFile}}

\* If nobody interferes, an entry verifies exactly when what its name leads to
\* is what was signed.  Hence a manifest written into its own subject never
\* verifies, and of two different places with one name at most one does; the
\* order in which the file system lists files does not matter.
QuietVerdict ==
  task = "done" /\ writes = 0 /\ unlisted = {} =>
    \A i \in DOMAIN scene.subject :
      LET p == scene.subject[i]
      IN verdicts[i] <=> Exists(Found(p)) /\ Whole(disk, Found(p)) = Whole(before, p)

\* "A match shows the artifact was not altered": however the files changed
\* while they were signed and after it, an entry that verifies while they rest
\* has in it, file by file, what the manifest was signed with - provided that
\* every directory could be listed, on both occasions.
Pinned ==
  \A i \in DOMAIN scene.subject :
    verdicts[i] => ToSet(signed[i]) = Whole(disk, Found(scene.subject[i]))

MatchPins == task = "done" /\ calm /\ unlisted = {} => Pinned

\* The same of every match: "We walk every regular file under the directory".
MatchPinsAlways == task = "done" /\ calm => Pinned
=============================================================================
