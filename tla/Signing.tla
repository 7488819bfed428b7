------------------------------ MODULE Signing ------------------------------
(***************************************************************************)
(* `asexec prereg' and `asexec postreg' (cmd_prereg, cmd_postreg) run by   *)
(* several committers in one directory.                                    *)
(*                                                                         *)
(* A postreg reads the file it fulfills twice, once for its ref and once   *)
(* for the terms it inherits, and the file of its predecessor in between;  *)
(* both commands may fetch a floor before they sign and a ceiling after    *)
(* it, and then truncate and write their output file.  The directory can   *)
(* change, and the process die, between any two of these steps.            *)
(*                                                                         *)
(* `due' stands for all that a postreg inherits (target, due, declaration, *)
(* hash_alg).  Bodies that differ in what the model leaves out have        *)
(* different refs: signing picks any ref whose body has the fields.        *)
(***************************************************************************)
EXTENDS Manifests

CONSTANTS
  Committer,  \* the processes
  Path,       \* the files of the directory
  Plan,       \* for each committer, the command lines it may be given
  Shelf,      \* what the directory holds at first
  Empty,      \* a file opened for writing to which nothing is written yet
  NoTerms     \* a payload no terms can be taken from: no object, no target...

\* Files with a `payload' and a `signature' that verify calls malformed: what they
\* hold may be the payload of a body, or of nothing that verify knows.
Loose == {d \in [ref : Ref \cup {Dangling}, terms : Nat \cup {NoDue, BadDue, NoTerms}] :
            d.ref \in Ref => d.terms = Body[d.ref].due}
Files == Documents \cup Loose

\* A command line: fulfills and prev name a file, or are a literal ref.
CommandLines ==
  [phase : {"prereg", "postreg"},
   key : KeyId,
   target : BOOLEAN,                       \* --target or --target-file is given
   due : Nat \cup {NoDue, BadDue},         \* BadDue: not an ISO-8601 time with an offset
   fulfills : Path \cup Ref \cup {Dangling},
   prev : Path \cup Ref \cup {Dangling, NoLink},
   floor : BOOLEAN, ceiling : BOOLEAN, bestEffort : BOOLEAN,
   out : Path]

ASSUME SigningAssumption ==
  /\ Path \cap (Ref \cup {Dangling, NoLink}) = {}
  /\ Plan \in [Committer -> SUBSET CommandLines]
  /\ Shelf \in [Path -> Files \cup {NoFile}]
  /\ NoFile \notin Loose /\ Malformed \notin Loose
  /\ Empty \notin Files \cup {NoFile}
  /\ NoTerms \notin Nat \cup {NoDue, BadDue}

VARIABLES
  disk,       \* what the file at each path holds
  stage,      \* where each committer is
  job,        \* its command line
  fulfills,   \* the ref it resolved --fulfills to
  prev,       \* the ref it resolved --prev to, or NoLink
  due,        \* the terms of the body it signs
  mani        \* the manifest it signed

vars == <<disk, stage, job, fulfills, prev, due, mani>>

Stages == {"idle", "fulfills", "prev", "inherit", "floor", "ceiling", "open", "write",
           "done", "refused", "dead"}

NoJob == NoFile     \* the command line of a committer that has not started

Goes(c, from, to) == stage[c] = from /\ stage' = [stage EXCEPT ![c] = to]

\* manifest.load and get_body succeed, which ask for less than verify does
Readable(p) == p \in Path /\ disk[p] \in Envelopes \cup Loose

\* what a postreg would inherit from a readable file
TermsAt(p) == IF disk[p] \in Envelopes THEN Body[disk[p].ref].due ELSE disk[p].terms

\* _resolve_ref: of a readable file the ref of its payload, of a literal ref the ref
Resolves(v) == Readable(v) \/ v \in Ref \cup {Dangling}
RefAt(v) == IF v \in Path THEN disk[v].ref ELSE v

-----------------------------------------------------------------------------
Init ==
  /\ disk = Shelf
  /\ stage = [c \in Committer |-> "idle"]
  /\ job = [c \in Committer |-> NoJob]
  /\ fulfills = [c \in Committer |-> NoLink]
  /\ prev = [c \in Committer |-> NoLink]
  /\ due = [c \in Committer |-> NoDue]
  /\ mani = [c \in Committer |-> NoFile]

\* A prereg without a target, or with a --due that does not parse, is refused.
BeginPrereg(c) ==
  \E j \in Plan[c] :
    /\ j.phase = "prereg"
    /\ Goes(c, "idle", IF j.target /\ j.due # BadDue THEN "floor" ELSE "refused")
    /\ job' = [job EXCEPT ![c] = j]
    /\ due' = [due EXCEPT ![c] = j.due]
    /\ UNCHANGED <<disk, fulfills, prev, mani>>

BeginPostreg(c) ==
  \E j \in Plan[c] :
    /\ j.phase = "postreg"
    /\ Goes(c, "idle", "fulfills")
    /\ job' = [job EXCEPT ![c] = j]
    /\ UNCHANGED <<disk, fulfills, prev, due, mani>>

\* _resolve_ref(args.fulfills, "--fulfills")
ResolveFulfills(c) ==
  /\ Goes(c, "fulfills", "prev")
  /\ Resolves(job[c].fulfills)
  /\ fulfills' = [fulfills EXCEPT ![c] = RefAt(job[c].fulfills)]
  /\ UNCHANGED <<disk, job, prev, due, mani>>

\* Mutant: the wrong argument is resolved.
ResolvePrevOfFulfills(c) ==
  /\ Goes(c, "prev", "inherit")
  /\ job[c].prev = NoLink \/ Resolves(job[c].prev)
  /\ prev' = [prev EXCEPT ![c] = IF job[c].prev = NoLink THEN NoLink ELSE fulfills[c]]
  /\ UNCHANGED <<disk, job, fulfills, due, mani>>

\* _resolve_ref(args.prev, "--prev") if args.prev else None
ResolvePrev(c) ==
  /\ Goes(c, "prev", "inherit")
  /\ job[c].prev = NoLink \/ Resolves(job[c].prev)
  /\ prev' = [prev EXCEPT ![c] = IF job[c].prev = NoLink THEN NoLink ELSE RefAt(job[c].prev)]
  /\ UNCHANGED <<disk, job, fulfills, due, mani>>

\* A link that is no readable manifest and no ref.
RefuseLink(c) ==
  /\ \/ /\ Goes(c, "fulfills", "refused")
        /\ ~ Resolves(job[c].fulfills)
     \/ /\ Goes(c, "prev", "refused")
        /\ job[c].prev # NoLink /\ ~ Resolves(job[c].prev)
  /\ UNCHANGED <<disk, job, fulfills, prev, due, mani>>

\* Mutant: the terms are those of the predecessor.
InheritFromPrev(c) ==
  LET j == job[c]
      file == IF j.prev \in Path THEN j.prev ELSE j.fulfills IN
  /\ Goes(c, "inherit", "floor")
  /\ j.fulfills \in Path => Readable(j.fulfills)
  /\ j.target \/ j.fulfills \in Path
  /\ j.due # BadDue
  /\ due' = [due EXCEPT ![c] = IF j.due # NoDue THEN j.due
                               ELSE IF Readable(file) THEN TermsAt(file)
                               ELSE NoDue]
  /\ UNCHANGED <<disk, job, fulfills, prev, mani>>

\* _load_manifest_body(args.fulfills) once more: terms that the command line
\* does not give are those of the file as it is now.  A payload without terms
\* will do for a command line that gives them all.
Inherit(c) ==
  LET j == job[c] IN
  /\ Goes(c, "inherit", "floor")
  /\ j.fulfills \in Path =>
       /\ Readable(j.fulfills)
       /\ TermsAt(j.fulfills) = NoTerms => j.target /\ j.due # NoDue
  /\ j.target \/ j.fulfills \in Path
  /\ j.due # BadDue
  /\ due' = [due EXCEPT ![c] = IF j.due # NoDue THEN j.due
                               ELSE IF j.fulfills \in Path THEN TermsAt(j.fulfills)
                               ELSE NoDue]
  /\ UNCHANGED <<disk, job, fulfills, prev, mani>>

\* The file has become unreadable or has no terms, no target is known, or --due
\* does not parse.
RefuseTerms(c) ==
  /\ Goes(c, "inherit", "refused")
  /\ \/ /\ job[c].fulfills \in Path
        /\ Readable(job[c].fulfills) => TermsAt(job[c].fulfills) = NoTerms
     \/ ~ job[c].target /\ job[c].fulfills \notin Path
     \/ job[c].due = BadDue
  /\ UNCHANGED <<disk, job, fulfills, prev, due, mani>>

\* build_prereg or build_postreg, then sign
Sign(c, floor) ==
  \E r \in Ref :
    /\ Goes(c, "floor", "ceiling")
    /\ Body[r] = [phase |-> job[c].phase, fulfills |-> fulfills[c], prev |-> prev[c],
                  due |-> due[c], floor |-> floor, subject |-> "absent"]
    /\ mani' = [mani EXCEPT ![c] = [ref |-> r, keyid |-> job[c].key, sigOK |-> TRUE,
                                    keyidOK |-> TRUE, ceiling |-> NoCeiling]]
    /\ UNCHANGED <<disk, job, fulfills, prev, due>>

\* _get_floor, then the body: the beacon is not verified when it is fetched, so
\* a mirror that serves a bad one is found out by the verifier only.
SignWithFloor(c) ==
  /\ stage[c] = "floor"
  /\ \E floor \in {"absent", "good", "forged"} :
       /\ IF floor = "absent" THEN job[c].floor => job[c].bestEffort ELSE job[c].floor
       /\ Sign(c, floor)

\* "nothing was signed"
RefuseFloor(c) ==
  /\ Goes(c, "floor", "refused")
  /\ job[c].floor /\ ~ job[c].bestEffort
  /\ UNCHANGED <<disk, job, fulfills, prev, due, mani>>

\* Mutant: the nonce sent to the witness is the ref of the fulfilled prereg.
AttachCeilingOfPrereg(c) ==
  /\ Goes(c, "ceiling", "open")
  /\ job[c].ceiling
  /\ mani' = [mani EXCEPT ![c].ceiling =
                [form |-> "ok",
                 nonce |-> IF fulfills[c] = NoLink THEN mani[c].ref ELSE fulfills[c],
                 pinned |-> TRUE, pubkeyAgrees |-> TRUE, responseValid |-> TRUE]]
  /\ UNCHANGED <<disk, job, fulfills, prev, due>>

\* _attach_ceiling: fetch_ceiling returns only what it has verified.
AttachCeiling(c) ==
  /\ Goes(c, "ceiling", "open")
  /\ job[c].ceiling
  /\ mani' = [mani EXCEPT ![c].ceiling =
                [form |-> "ok", nonce |-> mani[c].ref, pinned |-> TRUE,
                 pubkeyAgrees |-> TRUE, responseValid |-> TRUE]]
  /\ UNCHANGED <<disk, job, fulfills, prev, due>>

\* No ceiling was asked for, or none could be had and that will do.
NoCeilingNeeded(c) ==
  /\ Goes(c, "ceiling", "open")
  /\ ~ job[c].ceiling \/ job[c].bestEffort
  /\ UNCHANGED <<disk, job, fulfills, prev, due, mani>>

\* "nothing was written"
RefuseCeiling(c) ==
  /\ Goes(c, "ceiling", "refused")
  /\ job[c].ceiling /\ ~ job[c].bestEffort
  /\ UNCHANGED <<disk, job, fulfills, prev, due, mani>>

\* Mutant: the output file is opened as soon as there is something to save in it,
\* before the ceiling is fetched.
OpenOutEarly(c) ==
  /\ Goes(c, "ceiling", "ceiling") \/ Goes(c, "open", "write")
  /\ disk' = [disk EXCEPT ![job[c].out] = Empty]
  /\ UNCHANGED <<job, fulfills, prev, due, mani>>

\* manifest.save: open(path, "w") truncates what is there
OpenOut(c) ==
  /\ Goes(c, "open", "write")
  /\ disk' = [disk EXCEPT ![job[c].out] = Empty]
  /\ UNCHANGED <<job, fulfills, prev, due, mani>>

\* Mutant: the body is saved without its envelope.
WriteOutBody(c) ==
  /\ Goes(c, "write", "done")
  /\ disk' = [disk EXCEPT ![job[c].out] = Body[mani[c].ref]]
  /\ UNCHANGED <<job, fulfills, prev, due, mani>>

\* The text is written and the file closed.  If somebody else has written to
\* the file since it was opened, what is left of theirs may follow it.
WriteOut(c) ==
  /\ Goes(c, "write", "done")
  /\ \E d \in {mani[c], Malformed} :
       /\ disk[job[c].out] = Empty => d = mani[c]
       /\ disk' = [disk EXCEPT ![job[c].out] = d]
  /\ UNCHANGED <<job, fulfills, prev, due, mani>>

Die(c) ==
  /\ stage[c] \notin {"done", "refused", "dead"}
  /\ stage' = [stage EXCEPT ![c] = "dead"]
  /\ UNCHANGED <<disk, job, fulfills, prev, due, mani>>

Step(c) ==
  \/ BeginPrereg(c) \/ BeginPostreg(c)
  \/ ResolveFulfills(c) \/ ResolvePrev(c) \/ RefuseLink(c)
  \/ Inherit(c) \/ RefuseTerms(c)
  \/ SignWithFloor(c) \/ RefuseFloor(c)
  \/ AttachCeiling(c) \/ NoCeilingNeeded(c) \/ RefuseCeiling(c)
  \/ OpenOut(c) \/ WriteOut(c)

Next == \E c \in Committer : Step(c) \/ Die(c)

Spec == Init /\ [][Next]_vars

-----------------------------------------------------------------------------
(* Properties *)

HasSigned(c) == stage[c] \in {"ceiling", "open", "write", "done"}

\* Type correctness of the directory and of what each committer has found out.
TypeOK ==
  /\ disk \in [Path -> Files \cup {NoFile, Empty}]
  /\ stage \in [Committer -> Stages]
  /\ DOMAIN job = Committer /\ DOMAIN mani = Committer
  /\ \A c \in Committer : stage[c] \notin {"idle", "dead"} => job[c] \in Plan[c]
  /\ fulfills \in [Committer -> Ref \cup {Dangling, NoLink}]
  /\ prev \in [Committer -> Ref \cup {Dangling, NoLink}]
  /\ due \in [Committer -> Nat \cup {NoDue, BadDue}]
  /\ \A c \in Committer : HasSigned(c) => mani[c] \in Envelopes

\* "target / due / declaration / hash_alg inherit from the fulfilled prereg
\* unless overridden": the terms of a postreg are those of the very manifest
\* that its fulfills names, although the two come from two readings.
InheritsFromFulfilled ==
  \A c \in Committer :
    (/\ HasSigned(c) /\ job[c].phase = "postreg"
     /\ job[c].fulfills \in Path /\ job[c].due = NoDue /\ FulfillsOf(mani[c]) \in Ref)
      => Body[mani[c].ref].due = Body[FulfillsOf(mani[c])].due

\* What the command line insisted on is had.
AsAsked(c) ==
  job[c].bestEffort \/ /\ job[c].floor => Body[mani[c].ref].floor # "absent"
                       /\ job[c].ceiling => mani[c].ceiling # NoCeiling

\* "If a requested --floor/--ceiling fetch fails, signing fails and nothing is
\* written": a manifest that its committer has written carries what was asked
\* for, and a ceiling, whoever asked for it, is for that very body.
WitnessesAsAsked ==
  \A c \in Committer :
    stage[c] \in {"open", "write", "done"} =>
      AsAsked(c) /\ CeilingStatus(mani[c]) \in {"absent", "verified"}

\* No two command lines write one file, and none writes a file that exists.
FreshOuts ==
  \A c \in Committer : \A j \in Plan[c] :
    /\ Shelf[j.out] = NoFile
    /\ \A e \in Committer \ {c} : \A k \in Plan[e] : k.out # j.out

\* With fresh output files the directory only grows: a file is created, without
\* its content, and then filled once, whoever dies or fails in between, which is
\* what Archive assumes of those who write.  A file is touched only by a
\* committer that has signed, and has every witness it insists on; whoever is
\* refused, at whatever step, leaves nothing behind ("nothing was written").
DirectoryGrows ==
  [][FreshOuts =>
       /\ \A p \in Path : disk'[p] # disk[p] =>
            \E c \in Committer :
              /\ HasSigned(c) /\ job[c].out = p /\ AsAsked(c)
              /\ \/ disk[p] = NoFile /\ disk'[p] = Empty
                 \/ disk[p] = Empty /\ disk'[p] = mani[c]
       /\ \A c \in Committer : stage'[c] = "refused" => disk'[job'[c].out] = NoFile]_vars

\* With fresh output files no link goes stale: a file that a manifest was linked
\* to by name still holds the manifest of that ref, however long ago it was
\* read - so the finished manifest dangles nowhere in its directory.
LinksResolve ==
  FreshOuts =>
    \A c \in Committer :
      HasSigned(c) /\ job[c].phase = "postreg" =>
        /\ job[c].fulfills \in Path =>
             Readable(job[c].fulfills) /\ disk[job[c].fulfills].ref = FulfillsOf(mani[c])
        /\ job[c].prev \in Path =>
             Readable(job[c].prev) /\ disk[job[c].prev].ref = PrevOf(mani[c])
=============================================================================
