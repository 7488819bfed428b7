----------------------------- MODULE Verifier -----------------------------
(***************************************************************************)
(* One run of `asexec verify': verifier.verify_paths with the helpers it   *)
(* calls, started by cmd_verify.                                           *)
(*                                                                         *)
(* A run expands its arguments into a list of files, reads and checks the  *)
(* files one at a time, then sorts the postregs it kept under the preregs  *)
(* it found, judges every commitment and evaluates the requested tests.    *)
(* The directory is shared with whoever writes manifests; a run sees each  *)
(* file as it is at the moment it reads it.                                *)
(***************************************************************************)
EXTENDS Manifests, Sequences

CONSTANTS
  Docs,       \* the documents in play
  Times,      \* the clock readings in play
  Path,       \* the paths of .json files; their order is the order of names
  Directory,  \* the argument that stands for the whole directory
  Arguments,  \* argument lists a run may be given
  Requests,   \* values of --tests a run may be given, each a set of names
  MaxFiles,   \* bound: longer lists of files are not explored
  NoReport    \* no run has ended yet

TestCatalog == {"BDR", "ceiling", "chain", "content", "floor", "keyconsist"}
RequiredTest == "BDR"

ASSUME DocsAssumption == Docs \subseteq Documents /\ Times \subseteq Nat
ASSUME PathAssumption == Path \subseteq Nat /\ MaxFiles \in Nat
ASSUME ArgumentAssumption ==
  /\ Directory \notin Path
  /\ Arguments \subseteq Seq(Path \cup {Directory})

VARIABLES
  disk,       \* what the file at each path holds
  clock,      \* the wall clock
  pc,         \* where the run is
  now,        \* the moment commitment states are judged at
  tests,      \* the requested tests
  artifacts,  \* whether --artifacts was given
  files,      \* the expanded list of files
  read,       \* manifests_report: what was read, in the order of `files'
  preregs,    \* for each ref, the position of its prereg record, or 0
  pending,    \* postregs not yet grouped (positions)
  counted,    \* pr["receipts"]: positions counted toward the prereg
  rejected,   \* pr["rejected_receipts"]: position |-> reason is a function of it
  notarized,  \* notarization_only
  report      \* what the last run that ended reported

env == <<disk, clock>>
setup == <<now, tests, artifacts, files>>
grouping == <<pending, counted, rejected, notarized>>
vars == <<env, pc, setup, read, preregs, grouping, report>>

Position == 1 .. MaxFiles
FileLists == UNION {[1 .. n -> Path] : n \in 0 .. MaxFiles}

-----------------------------------------------------------------------------
(* Arguments *)

\* The outcome of parse_tests: refused, or the tests to run.
Accepts(request) == /\ request \subseteq TestCatalog
                    /\ RequiredTest \in request

\* sorted(os.listdir(p)), the names that end in .json
Listing ==
  LET here == {p \in Path : disk[p] # NoFile}
  IN CHOOSE s \in [1 .. Cardinality(here) -> here] :
       \A i, j \in 1 .. Cardinality(here) : i < j => s[i] < s[j]

\* _expand: a directory stands for its listing, anything else for itself
Expand(args) ==
  LET upTo[k \in 0 .. Len(args)] ==
        IF k = 0 THEN << >>
        ELSE upTo[k - 1] \o (IF args[k] = Directory THEN Listing ELSE <<args[k]>>)
  IN upTo[Len(args)]

\* A path that names no file is reported as malformed.
Contents(p) == IF disk[p] = NoFile THEN Malformed ELSE disk[p]

-----------------------------------------------------------------------------
(* Judging *)

\* Mutant: the key id is compared before the signature is checked.
RejectionReasonKeyFirst(i, r) ==
  IF read[i].keyid # read[preregs[r]].keyid THEN "different key"
  ELSE IF ~ Signed(read[i]) THEN "invalid signature"
  ELSE "none"

\* Mutant: a postreg no longer counts once the deadline has passed.
RejectionReasonLate(i, r) ==
  IF ~ Signed(read[i]) THEN "invalid signature"
  ELSE IF read[i].keyid # read[preregs[r]].keyid THEN "different key"
  ELSE IF Body[r].due \notin {NoDue, BadDue} /\ now >= Body[r].due THEN "late"
  ELSE "none"

\* _get_postreg_rejection_reason(sig, pr), for the postreg at i under ref r
RejectionReason(i, r) ==
  IF ~ Signed(read[i]) THEN "invalid signature"
  ELSE IF read[i].keyid # read[preregs[r]].keyid THEN "different key"
  ELSE "none"

\* Mutant: the deadline itself is still in time.
CommitmentStateAtDue(r) ==
  IF counted[r] # {} THEN "fulfilled"
  ELSE IF Body[r].due = BadDue THEN "invalid-due"
  ELSE IF Body[r].due # NoDue /\ now > Body[r].due THEN "elapsed-no-receipt"
  ELSE "open"

\* Mutant: a rejected postreg keeps the commitment open past its deadline.
CommitmentStateLenient(r) ==
  IF counted[r] # {} THEN "fulfilled"
  ELSE IF Body[r].due = BadDue THEN "invalid-due"
  ELSE IF Body[r].due # NoDue /\ now >= Body[r].due /\ rejected[r] = {}
       THEN "elapsed-no-receipt"
  ELSE "open"

\* _commitment_state, with _parse_due
CommitmentState(r) ==
  LET due == Body[r].due
  IN CASE counted[r] # {}                                        -> "fulfilled"
       [] counted[r] = {} /\ due = NoDue                         -> "open"
       [] counted[r] = {} /\ due = BadDue                        -> "invalid-due"
       [] counted[r] = {} /\ due \notin {NoDue, BadDue} /\ now >= due
                                                                 -> "elapsed-no-receipt"
       [] OTHER                                                  -> "open"

ChainOK(r) == CheckChain(counted[r],
                         [i \in counted[r] |-> read[i].ref],
                         [i \in counted[r] |-> PrevOf(read[i])])

KeyConsistent(r) == \A i \in rejected[r] : RejectionReason(i, r) # "different key"

Commitments == {r \in Ref : preregs[r] # 0}

\* The entries `commitments' of the report
Judged ==
  [r \in Commitments |->
     [state |-> CommitmentState(r),
      chainOK |-> ChainOK(r),
      keyConsistent |-> KeyConsistent(r),
      counted |-> counted[r],
      rejected |-> rejected[r]]]

\* Mutant: a test that applies nowhere passes.
TallyVacuous(units, pass) == IF units \subseteq pass THEN "PASS" ELSE "FAIL"

\* _tally: PASS iff the test applies somewhere and holds wherever it applies
Tally(units, pass) == IF units # {} /\ units \subseteq pass THEN "PASS" ELSE "FAIL"

\* _evaluate, for the test t
Evaluate(t) ==
  LET manifests == DOMAIN read
      floor(i)   == FloorStatus(read[i])
      ceiling(i) == CeilingStatus(read[i])
      content(i) == ContentStatus(read[i], artifacts)
      withReceipts == {r \in Commitments : counted[r] # {}}
      referenced == {r \in Commitments : counted[r] # {} \/ rejected[r] # {}}
  IN CASE t = "BDR" ->
            Tally(manifests, {i \in manifests : IsClean(read[i]) /\ Signed(read[i])})
       [] t = "floor" ->
            Tally({i \in manifests : floor(i) # "absent"},
                  {i \in manifests : floor(i) = "verified"})
       [] t = "ceiling" ->
            Tally({i \in manifests : ceiling(i) # "absent"},
                  {i \in manifests : ceiling(i) = "verified"})
       [] t = "content" ->
            Tally({i \in manifests : content(i) # "skipped"},
                  {i \in manifests : content(i) = "ok"})
       [] t = "chain" -> Tally(withReceipts, {r \in Commitments : ChainOK(r)})
       [] t = "keyconsist" -> Tally(referenced, {r \in Commitments : KeyConsistent(r)})

\* The report of the run: the verify code is `results', the exit status `ok'.
ReportNow ==
  [read |-> read,
   commitments |-> Judged,
   notarized |-> notarized,
   results |-> [t \in tests |-> Evaluate(t)],
   ok |-> \A t \in tests : Evaluate(t) = "PASS"]

-----------------------------------------------------------------------------
(* The run *)

Init ==
  /\ disk \in [Path -> Docs \cup {NoFile}]
  /\ clock \in Times
  /\ pc = "idle"
  /\ now = 0 /\ tests = {} /\ artifacts = FALSE /\ files = << >>
  /\ read = << >>
  /\ preregs = [r \in Ref |-> 0]
  /\ pending = {} /\ notarized = {}
  /\ counted = [r \in Ref |-> {}]
  /\ rejected = [r \in Ref |-> {}]
  /\ report = NoReport

\* cmd_verify refuses the request before it looks at any file.
Refuse(request) ==
  /\ pc = "idle"
  /\ ~ Accepts(request)
  /\ pc' = "refused"
  /\ UNCHANGED <<env, setup, read, preregs, grouping, report>>

Start(request, args, withArtifacts) ==
  /\ pc = "idle"
  /\ Accepts(request)
  /\ Expand(args) \in FileLists
  /\ pc' = "load"
  /\ now' = clock
  /\ tests' = request
  /\ artifacts' = withArtifacts
  /\ files' = Expand(args)
  /\ read' = << >>
  /\ preregs' = [r \in Ref |-> 0]
  /\ pending' = {} /\ notarized' = {}
  /\ counted' = [r \in Ref |-> {}]
  /\ rejected' = [r \in Ref |-> {}]
  /\ UNCHANGED <<env, report>>

\* os.listdir raises on a directory that may not be listed, or is gone by now.
ListingFails(request, args) ==
  /\ pc = "idle"
  /\ Accepts(request)
  /\ \E k \in DOMAIN args : args[k] = Directory
  /\ pc' = "unlisted"
  /\ UNCHANGED <<env, setup, read, preregs, grouping, report>>

Upcoming == Contents(files[Len(read) + 1])

CheckRaises == ContentStatus(Upcoming, artifacts) = "raises"

\* One turn of the loop over `files': the next file is opened and checked.
LoadNext ==
  /\ pc = "load"
  /\ Len(read) < Len(files)
  /\ ~ CheckRaises
  /\ read' = Append(read, Upcoming)
  /\ UNCHANGED <<env, pc, setup, counted, rejected, notarized, report>>

\* preregs[sig["ref"]] = {...}: a later prereg with the same ref replaces it.
LoadPrereg ==
  /\ LoadNext
  /\ IsPrereg(Upcoming)
  /\ preregs' = [preregs EXCEPT ![Upcoming.ref] = Len(read) + 1]
  /\ UNCHANGED pending

\* Mutant: postregs are numbered from 0.
LoadPostregFromZero ==
  /\ LoadNext
  /\ IsPostreg(Upcoming)
  /\ pending' = pending \cup {Len(read)}
  /\ UNCHANGED preregs

\* receipts.append(...): it waits for the grouping loop.
LoadPostreg ==
  /\ LoadNext
  /\ IsPostreg(Upcoming)
  /\ pending' = pending \cup {Len(read) + 1}
  /\ UNCHANGED preregs

\* Malformed, or a signed body of some other phase: only the manifest tests see it.
LoadOther ==
  /\ LoadNext
  /\ ~ IsPrereg(Upcoming) /\ ~ IsPostreg(Upcoming)
  /\ UNCHANGED <<preregs, pending>>

\* verify_content is called outside the try: what it raises ends the command,
\* and there is no report.
LoadRaises ==
  /\ pc = "load"
  /\ Len(read) < Len(files)
  /\ CheckRaises
  /\ pc' = "raised"
  /\ UNCHANGED <<env, setup, read, preregs, grouping, report>>

\* Mutant: a run waits for a first file.
EndLoadNonEmpty ==
  /\ pc = "load"
  /\ Len(read) = Len(files) /\ Len(read) > 0
  /\ pc' = "group"
  /\ UNCHANGED <<env, setup, read, preregs, grouping, report>>

EndLoad ==
  /\ pc = "load"
  /\ Len(read) = Len(files)
  /\ pc' = "group"
  /\ UNCHANGED <<env, setup, read, preregs, grouping, report>>

\* One turn of the loop over the postregs, in the order they were read.
GroupNext(i) ==
  /\ pc = "group"
  /\ i \in pending
  /\ \A j \in pending : i <= j
  /\ pending' = pending \ {i}
  /\ UNCHANGED <<env, pc, setup, read, preregs, report>>

\* Mutant: only a prereg that was read before the postreg is found.
HasEarlierPrereg(i) ==
  FulfillsOf(read[i]) \in Commitments /\ preregs[FulfillsOf(read[i])] < i

HasPrereg(i) == FulfillsOf(read[i]) \in Commitments

GroupCounted ==
  \E i \in pending :
    /\ GroupNext(i)
    /\ HasPrereg(i)
    /\ RejectionReason(i, FulfillsOf(read[i])) = "none"
    /\ counted' = [counted EXCEPT ![FulfillsOf(read[i])] = @ \cup {i}]
    /\ UNCHANGED <<rejected, notarized>>

\* Mutant: a badly signed postreg is dropped.
GroupRejectedSignedOnly ==
  \E i \in pending :
    /\ GroupNext(i)
    /\ HasPrereg(i)
    /\ RejectionReason(i, FulfillsOf(read[i])) # "none"
    /\ rejected' = IF Signed(read[i])
                   THEN [rejected EXCEPT ![FulfillsOf(read[i])] = @ \cup {i}]
                   ELSE rejected
    /\ UNCHANGED <<counted, notarized>>

GroupRejected ==
  \E i \in pending :
    /\ GroupNext(i)
    /\ HasPrereg(i)
    /\ RejectionReason(i, FulfillsOf(read[i])) # "none"
    /\ rejected' = [rejected EXCEPT ![FulfillsOf(read[i])] = @ \cup {i}]
    /\ UNCHANGED <<counted, notarized>>

GroupNotarized ==
  \E i \in pending :
    /\ GroupNext(i)
    /\ ~ HasPrereg(i)
    /\ notarized' = notarized \cup {i}
    /\ UNCHANGED <<counted, rejected>>

\* The loop over the commitments, _evaluate and _build_code: nothing is read
\* from outside and nothing can interleave.
Conclude ==
  /\ pc = "group"
  /\ pending = {}
  /\ report' = ReportNow
  /\ pc' = "done"
  /\ UNCHANGED <<env, setup, read, preregs, grouping>>

Begin == \E request \in Requests, args \in Arguments, with \in BOOLEAN :
           \/ Start(request, args, with)
           \/ ListingFails(request, args)
           \/ Refuse(request)

Run == \/ LoadPrereg \/ LoadPostreg \/ LoadOther \/ LoadRaises \/ EndLoad
       \/ GroupCounted \/ GroupRejected \/ GroupNotarized
       \/ Conclude

Next == Begin \/ Run

Spec == Init /\ [][Next]_vars

\* A run is one sequential loop over a finite list and waits for nothing.
FairSpec == Spec /\ WF_vars(Run)

-----------------------------------------------------------------------------
(* Properties *)

Entries ==
  [state : {"fulfilled", "open", "elapsed-no-receipt", "invalid-due"},
   chainOK : BOOLEAN,
   keyConsistent : BOOLEAN,
   counted : SUBSET Position,
   rejected : SUBSET Position]

\* Type correctness: every variable of a run, and the last report, has the
\* shape the code gives it.  (A file that is being written is malformed.)
TypeOK ==
  /\ disk \in [Path -> Docs \cup {Malformed, NoFile}] /\ clock \in Times
  /\ pc \in {"idle", "refused", "unlisted", "load", "raised", "group", "done"}
  /\ now \in Nat /\ tests \subseteq TestCatalog /\ artifacts \in BOOLEAN
  /\ files \in FileLists
  /\ read \in Seq(Docs \cup {Malformed}) /\ Len(read) <= Len(files)
  /\ preregs \in [Ref -> 0 .. MaxFiles]
  /\ pending \subseteq Position /\ notarized \subseteq Position
  /\ counted \in [Ref -> SUBSET Position] /\ rejected \in [Ref -> SUBSET Position]
  /\ report # NoReport =>
       /\ DOMAIN report.commitments \subseteq Ref
       /\ \A r \in DOMAIN report.commitments : report.commitments[r] \in Entries
       /\ \A t \in DOMAIN report.results : report.results[t] \in {"PASS", "FAIL"}

Preregs  == {i \in DOMAIN read : IsPrereg(read[i])}
Postregs == {i \in DOMAIN read : IsPostreg(read[i])}

Buckets == {pending, notarized} \cup {counted[r] : r \in Ref} \cup {rejected[r] : r \in Ref}

\* No postreg is lost or used twice: at every moment of a run each well-formed
\* postreg read so far sits in exactly one place - waiting, under the one prereg
\* it names (counted or rejected), or notarization-only - and nothing else does
\* (the three lists verify_paths builds between the two loops).
PostregsPlacedOnce ==
  /\ Postregs = UNION Buckets
  /\ pending \cap notarized = {}
  /\ \A r \in Ref :
       /\ counted[r] \cap rejected[r] = {}
       /\ (counted[r] \cup rejected[r]) \cap (pending \cup notarized) = {}
       /\ \A i \in counted[r] \cup rejected[r] : FulfillsOf(read[i]) = r

\* No two preregs among the files have the same body under different key ids.
NoRivals ==
  \A p, q \in Preregs : read[p].ref = read[q].ref => read[p].keyid = read[q].keyid

\* The counting rule, file by file: a postreg counts toward a supplied prereg
\* iff it names it, is validly signed, and by the prereg's key; if it names it
\* and fails the rest it is rejected under it.  Stated of the files alone, so
\* neither their order nor any other file can have a say.
CountsIffRule ==
  \A p \in Preregs, q \in Postregs :
    LET r == read[p].ref
        meets == Signed(read[q]) /\ read[q].keyid = read[p].keyid
    IN /\ q \in report.commitments[r].counted  <=> FulfillsOf(read[q]) = r /\ meets
       /\ q \in report.commitments[r].rejected <=> FulfillsOf(read[q]) = r /\ ~ meets

\* The report obeys the counting rule whenever no prereg has a rival.
CountingRule == pc = "done" /\ NoRivals => CountsIffRule

\* The same promise as the documentation makes it, of any files at all.
CountingRuleAlways == pc = "done" => CountsIffRule

\* A commitment's chain passes exactly when its counted postregs can be listed
\* as one linear history, each naming the one before it (_check_chain reaches
\* that verdict by counting roots, gaps and forks, without walking the chain).
ChainIsLinear ==
  pc = "done" =>
    \A r \in DOMAIN report.commitments :
      LET R == report.commitments[r].counted
      IN report.commitments[r].chainOK
           <=> Linear(R, [i \in R |-> read[i].ref], [i \in R |-> PrevOf(read[i])])

\* keyconsist judges every validly signed postreg that names the prereg, and no
\* other: its verdict, which the code takes from the text of the rejection
\* reasons, is that all of these carry the key id of the prereg.
KeyConsistExact ==
  pc = "done" /\ NoRivals =>
    \A p \in Preregs :
      report.commitments[read[p].ref].keyConsistent
        <=> \A q \in Postregs :
              FulfillsOf(read[q]) = read[p].ref /\ Signed(read[q])
                => read[q].keyid = read[p].keyid

\* Exit status 0 from a run of BDR, chain and keyconsist leaves nothing out:
\* every file was well formed and signed, every postreg that names a supplied
\* prereg counts toward it, one commitment at least is fulfilled, none of its
\* postregs was supplied twice, and the postregs of each commitment are one
\* linear history.  No single test says so; the three do.
PassMeansWhole ==
  pc = "done" /\ report.ok /\ {"BDR", "chain", "keyconsist"} \subseteq tests =>
    /\ \A i \in DOMAIN read : IsClean(read[i]) /\ Signed(read[i])
    /\ \A q \in Postregs : (\E p \in Preregs : read[p].ref = FulfillsOf(read[q]))
                             => q \in report.commitments[FulfillsOf(read[q])].counted
    /\ \E r \in DOMAIN report.commitments : report.commitments[r].state = "fulfilled"
    /\ \A i, j \in Postregs : i \notin notarized /\ read[i].ref = read[j].ref => i = j
    /\ \A r \in DOMAIN report.commitments :
         LET R == report.commitments[r].counted
         IN Linear(R, [i \in R |-> read[i].ref], [i \in R |-> PrevOf(read[i])])

\* Exit status 0 also hides no bad witness: with floor, ceiling and content
\* requested, each is carried by some file, and whatever a file carries of
\* them verifies - for a ceiling, that it was issued for that very body.  (The
\* three tests skip a malformed file altogether; only BDR catches it.)
WitnessesHold ==
  pc = "done" /\ report.ok =>
    /\ "floor" \in tests =>
         /\ \A i \in DOMAIN read : Body[read[i].ref].floor \in {"absent", "good"}
         /\ \E i \in DOMAIN read : Body[read[i].ref].floor = "good"
    /\ "ceiling" \in tests =>
         /\ \A i \in DOMAIN read : read[i].ceiling # NoCeiling =>
              LET c == read[i].ceiling
              IN c.nonce = read[i].ref /\ c.pinned /\ c.pubkeyAgrees /\ c.responseValid
         /\ \E i \in DOMAIN read : read[i].ceiling # NoCeiling
    /\ "content" \in tests =>
         /\ artifacts
         /\ \A i \in DOMAIN read : Body[read[i].ref].subject \in {"absent", "matches"}
         /\ \E i \in DOMAIN read : Body[read[i].ref].subject = "matches"

\* Whatever the files hold, a run that has its list of files ends: with a report,
\* or with an exception over a subject that cannot be looked up, and then the
\* run was given --artifacts and stands at the file that is to blame.
RunEnds ==
  pc = "load" ~> \/ pc = "done"
                 \/ /\ pc = "raised" /\ artifacts /\ Len(read) < Len(files)
                    /\ IsClean(Upcoming) /\ Body[Upcoming.ref].subject = "raises"

\* What the documentation says of any input: each test yields PASS or FAIL and
\* there is no error state (verify_content is outside the try of its loop).
NoErrorState == pc # "raised"
=============================================================================
