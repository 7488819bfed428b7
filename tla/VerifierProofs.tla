-------------------------- MODULE VerifierProofs --------------------------
(***************************************************************************)
(* Theorems about Verifier, for all values of its constants: its           *)
(* invariants, and that it implements Catalog.                             *)
(***************************************************************************)
EXTENDS VerifierRefinement, ChainProofs

-----------------------------------------------------------------------------
(* The inductive invariant *)

\* A prereg is on record for exactly the refs that a prereg read so far has,
\* and the one on record is the last of them.
PreregsLatest ==
  \A r \in Ref :
    /\ preregs[r] # 0 =>
         /\ preregs[r] \in Preregs
         /\ read[preregs[r]].ref = r
    /\ \A i \in Preregs : read[i].ref = r => i <= preregs[r]

\* Where the grouping loop has put the postregs it is done with.
Sorted ==
  /\ pending \subseteq Postregs
  /\ notarized = {i \in Postregs \ pending : ~ HasPrereg(i)}
  /\ \A r \in Ref :
       /\ counted[r] = {i \in Postregs \ pending :
                          /\ FulfillsOf(read[i]) = r /\ r \in Commitments
                          /\ RejectionReason(i, r) = "none"}
       /\ rejected[r] = {i \in Postregs \ pending :
                          /\ FulfillsOf(read[i]) = r /\ r \in Commitments
                          /\ RejectionReason(i, r) # "none"}

Progress ==
  /\ pc = "load" => pending = Postregs
  /\ pc \in {"group", "done"} => Len(read) = Len(files)
  /\ pc = "done" => pending = {} /\ report = ReportNow

IInv == TypeOK /\ PreregsLatest /\ Sorted /\ Progress

-----------------------------------------------------------------------------
(* Lemmas *)

\* A well-formed document is an envelope, and its ref is that of a known body.
LEMMA CleanIsEnvelope ==
  ASSUME NEW d \in Docs \cup {Malformed}, IsClean(d)
  PROVE  d \in Envelopes /\ d.ref \in Ref /\ Body[d.ref] \in Bodies
BY DocsAssumption, BodyAssumption DEF IsClean, Documents, Envelopes

\* What a run reads next is a document in play, or malformed.
LEMMA UpcomingType ==
  ASSUME TypeOK, Len(read) < Len(files)
  PROVE  Upcoming \in Docs \cup {Malformed}
<1>1. PICK n \in 0 .. MaxFiles : files \in [1 .. n -> Path]
  BY DEF TypeOK, FileLists
<1>2. n \in Nat /\ Len(files) = n /\ Len(read) \in Nat
  BY <1>1, PathAssumption DEF TypeOK
<1>3. Len(read) + 1 \in 1 .. n
  BY <1>2
<1>4. disk[files[Len(read) + 1]] \in Docs \cup {Malformed, NoFile}
  BY <1>1, <1>3 DEF TypeOK
<1> QED BY <1>4 DEF Upcoming, Contents

\* Reading one more file leaves what was read before in its place.
LEMMA ReadGrows ==
  ASSUME TypeOK, Len(read) < Len(files), read' = Append(read, Upcoming)
  PROVE  /\ read' \in Seq(Docs \cup {Malformed})
         /\ Len(read') = Len(read) + 1
         /\ Len(read') \in Position
         /\ DOMAIN read = 1 .. Len(read)
         /\ DOMAIN read' = 1 .. Len(read) + 1
         /\ \A i \in DOMAIN read : read'[i] = read[i]
         /\ read'[Len(read) + 1] = Upcoming
<1>1. Upcoming \in Docs \cup {Malformed}
  BY UpcomingType
<1>2. read \in Seq(Docs \cup {Malformed})
  BY DEF TypeOK
<1>3. Len(files) <= MaxFiles /\ Len(files) \in Nat
  BY PathAssumption DEF TypeOK, FileLists
<1> QED BY <1>1, <1>2, <1>3, PathAssumption DEF Position

\* Positions of what was read are positions.
LEMMA ReadPositions ==
  ASSUME TypeOK
  PROVE  /\ DOMAIN read \subseteq Position
         /\ \A i \in DOMAIN read : read[i] \in Docs \cup {Malformed}
<1>1. Len(files) <= MaxFiles /\ Len(files) \in Nat
  BY PathAssumption DEF TypeOK, FileLists
<1>2. read \in Seq(Docs \cup {Malformed}) /\ Len(read) <= Len(files)
  BY DEF TypeOK
<1> QED BY <1>1, <1>2, PathAssumption DEF Position

\* The report has the shape the type invariant asks for.
LEMMA ReportTyped ==
  ASSUME TypeOK
  PROVE  /\ DOMAIN ReportNow.commitments \subseteq Ref
         /\ \A r \in DOMAIN ReportNow.commitments : ReportNow.commitments[r] \in Entries
         /\ \A t \in DOMAIN ReportNow.results : ReportNow.results[t] \in {"PASS", "FAIL"}
<1>1. ReportNow.commitments = Judged /\ ReportNow.results = [t \in tests |-> Evaluate(t)]
  BY DEF ReportNow
<1>2. ASSUME NEW r \in Commitments PROVE Judged[r] \in Entries
  <2>1. r \in Ref BY DEF Commitments
  <2>2. CommitmentState(r) \in {"fulfilled", "open", "elapsed-no-receipt", "invalid-due"}
    BY DEF CommitmentState
  <2>3. ChainOK(r) \in BOOLEAN
    BY DEF ChainOK, CheckChain
  <2>4. KeyConsistent(r) \in BOOLEAN
    BY DEF KeyConsistent
  <2>5. counted[r] \in SUBSET Position /\ rejected[r] \in SUBSET Position
    BY <2>1 DEF TypeOK
  <2> QED BY <2>2, <2>3, <2>4, <2>5 DEF Judged, Entries
<1>3. ASSUME NEW t \in tests PROVE Evaluate(t) \in {"PASS", "FAIL"}
  <2>1. t \in TestCatalog BY DEF TypeOK
  <2>2. \A units, pass : Tally(units, pass) \in {"PASS", "FAIL"} BY DEF Tally
  <2> QED BY <2>1, <2>2 DEF Evaluate, TestCatalog
<1> QED BY <1>1, <1>2, <1>3 DEF Judged, Commitments

-----------------------------------------------------------------------------
(* Type correctness *)

\* The types hold at first.
LEMMA InitTyped == Init => TypeOK
<1> SUFFICES ASSUME Init PROVE TypeOK
  OBVIOUS
<1>1. << >> \in FileLists
  BY PathAssumption DEF FileLists
<1>2. read \in Seq(Docs \cup {Malformed}) /\ Len(read) = 0 /\ Len(files) = 0
  BY DEF Init
<1>3. report = NoReport /\ now \in Nat /\ artifacts \in BOOLEAN
  BY DEF Init
<1>4. preregs \in [Ref -> 0 .. MaxFiles]
  BY PathAssumption DEF Init
<1> QED BY <1>1, <1>2, <1>3, <1>4 DEF Init, TypeOK

\* Every step keeps the types.
LEMMA StepTyped == TypeOK /\ [Next]_vars => TypeOK'
<1> SUFFICES ASSUME TypeOK, [Next]_vars PROVE TypeOK'
  OBVIOUS
<1> USE PathAssumption
<1>1. ASSUME NEW request \in Requests, NEW args \in Arguments, NEW with \in BOOLEAN,
             Start(request, args, with)
      PROVE  TypeOK'
  <2>1. << >> \in Seq(Docs \cup {Malformed}) /\ Len(<< >>) = 0
    OBVIOUS
  <2>2. files' \in FileLists /\ Len(files') \in Nat
    BY <1>1 DEF Start, FileLists
  <2>3. now' \in Nat
    BY <1>1, DocsAssumption DEF Start, TypeOK
  <2>4. /\ disk' = disk /\ clock' = clock /\ report' = report /\ pc' = "load"
        /\ tests' = request /\ artifacts' = with /\ read' = << >>
        /\ preregs' = [r \in Ref |-> 0] /\ pending' = {} /\ notarized' = {}
        /\ counted' = [r \in Ref |-> {}] /\ rejected' = [r \in Ref |-> {}]
    BY <1>1 DEF Start, env
  <2>5. request \subseteq TestCatalog
    BY <1>1 DEF Start, Accepts
  <2>6. /\ disk' \in [Path -> Docs \cup {Malformed, NoFile}] /\ clock' \in Times
        /\ report' # NoReport =>
             /\ DOMAIN report'.commitments \subseteq Ref
             /\ \A r \in DOMAIN report'.commitments : report'.commitments[r] \in Entries
             /\ \A t \in DOMAIN report'.results : report'.results[t] \in {"PASS", "FAIL"}
    BY <2>4 DEF TypeOK
  <2>7. /\ preregs' \in [Ref -> 0 .. MaxFiles] /\ pending' \subseteq Position
        /\ notarized' \subseteq Position /\ counted' \in [Ref -> SUBSET Position]
        /\ rejected' \in [Ref -> SUBSET Position]
    BY <2>4
  <2>8. /\ pc' \in {"idle", "refused", "unlisted", "load", "raised", "group", "done"}
        /\ tests' \subseteq TestCatalog /\ artifacts' \in BOOLEAN
        /\ read' \in Seq(Docs \cup {Malformed}) /\ Len(read') <= Len(files')
    BY <2>1, <2>2, <2>4, <2>5
  <2> QED BY <2>2, <2>3, <2>6, <2>7, <2>8 DEF TypeOK
<1>2. ASSUME NEW request \in Requests, NEW args \in Arguments,
             Refuse(request) \/ ListingFails(request, args)
      PROVE  TypeOK'
  BY <1>2 DEF Refuse, ListingFails, TypeOK, env, setup, grouping
<1>3. CASE LoadPrereg
  <2>1. Upcoming \in Docs \cup {Malformed} /\ IsClean(Upcoming)
    BY <1>3, UpcomingType DEF LoadPrereg, LoadNext, IsPrereg
  <2>2. Upcoming.ref \in Ref
    BY <2>1, CleanIsEnvelope
  <2>3. /\ read' \in Seq(Docs \cup {Malformed})
        /\ Len(read') <= Len(files) /\ Len(read) + 1 \in Position
    BY <1>3, ReadGrows DEF LoadPrereg, LoadNext, TypeOK, FileLists
  <2> QED BY <1>3, <2>2, <2>3 DEF LoadPrereg, LoadNext, TypeOK, env, setup, Position
<1>4. CASE LoadPostreg
  <2>1. /\ read' \in Seq(Docs \cup {Malformed})
        /\ Len(read') <= Len(files) /\ Len(read) + 1 \in Position
    BY <1>4, ReadGrows DEF LoadPostreg, LoadNext, TypeOK, FileLists
  <2> QED BY <1>4, <2>1 DEF LoadPostreg, LoadNext, TypeOK, env, setup
<1>5. CASE LoadOther
  <2>1. read' \in Seq(Docs \cup {Malformed}) /\ Len(read') <= Len(files)
    BY <1>5, ReadGrows DEF LoadOther, LoadNext, TypeOK, FileLists
  <2> QED BY <1>5, <2>1 DEF LoadOther, LoadNext, TypeOK, env, setup
<1>6. CASE EndLoad \/ LoadRaises
  BY <1>6 DEF EndLoad, LoadRaises, TypeOK, env, setup, grouping
<1>7. CASE GroupCounted
  <2>1. PICK i \in pending :
          /\ GroupNext(i) /\ HasPrereg(i)
          /\ counted' = [counted EXCEPT ![FulfillsOf(read[i])] = @ \cup {i}]
          /\ UNCHANGED <<rejected, notarized>>
    BY <1>7 DEF GroupCounted
  <2>2. FulfillsOf(read[i]) \in Ref /\ i \in Position
    BY <2>1 DEF HasPrereg, Commitments, TypeOK
  <2>3. counted' \in [Ref -> SUBSET Position]
    BY <2>1, <2>2 DEF TypeOK
  <2> QED BY <2>1, <2>3 DEF GroupNext, TypeOK, env, setup
<1>8. CASE GroupRejected
  <2>1. PICK i \in pending :
          /\ GroupNext(i) /\ HasPrereg(i)
          /\ rejected' = [rejected EXCEPT ![FulfillsOf(read[i])] = @ \cup {i}]
          /\ UNCHANGED <<counted, notarized>>
    BY <1>8 DEF GroupRejected
  <2>2. FulfillsOf(read[i]) \in Ref /\ i \in Position
    BY <2>1 DEF HasPrereg, Commitments, TypeOK
  <2>3. rejected' \in [Ref -> SUBSET Position]
    BY <2>1, <2>2 DEF TypeOK
  <2> QED BY <2>1, <2>3 DEF GroupNext, TypeOK, env, setup
<1>9. CASE GroupNotarized
  BY <1>9 DEF GroupNotarized, GroupNext, TypeOK, env, setup
<1>10. CASE Conclude
  <2>1. report' = ReportNow
    BY <1>10 DEF Conclude
  <2> HIDE DEF ReportNow
  <2> QED BY <1>10, <2>1, ReportTyped DEF Conclude, TypeOK, env, setup, grouping
<1>11. CASE UNCHANGED vars
  BY <1>11 DEF vars, TypeOK, env, setup, grouping
<1> QED BY <1>1, <1>2, <1>3, <1>4, <1>5, <1>6, <1>7, <1>8, <1>9, <1>10, <1>11
        DEF Next, Begin, Run

\* TypeOK of every reachable state, for all bodies, documents, paths, argument
\* lists and bounds.
THEOREM TypeCorrect == Spec => []TypeOK
BY InitTyped, StepTyped, PTL DEF Spec

-----------------------------------------------------------------------------
(* The inductive invariant is one *)

\* The inductive invariant holds at first.
LEMMA InitInv == Init => IInv
<1> SUFFICES ASSUME Init PROVE PreregsLatest /\ Sorted /\ Progress
  BY InitTyped DEF IInv
<1>1. DOMAIN read = {}
  BY DEF Init
<1>2. Preregs = {} /\ Postregs = {}
  BY <1>1 DEF Preregs, Postregs
<1>3. PreregsLatest
  BY <1>2 DEF PreregsLatest, Init
<1>4. Sorted
  BY <1>2 DEF Sorted, Init
<1>5. Progress
  BY DEF Progress, Init
<1> QED BY <1>3, <1>4, <1>5

\* The report is a function of what the run read and where it put it.
LEMMA ReportUnchanged ==
  ASSUME UNCHANGED <<now, tests, artifacts, read, preregs, counted, rejected, notarized>>
  PROVE  ReportNow' = ReportNow
<1>1. Commitments' = Commitments
  BY DEF Commitments
<1>2. ASSUME NEW r PROVE /\ CommitmentState(r)' = CommitmentState(r)
                         /\ ChainOK(r)' = ChainOK(r)
                         /\ KeyConsistent(r)' = KeyConsistent(r)
  <2>1. CommitmentState(r)' = CommitmentState(r)
    BY DEF CommitmentState
  <2>2. ChainOK(r)' = ChainOK(r)
    BY DEF ChainOK
  <2>3. KeyConsistent(r)' = KeyConsistent(r)
    BY DEF KeyConsistent, RejectionReason
  <2> QED BY <2>1, <2>2, <2>3
<1>3. ASSUME NEW t PROVE Evaluate(t)' = Evaluate(t)
  BY <1>1, <1>2 DEF Evaluate
<1>4. Judged' = Judged
  BY <1>1, <1>2 DEF Judged
<1> QED BY <1>3, <1>4 DEF ReportNow

\* What reading one more file does to the preregs and postregs read so far.
LEMMA LoadSets ==
  ASSUME TypeOK, LoadNext
  PROVE  /\ Preregs' = Preregs \cup {i \in {Len(read) + 1} : IsPrereg(Upcoming)}
         /\ Postregs' = Postregs \cup {i \in {Len(read) + 1} : IsPostreg(Upcoming)}
         /\ \A i \in DOMAIN read : i <= Len(read) /\ read'[i] = read[i]
         /\ read'[Len(read) + 1] = Upcoming
         /\ Len(read) \in Nat
<1>1. /\ DOMAIN read = 1 .. Len(read)
      /\ DOMAIN read' = 1 .. Len(read) + 1
      /\ \A i \in DOMAIN read : read'[i] = read[i]
      /\ read'[Len(read) + 1] = Upcoming
  BY ReadGrows DEF LoadNext
<1>2. Len(read) \in Nat
  BY DEF TypeOK
<1>3. DOMAIN read' = DOMAIN read \cup {Len(read) + 1}
  BY <1>1, <1>2
<1>4. Preregs' = Preregs \cup {i \in {Len(read) + 1} : IsPrereg(Upcoming)}
  BY <1>1, <1>2, <1>3 DEF Preregs, IsPrereg, IsClean, PhaseOf
<1>5. Postregs' = Postregs \cup {i \in {Len(read) + 1} : IsPostreg(Upcoming)}
  BY <1>1, <1>2, <1>3 DEF Postregs, IsPostreg, IsClean, PhaseOf
<1> QED BY <1>1, <1>2, <1>4, <1>5

\* While files are being read nothing has been sorted yet.
LEMMA NothingSortedYet ==
  ASSUME IInv, pc = "load"
  PROVE  /\ pending = Postregs /\ notarized = {}
         /\ \A r \in Ref : counted[r] = {} /\ rejected[r] = {}
BY DEF IInv, Sorted, Progress

\* The sorting is kept while the run reads on.
LEMMA LoadKeepsSorted ==
  ASSUME IInv, LoadNext, pending' = Postregs'
  PROVE  Sorted' /\ Progress'
<1>1. pc = "load" /\ pc' = "load" /\ UNCHANGED <<counted, rejected, notarized>>
  BY DEF LoadNext
<1>2. /\ notarized' = {}
      /\ \A r \in Ref : counted'[r] = {} /\ rejected'[r] = {}
  BY <1>1, NothingSortedYet
<1>3. Sorted'
  BY <1>2 DEF Sorted
<1>4. Progress'
  BY <1>1 DEF Progress
<1> QED BY <1>3, <1>4

\* One turn of the grouping loop: what it looks at does not change.
LEMMA GroupFrame ==
  ASSUME IInv, NEW i \in pending, GroupNext(i)
  PROVE  /\ Preregs' = Preregs /\ Postregs' = Postregs /\ Commitments' = Commitments
         /\ \A j : HasPrereg(j)' <=> HasPrereg(j)
         /\ \A j, r : RejectionReason(j, r)' = RejectionReason(j, r)
         /\ \A j : FulfillsOf(read'[j]) = FulfillsOf(read[j])
         /\ Postregs \ pending' = (Postregs \ pending) \cup {i}
         /\ i \in Postregs /\ pending' \subseteq Postregs
         /\ PreregsLatest' /\ Progress'
<1>1. UNCHANGED <<read, preregs>> /\ pc = "group" /\ pc' = "group" /\ pending' = pending \ {i}
  BY DEF GroupNext
<1>2. Preregs' = Preregs /\ Postregs' = Postregs /\ Commitments' = Commitments
  BY <1>1 DEF Preregs, Postregs, Commitments
<1>3. \A j : HasPrereg(j)' <=> HasPrereg(j)
  BY <1>1, <1>2 DEF HasPrereg
<1>4. \A j, r : RejectionReason(j, r)' = RejectionReason(j, r)
  BY <1>1 DEF RejectionReason
<1>5. pending \subseteq Postregs
  BY DEF IInv, Sorted
<1>6. PreregsLatest'
  BY <1>1, <1>2 DEF IInv, PreregsLatest
<1>7. Progress'
  BY <1>1 DEF IInv, Progress, GroupNext, setup
<1> QED BY <1>1, <1>2, <1>3, <1>4, <1>5, <1>6, <1>7

\* Steps that neither read nor sort a file keep the lists as they are.
LEMMA ListsStay ==
  ASSUME IInv, UNCHANGED <<read, preregs, grouping, report, now, tests, artifacts, files>>,
         \/ pc' \in {pc, "idle", "refused", "unlisted", "raised"}
         \/ pc = "load" /\ pc' = "group" /\ Len(read) = Len(files)
  PROVE  PreregsLatest' /\ Sorted' /\ Progress'
<1>1. UNCHANGED <<pending, counted, rejected, notarized>>
  BY DEF grouping
<1>2. Preregs' = Preregs /\ Postregs' = Postregs /\ Commitments' = Commitments
  BY DEF Preregs, Postregs, Commitments
<1>3. /\ \A j : HasPrereg(j)' <=> HasPrereg(j)
      /\ \A j, r : RejectionReason(j, r)' = RejectionReason(j, r)
  BY <1>2 DEF HasPrereg, RejectionReason
<1>4. PreregsLatest'
  BY <1>2 DEF IInv, PreregsLatest
<1>5. Sorted'
  BY <1>1, <1>2, <1>3 DEF IInv, Sorted
<1>6. ReportNow' = ReportNow
  BY <1>1, ReportUnchanged
<1>7. Progress'
  BY <1>1, <1>2, <1>6 DEF IInv, Progress
<1> QED BY <1>4, <1>5, <1>7

\* Every step keeps the inductive invariant.
LEMMA StepInv == IInv /\ [Next]_vars => IInv'
<1> SUFFICES ASSUME IInv, [Next]_vars PROVE PreregsLatest' /\ Sorted' /\ Progress'
  BY StepTyped DEF IInv
<1>1. ASSUME NEW request \in Requests, NEW args \in Arguments, NEW with \in BOOLEAN,
             Start(request, args, with)
      PROVE  PreregsLatest' /\ Sorted' /\ Progress'
  <2>1. /\ pc' = "load" /\ read' = << >> /\ pending' = {} /\ notarized' = {}
        /\ preregs' = [r \in Ref |-> 0]
        /\ counted' = [r \in Ref |-> {}] /\ rejected' = [r \in Ref |-> {}]
    BY <1>1 DEF Start
  <2>2. Preregs' = {} /\ Postregs' = {}
    BY <2>1 DEF Preregs, Postregs
  <2>3. PreregsLatest'
    BY <2>1, <2>2 DEF PreregsLatest
  <2>4. Sorted'
    BY <2>1, <2>2 DEF Sorted
  <2>5. Progress'
    BY <2>1, <2>2 DEF Progress
  <2> QED BY <2>3, <2>4, <2>5
<1>2. ASSUME UNCHANGED <<read, preregs, grouping, report, now, tests, artifacts, files>>,
             \/ pc' \in {pc, "refused", "unlisted", "raised"}
             \/ pc = "load" /\ pc' = "group" /\ Len(read) = Len(files)
      PROVE  PreregsLatest' /\ Sorted' /\ Progress'
  BY <1>2, ListsStay
<1>3. ASSUME NEW request \in Requests, NEW args \in Arguments,
             Refuse(request) \/ ListingFails(request, args)
      PROVE  PreregsLatest' /\ Sorted' /\ Progress'
  BY <1>2, <1>3 DEF Refuse, ListingFails, setup
<1>4. CASE LoadPrereg
  <2>1. LoadNext /\ IsPrereg(Upcoming) /\ ~ IsPostreg(Upcoming)
    BY <1>4 DEF LoadPrereg, IsPrereg, IsPostreg
  <2>2. /\ preregs' = [preregs EXCEPT ![Upcoming.ref] = Len(read) + 1]
        /\ pending' = pending /\ pc = "load"
    BY <1>4 DEF LoadPrereg, LoadNext
  <2>3. /\ Preregs' = Preregs \cup {Len(read) + 1} /\ Postregs' = Postregs
        /\ \A i \in DOMAIN read : i <= Len(read) /\ read'[i] = read[i]
        /\ read'[Len(read) + 1] = Upcoming /\ Len(read) \in Nat
    BY <2>1, LoadSets DEF IInv
  <2>4. Upcoming.ref \in Ref /\ preregs \in [Ref -> 0 .. MaxFiles]
    BY <2>1, UpcomingType, CleanIsEnvelope DEF IInv, TypeOK, IsPrereg, LoadNext
  <2>5. Preregs \subseteq DOMAIN read
    BY DEF Preregs
  <2>6. PreregsLatest'
    <3> SUFFICES ASSUME NEW r \in Ref
                 PROVE  /\ preregs'[r] # 0 =>
                             /\ preregs'[r] \in Preregs'
                             /\ read'[preregs'[r]].ref = r
                        /\ \A i \in Preregs' : read'[i].ref = r => i <= preregs'[r]
      BY DEF PreregsLatest
    <3>1. /\ preregs[r] # 0 => preregs[r] \in Preregs /\ read[preregs[r]].ref = r
          /\ \A i \in Preregs : read[i].ref = r => i <= preregs[r]
      BY DEF IInv, PreregsLatest
    <3>2. CASE r = Upcoming.ref
      <4>1. preregs'[r] = Len(read) + 1
        BY <2>2, <2>4, <3>2
      <4>2. \A i \in Preregs' : i <= Len(read) + 1
        BY <2>3, <2>5
      <4> QED BY <2>3, <3>2, <4>1, <4>2
    <3>3. CASE r # Upcoming.ref
      <4>1. preregs'[r] = preregs[r]
        BY <2>2, <2>4, <3>3
      <4> QED BY <2>3, <2>5, <3>1, <3>3, <4>1
    <3> QED BY <3>2, <3>3
  <2>7. pending' = Postregs'
    BY <2>2, <2>3, NothingSortedYet
  <2> QED BY <2>1, <2>6, <2>7, LoadKeepsSorted
<1>5. CASE LoadPostreg
  <2>1. LoadNext /\ IsPostreg(Upcoming) /\ ~ IsPrereg(Upcoming)
    BY <1>5 DEF LoadPostreg, IsPrereg, IsPostreg
  <2>2. preregs' = preregs /\ pending' = pending \cup {Len(read) + 1} /\ pc = "load"
    BY <1>5 DEF LoadPostreg, LoadNext
  <2>3. /\ Preregs' = Preregs /\ Postregs' = Postregs \cup {Len(read) + 1}
        /\ \A i \in DOMAIN read : read'[i] = read[i]
    BY <2>1, LoadSets DEF IInv
  <2>4. PreregsLatest'
    BY <2>2, <2>3 DEF IInv, PreregsLatest, Preregs
  <2>5. pending' = Postregs'
    BY <2>2, <2>3, NothingSortedYet
  <2> QED BY <2>1, <2>4, <2>5, LoadKeepsSorted
<1>6. CASE LoadOther
  <2>1. LoadNext /\ ~ IsPostreg(Upcoming) /\ ~ IsPrereg(Upcoming)
    BY <1>6 DEF LoadOther
  <2>2. preregs' = preregs /\ pending' = pending /\ pc = "load"
    BY <1>6 DEF LoadOther, LoadNext
  <2>3. /\ Preregs' = Preregs /\ Postregs' = Postregs
        /\ \A i \in DOMAIN read : read'[i] = read[i]
    BY <2>1, LoadSets DEF IInv
  <2>4. PreregsLatest'
    BY <2>2, <2>3 DEF IInv, PreregsLatest, Preregs
  <2>5. pending' = Postregs'
    BY <2>2, <2>3, NothingSortedYet
  <2> QED BY <2>1, <2>4, <2>5, LoadKeepsSorted
<1>7. CASE EndLoad \/ LoadRaises
  BY <1>2, <1>7 DEF EndLoad, LoadRaises, setup
<1>8. CASE GroupCounted
  <2>1. PICK i \in pending :
          /\ GroupNext(i) /\ HasPrereg(i)
          /\ RejectionReason(i, FulfillsOf(read[i])) = "none"
          /\ counted' = [counted EXCEPT ![FulfillsOf(read[i])] = @ \cup {i}]
          /\ UNCHANGED <<rejected, notarized>>
    BY <1>8 DEF GroupCounted
  <2>2. FulfillsOf(read[i]) \in Commitments /\ Commitments \subseteq Ref
    BY <2>1 DEF HasPrereg, Commitments
  <2>3. counted \in [Ref -> SUBSET Position]
    BY DEF IInv, TypeOK
  <2>4. Sorted'
    BY <2>1, <2>2, <2>3, GroupFrame DEF IInv, Sorted
  <2> QED BY <2>1, <2>4, GroupFrame
<1>9. CASE GroupRejected
  <2>1. PICK i \in pending :
          /\ GroupNext(i) /\ HasPrereg(i)
          /\ RejectionReason(i, FulfillsOf(read[i])) # "none"
          /\ rejected' = [rejected EXCEPT ![FulfillsOf(read[i])] = @ \cup {i}]
          /\ UNCHANGED <<counted, notarized>>
    BY <1>9 DEF GroupRejected
  <2>2. FulfillsOf(read[i]) \in Commitments /\ Commitments \subseteq Ref
    BY <2>1 DEF HasPrereg, Commitments
  <2>3. rejected \in [Ref -> SUBSET Position]
    BY DEF IInv, TypeOK
  <2>4. Sorted'
    BY <2>1, <2>2, <2>3, GroupFrame DEF IInv, Sorted
  <2> QED BY <2>1, <2>4, GroupFrame
<1>10. CASE GroupNotarized
  <2>1. PICK i \in pending :
          /\ GroupNext(i) /\ ~ HasPrereg(i)
          /\ notarized' = notarized \cup {i}
          /\ UNCHANGED <<counted, rejected>>
    BY <1>10 DEF GroupNotarized
  <2>2. FulfillsOf(read[i]) \notin Commitments
    BY <2>1 DEF HasPrereg
  <2>3. Sorted'
    BY <2>1, <2>2, GroupFrame DEF IInv, Sorted
  <2> QED BY <2>1, <2>3, GroupFrame
<1>11. CASE Conclude
  <2>1. UNCHANGED <<now, tests, artifacts, read, preregs, pending, counted, rejected, notarized>>
    BY <1>11 DEF Conclude, setup, grouping
  <2>2. Preregs' = Preregs /\ Postregs' = Postregs /\ Commitments' = Commitments
    BY <2>1 DEF Preregs, Postregs, Commitments
  <2>3. /\ \A j : HasPrereg(j)' <=> HasPrereg(j)
        /\ \A j, r : RejectionReason(j, r)' = RejectionReason(j, r)
    BY <2>1, <2>2 DEF HasPrereg, RejectionReason
  <2>4. PreregsLatest'
    BY <2>1, <2>2 DEF IInv, PreregsLatest
  <2>5. Sorted'
    BY <2>1, <2>2, <2>3 DEF IInv, Sorted
  <2>6. report' = ReportNow /\ pending = {} /\ pc' = "done"
    BY <1>11 DEF Conclude
  <2>7. ReportNow' = ReportNow
    BY <2>1, ReportUnchanged
  <2>8. Len(read') = Len(files')
    BY <1>11 DEF Conclude, setup, IInv, Progress
  <2>9. Progress'
    BY <2>1, <2>6, <2>7, <2>8 DEF Progress
  <2> QED BY <2>4, <2>5, <2>9
<1>12. CASE UNCHANGED vars
  BY <1>2, <1>12 DEF vars, setup
<1> QED BY <1>1, <1>3, <1>4, <1>5, <1>6, <1>7, <1>8, <1>9, <1>10, <1>11, <1>12
        DEF Next, Begin, Run

\* Every reachable state is one the inductive invariant describes.
THEOREM Invariance == Spec => []IInv
BY InitInv, StepInv, PTL DEF Spec

-----------------------------------------------------------------------------
(* What follows from it *)

\* Positions of preregs on record, and of the postregs sorted, one by one.
LEMMA OnRecord ==
  ASSUME IInv, NEW p \in Preregs
  PROVE  /\ read[p].ref \in Commitments /\ read[p].ref \in Ref
         /\ preregs[read[p].ref] \in Preregs
         /\ read[preregs[read[p].ref]].ref = read[p].ref
<1>1. read[p] \in Docs \cup {Malformed} /\ IsClean(read[p]) /\ p \in Position
  BY ReadPositions DEF IInv, Preregs, IsPrereg
<1>2. read[p].ref \in Ref
  BY <1>1, CleanIsEnvelope
<1>3. p <= preregs[read[p].ref] /\ preregs[read[p].ref] \in 0 .. MaxFiles
  BY <1>2 DEF IInv, PreregsLatest, TypeOK
<1>4. preregs[read[p].ref] # 0
  BY <1>1, <1>3, PathAssumption DEF Position
<1> QED BY <1>2, <1>4 DEF IInv, PreregsLatest, Commitments

\* Where the postregs are follows from the invariant.
LEMMA PlacedInduct == IInv => PostregsPlacedOnce
<1> SUFFICES ASSUME IInv PROVE PostregsPlacedOnce
  OBVIOUS
<1>1. Commitments \subseteq Ref
  BY DEF Commitments
<1>2. ASSUME NEW i \in Postregs PROVE i \in UNION Buckets
  <2>1. CASE i \in pending
    BY <2>1 DEF Buckets
  <2>2. CASE i \notin pending /\ ~ HasPrereg(i)
    BY <2>2 DEF IInv, Sorted, Buckets
  <2>3. CASE i \notin pending /\ HasPrereg(i)
    <3>1. FulfillsOf(read[i]) \in Commitments /\ FulfillsOf(read[i]) \in Ref
      BY <2>3, <1>1 DEF HasPrereg
    <3>2. i \in counted[FulfillsOf(read[i])] \/ i \in rejected[FulfillsOf(read[i])]
      BY <2>3, <3>1 DEF IInv, Sorted
    <3> QED BY <3>1, <3>2 DEF Buckets
  <2> QED BY <2>1, <2>2, <2>3
<1>3. UNION Buckets \subseteq Postregs
  BY DEF IInv, Sorted, Buckets
<1>4. pending \cap notarized = {}
  BY DEF IInv, Sorted
<1>5. ASSUME NEW r \in Ref
      PROVE  /\ counted[r] \cap rejected[r] = {}
             /\ (counted[r] \cup rejected[r]) \cap (pending \cup notarized) = {}
             /\ \A i \in counted[r] \cup rejected[r] : FulfillsOf(read[i]) = r
  BY DEF IInv, Sorted, HasPrereg
<1> QED BY <1>2, <1>3, <1>4, <1>5 DEF PostregsPlacedOnce

\* No postreg is lost or used twice.
THEOREM PlacedOnce == Spec => []PostregsPlacedOnce
BY Invariance, PlacedInduct, PTL

\* What the report says of the prereg at p, with no rival in sight.
LEMMA ReportOf ==
  ASSUME IInv, pc = "done", NoRivals, NEW p \in Preregs
  PROVE  LET r == read[p].ref
             about == report.commitments[r]
         IN /\ about.counted = {q \in Postregs : /\ FulfillsOf(read[q]) = r
                                                 /\ Signed(read[q])
                                                 /\ read[q].keyid = read[p].keyid}
            /\ about.rejected = {q \in Postregs : /\ FulfillsOf(read[q]) = r
                                                  /\ ~ (/\ Signed(read[q])
                                                        /\ read[q].keyid = read[p].keyid)}
            /\ about.keyConsistent = KeyConsistent(r)
<1> DEFINE r == read[p].ref
<1>1. /\ r \in Commitments /\ r \in Ref
      /\ preregs[r] \in Preregs /\ read[preregs[r]].ref = r
  BY OnRecord
<1>2. read[preregs[r]].keyid = read[p].keyid
  BY <1>1 DEF NoRivals
<1>3. pending = {} /\ report.commitments = Judged
  BY DEF IInv, Progress, ReportNow
<1>4. /\ report.commitments[r].counted = counted[r]
      /\ report.commitments[r].rejected = rejected[r]
      /\ report.commitments[r].keyConsistent = KeyConsistent(r)
  BY <1>1, <1>3 DEF Judged
<1>5. \A q : RejectionReason(q, r) = "none"
               <=> Signed(read[q]) /\ read[q].keyid = read[p].keyid
  BY <1>2 DEF RejectionReason
<1>6. counted[r] = {q \in Postregs : FulfillsOf(read[q]) = r /\ RejectionReason(q, r) = "none"}
  BY <1>1, <1>3 DEF IInv, Sorted
<1>7. rejected[r] = {q \in Postregs : FulfillsOf(read[q]) = r /\ RejectionReason(q, r) # "none"}
  BY <1>1, <1>3 DEF IInv, Sorted
<1> QED BY <1>4, <1>5, <1>6, <1>7

\* The counting rule follows from what the report was made of.
LEMMA CountingInduct == IInv => CountingRule
<1> SUFFICES ASSUME IInv, pc = "done", NoRivals, NEW p \in Preregs, NEW q \in Postregs
             PROVE  LET r == read[p].ref
                        meets == Signed(read[q]) /\ read[q].keyid = read[p].keyid
                    IN /\ q \in report.commitments[r].counted
                            <=> FulfillsOf(read[q]) = r /\ meets
                       /\ q \in report.commitments[r].rejected
                            <=> FulfillsOf(read[q]) = r /\ ~ meets
  BY DEF CountingRule, CountsIffRule
<1> QED BY ReportOf

\* The counting rule holds of every report, in whatever order the files came,
\* as long as no prereg body was supplied under two keys.
THEOREM Counting == Spec => []CountingRule
BY Invariance, CountingInduct, PTL

\* The verdict of keyconsist follows from what the report was made of.
LEMMA KeyConsistInduct == IInv => KeyConsistExact
<1> SUFFICES ASSUME IInv, pc = "done", NoRivals, NEW p \in Preregs
             PROVE  report.commitments[read[p].ref].keyConsistent
                      <=> \A q \in Postregs :
                            FulfillsOf(read[q]) = read[p].ref /\ Signed(read[q])
                              => read[q].keyid = read[p].keyid
  BY DEF KeyConsistExact
<1> DEFINE r == read[p].ref
<1>1. r \in Ref /\ preregs[r] \in Preregs /\ read[preregs[r]].ref = r
  BY OnRecord
<1>2. read[preregs[r]].keyid = read[p].keyid
  BY <1>1 DEF NoRivals
<1>3. pending = {} /\ r \in Commitments
  BY OnRecord DEF IInv, Progress
<1>4. rejected[r] = {q \in Postregs : FulfillsOf(read[q]) = r /\ RejectionReason(q, r) # "none"}
  BY <1>1, <1>3 DEF IInv, Sorted
<1>5. \A q : RejectionReason(q, r) = "different key"
               <=> Signed(read[q]) /\ read[q].keyid # read[p].keyid
  BY <1>2 DEF RejectionReason
<1>6. KeyConsistent(r) <=> \A q \in Postregs :
                             FulfillsOf(read[q]) = r /\ Signed(read[q])
                               => read[q].keyid = read[p].keyid
  BY <1>4, <1>5 DEF KeyConsistent
<1> QED BY <1>6, ReportOf

\* keyconsist judges the validly signed postregs of the prereg, and only them.
THEOREM KeyConsistency == Spec => []KeyConsistExact
BY Invariance, KeyConsistInduct, PTL

-----------------------------------------------------------------------------
(* Chains *)

\* The verdict on a chain follows from the two theorems of ChainProofs.
LEMMA LinearInduct == IInv => ChainIsLinear
<1> SUFFICES ASSUME IInv, pc = "done", NEW r \in DOMAIN report.commitments
             PROVE  LET R == report.commitments[r].counted
                    IN report.commitments[r].chainOK
                         <=> Linear(R, [i \in R |-> read[i].ref], [i \in R |-> PrevOf(read[i])])
  BY DEF ChainIsLinear
<1> DEFINE R == counted[r]
           ref == [i \in R |-> read[i].ref]
           prev == [i \in R |-> PrevOf(read[i])]
<1>1. r \in Commitments /\ r \in Ref
  BY DEF IInv, Progress, ReportNow, Judged, Commitments
<1>2. report.commitments[r].counted = R /\ report.commitments[r].chainOK = ChainOK(r)
  BY <1>1 DEF IInv, Progress, ReportNow, Judged
<1>3. IsFiniteSet(R)
  <2>1. R \in SUBSET (1 .. MaxFiles)
    BY <1>1 DEF IInv, TypeOK, Position
  <2>2. IsFiniteSet(1 .. MaxFiles)
    BY PathAssumption, FS_Interval
  <2> QED BY <2>1, <2>2, FS_Subset
<1>4. Acyclic(R, Ref, ref, prev)
  <2>1. ASSUME NEW i \in R
        PROVE  read[i].ref \in Ref /\ (PrevOf(read[i]) \in Ref => PrevOf(read[i]) < read[i].ref)
    <3>1. i \in Postregs
      BY <1>1 DEF IInv, Sorted
    <3>2. read[i] \in Docs \cup {Malformed} /\ IsClean(read[i])
      BY <3>1, ReadPositions DEF IInv, Postregs, IsPostreg
    <3>3. read[i].ref \in Ref
      BY <3>2, CleanIsEnvelope
    <3> QED BY <3>3, BodyAssumption DEF PrevOf
  <2> QED BY <2>1, BodyAssumption, DistinctAssumption DEF Acyclic
<1>5. ChainOK(r) <=> CheckChain(R, ref, prev)
  BY DEF ChainOK
<1> HIDE DEF R, ref, prev
<1>6. CheckChain(R, ref, prev) <=> Linear(R, ref, prev)
  BY <1>3, <1>4, PassedIsLinear, LinearPasses
<1> USE DEF R, ref, prev
<1> QED BY <1>2, <1>5, <1>6

\* A chain passes exactly when the counted postregs are one linear history.
THEOREM ChainMeansLinear == Spec => []ChainIsLinear
BY Invariance, LinearInduct, PTL

-----------------------------------------------------------------------------
(* What exit status 0 means *)

\* Every test of a run that ends with exit status 0 passed.
LEMMA AllPass ==
  ASSUME IInv, pc = "done", report.ok, NEW t \in tests
  PROVE  Evaluate(t) = "PASS"
BY DEF IInv, Progress, ReportNow

\* A passing BDR: every file is well formed and properly signed.
LEMMA PassedBDR ==
  ASSUME IInv, pc = "done", report.ok, "BDR" \in tests
  PROVE  \A i \in DOMAIN read : IsClean(read[i]) /\ Signed(read[i])
<1>1. Evaluate("BDR") = "PASS"
  BY AllPass
<1>2. Evaluate("BDR") =
        Tally(DOMAIN read, {i \in DOMAIN read : IsClean(read[i]) /\ Signed(read[i])})
  BY DEF Evaluate
<1> QED BY <1>1, <1>2 DEF Tally

\* A passing chain: some commitment is fulfilled, and all that are have an
\* intact chain.
LEMMA PassedChain ==
  ASSUME IInv, pc = "done", report.ok, "chain" \in tests
  PROVE  /\ \E r \in Commitments : counted[r] # {}
         /\ \A r \in Commitments : counted[r] # {} => ChainOK(r)
<1>1. Evaluate("chain") = "PASS"
  BY AllPass
<1>2. Evaluate("chain") =
        Tally({r \in Commitments : counted[r] # {}}, {r \in Commitments : ChainOK(r)})
  BY DEF Evaluate
<1> QED BY <1>1, <1>2 DEF Tally

\* A passing keyconsist: no commitment has a postreg under another key.
LEMMA PassedKeyConsist ==
  ASSUME IInv, pc = "done", report.ok, "keyconsist" \in tests
  PROVE  \A r \in Commitments : rejected[r] # {} => KeyConsistent(r)
<1>1. Evaluate("keyconsist") = "PASS"
  BY AllPass
<1>2. Evaluate("keyconsist") =
        Tally({r \in Commitments : counted[r] # {} \/ rejected[r] # {}},
              {r \in Commitments : KeyConsistent(r)})
  BY DEF Evaluate
<1> QED BY <1>1, <1>2 DEF Tally

\* What a passing report means follows from what it was made of.
LEMMA PassInduct == IInv => PassMeansWhole
<1> SUFFICES ASSUME IInv, pc = "done", report.ok, {"BDR", "chain", "keyconsist"} \subseteq tests
             PROVE
    /\ \A i \in DOMAIN read : IsClean(read[i]) /\ Signed(read[i])
    /\ \A q \in Postregs : (\E p \in Preregs : read[p].ref = FulfillsOf(read[q]))
                             => q \in report.commitments[FulfillsOf(read[q])].counted
    /\ \E r \in DOMAIN report.commitments : report.commitments[r].state = "fulfilled"
    /\ \A i, j \in Postregs : i \notin notarized /\ read[i].ref = read[j].ref => i = j
    /\ \A r \in DOMAIN report.commitments :
         LET R == report.commitments[r].counted
         IN Linear(R, [i \in R |-> read[i].ref], [i \in R |-> PrevOf(read[i])])
  BY DEF PassMeansWhole
<1>1. \A i \in DOMAIN read : IsClean(read[i]) /\ Signed(read[i])
  BY PassedBDR
<1>2. pending = {} /\ report.commitments = Judged /\ Commitments \subseteq Ref
  BY DEF IInv, Progress, ReportNow, Commitments
<1>3. DOMAIN report.commitments = Commitments
  BY <1>2 DEF Judged
<1>4. ASSUME NEW q \in Postregs, HasPrereg(q)
      PROVE  q \in counted[FulfillsOf(read[q])]
  <2> DEFINE r == FulfillsOf(read[q])
  <2>1. r \in Commitments /\ r \in Ref
    BY <1>2, <1>4 DEF HasPrereg
  <2>2. Signed(read[q])
    BY <1>1 DEF Postregs
  <2>3. CASE RejectionReason(q, r) # "none"
    <3>1. q \in rejected[r]
      BY <1>2, <2>1, <2>3 DEF IInv, Sorted
    <3>2. KeyConsistent(r)
      BY <2>1, <3>1, PassedKeyConsist
    <3>3. RejectionReason(q, r) # "different key"
      BY <3>1, <3>2 DEF KeyConsistent
    <3> QED BY <2>2, <2>3, <3>3 DEF RejectionReason
  <2>4. CASE RejectionReason(q, r) = "none"
    BY <1>2, <2>1, <2>4 DEF IInv, Sorted
  <2> QED BY <2>3, <2>4
<1>5. ASSUME NEW q \in Postregs, NEW p \in Preregs, read[p].ref = FulfillsOf(read[q])
      PROVE  q \in report.commitments[FulfillsOf(read[q])].counted
  <2>1. FulfillsOf(read[q]) \in Commitments
    BY <1>5, OnRecord
  <2>2. report.commitments[FulfillsOf(read[q])].counted = counted[FulfillsOf(read[q])]
    BY <1>2, <2>1 DEF Judged
  <2> QED BY <1>4, <2>1, <2>2 DEF HasPrereg
<1>6. \E r \in DOMAIN report.commitments : report.commitments[r].state = "fulfilled"
  <2>1. PICK r \in Commitments : counted[r] # {}
    BY PassedChain
  <2>2. report.commitments[r].state = CommitmentState(r)
    BY <1>2, <2>1 DEF Judged
  <2>3. CommitmentState(r) = "fulfilled"
    BY <2>1 DEF CommitmentState
  <2> QED BY <1>3, <2>1, <2>2, <2>3
<1>7. ASSUME NEW i \in Postregs, NEW j \in Postregs,
             i \notin notarized, read[i].ref = read[j].ref
      PROVE  i = j
  <2> DEFINE r == FulfillsOf(read[i])
             prev == [k \in counted[r] |-> PrevOf(read[k])]
             ref == [k \in counted[r] |-> read[k].ref]
  <2>1. HasPrereg(i)
    BY <1>2, <1>7 DEF IInv, Sorted
  <2>2. FulfillsOf(read[j]) = r /\ PrevOf(read[j]) = PrevOf(read[i])
    BY <1>7 DEF FulfillsOf, PrevOf
  <2>3. HasPrereg(j)
    BY <2>1, <2>2 DEF HasPrereg
  <2>4. i \in counted[r] /\ j \in counted[r] /\ r \in Commitments
    BY <1>4, <2>1, <2>2, <2>3 DEF HasPrereg
  <2>5. ChainOK(r)
    BY <2>4, PassedChain
  <2>6. OneRoot(counted[r], prev) /\ NoFork(counted[r], prev)
    BY <2>4, <2>5 DEF ChainOK, CheckChain
  <2>7. prev[i] = prev[j]
    BY <2>2, <2>4
  <2> QED BY <2>4, <2>6, <2>7 DEF OneRoot, NoFork
<1>8. ASSUME NEW r \in DOMAIN report.commitments
      PROVE  LET R == report.commitments[r].counted
             IN Linear(R, [i \in R |-> read[i].ref], [i \in R |-> PrevOf(read[i])])
  <2>1. r \in Commitments
    BY <1>3, <1>8
  <2>2. ChainOK(r)
    <3>1. CASE counted[r] = {}
      BY <3>1 DEF ChainOK, CheckChain
    <3>2. CASE counted[r] # {}
      BY <2>1, <3>2, PassedChain
    <3> QED BY <3>1, <3>2
  <2>3. report.commitments[r].chainOK = ChainOK(r)
    BY <1>2, <2>1 DEF Judged
  <2> QED BY <1>8, <2>2, <2>3, LinearInduct DEF ChainIsLinear
<1> QED BY <1>1, <1>5, <1>6, <1>7, <1>8

\* Exit status 0 from BDR, chain and keyconsist together leaves nothing out.
THEOREM PassIsWhole == Spec => []PassMeansWhole
BY Invariance, PassInduct, PTL

-----------------------------------------------------------------------------
(* Witnesses *)

\* A run that was not refused includes BDR, so it has no malformed file to skip.
BDRRequested == pc \in {"load", "group", "done"} => "BDR" \in tests

\* No run is without it.
LEMMA AlwaysBDR == Spec => []BDRRequested
<1>1. Init => BDRRequested
  BY DEF Init, BDRRequested
<1>2. BDRRequested /\ [Next]_vars => BDRRequested'
  <2> SUFFICES ASSUME BDRRequested, [Next]_vars PROVE BDRRequested'
    OBVIOUS
  <2> USE DEF BDRRequested, setup
  <2>1. CASE UNCHANGED vars
    BY <2>1 DEF vars
  <2>2. ASSUME NEW request, NEW args, NEW with, Start(request, args, with) PROVE BDRRequested'
    BY <2>2 DEF Start, Accepts, RequiredTest
  <2>3. ASSUME NEW request, NEW args, Refuse(request) \/ ListingFails(request, args)
        PROVE  BDRRequested'
    BY <2>3 DEF Refuse, ListingFails
  <2>4. CASE LoadPrereg \/ LoadPostreg \/ LoadOther
    BY <2>4 DEF LoadPrereg, LoadPostreg, LoadOther, LoadNext
  <2>5. CASE GroupCounted \/ GroupRejected \/ GroupNotarized
    BY <2>5 DEF GroupCounted, GroupRejected, GroupNotarized, GroupNext
  <2>6. CASE EndLoad \/ LoadRaises \/ Conclude
    BY <2>6 DEF EndLoad, LoadRaises, Conclude
  <2> QED BY <2>1, <2>2, <2>3, <2>4, <2>5, <2>6 DEF Next, Begin, Run
<1> QED BY <1>1, <1>2, PTL DEF Spec

\* The status of a floor says what the body has of one.
LEMMA FloorsHold ==
  ASSUME NEW d \in Envelopes, IsClean(d), d.ref \in Ref, Body[d.ref] \in Bodies
  PROVE  /\ FloorStatus(d) # "absent" <=> Body[d.ref].floor # "absent"
         /\ FloorStatus(d) = "verified" <=> Body[d.ref].floor = "good"
<1>1. Body[d.ref].floor \in FloorForms
  BY DEF Bodies
<1> QED BY <1>1 DEF FloorStatus, FloorForms

\* A ceiling verifies only if all that the code asks of it is so.
LEMMA CeilingsHold ==
  ASSUME NEW d \in Envelopes, IsClean(d)
  PROVE  /\ CeilingStatus(d) # "absent" <=> d.ceiling # NoCeiling
         /\ CeilingStatus(d) = "verified" =>
              LET c == d.ceiling
              IN c.nonce = d.ref /\ c.pinned /\ c.pubkeyAgrees /\ c.responseValid
<1>1. CASE d.ceiling = NoCeiling
  BY <1>1 DEF CeilingStatus
<1>2. CASE d.ceiling # NoCeiling
  <2>1. d.ceiling \in Ceilings
    BY <1>2 DEF Envelopes
  <2>2. d.ceiling.form \in {"unsupported", "misshapen", "ok"}
    BY <2>1 DEF Ceilings
  <2> QED BY <1>2, <2>2 DEF CeilingStatus
<1> QED BY <1>1, <1>2

\* The content is looked at only if artifacts are supplied.
LEMMA ContentsHold ==
  ASSUME NEW d \in Envelopes, IsClean(d)
  PROVE  /\ ContentStatus(d, artifacts) # "skipped"
              <=> artifacts /\ Body[d.ref].subject # "absent"
         /\ ContentStatus(d, artifacts) = "ok"
              <=> artifacts /\ Body[d.ref].subject = "matches"
BY DEF ContentStatus

\* What a passing report says of witnesses follows from the status of each file.
LEMMA WitnessInduct == IInv /\ BDRRequested => WitnessesHold
<1> SUFFICES ASSUME IInv, BDRRequested, pc = "done", report.ok
             PROVE  WitnessesHold
  BY DEF WitnessesHold
<1>1. \A i \in DOMAIN read : IsClean(read[i])
  BY PassedBDR DEF BDRRequested
<1>2. ASSUME NEW i \in DOMAIN read
      PROVE  read[i] \in Envelopes /\ read[i].ref \in Ref /\ Body[read[i].ref] \in Bodies
  <2>1. read[i] \in Docs \cup {Malformed}
    BY ReadPositions DEF IInv
  <2> QED BY <1>1, <2>1, CleanIsEnvelope
<1>3. ASSUME "floor" \in tests
      PROVE  /\ \A i \in DOMAIN read : Body[read[i].ref].floor \in {"absent", "good"}
             /\ \E i \in DOMAIN read : Body[read[i].ref].floor = "good"
  <2>1. Evaluate("floor") = Tally({i \in DOMAIN read : FloorStatus(read[i]) # "absent"},
                                  {i \in DOMAIN read : FloorStatus(read[i]) = "verified"})
    BY DEF Evaluate
  <2>2. Evaluate("floor") = "PASS"
    BY <1>3, AllPass
  <2>3. /\ \E i \in DOMAIN read : FloorStatus(read[i]) # "absent"
        /\ \A i \in DOMAIN read : FloorStatus(read[i]) # "absent"
                                    => FloorStatus(read[i]) = "verified"
    BY <2>1, <2>2 DEF Tally
  <2> QED BY <1>1, <1>2, <2>3, FloorsHold
<1>4. ASSUME "ceiling" \in tests
      PROVE  /\ \A i \in DOMAIN read : read[i].ceiling # NoCeiling =>
                  LET c == read[i].ceiling
                  IN c.nonce = read[i].ref /\ c.pinned /\ c.pubkeyAgrees /\ c.responseValid
             /\ \E i \in DOMAIN read : read[i].ceiling # NoCeiling
  <2>1. Evaluate("ceiling") = Tally({i \in DOMAIN read : CeilingStatus(read[i]) # "absent"},
                                    {i \in DOMAIN read : CeilingStatus(read[i]) = "verified"})
    BY DEF Evaluate
  <2>2. Evaluate("ceiling") = "PASS"
    BY <1>4, AllPass
  <2>3. /\ \E i \in DOMAIN read : CeilingStatus(read[i]) # "absent"
        /\ \A i \in DOMAIN read : CeilingStatus(read[i]) # "absent"
                                    => CeilingStatus(read[i]) = "verified"
    BY <2>1, <2>2 DEF Tally
  <2> QED BY <1>1, <1>2, <2>3, CeilingsHold
<1>5. ASSUME "content" \in tests
      PROVE  /\ artifacts
             /\ \A i \in DOMAIN read : Body[read[i].ref].subject \in {"absent", "matches"}
             /\ \E i \in DOMAIN read : Body[read[i].ref].subject = "matches"
  <2> DEFINE content(i) == ContentStatus(read[i], artifacts)
  <2>1. Evaluate("content") = Tally({i \in DOMAIN read : content(i) # "skipped"},
                                    {i \in DOMAIN read : content(i) = "ok"})
    BY DEF Evaluate
  <2>2. Evaluate("content") = "PASS"
    BY <1>5, AllPass
  <2>3. /\ \E i \in DOMAIN read : content(i) # "skipped"
        /\ \A i \in DOMAIN read : content(i) # "skipped" => content(i) = "ok"
    BY <2>1, <2>2 DEF Tally
  <2> QED BY <1>1, <1>2, <2>3, ContentsHold
<1> QED BY <1>3, <1>4, <1>5 DEF WitnessesHold

\* Exit status 0 hides no bad witness, whatever files and tests a run is given.
THEOREM WitnessesVerified == Spec => []WitnessesHold
BY Invariance, AlwaysBDR, WitnessInduct, PTL

-----------------------------------------------------------------------------
(* The refinement: reading is examining, and the report is the answer. *)

\* Both modules speak of documents in the words of Manifests.
LEMMA SameWords ==
  /\ \A d : /\ Promise!IsPrereg(d) <=> IsPrereg(d)
            /\ Promise!IsPostreg(d) <=> IsPostreg(d)
            /\ Promise!IsClean(d) <=> IsClean(d)
            /\ Promise!Signed(d) <=> Signed(d)
            /\ Promise!FulfillsOf(d) = FulfillsOf(d)
            /\ Promise!PrevOf(d) = PrevOf(d)
            /\ Promise!FloorStatus(d) = FloorStatus(d)
            /\ Promise!CeilingStatus(d) = CeilingStatus(d)
            /\ \A a : Promise!ContentStatus(d, a) = ContentStatus(d, a)
  /\ \A R, ref, prev : Promise!CheckChain(R, ref, prev) <=> CheckChain(R, ref, prev)
<1>1. ASSUME NEW d
      PROVE  /\ Promise!IsPrereg(d) <=> IsPrereg(d)
             /\ Promise!IsPostreg(d) <=> IsPostreg(d)
             /\ Promise!IsClean(d) <=> IsClean(d)
             /\ Promise!Signed(d) <=> Signed(d)
             /\ Promise!FulfillsOf(d) = FulfillsOf(d)
             /\ Promise!PrevOf(d) = PrevOf(d)
  BY DEF Promise!IsPrereg, IsPrereg, Promise!IsPostreg, IsPostreg, Promise!IsClean, IsClean,
         Promise!Signed, Signed, Promise!FulfillsOf, FulfillsOf, Promise!PrevOf, PrevOf,
         Promise!PhaseOf, PhaseOf
<1>2. ASSUME NEW d PROVE Promise!FloorStatus(d) = FloorStatus(d)
  BY <1>1 DEF Promise!FloorStatus, FloorStatus
<1>3. ASSUME NEW d PROVE Promise!CeilingStatus(d) = CeilingStatus(d)
  BY <1>1 DEF Promise!CeilingStatus, CeilingStatus
<1>4. ASSUME NEW d, NEW a PROVE Promise!ContentStatus(d, a) = ContentStatus(d, a)
  BY <1>1 DEF Promise!ContentStatus, ContentStatus
<1>5. ASSUME NEW R, NEW ref, NEW prev
      PROVE  Promise!CheckChain(R, ref, prev) <=> CheckChain(R, ref, prev)
  BY DEF Promise!CheckChain, CheckChain, Promise!OneRoot, OneRoot, Promise!NoGap, NoGap,
         Promise!NoFork, NoFork
<1> QED BY <1>1, <1>2, <1>3, <1>4, <1>5

\* The initial states map to the initial state of Catalog.
LEMMA InitMaps == Init => Promise!Init
BY DEF Init, Promise!Init, Question

\* Before a run concludes, its lists hold what the rule says, for the preregs
\* that the loop has let stand.
LEMMA ListsAreRule ==
  ASSUME IInv, pending = {}
  PROVE  /\ Promise!Committed = Commitments
         /\ [r \in Commitments |-> preregs[r]] \in Promise!Standings
         /\ \A r \in Commitments :
              /\ Promise!Toward(r, preregs[r]) = counted[r]
              /\ Promise!Against(r, preregs[r]) = rejected[r]
              /\ (Promise!ByOthers(r, preregs[r]) = {}) <=> KeyConsistent(r)
         /\ notarized = {i \in DOMAIN read : IsPostreg(read[i])
                                               /\ FulfillsOf(read[i]) \notin Commitments}
<1>1. ASSUME NEW r \in Commitments
      PROVE  r \in Ref /\ preregs[r] \in Promise!PreregsOf(r) /\ preregs[r] \in DOMAIN read
  BY SameWords DEF IInv, PreregsLatest, Preregs, Commitments, Promise!PreregsOf, Promise!Examined
<1>2. Promise!Committed = Commitments
  <2>1. Commitments \subseteq Promise!Committed
    BY <1>1 DEF Promise!Committed
  <2>2. ASSUME NEW r \in Promise!Committed PROVE r \in Commitments
    <3>1. PICK p \in DOMAIN read : IsPrereg(read[p]) /\ read[p].ref = r
      BY SameWords DEF Promise!Committed, Promise!PreregsOf, Promise!Examined
    <3>2. p \in Preregs
      BY <3>1 DEF Preregs
    <3> QED BY <3>1, <3>2, OnRecord
  <2> QED BY <2>1, <2>2
<1>3. [r \in Commitments |-> preregs[r]] \in Promise!Standings
  BY <1>1, <1>2 DEF Promise!Standings, Promise!Examined
<1>4. ASSUME NEW r \in Commitments
      PROVE  /\ Promise!Toward(r, preregs[r]) = counted[r]
             /\ Promise!Against(r, preregs[r]) = rejected[r]
             /\ (Promise!ByOthers(r, preregs[r]) = {}) <=> KeyConsistent(r)
  <2>1. Promise!Naming(r) = {i \in Postregs : FulfillsOf(read[i]) = r}
    BY SameWords DEF Promise!Naming, Promise!Examined, Postregs
  <2>2. \A i : Promise!Counts(i, preregs[r]) <=> RejectionReason(i, r) = "none"
    BY SameWords DEF Promise!Counts, RejectionReason
  <2>3. /\ counted[r] = {i \in Postregs : /\ FulfillsOf(read[i]) = r
                                          /\ RejectionReason(i, r) = "none"}
        /\ rejected[r] = {i \in Postregs : /\ FulfillsOf(read[i]) = r
                                           /\ RejectionReason(i, r) # "none"}
    BY <1>1 DEF IInv, Sorted
  <2>4. Promise!Toward(r, preregs[r]) = counted[r]
    BY <2>1, <2>2, <2>3 DEF Promise!Toward
  <2>5. Promise!Against(r, preregs[r]) = rejected[r]
    BY <2>1, <2>3, <2>4 DEF Promise!Against
  <2>6. \A i \in rejected[r] : Signed(read[i]) <=> RejectionReason(i, r) = "different key"
    BY <2>3 DEF RejectionReason
  <2>7. (Promise!ByOthers(r, preregs[r]) = {}) <=> KeyConsistent(r)
    BY <2>5, <2>6, SameWords DEF Promise!ByOthers, KeyConsistent
  <2> QED BY <2>4, <2>5, <2>7
<1>5. notarized = {i \in DOMAIN read : IsPostreg(read[i])
                                         /\ FulfillsOf(read[i]) \notin Commitments}
  BY DEF IInv, Sorted, Postregs, HasPrereg
<1> QED BY <1>2, <1>3, <1>4, <1>5

\* The values the checks of one document can have.
LEMMA StatusValues ==
  ASSUME TypeOK, NEW i \in DOMAIN read
  PROVE  /\ FloorStatus(read[i]) \in {"absent", "unsupported", "invalid", "verified"}
         /\ CeilingStatus(read[i])
              \in {"absent", "unsupported", "invalid", "unpinned", "verified"}
         /\ \A a : ContentStatus(read[i], a) \in {"skipped", "ok", "mismatch", "raises"}
<1>1. read[i] \in Docs \cup {Malformed}
  BY ReadPositions
<1>2. IsClean(read[i]) => Body[read[i].ref].floor \in FloorForms
  BY <1>1, CleanIsEnvelope DEF Bodies
<1>3. FloorStatus(read[i]) \in {"absent", "unsupported", "invalid", "verified"}
  BY <1>2 DEF FloorStatus, FloorForms
<1>4. CeilingStatus(read[i]) \in {"absent", "unsupported", "invalid", "unpinned", "verified"}
  BY DEF CeilingStatus
<1>5. \A a : ContentStatus(read[i], a) \in {"skipped", "ok", "mismatch", "raises"}
  BY DEF ContentStatus
<1> QED BY <1>3, <1>4, <1>5

\* The two ways of saying that a test passed.
LEMMA TallyIsVerdict ==
  ASSUME NEW U, NEW P, NEW A, NEW F,
         U = {} <=> A = {},
         U \subseteq P <=> F = {}
  PROVE  Tally(U, P) = Promise!Verdict(A, F)
BY DEF Tally, Promise!Verdict

\* Each test of the catalog has the result the rule gives.
LEMMA ResultsMap ==
  ASSUME IInv, pc = "group", pending = {}, NEW t \in TestCatalog,
         NEW s, s = [r \in Commitments |-> preregs[r]]
  PROVE  Evaluate(t) = Promise!Result(t, s)
<1> USE SameWords
<1>1. /\ Promise!Committed = Commitments
      /\ \A r \in Commitments :
           /\ Promise!Toward(r, s[r]) = counted[r]
           /\ Promise!Against(r, s[r]) = rejected[r]
           /\ (Promise!ByOthers(r, s[r]) = {}) <=> KeyConsistent(r)
  BY ListsAreRule
<1>2. Question.artifacts = artifacts
  BY DEF Question
<1>3. CASE t = "BDR"
  <2>1. Evaluate(t) = Tally(DOMAIN read, {i \in DOMAIN read : IsClean(read[i]) /\ Signed(read[i])})
    BY <1>3 DEF Evaluate
  <2>2. Promise!Result(t, s) =
          Promise!Verdict(DOMAIN read, {i \in DOMAIN read : ~ IsClean(read[i]) \/ ~ Signed(read[i])})
    BY <1>3 DEF Promise!Result, Promise!Examined
  <2> QED BY <2>1, <2>2, TallyIsVerdict
<1>4. CASE t = "floor"
  <2> DEFINE St(i) == FloorStatus(read[i])
  <2>1. Evaluate(t) = Tally({i \in DOMAIN read : St(i) # "absent"},
                            {i \in DOMAIN read : St(i) = "verified"})
    BY <1>4 DEF Evaluate
  <2>2. Promise!Result(t, s) =
          Promise!Verdict({i \in DOMAIN read : St(i) \notin {"absent", "skipped"}},
                          {i \in DOMAIN read : St(i) \notin {"absent", "skipped", "verified", "ok"}})
    BY <1>4 DEF Promise!Result, Promise!Examined
  <2>3. \A i \in DOMAIN read : St(i) \in {"absent", "unsupported", "invalid", "verified"}
    BY StatusValues DEF IInv
  <2> HIDE DEF St
  <2> QED BY <2>1, <2>2, <2>3, TallyIsVerdict
<1>5. CASE t = "ceiling"
  <2> DEFINE St(i) == CeilingStatus(read[i])
  <2>1. Evaluate(t) = Tally({i \in DOMAIN read : St(i) # "absent"},
                            {i \in DOMAIN read : St(i) = "verified"})
    BY <1>5 DEF Evaluate
  <2>2. Promise!Result(t, s) =
          Promise!Verdict({i \in DOMAIN read : St(i) \notin {"absent", "skipped"}},
                          {i \in DOMAIN read : St(i) \notin {"absent", "skipped", "verified", "ok"}})
    BY <1>5 DEF Promise!Result, Promise!Examined
  <2>3. \A i \in DOMAIN read : St(i) \in {"absent", "unsupported", "invalid", "unpinned", "verified"}
    BY StatusValues DEF IInv
  <2> HIDE DEF St
  <2> QED BY <2>1, <2>2, <2>3, TallyIsVerdict
<1>6. CASE t = "content"
  <2> DEFINE St(i) == ContentStatus(read[i], artifacts)
  <2>1. Evaluate(t) = Tally({i \in DOMAIN read : St(i) # "skipped"},
                            {i \in DOMAIN read : St(i) = "ok"})
    BY <1>6 DEF Evaluate
  <2>2. Promise!Result(t, s) =
          Promise!Verdict({i \in DOMAIN read : St(i) \notin {"absent", "skipped"}},
                          {i \in DOMAIN read : St(i) \notin {"absent", "skipped", "verified", "ok"}})
    BY <1>2, <1>6 DEF Promise!Result, Promise!Examined
  <2>3. \A i \in DOMAIN read : St(i) \in {"skipped", "ok", "mismatch", "raises"}
    BY StatusValues DEF IInv
  <2> HIDE DEF St
  <2> QED BY <2>1, <2>2, <2>3, TallyIsVerdict
<1>7. CASE t = "chain"
  <2>1. Evaluate(t) = Tally({r \in Commitments : counted[r] # {}}, {r \in Commitments : ChainOK(r)})
    BY <1>7 DEF Evaluate
  <2>2. Promise!Result(t, s) =
          Promise!Verdict({r \in Commitments : counted[r] # {}},
                          {r \in Commitments : ~ Promise!Chained(r, s[r])})
    BY <1>1, <1>7 DEF Promise!Result
  <2>3. \A r \in Commitments : Promise!Chained(r, s[r]) <=> ChainOK(r)
    BY <1>1 DEF Promise!Chained, ChainOK
  <2>4. \A r \in Commitments : counted[r] = {} => ChainOK(r)
    BY DEF ChainOK, CheckChain
  <2> QED BY <2>1, <2>2, <2>3, <2>4, TallyIsVerdict
<1>8. CASE t = "keyconsist"
  <2>1. Evaluate(t) = Tally({r \in Commitments : counted[r] # {} \/ rejected[r] # {}},
                            {r \in Commitments : KeyConsistent(r)})
    BY <1>8 DEF Evaluate
  <2>2. Promise!Result(t, s) =
          Promise!Verdict({r \in Commitments : Promise!Naming(r) # {}},
                          {r \in Commitments : Promise!ByOthers(r, s[r]) # {}})
    BY <1>1, <1>8 DEF Promise!Result
  <2>3. \A r \in Commitments : Promise!Naming(r) = counted[r] \cup rejected[r]
    BY <1>1 DEF Promise!Against, Promise!Toward
  <2>4. \A r \in Commitments : rejected[r] = {} => KeyConsistent(r)
    BY DEF KeyConsistent
  <2> DEFINE U == {r \in Commitments : counted[r] # {} \/ rejected[r] # {}}
             P == {r \in Commitments : KeyConsistent(r)}
             A == {r \in Commitments : Promise!Naming(r) # {}}
             F == {r \in Commitments : Promise!ByOthers(r, s[r]) # {}}
  <2>5. U = A
    BY <2>3
  <2>6. F = Commitments \ P
    BY <1>1
  <2>7. U \subseteq P <=> F = {}
    BY <2>4, <2>6
  <2> HIDE DEF U, P, A, F
  <2>8. Tally(U, P) = Promise!Verdict(A, F)
    BY <2>5, <2>7, TallyIsVerdict
  <2> USE DEF U, P, A, F
  <2> QED BY <2>1, <2>2, <2>8
<1> QED BY <1>3, <1>4, <1>5, <1>6, <1>7, <1>8 DEF TestCatalog

\* The report of a run is the answer the rule gives for the standing preregs.
LEMMA ReportIsAnswer ==
  ASSUME IInv, pc = "group", pending = {},
         NEW s, s = [r \in Commitments |-> preregs[r]]
  PROVE  ReportNow = Promise!AnswerFor(s)
<1> USE SameWords
<1>1. /\ Promise!Committed = Commitments
      /\ \A r \in Commitments :
           /\ Promise!Toward(r, s[r]) = counted[r]
           /\ Promise!Against(r, s[r]) = rejected[r]
           /\ (Promise!ByOthers(r, s[r]) = {}) <=> KeyConsistent(r)
      /\ notarized = {i \in DOMAIN read : IsPostreg(read[i])
                                            /\ FulfillsOf(read[i]) \notin Commitments}
  BY ListsAreRule
<1>2. Question.tests = tests /\ Question.now = now /\ tests \subseteq TestCatalog
  BY DEF Question, IInv, TypeOK
<1>3. \A t \in tests : Evaluate(t) = Promise!Result(t, s)
  BY <1>2, ResultsMap
<1>4. ASSUME NEW r \in Commitments
      PROVE  /\ CommitmentState(r) = Promise!State(r, s[r])
             /\ ChainOK(r) = Promise!Chained(r, s[r])
             /\ KeyConsistent(r) = (Promise!ByOthers(r, s[r]) = {})
  <2>1. r \in Ref /\ now \in Nat
    BY DEF Commitments, IInv, TypeOK
  <2>2. Body[r].due \in Nat \cup {NoDue, BadDue}
    BY <2>1, BodyAssumption DEF Bodies
  <2>3. CommitmentState(r) = Promise!State(r, s[r])
    BY <1>1, <1>2, <2>1, <2>2, DistinctAssumption DEF CommitmentState, Promise!State
  <2>4. ChainOK(r) = Promise!Chained(r, s[r])
    <3>1. ChainOK(r) <=> Promise!Chained(r, s[r])
      BY <1>1 DEF ChainOK, Promise!Chained
    <3>2. ChainOK(r) \in BOOLEAN /\ Promise!Chained(r, s[r]) \in BOOLEAN
      BY DEF ChainOK, Promise!Chained, CheckChain, Promise!CheckChain
    <3> QED BY <3>1, <3>2
  <2>5. KeyConsistent(r) \in BOOLEAN /\ (Promise!ByOthers(r, s[r]) = {}) \in BOOLEAN
    BY DEF KeyConsistent
  <2>6. KeyConsistent(r) = (Promise!ByOthers(r, s[r]) = {})
    BY <1>1, <2>5
  <2> QED BY <2>3, <2>4, <2>6
<1>5. Judged =
        [r \in Promise!Committed |->
           [state |-> Promise!State(r, s[r]),
            chainOK |-> Promise!Chained(r, s[r]),
            keyConsistent |-> Promise!ByOthers(r, s[r]) = {},
            counted |-> Promise!Toward(r, s[r]),
            rejected |-> Promise!Against(r, s[r])]]
  BY <1>1, <1>4 DEF Judged
<1>6. [t \in tests |-> Evaluate(t)] = [t \in tests |-> Promise!Result(t, s)]
  BY <1>3
<1>7. (\A t \in tests : Evaluate(t) = "PASS") = (\A t \in tests : Promise!Result(t, s) = "PASS")
  BY <1>3
<1>8. notarized = {i \in DOMAIN read :
                     Promise!IsPostreg(read[i]) /\ Promise!FulfillsOf(read[i]) \notin Promise!Committed}
  BY <1>1
<1>9. Promise!AnswerFor(s) =
        [read |-> read, commitments |-> Judged, notarized |-> notarized,
         results |-> [t \in tests |-> Promise!Result(t, s)],
         ok |-> \A t \in tests : Promise!Result(t, s) = "PASS"]
  BY <1>2, <1>5, <1>8 DEF Promise!AnswerFor, Promise!Examined
<1> QED BY <1>6, <1>7, <1>9 DEF ReportNow

\* Every step maps to a step of Catalog or changes nothing there.
LEMMA StepMaps == IInv /\ [Next]_vars => [Promise!Next]_(Promise!vars)
<1> SUFFICES ASSUME IInv, [Next]_vars
             PROVE  Promise!Next \/ UNCHANGED <<Question, read, report>>
  BY DEF Promise!vars
<1>1. ASSUME pc \in {"load", "group"}
      PROVE  /\ Question = [tests |-> tests, artifacts |-> artifacts, now |-> now,
                            files |-> Len(files)]
             /\ Question # NoQuestion
  <2>1. tests \in SUBSET Promise!CatalogTests /\ artifacts \in BOOLEAN /\ now \in Nat
    BY DEF IInv, TypeOK, TestCatalog, Promise!CatalogTests
  <2>2. Len(files) \in Nat
    BY PathAssumption DEF IInv, TypeOK, FileLists
  <2>3. Question = [tests |-> tests, artifacts |-> artifacts, now |-> now, files |-> Len(files)]
    BY <1>1 DEF Question
  <2>4. Question \in Promise!Questions
    BY <2>1, <2>2, <2>3 DEF Promise!Questions
  <2> QED BY <2>3, <2>4, QuestionAssumption
<1>2. ASSUME NEW request \in Requests, NEW args \in Arguments, NEW with \in BOOLEAN,
             Start(request, args, with)
      PROVE  Promise!Ask
  <2>1. Question = NoQuestion /\ read' = << >> /\ report' = report
    BY <1>2 DEF Start, Question
  <2>2. Question' = [tests |-> request, artifacts |-> with, now |-> clock, files |-> Len(files')]
    BY <1>2 DEF Start, Question
  <2>3. request \in SUBSET Promise!CatalogTests /\ "BDR" \in request
    BY <1>2 DEF Start, Accepts, TestCatalog, RequiredTest, Promise!CatalogTests
  <2>4. clock \in Nat
    BY DocsAssumption DEF IInv, TypeOK
  <2>5. Len(files') \in Nat
    BY <1>2, PathAssumption DEF Start, FileLists
  <2>6. Question' \in Promise!Questions /\ Question'.tests = request
    BY <2>2, <2>3, <2>4, <2>5 DEF Promise!Questions
  <2> QED BY <2>1, <2>3, <2>6 DEF Promise!Ask
<1>3. ASSUME NEW request \in Requests, NEW args \in Arguments,
             Refuse(request) \/ ListingFails(request, args)
      PROVE  UNCHANGED <<Question, read, report>>
  BY <1>3 DEF Refuse, ListingFails, Question
<1>4. ASSUME LoadNext PROVE Promise!Examine
  <2>1. pc = "load" /\ Len(read) < Len(files) /\ read' = Append(read, Upcoming)
    BY <1>4 DEF LoadNext
  <2>2. UNCHANGED <<Question, report>>
    BY <1>4 DEF LoadNext, setup, Question
  <2>3. /\ Question # NoQuestion /\ Question.files = Len(files)
        /\ Question.artifacts = artifacts
    BY <1>1, <2>1
  <2>4. Len(read') = Len(read) + 1 /\ read'[Len(read) + 1] = Upcoming
    BY <2>1, ReadGrows DEF IInv
  <2>5. Upcoming \in Promise!Documents
    <3>1. Upcoming \in Documents
      BY <2>1, UpcomingType, DocsAssumption DEF IInv, Documents
    <3> QED BY <3>1 DEF Documents, Promise!Documents, Envelopes, Promise!Envelopes, Ceilings,
               Promise!Ceilings
  <2>6. Promise!ContentStatus(Upcoming, artifacts) # "raises"
    BY <1>4, SameWords DEF LoadNext, CheckRaises
  <2> QED BY <2>1, <2>2, <2>3, <2>4, <2>5, <2>6 DEF Promise!Examine
<1>5. CASE LoadPrereg \/ LoadPostreg \/ LoadOther
  BY <1>4, <1>5 DEF LoadPrereg, LoadPostreg, LoadOther, Promise!Next
<1>6. CASE EndLoad
  BY <1>6 DEF EndLoad, setup, Question
<1>7. CASE GroupCounted \/ GroupRejected \/ GroupNotarized
  BY <1>7 DEF GroupCounted, GroupRejected, GroupNotarized, GroupNext, setup, Question
<1>8. CASE Conclude
  <2> DEFINE s == [r \in Commitments |-> preregs[r]]
  <2>1. pc = "group" /\ pending = {} /\ report' = ReportNow /\ pc' = "done" /\ read' = read
    BY <1>8 DEF Conclude
  <2>2. s \in Promise!Standings
    BY <2>1, ListsAreRule
  <2>3. report' = Promise!AnswerFor(s)
    BY <2>1, ReportIsAnswer
  <2>4. Len(read) = Len(files)
    BY <2>1 DEF IInv, Progress
  <2>5. Question # NoQuestion /\ Question.files = Len(files) /\ Question' = NoQuestion
    BY <1>1, <2>1 DEF Question
  <2> HIDE DEF s
  <2>6. Promise!Answer
    BY <2>1, <2>2, <2>3, <2>4, <2>5 DEF Promise!Answer
  <2> QED BY <2>6 DEF Promise!Next
<1>9. CASE LoadRaises
  <2>1. pc = "load" /\ pc' = "raised" /\ Len(read) < Len(files)
    BY <1>9 DEF LoadRaises
  <2>2. artifacts
    BY <1>9 DEF LoadRaises, CheckRaises, ContentStatus
  <2>3. Question # NoQuestion /\ Question.files = Len(files) /\ Question.artifacts
    BY <1>1, <2>1, <2>2
  <2>4. Question' = NoQuestion /\ UNCHANGED <<read, report>>
    BY <1>9, <2>1 DEF LoadRaises, Question
  <2> QED BY <2>1, <2>3, <2>4 DEF Promise!Drop, Promise!Next
<1>10. CASE UNCHANGED vars
  BY <1>10 DEF vars, setup, Question
<1> QED BY <1>2, <1>3, <1>5, <1>6, <1>7, <1>8, <1>9, <1>10 DEF Next, Begin, Run, Promise!Next

\* Every behaviour of the verifier is one that the declarative rule allows.
THEOREM Refinement == Spec => ImplementsCatalog
<1>1. Init => Promise!Init
  BY InitMaps
<1>2. IInv /\ [Next]_vars => [Promise!Next]_(Promise!vars)
  BY StepMaps
<1> QED BY <1>1, <1>2, Invariance, PTL DEF Spec, ImplementsCatalog, Promise!Spec
=============================================================================
