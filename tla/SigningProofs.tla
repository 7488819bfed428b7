--------------------------- MODULE SigningProofs ---------------------------
(***************************************************************************)
(* Theorems about Signing, for any committers, command lines and files.    *)
(***************************************************************************)
EXTENDS Signing, TLAPS

HasFulfills(c) == stage[c] \in {"prev", "inherit", "floor", "ceiling", "open", "write", "done"}
HasPrev(c)  == stage[c] \in {"inherit", "floor", "ceiling", "open", "write", "done"}
HasTerms(c) == stage[c] \in {"floor", "ceiling", "open", "write", "done"}

IsPostregJob(c) == job[c].phase = "postreg"

\* A manifest says what its committer found out, and no more.
Told(c) ==
  /\ Body[mani[c].ref].fulfills = fulfills[c]
  /\ Body[mani[c].ref].prev = prev[c]
  /\ Body[mani[c].ref].due = due[c]
  /\ job[c].floor /\ ~ job[c].bestEffort => Body[mani[c].ref].floor # "absent"
  /\ CeilingStatus(mani[c]) \in {"absent", "verified"}
  /\ stage[c] # "ceiling" => AsAsked(c)

Faithful == \A c \in Committer : HasSigned(c) => Told(c)

\* The output files of c are not there until it opens one, and what it read of the
\* files its manifest links to is still what they hold.
Untouched(c) ==
  /\ stage[c] \notin {"write", "done", "dead"} => \A j \in Plan[c] : disk[j.out] = NoFile
  /\ stage[c] = "write" => disk[job[c].out] = Empty
  /\ HasFulfills(c) /\ IsPostregJob(c) /\ job[c].fulfills \in Path =>
       Readable(job[c].fulfills) /\ disk[job[c].fulfills].ref = fulfills[c]
  /\ HasPrev(c) /\ IsPostregJob(c) /\ job[c].prev \in Path =>
       Readable(job[c].prev) /\ disk[job[c].prev].ref = prev[c]
  /\ HasTerms(c) /\ IsPostregJob(c) /\ job[c].fulfills \in Path /\ job[c].due = NoDue
       => (fulfills[c] \in Ref => due[c] = Body[fulfills[c]].due)

Undisturbed == \A c \in Committer : Untouched(c)

\* A committer that has what it insists on creates its file, or fills it.
Fills(c, p) ==
  /\ HasSigned(c) /\ job[c].out = p /\ AsAsked(c)
  /\ \/ disk[p] = NoFile /\ disk'[p] = Empty
     \/ disk[p] = Empty /\ disk'[p] = mani[c]

\* What DirectoryGrows says of one step.
Grown ==
  /\ \A p \in Path : disk'[p] # disk[p] => \E c \in Committer : Fills(c, p)
  /\ \A c \in Committer : stage'[c] = "refused" => disk'[job'[c].out] = NoFile

IInv == TypeOK /\ Faithful /\ (FreshOuts => Undisturbed)

-----------------------------------------------------------------------------
(* Types *)

\* What a link resolves to is a ref, or dangles.
LEMMA RefAtType ==
  ASSUME NEW v \in Path \cup Ref \cup {Dangling, NoLink}, Resolves(v)
  PROVE  RefAt(v) \in Ref \cup {Dangling}
BY SigningAssumption DEF Resolves, Readable, RefAt, Envelopes, Loose

\* What is inherited from a readable file is a deadline, or there are no terms; and
\* of the payload of a known body it is the deadline of that body.
LEMMA TermsType ==
  ASSUME TypeOK, NEW p, Readable(p)
  PROVE  /\ TermsAt(p) \in Nat \cup {NoDue, BadDue, NoTerms}
         /\ disk[p].ref \in Ref => TermsAt(p) = Body[disk[p].ref].due
<1>1. CASE disk[p] \in Envelopes
  <2>1. disk[p].ref \in Ref
    BY <1>1 DEF Envelopes
  <2> QED BY <1>1, <2>1, BodyAssumption DEF TermsAt, Bodies
<1>2. CASE disk[p] \notin Envelopes
  BY <1>2 DEF TermsAt, Readable, Loose
<1> QED BY <1>1, <1>2

\* A planned command line is well typed.
LEMMA PlanType ==
  ASSUME NEW c \in Committer, NEW j \in Plan[c]
  PROVE  j \in CommandLines
BY SigningAssumption

\* Types hold at first.
LEMMA InitTyped == Init => TypeOK
BY SigningAssumption DEF Init, TypeOK, Stages, HasSigned

\* Types survive the death of a committer.
LEMMA DieTyped == ASSUME TypeOK, NEW c \in Committer, Die(c) PROVE TypeOK'
BY DEF TypeOK, Die, Stages, HasSigned

\* Types survive every step of a command.
LEMMA StepTyped ==
  ASSUME TypeOK, NEW c \in Committer, Step(c)
  PROVE  TypeOK'
<1> USE DEF TypeOK, Goes, Stages, HasSigned
<1>1. CASE BeginPrereg(c)
  <2>1. PICK j \in Plan[c] :
          /\ Goes(c, "idle", IF j.target /\ j.due # BadDue THEN "floor" ELSE "refused")
          /\ job' = [job EXCEPT ![c] = j]
          /\ due' = [due EXCEPT ![c] = j.due]
          /\ UNCHANGED <<disk, fulfills, prev, mani>>
    BY <1>1 DEF BeginPrereg
  <2>2. j.due \in Nat \cup {NoDue, BadDue}
    BY PlanType DEF CommandLines
  <2>3. stage' \in [Committer -> Stages] /\ due' \in [Committer -> Nat \cup {NoDue, BadDue}]
    BY <2>1, <2>2
  <2>4. \A e \in Committer : stage'[e] \notin {"idle", "dead"} => job'[e] \in Plan[e]
    <3> SUFFICES ASSUME NEW e \in Committer, stage'[e] \notin {"idle", "dead"}
                 PROVE  job'[e] \in Plan[e]
      OBVIOUS
    <3>1. CASE e = c
      BY <2>1, <3>1
    <3>2. CASE e # c
      BY <2>1, <3>2
    <3> QED BY <3>1, <3>2
  <2> QED BY <2>1, <2>3, <2>4
<1>2. CASE BeginPostreg(c)
  BY <1>2 DEF BeginPostreg
<1>3. CASE ResolveFulfills(c)
  <2>1. job[c].fulfills \in Path \cup Ref \cup {Dangling, NoLink}
    BY <1>3, PlanType DEF ResolveFulfills, CommandLines
  <2>2. RefAt(job[c].fulfills) \in Ref \cup {Dangling, NoLink}
    BY <1>3, <2>1, RefAtType DEF ResolveFulfills
  <2> QED BY <1>3, <2>2 DEF ResolveFulfills
<1>4. CASE ResolvePrev(c)
  <2>1. job[c].prev \in Path \cup Ref \cup {Dangling, NoLink}
    BY <1>4, PlanType DEF ResolvePrev, CommandLines
  <2>2. job[c].prev # NoLink => RefAt(job[c].prev) \in Ref \cup {Dangling, NoLink}
    BY <1>4, <2>1, RefAtType DEF ResolvePrev
  <2> QED BY <1>4, <2>2 DEF ResolvePrev
<1>5. CASE RefuseLink(c)
  BY <1>5 DEF RefuseLink
<1>6. CASE Inherit(c)
  <2>1. job[c].due \in Nat \cup {NoDue, BadDue}
    BY <1>6, PlanType DEF Inherit, CommandLines
  <2>2. job[c].due # NoDue \/ (job[c].fulfills \in Path => TermsAt(job[c].fulfills) \in Nat \cup {NoDue, BadDue})
    BY <1>6, TermsType DEF Inherit
  <2>3. due' \in [Committer -> Nat \cup {NoDue, BadDue}]
    BY <1>6, <2>1, <2>2 DEF Inherit
  <2> QED BY <1>6, <2>3 DEF Inherit
<1>7. CASE RefuseTerms(c)
  BY <1>7 DEF RefuseTerms
<1>8. CASE SignWithFloor(c)
  <2>1. PICK floor, r \in Ref :
          /\ Goes(c, "floor", "ceiling")
          /\ mani' = [mani EXCEPT ![c] = [ref |-> r, keyid |-> job[c].key, sigOK |-> TRUE,
                                          keyidOK |-> TRUE, ceiling |-> NoCeiling]]
          /\ UNCHANGED <<disk, job, fulfills, prev, due>>
    BY <1>8 DEF SignWithFloor, Sign
  <2>2. job[c].key \in KeyId
    BY <2>1, PlanType DEF CommandLines
  <2>3. [ref |-> r, keyid |-> job[c].key, sigOK |-> TRUE, keyidOK |-> TRUE,
         ceiling |-> NoCeiling] \in Envelopes
    BY <2>2 DEF Envelopes
  <2> QED BY <2>1, <2>3
<1>9. CASE RefuseFloor(c)
  BY <1>9 DEF RefuseFloor
<1>10. CASE AttachCeiling(c)
  <2> DEFINE m == [mani[c] EXCEPT !.ceiling =
                     [form |-> "ok", nonce |-> mani[c].ref, pinned |-> TRUE,
                      pubkeyAgrees |-> TRUE, responseValid |-> TRUE]]
  <2>1. mani[c] \in Envelopes
    BY <1>10 DEF AttachCeiling
  <2>2. m \in Envelopes
    BY <2>1 DEF Envelopes, Ceilings
  <2>3. mani' = [mani EXCEPT ![c] = m] /\ DOMAIN mani' = Committer
    BY <1>10 DEF AttachCeiling
  <2>4. stage' = [stage EXCEPT ![c] = "open"] /\ UNCHANGED <<disk, job, fulfills, prev, due>>
    BY <1>10 DEF AttachCeiling
  <2>5. \A e \in Committer : HasSigned(e)' => mani'[e] \in Envelopes
    <3> HIDE DEF m
    <3> QED BY <1>10, <2>2, <2>3, <2>4 DEF AttachCeiling
  <2>6. \A e \in Committer : stage'[e] \notin {"idle", "dead"} => job'[e] \in Plan[e]
    BY <1>10, <2>4 DEF AttachCeiling
  <2>7. stage' \in [Committer -> Stages]
    BY <2>4
  <2> HIDE DEF m
  <2> QED BY <2>3, <2>4, <2>5, <2>6, <2>7
<1>11. CASE NoCeilingNeeded(c)
  BY <1>11 DEF NoCeilingNeeded
<1>12. CASE RefuseCeiling(c)
  BY <1>12 DEF RefuseCeiling
<1>13. CASE OpenOut(c)
  BY <1>13 DEF OpenOut
<1>14. CASE WriteOut(c)
  <2>1. disk' \in [Path -> Files \cup {NoFile, Empty}]
    BY <1>14 DEF WriteOut, Files, Documents
  <2>2. stage' = [stage EXCEPT ![c] = "done"] /\ stage[c] = "write"
    BY <1>14 DEF WriteOut
  <2>3. UNCHANGED <<job, fulfills, prev, due, mani>>
    BY <1>14 DEF WriteOut
  <2> QED BY <2>1, <2>2, <2>3
<1> QED BY <1>1, <1>2, <1>3, <1>4, <1>5, <1>6, <1>7, <1>8, <1>9, <1>10, <1>11, <1>12, <1>13,
           <1>14 DEF Step

-----------------------------------------------------------------------------
(* What a manifest says *)

\* A step of one committer leaves what the others know alone.
LEMMA OthersStay ==
  ASSUME TypeOK, NEW c \in Committer, Step(c) \/ Die(c), NEW e \in Committer, e # c
  PROVE  /\ stage'[e] = stage[e] /\ job'[e] = job[e]
         /\ fulfills'[e] = fulfills[e] /\ prev'[e] = prev[e]
         /\ due'[e] = due[e] /\ mani'[e] = mani[e]
BY DEF TypeOK, Goes, Step, Die, BeginPrereg, BeginPostreg, ResolveFulfills, ResolvePrev,
       RefuseLink, Inherit, RefuseTerms, SignWithFloor, Sign, RefuseFloor, AttachCeiling,
       NoCeilingNeeded, RefuseCeiling, OpenOut, WriteOut

\* Nobody has signed at first.
LEMMA InitFaithful == Init => Faithful
BY DEF Init, Faithful, HasSigned

\* Signing writes down what was found out; later steps do not change it.
LEMMA StepFaithful ==
  ASSUME TypeOK, Faithful, NEW c \in Committer, Step(c) \/ Die(c)
  PROVE  Faithful'
<1> SUFFICES ASSUME NEW e \in Committer, HasSigned(e)' PROVE Told(e)'
  BY DEF Faithful
<1>1. CASE e # c
  BY <1>1, OthersStay DEF Faithful, Told, HasSigned, AsAsked
<1>2. CASE e = c
  <2>1. CASE SignWithFloor(c)
    BY <1>2, <2>1 DEF TypeOK, SignWithFloor, Sign, Goes, Told, CeilingStatus, AsAsked
  <2>2. CASE AttachCeiling(c)
    <3>1. mani[c] \in Envelopes /\ Told(c)
      BY <2>2 DEF AttachCeiling, Goes, TypeOK, HasSigned, Faithful
    <3>2. mani'[c].ref = mani[c].ref
      BY <2>2, <3>1 DEF AttachCeiling, TypeOK, Envelopes
    <3>3. mani'[c].ceiling = [form |-> "ok", nonce |-> mani[c].ref, pinned |-> TRUE,
                              pubkeyAgrees |-> TRUE, responseValid |-> TRUE]
      BY <2>2, <3>1 DEF AttachCeiling, TypeOK, Envelopes
    <3>4. mani'[c].ceiling # NoCeiling
      <4>1. mani[c].ref \in Ref
        BY <3>1 DEF Envelopes
      <4>2. mani'[c].ceiling \in Ceilings
        BY <3>3, <4>1 DEF Ceilings
      <4> QED BY <4>2, DistinctAssumption
    <3>5. CeilingStatus(mani'[c]) \in {"absent", "verified"}
      BY <3>2, <3>3 DEF CeilingStatus
    <3>6. UNCHANGED <<fulfills, prev, due, job>>
      BY <2>2 DEF AttachCeiling
    <3> QED BY <1>2, <3>1, <3>2, <3>4, <3>5, <3>6 DEF Told, AsAsked
  <2>3. CASE NoCeilingNeeded(c)
    BY <1>2, <2>3 DEF NoCeilingNeeded, Goes, Faithful, HasSigned, Told, AsAsked
  <2>4. CASE OpenOut(c) \/ WriteOut(c)
    BY <1>2, <2>4 DEF OpenOut, WriteOut, TypeOK, Goes, Faithful, HasSigned, Told, AsAsked
  <2>5. CASE ~ (\/ SignWithFloor(c) \/ AttachCeiling(c) \/ NoCeilingNeeded(c)
                \/ OpenOut(c) \/ WriteOut(c))
    BY <1>2, <2>5 DEF TypeOK, HasSigned, Goes, Step, Die, BeginPrereg, BeginPostreg,
                      ResolveFulfills, ResolvePrev, RefuseLink, Inherit, RefuseTerms,
                      RefuseFloor, RefuseCeiling
  <2> QED BY <2>1, <2>2, <2>3, <2>4, <2>5
<1> QED BY <1>1, <1>2

-----------------------------------------------------------------------------
(* What was read stays *)

\* The writing steps, and what they find at the file they write.
LEMMA DiskStep ==
  ASSUME TypeOK, Undisturbed, NEW c \in Committer, Step(c) \/ Die(c)
  PROVE  LET out == job[c].out IN
         \/ disk' = disk /\ stage'[c] # "write" /\ (stage'[c] = "done" => stage[c] = "done")
         \/ /\ stage[c] = "open" /\ stage'[c] = "write" /\ disk[out] = NoFile
            /\ disk' = [disk EXCEPT ![out] = Empty] /\ out \in Path /\ job[c] \in Plan[c]
            /\ UNCHANGED <<job, fulfills, prev, due>>
         \/ /\ stage[c] = "write" /\ stage'[c] = "done" /\ disk[out] = Empty
            /\ mani[c] \in Envelopes /\ out \in Path /\ job[c] \in Plan[c]
            /\ disk' = [disk EXCEPT ![out] = mani[c]]
            /\ UNCHANGED <<job, fulfills, prev, due>>
<1>1. CASE OpenOut(c)
  <2>1. job[c] \in Plan[c] /\ disk[job[c].out] = NoFile
    BY <1>1 DEF OpenOut, Goes, TypeOK, Undisturbed, Untouched
  <2>2. job[c].out \in Path
    BY <2>1, PlanType DEF CommandLines
  <2> QED BY <1>1, <2>1, <2>2 DEF OpenOut, Goes, TypeOK
<1>2. CASE WriteOut(c)
  <2>1. job[c] \in Plan[c] /\ disk[job[c].out] = Empty /\ mani[c] \in Envelopes
    BY <1>2 DEF WriteOut, Goes, TypeOK, HasSigned, Undisturbed, Untouched
  <2>2. job[c].out \in Path
    BY <2>1, PlanType DEF CommandLines
  <2> QED BY <1>2, <2>1, <2>2 DEF WriteOut, Goes, TypeOK
<1>3. CASE ~ OpenOut(c) /\ ~ WriteOut(c)
  BY <1>3 DEF TypeOK, Goes, Step, Die, BeginPrereg, BeginPostreg, ResolveFulfills,
              ResolvePrev, RefuseLink, Inherit, RefuseTerms, SignWithFloor, Sign, RefuseFloor,
              AttachCeiling, NoCeilingNeeded, RefuseCeiling
<1> QED BY <1>1, <1>2, <1>3

\* A readable file keeps its manifest.
LEMMA ReadableStays ==
  ASSUME TypeOK, Undisturbed, NEW c \in Committer, Step(c) \/ Die(c),
         NEW p \in Path, Readable(p)
  PROVE  disk'[p] = disk[p] /\ Readable(p)'
<1>1. disk[p] # NoFile /\ disk[p] # Empty
  BY SigningAssumption, DistinctAssumption DEF Readable, Files, Documents
<1>2. disk'[p] = disk[p]
  BY <1>1, DiskStep DEF TypeOK
<1> QED BY <1>2 DEF Readable

\* At first no output file is there.
LEMMA InitUndisturbed == Init /\ FreshOuts => Undisturbed
BY DEF Init, FreshOuts, Undisturbed, Untouched, HasFulfills, HasPrev, HasTerms

\* Nobody else writes the output files of e.
LEMMA OthersUntouched ==
  ASSUME TypeOK, FreshOuts, Undisturbed, NEW c \in Committer, Step(c) \/ Die(c),
         NEW e \in Committer, e # c
  PROVE  Untouched(e)'
<1>1. /\ stage'[e] = stage[e] /\ job'[e] = job[e]
      /\ fulfills'[e] = fulfills[e] /\ prev'[e] = prev[e]
      /\ due'[e] = due[e] /\ mani'[e] = mani[e]
  BY OthersStay
<1>2. Untouched(e)
  BY DEF Undisturbed
<1>3. \A j \in Plan[e] : disk'[j.out] = disk[j.out]
  <2> SUFFICES ASSUME NEW j \in Plan[e] PROVE disk'[j.out] = disk[j.out]
    OBVIOUS
  <2>1. j.out \in Path
    BY PlanType DEF CommandLines
  <2>2. job[c] \in Plan[c] => job[c].out # j.out
    BY DEF FreshOuts
  <2> QED BY <2>1, <2>2, DiskStep DEF TypeOK
<1>4. stage'[e] \notin {"write", "done", "dead"} => \A j \in Plan[e] : disk'[j.out] = NoFile
  BY <1>1, <1>2, <1>3 DEF Untouched
<1>5. stage'[e] = "write" => disk'[job'[e].out] = Empty
  <2>1. stage[e] = "write" => job[e] \in Plan[e]
    BY DEF TypeOK
  <2> QED BY <1>1, <1>2, <1>3, <2>1 DEF Untouched
<1>6. \A p \in Path : Readable(p) => disk'[p] = disk[p] /\ Readable(p)'
  BY ReadableStays
<1>7. (HasFulfills(e) /\ IsPostregJob(e) /\ job[e].fulfills \in Path =>
         Readable(job[e].fulfills) /\ disk[job[e].fulfills].ref = fulfills[e])'
  BY <1>1, <1>2, <1>6 DEF Untouched, HasFulfills, IsPostregJob
<1>8. (HasPrev(e) /\ IsPostregJob(e) /\ job[e].prev \in Path =>
         Readable(job[e].prev) /\ disk[job[e].prev].ref = prev[e])'
  BY <1>1, <1>2, <1>6 DEF Untouched, HasPrev, IsPostregJob
<1>9. (HasTerms(e) /\ IsPostregJob(e) /\ job[e].fulfills \in Path /\ job[e].due = NoDue
         => (fulfills[e] \in Ref => due[e] = Body[fulfills[e]].due))'
  BY <1>1, <1>2 DEF Untouched, HasTerms, IsPostregJob
<1> QED BY <1>4, <1>5, <1>7, <1>8, <1>9 DEF Untouched

\* A committer keeps its own output file, and what it read, up to its own steps.
LEMMA OwnUntouched ==
  ASSUME TypeOK, FreshOuts, Undisturbed, NEW c \in Committer, Step(c) \/ Die(c)
  PROVE  Untouched(c)'
<1>1. Untouched(c)
  BY DEF Undisturbed
<1>2. \A p \in Path : Readable(p) => disk'[p] = disk[p] /\ Readable(p)'
  BY ReadableStays
<1> USE DEF TypeOK, Goes, Untouched, HasFulfills, HasPrev, HasTerms, IsPostregJob
<1>3. CASE BeginPrereg(c)
  BY <1>1, <1>3 DEF BeginPrereg
<1>4. CASE BeginPostreg(c)
  BY <1>1, <1>4 DEF BeginPostreg
<1>5. CASE ResolveFulfills(c)
  BY <1>1, <1>5, SigningAssumption DEF ResolveFulfills, Resolves, Readable, RefAt
<1>6. CASE ResolvePrev(c)
  BY <1>1, <1>6, SigningAssumption DEF ResolvePrev, Resolves, Readable, RefAt
<1>7. CASE RefuseLink(c)
  BY <1>1, <1>7 DEF RefuseLink
<1>8. CASE Inherit(c)
  <2>1. job[c].fulfills \in Path => Readable(job[c].fulfills)
    BY <1>8 DEF Inherit
  <2>2. job[c].fulfills \in Path /\ IsPostregJob(c) /\ job[c].due = NoDue
          => (fulfills[c] \in Ref => due'[c] = Body[fulfills[c]].due)
    BY <1>1, <1>8, <2>1, TermsType DEF Inherit
  <2> HIDE DEF Readable
  <2> QED BY <1>1, <1>2, <1>8, <2>2 DEF Inherit
<1>9. CASE RefuseTerms(c)
  BY <1>1, <1>9 DEF RefuseTerms
<1>10. CASE SignWithFloor(c)
  BY <1>1, <1>10 DEF SignWithFloor, Sign, Readable
<1>11. CASE RefuseFloor(c)
  BY <1>1, <1>11 DEF RefuseFloor
<1>12. CASE AttachCeiling(c)
  BY <1>1, <1>12 DEF AttachCeiling, Readable
<1>13. CASE NoCeilingNeeded(c)
  BY <1>1, <1>13 DEF NoCeilingNeeded, Readable
<1>14. CASE RefuseCeiling(c)
  BY <1>1, <1>14 DEF RefuseCeiling
<1>15. CASE OpenOut(c)
  <2>1. /\ job[c].out \in Path /\ disk' = [disk EXCEPT ![job[c].out] = Empty]
        /\ stage[c] = "open" /\ stage'[c] = "write"
        /\ UNCHANGED <<job, fulfills, prev, due>>
    BY <1>15, DiskStep DEF OpenOut
  <2> QED BY <1>1, <1>2, <2>1
<1>16. CASE WriteOut(c)
  <2>1. stage[c] = "write" /\ stage'[c] = "done" /\ UNCHANGED <<job, fulfills, prev, due>>
    BY <1>16 DEF WriteOut
  <2> QED BY <1>1, <1>2, <2>1
<1>17. CASE Die(c)
  BY <1>1, <1>17 DEF Die
<1> QED BY <1>3, <1>4, <1>5, <1>6, <1>7, <1>8, <1>9, <1>10, <1>11, <1>12, <1>13, <1>14,
           <1>15, <1>16, <1>17 DEF Step

\* The directory only grows, and what it gets has the witnesses that were asked for.
LEMMA StepGrows ==
  ASSUME TypeOK, Faithful, FreshOuts, Undisturbed, NEW c \in Committer, Step(c) \/ Die(c)
  PROVE  Grown
<1>1. ASSUME NEW p \in Path, disk'[p] # disk[p] PROVE Fills(c, p)
  <2>1. stage[c] \in {"open", "write"} /\ job[c].out = p
    BY <1>1, DiskStep DEF TypeOK
  <2>2. HasSigned(c) /\ AsAsked(c)
    BY <2>1 DEF HasSigned, Faithful, Told
  <2> QED BY <1>1, <2>1, <2>2, DiskStep DEF Fills, TypeOK
<1>2. ASSUME NEW e \in Committer, stage'[e] = "refused" PROVE disk'[job'[e].out] = NoFile
  <2>1. TypeOK' /\ Untouched(e)'
    BY StepTyped, DieTyped, OwnUntouched, OthersUntouched
  <2>2. job'[e] \in Plan[e]
    BY <1>2, <2>1 DEF TypeOK
  <2> QED BY <1>2, <2>1, <2>2 DEF Untouched
<1> QED BY <1>1, <1>2 DEF Grown

-----------------------------------------------------------------------------
(* Theorems *)

\* A step is one of some committer.
LEMMA NextSteps ==
  ASSUME Next PROVE \E c \in Committer : Step(c) \/ Die(c)
BY DEF Next

\* The invariant holds at first.
LEMMA IInvInit == Init => IInv
BY InitTyped, InitFaithful, InitUndisturbed DEF IInv

\* The invariant is inductive.
LEMMA IInvNext == IInv /\ [Next]_vars => IInv'
<1> SUFFICES ASSUME IInv, [Next]_vars PROVE IInv'
  OBVIOUS
<1>1. CASE UNCHANGED vars
  BY <1>1 DEF vars, IInv, TypeOK, Faithful, Told, AsAsked, HasSigned, Undisturbed,
              Untouched, HasFulfills, HasPrev, HasTerms, IsPostregJob, Readable
<1>2. CASE Next
  <2>1. PICK c \in Committer : Step(c) \/ Die(c)
    BY <1>2, NextSteps
  <2>2. TypeOK /\ Faithful
    BY DEF IInv
  <2>3. TypeOK'
    BY <2>1, <2>2, StepTyped, DieTyped
  <2>4. Faithful'
    BY <2>1, <2>2, StepFaithful
  <2>5. FreshOuts => Undisturbed'
    <3> SUFFICES ASSUME FreshOuts, NEW e \in Committer PROVE Untouched(e)'
      BY DEF Undisturbed
    <3>1. Undisturbed
      BY DEF IInv
    <3> QED BY <2>1, <2>2, <3>1, OwnUntouched, OthersUntouched
  <2> QED BY <2>3, <2>4, <2>5 DEF IInv, FreshOuts
<1> QED BY <1>1, <1>2

\* Every reachable state of the commands satisfies the inductive invariant.
THEOREM Invariance == Spec => []IInv
BY IInvInit, IInvNext, PTL DEF Spec

\* TypeOK holds of every run of the commands.
THEOREM TypeCorrect == Spec => []TypeOK
<1>1. IInv => TypeOK
  BY DEF IInv
<1> QED BY Invariance, <1>1, PTL

\* A manifest that is about to be written, or has been, has the witnesses that its
\* command line insisted on, and a ceiling of its own (cmd_prereg, cmd_postreg,
\* _get_floor, _attach_ceiling).
THEOREM Witnessed == Spec => []WitnessesAsAsked
<1>1. IInv => WitnessesAsAsked
  BY DEF IInv, Faithful, Told, HasSigned, WitnessesAsAsked, AsAsked
<1> QED BY Invariance, <1>1, PTL

\* With output files of their own, committers never link to a stale file, although
\* each file is read well before the manifest is written (_resolve_ref).
THEOREM LinksStay == Spec => []LinksResolve
<1>1. IInv => LinksResolve
  BY DEF IInv, Faithful, Told, HasSigned, LinksResolve, Undisturbed, Untouched,
         HasFulfills, HasPrev, IsPostregJob, FulfillsOf, PrevOf
<1> QED BY Invariance, <1>1, PTL

\* With output files of their own, the two readings of --fulfills by cmd_postreg agree:
\* a postreg inherits its terms from the very manifest it names.
THEOREM Inherited == Spec => [](FreshOuts => InheritsFromFulfilled)
<1>1. IInv => (FreshOuts => InheritsFromFulfilled)
  BY DEF IInv, Faithful, Told, HasSigned, InheritsFromFulfilled, Undisturbed, Untouched,
         HasTerms, IsPostregJob, FulfillsOf
<1> QED BY Invariance, <1>1, PTL

\* With output files of their own, committers only add to the directory, as Archive
\* assumes of those who write it (manifest.save), and nothing before all witnesses
\* that were insisted on are there (_get_floor, _attach_ceiling).
THEOREM Growing == Spec => DirectoryGrows
<1>1. IInv /\ [Next]_vars =>
        [FreshOuts =>
           /\ \A p \in Path : disk'[p] # disk[p] =>
                \E c \in Committer :
                  /\ HasSigned(c) /\ job[c].out = p /\ AsAsked(c)
                  /\ \/ disk[p] = NoFile /\ disk'[p] = Empty
                     \/ disk[p] = Empty /\ disk'[p] = mani[c]
           /\ \A c \in Committer : stage'[c] = "refused" => disk'[job'[c].out] = NoFile]_vars
  <2> SUFFICES ASSUME IInv, Next, FreshOuts PROVE Grown
    BY DEF Grown, Fills
  <2>1. PICK c \in Committer : Step(c) \/ Die(c)
    BY NextSteps
  <2> QED BY <2>1, StepGrows DEF IInv
<1> QED BY Invariance, <1>1, PTL DEF Spec, DirectoryGrows
=============================================================================
