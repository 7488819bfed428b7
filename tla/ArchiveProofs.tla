--------------------------- MODULE ArchiveProofs ---------------------------
(***************************************************************************)
(* What one report of a directory says of the next, for every directory,   *)
(* every way of adding manifests to it and any number of runs.             *)
(***************************************************************************)
EXTENDS Archive, VerifierProofs

-----------------------------------------------------------------------------
(* The listing of a directory *)

\* The members of a finite set of naturals can be listed in their order: each
\* stands where the number of those up to it says.
LEMMA Enumeration ==
  ASSUME NEW S, S \subseteq Nat, IsFiniteSet(S)
  PROVE  \E s \in [1 .. Cardinality(S) -> S] :
           \A i, j \in 1 .. Cardinality(S) : i < j => s[i] < s[j]
<1> DEFINE n == Cardinality(S)
           upTo(x) == {y \in S : y <= x}
           rank == [x \in S |-> Cardinality(upTo(x))]
           s == [k \in 1 .. n |-> CHOOSE x \in S : rank[x] = k]
<1>1. n \in Nat
  BY FS_CardinalityType
<1>2. ASSUME NEW x \in S PROVE rank[x] \in 1 .. n
  <2>1. upTo(x) \in SUBSET S /\ x \in upTo(x)
    BY <1>2
  <2>2. IsFiniteSet(upTo(x)) /\ Cardinality(upTo(x)) <= n
    BY <2>1, FS_Subset
  <2>3. Cardinality(upTo(x)) \in Nat /\ Cardinality(upTo(x)) # 0
    BY <2>1, <2>2, FS_CardinalityType, FS_EmptySet
  <2> QED BY <1>1, <2>2, <2>3
<1>3. ASSUME NEW x \in S, NEW y \in S, x < y PROVE rank[x] < rank[y]
  <2>1. upTo(x) \in SUBSET upTo(y) /\ y \in upTo(y) /\ y \notin upTo(x)
    <3>1. \A z \in S : z \in Nat
      OBVIOUS
    <3>2. x \in Nat /\ y \in Nat
      BY <3>1
    <3>3. \A z \in Nat : z <= x => z <= y
      BY <1>3, <3>2
    <3>4. y <= y /\ ~ (y <= x)
      BY <1>3, <3>2
    <3> QED BY <3>1, <3>3, <3>4
  <2>2. IsFiniteSet(upTo(y))
    <3>1. upTo(y) \in SUBSET S
      OBVIOUS
    <3> QED BY <3>1, FS_Subset
  <2>3. Cardinality(upTo(x)) <= Cardinality(upTo(y))
        /\ Cardinality(upTo(x)) # Cardinality(upTo(y))
    BY <2>1, <2>2, FS_Subset
  <2> QED BY <1>1, <1>2, <2>3
<1>4. \A k \in 1 .. n : \E x \in S : rank[x] = k
  <2>1. rank \in Injection(S, 1 .. n)
    <3>1. \A x, y \in S : x < y \/ y < x \/ x = y
      OBVIOUS
    <3>2. \A x, y \in S : rank[x] = rank[y] => x = y
      BY <1>2, <1>3, <3>1
    <3> QED BY <1>2, <3>2 DEF Injection, IsInjective
  <2>2. IsFiniteSet(1 .. n) /\ Cardinality(1 .. n) = n
    BY <1>1, FS_Interval
  <2>3. rank \in Surjection(S, 1 .. n)
    BY <2>1, <2>2, FS_Injection
  <2> QED BY <2>3 DEF Surjection
<1>5. \A k \in 1 .. n : s[k] \in S /\ rank[s[k]] = k
  BY <1>4
<1> HIDE DEF rank, s, n
<1>6. ASSUME NEW i \in 1 .. n, NEW j \in 1 .. n, i < j PROVE s[i] < s[j]
  <2>1. s[i] \in S /\ s[j] \in S /\ rank[s[i]] = i /\ rank[s[j]] = j
    BY <1>5
  <2>2. i \in Nat /\ j \in Nat /\ s[i] \in Nat /\ s[j] \in Nat
    <3>1. i \in Nat /\ j \in Nat
      BY <1>1
    <3> QED BY <2>1, <3>1
  <2>3. ~ (s[j] < s[i])
    <3>1. s[j] < s[i] => rank[s[j]] < rank[s[i]]
      BY <1>3, <2>1
    <3> QED BY <1>6, <2>1, <2>2, <3>1
  <2>4. s[i] # s[j]
    BY <1>6, <2>1, <2>2
  <2> QED BY <2>2, <2>3, <2>4
<1>7. s \in [1 .. n -> S]
  BY <1>5 DEF s
<1> QED BY <1>6, <1>7 DEF n

Present == {p \in Path : disk[p] # NoFile}

\* The listing has every file of the directory, and each once.
LEMMA ListingIsDirectory ==
  ASSUME IsFiniteSet(Present)
  PROVE  /\ Listing \in Seq(Path) /\ Listing \in [1 .. Cardinality(Present) -> Present]
         /\ \A i, j \in DOMAIN Listing : Listing[i] = Listing[j] => i = j
         /\ \A p \in Present : \E i \in DOMAIN Listing : Listing[i] = p
<1> DEFINE n == Cardinality(Present)
<1>1. Present \subseteq Nat /\ n \in Nat
  BY PathAssumption, FS_CardinalityType DEF Present
<1>2. Listing \in [1 .. n -> Present] /\ \A i, j \in 1 .. n : i < j => Listing[i] < Listing[j]
  <2>1. \E s \in [1 .. n -> Present] : \A i, j \in 1 .. n : i < j => s[i] < s[j]
    BY <1>1, Enumeration
  <2>2. Listing = CHOOSE s \in [1 .. n -> Present] : \A i, j \in 1 .. n : i < j => s[i] < s[j]
    BY DEF Listing, Present
  <2> QED BY <2>1, <2>2
<1>3. \A i, j \in 1 .. n : Listing[i] = Listing[j] => i = j
  <2> SUFFICES ASSUME NEW i \in 1 .. n, NEW j \in 1 .. n, i < j
               PROVE  Listing[i] # Listing[j]
    BY <1>1
  <2>1. Listing[i] \in Nat /\ Listing[j] \in Nat /\ Listing[i] < Listing[j]
    BY <1>1, <1>2
  <2> QED BY <2>1
<1>4. Listing \in Surjection(1 .. n, Present)
  <2>1. Listing \in Injection(1 .. n, Present)
    BY <1>2, <1>3 DEF Injection, IsInjective
  <2>2. Cardinality(1 .. n) = n
    BY <1>1, FS_Interval
  <2> QED BY <2>1, <2>2, FS_Injection
<1>5. Listing \in Seq(Path)
  BY <1>1, <1>2 DEF Present
<1>6. DOMAIN Listing = 1 .. n
  BY <1>2
<1> QED BY <1>2, <1>3, <1>4, <1>5, <1>6 DEF Surjection

\* _expand of the directory alone is its listing.
LEMMA ExpandDirectory ==
  ASSUME Listing \in Seq(Path)
  PROVE  Expand(<<Directory>>) = Listing
<1> DEFINE args == <<Directory>>
           step(f) == [k \in 0 .. Len(args) |->
                         IF k = 0 THEN << >>
                         ELSE f[k - 1] \o (IF args[k] = Directory THEN Listing ELSE <<args[k]>>)]
           upTo == CHOOSE f : f = step(f)
           witness == [k \in 0 .. 1 |-> IF k = 0 THEN << >> ELSE Listing]
<1>1. << >> \o Listing = Listing
  OBVIOUS
<1>2. Len(args) = 1 /\ args[1] = Directory
  OBVIOUS
<1>3. witness = step(witness)
  BY <1>1, <1>2
<1>4. upTo = step(upTo)
  BY <1>3
<1>5. Expand(args) = upTo[Len(args)]
  BY DEF Expand
<1> HIDE DEF upTo
<1>6. upTo[0] = << >>
  BY <1>2, <1>4
<1>7. upTo[1] = upTo[0] \o Listing
  BY <1>2, <1>4
<1> QED BY <1>1, <1>2, <1>5, <1>6, <1>7

-----------------------------------------------------------------------------
(* The inductive invariant *)

Running == pc \in {"load", "group"}

CleanIn(rep)    == {i \in DOMAIN rep.read : IsClean(rep.read[i])}
PreregsIn(rep)  == {i \in DOMAIN rep.read : IsPrereg(rep.read[i])}
PostregsIn(rep) == {i \in DOMAIN rep.read : IsPostreg(rep.read[i])}

\* A file that is being written is malformed until it is filled, and there are
\* finitely many files.
Shelved ==
  /\ writing \in [Path -> (Docs \ {Malformed}) \cup {NoFile}]
  /\ \A p \in Path : writing[p] # NoFile => disk[p] = Malformed
  /\ IsFiniteSet(Present)

\* A run goes over different files, and what it has read of them is still there.
AsOnDisk ==
  /\ \A i, j \in DOMAIN files : files[i] = files[j] => i = j
  /\ \A i \in DOMAIN read : IsClean(read[i]) => disk[files[i]] = read[i]

\* A run judges as of a moment that has come.
InTime == now <= clock

\* What a report says of the files it was made of, in its own terms.
Truthful(rep, t) ==
  /\ rep.read \in Seq(Docs \cup {Malformed})
  /\ DOMAIN rep.commitments = {rep.read[p].ref : p \in PreregsIn(rep)}
  /\ \A r \in DOMAIN rep.commitments :
       /\ \E p \in PreregsIn(rep) :
            /\ rep.read[p].ref = r
            /\ rep.commitments[r].counted =
                 {q \in PostregsIn(rep) : /\ FulfillsOf(rep.read[q]) = r
                                          /\ Signed(rep.read[q])
                                          /\ rep.read[q].keyid = rep.read[p].keyid}
       /\ rep.commitments[r].state = "fulfilled" <=> rep.commitments[r].counted # {}
       /\ rep.commitments[r].state = "elapsed-no-receipt" =>
            Body[r].due \notin {NoDue, BadDue} /\ t >= Body[r].due

\* g finds on disk each well-formed document of the last report.
OnFile(g) ==
  /\ g \in [CleanIn(report) -> Path]
  /\ \A i, j \in CleanIn(report) : g[i] = g[j] => i = j
  /\ \A i \in CleanIn(report) : disk[g[i]] = report.read[i]

\* h finds them in the run under way.
Finds(h) ==
  /\ h \in [CleanIn(report) -> DOMAIN files]
  /\ \A i, j \in CleanIn(report) : h[i] = h[j] => i = j
  /\ \A i \in CleanIn(report) :
       /\ disk[files[h[i]]] = report.read[i]
       /\ h[i] \in DOMAIN read => read[h[i]] = report.read[i]

\* The last report stays true and its documents stay on disk, also when a later
\* run has ended without one; a run under way has them among its files.
Remembered ==
  report # NoReport =>
    /\ Truthful(report, now)
    /\ \E g : OnFile(g)
    /\ Running => \E h : Finds(h)

ArchiveInv == IInv /\ Shelved /\ AsOnDisk /\ InTime /\ Remembered

-----------------------------------------------------------------------------
(* Lemmas *)

\* A well-formed document is not a missing file.
LEMMA CleanIsFile ==
  ASSUME NEW d \in Docs \cup {Malformed}
  PROVE  d # NoFile /\ (IsClean(d) => d \notin {Malformed, NoFile})
BY DocsAssumption, DistinctAssumption DEF IsClean, Documents

\* The list of files and what has been read of it.
LEMMA FilePositions ==
  ASSUME TypeOK
  PROVE  /\ DOMAIN files = 1 .. Len(files) /\ Len(files) \in Nat
         /\ \A i \in DOMAIN files : files[i] \in Path
         /\ DOMAIN read = 1 .. Len(read) /\ Len(read) \in Nat
         /\ DOMAIN read \subseteq DOMAIN files
         /\ \A i \in DOMAIN read : read[i] \in Docs \cup {Malformed}
<1>1. PICK n \in 0 .. MaxFiles : files \in [1 .. n -> Path]
  BY DEF TypeOK, FileLists
<1>2. n \in Nat /\ Len(files) = n /\ DOMAIN files = 1 .. n
  BY <1>1, PathAssumption
<1>3. read \in Seq(Docs \cup {Malformed}) /\ Len(read) <= Len(files)
  BY DEF TypeOK
<1> QED BY <1>1, <1>2, <1>3

\* What is on disk is not touched any more, once it is whole.
WholeStays == \A p \in Path : disk[p] \notin {Malformed, NoFile} => disk'[p] = disk[p]

LEMMA DiskStep ==
  ASSUME TypeOK, Shelved, [ArchiveNext]_allVars
  PROVE  Shelved' /\ WholeStays /\ disk' \in [Path -> Docs \cup {Malformed, NoFile}]
<1>1. disk \in [Path -> Docs \cup {Malformed, NoFile}]
  BY DEF TypeOK
<1>2. Malformed # NoFile
  BY DistinctAssumption DEF Documents
<1>3. ASSUME UNCHANGED <<disk, writing>> PROVE Shelved' /\ WholeStays
  BY <1>3 DEF Shelved, WholeStays, Present
<1>4. ASSUME NEW p \in Path, NEW d \in Docs, Create(p, d)
      PROVE  Shelved' /\ WholeStays /\ disk' \in [Path -> Docs \cup {Malformed, NoFile}]
  <2>1. /\ disk[p] = NoFile /\ d # Malformed
        /\ disk' = [disk EXCEPT ![p] = Malformed]
        /\ writing' = [writing EXCEPT ![p] = d]
    BY <1>4 DEF Create
  <2>2. Present' = Present \cup {p}
    BY <1>1, <1>2, <2>1 DEF Present
  <2>3. IsFiniteSet(Present')
    BY <2>2, FS_AddElement DEF Shelved
  <2> QED BY <1>1, <2>1, <2>3 DEF Shelved, WholeStays
<1>5. ASSUME NEW p \in Path, Fill(p)
      PROVE  Shelved' /\ WholeStays /\ disk' \in [Path -> Docs \cup {Malformed, NoFile}]
  <2>1. /\ writing[p] # NoFile
        /\ disk' = [disk EXCEPT ![p] = writing[p]]
        /\ writing' = [writing EXCEPT ![p] = NoFile]
    BY <1>5 DEF Fill
  <2>2. disk[p] = Malformed /\ writing[p] \in Docs
    BY <2>1 DEF Shelved
  <2>3. Present' = Present
    BY <1>1, <1>2, <2>1, <2>2 DEF Present
  <2> QED BY <1>1, <2>1, <2>2, <2>3 DEF Shelved, WholeStays
<1>6. ASSUME Next \/ Again \/ Tick \/ UNCHANGED allVars PROVE UNCHANGED disk
  <2> USE DEF env
  <2>1. Begin => UNCHANGED disk
    BY DEF Begin, Start, Refuse, ListingFails
  <2>2. Run => UNCHANGED disk
    BY DEF Run, LoadPrereg, LoadPostreg, LoadOther, LoadNext, LoadRaises, EndLoad,
           GroupCounted, GroupRejected, GroupNotarized, GroupNext, Conclude
  <2>3. Again \/ Tick => UNCHANGED disk
    BY DEF Again, Tick
  <2> QED BY <1>6, <2>1, <2>2, <2>3 DEF Next, allVars, vars
<1>7. ASSUME (Next /\ UNCHANGED writing) \/ Again \/ Tick \/ UNCHANGED allVars
      PROVE  Shelved' /\ WholeStays /\ disk' \in [Path -> Docs \cup {Malformed, NoFile}]
  <2>1. UNCHANGED <<disk, writing>>
    BY <1>6, <1>7 DEF Again, Tick, allVars
  <2> QED BY <1>1, <1>3, <2>1
<1> QED BY <1>4, <1>5, <1>7 DEF ArchiveNext

\* The four steps that are not the run's own leave alone what it has done.
Outside == Again \/ Tick \/ (\E p \in Path, d \in Docs : Create(p, d)) \/ (\E p \in Path : Fill(p))

LEMMA OutsideStays ==
  ASSUME Outside \/ UNCHANGED allVars
  PROVE  /\ UNCHANGED <<now, tests, artifacts, files, read, preregs, grouping, report>>
         /\ pc' = pc \/ (~ Running /\ pc' = "idle")
         /\ clock' = clock \/ (clock' = clock + 1 /\ clock' \in Times)
<1> USE DEF setup, run, env
<1>1. CASE Again
  BY <1>1 DEF Again, Running
<1>2. CASE Tick
  BY <1>2 DEF Tick
<1>3. ASSUME NEW p, NEW d, Create(p, d)
      PROVE  UNCHANGED <<clock, run>>
  BY <1>3 DEF Create
<1>4. ASSUME NEW p, Fill(p)
      PROVE  UNCHANGED <<clock, run>>
  BY <1>4 DEF Fill
<1>5. CASE UNCHANGED <<clock, run>>
  BY <1>5
<1>6. CASE UNCHANGED allVars
  BY <1>6 DEF allVars, vars
<1> QED BY <1>1, <1>2, <1>3, <1>4, <1>5, <1>6 DEF Outside

\* Verifier's own invariant is kept, whatever others do to the directory.
LEMMA VerifierStep ==
  ASSUME ArchiveInv, [ArchiveNext]_allVars
  PROVE  IInv'
<1>1. CASE Next
  BY <1>1, StepInv DEF ArchiveInv
<1>2. CASE Outside \/ UNCHANGED allVars
  <2>1. /\ UNCHANGED <<now, tests, artifacts, files, read, preregs, grouping, report>>
        /\ pc' \in {pc, "idle"} /\ clock' \in Times
    BY <1>2, OutsideStays DEF ArchiveInv, IInv, TypeOK
  <2>2. disk' \in [Path -> Docs \cup {Malformed, NoFile}]
    BY DiskStep DEF ArchiveInv, IInv
  <2>3. TypeOK'
    BY <2>1, <2>2 DEF ArchiveInv, IInv, TypeOK, grouping
  <2>4. PreregsLatest' /\ Sorted' /\ Progress'
    BY <2>1, ListsStay DEF ArchiveInv
  <2> QED BY <2>3, <2>4 DEF IInv
<1> QED BY <1>1, <1>2 DEF ArchiveNext, Outside

\* What the steps of a run have in common.
LEMMA RunSteps ==
  ASSUME Run
  PROVE  /\ UNCHANGED <<disk, clock, now, tests, artifacts, files>>
         /\ \/ LoadNext /\ Running /\ Running' /\ UNCHANGED report
            \/ UNCHANGED <<read, report>> /\ Running
            \/ Conclude
<1> USE DEF env, setup, Running
<1>1. CASE LoadPrereg \/ LoadPostreg \/ LoadOther
  BY <1>1 DEF LoadPrereg, LoadPostreg, LoadOther, LoadNext
<1>2. CASE EndLoad \/ LoadRaises
  BY <1>2 DEF EndLoad, LoadRaises
<1>3. CASE GroupCounted \/ GroupRejected \/ GroupNotarized
  BY <1>3 DEF GroupCounted, GroupRejected, GroupNotarized, GroupNext
<1>4. CASE Conclude
  BY <1>4 DEF Conclude
<1> QED BY <1>1, <1>2, <1>3, <1>4 DEF Run

\* A run begins with the listing of the directory.
LEMMA StartList ==
  ASSUME ArchiveInv, NEW request, NEW args \in Arguments, NEW with, Start(request, args, with)
  PROVE  files' = Listing /\ read' = << >> /\ now' = clock /\ pc' = "load" /\ pc = "idle"
         /\ UNCHANGED <<disk, clock, report>>
<1>1. args = <<Directory>>
  BY DirectoryAssumption
<1>2. Listing \in Seq(Path)
  BY ListingIsDirectory DEF ArchiveInv, Shelved
<1>3. Expand(args) = Listing
  BY <1>1, <1>2, ExpandDirectory
<1> QED BY <1>3 DEF Start, env

\* One more file is read as it is on disk.
LEMMA LoadReads ==
  ASSUME IInv, LoadNext
  PROVE  /\ DOMAIN read' = DOMAIN read \cup {Len(read) + 1}
         /\ Len(read) + 1 \in DOMAIN files
         /\ \A i \in DOMAIN read : read'[i] = read[i]
         /\ read'[Len(read) + 1] = Contents(files[Len(read) + 1])
<1>1. /\ DOMAIN read = 1 .. Len(read) /\ DOMAIN read' = 1 .. Len(read) + 1
      /\ \A i \in DOMAIN read : read'[i] = read[i]
      /\ read'[Len(read) + 1] = Contents(files[Len(read) + 1])
  BY ReadGrows DEF LoadNext, Upcoming, IInv
<1>2. /\ DOMAIN files = 1 .. Len(files) /\ Len(files) \in Nat /\ Len(read) \in Nat
      /\ Len(read) < Len(files)
  BY FilePositions DEF IInv, LoadNext
<1> QED BY <1>1, <1>2

LEMMA AsOnDiskStep ==
  ASSUME ArchiveInv, [ArchiveNext]_allVars
  PROVE  AsOnDisk'
<1>1. TypeOK /\ AsOnDisk /\ WholeStays
  BY DiskStep DEF ArchiveInv, IInv
<1>2. CASE UNCHANGED <<files, read>>
  <2>1. ASSUME NEW i \in DOMAIN read, IsClean(read[i])
        PROVE  disk'[files[i]] = read[i]
    <3>1. disk[files[i]] = read[i] /\ files[i] \in Path /\ read[i] \in Docs \cup {Malformed}
      BY <1>1, <2>1, FilePositions DEF AsOnDisk
    <3> QED BY <1>1, <2>1, <3>1, CleanIsFile DEF WholeStays
  <2> QED BY <1>1, <1>2, <2>1 DEF AsOnDisk
<1>3. ASSUME NEW request, NEW args \in Arguments, NEW with, Start(request, args, with)
      PROVE  AsOnDisk'
  <2>1. files' = Listing /\ read' = << >>
    BY <1>3, StartList
  <2>2. \A i, j \in DOMAIN Listing : Listing[i] = Listing[j] => i = j
    BY ListingIsDirectory DEF ArchiveInv, Shelved
  <2> QED BY <2>1, <2>2 DEF AsOnDisk
<1>4. CASE LoadNext /\ UNCHANGED <<disk, files>>
  <2>1. /\ DOMAIN read' = DOMAIN read \cup {Len(read) + 1}
        /\ \A i \in DOMAIN read : read'[i] = read[i]
        /\ read'[Len(read) + 1] = Contents(files[Len(read) + 1])
    BY <1>4, LoadReads DEF ArchiveInv
  <2>2. IsClean(read'[Len(read) + 1]) => read'[Len(read) + 1] = disk[files[Len(read) + 1]]
    BY <2>1 DEF Contents, IsClean
  <2> QED BY <1>1, <1>4, <2>1, <2>2 DEF AsOnDisk
<1>5. CASE Begin
  BY <1>2, <1>3, <1>5 DEF Begin, Refuse, ListingFails, setup
<1>6. CASE Run
  <2>1. CASE Conclude
    BY <1>2, <2>1 DEF Conclude, setup
  <2> QED BY <1>2, <1>4, <1>6, <2>1, RunSteps
<1>7. CASE Outside \/ UNCHANGED allVars
  BY <1>2, <1>7, OutsideStays
<1> QED BY <1>5, <1>6, <1>7 DEF ArchiveNext, Outside, Next

LEMMA InTimeStep ==
  ASSUME ArchiveInv, [ArchiveNext]_allVars
  PROVE  InTime'
<1>1. now <= clock /\ now \in Nat /\ clock \in Nat
  BY DocsAssumption DEF ArchiveInv, InTime, IInv, TypeOK
<1>2. ASSUME NEW request, NEW args \in Arguments, NEW with, Start(request, args, with)
      PROVE  InTime'
  BY <1>1, <1>2, StartList DEF InTime
<1>3. CASE Begin
  BY <1>1, <1>2, <1>3 DEF Begin, Refuse, ListingFails, setup, env, InTime
<1>4. CASE Run
  <2>1. UNCHANGED <<now, clock>>
    BY <1>4, RunSteps
  <2> QED BY <1>1, <2>1 DEF InTime
<1>5. CASE Outside \/ UNCHANGED allVars
  <2>1. now' = now /\ (clock' = clock \/ clock' = clock + 1)
    BY <1>5, OutsideStays
  <2> QED BY <1>1, <2>1 DEF InTime
<1> QED BY <1>3, <1>4, <1>5 DEF ArchiveNext, Outside, Next

\* The report of a run is true of what the run has read.
LEMMA ReportIsTrue ==
  ASSUME IInv, pending = {}
  PROVE  Truthful(ReportNow, now)
<1>1. /\ ReportNow.read = read
      /\ ReportNow.commitments = Judged
      /\ DOMAIN Judged = Commitments
  BY DEF ReportNow, Judged
<1>2. PreregsIn(ReportNow) = Preregs /\ PostregsIn(ReportNow) = Postregs
  BY <1>1 DEF PreregsIn, PostregsIn, Preregs, Postregs
<1>3. Commitments = {read[p].ref : p \in Preregs}
  <2>1. ASSUME NEW r \in Commitments PROVE \E p \in Preregs : read[p].ref = r
    BY DEF Commitments, IInv, PreregsLatest
  <2> QED BY <2>1, OnRecord
<1>4. ASSUME NEW r \in Commitments
      PROVE  \E p \in Preregs :
               /\ read[p].ref = r
               /\ Judged[r].counted = {q \in Postregs : /\ FulfillsOf(read[q]) = r
                                                        /\ Signed(read[q])
                                                        /\ read[q].keyid = read[p].keyid}
  <2>1. r \in Ref /\ preregs[r] \in Preregs /\ read[preregs[r]].ref = r
    BY DEF Commitments, IInv, PreregsLatest
  <2>2. Judged[r].counted = {q \in Postregs : FulfillsOf(read[q]) = r
                                              /\ RejectionReason(q, r) = "none"}
    BY <2>1 DEF Judged, IInv, Sorted
  <2>3. \A q : RejectionReason(q, r) = "none"
                 <=> Signed(read[q]) /\ read[q].keyid = read[preregs[r]].keyid
    BY DEF RejectionReason
  <2> QED BY <2>1, <2>2, <2>3
<1>5. ASSUME NEW r \in Commitments
      PROVE  /\ Judged[r].state = "fulfilled" <=> Judged[r].counted # {}
             /\ Judged[r].state = "elapsed-no-receipt" =>
                  Body[r].due \notin {NoDue, BadDue} /\ now >= Body[r].due
  BY DEF Judged, CommitmentState
<1>6. read \in Seq(Docs \cup {Malformed})
  BY DEF IInv, TypeOK
<1> HIDE DEF ReportNow, Judged
<1> QED BY <1>1, <1>2, <1>3, <1>4, <1>5, <1>6 DEF Truthful

\* A report that is true at one moment is true later on.
LEMMA TruthfulLater ==
  ASSUME NEW rep, NEW t \in Nat, NEW u \in Nat, t <= u, Truthful(rep, t)
  PROVE  Truthful(rep, u)
<1>1. ASSUME NEW r \in DOMAIN rep.commitments,
             Body[r].due \notin {NoDue, BadDue}, t >= Body[r].due
      PROVE  u >= Body[r].due
  <2>1. PICK p \in PreregsIn(rep) : rep.read[p].ref = r
    BY DEF Truthful
  <2>2. rep.read[p] \in Docs \cup {Malformed} /\ IsClean(rep.read[p])
    BY <2>1 DEF Truthful, PreregsIn, IsPrereg
  <2>3. r \in Ref
    BY <2>1, <2>2, CleanIsEnvelope
  <2>4. Body[r].due \in Nat
    BY <1>1, <2>3, BodyAssumption DEF Bodies
  <2> QED BY <1>1, <2>4
<1> QED BY <1>1 DEF Truthful

\* Whatever is written, the documents of the last report stay on disk.
LEMMA OnFileStays ==
  ASSUME WholeStays, UNCHANGED report, report.read \in Seq(Docs \cup {Malformed}),
         NEW g, OnFile(g)
  PROVE  OnFile(g)'
<1>1. CleanIn(report)' = CleanIn(report)
  BY DEF CleanIn
<1>2. ASSUME NEW i \in CleanIn(report)
      PROVE  disk'[g[i]] = report.read[i]
  <2>1. report.read[i] \in Docs \cup {Malformed} /\ IsClean(report.read[i])
    BY DEF CleanIn
  <2>2. disk[g[i]] = report.read[i] /\ g[i] \in Path
    BY DEF OnFile
  <2> QED BY <2>1, <2>2, CleanIsFile DEF WholeStays
<1> QED BY <1>1, <1>2 DEF OnFile

\* The documents of a new report are on disk.
LEMMA ConcludeOnFile ==
  ASSUME ArchiveInv, Conclude
  PROVE  \E g : OnFile(g)'
<1>1. report'.read = read /\ UNCHANGED <<disk, files, read>>
  BY DEF Conclude, ReportNow, env, setup
<1>2. CleanIn(report)' = {i \in DOMAIN read : IsClean(read[i])}
  BY <1>1 DEF CleanIn
<1>3. ASSUME NEW i \in DOMAIN read, IsClean(read[i])
      PROVE  files[i] \in Path /\ i \in DOMAIN files /\ disk[files[i]] = read[i]
  BY <1>3, FilePositions DEF ArchiveInv, IInv, AsOnDisk
<1> DEFINE g == [i \in {j \in DOMAIN read : IsClean(read[j])} |-> files[i]]
<1>4. \A i, j \in {k \in DOMAIN read : IsClean(read[k])} : g[i] = g[j] => i = j
  BY <1>3 DEF ArchiveInv, AsOnDisk
<1>5. OnFile(g)'
  BY <1>1, <1>2, <1>3, <1>4 DEF OnFile
<1> QED BY <1>5

\* When a run begins, each document of the last report is in one of its files.
LEMMA StartFinds ==
  ASSUME ArchiveInv, files' = Listing, read' = << >>, UNCHANGED <<disk, report>>,
         report.read \in Seq(Docs \cup {Malformed}), NEW g, OnFile(g)
  PROVE  \E h : Finds(h)'
<1>1. ASSUME NEW i \in CleanIn(report)
      PROVE  g[i] \in Present /\ disk[g[i]] = report.read[i]
  <2>1. report.read[i] \in Docs \cup {Malformed} /\ IsClean(report.read[i])
    BY DEF CleanIn
  <2>2. g[i] \in Path /\ disk[g[i]] = report.read[i]
    BY DEF OnFile
  <2> QED BY <2>1, <2>2, CleanIsFile DEF Present
<1>2. \A p \in Present : \E j \in DOMAIN Listing : Listing[j] = p
  BY ListingIsDirectory DEF ArchiveInv, Shelved
<1> DEFINE h == [i \in CleanIn(report) |-> CHOOSE j \in DOMAIN Listing : Listing[j] = g[i]]
<1>3. \A i \in CleanIn(report) : h[i] \in DOMAIN Listing /\ Listing[h[i]] = g[i]
  BY <1>1, <1>2
<1>4. h \in [CleanIn(report) -> DOMAIN Listing]
  BY <1>3
<1>5. \A i, j \in CleanIn(report) : g[i] = g[j] => i = j
  BY DEF OnFile
<1>6. CleanIn(report)' = CleanIn(report)
  BY DEF CleanIn
<1> HIDE DEF h
<1>7. PICK f : f = h
  OBVIOUS
<1>8. Finds(f)'
  BY <1>1, <1>3, <1>4, <1>5, <1>6, <1>7 DEF Finds
<1> QED BY <1>8

\* While a run goes on, they are read as they are or still to be read.
LEMMA RunFinds ==
  ASSUME ArchiveInv, WholeStays, UNCHANGED <<files, report>>,
         read' = read \/ (LoadNext /\ UNCHANGED disk),
         report.read \in Seq(Docs \cup {Malformed}),
         NEW h, Finds(h)
  PROVE  Finds(h)'
<1>1. CleanIn(report)' = CleanIn(report)
  BY DEF CleanIn
<1>2. ASSUME NEW i \in CleanIn(report)
      PROVE  /\ h[i] \in DOMAIN files
             /\ disk'[files[h[i]]] = report.read[i]
             /\ disk[files[h[i]]] = report.read[i] /\ report.read[i] # NoFile
  <2>1. h[i] \in DOMAIN files /\ disk[files[h[i]]] = report.read[i] /\ files[h[i]] \in Path
    BY FilePositions DEF Finds, ArchiveInv, IInv
  <2>2. report.read[i] \in Docs \cup {Malformed} /\ IsClean(report.read[i])
    BY DEF CleanIn
  <2> QED BY <2>1, <2>2, CleanIsFile DEF WholeStays
<1>3. ASSUME NEW i \in CleanIn(report), h[i] \in DOMAIN read'
      PROVE  read'[h[i]] = report.read[i]
  <2>1. CASE read' = read
    BY <1>3, <2>1 DEF Finds
  <2>2. CASE LoadNext
    <3>1. /\ DOMAIN read' = DOMAIN read \cup {Len(read) + 1}
          /\ \A j \in DOMAIN read : read'[j] = read[j]
          /\ read'[Len(read) + 1] = Contents(files[Len(read) + 1])
      BY <2>2, LoadReads DEF ArchiveInv
    <3>2. CASE h[i] \in DOMAIN read
      BY <3>1, <3>2 DEF Finds
    <3>3. CASE h[i] = Len(read) + 1
      BY <1>2, <3>1, <3>3 DEF Contents
    <3> QED BY <1>3, <3>1, <3>2, <3>3
  <2> QED BY <2>1, <2>2
<1> QED BY <1>1, <1>2, <1>3 DEF Finds

LEMMA RememberedStep ==
  ASSUME ArchiveInv, [ArchiveNext]_allVars
  PROVE  Remembered'
<1>1. WholeStays
  BY DiskStep DEF ArchiveInv, IInv
<1>2. now \in Nat /\ clock \in Nat /\ now <= clock
  BY DocsAssumption DEF ArchiveInv, InTime, IInv, TypeOK
<1>3. ASSUME UNCHANGED report, now' \in {now, clock}, report # NoReport
      PROVE  /\ Truthful(report, now')
             /\ \E g : OnFile(g)'
             /\ report.read \in Seq(Docs \cup {Malformed})
  <2>1. Truthful(report, now) /\ \E g : OnFile(g)
    BY <1>3 DEF ArchiveInv, Remembered
  <2>2. Truthful(report, now')
    BY <1>2, <1>3, <2>1, TruthfulLater
  <2> QED BY <1>1, <1>3, <2>1, <2>2, OnFileStays DEF Truthful
<1>4. ASSUME UNCHANGED report, now' \in {now, clock},
             Running' /\ report # NoReport => \E h : Finds(h)'
      PROVE  Remembered'
  <2> SUFFICES ASSUME report # NoReport
               PROVE  /\ Truthful(report, now')
                      /\ \E g : OnFile(g)'
                      /\ Running' => \E h : Finds(h)'
    BY <1>4 DEF Remembered, Truthful, PreregsIn, PostregsIn
  <2> QED BY <1>3, <1>4
<1>5. ASSUME Running, UNCHANGED <<files, report, now>>,
             read' = read \/ (LoadNext /\ UNCHANGED disk)
      PROVE  Remembered'
  <2>1. ASSUME report # NoReport PROVE \E h : Finds(h)'
    BY <1>1, <1>3, <1>5, <2>1, RunFinds DEF ArchiveInv, Remembered
  <2> QED BY <1>4, <1>5, <2>1
<1>6. ASSUME NEW request, NEW args \in Arguments, NEW with, Start(request, args, with)
      PROVE  Remembered'
  <2>1. /\ files' = Listing /\ read' = << >> /\ now' = clock
        /\ UNCHANGED <<disk, report>>
    BY <1>6, StartList
  <2>2. ASSUME report # NoReport PROVE \E h : Finds(h)'
    <3>1. Truthful(report, now) /\ \E g : OnFile(g)
      BY <2>2 DEF ArchiveInv, Remembered
    <3> QED BY <2>1, <3>1, StartFinds DEF Truthful
  <2> QED BY <1>4, <2>1, <2>2
<1>7. CASE Begin
  <2>1. ASSUME NEW request, NEW args, Refuse(request) \/ ListingFails(request, args)
        PROVE  ~ Running' /\ UNCHANGED <<report, now>>
    BY <2>1 DEF Refuse, ListingFails, Running, setup
  <2> QED BY <1>4, <1>6, <1>7, <2>1 DEF Begin
<1>8. CASE Conclude
  <2>1. UNCHANGED now /\ report' = ReportNow /\ pending = {} /\ ~ Running'
    BY <1>8 DEF Conclude, setup, Running
  <2> HIDE DEF ReportNow
  <2>2. Truthful(report', now)
    BY <2>1, ReportIsTrue DEF ArchiveInv
  <2>3. \E g : OnFile(g)'
    BY <1>8, ConcludeOnFile
  <2> QED BY <2>1, <2>2, <2>3 DEF Remembered, Truthful, PreregsIn, PostregsIn
<1>9. CASE Run
  BY <1>5, <1>8, <1>9, RunSteps
<1>10. CASE Outside \/ UNCHANGED allVars
  <2>1. CASE Running
    BY <1>5, <1>10, <2>1, OutsideStays
  <2>2. CASE ~ Running
    <3>1. ~ Running' /\ UNCHANGED <<report, now>>
      BY <1>10, <2>2, OutsideStays DEF Running
    <3> QED BY <1>4, <3>1
  <2> QED BY <2>1, <2>2
<1> QED BY <1>7, <1>9, <1>10 DEF ArchiveNext, Outside, Next

LEMMA ArchiveInvInit == ArchiveInit => ArchiveInv
<1> SUFFICES ASSUME ArchiveInit PROVE ArchiveInv
  OBVIOUS
<1>1. IInv /\ disk \in Shelves /\ clock \in Nat
  BY InitInv, DocsAssumption DEF ArchiveInit, Init
<1>2. Shelved
  <2>1. IsFiniteSet(Present)
    BY <1>1, ShelvesAssumption DEF Present
  <2> QED BY <2>1 DEF ArchiveInit, Shelved
<1>3. report = NoReport /\ now = 0 /\ DOMAIN files = {} /\ DOMAIN read = {}
  BY DEF ArchiveInit, Init
<1>4. AsOnDisk /\ InTime /\ Remembered
  BY <1>1, <1>3 DEF AsOnDisk, InTime, Remembered
<1> QED BY <1>1, <1>2, <1>4 DEF ArchiveInv

\* Every reachable state of an archive is one that the invariant describes.
THEOREM ArchiveInvariance == ArchiveSpec => []ArchiveInv
<1>1. ArchiveInv /\ [ArchiveNext]_allVars => ArchiveInv'
  BY VerifierStep, DiskStep, AsOnDiskStep, InTimeStep, RememberedStep
     DEF ArchiveInv, IInv
<1> QED BY ArchiveInvInit, <1>1, PTL DEF ArchiveSpec

\* What Verifier promises of its report holds as well while the directory
\* changes under the runs.
THEOREM ArchiveReports ==
  ArchiveSpec => [](TypeOK /\ PostregsPlacedOnce /\ CountingRule /\ KeyConsistExact
                      /\ PassMeansWhole /\ ChainIsLinear)
<1>1. ArchiveInv => TypeOK /\ PostregsPlacedOnce /\ CountingRule /\ KeyConsistExact
                      /\ PassMeansWhole /\ ChainIsLinear
  BY PlacedInduct, CountingInduct, KeyConsistInduct, PassInduct, LinearInduct
     DEF ArchiveInv, IInv
<1> QED BY ArchiveInvariance, <1>1, PTL

-----------------------------------------------------------------------------
(* From one report to the next *)

\* How the receipts of a commitment in an earlier report are found in a later one.
CarriedBy(h, old, new, r) ==
  /\ r \in DOMAIN new.commitments
  /\ \A i \in old.commitments[r].counted :
       /\ i \in DOMAIN old.read
       /\ h[i] \in new.commitments[r].counted /\ new.read[h[i]] = old.read[i]
  /\ \A i, j \in old.commitments[r].counted : h[i] = h[j] => i = j

\* Without rivals, what counted toward a prereg in one report counts toward it
\* in the next, receipt by receipt.
LEMMA Carried ==
  ASSUME ArchiveInv, report # NoReport, Conclude, RivalFree(ReportNow),
         NEW r \in DOMAIN report.commitments
  PROVE  \E h : CarriedBy(h, report, ReportNow, r)
<1>1. pc = "group" /\ pending = {} /\ Running
  BY DEF Conclude, Running
<1>2. PICK h : Finds(h)
  BY <1>1 DEF ArchiveInv, Remembered
<1>3. Truthful(report, now) /\ Truthful(ReportNow, now)
  BY <1>1, ReportIsTrue DEF ArchiveInv, Remembered
<1>4. ReportNow.read = read
  BY DEF ReportNow
<1> HIDE DEF ReportNow
<1>5. DOMAIN files = DOMAIN read
  BY <1>1, FilePositions DEF ArchiveInv, IInv, Progress
<1>6. \A i \in CleanIn(report) : h[i] \in DOMAIN read /\ read[h[i]] = report.read[i]
  BY <1>2, <1>5 DEF Finds
<1>7. PreregsIn(report) \subseteq CleanIn(report) /\ PostregsIn(report) \subseteq CleanIn(report)
  BY DEF PreregsIn, PostregsIn, CleanIn, IsPrereg, IsPostreg
<1>8. PICK p \in PreregsIn(report) :
        /\ report.read[p].ref = r
        /\ report.commitments[r].counted =
             {q \in PostregsIn(report) : /\ FulfillsOf(report.read[q]) = r
                                         /\ Signed(report.read[q])
                                         /\ report.read[q].keyid = report.read[p].keyid}
  BY <1>3 DEF Truthful
<1>9. h[p] \in PreregsIn(ReportNow) /\ read[h[p]] = report.read[p]
  BY <1>4, <1>6, <1>7 DEF PreregsIn
<1>10. r \in DOMAIN ReportNow.commitments
  BY <1>3, <1>4, <1>8, <1>9 DEF Truthful
<1>11. PICK n \in PreregsIn(ReportNow) :
        /\ read[n].ref = r
        /\ ReportNow.commitments[r].counted =
             {q \in PostregsIn(ReportNow) : /\ FulfillsOf(read[q]) = r
                                            /\ Signed(read[q])
                                            /\ read[q].keyid = read[n].keyid}
  BY <1>3, <1>4, <1>10 DEF Truthful
<1>12. read[n].keyid = report.read[p].keyid
  BY <1>4, <1>8, <1>9, <1>11 DEF RivalFree, PreregsIn
<1>13. ASSUME NEW i \in report.commitments[r].counted
       PROVE  /\ i \in CleanIn(report) /\ i \in DOMAIN report.read
              /\ h[i] \in ReportNow.commitments[r].counted /\ read[h[i]] = report.read[i]
  <2>1. /\ i \in PostregsIn(report) /\ FulfillsOf(report.read[i]) = r
        /\ Signed(report.read[i]) /\ report.read[i].keyid = report.read[p].keyid
    BY <1>8
  <2>2. h[i] \in PostregsIn(ReportNow) /\ read[h[i]] = report.read[i]
    BY <1>4, <1>6, <1>7, <2>1 DEF PostregsIn
  <2> QED BY <1>7, <1>11, <1>12, <2>1, <2>2 DEF CleanIn
<1>14. \A i, j \in report.commitments[r].counted : h[i] = h[j] => i = j
  BY <1>2, <1>13 DEF Finds
<1> QED BY <1>4, <1>10, <1>13, <1>14 DEF CarriedBy

\* A report changes when a run ends, and only then.
LEMMA NewReportIsLast ==
  ASSUME ArchiveInv, [ArchiveNext]_allVars, NewReport
  PROVE  Conclude /\ report' = ReportNow
<1>1. ASSUME Begin PROVE UNCHANGED report
  BY <1>1 DEF Begin, Start, Refuse, ListingFails
<1>2. CASE Run
  BY <1>2, RunSteps DEF NewReport, Conclude
<1>3. CASE Outside \/ UNCHANGED allVars
  BY <1>3, OutsideStays DEF NewReport
<1> QED BY <1>1, <1>2, <1>3 DEF ArchiveNext, Outside, Next, NewReport

\* Nothing that is added to a directory takes away from what has counted, in
\* any number of runs and with any files.
THEOREM CountedStays == ArchiveSpec => CountedStaysCounted
<1>1. ASSUME ArchiveInv, [ArchiveNext]_allVars, NewReport, RivalFree(report'),
             NEW r \in DOMAIN report.commitments
      PROVE  /\ r \in DOMAIN report'.commitments
             /\ CountedDocs(report, r) \subseteq CountedDocs(report', r)
  <2>1. Conclude /\ report' = ReportNow /\ report # NoReport
    BY <1>1, NewReportIsLast DEF NewReport
  <2>2. PICK h : CarriedBy(h, report, ReportNow, r)
    BY <1>1, <2>1, Carried
  <2> QED BY <2>1, <2>2 DEF CarriedBy, CountedDocs
<1>2. ArchiveInv /\ [ArchiveNext]_allVars =>
        [NewReport /\ RivalFree(report') =>
           \A r \in DOMAIN report.commitments :
             /\ r \in DOMAIN report'.commitments
             /\ CountedDocs(report, r) \subseteq CountedDocs(report', r)]_allVars
  BY <1>1
<1> QED BY ArchiveInvariance, <1>2, PTL DEF ArchiveSpec, CountedStaysCounted

\* More than one root means two of them.
LEMMA TwoRoots ==
  ASSUME NEW T, Cardinality(T) > 1
  PROVE  \E i, j \in T : i # j
<1> SUFFICES ASSUME \A i, j \in T : i = j PROVE Cardinality(T) \in {0, 1}
  OBVIOUS
<1>1. CASE T = {}
  BY <1>1, FS_EmptySet
<1>2. CASE T # {}
  <2>1. PICK x : T = {x}
    BY <1>2
  <2> QED BY <2>1, FS_Singleton
<1> QED BY <1>1, <1>2

\* A chain that is broken in one report does not pass in the next.
LEMMA BrokenCarried ==
  ASSUME IInv, NEW old, NEW h, NEW r, CarriedBy(h, old, ReportNow, r), Broken(old, r)
  PROVE  ~ ReportNow.commitments[r].chainOK
<1> DEFINE R == old.commitments[r].counted
           prev == [i \in R |-> PrevOf(old.read[i])]
           S == counted[r]
           ref == [i \in S |-> read[i].ref]
           later == [i \in S |-> PrevOf(read[i])]
<1>1. ReportNow.read = read /\ ReportNow.commitments = Judged /\ r \in Commitments
  BY DEF CarriedBy, ReportNow, Judged
<1>2. ReportNow.commitments[r].counted = S /\ ReportNow.commitments[r].chainOK = ChainOK(r)
  BY <1>1 DEF Judged
<1>3. ChainOK(r) = CheckChain(S, ref, later)
  BY DEF ChainOK
<1>4. /\ \A i \in R : h[i] \in S /\ later[h[i]] = prev[i]
      /\ \A i, j \in R : h[i] = h[j] => i = j
  BY <1>1, <1>2 DEF CarriedBy
<1>5. Cardinality(Roots(R, prev)) > 1 \/ ~ NoFork(R, prev)
  BY DEF Broken
<1> HIDE DEF R, prev, S, ref, later
<1>6. CASE Cardinality(Roots(R, prev)) > 1
  <2>1. PICK i \in Roots(R, prev), j \in Roots(R, prev) : i # j
    BY <1>6, TwoRoots
  <2>2. i \in R /\ j \in R /\ prev[i] = NoLink /\ prev[j] = NoLink
    BY <2>1 DEF Roots
  <2>3. S # {} /\ ~ OneRoot(S, later)
    BY <1>4, <2>1, <2>2 DEF OneRoot
  <2> QED BY <1>2, <1>3, <2>3 DEF CheckChain
<1>7. CASE ~ NoFork(R, prev)
  <2>1. PICK i \in R, j \in R : prev[i] # NoLink /\ prev[i] = prev[j] /\ i # j
    BY <1>7 DEF NoFork
  <2>2. S # {} /\ ~ NoFork(S, later)
    BY <1>4, <2>1 DEF NoFork
  <2> QED BY <1>2, <1>3, <2>2 DEF CheckChain
<1> QED BY <1>5, <1>6, <1>7

\* No manifest that is added mends a fork, nor a second root.
THEOREM BrokenStays == ArchiveSpec => BrokenStaysBroken
<1>1. ASSUME ArchiveInv, [ArchiveNext]_allVars, NewReport, RivalFree(report'),
             NEW r \in DOMAIN report.commitments, Broken(report, r)
      PROVE  ~ report'.commitments[r].chainOK
  <2>1. Conclude /\ report' = ReportNow /\ report # NoReport
    BY <1>1, NewReportIsLast DEF NewReport
  <2>2. PICK h : CarriedBy(h, report, ReportNow, r)
    BY <1>1, <2>1, Carried
  <2> HIDE DEF ReportNow
  <2> QED BY <1>1, <2>1, <2>2, BrokenCarried DEF ArchiveInv
<1>2. ArchiveInv /\ [ArchiveNext]_allVars =>
        [NewReport /\ RivalFree(report') =>
           \A r \in DOMAIN report.commitments :
             Broken(report, r) => ~ report'.commitments[r].chainOK]_allVars
  BY <1>1
<1> QED BY ArchiveInvariance, <1>2, PTL DEF ArchiveSpec, BrokenStaysBroken

\* What a state in one report leaves open for the next.
MayFollow(before, after) ==
  CASE before = "elapsed-no-receipt" -> after \in {"elapsed-no-receipt", "fulfilled"}
    [] before = "fulfilled"          -> after = "fulfilled"
    [] OTHER                         -> TRUE

\* A deadline that was missed when one report was made is missed in the next.
THEOREM Unreprieved == ArchiveSpec => NoReprieve
<1>1. ASSUME ArchiveInv, [ArchiveNext]_allVars, NewReport, RivalFree(report'),
             NEW r \in DOMAIN report.commitments
      PROVE  MayFollow(report.commitments[r].state, report'.commitments[r].state)
  <2> DEFINE old == report.commitments[r]
             new == ReportNow.commitments[r]
  <2>1. Conclude /\ report' = ReportNow /\ report # NoReport
    BY <1>1, NewReportIsLast DEF NewReport
  <2>2. PICK h : CarriedBy(h, report, ReportNow, r)
    BY <1>1, <2>1, Carried
  <2>3. pc = "group" /\ Truthful(report, now)
    BY <1>1, <2>1 DEF Conclude, ArchiveInv, Remembered, Running
  <2>4. /\ old.state = "fulfilled" <=> old.counted # {}
        /\ old.state = "elapsed-no-receipt" =>
             Body[r].due \notin {NoDue, BadDue} /\ now >= Body[r].due
    BY <2>3 DEF Truthful
  <2>5. new.counted = counted[r] /\ new.state = CommitmentState(r)
    BY <2>2 DEF CarriedBy, ReportNow, Judged
  <2>6. old.counted # {} => counted[r] # {}
    <3> HIDE DEF ReportNow
    <3> QED BY <2>2, <2>5 DEF CarriedBy
  <2>7. CASE old.state = "fulfilled"
    BY <2>1, <2>4, <2>5, <2>6, <2>7 DEF MayFollow, CommitmentState
  <2>8. CASE old.state = "elapsed-no-receipt"
    BY <2>1, <2>4, <2>5, <2>8 DEF MayFollow, CommitmentState
  <2>9. CASE old.state \notin {"fulfilled", "elapsed-no-receipt"}
    BY <2>9 DEF MayFollow
  <2> QED BY <2>7, <2>8, <2>9
<1>2. ArchiveInv /\ [ArchiveNext]_allVars =>
        [NewReport /\ RivalFree(report') =>
           \A r \in DOMAIN report.commitments :
             MayFollow(report.commitments[r].state, report'.commitments[r].state)]_allVars
  BY <1>1
<1> QED BY ArchiveInvariance, <1>2, PTL DEF ArchiveSpec, NoReprieve, MayFollow
=============================================================================
