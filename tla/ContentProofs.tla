--------------------------- MODULE ContentProofs ---------------------------
(***************************************************************************)
(* What a digest of a directory pins, for any files of any length, any     *)
(* subject and any number of changes by others.                            *)
(***************************************************************************)
EXTENDS Content, FiniteSetTheorems, WellFoundedInduction, TLAPS

Bytes == [1 .. FileLength -> Nat]
Line == [digest : Bytes, rel : Nat]

LEMMA SameBytes ==
  ASSUME NEW x \in Bytes, NEW y \in Bytes, \A i \in 1 .. FileLength : x[i] = y[i] PROVE x = y
<1>1. x = [i \in 1 .. FileLength |-> x[i]] /\ y = [i \in 1 .. FileLength |-> y[i]]
  BY DEF Bytes
<1>2. [i \in 1 .. FileLength |-> x[i]] = [i \in 1 .. FileLength |-> y[i]]
  OBVIOUS
<1> QED BY <1>1, <1>2

-----------------------------------------------------------------------------
(* The order of the lines *)

LEMMA LeastNat ==
  ASSUME NEW T, T \subseteq Nat, T # {}
  PROVE  \E n \in T : \A m \in T : n <= m
<1>1. PICK n \in T : \A m \in T : ~ (<<m, n>> \in OpToRel(<, Nat))
  BY NatLessThanWellFounded, WFMin
<1>2. \A m \in T : ~ (m < n)
  BY <1>1 DEF OpToRel
<1> QED BY <1>2

\* x comes before y when it has the lesser byte where they first differ.
Lesser(x, y) ==
  \E i \in 1 .. FileLength : x[i] < y[i] /\ \A j \in 1 .. FileLength : j < i => x[j] = y[j]

LEMMA BeforeIsLesser ==
  ASSUME NEW a \in Line, NEW b \in Line
  PROVE  Before(a, b) <=> \/ a.digest = b.digest /\ a.rel < b.rel
                          \/ Lesser(a.digest, b.digest)
<1> DEFINE x == a.digest
           y == b.digest
           differ == {j \in DOMAIN x : x[j] # y[j]}
<1>1. x \in Bytes /\ y \in Bytes /\ DOMAIN x = 1 .. FileLength /\ FileLength \in Nat
  BY ContentAssumption DEF Line, Bytes
<1>2. CASE x = y
  <2>1. ~ Lesser(x, y)
    <3> SUFFICES ASSUME NEW i \in 1 .. FileLength, x[i] < x[i] PROVE FALSE
      BY <1>2 DEF Lesser
    <3>1. x[i] \in Nat
      BY <1>1 DEF Bytes
    <3> QED BY <3>1
  <2> QED BY <1>2, <2>1 DEF Before
<1>3. CASE x # y
  <2>1. differ \subseteq Nat /\ differ # {}
    <3>1. \E j \in 1 .. FileLength : x[j] # y[j]
      BY <1>1, <1>3 DEF Bytes
    <3> QED BY <1>1, <3>1
  <2>2. PICK n \in differ : \A m \in differ : n <= m
    BY <2>1, LeastNat
  <2>3. Min(differ) = n
    <3>1. \A m \in differ : (\A k \in differ : m <= k) <=> m = n
      BY <2>1, <2>2
    <3> QED BY <2>2, <3>1 DEF Min
  <2>4. Before(a, b) <=> x[n] < y[n]
    BY <1>3, <2>3 DEF Before
  <2>5. n \in 1 .. FileLength /\ x[n] # y[n] /\ \A j \in 1 .. FileLength : j < n => x[j] = y[j]
    <3>1. n \in 1 .. FileLength /\ x[n] # y[n]
      BY <1>1, <2>2
    <3>2. ASSUME NEW j \in 1 .. FileLength, j < n, x[j] # y[j] PROVE FALSE
      <4>1. n <= j
        BY <1>1, <2>2, <3>2
      <4> QED BY <1>1, <3>1, <3>2, <4>1
    <3> QED BY <3>1, <3>2
  <2>6. Lesser(x, y) => x[n] < y[n]
    <3> SUFFICES ASSUME NEW i \in 1 .. FileLength, x[i] < y[i],
                        \A j \in 1 .. FileLength : j < i => x[j] = y[j]
                 PROVE  i = n
      BY DEF Lesser
    <3>1. ~ (n < i)
      BY <2>5
    <3>2. x[i] # y[i]
      <4>1. x[i] \in Nat /\ y[i] \in Nat
        BY <1>1 DEF Bytes
      <4> QED BY <4>1
    <3>3. ~ (i < n)
      BY <2>5, <3>2
    <3> QED BY <1>1, <2>5, <3>1, <3>3
  <2>7. x[n] < y[n] => Lesser(x, y)
    BY <2>5 DEF Lesser
  <2> QED BY <1>3, <2>4, <2>6, <2>7
<1> QED BY <1>2, <1>3

LEMMA LesserOrder ==
  /\ \A x \in Bytes : ~ Lesser(x, x)
  /\ \A x, y, z \in Bytes : Lesser(x, y) /\ Lesser(y, z) => Lesser(x, z)
  /\ \A x, y \in Bytes : x = y \/ Lesser(x, y) \/ Lesser(y, x)
<1>0. FileLength \in Nat
  BY ContentAssumption
<1>1. ASSUME NEW x \in Bytes, Lesser(x, x) PROVE FALSE
  <2>1. PICK i \in 1 .. FileLength : x[i] < x[i]
    BY <1>1 DEF Lesser
  <2>2. x[i] \in Nat
    BY DEF Bytes
  <2> QED BY <2>1, <2>2
<1>2. ASSUME NEW x \in Bytes, NEW y \in Bytes, NEW z \in Bytes, Lesser(x, y), Lesser(y, z)
      PROVE  Lesser(x, z)
  <2>1. PICK i \in 1 .. FileLength :
          x[i] < y[i] /\ \A j \in 1 .. FileLength : j < i => x[j] = y[j]
    BY <1>2 DEF Lesser
  <2>2. PICK k \in 1 .. FileLength :
          y[k] < z[k] /\ \A j \in 1 .. FileLength : j < k => y[j] = z[j]
    BY <1>2 DEF Lesser
  <2>3. /\ x[i] \in Nat /\ y[i] \in Nat /\ z[i] \in Nat /\ x[k] \in Nat /\ y[k] \in Nat
        /\ z[k] \in Nat /\ i \in Nat /\ k \in Nat
    BY <1>0 DEF Bytes
  <2>4. CASE i < k
    <3>1. y[i] = z[i]
      BY <2>2, <2>4
    <3>2. x[i] < z[i]
      BY <2>1, <3>1
    <3>3. \A j \in 1 .. FileLength : j < i => x[j] = z[j]
      <4> SUFFICES ASSUME NEW j \in 1 .. FileLength, j < i PROVE x[j] = z[j]
        OBVIOUS
      <4>1. j < k
        BY <1>0, <2>3, <2>4
      <4> QED BY <2>1, <2>2, <4>1
    <3> QED BY <3>2, <3>3 DEF Lesser
  <2>5. CASE k <= i
    <3>1. x[k] < z[k]
      <4>1. CASE k = i
        BY <2>1, <2>2, <2>3, <4>1
      <4>2. CASE k < i
        <5>1. x[k] = y[k]
          BY <2>1, <4>2
        <5> QED BY <2>2, <5>1
      <4> QED BY <2>3, <2>5, <4>1, <4>2
    <3>2. \A j \in 1 .. FileLength : j < k => x[j] = z[j]
      <4> SUFFICES ASSUME NEW j \in 1 .. FileLength, j < k PROVE x[j] = z[j]
        OBVIOUS
      <4>1. j < i
        BY <1>0, <2>3, <2>5
      <4> QED BY <2>1, <2>2, <4>1
    <3> QED BY <3>1, <3>2 DEF Lesser
  <2> QED BY <2>3, <2>4, <2>5
<1>3. ASSUME NEW x \in Bytes, NEW y \in Bytes, x # y PROVE Lesser(x, y) \/ Lesser(y, x)
  <2> DEFINE differ == {j \in 1 .. FileLength : x[j] # y[j]}
  <2>0. \E j \in 1 .. FileLength : x[j] # y[j]
    BY <1>3, SameBytes
  <2>1. differ \subseteq Nat /\ differ # {}
    BY <1>0, <2>0
  <2>2. PICK n \in differ : \A m \in differ : n <= m
    BY <2>1, LeastNat
  <2>3. \A j \in 1 .. FileLength : j < n => x[j] = y[j]
    <3> SUFFICES ASSUME NEW j \in 1 .. FileLength, j < n, x[j] # y[j] PROVE FALSE
      OBVIOUS
    <3>1. n <= j
      BY <2>2
    <3> QED BY <1>0, <2>1, <3>1
  <2>4. n \in 1 .. FileLength /\ x[n] \in Nat /\ y[n] \in Nat /\ x[n] # y[n]
    BY <2>2 DEF Bytes
  <2>5. x[n] < y[n] \/ y[n] < x[n]
    BY <2>4
  <2> QED BY <2>3, <2>4, <2>5 DEF Lesser
<1> QED BY <1>1, <1>2, <1>3

LEMMA BeforeOrder ==
  /\ \A a \in Line : ~ Before(a, a)
  /\ \A a, b, c \in Line : Before(a, b) /\ Before(b, c) => Before(a, c)
  /\ \A a, b \in Line : a = b \/ Before(a, b) \/ Before(b, a)
<1>0. \A a \in Line : a.digest \in Bytes /\ a.rel \in Nat
        /\ a = [digest |-> a.digest, rel |-> a.rel]
  BY DEF Line
<1>1. ASSUME NEW a \in Line PROVE ~ Before(a, a)
  <2>1. ~ (a.rel < a.rel) /\ ~ Lesser(a.digest, a.digest)
    BY <1>0, LesserOrder
  <2> QED BY <2>1, BeforeIsLesser
<1>2. ASSUME NEW a \in Line, NEW b \in Line, NEW c \in Line, Before(a, b), Before(b, c)
      PROVE  Before(a, c)
  <2>1. \/ a.digest = b.digest /\ a.rel < b.rel
        \/ Lesser(a.digest, b.digest)
    BY <1>2, BeforeIsLesser
  <2>2. \/ b.digest = c.digest /\ b.rel < c.rel
        \/ Lesser(b.digest, c.digest)
    BY <1>2, BeforeIsLesser
  <2>3. a.rel < b.rel /\ b.rel < c.rel => a.rel < c.rel
    BY <1>0
  <2>4. \/ a.digest = c.digest /\ a.rel < c.rel
        \/ Lesser(a.digest, c.digest)
    BY <1>0, <2>1, <2>2, <2>3, LesserOrder
  <2> QED BY <2>4, BeforeIsLesser
<1>3. ASSUME NEW a \in Line, NEW b \in Line, a # b PROVE Before(a, b) \/ Before(b, a)
  <2>1. a.digest # b.digest \/ a.rel < b.rel \/ b.rel < a.rel
    BY <1>0, <1>3
  <2>2. a.digest = b.digest \/ Lesser(a.digest, b.digest) \/ Lesser(b.digest, a.digest)
    BY <1>0, LesserOrder
  <2> QED BY <2>1, <2>2, BeforeIsLesser
<1> QED BY <1>1, <1>2, <1>3

-----------------------------------------------------------------------------
(* Digests *)

Ordered(s, S) ==
  /\ s \in [1 .. Cardinality(S) -> S]
  /\ \A i, j \in 1 .. Cardinality(S) : i < j => Before(s[i], s[j])

\* The lines in S in their order
InOrder(S) ==
  CHOOSE s \in [1 .. Cardinality(S) -> S] :
    \A i, j \in 1 .. Cardinality(S) : i < j => Before(s[i], s[j])

\* Every finite set of lines can be put in order: each stands where the number
\* of those up to it says.
LEMMA Sortable ==
  ASSUME NEW S, S \subseteq Line, IsFiniteSet(S)
  PROVE  \E s : Ordered(s, S)
<1> DEFINE n == Cardinality(S)
           upTo(x) == {y \in S : y = x \/ Before(y, x)}
           rank == [x \in S |-> Cardinality(upTo(x))]
           s == [k \in 1 .. n |-> CHOOSE x \in S : rank[x] = k]
<1>1. n \in Nat
  BY FS_CardinalityType
<1>2. ASSUME NEW x \in S PROVE rank[x] \in 1 .. n
  <2>1. upTo(x) \in SUBSET S /\ x \in upTo(x)
    BY <1>2
  <2>2. IsFiniteSet(upTo(x)) /\ Cardinality(upTo(x)) <= n
    BY <2>1, FS_Subset
  <2>3. Cardinality(upTo(x)) \in Nat /\ Cardinality(upTo(x)) # 0
    BY <2>1, <2>2, FS_CardinalityType, FS_EmptySet
  <2> QED BY <1>1, <2>2, <2>3
<1>3. ASSUME NEW x \in S, NEW y \in S, Before(x, y) PROVE rank[x] < rank[y]
  <2>1. upTo(x) \in SUBSET upTo(y) /\ y \in upTo(y) /\ y \notin upTo(x)
    <3>1. \A z \in S : z = x \/ Before(z, x) => Before(z, y)
      BY <1>3, BeforeOrder
    <3>2. y # x /\ ~ Before(y, x)
      BY <1>3, BeforeOrder
    <3> QED BY <3>1, <3>2
  <2>2. IsFiniteSet(upTo(y))
    <3>1. upTo(y) \in SUBSET S
      OBVIOUS
    <3> QED BY <3>1, FS_Subset
  <2>3. Cardinality(upTo(x)) <= Cardinality(upTo(y))
        /\ Cardinality(upTo(x)) # Cardinality(upTo(y))
    BY <2>1, <2>2, FS_Subset
  <2> QED BY <1>1, <1>2, <2>3
<1>4. \A k \in 1 .. n : \E x \in S : rank[x] = k
  <2>1. rank \in Injection(S, 1 .. n)
    <3>1. \A x, y \in S : Before(x, y) \/ Before(y, x) \/ x = y
      BY BeforeOrder
    <3>2. \A x, y \in S : rank[x] = rank[y] => x = y
      BY <1>2, <1>3, <3>1
    <3> QED BY <1>2, <3>2 DEF Injection, IsInjective
  <2>2. IsFiniteSet(1 .. n) /\ Cardinality(1 .. n) = n
    BY <1>1, FS_Interval
  <2>3. rank \in Surjection(S, 1 .. n)
    BY <2>1, <2>2, FS_Injection
  <2> QED BY <2>3 DEF Surjection
<1>5. \A k \in 1 .. n : s[k] \in S /\ rank[s[k]] = k
  BY <1>4
<1> HIDE DEF rank, s, n
<1>6. ASSUME NEW i \in 1 .. n, NEW j \in 1 .. n, i < j PROVE Before(s[i], s[j])
  <2>1. s[i] \in S /\ s[j] \in S /\ rank[s[i]] = i /\ rank[s[j]] = j
    BY <1>5
  <2>2. i \in Nat /\ j \in Nat
    BY <1>1
  <2>3. ~ Before(s[j], s[i])
    <3>1. Before(s[j], s[i]) => rank[s[j]] < rank[s[i]]
      BY <1>3, <2>1
    <3> QED BY <1>6, <2>1, <2>2, <3>1
  <2>4. s[i] # s[j]
    BY <1>6, <2>1, <2>2
  <2> QED BY <2>1, <2>3, <2>4, BeforeOrder
<1>7. s \in [1 .. n -> S]
  BY <1>5 DEF s
<1> QED BY <1>6, <1>7 DEF n, Ordered

\* In order, every line of the set is there.
LEMMA OrderedIsAll ==
  ASSUME NEW S, S \subseteq Line, IsFiniteSet(S), NEW s, Ordered(s, S)
  PROVE  ToSet(s) = S
<1> DEFINE n == Cardinality(S)
<1>1. n \in Nat
  BY FS_CardinalityType
<1>2. s \in [1 .. n -> S] /\ \A i, j \in 1 .. n : i < j => Before(s[i], s[j])
  BY DEF Ordered
<1> HIDE DEF n
<1>3. \A i, j \in 1 .. n : s[i] = s[j] => i = j
  <2> SUFFICES ASSUME NEW i \in 1 .. n, NEW j \in 1 .. n, i < j PROVE s[i] # s[j]
    BY <1>1
  <2>1. s[i] \in Line /\ Before(s[i], s[j])
    BY <1>2
  <2> QED BY <2>1, BeforeOrder
<1>4. s \in Surjection(1 .. n, S)
  <2>1. s \in Injection(1 .. n, S)
    BY <1>2, <1>3 DEF Injection, IsInjective
  <2>2. Cardinality(1 .. n) = n
    BY <1>1, FS_Interval
  <2> QED BY <2>1, <2>2, FS_Injection DEF n
<1>5. DOMAIN s = 1 .. n
  BY <1>2
<1> QED BY <1>2, <1>4, <1>5 DEF Surjection, ToSet

\* A digest says which lines it is of, however they came.
LEMMA DigestSorts ==
  ASSUME NEW ls \in Seq(Line), \A i, j \in DOMAIN ls : ls[i] = ls[j] => i = j
  PROVE  /\ Digest(ls) = InOrder(ToSet(ls)) /\ ToSet(Digest(ls)) = ToSet(ls)
         /\ Digest(ls) \in Seq(Line)
<1> DEFINE S == ToSet(ls)
           n == Len(ls)
<1>1. n \in Nat /\ DOMAIN ls = 1 .. n /\ ls \in [1 .. n -> S]
  BY DEF ToSet
<1>2. S \subseteq Line
  BY <1>1 DEF ToSet
<1>3. IsFiniteSet(S) /\ Cardinality(S) = n
  <2>1. IsFiniteSet(1 .. n) /\ Cardinality(1 .. n) = n
    BY <1>1, FS_Interval
  <2>2. ls \in Surjection(1 .. n, S) /\ ls \in Injection(1 .. n, S)
    BY <1>1 DEF Surjection, Injection, IsInjective, ToSet
  <2> HIDE DEF S, n
  <2> QED BY <2>1, <2>2, FS_Surjection
<1> HIDE DEF S, n
<1>4. PICK s : Ordered(s, S)
  BY <1>2, <1>3, Sortable
<1>5. InOrder(S) = CHOOSE t \in [1 .. n -> S] : \A i, j \in 1 .. n : i < j => Before(t[i], t[j])
  BY <1>3 DEF InOrder
<1>6. Digest(ls) = CHOOSE t \in [1 .. n -> S] : \A i, j \in 1 .. n : i < j => Before(t[i], t[j])
  BY <1>1 DEF Digest, S
<1>7. \E t \in [1 .. n -> S] : \A i, j \in 1 .. n : i < j => Before(t[i], t[j])
  BY <1>3, <1>4 DEF Ordered
<1>8. Ordered(Digest(ls), S)
  BY <1>3, <1>6, <1>7 DEF Ordered
<1>9. ToSet(Digest(ls)) = S
  BY <1>2, <1>3, <1>8, OrderedIsAll
<1>10. Digest(ls) \in Seq(Line)
  <2>1. Digest(ls) \in [1 .. n -> Line]
    BY <1>2, <1>3, <1>8 DEF Ordered
  <2> QED BY <1>1, <2>1
<1> QED BY <1>5, <1>6, <1>9, <1>10 DEF S

-----------------------------------------------------------------------------
(***************************************************************************)
(* The inductive invariant.  Of a walk it says which files are past        *)
(* (Passed), and that each line came from one of them; while nobody        *)
(* interferes (Quiet), that the lines are exactly those of the files past. *)
(***************************************************************************)

Disk == [File -> Contents \cup {Manifest, NoFile}]

RelOf(p, f) == IF IsDir[p] THEN Rel[f] ELSE 0

LineOf(d, p, f) == [digest |-> d[f], rel |-> RelOf(p, f)]

\* The files that the walk will not come to any more
Passed == {f \in FilesOf[Here] : f \notin todo /\ In[f] \notin dirs /\ f # reading.file}

\* Nobody has interfered since the task began.
Quiet == \/ task = "sign" /\ writes = 0
         \/ task = "verify" /\ calm

Typed ==
  /\ scene \in Scenes /\ disk \in Disk /\ before \in Disk /\ writes \in Nat
  /\ task \in {"sign", "saved", "verify", "done", "failed", "raised"}
  /\ turn \in 1 .. Len(scene.subject) + 1 /\ begun \in BOOLEAN
  /\ reading \in [file : File \cup {NoFile}, got : Seq(Nat)] /\ lines \in Seq(Line)
  /\ signed \in Seq(Seq(Line)) /\ verdicts \in Seq(BOOLEAN)
  /\ Len(signed) = IF task \in {"sign", "failed"} THEN turn - 1 ELSE Len(scene.subject)
  /\ Len(verdicts) = IF task \in {"verify", "raised"} THEN turn - 1
                     ELSE IF task = "done" THEN Len(scene.subject) ELSE 0
  /\ task = "sign" /\ writes = 0 => disk = before
  /\ task \in {"verify", "done"} /\ writes = 0 => calm

Walk ==
  /\ ~ begun => dirs = {} /\ todo = {} /\ reading = NotReading /\ lines = <<>>
  /\ begun =>
       /\ task \in {"sign", "verify"} /\ turn <= Len(scene.subject) /\ Here \in Place
       /\ todo \subseteq {f \in FilesOf[Here] : In[f] \notin dirs}
       /\ reading # NotReading =>
            /\ reading.file \in FilesOf[Here] \ todo /\ In[reading.file] \notin dirs
            /\ disk[reading.file] # NoFile /\ Len(reading.got) < FileLength

Lines ==
  begun =>
    /\ \A i \in DOMAIN lines : \E f \in Passed : lines[i].rel = RelOf(Here, f)
    /\ \A i, j \in DOMAIN lines : lines[i].rel = lines[j].rel => i = j

Faithful ==
  begun /\ Quiet /\ unlisted = {} =>
    /\ reading # NotReading =>
         \A i \in 1 .. Len(reading.got) : reading.got[i] = disk[reading.file][i]
    /\ ToSet(lines) = {LineOf(disk, Here, f) : f \in {g \in Passed : disk[g] # NoFile}}
    /\ task = "verify" => Exists(Here)
    /\ task = "verify" \/ IsDir[Here] => \A f \in todo : disk[f] # NoFile

Signed ==
  /\ \A i \in DOMAIN signed : signed[i] = InOrder(ToSet(signed[i]))
  /\ writes = 0 /\ unlisted = {} =>
       \A i \in DOMAIN signed : ToSet(signed[i]) = Whole(before, scene.subject[i])

Verified ==
  unlisted = {} =>
    \A i \in DOMAIN verdicts :
      LET p == scene.subject[i] IN
      /\ calm /\ verdicts[i] => ToSet(signed[i]) = Whole(disk, Found(p))
      /\ writes = 0 =>
           (verdicts[i] <=> Exists(Found(p)) /\ Whole(disk, Found(p)) = Whole(before, p))

IInv == Typed /\ Walk /\ Lines /\ Faithful /\ Signed /\ Verified

LEMMA ConstantsTyped ==
  /\ FileLength \in Nat \ {0} /\ NoFile \notin File /\ NoPlace \notin Place
  /\ \A p \in Place : FilesOf[p] \subseteq File /\ IsDir[p] \in BOOLEAN
  /\ \A f \in File : Rel[f] \in Nat /\ In[f] \in Directory
  /\ \A p \in Place : \A f, g \in FilesOf[p] : RelOf(p, f) = RelOf(p, g) => f = g
  /\ \A p \in Place : \A f \in FilesOf[p] : RelOf(p, f) \in Nat
  /\ \A c \in Contents \cup {Manifest} : c \in Bytes /\ c # NoFile
<1>1. /\ FileLength \in Nat \ {0} /\ NoFile \notin File /\ NoPlace \notin Place
      /\ \A p \in Place : FilesOf[p] \subseteq File /\ IsDir[p] \in BOOLEAN
      /\ \A f \in File : Rel[f] \in Nat /\ In[f] \in Directory
  BY ContentAssumption
<1>2. \A p \in Place : \A f, g \in FilesOf[p] : RelOf(p, f) = RelOf(p, g) => f = g
  <2> SUFFICES ASSUME NEW p \in Place, NEW f \in FilesOf[p], NEW g \in FilesOf[p],
                      RelOf(p, f) = RelOf(p, g)
               PROVE  f = g
    OBVIOUS
  <2>1. CASE IsDir[p]
    <3>1. Rel[f] = Rel[g]
      BY <2>1 DEF RelOf
    <3> QED BY <3>1, ContentAssumption
  <2>2. CASE ~ IsDir[p]
    <3>1. \E h \in File : FilesOf[p] = {h}
      BY <2>2, ContentAssumption
    <3> QED BY <3>1
  <2> QED BY <2>1, <2>2
<1>3. \A p \in Place : \A f \in FilesOf[p] : RelOf(p, f) \in Nat
  BY <1>1 DEF RelOf
<1>4. \A c \in Contents \cup {Manifest} : c \in Bytes /\ c # NoFile
  <2>1. \A b \in Nat : Uniform(b) \in Bytes
    BY DEF Uniform, Bytes
  <2>2. Block \subseteq Nat /\ NoFile \notin Contents \cup {Manifest} /\ 0 \in Nat
    BY ContentAssumption
  <2> QED BY <2>1, <2>2 DEF Contents, Manifest
<1> QED BY <1>1, <1>2, <1>3, <1>4

LEMMA SceneTyped ==
  ASSUME Typed
  PROVE  /\ scene.subject \in Seq(Place) /\ Len(scene.subject) \in Nat
         /\ DOMAIN scene.subject = 1 .. Len(scene.subject)
         /\ \A i \in 1 .. Len(scene.subject) :
              scene.subject[i] \in Place /\ Found(scene.subject[i]) \in Place \cup {NoPlace}
<1>1. scene \in Scenes
  BY DEF Typed
<1>2. scene.subject \in Seq(Place)
  BY <1>1, ContentAssumption
<1>3. \A p \in Range(scene.subject) : scene.found[Name[p]] \in Place \cup {NoPlace}
  BY <1>1, ContentAssumption
<1>4. \A i \in 1 .. Len(scene.subject) : scene.subject[i] \in Range(scene.subject)
  BY <1>2 DEF Range
<1> QED BY <1>2, <1>3, <1>4 DEF Found

LEMMA FileOnDisk ==
  ASSUME Typed, NEW f \in File, disk[f] # NoFile PROVE disk[f] \in Bytes
<1>1. disk[f] \in Contents \cup {Manifest}
  BY DEF Typed, Disk
<1> QED BY <1>1, ConstantsTyped

\* Nothing is being read while no digest is taken, and no file is NoFile.
LEMMA ReadingIsAFile ==
  ASSUME Typed, Walk
  PROVE  reading = NotReading <=> reading.file = NoFile
<1>1. reading = NotReading => reading.file = NoFile
  BY DEF NotReading
<1>2. CASE reading # NotReading
  <2>1. begun /\ Here \in Place /\ reading.file \in FilesOf[Here]
    BY <1>2 DEF Walk, Typed
  <2> QED BY <1>2, <2>1, ConstantsTyped
<1> QED BY <1>1, <1>2

-----------------------------------------------------------------------------
(* The steps *)

LEMMA IInvInit == Init => IInv
<1> SUFFICES ASSUME Init PROVE IInv
  OBVIOUS
<1>1. scene.subject \in Seq(Place) /\ Len(scene.subject) \in Nat
  BY ContentAssumption DEF Init
<1>2. Len(<< >>) = 0 /\ \A S : << >> \in Seq(S) /\ DOMAIN << >> = {}
  OBVIOUS
<1>3. reading \in [file : File \cup {NoFile}, got : Seq(Nat)]
  BY <1>2 DEF Init, NotReading
<1>4. disk \in Disk /\ before \in Disk
  BY DEF Init, Disk
<1>5. signed = << >> /\ verdicts = << >> /\ lines = << >>
  BY DEF Init
<1>6. Typed
  <2>1. turn \in 1 .. Len(scene.subject) + 1
    BY <1>1 DEF Init
  <2>2. /\ scene \in Scenes /\ writes \in Nat /\ task = "sign" /\ begun \in BOOLEAN
        /\ disk = before /\ turn = 1
    BY DEF Init
  <2>3. lines \in Seq(Line) /\ signed \in Seq(Seq(Line)) /\ verdicts \in Seq(BOOLEAN)
        /\ Len(signed) = 0 /\ Len(verdicts) = 0
    BY <1>2, <1>5
  <2> QED BY <1>3, <1>4, <2>1, <2>2, <2>3 DEF Typed
<1>7. Walk /\ Lines /\ Faithful
  BY DEF Init, Walk, Lines, Faithful
<1>8. Signed /\ Verified
  <2>1. DOMAIN signed = {} /\ DOMAIN verdicts = {}
    BY <1>2, <1>5
  <2> QED BY <2>1 DEF Signed, Verified
<1> QED BY <1>6, <1>7, <1>8 DEF IInv

\* What is known of the manifest and of the verdicts speaks of no walk.
LEMMA ResultsStay ==
  ASSUME Signed, Verified, UNCHANGED <<env, unlisted, results>>
  PROVE  Signed' /\ Verified'
<1>1. /\ scene' = scene /\ disk' = disk /\ before' = before /\ writes' = writes
      /\ calm' = calm /\ unlisted' = unlisted /\ signed' = signed /\ verdicts' = verdicts
  BY DEF env, results
<1>2. Signed'
  BY <1>1 DEF Signed, Whole
<1>3. Verified'
  <2> DEFINE Entry(i) ==
               LET p == scene.subject[i] IN
               /\ calm /\ verdicts[i] => ToSet(signed[i]) = Whole(disk, Found(p))
               /\ writes = 0 =>
                    (verdicts[i] <=> Exists(Found(p)) /\ Whole(disk, Found(p)) = Whole(before, p))
  <2>1. Verified <=> (unlisted = {} => \A i \in DOMAIN verdicts : Entry(i))
    BY DEF Verified
  <2>2. Verified' <=> (unlisted' = {} => \A i \in DOMAIN verdicts' : Entry(i)')
    BY DEF Verified
  <2>3. ASSUME NEW i PROVE Entry(i)' <=> Entry(i)
    BY <1>1 DEF Whole, Found, Exists
  <2> HIDE DEF Entry
  <2> QED BY <1>1, <2>1, <2>2, <2>3
<1> QED BY <1>2, <1>3

\* Whatever others do to a file ends the quiet.
LEMMA ChangeStep == ASSUME IInv, NEW f \in File, Change(f) PROVE IInv'
<1>1. /\ scene' = scene /\ before' = before /\ unlisted' = unlisted /\ task' = task /\ turn' = turn
      /\ begun' = begun /\ dirs' = dirs /\ todo' = todo /\ reading' = reading /\ lines' = lines
      /\ signed' = signed /\ verdicts' = verdicts /\ writes' = writes + 1 /\ calm' = FALSE
  BY DEF Change, at, results
<1>2. PICK content \in Contents \cup {NoFile} :
        (content = NoFile => reading.file # f) /\ disk' = [disk EXCEPT ![f] = content]
  BY DEF Change
<1>3. disk \in Disk /\ writes \in Nat
  BY DEF IInv, Typed
<1>4. disk' \in Disk
  BY <1>2, <1>3 DEF Disk
<1>5. writes' \in Nat /\ writes' # 0
  BY <1>1, <1>3
<1>6. Here' = Here
  BY <1>1 DEF Here, Found
<1>7. Typed'
  <2>1. Typed
    BY DEF IInv
  <2> QED BY <1>1, <1>4, <1>5, <2>1 DEF Typed, Change, Verify
<1>8. Walk'
  <2>1. Walk
    BY DEF IInv
  <2>2. disk[reading.file] # NoFile /\ reading.file \in File => disk'[reading.file] # NoFile
    BY <1>2, <1>3 DEF Disk
  <2>3. Here \in Place => FilesOf[Here] \subseteq File
    BY ConstantsTyped
  <2> QED BY <1>1, <1>6, <2>1, <2>2, <2>3 DEF Walk, NotReading
<1>9. Lines'
  BY <1>1, <1>6 DEF IInv, Lines, Passed
<1>10. Faithful'
  BY <1>1, <1>5 DEF Faithful, Quiet
<1>11. Signed'
  BY <1>1, <1>5 DEF IInv, Signed
<1>12. Verified'
  BY <1>1, <1>5 DEF Verified
<1> QED BY <1>7, <1>8, <1>9, <1>10, <1>11, <1>12 DEF IInv

\* Nothing is past when a walk begins, and there are no lines.
LEMMA BeginStep == ASSUME IInv, BeginEntry PROVE IInv'
<1>1. /\ scene' = scene /\ disk' = disk /\ before' = before /\ writes' = writes /\ calm' = calm
      /\ unlisted' = unlisted /\ task' = task /\ turn' = turn /\ reading' = reading
      /\ signed' = signed /\ verdicts' = verdicts /\ lines' = << >> /\ begun' = TRUE
      /\ dirs' = (IF IsDir[Here] THEN {In[f] : f \in FilesOf[Here]} ELSE {})
      /\ todo' = (IF IsDir[Here] THEN {} ELSE FilesOf[Here])
  BY DEF BeginEntry, env, results
<1>2. /\ task \in {"sign", "verify"} /\ turn <= Len(scene.subject) /\ ~ begun
      /\ task = "verify" => Exists(Here)
  BY DEF BeginEntry, Pending
<1>3. Typed /\ Walk /\ Signed /\ Verified
  BY DEF IInv
<1>4. Here' = Here
  BY <1>1 DEF Here, Found
<1>5. reading' = NotReading
  BY <1>1, <1>2, <1>3 DEF Walk
<1>6. Here \in Place
  <2>1. turn \in 1 .. Len(scene.subject)
    BY <1>2, <1>3, SceneTyped DEF Typed
  <2>2. scene.subject[turn] \in Place /\ Found(scene.subject[turn]) \in Place \cup {NoPlace}
    BY <1>3, <2>1, SceneTyped
  <2>3. task = "verify" => Here # NoPlace
    BY <1>2 DEF Exists
  <2> QED BY <1>2, <2>2, <2>3 DEF Here
<1>7. lines' \in Seq(Line) /\ DOMAIN lines' = {}
  BY <1>1
<1>8. Typed'
  BY <1>1, <1>3, <1>7 DEF Typed
<1>9. Walk'
  BY <1>1, <1>2, <1>4, <1>5, <1>6 DEF Walk
<1>10. Lines'
  BY <1>7 DEF Lines
<1>11. Faithful'
  <2>1. Passed' = {}
    <3> SUFFICES ASSUME NEW f \in FilesOf[Here], f \notin todo', In[f] \notin dirs' PROVE FALSE
      BY <1>4 DEF Passed
    <3> QED BY <1>1
  <2>2. ToSet(lines') = {}
    BY <1>7 DEF ToSet
  <2>3. task' = "verify" => Exists(Here)'
    BY <1>1, <1>2, <1>4 DEF Exists
  <2>4. task' = "verify" \/ IsDir[Here'] => \A f \in todo' : disk'[f] # NoFile
    <3>1. CASE IsDir[Here]
      BY <1>1, <3>1
    <3>2. CASE ~ IsDir[Here]
      BY <1>1, <1>2, <1>4, <3>2 DEF Exists
    <3> QED BY <3>1, <3>2
  <2> QED BY <1>5, <2>1, <2>2, <2>3, <2>4 DEF Faithful
<1>12. Signed' /\ Verified'
  BY <1>1, <1>3, ResultsStay DEF env, results
<1> QED BY <1>8, <1>9, <1>10, <1>11, <1>12 DEF IInv

\* A file that the listing has is not past, one that it has not has no line.
LEMMA ListStep == ASSUME IInv, NEW d \in Directory, ListDirectory(d) PROVE IInv'
<1>1. /\ scene' = scene /\ disk' = disk /\ before' = before /\ writes' = writes /\ calm' = calm
      /\ unlisted' = unlisted /\ task' = task /\ turn' = turn /\ begun' = begun
      /\ reading' = reading /\ lines' = lines /\ signed' = signed /\ verdicts' = verdicts
      /\ dirs' = dirs \ {d} /\ todo' = {f \in FilesOf[Here] : In[f] = d /\ disk[f] # NoFile}
  BY DEF ListDirectory, env, at, results
<1>2. begun /\ reading = NotReading /\ todo = {} /\ d \in dirs
  BY DEF ListDirectory, Walking
<1>3. Typed /\ Walk /\ Lines /\ Faithful /\ Signed /\ Verified
  BY DEF IInv
<1>4. Here' = Here
  BY <1>1 DEF Here, Found
<1>5. Passed \subseteq Passed'
  BY <1>1, <1>2, <1>4 DEF Passed
<1>6. {g \in Passed' : disk'[g] # NoFile} = {g \in Passed : disk[g] # NoFile}
  <2>1. ASSUME NEW g \in Passed', disk[g] # NoFile PROVE g \in Passed
    <3>1. g \in FilesOf[Here] /\ g \notin todo' /\ In[g] \notin dirs \ {d} /\ g # reading.file
      BY <1>1, <1>4 DEF Passed
    <3>2. In[g] # d
      BY <1>1, <2>1, <3>1
    <3> QED BY <1>2, <3>1, <3>2 DEF Passed
  <2> QED BY <1>1, <1>5, <2>1
<1>7. Typed'
  BY <1>1, <1>3 DEF Typed
<1>8. Walk'
  BY <1>1, <1>2, <1>3, <1>4 DEF Walk
<1>9. Lines'
  BY <1>1, <1>3, <1>4, <1>5 DEF Lines
<1>10. Faithful'
  <2> SUFFICES ASSUME Quiet, unlisted = {} PROVE Faithful'
    BY <1>1 DEF Faithful, Quiet
  <2>1. ToSet(lines) = {LineOf(disk, Here, f) : f \in {g \in Passed : disk[g] # NoFile}}
    BY <1>2, <1>3 DEF Faithful
  <2>2. ToSet(lines') = {LineOf(disk', Here', f) : f \in {g \in Passed' : disk'[g] # NoFile}}
    BY <1>1, <1>4, <1>6, <2>1
  <2>3. task' = "verify" => Exists(Here)'
    BY <1>1, <1>2, <1>3, <1>4 DEF Faithful, Exists
  <2>4. \A f \in todo' : disk'[f] # NoFile
    BY <1>1
  <2>5. reading' = NotReading
    BY <1>1, <1>2
  <2> QED BY <2>2, <2>3, <2>4, <2>5 DEF Faithful
<1>11. Signed' /\ Verified'
  BY <1>1, <1>3, ResultsStay DEF env, results
<1> QED BY <1>7, <1>8, <1>9, <1>10, <1>11 DEF IInv

LEMMA ListFailsStep == ASSUME IInv, NEW d \in Directory, ListingFails(d) PROVE IInv'
<1>1. /\ scene' = scene /\ disk' = disk /\ before' = before /\ writes' = writes /\ calm' = calm
      /\ task' = task /\ turn' = turn /\ begun' = begun /\ todo' = todo /\ reading' = reading
      /\ lines' = lines /\ signed' = signed /\ verdicts' = verdicts
      /\ dirs' = dirs \ {d} /\ unlisted' = unlisted \cup {d}
  BY DEF ListingFails, env, at, results
<1>2. begun /\ reading = NotReading /\ todo = {}
  BY DEF ListingFails, Walking
<1>3. Typed /\ Walk /\ Lines /\ Signed
  BY DEF IInv
<1>4. Here' = Here
  BY <1>1 DEF Here, Found
<1>5. Passed \subseteq Passed'
  BY <1>1, <1>4 DEF Passed
<1>6. unlisted' # {}
  BY <1>1
<1>7. Typed'
  BY <1>1, <1>3 DEF Typed
<1>8. Walk'
  BY <1>1, <1>2, <1>3, <1>4 DEF Walk
<1>9. Lines'
  BY <1>1, <1>3, <1>4, <1>5 DEF Lines
<1>10. Faithful' /\ Verified'
  BY <1>6 DEF Faithful, Verified
<1>11. Signed'
  BY <1>1, <1>3, <1>6 DEF Signed
<1> QED BY <1>7, <1>8, <1>9, <1>10, <1>11 DEF IInv

LEMMA SkipStep == ASSUME IInv, NEW f \in File, SkipFile(f) PROVE IInv'
<1>1. /\ scene' = scene /\ disk' = disk /\ before' = before /\ writes' = writes /\ calm' = calm
      /\ unlisted' = unlisted /\ task' = task /\ turn' = turn /\ begun' = begun /\ dirs' = dirs
      /\ reading' = reading /\ lines' = lines /\ signed' = signed /\ verdicts' = verdicts
      /\ todo' = todo \ {f}
  BY DEF SkipFile, env, at, results
<1>2. begun /\ reading = NotReading /\ f \in todo /\ disk[f] = NoFile
  BY DEF SkipFile, Walking
<1>3. Typed /\ Walk /\ Lines /\ Faithful /\ Signed /\ Verified
  BY DEF IInv
<1>4. Here' = Here
  BY <1>1 DEF Here, Found
<1>5. Passed \subseteq Passed' /\ Passed' \subseteq Passed \cup {f}
  BY <1>1, <1>4 DEF Passed
<1>6. {g \in Passed' : disk'[g] # NoFile} = {g \in Passed : disk[g] # NoFile}
  BY <1>1, <1>2, <1>5
<1>7. Typed'
  BY <1>1, <1>3 DEF Typed
<1>8. Walk'
  BY <1>1, <1>2, <1>3, <1>4 DEF Walk
<1>9. Lines'
  BY <1>1, <1>3, <1>4, <1>5 DEF Lines
<1>10. Faithful'
  <2> SUFFICES ASSUME Quiet, unlisted = {} PROVE Faithful'
    BY <1>1 DEF Faithful, Quiet
  <2>1. /\ ToSet(lines) = {LineOf(disk, Here, g) : g \in {h \in Passed : disk[h] # NoFile}}
        /\ task = "verify" => Exists(Here)
        /\ task = "verify" \/ IsDir[Here] => \A g \in todo : disk[g] # NoFile
    BY <1>2, <1>3 DEF Faithful
  <2>2. ToSet(lines') = {LineOf(disk', Here', g) : g \in {h \in Passed' : disk'[h] # NoFile}}
    BY <1>1, <1>4, <1>6, <2>1
  <2>3. task' = "verify" => Exists(Here)'
    BY <1>1, <1>4, <2>1 DEF Exists
  <2>4. task' = "verify" \/ IsDir[Here'] => \A g \in todo' : disk'[g] # NoFile
    BY <1>1, <1>4, <2>1
  <2>5. reading' = NotReading
    BY <1>1, <1>2
  <2> QED BY <2>2, <2>3, <2>4, <2>5 DEF Faithful
<1>11. Signed' /\ Verified'
  BY <1>1, <1>3, ResultsStay DEF env, results
<1> QED BY <1>7, <1>8, <1>9, <1>10, <1>11 DEF IInv

\* An open file is past when it is read, and until then it is no longer to come.
LEMMA OpenStep == ASSUME IInv, NEW f \in File, OpenFile(f) PROVE IInv'
<1>1. /\ scene' = scene /\ disk' = disk /\ before' = before /\ writes' = writes /\ calm' = calm
      /\ unlisted' = unlisted /\ task' = task /\ turn' = turn /\ begun' = begun /\ dirs' = dirs
      /\ lines' = lines /\ signed' = signed /\ verdicts' = verdicts
      /\ todo' = todo \ {f} /\ reading' = [file |-> f, got |-> << >>]
  BY DEF OpenFile, env, at, results
<1>2. begun /\ reading = NotReading /\ f \in todo /\ disk[f] # NoFile
  BY DEF OpenFile, Walking
<1>3. Typed /\ Walk /\ Lines /\ Faithful /\ Signed /\ Verified
  BY DEF IInv
<1>4. Here' = Here
  BY <1>1 DEF Here, Found
<1>5. reading'.file = f /\ reading'.got = << >> /\ Len(reading'.got) = 0 /\ reading.file = NoFile
  BY <1>1, <1>2 DEF NotReading
<1>6. Here \in Place /\ f \in FilesOf[Here] /\ In[f] \notin dirs
  BY <1>2, <1>3 DEF Walk
<1>7. Passed' = Passed
  <2>1. NoFile \notin FilesOf[Here]
    BY <1>6, ConstantsTyped
  <2> QED BY <1>1, <1>2, <1>4, <1>5, <2>1 DEF Passed
<1>8. Typed'
  <2>1. reading' \in [file : File \cup {NoFile}, got : Seq(Nat)]
    <3>1. << >> \in Seq(Nat)
      OBVIOUS
    <3> QED BY <1>1, <3>1
  <2> QED BY <1>1, <1>3, <2>1 DEF Typed
<1>9. Walk'
  <2>1. Len(reading'.got) < FileLength
    BY <1>5, ConstantsTyped
  <2>2. disk'[reading'.file] # NoFile /\ reading'.file \in FilesOf[Here'] \ todo'
        /\ In[reading'.file] \notin dirs'
    BY <1>1, <1>2, <1>4, <1>5, <1>6
  <2> QED BY <1>1, <1>2, <1>3, <1>4, <2>1, <2>2 DEF Walk
<1>10. Lines'
  BY <1>1, <1>3, <1>4, <1>7 DEF Lines
<1>11. Faithful'
  <2> SUFFICES ASSUME Quiet, unlisted = {} PROVE Faithful'
    BY <1>1 DEF Faithful, Quiet
  <2>1. /\ ToSet(lines) = {LineOf(disk, Here, g) : g \in {h \in Passed : disk[h] # NoFile}}
        /\ task = "verify" => Exists(Here)
        /\ task = "verify" \/ IsDir[Here] => \A g \in todo : disk[g] # NoFile
    BY <1>2, <1>3 DEF Faithful
  <2>2. ToSet(lines') = {LineOf(disk', Here', g) : g \in {h \in Passed' : disk'[h] # NoFile}}
    BY <1>1, <1>4, <1>7, <2>1
  <2>3. task' = "verify" => Exists(Here)'
    BY <1>1, <1>4, <2>1 DEF Exists
  <2>4. task' = "verify" \/ IsDir[Here'] => \A g \in todo' : disk'[g] # NoFile
    BY <1>1, <1>4, <2>1
  <2>5. \A i \in 1 .. Len(reading'.got) : reading'.got[i] = disk'[reading'.file][i]
    BY <1>5
  <2> QED BY <2>2, <2>3, <2>4, <2>5 DEF Faithful
<1>12. Signed' /\ Verified'
  BY <1>1, <1>3, ResultsStay DEF env, results
<1> QED BY <1>8, <1>9, <1>10, <1>11, <1>12 DEF IInv

LEMMA AppendTyped ==
  ASSUME NEW S, NEW s \in Seq(S), NEW x \in S, NEW n \in Nat, Len(s) = n
  PROVE  /\ Append(s, x) \in Seq(S) /\ Len(Append(s, x)) = n + 1
         /\ DOMAIN s = 1 .. n /\ DOMAIN Append(s, x) = 1 .. n + 1
         /\ \A i \in 1 .. n : Append(s, x)[i] = s[i]
         /\ Append(s, x)[n + 1] = x
OBVIOUS

\* Another verdict leaves the verdicts right if it is right.
LEMMA VerdictStep ==
  ASSUME IInv, task = "verify", turn <= Len(scene.subject), NEW v \in BOOLEAN,
         UNCHANGED <<env, unlisted, signed>>, verdicts' = Append(verdicts, v),
         unlisted = {} =>
           /\ calm /\ v => ToSet(signed[turn]) = Whole(disk, Here)
           /\ writes = 0 => (v <=> Exists(Here)
                                     /\ Whole(disk, Here) = Whole(before, scene.subject[turn]))
  PROVE  verdicts' \in Seq(BOOLEAN) /\ Len(verdicts') = turn /\ Signed' /\ Verified'
<1>1. /\ scene' = scene /\ disk' = disk /\ before' = before /\ writes' = writes
      /\ calm' = calm /\ unlisted' = unlisted /\ signed' = signed
  BY DEF env
<1>2. turn \in Nat /\ turn - 1 \in Nat /\ (turn - 1) + 1 = turn
  BY SceneTyped DEF IInv, Typed
<1>3. verdicts \in Seq(BOOLEAN) /\ Len(verdicts) = turn - 1
  BY DEF IInv, Typed
<1>4. /\ verdicts' \in Seq(BOOLEAN) /\ Len(verdicts') = (turn - 1) + 1
      /\ DOMAIN verdicts = 1 .. turn - 1 /\ DOMAIN verdicts' = 1 .. (turn - 1) + 1
      /\ \A i \in 1 .. turn - 1 : verdicts'[i] = verdicts[i]
      /\ verdicts'[(turn - 1) + 1] = v
  BY <1>2, <1>3, AppendTyped
<1>5. Signed'
  BY <1>1 DEF IInv, Signed, Whole
<1>6. Here = Found(scene.subject[turn])
  BY DEF Here
<1>7. ASSUME unlisted = {}, NEW i \in 1 .. turn
      PROVE  /\ calm /\ verdicts'[i] => ToSet(signed[i]) = Whole(disk, Found(scene.subject[i]))
             /\ writes = 0 =>
                  (verdicts'[i] <=> /\ Exists(Found(scene.subject[i]))
                                    /\ Whole(disk, Found(scene.subject[i]))
                                         = Whole(before, scene.subject[i]))
  <2>1. CASE i = turn
    BY <1>2, <1>4, <1>6, <1>7, <2>1
  <2>2. CASE i # turn
    <3>1. i \in 1 .. turn - 1 /\ Verified
      BY <1>2, <2>2 DEF IInv
    <3> QED BY <1>4, <1>7, <3>1 DEF Verified
  <2> QED BY <2>1, <2>2
<1>8. Verified'
  <2>1. \A p : /\ Whole(disk, Found(p))' = Whole(disk, Found(p))
               /\ Whole(before, p)' = Whole(before, p)
               /\ Exists(Found(p))' = Exists(Found(p))
    BY <1>1 DEF Whole, Found, Exists
  <2>2. DOMAIN verdicts' = 1 .. turn
    BY <1>2, <1>4
  <2> QED BY <1>1, <1>7, <2>1, <2>2 DEF Verified
<1> QED BY <1>2, <1>4, <1>5, <1>8

\* A line that cannot be encoded ends the command, and leaves its results as they are.
LEMMA EncodingFailsStep == ASSUME IInv, EncodingFails PROVE IInv'
<1>1. /\ scene' = scene /\ disk' = disk /\ before' = before /\ writes' = writes /\ calm' = calm
      /\ unlisted' = unlisted /\ begun' = FALSE /\ dirs' = {} /\ todo' = {} /\ lines' = << >>
      /\ reading' = NotReading /\ signed' = signed /\ verdicts' = verdicts /\ turn' = turn
      /\ task' = IF task = "sign" THEN "failed" ELSE "raised"
  BY DEF EncodingFails, Walking, env, results
<1>2. Typed /\ Walk /\ Lines /\ Faithful /\ Signed /\ Verified
  BY DEF IInv
<1>3. task \in {"sign", "verify"} /\ reading' = reading
  BY <1>1, <1>2 DEF EncodingFails, Walking, Walk
<1>4. lines' \in Seq(Line)
  BY <1>1
<1>5. Walk' /\ Lines' /\ Faithful'
  BY <1>1 DEF Walk, Lines, Faithful
<1>6. Signed' /\ Verified'
  BY <1>1, <1>2, ResultsStay DEF env, results
<1>7. Typed'
  BY <1>1, <1>2, <1>3, <1>4 DEF Typed
<1> QED BY <1>5, <1>6, <1>7 DEF IInv

LEMMA OpenFailsStep == ASSUME IInv, NEW f \in File, OpenFails(f) PROVE IInv'
<1>1. /\ scene' = scene /\ disk' = disk /\ before' = before /\ writes' = writes /\ calm' = calm
      /\ unlisted' = unlisted /\ begun' = FALSE /\ dirs' = {} /\ todo' = {} /\ lines' = << >>
      /\ reading' = reading /\ signed' = signed
  BY DEF OpenFails, env
<1>2. begun /\ reading = NotReading /\ f \in todo /\ disk[f] = NoFile
  BY DEF OpenFails, Walking
<1>3. Typed /\ Walk /\ Lines /\ Faithful /\ Signed /\ Verified
  BY DEF IInv
<1>4. task \in {"sign", "verify"} /\ turn <= Len(scene.subject) /\ turn \in Nat
      /\ turn + 1 \in 1 .. Len(scene.subject) + 1 /\ Len(scene.subject) \in Nat
  BY <1>2, <1>3, SceneTyped DEF Walk, Typed
<1>5. lines' \in Seq(Line)
  BY <1>1
<1>6. Walk' /\ Lines' /\ Faithful'
  BY <1>1, <1>2 DEF Walk, Lines, Faithful, NotReading
<1>7. CASE task = "sign"
  <2>1. task' = "failed" /\ turn' = turn /\ verdicts' = verdicts
    BY <1>7 DEF OpenFails
  <2>2. Typed'
    BY <1>1, <1>3, <1>4, <1>5, <1>7, <2>1 DEF Typed
  <2>3. Signed' /\ Verified'
    BY <1>1, <1>3, <2>1, ResultsStay DEF env, results
  <2> QED BY <1>6, <2>2, <2>3 DEF IInv
<1>8. CASE task = "verify"
  <2>1. task' = "verify" /\ turn' = turn + 1 /\ verdicts' = Append(verdicts, FALSE)
    BY <1>8 DEF OpenFails
  <2>2. unlisted = {} => ~ (writes = 0)
    <3> SUFFICES ASSUME unlisted = {}, writes = 0 PROVE FALSE
      OBVIOUS
    <3>1. Quiet
      BY <1>3, <1>8 DEF Typed, Quiet
    <3> QED BY <1>2, <1>3, <1>8, <3>1 DEF Faithful
  <2>3. verdicts' \in Seq(BOOLEAN) /\ Len(verdicts') = turn /\ Signed' /\ Verified'
    BY <1>1, <1>4, <1>8, <2>1, <2>2, VerdictStep DEF env
  <2>4. Typed'
    <3>1. turn' \in 1 .. Len(scene.subject) + 1 /\ turn' - 1 = turn
      BY <1>4, <2>1
    <3> QED BY <1>1, <1>3, <1>5, <1>8, <2>1, <2>3, <3>1 DEF Typed
  <2> QED BY <1>6, <2>3, <2>4 DEF IInv
<1> QED BY <1>4, <1>7, <1>8

LEMMA SaveStep == ASSUME IInv, Save PROVE IInv'
<1>1. /\ scene' = scene /\ before' = before /\ writes' = writes /\ calm' = calm
      /\ unlisted' = unlisted /\ turn' = turn /\ begun' = begun /\ dirs' = dirs /\ todo' = todo
      /\ reading' = reading /\ lines' = lines /\ signed' = signed /\ verdicts' = verdicts
      /\ task' = "saved" /\ disk' = [disk EXCEPT ![scene.out] = Manifest]
  BY DEF Save, results
<1>2. task = "sign" /\ turn > Len(scene.subject)
  BY DEF Save
<1>3. Typed /\ Walk /\ Signed
  BY DEF IInv
<1>4. turn - 1 = Len(scene.subject)
  <2>1. Len(scene.subject) \in Nat /\ turn \in 1 .. Len(scene.subject) + 1
    BY <1>3, SceneTyped DEF Typed
  <2> QED BY <1>2, <2>1
<1>5. ~ begun
  BY <1>2, <1>3, SceneTyped DEF Walk, Typed
<1>6. disk' \in Disk
  BY <1>1, <1>3 DEF Typed, Disk
<1>7. Typed'
  BY <1>1, <1>2, <1>3, <1>4, <1>6 DEF Typed
<1>8. Walk' /\ Lines' /\ Faithful'
  BY <1>1, <1>3, <1>5 DEF Walk, Lines, Faithful, NotReading
<1>9. Signed'
  BY <1>1, <1>3 DEF Signed, Whole
<1>10. Verified'
  <2>1. verdicts \in Seq(BOOLEAN) /\ Len(verdicts) = 0
    BY <1>2, <1>3 DEF Typed
  <2>2. DOMAIN verdicts = {}
    BY <2>1
  <2> QED BY <1>1, <2>2 DEF Verified
<1> QED BY <1>7, <1>8, <1>9, <1>10 DEF IInv

LEMMA VerifyStep == ASSUME IInv, Verify PROVE IInv'
<1>1. /\ scene' = scene /\ disk' = disk /\ before' = before /\ writes' = writes
      /\ unlisted' = unlisted /\ begun' = begun /\ dirs' = dirs /\ todo' = todo
      /\ reading' = reading /\ lines' = lines /\ signed' = signed /\ verdicts' = verdicts
      /\ task' = "verify" /\ turn' = 1 /\ calm' = TRUE
  BY DEF Verify, results
<1>2. task = "saved"
  BY DEF Verify
<1>3. Typed /\ Walk /\ Signed
  BY DEF IInv
<1>4. ~ begun
  BY <1>2, <1>3 DEF Walk
<1>5. Typed'
  <2>1. 1 \in 1 .. Len(scene.subject) + 1
    BY <1>3, SceneTyped
  <2> QED BY <1>1, <1>2, <1>3, <2>1 DEF Typed
<1>6. Walk' /\ Lines' /\ Faithful'
  BY <1>1, <1>3, <1>4 DEF Walk, Lines, Faithful, NotReading
<1>7. Signed'
  BY <1>1, <1>3 DEF Signed, Whole
<1>8. Verified'
  <2>1. verdicts \in Seq(BOOLEAN) /\ Len(verdicts) = 0
    BY <1>2, <1>3 DEF Typed
  <2>2. DOMAIN verdicts = {}
    BY <2>1
  <2> QED BY <1>1, <2>2 DEF Verified
<1> QED BY <1>5, <1>6, <1>7, <1>8 DEF IInv

LEMMA NotFoundStep == ASSUME IInv, NotFound PROVE IInv'
<1>1. /\ scene' = scene /\ disk' = disk /\ before' = before /\ writes' = writes /\ calm' = calm
      /\ unlisted' = unlisted /\ task' = task /\ begun' = begun /\ dirs' = dirs /\ todo' = todo
      /\ reading' = reading /\ lines' = lines /\ signed' = signed
      /\ turn' = turn + 1 /\ verdicts' = Append(verdicts, FALSE)
  BY DEF NotFound, env
<1>2. task = "verify" /\ turn <= Len(scene.subject) /\ ~ begun /\ ~ Exists(Here)
  BY DEF NotFound, Pending
<1>3. Typed /\ Walk
  BY DEF IInv
<1>4. turn' \in 1 .. Len(scene.subject) + 1 /\ turn' - 1 = turn
  BY <1>1, <1>2, <1>3, SceneTyped DEF Typed
<1>5. verdicts' \in Seq(BOOLEAN) /\ Len(verdicts') = turn /\ Signed' /\ Verified'
  BY <1>1, <1>2, VerdictStep DEF env
<1>6. Typed'
  BY <1>1, <1>2, <1>3, <1>4, <1>5 DEF Typed
<1>7. Walk' /\ Lines' /\ Faithful'
  BY <1>1, <1>2, <1>3 DEF Walk, Lines, Faithful, NotReading
<1> QED BY <1>5, <1>6, <1>7 DEF IInv

LEMMA FinishStep == ASSUME IInv, Finish PROVE IInv'
<1>1. /\ scene' = scene /\ disk' = disk /\ before' = before /\ writes' = writes /\ calm' = calm
      /\ unlisted' = unlisted /\ turn' = turn /\ begun' = begun /\ dirs' = dirs /\ todo' = todo
      /\ reading' = reading /\ lines' = lines /\ signed' = signed /\ verdicts' = verdicts
      /\ task' = "done"
  BY DEF Finish, env, results
<1>2. task = "verify" /\ turn > Len(scene.subject)
  BY DEF Finish
<1>3. Typed /\ Walk /\ Signed /\ Verified
  BY DEF IInv
<1>4. ~ begun /\ turn - 1 = Len(scene.subject)
  BY <1>2, <1>3, SceneTyped DEF Walk, Typed
<1>5. Typed'
  BY <1>1, <1>2, <1>3, <1>4 DEF Typed
<1>6. Walk' /\ Lines' /\ Faithful'
  BY <1>1, <1>3, <1>4 DEF Walk, Lines, Faithful, NotReading
<1>7. Signed' /\ Verified'
  BY <1>1, <1>3, ResultsStay DEF env, results
<1> QED BY <1>5, <1>6, <1>7 DEF IInv

\* A block more: what has been read of a file that rests is how it begins, and
\* with the last block the file has its line and is past.
LEMMA ReadStep == ASSUME IInv, ReadBlock PROVE IInv'
<1> DEFINE file == reading.file
           got == reading.got
           k == Len(got) + 1
<1>1. /\ scene' = scene /\ disk' = disk /\ before' = before /\ writes' = writes /\ calm' = calm
      /\ unlisted' = unlisted /\ task' = task /\ turn' = turn /\ begun' = begun /\ dirs' = dirs
      /\ todo' = todo /\ signed' = signed /\ verdicts' = verdicts
  BY DEF ReadBlock, env, at, results
<1>2. begun /\ reading # NotReading
  BY DEF ReadBlock
<1>3. Typed /\ Walk /\ Lines /\ Faithful /\ Signed /\ Verified
  BY DEF IInv
<1>4. Here' = Here
  BY <1>1 DEF Here, Found
<1>5. /\ Here \in Place /\ file \in FilesOf[Here] \ todo /\ In[file] \notin dirs
      /\ disk[file] # NoFile /\ Len(got) < FileLength /\ file \in File /\ file # NoFile
  BY <1>2, <1>3, ConstantsTyped DEF Walk
<1>6. got \in Seq(Nat) /\ reading = [file |-> file, got |-> got]
  BY <1>3 DEF Typed
<1>7. disk[file] \in Bytes
  BY <1>3, <1>5, FileOnDisk
<1>8. k \in 1 .. FileLength /\ Len(got) \in Nat /\ FileLength \in Nat
  BY <1>5, <1>6, ConstantsTyped
<1>9. NextBlock = Append(got, disk[file][k])
  BY DEF NextBlock
<1>10. disk[file][k] \in Nat
  BY <1>7, <1>8 DEF Bytes
<1>11. /\ NextBlock \in Seq(Nat) /\ Len(NextBlock) = k /\ DOMAIN NextBlock = 1 .. k
       /\ \A i \in 1 .. Len(got) : NextBlock[i] = got[i]
       /\ NextBlock[k] = disk[file][k]
  BY <1>6, <1>8, <1>9, <1>10, AppendTyped
<1>12. ASSUME Quiet, unlisted = {} PROVE \A i \in 1 .. k : NextBlock[i] = disk[file][i]
  <2>1. \A i \in 1 .. Len(got) : got[i] = disk[file][i]
    BY <1>2, <1>3, <1>12 DEF Faithful
  <2> SUFFICES ASSUME NEW i \in 1 .. k PROVE NextBlock[i] = disk[file][i]
    OBVIOUS
  <2>2. i = k \/ i \in 1 .. Len(got)
    BY <1>8
  <2> QED BY <1>11, <2>1, <2>2
<1>13. Signed' /\ Verified'
  BY <1>1, <1>3, ResultsStay DEF env, results
<1>14. ASSUME Quiet, unlisted = {}
       PROVE  /\ ToSet(lines) = {LineOf(disk, Here, f) : f \in {g \in Passed : disk[g] # NoFile}}
              /\ task' = "verify" => Exists(Here)'
              /\ task' = "verify" \/ IsDir[Here'] => \A f \in todo' : disk'[f] # NoFile
  <2>1. /\ ToSet(lines) = {LineOf(disk, Here, g) : g \in {h \in Passed : disk[h] # NoFile}}
        /\ task = "verify" => Exists(Here)
        /\ task = "verify" \/ IsDir[Here] => \A g \in todo : disk[g] # NoFile
    BY <1>2, <1>3, <1>14 DEF Faithful
  <2>2. task' = "verify" => Exists(Here)'
    BY <1>1, <1>4, <2>1 DEF Exists
  <2> QED BY <1>1, <1>4, <2>1, <2>2
<1> HIDE DEF k
<1>15. CASE ~ IsWhole(NextBlock)
  <2>1. reading' = [reading EXCEPT !.got = NextBlock] /\ lines' = lines
    BY <1>15 DEF ReadBlock
  <2>2. reading'.file = file /\ reading'.got = NextBlock /\ reading' # NotReading
    BY <1>5, <1>6, <2>1 DEF NotReading
  <2>3. Len(NextBlock) < FileLength
    BY <1>8, <1>11, <1>15 DEF IsWhole
  <2>4. Passed' = Passed
    BY <1>1, <1>4, <2>2 DEF Passed
  <2>5. Typed'
    <3>1. reading' \in [file : File \cup {NoFile}, got : Seq(Nat)]
      BY <1>5, <1>6, <1>11, <2>1
    <3> QED BY <1>1, <1>3, <2>1, <3>1 DEF Typed
  <2>6. Walk'
    BY <1>1, <1>2, <1>3, <1>4, <1>5, <2>2, <2>3 DEF Walk
  <2>7. Lines'
    BY <1>1, <1>3, <1>4, <2>1, <2>4 DEF Lines
  <2>8. Faithful'
    <3> SUFFICES ASSUME Quiet, unlisted = {} PROVE Faithful'
      BY <1>1 DEF Faithful, Quiet
    <3>1. ToSet(lines') = {LineOf(disk', Here', f) : f \in {g \in Passed' : disk'[g] # NoFile}}
      BY <1>1, <1>4, <1>14, <2>1, <2>4
    <3>2. \A i \in 1 .. Len(reading'.got) : reading'.got[i] = disk'[reading'.file][i]
      BY <1>1, <1>11, <1>12, <2>2
    <3> QED BY <1>14, <3>1, <3>2 DEF Faithful
  <2> QED BY <1>13, <2>5, <2>6, <2>7, <2>8 DEF IInv
<1>16. CASE IsWhole(NextBlock)
  <2> DEFINE line == [digest |-> NextBlock, rel |-> RelOf(Here, file)]
             n == Len(lines)
  <2>1. reading' = NotReading /\ lines' = Append(lines, line)
    BY <1>16 DEF ReadBlock, RelOf
  <2>2. k = FileLength /\ NextBlock \in Bytes
    <3>1. k = FileLength
      BY <1>11, <1>16 DEF IsWhole
    <3> QED BY <1>11, <3>1 DEF Bytes
  <2>3. line \in Line
    BY <1>5, <2>2, ConstantsTyped DEF Line
  <2>4. lines \in Seq(Line) /\ n \in Nat
    BY <1>3 DEF Typed
  <2> HIDE DEF line, n
  <2>5. /\ lines' \in Seq(Line) /\ DOMAIN lines = 1 .. n /\ DOMAIN lines' = 1 .. n + 1
        /\ \A i \in 1 .. n : lines'[i] = lines[i]
        /\ lines'[n + 1] = line
    BY <2>1, <2>3, <2>4, AppendTyped DEF n
  <2>6. reading'.file = NoFile
    BY <2>1 DEF NotReading
  <2>7. Passed' = Passed \cup {file} /\ file \notin Passed
    <3>1. NoFile \notin FilesOf[Here]
      BY <1>5, ConstantsTyped
    <3> QED BY <1>1, <1>4, <1>5, <2>6, <3>1 DEF Passed
  <2>8. Typed'
    <3>1. reading' \in [file : File \cup {NoFile}, got : Seq(Nat)]
      <4>1. << >> \in Seq(Nat)
        OBVIOUS
      <4> QED BY <2>1, <4>1 DEF NotReading
    <3> QED BY <1>1, <1>3, <2>5, <3>1 DEF Typed
  <2>9. Walk'
    BY <1>1, <1>2, <1>3, <1>4, <2>1 DEF Walk, NotReading
  <2>10. line.rel = RelOf(Here, file)
    BY DEF line
  <2>11. Lines'
    <3>1. \A i \in 1 .. n : \E f \in Passed : lines[i].rel = RelOf(Here, f)
      BY <1>2, <1>3, <2>5 DEF Lines
    <3>2. \A i, j \in 1 .. n : lines[i].rel = lines[j].rel => i = j
      BY <1>2, <1>3, <2>5 DEF Lines
    <3>3. \A i \in 1 .. n : lines[i].rel # line.rel
      <4> SUFFICES ASSUME NEW i \in 1 .. n, lines[i].rel = line.rel PROVE FALSE
        OBVIOUS
      <4>1. PICK f \in Passed : lines[i].rel = RelOf(Here, f)
        BY <3>1
      <4>2. f \in FilesOf[Here] /\ f # file
        BY <2>7, <4>1 DEF Passed
      <4> QED BY <1>5, <2>10, <4>1, <4>2, ConstantsTyped
    <3>4. \A i \in 1 .. n + 1 : i \in 1 .. n \/ i = n + 1
      BY <2>4
    <3>5. \A i \in 1 .. n + 1 : \E f \in Passed' : lines'[i].rel = RelOf(Here, f)
      BY <2>5, <2>7, <2>10, <3>1, <3>4
    <3>6. \A i, j \in 1 .. n + 1 : lines'[i].rel = lines'[j].rel => i = j
      BY <2>5, <3>2, <3>3, <3>4
    <3> QED BY <1>4, <2>5, <3>5, <3>6 DEF Lines
  <2>12. Faithful'
    <3> SUFFICES ASSUME Quiet, unlisted = {} PROVE Faithful'
      BY <1>1 DEF Faithful, Quiet
    <3>1. NextBlock = disk[file]
      <4>1. \A i \in 1 .. FileLength : NextBlock[i] = disk[file][i]
        BY <1>12, <2>2
      <4> QED BY <1>7, <2>2, <4>1, SameBytes
    <3>2. line = LineOf(disk, Here, file)
      BY <3>1 DEF line, LineOf
    <3>3. ToSet(lines') = ToSet(lines) \cup {line}
      <4>1. ToSet(lines) = {lines[i] : i \in 1 .. n} /\ ToSet(lines') = {lines'[i] : i \in 1 .. n + 1}
        BY <2>5 DEF ToSet
      <4>2. \A i \in 1 .. n + 1 : i \in 1 .. n \/ i = n + 1
        BY <2>4
      <4>3. 1 .. n \subseteq 1 .. n + 1 /\ n + 1 \in 1 .. n + 1
        BY <2>4
      <4> QED BY <2>5, <4>1, <4>2, <4>3
    <3>4. {g \in Passed' : disk'[g] # NoFile} = {g \in Passed : disk[g] # NoFile} \cup {file}
      BY <1>1, <1>5, <2>7
    <3>5. ToSet(lines') = {LineOf(disk', Here', f) : f \in {g \in Passed' : disk'[g] # NoFile}}
      BY <1>1, <1>4, <1>14, <3>2, <3>3, <3>4
    <3> QED BY <1>14, <2>1, <3>5 DEF Faithful
  <2> QED BY <1>13, <2>8, <2>9, <2>11, <2>12 DEF IInv
<1> QED BY <1>15, <1>16

\* At the end of a walk every file is past.
LEMMA EndStep == ASSUME IInv, EndEntry PROVE IInv'
<1>1. /\ scene' = scene /\ disk' = disk /\ before' = before /\ writes' = writes /\ calm' = calm
      /\ unlisted' = unlisted /\ task' = task /\ dirs' = dirs /\ todo' = todo
      /\ reading' = reading /\ turn' = turn + 1 /\ begun' = FALSE /\ lines' = << >>
  BY DEF EndEntry, env
<1>2. begun /\ reading = NotReading /\ dirs = {} /\ todo = {}
  BY DEF EndEntry, Walking
<1>3. Typed /\ Walk /\ Lines /\ Faithful /\ Signed /\ Verified
  BY DEF IInv
<1>4. /\ task \in {"sign", "verify"} /\ turn \in 1 .. Len(scene.subject) /\ turn \in Nat
      /\ turn' \in 1 .. Len(scene.subject) + 1 /\ turn' - 1 = turn /\ (turn - 1) + 1 = turn
      /\ turn - 1 \in Nat /\ Here \in Place
  BY <1>1, <1>2, <1>3, SceneTyped DEF Walk, Typed
<1>5. Passed = FilesOf[Here]
  <2>1. NoFile \notin FilesOf[Here] /\ reading.file = NoFile
    BY <1>2, <1>4, ConstantsTyped DEF NotReading
  <2> QED BY <1>2, <2>1 DEF Passed
<1>6. Quiet /\ unlisted = {} => ToSet(lines) = Whole(disk, Here) /\ (task = "verify" => Exists(Here))
  BY <1>2, <1>3, <1>5 DEF Faithful, Whole, LineOf, RelOf
<1>7. /\ Digest(lines) = InOrder(ToSet(lines)) /\ ToSet(Digest(lines)) = ToSet(lines)
      /\ Digest(lines) \in Seq(Line)
  <2>1. lines \in Seq(Line)
    BY <1>3 DEF Typed
  <2>2. \A i, j \in DOMAIN lines : lines[i] = lines[j] => i = j
    BY <1>2, <1>3 DEF Lines
  <2> QED BY <2>1, <2>2, DigestSorts
<1>8. lines' \in Seq(Line) /\ begun' \in BOOLEAN
  <2>1. << >> \in Seq(Line)
    OBVIOUS
  <2> QED BY <1>1, <2>1
<1>9. Walk' /\ Lines' /\ Faithful'
  BY <1>1, <1>2 DEF Walk, Lines, Faithful, NotReading
<1>10. CASE task = "sign"
  <2> DEFINE D == Digest(lines)
  <2>1. signed' = Append(signed, D) /\ verdicts' = verdicts
    BY <1>10 DEF EndEntry
  <2>2. signed \in Seq(Seq(Line)) /\ Len(signed) = turn - 1
    BY <1>3, <1>10 DEF Typed
  <2>3. D = InOrder(ToSet(D)) /\ D \in Seq(Line) /\ ToSet(D) = ToSet(lines)
    BY <1>7
  <2> HIDE DEF D
  <2>4. /\ signed' \in Seq(Seq(Line)) /\ Len(signed') = turn
        /\ DOMAIN signed = 1 .. turn - 1 /\ DOMAIN signed' = 1 .. turn
        /\ \A i \in 1 .. turn - 1 : signed'[i] = signed[i]
        /\ signed'[turn] = D
    BY <1>4, <2>1, <2>2, <2>3, AppendTyped
  <2>5. \A i \in 1 .. turn : i = turn \/ i \in 1 .. turn - 1
    BY <1>4
  <2>6. Typed'
    BY <1>1, <1>3, <1>4, <1>8, <1>10, <2>1, <2>4 DEF Typed
  <2>7. Signed'
    <3>1. \A i \in 1 .. turn : signed'[i] = InOrder(ToSet(signed'[i]))
      BY <1>3, <2>3, <2>4, <2>5 DEF Signed
    <3>2. ASSUME writes = 0, unlisted = {}
          PROVE  \A i \in 1 .. turn : ToSet(signed'[i]) = Whole(before, scene.subject[i])
      <4>1. Quiet /\ disk = before /\ Here = scene.subject[turn]
        BY <1>3, <1>10, <3>2 DEF Typed, Quiet, Here
      <4>2. ToSet(D) = Whole(before, scene.subject[turn])
        BY <1>6, <2>3, <3>2, <4>1
      <4> QED BY <1>3, <2>4, <2>5, <3>2, <4>2 DEF Signed
    <3>3. \A p : Whole(before, p)' = Whole(before, p)
      BY <1>1 DEF Whole
    <3> QED BY <1>1, <2>4, <3>1, <3>2, <3>3 DEF Signed
  <2>8. Verified'
    <3>1. verdicts \in Seq(BOOLEAN) /\ Len(verdicts) = 0
      BY <1>3, <1>10 DEF Typed
    <3>2. DOMAIN verdicts = {}
      BY <3>1
    <3> QED BY <2>1, <3>2 DEF Verified
  <2> QED BY <1>9, <2>6, <2>7, <2>8 DEF IInv
<1>11. CASE task = "verify"
  <2> DEFINE ok == Digest(lines) = signed[turn]
  <2>1. verdicts' = Append(verdicts, ok) /\ signed' = signed
    BY <1>11 DEF EndEntry
  <2>2. ok <=> ToSet(lines) = ToSet(signed[turn])
    <3>1. signed \in Seq(Seq(Line)) /\ Len(signed) = Len(scene.subject)
      BY <1>3, <1>11 DEF Typed
    <3>2. turn \in DOMAIN signed
      BY <1>4, <3>1
    <3>3. signed[turn] = InOrder(ToSet(signed[turn]))
      BY <1>3, <3>2 DEF Signed
    <3> QED BY <1>7, <3>3
  <2>3. writes = 0 /\ unlisted = {} => ToSet(signed[turn]) = Whole(before, scene.subject[turn])
    <3>1. signed \in Seq(Seq(Line)) /\ Len(signed) = Len(scene.subject)
      BY <1>3, <1>11 DEF Typed
    <3>2. turn \in DOMAIN signed
      BY <1>4, <3>1
    <3> QED BY <1>3, <3>2 DEF Signed
  <2>4. ok \in BOOLEAN
    OBVIOUS
  <2> HIDE DEF ok
  <2>5. writes = 0 => calm
    BY <1>3, <1>11 DEF Typed
  <2>6. unlisted = {} =>
          /\ calm /\ ok => ToSet(signed[turn]) = Whole(disk, Here)
          /\ writes = 0 => (ok <=> Exists(Here)
                                     /\ Whole(disk, Here) = Whole(before, scene.subject[turn]))
    BY <1>6, <1>11, <2>2, <2>3, <2>5 DEF Quiet
  <2>7. verdicts' \in Seq(BOOLEAN) /\ Len(verdicts') = turn /\ Signed' /\ Verified'
    <3>1. UNCHANGED <<env, unlisted, signed>> /\ turn <= Len(scene.subject)
      BY <1>1, <1>4, <2>1 DEF env
    <3> QED BY <1>11, <2>1, <2>4, <2>6, <3>1, VerdictStep
  <2>8. Typed'
    BY <1>1, <1>3, <1>4, <1>8, <1>11, <2>1, <2>7 DEF Typed
  <2> QED BY <1>9, <2>7, <2>8 DEF IInv
<1> QED BY <1>4, <1>10, <1>11

-----------------------------------------------------------------------------
(* The theorems *)

LEMMA IInvNext == IInv /\ [Next]_vars => IInv'
<1> SUFFICES ASSUME IInv, [Next]_vars PROVE IInv'
  OBVIOUS
<1>1. CASE Next
  BY <1>1, ChangeStep, SkipStep, OpenStep, OpenFailsStep, ListStep, ListFailsStep, BeginStep,
     ReadStep, EncodingFailsStep, EndStep, SaveStep, VerifyStep, NotFoundStep, FinishStep DEF Next
<1>2. CASE UNCHANGED vars
  <2>1. /\ scene' = scene /\ disk' = disk /\ before' = before /\ writes' = writes /\ calm' = calm
        /\ unlisted' = unlisted /\ task' = task /\ turn' = turn /\ begun' = begun /\ dirs' = dirs
        /\ todo' = todo /\ reading' = reading /\ lines' = lines /\ signed' = signed
        /\ verdicts' = verdicts
    BY <1>2 DEF vars, env, at, results
  <2>2. Typed /\ Walk /\ Lines /\ Faithful /\ Signed /\ Verified
    BY DEF IInv
  <2>3. Here' = Here
    BY <2>1 DEF Here, Found
  <2>4. Passed' = Passed /\ (Quiet' <=> Quiet) /\ (Exists(Here)' <=> Exists(Here))
    BY <2>1, <2>3 DEF Passed, Quiet, Exists
  <2>5. Typed'
    BY <2>1, <2>2 DEF Typed
  <2>6. Walk' /\ Lines'
    BY <2>1, <2>2, <2>3, <2>4 DEF Walk, Lines, NotReading
  <2>7. Faithful'
    BY <2>1, <2>2, <2>3, <2>4 DEF Faithful, NotReading
  <2>8. Signed' /\ Verified'
    BY <2>1, <2>2, ResultsStay DEF env, results
  <2> QED BY <2>5, <2>6, <2>7, <2>8 DEF IInv
<1> QED BY <1>1, <1>2

\* The invariant holds however many files there are, however long they are, and
\* however often others change them.
THEOREM Invariance == Spec => []IInv
BY IInvInit, IInvNext, PTL DEF Spec

\* Type correctness: in particular no file has two lines in a digest.
THEOREM ContentTyped == Spec => []TypeOK
<1>1. IInv => TypeOK
  <2> SUFFICES ASSUME IInv PROVE TypeOK
    OBVIOUS
  <2>1. Typed /\ Walk /\ Lines
    BY DEF IInv
  <2>2. Len(scene.subject) \in Nat
    BY <2>1, SceneTyped
  <2>3. Len(signed) <= Len(scene.subject) /\ Len(verdicts) <= Len(scene.subject)
    BY <2>1, <2>2 DEF Typed
  <2>4. \A i, j \in DOMAIN lines : lines[i].rel = lines[j].rel => i = j
    <3>1. CASE begun
      BY <2>1, <3>1 DEF Lines
    <3>2. CASE ~ begun
      <4>1. lines = << >>
        BY <2>1, <3>2 DEF Walk
      <4> QED BY <4>1
    <3> QED BY <3>1, <3>2
  <2>5. /\ begun => Here \in Place /\ todo \subseteq FilesOf[Here]
        /\ reading # NotReading =>
             reading.file \in FilesOf[Here] /\ Len(reading.got) < FileLength
    BY <2>1 DEF Walk
  <2> QED BY <2>1, <2>3, <2>4, <2>5 DEF TypeOK, Typed, Disk
<1> QED BY <1>1, Invariance, PTL

\* An entry that verifies while the files rest has in it, file by file, what
\* the manifest was signed with.
THEOREM MatchesPin == Spec => []MatchPins
<1>1. IInv => MatchPins
  <2> SUFFICES ASSUME IInv, task = "done", calm, unlisted = {},
                      NEW i \in DOMAIN scene.subject, verdicts[i]
               PROVE  ToSet(signed[i]) = Whole(disk, Found(scene.subject[i]))
    BY DEF MatchPins, Pinned
  <2>1. i \in DOMAIN verdicts
    BY SceneTyped DEF IInv, Typed
  <2> QED BY <2>1 DEF IInv, Verified
<1> QED BY <1>1, Invariance, PTL

\* Undisturbed, an entry verifies exactly when what its name leads to is what
\* was signed.
THEOREM QuietlyVerified == Spec => []QuietVerdict
<1>1. IInv => QuietVerdict
  <2> SUFFICES ASSUME IInv, task = "done", writes = 0, unlisted = {},
                      NEW i \in DOMAIN scene.subject
               PROVE  LET p == scene.subject[i]
                      IN verdicts[i] <=>
                           Exists(Found(p)) /\ Whole(disk, Found(p)) = Whole(before, p)
    BY DEF QuietVerdict
  <2>1. i \in DOMAIN verdicts
    BY SceneTyped DEF IInv, Typed
  <2> QED BY <2>1 DEF IInv, Verified
<1> QED BY <1>1, Invariance, PTL
=============================================================================
