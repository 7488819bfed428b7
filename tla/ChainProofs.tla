---------------------------- MODULE ChainProofs ----------------------------
(***************************************************************************)
(* What the verdict of CheckChain is worth: roots, gaps and forks are      *)
(* counted one by one, and nothing walks the chain.  That there is no      *)
(* cycle and no island follows from refs being hashes: a body can name an  *)
(* earlier body only, which is what Acyclic says.                          *)
(***************************************************************************)
EXTENDS Chain, FiniteSetTheorems, WellFoundedInduction, TLAPS

\* The receipts R have refs in the set N of naturals, none of which is the
\* absent link, and a prev_hash that is one of these is of an earlier body.
Acyclic(R, N, ref, prev) ==
  /\ N \subseteq Nat /\ NoLink \notin N
  /\ \A i \in R : ref[i] \in N
  /\ \A i \in R : prev[i] \in N => prev[i] < ref[i]

\* s lists n receipts of R, each naming the one before it.
IsHistory(s, n, R, ref, prev) ==
  /\ s \in [1 .. n -> R]
  /\ \A a \in 1 .. n : prev[s[a]] = IF a = 1 THEN NoLink ELSE ref[s[a - 1]]

\* A history without repetitions.
IsPath(s, k, R, ref, prev) ==
  /\ IsHistory(s, k, R, ref, prev)
  /\ \A a, b \in 1 .. k : s[a] = s[b] => a = b

\* A set of naturals that is not empty has a least member.
LEMMA LeastNat ==
  ASSUME NEW T, T \subseteq Nat, T # {}
  PROVE  \E n \in T : \A m \in T : n <= m
<1>1. PICK n \in T : \A m \in T : ~ (<<m, n>> \in OpToRel(<, Nat))
  BY NatLessThanWellFounded, WFMin
<1>2. \A m \in T : ~ (m < n)
  BY <1>1 DEF OpToRel
<1> QED BY <1>2

\* A path that does not yet hold every receipt can be prolonged: by the
\* receipt of least ref outside it.
LEMMA PathGrows ==
  ASSUME NEW R, NEW N, NEW ref, NEW prev, Acyclic(R, N, ref, prev),
         OneRoot(R, prev), NoGap(R, ref, prev), NoFork(R, prev),
         IsFiniteSet(R), NEW k \in Nat, 1 <= k, k < Cardinality(R),
         NEW s, IsPath(s, k, R, ref, prev)
  PROVE  \E t : IsPath(t, k + 1, R, ref, prev)
<1> DEFINE On == {s[a] : a \in 1 .. k}
           Off == R \ On
           T == {ref[i] : i \in Off}
<1>1. s \in [1 .. k -> R] /\ On \subseteq R
  BY DEF IsPath, IsHistory
<1>2. Off # {}
  <2>1. s \in Surjection(1 .. k, On)
    BY <1>1 DEF Surjection
  <2>2. IsFiniteSet(1 .. k) /\ Cardinality(1 .. k) = k
    BY FS_Interval
  <2>3. Cardinality(On) <= k
    BY <2>1, <2>2, FS_Surjection
  <2>4. Cardinality(R) \in Nat
    BY FS_CardinalityType
  <2>5. On # R
    BY <2>3, <2>4
  <2> QED BY <1>1, <2>5
<1>3. PICK m \in Off : \A i \in Off : ref[m] <= ref[i]
  <2>1. T \subseteq Nat /\ T # {}
    BY <1>2 DEF Acyclic
  <2>2. PICK n \in T : \A x \in T : n <= x
    BY <2>1, LeastNat
  <2> QED BY <2>2
<1>4. m \in R /\ \A a \in 1 .. k : m # s[a]
  BY <1>3
<1>5. prev[m] # NoLink
  <2>1. s[1] \in R /\ prev[s[1]] = NoLink /\ s[1] # m
    BY <1>1, <1>4 DEF IsPath, IsHistory
  <2> QED BY <1>4, <2>1 DEF OneRoot
<1>6. PICK j \in R : ref[j] = prev[m]
  BY <1>4, <1>5 DEF NoGap
<1>7. ref[j] < ref[m] /\ ref[j] \in Nat /\ ref[m] \in Nat
  BY <1>4, <1>6 DEF Acyclic
<1>8. PICK a \in 1 .. k : j = s[a]
  <2>1. j \notin Off
    BY <1>3, <1>7
  <2> QED BY <1>6, <2>1
<1>9. a = k
  <2> SUFFICES ASSUME a # k PROVE FALSE
    OBVIOUS
  <2>1. a + 1 \in 1 .. k /\ a + 1 # 1 /\ (a + 1) - 1 = a
    OBVIOUS
  <2>2. prev[s[a + 1]] = ref[s[a]]
    BY <2>1 DEF IsPath, IsHistory
  <2>3. prev[s[a + 1]] = prev[m] /\ s[a + 1] \in R
    BY <1>1, <1>6, <1>8, <2>1, <2>2
  <2>4. s[a + 1] = m
    BY <1>4, <1>5, <2>3 DEF NoFork
  <2> QED BY <1>4, <2>1, <2>4
<1> DEFINE t == [b \in 1 .. k + 1 |-> IF b = k + 1 THEN m ELSE s[b]]
<1>10. t \in [1 .. k + 1 -> R]
  BY <1>1, <1>4
<1>11. ASSUME NEW b \in 1 .. k + 1
       PROVE  prev[t[b]] = IF b = 1 THEN NoLink ELSE ref[t[b - 1]]
  <2>1. CASE b = k + 1
    <3>1. b # 1 /\ b - 1 = k /\ k \in 1 .. k + 1 /\ k # k + 1
      BY <2>1
    <3> QED BY <1>6, <1>8, <1>9, <2>1, <3>1
  <2>2. CASE b \in 1 .. k
    <3>1. b # k + 1 /\ t[b] = s[b]
      BY <2>2
    <3>2. b # 1 => b - 1 \in 1 .. k + 1 /\ b - 1 # k + 1
      BY <2>2
    <3>3. prev[s[b]] = IF b = 1 THEN NoLink ELSE ref[s[b - 1]]
      BY <2>2 DEF IsPath, IsHistory
    <3> QED BY <3>1, <3>2, <3>3
  <2> QED BY <2>1, <2>2
<1>12. ASSUME NEW b \in 1 .. k + 1, NEW c \in 1 .. k + 1, t[b] = t[c]
       PROVE  b = c
  <2>1. b \in 1 .. k \/ b = k + 1
    OBVIOUS
  <2>2. c \in 1 .. k \/ c = k + 1
    OBVIOUS
  <2> QED BY <1>4, <1>12, <2>1, <2>2 DEF IsPath, IsHistory
<1>13. IsPath(t, k + 1, R, ref, prev)
  BY <1>10, <1>11, <1>12 DEF IsPath, IsHistory
<1> QED BY <1>13

\* Hence there is a path of every length up to the number of receipts.
LEMMA PathsExist ==
  ASSUME NEW R, NEW N, NEW ref, NEW prev, Acyclic(R, N, ref, prev),
         OneRoot(R, prev), NoGap(R, ref, prev), NoFork(R, prev),
         IsFiniteSet(R), NEW k \in 1 .. Cardinality(R)
  PROVE  \E s : IsPath(s, k, R, ref, prev)
<1> DEFINE T == {n \in 1 .. Cardinality(R) : ~ \E s : IsPath(s, n, R, ref, prev)}
<1> SUFFICES ASSUME T # {} PROVE FALSE
  OBVIOUS
<1>1. Cardinality(R) \in Nat
  BY FS_CardinalityType
<1>2. PICK n \in T : \A m \in T : n <= m
  <2>1. T \subseteq Nat
    BY <1>1
  <2> HIDE DEF T
  <2> QED BY <2>1, LeastNat
<1>3. CASE n = 1
  <2>1. PICK i \in R : prev[i] = NoLink
    BY DEF OneRoot
  <2> DEFINE s == [a \in 1 .. 1 |-> i]
  <2>2. IsPath(s, 1, R, ref, prev)
    BY <2>1 DEF IsPath, IsHistory
  <2> QED BY <1>2, <1>3, <2>2
<1>4. CASE n # 1
  <2>1. n - 1 \in Nat /\ 1 <= n - 1 /\ n - 1 < Cardinality(R) /\ (n - 1) + 1 = n
    BY <1>1, <1>2, <1>4
  <2>2. n - 1 \in 1 .. Cardinality(R) /\ n - 1 \notin T
    BY <1>1, <1>2, <2>1
  <2>3. PICK s : IsPath(s, n - 1, R, ref, prev)
    BY <2>2
  <2>4. \E t : IsPath(t, n, R, ref, prev)
    BY <2>1, <2>3, PathGrows
  <2> QED BY <1>2, <2>4
<1> QED BY <1>3, <1>4

\* Soundness: receipts that pass the check form one linear history.
THEOREM PassedIsLinear ==
  ASSUME NEW R, NEW N, NEW ref, NEW prev, Acyclic(R, N, ref, prev),
         IsFiniteSet(R), CheckChain(R, ref, prev)
  PROVE  Linear(R, ref, prev)
<1> DEFINE n == Cardinality(R)
<1>1. n \in Nat
  BY FS_CardinalityType
<1>2. CASE R = {}
  <2>1. n = 0
    BY <1>2, FS_EmptySet
  <2>2. << >> \in [1 .. n -> R]
    BY <1>2, <2>1
  <2> QED BY <1>2, <2>1, <2>2 DEF Linear
<1>3. CASE R # {}
  <2>1. OneRoot(R, prev) /\ NoGap(R, ref, prev) /\ NoFork(R, prev)
    BY <1>3 DEF CheckChain
  <2>2. n \in 1 .. n
    BY <1>1, <1>3, FS_EmptySet
  <2>3. PICK s : IsPath(s, n, R, ref, prev)
    BY <2>1, <2>2, PathsExist
  <2>4. s \in Injection(1 .. n, R)
    BY <2>3 DEF IsPath, IsHistory, Injection, IsInjective
  <2>5. IsFiniteSet(1 .. n) /\ Cardinality(1 .. n) = n
    BY <1>1, FS_Interval
  <2>6. s \in Surjection(1 .. n, R)
    BY <2>4, <2>5, FS_Injection
  <2>7. \A i \in R : \E k \in 1 .. n : s[k] = i
    BY <2>6 DEF Surjection
  <2> QED BY <2>3, <2>7 DEF Linear, IsPath, IsHistory
<1> QED BY <1>2, <1>3

\* Along a linear history refs only grow.
LEMMA RefsGrow ==
  ASSUME NEW R, NEW N, NEW ref, NEW prev, Acyclic(R, N, ref, prev),
         NEW n \in Nat, NEW s, IsHistory(s, n, R, ref, prev),
         NEW a \in 1 .. n, NEW b \in 1 .. n, a < b
  PROVE  ref[s[a]] < ref[s[b]]
<1> DEFINE T == {c \in a + 1 .. n : ~ (ref[s[a]] < ref[s[c]])}
<1> SUFFICES ASSUME T # {} PROVE FALSE
  OBVIOUS
<1>1. PICK c \in T : \A d \in T : c <= d
  <2>1. T \subseteq Nat
    OBVIOUS
  <2> HIDE DEF T
  <2> QED BY <2>1, LeastNat
<1>2. c \in 1 .. n /\ c # 1 /\ c - 1 \in 1 .. n
  BY <1>1
<1>3. prev[s[c]] = ref[s[c - 1]] /\ s[c] \in R /\ s[c - 1] \in R /\ s[a] \in R
  BY <1>2 DEF IsHistory
<1>4. ref[s[c - 1]] < ref[s[c]]
  BY <1>3 DEF Acyclic
<1>5. ref[s[a]] \in Nat /\ ref[s[c]] \in Nat /\ ref[s[c - 1]] \in Nat
  BY <1>3 DEF Acyclic
<1>6. CASE c - 1 = a
  BY <1>1, <1>4, <1>6
<1>7. CASE c - 1 # a
  <2>1. c - 1 \in a + 1 .. n /\ c - 1 \notin T
    BY <1>1, <1>7
  <2>2. ref[s[a]] < ref[s[c - 1]]
    BY <2>1
  <2> QED BY <1>1, <1>4, <1>5, <2>2
<1> QED BY <1>6, <1>7

\* Completeness: the check refuses no linear history.
THEOREM LinearPasses ==
  ASSUME NEW R, NEW N, NEW ref, NEW prev, Acyclic(R, N, ref, prev),
         IsFiniteSet(R), Linear(R, ref, prev)
  PROVE  CheckChain(R, ref, prev)
<1> SUFFICES ASSUME R # {}
             PROVE  OneRoot(R, prev) /\ NoGap(R, ref, prev) /\ NoFork(R, prev)
  BY DEF CheckChain
<1> DEFINE n == Cardinality(R)
<1>1. n \in Nat /\ n # 0
  BY FS_CardinalityType, FS_EmptySet
<1>2. PICK s \in [1 .. n -> R] :
        /\ \A i \in R : \E k \in 1 .. n : s[k] = i
        /\ \A k \in 1 .. n : prev[s[k]] = IF k = 1 THEN NoLink ELSE ref[s[k - 1]]
  BY DEF Linear
<1> HIDE DEF n
<1>3. ASSUME NEW k \in 1 .. n, k # 1
      PROVE  /\ prev[s[k]] = ref[s[k - 1]] /\ prev[s[k]] # NoLink
             /\ s[k - 1] \in R /\ k - 1 \in 1 .. n
  <2>1. k - 1 \in 1 .. n
    BY <1>1, <1>3
  <2> QED BY <1>2, <1>3, <2>1 DEF Acyclic
<1>4. 1 \in 1 .. n
  BY <1>1
<1>5. OneRoot(R, prev)
  <2>1. s[1] \in R /\ prev[s[1]] = NoLink
    BY <1>2, <1>4
  <2>2. ASSUME NEW j \in R, prev[j] = NoLink PROVE j = s[1]
    BY <1>2, <1>3, <2>2
  <2> QED BY <2>1, <2>2 DEF OneRoot
<1>6. NoGap(R, ref, prev)
  <2> SUFFICES ASSUME NEW i \in R, prev[i] # NoLink
               PROVE  \E j \in R : ref[j] = prev[i]
    BY DEF NoGap
  <2>1. PICK k \in 1 .. n : s[k] = i
    BY <1>2
  <2>2. k # 1
    BY <1>2, <2>1
  <2> QED BY <1>3, <2>1, <2>2
<1>7. NoFork(R, prev)
  <2> SUFFICES ASSUME NEW i \in R, NEW j \in R, prev[i] # NoLink, prev[i] = prev[j]
               PROVE  i = j
    BY DEF NoFork
  <2>1. PICK k \in 1 .. n : s[k] = i
    BY <1>2
  <2>2. PICK l \in 1 .. n : s[l] = j
    BY <1>2
  <2>3. k # 1 /\ l # 1
    BY <1>2, <2>1, <2>2
  <2>4. ref[s[k - 1]] = ref[s[l - 1]] /\ k - 1 \in 1 .. n /\ l - 1 \in 1 .. n
    BY <1>3, <2>1, <2>2, <2>3
  <2>5. ref[s[k - 1]] \in Nat /\ ref[s[l - 1]] \in Nat
    BY <1>3, <2>3 DEF Acyclic
  <2>6. ~ (k - 1 < l - 1) /\ ~ (l - 1 < k - 1)
    <3>1. IsHistory(s, n, R, ref, prev)
      BY <1>2 DEF IsHistory
    <3>2. ASSUME NEW a \in 1 .. n, NEW b \in 1 .. n, a < b
          PROVE  ref[s[a]] < ref[s[b]]
      BY <1>1, <3>1, <3>2, RefsGrow
    <3> QED BY <2>4, <2>5, <3>2
  <2>7. k = l
    BY <1>1, <2>4, <2>6
  <2> QED BY <2>1, <2>2, <2>7
<1> QED BY <1>5, <1>6, <1>7
=============================================================================
