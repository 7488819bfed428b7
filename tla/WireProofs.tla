----------------------------- MODULE WireProofs -----------------------------
(***************************************************************************)
(* Theorems about what a client makes of the bytes of a Roughtime answer:  *)
(* the frame around a packet (Wire) and the climb along PATH to the signed *)
(* root (Merkle).                                                          *)
(***************************************************************************)
EXTENDS Wire, Merkle, SequenceTheorems, FiniteSetTheorems, WellFoundedInduction, TLAPS

-----------------------------------------------------------------------------
(* Packets *)

Packets == [words : Seq(Nat), odd : 0 .. 3]

Typed == packet \in Packets

LEMMA PacketsTyped == WireSpec => []Typed
<1>1. WireInit => Typed
  <2> SUFFICES ASSUME WireInit PROVE Typed
    OBVIOUS
  <2>1. packet.words = << >> /\ packet.odd \in 0 .. 3
        /\ packet = [words |-> packet.words, odd |-> packet.odd]
    BY DEF WireInit
  <2>2. << >> \in Seq(Nat)
    OBVIOUS
  <2> QED BY <2>1, <2>2 DEF Typed, Packets
<1>2. Typed /\ [Longer]_packet => Typed'
  <2> SUFFICES ASSUME Typed, [Longer]_packet PROVE Typed'
    OBVIOUS
  <2>1. CASE packet' = packet
    BY <2>1 DEF Typed
  <2>2. CASE Longer
    <3>1. PICK w \in Word : packet' = [packet EXCEPT !.words = Append(@, w)]
      BY <2>2 DEF Longer
    <3>2. packet.words \in Seq(Nat) /\ w \in Nat
      BY WireAssumption DEF Typed, Packets
    <3>3. Append(packet.words, w) \in Seq(Nat)
      BY <3>2
    <3> QED BY <3>1, <3>3 DEF Typed, Packets
  <2> QED BY <2>1, <2>2
<1> QED BY <1>1, <1>2, PTL DEF WireSpec

\* c is s followed by t
Joined(c, s, t) ==
  /\ c \in Seq(Nat) /\ Len(c) = Len(s) + Len(t)
  /\ \A i \in 1 .. Len(s) : c[i] = s[i]
  /\ \A i \in 1 .. Len(t) : c[Len(s) + i] = t[i]

LEMMA ConcatJoins == ASSUME NEW s \in Seq(Nat), NEW t \in Seq(Nat) PROVE Joined(s \o t, s, t)
<1> DEFINE c == s \o t
<1>1. Len(s) \in Nat /\ Len(t) \in Nat
  BY LenProperties
<1>2. /\ c \in Seq(Nat) /\ Len(c) = Len(s) + Len(t)
      /\ \A i \in 1 .. Len(s) + Len(t) : c[i] = IF i <= Len(s) THEN s[i] ELSE t[i - Len(s)]
  BY ConcatProperties
<1> HIDE DEF c
<1>3. \A i \in 1 .. Len(s) : c[i] = s[i]
  BY <1>1, <1>2
<1>4. \A i \in 1 .. Len(t) : c[Len(s) + i] = t[i]
  <2> TAKE i \in 1 .. Len(t)
  <2>1. Len(s) + i \in 1 .. Len(s) + Len(t) /\ ~ (Len(s) + i <= Len(s)) /\ (Len(s) + i) - Len(s) = i
    BY <1>1
  <2> QED BY <1>2, <2>1
<1>5. Joined(c, s, t)
  BY <1>2, <1>3, <1>4 DEF Joined
<1> QED BY <1>5 DEF c

\* What lies in c from the place after `from' is the sequence s.
LEMMA SliceIs ==
  ASSUME NEW c \in Seq(Nat), NEW s \in Seq(Nat), NEW from \in Nat,
         from + Len(s) <= Len(c), \A i \in 1 .. Len(s) : c[from + i] = s[i]
  PROVE  SubSeq(c, from + 1, from + Len(s)) = s
<1> DEFINE t == SubSeq(c, from + 1, from + Len(s))
           m == from + 1
           n == from + Len(s)
<1>1. Len(s) \in Nat /\ Len(c) \in Nat
  BY LenProperties
<1>2. m \in Int /\ n \in Int /\ n - m + 1 = Len(s) /\ (IF m <= n THEN n - m + 1 ELSE 0) = Len(s)
  BY <1>1
<1>3. \A i \in m .. n : c[i] \in Nat
  <2> TAKE i \in m .. n
  <2>1. i \in 1 .. Len(c)
    BY <1>1
  <2> QED BY <2>1, ElementOfSeq
<1>4. \A i \in 1 .. Len(s) : m + i - 1 = from + i
  BY <1>1
<1> HIDE DEF m, n
<1>5. /\ SubSeq(c, m, n) \in Seq(Nat) /\ Len(SubSeq(c, m, n)) = Len(s)
      /\ \A i \in 1 .. Len(s) : SubSeq(c, m, n)[i] = c[m + i - 1]
  BY <1>2, <1>3, SubSeqProperties
<1>6. \A i \in 1 .. Len(s) : SubSeq(c, m, n)[i] = s[i]
  BY <1>4, <1>5
<1>7. SubSeq(c, m, n) = s
  BY <1>5, <1>6, SeqEqual
<1> QED BY <1>7 DEF m, n

\* c begins with the two words m, one word after them and s, and r words follow.
FramedIn(c, m, word, s, r) ==
  /\ Len(c) = 3 + Len(s) + r
  /\ SubSeq(c, 1, 2) = m /\ c[3] = word /\ SubSeq(c, 4, 3 + Len(s)) = s

LEMMA FrameParts ==
  ASSUME NEW m \in Seq(Nat), Len(m) = 2, NEW one \in Seq(Nat), Len(one) = 1,
         NEW s \in Seq(Nat), NEW r \in Seq(Nat), NEW x, NEW y, NEW c,
         Joined(x, m, one), Joined(y, x, s), Joined(c, y, r)
  PROVE  FramedIn(c, m, one[1], s, Len(r))
<1>1. Len(s) \in Nat /\ Len(r) \in Nat
  BY LenProperties
<1>2. c \in Seq(Nat) /\ Len(x) = 3 /\ Len(y) = 3 + Len(s) /\ Len(c) = 3 + Len(s) + Len(r)
  BY <1>1 DEF Joined
<1>3. \A i \in 1 .. 3 + Len(s) : c[i] = y[i]
  <2>1. \A i \in 1 .. Len(y) : c[i] = y[i]
    BY Zenon DEF Joined
  <2> QED BY <1>2, <2>1
<1>4. \A i \in 1 .. 3 : c[i] = x[i]
  <2>1. \A i \in 1 .. Len(x) : y[i] = x[i]
    BY Zenon DEF Joined
  <2>2. \A i \in 1 .. 3 : i \in 1 .. 3 + Len(s)
    BY <1>1
  <2> QED BY <1>2, <1>3, <2>1, <2>2
<1>5. \A i \in 1 .. 2 : c[0 + i] = m[i]
  <2>1. \A i \in 1 .. Len(m) : x[i] = m[i]
    BY Zenon DEF Joined
  <2>2. \A i \in 1 .. 2 : i \in 1 .. 3 /\ 0 + i = i
    OBVIOUS
  <2> QED BY <1>4, <2>1, <2>2
<1>6. c[3] = one[1]
  <2>1. \A i \in 1 .. Len(one) : x[Len(m) + i] = one[i]
    BY Zenon DEF Joined
  <2>2. 2 + 1 = 3 /\ 3 \in 1 .. 3 /\ 1 \in 1 .. 1
    OBVIOUS
  <2> QED BY <1>4, <2>1, <2>2
<1>7. \A i \in 1 .. Len(s) : c[3 + i] = s[i]
  <2>1. \A i \in 1 .. Len(s) : y[Len(x) + i] = s[i]
    BY Zenon DEF Joined
  <2>2. \A i \in 1 .. Len(s) : 3 + i \in 1 .. 3 + Len(s)
    BY <1>1
  <2> QED BY <1>2, <1>3, <2>1, <2>2
<1>8. SubSeq(c, 1, 2) = m
  <2>1. SubSeq(c, 0 + 1, 0 + Len(m)) = m
    <3>1. 0 + Len(m) <= Len(c) /\ \A i \in 1 .. Len(m) : c[0 + i] = m[i]
      BY <1>1, <1>2, <1>5
    <3> QED BY <1>2, <3>1, SliceIs
  <2>2. 0 + 1 = 1 /\ 0 + Len(m) = 2
    OBVIOUS
  <2> QED BY <2>1, <2>2
<1>9. SubSeq(c, 4, 3 + Len(s)) = s
  <2>1. 3 + Len(s) <= Len(c) /\ 3 + 1 = 4
    BY <1>1, <1>2
  <2>2. SubSeq(c, 3 + 1, 3 + Len(s)) = s
    BY <1>2, <1>7, <2>1, SliceIs
  <2> QED BY <2>1, <2>2
<1> QED BY <1>2, <1>6, <1>8, <1>9 DEF FramedIn

LEMMA WholeWords ==
  ASSUME NEW n \in Nat, NEW odd \in 0 .. 3
  PROVE  (4 * n + odd) \div 4 = n /\ (4 * n + odd) % 4 = odd
OBVIOUS

LEMMA LesserOfTwo ==
  ASSUME NEW a \in Int, NEW b \in Int, a <= b PROVE Min({a, b}) = a
<1>1. \A x \in {a, b} : (\A y \in {a, b} : x <= y) <=> x = a
  OBVIOUS
<1>2. Min({a, b}) = CHOOSE x \in {a, b} : \A y \in {a, b} : x <= y
  BY DEF Min
<1> QED BY <1>1, <1>2

LEMMA OneMoreWord ==
  ASSUME NEW f, NEW odd, NEW w
  PROVE  [[words |-> f, odd |-> odd] EXCEPT !.words = Append(@, w)] = [words |-> Append(f, w), odd |-> odd]
OBVIOUS

\* A word after a frame, or none, is not in what the frame holds.
LEMMA StripFramed ==
  ASSUME NEW d \in Packets, NEW rest \in Seq(Nat), NEW e,
         e = [words |-> Framed(d).words \o rest, odd |-> d.odd]
  PROVE  Strip(e) = d
<1>1. /\ d.words \in Seq(Nat) /\ Len(d.words) \in Nat /\ d.odd \in 0 .. 3 /\ Len(rest) \in Nat
      /\ d = [words |-> d.words, odd |-> d.odd]
  BY DEF Packets
<1>2. PacketBytes(d) = 4 * Len(d.words) + d.odd /\ PacketBytes(d) \in Nat
  BY <1>1 DEF PacketBytes
<1>3. e.words = (Magic \o <<PacketBytes(d)>> \o d.words) \o rest /\ e.odd = d.odd
  BY DEF Framed
<1>4. /\ Len(e.words) = 3 + Len(d.words) + Len(rest)
      /\ SubSeq(e.words, 1, 2) = Magic /\ e.words[3] = PacketBytes(d)
      /\ SubSeq(e.words, 4, 3 + Len(d.words)) = d.words
  <2> DEFINE one == <<PacketBytes(d)>>
             x == Magic \o one
             y == x \o d.words
  <2>1. Magic \in Seq(Nat) /\ Len(Magic) = 2
    BY WireAssumption
  <2>2. one \in Seq(Nat) /\ Len(one) = 1 /\ one[1] = PacketBytes(d)
    BY <1>2
  <2>3. e.words = y \o rest
    BY <1>3
  <2> HIDE DEF one
  <2>4. Joined(x, Magic, one) /\ x \in Seq(Nat)
    BY <2>1, <2>2, ConcatJoins DEF Joined
  <2> HIDE DEF x
  <2>5. Joined(y, x, d.words) /\ y \in Seq(Nat)
    BY <1>1, <2>4, ConcatJoins DEF Joined
  <2> HIDE DEF y
  <2>6. Joined(e.words, y, rest)
    BY <2>3, <2>5, ConcatJoins
  <2> DEFINE c == e.words
             s == d.words
  <2>7. Joined(y, x, s) /\ Joined(c, y, rest) /\ s \in Seq(Nat) /\ rest \in Seq(Nat)
    BY <1>1, <2>5, <2>6
  <2> HIDE DEF c, s
  <2>8. FramedIn(c, Magic, one[1], s, Len(rest))
    BY <2>1, <2>2, <2>4, <2>7, FrameParts
  <2> QED BY <2>2, <2>8 DEF c, s, FramedIn
<1>5. PacketBytes(e) = 4 * Len(e.words) + d.odd
  BY <1>3 DEF PacketBytes
<1>6. PacketBytes(e) - 12 \in Int /\ PacketBytes(d) <= PacketBytes(e) - 12
  <2>1. PacketBytes(e) = 4 * (3 + Len(d.words) + Len(rest)) + d.odd
    BY <1>4, <1>5
  <2> QED BY <1>1, <1>2, <2>1
<1>7. Min({e.words[3], PacketBytes(e) - 12}) = PacketBytes(d)
  <2>1. \A a, b \in Int : a <= b => Min({a, b}) = a
    BY LesserOfTwo
  <2>2. PacketBytes(d) \in Int
    BY <1>2
  <2>3. Min({PacketBytes(d), PacketBytes(e) - 12}) = PacketBytes(d)
    BY <1>6, <2>1, <2>2
  <2> QED BY <1>4, <2>3
<1>8. PacketBytes(d) \div 4 = Len(d.words) /\ PacketBytes(d) % 4 = d.odd
  BY <1>1, <1>2, WholeWords
<1>9. Strip(e) = [words |-> SubSeq(e.words, 4, 3 + PacketBytes(d) \div 4),
                  odd |-> PacketBytes(d) % 4]
  BY <1>4, <1>7 DEF Strip
<1> QED BY <1>1, <1>4, <1>8, <1>9

\* A frame is taken off whatever it holds, and nothing else is taken for one.
THEOREM Framing == WireSpec => []FramingTransparent
<1>1. Typed => FramingTransparent
  <2> SUFFICES ASSUME packet \in Packets, Accepts(packet)
               PROVE  /\ Strip(packet) = packet
                      /\ Strip(Framed(packet)) = packet
                      /\ \A w \in Word :
                           Strip([Framed(packet) EXCEPT !.words = Append(@, w)]) = packet
    BY DEF FramingTransparent, Typed
  <2>1. Strip(packet) = packet
    <3>1. packet.words[1] <= MaxTags /\ packet.words[1] \in Nat /\ packet.words \in Seq(Nat)
          /\ Len(packet.words) \in Nat
      BY WireAssumption DEF Accepts, IsHeader, Packets
    <3>2. SubSeq(packet.words, 1, 2)[1] = packet.words[1]
      BY <3>1
    <3>3. SubSeq(packet.words, 1, 2) # Magic
      BY <3>1, <3>2, WireAssumption
    <3> QED BY <3>3 DEF Strip
  <2> DEFINE f == Magic \o <<PacketBytes(packet)>> \o packet.words
  <2>2. Framed(packet) = [words |-> f, odd |-> packet.odd]
    BY DEF Framed
  <2>3. f \in Seq(Nat)
    <3>1. packet.words \in Seq(Nat) /\ PacketBytes(packet) \in Nat
      BY DEF PacketBytes, Packets
    <3>2. Magic \o <<PacketBytes(packet)>> \in Seq(Nat)
      BY <3>1, WireAssumption
    <3> QED BY <3>1, <3>2
  <2> HIDE DEF f
  <2>4. Strip(Framed(packet)) = packet
    <3>1. << >> \in Seq(Nat) /\ f = f \o << >>
      BY <2>3
    <3>2. Framed(packet) = [words |-> Framed(packet).words \o << >>, odd |-> packet.odd]
      BY <2>2, <3>1
    <3> QED BY <3>1, <3>2, StripFramed
  <2>5. ASSUME NEW w \in Word
        PROVE  Strip([Framed(packet) EXCEPT !.words = Append(@, w)]) = packet
    <3>1. w \in Nat /\ <<w>> \in Seq(Nat) /\ Append(f, w) = f \o <<w>>
      BY <2>3, WireAssumption
    <3>2. [Framed(packet) EXCEPT !.words = Append(@, w)]
            = [words |-> Append(f, w), odd |-> packet.odd]
      BY <2>2, OneMoreWord
    <3>3. [Framed(packet) EXCEPT !.words = Append(@, w)]
            = [words |-> Framed(packet).words \o <<w>>, odd |-> packet.odd]
      BY <2>2, <3>1, <3>2
    <3> QED BY <3>1, <3>3, StripFramed
  <2> QED BY <2>1, <2>4, <2>5
<1> QED BY PacketsTyped, <1>1, PTL

-----------------------------------------------------------------------------
(* Messages: what parse_message accepts is built again from its fields. *)

LEMMA LeastNat ==
  ASSUME NEW T, T \subseteq Nat, T # {}
  PROVE  \E n \in T : \A m \in T : n <= m
<1>1. PICK n \in T : \A m \in T : ~ (<<m, n>> \in OpToRel(<, Nat))
  BY NatLessThanWellFounded, WFMin
<1>2. \A m \in T : ~ (m < n)
  BY <1>1 DEF OpToRel
<1> QED BY <1>2

\* The g[i] begin with the first of the sequences in s and grow by one each.
Gathers(g, s, n) == g[1] = s[1] /\ \A i \in 2 .. n : g[i] = g[i - 1] \o s[i]

LEMMA Flattened ==
  ASSUME NEW s, NEW n \in Nat \ {0}, Len(s) = n, NEW g, Gathers(g, s, n)
  PROVE  FlattenSeq(s) = g[n]
<1> DEFINE Grows(h) == h = [i \in 1 .. n |-> IF i = 1 THEN s[i] ELSE h[i - 1] \o s[i]]
           f == CHOOSE h : Grows(h)
           k == [i \in 1 .. n |-> g[i]]
<1>0. g[1] = s[1] /\ \A i \in 2 .. n : g[i] = g[i - 1] \o s[i]
  BY DEF Gathers
<1>1. Grows(k)
  <2>1. ASSUME NEW i \in 1 .. n
        PROVE  k[i] = IF i = 1 THEN s[i] ELSE k[i - 1] \o s[i]
    <3>1. CASE i = 1
      BY <1>0, <3>1
    <3>2. CASE i # 1
      <4>1. i \in 2 .. n /\ i - 1 \in 1 .. n
        BY <3>2
      <4> QED BY <1>0, <3>2, <4>1
    <3> QED BY <3>1, <3>2
  <2>2. k = [i \in 1 .. n |-> k[i]]
    OBVIOUS
  <2> HIDE DEF k
  <2>3. k = [i \in 1 .. n |-> IF i = 1 THEN s[i] ELSE k[i - 1] \o s[i]]
    BY <2>1, <2>2
  <2> QED BY <2>3
<1>2. Grows(f)
  BY <1>1
<1>3. FlattenSeq(s) = f[n]
  BY DEF FlattenSeq
<1>4. f[1] = s[1] /\ \A i \in 2 .. n : f[i] = f[i - 1] \o s[i]
  <2>1. \A i \in 1 .. n : f[i] = IF i = 1 THEN s[i] ELSE f[i - 1] \o s[i]
    BY <1>2
  <2>2. 1 \in 1 .. n /\ \A i \in 2 .. n : i \in 1 .. n /\ i # 1
    OBVIOUS
  <2> HIDE DEF f, Grows
  <2> QED BY <2>1, <2>2
<1> HIDE DEF f, k
<1>5. f[n] = g[n]
  <2> SUFFICES ASSUME f[n] # g[n] PROVE FALSE
    OBVIOUS
  <2> DEFINE differ == {i \in 1 .. n : f[i] # g[i]}
  <2>1. differ \subseteq Nat /\ n \in differ
    OBVIOUS
  <2>2. PICK i \in differ : \A j \in differ : i <= j
    BY <2>1, LeastNat
  <2>3. i \in 2 .. n
    BY <1>0, <1>4, <2>2
  <2>4. i - 1 \in 1 .. n /\ ~ (i <= i - 1)
    BY <2>3
  <2>5. f[i - 1] = g[i - 1]
    BY <2>2, <2>4
  <2>6. f[i] = g[i]
    BY <1>0, <1>4, <2>3, <2>5
  <2> QED BY <2>2, <2>6
<1> QED BY <1>3, <1>5

\* The n values are the slices of w between one place in `at' and the next.
Slices(values, w, at, n) ==
  /\ at \in [1 .. n + 1 -> 0 .. Len(w)] /\ \A i \in 1 .. n : at[i] <= at[i + 1]
  /\ values \in Seq(Seq(Nat)) /\ Len(values) = n
  /\ \A i \in 1 .. n : values[i] = SubSeq(w, at[i] + 1, at[i + 1])

LEMMA Nondecreasing ==
  ASSUME NEW m \in Nat, NEW f, \A i \in 1 .. m : f[i] \in Int,
         \A i \in 1 .. m : i < m => f[i] <= f[i + 1],
         NEW i \in 1 .. m, NEW j \in 1 .. m, i <= j
  PROVE  f[i] <= f[j]
<1> SUFFICES ASSUME ~ (f[i] <= f[j]) PROVE FALSE
  OBVIOUS
<1> DEFINE T == {k \in i .. m : ~ (f[i] <= f[k])}
<1>1. PICK k \in T : \A c \in T : k <= c
  <2>1. T \subseteq Nat /\ j \in T
    OBVIOUS
  <2> QED BY <2>1, LeastNat
<1>2. f[i] \in Int /\ k \in 1 .. m /\ k # i
  BY <1>1
<1>3. k - 1 \in i .. m /\ k - 1 \in 1 .. m /\ (k - 1) + 1 = k /\ k - 1 < m /\ ~ (k <= k - 1)
  BY <1>1, <1>2
<1>4. f[i] <= f[k - 1] /\ f[k - 1] <= f[(k - 1) + 1]
  BY <1>1, <1>3
<1>5. f[k] \in Int /\ f[k - 1] \in Int /\ f[k - 1] <= f[k]
  BY <1>2, <1>3, <1>4
<1> QED BY <1>1, <1>2, <1>4, <1>5

\* The places are in order.
LEMMA SlicesOrdered ==
  ASSUME NEW w \in Seq(Nat), NEW n \in Nat \ {0}, NEW at, NEW values, Slices(values, w, at, n),
         NEW k \in 1 .. n + 1
  PROVE  at[1] <= at[k]
<1>1. Len(w) \in Nat
  BY LenProperties
<1>2. \A i \in 1 .. n + 1 : at[i] \in Int
  BY <1>1 DEF Slices
<1>3. \A i \in 1 .. n + 1 : i < n + 1 => at[i] <= at[i + 1]
  <2>1. \A i \in 1 .. n + 1 : i < n + 1 => i \in 1 .. n
    OBVIOUS
  <2> QED BY <2>1 DEF Slices
<1>4. n + 1 \in Nat /\ 1 \in 1 .. n + 1 /\ 1 <= k
  OBVIOUS
<1> QED BY <1>2, <1>3, <1>4, Nondecreasing

\* Slices of a sequence that lie one after another make up one slice.
LEMMA FlattenSlices ==
  ASSUME NEW w \in Seq(Nat), NEW n \in Nat \ {0}, NEW at, NEW values, Slices(values, w, at, n),
         NEW k \in 1 .. n
  PROVE  FlattenSeq(SubSeq(values, 1, k)) = SubSeq(w, at[1] + 1, at[k + 1])
<1> DEFINE s == SubSeq(values, 1, k)
           g == [i \in 1 .. k |-> SubSeq(w, at[1] + 1, at[i + 1])]
<1>1. k \in Nat \ {0} /\ k <= n
  OBVIOUS
<1>2. Len(s) = k /\ \A i \in 1 .. k : s[i] = values[i]
  <2>1. values \in Seq(Seq(Nat)) /\ Len(values) = n
    BY DEF Slices
  <2>2. \A i \in 1 .. k : values[i] \in Seq(Nat)
    <3>1. \A i \in 1 .. k : i \in 1 .. Len(values)
      BY <1>1, <2>1
    <3> QED BY <2>1, <3>1, ElementOfSeq
  <2>3. Len(s) = (IF 1 <= k THEN k - 1 + 1 ELSE 0) /\ \A i \in 1 .. k - 1 + 1 : s[i] = values[1 + i - 1]
    BY <1>1, <2>2, SubSeqProperties
  <2> HIDE DEF s
  <2> QED BY <1>1, <2>3
<1> HIDE DEF s
<1>3. \A i \in 1 .. k : s[i] = SubSeq(w, at[i] + 1, at[i + 1])
  <2>1. \A i \in 1 .. k : i \in 1 .. n
    BY <1>1
  <2> QED BY <1>2, <2>1 DEF Slices
<1>4. g[1] = s[1]
  <2>1. 1 \in 1 .. k
    BY <1>1
  <2> QED BY <1>3, <2>1
<1>5. ASSUME NEW i \in 2 .. k PROVE g[i] = g[i - 1] \o s[i]
  <2> DEFINE a == at[1] + 1
             b == at[i]
             c == at[i + 1]
  <2>1. i \in 1 .. k /\ i \in 1 .. n /\ i \in 1 .. n + 1 /\ i - 1 \in 1 .. k /\ (i - 1) + 1 = i
        /\ i + 1 \in 1 .. n + 1 /\ 1 \in 1 .. n + 1
    BY <1>1
  <2>2. at[1] \in 0 .. Len(w) /\ b \in 0 .. Len(w) /\ c \in 0 .. Len(w) /\ at[1] <= b /\ b <= c
    BY <2>1, SlicesOrdered DEF Slices
  <2>3. g[i] = SubSeq(w, a, c) /\ g[i - 1] = SubSeq(w, a, b) /\ s[i] = SubSeq(w, b + 1, c)
    BY <1>3, <2>1
  <2> HIDE DEF b, c, g
  <2>4. a \in 1 .. Len(w) + 1 /\ b \in a - 1 .. Len(w) /\ c \in b .. Len(w)
    <3>1. Len(w) \in Nat
      BY LenProperties
    <3> QED BY <2>2, <3>1
  <2> HIDE DEF a
  <2>5. SubSeq(w, a, b) \o SubSeq(w, b + 1, c) = SubSeq(w, a, c)
    BY <2>4, ConcatAdjacentSubSeq
  <2> QED BY <2>3, <2>5
<1>6. g[k] = SubSeq(w, at[1] + 1, at[k + 1])
  <2>1. k \in 1 .. k
    BY <1>1
  <2> QED BY <2>1
<1> HIDE DEF g
<1>7. FlattenSeq(s) = g[k]
  <2>1. Gathers(g, s, k)
    BY <1>4, <1>5 DEF Gathers
  <2> QED BY <1>1, <1>2, <2>1, Flattened
<1> QED BY <1>6, <1>7 DEF s

\* The members of S in a row, each less than the next
Ascending(s, S, n) ==
  /\ s \in [1 .. n -> S] /\ S = {s[i] : i \in 1 .. n}
  /\ \A i \in 1 .. n : i < n => s[i] < s[i + 1]

LEMMA AscendingAll ==
  ASSUME NEW S, S \subseteq Nat, NEW n \in Nat, NEW s, Ascending(s, S, n),
         NEW i \in 1 .. n, NEW j \in 1 .. n, i < j
  PROVE  s[i] < s[j]
<1>1. \A k \in 1 .. n : s[k] \in Nat /\ (k < n => s[k] < s[k + 1])
  BY DEF Ascending
<1> SUFFICES ASSUME ~ (s[i] < s[j]) PROVE FALSE
  OBVIOUS
<1> DEFINE T == {k \in i + 1 .. n : ~ (s[i] < s[k])}
<1>2. PICK k \in T : \A m \in T : k <= m
  <2>1. T \subseteq Nat /\ j \in T
    OBVIOUS
  <2> QED BY <2>1, LeastNat
<1>3. k \in 1 .. n /\ k - 1 \in 1 .. n /\ (k - 1) + 1 = k /\ k - 1 < n /\ ~ (k <= k - 1)
      /\ (k - 1 = i \/ k - 1 \in i + 1 .. n)
  BY <1>2
<1>4. s[k - 1] < s[k]
  BY <1>1, <1>3
<1>5. CASE k - 1 = i
  BY <1>2, <1>4, <1>5
<1>6. CASE k - 1 \in i + 1 .. n
  <2>1. s[i] < s[k - 1]
    BY <1>2, <1>3, <1>6
  <2>2. s[i] \in Nat /\ s[k - 1] \in Nat /\ s[k] \in Nat
    BY <1>1, <1>3
  <2> QED BY <1>2, <1>4, <2>1, <2>2
<1> QED BY <1>3, <1>5, <1>6

\* Two such rows of one set are the same.
LEMMA AscendingUnique ==
  ASSUME NEW S, S \subseteq Nat, NEW n \in Nat, NEW s, Ascending(s, S, n), NEW t, Ascending(t, S, n)
  PROVE  s = t
<1>1. /\ s \in [1 .. n -> S] /\ \A x \in S : \E i \in 1 .. n : s[i] = x
      /\ t \in [1 .. n -> S] /\ \A x \in S : \E i \in 1 .. n : t[i] = x
  BY DEF Ascending
<1>2. \A i \in 1 .. n : s[i] \in Nat /\ t[i] \in Nat /\ s[i] \in S /\ t[i] \in S
  BY <1>1
<1>3. /\ \A i, j \in 1 .. n : i < j => s[i] < s[j]
      /\ \A i, j \in 1 .. n : i < j => t[i] < t[j]
  BY AscendingAll
<1>4. \A i \in 1 .. n : s[i] = t[i]
  <2> SUFFICES ASSUME NEW c \in 1 .. n, s[c] # t[c] PROVE FALSE
    OBVIOUS
  <2> DEFINE T == {k \in 1 .. n : s[k] # t[k]}
  <2>1. PICK k \in T : \A m \in T : k <= m
    <3>1. T \subseteq Nat /\ c \in T
      OBVIOUS
    <3> QED BY <3>1, LeastNat
  <2>2. k \in 1 .. n /\ s[k] # t[k] /\ \A m \in 1 .. n : m < k => s[m] = t[m]
    <3>1. \A m \in 1 .. n : m < k => ~ (k <= m)
      BY <2>1
    <3> QED BY <2>1, <3>1
  <2> HIDE DEF T
  <2>3. PICK i \in 1 .. n : s[i] = t[k]
    BY <1>1, <1>2, <2>2
  <2>4. PICK j \in 1 .. n : t[j] = s[k]
    BY <1>1, <1>2, <2>2
  <2>5. k < i
    <3>1. i < k => t[i] = t[k] /\ t[i] < t[k]
      BY <1>3, <2>2, <2>3
    <3>2. ~ (i < k) /\ i # k
      BY <1>2, <2>2, <2>3, <3>1
    <3> QED BY <2>2, <3>2
  <2>6. k < j
    <3>1. j < k => s[j] = s[k] /\ s[j] < s[k]
      BY <1>3, <2>2, <2>4
    <3>2. ~ (j < k) /\ j # k
      BY <1>2, <2>2, <2>4, <3>1
    <3> QED BY <2>2, <3>2
  <2>7. s[k] < t[k] /\ t[k] < s[k]
    BY <1>3, <2>2, <2>3, <2>4, <2>5, <2>6
  <2> QED BY <1>2, <2>2, <2>7
<1>5. s = [i \in 1 .. n |-> s[i]] /\ t = [i \in 1 .. n |-> t[i]]
  BY <1>1
<1>6. [i \in 1 .. n |-> s[i]] = [i \in 1 .. n |-> t[i]]
  BY <1>4
<1> QED BY <1>5, <1>6

\* Such a row is what InOrder makes of its set.
LEMMA InOrderIs ==
  ASSUME NEW S, S \subseteq Nat, NEW n \in Nat, NEW s, Ascending(s, S, n)
  PROVE  InOrder(S) = s
<1>1. s \in [1 .. n -> S] /\ \A x \in S : \E i \in 1 .. n : s[i] = x
  BY DEF Ascending
<1>2. \A i, j \in 1 .. n : i < j => s[i] < s[j]
  BY AscendingAll
<1>3. \A i, j \in 1 .. n : s[i] = s[j] => i = j
  <2> SUFFICES ASSUME NEW i \in 1 .. n, NEW j \in 1 .. n, i < j PROVE s[i] # s[j]
    OBVIOUS
  <2>1. s[i] \in Nat /\ s[j] \in Nat /\ s[i] < s[j]
    BY <1>1, <1>2
  <2> QED BY <2>1
<1>4. IsFiniteSet(S) /\ Cardinality(S) = n
  <2>1. IsFiniteSet(1 .. n) /\ Cardinality(1 .. n) = n
    BY FS_Interval
  <2>2. s \in Surjection(1 .. n, S) /\ s \in Injection(1 .. n, S)
    BY <1>1, <1>3 DEF Surjection, Injection, IsInjective
  <2> QED BY <2>1, <2>2, FS_Surjection
<1> DEFINE Good(t) == t \in [1 .. n -> S] /\ \A i, j \in 1 .. n : i < j => t[i] < t[j]
           u == CHOOSE t \in [1 .. n -> S] : \A i, j \in 1 .. n : i < j => t[i] < t[j]
<1>5. InOrder(S) = u
  BY <1>4 DEF InOrder
<1>6. Good(u)
  BY <1>1, <1>2
<1> HIDE DEF u
<1>7. \A i, j \in 1 .. n : u[i] = u[j] => i = j
  <2> SUFFICES ASSUME NEW i \in 1 .. n, NEW j \in 1 .. n, i < j PROVE u[i] # u[j]
    OBVIOUS
  <2>1. u[i] \in Nat /\ u[j] \in Nat /\ u[i] < u[j]
    BY <1>6
  <2> QED BY <2>1
<1>8. u \in Surjection(1 .. n, S)
  <2>1. u \in Injection(1 .. n, S)
    BY <1>6, <1>7 DEF Injection, IsInjective
  <2>2. Cardinality(1 .. n) = n
    BY FS_Interval
  <2> QED BY <1>4, <2>1, <2>2, FS_Injection
<1>9. Ascending(u, S, n)
  <2>1. S = {u[i] : i \in 1 .. n}
    BY <1>6, <1>8 DEF Surjection
  <2>2. \A i \in 1 .. n : i < n => u[i] < u[i + 1]
    <3>1. \A i \in 1 .. n : i < n => i + 1 \in 1 .. n /\ i < i + 1
      OBVIOUS
    <3> QED BY <1>6, <3>1
  <2> QED BY <1>6, <2>1, <2>2 DEF Ascending
<1>10. u = s
  BY <1>9, AscendingUnique
<1> QED BY <1>5, <1>10

LEMMA Quarter == ASSUME NEW b \in Nat, b % 4 = 0 PROVE b \div 4 \in Nat /\ 4 * (b \div 4) = b
OBVIOUS

LEMMA GreatestOfOne == ASSUME NEW a \in Int PROVE Max({a}) = a
<1>1. Max({a}) = CHOOSE x \in {a} : \A y \in {a} : x >= y
  BY DEF Max
<1> QED BY <1>1

\* build_message, once the order of the tags and the values are known
LEMMA BuildIs ==
  ASSUME NEW fields, DOMAIN fields \subseteq Nat, NEW n \in Nat \ {0}, NEW tags,
         Ascending(tags, DOMAIN fields, n), NEW values,
         values = [i \in 1 .. n |-> fields[tags[i]]]
  PROVE  Build(fields)
           = [words |-> <<n>> \o [i \in 1 .. n - 1 |-> 4 * Len(FlattenSeq(SubSeq(values, 1, i)))]
                          \o tags \o FlattenSeq(values),
              odd |-> 0]
<1>1. InOrder(DOMAIN fields) = tags
  BY InOrderIs
<1>2. DOMAIN tags = 1 .. n /\ Len(tags) = n
  <2>1. tags \in [1 .. n -> DOMAIN fields]
    BY DEF Ascending
  <2> QED BY <2>1
<1> QED BY <1>1, <1>2 DEF Build

\* What is known of a message that parse_message accepts
Parsed(d, n, b, tags) ==
  /\ n \in Nat \ {0} /\ d.odd = 0 /\ 2 * n <= Len(d.words) /\ d.words[1] = n
  /\ b = Bounds(d, n) /\ tags = Tags(d, n)
  /\ \A i \in 1 .. n + 1 : b[i] \in Nat /\ b[i] % 4 = 0
  /\ \A i \in 1 .. n : b[i] <= b[i + 1]
  /\ b[1] = 0 /\ b[n + 1] = 4 * Len(d.words) - 8 * n
  /\ \A i \in 1 .. n - 1 : b[i + 1] = d.words[i + 1]
  /\ tags \in [1 .. n -> Nat] /\ \A i \in 1 .. n : tags[i] = d.words[n + i]
  /\ \A i \in 1 .. n : i < n => tags[i] < tags[i + 1]

LEMMA SliceTyped ==
  ASSUME NEW w \in Seq(Nat), NEW m \in Nat \ {0}, NEW n \in Nat, n <= Len(w), m <= n + 1
  PROVE  /\ SubSeq(w, m, n) \in Seq(Nat) /\ Len(SubSeq(w, m, n)) = n - m + 1
         /\ \A i \in 1 .. n - m + 1 : SubSeq(w, m, n)[i] = w[m + i - 1]
<1>1. Len(w) \in Nat
  BY LenProperties
<1>2. \A i \in m .. n : w[i] \in Nat
  <2>1. \A i \in m .. n : i \in 1 .. Len(w)
    BY <1>1
  <2> QED BY <2>1, ElementOfSeq
<1>3. m \in Int /\ n \in Int /\ (IF m <= n THEN n - m + 1 ELSE 0) = n - m + 1
  OBVIOUS
<1> QED BY <1>2, <1>3, SubSeqProperties

\* The offsets and the tags of a header for n tags, where a message holds one
\* Where the header of d says that n values begin, and under which tags
Header(d, n, b, tags) ==
  /\ b \in Seq(Nat) /\ Len(b) = n + 1
  /\ b[1] = 0 /\ b[n + 1] = 4 * Len(d.words) + d.odd - 8 * n
  /\ \A i \in 1 .. n - 1 : b[i + 1] = d.words[i + 1]
  /\ tags \in Seq(Nat) /\ Len(tags) = n /\ \A i \in 1 .. n : tags[i] = d.words[n + i]

LEMMA HeaderParts ==
  ASSUME NEW d \in Packets, NEW n \in Nat \ {0}, 2 * n <= Len(d.words),
         NEW b, b = Bounds(d, n), NEW tags, tags = Tags(d, n)
  PROVE  Header(d, n, b, tags)
<1> DEFINE w == d.words
           L == Len(d.words)
           x == PacketBytes(d) - 8 * n
<1>1. w \in Seq(Nat) /\ L \in Nat /\ L = Len(w) /\ d.odd \in 0 .. 3
  BY DEF Packets
<1>2. 2 * n <= L
  OBVIOUS
<1>3. x \in Nat /\ x = 4 * L + d.odd - 8 * n
  <2>1. x = (4 * L + d.odd) - 8 * n
    BY DEF PacketBytes
  <2> DEFINE odd == d.odd
  <2>2. L \in Nat /\ odd \in 0 .. 3 /\ x = (4 * L + odd) - 8 * n
    BY <1>1, <2>1
  <2> HIDE DEF x, w, L, odd
  <2>3. x \in Nat /\ x = 4 * L + odd - 8 * n
    BY <1>2, <2>2
  <2> QED BY <2>3 DEF odd
<1> DEFINE p == <<0>>
           q == SubSeq(d.words, 2, n)
           e == <<x>>
           pq == p \o q
<1>5. b = pq \o e
  BY DEF Bounds
<1>6. p \in Seq(Nat) /\ Len(p) = 1 /\ p[1] = 0
  OBVIOUS
<1> HIDE DEF p, x
<1>7. q \in Seq(Nat) /\ Len(q) = n - 1 /\ \A i \in 1 .. n - 1 : q[i] = w[i + 1]
  <2>1. /\ SubSeq(w, 2, n) \in Seq(Nat) /\ Len(SubSeq(w, 2, n)) = n - 2 + 1
        /\ \A i \in 1 .. n - 2 + 1 : SubSeq(w, 2, n)[i] = w[2 + i - 1]
    <3>1. 2 \in Nat \ {0} /\ n \in Nat /\ n <= Len(w) /\ 2 <= n + 1
      BY <1>1, <1>2
    <3> HIDE DEF w
    <3> QED BY <1>1, <3>1, SliceTyped
  <2> HIDE DEF w
  <2>2. n - 2 + 1 = n - 1 /\ \A i \in 1 .. n - 1 : 2 + i - 1 = i + 1
    OBVIOUS
  <2> QED BY <2>1, <2>2 DEF w
<1>8. e \in Seq(Nat) /\ Len(e) = 1 /\ e[1] = x
  <2> HIDE DEF L, w
  <2> QED BY <1>3
<1>9. tags \in Seq(Nat) /\ Len(tags) = n /\ \A i \in 1 .. n : tags[i] = w[n + i]
  <2> DEFINE m == n + 1
             k == 2 * n
  <2>1. m \in Nat \ {0} /\ k \in Nat /\ k <= Len(w) /\ m <= k + 1 /\ k - m + 1 = n
        /\ \A i \in 1 .. n : m + i - 1 = n + i
    BY <1>1, <1>2
  <2>2. tags = SubSeq(w, m, k)
    BY DEF Tags
  <2> HIDE DEF m, k, w
  <2>3. /\ SubSeq(w, m, k) \in Seq(Nat) /\ Len(SubSeq(w, m, k)) = k - m + 1
        /\ \A i \in 1 .. k - m + 1 : SubSeq(w, m, k)[i] = w[m + i - 1]
    BY <1>1, <2>1, SliceTyped
  <2> QED BY <2>1, <2>2, <2>3
<1> HIDE DEF q, e, w, L
<1>10. Joined(pq, p, q) /\ pq \in Seq(Nat)
  BY <1>6, <1>7, ConcatJoins DEF Joined
<1> HIDE DEF pq
<1>11. Joined(b, pq, e)
  <2>1. Joined(pq \o e, pq, e)
    BY <1>8, <1>10, ConcatJoins
  <2> QED BY <1>5, <2>1
<1>12. Len(pq) = n /\ Len(b) = n + 1 /\ b \in Seq(Nat)
  BY <1>6, <1>7, <1>8, <1>10, <1>11 DEF Joined
<1>13. b[1] = 0 /\ b[n + 1] = x
  <2>1. pq[1] = 0
    BY <1>6, <1>10 DEF Joined
  <2>2. b[1] = pq[1]
    BY <1>11, <1>12 DEF Joined
  <2>3. b[n + 1] = e[1]
    BY <1>8, <1>11, <1>12 DEF Joined
  <2> QED BY <1>8, <2>1, <2>2, <2>3
<1>14. \A i \in 1 .. n - 1 : b[i + 1] = w[i + 1]
  <2> TAKE i \in 1 .. n - 1
  <2>1. pq[1 + i] = q[i]
    BY <1>6, <1>7, <1>10 DEF Joined
  <2>2. b[i + 1] = pq[i + 1]
    BY <1>11, <1>12 DEF Joined
  <2>3. 1 + i = i + 1
    OBVIOUS
  <2> QED BY <1>7, <2>1, <2>2, <2>3
<1> QED BY <1>3, <1>9, <1>12, <1>13, <1>14 DEF w, L, Header

LEMMA AcceptedParts ==
  ASSUME NEW d \in Packets, Accepts(d)
  PROVE  LET n == d.words[1] IN Parsed(d, n, Bounds(d, n), Tags(d, n))
<1> DEFINE n == d.words[1]
           b == Bounds(d, n)
           tags == Tags(d, n)
           L == Len(d.words)
<1>1. L \in Nat /\ d.odd \in 0 .. 3
  BY DEF Packets
<1>2. /\ n \in 1 .. MaxTags /\ n \in Nat \ {0} /\ PacketBytes(d) >= 8 * n
      /\ \A i \in 1 .. n : b[i] <= b[i + 1]
      /\ \A i \in 1 .. n + 1 : b[i] % 4 = 0
      /\ \A i \in 1 .. n - 1 : tags[i] < tags[i + 1]
  BY WireAssumption DEF Accepts, IsHeader
<1>3. PacketBytes(d) = 4 * L + d.odd
  BY DEF PacketBytes
<1>4. 2 * n <= L
  BY <1>1, <1>2, <1>3
<1>5. d.words[1] = n /\ b = Bounds(d, n) /\ tags = Tags(d, n) /\ L = Len(d.words)
  OBVIOUS
<1> HIDE DEF n, b, tags, L
<1>6. /\ b \in Seq(Nat) /\ Len(b) = n + 1
      /\ b[1] = 0 /\ b[n + 1] = 4 * L + d.odd - 8 * n
      /\ \A i \in 1 .. n - 1 : b[i + 1] = d.words[i + 1]
      /\ tags \in Seq(Nat) /\ Len(tags) = n /\ \A i \in 1 .. n : tags[i] = d.words[n + i]
  <2>1. n \in Nat \ {0} /\ 2 * n <= Len(d.words) /\ b = Bounds(d, n) /\ tags = Tags(d, n)
    BY <1>2, <1>4, <1>5
  <2>2. Header(d, n, b, tags)
    BY <2>1, HeaderParts
  <2> QED BY <1>5, <2>2 DEF Header
<1>7. \A i \in 1 .. n + 1 : b[i] \in Nat
  BY <1>6
<1>8. d.odd = 0
  <2>1. (4 * L + d.odd - 8 * n) % 4 = 0
    <3>1. n + 1 \in 1 .. n + 1
      BY <1>2
    <3> QED BY <1>2, <1>6, <3>1
  <2> QED BY <1>1, <1>2, <1>4, <2>1
<1>9. b[n + 1] = 4 * L - 8 * n
  BY <1>1, <1>2, <1>6, <1>8
<1>10. tags \in [1 .. n -> Nat]
  BY <1>2, <1>6
<1>11. \A i \in 1 .. n : i < n => tags[i] < tags[i + 1]
  <2>1. \A i \in 1 .. n : i < n => i \in 1 .. n - 1
    BY <1>2
  <2> QED BY <1>2, <2>1
<1>12. Parsed(d, n, b, tags)
  BY <1>2, <1>4, <1>5, <1>6, <1>7, <1>8, <1>9, <1>10, <1>11 DEF Parsed
<1> QED BY <1>5, <1>12

\* Where the values begin, and where the last one ends
Places(n, b) == [i \in 1 .. n + 1 |-> 2 * n + b[i] \div 4]

Values(d, n, tags) == [i \in 1 .. n |-> Fields(d)[tags[i]]]

\* The fields are slices of the words after the header, in the order of the tags.
LEMMA FieldsAre ==
  ASSUME NEW d \in Packets, NEW n, NEW b, NEW tags, Parsed(d, n, b, tags),
         NEW at, at = Places(n, b), NEW values, values = Values(d, n, tags)
  PROVE  /\ Ascending(tags, DOMAIN Fields(d), n)
         /\ Slices(values, d.words, at, n)
         /\ at[1] = 2 * n /\ at[n + 1] = Len(d.words)
         /\ \A i \in 1 .. n + 1 : 4 * (at[i] - 2 * n) = b[i]
<1> DEFINE w == d.words
           L == Len(d.words)
           F == Fields(d)
<1>1. w \in Seq(Nat) /\ L \in Nat
  BY DEF Packets
<1>2. /\ n \in Nat \ {0} /\ 2 * n <= L
      /\ \A i \in 1 .. n + 1 : b[i] \in Nat /\ b[i] % 4 = 0
      /\ \A i \in 1 .. n : b[i] <= b[i + 1]
      /\ b[1] = 0 /\ b[n + 1] = 4 * L - 8 * n
      /\ tags \in [1 .. n -> Nat]
      /\ \A i \in 1 .. n : i < n => tags[i] < tags[i + 1]
  BY DEF Parsed
<1>3. d.words[1] = n /\ b = Bounds(d, n) /\ tags = Tags(d, n)
  BY DEF Parsed
<1> DEFINE S == {tags[i] : i \in 1 .. n}
           From(i) == 2 * n + b[i] \div 4
<1>4. S = Range(tags)
  <2>1. DOMAIN tags = 1 .. n
    BY <1>2
  <2> QED BY <2>1 DEF Range
<1>5. F = [tag \in S |-> LET i == Max({j \in 1 .. n : tags[j] = tag})
                         IN  SubSeq(w, From(i) + 1, From(i + 1))]
  BY <1>3, <1>4 DEF Fields
<1> HIDE DEF w, L, F
<1>6. Ascending(tags, S, n)
  <2>1. tags \in [1 .. n -> S]
    BY <1>2
  <2> QED BY <1>2, <2>1 DEF Ascending
<1>7. S \subseteq Nat
  BY <1>2
<1>8. DOMAIN F = S
  BY <1>5
<1>9. \A i, j \in 1 .. n : tags[i] = tags[j] => i = j
  <2> SUFFICES ASSUME NEW i \in 1 .. n, NEW j \in 1 .. n, i < j PROVE tags[i] # tags[j]
    BY <1>2
  <2>1. tags[i] \in Nat /\ tags[j] \in Nat /\ tags[i] < tags[j]
    BY <1>2, <1>6, <1>7, AscendingAll
  <2> QED BY <2>1
<1>10. \A i \in 1 .. n : Max({j \in 1 .. n : tags[j] = tags[i]}) = i
  <2> TAKE i \in 1 .. n
  <2>1. {j \in 1 .. n : tags[j] = tags[i]} = {i}
    BY <1>9
  <2>2. i \in Int /\ \A a \in Int : Max({a}) = a
    BY GreatestOfOne
  <2>3. Max({i}) = i
    BY <2>2
  <2> QED BY <2>1, <2>3
<1>11. \A i \in 1 .. n : F[tags[i]] = SubSeq(w, From(i) + 1, From(i + 1))
  BY <1>5, <1>10
<1>12. \A i \in 1 .. n + 1 : at[i] = From(i)
  BY DEF Places
<1>13. \A i \in 1 .. n + 1 : at[i] \in Nat /\ 4 * (at[i] - 2 * n) = b[i]
  <2> TAKE i \in 1 .. n + 1
  <2>1. b[i] \in Nat /\ b[i] % 4 = 0
    BY <1>2
  <2>2. b[i] \div 4 \in Nat /\ 4 * (b[i] \div 4) = b[i]
    BY <2>1, Quarter
  <2>3. at[i] = 2 * n + b[i] \div 4
    BY <1>12
  <2> HIDE DEF From
  <2> QED BY <1>2, <2>2, <2>3
<1>14. at[1] = 2 * n /\ at[n + 1] = L
  <2>1. 1 \in 1 .. n + 1 /\ n + 1 \in 1 .. n + 1
    BY <1>2
  <2>2. /\ at[1] \in Nat /\ 4 * (at[1] - 2 * n) = 0
        /\ at[n + 1] \in Nat /\ 4 * (at[n + 1] - 2 * n) = 4 * L - 8 * n
    BY <1>2, <1>13, <2>1
  <2>3. n \in Nat /\ L \in Nat
    BY <1>1, <1>2
  <2> HIDE DEF S, From
  <2> DEFINE first == at[1]
             last == at[n + 1]
  <2>4. /\ first \in Nat /\ 4 * (first - 2 * n) = 0
        /\ last \in Nat /\ 4 * (last - 2 * n) = 4 * L - 8 * n
    BY <2>2
  <2> HIDE DEF first, last
  <2>5. first = 2 * n /\ last = L
    BY <2>3, <2>4
  <2> QED BY <2>5 DEF first, last
<1>15. \A i \in 1 .. n : at[i] <= at[i + 1]
  <2> TAKE i \in 1 .. n
  <2>1. i \in 1 .. n + 1 /\ i + 1 \in 1 .. n + 1 /\ b[i] <= b[i + 1]
    BY <1>2
  <2>2. at[i] \in Nat /\ at[i + 1] \in Nat /\ 4 * (at[i] - 2 * n) <= 4 * (at[i + 1] - 2 * n)
    BY <1>13, <2>1
  <2> QED BY <1>2, <2>2
<1>16. at \in [1 .. n + 1 -> 0 .. Len(w)]
  <2>1. \A i \in 1 .. n + 1 : at[i] <= at[n + 1]
    <3>1. n + 1 \in Nat /\ \A i \in 1 .. n + 1 : n + 1 \in 1 .. n + 1 /\ i <= n + 1 /\ (i < n + 1 => i \in 1 .. n)
      BY <1>2
    <3>2. \A i \in 1 .. n + 1 : at[i] \in Int
      BY <1>13
    <3> QED BY <1>15, <3>1, <3>2, Nondecreasing
  <2>2. \A i \in 1 .. n + 1 : at[i] \in 0 .. Len(w)
    <3>1. L = Len(w)
      BY DEF L, w
    <3> QED BY <1>1, <1>13, <1>14, <2>1, <3>1
  <2>3. at = [i \in 1 .. n + 1 |-> at[i]]
    BY DEF Places
  <2> QED BY <2>2, <2>3
<1> HIDE DEF S, From
<1>17. values \in Seq(Seq(Nat)) /\ Len(values) = n
       /\ \A i \in 1 .. n : values[i] = SubSeq(w, at[i] + 1, at[i + 1])
  <2>1. values = [i \in 1 .. n |-> values[i]] /\ \A i \in 1 .. n : values[i] = F[tags[i]]
    BY DEF F, Values
  <2>2. \A i \in 1 .. n : i \in 1 .. n + 1 /\ i + 1 \in 1 .. n + 1
    BY <1>2
  <2>3. \A i \in 1 .. n : values[i] = SubSeq(w, at[i] + 1, at[i + 1])
    BY <1>11, <1>12, <2>1, <2>2
  <2>4. \A i \in 1 .. n : SubSeq(w, at[i] + 1, at[i + 1]) \in Seq(Nat)
    <3> TAKE i \in 1 .. n
    <3>1. at[i] + 1 \in Nat \ {0} /\ at[i + 1] \in Nat /\ at[i + 1] <= Len(w) /\ at[i] + 1 <= at[i + 1] + 1
      BY <1>13, <1>15, <1>16, <2>2
    <3> QED BY <1>1, <3>1, SliceTyped
  <2>5. values \in [1 .. n -> Seq(Nat)]
    BY <2>1, <2>3, <2>4
  <2>6. values \in Seq(Seq(Nat)) /\ Len(values) = n
    BY <1>2, <2>5
  <2> QED BY <2>3, <2>6
<1>18. Slices(values, w, at, n)
  BY <1>15, <1>16, <1>17 DEF Slices
<1> QED BY <1>6, <1>8, <1>13, <1>14, <1>18 DEF w, L, F

\* A count, offsets, tags and values in a row
Row(z, n, count, offsets, tags, rest) ==
  /\ count \in Seq(Nat) /\ Len(count) = 1 /\ offsets \in Seq(Nat) /\ Len(offsets) = n - 1
  /\ tags \in Seq(Nat) /\ Len(tags) = n /\ rest \in Seq(Nat)
  /\ z = count \o offsets \o tags \o rest

\* Where each of them is found in z
Taken(z, n, count, offsets, tags, rest) ==
  /\ z \in Seq(Nat) /\ Len(z) = 2 * n + Len(rest) /\ z[1] = count[1]
  /\ \A i \in 1 .. n - 1 : z[i + 1] = offsets[i]
  /\ \A i \in 1 .. n : z[n + i] = tags[i]
  /\ \A i \in 1 .. Len(rest) : z[2 * n + i] = rest[i]

LEMMA FourTaken ==
  ASSUME NEW n \in Nat \ {0}, NEW count, NEW offsets, NEW tags, NEW rest, NEW z,
         Row(z, n, count, offsets, tags, rest)
  PROVE  Taken(z, n, count, offsets, tags, rest)
<1>0. /\ count \in Seq(Nat) /\ Len(count) = 1 /\ offsets \in Seq(Nat) /\ Len(offsets) = n - 1
      /\ tags \in Seq(Nat) /\ Len(tags) = n /\ rest \in Seq(Nat)
  BY DEF Row
<1> DEFINE x == count \o offsets
           y == x \o tags
           u == y \o rest
<1>1. z = u
  BY DEF Row
<1>2. Joined(x, count, offsets) /\ x \in Seq(Nat)
  BY <1>0, ConcatJoins DEF Joined
<1> HIDE DEF x
<1>3. Joined(y, x, tags) /\ y \in Seq(Nat)
  BY <1>0, <1>2, ConcatJoins DEF Joined
<1> HIDE DEF y
<1>4. Joined(u, y, rest) /\ u \in Seq(Nat) /\ Len(rest) \in Nat
  BY <1>0, <1>3, ConcatJoins, LenProperties DEF Joined
<1> HIDE DEF u
<1>5. Len(x) = n /\ Len(y) = 2 * n /\ Len(u) = 2 * n + Len(rest)
  BY <1>0, <1>2, <1>3, <1>4 DEF Joined
<1>6. \A i \in 1 .. 2 * n : u[i] = y[i]
  BY <1>4, <1>5 DEF Joined
<1>7. \A i \in 1 .. n : u[i] = x[i]
  <2> TAKE i \in 1 .. n
  <2>1. i \in 1 .. 2 * n
    OBVIOUS
  <2>2. y[i] = x[i]
    BY <1>3, <1>5 DEF Joined
  <2> QED BY <1>6, <2>1, <2>2
<1>8. u[1] = count[1]
  <2>1. 1 \in 1 .. n /\ 1 \in 1 .. Len(count)
    BY <1>0
  <2>2. x[1] = count[1]
    BY <1>2, <2>1 DEF Joined
  <2> QED BY <1>7, <2>1, <2>2
<1>9. \A i \in 1 .. n - 1 : u[i + 1] = offsets[i]
  <2> TAKE i \in 1 .. n - 1
  <2>1. i + 1 \in 1 .. n /\ 1 + i = i + 1 /\ i \in 1 .. Len(offsets) /\ Len(count) = 1
    BY <1>0
  <2>2. x[1 + i] = offsets[i]
    BY <1>2, <2>1 DEF Joined
  <2> QED BY <1>7, <2>1, <2>2
<1>10. \A i \in 1 .. n : u[n + i] = tags[i]
  <2> TAKE i \in 1 .. n
  <2>1. n + i \in 1 .. 2 * n
    OBVIOUS
  <2>2. y[n + i] = tags[i]
    BY <1>0, <1>3, <1>5 DEF Joined
  <2> QED BY <1>6, <2>1, <2>2
<1>11. \A i \in 1 .. Len(rest) : u[2 * n + i] = rest[i]
  BY <1>4, <1>5 DEF Joined
<1> QED BY <1>1, <1>4, <1>5, <1>8, <1>9, <1>10, <1>11 DEF Taken

\* A message is its count, its offsets, its tags and its values, in this order.
Parts(w, n, count, offsets, tags, rest) ==
  /\ 2 * n <= Len(w) /\ count = <<w[1]>>
  /\ offsets = [i \in 1 .. n - 1 |-> w[i + 1]]
  /\ tags \in [1 .. n -> Nat] /\ \A i \in 1 .. n : tags[i] = w[n + i]
  /\ rest = SubSeq(w, 2 * n + 1, Len(w))

LEMMA FourParts ==
  ASSUME NEW w \in Seq(Nat), NEW n \in Nat \ {0}, NEW count, NEW offsets, NEW tags, NEW rest,
         Parts(w, n, count, offsets, tags, rest)
  PROVE  count \o offsets \o tags \o rest = w
<1>1. /\ 2 * n <= Len(w) /\ count = <<w[1]>>
      /\ offsets = [i \in 1 .. n - 1 |-> w[i + 1]]
      /\ tags \in [1 .. n -> Nat] /\ \A i \in 1 .. n : tags[i] = w[n + i]
      /\ rest = SubSeq(w, 2 * n + 1, Len(w))
  BY DEF Parts
<1>2. Len(w) \in Nat /\ \A i \in 1 .. Len(w) : w[i] \in Nat
  BY LenProperties, ElementOfSeq
<1>3. count \in Seq(Nat) /\ Len(count) = 1 /\ count[1] = w[1]
  <2> DEFINE x == w[1]
  <2>1. x \in Nat
    BY <1>1, <1>2
  <2> HIDE DEF x
  <2>2. <<x>> \in Seq(Nat) /\ Len(<<x>>) = 1 /\ <<x>>[1] = x
    BY <2>1
  <2> QED BY <1>1, <2>2 DEF x
<1>4. offsets \in Seq(Nat) /\ Len(offsets) = n - 1 /\ \A i \in 1 .. n - 1 : offsets[i] = w[i + 1]
  <2>1. \A i \in 1 .. n - 1 : w[i + 1] \in Nat
    <3>1. \A i \in 1 .. n - 1 : i + 1 \in 1 .. Len(w)
      BY <1>1, <1>2
    <3> QED BY <1>2, <3>1
  <2>2. offsets \in [1 .. n - 1 -> Nat]
    BY <1>1, <2>1
  <2>3. n - 1 \in Nat
    OBVIOUS
  <2> QED BY <1>1, <2>2, <2>3
<1>5. tags \in Seq(Nat) /\ Len(tags) = n
  <2>1. tags \in [1 .. n -> Nat]
    BY <1>1
  <2> QED BY <2>1
<1>6. rest \in Seq(Nat) /\ Len(rest) = Len(w) - 2 * n
      /\ \A i \in 1 .. Len(w) - 2 * n : rest[i] = w[2 * n + i]
  <2> DEFINE k == 2 * n + 1
             l == Len(w)
  <2>1. k \in Nat \ {0} /\ l \in Nat /\ l <= Len(w) /\ k <= l + 1 /\ l - k + 1 = Len(w) - 2 * n
        /\ \A i \in 1 .. Len(w) - 2 * n : k + i - 1 = 2 * n + i
    BY <1>1, <1>2
  <2>2. rest = SubSeq(w, k, l)
    BY <1>1
  <2> HIDE DEF k, l
  <2>3. /\ SubSeq(w, k, l) \in Seq(Nat) /\ Len(SubSeq(w, k, l)) = l - k + 1
        /\ \A i \in 1 .. l - k + 1 : SubSeq(w, k, l)[i] = w[k + i - 1]
    BY <2>1, SliceTyped
  <2> QED BY <2>1, <2>2, <2>3
<1> DEFINE z == count \o offsets \o tags \o rest
<1>7. Row(z, n, count, offsets, tags, rest)
  BY <1>3, <1>4, <1>5, <1>6 DEF Row
<1> HIDE DEF z
<1>8. /\ z \in Seq(Nat) /\ Len(z) = 2 * n + Len(rest) /\ z[1] = count[1]
      /\ \A i \in 1 .. n - 1 : z[i + 1] = offsets[i]
      /\ \A i \in 1 .. n : z[n + i] = tags[i]
      /\ \A i \in 1 .. Len(rest) : z[2 * n + i] = rest[i]
  <2>1. Taken(z, n, count, offsets, tags, rest)
    BY <1>7, FourTaken
  <2> QED BY <2>1 DEF Taken
<1>9. Len(z) = Len(w)
  BY <1>2, <1>6, <1>8
<1>10. \A i \in 1 .. Len(w) : z[i] = w[i]
  <2> TAKE i \in 1 .. Len(w)
  <2>1. CASE i = 1
    BY <1>3, <1>8, <2>1
  <2>2. CASE i # 1 /\ i <= n
    <3>1. i - 1 \in 1 .. n - 1 /\ (i - 1) + 1 = i
      BY <2>2
    <3>2. z[(i - 1) + 1] = offsets[i - 1] /\ offsets[i - 1] = w[(i - 1) + 1]
      BY <1>4, <1>8, <3>1
    <3> QED BY <3>1, <3>2
  <2>3. CASE n < i /\ i <= 2 * n
    <3>1. i - n \in 1 .. n /\ n + (i - n) = i
      BY <2>3
    <3>2. z[n + (i - n)] = tags[i - n] /\ tags[i - n] = w[n + (i - n)]
      BY <1>1, <1>8, <3>1
    <3> QED BY <3>1, <3>2
  <2>4. CASE 2 * n < i
    <3>1. i - 2 * n \in 1 .. Len(w) - 2 * n /\ 2 * n + (i - 2 * n) = i
      BY <1>1, <1>2, <2>4
    <3>2. z[2 * n + (i - 2 * n)] = rest[i - 2 * n] /\ rest[i - 2 * n] = w[2 * n + (i - 2 * n)]
      BY <1>6, <1>8, <3>1
    <3> QED BY <3>1, <3>2
  <2> QED BY <2>1, <2>2, <2>3, <2>4
<1>11. z = w
  BY <1>8, <1>9, <1>10, SeqEqual
<1> QED BY <1>11 DEF z

\* A message that parse_message accepts is built again from what it returns.
LEMMA BuiltAgain ==
  ASSUME NEW d \in Packets, Accepts(d) PROVE d = Build(Fields(d))
<1> DEFINE n == d.words[1]
           b == Bounds(d, n)
           tags == Tags(d, n)
           at == Places(n, b)
           values == Values(d, n, tags)
           w == d.words
<1>1. Parsed(d, n, b, tags)
  BY AcceptedParts
<1>2. d = [words |-> w, odd |-> d.odd] /\ w \in Seq(Nat) /\ w = d.words
  BY DEF Packets
<1>3. n = w[1]
  OBVIOUS
<1> HIDE DEF n, b, tags, w
<1>4. /\ Ascending(tags, DOMAIN Fields(d), n) /\ Slices(values, w, at, n)
      /\ at[1] = 2 * n /\ at[n + 1] = Len(w)
      /\ \A i \in 1 .. n + 1 : 4 * (at[i] - 2 * n) = b[i]
  BY <1>1, <1>2, FieldsAre
<1> DEFINE Offset(i) == 4 * Len(FlattenSeq(SubSeq(values, 1, i)))
           rest == FlattenSeq(values)
           offsets == [i \in 1 .. n - 1 |-> Offset(i)]
<1>5. /\ n \in Nat \ {0} /\ d.odd = 0 /\ 2 * n <= Len(w)
      /\ \A i \in 1 .. n - 1 : b[i + 1] = w[i + 1]
      /\ tags \in [1 .. n -> Nat] /\ \A i \in 1 .. n : tags[i] = w[n + i]
  BY <1>1, <1>2 DEF Parsed
<1>6. Build(Fields(d)) = [words |-> <<n>> \o offsets \o tags \o rest, odd |-> 0]
  <2> DEFINE fields == Fields(d)
             S == DOMAIN fields
  <2>1. S \subseteq Nat
    <3>1. S = {tags[i] : i \in 1 .. n}
      BY <1>4 DEF Ascending
    <3> HIDE DEF S, at, values, offsets, rest
    <3> QED BY <1>5, <3>1
  <2>2. values = [i \in 1 .. n |-> Fields(d)[tags[i]]]
    BY DEF Values
  <2>3. Ascending(tags, S, n) /\ n \in Nat \ {0}
    BY <1>4, <1>5
  <2> HIDE DEF values, fields
  <2>4. Build(fields)
           = [words |-> <<n>> \o [i \in 1 .. n - 1 |-> 4 * Len(FlattenSeq(SubSeq(values, 1, i)))]
                          \o tags \o FlattenSeq(values),
              odd |-> 0]
    <3>1. DOMAIN fields \subseteq Nat /\ Ascending(tags, DOMAIN fields, n)
          /\ values = [i \in 1 .. n |-> fields[tags[i]]]
      BY <2>1, <2>2, <2>3 DEF fields
    <3> HIDE DEF S, offsets, rest, Offset
    <3> QED BY <2>3, <3>1, BuildIs
  <2> QED BY <2>4 DEF fields
<1> HIDE DEF at, values, offsets, rest
<1>7. at[1] + 1 = 2 * n + 1 /\ \A i \in 1 .. n + 1 : at[i] \in 0 .. Len(w)
  BY <1>4 DEF Slices
<1>8. \A i \in 1 .. n : FlattenSeq(SubSeq(values, 1, i)) = SubSeq(w, 2 * n + 1, at[i + 1])
  <2> HIDE DEF Offset
  <2>1. \A i \in 1 .. n :
           FlattenSeq(SubSeq(values, 1, i)) = SubSeq(w, at[1] + 1, at[i + 1])
    <3>1. w \in Seq(Nat) /\ n \in Nat \ {0} /\ Slices(values, w, at, n)
      BY <1>2, <1>4, <1>5
    <3> QED BY <3>1, FlattenSlices
  <2> QED BY <1>7, <2>1
<1>9. rest = SubSeq(w, 2 * n + 1, Len(w))
  <2>1. n \in 1 .. n
    BY <1>5
  <2>2. rest = FlattenSeq(values)
    BY DEF rest
  <2>3. SubSeq(values, 1, n) = values
    <3>1. values \in Seq(Seq(Nat)) /\ Len(values) = n
      BY <1>4 DEF Slices
    <3>2. \A s \in Seq(Seq(Nat)) : SubSeq(s, 1, Len(s)) = s
      BY SubSeqFull
    <3> QED BY <3>1, <3>2
  <2> QED BY <1>4, <1>8, <2>1, <2>2, <2>3
<1>10. \A i \in 1 .. n - 1 : Offset(i) = w[i + 1]
  <2> TAKE i \in 1 .. n - 1
  <2> DEFINE m == 2 * n + 1
             k == at[i + 1]
  <2>1. i \in 1 .. n /\ i + 1 \in 1 .. n + 1
    BY <1>5
  <2>2. m \in Nat \ {0} /\ k \in Nat /\ k <= Len(w) /\ m <= k + 1 /\ k - m + 1 = k - 2 * n
    <3>1. k \in 0 .. Len(w) /\ at[1] <= k
      BY <1>2, <1>4, <1>5, <1>7, <2>1, SlicesOrdered
    <3>2. Len(w) \in Nat
      BY <1>2, LenProperties
    <3> HIDE DEF k
    <3> QED BY <1>4, <1>5, <3>1, <3>2
  <2>3. FlattenSeq(SubSeq(values, 1, i)) = SubSeq(w, m, k)
    BY <1>8, <2>1
  <2> HIDE DEF m
  <2>4. Len(SubSeq(w, m, k)) = k - m + 1
    BY <1>2, <2>2, SliceTyped
  <2>5. 4 * (k - 2 * n) = w[i + 1]
    BY <1>4, <1>5, <2>1
  <2> QED BY <2>2, <2>3, <2>4, <2>5
<1>11. offsets = [i \in 1 .. n - 1 |-> w[i + 1]]
  BY <1>10 DEF offsets
<1>12. <<n>> \o offsets \o tags \o rest = w
  <2> DEFINE count == <<n>>
  <2>1. count = <<w[1]>>
    BY <1>3
  <2> HIDE DEF count, Offset
  <2>2. Parts(w, n, count, offsets, tags, rest)
    BY <1>5, <1>9, <1>11, <2>1 DEF Parts
  <2>3. count \o offsets \o tags \o rest = w
    <3>1. w \in Seq(Nat) /\ n \in Nat \ {0}
      BY <1>2, <1>5
    <3> QED BY <2>2, <3>1, FourParts
  <2> QED BY <2>3 DEF count
<1> QED BY <1>2, <1>5, <1>6, <1>12

\* What parse_message accepts is the one message that says so.
THEOREM ParseIsStrict == WireSpec => []Canonical
<1>1. Typed => Canonical
  BY BuiltAgain DEF Typed, Canonical
<1> QED BY <1>1, PacketsTyped, PTL

-----------------------------------------------------------------------------
(* Messages: what build_message makes is read back as it was. *)

\* Sequences laid one after another, and where each begins
LEMMA GathersExist ==
  ASSUME NEW s, NEW n \in Nat \ {0} PROVE \E g : Gathers(g, s, n)
<1> SUFFICES ASSUME ~ \E g : Gathers(g, s, n) PROVE FALSE
  OBVIOUS
<1> DEFINE T == {k \in Nat \ {0} : ~ \E g : Gathers(g, s, k)}
<1>1. PICK k \in T : \A m \in T : k <= m
  <2>1. T \subseteq Nat /\ n \in T
    OBVIOUS
  <2> QED BY <2>1, LeastNat
<1>2. k \in Nat \ {0} /\ ~ \E g : Gathers(g, s, k)
  BY <1>1
<1>3. CASE k = 1
  <2> DEFINE g == [i \in {1} |-> s[i]]
  <2>1. g[1] = s[1] /\ 2 .. k = {}
    BY <1>3
  <2>2. Gathers(g, s, k)
    BY <2>1 DEF Gathers
  <2> QED BY <1>2, <2>2
<1>4. CASE k # 1
  <2>1. k - 1 \in Nat \ {0} /\ ~ (k <= k - 1)
    BY <1>2, <1>4
  <2>2. PICK g : Gathers(g, s, k - 1)
    BY <1>1, <2>1
  <2> DEFINE h == [i \in 1 .. k |-> IF i = k THEN g[k - 1] \o s[k] ELSE g[i]]
  <2>3. h[1] = s[1]
    <3>1. 1 \in 1 .. k /\ 1 # k
      BY <1>2, <1>4
    <3> QED BY <2>2, <3>1 DEF Gathers
  <2>4. ASSUME NEW i \in 2 .. k PROVE h[i] = h[i - 1] \o s[i]
    <3>1. i \in 1 .. k /\ i - 1 \in 1 .. k /\ i - 1 # k
      BY <1>2
    <3>2. h[i - 1] = g[i - 1]
      BY <3>1
    <3>3. CASE i = k
      BY <3>1, <3>2, <3>3
    <3>4. CASE i # k
      <4>1. i \in 2 .. k - 1
        BY <1>2, <3>4
      <4>2. g[i] = g[i - 1] \o s[i]
        BY <2>2, <4>1 DEF Gathers
      <4>3. h[i] = g[i]
        BY <3>1, <3>4
      <4> QED BY <3>2, <4>2, <4>3
    <3> QED BY <3>3, <3>4
  <2> HIDE DEF h
  <2>5. Gathers(h, s, k)
    BY <2>3, <2>4 DEF Gathers
  <2> QED BY <1>2, <2>5
<1> QED BY <1>3, <1>4

\* The first g[i] is s[1], and each of the others joins the one before with s[i].
Grown(g, s, n) ==
  /\ g[1] = s[1] /\ \A i \in 1 .. n : g[i] \in Seq(Nat) /\ Len(g[i]) \in Nat
  /\ \A i \in 1 .. n : s[i] \in Seq(Nat) /\ Len(s[i]) \in Nat
  /\ \A i \in 2 .. n : Joined(g[i], g[i - 1], s[i])

LEMMA GathersGrow ==
  ASSUME NEW n \in Nat \ {0}, NEW s, \A i \in 1 .. n : s[i] \in Seq(Nat),
         NEW g, Gathers(g, s, n)
  PROVE  Grown(g, s, n)
<1>1. g[1] = s[1] /\ \A i \in 2 .. n : g[i] = g[i - 1] \o s[i]
  BY DEF Gathers
<1>2. \A i \in 1 .. n : g[i] \in Seq(Nat)
  <2> SUFFICES ASSUME NEW c \in 1 .. n, g[c] \notin Seq(Nat) PROVE FALSE
    OBVIOUS
  <2> DEFINE T == {k \in 1 .. n : g[k] \notin Seq(Nat)}
  <2>1. PICK k \in T : \A m \in T : k <= m
    <3>1. T \subseteq Nat /\ c \in T
      OBVIOUS
    <3> QED BY <3>1, LeastNat
  <2>2. k # 1
    <3>1. 1 \in 1 .. n
      OBVIOUS
    <3> QED BY <1>1, <2>1, <3>1
  <2>3. k \in 2 .. n /\ k - 1 \in 1 .. n /\ ~ (k <= k - 1) /\ k \in 1 .. n
    BY <2>1, <2>2
  <2>4. g[k - 1] \in Seq(Nat) /\ s[k] \in Seq(Nat) /\ g[k] = g[k - 1] \o s[k]
    BY <1>1, <2>1, <2>3
  <2>5. g[k] \in Seq(Nat)
    <3> DEFINE x == g[k - 1]
               y == s[k]
    <3>1. x \in Seq(Nat) /\ y \in Seq(Nat) /\ g[k] = x \o y
      BY <2>4
    <3> HIDE DEF x, y, T
    <3>2. x \o y \in Seq(Nat)
      BY <3>1, ConcatJoins DEF Joined
    <3> QED BY <3>1, <3>2
  <2> QED BY <2>1, <2>5
<1>3. \A i \in 1 .. n : Len(g[i]) \in Nat /\ Len(s[i]) \in Nat
  BY <1>2, LenProperties
<1>4. ASSUME NEW i \in 2 .. n PROVE Joined(g[i], g[i - 1], s[i])
  <2>1. i \in 1 .. n /\ i - 1 \in 1 .. n
    OBVIOUS
  <2>2. Joined(g[i - 1] \o s[i], g[i - 1], s[i])
    BY <1>2, <2>1, ConcatJoins
  <2>3. g[i] = g[i - 1] \o s[i]
    BY <1>1
  <2> QED BY <2>2, <2>3
<1> QED BY <1>1, <1>2, <1>3, <1>4 DEF Grown

\* What has been laid stays where it is.
LEMMA GrownPrefix ==
  ASSUME NEW n \in Nat \ {0}, NEW s, NEW g, Grown(g, s, n),
         NEW i \in 1 .. n, NEW j \in 1 .. n, i <= j, NEW p \in 1 .. Len(g[i])
  PROVE  p \in 1 .. Len(g[j]) /\ g[j][p] = g[i][p]
<1> DEFINE Kept(k) == p \in 1 .. Len(g[k]) /\ g[k][p] = g[i][p]
           T == {k \in i .. n : ~ Kept(k)}
<1> SUFFICES ASSUME ~ Kept(j) PROVE FALSE
  OBVIOUS
<1>1. PICK k \in T : \A m \in T : k <= m
  <2>1. T \subseteq Nat /\ j \in T
    OBVIOUS
  <2> QED BY <2>1, LeastNat
<1>2. k \in i .. n /\ ~ Kept(k) /\ \A m \in i .. n : m < k => Kept(m)
  <2>1. \A m \in i .. n : m < k => ~ (k <= m)
    BY <1>1
  <2> QED BY <1>1, <2>1
<1> HIDE DEF T
<1>3. k # i
  BY <1>2
<1>4. k \in 2 .. n /\ k - 1 \in i .. n /\ k - 1 < k /\ k \in 1 .. n /\ k - 1 \in 1 .. n
  BY <1>2, <1>3
<1>5. Kept(k - 1)
  BY <1>2, <1>4
<1>6. /\ Len(g[k - 1]) \in Nat /\ Len(g[k]) \in Nat /\ Len(s[k]) \in Nat
      /\ Len(g[k]) = Len(g[k - 1]) + Len(s[k])
      /\ \A q \in 1 .. Len(g[k - 1]) : g[k][q] = g[k - 1][q]
  <2>1. /\ Joined(g[k], g[k - 1], s[k]) /\ Len(g[k - 1]) \in Nat /\ Len(g[k]) \in Nat
        /\ Len(s[k]) \in Nat
    BY <1>4 DEF Grown
  <2> QED BY <2>1 DEF Joined
<1>7. p \in 1 .. Len(g[k - 1]) /\ g[k - 1][p] = g[i][p] /\ p \in Nat /\ p >= 1
  BY <1>5
<1>8. p \in 1 .. Len(g[k])
  <2> DEFINE a == Len(g[k - 1])
             c == Len(g[k])
             e == Len(s[k])
  <2>1. a \in Nat /\ c \in Nat /\ e \in Nat /\ c = a + e /\ p \in 1 .. a
    BY <1>6, <1>7
  <2> HIDE DEF Kept, a, c, e
  <2>2. p \in 1 .. c
    BY <2>1
  <2> QED BY <2>2 DEF c
<1>9. g[k][p] = g[i][p]
  BY <1>6, <1>7
<1> QED BY <1>2, <1>8, <1>9

\* c is the n sequences of s, each from one place in `at' to the next.
Laid(c, s, at, n) ==
  /\ c \in Seq(Nat) /\ at \in [1 .. n + 1 -> Nat] /\ at[1] = 0 /\ at[n + 1] = Len(c)
  /\ \A i \in 1 .. n : at[i] <= at[i + 1] /\ at[i + 1] <= Len(c)
                       /\ at[i + 1] = at[i] + Len(s[i])
                       /\ \A p \in 1 .. Len(s[i]) : c[at[i] + p] = s[i][p]

LEMMA GrownLays ==
  ASSUME NEW n \in Nat \ {0}, NEW s, NEW g, Grown(g, s, n),
         NEW at, at = [i \in 1 .. n + 1 |-> IF i = 1 THEN 0 ELSE Len(g[i - 1])]
  PROVE  Laid(g[n], s, at, n)
<1>1. n \in 1 .. n /\ 1 \in 1 .. n
  OBVIOUS
<1>2. g[1] = s[1] /\ \A i \in 1 .. n : g[i] \in Seq(Nat) /\ Len(g[i]) \in Nat
      /\ s[i] \in Seq(Nat) /\ Len(s[i]) \in Nat
  BY DEF Grown
<1>3. \A i \in 1 .. n : at[i + 1] = Len(g[i]) /\ at[i + 1] \in Nat
  <2> TAKE i \in 1 .. n
  <2>1. i + 1 \in 1 .. n + 1 /\ i + 1 # 1 /\ (i + 1) - 1 = i
    OBVIOUS
  <2>2. at[i + 1] = Len(g[i])
    BY <2>1
  <2> QED BY <1>2, <2>2
<1>4. at[1] = 0
  <2>1. 1 \in 1 .. n + 1
    OBVIOUS
  <2> QED BY <2>1
<1>5. at \in [1 .. n + 1 -> Nat]
  <2>1. \A i \in 1 .. n + 1 : at[i] \in Nat
    <3> TAKE i \in 1 .. n + 1
    <3>1. CASE i = 1
      BY <1>4, <3>1
    <3>2. CASE i # 1
      <4>1. i - 1 \in 1 .. n /\ (i - 1) + 1 = i
        BY <3>2
      <4>2. at[(i - 1) + 1] \in Nat
        BY <1>3, <4>1
      <4> QED BY <4>1, <4>2
    <3> QED BY <3>1, <3>2
  <2> QED BY <2>1
<1> DEFINE c == g[n]
<1>6. c \in Seq(Nat) /\ Len(c) \in Nat /\ at[n + 1] = Len(c)
  BY <1>1, <1>2, <1>3
<1>7. \A i \in 1 .. n : Len(g[i]) <= Len(c)
  <2> TAKE i \in 1 .. n
  <2>1. i <= n
    OBVIOUS
  <2>2. \A p \in 1 .. Len(g[i]) : p \in 1 .. Len(g[n])
    BY <1>1, <2>1, GrownPrefix
  <2> DEFINE l == Len(g[i])
             m == Len(g[n])
  <2>3. l \in Nat /\ m \in Nat /\ \A p \in 1 .. l : p \in 1 .. m
    BY <1>1, <1>2, <2>2
  <2> HIDE DEF l, m
  <2>4. l <= m
    <3>1. CASE l = 0
      BY <2>3, <3>1
    <3>2. CASE l # 0
      <4>1. l \in 1 .. l
        BY <2>3, <3>2
      <4> QED BY <2>3, <4>1
    <3> QED BY <3>1, <3>2
  <2> QED BY <2>4 DEF l, m, c
<1>8. \A i \in 1 .. n : at[i + 1] <= Len(c)
  BY <1>3, <1>7
<1>9. ASSUME NEW i \in 1 .. n
      PROVE  /\ at[i + 1] = at[i] + Len(s[i])
             /\ \A p \in 1 .. Len(s[i]) : at[i] + p \in 1 .. Len(g[i]) /\ g[i][at[i] + p] = s[i][p]
  <2>1. CASE i = 1
    <3>1. at[i] = 0 /\ g[i] = s[i] /\ at[i + 1] = Len(s[i]) /\ Len(s[i]) \in Nat
      BY <1>2, <1>3, <1>4, <2>1
    <3>2. \A p \in 1 .. Len(s[i]) : 0 + p = p
      BY <3>1
    <3>3. at[i + 1] = at[i] + Len(s[i])
      BY <3>1
    <3>4. ASSUME NEW p \in 1 .. Len(s[i]) PROVE at[i] + p \in 1 .. Len(g[i]) /\ g[i][at[i] + p] = s[i][p]
      <4>1. at[i] + p = p
        BY <3>1, <3>2
      <4> QED BY <3>1, <4>1
    <3> QED BY <3>3, <3>4
  <2>2. CASE i # 1
    <3>1. i \in 2 .. n /\ i - 1 \in 1 .. n /\ (i - 1) + 1 = i
      BY <2>2
    <3>2. Joined(g[i], g[i - 1], s[i])
      BY <3>1 DEF Grown
    <3>3. at[i] = Len(g[i - 1]) /\ at[i + 1] = Len(g[i])
      <4>1. at[(i - 1) + 1] = Len(g[i - 1])
        BY <1>3, <3>1
      <4> QED BY <1>3, <3>1, <4>1
    <3>4. /\ Len(g[i]) = Len(g[i - 1]) + Len(s[i])
          /\ \A p \in 1 .. Len(s[i]) : g[i][Len(g[i - 1]) + p] = s[i][p]
      BY <3>2 DEF Joined
    <3> DEFINE a == Len(g[i - 1])
               e == Len(s[i])
               t == Len(g[i])
    <3>5. a \in Nat /\ e \in Nat /\ t = a + e
      BY <1>2, <3>1, <3>4
    <3> HIDE DEF a, e, t
    <3>6. \A p \in 1 .. e : a + p \in 1 .. t
      BY <3>5
    <3> QED BY <3>3, <3>4, <3>6 DEF a, e, t
  <2> QED BY <2>1, <2>2
<1>10. \A i \in 1 .. n : \A p \in 1 .. Len(s[i]) : c[at[i] + p] = s[i][p]
  <2> TAKE i \in 1 .. n
  <2> TAKE p \in 1 .. Len(s[i])
  <2>1. at[i] + p \in 1 .. Len(g[i]) /\ g[i][at[i] + p] = s[i][p]
    BY <1>9
  <2>2. i <= n
    OBVIOUS
  <2>3. g[n][at[i] + p] = g[i][at[i] + p]
    BY <1>1, <2>1, <2>2, GrownPrefix
  <2> QED BY <2>1, <2>3
<1>11. \A i \in 1 .. n : at[i] <= at[i + 1]
  <2> TAKE i \in 1 .. n
  <2>1. i \in 1 .. n + 1
    OBVIOUS
  <2>2. at[i] \in Nat /\ Len(s[i]) \in Nat /\ at[i + 1] = at[i] + Len(s[i])
    BY <1>2, <1>5, <1>9, <2>1
  <2> QED BY <2>2
<1> HIDE DEF c
<1>12. Laid(c, s, at, n)
  BY <1>4, <1>5, <1>6, <1>8, <1>9, <1>10, <1>11 DEF Laid
<1> QED BY <1>12 DEF c

\* FlattenSeq lays a sequence of sequences, and their prefixes likewise.
LEMMA FlattenLays ==
  ASSUME NEW n \in Nat \ {0}, NEW s \in Seq(Seq(Nat)), Len(s) = n
  PROVE  \E at : /\ Laid(FlattenSeq(s), s, at, n)
                 /\ \A i \in 1 .. n : Len(FlattenSeq(SubSeq(s, 1, i))) = at[i + 1]
<1>1. PICK g : Gathers(g, s, n)
  BY GathersExist
<1>2. \A i \in 1 .. n : s[i] \in Seq(Nat)
  BY ElementOfSeq
<1>3. Grown(g, s, n)
  BY <1>1, <1>2, GathersGrow
<1> DEFINE at == [i \in 1 .. n + 1 |-> IF i = 1 THEN 0 ELSE Len(g[i - 1])]
<1>4. Laid(g[n], s, at, n)
  BY <1>3, GrownLays
<1>5. FlattenSeq(s) = g[n]
  BY <1>1, Flattened
<1>6. ASSUME NEW i \in 1 .. n PROVE Len(FlattenSeq(SubSeq(s, 1, i))) = at[i + 1]
  <2> DEFINE t == SubSeq(s, 1, i)
  <2>1. Len(t) = i /\ \A j \in 1 .. i : t[j] = s[j]
    <3>1. Len(t) = (IF 1 <= i THEN i - 1 + 1 ELSE 0) /\ \A j \in 1 .. i - 1 + 1 : t[j] = s[1 + j - 1]
      <4>1. \A j \in 1 .. i : s[j] \in Seq(Nat)
        BY <1>2
      <4> QED BY <4>1, SubSeqProperties
    <3> HIDE DEF t
    <3> QED BY <3>1
  <2> HIDE DEF t, at
  <2>2. Gathers(g, t, i)
    <3>1. 1 \in 1 .. i /\ \A j \in 2 .. i : j \in 1 .. i /\ j \in 2 .. n
      OBVIOUS
    <3> QED BY <1>1, <2>1, <3>1 DEF Gathers
  <2>3. FlattenSeq(t) = g[i]
    BY <2>1, <2>2, Flattened
  <2>4. at[i + 1] = Len(g[i])
    <3>1. i + 1 \in 1 .. n + 1 /\ i + 1 # 1 /\ (i + 1) - 1 = i
      OBVIOUS
    <3> QED BY <3>1 DEF at
  <2> QED BY <2>3, <2>4 DEF t
<1> HIDE DEF at
<1> QED BY <1>4, <1>5, <1>6

\* Fields that build_message takes: values of whole words, in the order of their tags
Buildable(fields, n, tags) ==
  /\ n \in Nat \ {0} /\ n <= MaxTags
  /\ DOMAIN fields \subseteq Nat \cap Ascii /\ fields \in [DOMAIN fields -> Seq(Nat)]
  /\ Ascending(tags, DOMAIN fields, n)

Listed(fields, n, tags) == [i \in 1 .. n |-> fields[tags[i]]]

\* d is the header for these tags, and the values after it.
Composed(d, n, tags, values) ==
  \E at : /\ Laid(FlattenSeq(values), values, at, n)
          /\ d \in Packets /\ d.odd = 0
          /\ Len(d.words) = 2 * n + Len(FlattenSeq(values)) /\ d.words[1] = n
          /\ \A i \in 1 .. n - 1 : d.words[i + 1] = 4 * at[i + 1]
          /\ \A i \in 1 .. n : d.words[n + i] = tags[i]
          /\ \A i \in 1 .. Len(FlattenSeq(values)) : d.words[2 * n + i] = FlattenSeq(values)[i]

LEMMA BuiltParts ==
  ASSUME NEW fields, NEW n, NEW tags, Buildable(fields, n, tags)
  PROVE  Composed(Build(fields), n, tags, Listed(fields, n, tags))
<1> DEFINE values == Listed(fields, n, tags)
           d == Build(fields)
<1>0. values = [i \in 1 .. n |-> fields[tags[i]]] /\ d = Build(fields)
  BY DEF Listed
<1> HIDE DEF values, d
<1>1. /\ n \in Nat \ {0} /\ DOMAIN fields \subseteq Nat /\ Ascending(tags, DOMAIN fields, n)
      /\ \A t \in DOMAIN fields : fields[t] \in Seq(Nat)
      /\ tags \in [1 .. n -> DOMAIN fields]
  BY DEF Buildable, Ascending
<1>2. values \in Seq(Seq(Nat)) /\ Len(values) = n
  <2>1. \A i \in 1 .. n : fields[tags[i]] \in Seq(Nat)
    BY <1>1
  <2>2. values \in [1 .. n -> Seq(Nat)]
    BY <1>0, <2>1
  <2> QED BY <1>1, <2>2
<1>3. PICK at : /\ Laid(FlattenSeq(values), values, at, n)
                /\ \A i \in 1 .. n : Len(FlattenSeq(SubSeq(values, 1, i))) = at[i + 1]
  BY <1>1, <1>2, FlattenLays
<1> DEFINE rest == FlattenSeq(values)
           count == <<n>>
           offsets == [i \in 1 .. n - 1 |-> 4 * Len(FlattenSeq(SubSeq(values, 1, i)))]
           w == count \o offsets \o tags \o rest
<1>4. d = [words |-> w, odd |-> 0]
  BY <1>0, <1>1, BuildIs
<1>5. count \in Seq(Nat) /\ Len(count) = 1 /\ count[1] = n
  <2> HIDE DEF rest, offsets
  <2> QED BY <1>1
<1>6. \A i \in 1 .. n - 1 : offsets[i] = 4 * at[i + 1]
  <2> TAKE i \in 1 .. n - 1
  <2>1. i \in 1 .. n
    BY <1>1
  <2> QED BY <1>3, <2>1
<1>7. offsets \in Seq(Nat) /\ Len(offsets) = n - 1
  <2>1. \A i \in 1 .. n - 1 : offsets[i] \in Nat
    <3> TAKE i \in 1 .. n - 1
    <3>1. i + 1 \in 1 .. n + 1
      BY <1>1
    <3>2. at[i + 1] \in Nat
      BY <1>3, <3>1 DEF Laid
    <3> HIDE DEF offsets
    <3> QED BY <1>6, <3>2
  <2>2. offsets = [i \in 1 .. n - 1 |-> offsets[i]]
    OBVIOUS
  <2> HIDE DEF offsets
  <2>3. offsets \in [1 .. n - 1 -> Nat] /\ n - 1 \in Nat
    BY <1>1, <2>1, <2>2
  <2> QED BY <2>3
<1>8. tags \in Seq(Nat) /\ Len(tags) = n
  <2>1. tags \in [1 .. n -> Nat]
    BY <1>1
  <2> QED BY <1>1, <2>1
<1>9. rest \in Seq(Nat)
  BY <1>3 DEF Laid
<1>10. Row(w, n, count, offsets, tags, rest)
  <2> HIDE DEF count, offsets, rest
  <2> QED BY <1>5, <1>7, <1>8, <1>9 DEF Row
<1> HIDE DEF w, rest, count, offsets
<1>11. /\ w \in Seq(Nat) /\ Len(w) = 2 * n + Len(rest) /\ w[1] = count[1]
       /\ \A i \in 1 .. n - 1 : w[i + 1] = offsets[i]
       /\ \A i \in 1 .. n : w[n + i] = tags[i]
       /\ \A i \in 1 .. Len(rest) : w[2 * n + i] = rest[i]
  <2>1. Taken(w, n, count, offsets, tags, rest)
    BY <1>1, <1>10, FourTaken
  <2> QED BY <2>1 DEF Taken
<1>12. d.words = w /\ d.odd = 0 /\ d \in Packets
  BY <1>4, <1>11 DEF Packets
<1>13. \A i \in 1 .. n - 1 : w[i + 1] = 4 * at[i + 1]
  BY <1>6, <1>11
<1>14. Composed(d, n, tags, values)
  BY <1>3, <1>5, <1>11, <1>12, <1>13 DEF Composed, rest
<1> QED BY <1>14 DEF d, values

\* d is a message whose value of each tag is found where the header says.
Stands(d, n, tags, values) ==
  /\ d \in Packets /\ Accepts(d)
  /\ Len(d.words) = 2 * n + Len(FlattenSeq(values)) /\ d.words[1] = n
  /\ Tags(d, n) = tags
  /\ \A i \in 1 .. n :
       \E from \in Nat :
         /\ Bounds(d, n)[i] = 4 * from /\ Bounds(d, n)[i + 1] = 4 * (from + Len(values[i]))
         /\ SubSeq(d.words, 2 * n + from + 1, 2 * n + from + Len(values[i])) = values[i]

LEMMA ComposedStands ==
  ASSUME NEW fields, NEW n, NEW tags, Buildable(fields, n, tags),
         NEW values, values = Listed(fields, n, tags), NEW d, Composed(d, n, tags, values)
  PROVE  Stands(d, n, tags, values)
<1> DEFINE c == FlattenSeq(values)
           w == d.words
           b == Bounds(d, n)
           ts == Tags(d, n)
<1>1. /\ n \in Nat \ {0} /\ n <= MaxTags /\ Ascending(tags, DOMAIN fields, n)
      /\ tags \in [1 .. n -> DOMAIN fields] /\ DOMAIN fields \subseteq Nat \cap Ascii
      /\ \A i \in 1 .. n : i < n => tags[i] < tags[i + 1]
      /\ \A t \in DOMAIN fields : fields[t] \in Seq(Nat)
  BY DEF Buildable, Ascending
<1>2. \A i \in 1 .. n : values[i] \in Seq(Nat) /\ Len(values[i]) \in Nat
  <2>1. \A i \in 1 .. n : values[i] \in Seq(Nat)
    BY <1>1 DEF Listed
  <2> QED BY <2>1, LenProperties
<1>3. PICK at : /\ Laid(c, values, at, n)
                /\ d \in Packets /\ d.odd = 0
                /\ Len(d.words) = 2 * n + Len(c) /\ d.words[1] = n
                /\ \A i \in 1 .. n - 1 : d.words[i + 1] = 4 * at[i + 1]
                /\ \A i \in 1 .. n : d.words[n + i] = tags[i]
                /\ \A i \in 1 .. Len(c) : d.words[2 * n + i] = c[i]
  BY DEF Composed
<1> HIDE DEF c
<1>4. /\ c \in Seq(Nat) /\ Len(c) \in Nat /\ at \in [1 .. n + 1 -> Nat]
      /\ at[1] = 0 /\ at[n + 1] = Len(c)
      /\ \A i \in 1 .. n : at[i] <= at[i + 1] /\ at[i + 1] <= Len(c)
                           /\ at[i + 1] = at[i] + Len(values[i])
                           /\ \A p \in 1 .. Len(values[i]) : c[at[i] + p] = values[i][p]
  BY <1>3, LenProperties DEF Laid
<1>5. w \in Seq(Nat) /\ w = d.words /\ Len(w) = 2 * n + Len(c)
  BY <1>3 DEF Packets
<1>6. b = Bounds(d, n) /\ ts = Tags(d, n) /\ 2 * n <= Len(d.words)
  BY <1>1, <1>3, <1>4
<1> HIDE DEF b, ts
<1>7. /\ b \in Seq(Nat) /\ Len(b) = n + 1
      /\ b[1] = 0 /\ b[n + 1] = 4 * Len(d.words) + d.odd - 8 * n
      /\ \A i \in 1 .. n - 1 : b[i + 1] = d.words[i + 1]
      /\ ts \in Seq(Nat) /\ Len(ts) = n /\ \A i \in 1 .. n : ts[i] = d.words[n + i]
  <2>1. d \in Packets /\ n \in Nat \ {0} /\ 2 * n <= Len(d.words)
    BY <1>1, <1>3, <1>6
  <2>2. b = Bounds(d, n) /\ ts = Tags(d, n)
    BY <1>6
  <2>3. Header(d, n, b, ts)
    BY <2>1, <2>2, HeaderParts
  <2> QED BY <2>3 DEF Header
<1>8. ts = tags
  <2>1. tags \in Seq(Nat) /\ Len(tags) = n
    <3>1. \A i \in 1 .. n : tags[i] \in Nat
      BY <1>1
    <3>2. tags = [i \in 1 .. n |-> tags[i]] /\ n \in Nat
      BY <1>1
    <3> HIDE DEF ts
    <3>3. tags \in [1 .. n -> Nat] /\ n \in Nat
      BY <3>1, <3>2
    <3> QED BY <3>3
  <2>2. \A i \in 1 .. n : ts[i] = tags[i]
    <3>1. \A i \in 1 .. n : ts[i] = d.words[n + i]
      BY <1>7
    <3>2. \A i \in 1 .. n : d.words[n + i] = tags[i]
      BY <1>3
    <3> QED BY <3>1, <3>2, Zenon
  <2> QED BY <1>7, <2>1, <2>2, SeqEqual
<1>9. \A i \in 1 .. n + 1 : b[i] = 4 * at[i]
  <2> TAKE i \in 1 .. n + 1
  <2>1. CASE i = 1
    BY <1>4, <1>7, <2>1
  <2>2. CASE i = n + 1
    <3> DEFINE l == Len(c)
               v == b[i]
               u == at[i]
    <3>1. n \in Nat /\ l \in Nat /\ v = 4 * (2 * n + l) + 0 - 8 * n /\ u = l
      BY <1>1, <1>3, <1>4, <1>7, <2>2
    <3> HIDE DEF l, v, u
    <3>2. v = 4 * u
      BY <3>1
    <3> QED BY <3>2 DEF v, u
  <2>3. CASE i # 1 /\ i # n + 1
    <3>1. i - 1 \in 1 .. n - 1 /\ (i - 1) + 1 = i
      BY <1>1, <2>3
    <3>2. b[(i - 1) + 1] = 4 * at[(i - 1) + 1]
      BY <1>3, <1>7, <3>1
    <3> QED BY <3>1, <3>2
  <2> QED BY <2>1, <2>2, <2>3
<1>10. \A i \in 1 .. n + 1 : at[i] \in Nat
  BY <1>4
<1>11. Accepts(d)
  <2>1. d.words # << >> /\ IsHeader(d, n)
    <3>1. d.words # << >>
      <4>1. Len(d.words) # 0
        BY <1>1, <1>3, <1>4
      <4> QED BY <4>1
    <3>2. PacketBytes(d) = 4 * (2 * n + Len(c)) + 0
      BY <1>3 DEF PacketBytes
    <3>3. PacketBytes(d) >= 8 * n
      BY <1>1, <1>4, <3>2
    <3>4. n \in 1 .. MaxTags
      BY <1>1, WireAssumption
    <3> QED BY <3>1, <3>3, <3>4 DEF IsHeader
  <2>2. \A i \in 1 .. n : b[i] <= b[i + 1]
    <3> TAKE i \in 1 .. n
    <3>1. i \in 1 .. n + 1 /\ i + 1 \in 1 .. n + 1
      BY <1>1
    <3>2. at[i] \in Nat /\ at[i + 1] \in Nat /\ at[i] <= at[i + 1]
      BY <1>4, <1>10, <3>1
    <3> QED BY <1>9, <3>1, <3>2
  <2>3. \A i \in 1 .. n + 1 : b[i] % 4 = 0
    <3>1. \A k \in Nat : (4 * k) % 4 = 0
      OBVIOUS
    <3> QED BY <1>9, <1>10, <3>1
  <2>4. \A i \in 1 .. n - 1 : ts[i] < ts[i + 1]
    <3>1. \A i \in 1 .. n - 1 : i \in 1 .. n /\ i < n
      BY <1>1
    <3> QED BY <1>1, <1>8, <3>1
  <2>5. \A i \in 1 .. n : ts[i] \in Ascii
    BY <1>1, <1>8
  <2> QED BY <1>3, <1>6, <2>1, <2>2, <2>3, <2>4, <2>5 DEF Accepts
<1>12. ASSUME NEW i \in 1 .. n
       PROVE  \E from \in Nat :
                /\ b[i] = 4 * from /\ b[i + 1] = 4 * (from + Len(values[i]))
                /\ SubSeq(w, 2 * n + from + 1, 2 * n + from + Len(values[i])) = values[i]
  <2>1. i \in 1 .. n + 1 /\ i + 1 \in 1 .. n + 1
    BY <1>1
  <2> DEFINE a == at[i]
             v == values[i]
             l == Len(v)
  <2>2. a \in Nat /\ l \in Nat /\ a + l <= Len(c) /\ at[i + 1] = a + l /\ v \in Seq(Nat) /\ l = Len(v)
    BY <1>2, <1>4, <1>10, <2>1
  <2>3. b[i] = 4 * a /\ b[i + 1] = 4 * (a + l)
    BY <1>9, <2>1, <2>2
  <2>4. \A p \in 1 .. l : c[a + p] = v[p]
    BY <1>4
  <2> HIDE DEF a, v, l, w
  <2>5. \A p \in 1 .. l : a + p \in 1 .. Len(c) /\ 2 * n + (a + p) = (2 * n + a) + p
    <3>1. n \in Nat /\ Len(c) \in Nat
      BY <1>1, <1>4
    <3> QED BY <2>2, <3>1
  <2>6. \A p \in 1 .. l : w[(2 * n + a) + p] = v[p]
    <3>1. \A j \in 1 .. Len(c) : w[2 * n + j] = c[j]
      BY <1>3, <1>5
    <3> TAKE p \in 1 .. l
    <3>2. w[2 * n + (a + p)] = c[a + p] /\ 2 * n + (a + p) = (2 * n + a) + p
      BY <2>5, <3>1
    <3> QED BY <2>4, <3>2
  <2> DEFINE f == 2 * n + a
  <2>7. f \in Nat /\ f + l <= Len(w)
    <3>1. n \in Nat /\ Len(c) \in Nat /\ Len(w) = 2 * n + Len(c)
      BY <1>1, <1>4, <1>5
    <3> QED BY <2>2, <3>1
  <2> HIDE DEF f
  <2>8. SubSeq(w, f + 1, f + Len(v)) = v
    BY <1>5, <2>2, <2>6, <2>7, SliceIs DEF f
  <2> QED BY <2>2, <2>3, <2>8 DEF f, v, l
<1> QED BY <1>3, <1>6, <1>8, <1>11, <1>12 DEF Stands, c, b, ts, w

\* What build_message makes is accepted by parse_message and read back as it was.
THEOREM ReadBack ==
  ASSUME NEW fields, NEW n, NEW tags, Buildable(fields, n, tags)
  PROVE  Accepts(Build(fields)) /\ Fields(Build(fields)) = fields
<1> DEFINE d == Build(fields)
           values == Listed(fields, n, tags)
           b == Bounds(d, n)
           at == Places(n, b)
           read == Values(d, n, tags)
           F == Fields(d)
<1>1. /\ n \in Nat \ {0} /\ Ascending(tags, DOMAIN fields, n) /\ DOMAIN fields \subseteq Nat
      /\ fields \in [DOMAIN fields -> Seq(Nat)]
      /\ tags \in [1 .. n -> DOMAIN fields] /\ DOMAIN fields = {tags[i] : i \in 1 .. n}
      /\ \A i \in 1 .. n : fields[tags[i]] \in Seq(Nat)
  BY DEF Buildable, Ascending
<1>0. Stands(d, n, tags, values)
  BY BuiltParts, ComposedStands
<1>2. /\ d \in Packets /\ Accepts(d) /\ d.words[1] = n /\ Tags(d, n) = tags
      /\ \A i \in 1 .. n :
           \E from \in Nat :
             /\ b[i] = 4 * from /\ b[i + 1] = 4 * (from + Len(values[i]))
             /\ SubSeq(d.words, 2 * n + from + 1, 2 * n + from + Len(values[i])) = values[i]
  BY <1>0 DEF Stands
<1> HIDE DEF d, values
<1>3. Parsed(d, n, b, tags)
  BY <1>2, AcceptedParts
<1> HIDE DEF b, at, read
<1>4. /\ Ascending(tags, DOMAIN F, n) /\ Slices(read, d.words, at, n)
      /\ \A i \in 1 .. n + 1 : 4 * (at[i] - 2 * n) = b[i]
  BY <1>2, <1>3, FieldsAre DEF at, read
<1>5. \A i \in 1 .. n : read[i] = F[tags[i]]
  BY DEF read, Values
<1> HIDE DEF F
<1>6. \A i \in 1 .. n : F[tags[i]] = fields[tags[i]]
  <2> TAKE i \in 1 .. n
  <2> DEFINE v == values[i]
             l == Len(v)
             x == at[i]
             y == at[i + 1]
  <2>1. PICK from \in Nat :
          /\ b[i] = 4 * from /\ b[i + 1] = 4 * (from + Len(values[i]))
          /\ SubSeq(d.words, 2 * n + from + 1, 2 * n + from + Len(values[i])) = values[i]
    BY <1>2
  <2>2. v \in Seq(Nat) /\ l \in Nat /\ v = fields[tags[i]]
    <3>1. v = fields[tags[i]]
      BY DEF values, Listed
    <3> QED BY <1>1, <3>1, LenProperties
  <2>3. i \in 1 .. n + 1 /\ i + 1 \in 1 .. n + 1
    BY <1>1
  <2>4. x \in Nat /\ y \in Nat
    <3>1. x \in 0 .. Len(d.words) /\ y \in 0 .. Len(d.words)
      BY <1>4, <2>3 DEF Slices
    <3> QED BY <3>1
  <2>5. 4 * (x - 2 * n) = 4 * from /\ 4 * (y - 2 * n) = 4 * (from + l)
    BY <1>4, <2>1, <2>3
  <2>6. F[tags[i]] = SubSeq(d.words, x + 1, y)
    BY <1>4, <1>5 DEF Slices
  <2>7. SubSeq(d.words, 2 * n + from + 1, 2 * n + from + l) = v
    BY <2>1
  <2> HIDE DEF v, l, x, y
  <2>8. x + 1 = 2 * n + from + 1 /\ y = 2 * n + from + l
    <3>1. n \in Nat
      BY <1>1
    <3> QED BY <2>2, <2>4, <2>5, <3>1
  <2>9. F[tags[i]] = v
    BY <2>6, <2>7, <2>8
  <2> QED BY <2>2, <2>9
<1>7. DOMAIN F = DOMAIN fields
  BY <1>1, <1>4 DEF Ascending
<1>8. \A t \in DOMAIN fields : F[t] = fields[t]
  BY <1>1, <1>6
<1>9. F = [t \in DOMAIN F |-> F[t]]
  BY DEF F, Fields
<1>10. F = fields
  BY <1>1, <1>7, <1>8, <1>9
<1> QED BY <1>2, <1>10 DEF d, F

\* The length of a message of two or three fields
LEMMA BuiltLength ==
  ASSUME NEW fields, NEW n \in {2, 3}, NEW tags, Buildable(fields, n, tags)
  PROVE  Len(Build(fields).words)
           = 2 * n + Len(fields[tags[1]]) + Len(fields[tags[2]])
               + (IF n = 3 THEN Len(fields[tags[3]]) ELSE 0)
<1> DEFINE values == Listed(fields, n, tags)
           w == Build(fields).words
           c == FlattenSeq(values)
           F == fields
<1>1. PICK at : Laid(c, values, at, n) /\ Len(w) = 2 * n + Len(c)
  BY BuiltParts DEF Composed
<1>2. \A i \in 1 .. n : values[i] = F[tags[i]]
  BY DEF Listed
<1>3. \A i \in 1 .. n : F[tags[i]] \in Seq(Nat)
  <2>1. /\ \A t \in DOMAIN fields : fields[t] \in Seq(Nat)
        /\ \A i \in 1 .. n : tags[i] \in DOMAIN fields
    BY DEF Buildable, Ascending
  <2> QED BY <2>1
<1> HIDE DEF values, w, c, F
<1>4. \A i \in 1 .. n : Len(values[i]) \in Nat
  <2>1. \A i \in 1 .. n : values[i] \in Seq(Nat)
    BY <1>2, <1>3
  <2> QED BY <2>1, LenProperties
<1>5. at[1] = 0 /\ at[n + 1] = Len(c) /\ \A i \in 1 .. n : at[i + 1] = at[i] + Len(values[i])
  BY <1>1 DEF Laid
<1>6. 1 \in 1 .. n /\ 2 \in 1 .. n /\ (n = 3 => 3 \in 1 .. n)
  OBVIOUS
<1>7. at[2] = Len(values[1]) /\ at[3] = at[2] + Len(values[2])
      /\ (n = 3 => at[4] = at[3] + Len(values[3]))
  <2>1. /\ at[1 + 1] = at[1] + Len(values[1]) /\ at[2 + 1] = at[2] + Len(values[2])
        /\ (n = 3 => at[3 + 1] = at[3] + Len(values[3]))
    BY <1>5, <1>6
  <2> QED BY <1>4, <1>5, <1>6, <2>1
<1> DEFINE l1 == Len(values[1])
           l2 == Len(values[2])
           l3 == Len(values[3])
           lc == Len(c)
           lw == Len(w)
<1>8. /\ l1 \in Nat /\ l2 \in Nat /\ at[3] = l1 + l2 /\ lw = 2 * n + lc
      /\ n = 2 => lc = at[3]
      /\ n = 3 => l3 \in Nat /\ lc = at[4] /\ at[4] = at[3] + l3
  <2>1. n = 2 => n + 1 = 3
    OBVIOUS
  <2>2. n = 3 => n + 1 = 4
    OBVIOUS
  <2> QED BY <1>1, <1>4, <1>5, <1>6, <1>7, <2>1, <2>2
<1>9. l1 = Len(F[tags[1]]) /\ l2 = Len(F[tags[2]]) /\ (n = 3 => l3 = Len(F[tags[3]]))
  BY <1>2, <1>6
<1> HIDE DEF l1, l2, l3, lc, lw
<1>10. lw = 2 * n + l1 + l2 + (IF n = 3 THEN l3 ELSE 0)
  <2>1. CASE n = 2
    BY <1>8, <2>1
  <2>2. CASE n = 3
    BY <1>8, <2>2
  <2> QED BY <2>1, <2>2
<1> QED BY <1>9, <1>10 DEF lw, w, F

LEMMA GreaterOfTwo ==
  ASSUME NEW a \in Int, NEW b \in Int PROVE Max({a, b}) = IF a <= b THEN b ELSE a
<1>1. \A x \in {a, b} : (\A y \in {a, b} : x >= y) <=> x = IF a <= b THEN b ELSE a
  OBVIOUS
<1>2. Max({a, b}) = CHOOSE x \in {a, b} : \A y \in {a, b} : x >= y
  BY DEF Max
<1> QED BY <1>1, <1>2

\* The two fields of a request, and the three of a padded one
Asked(value) == [tag \in {VER, NONC} |-> IF tag = VER THEN <<Version>> ELSE value]

Padded(value, pad) ==
  [tag \in {VER, NONC, ZZZZ} |-> IF tag = ZZZZ THEN pad ELSE Asked(value)[tag]]

LEMMA AskedBuildable ==
  ASSUME NEW value \in Seq(Nat) PROVE Buildable(Asked(value), 2, <<VER, NONC>>)
<1> DEFINE S == {VER, NONC}
           tags == <<VER, NONC>>
           f == Asked(value)
<1>1. VER < NONC /\ VER \in Nat /\ NONC \in Nat /\ S \subseteq Nat \cap Ascii /\ 2 <= MaxTags
      /\ 2 \in Nat \ {0}
  BY WireAssumption
<1>2. <<Version>> \in Seq(Nat)
  BY WireAssumption
<1>3. DOMAIN f = S /\ f \in [S -> Seq(Nat)]
  BY <1>2 DEF Asked
<1>4. Ascending(tags, S, 2)
  <2>1. tags \in [1 .. 2 -> S]
    OBVIOUS
  <2>2. tags[1] = VER /\ tags[2] = NONC /\ 1 .. 2 = {1, 2}
    OBVIOUS
  <2> HIDE DEF tags
  <2>3. S = {tags[i] : i \in 1 .. 2}
    BY <2>2
  <2>4. \A i \in 1 .. 2 : i < 2 => tags[i] < tags[i + 1]
    <3>1. \A i \in 1 .. 2 : i < 2 => i = 1 /\ i + 1 = 2
      OBVIOUS
    <3> QED BY <1>1, <2>2, <3>1
  <2> QED BY <2>1, <2>3, <2>4 DEF Ascending
<1> HIDE DEF tags, f, S
<1>5. Buildable(f, 2, tags)
  BY <1>1, <1>3, <1>4 DEF Buildable
<1> QED BY <1>5 DEF tags, f

LEMMA PaddedBuildable ==
  ASSUME NEW value \in Seq(Nat), NEW pad \in Seq(Nat)
  PROVE  Buildable(Padded(value, pad), 3, <<VER, NONC, ZZZZ>>)
<1> DEFINE S == {VER, NONC, ZZZZ}
           tags == <<VER, NONC, ZZZZ>>
           f == Padded(value, pad)
<1>1. VER < NONC /\ NONC < ZZZZ /\ S \subseteq Nat \cap Ascii /\ 3 <= MaxTags /\ 3 \in Nat \ {0}
  BY WireAssumption
<1>2. <<Version>> \in Seq(Nat)
  BY WireAssumption
<1>3. DOMAIN f = S /\ f \in [S -> Seq(Nat)]
  <2>1. \A tag \in S : (IF tag = ZZZZ THEN pad ELSE Asked(value)[tag]) \in Seq(Nat)
    BY <1>2 DEF Asked
  <2> QED BY <2>1 DEF Padded
<1>4. Ascending(tags, S, 3)
  <2>1. tags \in [1 .. 3 -> S]
    OBVIOUS
  <2>2. tags[1] = VER /\ tags[2] = NONC /\ tags[3] = ZZZZ /\ 1 .. 3 = {1, 2, 3}
    OBVIOUS
  <2> HIDE DEF tags
  <2>3. S = {tags[i] : i \in 1 .. 3}
    BY <2>2
  <2>4. \A i \in 1 .. 3 : i < 3 => tags[i] < tags[i + 1]
    <3>1. \A i \in 1 .. 3 : i < 3 => (i = 1 /\ i + 1 = 2) \/ (i = 2 /\ i + 1 = 3)
      OBVIOUS
    <3> QED BY <1>1, <2>2, <3>1
  <2> QED BY <2>1, <2>3, <2>4 DEF Ascending
<1> HIDE DEF tags, f, S
<1>5. Buildable(f, 3, tags)
  BY <1>1, <1>3, <1>4 DEF Buildable
<1> QED BY <1>5 DEF tags, f

\* Whatever the value of the nonce, the request for it is read back, and is as long as it must be.
LEMMA RequestRead ==
  ASSUME NEW value \in Seq(Nat)
  PROVE  LET request == Request(value)
             read == Fields(request)
         IN /\ Accepts(request)
            /\ {VER, NONC} \subseteq DOMAIN read /\ DOMAIN read \subseteq {VER, NONC, ZZZZ}
            /\ read[VER] = <<Version>> /\ read[NONC] = value
            /\ Len(request.words) >= RequestMin
            /\ ZZZZ \in DOMAIN read => Len(request.words) <= RequestMin + 1
<1> DEFINE asked == Asked(value)
           unpadded == Len(Build(asked).words)
           pad == Padding(unpadded)
           padded == Padded(value, pad)
           request == Request(value)
           read == Fields(request)
           Good == /\ Accepts(request)
                   /\ {VER, NONC} \subseteq DOMAIN read /\ DOMAIN read \subseteq {VER, NONC, ZZZZ}
                   /\ read[VER] = <<Version>> /\ read[NONC] = value
                   /\ Len(request.words) >= RequestMin
                   /\ ZZZZ \in DOMAIN read => Len(request.words) <= RequestMin + 1
<1>1. VER # NONC /\ NONC # ZZZZ /\ VER # ZZZZ /\ RequestMin \in Nat /\ Version \in Nat
  BY WireAssumption
<1>2. request = Build(IF unpadded < RequestMin THEN padded ELSE asked)
  BY DEF Request, Asked, Padded
<1>3. DOMAIN asked = {VER, NONC} /\ asked[VER] = <<Version>> /\ asked[NONC] = value
  BY <1>1 DEF Asked
<1>4. /\ DOMAIN padded = {VER, NONC, ZZZZ} /\ padded[VER] = <<Version>>
      /\ padded[NONC] = value /\ padded[ZZZZ] = pad
  BY <1>1, <1>3 DEF Padded
<1> DEFINE l == Len(value)
<1>5. l \in Nat /\ Len(<<Version>>) = 1
  BY LenProperties
<1> HIDE DEF asked, request, read, pad, padded, l, unpadded
<1>6. unpadded = 5 + l
  <2> DEFINE tags == <<VER, NONC>>
  <2>1. Buildable(asked, 2, tags)
    BY AskedBuildable DEF asked
  <2>2. tags[1] = VER /\ tags[2] = NONC
    OBVIOUS
  <2> HIDE DEF tags
  <2>3. unpadded = 2 * 2 + Len(asked[tags[1]]) + Len(asked[tags[2]]) + (IF 2 = 3 THEN Len(asked[tags[3]]) ELSE 0)
    BY <2>1, BuiltLength DEF unpadded
  <2>4. Len(asked[tags[1]]) = 1 /\ Len(asked[tags[2]]) = l
    BY <1>3, <1>5, <2>2 DEF l
  <2>5. unpadded = 2 * 2 + 1 + l + 0
    BY <2>3, <2>4
  <2> QED BY <1>5, <2>5
<1>7. CASE ~ (unpadded < RequestMin)
  <2>1. request = Build(asked)
    BY <1>2, <1>7
  <2>2. Accepts(request) /\ read = asked
    BY <2>1, AskedBuildable, ReadBack DEF asked, read
  <2>3. Len(request.words) = unpadded
    BY <2>1 DEF unpadded
  <2>4. unpadded >= RequestMin
    BY <1>1, <1>5, <1>6, <1>7
  <2>5. Good
    BY <1>1, <1>3, <2>2, <2>3, <2>4
  <2> QED BY <2>5 DEF request, read
<1>8. CASE unpadded < RequestMin
  <2> DEFINE need == RequestMin - unpadded - 2
             k == IF 0 <= need THEN need ELSE 0
  <2>1. k \in Nat /\ need \in Int
    BY <1>1, <1>5, <1>6
  <2>2. pad \in Seq(Nat) /\ Len(pad) = k
    <3>1. Max({0, need}) = k
      BY <2>1, GreaterOfTwo
    <3>2. pad = [i \in 1 .. k |-> 0]
      BY <3>1 DEF pad, Padding
    <3> HIDE DEF k
    <3>3. pad \in [1 .. k -> Nat]
      BY <3>2
    <3> QED BY <2>1, <3>3
  <2>3. request = Build(padded)
    BY <1>2, <1>8
  <2> DEFINE tags == <<VER, NONC, ZZZZ>>
  <2>4. Buildable(padded, 3, tags)
    BY <2>2, PaddedBuildable DEF padded
  <2>5. tags[1] = VER /\ tags[2] = NONC /\ tags[3] = ZZZZ
    OBVIOUS
  <2> HIDE DEF tags, k
  <2>6. Accepts(request) /\ read = padded
    BY <2>3, <2>4, ReadBack DEF read
  <2> DEFINE m == Len(request.words)
  <2>7. m = 2 * 3 + Len(padded[tags[1]]) + Len(padded[tags[2]])
              + (IF 3 = 3 THEN Len(padded[tags[3]]) ELSE 0)
    BY <2>3, <2>4, BuiltLength
  <2>8. Len(padded[tags[1]]) = 1 /\ Len(padded[tags[2]]) = l /\ Len(padded[tags[3]]) = k
    BY <1>4, <1>5, <2>2, <2>5 DEF l
  <2>9. m = 2 * 3 + 1 + l + k
    BY <2>7, <2>8
  <2> HIDE DEF m
  <2>10. m >= RequestMin /\ m <= RequestMin + 1
    BY <1>1, <1>5, <1>6, <1>8, <2>1, <2>9 DEF k
  <2>11. Good
    BY <1>1, <1>4, <2>6, <2>10 DEF m
  <2> QED BY <2>11 DEF request, read
<1> QED BY <1>7, <1>8

\* build_request says what it was asked to say, in a datagram of the length it must have.
THEOREM RequestsRead == WireSpec => []RequestReadable
<1>1. Typed => RequestReadable
  <2> SUFFICES ASSUME packet \in Packets PROVE RequestReadable
    BY DEF Typed
  <2>1. packet.words \in Seq(Nat)
    BY DEF Packets
  <2> QED BY <2>1, RequestRead DEF RequestReadable
<1> QED BY <1>1, PacketsTyped, PTL

-----------------------------------------------------------------------------
(***************************************************************************)
(* A Merkle path stamps no nonce but those in the tree.  The invariant     *)
(* looks back along the climb: wherever in the tree the climber is, a leaf *)
(* of the tree is where it came from.  It needs of the hash that leaves    *)
(* and nodes differ (_TREE_LEAF, _TREE_NODE) and that a node determines    *)
(* its children.                                                           *)
(***************************************************************************)

Stamped == \E j \in Positions(tree, 0) : tree.level[0][j] = Leaf(nonce)

CameFromLeaf ==
  \A k \in 0 .. tree.height : \A i \in Positions(tree, k) :
    node = tree.level[k][i] => Stamped

IInv == tree \in Trees /\ CameFromLeaf

LEMMA LeafIsNoNode == ASSUME NEW n, NEW l, NEW r PROVE Leaf(n) # Node(l, r)
BY DEF Leaf, Node

LEMMA NodeInjective ==
  ASSUME NEW l, NEW r, NEW a, NEW b, Node(l, r) = Node(a, b) PROVE l = a /\ r = b
BY DEF Node

\* A hash of a tree is a leaf at the bottom, and above it a node over two hashes of the tree.
LEMMA TreeParts ==
  ASSUME NEW t \in Trees, NEW k \in 0 .. t.height, NEW i \in Positions(t, k)
  PROVE  /\ k = 0 => \E n \in Nonce : t.level[k][i] = Leaf(n)
         /\ k # 0 => /\ k - 1 \in 0 .. t.height
                     /\ 2 * i \in Positions(t, k - 1) /\ 2 * i + 1 \in Positions(t, k - 1)
                     /\ t.level[k][i] = Node(t.level[k - 1][2 * i], t.level[k - 1][2 * i + 1])
<1>1. IsTree(t)
  BY MerkleAssumption
<1>2. CASE k = 0
  BY <1>1, <1>2 DEF IsTree
<1>3. CASE k # 0
  <2>1. t.height \in Nat /\ k \in 1 .. t.height
    BY <1>1, <1>3 DEF IsTree
  <2> QED BY <1>1, <1>3, <2>1 DEF IsTree
<1> QED BY <1>2, <1>3

LEMMA IInvInit == MerkleInit => IInv
<1> SUFFICES ASSUME MerkleInit PROVE IInv
  OBVIOUS
<1> SUFFICES ASSUME NEW k \in 0 .. tree.height, NEW i \in Positions(tree, k),
                    Leaf(nonce) = tree.level[k][i]
             PROVE  Stamped
  BY DEF MerkleInit, IInv, CameFromLeaf
<1>1. tree \in Trees
  BY DEF MerkleInit
<1>2. k = 0
  BY <1>1, TreeParts, LeafIsNoNode
<1> QED BY <1>2 DEF Stamped

LEMMA IInvNext == IInv /\ [MerkleNext]_merkleVars => IInv'
<1> SUFFICES ASSUME IInv, [MerkleNext]_merkleVars PROVE IInv'
  OBVIOUS
<1>1. CASE UNCHANGED merkleVars
  BY <1>1 DEF merkleVars, IInv, CameFromLeaf, Stamped
<1>2. ASSUME NEW sibling \in Hashes, Climb(sibling) PROVE IInv'
  <2>1. tree' = tree /\ nonce' = nonce /\ tree \in Trees
    BY <1>2 DEF Climb, IInv
  <2> SUFFICES ASSUME NEW k \in 0 .. tree.height, NEW i \in Positions(tree, k),
                      node' = tree.level[k][i]
               PROVE  Stamped
    <3>1. Stamped' <=> Stamped
      BY <2>1 DEF Stamped, Positions
    <3>2. CameFromLeaf' <=> \A k \in 0 .. tree.height : \A i \in Positions(tree, k) :
                              node' = tree.level[k][i] => Stamped
      BY <2>1, <3>1 DEF CameFromLeaf, Positions
    <3> QED BY <2>1, <3>2 DEF IInv
  <2>2. PICK l, r : node' = Node(l, r) /\ node \in {l, r}
    <3>1. node' = Node(sibling, node) \/ node' = Node(node, sibling)
      BY <1>2 DEF Climb
    <3> QED BY <3>1
  <2>3. k # 0
    <3>1. \A n : Leaf(n) # tree.level[k][i]
      BY <2>2, LeafIsNoNode
    <3>2. ASSUME k = 0 PROVE \E n \in Nonce : tree.level[k][i] = Leaf(n)
      BY <2>1, <3>2, TreeParts
    <3> QED BY <3>1, <3>2
  <2>4. /\ k - 1 \in 0 .. tree.height
        /\ 2 * i \in Positions(tree, k - 1) /\ 2 * i + 1 \in Positions(tree, k - 1)
        /\ tree.level[k][i] = Node(tree.level[k - 1][2 * i], tree.level[k - 1][2 * i + 1])
    BY <2>1, <2>3, TreeParts
  <2>5. l = tree.level[k - 1][2 * i] /\ r = tree.level[k - 1][2 * i + 1]
    <3>1. Node(l, r) = Node(tree.level[k - 1][2 * i], tree.level[k - 1][2 * i + 1])
      BY <2>2, <2>4
    <3> QED BY <3>1, NodeInjective
  <2> QED BY <2>2, <2>4, <2>5 DEF IInv, CameFromLeaf
<1> QED BY <1>1, <1>2 DEF MerkleNext

\* No nonce is stamped that the server has not put into its tree, for trees of
\* any size and shape, any PATH and any INDX (merkle_root, verify_response).
THEOREM NoFalseStamp == MerkleSpec => []OnlyStamped
<1>1. IInv => OnlyStamped
  <2> SUFFICES ASSUME IInv, node = Root(tree) PROVE Stamped
    BY DEF OnlyStamped, Stamped
  <2>1. IsTree(tree)
    BY MerkleAssumption DEF IInv
  <2>2. tree.height \in 0 .. tree.height /\ 0 \in Positions(tree, tree.height)
    BY <2>1 DEF IsTree
  <2> QED BY <2>2 DEF IInv, CameFromLeaf, Root
<1> QED BY IInvInit, IInvNext, <1>1, PTL DEF MerkleSpec

-----------------------------------------------------------------------------
(***************************************************************************)
(* A climb ends at the root exactly when it begins at the leaf that INDX   *)
(* names, along that leaf's path.  The invariant follows the positions     *)
(* that the bits of INDX spell, from a position the climber may have       *)
(* reached down to the leaf below it.                                      *)
(***************************************************************************)

LEMMA Division ==
  ASSUME NEW a \in Nat, NEW c \in Nat \ {0}
  PROVE  a \div c \in Nat /\ a % c \in 0 .. c - 1 /\ a = c * (a \div c) + (a % c)
OBVIOUS

LEMMA DivisionUnique ==
  ASSUME NEW a \in Nat, NEW c \in Nat \ {0}, NEW q \in Nat, NEW r \in 0 .. c - 1, a = c * q + r
  PROVE  a \div c = q /\ a % c = r
OBVIOUS

LEMMA Halved ==
  ASSUME NEW a \in Nat, NEW c \in Nat \ {0} PROVE (a \div c) \div 2 = a \div (2 * c)
<1> DEFINE q == a \div c
           r == a % c
           s == q \div 2
           b == q % 2
<1>1. q \in Nat /\ r \in 0 .. c - 1 /\ a = c * q + r
  BY Division
<1> HIDE DEF q, r
<1>2. s \in Nat /\ b \in 0 .. 1 /\ q = 2 * s + b
  BY <1>1
<1> HIDE DEF s, b
<1>3. a = (2 * c) * s + (c * b + r)
  <2>1. c * q = c * (2 * s + b)
    BY <1>2
  <2>2. c * (2 * s + b) = (2 * c) * s + c * b
    BY <1>2
  <2> QED BY <1>1, <1>2, <2>1, <2>2
<1>4. c * b + r \in 0 .. 2 * c - 1
  <2>1. CASE b = 0
    BY <1>1, <2>1
  <2>2. CASE b = 1
    BY <1>1, <2>2
  <2> QED BY <1>2, <2>1, <2>2
<1>5. 2 * c \in Nat \ {0}
  OBVIOUS
<1>6. a \div (2 * c) = s
  BY <1>2, <1>3, <1>4, <1>5, DivisionUnique
<1> QED BY <1>6 DEF s, q

\* What is cut off above a bit leaves it as it was.
LEMMA LowBit ==
  ASSUME NEW a \in Nat, NEW c \in Nat \ {0}, NEW z \in Nat \ {0}
  PROVE  ((a % (c * (2 * z))) \div c) % 2 = (a \div c) % 2
<1> DEFINE d == c * (2 * z)
           u == a \div d
           p == a % d
           q == p \div c
           r == p % c
           y == z * u
<1>1. d \in Nat \ {0} /\ d = c * (2 * z)
  OBVIOUS
<1>2. u \in Nat /\ p \in 0 .. d - 1 /\ a = d * u + p
  BY <1>1, Division
<1> HIDE DEF d, u, p
<1>3. p \in Nat
  BY <1>1, <1>2
<1>4. q \in Nat /\ r \in 0 .. c - 1 /\ p = c * q + r
  BY <1>3, Division
<1> HIDE DEF q, r
<1>5. y \in Nat
  BY <1>2
<1>6. d * u = c * (2 * y)
  BY <1>1, <1>2
<1> HIDE DEF y
<1>7. c * (2 * y) + c * q = c * (2 * y + q)
  BY <1>4, <1>5
<1>8. a = c * (2 * y + q) + r /\ 2 * y + q \in Nat
  BY <1>2, <1>4, <1>5, <1>6, <1>7
<1>9. a \div c = 2 * y + q
  BY <1>4, <1>8, DivisionUnique
<1>10. (2 * y + q) % 2 = q % 2
  BY <1>4, <1>5
<1>11. q % 2 = (a \div c) % 2
  BY <1>9, <1>10
<1> QED BY <1>11 DEF q, p, d

Doubles(f, n) == f[0] = 1 /\ \A k \in 1 .. n : f[k] = 2 * f[k - 1]

LEMMA DoublesExists == ASSUME NEW n \in Nat PROVE \E f : Doubles(f, n)
<1> SUFFICES ASSUME ~ \E f : Doubles(f, n) PROVE FALSE
  OBVIOUS
<1> DEFINE T == {m \in Nat : ~ \E f : Doubles(f, m)}
<1>1. PICK m \in T : \A j \in T : m <= j
  <2>1. T \subseteq Nat /\ n \in T
    OBVIOUS
  <2> QED BY <2>1, LeastNat
<1>2. m \in Nat /\ ~ \E f : Doubles(f, m)
  BY <1>1
<1>3. CASE m = 0
  <2> DEFINE f == [k \in {0} |-> 1]
  <2>1. f[0] = 1 /\ 1 .. m = {}
    BY <1>3
  <2>2. Doubles(f, m)
    BY <2>1 DEF Doubles
  <2> QED BY <1>2, <2>2
<1>4. CASE m # 0
  <2>1. m - 1 \in Nat /\ ~ (m <= m - 1)
    BY <1>2, <1>4
  <2>2. PICK f : Doubles(f, m - 1)
    BY <1>1, <2>1
  <2> DEFINE g == [k \in 0 .. m |-> IF k = m THEN 2 * f[m - 1] ELSE f[k]]
  <2>3. g[0] = 1
    <3>1. 0 \in 0 .. m /\ 0 # m
      BY <1>2, <1>4
    <3> QED BY <2>2, <3>1 DEF Doubles
  <2>4. ASSUME NEW k \in 1 .. m PROVE g[k] = 2 * g[k - 1]
    <3>1. k \in 0 .. m /\ k - 1 \in 0 .. m /\ k - 1 # m
      BY <1>2
    <3>2. g[k - 1] = f[k - 1]
      BY <3>1
    <3>3. CASE k = m
      BY <3>1, <3>2, <3>3
    <3>4. CASE k # m
      <4>1. k \in 1 .. m - 1
        BY <1>2, <3>4
      <4> QED BY <2>2, <3>1, <3>2, <3>4, <4>1 DEF Doubles
    <3> QED BY <3>3, <3>4
  <2> HIDE DEF g
  <2>5. Doubles(g, m)
    BY <2>3, <2>4 DEF Doubles
  <2> QED BY <1>2, <2>5
<1> QED BY <1>3, <1>4

LEMMA DoublesUnique ==
  ASSUME NEW n \in Nat, NEW f, Doubles(f, n), NEW g, NEW m \in Nat, Doubles(g, m), n <= m,
         NEW c \in 0 .. n
  PROVE  f[c] = g[c]
<1> SUFFICES ASSUME f[c] # g[c] PROVE FALSE
  OBVIOUS
<1> DEFINE T == {k \in 0 .. n : f[k] # g[k]}
<1>1. PICK k \in T : \A j \in T : k <= j
  <2>1. T \subseteq Nat /\ c \in T
    OBVIOUS
  <2> QED BY <2>1, LeastNat
<1>2. k # 0
  BY <1>1 DEF Doubles
<1>3. k \in 1 .. n /\ k \in 1 .. m /\ k - 1 \in 0 .. n /\ ~ (k <= k - 1)
  BY <1>1, <1>2
<1>4. f[k - 1] = g[k - 1]
  BY <1>1, <1>3
<1>5. f[k] = g[k]
  BY <1>3, <1>4 DEF Doubles
<1> QED BY <1>1, <1>5

LEMMA Powers ==
  /\ Power[0] = 1
  /\ \A k \in Nat : Power[k] \in Nat \ {0} /\ Power[k + 1] = 2 * Power[k]
<1> DEFINE F == [k \in Nat |-> (CHOOSE f : Doubles(f, k))[k]]
<1>1. \A k \in Nat : Doubles(CHOOSE f : Doubles(f, k), k)
  BY DoublesExists
<1>2. F[0] = 1
  <2>1. Doubles(CHOOSE f : Doubles(f, 0), 0)
    BY <1>1
  <2> QED BY <2>1 DEF Doubles
<1>3. ASSUME NEW k \in Nat, k # 0 PROVE F[k] = 2 * F[k - 1]
  <2> DEFINE f == CHOOSE h : Doubles(h, k)
             g == CHOOSE h : Doubles(h, k - 1)
  <2>1. k - 1 \in Nat /\ k - 1 <= k /\ k - 1 \in 0 .. k - 1 /\ k \in 1 .. k
    BY <1>3
  <2>2. Doubles(f, k) /\ Doubles(g, k - 1)
    BY <1>1, <2>1
  <2>3. F[k] = f[k] /\ F[k - 1] = g[k - 1]
    BY <2>1
  <2> HIDE DEF f, g, F
  <2>4. g[k - 1] = f[k - 1]
    BY <2>1, <2>2, DoublesUnique
  <2>5. f[k] = 2 * f[k - 1]
    BY <2>1, <2>2 DEF Doubles
  <2> QED BY <2>3, <2>4, <2>5
<1>4. F = [k \in Nat |-> IF k = 0 THEN 1 ELSE 2 * F[k - 1]]
  <2>1. \A k \in Nat : F[k] = IF k = 0 THEN 1 ELSE 2 * F[k - 1]
    BY <1>2, <1>3
  <2>2. F = [k \in Nat |-> F[k]]
    OBVIOUS
  <2> HIDE DEF F
  <2> QED BY <2>1, <2>2
<1> HIDE DEF F
<1>5. Power = [k \in Nat |-> IF k = 0 THEN 1 ELSE 2 * Power[k - 1]]
  BY <1>4 DEF Power
<1>6. Power[0] = 1 /\ \A k \in Nat : Power[k + 1] = 2 * Power[k]
  <2>1. \A k \in Nat : k + 1 \in Nat /\ k + 1 # 0 /\ (k + 1) - 1 = k
    OBVIOUS
  <2>2. \A k \in Nat : Power[k] = IF k = 0 THEN 1 ELSE 2 * Power[k - 1]
    BY <1>5
  <2> QED BY <2>1, <2>2
<1>7. \A k \in Nat : Power[k] \in Nat \ {0}
  <2> SUFFICES ASSUME NEW c \in Nat, Power[c] \notin Nat \ {0} PROVE FALSE
    OBVIOUS
  <2> DEFINE T == {k \in Nat : Power[k] \notin Nat \ {0}}
  <2>1. PICK k \in T : \A j \in T : k <= j
    <3>1. T \subseteq Nat /\ c \in T
      OBVIOUS
    <3> QED BY <3>1, LeastNat
  <2>2. k # 0
    BY <1>6, <2>1
  <2>3. k - 1 \in Nat /\ (k - 1) + 1 = k /\ ~ (k <= k - 1)
    BY <2>1, <2>2
  <2>4. Power[k - 1] \in Nat \ {0} /\ Power[(k - 1) + 1] = 2 * Power[k - 1]
    BY <1>6, <2>1, <2>3
  <2> DEFINE x == Power[k - 1]
  <2>5. 2 * x \in Nat \ {0}
    BY <2>4
  <2>6. Power[k] \in Nat \ {0}
    BY <2>3, <2>4, <2>5
  <2> QED BY <2>1, <2>6
<1> QED BY <1>6, <1>7

LEMMA PowerSplit ==
  ASSUME NEW k \in Nat, NEW h \in Nat, k < h
  PROVE  \E z \in Nat \ {0} : Power[h] = Power[k] * (2 * z)
<1> DEFINE Split(m) == \E z \in Nat \ {0} : Power[m] = Power[k] * (2 * z)
           T == {m \in k + 1 .. h : ~ Split(m)}
<1> SUFFICES ASSUME ~ Split(h) PROVE FALSE
  OBVIOUS
<1>1. PICK m \in T : \A j \in T : m <= j
  <2>1. T \subseteq Nat /\ h \in T
    OBVIOUS
  <2> QED BY <2>1, LeastNat
<1>2. m \in k + 1 .. h /\ ~ Split(m) /\ \A j \in k + 1 .. h : j < m => Split(j)
  <2>1. \A j \in k + 1 .. h : j < m => ~ (m <= j)
    BY <1>1
  <2> QED BY <1>1, <2>1
<1> HIDE DEF T
<1>3. m - 1 \in Nat /\ (m - 1) + 1 = m /\ m - 1 < m
  BY <1>2
<1> DEFINE x == Power[k]
           y == Power[m - 1]
<1>4. x \in Nat \ {0} /\ y \in Nat \ {0} /\ Power[m] = 2 * y
  BY <1>3, Powers
<1>5. CASE m = k + 1
  <2>1. y = x
    BY <1>5
  <2>2. Power[m] = x * (2 * 1)
    BY <1>4, <2>1
  <2> QED BY <1>2, <2>2
<1>6. CASE m # k + 1
  <2>1. m - 1 \in k + 1 .. h
    BY <1>2, <1>6
  <2>2. PICK z \in Nat \ {0} : Power[m - 1] = Power[k] * (2 * z)
    BY <1>2, <1>3, <2>1
  <2> HIDE DEF Split
  <2>3. y = x * (2 * z)
    BY <2>2
  <2> HIDE DEF x, y
  <2>4. 2 * y = x * (2 * (2 * z)) /\ 2 * z \in Nat \ {0}
    BY <1>4, <2>3
  <2>5. Power[m] = Power[k] * (2 * (2 * z))
    BY <1>4, <2>4 DEF x
  <2>6. Split(m)
    BY <2>4, <2>5 DEF Split
  <2> QED BY <1>2, <2>6
<1> QED BY <1>5, <1>6

\* f is a way up to position i of level m whose turns are the bits of n.
Spelt(n, f, m, i) ==
  /\ f \in [0 .. m -> Nat] /\ f[m] = i
  /\ \A k \in 0 .. m - 1 : f[k] = 2 * f[k + 1] + ((n \div Power[k]) % 2)

\* The hashes of p are those along the way f in t, from a leaf with nonce n.
Climbed(t, n, p, f, m) ==
  /\ f[0] \in Positions(t, 0) /\ t.level[0][f[0]] = Leaf(n)
  /\ \A k \in 1 .. m : p[k] = t.level[k - 1][Sibling(f[k - 1])]

Levels ==
  /\ tree \in Trees /\ indx \in Nat /\ path \in Seq(Hashes)
  /\ index = indx \div Power[Len(path)]
  /\ \A k \in 0 .. tree.height : \A i \in Positions(tree, k) :
       node = tree.level[k][i] => k = Len(path)

Ways ==
  Len(path) <= tree.height =>
    \A i \in Positions(tree, Len(path)) : \A f :
      Spelt(indx, f, Len(path), i) =>
        (node = tree.level[Len(path)][i] <=> Climbed(tree, nonce, path, f, Len(path)))

Climbing == Levels /\ Ways

LEMMA ClimbingInit == MerkleInit => Climbing
<1> SUFFICES ASSUME MerkleInit PROVE Climbing
  OBVIOUS
<1>1. tree \in Trees /\ nonce \in Nonce /\ indx \in Nat /\ path = << >> /\ node = Leaf(nonce)
      /\ index = indx
  BY MerkleAssumption DEF MerkleInit
<1>2. path \in Seq(Hashes) /\ Len(path) = 0
  BY <1>1
<1>3. index = indx \div Power[Len(path)]
  <2>1. Power[0] = 1 /\ \A a \in Nat : a \div 1 = a
    BY Powers
  <2> QED BY <1>1, <1>2, <2>1
<1>4. ASSUME NEW k \in 0 .. tree.height, NEW i \in Positions(tree, k), node = tree.level[k][i]
      PROVE  k = Len(path)
  <2>1. ASSUME k # 0 PROVE FALSE
    <3>1. tree.level[k][i] = Node(tree.level[k - 1][2 * i], tree.level[k - 1][2 * i + 1])
      BY <1>1, <2>1, TreeParts
    <3> QED BY <1>1, <1>4, <3>1, LeafIsNoNode
  <2> QED BY <1>2, <2>1
<1>5. ASSUME NEW i \in Positions(tree, 0), NEW f, Spelt(indx, f, 0, i)
      PROVE  node = tree.level[0][i] <=> Climbed(tree, nonce, path, f, 0)
  <2>1. f[0] = i /\ 1 .. 0 = {}
    BY <1>5 DEF Spelt
  <2> QED BY <1>1, <2>1 DEF Climbed
<1>6. Levels
  BY <1>1, <1>2, <1>3, <1>4 DEF Levels
<1>7. Ways
  BY <1>2, <1>5 DEF Ways
<1> QED BY <1>6, <1>7 DEF Climbing

\* What one round makes of the climber: a node over it and the sibling
LEMMA RoundParts ==
  ASSUME Climbing, NEW sibling \in Hashes, Climb(sibling)
  PROVE  /\ tree' = tree /\ nonce' = nonce /\ indx' = indx /\ path' \in Seq(Hashes)
         /\ Len(path) \in Nat /\ Len(path') = Len(path) + 1 /\ path'[Len(path) + 1] = sibling
         /\ \A k \in 1 .. Len(path) : path'[k] = path[k]
         /\ node' = (IF (indx \div Power[Len(path)]) % 2 = 1 THEN Node(sibling, node)
                                                            ELSE Node(node, sibling))
         /\ index' = indx \div Power[Len(path) + 1]
<1>1. /\ tree' = tree /\ nonce' = nonce /\ indx' = indx /\ path' = Append(path, sibling)
      /\ node' = (IF index % 2 = 1 THEN Node(sibling, node) ELSE Node(node, sibling))
      /\ index' = index \div 2
  BY DEF Climb
<1>2. path \in Seq(Hashes) /\ index = indx \div Power[Len(path)] /\ indx \in Nat
  BY DEF Climbing, Levels
<1>3. Len(path) \in Nat
  BY <1>2, LenProperties
<1>4. path' \in Seq(Hashes) /\ Len(path') = Len(path) + 1 /\ path'[Len(path) + 1] = sibling
      /\ \A k \in 1 .. Len(path) : path'[k] = path[k]
  BY <1>1, <1>2
<1>5. index' = indx \div Power[Len(path) + 1]
  <2> DEFINE c == Power[Len(path)]
  <2>1. c \in Nat \ {0} /\ Power[Len(path) + 1] = 2 * c
    BY <1>3, Powers
  <2>2. index = indx \div c
    BY <1>2
  <2> HIDE DEF c
  <2>3. (indx \div c) \div 2 = indx \div (2 * c)
    BY <1>2, <2>1, Halved
  <2> QED BY <1>1, <2>1, <2>2, <2>3
<1> QED BY <1>1, <1>2, <1>3, <1>4, <1>5

LEMMA LevelsNext ==
  ASSUME Climbing, NEW sibling \in Hashes, Climb(sibling) PROVE Levels'
<1>1. /\ tree' = tree /\ indx' = indx /\ path' \in Seq(Hashes) /\ Len(path') = Len(path) + 1
      /\ Len(path) \in Nat /\ index' = indx \div Power[Len(path) + 1]
      /\ \E l, r : node' = Node(l, r) /\ node \in {l, r}
  <2>1. node' = Node(sibling, node) \/ node' = Node(node, sibling)
    BY RoundParts
  <2>2. \E l, r : node' = Node(l, r) /\ node \in {l, r}
    BY <2>1
  <2> QED BY <2>2, RoundParts
<1>2. /\ tree \in Trees /\ indx \in Nat
      /\ \A k \in 0 .. tree.height : \A i \in Positions(tree, k) :
           node = tree.level[k][i] => k = Len(path)
  BY DEF Climbing, Levels
<1>3. ASSUME NEW k \in 0 .. tree.height, NEW i \in Positions(tree, k), node' = tree.level[k][i]
      PROVE  k = Len(path) + 1
  <2>1. PICK l, r : node' = Node(l, r) /\ node \in {l, r}
    BY <1>1
  <2>2. k # 0
    <3>1. \A n : Leaf(n) # tree.level[k][i]
      BY <1>3, <2>1, LeafIsNoNode
    <3>2. ASSUME k = 0 PROVE \E n \in Nonce : tree.level[k][i] = Leaf(n)
      BY <1>2, <3>2, TreeParts
    <3> QED BY <3>1, <3>2
  <2>3. /\ k - 1 \in 0 .. tree.height
        /\ 2 * i \in Positions(tree, k - 1) /\ 2 * i + 1 \in Positions(tree, k - 1)
        /\ tree.level[k][i] = Node(tree.level[k - 1][2 * i], tree.level[k - 1][2 * i + 1])
    BY <1>2, <2>2, TreeParts
  <2>4. l = tree.level[k - 1][2 * i] /\ r = tree.level[k - 1][2 * i + 1]
    <3>1. Node(l, r) = Node(tree.level[k - 1][2 * i], tree.level[k - 1][2 * i + 1])
      BY <1>3, <2>1, <2>3
    <3> QED BY <3>1, NodeInjective
  <2>5. k - 1 = Len(path)
    BY <1>2, <2>1, <2>3, <2>4
  <2> QED BY <1>1, <2>5
<1>4. \A k : Positions(tree, k)' = Positions(tree, k)
  BY <1>1 DEF Positions
<1> QED BY <1>1, <1>2, <1>3, <1>4 DEF Levels, Positions

LEMMA WaysNext ==
  ASSUME Climbing, NEW sibling \in Hashes, Climb(sibling) PROVE Ways'
<1> DEFINE m == Len(path)
           bit == (indx \div Power[m]) % 2
<1>1. /\ tree' = tree /\ nonce' = nonce /\ indx' = indx
      /\ m \in Nat /\ Len(path') = m + 1 /\ path'[m + 1] = sibling
      /\ \A k \in 1 .. m : path'[k] = path[k]
      /\ node' = (IF bit = 1 THEN Node(sibling, node) ELSE Node(node, sibling))
  BY RoundParts
<1>2. tree \in Trees /\ indx \in Nat /\ tree.height \in Nat
  BY MerkleAssumption DEF Climbing, Levels, IsTree
<1>3. bit \in {0, 1}
  <2>1. Power[m] \in Nat \ {0}
    BY <1>1, Powers
  <2>2. indx \div Power[m] \in Nat
    BY <1>2, <2>1, Division
  <2> QED BY <2>2
<1> SUFFICES ASSUME m + 1 <= tree.height, NEW i \in Positions(tree, m + 1), NEW f,
                    Spelt(indx, f, m + 1, i)
             PROVE  node' = tree.level[m + 1][i] <=> Climbed(tree, nonce, path', f, m + 1)
  <2> HIDE DEF m, bit
  <2>1. Len(path') = m + 1 /\ \A k : Positions(tree, k)' = Positions(tree, k)
    BY <1>1 DEF Positions
  <2> QED BY <1>1, <2>1 DEF Ways
<1> HIDE DEF bit
<1>4. /\ f \in [0 .. m + 1 -> Nat] /\ f[m + 1] = i /\ f[m] = 2 * i + bit /\ f[m] \in Nat /\ i \in Nat
      /\ \A k \in 0 .. m - 1 : f[k] = 2 * f[k + 1] + ((indx \div Power[k]) % 2)
  <2>1. /\ f \in [0 .. m + 1 -> Nat] /\ f[m + 1] = i
        /\ \A k \in 0 .. (m + 1) - 1 : f[k] = 2 * f[k + 1] + ((indx \div Power[k]) % 2)
    BY DEF Spelt
  <2>2. m \in 0 .. (m + 1) - 1 /\ m \in 0 .. m + 1 /\ m + 1 \in 0 .. m + 1
        /\ \A k \in 0 .. m - 1 : k \in 0 .. (m + 1) - 1
    BY <1>1
  <2> HIDE DEF m
  <2> QED BY <2>1, <2>2 DEF bit
<1>5. /\ 2 * i \in Positions(tree, m) /\ 2 * i + 1 \in Positions(tree, m)
      /\ tree.level[m + 1][i] = Node(tree.level[m][2 * i], tree.level[m][2 * i + 1])
  <2>1. m + 1 \in 0 .. tree.height /\ m + 1 # 0 /\ (m + 1) - 1 = m
    BY <1>1, <1>2
  <2> HIDE DEF m
  <2> QED BY <1>2, <2>1, TreeParts
<1>6. f[m] \in Positions(tree, m)
  <2>1. f[m] = 2 * i \/ f[m] = 2 * i + 1
    <3> HIDE DEF m
    <3> QED BY <1>3, <1>4
  <2> HIDE DEF m
  <2> QED BY <1>5, <2>1
<1> DEFINE g == [k \in 0 .. m |-> f[k]]
<1>7. Spelt(indx, g, m, f[m])
  <2>1. g \in [0 .. m -> Nat] /\ g[m] = f[m]
    <3>1. m \in 0 .. m /\ \A k \in 0 .. m : k \in 0 .. m + 1
      BY <1>1
    <3> HIDE DEF m
    <3> QED BY <1>4, <3>1
  <2>2. \A k \in 0 .. m - 1 : g[k] = 2 * g[k + 1] + ((indx \div Power[k]) % 2)
    <3>1. \A k \in 0 .. m - 1 : k \in 0 .. m /\ k + 1 \in 0 .. m
      BY <1>1
    <3>2. \A k \in 0 .. m : g[k] = f[k]
      OBVIOUS
    <3> HIDE DEF g, m
    <3> QED BY <1>4, <3>1, <3>2
  <2> QED BY <2>1, <2>2 DEF Spelt
<1>8. node = tree.level[m][f[m]] <=> Climbed(tree, nonce, path, g, m)
  <2>1. m <= tree.height
    BY <1>1, <1>2
  <2> HIDE DEF g
  <2> QED BY <1>6, <1>7, <2>1 DEF Climbing, Ways
<1>9. node' = tree.level[m + 1][i]
        <=> node = tree.level[m][f[m]] /\ sibling = tree.level[m][Sibling(f[m])]
  <2> DEFINE a == tree.level[m][2 * i]
             b == tree.level[m][2 * i + 1]
  <2>1. CASE bit = 1
    <3>1. node' = Node(sibling, node)
      BY <1>1, <2>1
    <3>2. f[m] = 2 * i + 1 /\ Sibling(f[m]) = 2 * i
      <4>1. f[m] = 2 * i + 1
        BY <1>4, <2>1
      <4>2. (2 * i + 1) % 2 # 0 /\ (2 * i + 1) - 1 = 2 * i
        BY <1>4
      <4> QED BY <4>1, <4>2 DEF Sibling
    <3>3. Node(sibling, node) = Node(a, b) <=> sibling = a /\ node = b
      BY NodeInjective
    <3> QED BY <1>5, <3>1, <3>2, <3>3
  <2>2. CASE bit = 0
    <3>1. node' = Node(node, sibling)
      BY <1>1, <2>2
    <3>2. f[m] = 2 * i /\ Sibling(f[m]) = 2 * i + 1
      <4>1. f[m] = 2 * i
        BY <1>4, <2>2
      <4>2. (2 * i) % 2 = 0
        BY <1>4
      <4> QED BY <4>1, <4>2 DEF Sibling
    <3>3. Node(node, sibling) = Node(a, b) <=> node = a /\ sibling = b
      BY NodeInjective
    <3> QED BY <1>5, <3>1, <3>2, <3>3
  <2> QED BY <1>3, <2>1, <2>2
<1>10. Climbed(tree, nonce, path', f, m + 1) <=> Climbed(tree, nonce, path, g, m) /\ sibling = tree.level[m][Sibling(f[m])]
  <2>1. g[0] = f[0]
    <3>1. 0 \in 0 .. m
      BY <1>1
    <3> QED BY <3>1
  <2>2. \A k \in 1 .. m : g[k - 1] = f[k - 1]
    <3>1. \A k \in 1 .. m : k - 1 \in 0 .. m
      BY <1>1
    <3> QED BY <3>1
  <2> HIDE DEF g, m
  <2>3. (\A k \in 1 .. m + 1 : path'[k] = tree.level[k - 1][Sibling(f[k - 1])])
          <=> /\ \A k \in 1 .. m : path[k] = tree.level[k - 1][Sibling(g[k - 1])]
              /\ sibling = tree.level[m][Sibling(f[m])]
    <3>1. /\ m + 1 \in 1 .. m + 1 /\ (m + 1) - 1 = m
          /\ \A k \in 1 .. m : k \in 1 .. m + 1
          /\ \A k \in 1 .. m + 1 : k \in 1 .. m \/ k = m + 1
      BY <1>1
    <3> QED BY <1>1, <2>2, <3>1
  <2>4. Climbed(tree, nonce, path', f, m + 1) <=>
          /\ f[0] \in Positions(tree, 0) /\ tree.level[0][f[0]] = Leaf(nonce)
          /\ \A k \in 1 .. m + 1 : path'[k] = tree.level[k - 1][Sibling(f[k - 1])]
    BY DEF Climbed
  <2> QED BY <2>1, <2>3, <2>4 DEF Climbed
<1> QED BY <1>8, <1>9, <1>10

LEMMA ClimbingNext == Climbing /\ [MerkleNext]_merkleVars => Climbing'
<1> SUFFICES ASSUME Climbing, [MerkleNext]_merkleVars PROVE Climbing'
  OBVIOUS
<1>1. CASE UNCHANGED merkleVars
  BY <1>1 DEF merkleVars, Climbing, Levels, Ways, Positions
<1>2. ASSUME NEW sibling \in Hashes, Climb(sibling) PROVE Climbing'
  BY <1>2, LevelsNext, WaysNext DEF Climbing
<1> QED BY <1>1, <1>2 DEF MerkleNext

\* The way that the lowest h bits of a number spell, from its leaf up to the root
LEMMA SpeltFromLeaf ==
  ASSUME NEW n \in Nat, NEW h \in Nat, NEW p, p = n % Power[h]
  PROVE  Spelt(n, [k \in 0 .. h |-> p \div Power[k]], h, 0) /\ p \div Power[0] = p
<1> DEFINE f == [k \in 0 .. h |-> p \div Power[k]]
<1>1. Power[0] = 1 /\ \A k \in Nat : Power[k] \in Nat \ {0} /\ Power[k + 1] = 2 * Power[k]
  BY Powers
<1>2. p \in 0 .. Power[h] - 1 /\ p \in Nat
  <2> DEFINE c == Power[h]
  <2>1. c \in Nat \ {0}
    BY <1>1
  <2> HIDE DEF c
  <2>2. n % c \in 0 .. c - 1
    BY <2>1, Division
  <2>3. p = n % c
    BY DEF c
  <2>4. p \in 0 .. c - 1 /\ p \in Nat
    BY <2>1, <2>2, <2>3
  <2> QED BY <2>4 DEF c
<1>3. \A k \in 0 .. h : f[k] = p \div Power[k] /\ f[k] \in Nat
  <2> TAKE k \in 0 .. h
  <2>1. Power[k] \in Nat \ {0}
    BY <1>1
  <2>2. p \div Power[k] \in Nat
    BY <1>2, <2>1, Division
  <2> QED BY <2>2
<1>4. f \in [0 .. h -> Nat]
  BY <1>3
<1>5. f[h] = 0
  <2> DEFINE c == Power[h]
  <2>1. c \in Nat \ {0} /\ p \in 0 .. c - 1 /\ p = c * 0 + p /\ 0 \in Nat
    BY <1>1, <1>2
  <2> HIDE DEF c
  <2>2. p \div c = 0
    BY <1>2, <2>1, DivisionUnique
  <2>3. h \in 0 .. h
    OBVIOUS
  <2> QED BY <1>3, <2>2, <2>3 DEF c
<1>6. ASSUME NEW k \in 0 .. h - 1
      PROVE  f[k] = 2 * f[k + 1] + ((n \div Power[k]) % 2)
  <2> DEFINE c == Power[k]
             q == p \div c
  <2>1. k \in 0 .. h /\ k + 1 \in 0 .. h /\ k \in Nat /\ k < h
    OBVIOUS
  <2>2. c \in Nat \ {0} /\ Power[k + 1] = 2 * c
    BY <1>1, <2>1
  <2>3. PICK z \in Nat \ {0} : Power[h] = c * (2 * z)
    BY <2>1, PowerSplit
  <2>4. f[k] = q /\ f[k + 1] = p \div (2 * c) /\ q \in Nat
    BY <1>3, <2>1, <2>2
  <2>5. p = n % (c * (2 * z))
    BY <2>3
  <2> HIDE DEF c, f
  <2>6. q \div 2 = p \div (2 * c)
    BY <1>2, <2>2, Halved
  <2>7. q % 2 = (n \div c) % 2
    <3> DEFINE d == n % (c * (2 * z))
    <3>1. (d \div c) % 2 = (n \div c) % 2
      BY <2>2, LowBit
    <3>2. q = d \div c
      BY <2>5
    <3> HIDE DEF d, q
    <3> QED BY <3>1, <3>2
  <2>8. q = 2 * (q \div 2) + (q % 2)
    <3> HIDE DEF q
    <3> QED BY <2>4
  <2> QED BY <2>4, <2>6, <2>7, <2>8 DEF c
<1>7. p \div Power[0] = p
  <2>1. p \div 1 = p
    BY <1>2
  <2> QED BY <1>1, <2>1
<1> HIDE DEF f
<1>8. Spelt(n, f, h, 0)
  BY <1>4, <1>5, <1>6 DEF Spelt
<1> QED BY <1>7, <1>8 DEF f

\* merkle_root reaches the signed root from the leaf that INDX names, along its
\* own path, and in no other way, for trees of any height.
THEOREM ExactOpening == MerkleSpec => []OpeningExact
<1>1. Climbing => OpeningExact
  <2> SUFFICES ASSUME Climbing PROVE OpeningExact
    OBVIOUS
  <2> DEFINE h == tree.height
             p == indx % Power[h]
             f == [k \in 0 .. h |-> p \div Power[k]]
  <2>1. tree \in Trees /\ indx \in Nat
    BY DEF Climbing, Levels
  <2>2. h \in Nat /\ 0 \in Positions(tree, h)
    BY <2>1, MerkleAssumption DEF IsTree
  <2>3. Spelt(indx, f, h, 0) /\ p \div Power[0] = p
    <3> HIDE DEF h
    <3> QED BY <2>1, <2>2, SpeltFromLeaf
  <2>4. f[0] = p /\ \A k \in 1 .. h : f[k - 1] = p \div Power[k - 1]
    <3>1. 0 \in 0 .. h /\ \A k \in 1 .. h : k - 1 \in 0 .. h
      BY <2>2
    <3> QED BY <2>3, <3>1
  <2>5. Root(tree) = tree.level[h][0]
    BY DEF Root
  <2>6. node = tree.level[h][0] => h = Len(path)
    <3>1. h \in 0 .. h
      BY <2>2
    <3> QED BY <2>2, <3>1 DEF Climbing, Levels
  <2>7. OpeningExact <=>
          (node = Root(tree) <=> /\ p \in Positions(tree, 0) /\ tree.level[0][p] = Leaf(nonce)
                                 /\ Len(path) = h
                                 /\ \A k \in 1 .. h :
                                      path[k] = tree.level[k - 1][Sibling(p \div Power[k - 1])])
    BY DEF OpeningExact, IsPathOf
  <2> HIDE DEF f, p, h
  <2>8. ASSUME Len(path) = h
        PROVE  node = tree.level[h][0] <=> Climbed(tree, nonce, path, f, h)
    BY <2>2, <2>3, <2>8 DEF Climbing, Ways, h
  <2>9. Climbed(tree, nonce, path, f, h)
          <=> /\ p \in Positions(tree, 0) /\ tree.level[0][p] = Leaf(nonce)
              /\ \A k \in 1 .. h : path[k] = tree.level[k - 1][Sibling(p \div Power[k - 1])]
    BY <2>4 DEF Climbed
  <2>10. CASE Len(path) = h
    BY <2>5, <2>7, <2>8, <2>9, <2>10
  <2>11. CASE Len(path) # h
    BY <2>5, <2>6, <2>7, <2>11
  <2> QED BY <2>10, <2>11
<1> QED BY ClimbingInit, ClimbingNext, <1>1, PTL DEF MerkleSpec
=============================================================================
