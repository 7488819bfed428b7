-------------------------------- MODULE Wire --------------------------------
(***************************************************************************)
(* The Roughtime wire format: build_message, parse_message, the framing of *)
(* a UDP packet and the padding of a request.                              *)
(*                                                                         *)
(* Bytes are read as little-endian words of four, and `odd' counts those   *)
(* after the last whole word.  A tag is its word, so _tag_key is the       *)
(* identity.  All values built here are whole words, as the real ones are  *)
(* (build_message refuses others).  A tag that is not ASCII makes          *)
(* parse_message raise another exception than the rest; its callers take   *)
(* both for a refusal.                                                     *)
(***************************************************************************)
EXTENDS Integers, Sequences, SequencesExt, FiniteSetsExt

CONSTANTS
  Word,           \* the words in play
  Ascii,          \* those that are ASCII tags
  MaxTags,        \* the most tags a message may have: 1024
  Magic,          \* "ROUGHTIM", two words
  VER, NONC, ZZZZ,  \* tags of a request
  Version,        \* the version in a request
  RequestMin,     \* _REQUEST_MIN_LEN in words: 256
  MaxWords        \* bound: no packet is longer

ASSUME WireAssumption ==
  /\ Word \subseteq Nat /\ MaxTags \in Nat
  /\ Magic \in Seq(Nat) /\ Len(Magic) = 2 /\ Magic[1] > MaxTags
  /\ {VER, NONC, ZZZZ} \subseteq Nat \cap Ascii /\ VER < NONC /\ NONC < ZZZZ
  /\ Version \in Nat /\ RequestMin \in Nat /\ MaxTags >= 3

VARIABLE packet     \* what has been received: [words, odd]

PacketBytes(d) == 4 * Len(d.words) + d.odd

\* The offsets in bytes at which the values of a message with n tags begin,
\* and the end of the last one
Bounds(d, n) == <<0>> \o SubSeq(d.words, 2, n) \o <<PacketBytes(d) - 8 * n>>

Tags(d, n) == SubSeq(d.words, n + 1, 2 * n)

IsHeader(d, n) == n \in 1 .. MaxTags /\ PacketBytes(d) >= 8 * n

\* Mutant: equal tags pass, and the last one wins.
AcceptsRepeats(d) ==
  /\ d.words # <<>>
  /\ LET n == d.words[1] IN
     /\ IsHeader(d, n)
     /\ \A i \in 1 .. n : Bounds(d, n)[i] <= Bounds(d, n)[i + 1]
     /\ \A i \in 1 .. n + 1 : Bounds(d, n)[i] % 4 = 0
     /\ \A i \in 1 .. n - 1 : Tags(d, n)[i] <= Tags(d, n)[i + 1]
     /\ \A i \in 1 .. n : Tags(d, n)[i] \in Ascii

\* parse_message raises nothing.
Accepts(d) ==
  /\ d.words # <<>>
  /\ LET n == d.words[1] IN
     /\ IsHeader(d, n)
     /\ \A i \in 1 .. n : Bounds(d, n)[i] <= Bounds(d, n)[i + 1]
     /\ \A i \in 1 .. n + 1 : Bounds(d, n)[i] % 4 = 0
     /\ \A i \in 1 .. n - 1 : Tags(d, n)[i] < Tags(d, n)[i + 1]
     /\ \A i \in 1 .. n : Tags(d, n)[i] \in Ascii

\* What parse_message returns of an accepted message
Fields(d) ==
  LET n == d.words[1]
      At(i) == 2 * n + Bounds(d, n)[i] \div 4
  IN [tag \in Range(Tags(d, n)) |->
        LET i == Max({j \in 1 .. n : Tags(d, n)[j] = tag})
        IN SubSeq(d.words, At(i) + 1, At(i + 1))]

\* The tags in their order
InOrder(S) ==
  CHOOSE s \in [1 .. Cardinality(S) -> S] : \A i, j \in 1 .. Cardinality(S) : i < j => s[i] < s[j]

\* build_message
Build(fields) ==
  LET tags == InOrder(DOMAIN fields)
      values == [i \in DOMAIN tags |-> fields[tags[i]]]
      End(i) == 4 * Len(FlattenSeq(SubSeq(values, 1, i)))
  IN [words |-> <<Len(tags)>> \o [i \in 1 .. Len(tags) - 1 |-> End(i)]
                  \o tags \o FlattenSeq(values),
      odd |-> 0]

\* Mutant: what padding adds to the header is forgotten.
PaddingWithoutHeader(unpadded) == [i \in 1 .. Max({0, RequestMin - unpadded}) |-> 0]

\* The value of ZZZZ, which brings two words of header with it
Padding(unpadded) == [i \in 1 .. Max({0, RequestMin - unpadded - 2}) |-> 0]

\* build_request
Request(nonce) ==
  LET fields == [tag \in {VER, NONC} |-> IF tag = VER THEN <<Version>> ELSE nonce]
      unpadded == Len(Build(fields).words)
      padded == [tag \in {VER, NONC, ZZZZ} |->
                   IF tag = ZZZZ THEN Padding(unpadded) ELSE fields[tag]]
  IN Build(IF unpadded < RequestMin THEN padded ELSE fields)

Framed(d) == [words |-> Magic \o <<PacketBytes(d)>> \o d.words, odd |-> d.odd]

\* Mutant: the length in the frame is not used.
StripRest(d) ==
  IF SubSeq(d.words, 1, 2) # Magic THEN d
  ELSE [words |-> SubSeq(d.words, 4, Len(d.words)), odd |-> d.odd]

\* _strip_framing of a packet that is no shorter than its frame; the length
\* stands for itself modulo four, and a packet that ends earlier ends there
Strip(d) ==
  IF SubSeq(d.words, 1, 2) # Magic THEN d
  ELSE LET bytes == Min({d.words[3], PacketBytes(d) - 12}) IN
       [words |-> SubSeq(d.words, 4, 3 + bytes \div 4), odd |-> bytes % 4]

WireInit == packet \in [words : {<<>>}, odd : 0 .. 3]

\* A packet is whatever arrives; one is reached from another word by word.
Longer ==
  /\ Len(packet.words) < MaxWords
  /\ \E w \in Word : packet' = [packet EXCEPT !.words = Append(@, w)]

WireSpec == WireInit /\ [][Longer]_packet

-----------------------------------------------------------------------------
(* Properties *)

\* parse_message is strict: what it accepts is the one message that says so,
\* no field lies in another, and none is dropped.
Canonical == Accepts(packet) => packet = Build(Fields(packet))

\* A message gets through _strip_framing with and without a frame, whatever
\* follows the frame, and none is taken for a frame.
FramingTransparent ==
  Accepts(packet) =>
    /\ Strip(packet) = packet
    /\ Strip(Framed(packet)) = packet
    /\ \A w \in Word : Strip([Framed(packet) EXCEPT !.words = Append(@, w)]) = packet

\* Whatever the length of a nonce, its request is read back as the request for
\* it; it is long enough for a server to answer, and padding adds no more than
\* one word to that.
RequestReadable ==
  packet.odd = 0 =>
    LET request == Request(packet.words)
        read == Fields(request)
    IN /\ Accepts(request)
       /\ {VER, NONC} \subseteq DOMAIN read /\ DOMAIN read \subseteq {VER, NONC, ZZZZ}
       /\ read[VER] = <<Version>> /\ read[NONC] = packet.words
       /\ Len(request.words) >= RequestMin
       /\ ZZZZ \in DOMAIN read => Len(request.words) <= RequestMin + 1
=============================================================================
