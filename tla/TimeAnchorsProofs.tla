------------------------- MODULE TimeAnchorsProofs -------------------------
(***************************************************************************)
(* Theorems about TimeAnchors, for any commands, mirrors, servers, windows *)
(* and pinned keys, and however long the clock runs.                       *)
(***************************************************************************)
EXTENDS TimeAnchors, TLAPS

-----------------------------------------------------------------------------
(* Rounds and times *)

\* Products grow with their first factor.
LEMMA ProductGrows ==
  ASSUME NEW a \in Int, NEW b \in Int, NEW p \in Nat, a <= b
  PROVE  a * p <= b * p
<1>1. PICK d \in Nat : b = a + d
  <2>1. b - a \in Nat /\ b = a + (b - a)
    OBVIOUS
  <2> QED BY <2>1
<1>2. d * p \in Nat
  OBVIOUS
<1>3. b * p = a * p + d * p
  BY <1>1
<1> QED BY <1>2, <1>3

\* The quotient is the only number between whose multiples the dividend lies.
LEMMA QuotientUnique ==
  ASSUME NEW n \in Nat, NEW p \in Nat \ {0}, NEW q \in Int,
         q * p <= n, n < (q + 1) * p
  PROVE  n \div p = q
<1> DEFINE k == n \div p
<1>1. k \in Int /\ k * p <= n /\ n < (k + 1) * p
  BY SMTT(30)
<1> HIDE DEF k
<1>2. ~ (k + 1 <= q)
  <2> SUFFICES ASSUME k + 1 <= q PROVE FALSE
    OBVIOUS
  <2>1. (k + 1) * p <= q * p
    BY <1>1, ProductGrows
  <2> QED BY <1>1, <2>1
<1>3. ~ (q + 1 <= k)
  <2> SUFFICES ASSUME q + 1 <= k PROVE FALSE
    OBVIOUS
  <2>1. (q + 1) * p <= k * p
    BY <1>1, ProductGrows
  <2> QED BY <1>1, <2>1
<1> QED BY <1>1, <1>2, <1>3 DEF k

\* Later rounds are made later.
LEMMA TimeGrows ==
  ASSUME NEW r \in Int, NEW s \in Int, r <= s
  PROVE  TimeOfRound(r) <= TimeOfRound(s)
<1>1. (r - 1) * Period <= (s - 1) * Period
  BY ProductGrows, DrandAssumption
<1>2. (r - 1) * Period \in Int /\ (s - 1) * Period \in Int
  BY DrandAssumption
<1> QED BY <1>1, <1>2, DrandAssumption DEF TimeOfRound

\* round_at_time gives the round within whose period the time lies, if there is one.
LEMMA RoundWithin ==
  ASSUME NEW r \in Int, NEW t \in Nat, t >= Genesis,
         TimeOfRound(r) <= t, t < TimeOfRound(r + 1)
  PROVE  RoundAtTime(t) = r
<1>1. t - Genesis \in Nat
  BY DrandAssumption
<1>2. (r - 1) * Period <= t - Genesis /\ t - Genesis < ((r - 1) + 1) * Period
  BY DrandAssumption DEF TimeOfRound
<1>3. (t - Genesis) \div Period = r - 1
  <2>1. r - 1 \in Int
    OBVIOUS
  <2> QED BY <1>1, <1>2, <2>1, QuotientUnique, DrandAssumption
<1> QED BY <1>3, DrandAssumption DEF RoundAtTime

\* round_at_time undoes time_of_round, for every round, genesis and period (drand.py; what
\* test_round_time_roundtrip tries for a few rounds).
THEOREM RoundTrip == \A r \in Nat \ {0} : RoundAtTime(TimeOfRound(r)) = r
<1> SUFFICES ASSUME NEW r \in Nat \ {0} PROVE RoundAtTime(TimeOfRound(r)) = r
  OBVIOUS
<1>1. (r - 1) * Period \in Nat
  BY DrandAssumption
<1>2. TimeOfRound(r) \in Nat /\ TimeOfRound(r) >= Genesis
  BY <1>1, DrandAssumption DEF TimeOfRound
<1>3. TimeOfRound(r + 1) = TimeOfRound(r) + Period
  BY DrandAssumption DEF TimeOfRound
<1>4. TimeOfRound(r) < TimeOfRound(r + 1)
  BY <1>2, <1>3, DrandAssumption
<1> QED BY <1>2, <1>4, RoundWithin

-----------------------------------------------------------------------------
(* The invariant *)

\* The beacon keeps its schedule.
OnSchedule ==
  /\ latest = 0 => clock < Genesis
  /\ latest # 0 => TimeOfRound(latest) <= clock
  /\ clock < TimeOfRound(latest + 1)

\* A floor that verifies is a round that had been made when its command signed.
FloorsMade ==
  \A c \in Committer :
    floor[c] # NoFloor /\ VerifyRound(floor[c]) =>
      /\ floor[c].round \in 1 .. latest
      /\ HasSigned(c) => TimeOfRound(floor[c].round) <= signedAt[c]

\* Nobody signs in the future.
SignedInTime == \A c \in Committer : signedAt[c] <= clock

\* A nonce is sent, and answered, after its body was signed, and an answer given in
\* the window of its delegation is right about the time.
AskedInTime == \A q \in asked : HasSigned(q.from)

AnswersRight ==
  \A d \in answers :
    /\ d.leaf \in Committer /\ HasSigned(d.leaf)
    /\ d.mint <= d.midp /\ d.midp <= d.maxt => signedAt[d.leaf] <= d.midp + d.radi

\* A ceiling is an answer that verified under the key pinned for its witness.
CeilingsVerified ==
  \A c \in Committer : ceiling[c] # NoCeiling =>
    LET k == ceiling[c] IN
    /\ k.response \in answers
    /\ k.nonce = c
    /\ k.witness \in Witness /\ SignerPins[k.witness] # NoKey
    /\ k.pubkey = SignerPins[k.witness]
    /\ VerifyResponse(k.response, c, k.pubkey)

IInv ==
  /\ TypeOK /\ OnSchedule
  /\ FloorsMade /\ SignedInTime
  /\ AskedInTime /\ AnswersRight /\ CeilingsVerified

-----------------------------------------------------------------------------
(* The invariant is inductive *)

\* The invariant holds at first.
LEMMA IInvInit == Init => IInv
<1> SUFFICES ASSUME Init PROVE IInv
  OBVIOUS
<1>1. TypeOK
  BY AnchorsAssumption DEF Init, TypeOK, Stages
<1>2. OnSchedule
  <2>1. CASE Genesis = 0
    BY <2>1, DrandAssumption DEF Init, OnSchedule, TimeOfRound
  <2>2. CASE Genesis # 0
    BY <2>2, DrandAssumption DEF Init, OnSchedule, TimeOfRound
  <2> QED BY <2>1, <2>2
<1>3. FloorsMade /\ SignedInTime /\ AskedInTime /\ AnswersRight /\ CeilingsVerified
  BY DEF Init, FloorsMade, SignedInTime, AskedInTime, AnswersRight, CeilingsVerified
<1> QED BY <1>1, <1>2, <1>3 DEF IInv

\* What a server answers is a response, and right if its delegation is open.
LEMMA AnswerKeeps == ASSUME IInv, NEW w \in Witness, Answer(w) PROVE IInv'
<1>1. PICK q \in asked, midp \in 0 .. MaxTime + Radius[w] :
        /\ InWindow(w, midp) => clock - Radius[w] <= midp /\ midp <= clock + Radius[w]
        /\ answers' = answers \cup
             {[longTerm |-> KeyOf[w], mint |-> Window[w][1], maxt |-> Window[w][2],
               midp |-> midp, radi |-> Radius[w], leaf |-> q.from, intact |-> TRUE]}
        /\ UNCHANGED <<clock, latest, asked, stage, turn, floor, signedAt, ceiling>>
  BY DEF Answer
<1> DEFINE d == [longTerm |-> KeyOf[w], mint |-> Window[w][1], maxt |-> Window[w][2],
                 midp |-> midp, radi |-> Radius[w], leaf |-> q.from, intact |-> TRUE]
<1>2. q.from \in Committer /\ HasSigned(q.from)
  BY DEF IInv, TypeOK, AskedInTime
<1>3. /\ Window[w][1] \in Nat /\ Window[w][2] \in Nat /\ Radius[w] \in Nat
      /\ KeyOf[w] \in Key /\ q.from \in Nonce /\ midp \in Nat
  BY <1>2, AnchorsAssumption
<1>4. d \in Responses
  BY <1>3 DEF Responses
<1>5. d.mint <= d.midp /\ d.midp <= d.maxt => signedAt[d.leaf] <= d.midp + d.radi
  <2>1. signedAt[q.from] \in Nat /\ signedAt[q.from] <= clock /\ clock \in Nat
    BY <1>2 DEF IInv, TypeOK, SignedInTime
  <2> QED BY <1>1, <1>3, <2>1 DEF InWindow
<1>6. d.leaf = q.from
  OBVIOUS
<1>7. answers' = answers \cup {d}
  BY <1>1
<1> HIDE DEF d
<1>8. TypeOK'
  BY <1>1, <1>4, <1>7 DEF IInv, TypeOK
<1>9. AnswersRight'
  BY <1>1, <1>2, <1>5, <1>6, <1>7 DEF IInv, AnswersRight, HasSigned
<1>10. CeilingsVerified'
  BY <1>1, <1>7 DEF IInv, CeilingsVerified
<1> QED BY <1>1, <1>8, <1>9, <1>10 DEF IInv, OnSchedule, FloorsMade, SignedInTime, AskedInTime,
                                      HasSigned

\* The clock moves on, and the beacon with it.
LEMMA TickKeeps == ASSUME IInv, Tick PROVE IInv'
<1>1. clock \in Nat /\ latest \in Nat /\ clock' = clock + 1
  BY DEF IInv, TypeOK, Tick
<1>2. TimeOfRound(latest + 1) = Genesis + latest * Period
  BY <1>1, DrandAssumption DEF TimeOfRound
<1>3. TimeOfRound(latest + 2) = TimeOfRound(latest + 1) + Period
  BY <1>1, DrandAssumption DEF TimeOfRound
<1>4. TimeOfRound(latest + 1) \in Int
  BY <1>1, <1>2, DrandAssumption
<1>5. OnSchedule' /\ latest' \in Nat /\ latest <= latest'
  <2>1. CASE clock + 1 = Genesis + latest * Period
    <3>1. latest' = latest + 1 /\ latest' # 0
      BY <1>1, <2>1 DEF Tick
    <3>2. TimeOfRound(latest') = clock'
      BY <1>1, <1>2, <2>1, <3>1
    <3>3. clock' < TimeOfRound(latest' + 1)
      <4>1. latest' + 1 = latest + 2
        BY <1>1, <3>1
      <4> QED BY <1>1, <1>2, <1>3, <1>4, <2>1, <4>1, DrandAssumption
    <3> QED BY <1>1, <3>1, <3>2, <3>3 DEF OnSchedule
  <2>2. CASE clock + 1 # Genesis + latest * Period
    <3>1. latest' = latest
      BY <2>2 DEF Tick
    <3>2. clock < TimeOfRound(latest + 1)
      BY DEF IInv, OnSchedule
    <3>3. clock' < TimeOfRound(latest' + 1)
      BY <1>1, <1>2, <1>4, <2>2, <3>1, <3>2
    <3>4. latest = 0 => TimeOfRound(latest + 1) = Genesis
      BY <1>2, DrandAssumption
    <3>5. latest # 0 => TimeOfRound(latest) <= clock'
      <4>1. TimeOfRound(latest) \in Int
        BY <1>1, DrandAssumption DEF TimeOfRound
      <4> QED BY <1>1, <4>1 DEF IInv, OnSchedule
    <3> QED BY <1>1, <3>1, <3>3, <3>4, <3>5 DEF OnSchedule
  <2> QED BY <2>1, <2>2
<1>6. UNCHANGED <<asked, answers, stage, turn, floor, signedAt, ceiling>>
  BY DEF Tick
<1>7. TypeOK'
  BY <1>1, <1>5, <1>6 DEF IInv, TypeOK
<1>8. FloorsMade'
  BY <1>1, <1>5, <1>6 DEF IInv, TypeOK, FloorsMade, HasSigned, Floors
<1>9. SignedInTime'
  BY <1>1, <1>6 DEF IInv, TypeOK, SignedInTime
<1> QED BY <1>5, <1>6, <1>7, <1>8, <1>9 DEF IInv, AskedInTime, AnswersRight, CeilingsVerified,
                                           HasSigned

\* A command changes nothing of the others, and of the world only what it asks.
LEMMA OthersStay ==
  ASSUME TypeOK, NEW c \in Committer, Step(c)
  PROVE  /\ UNCHANGED <<clock, latest, answers>> /\ asked \subseteq asked'
         /\ \A e \in Committer \ {c} :
              /\ stage'[e] = stage[e] /\ turn'[e] = turn[e] /\ floor'[e] = floor[e]
              /\ signedAt'[e] = signedAt[e] /\ ceiling'[e] = ceiling[e]
<1> USE DEF TypeOK, Goes, world
<1>1. CASE NoFloorWanted(c) \/ NoMirrorLeft(c) \/ NoServerLeft(c)
  BY <1>1 DEF NoFloorWanted, NoMirrorLeft, NoServerLeft
<1>2. CASE MirrorTrickles(c) \/ MirrorServes(c) \/ MirrorFails(c)
  BY <1>2 DEF MirrorTrickles, MirrorServes, MirrorFails
<1>3. CASE Sign(c) \/ Send(c)
  BY <1>3 DEF Sign, Send
<1>4. CASE SendFails(c) \/ NextServer(c)
  BY <1>4 DEF SendFails, NextServer
<1>5. CASE Receive(c)
  BY <1>5 DEF Receive
<1> QED BY <1>1, <1>2, <1>3, <1>4, <1>5 DEF Step

\* A command signs once, and what it has signed stays.
LEMMA OwnSignature ==
  ASSUME TypeOK, NEW c \in Committer, Step(c)
  PROVE  \/ ~ HasSigned(c) /\ ~ HasSigned(c)' /\ signedAt'[c] = signedAt[c]
         \/ Sign(c) /\ ~ HasSigned(c) /\ HasSigned(c)' /\ signedAt'[c] = clock
              /\ floor'[c] = floor[c]
         \/ HasSigned(c) /\ HasSigned(c)' /\ signedAt'[c] = signedAt[c] /\ floor'[c] = floor[c]
BY DEF TypeOK, Goes, Step, HasSigned, NoFloorWanted, MirrorTrickles, MirrorServes, MirrorFails,
       NoMirrorLeft, Sign, Send, SendFails, Receive, NextServer, NoServerLeft

\* An answer that verifies is one that was made, undamaged.
LEMMA IntactIsAnswer ==
  ASSUME TypeOK, NEW d \in Datagrams, d.intact PROVE d \in answers
<1>1. CASE d \in answers
  BY <1>1
<1>2. CASE \E a \in answers : d = [a EXCEPT !.intact = FALSE]
  <2>1. PICK a \in answers : d = [a EXCEPT !.intact = FALSE]
    BY <1>2
  <2>2. a \in Responses
    BY DEF TypeOK
  <2>3. d.intact = FALSE
    BY <2>1, <2>2 DEF Responses
  <2> QED BY <2>3
<1> QED BY <1>1, <1>2 DEF Datagrams

\* A command that reads a socket has asked a witness whose key it has pinned.
LEMMA AskedIsPinned ==
  ASSUME TypeOK, NEW c \in Committer, stage[c] = "recv"
  PROVE  LET w == Servers[turn[c]] IN
         w \in Witness /\ SignerPins[w] \in Key /\ SignerPins[w] # NoKey
<1> DEFINE i == turn[c]
<1>1. i \in 1 .. Len(Servers)
  <2>1. turn \in [Committer -> Nat \ {0}]
    BY DEF TypeOK
  <2>2. turn[c] <= Len(Servers)
    BY Zenon DEF TypeOK
  <2>3. Len(Servers) \in Nat
    BY AnchorsAssumption
  <2> QED BY <2>1, <2>2, <2>3
<1>2. Servers \in Seq(Witness) /\ SignerPins \in [Witness -> Key \cup {NoKey}]
  BY AnchorsAssumption DEF PinMaps
<1>3. Servers[i] \in Witness
  BY <1>1, <1>2
<1>4. SignerPins[Servers[i]] # NoKey
  BY <1>1, AnchorsAssumption
<1> QED BY <1>2, <1>3, <1>4

\* Types survive every step of a command.
LEMMA StepTyped == ASSUME IInv, NEW c \in Committer, Step(c) PROVE TypeOK'
<1> USE DEF TypeOK, Goes, Stages, world
<1>0. TypeOK
  BY DEF IInv
<1>1. CASE NoFloorWanted(c) \/ MirrorTrickles(c) \/ MirrorFails(c) \/ NoMirrorLeft(c)
  <2>1. CASE NoFloorWanted(c)
    BY <1>0, <2>1 DEF NoFloorWanted
  <2>2. CASE MirrorFails(c)
    <3>1. stage' \in [Committer -> Stages] /\ stage'[c] = "floor"
      BY <1>0, <2>2 DEF MirrorFails
    <3>2. turn' \in [Committer -> Nat \ {0}]
      BY <1>0, <2>2 DEF MirrorFails
    <3>3. \A e \in Committer : stage'[e] = "recv" => stage[e] = "recv" /\ turn'[e] = turn[e]
      BY <1>0, <2>2, <3>1 DEF MirrorFails
    <3> QED BY <1>0, <2>2, <3>1, <3>2, <3>3 DEF MirrorFails
  <2>3. CASE NoMirrorLeft(c)
    BY <1>0, <2>3 DEF NoMirrorLeft
  <2>4. CASE MirrorTrickles(c)
    BY <1>0, <2>4 DEF MirrorTrickles
  <2> QED BY <1>1, <2>1, <2>2, <2>3, <2>4
<1>2. CASE MirrorServes(c)
  <2>1. PICK f \in Served : floor' = [floor EXCEPT ![c] = f]
    BY <1>2 DEF MirrorServes
  <2>2. f \in Floors
    BY <1>0, <2>1, DrandAssumption DEF Served, Floors
  <2> QED BY <1>0, <1>2, <2>1, <2>2 DEF MirrorServes
<1>3. CASE Sign(c)
  BY <1>0, <1>3 DEF Sign
<1>4. CASE Send(c)
  <2>1. Servers[turn[c]] \in Witness
    BY <1>0, <1>4, AnchorsAssumption DEF Send
  <2> QED BY <1>0, <1>4, <2>1 DEF Send
<1>5. CASE SendFails(c) \/ NextServer(c) \/ NoServerLeft(c)
  <2>1. CASE SendFails(c)
    BY <1>0, <2>1 DEF SendFails
  <2>2. CASE NextServer(c)
    BY <1>0, <2>2 DEF NextServer
  <2>3. CASE NoServerLeft(c)
    BY <1>0, <2>3 DEF NoServerLeft
  <2> QED BY <1>5, <2>1, <2>2, <2>3
<1>6. CASE Receive(c)
  <2> DEFINE w == Servers[turn[c]]
  <2>1. PICK d \in Datagrams :
          /\ VerifyResponse(d, c, SignerPins[w])
          /\ ceiling' = [ceiling EXCEPT ![c] =
               [witness |-> w, pubkey |-> SignerPins[w], nonce |-> c, response |-> d]]
    BY <1>6 DEF Receive
  <2>2. d \in Responses
    BY <1>0, <2>1, IntactIsAnswer DEF VerifyResponse
  <2>3. w \in Witness /\ SignerPins[w] \in Key /\ c \in Nonce
    BY <1>0, <1>6, AskedIsPinned, AnchorsAssumption DEF Receive
  <2>4. [witness |-> w, pubkey |-> SignerPins[w], nonce |-> c, response |-> d] \in Ceilings
    BY <2>2, <2>3 DEF Ceilings
  <2> QED BY <1>0, <1>6, <2>1, <2>4 DEF Receive
<1> QED BY <1>1, <1>2, <1>3, <1>4, <1>5, <1>6 DEF Step

\* A floor is a round that has been made, and was when its command signed.
LEMMA StepFloors == ASSUME IInv, NEW c \in Committer, Step(c) PROVE FloorsMade'
<1> SUFFICES ASSUME NEW e \in Committer, floor'[e] # NoFloor, VerifyRound(floor'[e])
             PROVE  /\ floor'[e].round \in 1 .. latest'
                    /\ HasSigned(e)' => TimeOfRound(floor'[e].round) <= signedAt'[e]
  BY DEF FloorsMade
<1>0. TypeOK /\ FloorsMade /\ latest' = latest /\ latest \in Nat
  BY OthersStay DEF IInv, TypeOK
<1>1. CASE e # c
  BY <1>0, <1>1, OthersStay DEF FloorsMade, HasSigned
<1>2. CASE e = c /\ floor'[c] = floor[c]
  <2>1. floor[c].round \in 1 .. latest
    BY <1>0, <1>2 DEF FloorsMade
  <2>2. CASE Sign(c)
    <3>1. TimeOfRound(floor[c].round) <= TimeOfRound(latest)
      BY <1>0, <2>1, TimeGrows
    <3>2. latest # 0 /\ TimeOfRound(latest) <= clock
      BY <1>0, <2>1 DEF IInv, OnSchedule
    <3>3. /\ TimeOfRound(floor[c].round) \in Int /\ TimeOfRound(latest) \in Int
          /\ clock \in Int
      BY <1>0, <2>1, DrandAssumption DEF TimeOfRound, TypeOK
    <3> QED BY <1>0, <1>2, <2>1, <2>2, <3>1, <3>2, <3>3 DEF Sign, TypeOK
  <2>3. CASE ~ Sign(c)
    BY <1>0, <1>2, <2>1, <2>3, OwnSignature DEF FloorsMade
  <2> QED BY <2>2, <2>3
<1>3. CASE e = c /\ floor'[c] # floor[c]
  <2>1. MirrorServes(c)
    BY <1>0, <1>3 DEF Step, NoFloorWanted, MirrorTrickles, MirrorFails, NoMirrorLeft, Sign, Send,
                      SendFails, Receive, NextServer, NoServerLeft
  <2>2. floor'[c] \in Served /\ stage'[c] = "sign"
    BY <1>0, <2>1 DEF MirrorServes, TypeOK, Goes
  <2>3. floor'[c].round \in 1 .. latest
    BY <1>0, <1>3, <2>2, DrandAssumption DEF Served, VerifyRound
  <2> QED BY <1>0, <1>3, <2>2, <2>3 DEF HasSigned
<1> QED BY <1>1, <1>2, <1>3

\* A ceiling is an answer that verified under the key pinned for its witness.
LEMMA StepCeilings == ASSUME IInv, NEW c \in Committer, Step(c) PROVE CeilingsVerified'
<1> SUFFICES ASSUME NEW e \in Committer, ceiling'[e] # NoCeiling
             PROVE  LET k == ceiling'[e] IN
                    /\ k.response \in answers'
                    /\ k.nonce = e
                    /\ k.witness \in Witness /\ SignerPins[k.witness] # NoKey
                    /\ k.pubkey = SignerPins[k.witness]
                    /\ VerifyResponse(k.response, e, k.pubkey)
  BY DEF CeilingsVerified
<1>0. TypeOK /\ CeilingsVerified /\ answers' = answers
  BY OthersStay DEF IInv
<1>1. CASE e # c \/ ~ Receive(c)
  <2>1. ceiling'[e] = ceiling[e]
    <3>1. CASE e # c
      BY <1>0, <3>1, OthersStay
    <3>2. CASE ~ Receive(c)
      BY <3>2 DEF Step, NoFloorWanted, MirrorTrickles, MirrorServes, MirrorFails, NoMirrorLeft,
                  Sign, Send, SendFails, NextServer, NoServerLeft
    <3> QED BY <1>1, <3>1, <3>2
  <2> QED BY <1>0, <2>1 DEF CeilingsVerified
<1>2. CASE e = c /\ Receive(c)
  <2> DEFINE w == Servers[turn[c]]
  <2>1. PICK d \in Datagrams :
          /\ VerifyResponse(d, c, SignerPins[w])
          /\ ceiling' = [ceiling EXCEPT ![c] =
               [witness |-> w, pubkey |-> SignerPins[w], nonce |-> c, response |-> d]]
    BY <1>2 DEF Receive
  <2>2. d \in answers
    BY <1>0, <2>1, IntactIsAnswer DEF VerifyResponse
  <2>3. w \in Witness /\ SignerPins[w] # NoKey
    BY <1>0, <1>2, AskedIsPinned DEF Receive, Goes
  <2> QED BY <1>0, <1>2, <2>1, <2>2, <2>3 DEF TypeOK
<1> QED BY <1>1, <1>2

\* The invariant survives every step of a command.
LEMMA StepKeeps == ASSUME IInv, NEW c \in Committer, Step(c) PROVE IInv'
<1>1. TypeOK /\ UNCHANGED <<clock, latest, answers>>
  BY OthersStay DEF IInv
<1>2. TypeOK' /\ FloorsMade' /\ CeilingsVerified'
  BY StepTyped, StepFloors, StepCeilings
<1>3. OnSchedule'
  BY <1>1 DEF IInv, OnSchedule
<1>4. SignedInTime'
  <2> SUFFICES ASSUME NEW e \in Committer PROVE signedAt'[e] <= clock'
    BY DEF SignedInTime
  <2>1. signedAt[e] <= clock /\ clock \in Nat /\ signedAt[e] \in Nat
    BY <1>1 DEF IInv, SignedInTime, TypeOK
  <2>2. signedAt'[e] \in {signedAt[e], clock}
    BY <1>1, OthersStay, OwnSignature
  <2> QED BY <1>1, <2>1, <2>2
<1>5. \A e \in Committer : HasSigned(e) => HasSigned(e)' /\ signedAt'[e] = signedAt[e]
  BY <1>1, OthersStay, OwnSignature DEF HasSigned
<1>6. AskedInTime'
  <2>1. CASE Send(c)
    <3>1. HasSigned(c)
      BY <2>1 DEF Send, Goes, HasSigned
    <3> QED BY <1>1, <1>5, <2>1, <3>1 DEF IInv, TypeOK, AskedInTime, Send
  <2>2. CASE ~ Send(c)
    <3>1. asked' = asked
      BY <2>2 DEF Step, world, NoFloorWanted, MirrorTrickles, MirrorServes, MirrorFails,
                  NoMirrorLeft, Sign, SendFails, Receive, NextServer, NoServerLeft
    <3> QED BY <1>1, <1>5, <3>1 DEF IInv, TypeOK, AskedInTime
  <2> QED BY <2>1, <2>2
<1>7. AnswersRight'
  BY <1>1, <1>5 DEF IInv, AnswersRight
<1> QED BY <1>2, <1>3, <1>4, <1>6, <1>7 DEF IInv

\* The invariant is inductive.
LEMMA IInvNext == IInv /\ [Next]_vars => IInv'
<1> SUFFICES ASSUME IInv, [Next]_vars PROVE IInv'
  OBVIOUS
<1>1. CASE UNCHANGED vars
  BY <1>1 DEF vars, world, IInv, TypeOK, OnSchedule, FloorsMade, SignedInTime, AskedInTime,
              AnswersRight, CeilingsVerified, HasSigned
<1>2. CASE Next
  BY <1>2, TickKeeps, AnswerKeeps, StepKeeps DEF Next
<1> QED BY <1>1, <1>2

-----------------------------------------------------------------------------
(* Theorems *)

\* Every reachable state satisfies the invariant.
THEOREM Invariance == Spec => []IInv
BY IInvInit, IInvNext, PTL DEF Spec

\* TypeOK holds of every run of the commands.
THEOREM TypeCorrect == Spec => []TypeOK
<1>1. IInv => TypeOK
  BY DEF IInv
<1> QED BY Invariance, <1>1, PTL

\* "Created no earlier than": for any chain, any mirrors and any schedule, a floor that
\* the verifier accepts states a moment before the signature (drand.verify_floor).
THEOREM FloorBounds == Spec => []NoEarlierThan
<1>1. IInv => NoEarlierThan
  BY DEF IInv, FloorsMade, NoEarlierThan, HasSigned
<1> QED BY Invariance, <1>1, PTL

\* "Created no later than": for any servers, keys, radii, windows and network, a ceiling
\* that some verifier accepts for a body was made after it was signed, whichever manifest
\* the ceiling was fetched for (roughtime.verify_ceiling).
THEOREM CeilingBounds == Spec => []NoLaterThan
<1>1. IInv => NoLaterThan
  <2> SUFFICES ASSUME IInv, NEW c \in Committer, NEW e \in Committer, NEW pins \in VerifierPins,
                      ceiling[e] # NoCeiling, NEW pubkey \in {ceiling[e].pubkey, NoKey},
                      VerifyCeiling([ceiling[e] EXCEPT !.nonce = c, !.pubkey = pubkey], c, pins)
                        = "verified"
               PROVE  /\ HasSigned(c)
                      /\ signedAt[c] <= ceiling[e].response.midp + ceiling[e].response.radi
    BY DEF NoLaterThan, IInv, TypeOK, Ceilings
  <2> DEFINE moved == [ceiling[e] EXCEPT !.nonce = c, !.pubkey = pubkey]
             d == ceiling[e].response
  <2>1. ceiling[e] \in Ceilings
    BY DEF IInv, TypeOK
  <2>2. moved.response = d
    BY <2>1 DEF Ceilings
  <2>3. VerifyResponse(d, c, pins[moved.witness])
    BY <2>2 DEF VerifyCeiling
  <2>4. d \in answers /\ d.leaf = c /\ d.mint <= d.midp /\ d.midp <= d.maxt
    BY <2>3 DEF VerifyResponse, IInv, CeilingsVerified
  <2> QED BY <2>4 DEF IInv, AnswersRight
<1> QED BY Invariance, <1>1, PTL

\* A fetched ceiling is attributed to the witness that made it: a verifier that pins the
\* key that was pinned when it was fetched accepts it (fetch_ceiling, verify_ceiling).
THEOREM FetchedIsGood == Spec => []FetchedVerifies
<1>1. IInv => FetchedVerifies
  <2> SUFFICES ASSUME IInv, NEW c \in Committer, NEW pins \in VerifierPins,
                      ceiling[c] # NoCeiling
               PROVE  VerifyCeiling(ceiling[c], c, pins) =
                        IF pins[ceiling[c].witness] = NoKey THEN "unpinned"
                        ELSE IF pins[ceiling[c].witness] = SignerPins[ceiling[c].witness]
                        THEN "verified" ELSE "invalid"
    BY DEF FetchedVerifies
  <2>1. /\ ceiling[c].nonce = c /\ ceiling[c].pubkey = SignerPins[ceiling[c].witness]
        /\ SignerPins[ceiling[c].witness] # NoKey
        /\ VerifyResponse(ceiling[c].response, c, ceiling[c].pubkey)
    BY DEF IInv, CeilingsVerified
  <2> QED BY <2>1 DEF VerifyCeiling
<1> QED BY Invariance, <1>1, PTL

\* round_at_time is the round last made and time_of_round the moment it was made, at every
\* moment from the genesis on, for any genesis and any period (drand.py).
THEOREM Rounds == Spec => []RoundClock
<1>1. IInv => RoundClock
  <2> SUFFICES ASSUME IInv, clock >= Genesis
               PROVE  /\ RoundAtTime(clock) = latest
                      /\ TimeOfRound(latest) <= clock /\ clock < TimeOfRound(latest + 1)
    BY DEF RoundClock
  <2>1. clock \in Nat /\ latest \in Nat
    BY DEF IInv, TypeOK
  <2>2. latest # 0
    BY <2>1, DrandAssumption DEF IInv, OnSchedule
  <2>3. TimeOfRound(latest) <= clock /\ clock < TimeOfRound(latest + 1)
    BY <2>2 DEF IInv, OnSchedule
  <2> QED BY <2>1, <2>3, RoundWithin
<1> QED BY Invariance, <1>1, PTL
=============================================================================
