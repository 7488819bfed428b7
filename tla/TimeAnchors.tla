---------------------------- MODULE TimeAnchors ----------------------------
(***************************************************************************)
(* What the two time anchors of a manifest prove about when it was signed. *)
(* Composes Drand and Roughtime with the commands that use them: a command *)
(* tries the drand mirrors in turn for a floor, signs, and then asks the   *)
(* Roughtime servers in turn for a ceiling.  A command without --ceiling   *)
(* ends as one does that gets none and can do without.                     *)
(*                                                                         *)
(* Outside the program are the clock, the beacon, the mirrors, the servers *)
(* and the network.  Rounds do not exist before they are due.  A server is *)
(* right about the time as long as the window of its delegation is open;   *)
(* with another time it may sign anything.  Datagrams are lost, damaged,   *)
(* late, repeated, or delivered to another socket than the one meant:      *)
(* fetch_ceiling opens a socket for each server and reads one datagram     *)
(* from it, whoever sent it.                                               *)
(***************************************************************************)
EXTENDS Drand, Roughtime, Sequences, FiniteSets

CONSTANTS
  Committer,    \* the commands; each signs one body, known by its committer
  WithFloor,    \* those given --floor
  BestEffort,   \* those given --best-effort
  MirrorCount,  \* Len(_API_MIRRORS)
  Servers,      \* the witness ids of SERVERS, in order
  SignerPins,   \* the keys pinned where the commands run
  KeyOf,        \* the long-term key that each witness has
  Window,       \* the window of each witness's delegation, <<mint, maxt>>
  Radius,       \* the radius each witness states
  VerifierPins, \* the keys pinned where manifests are verified: a set of maps
  NoFloor, NoCeiling,
  MaxTime,      \* bound: the clock stops there
  MaxAnswers    \* bound: no witness answers more often

ASSUME AnchorsAssumption ==
  /\ Committer \subseteq Nonce
  /\ MirrorCount \in Nat /\ MaxTime \in Nat /\ MaxAnswers \in Nat
  /\ Servers \in Seq(Witness)
  /\ SignerPins \in PinMaps /\ VerifierPins \subseteq PinMaps
  /\ \A i \in 1 .. Len(Servers) : SignerPins[Servers[i]] # NoKey
  /\ KeyOf \in [Witness -> Key]
  /\ Window \in [Witness -> Nat \X Nat] /\ Radius \in [Witness -> Nat]
  /\ NoFloor \notin Floors /\ NoCeiling \notin Ceilings

VARIABLES
  clock,      \* the true time
  latest,     \* the last round that the beacon has made
  asked,      \* the requests sent: whose nonce, to which witness
  answers,    \* the responses made
  stage,      \* where each command is
  turn,       \* the mirror or server it is at
  floor,      \* anchor.floor of its body
  signedAt,   \* when it signed
  ceiling     \* the ceiling of its envelope

world == <<clock, latest, asked, answers>>
vars == <<world, stage, turn, floor, signedAt, ceiling>>

\* trickled: held by a mirror that sends a byte now and then
Stages == {"floor", "trickled", "sign", "send", "recv", "done", "failed", "refused"}

Goes(c, from, to) == stage[c] = from /\ stage' = [stage EXCEPT ![c] = to]

Init ==
  /\ clock = 0
  /\ latest = IF Genesis = 0 THEN 1 ELSE 0
  /\ asked = {} /\ answers = {}
  /\ stage = [c \in Committer |-> "floor"]
  /\ turn = [c \in Committer |-> 1]
  /\ floor = [c \in Committer |-> NoFloor]
  /\ signedAt = [c \in Committer |-> 0]
  /\ ceiling = [c \in Committer |-> NoCeiling]

-----------------------------------------------------------------------------
(* The world *)

\* The beacon makes a round at its genesis and one every period after it.
Tick ==
  /\ clock < MaxTime
  /\ clock' = clock + 1
  /\ latest' = IF clock + 1 = Genesis + latest * Period THEN latest + 1 ELSE latest
  /\ UNCHANGED <<asked, answers, stage, turn, floor, signedAt, ceiling>>

InWindow(w, t) == Window[w][1] <= t /\ t <= Window[w][2]

\* A witness answers a request, now or later, once or again.
Answer(w) ==
  \E q \in asked, midp \in 0 .. MaxTime + Radius[w] :
    /\ q.to = w
    /\ Cardinality({d \in answers : d.longTerm = KeyOf[w]}) < MaxAnswers
    /\ InWindow(w, midp) => clock - Radius[w] <= midp /\ midp <= clock + Radius[w]
    /\ answers' = answers \cup
         {[longTerm |-> KeyOf[w], mint |-> Window[w][1], maxt |-> Window[w][2],
           midp |-> midp, radi |-> Radius[w], leaf |-> q.from, intact |-> TRUE]}
    /\ UNCHANGED <<clock, latest, asked, stage, turn, floor, signedAt, ceiling>>

\* What may be read from a socket
Datagrams == answers \cup {[d EXCEPT !.intact = FALSE] : d \in answers}

\* What a mirror may serve as its latest round: an old one, one under another
\* number, one with a signature or a randomness that is wrong.
Served ==
  [round : 1 .. latest + 1, signature : 1 .. latest \cup {Forged}, randomnessOK : BOOLEAN]

-----------------------------------------------------------------------------
(* The commands *)

\* _get_floor without --floor
NoFloorWanted(c) ==
  /\ c \notin WithFloor
  /\ Goes(c, "floor", "sign")
  /\ UNCHANGED <<world, turn, floor, signedAt, ceiling>>

\* The timeout of urlopen is one of each socket operation, and json.load reads to
\* the end of the body: a mirror that does send something, but no end of it, keeps
\* the command for as long as it likes.
MirrorTrickles(c) ==
  /\ c \in WithFloor /\ turn[c] <= MirrorCount
  /\ Goes(c, "floor", "trickled")
  /\ UNCHANGED <<world, turn, floor, signedAt, ceiling>>

\* fetch_round: the first well-formed round is taken; nobody verifies it now.
MirrorServes(c) ==
  /\ c \in WithFloor /\ turn[c] <= MirrorCount
  /\ Goes(c, "floor", "sign") \/ Goes(c, "trickled", "sign")
  /\ \E f \in Served : floor' = [floor EXCEPT ![c] = f]
  /\ UNCHANGED <<world, turn, signedAt, ceiling>>

\* The mirror is not found, is silent for too long, or what it serves is no round.
MirrorFails(c) ==
  /\ c \in WithFloor /\ turn[c] <= MirrorCount
  /\ Goes(c, "floor", "floor") \/ Goes(c, "trickled", "floor")
  /\ turn' = [turn EXCEPT ![c] = @ + 1]
  /\ UNCHANGED <<world, floor, signedAt, ceiling>>

\* NetworkError, and what _get_floor makes of it: "nothing was signed"
NoMirrorLeft(c) ==
  /\ c \in WithFloor /\ turn[c] > MirrorCount
  /\ Goes(c, "floor", IF c \in BestEffort THEN "sign" ELSE "refused")
  /\ UNCHANGED <<world, turn, floor, signedAt, ceiling>>

\* build_prereg or build_postreg, then sign
Sign(c) ==
  /\ Goes(c, "sign", "send")
  /\ signedAt' = [signedAt EXCEPT ![c] = clock]
  /\ turn' = [turn EXCEPT ![c] = 1]
  /\ UNCHANGED <<world, floor, ceiling>>

\* fetch_ceiling: a socket, and the request sent from it
Send(c) ==
  /\ turn[c] <= Len(Servers)
  /\ Goes(c, "send", "recv")
  /\ asked' = asked \cup {[from |-> c, to |-> Servers[turn[c]]]}
  /\ UNCHANGED <<clock, latest, answers, turn, floor, signedAt, ceiling>>

\* The host is not found or not reached.
SendFails(c) ==
  /\ turn[c] <= Len(Servers)
  /\ stage[c] = "send"
  /\ turn' = [turn EXCEPT ![c] = @ + 1]
  /\ UNCHANGED <<world, stage, floor, signedAt, ceiling>>

\* Mutant: the answer is verified against all pinned keys.
ReceiveAnyKey(c) ==
  /\ Goes(c, "recv", "done")
  /\ \E d \in Datagrams :
       LET w == Servers[turn[c]] IN
       /\ VerifyResponse(d, c, d.longTerm)
       /\ ceiling' = [ceiling EXCEPT ![c] =
            [witness |-> w, pubkey |-> SignerPins[w], nonce |-> c, response |-> d]]
  /\ UNCHANGED <<world, turn, floor, signedAt>>

\* The first datagram verifies under the key pinned for the server asked.
Receive(c) ==
  /\ Goes(c, "recv", "done")
  /\ \E d \in Datagrams :
       LET w == Servers[turn[c]] IN
       /\ VerifyResponse(d, c, SignerPins[w])
       /\ ceiling' = [ceiling EXCEPT ![c] =
            [witness |-> w, pubkey |-> SignerPins[w], nonce |-> c, response |-> d]]
  /\ UNCHANGED <<world, turn, floor, signedAt>>

\* Mutant: the socket has no timeout.
NextServerWhenRead(c) ==
  /\ Goes(c, "recv", "send")
  /\ \E d \in Datagrams : ~ VerifyResponse(d, c, SignerPins[Servers[turn[c]]])
  /\ turn' = [turn EXCEPT ![c] = @ + 1]
  /\ UNCHANGED <<world, floor, signedAt, ceiling>>

\* Mutant: the next server is awaited without being asked.
NextServerUnasked(c) ==
  /\ Goes(c, "recv", "recv")
  /\ turn' = [turn EXCEPT ![c] = @ + 1]
  /\ UNCHANGED <<world, floor, signedAt, ceiling>>

\* The first datagram does not verify, or none came within the timeout, which
\* is possible whatever is on its way.
NextServer(c) ==
  /\ Goes(c, "recv", "send")
  /\ turn' = [turn EXCEPT ![c] = @ + 1]
  /\ UNCHANGED <<world, floor, signedAt, ceiling>>

\* NetworkError, and what _attach_ceiling makes of it: "nothing was written"
NoServerLeft(c) ==
  /\ turn[c] > Len(Servers)
  /\ Goes(c, "send", IF c \in BestEffort THEN "done" ELSE "failed")
  /\ UNCHANGED <<world, turn, floor, signedAt, ceiling>>

Step(c) ==
  \/ NoFloorWanted(c)
  \/ MirrorTrickles(c) \/ MirrorServes(c) \/ MirrorFails(c) \/ NoMirrorLeft(c)
  \/ Sign(c)
  \/ Send(c) \/ SendFails(c) \/ Receive(c) \/ NextServer(c) \/ NoServerLeft(c)

Next ==
  \/ Tick
  \/ \E w \in Witness : Answer(w)
  \/ \E c \in Committer : Step(c)

Spec == Init /\ [][Next]_vars

\* A command goes on as long as it can, unless a mirror holds it: the one read of
\* a Roughtime socket has a timeout, and so has every single operation on an HTTP
\* connection.  (The resolver of the host is taken to give up on a name in the
\* end, as no timeout of the program covers it.)  Nothing is asked of the world.
FairSpec == Spec /\ \A c \in Committer : WF_vars(stage[c] # "trickled" /\ Step(c))

-----------------------------------------------------------------------------
(* Properties *)

HasSigned(c) == stage[c] \in {"send", "recv", "done", "failed"}

\* Type correctness: in particular a command that reads a socket has asked.
TypeOK ==
  /\ clock \in Nat /\ latest \in Nat
  /\ asked \subseteq [from : Committer, to : Witness]
  /\ answers \subseteq Responses
  /\ stage \in [Committer -> Stages]
  /\ turn \in [Committer -> Nat \ {0}]
  /\ floor \in [Committer -> Floors \cup {NoFloor}]
  /\ signedAt \in [Committer -> Nat]
  /\ ceiling \in [Committer -> Ceilings \cup {NoCeiling}]
  /\ \A c \in Committer : stage[c] = "recv" =>
       turn[c] <= Len(Servers) /\ [from |-> c, to |-> Servers[turn[c]]] \in asked

\* "Embedding a drand round proves a manifest was created no earlier than that
\* round's time": whatever a mirror has served, a floor that the verifier
\* accepts states a time that had come when the manifest was signed.
NoEarlierThan ==
  \A c \in Committer :
    stage[c] = "done" /\ floor[c] # NoFloor /\ VerifyRound(floor[c])
      => TimeOfRound(floor[c].round) <= signedAt[c]

\* "A ceiling proves a manifest was created no later than time T": if any
\* verifier accepts a ceiling for a body, whoever fetched it and for whichever
\* body, then that body was signed before midpoint + radius.  The record is not
\* signed, so that its key may have been left out as well.
NoLaterThan ==
  \A c, e \in Committer : \A pins \in VerifierPins :
    stage[e] = "done" /\ ceiling[e] # NoCeiling =>
      \A pubkey \in {ceiling[e].pubkey, NoKey} :
      LET moved == [ceiling[e] EXCEPT !.nonce = c, !.pubkey = pubkey] IN
      VerifyCeiling(moved, c, pins) = "verified" =>
        /\ HasSigned(c)
        /\ signedAt[c] <= moved.response.midp + moved.response.radi

\* What fetch_ceiling returns is attributed to the witness that made it: every
\* verifier that pins the same key for that witness accepts it, one that pins
\* none calls it unpinned, and only one that pins another key refuses it.
FetchedVerifies ==
  \A c \in Committer : \A pins \in VerifierPins :
    stage[c] = "done" /\ ceiling[c] # NoCeiling =>
      LET w == ceiling[c].witness IN
      VerifyCeiling(ceiling[c], c, pins) =
        IF pins[w] = NoKey THEN "unpinned"
        ELSE IF pins[w] = SignerPins[w] THEN "verified" ELSE "invalid"

\* round_at_time gives the round that the beacon made last, and time_of_round
\* the moment it was made, from the genesis on.  (Before it round_at_time gives
\* round 1, which does not exist yet.)
RoundClock ==
  clock >= Genesis =>
    /\ RoundAtTime(clock) = latest
    /\ TimeOfRound(latest) <= clock /\ clock < TimeOfRound(latest + 1)

\* A command that fetches witnesses comes to an end, whatever mirrors, servers
\* and network do or fail to do, but for one thing: that from some moment on one
\* mirror holds it for ever.  No Roughtime server can do that.
FetchEnds ==
  \A c \in Committer :
    \/ <>(stage[c] \in {"done", "failed", "refused"})
    \/ c \in WithFloor /\ <>[](stage[c] = "trickled")
=============================================================================
