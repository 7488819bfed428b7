--------------------------- MODULE MCTimeAnchors ---------------------------
(***************************************************************************)
(* Two commands, two mirrors, two servers of which the second has a        *)
(* delegation that runs out, and a clock that passes the genesis of the    *)
(* beacon and two of its rounds.                                           *)
(***************************************************************************)
EXTENDS TimeAnchors

CONSTANTS c1, c2, w1, w2, k1, k2, k3

MCWindow == [w \in Witness |-> IF w = w1 THEN <<0, 9>> ELSE <<1, 2>>]
MCRadius == [w \in Witness |-> IF w = w1 THEN 1 ELSE 0]
MCKeyOf == [w \in Witness |-> IF w = w1 THEN k1 ELSE k2]
MCServers == <<w1, w2>>

\* Installations that know both witnesses, one of them, and a new key of one
MCVerifierPins ==
  {MCKeyOf, [MCKeyOf EXCEPT ![w2] = NoKey], [MCKeyOf EXCEPT ![w1] = k3]}
=============================================================================
