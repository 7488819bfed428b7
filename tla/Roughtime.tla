----------------------------- MODULE Roughtime -----------------------------
(***************************************************************************)
(* The offline check of a Roughtime response and of a ceiling record.      *)
(*                                                                         *)
(* A response is reduced to what verify_response can tell apart.  `leaf'   *)
(* is the nonce that its PATH and INDX lead from to the signed ROOT; Wire  *)
(* checks that merkle_root accepts that nonce and no other.  Signatures    *)
(* are perfect: a datagram is `intact' iff it parses and both signatures   *)
(* are by the keys that it names.                                          *)
(***************************************************************************)
EXTENDS Integers

CONSTANTS
  Witness,    \* the witness ids in play
  Key,        \* long-term keys
  NoKey,      \* no key: none is pinned for this witness, or stated in this record
  Nonce       \* what a client may ask to be stamped: refs of bodies

ASSUME RoughtimeAssumption == NoKey \notin Key

Responses ==
  [longTerm : Key,                  \* who signed the delegation (CERT)
   mint : Nat, maxt : Nat,          \* the window it is good for
   midp : Nat, radi : Nat,          \* the time the delegated key signed (SREP)
   leaf : Nonce,
   intact : BOOLEAN]

Ceilings ==
  [witness : Witness, pubkey : Key \cup {NoKey}, nonce : Nonce, response : Responses]

\* What an installation pins: a key for each witness it knows
PinMaps == [Witness -> Key \cup {NoKey}]

\* Mutant: the Merkle path is not checked.
VerifyResponseAnyLeaf(d, nonce, pubkey) ==
  d.intact /\ d.longTerm = pubkey /\ d.mint <= d.midp /\ d.midp <= d.maxt

VerifyResponse(d, nonce, pubkey) ==
  /\ d.intact /\ d.longTerm = pubkey
  /\ d.leaf = nonce
  /\ d.mint <= d.midp /\ d.midp <= d.maxt

\* verify_ceiling of a manifest whose body has the ref `nonce': a record need not
\* state the long-term key; if it does, it is the pinned one.
VerifyCeiling(c, nonce, pins) ==
  CASE c.nonce # nonce                                -> "invalid"
    [] c.nonce = nonce /\ pins[c.witness] = NoKey     -> "unpinned"
    [] OTHER -> IF /\ c.pubkey \in {NoKey, pins[c.witness]}
                   /\ VerifyResponse(c.response, nonce, pins[c.witness])
                THEN "verified" ELSE "invalid"
=============================================================================
