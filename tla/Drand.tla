------------------------------- MODULE Drand -------------------------------
(***************************************************************************)
(* The arithmetic of drand rounds and the offline check of a floor.        *)
(*                                                                         *)
(* A round is reduced to what verify_round can tell apart: the number it   *)
(* claims, the round whose BLS signature it carries, and whether its       *)
(* randomness is absent or the hash of that signature.                     *)
(***************************************************************************)
EXTENDS Integers

CONSTANTS
  Genesis,    \* genesis_time of the pinned chain
  Period,     \* its period
  Forged      \* a signature that the beacon never made for any round

ASSUME DrandAssumption ==
  /\ Genesis \in Nat
  /\ Period \in Nat \ {0}
  /\ Forged \notin Int

Floors == [round : Nat, signature : Nat \cup {Forged}, randomnessOK : BOOLEAN]

\* Mutant: the first round is taken for round zero.
TimeOfRoundFromZero(r) == Genesis + r * Period

TimeOfRound(r) == Genesis + (r - 1) * Period

\* Mutant: the round that is due next.
RoundAtTimeNext(t) ==
  IF t < Genesis THEN 1 ELSE (t - Genesis + Period - 1) \div Period + 1

RoundAtTime(t) ==
  IF t < Genesis THEN 1 ELSE (t - Genesis) \div Period + 1

\* verify_round; verify_floor reports TimeOfRound(f.round) besides
VerifyRound(f) == f.randomnessOK /\ f.signature = f.round
=============================================================================
