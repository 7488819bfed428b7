------------------------------- MODULE Chain -------------------------------
(***************************************************************************)
(* The prev_hash chain of the postregs that count toward one prereg        *)
(* (verifier._check_chain), and what it is supposed to mean.               *)
(*                                                                         *)
(* A receipt is known by a position i of a set R; ref[i] is its content    *)
(* reference and prev[i] the reference its prev_hash names, or NoLink.     *)
(* Positions rather than references, because the code keeps a list: the    *)
(* same manifest supplied twice is two receipts with one ref.              *)
(***************************************************************************)
EXTENDS Naturals, FiniteSets

CONSTANT NoLink         \* an absent link (JSON null or a missing key)

Roots(R, prev) == {i \in R : prev[i] = NoLink}

OneRoot(R, prev) ==
  \E i \in R : prev[i] = NoLink /\ \A j \in R : prev[j] = NoLink => j = i

NoGap(R, ref, prev) ==
  \A i \in R : prev[i] # NoLink => \E j \in R : ref[j] = prev[i]

NoFork(R, prev) ==
  \A i, j \in R : prev[i] # NoLink /\ prev[i] = prev[j] => i = j

\* Mutant: successors of one receipt are not looked at.
CheckChainForkBlind(R, ref, prev) ==
  R # {} => OneRoot(R, prev) /\ NoGap(R, ref, prev)

\* Mutant: any number of roots will do.
CheckChainManyRoots(R, ref, prev) ==
  R # {} => Roots(R, prev) # {} /\ NoGap(R, ref, prev) /\ NoFork(R, prev)

\* verifier._check_chain: the first component of its result
CheckChain(R, ref, prev) ==
  R # {} => /\ OneRoot(R, prev)
            /\ NoGap(R, ref, prev)
            /\ NoFork(R, prev)

(***************************************************************************)
(* The promise: "a single linear chain".  The receipts can be listed so    *)
(* that the first has no predecessor and each other one names the ref of   *)
(* the one before it.                                                      *)
(***************************************************************************)
Linear(R, ref, prev) ==
  \E s \in [1 .. Cardinality(R) -> R] :
    /\ \A i \in R : \E k \in 1 .. Cardinality(R) : s[k] = i
    /\ \A k \in 1 .. Cardinality(R) :
         prev[s[k]] = IF k = 1 THEN NoLink ELSE ref[s[k - 1]]
=============================================================================
