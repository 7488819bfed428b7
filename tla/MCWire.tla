------------------------------- MODULE MCWire -------------------------------
(***************************************************************************)
(* Instances of Wire and Merkle in one run.  They share nothing: a state   *)
(* is either a packet that grows or a path that is climbed.                *)
(***************************************************************************)
EXTENDS Wire, Merkle

CONSTANTS n1, n2, n3

MCMagic == <<90, 91>>

\* The tree over 2^height leaves
TreeOver(height, leaves) ==
  LET level[k \in 0 .. height] ==
        [i \in 0 .. 2^(height - k) - 1 |->
           IF k = 0 THEN Leaf(leaves[i]) ELSE Node(level[k - 1][2 * i], level[k - 1][2 * i + 1])]
  IN [height |-> height, level |-> level]

MCTrees ==
  UNION {{TreeOver(h, leaves) : leaves \in [0 .. 2^h - 1 -> {n1, n2}]} : h \in 0 .. 2}

MCHashes ==
  LET leaves == {Leaf(n) : n \in {n1, n2}}
  IN leaves \cup {Node(l, r) : l \in leaves, r \in leaves}

NoPacket == packet = [words |-> <<>>, odd |-> 0]

NoClimb ==
  /\ tree = TreeOver(0, [i \in {0} |-> n1]) /\ nonce = n1 /\ indx = 0
  /\ path = <<>> /\ node = Leaf(n1) /\ index = 0

Init ==
  \/ WireInit /\ NoClimb
  \/ MerkleInit /\ NoPacket

Next ==
  \/ Longer /\ NoClimb /\ UNCHANGED merkleVars
  \/ NoPacket /\ MerkleNext /\ UNCHANGED packet

Spec == Init /\ [][Next]_<<packet, merkleVars>>
=============================================================================
