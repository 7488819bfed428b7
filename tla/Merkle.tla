------------------------------- MODULE Merkle -------------------------------
(***************************************************************************)
(* How a Roughtime response ties a nonce to the root that a server signed: *)
(* merkle_root climbs from the nonce along PATH, and at each level the     *)
(* lowest bit of what is left of INDX says on which side the climber is.   *)
(*                                                                         *)
(* SHA-512 is a free constructor: equal hashes have equal arguments.  A    *)
(* tree is [height, level]: level[k] maps the positions of level k to      *)
(* hashes, level 0 holds the leaves and level[height][0] is the root.  The *)
(* tree is the server's; the path and the index may come from anywhere.    *)
(* A PATH that is no whole number of hashes is refused before the climb.   *)
(***************************************************************************)
EXTENDS Integers, Sequences

CONSTANTS
  Nonce,      \* what may have been stamped, or be claimed to be
  Trees,      \* the trees that servers sign
  Hashes,     \* the hashes in play on a PATH
  Indices,    \* the values of INDX in play
  MaxPath     \* bound: no PATH is longer

\* _TREE_LEAF and _TREE_NODE keep the two apart.
Leaf(nonce) == <<0, nonce>>
Node(left, right) == <<1, left, right>>

Positions(t, k) == DOMAIN t.level[k]
Root(t) == t.level[t.height][0]

IsTree(t) ==
  /\ t.height \in Nat
  /\ Positions(t, t.height) = {0}
  /\ \A i \in Positions(t, 0) : \E n \in Nonce : t.level[0][i] = Leaf(n)
  /\ \A k \in 1 .. t.height : \A i \in Positions(t, k) :
       /\ {2 * i, 2 * i + 1} \subseteq Positions(t, k - 1)
       /\ t.level[k][i] = Node(t.level[k - 1][2 * i], t.level[k - 1][2 * i + 1])

ASSUME MerkleAssumption ==
  /\ \A t \in Trees : IsTree(t)
  /\ Indices \subseteq Nat /\ MaxPath \in Nat

VARIABLES
  tree,     \* what the server signed
  nonce,    \* whose leaf the climb begins at
  indx,     \* INDX
  path,     \* the part of PATH that has been read
  node,     \* the hash reached
  index     \* what is left of INDX

merkleVars == <<tree, nonce, indx, path, node, index>>

MerkleInit ==
  /\ tree \in Trees /\ nonce \in Nonce /\ indx \in Indices
  /\ path = <<>> /\ node = Leaf(nonce) /\ index = indx

\* Mutant: the index is not shifted.
ClimbUnshifted(sibling) ==
  /\ Len(path) < MaxPath
  /\ path' = Append(path, sibling)
  /\ node' = IF index % 2 = 1 THEN Node(sibling, node) ELSE Node(node, sibling)
  /\ UNCHANGED <<tree, nonce, indx, index>>

\* One round of merkle_root's loop
Climb(sibling) ==
  /\ Len(path) < MaxPath
  /\ path' = Append(path, sibling)
  /\ node' = IF index % 2 = 1 THEN Node(sibling, node) ELSE Node(node, sibling)
  /\ index' = index \div 2
  /\ UNCHANGED <<tree, nonce, indx>>

MerkleNext == \E sibling \in Hashes : Climb(sibling)

MerkleSpec == MerkleInit /\ [][MerkleNext]_merkleVars

-----------------------------------------------------------------------------
(* Properties *)

\* A path that ends at the signed root began at a leaf of the tree: no path and
\* no index stamp a nonce that the server has not seen (verify_response).
OnlyStamped ==
  node = Root(tree) => \E i \in Positions(tree, 0) : tree.level[0][i] = Leaf(nonce)

\* The powers of two
Power[k \in Nat] == IF k = 0 THEN 1 ELSE 2 * Power[k - 1]

Sibling(i) == IF i % 2 = 0 THEN i + 1 ELSE i - 1

\* The path is the one that a server hands out for the leaf at position p.
IsPathOf(p) ==
  /\ Len(path) = tree.height
  /\ \A k \in 1 .. tree.height : path[k] = tree.level[k - 1][Sibling(p \div Power[k - 1])]

\* A climb ends at the root exactly when it begins at the leaf that INDX names
\* and PATH is that leaf's, from bottom to top.  Of INDX only as many bits count
\* as the path is long: what is left over is not looked at.
OpeningExact ==
  LET p == indx % Power[tree.height] IN
  node = Root(tree) <=> /\ p \in Positions(tree, 0) /\ tree.level[0][p] = Leaf(nonce)
                        /\ IsPathOf(p)
=============================================================================
