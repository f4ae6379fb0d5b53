----------------------------- MODULE MerkleTree -----------------------------
(***************************************************************************)
(* The binary hash tree over a list of leaves: a level with an odd number  *)
(* of nodes pairs the last one with itself.  A hash is the tuple of what   *)
(* was hashed, so different inputs have different hashes.  Leaves are      *)
(* tuples of one element; the zero hash is the empty tuple.                *)
(***************************************************************************)
EXTENDS Integers, Sequences, FiniteSets

HashPair(left, right) == <<left, right>>

\* The node at position i of a level, or, past its end, the node before it.
NextLevel(level) ==
    [i \in 1..((Len(level) + 1) \div 2) |->
        HashPair(level[2 * i - 1],
                 IF 2 * i <= Len(level) THEN level[2 * i] ELSE level[2 * i - 1])]

\* The loop of build_internal_tree: the leaves first; the level with the root
\* alone is repeated.
TreeLevels(leaves) ==
    LET level[d \in 1..Len(leaves)] ==
            IF d = 1 THEN leaves
            ELSE IF Len(level[d - 1]) > 1 THEN NextLevel(level[d - 1])
            ELSE level[d - 1]
    IN  level

\* The size of tree_levels_: the root's is the last level.
Depth(level) ==
    CHOOSE d \in DOMAIN level : Len(level[d]) = 1 /\ \A e \in 1..(d - 1) : Len(level[e]) > 1

GetRoot(leaves) ==
    IF leaves = <<>> THEN <<>>
    ELSE LET level == TreeLevels(leaves) IN level[Depth(level)][1]

\* The root over a list whose elements' hashes are the leaves.
RootOfList(s) == GetRoot([i \in DOMAIN s |-> <<s[i]>>])

\* current_index of the loops up the tree, level by level, from the leaf's.
IndexAt(index, depth) ==
    LET at[d \in 1..depth] == IF d = 1 THEN index ELSE at[d - 1] \div 2
    IN  at

\* The sibling of the node with index i, counted from 0; a node without one
\* is its own.
GetSibling(level, i) ==
    LET s == IF i % 2 = 0 THEN i + 1 ELSE i - 1
    IN  IF s < Len(level) THEN level[s + 1] ELSE level[i + 1]

GenerateProof(leaves, index) ==
    LET level == TreeLevels(leaves)
        depth == Depth(level)
        at    == IndexAt(index, depth)
    IN  [leaf_index |-> index, leaf_hash |-> leaves[index + 1],
         sibling_hashes |-> [d \in 1..(depth - 1) |-> GetSibling(level[d], at[d])]]

VerifyProof(proof, root) ==
    LET height == Len(proof.sibling_hashes)
        at     == IndexAt(proof.leaf_index, height)
        hash[d \in 0..height] ==
            IF d = 0 THEN proof.leaf_hash
            ELSE IF at[d] % 2 = 0
            THEN HashPair(hash[d - 1], proof.sibling_hashes[d])
            ELSE HashPair(proof.sibling_hashes[d], hash[d - 1])
    IN  hash[height] = root
=============================================================================
