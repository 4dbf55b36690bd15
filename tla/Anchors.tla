-------------------------------- MODULE Anchors --------------------------------
(***************************************************************************)
(* Multi-protocol commitments (anchors/mpc.go): one Merkle root in a       *)
(* witness transaction commits to messages of several protocols, where a   *)
(* message is a bundle id and a protocol a contract id.  Each protocol has *)
(* one position in a tree of a given width.                                *)
(*                                                                         *)
(* A hash is the tuple of what is hashed, so that two are equal only if    *)
(* their contents are.  uint32 is a word that holds 0 .. Word - 1.         *)
(***************************************************************************)
EXTENDS Integers, Sequences

CONSTANTS MaxDepth,   \* 31 in the code
          Word        \* 2^32 in the code

ASSUME AnchorsAssumption ==
    MaxDepth \in Nat /\ Word \in Nat /\ Word > 2 ^ MaxDepth

Leaf(protocol, message) == <<"leaf", protocol, message>>
Entropy(n) == <<"entropy", n>>
Branch(index, width, left, right) == <<"branch", index, width, left, right>>

\* protocolPosition
ProtocolPosition(protocol, width) == protocol % width

\* The width less the cofactor, as uint32 computes it.
FactoredWidth(proof) == (2 ^ Len(proof.path) - proof.cofactor) % Word

\* Mutant of PositionFits: a proof is taken at its word.
PositionAnywhere(proof, protocol) == proof.position < 2 ^ Len(proof.path)

\* The checks of ConvolveMPC.
PositionFits(proof, protocol) ==
    /\ FactoredWidth(proof) # 0
    /\ proof.position < 2 ^ Len(proof.path)
    /\ ProtocolPosition(protocol, FactoredWidth(proof)) = proof.position

CanConvolve(proof, protocol) == Len(proof.path) <= MaxDepth /\ PositionFits(proof, protocol)

\* Whether the node at a height of a position's path is a left child.
IsLeft(position, height) == (position \div (2 ^ height)) % 2 = 0

(***************************************************************************)
(* ConvolveMPC: from the leaf to the root along the path, whose first      *)
(* partner is the one below the root; the commitment adds depth and        *)
(* cofactor.                                                               *)
(***************************************************************************)
ConvolveMPC(proof, protocol, message) ==
    LET depth == Len(proof.path)
        width == 2 ^ depth
        node[index \in 0 .. depth] ==
            IF index = depth THEN Leaf(protocol, message)
            ELSE LET partner == proof.path[index + 1]
                 IN  IF IsLeft(proof.position, depth - 1 - index)
                     THEN Branch(index, width, node[index + 1], partner)
                     ELSE Branch(index, width, partner, node[index + 1])
    IN  <<"commitment", depth, proof.cofactor, node[0]>>

\* NewMPCProofFrom: a tree of one message, its partners random.
NewMPCProof(protocol, depth, seed) ==
    [position |-> ProtocolPosition(protocol, 2 ^ depth),
     cofactor |-> 0,
     path     |-> [i \in 1 .. depth |-> Entropy(seed + i)]]

-------------------------------------------------------------------------------
(***************************************************************************)
(* A tree that other software filled, of which this code reads proofs: the *)
(* node above 2^(depth - index) leaves, and the partners of a leaf.        *)
(***************************************************************************)
TreeNode(leaves, depth, index, n) ==
    LET node[i \in 0 .. depth, k \in 0 .. 2 ^ depth] ==
            IF i = depth THEN leaves[k]
            ELSE Branch(i, 2 ^ depth, node[i + 1, 2 * k], node[i + 1, 2 * k + 1])
    IN  node[index, n]

TreeCommitment(leaves, depth, cofactor) ==
    <<"commitment", depth, cofactor, TreeNode(leaves, depth, 0, 0)>>

Sibling(n) == IF n % 2 = 0 THEN n + 1 ELSE n - 1

PathTo(leaves, depth, position) ==
    [i \in 1 .. depth |->
        TreeNode(leaves, depth, i, Sibling(position \div (2 ^ (depth - i))))]
===============================================================================
