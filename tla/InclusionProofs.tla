---------------------------- MODULE InclusionProofs ----------------------------
(***************************************************************************)
(* The inclusion proof a sidecar carries for its commitment: how the       *)
(* proposer computes it (block_builder.ex, ssz_ex/merkleization.ex) and    *)
(* how it is verified (predicates.ex), with preset p and n commitments.    *)
(* The roots of the commitments and of the other fields of a body are      *)
(* opaque leaves.                                                          *)
(***************************************************************************)
EXTENDS Blobs, SszEx

CONSTANT MaxCommitments     \* bound

ConfigOf == [mainnet |-> Mainnet, minimal |-> Minimal, gnosis |-> Gnosis]
Limit(p) == ConfigOf[p].MaxBlobCommitmentsPerBlock
Fields(p) == BeaconBlockBody(ConfigOf[p]).fields
CommitmentsAt(p) == CHOOSE i \in 1..Len(Fields(p)) : Fields(p)[i][1] = "blob_kzg_commitments"
Height(n) == FloorLog2(NextPowOfTwo(n))

Leaves(n) == Seq1([i \in 1..n |-> <<"commitment", i>>])
FieldRoots(p, n) ==
  Seq1([i \in 1..Len(Fields(p)) |->
    IF i = CommitmentsAt(p) THEN MixIn(MerkleizeVirtual(Leaves(n), Limit(p)), n)[2]
    ELSE <<"field", i>>])
body_root(p, n) == MerkleizeVirtual(FieldRoots(p, n), NextPowOfTwo(Len(Fields(p))))[2]

\* Variant: the next node, whichever side it is on.
SiblingAfter(index) == index + 1
Sibling(index) == index - (index % 2) * 2 + 1

RECURSIVE MerkleProof(_, _, _, _)
MerkleProof(leaves, index, height, max) ==
  IF height = max /\ Len(leaves) = 1 THEN <<>>
  ELSE LET at(i) == IF i < Len(leaves) THEN leaves[i + 1] ELSE Zero(height)
           up == Seq1([i \in 1..CeilDiv(Len(leaves), 2) |-> Node(at(2*i - 2), at(2*i - 1))])
       IN  <<at(Sibling(index))>> \o MerkleProof(up, index \div 2, height + 1, max)
compute_merkle_proof(leaves, index, height) == MerkleProof(leaves, index, 0, height)

compute_inclusion_proofs(p, n) ==
  LET body_proof ==
        compute_merkle_proof(FieldRoots(p, n), CommitmentsAt(p) - 1, Height(Len(Fields(p))))
  IN  [i \in 1..n |-> compute_merkle_proof(Leaves(n), i - 1, Height(Limit(p)))
                        \o <<Leaf(LE(n, LenChunk))>> \o body_proof]

generate_merkle_proof(leaf, branch, depth, index) ==
  FoldLeft(LAMBDA value, i : IF (index \div 2^(i - 1)) % 2 = 1 THEN Node(branch[i], value)
                             ELSE Node(value, branch[i]),
           leaf, [i \in 1..depth |-> i])
valid_merkle_branch(leaf, branch, depth, index, root) ==
  root = generate_merkle_proof(leaf, branch, depth, index)

Verified ==
  [p \in DOMAIN ConfigOf |-> [n \in 1..MaxCommitments |->
    LET depth == ConfigOf[p].KzgCommitmentInclusionProofDepth
        proofs == compute_inclusion_proofs(p, n)
        root == body_root(p, n)
    IN  \A i \in 1..n :
          /\ Len(proofs[i]) = depth
          /\ valid_merkle_branch(Leaves(n)[i], proofs[i], depth,
                                 (CommitmentsAt(p) - 1) * 2 * Limit(p) + i - 1, root)]]
(* The inclusion proof of every sidecar leads from its commitment to the   *)
(* root of the body, for any number of commitments, and is as long as the  *)
(* sidecar's container has it in every preset (compute_inclusion_proofs,   *)
(* valid_merkle_branch?).                                                  *)
InclusionProofsVerify ==
  made # {} => \A p \in DOMAIN ConfigOf : \A n \in 1..MaxCommitments : Verified[p][n]
================================================================================
