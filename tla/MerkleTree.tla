----------------------------- MODULE MerkleTree -----------------------------
(***************************************************************************)
(* The Merkle tree of the audit chain worker                               *)
(* (workers/rust/audit_chain/src/main.rs).                                 *)
(*                                                                         *)
(* SHA-256 is modelled as free of collisions: the digest of two            *)
(* concatenated digests is the pair of them.                               *)
(***************************************************************************)
EXTENDS Naturals, SequencesExt

EmptyRoot == << <<>> >>   \* sha256_hex("empty")

NodeHash(left, right) == <<left, right>>

\* Pairs of nodes are hashed together, the last one of an odd level with itself.
NextLevel(level) ==
  [k \in 1..((Len(level) + 1) \div 2) |->
     NodeHash(level[2 * k - 1],
              IF 2 * k <= Len(level) THEN level[2 * k] ELSE level[2 * k - 1])]

PowerOfTwo[n \in Nat] == IF n = 0 THEN 1 ELSE 2 * PowerOfTwo[n - 1]

\* The number of rounds of the while loop for n leaves.
Height(n) ==
  CHOOSE h \in 0..n : PowerOfTwo[h] >= n /\ \A g \in 0..(h - 1) : PowerOfTwo[g] < n

\* current_level after h rounds.
Level(hashes, h) ==
  LET level[k \in Nat] == IF k = 0 THEN hashes ELSE NextLevel(level[k - 1])
  IN  level[h]

compute_merkle_root(hashes) ==
  IF hashes = <<>> THEN EmptyRoot
  ELSE Level(hashes, Height(Len(hashes)))[1]

\* Mutant: the sibling of the last node of an odd level is taken to be the node
\* before it.
SiblingBefore(level, idx) ==
  IF idx % 2 = 0 /\ idx + 1 < Len(level) THEN level[idx + 2]
  ELSE level[IF idx = 0 THEN 1 ELSE idx]

\* The sibling of the node with the zero-based index idx.
Sibling(level, idx) ==
  IF idx % 2 = 1 THEN level[idx]
  ELSE IF idx + 1 < Len(level) THEN level[idx + 2]
  ELSE level[idx + 1]

\* The proof for the leaf with the zero-based index.
compute_merkle_proof(hashes, index) ==
  [h \in 1..Height(Len(hashes)) |->
     LET idx == index \div PowerOfTwo[h - 1] IN
     [hash     |-> Sibling(Level(hashes, h - 1), idx),
      position |-> IF idx % 2 = 0 THEN "right" ELSE "left"]]

\* What get_proof computes from a leaf and a proof.
RootFromProof(leaf, proof) ==
  LET current[h \in Nat] ==
        IF h = 0 THEN leaf
        ELSE IF proof[h].position = "right" THEN NodeHash(current[h - 1], proof[h].hash)
        ELSE NodeHash(proof[h].hash, current[h - 1])
  IN  current[Len(proof)]

-----------------------------------------------------------------------------
(* Reference: the tree from its root down.  Node(h, k) is the k-th subtree  *)
(* of height h; where no right subtree starts inside the leaves, the left   *)
(* one stands in for it.                                                    *)

ReferenceRoot(hashes) ==
  LET n == Len(hashes)
      tree[h \in Nat] ==
        [k \in {j \in 0..(n - 1) : j * PowerOfTwo[h] < n} |->
           IF h = 0 THEN hashes[k + 1]
           ELSE NodeHash(tree[h - 1][2 * k],
                         IF (2 * k + 1) * PowerOfTwo[h - 1] < n
                         THEN tree[h - 1][2 * k + 1]
                         ELSE tree[h - 1][2 * k])]
  IN IF n = 0 THEN EmptyRoot ELSE tree[Height(n)][0]
=============================================================================
