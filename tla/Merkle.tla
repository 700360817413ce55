-------------------------------- MODULE Merkle --------------------------------
(***************************************************************************)
(* The Merkle tree of certificate-service: its root (merkle.service.ts)    *)
(* and the path that proves a leaf (certificates.service.ts).  SHA-256 is  *)
(* taken to have no collisions: a hash is a sequence of tokens that can be *)
(* read back, <<leaf>> or <<"(", left, right, ")">>.                       *)
(***************************************************************************)
EXTENDS Naturals, Sequences

Hash(left, right) == <<"(">> \o left \o right \o <<")">>

\* One round of the loop: neighbours are hashed, the odd one with itself.
Right(level, i) == IF i + 1 <= Len(level) THEN level[i + 1] ELSE level[i]

\* Faulty variant, in no specification: passes the odd one on unhashed.
NextLevelPromoted(level) ==
  [n \in 1 .. ((Len(level) + 1) \div 2) |->
     IF 2 * n <= Len(level) THEN Hash(level[2 * n - 1], level[2 * n]) ELSE level[2 * n - 1]]

NextLevel(level) ==
  [n \in 1 .. ((Len(level) + 1) \div 2) |->
     Hash(level[2 * n - 1], Right(level, 2 * n - 1))]

\* The round of a level of two or more.
Above(level) == IF Len(level) = 1 THEN level ELSE NextLevel(level)

\* The levels above a non-empty sequence of leaves, up to the root.
Levels(leaves) ==
  LET up[n \in 0 .. Len(leaves)] == IF n = 0 THEN leaves ELSE Above(up[n - 1])
  IN up

ComputeMerkleRoot(leaves) ==
  IF leaves = <<>> THEN <<"empty">> ELSE Levels(leaves)[Len(leaves)][1]

\* computeProofPath: the sibling on each level, and its side.  Indices count
\* from 0 in the code and in the certificates.
Sibling(level, index) ==
  IF index % 2 = 0
  THEN [hash |-> Right(level, index + 1), direction |-> "right"]
  ELSE [hash |-> level[index], direction |-> "left"]

\* One round of its loop: at is the level, the index in it and the path so far.
ClimbOne(at) ==
  IF Len(at.level) = 1 THEN at
  ELSE [level |-> NextLevel(at.level), index |-> at.index \div 2,
        path |-> Append(at.path, Sibling(at.level, at.index))]

Climb(leaves, leafIndex) ==
  LET at[n \in 0 .. Len(leaves)] ==
        IF n = 0 THEN [level |-> leaves, index |-> leafIndex, path |-> <<>>]
        ELSE ClimbOne(at[n - 1])
  IN at

ComputeProofPath(leaves, leafIndex) == Climb(leaves, leafIndex)[Len(leaves)].path

\* What a holder of the certificate computes from the path.
Combine(value, step) ==
  IF step.direction = "right" THEN Hash(value, step.hash) ELSE Hash(step.hash, value)

RootOf(leaf, path) ==
  LET value[n \in 0 .. Len(path)] ==
        IF n = 0 THEN leaf ELSE Combine(value[n - 1], path[n])
  IN value[Len(path)]

=============================================================================
