----------------------------- MODULE MCArtifactChain -----------------------------
(* Instances of ArtifactChain for TLC. *)
EXTENDS ArtifactChain, TLC

CONSTANTS r1, r2, c1, c2, w1, w2, i1, k1, s, t

Symmetry == Permutations(Runner) \cup Permutations(Claim)
================================================================================
