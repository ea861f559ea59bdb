--------------------------- MODULE MCGenerationStore ---------------------------
(* Instances of GenerationStore for TLC. *)
EXTENDS GenerationStore

CONSTANTS p1, p2

\* Processes are interchangeable (used with safety properties only).
Symmetry == Permutations(Process)
================================================================================
