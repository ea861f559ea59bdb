---------------------------- MODULE MCProjectRuntime ----------------------------
(* Instances of ProjectRuntime for TLC. *)
EXTENDS ProjectRuntime, TLC

CONSTANTS
    r1, r2,            \* runners
    assess,            \* an ordinary task: reads x (and a file), writes y
    draft,             \* a coupled task: depends on nothing, writes x
    x, y,              \* objects
    c1, c2,            \* contents
    f1, f2             \* contents of the external file

MCDeps == [t \in Task |-> IF t = assess THEN {x} ELSE {}]
MCWrites == [t \in Task |-> IF t = assess THEN {y} ELSE {x}]

OneVersion == [r \in Runner |-> 0]
TwoVersions == (r1 :> 0) @@ (r2 :> 1)

\* Runners are interchangeable (used with safety properties and one version).
Symmetry == Permutations(Runner)
================================================================================
