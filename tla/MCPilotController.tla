--------------------------- MODULE MCPilotController ---------------------------
(* Instances of PilotController for TLC. *)
EXTENDS PilotController, TLC

CONSTANTS
    k1, k2,            \* controllers
    c1,                \* a claim
    q1, q2,            \* its queries
    s1, p1,            \* the source that both of them find, and its paper
    own, revised,      \* wordings of the claim
    w                  \* the wording of propositions and sentences

MCClaimOf == [q \in Query |-> c1]
MCPaperOf == [s \in Source |-> p1]
MCHits == [q \in Query |-> <<s1>>]

\* Controllers are interchangeable.
Symmetry == Permutations(Controller)
================================================================================
