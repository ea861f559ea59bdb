----------------------------- MODULE MCReviewRecord -----------------------------
(* Instances of ReviewRecord for TLC. *)
EXTENDS ReviewRecord, TLC

CONSTANTS
    c1, c2,            \* claims
    q1, q2,            \* a query for each
    s1, s2, s3,        \* sources: s1 and s2 in one paper, s3 in another
    p1, p2,
    t1, t2,            \* wordings of a final claim
    w                  \* the wording of propositions and sentences

MCClaimOf == (q1 :> c1) @@ (q2 :> c2)
MCPaperOf == (s1 :> p1) @@ (s2 :> p1) @@ (s3 :> p2)

\* Both queries find s1, and only the second one anything else.
MCHits == (q1 :> <<s1>>) @@ (q2 :> <<s1, s2, s3>>)

\* The wordings of a claim are interchangeable.
Symmetry == Permutations(ClaimText)
================================================================================
