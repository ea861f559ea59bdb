------------------------------ MODULE AtomicStore ------------------------------
(***************************************************************************)
(* What a caller of GenerationStore may rely on, with no directories,      *)
(* markers, locks or recovery: one linear history of promotions, extended  *)
(* one promotion at a time on top of everything before it, of which a      *)
(* machine failure can only take back what was never acknowledged.         *)
(***************************************************************************)
EXTENDS Naturals, SequencesExt

CONSTANT Operations    \* the identities of promotions

VARIABLES
    history,           \* the promotions that took effect, oldest first
    acknowledged       \* the longest history some commit() has returned for

Init ==
    /\ history = <<>>
    /\ acknowledged = <<>>

\* A promotion nobody applied yet takes effect on top of the whole history.
Apply ==
    /\ \E op \in Operations \ ToSet(history) : history' = Append(history, op)
    /\ UNCHANGED acknowledged

\* A caller is told that its promotion is committed.
Acknowledge ==
    /\ acknowledged' = history
    /\ UNCHANGED history

\* A machine failure forgets promotions, never an acknowledged one.
Forget ==
    /\ history' \in Prefixes(history)
    /\ IsPrefix(acknowledged, history')
    /\ UNCHANGED acknowledged

Next == Apply \/ Acknowledge \/ Forget

Spec == Init /\ [][Next]_<<history, acknowledged>>
================================================================================
