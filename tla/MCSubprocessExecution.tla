-------------------------- MODULE MCSubprocessExecution --------------------------
(* Small instances of SubprocessExecution for TLC. *)
EXTENDS SubprocessExecution, TLC

AttemptSymmetry == Permutations(Attempt)
================================================================================
