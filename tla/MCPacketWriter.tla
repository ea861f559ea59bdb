----------------------------- MODULE MCPacketWriter -----------------------------
(***************************************************************************)
(* Two writers, each of a review or a pilot packet, want one destination.   *)
(***************************************************************************)
EXTENDS PacketWriter, TLC

CONSTANTS w1, w2

MCFilesOf == [review |-> <<"section", "review_packet">>, pilot |-> <<"section", "pilot_packet">>]
WriterSymmetry == Permutations(Writer)
================================================================================
