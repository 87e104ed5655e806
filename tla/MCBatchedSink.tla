--------------------------- MODULE MCBatchedSink ---------------------------
EXTENDS BatchedSink

(* Sizes around each limit that rb_rg_batched_sink compares with: a small  *)
(* command, one that leaves no room for another, the largest that fits a   *)
(* packet and one byte more, the largest batch of its own, a raw command.  *)
Sizes == {600, 1387, 1388, 4083, 4094}
=============================================================================
