--------------------------- MODULE MCUdpDispatch ---------------------------
EXTENDS UdpDispatch

(* Scaled down: a packet of 4 bytes with a header of 1.  A command of 1 is *)
(* batched, one of 4 has a batch of its own.                               *)
Sizes == {1, 4}
=============================================================================
