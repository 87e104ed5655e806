--------------------------- MODULE MCTcpDispatch ---------------------------
EXTENDS TcpDispatch

(* Scaled down as for UDP: a packet of 4 bytes with a header of 1.         *)
Sizes == {1, 4}
=============================================================================
