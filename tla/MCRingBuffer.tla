---------------------------- MODULE MCRingBuffer ----------------------------
EXTENDS RingBuffer

CONSTANTS Ids, Lengths

MCMessages == [id : Ids, length : Lengths]
=============================================================================
