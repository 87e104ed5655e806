---------------------------- MODULE MCMethodTable ----------------------------
EXTENDS MethodTable
=============================================================================
