--------------------------- MODULE MCTraceContexts ---------------------------
EXTENDS TraceContexts
=============================================================================
