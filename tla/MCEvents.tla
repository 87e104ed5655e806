------------------------------ MODULE MCEvents ------------------------------
EXTENDS Events

(* Two threads share an HTTP client, a third has a database client.        *)
OneSharedClient == [t \in {"t1", "t2", "t3"} |-> IF t = "t3" THEN "redis" ELSE "http"]
TypesOfClients == [c \in {"http", "redis"} |-> IF c = "http" THEN "HTTP_OUTGOING_INFORMATION" ELSE "SQL_INFORMATION"]
LengthsAtTheLimits == {-1, 0, 127, 4095, 4096, 9000}
=============================================================================
