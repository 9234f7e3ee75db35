----------------------------- MODULE MCRequestTrx -----------------------------
(* Two requests over two databases with one connection each: the smallest  *)
(* instance in which requests can wait for each other in a cycle.          *)
EXTENDS RequestTrx
=============================================================================
