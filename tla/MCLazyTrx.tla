------------------------------ MODULE MCLazyTrx ------------------------------
(* Two goroutines, each with its own context, over the database keys of    *)
(* the cfg, one of them the default: every subset can be the db map.       *)
EXTENDS LazyTrx
=============================================================================
