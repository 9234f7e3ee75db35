------------------------------ MODULE Selections ------------------------------
(***************************************************************************)
(* Loops over a slice that keep some of its elements, as the set of the    *)
(* positions they keep.                                                    *)
(***************************************************************************)
EXTENDS Naturals, FiniteSets, Sequences, SequencesExt

(* The positions in S, in order.                                           *)
InOrder(S) ==
  CHOOSE s \in [1 .. Cardinality(S) -> S] : \A i, j \in DOMAIN s : i < j => s[i] < s[j]

(* The elements of s at the positions in S, in their order.                *)
Picked(s, S) ==
  LET left == InOrder(S) IN [k \in DOMAIN left |-> s[left[k]]]

(* s without m.                                                            *)
Without(s, m) == Picked(s, {i \in DOMAIN s : s[i] # m})
=============================================================================
