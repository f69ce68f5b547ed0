---------------------------- MODULE KeptInOrder ----------------------------
(***************************************************************************)
(* What is left of a JavaScript Map or array when the elements at some of  *)
(* its positions are kept and the others are not: the n-th kept element    *)
(* is the one at the position of rank n.                                   *)
(***************************************************************************)
EXTENDS Naturals, Sequences, FiniteSets

InOrder(es, at) ==
  [n \in 1..Cardinality(at) |-> es[CHOOSE i \in at : Cardinality({j \in at : j <= i}) = n]]
=============================================================================
