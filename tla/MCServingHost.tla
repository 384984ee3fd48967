---------------------------- MODULE MCServingHost ----------------------------
(* One space under one host.  The servers are alike: a tenure takes any of  *)
(* them that no tenure stands on.                                           *)
EXTENDS ServingHost, TLC

Symmetry == Permutations(Servers)
=============================================================================
