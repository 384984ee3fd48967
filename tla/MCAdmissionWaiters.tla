-------------------------- MODULE MCAdmissionWaiters --------------------------
(* The order in which a server revokes sessions is a choice of the model's,  *)
(* so connections and spaces are alike, and so are principals.               *)
EXTENDS AdmissionWaiters, TLC

Symmetry == Permutations(Connections) \cup Permutations(Spaces)
              \cup Permutations(Principals)
=============================================================================
