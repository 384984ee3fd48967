--------------------------- MODULE MCServingWorker ---------------------------
(***************************************************************************)
(* Model-checking instances of ServingWorker.                              *)
(***************************************************************************)
EXTENDS ServingWorker
=============================================================================
