--------------------------- MODULE MCSessionResume ---------------------------
(* One session and a few connections, numbered in the order the client makes *)
(* them, so there is no symmetry to use.                                      *)
EXTENDS SessionResume
=============================================================================
