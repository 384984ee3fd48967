---- MODULE MCClientReplica ----
EXTENDS ClientReplica
====
