--------------------------- MODULE MCEventDelivery ---------------------------
(***************************************************************************)
(* TLC instances of EventDelivery: the stream each event id is for.        *)
(***************************************************************************)
EXTENDS EventDelivery

OneStream == [id \in Ids |-> "s"]

\* The first two of the client's events share a stream.
TwoStreams == [id \in Ids |-> IF id \in {"a", "b"} THEN "s" ELSE "t"]
=============================================================================
