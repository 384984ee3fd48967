---------------------------- MODULE EventIntents ----------------------------
(***************************************************************************)
(* What firing an event promises: its consequences happen once, or it is   *)
(* refused; one of the two happens in the end.  A refusal is told where    *)
(* somebody is sure to be there to be told.                                *)
(***************************************************************************)
EXTENDS Naturals

CONSTANT Ids

VARIABLES
  fired,      \* events somebody fired
  heard,      \* those whose refusal somebody is sure to be there to hear
  performed,  \* per event, how often its consequences were committed
  refused,    \* events that were refused for good
  told        \* events whose refusal was told to their source

intentVars == <<fired, heard, performed, refused, told>>

Init ==
  /\ fired = {} /\ heard = {} /\ refused = {} /\ told = {}
  /\ performed = [id \in Ids |-> 0]

Fire(id) ==
  /\ id \notin fired
  /\ fired' = fired \cup {id}
  /\ heard' \in {heard, heard \cup {id}}
  /\ UNCHANGED <<performed, refused, told>>

Open(id) == id \in fired /\ performed[id] = 0 /\ id \notin refused

\* One commit carries the consequences of any number of events.
Perform(ids) ==
  /\ ids # {} /\ \A id \in ids : Open(id)
  /\ performed' = [id \in Ids |-> IF id \in ids THEN 1 ELSE performed[id]]
  /\ UNCHANGED <<fired, heard, refused, told>>

\* A refusal is told at once, or never.
Refuse(id) ==
  /\ Open(id)
  /\ refused' = refused \cup {id}
  /\ told' = told \cup {id} \/ (told' = told /\ id \notin heard)
  /\ UNCHANGED <<fired, heard, performed>>

Next ==
  \/ \E id \in Ids : Fire(id) \/ Refuse(id)
  \/ \E ids \in SUBSET Ids : Perform(ids)

\* No fired event stays open for ever: for finitely many ids, each of which is
\* closed for good, there comes a time at which none is open.
Answered == []<>(\A id \in Ids : ~ Open(id))

Spec == Init /\ [][Next]_intentVars /\ Answered
=============================================================================
