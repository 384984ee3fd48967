---------------------------- MODULE LeaseTenures ----------------------------
(***************************************************************************)
(* What the execution lease promises for one space, whoever serves it: the *)
(* stretches of holding never overlap, a stretch that ended never resumes, *)
(* and a derived wave lands only inside the stretch it was sealed in.      *)
(***************************************************************************)
EXTENDS Naturals

CONSTANTS Tenures, NoTenure

VARIABLES
  owner,   \* the tenure that holds the lease, or NoTenure
  ended,   \* tenures that are over
  landed,  \* how many waves the store holds
  latest   \* the tenure of the last of them

leaseVars == <<owner, ended, landed, latest>>

Init ==
  /\ owner = NoTenure /\ ended = {}
  /\ landed = 0 /\ latest = NoTenure

Begin(t) ==
  /\ owner = NoTenure /\ t \notin ended
  /\ owner' = t
  /\ UNCHANGED <<ended, landed, latest>>

Land ==
  /\ owner # NoTenure
  /\ landed' = landed + 1 /\ latest' = owner
  /\ UNCHANGED <<owner, ended>>

End ==
  /\ owner # NoTenure
  /\ ended' = ended \cup {owner}
  /\ owner' = NoTenure
  /\ UNCHANGED <<landed, latest>>

Next == (\E t \in Tenures : Begin(t)) \/ Land \/ End

Spec == Init /\ [][Next]_leaseVars
=============================================================================
