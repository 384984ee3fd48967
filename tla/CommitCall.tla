------------------------------ MODULE CommitCall ------------------------------
(***************************************************************************)
(* What a memory session promises about the commits handed to it           *)
(* (memory/v2/client.ts, SpaceSession.transact), with no connection, no     *)
(* resume and no resend in sight.  Every call ends: with the commit's       *)
(* verdict, or, when the space stops admitting the session's principal,     *)
(* with the session's end.  A verdict tells the truth and stays true: an    *)
(* accepted commit has been applied, a refused one has not, and a call that *)
(* has ended has left nothing behind that could still apply its commit.     *)
(* Where write access was withdrawn a call may end denied instead, which    *)
(* does not tell whether the commit had been applied before that.           *)
(***************************************************************************)
EXTENDS Naturals

CONSTANT MaxCommits   \* bound on the commits a session issues

VARIABLES
  access,   \* whether the space's access list admits the principal
  write,    \* whether it lets it write: "granted", "withdrawn" or "restored"
  applied,  \* the commits, by localSeq, the engine has applied
  told      \* what each call has come to

callVars == <<access, write, applied, told>>

Commits == 1 .. MaxCommits

Init ==
  /\ access = TRUE
  /\ write = "granted"
  /\ applied = {}
  /\ told = [n \in Commits |-> "unissued"]

Issue(n) ==
  /\ told[n] = "unissued"
  /\ \A m \in 1 .. n - 1 : told[m] # "unissued"
  /\ told' = [told EXCEPT ![n] = "waiting"]
  /\ UNCHANGED <<access, write, applied>>

\* Only a call that is still waiting, from a principal that may write, is applied.
Apply(n) ==
  /\ told[n] = "waiting"
  /\ access /\ write # "withdrawn"
  /\ applied' = applied \cup {n}
  /\ UNCHANGED <<access, write, told>>

Answer(n) ==
  /\ told[n] = "waiting"
  /\ told' = [told EXCEPT ![n] = IF n \in applied THEN "accepted" ELSE "refused"]
  /\ UNCHANGED <<access, write, applied>>

\* A resent commit can meet the withdrawal after an earlier copy was applied.
Deny(n) ==
  /\ told[n] = "waiting"
  /\ write # "granted"
  /\ told' = [told EXCEPT ![n] = "denied"]
  /\ UNCHANGED <<access, write, applied>>

WithdrawWrite ==
  /\ access /\ write # "withdrawn"
  /\ write' = "withdrawn"
  /\ UNCHANGED <<access, applied, told>>

RestoreWrite ==
  /\ access /\ write = "withdrawn"
  /\ write' = "restored"
  /\ UNCHANGED <<access, applied, told>>

Deauthorize ==
  /\ access
  /\ access' = FALSE
  /\ UNCHANGED <<write, applied, told>>

\* The session ends, with every call it has left.  Only a principal no longer
\* admitted meets this.
End ==
  /\ ~ access
  /\ told' = [n \in Commits |-> IF told[n] = "waiting" THEN "lost" ELSE told[n]]
  /\ UNCHANGED <<access, write, applied>>

Next ==
  \/ \E n \in Commits : Issue(n) \/ Apply(n) \/ Answer(n) \/ Deny(n)
  \/ WithdrawWrite \/ RestoreWrite \/ Deauthorize
  \/ End

Fairness == \A n \in Commits : WF_callVars(Answer(n) \/ Deny(n) \/ (End /\ told[n] = "waiting"))

Spec == Init /\ [][Next]_callVars /\ Fairness
=============================================================================
