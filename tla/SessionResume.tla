---------------------------- MODULE SessionResume ----------------------------
(***************************************************************************)
(* One client session across lost connections: the client                  *)
(* (memory/v2/client.ts, Client and SpaceSession), the server's connections *)
(* (memory/v2/server.ts, Connection, openSession, transact) and the         *)
(* sessions it keeps (memory/v2/session-registry.ts).                       *)
(*                                                                         *)
(* The client has one connection at a time, numbered in order.  A           *)
(* connection carries frames in order both ways, and the server handles     *)
(* the frames of one space on one connection one at a time; it may notice   *)
(* late, or never, that the client has left a connection, so what was sent  *)
(* there can be handled after the client resumed on a later one.  A request *)
(* is a step where it starts and a step where its wait ends: an open waits  *)
(* for admission and for catch-up, a commit for its space's publication     *)
(* lock and the engine.                                                     *)
(*                                                                         *)
(* A session's token stands for the session object as well: the registry    *)
(* makes a new object with a new token at every open.                       *)
(***************************************************************************)
EXTENDS Naturals, Sequences, FiniteSets

CONSTANTS
  MaxConns,     \* bound on the connections the client makes
  MaxCommits,   \* bound on the commits it issues
  MaxTroubles,  \* bound on denials, revocations, expiries and restarts, together
  AclActive     \* whether the server enforces access lists

ASSUME SessionAssumption ==
  /\ MaxConns \in Nat \ {0}
  /\ {MaxCommits, MaxTroubles} \subseteq Nat
  /\ AclActive \in BOOLEAN

Conns == 1 .. MaxConns

Commits == 1 .. MaxCommits

VARIABLES
  client,    \* the client's session and the connection it is on
  told,      \* what each commit's call has come to
  toServer,  \* frames on their way to the server, by connection
  toClient,  \* frames on their way to the client, by connection
  session,   \* the registry's entry for the session
  minted,    \* how many tokens the registry has minted
  conn,      \* the server's connections
  applied,   \* the commits the engine has applied
  access,    \* whether the access list lets the principal read: admits it at all
  write,     \* whether it lets the principal write: "granted" from the start,
             \* "withdrawn", or "restored" after that
  budget     \* what is left of MaxTroubles

vars == <<client, told, toServer, toClient, session, minted, conn, applied,
          access, write, budget>>

NoSession == [token |-> 0, presented |-> 0, attempt |-> 0, owner |-> 0]

Idle == [at |-> "idle", token |-> 0, attempt |-> 0, commit |-> 0]

Waiting == {n \in Commits : told[n] = "waiting"}

-----------------------------------------------------------------------------
(* Frames                                                                  *)

OpenFrame(token, attempt) == [type |-> "open", token |-> token, attempt |-> attempt]

CommitFrame(n) == [type |-> "transact", commit |-> n]

WatchFrame == [type |-> "watch"]

\* The commit of S that has i of them up to it.
Nth(S, i) == CHOOSE n \in S : Cardinality({m \in S : m <= n}) = i

\* The frames that send the commits of S, in localSeq order.
CommitFrames(S) == [i \in 1 .. Cardinality(S) |-> CommitFrame(Nth(S, i))]

Sends(k, frames) == toServer' = [toServer EXCEPT ![k] = @ \o frames]

\* What connection k carries reaches the client: one it has left is read no more.
Reads(k) == k = client.conn /\ client.at # "down"

\* A response or a notice on connection k: sent only while the server holds the
\* connection open, and kept only for a client that reads it.
Reply(k, frame) ==
  IF ~ conn[k].closed /\ Reads(k) THEN [toClient EXCEPT ![k] = Append(@, frame)]
  ELSE toClient

Replies(k, frame) == toClient' = Reply(k, frame)

\* A commit's answer: "accepted", "refused" by the session or the engine, or
\* "denied" by the access list, under an error name of its own.
Verdict(n, how) == [type |-> "verdict", commit |-> n, how |-> how]

Opened(token, resumed) == [type |-> "opened", token |-> token, resumed |-> resumed]

Refusal(why) == [type |-> "refused", why |-> why]

Watched(how) == [type |-> "watched", how |-> how]

Revoked == [type |-> "revoked"]

-----------------------------------------------------------------------------
\* A mounted session, ready on its first connection.
Init ==
  /\ client = [at |-> "ready", conn |-> 1, token |-> 1, attempt |-> 0,
               awaiting |-> {}, owed |-> FALSE]
  /\ told = [n \in Commits |-> "unissued"]
  /\ toServer = [k \in Conns |-> <<>>]
  /\ toClient = [k \in Conns |-> <<>>]
  /\ session = [token |-> 1, presented |-> 0, attempt |-> 0, owner |-> 1]
  /\ minted = 1
  /\ conn = [k \in Conns |-> [closed |-> FALSE, handle |-> k = 1, work |-> Idle]]
  /\ applied = {}
  /\ access = TRUE
  /\ write = "granted"
  /\ budget = MaxTroubles

serverVars == <<session, minted, conn, applied, access, write>>

-----------------------------------------------------------------------------
(* The client                                                              *)

\* `transact`: a call made while the session is not ready, or is restoring, is
\* kept for the restore to send.
Transact(n) ==
  /\ client.at # "ended"
  /\ told[n] = "unissued"
  /\ \A m \in 1 .. n - 1 : told[m] # "unissued"
  /\ told' = [told EXCEPT ![n] = "waiting"]
  /\ IF client.at = "ready" THEN Sends(client.conn, <<CommitFrame(n)>>)
     ELSE UNCHANGED toServer
  /\ UNCHANGED <<client, toClient, budget, serverVars>>

\* `#onClose` and `handleDisconnect`: the client loses its connection, with
\* whatever was on its way to it.  Calls with no verdict stay outstanding.
Drop ==
  /\ client.at \notin {"down", "ended"}
  /\ client.conn < MaxConns
  /\ client' = [client EXCEPT !.at = "down", !.awaiting = {}]
  /\ toClient' = [toClient EXCEPT ![client.conn] = <<>>]
  /\ UNCHANGED <<told, toServer, budget, serverVars>>

\* `restore` up to its wait: `#reopen` presents the last token the client
\* received, under a new attempt number.
Restore(k) ==
  /\ client' = [client EXCEPT !.at = "opening", !.conn = k, !.attempt = @ + 1]
  /\ Sends(k, <<OpenFrame(client.token, client.attempt + 1)>>)
  /\ UNCHANGED <<told, toClient, budget, serverVars>>

\* `#reconnect`: a new connection, and the session's restore on it.
Reconnect ==
  /\ client.at = "down"
  /\ Restore(client.conn + 1)

\* `#holdRestore`: a held session's timer retries on the same connection.
RetryHeld ==
  /\ client.at = "held"
  /\ Restore(client.conn)

\* `#terminateSession`: every call left ends with the session.
Terminate ==
  /\ client' = [client EXCEPT !.at = "ended", !.awaiting = {}]
  /\ told' = [n \in Commits |-> IF n \in Waiting THEN "lost" ELSE told[n]]
  /\ UNCHANGED toServer

\* `restore` once the session has reopened: the calls with no verdict are sent
\* again in order, then the watch set, if the server has forgotten it.
Reopened(m) ==
  LET owed == client.owed \/ ~ m.resumed
      awaiting == Waiting \cup (IF owed THEN {0} ELSE {})
  IN /\ client' = [client EXCEPT !.token = m.token, !.owed = owed, !.awaiting = awaiting,
                                 !.at = IF awaiting = {} THEN "ready" ELSE "restoring"]
     /\ Sends(client.conn,
              CommitFrames(Waiting) \o (IF owed THEN <<WatchFrame>> ELSE <<>>))
     /\ UNCHANGED told

\* Mutant: the calls made during a restore are left to the next one.
SettleForgetsLater(done, owed, now) ==
  LET left == client.awaiting \ {done}
      ready == client.at = "restoring" /\ left = {}
  IN /\ client' = [client EXCEPT !.awaiting = left, !.owed = owed,
                                 !.at = IF ready THEN "ready" ELSE @]
     /\ told' = now
     /\ UNCHANGED toServer

\* One of the answers the restore waits for is in.  With the last of them the
\* session is ready, and the calls made meanwhile are sent
\* (`#replayOutstandingCommits`).
Settle(done, owed, now) ==
  LET left == client.awaiting \ {done}
      ready == client.at = "restoring" /\ left = {}
  IN /\ client' = [client EXCEPT !.awaiting = left, !.owed = owed,
                                 !.at = IF ready THEN "ready" ELSE @]
     /\ told' = now
     /\ IF ready
        THEN Sends(client.conn, CommitFrames({n \in Commits : now[n] = "waiting"}))
        ELSE UNCHANGED toServer

Hold ==
  /\ client' = [client EXCEPT !.at = "held", !.awaiting = {}]
  /\ UNCHANGED <<told, toServer>>

\* The next frame on the client's connection.
Receive ==
  LET k == client.conn
      m == Head(toClient[k])
  IN /\ client.at \notin {"down", "ended"}
     /\ toClient[k] # <<>>
     /\ toClient' = [toClient EXCEPT ![k] = Tail(@)]
     /\ \/ m.type = "opened" /\ Reopened(m)
        \/ m.type = "verdict" /\
             Settle(m.commit, client.owed,
                    IF told[m.commit] = "waiting"
                    THEN [told EXCEPT ![m.commit] = m.how]
                    ELSE told)
        \/ m.type = "watched" /\ m.how = "ok" /\ Settle(0, FALSE, told)
        \/ m.type = "watched" /\ m.how = "retriable" /\ Hold
        \/ m.type = "refused" /\ m.why = "retriable" /\ Hold
        \/ m.type = "refused" /\ m.why # "retriable" /\ Terminate
        \/ m.type = "revoked" /\ Terminate
     /\ UNCHANGED <<budget, serverVars>>

-----------------------------------------------------------------------------
(* The session registry                                                    *)

\* Mutant: any attempt that presents the token the last open presented resumes.
ResumableByAnyAttempt(o) ==
  session.token = 0 \/ o.token \in {session.token, session.presented}

\* `SessionRegistry.open`: a session that is held resumes for its own token,
\* or, for a client that never received it, for the token that open presented,
\* under a later attempt.
Resumable(o) ==
  \/ session.token = 0
  \/ o.token = session.token
  \/ o.token = session.presented /\ o.attempt > session.attempt

OpenedSession(k, o) ==
  [token |-> minted + 1, presented |-> o.token, attempt |-> o.attempt, owner |-> k]

\* `SessionRegistry.detach`, by connection k.
Detached(k) == [session EXCEPT !.owner = IF @ = k THEN 0 ELSE @]

-----------------------------------------------------------------------------
(* The server's connections                                                *)

NextFrame(k) == Head(toServer[k])

\* `#receiveOrdered`: the connection's next frame for the space.
Takes(k, type) ==
  /\ ~ conn[k].closed
  /\ conn[k].work = Idle
  /\ toServer[k] # <<>>
  /\ NextFrame(k).type = type
  /\ toServer' = [toServer EXCEPT ![k] = Tail(@)]

BeginOpen(k) ==
  /\ Takes(k, "open")
  /\ conn' = [conn EXCEPT ![k].work =
                [Idle EXCEPT !.at = "admission", !.token = NextFrame(k).token,
                             !.attempt = NextFrame(k).attempt]]
  /\ UNCHANGED <<client, told, toClient, session, minted, applied, access, write, budget>>

\* A commit on a connection that holds no handle of the session is refused;
\* otherwise the session it comes from is captured before the wait.
BeginTransact(k) ==
  /\ Takes(k, "transact")
  /\ IF conn[k].handle
     THEN /\ conn' = [conn EXCEPT ![k].work =
                        [Idle EXCEPT !.at = "transact", !.token = session.token,
                                     !.commit = NextFrame(k).commit]]
          /\ UNCHANGED toClient
     ELSE /\ Replies(k, Verdict(NextFrame(k).commit, "refused"))
          /\ UNCHANGED conn
  /\ UNCHANGED <<client, told, session, minted, applied, access, write, budget>>

Deny ==
  /\ budget > 0
  /\ budget' = budget - 1

\* The watch set is established, or refused for a while (a router whose
\* toolshed is down).
WatchSet(k) ==
  /\ Takes(k, "watch")
  /\ \/ Replies(k, Watched("ok")) /\ UNCHANGED budget
     \/ Deny /\ Replies(k, Watched("retriable"))
  /\ UNCHANGED <<client, told, session, minted, conn, applied, access, write>>

Answered(k) == conn' = [conn EXCEPT ![k].work = Idle]

\* Admission ends in a refusal: the connection closed meanwhile, the access
\* list or the router denies the open, or its token does not resume the session.
RefuseOpen(k) ==
  LET o == conn[k].work IN
  /\ o.at = "admission"
  /\ \/ conn[k].closed /\ UNCHANGED <<toClient, budget>>
     \/ ~ access /\ Replies(k, Refusal("denied")) /\ UNCHANGED budget
     \/ access /\ Deny /\ Replies(k, Refusal("retriable"))
     \/ access /\ ~ Resumable(o) /\ Replies(k, Refusal("revoked")) /\ UNCHANGED budget
  /\ Answered(k)
  /\ UNCHANGED <<client, told, toServer, session, minted, applied, access, write>>

\* The registry opens the session for connection k, which holds its handle from
\* then on; the connection that held it is told it was taken over.  A session
\* the registry did not have is answered at once, and a resumed one after its
\* catch-up.
RegisterOpen(k) ==
  LET o == conn[k].work
      old == session.owner
      taken == session.token # 0 /\ old \notin {0, k}
      resumed == session.token # 0
      reply == IF taken THEN Reply(old, Revoked) ELSE toClient
  IN
  /\ o.at = "admission" /\ access /\ Resumable(o)
  /\ session' = OpenedSession(k, o)
  /\ minted' = minted + 1
  /\ conn' = [j \in Conns |->
       IF j = k THEN [conn[k] EXCEPT !.handle = TRUE, !.work =
         IF resumed THEN [Idle EXCEPT !.at = "catch-up", !.token = minted + 1] ELSE Idle]
       ELSE IF taken /\ j = old THEN [conn[j] EXCEPT !.handle = FALSE] ELSE conn[j]]
  /\ toClient' = IF resumed THEN reply ELSE Reply(k, Opened(minted + 1, FALSE))
  /\ UNCHANGED <<client, told, toServer, applied, access, write, budget>>

\* Admission succeeds, on a connection that has not closed meanwhile.
AdmitOpen(k) ==
  /\ ~ conn[k].closed
  /\ RegisterOpen(k)

\* The open's catch-up has ended (`finishOpen`, and openSession's `finally`).
\* An open that fails here gives back what it took, unless a later open has
\* replaced its token.
FinishOpen(k) ==
  LET o == conn[k].work
      lost == AclActive /\ (session.owner # k \/ session.token # o.token)
      failed == conn[k].closed \/ lost
      mine == session.token \in {0, o.token}
  IN
  /\ o.at = "catch-up"
  /\ toClient' = Reply(k, IF lost THEN Refusal("revoked") ELSE Opened(o.token, TRUE))
  /\ conn' = [conn EXCEPT ![k].work = Idle,
                          ![k].handle = @ /\ ~ (failed /\ mine)]
  /\ session' = IF failed /\ mine THEN Detached(k) ELSE session
  /\ UNCHANGED <<client, told, toServer, minted, applied, access, write, budget>>

\* Mutant: the session the commit came from is not compared with the one held.
DecideTransactAnySession(k) ==
  LET o == conn[k].work IN
  /\ o.at = "transact"
  /\ \/ /\ session.token = 0
        /\ Replies(k, Verdict(o.commit, "refused"))
        /\ UNCHANGED applied
     \/ /\ session.token # 0 /\ write = "withdrawn"
        /\ Replies(k, Verdict(o.commit, "denied"))
        /\ UNCHANGED applied
     \/ /\ session.token # 0 /\ write # "withdrawn"
        /\ applied' = applied \cup {o.commit}
        /\ Replies(k, Verdict(o.commit, "accepted"))
     \/ /\ session.token # 0 /\ write # "withdrawn" /\ o.commit \notin applied
        /\ Replies(k, Verdict(o.commit, "refused"))
        /\ UNCHANGED applied
  /\ Answered(k)
  /\ UNCHANGED <<client, told, toServer, session, minted, access, write, budget>>

\* `#decideTransaction` behind the space's publication lock.  A session removed
\* or replaced since the commit came in refuses it, and so does the access
\* list, whether or not an earlier copy has been applied; only then the engine
\* answers a commit it has applied with the verdict it gave, and accepts or
\* refuses any other.
DecideTransact(k) ==
  LET o == conn[k].work
      standing == session.token # 0 /\ session.token = o.token
      permitted == write # "withdrawn"
  IN
  /\ o.at = "transact"
  /\ \/ /\ standing /\ permitted
        /\ applied' = applied \cup {o.commit}
        /\ Replies(k, Verdict(o.commit, "accepted"))
     \/ /\ standing => permitted /\ o.commit \notin applied
        /\ Replies(k, Verdict(o.commit, "refused"))
        /\ UNCHANGED applied
     \/ /\ standing /\ ~ permitted
        /\ Replies(k, Verdict(o.commit, "denied"))
        /\ UNCHANGED applied
  /\ Answered(k)
  /\ UNCHANGED <<client, told, toServer, session, minted, access, write, budget>>

-----------------------------------------------------------------------------
(* What befalls the server                                                 *)

\* `Connection.close`: its sessions are detached and the frames it has not
\* begun on are not handled; a request it has begun on runs on.
Close(k) ==
  /\ ~ conn[k].closed
  /\ k <= client.conn
  /\ client.conn < MaxConns \/ k # client.conn
  /\ conn' = [conn EXCEPT ![k].closed = TRUE, ![k].handle = FALSE]
  /\ session' = Detached(k)
  /\ toServer' = [toServer EXCEPT ![k] = <<>>]
  /\ UNCHANGED <<client, told, toClient, minted, applied, access, write, budget>>

OpenInHand(k) ==
  \/ conn[k].work.at = "admission"
  \/ ~ conn[k].closed /\ \E i \in 1 .. Len(toServer[k]) : toServer[k][i].type = "open"

\* `#prune`: a session detached for its grace period is forgotten.  An open the
\* client has given up on is taken to be over by then.
Expire ==
  /\ budget > 0
  /\ session.token # 0 /\ session.owner = 0
  /\ \A k \in 1 .. client.conn - 1 : ~ OpenInHand(k)
  /\ session' = NoSession
  /\ budget' = budget - 1
  /\ UNCHANGED <<client, told, toServer, toClient, minted, conn, applied, access, write>>

\* `#revokeDeauthorizedSessions`, behind a change of the access list that
\* leaves the principal out.
Deauthorize ==
  /\ AclActive /\ access
  /\ budget > 0
  /\ budget' = budget - 1
  /\ access' = FALSE
  /\ session' = NoSession
  /\ IF session.owner # 0 /\ conn[session.owner].handle
     THEN /\ conn' = [conn EXCEPT ![session.owner].handle = FALSE]
          /\ Replies(session.owner, Revoked)
     ELSE UNCHANGED <<conn, toClient>>
  /\ UNCHANGED <<client, told, toServer, minted, applied, write>>

\* The access list leaves the principal its READ and takes its WRITE:
\* `#revokeDeauthorizedSessions` lets the session stand.
WithdrawWrite ==
  /\ AclActive /\ access /\ write # "withdrawn"
  /\ budget > 0
  /\ budget' = budget - 1
  /\ write' = "withdrawn"
  /\ UNCHANGED <<client, told, toServer, toClient, session, minted, conn, applied, access>>

\* Another change of the list gives the WRITE back.
RestoreWrite ==
  /\ access /\ write = "withdrawn"
  /\ write' = "restored"
  /\ UNCHANGED <<client, told, toServer, toClient, session, minted, conn, applied, access,
                 budget>>

\* The server's process ends and starts again: the engine's commits are all
\* that is left of it.
Restart ==
  /\ budget > 0
  /\ client.conn < MaxConns
  /\ budget' = budget - 1
  /\ session' = NoSession
  /\ conn' = [k \in Conns |-> IF k > client.conn THEN conn[k]
                              ELSE [closed |-> TRUE, handle |-> FALSE, work |-> Idle]]
  /\ toServer' = [k \in Conns |-> <<>>]
  /\ UNCHANGED <<client, told, toClient, minted, applied, access, write>>

-----------------------------------------------------------------------------
ServerStep(k) ==
  \/ BeginOpen(k) \/ RefuseOpen(k) \/ AdmitOpen(k) \/ FinishOpen(k)
  \/ BeginTransact(k) \/ DecideTransact(k) \/ WatchSet(k)

Next ==
  \/ \E n \in Commits : Transact(n)
  \/ Drop \/ Reconnect \/ RetryHeld \/ Receive
  \/ \E k \in Conns : ServerStep(k) \/ Close(k)
  \/ Expire \/ Deauthorize \/ WithdrawWrite \/ RestoreWrite \/ Restart

\* The client's timers and transport run, a connection the server closed is
\* noticed, and the server sees every request through.  Nothing is assumed of
\* what the client issues or of what befalls either side.
Fairness ==
  /\ WF_vars(Reconnect) /\ WF_vars(RetryHeld) /\ WF_vars(Receive)
  /\ WF_vars(Drop /\ conn[client.conn].closed)
  /\ \A k \in Conns : WF_vars(ServerStep(k))

Spec == Init /\ [][Next]_vars /\ Fairness

-----------------------------------------------------------------------------
ClientStates == [at : {"ready", "down", "opening", "restoring", "held", "ended"},
                 conn : Conns, token : Nat, attempt : Nat,
                 awaiting : SUBSET (Commits \cup {0}), owed : BOOLEAN]
SessionStates == [token : Nat, presented : Nat, attempt : Nat, owner : Conns \cup {0}]
Works == [at : {"idle", "admission", "catch-up", "transact"},
          token : Nat, attempt : Nat, commit : Commits \cup {0}]
ConnStates == [closed : BOOLEAN, handle : BOOLEAN, work : Works]

Requests ==
  [type : {"open"}, token : Nat, attempt : Nat]
    \cup [type : {"transact"}, commit : Commits] \cup [type : {"watch"}]

Responses ==
  [type : {"verdict"}, commit : Commits, how : {"accepted", "refused", "denied"}]
    \cup [type : {"opened"}, token : Nat, resumed : BOOLEAN]
    \cup [type : {"refused"}, why : {"denied", "retriable", "revoked"}]
    \cup [type : {"watched"}, how : {"ok", "retriable"}] \cup [type : {"revoked"}]

\* One type invariant: the sides' records and frames are what the code keeps,
\* no token is ahead of the registry, and nothing is on a connection the client
\* has not made.
TypeOK ==
  /\ client \in ClientStates /\ client.token \in 1 .. minted
  /\ client.at = "down" => client.conn < MaxConns
  /\ told \in [Commits -> {"unissued", "waiting", "accepted", "refused", "denied", "lost"}]
  /\ toServer \in [Conns -> Seq(Requests)] /\ toClient \in [Conns -> Seq(Responses)]
  /\ session \in SessionStates /\ {session.token, session.presented} \subseteq 0 .. minted
  /\ minted \in Nat
  /\ conn \in [Conns -> ConnStates] /\ \A k \in Conns : conn[k].work.token <= minted
  /\ applied \subseteq Commits
  /\ access \in BOOLEAN /\ write \in {"granted", "withdrawn", "restored"} /\ budget \in Nat
  /\ session.owner <= client.conn
  /\ \A k \in Conns : k > client.conn =>
       /\ conn[k] = [closed |-> FALSE, handle |-> FALSE, work |-> Idle]
       /\ toServer[k] = <<>> /\ toClient[k] = <<>>

\* A client's session ends only because the access list stopped admitting it:
\* whatever was lost, resent, left behind on an old connection, expired or
\* forgotten by a restart, the client resumes (session-registry.ts:337, the
\* token and attempt a resume is judged by).
NotLockedOut == client.at = "ended" => ~ access

\* A call's verdict is the truth: an accepted commit is applied, a commit the
\* session or the engine refused is not and never will be, by a copy left on an
\* old connection either (server.ts:7673 and 7697, the session's identity), and
\* a caller meets the access list's denial, which says nothing of whether an
\* earlier copy was applied (server.ts:7726, ahead of the engine), only where
\* write access has been withdrawn.
VerdictTrue ==
  \A n \in Commits :
    /\ told[n] = "accepted" => n \in applied
    /\ told[n] = "refused" => n \notin applied
    /\ told[n] = "denied" => write # "granted"

\* The registry and the connections agree about who holds the session: its
\* owner is an open connection with a handle, so it expires once that is gone
\* (server.ts:6672), and no other connection can commit under it.
OwnerAgrees ==
  /\ session.owner # 0 =>
       conn[session.owner].handle /\ ~ conn[session.owner].closed
  /\ \A k \in Conns : conn[k].handle => session.token # 0 /\ session.owner = k

\* The session keeps the promise of CommitCall: every call ends, its verdict is
\* the truth, and nothing is applied behind a call that has ended, a denied one
\* included, though write access comes back.
Call == INSTANCE CommitCall

CallKept == Call!Spec
=============================================================================
