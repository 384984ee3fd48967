--------------------------- MODULE AdmissionWaiters ---------------------------
(***************************************************************************)
(* The refusals a memory server remembers, so that a later grant can tell   *)
(* who waits for it: the two indexes of memory/v2/admission-waiters.ts and  *)
(* the server's use of them (memory/v2/server.ts).                          *)
(*                                                                         *)
(* A refused open is an entry (space, principal) of the connection it was   *)
(* refused on.  The entries of a closed connection become held entries of   *)
(* their principals for as long as some connection serves the principal.    *)
(* A grant tells, and forgets, every entry it answers.  A connection's      *)
(* lease may run out at any time, and nothing happens when it does: the     *)
(* sessions under it stay, serving nobody, until it is renewed.             *)
(***************************************************************************)
EXTENDS Naturals, Sequences, FiniteSets, SequencesExt

CONSTANTS
  Connections,   \* connections, each opened once
  Spaces,
  Principals,
  Limit          \* entries one connection, or one principal's held set, keeps

ASSUME WaitersAssumption ==
  /\ IsFiniteSet(Connections) /\ IsFiniteSet(Spaces) /\ IsFiniteSet(Principals)
  /\ Connections \cap Principals = {}
  /\ Limit \in Nat \ {0}

\* Held entries are kept under their principal in place of a connection.
Keys == Connections \cup Principals

VARIABLES
  waiters,   \* the entries, [byConnection, bySpace]; an absent map is empty
  up,        \* the server's open connections
  auth,      \* principals each connection has authenticated, lease not run out
  sessions,  \* sessions each connection serves, as <<space, principal>>
  lapsed,    \* sessions it holds under a lease that has run out
  granted,   \* principals each space's access list admits
  stale,     \* spaces whose list another process changed since their last turn
  notice     \* the notices of the last step, as <<connection, space, principal>>

vars == <<waiters, up, auth, sessions, lapsed, granted, stale, notice>>

Entry(s, p) == <<s, p>>

Pairs == Spaces \X Principals

EntriesOf(w, k) == Range(w.byConnection[k])

\* The sessions of connection c that the server's registry knows.
Registered(c) == sessions[c] \cup lapsed[c]

-----------------------------------------------------------------------------
(* AdmissionWaiters                                                        *)

\* A map in insertion order, without one of its keys.
Without(es, e) ==
  IF e \in Range(es) THEN RemoveAt(es, CHOOSE i \in DOMAIN es : es[i] = e) ELSE es

\* An entry leaves both indexes.
RemoveEntry(w, k, s, p) ==
  IF Entry(s, p) \notin EntriesOf(w, k) THEN w
  ELSE [w EXCEPT !.byConnection[k] = Without(@, Entry(s, p)),
                 !.bySpace[s][k] = @ \ {p}]

\* Mutant: an entry added past the limit goes to the map that dropping the
\* oldest has emptied and unregistered.
AddToStaleMap(w, k, s, p) ==
  LET full == Len(w.byConnection[k]) >= Limit
      oldest == Head(w.byConnection[k])
      room == IF full THEN RemoveEntry(w, k, oldest[1], oldest[2]) ELSE w
  IN IF Entry(s, p) \in EntriesOf(w, k) THEN w
     ELSE [room EXCEPT !.byConnection[k] = IF full /\ @ = <<>> THEN @
                                           ELSE Append(@, Entry(s, p)),
                       !.bySpace[s][k] = @ \cup {p}]

\* An entry that is there stays where it is; one too many drops the oldest.
AddEntry(w, k, s, p) ==
  LET full == Len(w.byConnection[k]) >= Limit
      oldest == Head(w.byConnection[k])
      room == IF full THEN RemoveEntry(w, k, oldest[1], oldest[2]) ELSE w
  IN IF Entry(s, p) \in EntriesOf(w, k) THEN w
     ELSE [room EXCEPT !.byConnection[k] = Append(@, Entry(s, p)),
                       !.bySpace[s][k] = @ \cup {p}]

\* What the loops of the class and of its callers do to the indexes, one entry
\* after the other.
Removal(k, e) == [adds |-> FALSE, key |-> k, entry |-> e]

Addition(k, e) == [adds |-> TRUE, key |-> k, entry |-> e]

Edit(w, x) ==
  IF x.adds THEN AddEntry(w, x.key, x.entry[1], x.entry[2])
            ELSE RemoveEntry(w, x.key, x.entry[1], x.entry[2])

EditAll(w, xs) ==
  LET after[i \in 0..Len(xs)] == IF i = 0 THEN w ELSE Edit(after[i - 1], xs[i])
  IN  after[Len(xs)]

\* Removals may come in any order.
RemoveAll(w, gone) == EditAll(w, SetToSeq({Removal(t[1], t[2]) : t \in gone}))

\* Mutant: a closing connection's entries go with it.
HoldNothing(w, c) == RemoveAll(w, {c} \X EntriesOf(w, c))

\* Connection c's entries become held entries, oldest first.
Hold(w, c) ==
  LET es == w.byConnection[c]
  IN  EditAll(w, [i \in 1..(2 * Len(es)) |->
                    LET e == es[(i + 1) \div 2]
                    IN  IF i % 2 = 1 THEN Removal(c, e) ELSE Addition(e[2], e)])

RemovePrincipal(w, c, p) == RemoveAll(w, {c} \X {e \in EntriesOf(w, c) : e[2] = p})

\* What `releaseHeld` removes.
ReleaseHeld(w, p) == {p} \X EntriesOf(w, p)

HeldPrincipals(w) == {p \in Principals : w.byConnection[p] # <<>>}

\* Mutant: only entries of connections are taken.
TakenOfConnections(w, s, admitted) ==
  {e \in Connections \X Principals : e[2] \in w.bySpace[s][e[1]] \cap admitted}

\* The entries for s whose principal is admitted, by the index on spaces.
Taken(w, s, admitted) ==
  {e \in Keys \X Principals : e[2] \in w.bySpace[s][e[1]] \cap admitted}

Take(w, s, admitted) ==
  RemoveAll(w, {<<e[1], Entry(s, e[2])>> : e \in Taken(w, s, admitted)})

-----------------------------------------------------------------------------
(* The server                                                              *)

\* `#connectionsServing`.
Serving(p, open, authenticated, held) ==
  {c \in open : p \in authenticated[c] \/ \E s \in Spaces : Entry(s, p) \in held[c]}

\* `reapAdmissionWaits`: a principal no connection serves has no held entry.
Reap(w, open, authenticated, held) ==
  RemoveAll(w, UNION {ReleaseHeld(w, p) :
                        p \in {q \in HeldPrincipals(w) :
                                Serving(q, open, authenticated, held) = {}}})

\* Mutant: a held entry is told on no connection.
RecipientsOnOpen(w, s, admitted, held) ==
  {<<e[1], s, e[2]>> : e \in {t \in Taken(w, s, admitted) : t[1] \in up}}

\* `#noticeAdmissions`: who is told that s admits them.
Recipients(w, s, admitted, held) ==
  UNION {{<<c, s, e[2]>> : c \in IF e[1] \in Principals
                                  THEN Serving(e[2], up, auth, held)
                                  ELSE {e[1]} \cap up} :
         e \in Taken(w, s, admitted)}

Init ==
  /\ waiters = [byConnection |-> [k \in Keys |-> <<>>],
                bySpace |-> [s \in Spaces |-> [k \in Keys |-> {}]]]
  /\ up = Connections
  /\ auth = [c \in Connections |-> {}]
  /\ sessions = [c \in Connections |-> {}]
  /\ lapsed = [c \in Connections |-> {}]
  /\ granted = [s \in Spaces |-> {}]
  /\ stale = {}
  /\ notice = {}

\* A `connection.auth` is accepted: `admitPrincipal` renews the lease of the
\* sessions opened as p.
Authenticate(c, p) ==
  LET renewed == {e \in lapsed[c] : e[2] = p}
  IN
  /\ c \in up /\ p \notin auth[c]
  /\ auth' = [auth EXCEPT ![c] = @ \cup {p}]
  /\ sessions' = [sessions EXCEPT ![c] = @ \cup renewed]
  /\ lapsed' = [lapsed EXCEPT ![c] = @ \ renewed]
  /\ notice' = {}
  /\ UNCHANGED <<waiters, up, granted, stale>>

\* A lease runs out, after a `connection.release` too: nobody is told, and the
\* sessions opened under it stay in the registry, serving p no more.
Lapse(c, p) ==
  /\ c \in up
  /\ \E out \in SUBSET {e \in sessions[c] : e[2] = p} :
       /\ p \in auth[c] \/ out # {}
       /\ sessions' = [sessions EXCEPT ![c] = @ \ out]
       /\ lapsed' = [lapsed EXCEPT ![c] = @ \cup out]
  /\ auth' = [auth EXCEPT ![c] = @ \ {p}]
  /\ notice' = {}
  /\ UNCHANGED <<waiters, up, granted, stale>>

\* `releasePrincipal`, with `forgetAdmissionWaits`.
Release(c, p) ==
  /\ p \in auth[c]
  /\ auth' = [auth EXCEPT ![c] = @ \ {p}]
  /\ waiters' = Reap(RemovePrincipal(waiters, c, p), up, auth', sessions)
  /\ notice' = {}
  /\ UNCHANGED <<up, sessions, lapsed, granted, stale>>

\* openSession's access check refuses the open (`#awaitAdmission`): recorded only
\* for a connection the server still has.
RefuseOpen(c, s, p) ==
  /\ c \in up /\ p \notin granted[s]
  /\ waiters' = AddEntry(waiters, c, s, p)
  /\ notice' = {}
  /\ UNCHANGED <<up, auth, sessions, lapsed, granted, stale>>

\* openSession completes: the principal is admitted, so its held refusal is
\* answered on the connections that serve it.
Open(c, s, p) ==
  LET others == Serving(p, up, auth, sessions') \ {c}
      mine == RemoveEntry(waiters, c, s, p)
      wasHeld == Entry(s, p) \in EntriesOf(waiters, p)
  IN
  /\ c \in up /\ p \in granted[s] /\ Entry(s, p) \notin Registered(c)
  /\ sessions' = [sessions EXCEPT ![c] = @ \cup {Entry(s, p)}]
  /\ waiters' = IF wasHeld
                THEN RemoveAll(mine, ({p} \cup others) \X {Entry(s, p)})
                ELSE mine
  /\ notice' = IF wasHeld THEN {<<d, s, p>> : d \in others} ELSE {}
  /\ UNCHANGED <<up, auth, lapsed, granted, stale>>

\* A session is closed by its client (`closeSession`, `detachSession`), or opened
\* on another connection.
CloseSession(c, s, p) ==
  /\ \/ /\ Entry(s, p) \in sessions[c]
        /\ sessions' = [sessions EXCEPT ![c] = @ \ {Entry(s, p)}]
        /\ UNCHANGED lapsed
     \/ /\ Entry(s, p) \in lapsed[c]
        /\ lapsed' = [lapsed EXCEPT ![c] = @ \ {Entry(s, p)}]
        /\ UNCHANGED sessions
  /\ waiters' = Reap(waiters, up, auth, sessions')
  /\ notice' = {}
  /\ UNCHANGED <<up, auth, granted, stale>>

\* `close` and `disconnect`.
Disconnect(c) ==
  /\ c \in up
  /\ up' = up \ {c}
  /\ auth' = [auth EXCEPT ![c] = {}]
  /\ sessions' = [sessions EXCEPT ![c] = {}]
  /\ lapsed' = [lapsed EXCEPT ![c] = {}]
  /\ waiters' = Reap(Hold(waiters, c), up', auth', sessions')
  /\ notice' = {}
  /\ UNCHANGED <<granted, stale>>

\* The list of s names who is admitted, and this server acts on it
\* (`#revokeDeauthorizedSessions`, then `#noticeAdmissions`): sessions it no
\* longer admits are revoked and wait, under a lease or not, entries it admits
\* are told.
Applies(s, admitted) ==
  /\ sessions' = [c \in Connections |->
                    {e \in sessions[c] : e[1] = s => e[2] \in admitted}]
  /\ lapsed' = [c \in Connections |->
                  {e \in lapsed[c] : e[1] = s => e[2] \in admitted}]
  /\ \E revoked \in SetToSeqs({Addition(e[1], Entry(s, e[2])) :
                       e \in {f \in Connections \X Principals :
                               /\ Entry(s, f[2]) \in Registered(f[1])
                               /\ f[2] \notin admitted}}) :
       LET waiting == EditAll(waiters, revoked)
           reaped == Reap(waiting, up, auth, sessions')
       IN /\ notice' = Recipients(reaped, s, admitted, sessions')
          /\ waiters' = Take(reaped, s, admitted)

\* A commit of this server's changes the access list: one principal at a time.
ChangeList(s, p) ==
  /\ granted' = [granted EXCEPT ![s] = IF p \in @ THEN @ \ {p} ELSE @ \cup {p}]
  /\ Applies(s, granted'[s])
  /\ UNCHANGED <<up, auth, stale>>

\* Another process changes the list; this server finds out in the space's turn.
ChangeListElsewhere(s, p) ==
  /\ granted' = [granted EXCEPT ![s] = IF p \in @ THEN @ \ {p} ELSE @ \cup {p}]
  /\ stale' = stale \cup {s}
  /\ notice' = {}
  /\ UNCHANGED <<waiters, up, auth, sessions, lapsed>>

Refresh(s) ==
  /\ s \in stale
  /\ stale' = stale \ {s}
  /\ Applies(s, granted[s])
  /\ UNCHANGED <<up, auth, granted>>

Next ==
  \/ \E c \in Connections, p \in Principals :
       Authenticate(c, p) \/ Lapse(c, p) \/ Release(c, p)
  \/ \E c \in Connections, s \in Spaces, p \in Principals :
       RefuseOpen(c, s, p) \/ Open(c, s, p) \/ CloseSession(c, s, p)
  \/ \E c \in Connections : Disconnect(c)
  \/ \E s \in Spaces, p \in Principals : ChangeList(s, p) \/ ChangeListElsewhere(s, p)
  \/ \E s \in Spaces : Refresh(s)

Spec == Init /\ [][Next]_vars

-----------------------------------------------------------------------------
\* The shapes of the indexes and of what the server keeps beside them.
TypeOK ==
  /\ \A k \in Keys : waiters.byConnection[k] \in Seq(Pairs)
  /\ waiters.bySpace \in [Spaces -> [Keys -> SUBSET Principals]]
  /\ up \subseteq Connections /\ stale \subseteq Spaces
  /\ auth \in [Connections -> SUBSET Principals]
  /\ sessions \in [Connections -> SUBSET Pairs]
  /\ lapsed \in [Connections -> SUBSET Pairs]
  /\ granted \in [Spaces -> SUBSET Principals]
  /\ notice \subseteq Connections \X Spaces \X Principals

\* The two indexes hold the same entries, whatever was dropped, moved or taken
\* (admission-waiters.ts:58: the map an eviction emptied is looked up again), each
\* of them once and no more than the limit, and none of a closed connection's
\* (server.ts:4807).
IndexesAgree ==
  /\ \A k \in Keys :
       /\ \A s \in Spaces, p \in Principals :
            Entry(s, p) \in EntriesOf(waiters, k) <=> p \in waiters.bySpace[s][k]
       /\ Cardinality(EntriesOf(waiters, k)) = Len(waiters.byConnection[k])
       /\ Len(waiters.byConnection[k]) <= Limit
  /\ \A c \in Connections \ up : waiters.byConnection[c] = <<>>

\* A refusal that is still recorded has not been answered: once the server has
\* acted on the list, no principal it admits waits (server.ts:4822).
NoAdmittedWaiter ==
  \A k \in Keys, s \in Spaces \ stale :
    waiters.bySpace[s][k] \cap granted[s] = {}

\* Whether the step brings connection c more entries than it has room for.
Overfull(c) ==
  LET new == EntriesOf(waiters', c) \cup (Registered(c) \ Registered(c)')
  IN Cardinality(EntriesOf(waiters, c) \cup new) > Limit

\* A recorded refusal is never just forgotten: it leaves its connection when
\* the connection is told, opens the space, gives up the principal, has no room
\* left, or closes; and then it is held for its principal while anyone is left
\* who serves the principal and the held entries have room (server.ts:4954).
NeverForgotten ==
  [][\A c \in up, s \in Spaces, p \in Principals :
       (/\ Entry(s, p) \in EntriesOf(waiters, c)
        /\ Entry(s, p) \notin EntriesOf(waiters', c))
       => \/ <<c, s, p>> \in notice'
          \/ Entry(s, p) \in sessions'[c]
          \/ p \in auth[c] /\ p \notin auth'[c]
          \/ c \in up' /\ Overfull(c)
          \/ /\ c \notin up'
             /\ \/ Entry(s, p) \in EntriesOf(waiters', p)
                \/ Serving(p, up', auth', sessions') = {}
                \/ Len(waiters'.byConnection[p]) = Limit]_vars

\* A held refusal goes only with its answer, on every connection that serves
\* its principal, or with the last of those connections (server.ts:4978).
HeldUntilAnswered ==
  [][\A s \in Spaces, p \in Principals :
       (/\ Entry(s, p) \in EntriesOf(waiters, p)
        /\ Entry(s, p) \notin EntriesOf(waiters', p))
       => \/ \A c \in Serving(p, up', auth', sessions') :
               <<c, s, p>> \in notice' \/ Entry(s, p) \in sessions'[c]
          \/ Len(waiters'.byConnection[p]) = Limit]_vars
=============================================================================
