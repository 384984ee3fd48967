----------------------------- MODULE ServingHost -----------------------------
(***************************************************************************)
(* The serving lifecycle of one space: the executor host                   *)
(* (runtime/runner/src/executor/host.ts, ExecutorHost), the tenures it     *)
(* builds (space-server.ts, SpaceServer) and the lease they serve under    *)
(* (memory/v2/execution-lease.ts).                                         *)
(*                                                                         *)
(* The host hears of every commit its memory server admits, and of every   *)
(* session that opens.  While the space has a client session, undelivered  *)
(* events or a warm request, it should have an active tenure; a space with *)
(* none of them parks.  An await on the store, the lease, a runtime, a      *)
(* commit, a timer or a park ends a step here, so an admission, a session, *)
(* a failure or the host's close falls between it and the next.  What runs *)
(* on in one turn of the event loop once such a wait is over (a park's     *)
(* handler and the re-evaluation behind it) is one step.                   *)
(*                                                                         *)
(* A tenure's runtime, scheduler and waves are reduced to what the         *)
(* lifecycle depends on: which events a cycle drained, whether it commits, *)
(* and how the commit ends.                                                *)
(***************************************************************************)
EXTENDS Naturals, Sequences, FiniteSets, SequencesExt

CONSTANTS
  Kinds,         \* the kinds of admitted commit explored
  Servers,       \* identities of the SpaceServers standing at one time
  NoServer,      \* no SpaceServer
  MaxSeq,        \* bound on the store's admitted commits
  MaxOpens,      \* bound on the times a client session opens
  MaxFailures,   \* bound on throws (engine open, activation, loop, requeue)
  MaxRivalries,  \* bound on the turns another process holds the lease
  MayClose       \* whether the host's close is explored

ASSUME HostAssumption ==
  /\ Kinds \subseteq {"event", "warm", "authored", "system", "delete"}
  /\ NoServer \notin Servers
  /\ Servers # {} /\ IsFiniteSet(Servers)
  /\ {MaxSeq, MaxOpens, MaxFailures, MaxRivalries} \subseteq Nat
  /\ MayClose \in BOOLEAN

VARIABLES
  log,       \* kind of each admitted commit, by seq
  pending,   \* seqs of the events no wave has consequenced
  watermark, \* the stored watermark document
  transit,   \* admitted commits the host's observer has not seen yet
  sessions,  \* whether a client session is live on the space
  lease,     \* the lease map's entry for the space
  host,      \* the host's state for the space
  server,    \* the SpaceServers
  derived,   \* warm requests a tenure ran to rest over
  budget     \* what is left of the bounds

vars == <<log, pending, watermark, transit, sessions, lease, host, server,
          derived, budget>>

Deleted == "delete" \in Range(log)

Warm(S) == {n \in S : log[n] = "warm"}

Events(S) == {n \in S : log[n] = "event"}

-----------------------------------------------------------------------------
(* The host's helpers, on its record h                                     *)

Gone ==
  [at |-> "none", feed |-> {}, scanOwed |-> FALSE, scanHead |-> 0, covered |-> 0,
   warm |-> {}, wave |-> {}, inFlight |-> FALSE, reason |-> "none"]

Is(s, stages) == s # NoServer /\ server[s].at \in stages

Active(s) == Is(s, {"serving", "committing"})

Activating(h) == h.activating.at # "none"

NoActivation == [at |-> "none", server |-> NoServer]

Buffer(h, n) == [h EXCEPT !.pending = @ \cup {n}]

\* `#activate`: one activation in flight, and none once the host is closed or
\* while the registered tenure serves.
Activate(h) ==
  IF Activating(h) \/ h.closed # "open" \/ Active(h.space) THEN h
  ELSE [h EXCEPT !.activating =
          [at |-> IF h.failing THEN "backoff" ELSE "opening", server |-> NoServer]]

\* Mutant: a tenure's warm requests go with it.
EndTenureDropsWarm(h, s, servedWarm) ==
  [h EXCEPT !.space = IF @ = s THEN NoServer ELSE @]

\* `#endTenure`: unregister s; warm requests it did not serve go back.
EndTenure(h, s, servedWarm) ==
  [h EXCEPT !.space = IF @ = s THEN NoServer ELSE @,
            !.pending = @ \cup (IF servedWarm THEN {} ELSE server[s].warm)]

\* Mutant: only a live session re-activates.
ReevaluateSessionsOnly(h) ==
  IF h.closed # "open" \/ Active(h.space) \/ ~ sessions THEN h ELSE Activate(h)

\* `#reactivateAfterPark` once no park and no activation is left to wait for:
\* the ACTIVE criteria again.  A warm request or a session activates at once;
\* otherwise the store is read for undelivered events (CheckEvents).
Reevaluate(h) ==
  IF h.closed # "open" \/ Active(h.space) THEN h
  ELSE IF Warm(h.pending) # {} \/ sessions THEN Activate(h)
  ELSE [h EXCEPT !.checking = TRUE]

EndActivation(h) == [h EXCEPT !.activating = NoActivation]

\* The park handler (`onParked`) up to its re-evaluation: an idle park or a
\* deletion ends a streak of failures, a rival's lease leaves it, and any other
\* park extends it.
OnParked(h, s, reason) ==
  CASE reason = "space-deleted" ->
         EndTenure([h EXCEPT !.failing = FALSE, !.pending = {}], s, TRUE)
    [] reason = "lease-unavailable" -> EndTenure(h, s, FALSE)
    [] reason = "idle" -> EndTenure([h EXCEPT !.failing = FALSE], s, TRUE)
    [] OTHER -> EndTenure([h EXCEPT !.failing = TRUE], s, FALSE)

Enqueue(sv, n) ==
  [sv EXCEPT !.feed = @ \cup {n},
             !.warm = @ \cup (IF log[n] = "warm" THEN {n} ELSE {})]

\* A commit in flight is the park's to see through.
StartPark(s, reason) ==
  [server[s] EXCEPT !.at = "parking", !.reason = reason,
                    !.inFlight = server[s].at = "committing"]

-----------------------------------------------------------------------------
Init ==
  /\ log = <<>>
  /\ pending = {}
  /\ watermark = 0
  /\ transit = {}
  /\ sessions = FALSE
  /\ lease = "free"
  /\ host = [closed |-> "open", space |-> NoServer, pending |-> {}, failing |-> FALSE,
             activating |-> NoActivation, checking |-> FALSE]
  /\ server = [s \in Servers |-> Gone]
  /\ derived = {}
  /\ budget = [opens |-> MaxOpens, failures |-> MaxFailures, rivalries |-> MaxRivalries]

store == <<log, pending, watermark>>

Fail ==
  /\ budget.failures > 0
  /\ budget' = [budget EXCEPT !.failures = @ - 1]

-----------------------------------------------------------------------------
(* Clients, other processes and the embedder                               *)

\* The store admits a commit; the observer is told later.
Admit(kind) ==
  /\ Len(log) < MaxSeq /\ ~ Deleted
  /\ log' = Append(log, kind)
  /\ transit' = transit \cup {Len(log) + 1}
  /\ pending' = pending \cup (IF kind = "event" THEN {Len(log) + 1} ELSE {})
  /\ UNCHANGED <<watermark, sessions, lease, host, server, derived, budget>>

\* Mutant: a session that opens during a park activates at once.
OpenSessionAtOnce ==
  /\ ~ sessions /\ budget.opens > 0
  /\ sessions' = TRUE
  /\ budget' = [budget EXCEPT !.opens = @ - 1]
  /\ host' = Activate(host)
  /\ UNCHANGED <<store, transit, lease, server, derived>>

\* `#onSessionOpened`.  Against a park in progress the session waits for the
\* re-evaluation that ends the park (FinishPark).
OpenSession ==
  /\ ~ sessions /\ budget.opens > 0
  /\ sessions' = TRUE
  /\ budget' = [budget EXCEPT !.opens = @ - 1]
  /\ host' = IF host.space = NoServer \/ Activating(host) THEN Activate(host) ELSE host
  /\ UNCHANGED <<store, transit, lease, server, derived>>

CloseSession ==
  /\ sessions
  /\ sessions' = FALSE
  /\ UNCHANGED <<store, transit, lease, host, server, derived, budget>>

RivalAcquires ==
  /\ lease = "free" /\ budget.rivalries > 0
  /\ lease' = "rival"
  /\ budget' = [budget EXCEPT !.rivalries = @ - 1]
  /\ UNCHANGED <<store, transit, sessions, host, server, derived>>

RivalReleases ==
  /\ lease = "rival"
  /\ lease' = "free"
  /\ UNCHANGED <<store, transit, sessions, host, server, derived, budget>>

Close ==
  /\ MayClose /\ host.closed = "open"
  /\ host' = [host EXCEPT !.closed = "draining"]
  /\ transit' = {}
  /\ UNCHANGED <<store, sessions, lease, server, derived, budget>>

-----------------------------------------------------------------------------
(* Admission notices (`#onCommitAdmitted`)                                 *)

\* An access-list notice reaches an active tenure first, and ends it if the
\* space is deleted.
NoteAclChanged(n) ==
  IF log[n] = "delete" /\ Active(host.space)
  THEN [server EXCEPT ![host.space] = StartPark(host.space, "space-deleted")]
  ELSE server

MeetsCriteria(n) == log[n] \in {"event", "warm"} \/ (log[n] # "system" /\ sessions)

\* Notices arrive in commit order, except that a warm request is reported by
\* the wave that staged it, after its commit.
Notice(n) ==
  /\ n \in transit /\ host.closed = "open"
  /\ log[n] = "warm" \/ \A m \in transit : m < n => log[m] = "warm"
  /\ transit' = transit \ {n}
  /\ LET s      == host.space
         noted  == NoteAclChanged(n)
         active == s # NoServer /\ noted[s].at \in {"serving", "committing"}
     IN  \/ /\ s # NoServer /\ (active \/ Activating(host))
            /\ server' = [noted EXCEPT ![s] = Enqueue(@, n)]
            /\ UNCHANGED host
         \/ /\ s # NoServer /\ ~ active /\ ~ Activating(host)
            /\ server' = noted
            /\ host' = IF log[n] = "warm" THEN Buffer(host, n) ELSE host
         \/ /\ s = NoServer /\ Activating(host)
            /\ host' = Buffer(host, n)
            /\ UNCHANGED server
         \/ /\ s = NoServer /\ ~ Activating(host)
            /\ host' = IF MeetsCriteria(n) THEN Activate(Buffer(host, n)) ELSE host
            /\ UNCHANGED server
  /\ UNCHANGED <<store, sessions, lease, derived, budget>>

-----------------------------------------------------------------------------
(* Activation (`#activateInner`, SpaceServer.activate)                     *)

\* The backoff sleep ends (close wakes it); the preconditions are read again.
BackoffElapses ==
  /\ host.activating.at = "backoff"
  /\ host' = IF host.closed # "open" \/ Active(host.space) THEN EndActivation(host)
             ELSE [host EXCEPT !.activating.at = "opening"]
  /\ UNCHANGED <<store, transit, sessions, lease, server, derived, budget>>

\* The engine is open: a deleted space gets no tenure; otherwise a server is
\* built and registered, and drains what was buffered for it.  Waits on one
\* engine's open resume in order, and a re-evaluation's began before this one.
Register ==
  /\ host.activating.at = "opening" /\ ~ host.checking
  /\ \/ /\ Deleted
        /\ host' = EndActivation([host EXCEPT !.pending = {}, !.failing = FALSE])
        /\ UNCHANGED server
     \/ /\ ~ Deleted
        /\ \E s \in Servers :
             /\ server[s].at = "none"
             /\ host' = [host EXCEPT !.space = s, !.pending = {},
                           !.activating = [at |-> "activating", server |-> s]]
             /\ server' = [server EXCEPT ![s] =
                  [Gone EXCEPT !.at = "acquiring", !.feed = host.pending,
                               !.warm = Warm(host.pending)]]
  /\ UNCHANGED <<store, transit, sessions, lease, derived, budget>>

\* Mutant: a failed activation is logged and left there.
ActivationThrowsOnly ==
  /\ host.activating.at = "opening" \/ Is(host.activating.server, {"acquiring"})
  /\ Fail
  /\ LET s     == host.activating.server
         ended == IF s = NoServer THEN host ELSE EndTenure(host, s, FALSE)
     IN  /\ host' = EndActivation([ended EXCEPT !.failing = TRUE])
         /\ server' = IF s = NoServer THEN server ELSE [server EXCEPT ![s] = Gone]
  /\ UNCHANGED <<store, transit, sessions, lease, derived>>

\* A throw no park precedes (the engine open, the lease request): the tenure,
\* if one was built, ends here.
ActivationThrows ==
  /\ host.activating.at = "opening" \/ Is(host.activating.server, {"acquiring"})
  /\ Fail
  /\ LET s     == host.activating.server
         ended == IF s = NoServer THEN host ELSE EndTenure(host, s, FALSE)
     IN  /\ host' = Reevaluate(EndActivation([ended EXCEPT !.failing = TRUE]))
         /\ server' = IF s = NoServer THEN server ELSE [server EXCEPT ![s] = Gone]
  /\ UNCHANGED <<store, transit, sessions, lease, derived>>

\* ExecutionLeases.acquire grants a free lease and the holder's own.
Acquire(s) ==
  /\ server[s].at = "acquiring"
  /\ \/ /\ lease # "rival"
        /\ lease' = "own"
        /\ server' = [server EXCEPT ![s].at = "building"]
        /\ UNCHANGED host
     \/ /\ lease = "rival"
        /\ host' = EndActivation(OnParked(host, s, "lease-unavailable"))
        /\ server' = [server EXCEPT ![s] = Gone]
        /\ UNCHANGED lease
  /\ UNCHANGED <<store, transit, sessions, derived, budget>>

\* The runtime is built and the scan head read (`#initializeRuntime`).
ReadHead(s) ==
  /\ server[s].at = "building"
  /\ server' = [server EXCEPT ![s].at = "scanning", ![s].scanHead = Len(log)]
  /\ UNCHANGED <<store, transit, sessions, lease, host, derived, budget>>

\* Mutant: the feed starts empty, whatever arrived since the head was read.
ScanEmptiesFeed(s) ==
  /\ server[s].at = "scanning"
  /\ server' = [server EXCEPT ![s].at = "resending", ![s].feed = {},
                  ![s].scanOwed = \E n \in pending : n <= server[s].scanHead,
                  ![s].covered = server[s].scanHead]
  /\ UNCHANGED <<store, transit, sessions, lease, host, derived, budget>>

\* Undelivered events arm the drain; queued records up to the scan head go.
Scan(s) ==
  /\ server[s].at = "scanning"
  /\ server' = [server EXCEPT ![s].at = "resending",
                  ![s].scanOwed = pending # {},
                  ![s].feed = {n \in @ : n > server[s].scanHead},
                  ![s].covered = server[s].scanHead]
  /\ UNCHANGED <<store, transit, sessions, lease, host, derived, budget>>

\* The outbox has re-sent its rows and the tenure is active.  If the host
\* closed meanwhile, the activation parks what it activated.
BecomeActive(s) ==
  /\ server[s].at = "resending"
  /\ IF host.closed = "open"
     THEN /\ server' = [server EXCEPT ![s].at = "serving"]
          /\ host' = EndActivation(host)
     ELSE /\ server' = [server EXCEPT ![s] = StartPark(s, "host-closed")]
          /\ UNCHANGED host
  /\ UNCHANGED <<store, transit, sessions, lease, derived, budget>>

InitializeFails(s) ==
  /\ Is(s, {"building", "scanning", "resending"})
  /\ Fail
  /\ server' = [server EXCEPT ![s] = StartPark(s, "activation-failed")]
  /\ UNCHANGED <<store, transit, sessions, lease, host, derived>>

-----------------------------------------------------------------------------
(* The loop of an active tenure (`#loop`, `#waveCycle`)                    *)

\* The seqs a drain of the feed takes in, and whether one carries an event.
Drained(s) == {n \in server[s].feed : n > server[s].scanHead}

MaxOf(S) == CHOOSE m \in S : \A n \in S : n <= m

HasWork(s) == server[s].feed # {} \/ server[s].scanOwed

\* A cycle drains the feed and, if a scan is owed, the undelivered events.  It
\* commits when it drained an event or its input moved past the watermark.
Cycle(s) ==
  LET sv      == server[s]
      owed    == sv.scanOwed \/ Events(Drained(s)) # {}
      covered == MaxOf({sv.covered} \cup Drained(s))
      wave    == IF owed THEN pending ELSE {}
  IN  /\ sv.at = "serving"
      /\ HasWork(s) \/ covered > watermark
      /\ server' = [server EXCEPT ![s] =
           [sv EXCEPT !.feed = {}, !.scanOwed = FALSE, !.covered = covered,
                      !.wave = wave,
                      !.at = IF wave # {} \/ covered > watermark
                             THEN "committing" ELSE "serving"]]
      /\ UNCHANGED <<store, transit, sessions, lease, host, derived, budget>>

\* The wave's commit lands: its events are consequenced, the watermark moves
\* with it, and the failure streak is cleared.
CommitWave(s) ==
  /\ server[s].at = "committing" /\ lease = "own" /\ ~ Deleted
  /\ pending' = pending \ server[s].wave
  /\ watermark' = server[s].covered
  /\ server' = [server EXCEPT ![s].at = "serving", ![s].wave = {},
                  ![s].scanOwed = @ \/ (pending \ server[s].wave) # {}]
  /\ host' = [host EXCEPT !.failing = FALSE]
  /\ UNCHANGED <<log, transit, sessions, lease, derived, budget>>

\* The same, with one event's consequences rolled back: its entry stays and
\* the scan is owed.
RequeueEvent(s) ==
  /\ server[s].at = "committing" /\ lease = "own" /\ ~ Deleted
  /\ Fail
  /\ \E n \in server[s].wave : pending' = pending \ (server[s].wave \ {n})
  /\ watermark' = server[s].covered
  /\ server' = [server EXCEPT ![s].at = "serving", ![s].wave = {}, ![s].scanOwed = TRUE]
  /\ host' = [host EXCEPT !.failing = FALSE]
  /\ UNCHANGED <<log, transit, sessions, lease, derived>>

\* The home commit, or a foreign one ahead of it, is refused for what the wave
\* holds: nothing lands, and the events it drained are owed again.
WaveRejected(s) ==
  /\ server[s].at = "committing"
  /\ Fail
  /\ server' = [server EXCEPT ![s].at = "serving", ![s].wave = {},
                  ![s].scanOwed = @ \/ server[s].wave # {}]
  /\ UNCHANGED <<store, transit, sessions, lease, host, derived>>

\* Mutant: a wave refused for the space's deletion is not told apart.
WaveRefusedForLease(s) ==
  /\ server[s].at = "committing" /\ lease # "own"
  /\ server' = [server EXCEPT ![s] = StartPark(s, "lease-lost-abort")]
  /\ UNCHANGED <<store, transit, sessions, lease, host, derived, budget>>

\* The engine refuses the wave: the lease is lost, or the space deleted.
WaveRefused(s) ==
  /\ server[s].at = "committing"
  /\ Deleted \/ lease # "own"
  /\ server' = [server EXCEPT ![s] =
       StartPark(s, IF Deleted THEN "space-deleted" ELSE "lease-lost-abort")]
  /\ UNCHANGED <<store, transit, sessions, lease, host, derived, budget>>

LoopFails(s) ==
  /\ Active(s)
  /\ Fail
  /\ server' = [server EXCEPT ![s] = StartPark(s, "loop-failed")]
  /\ UNCHANGED <<store, transit, sessions, lease, host, derived>>

\* Nothing to do, no session and no undelivered event for the idle time.
IdlePark(s) ==
  /\ server[s].at = "serving"
  /\ ~ HasWork(s) /\ server[s].covered <= watermark
  /\ ~ sessions /\ pending = {}
  /\ server' = [server EXCEPT ![s] = StartPark(s, "idle")]
  /\ UNCHANGED <<store, transit, sessions, lease, host, derived, budget>>

-----------------------------------------------------------------------------
(* Parking (`#parkResources`)                                              *)

\* A commit in flight when the park began lands ahead of the release.
InFlightLands(s) ==
  /\ server[s].at = "parking" /\ server[s].inFlight
  /\ lease = "own" /\ ~ Deleted
  /\ pending' = pending \ server[s].wave
  /\ watermark' = server[s].covered
  /\ server' = [server EXCEPT ![s].wave = {}, ![s].inFlight = FALSE]
  /\ UNCHANGED <<log, transit, sessions, lease, host, derived, budget>>

Release(s) ==
  /\ server[s].at = "parking"
  /\ lease' = IF lease = "own" THEN "free" ELSE lease
  /\ server' = [server EXCEPT ![s].at = "released", ![s].wave = {},
                  ![s].inFlight = FALSE]
  /\ UNCHANGED <<store, transit, sessions, host, derived, budget>>

\* The park handler runs and `whenParked` resolves: its re-evaluation, those
\* that sessions and notices chained behind the park, and an activation the
\* park ends run on in the same turn, as one.
FinishPark(s) ==
  /\ server[s].at = "released"
  /\ LET reason == server[s].reason
         parked == OnParked(host, s, reason)
         ended  == IF host.activating.server = s THEN EndActivation(parked) ELSE parked
     IN  /\ host' = IF reason = "space-deleted" THEN ended ELSE Reevaluate(ended)
         /\ derived' = derived \cup (IF reason = "idle" THEN server[s].warm ELSE {})
  /\ server' = [server EXCEPT ![s] = Gone]
  /\ UNCHANGED <<store, transit, sessions, lease, budget>>

\* The engine has opened for a re-evaluation: undelivered events activate.
CheckEvents ==
  /\ host.checking
  /\ LET h == [host EXCEPT !.checking = FALSE] IN
     host' = IF pending = {} THEN h ELSE Activate(h)
  /\ UNCHANGED <<store, transit, sessions, lease, server, derived, budget>>

\* The store cannot be read: activate, and find out there.
CheckEventsFails ==
  /\ host.checking
  /\ Fail
  /\ host' = Activate([host EXCEPT !.checking = FALSE])
  /\ UNCHANGED <<store, transit, sessions, lease, server, derived>>

-----------------------------------------------------------------------------
(* Close (`#closeInner`)                                                   *)

\* Mutant: activations in flight are not waited for.
CloseParksAtOnce ==
  /\ host.closed = "draining"
  /\ host' = [host EXCEPT !.closed = "parking"]
  /\ server' = IF Active(host.space)
               THEN [server EXCEPT ![host.space] = StartPark(host.space, "host-closed")]
               ELSE server
  /\ UNCHANGED <<store, transit, sessions, lease, derived, budget>>

\* Mutant: a serving tenure is waited for and never told to park.
CloseParksNone ==
  /\ host.closed = "draining" /\ ~ Activating(host)
  /\ host' = [host EXCEPT !.closed = "parking"]
  /\ UNCHANGED <<store, transit, sessions, lease, server, derived, budget>>

\* No activation is left in flight: every registered server parks.
CloseParks ==
  /\ host.closed = "draining" /\ ~ Activating(host)
  /\ host' = [host EXCEPT !.closed = "parking"]
  /\ server' = IF Active(host.space)
               THEN [server EXCEPT ![host.space] = StartPark(host.space, "host-closed")]
               ELSE server
  /\ UNCHANGED <<store, transit, sessions, lease, derived, budget>>

CloseReturns ==
  /\ host.closed = "parking" /\ host.space = NoServer
  /\ host' = [host EXCEPT !.closed = "closed", !.pending = {}]
  /\ UNCHANGED <<store, transit, sessions, lease, server, derived, budget>>

Activation ==
  \/ BackoffElapses \/ Register \/ CheckEvents
  \/ \E s \in Servers : Acquire(s) \/ ReadHead(s) \/ Scan(s) \/ BecomeActive(s)

Loop == \E s \in Servers : Cycle(s) \/ CommitWave(s) \/ WaveRefused(s) \/ IdlePark(s)

Parking == \E s \in Servers : Release(s) \/ FinishPark(s)

Closing == CloseParks \/ CloseReturns

\* What the process does by itself once it can.
Progress ==
  Activation \/ Loop \/ Parking \/ Closing \/ \E n \in transit : Notice(n)

\* What others do, and what may go wrong.
Environment ==
  \/ \E k \in Kinds : Admit(k)
  \/ OpenSession \/ CloseSession \/ RivalAcquires \/ RivalReleases \/ Close
  \/ ActivationThrows \/ CheckEventsFails
  \/ \E s \in Servers :
       \/ InitializeFails(s) \/ RequeueEvent(s) \/ WaveRejected(s)
       \/ LoopFails(s) \/ InFlightLands(s)

Next == Progress \/ Environment

Spec == Init /\ [][Next]_vars

\* The event loop runs whatever is ready, timers included; nothing is asked of
\* clients, rivals or failures.
FairSpec == Spec /\ WF_vars(Progress)

-----------------------------------------------------------------------------
(* Properties                                                              *)

Stages ==
  {"none", "acquiring", "building", "scanning", "resending", "serving", "committing",
   "parking", "released"}

Reasons ==
  {"none", "space-deleted", "host-closed", "activation-failed", "lease-lost-abort",
   "loop-failed", "idle"}

ServerStates ==
  [at : Stages, feed : SUBSET Nat, scanOwed : BOOLEAN, scanHead : Nat, covered : Nat,
   warm : SUBSET Nat, wave : SUBSET Nat, inFlight : BOOLEAN, reason : Reasons]

HostStates ==
  [closed : {"open", "draining", "parking", "closed"}, space : Servers \cup {NoServer},
   pending : SUBSET Nat, failing : BOOLEAN,
   activating : [at : {"none", "backoff", "opening", "activating"},
                 server : Servers \cup {NoServer}],
   checking : BOOLEAN]

\* The host's and the tenures' records name commits, servers and stages that
\* exist, only events wait for delivery, and no tenure is ahead of the store.
TypeOK ==
  /\ log \in Seq(Kinds)
  /\ pending \subseteq Events(DOMAIN log)
  /\ transit \cup host.pending \cup derived \subseteq DOMAIN log
  /\ watermark \in 0..Len(log)
  /\ sessions \in BOOLEAN
  /\ lease \in {"free", "own", "rival"}
  /\ host \in HostStates
  /\ server \in [Servers -> ServerStates]
  /\ \A s \in Servers : /\ server[s].feed \cup server[s].warm \subseteq DOMAIN log
                        /\ server[s].wave \subseteq Events(DOMAIN log)
                        /\ {server[s].scanHead, server[s].covered} \subseteq 0..Len(log)
  /\ budget \in [opens : Nat, failures : Nat, rivalries : Nat]

\* A tenure serves only under the lease, and is the one the host feeds: no
\* park releases the lease under a successor, and no successor is registered
\* over a tenure that still serves (`#activate`, `#reactivateAfterPark`).
ServesUnderLease ==
  \A s \in Servers : Active(s) => lease = "own" /\ host.space = s

\* Once close has returned, no tenure stands and the lease is not held, however
\* activations, parks and re-evaluations were in flight (`#closeInner`).
ClosedIsQuiet ==
  host.closed = "closed" => lease # "own" /\ \A s \in Servers : server[s].at = "none"

\* Something the host has in hand will meet event n.
Reachable(n) ==
  \/ n \in transit
  \/ host.checking
  \/ host.activating.at \in {"backoff", "opening"}
  \/ Is(host.space, {"acquiring", "building", "scanning", "parking", "released"})
  \/ /\ Is(host.space, {"resending", "serving", "committing"})
     /\ \/ server[host.space].scanOwed
        \/ n \in Drained(host.space) \cup server[host.space].wave

\* An undelivered event is never left with nothing that will find it: between
\* the activation scan, the feed's filter at the scan head, the drain and the
\* re-evaluation after a park, no window drops it.  (A deleted space, a closed
\* host and a space once left to a rival's lease are excepted.)
EventReachable ==
  \A n \in pending :
     Deleted \/ host.closed # "open" \/ budget.rivalries < MaxRivalries \/ Reachable(n)

\* The space may be served.
Servable == host.closed = "open" /\ ~ Deleted

\* Every event is consequenced, whichever tenures fail, park or are rebuilt
\* before that, and whether or not a client is there (serving-loop.md 1, 6).
EventsServed == \A n \in 1..MaxSeq : (n \in pending) ~> (n \notin pending \/ ~ Servable)

\* A space with a live session is served again, even if the session opened
\* while the space was parking or its activation failed.
SessionServed == sessions ~> (~ sessions \/ Active(host.space) \/ ~ Servable)

\* A warm request outlives the tenures that fail with it: in the end a tenure
\* ran to rest over it, or holds it as demand (`#endTenure`).
WarmServed ==
  <>[](\/ ~ Servable
       \/ \A n \in Warm(DOMAIN log) :
            n \in derived \/ (Active(host.space) /\ n \in server[host.space].warm))

\* A deleted space is given up for good, also when the deletion is admitted
\* while a tenure is being built (`noteSpaceAclChanged`, `space-deleted` waves).
DeletionEndsService == Deleted ~> [](lease # "own")

\* Close returns: no park, activation or re-evaluation it waits for waits for
\* something in turn.
CloseReturned == host.closed = "draining" ~> host.closed = "closed"

=============================================================================
