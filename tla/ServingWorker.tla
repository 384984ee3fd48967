---------------------------- MODULE ServingWorker ----------------------------
(***************************************************************************)
(* The serving loop in a worker thread: the supervisor on the memory       *)
(* server's thread (runtime/runner/src/executor/serving-worker-host.ts),   *)
(* the two ends of its port (serving-port-bridge.ts, serving-port-plane.ts, *)
(* serving-port-protocol.ts), the lease map and the lease cycle            *)
(* (memory/v2/execution-lease.ts), and the worker's waves (wave.ts,        *)
(* space-server.ts) for one space.                                         *)
(*                                                                         *)
(* A worker that fails is replaced by the next generation, which holds     *)
(* leases under a name of its own.  The two threads share nothing but the  *)
(* port, which delivers in order; the server's thread handles each message *)
(* in one turn (the space's engine is open by then, and a sink is          *)
(* synchronous).  Once a bridge is closed neither side hears the other, but *)
(* the thread behind it may run on for as long as it likes.                *)
(***************************************************************************)
EXTENDS Naturals, Sequences, FiniteSets

CONSTANTS
  MaxGens,      \* bound on the workers started
  MaxTenures,   \* bound on one worker's activations of the space
  MaxWaves,     \* bound on the waves sealed
  MaxConflicts, \* bound on the waves the sink refuses for a conflict
  MaxTroubles,  \* bound on crashes, stalls and failed tenures
  MaxSessions,  \* bound on the times the client session opens
  MayClose      \* whether the supervisor's close is explored

ASSUME WorkerAssumption ==
  /\ {MaxGens, MaxTenures} \subseteq Nat \ {0}
  /\ {MaxWaves, MaxConflicts, MaxTroubles, MaxSessions} \subseteq Nat
  /\ MayClose \in BOOLEAN

VARIABLES
  sup,      \* the supervisor
  bridge,   \* per generation, its bridge
  worker,   \* per generation, its thread and the host in it
  up,       \* per generation, messages to the server's thread, in order
  down,     \* per generation, messages to the worker, in order
  lease,    \* the lease map's entry for the space: a generation, or None
  session,  \* whether a client session is live on the space
  history,  \* what landed, and under which tenure (no code reads it)
  budget    \* what is left of the bounds

vars == <<sup, bridge, worker, up, down, lease, session, history, budget>>

None == 0

Gens == 1..MaxGens

Messages ==
  [kind : {"ready", "init", "initOk", "acquire", "release", "released", "opened",
           "closed", "close", "hostClosed"}]
    \cup [kind : {"acquired"}, granted : BOOLEAN]
    \cup [kind : {"wave"}, tenure : 1..MaxTenures]
    \cup [kind : {"verdict"}, tenure : 1..MaxTenures, result : {"ok", "conflict", "refused"}]

Msg(kind) == [kind |-> kind]

Unborn ==
  [thread |-> "none", at |-> "loading", mirror |-> FALSE, closing |-> FALSE,
   cycle |-> 0, held |-> FALSE, deciding |-> {}, sent |-> {}]

Init ==
  /\ sup = [gen |-> 1, terminating |-> None, respawn |-> "none",
            closed |-> "open", closing |-> None]
  /\ bridge = [g \in Gens |-> [open |-> g = 1, serving |-> FALSE, lock |-> FALSE]]
  /\ worker = [g \in Gens |-> IF g = 1 THEN [Unborn EXCEPT !.thread = "running"] ELSE Unborn]
  /\ up = [g \in Gens |-> <<>>]
  /\ down = [g \in Gens |-> <<>>]
  /\ lease = None
  /\ session = FALSE
  /\ history = [grants |-> [g \in Gens |-> 0], ended |-> {}, landed |-> 0,
                latest |-> <<None, 0>>]
  /\ budget = [waves |-> MaxWaves, conflicts |-> MaxConflicts, troubles |-> MaxTroubles,
               sessions |-> MaxSessions]

Spend(what) ==
  /\ budget[what] > 0
  /\ budget' = [budget EXCEPT ![what] = @ - 1]

\* What the worker posts goes nowhere once the bridge has stopped listening.
Post(g, m) == up' = IF bridge[g].open THEN [up EXCEPT ![g] = Append(@, m)] ELSE up

\* The tenure that holds the lease, as the server counts its grants.
Owner == IF lease = None THEN <<None, 0>> ELSE <<lease, history.grants[lease]>>

-----------------------------------------------------------------------------
(* The worker's thread                                                     *)

Running(g) == worker[g].thread = "running"

\* `ExecutionLeaseCycle.isCurrentTenure`, on the cycle the wave sealed under.
IsCurrentTenure(g, tenure) == worker[g].held /\ tenure = worker[g].cycle

\* The module is loaded and its listener installed.
Load(g) ==
  /\ Running(g) /\ worker[g].at = "loading"
  /\ worker' = [worker EXCEPT ![g].at = "loaded"]
  /\ Post(g, Msg("ready"))
  /\ UNCHANGED <<sup, bridge, down, lease, session, history, budget>>

\* The host's ACTIVE criteria hold and no tenure stands: SpaceServer.activate
\* asks for the lease with a lease cycle of its own.
Activate(g) ==
  /\ Running(g) /\ worker[g].at = "parked"
  /\ worker[g].mirror /\ ~ worker[g].closing
  /\ worker[g].cycle < MaxTenures
  /\ worker' = [worker EXCEPT ![g].at = "acquiring"]
  /\ Post(g, Msg("acquire"))
  /\ UNCHANGED <<sup, bridge, down, lease, session, history, budget>>

\* A wave seals under the current tenure; its conflicts are resolved against
\* the store before it is sent.  A tenure has one wave in commit at a time.
SealWave(g) ==
  /\ Running(g) /\ worker[g].at = "serving"
  /\ worker[g].cycle \notin worker[g].deciding \cup worker[g].sent
  /\ Spend("waves")
  /\ worker' = [worker EXCEPT ![g].deciding = @ \cup {worker[g].cycle}]
  /\ UNCHANGED <<sup, bridge, up, down, lease, session, history>>

\* Mutant: an attempt does not read the tenure again.
AttemptWaveAlways(g) ==
  /\ Running(g)
  /\ \E t \in worker[g].deciding :
       /\ worker' = [worker EXCEPT ![g].deciding = @ \ {t}, ![g].sent = @ \cup {t}]
       /\ Post(g, [kind |-> "wave", tenure |-> t])
  /\ UNCHANGED <<sup, bridge, down, lease, session, history, budget>>

\* Resolution is done: the wave is sent if the tenure it sealed under is still
\* the current one, and aborts otherwise (`#tenureEnded` ahead of each attempt).
AttemptWave(g) ==
  /\ Running(g)
  /\ \E t \in worker[g].deciding :
       \/ /\ IsCurrentTenure(g, t)
          /\ worker' = [worker EXCEPT ![g].deciding = @ \ {t}, ![g].sent = @ \cup {t}]
          /\ Post(g, [kind |-> "wave", tenure |-> t])
       \/ /\ ~ IsCurrentTenure(g, t)
          /\ worker' = [worker EXCEPT ![g].deciding = @ \ {t}]
          /\ UNCHANGED up
  /\ UNCHANGED <<sup, bridge, down, lease, session, history, budget>>

\* A tenure parks when the host closes or no session is left, at rest; or when
\* its loop fails, whatever it has in flight.
Park(g) ==
  /\ Running(g) /\ worker[g].at = "serving"
  /\ \/ /\ worker[g].closing \/ (~ worker[g].mirror /\ worker[g].deciding \cup worker[g].sent = {})
        /\ UNCHANGED budget
     \/ /\ worker[g].cycle < MaxTenures
        /\ Spend("troubles")
  /\ worker' = [worker EXCEPT ![g].at = "parking"]
  /\ UNCHANGED <<sup, bridge, up, down, lease, session, history>>

\* The runtime is disposed, or the dispose (a commit in flight ahead of it
\* included) overran its deadline and is abandoned: the tenure ends, then the
\* release is posted.
ReleaseTenure(g) ==
  /\ Running(g) /\ worker[g].at = "parking"
  /\ worker' = [worker EXCEPT ![g].at = "releasing", ![g].held = FALSE]
  /\ Post(g, Msg("release"))
  /\ UNCHANGED <<sup, bridge, down, lease, session, history, budget>>

\* The host in the worker has no tenure left and its close is done.
AnswerClose(g) ==
  /\ Running(g) /\ worker[g].closing /\ worker[g].at \in {"parked", "refused"}
  /\ worker' = [worker EXCEPT ![g].at = "closed"]
  /\ Post(g, Msg("hostClosed"))
  /\ UNCHANGED <<sup, bridge, down, lease, session, history, budget>>

\* A conflict under the current tenure is resolved and the wave attempted again;
\* any other verdict ends the wave.  A refusal under a tenure that serves is a
\* lost lease, and parks it.
HandleVerdict(g, m) ==
  LET again == m.result = "conflict" /\ IsCurrentTenure(g, m.tenure)
      lost  == m.result = "refused" /\ IsCurrentTenure(g, m.tenure)
  IN  worker' = [worker EXCEPT
        ![g].sent = @ \ {m.tenure},
        ![g].deciding = IF again THEN @ \cup {m.tenure} ELSE @,
        ![g].at = IF lost /\ @ = "serving" THEN "parking" ELSE @]

\* The worker's next message.  A host refused the lease leaves the space to its
\* holder: only another session's open activates it again.
WorkerReceives(g) ==
  /\ Running(g) /\ down[g] # <<>> /\ worker[g].at # "closed"
  /\ down' = [down EXCEPT ![g] = Tail(@)]
  /\ LET m == Head(down[g])
         w == worker[g]
     IN  \/ /\ m.kind = "init"
            /\ worker' = [worker EXCEPT ![g].at = "parked"]
            /\ Post(g, Msg("initOk"))
         \/ /\ m.kind = "opened"
            /\ worker' = [worker EXCEPT ![g].mirror = TRUE,
                            ![g].at = IF @ = "refused" THEN "parked" ELSE @]
            /\ UNCHANGED up
         \/ /\ m.kind = "closed"
            /\ worker' = [worker EXCEPT ![g].mirror = FALSE]
            /\ UNCHANGED up
         \/ /\ m.kind = "acquired"
            /\ worker' = [worker EXCEPT ![g].at = IF m.granted THEN "serving" ELSE "refused",
                            ![g].held = m.granted,
                            ![g].cycle = IF m.granted THEN @ + 1 ELSE @]
            /\ UNCHANGED up
         \/ /\ m.kind = "verdict"
            /\ HandleVerdict(g, m)
            /\ UNCHANGED up
         \/ /\ m.kind = "released"
            /\ worker' = [worker EXCEPT ![g].at = "parked", ![g].held = FALSE]
            /\ UNCHANGED up
         \/ /\ m.kind = "close"
            /\ worker' = [worker EXCEPT ![g].closing = TRUE]
            /\ UNCHANGED up
  /\ UNCHANGED <<sup, bridge, lease, session, history, budget>>

\* The thread throws, and ends.
Crash(g) ==
  /\ Running(g) /\ g < MaxGens /\ worker[g].at # "closed"
  /\ Spend("troubles")
  /\ worker' = [worker EXCEPT ![g].thread = "crashed"]
  /\ UNCHANGED <<sup, bridge, up, down, lease, session, history>>

\* The thread stops answering, and may come back.
Stall(g) ==
  /\ Running(g) /\ g < MaxGens /\ worker[g].at \notin {"loading", "closed"}
  /\ Spend("troubles")
  /\ worker' = [worker EXCEPT ![g].thread = "stalled"]
  /\ UNCHANGED <<sup, bridge, up, down, lease, session, history>>

Resume(g) ==
  /\ worker[g].thread = "stalled"
  /\ worker' = [worker EXCEPT ![g].thread = "running"]
  /\ UNCHANGED <<sup, bridge, up, down, lease, session, history, budget>>

\* terminate() reaches the thread at its event loop; a crashed one ends anyway.
ThreadEnds(g) ==
  /\ \/ worker[g].thread = "crashed"
     \/ Running(g) /\ ~ bridge[g].open
  /\ worker' = [worker EXCEPT ![g].thread = "gone"]
  /\ UNCHANGED <<sup, bridge, up, down, lease, session, history, budget>>

-----------------------------------------------------------------------------
(* The server's thread: the bridge                                         *)

\* `attach`: the observer is installed and the live sessions are replayed.
SessionReplay == IF session THEN <<Msg("opened")>> ELSE <<>>

Answered(g, m) == down' = [down EXCEPT ![g] = Append(@, m)]

\* The engine takes a derived commit only from the lease's holder; a conflict
\* is the sink's to find.
CommitWave(g, m) ==
  \E result \in IF lease = g THEN {"ok", "conflict"} ELSE {"refused"} :
    /\ Answered(g, [kind |-> "verdict", tenure |-> m.tenure, result |-> result])
    /\ history' = IF result = "ok"
                  THEN [history EXCEPT !.landed = @ + 1, !.latest = <<g, m.tenure>>]
                  ELSE history
    /\ IF result = "conflict" THEN Spend("conflicts") ELSE UNCHANGED budget

\* `ExecutionLeases.acquire`.
GrantLease(g) ==
  LET granted == lease \in {None, g}
  IN  /\ lease' = IF granted THEN g ELSE lease
      /\ history' = IF granted THEN [history EXCEPT !.grants[g] = @ + 1] ELSE history
      /\ Answered(g, [kind |-> "acquired", granted |-> granted])

\* `release` and `releaseAllOf` leave another holder's lease alone.
FreeLease(g) ==
  /\ lease' = IF lease = g THEN None ELSE lease
  /\ history' = IF lease = g THEN [history EXCEPT !.ended = @ \cup {Owner}] ELSE history

BridgeReceives(g) ==
  /\ bridge[g].open /\ up[g] # <<>>
  /\ up' = [up EXCEPT ![g] = Tail(@)]
  /\ LET m == Head(up[g])
     IN  \/ /\ m.kind = "ready"
            /\ Answered(g, Msg("init"))
            /\ UNCHANGED <<sup, bridge, lease, history, budget>>
         \/ /\ m.kind = "initOk"
            /\ bridge' = [bridge EXCEPT ![g].serving = TRUE, ![g].lock = TRUE]
            /\ down' = [down EXCEPT ![g] = @ \o SessionReplay]
            /\ UNCHANGED <<sup, lease, history, budget>>
         \/ /\ m.kind = "acquire"
            /\ GrantLease(g)
            /\ UNCHANGED <<sup, bridge, budget>>
         \/ /\ m.kind = "release"
            /\ FreeLease(g)
            /\ Answered(g, Msg("released"))
            /\ UNCHANGED <<sup, bridge, budget>>
         \/ /\ m.kind = "wave"
            /\ CommitWave(g, m)
            /\ UNCHANGED <<sup, bridge, lease>>
         \/ /\ m.kind = "hostClosed"
            /\ sup' = [sup EXCEPT !.closed = "hostClosed"]
            /\ bridge' = [bridge EXCEPT ![g].open = FALSE]
            /\ UNCHANGED <<down, lease, history, budget>>
  /\ UNCHANGED <<worker, session>>

\* A client session opens or ends; the attached bridge forwards it.
SessionChanges ==
  /\ IF session THEN UNCHANGED budget ELSE Spend("sessions")
  /\ session' = ~ session
  /\ down' = [g \in Gens |->
       IF bridge[g].open /\ bridge[g].serving
       THEN Append(down[g], Msg(IF session THEN "closed" ELSE "opened")) ELSE down[g]]
  /\ UNCHANGED <<sup, bridge, worker, up, lease, history>>

-----------------------------------------------------------------------------
(* The server's thread: the supervisor                                     *)

\* Nothing waits for a worker whose lifetime lock is unknown, or that was
\* killed: its thread may run on.
TornDown(g) == ~ bridge[g].lock \/ worker[g].thread = "gone"

\* `#onWorkerFailed`: the bridge closes first.  A worker close() has taken over
\* is torn down there; otherwise teardown starts, and a respawn timer with it.
WorkerFails(g, killed) ==
  /\ bridge[g].open
  /\ bridge' = [bridge EXCEPT ![g].open = FALSE, ![g].lock = @ /\ ~ killed]
  /\ up' = [up EXCEPT ![g] = <<>>]
  /\ sup' = IF sup.gen = g
            THEN [sup EXCEPT !.gen = None, !.terminating = g, !.respawn = "timer"]
            ELSE IF sup.closed = "closingHost" THEN [sup EXCEPT !.closed = "failed"]
            ELSE sup
  /\ UNCHANGED <<worker, down, lease, session, history, budget>>

ReportError(g) == worker[g].thread \in {"crashed", "gone"} /\ WorkerFails(g, FALSE)

\* The watchdog heard nothing from a worker that has spoken before.
WatchdogKills(g) ==
  /\ worker[g].thread = "stalled" /\ "ready" \notin {up[g][i].kind : i \in DOMAIN up[g]}
  /\ WorkerFails(g, TRUE)

\* Mutant: the failed worker's leases are left to it.
FinishTeardownOnly ==
  /\ sup.terminating # None /\ TornDown(sup.terminating)
  /\ sup' = [sup EXCEPT !.terminating = None]
  /\ UNCHANGED <<bridge, worker, up, down, lease, session, history, budget>>

\* The failed worker is gone, or nothing waits for it: its leases are freed.
FinishTeardown ==
  /\ sup.terminating # None /\ TornDown(sup.terminating)
  /\ FreeLease(sup.terminating)
  /\ sup' = [sup EXCEPT !.terminating = None]
  /\ UNCHANGED <<bridge, worker, up, down, session, budget>>

RespawnTimer ==
  /\ sup.respawn = "timer"
  /\ sup' = [sup EXCEPT !.respawn = "due"]
  /\ UNCHANGED <<bridge, worker, up, down, lease, session, history, budget>>

\* The next worker, whose holder name is its own.
NextGen == CHOOSE g \in Gens : /\ worker[g].thread = "none"
                               /\ \A h \in 1..(g - 1) : worker[h].thread # "none"

\* `#spawn`: a fresh holder, bridge and thread.
StartWorker ==
  /\ sup' = [sup EXCEPT !.gen = NextGen, !.respawn = "none"]
  /\ bridge' = [bridge EXCEPT ![NextGen].open = TRUE]
  /\ worker' = [worker EXCEPT ![NextGen].thread = "running"]
  /\ UNCHANGED <<up, down, lease, session, history, budget>>

\* Mutant: the timer does not wait for the failed worker's teardown.
SpawnAtOnce ==
  /\ sup.respawn = "due" /\ sup.closed = "open"
  /\ StartWorker

Spawn ==
  /\ sup.respawn = "due" /\ sup.terminating = None /\ sup.closed = "open"
  /\ StartWorker

\* `close`: no worker starts from here on.
Close ==
  /\ MayClose /\ sup.closed = "open"
  /\ sup' = [sup EXCEPT !.closed = "waiting", !.closing = sup.gen, !.gen = None,
                        !.respawn = "none"]
  /\ UNCHANGED <<bridge, worker, up, down, lease, session, history, budget>>

\* Any earlier teardown is over: a worker that serves is asked to close its
\* host.  One that does not serve yet, or has failed, is terminated.
CloseHost ==
  /\ sup.closed = "waiting" /\ sup.terminating = None
  /\ LET g == sup.closing
     IN  \/ /\ g = None
            /\ sup' = [sup EXCEPT !.closed = "done"]
            /\ UNCHANGED <<bridge, up, down>>
         \/ /\ g # None /\ bridge[g].open /\ bridge[g].serving
            /\ sup' = [sup EXCEPT !.closed = "closingHost"]
            /\ Answered(g, Msg("close"))
            /\ UNCHANGED <<bridge, up>>
         \/ /\ g # None /\ ~ (bridge[g].open /\ bridge[g].serving)
            /\ sup' = [sup EXCEPT !.closed = "failed"]
            /\ bridge' = [bridge EXCEPT ![g].open = FALSE]
            /\ up' = [up EXCEPT ![g] = <<>>]
            /\ UNCHANGED down
  /\ UNCHANGED <<worker, lease, session, history, budget>>

\* The worker is torn down; the leases of a host that did not close are freed.
FinishClose ==
  /\ sup.closed \in {"hostClosed", "failed"} /\ TornDown(sup.closing)
  /\ sup' = [sup EXCEPT !.closed = "done"]
  /\ IF sup.closed = "failed" THEN FreeLease(sup.closing) ELSE UNCHANGED <<lease, history>>
  /\ UNCHANGED <<bridge, worker, up, down, session, budget>>

-----------------------------------------------------------------------------
WorkerStep(g) ==
  \/ Load(g) \/ Activate(g) \/ SealWave(g) \/ AttemptWave(g) \/ Park(g) \/ ReleaseTenure(g)
  \/ AnswerClose(g) \/ WorkerReceives(g)

Supervise == FinishTeardown \/ RespawnTimer \/ Spawn \/ CloseHost \/ FinishClose

Next ==
  \/ \E g \in Gens :
       \/ WorkerStep(g) \/ BridgeReceives(g)
       \/ Crash(g) \/ Stall(g) \/ Resume(g) \/ ThreadEnds(g)
       \/ ReportError(g) \/ WatchdogKills(g)
  \/ SessionChanges \/ Close \/ Supervise

\* Each thread keeps running while it is neither stalled nor gone, errors and
\* silence are noticed, timers fire and terminate() ends a running thread.  A
\* thread need never stall, nor come back from a stall.
Fairness ==
  /\ \A g \in Gens :
       /\ WF_vars(WorkerStep(g)) /\ WF_vars(BridgeReceives(g)) /\ WF_vars(ThreadEnds(g))
       /\ WF_vars(ReportError(g)) /\ WF_vars(WatchdogKills(g))
  /\ WF_vars(Supervise)

Spec == Init /\ [][Next]_vars /\ Fairness

-----------------------------------------------------------------------------
(* Properties                                                              *)

Phases ==
  {"loading", "loaded", "parked", "acquiring", "serving", "parking", "releasing",
   "refused", "closed"}

WorkerStates ==
  [thread : {"none", "running", "stalled", "crashed", "gone"}, at : Phases,
   mirror : BOOLEAN, closing : BOOLEAN, cycle : 0..MaxTenures, held : BOOLEAN,
   deciding : SUBSET (1..MaxTenures), sent : SUBSET (1..MaxTenures)]

\* Every variable keeps its shape: the ports carry only what the protocol names,
\* and a worker has at most one wave in flight per tenure it has had.
TypeOK ==
  /\ sup \in [gen : Gens \cup {None}, terminating : Gens \cup {None},
              respawn : {"none", "timer", "due"},
              closed : {"open", "waiting", "closingHost", "hostClosed", "failed", "done"},
              closing : Gens \cup {None}]
  /\ bridge \in [Gens -> [open : BOOLEAN, serving : BOOLEAN, lock : BOOLEAN]]
  /\ worker \in [Gens -> WorkerStates]
  /\ \A g \in Gens : worker[g].deciding \cup worker[g].sent \subseteq 1..worker[g].cycle
  /\ up \in [Gens -> Seq(Messages)]
  /\ down \in [Gens -> Seq(Messages)]
  /\ lease \in Gens \cup {None}
  /\ session \in BOOLEAN
  /\ history \in [grants : [Gens -> Nat], ended : SUBSET (Gens \X Nat), landed : Nat,
                  latest : (Gens \cup {None}) \X Nat]
  /\ budget \in [waves : Nat, conflicts : Nat, troubles : Nat, sessions : Nat]

\* The lease is with a worker that may still serve, or that somebody has yet to
\* tear down: no lease outlives its worker's teardown, a killed worker's
\* included, and a closed supervisor leaves none (`releaseLeasesOf`).
NoOrphanLease ==
  lease # None =>
    \/ lease \in {sup.gen, sup.terminating}
    \/ lease = sup.closing /\ sup.closed # "done"

Lease == INSTANCE LeaseTenures WITH
  Tenures  <- Gens \X (1..MaxTenures),
  NoTenure <- <<None, 0>>,
  owner    <- Owner,
  ended    <- history.ended,
  landed   <- history.landed,
  latest   <- history.latest

\* The worker, its port and its supervisor keep the lease's promise: tenures
\* never overlap or resume, and a wave lands only within the tenure it sealed
\* under, across parks that abandon a commit in flight, workers that die or are
\* killed with commits on their way, and their successors.
LeaseKept == Lease!Spec

Served == \E g \in Gens : sup.gen = g /\ worker[g].thread = "running" /\ worker[g].at = "serving"

\* While a client session stays, the space is served again and again, whatever
\* failed before; a supervisor that is closing reaches its end.
Recovers ==
  /\ <>[]session => []<>(Served \/ sup.closed # "open")
  /\ sup.closed # "open" ~> sup.closed = "done"
=============================================================================
