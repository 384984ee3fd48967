-------------------------- MODULE ServingHostProofs --------------------------
(***************************************************************************)
(* Theorems about the serving lifecycle of one space, for every set of     *)
(* servers and kinds of commit and every length of the log.                *)
(*                                                                         *)
(* They rest on one fact about the host: at most one SpaceServer stands,   *)
(* and it is the one registered.  A re-evaluation or an activation that    *)
(* has yet to build its server finds none registered, whatever park, open  *)
(* or close it overlaps.  The state is then the host's record and one      *)
(* tenure's, Current, and what each step does to the two is what is        *)
(* proved.                                                                 *)
(***************************************************************************)
EXTENDS ServingHost, TLAPS, WellFoundedInduction

-----------------------------------------------------------------------------
(* The inductive invariant                                                 *)

\* Stages of a tenure under construction, under way and on its way out.
Building == {"acquiring", "building", "scanning", "resending"}
Serving  == {"serving", "committing"}
Leaving  == {"parking", "released"}

\* Stages in which a tenure holds the lease.
Holding == {"building", "scanning", "resending", "serving", "committing", "parking"}

\* The registered tenure's record.
Current == IF host.space = NoServer THEN Gone ELSE server[host.space]

\* The registered server is the only one that stands.
Alone == \A s \in Servers : s # host.space => server[s] = Gone

\* The host's record h fits its tenure's, sv: a re-evaluation or an activation
\* that has not built its server yet runs with none registered.
HostFits(h, sv) ==
  /\ h.space = NoServer <=> sv.at = "none"
  /\ h.checking => sv.at = "none"
  /\ h.activating.at \in {"backoff", "opening"} => sv.at = "none"
  /\ h.activating.at = "activating" =>
       /\ h.activating.server = h.space
       /\ sv.at \in Building \cup Leaving
  /\ h.activating.at # "activating" =>
       /\ h.activating.server = NoServer
       /\ sv.at \in {"none"} \cup Serving \cup Leaving
  /\ h.closed \in {"parking", "closed"} => h.activating.at = "none"
  /\ h.closed = "closed" => sv.at = "none"

\* The lease is the host's exactly while the tenure holds it, and a rival's
\* only in a turn of its budget b.
LeaseFits(l, sv, b) ==
  /\ l = "own" <=> sv.at \in Holding
  /\ b.rivalries <= MaxRivalries
  /\ l = "rival" => b.rivalries < MaxRivalries

\* A tenure's own record, over the log l.
TenureFits(sv, l) ==
  /\ sv \in ServerStates
  /\ sv.feed \cup sv.warm \subseteq DOMAIN l
  /\ sv.wave \subseteq {n \in DOMAIN l : l[n] = "event"}
  /\ sv.scanHead \in 0..Len(l) /\ sv.covered \in 0..Len(l)
  /\ sv.at \in Building \cup {"serving"} => sv.wave = {}
  /\ sv.reason = "space-deleted" => "delete" \in Range(l)

\* What will find event n, with the notices t still on their way.  A tenure
\* past its scan finds only what it drained, owes a scan for, or will be told
\* of with a seq above its scan head.
Found(n, h, sv, t) ==
  \/ /\ sv.at = "none"
     /\ n \in t \/ h.checking \/ h.activating.at \in {"backoff", "opening"}
  \/ sv.at \in {"acquiring", "building", "scanning"} \cup Leaving
  \/ /\ sv.at \in {"resending"} \cup Serving
     /\ \/ sv.scanOwed
        \/ n \in sv.feed /\ n > sv.scanHead
        \/ n \in sv.wave
        \/ n \in t /\ n > sv.scanHead

\* No event is looked for any more.
Excused(l, h, b) ==
  "delete" \in Range(l) \/ h.closed # "open" \/ b.rivalries < MaxRivalries

EventsFound ==
  Excused(log, host, budget) \/ \A n \in pending : Found(n, host, Current, transit)

IInv ==
  /\ TypeOK
  /\ Alone
  /\ HostFits(host, Current)
  /\ LeaseFits(lease, Current, budget)
  /\ TenureFits(Current, log)
  /\ EventsFound

-----------------------------------------------------------------------------
(* The state as the host's record and one tenure's                         *)

\* TypeOK but for the host and the servers.
StoreTyped ==
  /\ log \in Seq(Kinds)
  /\ pending \subseteq Events(DOMAIN log)
  /\ transit \cup derived \subseteq DOMAIN log
  /\ watermark \in 0..Len(log)
  /\ sessions \in BOOLEAN
  /\ lease \in {"free", "own", "rival"}
  /\ budget \in [opens : Nat, failures : Nat, rivalries : Nat]

\* What TypeOK says of the store, the host and the servers.
LEMMA TypeParts ==
  ASSUME TypeOK
  PROVE  /\ StoreTyped
         /\ host \in HostStates /\ host.pending \subseteq DOMAIN log
         /\ server \in [Servers -> ServerStates]
BY DEF TypeOK, StoreTyped

\* A server that does not stand has a legal record, whatever the log.
LEMMA GoneFits ==
  ASSUME NEW l, Len(l) \in Nat
  PROVE  /\ Gone \in ServerStates /\ Gone.at = "none" /\ Gone.warm = {}
         /\ TenureFits(Gone, l)
<1>1. Gone \in ServerStates
  BY DEF Gone, ServerStates, Stages, Reasons
<1>2. /\ Gone.at = "none" /\ Gone.warm = {} /\ Gone.feed = {} /\ Gone.wave = {}
      /\ Gone.scanHead = 0 /\ Gone.covered = 0 /\ Gone.reason = "none"
  BY DEF Gone
<1>3. 0 \in 0..Len(l)
  OBVIOUS
<1> QED
  BY <1>1, <1>2, <1>3 DEF TenureFits

\* The server that stands is the registered one (`#servers`).
LEMMA Standing ==
  ASSUME IInv, NEW s \in Servers, server[s].at # "none"
  PROVE  host.space = s /\ s # NoServer /\ Current = server[s]
<1>1. s # NoServer
  BY HostAssumption
<1>2. Gone.at = "none"
  BY DEF Gone
<1>3. host.space = s
  BY <1>2 DEF IInv, Alone
<1> QED
  BY <1>1, <1>3 DEF Current

\* The registered server stands.
LEMMA RegisteredStands ==
  ASSUME IInv, host.space # NoServer
  PROVE  /\ host.space \in Servers /\ Current = server[host.space]
         /\ Current.at # "none"
BY DEF IInv, HostFits, Current, TypeOK, HostStates

\* With none registered there is no tenure.
LEMMA NoneRegistered ==
  ASSUME IInv, Current.at = "none"
  PROVE  host.space = NoServer /\ Current = Gone
BY DEF IInv, HostFits, Current

\* A state whose parts fit satisfies the invariant.
LEMMA Assemble ==
  ASSUME NEW v, StoreTyped', host' \in HostStates, host'.pending \subseteq DOMAIN log',
         server' \in [Servers -> ServerStates], Alone', Current' = v,
         TenureFits(v, log'), HostFits(host', v), LeaseFits(lease', v, budget'),
         \/ Excused(log', host', budget')
         \/ \A n \in pending' : Found(n, host', v, transit')
  PROVE  IInv'
<1>1. Len(log') \in Nat
  BY DEF StoreTyped
<1>2. ASSUME NEW s \in Servers PROVE TenureFits(server'[s], log')
  <2>1. CASE host'.space = s
    BY <2>1, HostAssumption DEF Current
  <2>2. CASE host'.space # s
    BY <2>2, <1>1, GoneFits DEF Alone
  <2> QED
    BY <2>1, <2>2
<1>3. \A s \in Servers :
         /\ server'[s].feed \cup server'[s].warm \subseteq DOMAIN log'
         /\ server'[s].wave \subseteq {n \in DOMAIN log' : log'[n] = "event"}
         /\ {server'[s].scanHead, server'[s].covered} \subseteq 0..Len(log')
  BY <1>2 DEF TenureFits
<1>4. TypeOK'
  BY <1>3 DEF StoreTyped, TypeOK, Events
<1>5. EventsFound'
  BY DEF EventsFound
<1> QED
  BY <1>4, <1>5 DEF IInv

\* The registered tenure's record becomes v.
LEMMA TenureBecomes ==
  ASSUME IInv, NEW s \in Servers, host.space = s, NEW v \in ServerStates,
         server' = [server EXCEPT ![s] = v], host'.space = s
  PROVE  server' \in [Servers -> ServerStates] /\ Alone' /\ Current' = v
<1>1. server \in [Servers -> ServerStates] /\ s # NoServer
  BY HostAssumption DEF IInv, TypeOK
<1>2. server' \in [Servers -> ServerStates] /\ server'[s] = v
  BY <1>1
<1>3. \A r \in Servers : r # s => server'[r] = Gone
  BY <1>1 DEF IInv, Alone
<1> QED
  BY <1>1, <1>2, <1>3 DEF Alone, Current

\* The registered tenure goes.
LEMMA TenureEnds ==
  ASSUME IInv, NEW s \in Servers, host.space = s,
         server' = [server EXCEPT ![s] = Gone], host'.space = NoServer
  PROVE  server' \in [Servers -> ServerStates] /\ Alone' /\ Current' = Gone
<1>1. server \in [Servers -> ServerStates] /\ Gone \in ServerStates
  BY GoneFits, Zenon DEF IInv, TypeOK, Gone, ServerStates, Stages, Reasons
<1>2. server' \in [Servers -> ServerStates]
  BY <1>1
<1>3. \A r \in Servers : server'[r] = Gone
  BY <1>1 DEF IInv, Alone
<1> QED
  BY <1>2, <1>3 DEF Alone, Current

\* The servers and the registration stay.
LEMMA TenureStays ==
  ASSUME IInv, server' = server, host'.space = host.space
  PROVE  server' \in [Servers -> ServerStates] /\ Alone' /\ Current' = Current
BY DEF IInv, TypeOK, Alone, Current

\* A step that changes the registered tenure's record.
LEMMA TenureStep ==
  ASSUME IInv, NEW s \in Servers, host.space = s, NEW v,
         server' = [server EXCEPT ![s] = v], TenureFits(v, log),
         log' = log, StoreTyped',
         host' \in HostStates, host'.space = s, host'.pending \subseteq DOMAIN log,
         HostFits(host', v), LeaseFits(lease', v, budget'),
         \/ Excused(log, host', budget')
         \/ \A n \in pending' : Found(n, host', v, transit')
  PROVE  IInv'
<1>1. v \in ServerStates
  BY DEF TenureFits
<1>2. server' \in [Servers -> ServerStates] /\ Alone' /\ Current' = v
  BY <1>1, TenureBecomes
<1> QED
  BY <1>2, Assemble

\* A step that ends the registered tenure.
LEMMA EndStep ==
  ASSUME IInv, NEW s \in Servers, host.space = s,
         server' = [server EXCEPT ![s] = Gone],
         log' = log, StoreTyped',
         host' \in HostStates, host'.space = NoServer, host'.pending \subseteq DOMAIN log,
         HostFits(host', Gone), LeaseFits(lease', Gone, budget'),
         \/ Excused(log, host', budget')
         \/ \A n \in pending' : Found(n, host', Gone, transit')
  PROVE  IInv'
<1>1. server' \in [Servers -> ServerStates] /\ Alone' /\ Current' = Gone
  BY TenureEnds
<1>2. TenureFits(Gone, log')
  BY GoneFits DEF StoreTyped
<1> QED
  BY <1>1, <1>2, Assemble

\* A step that leaves the servers and the log alone.
LEMMA HostStep ==
  ASSUME IInv, server' = server, log' = log, StoreTyped',
         host' \in HostStates, host'.space = host.space, host'.pending \subseteq DOMAIN log,
         HostFits(host', Current), LeaseFits(lease', Current, budget'),
         \/ Excused(log, host', budget')
         \/ \A n \in pending' : Found(n, host', Current, transit')
  PROVE  IInv'
<1>1. server' \in [Servers -> ServerStates] /\ Alone' /\ Current' = Current
  BY TenureStays
<1>2. TenureFits(Current, log')
  BY DEF IInv
<1> QED
  BY <1>1, <1>2, Assemble

-----------------------------------------------------------------------------
(* The host's helpers                                                      *)

\* `#activate` with none registered: unless the host is closed, an activation
\* is in flight that has yet to build its server.
LEMMA ActivateIdle ==
  ASSUME NEW h \in HostStates, HostFits(h, Gone)
  PROVE  /\ Activate(h) \in HostStates
         /\ Activate(h).space = NoServer /\ Activate(h).pending = h.pending
         /\ Activate(h).closed = h.closed /\ Activate(h).checking = h.checking
         /\ HostFits(Activate(h), Gone)
         /\ h.closed = "open" => Activate(h).activating.at \in {"backoff", "opening"}
<1>1. Gone.at = "none"
  BY DEF Gone
<1>2. h.space = NoServer /\ ~ Active(h.space)
  BY <1>1 DEF HostFits, Active, Is
<1>3. h.activating.at \in {"none", "backoff", "opening"}
  BY <1>1 DEF HostFits, HostStates, Building, Leaving
<1>4. CASE Activating(h) \/ h.closed # "open"
  <2>1. Activate(h) = h
    BY <1>4 DEF Activate
  <2> QED
    BY <2>1, <1>2, <1>3, <1>4 DEF Activating
<1>5. CASE ~ Activating(h) /\ h.closed = "open"
  <2> DEFINE a == [at |-> IF h.failing THEN "backoff" ELSE "opening", server |-> NoServer]
             g == [h EXCEPT !.activating = a]
  <2>1. Activate(h) = g
    BY <1>2, <1>5 DEF Activate
  <2>2. a \in [at : {"none", "backoff", "opening", "activating"},
               server : Servers \cup {NoServer}]
        /\ a.at \in {"backoff", "opening"} /\ a.server = NoServer
    OBVIOUS
  <2> HIDE DEF a
  <2>3. g \in HostStates /\ g.activating = a /\ g.space = h.space /\ g.closed = h.closed
        /\ g.pending = h.pending /\ g.checking = h.checking
    BY <2>2 DEF HostStates
  <2> HIDE DEF g
  <2>4. HostFits(g, Gone)
    BY <2>2, <2>3, <1>1, <1>2, <1>5 DEF HostFits
  <2> QED
    BY <2>1, <2>2, <2>3, <2>4, <1>2
<1> QED
  BY <1>4, <1>5

\* `#reactivateAfterPark` with none registered: unless the host is closed, an
\* activation is in flight or the store is being read.
LEMMA ReevaluateIdle ==
  ASSUME NEW h \in HostStates, HostFits(h, Gone)
  PROVE  /\ Reevaluate(h) \in HostStates
         /\ Reevaluate(h).space = NoServer /\ Reevaluate(h).pending = h.pending
         /\ Reevaluate(h).closed = h.closed
         /\ HostFits(Reevaluate(h), Gone)
         /\ h.closed = "open" =>
              \/ Reevaluate(h).checking
              \/ Reevaluate(h).activating.at \in {"backoff", "opening"}
<1>1. Gone.at = "none"
  BY DEF Gone
<1>2. h.space = NoServer /\ ~ Active(h.space)
  BY <1>1 DEF HostFits, Active, Is
<1>3. CASE h.closed # "open"
  BY <1>2, <1>3 DEF Reevaluate
<1>4. CASE h.closed = "open" /\ (Warm(h.pending) # {} \/ sessions)
  BY <1>2, <1>4, ActivateIdle DEF Reevaluate
<1>5. CASE h.closed = "open" /\ ~ (Warm(h.pending) # {} \/ sessions)
  <2> DEFINE g == [h EXCEPT !.checking = TRUE]
  <2>1. Reevaluate(h) = g
    BY <1>2, <1>5 DEF Reevaluate
  <2>2. g \in HostStates /\ g.activating = h.activating /\ g.space = h.space
        /\ g.closed = h.closed /\ g.pending = h.pending /\ g.checking
    BY DEF HostStates
  <2> HIDE DEF g
  <2>3. HostFits(g, Gone)
    BY <2>2, <1>1, <1>2 DEF HostFits
  <2> QED
    BY <2>1, <2>2, <2>3, <1>2
<1> QED
  BY <1>3, <1>4, <1>5

\* The host's record once an activation is over.
LEMMA EndActivationIs ==
  ASSUME NEW h \in HostStates
  PROVE  /\ EndActivation(h) \in HostStates
         /\ EndActivation(h).activating = NoActivation
         /\ EndActivation(h).space = h.space /\ EndActivation(h).pending = h.pending
         /\ EndActivation(h).closed = h.closed /\ EndActivation(h).checking = h.checking
<1>1. NoActivation \in [at : {"none", "backoff", "opening", "activating"},
                        server : Servers \cup {NoServer}]
  BY DEF NoActivation
<1> QED
  BY <1>1 DEF EndActivation, HostStates

\* `#endTenure` unregisters s and returns at most its warm requests.
LEMMA EndTenureIs ==
  ASSUME IInv, NEW h \in HostStates, NEW s \in Servers, h.space = s,
         h.pending \subseteq DOMAIN log, NEW w \in BOOLEAN
  PROVE  /\ EndTenure(h, s, w) \in HostStates
         /\ EndTenure(h, s, w).space = NoServer
         /\ EndTenure(h, s, w).pending \subseteq DOMAIN log
         /\ EndTenure(h, s, w).activating = h.activating
         /\ EndTenure(h, s, w).closed = h.closed
         /\ EndTenure(h, s, w).checking = h.checking
<1> DEFINE back == IF w THEN {} ELSE server[s].warm
           p == h.pending \cup back
           sp == IF h.space = s THEN NoServer ELSE h.space
           g == [h EXCEPT !.space = sp, !.pending = p]
<1>1. server[s].warm \subseteq DOMAIN log /\ DOMAIN log \subseteq Nat
  BY DEF IInv, TypeOK
<1>2. p \subseteq DOMAIN log /\ p \in SUBSET Nat
  BY <1>1
<1>3. sp = NoServer
  OBVIOUS
<1>4. EndTenure(h, s, w) = g
  BY DEF EndTenure
<1> HIDE DEF back, p, sp
<1>5. /\ g \in HostStates /\ g.space = sp /\ g.pending = p /\ g.activating = h.activating
      /\ g.closed = h.closed /\ g.checking = h.checking
  BY <1>2, <1>3 DEF HostStates
<1> QED
  BY <1>2, <1>3, <1>4, <1>5

\* The park handler (`onParked`), whatever the reason: the same, with the
\* failure streak and, for a deleted space, the buffer changed.
LEMMA OnParkedIs ==
  ASSUME IInv, NEW s \in Servers, host.space = s,
         NEW reason \in Reasons \cup {"lease-unavailable"}
  PROVE  /\ OnParked(host, s, reason) \in HostStates
         /\ OnParked(host, s, reason).space = NoServer
         /\ OnParked(host, s, reason).pending \subseteq DOMAIN log
         /\ OnParked(host, s, reason).activating = host.activating
         /\ OnParked(host, s, reason).closed = host.closed
         /\ OnParked(host, s, reason).checking = host.checking
<1>1. host \in HostStates /\ host.pending \subseteq DOMAIN log
  BY TypeParts DEF IInv
<1>2. CASE reason = "space-deleted"
  <2> DEFINE h == [host EXCEPT !.failing = FALSE, !.pending = {}]
  <2>1. /\ h \in HostStates /\ h.space = host.space /\ h.pending = {}
        /\ h.activating = host.activating /\ h.closed = host.closed
        /\ h.checking = host.checking
    BY <1>1 DEF HostStates
  <2>2. PICK w \in BOOLEAN : OnParked(host, s, reason) = EndTenure(h, s, w)
    BY <1>2 DEF OnParked
  <2> HIDE DEF h
  <2> QED
    BY <2>1, <2>2, EndTenureIs
<1>3. CASE reason = "lease-unavailable"
  <2>1. PICK w \in BOOLEAN : OnParked(host, s, reason) = EndTenure(host, s, w)
    BY <1>3 DEF OnParked
  <2> QED
    BY <1>1, <2>1, EndTenureIs
<1>4. CASE reason = "idle"
  <2> DEFINE h == [host EXCEPT !.failing = FALSE]
  <2>1. /\ h \in HostStates /\ h.space = host.space /\ h.pending = host.pending
        /\ h.activating = host.activating /\ h.closed = host.closed
        /\ h.checking = host.checking
    BY <1>1 DEF HostStates
  <2>2. PICK w \in BOOLEAN : OnParked(host, s, reason) = EndTenure(h, s, w)
    BY <1>4 DEF OnParked
  <2> HIDE DEF h
  <2> QED
    BY <1>1, <2>1, <2>2, EndTenureIs
<1>5. CASE reason \notin {"space-deleted", "lease-unavailable", "idle"}
  <2> DEFINE h == [host EXCEPT !.failing = TRUE]
  <2>1. /\ h \in HostStates /\ h.space = host.space /\ h.pending = host.pending
        /\ h.activating = host.activating /\ h.closed = host.closed
        /\ h.checking = host.checking
    BY <1>1 DEF HostStates
  <2>2. PICK w \in BOOLEAN : OnParked(host, s, reason) = EndTenure(h, s, w)
    BY <1>5 DEF OnParked
  <2> HIDE DEF h
  <2> QED
    BY <1>1, <2>1, <2>2, EndTenureIs
<1> QED
  BY <1>2, <1>3, <1>4, <1>5

\* A tenure told to park: its stage, its reason and whether a commit is in
\* flight change, nothing else.
LEMMA StartParkFits ==
  ASSUME NEW s \in Servers, NEW reason \in Reasons, TenureFits(server[s], log),
         reason = "space-deleted" => Deleted
  PROVE  /\ TenureFits(StartPark(s, reason), log)
         /\ StartPark(s, reason).at = "parking"
<1> DEFINE f == server[s].at = "committing"
           v == [server[s] EXCEPT !.at = "parking", !.reason = reason, !.inFlight = f]
<1>1. StartPark(s, reason) = v
  BY DEF StartPark
<1>2. f \in BOOLEAN /\ "parking" \in Stages
  BY DEF Stages
<1>3. server[s] \in ServerStates
  BY DEF TenureFits
<1> HIDE DEF f
<1>4. /\ v \in ServerStates /\ v.at = "parking" /\ v.reason = reason
      /\ v.feed = server[s].feed /\ v.warm = server[s].warm /\ v.wave = server[s].wave
      /\ v.scanHead = server[s].scanHead /\ v.covered = server[s].covered
  BY <1>2, <1>3 DEF ServerStates
<1> HIDE DEF v
<1>5. TenureFits(v, log)
  BY <1>4 DEF TenureFits, Deleted, Building
<1> QED
  BY <1>1, <1>4, <1>5

-----------------------------------------------------------------------------
(* Frames                                                                  *)

\* The store's own steps aside, what a step may do to what StoreTyped names.
LEMMA StoreStays ==
  ASSUME IInv, UNCHANGED <<log, derived>>, pending' \subseteq pending,
         watermark' \in 0..Len(log), transit' \subseteq transit, sessions' \in BOOLEAN,
         lease' \in {"free", "own", "rival"},
         budget' \in [opens : Nat, failures : Nat, rivalries : Nat]
  PROVE  StoreTyped'
BY TypeParts DEF IInv, StoreTyped, Events

\* The same for a step that leaves the store, the notices, the sessions and the
\* lease alone.
LEMMA StoreUnchanged ==
  ASSUME IInv, UNCHANGED <<store, transit, sessions, lease, derived>>,
         budget' \in [opens : Nat, failures : Nat, rivalries : Nat]
  PROVE  StoreTyped'
BY TypeParts DEF IInv, StoreTyped, Events, store

\* A throw uses up one of the failures and nothing else.
LEMMA FailIs ==
  ASSUME IInv, Fail
  PROVE  /\ budget' \in [opens : Nat, failures : Nat, rivalries : Nat]
         /\ budget'.rivalries = budget.rivalries
<1>1. budget \in [opens : Nat, failures : Nat, rivalries : Nat]
  BY DEF IInv, TypeOK
<1>2. PICK n \in Nat : n = budget.failures - 1
  BY <1>1 DEF Fail
<1>3. budget' = [budget EXCEPT !.failures = n]
  BY <1>1, <1>2 DEF Fail
<1> QED
  BY <1>1, <1>3

\* The budget's type.
LEMMA BudgetTyped ==
  ASSUME IInv
  PROVE  budget \in [opens : Nat, failures : Nat, rivalries : Nat]
BY DEF IInv, TypeOK

\* A tenure that holds the lease is told to park, for whatever reason.
LEMMA ParkStep ==
  ASSUME IInv, NEW s \in Servers, server[s].at \in Holding,
         NEW reason \in Reasons, reason = "space-deleted" => Deleted,
         server' = [server EXCEPT ![s] = StartPark(s, reason)],
         log' = log, lease' = lease, StoreTyped', budget'.rivalries = budget.rivalries,
         host' \in HostStates, host'.pending \subseteq DOMAIN log,
         host'.space = host.space, host'.activating = host.activating,
         host'.checking = host.checking, host'.closed # "closed",
         host'.closed = "parking" => host.activating.at = "none"
  PROVE  IInv'
<1> DEFINE v == StartPark(s, reason)
<1>1. server[s].at # "none"
  BY DEF Holding
<1>2. host.space = s /\ s # NoServer /\ Current = server[s]
  BY <1>1, Standing
<1>3. TenureFits(v, log) /\ v.at = "parking"
  BY <1>2, StartParkFits DEF IInv
<1> HIDE DEF v
<1>4. HostFits(host', v)
  BY <1>1, <1>2, <1>3 DEF IInv, HostFits, Building, Serving, Leaving
<1>5. LeaseFits(lease', v, budget')
  BY <1>2, <1>3 DEF IInv, LeaseFits, Holding
<1>6. \A n \in pending' : Found(n, host', v, transit')
  BY <1>3 DEF Found, Leaving
<1>7. server' = [server EXCEPT ![s] = v]
  BY DEF v
<1> QED
  BY <1>2, <1>3, <1>4, <1>5, <1>6, <1>7, TenureStep

\* The same when the host's record and the store stay.
LEMMA ParkAlone ==
  ASSUME IInv, NEW s \in Servers, server[s].at \in Holding,
         NEW reason \in Reasons, reason = "space-deleted" => Deleted,
         server' = [server EXCEPT ![s] = StartPark(s, reason)],
         UNCHANGED <<store, transit, sessions, lease, host, derived>>,
         budget' \in [opens : Nat, failures : Nat, rivalries : Nat],
         budget'.rivalries = budget.rivalries
  PROVE  IInv'
<1>1. StoreTyped'
  BY StoreUnchanged
<1>2. host \in HostStates /\ host.pending \subseteq DOMAIN log
  BY TypeParts DEF IInv
<1>3. host.closed # "closed" /\ (host.closed = "parking" => host.activating.at = "none")
  <2>1. server[s].at # "none"
    BY DEF Holding
  <2> QED
    BY <2>1, Standing DEF IInv, HostFits
<1>4. log' = log /\ lease' = lease /\ host' = host
  BY DEF store
<1> QED
  BY <1>1, <1>2, <1>3, <1>4, ParkStep

-----------------------------------------------------------------------------
(* Clients, other processes and the embedder                               *)

\* The log after an admission.
LEMMA LogAppended ==
  ASSUME NEW k \in Kinds, log \in Seq(Kinds), log' = Append(log, k)
  PROVE  /\ log' \in Seq(Kinds) /\ Len(log') = Len(log) + 1 /\ Len(log) \in Nat
         /\ DOMAIN log' = DOMAIN log \cup {Len(log) + 1}
         /\ log'[Len(log) + 1] = k
         /\ \A n \in DOMAIN log : log'[n] = log[n] /\ n <= Len(log)
         /\ Deleted => "delete" \in Range(log')
<1>1. /\ log' \in Seq(Kinds) /\ Len(log') = Len(log) + 1 /\ Len(log) \in Nat
      /\ log'[Len(log) + 1] = k
  OBVIOUS
<1>2. DOMAIN log = 1..Len(log) /\ DOMAIN log' = 1..(Len(log) + 1)
  OBVIOUS
<1>3. DOMAIN log' = DOMAIN log \cup {Len(log) + 1}
  BY <1>1, <1>2
<1>4. \A n \in DOMAIN log : log'[n] = log[n] /\ n <= Len(log)
  BY <1>2
<1>5. Deleted => "delete" \in Range(log')
  BY <1>3, <1>4 DEF Deleted, Range
<1> QED
  BY <1>1, <1>3, <1>4, <1>5

\* A tenure's record still fits once the log has grown.
LEMMA TenureOutlivesAdmission ==
  ASSUME NEW k \in Kinds, log \in Seq(Kinds), log' = Append(log, k),
         NEW v, TenureFits(v, log)
  PROVE  TenureFits(v, log')
<1>1. /\ Len(log') = Len(log) + 1 /\ Len(log) \in Nat
      /\ DOMAIN log' = DOMAIN log \cup {Len(log) + 1}
      /\ \A n \in DOMAIN log : log'[n] = log[n]
      /\ Deleted => "delete" \in Range(log')
  BY LogAppended
<1>2. v.scanHead \in 0..Len(log') /\ v.covered \in 0..Len(log')
  BY <1>1 DEF TenureFits
<1>3. v.wave \subseteq {n \in DOMAIN log' : log'[n] = "event"}
  BY <1>1 DEF TenureFits
<1> QED
  BY <1>1, <1>2, <1>3 DEF TenureFits, Deleted

\* An admitted event is in transit, above every scan head.
LEMMA AdmitKeeps ==
  ASSUME IInv, NEW k \in Kinds, Admit(k)
  PROVE  IInv'
<1> USE DEF Admit
<1>1. StoreTyped /\ host \in HostStates /\ host.pending \subseteq DOMAIN log
  BY TypeParts DEF IInv
<1>2. /\ log' \in Seq(Kinds) /\ Len(log') = Len(log) + 1 /\ Len(log) \in Nat
      /\ DOMAIN log' = DOMAIN log \cup {Len(log) + 1}
      /\ log'[Len(log) + 1] = k
      /\ \A n \in DOMAIN log : log'[n] = log[n] /\ n <= Len(log)
  BY <1>1, LogAppended DEF StoreTyped
<1>3. Events(DOMAIN log)' = {n \in DOMAIN log' : log'[n] = "event"}
  BY DEF Events
<1>4. pending' \subseteq Events(DOMAIN log)'
  BY <1>1, <1>2, <1>3 DEF StoreTyped, Events
<1>5. watermark' \in 0..Len(log')
  BY <1>1, <1>2 DEF StoreTyped
<1>6. (transit \cup derived)' \subseteq DOMAIN log'
  BY <1>1, <1>2 DEF StoreTyped
<1>7. StoreTyped'
  BY <1>1, <1>2, <1>4, <1>5, <1>6 DEF StoreTyped
<1>8. server' \in [Servers -> ServerStates] /\ Alone' /\ Current' = Current
  BY TenureStays
<1>9. TenureFits(Current, log')
  BY <1>1, TenureOutlivesAdmission DEF IInv, StoreTyped
<1>10. ASSUME ~ Excused(log', host', budget'), NEW n \in pending'
       PROVE  Found(n, host', Current, transit')
  <2>1. ~ Excused(log, host, budget)
    BY <1>1, <1>10, LogAppended DEF Excused, Deleted, StoreTyped
  <2>2. CASE n \in pending
    <3>1. Found(n, host, Current, transit)
      BY <2>1, <2>2 DEF IInv, EventsFound
    <3> QED
      BY <3>1 DEF Found
  <2>3. CASE n \notin pending
    <3>1. n = Len(log) + 1 /\ n \in transit'
      BY <2>3, <1>10
    <3>2. Current.scanHead \in 0..Len(log) /\ Current.at \in Stages
      BY DEF IInv, TenureFits, ServerStates
    <3>3. n > Current.scanHead
      BY <1>2, <3>1, <3>2
    <3> QED
      BY <3>1, <3>2, <3>3 DEF Found, Stages, Serving, Leaving
  <2> QED
    BY <2>2, <2>3
<1>11. HostFits(host', Current) /\ LeaseFits(lease', Current, budget')
  BY DEF IInv
<1>12. host' \in HostStates /\ host'.pending \subseteq DOMAIN log'
  BY <1>1, <1>2
<1> QED
  BY <1>7, <1>8, <1>9, <1>10, <1>11, <1>12, Assemble

\* The parts of the invariant with none registered.
LEMMA IdleHost ==
  ASSUME IInv, host.space = NoServer
  PROVE  /\ Current = Gone /\ host \in HostStates /\ host.pending \subseteq DOMAIN log
         /\ HostFits(host, Gone)
BY TypeParts DEF IInv, Current

\* A host step with none registered after which an activation or a read of the
\* store is under way, or no event is looked for.
LEMMA IdleStep ==
  ASSUME IInv, host.space = NoServer, NEW h \in HostStates, HostFits(h, Gone),
         h.pending \subseteq DOMAIN log,
         host' = h, server' = server, log' = log, lease' = lease, StoreTyped',
         budget'.rivalries = budget.rivalries,
         \/ h.checking \/ h.activating.at \in {"backoff", "opening"}
         \/ Excused(log, h, budget) \/ pending' = {}
  PROVE  IInv'
<1>1. Current = Gone /\ Gone.at = "none"
  BY IdleHost DEF Gone
<1>2. h.space = host.space
  BY <1>1 DEF HostFits
<1>3. LeaseFits(lease', Current, budget')
  BY DEF IInv, LeaseFits
<1>4. \/ Excused(log, host', budget')
      \/ \A n \in pending' : Found(n, host', Current, transit')
  BY <1>1 DEF Excused, Found
<1> QED
  BY <1>1, <1>2, <1>3, <1>4, HostStep

\* A session that opens activates only where no tenure is registered.
LEMMA OpenSessionKeeps ==
  ASSUME IInv, OpenSession
  PROVE  IInv'
<1> USE DEF OpenSession
<1>1. budget \in [opens : Nat, failures : Nat, rivalries : Nat]
  BY BudgetTyped
<1>2. PICK n \in Nat : n = budget.opens - 1
  BY <1>1
<1>3. budget' = [budget EXCEPT !.opens = n]
  BY <1>1, <1>2
<1>4. budget' \in [opens : Nat, failures : Nat, rivalries : Nat]
      /\ budget'.rivalries = budget.rivalries
  BY <1>1, <1>3
<1>5. StoreTyped'
  BY <1>4, TypeParts DEF IInv, StoreTyped, Events, store
<1>6. log' = log /\ pending' = pending
  BY DEF store
<1>7. CASE host.space = NoServer
  <2>1. Current = Gone /\ host \in HostStates /\ host.pending \subseteq DOMAIN log
        /\ HostFits(host, Gone)
    BY <1>7, IdleHost
  <2> DEFINE h == Activate(host)
  <2>2. /\ h \in HostStates /\ h.pending = host.pending /\ h.closed = host.closed
        /\ HostFits(h, Gone)
        /\ host.closed = "open" => h.activating.at \in {"backoff", "opening"}
    BY <2>1, ActivateIdle
  <2>3. host' = h
    BY <1>7
  <2> HIDE DEF h
  <2>4. \/ h.activating.at \in {"backoff", "opening"} \/ Excused(log, h, budget)
    BY <2>2 DEF Excused
  <2> QED
    BY <1>4, <1>5, <1>6, <1>7, <2>1, <2>2, <2>3, <2>4, IdleStep
<1>8. CASE host.space # NoServer
  <2>1. host' = host
    BY <1>8 DEF Activate
  <2>2. HostFits(host', Current) /\ LeaseFits(lease', Current, budget')
    BY <2>1, <1>4 DEF IInv, LeaseFits
  <2>3. \/ Excused(log, host', budget')
        \/ \A e \in pending' : Found(e, host', Current, transit')
    BY <2>1, <1>4, <1>6 DEF IInv, EventsFound, Excused
  <2>4. host' \in HostStates /\ host'.pending \subseteq DOMAIN log
        /\ host'.space = host.space
    BY <2>1, TypeParts DEF IInv
  <2> QED
    BY <1>5, <1>6, <2>2, <2>3, <2>4, HostStep
<1> QED
  BY <1>7, <1>8

\* A session that closes changes nothing the host holds.
LEMMA CloseSessionKeeps ==
  ASSUME IInv, CloseSession
  PROVE  IInv'
<1> USE DEF CloseSession
<1>1. StoreTyped'
  BY TypeParts DEF IInv, StoreTyped, Events, store
<1>2. HostFits(host', Current) /\ LeaseFits(lease', Current, budget')
  BY DEF IInv
<1>3. log' = log /\ pending' = pending
  BY DEF store
<1>4. \/ Excused(log, host', budget')
      \/ \A n \in pending' : Found(n, host', Current, transit')
  BY <1>3 DEF IInv, EventsFound
<1>5. host' \in HostStates /\ host'.pending \subseteq DOMAIN log /\ host'.space = host.space
  BY TypeParts DEF IInv
<1> QED
  BY <1>1, <1>2, <1>3, <1>4, <1>5, HostStep

\* Another process takes the lease only while no tenure holds it.
LEMMA RivalKeeps ==
  ASSUME IInv, RivalAcquires \/ RivalReleases
  PROVE  IInv'
<1> USE DEF RivalAcquires, RivalReleases
<1>1. budget \in [opens : Nat, failures : Nat, rivalries : Nat]
  BY BudgetTyped
<1>2. /\ budget' \in [opens : Nat, failures : Nat, rivalries : Nat]
      /\ LeaseFits(lease', Current, budget')
      /\ Excused(log, host, budget) => Excused(log, host, budget')
      /\ lease' \in {"free", "rival"}
  <2>1. CASE RivalAcquires
    <3>1. PICK n \in Nat : n = budget.rivalries - 1
      BY <1>1, <2>1
    <3>2. budget' = [budget EXCEPT !.rivalries = n]
      BY <1>1, <2>1, <3>1
    <3>3. budget' \in [opens : Nat, failures : Nat, rivalries : Nat]
          /\ budget'.rivalries = n
      BY <1>1, <3>2
    <3>4. MaxRivalries \in Nat
      BY HostAssumption
    <3>5. budget.rivalries <= MaxRivalries /\ Current.at \notin Holding
      BY <2>1 DEF IInv, LeaseFits
    <3>6. n < MaxRivalries
      BY <1>1, <3>1, <3>4, <3>5
    <3> QED
      BY <2>1, <3>3, <3>4, <3>5, <3>6 DEF LeaseFits, Excused
  <2>2. CASE RivalReleases
    BY <1>1, <2>2 DEF IInv, LeaseFits
  <2> QED
    BY <2>1, <2>2
<1>3. log' = log /\ pending' = pending /\ host' = host /\ server' = server
      /\ transit' = transit
  BY DEF store
<1>4. StoreTyped'
  BY <1>2, <1>3, TypeParts DEF IInv, StoreTyped, Events, store
<1>5. \/ Excused(log, host', budget')
      \/ \A n \in pending' : Found(n, host', Current, transit')
  BY <1>2, <1>3 DEF IInv, EventsFound
<1>6. /\ host' \in HostStates /\ host'.pending \subseteq DOMAIN log
      /\ host'.space = host.space /\ HostFits(host', Current)
  BY <1>3, TypeParts DEF IInv
<1> QED
  BY <1>2, <1>3, <1>4, <1>5, <1>6, HostStep

\* Once closed, the host looks for no event.
LEMMA CloseKeeps ==
  ASSUME IInv, Close
  PROVE  IInv'
<1> USE DEF Close
<1>1. host \in HostStates /\ host.pending \subseteq DOMAIN log
  BY TypeParts DEF IInv
<1>2. /\ host' \in HostStates /\ host'.space = host.space /\ host'.pending = host.pending
      /\ host'.activating = host.activating /\ host'.checking = host.checking
      /\ host'.closed = "draining"
  BY <1>1 DEF HostStates
<1>3. StoreTyped'
  BY TypeParts DEF IInv, StoreTyped, Events, store
<1>4. HostFits(host', Current)
  BY <1>2 DEF IInv, HostFits
<1>5. LeaseFits(lease', Current, budget')
  BY DEF IInv
<1>6. Excused(log, host', budget')
  BY <1>2 DEF Excused
<1>7. log' = log /\ server' = server
  BY DEF store
<1> QED
  BY <1>1, <1>2, <1>3, <1>4, <1>5, <1>6, <1>7, HostStep

-----------------------------------------------------------------------------
(* Activation                                                              *)

\* The backoff ends with none registered.
LEMMA BackoffKeeps ==
  ASSUME IInv, BackoffElapses
  PROVE  IInv'
<1> USE DEF BackoffElapses
<1>1. host.space = NoServer
  BY DEF IInv, HostFits
<1>2. /\ host \in HostStates /\ host.pending \subseteq DOMAIN log /\ HostFits(host, Gone)
      /\ Gone.at = "none"
  BY <1>1, IdleHost DEF Gone
<1>3. StoreTyped' /\ log' = log /\ pending' = pending /\ budget' = budget
      /\ lease' = lease /\ server' = server
  BY BudgetTyped, StoreUnchanged DEF store
<1>4. ~ Active(host.space)
  BY <1>1 DEF Active, Is
<1>5. CASE host.closed # "open"
  <2> DEFINE h == EndActivation(host)
  <2>1. /\ h \in HostStates /\ h.space = host.space /\ h.pending = host.pending
        /\ h.closed = host.closed /\ h.checking = host.checking
        /\ h.activating = NoActivation
    BY <1>2, EndActivationIs
  <2>2. host' = h
    BY <1>5
  <2> HIDE DEF h
  <2>3. HostFits(h, Gone)
    BY <1>2, <2>1 DEF HostFits, NoActivation
  <2>4. Excused(log, h, budget)
    BY <1>5, <2>1 DEF Excused
  <2> QED
    BY <1>1, <1>2, <1>3, <2>1, <2>2, <2>3, <2>4, IdleStep
<1>6. CASE host.closed = "open"
  <2> DEFINE h == [host EXCEPT !.activating.at = "opening"]
  <2>1. /\ h \in HostStates /\ h.space = host.space /\ h.pending = host.pending
        /\ h.closed = host.closed /\ h.checking = host.checking
        /\ h.activating.at = "opening" /\ h.activating.server = host.activating.server
    BY <1>2 DEF HostStates
  <2>2. host' = h
    BY <1>4, <1>6
  <2> HIDE DEF h
  <2>3. HostFits(h, Gone)
    BY <1>2, <1>6, <2>1 DEF HostFits
  <2> QED
    BY <1>1, <1>2, <1>3, <2>1, <2>2, <2>3, IdleStep
<1> QED
  BY <1>5, <1>6

\* A server is registered only where none is.
LEMMA RegisterKeeps ==
  ASSUME IInv, Register
  PROVE  IInv'
<1>1. host.space = NoServer /\ ~ host.checking /\ host.activating.at = "opening"
  BY DEF Register, IInv, HostFits
<1>2. /\ Current = Gone /\ host \in HostStates /\ host.pending \subseteq DOMAIN log
      /\ HostFits(host, Gone) /\ Gone.at = "none"
  BY <1>1, IdleHost DEF Gone
<1>3. StoreTyped' /\ log' = log /\ pending' = pending /\ budget' = budget
      /\ lease' = lease
  BY BudgetTyped, StoreUnchanged DEF Register, store
<1>4. CASE Deleted
  <2> DEFINE g == [host EXCEPT !.pending = {}, !.failing = FALSE]
             h == EndActivation(g)
  <2>1. /\ g \in HostStates /\ g.space = host.space /\ g.pending = {}
        /\ g.closed = host.closed /\ g.checking = host.checking
    BY <1>2 DEF HostStates
  <2>2. host' = h /\ server' = server
    BY <1>4 DEF Register
  <2> HIDE DEF g
  <2>3. /\ h \in HostStates /\ h.space = host.space /\ h.pending = {}
        /\ h.closed = host.closed /\ h.checking = host.checking
        /\ h.activating = NoActivation
    BY <2>1, EndActivationIs
  <2> HIDE DEF h
  <2>4. HostFits(h, Gone)
    BY <1>2, <2>3 DEF HostFits, NoActivation
  <2>5. Excused(log, h, budget)
    BY <1>4 DEF Excused, Deleted
  <2> QED
    BY <1>1, <1>2, <1>3, <2>2, <2>3, <2>4, <2>5, IdleStep
<1>5. CASE ~ Deleted
  <2>1. PICK s \in Servers :
          /\ server[s].at = "none"
          /\ host' = [host EXCEPT !.space = s, !.pending = {},
                        !.activating = [at |-> "activating", server |-> s]]
          /\ server' = [server EXCEPT ![s] =
               [Gone EXCEPT !.at = "acquiring", !.feed = host.pending,
                            !.warm = Warm(host.pending)]]
    BY <1>5 DEF Register
  <2> DEFINE v == [Gone EXCEPT !.at = "acquiring", !.feed = host.pending,
                               !.warm = Warm(host.pending)]
             a == [at |-> "activating", server |-> s]
  <2>2. Warm(host.pending) \subseteq host.pending /\ host.pending \in SUBSET Nat
    BY <1>2 DEF Warm, HostStates
  <2>3. /\ v \in ServerStates /\ v.at = "acquiring" /\ v.feed = host.pending
        /\ v.warm = Warm(host.pending) /\ v.wave = {} /\ v.scanHead = 0 /\ v.covered = 0
        /\ v.reason = "none"
    BY <2>2 DEF Gone, ServerStates, Stages, Reasons
  <2>4. server' = [server EXCEPT ![s] = v]
    BY <2>1
  <2> HIDE DEF v
  <2>5. TenureFits(v, log')
    <3>1. Len(log) \in Nat
      BY DEF IInv, TypeOK
    <3>2. 0 \in 0..Len(log')
      BY <1>3, <3>1
    <3> QED
      BY <1>2, <1>3, <2>2, <2>3, <3>2 DEF TenureFits
  <2>6. a.at = "activating" /\ a.server = s
        /\ a \in [at : {"none", "backoff", "opening", "activating"},
                  server : Servers \cup {NoServer}]
    OBVIOUS
  <2>7. host' = [host EXCEPT !.space = s, !.pending = {}, !.activating = a]
    BY <2>1
  <2> HIDE DEF a
  <2>8. /\ host' \in HostStates /\ host'.space = s /\ host'.pending = {}
        /\ host'.activating = a /\ host'.closed = host.closed
        /\ host'.checking = host.checking
    BY <1>2, <2>6, <2>7 DEF HostStates
  <2>9. s # NoServer
    BY HostAssumption
  <2>10. HostFits(host', v)
    BY <1>1, <1>2, <2>3, <2>6, <2>8, <2>9 DEF HostFits, Building
  <2>11. LeaseFits(lease', v, budget')
    BY <1>2, <1>3, <2>3 DEF IInv, LeaseFits, Holding
  <2>12. \A n \in pending' : Found(n, host', v, transit')
    BY <2>3 DEF Found
  <2>13. server \in [Servers -> ServerStates] /\ \A r \in Servers : server[r] = Gone
    BY <1>1, HostAssumption DEF IInv, TypeOK, Alone
  <2>14. /\ server' \in [Servers -> ServerStates] /\ server'[s] = v
         /\ \A r \in Servers : r # s => server'[r] = Gone
    BY <2>3, <2>4, <2>13
  <2>15. Alone' /\ Current' = v
    BY <2>8, <2>9, <2>14 DEF Alone, Current
  <2> QED
    BY <1>3, <2>5, <2>8, <2>10, <2>11, <2>12, <2>14, <2>15, Assemble
<1> QED
  BY <1>4, <1>5

\* A throw before a park is possible: the tenure, if one was built, ends without
\* the lease, and the criteria are read again.
LEMMA ActivationThrowsKeeps ==
  ASSUME IInv, ActivationThrows
  PROVE  IInv'
<1>1. /\ budget' \in [opens : Nat, failures : Nat, rivalries : Nat]
      /\ budget'.rivalries = budget.rivalries
  BY FailIs DEF ActivationThrows
<1>2. StoreTyped' /\ log' = log /\ pending' = pending /\ lease' = lease
  BY <1>1, StoreUnchanged DEF ActivationThrows, store
<1>3. host \in HostStates /\ host.pending \subseteq DOMAIN log
      /\ HostFits(host, Current)
  BY TypeParts DEF IInv
<1>4. CASE host.activating.server = NoServer
  <2> DEFINE f == [host EXCEPT !.failing = TRUE]
             g == EndActivation(f)
             h == Reevaluate(g)
  <2>1. host.activating.at = "opening"
    BY <1>4 DEF ActivationThrows, Is
  <2>2. host.space = NoServer
    BY <2>1, <1>3 DEF HostFits
  <2>3. HostFits(host, Gone) /\ Gone.at = "none"
    BY <2>2, IdleHost DEF Gone
  <2>4. /\ f \in HostStates /\ f.space = host.space /\ f.pending = host.pending
        /\ f.closed = host.closed /\ f.checking = host.checking
    BY <1>3 DEF HostStates
  <2>5. host' = h /\ server' = server
    BY <1>4 DEF ActivationThrows
  <2> HIDE DEF f
  <2>6. /\ g \in HostStates /\ g.space = host.space /\ g.pending = host.pending
        /\ g.closed = host.closed /\ g.checking = host.checking
        /\ g.activating = NoActivation
    BY <2>4, EndActivationIs
  <2> HIDE DEF g
  <2>7. HostFits(g, Gone)
    BY <2>3, <2>6 DEF HostFits, NoActivation
  <2>8. /\ h \in HostStates /\ HostFits(h, Gone) /\ h.pending = host.pending
        /\ h.closed = host.closed
        /\ host.closed = "open" =>
             h.checking \/ h.activating.at \in {"backoff", "opening"}
    BY <2>6, <2>7, ReevaluateIdle
  <2> HIDE DEF h
  <2>9. \/ h.checking \/ h.activating.at \in {"backoff", "opening"}
        \/ Excused(log, h, budget)
    BY <2>8 DEF Excused
  <2> QED
    BY <1>1, <1>2, <1>3, <2>2, <2>5, <2>8, <2>9, IdleStep
<1>5. CASE host.activating.server # NoServer
  <2>1. PICK s \in Servers : s = host.activating.server
    BY <1>3, <1>5 DEF HostStates
  <2>2. host.activating.at = "activating"
    BY <1>3, <1>5 DEF HostFits
  <2>3. server[s].at = "acquiring"
    BY <2>1, <2>2 DEF ActivationThrows, Is
  <2>4. host.space = s /\ Current = server[s]
    BY <2>3, Standing
  <2> DEFINE e == EndTenure(host, s, FALSE)
             f == [e EXCEPT !.failing = TRUE]
             g == EndActivation(f)
             h == Reevaluate(g)
  <2>5. host' = h /\ server' = [server EXCEPT ![s] = Gone]
    BY <1>5, <2>1 DEF ActivationThrows
  <2>6. PICK w \in BOOLEAN : e = EndTenure(host, s, w)
    OBVIOUS
  <2>7. /\ e \in HostStates /\ e.space = NoServer /\ e.pending \subseteq DOMAIN log
        /\ e.closed = host.closed /\ e.checking = host.checking
    BY <1>3, <2>4, <2>6, EndTenureIs
  <2> HIDE DEF e
  <2>8. /\ f \in HostStates /\ f.space = NoServer /\ f.pending = e.pending
        /\ f.closed = host.closed /\ f.checking = host.checking
    BY <2>7 DEF HostStates
  <2> HIDE DEF f
  <2>9. /\ g \in HostStates /\ g.space = NoServer /\ g.pending = e.pending
        /\ g.closed = host.closed /\ g.checking = host.checking
        /\ g.activating = NoActivation
    BY <2>8, EndActivationIs
  <2> HIDE DEF g
  <2>10. HostFits(g, Gone)
    BY <1>3, <2>9 DEF HostFits, NoActivation, Gone
  <2>11. /\ h \in HostStates /\ HostFits(h, Gone) /\ h.pending = e.pending
         /\ h.closed = host.closed /\ h.space = NoServer
         /\ host.closed = "open" =>
              h.checking \/ h.activating.at \in {"backoff", "opening"}
    BY <2>9, <2>10, ReevaluateIdle
  <2> HIDE DEF h
  <2>12. \/ Excused(log, h, budget')
         \/ \A n \in pending' : Found(n, h, Gone, transit')
    BY <2>11 DEF Excused, Found, Gone
  <2>13. LeaseFits(lease', Gone, budget')
    BY <1>1, <1>2, <2>3, <2>4 DEF IInv, LeaseFits, Gone, Holding
  <2> QED
    BY <1>1, <1>2, <2>4, <2>5, <2>7, <2>11, <2>12, <2>13, EndStep
<1> QED
  BY <1>4, <1>5

\* The lease is granted unless a rival holds it; a refused tenure ends.
LEMMA AcquireKeeps ==
  ASSUME IInv, NEW s \in Servers, Acquire(s)
  PROVE  IInv'
<1>1. server[s].at = "acquiring" /\ log' = log /\ pending' = pending /\ budget' = budget
      /\ transit' = transit
  BY DEF Acquire, store
<1>2. host.space = s /\ s # NoServer /\ Current = server[s]
  BY <1>1, Standing
<1>3. host \in HostStates /\ host.pending \subseteq DOMAIN log
      /\ HostFits(host, server[s]) /\ TenureFits(server[s], log)
  BY <1>2, TypeParts DEF IInv
<1>4. host.activating.at = "activating"
  BY <1>1, <1>3 DEF HostFits, Serving, Leaving
<1>5. lease \in {"free", "own", "rival"} => StoreTyped'
  BY TypeParts, BudgetTyped DEF IInv, StoreTyped, Acquire, Events, store
<1>6. StoreTyped'
  BY <1>5 DEF IInv, TypeOK
<1>7. CASE lease # "rival"
  <2> DEFINE v == [server[s] EXCEPT !.at = "building"]
  <2>1. lease' = "own" /\ host' = host /\ server' = [server EXCEPT ![s].at = "building"]
    BY <1>7 DEF Acquire
  <2>2. server' = [server EXCEPT ![s] = v]
    BY <2>1
  <2>3. server[s] \in ServerStates
    BY <1>3 DEF TenureFits
  <2>4. /\ v \in ServerStates /\ v.at = "building" /\ v.feed = server[s].feed
        /\ v.warm = server[s].warm /\ v.wave = server[s].wave
        /\ v.scanHead = server[s].scanHead /\ v.covered = server[s].covered
        /\ v.reason = server[s].reason
    BY <2>3 DEF ServerStates, Stages
  <2> HIDE DEF v
  <2>5. TenureFits(v, log)
    BY <1>1, <1>3, <2>4 DEF TenureFits, Building
  <2>6. HostFits(host', v)
    BY <1>1, <1>3, <1>4, <2>1, <2>4 DEF HostFits, Building
  <2>7. LeaseFits(lease', v, budget')
    BY <1>1, <2>1, <2>4 DEF IInv, LeaseFits, Holding
  <2>8. \A n \in pending' : Found(n, host', v, transit')
    BY <2>4 DEF Found
  <2> QED
    BY <1>1, <1>2, <1>3, <1>6, <2>1, <2>2, <2>5, <2>6, <2>7, <2>8, TenureStep
<1>8. CASE lease = "rival"
  <2> DEFINE g == OnParked(host, s, "lease-unavailable")
             h == EndActivation(g)
  <2>1. host' = h /\ server' = [server EXCEPT ![s] = Gone] /\ lease' = lease
    BY <1>8 DEF Acquire
  <2>2. /\ g \in HostStates /\ g.space = NoServer /\ g.pending \subseteq DOMAIN log
        /\ g.closed = host.closed /\ g.checking = host.checking
    <3>1. PICK r \in Reasons \cup {"lease-unavailable"} : r = "lease-unavailable"
      OBVIOUS
    <3>2. g = OnParked(host, s, r)
      BY <3>1
    <3> QED
      BY <1>2, <3>2, OnParkedIs
  <2> HIDE DEF g
  <2>3. /\ h \in HostStates /\ h.space = NoServer /\ h.pending = g.pending
        /\ h.closed = host.closed /\ h.checking = host.checking
        /\ h.activating = NoActivation
    BY <2>2, EndActivationIs
  <2> HIDE DEF h
  <2>4. HostFits(h, Gone)
    BY <1>1, <1>3, <2>3 DEF HostFits, NoActivation, Gone
  <2>5. LeaseFits(lease', Gone, budget') /\ Excused(log, h, budget')
    BY <1>1, <1>8, <2>1 DEF IInv, LeaseFits, Gone, Holding, Excused
  <2> QED
    BY <1>1, <1>2, <1>6, <2>1, <2>2, <2>3, <2>4, <2>5, EndStep
<1> QED
  BY <1>7, <1>8

\* A step of the registered tenure within one phase of its life, which finds
\* every event it would have found.
LEMMA WorkStep ==
  ASSUME IInv, NEW s \in Servers, host.space = s, NEW v,
         server' = [server EXCEPT ![s] = v], TenureFits(v, log),
         \/ v.at = server[s].at
         \/ {server[s].at, v.at} \subseteq Building
         \/ {server[s].at, v.at} \subseteq Serving,
         server[s].at \in Holding <=> v.at \in Holding,
         log' = log, lease' = lease, StoreTyped', budget'.rivalries = budget.rivalries,
         host' \in HostStates, host'.space = host.space, host'.pending = host.pending,
         host'.activating = host.activating, host'.checking = host.checking,
         host'.closed = host.closed, pending' \subseteq pending,
         \A n \in pending' : Found(n, host, server[s], transit) => Found(n, host', v, transit')
  PROVE  IInv'
<1>1. Current = server[s] /\ Current.at # "none"
  BY HostAssumption, RegisteredStands
<1>2. host.pending \subseteq DOMAIN log
  BY TypeParts DEF IInv
<1>3. v.at # "none"
  BY <1>1 DEF Building, Serving
<1>4. HostFits(host', v)
  <2>1. HostFits(host, server[s])
    BY <1>1 DEF IInv
  <2>2. CASE v.at = server[s].at
    BY <2>1, <2>2 DEF HostFits
  <2>3. CASE {server[s].at, v.at} \subseteq Building
    BY <1>1, <1>3, <2>1, <2>3 DEF HostFits, Building, Serving, Leaving
  <2>4. CASE {server[s].at, v.at} \subseteq Serving
    BY <1>1, <1>3, <2>1, <2>4 DEF HostFits, Building, Serving, Leaving
  <2> QED
    BY <2>2, <2>3, <2>4
<1>5. LeaseFits(lease', v, budget')
  BY <1>1 DEF IInv, LeaseFits
<1>6. \/ Excused(log, host', budget')
      \/ \A n \in pending' : Found(n, host', v, transit')
  BY <1>1 DEF IInv, EventsFound, Excused
<1> QED
  BY <1>2, <1>4, <1>5, <1>6, TenureStep

\* The same when the host's record and the store stay.
LEMMA WorkAlone ==
  ASSUME IInv, NEW s \in Servers, NEW v, server[s].at # "none",
         server' = [server EXCEPT ![s] = v], TenureFits(v, log),
         \/ {server[s].at, v.at} \subseteq Building
         \/ {server[s].at, v.at} \subseteq Serving,
         server[s].at \in Holding <=> v.at \in Holding,
         UNCHANGED <<store, transit, sessions, lease, host, derived>>,
         budget' \in [opens : Nat, failures : Nat, rivalries : Nat],
         budget'.rivalries = budget.rivalries,
         \A n \in pending : Found(n, host, server[s], transit) => Found(n, host, v, transit)
  PROVE  IInv'
<1>1. StoreTyped'
  BY StoreUnchanged
<1>2. host \in HostStates
  BY TypeParts DEF IInv
<1>3. host.space = s
  BY Standing
<1>4. log' = log /\ lease' = lease /\ host' = host /\ pending' = pending
      /\ transit' = transit
  BY DEF store
<1> QED
  BY <1>1, <1>2, <1>3, <1>4, WorkStep

\* The runtime is built and the head read: a scan is still to come.
LEMMA ReadHeadKeeps ==
  ASSUME IInv, NEW s \in Servers, ReadHead(s)
  PROVE  IInv'
<1>1. server[s].at = "building"
  BY DEF ReadHead
<1>2. TenureFits(server[s], log)
  BY <1>1, Standing DEF IInv
<1>3. server[s] \in ServerStates
  BY <1>2 DEF TenureFits
<1>4. PICK k \in Nat : k = Len(log)
  BY DEF IInv, TypeOK
<1> DEFINE v == [server[s] EXCEPT !.at = "scanning", !.scanHead = k]
<1>5. server' = [server EXCEPT ![s] = v]
  BY <1>4 DEF ReadHead
<1>6. /\ v \in ServerStates /\ v.at = "scanning" /\ v.feed = server[s].feed
      /\ v.warm = server[s].warm /\ v.wave = server[s].wave
      /\ v.scanHead = k /\ v.covered = server[s].covered /\ v.reason = server[s].reason
  BY <1>3 DEF ServerStates, Stages
<1> HIDE DEF v
<1>7. TenureFits(v, log)
  BY <1>1, <1>2, <1>4, <1>6 DEF TenureFits, Building
<1>8. {server[s].at, v.at} \subseteq Building /\ server[s].at \in Holding /\ v.at \in Holding
  BY <1>1, <1>6 DEF Building, Holding
<1>9. \A n \in pending : Found(n, host, v, transit)
  BY <1>6 DEF Found
<1>10. UNCHANGED <<store, transit, sessions, lease, host, derived>> /\ budget' = budget
  BY DEF ReadHead
<1> QED
  BY <1>1, <1>5, <1>7, <1>8, <1>9, <1>10, BudgetTyped, WorkAlone

\* The activation's scan is owed to every event not delivered yet.
LEMMA ScanKeeps ==
  ASSUME IInv, NEW s \in Servers, Scan(s)
  PROVE  IInv'
<1>1. server[s].at = "scanning"
  BY DEF Scan
<1>2. TenureFits(server[s], log)
  BY <1>1, Standing DEF IInv
<1>3. server[s] \in ServerStates
  BY <1>2 DEF TenureFits
<1>4. PICK k \in Nat : k = server[s].scanHead
  BY <1>3 DEF ServerStates
<1>5. PICK owed \in BOOLEAN : owed <=> pending # {}
  OBVIOUS
<1>6. PICK f \in SUBSET Nat : f = {n \in server[s].feed : n > server[s].scanHead}
  BY <1>3 DEF ServerStates
<1> DEFINE v == [server[s] EXCEPT !.at = "resending", !.scanOwed = owed,
                                  !.feed = f, !.covered = k]
<1>7. server' = [server EXCEPT ![s] = v]
  BY <1>4, <1>5, <1>6 DEF Scan
<1>8. /\ v \in ServerStates /\ v.at = "resending" /\ v.feed = f
      /\ v.warm = server[s].warm /\ v.wave = server[s].wave /\ v.scanOwed = owed
      /\ v.scanHead = server[s].scanHead /\ v.covered = k /\ v.reason = server[s].reason
  BY <1>3 DEF ServerStates, Stages
<1> HIDE DEF v
<1>9. TenureFits(v, log)
  <2>1. f \subseteq server[s].feed
    BY <1>6
  <2> QED
    BY <1>1, <1>2, <1>4, <1>8, <2>1 DEF TenureFits, Building
<1>10. {server[s].at, v.at} \subseteq Building /\ server[s].at \in Holding /\ v.at \in Holding
  BY <1>1, <1>8 DEF Building, Holding
<1>11. \A n \in pending : Found(n, host, v, transit)
  BY <1>5, <1>8 DEF Found
<1>12. UNCHANGED <<store, transit, sessions, lease, host, derived>> /\ budget' = budget
  BY DEF Scan
<1> QED
  BY <1>1, <1>7, <1>9, <1>10, <1>11, <1>12, BudgetTyped, WorkAlone

\* A tenure that has been built serves, or parks if the host closed meanwhile.
LEMMA BecomeActiveKeeps ==
  ASSUME IInv, NEW s \in Servers, BecomeActive(s)
  PROVE  IInv'
<1>1. server[s].at = "resending" /\ server[s].at \in Holding
  BY DEF BecomeActive, Holding
<1>2. host.space = s /\ s # NoServer /\ Current = server[s]
  BY <1>1, Standing
<1>3. host \in HostStates /\ host.pending \subseteq DOMAIN log
      /\ HostFits(host, server[s]) /\ TenureFits(server[s], log)
  BY <1>2, TypeParts DEF IInv
<1>4. /\ UNCHANGED <<store, transit, sessions, lease, derived>> /\ budget' = budget
      /\ log' = log /\ lease' = lease /\ pending' = pending /\ transit' = transit
  BY DEF BecomeActive, store
<1>5. StoreTyped'
  BY <1>4, BudgetTyped, StoreUnchanged
<1>6. CASE host.closed = "open"
  <2> DEFINE v == [server[s] EXCEPT !.at = "serving"]
             h == EndActivation(host)
  <2>1. host' = h /\ server' = [server EXCEPT ![s] = v]
    BY <1>6 DEF BecomeActive
  <2>2. server[s] \in ServerStates
    BY <1>3 DEF TenureFits
  <2>3. /\ v \in ServerStates /\ v.at = "serving" /\ v.feed = server[s].feed
        /\ v.warm = server[s].warm /\ v.wave = server[s].wave
        /\ v.scanHead = server[s].scanHead /\ v.covered = server[s].covered
        /\ v.reason = server[s].reason /\ v.scanOwed = server[s].scanOwed
    BY <2>2 DEF ServerStates, Stages
  <2>4. /\ h \in HostStates /\ h.activating = NoActivation
        /\ h.space = host.space /\ h.pending = host.pending
        /\ h.closed = host.closed /\ h.checking = host.checking
    BY <1>3, EndActivationIs
  <2> HIDE DEF v, h
  <2>5. TenureFits(v, log)
    BY <1>1, <1>3, <2>3 DEF TenureFits, Building
  <2>6. HostFits(h, v)
    BY <1>1, <1>2, <1>3, <1>6, <2>3, <2>4 DEF HostFits, NoActivation, Serving
  <2>7. LeaseFits(lease', v, budget')
    BY <1>1, <1>2, <1>4, <2>3 DEF IInv, LeaseFits, Holding
  <2>8. \A n : Found(n, host, server[s], transit) => Found(n, h, v, transit)
    BY <1>1, <2>3 DEF Found, Serving, Leaving
  <2>9. \/ Excused(log, h, budget')
        \/ \A n \in pending' : Found(n, h, v, transit')
    BY <1>2, <1>4, <2>4, <2>8 DEF IInv, EventsFound, Excused
  <2> QED
    BY <1>2, <1>3, <1>4, <1>5, <2>1, <2>4, <2>5, <2>6, <2>7, <2>9, TenureStep
<1>7. CASE host.closed # "open"
  <2>1. PICK r \in Reasons : r = "host-closed"
    BY DEF Reasons
  <2>2. server' = [server EXCEPT ![s] = StartPark(s, r)] /\ host' = host
    BY <1>7, <2>1 DEF BecomeActive
  <2>3. r = "space-deleted" => Deleted
    BY <2>1
  <2> QED
    BY <1>1, <1>4, <2>2, <2>3, BudgetTyped, ParkAlone
<1> QED
  BY <1>6, <1>7

\* Whatever ends a tenure from within (a failed initialization, a failed loop,
\* a refused wave, idleness) starts a park.
LEMMA ParksKeep ==
  ASSUME IInv, NEW s \in Servers,
         InitializeFails(s) \/ LoopFails(s) \/ WaveRefused(s) \/ IdlePark(s)
  PROVE  IInv'
<1>1. PICK r \in Reasons :
        /\ server' = [server EXCEPT ![s] = StartPark(s, r)]
        /\ r = "space-deleted" => Deleted
  <2>1. CASE InitializeFails(s)
    BY <2>1 DEF InitializeFails, Reasons
  <2>2. CASE LoopFails(s)
    BY <2>2 DEF LoopFails, Reasons
  <2>3. CASE WaveRefused(s)
    <3>1. PICK r \in Reasons : r = IF Deleted THEN "space-deleted" ELSE "lease-lost-abort"
      BY DEF Reasons
    <3> QED
      BY <2>3, <3>1 DEF WaveRefused
  <2>4. CASE IdlePark(s)
    BY <2>4 DEF IdlePark, Reasons
  <2> QED
    BY <2>1, <2>2, <2>3, <2>4
<1>2. server[s].at \in Holding
  BY DEF InitializeFails, LoopFails, WaveRefused, IdlePark, Is, Active, Holding
<1>3. UNCHANGED <<store, transit, sessions, lease, host, derived>>
  BY DEF InitializeFails, LoopFails, WaveRefused, IdlePark
<1>4. Fail \/ budget' = budget
  BY DEF InitializeFails, LoopFails, WaveRefused, IdlePark
<1>5. /\ budget' \in [opens : Nat, failures : Nat, rivalries : Nat]
      /\ budget'.rivalries = budget.rivalries
  BY <1>4, FailIs, BudgetTyped
<1> QED
  BY <1>1, <1>2, <1>3, <1>5, ParkAlone

-----------------------------------------------------------------------------
(* Parks and re-evaluations                                                *)

\* A commit in flight lands, or not, before the lease is released.
LEMMA InFlightLandsKeeps ==
  ASSUME IInv, NEW s \in Servers, InFlightLands(s)
  PROVE  IInv'
<1>1. /\ server[s].at = "parking" /\ log' = log /\ lease' = lease /\ budget' = budget
      /\ host' = host /\ transit' = transit /\ pending' \subseteq pending
      /\ sessions' = sessions /\ derived' = derived /\ watermark' = server[s].covered
  BY DEF InFlightLands
<1>2. host.space = s /\ Current = server[s]
  BY <1>1, Standing
<1>3. host \in HostStates /\ TenureFits(server[s], log) /\ StoreTyped
  BY <1>2, TypeParts DEF IInv
<1>4. server[s] \in ServerStates /\ server[s].covered \in 0..Len(log)
  BY <1>3 DEF TenureFits
<1>5. StoreTyped'
  BY <1>1, <1>3, <1>4, StoreStays DEF StoreTyped
<1> DEFINE v == [server[s] EXCEPT !.wave = {}, !.inFlight = FALSE]
<1>6. server' = [server EXCEPT ![s] = v]
  BY DEF InFlightLands
<1>7. /\ v \in ServerStates /\ v.at = server[s].at /\ v.feed = server[s].feed
      /\ v.warm = server[s].warm /\ v.wave = {}
      /\ v.scanHead = server[s].scanHead /\ v.covered = server[s].covered
      /\ v.reason = server[s].reason
  BY <1>4 DEF ServerStates
<1> HIDE DEF v
<1>8. TenureFits(v, log)
  BY <1>3, <1>7 DEF TenureFits
<1>9. \A n \in pending' : Found(n, host', v, transit')
  BY <1>1, <1>7 DEF Found, Leaving
<1> QED
  BY <1>1, <1>2, <1>3, <1>5, <1>6, <1>7, <1>8, <1>9, WorkStep

\* The park gives the lease back.
LEMMA ReleaseKeeps ==
  ASSUME IInv, NEW s \in Servers, Release(s)
  PROVE  IInv'
<1>1. /\ server[s].at = "parking" /\ log' = log /\ budget' = budget
      /\ host' = host /\ transit' = transit /\ pending' = pending
      /\ sessions' = sessions /\ derived' = derived /\ watermark' = watermark
      /\ lease' = IF lease = "own" THEN "free" ELSE lease
  BY DEF Release, store
<1>2. host.space = s /\ s # NoServer /\ Current = server[s]
  BY <1>1, Standing
<1>3. host \in HostStates /\ host.pending \subseteq DOMAIN log /\ StoreTyped
      /\ HostFits(host, server[s]) /\ TenureFits(server[s], log)
  BY <1>2, TypeParts DEF IInv
<1>4. server[s] \in ServerStates
  BY <1>3 DEF TenureFits
<1>5. StoreTyped'
  BY <1>1, <1>3, StoreStays DEF StoreTyped
<1> DEFINE v == [server[s] EXCEPT !.at = "released", !.wave = {}, !.inFlight = FALSE]
<1>6. server' = [server EXCEPT ![s] = v]
  BY DEF Release
<1>7. /\ v \in ServerStates /\ v.at = "released" /\ v.feed = server[s].feed
      /\ v.warm = server[s].warm /\ v.wave = {}
      /\ v.scanHead = server[s].scanHead /\ v.covered = server[s].covered
      /\ v.reason = server[s].reason
  BY <1>4 DEF ServerStates, Stages
<1> HIDE DEF v
<1>8. TenureFits(v, log)
  BY <1>3, <1>7 DEF TenureFits
<1>9. \A n \in pending' : Found(n, host', v, transit')
  BY <1>7 DEF Found, Leaving
<1>10. HostFits(host', v)
  BY <1>1, <1>2, <1>3, <1>7 DEF HostFits, Leaving
<1>11. LeaseFits(lease', v, budget')
  BY <1>1, <1>2, <1>7 DEF IInv, LeaseFits, Holding
<1> QED
  BY <1>1, <1>2, <1>3, <1>5, <1>6, <1>8, <1>9, <1>10, <1>11, TenureStep

\* The park's end unregisters the tenure and, but for a deleted space, reads the
\* criteria again: the events a tenure left are found by what comes after it.
LEMMA FinishParkKeeps ==
  ASSUME IInv, NEW s \in Servers, FinishPark(s)
  PROVE  IInv'
<1> DEFINE reason == server[s].reason
           p == OnParked(host, s, reason)
           e == IF host.activating.server = s THEN EndActivation(p) ELSE p
           h == IF reason = "space-deleted" THEN e ELSE Reevaluate(e)
<1>1. /\ server[s].at = "released" /\ log' = log /\ budget' = budget /\ lease' = lease
      /\ transit' = transit /\ pending' = pending /\ sessions' = sessions
      /\ watermark' = watermark /\ server' = [server EXCEPT ![s] = Gone]
      /\ derived' = derived \cup (IF reason = "idle" THEN server[s].warm ELSE {})
      /\ host' = h
  BY DEF FinishPark, store
<1>2. host.space = s /\ s # NoServer /\ Current = server[s]
  BY <1>1, Standing
<1>3. host \in HostStates /\ host.pending \subseteq DOMAIN log /\ StoreTyped
      /\ HostFits(host, server[s]) /\ TenureFits(server[s], log)
  BY <1>2, TypeParts DEF IInv
<1>4. StoreTyped'
  <2>1. derived' \subseteq DOMAIN log
    BY <1>1, <1>3 DEF TenureFits, StoreTyped
  <2> QED
    BY <1>1, <1>3, <2>1 DEF StoreTyped, Events
<1>5. reason \in Reasons
  BY <1>3 DEF TenureFits, ServerStates
<1>6. reason = "space-deleted" => "delete" \in Range(log)
  BY <1>3 DEF TenureFits
<1>7. LeaseFits(lease', Gone, budget')
  BY <1>1, <1>2 DEF IInv, LeaseFits, Holding, Gone
<1> HIDE DEF reason
<1>8. /\ p \in HostStates /\ p.space = NoServer /\ p.pending \subseteq DOMAIN log
      /\ p.activating = host.activating /\ p.closed = host.closed
      /\ p.checking = host.checking
  BY <1>2, <1>5, OnParkedIs
<1> HIDE DEF p
<1>9. /\ e \in HostStates /\ e.space = NoServer /\ e.pending = p.pending
      /\ e.closed = host.closed /\ e.checking = host.checking
      /\ e.activating.at = "none" /\ e.activating.server = NoServer
  <2>1. CASE host.activating.server = s
    BY <1>8, <2>1, EndActivationIs DEF NoActivation
  <2>2. CASE host.activating.server # s
    <3>1. host.activating.at = "none" /\ host.activating.server = NoServer
      BY <1>1, <1>2, <1>3, <2>2 DEF HostFits, HostStates
    <3> QED
      BY <1>8, <2>2, <3>1
  <2> QED
    BY <2>1, <2>2
<1> HIDE DEF e
<1>10. HostFits(e, Gone)
  BY <1>1, <1>3, <1>9 DEF HostFits, Gone
<1>11. /\ h \in HostStates /\ h.space = NoServer /\ h.pending = p.pending
       /\ HostFits(h, Gone)
       /\ \/ Excused(log, h, budget)
          \/ h.checking \/ h.activating.at \in {"backoff", "opening"}
  <2>1. CASE reason = "space-deleted"
    BY <1>6, <1>9, <1>10, <2>1 DEF Excused
  <2>2. CASE reason # "space-deleted"
    <3>1. h = Reevaluate(e)
      BY <2>2
    <3> QED
      BY <1>9, <1>10, <3>1, ReevaluateIdle DEF Excused
  <2> QED
    BY <2>1, <2>2
<1> HIDE DEF h
<1>12. \/ Excused(log, h, budget')
       \/ \A n \in pending' : Found(n, h, Gone, transit')
  BY <1>1, <1>11 DEF Found, Gone
<1> QED
  BY <1>1, <1>2, <1>4, <1>7, <1>8, <1>11, <1>12, EndStep

\* A re-evaluation that reads the store activates if an event waits there.
LEMMA CheckKeeps ==
  ASSUME IInv, CheckEvents \/ CheckEventsFails
  PROVE  IInv'
<1>1. host.checking /\ log' = log /\ lease' = lease /\ server' = server
      /\ pending' = pending
  BY DEF CheckEvents, CheckEventsFails, store
<1>2. host.space = NoServer
  BY <1>1 DEF IInv, HostFits
<1>3. /\ host \in HostStates /\ host.pending \subseteq DOMAIN log
      /\ HostFits(host, Gone) /\ Gone.at = "none"
  BY <1>2, IdleHost DEF Gone
<1>4. Fail \/ budget' = budget
  BY DEF CheckEvents, CheckEventsFails
<1>5. /\ budget' \in [opens : Nat, failures : Nat, rivalries : Nat]
      /\ budget'.rivalries = budget.rivalries
  BY <1>4, FailIs, BudgetTyped
<1>6. StoreTyped'
  BY <1>5, StoreUnchanged DEF CheckEvents, CheckEventsFails
<1> DEFINE g == [host EXCEPT !.checking = FALSE]
           h == Activate(g)
<1>7. /\ g \in HostStates /\ g.space = host.space /\ g.pending = host.pending
      /\ g.closed = host.closed /\ g.activating = host.activating /\ ~ g.checking
  BY <1>3 DEF HostStates
<1>8. host' = h \/ (host' = g /\ pending = {})
  BY DEF CheckEvents, CheckEventsFails
<1> HIDE DEF g
<1>9. HostFits(g, Gone)
  BY <1>3, <1>7 DEF HostFits
<1>10. /\ h \in HostStates /\ h.pending = g.pending /\ h.closed = g.closed
       /\ HostFits(h, Gone)
       /\ g.closed = "open" => h.activating.at \in {"backoff", "opening"}
  BY <1>7, <1>9, ActivateIdle
<1> HIDE DEF h
<1>11. CASE host' = h
  <2>1. Excused(log, h, budget) \/ h.activating.at \in {"backoff", "opening"}
    BY <1>10 DEF Excused
  <2> QED
    BY <1>1, <1>2, <1>3, <1>5, <1>6, <1>7, <1>10, <1>11, <2>1, IdleStep
<1>12. CASE host' = g /\ pending = {}
  BY <1>1, <1>2, <1>3, <1>5, <1>6, <1>7, <1>9, <1>12, IdleStep
<1> QED
  BY <1>8, <1>11, <1>12

-----------------------------------------------------------------------------
(* The loop of an active tenure                                            *)

\* A nonempty set of naturals has a least element.
LEMMA LeastOf ==
  ASSUME NEW T \in SUBSET Nat, T # {}
  PROVE  \E x \in T : \A y \in T : x <= y
<1> DEFINE R == OpToRel(<, Nat)
<1>1. IsWellFoundedOn(R, Nat)
  BY NatLessThanWellFounded
<1>2. \A x, y \in Nat : y < x => <<y, x>> \in R
  BY DEF OpToRel
<1> HIDE DEF R
<1>3. PICK x \in T : \A y \in T : ~ (<<y, x>> \in R)
  BY <1>1, WFMin
<1>4. \A y \in T : ~ (y < x)
  BY <1>2, <1>3, Zenon
<1> QED
  BY <1>4

\* The head a drain moves to is one of the seqs it took in, or the old head.
LEMMA MaxOfIn ==
  ASSUME NEW k \in Nat, NEW S \in SUBSET (0..k), S # {}
  PROVE  MaxOf(S) \in S
<1> DEFINE T == {m \in Nat : k - m \in S}
<1>1. T \in SUBSET Nat
  OBVIOUS
<1>2. T # {}
  <2>1. PICK y \in S : TRUE
    OBVIOUS
  <2>2. k - y \in Nat /\ k - (k - y) = y
    BY <2>1
  <2> QED
    BY <2>1, <2>2
<1>3. PICK t \in T : \A y \in T : t <= y
  BY <1>1, <1>2, LeastOf
<1>4. ASSUME NEW y \in S PROVE y <= k - t
  <2>1. k - y \in Nat /\ k - (k - y) = y /\ y \in Nat
    OBVIOUS
  <2>2. k - y \in T
    BY <2>1
  <2> QED
    BY <1>3, <2>1, <2>2
<1>5. k - t \in S
  BY <1>3
<1> QED
  BY <1>4, <1>5 DEF MaxOf

\* A cycle that drains an event takes every event not delivered yet into its
\* wave.
LEMMA CycleKeeps ==
  ASSUME IInv, NEW s \in Servers, Cycle(s)
  PROVE  IInv'
<1>1. server[s].at = "serving" /\ UNCHANGED <<store, transit, sessions, lease, host, derived>>
      /\ budget' = budget
  BY DEF Cycle
<1>2. TenureFits(server[s], log)
  BY <1>1, Standing DEF IInv
<1>3. server[s] \in ServerStates /\ server[s].wave = {} /\ log \in Seq(Kinds)
      /\ pending \subseteq Events(DOMAIN log) /\ watermark \in Nat
  BY <1>1, <1>2 DEF TenureFits, IInv, TypeOK
<1> DEFINE owed == server[s].scanOwed \/ Events(Drained(s)) # {}
           head == MaxOf({server[s].covered} \cup Drained(s))
           wave == IF owed THEN pending ELSE {}
           at   == IF wave # {} \/ head > watermark THEN "committing" ELSE "serving"
           v    == [server[s] EXCEPT !.feed = {}, !.scanOwed = FALSE, !.covered = head,
                                     !.wave = wave, !.at = at]
<1>4. server' = [server EXCEPT ![s] = v]
  BY DEF Cycle
<1>5. head \in 0..Len(log) /\ head \in Nat
  <2>1. Len(log) \in Nat /\ DOMAIN log \subseteq 0..Len(log)
    BY <1>3
  <2>2. ({server[s].covered} \cup Drained(s)) \in SUBSET (0..Len(log))
    BY <1>2, <2>1 DEF TenureFits, Drained
  <2>3. {server[s].covered} \cup Drained(s) # {}
    OBVIOUS
  <2>4. head \in 0..Len(log)
    BY <2>1, <2>2, <2>3, MaxOfIn
  <2> QED
    BY <2>1, <2>4
<1>6. wave \subseteq Events(DOMAIN log) /\ wave \in SUBSET Nat
  BY <1>3 DEF Events
<1>7. at \in {"serving", "committing"} /\ (at = "serving" => wave = {})
  OBVIOUS
<1>8. \A n \in pending : (owed => n \in wave) /\ (n \in Drained(s) => owed)
  <2>1. ASSUME NEW n \in pending, n \in Drained(s) PROVE owed
    <3>1. n \in Events(Drained(s))
      BY <1>3, <2>1 DEF Events
    <3> QED
      BY <3>1
  <2> QED
    BY <2>1
<1>9. server[s].scanOwed => owed
  OBVIOUS
<1> HIDE DEF owed, head, wave, at
<1>10. /\ v \in ServerStates /\ v.at = at /\ v.feed = {} /\ v.warm = server[s].warm
       /\ v.wave = wave /\ v.scanHead = server[s].scanHead /\ v.covered = head
       /\ v.reason = server[s].reason
  BY <1>3, <1>5, <1>6, <1>7 DEF ServerStates, Stages
<1> HIDE DEF v
<1>11. TenureFits(v, log)
  BY <1>2, <1>5, <1>6, <1>7, <1>10 DEF TenureFits, Events, Building
<1>12. {server[s].at, v.at} \subseteq Serving /\ server[s].at \in Holding /\ v.at \in Holding
  BY <1>1, <1>7, <1>10 DEF Serving, Holding
<1>13. ASSUME NEW n \in pending, Found(n, host, server[s], transit)
       PROVE  Found(n, host, v, transit)
  <2>1. \/ server[s].scanOwed \/ n \in Drained(s)
        \/ n \in transit /\ n > server[s].scanHead
    BY <1>1, <1>3, <1>13 DEF Found, Serving, Leaving, Drained
  <2>2. n \in v.wave \/ (n \in transit /\ n > v.scanHead)
    BY <1>8, <1>9, <1>10, <2>1
  <2> QED
    BY <1>12, <2>2 DEF Found
<1> QED
  BY <1>1, <1>4, <1>11, <1>12, <1>13, BudgetTyped, WorkAlone

\* A wave that lands, with an event rolled back or not: an event that is still
\* not delivered is owed a scan.
LEMMA LandsKeeps ==
  ASSUME IInv, NEW s \in Servers, CommitWave(s) \/ RequeueEvent(s)
  PROVE  IInv'
<1>1. /\ server[s].at = "committing" /\ log' = log /\ lease' = lease
      /\ transit' = transit /\ sessions' = sessions /\ derived' = derived
      /\ watermark' = server[s].covered /\ host' = [host EXCEPT !.failing = FALSE]
  BY DEF CommitWave, RequeueEvent
<1>2. host.space = s /\ Current = server[s]
  BY <1>1, Standing
<1>3. host \in HostStates /\ StoreTyped /\ TenureFits(server[s], log)
  BY <1>2, TypeParts DEF IInv
<1>4. server[s] \in ServerStates /\ server[s].covered \in 0..Len(log)
  BY <1>3 DEF TenureFits
<1>5. Fail \/ budget' = budget
  BY DEF CommitWave, RequeueEvent
<1>6. /\ budget' \in [opens : Nat, failures : Nat, rivalries : Nat]
      /\ budget'.rivalries = budget.rivalries
  BY <1>5, FailIs, BudgetTyped
<1>7. /\ host' \in HostStates /\ host'.space = host.space /\ host'.pending = host.pending
      /\ host'.activating = host.activating /\ host'.checking = host.checking
      /\ host'.closed = host.closed
  BY <1>1, <1>3 DEF HostStates
<1>8. pending' \subseteq pending
  BY DEF CommitWave, RequeueEvent
<1>9. StoreTyped'
  BY <1>1, <1>3, <1>4, <1>6, <1>8, StoreStays DEF StoreTyped
<1>10. PICK owed \in BOOLEAN :
         /\ server' = [server EXCEPT ![s] =
              [server[s] EXCEPT !.at = "serving", !.wave = {}, !.scanOwed = owed]]
         /\ owed \/ pending' = {}
  <2>1. CASE CommitWave(s)
    <3>1. PICK owed \in BOOLEAN :
            owed <=> server[s].scanOwed \/ (pending \ server[s].wave) # {}
      OBVIOUS
    <3>2. server[s].scanOwed \in BOOLEAN
      BY <1>4 DEF ServerStates
    <3>3. owed = (server[s].scanOwed \/ (pending \ server[s].wave) # {})
      BY <3>1, <3>2
    <3>4. server' = [server EXCEPT ![s] =
              [server[s] EXCEPT !.at = "serving", !.wave = {}, !.scanOwed = owed]]
      BY <2>1, <3>3 DEF CommitWave
    <3>5. pending' = pending \ server[s].wave
      BY <2>1 DEF CommitWave
    <3> QED
      BY <3>1, <3>4, <3>5
  <2>2. CASE RequeueEvent(s)
    BY <2>2 DEF RequeueEvent
  <2> QED
    BY <2>1, <2>2
<1> DEFINE v == [server[s] EXCEPT !.at = "serving", !.wave = {}, !.scanOwed = owed]
<1>11. server' = [server EXCEPT ![s] = v]
  BY <1>10
<1>12. /\ v \in ServerStates /\ v.at = "serving" /\ v.feed = server[s].feed
       /\ v.warm = server[s].warm /\ v.wave = {} /\ v.scanOwed = owed
       /\ v.scanHead = server[s].scanHead /\ v.covered = server[s].covered
       /\ v.reason = server[s].reason
  BY <1>4 DEF ServerStates, Stages
<1> HIDE DEF v
<1>13. TenureFits(v, log)
  BY <1>3, <1>12 DEF TenureFits
<1>14. {server[s].at, v.at} \subseteq Serving /\ server[s].at \in Holding /\ v.at \in Holding
  BY <1>1, <1>12 DEF Serving, Holding
<1>15. \A n \in pending' : Found(n, host', v, transit')
  BY <1>10, <1>12 DEF Found, Serving
<1> QED
  BY <1>1, <1>2, <1>6, <1>7, <1>8, <1>9, <1>11, <1>13, <1>14, <1>15, WorkStep

\* A wave that is refused gives its events back as a scan owed.
LEMMA WaveRejectedKeeps ==
  ASSUME IInv, NEW s \in Servers, WaveRejected(s)
  PROVE  IInv'
<1>1. server[s].at = "committing" /\ UNCHANGED <<store, transit, sessions, lease, host, derived>>
  BY DEF WaveRejected
<1>2. TenureFits(server[s], log)
  BY <1>1, Standing DEF IInv
<1>3. server[s] \in ServerStates
  BY <1>2 DEF TenureFits
<1>4. server[s].scanOwed \in BOOLEAN
  BY <1>3 DEF ServerStates
<1>5. PICK owed \in BOOLEAN : owed <=> server[s].scanOwed \/ server[s].wave # {}
  OBVIOUS
<1>6. owed = (server[s].scanOwed \/ server[s].wave # {})
  BY <1>4, <1>5
<1> DEFINE v == [server[s] EXCEPT !.at = "serving", !.wave = {}, !.scanOwed = owed]
<1>7. server' = [server EXCEPT ![s] = v]
  BY <1>6 DEF WaveRejected
<1>8. /\ v \in ServerStates /\ v.at = "serving" /\ v.feed = server[s].feed
      /\ v.warm = server[s].warm /\ v.wave = {} /\ v.scanOwed = owed
      /\ v.scanHead = server[s].scanHead /\ v.covered = server[s].covered
      /\ v.reason = server[s].reason
  BY <1>3 DEF ServerStates, Stages
<1> HIDE DEF v
<1>9. TenureFits(v, log)
  BY <1>2, <1>8 DEF TenureFits
<1>10. {server[s].at, v.at} \subseteq Serving /\ server[s].at \in Holding /\ v.at \in Holding
  BY <1>1, <1>8 DEF Serving, Holding
<1>11. \A n \in pending : Found(n, host, server[s], transit) => Found(n, host, v, transit)
  BY <1>1, <1>5, <1>8 DEF Found, Serving, Leaving
<1>12. /\ budget' \in [opens : Nat, failures : Nat, rivalries : Nat]
       /\ budget'.rivalries = budget.rivalries
  BY FailIs DEF WaveRejected
<1> QED
  BY <1>1, <1>7, <1>9, <1>10, <1>11, <1>12, WorkAlone

-----------------------------------------------------------------------------
(* Close                                                                   *)

\* The close parks what serves; nothing is being activated then.
LEMMA CloseParksKeeps ==
  ASSUME IInv, CloseParks
  PROVE  IInv'
<1>1. /\ host.closed = "draining" /\ host.activating.at = "none"
      /\ host' = [host EXCEPT !.closed = "parking"]
      /\ log' = log /\ lease' = lease /\ budget' = budget
  BY DEF CloseParks, Activating, store
<1>2. host \in HostStates /\ host.pending \subseteq DOMAIN log /\ HostFits(host, Current)
  BY TypeParts DEF IInv
<1>3. /\ host' \in HostStates /\ host'.space = host.space /\ host'.pending = host.pending
      /\ host'.activating = host.activating /\ host'.checking = host.checking
      /\ host'.closed = "parking"
  BY <1>1, <1>2 DEF HostStates
<1>4. StoreTyped'
  BY <1>1, BudgetTyped, StoreUnchanged DEF CloseParks
<1>5. CASE Active(host.space)
  <2>1. PICK s \in Servers : s = host.space
    BY <1>2, <1>5 DEF Active, Is, HostStates
  <2>2. server[s].at \in Holding
    BY <1>5, <2>1 DEF Active, Is, Holding
  <2>3. PICK r \in Reasons : r = "host-closed"
    BY DEF Reasons
  <2>4. server' = [server EXCEPT ![s] = StartPark(s, r)]
    BY <1>5, <2>1, <2>3 DEF CloseParks
  <2>5. r = "space-deleted" => Deleted
    BY <2>3
  <2> QED
    BY <1>1, <1>2, <1>3, <1>4, <2>2, <2>4, <2>5, ParkStep
<1>6. CASE ~ Active(host.space)
  <2>1. server' = server
    BY <1>6 DEF CloseParks
  <2>2. HostFits(host', Current)
    BY <1>1, <1>2, <1>3 DEF HostFits
  <2>3. LeaseFits(lease', Current, budget')
    BY <1>1 DEF IInv
  <2>4. Excused(log, host', budget')
    BY <1>3 DEF Excused
  <2> QED
    BY <1>1, <1>2, <1>3, <1>4, <2>1, <2>2, <2>3, <2>4, HostStep
<1> QED
  BY <1>5, <1>6

\* The close returns once none is registered.
LEMMA CloseReturnsKeeps ==
  ASSUME IInv, CloseReturns
  PROVE  IInv'
<1>1. /\ host.closed = "parking" /\ host.space = NoServer
      /\ host' = [host EXCEPT !.closed = "closed", !.pending = {}]
      /\ log' = log /\ lease' = lease /\ budget' = budget /\ server' = server
  BY DEF CloseReturns, store
<1>2. host \in HostStates /\ HostFits(host, Current)
  BY TypeParts DEF IInv
<1>3. /\ host' \in HostStates /\ host'.space = host.space /\ host'.pending = {}
      /\ host'.activating = host.activating /\ host'.checking = host.checking
      /\ host'.closed = "closed"
  BY <1>1, <1>2 DEF HostStates
<1>4. StoreTyped'
  BY <1>1, BudgetTyped, StoreUnchanged DEF CloseReturns
<1>5. HostFits(host', Current)
  BY <1>1, <1>2, <1>3 DEF HostFits
<1>6. LeaseFits(lease', Current, budget') /\ Excused(log, host', budget')
  BY <1>1, <1>3 DEF IInv, Excused
<1> QED
  BY <1>1, <1>3, <1>4, <1>5, <1>6, HostStep

-----------------------------------------------------------------------------
(* Admission notices                                                       *)

\* The host's record with one more commit buffered.
LEMMA BufferIs ==
  ASSUME NEW h \in HostStates, h.pending \subseteq DOMAIN log, DOMAIN log \subseteq Nat,
         NEW n \in DOMAIN log
  PROVE  /\ Buffer(h, n) \in HostStates /\ Buffer(h, n).pending \subseteq DOMAIN log
         /\ Buffer(h, n).space = h.space /\ Buffer(h, n).activating = h.activating
         /\ Buffer(h, n).closed = h.closed /\ Buffer(h, n).checking = h.checking
<1>1. PICK p \in SUBSET Nat : p = h.pending \cup {n}
  OBVIOUS
<1>2. Buffer(h, n) = [h EXCEPT !.pending = p]
  BY <1>1 DEF Buffer
<1> QED
  BY <1>1, <1>2 DEF HostStates

\* A notice to a tenure: it enqueues the commit, parks for the deletion it
\* tells of, or is on its way out and leaves the event to the re-evaluation.
LEMMA NoticeToTenure ==
  ASSUME IInv, NEW n \in transit, Notice(n), host.space # NoServer
  PROVE  IInv'
<1>1. PICK s \in Servers : s = host.space
  BY RegisteredStands
<1>2. Current = server[s] /\ server[s].at # "none" /\ s # NoServer
  BY <1>1, RegisteredStands, HostAssumption
<1>3. host \in HostStates /\ host.pending \subseteq DOMAIN log /\ StoreTyped
      /\ HostFits(host, server[s]) /\ TenureFits(server[s], log)
  BY <1>2, TypeParts DEF IInv
<1>4. n \in DOMAIN log /\ DOMAIN log \subseteq Nat /\ server[s] \in ServerStates
  BY <1>3 DEF StoreTyped, TenureFits
<1>5. /\ log' = log /\ lease' = lease /\ budget' = budget /\ pending' = pending
      /\ transit' = transit \ {n} /\ host.closed = "open"
      /\ watermark' = watermark /\ sessions' = sessions /\ derived' = derived
  BY DEF Notice, store
<1>6. StoreTyped'
  BY <1>3, <1>5, StoreStays DEF StoreTyped
<1>7. CASE log[n] = "delete" /\ Active(s)
  <2>1. NoteAclChanged(n) = [server EXCEPT ![s] = StartPark(s, "space-deleted")]
    BY <1>1, <1>7 DEF NoteAclChanged
  <2>2. NoteAclChanged(n)[s].at = "parking"
    <3>1. PICK r \in Reasons : r = "space-deleted"
      BY DEF Reasons
    <3>2. Deleted
      BY <1>4, <1>7 DEF Deleted, Range
    <3>3. StartPark(s, r).at = "parking"
      BY <1>3, <3>1, <3>2, StartParkFits
    <3>4. NoteAclChanged(n)[s] = StartPark(s, r)
      BY <2>1, <3>1 DEF IInv, TypeOK
    <3> QED
      BY <3>3, <3>4
  <2>3. ~ Activating(host)
    BY <1>2, <1>3, <1>7 DEF HostFits, HostStates, Activating, Active, Is, Building, Leaving
  <2>4. server' = NoteAclChanged(n) /\ host' = host
    BY <1>1, <1>2, <1>7, <2>2, <2>3 DEF Notice
  <2>5. PICK r \in Reasons : r = "space-deleted"
    BY DEF Reasons
  <2>6. Deleted
    BY <1>4, <1>7 DEF Deleted, Range
  <2>7. server[s].at \in Holding
    BY <1>7 DEF Active, Is, Holding
  <2>8. server' = [server EXCEPT ![s] = StartPark(s, r)]
    BY <2>1, <2>4, <2>5
  <2> QED
    BY <1>3, <1>5, <1>6, <2>4, <2>6, <2>7, <2>8, ParkStep
<1>8. CASE ~ (log[n] = "delete" /\ Active(s))
  <2>1. NoteAclChanged(n) = server
    BY <1>1, <1>8 DEF NoteAclChanged
  <2>2. CASE Active(s) \/ Activating(host)
    <3> DEFINE v == Enqueue(server[s], n)
    <3>1. server' = [server EXCEPT ![s] = v] /\ host' = host
      BY <1>1, <1>2, <2>1, <2>2 DEF Notice, Active, Is
    <3>2. PICK f \in SUBSET Nat : f = server[s].feed \cup {n}
      BY <1>4 DEF ServerStates
    <3>3. PICK w \in SUBSET Nat :
            w = server[s].warm \cup (IF log[n] = "warm" THEN {n} ELSE {})
      BY <1>4 DEF ServerStates
    <3>4. v = [server[s] EXCEPT !.feed = f, !.warm = w]
      BY <3>2, <3>3 DEF Enqueue
    <3>5. /\ v \in ServerStates /\ v.at = server[s].at /\ v.feed = f /\ v.warm = w
          /\ v.wave = server[s].wave /\ v.scanHead = server[s].scanHead
          /\ v.covered = server[s].covered /\ v.reason = server[s].reason
          /\ v.scanOwed = server[s].scanOwed
      BY <1>4, <3>4 DEF ServerStates
    <3> HIDE DEF v
    <3>6. f \cup w \subseteq DOMAIN log
      BY <1>3, <1>4, <3>2, <3>3 DEF TenureFits
    <3>7. TenureFits(v, log)
      BY <1>3, <3>5, <3>6 DEF TenureFits
    <3>8. ASSUME NEW m \in pending', Found(m, host, server[s], transit)
          PROVE  Found(m, host', v, transit')
      <4>1. CASE m = n
        BY <1>2, <3>1, <3>2, <3>5, <3>8, <4>1 DEF Found
      <4>2. CASE m # n
        BY <1>2, <1>5, <3>1, <3>2, <3>5, <3>8, <4>2 DEF Found
      <4> QED
        BY <4>1, <4>2
    <3> QED
      BY <1>1, <1>3, <1>5, <1>6, <3>1, <3>5, <3>7, <3>8, WorkStep
  <2>3. CASE ~ (Active(s) \/ Activating(host))
    <3>1. server' = server /\ host' = IF log[n] = "warm" THEN Buffer(host, n) ELSE host
      BY <1>1, <1>2, <2>1, <2>3 DEF Notice, Active, Is
    <3>2. /\ host' \in HostStates /\ host'.pending \subseteq DOMAIN log
          /\ host'.space = host.space /\ host'.activating = host.activating
          /\ host'.closed = host.closed /\ host'.checking = host.checking
      BY <1>3, <1>4, <3>1, BufferIs
    <3>3. server[s].at \in Leaving
      BY <1>2, <1>3, <2>3 DEF HostFits, Active, Is, Activating, Serving
    <3>4. \A m \in pending' : Found(m, host', Current, transit')
      BY <1>2, <3>3 DEF Found
    <3>5. HostFits(host', Current) /\ LeaseFits(lease', Current, budget')
      BY <1>2, <1>3, <1>5, <3>2 DEF HostFits, IInv
    <3> QED
      BY <1>5, <1>6, <3>1, <3>2, <3>4, <3>5, HostStep
  <2> QED
    BY <2>2, <2>3
<1> QED
  BY <1>7, <1>8

\* A notice with none registered is buffered for the activation in flight,
\* starts one, or tells of nothing that asks for one.
LEMMA NoticeToHost ==
  ASSUME IInv, NEW n \in transit, Notice(n), host.space = NoServer
  PROVE  IInv'
<1>1. /\ Current = Gone /\ host \in HostStates /\ host.pending \subseteq DOMAIN log
      /\ HostFits(host, Gone) /\ Gone.at = "none" /\ StoreTyped
  BY IdleHost, TypeParts DEF Gone, IInv
<1>2. n \in DOMAIN log /\ DOMAIN log \subseteq Nat
  BY <1>1 DEF StoreTyped
<1>3. /\ log' = log /\ lease' = lease /\ budget' = budget /\ pending' = pending
      /\ transit' = transit \ {n} /\ host.closed = "open"
      /\ watermark' = watermark /\ sessions' = sessions /\ derived' = derived
  BY DEF Notice, store
<1>4. StoreTyped'
  BY <1>1, <1>3, StoreStays DEF StoreTyped
<1>5. server' = server
  BY DEF Notice
<1> DEFINE b == Buffer(host, n)
<1>6. /\ b \in HostStates /\ b.pending \subseteq DOMAIN log /\ b.space = host.space
      /\ b.activating = host.activating /\ b.closed = host.closed
      /\ b.checking = host.checking
  BY <1>1, <1>2, BufferIs
<1>7. HostFits(b, Gone)
  BY <1>1, <1>6 DEF HostFits
<1>8. CASE Activating(host)
  <2>1. host' = b
    BY <1>8 DEF Notice
  <2>2. b.activating.at \in {"backoff", "opening"}
    BY <1>1, <1>6, <1>8 DEF HostFits, HostStates, Activating, Building, Leaving
  <2> HIDE DEF b
  <2> QED
    BY <1>3, <1>4, <1>5, <1>6, <1>7, <2>1, <2>2, IdleStep
<1>9. CASE ~ Activating(host) /\ MeetsCriteria(n)
  <2> DEFINE h == Activate(b)
  <2>1. host' = h
    BY <1>9 DEF Notice
  <2> HIDE DEF b
  <2>2. /\ h \in HostStates /\ h.pending = b.pending /\ HostFits(h, Gone)
        /\ b.closed = "open" => h.activating.at \in {"backoff", "opening"}
    BY <1>6, <1>7, ActivateIdle
  <2> HIDE DEF h
  <2>3. h.activating.at \in {"backoff", "opening"}
    BY <1>3, <1>6, <2>2
  <2> QED
    BY <1>3, <1>4, <1>5, <1>6, <2>1, <2>2, <2>3, IdleStep
<1>10. CASE ~ Activating(host) /\ ~ MeetsCriteria(n)
  <2>1. host' = host
    BY <1>10 DEF Notice
  <2>2. n \notin pending
    BY <1>1, <1>10 DEF MeetsCriteria, StoreTyped, Events
  <2>3. HostFits(host', Current) /\ LeaseFits(lease', Current, budget')
    BY <1>3, <2>1 DEF IInv
  <2>4. \A m \in pending : Found(m, host, Current, transit) => Found(m, host, Current, transit')
    BY <1>1, <1>3, <2>2 DEF Found
  <2>5. \/ Excused(log, host', budget')
        \/ \A m \in pending' : Found(m, host', Current, transit')
    BY <1>3, <2>1, <2>4 DEF IInv, EventsFound
  <2> QED
    BY <1>1, <1>3, <1>4, <1>5, <2>1, <2>3, <2>5, HostStep
<1> QED
  BY <1>8, <1>9, <1>10

-----------------------------------------------------------------------------
(* The theorems                                                            *)

\* The invariant holds of a fresh host over an empty store.
LEMMA InitKeeps ==
  ASSUME Init
  PROVE  IInv
<1> USE DEF Init
<1>1. log = <<>> /\ log \in Seq(Kinds) /\ Len(log) = 0 /\ DOMAIN log = {}
  OBVIOUS
<1>2. Gone \in ServerStates /\ Gone.at = "none" /\ TenureFits(Gone, log)
  BY <1>1, GoneFits
<1>3. Current = Gone
  BY DEF Current
<1>4. NoActivation \in [at : {"none", "backoff", "opening", "activating"},
                        server : Servers \cup {NoServer}]
  BY DEF NoActivation
<1>5. host \in HostStates /\ host.pending = {}
  BY <1>4 DEF HostStates
<1>6. \A m \in {MaxOpens, MaxFailures, MaxRivalries} : m \in Nat
  BY HostAssumption
<1>7. budget \in [opens : Nat, failures : Nat, rivalries : Nat]
  BY <1>6
<1>8. watermark \in 0..Len(log)
  BY <1>1
<1>9. server \in [Servers -> ServerStates] /\ Alone
  BY <1>2 DEF Alone
<1>10. \A s \in Servers : server[s] = Gone
  OBVIOUS
<1>11. TypeOK
  <2>1. \A s \in Servers : /\ server[s].feed \cup server[s].warm \subseteq DOMAIN log
                           /\ server[s].wave \subseteq Events(DOMAIN log)
                           /\ {server[s].scanHead, server[s].covered} \subseteq 0..Len(log)
    BY <1>2, <1>10 DEF TenureFits, Events
  <2> QED
    BY <1>1, <1>5, <1>7, <1>8, <1>9, <2>1 DEF TypeOK
<1>12. HostFits(host, Gone)
  BY <1>2 DEF HostFits, NoActivation
<1>13. LeaseFits(lease, Gone, budget)
  BY <1>2, <1>6 DEF LeaseFits, Holding
<1>14. EventsFound
  BY DEF EventsFound
<1> QED
  BY <1>2, <1>3, <1>9, <1>11, <1>12, <1>13, <1>14 DEF IInv

\* Every step keeps the invariant.
LEMMA NextKeeps ==
  ASSUME IInv, [Next]_vars
  PROVE  IInv'
<1>1. CASE UNCHANGED vars
  BY <1>1 DEF vars, IInv, TypeOK, Events, Alone, Current, EventsFound
<1>2. CASE Activation
  <2>1. ASSUME NEW s \in Servers, Acquire(s) \/ ReadHead(s) \/ Scan(s) \/ BecomeActive(s)
        PROVE  IInv'
    BY <2>1, AcquireKeeps, ReadHeadKeeps, ScanKeeps, BecomeActiveKeeps
  <2> QED
    BY <1>2, <2>1, BackoffKeeps, RegisterKeeps, CheckKeeps DEF Activation
<1>3. CASE Loop
  BY <1>3, CycleKeeps, LandsKeeps, ParksKeep DEF Loop
<1>4. CASE Parking
  BY <1>4, ReleaseKeeps, FinishParkKeeps DEF Parking
<1>5. CASE Closing
  BY <1>5, CloseParksKeeps, CloseReturnsKeeps DEF Closing
<1>6. CASE \E n \in transit : Notice(n)
  BY <1>6, NoticeToTenure, NoticeToHost
<1>7. CASE Environment
  <2>1. ASSUME NEW s \in Servers,
               \/ InitializeFails(s) \/ RequeueEvent(s) \/ WaveRejected(s)
               \/ LoopFails(s) \/ InFlightLands(s)
        PROVE  IInv'
    BY <2>1, ParksKeep, LandsKeeps, WaveRejectedKeeps, InFlightLandsKeeps
  <2>2. ASSUME NEW k \in Kinds, Admit(k) PROVE IInv'
    BY <2>2, AdmitKeeps
  <2> QED
    BY <1>7, <2>1, <2>2, OpenSessionKeeps, CloseSessionKeeps, RivalKeeps, CloseKeeps,
       ActivationThrowsKeeps, CheckKeeps DEF Environment
<1> QED
  BY <1>1, <1>2, <1>3, <1>4, <1>5, <1>6, <1>7 DEF Next, Progress

\* The inductive invariant holds in every reachable state: at most one
\* SpaceServer stands and it is the one the host feeds, the lease is held
\* exactly while that tenure may write, and what will find each event is known.
THEOREM Invariance == Spec => []IInv
<1>1. Init => IInv
  BY InitKeeps
<1>2. IInv /\ [Next]_vars => IInv'
  BY NextKeeps
<1> QED
  BY <1>1, <1>2, PTL DEF Spec

\* The host's and the tenures' records always have their type: no tenure's
\* scan head, covered seq or the stored watermark ever passes the log's end.
THEOREM TypeCorrect == Spec => []TypeOK
<1>1. IInv => TypeOK
  BY DEF IInv
<1> QED
  BY <1>1, Invariance, PTL

\* A tenure serves only under the lease and as the registered one, however
\* parks, activations, failures and a rival's turns overlap (`#activate`,
\* `#reactivateAfterPark`, SpaceServer.activate).
THEOREM ServedUnderLease == Spec => []ServesUnderLease
<1>1. ASSUME IInv PROVE ServesUnderLease
  <2>1. ASSUME NEW s \in Servers, Active(s) PROVE lease = "own" /\ host.space = s
    <3>1. server[s].at \in {"serving", "committing"}
      BY <2>1 DEF Active, Is
    <3>2. host.space = s /\ Current = server[s]
      BY <1>1, <3>1, Standing
    <3> QED
      BY <1>1, <3>1, <3>2 DEF IInv, LeaseFits, Holding
  <2> QED
    BY <2>1 DEF ServesUnderLease
<1> QED
  BY <1>1, Invariance, PTL

\* Once close has returned, no tenure stands and the host does not hold the
\* lease, whatever was in flight when it began (`#closeInner`).
THEOREM CloseQuiets == Spec => []ClosedIsQuiet
<1>1. ASSUME IInv, host.closed = "closed"
      PROVE  lease # "own" /\ \A s \in Servers : server[s].at = "none"
  <2>1. Current.at = "none"
    BY <1>1 DEF IInv, HostFits
  <2>2. lease # "own"
    BY <1>1, <2>1 DEF IInv, LeaseFits, Holding
  <2>3. host.space = NoServer
    BY <1>1, <2>1, NoneRegistered
  <2>4. \A s \in Servers : server[s].at = "none"
    BY <1>1, <2>3, HostAssumption DEF IInv, Alone, Gone
  <2> QED
    BY <2>2, <2>4
<1>2. IInv => ClosedIsQuiet
  BY <1>1 DEF ClosedIsQuiet
<1> QED
  BY <1>2, Invariance, PTL

\* No event is left with nothing that will find it: the activation's scan, the
\* feed's filter at the scan head, the drain, the requeue of a refused wave and
\* the re-evaluation after a park leave no window between them.
THEOREM EventsReachable == Spec => []EventReachable
<1>1. ASSUME IInv, NEW n \in pending, ~ Deleted, host.closed = "open",
             ~ (budget.rivalries < MaxRivalries)
      PROVE  Reachable(n)
  <2>1. Found(n, host, Current, transit)
    BY <1>1 DEF IInv, EventsFound, Excused, Deleted
  <2>2. CASE host.space = NoServer
    <3>1. Current.at = "none"
      BY <2>2 DEF Current, Gone
    <3> QED
      BY <2>1, <3>1 DEF Found, Reachable, Serving, Leaving
  <2>3. CASE host.space # NoServer
    <3>1. Current = server[host.space] /\ Current.at # "none"
      BY <1>1, <2>3, RegisteredStands
    <3> QED
      BY <2>1, <2>3, <3>1 DEF Found, Reachable, Serving, Leaving, Is, Drained
  <2> QED
    BY <2>2, <2>3
<1>2. IInv => EventReachable
  BY <1>1 DEF EventReachable
<1> QED
  BY <1>2, Invariance, PTL
=============================================================================
