---------------------------- MODULE EventDelivery ----------------------------
(***************************************************************************)
(* How an event reaches its stream and its handler.                        *)
(*                                                                         *)
(* A client's fire waits in a queue that sends one append at a time and    *)
(* sends again whatever got no answer (storage/event-append-queue.ts, used *)
(* by storage/v2.ts).  A handler's event for another space is a row that   *)
(* commits with its wave and is deleted once the target has taken it       *)
(* (memory/v2/execution-outbox.ts, executor/outbox.ts).  Both deliver at   *)
(* least once.  The target's stream makes the consequences happen once:    *)
(* admission refuses an event id that stands above the stream's watermark  *)
(* (engine.ts, validateEventAppends), and the drain of the space's serving *)
(* loop skips what was admitted again below it (space-server.ts).          *)
(*                                                                         *)
(* An attempt whose answer was lost may still be applied later.            *)
(***************************************************************************)
EXTENDS Naturals, Sequences, FiniteSets, SequencesExt

CONSTANTS
  ClientIds,     \* event ids the client fires
  RowIds,        \* event ids emitted across spaces
  Refusable,     \* ids the target refuses deterministically
  Sourceless,    \* rows whose refusal may find no entry of a source event
  Streams,
  StreamOf,      \* the stream of each id
  MaxFaults,     \* bound on lost answers, stopped drains, parks, requeues
  MayDeny,       \* whether the target's access list changes
  MayReplace,    \* whether the client's replica is replaced
  ReplaceEarly   \* whether that may fall before the queue's last save

Ids == ClientIds \cup RowIds

ASSUME DeliveryAssumption ==
  /\ ClientIds \cap RowIds = {} /\ Refusable \subseteq Ids /\ Sourceless \subseteq RowIds
  /\ StreamOf \in [Ids -> Streams]
  /\ MaxFaults \in Nat
  /\ {MayDeny, MayReplace, ReplaceEarly} \subseteq BOOLEAN

VARIABLES
  log,       \* per stream, its document: the entries and the watermark
  seq,       \* the target store's head
  denied,    \* whether the access list denies the client
  effects,   \* per id, how many committed handler runs it has had
  staged,    \* what the serving loop's open wave does with which entries
  fires,     \* the ids the client fired, in order
  outcome,   \* per id, what its firer was told
  queue,     \* per replica, the client's append queue
  route,     \* the replica in use, and whether it sent anything
  saved,     \* the manager's store of queued appends
  attempt,   \* the client's append in flight
  late,      \* per id, attempts without answer the target may still apply
  rows,      \* the outbox table
  emitted,   \* every id a row was written for, in order
  sourced,   \* those whose source event has an entry for a notice to stand on
  drains,    \* the tenure's outbox drain, and one its predecessor left
  noticed,   \* ids whose refusal is on their source event
  warned,    \* ids whose refusal only the source's log shows
  faults     \* what is left of MaxFaults

stream == <<log, seq, denied>>
serving == <<effects, staged>>
client == <<fires, outcome, queue, route, saved, attempt>>
outbox == <<rows, emitted, sourced, drains, noticed, warned>>
vars == <<stream, serving, client, late, outbox, faults>>

Fault == faults > 0 /\ faults' = faults - 1

NoAttempt == [at |-> "idle", id |-> "none", answer |-> "none"]
EmptyQueue == [arriving |-> <<>>, entries |-> <<>>, saving |-> FALSE, closed |-> FALSE]
NoDrain == [at |-> "none", left |-> <<>>]

Init ==
  /\ log = [s \in Streams |-> [entries |-> <<>>, mark |-> 0]]
  /\ seq = 0 /\ denied = FALSE
  /\ effects = [id \in Ids |-> 0] /\ staged = {}
  /\ fires = <<>> /\ outcome = [id \in ClientIds |-> "unfired"]
  /\ queue = [r \in 1..2 |-> EmptyQueue]
  /\ route = [cur |-> 1, issued |-> FALSE] /\ saved = <<>>
  /\ attempt = NoAttempt
  /\ late = [id \in Ids |-> 0]
  /\ rows = <<>> /\ emitted = <<>> /\ sourced = {}
  /\ drains = [d \in {"own", "left"} |-> NoDrain]
  /\ noticed = {} /\ warned = {}
  /\ faults = MaxFaults

\* s without id, which stands in it once at most.
Without(s, id) ==
  IF id \in Range(s) THEN RemoveAt(s, CHOOSE i \in DOMAIN s : s[i] = id) ELSE s

-----------------------------------------------------------------------------
(* The target's stream document                                            *)

Entries(s) == Range(log[s].entries)
Logged(id) == \E e \in Entries(StreamOf[id]) : e.id = id

\* The dedupe horizon: an id stands once among the entries above the watermark.
Duplicate(id) ==
  \E e \in Entries(StreamOf[id]) : e.id = id /\ e.seq > log[StreamOf[id]].mark

\* What admission answers: authority first, then the declaration, then the id.
Verdict(id) ==
  IF (id \in ClientIds /\ denied) \/ id \in Refusable THEN "refused"
  ELSE IF Duplicate(id) THEN "duplicate" ELSE "ok"

\* Admission of one append, with what it leaves in the store.
Admit(id) ==
  /\ denied' = denied
  /\ IF Verdict(id) = "ok"
     THEN /\ seq' = seq + 1
          /\ log' = [log EXCEPT ![StreamOf[id]].entries =
                       Append(@, [id |-> id, seq |-> seq + 1, done |-> FALSE])]
     ELSE UNCHANGED <<log, seq>>

AclChanges ==
  /\ MayDeny /\ Fault
  /\ denied' = ~ denied
  /\ UNCHANGED <<log, seq, serving, client, late, outbox>>

\* An attempt nobody waits for any more is applied.
LateApplies(id) ==
  /\ late[id] > 0
  /\ late' = [late EXCEPT ![id] = @ - 1]
  /\ Admit(id)
  /\ UNCHANGED <<serving, client, outbox, faults>>

\* An answer is lost: the target applied the attempt, may yet, or never will.
LosesAnswer(id) == late' \in {late, [late EXCEPT ![id] = @ + 1]}

-----------------------------------------------------------------------------
(* The serving loop of the target space                                    *)

\* Mutant: the watermark is the newest entry that had its consequences.
FrontierNewest(doc) ==
  Max({doc.mark} \cup {e.seq : e \in {x \in Range(doc.entries) : x.done}})

\* `maintainStreamEventWatermarks`: the end of the run of entries above the
\* watermark that all had their consequences.
Frontier(doc) ==
  LET above == {e \in Range(doc.entries) : e.seq > doc.mark}
      Clear(n) == \A e \in above : e.seq <= n => e.done
  IN  Max({doc.mark} \cup {n \in {e.seq : e \in above} : Clear(n)})

\* `selectPendingStreamEventDocs`
Pending == {e \in UNION {Entries(s) : s \in Streams} :
              ~ e.done /\ e.seq > log[StreamOf[e.id]].mark}

InFlight == {w.seq : w \in staged}

\* Mutant: every pending entry runs its handler.
SkipsNone(e) == FALSE

\* A twin of the entry already had its consequences.
Skips(e) == \E x \in Entries(StreamOf[e.id]) : x.id = e.id /\ x.done /\ x.seq # e.seq

\* `#drainStreamEvents`: entries not in flight join the open wave in arrival
\* order.  A pass that defers at an entry stops there.
Drain(n) ==
  /\ \E e \in Pending : e.seq = n /\ n \notin InFlight
  /\ staged' = staged \cup
       {[seq |-> e.seq, id |-> e.id, run |-> ~ Skips(e)] :
          e \in {x \in Pending : x.seq <= n /\ x.seq \notin InFlight}}
  /\ UNCHANGED <<stream, effects, client, late, outbox, faults>>

\* One transaction carries the marks, the consequences and the watermarks.  An
\* event whose reads went stale is requeued whole.
CommitWave(kept) ==
  /\ kept # {} /\ kept \subseteq staged
  /\ IF kept = staged THEN UNCHANGED faults ELSE Fault
  /\ LET Mark(e) == [e EXCEPT !.done = @ \/ \E w \in kept : w.seq = e.seq]
         Marked(s) == [i \in DOMAIN log[s].entries |-> Mark(log[s].entries[i])]
     IN  log' = [s \in Streams |->
                   [entries |-> Marked(s),
                    mark |-> Frontier([entries |-> Marked(s), mark |-> log[s].mark])]]
  /\ effects' = [id \in Ids |-> effects[id] + Cardinality({w \in kept : w.id = id /\ w.run})]
  /\ seq' = seq + 1
  /\ staged' = {}
  /\ UNCHANGED <<denied, client, late, outbox>>

\* The target's tenure ends with its wave uncommitted.
TargetParks ==
  /\ staged # {} /\ Fault
  /\ staged' = {}
  /\ UNCHANGED <<stream, effects, client, late, outbox>>

-----------------------------------------------------------------------------
(* The client's queue                                                      *)

\* A firer whose queue closed under it is told nothing more; a refusal of its
\* entry by the successor is only logged.
Tell(id, what) ==
  outcome' = [outcome EXCEPT ![id] =
                IF @ = "open" THEN what ELSE IF what = "refused" THEN "dropped" ELSE @]

\* `enqueue` returns a promise; the entry joins the queue a turn later.
Fire(id) ==
  /\ id \in ClientIds /\ outcome[id] = "unfired"
  /\ fires' = Append(fires, id)
  /\ outcome' = [outcome EXCEPT ![id] = "open"]
  /\ queue' = [queue EXCEPT ![route.cur].arriving = Append(@, id)]
  /\ UNCHANGED <<stream, serving, route, saved, attempt, late, outbox, faults>>

\* The entry joins the queue and a save is chained.  A queue closed meanwhile
\* settles the firer's promise and keeps the entry.
Push(r) ==
  /\ queue[r].arriving # <<>>
  /\ LET id == Head(queue[r].arriving)
     IN  /\ queue' = [queue EXCEPT ![r].arriving = Tail(@), ![r].saving = TRUE,
                                   ![r].entries = Append(@, id)]
         /\ IF queue[r].closed THEN Tell(id, "closed") ELSE UNCHANGED outcome
  /\ UNCHANGED <<stream, serving, fires, route, saved, attempt, late, outbox, faults>>

\* `#persist`: the chained save writes the queue as it then stands.
Save(r) ==
  /\ queue[r].saving
  /\ saved' = queue[r].entries
  /\ queue' = [queue EXCEPT ![r].saving = FALSE]
  /\ UNCHANGED <<stream, serving, fires, outcome, route, attempt, late, outbox, faults>>

\* Mutant: any entry may be sent.
SendableAny(id) == id \in Range(queue[route.cur].entries)

\* `#nextSendable`: the earliest entry whose stream has a token, so the first
\* of any stream.
Sendable(id) ==
  LET q == queue[route.cur].entries
  IN  \E i \in DOMAIN q : q[i] = id /\ \A j \in 1..(i - 1) : StreamOf[q[j]] # StreamOf[id]

\* `#drain`: one append is in flight at a time.
Send(id) ==
  /\ attempt.at = "idle" /\ Sendable(id)
  /\ attempt' = [at |-> "sent", id |-> id, answer |-> "none"]
  /\ route' = [route EXCEPT !.issued = TRUE]
  /\ UNCHANGED <<stream, serving, fires, outcome, queue, saved, late, outbox, faults>>

ServerAnswers ==
  /\ attempt.at = "sent" /\ attempt.answer = "none"
  /\ Admit(attempt.id)
  /\ attempt' = [attempt EXCEPT !.answer = Verdict(attempt.id)]
  /\ UNCHANGED <<serving, fires, outcome, queue, route, saved, late, outbox, faults>>

\* `#settle`: accepted, or a duplicate, is delivered; a refusal is told.
Settle ==
  /\ attempt.answer # "none"
  /\ attempt' = NoAttempt
  /\ queue' = [queue EXCEPT ![route.cur].entries = Without(@, attempt.id), ![route.cur].saving = TRUE]
  /\ Tell(attempt.id, IF attempt.answer = "refused" THEN "refused" ELSE "delivered")
  /\ UNCHANGED <<stream, serving, fires, route, saved, late, outbox, faults>>

\* The connection dies, or the session is replaced, with the append out: the
\* entry stays where it is, and is sent again after a delay.
ConnectionFails ==
  /\ attempt.at = "sent" /\ Fault
  /\ attempt' = NoAttempt
  /\ IF attempt.answer = "none" THEN LosesAnswer(attempt.id) ELSE UNCHANGED late
  /\ UNCHANGED <<stream, serving, fires, outcome, queue, route, saved, outbox>>

\* Mutant: the successor's queue starts empty.
LoadNothing == <<>>

\* The successor's queue starts from what the manager's store holds.
Load == saved

\* `replaceProvisionalReplica`, while the route has issued nothing: the
\* successor reads the store as it is built, and the predecessor's queue
\* closes, which settles its firers' promises.
Replace ==
  /\ MayReplace /\ route = [cur |-> 1, issued |-> FALSE]
  /\ ReplaceEarly \/ (queue[1].arriving = <<>> /\ ~ queue[1].saving)
  /\ route' = [route EXCEPT !.cur = 2]
  /\ queue' = [queue EXCEPT ![1].closed = TRUE, ![2].entries = Load]
  /\ outcome' = [id \in ClientIds |->
                   IF id \in Range(queue[1].entries) /\ outcome[id] = "open" THEN "closed"
                   ELSE outcome[id]]
  /\ UNCHANGED <<stream, serving, fires, saved, attempt, late, outbox, faults>>

-----------------------------------------------------------------------------
(* The outbox of another space                                             *)

\* A wave of the source commits with the rows of the events it emits.  A row
\* names the event whose handler emitted it, or none did (a derivation's).
EmitRow(id) ==
  /\ id \in RowIds /\ id \notin Range(emitted)
  /\ sourced' = sourced \cup {id} \/ (sourced' = sourced /\ id \in Sourceless)
  /\ rows' = Append(rows, id) /\ emitted' = Append(emitted, id)
  /\ UNCHANGED <<stream, serving, client, late, drains, noticed, warned, faults>>

Rest(d) == Tail(drains[d].left)

\* A tenure drains the table as it stands, when it starts and after a wave.
StartDrain ==
  /\ drains["own"] = NoDrain /\ rows # <<>>
  /\ drains' = [drains EXCEPT !["own"] = [at |-> "send", left |-> rows]]
  /\ UNCHANGED <<stream, serving, client, late, rows, emitted, sourced, noticed, warned, faults>>

\* Mutant: a refused row is deleted without a notice.
SendRowUnnoticed(d) ==
  /\ drains[d].at = "send"
  /\ Admit(Head(drains[d].left))
  /\ drains' = [drains EXCEPT ![d].at = "delete"]
  /\ UNCHANGED <<serving, client, late, rows, emitted, sourced, noticed, warned, faults>>

\* `deliverPendingAppends`: the target answers the row's append.
SendRow(d) ==
  /\ drains[d].at = "send"
  /\ LET id == Head(drains[d].left)
     IN  /\ Admit(id)
         /\ drains' = [drains EXCEPT ![d].at =
                         IF Verdict(id) = "refused" THEN "notice" ELSE "delete"]
  /\ UNCHANGED <<serving, client, late, rows, emitted, sourced, noticed, warned, faults>>

\* `#writeDeliveryFailureNotice`: the refusal is written on the source event's
\* entry before the row goes.  Where no event is the source of a row, where its
\* entry was compacted away and in an outbox that knows no space, there is
\* nothing to write it on, and the row goes all the same.
WriteNotice(d) ==
  /\ drains[d].at = "notice"
  /\ LET id == Head(drains[d].left)
     IN  IF id \in sourced
         THEN noticed' = noticed \cup {id} /\ UNCHANGED warned
         ELSE warned' = warned \cup {id} /\ UNCHANGED noticed
  /\ drains' = [drains EXCEPT ![d].at = "delete"]
  /\ UNCHANGED <<stream, serving, client, late, rows, emitted, sourced, faults>>

DeleteRow(d) ==
  /\ drains[d].at = "delete"
  /\ rows' = Without(rows, Head(drains[d].left))
  /\ drains' = [drains EXCEPT ![d] =
                  IF Rest(d) = <<>> THEN NoDrain ELSE [at |-> "send", left |-> Rest(d)]]
  /\ UNCHANGED <<stream, serving, client, late, emitted, sourced, noticed, warned, faults>>

\* Mutant: the drain goes on past a row that failed.
DrainStopsAtRow(d) ==
  /\ drains[d] # NoDrain /\ Fault
  /\ drains' = [drains EXCEPT ![d] =
                  IF Rest(d) = <<>> THEN NoDrain ELSE [at |-> "send", left |-> Rest(d)]]
  /\ IF drains[d].at = "send" THEN LosesAnswer(Head(drains[d].left)) ELSE UNCHANGED late
  /\ UNCHANGED <<stream, serving, client, rows, emitted, sourced, noticed, warned>>

\* Sending, noticing or deleting a row fails, or the process dies: the drain
\* ends, and the row and those behind it stay.
DrainStops(d) ==
  /\ drains[d] # NoDrain /\ Fault
  /\ drains' = [drains EXCEPT ![d] = NoDrain]
  /\ IF drains[d].at = "send" THEN LosesAnswer(Head(drains[d].left)) ELSE UNCHANGED late
  /\ UNCHANGED <<stream, serving, client, rows, emitted, sourced, noticed, warned>>

\* The source's tenure ends and its drain runs on, beside the next tenure's.
SourceParks ==
  /\ drains["own"] # NoDrain /\ drains["left"] = NoDrain /\ Fault
  /\ drains' = [own |-> NoDrain, left |-> drains["own"]]
  /\ UNCHANGED <<stream, serving, client, late, rows, emitted, sourced, noticed, warned>>

-----------------------------------------------------------------------------
(* The system                                                              *)

ClientStep ==
  \/ \E id \in ClientIds : Fire(id) \/ Send(id)
  \/ \E r \in 1..2 : Push(r) \/ Save(r)
  \/ ServerAnswers \/ Settle \/ ConnectionFails \/ Replace

OutboxStep ==
  \/ \E id \in RowIds : EmitRow(id)
  \/ \E d \in {"own", "left"} : SendRow(d) \/ WriteNotice(d) \/ DeleteRow(d) \/ DrainStops(d)
  \/ StartDrain \/ SourceParks

TargetStep ==
  \/ \E e \in Pending : Drain(e.seq)
  \/ \E kept \in SUBSET staged : CommitWave(kept)
  \/ \E id \in Ids : LateApplies(id)
  \/ AclChanges \/ TargetParks

Next == ClientStep \/ OutboxStep \/ TargetStep

\* Timers and wave cycles keep coming, and the server answers what reached it.
\* Nothing makes an attempt without answer arrive.
Fairness ==
  /\ \A id \in ClientIds : WF_vars(Send(id))
  /\ \A r \in 1..2 : WF_vars(Push(r)) /\ WF_vars(Save(r))
  /\ WF_vars(ServerAnswers) /\ WF_vars(Settle)
  /\ WF_vars(StartDrain)
  /\ \A d \in {"own", "left"} : WF_vars(SendRow(d)) /\ WF_vars(WriteNotice(d)) /\ WF_vars(DeleteRow(d))
  /\ WF_vars(\E e \in Pending : Drain(e.seq))
  /\ WF_vars(CommitWave(staged))

Spec == Init /\ [][Next]_vars /\ Fairness

-----------------------------------------------------------------------------
(* Properties                                                              *)

Outcomes == {"unfired", "open", "delivered", "refused", "closed", "dropped"}
Answers == {"none", "ok", "duplicate", "refused"}

\* The shape of the state: no entry or watermark is ahead of the store, an
\* entry stands on its own stream, a drain that runs has a row in hand, and no
\* event stands twice in one queue, one table or one open wave.
TypeOK ==
  /\ seq \in Nat /\ denied \in BOOLEAN
  /\ log \in [Streams -> [entries : Seq([id : Ids, seq : Nat, done : BOOLEAN]), mark : 0..seq]]
  /\ \A s \in Streams : \A e \in Entries(s) : e.seq \in 1..seq /\ StreamOf[e.id] = s
  /\ effects \in [Ids -> Nat] /\ staged \subseteq [seq : Nat, id : Ids, run : BOOLEAN]
  /\ \A v, w \in staged : v.seq = w.seq \/ v.id = w.id => v = w
  /\ fires \in Seq(ClientIds) /\ outcome \in [ClientIds -> Outcomes]
  /\ queue \in [1..2 -> [arriving : Seq(ClientIds), entries : Seq(ClientIds),
                          saving : BOOLEAN, closed : BOOLEAN]]
  /\ \A r \in 1..2 : IsInjective(queue[r].entries)
  /\ route \in [cur : 1..2, issued : BOOLEAN] /\ saved \in Seq(ClientIds)
  /\ attempt = NoAttempt \/ attempt \in [at : {"sent"}, id : ClientIds, answer : Answers]
  /\ late \in [Ids -> Nat]
  /\ rows \in Seq(RowIds) /\ IsInjective(rows)
  /\ emitted \in Seq(RowIds) /\ sourced \subseteq Range(emitted)
  /\ noticed \subseteq sourced /\ warned \subseteq Range(emitted) \ sourced
  /\ drains \in [{"own", "left"} -> [at : {"none", "send", "notice", "delete"}, left : Seq(RowIds)]]
  /\ \A d \in {"own", "left"} : drains[d].at = "none" <=> drains[d].left = <<>>
  /\ faults \in Nat

\* Rows the target refused for good, and whose refusal is dealt with.
GivenUp == noticed \cup warned

Before(s, x, y) ==
  \E i \in DOMAIN s : s[i] = y /\ \E j \in 1..(i - 1) : s[j] = x

LoggedFirst(x, y) ==
  LET ids == [i \in DOMAIN log[StreamOf[x]].entries |-> log[StreamOf[x]].entries[i].id]
      First(id) == CHOOSE i \in DOMAIN ids : ids[i] = id /\ \A j \in 1..(i - 1) : ids[j] # id
  IN  Logged(x) /\ First(x) < First(y)

\* A stream takes its events in the order they were fired, whatever was lost
\* and sent again: an event stands behind every earlier one of its source and
\* stream that was not refused (the queue's and the drain's order rule,
\* event-append-queue.ts `#nextSendable`, outbox.ts `deliverPendingAppends`).
FiredOrder ==
  \A x, y \in Ids :
    /\ Before(fires, x, y) \/ Before(emitted, x, y)
    /\ StreamOf[x] = StreamOf[y] /\ Logged(y)
    => LoggedFirst(x, y) \/ (x \in ClientIds /\ outcome[x] \in {"refused", "dropped"}) \/ x \in GivenUp

\* A row leaves the table only when its event is on the target's stream or was
\* refused, whatever drain deleted it, and a refusal that has a source event's
\* entry to stand on is on it by then (outbox.ts, the write-then-delete order).
RowsKept ==
  \A id \in Range(emitted) :
    \/ id \in Range(rows) \/ Logged(id)
    \/ IF id \in sourced THEN id \in noticed ELSE id \in warned

\* Everything at or below a stream's watermark had its consequences, so the
\* drain's filter and the dedupe horizon never pass an event over
\* (engine.ts `maintainStreamEventWatermarks`).
MarkSound ==
  \A s \in Streams : \A e \in Entries(s) : e.seq <= log[s].mark => e.done

\* Every fire is on its stream, refused, or in the hands of the queue in use,
\* also after the replica was replaced (event-append-queue.ts, its header on a
\* replaced replica's intents): no event told delivered is missing (`#settle`).
NothingStranded ==
  \A id \in Range(fires) :
    \/ outcome[id] \in {"refused", "dropped"} \/ Logged(id)
    \/ id \in Range(queue[route.cur].entries) \cup Range(queue[route.cur].arriving)

Intents == INSTANCE EventIntents WITH
  fired <- Range(fires) \cup Range(emitted),
  heard <- sourced \cup (IF MayReplace THEN {} ELSE Range(fires)),
  performed <- effects,
  refused <- {id \in ClientIds : outcome[id] \in {"refused", "dropped"}} \cup GivenUp,
  told <- {id \in ClientIds : outcome[id] = "refused"} \cup noticed

\* Queue, outbox, admission and drain together keep the promise of a fire: its
\* consequences are committed once, or it is refused, and one of the two
\* happens.  A refusal is told where somebody is there to be told: the firer,
\* unless its replica was replaced, and a row's source event, if it has one.
IntentsKept == Intents!Spec
=============================================================================
