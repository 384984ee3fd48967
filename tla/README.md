# A verification of the commonfabric/labs runtime core

TLA+ models of the parts of the runtime that carry its state: the memory engine
that decides commits, the sessions and replicas that send them, the delivery of
events, and the server-side executor that serves a space. They are translated
from the code under `runtime/memory/v2` and `runtime/runner/src`, with TLC runs
on small instances and TLAPS proofs of what holds for every instance.
`PROJECT.json` maps each definition to the lines it stands for and lists the
runs, the mutants (each property is shown to fail under a plausible slip in the
code), the hazards, the findings and the theorems.

The repository has TLA+ of its own, `docs/specs/memory-v2/tla` (pending stacks,
session delivery), written from the design. The modules here are independent of
it and follow the code.

Run a model with `tlc -config X.cfg M`; check the proofs of a module with
`tlapm M.tla`, for each of the modules named `...Proofs` (up to a quarter of an
hour each).

| Module | Models | Runs |
|---|---|---|
| `CommitEngine` | commit admission: engine.ts, patch.ts, path.ts, execution-lease.ts | through the two below |
| `MCReadCoherence` | workloads of reads and stacked commits | `StackedReads`, `ElidedVerdictReads` |
| `MCAdmission` | workloads of receipts, installs, leases, deletion | `Admission` |
| `CommitEngineProofs` | theorems about `CommitEngine` | tlapm |
| `SessionResume` | a session across connections: client.ts, server.ts, session-registry.ts | `SessionFaults`, through `MCSessionResume` |
| `CommitCall` | abstract: what a session promises about a commit handed to it | implemented by `SessionResume` |
| `SessionResumeProofs` | theorems about `SessionResume`: the types and the order of frames, then the session and the verdicts | tlapm |
| `ClientReplica` | a replica's documents and pending layers, and the pushes that feed it: storage/v2.ts, server.ts, client.ts | `ClientReplica`, `ReplayedPatch`, through `MCClientReplica` |
| `ClientReplicaProofs` | theorems about `ClientReplica`: its commits, and the order they keep | tlapm |
| `ReplicaDataProofs` | theorems about `ClientReplica`: its documents and reads | tlapm |
| `AdmissionWaiters` | refused opens remembered for a later grant: admission-waiters.ts, server.ts | `WaitersEvict`, through `MCAdmissionWaiters` |
| `AdmissionWaitersProofs` | theorems about `AdmissionWaiters` | tlapm |
| `EventDelivery` | append queue, outbox, stream admission and drain: event-append-queue.ts, outbox.ts, engine.ts, space-server.ts | `EventQueue`, `EventRows`, through `MCEventDelivery` |
| `EventIntents` | abstract: what firing an event promises | implemented by `EventDelivery` |
| `EventDeliveryProofs` | theorems about `EventDelivery` | tlapm |
| `ServingHost` | the serving lifecycle of a space: host.ts, space-server.ts, execution-lease.ts | `ServingTenures`, `ServingProgress`, through `MCServingHost` |
| `ServingHostProofs` | theorems about `ServingHost` | tlapm |
| `ServingWorker` | the executor in a worker thread: serving-worker-host.ts, serving-port-*.ts, execution-lease.ts, wave.ts | `WorkerSuccession`, through `MCServingWorker` |
| `LeaseTenures` | abstract: what the execution lease promises for a space | implemented by `ServingWorker` |
| `ServingWorkerProofs` | theorems about `ServingWorker` | tlapm |

## 1. Inventory

A *space* is a store of documents with a totally ordered commit log. *Clients*
hold a replica, run patterns (reactive programs) on it, and send *commits*: the
operations a transaction performed with the reads it depended on. The *memory
server* owns a SQLite *engine* for each space, decides each commit and pushes
what changed to subscribed *sessions*. An *executor* in the server process runs
patterns for spaces that have events or clients, under a *lease*, and commits
the results as *derived* commits in *waves*.

| Component | State | Operations | Interacts with | Hard behaviour | What makes it correct | Status |
|---|---|---|---|---|---|---|
| Memory engine (`memory/v2/engine.ts`, `patch.ts`, `path.ts`) | commit and revision tables | apply a commit; read a document at a seq | called by the server within one SQLite transaction | resends of commits whose verdict was lost; reads taken long before they are checked; elided (identity) commits others stack on | applied once; answers stable; a commit that writes saw the store it is applied to; nothing after deletion | modelled (core) |
| Execution lease (`execution-lease.ts`) | holder of each space, in memory | acquire, release, release all of a holder | checked by the engine for derived commits, taken by tenures | re-acquired by its own holder; freed under a successor | one holder serves | modelled |
| Executor host (`runner/src/executor/host.ts`) | servers by space, activations in flight, buffered notices, failure streaks, closed | commit admitted, session opened, activate, re-evaluate, close, lifecycle verbs | observes the server's admissions and sessions; builds `SpaceServer`s | every await is a window for an admission, a session, a failure, close | no event stranded; one tenure; close returns | modelled (core) |
| Space tenure (`space-server.ts`) | feed, scan debt, scan head, covered seq, warm requests, wave in flight, park | acquire, initialise and scan, drain, serve a wave, finish it, park | lease, engine, scheduler, outbox | feed filtered at a head read before awaits; commit in flight at park; dispose deadlines | as above | modelled at the lifecycle level |
| Wave accumulator and sinks (`wave.ts`, `engine-wave-sink.ts`, `routed-wave-sink.ts`, `watermark.ts`) | staged writes of a wave, seals, requeued events | seal, commit, abort, withdraw | engine, host | a wave sealed under one tenure committed under another | a wave lands only in the tenure that sealed it; its events are consequenced once | in part, in `ServingWorker`, `ServingHost` and `EventDelivery` |
| Outbox and events (`outbox.ts`, `effect-completion.ts`, `storage/event-append-queue.ts`) | outbound rows, event-id horizons, watermarks | append, deliver, retire | engine of the target space | crash between commit and delivery; retries | exactly once per event id | modelled (core) |
| Serving worker and port (`serving-worker-host.ts`, `serving-port-*.ts`) | worker generation, port, leases of its holders | start, fail, replace, forward | host in another thread | worker dies with commits sent | a dead generation's leases are freed, its late commits refused | modelled (core) |
| Memory server, sessions (`server.ts`, `session-registry.ts`, `frame-log.ts`) | sessions, connections, watches, frames | hello, resume, transact, sync, push | engine, clients, host | takeover while an older resume is in flight | one connection owns a session | modelled, without watch evaluation |
| Memory client (`client.ts`) | outstanding commits, connection | transact, reconnect, resend | server | lost verdicts | each commit has one verdict in the end | modelled (core) |
| Client replica (`storage/v2.ts`, `v2-transaction.ts`) | confirmed documents, pending layers, parked acceptances | commit, verdict, frame, cascade | client, scheduler | verdicts and frames out of order; cascades of refused layers | the view is some prefix of history with the own layers on it | modelled (core) |
| Admission waiters (`admission-waiters.ts`) | waiters by space and by connection | add, take, remove, evict | server | eviction at the limit; a connection closed with refusals recorded | no waiter lost below the limit | modelled |
| Scheduler (`runner/src/scheduler`) | pending and dirty actions, event queue, gates, timers | run, settle, throttle, back off | replica, tenures | echoes, starvation | settles | planned in part |
| Routed host (`routed-*.ts`, `router-protocol.ts`) | owner and epoch of each space | route, hand over | several server processes | a stale owner | epochs fence | planned last |
| Graph query, presence, invites, reaping, compaction | watch sets; housekeeping rows | — | server | compaction under a reader | — | not modelled |
| Compilers, data model, encodings, identity, base libraries | none | pure functions, I/O | — | — | — | not modelled |
| Shell, CLI, FUSE, toolshed, UI, patterns, connectors | front ends, programs | I/O | runtime | — | — | not modelled |

`PROJECT.json` lists the same parts with their sources.

## 2. Plan

Modelled: `CommitEngine`; `ServingHost`; `SessionResume` as an implementation of
`CommitCall`; `ClientReplica`; `AdmissionWaiters`; `EventDelivery` as an
implementation of `EventIntents`; `ServingWorker` as an implementation of
`LeaseTenures`.

Proved: all invariants of `CommitEngine` (`ReadCoherence` from what clients promise,
section 3), of `AdmissionWaiters` and `ServingHost`, of `ServingWorker` with its
refinement, of `EventDelivery` and `SessionResume`, each with the safety half of its
refinement, and of `ClientReplica` with its `RepairedBase`. Each module has a
`TypeOK` of its own for the proofs, most of them not among the runs' properties.

Only model-checked: liveness.

Left to model: the scheduler's gates and wake shaping, the routed host's epochs,
lifecycle verbs and parked runtimes of the host, and a serial store that
`CommitEngine` and `ClientReplica` together implement.

## 3. CommitEngine

**State.** `commits` is the commit table; a row's position is its seq, and a row
is the commit as received, which is what replay detection compares (payload,
class and holder). `revisions` is the revision table. No document is stored:
`DocAt` replays a document from its revisions, as `reconstructPatchedDocument`
does. `lease` is the server's lease map for the space. `submitted` remembers what
sessions have sent, since they may send it again; `granted` and `verdict` record
answers.

**Actions.** `applyCommitTransaction` runs inside one SQLite transaction, so one
submission is one step: `Accept`, `Replay`, `RefuseMismatch` or `Refuse`, chosen
by `Decision` in the order the code checks. `Admissible` has one conjunct for
each of the code's checks: deletion, the derived-class rule, empty commits,
preconditions, content-addressed documents, well-formed pending reads, resolved
dependencies, and fresh reads or an identity. `AcquireLease` and `ReleaseLease`
move the lease between submissions. `AcceptedNeverRefused` and `DeletionIsFinal`
speak of this transaction alone: what the server checks before it (session, access
list, its own look at the deletion) comes first and can refuse a resend that the
engine would have answered, and the window between those checks and the
transaction is not in this module (the access list is in `SessionResume`).

**Reads.** A confirmed read names a seq. A pending read names own layers
(`localSeq`s of earlier commits of the session) and the confirmed basis under
them, or is a legacy read with no basis. `Conflicts` is the SQL of
`findConflictSeq`: a whole-document write conflicts with any read of the
document; a patch conflicts by path, and through `createsKey` and `add` with
shape-only reads of the container. A stale commit is still accepted if it is an
identity (`IsIdentityCommit`), and a later read through it may skip what lies
before it (`IdentityBasis`), if the view was proved (`ViewIsProved`).

**Data.** A document is one level of keys; an operation is a set, a delete or
one patch (`replace`, `add`, `increment`); hashes are values.

**Clients.** `MaySubmit`: a session's next commit, numbered above its previous
ones and reading seqs the server has reached; anything sent before; or another
payload under a used number.

### Runs

| Run | Question | Bounds and why they are enough |
|---|---|---|
| `stacked_reads` | `ReadCoherence`, `NoStaleRead` when a session stacks three commits on each other, with deep and shape-only reads of a path, while another sets, deletes and patches the document | every layer set over two layers, every basis up to 2, sets, adds and increments: the least in which an identity layer, a foreign write below it and a reader above it meet |
| `admission` | `TypeOK`, `UniqueResolution`, `AnswersAgree`, `ReceiptOnce`, `ContentImmutable`, `AcceptedNeverRefused`, `DeletionIsFinal` | two sessions claim, delete and reclaim a receipt and install the same content alone and together with other operations; two lease holders, a reused number and the deletion; everything resent at any time; the log up to four commits |
| `elided_verdict_reads` | expected violation, finding 1 | as `stacked_reads`, for a client with `elidedVerdicts` |

`ReadCoherence` compares values: what a read of a commit that wrote saw, in the
view its client had, is what the store held just before the commit. It is
restricted to reads a replica can form: the named layers lie above the basis
(`AboveBasis`: the frame that carries an own write promotes its layer) and
resolved in the order they were numbered (`InLocalOrder`: see the observations in
section 9). The premise is not empty: the `ReadCoherence` mutant of
`stacked_reads` breaks the property through the pending half, with the premise
true.

The workloads record a created key (`add`, or `createsKey`), as the writers in
`runner` do. A `replace` that creates a key without the flag does escape a
shape-only read; the repository documents that (Topic 544), as it does the
weaker check of legacy pending reads (CT-1910). Neither is reported here.

Safety only: the engine answers each call, and nothing in it waits.

### Proofs (`CommitEngineProofs`)

For all sets of sessions, documents and submissions and any length of log, under
`EngineAssumption`, which types the constants and says that no content is the
absent document:

| Theorem | States | Inductive argument |
|---|---|---|
| `TypeCorrect` | `[]TypeOK` | inductive as it stands |
| `AppliedOnce` | `[]UniqueResolution` | with `TypeOK`; a row is appended only when `Existing(c) = {}` |
| `ReceiptClaimedOnce` | `[]ReceiptOnce` | with `TypeOK`; revisions are never removed, so a set of the receipt refuses every later `entity-absent` |
| `AnswersAreStable` | `[]AnswersAgree` | not inductive alone: needs `AnswersRecorded` (each answer is the one read off the tables, `StoredAnswer`) and `UniqueResolution` |
| `ReplayIsNotReadmitted` | `[]AcceptedNeverRefused` | from the order of `Decision`; the tables do not change on a refusal |
| `FirstCommitterWins` | `[]NoStaleRead` | with `TypeOK`; the new row's reads were scanned, and earlier rows keep their revisions; a pending read needs that `Max` of its identity layers exists (`GreatestSeq`) |
| `DeletionEndsTheLog` | `[]DeletionIsFinal` | with `TypeOK`; documents of the past do not change (`DocAtStable`) |
| `ContentStays` | `[]ContentImmutable` | needs `ContentRows` (every revision of a content-addressed document sets its content) and `InstalledOnce`; the document before the first is absent, so a second install is elided (`ElidedContentSets`) |
| `ReadsCohere` | `[]ReadCoherence`, under the hypotheses below | needs `RowsKnown`: what each row's reads were found to be when it was admitted |

All rest on `TableSteps`: a step leaves both tables alone or appends one row
with its revisions (`Appends`), so facts about rows up to a seq persist.

`ContentStays` is about values, so about the rounds of `DocAt` and `ReplayOps`,
which are recursive functions over seqs and over the indexes of a commit's
operations. That such a function has its equations at every index is proved by
descent from a least counterexample (`ReplayRounds`, `DocRounds`).

`NoStaleRead` is what the scans guarantee in terms of revisions, and
`ReadCoherence` its consequence for values. That consequence is not a theorem for
every set of submissions `EngineAssumption` admits, so `ReadsCohere` names what it
takes beside the engine:

- `WritesValues(vals)`: the commits are JSON: on documents that are read, sets
  write documents over `vals`, patches write values of `vals`, and sums of values
  are values. `ApplyOperation` means nothing on anything else.
- `ElidedVerdicts = {}`: with such sessions the property fails (finding 1).
- `[]KeysDeclared`: a row of patches that declare no created key leaves the key set
  of the document as it was. The engine takes the clients' word for it; one that
  creates a key without saying so escapes a shape-only read (Topic 544).
- `[]StacksWhole`: a read that names a layer which itself read the document on
  the same basis names no earlier writer of the document that the layer's read
  left out. `viewIsProved` (engine.ts:8433) compares the bases and checks that the
  layer's layers are among the reader's, not the converse; that follows from
  replicas naming their whole pending stack (`#buildReads`). A client that names
  layers selectively escapes it.

The last two are conditions on behaviours, because they speak of what the log
made of the commits. Every state of `stacked_reads` and `admission` satisfies them,
and the reads of `stacked_reads` go through identity layers, past writes of the
other session, at several depths.

The argument has three parts. `RowsAlways` proves the invariant `RowsKnown`: every
row wrote all its operations and its reads were then fresh (`FreshAt`), or it
wrote nothing, being an identity of each of its documents in the store and in
the view its commit named (`IdentityAt`); both are facts about the log below the
row, so they persist. `RowBeside` and `RowThrough` say what one row does to a
document as a read sees it (`Alike`): nothing if its revisions do not touch the
read, and otherwise, for an own layer, what its operations do to the session's
view. `FollowsAlong` then walks from the row the read was scanned from to the row
of the commit, keeping the view, its layers so far resolved, alike with the
store. It starts at the read's basis (`BasisFollows`), or at the newest identity
layer (`IdentityFollows`), where `ProvedView` shows that the view the identity was
proved on is the reader's; `StacksWhole` is used there and nowhere else.

`PendingView` is a recursive function over local numbers for these proofs, and the
first read of a document is `FirstOn` over indexes, since induction over a fold
or a filtered sequence is out of the provers' reach.

### Finding

1. **`elidedVerdicts` waives more than INV-1 allows** (`elided_verdict_reads`,
   engine.ts:7293). For these sessions a commit is elided if the view it was
   computed on gives the stored document, without asking that replaying it on
   the stored document changes nothing. A second commit that reads through the
   elided layer before it is promoted folds it over a newer frame, sees a value
   the store never held, and is accepted and writes.
   `docs/specs/memory-v2/09-invariants.md:123` says the waiver is harmless to
   that invariant.

## 4. SessionResume implements CommitCall

**State.** `client` is the client's `SpaceSession` with the connection it is on:
ready, down, opening, restoring, held (a retriable refusal) or ended. `told` is
what each `transact` call has come to. `toServer` and `toClient` are the frames
of each connection, in order. `session` is the registry's entry (token, the token
presented to make it, attempt, owner), `conn` the server's connections, each with
the request it has in hand. `applied` is what the engine applied.
`access` and `write` are what the access list grants the principal: READ, without
which its session ends, and WRITE.

**Steps.** The client moves on at once when a connection is lost; the server may
notice late or never, so opens and commits left behind on an old connection are
handled at any later time. `openSession` is `BeginOpen`, then `AdmitOpen` or
`RefuseOpen` after the access check, then `FinishOpen` after the catch-up;
`transact` is `BeginTransact`, which captures the session, and `DecideTransact`,
which checks, in the code's order, that the session is still the one captured, that
the access list lets its principal write, and only then lets the engine decide: an
applied commit is answered with its first verdict if it gets that far, and a resend
can be denied before. The client's side is `Transact`, `Drop`, `Reconnect`,
`RetryHeld` and `Receive`; what befalls them is `Close`, `Expire`, `Deauthorize`,
`WithdrawWrite` (READ is left, so the session stands), `RestoreWrite` and `Restart`.
A token stands for the session object too, as the registry makes both anew at every
open.

Outside: commits that change the access list (`#validateAclCommit`, a space's
genesis), the marks of INV-16 (the session is taken to declare `instanceNames` from
its mount on, so no open or commit of its own is refused for them), routed ownership
and deleted spaces.

**What is promised.** `CommitCall` knows neither connections nor resends: a call
is issued, its commit may be applied while it waits, and it ends with the truth
or with the session. `CallKept` says `SessionResume` implements it, its liveness
included: an accepted commit has been applied, one the session or the engine refused
has not, and none is applied after its call has ended. A denied call does not say
whether an earlier copy was applied (the observation in section 9); it ends only
where write access was withdrawn, and leaves nothing behind that could still apply
its commit, also when the access comes back.
`NotLockedOut` is about the rule by which a resume is judged (token, presented
token, attempt): the client's session ends only when access ends. `VerdictTrue`
and `OwnerAgrees` are the safety behind the two.

**Bounds** (`session_faults`, 641,000 states): three connections, so that one is
abandoned while a second, itself lost, is being restored; two commits, one sent
before and one during a restore; two troubles (denial, withdrawal of write access,
expiry, restart or deauthorization), so that a commit denied to a writer can meet the
same writer's return, and a withdrawal an expiry or a restart. Frames on a connection
the client has left are dropped as they are sent (`Reads`), since it reads them no
more.

**Fairness.** Timers and the transport run, a close is noticed, requests in hand
are seen through. Nothing is assumed of losses, which `MaxConns` bounds.
`Expire` assumes that no superseded open older than the session's 30 s time to
live is still in the server's hands.

### Proofs (`SessionResumeProofs`)

For any number of connections, commits and troubles, with the access lists
enforced or not, under `SessionAssumption`, which types the constants:

| Theorem | States |
|---|---|
| `TypeCorrect` | `[]TypeOK` |
| `OwnerAgreement` | `[]OwnerAgrees` |
| `NeverLockedOut` | `[]NotLockedOut` |
| `VerdictsTrue` | `[]VerdictTrue` |
| `CallImplemented` | `CommitCall`'s `Init` and `[][Next]`, the safety half of `CallKept` |

`OwnerAgrees` is inductive with the types. The others rest on `IInv`, in three
layers.

*The line*. Between the client and the connection it is on,
the frames the server has yet to take, the request in hand and the frames on
their way back form one line, in order: nothing is on it that the client cannot
have asked in its state, each thing is on it once, and the watch set comes last
(`LiveLine`). An open is the last thing sent until it is answered (`OpensLast`),
and only issued commits travel (`Issued`).

*The registry* (`RInv`). Every open still in the queue or in hand, on whichever
connection, either names the token the client holds or comes under an attempt
the session has seen, and then with a token older than the session's
(`AllJudged`); the client's token is the session's or the one it was resumed
with (`CanResume`); a new token
on its way to the client cannot be overtaken (`AnswerStands`); once the client's
open is answered its connection owns the session (`OwnerHeld`). So no answer that
ends the session meets a client with access, which is `NotLockedOut`.

*The verdicts* (`VInv`). A commit in hand on the client's connection came from
the session held (`HandHolds`), and one in hand under the session held anywhere
is its owner's (`HandOwned`). Therefore a refusal the client can still hear comes
only when no copy of the commit can be applied any more (`RefusedFinal`, with
`Final`), and so does a denial: a connection with a handle has none in its queue,
and a copy in hand came from a session that is gone. After the end of access, the
client hears of it before anything that could be untrue (`EndTold`).

TLC checked `IInv` on the instance of `session_faults` before it was proved. That
each call ends at all is liveness and stays with TLC.

## 5. ClientReplica

**State.** `log` is the store. `server` is the session's delivery state: the dirty
batch with the origin of each write, what it holds the client to have, the marker
owed and told (`caughtUpLocalSeq`). `issued` holds the replica's commits with the
reads they carry, `fate` what has become of each, and `replica` the confirmed
versions, the layers over them, the marker and what a restore still waits for.
A document is the sequence of the commits whose writes it shows: a set leaves
one, a patch appends, so a write shown twice or lost is seen. The layers of a
document are a set: the code keeps them in the order they were made, which is
their local order, and `Layered` goes through them in it.

**Steps.**

| Code | Actions |
|---|---|
| `commitOperations`, `#buildReads`, `#pushCommit` | `Issue`, `Send` (with the refusal of a commit whose layers are rejected) |
| `#decideTransaction`, `markSpaceDirty`, `#syncSessionForConnection` | `Decide`, `CommitForeign`, `Flush`, `SetWatches` |
| `#suppressLateVerdict`, `#settleAccept`, `#parkedAccepts` | `ReceiveVerdict`, `SettleAccept` |
| `#applySessionSyncFrame`, `#noteCaughtUpLocalSeq` | `ReceiveFrame` |
| `#waitForConflictReadRepair`, `#finalizeRejection`, `#cascadeDroppedDependency` | `Ready`, `RepairTimesOut`, `Drop` |
| `#onClose`, `restore`, `onSessionReplaced` | `Resume`, `Replace` |

Two orders of the event loop are guards: nothing is issued, sent or lost in the
microtasks between an accepted answer and its settling (`TurnOver`; frames may be
integrated there), and accepted commits settle in the order of their answers
(`NextAccepted`). A restore is one step; its protocol is `SessionResume`'s.
Access lists are outside this module: `Decide` starts at the engine and leaves
out the server's checks ahead of replay detection (server.ts:7707-7747), so
`DroppedNotStored` is claimed for a principal whose write access is not withdrawn
between a commit and its resend. The 30 s timer of a rejection runs while it
waits for its turn as well as while it waits for the repairing frame
(`RepairTimesOut`).

**Properties.** Confirmed versions are the store's (`MirrorTrue`, with an
exception for the window in which a replaced session has no watches); what an
accepted commit saw is what the store held before it (`SeenIsStored`, INV-1, now
for the reads a replica forms and not for enumerated ones); what was taken back
was never stored (`DroppedNotStored`); a refused commit's layer goes only when
the base shows what it was refused for (`RepairedBase`, while no connection was
lost: a resent commit may be refused again, under the marker of its first
refusal); with nothing under way the view is the store (`QuietView`); every
commit settles (`Settles`).

**Bounds** (`client_replica`, 292,000 states): one document, two commits of any
shape, one foreign write, two faults, which are lost connections or repair
timeouts. These pass too, with longer runs: two foreign writes (2.1 million
states), three commits (3.4 million), two documents (3.5 million).

**Fairness.** Weak fairness of `Progress`: the server decides and flushes, the
channel delivers, and microtasks run.

### Proofs (`ClientReplicaProofs`, `ReplicaDataProofs`)

For any documents and any number of commits, foreign writes and faults, under
`ReplicaAssumption`, which types the constants:

| Theorem | States | Under |
|---|---|---|
| `DroppedStayOut` | `[]DroppedNotStored` | |
| `PromotedAreStored` | what is accepted, parked or applied is stored | |
| `StoredAtMostOnce` | each commit is stored once at most | |
| `ConfirmedIsStored` | `[]MirrorTrue` | |
| `QuietIsStored` | `[]QuietView` | |
| `ReadsAreStored` | `[]SeenIsStored` | `~ ReadUnsettled` |
| `RefusalsRepaired` | `RepairedBase` | |
| `TypesHold` | `[]TypeOK` | |

The condition is needed: with `ReadUnsettled` the run `replayed_patch` finds
`SeenIsStored` violated (the finding below). The runs have it as a constant too.

**Commits.** `IInv` follows the copies of a commit: one at a time is on its way,
while it has no verdict, and its verdict comes behind it (`OneCopy`); what was
never sent has none (`Unsent`); a verdict on its way is the truth
(`VerdictsTold`). A commit dropped for its own refusal has no copy left. One
doomed by `Drop` may have one on its way, which the server has yet to decide; but
it names a layer that is not in the store and never will be, and what is stored
has the layers it read stored (`Over`, `ReadsStored`).

**Documents.** `DataInv` adds what keeps them right:

- Order. Requests, decisions and verdicts keep the local order, and a marker that
  covers a commit covers all before it (`FateOrder`, `LineInv`, `TurnInv`): that is
  why one number can stand for a set of commits.
- Knowledge. A frame shows what the store held at the seq it names, the watch set
  declares what was delivered, and no documents overtake its answer (`KnownInv`).
- Coverage. Each row of the store is dirty and under no marker yet (`DirtyTrue`),
  or it was sent: then the base has it, or it is an own write still to be promoted,
  or a frame on its way brings it (`SentCovered`, `Shown`). A frame's marker comes
  with, or behind, every row up to the newest commit it covers (`MarkersTrue`).
  From this a promotion finds a base that misses nothing of its document, so the
  base stays true (`BaseTrue`): the withheld echo (`Held`) rests on it.

`QuietView` then follows: nothing is on its way, so every row is in the base.
`SeenIsStored` takes `ReadTrue`: a read is the store's document at its basis under
its layers, and none of these is stored up to the basis, which is what `Unsettled`
excludes; the engine's check leaves only the layers between basis and commit, and
applying them to the one gives the other (`LayeredAll`). `RepairedBase` takes
`CalmInv`: while no connection is lost no commit is decided twice, so the marker
that covers a refused commit is its own refusal's, and all stored before that is
shown with it (`RefusedTold`). TLC checked `IInv`, the parts of `DataInv` and
`CalmInv` on the instance of `client_replica` before they were proved.

**Layers.** `Layered` and `Promoted` are recursive functions over local numbers.
What they compute is proved with `ClimbsTo`, which says of a set of numbers that
it holds 0..k if it holds 0 and goes up, and follows from the least element of
the rest; the library's induction theorems, with their operator parameters, are
not needed.

`Settles` is liveness and stays with TLC.

### Finding

2. **A patch whose verdict was lost shows twice, and is read twice**
   (`replayed_patch`, client.ts:4046). The catch-up of a resumed session carries
   the patch and is integrated before the replayed commit's verdict, under the
   patch's standing layer. A commit made in that window reads the patch twice,
   names the layer and the new basis, and is accepted. The violation run is the
   passing run's module with `ReadUnsettled = TRUE`; the passing run leaves out
   exactly the commits that read a document in that condition (`Unsettled`).

## 6. AdmissionWaiters

`waiters` is the class's two indexes, `byConnection` in the order of insertion
and `bySpace`; a closed connection's entries are held under their principal. The
actions are the server's callers: refused and successful opens, sessions closed,
principals authenticated, released and lapsed, connections closed, and changes of
an access list, here or in another process (`ChangeListElsewhere`, seen by the
next `Refresh`). A session whose lease has run out stays registered and serves
nobody (`lapsed`) until its principal authenticates again, its access ends or it is
closed. A connection has one session for a space and principal, and the release of
a principal whose own lease has already run out is not a step: it only takes away
what no longer counts. The order in which sessions are revoked is a nondeterministic
choice.

`waiters_evict` has a limit of one entry, so that every second refusal evicts,
three connections (two that serve a principal while the third closes), two spaces
and one principal (78,900 states). It shows that the indexes agree within the
limit and keep nothing for a closed connection (`IndexesAgree`), that no admitted
principal is left waiting (`NoAdmittedWaiter`), and that an entry leaves only by
an answer, an eviction, or its principal's end of service (`NeverForgotten`,
`HeldUntilAnswered`). Deadlock is checked.

Every change of the indexes is a sequence of single additions and removals
(`EditAll`), as the class's loops make them: an addition may evict the oldest
entry of its key, so what `holdAllForConnection` leaves depends on each step.

### Proofs (`AdmissionWaitersProofs`)

For any connections, spaces, principals and limit, under the module's
assumption, which types the constants and keeps connections and principals apart:

| Theorem | States |
|---|---|
| `TypeCorrect` | `[]TypeOK` |
| `SameEntries` | `[]IndexesAgree` |
| `AdmittedDoNotWait` | `[]NoAdmittedWaiter` |
| `RefusalsKept` | `NeverForgotten` |
| `HeldAreAnswered` | `HeldUntilAnswered` |

`IInv` says that the two indexes hold the same entries, each key's in a sequence
without repetition no longer than the limit (`Sound`), that a closed connection
has neither entries nor sessions (`ClosedEmpty`), and that only principals whom
their space refuses wait, until its list is changed elsewhere (`Unadmitted`). A
loop keeps `Sound` because each edit does; what a loop leaves, under each key, is
found by following the rounds of `EditAll`, again by descent from a least
counterexample. The two action properties follow from the same case analysis:
which entries each of the server's callers can take away, and whom it tells.
TLC checked `IInv` on the instance of `waiters_evict` and on one with two
connections, one space and two principals before it was proved.

## 7. EventDelivery implements EventIntents

**State.** Per stream the entries and the watermark; the open wave of the serving
loop (`staged`); the client's queues (the replica's and its successor's), the
store they save to and the attempt that is out; the outbox `rows` and the drains
over them; `late`, appends whose answer was lost and that may still arrive.
`sourced` are the rows a source event's entry stands for, `noticed` those whose
refusal is on that entry, and `warned` those whose refusal was only logged.

**Steps.** `Fire`, `Push`, `Save`, `Send`, `ServerAnswers`, `Settle`,
`ConnectionFails` and `Replace` are event-append-queue.ts; `EmitRow`,
`StartDrain`, `SendRow`, `WriteNotice`, `DeleteRow`, `DrainStops` and
`SourceParks` (the park's abandoned drain runs on beside its successor's) are the
outbox; `Verdict` is `validateEventAppends`; `Drain`, `CommitWave` and
`TargetParks` are the target's serving loop, where a wave may requeue any of its
events. A refused row goes with a notice only where there is an entry to write it
on (`WriteNotice`). A derivation's row names no source event (outbox.ts:743-750),
an outbox built without its space knows none (752-757), and an entry compacted
away takes no notice (`commitDeliveryFailureNotice`, server.ts:12480): the row
then goes all the same. `Sourceless` are the ids this may befall; which of them
it does is chosen when the row is emitted, though a compaction comes later.
Backoff and pacing are abstracted to a wait of any length.

**What is promised.** `EventIntents`: the consequences of a fired event are
committed at most once, and in the end once, unless it is refused. A refusal is
told wherever somebody is there to be told (`heard`): the firer of a client's
event, where no replica is replaced, and the entry of a row's source event, where
it stands; a refused row with no such entry is deleted and logged. `IntentsKept`
is the refinement, with fairness: timers and wave cycles keep coming, and what
reached a server is answered. `FiredOrder`, `RowsKept`, `MarkSound` and
`NothingStranded` are what it rests on.

**Bounds.** `event_queue`: three fires on two streams, one deterministically
refused, two faults, a change of the access list and a replacement of the
replica. `event_rows`: one fire and two rows on one stream, one refused, one
fault, so that drains of both origins, a late append and the drain of the stream
meet; the refused row may be without a source event. An id is fired once. The runs
explore 1.8 million and 180,000 states. No client's event is refused in
`event_rows`: that its firer is told is in the proof.

Below the watermark, exactly-once relies on the consequenced twin still being
stored; no compaction of streams is modelled. A replaced replica's queue is
reloaded without the firer's promise, so a refusal after that is only logged
(`dropped`).

### Proofs (`EventDeliveryProofs`)

For all ids and streams and any number of faults, under `DeliveryAssumption`,
which types the constants:

| Theorem | States | Condition |
|---|---|---|
| `TypeCorrect` | `[]TypeOK` | |
| `WatermarkSound` | `[]MarkSound` | |
| `RowsDelivered` | `[]RowsKept`: a row that is gone is on the stream, or refused and noticed where it has an entry to be noticed on | |
| `HandledOnce` | each id has its consequences at most once | |
| `FiresKept` | `[]NothingStranded` | `~ ReplaceEarly` |
| `StreamsInOrder` | `[]FiredOrder` | `~ ReplaceEarly` |
| `IntentsImplemented` | `EventIntents`'s `Init` and `[][Next]`, the safety half of `IntentsKept` | `~ MayDeny` |

The two conditions are needed: with `ReplaceEarly` TLC finds `NothingStranded`
violated, and with `MayDeny` a late append can land after its firer was told a
refusal (both in section 9).

The inductive invariant `IInv` needs no condition. *Streams*: seqs are unique,
and above a stream's watermark ids are (`StreamOK`). *Serving*: what the open
wave holds is above the watermark and not done, and what it runs has had no
consequences (`ServingOK`). That gives at-most-once: an id is admitted again only
when its first entry is under the watermark, so done, and `Skips` sees it.
*Order of rows*: call an event settled when it is on its stream or its refusal
has been told, noticed, warned of or dropped. No sequence of rows, in the table or in the
hands of a drain, has an event ahead of an earlier one that is not settled
(`RowOrder`); two drains over one table delete each other's rows, and do so only
of settled events. A settled event stays settled, which carries the rest.

`OInv` adds the client's half, under `~ ReplaceEarly`: the same of the queue in
use and what is about to join it (`QueueOrder`), the store equal to the queue
whenever no save is due (`ReplaceOK`), and that whatever the target may still be
asked to apply, attempts without answer included, has all earlier events of its
source and stream settled (`SentCleared`). So an append finds them on the stream
or refused (`LogOrder`), which is `FiredOrder`. `DInv` adds, under `~ MayDeny`,
that what is refused is refusable for good, so it is never on a stream, and that
no event in the queue in use was told a refusal, so none is told twice.

TLC checked `IInv`, `OInv` and `DInv` as invariants of both runs' instances (1.8
million and 180,000 states) before they were proved. The other half of
`IntentsKept`, that every fire is answered, is liveness and stays with TLC.

## 8. ServingHost and ServingWorker

### ServingHost

**State.** The store as the lifecycle sees it: `log` (the kind of each admitted
commit: an event append, a staged warm request, another authored commit, a
system write, the deletion), `pending` (undelivered events) and `watermark`.
`transit` holds admissions the host has not been told of. `host` is the host's
entry for the space (`#spaces`, `#activating`, `#pending`, failure streak,
`#closed`, and a re-evaluation waiting for the engine). `server` is the
`SpaceServer`s, with the stage each has reached and its feed, scan debt, scan
head, covered seq, warm requests and wave.

**Steps.** A step runs from one await on the store, the lease, a runtime, a
commit, a timer or a park to the next.

| Code | Actions |
|---|---|
| `#onCommitAdmitted`, `#onSessionOpened` | `Notice`, `OpenSession`; `Admit`, `CloseSession` are the server's side |
| `#activate`, `#activateInner` | `Activate` (helper), `BackoffElapses`, `Register`, `ActivationThrows` |
| `SpaceServer.activate`, `#initializeRuntime` | `Acquire`, `ReadHead`, `Scan`, `BecomeActive`, `InitializeFails` |
| `#loop`, `#serveWave`, `#finishWave` | `Cycle`, `CommitWave`, `RequeueEvent`, `WaveRejected`, `WaveRefused`, `LoopFails`, `IdlePark` |
| `#parkResources` | `StartPark` (helper), `InFlightLands`, `Release`, `FinishPark` |
| `#reactivateAfterPark` | `Reevaluate` (helper), `CheckEvents`, `CheckEventsFails` |
| `close` | `Close`, `CloseParks`, `CloseReturns` |

A wave is what the lifecycle depends on: the events it drained and whether it
commits. A derived commit is not an entry of `log`. The overlap of waves is left out:
with `overlapCommit` the next cycle's drain may run while its predecessor's commit is
on its way (space-server.ts:7295, 7482-7495, 7791-7854), where `Cycle` waits for
`CommitWave`.

**What the event loop orders.** These orders are taken from the code and matter:

- Admission notices are synchronous with the commit and the worker's port is
  FIFO, so notices come in commit order, except a warm request, which the wave
  that staged it reports after its commit.
- `engineForSpace` caches its promise, so waits on it resume in order:
  `Register` does not overtake a re-evaluation's `CheckEvents`.
- A park's handler, the re-evaluations chained behind the park and the end of an
  activation the park belongs to run in one flurry of microtasks: `FinishPark`.
  The park's own re-evaluation covers the chained ones.
- A commit in flight when a park starts lands ahead of the release.

If a second tenure could be built during a park, the old park would free the
lease under it, because `acquire` grants a lease again to its holder. The orders
above exclude that in the code; `ServesUnderLease` shows they suffice, and its
mutant what happens when a session may activate during a park.

**Fairness** (`FairSpec`). Weak fairness of `Progress`: the event loop runs what
is ready, timers and the lease and store requests of this process included.
Nothing is asked of clients, rivals, failures or of a commit in flight at a park.
Deadlock is not checked: a quiet space whose bounds are spent really stops.

| Run | Question | Bounds and why they are enough |
|---|---|---|
| `serving_tenures` | `ServesUnderLease`, `ClosedIsQuiet`, `EventReachable` | all kinds of commit, two of them; two session openings, two failures, one turn of a rival, close: every window is met by a commit already handled and by one that is not, and a second failure falls into the recovery from the first |
| `serving_progress` | the five liveness properties | events, warm requests and deletion, one session, two failures, close, no rival. One server identity: two never stand at once |

`serving_tenures` explores 1.7 million states; both runs take under a minute.

`EventReachable` is the safety core of delivery: every undelivered event has
something in hand that will meet it. It excepts a deleted space, a closed
host, and a space left once to a rival's lease: the host then rests, by design,
until the next notice or session. `WaveRefused` for a lost lease is not reached
with one process, since nothing takes the lease from a serving tenure: that is
the worker's replacement, below.

**Proofs** (`ServingHostProofs`). For any number of commits, openings, failures,
turns of a rival and server identities, under `HostAssumption`, which types the
constants (`Servers` finite and not empty):

| Theorem | States |
|---|---|
| `TypeCorrect` | `[]TypeOK` |
| `ServedUnderLease` | `[]ServesUnderLease` |
| `CloseQuiets` | `[]ClosedIsQuiet` |
| `EventsReachable` | `[]EventReachable` |

None of the three is inductive. `IInv` says what they rest on: only the
registered server has a tenure (`Alone`); the host's record fits that tenure's
stage, so that a re-evaluation or an activation that has not built its server
runs with none standing (`HostFits`); the lease is the host's exactly in the
stages that hold it (`LeaseFits`), so the release at a park's end can free no
other tenure's; and each undelivered event is found by what its tenure's stage
still has ahead (`EventsFound`): before its scan a tenure finds everything, after
it only what it drained, owes a scan for, or will be told of above its scan head.
The last is where the filter of the feed at a head read before awaits
(space-server.ts:2018) could lose an event. TLC checked `IInv` on the instance of
`serving_tenures`. The five liveness properties stay with TLC.

### ServingWorker implements LeaseTenures

**State.** `sup` is the supervisor on the server's thread, `bridge` and `worker`
the two ends of each generation's port, `up` and `down` the messages in between,
`lease` the lease map, `session` whether a client session is live. `history`
records what landed under which tenure; no code reads it.

**Steps.** A worker loads, is told of the sessions, acquires the lease under its
own holder name, seals waves under the tenure of its lease cycle, attempts them,
parks and releases (`WorkerStep`). The server's thread handles each message in
one turn (`BridgeReceives`). A worker may crash or stall at any point between its
first message and its answer to a close; the supervisor notices by the error or
the watchdog, tears it down, frees its leases and starts the next generation
after a delay (`ReportError`, `WatchdogKills`, `FinishTeardown`, `RespawnTimer`,
`Spawn`), or closes (`Close`, `CloseHost`, `FinishClose`). A stalled thread may
come back.

**What is promised.** `LeaseTenures`: stretches of holding do not overlap, one
that ended does not resume, and a wave lands only in the stretch it was sealed
in. `LeaseKept` is that refinement, with a tenure mapped to a generation and the
number of its lease cycle. The check of the tenure before an attempt matters
because resolution of a conflict awaits between a verdict and the next attempt.
`NoOrphanLease`: no lease outlives the teardown of its worker. `Recovers`: a
space with a live session is served again, which fails if a session that opened
before the bridge was attached is not replayed, and if a successor asks for the
lease before its predecessor's is freed.

**Bounds** (`worker_succession`, 619,000 states): two generations, two tenures of
each, two waves, a conflict, two troubles, one session opening, and close.

**Fairness.** Threads that are neither stalled nor gone run, errors and silence
are noticed, timers fire. Crashes and stalls are finite.

**Proofs** (`ServingWorkerProofs`). For any number of generations, tenures,
waves, conflicts, troubles and sessions, under `WorkerAssumption`, which types
the constants:

| Theorem | States |
|---|---|
| `TypeCorrect` | `[]TypeOK` |
| `NoLeaseOrphaned` | `[]NoOrphanLease` |
| `LeaseImplemented` | `LeaseKept`: every step is a step of `LeaseTenures` or a stutter |

The two threads share only the port, so `IInv` is about it (`PortOf`, for one
generation): at most one request on the way up and one reply on the way down, not
both; what each message says of its sender and of the lease holds while it is on
its way, and no wave travels behind a release; the server has granted one tenure
more than the worker counts exactly while a grant is on its way down. With
`SupOK` (one worker is the supervisor's own, and only that one or the one it
closes is listened to), `StartsOK` (generations start in order), `EndedOK` (a
tenure that ended had been granted) and `NoOrphanLease` itself, a wave that
reaches the server was sealed in the tenure its sender still holds. TLC checked
`IInv` on the instance of `worker_succession`. `Recovers` is liveness and stays
with TLC.


## 9. Observations

Met while modelling and reproduced with TLC on variants of the runs, but not kept
as runs:

- A refused commit leaves no row. If its verdict is lost, the resend is decided
  afresh and can be accepted behind a later commit of its session (engine.ts:6181),
  while `docs/specs/memory-v2/09-invariants.md:304-316` (INV-5) has resolution
  follow `localSeq`.
- With `ReplaceEarly = TRUE`, a replica replaced before its queue's last save
  strands an event in the closed queue (storage/v2.ts:5211;
  event-append-queue.ts:39-42 says the successor takes it over).
- A commit is authorized before its replay is detected (server.ts:7707-7747). One
  that was applied, whose verdict was lost and whose principal has come to lose WRITE,
  is answered `AuthorizationError` when it is sent again, and the client rejects its
  call (client.ts:5153-5161), though `docs/specs/memory-v2/09-invariants.md:444-448`
  (INV-11) has an identical payload return the original result. Likewise a space's
  genesis commit that carries declarations is refused when it is sent again, because
  the space has a history by then (server.ts:898-912, 4443-4453). `CommitCall` says what
  is left: a denial does not tell.
- The resend of an append that landed is reported refused if the access list has
  come to deny the client meanwhile (event-append-queue.ts:545-550). Likewise an
  append whose answer was lost can land after its resend was refused.
- A replaced session promotes an accepted blind patch over a base that may have
  missed a write, until its watches are back (storage/v2.ts:13173-13190).

## 10. What is not modelled, and why

- **In the engine**: branches and merges, scope resolution (a document here is
  an id with its scope key), CFC labels and schema closure, sqlite and op-field
  operations, snapshots, and compaction, whose guard `compactedBelow` only
  refuses more. Event appends and their watermark are in `EventDelivery`.
- **In sessions and replicas**: presence, operation watches, acknowledgements,
  view interests, renewal of authentication, several sessions on a connection;
  elided operations, sealed commits, speculation, the transaction's journal and
  claims, the growth of a watch set, and admission modes other than the default.
  `SessionResume` is run with the access lists enforced.
- **In the executor**: lifecycle verbs and quiescence waits, parked-runtime
  retention, held records and own echoes in `#drainFeed`, deferral budgets,
  effects and their completion, shadow floors, the resolution of a wave's
  conflicts document by document, loopback transports, and several spaces, which
  share no state but the worker.
- **Elsewhere**: the components section 1 marks planned or not modelled. Compilers,
  encodings, traversal by schema, front ends and patterns make up most of the
  repository's lines; they are pure functions or I/O around the state modelled
  here, so the map covers a small share of the whole repository.
- **By nature of the tools**: liveness (`EventsServed` and its four siblings,
  `Recovers`, `Settles`, the fairness halves of `CallKept` and `IntentsKept`) stays
  with TLC.
