----------------------------- MODULE ClientReplica -----------------------------
(***************************************************************************)
(* A client's replica of a space (runner/src/storage/v2.ts, SpaceReplica)  *)
(* against the server that decides its commits and pushes it documents     *)
(* (memory/v2/server.ts).  The replica shows each document as a confirmed  *)
(* version under a stack of layers, one for each own commit that is not    *)
(* settled.  Verdicts and frames come over one ordered channel.            *)
(*                                                                         *)
(* A document is the sequence of the commits whose writes it shows: a set  *)
(* leaves the one, a patch adds to what is there.  Documents exist and are *)
(* watched from the start; seq 0 is the version they have then.  A read is *)
(* of a whole document, and the engine's check of it is CommitEngine's,    *)
(* without identities.                                                     *)
(***************************************************************************)
EXTENDS Naturals, Sequences, FiniteSets, SequencesExt

CONSTANTS
  Docs,
  MaxCommits,     \* bound on the replica's commits
  MaxForeign,     \* bound on the commits of other sessions
  MaxFaults,      \* bound on lost connections and repair timeouts
  ReadUnsettled   \* whether a commit may read a document that is Unsettled

ASSUME ReplicaAssumption ==
  /\ IsFiniteSet(Docs) /\ Docs # {}
  /\ {MaxCommits, MaxForeign, MaxFaults} \subseteq Nat
  /\ ReadUnsettled \in BOOLEAN

Commits == 1..MaxCommits

Foreign == 0   \* the author of another session's commit
Watches == 0   \* among what a restore waits for, the answer to its watch set

VARIABLES
  log,        \* the store: who wrote what, and the document it left
  server,     \* the session's delivery state and the space's dirty batch
  toServer,   \* requests on the way
  toClient,   \* verdicts and frames on the way
  issued,     \* own commits in local order, with the reads they carry
  fate,       \* what has become of each
  retryAfter, \* the store's seq at a refusal
  replica,    \* confirmed versions, layers, and what the replica was told
  faults      \* what is left of MaxFaults

vars == <<log, server, toServer, toClient, issued, fate, retryAfter, replica, faults>>

-----------------------------------------------------------------------------
(* The store                                                               *)

HeadAt(d, q) == Max({p \in 1..q : log[p].doc = d} \cup {0})

HeadSeq(d) == HeadAt(d, Len(log))

DocAt(d, q) == LET h == HeadAt(d, q) IN IF h = 0 THEN <<>> ELSE log[h].val

AckSeq(n) == CHOOSE q \in DOMAIN log : log[q].by = n

Resolved(n) == \E q \in DOMAIN log : log[q].by = n

\* What an operation makes of a document (`applyPendingVersion`).
Applied(val, op, tag) == IF op = "set" THEN <<tag>> ELSE Append(val, tag)

\* Mutant: a stacked read is checked above its top layer only.
FreshAboveLayers(d, r) ==
  /\ \A n \in r.layers : Resolved(n)
  /\ \A q \in DOMAIN log :
       /\ q > r.basis /\ log[q].doc = d
       /\ \A n \in r.layers : q > AckSeq(n)
       => log[q].by \in r.layers

\* `findConflictSeq`, `resolvePendingReads`: the layers a read names are stored
\* and nothing else was written above its basis.
Fresh(d, r) ==
  /\ \A n \in r.layers : Resolved(n)
  /\ \A q \in DOMAIN log : q > r.basis /\ log[q].doc = d => log[q].by \in r.layers

Admissible(c) == \A d \in DOMAIN c.reads : Fresh(d, c.reads[d])

-----------------------------------------------------------------------------
(* The server's side of the session                                        *)

NoOrigin == [by |-> "none", seq |-> 0, op |-> "set"]

\* `markSpaceDirty` with an origin: two origins in one batch leave none.
Mark(s, d, origin) ==
  [s EXCEPT !.dirty = @ \cup {d},
            !.origin[d] = IF d \in s.dirty /\ @.by # origin.by THEN NoOrigin ELSE origin]

\* `stageConflictRefreshDirtyIds`: what a refused commit wrote or read is due
\* again, whoever wrote it.
MarkRefused(s, c) ==
  LET due == {c.doc} \cup DOMAIN c.reads
  IN  [s EXCEPT !.dirty = @ \cup due,
                !.origin = [d \in Docs |-> IF d \in due THEN NoOrigin ELSE @[d]]]

\* The verdict of `n` is owed a frame that covers it.
Owe(s, n) == [s EXCEPT !.owed = Max({@, n})]

Verdict(n, ok, seq) == [type |-> "verdict", n |-> n, ok |-> ok, seq |-> seq]

Frame(upserts, marker, restores) ==
  [type |-> "frame", upserts |-> upserts, marker |-> marker, restores |-> restores]

Snapshot(docs) == [d \in docs |-> [seq |-> HeadSeq(d), val |-> DocAt(d, Len(log))]]

\* Another session's commit is admitted.
CommitForeign(d, op) ==
  LET tag == MaxCommits + Len(log) + 1
  IN  /\ Cardinality({q \in DOMAIN log : log[q].by = Foreign}) < MaxForeign
      /\ log' = Append(log, [doc |-> d, by |-> Foreign,
                             val |-> Applied(DocAt(d, Len(log)), op, tag)])
      /\ server' = Mark(server, d, [by |-> "other", seq |-> Len(log) + 1, op |-> op])
      /\ UNCHANGED <<toServer, toClient, issued, fate, retryAfter, replica, faults>>

\* `#decideTransaction`: a commit seen before is answered as it was, a new one
\* is stored or refused.  The answer leaves before the frame that covers it.
Decide ==
  /\ toServer # <<>> /\ Head(toServer).type = "commit"
  /\ LET n == Head(toServer).n
         c == issued[n]
         Own(seq) == [by |-> "own", seq |-> seq, op |-> c.op]
     IN  \/ /\ Resolved(n)
            /\ server' = Owe(Mark(server, c.doc, Own(AckSeq(n))), n)
            /\ toClient' = Append(toClient, Verdict(n, TRUE, AckSeq(n)))
            /\ UNCHANGED log
         \/ /\ ~ Resolved(n) /\ Admissible(c)
            /\ log' = Append(log, [doc |-> c.doc, by |-> n,
                                   val |-> Applied(DocAt(c.doc, Len(log)), c.op, n)])
            /\ server' = Owe(Mark(server, c.doc, Own(Len(log) + 1)), n)
            /\ toClient' = Append(toClient, Verdict(n, TRUE, Len(log) + 1))
         \/ /\ ~ Resolved(n) /\ ~ Admissible(c)
            /\ server' = Owe(MarkRefused(server, c), n)
            /\ toClient' = Append(toClient, Verdict(n, FALSE, Len(log)))
            /\ UNCHANGED log
  /\ toServer' = Tail(toServer)
  /\ UNCHANGED <<issued, fate, retryAfter, replica, faults>>

\* Mutant: a head is withheld from every session when its commit set it whole.
HeldByAnyone(d) ==
  server.origin[d].seq = HeadSeq(d) /\ server.origin[d].op = "set"

\* The writer holds the head: its own set, which verdict and marker promote.
Held(d) ==
  LET o == server.origin[d]
  IN  o.by = "own" /\ o.seq = HeadSeq(d) /\ o.op = "set"

Marker(s) == IF s.owed > s.told THEN s.owed ELSE 0

\* Mutant: nothing is sent when no document is.
FrameWithDocs(upserts) == upserts # {}

\* A pass sends a frame for documents or for a marker alone.
FrameDue(upserts) == upserts # {} \/ Marker(server) > 0

\* The batched flush (`#syncSessionForConnection`).  A session with no watches
\* yet is sent markers only.
Flush ==
  LET upserts == {d \in server.dirty : /\ server.watching
                                       /\ HeadSeq(d) # server.sent[d] /\ ~ Held(d)}
  IN  /\ server.dirty # {} \/ Marker(server) > 0
      /\ toClient' = IF FrameDue(upserts)
                     THEN Append(toClient, Frame(Snapshot(upserts), Marker(server), FALSE))
                     ELSE toClient
      /\ server' = [server EXCEPT
                      !.dirty = {}, !.origin = [d \in Docs |-> NoOrigin],
                      !.sent = [d \in Docs |-> IF d \in server.dirty /\ server.watching
                                               THEN HeadSeq(d) ELSE @[d]],
                      !.told = Max({@, server.owed}), !.owed = 0]
      /\ UNCHANGED <<log, toServer, issued, fate, retryAfter, replica, faults>>

\* `session.watch.set` of a re-established session: the answer is the
\* difference to what the client says it holds.
SetWatches ==
  /\ toServer # <<>> /\ Head(toServer).type = "watch"
  /\ toClient' = Append(toClient,
                   Frame(Snapshot({d \in Docs : HeadSeq(d) # Head(toServer).holdings[d]}), 0, TRUE))
  /\ server' = [server EXCEPT !.watching = TRUE, !.sent = [d \in Docs |-> HeadSeq(d)]]
  /\ toServer' = Tail(toServer)
  /\ UNCHANGED <<log, issued, fate, retryAfter, replica, faults>>

-----------------------------------------------------------------------------
(* The replica                                                             *)

Op(n) == issued[n].op

\* A document with the writes of some commits over it, in local order.
Layered(val, layers) ==
  LET over[n \in 0..MaxCommits] ==
        IF n = 0 THEN val
        ELSE IF n \in layers THEN Applied(over[n - 1], Op(n), n) ELSE over[n - 1]
  IN  over[MaxCommits]

\* The document as the replica shows it: its layers over the confirmed version.
View(d) == Layered(replica.confirmed[d].val, replica.pending[d])

\* `#buildReads`: the whole stack and the confirmed seq under it.  `seen` is
\* what the transaction read, which its claim check compares with the replica
\* before this.
ReadOf(d) ==
  [basis |-> replica.confirmed[d].seq, layers |-> replica.pending[d], seen |-> View(d)]

Deps(n) == UNION {issued[n].reads[d].layers : d \in DOMAIN issued[n].reads}

\* Refused commits whose layers stand while the read repair runs
\* (`#rejectedPendingLayers`).
Dead == {n \in Commits : fate[n] \in {"repairing", "waiting", "doomed"}}

\* A document shown as the store never held it: a layer stands on a base that
\* has its write already, brought by the catch-up of a resumed session or the
\* answer to a watch set before the marker; or a replaced session's promotions
\* rest on a base that missed a write.
Unsettled(d) ==
  \/ Watches \in replica.restoring
  \/ \E n \in replica.pending[d] :
       Resolved(n) /\ AckSeq(n) <= replica.confirmed[d].seq

\* No accept is between its answer and `#settleAccept`, some microtasks on;
\* frames that came with the answer are taken in meanwhile, nothing else is.
TurnOver == \A n \in Commits : fate[n] # "accepted"

\* `commitOperations`: a commit that writes d and has read docs.
Issue(d, op, docs) ==
  LET n == Len(issued) + 1
  IN  /\ n <= MaxCommits
      /\ ReadUnsettled \/ \A e \in docs : ~ Unsettled(e)
      /\ TurnOver
      /\ issued' = Append(issued, [doc |-> d, op |-> op, reads |-> [e \in docs |-> ReadOf(e)]])
      /\ fate' = [fate EXCEPT ![n] = "queued"]
      /\ replica' = [replica EXCEPT !.pending[d] = @ \cup {n}]
      /\ UNCHANGED <<log, server, toServer, toClient, retryAfter, faults>>

\* `#pushCommit` up to the send: a commit that names a dead layer is refused
\* here (`#preSendRejection`) and waits for that layer's drop.  A commit made
\* during a restore goes out when the restore is done.
Send(n) ==
  /\ TurnOver
  /\ fate[n] = "queued" /\ \A m \in 1..(n - 1) : fate[m] # "queued"
  /\ replica.restoring = {}
  /\ IF Deps(n) \cap Dead # {}
     THEN /\ fate' = [fate EXCEPT ![n] = "waiting"]
          /\ UNCHANGED <<toServer, replica>>
     ELSE /\ fate' = [fate EXCEPT ![n] = "sent"]
          /\ toServer' = Append(toServer, [type |-> "commit", n |-> n])
          /\ replica' = [replica EXCEPT !.outstanding = @ \cup {n}]
  /\ UNCHANGED <<log, server, toClient, issued, retryAfter, faults>>

\* `#confirmPending` of accepted commits on d, in local order: a layer is
\* replayed on a confirmed version older than it.
Promoted(version, d, ns) ==
  LET after[n \in 0..MaxCommits] ==
        IF n = 0 THEN version
        ELSE IF n \in ns /\ issued[n].doc = d /\ after[n - 1].seq < AckSeq(n)
             THEN [seq |-> AckSeq(n), val |-> Applied(after[n - 1].val, Op(n), n)]
             ELSE after[n - 1]
  IN  after[MaxCommits]

\* The layers of the accepted commits go.
Confirmed(r, ns) ==
  [r EXCEPT !.confirmed = [d \in Docs |-> Promoted(@[d], d, ns)],
            !.pending = [d \in Docs |-> @[d] \ ns]]

\* A commit's answer arrives.  The answer of a commit rejected locally is
\* moot (`#suppressLateVerdict`).
ReceiveVerdict ==
  /\ toClient # <<>> /\ Head(toClient).type = "verdict"
  /\ LET v == Head(toClient)
     IN  /\ replica' = [replica EXCEPT !.outstanding = @ \ {v.n}, !.restoring = @ \ {v.n}]
         /\ IF fate[v.n] # "sent" THEN UNCHANGED <<fate, retryAfter>>
            ELSE /\ fate' = [fate EXCEPT ![v.n] = IF v.ok THEN "accepted" ELSE "repairing"]
                 /\ retryAfter' = IF v.ok THEN retryAfter ELSE [retryAfter EXCEPT ![v.n] = v.seq]
  /\ toClient' = Tail(toClient)
  /\ UNCHANGED <<log, server, toServer, issued, faults>>

\* Microtasks run in the order of the answers.
NextAccepted(n) == fate[n] = "accepted" /\ \A m \in 1..(n - 1) : fate[m] # "accepted"

\* Mutant: an accepted commit is promoted at its verdict.
SettleAtVerdict(n) ==
  /\ NextAccepted(n)
  /\ fate' = [fate EXCEPT ![n] = "applied"]
  /\ replica' = Confirmed(replica, {n})
  /\ UNCHANGED <<log, server, toServer, toClient, issued, retryAfter, faults>>

\* `#settleAccept`, microtasks after the answer: the promotion waits for the
\* marker unless a frame has brought it meanwhile.
SettleAccept(n) ==
  /\ NextAccepted(n)
  /\ IF replica.caughtUp >= n
     THEN /\ fate' = [fate EXCEPT ![n] = "applied"]
          /\ replica' = Confirmed(replica, {n})
     ELSE /\ fate' = [fate EXCEPT ![n] = "parked"]
          /\ UNCHANGED replica
  /\ UNCHANGED <<log, server, toServer, toClient, issued, retryAfter, faults>>

Parked == {n \in Commits : fate[n] = "parked"}

\* `#applySessionSync`: newer versions replace confirmed ones, and then what
\* the frame's marker covers is promoted (`#noteCaughtUpLocalSeq`).
ReceiveFrame ==
  /\ toClient # <<>> /\ Head(toClient).type = "frame"
  /\ LET f == Head(toClient)
         new == {d \in DOMAIN f.upserts : f.upserts[d].seq >= replica.confirmed[d].seq}
         told == Max({replica.caughtUp, f.marker})
         due == {n \in Parked : f.marker > 0 /\ n <= told}
         merged == [replica EXCEPT
                      !.confirmed = [d \in Docs |-> IF d \in new THEN f.upserts[d] ELSE @[d]],
                      !.delivered = [d \in Docs |-> IF d \in new THEN f.upserts[d].seq ELSE @[d]],
                      !.caughtUp = told,
                      !.restoring = IF f.restores THEN @ \ {Watches} ELSE @]
     IN  /\ replica' = Confirmed(merged, due)
         /\ fate' = [n \in Commits |-> IF n \in due THEN "applied" ELSE fate[n]]
  /\ toClient' = Tail(toClient)
  /\ UNCHANGED <<log, server, toServer, issued, retryAfter, faults>>

\* Mutant: a refused commit is dropped as its verdict comes.
ReadyAtVerdict(n) == fate[n] \in {"repairing", "waiting", "doomed"}

\* What a refused commit waits for before its layer goes
\* (`#waitForConflictReadRepair`): the frame that repairs its reads, or the
\* drops of the dead layers it named.
Ready(n) ==
  \/ fate[n] = "doomed"
  \/ fate[n] = "repairing" /\ replica.caughtUp >= n
  \/ fate[n] = "waiting" /\ Deps(n) \cap Dead = {}

\* Mutant: a drop takes the layers above it on the document along.
Above(n) ==
  {m \in 1..Len(issued) : m > n /\ issued[m].doc = issued[n].doc /\ fate[m] \in {"queued", "sent"}}

\* `#cascadeDroppedDependency`: commits in flight that read through the layer.
Dependants(n) == {m \in 1..Len(issued) : fate[m] \in {"queued", "sent"} /\ n \in Deps(m)}

\* The end of `#finalizeRejection`: the layer goes, and commits that read
\* through it are rejected locally.
Drop(n) ==
  /\ Ready(n)
  /\ fate' = [m \in Commits |-> IF m = n THEN "rejected"
                                ELSE IF m \in Dependants(n) THEN "doomed" ELSE fate[m]]
  /\ replica' = [replica EXCEPT
                   !.pending = [d \in Docs |-> @[d] \ {n}]]
  /\ UNCHANGED <<log, server, toServer, toClient, issued, retryAfter, faults>>

-----------------------------------------------------------------------------
(* Faults                                                                  *)

Fault == faults > 0 /\ faults' = faults - 1

\* CONFLICT_READ_REPAIR_TIMEOUT_MS: what the refused commit waits for did not come.
RepairTimesOut(n) ==
  /\ fate[n] \in {"repairing", "waiting"} /\ Fault
  /\ fate' = [fate EXCEPT ![n] = "doomed"]
  /\ UNCHANGED <<log, server, toServer, toClient, issued, retryAfter, replica>>

\* The commit of S that has i of them up to it.
Nth(S, i) == CHOOSE n \in S : Cardinality({m \in S : m <= n}) = i

\* The commits without a verdict, in local order.
Resent == [i \in 1..Cardinality(replica.outstanding) |->
             [type |-> "commit", n |-> Nth(replica.outstanding, i)]]

\* A connection is lost between two turns of the client.
Lose == Fault /\ TurnOver /\ replica.restoring = {}

\* The session is resumed: the catch-up is the difference to the holdings the
\* client declares, with the markers it may have missed, and every commit
\* without a verdict is sent again.
Resume ==
  /\ Lose
  /\ server' = [server EXCEPT !.sent = [d \in Docs |-> HeadSeq(d)],
                              !.told = Max({@, server.owed}), !.owed = 0]
  /\ toClient' = <<Frame(Snapshot({d \in Docs : HeadSeq(d) # replica.delivered[d]}),
                         Max({server.told, server.owed}), FALSE)>>
  /\ toServer' = Resent
  /\ replica' = [replica EXCEPT !.restoring = @ \cup replica.outstanding]
  /\ UNCHANGED <<log, issued, fate, retryAfter>>

\* The server has forgotten the session.  No marker of it can come, so what is
\* parked is promoted (`#applyParkedAcceptsNow`) and repairs end; the commits
\* go out again, and behind them the watch set.
Replace ==
  /\ Lose
  /\ server' = [server EXCEPT !.watching = FALSE, !.owed = 0, !.told = 0]
  /\ toClient' = <<>>
  /\ toServer' = Append(Resent, [type |-> "watch", holdings |-> replica.delivered])
  /\ replica' = [Confirmed(replica, Parked) EXCEPT !.restoring = {Watches} \cup replica.outstanding]
  /\ fate' = [n \in Commits |-> CASE fate[n] = "parked" -> "applied"
                                  [] fate[n] = "repairing" -> "doomed"
                                  [] OTHER -> fate[n]]
  /\ UNCHANGED <<log, issued, retryAfter>>

-----------------------------------------------------------------------------
Init ==
  /\ log = <<>>
  /\ server = [watching |-> TRUE, sent |-> [d \in Docs |-> 0], dirty |-> {},
               origin |-> [d \in Docs |-> NoOrigin], owed |-> 0, told |-> 0]
  /\ toServer = <<>> /\ toClient = <<>>
  /\ issued = <<>>
  /\ fate = [n \in Commits |-> "unissued"]
  /\ retryAfter = [n \in Commits |-> 0]
  /\ replica = [confirmed |-> [d \in Docs |-> [seq |-> 0, val |-> <<>>]],
                pending |-> [d \in Docs |-> {}], delivered |-> [d \in Docs |-> 0],
                caughtUp |-> 0, outstanding |-> {}, restoring |-> {}]
  /\ faults = MaxFaults

\* Steps the two processes take by themselves.
Progress ==
  \/ Decide \/ Flush \/ SetWatches \/ ReceiveVerdict \/ ReceiveFrame
  \/ \E n \in Commits : Send(n) \/ SettleAccept(n) \/ Drop(n)

Next ==
  \/ Progress
  \/ \E d \in Docs, op \in {"set", "patch"} :
       CommitForeign(d, op) \/ \E docs \in SUBSET Docs : Issue(d, op, docs)
  \/ \E n \in Commits : RepairTimesOut(n)
  \/ Resume \/ Replace

Spec == Init /\ [][Next]_vars /\ WF_vars(Progress)

-----------------------------------------------------------------------------
(* Properties                                                              *)

\* Types; a layer stands exactly as long as its commit is neither applied nor
\* rejected (the records' `pending`).
TypeOK ==
  /\ \A n \in Commits : fate[n] \in
       {"unissued", "queued", "sent", "accepted", "parked", "applied",
        "repairing", "waiting", "doomed", "rejected"}
  /\ \A d \in Docs : replica.pending[d] =
       {n \in 1..Len(issued) : issued[n].doc = d /\ fate[n] \notin {"applied", "rejected"}}
  /\ server.dirty \subseteq Docs /\ faults \in 0..MaxFaults

\* A confirmed version is what the store held at its seq: promotions made from
\* verdicts and frames never invent one (INV-9).  While a replaced session has
\* no watches, a promotion may rest on a version the replica missed.
MirrorTrue ==
  Watches \notin replica.restoring =>
    \A d \in Docs : replica.confirmed[d].val = DocAt(d, replica.confirmed[d].seq)

\* What a stored commit read, through whatever layers and frames, is what the
\* store held just before it (INV-1).
SeenIsStored ==
  \A q \in DOMAIN log : log[q].by # Foreign =>
    LET reads == issued[log[q].by].reads
    IN  \A d \in DOMAIN reads : reads[d].seen = DocAt(d, q - 1)

\* A commit whose write the replica took back is not in the store (INV-6).
DroppedNotStored == \A n \in Commits : fate[n] = "rejected" => ~ Resolved(n)

\* While no connection is lost, a refused commit is dropped when the replica
\* shows what it was refused for, so that a retry does not repeat the refusal
\* (`#waitForConflictReadRepair`).  A commit sent again may be refused again,
\* for later writes, under a marker of its first refusal.
RepairedBase ==
  [][\A n \in Commits :
       faults = MaxFaults /\ fate[n] = "repairing" /\ fate'[n] = "rejected" =>
         \A d \in {issued[n].doc} \cup DOMAIN issued[n].reads :
           LET h == HeadAt(d, retryAfter[n])
           IN  \/ replica.confirmed[d].seq >= h
               \/ log[h].by \in replica.pending[d]]_vars

\* When nothing is on the way or owed, the replica shows the store.
QuietView ==
  /\ toServer = <<>> /\ toClient = <<>>
  /\ server.dirty = {} /\ Marker(server) = 0
  /\ \A n \in Commits : fate[n] \in {"unissued", "applied", "rejected"}
  => \A d \in Docs : View(d) = DocAt(d, Len(log))

\* Every commit is applied or rejected in the end.
Settles ==
  \A n \in Commits :
    fate[n] = "queued" ~> fate[n] \in {"applied", "rejected"}
=============================================================================
