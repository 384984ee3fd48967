---------------------------- MODULE CommitEngine ----------------------------
(***************************************************************************)
(* Commit admission of the memory engine (runtime/memory/v2/engine.ts,     *)
(* applyCommitTransaction): the decision one space's store takes about     *)
(* each submitted commit, on the default branch.                           *)
(*                                                                         *)
(* The store is its two tables: `commits`, where the seq of a row is its   *)
(* position, and `revisions`, the rows the write loop inserts for the      *)
(* operations that were not elided.  A document is never stored; it is     *)
(* replayed from its revisions (DocAt).  A submission is decided inside    *)
(* one SQLite transaction, so one step decides one submission: Accept,     *)
(* Replay (an exact resubmission, answered from the store) or Refuse.      *)
(*                                                                         *)
(* A document is a set of keyed values (one level of the JSON tree is kept *)
(* because the conflict matcher tells a key from its container); a hash is *)
(* the value it is the hash of.                                            *)
(***************************************************************************)
EXTENDS Naturals, Sequences, FiniteSets, SequencesExt

CONSTANTS
  Sessions,        \* commit session keys (resolveCommitSessionKey)
  Docs, Keys,      \* document instances (id and scope key); their keys
  Holders,         \* lease holder identities: keys of their service sessions
  ContentDocs,     \* `cid:` documents
  ContentOf,       \* the content each `cid:` id is the hash of
  AclDoc,          \* the document whose tombstone deletes the space
  Tombstone,       \* the value of a deleted space's ACL document
  ElidedVerdicts,  \* sessions whose client advertised `elidedVerdicts`
  Absent, None,    \* no document; no value at a key
  NoBasis,         \* the basis of a legacy pending read
  NoHolder,        \* the free lease; the holder of an authored commit
  Submissions,     \* the commits clients may submit
  Renumbered,      \* those a client may send under a number it already used
  MaxSeq           \* bound on the length of the commit log

ASSUME EngineAssumption ==
  /\ Holders \subseteq Sessions
  /\ NoHolder \notin Holders
  /\ ContentDocs \subseteq Docs
  /\ \A d \in ContentDocs : ContentOf[d] # Absent
  /\ NoBasis \notin Nat
  /\ MaxSeq \in Nat
  /\ Renumbered \subseteq Submissions
  /\ \A c \in Submissions :
       /\ c.session \in Sessions
       /\ c.localSeq \in Nat
       /\ c.class \in {"authored", "derived"}
       /\ c.holder \in Holders \cup {NoHolder}
       /\ c.ops \in Seq(Range(c.ops))
       /\ \A o \in Range(c.ops) :
            /\ o.op \in {"set", "delete", "replace", "add", "increment"}
            /\ o.doc \in Docs
            /\ o.key \in Keys
            /\ o.createsKey \in BOOLEAN
       /\ c.confirmed \in Seq(Range(c.confirmed))
       /\ c.pending \in Seq(Range(c.pending))
       /\ \A r \in Range(c.confirmed) : r.seq \in Nat
       /\ \A r \in Range(c.pending) :
            /\ r.layers \in SUBSET Nat
            /\ r.basis \in Nat \cup {NoBasis}

VARIABLES
  commits,    \* the commit table: commits[seq] is the commit as received
  revisions,  \* the revision table: [seq, opIndex, op]
  lease,      \* holder the memory server's lease map names for the space
  submitted,  \* every commit some session has sent (it may send it again)
  granted,    \* every acceptance answered so far, replayed answers included
  verdict     \* the answer to the last submission

vars == <<commits, revisions, lease, submitted, granted, verdict>>

serverSeq == Len(commits)

-----------------------------------------------------------------------------
(* Operations and documents (patch.ts)                                     *)

PatchOps == {"replace", "add", "increment"}

EmptyDocument == [k \in Keys |-> None]

\* One operation on a possibly absent document.  `replace` and `add` both
\* write the key; an `increment` of a missing key creates it.
ApplyOperation(doc, o) ==
  LET base == IF doc = Absent THEN EmptyDocument ELSE doc IN
  CASE o.op = "set"    -> o.val
    [] o.op = "delete" -> Absent
    [] o.op \in {"replace", "add"} -> [base EXCEPT ![o.key] = o.val]
    [] o.op = "increment" ->
         [base EXCEPT ![o.key] = IF @ = None THEN o.val ELSE @ + o.val]

\* The document after the operations of `ops` at the indexes `some`, in order.
ReplayOps(doc, ops, some) ==
  LET after[j \in 0..Len(ops)] ==
        IF j = 0 THEN doc
        ELSE IF j \in some THEN ApplyOperation(after[j - 1], ops[j]) ELSE after[j - 1]
  IN  after[Len(ops)]

\* The indexes of the operations on document d.
OpsOn(ops, d) == {j \in DOMAIN ops : ops[j].doc = d}

\* The operations of commit seq that were stored for document d.
StoredOps(seq, d) ==
  {j \in OpsOn(commits[seq].ops, d) : \E v \in revisions : v.seq = seq /\ v.opIndex = j}

\* Document d at a seq, replayed from its revisions.
DocAt(d, seq) ==
  LET at[n \in 0..seq] ==
        IF n = 0 THEN Absent ELSE ReplayOps(at[n - 1], commits[n].ops, StoredOps(n, d))
  IN  at[seq]

Stored(d) == DocAt(d, serverSeq)

-----------------------------------------------------------------------------
(* Conflict detection (findConflictSeq)                                    *)

\* The path a patch names, and whether it changes its container's key set.
TouchedLeafPath(o) == <<o.key>>

ChangesParentKeySet(o) == o.op = "add" \/ o.createsKey

TouchedPaths(o) ==
  {TouchedLeafPath(o)} \cup (IF ChangesParentKeySet(o) THEN {<<>>} ELSE {})

PathsOverlap(p, q) == IsPrefix(p, q) \/ IsPrefix(q, p)

PatchOverlapsRead(o, path) == PathsOverlap(TouchedLeafPath(o), path)

PatchOverlapsNonRecursiveRead(o, path) ==
  \E t \in TouchedPaths(o) : IsPrefix(t, path)

\* A whole-document set or delete conflicts whatever the path; a patch
\* conflicts with a read whose path (or whose container's shape) it touches.
Touches(o, r) ==
  \/ o.op \notin PatchOps
  \/ IF r.nonRecursive THEN PatchOverlapsNonRecursiveRead(o, r.path)
                       ELSE PatchOverlapsRead(o, r.path)

OwnLayer(s, layers, seq) ==
  commits[seq].session = s /\ commits[seq].localSeq \in layers

\* Mutant: every write of the reading session is taken to be in its view.
ConflictsOfOthers(r, after, s, layers) ==
  {v \in revisions : /\ v.seq > after
                     /\ v.op.doc = r.doc
                     /\ Touches(v.op, r)
                     /\ commits[v.seq].session # s}

\* The revisions after `after` that make read r stale, the named own layers
\* of session s excepted.
Conflicts(r, after, s, layers) ==
  {v \in revisions : /\ v.seq > after
                     /\ v.op.doc = r.doc
                     /\ Touches(v.op, r)
                     /\ ~ OwnLayer(s, layers, v.seq)}

-----------------------------------------------------------------------------
(* Read validation (validateConfirmedReads, resolvePendingReads)           *)

Resolutions(s, n) ==
  {q \in DOMAIN commits : commits[q].session = s /\ commits[q].localSeq = n}

Accepted(s, n) == Resolutions(s, n) # {}

ResolutionSeq(s, n) == CHOOSE q \in Resolutions(s, n) : TRUE

ConfirmedReadsFresh(c) ==
  \A r \in Range(c.confirmed) : Conflicts(r, r.seq, c.session, {}) = {}

DependenciesResolved(c) ==
  \A r \in Range(c.pending) : \A n \in r.layers : Accepted(c.session, n)

\* The first of a commit's reads of document d.
ReadsOn(reads, d) == {j \in DOMAIN reads : reads[j].doc = d}

FirstOn(reads, d) == reads[Min(ReadsOn(reads, d))]

\* Mutant: an identity layer vouches for any later reader.
ViewTakenAsProved(layer, r) == OpsOn(layer.ops, r.doc) # {}

\* Whether the view a layer's identity was proved against is the reader's:
\* its first operation is a set, or the read the proof used sat on the
\* reader's basis through layers the reader names.
ViewIsProved(layer, r) ==
  LET pending   == FirstOn(layer.pending, r.doc)
      confirmed == FirstOn(layer.confirmed, r.doc)
  IN  \/ layer.ops[Min(OpsOn(layer.ops, r.doc))].op = "set"
      \/ /\ ReadsOn(layer.pending, r.doc) # {}
         /\ pending.basis = r.basis
         /\ pending.layers \subseteq r.layers
      \/ /\ ReadsOn(layer.pending, r.doc) = {}
         /\ ReadsOn(layer.confirmed, r.doc) # {}
         /\ confirmed.seq = r.basis

\* The named layers accepted as an identity for the read's document.
IdentityLayers(c, r) ==
  {q \in DOMAIN commits :
     /\ OwnLayer(c.session, r.layers, q)
     /\ q > r.basis
     /\ LET ops == OpsOn(commits[q].ops, r.doc) IN
          /\ ops # {}
          /\ \A j \in ops : commits[q].ops[j].op # "delete"
     /\ ~ \E v \in revisions : v.seq = q /\ v.op.doc = r.doc
     /\ ViewIsProved(commits[q], r)}

\* The seq a true-basis read is scanned from once its own basis found a
\* conflict: the newest identity layer it names.
IdentityBasis(c, r) ==
  LET q == IdentityLayers(c, r) IN IF q = {} THEN r.basis ELSE Max(q)

PendingReadFresh(c, r) ==
  IF r.basis = NoBasis
  THEN Conflicts(r, ResolutionSeq(c.session, Max(r.layers)), c.session, {}) = {}
  ELSE \/ Conflicts(r, r.basis, c.session, r.layers) = {}
       \/ /\ IdentityBasis(c, r) > r.basis
          /\ Conflicts(r, IdentityBasis(c, r), c.session, r.layers) = {}

ReadsFresh(c) ==
  /\ ConfirmedReadsFresh(c)
  /\ \A r \in Range(c.pending) : PendingReadFresh(c, r)

-----------------------------------------------------------------------------
(* Elision (content-addressed re-sets, identity commits)                   *)

\* A `cid:` document takes only sets of the content its id names.
ContentAddressed(c) ==
  \A j \in DOMAIN c.ops : c.ops[j].doc \in ContentDocs =>
     c.ops[j].op = "set" /\ c.ops[j].val = ContentOf[c.ops[j].doc]

\* Mutant: a repeated installation of the same content is written again.
NoElidedContentSets(c) == {}

ElidedContentSets(c) ==
  {j \in DOMAIN c.ops : c.ops[j].doc \in ContentDocs
                        /\ Stored(c.ops[j].doc) # Absent}

\* The operations of own layer n of session s.
LayerOps(s, n) == commits[ResolutionSeq(s, n)].ops

\* The document as session s saw it: its confirmed basis with the named own
\* layers replayed on it in local order.
PendingView(s, r) ==
  LET shown[n \in 0..(Max(r.layers) + 1)] ==
        IF n = 0 THEN DocAt(r.doc, r.basis)
        ELSE IF n - 1 \in r.layers
             THEN ReplayOps(shown[n - 1], LayerOps(s, n - 1), OpsOn(LayerOps(s, n - 1), r.doc))
             ELSE shown[n - 1]
  IN  shown[Max(r.layers) + 1]

\* Whether the view of document d can be reconstructed, and what it is: from
\* the first pending read of d, else the first confirmed one, else the
\* stored document.
BasisKnown(c, d) ==
  ReadsOn(c.pending, d) # {} =>
    /\ FirstOn(c.pending, d).basis # NoBasis
    /\ \A n \in FirstOn(c.pending, d).layers : Accepted(c.session, n)

BasisOf(c, d) ==
  IF ReadsOn(c.pending, d) # {} THEN PendingView(c.session, FirstOn(c.pending, d))
  ELSE IF ReadsOn(c.confirmed, d) # {} THEN DocAt(d, FirstOn(c.confirmed, d).seq)
  ELSE Stored(d)

\* Every document the commit writes already holds what the commit computed.
IsIdentityCommit(c) ==
  /\ c.ops # <<>>
  /\ \A j \in DOMAIN c.ops : c.ops[j].op # "delete" /\ c.ops[j].doc # AclDoc
  /\ \A j \in DOMAIN c.ops : c.ops[j].doc \in ContentDocs => j \in ElidedContentSets(c)
  /\ \A d \in {o.doc : o \in Range(c.ops)} \ ContentDocs :
       /\ Stored(d) # Absent
       /\ BasisKnown(c, d)
       /\ ReplayOps(BasisOf(c, d), c.ops, OpsOn(c.ops, d)) = Stored(d)
       /\ \/ c.session \in ElidedVerdicts
          \/ ReplayOps(Stored(d), c.ops, OpsOn(c.ops, d)) = Stored(d)

Elided(c) == IF ReadsFresh(c) THEN ElidedContentSets(c) ELSE DOMAIN c.ops

-----------------------------------------------------------------------------
(* Admission, in the order applyCommitTransaction checks                   *)

\* Mutant: no replay detection.
NeverExisting(c) == {}

Existing(c) == Resolutions(c.session, c.localSeq)

\* The stored identity spans the payload and the admission envelope.
ReplayMatches(c) == \E q \in Existing(c) : commits[q] = c

\* Mutant: only a deleted ACL document is taken for a deleted space.
SpaceDeletedByDelete == \E v \in revisions : v.op.doc = AclDoc /\ v.op.op = "delete"

SpaceDeleted == Stored(AclDoc) = Tombstone

HoldsLease(c) ==
  c.class = "derived" => /\ c.holder # NoHolder
                         /\ lease = c.holder
                         /\ c.session = c.holder
                         /\ \A o \in Range(c.ops) : o.doc # AclDoc

Nonempty(c) == c.ops # <<>> \/ c.confirmed # <<>> \/ c.pending # <<>> \/ c.pre # {}

\* Mutant: `entity-absent` asks for the current document.
PreconditionHoldsNow(c, p) ==
  CASE p.kind = "origin-committed" -> Accepted(c.session, p.origin)
    [] p.kind = "entity-absent" -> Stored(p.doc) = Absent
    [] p.kind = "entity-value-hash" -> Stored(p.doc) = p.val

\* `entity-absent` looks for a set or delete revision, never for a patch.
PreconditionHolds(c, p) ==
  CASE p.kind = "origin-committed" -> Accepted(c.session, p.origin)
    [] p.kind = "entity-absent" ->
         ~ \E v \in revisions : v.op.doc = p.doc /\ v.op.op \notin PatchOps
    [] p.kind = "entity-value-hash" -> Stored(p.doc) = p.val

PreconditionsHold(c) == \A p \in c.pre : PreconditionHolds(c, p)

\* A pending read names a layer and claims no basis the log has not reached.
ReadsWellFormed(c) ==
  \A r \in Range(c.pending) :
     r.layers # {} /\ (r.basis # NoBasis => r.basis <= serverSeq)

Admissible(c) ==
  /\ ~ SpaceDeleted
  /\ HoldsLease(c)
  /\ Nonempty(c)
  /\ PreconditionsHold(c)
  /\ ContentAddressed(c)
  /\ ReadsWellFormed(c)
  /\ DependenciesResolved(c)
  /\ ReadsFresh(c) \/ IsIdentityCommit(c)

\* Mutant: the lease is consulted before replay detection.
DecisionLeaseFirst(c) ==
  CASE HoldsLease(c) /\ Existing(c) = {} /\ Admissible(c) -> "accepted"
    [] HoldsLease(c) /\ Existing(c) # {} /\ ReplayMatches(c) -> "replayed"
    [] HoldsLease(c) /\ Existing(c) # {} /\ ~ ReplayMatches(c) -> "mismatch"
    [] OTHER -> "refused"

\* Replay detection comes before every check of current authority or state.
Decision(c) ==
  CASE Existing(c) = {} /\ Admissible(c)      -> "accepted"
    [] Existing(c) = {} /\ ~ Admissible(c)    -> "refused"
    [] Existing(c) # {} /\ ReplayMatches(c)   -> "replayed"
    [] Existing(c) # {} /\ ~ ReplayMatches(c) -> "mismatch"

-----------------------------------------------------------------------------
(* Steps                                                                   *)

Answer(c, seq, elided) ==
  [session |-> c.session, localSeq |-> c.localSeq, seq |-> seq, elided |-> elided]

Verdict(kind, c) == [kind |-> kind, session |-> c.session, localSeq |-> c.localSeq]

Init ==
  /\ commits = <<>>
  /\ revisions = {}
  /\ lease = NoHolder
  /\ submitted = {}
  /\ granted = {}
  /\ verdict = [kind |-> "none", session |-> NoHolder, localSeq |-> 0]

\* What a session may send: its next commit, numbered above the ones it sent
\* before and reading only seqs the server has reached; a commit it sent
\* before (a reconnect resends every commit with no verdict, client.ts); or
\* another payload under a number the store has already used.
MaySubmit(c) ==
  \/ c \in submitted
  \/ /\ \A b \in submitted : b.session = c.session => b.localSeq < c.localSeq
     /\ \A r \in Range(c.confirmed) : r.seq <= serverSeq
  \/ c \in Renumbered /\ Accepted(c.session, c.localSeq)

\* Mutant: the stored operations are numbered among themselves.
NewRevisionsDense(c, seq) ==
  LET stored == DOMAIN c.ops \ Elided(c) IN
  {[seq |-> seq, opIndex |-> Cardinality({i \in stored : i <= j}), op |-> c.ops[j]] :
     j \in stored}

\* The rows the write loop inserts.
NewRevisions(c, seq) ==
  {[seq |-> seq, opIndex |-> j, op |-> c.ops[j]] : j \in DOMAIN c.ops \ Elided(c)}

\* A fresh commit is admitted: one commit row, one revision per operation
\* that is not elided, and the verdict that names the elided ones.
Accept(c) ==
  /\ MaySubmit(c)
  /\ Decision(c) = "accepted"
  /\ serverSeq < MaxSeq
  /\ LET seq == serverSeq + 1 IN
       /\ commits' = Append(commits, c)
       /\ revisions' = revisions \cup NewRevisions(c, seq)
       /\ granted' = granted \cup {Answer(c, seq, Elided(c))}
       /\ verdict' = Verdict("accepted", c)
  /\ submitted' = submitted \cup {c}
  /\ UNCHANGED lease

\* Mutant: the elision report is computed again from the current documents.
ReplayedElidedNow(c, seq) == Elided(c)

\* The elision report of a replayed verdict is read off the revision table.
ReplayedElided(c, seq) ==
  {j \in DOMAIN c.ops : ~ \E v \in revisions : v.seq = seq /\ v.opIndex = j}

\* A commit the session already applied: its stored answer, with no check of
\* lease, preconditions or reads.
Replay(c) ==
  /\ MaySubmit(c)
  /\ Decision(c) = "replayed"
  /\ LET seq == ResolutionSeq(c.session, c.localSeq) IN
       granted' = granted \cup {Answer(c, seq, ReplayedElided(c, seq))}
  /\ verdict' = Verdict("replayed", c)
  /\ UNCHANGED <<commits, revisions, lease, submitted>>

\* A number the store has used, with another payload or envelope.
RefuseMismatch(c) ==
  /\ MaySubmit(c)
  /\ Decision(c) = "mismatch"
  /\ verdict' = Verdict("mismatch", c)
  /\ UNCHANGED <<commits, revisions, lease, submitted, granted>>

\* A fresh commit some admission check throws on: the transaction rolls back
\* and the store remembers nothing of it.
Refuse(c) ==
  /\ MaySubmit(c)
  /\ Decision(c) = "refused"
  /\ submitted' = submitted \cup {c}
  /\ verdict' = Verdict("refused", c)
  /\ UNCHANGED <<commits, revisions, lease, granted>>

\* The memory server's lease map (ExecutionLeases).
AcquireLease(h) ==
  /\ lease \in {NoHolder, h}
  /\ lease' = h
  /\ UNCHANGED <<commits, revisions, submitted, granted, verdict>>

ReleaseLease(h) ==
  /\ lease = h
  /\ lease' = NoHolder
  /\ UNCHANGED <<commits, revisions, submitted, granted, verdict>>

Next ==
  \/ \E c \in Submissions :
       Accept(c) \/ Replay(c) \/ RefuseMismatch(c) \/ Refuse(c)
  \/ \E h \in Holders : AcquireLease(h) \/ ReleaseLease(h)

Spec == Init /\ [][Next]_vars

-----------------------------------------------------------------------------
(* Properties                                                              *)

\* The two tables are well formed: commit rows are commits clients submitted,
\* and every revision is an operation of the commit row it is attributed to.
TypeOK ==
  /\ commits \in Seq(Submissions)
  /\ lease \in Holders \cup {NoHolder}
  /\ submitted \subseteq Submissions
  /\ Range(commits) \subseteq submitted
  /\ \A v \in revisions : /\ v.seq \in DOMAIN commits
                          /\ v.opIndex \in DOMAIN commits[v.seq].ops
                          /\ v.op = commits[v.seq].ops[v.opIndex]

\* However often a commit is sent, the store holds it once: no two commit
\* rows share a session and a local number (replay detection,
\* engine.ts applyCommitTransaction).
UniqueResolution ==
  \A p, q \in DOMAIN commits :
     commits[p].session = commits[q].session
     /\ commits[p].localSeq = commits[q].localSeq => p = q

\* Every acceptance a session is told of one commit, first answer and
\* replays alike, names the same seq and the same elided operations, so a
\* replica that lost the first answer promotes what it would have promoted.
AnswersAgree ==
  \A a, b \in granted :
     a.session = b.session /\ a.localSeq = b.localSeq => a = b

\* A commit the store holds is never refused when it is sent again, whatever
\* happened to the lease, its preconditions, its reads or the space since.
AcceptedNeverRefused ==
  verdict.kind = "refused" => ~ Accepted(verdict.session, verdict.localSeq)

\* First committer wins: behind a commit that wrote, no conflicting revision
\* hides between what one of its reads saw and the commit itself, except a
\* layer of its own session that the read names, or a revision older than a
\* named layer accepted as an identity of the document (validateConfirmedReads,
\* resolvePendingReads, identityLayerBasis).
NoStaleRead ==
  \A v, w \in revisions : w.seq < v.seq =>
    LET c == commits[v.seq] IN
      /\ \A r \in Range(c.confirmed) :
           w.op.doc = r.doc /\ Touches(w.op, r) => w.seq <= r.seq
      /\ \A r \in Range(c.pending) :
           r.basis # NoBasis /\ w.op.doc = r.doc /\ Touches(w.op, r) =>
             \/ w.seq <= r.basis
             \/ OwnLayer(c.session, r.layers, w.seq)
             \/ \E q \in DOMAIN commits :
                  /\ w.seq <= q /\ q < v.seq
                  /\ OwnLayer(c.session, r.layers, q)
                  /\ ~ \E u \in revisions : u.seq = q /\ u.op.doc = r.doc

ValueAt(doc, path) ==
  IF path = <<>> THEN doc
  ELSE IF doc = Absent THEN None ELSE doc[path[1]]

ShapeAt(doc, path) ==
  IF path # <<>> THEN ValueAt(doc, path) # None
  ELSE IF doc = Absent THEN Absent ELSE {k \in Keys : doc[k] # None}

\* What read r saw in `view` is what the store held just before commit seq.
SawStore(r, view, seq) ==
  LET now == DocAt(r.doc, seq - 1) IN
  IF r.nonRecursive THEN ShapeAt(view, r.path) = ShapeAt(now, r.path)
                    ELSE ValueAt(view, r.path) = ValueAt(now, r.path)

\* Commits whose reads bind: all but the identity commits, which wrote
\* nothing.
Bound(seq) ==
  commits[seq].ops = <<>> \/ \E v \in revisions : v.seq = seq

InLocalOrder(s, r) ==
  \A m, n \in r.layers : m < n => ResolutionSeq(s, m) < ResolutionSeq(s, n)

\* The replica shows a layer over a basis that does not hold it yet: the
\* frame that carries an own write promotes its layer.
AboveBasis(s, r) ==
  r.basis # NoBasis /\ \A n \in r.layers : ResolutionSeq(s, n) > r.basis

ConfirmedCoherence ==
  \A q \in DOMAIN commits : Bound(q) =>
     \A r \in Range(commits[q].confirmed) : SawStore(r, DocAt(r.doc, r.seq), q)

\* Read coherence of true-basis reads: a commit that wrote was accepted only
\* if each of its reads saw the value, at its path, that the store held just
\* before it -- whatever layers the client named or left out, whatever other
\* sessions wrote between, and through layers accepted as identities.
\* (findConflictSeq, resolvePendingReads, identityLayerBasis; the layers of a
\* read are taken to have resolved in the order they were numbered.)
ReadCoherence ==
  /\ ConfirmedCoherence
  /\ \A q \in DOMAIN commits : Bound(q) =>
       \A r \in Range(commits[q].pending) :
          AboveBasis(commits[q].session, r) /\ InLocalOrder(commits[q].session, r) =>
            SawStore(r, PendingView(commits[q].session, r), q)

\* A receipt is written once: of the commits that demand a document's absence
\* and then set it, one is accepted, even if the document is deleted between
\* (the `entity-absent` precondition).
ReceiptOnce ==
  \A p, q \in DOMAIN commits : p < q =>
     ~ \E x \in commits[p].pre \cap commits[q].pre :
         /\ x.kind = "entity-absent"
         /\ \E v \in revisions : v.seq = p /\ v.op.doc = x.doc /\ v.op.op = "set"

\* A deleted space takes no further commit of any class (refuseDeletedSpace).
DeletionIsFinal ==
  \A q \in DOMAIN commits : DocAt(AclDoc, q) = Tombstone => q = serverSeq

\* A content-addressed document keeps the content its id names from its first
\* installation on, and only that installation leaves revisions.
ContentImmutable ==
  \A d \in ContentDocs :
     /\ \A v, w \in revisions : v.op.doc = d /\ w.op.doc = d => v.seq = w.seq
     /\ \A q \in DOMAIN commits :
          DocAt(d, q) = IF \E v \in revisions : v.op.doc = d /\ v.seq <= q
                        THEN ContentOf[d] ELSE Absent

=============================================================================
