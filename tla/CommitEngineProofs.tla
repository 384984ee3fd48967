------------------------- MODULE CommitEngineProofs -------------------------
(***************************************************************************)
(* Theorems about commit admission, for every set of sessions, documents   *)
(* and submissions and every length of the commit log.                     *)
(*                                                                         *)
(* All of them rest on one fact about the tables: a step either leaves     *)
(* them alone or appends one commit row, whose revisions carry the new     *)
(* seq, so what is known of the rows up to a seq stays true.               *)
(***************************************************************************)
EXTENDS CommitEngine, TLAPS, WellFoundedInduction

-----------------------------------------------------------------------------
(* Steps on the tables                                                     *)

\* What a step that changes the tables does to them.
Appends(c) ==
  /\ c \in Submissions
  /\ Existing(c) = {}
  /\ Admissible(c)
  /\ commits' = Append(commits, c)
  /\ revisions' = revisions \cup NewRevisions(c, serverSeq + 1)
  /\ granted' = granted \cup {Answer(c, serverSeq + 1, Elided(c))}
  /\ verdict' = Verdict("accepted", c)
  /\ submitted' = submitted \cup {c}
  /\ lease' = lease

\* The four decisions, read off the order of the checks.
LEMMA DecisionCases ==
  ASSUME NEW c
  PROVE  /\ Decision(c) = "accepted" => Existing(c) = {} /\ Admissible(c)
         /\ Decision(c) = "refused"  => Existing(c) = {}
         /\ Decision(c) = "replayed" => Existing(c) # {} /\ ReplayMatches(c)
<1> DEFINE E == Existing(c) = {}
           A == Admissible(c)
           M == ReplayMatches(c)
<1>1. Decision(c) = CASE E /\ A -> "accepted"
                      [] E /\ ~ A -> "refused"
                      [] ~ E /\ M -> "replayed"
                      [] ~ E /\ ~ M -> "mismatch"
  BY DEF Decision
<1>2. E \in BOOLEAN /\ A \in BOOLEAN /\ M \in BOOLEAN
  BY DEF Admissible, ReplayMatches
<1> HIDE DEF E, A, M
<1>3. /\ Decision(c) = "accepted" => E /\ A
      /\ Decision(c) = "refused" => E
      /\ Decision(c) = "replayed" => ~ E /\ M
  BY <1>1, <1>2
<1> QED
  BY <1>3 DEF E, A, M

\* An accepting step appends; every other step leaves both tables alone.
LEMMA AcceptAppends ==
  ASSUME NEW c \in Submissions, Accept(c)
  PROVE  Appends(c)
BY DecisionCases DEF Accept, Appends

\* The rows an append leaves as they are, and the one it adds.
LEMMA TablesAfterAppend ==
  ASSUME TypeOK, NEW c, Appends(c)
  PROVE  /\ serverSeq \in Nat
         /\ DOMAIN commits = 1..serverSeq
         /\ DOMAIN commits' = 1..(serverSeq + 1)
         /\ \A q \in DOMAIN commits : commits'[q] = commits[q]
         /\ commits'[serverSeq + 1] = c
         /\ revisions \subseteq revisions'
         /\ \A v \in revisions : v.seq \in 1..serverSeq
         /\ \A v \in revisions' \ revisions :
              /\ v.seq = serverSeq + 1
              /\ v.opIndex \in DOMAIN c.ops \ Elided(c)
              /\ v.op = c.ops[v.opIndex]
<1>1. commits \in Seq(Submissions) /\ c \in Submissions /\ commits' = Append(commits, c)
  BY DEF TypeOK, Appends
<1>2. /\ serverSeq \in Nat
      /\ DOMAIN commits = 1..serverSeq
      /\ DOMAIN commits' = 1..(serverSeq + 1)
      /\ \A q \in DOMAIN commits : commits'[q] = commits[q]
      /\ commits'[serverSeq + 1] = c
  BY <1>1 DEF serverSeq
<1>3. \A v \in revisions : v.seq \in 1..serverSeq
  BY <1>2 DEF TypeOK
<1>4. revisions' = revisions \cup NewRevisions(c, serverSeq + 1)
  BY DEF Appends
<1>5. \A v \in revisions' \ revisions :
         /\ v.seq = serverSeq + 1
         /\ v.opIndex \in DOMAIN c.ops \ Elided(c)
         /\ v.op = c.ops[v.opIndex]
  BY <1>4 DEF NewRevisions
<1> QED
  BY <1>2, <1>3, <1>4, <1>5

-----------------------------------------------------------------------------
(* The tables are well formed                                              *)

\* The empty store is well formed.
LEMMA TypeInit == Init => TypeOK
<1> SUFFICES ASSUME Init PROVE TypeOK
  OBVIOUS
<1>1. commits \in Seq(Submissions) /\ Range(commits) \subseteq submitted
  BY DEF Init, Range
<1> QED
  BY <1>1 DEF Init, TypeOK

\* A commit appended with its revisions keeps the tables well formed.
LEMMA TypeAppend ==
  ASSUME TypeOK, NEW c, Appends(c)
  PROVE  TypeOK'
<1>1. commits' \in Seq(Submissions)
  BY DEF TypeOK, Appends
<1>2. lease' \in Holders \cup {NoHolder} /\ submitted' \subseteq Submissions
  BY DEF TypeOK, Appends
<1>3. Range(commits') \subseteq submitted'
  <2> SUFFICES ASSUME NEW q \in DOMAIN commits' PROVE commits'[q] \in submitted'
    BY DEF Range
  <2>1. submitted' = submitted \cup {c} /\ Range(commits) \subseteq submitted
    BY DEF Appends, TypeOK
  <2>2. q \in DOMAIN commits => commits'[q] \in submitted
    BY <2>1, TablesAfterAppend DEF Range
  <2>3. q \notin DOMAIN commits => commits'[q] = c
    BY TablesAfterAppend
  <2> QED
    BY <2>1, <2>2, <2>3
<1>4. ASSUME NEW v \in revisions'
      PROVE  /\ v.seq \in DOMAIN commits'
             /\ v.opIndex \in DOMAIN commits'[v.seq].ops
             /\ v.op = commits'[v.seq].ops[v.opIndex]
  <2>1. CASE v \in revisions
    BY <2>1, TablesAfterAppend DEF TypeOK
  <2>2. CASE v \notin revisions
    BY <2>2, TablesAfterAppend
  <2> QED
    BY <2>1, <2>2
<1> QED
  BY <1>1, <1>2, <1>3, <1>4 DEF TypeOK

\* Every step preserves the type invariant.
LEMMA TypeStep == TypeOK /\ [Next]_vars => TypeOK'
<1> SUFFICES ASSUME TypeOK, [Next]_vars PROVE TypeOK'
  OBVIOUS
<1>1. ASSUME NEW c \in Submissions, Accept(c) PROVE TypeOK'
  BY <1>1, AcceptAppends, TypeAppend
<1>2. ASSUME NEW c \in Submissions, Replay(c) PROVE TypeOK'
  BY <1>2 DEF Replay, TypeOK
<1>3. ASSUME NEW c \in Submissions, RefuseMismatch(c) PROVE TypeOK'
  BY <1>3 DEF RefuseMismatch, TypeOK
<1>4. ASSUME NEW c \in Submissions, Refuse(c) PROVE TypeOK'
  BY <1>4 DEF Refuse, TypeOK
<1>5. ASSUME NEW h \in Holders, AcquireLease(h) PROVE TypeOK'
  BY <1>5 DEF AcquireLease, TypeOK
<1>6. ASSUME NEW h \in Holders, ReleaseLease(h) PROVE TypeOK'
  BY <1>6 DEF ReleaseLease, TypeOK
<1>7. CASE UNCHANGED vars
  BY <1>7 DEF vars, TypeOK
<1> QED
  BY <1>1, <1>2, <1>3, <1>4, <1>5, <1>6, <1>7 DEF Next

\* The commit and revision tables stay well formed: every revision is an
\* operation of the commit row it is attributed to (writeOperation).
THEOREM TypeCorrect == Spec => []TypeOK
BY TypeInit, TypeStep, PTL DEF Spec

-----------------------------------------------------------------------------
(* Properties of the tables                                                *)

\* Every step appends one commit row or leaves the tables alone.
LEMMA TableSteps ==
  ASSUME [Next]_vars
  PROVE  (\E c \in Submissions : Appends(c)) \/ UNCHANGED <<commits, revisions>>
BY AcceptAppends
   DEF Next, vars, Replay, RefuseMismatch, Refuse, AcquireLease, ReleaseLease

\* A commit is appended only under a session and number that have no row.
LEMMA UniqueAppend ==
  ASSUME TypeOK, UniqueResolution, NEW c, Appends(c)
  PROVE  UniqueResolution'
<1> SUFFICES ASSUME NEW p \in DOMAIN commits', NEW q \in DOMAIN commits',
                    commits'[p].session = commits'[q].session,
                    commits'[p].localSeq = commits'[q].localSeq
             PROVE  p = q
  BY DEF UniqueResolution
<1>1. \A n \in DOMAIN commits :
        ~ (commits[n].session = c.session /\ commits[n].localSeq = c.localSeq)
  BY DEF Appends, Existing, Resolutions
<1>2. CASE p \in DOMAIN commits /\ q \in DOMAIN commits
  BY <1>2, TablesAfterAppend DEF UniqueResolution
<1>3. CASE p \in DOMAIN commits /\ q \notin DOMAIN commits
  BY <1>1, <1>3, TablesAfterAppend
<1>4. CASE p \notin DOMAIN commits /\ q \in DOMAIN commits
  BY <1>1, <1>4, TablesAfterAppend
<1>5. CASE p \notin DOMAIN commits /\ q \notin DOMAIN commits
  BY <1>5, TablesAfterAppend
<1> QED
  BY <1>2, <1>3, <1>4, <1>5

\* However often and over whatever connection a commit is sent, the store
\* holds it once (replay detection in applyCommitTransaction).
THEOREM AppliedOnce == Spec => []UniqueResolution
<1>1. Init => UniqueResolution
  BY DEF Init, UniqueResolution
<1>2. TypeOK /\ UniqueResolution /\ [Next]_vars => UniqueResolution'
  <2> SUFFICES ASSUME TypeOK, UniqueResolution, [Next]_vars PROVE UniqueResolution'
    OBVIOUS
  <2>1. CASE UNCHANGED <<commits, revisions>>
    BY <2>1 DEF UniqueResolution
  <2> QED
    BY <2>1, TableSteps, UniqueAppend
<1> QED
  BY <1>1, <1>2, TypeCorrect, PTL DEF Spec

\* And one set of a document per demand of its absence.
LEMMA ReceiptAppend ==
  ASSUME TypeOK, ReceiptOnce, NEW c, Appends(c)
  PROVE  ReceiptOnce'
<1> SUFFICES ASSUME NEW p \in DOMAIN commits', NEW q \in DOMAIN commits', p < q,
                    NEW x \in commits'[p].pre \cap commits'[q].pre,
                    x.kind = "entity-absent",
                    NEW v \in revisions', v.seq = p, v.op.doc = x.doc, v.op.op = "set"
             PROVE  FALSE
  BY DEF ReceiptOnce
<1>1. p \in DOMAIN commits /\ v \in revisions /\ commits'[p] = commits[p]
  BY TablesAfterAppend
<1>2. CASE q \in DOMAIN commits
  BY <1>1, <1>2, TablesAfterAppend DEF ReceiptOnce
<1>3. CASE q \notin DOMAIN commits
  <2>1. x \in c.pre
    BY <1>3, TablesAfterAppend
  <2>2. PreconditionHolds(c, x)
    BY <2>1 DEF Appends, Admissible, PreconditionsHold
  <2>3. ~ \E u \in revisions : u.op.doc = x.doc /\ u.op.op \notin PatchOps
    BY <2>2 DEF PreconditionHolds
  <2> QED
    BY <1>1, <2>3 DEF PatchOps
<1> QED
  BY <1>2, <1>3

\* Of the commits that claim a receipt with `entity-absent` and set it, at
\* most one is ever accepted, even when the receipt is deleted in between
\* (validateCommitPreconditions).
THEOREM ReceiptClaimedOnce == Spec => []ReceiptOnce
<1>1. Init => ReceiptOnce
  BY DEF Init, ReceiptOnce
<1>2. TypeOK /\ ReceiptOnce /\ [Next]_vars => ReceiptOnce'
  <2> SUFFICES ASSUME TypeOK, ReceiptOnce, [Next]_vars PROVE ReceiptOnce'
    OBVIOUS
  <2>1. CASE UNCHANGED <<commits, revisions>>
    BY <2>1 DEF ReceiptOnce
  <2> QED
    BY <2>1, TableSteps, ReceiptAppend
<1> QED
  BY <1>1, <1>2, TypeCorrect, PTL DEF Spec

-----------------------------------------------------------------------------
(* Answers                                                                 *)

\* The answer the store would give to commit row q: the inductive form of
\* AnswersAgree says that every answer given is this one.
StoredAnswer(q) == Answer(commits[q], q, ReplayedElided(commits[q], q))

AnswersRecorded == \A a \in granted : \E q \in DOMAIN commits : a = StoredAnswer(q)

\* A stored answer does not change once it has been given.
LEMMA StoredAnswerStable ==
  ASSUME TypeOK, NEW c, Appends(c), NEW q \in DOMAIN commits
  PROVE  StoredAnswer(q)' = StoredAnswer(q)
<1>1. commits'[q] = commits[q]
  BY TablesAfterAppend
<1>2. \A j : (\E v \in revisions' : v.seq = q /\ v.opIndex = j)
            <=> (\E v \in revisions : v.seq = q /\ v.opIndex = j)
  BY TablesAfterAppend
<1>3. ReplayedElided(commits[q], q)' = ReplayedElided(commits[q], q)
  BY <1>1, <1>2 DEF ReplayedElided
<1> QED
  BY <1>1, <1>3 DEF StoredAnswer, Answer

\* The first answer names exactly the operations that left no revision.
LEMMA FirstAnswerIsStored ==
  ASSUME TypeOK, NEW c, Appends(c), NEW new, new = serverSeq + 1
  PROVE  Answer(c, new, Elided(c)) = StoredAnswer(new)'
<1>1. Elided(c) \subseteq DOMAIN c.ops
  BY DEF Elided, ElidedContentSets
<1>2. \A j \in DOMAIN c.ops :
        (\E v \in revisions' : v.seq = new /\ v.opIndex = j) <=> j \notin Elided(c)
  <2> TAKE j \in DOMAIN c.ops
  <2>1. ASSUME NEW v \in revisions', v.seq = new, v.opIndex = j PROVE j \notin Elided(c)
    BY <2>1, TablesAfterAppend
  <2>2. ASSUME j \notin Elided(c)
        PROVE  \E v \in revisions' : v.seq = new /\ v.opIndex = j
    <3> DEFINE v == [seq |-> new, opIndex |-> j, op |-> c.ops[j]]
    <3>1. v \in revisions'
      BY <2>2 DEF Appends, NewRevisions
    <3> QED
      BY <3>1
  <2> QED
    BY <2>1, <2>2
<1>3. commits'[new] = c
  BY TablesAfterAppend
<1>4. ReplayedElided(c, new)' = Elided(c)
  BY <1>1, <1>2 DEF ReplayedElided
<1> QED
  BY <1>3, <1>4 DEF StoredAnswer, Answer

\* The answer of a new row is the only one of its commit.
LEMMA AnswersAppend ==
  ASSUME TypeOK, AnswersRecorded, NEW c, Appends(c)
  PROVE  AnswersRecorded'
<1> SUFFICES ASSUME NEW a \in granted'
             PROVE  \E q \in DOMAIN commits' : a = StoredAnswer(q)'
  BY DEF AnswersRecorded
<1>1. granted' = granted \cup {Answer(c, serverSeq + 1, Elided(c))}
  BY DEF Appends
<1>2. CASE a \in granted
  BY <1>2, StoredAnswerStable, TablesAfterAppend DEF AnswersRecorded
<1>3. CASE a = Answer(c, serverSeq + 1, Elided(c))
  <2>1. PICK new : new = serverSeq + 1
    OBVIOUS
  <2>2. new \in DOMAIN commits'
    BY <2>1, TablesAfterAppend
  <2>3. a = StoredAnswer(new)'
    BY <1>3, <2>1, FirstAnswerIsStored
  <2> QED
    BY <2>2, <2>3
<1> QED
  BY <1>1, <1>2, <1>3

\* A replay answers what the store recorded: UniqueResolution makes the row
\* it finds the row it was applied as.
LEMMA ReplayAnswers ==
  ASSUME TypeOK, UniqueResolution, AnswersRecorded,
         NEW c \in Submissions, Replay(c)
  PROVE  AnswersRecorded'
<1> DEFINE seq == ResolutionSeq(c.session, c.localSeq)
<1>1. PICK q \in Existing(c) : commits[q] = c
  BY DecisionCases DEF Replay, ReplayMatches
<1>2. seq \in Resolutions(c.session, c.localSeq)
  BY <1>1 DEF Existing, ResolutionSeq
<1>3. seq = q /\ q \in DOMAIN commits
  BY <1>1, <1>2 DEF Existing, Resolutions, UniqueResolution
<1>4. Answer(c, seq, ReplayedElided(c, seq)) = StoredAnswer(q)
  BY <1>1, <1>3 DEF StoredAnswer
<1>5. /\ granted' = granted \cup {Answer(c, seq, ReplayedElided(c, seq))}
      /\ commits' = commits /\ revisions' = revisions
  BY DEF Replay
<1>6. \A n : StoredAnswer(n)' = StoredAnswer(n)
  BY <1>5 DEF StoredAnswer, Answer, ReplayedElided
<1> HIDE DEF seq
<1> QED
  BY <1>3, <1>4, <1>5, <1>6 DEF AnswersRecorded

\* Every acceptance a session is told of one commit names the same seq and
\* the same elided operations, whether it is the first answer or a replay
\* read back from the revision table.
THEOREM AnswersAreStable == Spec => []AnswersAgree
<1> DEFINE Inv == TypeOK /\ UniqueResolution /\ AnswersRecorded
<1>1. Init => AnswersRecorded
  BY DEF Init, AnswersRecorded
<1>2. Inv /\ [Next]_vars => AnswersRecorded'
  <2> SUFFICES ASSUME Inv, [Next]_vars PROVE AnswersRecorded'
    OBVIOUS
  <2>1. ASSUME NEW c \in Submissions, Accept(c) PROVE AnswersRecorded'
    BY <2>1, AcceptAppends, AnswersAppend
  <2>2. ASSUME NEW c \in Submissions, Replay(c) PROVE AnswersRecorded'
    BY <2>2, ReplayAnswers
  <2>3. CASE UNCHANGED <<commits, revisions, granted>>
    <3>1. \A n : StoredAnswer(n)' = StoredAnswer(n)
      BY <2>3 DEF StoredAnswer, Answer, ReplayedElided
    <3> QED
      BY <2>3, <3>1 DEF AnswersRecorded
  <2>4. \/ \E c \in Submissions : Accept(c) \/ Replay(c)
        \/ UNCHANGED <<commits, revisions, granted>>
    BY DEF Next, vars, RefuseMismatch, Refuse, AcquireLease, ReleaseLease
  <2> QED
    BY <2>1, <2>2, <2>3, <2>4
<1>3. Inv => AnswersAgree
  BY DEF AnswersRecorded, AnswersAgree, UniqueResolution, StoredAnswer, Answer
<1> QED
  BY <1>1, <1>2, <1>3, TypeCorrect, AppliedOnce, PTL DEF Spec

\* A commit the store holds is answered from the store, never refused,
\* whatever became of the lease, its preconditions or the space since.
THEOREM ReplayIsNotReadmitted == Spec => []AcceptedNeverRefused
<1>1. Init => AcceptedNeverRefused
  BY DEF Init, AcceptedNeverRefused
<1>2. TypeOK /\ AcceptedNeverRefused /\ [Next]_vars => AcceptedNeverRefused'
  <2> SUFFICES ASSUME TypeOK, AcceptedNeverRefused, [Next]_vars
               PROVE  AcceptedNeverRefused'
    OBVIOUS
  <2>1. ASSUME NEW c \in Submissions, Refuse(c) PROVE AcceptedNeverRefused'
    <3>1. Resolutions(c.session, c.localSeq) = {} /\ commits' = commits
      BY <2>1, DecisionCases DEF Refuse, Existing
    <3>2. verdict'.session = c.session /\ verdict'.localSeq = c.localSeq
      BY <2>1 DEF Refuse, Verdict
    <3> QED
      BY <3>1, <3>2 DEF AcceptedNeverRefused, Accepted, Resolutions
  <2>2. CASE verdict'.kind \in {"accepted", "replayed", "mismatch"}
    BY <2>2 DEF AcceptedNeverRefused
  <2>3. CASE UNCHANGED <<commits, verdict>>
    BY <2>3 DEF AcceptedNeverRefused, Accepted, Resolutions
  <2>4. \/ \E c \in Submissions : Refuse(c)
        \/ verdict'.kind \in {"accepted", "replayed", "mismatch"}
        \/ UNCHANGED <<commits, verdict>>
    BY DEF Next, vars, Accept, Replay, RefuseMismatch, AcquireLease, ReleaseLease, Verdict
  <2> QED
    BY <2>1, <2>2, <2>3, <2>4
<1> QED
  BY <1>1, <1>2, TypeCorrect, PTL DEF Spec

-----------------------------------------------------------------------------
(* First committer wins                                                    *)

\* A nonempty set of naturals has a least element.
LEMMA LeastOfNaturals ==
  ASSUME NEW T \in SUBSET Nat, T # {}
  PROVE  \E x \in T : \A y \in T : x <= y
<1> DEFINE R == OpToRel(<, Nat)
<1>1. IsWellFoundedOn(R, Nat)
  BY NatLessThanWellFounded
<1>2. \A x, y \in Nat : y < x => <<y, x>> \in R
  BY DEF OpToRel
<1> HIDE DEF R
<1>3. PICK x \in T : \A y \in T : ~ (<<y, x>> \in R)
  BY <1>1, WFMin
<1>4. \A y \in T : ~ (y < x)
  BY <1>2, <1>3, Zenon
<1>5. \A y \in T : x <= y
  BY <1>4
<1> QED
  BY <1>5

\* A nonempty set of seqs of the log has a greatest element.
LEMMA GreatestSeq ==
  ASSUME NEW n \in Nat, NEW S \in SUBSET (1..n), S # {}
  PROVE  Max(S) \in S
<1> DEFINE T == {m \in Nat : n - m \in S}
<1>1. T \in SUBSET Nat
  OBVIOUS
<1>2. T # {}
  <2>1. PICK y \in S : TRUE
    OBVIOUS
  <2>2. n - y \in Nat /\ n - (n - y) = y
    BY <2>1
  <2> QED
    BY <2>1, <2>2
<1>3. PICK t \in T : \A y \in T : t <= y
  BY <1>1, <1>2, LeastOfNaturals
<1>4. ASSUME NEW y \in S PROVE n - t >= y
  <2>1. n - y \in Nat /\ n - (n - y) = y /\ y \in Nat
    OBVIOUS
  <2>2. n - y \in T
    BY <2>1
  <2> QED
    BY <1>3, <2>1, <2>2
<1>5. n - t \in S
  BY <1>3
<1> QED
  BY <1>4, <1>5 DEF Max

\* What a fresh read is fresh against: the writes the store holds.
LEMMA FreshConfirmedRead ==
  ASSUME TypeOK, NEW c \in Submissions, ConfirmedReadsFresh(c),
         NEW r \in Range(c.confirmed), NEW w \in revisions,
         w.op.doc = r.doc, Touches(w.op, r)
  PROVE  w.seq <= r.seq
<1>1. w.seq \in Nat /\ r.seq \in Nat
  BY EngineAssumption DEF TypeOK
<1>2. w \notin Conflicts(r, r.seq, c.session, {})
  BY DEF ConfirmedReadsFresh
<1>3. ~ OwnLayer(c.session, {}, w.seq)
  BY DEF OwnLayer
<1> QED
  BY <1>1, <1>2, <1>3 DEF Conflicts

\* What the scan of a fresh true-basis read leaves unfound.
LEMMA FreshPendingRead ==
  ASSUME TypeOK, NEW c \in Submissions, NEW r \in Range(c.pending),
         PendingReadFresh(c, r), r.basis # NoBasis, NEW w \in revisions,
         w.op.doc = r.doc, Touches(w.op, r)
  PROVE  \/ w.seq <= r.basis
         \/ OwnLayer(c.session, r.layers, w.seq)
         \/ \E q \in DOMAIN commits :
              /\ w.seq <= q
              /\ OwnLayer(c.session, r.layers, q)
              /\ ~ \E u \in revisions : u.seq = q /\ u.op.doc = r.doc
<1>1. w.seq \in Nat /\ r.basis \in Nat
  BY EngineAssumption DEF TypeOK
<1>2. CASE Conflicts(r, r.basis, c.session, r.layers) = {}
  BY <1>1, <1>2 DEF Conflicts
<1>3. CASE /\ IdentityBasis(c, r) > r.basis
           /\ Conflicts(r, IdentityBasis(c, r), c.session, r.layers) = {}
  <2> DEFINE S == IdentityLayers(c, r)
             q == Max(S)
  <2>1. S # {} /\ IdentityBasis(c, r) = q
    BY <1>1, <1>3 DEF IdentityBasis
  <2>2. S \in SUBSET (1..Len(commits)) /\ Len(commits) \in Nat
    BY DEF IdentityLayers, TypeOK
  <2>3. q \in S
    BY <2>1, <2>2, GreatestSeq
  <2>4. w.seq <= q \/ OwnLayer(c.session, r.layers, w.seq)
    <3>1. q \in Nat
      BY <2>2, <2>3
    <3> QED
      BY <1>1, <1>3, <2>1, <3>1 DEF Conflicts
  <2>5. /\ q \in DOMAIN commits
        /\ OwnLayer(c.session, r.layers, q)
        /\ ~ \E u \in revisions : u.seq = q /\ u.op.doc = r.doc
    BY <2>3 DEF IdentityLayers
  <2> QED
    BY <2>4, <2>5
<1> QED
  BY <1>2, <1>3 DEF PendingReadFresh

\* A commit that leaves a revision was found fresh, so the property holds of
\* the new row; the rows below it keep what they had.
LEMMA StaleAppend ==
  ASSUME TypeOK, NoStaleRead, NEW c, Appends(c)
  PROVE  NoStaleRead'
<1> DEFINE Excused(b, v, w, r, com, rev) ==
      \/ w.seq <= r.basis
      \/ com[w.seq].session = b.session /\ com[w.seq].localSeq \in r.layers
      \/ \E q \in DOMAIN com :
           /\ w.seq <= q /\ q < v.seq
           /\ com[q].session = b.session /\ com[q].localSeq \in r.layers
           /\ ~ \E u \in rev : u.seq = q /\ u.op.doc = r.doc
<1> SUFFICES ASSUME NEW v \in revisions', NEW w \in revisions', w.seq < v.seq
             PROVE  /\ \A r \in Range(commits'[v.seq].confirmed) :
                         w.op.doc = r.doc /\ Touches(w.op, r) => w.seq <= r.seq
                    /\ \A r \in Range(commits'[v.seq].pending) :
                         r.basis # NoBasis /\ w.op.doc = r.doc /\ Touches(w.op, r) =>
                           Excused(commits'[v.seq], v, w, r, commits', revisions')
  BY DEF NoStaleRead, OwnLayer
<1>1. w \in revisions /\ w.seq \in DOMAIN commits /\ commits'[w.seq] = commits[w.seq]
  BY TablesAfterAppend
<1>2. CASE v \in revisions
  <2>1. v.seq \in DOMAIN commits /\ commits'[v.seq] = commits[v.seq]
    BY <1>2, TablesAfterAppend
  <2>2. \A r \in Range(commits[v.seq].confirmed) :
           w.op.doc = r.doc /\ Touches(w.op, r) => w.seq <= r.seq
    BY <1>1, <1>2 DEF NoStaleRead
  <2>3. ASSUME NEW r \in Range(commits[v.seq].pending), r.basis # NoBasis,
               w.op.doc = r.doc, Touches(w.op, r)
        PROVE  Excused(commits[v.seq], v, w, r, commits', revisions')
    <3>1. Excused(commits[v.seq], v, w, r, commits, revisions)
      BY <1>1, <1>2, <2>3 DEF NoStaleRead, OwnLayer
    <3> QED
      BY <1>1, <3>1, TablesAfterAppend
  <2> QED
    BY <2>1, <2>2, <2>3
<1>3. CASE v \notin revisions
  <2>1. /\ c \in Submissions /\ v.seq = serverSeq + 1 /\ commits'[v.seq] = c
        /\ DOMAIN c.ops \ Elided(c) # {}
    BY <1>3, TablesAfterAppend DEF Appends
  <2>2. ReadsFresh(c)
    BY <2>1 DEF Elided
  <2>3. \A r \in Range(c.confirmed) :
           w.op.doc = r.doc /\ Touches(w.op, r) => w.seq <= r.seq
    BY <1>1, <2>1, <2>2, FreshConfirmedRead DEF ReadsFresh
  <2>4. ASSUME NEW r \in Range(c.pending), r.basis # NoBasis,
               w.op.doc = r.doc, Touches(w.op, r)
        PROVE  Excused(c, v, w, r, commits', revisions')
    <3>1. \/ w.seq <= r.basis
          \/ OwnLayer(c.session, r.layers, w.seq)
          \/ \E q \in DOMAIN commits :
               /\ w.seq <= q
               /\ OwnLayer(c.session, r.layers, q)
               /\ ~ \E u \in revisions : u.seq = q /\ u.op.doc = r.doc
      BY <1>1, <2>1, <2>2, <2>4, FreshPendingRead DEF ReadsFresh
    <3>2. ASSUME NEW q \in DOMAIN commits, OwnLayer(c.session, r.layers, q),
                 w.seq <= q, ~ \E u \in revisions : u.seq = q /\ u.op.doc = r.doc
          PROVE  Excused(c, v, w, r, commits', revisions')
      <4>1. q \in DOMAIN commits' /\ commits'[q] = commits[q] /\ q < v.seq
        BY <2>1, TablesAfterAppend
      <4>2. ~ \E u \in revisions' : u.seq = q /\ u.op.doc = r.doc
        BY <3>2, TablesAfterAppend
      <4> QED
        BY <3>2, <4>1, <4>2 DEF OwnLayer
    <3> QED
      BY <1>1, <3>1, <3>2 DEF OwnLayer
  <2> QED
    BY <2>1, <2>3, <2>4
<1> QED
  BY <1>2, <1>3

\* First committer wins: no conflicting revision hides between what a read of
\* a writing commit saw and the commit's own seq, except the layers the read
\* names and what a named identity layer had already taken in.
THEOREM FirstCommitterWins == Spec => []NoStaleRead
<1>1. Init => NoStaleRead
  BY DEF Init, NoStaleRead
<1>2. TypeOK /\ NoStaleRead /\ [Next]_vars => NoStaleRead'
  <2> SUFFICES ASSUME TypeOK, NoStaleRead, [Next]_vars PROVE NoStaleRead'
    OBVIOUS
  <2>1. CASE UNCHANGED <<commits, revisions>>
    BY <2>1 DEF NoStaleRead, OwnLayer
  <2> QED
    BY <2>1, TableSteps, StaleAppend
<1> QED
  BY <1>1, <1>2, TypeCorrect, PTL DEF Spec

-----------------------------------------------------------------------------
(* Documents of the past do not change                                     *)

\* The operations of a row stay the stored ones.
LEMMA StoredOpsStable ==
  ASSUME TypeOK, NEW c, Appends(c), NEW n \in DOMAIN commits, NEW d
  PROVE  StoredOps(n, d)' = StoredOps(n, d) /\ commits'[n] = commits[n]
<1>1. commits'[n] = commits[n]
  BY TablesAfterAppend
<1>2. \A j : (\E v \in revisions' : v.seq = n /\ v.opIndex = j)
            <=> (\E v \in revisions : v.seq = n /\ v.opIndex = j)
  BY TablesAfterAppend
<1> QED
  BY <1>1, <1>2 DEF StoredOps, OpsOn

\* A row appended changes no document of an earlier seq.
LEMMA DocAtStable ==
  ASSUME TypeOK, NEW c, Appends(c), NEW q \in 0..serverSeq, NEW d
  PROVE  DocAt(d, q)' = DocAt(d, q)
<1>1. ASSUME NEW n \in 1..q PROVE StoredOps(n, d)' = StoredOps(n, d) /\ commits'[n] = commits[n]
  <2>1. n \in DOMAIN commits
    BY TablesAfterAppend
  <2> QED
    BY <2>1, StoredOpsStable
<1>2. \A f : [n \in 0..q |-> IF n = 0 THEN Absent ELSE ReplayOps(f[n-1], commits'[n].ops, StoredOps(n, d)')]
         = [n \in 0..q |-> IF n = 0 THEN Absent ELSE ReplayOps(f[n-1], commits[n].ops, StoredOps(n, d))]
  BY <1>1, TablesAfterAppend
<1> QED
  BY <1>2 DEF DocAt

\* Nothing is appended to the log of a deleted space.
LEMMA DeletionAppend ==
  ASSUME TypeOK, DeletionIsFinal, NEW c, Appends(c)
  PROVE  DeletionIsFinal'
<1> SUFFICES ASSUME NEW q \in DOMAIN commits', DocAt(AclDoc, q)' = Tombstone
             PROVE  q = serverSeq'
  BY DEF DeletionIsFinal
<1>1. serverSeq' = serverSeq + 1
  BY DEF serverSeq, Appends, TypeOK
<1>2. CASE q \in DOMAIN commits
  <2>1. q \in 0..serverSeq /\ DocAt(AclDoc, q) = Tombstone
    BY <1>2, DocAtStable, TablesAfterAppend
  <2>2. q = serverSeq
    BY <1>2, <2>1 DEF DeletionIsFinal
  <2>3. DocAt(AclDoc, serverSeq) # Tombstone
    BY DEF Appends, Admissible, SpaceDeleted, Stored
  <2> QED
    BY <2>1, <2>2, <2>3
<1>3. CASE q \notin DOMAIN commits
  BY <1>1, <1>3, TablesAfterAppend
<1> QED
  BY <1>2, <1>3

\* Nothing is admitted to a deleted space, not a derived commit of the lease
\* holder and not a commit that was under way (refuseDeletedSpace).
THEOREM DeletionEndsTheLog == Spec => []DeletionIsFinal
<1>1. Init => DeletionIsFinal
  BY DEF Init, DeletionIsFinal
<1>2. TypeOK /\ DeletionIsFinal /\ [Next]_vars => DeletionIsFinal'
  <2> SUFFICES ASSUME TypeOK, DeletionIsFinal, [Next]_vars PROVE DeletionIsFinal'
    OBVIOUS
  <2>1. CASE UNCHANGED <<commits, revisions>>
    <3>1. \A n, d : StoredOps(n, d)' = StoredOps(n, d)
      BY <2>1 DEF StoredOps, OpsOn
    <3>2. \A q, d : DocAt(d, q)' = DocAt(d, q)
      BY <2>1, <3>1 DEF DocAt
    <3> QED
      BY <2>1, <3>2 DEF DeletionIsFinal, serverSeq
  <2> QED
    BY <2>1, TableSteps, DeletionAppend
<1> QED
  BY <1>1, <1>2, TypeCorrect, PTL DEF Spec

-----------------------------------------------------------------------------
(* What a replay leaves                                                    *)

\* The document after each operation of a replay.
Replayed(doc, ops, some, after) ==
  /\ after[0] = doc
  /\ \A j \in 1..Len(ops) :
       after[j] = IF j \in some THEN ApplyOperation(after[j - 1], ops[j]) ELSE after[j - 1]

\* A replay ends with what its operations have left.
LEMMA ReplayRounds ==
  ASSUME NEW S, NEW ops \in Seq(S), NEW doc, NEW some
  PROVE  \E after : Replayed(doc, ops, some, after) /\ ReplayOps(doc, ops, some) = after[Len(ops)]
<1> DEFINE Next1(v, j) == IF j \in some THEN ApplyOperation(v, ops[j]) ELSE v
           Body(f, n) == [j \in 0..n |-> IF j = 0 THEN doc ELSE Next1(f[j - 1], j)]
           T == {n \in Nat : ~ \E f : f = Body(f, n)}
<1>0. Len(ops) \in Nat
  OBVIOUS
<1>a. ReplayOps(doc, ops, some) = (CHOOSE f : f = Body(f, Len(ops)))[Len(ops)]
  BY DEF ReplayOps
<1>b. \A v, j : Next1(v, j) = IF j \in some THEN ApplyOperation(v, ops[j]) ELSE v
  OBVIOUS
<1> HIDE DEF Next1
<1>1. \A n \in Nat : \E f : f = Body(f, n)
  <2> SUFFICES ASSUME T # {} PROVE FALSE
    OBVIOUS
  <2>1. PICK n \in T : \A m \in T : n <= m
    BY LeastOfNaturals
  <2> HIDE DEF T
  <2>2. CASE n = 0
    <3> DEFINE g == [i \in 0..0 |-> doc]
    <3>1. g = Body(g, 0)
      OBVIOUS
    <3> QED
      BY <2>1, <2>2, <3>1 DEF T
  <2>3. CASE n # 0
    <3>0. n \in Nat
      BY <2>1 DEF T
    <3>1. n \in Nat /\ n - 1 \in Nat /\ n - 1 \notin T
      BY <2>1, <2>3, <3>0
    <3>2. PICK f : f = Body(f, n - 1)
      BY <3>1 DEF T
    <3> DEFINE g == [i \in 0..n |-> IF i = n THEN Next1(f[n - 1], n) ELSE f[i]]
    <3>3. \A i \in 0..(n - 1) : f[i] = IF i = 0 THEN doc ELSE Next1(f[i - 1], i)
      BY <3>2
    <3>4. ASSUME NEW i \in 0..n PROVE g[i] = IF i = 0 THEN doc ELSE Next1(g[i - 1], i)
      <4>1. CASE i = n
        <5>1. n - 1 \in 0..n /\ n - 1 # n
          BY <3>1
        <5>2. g[n - 1] = f[n - 1]
          BY <5>1
        <5> QED
          BY <2>3, <4>1, <5>2
      <4>2. CASE i # n
        <5>1. i \in 0..(n - 1)
          BY <3>1, <4>2
        <5>2. i # 0 => i - 1 \in 0..n /\ i - 1 # n /\ i - 1 \in 0..(n - 1)
          BY <3>1, <5>1
        <5>3. i # 0 => g[i - 1] = f[i - 1]
          BY <5>2
        <5>4. g[i] = f[i]
          BY <4>2
        <5> QED
          BY <3>3, <5>1, <5>3, <5>4
      <4> QED
        BY <4>1, <4>2
    <3>5. g = Body(g, n)
      BY <3>4
    <3> QED
      BY <2>1, <3>5 DEF T
  <2> QED
    BY <2>2, <2>3
<1> DEFINE after == CHOOSE f : f = Body(f, Len(ops))
<1>2. after = Body(after, Len(ops))
  BY <1>0, <1>1
<1>3. ReplayOps(doc, ops, some) = after[Len(ops)]
  BY <1>a
<1> HIDE DEF after
<1>4. \A j \in 0..Len(ops) : after[j] = IF j = 0 THEN doc ELSE Next1(after[j - 1], j)
  BY <1>2
<1>5. Replayed(doc, ops, some, after)
  BY <1>0, <1>4, <1>b DEF Replayed
<1> QED
  BY <1>3, <1>5

\* The operations at the indexes `some` set the value x.
Sets(ops, some, x) == \A j \in some : ops[j].op = "set" /\ ops[j].val = x

\* Replaying sets of one value leaves that value.
LEMMA ReplaySets ==
  ASSUME NEW S, NEW ops \in Seq(S), NEW doc, NEW some, some \subseteq DOMAIN ops, NEW x,
         Sets(ops, some, x)
  PROVE  ReplayOps(doc, ops, some) = IF some = {} THEN doc ELSE x
<1>1. PICK after : Replayed(doc, ops, some, after) /\ ReplayOps(doc, ops, some) = after[Len(ops)]
  BY ReplayRounds
<1>2. Len(ops) \in Nat /\ DOMAIN ops = 1..Len(ops)
  OBVIOUS
<1> DEFINE Is(n) == after[n] = IF some \cap (1..n) = {} THEN doc ELSE x
           T == {n \in Nat : n <= Len(ops) /\ ~ Is(n)}
<1>3. ASSUME NEW j \in some PROVE \A v : ApplyOperation(v, ops[j]) = x
  BY <1>3 DEF ApplyOperation, Sets
<1>4. T = {}
  <2> SUFFICES ASSUME T # {} PROVE FALSE
    OBVIOUS
  <2>1. PICK n \in T : \A m \in T : n <= m
    BY LeastOfNaturals
  <2>2. n \in Nat /\ n <= Len(ops) /\ ~ Is(n)
    BY <2>1
  <2>3. n # 0
    <3>1. Is(0)
      BY <1>1 DEF Replayed
    <3> HIDE DEF Is
    <3> QED
      BY <2>2, <3>1
  <2>4. n - 1 \in Nat /\ n \in 1..Len(ops) /\ n - 1 <= Len(ops) /\ ~ (n <= n - 1)
    BY <1>2, <2>2, <2>3
  <2>5. Is(n - 1)
    <3>1. n - 1 \notin T
      <4> HIDE DEF T
      <4> QED
        BY <2>1, <2>4
    <3> HIDE DEF Is
    <3> QED
      BY <2>4, <3>1
  <2>6. after[n] = IF n \in some THEN ApplyOperation(after[n - 1], ops[n]) ELSE after[n - 1]
    BY <1>1, <2>4 DEF Replayed
  <2>7. \A j : j \in 1..n <=> j \in 1..(n - 1) \/ j = n
    BY <2>4
  <2>8. CASE n \in some
    <3>1. after[n] = x
      BY <1>3, <2>6, <2>8
    <3> QED
      BY <2>2, <2>4, <2>8, <3>1
  <2>9. CASE n \notin some
    <3>1. some \cap (1..n) = some \cap (1..(n - 1))
      BY <2>7, <2>9
    <3> QED
      BY <2>2, <2>5, <2>6, <2>9, <3>1
  <2> QED
    BY <2>8, <2>9
<1>5. Is(Len(ops))
  <2> HIDE DEF Is
  <2> QED
    BY <1>2, <1>4
<1>6. some \cap (1..Len(ops)) = some
  BY <1>2
<1> QED
  BY <1>1, <1>5, <1>6

\* A document after each commit of the log.
Grew(d, q, at) ==
  /\ at[0] = Absent
  /\ \A n \in 1..q : at[n] = ReplayOps(at[n - 1], commits[n].ops, StoredOps(n, d))

\* A document at a seq is what the commits up to it have left.
LEMMA DocRounds ==
  ASSUME NEW d, NEW q \in Nat
  PROVE  \E at : Grew(d, q, at) /\ DocAt(d, q) = at[q]
<1> DEFINE Next1(v, n) == ReplayOps(v, commits[n].ops, StoredOps(n, d))
           Body(f, m) == [n \in 0..m |-> IF n = 0 THEN Absent ELSE Next1(f[n - 1], n)]
           T == {m \in Nat : ~ \E f : f = Body(f, m)}
<1>a. DocAt(d, q) = (CHOOSE f : f = Body(f, q))[q]
  BY DEF DocAt
<1>b. \A v, n : Next1(v, n) = ReplayOps(v, commits[n].ops, StoredOps(n, d))
  OBVIOUS
<1> HIDE DEF Next1
<1>1. \A n \in Nat : \E f : f = Body(f, n)
  <2> SUFFICES ASSUME T # {} PROVE FALSE
    OBVIOUS
  <2>1. PICK n \in T : \A m \in T : n <= m
    BY LeastOfNaturals
  <2> HIDE DEF T
  <2>2. CASE n = 0
    <3> DEFINE g == [i \in 0..0 |-> Absent]
    <3>1. g = Body(g, 0)
      OBVIOUS
    <3> QED
      BY <2>1, <2>2, <3>1 DEF T
  <2>3. CASE n # 0
    <3>0. n \in Nat
      BY <2>1 DEF T
    <3>1. n \in Nat /\ n - 1 \in Nat /\ n - 1 \notin T
      BY <2>1, <2>3, <3>0
    <3>2. PICK f : f = Body(f, n - 1)
      BY <3>1 DEF T
    <3> DEFINE g == [i \in 0..n |-> IF i = n THEN Next1(f[n - 1], n) ELSE f[i]]
    <3>3. \A i \in 0..(n - 1) : f[i] = IF i = 0 THEN Absent ELSE Next1(f[i - 1], i)
      BY <3>2
    <3>4. ASSUME NEW i \in 0..n PROVE g[i] = IF i = 0 THEN Absent ELSE Next1(g[i - 1], i)
      <4>1. CASE i = n
        <5>1. n - 1 \in 0..n /\ n - 1 # n
          BY <3>1
        <5>2. g[n - 1] = f[n - 1]
          BY <5>1
        <5> QED
          BY <2>3, <4>1, <5>2
      <4>2. CASE i # n
        <5>1. i \in 0..(n - 1)
          BY <3>1, <4>2
        <5>2. i # 0 => i - 1 \in 0..n /\ i - 1 # n /\ i - 1 \in 0..(n - 1)
          BY <3>1, <5>1
        <5>3. i # 0 => g[i - 1] = f[i - 1]
          BY <5>2
        <5>4. g[i] = f[i]
          BY <4>2
        <5> QED
          BY <3>3, <5>1, <5>3, <5>4
      <4> QED
        BY <4>1, <4>2
    <3>5. g = Body(g, n)
      BY <3>4
    <3> QED
      BY <2>1, <3>5 DEF T
  <2> QED
    BY <2>2, <2>3
<1> DEFINE at == CHOOSE f : f = Body(f, q)
<1>2. at = Body(at, q)
  BY <1>1
<1>3. DocAt(d, q) = at[q]
  BY <1>a
<1> HIDE DEF at
<1>4. \A n \in 0..q : at[n] = IF n = 0 THEN Absent ELSE Next1(at[n - 1], n)
  BY <1>2
<1>5. Grew(d, q, at)
  BY <1>4, <1>b DEF Grew
<1> QED
  BY <1>3, <1>5

-----------------------------------------------------------------------------
(* Content-addressed documents                                             *)

\* Every stored operation on a `cid:` document sets the content its id names.
ContentRows ==
  \A v \in revisions : v.op.doc \in ContentDocs =>
    v.op.op = "set" /\ v.op.val = ContentOf[v.op.doc]

InstalledOnce ==
  \A d \in ContentDocs, v, w \in revisions : v.op.doc = d /\ w.op.doc = d => v.seq = w.seq

Installed(d, q) == \E v \in revisions : v.op.doc = d /\ v.seq <= q

\* A `cid:` document holds its content from its first revision on.
LEMMA ContentIs ==
  ASSUME TypeOK, ContentRows, NEW d \in ContentDocs, NEW q \in 0..serverSeq
  PROVE  DocAt(d, q) = IF Installed(d, q) THEN ContentOf[d] ELSE Absent
<1>0. q \in Nat /\ serverSeq \in Nat /\ DOMAIN commits = 1..serverSeq /\ q <= serverSeq
  BY DEF TypeOK, serverSeq
<1>1. PICK at : Grew(d, q, at) /\ DocAt(d, q) = at[q]
  BY <1>0, DocRounds
<1>2. \A v \in revisions : /\ v.seq \in 1..serverSeq
                           /\ v.opIndex \in DOMAIN commits[v.seq].ops
                           /\ v.op = commits[v.seq].ops[v.opIndex]
  BY <1>0 DEF TypeOK
<1> DEFINE Is(n) == at[n] = IF Installed(d, n) THEN ContentOf[d] ELSE Absent
           T == {n \in Nat : n <= q /\ ~ Is(n)}
<1>3. Is(0)
  <2>1. ~ Installed(d, 0)
    BY <1>2, <1>0 DEF Installed
  <2> QED
    BY <1>1, <2>1 DEF Grew
<1>4. ASSUME NEW n \in 1..q, Is(n - 1) PROVE Is(n)
  <2> DEFINE ops == commits[n].ops
             some == StoredOps(n, d)
  <2>1. n \in 1..serverSeq /\ commits[n] \in Submissions
    BY <1>0 DEF TypeOK
  <2>2. ops \in Seq(Range(ops))
    BY <2>1, EngineAssumption
  <2>3. some \in SUBSET (DOMAIN ops)
    BY DEF StoredOps, OpsOn
  <2>4. Sets(ops, some, ContentOf[d])
    <3> SUFFICES ASSUME NEW j \in some PROVE ops[j].op = "set" /\ ops[j].val = ContentOf[d]
      BY DEF Sets
    <3>1. PICK v \in revisions : v.seq = n /\ v.opIndex = j
      BY DEF StoredOps
    <3>2. v.op = ops[j] /\ ops[j].doc = d
      BY <1>2, <3>1 DEF StoredOps, OpsOn
    <3> QED
      BY <3>2 DEF ContentRows
  <2>5. some = {} <=> ~ \E v \in revisions : v.op.doc = d /\ v.seq = n
    BY <1>2 DEF StoredOps, OpsOn
  <2>6. at[n] = ReplayOps(at[n - 1], ops, some)
    BY <1>1 DEF Grew
  <2> HIDE DEF ops, some
  <2>7. at[n] = IF some = {} THEN at[n - 1] ELSE ContentOf[d]
    BY <2>2, <2>3, <2>4, <2>6, ReplaySets
  <2>8. Installed(d, n) <=> Installed(d, n - 1) \/ some # {}
    <3>1. \A v \in revisions : v.seq <= n <=> v.seq <= n - 1 \/ v.seq = n
      BY <1>0, <1>2
    <3> QED
      BY <2>5, <3>1 DEF Installed
  <2> QED
    BY <1>4, <2>7, <2>8
<1>5. T = {}
  <2> SUFFICES ASSUME T # {} PROVE FALSE
    OBVIOUS
  <2> HIDE DEF Is
  <2>1. PICK n \in T : \A m \in T : n <= m
    BY LeastOfNaturals
  <2>2. n \in Nat /\ n <= q /\ ~ Is(n) /\ n # 0
    BY <1>3, <2>1
  <2>3. n - 1 \in Nat /\ n \in 1..q /\ n - 1 <= q /\ ~ (n <= n - 1)
    BY <1>0, <2>2
  <2>4. n - 1 \notin T
    <3> HIDE DEF T
    <3> QED
      BY <2>1, <2>3
  <2> QED
    BY <1>4, <2>2, <2>3, <2>4
<1>6. Is(q)
  <2> HIDE DEF Is
  <2> QED
    BY <1>0, <1>5
<1> QED
  BY <1>1, <1>6

\* A commit installs the content of a `cid:` document only where there is none.
LEMMA ContentAppend ==
  ASSUME TypeOK, ContentRows, InstalledOnce, NEW c, Appends(c)
  PROVE  ContentRows' /\ InstalledOnce'
<1>1. /\ \A v \in revisions : v.seq \in 1..serverSeq
      /\ \A v \in revisions' \ revisions :
           /\ v.seq = serverSeq + 1
           /\ v.opIndex \in DOMAIN c.ops \ Elided(c)
           /\ v.op = c.ops[v.opIndex]
      /\ serverSeq \in Nat
  BY TablesAfterAppend
<1>2. ContentAddressed(c)
  BY DEF Appends, Admissible
<1>3. ContentRows'
  BY <1>1, <1>2 DEF ContentRows, ContentAddressed
<1>4. ASSUME NEW v \in revisions' \ revisions, v.op.doc \in ContentDocs,
             NEW w \in revisions, w.op.doc = v.op.doc
      PROVE  FALSE
  <2> DEFINE d == v.op.doc
  <2>1. ReadsFresh(c) /\ v.opIndex \notin ElidedContentSets(c) /\ v.opIndex \in DOMAIN c.ops
    BY <1>1 DEF Elided
  <2>2. c.ops[v.opIndex].doc = d
    BY <1>1
  <2>3. Stored(d) = Absent
    BY <1>4, <2>1, <2>2 DEF ElidedContentSets
  <2>4. Installed(d, serverSeq)
    BY <1>1, <1>4 DEF Installed
  <2>5. serverSeq \in 0..serverSeq
    BY <1>1
  <2>6. DocAt(d, serverSeq) = ContentOf[d]
    BY <1>4, <2>4, <2>5, ContentIs
  <2> QED
    BY <1>4, <2>3, <2>6, EngineAssumption DEF Stored
<1>5. InstalledOnce'
  BY <1>1, <1>4 DEF InstalledOnce
<1> QED
  BY <1>3, <1>5

\* A content-addressed document is installed once and keeps the content its id
\* names, whoever installs it again (the `cid:` branch of applyCommitTransaction
\* and its elision).
THEOREM ContentStays == Spec => []ContentImmutable
<1> DEFINE Inv == ContentRows /\ InstalledOnce
<1>1. Init => Inv
  BY DEF Init, ContentRows, InstalledOnce
<1>2. TypeOK /\ Inv /\ [Next]_vars => Inv'
  <2> SUFFICES ASSUME TypeOK, Inv, [Next]_vars PROVE Inv'
    OBVIOUS
  <2>1. CASE UNCHANGED <<commits, revisions>>
    BY <2>1 DEF ContentRows, InstalledOnce
  <2>2. ASSUME NEW c \in Submissions, Appends(c) PROVE Inv'
    BY <2>2, ContentAppend
  <2> QED
    BY <2>1, <2>2, TableSteps
<1>3. TypeOK /\ Inv => ContentImmutable
  <2> SUFFICES ASSUME TypeOK, Inv, NEW d \in ContentDocs
               PROVE  /\ \A v, w \in revisions : v.op.doc = d /\ w.op.doc = d => v.seq = w.seq
                      /\ \A q \in DOMAIN commits :
                           DocAt(d, q) = IF \E v \in revisions : v.op.doc = d /\ v.seq <= q
                                         THEN ContentOf[d] ELSE Absent
    BY DEF ContentImmutable
  <2>1. \A q \in DOMAIN commits : q \in 0..serverSeq
    BY DEF TypeOK, serverSeq
  <2>2. \A q \in DOMAIN commits : DocAt(d, q) = IF Installed(d, q) THEN ContentOf[d] ELSE Absent
    BY <2>1, ContentIs
  <2> QED
    BY <2>2 DEF Installed, InstalledOnce
<1> QED
  BY <1>1, <1>2, <1>3, TypeCorrect, PTL DEF Spec

-----------------------------------------------------------------------------
(* What reads saw: the rows of the log                                     *)

\* Nothing stored before seq `before` makes read r, taken at `after`, stale.
Quiet(r, after, before, s, layers) ==
  \A v \in Conflicts(r, after, s, layers) : before <= v.seq

ResolvedBefore(s, layers, e) ==
  \A n \in layers : \E p \in DOMAIN commits : p < e /\ p \in Resolutions(s, n)

\* The reads of commit c, admitted as row e, were found fresh.
FreshAt(c, e) ==
  /\ \A r \in Range(c.confirmed) : r.seq < e /\ Quiet(r, r.seq, e, c.session, {})
  /\ \A r \in Range(c.pending) : r.basis # NoBasis =>
       /\ r.basis < e
       /\ r.layers # {}
       /\ ResolvedBefore(c.session, r.layers, e)
       /\ \/ Quiet(r, r.basis, e, c.session, r.layers)
          \/ \E q \in IdentityLayers(c, r) :
               q < e /\ Quiet(r, q, e, c.session, r.layers)

\* Row e wrote all that commit c does, content that was there already excepted.
WroteAt(c, e) ==
  \A d \in Docs \ ContentDocs : StoredOps(e, d) = OpsOn(c.ops, d)

\* The view commit c had of document d, where a first read of it tells.
ViewOf(c, d, doc) ==
  \/ ReadsOn(c.pending, d) # {} /\ doc = PendingView(c.session, FirstOn(c.pending, d))
  \/ /\ ReadsOn(c.pending, d) = {}
     /\ ReadsOn(c.confirmed, d) # {}
     /\ doc = DocAt(d, FirstOn(c.confirmed, d).seq)

\* What that view was taken from was in the log before row e.
ViewBefore(c, d, e) ==
  /\ ReadsOn(c.pending, d) # {} =>
       LET r == FirstOn(c.pending, d) IN
         /\ r.doc = d
         /\ r.basis \in 0..(e - 1)
         /\ r.layers \in SUBSET Nat
         /\ r.layers # {}
         /\ ResolvedBefore(c.session, r.layers, e)
  /\ ReadsOn(c.confirmed, d) # {} =>
       FirstOn(c.confirmed, d).doc = d /\ FirstOn(c.confirmed, d).seq \in 0..(e - 1)

\* Commit c, admitted as row e, changed nothing: its operations leave each of
\* its documents as the store held it, and so they leave the view of it.
IdentityAt(c, e) ==
  \A d \in {o.doc : o \in Range(c.ops)} \ ContentDocs :
    /\ StoredOps(e, d) = {}
    /\ ViewBefore(c, d, e)
    /\ \A doc : ViewOf(c, d, doc) \/ doc = DocAt(d, e - 1) =>
         ReplayOps(doc, c.ops, OpsOn(c.ops, d)) = DocAt(d, e - 1)

\* Every row was admitted on fresh reads or as an identity.
RowsDecided ==
  \A e \in DOMAIN commits : \A c \in {commits[e]} :
    \/ WroteAt(c, e) /\ FreshAt(c, e)
    \/ IdentityAt(c, e) /\ ~ Bound(e)

\* A commit that writes a `cid:` document sets its content, and finds it or
\* leaves it installed.
RowsInstall ==
  \A e \in DOMAIN commits : \A c \in {commits[e]} :
    /\ ContentAddressed(c)
    /\ \A d \in ContentDocs : OpsOn(c.ops, d) # {} => Installed(d, e)

\* What sessions have sent reads seqs the server has reached.
ReadsReached ==
  \A c \in submitted : \A r \in Range(c.confirmed) : r.seq <= serverSeq

\* The operations of a new row that are stored are those not elided.
LEMMA StoredNow ==
  ASSUME TypeOK, NEW c, Appends(c), NEW new, new = serverSeq + 1, NEW d
  PROVE  StoredOps(new, d)' = OpsOn(c.ops, d) \ Elided(c)
<1>1. \A j \in DOMAIN c.ops :
        (\E v \in revisions' : v.seq = new /\ v.opIndex = j) <=> j \notin Elided(c)
  <2> TAKE j \in DOMAIN c.ops
  <2>1. ASSUME NEW v \in revisions', v.seq = new, v.opIndex = j PROVE j \notin Elided(c)
    BY <2>1, TablesAfterAppend
  <2>2. ASSUME j \notin Elided(c)
        PROVE  \E v \in revisions' : v.seq = new /\ v.opIndex = j
    <3> DEFINE v == [seq |-> new, opIndex |-> j, op |-> c.ops[j]]
    <3>1. v \in revisions'
      BY <2>2 DEF Appends, NewRevisions
    <3> QED
      BY <3>1
  <2> QED
    BY <2>1, <2>2
<1>2. commits'[new] = c
  BY TablesAfterAppend
<1>3. StoredOps(new, d)' =
        {j \in OpsOn(c.ops, d) : \E v \in revisions' : v.seq = new /\ v.opIndex = j}
  BY <1>2 DEF StoredOps, OpsOn
<1>4. \A j \in OpsOn(c.ops, d) : j \in DOMAIN c.ops
  BY DEF OpsOn
<1> QED
  BY <1>1, <1>3, <1>4

\* A commit the store has taken keeps its row.
LEMMA ResolutionStable ==
  ASSUME TypeOK, NEW c, Appends(c), NEW s, NEW n, Accepted(s, n)
  PROVE  /\ Resolutions(s, n)' = Resolutions(s, n)
         /\ ResolutionSeq(s, n)' = ResolutionSeq(s, n)
         /\ ResolutionSeq(s, n) \in DOMAIN commits
<1>1. ~ (c.session = s /\ c.localSeq = n)
  BY DEF Appends, Existing, Accepted
<1>2. Resolutions(s, n)' = Resolutions(s, n)
  BY <1>1, TablesAfterAppend DEF Resolutions
<1>3. ResolutionSeq(s, n) \in Resolutions(s, n)
  BY DEF Accepted, ResolutionSeq
<1> QED
  BY <1>2, <1>3 DEF ResolutionSeq, Resolutions

\* A view is a function of its basis and its layers.
LEMMA ViewSame ==
  ASSUME NEW s, NEW r, DocAt(r.doc, r.basis)' = DocAt(r.doc, r.basis),
         \A n \in r.layers : LayerOps(s, n)' = LayerOps(s, n)
  PROVE  PendingView(s, r)' = PendingView(s, r)
<1> DEFINE top == Max(r.layers) + 1
           Now(f) == [n \in 0..top |->
             IF n = 0 THEN DocAt(r.doc, r.basis)
             ELSE IF n - 1 \in r.layers
                  THEN ReplayOps(f[n - 1], LayerOps(s, n - 1), OpsOn(LayerOps(s, n - 1), r.doc))
                  ELSE f[n - 1]]
           Then(f) == [n \in 0..top |->
             IF n = 0 THEN DocAt(r.doc, r.basis)'
             ELSE IF n - 1 \in r.layers
                  THEN ReplayOps(f[n - 1], LayerOps(s, n - 1)', OpsOn(LayerOps(s, n - 1)', r.doc))
                  ELSE f[n - 1]]
<1>1. PendingView(s, r) = (CHOOSE f : f = Now(f))[top]
  BY DEF PendingView
<1>2. PendingView(s, r)' = (CHOOSE f : f = Then(f))[top]
  BY DEF PendingView
<1>3. \A f : Now(f) = Then(f)
  OBVIOUS
<1> HIDE DEF Now, Then, top
<1>4. (CHOOSE f : f = Now(f)) = (CHOOSE f : f = Then(f))
  BY <1>3
<1> QED
  BY <1>1, <1>2, <1>4

\* A view through accepted layers does not change.
LEMMA ViewStable ==
  ASSUME TypeOK, NEW c, Appends(c), NEW s, NEW r, r.basis \in 0..serverSeq,
         \A n \in r.layers : Accepted(s, n)
  PROVE  PendingView(s, r)' = PendingView(s, r)
<1>1. \A n \in r.layers : LayerOps(s, n)' = LayerOps(s, n)
  <2> TAKE n \in r.layers
  <2>1. ResolutionSeq(s, n)' = ResolutionSeq(s, n) /\ ResolutionSeq(s, n) \in DOMAIN commits
    BY ResolutionStable
  <2> QED
    BY <2>1, TablesAfterAppend DEF LayerOps
<1>2. DocAt(r.doc, r.basis)' = DocAt(r.doc, r.basis)
  BY DocAtStable
<1> QED
  BY <1>1, <1>2, ViewSame

\* A new row makes no earlier scan find more.
LEMMA QuietStable ==
  ASSUME TypeOK, NEW c, Appends(c), NEW r, NEW after, NEW e \in 1..(serverSeq + 1),
         NEW s, NEW layers, Quiet(r, after, e, s, layers)
  PROVE  Quiet(r, after, e, s, layers)'
<1> SUFFICES ASSUME NEW v \in revisions', v.seq > after, v.op.doc = r.doc, Touches(v.op, r),
                    ~ OwnLayer(s, layers, v.seq)'
             PROVE  e <= v.seq
  BY DEF Quiet, Conflicts
<1>1. CASE v \in revisions
  <2>1. ~ OwnLayer(s, layers, v.seq)
    BY <1>1, TablesAfterAppend DEF OwnLayer
  <2> QED
    BY <1>1, <2>1 DEF Quiet, Conflicts
<1>2. CASE v \notin revisions
  BY <1>2, TablesAfterAppend
<1> QED
  BY <1>1, <1>2

\* Every conflict of a fresh read is at or past the next row.
LEMMA QuietNow ==
  ASSUME TypeOK, NEW c, Appends(c), NEW new, new = serverSeq + 1,
         NEW r, NEW after, NEW s, NEW layers, Conflicts(r, after, s, layers) = {}
  PROVE  Quiet(r, after, new, s, layers)'
<1> SUFFICES ASSUME NEW v \in revisions', v.seq > after, v.op.doc = r.doc, Touches(v.op, r),
                    ~ OwnLayer(s, layers, v.seq)'
             PROVE  new <= v.seq
  BY DEF Quiet, Conflicts
<1>1. CASE v \in revisions
  <2>1. ~ OwnLayer(s, layers, v.seq)
    BY <1>1, TablesAfterAppend DEF OwnLayer
  <2> QED
    BY <1>1, <2>1 DEF Conflicts
<1>2. CASE v \notin revisions
  BY <1>2, TablesAfterAppend
<1> QED
  BY <1>1, <1>2

\* It unmakes no identity layer.
LEMMA IdentityLayersStable ==
  ASSUME TypeOK, NEW b, Appends(b), NEW c, NEW r, NEW q \in IdentityLayers(c, r)
  PROVE  q \in IdentityLayers(c, r)'
<1>1. q \in DOMAIN commits /\ q \in DOMAIN commits' /\ commits'[q] = commits[q]
  BY TablesAfterAppend DEF IdentityLayers
<1>2. ~ \E v \in revisions' : v.seq = q /\ v.op.doc = r.doc
  BY <1>1, TablesAfterAppend DEF IdentityLayers
<1>3. OwnLayer(c.session, r.layers, q)'
  BY <1>1 DEF OwnLayer, IdentityLayers
<1> QED
  BY <1>1, <1>2, <1>3 DEF IdentityLayers

\* What was resolved stays resolved.
LEMMA ResolvedBeforeStable ==
  ASSUME TypeOK, NEW c, Appends(c), NEW s, NEW layers, NEW e, ResolvedBefore(s, layers, e)
  PROVE  /\ ResolvedBefore(s, layers, e)'
         /\ \A n \in layers : Accepted(s, n)
BY TablesAfterAppend DEF ResolvedBefore, Resolutions, Accepted

\* What is known of a row stays true.
LEMMA FreshAtStable ==
  ASSUME TypeOK, NEW b, Appends(b), NEW c, NEW e \in DOMAIN commits, FreshAt(c, e)
  PROVE  FreshAt(c, e)'
<1>0. e \in 1..(serverSeq + 1)
  BY TablesAfterAppend
<1>1. ASSUME NEW r \in Range(c.confirmed)
      PROVE  r.seq < e /\ Quiet(r, r.seq, e, c.session, {})'
  BY <1>0, QuietStable DEF FreshAt
<1>2. ASSUME NEW r \in Range(c.pending), r.basis # NoBasis
      PROVE  /\ r.basis < e
             /\ r.layers # {}
             /\ ResolvedBefore(c.session, r.layers, e)'
             /\ \/ Quiet(r, r.basis, e, c.session, r.layers)'
                \/ \E q \in IdentityLayers(c, r)' :
                     q < e /\ Quiet(r, q, e, c.session, r.layers)'
  <2>1. /\ r.basis < e /\ r.layers # {} /\ ResolvedBefore(c.session, r.layers, e)
        /\ \/ Quiet(r, r.basis, e, c.session, r.layers)
           \/ \E q \in IdentityLayers(c, r) : q < e /\ Quiet(r, q, e, c.session, r.layers)
    BY <1>2 DEF FreshAt
  <2>2. ResolvedBefore(c.session, r.layers, e)'
    BY <2>1, ResolvedBeforeStable
  <2>3. CASE Quiet(r, r.basis, e, c.session, r.layers)
    BY <1>0, <2>1, <2>2, <2>3, QuietStable
  <2>4. ASSUME NEW q \in IdentityLayers(c, r), q < e, Quiet(r, q, e, c.session, r.layers)
        PROVE  q \in IdentityLayers(c, r)' /\ Quiet(r, q, e, c.session, r.layers)'
    BY <1>0, <2>4, QuietStable, IdentityLayersStable
  <2> QED
    BY <2>1, <2>2, <2>3, <2>4
<1> QED
  BY <1>1, <1>2 DEF FreshAt

\* Views of what was in the log stay what they were.
LEMMA ViewOfStable ==
  ASSUME TypeOK, NEW b, Appends(b), NEW c, NEW d, NEW e \in 1..(serverSeq + 1),
         ViewBefore(c, d, e), NEW doc
  PROVE  ViewBefore(c, d, e)' /\ (ViewOf(c, d, doc)' <=> ViewOf(c, d, doc))
<1>0. \A n : n \in 0..(e - 1) => n \in 0..serverSeq
  BY TablesAfterAppend
<1>1. PICK r : r = FirstOn(c.pending, d)
  OBVIOUS
<1>2. PICK x : x = FirstOn(c.confirmed, d)
  OBVIOUS
<1>3. CASE ReadsOn(c.pending, d) # {}
  <2>1. r.basis \in 0..serverSeq /\ ResolvedBefore(c.session, r.layers, e)
    BY <1>0, <1>1, <1>3 DEF ViewBefore
  <2>2. ResolvedBefore(c.session, r.layers, e)' /\ \A n \in r.layers : Accepted(c.session, n)
    BY <2>1, ResolvedBeforeStable
  <2>3. PendingView(c.session, r)' = PendingView(c.session, r)
    BY <2>1, <2>2, ViewStable
  <2> QED
    BY <1>1, <1>3, <2>2, <2>3 DEF ViewOf, ViewBefore
<1>4. CASE ReadsOn(c.pending, d) = {} /\ ReadsOn(c.confirmed, d) # {}
  <2>1. x.seq \in 0..serverSeq
    BY <1>0, <1>2, <1>4 DEF ViewBefore
  <2>2. DocAt(d, x.seq)' = DocAt(d, x.seq)
    BY <2>1, DocAtStable
  <2> QED
    BY <1>2, <1>4, <2>2 DEF ViewOf, ViewBefore
<1>5. CASE ReadsOn(c.pending, d) = {} /\ ReadsOn(c.confirmed, d) = {}
  BY <1>5 DEF ViewOf, ViewBefore
<1> QED
  BY <1>3, <1>4, <1>5

\* What was an identity at its row stays one.
LEMMA IdentityAtStable ==
  ASSUME TypeOK, NEW b, Appends(b), NEW c, NEW e \in DOMAIN commits, IdentityAt(c, e)
  PROVE  IdentityAt(c, e)'
<1>0. e \in 1..(serverSeq + 1) /\ e - 1 \in 0..serverSeq
  BY TablesAfterAppend
<1> SUFFICES ASSUME NEW d \in {o.doc : o \in Range(c.ops)} \ ContentDocs
             PROVE  /\ StoredOps(e, d)' = {}
                    /\ ViewBefore(c, d, e)'
                    /\ \A doc : ViewOf(c, d, doc)' \/ doc = DocAt(d, e - 1)' =>
                         ReplayOps(doc, c.ops, OpsOn(c.ops, d)) = DocAt(d, e - 1)'
  BY DEF IdentityAt, ReplayOps, OpsOn, ApplyOperation
<1>1. StoredOps(e, d)' = {} /\ DocAt(d, e - 1)' = DocAt(d, e - 1)
  BY <1>0, StoredOpsStable, DocAtStable DEF IdentityAt
<1>2. ViewBefore(c, d, e)
  BY DEF IdentityAt
<1>3. ViewBefore(c, d, e)' /\ \A doc : ViewOf(c, d, doc)' <=> ViewOf(c, d, doc)
  BY <1>0, <1>2, ViewOfStable
<1> QED
  BY <1>1, <1>3 DEF IdentityAt

\* A commit admitted on fresh reads makes a row of fresh reads.
LEMMA FreshNow ==
  ASSUME TypeOK, NEW c, Appends(c), ReadsFresh(c), NEW new, new = serverSeq + 1,
         \A r \in Range(c.confirmed) : r.seq <= serverSeq
  PROVE  FreshAt(c, new)'
<1>0. c \in Submissions /\ serverSeq \in Nat /\ DOMAIN commits = 1..serverSeq
  BY TablesAfterAppend DEF Appends
<1>1. ASSUME NEW r \in Range(c.confirmed)
      PROVE  r.seq < new /\ Quiet(r, r.seq, new, c.session, {})'
  <2>1. Conflicts(r, r.seq, c.session, {}) = {}
    BY DEF ReadsFresh, ConfirmedReadsFresh
  <2>2. r.seq \in Nat
    BY <1>0, EngineAssumption
  <2> QED
    BY <1>0, <2>1, <2>2, QuietNow
<1>2. ASSUME NEW r \in Range(c.pending), r.basis # NoBasis
      PROVE  /\ r.basis < new
             /\ r.layers # {}
             /\ ResolvedBefore(c.session, r.layers, new)'
             /\ \/ Quiet(r, r.basis, new, c.session, r.layers)'
                \/ \E q \in IdentityLayers(c, r)' :
                     q < new /\ Quiet(r, q, new, c.session, r.layers)'
  <2>1. r.basis \in Nat /\ r.basis <= serverSeq /\ r.layers # {}
    BY <1>0, <1>2, EngineAssumption DEF Appends, Admissible, ReadsWellFormed
  <2>2. ResolvedBefore(c.session, r.layers, new)'
    <3> SUFFICES ASSUME NEW n \in r.layers
                 PROVE  \E p \in DOMAIN commits' : p < new /\ p \in Resolutions(c.session, n)'
      BY DEF ResolvedBefore
    <3>1. PICK p : p \in Resolutions(c.session, n)
      BY DEF Appends, Admissible, DependenciesResolved, Accepted
    <3>2. p \in DOMAIN commits /\ p \in DOMAIN commits' /\ commits'[p] = commits[p]
      BY <3>1, TablesAfterAppend DEF Resolutions
    <3> QED
      BY <1>0, <3>1, <3>2 DEF Resolutions
  <2>3. PendingReadFresh(c, r)
    BY DEF ReadsFresh
  <2>4. CASE Conflicts(r, r.basis, c.session, r.layers) = {}
    BY <1>0, <2>1, <2>2, <2>4, QuietNow
  <2>5. CASE /\ IdentityBasis(c, r) > r.basis
             /\ Conflicts(r, IdentityBasis(c, r), c.session, r.layers) = {}
    <3> DEFINE S == IdentityLayers(c, r)
    <3>1. S # {} /\ IdentityBasis(c, r) = Max(S)
      BY <2>1, <2>5 DEF IdentityBasis
    <3>2. S \in SUBSET (1..serverSeq)
      BY <1>0 DEF IdentityLayers
    <3>3. PICK q \in S : q = Max(S)
      BY <1>0, <3>1, <3>2, GreatestSeq
    <3>4. Quiet(r, q, new, c.session, r.layers)'
      BY <2>5, <3>1, <3>3, QuietNow
    <3>5. q \in IdentityLayers(c, r)' /\ q < new
      BY <1>0, <3>2, <3>3, IdentityLayersStable
    <3> QED
      BY <1>0, <2>1, <2>2, <3>4, <3>5
  <2> QED
    BY <1>2, <2>3, <2>4, <2>5 DEF PendingReadFresh
<1> QED
  BY <1>1, <1>2 DEF FreshAt

\* A commit admitted on fresh reads writes all it does, content excepted.
LEMMA WroteNow ==
  ASSUME TypeOK, NEW c, Appends(c), ReadsFresh(c), NEW new, new = serverSeq + 1
  PROVE  WroteAt(c, new)'
<1> SUFFICES ASSUME NEW d \in Docs \ ContentDocs PROVE StoredOps(new, d)' = OpsOn(c.ops, d)
  BY DEF WroteAt, OpsOn
<1>1. StoredOps(new, d)' = OpsOn(c.ops, d) \ Elided(c)
  BY StoredNow
<1>2. OpsOn(c.ops, d) \cap Elided(c) = {}
  BY DEF Elided, ElidedContentSets, OpsOn
<1> QED
  BY <1>1, <1>2

\* The first read a commit has of a document is one of its reads.
LEMMA FirstRead ==
  ASSUME NEW S, NEW reads \in Seq(S), NEW d, ReadsOn(reads, d) # {}
  PROVE  FirstOn(reads, d) \in Range(reads) /\ FirstOn(reads, d).doc = d
<1> DEFINE T == ReadsOn(reads, d)
<1>1. T \in SUBSET Nat
  BY DEF ReadsOn
<1>2. PICK x \in T : \A y \in T : x <= y
  BY <1>1, LeastOfNaturals
<1>3. Min(T) \in T
  BY <1>2 DEF Min
<1> QED
  BY <1>3 DEF FirstOn, ReadsOn, Range

\* What a commit's view of a document was taken from is in the log.
LEMMA ViewBeforeNow ==
  ASSUME TypeOK, NEW c, Appends(c), NEW new, new = serverSeq + 1, NEW d, BasisKnown(c, d),
         \A r \in Range(c.confirmed) : r.seq <= serverSeq
  PROVE  ViewBefore(c, d, new)
<1>0. c \in Submissions /\ serverSeq \in Nat /\ DOMAIN commits = 1..serverSeq
  BY TablesAfterAppend DEF Appends
<1>1. CASE ReadsOn(c.pending, d) # {}
  <2> DEFINE r == FirstOn(c.pending, d)
  <2>1. r \in Range(c.pending) /\ r.doc = d
    BY <1>0, <1>1, FirstRead, EngineAssumption
  <2>2. r.basis # NoBasis /\ \A n \in r.layers : Accepted(c.session, n)
    BY <1>1 DEF BasisKnown
  <2>3. r.layers \in SUBSET Nat /\ r.layers # {} /\ r.basis \in Nat /\ r.basis <= serverSeq
    <3> HIDE DEF r
    <3> QED
      BY <1>0, <2>1, <2>2, EngineAssumption DEF Appends, Admissible, ReadsWellFormed
  <2>4. ResolvedBefore(c.session, r.layers, new)
    <3> SUFFICES ASSUME NEW n \in r.layers
                 PROVE  \E p \in DOMAIN commits : p < new /\ p \in Resolutions(c.session, n)
      BY DEF ResolvedBefore
    <3>1. PICK p : p \in Resolutions(c.session, n)
      BY <2>2 DEF Accepted
    <3> QED
      BY <1>0, <3>1 DEF Resolutions
  <2>5. r.basis \in 0..(new - 1)
    BY <1>0, <2>3
  <2>6. r.doc = d /\ r.basis \in 0..(new - 1) /\ r.layers \in SUBSET Nat /\ r.layers # {}
    BY <2>1, <2>3, <2>5
  <2>7. ReadsOn(c.confirmed, d) # {} =>
          FirstOn(c.confirmed, d).doc = d /\ FirstOn(c.confirmed, d).seq \in 0..(new - 1)
    BY <1>0, FirstRead, EngineAssumption
  <2> QED
    BY <2>4, <2>6, <2>7 DEF ViewBefore
<1>2. CASE ReadsOn(c.pending, d) = {}
  BY <1>0, <1>2, FirstRead, EngineAssumption DEF ViewBefore
<1> QED
  BY <1>1, <1>2

\* A commit admitted as an identity makes a row that changed nothing.
LEMMA IdentityNow ==
  ASSUME TypeOK, ElidedVerdicts = {}, NEW c, Appends(c), ~ ReadsFresh(c),
         NEW new, new = serverSeq + 1, \A r \in Range(c.confirmed) : r.seq <= serverSeq
  PROVE  IdentityAt(c, new)' /\ ~ Bound(new)'
<1>0. c \in Submissions /\ serverSeq \in Nat /\ DOMAIN commits = 1..serverSeq
  BY TablesAfterAppend DEF Appends
<1>1. IsIdentityCommit(c) /\ Elided(c) = DOMAIN c.ops
  BY DEF Appends, Admissible, Elided
<1>2. ~ Bound(new)'
  BY <1>0, <1>1, TablesAfterAppend DEF Bound, IsIdentityCommit
<1>3. ASSUME NEW d \in {o.doc : o \in Range(c.ops)} \ ContentDocs
      PROVE  /\ StoredOps(new, d)' = {}
             /\ ViewBefore(c, d, new)'
             /\ \A doc : ViewOf(c, d, doc)' \/ doc = DocAt(d, new - 1)' =>
                  ReplayOps(doc, c.ops, OpsOn(c.ops, d)) = DocAt(d, new - 1)'
  <2>1. StoredOps(new, d)' = {}
    BY <1>1, StoredNow DEF OpsOn
  <2>2. /\ BasisKnown(c, d)
        /\ ReplayOps(BasisOf(c, d), c.ops, OpsOn(c.ops, d)) = Stored(d)
        /\ ReplayOps(Stored(d), c.ops, OpsOn(c.ops, d)) = Stored(d)
    BY <1>1 DEF IsIdentityCommit
  <2>3. ViewBefore(c, d, new) /\ new \in 1..(serverSeq + 1)
    BY <1>0, <2>2, ViewBeforeNow
  <2>4. ViewBefore(c, d, new)' /\ \A doc : ViewOf(c, d, doc)' <=> ViewOf(c, d, doc)
    BY <2>3, ViewOfStable
  <2>5. new - 1 = serverSeq /\ new - 1 \in 0..serverSeq
    BY <1>0
  <2>6. DocAt(d, new - 1)' = Stored(d)
    BY <2>5, DocAtStable DEF Stored
  <2>7. ASSUME NEW doc, ViewOf(c, d, doc)
        PROVE  ReplayOps(doc, c.ops, OpsOn(c.ops, d)) = Stored(d)
    BY <2>2, <2>7 DEF ViewOf, BasisOf
  <2> QED
    BY <2>1, <2>2, <2>4, <2>6, <2>7
<1> QED
  BY <1>2, <1>3 DEF IdentityAt, ReplayOps, OpsOn, ApplyOperation

\* What a row wrote it wrote.
LEMMA WroteAtStable ==
  ASSUME TypeOK, NEW b, Appends(b), NEW c, NEW e \in DOMAIN commits, WroteAt(c, e)
  PROVE  WroteAt(c, e)'
<1> SUFFICES ASSUME NEW d \in Docs \ ContentDocs PROVE StoredOps(e, d)' = OpsOn(c.ops, d)
  BY DEF WroteAt, OpsOn
<1> QED
  BY StoredOpsStable DEF WroteAt

\* Every row is decided on fresh reads or as an identity, and stays so.
LEMMA RowsAppend ==
  ASSUME TypeOK, ElidedVerdicts = {}, RowsDecided, NEW c, Appends(c),
         \A r \in Range(c.confirmed) : r.seq <= serverSeq
  PROVE  RowsDecided'
<1> SUFFICES ASSUME NEW e \in DOMAIN commits', NEW k \in {commits'[e]}
             PROVE  \/ WroteAt(k, e)' /\ FreshAt(k, e)'
                    \/ IdentityAt(k, e)' /\ ~ Bound(e)'
  BY DEF RowsDecided
<1>1. k = commits'[e]
  OBVIOUS
<1>2. CASE e \in DOMAIN commits
  <2>1. k = commits[e]
    BY <1>1, <1>2, TablesAfterAppend
  <2>2. CASE WroteAt(k, e) /\ FreshAt(k, e)
    BY <1>2, <2>2, WroteAtStable, FreshAtStable
  <2>3. CASE IdentityAt(k, e) /\ ~ Bound(e)
    <3>1. ~ Bound(e)'
      BY <1>1, <1>2, <2>1, <2>3, TablesAfterAppend DEF Bound
    <3> QED
      BY <1>2, <2>3, <3>1, IdentityAtStable
  <2> QED
    BY <1>2, <2>1, <2>2, <2>3 DEF RowsDecided
<1>3. CASE e \notin DOMAIN commits
  <2>1. e = serverSeq + 1 /\ k = c
    BY <1>1, <1>3, TablesAfterAppend
  <2>2. CASE ReadsFresh(c)
    BY <2>1, <2>2, FreshNow, WroteNow
  <2>3. CASE ~ ReadsFresh(c)
    BY <2>1, <2>3, IdentityNow
  <2> QED
    BY <2>2, <2>3
<1> QED
  BY <1>2, <1>3

\* A commit that writes a `cid:` document leaves it installed.
LEMMA InstallAppend ==
  ASSUME TypeOK, ContentRows, RowsInstall, NEW c, Appends(c)
  PROVE  RowsInstall'
<1>0. serverSeq \in Nat /\ DOMAIN commits = 1..serverSeq /\ serverSeq \in 0..serverSeq
  BY TablesAfterAppend
<1> SUFFICES ASSUME NEW e \in DOMAIN commits', NEW k \in {commits'[e]}
             PROVE  /\ ContentAddressed(k)
                    /\ \A d \in ContentDocs : OpsOn(k.ops, d) # {} => Installed(d, e)'
  BY DEF RowsInstall, ContentAddressed, OpsOn
<1>1. CASE e \in DOMAIN commits
  BY <1>1, TablesAfterAppend DEF RowsInstall, Installed
<1>2. CASE e \notin DOMAIN commits
  <2>1. e = serverSeq + 1 /\ k = c
    BY <1>2, TablesAfterAppend
  <2>2. ASSUME NEW d \in ContentDocs, NEW j \in OpsOn(c.ops, d) PROVE Installed(d, e)'
    <3>1. j \in DOMAIN c.ops /\ c.ops[j].doc = d
      BY DEF OpsOn
    <3>2. CASE j \in Elided(c)
      <4>1. j \in ElidedContentSets(c)
        BY <3>1, <3>2 DEF Elided, Appends, Admissible, IsIdentityCommit
      <4>2. Installed(d, serverSeq)
        <5>1. DocAt(d, serverSeq) # Absent
          BY <3>1, <4>1 DEF ElidedContentSets, Stored
        <5> QED
          BY <1>0, <5>1, ContentIs
      <4> QED
        BY <1>0, <2>1, <4>2, TablesAfterAppend DEF Installed
    <3>3. CASE j \notin Elided(c)
      <4> DEFINE v == [seq |-> e, opIndex |-> j, op |-> c.ops[j]]
      <4>1. v \in revisions'
        BY <2>1, <3>1, <3>3 DEF Appends, NewRevisions
      <4> QED
        BY <1>0, <2>1, <3>1, <4>1 DEF Installed
    <3> QED
      BY <3>2, <3>3
  <2> QED
    BY <2>1, <2>2 DEF Appends, Admissible
<1> QED
  BY <1>1, <1>2

\* Only reads of seqs the server has reached are admitted.
LEMMA ReachedAccept ==
  ASSUME TypeOK, ReadsReached, NEW c \in Submissions, Accept(c)
  PROVE  \A r \in Range(c.confirmed) : r.seq <= serverSeq
BY DecisionCases DEF Accept, MaySubmit, ReadsReached, Existing, Accepted

\* Sessions send only reads of seqs the server has reached.
LEMMA ReachedStep ==
  ASSUME TypeOK, ReadsReached, [Next]_vars
  PROVE  ReadsReached'
<1>0. serverSeq \in Nat
  BY DEF TypeOK, serverSeq
<1>1. ASSUME NEW c \in Submissions, Accept(c) PROVE ReadsReached'
  <2>1. \A r \in Range(c.confirmed) : r.seq <= serverSeq
    BY <1>1, ReachedAccept
  <2>2. submitted' = submitted \cup {c} /\ serverSeq' = serverSeq + 1 /\ c \in Submissions
    BY <1>1 DEF Accept, serverSeq, TypeOK
  <2>3. ASSUME NEW b \in submitted', NEW r \in Range(b.confirmed) PROVE r.seq <= serverSeq'
    <3>1. r.seq <= serverSeq
      BY <2>1, <2>2 DEF ReadsReached
    <3>2. r.seq \in Nat
      BY <2>2, EngineAssumption DEF TypeOK
    <3> QED
      BY <1>0, <2>2, <3>1, <3>2
  <2> QED
    BY <2>3 DEF ReadsReached
<1>2. ASSUME NEW c \in Submissions, Refuse(c) PROVE ReadsReached'
  <2>1. Existing(c) = {}
    BY <1>2, DecisionCases DEF Refuse
  <2>2. \A r \in Range(c.confirmed) : r.seq <= serverSeq
    BY <1>2, <2>1 DEF Refuse, MaySubmit, ReadsReached, Existing, Accepted
  <2> QED
    BY <1>2, <2>2 DEF Refuse, ReadsReached, serverSeq
<1>3. CASE UNCHANGED <<commits, submitted>>
  BY <1>3 DEF ReadsReached, serverSeq
<1>4. \/ \E c \in Submissions : Accept(c) \/ Refuse(c)
      \/ UNCHANGED <<commits, submitted>>
  BY DEF Next, vars, Replay, RefuseMismatch, AcquireLease, ReleaseLease
<1> QED
  BY <1>1, <1>2, <1>3, <1>4

\* How every row of the log came about, for sessions whose identities are
\* proved against the stored document too.
RowsKnown ==
  /\ TypeOK
  /\ UniqueResolution
  /\ ContentRows
  /\ RowsInstall
  /\ ReadsReached
  /\ RowsDecided

\* What is known of the rows is a matter of the tables alone.
LEMMA RowsSame ==
  ASSUME UNCHANGED <<commits, revisions>>, RowsInstall, RowsDecided
  PROVE  RowsInstall' /\ RowsDecided'
<1>1. \A n, d : StoredOps(n, d)' = StoredOps(n, d)
  BY DEF StoredOps, OpsOn
<1>2. \A q, d : DocAt(d, q)' = DocAt(d, q)
  BY <1>1 DEF DocAt
<1>3. \A s, n : LayerOps(s, n)' = LayerOps(s, n)
  BY DEF LayerOps, ResolutionSeq, Resolutions
<1>4. \A s, r : PendingView(s, r)' = PendingView(s, r)
  BY <1>2, <1>3, ViewSame
<1>5. \A s, layers, e : ResolvedBefore(s, layers, e)' <=> ResolvedBefore(s, layers, e)
  BY DEF ResolvedBefore, Resolutions
<1>6. \A r, after, s, layers, e : Quiet(r, after, e, s, layers)' <=> Quiet(r, after, e, s, layers)
  BY DEF Quiet, Conflicts, OwnLayer
<1>7. \A c, r : IdentityLayers(c, r)' = IdentityLayers(c, r)
  BY DEF IdentityLayers, OwnLayer
<1>8. \A c, e : FreshAt(c, e)' <=> FreshAt(c, e)
  BY <1>5, <1>6, <1>7 DEF FreshAt
<1>9. \A c, e : WroteAt(c, e)' <=> WroteAt(c, e)
  BY <1>1 DEF WroteAt, OpsOn
<1>10. \A c, d, doc : ViewOf(c, d, doc)' <=> ViewOf(c, d, doc)
  BY <1>2, <1>4 DEF ViewOf
<1>11. \A c, d, e : ViewBefore(c, d, e)' <=> ViewBefore(c, d, e)
  BY <1>5 DEF ViewBefore
<1>12. \A c, e : IdentityAt(c, e)' <=> IdentityAt(c, e)
  BY <1>1, <1>2, <1>10, <1>11 DEF IdentityAt
<1>13. \A e : Bound(e)' <=> Bound(e)
  BY DEF Bound
<1>14. RowsDecided'
  BY <1>8, <1>9, <1>12, <1>13 DEF RowsDecided
<1>15. RowsInstall'
  BY DEF RowsInstall, Installed, ContentAddressed, OpsOn
<1> QED
  BY <1>14, <1>15

\* Every step keeps what the rows of the log were admitted on.
LEMMA RowsStep ==
  ASSUME RowsKnown, InstalledOnce, ElidedVerdicts = {}, [Next]_vars
  PROVE  RowsInstall' /\ ReadsReached' /\ RowsDecided'
<1>1. TypeOK /\ ContentRows /\ RowsInstall /\ ReadsReached /\ RowsDecided
  BY DEF RowsKnown
<1>2. ReadsReached'
  BY <1>1, ReachedStep
<1>3. ASSUME NEW c \in Submissions, Accept(c) PROVE RowsInstall' /\ RowsDecided'
  <2>1. Appends(c) /\ \A r \in Range(c.confirmed) : r.seq <= serverSeq
    BY <1>1, <1>3, AcceptAppends, ReachedAccept
  <2> QED
    BY <1>1, <2>1, InstallAppend, RowsAppend
<1>4. CASE UNCHANGED <<commits, revisions>>
  BY <1>1, <1>2, <1>4, RowsSame
<1>5. (\E c \in Submissions : Accept(c)) \/ UNCHANGED <<commits, revisions>>
  BY DEF Next, vars, Replay, RefuseMismatch, Refuse, AcquireLease, ReleaseLease
<1> QED
  BY <1>2, <1>3, <1>4, <1>5

\* The log is known row by row in every state.
LEMMA RowsAlways ==
  ASSUME ElidedVerdicts = {}
  PROVE  Spec => []RowsKnown
<1> DEFINE Tables == TypeOK /\ UniqueResolution
           Contents == ContentRows /\ InstalledOnce
           Rows == RowsInstall /\ ReadsReached /\ RowsDecided
<1>1. Init => Contents /\ Rows
  BY DEF Init, ContentRows, InstalledOnce, RowsInstall, ReadsReached, RowsDecided
<1>2. Tables /\ Contents /\ Rows /\ [Next]_vars => Contents' /\ Rows'
  <2> SUFFICES ASSUME Tables, Contents, Rows, [Next]_vars PROVE Contents' /\ Rows'
    OBVIOUS
  <2>2. ASSUME NEW c \in Submissions, Appends(c) PROVE Contents'
    BY <2>2, ContentAppend
  <2>3. Contents'
    BY <2>2, TableSteps DEF ContentRows, InstalledOnce
  <2>4. Rows'
    BY RowsStep DEF RowsKnown
  <2> QED
    BY <2>3, <2>4
<1>3. Spec => []Tables
  BY TypeCorrect, AppliedOnce, PTL
<1>4. Tables /\ Contents /\ Rows => RowsKnown
  BY DEF RowsKnown
<1> QED
  BY <1>1, <1>2, <1>3, <1>4, PTL DEF Spec

-----------------------------------------------------------------------------
(* Read coherence                                                          *)

Readings == UNION {Range(c.confirmed) \cup Range(c.pending) : c \in Submissions}

Documents(vals) == [Keys -> vals \cup {None}]

\* The operations on the documents that are read write JSON: patches write
\* values, sets write documents, and an increment of a value is a value.
WritesValues(vals) ==
  /\ None \notin vals
  /\ \A x, y \in vals : x + y \in vals
  /\ Absent \notin Documents(vals)
  /\ Absent \notin SUBSET Keys
  /\ \A r \in Readings : /\ r.doc \in Docs
                         /\ r.path \in Seq(Keys)
                         /\ r.nonRecursive \in BOOLEAN
  /\ \A c \in Submissions : \A o \in Range(c.ops) :
       (\E r \in Readings : r.doc = o.doc) =>
         /\ o.op = "set" => o.val \in Documents(vals)
         /\ o.op \in PatchOps => o.val \in vals

\* Clients declare the keys they create (patchOpChangesParentKeySet, Topic
\* 544): a commit whose patches of a document declare none keeps its keys.
KeysDeclared ==
  \A n \in DOMAIN commits, d \in Docs :
    (\A j \in StoredOps(n, d) : /\ commits[n].ops[j].op \in PatchOps
                                /\ ~ ChangesParentKeySet(commits[n].ops[j]))
      => ShapeAt(DocAt(d, n), <<>>) = ShapeAt(DocAt(d, n - 1), <<>>)

\* Clients name the whole stack they read through (#buildReads): where a read
\* names a layer that itself read the document on the same basis, it names
\* no earlier writer of the document that the layer's read did not name.
StacksWhole ==
  \A q \in DOMAIN commits : \A p \in 1..(q - 1), r \in Range(commits[q].pending) :
    OwnLayer(commits[q].session, r.layers, p) =>
      LET d == r.doc
          pending   == FirstOn(commits[p].pending, d)
          confirmed == FirstOn(commits[p].confirmed, d)
          below == {n \in r.layers :
                      /\ n < commits[p].localSeq
                      /\ OpsOn(commits[ResolutionSeq(commits[q].session, n)].ops, d) # {}}
      IN  IF ReadsOn(commits[p].pending, d) # {}
          THEN pending.basis = r.basis => below \subseteq pending.layers
          ELSE ReadsOn(commits[p].confirmed, d) # {} /\ confirmed.seq = r.basis => below = {}

-----------------------------------------------------------------------------
(* What a read tells apart                                                 *)

\* Two documents look the same to read r.
Alike(r, x, y) ==
  IF r.nonRecursive THEN ShapeAt(x, r.path) = ShapeAt(y, r.path)
                    ELSE ValueAt(x, r.path) = ValueAt(y, r.path)

Stores(vals) == Documents(vals) \cup {Absent}

\* An operation that writes JSON.
Json(vals, o) ==
  /\ o.op \in {"set", "delete", "replace", "add", "increment"}
  /\ o.key \in Keys
  /\ o.op = "set" => o.val \in Documents(vals)
  /\ o.op \in PatchOps => o.val \in vals

Reads(r) == r.path \in Seq(Keys) /\ r.nonRecursive \in BOOLEAN

\* A patch writes a value at its key, and that one as the value that was
\* there says.
LEMMA PatchWrites ==
  ASSUME NEW vals, WritesValues(vals), NEW o, Json(vals, o), o.op \in PatchOps,
         NEW x \in Stores(vals)
  PROVE  LET base == IF x = Absent THEN EmptyDocument ELSE x
             y == ApplyOperation(x, o)
         IN  /\ base \in Documents(vals)
             /\ y \in Documents(vals)
             /\ y[o.key] \in vals
             /\ y[o.key] = IF o.op \in {"replace", "add"} THEN o.val
                           ELSE IF base[o.key] = None THEN o.val ELSE base[o.key] + o.val
             /\ \A k \in Keys : k # o.key => y[k] = base[k]
<1> DEFINE base == IF x = Absent THEN EmptyDocument ELSE x
           y == ApplyOperation(x, o)
           new == IF o.op \in {"replace", "add"} THEN o.val
                  ELSE IF base[o.key] = None THEN o.val ELSE base[o.key] + o.val
<1>1. base \in Documents(vals)
  BY DEF Stores, EmptyDocument, Documents
<1>2. o.val \in vals /\ o.key \in Keys /\ \A u, v \in vals : u + v \in vals
  BY DEF Json, WritesValues
<1>3. new \in vals
  <2>1. base[o.key] \in vals \cup {None}
    BY <1>1, <1>2 DEF Documents
  <2> QED
    BY <1>2, <2>1
<1>4. y = [base EXCEPT ![o.key] = new]
  BY DEF ApplyOperation, PatchOps
<1> HIDE DEF base, new, y
<1>5. y[o.key] = new /\ \A k \in Keys : k # o.key => y[k] = base[k]
  BY <1>1, <1>2, <1>4 DEF Documents
<1>6. y \in Documents(vals)
  BY <1>1, <1>2, <1>3, <1>4 DEF Documents
<1>7. /\ base \in Documents(vals)
      /\ y \in Documents(vals)
      /\ y[o.key] \in vals
      /\ y[o.key] = new
      /\ \A k \in Keys : k # o.key => y[k] = base[k]
  BY <1>1, <1>3, <1>5, <1>6
<1> QED
  BY <1>7 DEF base, new, y

\* Operations keep documents documents.
LEMMA ApplyStores ==
  ASSUME NEW vals, WritesValues(vals), NEW o, Json(vals, o), NEW x \in Stores(vals)
  PROVE  ApplyOperation(x, o) \in Stores(vals)
<1>1. CASE o.op \in PatchOps
  BY <1>1, PatchWrites DEF Stores
<1>2. CASE o.op = "set"
  BY <1>2 DEF ApplyOperation, Json, Stores
<1>3. CASE o.op = "delete"
  BY <1>3 DEF ApplyOperation, Stores
<1> QED
  BY <1>1, <1>2, <1>3 DEF Json, PatchOps

\* Documents that look the same to a read still do after one operation.
LEMMA ApplyAlike ==
  ASSUME NEW vals, WritesValues(vals), NEW o, Json(vals, o), NEW r, Reads(r),
         NEW x \in Stores(vals), NEW y \in Stores(vals), Alike(r, x, y)
  PROVE  Alike(r, ApplyOperation(x, o), ApplyOperation(y, o))
<1>1. CASE o.op \in {"set", "delete"}
  BY <1>1 DEF ApplyOperation, Alike
<1>2. CASE o.op \in PatchOps
  <2> DEFINE bx == IF x = Absent THEN EmptyDocument ELSE x
             by == IF y = Absent THEN EmptyDocument ELSE y
             ax == ApplyOperation(x, o)
             ay == ApplyOperation(y, o)
  <2>0. \A k \in Keys : EmptyDocument[k] = None
    BY DEF EmptyDocument
  <2>1. /\ bx \in Documents(vals) /\ ax \in Documents(vals) /\ ax[o.key] \in vals
        /\ ax[o.key] = IF o.op \in {"replace", "add"} THEN o.val
                       ELSE IF bx[o.key] = None THEN o.val ELSE bx[o.key] + o.val
        /\ \A k \in Keys : k # o.key => ax[k] = bx[k]
    BY <1>2, PatchWrites
  <2>2. /\ by \in Documents(vals) /\ ay \in Documents(vals) /\ ay[o.key] \in vals
        /\ ay[o.key] = IF o.op \in {"replace", "add"} THEN o.val
                       ELSE IF by[o.key] = None THEN o.val ELSE by[o.key] + o.val
        /\ \A k \in Keys : k # o.key => ay[k] = by[k]
    BY <1>2, PatchWrites
  <2>3. Absent \notin Documents(vals) /\ None \notin vals /\ Absent \notin SUBSET Keys
    BY DEF WritesValues
  <2>4. ax # Absent /\ ay # Absent /\ o.key \in Keys
    BY <2>1, <2>2, <2>3 DEF Json
  <2> HIDE DEF ax, ay
  <2>5. CASE r.path = <<>> /\ ~ r.nonRecursive
    <3>1. x = y
      BY <2>5 DEF Alike, ValueAt
    <3> QED
      BY <3>1 DEF Alike
  <2>6. CASE r.path = <<>> /\ r.nonRecursive
    <3>1. \A k \in Keys : bx[k] # None <=> by[k] # None
      <4>1. CASE x = Absent \/ y = Absent
        <5>1. x = y
          BY <2>3, <2>6, <4>1 DEF Alike, ShapeAt
        <5> QED
          BY <5>1
      <4>2. CASE x # Absent /\ y # Absent
        <5>1. {k \in Keys : x[k] # None} = {k \in Keys : y[k] # None}
          BY <2>6, <4>2 DEF Alike, ShapeAt
        <5> QED
          BY <4>2, <5>1
      <4> QED
        BY <4>1, <4>2
    <3> HIDE DEF bx, by
    <3>2. \A k \in Keys : ax[k] # None <=> ay[k] # None
      BY <2>1, <2>2, <2>3, <3>1
    <3>3. {k \in Keys : ax[k] # None} = {k \in Keys : ay[k] # None}
      BY <3>2
    <3> QED
      BY <2>4, <2>6, <3>3 DEF Alike, ShapeAt, ax, ay
  <2>7. CASE r.path # <<>>
    <3>1. r.path[1] \in Keys
      BY <2>7 DEF Reads
    <3>2. PICK k \in Keys : k = r.path[1]
      BY <3>1
    <3>3. ValueAt(x, r.path) = bx[k] /\ ValueAt(y, r.path) = by[k]
      BY <2>0, <2>7, <3>2 DEF ValueAt
    <3>4. ValueAt(ax, r.path) = ax[k] /\ ValueAt(ay, r.path) = ay[k]
      BY <2>4, <2>7, <3>2 DEF ValueAt
    <3> HIDE DEF bx, by
    <3>5. CASE r.nonRecursive
      <4>1. bx[k] # None <=> by[k] # None
        BY <2>7, <3>3, <3>5 DEF Alike, ShapeAt
      <4>2. ax[k] # None <=> ay[k] # None
        BY <2>1, <2>2, <2>3, <4>1
      <4> QED
        BY <2>7, <3>4, <3>5, <4>2 DEF Alike, ShapeAt, ax, ay
    <3>6. CASE ~ r.nonRecursive
      <4>1. bx[k] = by[k]
        BY <3>3, <3>6 DEF Alike
      <4>2. ax[k] = ay[k]
        BY <2>1, <2>2, <4>1
      <4> QED
        BY <3>4, <3>6, <4>2 DEF Alike, ax, ay
    <3> QED
      BY <3>5, <3>6
  <2> QED
    BY <2>5, <2>6, <2>7
<1> QED
  BY <1>1, <1>2 DEF Json, PatchOps

\* A patch beside a read leaves what it sees, unless it sees the whole
\* document's shape.
LEMMA ApplyBeside ==
  ASSUME NEW vals, WritesValues(vals), NEW o, Json(vals, o), NEW r, Reads(r),
         NEW x \in Stores(vals), ~ Touches(o, r), r.path # <<>> \/ ~ r.nonRecursive
  PROVE  Alike(r, x, ApplyOperation(x, o))
<1> DEFINE base == IF x = Absent THEN EmptyDocument ELSE x
           y == ApplyOperation(x, o)
<1>1. o.op \in PatchOps
  BY DEF Touches
<1>2. /\ base \in Documents(vals) /\ y \in Documents(vals)
      /\ \A k \in Keys : k # o.key => y[k] = base[k]
  BY <1>1, PatchWrites
<1>3. r.path \in Seq(Keys) /\ o.key \in Keys
  BY DEF Reads, Json
<1>4. r.path # <<>> /\ r.path[1] # o.key
  <2>1. IsPrefix(<<>>, <<o.key>>)
    BY <1>3 DEF IsPrefix
  <2>2. r.path # <<>> /\ r.path[1] = o.key => IsPrefix(<<o.key>>, r.path)
    <3> SUFFICES ASSUME r.path # <<>>, r.path[1] = o.key PROVE IsPrefix(<<o.key>>, r.path)
      OBVIOUS
    <3>1. Len(<<o.key>>) = 1 /\ Len(r.path) \in Nat /\ Len(r.path) >= 1
      BY <1>3
    <3>2. SubSeq(r.path, 1, 1) = SubSeq(<<o.key>>, 1, 1)
      BY <1>3
    <3> QED
      BY <3>1, <3>2 DEF IsPrefix
  <2>3. CASE r.nonRecursive
    <3>1. ~ IsPrefix(<<o.key>>, r.path)
      BY <1>1, <2>3 DEF Touches, PatchOverlapsNonRecursiveRead, TouchedPaths, TouchedLeafPath
    <3> QED
      BY <2>2, <2>3, <3>1
  <2>4. CASE ~ r.nonRecursive
    <3>1. ~ IsPrefix(<<o.key>>, r.path) /\ ~ IsPrefix(r.path, <<o.key>>)
      BY <1>1, <2>4 DEF Touches, PatchOverlapsRead, PathsOverlap, TouchedLeafPath
    <3> QED
      BY <2>1, <2>2, <3>1
  <2> QED
    BY <2>3, <2>4 DEF Reads
<1>5. PICK k \in Keys : k = r.path[1]
  BY <1>3, <1>4
<1>6. y # Absent
  BY <1>2 DEF WritesValues
<1>7. ValueAt(x, r.path) = base[k] /\ base[k] = y[k]
  BY <1>2, <1>4, <1>5 DEF ValueAt, EmptyDocument
<1>8. ValueAt(y, r.path) = y[k]
  BY <1>4, <1>5, <1>6 DEF ValueAt
<1> HIDE DEF base, y
<1>9. Alike(r, x, y)
  BY <1>4, <1>7, <1>8 DEF Alike, ShapeAt
<1> QED
  BY <1>9 DEF y

\* The operations of `ops` at the indexes `some` write JSON.
AllJson(vals, ops, some) == \A j \in some : Json(vals, ops[j])

\* A replay keeps documents documents.
LEMMA ReplayStores ==
  ASSUME NEW vals, WritesValues(vals), NEW S, NEW ops \in Seq(S), NEW some,
         AllJson(vals, ops, some), NEW x \in Stores(vals)
  PROVE  ReplayOps(x, ops, some) \in Stores(vals)
<1>1. PICK f : Replayed(x, ops, some, f) /\ ReplayOps(x, ops, some) = f[Len(ops)]
  BY ReplayRounds
<1>2. Len(ops) \in Nat
  OBVIOUS
<1> DEFINE T == {n \in Nat : n <= Len(ops) /\ f[n] \notin Stores(vals)}
<1>3. T = {}
  <2> SUFFICES ASSUME T # {} PROVE FALSE
    OBVIOUS
  <2>1. PICK n \in T : \A m \in T : n <= m
    BY LeastOfNaturals
  <2>2. n \in Nat /\ n <= Len(ops) /\ f[n] \notin Stores(vals) /\ n # 0
    BY <1>1, <2>1 DEF Replayed
  <2>3. n - 1 \in Nat /\ n \in 1..Len(ops) /\ n - 1 <= Len(ops) /\ ~ (n <= n - 1)
    BY <1>2, <2>2
  <2>4. f[n - 1] \in Stores(vals)
    BY <2>1, <2>3
  <2>5. f[n] = IF n \in some THEN ApplyOperation(f[n - 1], ops[n]) ELSE f[n - 1]
    BY <1>1, <2>3 DEF Replayed
  <2>6. n \in some => ApplyOperation(f[n - 1], ops[n]) \in Stores(vals)
    BY <2>4, ApplyStores DEF AllJson
  <2> QED
    BY <2>2, <2>4, <2>5, <2>6
<1> QED
  BY <1>1, <1>2, <1>3

\* Documents that look the same to a read still do after a replay.
LEMMA ReplayAlike ==
  ASSUME NEW vals, WritesValues(vals), NEW r, Reads(r), NEW S, NEW ops \in Seq(S), NEW some,
         AllJson(vals, ops, some), NEW x \in Stores(vals), NEW y \in Stores(vals), Alike(r, x, y)
  PROVE  Alike(r, ReplayOps(x, ops, some), ReplayOps(y, ops, some))
<1>1. PICK f : Replayed(x, ops, some, f) /\ ReplayOps(x, ops, some) = f[Len(ops)]
  BY ReplayRounds
<1>2. PICK g : Replayed(y, ops, some, g) /\ ReplayOps(y, ops, some) = g[Len(ops)]
  BY ReplayRounds
<1>3. Len(ops) \in Nat
  OBVIOUS
<1> DEFINE Is(n) == f[n] \in Stores(vals) /\ g[n] \in Stores(vals) /\ Alike(r, f[n], g[n])
           T == {n \in Nat : n <= Len(ops) /\ ~ Is(n)}
<1>4. Is(0)
  BY <1>1, <1>2 DEF Replayed
<1>5. ASSUME NEW n \in 1..Len(ops), Is(n - 1) PROVE Is(n)
  <2>1. /\ f[n] = IF n \in some THEN ApplyOperation(f[n - 1], ops[n]) ELSE f[n - 1]
        /\ g[n] = IF n \in some THEN ApplyOperation(g[n - 1], ops[n]) ELSE g[n - 1]
    BY <1>1, <1>2 DEF Replayed
  <2>2. CASE n \in some
    <3>1. Json(vals, ops[n])
      BY <2>2 DEF AllJson
    <3> QED
      BY <1>5, <2>1, <2>2, <3>1, ApplyStores, ApplyAlike
  <2>3. CASE n \notin some
    BY <1>5, <2>1, <2>3
  <2> QED
    BY <2>2, <2>3
<1>6. T = {}
  <2> SUFFICES ASSUME T # {} PROVE FALSE
    OBVIOUS
  <2> HIDE DEF Is
  <2>1. PICK n \in T : \A m \in T : n <= m
    BY LeastOfNaturals
  <2>2. n \in Nat /\ n <= Len(ops) /\ ~ Is(n) /\ n # 0
    BY <1>4, <2>1
  <2>3. n - 1 \in Nat /\ n \in 1..Len(ops) /\ n - 1 <= Len(ops) /\ ~ (n <= n - 1)
    BY <1>3, <2>2
  <2>4. n - 1 \notin T
    <3> HIDE DEF T
    <3> QED
      BY <2>1, <2>3
  <2> QED
    BY <1>5, <2>2, <2>3, <2>4
<1>7. Is(Len(ops))
  <2> HIDE DEF Is
  <2> QED
    BY <1>3, <1>6
<1> QED
  BY <1>1, <1>2, <1>7

\* A replay of operations beside a read leaves what it sees, unless it sees
\* the whole document's shape.
LEMMA ReplayBeside ==
  ASSUME NEW vals, WritesValues(vals), NEW r, Reads(r), NEW S, NEW ops \in Seq(S), NEW some,
         AllJson(vals, ops, some), \A j \in some : ~ Touches(ops[j], r),
         r.path # <<>> \/ ~ r.nonRecursive, NEW x \in Stores(vals)
  PROVE  Alike(r, x, ReplayOps(x, ops, some))
<1>1. PICK f : Replayed(x, ops, some, f) /\ ReplayOps(x, ops, some) = f[Len(ops)]
  BY ReplayRounds
<1>3. Len(ops) \in Nat
  OBVIOUS
<1> DEFINE Is(n) == f[n] \in Stores(vals) /\ Alike(r, x, f[n])
           T == {n \in Nat : n <= Len(ops) /\ ~ Is(n)}
<1>4. Is(0)
  BY <1>1 DEF Replayed, Alike
<1>5. ASSUME NEW n \in 1..Len(ops), Is(n - 1) PROVE Is(n)
  <2>1. f[n] = IF n \in some THEN ApplyOperation(f[n - 1], ops[n]) ELSE f[n - 1]
    BY <1>1 DEF Replayed
  <2>2. CASE n \in some
    <3>1. Json(vals, ops[n]) /\ ~ Touches(ops[n], r)
      BY <2>2 DEF AllJson
    <3>2. Alike(r, f[n - 1], f[n]) /\ f[n] \in Stores(vals)
      BY <1>5, <2>1, <2>2, <3>1, ApplyStores, ApplyBeside
    <3> QED
      BY <1>5, <3>2 DEF Alike
  <2>3. CASE n \notin some
    BY <1>5, <2>1, <2>3
  <2> QED
    BY <2>2, <2>3
<1>6. T = {}
  <2> SUFFICES ASSUME T # {} PROVE FALSE
    OBVIOUS
  <2> HIDE DEF Is
  <2>1. PICK n \in T : \A m \in T : n <= m
    BY LeastOfNaturals
  <2>2. n \in Nat /\ n <= Len(ops) /\ ~ Is(n) /\ n # 0
    BY <1>4, <2>1
  <2>3. n - 1 \in Nat /\ n \in 1..Len(ops) /\ n - 1 <= Len(ops) /\ ~ (n <= n - 1)
    BY <1>3, <2>2
  <2>4. n - 1 \notin T
    <3> HIDE DEF T
    <3> QED
      BY <2>1, <2>3
  <2> QED
    BY <1>5, <2>2, <2>3, <2>4
<1>7. Is(Len(ops))
  <2> HIDE DEF Is
  <2> QED
    BY <1>3, <1>6
<1> QED
  BY <1>1, <1>7

\* A replay that begins with a set does not depend on what it begins on.
LEMMA ReplayFromSet ==
  ASSUME NEW S, NEW ops \in Seq(S), NEW some, some # {}, some \subseteq DOMAIN ops,
         ops[Min(some)].op = "set", NEW x, NEW y
  PROVE  ReplayOps(x, ops, some) = ReplayOps(y, ops, some)
<1>1. PICK f : Replayed(x, ops, some, f) /\ ReplayOps(x, ops, some) = f[Len(ops)]
  BY ReplayRounds
<1>2. PICK g : Replayed(y, ops, some, g) /\ ReplayOps(y, ops, some) = g[Len(ops)]
  BY ReplayRounds
<1>3. Len(ops) \in Nat /\ DOMAIN ops = 1..Len(ops)
  OBVIOUS
<1> DEFINE a == Min(some)
           T == {n \in Nat : a <= n /\ n <= Len(ops) /\ f[n] # g[n]}
<1>4. a \in some
  <2>1. some \in SUBSET Nat
    BY <1>3
  <2>2. \E i \in some : \A j \in some : i <= j
    BY <2>1, LeastOfNaturals
  <2> QED
    BY <2>2 DEF Min
<1>5. a \in 1..Len(ops) /\ ops[a].op = "set"
  BY <1>3, <1>4
<1> HIDE DEF a
<1>6. \A n \in 1..Len(ops) :
        /\ f[n] = IF n \in some THEN ApplyOperation(f[n - 1], ops[n]) ELSE f[n - 1]
        /\ g[n] = IF n \in some THEN ApplyOperation(g[n - 1], ops[n]) ELSE g[n - 1]
  BY <1>1, <1>2 DEF Replayed
<1>7. f[a] = g[a]
  BY <1>4, <1>5, <1>6 DEF ApplyOperation
<1>8. T = {}
  <2> SUFFICES ASSUME T # {} PROVE FALSE
    OBVIOUS
  <2>1. PICK n \in T : \A m \in T : n <= m
    BY LeastOfNaturals
  <2>2. n \in Nat /\ a <= n /\ n <= Len(ops) /\ f[n] # g[n] /\ n # a
    BY <1>7, <2>1
  <2>3. n - 1 \in Nat /\ n \in 1..Len(ops) /\ a <= n - 1 /\ n - 1 <= Len(ops) /\ ~ (n <= n - 1)
    BY <1>3, <1>5, <2>2
  <2>4. f[n - 1] = g[n - 1]
    BY <2>1, <2>3
  <2> QED
    BY <1>6, <2>2, <2>3, <2>4
<1> QED
  BY <1>1, <1>2, <1>3, <1>5, <1>8

\* A replay of nothing leaves the document.
LEMMA ReplayNothing ==
  ASSUME NEW S, NEW ops \in Seq(S), NEW x
  PROVE  ReplayOps(x, ops, {}) = x
<1>1. Sets(ops, {}, x)
  BY DEF Sets
<1> QED
  BY <1>1, ReplaySets

-----------------------------------------------------------------------------
(* What the log made of a document that is read                            *)

\* The log of a document has one history.
LEMMA GrewOnce ==
  ASSUME NEW d, NEW p \in Nat, NEW q \in Nat, p <= q, NEW f, NEW g, Grew(d, p, f), Grew(d, q, g)
  PROVE  f[p] = g[p]
<1> DEFINE T == {n \in Nat : n <= p /\ f[n] # g[n]}
<1>1. T = {}
  <2> SUFFICES ASSUME T # {} PROVE FALSE
    OBVIOUS
  <2>1. PICK n \in T : \A m \in T : n <= m
    BY LeastOfNaturals
  <2>2. n \in Nat /\ n <= p /\ f[n] # g[n] /\ n # 0
    BY <2>1 DEF Grew
  <2>3. n - 1 \in Nat /\ n \in 1..p /\ n \in 1..q /\ n - 1 <= p /\ ~ (n <= n - 1)
    BY <2>2
  <2>4. f[n - 1] = g[n - 1]
    BY <2>1, <2>3
  <2> QED
    BY <2>2, <2>3, <2>4 DEF Grew
<1> QED
  BY <1>1

\* A document at a seq is the one before it with the stored operations of
\* that row.
LEMMA DocNext ==
  ASSUME NEW d, NEW q \in Nat, q # 0
  PROVE  DocAt(d, q) = ReplayOps(DocAt(d, q - 1), commits[q].ops, StoredOps(q, d))
<1>1. q - 1 \in Nat /\ q - 1 <= q - 1 /\ q - 1 <= q /\ q \in 1..q
  OBVIOUS
<1>2. PICK f : Grew(d, q, f) /\ DocAt(d, q) = f[q]
  BY DocRounds
<1>3. PICK g : Grew(d, q - 1, g) /\ DocAt(d, q - 1) = g[q - 1]
  BY <1>1, DocRounds
<1>4. f[q - 1] = g[q - 1]
  BY <1>1, <1>2, <1>3, GrewOnce
<1> QED
  BY <1>1, <1>2, <1>3, <1>4 DEF Grew

\* What a commit does to a document that is read writes JSON.
LEMMA RowJson ==
  ASSUME NEW vals, WritesValues(vals), NEW r \in Readings, NEW c \in Submissions,
         NEW some \in SUBSET OpsOn(c.ops, r.doc)
  PROVE  c.ops \in Seq(Range(c.ops)) /\ AllJson(vals, c.ops, some) /\ some \subseteq DOMAIN c.ops
<1>1. ASSUME NEW j \in some PROVE j \in DOMAIN c.ops /\ Json(vals, c.ops[j])
  <2>1. j \in DOMAIN c.ops /\ c.ops[j].doc = r.doc
    BY DEF OpsOn
  <2>2. PICK o \in Range(c.ops) : o = c.ops[j]
    BY <2>1 DEF Range
  <2>3. o.op \in {"set", "delete", "replace", "add", "increment"} /\ o.key \in Keys
    BY EngineAssumption
  <2>4. (o.op = "set" => o.val \in Documents(vals)) /\ (o.op \in PatchOps => o.val \in vals)
    BY <2>1, <2>2 DEF WritesValues
  <2> QED
    BY <2>1, <2>2, <2>3, <2>4 DEF Json
<1> QED
  BY <1>1, EngineAssumption DEF AllJson

\* A document that is read is JSON at every seq.
LEMMA DocStores ==
  ASSUME TypeOK, NEW vals, WritesValues(vals), NEW r \in Readings, NEW q \in 0..serverSeq
  PROVE  DocAt(r.doc, q) \in Stores(vals)
<1>0. /\ serverSeq \in Nat /\ DOMAIN commits = 1..serverSeq
      /\ \A n \in 1..serverSeq : commits[n] \in Submissions
  BY DEF TypeOK, serverSeq
<1> DEFINE T == {n \in Nat : n <= serverSeq /\ DocAt(r.doc, n) \notin Stores(vals)}
<1>1. DocAt(r.doc, 0) = Absent
  <2>1. PICK f : Grew(r.doc, 0, f) /\ DocAt(r.doc, 0) = f[0]
    BY DocRounds
  <2> QED
    BY <2>1 DEF Grew
<1>2. T = {}
  <2> SUFFICES ASSUME T # {} PROVE FALSE
    OBVIOUS
  <2>1. PICK n \in T : \A m \in T : n <= m
    BY LeastOfNaturals
  <2>2. n \in Nat /\ n <= serverSeq /\ DocAt(r.doc, n) \notin Stores(vals) /\ n # 0
    BY <1>1, <2>1 DEF Stores
  <2>3. n - 1 \in Nat /\ n \in 1..serverSeq /\ n - 1 <= serverSeq /\ ~ (n <= n - 1)
    BY <1>0, <2>2
  <2>4. DocAt(r.doc, n - 1) \in Stores(vals)
    BY <2>1, <2>3
  <2>5. commits[n] \in Submissions /\ StoredOps(n, r.doc) \in SUBSET OpsOn(commits[n].ops, r.doc)
    BY <1>0, <2>3 DEF StoredOps
  <2>6. /\ commits[n].ops \in Seq(Range(commits[n].ops))
        /\ AllJson(vals, commits[n].ops, StoredOps(n, r.doc))
    BY <2>5, RowJson
  <2>7. DocAt(r.doc, n) = ReplayOps(DocAt(r.doc, n - 1), commits[n].ops, StoredOps(n, r.doc))
    BY <2>2, DocNext
  <2> QED
    BY <2>2, <2>4, <2>6, <2>7, ReplayStores
<1> QED
  BY <1>0, <1>2

\* A reading has a path of keys and one of two depths.
LEMMA ReadingReads ==
  ASSUME NEW vals, WritesValues(vals), NEW r \in Readings
  PROVE  Reads(r) /\ r.doc \in Docs
BY DEF WritesValues, Reads

\* A row leaves what a read sees of a document if no revision of the row
\* touches it.
LEMMA RowBeside ==
  ASSUME RowsKnown, KeysDeclared, NEW vals, WritesValues(vals), NEW r \in Readings,
         NEW e \in 1..serverSeq,
         \A v \in revisions : v.seq = e /\ v.op.doc = r.doc => ~ Touches(v.op, r)
  PROVE  Alike(r, DocAt(r.doc, e - 1), DocAt(r.doc, e))
<1> DEFINE d == r.doc
           ops == commits[e].ops
           some == StoredOps(e, d)
<1>0. /\ TypeOK /\ serverSeq \in Nat /\ DOMAIN commits = 1..serverSeq /\ commits[e] \in Submissions
      /\ e \in Nat /\ e # 0 /\ e - 1 \in 0..serverSeq
  BY DEF RowsKnown, TypeOK, serverSeq
<1>1. some \in SUBSET OpsOn(ops, d)
  BY DEF StoredOps
<1>2. ops \in Seq(Range(ops)) /\ AllJson(vals, ops, some)
  BY <1>0, <1>1, RowJson
<1>3. ASSUME NEW j \in some PROVE ~ Touches(ops[j], r)
  <2>1. PICK v \in revisions : v.seq = e /\ v.opIndex = j
    BY DEF StoredOps
  <2>2. v.op = ops[j] /\ ops[j].doc = d
    BY <1>0, <2>1 DEF TypeOK, StoredOps, OpsOn
  <2> QED
    BY <2>1, <2>2
<1>4. DocAt(d, e) = ReplayOps(DocAt(d, e - 1), ops, some)
  BY <1>0, DocNext
<1>5. DocAt(d, e - 1) \in Stores(vals) /\ Reads(r) /\ d \in Docs
  BY <1>0, DocStores, ReadingReads
<1>6. CASE r.path # <<>> \/ ~ r.nonRecursive
  <2> HIDE DEF ops, some
  <2> QED
    BY <1>2, <1>3, <1>4, <1>5, <1>6, ReplayBeside
<1>7. CASE r.path = <<>> /\ r.nonRecursive
  <2>1. ASSUME NEW j \in some
        PROVE  ops[j].op \in PatchOps /\ ~ ChangesParentKeySet(ops[j])
    <3>1. ops[j].op \in PatchOps
      BY <1>3 DEF Touches
    <3>2. ~ PatchOverlapsNonRecursiveRead(ops[j], <<>>)
      BY <1>3, <1>7, <3>1 DEF Touches
    <3>3. IsPrefix(<<>>, <<>>)
      BY DEF IsPrefix
    <3> QED
      BY <3>1, <3>2, <3>3 DEF PatchOverlapsNonRecursiveRead, TouchedPaths
  <2>2. ShapeAt(DocAt(d, e), <<>>) = ShapeAt(DocAt(d, e - 1), <<>>)
    BY <1>0, <1>5, <2>1 DEF KeysDeclared
  <2> QED
    BY <1>7, <2>2 DEF Alike
<1> QED
  BY <1>5, <1>6, <1>7 DEF Reads

\* A row does to the store what its operations do to a view that looks the
\* same to a read, whether it wrote or was an identity.
LEMMA RowThrough ==
  ASSUME RowsKnown, NEW vals, WritesValues(vals), NEW r \in Readings, NEW e \in 1..serverSeq,
         NEW c, c = commits[e], NEW x \in Stores(vals), Alike(r, x, DocAt(r.doc, e - 1))
  PROVE  Alike(r, ReplayOps(x, c.ops, OpsOn(c.ops, r.doc)), DocAt(r.doc, e))
<1> DEFINE d == r.doc
           all == OpsOn(c.ops, d)
           some == StoredOps(e, d)
<1>0. /\ TypeOK /\ serverSeq \in Nat /\ DOMAIN commits = 1..serverSeq /\ c \in Submissions
      /\ e \in Nat /\ e # 0 /\ e - 1 \in 0..serverSeq /\ e \in 0..serverSeq
  BY DEF RowsKnown, TypeOK, serverSeq
<1>1. some \in SUBSET all /\ all \in SUBSET all
  BY DEF StoredOps
<1>2. c.ops \in Seq(Range(c.ops)) /\ AllJson(vals, c.ops, all) /\ all \subseteq DOMAIN c.ops
  BY <1>0, <1>1, RowJson
<1>3. DocAt(d, e) = ReplayOps(DocAt(d, e - 1), c.ops, some)
  BY <1>0, DocNext
<1>4. DocAt(d, e - 1) \in Stores(vals) /\ Reads(r) /\ d \in Docs
  BY <1>0, DocStores, ReadingReads
<1>5. Alike(r, ReplayOps(x, c.ops, all), ReplayOps(DocAt(d, e - 1), c.ops, all))
  BY <1>2, <1>4, ReplayAlike
<1>6. CASE all = {}
  <2>1. some = {}
    BY <1>1, <1>6
  <2> QED
    BY <1>2, <1>3, <1>6, <2>1, ReplayNothing
<1>7. CASE all # {} /\ d \in ContentDocs
  <2>1. ContentAddressed(c) /\ Installed(d, e) /\ ContentRows
    BY <1>0, <1>7 DEF RowsKnown, RowsInstall
  <2>2. Sets(c.ops, all, ContentOf[d])
    BY <1>7, <2>1 DEF Sets, ContentAddressed, OpsOn
  <2>3. ReplayOps(x, c.ops, all) = ContentOf[d]
    BY <1>2, <1>7, <2>2, ReplaySets
  <2>4. DocAt(d, e) = ContentOf[d]
    BY <1>0, <1>7, <2>1, ContentIs
  <2> QED
    BY <2>3, <2>4 DEF Alike
<1>8. CASE all # {} /\ d \notin ContentDocs
  <2>1. CASE some = all
    BY <1>3, <1>5, <2>1
  <2>2. CASE IdentityAt(c, e)
    <3>1. d \in {o.doc : o \in Range(c.ops)} \ ContentDocs
      <4>1. PICK j : j \in all
        BY <1>8
      <4> QED
        BY <1>8, <4>1 DEF OpsOn, Range
    <3>2. some = {} /\ ReplayOps(DocAt(d, e - 1), c.ops, all) = DocAt(d, e - 1)
      BY <2>2, <3>1 DEF IdentityAt
    <3>3. DocAt(d, e) = DocAt(d, e - 1)
      BY <1>2, <1>3, <3>2, ReplayNothing
    <3> QED
      BY <1>5, <3>2, <3>3
  <2> QED
    BY <1>0, <1>4, <1>8, <2>1, <2>2 DEF RowsKnown, RowsDecided, WroteAt
<1> QED
  BY <1>6, <1>7, <1>8

-----------------------------------------------------------------------------
(* Views                                                                   *)

\* A bounded nonempty set of naturals has a greatest element.
LEMMA GreatestNatural ==
  ASSUME NEW n \in Nat, NEW S \in SUBSET Nat, S # {}, \A y \in S : y <= n
  PROVE  Max(S) \in S /\ \A y \in S : y <= Max(S)
<1> DEFINE T == {m \in Nat : n - m \in S}
<1>1. PICK y \in S : TRUE
  OBVIOUS
<1>2. n - y \in T
  <2>1. y \in Nat /\ y <= n
    OBVIOUS
  <2>2. n - y \in Nat /\ n - (n - y) = y
    BY <2>1
  <2> QED
    BY <2>2
<1>3. PICK t \in T : \A m \in T : t <= m
  BY <1>2, LeastOfNaturals
<1>4. ASSUME NEW x \in S PROVE n - t >= x
  <2>1. x \in Nat /\ x <= n
    OBVIOUS
  <2>2. n - x \in Nat /\ n - (n - x) = x
    BY <2>1
  <2>3. n - x \in T
    BY <2>2
  <2> QED
    BY <1>3, <2>1, <2>3
<1>5. n - t \in S
  BY <1>3
<1>6. Max(S) \in S /\ \A x \in S : Max(S) >= x
  BY <1>4, <1>5 DEF Max
<1> QED
  BY <1>6

\* The numbers of the commits in the log are bounded.
LEMMA NumbersBounded ==
  ASSUME TypeOK
  PROVE  \E b \in Nat : \A q \in DOMAIN commits : commits[q].localSeq <= b
<1>0. serverSeq \in Nat /\ DOMAIN commits = 1..serverSeq
      /\ \A q \in DOMAIN commits : commits[q].localSeq \in Nat
  BY EngineAssumption DEF TypeOK, serverSeq
<1> DEFINE Below(n) == \E b \in Nat : \A q \in 1..n : commits[q].localSeq <= b
           T == {n \in Nat : n <= serverSeq /\ ~ Below(n)}
<1>1. T = {}
  <2> SUFFICES ASSUME T # {} PROVE FALSE
    OBVIOUS
  <2>1. PICK n \in T : \A m \in T : n <= m
    BY LeastOfNaturals
  <2>2. n \in Nat /\ n <= serverSeq /\ ~ Below(n)
    BY <2>1
  <2>3. n # 0
    <3>1. 0 \in Nat /\ \A q \in 1..0 : commits[q].localSeq <= 0
      OBVIOUS
    <3>2. Below(0)
      BY <3>1
    <3> QED
      BY <2>2, <3>2
  <2>4. n - 1 \in Nat /\ n \in 1..serverSeq /\ n - 1 <= serverSeq /\ ~ (n <= n - 1)
    BY <1>0, <2>2, <2>3
  <2>5. PICK b \in Nat : \A q \in 1..(n - 1) : commits[q].localSeq <= b
    BY <2>1, <2>4
  <2>6. commits[n].localSeq \in Nat
    BY <1>0, <2>4
  <2> DEFINE k == commits[n].localSeq
  <2>7. k + b \in Nat
    BY <2>6
  <2>8. \A q \in 1..n : commits[q].localSeq <= k + b
    <3> TAKE q \in 1..n
    <3>1. CASE q = n
      BY <2>6, <3>1
    <3>2. CASE q # n
      <4>1. q \in 1..(n - 1) /\ q \in 1..serverSeq
        BY <1>0, <2>4, <3>2
      <4>2. commits[q].localSeq <= b /\ commits[q].localSeq \in Nat
        BY <1>0, <2>5, <4>1
      <4> QED
        BY <2>6, <4>2
    <3> QED
      BY <3>1, <3>2
  <2> QED
    BY <2>2, <2>7, <2>8
<1>2. Below(serverSeq)
  <2> HIDE DEF Below
  <2> QED
    BY <1>0, <1>1
<1> QED
  BY <1>0, <1>2

\* The layers of a view have a topmost one.
LEMMA TopLayer ==
  ASSUME TypeOK, NEW s, NEW layers \in SUBSET Nat, layers # {}, NEW e,
         ResolvedBefore(s, layers, e)
  PROVE  Max(layers) \in layers /\ \A n \in layers : n <= Max(layers)
<1>1. PICK b \in Nat : \A q \in DOMAIN commits : commits[q].localSeq <= b
  BY NumbersBounded
<1>2. \A n \in layers : n <= b
  BY <1>1 DEF ResolvedBefore, Resolutions
<1> QED
  BY <1>2, GreatestNatural

\* A document after each own layer of a view.
Shows(s, d, layers, top, at) ==
  \A n \in 1..top :
    at[n] = IF n - 1 \in layers
            THEN ReplayOps(at[n - 1], LayerOps(s, n - 1), OpsOn(LayerOps(s, n - 1), d))
            ELSE at[n - 1]

\* A view is what its layers have left on its basis.
LEMMA ViewRounds ==
  ASSUME NEW s, NEW r, Max(r.layers) \in Nat
  PROVE  \E at : /\ at[0] = DocAt(r.doc, r.basis)
                 /\ Shows(s, r.doc, r.layers, Max(r.layers) + 1, at)
                 /\ PendingView(s, r) = at[Max(r.layers) + 1]
<1> DEFINE Step(v, n) ==
             IF n - 1 \in r.layers
             THEN ReplayOps(v, LayerOps(s, n - 1), OpsOn(LayerOps(s, n - 1), r.doc))
             ELSE v
           base == DocAt(r.doc, r.basis)
           top == Max(r.layers) + 1
           Body(f, m) == [n \in 0..m |-> IF n = 0 THEN base ELSE Step(f[n - 1], n)]
           Inline(f) == [n \in 0..top |->
             IF n = 0 THEN base
             ELSE IF n - 1 \in r.layers
                  THEN ReplayOps(f[n - 1], LayerOps(s, n - 1), OpsOn(LayerOps(s, n - 1), r.doc))
                  ELSE f[n - 1]]
           T == {m \in Nat : ~ \E f : f = Body(f, m)}
<1>0. top \in Nat
  OBVIOUS
<1>a. PendingView(s, r) = (CHOOSE f : f = Inline(f))[top]
  BY DEF PendingView
<1>c. \A f : Inline(f) = Body(f, top)
  OBVIOUS
<1>b. \A v, n : Step(v, n) = IF n - 1 \in r.layers
             THEN ReplayOps(v, LayerOps(s, n - 1), OpsOn(LayerOps(s, n - 1), r.doc))
             ELSE v
  OBVIOUS
<1> HIDE DEF Step, base, top, Inline
<1>1. \A n \in Nat : \E f : f = Body(f, n)
  <2> SUFFICES ASSUME T # {} PROVE FALSE
    OBVIOUS
  <2>1. PICK n \in T : \A m \in T : n <= m
    BY LeastOfNaturals
  <2> HIDE DEF T
  <2>2. CASE n = 0
    <3> DEFINE g == [i \in 0..0 |-> base]
    <3>1. g = Body(g, 0)
      OBVIOUS
    <3> QED
      BY <2>1, <2>2, <3>1 DEF T
  <2>3. CASE n # 0
    <3>0. n \in Nat
      BY <2>1 DEF T
    <3>1. n \in Nat /\ n - 1 \in Nat /\ n - 1 \notin T
      BY <2>1, <2>3, <3>0
    <3>2. PICK f : f = Body(f, n - 1)
      BY <3>1 DEF T
    <3> DEFINE g == [i \in 0..n |-> IF i = n THEN Step(f[n - 1], n) ELSE f[i]]
    <3>3. \A i \in 0..(n - 1) : f[i] = IF i = 0 THEN base ELSE Step(f[i - 1], i)
      BY <3>2
    <3>4. ASSUME NEW i \in 0..n PROVE g[i] = IF i = 0 THEN base ELSE Step(g[i - 1], i)
      <4>1. CASE i = n
        <5>1. n - 1 \in 0..n /\ n - 1 # n
          BY <3>1
        <5>2. g[n - 1] = f[n - 1]
          BY <5>1
        <5> QED
          BY <2>3, <4>1, <5>2
      <4>2. CASE i # n
        <5>1. i \in 0..(n - 1)
          BY <3>1, <4>2
        <5>2. i # 0 => i - 1 \in 0..n /\ i - 1 # n /\ i - 1 \in 0..(n - 1)
          BY <3>1, <5>1
        <5>3. i # 0 => g[i - 1] = f[i - 1]
          BY <5>2
        <5>4. g[i] = f[i]
          BY <4>2
        <5> QED
          BY <3>3, <5>1, <5>3, <5>4
      <4> QED
        BY <4>1, <4>2
    <3>5. g = Body(g, n)
      BY <3>4
    <3> QED
      BY <2>1, <3>5 DEF T
  <2> QED
    BY <2>2, <2>3
<1> DEFINE at == CHOOSE f : f = Body(f, top)
<1>2. at = Body(at, top)
  BY <1>0, <1>1
<1>3. PendingView(s, r) = at[top]
  <2> HIDE DEF Body
  <2>1. (CHOOSE f : f = Inline(f)) = (CHOOSE f : f = Body(f, top))
    BY <1>c
  <2> QED
    BY <1>a, <2>1
<1> HIDE DEF at
<1>4. \A j \in 0..top : at[j] = IF j = 0 THEN base ELSE Step(at[j - 1], j)
  BY <1>2
<1>5. at[0] = base /\ \A j \in 1..top : at[j] = Step(at[j - 1], j)
  BY <1>0, <1>4
<1>6. Shows(s, r.doc, r.layers, top, at)
  BY <1>5, <1>b DEF Shows
<1> QED
  BY <1>3, <1>5, <1>6 DEF base, top

\* No layer stands at k or above it, and below m.
NoLayer(layers, k, m) == \A n \in layers : ~ (k <= n /\ n < m)

\* Between two layers of a view nothing changes.
LEMMA ShowsFlat ==
  ASSUME NEW s, NEW d, NEW layers, NEW top \in Nat, NEW at, Shows(s, d, layers, top, at),
         NEW m \in 0..top, NEW k \in 0..top, k <= m,
         NoLayer(layers, k, m)
  PROVE  at[m] = at[k]
<1> DEFINE T == {i \in Nat : k <= i /\ i <= m /\ at[i] # at[k]}
<1>1. T = {}
  <2> SUFFICES ASSUME T # {} PROVE FALSE
    OBVIOUS
  <2>1. PICK i \in T : \A j \in T : i <= j
    BY LeastOfNaturals
  <2>2. i \in Nat /\ k <= i /\ i <= m /\ at[i] # at[k] /\ i # k
    BY <2>1
  <2>3. i - 1 \in Nat /\ i \in 1..top /\ k <= i - 1 /\ i - 1 < m /\ i - 1 <= m /\ ~ (i <= i - 1)
    BY <2>2
  <2>4. at[i - 1] = at[k]
    BY <2>1, <2>3
  <2>5. i - 1 \notin layers
    BY <2>3 DEF NoLayer
  <2> QED
    BY <2>2, <2>3, <2>4, <2>5 DEF Shows
<1> QED
  BY <1>1

\* A commit the store holds has one row.
LEMMA ResolutionIs ==
  ASSUME UniqueResolution, NEW s, NEW n, NEW e \in Resolutions(s, n)
  PROVE  /\ ResolutionSeq(s, n) = e
         /\ e \in DOMAIN commits /\ commits[e].session = s /\ commits[e].localSeq = n
         /\ LayerOps(s, n) = commits[e].ops
<1>1. ResolutionSeq(s, n) \in Resolutions(s, n)
  BY DEF ResolutionSeq
<1> QED
  BY <1>1 DEF UniqueResolution, Resolutions, LayerOps

\* What a view shows of a document that is read is JSON at every layer.
LEMMA ShowsStores ==
  ASSUME RowsKnown, NEW vals, WritesValues(vals), NEW r \in Readings, NEW s, NEW layers,
         \A n \in layers : Accepted(s, n), NEW top \in Nat, NEW at,
         Shows(s, r.doc, layers, top, at), at[0] \in Stores(vals), NEW m \in 0..top
  PROVE  at[m] \in Stores(vals)
<1>0. TypeOK /\ UniqueResolution
  BY DEF RowsKnown
<1> DEFINE T == {i \in Nat : i <= top /\ at[i] \notin Stores(vals)}
<1>1. T = {}
  <2> SUFFICES ASSUME T # {} PROVE FALSE
    OBVIOUS
  <2>1. PICK i \in T : \A j \in T : i <= j
    BY LeastOfNaturals
  <2>2. i \in Nat /\ i <= top /\ at[i] \notin Stores(vals) /\ i # 0
    BY <2>1
  <2>3. i - 1 \in Nat /\ i \in 1..top /\ i - 1 <= top /\ ~ (i <= i - 1)
    BY <2>2
  <2>4. at[i - 1] \in Stores(vals)
    BY <2>1, <2>3
  <2>5. CASE i - 1 \in layers
    <3>1. PICK q : q \in Resolutions(s, i - 1)
      BY <2>5 DEF Accepted
    <3>2. q \in DOMAIN commits /\ LayerOps(s, i - 1) = commits[q].ops
      BY <1>0, <3>1, ResolutionIs
    <3>3. commits[q] \in Submissions
      BY <1>0, <3>2 DEF TypeOK
    <3> DEFINE ops == commits[q].ops
               all == OpsOn(ops, r.doc)
    <3>4. ops \in Seq(Range(ops)) /\ AllJson(vals, ops, all)
      BY <3>3, RowJson
    <3>5. at[i] = ReplayOps(at[i - 1], ops, all)
      BY <2>3, <2>5, <3>2 DEF Shows
    <3> HIDE DEF ops, all
    <3> QED
      BY <2>2, <2>4, <3>4, <3>5, ReplayStores
  <2>6. CASE i - 1 \notin layers
    BY <2>2, <2>3, <2>4, <2>6 DEF Shows
  <2> QED
    BY <2>5, <2>6
<1> QED
  BY <1>1

\* The view of a session, with its layers resolved up to row e, looks to the
\* read like the store at row e.
Follows(r, s, layers, top, at, e) ==
  \A m \in 0..top :
    (\A n \in layers : n < m <=> ResolutionSeq(s, n) <= e) => Alike(r, at[m], DocAt(r.doc, e))

\* The layers of a view resolved, in the order of their numbers.
Settled(s, layers) ==
  /\ layers \in SUBSET Nat
  /\ \A n \in layers : Accepted(s, n)
  /\ \A m, n \in layers : m < n => ResolutionSeq(s, m) < ResolutionSeq(s, n)

\* A view follows the store over one row no foreign revision of which
\* touches its read.
LEMMA FollowsNext ==
  ASSUME RowsKnown, KeysDeclared, NEW vals, WritesValues(vals), NEW r \in Readings,
         NEW s, NEW layers, Settled(s, layers), NEW top \in Nat, NEW at,
         Shows(s, r.doc, layers, top, at), at[0] \in Stores(vals),
         NEW e \in 1..serverSeq, Follows(r, s, layers, top, at, e - 1),
         \A v \in revisions : v.seq = e /\ v.op.doc = r.doc /\ Touches(v.op, r) =>
                                OwnLayer(s, layers, e)
  PROVE  Follows(r, s, layers, top, at, e)
<1>0. /\ TypeOK /\ UniqueResolution /\ serverSeq \in Nat /\ DOMAIN commits = 1..serverSeq
      /\ e \in Nat /\ e - 1 \in 0..serverSeq /\ e \in DOMAIN commits /\ layers \in SUBSET Nat
  BY DEF RowsKnown, TypeOK, serverSeq, Settled
<1>1. \A n \in layers : ResolutionSeq(s, n) \in 1..serverSeq
  BY <1>0 DEF Settled, Accepted, ResolutionSeq, Resolutions
<1> SUFFICES ASSUME NEW m \in 0..top, \A n \in layers : n < m <=> ResolutionSeq(s, n) <= e
             PROVE  Alike(r, at[m], DocAt(r.doc, e))
  BY DEF Follows
<1>2. CASE OwnLayer(s, layers, e)
  <2>1. PICK n : n = commits[e].localSeq
    OBVIOUS
  <2>2. n \in layers /\ commits[e].session = s
    BY <1>2, <2>1 DEF OwnLayer
  <2>3. e \in Resolutions(s, n)
    BY <1>0, <2>1, <2>2 DEF Resolutions
  <2>4. ResolutionSeq(s, n) = e /\ LayerOps(s, n) = commits[e].ops
    BY <1>0, <2>3, ResolutionIs
  <2>5. n \in Nat /\ n < m /\ n \in 0..top /\ n + 1 \in 1..top /\ n + 1 \in 0..top /\ n + 1 <= m
    BY <1>0, <2>2, <2>4
  <2>6. ASSUME NEW i \in layers PROVE i < n <=> ResolutionSeq(s, i) <= e - 1
    <3>1. i \in Nat /\ ResolutionSeq(s, i) \in Nat
      BY <1>0, <1>1
    <3>2. i < n => ResolutionSeq(s, i) < e
      BY <2>2, <2>4 DEF Settled
    <3>3. n < i => e < ResolutionSeq(s, i)
      BY <2>2, <2>4 DEF Settled
    <3> QED
      BY <1>0, <2>4, <2>5, <3>1, <3>2, <3>3
  <2>7. Alike(r, at[n], DocAt(r.doc, e - 1))
    BY <2>5, <2>6 DEF Follows
  <2>8. at[n] \in Stores(vals)
    BY <2>5, ShowsStores DEF Settled
  <2>9. at[n + 1] = ReplayOps(at[n], commits[e].ops, OpsOn(commits[e].ops, r.doc))
    <3>1. (n + 1) - 1 = n
      BY <2>5
    <3> QED
      BY <2>2, <2>4, <2>5, <3>1 DEF Shows
  <2>10. Alike(r, at[n + 1], DocAt(r.doc, e))
    BY <2>7, <2>8, <2>9, RowThrough
  <2> DEFINE k == n + 1
  <2>11. ASSUME NEW i \in layers PROVE ~ (k <= i /\ i < m)
    <3>1. i \in Nat /\ ResolutionSeq(s, i) \in Nat
      BY <1>0, <1>1
    <3>2. n < i => e < ResolutionSeq(s, i)
      BY <2>2, <2>4 DEF Settled
    <3> QED
      BY <1>0, <2>5, <3>1, <3>2
  <2>12. k \in 0..top /\ k <= m /\ NoLayer(layers, k, m)
    BY <2>5, <2>11 DEF NoLayer
  <2>13. at[m] = at[k]
    <3> HIDE DEF k
    <3> QED
      BY <2>12, ShowsFlat
  <2> QED
    BY <2>10, <2>13
<1>3. CASE ~ OwnLayer(s, layers, e)
  <2>1. ASSUME NEW n \in layers PROVE n < m <=> ResolutionSeq(s, n) <= e - 1
    <3>1. ResolutionSeq(s, n) # e
      BY <1>0, <1>1, <1>3 DEF OwnLayer, Settled, Accepted, ResolutionSeq, Resolutions
    <3>2. ResolutionSeq(s, n) \in Nat
      BY <1>1
    <3> QED
      BY <1>0, <3>1, <3>2
  <2>2. Alike(r, at[m], DocAt(r.doc, e - 1))
    BY <2>1 DEF Follows
  <2>3. Alike(r, DocAt(r.doc, e - 1), DocAt(r.doc, e))
    BY <1>3, RowBeside
  <2> QED
    BY <2>2, <2>3 DEF Alike
<1> QED
  BY <1>2, <1>3

\* From the row it starts at to the row its read is scanned to, a view looks
\* to the read like the store.
LEMMA FollowsAlong ==
  ASSUME RowsKnown, KeysDeclared, NEW vals, WritesValues(vals), NEW r \in Readings,
         NEW s, NEW layers, Settled(s, layers), NEW top \in Nat, NEW at,
         Shows(s, r.doc, layers, top, at), at[0] \in Stores(vals),
         NEW from \in 0..serverSeq, NEW to \in 0..serverSeq, from <= to,
         Quiet(r, from, to + 1, s, layers), Follows(r, s, layers, top, at, from)
  PROVE  Follows(r, s, layers, top, at, to)
<1>0. serverSeq \in Nat
  BY DEF RowsKnown, TypeOK, serverSeq
<1> DEFINE Is(e) == Follows(r, s, layers, top, at, e)
           T == {e \in Nat : from <= e /\ e <= to /\ ~ Is(e)}
<1>1. T = {}
  <2> SUFFICES ASSUME T # {} PROVE FALSE
    OBVIOUS
  <2>1. PICK e \in T : \A i \in T : e <= i
    BY LeastOfNaturals
  <2>2. e \in Nat /\ from <= e /\ e <= to /\ ~ Is(e) /\ e # from
    BY <2>1
  <2>3. e - 1 \in Nat /\ e \in 1..serverSeq /\ from <= e - 1 /\ e - 1 <= to /\ ~ (e <= e - 1)
        /\ e > from /\ ~ (to + 1 <= e)
    BY <1>0, <2>2
  <2>4. Is(e - 1)
    BY <2>1, <2>3
  <2>5. \A v \in revisions : v.seq = e /\ v.op.doc = r.doc /\ Touches(v.op, r) =>
                               OwnLayer(s, layers, e)
    BY <2>3 DEF Quiet, Conflicts
  <2> QED
    BY <2>2, <2>3, <2>4, <2>5, FollowsNext
<1> QED
  BY <1>0, <1>1

\* View `was` of a document names, of the layers of view `at` below m, the ones
\* that write the document.
NamesWriters(s, d, layers, top, at, some, low, was, m) ==
  /\ layers \in SUBSET Nat /\ \A n \in layers : Accepted(s, n)
  /\ top \in Nat /\ m \in 0..top /\ low \in 0..top /\ low <= m
  /\ some \in SUBSET layers /\ \A n \in some : n < low
  /\ at[0] = was[0]
  /\ Shows(s, d, layers, top, at) /\ Shows(s, d, some, low, was)
  /\ \A n \in layers : n < m => n \in some \/ OpsOn(LayerOps(s, n), d) = {}

\* It then shows what the other shows there.
LEMMA SameViews ==
  ASSUME TypeOK, UniqueResolution, NEW s, NEW d, NEW layers, NEW top, NEW at,
         NEW some, NEW low \in Nat, NEW was, NEW m \in Nat,
         NamesWriters(s, d, layers, top, at, some, low, was, m)
  PROVE  at[m] = was[low]
<1>0. /\ layers \in SUBSET Nat /\ \A n \in layers : Accepted(s, n)
      /\ top \in Nat /\ m \in 0..top /\ low \in 0..top /\ low <= m
      /\ some \in SUBSET layers /\ \A n \in some : n < low
      /\ at[0] = was[0]
      /\ Shows(s, d, layers, top, at) /\ Shows(s, d, some, low, was)
      /\ \A n \in layers : n < m => n \in some \/ OpsOn(LayerOps(s, n), d) = {}
  BY DEF NamesWriters
<1> DEFINE Lower(i) == IF i <= low THEN i ELSE low
           T == {i \in Nat : i <= m /\ at[i] # was[Lower(i)]}
<1>1. T = {}
  <2> SUFFICES ASSUME T # {} PROVE FALSE
    BY <1>0
  <2>1. PICK i \in T : \A j \in T : i <= j
    BY LeastOfNaturals
  <2>0. Lower(0) = 0
    BY <1>0
  <2>2. i \in Nat /\ i <= m /\ at[i] # was[Lower(i)] /\ i # 0
    <3> HIDE DEF Lower
    <3> QED
      BY <1>0, <2>0, <2>1
  <2>3. i - 1 \in Nat /\ i \in 1..top /\ i - 1 <= m /\ i - 1 < m /\ ~ (i <= i - 1)
    BY <1>0, <2>2
  <2>4. at[i - 1] = was[Lower(i - 1)]
    BY <1>0, <2>1, <2>3
  <2>5. CASE i - 1 \in some
    <3>1. i - 1 < low
      BY <1>0, <2>5
    <3>2. i \in 1..low /\ Lower(i - 1) = i - 1 /\ Lower(i) = i
      BY <1>0, <2>2, <2>3, <3>1
    <3> HIDE DEF Lower
    <3>3. /\ at[i] = ReplayOps(at[i - 1], LayerOps(s, i - 1), OpsOn(LayerOps(s, i - 1), d))
          /\ was[i] = ReplayOps(was[i - 1], LayerOps(s, i - 1), OpsOn(LayerOps(s, i - 1), d))
      BY <1>0, <2>3, <2>5, <3>2 DEF Shows
    <3> QED
      BY <1>0, <2>2, <2>4, <3>2, <3>3
  <2>6. CASE i - 1 \notin some
    <3>1. at[i] = at[i - 1]
      <4>1. CASE i - 1 \in layers
        <5>1. PICK e : e \in Resolutions(s, i - 1)
          BY <1>0, <4>1 DEF Accepted
        <5>2. e \in DOMAIN commits /\ LayerOps(s, i - 1) = commits[e].ops
          BY <1>0, <5>1, ResolutionIs
        <5>3. commits[e].ops \in Seq(Range(commits[e].ops))
          BY <1>0, <5>2, EngineAssumption DEF TypeOK
        <5>4. OpsOn(LayerOps(s, i - 1), d) = {}
          BY <1>0, <2>3, <2>6, <4>1
        <5>5. at[i] = ReplayOps(at[i - 1], commits[e].ops, {})
          BY <1>0, <2>3, <4>1, <5>2, <5>4 DEF Shows
        <5> QED
          BY <1>0, <5>3, <5>5, ReplayNothing
      <4>2. CASE i - 1 \notin layers
        BY <1>0, <2>3, <4>2 DEF Shows
      <4> QED
        BY <1>0, <4>1, <4>2
    <3>2. CASE i <= low
      <4>1. i \in 1..low /\ Lower(i - 1) = i - 1 /\ Lower(i) = i
        BY <1>0, <2>2, <2>3, <3>2
      <4>2. was[i] = was[i - 1]
        BY <1>0, <2>6, <4>1 DEF Shows
      <4> HIDE DEF Lower
      <4> QED
        BY <1>0, <2>2, <2>4, <3>1, <4>1, <4>2
    <3>3. CASE ~ (i <= low)
      <4>1. Lower(i - 1) = low /\ Lower(i) = low
        BY <1>0, <2>2, <2>3, <3>3
      <4> HIDE DEF Lower
      <4> QED
        BY <1>0, <2>2, <2>4, <3>1, <4>1
    <3> QED
      BY <1>0, <3>2, <3>3
  <2> QED
    BY <1>0, <2>5, <2>6
<1>2. Lower(m) = low /\ m \in Nat /\ m <= m
  BY <1>0
<1>3. ASSUME at[m] # was[Lower(m)] PROVE FALSE
  <2> HIDE DEF Lower
  <2>1. m \in T
    BY <1>0, <1>2, <1>3
  <2> QED
    BY <1>0, <1>1, <2>1
<1> QED
  BY <1>0, <1>2, <1>3

\* Where a view stands when the row that resolved its layer n is the last.
LEMMA LayerReached ==
  ASSUME TypeOK, NEW s, NEW d, NEW layers, Settled(s, layers), NEW top \in Nat, NEW at,
         Shows(s, d, layers, top, at), NEW n \in layers, NEW m \in 0..top,
         \A i \in layers : i < m <=> ResolutionSeq(s, i) <= ResolutionSeq(s, n)
  PROVE  /\ n \in 0..top
         /\ at[m] = ReplayOps(at[n], LayerOps(s, n), OpsOn(LayerOps(s, n), d))
<1> DEFINE k == n + 1
<1>1. layers \in SUBSET Nat /\ \A i \in layers : ResolutionSeq(s, i) \in Nat
  BY DEF Settled, Accepted, ResolutionSeq, Resolutions, TypeOK
<1>2. n \in Nat /\ n < m /\ n \in 0..top /\ k \in 1..top /\ k \in 0..top /\ k <= m /\ k - 1 = n
  BY <1>1
<1>3. ASSUME NEW i \in layers PROVE ~ (k <= i /\ i < m)
  <2>1. n < i => ResolutionSeq(s, n) < ResolutionSeq(s, i)
    BY DEF Settled
  <2>2. i \in Nat /\ ResolutionSeq(s, i) \in Nat /\ ResolutionSeq(s, n) \in Nat
    BY <1>1
  <2> QED
    BY <1>2, <2>1, <2>2
<1>4. at[k] = ReplayOps(at[n], LayerOps(s, n), OpsOn(LayerOps(s, n), d))
  <2> HIDE DEF k
  <2> QED
    BY <1>2 DEF Shows
<1>5. at[m] = at[k]
  <2>1. k \in 0..top /\ k <= m /\ NoLayer(layers, k, m)
    BY <1>2, <1>3 DEF NoLayer
  <2> HIDE DEF k
  <2> QED
    BY <2>1, ShowsFlat
<1> QED
  BY <1>2, <1>4, <1>5

\* What an identity layer was proved on is what the reader's view stands on.
LEMMA ProvedView ==
  ASSUME RowsKnown, StacksWhole, NEW q \in DOMAIN commits, NEW r \in Range(commits[q].pending),
         NEW s, s = commits[q].session, Settled(s, r.layers),
         NEW top \in Nat, NEW at, Shows(s, r.doc, r.layers, top, at),
         at[0] = DocAt(r.doc, r.basis), NEW p \in 1..(q - 1), OwnLayer(s, r.layers, p),
         IdentityAt(commits[p], p), ViewIsProved(commits[p], r),
         OpsOn(commits[p].ops, r.doc) # {}, r.doc \notin ContentDocs,
         commits[p].localSeq \in 0..top
  PROVE  ReplayOps(at[commits[p].localSeq], commits[p].ops, OpsOn(commits[p].ops, r.doc))
           = DocAt(r.doc, p - 1)
<1> DEFINE d == r.doc
           c == commits[p]
           n == c.localSeq
           all == OpsOn(c.ops, d)
           below == {i \in r.layers : i < n /\ OpsOn(commits[ResolutionSeq(s, i)].ops, d) # {}}
<1>0. /\ TypeOK /\ UniqueResolution /\ serverSeq \in Nat /\ DOMAIN commits = 1..serverSeq
      /\ q \in Nat /\ p \in DOMAIN commits /\ p \in Nat /\ r.layers \in SUBSET Nat
  BY DEF RowsKnown, TypeOK, serverSeq, Settled
<1>1. c.ops \in Seq(Range(c.ops)) /\ all \subseteq DOMAIN c.ops
  BY <1>0, EngineAssumption DEF TypeOK, OpsOn
<1>2. n \in r.layers /\ c.session = s /\ ResolutionSeq(s, n) = p
  <2>1. n \in r.layers /\ c.session = s
    BY DEF OwnLayer
  <2>2. p \in Resolutions(s, n)
    BY <1>0, <2>1 DEF Resolutions
  <2> QED
    BY <1>0, <2>1, <2>2, ResolutionIs
<1>3. d \in {o.doc : o \in Range(c.ops)} \ ContentDocs
  BY <1>1 DEF OpsOn, Range
<1>4. /\ ViewBefore(c, d, p)
      /\ \A doc : ViewOf(c, d, doc) \/ doc = DocAt(d, p - 1) =>
           ReplayOps(doc, c.ops, all) = DocAt(d, p - 1)
  BY <1>3 DEF IdentityAt
<1>5. CASE c.ops[Min(all)].op = "set"
  <2>1. ReplayOps(at[n], c.ops, all) = ReplayOps(DocAt(d, p - 1), c.ops, all)
    BY <1>1, <1>5, ReplayFromSet
  <2> QED
    BY <1>4, <2>1
<1>6. CASE ReadsOn(c.pending, d) # {} /\ FirstOn(c.pending, d).basis = r.basis
           /\ FirstOn(c.pending, d).layers \subseteq r.layers
  <2> DEFINE x == FirstOn(c.pending, d)
             low == Max(x.layers) + 1
  <2>1. /\ x.doc = d /\ x.basis = r.basis /\ x.layers \in SUBSET r.layers
        /\ x.layers \in SUBSET Nat /\ x.layers # {} /\ ResolvedBefore(s, x.layers, p)
    BY <1>2, <1>4, <1>6 DEF ViewBefore
  <2>2. ViewOf(c, d, PendingView(s, x))
    BY <1>2, <1>6 DEF ViewOf
  <2>3. below \subseteq x.layers
    BY <1>2, <1>6 DEF StacksWhole
  <2> HIDE DEF x
  <2>4. Max(x.layers) \in x.layers /\ \A i \in x.layers : i <= Max(x.layers)
    BY <1>0, <2>1, TopLayer
  <2>5. ASSUME NEW i \in x.layers PROVE i < n
    <3>1. PICK e \in DOMAIN commits : e < p /\ e \in Resolutions(s, i)
      BY <2>1 DEF ResolvedBefore
    <3>2. ResolutionSeq(s, i) = e
      BY <1>0, <3>1, ResolutionIs
    <3>3. n < i => p < e
      BY <1>2, <2>1, <3>2 DEF Settled
    <3>4. i \in Nat /\ n \in Nat /\ e \in Nat
      BY <1>0, <1>2, <2>1
    <3> QED
      BY <1>0, <1>2, <3>1, <3>2, <3>3, <3>4
  <2>6. low \in 0..top /\ low <= n /\ \A i \in x.layers : i < low
    BY <1>0, <1>2, <2>1, <2>4, <2>5
  <2>7. PICK was : /\ was[0] = DocAt(x.doc, x.basis)
                  /\ Shows(s, x.doc, x.layers, low, was)
                  /\ PendingView(s, x) = was[low]
    BY <2>1, <2>4, ViewRounds
  <2>8. ASSUME NEW i \in r.layers, i < n PROVE i \in x.layers \/ OpsOn(LayerOps(s, i), d) = {}
    BY <2>3, <2>8 DEF LayerOps
  <2>10. at[n] = was[low]
    <3>1. Shows(s, d, x.layers, low, was) /\ at[0] = was[0]
      BY <2>1, <2>7
    <3>2. PICK m \in 0..top : m = n
      OBVIOUS
    <3>3. PICK lo \in 0..top : lo = low
      BY <2>6
    <3>4. PICK some \in SUBSET r.layers : some = x.layers
      BY <2>1
    <3> HIDE DEF low, n
    <3>5. lo <= m /\ \A i \in some : i < lo
      BY <2>6, <3>2, <3>3, <3>4
    <3>6. \A i \in r.layers : i < m => i \in some \/ OpsOn(LayerOps(s, i), d) = {}
      BY <2>8, <3>2, <3>4
    <3>7. Shows(s, d, some, lo, was)
      BY <3>1, <3>3, <3>4
    <3>8. NamesWriters(s, d, r.layers, top, at, some, lo, was, m)
      BY <1>0, <3>1, <3>5, <3>6, <3>7 DEF Settled, NamesWriters
    <3>9. at[m] = was[lo]
      <4>1. m \in Nat /\ lo \in Nat
        OBVIOUS
      <4> QED
        BY <1>0, <3>8, <4>1, SameViews
    <3> QED
      BY <3>2, <3>3, <3>9
  <2> QED
    BY <1>4, <2>2, <2>7, <2>10
<1>7. CASE ReadsOn(c.pending, d) = {} /\ ReadsOn(c.confirmed, d) # {}
           /\ FirstOn(c.confirmed, d).seq = r.basis
  <2>1. below = {}
    BY <1>2, <1>7 DEF StacksWhole
  <2>2. ViewOf(c, d, DocAt(d, r.basis))
    BY <1>7 DEF ViewOf
  <2>3. ASSUME NEW i \in r.layers, i < n PROVE OpsOn(LayerOps(s, i), d) = {}
    BY <2>1, <2>3 DEF LayerOps
  <2>5. at[n] = at[0]
    <3>1. Shows(s, d, {}, 0, at)
      BY DEF Shows
    <3>2. PICK m \in 0..top : m = n
      OBVIOUS
    <3>3. 0 \in 0..top /\ 0 <= m /\ {} \in SUBSET r.layers /\ \A i \in {} : i < 0
      OBVIOUS
    <3>4. \A i \in r.layers : i < m => i \in {} \/ OpsOn(LayerOps(s, i), d) = {}
      BY <2>3, <3>2
    <3>5. NamesWriters(s, d, r.layers, top, at, {}, 0, at, m)
      BY <1>0, <3>1, <3>3, <3>4 DEF Settled, NamesWriters
    <3>6. at[m] = at[0]
      <4>1. m \in Nat /\ 0 \in Nat
        OBVIOUS
      <4> QED
        BY <1>0, <3>5, <4>1, SameViews
    <3> QED
      BY <3>2, <3>6
  <2> QED
    BY <1>4, <2>2, <2>5
<1> QED
  BY <1>5, <1>6, <1>7 DEF ViewIsProved

\* Where a named layer was an identity, the reader's view has what the store
\* has at the layer's row.
LEMMA IdentityFollows ==
  ASSUME RowsKnown, StacksWhole, NEW vals, WritesValues(vals), NEW r \in Readings,
         NEW q \in DOMAIN commits, r \in Range(commits[q].pending),
         NEW s, s = commits[q].session, Settled(s, r.layers),
         NEW top \in Nat, NEW at, Shows(s, r.doc, r.layers, top, at),
         at[0] = DocAt(r.doc, r.basis),
         NEW p \in IdentityLayers(commits[q], r), p < q
  PROVE  Follows(r, s, r.layers, top, at, p)
<1> DEFINE d == r.doc
           c == commits[p]
           n == c.localSeq
           all == OpsOn(c.ops, d)
<1>0. /\ TypeOK /\ UniqueResolution /\ serverSeq \in Nat /\ DOMAIN commits = 1..serverSeq
      /\ q \in Nat /\ p \in DOMAIN commits /\ p \in 1..(q - 1) /\ p \in Nat /\ p # 0
      /\ c \in Submissions /\ d \in Docs
  <2>1. TypeOK /\ UniqueResolution /\ serverSeq \in Nat /\ DOMAIN commits = 1..serverSeq
    BY DEF RowsKnown, TypeOK, serverSeq
  <2>2. p \in DOMAIN commits /\ d \in Docs
    BY ReadingReads DEF IdentityLayers
  <2> QED
    BY <2>1, <2>2 DEF TypeOK
<1>1. /\ OwnLayer(s, r.layers, p) /\ all # {} /\ ViewIsProved(c, r)
      /\ ~ \E v \in revisions : v.seq = p /\ v.op.doc = d
  BY DEF IdentityLayers
<1>2. n \in r.layers /\ ResolutionSeq(s, n) = p /\ LayerOps(s, n) = c.ops
  <2>1. n \in r.layers /\ p \in Resolutions(s, n)
    BY <1>0, <1>1 DEF OwnLayer, Resolutions
  <2> QED
    BY <1>0, <2>1, ResolutionIs
<1>3. c.ops \in Seq(Range(c.ops)) /\ all \subseteq DOMAIN c.ops
  BY <1>0, EngineAssumption DEF OpsOn
<1>4. StoredOps(p, d) = {}
  <2>1. ASSUME NEW j \in StoredOps(p, d) PROVE FALSE
    <3>1. j \in OpsOn(commits[p].ops, d)
      BY DEF StoredOps
    <3>2. PICK v \in revisions : v.seq = p /\ v.opIndex = j
      BY DEF StoredOps
    <3>3. v.op.doc = d
      BY <1>0, <3>1, <3>2 DEF TypeOK, OpsOn
    <3> QED
      BY <1>1, <3>2, <3>3
  <2> QED
    BY <2>1
<1> SUFFICES ASSUME NEW m \in 0..top, \A i \in r.layers : i < m <=> ResolutionSeq(s, i) <= p
             PROVE  Alike(r, at[m], DocAt(d, p))
  BY DEF Follows
<1>5. n \in 0..top /\ at[m] = ReplayOps(at[n], c.ops, all)
  <2>1. PICK k \in r.layers : k = n
    BY <1>2
  <2> HIDE DEF n
  <2>2. \A i \in r.layers : i < m <=> ResolutionSeq(s, i) <= ResolutionSeq(s, k)
    BY <1>2, <2>1
  <2>3. k \in 0..top /\ at[m] = ReplayOps(at[k], LayerOps(s, k), OpsOn(LayerOps(s, k), d))
    BY <1>0, <2>2, LayerReached
  <2> QED
    BY <1>2, <2>1, <2>3
<1>6. CASE d \in ContentDocs
  <2>1. ContentAddressed(c) /\ Installed(d, p) /\ ContentRows
    BY <1>0, <1>1, <1>6 DEF RowsKnown, RowsInstall
  <2>2. Sets(c.ops, all, ContentOf[d])
    BY <1>1, <1>6, <2>1 DEF Sets, ContentAddressed, OpsOn
  <2>3. ReplayOps(at[n], c.ops, all) = ContentOf[d]
    BY <1>1, <1>3, <2>2, ReplaySets
  <2>4. DocAt(d, p) = ContentOf[d]
    <3>1. p \in 0..serverSeq
      BY <1>0
    <3> QED
      BY <1>0, <1>6, <2>1, <3>1, ContentIs
  <2> QED
    BY <1>5, <2>3, <2>4 DEF Alike
<1>7. CASE d \notin ContentDocs
  <2>1. IdentityAt(c, p)
    BY <1>0, <1>1, <1>4, <1>7 DEF RowsKnown, RowsDecided, WroteAt
  <2>2. ReplayOps(at[n], c.ops, all) = DocAt(d, p - 1)
    <3>1. commits[p].localSeq \in 0..top
      BY <1>5
    <3>2. PICK e \in 1..(q - 1) : e = p
      BY <1>0
    <3>3. /\ OwnLayer(s, r.layers, e) /\ IdentityAt(commits[e], e) /\ ViewIsProved(commits[e], r)
          /\ OpsOn(commits[e].ops, r.doc) # {} /\ r.doc \notin ContentDocs
          /\ commits[e].localSeq \in 0..top
      BY <1>1, <1>7, <2>1, <3>1, <3>2
    <3>4. ReplayOps(at[commits[e].localSeq], commits[e].ops, OpsOn(commits[e].ops, r.doc))
            = DocAt(r.doc, e - 1)
      BY <3>3, ProvedView
    <3> QED
      BY <3>2, <3>4
  <2>3. DocAt(d, p) = DocAt(d, p - 1)
    <3>1. DocAt(d, p) = ReplayOps(DocAt(d, p - 1), c.ops, StoredOps(p, d))
      BY <1>0, DocNext
    <3> QED
      BY <1>3, <1>4, <3>1, ReplayNothing
  <2> QED
    BY <1>5, <2>2, <2>3 DEF Alike
<1> QED
  BY <1>6, <1>7

\* On its basis a view has what the store has.
LEMMA BasisFollows ==
  ASSUME NEW r, NEW s, NEW layers \in SUBSET Nat, NEW top \in Nat, NEW at,
         Shows(s, r.doc, layers, top, at), NEW e, at[0] = DocAt(r.doc, e),
         \A n \in layers : ~ ResolutionSeq(s, n) <= e
  PROVE  Follows(r, s, layers, top, at, e)
<1>1. ASSUME NEW m \in 0..top, \A n \in layers : ~ n < m
      PROVE  at[m] = at[0]
  <2>1. PICK k \in 0..top : k = 0
    OBVIOUS
  <2>2. k <= m
    BY <2>1
  <2>3. NoLayer(layers, k, m)
    BY <1>1 DEF NoLayer
  <2>4. at[m] = at[k]
    BY <2>2, <2>3, ShowsFlat
  <2> QED
    BY <2>1, <2>4
<1>2. ASSUME NEW m \in 0..top, \A n \in layers : n < m <=> ResolutionSeq(s, n) <= e
      PROVE  Alike(r, at[m], DocAt(r.doc, e))
  <2>1. \A n \in layers : ~ n < m
    BY <1>2
  <2>2. at[m] = at[0]
    BY <1>1, <2>1
  <2> QED
    BY <2>2 DEF Alike
<1> QED
  BY <1>2 DEF Follows

\* A fresh confirmed read saw the store.
LEMMA ConfirmedSaw ==
  ASSUME RowsKnown, KeysDeclared, NEW vals, WritesValues(vals), NEW q \in DOMAIN commits,
         FreshAt(commits[q], q), NEW r \in Range(commits[q].confirmed)
  PROVE  SawStore(r, DocAt(r.doc, r.seq), q)
<1> DEFINE s == commits[q].session
           at == [n \in 0..0 |-> DocAt(r.doc, r.seq)]
           to == q - 1
<1>0. /\ TypeOK /\ serverSeq \in Nat /\ q \in 1..serverSeq /\ commits[q] \in Submissions
  BY DEF RowsKnown, TypeOK, serverSeq
<1>1. r \in Readings /\ r.seq \in Nat
  BY <1>0, EngineAssumption DEF Readings
<1>2. r.seq < q /\ Quiet(r, r.seq, q, s, {})
  BY DEF FreshAt
<1>3. to \in 0..serverSeq /\ r.seq \in 0..serverSeq /\ r.seq <= to /\ to + 1 = q
  BY <1>0, <1>1, <1>2
<1>4. Shows(s, r.doc, {}, 0, at) /\ at[0] = DocAt(r.doc, r.seq)
  BY DEF Shows
<1>5. at[0] \in Stores(vals)
  BY <1>0, <1>1, <1>3, <1>4, DocStores
<1>6. Settled(s, {})
  BY DEF Settled
<1> HIDE DEF at, to, s
<1>7. Follows(r, s, {}, 0, at, r.seq)
  BY <1>4, BasisFollows
<1>8. Quiet(r, r.seq, to + 1, s, {})
  BY <1>2, <1>3
<1>9. Follows(r, s, {}, 0, at, to)
  BY <1>1, <1>3, <1>4, <1>5, <1>6, <1>7, <1>8, FollowsAlong
<1>10. Alike(r, at[0], DocAt(r.doc, to))
  <2>1. 0 \in 0..0 /\ \A n \in {} : n < 0 <=> ResolutionSeq(s, n) <= to
    OBVIOUS
  <2> QED
    BY <1>9, <2>1 DEF Follows
<1> QED
  BY <1>4, <1>10 DEF SawStore, Alike, to

\* So did a fresh read through layers that the store resolved in order.
LEMMA PendingSaw ==
  ASSUME RowsKnown, KeysDeclared, StacksWhole, NEW vals, WritesValues(vals),
         NEW q \in DOMAIN commits, FreshAt(commits[q], q), NEW s, s = commits[q].session,
         NEW r \in Range(commits[q].pending), AboveBasis(s, r), InLocalOrder(s, r)
  PROVE  SawStore(r, PendingView(s, r), q)
<1> DEFINE top == Max(r.layers) + 1
           to == q - 1
<1>0. /\ TypeOK /\ UniqueResolution /\ serverSeq \in Nat /\ DOMAIN commits = 1..serverSeq
      /\ q \in 1..serverSeq /\ commits[q] \in Submissions
  BY DEF RowsKnown, TypeOK, serverSeq
<1>1. r \in Readings /\ r.layers \in SUBSET Nat /\ r.basis \in Nat
  BY <1>0, EngineAssumption DEF Readings, AboveBasis
<1>2. /\ r.basis < q /\ r.layers # {} /\ ResolvedBefore(s, r.layers, q)
      /\ \/ Quiet(r, r.basis, q, s, r.layers)
         \/ \E p \in IdentityLayers(commits[q], r) :
              p < q /\ Quiet(r, p, q, s, r.layers)
  BY DEF FreshAt, AboveBasis
<1>3. \A n \in r.layers : Accepted(s, n) /\ ResolutionSeq(s, n) \in Nat /\ ResolutionSeq(s, n) < q
  <2> TAKE n \in r.layers
  <2>1. PICK p \in DOMAIN commits : p < q /\ p \in Resolutions(s, n)
    BY <1>2 DEF ResolvedBefore
  <2>2. ResolutionSeq(s, n) = p
    BY <1>0, <2>1, ResolutionIs
  <2> QED
    BY <1>0, <2>1, <2>2 DEF Accepted
<1>4. Settled(s, r.layers)
  BY <1>1, <1>3 DEF Settled, InLocalOrder
<1>5. Max(r.layers) \in r.layers /\ \A n \in r.layers : n <= Max(r.layers)
  BY <1>0, <1>1, <1>2, TopLayer
<1>6. top \in Nat /\ top \in 0..top /\ \A n \in r.layers : n < top
  BY <1>1, <1>5
<1>7. PICK at : /\ at[0] = DocAt(r.doc, r.basis)
                /\ Shows(s, r.doc, r.layers, top, at)
                /\ PendingView(s, r) = at[top]
  BY <1>1, <1>5, ViewRounds
<1>8. to \in 0..serverSeq /\ r.basis \in 0..serverSeq /\ r.basis <= to /\ to + 1 = q /\ to \in Nat
  BY <1>0, <1>1, <1>2
<1>9. at[0] \in Stores(vals)
  BY <1>0, <1>1, <1>7, <1>8, DocStores
<1> HIDE DEF top, to
<1>10. PICK from \in 0..serverSeq : /\ from <= to
                                    /\ Quiet(r, from, to + 1, s, r.layers)
                                    /\ Follows(r, s, r.layers, top, at, from)
  <2>1. CASE Quiet(r, r.basis, q, s, r.layers)
    <3>1. \A n \in r.layers : ~ ResolutionSeq(s, n) <= r.basis
      BY <1>1, <1>3 DEF AboveBasis
    <3>2. Follows(r, s, r.layers, top, at, r.basis)
      BY <1>1, <1>6, <1>7, <3>1, BasisFollows
    <3> QED
      BY <1>8, <2>1, <3>2
  <2>2. ASSUME NEW p \in IdentityLayers(commits[q], r), p < q, Quiet(r, p, q, s, r.layers)
        PROVE  \E from \in 0..serverSeq : /\ from <= to
                                          /\ Quiet(r, from, to + 1, s, r.layers)
                                          /\ Follows(r, s, r.layers, top, at, from)
    <3>1. p \in DOMAIN commits
      BY DEF IdentityLayers
    <3>2. p \in 0..serverSeq /\ p <= to
      BY <1>0, <1>8, <2>2, <3>1
    <3>3. Follows(r, s, r.layers, top, at, p)
      BY <1>1, <1>4, <1>6, <1>7, <2>2, IdentityFollows
    <3> QED
      BY <1>8, <2>2, <3>2, <3>3
  <2> QED
    BY <1>2, <2>1, <2>2
<1>11. Follows(r, s, r.layers, top, at, to)
  BY <1>1, <1>4, <1>6, <1>7, <1>8, <1>9, <1>10, FollowsAlong
<1>12. Alike(r, at[top], DocAt(r.doc, to))
  <2>1. ASSUME NEW n \in r.layers PROVE n < top <=> ResolutionSeq(s, n) <= to
    BY <1>0, <1>3, <1>6, <1>8
  <2> QED
    BY <1>6, <1>11, <2>1 DEF Follows
<1> QED
  BY <1>7, <1>12 DEF SawStore, Alike, to

\* The reads of every commit that wrote saw the store.
LEMMA ReadsSaw ==
  ASSUME RowsKnown, KeysDeclared, StacksWhole, NEW vals, WritesValues(vals)
  PROVE  ReadCoherence
<1>1. ASSUME NEW q \in DOMAIN commits, Bound(q) PROVE FreshAt(commits[q], q)
  BY <1>1 DEF RowsKnown, RowsDecided
<1>2. ConfirmedCoherence
  BY <1>1, ConfirmedSaw DEF ConfirmedCoherence
<1>3. ASSUME NEW q \in DOMAIN commits, Bound(q), NEW r \in Range(commits[q].pending),
             AboveBasis(commits[q].session, r), InLocalOrder(commits[q].session, r)
      PROVE  SawStore(r, PendingView(commits[q].session, r), q)
  <2>1. PICK s : s = commits[q].session
    OBVIOUS
  <2> QED
    BY <1>1, <1>3, <2>1, PendingSaw
<1> QED
  BY <1>2, <1>3 DEF ReadCoherence

\* Read coherence: where clients declare the keys they create and name the
\* whole stack they read through, and no session was promised elided verdicts,
\* every read of a commit that wrote saw, at its path, what the store held
\* just before the commit (findConflictSeq, resolvePendingReads,
\* identityLayerBasis).
THEOREM ReadsCohere ==
  ASSUME ElidedVerdicts = {}, NEW vals, WritesValues(vals)
  PROVE  Spec /\ []KeysDeclared /\ []StacksWhole => []ReadCoherence
<1>1. RowsKnown /\ KeysDeclared /\ StacksWhole => ReadCoherence
  BY ReadsSaw
<1>2. Spec => []RowsKnown
  BY RowsAlways
<1> QED
  BY <1>1, <1>2, PTL

=============================================================================
