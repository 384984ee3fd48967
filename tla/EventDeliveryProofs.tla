------------------------- MODULE EventDeliveryProofs -------------------------
(***************************************************************************)
(* Theorems about the way of an event to its stream, for every set of ids  *)
(* and streams and any number of faults.                                   *)
(*                                                                         *)
(* Consequences happen once because what the open wave runs is above the   *)
(* watermark and not done, and an id stands once above the watermark       *)
(* (StreamOK, ServingOK).                                                  *)
(*                                                                         *)
(* What is sent, whether by the client's queue, by a drain of the outbox   *)
(* or by an attempt nobody waits for any more, has every earlier event of  *)
(* its source and stream settled: on its stream, or refused for good.      *)
(* That holds because no queue, table or drain holds an event ahead of an  *)
(* earlier one that is not settled (RowOrder, QueueOrder). For the         *)
(* client's queue it takes a replica that is not replaced before its last  *)
(* save.                                                                   *)
(*                                                                         *)
(* Where the access list does not change, an event that was refused is     *)
(* refused for good (DInv), and the delivery implements EventIntents,      *)
(* liveness aside.                                                         *)
(***************************************************************************)
EXTENDS EventDelivery, TLAPS, WellFoundedInduction, FiniteSetTheorems

-----------------------------------------------------------------------------
(* The inductive invariant                                                 *)

\* An event that needs no more sending.
Settled(id) ==
  \/ Logged(id)
  \/ id \in ClientIds /\ outcome[id] \in {"refused", "dropped"}
  \/ id \in GivenUp

SettledIds == {id \in Ids : Settled(id)}

\* An event somebody fired or emitted.
Known(id) == id \in Range(fires) \cup Range(emitted)

\* Every y of the sequence s has an x ahead of it.
Leads(s, x, y) == \A i \in DOMAIN s : s[i] = y => \E j \in 1..(i - 1) : s[j] = x

Entry == [id : Ids, seq : Nat, done : BOOLEAN]

\* The target's streams: seqs tell entries apart, and above the watermark ids do.
StreamOK ==
  /\ seq \in Nat /\ denied \in BOOLEAN
  /\ log \in [Streams -> [entries : Seq(Entry), mark : 0..seq]]
  /\ \A s \in Streams : \A e \in Entries(s) :
       e.seq \in 1..seq /\ StreamOf[e.id] = s /\ e.id \notin Refusable
  /\ \A s, t \in Streams : \A e \in Entries(s), x \in Entries(t) : e.seq = x.seq => e = x
  /\ \A s \in Streams : \A e, x \in Entries(s) :
       e.id = x.id /\ e.seq > log[s].mark /\ x.seq > log[s].mark => e = x
  /\ MarkSound

\* What the open wave holds is above the watermark and not done yet, and what
\* it runs has not run: consequences happen once.
ServingOK ==
  /\ effects \in [Ids -> {0, 1}] /\ staged \subseteq [seq : Nat, id : Ids, run : BOOLEAN]
  /\ \A v, w \in staged : v.seq = w.seq => v = w
  /\ \A id \in Ids : effects[id] = 1 => \E e \in Entries(StreamOf[id]) : e.id = id /\ e.done
  /\ \A w \in staged :
       /\ \E e \in Entries(StreamOf[w.id]) :
            e.id = w.id /\ e.seq = w.seq /\ ~ e.done /\ e.seq > log[StreamOf[w.id]].mark
       /\ w.run => effects[w.id] = 0

QueueStates == [arriving : Seq(ClientIds), entries : Seq(ClientIds),
                saving : BOOLEAN, closed : BOOLEAN]

\* A queue holds what was fired, and each of it once.
QueueFits(q, fired) ==
  /\ Range(q.entries) \cup Range(q.arriving) \subseteq fired
  /\ Range(q.entries) \cap Range(q.arriving) = {}
  /\ IsInjective(q.entries) /\ IsInjective(q.arriving)

\* The client's queues, its store and its attempt hold what was fired.
ClientOK ==
  /\ fires \in Seq(ClientIds) /\ outcome \in [ClientIds -> Outcomes]
  /\ queue \in [1..2 -> QueueStates] /\ \A r \in 1..2 : QueueFits(queue[r], Range(fires))
  /\ route \in [cur : 1..2, issued : BOOLEAN]
  /\ saved \in Seq(ClientIds) /\ IsInjective(saved) /\ Range(saved) \subseteq Range(fires)
  /\ attempt = NoAttempt \/ attempt \in [at : {"sent"}, id : ClientIds, answer : Answers]
  /\ attempt # NoAttempt =>
       attempt.id \in Range(fires) /\ attempt.id \in Range(queue[route.cur].entries)
  /\ \A id \in ClientIds : id \in Range(fires) <=> outcome[id] # "unfired"
  /\ route.cur = 1 => queue[2] = EmptyQueue
  /\ ~ route.issued => attempt = NoAttempt

DrainStates == [at : {"none", "send", "notice", "delete"}, left : Seq(RowIds)]

\* A drain that runs has a row in hand, and holds what was emitted.
DrainFits(v, ever) ==
  /\ v.at = "none" <=> v.left = <<>>
  /\ Range(v.left) \subseteq ever

\* The outbox and its drains hold what was emitted.
OutboxOK ==
  /\ emitted \in Seq(RowIds) /\ GivenUp \subseteq RowIds
  /\ rows \in Seq(RowIds) /\ IsInjective(rows) /\ Range(rows) \subseteq Range(emitted)
  /\ drains \in [{"own", "left"} -> DrainStates]
  /\ \A d \in {"own", "left"} : DrainFits(drains[d], Range(emitted))

\* A refusal is on the source event where the row has one.
SourceOK ==
  /\ sourced \subseteq Range(emitted)
  /\ noticed \subseteq sourced /\ warned \subseteq Range(emitted) \ sourced

\* A row that left the table was settled.
RowsGone == \A id \in Range(emitted) : id \in Range(rows) \/ Logged(id) \/ id \in GivenUp

\* Attempts under way, and what is on a stream, are of known events.
LateOK == late \in [Ids -> Nat] /\ \A id \in Ids : late[id] > 0 => Known(id)

LoggedKnown == \A s \in Streams : \A e \in Entries(s) : Known(e.id)

\* The answer of an attempt is true.
AnswerOK == attempt # NoAttempt /\ attempt.answer \in {"ok", "duplicate"} => Logged(attempt.id)

\* No event of a sequence stands ahead of an earlier one that is not settled.
Ordered(s, ever, settled) ==
  \A x, y \in Ids : Before(ever, x, y) /\ x \notin settled => Leads(s, x, y)

\* A drain deletes a row once its event is settled, and keeps to the order in
\* which rows were written.
DrainKeepsTo(v, ever, settled) ==
  (v.at = "delete" => Head(v.left) \in settled) /\ Ordered(v.left, ever, settled)

RowOrder ==
  /\ Ordered(rows, emitted, SettledIds)
  /\ \A d \in {"own", "left"} : DrainKeepsTo(drains[d], emitted, SettledIds)

IInv ==
  /\ StreamOK /\ ClientOK /\ OutboxOK /\ SourceOK /\ LateOK /\ LoggedKnown /\ ServingOK /\ faults \in Nat
  /\ AnswerOK /\ RowsGone /\ RowOrder

\* No event in the line of queue q, whether it has joined it or is about to, is
\* ahead of an earlier one that is not settled.
LineOrdered(q, ever, settled) ==
  \A x, y \in Ids : Before(ever, x, y) /\ x \notin settled =>
    Leads(q.entries, x, y) /\ (x \in Range(q.entries) \/ Leads(q.arriving, x, y))

\* Until the replacement, the store holds the queue in use whenever no save is
\* due.
ReplaceOK == route.cur = 1 /\ ~ queue[1].saving => saved = queue[1].entries

QueueOrder == LineOrdered(queue[route.cur], fires, SettledIds)

\* x was fired or emitted before y, on the same stream.
Earlier(x, y) ==
  (Before(fires, x, y) \/ Before(emitted, x, y)) /\ StreamOf[x] = StreamOf[y]

\* Earlier events of y's source and stream are settled.
Cleared(y) == \A x \in Ids : Earlier(x, y) => x \in SettledIds

\* Whatever the target may still be asked to apply is cleared.
SentCleared ==
  /\ attempt # NoAttempt => Cleared(attempt.id)
  /\ \A id \in Ids : late[id] > 0 => Cleared(id)

\* What waits in the queue in use was not refused, and nothing was before the
\* first send.
RefusedOnce ==
  /\ \A id \in Range(queue[route.cur].entries) \cup Range(queue[route.cur].arriving) :
       outcome[id] \notin {"refused", "dropped"}
  /\ ~ route.issued => \A id \in ClientIds : outcome[id] \notin {"refused", "dropped"}

\* Where no replica is replaced, the firer of what waits in the queue waits too.
FirersWait ==
  ~ MayReplace =>
    /\ route.cur = 1 /\ ~ queue[1].closed
    /\ \A id \in Range(queue[1].entries) \cup Range(queue[1].arriving) : outcome[id] = "open"

\* The client's half of DInv: what is refused is refusable, and is refused once.
ClientDInv ==
  /\ RefusedOnce /\ FirersWait
  /\ attempt.answer = "refused" => attempt.id \in Refusable
  /\ \A id \in ClientIds : outcome[id] \in {"refused", "dropped"} => id \in Refusable

\* The outbox's half.
OutboxDInv ==
  /\ GivenUp \subseteq Refusable
  /\ \A d \in {"own", "left"} : drains[d].at = "notice" => Head(drains[d].left) \in Refusable

\* Where the access list does not change, what is refused is refusable.
DInv == ClientDInv /\ OutboxDInv /\ ~ denied

\* The ids of a stream's entries, in order.
IdsOf(s) == [i \in DOMAIN log[s].entries |-> log[s].entries[i].id]

\* An event whose refusal was told or dropped.
Refused(x) == (x \in ClientIds /\ outcome[x] \in {"refused", "dropped"}) \/ x \in GivenUp

\* Every entry of a stream has an earlier event that was not refused ahead of it.
LogOrder ==
  \A x, y \in Ids : Earlier(x, y) /\ ~ Refused(x) => Leads(IdsOf(StreamOf[y]), x, y)

\* The order half, for replicas that are not replaced before their last save.
OInv == ReplaceOK /\ NothingStranded /\ QueueOrder /\ SentCleared /\ LogOrder

-----------------------------------------------------------------------------
(* Sequences                                                               *)

\* Membership in a sequence, by index.
LEMMA RangeIs ==
  ASSUME NEW S, NEW s \in Seq(S), NEW x
  PROVE  x \in Range(s) <=> \E i \in 1..Len(s) : s[i] = x
BY DEF Range

\* Appending.
LEMMA AppendIs ==
  ASSUME NEW S, NEW s \in Seq(S), NEW x \in S
  PROVE  /\ Append(s, x) \in Seq(S) /\ Len(Append(s, x)) = Len(s) + 1
         /\ \A i \in 1..Len(s) : Append(s, x)[i] = s[i]
         /\ Append(s, x)[Len(s) + 1] = x
         /\ Range(Append(s, x)) = Range(s) \cup {x}
<1>1. /\ Append(s, x) \in Seq(S) /\ Len(Append(s, x)) = Len(s) + 1
      /\ \A i \in 1..Len(s) : Append(s, x)[i] = s[i]
      /\ Append(s, x)[Len(s) + 1] = x
  OBVIOUS
<1> DEFINE t == Append(s, x)
<1>2. /\ t \in Seq(S) /\ Len(t) = Len(s) + 1 /\ Len(s) \in Nat
      /\ \A i \in 1..Len(s) : t[i] = s[i]
      /\ t[Len(s) + 1] = x
  BY <1>1
<1> HIDE DEF t
<1>3. ASSUME NEW z PROVE z \in Range(t) <=> z \in Range(s) \cup {x}
  <2>1. z \in Range(t) <=> \E i \in 1..(Len(s) + 1) : t[i] = z
    BY <1>2, RangeIs
  <2>2. z \in Range(s) <=> \E i \in 1..Len(s) : s[i] = z
    BY RangeIs
  <2> QED
    BY <1>2, <2>1, <2>2
<1> QED
  BY <1>1, <1>3 DEF t

\* The last of a sequence that grew comes after all of it.
LEMMA BeforeAppend ==
  ASSUME NEW S, NEW s \in Seq(S), NEW z \in S, NEW x, NEW y
  PROVE  Before(Append(s, z), x, y) <=> Before(s, x, y) \/ (y = z /\ x \in Range(s))
<1> DEFINE t == Append(s, z)
<1>1. /\ t \in Seq(S) /\ Len(t) = Len(s) + 1 /\ Len(s) \in Nat
      /\ \A i \in 1..Len(s) : t[i] = s[i]
      /\ t[Len(s) + 1] = z
  BY AppendIs
<1>2. DOMAIN t = 1..(Len(s) + 1) /\ DOMAIN s = 1..Len(s)
  BY <1>1
<1>3. x \in Range(s) <=> \E i \in 1..Len(s) : s[i] = x
  BY RangeIs
<1> HIDE DEF t
<1>4. ASSUME Before(t, x, y) PROVE Before(s, x, y) \/ (y = z /\ x \in Range(s))
  <2>1. PICK i \in 1..(Len(s) + 1) : t[i] = y /\ \E j \in 1..(i - 1) : t[j] = x
    BY <1>2, <1>4 DEF Before
  <2>2. PICK j \in 1..(i - 1) : t[j] = x
    BY <2>1
  <2>3. j \in 1..Len(s) /\ s[j] = x
    BY <1>1, <2>1, <2>2
  <2>4. CASE i = Len(s) + 1
    BY <1>1, <1>3, <2>1, <2>3, <2>4
  <2>5. CASE i \in 1..Len(s)
    BY <1>1, <1>2, <2>1, <2>2, <2>3, <2>5 DEF Before
  <2> QED
    BY <1>1, <2>4, <2>5
<1>5. ASSUME Before(s, x, y) PROVE Before(t, x, y)
  <2>1. PICK i \in 1..Len(s) : s[i] = y /\ \E j \in 1..(i - 1) : s[j] = x
    BY <1>2, <1>5 DEF Before
  <2>2. PICK j \in 1..(i - 1) : s[j] = x
    BY <2>1
  <2>3. i \in 1..(Len(s) + 1) /\ j \in 1..Len(s) /\ t[i] = y /\ t[j] = x
    BY <1>1, <2>1, <2>2
  <2> QED
    BY <1>2, <2>2, <2>3 DEF Before
<1>6. ASSUME y = z, x \in Range(s) PROVE Before(t, x, y)
  <2>1. PICK j \in 1..Len(s) : s[j] = x
    BY <1>3, <1>6
  <2>2. j \in 1..((Len(s) + 1) - 1) /\ t[j] = x /\ t[Len(s) + 1] = y
    BY <1>1, <1>6, <2>1
  <2>3. Len(s) + 1 \in DOMAIN t
    BY <1>1, <1>2
  <2> QED
    BY <2>2, <2>3 DEF Before
<1> QED
  BY <1>4, <1>5, <1>6 DEF t

\* Both ends of an order are in the sequence.
LEMMA BeforeIn ==
  ASSUME NEW S, NEW s \in Seq(S), NEW x, NEW y, Before(s, x, y)
  PROVE  x \in Range(s) /\ y \in Range(s)
<1>1. PICK i \in 1..Len(s) : s[i] = y /\ \E j \in 1..(i - 1) : s[j] = x
  BY DEF Before
<1>2. PICK j \in 1..(i - 1) : s[j] = x
  BY <1>1
<1>3. j \in 1..Len(s)
  BY <1>1, <1>2
<1> QED
  BY <1>1, <1>2, <1>3, RangeIs

\* Appending z leaves x ahead of y unless z is a y with no x ahead of it.
LEMMA LeadsAppend ==
  ASSUME NEW S, NEW s \in Seq(S), NEW z \in S, NEW x, NEW y,
         Leads(s, x, y), y = z => x \in Range(s)
  PROVE  Leads(Append(s, z), x, y)
<1> DEFINE t == Append(s, z)
<1>1. /\ t \in Seq(S) /\ Len(t) = Len(s) + 1 /\ Len(s) \in Nat
      /\ \A i \in 1..Len(s) : t[i] = s[i]
      /\ t[Len(s) + 1] = z
  BY AppendIs
<1>2. DOMAIN t = 1..(Len(s) + 1) /\ DOMAIN s = 1..Len(s)
  BY <1>1
<1>3. x \in Range(s) <=> \E i \in 1..Len(s) : s[i] = x
  BY RangeIs
<1> HIDE DEF t
<1>4. ASSUME NEW i \in 1..(Len(s) + 1), t[i] = y PROVE \E j \in 1..(i - 1) : t[j] = x
  <2>1. CASE i = Len(s) + 1
    <3>1. PICK j \in 1..Len(s) : s[j] = x
      BY <1>1, <1>3, <1>4, <2>1
    <3> QED
      BY <1>1, <2>1, <3>1
  <2>2. CASE i \in 1..Len(s)
    <3>1. s[i] = y
      BY <1>1, <1>4, <2>2
    <3>2. PICK j \in 1..(i - 1) : s[j] = x
      BY <1>2, <2>2, <3>1 DEF Leads
    <3>3. j \in 1..Len(s)
      BY <1>1, <2>2, <3>2
    <3> QED
      BY <1>1, <3>2, <3>3
  <2> QED
    BY <1>1, <2>1, <2>2
<1> QED
  BY <1>2, <1>4 DEF Leads, t

\* The head of a sequence has nothing ahead of it.
LEMMA LeadsHead ==
  ASSUME NEW S, NEW s \in Seq(S), s # <<>>, NEW x
  PROVE  ~ Leads(s, x, Head(s))
BY DEF Leads

\* Without its head, a sequence keeps its order but for the head itself.
LEMMA LeadsTail ==
  ASSUME NEW S, NEW s \in Seq(S), s # <<>>, NEW x, NEW y,
         Leads(s, x, y), x # Head(s)
  PROVE  Leads(Tail(s), x, y)
<1> DEFINE t == Tail(s)
<1>1. /\ Len(s) \in Nat /\ Len(s) > 0 /\ Len(t) = Len(s) - 1 /\ t \in Seq(S)
      /\ \A i \in 1..(Len(s) - 1) : t[i] = s[i + 1]
      /\ Head(s) = s[1]
  OBVIOUS
<1>2. DOMAIN t = 1..(Len(s) - 1) /\ DOMAIN s = 1..Len(s)
  BY <1>1
<1> HIDE DEF t
<1>3. ASSUME NEW i \in 1..(Len(s) - 1), t[i] = y PROVE \E j \in 1..(i - 1) : t[j] = x
  <2>1. i + 1 \in 1..Len(s) /\ s[i + 1] = y
    BY <1>1, <1>3
  <2>2. PICK j \in 1..((i + 1) - 1) : s[j] = x
    BY <1>2, <2>1 DEF Leads
  <2>3. j # 1
    BY <1>1, <2>2
  <2>4. j - 1 \in 1..(i - 1) /\ j - 1 \in 1..(Len(s) - 1) /\ (j - 1) + 1 = j
    BY <1>1, <1>3, <2>2, <2>3
  <2> QED
    BY <1>1, <2>2, <2>4
<1> QED
  BY <1>2, <1>3 DEF Leads, t

\* A sequence without one of its elements: the others keep their places in line.
LEMMA WithoutIs ==
  ASSUME NEW S, NEW s \in Seq(S), NEW z
  PROVE  /\ Without(s, z) \in Seq(S)
         /\ Range(Without(s, z)) \subseteq Range(s)
         /\ Range(s) \subseteq Range(Without(s, z)) \cup {z}
         /\ \/ Without(s, z) = s /\ z \notin Range(s)
            \/ \E k \in 1..Len(s) :
                 /\ s[k] = z /\ Len(Without(s, z)) = Len(s) - 1
                 /\ \A i \in 1..(Len(s) - 1) :
                      Without(s, z)[i] = IF i < k THEN s[i] ELSE s[i + 1]
<1>1. CASE z \notin Range(s)
  BY <1>1 DEF Without
<1>2. CASE z \in Range(s)
  <2> DEFINE k == CHOOSE i \in DOMAIN s : s[i] = z
             u == SubSeq(s, 1, k - 1)
             v == SubSeq(s, k + 1, Len(s))
             t == u \o v
  <2>1. k \in 1..Len(s) /\ s[k] = z /\ Len(s) \in Nat
    BY <1>2 DEF Range
  <2>2. Without(s, z) = t
    BY <1>2 DEF Without, RemoveAt
  <2> HIDE DEF k
  <2>3. u \in Seq(S) /\ Len(u) = k - 1 /\ \A i \in 1..(k - 1) : u[i] = s[i]
    BY <2>1
  <2>4. v \in Seq(S) /\ Len(v) = Len(s) - k /\ \A i \in 1..(Len(s) - k) : v[i] = s[k + i]
    <3>1. v \in Seq(S)
      BY <2>1
    <3>2. Len(v) = Len(s) - k
      BY <2>1
    <3>3. \A i \in 1..(Len(s) - k) : v[i] = s[(k + 1) + i - 1]
      BY <2>1
    <3>4. \A i \in 1..(Len(s) - k) : (k + 1) + i - 1 = k + i
      BY <2>1
    <3> QED
      BY <3>1, <3>2, <3>3, <3>4
  <2> HIDE DEF u, v
  <2>5. /\ t \in Seq(S) /\ Len(t) = Len(u) + Len(v)
        /\ \A i \in 1..Len(t) : t[i] = IF i <= Len(u) THEN u[i] ELSE v[i - Len(u)]
    <3>1. u \in Seq(S) /\ v \in Seq(S)
      BY <2>3, <2>4
    <3> QED
      BY <3>1
  <2>6. Len(t) = Len(s) - 1
    BY <2>1, <2>3, <2>4, <2>5
  <2> HIDE DEF t
  <2>7. ASSUME NEW i \in 1..(Len(s) - 1) PROVE t[i] = IF i < k THEN s[i] ELSE s[i + 1]
    <3>1. CASE i < k
      BY <2>1, <2>3, <2>5, <2>6, <3>1
    <3>2. CASE ~ (i < k)
      <4>1. i - (k - 1) \in 1..(Len(s) - k) /\ k + (i - (k - 1)) = i + 1 /\ ~ (i <= k - 1)
        BY <2>1, <3>2
      <4>2. v[i - (k - 1)] = s[i + 1]
        BY <2>4, <4>1
      <4>3. t[i] = v[i - (k - 1)]
        BY <2>3, <2>5, <2>6, <4>1
      <4> QED
        BY <3>2, <4>2, <4>3
    <3> QED
      BY <3>1, <3>2
  <2>8. Range(t) \subseteq Range(s)
    <3>1. ASSUME NEW x \in Range(t) PROVE x \in Range(s)
      <4>1. PICK i \in 1..(Len(s) - 1) : t[i] = x
        BY <2>5, <2>6, RangeIs
      <4>2. (i \in 1..Len(s) /\ s[i] = x) \/ (i + 1 \in 1..Len(s) /\ s[i + 1] = x)
        BY <2>1, <2>7, <4>1
      <4> QED
        BY <4>2, RangeIs
    <3> QED
      BY <3>1
  <2>9. Range(s) \subseteq Range(t) \cup {z}
    <3>1. ASSUME NEW x \in Range(s), x # z PROVE x \in Range(t)
      <4>1. PICK i \in 1..Len(s) : s[i] = x
        BY RangeIs
      <4>2. i # k
        BY <2>1, <3>1, <4>1
      <4>3. CASE i < k
        <5>1. i \in 1..(Len(s) - 1) /\ t[i] = x
          BY <2>1, <2>7, <4>1, <4>3
        <5> QED
          BY <2>5, <2>6, <5>1, RangeIs
      <4>4. CASE i > k
        <5>1. i - 1 \in 1..(Len(s) - 1) /\ ~ (i - 1 < k) /\ (i - 1) + 1 = i
          BY <2>1, <4>1, <4>4
        <5>2. t[i - 1] = x
          BY <2>7, <4>1, <5>1
        <5> QED
          BY <2>5, <2>6, <5>1, <5>2, RangeIs
      <4> QED
        BY <2>1, <4>1, <4>2, <4>3, <4>4
    <3> QED
      BY <3>1
  <2> QED
    BY <2>1, <2>2, <2>5, <2>6, <2>7, <2>8, <2>9
<1> QED
  BY <1>1, <1>2

\* Taking the head off.
LEMMA TailIs ==
  ASSUME NEW S, NEW s \in Seq(S), s # <<>>
  PROVE  /\ Head(s) \in S /\ Tail(s) \in Seq(S)
         /\ Range(s) = {Head(s)} \cup Range(Tail(s))
         /\ IsInjective(s) => IsInjective(Tail(s)) /\ Head(s) \notin Range(Tail(s))
<1> DEFINE t == Tail(s)
           h == Head(s)
<1>1. /\ Len(s) \in Nat /\ Len(s) > 0 /\ Len(t) = Len(s) - 1 /\ t \in Seq(S) /\ h \in S
      /\ \A i \in 1..(Len(s) - 1) : t[i] = s[i + 1]
      /\ h = s[1]
  OBVIOUS
<1>2. DOMAIN t = 1..(Len(s) - 1) /\ DOMAIN s = 1..Len(s)
  BY <1>1
<1> HIDE DEF t, h
<1>3. \A z : z \in Range(s) <=> \E i \in 1..Len(s) : s[i] = z
  BY RangeIs
<1>4. \A z : z \in Range(t) <=> \E i \in 1..(Len(s) - 1) : t[i] = z
  BY <1>1, RangeIs
<1>5. ASSUME NEW z PROVE z \in Range(s) <=> z = h \/ z \in Range(t)
  <2>1. ASSUME z \in Range(s), z # h PROVE z \in Range(t)
    <3>1. PICK i \in 1..Len(s) : s[i] = z
      BY <1>3, <2>1
    <3>2. i - 1 \in 1..(Len(s) - 1) /\ (i - 1) + 1 = i
      BY <1>1, <2>1, <3>1
    <3>3. t[i - 1] = z
      BY <1>1, <3>1, <3>2
    <3> QED
      BY <1>4, <3>2, <3>3
  <2>2. ASSUME z \in Range(t) PROVE z \in Range(s)
    <3>1. PICK i \in 1..(Len(s) - 1) : t[i] = z
      BY <1>4, <2>2
    <3>2. i + 1 \in 1..Len(s) /\ s[i + 1] = z
      BY <1>1, <3>1
    <3> QED
      BY <1>3, <3>2
  <2>3. h \in Range(s)
    BY <1>1, <1>3
  <2> QED
    BY <2>1, <2>2, <2>3
<1>6. ASSUME IsInjective(s) PROVE IsInjective(t) /\ h \notin Range(t)
  <2>1. ASSUME NEW i \in 1..(Len(s) - 1), NEW j \in 1..(Len(s) - 1), t[i] = t[j] PROVE i = j
    <3>1. i + 1 \in 1..Len(s) /\ j + 1 \in 1..Len(s) /\ s[i + 1] = s[j + 1]
      BY <1>1, <2>1
    <3>2. i + 1 = j + 1
      BY <1>2, <1>6, <3>1 DEF IsInjective
    <3> QED
      BY <3>2
  <2>2. ASSUME NEW i \in 1..(Len(s) - 1), t[i] = h PROVE FALSE
    <3>1. i + 1 \in 1..Len(s) /\ 1 \in 1..Len(s) /\ s[i + 1] = s[1]
      BY <1>1, <2>2
    <3>2. i + 1 = 1
      BY <1>2, <1>6, <3>1 DEF IsInjective
    <3> QED
      BY <3>2
  <2> QED
    BY <1>2, <1>4, <2>1, <2>2 DEF IsInjective
<1> QED
  BY <1>1, <1>5, <1>6 DEF t, h

\* Appending what is not there yet keeps a sequence free of repetition.
LEMMA OnceAppend ==
  ASSUME NEW S, NEW s \in Seq(S), NEW z \in S, IsInjective(s), z \notin Range(s)
  PROVE  IsInjective(Append(s, z))
<1> DEFINE t == Append(s, z)
<1>1. /\ t \in Seq(S) /\ Len(t) = Len(s) + 1 /\ Len(s) \in Nat
      /\ \A i \in 1..Len(s) : t[i] = s[i]
      /\ t[Len(s) + 1] = z
  BY AppendIs
<1>2. DOMAIN t = 1..(Len(s) + 1) /\ DOMAIN s = 1..Len(s)
  BY <1>1
<1>3. \A i \in 1..Len(s) : s[i] # z
  BY RangeIs
<1> HIDE DEF t
<1>4. ASSUME NEW i \in 1..(Len(s) + 1), NEW j \in 1..(Len(s) + 1), t[i] = t[j] PROVE i = j
  <2>1. CASE i = Len(s) + 1 /\ j # Len(s) + 1
    BY <1>1, <1>3, <1>4, <2>1
  <2>2. CASE j = Len(s) + 1 /\ i # Len(s) + 1
    BY <1>1, <1>3, <1>4, <2>2
  <2>3. CASE i # Len(s) + 1 /\ j # Len(s) + 1
    <3>1. i \in 1..Len(s) /\ j \in 1..Len(s) /\ s[i] = s[j]
      BY <1>1, <1>4, <2>3
    <3> QED
      BY <1>2, <3>1 DEF IsInjective
  <2> QED
    BY <2>1, <2>2, <2>3
<1>5. IsInjective(t)
  BY <1>2, <1>4 DEF IsInjective
<1>6. IsInjective(Append(s, z))
  BY <1>5 DEF t
<1> QED
  BY <1>6

\* Taking an element out of a sequence free of repetition.
LEMMA OnceWithout ==
  ASSUME NEW S, NEW s \in Seq(S), NEW z, IsInjective(s)
  PROVE  IsInjective(Without(s, z)) /\ z \notin Range(Without(s, z))
<1> DEFINE t == Without(s, z)
<1>1. /\ t \in Seq(S) /\ Len(s) \in Nat
      /\ \/ t = s /\ z \notin Range(s)
         \/ \E k \in 1..Len(s) :
              /\ s[k] = z /\ Len(t) = Len(s) - 1
              /\ \A i \in 1..(Len(s) - 1) : t[i] = IF i < k THEN s[i] ELSE s[i + 1]
  BY WithoutIs
<1>2. DOMAIN s = 1..Len(s) /\ DOMAIN t = 1..Len(t)
  BY <1>1
<1>3. CASE t = s /\ z \notin Range(s)
  BY <1>3
<1>4. CASE ~ (t = s /\ z \notin Range(s))
  <2>5. PICK m \in 1..Len(s) :
          /\ s[m] = z /\ Len(t) = Len(s) - 1
          /\ \A i \in 1..(Len(s) - 1) : t[i] = IF i < m THEN s[i] ELSE s[i + 1]
    BY <1>1, <1>4
  <2> HIDE DEF t
  <2> DEFINE up(i) == IF i < m THEN i ELSE i + 1
  <2>6. \A i \in 1..(Len(s) - 1) : up(i) \in 1..Len(s) /\ up(i) # m /\ t[i] = s[up(i)]
    BY <1>1, <2>5
  <2>7. \A i, j \in 1..(Len(s) - 1) : up(i) = up(j) => i = j
    BY <1>1
  <2> HIDE DEF up
  <2>8. \A i, j \in 1..(Len(s) - 1) : t[i] = t[j] => i = j
    BY <1>2, <2>6, <2>7 DEF IsInjective
  <2>9. \A i \in 1..(Len(s) - 1) : t[i] # z
    BY <1>2, <2>5, <2>6 DEF IsInjective
  <2>10. IsInjective(t)
    BY <1>2, <2>5, <2>8 DEF IsInjective
  <2>11. z \notin Range(t)
    BY <1>1, <2>5, <2>9, RangeIs
  <2> QED
    BY <2>10, <2>11 DEF t
<1> QED
  BY <1>3, <1>4

\* Taking z out leaves any other x ahead of y.
LEMMA LeadsWithout ==
  ASSUME NEW S, NEW s \in Seq(S), NEW z, NEW x, NEW y, Leads(s, x, y), x # z
  PROVE  Leads(Without(s, z), x, y)
<1> DEFINE t == Without(s, z)
<1>1. /\ t \in Seq(S) /\ Len(s) \in Nat
      /\ \/ t = s
         \/ \E k \in 1..Len(s) :
              /\ s[k] = z /\ Len(t) = Len(s) - 1
              /\ \A i \in 1..(Len(s) - 1) : t[i] = IF i < k THEN s[i] ELSE s[i + 1]
  BY WithoutIs
<1> HIDE DEF t
<1>2. CASE t = s
  BY <1>2 DEF t
<1>3. CASE t # s
  <2>1. PICK k \in 1..Len(s) :
          /\ s[k] = z /\ Len(t) = Len(s) - 1
          /\ \A i \in 1..(Len(s) - 1) : t[i] = IF i < k THEN s[i] ELSE s[i + 1]
    BY <1>1, <1>3
  <2>2. DOMAIN s = 1..Len(s) /\ DOMAIN t = 1..(Len(s) - 1)
    BY <1>1, <2>1
  <2>3. ASSUME NEW i \in 1..(Len(s) - 1), t[i] = y PROVE \E j \in 1..(i - 1) : t[j] = x
    <3> DEFINE u == IF i < k THEN i ELSE i + 1
    <3>1. u \in 1..Len(s) /\ s[u] = y /\ (i < k => u = i) /\ (~ (i < k) => u = i + 1)
      BY <1>1, <2>1, <2>3
    <3> HIDE DEF u
    <3>2. PICK j \in 1..(u - 1) : s[j] = x
      BY <2>2, <3>1 DEF Leads
    <3>3. j # k /\ j \in Nat /\ k \in Nat
      BY <2>1, <3>2
    <3>4. CASE j < k
      <4>1. j \in 1..(i - 1) /\ j \in 1..(Len(s) - 1)
        BY <1>1, <2>1, <3>1, <3>2, <3>4
      <4> QED
        BY <2>1, <3>2, <3>4, <4>1
    <3>5. CASE j > k
      <4>1. j - 1 \in 1..(i - 1) /\ j - 1 \in 1..(Len(s) - 1) /\ ~ (j - 1 < k) /\ (j - 1) + 1 = j
        BY <1>1, <2>1, <3>1, <3>2, <3>5
      <4> QED
        BY <2>1, <3>2, <4>1
    <3> QED
      BY <3>3, <3>4, <3>5
  <2> QED
    BY <2>2, <2>3 DEF Leads, t
<1> QED
  BY <1>2, <1>3

-----------------------------------------------------------------------------
(* The target's streams                                                    *)

\* A nonempty set of naturals has a least element.
LEMMA LeastOf ==
  ASSUME NEW T \in SUBSET Nat, T # {}
  PROVE  \E x \in T : \A y \in T : x <= y
<1> DEFINE R == OpToRel(<, Nat)
<1>1. IsWellFoundedOn(R, Nat)
  BY NatLessThanWellFounded
<1>2. \A x, y \in Nat : y < x => <<y, x>> \in R
  BY DEF OpToRel
<1> HIDE DEF R
<1>3. PICK x \in T : \A y \in T : ~ (<<y, x>> \in R)
  BY <1>1, WFMin
<1>4. \A y \in T : ~ (y < x)
  BY <1>2, <1>3, Zenon
<1> QED
  BY <1>4

\* A nonempty set of naturals up to k has a greatest element, which is its Max.
LEMMA MaxIs ==
  ASSUME NEW k \in Nat, NEW S \in SUBSET (0..k), S # {}
  PROVE  Max(S) \in S /\ \A y \in S : y <= Max(S)
<1> DEFINE T == {m \in Nat : k - m \in S}
<1>1. T \in SUBSET Nat
  OBVIOUS
<1>2. T # {}
  <2>1. PICK y \in S : TRUE
    OBVIOUS
  <2>2. k - y \in Nat /\ k - (k - y) = y
    BY <2>1
  <2> QED
    BY <2>1, <2>2
<1>3. PICK t \in T : \A y \in T : t <= y
  BY <1>1, <1>2, LeastOf
<1>4. ASSUME NEW y \in S PROVE k - t >= y
  <2>1. k - y \in Nat /\ k - (k - y) = y /\ y \in Nat
    OBVIOUS
  <2>2. k - y \in T
    BY <2>1
  <2> QED
    BY <1>3, <2>1, <2>2
<1>5. k - t \in S
  BY <1>3
<1>6. Max(S) \in S /\ \A y \in S : Max(S) >= y
  BY <1>4, <1>5 DEF Max
<1> QED
  BY <1>6

\* The frontier is not behind the watermark, and everything up to it is done.
LEMMA FrontierIs ==
  ASSUME NEW k \in Nat, NEW E \in Seq(Entry), NEW m \in 0..k,
         \A e \in Range(E) : e.seq \in 1..k /\ (e.seq <= m => e.done)
  PROVE  LET f == Frontier([entries |-> E, mark |-> m])
         IN  f \in 0..k /\ f >= m /\ \A e \in Range(E) : e.seq <= f => e.done
<1> DEFINE above == {e \in Range(E) : e.seq > m}
           Clear(n) == \A e \in above : e.seq <= n => e.done
           S == {m} \cup {n \in {e.seq : e \in above} : Clear(n)}
           f == Frontier([entries |-> E, mark |-> m])
<1>1. f = Max(S)
  BY DEF Frontier
<1>2. S \in SUBSET (0..k) /\ S # {} /\ m \in S
  OBVIOUS
<1>3. \A n \in S : n = m \/ Clear(n)
  OBVIOUS
<1> HIDE DEF S
<1>4. f \in S /\ m <= f
  BY <1>1, <1>2, MaxIs
<1> HIDE DEF f
<1>5. f \in 0..k /\ f \in Nat /\ m \in Nat
  BY <1>2, <1>4
<1>6. ASSUME NEW e \in Range(E), e.seq <= f PROVE e.done
  <2>1. CASE e.seq <= m
    BY <2>1
  <2>2. CASE e.seq > m
    BY <1>3, <1>4, <1>5, <1>6, <2>2
  <2> QED
    BY <2>1, <2>2
<1> QED
  BY <1>4, <1>5, <1>6 DEF f

\* A stream document, field by field.
LEMMA DocTyped ==
  ASSUME StreamOK, NEW s \in Streams
  PROVE  /\ log[s].entries \in Seq(Entry) /\ log[s].mark \in 0..seq /\ log[s].mark \in Nat
         /\ log[s] = [entries |-> log[s].entries, mark |-> log[s].mark]
         /\ seq \in Nat
<1>1. log[s] \in [entries : Seq(Entry), mark : 0..seq] /\ seq \in Nat
  BY DEF StreamOK
<1> QED
  BY <1>1

\* The streams after one document's entries became F.
LEMMA EntriesBecome ==
  ASSUME StreamOK, NEW a \in Streams, NEW F \in Seq(Entry),
         log' = [log EXCEPT ![a].entries = F]
  PROVE  /\ log' \in [Streams -> [entries : Seq(Entry), mark : 0..seq]]
         /\ \A s \in Streams : log'[s].mark = log[s].mark
         /\ log'[a].entries = F
         /\ \A s \in Streams : s # a => log'[s] = log[s]
<1>1. log \in [Streams -> [entries : Seq(Entry), mark : 0..seq]]
  BY DEF StreamOK
<1> DEFINE d == [log[a] EXCEPT !.entries = F]
<1>2. log' = [log EXCEPT ![a] = d]
  OBVIOUS
<1>3. log[a] \in [entries : Seq(Entry), mark : 0..seq]
  BY <1>1
<1>4. d \in [entries : Seq(Entry), mark : 0..seq] /\ d.entries = F /\ d.mark = log[a].mark
  BY <1>3
<1> HIDE DEF d
<1> QED
  BY <1>1, <1>2, <1>4

\* What one admission does to the streams, and what its answer means.
LEMMA AdmitKeeps ==
  ASSUME StreamOK, NEW id \in Ids, Admit(id)
  PROVE  /\ StreamOK' /\ denied' = denied
         /\ \A x \in Ids : Logged(x) => Logged(x)'
         /\ \A x \in Ids : Logged(x)' => Logged(x) \/ (x = id /\ Verdict(id) = "ok")
         /\ Verdict(id) \in {"ok", "duplicate"} => Logged(id)'
         /\ \A s \in Streams : log'[s].mark = log[s].mark /\ Entries(s) \subseteq Entries(s)'
         /\ \/ log' = log
            \/ /\ Verdict(id) = "ok"
               /\ \E n \in Nat :
                    log' = [log EXCEPT ![StreamOf[id]].entries =
                              Append(@, [id |-> id, seq |-> n, done |-> FALSE])]
<1>1. CASE Verdict(id) # "ok"
  <2>1. UNCHANGED <<log, seq, denied>>
    BY <1>1 DEF Admit
  <2>2. StreamOK' /\ (\A x \in Ids : Logged(x)' <=> Logged(x))
        /\ \A s \in Streams : log'[s] = log[s] /\ Entries(s)' = Entries(s)
    BY <2>1 DEF StreamOK, MarkSound, Entries, Logged
  <2>3. Verdict(id) = "duplicate" => Logged(id)
    BY DEF Verdict, Duplicate, Logged
  <2> QED
    BY <1>1, <2>1, <2>2, <2>3
<1>2. CASE Verdict(id) = "ok"
  <2> DEFINE a == StreamOf[id]
             n == [id |-> id, seq |-> seq + 1, done |-> FALSE]
             E == log[a].entries
             F == Append(E, n)
  <2>1. /\ log' = [log EXCEPT ![a].entries = F] /\ seq' = seq + 1 /\ denied' = denied
    BY <1>2 DEF Admit
  <2>2. a \in Streams /\ seq \in Nat /\ E \in Seq(Entry)
    BY DeliveryAssumption, DocTyped
  <2>4. ~ Duplicate(id) /\ id \notin Refusable
    BY <1>2 DEF Verdict
  <2>7. /\ n.id = id /\ n.seq = seq + 1 /\ n.done = FALSE /\ n \in Entry
    BY <2>2 DEF Entry
  <2>20. Entries(a) = Range(E)
    BY DEF Entries
  <2> HIDE DEF n, E
  <2>3. F \in Seq(Entry) /\ Range(F) = Range(E) \cup {n}
    BY <2>2, <2>7, AppendIs
  <2> HIDE DEF F, a
  <2>5. /\ log' \in [Streams -> [entries : Seq(Entry), mark : 0..seq]]
        /\ \A s \in Streams : log'[s].mark = log[s].mark
        /\ log'[a].entries = F
        /\ \A s \in Streams : s # a => log'[s] = log[s]
    BY <2>1, <2>2, <2>3, EntriesBecome
  <2>6. /\ Entries(a)' = Entries(a) \cup {n}
        /\ \A s \in Streams : s # a => Entries(s)' = Entries(s)
    BY <2>3, <2>5, <2>20 DEF Entries
  <2> DEFINE Old == \A s \in Streams : \A e \in Entries(s) : e.seq \in 1..seq
  <2>8. Old
    BY DEF StreamOK
  <2>9. seq' \in Nat /\ denied' \in BOOLEAN
        /\ log' \in [Streams -> [entries : Seq(Entry), mark : 0..seq']]
    <3>1. 0..seq \subseteq 0..seq' /\ seq' \in Nat
      BY <2>1, <2>2
    <3>2. [entries : Seq(Entry), mark : 0..seq] \subseteq [entries : Seq(Entry), mark : 0..seq']
      BY <3>1
    <3> QED
      BY <2>1, <2>5, <3>1, <3>2 DEF StreamOK
  <2>10. ASSUME NEW s \in Streams, NEW e \in Entries(s)'
         PROVE  e.seq \in 1..seq' /\ StreamOf[e.id] = s /\ e.id \notin Refusable
    <3>1. CASE e = n
      <4>1. s = a
        BY <2>6, <2>8, <2>2, <2>7, <3>1
      <4> QED
        BY <2>1, <2>2, <2>4, <2>7, <3>1, <4>1 DEF a
    <3>2. CASE e \in Entries(s)
      BY <2>1, <2>2, <3>2 DEF StreamOK
    <3> QED
      BY <2>6, <3>1, <3>2
  <2>11. ASSUME NEW s \in Streams, NEW t \in Streams, NEW e \in Entries(s)', NEW x \in Entries(t)',
                e.seq = x.seq
         PROVE  e = x
    <3>1. (e \in Entries(s) \/ e = n) /\ (x \in Entries(t) \/ x = n)
      BY <2>6
    <3>2. e \in Entries(s) => e.seq # seq + 1
      BY <2>2, <2>8
    <3>3. x \in Entries(t) => x.seq # seq + 1
      BY <2>2, <2>8
    <3> QED
      BY <2>7, <2>11, <3>1, <3>2, <3>3 DEF StreamOK
  <2>12. ASSUME NEW s \in Streams, NEW e \in Entries(s)', NEW x \in Entries(s)',
                e.id = x.id, e.seq > log'[s].mark, x.seq > log'[s].mark
         PROVE  e = x
    <3>1. CASE s # a
      BY <2>5, <2>6, <2>12, <3>1 DEF StreamOK
    <3>2. CASE s = a
      <4>1. \A z \in Entries(a) : z.id = id => ~ (z.seq > log[a].mark)
        BY <2>4 DEF Duplicate, a
      <4>2. (e \in Entries(a) \/ e = n) /\ (x \in Entries(a) \/ x = n)
        BY <2>6, <3>2
      <4>3. e.seq > log[a].mark /\ x.seq > log[a].mark
        BY <2>2, <2>5, <2>12, <3>2
      <4>4. CASE e \in Entries(a) /\ x \in Entries(a)
        BY <2>2, <2>12, <4>3, <4>4 DEF StreamOK
      <4>5. CASE e = n \/ x = n
        BY <2>7, <2>12, <4>1, <4>2, <4>3, <4>5
      <4> QED
        BY <4>2, <4>4, <4>5
    <3> QED
      BY <3>1, <3>2
  <2>13. MarkSound'
    <3>1. ASSUME NEW s \in Streams, NEW e \in Entries(s)', e.seq <= log'[s].mark
          PROVE  e.done
      <4>1. log[s].mark \in 0..seq /\ e.seq <= log[s].mark
        BY <2>5, <3>1 DEF StreamOK
      <4>2. e # n
        BY <2>2, <2>7, <4>1
      <4>3. e \in Entries(s)
        BY <2>6, <4>2
      <4> QED
        BY <4>1, <4>3 DEF StreamOK, MarkSound
    <3> QED
      BY <3>1 DEF MarkSound
  <2>14. StreamOK'
    BY <2>9, <2>10, <2>11, <2>12, <2>13 DEF StreamOK, Entry
  <2>15. \A x \in Ids : StreamOf[x] \in Streams
    BY DeliveryAssumption
  <2>16. \A x \in Ids : Logged(x) => Logged(x)'
    BY <2>6, <2>15 DEF Logged, a
  <2>17. \A x \in Ids : Logged(x)' => Logged(x) \/ x = id
    BY <2>6, <2>7, <2>15 DEF Logged, a
  <2>18. Logged(id)'
    BY <2>6, <2>7 DEF Logged, a
  <2>19. \A s \in Streams : log'[s].mark = log[s].mark /\ Entries(s) \subseteq Entries(s)'
    BY <2>5, <2>6
  <2>21. \E k \in Nat : log' = [log EXCEPT ![StreamOf[id]].entries =
                              Append(@, [id |-> id, seq |-> k, done |-> FALSE])]
    <3>1. seq + 1 \in Nat
      BY <2>2
    <3> QED
      BY <2>1, <3>1 DEF F, n, E, a
  <2> QED
    BY <1>2, <2>1, <2>2, <2>14, <2>16, <2>17, <2>18, <2>19, <2>21
<1> QED
  BY <1>1, <1>2

\* What the commit of a wave does to one stream document: it marks entries done
\* and moves the watermark forward, up to the first that is not.
LEMMA CommitDoc ==
  ASSUME StreamOK, NEW kept \in SUBSET staged, CommitWave(kept), NEW s \in Streams
  PROVE  /\ log'[s].entries \in Seq(Entry) /\ log'[s].mark \in 0..seq /\ log'[s].mark >= log[s].mark
         /\ Len(log'[s].entries) = Len(log[s].entries)
         /\ \A i \in 1..Len(log[s].entries) :
              /\ log'[s].entries[i].id = log[s].entries[i].id
              /\ log'[s].entries[i].seq = log[s].entries[i].seq
              /\ log'[s].entries[i].done <=>
                   log[s].entries[i].done \/ \E w \in kept : w.seq = log[s].entries[i].seq
         /\ \A e \in Range(log'[s].entries) : e.seq <= log'[s].mark => e.done
<1> DEFINE E == log[s].entries
           m == log[s].mark
           Mk(e) == [e EXCEPT !.done = @ \/ \E w \in kept : w.seq = e.seq]
           F == [i \in DOMAIN E |-> Mk(E[i])]
           f == Frontier([entries |-> F, mark |-> m])
<1>1. /\ E \in Seq(Entry) /\ m \in 0..seq /\ m \in Nat /\ seq \in Nat
      /\ log[s] = [entries |-> E, mark |-> m]
  BY DocTyped
<1>2. \A e \in Range(E) : e.seq \in 1..seq /\ (e.seq <= m => e.done)
  BY DEF StreamOK, MarkSound, Entries
<1>3. log'[s] = [entries |-> F, mark |-> f]
  BY DEF CommitWave
<1> HIDE DEF E, m
<1>4. ASSUME NEW e \in Entry
      PROVE  /\ Mk(e) \in Entry /\ Mk(e).id = e.id /\ Mk(e).seq = e.seq
             /\ Mk(e).done <=> e.done \/ \E w \in kept : w.seq = e.seq
  BY DEF Entry
<1> HIDE DEF Mk
<1>5. /\ Len(E) \in Nat /\ DOMAIN E = 1..Len(E) /\ \A i \in 1..Len(E) : E[i] \in Entry
  BY <1>1
<1>6. F \in Seq(Entry) /\ Len(F) = Len(E) /\ \A i \in 1..Len(E) : F[i] = Mk(E[i])
  BY <1>4, <1>5
<1> HIDE DEF F
<1>7. ASSUME NEW e \in Range(F) PROVE e.seq \in 1..seq /\ (e.seq <= m => e.done)
  <2>1. PICK i \in 1..Len(E) : e = Mk(E[i])
    BY <1>6, RangeIs
  <2>2. E[i] \in Range(E)
    BY <1>1, RangeIs
  <2> QED
    BY <1>2, <1>4, <1>5, <2>1, <2>2
<1>8. f \in 0..seq /\ f >= m /\ \A e \in Range(F) : e.seq <= f => e.done
  BY <1>1, <1>6, <1>7, FrontierIs
<1> HIDE DEF f
<1>9. log'[s].entries = F /\ log'[s].mark = f
  BY <1>3
<1> QED
  BY <1>4, <1>5, <1>6, <1>8, <1>9 DEF E, m

\* An entry after a commit is one from before it, marked or not.
LEMMA CommitEntries ==
  ASSUME StreamOK, NEW kept \in SUBSET staged, CommitWave(kept), NEW s \in Streams
  PROVE  /\ \A e \in Entries(s)' : e \in Entry /\ \E x \in Entries(s) :
              /\ x \in Entry /\ x.id = e.id /\ x.seq = e.seq
              /\ e.done <=> x.done \/ \E w \in kept : w.seq = x.seq
         /\ \A x \in Entries(s) : x \in Entry /\ \E e \in Entries(s)' :
              /\ e \in Entry /\ x.id = e.id /\ x.seq = e.seq
              /\ e.done <=> x.done \/ \E w \in kept : w.seq = x.seq
<1> DEFINE E == log[s].entries
           F == log'[s].entries
<1>1. E \in Seq(Entry)
  BY DocTyped
<1>2. /\ F \in Seq(Entry) /\ Len(F) = Len(E)
      /\ \A i \in 1..Len(E) :
           /\ F[i].id = E[i].id /\ F[i].seq = E[i].seq
           /\ F[i].done <=> E[i].done \/ \E w \in kept : w.seq = E[i].seq
  BY CommitDoc
<1>3. Entries(s) = Range(E) /\ Entries(s)' = Range(F)
  BY DEF Entries
<1> HIDE DEF E, F
<1>4. \A i \in 1..Len(E) : E[i] \in Entry /\ F[i] \in Entry
  BY <1>1, <1>2
<1>5. ASSUME NEW e \in Range(F)
      PROVE  e \in Entry /\ \E x \in Range(E) :
               /\ x \in Entry /\ x.id = e.id /\ x.seq = e.seq
               /\ e.done <=> x.done \/ \E w \in kept : w.seq = x.seq
  <2>1. PICK i \in 1..Len(E) : F[i] = e
    BY <1>2, RangeIs
  <2>2. E[i] \in Range(E)
    BY <1>1, RangeIs
  <2> QED
    BY <1>2, <1>4, <2>1, <2>2
<1>6. ASSUME NEW x \in Range(E)
      PROVE  x \in Entry /\ \E e \in Range(F) :
               /\ e \in Entry /\ x.id = e.id /\ x.seq = e.seq
               /\ e.done <=> x.done \/ \E w \in kept : w.seq = x.seq
  <2>1. PICK i \in 1..Len(E) : E[i] = x
    BY <1>1, RangeIs
  <2>2. F[i] \in Range(F)
    BY <1>2, RangeIs
  <2> QED
    BY <1>2, <1>4, <2>1, <2>2
<1> QED
  BY <1>3, <1>5, <1>6

\* What a commit does to the streams: they hold the same events.
LEMMA CommitKeeps ==
  ASSUME StreamOK, NEW kept \in SUBSET staged, CommitWave(kept)
  PROVE  StreamOK' /\ \A x \in Ids : Logged(x)' <=> Logged(x)
<1>1. seq' = seq + 1 /\ denied' = denied /\ seq \in Nat /\ denied \in BOOLEAN
  BY DEF CommitWave, StreamOK
<1>2. log' \in [Streams -> [entries : Seq(Entry), mark : 0..seq']]
  <2>1. /\ DOMAIN log' = Streams
        /\ \A s \in Streams : log'[s] = [entries |-> log'[s].entries, mark |-> log'[s].mark]
    BY DEF CommitWave
  <2>2. ASSUME NEW s \in Streams PROVE log'[s].entries \in Seq(Entry) /\ log'[s].mark \in 0..seq'
    <3>1. log'[s].entries \in Seq(Entry) /\ log'[s].mark \in 0..seq
      BY CommitDoc
    <3> QED
      BY <1>1, <3>1
  <2>3. \A s \in Streams : log'[s] \in [entries : Seq(Entry), mark : 0..seq']
    <3>1. SUFFICES ASSUME NEW s \in Streams PROVE log'[s] \in [entries : Seq(Entry), mark : 0..seq']
      OBVIOUS
    <3> DEFINE F == log'[s].entries
               k == log'[s].mark
    <3>2. log'[s] = [entries |-> F, mark |-> k] /\ F \in Seq(Entry) /\ k \in 0..seq'
      BY <2>1, <2>2
    <3> HIDE DEF F, k
    <3> QED
      BY <3>2
  <2>4. log' = [s \in Streams |-> log'[s]]
    BY <2>1 DEF CommitWave
  <2> QED
    BY <2>3, <2>4
<1>3. ASSUME NEW s \in Streams, NEW e \in Entries(s)'
      PROVE  e.seq \in 1..seq' /\ StreamOf[e.id] = s /\ e.id \notin Refusable
  <2>1. PICK x \in Entries(s) : x.id = e.id /\ x.seq = e.seq
    BY CommitEntries
  <2> QED
    BY <1>1, <2>1 DEF StreamOK
<1>4. ASSUME NEW s \in Streams, NEW t \in Streams, NEW e \in Entries(s)', NEW f \in Entries(t)',
             e.seq = f.seq
      PROVE  e = f
  <2>1. PICK x \in Entries(s) : /\ x \in Entry /\ x.id = e.id /\ x.seq = e.seq
                                /\ e.done <=> x.done \/ \E w \in kept : w.seq = x.seq
    BY CommitEntries
  <2>2. PICK y \in Entries(t) : /\ y \in Entry /\ y.id = f.id /\ y.seq = f.seq
                                /\ f.done <=> y.done \/ \E w \in kept : w.seq = y.seq
    BY CommitEntries
  <2>3. x = y
    BY <1>4, <2>1, <2>2 DEF StreamOK
  <2>4. e \in Entry /\ f \in Entry
    BY CommitEntries
  <2>5. e.id = f.id /\ e.seq = f.seq /\ (e.done <=> f.done)
    BY <2>1, <2>2, <2>3
  <2> QED
    BY <2>4, <2>5 DEF Entry
<1>5. ASSUME NEW s \in Streams, NEW e \in Entries(s)', NEW f \in Entries(s)',
             e.id = f.id, e.seq > log'[s].mark, f.seq > log'[s].mark
      PROVE  e = f
  <2>1. PICK x \in Entries(s) : x \in Entry /\ x.id = e.id /\ x.seq = e.seq
    BY CommitEntries
  <2>2. PICK y \in Entries(s) : y \in Entry /\ y.id = f.id /\ y.seq = f.seq
    BY CommitEntries
  <2>3. log'[s].mark >= log[s].mark /\ log'[s].mark \in 0..seq /\ log[s].mark \in Nat
    BY CommitDoc, DocTyped
  <2>4. e.seq > log[s].mark /\ f.seq > log[s].mark
    BY <1>1, <1>5, <2>1, <2>2, <2>3 DEF Entry
  <2>5. x = y
    BY <1>5, <2>1, <2>2, <2>4 DEF StreamOK
  <2> QED
    BY <1>4, <2>1, <2>2, <2>5
<1>6. MarkSound'
  BY CommitDoc DEF MarkSound, Entries
<1>7. \A x \in Ids : Logged(x)' <=> Logged(x)
  <2>1. SUFFICES ASSUME NEW x \in Ids PROVE Logged(x)' <=> Logged(x)
    OBVIOUS
  <2>2. StreamOf[x] \in Streams
    BY DeliveryAssumption
  <2>3. Logged(x)' => Logged(x)
    BY <2>2, CommitEntries DEF Logged
  <2>4. Logged(x) => Logged(x)'
    BY <2>2, CommitEntries DEF Logged
  <2> QED
    BY <2>3, <2>4
<1> QED
  BY <1>1, <1>2, <1>3, <1>4, <1>5, <1>6, <1>7 DEF StreamOK

-----------------------------------------------------------------------------
(* Who changes what                                                        *)

\* An append that is before the target.
Sent(id) ==
  \/ attempt.at = "sent" /\ attempt.answer = "none" /\ id = attempt.id
  \/ id \in Ids /\ late[id] > 0
  \/ \E d \in {"own", "left"} : drains[d].at = "send" /\ id = Head(drains[d].left)

\* The streams change when an append is admitted and when a wave commits, the
\* open wave in the target's loop only.
LEMMA StreamMoves ==
  ASSUME [Next]_vars
  PROVE  \/ UNCHANGED <<log, seq, serving>> /\ denied' \in {denied, ~ denied}
         \/ UNCHANGED stream /\ ((\E e \in Pending : Drain(e.seq)) \/ TargetParks)
         \/ \E id : Sent(id) /\ Admit(id) /\ UNCHANGED serving
         \/ \E kept \in SUBSET staged : CommitWave(kept)
<1>1. CASE ClientStep
  BY <1>1 DEF ClientStep, Fire, Send, Push, Save, ServerAnswers, Settle, ConnectionFails, Replace,
              stream, Sent
<1>2. CASE OutboxStep
  BY <1>2 DEF OutboxStep, EmitRow, SendRow, WriteNotice, DeleteRow, DrainStops, StartDrain,
              SourceParks, stream, Sent
<1>3. CASE TargetStep
  BY <1>3 DEF TargetStep, Drain, LateApplies, AclChanges, TargetParks, stream, Sent
<1>4. CASE UNCHANGED vars
  BY <1>4 DEF vars, stream
<1> QED
  BY <1>1, <1>2, <1>3, <1>4 DEF Next

\* The client's side changes in its own steps.
LEMMA ClientMoves ==
  ASSUME [Next]_vars
  PROVE  UNCHANGED client \/ ClientStep
<1>1. CASE OutboxStep
  BY <1>1 DEF OutboxStep, EmitRow, SendRow, WriteNotice, DeleteRow, DrainStops, StartDrain,
              SourceParks
<1>2. CASE TargetStep
  BY <1>2 DEF TargetStep, Drain, CommitWave, LateApplies, AclChanges, TargetParks
<1>3. CASE UNCHANGED vars
  BY <1>3 DEF vars
<1> QED
  BY <1>1, <1>2, <1>3 DEF Next

\* The outbox changes in its own steps.
LEMMA OutboxMoves ==
  ASSUME [Next]_vars
  PROVE  UNCHANGED outbox \/ OutboxStep
<1>1. CASE ClientStep
  BY <1>1 DEF ClientStep, Fire, Send, Push, Save, ServerAnswers, Settle, ConnectionFails, Replace
<1>2. CASE TargetStep
  BY <1>2 DEF TargetStep, Drain, CommitWave, LateApplies, AclChanges, TargetParks
<1>3. CASE UNCHANGED vars
  BY <1>3 DEF vars
<1> QED
  BY <1>1, <1>2, <1>3 DEF Next

\* The client's and the outbox's steps keep out of each other's state.
LEMMA Apart ==
  /\ ClientStep => UNCHANGED outbox
  /\ OutboxStep => UNCHANGED client
  /\ TargetStep => UNCHANGED <<client, outbox>>
<1>1. ASSUME ClientStep PROVE UNCHANGED outbox
  BY <1>1 DEF ClientStep, Fire, Send, Push, Save, ServerAnswers, Settle, ConnectionFails, Replace
<1>2. ASSUME OutboxStep PROVE UNCHANGED client
  BY <1>2 DEF OutboxStep, EmitRow, SendRow, WriteNotice, DeleteRow, DrainStops, StartDrain,
              SourceParks
<1>3. ASSUME TargetStep PROVE UNCHANGED <<client, outbox>>
  BY <1>3 DEF TargetStep, Drain, CommitWave, LateApplies, AclChanges, TargetParks
<1> QED
  BY <1>1, <1>2, <1>3

\* Attempts without answer come from a failed connection and a stopped drain,
\* and go when the target applies them.
LEMMA LateMoves ==
  ASSUME [Next]_vars, late \in [Ids -> Nat]
  PROVE  \/ UNCHANGED late
         \/ \E id \in Ids : late[id] > 0 /\ late' = [late EXCEPT ![id] = @ - 1]
         \/ \E id : Sent(id) /\ late' = [late EXCEPT ![id] = @ + 1]
<1>1. CASE ClientStep
  BY <1>1 DEF ClientStep, Fire, Send, Push, Save, ServerAnswers, Settle, ConnectionFails, Replace,
              LosesAnswer, Sent
<1>2. CASE OutboxStep
  BY <1>2 DEF OutboxStep, EmitRow, SendRow, WriteNotice, DeleteRow, DrainStops, StartDrain,
              SourceParks, LosesAnswer, Sent
<1>3. CASE TargetStep
  BY <1>3 DEF TargetStep, Drain, CommitWave, LateApplies, AclChanges, TargetParks
<1>4. CASE UNCHANGED vars
  BY <1>4 DEF vars
<1> QED
  BY <1>1, <1>2, <1>3, <1>4 DEF Next

\* Faults only run out.
LEMMA FaultsKeep ==
  ASSUME [Next]_vars, faults \in Nat
  PROVE  faults' \in Nat
<1>1. ASSUME Fault PROVE faults' \in Nat
  BY <1>1 DEF Fault
<1>2. CASE ClientStep
  BY <1>1, <1>2 DEF ClientStep, Fire, Send, Push, Save, ServerAnswers, Settle, ConnectionFails, Replace
<1>3. CASE OutboxStep
  BY <1>1, <1>3 DEF OutboxStep, EmitRow, SendRow, WriteNotice, DeleteRow, DrainStops, StartDrain,
              SourceParks
<1>4. CASE TargetStep
  BY <1>1, <1>4 DEF TargetStep, Drain, CommitWave, LateApplies, AclChanges, TargetParks
<1>5. CASE UNCHANGED vars
  BY <1>5 DEF vars
<1> QED
  BY <1>2, <1>3, <1>4, <1>5 DEF Next

-----------------------------------------------------------------------------
(* Consequences happen once                                                *)

\* The entry that a staged event stands for.
StandsFor(w, e) ==
  /\ e \in Entries(StreamOf[w.id])
  /\ e.id = w.id /\ e.seq = w.seq /\ ~ e.done /\ e.seq > log[StreamOf[w.id]].mark

\* An entry of a stream is an entry.
LEMMA EntryTyped ==
  ASSUME StreamOK, NEW s \in Streams, NEW e \in Entries(s)
  PROVE  e \in Entry /\ e.id \in Ids /\ e.seq \in Nat /\ e.done \in BOOLEAN
<1> DEFINE E == log[s].entries
<1>1. E \in Seq(Entry) /\ e \in Range(E)
  BY DocTyped DEF Entries
<1> HIDE DEF E
<1>2. e \in Entry
  BY <1>1, RangeIs
<1> QED
  BY <1>2 DEF Entry

\* An event is in the open wave once at most.
LEMMA StagedOnce ==
  ASSUME StreamOK, ServingOK, NEW v \in staged, NEW w \in staged, v.id = w.id
  PROVE  v = w
<1>1. v.id \in Ids /\ w.id \in Ids /\ StreamOf[w.id] \in Streams
  BY DeliveryAssumption DEF ServingOK
<1>2. PICK e : StandsFor(v, e)
  BY DEF ServingOK, StandsFor
<1>3. PICK x : StandsFor(w, x)
  BY DEF ServingOK, StandsFor
<1>4. e = x
  BY <1>1, <1>2, <1>3 DEF StandsFor, StreamOK
<1> QED
  BY <1>2, <1>3, <1>4 DEF StandsFor, ServingOK

\* A step that appends at most leaves the open wave as it is.
LEMMA ServingStays ==
  ASSUME ServingOK, UNCHANGED serving,
         \A s \in Streams : log'[s].mark = log[s].mark /\ Entries(s) \subseteq Entries(s)'
  PROVE  ServingOK'
<1>1. \A id \in Ids : StreamOf[id] \in Streams
  BY DeliveryAssumption
<1>2. effects' = effects /\ staged' = staged
  BY DEF serving
<1>3. \A w \in staged : w.id \in Ids
  BY DEF ServingOK
<1> QED
  BY <1>1, <1>2, <1>3 DEF ServingOK

\* A pass of the drain takes in entries whose consequences have not happened.
LEMMA DrainKeeps ==
  ASSUME StreamOK, ServingOK, NEW n, Drain(n)
  PROVE  ServingOK'
<1> DEFINE W(e) == [seq |-> e.seq, id |-> e.id, run |-> ~ Skips(e)]
           New == {x \in Pending : x.seq <= n /\ x.seq \notin InFlight}
<1>1. /\ staged' = staged \cup {W(e) : e \in New}
      /\ log' = log /\ effects' = effects
  BY DEF Drain, stream
<1>2. \A s : Entries(s)' = Entries(s)
  BY <1>1 DEF Entries
<1>3. ASSUME NEW e \in New
      PROVE  /\ StreamOf[e.id] \in Streams /\ e \in Entries(StreamOf[e.id]) /\ ~ e.done
             /\ e.seq > log[StreamOf[e.id]].mark /\ e.id \in Ids /\ e.seq \in Nat
             /\ \A w \in staged : w.seq # e.seq
  <2>1. PICK s \in Streams : e \in Entries(s)
    BY DEF Pending
  <2>2. StreamOf[e.id] = s
    BY <2>1 DEF StreamOK
  <2>3. e.id \in Ids /\ e.seq \in Nat
    BY <2>1, EntryTyped
  <2> QED
    BY <2>1, <2>2, <2>3 DEF Pending, InFlight
<1>4. ASSUME NEW e \in New
      PROVE  W(e).id = e.id /\ W(e).seq = e.seq /\ W(e).run = ~ Skips(e)
             /\ W(e) \in [seq : Nat, id : Ids, run : BOOLEAN]
  <2>1. Skips(e) \in BOOLEAN
    BY DEF Skips
  <2> QED
    BY <1>3, <2>1
<1>5. ASSUME NEW e \in New, ~ Skips(e) PROVE effects[e.id] = 0
  <2>1. SUFFICES ASSUME effects[e.id] = 1 PROVE FALSE
    BY <1>3 DEF ServingOK
  <2>2. PICK x \in Entries(StreamOf[e.id]) : x.id = e.id /\ x.done
    BY <1>3, <2>1 DEF ServingOK
  <2>3. x.seq # e.seq
    BY <1>3, <2>2 DEF StreamOK
  <2> QED
    BY <1>5, <2>2, <2>3 DEF Skips
<1>6. \A w \in staged' : w \in staged \/ \E e \in New : w = W(e)
  BY <1>1
<1> HIDE DEF W, New
<1>7. staged' \subseteq [seq : Nat, id : Ids, run : BOOLEAN]
  BY <1>4, <1>6 DEF ServingOK
<1>8. ASSUME NEW v \in staged', NEW w \in staged', v.seq = w.seq PROVE v = w
  <2>1. CASE v \in staged /\ w \in staged
    BY <1>8, <2>1 DEF ServingOK
  <2>2. CASE v \in staged /\ \E e \in New : w = W(e)
    BY <1>3, <1>4, <1>8, <2>2
  <2>3. CASE w \in staged /\ \E e \in New : v = W(e)
    BY <1>3, <1>4, <1>8, <2>3
  <2>4. CASE (\E e \in New : v = W(e)) /\ (\E e \in New : w = W(e))
    <3>1. PICK e \in New, x \in New : v = W(e) /\ w = W(x)
      BY <2>4
    <3>2. e.seq = x.seq
      BY <1>4, <1>8, <3>1
    <3>3. e = x
      BY <1>3, <3>2 DEF StreamOK
    <3> QED
      BY <3>1, <3>3
  <2> QED
    BY <1>6, <2>1, <2>2, <2>3, <2>4
<1>9. ASSUME NEW w \in staged'
      PROVE  /\ \E e \in Entries(StreamOf[w.id]) :
                  e.id = w.id /\ e.seq = w.seq /\ ~ e.done /\ e.seq > log[StreamOf[w.id]].mark
             /\ w.run => effects[w.id] = 0
  <2>1. CASE w \in staged
    BY <2>1 DEF ServingOK
  <2>2. CASE \E e \in New : w = W(e)
    <3>1. PICK e \in New : w = W(e)
      BY <2>2
    <3>2. w.id = e.id /\ w.seq = e.seq
      BY <1>4, <3>1
    <3>3. w.run => ~ Skips(e)
      BY <1>4, <3>1
    <3> QED
      BY <1>3, <1>5, <3>2, <3>3
  <2> QED
    BY <1>6, <2>1, <2>2
<1> QED
  BY <1>1, <1>2, <1>7, <1>8, <1>9 DEF ServingOK

\* The handler runs of one event in a commit: none, or its first.
LEMMA RunsOnce ==
  ASSUME StreamOK, ServingOK, NEW kept \in SUBSET staged, CommitWave(kept), NEW id \in Ids
  PROVE  \/ effects'[id] = effects[id]
         \/ /\ effects[id] = 0 /\ effects'[id] = 1
            /\ \E w \in kept : w.id = id
<1> DEFINE R == {w \in kept : w.id = id /\ w.run}
<1>1. effects'[id] = effects[id] + Cardinality(R)
  BY DEF CommitWave
<1>2. effects[id] \in {0, 1}
  BY DEF ServingOK
<1>3. CASE R = {}
  <2>1. Cardinality(R) = 0
    BY <1>3, FS_EmptySet
  <2> QED
    BY <1>1, <1>2, <2>1
<1>4. CASE R # {}
  <2>1. PICK w \in R : TRUE
    BY <1>4
  <2>2. ASSUME NEW v \in R PROVE v = w
    BY <2>1, StagedOnce
  <2>3. R = {w}
    BY <2>1, <2>2
  <2>4. Cardinality(R) = 1
    BY <2>3, FS_Singleton
  <2>5. w \in kept /\ w.id = id /\ effects[id] = 0
    BY <2>1 DEF ServingOK
  <2> QED
    BY <1>1, <2>4, <2>5
<1> QED
  BY <1>3, <1>4

\* A commit empties the wave, and an event that had its consequences has an
\* entry marked done.
LEMMA CommitServing ==
  ASSUME StreamOK, ServingOK, NEW kept \in SUBSET staged, CommitWave(kept)
  PROVE  ServingOK'
<1>1. staged' = {}
  BY DEF CommitWave
<1>2. effects' \in [Ids -> {0, 1}]
  <2>1. effects' = [id \in Ids |-> effects'[id]]
    BY DEF CommitWave
  <2>2. \A id \in Ids : effects'[id] \in {0, 1}
    BY RunsOnce DEF ServingOK
  <2> QED
    BY <2>1, <2>2
<1>3. ASSUME NEW id \in Ids, effects'[id] = 1
      PROVE  \E e \in Entries(StreamOf[id])' : e.id = id /\ e.done
  <2>1. StreamOf[id] \in Streams
    BY DeliveryAssumption
  <2>2. CASE effects[id] = 1
    <3>1. PICK x \in Entries(StreamOf[id]) : x.id = id /\ x.done
      BY <2>2 DEF ServingOK
    <3> QED
      BY <2>1, <3>1, CommitEntries
  <2>3. CASE effects[id] # 1
    <3>1. PICK w \in kept : w.id = id
      BY <1>3, <2>3, RunsOnce
    <3>2. PICK x \in Entries(StreamOf[id]) : x.id = id /\ x.seq = w.seq
      BY <3>1 DEF ServingOK
    <3> QED
      BY <2>1, <3>1, <3>2, CommitEntries
  <2> QED
    BY <2>2, <2>3
<1> QED
  BY <1>1, <1>2, <1>3 DEF ServingOK

\* Every step keeps the streams and the open wave, given that what is sent is
\* an event: streams never lose one.
LEMMA StreamsKeep ==
  ASSUME StreamOK, ServingOK, [Next]_vars, \A id : Sent(id) => id \in Ids
  PROVE  /\ StreamOK' /\ ServingOK'
         /\ \A x \in Ids : Logged(x) => Logged(x)'
         /\ \A x \in Ids : Logged(x)' => Logged(x) \/ Sent(x)
<1>1. CASE UNCHANGED <<log, seq, serving>> /\ denied' \in {denied, ~ denied}
  <2>1. /\ \A s : Entries(s)' = Entries(s)
        /\ \A x : Logged(x)' <=> Logged(x)
    BY <1>1 DEF Entries, Logged
  <2>2. StreamOK'
    BY <1>1, <2>1 DEF StreamOK, MarkSound
  <2>3. ServingOK'
    BY <1>1, <2>1, ServingStays
  <2> QED
    BY <2>1, <2>2, <2>3
<1>2. CASE UNCHANGED stream /\ ((\E e \in Pending : Drain(e.seq)) \/ TargetParks)
  <2>1. /\ \A s : Entries(s)' = Entries(s)
        /\ \A x : Logged(x)' <=> Logged(x)
    BY <1>2 DEF Entries, Logged, stream
  <2>2. StreamOK'
    BY <1>2, <2>1 DEF StreamOK, MarkSound, stream
  <2>3. CASE TargetParks
    <3>1. staged' = {} /\ effects' = effects
      BY <2>3 DEF TargetParks
    <3>2. ServingOK'
      BY <2>1, <3>1 DEF ServingOK
    <3> QED
      BY <2>1, <2>2, <3>2
  <2> QED
    BY <1>2, <2>1, <2>2, <2>3, DrainKeeps
<1>3. CASE \E id : Sent(id) /\ Admit(id) /\ UNCHANGED serving
  <2>1. PICK id \in Ids : Sent(id) /\ Admit(id) /\ UNCHANGED serving
    BY <1>3
  <2>2. /\ StreamOK' /\ \A x \in Ids : Logged(x) => Logged(x)'
        /\ \A x \in Ids : Logged(x)' => Logged(x) \/ x = id
        /\ \A s \in Streams : log'[s].mark = log[s].mark /\ Entries(s) \subseteq Entries(s)'
    BY <2>1, AdmitKeeps
  <2>3. ServingOK'
    BY <2>1, <2>2, ServingStays
  <2> QED
    BY <2>1, <2>2, <2>3
<1>4. CASE \E kept \in SUBSET staged : CommitWave(kept)
  BY <1>4, CommitKeeps, CommitServing
<1> QED
  BY <1>1, <1>2, <1>3, <1>4, StreamMoves

-----------------------------------------------------------------------------
(* The client's side                                                       *)

\* A queue, field by field.
LEMMA QueueTyped ==
  ASSUME NEW q \in QueueStates
  PROVE  /\ q.arriving \in Seq(ClientIds) /\ q.entries \in Seq(ClientIds)
         /\ q.saving \in BOOLEAN /\ q.closed \in BOOLEAN
BY DEF QueueStates

\* A fire arrives at a queue.
LEMMA FireQueue ==
  ASSUME NEW q \in QueueStates, NEW F, QueueFits(q, F), NEW id \in ClientIds, id \notin F
  PROVE  LET v == [q EXCEPT !.arriving = Append(@, id)]
         IN  /\ v \in QueueStates /\ QueueFits(v, F \cup {id})
             /\ v.entries = q.entries /\ v.arriving = Append(q.arriving, id)
             /\ v.saving = q.saving /\ v.closed = q.closed
<1> DEFINE a == q.arriving
           b == Append(a, id)
           v == [q EXCEPT !.arriving = b]
<1>1. a \in Seq(ClientIds) /\ IsInjective(a) /\ Range(a) \subseteq F /\ id \notin Range(a)
  BY QueueTyped DEF QueueFits
<1> HIDE DEF a
<1>2. b \in Seq(ClientIds) /\ Range(b) = Range(a) \cup {id} /\ IsInjective(b)
  BY <1>1, AppendIs, OnceAppend
<1> HIDE DEF b
<1>3. /\ v \in QueueStates /\ v.entries = q.entries /\ v.arriving = b
      /\ v.saving = q.saving /\ v.closed = q.closed
  BY <1>2 DEF QueueStates
<1> HIDE DEF v
<1>4. QueueFits(v, F \cup {id})
  BY <1>1, <1>2, <1>3 DEF QueueFits, a
<1> QED
  BY <1>3, <1>4 DEF v, a, b

\* An arriving fire joins the queue.
LEMMA PushQueue ==
  ASSUME NEW q \in QueueStates, NEW F, QueueFits(q, F), q.arriving # <<>>
  PROVE  LET v == [q EXCEPT !.arriving = Tail(@), !.saving = TRUE,
                            !.entries = Append(@, Head(q.arriving))]
         IN  /\ v \in QueueStates /\ QueueFits(v, F)
             /\ v.entries = Append(q.entries, Head(q.arriving)) /\ v.arriving = Tail(q.arriving)
             /\ v.saving = TRUE /\ v.closed = q.closed
             /\ Head(q.arriving) \in ClientIds /\ Head(q.arriving) \in F
             /\ Range(v.entries) \cup Range(v.arriving) = Range(q.entries) \cup Range(q.arriving)
             /\ Range(q.entries) \subseteq Range(v.entries)
<1> DEFINE a == q.arriving
           h == Head(a)
           b == Tail(a)
           e == q.entries
           f == Append(e, h)
           v == [q EXCEPT !.arriving = b, !.saving = TRUE, !.entries = f]
<1>1. a \in Seq(ClientIds) /\ e \in Seq(ClientIds) /\ q.closed \in BOOLEAN
      /\ IsInjective(a) /\ IsInjective(e)
      /\ Range(a) \subseteq F /\ Range(e) \subseteq F /\ Range(e) \cap Range(a) = {}
  BY QueueTyped DEF QueueFits
<1>2. a # <<>>
  OBVIOUS
<1> HIDE DEF a, e
<1>3. /\ h \in ClientIds /\ b \in Seq(ClientIds) /\ Range(a) = {h} \cup Range(b)
      /\ IsInjective(b) /\ h \notin Range(b)
  BY <1>1, <1>2, TailIs
<1> HIDE DEF h, b
<1>4. h \notin Range(e)
  BY <1>1, <1>3
<1>5. f \in Seq(ClientIds) /\ Range(f) = Range(e) \cup {h} /\ IsInjective(f)
  BY <1>1, <1>3, <1>4, AppendIs, OnceAppend
<1> HIDE DEF f
<1>6. v \in QueueStates /\ v.entries = f /\ v.arriving = b /\ v.saving = TRUE /\ v.closed = q.closed
  BY <1>3, <1>5 DEF QueueStates
<1> HIDE DEF v
<1>7. QueueFits(v, F)
  BY <1>1, <1>3, <1>4, <1>5, <1>6 DEF QueueFits
<1>8. Range(f) \cup Range(b) = Range(e) \cup Range(a) /\ Range(e) \subseteq Range(f) /\ h \in F
  BY <1>1, <1>3, <1>5
<1> QED
  BY <1>3, <1>6, <1>7, <1>8 DEF v, a, b, e, f, h

\* A settled entry leaves the queue.
LEMMA SettleQueue ==
  ASSUME NEW q \in QueueStates, NEW F, QueueFits(q, F), NEW id
  PROVE  LET v == [q EXCEPT !.entries = Without(@, id), !.saving = TRUE]
         IN  /\ v \in QueueStates /\ QueueFits(v, F)
             /\ v.entries = Without(q.entries, id) /\ v.arriving = q.arriving
             /\ v.saving = TRUE /\ v.closed = q.closed
             /\ Range(v.entries) \subseteq Range(q.entries) /\ id \notin Range(v.entries)
             /\ Range(q.entries) \subseteq Range(v.entries) \cup {id}
<1> DEFINE e == q.entries
           f == Without(e, id)
           v == [q EXCEPT !.entries = f, !.saving = TRUE]
<1>1. e \in Seq(ClientIds) /\ IsInjective(e) /\ Range(e) \subseteq F
  BY QueueTyped DEF QueueFits
<1> HIDE DEF e
<1>2. f \in Seq(ClientIds) /\ Range(f) \subseteq Range(e) /\ Range(e) \subseteq Range(f) \cup {id}
      /\ IsInjective(f) /\ id \notin Range(f)
  BY <1>1, WithoutIs, OnceWithout
<1> HIDE DEF f
<1>3. /\ v \in QueueStates /\ v.entries = f /\ v.arriving = q.arriving
      /\ v.saving = TRUE /\ v.closed = q.closed
  BY <1>2 DEF QueueStates
<1> HIDE DEF v
<1>4. QueueFits(v, F)
  BY <1>1, <1>2, <1>3 DEF QueueFits, e
<1> QED
  BY <1>2, <1>3, <1>4 DEF v, e, f

\* The queues after one of them changed.
LEMMA QueuesTyped ==
  ASSUME ClientOK, NEW r \in 1..2, NEW q \in QueueStates, NEW F, QueueFits(q, F),
         Range(fires) \subseteq F, queue' = [queue EXCEPT ![r] = q]
  PROVE  /\ queue' \in [1..2 -> QueueStates] /\ \A k \in 1..2 : QueueFits(queue'[k], F)
         /\ queue'[r] = q /\ \A k \in 1..2 : k # r => queue'[k] = queue[k]
<1>1. queue \in [1..2 -> QueueStates] /\ \A k \in 1..2 : QueueFits(queue[k], Range(fires))
  BY DEF ClientOK
<1>2. \A k \in 1..2 : QueueFits(queue[k], F)
  BY <1>1 DEF QueueFits
<1> QED
  BY <1>1, <1>2

\* Telling a firer: a refusal is not taken back, and a fire stays one.
LEMMA Tells ==
  ASSUME outcome \in [ClientIds -> Outcomes], NEW id \in ClientIds, outcome[id] # "unfired",
         NEW what \in {"closed", "refused", "delivered"}, Tell(id, what)
  PROVE  /\ outcome' \in [ClientIds -> Outcomes]
         /\ \A x \in ClientIds : outcome'[x] = "unfired" <=> outcome[x] = "unfired"
         /\ \A x \in ClientIds :
              outcome[x] \in {"refused", "dropped"} => outcome'[x] \in {"refused", "dropped"}
         /\ \A x \in ClientIds : x # id => outcome'[x] = outcome[x]
         /\ what = "refused" => outcome'[id] \in {"refused", "dropped"}
         /\ outcome'[id] = "refused" =>
              outcome[id] = "refused" \/ (outcome[id] = "open" /\ what = "refused")
         /\ outcome[id] = "refused" /\ what # "refused" => outcome'[id] = "refused"
         /\ outcome'[id] = "dropped" => outcome[id] = "dropped" \/ what = "refused"
<1> DEFINE o == IF outcome[id] = "open" THEN what
                ELSE IF what = "refused" THEN "dropped" ELSE outcome[id]
<1>1. outcome' = [outcome EXCEPT ![id] = o]
  BY DEF Tell
<1>2. o \in Outcomes /\ o # "unfired"
  BY DEF Outcomes
<1>3. /\ outcome[id] \in {"refused", "dropped"} => o \in {"refused", "dropped"}
      /\ what = "refused" => o \in {"refused", "dropped"}
      /\ o = "refused" => outcome[id] = "refused" \/ (outcome[id] = "open" /\ what = "refused")
      /\ outcome[id] = "refused" /\ what # "refused" => o = "refused"
      /\ o = "dropped" => outcome[id] = "dropped" \/ what = "refused"
  OBVIOUS
<1> HIDE DEF o
<1> QED
  BY <1>1, <1>2, <1>3

\* A fire: its id is new, and arrives at the queue in use.
LEMMA FireKeeps ==
  ASSUME ClientOK, NEW id \in ClientIds, Fire(id)
  PROVE  /\ ClientOK'
         /\ Range(fires') = Range(fires) \cup {id} /\ id \notin Range(fires)
         /\ route' = route /\ saved' = saved /\ attempt' = attempt
         /\ queue'[route.cur].entries = queue[route.cur].entries
         /\ queue'[route.cur].arriving = Append(queue[route.cur].arriving, id)
         /\ queue'[route.cur].saving = queue[route.cur].saving
         /\ outcome'[id] = "open"
         /\ \A x \in ClientIds : x # id => outcome'[x] = outcome[x]
<1> DEFINE r == route.cur
           q == queue[r]
           v == [q EXCEPT !.arriving = Append(@, id)]
           F == Range(fires) \cup {id}
<1>1. /\ id \notin Range(fires) /\ fires \in Seq(ClientIds) /\ r \in 1..2 /\ q \in QueueStates
      /\ QueueFits(q, Range(fires))
  BY DEF Fire, ClientOK
<1>2. Range(fires') = F /\ fires' \in Seq(ClientIds)
  BY <1>1, AppendIs DEF Fire
<1>3. queue' = [queue EXCEPT ![r] = v] /\ route' = route /\ saved' = saved /\ attempt' = attempt
  BY DEF Fire
<1> HIDE DEF q
<1>4. /\ v \in QueueStates /\ QueueFits(v, F)
      /\ v.entries = q.entries /\ v.arriving = Append(q.arriving, id) /\ v.saving = q.saving
  BY <1>1, FireQueue
<1> HIDE DEF v, r
<1>5. /\ queue' \in [1..2 -> QueueStates] /\ \A k \in 1..2 : QueueFits(queue'[k], F)
      /\ queue'[r] = v /\ \A k \in 1..2 : k # r => queue'[k] = queue[k]
  BY <1>1, <1>3, <1>4, QueuesTyped
<1>6. /\ outcome' \in [ClientIds -> Outcomes] /\ outcome'[id] = "open"
      /\ \A x \in ClientIds : x # id => outcome'[x] = outcome[x]
  BY DEF Fire, ClientOK, Outcomes
<1>7. \A x \in ClientIds : x \in F <=> outcome'[x] # "unfired"
  BY <1>6 DEF ClientOK
<1>8. r = 1 => queue'[2] = queue[2]
  BY <1>5
<1>9. queue'[r].entries = queue[r].entries
  BY <1>4, <1>5 DEF q
<1>10. ClientOK'
  BY <1>2, <1>3, <1>5, <1>6, <1>7, <1>8, <1>9 DEF ClientOK, r
<1> QED
  BY <1>1, <1>2, <1>3, <1>4, <1>5, <1>6, <1>10 DEF r, q

\* A push moves the head of what arrives to the end of the queue.
LEMMA PushKeeps ==
  ASSUME ClientOK, NEW r \in 1..2, Push(r)
  PROVE  /\ ClientOK'
         /\ fires' = fires /\ route' = route /\ saved' = saved /\ attempt' = attempt
         /\ queue[r].arriving # <<>>
         /\ queue'[r].entries = Append(queue[r].entries, Head(queue[r].arriving))
         /\ queue'[r].arriving = Tail(queue[r].arriving)
         /\ queue'[r].saving = TRUE
         /\ \A k \in 1..2 : k # r => queue'[k] = queue[k]
         /\ Range(queue'[r].entries) \cup Range(queue'[r].arriving)
              = Range(queue[r].entries) \cup Range(queue[r].arriving)
         /\ \A x \in ClientIds : outcome'[x] \in {"refused", "dropped"} <=>
                                 outcome[x] \in {"refused", "dropped"}
         /\ \A x \in ClientIds : outcome'[x] = "refused" <=> outcome[x] = "refused"
<1> DEFINE q == queue[r]
           h == Head(q.arriving)
           v == [q EXCEPT !.arriving = Tail(@), !.saving = TRUE, !.entries = Append(@, Head(q.arriving))]
<1>1. q \in QueueStates /\ QueueFits(q, Range(fires)) /\ q.arriving # <<>>
      /\ outcome \in [ClientIds -> Outcomes]
  BY DEF Push, ClientOK
<1>2. /\ queue' = [queue EXCEPT ![r] = v]
      /\ fires' = fires /\ route' = route /\ saved' = saved /\ attempt' = attempt
  BY DEF Push
<1>3. Tell(h, "closed") \/ outcome' = outcome
  BY DEF Push
<1> HIDE DEF q
<1>4. /\ v \in QueueStates /\ QueueFits(v, Range(fires))
      /\ v.entries = Append(q.entries, h) /\ v.arriving = Tail(q.arriving) /\ v.saving = TRUE
      /\ h \in ClientIds /\ h \in Range(fires)
      /\ Range(v.entries) \cup Range(v.arriving) = Range(q.entries) \cup Range(q.arriving)
      /\ Range(q.entries) \subseteq Range(v.entries)
  BY <1>1, PushQueue
<1> HIDE DEF v, h
<1>5. /\ queue' \in [1..2 -> QueueStates] /\ \A k \in 1..2 : QueueFits(queue'[k], Range(fires))
      /\ queue'[r] = v /\ \A k \in 1..2 : k # r => queue'[k] = queue[k]
  BY <1>2, <1>4, QueuesTyped
<1>6. outcome[h] # "unfired"
  BY <1>4 DEF ClientOK
<1>7. /\ outcome' \in [ClientIds -> Outcomes]
      /\ \A x \in ClientIds : outcome'[x] = "unfired" <=> outcome[x] = "unfired"
      /\ \A x \in ClientIds : outcome'[x] \in {"refused", "dropped"} <=>
                              outcome[x] \in {"refused", "dropped"}
      /\ \A x \in ClientIds : outcome'[x] = "refused" <=> outcome[x] = "refused"
  <2>1. CASE outcome' = outcome
    BY <1>1, <2>1
  <2>2. CASE Tell(h, "closed")
    <3>1. PICK what \in {"closed", "refused", "delivered"} : what = "closed"
      OBVIOUS
    <3>2. Tell(h, what)
      BY <2>2, <3>1
    <3>3. /\ outcome' \in [ClientIds -> Outcomes]
          /\ \A x \in ClientIds : outcome'[x] = "unfired" <=> outcome[x] = "unfired"
          /\ \A x \in ClientIds :
               outcome[x] \in {"refused", "dropped"} => outcome'[x] \in {"refused", "dropped"}
          /\ \A x \in ClientIds : x # h => outcome'[x] = outcome[x]
          /\ outcome'[h] = "refused" =>
               outcome[h] = "refused" \/ (outcome[h] = "open" /\ what = "refused")
          /\ outcome[h] = "refused" /\ what # "refused" => outcome'[h] = "refused"
          /\ outcome'[h] = "dropped" => outcome[h] = "dropped" \/ what = "refused"
      BY <1>1, <1>4, <1>6, <3>2, Tells
    <3> QED
      BY <1>4, <3>1, <3>3
  <2> QED
    BY <1>3, <2>1, <2>2
<1>8. r = 2 => queue[2] # EmptyQueue
  BY <1>1 DEF EmptyQueue, q
<1>9. route.cur = 1 => queue'[2] = EmptyQueue
  BY <1>5, <1>8 DEF ClientOK
<1>10. \A k \in 1..2 : Range(queue[k].entries) \subseteq Range(queue'[k].entries)
  BY <1>4, <1>5 DEF q
<1>11. route.cur \in 1..2
  BY DEF ClientOK
<1>12. ClientOK'
  BY <1>2, <1>5, <1>7, <1>9, <1>10, <1>11 DEF ClientOK
<1> QED
  BY <1>1, <1>2, <1>4, <1>5, <1>7, <1>12 DEF q, h

\* A save writes the queue as it stands.
LEMMA SaveKeeps ==
  ASSUME ClientOK, NEW r \in 1..2, Save(r)
  PROVE  /\ ClientOK'
         /\ fires' = fires /\ route' = route /\ attempt' = attempt /\ outcome' = outcome
         /\ saved' = queue[r].entries
         /\ queue'[r].entries = queue[r].entries /\ queue'[r].arriving = queue[r].arriving
         /\ \A k \in 1..2 : k # r => queue'[k] = queue[k]
         /\ r = 2 => route.cur = 2
<1> DEFINE q == queue[r]
           v == [q EXCEPT !.saving = FALSE]
<1>1. q \in QueueStates /\ QueueFits(q, Range(fires)) /\ q.saving
  BY DEF Save, ClientOK
<1>2. /\ queue' = [queue EXCEPT ![r] = v] /\ saved' = q.entries
      /\ fires' = fires /\ route' = route /\ attempt' = attempt /\ outcome' = outcome
  BY DEF Save
<1> HIDE DEF q
<1>3. v \in QueueStates /\ v.entries = q.entries /\ v.arriving = q.arriving
  BY <1>1 DEF QueueStates
<1> HIDE DEF v
<1>4. QueueFits(v, Range(fires))
  BY <1>1, <1>3 DEF QueueFits
<1>5. /\ queue' \in [1..2 -> QueueStates] /\ \A k \in 1..2 : QueueFits(queue'[k], Range(fires))
      /\ queue'[r] = v /\ \A k \in 1..2 : k # r => queue'[k] = queue[k]
  BY <1>2, <1>3, <1>4, QueuesTyped
<1>6. r = 2 => route.cur = 2
  BY <1>1 DEF ClientOK, EmptyQueue, q
<1>7. saved' \in Seq(ClientIds) /\ IsInjective(saved') /\ Range(saved') \subseteq Range(fires)
  BY <1>1, <1>2, QueueTyped DEF QueueFits
<1>8. route.cur = 1 => queue'[2] = queue[2]
  BY <1>5, <1>6
<1>9. \A k \in 1..2 : queue'[k].entries = queue[k].entries
  BY <1>3, <1>5 DEF q
<1>10. route.cur \in 1..2
  BY DEF ClientOK
<1>11. ClientOK'
  BY <1>2, <1>5, <1>7, <1>8, <1>9, <1>10 DEF ClientOK
<1> QED
  BY <1>2, <1>3, <1>5, <1>6, <1>11 DEF q

\* A send puts an entry of the queue in use in flight.
LEMMA SendKeeps ==
  ASSUME ClientOK, NEW id \in ClientIds, Send(id)
  PROVE  /\ ClientOK' /\ attempt' = [at |-> "sent", id |-> id, answer |-> "none"]
         /\ route'.cur = route.cur /\ route'.issued = TRUE
         /\ UNCHANGED <<fires, outcome, queue, saved>>
<1>1. /\ attempt' = [at |-> "sent", id |-> id, answer |-> "none"]
      /\ route' = [route EXCEPT !.issued = TRUE] /\ UNCHANGED <<fires, outcome, queue, saved>>
  BY DEF Send
<1>2. route' \in [cur : 1..2, issued : BOOLEAN] /\ route'.cur = route.cur /\ route'.issued = TRUE
  BY <1>1 DEF ClientOK
<1>3. id \in Range(queue[route.cur].entries)
  BY DEF Send, Sendable, Range
<1>4. route.cur \in 1..2 /\ id \in Range(fires)
  BY <1>3 DEF ClientOK, QueueFits
<1>5. attempt' \in [at : {"sent"}, id : ClientIds, answer : Answers] /\ attempt'.id = id
  BY <1>1 DEF Answers
<1>6. ClientOK'
  BY <1>1, <1>2, <1>3, <1>4, <1>5 DEF ClientOK
<1> QED
  BY <1>1, <1>2, <1>6

\* The target's answer to the attempt.
LEMMA AnswerKeeps ==
  ASSUME ClientOK, ServerAnswers
  PROVE  /\ ClientOK' /\ UNCHANGED <<fires, outcome, queue, route, saved>>
         /\ attempt # NoAttempt /\ attempt.id \in ClientIds
         /\ attempt'.id = attempt.id /\ attempt'.answer = Verdict(attempt.id) /\ attempt' # NoAttempt
<1>1. /\ attempt.at = "sent" /\ attempt' = [attempt EXCEPT !.answer = Verdict(attempt.id)]
      /\ UNCHANGED <<fires, outcome, queue, route, saved>>
  BY DEF ServerAnswers
<1>2. attempt # NoAttempt
  BY <1>1 DEF NoAttempt
<1>3. attempt \in [at : {"sent"}, id : ClientIds, answer : Answers]
  BY <1>2 DEF ClientOK
<1>4. Verdict(attempt.id) \in Answers
  BY DEF Verdict, Answers
<1>5. /\ attempt' \in [at : {"sent"}, id : ClientIds, answer : Answers] /\ attempt'.at = "sent"
      /\ attempt'.id = attempt.id /\ attempt'.answer = Verdict(attempt.id)
  BY <1>1, <1>3, <1>4
<1>6. attempt' # NoAttempt
  BY <1>5 DEF NoAttempt
<1>7. ClientOK'
  BY <1>1, <1>2, <1>5, <1>6 DEF ClientOK
<1> QED
  BY <1>1, <1>2, <1>3, <1>5, <1>6, <1>7

\* Settling takes the answered entry out of the queue in use and tells its firer.
LEMMA SettleKeeps ==
  ASSUME ClientOK, Settle
  PROVE  LET id == attempt.id
             r  == route.cur
         IN  /\ ClientOK' /\ attempt # NoAttempt /\ id \in ClientIds /\ attempt.answer \in Answers
             /\ attempt.answer # "none" /\ attempt' = NoAttempt
             /\ fires' = fires /\ route' = route /\ saved' = saved
             /\ queue'[r].entries = Without(queue[r].entries, id)
             /\ queue'[r].arriving = queue[r].arriving /\ queue'[r].saving = TRUE
             /\ id \notin Range(queue'[r].entries) /\ id \notin Range(queue'[r].arriving)
             /\ Range(queue'[r].entries) \subseteq Range(queue[r].entries)
             /\ Range(queue[r].entries) \subseteq Range(queue'[r].entries) \cup {id}
             /\ \A x \in ClientIds :
                  outcome[x] \in {"refused", "dropped"} => outcome'[x] \in {"refused", "dropped"}
             /\ \A x \in ClientIds : x # id => outcome'[x] = outcome[x]
             /\ attempt.answer = "refused" => outcome'[id] \in {"refused", "dropped"}
             /\ outcome'[id] = "refused" =>
                  outcome[id] = "refused" \/ (outcome[id] = "open" /\ attempt.answer = "refused")
             /\ outcome'[id] = "dropped" => outcome[id] = "dropped" \/ attempt.answer = "refused"
<1> DEFINE id == attempt.id
           r == route.cur
           q == queue[r]
           v == [q EXCEPT !.entries = Without(@, id), !.saving = TRUE]
<1>1. /\ attempt.answer # "none" /\ attempt' = NoAttempt
      /\ queue' = [queue EXCEPT ![r] = v]
      /\ fires' = fires /\ route' = route /\ saved' = saved
  BY DEF Settle
<1>2. attempt # NoAttempt
  BY <1>1 DEF NoAttempt
<1>3. attempt \in [at : {"sent"}, id : ClientIds, answer : Answers] /\ id \in Range(fires)
      /\ id \in Range(q.entries)
  BY <1>2 DEF ClientOK
<1>4. id \in ClientIds /\ attempt.answer \in Answers /\ outcome[id] # "unfired"
      /\ outcome \in [ClientIds -> Outcomes]
  BY <1>3 DEF ClientOK
<1>5. r \in 1..2 /\ q \in QueueStates /\ QueueFits(q, Range(fires))
  BY DEF ClientOK
<1> HIDE DEF q, id
<1>6. /\ v \in QueueStates /\ QueueFits(v, Range(fires))
      /\ v.entries = Without(q.entries, id) /\ v.arriving = q.arriving /\ v.saving = TRUE
      /\ Range(v.entries) \subseteq Range(q.entries) /\ id \notin Range(v.entries)
      /\ Range(q.entries) \subseteq Range(v.entries) \cup {id}
  BY <1>5, SettleQueue
<1> HIDE DEF v
<1>7. id \notin Range(v.arriving)
  BY <1>3, <1>5, <1>6 DEF QueueFits
<1>8. /\ queue' \in [1..2 -> QueueStates] /\ \A k \in 1..2 : QueueFits(queue'[k], Range(fires))
      /\ queue'[r] = v /\ \A k \in 1..2 : k # r => queue'[k] = queue[k]
  BY <1>1, <1>5, <1>6, QueuesTyped
<1>9. PICK what \in {"closed", "refused", "delivered"} :
        what = IF attempt.answer = "refused" THEN "refused" ELSE "delivered"
  OBVIOUS
<1>10. Tell(id, what)
  BY <1>9 DEF Settle, id
<1>11. /\ outcome' \in [ClientIds -> Outcomes]
       /\ \A x \in ClientIds : outcome'[x] = "unfired" <=> outcome[x] = "unfired"
       /\ \A x \in ClientIds :
            outcome[x] \in {"refused", "dropped"} => outcome'[x] \in {"refused", "dropped"}
       /\ \A x \in ClientIds : x # id => outcome'[x] = outcome[x]
       /\ what = "refused" => outcome'[id] \in {"refused", "dropped"}
       /\ outcome'[id] = "refused" =>
            outcome[id] = "refused" \/ (outcome[id] = "open" /\ what = "refused")
       /\ outcome'[id] = "dropped" => outcome[id] = "dropped" \/ what = "refused"
  BY <1>4, <1>10, Tells
<1>12. what = "refused" <=> attempt.answer = "refused"
  BY <1>9
<1>13. route.cur = 1 => queue'[2] = queue[2]
  BY <1>8
<1>14. ClientOK'
  <2>1. attempt' = NoAttempt
    BY <1>1
  <2>2. fires' \in Seq(ClientIds) /\ outcome' \in [ClientIds -> Outcomes]
    BY <1>1, <1>11 DEF ClientOK
  <2>3. \A x \in ClientIds : x \in Range(fires') <=> outcome'[x] # "unfired"
    BY <1>1, <1>11 DEF ClientOK
  <2> QED
    BY <1>1, <1>8, <1>13, <2>1, <2>2, <2>3 DEF ClientOK
<1> QED
  BY <1>1, <1>2, <1>4, <1>6, <1>7, <1>8, <1>11, <1>12, <1>14 DEF q, id

\* A connection that fails takes the attempt with it and nothing else.
LEMMA FailKeeps ==
  ASSUME ClientOK, ConnectionFails
  PROVE  ClientOK' /\ attempt' = NoAttempt /\ UNCHANGED <<fires, outcome, queue, route, saved>>
<1>1. attempt' = NoAttempt /\ UNCHANGED <<fires, outcome, queue, route, saved>>
  BY DEF ConnectionFails
<1> QED
  BY <1>1 DEF ClientOK

\* A replacement hands the store to the successor's queue.
LEMMA ReplaceKeeps ==
  ASSUME ClientOK, Replace
  PROVE  /\ ClientOK' /\ route.cur = 1 /\ route.issued = FALSE /\ route'.cur = 2 /\ route'.issued = FALSE
         /\ fires' = fires /\ saved' = saved /\ attempt' = attempt /\ attempt = NoAttempt
         /\ queue'[2].entries = saved /\ queue'[2].arriving = <<>>
         /\ ReplaceEarly \/ (queue[1].arriving = <<>> /\ ~ queue[1].saving)
         /\ \A x \in ClientIds : outcome'[x] # outcome[x] => outcome[x] = "open" /\ outcome'[x] = "closed"
<1> DEFINE q == [queue[1] EXCEPT !.closed = TRUE]
           v == [EmptyQueue EXCEPT !.entries = saved]
<1>1. /\ route = [cur |-> 1, issued |-> FALSE] /\ route' = [route EXCEPT !.cur = 2]
      /\ ReplaceEarly \/ (queue[1].arriving = <<>> /\ ~ queue[1].saving)
      /\ fires' = fires /\ saved' = saved /\ attempt' = attempt
  BY DEF Replace
<1>2. /\ route.cur = 1 /\ route.issued = FALSE /\ route'.cur = 2 /\ route'.issued = FALSE
      /\ route' \in [cur : 1..2, issued : BOOLEAN]
  <2>1. route' = [cur |-> 2, issued |-> FALSE]
    BY <1>1
  <2>2. 2 \in 1..2 /\ FALSE \in BOOLEAN
    OBVIOUS
  <2> QED
    BY <1>1, <2>1, <2>2
<1>3. /\ queue \in [1..2 -> QueueStates] /\ queue[2] = EmptyQueue /\ attempt = NoAttempt
      /\ QueueFits(queue[1], Range(fires))
      /\ saved \in Seq(ClientIds) /\ IsInjective(saved) /\ Range(saved) \subseteq Range(fires)
  BY <1>2 DEF ClientOK
<1>4. queue' = [queue EXCEPT ![1].closed = TRUE, ![2].entries = saved]
  BY DEF Replace, Load
<1>5. queue'[1] = q /\ queue'[2] = v /\ queue' = [k \in 1..2 |-> IF k = 1 THEN q ELSE v]
  <2> DEFINE A == [queue EXCEPT ![1] = q]
  <2>1. queue' = [A EXCEPT ![2] = [A[2] EXCEPT !.entries = saved]]
    BY <1>4
  <2> HIDE DEF q
  <2>2. A \in [1..2 -> QueueStates \cup {q}] /\ A[1] = q /\ A[2] = EmptyQueue
    BY <1>3
  <2> HIDE DEF A
  <2>3. queue' = [A EXCEPT ![2] = v]
    BY <2>1, <2>2
  <2> HIDE DEF v
  <2>4. queue'[1] = q /\ queue'[2] = v /\ DOMAIN queue' = 1..2
    BY <2>2, <2>3
  <2>5. \A k \in 1..2 : k = 1 \/ k = 2
    OBVIOUS
  <2>6. queue' = [k \in 1..2 |-> queue'[k]]
    BY <2>2, <2>3
  <2> QED
    BY <2>4, <2>5, <2>6
<1>6. q \in QueueStates /\ q.entries = queue[1].entries /\ q.arriving = queue[1].arriving
  <2>1. queue[1] \in QueueStates
    BY <1>3
  <2> QED
    BY <2>1 DEF QueueStates
<1>7. v \in QueueStates /\ v.entries = saved /\ v.arriving = <<>>
  <2>1. EmptyQueue \in QueueStates
    BY <1>3
  <2>2. EmptyQueue.arriving = <<>>
    BY DEF EmptyQueue
  <2> QED
    BY <1>3, <2>1, <2>2 DEF QueueStates
<1> HIDE DEF q, v
<1>8. QueueFits(q, Range(fires))
  BY <1>3, <1>6 DEF QueueFits
<1>9. QueueFits(v, Range(fires))
  <2>1. Range(<<>>) = {} /\ IsInjective(<<>>)
    BY DEF Range, IsInjective
  <2> QED
    BY <1>3, <1>7, <2>1 DEF QueueFits
<1>10. queue' \in [1..2 -> QueueStates] /\ \A k \in 1..2 : QueueFits(queue'[k], Range(fires))
  BY <1>5, <1>6, <1>7, <1>8, <1>9
<1>11. /\ outcome' \in [ClientIds -> Outcomes]
       /\ \A x \in ClientIds : outcome'[x] # outcome[x] => outcome[x] = "open" /\ outcome'[x] = "closed"
  BY DEF Replace, ClientOK, Outcomes
<1>12. \A x \in ClientIds : outcome'[x] = "unfired" <=> outcome[x] = "unfired"
  BY <1>11
<1>13. ClientOK'
  BY <1>1, <1>2, <1>3, <1>10, <1>11, <1>12 DEF ClientOK
<1> QED
  BY <1>1, <1>2, <1>3, <1>5, <1>7, <1>11, <1>13

\* Every step keeps the client's side: a fire stays fired, and a refusal that
\* was told is not taken back.
LEMMA ClientKeeps ==
  ASSUME ClientOK, [Next]_vars
  PROVE  /\ ClientOK' /\ Range(fires) \subseteq Range(fires')
         /\ \A x \in ClientIds :
              outcome[x] \in {"refused", "dropped"} => outcome'[x] \in {"refused", "dropped"}
<1>1. CASE UNCHANGED client
  BY <1>1 DEF client, ClientOK
<1>2. ASSUME NEW id \in ClientIds, Fire(id)
      PROVE  /\ ClientOK' /\ Range(fires) \subseteq Range(fires')
             /\ \A x \in ClientIds :
                  outcome[x] \in {"refused", "dropped"} => outcome'[x] \in {"refused", "dropped"}
  <2>1. outcome[id] = "unfired"
    BY <1>2 DEF Fire
  <2> QED
    BY <1>2, <2>1, FireKeeps
<1>3. ASSUME NEW id \in ClientIds, Send(id)
      PROVE  ClientOK' /\ fires' = fires /\ outcome' = outcome
  BY <1>3, SendKeeps
<1>4. ASSUME NEW r \in 1..2, Push(r)
      PROVE  /\ ClientOK' /\ fires' = fires
             /\ \A x \in ClientIds :
                  outcome[x] \in {"refused", "dropped"} => outcome'[x] \in {"refused", "dropped"}
  BY <1>4, PushKeeps
<1>5. ASSUME NEW r \in 1..2, Save(r)
      PROVE  ClientOK' /\ fires' = fires /\ outcome' = outcome
  BY <1>5, SaveKeeps
<1>6. ASSUME ServerAnswers PROVE ClientOK' /\ fires' = fires /\ outcome' = outcome
  BY <1>6, AnswerKeeps
<1>7. ASSUME Settle
      PROVE  /\ ClientOK' /\ fires' = fires
             /\ \A x \in ClientIds :
                  outcome[x] \in {"refused", "dropped"} => outcome'[x] \in {"refused", "dropped"}
  BY <1>7, SettleKeeps
<1>8. ASSUME ConnectionFails PROVE ClientOK' /\ fires' = fires /\ outcome' = outcome
  BY <1>8, FailKeeps
<1>9. ASSUME Replace
      PROVE  /\ ClientOK' /\ fires' = fires
             /\ \A x \in ClientIds :
                  outcome[x] \in {"refused", "dropped"} => outcome'[x] \in {"refused", "dropped"}
  BY <1>9, ReplaceKeeps
<1> QED
  BY <1>1, <1>2, <1>3, <1>4, <1>5, <1>6, <1>7, <1>8, <1>9, ClientMoves DEF ClientStep

-----------------------------------------------------------------------------
(* Order                                                                   *)

\* More settled events leave less to keep in order.
LEMMA OrderedStays ==
  ASSUME NEW s, NEW ever, NEW St, NEW Su, St \subseteq Su, Ordered(s, ever, St)
  PROVE  Ordered(s, ever, Su)
BY DEF Ordered

\* The empty sequence is in order.
LEMMA OrderedEmpty ==
  ASSUME NEW ever, NEW St
  PROVE  Ordered(<<>>, ever, St)
BY DEF Ordered, Leads

\* A settled head goes.
LEMMA OrderedTail ==
  ASSUME NEW S, NEW s \in Seq(S), s # <<>>, NEW ever, NEW St, NEW Su, St \subseteq Su,
         Ordered(s, ever, St), Head(s) \in Su
  PROVE  Ordered(Tail(s), ever, Su)
<1>1. ASSUME NEW x \in Ids, NEW y \in Ids, Before(ever, x, y), x \notin Su
      PROVE  Leads(Tail(s), x, y)
  <2>1. Leads(s, x, y) /\ x # Head(s)
    BY <1>1 DEF Ordered
  <2> QED
    BY <2>1, LeadsTail
<1> QED
  BY <1>1 DEF Ordered

\* A settled event goes.
LEMMA OrderedWithout ==
  ASSUME NEW S, NEW s \in Seq(S), NEW z, NEW ever, NEW St, NEW Su, St \subseteq Su,
         Ordered(s, ever, St), z \in Su
  PROVE  Ordered(Without(s, z), ever, Su)
<1>1. ASSUME NEW x \in Ids, NEW y \in Ids, Before(ever, x, y), x \notin Su
      PROVE  Leads(Without(s, z), x, y)
  <2>1. Leads(s, x, y) /\ x # z
    BY <1>1 DEF Ordered
  <2> QED
    BY <2>1, LeadsWithout
<1> QED
  BY <1>1 DEF Ordered

\* What a sequence does not hold has nothing to be behind.
LEMMA LeadsAbsent ==
  ASSUME NEW S, NEW s \in Seq(S), NEW x, NEW y, y \notin Range(s)
  PROVE  Leads(s, x, y)
<1>1. \A i \in 1..Len(s) : s[i] # y
  BY RangeIs
<1>2. DOMAIN s = 1..Len(s)
  OBVIOUS
<1> QED
  BY <1>1, <1>2 DEF Leads

\* A new event does not disturb a sequence without it.
LEMMA OrderedGrows ==
  ASSUME NEW S, NEW s \in Seq(S), NEW ever \in Seq(S), NEW St, Ordered(s, ever, St),
         NEW id \in S, id \notin Range(s)
  PROVE  Ordered(s, Append(ever, id), St)
<1>1. ASSUME NEW x \in Ids, NEW y \in Ids, Before(Append(ever, id), x, y), x \notin St
      PROVE  Leads(s, x, y)
  <2>1. CASE Before(ever, x, y)
    BY <1>1, <2>1 DEF Ordered
  <2>2. CASE y = id
    BY <2>2, LeadsAbsent
  <2> QED
    BY <1>1, <2>1, <2>2, BeforeAppend
<1> QED
  BY <1>1 DEF Ordered

\* A new event joins a sequence that holds every earlier one not settled.
LEMMA OrderedAppend ==
  ASSUME NEW S, NEW s \in Seq(S), NEW ever \in Seq(S), NEW St, Ordered(s, ever, St),
         NEW id \in S, id \notin Range(s), Range(ever) \subseteq Range(s) \cup St
  PROVE  Ordered(Append(s, id), Append(ever, id), St)
<1>1. ASSUME NEW x \in Ids, NEW y \in Ids, Before(Append(ever, id), x, y), x \notin St
      PROVE  Leads(Append(s, id), x, y)
  <2>1. Leads(s, x, y)
    <3>1. CASE Before(ever, x, y)
      BY <1>1, <3>1 DEF Ordered
    <3>2. CASE y = id
      BY <3>2, LeadsAbsent
    <3> QED
      BY <1>1, <3>1, <3>2, BeforeAppend
  <2>2. y = id => x \in Range(s)
    <3>1. ASSUME Before(ever, x, y) PROVE x \in Range(ever)
      BY <3>1, BeforeIn
    <3>2. x \in Range(ever)
      BY <1>1, <3>1, BeforeAppend
    <3> QED
      BY <1>1, <3>2
  <2> QED
    BY <2>1, <2>2, LeadsAppend
<1> QED
  BY <1>1 DEF Ordered

-----------------------------------------------------------------------------
(* The outbox                                                              *)

\* The drains after one of them changed.
LEMMA DrainsTyped ==
  ASSUME NEW D \in [{"own", "left"} -> DrainStates], NEW d \in {"own", "left"}, NEW v \in DrainStates
  PROVE  LET N == [D EXCEPT ![d] = v]
         IN  /\ N \in [{"own", "left"} -> DrainStates] /\ N[d] = v
             /\ \A k \in {"own", "left"} : k # d => N[k] = D[k]
OBVIOUS

\* No drain.
LEMMA NoDrainFits ==
  ASSUME NEW ever, NEW St
  PROVE  NoDrain \in DrainStates /\ DrainFits(NoDrain, Range(ever)) /\ DrainKeepsTo(NoDrain, ever, St)
<1>1. NoDrain.at = "none" /\ NoDrain.left = <<>> /\ NoDrain \in DrainStates
  BY DEF NoDrain, DrainStates
<1>2. Range(<<>>) = {}
  BY DEF Range
<1> QED
  BY <1>1, <1>2, OrderedEmpty DEF DrainFits, DrainKeepsTo

\* The outbox's part of the invariant, over what is settled.
OutboxKeepsTo(settled) ==
  /\ OutboxOK /\ Range(emitted) \subseteq Range(rows) \cup settled
  /\ Ordered(rows, emitted, settled)
  /\ \A d \in {"own", "left"} : DrainKeepsTo(drains[d], emitted, settled)

\* One drain changes, and nothing else of the outbox but what is settled.
LEMMA OneDrain ==
  ASSUME NEW St, NEW Su, St \subseteq Su, OutboxKeepsTo(St),
         NEW d \in {"own", "left"}, NEW v \in DrainStates,
         DrainFits(v, Range(emitted)), DrainKeepsTo(v, emitted, Su),
         drains' = [drains EXCEPT ![d] = v], rows' = rows, emitted' = emitted, GivenUp' \subseteq RowIds
  PROVE  OutboxKeepsTo(Su)'
<1>1. /\ drains' \in [{"own", "left"} -> DrainStates] /\ drains'[d] = v
      /\ \A k \in {"own", "left"} : k # d => drains'[k] = drains[k]
  BY DrainsTyped DEF OutboxKeepsTo, OutboxOK
<1>2. \A k \in {"own", "left"} : DrainFits(drains'[k], Range(emitted))
  BY <1>1 DEF OutboxKeepsTo, OutboxOK
<1>3. \A k \in {"own", "left"} : DrainKeepsTo(drains'[k], emitted, Su)
  <2>1. ASSUME NEW k \in {"own", "left"}, k # d PROVE DrainKeepsTo(drains'[k], emitted, Su)
    <3>1. drains'[k] = drains[k] /\ DrainKeepsTo(drains[k], emitted, St)
      BY <1>1, <2>1 DEF OutboxKeepsTo
    <3> QED
      BY <3>1, OrderedStays DEF DrainKeepsTo
  <2> QED
    BY <1>1, <2>1
<1>4. Ordered(rows, emitted, Su)
  BY OrderedStays DEF OutboxKeepsTo
<1> QED
  BY <1>1, <1>2, <1>3, <1>4 DEF OutboxKeepsTo, OutboxOK

\* A drain that runs has a row in hand, which was emitted.
LEMMA RowInHand ==
  ASSUME OutboxOK, NEW d \in {"own", "left"}, drains[d].at # "none"
  PROVE  /\ drains[d] \in DrainStates /\ drains[d].left \in Seq(RowIds) /\ drains[d].left # <<>>
         /\ Head(drains[d].left) \in RowIds /\ Head(drains[d].left) \in Range(emitted)
         /\ Range(Tail(drains[d].left)) \subseteq Range(emitted) /\ Tail(drains[d].left) \in Seq(RowIds)
<1> DEFINE v == drains[d]
           s == v.left
<1>1. v \in DrainStates /\ DrainFits(v, Range(emitted)) /\ v.at # "none"
  BY DEF OutboxOK
<1>2. s \in Seq(RowIds) /\ s # <<>> /\ Range(s) \subseteq Range(emitted)
  BY <1>1 DEF DrainStates, DrainFits
<1> HIDE DEF s
<1>3. Head(s) \in RowIds /\ Tail(s) \in Seq(RowIds) /\ Range(s) = {Head(s)} \cup Range(Tail(s))
  BY <1>2, TailIs
<1> QED
  BY <1>1, <1>2, <1>3 DEF s

\* A row is written: every earlier row not settled is in the table.
LEMMA EmitKeeps ==
  ASSUME NEW St, NEW Su, St \subseteq Su, OutboxKeepsTo(St), NEW id \in RowIds, EmitRow(id)
  PROVE  OutboxKeepsTo(Su)' /\ Range(emitted) \subseteq Range(emitted')
<1>1. /\ id \notin Range(emitted) /\ rows' = Append(rows, id) /\ emitted' = Append(emitted, id)
      /\ drains' = drains /\ GivenUp' = GivenUp
  BY DEF EmitRow, GivenUp
<1>2. /\ emitted \in Seq(RowIds) /\ rows \in Seq(RowIds) /\ IsInjective(rows)
      /\ Range(rows) \subseteq Range(emitted) /\ Range(emitted) \subseteq Range(rows) \cup St
      /\ Ordered(rows, emitted, St) /\ GivenUp \subseteq RowIds
      /\ drains \in [{"own", "left"} -> DrainStates]
  BY DEF OutboxKeepsTo, OutboxOK
<1>3. emitted' \in Seq(RowIds) /\ Range(emitted') = Range(emitted) \cup {id}
  BY <1>1, <1>2, AppendIs
<1>4. rows' \in Seq(RowIds) /\ Range(rows') = Range(rows) \cup {id}
  BY <1>1, <1>2, AppendIs
<1>5. id \notin Range(rows)
  BY <1>1, <1>2
<1>6. IsInjective(rows')
  BY <1>1, <1>2, <1>5, OnceAppend
<1>7. Ordered(rows', emitted', St)
  BY <1>1, <1>2, <1>5, OrderedAppend
<1>8. Ordered(rows', emitted', Su)
  BY <1>7, OrderedStays
<1>9. ASSUME NEW d \in {"own", "left"}
      PROVE  DrainFits(drains[d], Range(emitted')) /\ DrainKeepsTo(drains[d], emitted', Su)
  <2> DEFINE s == drains[d].left
  <2>1. /\ DrainFits(drains[d], Range(emitted)) /\ DrainKeepsTo(drains[d], emitted, St)
        /\ drains[d] \in DrainStates
    BY DEF OutboxKeepsTo, OutboxOK
  <2>2. s \in Seq(RowIds) /\ Range(s) \subseteq Range(emitted) /\ Ordered(s, emitted, St)
    BY <2>1 DEF DrainStates, DrainFits, DrainKeepsTo
  <2> HIDE DEF s
  <2>3. Ordered(s, emitted', St)
    BY <1>1, <1>2, <2>2, OrderedGrows
  <2>4. Ordered(s, emitted', Su)
    BY <2>3, OrderedStays
  <2> QED
    BY <1>3, <2>1, <2>4 DEF DrainFits, DrainKeepsTo, s
<1> QED
  BY <1>1, <1>2, <1>3, <1>4, <1>6, <1>8, <1>9 DEF OutboxKeepsTo, OutboxOK

\* A drain starts from the table as it stands.
LEMMA StartKeeps ==
  ASSUME NEW St, NEW Su, St \subseteq Su, OutboxKeepsTo(St), StartDrain
  PROVE  OutboxKeepsTo(Su)'
<1> DEFINE v == [at |-> "send", left |-> rows]
<1>1. /\ rows # <<>> /\ drains' = [drains EXCEPT !["own"] = v]
      /\ rows' = rows /\ emitted' = emitted /\ GivenUp' = GivenUp
  BY DEF StartDrain, GivenUp
<1>2. rows \in Seq(RowIds) /\ Range(rows) \subseteq Range(emitted) /\ Ordered(rows, emitted, Su)
      /\ GivenUp' \subseteq RowIds
  BY <1>1, OrderedStays DEF OutboxKeepsTo, OutboxOK
<1>3. v \in DrainStates /\ v.at = "send" /\ v.left = rows
  BY <1>2 DEF DrainStates
<1> HIDE DEF v
<1>4. DrainFits(v, Range(emitted)) /\ DrainKeepsTo(v, emitted, Su)
  BY <1>1, <1>2, <1>3 DEF DrainFits, DrainKeepsTo
<1>5. PICK d \in {"own", "left"} : d = "own"
  OBVIOUS
<1>6. drains' = [drains EXCEPT ![d] = v]
  BY <1>1, <1>5
<1> QED
  BY <1>1, <1>2, <1>3, <1>4, <1>6, OneDrain

\* The target's answer to a row, or the notice of its refusal: the drain goes on
\* to delete the row only if it is settled.
LEMMA AnsweredKeeps ==
  ASSUME NEW St, NEW Su, St \subseteq Su, OutboxKeepsTo(St), NEW d \in {"own", "left"},
         drains[d].at # "none", NEW at \in {"notice", "delete"},
         at = "delete" => Head(drains[d].left) \in Su,
         drains' = [drains EXCEPT ![d].at = at], rows' = rows, emitted' = emitted, GivenUp' \subseteq RowIds
  PROVE  OutboxKeepsTo(Su)'
<1> DEFINE v == [drains[d] EXCEPT !.at = at]
           s == drains[d].left
<1>1. /\ drains[d] \in DrainStates /\ s # <<>>
      /\ DrainFits(drains[d], Range(emitted)) /\ DrainKeepsTo(drains[d], emitted, St)
  BY RowInHand DEF OutboxKeepsTo, OutboxOK
<1>2. v \in DrainStates /\ v.at = at /\ v.left = s
  BY <1>1 DEF DrainStates
<1>3. drains' = [drains EXCEPT ![d] = v]
  OBVIOUS
<1>4. at = "delete" => Head(s) \in Su
  OBVIOUS
<1> HIDE DEF v, s
<1>5. Ordered(s, emitted, Su)
  BY <1>1, OrderedStays DEF DrainKeepsTo, s
<1>6. Range(s) \subseteq Range(emitted)
  BY <1>1 DEF DrainFits, s
<1>7. DrainFits(v, Range(emitted)) /\ DrainKeepsTo(v, emitted, Su)
  BY <1>1, <1>2, <1>4, <1>5, <1>6 DEF DrainFits, DrainKeepsTo
<1> QED
  BY <1>2, <1>3, <1>7, OneDrain

\* A settled row leaves the table, and the drain goes on to the next.
LEMMA DeleteKeeps ==
  ASSUME NEW St, NEW Su, St \subseteq Su, OutboxKeepsTo(St), NEW d \in {"own", "left"}, DeleteRow(d)
  PROVE  OutboxKeepsTo(Su)'
<1> DEFINE s == drains[d].left
           h == Head(s)
           t == Tail(s)
           v == IF t = <<>> THEN NoDrain ELSE [at |-> "send", left |-> t]
<1>1. /\ drains[d].at = "delete" /\ rows' = Without(rows, h) /\ drains' = [drains EXCEPT ![d] = v]
      /\ emitted' = emitted /\ GivenUp' = GivenUp
  BY DEF DeleteRow, Rest, GivenUp
<1>2. /\ s \in Seq(RowIds) /\ s # <<>> /\ t \in Seq(RowIds) /\ Range(t) \subseteq Range(emitted)
  BY <1>1, RowInHand DEF OutboxKeepsTo
<1>3. h \in St /\ h \in Su /\ Ordered(s, emitted, St)
  BY <1>1 DEF OutboxKeepsTo, DrainKeepsTo
<1> HIDE DEF s
<1>4. Ordered(t, emitted, Su)
  BY <1>2, <1>3, OrderedTail
<1> HIDE DEF h, t
<1>5. v \in DrainStates /\ DrainFits(v, Range(emitted)) /\ DrainKeepsTo(v, emitted, Su)
  <2>1. CASE t = <<>>
    BY <2>1, NoDrainFits
  <2>2. CASE t # <<>>
    <3>1. v \in DrainStates /\ v.at = "send" /\ v.left = t
      BY <1>2, <2>2 DEF DrainStates
    <3> HIDE DEF v
    <3> QED
      BY <1>2, <1>4, <2>2, <3>1 DEF DrainFits, DrainKeepsTo
  <2> QED
    BY <2>1, <2>2
<1> HIDE DEF v
<1>6. /\ rows \in Seq(RowIds) /\ IsInjective(rows) /\ Range(rows) \subseteq Range(emitted)
      /\ Range(emitted) \subseteq Range(rows) \cup St /\ Ordered(rows, emitted, St)
      /\ drains \in [{"own", "left"} -> DrainStates] /\ GivenUp \subseteq RowIds /\ emitted \in Seq(RowIds)
  BY DEF OutboxKeepsTo, OutboxOK
<1>7. /\ rows' \in Seq(RowIds) /\ Range(rows') \subseteq Range(rows)
      /\ Range(rows) \subseteq Range(rows') \cup {h} /\ IsInjective(rows')
  BY <1>1, <1>6, WithoutIs, OnceWithout
<1>8. Ordered(rows', emitted, Su)
  BY <1>1, <1>3, <1>6, OrderedWithout
<1>9. Range(emitted) \subseteq Range(rows') \cup Su
  BY <1>3, <1>6, <1>7
<1>10. /\ drains' \in [{"own", "left"} -> DrainStates] /\ drains'[d] = v
       /\ \A k \in {"own", "left"} : k # d => drains'[k] = drains[k]
  BY <1>1, <1>5, <1>6, DrainsTyped
<1>11. ASSUME NEW k \in {"own", "left"}
       PROVE  DrainFits(drains'[k], Range(emitted)) /\ DrainKeepsTo(drains'[k], emitted, Su)
  <2>1. CASE k = d
    BY <1>5, <1>10, <2>1
  <2>2. CASE k # d
    <3>1. drains'[k] = drains[k] /\ DrainFits(drains[k], Range(emitted))
          /\ DrainKeepsTo(drains[k], emitted, St)
      BY <1>10, <2>2 DEF OutboxKeepsTo, OutboxOK
    <3> QED
      BY <3>1, OrderedStays DEF DrainKeepsTo
  <2> QED
    BY <2>1, <2>2
<1> QED
  BY <1>1, <1>6, <1>7, <1>8, <1>9, <1>10, <1>11 DEF OutboxKeepsTo, OutboxOK

\* A parked source's drain runs on as the one its tenure left.
LEMMA ParkKeeps ==
  ASSUME NEW St, NEW Su, St \subseteq Su, OutboxKeepsTo(St), SourceParks
  PROVE  OutboxKeepsTo(Su)'
<1>1. /\ drains' = [own |-> NoDrain, left |-> drains["own"]]
      /\ rows' = rows /\ emitted' = emitted /\ GivenUp' = GivenUp
  BY DEF SourceParks, GivenUp
<1>2. /\ drains["own"] \in DrainStates /\ DrainFits(drains["own"], Range(emitted))
      /\ DrainKeepsTo(drains["own"], emitted, St)
  BY DEF OutboxKeepsTo, OutboxOK
<1>3. DrainKeepsTo(drains["own"], emitted, Su)
  BY <1>2, OrderedStays DEF DrainKeepsTo
<1>4. NoDrain \in DrainStates /\ DrainFits(NoDrain, Range(emitted)) /\ DrainKeepsTo(NoDrain, emitted, Su)
  BY NoDrainFits
<1>5. drains' \in [{"own", "left"} -> DrainStates] /\ drains'["own"] = NoDrain
      /\ drains'["left"] = drains["own"]
  <2> DEFINE a == NoDrain
             b == drains["own"]
  <2>1. drains' = [own |-> a, left |-> b] /\ a \in DrainStates /\ b \in DrainStates
    BY <1>1, <1>2, <1>4
  <2> HIDE DEF a, b
  <2>2. drains'["own"] = a /\ drains'["left"] = b /\ drains' \in [{"own", "left"} -> DrainStates]
    BY <2>1
  <2> QED
    BY <2>2 DEF a, b
<1>6. \A k \in {"own", "left"} :
        DrainFits(drains'[k], Range(emitted)) /\ DrainKeepsTo(drains'[k], emitted, Su)
  BY <1>2, <1>3, <1>4, <1>5
<1>7. Ordered(rows, emitted, Su)
  BY OrderedStays DEF OutboxKeepsTo
<1> QED
  BY <1>1, <1>5, <1>6, <1>7 DEF OutboxKeepsTo, OutboxOK

\* Every step keeps the outbox, if what the target answered other than by a
\* refusal, and what has a notice, is settled.
LEMMA OutboxKeeps ==
  ASSUME [Next]_vars, NEW St, NEW Su, St \subseteq Su, OutboxKeepsTo(St), GivenUp' \subseteq Su,
         \A d \in {"own", "left"} :
           SendRow(d) /\ Verdict(Head(drains[d].left)) # "refused" => Head(drains[d].left) \in Su
  PROVE  /\ OutboxKeepsTo(Su)'
         /\ Range(emitted) \subseteq Range(emitted') /\ GivenUp \subseteq GivenUp'
<1>1. CASE UNCHANGED outbox
  <2>1. UNCHANGED <<rows, emitted, drains, GivenUp>>
    BY <1>1 DEF outbox, GivenUp
  <2>2. Ordered(rows, emitted, Su)
    BY OrderedStays DEF OutboxKeepsTo
  <2>3. \A d \in {"own", "left"} : DrainKeepsTo(drains[d], emitted, Su)
    BY OrderedStays DEF OutboxKeepsTo, DrainKeepsTo
  <2>4. Range(emitted) \subseteq Range(rows) \cup Su /\ OutboxOK
    BY DEF OutboxKeepsTo
  <2> QED
    BY <2>1, <2>2, <2>3, <2>4 DEF OutboxKeepsTo, OutboxOK
<1>2. ASSUME NEW id \in RowIds, EmitRow(id)
      PROVE  OutboxKeepsTo(Su)' /\ Range(emitted) \subseteq Range(emitted') /\ GivenUp' = GivenUp
  <2>1. GivenUp' = GivenUp
    BY <1>2 DEF EmitRow, GivenUp
  <2> QED
    BY <1>2, <2>1, EmitKeeps
<1>3. ASSUME StartDrain PROVE OutboxKeepsTo(Su)' /\ emitted' = emitted /\ GivenUp' = GivenUp
  <2>1. emitted' = emitted /\ GivenUp' = GivenUp
    BY <1>3 DEF StartDrain, GivenUp
  <2> QED
    BY <1>3, <2>1, StartKeeps
<1>4. ASSUME NEW d \in {"own", "left"}, SendRow(d)
      PROVE  OutboxKeepsTo(Su)' /\ emitted' = emitted /\ GivenUp' = GivenUp
  <2>1. /\ drains[d].at = "send" /\ emitted' = emitted /\ GivenUp' = GivenUp /\ rows' = rows
        /\ drains' = [drains EXCEPT ![d].at =
                        IF Verdict(Head(drains[d].left)) = "refused" THEN "notice" ELSE "delete"]
    BY <1>4 DEF SendRow, GivenUp
  <2>2. PICK at \in {"notice", "delete"} :
          at = IF Verdict(Head(drains[d].left)) = "refused" THEN "notice" ELSE "delete"
    OBVIOUS
  <2>3. drains' = [drains EXCEPT ![d].at = at] /\ drains[d].at # "none"
    BY <2>1, <2>2
  <2>4. at = "delete" => Head(drains[d].left) \in Su
    BY <1>4, <2>2
  <2>5. GivenUp' \subseteq RowIds
    BY <2>1 DEF OutboxKeepsTo, OutboxOK
  <2> QED
    BY <2>1, <2>3, <2>4, <2>5, AnsweredKeeps
<1>5. ASSUME NEW d \in {"own", "left"}, WriteNotice(d)
      PROVE  OutboxKeepsTo(Su)' /\ emitted' = emitted /\ GivenUp \subseteq GivenUp'
  <2>1. /\ drains[d].at = "notice" /\ emitted' = emitted /\ rows' = rows
        /\ GivenUp' = GivenUp \cup {Head(drains[d].left)}
        /\ drains' = [drains EXCEPT ![d].at = "delete"]
    BY <1>5 DEF WriteNotice, GivenUp
  <2>2. PICK at \in {"notice", "delete"} : at = "delete"
    OBVIOUS
  <2>3. drains' = [drains EXCEPT ![d].at = at] /\ drains[d].at # "none"
    BY <2>1, <2>2
  <2>4. Head(drains[d].left) \in RowIds /\ Head(drains[d].left) \in Su
    BY <2>1, <2>3, RowInHand DEF OutboxKeepsTo
  <2>5. GivenUp' \subseteq RowIds /\ GivenUp \subseteq GivenUp'
    BY <2>1, <2>4 DEF OutboxKeepsTo, OutboxOK
  <2> QED
    BY <2>1, <2>3, <2>4, <2>5, AnsweredKeeps
<1>6. ASSUME NEW d \in {"own", "left"}, DeleteRow(d)
      PROVE  OutboxKeepsTo(Su)' /\ emitted' = emitted /\ GivenUp' = GivenUp
  <2>1. emitted' = emitted /\ GivenUp' = GivenUp
    BY <1>6 DEF DeleteRow, GivenUp
  <2> QED
    BY <1>6, <2>1, DeleteKeeps
<1>7. ASSUME NEW d \in {"own", "left"}, DrainStops(d)
      PROVE  OutboxKeepsTo(Su)' /\ emitted' = emitted /\ GivenUp' = GivenUp
  <2>1. /\ drains' = [drains EXCEPT ![d] = NoDrain]
        /\ rows' = rows /\ emitted' = emitted /\ GivenUp' = GivenUp
    BY <1>7 DEF DrainStops, GivenUp
  <2>2. GivenUp' \subseteq RowIds
    BY <2>1 DEF OutboxKeepsTo, OutboxOK
  <2>3. NoDrain \in DrainStates /\ DrainFits(NoDrain, Range(emitted)) /\ DrainKeepsTo(NoDrain, emitted, Su)
    BY NoDrainFits
  <2> QED
    BY <2>1, <2>2, <2>3, OneDrain
<1>8. ASSUME SourceParks PROVE OutboxKeepsTo(Su)' /\ emitted' = emitted /\ GivenUp' = GivenUp
  <2>1. emitted' = emitted /\ GivenUp' = GivenUp
    BY <1>8 DEF SourceParks, GivenUp
  <2> QED
    BY <1>8, <2>1, ParkKeeps
<1> QED
  BY <1>1, <1>2, <1>3, <1>4, <1>5, <1>6, <1>7, <1>8, OutboxMoves DEF OutboxStep

-----------------------------------------------------------------------------
(* The invariant                                                           *)

\* What is before the target is an event somebody fired or emitted.
LEMMA SentKnown ==
  ASSUME ClientOK, OutboxOK, LateOK, NEW id, Sent(id)
  PROVE  id \in Ids /\ Known(id)
<1>1. CASE attempt.at = "sent" /\ id = attempt.id
  <2>1. attempt # NoAttempt
    BY <1>1 DEF NoAttempt
  <2>2. attempt.id \in Range(fires) /\ attempt.id \in ClientIds
    BY <2>1 DEF ClientOK
  <2> QED
    BY <1>1, <2>2 DEF Known, Ids
<1>2. CASE id \in Ids /\ late[id] > 0
  BY <1>2 DEF LateOK
<1>3. CASE \E d \in {"own", "left"} : drains[d].at = "send" /\ id = Head(drains[d].left)
  <2>1. PICK d \in {"own", "left"} : drains[d].at = "send" /\ id = Head(drains[d].left)
    BY <1>3
  <2>2. id \in RowIds /\ id \in Range(emitted)
    BY <2>1, RowInHand
  <2> QED
    BY <2>2 DEF Known, Ids
<1> QED
  BY <1>1, <1>2, <1>3 DEF Sent

\* An answer other than a refusal, to the client or to a drain, is true.
LEMMA AnsweredLogged ==
  ASSUME StreamOK, NEW id \in Ids, Admit(id), Verdict(id) # "refused"
  PROVE  Logged(id)'
<1>1. Verdict(id) \in {"ok", "duplicate"}
  BY DEF Verdict
<1> QED
  BY <1>1, AdmitKeeps

\* The invariant holds initially.
LEMMA InitIInv == Init => IInv
<1> SUFFICES ASSUME Init PROVE IInv
  OBVIOUS
<1>1. /\ \A s \in Streams : log[s].entries = <<>> /\ log[s].mark = 0
      /\ log = [s \in Streams |-> [entries |-> <<>>, mark |-> 0]] /\ seq = 0
  BY DEF Init
<1>2. Range(<<>>) = {} /\ IsInjective(<<>>)
  BY DEF Range, IsInjective
<1>3. \A s \in Streams : Entries(s) = {}
  BY <1>1, <1>2 DEF Entries
<1>4. StreamOK
  <2>1. log \in [Streams -> [entries : Seq(Entry), mark : 0..seq]]
    BY <1>1
  <2>2. seq \in Nat /\ denied \in BOOLEAN
    BY DEF Init
  <2>3. MarkSound
    BY <1>3 DEF MarkSound
  <2> QED
    BY <1>3, <2>1, <2>2, <2>3 DEF StreamOK
<1>5. ServingOK
  BY DEF Init, ServingOK
<1>6. ClientOK
  <2>1. EmptyQueue \in QueueStates
    <3>1. <<>> \in Seq(ClientIds)
      OBVIOUS
    <3> QED
      BY <3>1 DEF EmptyQueue, QueueStates
  <2>2. QueueFits(EmptyQueue, Range(<<>>))
    <3>1. EmptyQueue.entries = <<>> /\ EmptyQueue.arriving = <<>>
      BY DEF EmptyQueue
    <3> QED
      BY <1>2, <3>1 DEF QueueFits
  <2>3. queue \in [1..2 -> QueueStates] /\ \A r \in 1..2 : QueueFits(queue[r], Range(fires))
    BY <2>1, <2>2 DEF Init
  <2>4. route.cur = 1 => queue[2] = EmptyQueue
    BY DEF Init
  <2>5. route \in [cur : 1..2, issued : BOOLEAN] /\ attempt = NoAttempt
    BY DEF Init
  <2>6. fires \in Seq(ClientIds) /\ saved \in Seq(ClientIds) /\ Range(fires) = {} /\ Range(saved) = {}
        /\ IsInjective(saved)
    BY <1>2 DEF Init
  <2>7. outcome \in [ClientIds -> Outcomes] /\ \A id \in ClientIds : outcome[id] = "unfired"
    BY DEF Init, Outcomes
  <2> QED
    BY <2>3, <2>4, <2>5, <2>6, <2>7 DEF ClientOK
<1>7. /\ rows = <<>> /\ emitted = <<>> /\ GivenUp = {} /\ drains \in [{"own", "left"} -> DrainStates]
      /\ \A d \in {"own", "left"} : drains[d] = NoDrain
  <2>1. NoDrain \in DrainStates
    BY NoDrainFits
  <2> QED
    BY <2>1 DEF Init, GivenUp
<1>8. OutboxOK
  <2>1. DrainFits(NoDrain, Range(emitted))
    BY NoDrainFits
  <2> QED
    BY <1>2, <1>7, <2>1 DEF OutboxOK
<1>9. RowOrder
  BY <1>7, NoDrainFits, OrderedEmpty DEF RowOrder
<1>10. RowsGone /\ SourceOK
  <2>1. sourced = {} /\ noticed = {} /\ warned = {}
    BY DEF Init
  <2> QED
    BY <1>2, <1>7, <2>1 DEF RowsGone, SourceOK
<1>11. AnswerOK
  BY DEF Init, AnswerOK
<1>12. LateOK /\ LoggedKnown
  BY <1>3 DEF Init, LateOK, LoggedKnown
<1>13. faults \in Nat
  BY DeliveryAssumption DEF Init
<1> QED
  BY <1>4, <1>5, <1>6, <1>8, <1>9, <1>10, <1>11, <1>12, <1>13 DEF IInv

\* Settled events stay settled, and known ones known.
LEMMA SettledStays ==
  ASSUME IInv, [Next]_vars
  PROVE  /\ StreamOK' /\ ServingOK' /\ ClientOK'
         /\ GivenUp \subseteq GivenUp' /\ Range(emitted) \subseteq Range(emitted')
         /\ SettledIds \subseteq SettledIds'
         /\ \A x \in Ids : Known(x) => Known(x)'
         /\ \A x \in Ids : Logged(x) => Logged(x)'
         /\ \A x \in Ids : Logged(x)' => Logged(x) \/ Sent(x)
         /\ OutboxKeepsTo(SettledIds)'
<1>1. StreamOK /\ ServingOK /\ ClientOK /\ OutboxOK /\ LateOK
  BY DEF IInv
<1>2. \A id : Sent(id) => id \in Ids /\ Known(id)
  BY <1>1, SentKnown
<1>3. /\ StreamOK' /\ ServingOK' /\ \A x \in Ids : Logged(x) => Logged(x)'
      /\ \A x \in Ids : Logged(x)' => Logged(x) \/ Sent(x)
  BY <1>1, <1>2, StreamsKeep
<1>4. /\ ClientOK' /\ Range(fires) \subseteq Range(fires')
      /\ \A x \in ClientIds :
           outcome[x] \in {"refused", "dropped"} => outcome'[x] \in {"refused", "dropped"}
  BY <1>1, ClientKeeps
<1>5. GivenUp \subseteq GivenUp'
  <2>1. CASE OutboxStep
    BY <2>1 DEF OutboxStep, EmitRow, SendRow, WriteNotice, DeleteRow, DrainStops, StartDrain, SourceParks,
                   GivenUp
  <2> QED
    BY <2>1, OutboxMoves DEF outbox, GivenUp
<1>6. SettledIds \subseteq SettledIds'
  BY <1>3, <1>4, <1>5 DEF SettledIds, Settled
<1>7. PICK Su : Su = SettledIds'
  OBVIOUS
<1>8. GivenUp' \subseteq Su
  <2>1. GivenUp' \subseteq RowIds
    <3>1. CASE \E d \in {"own", "left"} : WriteNotice(d)
      <4>1. PICK d \in {"own", "left"} : WriteNotice(d)
        BY <3>1
      <4>2. drains[d].at = "notice" /\ GivenUp' = GivenUp \cup {Head(drains[d].left)}
        BY <4>1 DEF WriteNotice, GivenUp
      <4> QED
        BY <1>1, <4>2, RowInHand DEF OutboxOK
    <3>2. CASE ~ \E d \in {"own", "left"} : WriteNotice(d)
      <4>1. CASE OutboxStep
        BY <1>1, <3>2, <4>1 DEF OutboxOK, OutboxStep, EmitRow, SendRow, DeleteRow, DrainStops,
                                StartDrain, SourceParks, GivenUp
      <4> QED
        BY <1>1, <4>1, OutboxMoves DEF OutboxOK, outbox, GivenUp
    <3> QED
      BY <3>1, <3>2
  <2> QED
    BY <1>7, <2>1 DEF SettledIds, Settled, Ids
<1>9. ASSUME NEW d \in {"own", "left"}, SendRow(d), Verdict(Head(drains[d].left)) # "refused"
      PROVE  Head(drains[d].left) \in Su
  <2>1. drains[d].at = "send" /\ Admit(Head(drains[d].left))
    BY <1>9 DEF SendRow, GivenUp
  <2>2. Head(drains[d].left) \in Ids
    BY <1>1, <2>1, RowInHand DEF Ids
  <2>3. PICK x \in Ids : x = Head(drains[d].left)
    BY <2>2
  <2>4. Admit(x) /\ Verdict(x) # "refused"
    BY <1>9, <2>1, <2>3
  <2>5. Logged(x)'
    BY <1>1, <2>4, AnsweredLogged
  <2>6. x \in SettledIds'
    BY <2>5 DEF SettledIds, Settled
  <2> QED
    BY <1>7, <2>3, <2>6
<1>10. PICK St : St = SettledIds
  OBVIOUS
<1>11. OutboxKeepsTo(St)
  <2>1. Range(emitted) \subseteq Range(rows) \cup St
    <3>1. \A x \in Range(emitted) : x \in RowIds
      BY <1>1, RangeIs DEF OutboxOK
    <3>2. ASSUME NEW x \in Range(emitted), x \notin Range(rows) PROVE x \in SettledIds
      <4>1. Logged(x) \/ x \in GivenUp
        BY <3>2 DEF IInv, RowsGone
      <4>2. x \in Ids
        BY <3>1 DEF Ids
      <4> QED
        BY <4>1, <4>2 DEF SettledIds, Settled
    <3> QED
      BY <1>10, <3>2
  <2> QED
    BY <1>1, <1>10, <2>1 DEF IInv, OutboxKeepsTo, RowOrder
<1>12. OutboxKeepsTo(Su)' /\ Range(emitted) \subseteq Range(emitted')
  BY <1>6, <1>7, <1>8, <1>9, <1>10, <1>11, OutboxKeeps
<1>13. OutboxKeepsTo(SettledIds)'
  BY <1>7, <1>12 DEF OutboxKeepsTo
<1>14. \A x \in Ids : Known(x) => Known(x)'
  BY <1>4, <1>12 DEF Known
<1> QED
  BY <1>3, <1>4, <1>5, <1>6, <1>12, <1>13, <1>14

\* Attempts under way stay attempts of known events.
LEMMA LateKeeps ==
  ASSUME IInv, [Next]_vars
  PROVE  LateOK'
<1>1. late \in [Ids -> Nat] /\ \A id \in Ids : late[id] > 0 => Known(id)
  BY DEF IInv, LateOK
<1>2. \A id : Sent(id) => id \in Ids /\ Known(id)
  BY SentKnown DEF IInv
<1>3. late' \in [Ids -> Nat] /\ \A id \in Ids : late'[id] > 0 => late[id] > 0 \/ Sent(id)
  <2>1. CASE UNCHANGED late
    BY <1>1, <2>1
  <2>2. ASSUME NEW id \in Ids, late[id] > 0, late' = [late EXCEPT ![id] = @ - 1]
        PROVE  late' \in [Ids -> Nat] /\ \A x \in Ids : late'[x] > 0 => late[x] > 0
    <3>1. PICK n \in Nat : n = late[id] - 1
      BY <1>1, <2>2
    <3>2. late' = [late EXCEPT ![id] = n]
      BY <2>2, <3>1
    <3> QED
      BY <1>1, <2>2, <3>2
  <2>3. ASSUME NEW id, Sent(id), late' = [late EXCEPT ![id] = @ + 1]
        PROVE  late' \in [Ids -> Nat] /\ \A x \in Ids : late'[x] > 0 => late[x] > 0 \/ Sent(x)
    <3>1. PICK n \in Nat : n = late[id] + 1
      BY <1>1, <1>2, <2>3
    <3>2. late' = [late EXCEPT ![id] = n] /\ id \in Ids
      BY <1>2, <2>3, <3>1
    <3> QED
      BY <1>1, <2>3, <3>2
  <2> QED
    BY <1>1, <2>1, <2>2, <2>3, LateMoves
<1>4. \A x \in Ids : Known(x) => Known(x)'
  BY SettledStays
<1> QED
  BY <1>1, <1>2, <1>3, <1>4 DEF LateOK

\* What the attempt was answered stays true.
LEMMA AnswerStays ==
  ASSUME IInv, [Next]_vars
  PROVE  AnswerOK'
<1>1. ClientOK /\ StreamOK /\ AnswerOK
  BY DEF IInv
<1>2. \A x \in Ids : Logged(x) => Logged(x)'
  BY SettledStays
<1>3. ASSUME attempt' = attempt PROVE AnswerOK'
  <2>1. SUFFICES ASSUME attempt # NoAttempt, attempt.answer \in {"ok", "duplicate"}
                 PROVE  Logged(attempt.id)'
    BY <1>3 DEF AnswerOK
  <2>2. attempt.id \in Ids /\ Logged(attempt.id)
    BY <1>1, <2>1 DEF ClientOK, AnswerOK, Ids
  <2>3. PICK x \in Ids : x = attempt.id
    BY <2>2
  <2>4. Logged(x)'
    BY <1>2, <2>2, <2>3
  <2> QED
    BY <1>3, <2>3, <2>4 DEF Logged, Entries
<1>4. ASSUME attempt' = NoAttempt PROVE AnswerOK'
  BY <1>4 DEF AnswerOK
<1>5. ASSUME NEW id \in ClientIds, Send(id) PROVE AnswerOK'
  <2>1. attempt'.answer = "none"
    <3>1. attempt' = [at |-> "sent", id |-> id, answer |-> "none"]
      BY <1>5 DEF Send
    <3> QED
      BY <3>1
  <2> QED
    BY <2>1 DEF AnswerOK
<1>6. ASSUME ServerAnswers PROVE AnswerOK'
  <2>1. attempt.id \in ClientIds /\ attempt'.id = attempt.id /\ attempt'.answer = Verdict(attempt.id)
    BY <1>1, <1>6, AnswerKeeps
  <2>2. PICK x \in Ids : x = attempt.id
    BY <2>1 DEF Ids
  <2>3. Admit(x)
    BY <1>6, <2>2 DEF ServerAnswers
  <2>4. Verdict(x) # "refused" => Logged(x)'
    BY <1>1, <2>3, AnsweredLogged
  <2>5. attempt'.answer = Verdict(x) /\ attempt'.id = x
    BY <2>1, <2>2
  <2>6. attempt'.answer \in {"ok", "duplicate"} => Logged(x)'
    BY <2>4, <2>5
  <2> QED
    BY <2>5, <2>6 DEF AnswerOK, Logged, Entries
<1>7. ASSUME UNCHANGED client PROVE attempt' = attempt
  BY <1>7 DEF client
<1>8. ASSUME NEW id \in ClientIds, Fire(id) PROVE attempt' = attempt
  BY <1>8 DEF Fire
<1>9. ASSUME NEW r \in 1..2, Push(r) \/ Save(r) PROVE attempt' = attempt
  BY <1>9 DEF Push, Save
<1>10. ASSUME Settle \/ ConnectionFails PROVE attempt' = NoAttempt
  BY <1>10 DEF Settle, ConnectionFails
<1>11. ASSUME Replace PROVE attempt' = attempt
  BY <1>11 DEF Replace
<1> QED
  BY <1>3, <1>4, <1>5, <1>6, <1>7, <1>8, <1>9, <1>10, <1>11, ClientMoves DEF ClientStep

\* A row's refusal goes where the row says.
LEMMA SourceStays ==
  ASSUME OutboxOK, SourceOK, [Next]_vars
  PROVE  SourceOK'
<1>1. ASSUME UNCHANGED <<emitted, sourced, noticed, warned>> PROVE SourceOK'
  BY <1>1 DEF SourceOK
<1>2. ASSUME NEW id \in RowIds, EmitRow(id) PROVE SourceOK'
  <2>1. /\ emitted \in Seq(RowIds) /\ emitted' = Append(emitted, id) /\ id \notin Range(emitted)
        /\ sourced' \in {sourced, sourced \cup {id}} /\ UNCHANGED <<noticed, warned>>
    BY <1>2 DEF OutboxOK, EmitRow
  <2>2. Range(emitted') = Range(emitted) \cup {id}
    BY <2>1, AppendIs
  <2> QED
    BY <2>1, <2>2 DEF SourceOK
<1>3. ASSUME NEW d \in {"own", "left"}, WriteNotice(d) PROVE SourceOK'
  <2>1. drains[d].at # "none" /\ UNCHANGED <<emitted, sourced>>
    BY <1>3 DEF WriteNotice
  <2>2. PICK id : id = Head(drains[d].left)
    OBVIOUS
  <2>3. id \in Range(emitted)
    BY <2>1, <2>2, RowInHand
  <2>4. IF id \in sourced THEN noticed' = noticed \cup {id} /\ warned' = warned
        ELSE warned' = warned \cup {id} /\ noticed' = noticed
    BY <1>3, <2>2 DEF WriteNotice
  <2> QED
    BY <2>1, <2>3, <2>4 DEF SourceOK
<1>4. CASE UNCHANGED outbox
  BY <1>1, <1>4 DEF outbox
<1>5. ASSUME NEW d \in {"own", "left"}, SendRow(d) \/ DeleteRow(d) \/ DrainStops(d)
      PROVE  UNCHANGED <<emitted, sourced, noticed, warned>>
  BY <1>5 DEF SendRow, DeleteRow, DrainStops
<1>6. ASSUME StartDrain \/ SourceParks PROVE UNCHANGED <<emitted, sourced, noticed, warned>>
  BY <1>6 DEF StartDrain, SourceParks
<1> QED
  BY <1>1, <1>2, <1>3, <1>4, <1>5, <1>6, OutboxMoves DEF OutboxStep

\* Every step keeps the invariant.
LEMMA NextIInv == IInv /\ [Next]_vars => IInv'
<1> SUFFICES ASSUME IInv, [Next]_vars PROVE IInv'
  OBVIOUS
<1>1. /\ StreamOK' /\ ServingOK' /\ ClientOK'
      /\ \A x \in Ids : Known(x) => Known(x)'
      /\ \A x \in Ids : Logged(x)' => Logged(x) \/ Sent(x)
      /\ OutboxKeepsTo(SettledIds)'
  BY SettledStays
<1>2. OutboxOK' /\ RowOrder'
  BY <1>1 DEF OutboxKeepsTo, RowOrder
<1>3. RowsGone'
  <2>1. ASSUME NEW id \in Range(emitted'), id \notin Range(rows')
        PROVE  Logged(id)' \/ id \in GivenUp'
    <3>1. id \in RowIds
      BY <1>2, RangeIs DEF OutboxOK
    <3>2. id \in SettledIds'
      BY <1>1, <2>1 DEF OutboxKeepsTo
    <3> QED
      BY <3>1, <3>2, DeliveryAssumption DEF SettledIds, Settled
  <2> QED
    BY <2>1 DEF RowsGone
<1>4. LoggedKnown'
  <2>1. ASSUME NEW s \in Streams, NEW e \in Entries(s)' PROVE Known(e.id)'
    <3>1. PICK x \in Ids : x = e.id
      <4> DEFINE E == log'[s].entries
      <4>1. E \in Seq(Entry) /\ e \in Range(E)
        BY <1>1, <2>1 DEF StreamOK, Entries
      <4> HIDE DEF E
      <4>2. e \in Entry
        BY <4>1, RangeIs
      <4> QED
        BY <4>2 DEF Entry
    <3>2. Logged(x)'
      BY <1>1, <2>1, <3>1 DEF StreamOK, Logged
    <3>3. Logged(x) => Known(x)
      BY DeliveryAssumption DEF IInv, LoggedKnown, Logged
    <3>4. Sent(x) => Known(x)
      BY SentKnown DEF IInv
    <3>5. Known(x)'
      BY <1>1, <3>2, <3>3, <3>4
    <3> QED
      BY <3>1, <3>5
  <2> QED
    BY <2>1 DEF LoggedKnown
<1>5. faults' \in Nat
  BY FaultsKeep DEF IInv
<1> QED
  BY <1>1, <1>2, <1>3, <1>4, <1>5, LateKeeps, AnswerStays, SourceStays DEF IInv

\* The invariant gives every state its shape.
LEMMA IInvTyped == IInv => TypeOK
<1> SUFFICES ASSUME IInv PROVE TypeOK
  OBVIOUS
<1>1. StreamOK /\ ServingOK /\ ClientOK /\ OutboxOK /\ LateOK /\ faults \in Nat
  BY DEF IInv
<1>2. /\ seq \in Nat /\ denied \in BOOLEAN
      /\ log \in [Streams -> [entries : Seq([id : Ids, seq : Nat, done : BOOLEAN]), mark : 0..seq]]
      /\ \A s \in Streams : \A e \in Entries(s) : e.seq \in 1..seq /\ StreamOf[e.id] = s
  BY <1>1 DEF StreamOK, Entry
<1>3. effects \in [Ids -> Nat] /\ staged \subseteq [seq : Nat, id : Ids, run : BOOLEAN]
  <2>1. effects \in [Ids -> {0, 1}] /\ {0, 1} \subseteq Nat
    BY <1>1 DEF ServingOK
  <2> QED
    BY <1>1, <2>1 DEF ServingOK
<1>4. \A v, w \in staged : v.seq = w.seq \/ v.id = w.id => v = w
  BY <1>1, StagedOnce DEF ServingOK
<1>5. /\ queue \in [1..2 -> [arriving : Seq(ClientIds), entries : Seq(ClientIds),
                             saving : BOOLEAN, closed : BOOLEAN]]
      /\ \A r \in 1..2 : IsInjective(queue[r].entries)
  BY <1>1 DEF ClientOK, QueueStates, QueueFits
<1>6. /\ fires \in Seq(ClientIds) /\ outcome \in [ClientIds -> Outcomes]
      /\ route \in [cur : 1..2, issued : BOOLEAN] /\ saved \in Seq(ClientIds)
      /\ attempt = NoAttempt \/ attempt \in [at : {"sent"}, id : ClientIds, answer : Answers]
  BY <1>1 DEF ClientOK
<1>7. /\ rows \in Seq(RowIds) /\ IsInjective(rows) /\ emitted \in Seq(RowIds)
      /\ sourced \subseteq Range(emitted)
      /\ noticed \subseteq sourced /\ warned \subseteq Range(emitted) \ sourced
      /\ drains \in [{"own", "left"} -> [at : {"none", "send", "notice", "delete"}, left : Seq(RowIds)]]
      /\ \A d \in {"own", "left"} : drains[d].at = "none" <=> drains[d].left = <<>>
  BY <1>1 DEF IInv, OutboxOK, SourceOK, DrainStates, DrainFits
<1> QED
  BY <1>1, <1>2, <1>3, <1>4, <1>5, <1>6, <1>7 DEF TypeOK, LateOK

\* The invariant holds in every reachable state.
THEOREM Invariance == Spec => []IInv
<1>1. Init => IInv
  BY InitIInv
<1>2. IInv /\ [Next]_vars => IInv'
  BY NextIInv
<1> QED
  BY <1>1, <1>2, PTL DEF Spec

\* Every reachable state has the shape TypeOK states; no event stands twice in
\* one queue, in the outbox table or in an open wave.
THEOREM TypeCorrect == Spec => []TypeOK
<1> QED
  BY Invariance, IInvTyped, PTL

\* Everything at or below a stream's watermark had its consequences, however
\* waves commit and park and appends are applied late or again
\* (`maintainStreamEventWatermarks`).
THEOREM WatermarkSound == Spec => []MarkSound
<1>1. IInv => MarkSound
  BY DEF IInv, StreamOK
<1> QED
  BY <1>1, Invariance, PTL

\* A row leaves the outbox only when its event is on the target's stream or was
\* refused, whichever of two drains deleted it; and the refusal is on the source
\* event wherever the row has one (`#writeDeliveryFailureNotice`).
THEOREM RowsDelivered == Spec => []RowsKept
<1>1. IInv => RowsKept
  BY DEF IInv, RowsGone, SourceOK, GivenUp, RowsKept
<1> QED
  BY <1>1, Invariance, PTL

-----------------------------------------------------------------------------
(* Order, where a replica is not replaced before its queue's last save      *)

\* The queue in use: every fire is settled or in line, and in order.
LineKeepsTo(q, ever, settled) ==
  /\ Range(ever) \subseteq Range(q.entries) \cup Range(q.arriving) \cup settled
  /\ LineOrdered(q, ever, settled)

\* More settled events leave less to keep in line.
LEMMA LineStays ==
  ASSUME NEW q, NEW v, NEW ever, NEW St, NEW Su, St \subseteq Su, LineKeepsTo(q, ever, St),
         v.entries = q.entries, v.arriving = q.arriving
  PROVE  LineKeepsTo(v, ever, Su)
BY DEF LineKeepsTo, LineOrdered

\* A new fire arrives behind every earlier one that is not settled.
LEMMA LineFires ==
  ASSUME NEW q \in QueueStates, NEW v, NEW ever \in Seq(ClientIds), QueueFits(q, Range(ever)),
         NEW St, NEW id \in ClientIds, id \notin Range(ever), LineKeepsTo(q, ever, St),
         v.entries = q.entries, v.arriving = Append(q.arriving, id)
  PROVE  LineKeepsTo(v, Append(ever, id), St)
<1> DEFINE e == q.entries
           a == q.arriving
<1>1. /\ e \in Seq(ClientIds) /\ a \in Seq(ClientIds)
      /\ id \notin Range(e) /\ id \notin Range(a)
      /\ Range(ever) \subseteq Range(e) \cup Range(a) \cup St
  BY QueueTyped DEF QueueFits, LineKeepsTo
<1>2. \A x, y \in Ids : Before(ever, x, y) /\ x \notin St =>
         Leads(e, x, y) /\ (x \in Range(e) \/ Leads(a, x, y))
  BY DEF LineKeepsTo, LineOrdered
<1> HIDE DEF e, a
<1>3. Range(Append(a, id)) = Range(a) \cup {id} /\ Range(Append(ever, id)) = Range(ever) \cup {id}
  BY <1>1, AppendIs
<1>4. ASSUME NEW x \in Ids, NEW y \in Ids, Before(Append(ever, id), x, y), x \notin St
      PROVE  Leads(e, x, y) /\ (x \in Range(e) \/ Leads(Append(a, id), x, y))
  <2>1. CASE y = id
    <3>1. ASSUME Before(ever, x, y) PROVE x \in Range(ever)
      BY <3>1, BeforeIn
    <3>2. x \in Range(ever)
      BY <1>4, <3>1, BeforeAppend
    <3>3. x \in Range(e) \cup Range(a)
      BY <1>1, <1>4, <3>2
    <3>4. Leads(e, x, y) /\ Leads(a, x, y)
      BY <1>1, <2>1, LeadsAbsent
    <3>5. x \in Range(a) => Leads(Append(a, id), x, y)
      BY <1>1, <3>4, LeadsAppend
    <3> QED
      BY <3>3, <3>4, <3>5
  <2>2. CASE y # id
    <3>1. Before(ever, x, y)
      BY <1>4, <2>2, BeforeAppend
    <3>2. Leads(a, x, y) => Leads(Append(a, id), x, y)
      BY <1>1, <2>2, LeadsAppend
    <3> QED
      BY <1>2, <1>4, <3>1, <3>2
  <2> QED
    BY <2>1, <2>2
<1>5. v.entries = e /\ v.arriving = Append(a, id)
  BY DEF e, a
<1> QED
  BY <1>1, <1>3, <1>4, <1>5 DEF LineKeepsTo, LineOrdered

\* The head of what arrives joins the queue in its turn.
LEMMA LinePushes ==
  ASSUME NEW q \in QueueStates, NEW v, NEW ever, NEW St, LineKeepsTo(q, ever, St), q.arriving # <<>>,
         v.entries = Append(q.entries, Head(q.arriving)), v.arriving = Tail(q.arriving)
  PROVE  LineKeepsTo(v, ever, St)
<1> DEFINE e == q.entries
           a == q.arriving
           h == Head(a)
<1>1. e \in Seq(ClientIds) /\ a \in Seq(ClientIds) /\ a # <<>>
      /\ Range(ever) \subseteq Range(e) \cup Range(a) \cup St
  BY QueueTyped DEF LineKeepsTo
<1>2. \A x, y \in Ids : Before(ever, x, y) /\ x \notin St =>
         Leads(e, x, y) /\ (x \in Range(e) \/ Leads(a, x, y))
  BY DEF LineKeepsTo, LineOrdered
<1>3. v.entries = Append(e, h) /\ v.arriving = Tail(a)
  OBVIOUS
<1> HIDE DEF e, a
<1>4. h \in ClientIds /\ Range(a) = {h} \cup Range(Tail(a))
  BY <1>1, TailIs
<1>5. \A x : ~ Leads(a, x, h)
  BY <1>1, LeadsHead
<1>6. ASSUME NEW x, NEW y, x # h, Leads(a, x, y) PROVE Leads(Tail(a), x, y)
  BY <1>1, <1>6, LeadsTail
<1> HIDE DEF h
<1>7. Range(Append(e, h)) = Range(e) \cup {h}
  BY <1>1, <1>4, AppendIs
<1>8. ASSUME NEW x \in Ids, NEW y \in Ids, Before(ever, x, y), x \notin St
      PROVE  /\ Leads(Append(e, h), x, y)
             /\ x \in Range(Append(e, h)) \/ Leads(Tail(a), x, y)
  <2>1. Leads(e, x, y) /\ (x \in Range(e) \/ Leads(a, x, y))
    BY <1>2, <1>8
  <2>2. y = h => x \in Range(e)
    BY <1>5, <2>1
  <2>3. Leads(Append(e, h), x, y)
    BY <1>1, <1>4, <2>1, <2>2, LeadsAppend
  <2> QED
    BY <1>6, <1>7, <2>1, <2>3
<1> QED
  BY <1>1, <1>3, <1>4, <1>7, <1>8 DEF LineKeepsTo, LineOrdered

\* A settled entry leaves the line.
LEMMA LineSettles ==
  ASSUME NEW q \in QueueStates, NEW v, NEW ever, NEW St, NEW Su, St \subseteq Su,
         LineKeepsTo(q, ever, St), NEW id \in Su,
         v.entries = Without(q.entries, id), v.arriving = q.arriving
  PROVE  LineKeepsTo(v, ever, Su)
<1> DEFINE e == q.entries
           a == q.arriving
           f == Without(e, id)
<1>1. e \in Seq(ClientIds) /\ Range(ever) \subseteq Range(e) \cup Range(a) \cup St
  BY QueueTyped DEF LineKeepsTo
<1>2. \A x, y \in Ids : Before(ever, x, y) /\ x \notin St =>
         Leads(e, x, y) /\ (x \in Range(e) \/ Leads(a, x, y))
  BY DEF LineKeepsTo, LineOrdered
<1>3. v.entries = f /\ v.arriving = a
  OBVIOUS
<1> HIDE DEF e, a
<1>4. Range(e) \subseteq Range(f) \cup {id}
  BY <1>1, WithoutIs
<1>5. ASSUME NEW x, NEW y, x # id, Leads(e, x, y) PROVE Leads(f, x, y)
  BY <1>1, <1>5, LeadsWithout
<1> HIDE DEF f
<1>6. ASSUME NEW x \in Ids, NEW y \in Ids, Before(ever, x, y), x \notin Su
      PROVE  Leads(f, x, y) /\ (x \in Range(f) \/ Leads(a, x, y))
  <2>1. x \notin St /\ x # id
    BY <1>6
  <2> QED
    BY <1>2, <1>4, <1>5, <1>6, <2>1
<1> QED
  BY <1>1, <1>3, <1>4, <1>6 DEF LineKeepsTo, LineOrdered

\* Every step keeps the queue in use, if what is settled with its firer is
\* settled, and the store is up to date when the replica is replaced.
LEMMA LineKeeps ==
  ASSUME ~ ReplaceEarly, [Next]_vars, ClientOK, ReplaceOK, NEW St, NEW Su, St \subseteq Su,
         LineKeepsTo(queue[route.cur], fires, St), Settle => attempt.id \in Su
  PROVE  ReplaceOK' /\ LineKeepsTo(queue'[route'.cur], fires', Su)
<1> DEFINE r == route.cur
           q == queue[r]
<1>1. r \in 1..2 /\ q \in QueueStates /\ QueueFits(q, Range(fires)) /\ fires \in Seq(ClientIds)
  BY DEF ClientOK
<1>2. LineKeepsTo(q, fires, Su)
  BY LineStays
<1>3. ASSUME UNCHANGED <<fires, queue>>, route'.cur = route.cur, saved' = saved
      PROVE  ReplaceOK' /\ LineKeepsTo(queue'[route'.cur], fires', Su)
  BY <1>2, <1>3 DEF ReplaceOK
<1>4. CASE UNCHANGED client
  BY <1>3, <1>4 DEF client
<1>5. ASSUME NEW id \in ClientIds, Fire(id)
      PROVE  ReplaceOK' /\ LineKeepsTo(queue'[route'.cur], fires', Su)
  <2>1. /\ id \notin Range(fires) /\ route' = route /\ saved' = saved
        /\ queue'[r].entries = q.entries /\ queue'[r].arriving = Append(q.arriving, id)
        /\ queue'[r].saving = q.saving
    BY <1>5, FireKeeps
  <2>2. fires' = Append(fires, id)
    BY <1>5 DEF Fire
  <2> DEFINE v == queue'[r]
  <2> HIDE DEF v, q, r
  <2>3. v.entries = q.entries /\ v.arriving = Append(q.arriving, id) /\ v.saving = q.saving
    BY <2>1 DEF v
  <2>4. LineKeepsTo(v, Append(fires, id), Su)
    BY <1>1, <1>2, <2>1, <2>3, LineFires
  <2>5. LineKeepsTo(queue'[route'.cur], fires', Su)
    BY <2>1, <2>2, <2>4 DEF v, r
  <2>6. ReplaceOK'
    BY <2>1, <2>3 DEF ReplaceOK, v, q, r
  <2> QED
    BY <2>5, <2>6
<1>6. ASSUME NEW id \in ClientIds, Send(id)
      PROVE  ReplaceOK' /\ LineKeepsTo(queue'[route'.cur], fires', Su)
  BY <1>3, <1>6, SendKeeps
<1>7. ASSUME NEW k \in 1..2, Push(k)
      PROVE  ReplaceOK' /\ LineKeepsTo(queue'[route'.cur], fires', Su)
  <2>1. /\ fires' = fires /\ route' = route /\ saved' = saved /\ queue[k].arriving # <<>>
        /\ queue'[k].entries = Append(queue[k].entries, Head(queue[k].arriving))
        /\ queue'[k].arriving = Tail(queue[k].arriving) /\ queue'[k].saving = TRUE
        /\ \A j \in 1..2 : j # k => queue'[j] = queue[j]
    BY <1>7, PushKeeps
  <2>2. CASE k = r
    <3> DEFINE v == queue'[r]
    <3>1. /\ v.entries = Append(q.entries, Head(q.arriving)) /\ v.arriving = Tail(q.arriving)
          /\ q.arriving # <<>> /\ v.saving = TRUE
      BY <2>1, <2>2
    <3> HIDE DEF v, q, r
    <3>2. LineKeepsTo(v, fires, Su)
      BY <1>1, <1>2, <3>1, LinePushes
    <3>3. LineKeepsTo(queue'[route'.cur], fires', Su)
      BY <2>1, <3>2 DEF v, r
    <3>4. ReplaceOK'
      BY <2>1, <3>1 DEF ReplaceOK, v, r
    <3> QED
      BY <3>3, <3>4
  <2>3. CASE k # r
    <3>1. queue'[r] = queue[r]
      BY <1>1, <2>1, <2>3
    <3> QED
      BY <1>2, <2>1, <3>1 DEF ReplaceOK
  <2> QED
    BY <2>2, <2>3
<1>8. ASSUME NEW k \in 1..2, Save(k)
      PROVE  ReplaceOK' /\ LineKeepsTo(queue'[route'.cur], fires', Su)
  <2>1. /\ fires' = fires /\ route' = route /\ saved' = queue[k].entries
        /\ queue'[k].entries = queue[k].entries /\ queue'[k].arriving = queue[k].arriving
        /\ \A j \in 1..2 : j # k => queue'[j] = queue[j]
        /\ k = 2 => route.cur = 2
    BY <1>8, SaveKeeps
  <2>2. queue'[r].entries = q.entries /\ queue'[r].arriving = q.arriving
    BY <1>1, <2>1
  <2>3. LineKeepsTo(queue'[r], fires, Su)
    <3> DEFINE v == queue'[r]
    <3>1. v.entries = q.entries /\ v.arriving = q.arriving
      BY <2>2
    <3> HIDE DEF v, q
    <3>2. LineKeepsTo(v, fires, Su)
      BY <1>2, <3>1, LineStays
    <3> QED
      BY <3>2 DEF v
  <2>4. route.cur = 1 => k = 1
    BY <2>1
  <2>5. ReplaceOK'
    BY <2>1, <2>4 DEF ReplaceOK
  <2> QED
    BY <2>1, <2>3, <2>5
<1>9. ASSUME ServerAnswers \/ ConnectionFails
      PROVE  ReplaceOK' /\ LineKeepsTo(queue'[route'.cur], fires', Su)
  BY <1>3, <1>9 DEF ServerAnswers, ConnectionFails
<1>10. ASSUME Settle
       PROVE  ReplaceOK' /\ LineKeepsTo(queue'[route'.cur], fires', Su)
  <2> DEFINE id == attempt.id
             v == queue'[r]
  <2>1. /\ fires' = fires /\ route' = route
        /\ v.entries = Without(q.entries, id) /\ v.arriving = q.arriving /\ v.saving = TRUE
    BY <1>10, SettleKeeps
  <2>2. id \in Su
    BY <1>10
  <2> HIDE DEF v, q, id, r
  <2>3. LineKeepsTo(q, fires, St)
    BY DEF q, r
  <2>4. LineKeepsTo(v, fires, Su)
    BY <1>1, <2>1, <2>2, <2>3, LineSettles
  <2>5. LineKeepsTo(queue'[route'.cur], fires', Su)
    BY <2>1, <2>4 DEF v, r
  <2>6. ReplaceOK'
    BY <2>1 DEF ReplaceOK, v, r
  <2> QED
    BY <2>5, <2>6
<1>11. ASSUME Replace
       PROVE  ReplaceOK' /\ LineKeepsTo(queue'[route'.cur], fires', Su)
  <2>1. /\ route.cur = 1 /\ route'.cur = 2 /\ fires' = fires
        /\ queue'[2].entries = saved /\ queue'[2].arriving = <<>>
        /\ queue[1].arriving = <<>> /\ ~ queue[1].saving
    BY <1>11, ReplaceKeeps
  <2>2. saved = queue[1].entries
    BY <2>1 DEF ReplaceOK
  <2> DEFINE v == queue'[2]
  <2>3. v.entries = q.entries /\ v.arriving = q.arriving
    BY <2>1, <2>2
  <2> HIDE DEF v, q
  <2>4. LineKeepsTo(v, fires, Su)
    BY <1>2, <2>3, LineStays
  <2> QED
    BY <2>1, <2>4 DEF ReplaceOK, v
<1> QED
  BY <1>4, <1>5, <1>6, <1>7, <1>8, <1>9, <1>10, <1>11, ClientMoves DEF ClientStep

\* A new event comes after the known ones, never before.
LEMMA EarlierStays ==
  ASSUME IInv, [Next]_vars, NEW x \in Ids, NEW y \in Ids, Earlier(x, y)'
  PROVE  /\ Earlier(x, y) \/ ~ Known(y)
<1>1. SUFFICES ASSUME Known(y) PROVE Earlier(x, y)
  OBVIOUS
<1>2. fires \in Seq(ClientIds) /\ emitted \in Seq(RowIds)
  BY DEF IInv, ClientOK, OutboxOK
<1>3. Before(fires', x, y) => Before(fires, x, y)
  <2>1. CASE \E id \in ClientIds : Fire(id)
    <3>1. PICK id \in ClientIds : Fire(id)
      BY <2>1
    <3>2. fires' = Append(fires, id) /\ id \notin Range(fires)
      BY <3>1, FireKeeps DEF Fire, IInv
    <3>3. y # id
      <4>1. id \notin Range(emitted)
        BY <1>2, RangeIs, DeliveryAssumption
      <4> QED
        BY <1>1, <3>2, <4>1 DEF Known
    <3> QED
      BY <1>2, <3>2, <3>3, BeforeAppend
  <2>2. CASE ~ \E id \in ClientIds : Fire(id)
    <3>1. fires' = fires
      <4>1. CASE ClientStep
        BY <2>2, <4>1 DEF ClientStep, Send, Push, Save, ServerAnswers, Settle, ConnectionFails, Replace
      <4> QED
        BY <4>1, ClientMoves DEF client
    <3> QED
      BY <3>1
  <2> QED
    BY <2>1, <2>2
<1>4. Before(emitted', x, y) => Before(emitted, x, y)
  <2>1. CASE \E id \in RowIds : EmitRow(id)
    <3>1. PICK id \in RowIds : EmitRow(id)
      BY <2>1
    <3>2. emitted' = Append(emitted, id) /\ id \notin Range(emitted)
      BY <3>1 DEF EmitRow
    <3>3. y # id
      <4>1. id \notin Range(fires)
        BY <1>2, RangeIs, DeliveryAssumption
      <4> QED
        BY <1>1, <3>2, <4>1 DEF Known
    <3> QED
      BY <1>2, <3>2, <3>3, BeforeAppend
  <2>2. CASE ~ \E id \in RowIds : EmitRow(id)
    <3>1. emitted' = emitted
      <4>1. CASE OutboxStep
        BY <2>2, <4>1 DEF OutboxStep, SendRow, WriteNotice, DeleteRow, DrainStops, StartDrain, SourceParks
      <4> QED
        BY <4>1, OutboxMoves DEF outbox
    <3> QED
      BY <3>1
  <2> QED
    BY <2>1, <2>2
<1> QED
  BY <1>3, <1>4 DEF Earlier

\* An event that is cleared stays so.
LEMMA ClearedStays ==
  ASSUME IInv, [Next]_vars, NEW y \in Ids, Known(y), Cleared(y)
  PROVE  Cleared(y)'
<1>1. ASSUME NEW x \in Ids, Earlier(x, y)' PROVE x \in SettledIds'
  <2>1. Earlier(x, y)
    BY <1>1, EarlierStays
  <2>2. x \in SettledIds
    BY <2>1 DEF Cleared
  <2> QED
    BY <2>2, SettledStays
<1> QED
  BY <1>1 DEF Cleared

\* A row in hand has every earlier row settled.
LEMMA RowCleared ==
  ASSUME IInv, NEW d \in {"own", "left"}, drains[d].at # "none"
  PROVE  Cleared(Head(drains[d].left))
<1> DEFINE s == drains[d].left
           h == Head(s)
<1>1. s \in Seq(RowIds) /\ s # <<>> /\ h \in RowIds
  BY RowInHand DEF IInv
<1>2. Ordered(s, emitted, SettledIds)
  BY DEF IInv, RowOrder, DrainKeepsTo
<1> HIDE DEF s
<1>3. \A x : ~ Leads(s, x, h)
  BY <1>1, LeadsHead
<1> HIDE DEF h
<1>4. ASSUME NEW x \in Ids, Earlier(x, h) PROVE x \in SettledIds
  <2>1. ~ Before(fires, x, h)
    <3>1. SUFFICES ASSUME Before(fires, x, h) PROVE FALSE
      OBVIOUS
    <3>2. fires \in Seq(ClientIds)
      BY DEF IInv, ClientOK
    <3>3. h \in Range(fires)
      BY <3>1, <3>2, BeforeIn
    <3>4. h \in ClientIds
      BY <3>2, <3>3, RangeIs
    <3> QED
      BY <1>1, <3>4, DeliveryAssumption
  <2>2. Before(emitted, x, h)
    BY <1>4, <2>1 DEF Earlier
  <2> QED
    BY <1>1, <1>2, <1>3, <2>2 DEF Ordered, Ids
<1> QED
  BY <1>4 DEF Cleared, h, s

\* The entry the queue sends has every earlier fire of its stream settled.
LEMMA SendCleared ==
  ASSUME IInv, QueueOrder, NEW id \in ClientIds, Sendable(id)
  PROVE  Cleared(id)
<1> DEFINE e == queue[route.cur].entries
<1>1. e \in Seq(ClientIds)
  BY QueueTyped DEF IInv, ClientOK
<1>2. PICK i \in DOMAIN e : e[i] = id /\ \A j \in 1..(i - 1) : StreamOf[e[j]] # StreamOf[id]
  BY DEF Sendable
<1>3. ASSUME NEW x \in Ids, Earlier(x, id) PROVE x \in SettledIds
  <2>1. ~ Before(emitted, x, id)
    <3>1. SUFFICES ASSUME Before(emitted, x, id) PROVE FALSE
      OBVIOUS
    <3>2. emitted \in Seq(RowIds)
      BY DEF IInv, OutboxOK
    <3>3. id \in Range(emitted)
      BY <3>1, <3>2, BeforeIn
    <3>4. id \in RowIds
      BY <3>2, <3>3, RangeIs
    <3> QED
      BY <3>4, DeliveryAssumption
  <2>2. Before(fires, x, id) /\ StreamOf[x] = StreamOf[id]
    BY <1>3, <2>1 DEF Earlier
  <2>3. SUFFICES ASSUME x \notin SettledIds PROVE FALSE
    OBVIOUS
  <2>4. Leads(e, x, id)
    BY <2>2, <2>3 DEF QueueOrder, LineOrdered, Ids
  <2> HIDE DEF e
  <2>5. PICK j \in 1..(i - 1) : e[j] = x
    BY <1>2, <2>4 DEF Leads
  <2> QED
    BY <1>2, <2>2, <2>5
<1> QED
  BY <1>3 DEF Cleared

\* Whatever is before the target is cleared.
LEMMA AllCleared ==
  ASSUME IInv, SentCleared, NEW id \in Ids, Sent(id)
  PROVE  Cleared(id)
<1>1. CASE attempt.at = "sent" /\ id = attempt.id
  <2>1. attempt # NoAttempt
    BY <1>1 DEF NoAttempt
  <2> QED
    BY <1>1, <2>1 DEF SentCleared
<1>2. CASE late[id] > 0
  BY <1>2 DEF SentCleared
<1>3. CASE \E d \in {"own", "left"} : drains[d].at = "send" /\ id = Head(drains[d].left)
  <2>1. PICK d \in {"own", "left"} : drains[d].at = "send" /\ id = Head(drains[d].left)
    BY <1>3
  <2>2. Cleared(Head(drains[d].left))
    BY <2>1, RowCleared
  <2> QED
    BY <2>1, <2>2
<1> QED
  BY <1>1, <1>2, <1>3 DEF Sent

\* What is sent stays cleared, and what is sent anew is.
LEMMA SentKeeps ==
  ASSUME IInv, QueueOrder, SentCleared, [Next]_vars
  PROVE  SentCleared'
<1>1. ASSUME NEW id \in Ids, late'[id] > 0 PROVE Cleared(id)'
  <2>1. late[id] > 0 \/ Sent(id)
    <3>1. late \in [Ids -> Nat]
      BY DEF IInv, LateOK
    <3>2. CASE UNCHANGED late
      BY <1>1, <3>2
    <3>3. CASE \E x \in Ids : late[x] > 0 /\ late' = [late EXCEPT ![x] = @ - 1]
      BY <1>1, <3>1, <3>3
    <3>4. CASE \E x : Sent(x) /\ late' = [late EXCEPT ![x] = @ + 1]
      BY <1>1, <3>1, <3>4
    <3> QED
      BY <3>1, <3>2, <3>3, <3>4, LateMoves
  <2>2. Sent(id)
    BY <2>1 DEF Sent
  <2>3. Known(id) /\ Cleared(id)
    BY <2>2, SentKnown, AllCleared DEF IInv
  <2> QED
    BY <2>3, ClearedStays
<1>2. ASSUME attempt' # NoAttempt PROVE Cleared(attempt.id)' \/ attempt'.id # attempt.id \/ attempt = NoAttempt
  <2>1. SUFFICES ASSUME attempt'.id = attempt.id, attempt # NoAttempt PROVE Cleared(attempt.id)'
    OBVIOUS
  <2>2. attempt.id \in Ids /\ Known(attempt.id) /\ Cleared(attempt.id)
    BY <2>1 DEF IInv, ClientOK, Known, SentCleared, Ids
  <2>3. PICK y \in Ids : y = attempt.id
    BY <2>2
  <2>4. Cleared(y)'
    BY <2>2, <2>3, ClearedStays
  <2>5. y = attempt'.id
    BY <2>1, <2>3
  <2> QED
    BY <2>4, <2>5 DEF Cleared, Earlier
<1>3. ASSUME NEW id \in ClientIds, Send(id) PROVE Cleared(attempt.id)'
  <2>1. attempt' = [at |-> "sent", id |-> id, answer |-> "none"] /\ Sendable(id)
    BY <1>3 DEF Send
  <2>2. id \in Ids /\ Cleared(id)
    BY <2>1, SendCleared DEF Ids
  <2>3. id \in Range(queue[route.cur].entries)
    BY <2>1 DEF Sendable, Range
  <2>4. Known(id)
    BY <2>3 DEF IInv, ClientOK, QueueFits, Known
  <2>5. Cleared(id)'
    BY <2>2, <2>4, ClearedStays
  <2>6. attempt'.id = id
    BY <2>1
  <2> QED
    BY <2>5, <2>6 DEF Cleared, Earlier
<1>4. attempt' = attempt \/ attempt' = NoAttempt \/ (\E id \in ClientIds : Send(id))
      \/ (attempt # NoAttempt /\ attempt'.id = attempt.id)
  <2>1. CASE ServerAnswers
    BY <2>1, AnswerKeeps DEF IInv
  <2>2. CASE ClientStep /\ ~ ServerAnswers
    BY <2>2 DEF ClientStep, Fire, Push, Save, Settle, ConnectionFails, Replace
  <2> QED
    BY <2>1, <2>2, ClientMoves DEF client
<1>5. attempt' # NoAttempt => Cleared(attempt.id)'
  BY <1>2, <1>3, <1>4
<1> QED
  BY <1>1, <1>5 DEF SentCleared

\* The ids of a sequence of entries.
LEMMA IdsOfIs ==
  ASSUME NEW E \in Seq(Entry)
  PROVE  LET ids == [i \in DOMAIN E |-> E[i].id]
         IN  /\ ids \in Seq(Ids) /\ Len(ids) = Len(E)
             /\ \A x : x \in Range(ids) <=> \E e \in Range(E) : e.id = x
<1> DEFINE ids == [i \in DOMAIN E |-> E[i].id]
<1>1. DOMAIN E = 1..Len(E) /\ Len(E) \in Nat /\ \A i \in 1..Len(E) : E[i].id \in Ids
  <2>1. DOMAIN E = 1..Len(E) /\ Len(E) \in Nat /\ \A i \in 1..Len(E) : E[i] \in Entry
    OBVIOUS
  <2>2. \A e \in Entry : e.id \in Ids
    BY DEF Entry
  <2> QED
    BY <2>1, <2>2
<1>2. ids \in Seq(Ids) /\ Len(ids) = Len(E) /\ \A i \in 1..Len(E) : ids[i] = E[i].id
  BY <1>1
<1> HIDE DEF ids
<1>3. ASSUME NEW x PROVE x \in Range(ids) <=> \E e \in Range(E) : e.id = x
  <2>1. x \in Range(ids) <=> \E i \in 1..Len(E) : ids[i] = x
    BY <1>2, RangeIs
  <2>2. \A e : e \in Range(E) <=> \E i \in 1..Len(E) : E[i] = e
    BY RangeIs
  <2> QED
    BY <1>2, <2>1, <2>2
<1> QED
  BY <1>2, <1>3 DEF ids

\* Ids on a stream: typed, and they tell what is logged.
LEMMA IdsTyped ==
  ASSUME StreamOK, NEW s \in Streams
  PROVE  /\ IdsOf(s) \in Seq(Ids)
         /\ \A x \in Ids : StreamOf[x] = s => (x \in Range(IdsOf(s)) <=> Logged(x))
<1> DEFINE E == log[s].entries
<1>1. E \in Seq(Entry)
  BY DocTyped
<1>2. IdsOf(s) = [i \in DOMAIN E |-> E[i].id]
  BY DEF IdsOf
<1>3. Entries(s) = Range(E)
  BY DEF Entries
<1> HIDE DEF E
<1>4. /\ IdsOf(s) \in Seq(Ids)
      /\ \A x : x \in Range(IdsOf(s)) <=> \E e \in Range(E) : e.id = x
  BY <1>1, <1>2, IdsOfIs
<1> QED
  BY <1>3, <1>4 DEF Logged

\* A stream's ids change by an append of one that was sent.
LEMMA IdsMove ==
  ASSUME IInv, [Next]_vars, NEW s \in Streams
  PROVE  \/ IdsOf(s)' = IdsOf(s)
         \/ \E id \in Ids : Sent(id) /\ StreamOf[id] = s /\ IdsOf(s)' = Append(IdsOf(s), id)
<1>1. CASE log' = log
  BY <1>1 DEF IdsOf
<1>2. ASSUME NEW id, Sent(id), Admit(id)
      PROVE  \/ IdsOf(s)' = IdsOf(s)
             \/ \E x \in Ids : Sent(x) /\ StreamOf[x] = s /\ IdsOf(s)' = Append(IdsOf(s), x)
  <2>1. id \in Ids /\ StreamOf[id] \in Streams /\ StreamOK
    BY <1>2, SentKnown, DeliveryAssumption DEF IInv
  <2>2. CASE log' = log
    BY <2>2 DEF IdsOf
  <2>3. ASSUME NEW n \in Nat,
               log' = [log EXCEPT ![StreamOf[id]].entries =
                         Append(@, [id |-> id, seq |-> n, done |-> FALSE])]
        PROVE  \/ IdsOf(s)' = IdsOf(s)
               \/ \E x \in Ids : Sent(x) /\ StreamOf[x] = s /\ IdsOf(s)' = Append(IdsOf(s), x)
    <3> DEFINE a == StreamOf[id]
               w == [id |-> id, seq |-> n, done |-> FALSE]
               E == log[a].entries
               F == Append(E, w)
    <3>1. w \in Entry /\ w.id = id /\ E \in Seq(Entry)
      BY <2>1, <2>3, DocTyped DEF Entry
    <3>2. log' = [log EXCEPT ![a].entries = F]
      BY <2>3
    <3> HIDE DEF w
    <3>3. /\ F \in Seq(Entry) /\ Len(F) = Len(E) + 1 /\ Len(E) \in Nat
          /\ \A i \in 1..Len(E) : F[i] = E[i]
          /\ F[Len(E) + 1] = w
      <4> HIDE DEF E
      <4> QED
        BY <3>1, AppendIs
    <3> HIDE DEF F
    <3>4. log'[a].entries = F /\ \A t \in Streams : t # a => log'[t] = log[t]
      BY <2>1, <3>2, <3>3, EntriesBecome
    <3>5. CASE s # a
      BY <3>4, <3>5 DEF IdsOf
    <3>6. CASE s = a
      <4> DEFINE G == IdsOf(a)
                 H == [i \in DOMAIN F |-> F[i].id]
      <4>1. IdsOf(s)' = H /\ IdsOf(s) = G
        BY <3>4, <3>6 DEF IdsOf
      <4>2. G = [i \in DOMAIN E |-> E[i].id] /\ DOMAIN E = 1..Len(E) /\ DOMAIN F = 1..(Len(E) + 1)
        BY <3>1, <3>3 DEF IdsOf
      <4>3. G \in Seq(Ids) /\ H \in Seq(Ids)
        BY <2>1, <3>3, IdsTyped, IdsOfIs
      <4> HIDE DEF E
      <4>4. Len(G) = Len(E) /\ \A i \in 1..Len(E) : G[i] = E[i].id
        <5> HIDE DEF G
        <5> QED
          BY <3>3, <4>2, <4>3
      <4>5. Len(H) = Len(E) + 1 /\ \A i \in 1..(Len(E) + 1) : H[i] = F[i].id
        BY <3>3, <4>2, <4>3
      <4> DEFINE K == Append(G, id)
      <4>6. /\ K \in Seq(Ids) /\ Len(K) = Len(G) + 1 /\ K[Len(G) + 1] = id
            /\ \A i \in 1..Len(G) : K[i] = G[i]
        <5> HIDE DEF G
        <5> QED
          BY <2>1, <4>3, AppendIs
      <4> HIDE DEF G, H, K
      <4>7. Len(H) = Len(K) /\ Len(H) = Len(E) + 1
        BY <4>4, <4>5, <4>6
      <4>8. ASSUME NEW i \in 1..(Len(E) + 1) PROVE H[i] = K[i]
        <5>1. CASE i = Len(E) + 1
          BY <3>1, <3>3, <4>4, <4>5, <4>6, <5>1
        <5>2. CASE i \in 1..Len(E)
          BY <3>3, <4>4, <4>5, <4>6, <5>2
        <5> QED
          BY <3>3, <5>1, <5>2
      <4>9. H = K
        BY <4>3, <4>6, <4>7, <4>8
      <4> QED
        BY <1>2, <2>1, <3>6, <4>1, <4>9 DEF K
    <3> QED
      BY <3>5, <3>6
  <2> QED
    BY <1>2, <2>1, <2>2, <2>3, AdmitKeeps
<1>3. ASSUME NEW kept \in SUBSET staged, CommitWave(kept) PROVE IdsOf(s)' = IdsOf(s)
  <2> DEFINE E == log[s].entries
             F == log'[s].entries
  <2>1. E \in Seq(Entry)
    BY DocTyped DEF IInv
  <2>2. F \in Seq(Entry) /\ Len(F) = Len(E) /\ \A i \in 1..Len(E) : F[i].id = E[i].id
    BY <1>3, CommitDoc DEF IInv
  <2>3. IdsOf(s) = [i \in DOMAIN E |-> E[i].id] /\ IdsOf(s)' = [i \in DOMAIN F |-> F[i].id]
    BY DEF IdsOf
  <2> HIDE DEF E, F
  <2> QED
    BY <2>1, <2>2, <2>3
<1>4. UNCHANGED stream => log' = log
  BY DEF stream
<1> QED
  BY <1>1, <1>2, <1>3, <1>4, StreamMoves

\* Streams keep the order of fires and rows: what is appended has every earlier
\* event that was not refused on its stream already.
LEMMA LogOrderKeeps ==
  ASSUME IInv, SentCleared, LogOrder, [Next]_vars
  PROVE  LogOrder'
<1>1. ASSUME NEW x \in Ids, NEW y \in Ids, Earlier(x, y)', ~ Refused(x)'
      PROVE  Leads(IdsOf(StreamOf[y])', x, y)
  <2> DEFINE s == StreamOf[y]
  <2>1. s \in Streams /\ StreamOK /\ IdsOf(s) \in Seq(Ids)
    BY DeliveryAssumption, IdsTyped DEF IInv
  <2>2. ~ Refused(x)
    <3>1. /\ GivenUp \subseteq GivenUp'
          /\ \A z \in ClientIds :
               outcome[z] \in {"refused", "dropped"} => outcome'[z] \in {"refused", "dropped"}
      BY SettledStays, ClientKeeps DEF IInv
    <3> QED
      BY <1>1, <3>1 DEF Refused
  <2>3. StreamOf[x] = s
    BY <1>1 DEF Earlier
  <2>4. Leads(IdsOf(s), x, y)
    <3>1. CASE Earlier(x, y)
      BY <2>2, <3>1 DEF LogOrder
    <3>2. CASE ~ Known(y)
      <4>1. ~ Logged(y)
        BY <2>1, <3>2 DEF IInv, LoggedKnown, Logged
      <4>2. y \notin Range(IdsOf(s))
        BY <2>1, <4>1, IdsTyped
      <4> QED
        BY <2>1, <4>2, LeadsAbsent
    <3> QED
      BY <1>1, <3>1, <3>2, EarlierStays
  <2> DEFINE I == IdsOf(s)
             J == IdsOf(s)'
  <2>5. CASE J = I
    BY <2>4, <2>5
  <2>6. ASSUME NEW id \in Ids, Sent(id), J = Append(I, id) PROVE Leads(J, x, y)
    <3>1. ASSUME y = id PROVE x \in Range(I)
      <4>1. Known(y) /\ Cleared(y)
        BY <2>6, <3>1, SentKnown, AllCleared DEF IInv
      <4>2. Earlier(x, y)
        BY <1>1, <4>1, EarlierStays
      <4>3. Settled(x)
        BY <4>1, <4>2 DEF Cleared, SettledIds
      <4>4. Logged(x)
        BY <2>2, <4>3 DEF Settled, Refused
      <4> QED
        BY <2>1, <2>3, <4>4, IdsTyped
    <3>2. I \in Seq(Ids) /\ Leads(I, x, y)
      BY <2>1, <2>4
    <3> HIDE DEF I, J
    <3>3. Leads(Append(I, id), x, y)
      BY <3>1, <3>2, LeadsAppend
    <3> QED
      BY <2>6, <3>3
  <2> QED
    BY <2>1, <2>5, <2>6, IdsMove
<1> QED
  BY <1>1 DEF LogOrder

\* The place where id first stands in the sequence s.
FirstIn(s, id) == CHOOSE i \in DOMAIN s : s[i] = id /\ \A j \in 1..(i - 1) : s[j] # id

\* A sequence in which y has an x ahead of it wherever it stands has its first
\* x before its first y.
LEMMA FirstLeads ==
  ASSUME NEW S, NEW s \in Seq(S), NEW x, NEW y, Leads(s, x, y), y \in Range(s)
  PROVE  x \in Range(s) /\ FirstIn(s, x) < FirstIn(s, y)
<1> DEFINE IsFirst(id, i) == s[i] = id /\ \A j \in 1..(i - 1) : s[j] # id
           First(id) == CHOOSE i \in DOMAIN s : IsFirst(id, i)
<1>0. \A id : FirstIn(s, id) = First(id)
  BY DEF FirstIn
<1>1. DOMAIN s = 1..Len(s) /\ Len(s) \in Nat
  OBVIOUS
<1>2. ASSUME NEW z, z \in Range(s) PROVE \E i \in DOMAIN s : IsFirst(z, i)
  <2> DEFINE T == {i \in 1..Len(s) : s[i] = z}
  <2>1. T # {} /\ T \in SUBSET Nat
    BY <1>2, RangeIs
  <2>2. PICK i \in T : \A j \in T : i <= j
    BY <2>1, LeastOf
  <2>3. ASSUME NEW j \in 1..(i - 1) PROVE s[j] # z
    <3>1. j \in 1..Len(s) /\ ~ (i <= j)
      BY <1>1, <2>2
    <3> QED
      BY <2>2, <3>1
  <2> QED
    BY <1>1, <2>2, <2>3
<1>3. PICK i \in DOMAIN s : i = First(y) /\ IsFirst(y, i)
  <2>1. \E i \in DOMAIN s : IsFirst(y, i)
    BY <1>2
  <2> HIDE DEF IsFirst
  <2> QED
    BY <2>1
<1>4. PICK k \in 1..(i - 1) : s[k] = x
  BY <1>3 DEF Leads
<1>5. x \in Range(s)
  <2>1. k \in 1..Len(s)
    BY <1>1, <1>3, <1>4
  <2> QED
    BY <1>4, <2>1, RangeIs
<1>6. PICK m \in DOMAIN s : m = First(x) /\ IsFirst(x, m)
  <2>1. \E j \in DOMAIN s : IsFirst(x, j)
    BY <1>2, <1>5
  <2> HIDE DEF IsFirst
  <2> QED
    BY <2>1
<1>7. m <= k
  <2>1. SUFFICES ASSUME ~ (m <= k) PROVE FALSE
    OBVIOUS
  <2>2. k \in 1..(m - 1)
    BY <1>1, <1>3, <1>4, <1>6, <2>1
  <2> QED
    BY <1>4, <1>6, <2>2
<1>8. m < i
  BY <1>1, <1>3, <1>4, <1>6, <1>7
<1> QED
  BY <1>0, <1>3, <1>5, <1>6, <1>8

\* The order of a stream's entries, as FiredOrder states it.
LEMMA LogOrderSuffices == IInv /\ LogOrder => FiredOrder
<1> SUFFICES ASSUME IInv, LogOrder, NEW x \in Ids, NEW y \in Ids, Earlier(x, y), Logged(y), ~ Refused(x)
             PROVE  LoggedFirst(x, y)
  BY DEF FiredOrder, Earlier, Refused
<1> DEFINE s == StreamOf[y]
           ids == IdsOf(s)
<1>1. s \in Streams /\ StreamOf[x] = s
  BY DeliveryAssumption DEF Earlier
<1>2. ids \in Seq(Ids) /\ y \in Range(ids) /\ (x \in Range(ids) <=> Logged(x))
  BY <1>1, IdsTyped DEF IInv
<1>3. Leads(ids, x, y)
  BY DEF LogOrder
<1>4. ids = [i \in DOMAIN log[StreamOf[x]].entries |-> log[StreamOf[x]].entries[i].id]
  BY <1>1 DEF IdsOf
<1> HIDE DEF ids
<1>5. x \in Range(ids) /\ FirstIn(ids, x) < FirstIn(ids, y)
  BY <1>2, <1>3, FirstLeads
<1> QED
  BY <1>2, <1>4, <1>5 DEF LoggedFirst, FirstIn

\* The order half of the invariant holds initially.
LEMMA InitOInv == Init => OInv
<1> SUFFICES ASSUME Init PROVE OInv
  OBVIOUS
<1>1. fires = <<>> /\ emitted = <<>> /\ attempt = NoAttempt /\ saved = <<>>
      /\ queue[1].entries = <<>> /\ \A id \in Ids : late[id] = 0
  BY DEF Init, EmptyQueue
<1>2. \A x, y : ~ Before(<<>>, x, y)
  BY DEF Before
<1>3. Range(<<>>) = {}
  BY DEF Range
<1>4. ReplaceOK /\ NothingStranded /\ QueueOrder
  BY <1>1, <1>2, <1>3 DEF ReplaceOK, NothingStranded, QueueOrder, LineOrdered
<1>5. SentCleared /\ LogOrder
  BY <1>1, <1>2 DEF SentCleared, LogOrder, Earlier
<1> QED
  BY <1>4, <1>5 DEF OInv

\* Every step keeps the order half, where a replica is not replaced before its
\* queue's last save.
LEMMA NextOInv ==
  ASSUME ~ ReplaceEarly
  PROVE  IInv /\ OInv /\ [Next]_vars => OInv'
<1> SUFFICES ASSUME IInv, OInv, [Next]_vars PROVE OInv'
  OBVIOUS
<1>1. PICK St : St = SettledIds
  OBVIOUS
<1>2. PICK Su : Su = SettledIds'
  OBVIOUS
<1>3. St \subseteq Su
  BY <1>1, <1>2, SettledStays
<1>4. ClientOK /\ ReplaceOK /\ fires \in Seq(ClientIds)
  BY DEF IInv, OInv, ClientOK
<1>5. LineKeepsTo(queue[route.cur], fires, St)
  <2>1. ASSUME NEW id \in Range(fires), id \notin St
        PROVE  id \in Range(queue[route.cur].entries) \cup Range(queue[route.cur].arriving)
    <3>1. id \in ClientIds
      BY <1>4, RangeIs
    <3>2. ~ Logged(id) /\ outcome[id] \notin {"refused", "dropped"}
      BY <1>1, <2>1, <3>1 DEF SettledIds, Settled, Ids
    <3> QED
      BY <2>1, <3>2 DEF OInv, NothingStranded
  <2> QED
    BY <1>1, <2>1 DEF OInv, QueueOrder, LineKeepsTo
<1>6. Settle => attempt.id \in Su
  <2>1. SUFFICES ASSUME Settle PROVE attempt.id \in Su
    OBVIOUS
  <2>2. /\ attempt # NoAttempt /\ attempt.id \in ClientIds /\ attempt.answer \in Answers
        /\ attempt.answer # "none"
        /\ attempt.answer = "refused" => outcome'[attempt.id] \in {"refused", "dropped"}
    BY <1>4, <2>1, SettleKeeps
  <2>3. PICK z \in Ids : z = attempt.id
    BY <2>2 DEF Ids
  <2>4. CASE attempt.answer = "refused"
    <3>1. outcome'[z] \in {"refused", "dropped"} /\ z \in ClientIds
      BY <2>2, <2>3, <2>4
    <3>2. z \in SettledIds'
      BY <3>1 DEF SettledIds, Settled
    <3> QED
      BY <1>2, <2>3, <3>2
  <2>5. CASE attempt.answer # "refused"
    <3>1. attempt.answer \in {"ok", "duplicate"}
      BY <2>2, <2>5 DEF Answers
    <3>2. Logged(z)
      BY <2>2, <2>3, <3>1 DEF IInv, AnswerOK
    <3>3. z \in St
      BY <1>1, <3>2 DEF SettledIds, Settled
    <3> QED
      BY <1>3, <2>3, <3>3
  <2> QED
    BY <2>4, <2>5
<1>7. ReplaceOK' /\ LineKeepsTo(queue'[route'.cur], fires', Su)
  BY <1>3, <1>4, <1>5, <1>6, LineKeeps
<1>8. QueueOrder'
  BY <1>2, <1>7 DEF QueueOrder, LineKeepsTo
<1>9. NothingStranded'
  <2>1. ASSUME NEW id \in Range(fires')
        PROVE  \/ outcome'[id] \in {"refused", "dropped"} \/ Logged(id)'
               \/ id \in Range(queue'[route'.cur].entries) \cup Range(queue'[route'.cur].arriving)
    <3>1. ClientOK' /\ OutboxKeepsTo(SettledIds)'
      BY SettledStays
    <3>2. id \in ClientIds
      BY <3>1, RangeIs DEF ClientOK
    <3>3. id \notin GivenUp'
      BY <3>1, <3>2, DeliveryAssumption DEF OutboxKeepsTo, OutboxOK
    <3>4. id \in Su \/ id \in Range(queue'[route'.cur].entries) \cup Range(queue'[route'.cur].arriving)
      BY <1>7 DEF LineKeepsTo
    <3> QED
      BY <1>2, <3>3, <3>4 DEF SettledIds, Settled
  <2> QED
    BY <2>1 DEF NothingStranded
<1>10. SentCleared'
  BY SentKeeps DEF OInv
<1>11. LogOrder'
  BY LogOrderKeeps DEF OInv
<1> QED
  BY <1>7, <1>8, <1>9, <1>10, <1>11 DEF OInv

\* Every fire is on its stream, refused, or in the hands of the queue in use,
\* whatever is lost and sent again, and also after a replacement that did not
\* fall before the queue's last save.
THEOREM FiresKept ==
  ASSUME ~ ReplaceEarly
  PROVE  Spec => []NothingStranded
<1>1. Init => OInv
  BY InitOInv
<1>2. IInv /\ OInv /\ [Next]_vars => OInv'
  BY NextOInv
<1>3. OInv => NothingStranded
  BY DEF OInv
<1> QED
  BY <1>1, <1>2, <1>3, Invariance, PTL DEF Spec

\* A stream takes its events in the order they were fired or emitted, whatever
\* was lost, applied late or sent again: each stands behind every earlier one of
\* its source that was not refused (`#nextSendable`, `deliverPendingAppends`).
THEOREM StreamsInOrder ==
  ASSUME ~ ReplaceEarly
  PROVE  Spec => []FiredOrder
<1>1. Init => OInv
  BY InitOInv
<1>2. IInv /\ OInv /\ [Next]_vars => OInv'
  BY NextOInv
<1>3. IInv /\ OInv => FiredOrder
  BY LogOrderSuffices DEF OInv
<1> QED
  BY <1>1, <1>2, <1>3, Invariance, PTL DEF Spec


-----------------------------------------------------------------------------
(* The promise of a fire                                                   *)

\* The client's events that were refused, and those whose firer was told.
Gone == {id \in ClientIds : outcome[id] \in {"refused", "dropped"}}
Told == {id \in ClientIds : outcome[id] = "refused"}

\* What a step of the client may do to what was fired and refused: nothing, one
\* fire, or the refusal of one event, which its firer is told unless replicas
\* are replaced.
ClientIntents ==
  \/ Range(fires') = Range(fires) /\ UNCHANGED <<Gone, Told>>
  \/ \E id \in ClientIds :
       id \notin Range(fires) /\ Range(fires') = Range(fires) \cup {id} /\ UNCHANGED <<Gone, Told>>
  \/ \E id \in ClientIds :
       /\ id \in Range(fires) /\ id \in Refusable /\ id \notin Gone
       /\ fires' = fires /\ Gone' = Gone \cup {id}
       /\ Told' = Told \cup {id} \/ (Told' = Told /\ MayReplace)

\* The same for the outbox: a refusal is told where the row has a source event.
OutboxIntents ==
  \/ UNCHANGED <<emitted, sourced, GivenUp, noticed>>
  \/ \E id \in RowIds :
       /\ id \notin Range(emitted) /\ Range(emitted') = Range(emitted) \cup {id}
       /\ sourced' \in {sourced, sourced \cup {id}} /\ UNCHANGED <<GivenUp, noticed>>
  \/ \E id \in RowIds :
       /\ id \in Range(emitted) /\ id \in Refusable /\ id \notin GivenUp
       /\ emitted' = emitted /\ sourced' = sourced /\ GivenUp' = GivenUp \cup {id}
       /\ noticed' = noticed \cup {id} \/ (noticed' = noticed /\ id \notin sourced)

\* The access list changes in one step only.
LEMMA DeniedStays ==
  ASSUME ~ MayDeny, [Next]_vars
  PROVE  denied' = denied
<1>1. CASE ClientStep
  BY <1>1 DEF ClientStep, Fire, Send, Push, Save, ServerAnswers, Settle, ConnectionFails, Replace,
              stream, Admit
<1>2. CASE OutboxStep
  BY <1>2 DEF OutboxStep, EmitRow, SendRow, WriteNotice, DeleteRow, DrainStops, StartDrain,
              SourceParks, stream, Admit
<1>3. CASE TargetStep
  BY <1>3 DEF TargetStep, Drain, CommitWave, LateApplies, AclChanges, TargetParks, stream, Admit
<1>4. CASE UNCHANGED vars
  BY <1>4 DEF vars, stream
<1> QED
  BY <1>1, <1>2, <1>3, <1>4 DEF Next

\* Where no replica is replaced, a refusal finds its firer waiting.
LEMMA SettleHeard ==
  ASSUME ClientOK, FirersWait, ~ MayReplace, Settle, attempt.answer = "refused"
  PROVE  outcome'[attempt.id] = "refused"
<1> DEFINE id == attempt.id
<1>1. attempt # NoAttempt /\ id \in ClientIds
  BY SettleKeeps
<1>2. id \in Range(queue[1].entries)
  BY <1>1 DEF ClientOK, FirersWait
<1>3. outcome[id] = "open" /\ outcome \in [ClientIds -> Outcomes]
  BY <1>2 DEF FirersWait, ClientOK
<1>4. Tell(id, "refused")
  BY DEF Settle
<1> HIDE DEF id
<1>5. outcome'[id] = "refused"
  BY <1>1, <1>3, <1>4 DEF Tell, id
<1> QED
  BY <1>5 DEF id

\* Every step leaves a firer waiting as long as its event waits.
LEMMA FirersStay ==
  ASSUME ClientOK, FirersWait, [Next]_vars
  PROVE  FirersWait'
<1> SUFFICES ASSUME ~ MayReplace PROVE FirersWait'
  BY DEF FirersWait
<1> DEFINE q == queue[1]
           Line == Range(q.entries) \cup Range(q.arriving)
<1>1. route.cur = 1 /\ ~ q.closed /\ \A id \in Line : outcome[id] = "open"
  BY DEF FirersWait
<1>2. /\ queue \in [1..2 -> QueueStates] /\ q \in QueueStates /\ queue[2] = EmptyQueue
      /\ q.entries \in Seq(ClientIds) /\ q.arriving \in Seq(ClientIds)
  BY <1>1, QueueTyped DEF ClientOK
<1>3. Line \subseteq ClientIds
  BY <1>2, RangeIs
<1>4. ASSUME route'.cur = 1, ~ queue'[1].closed, UNCHANGED outcome,
             Range(queue'[1].entries) \cup Range(queue'[1].arriving) \subseteq Line
      PROVE  FirersWait'
  BY <1>1, <1>4 DEF FirersWait
<1>5. CASE UNCHANGED client
  BY <1>1, <1>4, <1>5 DEF client
<1>6. ASSUME NEW id \in ClientIds, Fire(id) PROVE FirersWait'
  <2>1. /\ route' = route /\ queue'[1].entries = q.entries /\ queue'[1].arriving = Append(q.arriving, id)
        /\ outcome'[id] = "open" /\ \A x \in ClientIds : x # id => outcome'[x] = outcome[x]
    BY <1>1, <1>6, FireKeeps
  <2>2. Range(queue'[1].arriving) = Range(q.arriving) \cup {id}
    BY <1>2, <2>1, AppendIs
  <2>3. queue'[1].closed = q.closed
    <3> DEFINE a == Append(q.arriving, id)
    <3>1. queue' = [queue EXCEPT ![1].arriving = a]
      BY <1>1, <1>6 DEF Fire
    <3> HIDE DEF a
    <3>2. queue'[1] = [q EXCEPT !.arriving = a]
      BY <1>2, <3>1
    <3> QED
      BY <1>2, <3>2 DEF QueueStates
  <2> QED
    BY <1>1, <1>3, <2>1, <2>2, <2>3 DEF FirersWait
<1>7. ASSUME NEW id \in ClientIds, Send(id) PROVE FirersWait'
  <2>1. route'.cur = 1 /\ UNCHANGED <<outcome, queue>>
    BY <1>1, <1>7, SendKeeps
  <2> QED
    BY <1>1, <1>4, <2>1
<1>8. ASSUME NEW k \in 1..2, Push(k) PROVE FirersWait'
  <2>1. k = 1
    BY <1>2, <1>8 DEF Push, EmptyQueue
  <2>2. route' = route /\ Range(queue'[1].entries) \cup Range(queue'[1].arriving) = Line
    BY <1>8, <2>1, PushKeeps
  <2>3. outcome' = outcome
    BY <1>1, <1>8, <2>1 DEF Push
  <2>4. queue'[1].closed = q.closed
    <3> DEFINE a == Tail(q.arriving)
               e == Append(q.entries, Head(q.arriving))
               v == [q EXCEPT !.arriving = a, !.saving = TRUE, !.entries = e]
    <3>1. queue' = [queue EXCEPT ![1] = v]
      BY <1>8, <2>1 DEF Push
    <3> HIDE DEF a, e
    <3>2. queue'[1] = v
      BY <1>2, <3>1
    <3> QED
      BY <1>2, <3>2 DEF QueueStates
  <2> QED
    BY <1>1, <1>4, <2>2, <2>3, <2>4
<1>9. ASSUME NEW k \in 1..2, Save(k) PROVE FirersWait'
  <2>1. /\ route' = route /\ outcome' = outcome
        /\ queue'[k].entries = queue[k].entries /\ queue'[k].arriving = queue[k].arriving
        /\ \A j \in 1..2 : j # k => queue'[j] = queue[j]
    BY <1>9, SaveKeeps
  <2>2. queue'[1].entries = q.entries /\ queue'[1].arriving = q.arriving
    BY <2>1
  <2>3. queue' = [queue EXCEPT ![k].saving = FALSE]
    BY <1>9 DEF Save
  <2>4. queue'[1].closed = q.closed
    BY <1>2, <2>3 DEF QueueStates
  <2> QED
    BY <1>1, <1>4, <2>1, <2>2, <2>4
<1>10. ASSUME ServerAnswers PROVE FirersWait'
  <2>1. UNCHANGED <<outcome, queue, route>>
    BY <1>10 DEF ServerAnswers
  <2> QED
    BY <1>1, <1>4, <2>1
<1>11. ASSUME Settle PROVE FirersWait'
  <2> DEFINE id == attempt.id
  <2>1. /\ id \in ClientIds /\ route' = route /\ queue'[1].arriving = q.arriving
        /\ id \notin Range(queue'[1].entries) /\ id \notin Range(queue'[1].arriving)
        /\ Range(queue'[1].entries) \subseteq Range(q.entries)
        /\ \A x \in ClientIds : x # id => outcome'[x] = outcome[x]
    BY <1>1, <1>11, SettleKeeps
  <2>2. queue'[1].closed = q.closed
    <3> DEFINE e == Without(q.entries, id)
               v == [q EXCEPT !.entries = e, !.saving = TRUE]
    <3>1. queue' = [queue EXCEPT ![1] = v]
      BY <1>1, <1>11 DEF Settle
    <3> HIDE DEF e
    <3>2. queue'[1] = v
      BY <1>2, <3>1
    <3> QED
      BY <1>2, <3>2 DEF QueueStates
  <2> HIDE DEF id
  <2> QED
    BY <1>1, <1>3, <2>1, <2>2 DEF FirersWait
<1>12. ASSUME ConnectionFails PROVE FirersWait'
  <2>1. UNCHANGED <<outcome, queue, route>>
    BY <1>12 DEF ConnectionFails
  <2> QED
    BY <1>1, <1>4, <2>1
<1>13. ~ Replace
  BY DEF Replace
<1> QED
  BY <1>5, <1>6, <1>7, <1>8, <1>9, <1>10, <1>11, <1>12, <1>13, ClientMoves DEF ClientStep

\* A refusal is settled once, and by the target's deterministic verdict.
LEMMA SettleTells ==
  ASSUME ClientOK, ClientDInv, [Next]_vars, Settle
  PROVE  ClientDInv' /\ ClientIntents
<1> DEFINE r == route.cur
<1>1. PICK id \in ClientIds : id = attempt.id
  BY SettleKeeps
<1>2. /\ attempt # NoAttempt /\ attempt' = NoAttempt /\ fires' = fires /\ route' = route
      /\ queue'[r].arriving = queue[r].arriving
      /\ id \notin Range(queue'[r].entries) /\ id \notin Range(queue'[r].arriving)
      /\ Range(queue'[r].entries) \subseteq Range(queue[r].entries)
      /\ \A x \in ClientIds : x # id => outcome'[x] = outcome[x]
      /\ outcome'[id] = "refused" =>
           outcome[id] = "refused" \/ (outcome[id] = "open" /\ attempt.answer = "refused")
      /\ outcome'[id] = "dropped" => outcome[id] = "dropped" \/ attempt.answer = "refused"
  BY <1>1, SettleKeeps
<1>3. id \in Range(queue[r].entries) /\ id \in Range(fires) /\ route.issued
  BY <1>1, <1>2 DEF ClientOK
<1>4. outcome[id] \notin {"refused", "dropped"}
  BY <1>3 DEF ClientDInv, RefusedOnce
<1>5. outcome'[id] \in {"refused", "dropped"} => id \in Refusable
  BY <1>1, <1>2 DEF ClientDInv
<1>6. RefusedOnce'
  <2>1. queue[r].entries \in Seq(ClientIds) /\ queue[r].arriving \in Seq(ClientIds)
    BY QueueTyped DEF ClientOK
  <2>2. Range(queue[r].entries) \cup Range(queue[r].arriving) \subseteq ClientIds
    BY <2>1, RangeIs
  <2>3. \A x \in Range(queue'[r].entries) \cup Range(queue'[r].arriving) :
          outcome'[x] \notin {"refused", "dropped"}
    BY <1>2, <2>2 DEF ClientDInv, RefusedOnce
  <2> QED
    BY <1>2, <1>3, <2>3 DEF RefusedOnce
<1>7. ClientDInv'
  <2>1. FirersWait'
    BY FirersStay DEF ClientDInv
  <2> QED
    BY <1>2, <1>5, <1>6, <2>1 DEF ClientDInv, NoAttempt
<1>8. ClientIntents
  <2>1. CASE outcome'[id] \in {"refused", "dropped"}
    <3>1. Gone' = Gone \cup {id} /\ id \notin Gone
      BY <1>2, <1>4, <2>1 DEF Gone
    <3>2. Told' = Told \cup {id} \/ (Told' = Told /\ outcome'[id] = "dropped")
      BY <1>2, <1>4, <2>1 DEF Told
    <3>3. outcome'[id] = "dropped" => MayReplace
      BY <1>1, <1>2, <1>4, SettleHeard DEF ClientDInv
    <3> QED
      BY <1>2, <1>3, <1>5, <2>1, <3>1, <3>2, <3>3 DEF ClientIntents
  <2>2. CASE outcome'[id] \notin {"refused", "dropped"}
    <3>1. Gone' = Gone /\ Told' = Told
      BY <1>2, <1>4, <2>2 DEF Gone, Told
    <3> QED
      BY <1>2, <3>1 DEF ClientIntents
  <2> QED
    BY <2>1, <2>2
<1> QED
  BY <1>7, <1>8

\* The other steps of the client refuse nothing.
LEMMA ClientTells ==
  ASSUME ClientOK, ClientDInv, ~ denied, [Next]_vars
  PROVE  ClientDInv' /\ ClientIntents
<1> DEFINE r == route.cur
           Line == Range(queue[r].entries) \cup Range(queue[r].arriving)
<1>0. FirersWait'
  BY FirersStay DEF ClientDInv
<1>1. r \in 1..2 /\ Line \subseteq ClientIds
  <2>1. r \in 1..2 /\ queue[r] \in QueueStates
    BY DEF ClientOK
  <2>2. queue[r].entries \in Seq(ClientIds) /\ queue[r].arriving \in Seq(ClientIds)
    BY <2>1, QueueTyped
  <2> QED
    BY <2>1, <2>2, RangeIs
<1>2. ASSUME fires' = fires, route' = route, attempt' = attempt,
             Range(queue'[r].entries) \cup Range(queue'[r].arriving) \subseteq Line,
             \A x \in ClientIds : outcome'[x] = "refused" <=> outcome[x] = "refused",
             \A x \in ClientIds : outcome'[x] \in {"refused", "dropped"} <=>
                                  outcome[x] \in {"refused", "dropped"}
      PROVE  ClientDInv' /\ ClientIntents
  <2>1. RefusedOnce'
    <3>1. \A x \in Line : outcome[x] \notin {"refused", "dropped"}
      BY DEF ClientDInv, RefusedOnce
    <3>2. \A x \in Range(queue'[r].entries) \cup Range(queue'[r].arriving) :
            outcome'[x] \notin {"refused", "dropped"}
      BY <1>1, <1>2, <3>1
    <3>3. ~ route.issued => \A x \in ClientIds : outcome'[x] \notin {"refused", "dropped"}
      BY <1>2 DEF ClientDInv, RefusedOnce
    <3> QED
      BY <1>2, <3>2, <3>3 DEF RefusedOnce
  <2>2. UNCHANGED <<Gone, Told>>
    BY <1>2 DEF Gone, Told
  <2>3. \A x \in ClientIds : outcome'[x] \in {"refused", "dropped"} => x \in Refusable
    BY <1>2 DEF ClientDInv
  <2> QED
    BY <1>0, <1>2, <2>1, <2>2, <2>3 DEF ClientDInv, ClientIntents
<1>3. CASE UNCHANGED client
  BY <1>2, <1>3 DEF client
<1>4. ASSUME NEW id \in ClientIds, Fire(id) PROVE ClientDInv' /\ ClientIntents
  <2>1. /\ Range(fires') = Range(fires) \cup {id} /\ id \notin Range(fires)
        /\ route' = route /\ attempt' = attempt
        /\ queue'[r].entries = queue[r].entries
        /\ queue'[r].arriving = Append(queue[r].arriving, id)
        /\ outcome'[id] = "open" /\ \A x \in ClientIds : x # id => outcome'[x] = outcome[x]
    BY <1>4, FireKeeps
  <2>2. outcome[id] = "unfired"
    BY <1>4 DEF Fire
  <2>3. Range(queue'[r].arriving) = Range(queue[r].arriving) \cup {id}
    <3>1. queue[r].arriving \in Seq(ClientIds)
      BY <1>1, QueueTyped DEF ClientOK
    <3> QED
      BY <2>1, <3>1, AppendIs
  <2>4. \A x \in ClientIds :
          /\ outcome'[x] = "refused" <=> outcome[x] = "refused"
          /\ outcome'[x] \in {"refused", "dropped"} <=> outcome[x] \in {"refused", "dropped"}
    BY <2>1, <2>2
  <2>5. RefusedOnce'
    <3>1. \A x \in Line \cup {id} : outcome'[x] \notin {"refused", "dropped"}
      BY <1>1, <2>1, <2>4 DEF ClientDInv, RefusedOnce
    <3>2. ~ route.issued => \A x \in ClientIds : outcome'[x] \notin {"refused", "dropped"}
      BY <2>4 DEF ClientDInv, RefusedOnce
    <3> QED
      BY <2>1, <2>3, <3>1, <3>2 DEF RefusedOnce
  <2>6. UNCHANGED <<Gone, Told>>
    BY <2>4 DEF Gone, Told
  <2>7. \A x \in ClientIds : outcome'[x] \in {"refused", "dropped"} => x \in Refusable
    BY <2>1 DEF ClientDInv
  <2> QED
    BY <1>0, <2>1, <2>5, <2>6, <2>7 DEF ClientDInv, ClientIntents
<1>5. ASSUME NEW id \in ClientIds, Send(id) PROVE ClientDInv' /\ ClientIntents
  <2>1. /\ attempt' = [at |-> "sent", id |-> id, answer |-> "none"]
        /\ route'.cur = r /\ route'.issued = TRUE /\ UNCHANGED <<fires, outcome, queue>>
    BY <1>5, SendKeeps
  <2>2. attempt'.answer = "none"
    BY <2>1
  <2> HIDE DEF r
  <2> QED
    BY <1>0, <2>1, <2>2 DEF ClientDInv, RefusedOnce, ClientIntents, Gone, Told, r
<1>6. ASSUME NEW k \in 1..2, Push(k) PROVE ClientDInv' /\ ClientIntents
  <2>1. /\ fires' = fires /\ route' = route /\ attempt' = attempt
        /\ \A j \in 1..2 : j # k => queue'[j] = queue[j]
        /\ Range(queue'[k].entries) \cup Range(queue'[k].arriving)
             = Range(queue[k].entries) \cup Range(queue[k].arriving)
        /\ \A x \in ClientIds : outcome'[x] \in {"refused", "dropped"} <=>
                                outcome[x] \in {"refused", "dropped"}
        /\ \A x \in ClientIds : outcome'[x] = "refused" <=> outcome[x] = "refused"
    BY <1>6, PushKeeps
  <2>2. Range(queue'[r].entries) \cup Range(queue'[r].arriving) \subseteq Line
    BY <1>1, <2>1
  <2> HIDE DEF r, Line
  <2> QED
    BY <1>2, <2>1, <2>2
<1>7. ASSUME NEW k \in 1..2, Save(k) PROVE ClientDInv' /\ ClientIntents
  <2>1. /\ fires' = fires /\ route' = route /\ attempt' = attempt /\ outcome' = outcome
        /\ queue'[k].entries = queue[k].entries /\ queue'[k].arriving = queue[k].arriving
        /\ \A j \in 1..2 : j # k => queue'[j] = queue[j]
    BY <1>7, SaveKeeps
  <2>2. Range(queue'[r].entries) \cup Range(queue'[r].arriving) \subseteq Line
    BY <1>1, <2>1
  <2> HIDE DEF r, Line
  <2> QED
    BY <1>2, <2>1, <2>2
<1>8. ASSUME ServerAnswers PROVE ClientDInv' /\ ClientIntents
  <2>1. /\ UNCHANGED <<fires, outcome, queue, route>>
        /\ attempt'.id = attempt.id /\ attempt'.answer = Verdict(attempt.id)
    BY <1>8, AnswerKeeps
  <2>2. attempt'.answer = "refused" => attempt'.id \in Refusable
    BY <2>1 DEF Verdict
  <2> QED
    BY <1>0, <2>1, <2>2 DEF ClientDInv, RefusedOnce, ClientIntents, Gone, Told
<1>9. ASSUME ConnectionFails PROVE ClientDInv' /\ ClientIntents
  <2>1. attempt' = NoAttempt /\ UNCHANGED <<fires, outcome, queue, route>>
    BY <1>9, FailKeeps
  <2>2. attempt'.answer = "none"
    BY <2>1 DEF NoAttempt
  <2> QED
    BY <1>0, <2>1, <2>2 DEF ClientDInv, RefusedOnce, ClientIntents, Gone, Told
<1>10. ASSUME Replace PROVE ClientDInv' /\ ClientIntents
  <2>1. /\ route.issued = FALSE /\ fires' = fires /\ attempt' = attempt
        /\ \A x \in ClientIds : outcome'[x] # outcome[x] => outcome[x] = "open" /\ outcome'[x] = "closed"
    BY <1>10, ReplaceKeeps
  <2>2. ClientOK'
    BY <1>10, ReplaceKeeps
  <2>3. \A x \in ClientIds : outcome'[x] \notin {"refused", "dropped"}
    BY <2>1 DEF ClientDInv, RefusedOnce
  <2>4. RefusedOnce'
    <3>1. route'.cur \in 1..2 /\ queue'[route'.cur] \in QueueStates
      BY <2>2 DEF ClientOK
    <3>2. /\ queue'[route'.cur].entries \in Seq(ClientIds)
          /\ queue'[route'.cur].arriving \in Seq(ClientIds)
      BY <3>1, QueueTyped
    <3>3. Range(queue'[route'.cur].entries) \cup Range(queue'[route'.cur].arriving) \subseteq ClientIds
      BY <3>2, RangeIs
    <3> QED
      BY <2>3, <3>3 DEF RefusedOnce
  <2>5. UNCHANGED <<Gone, Told>>
    BY <2>1 DEF Gone, Told
  <2>6. \A x \in ClientIds : outcome'[x] \in {"refused", "dropped"} => x \in Refusable
    BY <2>1 DEF ClientDInv
  <2> QED
    BY <1>0, <2>1, <2>4, <2>5, <2>6 DEF ClientDInv, ClientIntents
<1> QED
  BY <1>3, <1>4, <1>5, <1>6, <1>7, <1>8, <1>9, <1>10, SettleTells, ClientMoves DEF ClientStep

\* The outbox gives a row up once, and only for the target's deterministic
\* refusals.
LEMMA OutboxTells ==
  ASSUME OutboxOK, SourceOK, OutboxDInv, [Next]_vars
  PROVE  OutboxDInv' /\ OutboxIntents
<1>1. drains \in [{"own", "left"} -> DrainStates] /\ emitted \in Seq(RowIds)
  BY DEF OutboxOK
<1>2. NoDrain.at = "none"
  BY DEF NoDrain
<1>3. ASSUME NEW d \in {"own", "left"}, NEW v, drains' = [drains EXCEPT ![d] = v],
             v.at # "notice", GivenUp' \subseteq Refusable
      PROVE  OutboxDInv'
  BY <1>1, <1>3 DEF OutboxDInv
<1>4. CASE UNCHANGED outbox
  BY <1>4 DEF outbox, OutboxDInv, OutboxIntents, GivenUp
<1>5. ASSUME NEW id \in RowIds, EmitRow(id) PROVE OutboxDInv' /\ OutboxIntents
  <2>1. /\ id \notin Range(emitted) /\ emitted' = Append(emitted, id)
        /\ drains' = drains /\ UNCHANGED <<GivenUp, noticed>>
        /\ sourced' \in {sourced, sourced \cup {id}}
    BY <1>5 DEF EmitRow, GivenUp
  <2>2. Range(emitted') = Range(emitted) \cup {id}
    BY <1>1, <2>1, AppendIs
  <2> QED
    BY <2>1, <2>2 DEF OutboxDInv, OutboxIntents
<1>6. ASSUME StartDrain PROVE OutboxDInv' /\ OutboxIntents
  <2>1. /\ drains' = [drains EXCEPT !["own"] = [at |-> "send", left |-> rows]]
        /\ UNCHANGED <<emitted, sourced, GivenUp, noticed>>
    BY <1>6 DEF StartDrain, GivenUp
  <2> QED
    BY <1>3, <2>1 DEF OutboxIntents, OutboxDInv
<1>7. ASSUME NEW d \in {"own", "left"}, SendRow(d) PROVE OutboxDInv' /\ OutboxIntents
  <2>1. /\ drains[d].at = "send" /\ UNCHANGED <<emitted, sourced, GivenUp, noticed>>
        /\ drains' = [drains EXCEPT ![d].at =
                        IF Verdict(Head(drains[d].left)) = "refused" THEN "notice" ELSE "delete"]
    BY <1>7 DEF SendRow, GivenUp
  <2>2. Head(drains[d].left) \in RowIds /\ drains[d] \in DrainStates
    BY <2>1, RowInHand
  <2>3. Verdict(Head(drains[d].left)) = "refused" => Head(drains[d].left) \in Refusable
    BY <2>2, DeliveryAssumption DEF Verdict
  <2>4. \A k \in {"own", "left"} : k # d => drains'[k] = drains[k]
    BY <1>1, <2>1
  <2>5. /\ drains'[d].left = drains[d].left
        /\ drains'[d].at = "notice" => Verdict(Head(drains[d].left)) = "refused"
    BY <1>1, <2>1, <2>2 DEF DrainStates
  <2>6. \A k \in {"own", "left"} : drains'[k].at = "notice" => Head(drains'[k].left) \in Refusable
    BY <2>3, <2>4, <2>5 DEF OutboxDInv
  <2> QED
    BY <2>1, <2>6 DEF OutboxDInv, OutboxIntents
<1>8. ASSUME NEW d \in {"own", "left"}, WriteNotice(d) PROVE OutboxDInv' /\ OutboxIntents
  <2>1. /\ drains[d].at = "notice" /\ emitted' = emitted
        /\ GivenUp' = GivenUp \cup {Head(drains[d].left)}
        /\ drains' = [drains EXCEPT ![d].at = "delete"]
    BY <1>8 DEF WriteNotice, GivenUp
  <2>2. PICK id \in RowIds : id = Head(drains[d].left)
    BY <2>1, RowInHand
  <2>3. id \in Range(emitted) /\ id \in Refusable
    BY <2>1, <2>2, RowInHand DEF OutboxDInv
  <2>4. GivenUp' = GivenUp \cup {id} /\ GivenUp' \subseteq Refusable
    BY <2>1, <2>2, <2>3 DEF OutboxDInv
  <2>5. OutboxDInv'
    <3> DEFINE v == [drains[d] EXCEPT !.at = "delete"]
    <3>1. drains' = [drains EXCEPT ![d] = v]
      BY <2>1
    <3>2. v.at # "notice"
      BY <1>1 DEF DrainStates
    <3> HIDE DEF v
    <3> QED
      BY <1>3, <2>4, <3>1, <3>2
  <2>6. OutboxIntents
    <3>0. sourced' = sourced /\ noticed' = IF id \in sourced THEN noticed \cup {id} ELSE noticed
      BY <1>8, <2>2 DEF WriteNotice
    <3>1. CASE id \in GivenUp
      <4>1. id \in sourced => id \in noticed
        BY <3>1 DEF GivenUp, SourceOK
      <4> QED
        BY <2>1, <2>4, <3>0, <3>1, <4>1 DEF OutboxIntents
    <3>2. CASE id \notin GivenUp
      BY <2>1, <2>3, <2>4, <3>0, <3>2 DEF OutboxIntents
    <3> QED
      BY <3>1, <3>2
  <2> QED
    BY <2>5, <2>6
<1>9. ASSUME NEW d \in {"own", "left"}, DeleteRow(d) PROVE OutboxDInv' /\ OutboxIntents
  <2> DEFINE v == IF Rest(d) = <<>> THEN NoDrain ELSE [at |-> "send", left |-> Rest(d)]
  <2>1. /\ drains' = [drains EXCEPT ![d] = v]
        /\ UNCHANGED <<emitted, sourced, GivenUp, noticed>>
    BY <1>9 DEF DeleteRow, GivenUp
  <2>2. v.at # "notice"
    BY <1>2
  <2> HIDE DEF v
  <2> QED
    BY <1>3, <2>1, <2>2 DEF OutboxIntents, OutboxDInv
<1>10. ASSUME NEW d \in {"own", "left"}, DrainStops(d) PROVE OutboxDInv' /\ OutboxIntents
  <2>1. /\ drains' = [drains EXCEPT ![d] = NoDrain]
        /\ UNCHANGED <<emitted, sourced, GivenUp, noticed>>
    BY <1>10 DEF DrainStops, GivenUp
  <2> QED
    BY <1>2, <1>3, <2>1 DEF OutboxIntents, OutboxDInv
<1>11. ASSUME SourceParks PROVE OutboxDInv' /\ OutboxIntents
  <2>1. /\ drains' = [own |-> NoDrain, left |-> drains["own"]]
        /\ UNCHANGED <<emitted, sourced, GivenUp, noticed>>
    BY <1>11 DEF SourceParks, GivenUp
  <2>2. drains'["own"] = NoDrain /\ drains'["left"] = drains["own"]
    BY <2>1
  <2> QED
    BY <1>2, <2>1, <2>2 DEF OutboxIntents, OutboxDInv
<1> QED
  BY <1>4, <1>5, <1>6, <1>7, <1>8, <1>9, <1>10, <1>11, OutboxMoves DEF OutboxStep

\* The invariant of refusals holds initially, and every step keeps it.
LEMMA RefusalsKeep ==
  ASSUME ~ MayDeny
  PROVE  /\ Init => DInv
         /\ IInv /\ DInv /\ [Next]_vars => DInv' /\ ClientIntents /\ OutboxIntents
<1>1. ASSUME Init PROVE DInv
  <2>1. /\ attempt.answer = "none" /\ ~ denied /\ GivenUp = {}
        /\ \A d \in {"own", "left"} : drains[d].at = "none"
    BY <1>1 DEF Init, NoAttempt, NoDrain, GivenUp
  <2>2. \A id \in ClientIds : outcome[id] = "unfired"
    BY <1>1 DEF Init
  <2>3. Range(queue[route.cur].entries) = {} /\ Range(queue[route.cur].arriving) = {}
    <3>1. route.cur = 1 /\ queue[1].entries = <<>> /\ queue[1].arriving = <<>>
      BY <1>1 DEF Init, EmptyQueue
    <3> QED
      BY <3>1 DEF Range
  <2>4. route.cur = 1 /\ ~ queue[1].closed
    BY <1>1 DEF Init, EmptyQueue
  <2> QED
    BY <2>1, <2>2, <2>3, <2>4 DEF DInv, ClientDInv, OutboxDInv, RefusedOnce, FirersWait
<1>2. ASSUME IInv, DInv, [Next]_vars PROVE DInv' /\ ClientIntents /\ OutboxIntents
  <2>1. ClientOK /\ OutboxOK /\ SourceOK /\ ClientDInv /\ OutboxDInv /\ ~ denied
    BY <1>2 DEF IInv, DInv
  <2>2. ClientDInv' /\ ClientIntents
    BY <1>2, <2>1, ClientTells
  <2>3. OutboxDInv' /\ OutboxIntents
    BY <1>2, <2>1, OutboxTells
  <2>4. ~ denied'
    BY <1>2, <2>1, DeniedStays
  <2> QED
    BY <2>2, <2>3, <2>4 DEF DInv
<1> QED
  BY <1>1, <1>2

\* The events that were refused, and those whose refusal was told.
RefusedIds == Gone \cup GivenUp
ToldIds == Told \cup noticed

\* An event that is refused had no consequences and will have none.
LEMMA RefusedIdle ==
  ASSUME IInv, DInv, NEW id \in Ids, id \in Refusable
  PROVE  effects[id] = 0 /\ ~ Logged(id)
<1>1. StreamOf[id] \in Streams /\ StreamOK /\ ServingOK
  BY DeliveryAssumption DEF IInv
<1>2. ~ Logged(id)
  BY <1>1 DEF Logged, StreamOK
<1> QED
  BY <1>1, <1>2 DEF ServingOK, Logged

\* A committed wave performs what it ran, and all of that was open.
LEMMA WavePerforms ==
  ASSUME IInv, DInv, NEW kept \in SUBSET staged, CommitWave(kept)
  PROVE  \/ effects' = effects
         \/ \E ids \in SUBSET Ids :
              /\ ids # {}
              /\ \A id \in ids : Known(id) /\ effects[id] = 0 /\ id \notin RefusedIds
              /\ effects' = [id \in Ids |-> IF id \in ids THEN 1 ELSE effects[id]]
<1>1. StreamOK /\ ServingOK /\ LoggedKnown /\ ClientDInv /\ OutboxDInv
  BY DEF IInv, DInv
<1>2. effects \in [Ids -> {0, 1}] /\ DOMAIN effects' = Ids
  BY <1>1 DEF ServingOK, CommitWave
<1>3. effects' = [id \in Ids |-> effects'[id]]
  BY DEF CommitWave
<1> DEFINE D == {id \in Ids : effects'[id] # effects[id]}
<1>4. ASSUME NEW id \in D
      PROVE  effects[id] = 0 /\ effects'[id] = 1 /\ Known(id) /\ id \notin RefusedIds
  <2>1. id \in Ids /\ effects[id] = 0 /\ effects'[id] = 1 /\ \E w \in kept : w.id = id
    BY <1>1, <1>4, RunsOnce
  <2>2. PICK w \in staged : w.id = id
    BY <2>1
  <2>3. StreamOf[id] \in Streams /\ Logged(id)
    BY <1>1, <2>1, <2>2, DeliveryAssumption DEF ServingOK, Logged
  <2>4. Known(id)
    BY <1>1, <2>3 DEF LoggedKnown, Logged
  <2>5. id \notin Refusable
    BY <2>1, <2>3, RefusedIdle
  <2>6. id \notin RefusedIds
    BY <1>1, <2>5 DEF RefusedIds, Gone, ClientDInv, OutboxDInv
  <2> QED
    BY <2>1, <2>4, <2>6
<1>5. \A id \in Ids : effects'[id] = IF id \in D THEN 1 ELSE effects[id]
  BY <1>4
<1>6. effects' = [id \in Ids |-> IF id \in D THEN 1 ELSE effects[id]]
  BY <1>3, <1>5
<1>7. CASE D = {}
  BY <1>2, <1>6, <1>7
<1>8. CASE D # {}
  <2>1. D \in SUBSET Ids
    OBVIOUS
  <2> HIDE DEF D
  <2> QED
    BY <1>4, <1>6, <1>8, <2>1
<1> QED
  BY <1>7, <1>8

\* Every step is one of the promise's steps, or changes nothing of it.
LEMMA IntentStep ==
  ASSUME ~ MayDeny, IInv, DInv, [Next]_vars
  PROVE  [Intents!Next]_(Intents!intentVars)
<1> DEFINE Fired == Range(fires) \cup Range(emitted)
           Heard == sourced \cup (IF MayReplace THEN {} ELSE Range(fires))
           F == Range(fires)
           E == Range(emitted)
<1>1. ClientIntents /\ OutboxIntents
  BY RefusalsKeep
<1>2. /\ ClientOK /\ OutboxOK /\ ClientIds \cap RowIds = {} /\ ClientIds \subseteq Ids /\ RowIds \subseteq Ids
      /\ F \subseteq ClientIds /\ E \subseteq RowIds
  <2>1. fires \in Seq(ClientIds) /\ emitted \in Seq(RowIds) /\ ClientOK /\ OutboxOK
    BY DEF IInv, ClientOK, OutboxOK
  <2> QED
    BY <2>1, RangeIs, DeliveryAssumption DEF Ids
<1>3. GivenUp \subseteq RowIds /\ sourced \subseteq E /\ Gone \subseteq ClientIds
  BY <1>2 DEF IInv, OutboxOK, SourceOK, Gone
<1>4. ASSUME UNCHANGED <<Fired, Heard, effects, RefusedIds, ToldIds>>
      PROVE  UNCHANGED Intents!intentVars
  BY <1>4 DEF Intents!intentVars, RefusedIds, ToldIds, Gone, Told
<1>5. ASSUME NEW id \in Ids, id \notin Fired, Fired' = Fired \cup {id}, Heard' \in {Heard, Heard \cup {id}},
             UNCHANGED <<effects, RefusedIds, ToldIds>>
      PROVE  Intents!Next
  <2>1. Intents!Fire(id)
    BY <1>5 DEF Intents!Fire, RefusedIds, ToldIds, Gone, Told
  <2> QED
    BY <2>1 DEF Intents!Next
<1>6. ASSUME NEW id \in Ids, id \in Fired, id \in Refusable, id \notin RefusedIds,
             RefusedIds' = RefusedIds \cup {id},
             ToldIds' = ToldIds \cup {id} \/ (ToldIds' = ToldIds /\ id \notin Heard),
             UNCHANGED <<effects, Fired, Heard>>
      PROVE  Intents!Next
  <2>1. effects[id] = 0
    BY <1>6, RefusedIdle
  <2>2. Intents!Refuse(id)
    BY <1>6, <2>1 DEF Intents!Refuse, Intents!Open, RefusedIds, ToldIds, Gone, Told
  <2> QED
    BY <2>2 DEF Intents!Next
<1>7. CASE ClientStep
  <2>1. UNCHANGED <<effects, emitted, sourced, GivenUp, noticed>>
    BY <1>7 DEF ClientStep, Fire, Send, Push, Save, ServerAnswers, Settle, ConnectionFails, Replace,
                outbox, serving, GivenUp
  <2>2. CASE Range(fires') = F /\ UNCHANGED <<Gone, Told>>
    BY <1>4, <2>1, <2>2 DEF RefusedIds, ToldIds
  <2>3. ASSUME NEW id \in ClientIds, id \notin F, Range(fires') = F \cup {id}, UNCHANGED <<Gone, Told>>
        PROVE  Intents!Next
    <3>1. id \in Ids /\ id \notin Fired /\ Fired' = Fired \cup {id}
      BY <1>2, <2>1, <2>3
    <3>2. Heard' \in {Heard, Heard \cup {id}}
      BY <2>1, <2>3
    <3> QED
      BY <1>5, <2>1, <2>3, <3>1, <3>2 DEF RefusedIds, ToldIds
  <2>4. ASSUME NEW id \in ClientIds, id \in F, id \in Refusable, id \notin Gone,
               fires' = fires, Gone' = Gone \cup {id},
               Told' = Told \cup {id} \/ (Told' = Told /\ MayReplace)
        PROVE  Intents!Next
    <3>1. id \in Ids /\ id \in Fired /\ id \notin RefusedIds /\ RefusedIds' = RefusedIds \cup {id}
      BY <1>2, <1>3, <2>1, <2>4 DEF RefusedIds
    <3>2. ToldIds' = ToldIds \cup {id} \/ (ToldIds' = ToldIds /\ id \notin Heard)
      BY <1>2, <1>3, <2>1, <2>4 DEF ToldIds
    <3>3. Fired' = Fired /\ Heard' = Heard /\ id \in Refusable
      BY <2>1, <2>4
    <3> HIDE DEF Fired, Heard
    <3> QED
      BY <1>6, <2>1, <3>1, <3>2, <3>3
  <2> QED
    BY <1>1, <2>2, <2>3, <2>4 DEF ClientIntents
<1>8. CASE OutboxStep
  <2>1. UNCHANGED <<effects, fires, outcome>>
    BY <1>8 DEF OutboxStep, EmitRow, SendRow, WriteNotice, DeleteRow, DrainStops, StartDrain,
                SourceParks, client, serving
  <2>2. UNCHANGED <<Gone, Told>>
    BY <2>1 DEF Gone, Told
  <2>3. CASE UNCHANGED <<emitted, sourced, GivenUp, noticed>>
    BY <1>4, <2>1, <2>2, <2>3 DEF RefusedIds, ToldIds
  <2>4. ASSUME NEW id \in RowIds, id \notin E, Range(emitted') = E \cup {id},
               sourced' \in {sourced, sourced \cup {id}}, UNCHANGED <<GivenUp, noticed>>
        PROVE  Intents!Next
    <3>1. id \in Ids /\ id \notin Fired /\ Fired' = Fired \cup {id}
      BY <1>2, <2>1, <2>4
    <3>2. Heard' \in {Heard, Heard \cup {id}}
      BY <2>1, <2>4
    <3> QED
      BY <1>5, <2>1, <2>2, <2>4, <3>1, <3>2 DEF RefusedIds, ToldIds
  <2>5. ASSUME NEW id \in RowIds, id \in E, id \in Refusable, id \notin GivenUp,
               emitted' = emitted, sourced' = sourced, GivenUp' = GivenUp \cup {id},
               noticed' = noticed \cup {id} \/ (noticed' = noticed /\ id \notin sourced)
        PROVE  Intents!Next
    <3>1. id \in Ids /\ id \in Fired /\ id \notin RefusedIds /\ RefusedIds' = RefusedIds \cup {id}
      BY <1>2, <1>3, <2>2, <2>5 DEF RefusedIds
    <3>2. ToldIds' = ToldIds \cup {id} \/ (ToldIds' = ToldIds /\ id \notin Heard)
      BY <1>2, <2>2, <2>5 DEF ToldIds
    <3>3. Fired' = Fired /\ Heard' = Heard /\ id \in Refusable
      BY <2>1, <2>5
    <3> HIDE DEF Fired, Heard
    <3> QED
      BY <1>6, <2>1, <3>1, <3>2, <3>3
  <2> QED
    BY <1>1, <2>3, <2>4, <2>5 DEF OutboxIntents
<1>9. CASE TargetStep
  <2>1. UNCHANGED <<fires, emitted, outcome, sourced, GivenUp, noticed>>
    BY <1>9, Apart DEF client, outbox, GivenUp
  <2>2. UNCHANGED <<Fired, Heard, RefusedIds, ToldIds>>
    BY <2>1 DEF RefusedIds, ToldIds, Gone, Told
  <2>3. CASE effects' = effects
    BY <1>4, <2>2, <2>3
  <2>4. ASSUME NEW kept \in SUBSET staged, CommitWave(kept)
        PROVE  effects' = effects \/ Intents!Next
    <3>1. ASSUME NEW ids \in SUBSET Ids, ids # {},
                 \A id \in ids : Known(id) /\ effects[id] = 0 /\ id \notin RefusedIds,
                 effects' = [id \in Ids |-> IF id \in ids THEN 1 ELSE effects[id]]
          PROVE  Intents!Next
      <4>1. \A id \in ids : Intents!Open(id)
        BY <3>1 DEF Intents!Open, Known, RefusedIds, Gone
      <4>2. Intents!Perform(ids)
        BY <2>2, <3>1, <4>1 DEF Intents!Perform, RefusedIds, ToldIds, Gone, Told
      <4> QED
        BY <4>2 DEF Intents!Next
    <3> QED
      BY <2>4, <3>1, WavePerforms
  <2>5. \/ effects' = effects
        \/ \E kept \in SUBSET staged : CommitWave(kept)
    BY <1>9 DEF TargetStep, Drain, LateApplies, AclChanges, TargetParks, serving
  <2> QED
    BY <2>3, <2>4, <2>5
<1>10. CASE UNCHANGED vars
  <2>1. UNCHANGED <<fires, emitted, outcome, sourced, GivenUp, noticed, effects>>
    BY <1>10 DEF vars, client, outbox, serving, GivenUp
  <2>2. UNCHANGED <<Fired, Heard, RefusedIds, ToldIds>>
    BY <2>1 DEF RefusedIds, ToldIds, Gone, Told
  <2> QED
    BY <1>4, <2>1, <2>2
<1> QED
  BY <1>7, <1>8, <1>9, <1>10 DEF Next

\* Each event has its consequences once at most, however often it was sent,
\* admitted, drained or requeued, also while the access list changes and where a
\* replica is replaced early: admission takes an id again only once its first
\* entry is under the watermark, so done, and `#drainStreamEvents` skips such a
\* twin.
THEOREM HandledOnce == Spec => [](\A id \in Ids : effects[id] \in {0, 1})
<1>1. IInv => \A id \in Ids : effects[id] \in {0, 1}
  BY DEF IInv, ServingOK
<1> QED
  BY <1>1, Invariance, PTL

\* Where the target's access list does not change, queue, outbox, admission and
\* drain implement the promise of a fire, but for its liveness: consequences are
\* committed once at most, never for an event that was refused, and a refusal is
\* never taken back.  It is told at once to a row's source event, if the row has
\* one, and to the client's firer where no replica is replaced.
THEOREM IntentsImplemented ==
  ASSUME ~ MayDeny
  PROVE  Spec => Intents!Init /\ [][Intents!Next]_(Intents!intentVars)
<1>1. Init => Intents!Init
  <2> SUFFICES ASSUME Init PROVE Intents!Init
    OBVIOUS
  <2>1. /\ fires = <<>> /\ emitted = <<>> /\ effects = [id \in Ids |-> 0]
        /\ sourced = {} /\ noticed = {} /\ GivenUp = {}
        /\ \A id \in ClientIds : outcome[id] = "unfired"
    BY DEF Init, GivenUp
  <2>2. Range(<<>>) = {}
    BY DEF Range
  <2> QED
    BY <2>1, <2>2 DEF Intents!Init
<1>2. Init => DInv
  BY RefusalsKeep
<1>3. IInv /\ DInv /\ [Next]_vars => DInv' /\ [Intents!Next]_(Intents!intentVars)
  BY RefusalsKeep, IntentStep
<1> QED
  BY <1>1, <1>2, <1>3, Invariance, PTL DEF Spec
=============================================================================
