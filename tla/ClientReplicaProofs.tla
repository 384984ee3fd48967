-------------------------- MODULE ClientReplicaProofs --------------------------
(***************************************************************************)
(* What a replica is told of its commits, for any documents and any number *)
(* of commits, foreign writes and faults.                                  *)
(*                                                                         *)
(* A commit whose layer is dropped is not stored, and cannot be any more.  *)
(* Either it was refused, and then its one copy was that refused one, or   *)
(* it read through a layer that was dropped: a copy of it may still be on  *)
(* its way, but the engine asks that what it read is stored (ReadsStored), *)
(* and that was taken back before it (Over).                               *)
(*                                                                         *)
(* Then the order of it: commits go out, are decided and are answered in   *)
(* local order (FateOrder, LineInv), and a marker that covers a commit     *)
(* covers all before it (TurnInv).  Between them stand the lemmas about    *)
(* the store, about layers and promotions, and, for each action, what it   *)
(* does to each part of the state.                                         *)
(***************************************************************************)
EXTENDS ClientReplica, TLAPS, FiniteSetTheorems, WellFoundedInduction

-----------------------------------------------------------------------------
(* The invariant                                                           *)

IsSeq(s) == s \in Seq(Range(s))

Fates == {"unissued", "queued", "sent", "accepted", "parked", "applied",
          "repairing", "waiting", "doomed", "rejected"}

Fields == {"confirmed", "pending", "delivered", "caughtUp", "outstanding", "restoring"}

\* The i-th request carries commit n; the i-th answer is about it.
Carries(i, n) == toServer[i].type = "commit" /\ toServer[i].n = n

Tells(i, n) == toClient[i].type = "verdict" /\ toClient[i].n = n

Typed ==
  /\ IsSeq(log) /\ IsSeq(toServer) /\ IsSeq(toClient) /\ IsSeq(issued)
  /\ Len(issued) <= MaxCommits
  /\ fate \in [Commits -> Fates]
  /\ \A n \in Commits : fate[n] = "unissued" <=> n > Len(issued)
  /\ DOMAIN replica = Fields /\ replica.outstanding \subseteq Commits
  /\ \A i \in DOMAIN toServer : toServer[i].type = "commit" => toServer[i].n \in Commits
  /\ \A i \in DOMAIN toClient : toClient[i].type = "verdict" => toClient[i].n \in Commits

\* One copy of a commit is on its way at a time, while it has no verdict, and
\* its verdict comes behind it.
OneCopy ==
  \A n \in Commits :
    /\ \A i, j \in DOMAIN toServer : Carries(i, n) /\ Carries(j, n) => i = j
    /\ \A i \in DOMAIN toServer : Carries(i, n) =>
         /\ n \in replica.outstanding
         /\ \A j \in DOMAIN toClient : ~ Tells(j, n)

\* Nothing is on its way of what was never sent.
Unsent ==
  \A n \in Commits : fate[n] \in {"unissued", "queued", "waiting"} =>
    /\ ~ Resolved(n) /\ n \notin replica.outstanding
    /\ \A i \in DOMAIN toClient : ~ Tells(i, n)

\* A verdict on its way is the truth.
VerdictsTold ==
  \A n \in Commits : \A i \in DOMAIN toClient :
    Tells(i, n) => (toClient[i].ok <=> Resolved(n))

\* What an accepted commit's fate says.
AcceptedStored == \A n \in Commits : fate[n] \in {"accepted", "parked", "applied"} => Resolved(n)

\* A commit refused or dropped is not stored and will not be.
Over ==
  \A n \in Commits : fate[n] \in {"repairing", "doomed", "rejected"} =>
    /\ ~ Resolved(n)
    /\ \/ n \notin replica.outstanding
       \/ \E m \in Deps(n) \cap Commits : fate[m] = "rejected"

\* The layers a stored commit read are stored.
ReadsStored == \A n \in Commits : Resolved(n) => \A m \in Deps(n) : Resolved(m)

\* A commit is stored once, however often it was sent.
StoredOnce ==
  \A p, q \in DOMAIN log : log[p].by = log[q].by /\ log[p].by \in Commits => p = q

IInv ==
  Typed /\ OneCopy /\ Unsent /\ VerdictsTold /\ AcceptedStored /\ Over /\ ReadsStored /\ StoredOnce

-----------------------------------------------------------------------------
(* Sequences, the log, and the replica's record                            *)

\* A sequence over any set is one over its elements.
LEMMA SeqIs ==
  ASSUME NEW S, NEW s \in Seq(S)
  PROVE  IsSeq(s)
<1>1. Len(s) \in Nat /\ DOMAIN s = 1..Len(s) /\ s = [i \in 1..Len(s) |-> s[i]]
  OBVIOUS
<1>2. \A i \in 1..Len(s) : s[i] \in Range(s)
  BY <1>1 DEF Range
<1> QED BY <1>1, <1>2 DEF IsSeq

\* One element more.
LEMMA GrowsIs ==
  ASSUME NEW s, IsSeq(s), NEW x
  PROVE  /\ IsSeq(Append(s, x)) /\ Len(s) \in Nat /\ Len(Append(s, x)) = Len(s) + 1
         /\ DOMAIN s = 1..Len(s) /\ DOMAIN Append(s, x) = 1..(Len(s) + 1)
         /\ \A i \in 1..Len(s) : Append(s, x)[i] = s[i]
         /\ Append(s, x)[Len(s) + 1] = x
         /\ \A i \in DOMAIN Append(s, x) :
              (i \in DOMAIN s /\ Append(s, x)[i] = s[i]) \/ (i = Len(s) + 1 /\ Append(s, x)[i] = x)
<1> DEFINE S == Range(s) \cup {x}
<1>1. s \in Seq(Range(s))
  BY DEF IsSeq
<1> HIDE DEF S
<1>2. s \in Seq(S) /\ x \in S
  <2>1. Range(s) \subseteq S /\ x \in S
    BY DEF S
  <2> QED BY <1>1, <2>1
<1>3. Append(s, x) \in Seq(S)
  BY <1>2
<1>4. IsSeq(Append(s, x))
  BY <1>3, SeqIs
<1>5. /\ Len(s) \in Nat /\ Len(Append(s, x)) = Len(s) + 1
      /\ DOMAIN s = 1..Len(s) /\ DOMAIN Append(s, x) = 1..(Len(s) + 1)
      /\ \A i \in 1..Len(s) : Append(s, x)[i] = s[i]
      /\ Append(s, x)[Len(s) + 1] = x
  BY <1>2
<1> QED BY <1>4, <1>5

\* One element less.
LEMMA ShrinksIs ==
  ASSUME NEW s, IsSeq(s), s # <<>>
  PROVE  /\ IsSeq(Tail(s)) /\ 1 \in DOMAIN s /\ Head(s) = s[1]
         /\ \A i \in DOMAIN Tail(s) : i + 1 \in DOMAIN s /\ Tail(s)[i] = s[i + 1] /\ i + 1 # 1
         /\ DOMAIN Tail(s) \subseteq Nat
<1>1. s \in Seq(Range(s))
  BY DEF IsSeq
<1>2. Tail(s) \in Seq(Range(s))
  BY <1>1
<1>3. IsSeq(Tail(s))
  BY <1>2, SeqIs
<1>4. /\ Len(s) \in Nat /\ Len(s) # 0 /\ DOMAIN s = 1..Len(s)
      /\ Head(s) = s[1] /\ DOMAIN Tail(s) = 1..(Len(s) - 1)
      /\ \A i \in 1..(Len(s) - 1) : Tail(s)[i] = s[i + 1]
  BY <1>1
<1> QED BY <1>3, <1>4

\* What a commit read through does not change.
LEMMA DepsKept ==
  ASSUME NEW n, issued'[n] = issued[n]
  PROVE  Deps(n)' = Deps(n)
BY DEF Deps

\* The log after one commit more.
LEMMA LogGrows ==
  ASSUME IsSeq(log), NEW row, log' = Append(log, row)
  PROVE  /\ IsSeq(log)'
         /\ \A n : Resolved(n)' <=> Resolved(n) \/ n = row.by
         /\ StoredOnce /\ (row.by \in Commits => ~ Resolved(row.by)) => StoredOnce'
<1>1. /\ IsSeq(log') /\ Len(log) \in Nat
      /\ DOMAIN log = 1..Len(log) /\ DOMAIN log' = 1..(Len(log) + 1)
      /\ \A i \in 1..Len(log) : log'[i] = log[i]
      /\ log'[Len(log) + 1] = row
  BY GrowsIs
<1>2. Len(log) + 1 \in DOMAIN log'
  BY <1>1
<1>3. \A i \in DOMAIN log' : i \in DOMAIN log \/ i = Len(log) + 1
  BY <1>1
<1>4. \A i \in DOMAIN log : i \in DOMAIN log' /\ log'[i] = log[i]
  BY <1>1
<1>5. ASSUME NEW n PROVE Resolved(n)' <=> Resolved(n) \/ n = row.by
  BY <1>1, <1>2, <1>3, <1>4 DEF Resolved
<1>6. ASSUME StoredOnce, row.by \in Commits => ~ Resolved(row.by) PROVE StoredOnce'
  <2>1. SUFFICES ASSUME NEW p \in DOMAIN log', NEW q \in DOMAIN log',
                        log'[p].by = log'[q].by, log'[p].by \in Commits
                 PROVE  p = q
    BY DEF StoredOnce
  <2>2. CASE p \in DOMAIN log /\ q \in DOMAIN log
    BY <1>4, <1>6, <2>1, <2>2 DEF StoredOnce
  <2>3. CASE p \in DOMAIN log /\ q = Len(log) + 1
    BY <1>1, <1>4, <1>6, <2>1, <2>3 DEF Resolved
  <2>4. CASE q \in DOMAIN log /\ p = Len(log) + 1
    BY <1>1, <1>4, <1>6, <2>1, <2>4 DEF Resolved
  <2> QED BY <1>3, <2>2, <2>3, <2>4
<1> QED BY <1>1, <1>5, <1>6

\* A promotion touches the documents and layers only.
LEMMA ConfirmedIs ==
  ASSUME NEW r, NEW ns, DOMAIN r = Fields
  PROVE  /\ DOMAIN Confirmed(r, ns) = Fields
         /\ Confirmed(r, ns).outstanding = r.outstanding
         /\ Confirmed(r, ns).restoring = r.restoring
<1>1. PICK c, p : Confirmed(r, ns) = [r EXCEPT !.confirmed = c, !.pending = p]
  BY DEF Confirmed
<1> QED BY <1>1 DEF Fields

\* Sets of commits are finite.
LEMMA CommitsFinite ==
  ASSUME NEW S \in SUBSET Commits
  PROVE  IsFiniteSet(S) /\ Cardinality(S) \in Nat
<1>1. MaxCommits \in Nat
  BY ReplicaAssumption
<1>2. 1 \in Int /\ MaxCommits \in Int
  BY <1>1
<1>3. IsFiniteSet(1..MaxCommits)
  BY <1>2, FS_Interval
<1>4. IsFiniteSet(S)
  BY <1>3, FS_Subset DEF Commits
<1> QED BY <1>4, FS_CardinalityType

\* The commits of a set, counted up to each of them, are numbered from 1.
LEMMA NthIs ==
  ASSUME NEW S \in SUBSET Commits, NEW i \in 1..Cardinality(S)
  PROVE  Nth(S, i) \in S /\ Cardinality({m \in S : m <= Nth(S, i)}) = i
<1> DEFINE To(n) == {m \in S : m <= n}
           f == [n \in S |-> Cardinality(To(n))]
           T == 1..Cardinality(S)
<1>1. IsFiniteSet(S) /\ Cardinality(S) \in Nat
  BY CommitsFinite
<1>2. \A n \in S : To(n) \in SUBSET S /\ n \in To(n) /\ n \in Nat
  BY ReplicaAssumption DEF Commits
<1>3. \A n \in S : IsFiniteSet(To(n)) /\ Cardinality(To(n)) <= Cardinality(S)
                   /\ Cardinality(To(n)) \in Nat
  BY <1>1, <1>2, FS_Subset, FS_CardinalityType
<1>4. \A n \in S : Cardinality(To(n)) # 0
  BY <1>2, <1>3, FS_EmptySet
<1>5. \A n \in S : Cardinality(To(n)) \in T
  BY <1>1, <1>3, <1>4
<1>6. \A n, m \in S : n < m => Cardinality(To(n)) # Cardinality(To(m))
  <2>1. SUFFICES ASSUME NEW n \in S, NEW m \in S, n < m
                 PROVE  Cardinality(To(n)) # Cardinality(To(m))
    OBVIOUS
  <2>2. To(n) \in SUBSET To(m) /\ m \notin To(n)
    BY <2>1, <1>2
  <2>3. Cardinality(To(m)) = Cardinality(To(n)) => To(m) = To(n)
    BY <2>2, <1>3, FS_Subset
  <2> QED BY <2>2, <2>3, <1>2
<1>7. \A n, m \in S : Cardinality(To(n)) = Cardinality(To(m)) => n = m
  BY <1>2, <1>6
<1>8. f \in [S -> T]
  BY <1>5
<1>9. f \in Injection(S, T)
  BY <1>7, <1>8 DEF Injection, IsInjective
<1>10. IsFiniteSet(T) /\ Cardinality(T) = Cardinality(S)
  BY <1>1, FS_Interval
<1>11. f \in Surjection(S, T)
  BY <1>9, <1>10, FS_Injection
<1>12. \E n \in S : f[n] = i
  BY <1>11 DEF Surjection
<1>13. \E n \in S : Cardinality({m \in S : m <= n}) = i
  BY <1>12
<1> QED BY <1>13 DEF Nth

\* What is sent again: every commit without a verdict, once.
LEMMA ResentIs ==
  ASSUME Typed
  PROVE  /\ IsSeq(Resent) /\ Len(Resent) \in Nat /\ DOMAIN Resent = 1..Len(Resent)
         /\ \A i \in DOMAIN Resent : Resent[i].type = "commit" /\ Resent[i].n \in replica.outstanding
         /\ \A i, j \in DOMAIN Resent : Resent[i].n = Resent[j].n => i = j
<1> DEFINE O == replica.outstanding
           Copy(n) == [type |-> "commit", n |-> n]
<1>1. O \in SUBSET Commits /\ Cardinality(O) \in Nat
  BY CommitsFinite DEF Typed
<1>2. \A i \in 1..Cardinality(O) : Nth(O, i) \in O
  BY <1>1, NthIs
<1>3. \A i, j \in 1..Cardinality(O) : Nth(O, i) = Nth(O, j) => i = j
  <2>1. SUFFICES ASSUME NEW i \in 1..Cardinality(O), NEW j \in 1..Cardinality(O),
                        Nth(O, i) = Nth(O, j)
                 PROVE  i = j
    OBVIOUS
  <2>2. Cardinality({m \in O : m <= Nth(O, i)}) = i
    BY <1>1, NthIs
  <2>3. Cardinality({m \in O : m <= Nth(O, j)}) = j
    BY <1>1, NthIs
  <2> QED BY <2>1, <2>2, <2>3
<1>4. /\ DOMAIN Resent = 1..Cardinality(O)
      /\ \A i \in 1..Cardinality(O) : Resent[i] = Copy(Nth(O, i))
  BY DEF Resent
<1>5. Resent \in Seq({Copy(n) : n \in O})
  <2> DEFINE k == Cardinality(O)
             C == {Copy(n) : n \in O}
             s(i) == Copy(Nth(O, i))
  <2>1. Resent = [i \in 1..k |-> s(i)]
    BY DEF Resent
  <2>2. \A i \in 1..k : s(i) \in C
    BY <1>2
  <2>3. k \in Nat
    BY <1>1
  <2> HIDE DEF k, C, s
  <2>4. [i \in 1..k |-> s(i)] \in Seq(C)
    BY <2>2, <2>3
  <2> QED BY <2>1, <2>4 DEF C
<1>6. IsSeq(Resent) /\ Len(Resent) = Cardinality(O)
  BY <1>1, <1>4, <1>5, SeqIs
<1>7. \A i \in DOMAIN Resent : Resent[i].type = "commit" /\ Resent[i].n = Nth(O, i)
  BY <1>4
<1> QED BY <1>1, <1>2, <1>3, <1>4, <1>6, <1>7

-----------------------------------------------------------------------------
(* Steps that store nothing                                                *)

NotSent == {"unissued", "queued", "waiting"}

Taken == {"accepted", "parked", "applied"}

Lost == {"repairing", "doomed", "rejected"}

\* No verdict comes of nowhere.
NoNewVerdict ==
  \A n \in Commits : \A j \in DOMAIN toClient' : Tells(j, n)' =>
    \E i \in DOMAIN toClient : Tells(i, n) /\ toClient'[j].ok = toClient[i].ok

\* A commit that is dropped now was refused, or read what is dropped.
FateMoves(n) ==
  /\ fate'[n] \in NotSent => fate[n] \in NotSent
  /\ fate'[n] \in Taken => fate[n] \in Taken \/ Resolved(n)
  /\ fate'[n] \in Lost =>
       \/ fate[n] \in Lost
       \/ /\ ~ Resolved(n)
          /\ \/ n \notin replica'.outstanding
             \/ \E m \in Deps(n) \cap Commits : fate'[m] = "rejected"
  /\ fate[n] = "rejected" => fate'[n] = "rejected"

\* Such a step keeps what the replica knows true.
LEMMA Kept ==
  ASSUME IInv, log' = log, issued' = issued, Typed', OneCopy', NoNewVerdict,
         replica'.outstanding \subseteq replica.outstanding,
         \A n \in Commits : FateMoves(n)
  PROVE  IInv'
<1>1. \A n : (Resolved(n)' <=> Resolved(n)) /\ Deps(n)' = Deps(n)
  BY DepsKept DEF Resolved
<1>2. Unsent'
  BY <1>1 DEF IInv, Unsent, NoNewVerdict, FateMoves, NotSent
<1>3. VerdictsTold'
  <2>1. SUFFICES ASSUME NEW n \in Commits, NEW j \in DOMAIN toClient', Tells(j, n)'
                 PROVE  toClient'[j].ok <=> Resolved(n)'
    BY DEF VerdictsTold
  <2>2. PICK i \in DOMAIN toClient : Tells(i, n) /\ toClient'[j].ok = toClient[i].ok
    BY <2>1 DEF NoNewVerdict
  <2> QED BY <1>1, <2>2 DEF IInv, VerdictsTold
<1>4. AcceptedStored'
  BY <1>1 DEF IInv, AcceptedStored, FateMoves, Taken
<1>5. Over'
  <2>1. SUFFICES ASSUME NEW n \in Commits, fate'[n] \in Lost
                 PROVE  /\ ~ Resolved(n)
                        /\ \/ n \notin replica'.outstanding
                           \/ \E m \in Deps(n) \cap Commits : fate'[m] = "rejected"
    BY <1>1 DEF Over, Lost
  <2>2. CASE fate[n] \in Lost
    <3>1. /\ ~ Resolved(n)
          /\ \/ n \notin replica.outstanding
             \/ \E m \in Deps(n) \cap Commits : fate[m] = "rejected"
      BY <2>2 DEF IInv, Over, Lost
    <3>2. \A m \in Commits : fate[m] = "rejected" => fate'[m] = "rejected"
      BY DEF FateMoves
    <3> QED BY <3>1, <3>2
  <2>3. CASE fate[n] \notin Lost
    BY <2>1, <2>3 DEF FateMoves
  <2> QED BY <2>2, <2>3
<1>6. ReadsStored'
  BY <1>1 DEF IInv, ReadsStored
<1>7. StoredOnce'
  BY DEF IInv, StoredOnce
<1> QED BY <1>2, <1>3, <1>4, <1>5, <1>6, <1>7 DEF IInv

\* The requests and the commits without verdict as they were.
LEMMA CopiesKept ==
  ASSUME IInv, toServer' = toServer, NoNewVerdict,
         replica'.outstanding = replica.outstanding
  PROVE  OneCopy'
<1>1. SUFFICES ASSUME NEW n \in Commits
               PROVE  /\ \A i, j \in DOMAIN toServer : Carries(i, n) /\ Carries(j, n) => i = j
                      /\ \A i \in DOMAIN toServer : Carries(i, n) =>
                           /\ n \in replica.outstanding
                           /\ \A j \in DOMAIN toClient' : ~ Tells(j, n)'
  BY DEF OneCopy, Carries
<1> QED BY DEF IInv, OneCopy, NoNewVerdict

\* An answer that is no verdict.
LEMMA FrameSent ==
  ASSUME IInv, NEW f, toClient' = toClient \/ toClient' = Append(toClient, f), f.type = "frame"
  PROVE  /\ NoNewVerdict /\ IsSeq(toClient)'
         /\ \A i \in DOMAIN toClient' : toClient'[i].type = "verdict" => toClient'[i].n \in Commits
<1>1. IsSeq(toClient) /\ \A i \in DOMAIN toClient : toClient[i].type = "verdict" => toClient[i].n \in Commits
  BY DEF IInv, Typed
<1>2. CASE toClient' = toClient
  BY <1>1, <1>2 DEF NoNewVerdict, Tells
<1>3. CASE toClient' = Append(toClient, f)
  <2>1. /\ IsSeq(toClient')
        /\ \A i \in DOMAIN toClient' :
             (i \in DOMAIN toClient /\ toClient'[i] = toClient[i]) \/ toClient'[i] = f
    BY <1>1, <1>3, GrowsIs
  <2>2. NoNewVerdict
    BY <2>1 DEF NoNewVerdict, Tells
  <2> QED BY <1>1, <2>1, <2>2
<1> QED BY <1>2, <1>3

\* An answer taken.
LEMMA AnswerTaken ==
  ASSUME IInv, toClient # <<>>, toClient' = Tail(toClient)
  PROVE  /\ NoNewVerdict /\ IsSeq(toClient)'
         /\ 1 \in DOMAIN toClient /\ Head(toClient) = toClient[1]
         /\ \A i \in DOMAIN toClient' : toClient'[i].type = "verdict" => toClient'[i].n \in Commits
<1>1. IsSeq(toClient) /\ \A i \in DOMAIN toClient : toClient[i].type = "verdict" => toClient[i].n \in Commits
  BY DEF IInv, Typed
<1>2. /\ IsSeq(toClient') /\ 1 \in DOMAIN toClient /\ Head(toClient) = toClient[1]
      /\ \A i \in DOMAIN toClient' : i + 1 \in DOMAIN toClient /\ toClient'[i] = toClient[i + 1]
  BY <1>1, ShrinksIs
<1>3. NoNewVerdict
  BY <1>2 DEF NoNewVerdict, Tells
<1> QED BY <1>1, <1>2, <1>3

\* A request taken: no copy of its commit is left.
LEMMA RequestTaken ==
  ASSUME IInv, toServer # <<>>, toServer' = Tail(toServer)
  PROVE  /\ IsSeq(toServer)' /\ 1 \in DOMAIN toServer /\ Head(toServer) = toServer[1]
         /\ \A i \in DOMAIN toServer' : toServer'[i].type = "commit" => toServer'[i].n \in Commits
         /\ \A n \in Commits :
              /\ \A i, j \in DOMAIN toServer' : Carries(i, n)' /\ Carries(j, n)' => i = j
              /\ \A i \in DOMAIN toServer' : Carries(i, n)' =>
                   /\ n \in replica.outstanding
                   /\ \A j \in DOMAIN toClient : ~ Tells(j, n)
              /\ Carries(1, n) => \A i \in DOMAIN toServer' : ~ Carries(i, n)'
<1>1. /\ IsSeq(toServer)
      /\ \A i \in DOMAIN toServer : toServer[i].type = "commit" => toServer[i].n \in Commits
  BY DEF IInv, Typed
<1>2. /\ IsSeq(toServer') /\ 1 \in DOMAIN toServer /\ Head(toServer) = toServer[1]
      /\ \A i \in DOMAIN toServer' :
           i + 1 \in DOMAIN toServer /\ toServer'[i] = toServer[i + 1] /\ i + 1 # 1
      /\ DOMAIN toServer' \subseteq Nat
  BY <1>1, ShrinksIs
<1>3. \A n : \A i \in DOMAIN toServer' : Carries(i, n)' => Carries(i + 1, n)
  BY <1>2 DEF Carries
<1>4. ASSUME NEW n \in Commits
      PROVE  /\ \A i, j \in DOMAIN toServer' : Carries(i, n)' /\ Carries(j, n)' => i = j
             /\ \A i \in DOMAIN toServer' : Carries(i, n)' =>
                  /\ n \in replica.outstanding
                  /\ \A j \in DOMAIN toClient : ~ Tells(j, n)
             /\ Carries(1, n) => \A i \in DOMAIN toServer' : ~ Carries(i, n)'
  <2>1. /\ \A i, j \in DOMAIN toServer : Carries(i, n) /\ Carries(j, n) => i = j
        /\ \A i \in DOMAIN toServer : Carries(i, n) =>
             n \in replica.outstanding /\ \A j \in DOMAIN toClient : ~ Tells(j, n)
    BY DEF IInv, OneCopy
  <2>2. ASSUME NEW i \in DOMAIN toServer', NEW j \in DOMAIN toServer', Carries(i, n)', Carries(j, n)'
        PROVE  i = j
    <3>1. i + 1 = j + 1
      BY <1>2, <1>3, <2>1, <2>2
    <3> QED BY <1>2, <3>1
  <2>3. ASSUME Carries(1, n), NEW i \in DOMAIN toServer', Carries(i, n)' PROVE FALSE
    BY <1>2, <1>3, <2>1, <2>3
  <2> QED BY <1>2, <1>3, <2>1, <2>2, <2>3
<1> QED BY <1>1, <1>2, <1>4

-----------------------------------------------------------------------------
(* The steps of the replica and the channel                                *)

\* A pass sends a frame or nothing.
LEMMA FlushStep ==
  ASSUME IInv, Flush
  PROVE  IInv'
<1>1. UNCHANGED <<log, toServer, issued, fate, replica>>
  BY DEF Flush
<1>2. PICK f : f.type = "frame" /\ (toClient' = toClient \/ toClient' = Append(toClient, f))
  <2> DEFINE upserts == {d \in server.dirty : /\ server.watching
                                              /\ HeadSeq(d) # server.sent[d] /\ ~ Held(d)}
             f == Frame(Snapshot(upserts), Marker(server), FALSE)
  <2>1. toClient' = toClient \/ toClient' = Append(toClient, f)
    BY DEF Flush
  <2>2. f.type = "frame"
    BY DEF Frame
  <2> QED BY <2>1, <2>2
<1>3. /\ NoNewVerdict /\ IsSeq(toClient)'
      /\ \A i \in DOMAIN toClient' : toClient'[i].type = "verdict" => toClient'[i].n \in Commits
  BY <1>2, FrameSent
<1>4. Typed'
  BY <1>1, <1>3 DEF IInv, Typed, Fields
<1>5. OneCopy'
  BY <1>1, <1>3, CopiesKept
<1>6. \A n \in Commits : FateMoves(n)
  BY <1>1 DEF FateMoves
<1> QED BY <1>1, <1>3, <1>4, <1>5, <1>6, Kept

\* The answer to a watch set is a frame.
LEMMA SetWatchesStep ==
  ASSUME IInv, SetWatches
  PROVE  IInv'
<1>1. /\ toServer # <<>> /\ toServer' = Tail(toServer)
      /\ UNCHANGED <<log, issued, fate, replica>>
  BY DEF SetWatches
<1>2. PICK f : f.type = "frame" /\ toClient' = Append(toClient, f)
  <2> DEFINE f == Frame(Snapshot({d \in Docs : HeadSeq(d) # Head(toServer).holdings[d]}), 0, TRUE)
  <2>1. toClient' = Append(toClient, f)
    BY DEF SetWatches
  <2>2. f.type = "frame"
    BY DEF Frame
  <2> QED BY <2>1, <2>2
<1>3. /\ NoNewVerdict /\ IsSeq(toClient)'
      /\ \A i \in DOMAIN toClient' : toClient'[i].type = "verdict" => toClient'[i].n \in Commits
  BY <1>2, FrameSent
<1>4. /\ IsSeq(toServer)'
      /\ \A i \in DOMAIN toServer' : toServer'[i].type = "commit" => toServer'[i].n \in Commits
      /\ \A n \in Commits :
           /\ \A i, j \in DOMAIN toServer' : Carries(i, n)' /\ Carries(j, n)' => i = j
           /\ \A i \in DOMAIN toServer' : Carries(i, n)' =>
                /\ n \in replica.outstanding
                /\ \A j \in DOMAIN toClient : ~ Tells(j, n)
  BY <1>1, RequestTaken
<1>5. Typed'
  BY <1>1, <1>3, <1>4 DEF IInv, Typed, Fields
<1>6. OneCopy'
  BY <1>1, <1>3, <1>4 DEF OneCopy, NoNewVerdict
<1>7. \A n \in Commits : FateMoves(n)
  BY <1>1 DEF FateMoves
<1> QED BY <1>1, <1>3, <1>5, <1>6, <1>7, Kept

\* A verdict ends its commit's wait: no copy is left behind it.
LEMMA ReceiveVerdictStep ==
  ASSUME IInv, ReceiveVerdict
  PROVE  IInv'
<1> DEFINE v == Head(toClient)
           k == v.n
<1>1. /\ toClient # <<>> /\ v.type = "verdict" /\ toClient' = Tail(toClient)
      /\ replica' = [replica EXCEPT !.outstanding = @ \ {k}, !.restoring = @ \ {k}]
      /\ UNCHANGED <<log, toServer, issued>>
      /\ \/ fate[k] # "sent" /\ fate' = fate
         \/ /\ fate[k] = "sent"
            /\ fate' = [fate EXCEPT ![k] = IF v.ok THEN "accepted" ELSE "repairing"]
  BY DEF ReceiveVerdict
<1>2. /\ NoNewVerdict /\ IsSeq(toClient)' /\ 1 \in DOMAIN toClient /\ v = toClient[1]
      /\ \A i \in DOMAIN toClient' : toClient'[i].type = "verdict" => toClient'[i].n \in Commits
  BY <1>1, AnswerTaken
<1>3. k \in Commits /\ Tells(1, k) /\ (v.ok <=> Resolved(k))
  <2>1. k \in Commits /\ Tells(1, k)
    BY <1>1, <1>2 DEF IInv, Typed, Tells
  <2> QED BY <1>2, <2>1 DEF IInv, VerdictsTold
<1> HIDE DEF v
<1>4. DOMAIN replica' = Fields /\ replica'.outstanding = replica.outstanding \ {k}
  <2>1. DOMAIN replica = Fields
    BY DEF IInv, Typed
  <2> HIDE DEF k
  <2> QED BY <1>1, <2>1 DEF Fields
<1>5. /\ fate' \in [Commits -> Fates]
      /\ \A n \in Commits : n # k => fate'[n] = fate[n]
      /\ \/ fate'[k] = fate[k]
         \/ /\ fate[k] = "sent"
            /\ \/ fate'[k] = "accepted" /\ Resolved(k)
               \/ fate'[k] = "repairing" /\ ~ Resolved(k)
  <2>1. fate \in [Commits -> Fates]
    BY DEF IInv, Typed
  <2> HIDE DEF k
  <2> QED BY <1>1, <1>3, <2>1 DEF Fates
<1> HIDE DEF k
<1>6. \A n \in Commits : fate'[n] = "unissued" <=> fate[n] = "unissued"
  BY <1>5
<1>7. Typed'
  BY <1>1, <1>2, <1>4, <1>5, <1>6 DEF IInv, Typed
<1>8. OneCopy'
  <2>1. SUFFICES ASSUME NEW n \in Commits
                 PROVE  /\ \A i, j \in DOMAIN toServer : Carries(i, n) /\ Carries(j, n) => i = j
                        /\ \A i \in DOMAIN toServer : Carries(i, n) =>
                             /\ n \in replica'.outstanding
                             /\ \A j \in DOMAIN toClient' : ~ Tells(j, n)'
    BY <1>1 DEF OneCopy, Carries
  <2>2. /\ \A i, j \in DOMAIN toServer : Carries(i, n) /\ Carries(j, n) => i = j
        /\ \A i \in DOMAIN toServer : Carries(i, n) =>
             n \in replica.outstanding /\ \A j \in DOMAIN toClient : ~ Tells(j, n)
    BY DEF IInv, OneCopy
  <2> QED BY <1>2, <1>3, <1>4, <2>2 DEF NoNewVerdict
<1>9. \A n \in Commits : FateMoves(n)
  BY <1>3, <1>4, <1>5 DEF FateMoves, NotSent, Taken, Lost
<1> QED BY <1>1, <1>2, <1>4, <1>7, <1>8, <1>9, Kept

\* A frame promotes accepted commits.
LEMMA ReceiveFrameStep ==
  ASSUME IInv, ReceiveFrame
  PROVE  IInv'
<1>1. /\ toClient # <<>> /\ toClient' = Tail(toClient)
      /\ UNCHANGED <<log, toServer, issued>>
  BY DEF ReceiveFrame
<1>2. PICK due \in SUBSET Parked : fate' = [n \in Commits |-> IF n \in due THEN "applied" ELSE fate[n]]
  BY DEF ReceiveFrame, Parked
<1>3. DOMAIN replica' = Fields /\ replica'.outstanding = replica.outstanding
  <2>1. DOMAIN replica = Fields
    BY DEF IInv, Typed
  <2>2. PICK c, d, t, r, ns :
          replica' = Confirmed([replica EXCEPT !.confirmed = c, !.delivered = d,
                                               !.caughtUp = t, !.restoring = r], ns)
    BY DEF ReceiveFrame
  <2> DEFINE m == [replica EXCEPT !.confirmed = c, !.delivered = d, !.caughtUp = t, !.restoring = r]
  <2>3. DOMAIN m = Fields /\ m.outstanding = replica.outstanding
    BY <2>1 DEF Fields
  <2> HIDE DEF m
  <2>4. replica' = Confirmed(m, ns)
    BY <2>2 DEF m
  <2> QED BY <2>3, <2>4, ConfirmedIs
<1>4. /\ NoNewVerdict /\ IsSeq(toClient)'
      /\ \A i \in DOMAIN toClient' : toClient'[i].type = "verdict" => toClient'[i].n \in Commits
  BY <1>1, AnswerTaken
<1>5. /\ fate' \in [Commits -> Fates]
      /\ \A n \in Commits : fate'[n] = fate[n] \/ (fate[n] = "parked" /\ fate'[n] = "applied")
  BY <1>2 DEF IInv, Typed, Parked, Fates
<1>6. Typed'
  BY <1>1, <1>3, <1>4, <1>5 DEF IInv, Typed
<1>7. OneCopy'
  BY <1>1, <1>3, <1>4, CopiesKept
<1>8. \A n \in Commits : FateMoves(n)
  BY <1>5 DEF FateMoves, NotSent, Taken, Lost
<1> QED BY <1>1, <1>3, <1>4, <1>6, <1>7, <1>8, Kept

\* Steps that move the fate of some commits and nothing on the channel.
LEMMA FatesMove ==
  ASSUME IInv, UNCHANGED <<log, toServer, toClient, issued>>,
         DOMAIN replica' = Fields, replica'.outstanding = replica.outstanding,
         fate' \in [Commits -> Fates],
         \A n \in Commits : fate'[n] = "unissued" <=> fate[n] = "unissued",
         \A n \in Commits : FateMoves(n)
  PROVE  IInv'
<1>1. Typed'
  BY DEF IInv, Typed
<1>2. NoNewVerdict
  BY DEF NoNewVerdict, Tells
<1>3. OneCopy'
  BY <1>2, CopiesKept
<1> QED BY <1>1, <1>2, <1>3, Kept

\* An accepted commit is promoted or parked.
LEMMA SettleAcceptStep ==
  ASSUME IInv, NEW n \in Commits, SettleAccept(n)
  PROVE  IInv'
<1>1. /\ fate[n] = "accepted" /\ UNCHANGED <<log, toServer, toClient, issued>>
      /\ \/ fate' = [fate EXCEPT ![n] = "applied"] /\ replica' = Confirmed(replica, {n})
         \/ fate' = [fate EXCEPT ![n] = "parked"] /\ replica' = replica
  BY DEF SettleAccept, NextAccepted
<1>2. DOMAIN replica' = Fields /\ replica'.outstanding = replica.outstanding
  BY <1>1, ConfirmedIs DEF IInv, Typed
<1>3. /\ fate' \in [Commits -> Fates]
      /\ \A m \in Commits : fate'[m] = fate[m] \/ (fate[m] = "accepted" /\ fate'[m] \in {"applied", "parked"})
  BY <1>1 DEF IInv, Typed, Fates
<1>4. \A m \in Commits : FateMoves(m)
  BY <1>3 DEF FateMoves, NotSent, Taken, Lost
<1> QED BY <1>1, <1>2, <1>3, <1>4, FatesMove

\* A repair is given up.
LEMMA RepairTimesOutStep ==
  ASSUME IInv, NEW n \in Commits, RepairTimesOut(n)
  PROVE  IInv'
<1>1. /\ fate[n] \in {"repairing", "waiting"} /\ UNCHANGED <<log, toServer, toClient, issued, replica>>
      /\ fate' = [fate EXCEPT ![n] = "doomed"]
  BY DEF RepairTimesOut
<1>2. DOMAIN replica' = Fields /\ replica'.outstanding = replica.outstanding
  BY <1>1 DEF IInv, Typed
<1>3. /\ fate' \in [Commits -> Fates]
      /\ \A m \in Commits : fate'[m] = fate[m] \/ (fate[m] \in {"repairing", "waiting"} /\ fate'[m] = "doomed")
  BY <1>1 DEF IInv, Typed, Fates
<1>4. \A m \in Commits : fate[m] = "waiting" => ~ Resolved(m) /\ m \notin replica.outstanding
  BY DEF IInv, Unsent
<1>5. \A m \in Commits : FateMoves(m)
  BY <1>2, <1>3, <1>4 DEF FateMoves, NotSent, Taken, Lost
<1> QED BY <1>1, <1>2, <1>3, <1>5, FatesMove

\* A layer is dropped, and what read through it is doomed: had that been
\* stored, so had the layer.
LEMMA DropStep ==
  ASSUME IInv, NEW n \in Commits, Drop(n)
  PROVE  IInv'
<1>1. /\ Ready(n) /\ UNCHANGED <<log, toServer, toClient, issued>>
      /\ fate' = [m \in Commits |-> IF m = n THEN "rejected"
                                    ELSE IF m \in Dependants(n) THEN "doomed" ELSE fate[m]]
  BY DEF Drop
<1>2. fate[n] \in {"doomed", "repairing", "waiting"}
  BY <1>1 DEF Ready
<1>3. DOMAIN replica' = Fields /\ replica'.outstanding = replica.outstanding
  <2>1. DOMAIN replica = Fields
    BY DEF IInv, Typed
  <2>2. PICK p : replica' = [replica EXCEPT !.pending = p]
    BY DEF Drop
  <2> QED BY <2>1, <2>2 DEF Fields
<1>4. ~ Resolved(n) /\ (fate[n] \in NotSent => n \notin replica.outstanding)
  BY <1>2 DEF IInv, Unsent, Over, NotSent
<1>5. \A m \in Dependants(n) : fate[m] \in {"queued", "sent"} /\ n \in Deps(m)
  BY DEF Dependants
<1>6. \A m \in Dependants(n) \cap Commits : ~ Resolved(m)
  BY <1>4, <1>5 DEF IInv, ReadsStored
<1>7. fate' \in [Commits -> Fates]
  BY <1>1 DEF IInv, Typed, Fates
<1>8. \A m \in Commits : FateMoves(m)
  <2>1. SUFFICES ASSUME NEW m \in Commits PROVE FateMoves(m)
    OBVIOUS
  <2>2. CASE m = n
    <3>1. fate'[m] = "rejected"
      BY <1>1, <2>2
    <3>2. fate[m] \in Lost \/ (~ Resolved(m) /\ m \notin replica'.outstanding)
      BY <1>2, <1>3, <1>4, <2>2 DEF Lost, NotSent
    <3> QED BY <3>1, <3>2 DEF FateMoves, NotSent, Taken, Lost
  <2>3. CASE m # n /\ m \in Dependants(n)
    <3>1. fate'[m] = "doomed" /\ fate'[n] = "rejected" /\ fate[m] # "rejected"
      BY <1>1, <1>5, <2>3
    <3>2. ~ Resolved(m) /\ n \in Deps(m) \cap Commits
      BY <1>5, <1>6, <2>3
    <3> QED BY <3>1, <3>2 DEF FateMoves, NotSent, Taken, Lost
  <2>4. CASE m # n /\ m \notin Dependants(n)
    <3>1. fate'[m] = fate[m]
      BY <1>1, <2>4
    <3> QED BY <3>1 DEF FateMoves
  <2> QED BY <2>2, <2>3, <2>4
<1>9. \A m \in Commits : fate'[m] = "unissued" <=> fate[m] = "unissued"
  BY <1>1, <1>2, <1>5
<1> QED BY <1>1, <1>3, <1>7, <1>8, <1>9, FatesMove

\* A commit goes out, or waits for the layer it named to be dropped.
LEMMA SendStep ==
  ASSUME IInv, NEW n \in Commits, Send(n)
  PROVE  IInv'
<1> DEFINE c == [type |-> "commit", n |-> n]
<1>1. /\ fate[n] = "queued" /\ UNCHANGED <<log, toClient, issued>>
      /\ \/ /\ fate' = [fate EXCEPT ![n] = "waiting"]
            /\ UNCHANGED <<toServer, replica>>
         \/ /\ fate' = [fate EXCEPT ![n] = "sent"]
            /\ toServer' = Append(toServer, c)
            /\ replica' = [replica EXCEPT !.outstanding = @ \cup {n}]
  BY DEF Send
<1>2. CASE fate' = [fate EXCEPT ![n] = "waiting"] /\ UNCHANGED <<toServer, replica>>
  <2>1. DOMAIN replica' = Fields /\ replica'.outstanding = replica.outstanding
    BY <1>2 DEF IInv, Typed
  <2>2. /\ fate' \in [Commits -> Fates]
        /\ \A m \in Commits : fate'[m] = fate[m] \/ (fate[m] = "queued" /\ fate'[m] = "waiting")
    BY <1>1, <1>2 DEF IInv, Typed, Fates
  <2>3. \A m \in Commits : FateMoves(m)
    BY <2>2 DEF FateMoves, NotSent, Taken, Lost
  <2> QED BY <1>1, <1>2, <2>1, <2>2, <2>3, FatesMove
<1>3. CASE /\ fate' = [fate EXCEPT ![n] = "sent"]
           /\ toServer' = Append(toServer, c)
           /\ replica' = [replica EXCEPT !.outstanding = @ \cup {n}]
  <2>1. DOMAIN replica' = Fields /\ replica'.outstanding = replica.outstanding \cup {n}
    BY <1>3 DEF IInv, Typed, Fields
  <2>2. /\ fate' \in [Commits -> Fates] /\ fate'[n] = "sent"
        /\ \A m \in Commits : m # n => fate'[m] = fate[m]
    BY <1>1, <1>3 DEF IInv, Typed, Fates
  <2>3. /\ IsSeq(toServer') /\ Len(toServer) \in Nat
        /\ \A i \in DOMAIN toServer' :
             (i \in DOMAIN toServer /\ toServer'[i] = toServer[i])
             \/ (i = Len(toServer) + 1 /\ toServer'[i] = c)
    BY <1>3, GrowsIs DEF IInv, Typed
  <2>4. ~ Resolved(n) /\ n \notin replica.outstanding /\ \A i \in DOMAIN toClient : ~ Tells(i, n)
    BY <1>1 DEF IInv, Unsent
  <2>5. Typed'
    <3>1. \A i \in DOMAIN toServer' : toServer'[i].type = "commit" => toServer'[i].n \in Commits
      BY <2>3 DEF IInv, Typed
    <3>2. \A m \in Commits : fate'[m] = "unissued" <=> fate[m] = "unissued"
      BY <1>1, <2>2
    <3> QED BY <1>1, <2>1, <2>2, <2>3, <3>1, <3>2 DEF IInv, Typed
  <2>6. OneCopy'
    <3>1. SUFFICES ASSUME NEW m \in Commits
                   PROVE  /\ \A i, j \in DOMAIN toServer' : Carries(i, m)' /\ Carries(j, m)' => i = j
                          /\ \A i \in DOMAIN toServer' : Carries(i, m)' =>
                               /\ m \in replica'.outstanding
                               /\ \A j \in DOMAIN toClient : ~ Tells(j, m)
      BY <1>1 DEF OneCopy, Tells
    <3>2. /\ \A i, j \in DOMAIN toServer : Carries(i, m) /\ Carries(j, m) => i = j
          /\ \A i \in DOMAIN toServer : Carries(i, m) =>
               m \in replica.outstanding /\ \A j \in DOMAIN toClient : ~ Tells(j, m)
      BY DEF IInv, OneCopy
    <3>3. \A i \in DOMAIN toServer' : Carries(i, m)' =>
            (i \in DOMAIN toServer /\ Carries(i, m)) \/ (i = Len(toServer) + 1 /\ m = n)
      BY <2>3 DEF Carries
    <3>4. \A i \in DOMAIN toServer : ~ Carries(i, n)
      BY <2>4 DEF IInv, OneCopy
    <3> QED BY <2>1, <2>4, <3>2, <3>3, <3>4
  <2>7. \A m : (Resolved(m)' <=> Resolved(m)) /\ Deps(m)' = Deps(m)
    BY <1>1, DepsKept DEF Resolved
  <2>8. \A i, m : Tells(i, m)' <=> Tells(i, m)
    BY <1>1 DEF Tells
  <2>9. Unsent'
    BY <1>1, <2>1, <2>2, <2>7, <2>8 DEF IInv, Unsent
  <2>10. VerdictsTold' /\ ReadsStored' /\ StoredOnce'
    BY <1>1, <2>7, <2>8 DEF IInv, VerdictsTold, ReadsStored, StoredOnce
  <2>11. AcceptedStored'
    BY <2>2, <2>7 DEF IInv, AcceptedStored
  <2>12. Over'
    <3>1. SUFFICES ASSUME NEW m \in Commits, fate'[m] \in {"repairing", "doomed", "rejected"}
                   PROVE  /\ ~ Resolved(m)
                          /\ \/ m \notin replica'.outstanding
                             \/ \E o \in Deps(m) \cap Commits : fate'[o] = "rejected"
      BY <2>7 DEF Over
    <3>2. m # n /\ fate[m] = fate'[m]
      BY <2>2, <3>1
    <3>3. /\ ~ Resolved(m)
          /\ \/ m \notin replica.outstanding
             \/ \E o \in Deps(m) \cap Commits : fate[o] = "rejected"
      BY <3>1, <3>2 DEF IInv, Over
    <3>4. \A o \in Commits : fate[o] = "rejected" => fate'[o] = "rejected"
      BY <1>1, <2>2
    <3> QED BY <2>1, <3>2, <3>3, <3>4
  <2> QED BY <2>5, <2>6, <2>9, <2>10, <2>11, <2>12 DEF IInv
<1> QED BY <1>1, <1>2, <1>3

\* A new commit: its number is above all others'.
LEMMA IssueStep ==
  ASSUME IInv, NEW d \in Docs, NEW op, NEW docs, Issue(d, op, docs)
  PROVE  IInv'
<1> DEFINE n == Len(issued) + 1
<1>1. PICK c, p :
        /\ n <= MaxCommits /\ UNCHANGED <<log, toServer, toClient>>
        /\ issued' = Append(issued, c)
        /\ fate' = [fate EXCEPT ![n] = "queued"]
        /\ replica' = [replica EXCEPT !.pending = p]
  BY DEF Issue
<1>2. /\ IsSeq(issued') /\ Len(issued) \in Nat /\ Len(issued') = n
      /\ \A i \in 1..Len(issued) : issued'[i] = issued[i]
  BY <1>1, GrowsIs DEF IInv, Typed
<1>3. n \in Commits /\ Commits \subseteq Nat
  BY <1>1, <1>2, ReplicaAssumption DEF Commits
<1>4. fate[n] = "unissued"
  BY <1>2, <1>3 DEF IInv, Typed
<1>5. /\ fate' \in [Commits -> Fates] /\ fate'[n] = "queued"
      /\ \A m \in Commits : m # n => fate'[m] = fate[m]
  <2>1. fate \in [Commits -> Fates]
    BY DEF IInv, Typed
  <2> HIDE DEF n
  <2> QED BY <1>1, <1>3, <2>1 DEF Fates
<1>6. DOMAIN replica' = Fields /\ replica'.outstanding = replica.outstanding
  BY <1>1 DEF IInv, Typed, Fields
<1>7. \A m \in Commits : fate'[m] = "unissued" <=> m > n
  <2>1. \A m \in Commits : fate[m] = "unissued" <=> m > Len(issued)
    BY DEF IInv, Typed
  <2> QED BY <1>2, <1>3, <1>5, <2>1
<1>8. Typed'
  BY <1>1, <1>2, <1>5, <1>6, <1>7 DEF IInv, Typed
<1> HIDE DEF n
<1>9. \A m : (Resolved(m)' <=> Resolved(m))
  BY <1>1 DEF Resolved
<1>10. \A m \in Commits : fate[m] # "unissued" => Deps(m)' = Deps(m)
  <2>1. SUFFICES ASSUME NEW m \in Commits, fate[m] # "unissued" PROVE issued'[m] = issued[m]
    BY DepsKept
  <2>2. m \in 1..Len(issued)
    <3>1. m \in Nat /\ m >= 1
      BY ReplicaAssumption DEF Commits
    <3>2. ~ m > Len(issued)
      BY <2>1 DEF IInv, Typed
    <3> QED BY <1>2, <3>1, <3>2
  <2> QED BY <1>2, <2>2
<1>11. NoNewVerdict /\ \A i, m : Tells(i, m)' <=> Tells(i, m)
  BY <1>1 DEF NoNewVerdict, Tells
<1>12. OneCopy'
  BY <1>1, <1>6, <1>11, CopiesKept
<1>13. Unsent'
  BY <1>1, <1>4, <1>5, <1>6, <1>9, <1>11 DEF IInv, Unsent
<1>14. VerdictsTold' /\ AcceptedStored' /\ StoredOnce'
  BY <1>1, <1>5, <1>9, <1>11 DEF IInv, VerdictsTold, AcceptedStored, StoredOnce
<1>15. Over'
  <2>1. SUFFICES ASSUME NEW m \in Commits, fate'[m] \in {"repairing", "doomed", "rejected"}
                 PROVE  /\ ~ Resolved(m)
                        /\ \/ m \notin replica.outstanding
                           \/ \E o \in Deps(m)' \cap Commits : fate'[o] = "rejected"
    BY <1>6, <1>9 DEF Over
  <2>2. fate'[m] = fate[m] /\ Deps(m)' = Deps(m)
    BY <1>5, <1>10, <2>1
  <2>3. /\ ~ Resolved(m)
        /\ \/ m \notin replica.outstanding
           \/ \E o \in Deps(m) \cap Commits : fate[o] = "rejected"
    BY <2>1, <2>2 DEF IInv, Over
  <2>4. \A o \in Commits : fate[o] = "rejected" => fate'[o] = "rejected"
    BY <1>4, <1>5
  <2> QED BY <2>2, <2>3, <2>4
<1>16. ReadsStored'
  <2>1. SUFFICES ASSUME NEW m \in Commits, Resolved(m) PROVE \A o \in Deps(m)' : Resolved(o)
    BY <1>9 DEF ReadsStored
  <2>2. fate[m] # "unissued"
    BY <2>1 DEF IInv, Unsent
  <2> QED BY <1>10, <2>1, <2>2 DEF IInv, ReadsStored
<1> QED BY <1>8, <1>12, <1>13, <1>14, <1>15, <1>16 DEF IInv

\* The log grows with another session's commit.
LEMMA ForeignStep ==
  ASSUME IInv, NEW d \in Docs, NEW op, CommitForeign(d, op)
  PROVE  IInv'
<1>1. PICK row : /\ row.by = Foreign /\ log' = Append(log, row)
                 /\ UNCHANGED <<toServer, toClient, issued, fate, replica>>
  <2> DEFINE tag == MaxCommits + Len(log) + 1
             row == [doc |-> d, by |-> Foreign, val |-> Applied(DocAt(d, Len(log)), op, tag)]
  <2>1. log' = Append(log, row) /\ UNCHANGED <<toServer, toClient, issued, fate, replica>>
    BY DEF CommitForeign
  <2>2. row.by = Foreign
    OBVIOUS
  <2> QED BY <2>1, <2>2
<1>2. Foreign \notin Commits
  BY ReplicaAssumption DEF Foreign, Commits
<1>3. /\ IsSeq(log)' /\ StoredOnce'
      /\ \A n : Resolved(n)' <=> Resolved(n) \/ n = row.by
  BY <1>1, <1>2, LogGrows DEF IInv, Typed
<1>4. /\ \A n \in Commits : Resolved(n)' <=> Resolved(n)
      /\ \A n : Resolved(n) => Resolved(n)'
      /\ \A n : Deps(n)' = Deps(n)
  BY <1>1, <1>2, <1>3, DepsKept
<1>5. /\ \A i, n : Tells(i, n)' <=> Tells(i, n)
      /\ \A i, n : Carries(i, n)' <=> Carries(i, n)
  BY <1>1 DEF Tells, Carries
<1>6. Typed'
  BY <1>1, <1>3 DEF IInv, Typed
<1>7. OneCopy'
  BY <1>1, <1>5 DEF IInv, OneCopy
<1>8. Unsent' /\ VerdictsTold' /\ AcceptedStored'
  BY <1>1, <1>4, <1>5 DEF IInv, Unsent, VerdictsTold, AcceptedStored
<1>9. Over'
  BY <1>1, <1>4 DEF IInv, Over
<1>10. ReadsStored'
  BY <1>4 DEF IInv, ReadsStored
<1> QED BY <1>3, <1>6, <1>7, <1>8, <1>9, <1>10 DEF IInv

\* The server decides a commit.  One that was dropped here cannot be stored any
\* more: what it read through was dropped before it and is not stored.
LEMMA DecideStep ==
  ASSUME IInv, Decide
  PROVE  IInv'
<1>2. PICK n : n = Head(toServer).n
  OBVIOUS
<1> DEFINE c == issued[n]
<1>1. /\ toServer # <<>> /\ Head(toServer).type = "commit" /\ toServer' = Tail(toServer)
      /\ UNCHANGED <<issued, fate, replica>>
  BY DEF Decide
<1>3. /\ IsSeq(toServer)' /\ 1 \in DOMAIN toServer /\ Head(toServer) = toServer[1]
      /\ \A i \in DOMAIN toServer' : toServer'[i].type = "commit" => toServer'[i].n \in Commits
      /\ \A m \in Commits :
           /\ \A i, j \in DOMAIN toServer' : Carries(i, m)' /\ Carries(j, m)' => i = j
           /\ \A i \in DOMAIN toServer' : Carries(i, m)' =>
                /\ m \in replica.outstanding
                /\ \A j \in DOMAIN toClient : ~ Tells(j, m)
           /\ Carries(1, m) => \A i \in DOMAIN toServer' : ~ Carries(i, m)'
  BY <1>1, RequestTaken
<1>4. n \in Commits /\ Carries(1, n)
  BY <1>1, <1>2, <1>3 DEF IInv, Typed, Carries
<1>5. n \in replica.outstanding /\ \A j \in DOMAIN toClient : ~ Tells(j, n)
  BY <1>3, <1>4 DEF IInv, OneCopy
<1>6. PICK q, ok :
        /\ toClient' = Append(toClient, Verdict(n, ok, q)) /\ ok \in BOOLEAN
        /\ \/ Resolved(n) /\ ok = TRUE /\ log' = log
           \/ /\ ~ Resolved(n) /\ Admissible(c) /\ ok = TRUE
              /\ \E d, val : log' = Append(log, [doc |-> d, by |-> n, val |-> val])
           \/ ~ Resolved(n) /\ ok = FALSE /\ log' = log
  BY <1>2 DEF Decide
<1> DEFINE v == Verdict(n, ok, q)
<1>7. v.type = "verdict" /\ v.n = n /\ v.ok = ok
  BY DEF Verdict
<1>8. Admissible(c) => \A m \in Deps(n) : Resolved(m)
  BY DEF Admissible, Fresh, Deps
<1> HIDE DEF c
<1>9. /\ IsSeq(log)' /\ StoredOnce' /\ \A m : Resolved(m) => Resolved(m)'
      /\ \A m : m # n => (Resolved(m)' <=> Resolved(m))
      /\ Resolved(n)' <=> ok = TRUE
      /\ ~ Resolved(n) /\ Resolved(n)' => \A m \in Deps(n) : Resolved(m)
  <2>1. CASE log' = log
    <3>1. \A m : Resolved(m)' <=> Resolved(m)
      BY <2>1 DEF Resolved
    <3>2. ok = TRUE <=> Resolved(n)
      <4>1. CASE ~ Resolved(n) /\ Admissible(c) /\ ok = TRUE
                 /\ \E d, val : log' = Append(log, [doc |-> d, by |-> n, val |-> val])
        <5>1. PICK d, val : log' = Append(log, [doc |-> d, by |-> n, val |-> val])
          BY <4>1
        <5>2. Len(log') = Len(log) + 1 /\ Len(log) \in Nat
          BY <5>1, GrowsIs DEF IInv, Typed
        <5> QED BY <2>1, <5>2
      <4> QED BY <1>6, <4>1
    <3>3. IsSeq(log)' /\ StoredOnce'
      BY <2>1 DEF IInv, Typed, StoredOnce
    <3> QED BY <3>1, <3>2, <3>3
  <2>2. CASE log' # log
    <3>1. PICK row : /\ row.by = n /\ log' = Append(log, row)
                     /\ ~ Resolved(n) /\ Admissible(c) /\ ok = TRUE
      <4>1. PICK d, val : log' = Append(log, [doc |-> d, by |-> n, val |-> val])
        BY <1>6, <2>2
      <4> QED BY <1>6, <2>2, <4>1
    <3>2. /\ IsSeq(log)' /\ StoredOnce'
          /\ \A m : Resolved(m)' <=> Resolved(m) \/ m = n
      BY <3>1, LogGrows DEF IInv, Typed
    <3> QED BY <1>8, <3>1, <3>2
  <2> QED BY <2>1, <2>2
<1>10. Resolved(n)' => fate[n] \notin NotSent \cup Lost
  <2>1. fate[n] \notin NotSent
    BY <1>4, <1>5 DEF IInv, Unsent, NotSent
  <2>2. ASSUME fate[n] \in Lost, Resolved(n)' PROVE FALSE
    <3>1. ~ Resolved(n) /\ \E m \in Deps(n) \cap Commits : fate[m] = "rejected"
      BY <1>4, <1>5, <2>2 DEF IInv, Over, Lost
    <3>2. PICK m \in Deps(n) \cap Commits : fate[m] = "rejected"
      BY <3>1
    <3>3. Resolved(m)
      BY <1>9, <2>2, <3>1, <3>2
    <3> QED BY <3>2, <3>3 DEF IInv, Over
  <2> QED BY <2>1, <2>2
<1>11. /\ IsSeq(toClient') /\ Len(toClient) \in Nat
       /\ \A i \in DOMAIN toClient' :
            (i \in DOMAIN toClient /\ toClient'[i] = toClient[i])
            \/ (i = Len(toClient) + 1 /\ toClient'[i] = v)
  BY <1>6, GrowsIs DEF IInv, Typed
<1>12. \A i \in DOMAIN toClient' : \A m : Tells(i, m)' =>
         \/ i \in DOMAIN toClient /\ Tells(i, m) /\ toClient'[i].ok = toClient[i].ok /\ m # n
         \/ m = n /\ toClient'[i].ok = ok
  BY <1>5, <1>7, <1>11 DEF Tells
<1>13. Typed'
  <2>1. \A i \in DOMAIN toClient' : toClient'[i].type = "verdict" => toClient'[i].n \in Commits
    BY <1>4, <1>7, <1>11 DEF IInv, Typed
  <2> QED BY <1>1, <1>3, <1>9, <1>11, <2>1 DEF IInv, Typed
<1>14. OneCopy'
  <2>1. SUFFICES ASSUME NEW m \in Commits
                 PROVE  /\ \A i, j \in DOMAIN toServer' : Carries(i, m)' /\ Carries(j, m)' => i = j
                        /\ \A i \in DOMAIN toServer' : Carries(i, m)' =>
                             /\ m \in replica.outstanding
                             /\ \A j \in DOMAIN toClient' : ~ Tells(j, m)'
    BY <1>1 DEF OneCopy
  <2> QED BY <1>3, <1>4, <1>12
<1>15. \A m : Deps(m)' = Deps(m)
  BY <1>1, DepsKept
<1>16. Unsent'
  <2>1. SUFFICES ASSUME NEW m \in Commits, fate[m] \in NotSent
                 PROVE  /\ ~ Resolved(m)' /\ m \notin replica.outstanding
                        /\ \A i \in DOMAIN toClient' : ~ Tells(i, m)'
    BY <1>1 DEF Unsent, NotSent
  <2>2. /\ ~ Resolved(m) /\ m \notin replica.outstanding /\ \A i \in DOMAIN toClient : ~ Tells(i, m)
    BY <2>1 DEF IInv, Unsent, NotSent
  <2>3. m # n
    BY <1>5, <2>2
  <2> QED BY <1>9, <1>12, <2>2, <2>3
<1>17. VerdictsTold'
  <2>1. SUFFICES ASSUME NEW m \in Commits, NEW i \in DOMAIN toClient', Tells(i, m)'
                 PROVE  toClient'[i].ok <=> Resolved(m)'
    BY DEF VerdictsTold
  <2>2. CASE m = n
    BY <1>5, <1>9, <1>12, <2>1, <2>2
  <2>3. CASE m # n
    <3>1. i \in DOMAIN toClient /\ Tells(i, m) /\ toClient'[i].ok = toClient[i].ok
      BY <1>12, <2>1, <2>3
    <3> QED BY <1>9, <2>3, <3>1 DEF IInv, VerdictsTold
  <2> QED BY <2>2, <2>3
<1>18. AcceptedStored'
  BY <1>1, <1>9 DEF IInv, AcceptedStored
<1>19. Over'
  <2>1. SUFFICES ASSUME NEW m \in Commits, fate[m] \in Lost
                 PROVE  /\ ~ Resolved(m)'
                        /\ \/ m \notin replica.outstanding
                           \/ \E o \in Deps(m) \cap Commits : fate[o] = "rejected"
    BY <1>1, <1>15 DEF Over, Lost
  <2>2. /\ ~ Resolved(m)
        /\ \/ m \notin replica.outstanding
           \/ \E o \in Deps(m) \cap Commits : fate[o] = "rejected"
    BY <2>1 DEF IInv, Over, Lost
  <2> QED BY <1>9, <1>10, <2>1, <2>2
<1>20. ReadsStored'
  <2>1. SUFFICES ASSUME NEW m \in Commits, Resolved(m)'
                 PROVE  \A o \in Deps(m) : Resolved(o)
    BY <1>9, <1>15 DEF ReadsStored
  <2>2. CASE Resolved(m)
    BY <2>2 DEF IInv, ReadsStored
  <2>3. CASE ~ Resolved(m)
    BY <1>9, <2>1, <2>3
  <2> QED BY <2>2, <2>3
<1> QED BY <1>9, <1>13, <1>14, <1>16, <1>17, <1>18, <1>19, <1>20 DEF IInv

-----------------------------------------------------------------------------
(* Lost connections                                                        *)

\* After a connection is lost: what has no verdict is on its way again, once,
\* and no verdict is.
LEMMA LostLine ==
  ASSUME IInv, NEW w, w.type = "watch",
         toServer' = Resent \/ toServer' = Append(Resent, w),
         \A i \in DOMAIN toClient' : toClient'[i].type # "verdict",
         replica'.outstanding = replica.outstanding
  PROVE  /\ IsSeq(toServer)' /\ OneCopy' /\ NoNewVerdict
         /\ \A i \in DOMAIN toServer' : toServer'[i].type = "commit" => toServer'[i].n \in Commits
         /\ \A i \in DOMAIN toClient' : toClient'[i].type = "verdict" => toClient'[i].n \in Commits
<1>1. /\ IsSeq(Resent) /\ Len(Resent) \in Nat /\ DOMAIN Resent = 1..Len(Resent)
      /\ \A i \in DOMAIN Resent : Resent[i].type = "commit" /\ Resent[i].n \in replica.outstanding
      /\ \A i, j \in DOMAIN Resent : Resent[i].n = Resent[j].n => i = j
  BY ResentIs DEF IInv
<1> DEFINE R == Resent
<1> HIDE DEF R
<1>2. /\ IsSeq(toServer')
      /\ \A i \in DOMAIN toServer' :
           (i \in DOMAIN R /\ toServer'[i] = R[i]) \/ toServer'[i].type = "watch"
  <2>1. CASE toServer' = R
    BY <1>1, <2>1 DEF R
  <2>2. CASE toServer' = Append(R, w)
    BY <1>1, <2>2, GrowsIs DEF R
  <2> QED BY <2>1, <2>2 DEF R
<1>3. \A i \in DOMAIN toServer' : toServer'[i].type = "commit" =>
        i \in DOMAIN R /\ toServer'[i] = R[i] /\ toServer'[i].n \in replica.outstanding
  BY <1>1, <1>2 DEF R
<1>4. \A n, i : i \in DOMAIN toClient' => ~ Tells(i, n)'
  BY DEF Tells
<1>5. OneCopy'
  <2>1. SUFFICES ASSUME NEW n \in Commits
                 PROVE  /\ \A i, j \in DOMAIN toServer' : Carries(i, n)' /\ Carries(j, n)' => i = j
                        /\ \A i \in DOMAIN toServer' : Carries(i, n)' =>
                             /\ n \in replica.outstanding
                             /\ \A j \in DOMAIN toClient' : ~ Tells(j, n)'
    BY DEF OneCopy
  <2>2. \A i \in DOMAIN toServer' : Carries(i, n)' =>
          i \in DOMAIN R /\ R[i].n = n /\ n \in replica.outstanding
    BY <1>3 DEF Carries
  <2>3. \A i, j \in DOMAIN R : R[i].n = R[j].n => i = j
    BY <1>1 DEF R
  <2> QED BY <1>4, <2>2, <2>3
<1>6. NoNewVerdict
  BY <1>4 DEF NoNewVerdict
<1>7. replica.outstanding \subseteq Commits
  BY DEF IInv, Typed
<1> QED BY <1>2, <1>3, <1>5, <1>6, <1>7

\* A resumed session: the catch-up is a frame.
LEMMA ResumeStep ==
  ASSUME IInv, Resume
  PROVE  IInv'
<1>1. PICK f, r :
        /\ toClient' = <<f>> /\ f.type = "frame" /\ toServer' = Resent
        /\ replica' = [replica EXCEPT !.restoring = r]
        /\ UNCHANGED <<log, issued, fate>>
  <2> DEFINE f == Frame(Snapshot({d \in Docs : HeadSeq(d) # replica.delivered[d]}),
                        Max({server.told, server.owed}), FALSE)
  <2>1. toClient' = <<f>> /\ f.type = "frame"
    BY DEF Resume, Frame
  <2>2. /\ toServer' = Resent /\ UNCHANGED <<log, issued, fate>>
        /\ replica' = [replica EXCEPT !.restoring = @ \cup replica.outstanding]
    BY DEF Resume
  <2> QED BY <2>1, <2>2
<1>2. DOMAIN replica' = Fields /\ replica'.outstanding = replica.outstanding
  BY <1>1 DEF IInv, Typed, Fields
<1>3. IsSeq(toClient)' /\ \A i \in DOMAIN toClient' : toClient'[i].type # "verdict"
  <2>1. toClient' \in Seq({f}) /\ \A i \in DOMAIN toClient' : toClient'[i] = f
    BY <1>1
  <2> QED BY <1>1, <2>1, SeqIs
<1>4. PICK w : w.type = "watch"
  <2>1. [type |-> "watch"].type = "watch"
    OBVIOUS
  <2> QED BY <2>1
<1>5. /\ IsSeq(toServer)' /\ OneCopy' /\ NoNewVerdict
      /\ \A i \in DOMAIN toServer' : toServer'[i].type = "commit" => toServer'[i].n \in Commits
      /\ \A i \in DOMAIN toClient' : toClient'[i].type = "verdict" => toClient'[i].n \in Commits
  BY <1>1, <1>2, <1>3, <1>4, LostLine
<1>6. Typed'
  BY <1>1, <1>2, <1>3, <1>5 DEF IInv, Typed
<1>7. \A n \in Commits : FateMoves(n)
  BY <1>1 DEF FateMoves
<1> QED BY <1>1, <1>2, <1>5, <1>6, <1>7, Kept

\* A replaced session promotes what is parked and gives up its repairs.
LEMMA ReplaceStep ==
  ASSUME IInv, Replace
  PROVE  IInv'
<1>1. /\ toClient' = <<>> /\ UNCHANGED <<log, issued>>
      /\ toServer' = Append(Resent, [type |-> "watch", holdings |-> replica.delivered])
      /\ fate' = [n \in Commits |-> CASE fate[n] = "parked" -> "applied"
                                      [] fate[n] = "repairing" -> "doomed"
                                      [] OTHER -> fate[n]]
      /\ replica' = [Confirmed(replica, Parked) EXCEPT !.restoring = {Watches} \cup replica.outstanding]
  BY DEF Replace
<1>2. DOMAIN replica' = Fields /\ replica'.outstanding = replica.outstanding
  <2> DEFINE c == Confirmed(replica, Parked)
  <2>1. DOMAIN c = Fields /\ c.outstanding = replica.outstanding
    BY ConfirmedIs DEF IInv, Typed
  <2> HIDE DEF c
  <2>2. replica' = [c EXCEPT !.restoring = {Watches} \cup replica.outstanding]
    BY <1>1 DEF c
  <2> QED BY <2>1, <2>2 DEF Fields
<1>3. IsSeq(toClient)' /\ \A i \in DOMAIN toClient' : toClient'[i].type # "verdict"
  <2>1. toClient' \in Seq({}) /\ DOMAIN toClient' = {}
    BY <1>1
  <2> QED BY <2>1, SeqIs
<1>4. PICK w : w.type = "watch" /\ toServer' = Append(Resent, w)
  <2> DEFINE w == [type |-> "watch", holdings |-> replica.delivered]
  <2>1. w.type = "watch"
    OBVIOUS
  <2> QED BY <1>1, <2>1
<1>5. /\ IsSeq(toServer)' /\ OneCopy' /\ NoNewVerdict
      /\ \A i \in DOMAIN toServer' : toServer'[i].type = "commit" => toServer'[i].n \in Commits
      /\ \A i \in DOMAIN toClient' : toClient'[i].type = "verdict" => toClient'[i].n \in Commits
  BY <1>2, <1>3, <1>4, LostLine
<1>6. /\ fate' \in [Commits -> Fates]
      /\ \A n \in Commits : \/ fate'[n] = fate[n]
                            \/ fate[n] = "parked" /\ fate'[n] = "applied"
                            \/ fate[n] = "repairing" /\ fate'[n] = "doomed"
  BY <1>1 DEF IInv, Typed, Fates
<1>7. Typed'
  BY <1>1, <1>2, <1>3, <1>5, <1>6 DEF IInv, Typed
<1>8. \A n \in Commits : FateMoves(n)
  BY <1>6 DEF FateMoves, NotSent, Taken, Lost
<1> QED BY <1>1, <1>2, <1>5, <1>7, <1>8, Kept

-----------------------------------------------------------------------------
(* The theorems                                                            *)

\* Nothing is issued at the start.
LEMMA InitHolds ==
  ASSUME Init
  PROVE  IInv
<1>1. /\ log = <<>> /\ toServer = <<>> /\ toClient = <<>> /\ issued = <<>>
      /\ fate = [n \in Commits |-> "unissued"]
      /\ DOMAIN replica = Fields /\ replica.outstanding = {}
  BY DEF Init, Fields
<1>2. IsSeq(<<>>) /\ Len(<<>>) = 0 /\ DOMAIN <<>> = {}
  <2>1. <<>> \in Seq({}) /\ Len(<<>>) = 0 /\ DOMAIN <<>> = {}
    OBVIOUS
  <2> QED BY <2>1, SeqIs
<1>3. \A n \in Commits : ~ Resolved(n) /\ fate[n] = "unissued" /\ n > 0
  BY <1>1, <1>2, ReplicaAssumption DEF Resolved, Commits
<1>4. Typed
  <2>1. 0 <= MaxCommits
    BY ReplicaAssumption
  <2>2. fate \in [Commits -> Fates]
    BY <1>1 DEF Fates
  <2> QED BY <1>1, <1>2, <1>3, <2>1, <2>2 DEF Typed
<1>5. OneCopy /\ VerdictsTold /\ StoredOnce /\ Unsent
  BY <1>1, <1>2, <1>3 DEF OneCopy, VerdictsTold, StoredOnce, Unsent
<1>6. AcceptedStored /\ Over /\ ReadsStored
  BY <1>3 DEF AcceptedStored, Over, ReadsStored
<1> QED BY <1>4, <1>5, <1>6 DEF IInv

\* One step keeps the invariant.
LEMMA InvStep ==
  ASSUME IInv, [Next]_vars
  PROVE  IInv'
<1>1. CASE Decide
  BY <1>1, DecideStep
<1>2. CASE Flush
  BY <1>2, FlushStep
<1>3. CASE SetWatches
  BY <1>3, SetWatchesStep
<1>4. CASE ReceiveVerdict
  BY <1>4, ReceiveVerdictStep
<1>5. CASE ReceiveFrame
  BY <1>5, ReceiveFrameStep
<1>6. ASSUME NEW n \in Commits, Send(n) \/ SettleAccept(n) \/ Drop(n) PROVE IInv'
  BY <1>6, SendStep, SettleAcceptStep, DropStep
<1>7. ASSUME NEW d \in Docs, NEW op, CommitForeign(d, op) PROVE IInv'
  BY <1>7, ForeignStep
<1>8. ASSUME NEW d \in Docs, NEW op, NEW docs, Issue(d, op, docs) PROVE IInv'
  BY <1>8, IssueStep
<1>9. ASSUME NEW n \in Commits, RepairTimesOut(n) PROVE IInv'
  BY <1>9, RepairTimesOutStep
<1>10. CASE Resume
  BY <1>10, ResumeStep
<1>11. CASE Replace
  BY <1>11, ReplaceStep
<1>12. CASE UNCHANGED vars
  <2>1. UNCHANGED <<log, toServer, toClient, issued, fate, replica>>
    BY <1>12 DEF vars
  <2>2. DOMAIN replica' = Fields /\ fate' \in [Commits -> Fates]
    BY <2>1 DEF IInv, Typed
  <2>3. \A n \in Commits : FateMoves(n)
    BY <2>1 DEF FateMoves
  <2> QED BY <2>1, <2>2, <2>3, FatesMove
<1> QED BY <1>1, <1>2, <1>3, <1>4, <1>5, <1>6, <1>7, <1>8, <1>9, <1>10, <1>11, <1>12
        DEF Next, Progress

\* The invariant holds whatever is pushed, refused, lost and sent again.
THEOREM Invariance == Spec => []IInv
<1>1. Init => IInv
  BY InitHolds
<1>2. IInv /\ [Next]_vars => IInv'
  BY InvStep
<1> QED BY <1>1, <1>2, PTL DEF Spec

\* A commit whose write the replica took back is not in the store
\* (#finalizeRejection and #cascadeDroppedDependency).
THEOREM DroppedStayOut == Spec => []DroppedNotStored
<1>1. IInv => DroppedNotStored
  BY DEF IInv, Over, DroppedNotStored
<1> QED BY <1>1, Invariance, PTL

\* A commit the replica promotes is in the store (#settleAccept,
\* #parkedAccepts): replayed commits and late verdicts included.
THEOREM PromotedAreStored == Spec => []AcceptedStored
<1>1. IInv => AcceptedStored
  BY DEF IInv
<1> QED BY <1>1, Invariance, PTL

\* A commit is stored once, though it is sent again on every connection until
\* its verdict comes (restore's replayTasks, #decideTransaction).
THEOREM StoredAtMostOnce == Spec => []StoredOnce
<1>1. IInv => StoredOnce
  BY DEF IInv
<1> QED BY <1>1, Invariance, PTL

-----------------------------------------------------------------------------
(* Induction and greatest elements                                         *)

\* A nonempty set of naturals has a least element.
LEMMA LeastOfNaturals ==
  ASSUME NEW T \in SUBSET Nat, T # {}
  PROVE  \E x \in T : \A y \in T : x <= y
<1> DEFINE R == OpToRel(<, Nat)
<1>1. IsWellFoundedOn(R, Nat)
  BY NatLessThanWellFounded
<1>2. \A x, y \in Nat : y < x => <<y, x>> \in R
  BY DEF OpToRel
<1> HIDE DEF R
<1>3. PICK x \in T : \A y \in T : ~ (<<y, x>> \in R)
  BY <1>1, WFMin
<1>4. \A y \in T : ~ (y < x)
  BY <1>2, <1>3, Zenon
<1>5. \A y \in T : x <= y
  BY <1>4
<1> QED BY <1>5

\* A set of naturals that is left by no step up holds all of them.
LEMMA ClimbsTo ==
  ASSUME NEW k \in Nat, NEW G, 0 \in G, \A n \in 1..k : n - 1 \in G => n \in G
  PROVE  \A n \in 0..k : n \in G
<1> DEFINE T == {n \in Nat : n <= k /\ n \notin G}
<1> SUFFICES ASSUME T # {} PROVE FALSE
  OBVIOUS
<1>1. PICK n \in T : \A m \in T : n <= m
  BY LeastOfNaturals
<1>2. n \in 1..k /\ n - 1 \in Nat /\ ~ n <= n - 1 /\ n - 1 <= k
  BY <1>1
<1>3. n - 1 \notin T
  BY <1>1, <1>2
<1> QED BY <1>1, <1>2, <1>3

\* A nonempty set of positions up to q, with 0, has a greatest element.
LEMMA MaxIs ==
  ASSUME NEW q \in Nat, NEW S \in SUBSET (0..q), S # {}
  PROVE  Max(S) \in S /\ \A y \in S : y <= Max(S)
<1> DEFINE T == {m \in Nat : q - m \in S}
<1>1. T \in SUBSET Nat
  OBVIOUS
<1>2. T # {}
  <2>1. PICK y \in S : TRUE
    OBVIOUS
  <2>2. q - y \in Nat /\ q - (q - y) = y
    BY <2>1
  <2> QED BY <2>1, <2>2
<1>3. PICK t \in T : \A y \in T : t <= y
  BY <1>1, <1>2, LeastOfNaturals
<1>4. ASSUME NEW y \in S PROVE q - t >= y
  <2>1. q - y \in Nat /\ q - (q - y) = y /\ y \in Nat
    OBVIOUS
  <2>2. q - y \in T
    BY <2>1
  <2> QED BY <1>3, <2>1, <2>2
<1>5. q - t \in S
  BY <1>3
<1>6. Max(S) \in S /\ \A y \in S : Max(S) >= y
  BY <1>4, <1>5 DEF Max
<1> QED BY <1>6

\* The greater of two numbers.
LEMMA MaxOfTwo ==
  ASSUME NEW a \in Nat, NEW b \in Nat
  PROVE  Max({a, b}) \in {a, b} /\ a <= Max({a, b}) /\ b <= Max({a, b})
<1> DEFINE k == IF a <= b THEN b ELSE a
<1>1. k \in Nat /\ {a, b} \in SUBSET (0..k) /\ {a, b} # {}
  OBVIOUS
<1> HIDE DEF k
<1>2. Max({a, b}) \in {a, b} /\ \A y \in {a, b} : y <= Max({a, b})
  BY <1>1, MaxIs
<1> QED BY <1>2

-----------------------------------------------------------------------------
(* The store                                                               *)

\* The last write of a document up to q.
LEMMA HeadIs ==
  ASSUME NEW d, NEW q \in Nat, q <= Len(log), IsSeq(log)
  PROVE  /\ HeadAt(d, q) \in 0..q
         /\ HeadAt(d, q) # 0 => HeadAt(d, q) \in DOMAIN log /\ log[HeadAt(d, q)].doc = d
         /\ \A p \in 1..q : log[p].doc = d => p <= HeadAt(d, q)
<1> DEFINE S == {p \in 1..q : log[p].doc = d} \cup {0}
<1>1. S \in SUBSET (0..q) /\ S # {}
  OBVIOUS
<1>2. Max(S) \in S /\ \A y \in S : y <= Max(S)
  BY <1>1, MaxIs
<1>3. HeadAt(d, q) = Max(S)
  BY DEF HeadAt
<1>4. Len(log) \in Nat /\ DOMAIN log = 1..Len(log)
  BY DEF IsSeq
<1>5. \A p \in 1..q : log[p].doc = d => p \in S
  OBVIOUS
<1>6. HeadAt(d, q) \in S /\ \A y \in S : y <= HeadAt(d, q)
  BY <1>2, <1>3
<1>7. HeadAt(d, q) # 0 => HeadAt(d, q) \in 1..q /\ log[HeadAt(d, q)].doc = d
  BY <1>6
<1>8. HeadAt(d, q) \in 0..q
  BY <1>6
<1>9. \A p \in 1..q : log[p].doc = d => p <= HeadAt(d, q)
  BY <1>5, <1>6
<1>10. HeadAt(d, q) # 0 => HeadAt(d, q) \in DOMAIN log
  BY <1>4, <1>7
<1> QED BY <1>7, <1>8, <1>9, <1>10

\* A document changes with the writes to it only.
LEMMA SameBetween ==
  ASSUME NEW d, NEW p \in Nat, NEW q \in Nat, p <= q, q <= Len(log), IsSeq(log),
         \A r \in DOMAIN log : p < r /\ r <= q => log[r].doc # d
  PROVE  HeadAt(d, p) = HeadAt(d, q) /\ DocAt(d, p) = DocAt(d, q)
<1>0. Len(log) \in Nat /\ DOMAIN log = 1..Len(log)
  BY DEF IsSeq
<1>1. /\ HeadAt(d, q) \in 0..q
      /\ HeadAt(d, q) # 0 => HeadAt(d, q) \in DOMAIN log /\ log[HeadAt(d, q)].doc = d
      /\ \A r \in 1..q : log[r].doc = d => r <= HeadAt(d, q)
  BY HeadIs
<1>2. p <= Len(log)
  BY <1>0
<1>3. /\ HeadAt(d, p) \in 0..p
      /\ HeadAt(d, p) # 0 => HeadAt(d, p) \in DOMAIN log /\ log[HeadAt(d, p)].doc = d
      /\ \A r \in 1..p : log[r].doc = d => r <= HeadAt(d, p)
  BY <1>2, HeadIs
<1>4. HeadAt(d, q) <= p
  BY <1>1
<1>5. HeadAt(d, q) <= HeadAt(d, p)
  <2>1. CASE HeadAt(d, q) = 0
    BY <1>3, <2>1
  <2>2. CASE HeadAt(d, q) # 0
    <3>1. HeadAt(d, q) \in 1..p
      BY <1>1, <1>4, <2>2
    <3> QED BY <1>1, <1>3, <2>2, <3>1
  <2> QED BY <2>1, <2>2
<1>6. HeadAt(d, p) <= HeadAt(d, q)
  <2>1. CASE HeadAt(d, p) = 0
    BY <1>1, <2>1
  <2>2. CASE HeadAt(d, p) # 0
    <3>1. HeadAt(d, p) \in 1..q
      BY <1>3, <2>2
    <3> QED BY <1>1, <1>3, <2>2, <3>1
  <2> QED BY <2>1, <2>2
<1>7. HeadAt(d, p) = HeadAt(d, q)
  BY <1>1, <1>3, <1>5, <1>6
<1> QED BY <1>7 DEF DocAt

\* The document a write leaves.
LEMMA DocAtWrite ==
  ASSUME IsSeq(log), NEW q \in DOMAIN log
  PROVE  HeadAt(log[q].doc, q) = q /\ DocAt(log[q].doc, q) = log[q].val
<1>0. Len(log) \in Nat /\ DOMAIN log = 1..Len(log)
  BY DEF IsSeq
<1>1. q \in Nat /\ q <= Len(log) /\ q \in 1..q /\ q # 0
  BY <1>0
<1>2. HeadAt(log[q].doc, q) \in 0..q /\ q <= HeadAt(log[q].doc, q)
  BY <1>1, HeadIs
<1>3. HeadAt(log[q].doc, q) = q
  BY <1>1, <1>2
<1> QED BY <1>1, <1>3 DEF DocAt

\* Where a commit is stored.
LEMMA AckIs ==
  ASSUME StoredOnce, NEW q \in DOMAIN log, log[q].by \in Commits
  PROVE  AckSeq(log[q].by) = q
BY DEF AckSeq, StoredOnce

\* A stored commit has its row.
LEMMA AckOf ==
  ASSUME NEW n, Resolved(n)
  PROVE  AckSeq(n) \in DOMAIN log /\ log[AckSeq(n)].by = n
BY DEF AckSeq, Resolved

\* The past of the store does not change.
LEMMA PastStays ==
  ASSUME IsSeq(log), NEW row, log' = Append(log, row)
  PROVE  /\ \A q \in DOMAIN log : q \in DOMAIN log' /\ log'[q] = log[q]
         /\ DOMAIN log' = DOMAIN log \cup {Len(log) + 1} /\ log'[Len(log) + 1] = row
         /\ Len(log') = Len(log) + 1 /\ Len(log) \in Nat /\ DOMAIN log = 1..Len(log)
         /\ IsSeq(log')
         /\ \A d, q : q \in 0..Len(log) =>
              HeadAt(d, q)' = HeadAt(d, q) /\ DocAt(d, q)' = DocAt(d, q)
         /\ \A d : HeadSeq(d) <= HeadSeq(d)' /\ HeadSeq(d) \in Nat /\ HeadSeq(d)' \in Nat
         /\ \A d : d # row.doc => HeadSeq(d)' = HeadSeq(d)
<1>1. /\ IsSeq(log') /\ Len(log) \in Nat /\ Len(log') = Len(log) + 1
      /\ DOMAIN log = 1..Len(log) /\ DOMAIN log' = 1..(Len(log) + 1)
      /\ \A i \in 1..Len(log) : log'[i] = log[i]
      /\ log'[Len(log) + 1] = row
  BY GrowsIs
<1>2. DOMAIN log' = DOMAIN log \cup {Len(log) + 1}
  BY <1>1
<1>3. ASSUME NEW d, NEW q \in 0..Len(log)
      PROVE  HeadAt(d, q)' = HeadAt(d, q) /\ DocAt(d, q)' = DocAt(d, q)
  <2>1. {p \in 1..q : log'[p].doc = d} = {p \in 1..q : log[p].doc = d}
    BY <1>1
  <2>2. HeadAt(d, q)' = HeadAt(d, q)
    BY <2>1 DEF HeadAt
  <2>3. HeadAt(d, q) \in 0..q
    BY <1>1, HeadIs
  <2>4. HeadAt(d, q) # 0 => log'[HeadAt(d, q)] = log[HeadAt(d, q)]
    BY <1>1, <2>3
  <2> QED BY <2>2, <2>4 DEF DocAt
<1>4. ASSUME NEW d
      PROVE  /\ HeadSeq(d) <= HeadSeq(d)' /\ HeadSeq(d) \in Nat /\ HeadSeq(d)' \in Nat
             /\ d # row.doc => HeadSeq(d)' = HeadSeq(d)
  <2> DEFINE k == Len(log)
             A == {p \in 1..k : log[p].doc = d} \cup {0}
             B == {p \in 1..(k + 1) : log'[p].doc = d} \cup {0}
  <2>1. A \subseteq B /\ A \in SUBSET (0..k) /\ B \in SUBSET (0..(k + 1)) /\ A # {}
        /\ k \in Nat /\ k + 1 \in Nat
    BY <1>1
  <2>2. Max(A) \in A
    BY <2>1, MaxIs
  <2>3. Max(B) \in B /\ \A y \in B : y <= Max(B)
    BY <2>1, MaxIs
  <2>4. HeadSeq(d) = Max(A) /\ HeadSeq(d)' = Max(B)
    BY <1>1 DEF HeadSeq, HeadAt
  <2>5. d # row.doc => A = B
    BY <1>1
  <2> HIDE DEF A, B, k
  <2>6. Max(A) \in 0..k /\ Max(B) \in 0..(k + 1) /\ Max(A) <= Max(B)
    BY <2>1, <2>2, <2>3
  <2>7. /\ HeadSeq(d) <= HeadSeq(d)' /\ HeadSeq(d) \in Nat /\ HeadSeq(d)' \in Nat
    BY <2>1, <2>4, <2>6
  <2> QED BY <2>4, <2>5, <2>7
<1> QED BY <1>1, <1>2, <1>3, <1>4

-----------------------------------------------------------------------------
(* Layers over a version of the store                                      *)

\* Rows are of known documents, and own ones are what was issued.
RowsTrue ==
  \A q \in DOMAIN log :
    /\ log[q].doc \in Docs /\ log[q].by \in {Foreign} \cup Commits
    /\ \A d \in Docs, n \in Commits : log[q].doc = d /\ log[q].by = n =>
         /\ n <= Len(issued) /\ issued[n].doc = d
         /\ log[q].val = Applied(DocAt(d, q - 1), Op(n), n)

\* Own commits are stored in local order.
StoredInOrder ==
  \A p, q \in DOMAIN log :
    log[p].by \in Commits /\ log[q].by \in Commits /\ log[p].by < log[q].by => p < q

StoreOK == IsSeq(log) /\ StoredOnce /\ RowsTrue /\ StoredInOrder

\* The rounds of Layered.
LayersOver(val, layers, over) ==
  /\ over[0] = val
  /\ \A n \in 1..MaxCommits :
       over[n] = IF n \in layers THEN Applied(over[n - 1], Op(n), n) ELSE over[n - 1]

\* The rounds of Promoted.
PromotedOver(version, d, ns, after) ==
  /\ after[0] = version
  /\ \A n \in 1..MaxCommits :
       after[n] = IF n \in ns /\ issued[n].doc = d /\ after[n - 1].seq < AckSeq(n)
                  THEN [seq |-> AckSeq(n), val |-> Applied(after[n - 1].val, Op(n), n)]
                  ELSE after[n - 1]

\* Layers are applied one after the other.
LEMMA LayeredRounds ==
  ASSUME NEW val, NEW layers
  PROVE  \E over : LayersOver(val, layers, over) /\ Layered(val, layers) = over[MaxCommits]
<1> DEFINE Next1(v, n) == IF n \in layers THEN Applied(v, Op(n), n) ELSE v
           Body(f, k) == [n \in 0..k |-> IF n = 0 THEN val ELSE Next1(f[n - 1], n)]
           G == {k \in 0..MaxCommits : \E f : f = Body(f, k)}
<1>0. MaxCommits \in Nat
  BY ReplicaAssumption
<1>a. Layered(val, layers) = (CHOOSE f : f = Body(f, MaxCommits))[MaxCommits]
  <2>1. \A n, v : Next1(v, n) = IF n \in layers THEN Applied(v, Op(n), n) ELSE v
    OBVIOUS
  <2> QED BY DEF Layered
<1>b. \A v, n : Next1(v, n) = IF n \in layers THEN Applied(v, Op(n), n) ELSE v
  OBVIOUS
<1> HIDE DEF Next1
<1>1. 0 \in G
  <2> DEFINE g == [n \in 0..0 |-> val]
  <2>1. g = Body(g, 0)
    OBVIOUS
  <2> HIDE DEF g, Body
  <2>2. \E f : f = Body(f, 0)
    BY <2>1
  <2>3. 0 \in 0..MaxCommits
    BY <1>0
  <2> QED BY <2>2, <2>3
<1>2. ASSUME NEW k \in 1..MaxCommits, k - 1 \in G PROVE k \in G
  <2>1. PICK f : f = Body(f, k - 1)
    BY <1>2
  <2> DEFINE g == [n \in 0..k |-> IF n = k THEN Next1(f[k - 1], k) ELSE f[n]]
  <2>2. \A n \in 0..(k - 1) : f[n] = IF n = 0 THEN val ELSE Next1(f[n - 1], n)
    BY <2>1
  <2>3. ASSUME NEW n \in 0..k PROVE g[n] = IF n = 0 THEN val ELSE Next1(g[n - 1], n)
    <3>1. CASE n = k
      <4>1. n # 0 /\ n - 1 \in 0..k /\ n - 1 # k
        BY <1>0, <3>1
      <4>2. g[n - 1] = f[n - 1]
        BY <4>1
      <4> QED BY <3>1, <4>1, <4>2
    <3>2. CASE n # k
      <4>1. n \in 0..(k - 1)
        BY <1>0, <3>2
      <4>2. n # 0 => n - 1 \in 0..k /\ n - 1 # k
        BY <1>0, <4>1
      <4>3. n # 0 => g[n - 1] = f[n - 1]
        BY <4>2
      <4>4. g[n] = f[n]
        BY <3>2
      <4> QED BY <2>2, <4>1, <4>3, <4>4
    <3> QED BY <3>1, <3>2
  <2>4. g = Body(g, k)
    BY <2>3
  <2>5. k \in 0..MaxCommits
    BY <1>0
  <2> QED BY <2>4, <2>5
<1>3. MaxCommits \in G
  <2> HIDE DEF G
  <2>1. \A n \in 0..MaxCommits : n \in G
    BY <1>0, <1>1, <1>2, ClimbsTo
  <2> QED BY <1>0, <2>1
<1> DEFINE over == CHOOSE f : f = Body(f, MaxCommits)
<1>4. over = Body(over, MaxCommits)
  BY <1>3
<1>5. Layered(val, layers) = over[MaxCommits]
  BY <1>a
<1> HIDE DEF over
<1>6. \A n \in 0..MaxCommits : over[n] = IF n = 0 THEN val ELSE Next1(over[n - 1], n)
  BY <1>4
<1>7. LayersOver(val, layers, over)
  BY <1>0, <1>6, <1>b DEF LayersOver
<1> QED BY <1>5, <1>7

\* Accepted commits are promoted one after the other.
LEMMA PromotedRounds ==
  ASSUME NEW version, NEW d, NEW ns
  PROVE  \E after : PromotedOver(version, d, ns, after) /\ Promoted(version, d, ns) = after[MaxCommits]
<1> DEFINE Next1(v, n) == IF n \in ns /\ issued[n].doc = d /\ v.seq < AckSeq(n)
                          THEN [seq |-> AckSeq(n), val |-> Applied(v.val, Op(n), n)]
                          ELSE v
           Body(f, k) == [n \in 0..k |-> IF n = 0 THEN version ELSE Next1(f[n - 1], n)]
           G == {k \in 0..MaxCommits : \E f : f = Body(f, k)}
<1>0. MaxCommits \in Nat
  BY ReplicaAssumption
<1>a. Promoted(version, d, ns) = (CHOOSE f : f = Body(f, MaxCommits))[MaxCommits]
  BY DEF Promoted
<1>b. \A v, n : Next1(v, n) = IF n \in ns /\ issued[n].doc = d /\ v.seq < AckSeq(n)
                              THEN [seq |-> AckSeq(n), val |-> Applied(v.val, Op(n), n)]
                              ELSE v
  OBVIOUS
<1> HIDE DEF Next1
<1>1. 0 \in G
  <2> DEFINE g == [n \in 0..0 |-> version]
  <2>1. g = Body(g, 0)
    OBVIOUS
  <2> HIDE DEF g, Body
  <2>2. \E f : f = Body(f, 0)
    BY <2>1
  <2>3. 0 \in 0..MaxCommits
    BY <1>0
  <2> QED BY <2>2, <2>3
<1>2. ASSUME NEW k \in 1..MaxCommits, k - 1 \in G PROVE k \in G
  <2>1. PICK f : f = Body(f, k - 1)
    BY <1>2
  <2> DEFINE g == [n \in 0..k |-> IF n = k THEN Next1(f[k - 1], k) ELSE f[n]]
  <2>2. \A n \in 0..(k - 1) : f[n] = IF n = 0 THEN version ELSE Next1(f[n - 1], n)
    BY <2>1
  <2>3. ASSUME NEW n \in 0..k PROVE g[n] = IF n = 0 THEN version ELSE Next1(g[n - 1], n)
    <3>1. CASE n = k
      <4>1. n # 0 /\ n - 1 \in 0..k /\ n - 1 # k
        BY <1>0, <3>1
      <4>2. g[n - 1] = f[n - 1]
        BY <4>1
      <4> QED BY <3>1, <4>1, <4>2
    <3>2. CASE n # k
      <4>1. n \in 0..(k - 1)
        BY <1>0, <3>2
      <4>2. n # 0 => n - 1 \in 0..k /\ n - 1 # k
        BY <1>0, <4>1
      <4>3. n # 0 => g[n - 1] = f[n - 1]
        BY <4>2
      <4>4. g[n] = f[n]
        BY <3>2
      <4> QED BY <2>2, <4>1, <4>3, <4>4
    <3> QED BY <3>1, <3>2
  <2>4. g = Body(g, k)
    BY <2>3
  <2>5. k \in 0..MaxCommits
    BY <1>0
  <2> QED BY <2>4, <2>5
<1>3. MaxCommits \in G
  <2> HIDE DEF G
  <2>1. \A n \in 0..MaxCommits : n \in G
    BY <1>0, <1>1, <1>2, ClimbsTo
  <2> QED BY <1>0, <2>1
<1> DEFINE after == CHOOSE f : f = Body(f, MaxCommits)
<1>4. after = Body(after, MaxCommits)
  BY <1>3
<1>5. Promoted(version, d, ns) = after[MaxCommits]
  BY <1>a
<1> HIDE DEF after
<1>6. \A n \in 0..MaxCommits : after[n] = IF n = 0 THEN version ELSE Next1(after[n - 1], n)
  BY <1>4
<1>7. PromotedOver(version, d, ns, after)
  BY <1>0, <1>6, <1>b DEF PromotedOver
<1> QED BY <1>5, <1>7

\* Layers that are all that was written to a document after b make it what it
\* is at e.
LEMMA LayeredIs ==
  ASSUME StoreOK, NEW d, NEW b \in Nat, NEW e \in Nat, b <= e, e <= Len(log),
         NEW layers \in SUBSET Commits,
         \A n \in layers : \E q \in DOMAIN log :
           log[q].by = n /\ log[q].doc = d /\ b < q /\ q <= e,
         \A q \in DOMAIN log : log[q].doc = d /\ b < q /\ q <= e => log[q].by \in layers
  PROVE  Layered(DocAt(d, b), layers) = DocAt(d, e)
<1>0. /\ MaxCommits \in Nat /\ Commits = 1..MaxCommits /\ Foreign \notin Commits
      /\ IsSeq(log) /\ Len(log) \in Nat /\ DOMAIN log = 1..Len(log)
  BY ReplicaAssumption DEF StoreOK, IsSeq, Commits, Foreign
<1>1. PICK over : /\ LayersOver(DocAt(d, b), layers, over)
                  /\ Layered(DocAt(d, b), layers) = over[MaxCommits]
  BY LayeredRounds
<1> DEFINE Rows == {q \in DOMAIN log : log[q].doc = d /\ b < q /\ q <= e}
           At(n, h) == /\ over[n] = DocAt(d, h)
                       /\ \A q \in Rows : q <= h <=> log[q].by <= n
           G == {n \in 0..MaxCommits : \E h \in b..e : At(n, h)}
<1>2. \A q \in Rows : q \in DOMAIN log /\ log[q].by \in layers /\ log[q].by \in 1..MaxCommits
  BY <1>0
<1>3. 0 \in G
  <2>1. over[0] = DocAt(d, b)
    BY <1>1 DEF LayersOver
  <2>2. \A q \in Rows : ~ q <= b /\ ~ log[q].by <= 0
    BY <1>0, <1>2
  <2>3. b \in b..e
    OBVIOUS
  <2> QED BY <1>0, <2>1, <2>2, <2>3
<1>4. ASSUME NEW n \in 1..MaxCommits, n - 1 \in G PROVE n \in G
  <2>1. PICK h \in b..e : At(n - 1, h)
    BY <1>4
  <2>2. over[n] = IF n \in layers THEN Applied(over[n - 1], Op(n), n) ELSE over[n - 1]
    BY <1>1 DEF LayersOver
  <2>3. CASE n \notin layers
    <3>1. \A q \in Rows : log[q].by <= n <=> log[q].by <= n - 1
      BY <1>2, <2>3
    <3>2. At(n, h)
      BY <2>1, <2>2, <2>3, <3>1
    <3>3. n \in 0..MaxCommits
      OBVIOUS
    <3> QED BY <3>2, <3>3
  <2>4. CASE n \in layers
    <3>1. PICK a \in DOMAIN log : log[a].by = n /\ log[a].doc = d /\ b < a /\ a <= e
      BY <2>4
    <3>2. a \in Rows /\ a \in b..e /\ a \in Nat /\ a - 1 \in Nat /\ ~ a <= h /\ n \in Commits
      BY <1>0, <2>1, <3>1
    <3>3. \A q \in Rows : q <= a <=> log[q].by <= n
      <4>1. SUFFICES ASSUME NEW q \in Rows PROVE q <= a <=> log[q].by <= n
        OBVIOUS
      <4>2. log[q].by < n => q < a
        BY <1>0, <1>2, <3>1, <3>2 DEF StoreOK, StoredInOrder
      <4>3. n < log[q].by => a < q
        BY <1>0, <1>2, <3>1, <3>2 DEF StoreOK, StoredInOrder
      <4>4. log[q].by = n => q = a
        BY <1>0, <1>2, <3>1, <3>2 DEF StoreOK, StoredOnce
      <4>5. log[q].by \in Nat /\ q \in Nat
        BY <1>0, <1>2
      <4> QED BY <3>2, <4>2, <4>3, <4>4, <4>5
    <3>4. \A r \in DOMAIN log : h < r /\ r <= a - 1 => log[r].doc # d
      <4>1. SUFFICES ASSUME NEW r \in DOMAIN log, h < r, r <= a - 1, log[r].doc = d PROVE FALSE
        OBVIOUS
      <4>2. r \in Nat /\ b < r /\ r <= e
        BY <1>0, <2>1, <3>1, <3>2, <4>1
      <4>3. r \in Rows
        BY <4>1, <4>2
      <4>4. r <= a /\ ~ r <= h /\ r # a
        BY <3>2, <4>1, <4>2
      <4>5. log[r].by <= n /\ ~ log[r].by <= n - 1
        BY <2>1, <3>3, <4>3, <4>4
      <4>6. log[r].by = n
        BY <1>2, <4>3, <4>5
      <4> QED BY <1>0, <3>1, <3>2, <4>4, <4>6 DEF StoreOK, StoredOnce
    <3>5. DocAt(d, h) = DocAt(d, a - 1)
      <4>1. h \in Nat /\ h <= a - 1 /\ a - 1 <= Len(log)
        BY <1>0, <2>1, <3>1, <3>2
      <4> QED BY <1>0, <3>2, <3>4, <4>1, SameBetween
    <3>6. DocAt(d, a) = Applied(DocAt(d, a - 1), Op(n), n)
      <4>1. DocAt(d, a) = log[a].val
        BY <1>0, <3>1, DocAtWrite
      <4>2. log[a].val = Applied(DocAt(d, a - 1), Op(n), n)
        BY <1>0, <3>1, <3>2 DEF StoreOK, RowsTrue
      <4> QED BY <4>1, <4>2
    <3>7. over[n - 1] = DocAt(d, h)
      BY <2>1
    <3>8. over[n] = DocAt(d, a)
      BY <2>2, <2>4, <3>5, <3>6, <3>7
    <3>9. At(n, a)
      BY <3>3, <3>8
    <3>10. n \in 0..MaxCommits
      OBVIOUS
    <3> QED BY <3>2, <3>9, <3>10
  <2> QED BY <2>3, <2>4
<1>5. MaxCommits \in G
  <2> HIDE DEF G
  <2>1. \A n \in 0..MaxCommits : n \in G
    BY <1>0, <1>3, <1>4, ClimbsTo
  <2> QED BY <1>0, <2>1
<1>6. PICK h \in b..e : At(MaxCommits, h)
  BY <1>5
<1>7. \A r \in DOMAIN log : h < r /\ r <= e => log[r].doc # d
  <2>1. SUFFICES ASSUME NEW r \in DOMAIN log, h < r, r <= e, log[r].doc = d PROVE FALSE
    OBVIOUS
  <2>2. r \in Rows /\ ~ r <= h
    BY <1>0, <1>6, <2>1
  <2>3. log[r].by <= MaxCommits
    BY <1>2, <2>2
  <2> QED BY <1>6, <2>2, <2>3
<1>8. DocAt(d, h) = DocAt(d, e)
  <2>1. h \in Nat /\ h <= e
    BY <1>6
  <2> QED BY <1>0, <1>7, <2>1, SameBetween
<1> QED BY <1>1, <1>6, <1>8

\* The version after the rounds up to n: the accepted commits up to n are in it.
Risen(version, d, ns, v, n) ==
  /\ v.seq \in Nat /\ version.seq <= v.seq
  /\ \/ v = version
     \/ /\ v = [seq |-> v.seq, val |-> v.val] /\ version.seq < v.seq
        /\ \E m \in ns : m <= n /\ issued[m].doc = d /\ v.seq = AckSeq(m)
  /\ \A m \in ns : m <= n /\ issued[m].doc = d => AckSeq(m) <= v.seq

\* A promotion ends at the last of the commits it promotes, or changes nothing.
LEMMA PromotedIs ==
  ASSUME IsSeq(log), NEW version, version.seq \in Nat, NEW d, NEW ns \in SUBSET Commits,
         \A n \in ns : Resolved(n)
  PROVE  Risen(version, d, ns, Promoted(version, d, ns), MaxCommits)
<1>0. /\ MaxCommits \in Nat /\ Commits = 1..MaxCommits
      /\ Len(log) \in Nat /\ DOMAIN log = 1..Len(log)
  BY ReplicaAssumption DEF IsSeq, Commits
<1>1. PICK after : /\ PromotedOver(version, d, ns, after)
                   /\ Promoted(version, d, ns) = after[MaxCommits]
  BY PromotedRounds
<1> DEFINE G == {n \in 0..MaxCommits : Risen(version, d, ns, after[n], n)}
<1>2. 0 \in G
  <2>1. after[0] = version
    BY <1>1 DEF PromotedOver
  <2>2. \A m \in ns : ~ m <= 0
    BY <1>0
  <2> QED BY <1>0, <2>1, <2>2 DEF Risen
<1>3. ASSUME NEW n \in 1..MaxCommits, n - 1 \in G PROVE n \in G
  <2>0. n \in 0..MaxCommits
    OBVIOUS
  <2>1. Risen(version, d, ns, after[n - 1], n - 1)
    BY <1>3
  <2> DEFINE v == after[n - 1]
             w == after[n]
             up == n \in ns /\ issued[n].doc = d /\ v.seq < AckSeq(n)
  <2>2. w = IF up THEN [seq |-> AckSeq(n), val |-> Applied(v.val, Op(n), n)] ELSE v
    BY <1>1 DEF PromotedOver
  <2> HIDE DEF v, w
  <2>3. /\ v.seq \in Nat /\ version.seq <= v.seq
        /\ \/ v = version
           \/ /\ v = [seq |-> v.seq, val |-> v.val] /\ version.seq < v.seq
              /\ \E m \in ns : m <= n - 1 /\ issued[m].doc = d /\ v.seq = AckSeq(m)
        /\ \A m \in ns : m <= n - 1 /\ issued[m].doc = d => AckSeq(m) <= v.seq
    BY <2>1 DEF Risen, v
  <2>4. \A m \in ns : m \in Nat /\ AckSeq(m) \in Nat
    BY <1>0, AckOf
  <2>5. \A m \in ns : m <= n <=> m <= n - 1 \/ m = n
    BY <1>0
  <2>6. CASE up
    <3>1. w = [seq |-> AckSeq(n), val |-> Applied(v.val, Op(n), n)]
      BY <2>2, <2>6
    <3>2. w.seq = AckSeq(n) /\ w = [seq |-> w.seq, val |-> w.val]
      BY <3>1
    <3>3. w.seq \in Nat /\ v.seq < w.seq /\ version.seq < w.seq
      BY <2>3, <2>4, <2>6, <3>2
    <3>4. \A m \in ns : m <= n /\ issued[m].doc = d => AckSeq(m) <= w.seq
      BY <2>3, <2>4, <2>5, <3>2, <3>3
    <3>5. \E m \in ns : m <= n /\ issued[m].doc = d /\ w.seq = AckSeq(m)
      BY <2>5, <2>6, <3>2
    <3>6. version.seq <= w.seq
      BY <3>3
    <3>7. Risen(version, d, ns, w, n)
      BY <3>2, <3>3, <3>4, <3>5, <3>6 DEF Risen
    <3> QED BY <2>0, <3>7 DEF w
  <2>7. CASE ~ up
    <3>1. w = v
      BY <2>2, <2>7
    <3>2. \A m \in ns : m <= n /\ issued[m].doc = d => AckSeq(m) <= w.seq
      BY <2>3, <2>4, <2>5, <2>7, <3>1
    <3>3. (\E m \in ns : m <= n - 1 /\ issued[m].doc = d /\ v.seq = AckSeq(m))
          => \E m \in ns : m <= n /\ issued[m].doc = d /\ w.seq = AckSeq(m)
      BY <2>5, <3>1
    <3>4. Risen(version, d, ns, w, n)
      BY <2>3, <3>1, <3>2, <3>3 DEF Risen
    <3> QED BY <2>0, <3>4 DEF w
  <2> QED BY <2>6, <2>7
<1>4. MaxCommits \in G
  <2> HIDE DEF G
  <2>1. \A n \in 0..MaxCommits : n \in G
    BY <1>0, <1>2, <1>3, ClimbsTo
  <2> QED BY <1>0, <2>1
<1> QED BY <1>1, <1>4

\* A promotion of all that was written since a version the store held ends at
\* a version the store held.
LEMMA PromotedTrue ==
  ASSUME StoreOK, NEW version, version.seq \in Nat, version.seq <= Len(log),
         NEW d, version.val = DocAt(d, version.seq),
         NEW ns \in SUBSET Commits, \A n \in ns : Resolved(n),
         \A n \in ns : \A q \in DOMAIN log :
           issued[n].doc = d /\ log[q].doc = d /\ version.seq < q /\ q < AckSeq(n) => log[q].by \in ns
  PROVE  LET p == Promoted(version, d, ns) IN p.seq <= Len(log) /\ p.val = DocAt(d, p.seq)
<1>0. /\ MaxCommits \in Nat /\ Commits = 1..MaxCommits /\ Foreign \notin Commits
      /\ IsSeq(log) /\ Len(log) \in Nat /\ DOMAIN log = 1..Len(log)
  BY ReplicaAssumption DEF StoreOK, IsSeq, Commits, Foreign
<1>1. PICK after : /\ PromotedOver(version, d, ns, after)
                   /\ Promoted(version, d, ns) = after[MaxCommits]
  BY PromotedRounds
<1> DEFINE OK(v, n) == /\ v.seq \in version.seq..Len(log) /\ v.val = DocAt(d, v.seq)
                       /\ \A m \in ns : m <= n /\ issued[m].doc = d => AckSeq(m) <= v.seq
           G == {n \in 0..MaxCommits : OK(after[n], n)}
<1>a. \A m \in ns : /\ AckSeq(m) \in DOMAIN log /\ log[AckSeq(m)].by = m /\ m \in 1..MaxCommits
                    /\ log[AckSeq(m)].doc = issued[m].doc
  <2> SUFFICES ASSUME NEW m \in ns
               PROVE  /\ AckSeq(m) \in DOMAIN log /\ log[AckSeq(m)].by = m /\ m \in 1..MaxCommits
                      /\ log[AckSeq(m)].doc = issued[m].doc
    OBVIOUS
  <2>1. AckSeq(m) \in DOMAIN log /\ log[AckSeq(m)].by = m /\ m \in 1..MaxCommits
    BY <1>0, AckOf
  <2>2. m # Foreign
    BY <1>0
  <2> QED BY <2>1, <2>2 DEF StoreOK, RowsTrue
<1>2. 0 \in G
  <2>1. after[0] = version
    BY <1>1 DEF PromotedOver
  <2>2. \A m \in ns : ~ m <= 0
    BY <1>0
  <2>3. version.seq \in version.seq..Len(log)
    BY <1>0
  <2>4. OK(version, 0)
    BY <2>2, <2>3
  <2>5. 0 \in 0..MaxCommits
    BY <1>0
  <2>6. OK(after[0], 0)
    BY <2>1, <2>4
  <2> QED BY <2>5, <2>6
<1>3. ASSUME NEW n \in 1..MaxCommits, n - 1 \in G PROVE n \in G
  <2>0. n \in 0..MaxCommits
    OBVIOUS
  <2> DEFINE v == after[n - 1]
             w == after[n]
             up == n \in ns /\ issued[n].doc = d /\ v.seq < AckSeq(n)
  <2>1. OK(v, n - 1)
    BY <1>3
  <2>2. w = IF up THEN [seq |-> AckSeq(n), val |-> Applied(v.val, Op(n), n)] ELSE v
    BY <1>1 DEF PromotedOver
  <2>3. v.seq \in Nat /\ v.seq <= Len(log) /\ version.seq <= v.seq
    BY <1>0, <2>1
  <2>4. \A m \in ns : m \in Nat /\ AckSeq(m) \in Nat
    BY <1>0, <1>a
  <2>5. \A m \in ns : m <= n <=> m <= n - 1 \/ m = n
    BY <1>0
  <2> SUFFICES OK(w, n)
    BY <2>0
  <2>6. CASE up
    <3> DEFINE a == AckSeq(n)
    <3>1. w.seq = a /\ w.val = Applied(v.val, Op(n), n)
      BY <2>2, <2>6
    <3>2. a \in DOMAIN log /\ log[a].by = n /\ log[a].doc = d /\ v.seq < a /\ a - 1 \in Nat
      BY <1>0, <1>a, <2>3, <2>6
    <3> HIDE DEF a, v, w
    <3>3. \A r \in DOMAIN log : v.seq < r /\ r <= a - 1 => log[r].doc # d
      <4>1. SUFFICES ASSUME NEW r \in DOMAIN log, v.seq < r, r <= a - 1, log[r].doc = d PROVE FALSE
        OBVIOUS
      <4>2. r \in Nat /\ r < a /\ version.seq < r /\ r # a
        BY <1>0, <2>3, <3>2, <4>1
      <4>3. log[r].by \in ns
        BY <2>6, <4>1, <4>2 DEF a
      <4>4. AckSeq(log[r].by) = r
        BY <1>0, <4>3, AckIs DEF StoreOK
      <4>a. /\ log[AckSeq(log[r].by)].doc = issued[log[r].by].doc
            /\ log[r].by \in 1..MaxCommits /\ AckSeq(log[r].by) = r
        BY <1>a, <4>3, <4>4
      <4>5. log[r].by \in Commits /\ log[r].by \in Nat /\ issued[log[r].by].doc = d
        BY <1>0, <4>1, <4>3, <4>a
      <4>6. ~ n < log[r].by
        BY <1>0, <3>2, <4>2, <4>5 DEF StoreOK, StoredInOrder
      <4>7. log[r].by # n
        BY <1>0, <3>2, <4>2, <4>5 DEF StoreOK, StoredOnce
      <4>8. log[r].by <= n - 1
        BY <4>5, <4>6, <4>7
      <4>9. r <= v.seq
        BY <2>1, <4>3, <4>4, <4>5, <4>8
      <4> QED BY <2>3, <4>1, <4>2, <4>9
    <3>4. DocAt(d, v.seq) = DocAt(d, a - 1)
      <4>1. v.seq <= a - 1 /\ a - 1 <= Len(log)
        BY <1>0, <2>3, <3>2
      <4> QED BY <1>0, <2>3, <3>2, <3>3, <4>1, SameBetween
    <3>5. DocAt(d, a) = log[a].val
      BY <1>0, <3>2, DocAtWrite
    <3>6. log[a].val = Applied(DocAt(d, a - 1), Op(n), n)
      <4>1. n # Foreign
        BY <1>0
      <4> QED BY <3>2, <4>1 DEF StoreOK, RowsTrue
    <3>7. w.val = DocAt(d, w.seq)
      BY <2>1, <3>1, <3>4, <3>5, <3>6
    <3>8. w.seq \in version.seq..Len(log)
      BY <1>0, <2>3, <3>1, <3>2
    <3>9. \A m \in ns : m <= n /\ issued[m].doc = d => AckSeq(m) <= w.seq
      <4>1. v.seq <= w.seq /\ AckSeq(n) <= w.seq /\ w.seq \in Nat
        BY <1>0, <2>3, <3>1, <3>2 DEF a
      <4>2. \A m \in ns : m <= n - 1 /\ issued[m].doc = d => AckSeq(m) <= v.seq
        BY <2>1
      <4> QED BY <2>3, <2>4, <2>5, <4>1, <4>2
    <3> QED BY <3>7, <3>8, <3>9
  <2>7. CASE ~ up
    <3>1. w = v
      BY <2>2, <2>7
    <3> HIDE DEF v, w
    <3>2. \A m \in ns : m <= n /\ issued[m].doc = d => AckSeq(m) <= w.seq
      <4>1. \A m \in ns : m <= n - 1 /\ issued[m].doc = d => AckSeq(m) <= v.seq
        BY <2>1
      <4> QED BY <2>3, <2>4, <2>5, <2>7, <3>1, <4>1
    <3> QED BY <2>1, <3>1, <3>2
  <2> QED BY <2>6, <2>7
<1>4. MaxCommits \in G
  <2> HIDE DEF G
  <2>1. \A n \in 0..MaxCommits : n \in G
    BY <1>0, <1>2, <1>3, ClimbsTo
  <2> QED BY <1>0, <2>1
<1>5. after[MaxCommits].seq <= Len(log) /\ after[MaxCommits].val = DocAt(d, after[MaxCommits].seq)
  BY <1>0, <1>4
<1> QED BY <1>1, <1>5

-----------------------------------------------------------------------------
(* The shapes of the state, and what each action does to it                *)

ServerShaped(s) ==
  /\ s = [watching |-> s.watching, sent |-> s.sent, dirty |-> s.dirty,
          origin |-> s.origin, owed |-> s.owed, told |-> s.told]
  /\ s.watching \in BOOLEAN /\ s.sent \in [Docs -> Nat] /\ s.dirty \subseteq Docs
  /\ s.origin = [d \in Docs |-> s.origin[d]] /\ s.owed \in Nat /\ s.told \in Nat

ReplicaShaped(r) ==
  /\ r = [confirmed |-> r.confirmed, pending |-> r.pending, delivered |-> r.delivered,
          caughtUp |-> r.caughtUp, outstanding |-> r.outstanding, restoring |-> r.restoring]
  /\ r.confirmed = [d \in Docs |-> r.confirmed[d]] /\ \A d \in Docs : r.confirmed[d].seq \in Nat
  /\ r.pending \in [Docs -> SUBSET Commits] /\ r.delivered \in [Docs -> Nat]
  /\ r.caughtUp \in Nat /\ r.outstanding \subseteq Commits
  /\ r.restoring \subseteq Commits \cup {Watches}

FrameShaped(f) ==
  /\ f.type = "frame" /\ f.marker \in Nat /\ f.restores \in BOOLEAN
  /\ DOMAIN f.upserts \subseteq Docs /\ \A d \in DOMAIN f.upserts : f.upserts[d].seq \in Nat

AnswerShaped(a) == a.type = "verdict" \/ FrameShaped(a)

RequestShaped(r) == r.type = "commit" \/ (r.type = "watch" /\ r.holdings \in [Docs -> Nat])

\* What a commit reads is under it.
CommitShaped(n) ==
  /\ issued[n].doc \in Docs /\ DOMAIN issued[n].reads \subseteq Docs
  /\ \A d \in DOMAIN issued[n].reads :
       issued[n].reads[d].layers \subseteq {m \in 1..(n - 1) : issued[m].doc = d}

LayersStand ==
  \A d \in Docs : replica.pending[d] =
    {n \in 1..Len(issued) : issued[n].doc = d /\ fate[n] \notin {"applied", "rejected"}}

Shaped ==
  /\ ServerShaped(server) /\ ReplicaShaped(replica)
  /\ \A i \in DOMAIN toClient : AnswerShaped(toClient[i])
  /\ \A i \in DOMAIN toServer : RequestShaped(toServer[i])
  /\ \A n \in 1..Len(issued) : CommitShaped(n)
  /\ LayersStand /\ RowsTrue

\* Numbers of commits.
LEMMA CommitNumbers ==
  /\ MaxCommits \in Nat /\ Commits = 1..MaxCommits
  /\ Foreign \notin Commits /\ Watches \notin Commits /\ Foreign = 0 /\ Watches = 0
  /\ \A n \in Commits : n \in Nat /\ n # 0 /\ n > 0 /\ n # Foreign
BY ReplicaAssumption DEF Commits, Foreign, Watches

\* The commits that are issued.
LEMMA IssuedAre ==
  ASSUME Typed
  PROVE  /\ Len(issued) \in Nat /\ DOMAIN issued = 1..Len(issued) /\ Len(issued) <= MaxCommits
         /\ 1..Len(issued) \subseteq Commits
         /\ \A n \in Commits : fate[n] # "unissued" <=> n \in 1..Len(issued)
<1>1. Len(issued) \in Nat /\ DOMAIN issued = 1..Len(issued) /\ Len(issued) <= MaxCommits
  BY DEF Typed, IsSeq
<1>2. \A n \in Commits : fate[n] # "unissued" <=> ~ n > Len(issued)
  BY DEF Typed
<1> QED BY <1>1, <1>2, CommitNumbers

\* What a promotion does to the replica's record.
LEMMA ConfirmedDoes ==
  ASSUME IInv, NEW r, ReplicaShaped(r), NEW ns \in SUBSET Commits, \A n \in ns : Resolved(n)
  PROVE  /\ ReplicaShaped(Confirmed(r, ns))
         /\ Confirmed(r, ns).confirmed = [d \in Docs |-> Promoted(r.confirmed[d], d, ns)]
         /\ Confirmed(r, ns).pending = [d \in Docs |-> r.pending[d] \ ns]
         /\ Confirmed(r, ns).delivered = r.delivered
         /\ Confirmed(r, ns).caughtUp = r.caughtUp
         /\ Confirmed(r, ns).outstanding = r.outstanding
         /\ Confirmed(r, ns).restoring = r.restoring
<1> DEFINE c == [d \in Docs |-> Promoted(r.confirmed[d], d, ns)]
           p == [d \in Docs |-> r.pending[d] \ ns]
           z == Confirmed(r, ns)
<1>1. \A d \in Docs : Promoted(r.confirmed[d], d, ns).seq \in Nat
  <2> SUFFICES ASSUME NEW d \in Docs PROVE Promoted(r.confirmed[d], d, ns).seq \in Nat
    OBVIOUS
  <2>1. r.confirmed[d].seq \in Nat /\ IsSeq(log)
    BY DEF ReplicaShaped, IInv, Typed
  <2>2. Risen(r.confirmed[d], d, ns, Promoted(r.confirmed[d], d, ns), MaxCommits)
    BY <2>1, PromotedIs
  <2> QED BY <2>2 DEF Risen
<1>2. c = [d \in Docs |-> c[d]] /\ \A d \in Docs : c[d].seq \in Nat
  BY <1>1
<1>3. p \in [Docs -> SUBSET Commits]
  BY DEF ReplicaShaped
<1>4. z = [r EXCEPT !.confirmed = [d \in Docs |-> Promoted(@[d], d, ns)],
                    !.pending = [d \in Docs |-> @[d] \ ns]]
  BY DEF Confirmed
<1>5. r = [confirmed |-> r.confirmed, pending |-> r.pending, delivered |-> r.delivered,
           caughtUp |-> r.caughtUp, outstanding |-> r.outstanding, restoring |-> r.restoring]
  BY DEF ReplicaShaped
<1>6. z = [confirmed |-> c, pending |-> p, delivered |-> r.delivered,
           caughtUp |-> r.caughtUp, outstanding |-> r.outstanding, restoring |-> r.restoring]
  BY <1>4, <1>5
<1> HIDE DEF c, p, z
<1>7. /\ z.confirmed = c /\ z.pending = p /\ z.delivered = r.delivered /\ z.caughtUp = r.caughtUp
      /\ z.outstanding = r.outstanding /\ z.restoring = r.restoring
  BY <1>6
<1>8. z = [confirmed |-> z.confirmed, pending |-> z.pending, delivered |-> z.delivered,
           caughtUp |-> z.caughtUp, outstanding |-> z.outstanding, restoring |-> z.restoring]
  BY <1>6, <1>7
<1>9. /\ r.delivered \in [Docs -> Nat] /\ r.caughtUp \in Nat /\ r.outstanding \subseteq Commits
      /\ r.restoring \subseteq Commits \cup {Watches}
  BY DEF ReplicaShaped
<1>10. ReplicaShaped(z)
  BY <1>2, <1>3, <1>7, <1>8, <1>9 DEF ReplicaShaped
<1> QED BY <1>7, <1>10 DEF c, p, z

\* An answer more, or one less, on the way.
LEMMA AnswersShaped ==
  ASSUME IsSeq(toClient), \A i \in DOMAIN toClient : AnswerShaped(toClient[i]),
         NEW a, AnswerShaped(a),
         \/ toClient' = toClient \/ toClient' = Append(toClient, a)
         \/ toClient # <<>> /\ toClient' = Tail(toClient)
         \/ toClient' = <<a>> \/ toClient' = <<>>
  PROVE  \A i \in DOMAIN toClient' : AnswerShaped(toClient'[i])
<1>1. CASE toClient' = Append(toClient, a)
  BY <1>1, GrowsIs
<1>2. CASE toClient # <<>> /\ toClient' = Tail(toClient)
  BY <1>2, ShrinksIs
<1>3. CASE toClient' = <<a>>
  BY <1>3
<1>4. CASE toClient' = <<>>
  BY <1>4
<1> QED BY <1>1, <1>2, <1>3, <1>4

\* Another session's commit: the log grows, and what it wrote is dirty.
LEMMA ForeignEffect ==
  ASSUME IInv, Shaped, NEW d \in Docs, NEW op, CommitForeign(d, op)
  PROVE  /\ UNCHANGED <<toServer, toClient, issued, fate, replica>>
         /\ \E row : log' = Append(log, row) /\ row.doc = d /\ row.by = Foreign
         /\ server'.watching = server.watching /\ server'.sent = server.sent
         /\ server'.owed = server.owed /\ server'.told = server.told
         /\ server'.dirty = server.dirty \cup {d}
         /\ \A e \in Docs : server'.origin[e].by = "own" => server.origin[e].by = "own" /\ e # d
         /\ ServerShaped(server')
<1>1. UNCHANGED <<toServer, toClient, issued, fate, replica>>
  BY DEF CommitForeign
<1>2. \E row : log' = Append(log, row) /\ row.doc = d /\ row.by = Foreign
  <2> DEFINE tag == MaxCommits + Len(log) + 1
             row == [doc |-> d, by |-> Foreign, val |-> Applied(DocAt(d, Len(log)), op, tag)]
  <2>1. log' = Append(log, row)
    BY DEF CommitForeign
  <2>2. row.doc = d /\ row.by = Foreign
    OBVIOUS
  <2> HIDE DEF row
  <2> QED BY <2>1, <2>2
<1> DEFINE o == [by |-> "other", seq |-> Len(log) + 1, op |-> op]
           x == IF d \in server.dirty /\ server.origin[d].by # o.by THEN NoOrigin ELSE o
<1>3. server' = Mark(server, d, o)
  BY DEF CommitForeign
<1>4. x.by # "own"
  BY DEF NoOrigin
<1>5. server' = [server EXCEPT !.dirty = @ \cup {d}, !.origin[d] = x]
  BY <1>3 DEF Mark
<1> HIDE DEF x
<1>6. server = [watching |-> server.watching, sent |-> server.sent, dirty |-> server.dirty,
                origin |-> server.origin, owed |-> server.owed, told |-> server.told]
  BY DEF Shaped, ServerShaped
<1>7. server' = [watching |-> server.watching, sent |-> server.sent, dirty |-> server.dirty \cup {d},
                 origin |-> [server.origin EXCEPT ![d] = x], owed |-> server.owed, told |-> server.told]
  BY <1>5, <1>6
<1>8. /\ server'.watching = server.watching /\ server'.sent = server.sent
      /\ server'.owed = server.owed /\ server'.told = server.told
      /\ server'.dirty = server.dirty \cup {d} /\ server'.origin = [server.origin EXCEPT ![d] = x]
      /\ server' = [watching |-> server'.watching, sent |-> server'.sent, dirty |-> server'.dirty,
                    origin |-> server'.origin, owed |-> server'.owed, told |-> server'.told]
  BY <1>7
<1>9. /\ server.watching \in BOOLEAN /\ server.sent \in [Docs -> Nat] /\ server.dirty \subseteq Docs
      /\ server.origin = [e \in Docs |-> server.origin[e]] /\ server.owed \in Nat /\ server.told \in Nat
  BY DEF Shaped, ServerShaped
<1>10. /\ server'.origin = [e \in Docs |-> server'.origin[e]]
       /\ server'.origin[d] = x /\ \A e \in Docs : e # d => server'.origin[e] = server.origin[e]
  BY <1>8, <1>9
<1>11. ServerShaped(server')
  BY <1>8, <1>9, <1>10 DEF ServerShaped
<1> QED BY <1>1, <1>2, <1>4, <1>8, <1>10, <1>11

\* A decision: what it marks, owes and answers.
LEMMA DecideEffect ==
  ASSUME IInv, Shaped, Decide
  PROVE  /\ UNCHANGED <<issued, fate, replica>>
         /\ toServer # <<>> /\ toServer[1].type = "commit" /\ toServer' = Tail(toServer)
         /\ toServer[1].n \in 1..Len(issued) /\ toServer[1].n \in replica.outstanding
         /\ server'.watching = server.watching /\ server'.sent = server.sent
         /\ server'.told = server.told /\ server'.owed \in {server.owed, toServer[1].n}
         /\ server.owed <= server'.owed /\ toServer[1].n <= server'.owed
         /\ server.dirty \subseteq server'.dirty /\ issued[toServer[1].n].doc \in server'.dirty
         /\ \A e \in Docs : server'.origin[e].by = "own" =>
              server.origin[e].by = "own" \/ e \notin server.dirty
         /\ ServerShaped(server')
         /\ \E a : a.type = "verdict" /\ a.n = toServer[1].n /\ toClient' = Append(toClient, a)
         /\ \/ log' = log /\ (Resolved(toServer[1].n) \/ ~ Admissible(issued[toServer[1].n]))
            \/ /\ ~ Resolved(toServer[1].n) /\ Admissible(issued[toServer[1].n])
               /\ \E row : /\ log' = Append(log, row)
                           /\ row.doc = issued[toServer[1].n].doc /\ row.by = toServer[1].n
                           /\ row.val = Applied(DocAt(row.doc, Len(log)), Op(toServer[1].n), toServer[1].n)
<1>1. /\ UNCHANGED <<issued, fate, replica>>
      /\ toServer # <<>> /\ Head(toServer).type = "commit" /\ toServer' = Tail(toServer)
  BY DEF Decide
<1>2. 1 \in DOMAIN toServer /\ Head(toServer) = toServer[1]
  BY <1>1, ShrinksIs DEF IInv, Typed
<1> DEFINE n == toServer[1].n
           c == issued[n]
<1>3. n \in Commits /\ n \in replica.outstanding
  <2>1. n \in Commits /\ Carries(1, n)
    BY <1>1, <1>2 DEF IInv, Typed, Carries
  <2> QED BY <1>2, <2>1 DEF IInv, OneCopy
<1>4. n \in 1..Len(issued)
  <2>1. fate[n] # "unissued"
    BY <1>3 DEF IInv, Unsent
  <2> QED BY <1>3, <2>1, IssuedAre DEF IInv
<1>5. c.doc \in Docs /\ DOMAIN c.reads \subseteq Docs /\ n \in Nat
  BY <1>3, <1>4, CommitNumbers DEF Shaped, CommitShaped
<1>6. PICK q, ok :
        /\ toClient' = Append(toClient, Verdict(n, ok, q))
        /\ \/ /\ \E s : server' = Owe(Mark(server, c.doc, [by |-> "own", seq |-> s, op |-> c.op]), n)
              /\ \/ log' = log /\ Resolved(n)
                 \/ /\ ~ Resolved(n) /\ Admissible(c)
                    /\ log' = Append(log, [doc |-> c.doc, by |-> n,
                                           val |-> Applied(DocAt(c.doc, Len(log)), c.op, n)])
           \/ server' = Owe(MarkRefused(server, c), n) /\ log' = log /\ ~ Admissible(c)
  BY <1>2 DEF Decide
<1>7. \E a : a.type = "verdict" /\ a.n = n /\ toClient' = Append(toClient, a)
  <2>1. Verdict(n, ok, q).type = "verdict" /\ Verdict(n, ok, q).n = n
    BY DEF Verdict
  <2> QED BY <1>6, <2>1
<1>8. \/ log' = log /\ (Resolved(n) \/ ~ Admissible(c))
      \/ /\ ~ Resolved(n) /\ Admissible(c)
         /\ \E row : /\ log' = Append(log, row)
                     /\ row.doc = c.doc /\ row.by = n
                     /\ row.val = Applied(DocAt(row.doc, Len(log)), Op(n), n)
  <2> SUFFICES ASSUME ~ (log' = log /\ (Resolved(n) \/ ~ Admissible(c)))
               PROVE  /\ ~ Resolved(n) /\ Admissible(c)
                      /\ \E row : /\ log' = Append(log, row)
                                  /\ row.doc = c.doc /\ row.by = n
                                  /\ row.val = Applied(DocAt(row.doc, Len(log)), Op(n), n)
    OBVIOUS
  <2> DEFINE row == [doc |-> c.doc, by |-> n, val |-> Applied(DocAt(c.doc, Len(log)), c.op, n)]
  <2>1. log' = Append(log, row) /\ ~ Resolved(n) /\ Admissible(c)
    BY <1>6
  <2>2. row.doc = c.doc /\ row.by = n /\ row.val = Applied(DocAt(row.doc, Len(log)), Op(n), n)
    BY DEF Op
  <2> HIDE DEF row
  <2> QED BY <2>1, <2>2
<1>9. /\ server = [watching |-> server.watching, sent |-> server.sent, dirty |-> server.dirty,
                   origin |-> server.origin, owed |-> server.owed, told |-> server.told]
      /\ server.watching \in BOOLEAN /\ server.sent \in [Docs -> Nat] /\ server.dirty \subseteq Docs
      /\ server.origin = [e \in Docs |-> server.origin[e]] /\ server.owed \in Nat /\ server.told \in Nat
  BY DEF Shaped, ServerShaped
<1>10. /\ Max({server.owed, n}) \in {server.owed, n}
       /\ server.owed <= Max({server.owed, n}) /\ n <= Max({server.owed, n})
  BY <1>5, <1>9, MaxOfTwo
<1> DEFINE w == Max({server.owed, n})
<1>11. \E di, og :
         /\ server' = [watching |-> server.watching, sent |-> server.sent, dirty |-> di,
                       origin |-> og, owed |-> w, told |-> server.told]
         /\ server.dirty \subseteq di /\ di \subseteq Docs /\ c.doc \in di
         /\ og = [e \in Docs |-> og[e]]
         /\ \A e \in Docs : og[e].by = "own" => server.origin[e].by = "own" \/ e \notin server.dirty
  <2> HIDE DEF c, n
  <2>1. ASSUME NEW o, o.by = "own", server' = Owe(Mark(server, c.doc, o), n)
        PROVE  \E di, og :
         /\ server' = [watching |-> server.watching, sent |-> server.sent, dirty |-> di,
                       origin |-> og, owed |-> w, told |-> server.told]
         /\ server.dirty \subseteq di /\ di \subseteq Docs /\ c.doc \in di
         /\ og = [e \in Docs |-> og[e]]
         /\ \A e \in Docs : og[e].by = "own" => server.origin[e].by = "own" \/ e \notin server.dirty
    <3> DEFINE x == IF c.doc \in server.dirty /\ server.origin[c.doc].by # o.by THEN NoOrigin ELSE o
               m == Mark(server, c.doc, o)
               di == server.dirty \cup {c.doc}
               og == [server.origin EXCEPT ![c.doc] = x]
    <3>1. x.by = "own" => server.origin[c.doc].by = "own" \/ c.doc \notin server.dirty
      BY <2>1 DEF NoOrigin
    <3>2. m = [server EXCEPT !.dirty = di, !.origin = og]
      BY DEF Mark
    <3> HIDE DEF x
    <3>3. og = [e \in Docs |-> og[e]] /\ og[c.doc] = x
          /\ \A e \in Docs : e # c.doc => og[e] = server.origin[e]
      BY <1>5, <1>9
    <3> HIDE DEF og, di
    <3>4. m = [watching |-> server.watching, sent |-> server.sent, dirty |-> di,
               origin |-> og, owed |-> server.owed, told |-> server.told]
      BY <1>9, <3>2
    <3> HIDE DEF m
    <3>5. server' = [m EXCEPT !.owed = Max({m.owed, n})] /\ m.owed = server.owed
      BY <2>1, <3>4 DEF Owe, m
    <3>6. server' = [watching |-> server.watching, sent |-> server.sent, dirty |-> di,
                     origin |-> og, owed |-> w, told |-> server.told]
      BY <3>4, <3>5
    <3>7. server.dirty \subseteq di /\ di \subseteq Docs /\ c.doc \in di
      BY <1>5, <1>9 DEF di
    <3>8. \A e \in Docs : og[e].by = "own" => server.origin[e].by = "own" \/ e \notin server.dirty
      BY <3>1, <3>3
    <3> QED BY <3>3, <3>6, <3>7, <3>8
  <2>2. ASSUME server' = Owe(MarkRefused(server, c), n)
        PROVE  \E di, og :
         /\ server' = [watching |-> server.watching, sent |-> server.sent, dirty |-> di,
                       origin |-> og, owed |-> w, told |-> server.told]
         /\ server.dirty \subseteq di /\ di \subseteq Docs /\ c.doc \in di
         /\ og = [e \in Docs |-> og[e]]
         /\ \A e \in Docs : og[e].by = "own" => server.origin[e].by = "own" \/ e \notin server.dirty
    <3> DEFINE due == {c.doc} \cup DOMAIN c.reads
               m == MarkRefused(server, c)
               di == server.dirty \cup due
               og == [e \in Docs |-> IF e \in due THEN NoOrigin ELSE server.origin[e]]
    <3>2. m = [server EXCEPT !.dirty = di, !.origin = og]
      BY <1>9 DEF MarkRefused
    <3>3. og = [e \in Docs |-> og[e]]
      OBVIOUS
    <3>8. \A e \in Docs : og[e].by = "own" => server.origin[e].by = "own" \/ e \notin server.dirty
      BY DEF NoOrigin
    <3>7. server.dirty \subseteq di /\ di \subseteq Docs /\ c.doc \in di
      BY <1>5, <1>9
    <3> HIDE DEF og, di
    <3>4. m = [watching |-> server.watching, sent |-> server.sent, dirty |-> di,
               origin |-> og, owed |-> server.owed, told |-> server.told]
      BY <1>9, <3>2
    <3> HIDE DEF m
    <3>5. server' = [m EXCEPT !.owed = Max({m.owed, n})] /\ m.owed = server.owed
      BY <2>2, <3>4 DEF Owe, m
    <3>6. server' = [watching |-> server.watching, sent |-> server.sent, dirty |-> di,
                     origin |-> og, owed |-> w, told |-> server.told]
      BY <3>4, <3>5
    <3> QED BY <3>3, <3>6, <3>7, <3>8
  <2>3. \A s : [by |-> "own", seq |-> s, op |-> c.op].by = "own"
    OBVIOUS
  <2>4. \/ \E o : o.by = "own" /\ server' = Owe(Mark(server, c.doc, o), n)
        \/ server' = Owe(MarkRefused(server, c), n)
    BY <1>6, <2>3 DEF c
  <2> QED BY <2>1, <2>2, <2>4
<1> HIDE DEF w
<1>12. PICK di, og :
         /\ server' = [watching |-> server.watching, sent |-> server.sent, dirty |-> di,
                       origin |-> og, owed |-> w, told |-> server.told]
         /\ server.dirty \subseteq di /\ di \subseteq Docs /\ c.doc \in di
         /\ og = [e \in Docs |-> og[e]]
         /\ \A e \in Docs : og[e].by = "own" => server.origin[e].by = "own" \/ e \notin server.dirty
  BY <1>11
<1>13. /\ server'.watching = server.watching /\ server'.sent = server.sent /\ server'.dirty = di
       /\ server'.origin = og /\ server'.owed = w /\ server'.told = server.told
       /\ server' = [watching |-> server'.watching, sent |-> server'.sent, dirty |-> server'.dirty,
                     origin |-> server'.origin, owed |-> server'.owed, told |-> server'.told]
  BY <1>12
<1>14. w \in Nat /\ w \in {server.owed, n} /\ server.owed <= w /\ n <= w
  BY <1>5, <1>9, <1>10 DEF w
<1>15. ServerShaped(server')
  BY <1>9, <1>12, <1>13, <1>14 DEF ServerShaped
<1> QED BY <1>1, <1>2, <1>3, <1>4, <1>7, <1>8, <1>12, <1>13, <1>14, <1>15

\* A pass of the batched flush.
LEMMA FlushEffect ==
  ASSUME IInv, Shaped, Flush
  PROVE  /\ UNCHANGED <<log, toServer, issued, fate, replica>>
         /\ server'.watching = server.watching /\ server'.dirty = {} /\ server'.owed = 0
         /\ server'.sent = [d \in Docs |-> IF d \in server.dirty /\ server.watching
                                           THEN HeadSeq(d) ELSE server.sent[d]]
         /\ \A d \in Docs : server'.origin[d].by # "own"
         /\ server'.told \in {server.told, server.owed}
         /\ server.told <= server'.told /\ server.owed <= server'.told
         /\ ServerShaped(server')
         /\ \E f : /\ FrameShaped(f) /\ f.restores = FALSE
                   /\ f.marker \in {0, server.owed} /\ (f.marker # 0 => f.marker > server.told)
                   /\ DOMAIN f.upserts = {d \in server.dirty : /\ server.watching
                                            /\ HeadSeq(d) # server.sent[d] /\ ~ Held(d)}
                   /\ \A d \in DOMAIN f.upserts :
                        f.upserts[d].seq = HeadSeq(d) /\ f.upserts[d].val = DocAt(d, Len(log))
                   /\ \/ toClient' = Append(toClient, f)
                      \/ toClient' = toClient /\ DOMAIN f.upserts = {} /\ server.owed <= server.told
<1>0. /\ server = [watching |-> server.watching, sent |-> server.sent, dirty |-> server.dirty,
                   origin |-> server.origin, owed |-> server.owed, told |-> server.told]
      /\ server.watching \in BOOLEAN /\ server.sent \in [Docs -> Nat] /\ server.dirty \subseteq Docs
      /\ server.origin = [e \in Docs |-> server.origin[e]] /\ server.owed \in Nat /\ server.told \in Nat
      /\ IsSeq(log)
  BY DEF Shaped, ServerShaped, IInv, Typed
<1>1. \A d : HeadSeq(d) \in Nat
  <2> SUFFICES ASSUME NEW d PROVE HeadSeq(d) \in Nat
    OBVIOUS
  <2>1. Len(log) \in Nat /\ Len(log) <= Len(log)
    BY <1>0 DEF IsSeq
  <2>2. HeadAt(d, Len(log)) \in 0..Len(log)
    BY <1>0, <2>1, HeadIs
  <2> QED BY <2>1, <2>2 DEF HeadSeq
<1> DEFINE ups == {d \in server.dirty : server.watching /\ HeadSeq(d) # server.sent[d] /\ ~ Held(d)}
           f == Frame(Snapshot(ups), Marker(server), FALSE)
           sent == [d \in Docs |-> IF d \in server.dirty /\ server.watching
                                   THEN HeadSeq(d) ELSE server.sent[d]]
           none == [d \in Docs |-> NoOrigin]
           t == Max({server.told, server.owed})
<1>2. t \in {server.told, server.owed} /\ server.told <= t /\ server.owed <= t
  BY <1>0, MaxOfTwo
<1>3. /\ UNCHANGED <<log, toServer, issued, fate, replica>>
      /\ toClient' = IF FrameDue(ups) THEN Append(toClient, f) ELSE toClient
      /\ server' = [server EXCEPT !.dirty = {}, !.origin = none,
                     !.sent = [d \in Docs |-> IF d \in server.dirty /\ server.watching
                                              THEN HeadSeq(d) ELSE @[d]],
                     !.told = Max({@, server.owed}), !.owed = 0]
  BY DEF Flush
<1>4. server' = [watching |-> server.watching, sent |-> sent, dirty |-> {},
                 origin |-> none, owed |-> 0, told |-> t]
  BY <1>0, <1>3
<1>5. sent \in [Docs -> Nat] /\ none = [d \in Docs |-> none[d]] /\ \A d \in Docs : none[d].by # "own"
  BY <1>0, <1>1 DEF NoOrigin
<1>6. /\ f.type = "frame" /\ f.marker = Marker(server) /\ f.restores = FALSE
      /\ DOMAIN f.upserts = ups
      /\ \A d \in ups : f.upserts[d].seq = HeadSeq(d) /\ f.upserts[d].val = DocAt(d, Len(log))
  BY DEF Frame, Snapshot
<1>7. Marker(server) \in {0, server.owed} /\ (Marker(server) # 0 => Marker(server) > server.told)
      /\ (~ server.owed <= server.told => Marker(server) > 0) /\ Marker(server) \in Nat
  BY <1>0 DEF Marker
<1>8. ups \subseteq Docs /\ (~ FrameDue(ups) => ups = {} /\ server.owed <= server.told)
  BY <1>0, <1>7 DEF FrameDue
<1> HIDE DEF f, ups, sent, none, t
<1>9. FrameShaped(f)
  BY <1>1, <1>6, <1>7, <1>8 DEF FrameShaped
<1>10. /\ server'.watching = server.watching /\ server'.sent = sent /\ server'.dirty = {}
       /\ server'.origin = none /\ server'.owed = 0 /\ server'.told = t
       /\ server' = [watching |-> server'.watching, sent |-> server'.sent, dirty |-> server'.dirty,
                     origin |-> server'.origin, owed |-> server'.owed, told |-> server'.told]
  BY <1>4
<1>11. ServerShaped(server')
  BY <1>0, <1>2, <1>5, <1>10 DEF ServerShaped
<1>12. \/ toClient' = Append(toClient, f)
       \/ toClient' = toClient /\ DOMAIN f.upserts = {} /\ server.owed <= server.told
  BY <1>3, <1>6, <1>8
<1>13. \E g : /\ FrameShaped(g) /\ g.restores = FALSE
              /\ g.marker \in {0, server.owed} /\ (g.marker # 0 => g.marker > server.told)
              /\ DOMAIN g.upserts = {d \in server.dirty : /\ server.watching
                                       /\ HeadSeq(d) # server.sent[d] /\ ~ Held(d)}
              /\ \A d \in DOMAIN g.upserts :
                   g.upserts[d].seq = HeadSeq(d) /\ g.upserts[d].val = DocAt(d, Len(log))
              /\ \/ toClient' = Append(toClient, g)
                 \/ toClient' = toClient /\ DOMAIN g.upserts = {} /\ server.owed <= server.told
  <2>1. DOMAIN f.upserts = {d \in server.dirty : /\ server.watching
                              /\ HeadSeq(d) # server.sent[d] /\ ~ Held(d)}
    BY <1>6 DEF ups
  <2> QED BY <1>6, <1>7, <1>9, <1>12, <2>1
<1> QED BY <1>2, <1>3, <1>5, <1>10, <1>11, <1>13 DEF sent

\* The last write of a document.
LEMMA HeadSeqIs ==
  ASSUME IsSeq(log), NEW d
  PROVE  /\ HeadSeq(d) \in Nat /\ HeadSeq(d) <= Len(log) /\ Len(log) \in Nat
         /\ DOMAIN log = 1..Len(log)
         /\ \A p \in DOMAIN log : log[p].doc = d => p <= HeadSeq(d)
         /\ HeadSeq(d) # 0 => HeadSeq(d) \in DOMAIN log /\ log[HeadSeq(d)].doc = d
<1>1. Len(log) \in Nat /\ Len(log) <= Len(log) /\ DOMAIN log = 1..Len(log)
  BY DEF IsSeq
<1>2. /\ HeadAt(d, Len(log)) \in 0..Len(log)
      /\ HeadAt(d, Len(log)) # 0 =>
           HeadAt(d, Len(log)) \in DOMAIN log /\ log[HeadAt(d, Len(log))].doc = d
      /\ \A p \in 1..Len(log) : log[p].doc = d => p <= HeadAt(d, Len(log))
  BY <1>1, HeadIs
<1> QED BY <1>1, <1>2 DEF HeadSeq

\* The answer to a watch set.
LEMMA SetWatchesEffect ==
  ASSUME IInv, Shaped, SetWatches
  PROVE  /\ UNCHANGED <<log, issued, fate, replica>>
         /\ toServer # <<>> /\ toServer[1].type = "watch" /\ toServer' = Tail(toServer)
         /\ toServer[1].holdings \in [Docs -> Nat]
         /\ server'.watching = TRUE /\ server'.sent = [d \in Docs |-> HeadSeq(d)]
         /\ server'.dirty = server.dirty /\ server'.origin = server.origin
         /\ server'.owed = server.owed /\ server'.told = server.told
         /\ ServerShaped(server')
         /\ \E f : /\ FrameShaped(f) /\ f.restores = TRUE /\ f.marker = 0
                   /\ DOMAIN f.upserts = {d \in Docs : HeadSeq(d) # toServer[1].holdings[d]}
                   /\ \A d \in DOMAIN f.upserts :
                        f.upserts[d].seq = HeadSeq(d) /\ f.upserts[d].val = DocAt(d, Len(log))
                   /\ toClient' = Append(toClient, f)
<1>0. /\ server = [watching |-> server.watching, sent |-> server.sent, dirty |-> server.dirty,
                   origin |-> server.origin, owed |-> server.owed, told |-> server.told]
      /\ server.watching \in BOOLEAN /\ server.sent \in [Docs -> Nat] /\ server.dirty \subseteq Docs
      /\ server.origin = [e \in Docs |-> server.origin[e]] /\ server.owed \in Nat /\ server.told \in Nat
      /\ IsSeq(log) /\ IsSeq(toServer)
  BY DEF Shaped, ServerShaped, IInv, Typed
<1>1. \A d : HeadSeq(d) \in Nat
  BY <1>0, HeadSeqIs
<1>2. toServer # <<>> /\ Head(toServer).type = "watch" /\ toServer' = Tail(toServer)
  BY DEF SetWatches
<1>3. 1 \in DOMAIN toServer /\ Head(toServer) = toServer[1]
  BY <1>0, <1>2, ShrinksIs
<1>4. toServer[1].holdings \in [Docs -> Nat]
  BY <1>2, <1>3 DEF Shaped, RequestShaped
<1> DEFINE ups == {d \in Docs : HeadSeq(d) # toServer[1].holdings[d]}
           f == Frame(Snapshot(ups), 0, TRUE)
           sent == [d \in Docs |-> HeadSeq(d)]
<1>5. /\ UNCHANGED <<log, issued, fate, replica>> /\ toClient' = Append(toClient, f)
      /\ server' = [server EXCEPT !.watching = TRUE, !.sent = sent]
  BY <1>3 DEF SetWatches
<1>6. /\ f.type = "frame" /\ f.marker = 0 /\ f.restores = TRUE
      /\ DOMAIN f.upserts = ups
      /\ \A d \in ups : f.upserts[d].seq = HeadSeq(d) /\ f.upserts[d].val = DocAt(d, Len(log))
  BY DEF Frame, Snapshot
<1>7. ups \subseteq Docs /\ sent \in [Docs -> Nat]
  BY <1>1
<1> HIDE DEF f, sent, ups
<1>8. server' = [watching |-> TRUE, sent |-> sent, dirty |-> server.dirty,
                 origin |-> server.origin, owed |-> server.owed, told |-> server.told]
  BY <1>0, <1>5
<1>9. /\ server'.watching = TRUE /\ server'.sent = sent /\ server'.dirty = server.dirty
      /\ server'.origin = server.origin /\ server'.owed = server.owed /\ server'.told = server.told
      /\ server' = [watching |-> server'.watching, sent |-> server'.sent, dirty |-> server'.dirty,
                    origin |-> server'.origin, owed |-> server'.owed, told |-> server'.told]
  BY <1>8
<1>10. ServerShaped(server')
  BY <1>0, <1>7, <1>9 DEF ServerShaped
<1>11. FrameShaped(f)
  <2>1. f.restores \in BOOLEAN
    <3>1. f.restores = TRUE
      BY <1>6
    <3> QED BY <3>1, Zenon
  <2>3. f.marker \in Nat /\ f.type = "frame"
    BY <1>6
  <2>2. DOMAIN f.upserts \subseteq Docs /\ \A d \in DOMAIN f.upserts : f.upserts[d].seq \in Nat
    BY <1>1, <1>6, <1>7
  <2> QED BY <2>1, <2>2, <2>3 DEF FrameShaped
<1> QED BY <1>2, <1>3, <1>4, <1>5, <1>6, <1>9, <1>10, <1>11 DEF sent, ups

\* Another commit.
LEMMA IssueEffect ==
  ASSUME IInv, Shaped, NEW d \in Docs, NEW op, NEW docs \in SUBSET Docs, Issue(d, op, docs)
  PROVE  LET n == Len(issued) + 1
         IN  /\ UNCHANGED <<log, server, toServer, toClient>>
             /\ n \in Commits /\ n \notin 1..Len(issued) /\ fate[n] = "unissued"
             /\ ReadUnsettled \/ \A e \in docs : ~ Unsettled(e)
             /\ TurnOver
             /\ fate'[n] = "queued" /\ \A m \in Commits : m # n => fate'[m] = fate[m]
             /\ Len(issued') = n /\ \A m \in 1..Len(issued) : issued'[m] = issued[m]
             /\ issued'[n].doc = d /\ DOMAIN issued'[n].reads = docs
             /\ \A e \in docs : issued'[n].reads[e] = ReadOf(e)
             /\ replica'.pending = [replica.pending EXCEPT ![d] = @ \cup {n}]
             /\ replica'.confirmed = replica.confirmed /\ replica'.delivered = replica.delivered
             /\ replica'.caughtUp = replica.caughtUp /\ replica'.outstanding = replica.outstanding
             /\ replica'.restoring = replica.restoring
             /\ ReplicaShaped(replica')
<1> DEFINE n == Len(issued) + 1
           c == [doc |-> d, op |-> op, reads |-> [e \in docs |-> ReadOf(e)]]
<1>1. /\ UNCHANGED <<log, server, toServer, toClient>> /\ n <= MaxCommits
      /\ ReadUnsettled \/ \A e \in docs : ~ Unsettled(e)
      /\ TurnOver /\ issued' = Append(issued, c)
      /\ fate' = [fate EXCEPT ![n] = "queued"]
      /\ replica' = [replica EXCEPT !.pending[d] = @ \cup {n}]
  BY DEF Issue
<1>2. /\ Len(issued') = n /\ Len(issued) \in Nat
      /\ \A i \in 1..Len(issued) : issued'[i] = issued[i]
      /\ issued'[n] = c
  BY <1>1, GrowsIs DEF IInv, Typed
<1>3. n \in Commits /\ n \notin 1..Len(issued)
  BY <1>1, <1>2, CommitNumbers
<1>4. fate[n] = "unissued"
  BY <1>3, IssuedAre DEF IInv
<1>5. fate'[n] = "queued" /\ \A m \in Commits : m # n => fate'[m] = fate[m]
  <2>1. fate \in [Commits -> Fates]
    BY DEF IInv, Typed
  <2> HIDE DEF n
  <2> QED BY <1>1, <1>3, <2>1
<1>6. /\ issued'[n].doc = d /\ DOMAIN issued'[n].reads = docs
      /\ \A e \in docs : issued'[n].reads[e] = ReadOf(e)
  BY <1>2
<1> HIDE DEF n, c
<1> DEFINE p == [replica.pending EXCEPT ![d] = @ \cup {n}]
<1>7. /\ replica = [confirmed |-> replica.confirmed, pending |-> replica.pending,
                    delivered |-> replica.delivered, caughtUp |-> replica.caughtUp,
                    outstanding |-> replica.outstanding, restoring |-> replica.restoring]
      /\ replica.confirmed = [e \in Docs |-> replica.confirmed[e]]
      /\ \A e \in Docs : replica.confirmed[e].seq \in Nat
      /\ replica.pending \in [Docs -> SUBSET Commits] /\ replica.delivered \in [Docs -> Nat]
      /\ replica.caughtUp \in Nat /\ replica.outstanding \subseteq Commits
      /\ replica.restoring \subseteq Commits \cup {Watches}
  BY DEF Shaped, ReplicaShaped
<1>8. replica' = [replica EXCEPT !.pending = p]
  BY <1>1
<1>9. p \in [Docs -> SUBSET Commits]
  BY <1>3, <1>7
<1> HIDE DEF p
<1>10. replica' = [confirmed |-> replica.confirmed, pending |-> p,
                   delivered |-> replica.delivered, caughtUp |-> replica.caughtUp,
                   outstanding |-> replica.outstanding, restoring |-> replica.restoring]
  BY <1>7, <1>8
<1>11. /\ replica'.pending = p
       /\ replica'.confirmed = replica.confirmed /\ replica'.delivered = replica.delivered
       /\ replica'.caughtUp = replica.caughtUp /\ replica'.outstanding = replica.outstanding
       /\ replica'.restoring = replica.restoring
       /\ replica' = [confirmed |-> replica'.confirmed, pending |-> replica'.pending,
                      delivered |-> replica'.delivered, caughtUp |-> replica'.caughtUp,
                      outstanding |-> replica'.outstanding, restoring |-> replica'.restoring]
  BY <1>10
<1>12. ReplicaShaped(replica')
  BY <1>7, <1>9, <1>11 DEF ReplicaShaped
<1> QED BY <1>1, <1>2, <1>3, <1>4, <1>5, <1>6, <1>11, <1>12 DEF n, p

\* A commit goes out, or waits for a dead layer.
LEMMA SendEffect ==
  ASSUME IInv, Shaped, NEW n \in Commits, Send(n)
  PROVE  /\ UNCHANGED <<log, server, toClient, issued>>
         /\ fate[n] = "queued" /\ \A m \in Commits : m < n => fate[m] # "queued"
         /\ replica.restoring = {} /\ TurnOver
         /\ \A m \in Commits : m # n => fate'[m] = fate[m]
         /\ \/ fate'[n] = "waiting" /\ UNCHANGED <<toServer, replica>>
            \/ /\ fate'[n] = "sent"
               /\ \E a : a.type = "commit" /\ a.n = n /\ toServer' = Append(toServer, a)
               /\ replica'.outstanding = replica.outstanding \cup {n}
               /\ replica'.confirmed = replica.confirmed /\ replica'.pending = replica.pending
               /\ replica'.delivered = replica.delivered /\ replica'.caughtUp = replica.caughtUp
               /\ replica'.restoring = replica.restoring
               /\ ReplicaShaped(replica')
<1>1. /\ UNCHANGED <<log, server, toClient, issued>>
      /\ fate[n] = "queued" /\ (\A m \in 1..(n - 1) : fate[m] # "queued")
      /\ replica.restoring = {} /\ TurnOver
      /\ \/ fate' = [fate EXCEPT ![n] = "waiting"] /\ UNCHANGED <<toServer, replica>>
         \/ /\ fate' = [fate EXCEPT ![n] = "sent"]
            /\ toServer' = Append(toServer, [type |-> "commit", n |-> n])
            /\ replica' = [replica EXCEPT !.outstanding = @ \cup {n}]
  BY DEF Send
<1>2. \A m \in Commits : m < n => m \in 1..(n - 1)
  BY CommitNumbers
<1>3. fate \in [Commits -> Fates]
  BY DEF IInv, Typed
<1>4. \A m \in Commits : m # n => fate'[m] = fate[m]
  BY <1>1, <1>3
<1>5. CASE fate' = [fate EXCEPT ![n] = "waiting"] /\ UNCHANGED <<toServer, replica>>
  BY <1>1, <1>2, <1>3, <1>4, <1>5
<1>6. CASE /\ fate' = [fate EXCEPT ![n] = "sent"]
           /\ toServer' = Append(toServer, [type |-> "commit", n |-> n])
           /\ replica' = [replica EXCEPT !.outstanding = @ \cup {n}]
  <2>1. fate'[n] = "sent"
    BY <1>3, <1>6
  <2>2. \E a : a.type = "commit" /\ a.n = n /\ toServer' = Append(toServer, a)
    <3> DEFINE a == [type |-> "commit", n |-> n]
    <3>1. a.type = "commit" /\ a.n = n
      OBVIOUS
    <3>2. toServer' = Append(toServer, a)
      BY <1>6
    <3> HIDE DEF a
    <3> QED BY <3>1, <3>2
  <2> DEFINE o == replica.outstanding \cup {n}
  <2>3. /\ replica = [confirmed |-> replica.confirmed, pending |-> replica.pending,
                      delivered |-> replica.delivered, caughtUp |-> replica.caughtUp,
                      outstanding |-> replica.outstanding, restoring |-> replica.restoring]
        /\ replica.confirmed = [e \in Docs |-> replica.confirmed[e]]
        /\ \A e \in Docs : replica.confirmed[e].seq \in Nat
        /\ replica.pending \in [Docs -> SUBSET Commits] /\ replica.delivered \in [Docs -> Nat]
        /\ replica.caughtUp \in Nat /\ replica.outstanding \subseteq Commits
        /\ replica.restoring \subseteq Commits \cup {Watches}
    BY DEF Shaped, ReplicaShaped
  <2>4. o \subseteq Commits /\ replica' = [replica EXCEPT !.outstanding = o]
    BY <1>6, <2>3
  <2> HIDE DEF o
  <2>5. replica' = [confirmed |-> replica.confirmed, pending |-> replica.pending,
                    delivered |-> replica.delivered, caughtUp |-> replica.caughtUp,
                    outstanding |-> o, restoring |-> replica.restoring]
    BY <2>3, <2>4
  <2>6. /\ replica'.outstanding = o
        /\ replica'.confirmed = replica.confirmed /\ replica'.pending = replica.pending
        /\ replica'.delivered = replica.delivered /\ replica'.caughtUp = replica.caughtUp
        /\ replica'.restoring = replica.restoring
        /\ replica' = [confirmed |-> replica'.confirmed, pending |-> replica'.pending,
                       delivered |-> replica'.delivered, caughtUp |-> replica'.caughtUp,
                       outstanding |-> replica'.outstanding, restoring |-> replica'.restoring]
    BY <2>5
  <2>7. ReplicaShaped(replica')
    BY <2>3, <2>4, <2>6 DEF ReplicaShaped
  <2> QED BY <1>1, <1>2, <1>4, <2>1, <2>2, <2>6, <2>7 DEF o
<1> QED BY <1>1, <1>5, <1>6

\* A verdict arrives.
LEMMA ReceiveVerdictEffect ==
  ASSUME IInv, Shaped, ReceiveVerdict
  PROVE  /\ UNCHANGED <<log, server, toServer, issued>>
         /\ toClient # <<>> /\ toClient' = Tail(toClient)
         /\ toClient[1].type = "verdict" /\ toClient[1].n \in Commits
         /\ \A m \in Commits : m # toClient[1].n => fate'[m] = fate[m]
         /\ \/ fate' = fate /\ fate[toClient[1].n] # "sent"
            \/ fate[toClient[1].n] = "sent" /\ fate'[toClient[1].n] \in {"accepted", "repairing"}
         /\ replica'.outstanding = replica.outstanding \ {toClient[1].n}
         /\ replica'.restoring = replica.restoring \ {toClient[1].n}
         /\ replica'.confirmed = replica.confirmed /\ replica'.pending = replica.pending
         /\ replica'.delivered = replica.delivered /\ replica'.caughtUp = replica.caughtUp
         /\ ReplicaShaped(replica')
<1> DEFINE v == Head(toClient)
           k == toClient[1].n
<1>1. /\ toClient # <<>> /\ v.type = "verdict" /\ toClient' = Tail(toClient)
      /\ replica' = [replica EXCEPT !.outstanding = @ \ {v.n}, !.restoring = @ \ {v.n}]
      /\ UNCHANGED <<log, server, toServer, issued>>
      /\ \/ fate[v.n] # "sent" /\ fate' = fate
         \/ /\ fate[v.n] = "sent"
            /\ fate' = [fate EXCEPT ![v.n] = IF v.ok THEN "accepted" ELSE "repairing"]
  BY DEF ReceiveVerdict
<1>2. 1 \in DOMAIN toClient /\ v = toClient[1]
  BY <1>1, ShrinksIs DEF IInv, Typed
<1>3. k \in Commits
  BY <1>1, <1>2 DEF IInv, Typed
<1>4. fate \in [Commits -> Fates]
  BY DEF IInv, Typed
<1>5. /\ \A m \in Commits : m # k => fate'[m] = fate[m]
      /\ \/ fate' = fate /\ fate[k] # "sent"
         \/ fate[k] = "sent" /\ fate'[k] \in {"accepted", "repairing"}
  BY <1>1, <1>2, <1>3, <1>4
<1> DEFINE o == replica.outstanding \ {k}
           s == replica.restoring \ {k}
<1>6. /\ replica = [confirmed |-> replica.confirmed, pending |-> replica.pending,
                    delivered |-> replica.delivered, caughtUp |-> replica.caughtUp,
                    outstanding |-> replica.outstanding, restoring |-> replica.restoring]
      /\ replica.confirmed = [e \in Docs |-> replica.confirmed[e]]
      /\ \A e \in Docs : replica.confirmed[e].seq \in Nat
      /\ replica.pending \in [Docs -> SUBSET Commits] /\ replica.delivered \in [Docs -> Nat]
      /\ replica.caughtUp \in Nat /\ replica.outstanding \subseteq Commits
      /\ replica.restoring \subseteq Commits \cup {Watches}
  BY DEF Shaped, ReplicaShaped
<1>7. /\ o \subseteq Commits /\ s \subseteq Commits \cup {Watches}
      /\ replica' = [replica EXCEPT !.outstanding = o, !.restoring = s]
  BY <1>1, <1>2, <1>6
<1> HIDE DEF o, s, k
<1>8. replica' = [confirmed |-> replica.confirmed, pending |-> replica.pending,
                  delivered |-> replica.delivered, caughtUp |-> replica.caughtUp,
                  outstanding |-> o, restoring |-> s]
  BY <1>6, <1>7
<1>9. /\ replica'.outstanding = o /\ replica'.restoring = s
      /\ replica'.confirmed = replica.confirmed /\ replica'.pending = replica.pending
      /\ replica'.delivered = replica.delivered /\ replica'.caughtUp = replica.caughtUp
      /\ replica' = [confirmed |-> replica'.confirmed, pending |-> replica'.pending,
                     delivered |-> replica'.delivered, caughtUp |-> replica'.caughtUp,
                     outstanding |-> replica'.outstanding, restoring |-> replica'.restoring]
  BY <1>8
<1>10. ReplicaShaped(replica')
  BY <1>6, <1>7, <1>9 DEF ReplicaShaped
<1> QED BY <1>1, <1>2, <1>3, <1>5, <1>9, <1>10 DEF o, s, k

\* The replica's record, field by field.
LEMMA ReplicaFields ==
  ASSUME Shaped
  PROVE  /\ replica = [confirmed |-> replica.confirmed, pending |-> replica.pending,
                       delivered |-> replica.delivered, caughtUp |-> replica.caughtUp,
                       outstanding |-> replica.outstanding, restoring |-> replica.restoring]
         /\ replica.confirmed = [e \in Docs |-> replica.confirmed[e]]
         /\ \A e \in Docs : replica.confirmed[e].seq \in Nat
         /\ replica.pending \in [Docs -> SUBSET Commits] /\ replica.delivered \in [Docs -> Nat]
         /\ replica.caughtUp \in Nat /\ replica.outstanding \subseteq Commits
         /\ replica.restoring \subseteq Commits \cup {Watches}
BY DEF Shaped, ReplicaShaped

\* An accepted commit is promoted, or parked.
LEMMA SettleAcceptEffect ==
  ASSUME IInv, Shaped, NEW n \in Commits, SettleAccept(n)
  PROVE  /\ UNCHANGED <<log, server, toServer, toClient, issued>>
         /\ fate[n] = "accepted" /\ \A m \in Commits : m < n => fate[m] # "accepted"
         /\ \A m \in Commits : m # n => fate'[m] = fate[m]
         /\ replica'.delivered = replica.delivered /\ replica'.caughtUp = replica.caughtUp
         /\ replica'.outstanding = replica.outstanding /\ replica'.restoring = replica.restoring
         /\ ReplicaShaped(replica')
         /\ \/ /\ n <= replica.caughtUp /\ fate'[n] = "applied"
               /\ replica'.confirmed = [d \in Docs |-> Promoted(replica.confirmed[d], d, {n})]
               /\ replica'.pending = [d \in Docs |-> replica.pending[d] \ {n}]
            \/ n > replica.caughtUp /\ fate'[n] = "parked" /\ replica' = replica
<1>1. /\ UNCHANGED <<log, server, toServer, toClient, issued>>
      /\ fate[n] = "accepted" /\ \A m \in 1..(n - 1) : fate[m] # "accepted"
      /\ \/ /\ replica.caughtUp >= n /\ fate' = [fate EXCEPT ![n] = "applied"]
            /\ replica' = Confirmed(replica, {n})
         \/ /\ ~ replica.caughtUp >= n /\ fate' = [fate EXCEPT ![n] = "parked"]
            /\ replica' = replica
  BY DEF SettleAccept, NextAccepted
<1>2. fate \in [Commits -> Fates] /\ replica.caughtUp \in Nat /\ n \in Nat
  BY CommitNumbers, ReplicaFields DEF IInv, Typed
<1>3. \A m \in Commits : m < n => m \in 1..(n - 1)
  BY CommitNumbers
<1>4. \A m \in Commits : m # n => fate'[m] = fate[m]
  BY <1>1, <1>2
<1>5. \A m \in Commits : m < n => fate[m] # "accepted"
  BY <1>1, <1>3
<1>6. CASE /\ replica.caughtUp >= n /\ fate' = [fate EXCEPT ![n] = "applied"]
           /\ replica' = Confirmed(replica, {n})
  <2>1. {n} \in SUBSET Commits /\ \A m \in {n} : Resolved(m)
    BY <1>1 DEF IInv, AcceptedStored
  <2>2. ReplicaShaped(replica)
    BY DEF Shaped
  <2>3. fate'[n] = "applied" /\ n <= replica.caughtUp
    BY <1>2, <1>6
  <2> DEFINE ns == {n}
  <2>4. ns \in SUBSET Commits /\ (\A m \in ns : Resolved(m)) /\ replica' = Confirmed(replica, ns)
    BY <1>6, <2>1
  <2> HIDE DEF ns
  <2>5. /\ ReplicaShaped(replica')
        /\ replica'.confirmed = [d \in Docs |-> Promoted(replica.confirmed[d], d, ns)]
        /\ replica'.pending = [d \in Docs |-> replica.pending[d] \ ns]
        /\ replica'.delivered = replica.delivered /\ replica'.caughtUp = replica.caughtUp
        /\ replica'.outstanding = replica.outstanding /\ replica'.restoring = replica.restoring
    BY <2>2, <2>4, ConfirmedDoes
  <2> QED BY <1>1, <1>4, <1>5, <2>3, <2>5 DEF ns
<1>7. CASE /\ ~ replica.caughtUp >= n /\ fate' = [fate EXCEPT ![n] = "parked"]
           /\ replica' = replica
  <2>1. fate'[n] = "parked" /\ n > replica.caughtUp
    BY <1>2, <1>7
  <2>2. ReplicaShaped(replica')
    BY <1>7 DEF Shaped
  <2> QED BY <1>1, <1>4, <1>5, <1>7, <2>1, <2>2
<1> QED BY <1>1, <1>6, <1>7

\* What a frame brings: the versions that are taken in, the marker the replica
\* then knows, and the parked commits it promotes.
Newer(f, d) == d \in DOMAIN f.upserts /\ f.upserts[d].seq >= replica.confirmed[d].seq

ToldWith(f) == Max({replica.caughtUp, f.marker})

DueWith(f) == {n \in Parked : f.marker > 0 /\ n <= ToldWith(f)}

BaseWith(f, d) == IF Newer(f, d) THEN f.upserts[d] ELSE replica.confirmed[d]

\* A frame arrives.
LEMMA ReceiveFrameEffect ==
  ASSUME IInv, Shaped, ReceiveFrame
  PROVE  LET f == toClient[1]
         IN  /\ UNCHANGED <<log, server, toServer, issued>>
             /\ toClient # <<>> /\ toClient' = Tail(toClient) /\ FrameShaped(f)
             /\ \A n \in Commits : fate'[n] = IF n \in DueWith(f) THEN "applied" ELSE fate[n]
             /\ ToldWith(f) \in {replica.caughtUp, f.marker}
             /\ replica.caughtUp <= ToldWith(f) /\ f.marker <= ToldWith(f)
             /\ \A d \in Docs : BaseWith(f, d).seq \in Nat
             /\ DueWith(f) \in SUBSET Commits /\ \A n \in DueWith(f) : Resolved(n)
             /\ replica'.confirmed = [d \in Docs |-> Promoted(BaseWith(f, d), d, DueWith(f))]
             /\ replica'.pending = [d \in Docs |-> replica.pending[d] \ DueWith(f)]
             /\ replica'.delivered = [d \in Docs |-> IF Newer(f, d) THEN f.upserts[d].seq
                                                     ELSE replica.delivered[d]]
             /\ replica'.caughtUp = ToldWith(f) /\ replica'.outstanding = replica.outstanding
             /\ replica'.restoring = IF f.restores THEN replica.restoring \ {Watches}
                                     ELSE replica.restoring
             /\ ReplicaShaped(replica')
<1> DEFINE f == toClient[1]
           new == {d \in DOMAIN f.upserts : f.upserts[d].seq >= replica.confirmed[d].seq}
           told == ToldWith(f)
           due == DueWith(f)
           conf == [d \in Docs |-> BaseWith(f, d)]
           dlv == [d \in Docs |-> IF Newer(f, d) THEN f.upserts[d].seq ELSE replica.delivered[d]]
           rest == IF f.restores THEN replica.restoring \ {Watches} ELSE replica.restoring
           merged == [confirmed |-> conf, pending |-> replica.pending, delivered |-> dlv,
                      caughtUp |-> told, outstanding |-> replica.outstanding, restoring |-> rest]
<1>1. /\ toClient # <<>> /\ toClient' = Tail(toClient) /\ Head(toClient).type = "frame"
      /\ UNCHANGED <<log, server, toServer, issued>>
  BY DEF ReceiveFrame
<1>2. 1 \in DOMAIN toClient /\ Head(toClient) = f
  BY <1>1, ShrinksIs DEF IInv, Typed
<1>3. FrameShaped(f)
  BY <1>1, <1>2 DEF Shaped, AnswerShaped
<1>4. /\ replica' = Confirmed([replica EXCEPT
                      !.confirmed = [d \in Docs |-> IF d \in new THEN f.upserts[d] ELSE @[d]],
                      !.delivered = [d \in Docs |-> IF d \in new THEN f.upserts[d].seq ELSE @[d]],
                      !.caughtUp = told,
                      !.restoring = IF f.restores THEN @ \ {Watches} ELSE @], due)
      /\ fate' = [n \in Commits |-> IF n \in due THEN "applied" ELSE fate[n]]
  BY <1>2 DEF ReceiveFrame, ToldWith, DueWith
<1>5. /\ conf = [d \in Docs |-> IF d \in new THEN f.upserts[d] ELSE replica.confirmed[d]]
      /\ dlv = [d \in Docs |-> IF d \in new THEN f.upserts[d].seq ELSE replica.delivered[d]]
  BY DEF BaseWith, Newer
<1>6. replica.caughtUp \in Nat /\ f.marker \in Nat
  BY <1>3, ReplicaFields DEF FrameShaped
<1>7. told \in {replica.caughtUp, f.marker} /\ replica.caughtUp <= told /\ f.marker <= told
      /\ told \in Nat
  BY <1>6, MaxOfTwo DEF ToldWith
<1>8. \A d \in Docs : BaseWith(f, d).seq \in Nat
  <2> SUFFICES ASSUME NEW d \in Docs PROVE BaseWith(f, d).seq \in Nat
    OBVIOUS
  <2>1. Newer(f, d) => f.upserts[d].seq \in Nat
    BY <1>3 DEF FrameShaped, Newer
  <2>2. replica.confirmed[d].seq \in Nat
    BY ReplicaFields
  <2> QED BY <2>1, <2>2 DEF BaseWith
<1>9. due \in SUBSET Commits /\ \A n \in due : Resolved(n)
  BY DEF DueWith, Parked, IInv, AcceptedStored
<1>10. dlv \in [Docs -> Nat]
  <2> SUFFICES ASSUME NEW d \in Docs
               PROVE  (IF Newer(f, d) THEN f.upserts[d].seq ELSE replica.delivered[d]) \in Nat
    OBVIOUS
  <2>1. Newer(f, d) => f.upserts[d].seq \in Nat
    BY <1>3 DEF FrameShaped, Newer
  <2>2. replica.delivered[d] \in Nat
    BY ReplicaFields
  <2> QED BY <2>1, <2>2
<1>11. rest \subseteq Commits \cup {Watches}
  BY ReplicaFields
<1>12. replica' = Confirmed(merged, due)
  <2> HIDE DEF new, told, due
  <2>1. [replica EXCEPT
           !.confirmed = [d \in Docs |-> IF d \in new THEN f.upserts[d] ELSE @[d]],
           !.delivered = [d \in Docs |-> IF d \in new THEN f.upserts[d].seq ELSE @[d]],
           !.caughtUp = told,
           !.restoring = IF f.restores THEN @ \ {Watches} ELSE @]
         = [replica EXCEPT !.confirmed = conf, !.delivered = dlv, !.caughtUp = told,
                           !.restoring = rest]
    BY <1>5
  <2> HIDE DEF conf, dlv, rest, f, merged
  <2>2. replica = [confirmed |-> replica.confirmed, pending |-> replica.pending,
                   delivered |-> replica.delivered, caughtUp |-> replica.caughtUp,
                   outstanding |-> replica.outstanding, restoring |-> replica.restoring]
    BY ReplicaFields
  <2>3. PICK r : r = [replica EXCEPT !.confirmed = conf, !.delivered = dlv, !.caughtUp = told,
                                    !.restoring = rest]
    OBVIOUS
  <2>4. r = [confirmed |-> conf, pending |-> replica.pending, delivered |-> dlv,
             caughtUp |-> told, outstanding |-> replica.outstanding, restoring |-> rest]
    BY <2>2, <2>3
  <2> QED BY <1>4, <2>1, <2>3, <2>4 DEF merged
<1>13. conf = [d \in Docs |-> conf[d]] /\ \A d \in Docs : conf[d].seq \in Nat
  BY <1>8
<1>14. replica.pending \in [Docs -> SUBSET Commits] /\ replica.outstanding \subseteq Commits
  BY ReplicaFields
<1> HIDE DEF conf, dlv, rest, f, told, due
<1>15. /\ merged = [confirmed |-> merged.confirmed, pending |-> merged.pending,
                    delivered |-> merged.delivered, caughtUp |-> merged.caughtUp,
                    outstanding |-> merged.outstanding, restoring |-> merged.restoring]
       /\ merged.confirmed = conf /\ merged.pending = replica.pending /\ merged.delivered = dlv
       /\ merged.caughtUp = told /\ merged.outstanding = replica.outstanding
       /\ merged.restoring = rest
  OBVIOUS
<1> HIDE DEF merged
<1>16. ReplicaShaped(merged)
  BY <1>7, <1>10, <1>11, <1>13, <1>14, <1>15 DEF ReplicaShaped
<1>17. /\ ReplicaShaped(replica')
       /\ replica'.confirmed = [d \in Docs |-> Promoted(merged.confirmed[d], d, due)]
       /\ replica'.pending = [d \in Docs |-> merged.pending[d] \ due]
       /\ replica'.delivered = merged.delivered /\ replica'.caughtUp = merged.caughtUp
       /\ replica'.outstanding = merged.outstanding /\ replica'.restoring = merged.restoring
  BY <1>9, <1>12, <1>16, ConfirmedDoes
<1>18. replica'.confirmed = [d \in Docs |-> Promoted(BaseWith(f, d), d, due)]
  BY <1>15, <1>17 DEF conf
<1>19. \A n \in Commits : fate'[n] = IF n \in due THEN "applied" ELSE fate[n]
  BY <1>4
<1>20. /\ replica'.pending = [d \in Docs |-> replica.pending[d] \ due]
       /\ replica'.delivered = dlv /\ replica'.caughtUp = told
       /\ replica'.outstanding = replica.outstanding /\ replica'.restoring = rest
  BY <1>15, <1>17
<1> QED BY <1>1, <1>3, <1>7, <1>8, <1>9, <1>17, <1>18, <1>19, <1>20
        DEF dlv, rest, f, told, due

\* A refused commit's layer goes.
LEMMA DropEffect ==
  ASSUME IInv, Shaped, NEW n \in Commits, Drop(n)
  PROVE  /\ UNCHANGED <<log, server, toServer, toClient, issued>>
         /\ fate[n] \in {"doomed", "repairing", "waiting"} /\ fate'[n] = "rejected"
         /\ \A m \in Commits : m # n =>
              \/ fate'[m] = fate[m]
              \/ fate[m] \in {"queued", "sent"} /\ fate'[m] = "doomed"
         /\ replica'.pending = [d \in Docs |-> replica.pending[d] \ {n}]
         /\ replica'.confirmed = replica.confirmed /\ replica'.delivered = replica.delivered
         /\ replica'.caughtUp = replica.caughtUp /\ replica'.outstanding = replica.outstanding
         /\ replica'.restoring = replica.restoring
         /\ ReplicaShaped(replica')
<1>1. /\ UNCHANGED <<log, server, toServer, toClient, issued>>
      /\ fate[n] \in {"doomed", "repairing", "waiting"}
      /\ fate' = [m \in Commits |-> IF m = n THEN "rejected"
                                    ELSE IF m \in Dependants(n) THEN "doomed" ELSE fate[m]]
      /\ replica' = [replica EXCEPT !.pending = [d \in Docs |-> @[d] \ {n}]]
  BY DEF Drop, Ready
<1>2. /\ fate'[n] = "rejected"
      /\ \A m \in Commits : m # n =>
           \/ fate'[m] = fate[m]
           \/ fate[m] \in {"queued", "sent"} /\ fate'[m] = "doomed"
  BY <1>1 DEF Dependants
<1> DEFINE p == [d \in Docs |-> replica.pending[d] \ {n}]
<1>3. p \in [Docs -> SUBSET Commits] /\ replica' = [replica EXCEPT !.pending = p]
  BY <1>1, ReplicaFields
<1> HIDE DEF p
<1>4. replica' = [confirmed |-> replica.confirmed, pending |-> p,
                  delivered |-> replica.delivered, caughtUp |-> replica.caughtUp,
                  outstanding |-> replica.outstanding, restoring |-> replica.restoring]
  BY <1>3, ReplicaFields
<1>5. /\ replica'.pending = p
      /\ replica'.confirmed = replica.confirmed /\ replica'.delivered = replica.delivered
      /\ replica'.caughtUp = replica.caughtUp /\ replica'.outstanding = replica.outstanding
      /\ replica'.restoring = replica.restoring
      /\ replica' = [confirmed |-> replica'.confirmed, pending |-> replica'.pending,
                     delivered |-> replica'.delivered, caughtUp |-> replica'.caughtUp,
                     outstanding |-> replica'.outstanding, restoring |-> replica'.restoring]
  BY <1>4
<1>6. ReplicaShaped(replica')
  BY <1>3, <1>5, ReplicaFields DEF ReplicaShaped
<1> QED BY <1>1, <1>2, <1>5, <1>6 DEF p

\* A repair frame did not come.
LEMMA RepairTimesOutEffect ==
  ASSUME IInv, Shaped, NEW n \in Commits, RepairTimesOut(n)
  PROVE  /\ UNCHANGED <<log, server, toServer, toClient, issued, replica>>
         /\ fate[n] \in {"repairing", "waiting"} /\ fate'[n] = "doomed"
         /\ \A m \in Commits : m # n => fate'[m] = fate[m]
<1>1. /\ UNCHANGED <<log, server, toServer, toClient, issued, replica>>
      /\ fate[n] \in {"repairing", "waiting"} /\ fate' = [fate EXCEPT ![n] = "doomed"]
  BY DEF RepairTimesOut
<1>2. fate \in [Commits -> Fates]
  BY DEF IInv, Typed
<1> QED BY <1>1, <1>2

\* A session is resumed.
LEMMA ResumeEffect ==
  ASSUME IInv, Shaped, Resume
  PROVE  /\ UNCHANGED <<log, issued, fate>>
         /\ TurnOver /\ replica.restoring = {} /\ toServer' = Resent
         /\ server'.watching = server.watching /\ server'.sent = [d \in Docs |-> HeadSeq(d)]
         /\ server'.dirty = server.dirty /\ server'.origin = server.origin /\ server'.owed = 0
         /\ server'.told \in {server.told, server.owed}
         /\ server.told <= server'.told /\ server.owed <= server'.told
         /\ ServerShaped(server')
         /\ \E f : /\ FrameShaped(f) /\ f.restores = FALSE /\ f.marker = server'.told
                   /\ DOMAIN f.upserts = {d \in Docs : HeadSeq(d) # replica.delivered[d]}
                   /\ \A d \in DOMAIN f.upserts :
                        f.upserts[d].seq = HeadSeq(d) /\ f.upserts[d].val = DocAt(d, Len(log))
                   /\ toClient' = <<f>>
         /\ replica'.restoring = replica.outstanding /\ replica'.outstanding = replica.outstanding
         /\ replica'.pending = replica.pending
         /\ replica'.confirmed = replica.confirmed /\ replica'.delivered = replica.delivered
         /\ replica'.caughtUp = replica.caughtUp
         /\ ReplicaShaped(replica')
<1>0. /\ server = [watching |-> server.watching, sent |-> server.sent, dirty |-> server.dirty,
                   origin |-> server.origin, owed |-> server.owed, told |-> server.told]
      /\ server.watching \in BOOLEAN /\ server.sent \in [Docs -> Nat] /\ server.dirty \subseteq Docs
      /\ server.origin = [e \in Docs |-> server.origin[e]] /\ server.owed \in Nat /\ server.told \in Nat
      /\ IsSeq(log) /\ IsSeq(toServer)
  BY DEF Shaped, ServerShaped, IInv, Typed
<1>1. \A d : HeadSeq(d) \in Nat
  BY <1>0, HeadSeqIs
<1> DEFINE ups == {d \in Docs : HeadSeq(d) # replica.delivered[d]}
           t == Max({server.told, server.owed})
           f == Frame(Snapshot(ups), t, FALSE)
           sent == [d \in Docs |-> HeadSeq(d)]
           o == replica.outstanding
<1>2. t \in {server.told, server.owed} /\ server.told <= t /\ server.owed <= t /\ t \in Nat
  BY <1>0, MaxOfTwo
<1>3. /\ UNCHANGED <<log, issued, fate>> /\ toClient' = <<f>> /\ toServer' = Resent
      /\ TurnOver /\ replica.restoring = {}
      /\ server' = [server EXCEPT !.sent = sent, !.told = Max({@, server.owed}), !.owed = 0]
      /\ replica' = [replica EXCEPT !.restoring = @ \cup replica.outstanding]
  BY DEF Resume, Lose
<1>4. server' = [server EXCEPT !.sent = sent, !.told = t, !.owed = 0]
  BY <1>3
<1>5. replica' = [replica EXCEPT !.restoring = o]
  BY <1>3
<1>6. /\ f.type = "frame" /\ f.marker = t /\ f.restores = FALSE
      /\ DOMAIN f.upserts = ups
      /\ \A d \in ups : f.upserts[d].seq = HeadSeq(d) /\ f.upserts[d].val = DocAt(d, Len(log))
  BY DEF Frame, Snapshot
<1>7. ups \subseteq Docs /\ sent \in [Docs -> Nat] /\ o \subseteq Commits
  BY <1>1, ReplicaFields
<1> HIDE DEF f, sent, ups, t, o
<1>8. server' = [watching |-> server.watching, sent |-> sent, dirty |-> server.dirty,
                 origin |-> server.origin, owed |-> 0, told |-> t]
  BY <1>0, <1>4
<1>9. /\ server'.watching = server.watching /\ server'.sent = sent /\ server'.dirty = server.dirty
      /\ server'.origin = server.origin /\ server'.owed = 0 /\ server'.told = t
      /\ server' = [watching |-> server'.watching, sent |-> server'.sent, dirty |-> server'.dirty,
                    origin |-> server'.origin, owed |-> server'.owed, told |-> server'.told]
  BY <1>8
<1>10. ServerShaped(server')
  BY <1>0, <1>2, <1>7, <1>9 DEF ServerShaped
<1>11. FrameShaped(f)
  BY <1>1, <1>2, <1>6, <1>7 DEF FrameShaped
<1>12. replica' = [confirmed |-> replica.confirmed, pending |-> replica.pending,
                   delivered |-> replica.delivered, caughtUp |-> replica.caughtUp,
                   outstanding |-> replica.outstanding, restoring |-> o]
  BY <1>5, ReplicaFields
<1>13. /\ replica'.restoring = o /\ replica'.outstanding = replica.outstanding
       /\ replica'.pending = replica.pending
       /\ replica'.confirmed = replica.confirmed /\ replica'.delivered = replica.delivered
       /\ replica'.caughtUp = replica.caughtUp
       /\ replica' = [confirmed |-> replica'.confirmed, pending |-> replica'.pending,
                      delivered |-> replica'.delivered, caughtUp |-> replica'.caughtUp,
                      outstanding |-> replica'.outstanding, restoring |-> replica'.restoring]
  BY <1>12
<1>14. ReplicaShaped(replica')
  BY <1>7, <1>13, ReplicaFields DEF ReplicaShaped
<1> QED BY <1>2, <1>3, <1>6, <1>9, <1>10, <1>11, <1>13, <1>14 DEF sent, ups, o

\* A session is replaced.
LEMMA ReplaceEffect ==
  ASSUME IInv, Shaped, Replace
  PROVE  /\ UNCHANGED <<log, issued>>
         /\ TurnOver /\ replica.restoring = {} /\ toClient' = <<>>
         /\ \E w : w.type = "watch" /\ w.holdings = replica.delivered /\ toServer' = Append(Resent, w)
         /\ server'.watching = FALSE /\ server'.owed = 0 /\ server'.told = 0
         /\ ServerShaped(server')
         /\ \A n \in Commits : \/ fate[n] = "parked" /\ fate'[n] = "applied"
                               \/ fate[n] = "repairing" /\ fate'[n] = "doomed"
                               \/ fate[n] \notin {"parked", "repairing"} /\ fate'[n] = fate[n]
         /\ Parked \in SUBSET Commits /\ \A n \in Parked : Resolved(n)
         /\ replica'.confirmed = [d \in Docs |-> Promoted(replica.confirmed[d], d, Parked)]
         /\ replica'.pending = [d \in Docs |-> replica.pending[d] \ Parked]
         /\ replica'.restoring = {Watches} \cup replica.outstanding
         /\ replica'.outstanding = replica.outstanding
         /\ replica'.delivered = replica.delivered /\ replica'.caughtUp = replica.caughtUp
         /\ ReplicaShaped(replica')
<1>1. /\ UNCHANGED <<log, issued>> /\ TurnOver /\ replica.restoring = {} /\ toClient' = <<>>
      /\ server' = [server EXCEPT !.watching = FALSE, !.owed = 0, !.told = 0]
      /\ toServer' = Append(Resent, [type |-> "watch", holdings |-> replica.delivered])
      /\ replica' = [Confirmed(replica, Parked) EXCEPT !.restoring = {Watches} \cup replica.outstanding]
      /\ fate' = [n \in Commits |-> CASE fate[n] = "parked" -> "applied"
                                      [] fate[n] = "repairing" -> "doomed"
                                      [] OTHER -> fate[n]]
  BY DEF Replace, Lose
<1>2. \E w : w.type = "watch" /\ w.holdings = replica.delivered /\ toServer' = Append(Resent, w)
  <2> DEFINE w == [type |-> "watch", holdings |-> replica.delivered]
  <2>1. w.type = "watch" /\ w.holdings = replica.delivered
    OBVIOUS
  <2>2. toServer' = Append(Resent, w)
    BY <1>1
  <2> HIDE DEF w
  <2> QED BY <2>1, <2>2
<1>3. \A n \in Commits : \/ fate[n] = "parked" /\ fate'[n] = "applied"
                         \/ fate[n] = "repairing" /\ fate'[n] = "doomed"
                         \/ fate[n] \notin {"parked", "repairing"} /\ fate'[n] = fate[n]
  BY <1>1
<1>4. Parked \in SUBSET Commits /\ \A n \in Parked : Resolved(n)
  BY DEF Parked, IInv, AcceptedStored
<1>5. /\ server = [watching |-> server.watching, sent |-> server.sent, dirty |-> server.dirty,
                   origin |-> server.origin, owed |-> server.owed, told |-> server.told]
      /\ server.watching \in BOOLEAN /\ server.sent \in [Docs -> Nat] /\ server.dirty \subseteq Docs
      /\ server.origin = [e \in Docs |-> server.origin[e]]
  BY DEF Shaped, ServerShaped
<1>6. server' = [watching |-> FALSE, sent |-> server.sent, dirty |-> server.dirty,
                 origin |-> server.origin, owed |-> 0, told |-> 0]
  BY <1>1, <1>5
<1>7. /\ server'.watching = FALSE /\ server'.sent = server.sent /\ server'.dirty = server.dirty
      /\ server'.origin = server.origin /\ server'.owed = 0 /\ server'.told = 0
      /\ server' = [watching |-> server'.watching, sent |-> server'.sent, dirty |-> server'.dirty,
                    origin |-> server'.origin, owed |-> server'.owed, told |-> server'.told]
  BY <1>6
<1>8. ServerShaped(server')
  <2>1. server'.watching \in BOOLEAN
    <3>1. server'.watching = FALSE
      BY <1>7
    <3> QED BY <3>1, Zenon
  <2> QED BY <1>5, <1>7, <2>1 DEF ServerShaped
<1> DEFINE c == Confirmed(replica, Parked)
           s == {Watches} \cup replica.outstanding
<1>9. ReplicaShaped(replica)
  BY DEF Shaped
<1>10. /\ ReplicaShaped(c)
       /\ c.confirmed = [d \in Docs |-> Promoted(replica.confirmed[d], d, Parked)]
       /\ c.pending = [d \in Docs |-> replica.pending[d] \ Parked]
       /\ c.delivered = replica.delivered /\ c.caughtUp = replica.caughtUp
       /\ c.outstanding = replica.outstanding
  BY <1>4, <1>9, ConfirmedDoes
<1>11. s \subseteq Commits \cup {Watches} /\ replica' = [c EXCEPT !.restoring = s]
  BY <1>1, ReplicaFields
<1> HIDE DEF c, s
<1>12. /\ c = [confirmed |-> c.confirmed, pending |-> c.pending,
               delivered |-> c.delivered, caughtUp |-> c.caughtUp,
               outstanding |-> c.outstanding, restoring |-> c.restoring]
       /\ c.confirmed = [d \in Docs |-> c.confirmed[d]] /\ \A d \in Docs : c.confirmed[d].seq \in Nat
       /\ c.pending \in [Docs -> SUBSET Commits] /\ c.delivered \in [Docs -> Nat]
       /\ c.caughtUp \in Nat /\ c.outstanding \subseteq Commits
  BY <1>10 DEF ReplicaShaped
<1>13. replica' = [confirmed |-> c.confirmed, pending |-> c.pending,
                   delivered |-> c.delivered, caughtUp |-> c.caughtUp,
                   outstanding |-> c.outstanding, restoring |-> s]
  BY <1>11, <1>12
<1>14. /\ replica'.confirmed = c.confirmed /\ replica'.pending = c.pending
       /\ replica'.delivered = c.delivered /\ replica'.caughtUp = c.caughtUp
       /\ replica'.outstanding = c.outstanding /\ replica'.restoring = s
       /\ replica' = [confirmed |-> replica'.confirmed, pending |-> replica'.pending,
                      delivered |-> replica'.delivered, caughtUp |-> replica'.caughtUp,
                      outstanding |-> replica'.outstanding, restoring |-> replica'.restoring]
  BY <1>13
<1>15. ReplicaShaped(replica')
  BY <1>11, <1>12, <1>14 DEF ReplicaShaped
<1> QED BY <1>1, <1>2, <1>3, <1>4, <1>7, <1>8, <1>10, <1>14, <1>15 DEF s

Settled(n) == fate[n] \in {"applied", "rejected"}

\* The layers of the commits that settle go.
LEMMA LayersKept ==
  ASSUME Typed, Shaped, issued' = issued, NEW ns,
         \/ replica'.pending = [d \in Docs |-> replica.pending[d] \ ns]
         \/ ns = {} /\ replica'.pending = replica.pending,
         \A n \in Commits : Settled(n)' <=> Settled(n) \/ n \in ns
  PROVE  LayersStand'
<1> SUFFICES ASSUME NEW d \in Docs
             PROVE  replica'.pending[d] =
                      {n \in 1..Len(issued) : issued[n].doc = d /\ ~ Settled(n)'}
  BY DEF LayersStand, Settled
<1>1. replica.pending[d] = {n \in 1..Len(issued) : issued[n].doc = d /\ ~ Settled(n)}
  BY DEF Shaped, LayersStand, Settled
<1>2. 1..Len(issued) \subseteq Commits
  BY IssuedAre
<1>3. replica'.pending[d] = replica.pending[d] \ ns
  OBVIOUS
<1> QED BY <1>1, <1>2, <1>3

\* The store and what is issued as they were.
LEMMA StoreShapedKept ==
  ASSUME Shaped, log' = log, issued' = issued
  PROVE  RowsTrue' /\ \A n \in 1..Len(issued') : CommitShaped(n)'
<1>1. RowsTrue'
  BY DEF Shaped, RowsTrue, DocAt, HeadAt, Op
<1>2. ASSUME NEW n \in 1..Len(issued') PROVE CommitShaped(n)'
  <2>1. CommitShaped(n)
    BY DEF Shaped
  <2> QED BY <2>1 DEF CommitShaped
<1> QED BY <1>1, <1>2

\* A request more, one less, or all of them sent again.
LEMMA RequestsShaped ==
  ASSUME IInv, Shaped, NEW a, RequestShaped(a),
         \/ toServer' = toServer \/ toServer' = Append(toServer, a)
         \/ toServer # <<>> /\ toServer' = Tail(toServer)
         \/ toServer' = Resent \/ toServer' = Append(Resent, a)
  PROVE  \A i \in DOMAIN toServer' : RequestShaped(toServer'[i])
<1>0. IsSeq(toServer) /\ \A i \in DOMAIN toServer : RequestShaped(toServer[i])
  BY DEF IInv, Typed, Shaped
<1>1. CASE toServer' = Append(toServer, a)
  BY <1>0, <1>1, GrowsIs
<1>2. CASE toServer # <<>> /\ toServer' = Tail(toServer)
  BY <1>0, <1>2, ShrinksIs
<1> DEFINE R == Resent
<1>3. IsSeq(R) /\ \A i \in DOMAIN R : RequestShaped(R[i])
  BY ResentIs DEF IInv, RequestShaped
<1>4. CASE toServer' = Resent
  BY <1>3, <1>4
<1>5. CASE toServer' = Append(Resent, a)
  <2> HIDE DEF R
  <2>1. toServer' = Append(R, a)
    BY <1>5 DEF R
  <2> QED BY <1>3, <2>1, GrowsIs
<1> QED BY <1>0, <1>1, <1>2, <1>4, <1>5

\* A step that issues and stores nothing keeps the shapes.
LEMMA ShapedKept ==
  ASSUME IInv, Shaped, log' = log, issued' = issued,
         ServerShaped(server'), ReplicaShaped(replica'),
         \A i \in DOMAIN toClient' : AnswerShaped(toClient'[i]),
         \A i \in DOMAIN toServer' : RequestShaped(toServer'[i]),
         NEW ns,
         \/ replica'.pending = [d \in Docs |-> replica.pending[d] \ ns]
         \/ ns = {} /\ replica'.pending = replica.pending,
         \A n \in Commits : Settled(n)' <=> Settled(n) \/ n \in ns
  PROVE  Shaped'
<1>1. LayersStand'
  BY LayersKept DEF IInv
<1>2. RowsTrue' /\ \A n \in 1..Len(issued') : CommitShaped(n)'
  BY StoreShapedKept
<1>3. ServerShaped(server)' /\ ReplicaShaped(replica)'
  BY DEF ServerShaped, ReplicaShaped
<1>4. (\A i \in DOMAIN toClient : AnswerShaped(toClient[i]))'
  BY DEF AnswerShaped, FrameShaped
<1>5. (\A i \in DOMAIN toServer : RequestShaped(toServer[i]))'
  BY DEF RequestShaped
<1> QED BY <1>1, <1>2, <1>3, <1>4, <1>5 DEF Shaped

\* A row more.
LEMMA RowsGrow ==
  ASSUME IInv, Shaped, issued' = issued, NEW row, log' = Append(log, row),
         row.doc \in Docs,
         \/ row.by = Foreign
         \/ /\ row.by \in 1..Len(issued) /\ row.doc = issued[row.by].doc
            /\ row.val = Applied(DocAt(row.doc, Len(log)), Op(row.by), row.by)
  PROVE  RowsTrue'
<1>1. /\ \A q \in DOMAIN log : q \in DOMAIN log' /\ log'[q] = log[q]
      /\ DOMAIN log' = DOMAIN log \cup {Len(log) + 1} /\ log'[Len(log) + 1] = row
      /\ Len(log') = Len(log) + 1 /\ Len(log) \in Nat /\ DOMAIN log = 1..Len(log)
      /\ \A d, q : q \in 0..Len(log) => DocAt(d, q)' = DocAt(d, q)
  BY PastStays DEF IInv, Typed
<1>2. RowsTrue /\ 1..Len(issued) \subseteq Commits
  BY IssuedAre DEF Shaped, IInv
<1>3. ASSUME NEW q \in DOMAIN log' PROVE log'[q].doc \in Docs /\ log'[q].by \in {Foreign} \cup Commits
  BY <1>1, <1>2 DEF RowsTrue
<1>4. SUFFICES ASSUME NEW q \in DOMAIN log', NEW d \in Docs, NEW n \in Commits,
                      log'[q].doc = d, log'[q].by = n
               PROVE  /\ n <= Len(issued) /\ issued[n].doc = d
                      /\ log'[q].val = Applied(DocAt(d, q - 1)', Op(n), n)
  BY <1>3 DEF RowsTrue, Op
<1>5. q - 1 \in 0..Len(log)
  BY <1>1
<1>6. DocAt(d, q - 1)' = DocAt(d, q - 1)
  BY <1>1, <1>5
<1>7. CASE q \in DOMAIN log
  <2>1. log[q] = log'[q] /\ log[q].doc = d /\ log[q].by = n
    BY <1>1, <1>4, <1>7
  <2>2. /\ n <= Len(issued) /\ issued[n].doc = d
        /\ log[q].val = Applied(DocAt(d, q - 1), Op(n), n)
    BY <1>2, <1>7, <2>1 DEF RowsTrue
  <2> QED BY <1>6, <2>1, <2>2
<1>8. CASE q = Len(log) + 1
  <2>1. q - 1 = Len(log) /\ row.doc = d /\ row.by = n
    BY <1>1, <1>4, <1>8
  <2>2. n # Foreign
    BY CommitNumbers
  <2>3. n \in 1..Len(issued) /\ d = issued[n].doc /\ row.val = Applied(DocAt(d, Len(log)), Op(n), n)
    BY <2>1, <2>2
  <2>4. n <= Len(issued)
    BY <2>3, IssuedAre DEF IInv
  <2> QED BY <1>1, <1>6, <1>8, <2>1, <2>3, <2>4
<1> QED BY <1>1, <1>7, <1>8

\* An answer of some kind, for the steps that send none.
LEMMA SomeShapes ==
  /\ \E a : AnswerShaped(a)
  /\ \E r : RequestShaped(r)
<1>1. [type |-> "verdict"].type = "verdict" /\ [type |-> "commit"].type = "commit"
  OBVIOUS
<1> QED BY <1>1 DEF AnswerShaped, RequestShaped

\* The layers as they were.
LEMMA LayersSame ==
  ASSUME Typed, Shaped, issued' = issued, replica'.pending = replica.pending,
         \A n \in Commits : Settled(n)' <=> Settled(n)
  PROVE  LayersStand'
<1> DEFINE ns == {}
<1>1. ns = {} /\ \A n \in Commits : Settled(n)' <=> Settled(n) \/ n \in ns
  OBVIOUS
<1> HIDE DEF ns
<1> QED BY <1>1, LayersKept

\* What a commit carries of a document it read.
LEMMA ReadOfIs ==
  ASSUME NEW e
  PROVE  /\ ReadOf(e).basis = replica.confirmed[e].seq /\ ReadOf(e).layers = replica.pending[e]
         /\ ReadOf(e).seen = View(e)
BY DEF ReadOf

\* Every step keeps the shapes.
LEMMA ShapedStep ==
  ASSUME IInv, Shaped, [Next]_vars
  PROVE  Shaped'
<1>0. /\ IsSeq(toClient) /\ (\A i \in DOMAIN toClient : AnswerShaped(toClient[i]))
      /\ ServerShaped(server) /\ ReplicaShaped(replica)
      /\ LayersStand /\ RowsTrue /\ IsSeq(log)
      /\ \A n \in 1..Len(issued) : CommitShaped(n)
  BY DEF IInv, Typed, Shaped
<1>a. PICK a0 : AnswerShaped(a0)
  BY SomeShapes
<1>r. PICK r0 : RequestShaped(r0)
  BY SomeShapes
<1> DEFINE Answers == \A i \in DOMAIN toClient' : AnswerShaped(toClient'[i])
           Requests == \A i \in DOMAIN toServer' : RequestShaped(toServer'[i])
<1>b. toClient' = toClient \/ (toClient # <<>> /\ toClient' = Tail(toClient)) \/ toClient' = <<>> => Answers
  BY <1>0, <1>a, AnswersShaped
<1>c. \A a : AnswerShaped(a) /\ (toClient' = Append(toClient, a) \/ toClient' = <<a>>) => Answers
  BY <1>0, AnswersShaped
<1>d. toServer' = toServer \/ (toServer # <<>> /\ toServer' = Tail(toServer)) \/ toServer' = Resent => Requests
  BY <1>r, RequestsShaped
<1>e. \A a : RequestShaped(a) /\ (toServer' = Append(toServer, a) \/ toServer' = Append(Resent, a)) => Requests
  BY RequestsShaped
<1> HIDE DEF Answers, Requests
<1>f. ASSUME log' = log, issued' = issued, Answers, Requests,
             ServerShaped(server'), ReplicaShaped(replica'), NEW ns,
             \/ replica'.pending = [d \in Docs |-> replica.pending[d] \ ns]
             \/ ns = {} /\ replica'.pending = replica.pending,
             \A n \in Commits : Settled(n)' <=> Settled(n) \/ n \in ns
      PROVE  Shaped'
  BY <1>f, ShapedKept DEF Answers, Requests
<1>g. ASSUME log' = log, issued' = issued, Answers, Requests,
             ServerShaped(server'), ReplicaShaped(replica'), replica'.pending = replica.pending,
             \A n \in Commits : Settled(n)' <=> Settled(n)
      PROVE  Shaped'
  <2> DEFINE ns == {}
  <2>1. ns = {} /\ \A n \in Commits : Settled(n)' <=> Settled(n) \/ n \in ns
    BY <1>g
  <2> HIDE DEF ns
  <2> QED BY <1>f, <1>g, <2>1
<1>1. CASE Decide
  <2> DEFINE n == toServer[1].n
  <2>0. /\ UNCHANGED <<issued, fate, replica>>
        /\ toServer # <<>> /\ toServer' = Tail(toServer)
        /\ n \in 1..Len(issued) /\ ServerShaped(server')
        /\ \E a : a.type = "verdict" /\ a.n = n /\ toClient' = Append(toClient, a)
        /\ \/ log' = log
           \/ \E row : /\ log' = Append(log, row)
                       /\ row.doc = issued[n].doc /\ row.by = n
                       /\ row.val = Applied(DocAt(row.doc, Len(log)), Op(n), n)
    BY <1>1, DecideEffect
  <2>1. Answers /\ Requests
    BY <1>c, <1>d, <2>0 DEF AnswerShaped
  <2>2. RowsTrue'
    <3>1. CASE log' = log
      BY <2>0, <3>1, StoreShapedKept
    <3>2. CASE log' # log
      <4> HIDE DEF n
      <4>1. PICK row : /\ log' = Append(log, row)
                       /\ row.doc = issued[n].doc /\ row.by = n
                       /\ row.val = Applied(DocAt(row.doc, Len(log)), Op(n), n)
        BY <2>0, <3>2
      <4>2. row.doc \in Docs
        BY <1>0, <2>0, <4>1 DEF CommitShaped
      <4> QED BY <2>0, <4>1, <4>2, RowsGrow
    <3> QED BY <3>1, <3>2
  <2>3. LayersStand'
    <3>1. \A m \in Commits : Settled(m)' <=> Settled(m)
      BY <2>0 DEF Settled
    <3>2. replica'.pending = replica.pending
      BY <2>0
    <3> QED BY <2>0, <3>1, <3>2, LayersSame DEF IInv
  <2>4. \A m \in 1..Len(issued') : CommitShaped(m)'
    BY <1>0, <2>0 DEF CommitShaped
  <2>5. ReplicaShaped(replica)' /\ ServerShaped(server)'
    BY <1>0, <2>0 DEF ReplicaShaped, ServerShaped
  <2>6. (\A i \in DOMAIN toClient : AnswerShaped(toClient[i]))' /\ (\A i \in DOMAIN toServer : RequestShaped(toServer[i]))'
    BY <2>1 DEF Answers, Requests, AnswerShaped, FrameShaped, RequestShaped
  <2> QED BY <2>2, <2>3, <2>4, <2>5, <2>6 DEF Shaped
<1>2. CASE Flush
  <2>1. /\ UNCHANGED <<log, toServer, issued, fate, replica>> /\ ServerShaped(server')
        /\ \E f : FrameShaped(f) /\ (toClient' = Append(toClient, f) \/ toClient' = toClient)
    BY <1>2, FlushEffect
  <2>2. Answers /\ Requests
    BY <1>b, <1>c, <1>d, <2>1 DEF AnswerShaped
  <2>3. \A m \in Commits : Settled(m)' <=> Settled(m)
    BY <2>1 DEF Settled
  <2>4. replica' = replica /\ replica'.pending = replica.pending
    BY <2>1
  <2> QED BY <1>0, <1>g, <2>1, <2>2, <2>3, <2>4
<1>3. CASE SetWatches
  <2>1. /\ UNCHANGED <<log, issued, fate, replica>> /\ ServerShaped(server')
        /\ toServer # <<>> /\ toServer' = Tail(toServer)
        /\ \E f : FrameShaped(f) /\ toClient' = Append(toClient, f)
    BY <1>3, SetWatchesEffect
  <2>2. Answers /\ Requests
    BY <1>b, <1>c, <1>d, <2>1 DEF AnswerShaped
  <2>3. \A m \in Commits : Settled(m)' <=> Settled(m)
    BY <2>1 DEF Settled
  <2>4. replica' = replica /\ replica'.pending = replica.pending
    BY <2>1
  <2> QED BY <1>0, <1>g, <2>1, <2>2, <2>3, <2>4
<1>4. CASE ReceiveVerdict
  <2>1. /\ UNCHANGED <<log, server, toServer, issued>> /\ ReplicaShaped(replica')
        /\ toClient # <<>> /\ toClient' = Tail(toClient) /\ toClient[1].n \in Commits
        /\ replica'.pending = replica.pending
        /\ \A m \in Commits : m # toClient[1].n => fate'[m] = fate[m]
        /\ \/ fate' = fate
           \/ fate[toClient[1].n] = "sent" /\ fate'[toClient[1].n] \in {"accepted", "repairing"}
    BY <1>4, ReceiveVerdictEffect
  <2>2. Answers /\ Requests
    BY <1>b, <1>d, <2>1
  <2>3. \A m \in Commits : Settled(m)' <=> Settled(m)
    BY <2>1 DEF Settled
  <2> QED BY <1>0, <1>g, <2>1, <2>2, <2>3
<1>5. CASE ReceiveFrame
  <2> DEFINE due == DueWith(toClient[1])
  <2>1. /\ UNCHANGED <<log, server, toServer, issued>> /\ ReplicaShaped(replica')
        /\ toClient # <<>> /\ toClient' = Tail(toClient)
        /\ replica'.pending = [d \in Docs |-> replica.pending[d] \ due]
        /\ \A n \in Commits : fate'[n] = IF n \in due THEN "applied" ELSE fate[n]
    BY <1>5, ReceiveFrameEffect
  <2> HIDE DEF due
  <2>2. Answers /\ Requests
    BY <1>b, <1>d, <2>1
  <2>3. \A m \in Commits : Settled(m)' <=> Settled(m) \/ m \in due
    BY <2>1 DEF Settled
  <2> QED BY <1>0, <1>f, <2>1, <2>2, <2>3
<1>6. ASSUME NEW n \in Commits, Send(n) PROVE Shaped'
  <2>1. /\ UNCHANGED <<log, server, toClient, issued>> /\ fate[n] = "queued"
        /\ \A m \in Commits : m # n => fate'[m] = fate[m]
        /\ fate'[n] \in {"waiting", "sent"}
        /\ replica'.pending = replica.pending /\ ReplicaShaped(replica')
        /\ \/ toServer' = toServer
           \/ \E a : a.type = "commit" /\ toServer' = Append(toServer, a)
    BY <1>0, <1>6, SendEffect
  <2>2. Answers /\ Requests
    BY <1>b, <1>d, <1>e, <2>1 DEF RequestShaped
  <2>3. \A m \in Commits : Settled(m)' <=> Settled(m)
    BY <2>1 DEF Settled
  <2> QED BY <1>0, <1>g, <2>1, <2>2, <2>3
<1>7. ASSUME NEW n \in Commits, SettleAccept(n) PROVE Shaped'
  <2>1. /\ UNCHANGED <<log, server, toServer, toClient, issued>>
        /\ fate[n] = "accepted" /\ \A m \in Commits : m # n => fate'[m] = fate[m]
        /\ ReplicaShaped(replica')
        /\ \/ /\ fate'[n] = "applied"
              /\ replica'.pending = [d \in Docs |-> replica.pending[d] \ {n}]
           \/ fate'[n] = "parked" /\ replica'.pending = replica.pending
    BY <1>7, SettleAcceptEffect
  <2>2. Answers /\ Requests
    BY <1>b, <1>d, <2>1
  <2>3. CASE fate'[n] = "applied"
    <3>1. \A m \in Commits : Settled(m)' <=> Settled(m) \/ m \in {n}
      BY <2>1, <2>3 DEF Settled
    <3>2. replica'.pending = [d \in Docs |-> replica.pending[d] \ {n}]
      BY <2>1, <2>3
    <3> QED BY <1>0, <1>f, <2>1, <2>2, <3>1, <3>2
  <2>4. CASE fate'[n] = "parked"
    <3>1. \A m \in Commits : Settled(m)' <=> Settled(m)
      BY <2>1, <2>4 DEF Settled
    <3>2. replica'.pending = replica.pending
      BY <2>1, <2>4
    <3> QED BY <1>0, <1>g, <2>1, <2>2, <3>1, <3>2
  <2> QED BY <2>1, <2>3, <2>4
<1>8. ASSUME NEW n \in Commits, Drop(n) PROVE Shaped'
  <2>1. /\ UNCHANGED <<log, server, toServer, toClient, issued>>
        /\ fate[n] \in {"doomed", "repairing", "waiting"} /\ fate'[n] = "rejected"
        /\ \A m \in Commits : m # n =>
             \/ fate'[m] = fate[m]
             \/ fate[m] \in {"queued", "sent"} /\ fate'[m] = "doomed"
        /\ replica'.pending = [d \in Docs |-> replica.pending[d] \ {n}]
        /\ ReplicaShaped(replica')
    BY <1>8, DropEffect
  <2>2. Answers /\ Requests
    BY <1>b, <1>d, <2>1
  <2>3. \A m \in Commits : Settled(m)' <=> Settled(m) \/ m \in {n}
    BY <2>1 DEF Settled
  <2> QED BY <1>0, <1>f, <2>1, <2>2, <2>3
<1>9. ASSUME NEW d \in Docs, NEW op, CommitForeign(d, op) PROVE Shaped'
  <2>1. /\ UNCHANGED <<toServer, toClient, issued, fate, replica>> /\ ServerShaped(server')
        /\ \E row : log' = Append(log, row) /\ row.doc = d /\ row.by = Foreign
    BY <1>9, ForeignEffect
  <2>2. Answers /\ Requests
    BY <1>b, <1>d, <2>1
  <2>3. RowsTrue'
    BY <2>1, RowsGrow
  <2>4. LayersStand'
    <3>1. \A m \in Commits : Settled(m)' <=> Settled(m)
      BY <2>1 DEF Settled
    <3>2. replica'.pending = replica.pending
      BY <2>1
    <3> QED BY <2>1, <3>1, <3>2, LayersSame DEF IInv
  <2>5. \A m \in 1..Len(issued') : CommitShaped(m)'
    BY <1>0, <2>1 DEF CommitShaped
  <2>6. ReplicaShaped(replica)' /\ ServerShaped(server)'
    BY <1>0, <2>1 DEF ReplicaShaped, ServerShaped
  <2>7. (\A i \in DOMAIN toClient : AnswerShaped(toClient[i]))' /\ (\A i \in DOMAIN toServer : RequestShaped(toServer[i]))'
    BY <2>2 DEF Answers, Requests, AnswerShaped, FrameShaped, RequestShaped
  <2> QED BY <2>3, <2>4, <2>5, <2>6, <2>7 DEF Shaped
<1>10. ASSUME NEW d \in Docs, NEW op, NEW docs \in SUBSET Docs, Issue(d, op, docs) PROVE Shaped'
  <2>0. PICK n : n = Len(issued) + 1
    OBVIOUS
  <2>1. /\ UNCHANGED <<log, server, toServer, toClient>>
        /\ n \in Commits /\ n \notin 1..Len(issued) /\ fate'[n] = "queued"
        /\ \A m \in Commits : m # n => fate'[m] = fate[m]
        /\ Len(issued') = n /\ \A m \in 1..Len(issued) : issued'[m] = issued[m]
        /\ issued'[n].doc = d /\ DOMAIN issued'[n].reads = docs
        /\ \A e \in docs : issued'[n].reads[e] = ReadOf(e)
        /\ replica'.pending = [replica.pending EXCEPT ![d] = @ \cup {n}]
        /\ ReplicaShaped(replica')
    BY <1>10, <2>0, IssueEffect
  <2>2. Answers /\ Requests
    BY <1>b, <1>d, <2>1
  <2>3. Len(issued) \in Nat /\ 1..Len(issued) \subseteq Commits /\ n \in Nat
        /\ \A m \in 1..n : m \in 1..Len(issued) \/ m = n
    BY <2>0, IssuedAre DEF IInv
  <2>a. n - 1 = Len(issued)
    BY <2>0, <2>3
  <2>4. LayersStand'
    <3>1. SUFFICES ASSUME NEW e \in Docs
                   PROVE  replica'.pending[e] =
                            {m \in 1..n : issued'[m].doc = e /\ fate'[m] \notin {"applied", "rejected"}}
      BY <2>1 DEF LayersStand
    <3>2. replica.pending[e] = {m \in 1..Len(issued) : issued[m].doc = e /\ fate[m] \notin {"applied", "rejected"}}
      BY <1>0 DEF LayersStand
    <3>3. replica'.pending[e] = IF e = d THEN replica.pending[e] \cup {n} ELSE replica.pending[e]
      BY <2>1, ReplicaFields
    <3>4. \A m \in 1..Len(issued) : issued'[m] = issued[m] /\ fate'[m] = fate[m] /\ m \in 1..n
      BY <2>1, <2>3, <2>a
    <3>5. n \in 1..n
      BY <2>1, <2>3, CommitNumbers
    <3> QED BY <2>1, <2>3, <3>2, <3>3, <3>4, <3>5
  <2>5. RowsTrue'
    <3>0. SUFFICES ASSUME NEW q \in DOMAIN log
                   PROVE  /\ log[q].doc \in Docs /\ log[q].by \in {Foreign} \cup Commits
                          /\ \A e \in Docs, m \in Commits : log[q].doc = e /\ log[q].by = m =>
                               /\ m <= n /\ issued'[m].doc = e
                               /\ log[q].val = Applied(DocAt(e, q - 1), issued'[m].op, m)
      BY <2>1 DEF RowsTrue, Op, DocAt, HeadAt
    <3>1. log[q].doc \in Docs /\ log[q].by \in {Foreign} \cup Commits
      BY <1>0 DEF RowsTrue
    <3>2. ASSUME NEW e \in Docs, NEW m \in Commits, log[q].doc = e, log[q].by = m
          PROVE  /\ m <= n /\ issued'[m].doc = e
                 /\ log[q].val = Applied(DocAt(e, q - 1), issued'[m].op, m)
      <4>1. /\ m <= Len(issued) /\ issued[m].doc = e
            /\ log[q].val = Applied(DocAt(e, q - 1), issued[m].op, m)
        BY <1>0, <3>2 DEF RowsTrue, Op
      <4>2. m \in 1..Len(issued) /\ m <= n
        BY <2>3, <2>a, <4>1, CommitNumbers
      <4>3. issued'[m] = issued[m]
        BY <2>1, <4>2
      <4> QED BY <4>1, <4>2, <4>3
    <3> QED BY <3>1, <3>2
  <2>6. \A m \in 1..Len(issued') : CommitShaped(m)'
    <3>1. ASSUME NEW m \in 1..Len(issued) PROVE CommitShaped(m)'
      <4>1. CommitShaped(m) /\ issued'[m] = issued[m]
        BY <1>0, <2>1
      <4>2. \A k \in 1..(m - 1) : issued'[k] = issued[k]
        BY <2>1, <2>3
      <4> QED BY <4>1, <4>2 DEF CommitShaped
    <3>2. CommitShaped(n)'
      <4>1. \A e \in docs : issued'[n].reads[e].layers = replica.pending[e]
        BY <2>1, ReadOfIs
      <4>2. \A e \in docs : issued'[n].reads[e].layers \subseteq {k \in 1..Len(issued) : issued[k].doc = e}
        BY <1>0, <4>1 DEF LayersStand
      <4>3. ASSUME NEW e \in docs PROVE issued'[n].reads[e].layers \subseteq {k \in 1..(n - 1) : issued'[k].doc = e}
        BY <2>1, <2>a, <4>2
      <4> QED BY <2>1, <4>3 DEF CommitShaped
    <3> QED BY <2>1, <2>3, <3>1, <3>2
  <2>7. ReplicaShaped(replica)' /\ ServerShaped(server)'
    BY <1>0, <2>1 DEF ReplicaShaped, ServerShaped
  <2>8. (\A i \in DOMAIN toClient : AnswerShaped(toClient[i]))' /\ (\A i \in DOMAIN toServer : RequestShaped(toServer[i]))'
    BY <2>2 DEF Answers, Requests, AnswerShaped, FrameShaped, RequestShaped
  <2> QED BY <2>4, <2>5, <2>6, <2>7, <2>8 DEF Shaped
<1>11. ASSUME NEW n \in Commits, RepairTimesOut(n) PROVE Shaped'
  <2>1. /\ UNCHANGED <<log, server, toServer, toClient, issued, replica>>
        /\ fate[n] \in {"repairing", "waiting"} /\ fate'[n] = "doomed"
        /\ \A m \in Commits : m # n => fate'[m] = fate[m]
    BY <1>11, RepairTimesOutEffect
  <2>2. Answers /\ Requests
    BY <1>b, <1>d, <2>1
  <2>3. \A m \in Commits : Settled(m)' <=> Settled(m)
    BY <2>1 DEF Settled
  <2>4. replica'.pending = replica.pending
    BY <2>1
  <2> QED BY <1>0, <1>g, <2>1, <2>2, <2>3, <2>4
<1>12. CASE Resume
  <2>1. /\ UNCHANGED <<log, issued, fate>> /\ toServer' = Resent
        /\ ServerShaped(server') /\ ReplicaShaped(replica')
        /\ replica'.pending = replica.pending
        /\ \E f : FrameShaped(f) /\ toClient' = <<f>>
    BY <1>12, ResumeEffect
  <2>2. Answers /\ Requests
    BY <1>c, <1>d, <2>1 DEF AnswerShaped
  <2>3. \A m \in Commits : Settled(m)' <=> Settled(m)
    BY <2>1 DEF Settled
  <2> QED BY <1>0, <1>g, <2>1, <2>2, <2>3
<1>13. CASE Replace
  <2>1. /\ UNCHANGED <<log, issued>> /\ toClient' = <<>>
        /\ ServerShaped(server') /\ ReplicaShaped(replica')
        /\ replica'.pending = [d \in Docs |-> replica.pending[d] \ Parked]
        /\ \E w : w.type = "watch" /\ w.holdings = replica.delivered /\ toServer' = Append(Resent, w)
        /\ \A n \in Commits : \/ fate[n] = "parked" /\ fate'[n] = "applied"
                              \/ fate[n] = "repairing" /\ fate'[n] = "doomed"
                              \/ fate[n] \notin {"parked", "repairing"} /\ fate'[n] = fate[n]
    BY <1>13, ReplaceEffect
  <2>2. Answers /\ Requests
    BY <1>b, <1>e, <2>1, ReplicaFields DEF RequestShaped
  <2>3. \A m \in Commits : Settled(m)' <=> Settled(m) \/ m \in Parked
    BY <2>1 DEF Settled, Parked
  <2> QED BY <1>0, <1>f, <2>1, <2>2, <2>3
<1>14. CASE UNCHANGED vars
  <2>1. UNCHANGED <<log, server, toServer, toClient, issued, fate, replica>>
    BY <1>14 DEF vars
  <2>2. Answers /\ Requests
    BY <1>b, <1>d, <2>1
  <2>3. \A m \in Commits : Settled(m)' <=> Settled(m)
    BY <2>1 DEF Settled
  <2>4. replica'.pending = replica.pending
    BY <2>1
  <2> QED BY <1>0, <1>g, <2>1, <2>2, <2>3, <2>4
<1> QED BY <1>1, <1>2, <1>3, <1>4, <1>5, <1>6, <1>7, <1>8, <1>9, <1>10, <1>11, <1>12, <1>13, <1>14
        DEF Next, Progress

\* The shapes at the start.
LEMMA InitShaped ==
  ASSUME Init
  PROVE  Shaped
<1>1. /\ log = <<>> /\ toServer = <<>> /\ toClient = <<>> /\ issued = <<>>
      /\ server = [watching |-> TRUE, sent |-> [d \in Docs |-> 0], dirty |-> {},
                   origin |-> [d \in Docs |-> NoOrigin], owed |-> 0, told |-> 0]
      /\ replica = [confirmed |-> [d \in Docs |-> [seq |-> 0, val |-> <<>>]],
                    pending |-> [d \in Docs |-> {}], delivered |-> [d \in Docs |-> 0],
                    caughtUp |-> 0, outstanding |-> {}, restoring |-> {}]
  BY DEF Init
<1>2. ServerShaped(server)
  <2>1. server.watching \in BOOLEAN
    <3>1. server.watching = TRUE
      BY <1>1
    <3> QED BY <3>1, Zenon
  <2>2. /\ server.sent \in [Docs -> Nat] /\ server.dirty \subseteq Docs
        /\ server.origin = [d \in Docs |-> server.origin[d]] /\ server.owed \in Nat /\ server.told \in Nat
    BY <1>1
  <2>3. server = [watching |-> server.watching, sent |-> server.sent, dirty |-> server.dirty,
                  origin |-> server.origin, owed |-> server.owed, told |-> server.told]
    BY <1>1
  <2> QED BY <2>1, <2>2, <2>3 DEF ServerShaped
<1>3. ReplicaShaped(replica)
  <2>1. replica = [confirmed |-> replica.confirmed, pending |-> replica.pending,
                   delivered |-> replica.delivered, caughtUp |-> replica.caughtUp,
                   outstanding |-> replica.outstanding, restoring |-> replica.restoring]
    BY <1>1
  <2>2. replica.confirmed = [d \in Docs |-> replica.confirmed[d]] /\ \A d \in Docs : replica.confirmed[d].seq \in Nat
    BY <1>1
  <2>3. /\ replica.pending \in [Docs -> SUBSET Commits] /\ replica.delivered \in [Docs -> Nat]
        /\ replica.caughtUp \in Nat /\ replica.outstanding \subseteq Commits
        /\ replica.restoring \subseteq Commits \cup {Watches}
    BY <1>1
  <2> QED BY <2>1, <2>2, <2>3 DEF ReplicaShaped
<1>4. DOMAIN log = {} /\ DOMAIN toServer = {} /\ DOMAIN toClient = {} /\ 1..Len(issued) = {}
  BY <1>1
<1>5. LayersStand
  BY <1>1, <1>4 DEF LayersStand
<1> QED BY <1>2, <1>3, <1>4, <1>5 DEF Shaped, RowsTrue

-----------------------------------------------------------------------------
(* The order of the line                                                   *)

Out(n) == n \in replica.outstanding

IsVerdict(i) == toClient[i].type = "verdict"

IsFrame(i) == toClient[i].type = "frame"

IsRestore(i) == IsFrame(i) /\ toClient[i].restores = TRUE

IsRequest(i) == toServer[i].type = "commit"

\* Commits go out in local order, are decided in it and are answered in it.
QueueOrder ==
  \A m, n \in Commits :
    fate[m] = "queued" /\ (Out(n) \/ fate[n] \in {"sent", "accepted", "parked"}) => n < m

SentOut == \A n \in Commits : fate[n] = "sent" => Out(n)

AheadOfOut == \A m, n \in Commits : fate[n] \in {"accepted", "parked"} /\ Out(m) => n < m

ParkedFirst == \A m, n \in Commits : fate[n] = "parked" /\ fate[m] = "accepted" => n < m

\* A parked commit's marker is still to come.
ParkedWaits == \A n \in Commits : fate[n] = "parked" => n > replica.caughtUp

FateOrder == QueueOrder /\ SentOut /\ AheadOfOut /\ ParkedFirst /\ ParkedWaits

\* Requests and verdicts are in local order; a watch set is the last request.
LineOrder ==
  /\ \A i, j \in DOMAIN toServer : i < j =>
       IsRequest(i) /\ (IsRequest(j) => toServer[i].n < toServer[j].n)
  /\ \A i, j \in DOMAIN toClient : i < j /\ IsVerdict(i) /\ IsVerdict(j) =>
       toClient[i].n < toClient[j].n
  /\ \A i \in DOMAIN toClient, j \in DOMAIN toServer : IsVerdict(i) /\ IsRequest(j) =>
       toClient[i].n < toServer[j].n

\* A commit without a verdict is on its way, or its verdict is.
OnLine ==
  \A n \in Commits : Out(n) <=>
    (\E i \in DOMAIN toServer : Carries(i, n)) \/ (\E i \in DOMAIN toClient : Tells(i, n))

Asked == \E i \in DOMAIN toServer : toServer[i].type = "watch"

Answered == \E i \in DOMAIN toClient : IsRestore(i)

\* A replaced session waits for its one watch set, or for the answer to it.
WatchOut ==
  /\ Watches \in replica.restoring <=> Asked \/ Answered
  /\ Asked => ~ Answered
  /\ Answered => toServer = <<>>
  /\ \A i, j \in DOMAIN toClient : IsRestore(i) /\ IsRestore(j) => i = j

LineInv == LineOrder /\ OnLine /\ WatchOut

\* What is sent again is all that is without a verdict, in local order.
LEMMA ResentInOrder ==
  ASSUME Typed
  PROVE  /\ \A i, j \in DOMAIN Resent : i < j => Resent[i].n < Resent[j].n
         /\ \A n \in replica.outstanding : \E i \in DOMAIN Resent : Resent[i].n = n
         /\ \A i \in DOMAIN Resent : Resent[i].type = "commit" /\ Resent[i].n \in replica.outstanding
         /\ IsSeq(Resent) /\ Len(Resent) \in Nat /\ DOMAIN Resent = 1..Len(Resent)
<1> DEFINE O == replica.outstanding
           To(n) == {m \in O : m <= n}
           T == 1..Cardinality(O)
<1>0. /\ IsSeq(Resent) /\ Len(Resent) \in Nat /\ DOMAIN Resent = 1..Len(Resent)
      /\ \A i \in DOMAIN Resent : Resent[i].type = "commit" /\ Resent[i].n \in replica.outstanding
  BY ResentIs
<1>1. O \in SUBSET Commits /\ Cardinality(O) \in Nat /\ IsFiniteSet(O)
  BY CommitsFinite DEF Typed
<1>2. DOMAIN Resent = T /\ \A i \in T : Resent[i].n = Nth(O, i)
  BY DEF Resent
<1>3. \A i \in T : Nth(O, i) \in O /\ Cardinality(To(Nth(O, i))) = i
  BY <1>1, NthIs
<1>4. \A n \in O : To(n) \in SUBSET O /\ n \in To(n) /\ n \in Nat
  BY <1>1, CommitNumbers
<1>5. \A n \in O : IsFiniteSet(To(n)) /\ Cardinality(To(n)) <= Cardinality(O)
                   /\ Cardinality(To(n)) \in Nat
  BY <1>1, <1>4, FS_Subset, FS_CardinalityType
<1>6. \A n \in O : Cardinality(To(n)) # 0
  BY <1>4, <1>5, FS_EmptySet
<1>7. \A n \in O : Cardinality(To(n)) \in T
  BY <1>1, <1>5, <1>6
<1>8. \A n, m \in O : n <= m => Cardinality(To(n)) <= Cardinality(To(m))
  <2>1. SUFFICES ASSUME NEW n \in O, NEW m \in O, n <= m
                 PROVE  Cardinality(To(n)) <= Cardinality(To(m))
    OBVIOUS
  <2>2. To(n) \in SUBSET To(m)
    BY <1>4, <2>1
  <2> QED BY <1>5, <2>2, FS_Subset
<1>a. \A n, m \in O : n < m => Cardinality(To(n)) # Cardinality(To(m))
  <2>1. SUFFICES ASSUME NEW n \in O, NEW m \in O, Cardinality(To(n)) = Cardinality(To(m)), n < m
                 PROVE  FALSE
    OBVIOUS
  <2>2. To(n) \in SUBSET To(m) /\ m \notin To(n)
    BY <1>4, <2>1
  <2>3. To(m) = To(n)
    BY <1>5, <2>1, <2>2, FS_Subset
  <2> QED BY <1>4, <2>2, <2>3
<1>9. \A n, m \in O : Cardinality(To(n)) = Cardinality(To(m)) => n = m
  <2> HIDE DEF To
  <2> QED BY <1>4, <1>a
<1> HIDE DEF O, To, T
<1>10. ASSUME NEW i \in T, NEW j \in T, i < j PROVE Nth(O, i) < Nth(O, j)
  <2>1. /\ Nth(O, i) \in O /\ Cardinality(To(Nth(O, i))) = i
        /\ Nth(O, j) \in O /\ Cardinality(To(Nth(O, j))) = j
        /\ i \in Nat /\ j \in Nat /\ Nth(O, i) \in Nat /\ Nth(O, j) \in Nat
    BY <1>1, <1>3, <1>4 DEF T
  <2>2. ~ Nth(O, j) <= Nth(O, i)
    BY <1>8, <1>10, <2>1
  <2> QED BY <2>1, <2>2
<1>11. ASSUME NEW n \in O PROVE \E i \in T : Nth(O, i) = n
  <2> DEFINE i == Cardinality(To(n))
  <2>1. i \in T
    BY <1>7
  <2>2. Nth(O, i) \in O /\ Cardinality(To(Nth(O, i))) = i
    BY <1>3, <2>1
  <2> QED BY <1>9, <2>1, <2>2
<1> QED BY <1>0, <1>2, <1>10, <1>11 DEF O

\* Fates that no commit is given anew.
LEMMA FateOrderKept ==
  ASSUME FateOrder, replica'.outstanding = replica.outstanding,
         replica'.caughtUp = replica.caughtUp,
         \A n \in Commits : fate'[n] \in {"queued", "sent", "accepted", "parked"} => fate'[n] = fate[n]
  PROVE  FateOrder'
<1>1. QueueOrder'
  BY DEF FateOrder, QueueOrder, Out
<1>2. SentOut'
  BY DEF FateOrder, SentOut, Out
<1>3. AheadOfOut'
  BY DEF FateOrder, AheadOfOut, Out
<1>4. ParkedFirst'
  BY DEF FateOrder, ParkedFirst
<1>5. ParkedWaits'
  BY DEF FateOrder, ParkedWaits
<1> QED BY <1>1, <1>2, <1>3, <1>4, <1>5 DEF FateOrder

\* The line as it was.
LEMMA LineKept ==
  ASSUME LineInv, toServer' = toServer, toClient' = toClient,
         replica'.outstanding = replica.outstanding,
         Watches \in replica'.restoring <=> Watches \in replica.restoring
  PROVE  LineInv'
<1>1. LineOrder'
  BY DEF LineInv, LineOrder, IsVerdict, IsRequest
<1>2. OnLine'
  BY DEF LineInv, OnLine, Out, Carries, Tells
<1>3. WatchOut'
  BY DEF LineInv, WatchOut, Asked, Answered, IsRestore, IsFrame
<1> QED BY <1>1, <1>2, <1>3 DEF LineInv

\* An answer more: a frame.
LEMMA LineFrame ==
  ASSUME IInv, LineInv, NEW f, f.type = "frame", toClient' = Append(toClient, f),
         replica'.outstanding = replica.outstanding, replica'.restoring = replica.restoring,
         \/ toServer' = toServer /\ f.restores = FALSE
         \/ /\ toServer # <<>> /\ toServer' = Tail(toServer) /\ toServer[1].type = "watch"
            /\ f.restores = TRUE
  PROVE  LineInv'
<1>1. /\ Len(toClient) \in Nat /\ DOMAIN toClient = 1..Len(toClient)
      /\ DOMAIN toClient' = 1..(Len(toClient) + 1)
      /\ \A i \in 1..Len(toClient) : toClient'[i] = toClient[i]
      /\ toClient'[Len(toClient) + 1] = f
  BY GrowsIs DEF IInv, Typed
<1>2. \A i \in DOMAIN toClient' : i \in DOMAIN toClient \/ i = Len(toClient) + 1
  BY <1>1
<1>3. DOMAIN toServer \subseteq Nat /\ IsSeq(toServer)
  BY DEF IInv, Typed, IsSeq
<1>4. toServer' # toServer =>
        /\ 1 \in DOMAIN toServer /\ toServer[1].type = "watch"
        /\ \A i \in DOMAIN toServer' : i + 1 \in DOMAIN toServer /\ i + 1 > 1
  BY <1>3, ShrinksIs
<1>5. toServer' # toServer => DOMAIN toServer' = {} /\ \A i \in DOMAIN toServer : ~ IsRequest(i) /\ i = 1
  <2>1. SUFFICES ASSUME toServer' # toServer
                 PROVE  DOMAIN toServer' = {} /\ \A i \in DOMAIN toServer : ~ IsRequest(i) /\ i = 1
    OBVIOUS
  <2>2. 1 \in DOMAIN toServer /\ ~ IsRequest(1)
    BY <1>4, <2>1 DEF IsRequest
  <2>3. \A i \in DOMAIN toServer : i = 1
    <3>1. SUFFICES ASSUME NEW i \in DOMAIN toServer, i # 1 PROVE FALSE
      OBVIOUS
    <3>2. 1 < i
      BY <1>3, <3>1 DEF IsSeq
    <3> QED BY <2>2, <3>2 DEF LineInv, LineOrder
  <2>4. DOMAIN toServer' = {}
    BY <1>4, <2>1, <2>3
  <2> QED BY <2>2, <2>3, <2>4
<1>6. LineOrder'
  <2>1. \A i \in DOMAIN toClient' : toClient'[i].type = "verdict" =>
          i \in DOMAIN toClient /\ toClient'[i] = toClient[i] /\ IsVerdict(i)
    BY <1>1, <1>2 DEF IsVerdict
  <2>2. CASE toServer' = toServer
    BY <2>1, <2>2 DEF LineInv, LineOrder, IsVerdict, IsRequest
  <2>3. CASE toServer' # toServer
    BY <1>5, <2>1, <2>3 DEF LineInv, LineOrder, IsVerdict, IsRequest
  <2> QED BY <2>2, <2>3
<1>7. OnLine'
  <2>1. SUFFICES ASSUME NEW n \in Commits
                 PROVE  Out(n) <=> \/ \E i \in DOMAIN toServer' : Carries(i, n)'
                                   \/ \E i \in DOMAIN toClient' : Tells(i, n)'
    BY DEF OnLine, Out
  <2>2. (\E i \in DOMAIN toClient' : Tells(i, n)') <=> (\E i \in DOMAIN toClient : Tells(i, n))
    BY <1>1, <1>2 DEF Tells
  <2>3. (\E i \in DOMAIN toServer' : Carries(i, n)') <=> (\E i \in DOMAIN toServer : Carries(i, n))
    BY <1>5 DEF Carries, IsRequest
  <2> QED BY <2>2, <2>3 DEF LineInv, OnLine
<1>8. WatchOut'
  <2>1. CASE toServer' = toServer
    <3>1. \A i \in DOMAIN toClient' : IsRestore(i)' => i \in DOMAIN toClient /\ IsRestore(i)
      <4>1. f.restores = FALSE
        BY <2>1, <1>4, <1>5
      <4> QED BY <1>1, <1>2, <4>1 DEF IsRestore, IsFrame
    <3>2. \A i \in DOMAIN toClient : i \in DOMAIN toClient' /\ (IsRestore(i) => IsRestore(i)')
      BY <1>1 DEF IsRestore, IsFrame
    <3>3. Answered' <=> Answered
      BY <3>1, <3>2 DEF Answered
    <3>4. Asked' <=> Asked
      BY <2>1 DEF Asked
    <3> QED BY <2>1, <3>1, <3>3, <3>4 DEF LineInv, WatchOut
  <2>2. CASE toServer' # toServer
    <3>1. Asked
      BY <1>4, <2>2 DEF Asked
    <3>2. \A i \in DOMAIN toClient : ~ IsRestore(i)
      BY <3>1 DEF LineInv, WatchOut, Answered
    <3>3. \A i \in DOMAIN toClient' : IsRestore(i)' => i = Len(toClient) + 1
      BY <1>1, <1>2, <3>2 DEF IsRestore, IsFrame
    <3>4. f.restores = TRUE
      BY <2>2
    <3>6. Answered'
      <4>1. PICK j : j = Len(toClient) + 1
        OBVIOUS
      <4>2. j \in DOMAIN toClient' /\ toClient'[j] = f
        BY <1>1, <4>1
      <4>3. IsRestore(j)'
        BY <3>4, <4>2 DEF IsRestore, IsFrame
      <4> QED BY <4>2, <4>3 DEF Answered
    <3>7. ~ Asked' /\ toServer' = <<>>
      <4>1. DOMAIN toServer' = {}
        BY <1>5, <2>2
      <4>2. IsSeq(toServer')
        BY <1>3, <2>2, ShrinksIs
      <4>3. toServer' = <<>>
        BY <4>1, <4>2 DEF IsSeq
      <4> QED BY <4>1, <4>3 DEF Asked
    <3>8. Watches \in replica.restoring
      BY <3>1 DEF LineInv, WatchOut
    <3> QED BY <3>3, <3>6, <3>7, <3>8 DEF WatchOut
  <2> QED BY <2>1, <2>2
<1> QED BY <1>6, <1>7, <1>8 DEF LineInv

\* A commit decided.
LEMMA LineDecide ==
  ASSUME IInv, Shaped, LineInv, Decide
  PROVE  LineInv'
<1>1. PICK n, a :
        /\ UNCHANGED <<issued, fate, replica>>
        /\ toServer # <<>> /\ toServer[1].type = "commit" /\ toServer' = Tail(toServer)
        /\ n = toServer[1].n
        /\ a.type = "verdict" /\ a.n = n /\ toClient' = Append(toClient, a)
  BY DecideEffect
<1>2. /\ Len(toClient) \in Nat /\ DOMAIN toClient = 1..Len(toClient)
      /\ DOMAIN toClient' = 1..(Len(toClient) + 1)
      /\ \A i \in 1..Len(toClient) : toClient'[i] = toClient[i]
      /\ toClient'[Len(toClient) + 1] = a
  BY <1>1, GrowsIs DEF IInv, Typed
<1>3. PICK k : k = Len(toClient) + 1
  OBVIOUS
<1>4. /\ k \in DOMAIN toClient' /\ toClient'[k] = a
      /\ \A i \in DOMAIN toClient : i \in DOMAIN toClient' /\ toClient'[i] = toClient[i] /\ i < k
      /\ \A i \in DOMAIN toClient' : i \in DOMAIN toClient \/ i = k
      /\ k \in Nat /\ DOMAIN toClient \subseteq Nat
  BY <1>2, <1>3
<1>5. /\ 1 \in DOMAIN toServer /\ DOMAIN toServer' \subseteq Nat
      /\ \A i \in DOMAIN toServer' : i + 1 \in DOMAIN toServer /\ toServer'[i] = toServer[i + 1]
      /\ \A i \in DOMAIN toServer : i = 1 \/ (i - 1 \in DOMAIN toServer' /\ toServer'[i - 1] = toServer[i])
  <2>1. toServer \in Seq(Range(toServer))
    BY DEF IInv, Typed, IsSeq
  <2>2. /\ Len(toServer) \in Nat /\ Len(toServer) # 0 /\ DOMAIN toServer = 1..Len(toServer)
        /\ DOMAIN Tail(toServer) = 1..(Len(toServer) - 1)
        /\ \A i \in 1..(Len(toServer) - 1) : Tail(toServer)[i] = toServer[i + 1]
    BY <1>1, <2>1
  <2>3. \A i \in DOMAIN toServer : i # 1 => i - 1 \in 1..(Len(toServer) - 1) /\ (i - 1) + 1 = i
    BY <2>2
  <2>4. \A i \in DOMAIN toServer : i = 1 \/ (i - 1 \in DOMAIN toServer' /\ toServer'[i - 1] = toServer[i])
    BY <1>1, <2>2, <2>3
  <2> QED BY <1>1, <2>2, <2>4
<1>6. LineOrder'
  <2>1. \A i, j \in DOMAIN toServer' : i < j =>
          /\ toServer'[i].type = "commit"
          /\ toServer'[j].type = "commit" => toServer'[i].n < toServer'[j].n
    <3>1. SUFFICES ASSUME NEW i \in DOMAIN toServer', NEW j \in DOMAIN toServer', i < j
                   PROVE  /\ toServer'[i].type = "commit"
                          /\ toServer'[j].type = "commit" => toServer'[i].n < toServer'[j].n
      OBVIOUS
    <3>2. /\ i + 1 \in DOMAIN toServer /\ j + 1 \in DOMAIN toServer /\ i + 1 < j + 1
          /\ toServer'[i] = toServer[i + 1] /\ toServer'[j] = toServer[j + 1]
      BY <1>5, <3>1
    <3> QED BY <3>2 DEF LineInv, LineOrder, IsRequest
  <2>2. \A i, j \in DOMAIN toClient' : i < j /\ toClient'[i].type = "verdict" /\ toClient'[j].type = "verdict" =>
          toClient'[i].n < toClient'[j].n
    <3>1. SUFFICES ASSUME NEW i \in DOMAIN toClient', NEW j \in DOMAIN toClient', i < j,
                          toClient'[i].type = "verdict", toClient'[j].type = "verdict"
                   PROVE  toClient'[i].n < toClient'[j].n
      OBVIOUS
    <3>2. i \in DOMAIN toClient
      BY <1>4, <3>1
    <3>3. CASE j \in DOMAIN toClient
      BY <1>4, <3>1, <3>2, <3>3 DEF LineInv, LineOrder, IsVerdict
    <3>4. CASE j = k
      <4>1. IsVerdict(i) /\ IsRequest(1) /\ toClient'[i] = toClient[i]
        BY <1>1, <1>4, <3>1, <3>2 DEF IsVerdict, IsRequest
      <4>2. toClient[i].n < toServer[1].n
        BY <1>5, <3>2, <4>1 DEF LineInv, LineOrder
      <4> QED BY <1>1, <1>4, <3>4, <4>1, <4>2
    <3> QED BY <1>4, <3>3, <3>4
  <2>3. \A i \in DOMAIN toClient', j \in DOMAIN toServer' :
          toClient'[i].type = "verdict" /\ toServer'[j].type = "commit" => toClient'[i].n < toServer'[j].n
    <3>1. SUFFICES ASSUME NEW i \in DOMAIN toClient', NEW j \in DOMAIN toServer',
                          toClient'[i].type = "verdict", toServer'[j].type = "commit"
                   PROVE  toClient'[i].n < toServer'[j].n
      OBVIOUS
    <3>2. j + 1 \in DOMAIN toServer /\ toServer'[j] = toServer[j + 1] /\ 1 < j + 1
      <4>1. j \in 1..Len(toServer')
        BY <1>1, ShrinksIs DEF IInv, Typed, IsSeq
      <4> QED BY <1>5, <4>1
    <3>3. CASE i \in DOMAIN toClient
      BY <1>4, <3>1, <3>2, <3>3 DEF LineInv, LineOrder, IsVerdict, IsRequest
    <3>4. CASE i = k
      BY <1>1, <1>4, <1>5, <3>1, <3>2, <3>4 DEF LineInv, LineOrder, IsVerdict, IsRequest
    <3> QED BY <1>4, <3>3, <3>4
  <2> QED BY <2>1, <2>2, <2>3 DEF LineOrder, IsVerdict, IsRequest
<1>7. OnLine'
  <2>1. SUFFICES ASSUME NEW m \in Commits
                 PROVE  Out(m) <=> \/ \E i \in DOMAIN toServer' : Carries(i, m)'
                                   \/ \E i \in DOMAIN toClient' : Tells(i, m)'
    BY <1>1 DEF OnLine, Out
  <2>2. Out(m) <=> \/ \E i \in DOMAIN toServer : Carries(i, m)
                   \/ \E i \in DOMAIN toClient : Tells(i, m)
    BY DEF LineInv, OnLine
  <2>3. \A i \in DOMAIN toServer : Carries(i, m) =>
          \/ \E j \in DOMAIN toServer' : Carries(j, m)'
          \/ \E j \in DOMAIN toClient' : Tells(j, m)'
    <3>1. SUFFICES ASSUME NEW i \in DOMAIN toServer, Carries(i, m)
                   PROVE  \/ \E j \in DOMAIN toServer' : Carries(j, m)'
                          \/ \E j \in DOMAIN toClient' : Tells(j, m)'
      OBVIOUS
    <3>2. CASE i = 1
      BY <1>1, <1>4, <3>1, <3>2 DEF Carries, Tells
    <3>3. CASE i # 1
      <4>1. PICK j : j = i - 1
        OBVIOUS
      <4>2. j \in DOMAIN toServer' /\ toServer'[j] = toServer[i]
        BY <1>5, <3>3, <4>1
      <4> QED BY <3>1, <4>2 DEF Carries
    <3> QED BY <3>2, <3>3
  <2>4. \A i \in DOMAIN toClient : Tells(i, m) => \E j \in DOMAIN toClient' : Tells(j, m)'
    BY <1>4 DEF Tells
  <2>5. \A j \in DOMAIN toServer' : Carries(j, m)' => \E i \in DOMAIN toServer : Carries(i, m)
    BY <1>5 DEF Carries
  <2>6. \A j \in DOMAIN toClient' : Tells(j, m)' =>
          \/ \E i \in DOMAIN toClient : Tells(i, m)
          \/ \E i \in DOMAIN toServer : Carries(i, m)
    BY <1>1, <1>4, <1>5 DEF Tells, Carries
  <2> QED BY <2>2, <2>3, <2>4, <2>5, <2>6
<1>8. WatchOut'
  <2>1. Answered' <=> Answered
    BY <1>1, <1>4 DEF Answered, IsRestore, IsFrame
  <2>2. Asked' <=> Asked
    <3>1. Asked' => Asked
      BY <1>5 DEF Asked
    <3>2. ASSUME NEW i \in DOMAIN toServer, toServer[i].type = "watch" PROVE Asked'
      <4>1. i # 1
        BY <1>1, <3>2
      <4>2. PICK j : j = i - 1
        OBVIOUS
      <4>3. j \in DOMAIN toServer' /\ toServer'[j] = toServer[i]
        BY <1>5, <4>1, <4>2
      <4> QED BY <3>2, <4>3 DEF Asked
    <3> QED BY <3>1, <3>2 DEF Asked
  <2>3. ~ Answered
    BY <1>1 DEF LineInv, WatchOut
  <2>4. \A i, j \in DOMAIN toClient' : IsRestore(i)' /\ IsRestore(j)' => i = j
    BY <2>1, <2>3 DEF Answered
  <2>5. replica' = replica
    BY <1>1
  <2> QED BY <2>1, <2>2, <2>3, <2>4, <2>5 DEF LineInv, WatchOut
<1> QED BY <1>6, <1>7, <1>8 DEF LineInv

\* An answer taken.
LEMMA LineAnswer ==
  ASSUME IInv, LineInv, toClient # <<>>, toClient' = Tail(toClient), toServer' = toServer,
         \/ /\ IsVerdict(1) /\ toClient[1].n \in Commits
            /\ replica'.outstanding = replica.outstanding \ {toClient[1].n}
            /\ Watches \in replica'.restoring <=> Watches \in replica.restoring
         \/ /\ IsFrame(1) /\ replica'.outstanding = replica.outstanding
            /\ replica'.restoring = IF toClient[1].restores THEN replica.restoring \ {Watches}
                                    ELSE replica.restoring
            /\ toClient[1].restores \in BOOLEAN
  PROVE  LineInv'
<1>1. /\ 1 \in DOMAIN toClient /\ DOMAIN toClient \subseteq Nat /\ DOMAIN toClient' \subseteq Nat
      /\ \A i \in DOMAIN toClient' : i + 1 \in DOMAIN toClient /\ toClient'[i] = toClient[i + 1] /\ 1 < i + 1
      /\ \A i \in DOMAIN toClient : i = 1 \/ (i - 1 \in DOMAIN toClient' /\ toClient'[i - 1] = toClient[i])
  <2>1. toClient \in Seq(Range(toClient))
    BY DEF IInv, Typed, IsSeq
  <2>2. /\ Len(toClient) \in Nat /\ Len(toClient) # 0 /\ DOMAIN toClient = 1..Len(toClient)
        /\ DOMAIN Tail(toClient) = 1..(Len(toClient) - 1)
        /\ \A i \in 1..(Len(toClient) - 1) : Tail(toClient)[i] = toClient[i + 1]
    BY <2>1
  <2>3. \A i \in DOMAIN toClient : i # 1 => i - 1 \in 1..(Len(toClient) - 1) /\ (i - 1) + 1 = i
    BY <2>2
  <2>4. \A i \in DOMAIN toClient : i = 1 \/ (i - 1 \in DOMAIN toClient' /\ toClient'[i - 1] = toClient[i])
    BY <2>2, <2>3
  <2> QED BY <2>2, <2>4
<1>2. LineOrder'
  <2>1. \A i, j \in DOMAIN toClient' : i < j /\ toClient'[i].type = "verdict" /\ toClient'[j].type = "verdict" =>
          toClient'[i].n < toClient'[j].n
    <3>1. SUFFICES ASSUME NEW i \in DOMAIN toClient', NEW j \in DOMAIN toClient', i < j,
                          toClient'[i].type = "verdict", toClient'[j].type = "verdict"
                   PROVE  toClient'[i].n < toClient'[j].n
      OBVIOUS
    <3>2. /\ i + 1 \in DOMAIN toClient /\ j + 1 \in DOMAIN toClient /\ i + 1 < j + 1
          /\ toClient'[i] = toClient[i + 1] /\ toClient'[j] = toClient[j + 1]
      BY <1>1, <3>1
    <3> QED BY <3>1, <3>2 DEF LineInv, LineOrder, IsVerdict
  <2>2. \A i \in DOMAIN toClient', j \in DOMAIN toServer :
          toClient'[i].type = "verdict" /\ toServer[j].type = "commit" => toClient'[i].n < toServer[j].n
    BY <1>1 DEF LineInv, LineOrder, IsVerdict, IsRequest
  <2> QED BY <2>1, <2>2 DEF LineInv, LineOrder, IsVerdict, IsRequest
<1>3. \A m : \A j \in DOMAIN toClient' : Tells(j, m)' => j + 1 \in DOMAIN toClient /\ Tells(j + 1, m) /\ 1 < j + 1
  BY <1>1 DEF Tells
<1>4. ASSUME NEW m, NEW i \in DOMAIN toClient, Tells(i, m), i # 1
      PROVE  \E j \in DOMAIN toClient' : Tells(j, m)'
  <2>1. PICK j : j = i - 1
    OBVIOUS
  <2>2. j \in DOMAIN toClient' /\ toClient'[j] = toClient[i]
    BY <1>1, <1>4, <2>1
  <2> QED BY <1>4, <2>2 DEF Tells
<1>5. OnLine'
  <2>1. SUFFICES ASSUME NEW m \in Commits
                 PROVE  m \in replica'.outstanding <=>
                          \/ \E i \in DOMAIN toServer : Carries(i, m)
                          \/ \E i \in DOMAIN toClient' : Tells(i, m)'
    BY DEF OnLine, Out, Carries
  <2>2. Out(m) <=> \/ \E i \in DOMAIN toServer : Carries(i, m)
                   \/ \E i \in DOMAIN toClient : Tells(i, m)
    BY DEF LineInv, OnLine
  <2>3. CASE IsVerdict(1) /\ replica'.outstanding = replica.outstanding \ {toClient[1].n}
    <3>1. CASE m = toClient[1].n
      <4>1. Tells(1, m)
        BY <2>3, <3>1 DEF Tells, IsVerdict
      <4>2. \A i \in DOMAIN toServer : ~ Carries(i, m)
        BY <1>1, <4>1 DEF IInv, OneCopy
      <4>3. ASSUME NEW j \in DOMAIN toClient', Tells(j, m)' PROVE FALSE
        <5>1. PICK i : i = j + 1
          OBVIOUS
        <5>2. i \in DOMAIN toClient /\ Tells(i, m) /\ 1 < i
          BY <1>3, <4>3, <5>1
        <5>3. toClient[1].n < toClient[i].n
          BY <1>1, <4>1, <5>2 DEF LineInv, LineOrder, IsVerdict, Tells
        <5>4. toClient[i].n = m /\ m \in Nat
          BY <5>2, CommitNumbers DEF Tells
        <5> QED BY <3>1, <5>3, <5>4
      <4> QED BY <2>3, <3>1, <4>2, <4>3
    <3>2. CASE m # toClient[1].n
      <4>1. m \in replica'.outstanding <=> Out(m)
        BY <2>3, <3>2 DEF Out
      <4>2. \A i \in DOMAIN toClient : Tells(i, m) => i # 1
        BY <3>2 DEF Tells
      <4>3. (\E i \in DOMAIN toClient' : Tells(i, m)') <=> (\E i \in DOMAIN toClient : Tells(i, m))
        BY <1>3, <1>4, <4>2
      <4> QED BY <2>2, <4>1, <4>3
    <3> QED BY <3>1, <3>2
  <2>4. CASE IsFrame(1) /\ replica'.outstanding = replica.outstanding
    <3>1. \A i \in DOMAIN toClient : Tells(i, m) => i # 1
      BY <2>4 DEF Tells, IsFrame
    <3>2. (\E i \in DOMAIN toClient' : Tells(i, m)') <=> (\E i \in DOMAIN toClient : Tells(i, m))
      BY <1>3, <1>4, <3>1
    <3> QED BY <2>2, <2>4, <3>2 DEF Out
  <2> QED BY <2>3, <2>4
<1>6. WatchOut'
  <2>1. Asked' <=> Asked
    BY DEF Asked
  <2>2. \A j \in DOMAIN toClient' : IsRestore(j)' => j + 1 \in DOMAIN toClient /\ IsRestore(j + 1)
    BY <1>1 DEF IsRestore, IsFrame
  <2>3. ASSUME NEW i \in DOMAIN toClient, IsRestore(i), i # 1
        PROVE  \E j \in DOMAIN toClient' : IsRestore(j)'
    <3>1. PICK j : j = i - 1
      OBVIOUS
    <3>2. j \in DOMAIN toClient' /\ toClient'[j] = toClient[i]
      BY <1>1, <2>3, <3>1
    <3> QED BY <2>3, <3>2 DEF IsRestore, IsFrame
  <2>4. \A i, j \in DOMAIN toClient' : IsRestore(i)' /\ IsRestore(j)' => i = j
    <3>1. SUFFICES ASSUME NEW i \in DOMAIN toClient', NEW j \in DOMAIN toClient', IsRestore(i)', IsRestore(j)'
                   PROVE  i = j
      OBVIOUS
    <3>2. i + 1 = j + 1
      BY <2>2, <3>1 DEF LineInv, WatchOut
    <3> QED BY <1>1, <3>2
  <2>5. Answered' => Answered
    BY <2>2 DEF Answered
  <2>6. CASE IsRestore(1)
    <3>1. \A j \in DOMAIN toClient' : ~ IsRestore(j)'
      <4>1. SUFFICES ASSUME NEW j \in DOMAIN toClient', IsRestore(j)' PROVE FALSE
        OBVIOUS
      <4>2. j + 1 = 1
        BY <1>1, <2>2, <2>6, <4>1 DEF LineInv, WatchOut
      <4> QED BY <1>1, <4>2
    <3>2. Answered /\ ~ Answered'
      BY <1>1, <2>6, <3>1 DEF Answered
    <3>3. ~ Asked
      BY <3>2 DEF LineInv, WatchOut
    <3>4. Watches \notin replica'.restoring
      BY <2>6 DEF IsRestore, IsFrame, IsVerdict
    <3> QED BY <2>1, <2>4, <3>2, <3>3, <3>4 DEF WatchOut
  <2>7. CASE ~ IsRestore(1)
    <3>1. Answered' <=> Answered
      BY <2>3, <2>5, <2>7 DEF Answered
    <3>2. Watches \in replica'.restoring <=> Watches \in replica.restoring
      BY <2>7 DEF IsRestore, IsFrame, IsVerdict
    <3> QED BY <2>1, <2>4, <3>1, <3>2 DEF LineInv, WatchOut
  <2> QED BY <2>6, <2>7
<1> QED BY <1>2, <1>5, <1>6 DEF LineInv

\* A commit goes out.
LEMMA LineSend ==
  ASSUME IInv, Shaped, FateOrder, LineInv, NEW n \in Commits, fate[n] = "queued",
         replica.restoring = {}, NEW a, a.type = "commit", a.n = n,
         toServer' = Append(toServer, a), toClient' = toClient,
         replica'.outstanding = replica.outstanding \cup {n},
         replica'.restoring = replica.restoring
  PROVE  LineInv'
<1>1. /\ Len(toServer) \in Nat /\ DOMAIN toServer = 1..Len(toServer)
      /\ DOMAIN toServer' = 1..(Len(toServer) + 1)
      /\ \A i \in 1..Len(toServer) : toServer'[i] = toServer[i]
      /\ toServer'[Len(toServer) + 1] = a
  BY GrowsIs DEF IInv, Typed
<1>2. PICK k : k = Len(toServer) + 1
  OBVIOUS
<1>3. /\ k \in DOMAIN toServer' /\ toServer'[k] = a
      /\ \A i \in DOMAIN toServer : i \in DOMAIN toServer' /\ toServer'[i] = toServer[i] /\ i < k
      /\ \A i \in DOMAIN toServer' : i \in DOMAIN toServer \/ i = k
      /\ k \in Nat /\ DOMAIN toServer \subseteq Nat
  BY <1>1, <1>2
<1>4. \A i \in DOMAIN toServer : IsRequest(i)
  <2>1. ~ Asked
    BY DEF LineInv, WatchOut
  <2> QED BY <2>1 DEF Shaped, RequestShaped, Asked, IsRequest
<1>5. \A i \in DOMAIN toServer : IsRequest(i) => toServer[i].n < n
  <2>1. SUFFICES ASSUME NEW i \in DOMAIN toServer, IsRequest(i) PROVE toServer[i].n < n
    OBVIOUS
  <2>2. toServer[i].n \in Commits /\ Carries(i, toServer[i].n)
    BY <2>1 DEF IsRequest, Carries, IInv, Typed
  <2>3. Out(toServer[i].n)
    BY <2>2 DEF IInv, OneCopy, Out
  <2> QED BY <2>2, <2>3 DEF FateOrder, QueueOrder
<1>6. \A i \in DOMAIN toClient : IsVerdict(i) => toClient[i].n < n
  <2>1. SUFFICES ASSUME NEW i \in DOMAIN toClient, IsVerdict(i) PROVE toClient[i].n < n
    OBVIOUS
  <2>2. toClient[i].n \in Commits /\ Tells(i, toClient[i].n)
    BY <2>1 DEF IsVerdict, Tells, IInv, Typed
  <2>3. Out(toClient[i].n)
    BY <2>2 DEF LineInv, OnLine
  <2> QED BY <2>2, <2>3 DEF FateOrder, QueueOrder
<1>7. LineOrder'
  <2>1. \A i, j \in DOMAIN toServer' : i < j =>
          /\ toServer'[i].type = "commit"
          /\ toServer'[j].type = "commit" => toServer'[i].n < toServer'[j].n
    <3>1. SUFFICES ASSUME NEW i \in DOMAIN toServer', NEW j \in DOMAIN toServer', i < j
                   PROVE  /\ toServer'[i].type = "commit"
                          /\ toServer'[j].type = "commit" => toServer'[i].n < toServer'[j].n
      OBVIOUS
    <3>2. i \in DOMAIN toServer
      BY <1>3, <3>1
    <3>3. CASE j \in DOMAIN toServer
      BY <1>3, <3>1, <3>2, <3>3 DEF LineInv, LineOrder, IsRequest
    <3>4. CASE j = k
      BY <1>3, <1>4, <1>5, <3>2, <3>4 DEF IsRequest
    <3> QED BY <1>3, <3>3, <3>4
  <2>2. \A i \in DOMAIN toClient, j \in DOMAIN toServer' :
          toClient[i].type = "verdict" /\ toServer'[j].type = "commit" => toClient[i].n < toServer'[j].n
    BY <1>3, <1>6 DEF LineInv, LineOrder, IsVerdict, IsRequest
  <2> QED BY <2>1, <2>2 DEF LineInv, LineOrder, IsVerdict, IsRequest
<1>8. OnLine'
  <2>1. SUFFICES ASSUME NEW m \in Commits
                 PROVE  m \in replica'.outstanding <=>
                          \/ \E i \in DOMAIN toServer' : Carries(i, m)'
                          \/ \E i \in DOMAIN toClient : Tells(i, m)
    BY DEF OnLine, Out, Tells
  <2>2. Out(m) <=> \/ \E i \in DOMAIN toServer : Carries(i, m)
                   \/ \E i \in DOMAIN toClient : Tells(i, m)
    BY DEF LineInv, OnLine
  <2>3. (\E i \in DOMAIN toServer' : Carries(i, m)') <=> m = n \/ \E i \in DOMAIN toServer : Carries(i, m)
    BY <1>3 DEF Carries
  <2> QED BY <2>2, <2>3 DEF Out
<1>9. WatchOut'
  <2>1. ~ Asked' /\ ~ Asked
    BY <1>3, <1>4 DEF Asked, IsRequest
  <2>2. ~ Answered
    BY DEF LineInv, WatchOut
  <2>3. ~ Answered' /\ \A i \in DOMAIN toClient' : ~ IsRestore(i)'
    BY <2>2 DEF Answered, IsRestore, IsFrame
  <2> QED BY <2>1, <2>3 DEF WatchOut
<1> QED BY <1>7, <1>8, <1>9 DEF LineInv

\* Every commit without a verdict is sent again.
LEMMA LineAgain ==
  ASSUME IInv, NEW w, w.type = "watch", replica'.outstanding = replica.outstanding,
         \/ /\ toServer' = Resent /\ Watches \notin replica'.restoring
            /\ \A i \in DOMAIN toClient' : toClient'[i].type = "frame" /\ toClient'[i].restores = FALSE
         \/ /\ toServer' = Append(Resent, w) /\ Watches \in replica'.restoring
            /\ toClient' = <<>>
  PROVE  LineInv'
<1>1. /\ \A i, j \in DOMAIN Resent : i < j => Resent[i].n < Resent[j].n
      /\ \A n \in replica.outstanding : \E i \in DOMAIN Resent : Resent[i].n = n
      /\ \A i \in DOMAIN Resent : Resent[i].type = "commit" /\ Resent[i].n \in replica.outstanding
      /\ IsSeq(Resent) /\ Len(Resent) \in Nat /\ DOMAIN Resent = 1..Len(Resent)
  BY ResentInOrder DEF IInv
<1> DEFINE R == Resent
<1>2. PICK k : k = Len(Resent) + 1
  OBVIOUS
<1> HIDE DEF R
<1>3. /\ \A i \in DOMAIN R : i \in DOMAIN toServer' /\ toServer'[i] = R[i] /\ i < k
      /\ DOMAIN R \subseteq Nat /\ k \in Nat
      /\ \/ DOMAIN toServer' = DOMAIN R /\ toServer' = R
         \/ toServer' # R /\ DOMAIN toServer' = DOMAIN R \cup {k} /\ toServer'[k] = w
  <2>0. k \in Nat /\ DOMAIN R \subseteq Nat /\ \A i \in DOMAIN R : i < k
    BY <1>1, <1>2 DEF R
  <2>1. CASE toServer' = R
    BY <2>0, <2>1
  <2>2. CASE toServer' = Append(R, w)
    <3>1. /\ IsSeq(R) /\ Len(R) \in Nat /\ DOMAIN R = 1..Len(R)
      BY <1>1 DEF R
    <3>2. /\ DOMAIN toServer' = 1..(Len(R) + 1)
          /\ \A i \in 1..Len(R) : toServer'[i] = R[i]
          /\ toServer'[Len(R) + 1] = w
      BY <2>2, <3>1, GrowsIs
    <3>3. k = Len(R) + 1
      BY <1>2 DEF R
    <3>4. DOMAIN toServer' = DOMAIN R \cup {k} /\ k \notin DOMAIN R
      BY <3>1, <3>2, <3>3
    <3>5. toServer' # R
      BY <3>4
    <3>6. \A i \in DOMAIN R : i \in DOMAIN toServer' /\ toServer'[i] = R[i]
      BY <3>1, <3>2, <3>4
    <3>7. toServer'[k] = w
      BY <3>2, <3>3
    <3> QED BY <2>0, <3>4, <3>5, <3>6, <3>7
  <2> QED BY <2>1, <2>2 DEF R
<1>4. /\ \A i, j \in DOMAIN R : i < j => R[i].n < R[j].n
      /\ \A n \in replica.outstanding : \E i \in DOMAIN R : R[i].n = n
      /\ \A i \in DOMAIN R : R[i].type = "commit" /\ R[i].n \in replica.outstanding
  BY <1>1 DEF R
<1>5. \A i \in DOMAIN toClient' : toClient'[i].type = "frame" /\ toClient'[i].restores = FALSE
  OBVIOUS
<1>6. LineOrder'
  <2>1. \A i, j \in DOMAIN toServer' : i < j =>
          /\ toServer'[i].type = "commit"
          /\ toServer'[j].type = "commit" => toServer'[i].n < toServer'[j].n
    <3>1. SUFFICES ASSUME NEW i \in DOMAIN toServer', NEW j \in DOMAIN toServer', i < j
                   PROVE  /\ toServer'[i].type = "commit"
                          /\ toServer'[j].type = "commit" => toServer'[i].n < toServer'[j].n
      OBVIOUS
    <3>2. i \in DOMAIN R /\ toServer'[i] = R[i]
      BY <1>3, <3>1
    <3>3. CASE j \in DOMAIN R
      BY <1>3, <1>4, <3>1, <3>2, <3>3
    <3>4. CASE j \notin DOMAIN R
      BY <1>3, <1>4, <3>2, <3>4
    <3> QED BY <3>3, <3>4
  <2>2. \A i \in DOMAIN toClient' : toClient'[i].type # "verdict"
    BY <1>5
  <2> QED BY <2>1, <2>2 DEF LineOrder, IsVerdict, IsRequest
<1>7. OnLine'
  <2>1. SUFFICES ASSUME NEW m \in Commits
                 PROVE  m \in replica.outstanding <=>
                          \/ \E i \in DOMAIN toServer' : Carries(i, m)'
                          \/ \E i \in DOMAIN toClient' : Tells(i, m)'
    BY DEF OnLine, Out
  <2>2. \A i \in DOMAIN toClient' : ~ Tells(i, m)'
    BY <1>5 DEF Tells
  <2>3. \A i \in DOMAIN toServer' : Carries(i, m)' => m \in replica.outstanding
    BY <1>3, <1>4 DEF Carries
  <2>4. m \in replica.outstanding => \E i \in DOMAIN toServer' : Carries(i, m)'
    BY <1>3, <1>4 DEF Carries
  <2> QED BY <2>2, <2>3, <2>4
<1>8. WatchOut'
  <2>1. ~ Answered' /\ \A i \in DOMAIN toClient' : ~ IsRestore(i)'
    BY <1>5 DEF Answered, IsRestore
  <2>2. CASE toServer' = R
    <3>1. ~ Asked'
      BY <1>4, <2>2 DEF Asked
    <3>2. Watches \notin replica'.restoring
      <4>1. toServer' # Append(Resent, w)
        <5>1. DOMAIN Append(Resent, w) # DOMAIN Resent
          <6> DEFINE z == Len(Resent) + 1
          <6>1. z \in DOMAIN Append(Resent, w) /\ z \notin DOMAIN Resent
            BY <1>1, GrowsIs
          <6> QED BY <6>1
        <5> QED BY <2>2, <5>1 DEF R
      <4> QED BY <4>1
    <3> QED BY <2>1, <3>1, <3>2 DEF WatchOut
  <2>3. CASE toServer' # R
    <3>1. Asked'
      BY <1>3, <2>3 DEF Asked
    <3>2. Watches \in replica'.restoring
      BY <2>3 DEF R
    <3> QED BY <2>1, <3>1, <3>2 DEF WatchOut
  <2> QED BY <2>2, <2>3
<1> QED BY <1>6, <1>7, <1>8 DEF LineInv

\* A verdict is taken.
LEMMA FateVerdict ==
  ASSUME IInv, Shaped, FateOrder, LineInv, ReceiveVerdict
  PROVE  FateOrder'
<1> DEFINE k == toClient[1].n
<1>1. /\ toClient # <<>> /\ toClient[1].type = "verdict" /\ k \in Commits
      /\ \A m \in Commits : m # k => fate'[m] = fate[m]
      /\ \/ fate' = fate /\ fate[k] # "sent"
         \/ fate[k] = "sent" /\ fate'[k] \in {"accepted", "repairing"}
      /\ replica'.outstanding = replica.outstanding \ {k}
      /\ replica'.caughtUp = replica.caughtUp
  BY ReceiveVerdictEffect
<1>2. 1 \in DOMAIN toClient /\ IsVerdict(1) /\ DOMAIN toClient = 1..Len(toClient)
  BY <1>1, ShrinksIs DEF IInv, Typed, IsVerdict, IsSeq
<1>3. PICK c \in Commits : c = k /\ Tells(1, c)
  BY <1>1 DEF Tells
<1>4. Out(c)
  BY <1>2, <1>3 DEF LineInv, OnLine
<1>5. \A m \in Commits : m # c /\ Out(m) => c < m
  <2>1. SUFFICES ASSUME NEW m \in Commits, m # c, Out(m) PROVE c < m
    OBVIOUS
  <2>2. CASE \E i \in DOMAIN toServer : Carries(i, m)
    BY <1>2, <1>3, <2>2 DEF LineInv, LineOrder, IsRequest, IsVerdict, Carries, Tells
  <2>3. CASE \E i \in DOMAIN toClient : Tells(i, m)
    <3>1. PICK i \in DOMAIN toClient : Tells(i, m)
      BY <2>3
    <3>2. 1 < i
      BY <1>2, <1>3, <2>1, <3>1 DEF Tells
    <3> QED BY <1>2, <1>3, <3>1, <3>2 DEF LineInv, LineOrder, IsVerdict, Tells
  <2> QED BY <2>1, <2>2, <2>3 DEF LineInv, OnLine
<1> HIDE DEF k
<1>6. \A n \in Commits : \/ fate'[n] = fate[n] /\ (n = c => fate[n] # "sent")
                         \/ n = c /\ fate[n] = "sent" /\ fate'[n] \in {"accepted", "repairing"}
  BY <1>1, <1>3
<1>7. \A n \in Commits : n \in replica'.outstanding <=> Out(n) /\ n # c
  BY <1>1, <1>3 DEF Out
<1>8. QueueOrder'
  BY <1>4, <1>6, <1>7 DEF FateOrder, QueueOrder, Out
<1>9. SentOut'
  BY <1>6, <1>7 DEF FateOrder, SentOut, Out
<1>10. AheadOfOut'
  BY <1>5, <1>6, <1>7 DEF FateOrder, AheadOfOut, Out
<1>11. ParkedFirst'
  BY <1>4, <1>6 DEF FateOrder, ParkedFirst, AheadOfOut, Out
<1>12. ParkedWaits'
  BY <1>1, <1>6 DEF FateOrder, ParkedWaits
<1> QED BY <1>8, <1>9, <1>10, <1>11, <1>12 DEF FateOrder

\* A frame is taken.
LEMMA FateFrame ==
  ASSUME IInv, Shaped, FateOrder, ReceiveFrame
  PROVE  FateOrder'
<1>1. PICK f :
        /\ FrameShaped(f)
        /\ \A n \in Commits : fate'[n] = IF n \in DueWith(f) THEN "applied" ELSE fate[n]
        /\ ToldWith(f) \in {replica.caughtUp, f.marker}
        /\ replica.caughtUp <= ToldWith(f) /\ f.marker <= ToldWith(f)
        /\ replica'.caughtUp = ToldWith(f) /\ replica'.outstanding = replica.outstanding
  BY ReceiveFrameEffect
<1>2. \A n \in Commits : fate'[n] \in {"queued", "sent", "accepted", "parked"} =>
        fate'[n] = fate[n] /\ n \notin DueWith(f)
  BY <1>1
<1>3. QueueOrder' /\ SentOut' /\ AheadOfOut' /\ ParkedFirst'
  BY <1>1, <1>2 DEF FateOrder, QueueOrder, SentOut, AheadOfOut, ParkedFirst, Out
<1>4. ParkedWaits'
  <2>1. SUFFICES ASSUME NEW n \in Commits, fate'[n] = "parked" PROVE n > ToldWith(f)
    BY <1>1 DEF ParkedWaits
  <2>2. fate[n] = "parked" /\ n \notin DueWith(f) /\ n \in Nat
    BY <1>2, <2>1, CommitNumbers
  <2>3. ~ (f.marker > 0 /\ n <= ToldWith(f))
    BY <2>2 DEF DueWith, Parked
  <2>4. n > replica.caughtUp
    BY <2>2 DEF FateOrder, ParkedWaits
  <2>5. f.marker \in Nat /\ replica.caughtUp \in Nat
    BY <1>1, ReplicaFields DEF FrameShaped
  <2> QED BY <1>1, <2>2, <2>3, <2>4, <2>5
<1> QED BY <1>3, <1>4 DEF FateOrder

\* A commit goes out: it is the newest on its way.
LEMMA FateSend ==
  ASSUME IInv, Shaped, FateOrder, NEW n \in Commits, Send(n)
  PROVE  FateOrder'
<1>1. /\ fate[n] = "queued" /\ (\A m \in Commits : m < n => fate[m] # "queued")
      /\ (\A m \in Commits : m # n => fate'[m] = fate[m])
      /\ \/ fate'[n] = "waiting" /\ replica' = replica
         \/ /\ fate'[n] = "sent"
            /\ replica'.outstanding = replica.outstanding \cup {n}
            /\ replica'.caughtUp = replica.caughtUp
  BY SendEffect
<1>2. CASE fate'[n] = "waiting"
  <2>1. \A m \in Commits : fate'[m] \in {"queued", "sent", "accepted", "parked"} => fate'[m] = fate[m]
    BY <1>1, <1>2
  <2> QED BY <1>1, <1>2, <2>1, FateOrderKept
<1>3. CASE fate'[n] = "sent"
  <2>1. \A m \in Commits : m \in replica'.outstanding <=> Out(m) \/ m = n
    BY <1>1, <1>3 DEF Out
  <2>2. replica'.caughtUp = replica.caughtUp
    BY <1>1, <1>3
  <2>3. \A m \in Commits : fate[m] = "queued" /\ m # n => n < m
    BY <1>1, CommitNumbers
  <2>4. QueueOrder'
    BY <1>1, <1>3, <2>1, <2>3 DEF FateOrder, QueueOrder, Out
  <2>5. SentOut'
    BY <1>1, <1>3, <2>1 DEF FateOrder, SentOut, Out
  <2>6. AheadOfOut'
    BY <1>1, <1>3, <2>1 DEF FateOrder, AheadOfOut, QueueOrder, Out
  <2>7. ParkedFirst'
    BY <1>1, <1>3 DEF FateOrder, ParkedFirst
  <2>8. ParkedWaits'
    BY <1>1, <1>3, <2>2 DEF FateOrder, ParkedWaits
  <2> QED BY <2>4, <2>5, <2>6, <2>7, <2>8 DEF FateOrder
<1> QED BY <1>1, <1>2, <1>3

\* An accepted commit settles.
LEMMA FateSettle ==
  ASSUME IInv, Shaped, FateOrder, NEW n \in Commits, SettleAccept(n)
  PROVE  FateOrder'
<1>1. /\ fate[n] = "accepted" /\ (\A m \in Commits : m < n => fate[m] # "accepted")
      /\ (\A m \in Commits : m # n => fate'[m] = fate[m])
      /\ replica'.caughtUp = replica.caughtUp /\ replica'.outstanding = replica.outstanding
      /\ \/ fate'[n] = "applied"
         \/ fate'[n] = "parked" /\ n > replica.caughtUp
  BY SettleAcceptEffect
<1>2. QueueOrder'
  BY <1>1 DEF FateOrder, QueueOrder, Out
<1>3. SentOut'
  BY <1>1 DEF FateOrder, SentOut, Out
<1>4. AheadOfOut'
  BY <1>1 DEF FateOrder, AheadOfOut, Out
<1>5. ParkedFirst'
  BY <1>1, CommitNumbers DEF FateOrder, ParkedFirst
<1>6. ParkedWaits'
  BY <1>1 DEF FateOrder, ParkedWaits
<1> QED BY <1>2, <1>3, <1>4, <1>5, <1>6 DEF FateOrder

\* A commit is issued behind all others.
LEMMA FateIssue ==
  ASSUME IInv, Shaped, FateOrder, NEW d \in Docs, NEW op, NEW docs \in SUBSET Docs, Issue(d, op, docs)
  PROVE  FateOrder'
<1>0. PICK n : n = Len(issued) + 1
  OBVIOUS
<1>1. /\ n \in Commits /\ n \notin 1..Len(issued) /\ fate'[n] = "queued"
      /\ (\A m \in Commits : m # n => fate'[m] = fate[m])
      /\ fate[n] = "unissued"
      /\ replica'.caughtUp = replica.caughtUp /\ replica'.outstanding = replica.outstanding
  BY <1>0, IssueEffect
<1>2. \A m \in Commits : fate[m] # "unissued" => m < n
  <2>1. SUFFICES ASSUME NEW m \in Commits, fate[m] # "unissued" PROVE m < n
    OBVIOUS
  <2>2. m \in 1..Len(issued) /\ Len(issued) \in Nat
    BY <2>1, IssuedAre DEF IInv
  <2> QED BY <1>0, <2>2
<1>3. \A m \in Commits : Out(m) => fate[m] # "unissued"
  BY DEF IInv, Unsent, Out
<1>4. QueueOrder'
  BY <1>1, <1>2, <1>3 DEF FateOrder, QueueOrder, Out
<1>5. SentOut'
  BY <1>1 DEF FateOrder, SentOut, Out
<1>6. AheadOfOut'
  BY <1>1 DEF FateOrder, AheadOfOut, Out
<1>7. ParkedFirst'
  BY <1>1 DEF FateOrder, ParkedFirst
<1>8. ParkedWaits'
  BY <1>1 DEF FateOrder, ParkedWaits
<1> QED BY <1>4, <1>5, <1>6, <1>7, <1>8 DEF FateOrder

\* Every step keeps the order of fates.
LEMMA FateOrderStep ==
  ASSUME IInv, Shaped, FateOrder, LineInv, [Next]_vars
  PROVE  FateOrder'
<1>a. ASSUME fate' = fate, replica'.outstanding = replica.outstanding,
             replica'.caughtUp = replica.caughtUp
      PROVE  FateOrder'
  BY <1>a, FateOrderKept
<1>1. CASE Decide
  <2>1. UNCHANGED <<fate, replica>>
    BY <1>1, DecideEffect
  <2> QED BY <1>a, <2>1
<1>2. CASE Flush
  <2>1. UNCHANGED <<fate, replica>>
    BY <1>2, FlushEffect
  <2> QED BY <1>a, <2>1
<1>3. CASE SetWatches
  <2>1. UNCHANGED <<fate, replica>>
    BY <1>3, SetWatchesEffect
  <2> QED BY <1>a, <2>1
<1>4. CASE ReceiveVerdict
  BY <1>4, FateVerdict
<1>5. CASE ReceiveFrame
  BY <1>5, FateFrame
<1>6. ASSUME NEW n \in Commits, Send(n) \/ SettleAccept(n) PROVE FateOrder'
  BY <1>6, FateSend, FateSettle
<1>7. ASSUME NEW n \in Commits, Drop(n) PROVE FateOrder'
  <2>1. /\ fate'[n] = "rejected"
        /\ \A m \in Commits : m # n =>
             \/ fate'[m] = fate[m]
             \/ fate[m] \in {"queued", "sent"} /\ fate'[m] = "doomed"
        /\ replica'.caughtUp = replica.caughtUp /\ replica'.outstanding = replica.outstanding
    BY <1>7, DropEffect
  <2>2. \A m \in Commits : fate'[m] \in {"queued", "sent", "accepted", "parked"} => fate'[m] = fate[m]
    BY <2>1
  <2> QED BY <2>1, <2>2, FateOrderKept
<1>8. ASSUME NEW d \in Docs, NEW op, CommitForeign(d, op) PROVE FateOrder'
  <2>1. UNCHANGED <<fate, replica>>
    BY <1>8, ForeignEffect
  <2> QED BY <1>a, <2>1
<1>9. ASSUME NEW d \in Docs, NEW op, NEW docs \in SUBSET Docs, Issue(d, op, docs) PROVE FateOrder'
  BY <1>9, FateIssue
<1>10. ASSUME NEW n \in Commits, RepairTimesOut(n) PROVE FateOrder'
  <2>1. /\ replica' = replica /\ fate'[n] = "doomed" /\ \A m \in Commits : m # n => fate'[m] = fate[m]
    BY <1>10, RepairTimesOutEffect
  <2>2. \A m \in Commits : fate'[m] \in {"queued", "sent", "accepted", "parked"} => fate'[m] = fate[m]
    BY <2>1
  <2> QED BY <2>1, <2>2, FateOrderKept
<1>11. CASE Resume
  <2>1. fate' = fate /\ replica'.outstanding = replica.outstanding /\ replica'.caughtUp = replica.caughtUp
    BY <1>11, ResumeEffect
  <2> QED BY <1>a, <2>1
<1>12. CASE Replace
  <2>1. /\ replica'.outstanding = replica.outstanding /\ replica'.caughtUp = replica.caughtUp
        /\ \A n \in Commits : \/ fate[n] = "parked" /\ fate'[n] = "applied"
                              \/ fate[n] = "repairing" /\ fate'[n] = "doomed"
                              \/ fate[n] \notin {"parked", "repairing"} /\ fate'[n] = fate[n]
    BY <1>12, ReplaceEffect
  <2>2. \A m \in Commits : fate'[m] \in {"queued", "sent", "accepted", "parked"} => fate'[m] = fate[m]
    BY <2>1
  <2> QED BY <2>1, <2>2, FateOrderKept
<1>13. CASE UNCHANGED vars
  <2>1. UNCHANGED <<fate, replica>>
    BY <1>13 DEF vars
  <2> QED BY <1>a, <2>1
<1> QED BY <1>1, <1>2, <1>3, <1>4, <1>5, <1>6, <1>7, <1>8, <1>9, <1>10, <1>11, <1>12, <1>13
        DEF Next, Progress

\* A watch request there may be.
LEMMA SomeWatch == \E w : w.type = "watch"
<1>1. [type |-> "watch"].type = "watch"
  OBVIOUS
<1> QED BY <1>1

\* Every step keeps the order of the line.
LEMMA LineStep ==
  ASSUME IInv, Shaped, FateOrder, LineInv, [Next]_vars
  PROVE  LineInv'
<1>a. ASSUME toServer' = toServer, toClient' = toClient,
             replica'.outstanding = replica.outstanding, replica'.restoring = replica.restoring
      PROVE  LineInv'
  BY <1>a, LineKept
<1>0. Watches \notin Commits
  BY CommitNumbers
<1>1. CASE Decide
  BY <1>1, LineDecide
<1>2. CASE Flush
  <2>1. /\ toServer' = toServer /\ replica' = replica
        /\ \E f : FrameShaped(f) /\ f.restores = FALSE /\ (toClient' = Append(toClient, f) \/ toClient' = toClient)
    BY <1>2, FlushEffect
  <2>2. PICK f : FrameShaped(f) /\ f.restores = FALSE /\ (toClient' = Append(toClient, f) \/ toClient' = toClient)
    BY <2>1
  <2>3. CASE toClient' = toClient
    BY <1>a, <2>1, <2>3
  <2>4. CASE toClient' = Append(toClient, f)
    BY <2>1, <2>2, <2>4, LineFrame DEF FrameShaped
  <2> QED BY <2>2, <2>3, <2>4
<1>3. CASE SetWatches
  <2>1. /\ replica' = replica
        /\ toServer # <<>> /\ toServer[1].type = "watch" /\ toServer' = Tail(toServer)
        /\ \E f : FrameShaped(f) /\ f.restores = TRUE /\ toClient' = Append(toClient, f)
    BY <1>3, SetWatchesEffect
  <2> QED BY <2>1, LineFrame DEF FrameShaped
<1>4. CASE ReceiveVerdict
  <2>1. /\ toServer' = toServer /\ toClient # <<>> /\ toClient' = Tail(toClient)
        /\ toClient[1].type = "verdict" /\ toClient[1].n \in Commits
        /\ replica'.outstanding = replica.outstanding \ {toClient[1].n}
        /\ replica'.restoring = replica.restoring \ {toClient[1].n}
    BY <1>4, ReceiveVerdictEffect
  <2>2. Watches \in replica'.restoring <=> Watches \in replica.restoring
    BY <1>0, <2>1
  <2>3. IsVerdict(1)
    BY <2>1 DEF IsVerdict
  <2> QED BY <2>1, <2>2, <2>3, LineAnswer
<1>5. CASE ReceiveFrame
  <2>1. /\ toServer' = toServer /\ toClient # <<>> /\ toClient' = Tail(toClient)
        /\ FrameShaped(toClient[1]) /\ replica'.outstanding = replica.outstanding
        /\ replica'.restoring = IF toClient[1].restores THEN replica.restoring \ {Watches}
                                ELSE replica.restoring
    BY <1>5, ReceiveFrameEffect
  <2>2. IsFrame(1) /\ toClient[1].restores \in BOOLEAN
    BY <2>1 DEF IsFrame, FrameShaped
  <2> QED BY <2>1, <2>2, LineAnswer
<1>6. ASSUME NEW n \in Commits, Send(n) PROVE LineInv'
  <2>1. /\ toClient' = toClient /\ fate[n] = "queued" /\ replica.restoring = {}
        /\ \/ toServer' = toServer /\ replica' = replica
           \/ /\ \E a : a.type = "commit" /\ a.n = n /\ toServer' = Append(toServer, a)
              /\ replica'.outstanding = replica.outstanding \cup {n}
              /\ replica'.restoring = replica.restoring
    BY <1>6, SendEffect
  <2>2. CASE toServer' = toServer /\ replica' = replica
    BY <1>a, <2>1, <2>2
  <2>3. CASE /\ \E a : a.type = "commit" /\ a.n = n /\ toServer' = Append(toServer, a)
             /\ replica'.outstanding = replica.outstanding \cup {n}
             /\ replica'.restoring = replica.restoring
    BY <2>1, <2>3, LineSend
  <2> QED BY <2>1, <2>2, <2>3
<1>7. ASSUME NEW n \in Commits, SettleAccept(n) PROVE LineInv'
  <2>1. /\ UNCHANGED <<toServer, toClient>> /\ replica'.outstanding = replica.outstanding
        /\ replica'.restoring = replica.restoring
    BY <1>7, SettleAcceptEffect
  <2> QED BY <1>a, <2>1
<1>8. ASSUME NEW n \in Commits, Drop(n) PROVE LineInv'
  <2>1. /\ UNCHANGED <<toServer, toClient>> /\ replica'.outstanding = replica.outstanding
        /\ replica'.restoring = replica.restoring
    BY <1>8, DropEffect
  <2> QED BY <1>a, <2>1
<1>9. ASSUME NEW d \in Docs, NEW op, CommitForeign(d, op) PROVE LineInv'
  <2>1. UNCHANGED <<toServer, toClient, replica>>
    BY <1>9, ForeignEffect
  <2> QED BY <1>a, <2>1
<1>10. ASSUME NEW d \in Docs, NEW op, NEW docs \in SUBSET Docs, Issue(d, op, docs) PROVE LineInv'
  <2>1. /\ UNCHANGED <<toServer, toClient>> /\ replica'.outstanding = replica.outstanding
        /\ replica'.restoring = replica.restoring
    BY <1>10, IssueEffect
  <2> QED BY <1>a, <2>1
<1>11. ASSUME NEW n \in Commits, RepairTimesOut(n) PROVE LineInv'
  <2>1. UNCHANGED <<toServer, toClient, replica>>
    BY <1>11, RepairTimesOutEffect
  <2> QED BY <1>a, <2>1
<1>12. CASE Resume
  <2>1. /\ toServer' = Resent /\ replica'.restoring = replica.outstanding
        /\ replica'.outstanding = replica.outstanding
        /\ \E f : FrameShaped(f) /\ f.restores = FALSE /\ toClient' = <<f>>
    BY <1>12, ResumeEffect
  <2>2. Watches \notin replica'.restoring
    BY <1>0, <2>1, ReplicaFields
  <2>3. \A i \in DOMAIN toClient' : toClient'[i].type = "frame" /\ toClient'[i].restores = FALSE
    <3>1. PICK f : FrameShaped(f) /\ f.restores = FALSE /\ toClient' = <<f>>
      BY <2>1
    <3>2. \A i \in DOMAIN toClient' : toClient'[i] = f
      BY <3>1
    <3> QED BY <3>1, <3>2 DEF FrameShaped
  <2> QED BY <2>1, <2>2, <2>3, SomeWatch, LineAgain
<1>13. CASE Replace
  <2>1. /\ toClient' = <<>> /\ replica'.restoring = {Watches} \cup replica.outstanding
        /\ replica'.outstanding = replica.outstanding
        /\ \E w : w.type = "watch" /\ w.holdings = replica.delivered /\ toServer' = Append(Resent, w)
    BY <1>13, ReplaceEffect
  <2>2. Watches \in replica'.restoring
    BY <2>1
  <2> QED BY <2>1, <2>2, LineAgain
<1>14. CASE UNCHANGED vars
  <2>1. UNCHANGED <<toServer, toClient, replica>>
    BY <1>14 DEF vars
  <2> QED BY <1>a, <2>1
<1> QED BY <1>1, <1>2, <1>3, <1>4, <1>5, <1>6, <1>7, <1>8, <1>9, <1>10, <1>11, <1>12, <1>13, <1>14
        DEF Next, Progress

\* The line at the start.
LEMMA InitLine ==
  ASSUME Init
  PROVE  FateOrder /\ LineInv
<1>1. /\ toServer = <<>> /\ toClient = <<>> /\ fate = [n \in Commits |-> "unissued"]
      /\ replica.outstanding = {} /\ replica.restoring = {}
  BY DEF Init
<1>2. DOMAIN toServer = {} /\ DOMAIN toClient = {}
  BY <1>1
<1>3. FateOrder
  BY <1>1 DEF FateOrder, QueueOrder, SentOut, AheadOfOut, ParkedFirst, ParkedWaits, Out
<1>4. LineInv
  BY <1>1, <1>2 DEF LineInv, LineOrder, OnLine, WatchOut, Asked, Answered, Out
<1> QED BY <1>3, <1>4

-----------------------------------------------------------------------------
(* The order of the decisions                                              *)

\* The store, the replica, the server or a frame knows commit m as decided.
Passed(m) ==
  \/ Resolved(m) \/ m <= replica.caughtUp \/ m <= server.told \/ m <= server.owed
  \/ \E i \in DOMAIN toClient : IsFrame(i) /\ m <= toClient[i].marker

\* Commit n is stored, or will never be.
Decided(n) ==
  /\ n <= Len(issued) /\ fate[n] # "queued"
  /\ Resolved(n) \/ ~ Out(n) \/ ~ Admissible(issued[n])

\* What is before a decided commit is decided.
InTurn == \A m, n \in Commits : Passed(m) /\ n <= m => Decided(n)

\* The marker of a verdict on its way is owed, or was given out.
VerdictsPassed ==
  \A n \in Commits : \A i \in DOMAIN toClient :
    Tells(i, n) => n <= server.owed \/ n <= server.told

TurnInv == InTurn /\ VerdictsPassed /\ StoredInOrder

\* Nothing stored: what was decided stays so.
LEMMA DecidedKept ==
  ASSUME log' = log, Len(issued) \in Nat, Len(issued') \in Nat, Len(issued) <= Len(issued'),
         \A n \in 1..Len(issued) : issued'[n] = issued[n],
         \A n \in 1..Len(issued) : fate'[n] = "queued" => fate[n] = "queued",
         \A n \in 1..Len(issued) : n \in replica'.outstanding /\ fate[n] # "queued" => Out(n),
         NEW n \in Commits, Decided(n)
  PROVE  Decided(n)'
<1>1. n \in 1..Len(issued) /\ n <= Len(issued')
  BY CommitNumbers DEF Decided
<1>2. issued'[n] = issued[n] /\ fate'[n] # "queued" /\ (n \in replica'.outstanding => Out(n))
  BY <1>1 DEF Decided
<1>3. Resolved(n) => Resolved(n)'
  BY DEF Resolved
<1>4. ~ Admissible(issued[n]) => ~ Admissible(issued[n])'
  <2>1. PICK c : c = issued[n]
    OBVIOUS
  <2>2. Admissible(c)' => Admissible(c)
    BY DEF Admissible, Fresh, Resolved
  <2>3. Admissible(issued[n])' => Admissible(c)'
    BY <1>2, <2>1 DEF Admissible, Fresh, Resolved
  <2> QED BY <2>1, <2>2, <2>3
<1> QED BY <1>1, <1>2, <1>3, <1>4 DEF Decided, Out

\* A row that is of no commit a refused one read through leaves that refused.
LEMMA RefusedStays ==
  ASSUME IsSeq(log), NEW row, log' = Append(log, row), issued' = issued,
         NEW n, ~ Admissible(issued[n]),
         \A d \in DOMAIN issued[n].reads : row.by \notin issued[n].reads[d].layers
  PROVE  ~ Admissible(issued[n])'
<1>1. /\ \A q \in DOMAIN log : q \in DOMAIN log' /\ log'[q] = log[q]
      /\ \A m : Resolved(m)' <=> Resolved(m) \/ m = row.by
  BY PastStays, LogGrows
<1>2. PICK c : c = issued[n]
  OBVIOUS
<1>3. PICK d \in DOMAIN c.reads : ~ Fresh(d, c.reads[d])
  BY <1>2 DEF Admissible
<1>4. PICK r : r = c.reads[d]
  OBVIOUS
<1>5. ~ Fresh(d, r)'
  BY <1>1, <1>2, <1>3, <1>4 DEF Fresh
<1>6. ~ Admissible(c)'
  BY <1>3, <1>4, <1>5 DEF Admissible, Fresh
<1> QED BY <1>2, <1>6 DEF Admissible, Fresh, Resolved

\* Nothing decided: the turns are kept.
LEMMA TurnKept ==
  ASSUME TurnInv, log' = log,
         \A m \in Commits : Passed(m)' => Passed(m),
         \A n \in Commits : Decided(n) => Decided(n)',
         \A n \in Commits : \A i \in DOMAIN toClient' : Tells(i, n)' =>
           n <= server'.owed \/ n <= server'.told
  PROVE  TurnInv'
<1>1. InTurn'
  BY DEF TurnInv, InTurn
<1>2. VerdictsPassed'
  BY DEF TurnInv, VerdictsPassed
<1>3. StoredInOrder'
  BY DEF TurnInv, StoredInOrder
<1> QED BY <1>1, <1>2, <1>3 DEF TurnInv

\* A commit decided: it is the first that was not, and the last that is.
LEMMA TurnDecide ==
  ASSUME IInv, Shaped, FateOrder, LineInv, TurnInv, Decide
  PROVE  TurnInv'
<1>1. PICK n, a :
        /\ UNCHANGED <<issued, fate, replica>>
        /\ toServer # <<>> /\ toServer[1].type = "commit" /\ toServer' = Tail(toServer)
        /\ n = toServer[1].n /\ n \in 1..Len(issued) /\ n \in replica.outstanding
        /\ server'.told = server.told /\ server'.owed \in {server.owed, n}
        /\ server.owed <= server'.owed /\ n <= server'.owed
        /\ a.type = "verdict" /\ a.n = n /\ toClient' = Append(toClient, a)
        /\ \/ log' = log /\ (Resolved(n) \/ ~ Admissible(issued[n]))
           \/ /\ ~ Resolved(n) /\ Admissible(issued[n])
              /\ \E row : /\ log' = Append(log, row) /\ row.doc = issued[n].doc /\ row.by = n
  BY DecideEffect
<1>2. n \in Commits /\ Out(n) /\ Carries(1, n) /\ 1 \in DOMAIN toServer
  BY <1>1, IssuedAre, ShrinksIs DEF Out, Carries, IInv, Typed
<1>3. fate[n] # "queued"
  BY <1>2 DEF IInv, Unsent, Out
<1>4. server.owed \in Nat /\ server.told \in Nat
  BY DEF Shaped, ServerShaped
<1>5. \A k \in Commits : k < n => Decided(k)
  <2>1. SUFFICES ASSUME NEW k \in Commits, k < n PROVE Decided(k)
    OBVIOUS
  <2>2. fate[k] # "queued"
    <3>1. fate[k] = "queued" => n < k
      BY <1>2 DEF FateOrder, QueueOrder
    <3> QED BY <1>2, <2>1, <3>1, CommitNumbers
  <2>3. k <= Len(issued)
    BY <1>1, <2>1, IssuedAre, CommitNumbers DEF IInv
  <2>4. CASE ~ Out(k)
    BY <2>2, <2>3, <2>4 DEF Decided
  <2>5. CASE \E i \in DOMAIN toServer : Carries(i, k)
    <3>1. PICK i \in DOMAIN toServer : Carries(i, k)
      BY <2>5
    <3>2. i # 1 /\ 1 < i
      <4>1. i # 1
        BY <1>2, <2>1, <3>1, CommitNumbers DEF Carries
      <4>2. i \in Nat /\ i >= 1
        BY DEF IInv, Typed, IsSeq
      <4> QED BY <4>1, <4>2
    <3>3. n < k
      BY <1>2, <3>1, <3>2 DEF LineInv, LineOrder, IsRequest, Carries
    <3> QED BY <1>2, <2>1, <3>3, CommitNumbers
  <2>6. CASE \E i \in DOMAIN toClient : Tells(i, k)
    <3>1. Passed(k)
      BY <2>6 DEF TurnInv, VerdictsPassed, Passed
    <3> QED BY <3>1, CommitNumbers DEF TurnInv, InTurn
  <2> QED BY <2>4, <2>5, <2>6 DEF LineInv, OnLine
<1>6. ASSUME log' # log, NEW m \in Commits, Passed(m) PROVE m < n
  <2>1. SUFFICES ASSUME n <= m PROVE FALSE
    BY <1>2, CommitNumbers
  <2>2. Decided(n)
    BY <1>2, <1>6, <2>1 DEF TurnInv, InTurn
  <2> QED BY <1>1, <1>2, <1>6, <2>2 DEF Decided
<1>8. \A k \in Commits : k <= n \/ (\E m \in Commits : Passed(m) /\ k <= m) => Decided(k)'
  <2>1. SUFFICES ASSUME NEW k \in Commits, k <= n \/ (\E m \in Commits : Passed(m) /\ k <= m)
                 PROVE  Decided(k)'
    OBVIOUS
  <2>2. CASE log' = log
    <3>1. k # n \/ (k = n /\ (Resolved(n) \/ ~ Admissible(issued[n])))
      BY <1>1, <1>2, <2>2
    <3>2. Decided(k)
      <4>1. CASE k = n
        BY <1>1, <1>2, <1>3, <2>2, <3>1, <4>1, IssuedAre, CommitNumbers DEF Decided, IInv
      <4>2. CASE k # n /\ k <= n
        BY <1>2, <1>5, <4>2, CommitNumbers
      <4>3. CASE \E m \in Commits : Passed(m) /\ k <= m
        BY <4>3 DEF TurnInv, InTurn
      <4> QED BY <2>1, <4>1, <4>2, <4>3
    <3>3. Len(issued) \in Nat
      BY IssuedAre DEF IInv
    <3> QED BY <1>1, <2>2, <3>2, <3>3, DecidedKept DEF Out
  <2>3. CASE log' # log
    <3>1. PICK row : log' = Append(log, row) /\ row.doc = issued[n].doc /\ row.by = n
      BY <1>1, <2>3
    <3>2. \A m : Resolved(m)' <=> Resolved(m) \/ m = n
      BY <3>1, LogGrows DEF IInv, Typed
    <3>3. CASE k = n
      <4>1. n <= Len(issued')
        BY <1>1, IssuedAre DEF IInv
      <4>2. fate'[n] # "queued"
        BY <1>1, <1>3
      <4>3. Resolved(k)'
        BY <3>2, <3>3
      <4> QED BY <3>3, <4>1, <4>2, <4>3 DEF Decided
    <3>4. CASE k # n
      <4>1. k < n
        BY <1>2, <1>6, <2>1, <2>3, <3>4, CommitNumbers
      <4>2. Decided(k) /\ k \in 1..Len(issued)
        <5>1. Decided(k)
          BY <1>5, <4>1
        <5> QED BY <5>1, IssuedAre, CommitNumbers DEF Decided, IInv
      <4>3. ~ Admissible(issued[k]) => ~ Admissible(issued[k])'
        <5>1. CommitShaped(k)
          BY <4>2 DEF Shaped
        <5>2. \A d \in DOMAIN issued[k].reads : row.by \notin issued[k].reads[d].layers
          BY <1>2, <3>1, <4>1, <4>2, <5>1, CommitNumbers DEF CommitShaped
        <5>3. IsSeq(log) /\ issued' = issued
          BY <1>1 DEF IInv, Typed
        <5> QED BY <3>1, <5>2, <5>3, RefusedStays
      <4> QED BY <1>1, <3>2, <4>2, <4>3 DEF Decided, Out
    <3> QED BY <3>3, <3>4
  <2> QED BY <2>2, <2>3
<1>9. \A m \in Commits : Passed(m)' => Passed(m) \/ m <= n
  <2>1. SUFFICES ASSUME NEW m \in Commits, Passed(m)' PROVE Passed(m) \/ m <= n
    OBVIOUS
  <2>2. Resolved(m)' => Resolved(m) \/ m = n
    <3>1. CASE log' = log
      BY <3>1 DEF Resolved
    <3>2. CASE log' # log
      BY <1>1, <3>2, LogGrows DEF IInv, Typed
    <3> QED BY <3>1, <3>2
  <2>3. m <= server'.owed => m <= server.owed \/ m <= n
    BY <1>1
  <2>4. \A i \in DOMAIN toClient' : toClient'[i].type = "frame" => i \in DOMAIN toClient /\ toClient'[i] = toClient[i]
    BY <1>1, GrowsIs DEF IInv, Typed
  <2>5. m <= n \/ m # n
    BY <1>2, CommitNumbers
  <2> QED BY <1>1, <2>1, <2>2, <2>3, <2>4, CommitNumbers DEF Passed, IsFrame
<1>10. InTurn'
  <2>1. SUFFICES ASSUME NEW m \in Commits, NEW k \in Commits, Passed(m)', k <= m PROVE Decided(k)'
    BY DEF InTurn
  <2>2. CASE Passed(m)
    BY <1>8, <2>1, <2>2
  <2>3. CASE m <= n
    BY <1>2, <1>8, <2>1, <2>3, CommitNumbers
  <2> QED BY <1>9, <2>1, <2>2, <2>3
<1>11. VerdictsPassed'
  <2>1. SUFFICES ASSUME NEW k \in Commits, NEW i \in DOMAIN toClient', Tells(i, k)'
                 PROVE  k <= server'.owed \/ k <= server'.told
    BY DEF VerdictsPassed
  <2>2. (i \in DOMAIN toClient /\ toClient'[i] = toClient[i]) \/ toClient'[i] = a
    BY <1>1, GrowsIs DEF IInv, Typed
  <2>3. CASE i \in DOMAIN toClient /\ toClient'[i] = toClient[i]
    <3>1. k <= server.owed \/ k <= server.told
      BY <2>1, <2>3 DEF Tells, TurnInv, VerdictsPassed
    <3> QED BY <1>1, <1>2, <1>4, <3>1, CommitNumbers
  <2>4. CASE toClient'[i] = a
    BY <1>1, <2>1, <2>4 DEF Tells
  <2> QED BY <2>2, <2>3, <2>4
<1>12. StoredInOrder'
  <2>1. CASE log' = log
    BY <2>1 DEF TurnInv, StoredInOrder
  <2>2. CASE log' # log
    <3>1. PICK row : log' = Append(log, row) /\ row.doc = issued[n].doc /\ row.by = n
      BY <1>1, <2>2
    <3>2. /\ \A q \in DOMAIN log : q \in DOMAIN log' /\ log'[q] = log[q]
          /\ DOMAIN log' = DOMAIN log \cup {Len(log) + 1} /\ log'[Len(log) + 1] = row
          /\ Len(log) \in Nat /\ DOMAIN log = 1..Len(log)
      BY <3>1, PastStays DEF IInv, Typed
    <3>3. SUFFICES ASSUME NEW p \in DOMAIN log', NEW q \in DOMAIN log',
                          log'[p].by \in Commits, log'[q].by \in Commits, log'[p].by < log'[q].by
                   PROVE  p < q
      BY DEF StoredInOrder
    <3>4. CASE p \in DOMAIN log /\ q \in DOMAIN log
      BY <3>2, <3>3, <3>4 DEF TurnInv, StoredInOrder
    <3>5. CASE p \in DOMAIN log /\ q = Len(log) + 1
      BY <3>2, <3>5
    <3>6. CASE p = Len(log) + 1 /\ q \in DOMAIN log
      <4>1. Resolved(log[q].by) /\ log[q].by \in Commits /\ log'[q].by = log[q].by
        BY <3>2, <3>3, <3>6 DEF Resolved
      <4>2. log[q].by < n
        BY <1>6, <2>2, <4>1 DEF Passed
      <4>3. n < log[q].by
        BY <3>1, <3>2, <3>3, <3>6, <4>1
      <4> QED BY <1>2, <4>1, <4>2, <4>3, CommitNumbers
    <3>7. CASE p = Len(log) + 1 /\ q = Len(log) + 1
      BY <1>2, <3>3, <3>7, CommitNumbers
    <3> QED BY <3>2, <3>4, <3>5, <3>6, <3>7
  <2> QED BY <2>1, <2>2
<1> QED BY <1>10, <1>11, <1>12 DEF TurnInv

\* The answers on the way after: those there were, and a frame.
FrameMore(f) ==
  \/ toClient' = toClient \/ toClient' = Append(toClient, f)
  \/ toClient # <<>> /\ toClient' = Tail(toClient)
  \/ toClient' = <<f>> \/ toClient' = <<>>

\* The answers there are after a frame was sent, one was taken, or all were lost.
LEMMA AnswersAre ==
  ASSUME IsSeq(toClient), NEW f, FrameMore(f)
  PROVE  \A i \in DOMAIN toClient' : toClient'[i] = f \/ \E j \in DOMAIN toClient : toClient'[i] = toClient[j]
<1>1. CASE toClient' = Append(toClient, f)
  BY <1>1, GrowsIs
<1>2. CASE toClient # <<>> /\ toClient' = Tail(toClient)
  BY <1>2, ShrinksIs
<1>3. CASE toClient' = <<f>>
  BY <1>3
<1>4. CASE toClient' = <<>>
  BY <1>4
<1>5. CASE toClient' = toClient
  BY <1>5
<1> QED BY <1>1, <1>2, <1>3, <1>4, <1>5 DEF FrameMore

\* Nothing stored or decided, at most a frame sent.
LEMMA TurnSame ==
  ASSUME IInv, Shaped, TurnInv, log' = log, Len(issued') \in Nat, Len(issued) <= Len(issued'),
         \A n \in 1..Len(issued) : issued'[n] = issued[n],
         \A n \in 1..Len(issued) : fate'[n] = "queued" => fate[n] = "queued",
         \A n \in 1..Len(issued) : n \in replica'.outstanding /\ fate[n] # "queued" => Out(n),
         NEW f, f.type = "frame", FrameMore(f),
         \A m \in Commits : m <= f.marker \/ m <= server'.told \/ m <= server'.owed \/ m <= replica'.caughtUp
           => Passed(m),
         \/ \A n \in Commits : n <= server.owed \/ n <= server.told =>
              n <= server'.owed \/ n <= server'.told
         \/ toClient' = <<f>> \/ toClient' = <<>>
  PROVE  TurnInv'
<1>0. IsSeq(toClient)
  BY DEF IInv, Typed
<1>1. \A i \in DOMAIN toClient' : toClient'[i] = f \/ \E j \in DOMAIN toClient : toClient'[i] = toClient[j]
  BY <1>0, AnswersAre
<1>2. \A m \in Commits : Passed(m)' => Passed(m)
  <2>1. SUFFICES ASSUME NEW m \in Commits, Passed(m)' PROVE Passed(m)
    OBVIOUS
  <2>2. CASE Resolved(m)'
    BY <2>2 DEF Resolved, Passed
  <2>3. CASE \E i \in DOMAIN toClient' : toClient'[i].type = "frame" /\ m <= toClient'[i].marker
    BY <1>1, <2>3 DEF Passed, IsFrame
  <2> QED BY <2>1, <2>2, <2>3 DEF Passed, IsFrame
<1>3. Len(issued) \in Nat
  BY IssuedAre DEF IInv
<1>4. \A n \in Commits : Decided(n) => Decided(n)'
  BY <1>3, DecidedKept
<1>5. \A n \in Commits : \A i \in DOMAIN toClient' : Tells(i, n)' =>
        n <= server'.owed \/ n <= server'.told
  <2>1. SUFFICES ASSUME NEW n \in Commits, NEW i \in DOMAIN toClient', toClient'[i].type = "verdict",
                        toClient'[i].n = n
                 PROVE  n <= server'.owed \/ n <= server'.told
    BY DEF Tells
  <2>2. toClient'[i] # f
    BY <2>1
  <2>3. PICK j \in DOMAIN toClient : toClient'[i] = toClient[j]
    BY <1>1, <2>2
  <2>4. n <= server.owed \/ n <= server.told
    BY <2>1, <2>3 DEF TurnInv, VerdictsPassed, Tells
  <2>5. toClient' # <<f>> /\ toClient' # <<>>
    BY <2>2
  <2> QED BY <2>4, <2>5
<1> QED BY <1>2, <1>4, <1>5, TurnKept

\* Another session's commit is stored: what was refused stays so.
LEMMA TurnForeign ==
  ASSUME IInv, Shaped, TurnInv, NEW d \in Docs, NEW op, CommitForeign(d, op)
  PROVE  TurnInv'
<1>1. PICK row :
        /\ UNCHANGED <<toServer, toClient, issued, fate, replica>>
        /\ log' = Append(log, row) /\ row.by = Foreign
        /\ server'.owed = server.owed /\ server'.told = server.told
  BY ForeignEffect
<1>2. /\ \A m : Resolved(m)' <=> Resolved(m) \/ m = Foreign
      /\ \A q \in DOMAIN log : q \in DOMAIN log' /\ log'[q] = log[q]
      /\ DOMAIN log' = DOMAIN log \cup {Len(log) + 1} /\ log'[Len(log) + 1] = row
  BY <1>1, LogGrows, PastStays DEF IInv, Typed
<1>3. \A m \in Commits : Resolved(m)' <=> Resolved(m)
  BY <1>2, CommitNumbers
<1>4. \A m \in Commits : Passed(m)' => Passed(m)
  BY <1>1, <1>3 DEF Passed, IsFrame
<1>5. ASSUME NEW n \in Commits, Decided(n) PROVE Decided(n)'
  <2>1. n \in 1..Len(issued)
    BY <1>5, IssuedAre, CommitNumbers DEF Decided, IInv
  <2>2. ASSUME ~ Admissible(issued[n]) PROVE ~ Admissible(issued[n])'
    <3>1. CommitShaped(n)
      BY <2>1 DEF Shaped
    <3>2. \A e \in DOMAIN issued[n].reads : row.by \notin issued[n].reads[e].layers
      BY <1>1, <3>1, CommitNumbers DEF CommitShaped
    <3>3. IsSeq(log) /\ issued' = issued
      BY <1>1 DEF IInv, Typed
    <3> QED BY <1>1, <2>2, <3>2, <3>3, RefusedStays
  <2> QED BY <1>1, <1>3, <1>5, <2>2 DEF Decided, Out
<1>6. InTurn'
  BY <1>4, <1>5 DEF TurnInv, InTurn
<1>7. VerdictsPassed'
  BY <1>1 DEF TurnInv, VerdictsPassed, Tells
<1>8. StoredInOrder'
  <2>1. SUFFICES ASSUME NEW p \in DOMAIN log', NEW q \in DOMAIN log',
                        log'[p].by \in Commits, log'[q].by \in Commits, log'[p].by < log'[q].by
                 PROVE  p < q
    BY DEF StoredInOrder
  <2>2. p \in DOMAIN log /\ q \in DOMAIN log
    BY <1>1, <1>2, <2>1, CommitNumbers
  <2> QED BY <1>2, <2>1, <2>2 DEF TurnInv, StoredInOrder
<1> QED BY <1>6, <1>7, <1>8 DEF TurnInv

\* The order of the decisions holds in every state.
LEMMA TurnStep ==
  ASSUME IInv, Shaped, FateOrder, LineInv, TurnInv, [Next]_vars
  PROVE  TurnInv'
<1>0. /\ Len(issued) \in Nat /\ IsSeq(toClient) /\ server.owed \in Nat /\ server.told \in Nat
      /\ 1..Len(issued) \subseteq Commits /\ replica.caughtUp \in Nat
  BY IssuedAre DEF IInv, Typed, Shaped, ServerShaped, ReplicaShaped
<1>1. PICK z : z.type = "frame" /\ z.marker = 0
  <2>1. [type |-> "frame", marker |-> 0].type = "frame" /\ [type |-> "frame", marker |-> 0].marker = 0
    OBVIOUS
  <2> QED BY <2>1
<1>2. \A m \in Commits : m <= z.marker \/ m <= server.told \/ m <= server.owed \/ m <= replica.caughtUp
        => Passed(m)
  BY <1>1, CommitNumbers DEF Passed
<1>3. ASSUME UNCHANGED <<log, server, issued>>, replica'.caughtUp = replica.caughtUp,
             \A n \in 1..Len(issued) : fate'[n] = "queued" => fate[n] = "queued",
             \A n \in 1..Len(issued) : n \in replica'.outstanding /\ fate[n] # "queued" => Out(n),
             toClient' = toClient \/ (toClient # <<>> /\ toClient' = Tail(toClient))
      PROVE  TurnInv'
  BY <1>0, <1>1, <1>2, <1>3, TurnSame DEF FrameMore
<1>4. CASE \E d \in Docs, op \in {"set", "patch"} : CommitForeign(d, op)
  BY <1>4, TurnForeign
<1>5. CASE Decide
  BY <1>5, TurnDecide
<1>6. CASE Flush
  <2>1. PICK f : /\ UNCHANGED <<log, issued, fate, replica>>
                 /\ server'.owed = 0 /\ server'.told \in {server.told, server.owed}
                 /\ server.told <= server'.told /\ server.owed <= server'.told
                 /\ FrameShaped(f) /\ f.marker \in {0, server.owed}
                 /\ \/ toClient' = Append(toClient, f) \/ toClient' = toClient
    BY <1>6, FlushEffect
  <2>2. f.type = "frame" /\ FrameMore(f)
    BY <2>1 DEF FrameShaped, FrameMore
  <2>3. \A m \in Commits : m <= f.marker \/ m <= server'.told \/ m <= server'.owed \/ m <= replica'.caughtUp
          => Passed(m)
    BY <1>1, <1>2, <2>1
  <2>4. \A n \in Commits : n <= server.owed \/ n <= server.told => n <= server'.owed \/ n <= server'.told
    BY <1>0, <2>1, CommitNumbers
  <2> QED BY <1>0, <2>1, <2>2, <2>3, <2>4, TurnSame DEF Out
<1>7. CASE SetWatches
  <2>1. PICK f : /\ UNCHANGED <<log, issued, fate, replica>>
                 /\ server'.owed = server.owed /\ server'.told = server.told
                 /\ FrameShaped(f) /\ f.marker = 0 /\ toClient' = Append(toClient, f)
    BY <1>7, SetWatchesEffect
  <2>2. f.type = "frame" /\ FrameMore(f)
    BY <2>1 DEF FrameShaped, FrameMore
  <2>3. \A m \in Commits : m <= f.marker \/ m <= server'.told \/ m <= server'.owed \/ m <= replica'.caughtUp
          => Passed(m)
    BY <1>1, <1>2, <2>1
  <2> QED BY <1>0, <2>1, <2>2, <2>3, TurnSame DEF Out
<1>8. CASE ReceiveVerdict
  <2>1. /\ UNCHANGED <<log, server, issued>> /\ toClient # <<>> /\ toClient' = Tail(toClient)
        /\ toClient[1].n \in Commits
        /\ \A m \in Commits : m # toClient[1].n => fate'[m] = fate[m]
        /\ fate' = fate \/ fate'[toClient[1].n] \in {"accepted", "repairing"}
        /\ replica'.outstanding = replica.outstanding \ {toClient[1].n}
        /\ replica'.caughtUp = replica.caughtUp
    BY <1>8, ReceiveVerdictEffect
  <2>2. \A n \in 1..Len(issued) : fate'[n] = "queued" => fate[n] = "queued"
    BY <1>0, <2>1
  <2>3. \A n \in 1..Len(issued) : n \in replica'.outstanding /\ fate[n] # "queued" => Out(n)
    BY <2>1 DEF Out
  <2> QED BY <1>3, <2>1, <2>2, <2>3
<1>9. CASE ReceiveFrame
  <2>1. PICK f : f = toClient[1]
    OBVIOUS
  <2>2. /\ UNCHANGED <<log, server, issued>> /\ toClient # <<>> /\ toClient' = Tail(toClient)
        /\ FrameShaped(f)
        /\ \A n \in Commits : fate'[n] = IF n \in DueWith(f) THEN "applied" ELSE fate[n]
        /\ ToldWith(f) \in {replica.caughtUp, f.marker}
        /\ replica'.caughtUp = ToldWith(f) /\ replica'.outstanding = replica.outstanding
    BY <1>9, <2>1, ReceiveFrameEffect
  <2>3. 1 \in DOMAIN toClient
    BY <1>0, <2>2, ShrinksIs
  <2>4. f.type = "frame" /\ FrameMore(f)
    BY <2>2 DEF FrameShaped, FrameMore
  <2>5. \A m \in Commits : m <= f.marker => Passed(m)
    BY <2>1, <2>3, <2>4 DEF Passed, IsFrame
  <2>6. \A m \in Commits : m <= f.marker \/ m <= server'.told \/ m <= server'.owed \/ m <= replica'.caughtUp
          => Passed(m)
    BY <1>2, <2>2, <2>5
  <2>7. \A n \in 1..Len(issued) : fate'[n] = "queued" => fate[n] = "queued"
    BY <1>0, <2>2
  <2> QED BY <1>0, <2>2, <2>4, <2>6, <2>7, TurnSame DEF Out
<1>10. CASE \E n \in Commits : Send(n)
  <2>1. PICK n \in Commits : Send(n)
    BY <1>10
  <2>2. /\ UNCHANGED <<log, server, toClient, issued>> /\ fate[n] = "queued"
        /\ \A m \in Commits : m # n => fate'[m] = fate[m]
        /\ \/ fate'[n] = "waiting" /\ UNCHANGED <<toServer, replica>>
           \/ /\ fate'[n] = "sent" /\ replica'.outstanding = replica.outstanding \cup {n}
              /\ replica'.caughtUp = replica.caughtUp
    BY <2>1, SendEffect
  <2>3. \A m \in 1..Len(issued) : fate'[m] = "queued" => fate[m] = "queued"
    BY <1>0, <2>2
  <2>4. \A m \in 1..Len(issued) : m \in replica'.outstanding /\ fate[m] # "queued" => Out(m)
    BY <2>2 DEF Out
  <2>5. replica'.caughtUp = replica.caughtUp
    BY <2>2
  <2> QED BY <1>3, <2>2, <2>3, <2>4, <2>5
<1>11. CASE \E n \in Commits : SettleAccept(n)
  <2>1. PICK n \in Commits : SettleAccept(n)
    BY <1>11
  <2>2. /\ UNCHANGED <<log, server, toClient, issued>>
        /\ \A m \in Commits : m # n => fate'[m] = fate[m]
        /\ fate'[n] \in {"applied", "parked"}
        /\ replica'.outstanding = replica.outstanding
        /\ replica'.caughtUp = replica.caughtUp
    BY <2>1, SettleAcceptEffect
  <2>3. \A m \in 1..Len(issued) : fate'[m] = "queued" => fate[m] = "queued"
    BY <1>0, <2>2
  <2> QED BY <1>3, <2>2, <2>3 DEF Out
<1>12. CASE \E n \in Commits : Drop(n)
  <2>1. PICK n \in Commits : Drop(n)
    BY <1>12
  <2>2. /\ UNCHANGED <<log, server, toClient, issued>>
        /\ fate'[n] = "rejected"
        /\ \A m \in Commits : m # n => fate'[m] = fate[m] \/ fate'[m] = "doomed"
        /\ replica'.outstanding = replica.outstanding
        /\ replica'.caughtUp = replica.caughtUp
    BY <2>1, DropEffect
  <2>3. \A m \in 1..Len(issued) : fate'[m] = "queued" => fate[m] = "queued"
    BY <1>0, <2>2
  <2> QED BY <1>3, <2>2, <2>3 DEF Out
<1>13. CASE \E n \in Commits : RepairTimesOut(n)
  <2>1. PICK n \in Commits : RepairTimesOut(n)
    BY <1>13
  <2>2. /\ UNCHANGED <<log, server, toClient, issued, replica>>
        /\ fate'[n] = "doomed"
        /\ \A m \in Commits : m # n => fate'[m] = fate[m]
    BY <2>1, RepairTimesOutEffect
  <2>3. \A m \in 1..Len(issued) : fate'[m] = "queued" => fate[m] = "queued"
    BY <1>0, <2>2
  <2> QED BY <1>3, <2>2, <2>3 DEF Out
<1>14. CASE \E d \in Docs, op \in {"set", "patch"} : \E docs \in SUBSET Docs : Issue(d, op, docs)
  <2>1. PICK d \in Docs, op \in {"set", "patch"}, docs \in SUBSET Docs : Issue(d, op, docs)
    BY <1>14
  <2>2. PICK n : n = Len(issued) + 1
    OBVIOUS
  <2>3. /\ UNCHANGED <<log, server, toClient>>
        /\ n \notin 1..Len(issued) /\ \A m \in Commits : m # n => fate'[m] = fate[m]
        /\ Len(issued') = n /\ \A m \in 1..Len(issued) : issued'[m] = issued[m]
        /\ replica'.caughtUp = replica.caughtUp /\ replica'.outstanding = replica.outstanding
    BY <2>1, <2>2, IssueEffect
  <2>4. \A m \in 1..Len(issued) : fate'[m] = "queued" => fate[m] = "queued"
    BY <1>0, <2>3
  <2>5. Len(issued') \in Nat /\ Len(issued) <= Len(issued')
    BY <1>0, <2>2, <2>3
  <2>6. FrameMore(z)
    BY <2>3 DEF FrameMore
  <2> QED BY <1>0, <1>1, <1>2, <2>3, <2>4, <2>5, <2>6, TurnSame DEF Out
<1>15. CASE Resume
  <2>1. PICK f : /\ UNCHANGED <<log, issued, fate>>
                 /\ server'.owed = 0 /\ server'.told \in {server.told, server.owed}
                 /\ FrameShaped(f) /\ f.marker = server'.told /\ toClient' = <<f>>
                 /\ replica'.outstanding = replica.outstanding
                 /\ replica'.caughtUp = replica.caughtUp
    BY <1>15, ResumeEffect
  <2>2. f.type = "frame" /\ FrameMore(f)
    BY <2>1 DEF FrameShaped, FrameMore
  <2>3. \A m \in Commits : m <= f.marker \/ m <= server'.told \/ m <= server'.owed \/ m <= replica'.caughtUp
          => Passed(m)
    BY <1>1, <1>2, <2>1
  <2> QED BY <1>0, <2>1, <2>2, <2>3, TurnSame DEF Out
<1>16. CASE Replace
  <2>1. /\ UNCHANGED <<log, issued>> /\ toClient' = <<>> /\ server'.owed = 0 /\ server'.told = 0
        /\ \A n \in Commits : fate'[n] \in {"applied", "doomed"} \/ fate'[n] = fate[n]
        /\ replica'.outstanding = replica.outstanding
        /\ replica'.caughtUp = replica.caughtUp
    BY <1>16, ReplaceEffect
  <2>2. FrameMore(z)
    BY <2>1 DEF FrameMore
  <2>3. \A m \in Commits : m <= z.marker \/ m <= server'.told \/ m <= server'.owed \/ m <= replica'.caughtUp
          => Passed(m)
    BY <1>1, <1>2, <2>1
  <2>4. \A m \in 1..Len(issued) : fate'[m] = "queued" => fate[m] = "queued"
    BY <1>0, <2>1
  <2> QED BY <1>0, <1>1, <2>1, <2>2, <2>3, <2>4, TurnSame DEF Out
<1>17. CASE UNCHANGED vars
  BY <1>3, <1>17 DEF vars, Out
<1> QED BY <1>4, <1>5, <1>6, <1>7, <1>8, <1>9, <1>10, <1>11, <1>12, <1>13, <1>14, <1>15, <1>16, <1>17
        DEF Next, Progress

\* The order at the start.
LEMMA InitTurn ==
  ASSUME Init
  PROVE  TurnInv
<1>1. log = <<>> /\ toClient = <<>> /\ server.owed = 0 /\ server.told = 0 /\ replica.caughtUp = 0
  BY DEF Init
<1>2. \A m \in Commits : ~ Passed(m)
  BY <1>1, CommitNumbers DEF Passed, Resolved
<1> QED BY <1>1, <1>2 DEF TurnInv, InTurn, VerdictsPassed, StoredInOrder

-----------------------------------------------------------------------------
(* The kinds of steps, as the data see them                                *)

\* Nothing of the store, the server or the confirmed versions moves.
Quiet ==
  /\ log' = log /\ server' = server
  /\ replica'.confirmed = replica.confirmed /\ replica'.delivered = replica.delivered
  /\ replica'.caughtUp = replica.caughtUp
  /\ Watches \in replica'.restoring <=> Watches \in replica.restoring
  /\ \/ toClient' = toClient
     \/ toClient # <<>> /\ toClient[1].type = "verdict" /\ toClient' = Tail(toClient)
  /\ \/ toServer' = toServer
     \/ \E a : a.type = "commit" /\ toServer' = Append(toServer, a)
  /\ \A n \in Commits : fate'[n] = "applied" <=> fate[n] = "applied"

\* A row is new to the store.
NewRow(row) ==
  /\ log' = Append(log, row) /\ row.doc \in Docs /\ row.doc \in server'.dirty
  /\ \/ row.by = Foreign /\ server'.origin[row.doc].by # "own"
     \/ row.by \in Commits /\ ~ Passed(row.by) /\ fate[row.by] # "applied"

\* The store decides: a row at most, and a verdict at most.
Stores ==
  /\ UNCHANGED <<issued, fate, replica>>
  /\ \/ toServer' = toServer
     \/ toServer # <<>> /\ toServer[1].type = "commit" /\ toServer' = Tail(toServer)
  /\ \/ toClient' = toClient
     \/ \E a : a.type = "verdict" /\ toClient' = Append(toClient, a)
  /\ server'.watching = server.watching /\ server'.sent = server.sent /\ server'.told = server.told
  /\ server.dirty \subseteq server'.dirty
  /\ \A e \in Docs : server'.origin[e].by = "own" => server.origin[e].by = "own" \/ e \notin server.dirty
  /\ log' = log \/ \E row : NewRow(row)

\* An accept is settled under its marker.
Promotes(n) == SettleAccept(n) /\ n <= replica.caughtUp

\* What is stored by now was decided in turn.
LEMMA StoresDo ==
  ASSUME IInv, Shaped, TurnInv,
         Decide \/ \E d \in Docs, op \in {"set", "patch"} : CommitForeign(d, op)
  PROVE  Stores
<1>1. CASE Decide
  <2>1. PICK n, a :
          /\ UNCHANGED <<issued, fate, replica>>
          /\ toServer # <<>> /\ toServer[1].type = "commit" /\ toServer' = Tail(toServer)
          /\ n \in 1..Len(issued) /\ n \in replica.outstanding
          /\ server'.watching = server.watching /\ server'.sent = server.sent
          /\ server'.told = server.told
          /\ server.dirty \subseteq server'.dirty /\ issued[n].doc \in server'.dirty
          /\ \A e \in Docs : server'.origin[e].by = "own" =>
               server.origin[e].by = "own" \/ e \notin server.dirty
          /\ a.type = "verdict" /\ toClient' = Append(toClient, a)
          /\ \/ log' = log
             \/ /\ ~ Resolved(n) /\ Admissible(issued[n])
                /\ \E row : log' = Append(log, row) /\ row.doc = issued[n].doc /\ row.by = n
    BY <1>1, DecideEffect
  <2>2. CASE log' # log
    <3>1. PICK row : log' = Append(log, row) /\ row.doc = issued[n].doc /\ row.by = n
      BY <2>1, <2>2
    <3>2. n \in Commits /\ CommitShaped(n)
      BY <2>1, IssuedAre DEF IInv, Shaped
    <3>3. fate[n] # "applied"
      BY <2>1, <2>2, <3>2 DEF IInv, AcceptedStored
    <3>4. ~ Passed(n)
      <4>1. SUFFICES ASSUME Passed(n) PROVE FALSE
        OBVIOUS
      <4>2. Decided(n)
        BY <3>2, <4>1, CommitNumbers DEF TurnInv, InTurn
      <4> QED BY <2>1, <2>2, <4>2 DEF Decided, Out
    <3>5. NewRow(row)
      BY <2>1, <3>1, <3>2, <3>3, <3>4 DEF NewRow, CommitShaped
    <3> QED BY <2>1, <3>5 DEF Stores
  <2> QED BY <2>1, <2>2 DEF Stores
<1>2. ASSUME NEW d \in Docs, NEW op, CommitForeign(d, op) PROVE Stores
  <2>1. PICK row :
          /\ UNCHANGED <<toServer, toClient, issued, fate, replica>>
          /\ log' = Append(log, row) /\ row.doc = d /\ row.by = Foreign
          /\ server'.watching = server.watching /\ server'.sent = server.sent
          /\ server'.told = server.told
          /\ server'.dirty = server.dirty \cup {d}
          /\ \A e \in Docs : server'.origin[e].by = "own" => server.origin[e].by = "own" /\ e # d
    BY <1>2, ForeignEffect
  <2>2. NewRow(row)
    BY <2>1 DEF NewRow
  <2> QED BY <2>1, <2>2 DEF Stores
<1> QED BY <1>1, <1>2

\* The kinds there are.
LEMMA StepKinds ==
  ASSUME IInv, Shaped, TurnInv, [Next]_vars
  PROVE  \/ Quiet \/ Stores \/ Flush \/ SetWatches \/ ReceiveFrame
         \/ \E n \in Commits : Promotes(n)
         \/ Resume \/ Replace
<1>0. 1..Len(issued) \subseteq Commits /\ \A n \in Commits : fate[n] # "unissued" <=> n \in 1..Len(issued)
  BY IssuedAre DEF IInv
<1>1. CASE Decide \/ \E d \in Docs, op \in {"set", "patch"} : CommitForeign(d, op)
  BY <1>1, StoresDo
<1>2. CASE ReceiveVerdict
  <2>1. /\ UNCHANGED <<log, server, toServer, issued>> /\ toClient # <<>> /\ toClient' = Tail(toClient)
        /\ toClient[1].type = "verdict" /\ toClient[1].n \in Commits
        /\ \A m \in Commits : m # toClient[1].n => fate'[m] = fate[m]
        /\ \/ fate' = fate
           \/ fate[toClient[1].n] = "sent" /\ fate'[toClient[1].n] \in {"accepted", "repairing"}
        /\ replica'.restoring = replica.restoring \ {toClient[1].n}
        /\ replica'.confirmed = replica.confirmed /\ replica'.delivered = replica.delivered
        /\ replica'.caughtUp = replica.caughtUp
    BY <1>2, ReceiveVerdictEffect
  <2>2. Watches \in replica'.restoring <=> Watches \in replica.restoring
    BY <2>1, CommitNumbers
  <2>3. \A n \in Commits : fate'[n] = "applied" <=> fate[n] = "applied"
    BY <2>1
  <2> QED BY <2>1, <2>2, <2>3 DEF Quiet
<1>3. ASSUME NEW n \in Commits, Send(n) PROVE Quiet
  <2>1. /\ UNCHANGED <<log, server, toClient, issued>> /\ fate[n] = "queued"
        /\ \A m \in Commits : m # n => fate'[m] = fate[m]
        /\ \/ fate'[n] = "waiting" /\ UNCHANGED <<toServer, replica>>
           \/ /\ fate'[n] = "sent"
              /\ \E a : a.type = "commit" /\ a.n = n /\ toServer' = Append(toServer, a)
              /\ replica'.confirmed = replica.confirmed /\ replica'.delivered = replica.delivered
              /\ replica'.caughtUp = replica.caughtUp /\ replica'.restoring = replica.restoring
    BY <1>3, SendEffect
  <2>2. \A m \in Commits : fate'[m] = "applied" <=> fate[m] = "applied"
    BY <2>1
  <2> QED BY <2>1, <2>2 DEF Quiet
<1>4. ASSUME NEW n \in Commits, SettleAccept(n) PROVE Quiet \/ Promotes(n)
  <2>1. CASE ~ n <= replica.caughtUp
    <3>1. /\ UNCHANGED <<log, server, toServer, toClient, issued>> /\ fate[n] = "accepted"
          /\ \A m \in Commits : m # n => fate'[m] = fate[m]
          /\ fate'[n] = "parked" /\ replica' = replica
      BY <1>4, <2>1, SettleAcceptEffect
    <3>2. \A m \in Commits : fate'[m] = "applied" <=> fate[m] = "applied"
      BY <3>1
    <3> QED BY <3>1, <3>2 DEF Quiet
  <2> QED BY <1>4, <2>1 DEF Promotes
<1>5. ASSUME NEW n \in Commits, Drop(n) PROVE Quiet
  <2>1. /\ UNCHANGED <<log, server, toServer, toClient, issued>>
        /\ fate[n] \in {"doomed", "repairing", "waiting"} /\ fate'[n] = "rejected"
        /\ \A m \in Commits : m # n =>
             \/ fate'[m] = fate[m]
             \/ fate[m] \in {"queued", "sent"} /\ fate'[m] = "doomed"
        /\ replica'.confirmed = replica.confirmed /\ replica'.delivered = replica.delivered
        /\ replica'.caughtUp = replica.caughtUp /\ replica'.restoring = replica.restoring
    BY <1>5, DropEffect
  <2>2. \A m \in Commits : fate'[m] = "applied" <=> fate[m] = "applied"
    BY <2>1
  <2> QED BY <2>1, <2>2 DEF Quiet
<1>6. ASSUME NEW n \in Commits, RepairTimesOut(n) PROVE Quiet
  <2>1. /\ UNCHANGED <<log, server, toServer, toClient, issued, replica>>
        /\ fate[n] \in {"repairing", "waiting"} /\ fate'[n] = "doomed"
        /\ \A m \in Commits : m # n => fate'[m] = fate[m]
    BY <1>6, RepairTimesOutEffect
  <2>2. \A m \in Commits : fate'[m] = "applied" <=> fate[m] = "applied"
    BY <2>1
  <2> QED BY <2>1, <2>2 DEF Quiet
<1>7. ASSUME NEW d \in Docs, NEW op, NEW docs \in SUBSET Docs, Issue(d, op, docs) PROVE Quiet
  <2>1. PICK n : n = Len(issued) + 1
    OBVIOUS
  <2>2. /\ UNCHANGED <<log, server, toServer, toClient>> /\ fate[n] = "unissued" /\ fate'[n] = "queued"
        /\ \A m \in Commits : m # n => fate'[m] = fate[m]
        /\ replica'.confirmed = replica.confirmed /\ replica'.delivered = replica.delivered
        /\ replica'.caughtUp = replica.caughtUp /\ replica'.restoring = replica.restoring
    BY <1>7, <2>1, IssueEffect
  <2>3. \A m \in Commits : fate'[m] = "applied" <=> fate[m] = "applied"
    BY <2>2
  <2> QED BY <2>2, <2>3 DEF Quiet
<1>8. CASE UNCHANGED vars
  BY <1>8 DEF vars, Quiet
<1> QED BY <1>1, <1>2, <1>3, <1>4, <1>5, <1>6, <1>7, <1>8 DEF Next, Progress

=============================================================================
