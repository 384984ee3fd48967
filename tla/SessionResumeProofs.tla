-------------------------- MODULE SessionResumeProofs --------------------------
(***************************************************************************)
(* Theorems about a client session, for any number of connections, commits *)
(* and troubles, with or without access lists.                             *)
(*                                                                         *)
(* The client is never locked out (NeverLockedOut) because what it can     *)
(* present always resumes: the registry holds the client's token, or the   *)
(* one its last open presented, under no later attempt (CanResume), and no *)
(* open left on an old connection is admitted after a later one            *)
(* (AllJudged).  Once the registry has opened the session for the client's *)
(* connection, no answer on its way is outdated (AnswerStands) and no end  *)
(* is, while the principal is admitted (OwnerHeld, NoneTerminal).          *)
(*                                                                         *)
(* A refusal is final, and so is the access list's denial (RefusedFinal),  *)
(* because no copy of the commit can add to what is applied any more       *)
(* (Final): each connection with a handle has none in its queue, and each  *)
(* copy in hand came from a session that is not held.  A refused commit is *)
(* not applied besides; of a denied one it is known only that write access *)
(* was withdrawn at some time (Over): one copy may be applied and a later  *)
(* one denied, but nothing is applied behind a denial.  On the client's    *)
(* connection a refusal is final only while the session is held for it; a  *)
(* client that is to be told of its session's end hears of that first      *)
(* (EndTold).                                                              *)
(*                                                                         *)
(* First, what one step of a session does to its frames.                   *)
(*                                                                         *)
(* A line is the frames on their way up one connection, the request the    *)
(* server has in hand there, and the frames on their way back.  On the     *)
(* client's line nothing is asked twice, the watch set is asked for last,  *)
(* and nothing is asked that a client in its state would not wait for      *)
(* (LiveLine): an open's answer is heard only by a client that is opening, *)
(* and with a restore's last answer nothing that was asked is left.  On    *)
(* every line an open is last (OpensLast) and every commit was issued      *)
(* (Issued).                                                               *)
(*                                                                         *)
(* In order: sequences of frames; each action, as what it does to each     *)
(* part of the state; the owner (OwnerStep); the line as frames are sent,  *)
(* taken, answered and heard (LineStep); types (TypeStep).                 *)
(***************************************************************************)
EXTENDS SessionResume, TLAPS, FiniteSetTheorems

-----------------------------------------------------------------------------
(* Types                                                                   *)

\* Every token on its way, either way, was minted.
TokensMinted ==
  \A k \in Conns :
    /\ conn[k].work.at = "catch-up" => conn[k].work.token # 0
    /\ \A i \in DOMAIN toServer[k] :
         toServer[k][i].type = "open" => toServer[k][i].token \in 1 .. minted
    /\ \A i \in DOMAIN toClient[k] :
         toClient[k][i].type = "opened" => toClient[k][i].token \in 1 .. minted

TInv == TypeOK /\ TokensMinted

-----------------------------------------------------------------------------
(* The line between the client and its connection: the frames the server    *)
(* has yet to take, the request it has in hand, the frames on their way      *)
(* back.  Each asks one thing: a commit, the watch set (0), or an open.      *)

Live == client.at \notin {"down", "ended"}

\* How a commit may be answered.
Hows == {"accepted", "refused", "denied"}

\* Nothing the server says on connection k reaches the client.
Mute(k) == conn[k].closed \/ ~ Reads(k)

\* A frame that ends the client's session.
Terminal(f) == f.type = "revoked" \/ (f.type = "refused" /\ f.why # "retriable")

\* What a connection has yet to take of the frames sent on it.
Queue(c, U) == IF c.closed THEN <<>> ELSE U

OpenAsk == MaxCommits + 1

NoAsk == MaxCommits + 2

AskUp(f) ==
  IF f.type = "open" THEN OpenAsk ELSE IF f.type = "transact" THEN f.commit ELSE 0

AskWork(w) ==
  IF w.at = "idle" THEN NoAsk ELSE IF w.at = "transact" THEN w.commit ELSE OpenAsk

AskDown(f) ==
  IF f.type = "verdict" THEN f.commit
  ELSE IF f.type = "watched" THEN 0
  ELSE IF f.type = "revoked" THEN NoAsk ELSE OpenAsk

\* Something is asked by the frames U, the request in hand (x) or the frames D.
Asks(U, x, D, a) ==
  /\ a # NoAsk
  /\ \/ \E i \in DOMAIN U : AskUp(U[i]) = a
     \/ x = a
     \/ \E i \in DOMAIN D : AskDown(D[i]) = a

\* Nothing is asked twice on one line.
Distinct(U, x, D) ==
  /\ \A i, j \in DOMAIN U : AskUp(U[i]) = AskUp(U[j]) => i = j
  /\ \A i, j \in DOMAIN D : AskDown(D[i]) = AskDown(D[j]) => i = j \/ AskDown(D[i]) = NoAsk
  /\ \A i \in DOMAIN U : AskUp(U[i]) # x
  /\ \A j \in DOMAIN D : AskDown(D[j]) # x \/ x = NoAsk
  /\ \A i \in DOMAIN U : \A j \in DOMAIN D : AskUp(U[i]) # AskDown(D[j])

\* The watch set is asked for last.
WatchLast(U, x, D) ==
  /\ \A i \in DOMAIN U : AskUp(U[i]) = 0 => i = Len(U)
  /\ x = 0 => U = <<>>
  /\ \A j \in DOMAIN D : AskDown(D[j]) = 0 =>
       /\ U = <<>> /\ x = NoAsk
       /\ \A i \in DOMAIN D : i > j => AskDown(D[i]) = NoAsk

Orderly(U, x, D) == Distinct(U, x, D) /\ WatchLast(U, x, D)

\* What a client in state `at`, awaiting `aw`, can have asked.
Phase(at, aw, a) ==
  /\ at = "ready" => a \in Commits
  /\ at = "restoring" => a \in aw
  /\ at = "opening" => a = OpenAsk
  /\ at # "held"

Line(at, aw, U, x, D) ==
  /\ Orderly(U, x, D)
  /\ \A a \in 0 .. NoAsk : Asks(U, x, D, a) => Phase(at, aw, a)

LiveLine ==
  Live => Line(client.at, client.awaiting, Queue(conn[client.conn], toServer[client.conn]),
               AskWork(conn[client.conn].work), toClient[client.conn])

\* An open is the last thing the client sends until it is answered.
OpenLast(U, x) ==
  /\ \A i \in DOMAIN U : AskUp(U[i]) = OpenAsk => i = Len(U)
  /\ x = OpenAsk => U = <<>>

OpensLast == \A k \in Conns : OpenLast(Queue(conn[k], toServer[k]), AskWork(conn[k].work))

\* Only commits that were issued are sent, in hand or answered.
IssuedUp(U, t) == \A i \in DOMAIN U : AskUp(U[i]) \in Commits => t[AskUp(U[i])] # "unissued"

IssuedWork(w, t) ==
  w.at = "transact" => w.commit \in Commits /\ t[w.commit] # "unissued"

IssuedDown(D, t) ==
  \A i \in DOMAIN D : AskDown(D[i]) \in Commits => t[AskDown(D[i])] # "unissued"

Issued ==
  \A k \in Conns :
    IssuedUp(toServer[k], told) /\ IssuedWork(conn[k].work, told) /\ IssuedDown(toClient[k], told)

LInv == LiveLine /\ OpensLast /\ Issued

-----------------------------------------------------------------------------
(* Sequences, frames and commits                                           *)

\* Sets of commits are finite.
LEMMA CommitsFinite ==
  ASSUME NEW S \in SUBSET Commits
  PROVE  IsFiniteSet(S) /\ Cardinality(S) \in Nat
<1>1. MaxCommits \in Nat
  BY SessionAssumption
<1>2. 1 \in Int /\ MaxCommits \in Int
  BY <1>1
<1>3. IsFiniteSet(1 .. MaxCommits)
  BY <1>2, FS_Interval
<1>4. IsFiniteSet(S)
  BY <1>3, FS_Subset DEF Commits
<1> QED BY <1>4, FS_CardinalityType

\* The commits of a set, counted up to each of them, are numbered from 1.
LEMMA NthIs ==
  ASSUME NEW S \in SUBSET Commits, NEW i \in 1 .. Cardinality(S)
  PROVE  Nth(S, i) \in S /\ Cardinality({m \in S : m <= Nth(S, i)}) = i
<1> DEFINE To(n) == {m \in S : m <= n}
           f == [n \in S |-> Cardinality(To(n))]
           T == 1 .. Cardinality(S)
<1>1. IsFiniteSet(S) /\ Cardinality(S) \in Nat
  BY CommitsFinite
<1>2. \A n \in S : To(n) \in SUBSET S /\ n \in To(n) /\ n \in Nat
  BY SessionAssumption DEF Commits
<1>3. \A n \in S : IsFiniteSet(To(n)) /\ Cardinality(To(n)) <= Cardinality(S)
                   /\ Cardinality(To(n)) \in Nat
  BY <1>1, <1>2, FS_Subset, FS_CardinalityType
<1>4. \A n \in S : Cardinality(To(n)) # 0
  BY <1>2, <1>3, FS_EmptySet
<1>5. \A n \in S : Cardinality(To(n)) \in T
  BY <1>1, <1>3, <1>4
<1>6. \A n, m \in S : n < m => Cardinality(To(n)) # Cardinality(To(m))
  <2>1. SUFFICES ASSUME NEW n \in S, NEW m \in S, n < m
                 PROVE  Cardinality(To(n)) # Cardinality(To(m))
    OBVIOUS
  <2>2. To(n) \in SUBSET To(m) /\ m \notin To(n)
    BY <2>1, <1>2
  <2>3. Cardinality(To(m)) = Cardinality(To(n)) => To(m) = To(n)
    BY <2>2, <1>3, FS_Subset
  <2> QED BY <2>2, <2>3, <1>2
<1>7. \A n, m \in S : Cardinality(To(n)) = Cardinality(To(m)) => n = m
  BY <1>2, <1>6
<1>8. f \in [S -> T]
  BY <1>5
<1>9. f \in Injection(S, T)
  BY <1>7, <1>8 DEF Injection, IsInjective
<1>10. IsFiniteSet(T) /\ Cardinality(T) = Cardinality(S)
  BY <1>1, FS_Interval
<1>11. f \in Surjection(S, T)
  BY <1>9, <1>10, FS_Injection
<1>12. \E n \in S : f[n] = i
  BY <1>11 DEF Surjection
<1>13. \E n \in S : Cardinality({m \in S : m <= n}) = i
  BY <1>12
<1> QED BY <1>13 DEF Nth

\* The frames of a set of commits ask each of them once and nothing else.
LEMMA CommitFramesAre ==
  ASSUME NEW S \in SUBSET Commits
  PROVE  /\ CommitFrames(S) \in Seq(Requests)
         /\ \A i \in DOMAIN CommitFrames(S) :
              CommitFrames(S)[i].type = "transact" /\ CommitFrames(S)[i].commit \in S
         /\ \A i, j \in DOMAIN CommitFrames(S) :
              CommitFrames(S)[i].commit = CommitFrames(S)[j].commit => i = j
         /\ S = {} => CommitFrames(S) = <<>>
<1>1. IsFiniteSet(S) /\ Cardinality(S) \in Nat
  BY CommitsFinite
<1>2. \A i \in 1 .. Cardinality(S) : Nth(S, i) \in S /\ Nth(S, i) \in Commits
  BY NthIs
<1>3. \A i \in 1 .. Cardinality(S) :
        CommitFrame(Nth(S, i)) \in Requests
        /\ CommitFrame(Nth(S, i)).type = "transact"
        /\ CommitFrame(Nth(S, i)).commit = Nth(S, i)
  BY <1>2 DEF CommitFrame, Requests
<1>4. CommitFrames(S) \in Seq(Requests)
  BY <1>1, <1>3 DEF CommitFrames
<1>5. DOMAIN CommitFrames(S) = 1 .. Cardinality(S)
  BY DEF CommitFrames
<1>6. \A i \in 1 .. Cardinality(S) : CommitFrames(S)[i] = CommitFrame(Nth(S, i))
  BY DEF CommitFrames
<1>7. \A i, j \in 1 .. Cardinality(S) : Nth(S, i) = Nth(S, j) => i = j
  <2>1. SUFFICES ASSUME NEW i \in 1 .. Cardinality(S), NEW j \in 1 .. Cardinality(S),
                        Nth(S, i) = Nth(S, j)
                 PROVE  i = j
    OBVIOUS
  <2>2. Cardinality({m \in S : m <= Nth(S, i)}) = i
    BY NthIs
  <2>3. Cardinality({m \in S : m <= Nth(S, j)}) = j
    BY NthIs
  <2> QED BY <2>1, <2>2, <2>3
<1>8. S = {} => CommitFrames(S) = <<>>
  <2>1. SUFFICES ASSUME S = {} PROVE CommitFrames(S) = <<>>
    OBVIOUS
  <2>2. Cardinality(S) = 0
    BY <2>1, FS_EmptySet
  <2> QED BY <2>2, <1>4, <1>5
<1> QED BY <1>2, <1>3, <1>4, <1>5, <1>6, <1>7, <1>8

\* A longer sequence.
LEMMA ConcatIs ==
  ASSUME NEW S, NEW U \in Seq(S), NEW F \in Seq(S)
  PROVE  /\ U \o F \in Seq(S) /\ Len(U \o F) = Len(U) + Len(F)
         /\ Len(U) \in Nat /\ Len(F) \in Nat
         /\ DOMAIN U = 1 .. Len(U) /\ DOMAIN F = 1 .. Len(F)
         /\ DOMAIN (U \o F) = 1 .. Len(U) + Len(F)
         /\ \A i \in 1 .. Len(U) : (U \o F)[i] = U[i]
         /\ \A i \in 1 .. Len(F) : (U \o F)[Len(U) + i] = F[i]
         /\ \A i \in DOMAIN (U \o F) :
              \/ i \in DOMAIN U /\ (U \o F)[i] = U[i]
              \/ i - Len(U) \in DOMAIN F /\ (U \o F)[i] = F[i - Len(U)]
OBVIOUS

\* One element more.
LEMMA AppendIs ==
  ASSUME NEW S, NEW s \in Seq(S), NEW x \in S
  PROVE  /\ Append(s, x) \in Seq(S) /\ Len(Append(s, x)) = Len(s) + 1 /\ Len(s) \in Nat
         /\ DOMAIN s = 1 .. Len(s) /\ DOMAIN Append(s, x) = 1 .. Len(s) + 1
         /\ \A i \in 1 .. Len(s) : Append(s, x)[i] = s[i]
         /\ Append(s, x)[Len(s) + 1] = x
         /\ \A i \in DOMAIN Append(s, x) :
              (i \in DOMAIN s /\ Append(s, x)[i] = s[i]) \/ (i = Len(s) + 1 /\ Append(s, x)[i] = x)
OBVIOUS

\* One element less.
LEMMA TailIs ==
  ASSUME NEW S, NEW s \in Seq(S), s # <<>>
  PROVE  /\ Head(s) \in S /\ Tail(s) \in Seq(S) /\ Len(Tail(s)) = Len(s) - 1
         /\ Len(s) \in Nat /\ Len(s) > 0
         /\ Head(s) = s[1] /\ 1 \in DOMAIN s
         /\ DOMAIN s = 1 .. Len(s) /\ DOMAIN Tail(s) = 1 .. Len(s) - 1
         /\ \A i \in DOMAIN Tail(s) : i + 1 \in DOMAIN s /\ Tail(s)[i] = s[i + 1]
         /\ \A i \in DOMAIN s : i # 1 => i - 1 \in DOMAIN Tail(s) /\ Tail(s)[i - 1] = s[i]
OBVIOUS

-----------------------------------------------------------------------------
(* What each step changes, and types                                       *)

\* What the client sends goes to the end of one connection.
LEMMA SendsIs ==
  ASSUME toServer \in [Conns -> Seq(Requests)], NEW k \in Conns, NEW F \in Seq(Requests),
         Sends(k, F)
  PROVE  /\ toServer' \in [Conns -> Seq(Requests)]
         /\ toServer'[k] = toServer[k] \o F
         /\ \A j \in Conns : j # k => toServer'[j] = toServer[j]
<1>1. toServer[k] \o F \in Seq(Requests)
  BY ConcatIs
<1> QED BY <1>1 DEF Sends

\* What the server sends goes to the end of one connection, if it is open.
LEMMA ReplyIs ==
  ASSUME toClient \in [Conns -> Seq(Responses)], NEW k \in Conns, NEW f \in Responses
  PROVE  /\ Reply(k, f) \in [Conns -> Seq(Responses)]
         /\ Reply(k, f)[k] = IF Mute(k) THEN toClient[k] ELSE Append(toClient[k], f)
         /\ \A j \in Conns : j # k => Reply(k, f)[j] = toClient[j]
<1>1. Append(toClient[k], f) \in Seq(Responses)
  BY AppendIs
<1> QED BY <1>1 DEF Reply, Mute

\* The frames are what the lines carry.
LEMMA FrameTypes ==
  /\ \A t, a \in Nat : OpenFrame(t, a) \in Requests
  /\ \A n \in Commits : CommitFrame(n) \in Requests
  /\ WatchFrame \in Requests
  /\ \A n \in Commits : \A how \in Hows : Verdict(n, how) \in Responses
  /\ \A t \in Nat : \A r \in BOOLEAN : Opened(t, r) \in Responses
  /\ \A why \in {"denied", "retriable", "revoked"} : Refusal(why) \in Responses
  /\ \A how \in {"ok", "retriable"} : Watched(how) \in Responses
  /\ Revoked \in Responses /\ "refused" \in Hows
BY DEF Hows, OpenFrame, CommitFrame, WatchFrame, Verdict, Opened, Refusal, Watched, Revoked,
       Requests, Responses

\* An idle connection has nothing in hand.
LEMMA IdleIs ==
  /\ Idle \in Works
  /\ Idle.at = "idle" /\ Idle.token = 0 /\ Idle.attempt = 0 /\ Idle.commit = 0
BY DEF Idle, Works

\* The opens sent, after more was sent on a connection.
LEMMA SentOpens ==
  ASSUME TInv, minted' = minted, NEW k \in Conns, NEW F \in Seq(Requests),
         toServer'[k] = toServer[k] \o F,
         \A j \in Conns : j # k => toServer'[j] = toServer[j],
         \A i \in DOMAIN F : F[i].type = "open" => F[i].token \in 1 .. minted
  PROVE  \A j \in Conns : \A i \in DOMAIN toServer'[j] :
           toServer'[j][i].type = "open" => toServer'[j][i].token \in 1 .. minted
<1>1. toServer[k] \in Seq(Requests)
  BY DEF TInv, TypeOK
<1>2. \A i \in DOMAIN toServer'[k] :
        \/ i \in DOMAIN toServer[k] /\ toServer'[k][i] = toServer[k][i]
        \/ i - Len(toServer[k]) \in DOMAIN F /\ toServer'[k][i] = F[i - Len(toServer[k])]
  BY <1>1, ConcatIs
<1>3. \A j \in Conns : \A i \in DOMAIN toServer[j] :
        toServer[j][i].type = "open" => toServer[j][i].token \in 1 .. minted
  BY DEF TInv, TokensMinted
<1> QED BY <1>2, <1>3

\* `transact` issues one commit, and sends it on a ready session.
LEMMA TransactIs ==
  ASSUME TInv, NEW n \in Commits, Transact(n)
  PROVE  /\ TInv'
         /\ UNCHANGED <<client, toClient, session, minted, conn, applied, access, write>>
         /\ client.at # "ended" /\ told[n] = "unissued"
         /\ told' = [told EXCEPT ![n] = "waiting"]
         /\ \A j \in Conns : j # client.conn => toServer'[j] = toServer[j]
         /\ IF client.at = "ready"
            THEN toServer'[client.conn] = toServer[client.conn] \o <<CommitFrame(n)>>
            ELSE toServer'[client.conn] = toServer[client.conn]
<1>1. UNCHANGED <<client, toClient, session, minted, conn, applied, access, write, budget>>
  BY DEF Transact, serverVars
<1>2. client.conn \in Conns /\ <<CommitFrame(n)>> \in Seq(Requests)
  BY FrameTypes DEF TInv, TypeOK, ClientStates
<1>3. /\ toServer' \in [Conns -> Seq(Requests)]
      /\ \A j \in Conns : j # client.conn => toServer'[j] = toServer[j]
      /\ IF client.at = "ready"
         THEN toServer'[client.conn] = toServer[client.conn] \o <<CommitFrame(n)>>
         ELSE toServer'[client.conn] = toServer[client.conn]
  <2>1. CASE client.at = "ready"
    BY <2>1, <1>2, SendsIs DEF Transact, TInv, TypeOK
  <2>2. CASE client.at # "ready"
    BY <2>2 DEF Transact, TInv, TypeOK
  <2> QED BY <2>1, <2>2
<1>4. told' \in [Commits -> {"unissued", "waiting", "accepted", "refused", "denied", "lost"}]
  BY DEF Transact, TInv, TypeOK
<1>5. TInv'
  <2>1. \A k \in Conns : k > client.conn => k # client.conn
    BY <1>2, SessionAssumption DEF Conns
  <2>2. TypeOK'
    BY <1>1, <1>3, <1>4, <2>1 DEF TInv, TypeOK
  <2>3. \A j \in Conns : \A i \in DOMAIN toServer'[j] :
           toServer'[j][i].type = "open" => toServer'[j][i].token \in 1 .. minted
    <3>1. CASE client.at = "ready"
      <4>1. \A i \in DOMAIN <<CommitFrame(n)>> : <<CommitFrame(n)>>[i].type # "open"
        BY DEF CommitFrame
      <4> QED BY <3>1, <4>1, <1>1, <1>2, <1>3, SentOpens
    <3>2. CASE client.at # "ready"
      BY <3>2, <1>1, <1>3 DEF TInv, TokensMinted
    <3> QED BY <3>1, <3>2
  <2>4. TokensMinted'
    BY <1>1, <2>3 DEF TInv, TokensMinted
  <2> QED BY <2>2, <2>4 DEF TInv
<1> QED BY <1>1, <1>3, <1>5 DEF Transact

\* A dropped connection takes along what was on its way to the client.
LEMMA DropIs ==
  ASSUME TInv, Drop
  PROVE  /\ TInv'
         /\ UNCHANGED <<told, toServer, session, minted, conn, applied, access, write>>
         /\ Live /\ client.conn \in Conns
         /\ client' \in ClientStates
         /\ client'.at = "down" /\ client'.conn = client.conn /\ client'.token = client.token
         /\ client'.attempt = client.attempt
         /\ toClient'[client.conn] = <<>>
         /\ \A j \in Conns : j # client.conn => toClient'[j] = toClient[j]
<1>1. UNCHANGED <<told, toServer, session, minted, conn, applied, access, write, budget>>
  BY DEF Drop, serverVars
<1>2. client \in ClientStates /\ client.conn \in Conns
  BY DEF TInv, TypeOK, ClientStates
<1>3. /\ client' \in ClientStates
      /\ client'.at = "down" /\ client'.conn = client.conn /\ client'.token = client.token
      /\ client'.attempt = client.attempt
  BY <1>2 DEF Drop, ClientStates
<1>4. /\ toClient' \in [Conns -> Seq(Responses)]
      /\ toClient'[client.conn] = <<>>
      /\ \A j \in Conns : j # client.conn => toClient'[j] = toClient[j]
  BY <1>2 DEF Drop, TInv, TypeOK
<1>5. TypeOK'
  BY <1>1, <1>2, <1>3, <1>4 DEF TInv, TypeOK, Drop
<1>6. TokensMinted'
  BY <1>1, <1>2, <1>4 DEF TInv, TokensMinted
<1> QED BY <1>1, <1>2, <1>3, <1>4, <1>5, <1>6 DEF Drop, TInv, Live

\* A restore presents the client's token under a new attempt.
LEMMA RestoreIs ==
  ASSUME TInv, NEW k \in Conns, client.conn <= k, Restore(k)
  PROVE  /\ TInv'
         /\ UNCHANGED <<told, toClient, session, minted, conn, applied, access, write>>
         /\ client' \in ClientStates
         /\ client'.at = "opening" /\ client'.conn = k /\ client'.token = client.token
         /\ client'.attempt = client.attempt + 1
         /\ toServer'[k] = toServer[k] \o <<OpenFrame(client.token, client.attempt + 1)>>
         /\ \A j \in Conns : j # k => toServer'[j] = toServer[j]
<1>1. UNCHANGED <<told, toClient, session, minted, conn, applied, access, write, budget>>
  BY DEF Restore, serverVars
<1>2. client \in ClientStates /\ client.conn \in Conns /\ client.attempt \in Nat
      /\ client.token \in Nat
  BY DEF TInv, TypeOK, ClientStates
<1>3. PICK a \in Nat : a = client.attempt + 1
  BY <1>2
<1>4. client' = [client EXCEPT !.at = "opening", !.conn = k, !.attempt = a]
  BY <1>3 DEF Restore
<1>5. /\ client' \in ClientStates
      /\ client'.at = "opening" /\ client'.conn = k /\ client'.token = client.token
      /\ client'.attempt = a
  BY <1>2, <1>4 DEF ClientStates
<1>6. <<OpenFrame(client.token, a)>> \in Seq(Requests)
  BY <1>2, <1>3, FrameTypes
<1>7. /\ toServer' \in [Conns -> Seq(Requests)]
      /\ toServer'[k] = toServer[k] \o <<OpenFrame(client.token, a)>>
      /\ \A j \in Conns : j # k => toServer'[j] = toServer[j]
  BY <1>3, <1>6, SendsIs DEF Restore, TInv, TypeOK
<1>8. TypeOK'
  <2>1. \A j \in Conns : j > k => j > client.conn /\ j # k
    BY <1>2, SessionAssumption DEF Conns
  <2>2. session.owner <= k
    <3>1. session.owner \in Nat /\ session.owner <= client.conn
      BY DEF TInv, TypeOK, SessionStates, Conns
    <3>2. client.conn \in Nat /\ k \in Nat
      BY <1>2, SessionAssumption DEF Conns
    <3> QED BY <3>1, <3>2
  <2> QED BY <2>1, <2>2, <1>1, <1>2, <1>5, <1>7 DEF TInv, TypeOK
<1>9. TokensMinted'
  <2>1. \A i \in DOMAIN <<OpenFrame(client.token, a)>> :
          <<OpenFrame(client.token, a)>>[i].token \in 1 .. minted
    BY DEF OpenFrame, TInv, TypeOK
  <2>2. \A j \in Conns : \A i \in DOMAIN toServer'[j] :
           toServer'[j][i].type = "open" => toServer'[j][i].token \in 1 .. minted
    BY <2>1, <1>1, <1>6, <1>7, SentOpens
  <2> QED BY <2>2, <1>1 DEF TInv, TokensMinted
<1> QED BY <1>1, <1>3, <1>5, <1>7, <1>8, <1>9 DEF TInv

\* The connection a reconnect makes.
LEMMA ReconnectConn ==
  ASSUME TInv, Reconnect
  PROVE  client.conn + 1 \in Conns /\ client.conn <= client.conn + 1
<1>1. client.conn \in Conns /\ client.conn < MaxConns
  BY DEF Reconnect, TInv, TypeOK, ClientStates
<1> QED BY <1>1, SessionAssumption DEF Conns

\* What a frame to the server asks.
LEMMA AskUpIs ==
  ASSUME NEW f \in Requests
  PROVE  /\ f.type \in {"open", "transact", "watch"}
         /\ f.type = "open" => AskUp(f) = OpenAsk /\ f.token \in Nat /\ f.attempt \in Nat
         /\ f.type = "transact" => AskUp(f) = f.commit /\ f.commit \in Commits
         /\ f.type = "watch" => AskUp(f) = 0
         /\ AskUp(f) \in 0 .. NoAsk /\ AskUp(f) # NoAsk
         /\ AskUp(f) = OpenAsk => f.type = "open"
         /\ AskUp(f) = 0 => f.type = "watch"
         /\ AskUp(f) \in Commits => f.type = "transact"
BY SessionAssumption DEF Requests, AskUp, OpenAsk, NoAsk, Commits

\* What a frame to the client answers.
LEMMA AskDownIs ==
  ASSUME NEW f \in Responses
  PROVE  /\ f.type \in {"verdict", "opened", "refused", "watched", "revoked"}
         /\ f.type = "verdict" => AskDown(f) = f.commit /\ f.commit \in Commits /\ f.how \in Hows
         /\ f.type = "opened" => AskDown(f) = OpenAsk /\ f.token \in Nat
         /\ f.type = "refused" => AskDown(f) = OpenAsk
         /\ f.type = "watched" => AskDown(f) = 0
         /\ f.type = "revoked" => AskDown(f) = NoAsk
         /\ AskDown(f) \in 0 .. NoAsk
         /\ AskDown(f) = OpenAsk => f.type \in {"opened", "refused"}
         /\ AskDown(f) = 0 => f.type = "watched"
         /\ AskDown(f) = NoAsk => f.type = "revoked"
         /\ AskDown(f) \in Commits => f.type = "verdict"
BY SessionAssumption DEF Responses, AskDown, OpenAsk, NoAsk, Commits, Hows

\* What a request in hand asks.
LEMMA AskWorkIs ==
  ASSUME NEW w \in Works, w.at = "transact" => w.commit \in Commits
  PROVE  /\ AskWork(w) \in 0 .. NoAsk
         /\ AskWork(w) = NoAsk <=> w.at = "idle"
         /\ AskWork(w) = OpenAsk <=> w.at \in {"admission", "catch-up"}
         /\ AskWork(w) # 0
         /\ AskWork(w) \in Commits <=> w.at = "transact"
         /\ w.at = "transact" => AskWork(w) = w.commit
BY SessionAssumption DEF Works, AskWork, OpenAsk, NoAsk, Commits

\* The numbers of what can be asked.
LEMMA AskNumbers ==
  /\ OpenAsk \in 0 .. NoAsk /\ NoAsk \in 0 .. NoAsk /\ OpenAsk # NoAsk
  /\ OpenAsk \notin Commits /\ NoAsk \notin Commits /\ 0 \notin Commits
  /\ OpenAsk # 0 /\ NoAsk # 0
  /\ Commits \in SUBSET (0 .. NoAsk) /\ 0 \in 0 .. NoAsk
BY SessionAssumption DEF OpenAsk, NoAsk, Commits

\* Frames F ask things of A, each once, the watch set last, and of the commits
\* only those whose call is waiting.
Batch(F, A, t) ==
  /\ \A i \in DOMAIN F : AskUp(F[i]) \in A
  /\ \A i, j \in DOMAIN F : AskUp(F[i]) = AskUp(F[j]) => i = j
  /\ \A i \in DOMAIN F : AskUp(F[i]) = 0 => i = Len(F)
  /\ \A i \in DOMAIN F : AskUp(F[i]) \in Commits => t[AskUp(F[i])] = "waiting"

\* The frames of the calls with no verdict are such frames.
LEMMA CommitBatch ==
  ASSUME NEW t, NEW S \in SUBSET Commits, \A n \in S : t[n] = "waiting"
  PROVE  CommitFrames(S) \in Seq(Requests) /\ Batch(CommitFrames(S), S, t)
<1> DEFINE F == CommitFrames(S)
<1>1. /\ F \in Seq(Requests)
      /\ \A i \in DOMAIN F : F[i].type = "transact" /\ F[i].commit \in S
      /\ \A i, j \in DOMAIN F : F[i].commit = F[j].commit => i = j
  BY CommitFramesAre
<1> HIDE DEF F
<1>2. \A i \in DOMAIN F : F[i] \in Requests
  BY <1>1
<1>3. \A i \in DOMAIN F : AskUp(F[i]) = F[i].commit
  BY <1>1, <1>2, AskUpIs
<1>4. Batch(F, S, t)
  BY <1>1, <1>3, AskNumbers DEF Batch
<1> QED BY <1>1, <1>4 DEF F

\* With the watch set behind them.
LEMMA WatchBatch ==
  ASSUME NEW t, NEW S \in SUBSET Commits, NEW F \in Seq(Requests), Batch(F, S, t)
  PROVE  F \o <<WatchFrame>> \in Seq(Requests) /\ Batch(F \o <<WatchFrame>>, S \cup {0}, t)
<1> DEFINE G == <<WatchFrame>>
           H == F \o G
<1>1. WatchFrame \in Requests /\ AskUp(WatchFrame) = 0
  BY FrameTypes DEF WatchFrame, AskUp
<1>2. G \in Seq(Requests) /\ DOMAIN G = {1} /\ Len(G) = 1 /\ AskUp(G[1]) = 0
  BY <1>1
<1> HIDE DEF G
<1>3. /\ H \in Seq(Requests) /\ Len(H) = Len(F) + 1 /\ Len(F) \in Nat
      /\ DOMAIN F = 1 .. Len(F)
      /\ \A i \in DOMAIN H : \/ i \in DOMAIN F /\ H[i] = F[i]
                             \/ i - Len(F) \in DOMAIN G /\ H[i] = G[i - Len(F)]
  BY <1>2, ConcatIs
<1>4. DOMAIN H = 1 .. Len(F) + 1
  BY <1>2, ConcatIs
<1> HIDE DEF H
<1>5. \A i \in DOMAIN H : \/ i \in DOMAIN F /\ AskUp(H[i]) = AskUp(F[i]) /\ i # Len(H)
                                /\ AskUp(H[i]) \in S
                          \/ i = Len(H) /\ AskUp(H[i]) = 0
  BY <1>2, <1>3, <1>4 DEF Batch
<1>6. \A i \in DOMAIN H : AskUp(H[i]) \in S \cup {0}
  BY <1>5
<1>7. \A i, j \in DOMAIN H : AskUp(H[i]) = AskUp(H[j]) => i = j
  BY <1>5, AskNumbers DEF Batch
<1>8. \A i \in DOMAIN H : AskUp(H[i]) = 0 => i = Len(H)
  BY <1>5, AskNumbers
<1>9. \A i \in DOMAIN H : AskUp(H[i]) \in Commits => t[AskUp(H[i])] = "waiting"
  BY <1>5, AskNumbers DEF Batch
<1> QED BY <1>3, <1>6, <1>7, <1>8, <1>9 DEF Batch, G, H

\* Frames that ask for commits and the watch set open nothing.
LEMMA BatchOpens ==
  ASSUME NEW t, NEW A \in SUBSET (Commits \cup {0}), NEW F \in Seq(Requests), Batch(F, A, t)
  PROVE  \A i \in DOMAIN F : F[i].type # "open" /\ AskUp(F[i]) # OpenAsk
<1>1. \A i \in DOMAIN F : F[i] \in Requests /\ AskUp(F[i]) \in A
  BY DEF Batch
<1>2. \A i \in DOMAIN F : AskUp(F[i]) # OpenAsk
  BY <1>1, AskNumbers
<1> QED BY <1>1, <1>2, AskUpIs

\* The client takes the next frame on its connection.
LEMMA ReceiveIs ==
  ASSUME TInv, Receive
  PROVE  /\ UNCHANGED <<session, minted, conn, applied, access, write, budget>>
         /\ Live /\ client.conn \in Conns
         /\ toClient[client.conn] \in Seq(Responses) /\ toClient[client.conn] # <<>>
         /\ Head(toClient[client.conn]) \in Responses
         /\ toClient' \in [Conns -> Seq(Responses)]
         /\ toClient'[client.conn] = Tail(toClient[client.conn])
         /\ \A j \in Conns : j # client.conn => toClient'[j] = toClient[j]
<1>1. client.conn \in Conns /\ toClient \in [Conns -> Seq(Responses)]
  BY DEF TInv, TypeOK, ClientStates
<1>2. toClient[client.conn] # <<>> /\ toClient[client.conn] \in Seq(Responses)
  BY <1>1 DEF Receive
<1>3. /\ Head(toClient[client.conn]) \in Responses
      /\ Tail(toClient[client.conn]) \in Seq(Responses)
  BY <1>2, TailIs
<1>4. toClient' = [toClient EXCEPT ![client.conn] = Tail(@)]
  BY DEF Receive
<1> QED BY <1>1, <1>2, <1>3, <1>4 DEF Receive, Live, serverVars

\* Types, after a step of Receive.
LEMMA ReceiveTyped ==
  ASSUME TInv, Receive, client' \in ClientStates, client'.conn = client.conn,
         client'.at # "down",
         client'.token \in 1 .. minted,
         told' \in [Commits -> {"unissued", "waiting", "accepted", "refused", "denied", "lost"}],
         toServer' \in [Conns -> Seq(Requests)],
         \A j \in Conns : j # client.conn => toServer'[j] = toServer[j],
         \A j \in Conns : \A i \in DOMAIN toServer'[j] :
           toServer'[j][i].type = "open" => toServer'[j][i].token \in 1 .. minted
  PROVE  TInv'
<1>1. /\ UNCHANGED <<session, minted, conn, applied, access, write, budget>>
      /\ client.conn \in Conns
      /\ toClient[client.conn] \in Seq(Responses) /\ toClient[client.conn] # <<>>
      /\ toClient' \in [Conns -> Seq(Responses)]
      /\ toClient'[client.conn] = Tail(toClient[client.conn])
      /\ \A j \in Conns : j # client.conn => toClient'[j] = toClient[j]
  BY ReceiveIs
<1>2. \A j \in Conns : j > client.conn => j # client.conn
  BY <1>1, SessionAssumption DEF Conns
<1>3. TypeOK'
  BY <1>1, <1>2 DEF TInv, TypeOK
<1>4. TokensMinted'
  <2>1. \A i \in DOMAIN toClient'[client.conn] :
          /\ i + 1 \in DOMAIN toClient[client.conn]
          /\ toClient'[client.conn][i] = toClient[client.conn][i + 1]
    BY <1>1, TailIs
  <2>2. SUFFICES ASSUME NEW k \in Conns
                 PROVE  /\ conn[k].work.at = "catch-up" => conn[k].work.token # 0
                        /\ \A i \in DOMAIN toServer'[k] :
                             toServer'[k][i].type = "open" => toServer'[k][i].token \in 1 .. minted
                        /\ \A i \in DOMAIN toClient'[k] :
                             toClient'[k][i].type = "opened" => toClient'[k][i].token \in 1 .. minted
    BY <1>1 DEF TokensMinted
  <2>3. CASE k = client.conn
    BY <2>1, <2>3, <1>1 DEF TInv, TokensMinted
  <2>4. CASE k # client.conn
    BY <2>4, <1>1 DEF TInv, TokensMinted
  <2> QED BY <2>3, <2>4
<1> QED BY <1>3, <1>4 DEF TInv

\* A reopened session: the calls left and the watch set are sent again.
LEMMA ReopenedIs ==
  ASSUME TInv, Receive, Head(toClient[client.conn]).type = "opened"
  PROVE  /\ TInv' /\ client' \in ClientStates /\ told' = told
         /\ client'.conn = client.conn /\ client'.attempt = client.attempt
         /\ client'.token = Head(toClient[client.conn]).token
         /\ client'.at = IF client'.awaiting = {} THEN "ready" ELSE "restoring"
         /\ \A j \in Conns : j # client.conn => toServer'[j] = toServer[j]
         /\ \E F \in Seq(Requests) :
              /\ toServer'[client.conn] = toServer[client.conn] \o F
              /\ Batch(F, client'.awaiting, told)
<1> DEFINE m == Head(toClient[client.conn])
           owed == client.owed \/ ~ m.resumed
           A == Waiting \cup (IF owed THEN {0} ELSE {})
           at == IF A = {} THEN "ready" ELSE "restoring"
           F == CommitFrames(Waiting) \o (IF owed THEN <<WatchFrame>> ELSE <<>>)
<1>1. m \in Responses /\ client.conn \in Conns /\ client \in ClientStates
      /\ client.attempt \in Nat
  BY ReceiveIs DEF TInv, TypeOK, ClientStates
<1>2. Reopened(m)
  BY <1>1, AskDownIs DEF Receive
<1>3. Waiting \in SUBSET Commits /\ \A n \in Waiting : told[n] = "waiting"
  BY DEF Waiting
<1>4. owed \in BOOLEAN /\ A \in SUBSET (Commits \cup {0}) /\ at \in {"ready", "restoring"}
  BY <1>3
<1>5. m.token \in Nat /\ m.token \in 1 .. minted
  <2>1. m = toClient[client.conn][1] /\ 1 \in DOMAIN toClient[client.conn]
    BY ReceiveIs, TailIs
  <2> QED BY <1>1, <2>1, AskDownIs DEF TInv, TokensMinted
<1>6. F \in Seq(Requests) /\ Batch(F, A, told)
  <2>1. CommitFrames(Waiting) \in Seq(Requests) /\ Batch(CommitFrames(Waiting), Waiting, told)
    BY <1>3, CommitBatch
  <2>2. CASE owed
    BY <2>1, <2>2, <1>3, WatchBatch
  <2>3. CASE ~ owed
    <3>1. F = CommitFrames(Waiting) \o <<>> /\ A = Waiting
      BY <2>3
    <3>2. F = CommitFrames(Waiting)
      BY <3>1, <2>1
    <3> QED BY <3>1, <3>2, <2>1
  <2> QED BY <2>2, <2>3
<1>7. client' = [client EXCEPT !.token = m.token, !.owed = owed, !.awaiting = A, !.at = at]
  BY <1>2 DEF Reopened
<1>8. Sends(client.conn, F) /\ told' = told
  BY <1>2 DEF Reopened
<1> HIDE DEF F, A, at, owed, m
<1>9. /\ client' \in ClientStates /\ client'.conn = client.conn
      /\ client'.attempt = client.attempt /\ client'.token = m.token
      /\ client'.awaiting = A /\ client'.at = at
  <2>1. m.token \in Nat /\ owed \in BOOLEAN /\ A \in SUBSET (Commits \cup {0})
        /\ at \in {"ready", "down", "opening", "restoring", "held", "ended"}
    BY <1>4, <1>5
  <2> QED BY <1>1, <1>7, <2>1 DEF ClientStates
<1>10. /\ toServer' \in [Conns -> Seq(Requests)]
       /\ toServer'[client.conn] = toServer[client.conn] \o F
       /\ \A j \in Conns : j # client.conn => toServer'[j] = toServer[j]
  BY <1>1, <1>6, <1>8, SendsIs DEF TInv, TypeOK
<1>11. TInv'
  <2>1. \A i \in DOMAIN F : F[i].type = "open" => F[i].token \in 1 .. minted
    BY <1>4, <1>6, BatchOpens
  <2>2. \A j \in Conns : \A i \in DOMAIN toServer'[j] :
           toServer'[j][i].type = "open" => toServer'[j][i].token \in 1 .. minted
    BY <2>1, <1>1, <1>6, <1>10, ReceiveIs, SentOpens
  <2>3. client'.at # "down"
    BY <1>4, <1>9
  <2> QED BY <2>2, <2>3, <1>5, <1>8, <1>9, <1>10, ReceiveTyped DEF TInv, TypeOK
<1>12. at = IF A = {} THEN "ready" ELSE "restoring"
  BY DEF at
<1> QED BY <1>6, <1>8, <1>9, <1>10, <1>11, <1>12 DEF m

\* What `Settle` does to the client, its calls and its line.
Settled(done, now) ==
  /\ TInv' /\ client' \in ClientStates /\ told' = now
  /\ client'.conn = client.conn /\ client'.attempt = client.attempt
  /\ client'.token = client.token /\ client'.awaiting = client.awaiting \ {done}
  /\ \A j \in Conns : j # client.conn => toServer'[j] = toServer[j]
  /\ \/ /\ client.at = "restoring" /\ client'.awaiting = {} /\ client'.at = "ready"
        /\ \E F \in Seq(Requests) : /\ toServer'[client.conn] = toServer[client.conn] \o F
                                    /\ Batch(F, Commits, now)
     \/ /\ ~ (client.at = "restoring" /\ client'.awaiting = {})
        /\ client'.at = client.at
        /\ toServer'[client.conn] = toServer[client.conn]

\* An answer the restore waits for, or that came on a ready session.
LEMMA SettleIs ==
  ASSUME TInv, Receive, NEW done, NEW owed \in BOOLEAN, NEW now, Settle(done, owed, now),
         now \in [Commits -> {"unissued", "waiting", "accepted", "refused", "denied", "lost"}]
  PROVE  Settled(done, now)
<1> DEFINE A == client.awaiting \ {done}
           ready == client.at = "restoring" /\ A = {}
           W == {n \in Commits : now[n] = "waiting"}
<1>1. client.conn \in Conns /\ client \in ClientStates
      /\ client.awaiting \in SUBSET (Commits \cup {0})
      /\ client.at \in {"ready", "down", "opening", "restoring", "held", "ended"}
      /\ toServer \in [Conns -> Seq(Requests)]
  BY DEF TInv, TypeOK, ClientStates
<1>2. A \in SUBSET (Commits \cup {0})
  BY <1>1
<1>3. PICK at \in {"ready", "down", "opening", "restoring", "held", "ended"} :
        at = IF ready THEN "ready" ELSE client.at
  BY <1>1
<1>4. client' = [client EXCEPT !.awaiting = A, !.owed = owed, !.at = at] /\ told' = now
  BY <1>3 DEF Settle
<1>5. /\ ready => Sends(client.conn, CommitFrames(W))
      /\ ~ ready => toServer' = toServer
  BY DEF Settle
<1> HIDE DEF A
<1>6. /\ client' \in ClientStates /\ client'.conn = client.conn
      /\ client'.attempt = client.attempt /\ client'.token = client.token
      /\ client'.awaiting = A /\ client'.at = at
  BY <1>1, <1>2, <1>4 DEF ClientStates
<1>7. W \in SUBSET Commits /\ \A n \in W : now[n] = "waiting"
  OBVIOUS
<1> HIDE DEF W
<1>8. CommitFrames(W) \in Seq(Requests) /\ Batch(CommitFrames(W), W, now)
  BY <1>7, CommitBatch
<1>9. Batch(CommitFrames(W), Commits, now)
  BY <1>7, <1>8 DEF Batch
<1>10. /\ toServer' \in [Conns -> Seq(Requests)]
       /\ \A j \in Conns : j # client.conn => toServer'[j] = toServer[j]
       /\ ready => toServer'[client.conn] = toServer[client.conn] \o CommitFrames(W)
       /\ ~ ready => toServer'[client.conn] = toServer[client.conn]
  <2>1. CASE ready
    BY <2>1, <1>1, <1>5, <1>8, SendsIs
  <2>2. CASE ~ ready
    BY <2>2, <1>1, <1>5
  <2> QED BY <2>1, <2>2
<1>11. TInv'
  <2>1. client'.token \in 1 .. minted
    BY <1>6 DEF TInv, TypeOK
  <2>2. \A j \in Conns : \A i \in DOMAIN toServer'[j] :
           toServer'[j][i].type = "open" => toServer'[j][i].token \in 1 .. minted
    <3>1. CASE ready
      <4>1. \A i \in DOMAIN CommitFrames(W) :
              CommitFrames(W)[i].type = "open" => CommitFrames(W)[i].token \in 1 .. minted
        BY <1>8, <1>9, BatchOpens
      <4> QED BY <3>1, <4>1, <1>1, <1>8, <1>10, ReceiveIs, SentOpens
    <3>2. CASE ~ ready
      BY <3>2, <1>10, ReceiveIs DEF TInv, TokensMinted
    <3> QED BY <3>1, <3>2
  <2>3. client'.at # "down"
    BY <1>3, <1>6, ReceiveIs DEF Live
  <2> QED BY <2>1, <2>2, <2>3, <1>4, <1>6, <1>10, ReceiveTyped
<1>12. \/ /\ client.at = "restoring" /\ client'.awaiting = {} /\ client'.at = "ready"
          /\ \E F \in Seq(Requests) : /\ toServer'[client.conn] = toServer[client.conn] \o F
                                      /\ Batch(F, Commits, now)
       \/ /\ ~ (client.at = "restoring" /\ client'.awaiting = {})
          /\ client'.at = client.at
          /\ toServer'[client.conn] = toServer[client.conn]
  <2>1. CASE ready
    BY <2>1, <1>3, <1>6, <1>8, <1>9, <1>10
  <2>2. CASE ~ ready
    BY <2>2, <1>3, <1>6, <1>10
  <2> QED BY <2>1, <2>2
<1> QED BY <1>4, <1>6, <1>10, <1>11, <1>12 DEF A, Settled

\* The call of commit n, once its verdict is in.
Told(n, how) ==
  IF told[n] = "waiting" THEN [told EXCEPT ![n] = how] ELSE told

\* The client gives its line up, for a while or for good.
GivenUp(at) ==
  /\ TInv' /\ client' \in ClientStates /\ client'.at = at /\ client'.awaiting = {}
  /\ client'.conn = client.conn /\ client'.attempt = client.attempt
  /\ client'.token = client.token
  /\ toServer' = toServer

\* What the client makes of the next frame, by what the frame is.
LEMMA ReceiveCases ==
  ASSUME TInv, Receive
  PROVE  LET m == Head(toClient[client.conn]) IN
         \/ m.type = "opened"
         \/ m.type = "verdict" /\ Settled(m.commit, Told(m.commit, m.how))
         \/ m.type = "watched" /\ Settled(0, told)
         \/ m.type \in {"watched", "refused"} /\ ~ Terminal(m) /\ GivenUp("held") /\ told' = told
         \/ /\ Terminal(m) /\ GivenUp("ended")
            /\ told' = [n \in Commits |-> IF told[n] = "waiting" THEN "lost" ELSE told[n]]
<1> DEFINE m == Head(toClient[client.conn])
           T == {"unissued", "waiting", "accepted", "refused", "denied", "lost"}
<1>1. m \in Responses /\ client.conn \in Conns /\ client \in ClientStates
      /\ client.attempt \in Nat /\ client.owed \in BOOLEAN
      /\ told \in [Commits -> T] /\ toServer \in [Conns -> Seq(Requests)]
      /\ client.token \in 1 .. minted
  BY ReceiveIs DEF TInv, TypeOK, ClientStates
<1>2. ASSUME NEW at \in {"held", "ended"}, client' = [client EXCEPT !.at = at, !.awaiting = {}],
             toServer' = toServer, told' \in [Commits -> T]
      PROVE  GivenUp(at)
  <2>1. /\ client' \in ClientStates /\ client'.at = at /\ client'.awaiting = {}
        /\ client'.conn = client.conn /\ client'.attempt = client.attempt
        /\ client'.token = client.token
    BY <1>1, <1>2 DEF ClientStates
  <2>2. TInv'
    <3>1. \A j \in Conns : \A i \in DOMAIN toServer'[j] :
           toServer'[j][i].type = "open" => toServer'[j][i].token \in 1 .. minted
      BY <1>2 DEF TInv, TokensMinted
    <3> QED BY <3>1, <2>1, <1>1, <1>2, ReceiveTyped
  <2> QED BY <2>1, <2>2, <1>2 DEF GivenUp
<1>3. CASE m.type = "opened"
  BY <1>3
<1>4. CASE m.type = "verdict"
  <2>1. m.commit \in Commits /\ m.how \in Hows
    BY <1>1, <1>4, AskDownIs
  <2>2. Settle(m.commit, client.owed, Told(m.commit, m.how))
    BY <1>4 DEF Receive, Told
  <2>3. Told(m.commit, m.how) \in [Commits -> T]
    <3>1. PICK v \in T : v = m.how
      BY <2>1 DEF Hows
    <3>2. [told EXCEPT ![m.commit] = v] \in [Commits -> T]
      BY <1>1
    <3> QED BY <3>1, <3>2, <1>1 DEF Told
  <2> QED BY <1>1, <1>4, <2>2, <2>3, SettleIs
<1>5. CASE m.type = "watched"
  <2>1. \/ Settle(0, FALSE, told)
        \/ Hold
    BY <1>5 DEF Receive
  <2>2. CASE Settle(0, FALSE, told)
    BY <1>1, <1>5, <2>2, SettleIs
  <2>3. CASE Hold
    BY <1>1, <1>2, <1>5, <2>3 DEF Hold, Terminal
  <2> QED BY <2>1, <2>2, <2>3
<1>6. ASSUME Terminate PROVE
        /\ GivenUp("ended")
        /\ told' = [n \in Commits |-> IF told[n] = "waiting" THEN "lost" ELSE told[n]]
  <2>1. told' = [n \in Commits |-> IF told[n] = "waiting" THEN "lost" ELSE told[n]]
    BY <1>6 DEF Terminate, Waiting
  <2>2. told' \in [Commits -> T]
    BY <2>1, <1>1
  <2> QED BY <1>2, <1>6, <2>1, <2>2 DEF Terminate
<1>7. CASE m.type = "refused"
  <2>1. \/ m.why = "retriable" /\ Hold
        \/ m.why # "retriable" /\ Terminate
    BY <1>7 DEF Receive
  <2> QED BY <2>1, <1>1, <1>2, <1>6, <1>7 DEF Hold, Terminal
<1>8. CASE m.type = "revoked"
  BY <1>6, <1>8 DEF Receive, Terminal
<1> QED BY <1>1, <1>3, <1>4, <1>5, <1>7, <1>8, AskDownIs

\* Types, after a step of the server that leaves the client alone.
LEMMA ServerTyped ==
  ASSUME TInv, client' = client, told' = told, budget' \in Nat, access' \in BOOLEAN, write' = write,
         toServer' \in [Conns -> Seq(Requests)], toClient' \in [Conns -> Seq(Responses)],
         minted' \in Nat, minted <= minted',
         session' \in SessionStates, {session'.token, session'.presented} \subseteq 0 .. minted',
         session'.owner <= client.conn,
         conn' \in [Conns -> ConnStates], applied' \subseteq Commits,
         \A k \in Conns : /\ conn'[k].work.token <= minted'
                          /\ conn'[k].work.at = "catch-up" => conn'[k].work.token # 0,
         \A k \in Conns : k > client.conn =>
           conn'[k] = conn[k] /\ toServer'[k] = toServer[k] /\ toClient'[k] = toClient[k],
         \A k \in Conns : \A i \in DOMAIN toServer'[k] :
           \E j \in DOMAIN toServer[k] : toServer'[k][i] = toServer[k][j],
         \A k \in Conns : \A i \in DOMAIN toClient'[k] :
           \/ i \in DOMAIN toClient[k] /\ toClient'[k][i] = toClient[k][i]
           \/ toClient'[k][i].type # "opened"
           \/ toClient'[k][i].token \in 1 .. minted'
  PROVE  TInv'
<1>1. client.token \in 1 .. minted'
  BY DEF TInv, TypeOK
<1>2. TypeOK'
  BY <1>1 DEF TInv, TypeOK
<1>3. TokensMinted'
  <2>1. \A k \in Conns : \A i \in DOMAIN toClient[k] :
          toClient[k][i].type = "opened" => toClient[k][i].token \in 1 .. minted'
    BY DEF TInv, TypeOK, TokensMinted
  <2>2. \A k \in Conns : \A i \in DOMAIN toServer[k] :
          toServer[k][i].type = "open" => toServer[k][i].token \in 1 .. minted'
    BY DEF TInv, TypeOK, TokensMinted
  <2>3. \A k \in Conns : \A i \in DOMAIN toServer'[k] :
          toServer'[k][i].type = "open" => toServer'[k][i].token \in 1 .. minted'
    <3>1. SUFFICES ASSUME NEW k \in Conns, NEW i \in DOMAIN toServer'[k]
                   PROVE  toServer'[k][i].type = "open" => toServer'[k][i].token \in 1 .. minted'
      OBVIOUS
    <3>2. PICK j \in DOMAIN toServer[k] : toServer'[k][i] = toServer[k][j]
      OBVIOUS
    <3>3. toServer[k][j].type = "open" => toServer[k][j].token \in 1 .. minted'
      BY <2>2, <3>2
    <3> QED BY <3>2, <3>3
  <2> QED BY <2>1, <2>3 DEF TokensMinted
<1> QED BY <1>2, <1>3 DEF TInv

\* A connection the client has made: what the server handles a frame of, or has
\* a request of in hand, is one.
LEMMA ConnMade ==
  ASSUME TInv, NEW k \in Conns,
         toServer[k] # <<>> \/ conn[k].work # Idle \/ conn[k].handle \/ conn[k].closed
  PROVE  k <= client.conn /\ \A j \in Conns : j > client.conn => j # k
<1>1. client.conn \in Conns
  BY DEF TInv, TypeOK, ClientStates
<1>2. ~ k > client.conn
  <2>1. SUFFICES ASSUME k > client.conn PROVE FALSE
    OBVIOUS
  <2>2. conn[k] = [closed |-> FALSE, handle |-> FALSE, work |-> Idle] /\ toServer[k] = <<>>
    BY <2>1 DEF TInv, TypeOK
  <2> QED BY <2>2
<1> QED BY <1>1, <1>2, SessionAssumption DEF Conns

\* What the type invariant says of one connection.
LEMMA ConnTyped ==
  ASSUME TInv, NEW k \in Conns
  PROVE  /\ conn[k] \in ConnStates /\ conn[k].closed \in BOOLEAN /\ conn[k].handle \in BOOLEAN
         /\ conn[k].work \in Works /\ conn[k].work.token \in 0 .. minted
         /\ conn[k].work.at \in {"idle", "admission", "catch-up", "transact"}
         /\ conn[k].work.token \in Nat /\ conn[k].work.attempt \in Nat
         /\ conn[k].work.commit \in Commits \cup {0}
         /\ conn[k].work.at = "catch-up" => conn[k].work.token \in 1 .. minted
         /\ toServer[k] \in Seq(Requests) /\ toClient[k] \in Seq(Responses)
         /\ toServer \in [Conns -> Seq(Requests)] /\ toClient \in [Conns -> Seq(Responses)]
         /\ conn \in [Conns -> ConnStates] /\ minted \in Nat
         /\ client \in ClientStates /\ client.conn \in Conns /\ client.conn \in Nat
         /\ client.token \in 1 .. minted /\ client.attempt \in Nat /\ client.token \in Nat
         /\ session \in SessionStates /\ session.token \in 0 .. minted
         /\ session.presented \in 0 .. minted /\ session.token \in Nat
         /\ session.presented \in Nat /\ session.attempt \in Nat
         /\ session.owner \in Conns \cup {0} /\ session.owner <= client.conn /\ k \in Nat /\ k # 0
<1>1. conn[k] \in ConnStates /\ conn[k].work \in Works
      /\ conn[k].closed \in BOOLEAN /\ conn[k].handle \in BOOLEAN
  BY DEF TInv, TypeOK, ConnStates
<1>2. /\ conn[k].work.at \in {"idle", "admission", "catch-up", "transact"}
      /\ conn[k].work.token \in Nat /\ conn[k].work.attempt \in Nat
      /\ conn[k].work.commit \in Commits \cup {0}
  BY <1>1 DEF Works
<1>3. /\ conn[k].work.token <= minted /\ minted \in Nat
      /\ conn[k].work.at = "catch-up" => conn[k].work.token # 0
  BY DEF TInv, TypeOK, TokensMinted
<1>4. /\ conn[k].work.token \in 0 .. minted
      /\ conn[k].work.at = "catch-up" => conn[k].work.token \in 1 .. minted
  BY <1>2, <1>3
<1>5. /\ client \in ClientStates /\ client.conn \in Conns
      /\ client.attempt \in Nat /\ client.token \in Nat
  BY DEF TInv, TypeOK, ClientStates
<1>6. /\ session \in SessionStates /\ session.token \in Nat
      /\ session.presented \in Nat /\ session.attempt \in Nat
      /\ session.owner \in Conns \cup {0}
  BY DEF TInv, TypeOK, SessionStates
<1>7. client.conn \in Nat /\ k \in Nat /\ k # 0
  BY <1>5, SessionAssumption DEF Conns
<1> QED BY <1>1, <1>2, <1>3, <1>4, <1>5, <1>6, <1>7 DEF TInv, TypeOK

\* The next frame of connection k is taken.
LEMMA TakesIs ==
  ASSUME TInv, NEW k \in Conns, NEW type, Takes(k, type)
  PROVE  /\ ~ conn[k].closed /\ conn[k].work = Idle
         /\ toServer[k] # <<>> /\ NextFrame(k) \in Requests /\ NextFrame(k).type = type
         /\ NextFrame(k) = toServer[k][1] /\ 1 \in DOMAIN toServer[k]
         /\ toServer' \in [Conns -> Seq(Requests)]
         /\ toServer'[k] = Tail(toServer[k])
         /\ \A j \in Conns : j # k => toServer'[j] = toServer[j]
         /\ \A j \in Conns : \A i \in DOMAIN toServer'[j] :
              \E l \in DOMAIN toServer[j] : toServer'[j][i] = toServer[j][l]
         /\ type = "open" => NextFrame(k).token \in 1 .. minted /\ NextFrame(k).attempt \in Nat
         /\ k <= client.conn /\ \A j \in Conns : j > client.conn => j # k
<1>1. toServer[k] # <<>> /\ toServer[k] \in Seq(Requests)
      /\ toServer \in [Conns -> Seq(Requests)]
  BY ConnTyped DEF Takes
<1>2. /\ Head(toServer[k]) \in Requests /\ Tail(toServer[k]) \in Seq(Requests)
      /\ Head(toServer[k]) = toServer[k][1] /\ 1 \in DOMAIN toServer[k]
  BY <1>1, TailIs
<1>3. toServer' = [toServer EXCEPT ![k] = Tail(toServer[k])]
  BY DEF Takes
<1>4. /\ toServer' \in [Conns -> Seq(Requests)] /\ toServer'[k] = Tail(toServer[k])
      /\ \A j \in Conns : j # k => toServer'[j] = toServer[j]
  BY <1>1, <1>2, <1>3
<1>5. \A i \in DOMAIN Tail(toServer[k]) :
        \E l \in DOMAIN toServer[k] : Tail(toServer[k])[i] = toServer[k][l]
  BY <1>1, TailIs
<1>6. \A j \in Conns : \A i \in DOMAIN toServer'[j] :
        \E l \in DOMAIN toServer[j] : toServer'[j][i] = toServer[j][l]
  <2>1. SUFFICES ASSUME NEW j \in Conns, NEW i \in DOMAIN toServer'[j]
                 PROVE  \E l \in DOMAIN toServer[j] : toServer'[j][i] = toServer[j][l]
    OBVIOUS
  <2>2. CASE j = k
    BY <2>2, <1>4, <1>5
  <2>3. CASE j # k
    BY <2>3, <1>4
  <2> QED BY <2>2, <2>3
<1>7. type = "open" => NextFrame(k).token \in 1 .. minted /\ NextFrame(k).attempt \in Nat
  BY <1>2, AskUpIs DEF Takes, NextFrame, TInv, TokensMinted
<1> QED BY <1>1, <1>2, <1>4, <1>6, <1>7, ConnMade DEF Takes, NextFrame

\* A request taken in hand, or put down.
LEMMA WorkIs ==
  ASSUME TInv, NEW k \in Conns, NEW w \in Works, conn' = [conn EXCEPT ![k].work = w]
  PROVE  /\ conn' \in [Conns -> ConnStates]
         /\ conn'[k].work = w /\ conn'[k].closed = conn[k].closed
         /\ conn'[k].handle = conn[k].handle
         /\ \A j \in Conns : j # k => conn'[j] = conn[j]
<1>1. conn[k] \in ConnStates /\ conn \in [Conns -> ConnStates]
  BY ConnTyped
<1>2. conn' = [conn EXCEPT ![k] = [conn[k] EXCEPT !.work = w]]
  OBVIOUS
<1> DEFINE c == [conn[k] EXCEPT !.work = w]
<1>3. c \in ConnStates /\ c.work = w /\ c.closed = conn[k].closed /\ c.handle = conn[k].handle
  BY <1>1 DEF ConnStates
<1> HIDE DEF c
<1>4. conn' = [conn EXCEPT ![k] = c]
  BY <1>2 DEF c
<1> QED BY <1>1, <1>3, <1>4

\* What the answer to connection k adds to the client's frames.
LEMMA ReplyAdds ==
  ASSUME TInv, NEW k \in Conns, NEW f \in Responses
  PROVE  \A j \in Conns : \A i \in DOMAIN Reply(k, f)[j] :
           \/ i \in DOMAIN toClient[j] /\ Reply(k, f)[j][i] = toClient[j][i]
           \/ j = k /\ Reply(k, f)[j][i] = f
<1>1. toClient \in [Conns -> Seq(Responses)]
  BY ConnTyped
<1>2. /\ Reply(k, f)[k] = IF Mute(k) THEN toClient[k] ELSE Append(toClient[k], f)
      /\ \A j \in Conns : j # k => Reply(k, f)[j] = toClient[j]
  BY <1>1, ReplyIs
<1>3. \A i \in DOMAIN Append(toClient[k], f) :
        \/ i \in DOMAIN toClient[k] /\ Append(toClient[k], f)[i] = toClient[k][i]
        \/ Append(toClient[k], f)[i] = f
  BY <1>1, AppendIs
<1> QED BY <1>2, <1>3

\* An open is taken in hand.
LEMMA BeginOpenIs ==
  ASSUME TInv, NEW k \in Conns, BeginOpen(k)
  PROVE  /\ TInv'
         /\ UNCHANGED <<client, told, toClient, session, minted, applied, access, write>>
         /\ conn'[k].work \in Works /\ conn'[k].work.at = "admission"
         /\ conn'[k].work.token = NextFrame(k).token
         /\ conn'[k].work.attempt = NextFrame(k).attempt
         /\ conn'[k].closed = conn[k].closed /\ conn'[k].handle = conn[k].handle
         /\ \A j \in Conns : j # k => conn'[j] = conn[j]
<1> DEFINE f == NextFrame(k)
           w == [Idle EXCEPT !.at = "admission", !.token = f.token, !.attempt = f.attempt]
<1>1. Takes(k, "open") /\ conn' = [conn EXCEPT ![k].work = w]
      /\ UNCHANGED <<client, told, toClient, session, minted, applied, access, write, budget>>
  BY DEF BeginOpen
<1>2. /\ toServer' \in [Conns -> Seq(Requests)]
      /\ \A j \in Conns : j # k => toServer'[j] = toServer[j]
      /\ \A j \in Conns : \A i \in DOMAIN toServer'[j] :
           \E l \in DOMAIN toServer[j] : toServer'[j][i] = toServer[j][l]
      /\ \A j \in Conns : j > client.conn => j # k
  BY <1>1, TakesIs
<1>3. f.token \in 1 .. minted /\ f.attempt \in Nat /\ minted \in Nat
  BY <1>1, TakesIs, ConnTyped
<1> HIDE DEF f
<1>4. /\ w \in Works /\ w.at = "admission" /\ w.token = f.token /\ w.attempt = f.attempt
  <2>1. PICK t \in Nat, a \in Nat : t = f.token /\ a = f.attempt
    BY <1>3
  <2>2. w = [Idle EXCEPT !.at = "admission", !.token = t, !.attempt = a]
    BY <2>1
  <2> HIDE DEF w
  <2> QED BY <2>1, <2>2, IdleIs DEF Works
<1> HIDE DEF w
<1>5. /\ conn' \in [Conns -> ConnStates]
      /\ conn'[k].work = w /\ conn'[k].closed = conn[k].closed
      /\ conn'[k].handle = conn[k].handle
      /\ \A j \in Conns : j # k => conn'[j] = conn[j]
  BY <1>1, <1>4, WorkIs
<1>6. \A j \in Conns : /\ conn'[j].work.token <= minted
                       /\ conn'[j].work.at = "catch-up" => conn'[j].work.token # 0
  <2>1. SUFFICES ASSUME NEW j \in Conns
                 PROVE  /\ conn'[j].work.token <= minted
                        /\ conn'[j].work.at = "catch-up" => conn'[j].work.token # 0
    OBVIOUS
  <2>2. CASE j = k
    BY <2>2, <1>3, <1>4, <1>5
  <2>3. CASE j # k
    BY <2>3, <1>5, ConnTyped
  <2> QED BY <2>2, <2>3
<1>7. TInv'
  <2>1. \A j \in Conns : j > client.conn =>
          conn'[j] = conn[j] /\ toServer'[j] = toServer[j] /\ toClient'[j] = toClient[j]
    BY <1>1, <1>2, <1>5
  <2>2. \A j \in Conns : \A i \in DOMAIN toClient'[j] :
          i \in DOMAIN toClient[j] /\ toClient'[j][i] = toClient[j][i]
    BY <1>1
  <2>3. /\ budget' \in Nat /\ access' \in BOOLEAN /\ write' = write /\ applied' \subseteq Commits
        /\ toClient' \in [Conns -> Seq(Responses)] /\ minted' = minted /\ minted \in Nat
        /\ session' \in SessionStates
        /\ {session'.token, session'.presented} \subseteq 0 .. minted' /\ session'.owner <= client.conn
    BY <1>1 DEF TInv, TypeOK
  <2>4. minted <= minted'
    BY <2>3
  <2> QED BY <1>1, <1>2, <1>5, <1>6, <2>1, <2>2, <2>3, <2>4, ServerTyped, ZenonT(60)
<1> QED BY <1>1, <1>4, <1>5, <1>7 DEF f

\* Types, after connection k has put its request down and answered f.
LEMMA AnswerTyped ==
  ASSUME TInv, NEW k \in Conns, NEW f \in Responses,
         f.type = "opened" => f.token \in 1 .. minted,
         conn[k].work # Idle, Answered(k), toClient' \in {toClient, Reply(k, f)},
         client' = client, told' = told, toServer' = toServer, session' = session,
         minted' = minted, access' = access, write' = write, budget' \in Nat,
         applied' \subseteq Commits
  PROVE  /\ TInv'
         /\ conn'[k].work = Idle /\ conn'[k].closed = conn[k].closed
         /\ conn'[k].handle = conn[k].handle
         /\ \A j \in Conns : j # k => conn'[j] = conn[j] /\ toClient'[j] = toClient[j]
         /\ \/ toClient'[k] = toClient[k]
            \/ ~ conn[k].closed /\ toClient'[k] = Append(toClient[k], f)
<1>1. /\ conn' \in [Conns -> ConnStates]
      /\ conn'[k].work = Idle /\ conn'[k].closed = conn[k].closed
      /\ conn'[k].handle = conn[k].handle
      /\ \A j \in Conns : j # k => conn'[j] = conn[j]
  BY IdleIs, WorkIs DEF Answered
<1>2. \A j \in Conns : /\ conn'[j].work.token <= minted
                       /\ conn'[j].work.at = "catch-up" => conn'[j].work.token # 0
  <2>1. SUFFICES ASSUME NEW j \in Conns
                 PROVE  /\ conn'[j].work.token <= minted
                        /\ conn'[j].work.at = "catch-up" => conn'[j].work.token # 0
    OBVIOUS
  <2>2. CASE j = k
    BY <2>2, <1>1, IdleIs, ConnTyped
  <2>3. CASE j # k
    BY <2>3, <1>1, ConnTyped
  <2> QED BY <2>2, <2>3
<1>3. /\ toClient' \in [Conns -> Seq(Responses)]
      /\ \A j \in Conns : j # k => toClient'[j] = toClient[j]
      /\ \/ toClient'[k] = toClient[k]
         \/ ~ conn[k].closed /\ toClient'[k] = Append(toClient[k], f)
  <2>1. toClient \in [Conns -> Seq(Responses)]
    BY ConnTyped
  <2>2. CASE toClient' = toClient
    BY <2>1, <2>2
  <2>3. CASE toClient' = Reply(k, f)
    BY <2>1, <2>3, ReplyIs DEF Mute
  <2> QED BY <2>2, <2>3
<1>4. \A j \in Conns : \A i \in DOMAIN toClient'[j] :
        \/ i \in DOMAIN toClient[j] /\ toClient'[j][i] = toClient[j][i]
        \/ toClient'[j][i] = f
  BY ReplyAdds
<1>5. \A j \in Conns : j > client.conn => j # k
  BY ConnMade
<1>6. TInv'
  <2>1. \A j \in Conns : j > client.conn =>
          conn'[j] = conn[j] /\ toServer'[j] = toServer[j] /\ toClient'[j] = toClient[j]
    BY <1>1, <1>3, <1>5
  <2>2. \A j \in Conns : \A i \in DOMAIN toClient'[j] :
          \/ i \in DOMAIN toClient[j] /\ toClient'[j][i] = toClient[j][i]
          \/ toClient'[j][i].type # "opened"
          \/ toClient'[j][i].token \in 1 .. minted'
    BY <1>4
  <2>3. /\ access' \in BOOLEAN /\ write' = write /\ toServer' \in [Conns -> Seq(Requests)]
        /\ minted' = minted /\ minted \in Nat /\ session' \in SessionStates
        /\ {session'.token, session'.presented} \subseteq 0 .. minted'
        /\ session'.owner <= client.conn
    BY DEF TInv, TypeOK
  <2>4. minted <= minted'
    BY <2>3
  <2>5. \A j \in Conns : \A i \in DOMAIN toServer'[j] :
          \E l \in DOMAIN toServer[j] : toServer'[j][i] = toServer[j][l]
    OBVIOUS
  <2> QED BY <1>1, <1>2, <1>3, <2>1, <2>2, <2>3, <2>4, <2>5, ServerTyped, ZenonT(60)
<1> QED BY <1>1, <1>3, <1>6

\* An open is refused.
LEMMA RefuseOpenIs ==
  ASSUME TInv, NEW k \in Conns, RefuseOpen(k)
  PROVE  /\ TInv'
         /\ UNCHANGED <<client, told, toServer, session, minted, applied, access, write>>
         /\ conn[k].work.at = "admission"
         /\ conn'[k].work = Idle /\ conn'[k].closed = conn[k].closed
         /\ conn'[k].handle = conn[k].handle
         /\ \A j \in Conns : j # k => conn'[j] = conn[j] /\ toClient'[j] = toClient[j]
         /\ \/ toClient'[k] = toClient[k]
            \/ /\ ~ conn[k].closed
               /\ \E why \in {"denied", "retriable", "revoked"} :
                    /\ toClient'[k] = Append(toClient[k], Refusal(why))
                    /\ why = "denied" => ~ access
                    /\ why = "revoked" => ~ Resumable(conn[k].work)
<1>1. conn[k].work.at = "admission" /\ Answered(k)
      /\ UNCHANGED <<client, told, toServer, session, minted, applied, access, write>>
  BY DEF RefuseOpen
<1>2. conn[k].work # Idle
  BY <1>1, IdleIs
<1>3. PICK why \in {"denied", "retriable", "revoked"} :
        /\ toClient' \in {toClient, Reply(k, Refusal(why))}
        /\ why = "denied" => ~ access
        /\ why = "revoked" => ~ Resumable(conn[k].work)
  BY DEF RefuseOpen, Replies
<1>4. Refusal(why) \in Responses /\ Refusal(why).type # "opened"
  BY FrameTypes DEF Refusal
<1>5. budget' \in Nat /\ applied' \subseteq Commits
  BY <1>1 DEF RefuseOpen, Deny, TInv, TypeOK
<1>6. /\ TInv'
      /\ conn'[k].work = Idle /\ conn'[k].closed = conn[k].closed
      /\ conn'[k].handle = conn[k].handle
      /\ \A j \in Conns : j # k => conn'[j] = conn[j] /\ toClient'[j] = toClient[j]
      /\ \/ toClient'[k] = toClient[k]
         \/ ~ conn[k].closed /\ toClient'[k] = Append(toClient[k], Refusal(why))
  BY <1>1, <1>2, <1>3, <1>4, <1>5, AnswerTyped
<1> QED BY <1>1, <1>3, <1>6

\* What the decision of the commit in hand says and does.
Decided(k, how) ==
  /\ how = "accepted" => /\ session.token # 0 /\ session.token = conn[k].work.token
                         /\ write # "withdrawn" /\ applied' = applied \cup {conn[k].work.commit}
  /\ how # "accepted" => applied' = applied
  /\ how = "refused" /\ session.token # 0 /\ session.token = conn[k].work.token
       => conn[k].work.commit \notin applied
  /\ how = "denied" => write # "granted"

\* A commit in hand is decided.
LEMMA DecideTransactIs ==
  ASSUME TInv, NEW k \in Conns, DecideTransact(k), conn[k].work.commit \in Commits
  PROVE  /\ TInv'
         /\ UNCHANGED <<client, told, toServer, session, minted, access, write>>
         /\ conn[k].work.at = "transact"
         /\ conn'[k].work = Idle /\ conn'[k].closed = conn[k].closed
         /\ conn'[k].handle = conn[k].handle
         /\ \A j \in Conns : j # k => conn'[j] = conn[j] /\ toClient'[j] = toClient[j]
         /\ \E how \in Hows :
              /\ \/ Mute(k) /\ toClient'[k] = toClient[k]
                 \/ /\ ~ Mute(k)
                    /\ toClient'[k] = Append(toClient[k], Verdict(conn[k].work.commit, how))
              /\ Decided(k, how)
<1>1. conn[k].work.at = "transact" /\ Answered(k)
      /\ UNCHANGED <<client, told, toServer, session, minted, access, write, budget>>
  BY DEF DecideTransact
<1>2. conn[k].work # Idle
  BY <1>1, IdleIs
<1>3. PICK how \in Hows :
        /\ toClient' = Reply(k, Verdict(conn[k].work.commit, how))
        /\ Decided(k, how)
  BY DEF DecideTransact, Replies, Decided, Hows
<1>4. Verdict(conn[k].work.commit, how) \in Responses
      /\ Verdict(conn[k].work.commit, how).type # "opened"
  BY FrameTypes DEF Verdict
<1>5. budget' \in Nat /\ applied' \subseteq Commits
  BY <1>1, <1>3 DEF TInv, TypeOK, Decided, Hows
<1>6. /\ TInv'
      /\ conn'[k].work = Idle /\ conn'[k].closed = conn[k].closed
      /\ conn'[k].handle = conn[k].handle
      /\ \A j \in Conns : j # k => conn'[j] = conn[j] /\ toClient'[j] = toClient[j]
  BY <1>1, <1>2, <1>3, <1>4, <1>5, AnswerTyped
<1>7. toClient'[k] = IF Mute(k) THEN toClient[k]
                     ELSE Append(toClient[k], Verdict(conn[k].work.commit, how))
  BY <1>3, <1>4, ReplyIs, ConnTyped
<1> QED BY <1>1, <1>3, <1>6, <1>7

\* A commit is taken in hand, or refused on a connection with no handle.
LEMMA BeginTransactIs ==
  ASSUME TInv, NEW k \in Conns, BeginTransact(k)
  PROVE  /\ TInv' /\ Takes(k, "transact")
         /\ UNCHANGED <<client, told, session, minted, applied, access, write>>
         /\ NextFrame(k).commit \in Commits
         /\ conn'[k].closed = conn[k].closed /\ conn'[k].handle = conn[k].handle
         /\ \A j \in Conns : j # k => conn'[j] = conn[j] /\ toClient'[j] = toClient[j]
         /\ \/ /\ conn[k].handle /\ toClient' = toClient
               /\ conn'[k].work \in Works /\ conn'[k].work.at = "transact"
               /\ conn'[k].work.token = session.token
               /\ conn'[k].work.commit = NextFrame(k).commit
            \/ /\ ~ conn[k].handle /\ conn' = conn
               /\ toClient'[k] = IF Mute(k) THEN toClient[k]
                                 ELSE Append(toClient[k], Verdict(NextFrame(k).commit, "refused"))
<1> DEFINE n == NextFrame(k).commit
           w == [Idle EXCEPT !.at = "transact", !.token = session.token, !.commit = n]
<1>1. Takes(k, "transact")
      /\ UNCHANGED <<client, told, session, minted, applied, access, write, budget>>
  BY DEF BeginTransact
<1>2. /\ toServer' \in [Conns -> Seq(Requests)]
      /\ \A j \in Conns : j # k => toServer'[j] = toServer[j]
      /\ \A j \in Conns : \A i \in DOMAIN toServer'[j] :
           \E l \in DOMAIN toServer[j] : toServer'[j][i] = toServer[j][l]
      /\ \A j \in Conns : j > client.conn => j # k
      /\ ~ conn[k].closed
  BY <1>1, TakesIs
<1>3. n \in Commits /\ session.token \in 0 .. minted /\ session.token \in Nat
      /\ conn[k].handle \in BOOLEAN
  BY <1>1, TakesIs, ConnTyped, AskUpIs
<1>4. /\ budget' \in Nat /\ access' \in BOOLEAN /\ write' = write /\ applied' \subseteq Commits
      /\ toClient \in [Conns -> Seq(Responses)] /\ minted' = minted /\ minted \in Nat
      /\ session' \in SessionStates /\ minted <= minted' /\ conn \in [Conns -> ConnStates]
      /\ {session'.token, session'.presented} \subseteq 0 .. minted' /\ session'.owner <= client.conn
  BY <1>1 DEF TInv, TypeOK
<1> HIDE DEF n
<1>5. CASE conn[k].handle
  <2>1. conn' = [conn EXCEPT ![k].work = w] /\ toClient' = toClient
    BY <1>5 DEF BeginTransact, n
  <2>2. /\ w \in Works /\ w.at = "transact" /\ w.token = session.token /\ w.commit = n
    <3>1. PICK t \in Nat, c \in Commits : t = session.token /\ c = n
      BY <1>3
    <3>2. w = [Idle EXCEPT !.at = "transact", !.token = t, !.commit = c]
      BY <3>1
    <3> HIDE DEF w
    <3> QED BY <3>1, <3>2, IdleIs DEF Works
  <2> HIDE DEF w
  <2>3. /\ conn' \in [Conns -> ConnStates]
        /\ conn'[k].work = w /\ conn'[k].closed = conn[k].closed
        /\ conn'[k].handle = conn[k].handle
        /\ \A j \in Conns : j # k => conn'[j] = conn[j]
    BY <2>1, <2>2, WorkIs
  <2>4. \A j \in Conns : /\ conn'[j].work.token <= minted'
                         /\ conn'[j].work.at = "catch-up" => conn'[j].work.token # 0
    <3>1. SUFFICES ASSUME NEW j \in Conns
                   PROVE  /\ conn'[j].work.token <= minted'
                          /\ conn'[j].work.at = "catch-up" => conn'[j].work.token # 0
      OBVIOUS
    <3>2. CASE j = k
      BY <3>2, <1>3, <1>4, <2>2, <2>3
    <3>3. CASE j # k
      BY <3>3, <1>4, <2>3, ConnTyped
    <3> QED BY <3>2, <3>3
  <2>5. TInv'
    <3>1. \A j \in Conns : j > client.conn =>
            conn'[j] = conn[j] /\ toServer'[j] = toServer[j] /\ toClient'[j] = toClient[j]
      BY <2>1, <1>2, <2>3
    <3>2. \A j \in Conns : \A i \in DOMAIN toClient'[j] :
            i \in DOMAIN toClient[j] /\ toClient'[j][i] = toClient[j][i]
      BY <2>1
    <3> QED BY <1>1, <1>2, <1>4, <2>1, <2>3, <2>4, <3>1, <3>2, ServerTyped, ZenonT(60)
  <2> QED BY <1>1, <1>3, <1>5, <2>1, <2>2, <2>3, <2>5 DEF n
<1>6. CASE ~ conn[k].handle
  <2>1. conn' = conn /\ toClient' = Reply(k, Verdict(n, "refused"))
    BY <1>6 DEF BeginTransact, Replies, n
  <2>2. Verdict(n, "refused") \in Responses /\ Verdict(n, "refused").type # "opened"
    BY <1>3, FrameTypes DEF Verdict
  <2>3. /\ toClient' \in [Conns -> Seq(Responses)]
        /\ toClient'[k] = IF Mute(k) THEN toClient[k]
                          ELSE Append(toClient[k], Verdict(n, "refused"))
        /\ \A j \in Conns : j # k => toClient'[j] = toClient[j]
    BY <1>2, <1>4, <2>1, <2>2, ReplyIs
  <2>4. \A j \in Conns : \A i \in DOMAIN toClient'[j] :
          \/ i \in DOMAIN toClient[j] /\ toClient'[j][i] = toClient[j][i]
          \/ toClient'[j][i].type # "opened"
    <3>1. \A j \in Conns : \A i \in DOMAIN toClient'[j] :
            \/ i \in DOMAIN toClient[j] /\ toClient'[j][i] = toClient[j][i]
            \/ toClient'[j][i] = Verdict(n, "refused")
      <4>1. PICK f \in Responses : f = Verdict(n, "refused")
        BY <2>2
      <4>2. \A j \in Conns : \A i \in DOMAIN Reply(k, f)[j] :
              \/ i \in DOMAIN toClient[j] /\ Reply(k, f)[j][i] = toClient[j][i]
              \/ Reply(k, f)[j][i] = f
        BY ReplyAdds
      <4> QED BY <2>1, <4>1, <4>2
    <3> QED BY <2>2, <3>1
  <2>5. TInv'
    <3>1. \A j \in Conns : j > client.conn =>
            conn'[j] = conn[j] /\ toServer'[j] = toServer[j] /\ toClient'[j] = toClient[j]
      BY <2>1, <1>2, <2>3
    <3>2. \A j \in Conns : /\ conn'[j].work.token <= minted'
                           /\ conn'[j].work.at = "catch-up" => conn'[j].work.token # 0
      BY <1>4, <2>1, ConnTyped
    <3> QED BY <1>1, <1>2, <1>4, <2>1, <2>3, <2>4, <3>1, <3>2, ServerTyped, ZenonT(60)
  <2> QED BY <1>1, <1>3, <1>6, <2>1, <2>3, <2>5 DEF n
<1> QED BY <1>5, <1>6

\* The watch set is answered.
LEMMA WatchSetIs ==
  ASSUME TInv, NEW k \in Conns, WatchSet(k)
  PROVE  /\ TInv' /\ Takes(k, "watch")
         /\ UNCHANGED <<client, told, session, minted, conn, applied, access, write>>
         /\ \A j \in Conns : j # k => toClient'[j] = toClient[j]
         /\ \E how \in {"ok", "retriable"} :
              toClient'[k] = IF Mute(k) THEN toClient[k] ELSE Append(toClient[k], Watched(how))
<1>1. Takes(k, "watch") /\ UNCHANGED <<client, told, session, minted, conn, applied, access, write>>
  BY DEF WatchSet
<1>2. /\ toServer' \in [Conns -> Seq(Requests)]
      /\ \A j \in Conns : j # k => toServer'[j] = toServer[j]
      /\ \A j \in Conns : \A i \in DOMAIN toServer'[j] :
           \E l \in DOMAIN toServer[j] : toServer'[j][i] = toServer[j][l]
      /\ \A j \in Conns : j > client.conn => j # k
      /\ ~ conn[k].closed
  BY <1>1, TakesIs
<1>3. /\ access' \in BOOLEAN /\ write' = write /\ applied' \subseteq Commits
      /\ toClient \in [Conns -> Seq(Responses)] /\ minted' = minted /\ minted \in Nat
      /\ session' \in SessionStates /\ minted <= minted' /\ conn \in [Conns -> ConnStates]
      /\ {session'.token, session'.presented} \subseteq 0 .. minted' /\ session'.owner <= client.conn
  BY <1>1 DEF TInv, TypeOK
<1>4. budget' \in Nat
  BY DEF WatchSet, Deny, TInv, TypeOK
<1>5. PICK how \in {"ok", "retriable"} : toClient' = Reply(k, Watched(how))
  BY DEF WatchSet, Replies
<1>6. Watched(how) \in Responses /\ Watched(how).type # "opened"
  BY FrameTypes DEF Watched
<1>7. /\ toClient' \in [Conns -> Seq(Responses)]
      /\ toClient'[k] = IF Mute(k) THEN toClient[k] ELSE Append(toClient[k], Watched(how))
      /\ \A j \in Conns : j # k => toClient'[j] = toClient[j]
  BY <1>2, <1>3, <1>5, <1>6, ReplyIs
<1>8. \A j \in Conns : \A i \in DOMAIN toClient'[j] :
        \/ i \in DOMAIN toClient[j] /\ toClient'[j][i] = toClient[j][i]
        \/ toClient'[j][i].type # "opened"
  BY <1>5, <1>6, ReplyAdds
<1>9. TInv'
  <2>1. \A j \in Conns : j > client.conn =>
          conn'[j] = conn[j] /\ toServer'[j] = toServer[j] /\ toClient'[j] = toClient[j]
    BY <1>1, <1>2, <1>7
  <2>2. \A j \in Conns : /\ conn'[j].work.token <= minted'
                         /\ conn'[j].work.at = "catch-up" => conn'[j].work.token # 0
    BY <1>1, <1>3, ConnTyped
  <2> QED BY <1>1, <1>2, <1>3, <1>4, <1>7, <1>8, <2>1, <2>2, ServerTyped, ZenonT(60)
<1> QED BY <1>1, <1>7, <1>9

\* The connection a takeover revokes.
Taken(j, k) == session.token # 0 /\ session.owner = j /\ j # k

\* An open that is admitted becomes the session.
LEMMA AdmitOpenIs ==
  ASSUME TInv, NEW k \in Conns, AdmitOpen(k)
  PROVE  /\ TInv'
         /\ UNCHANGED <<client, told, toServer, applied, access, write>>
         /\ access /\ ~ conn[k].closed /\ conn[k].work.at = "admission" /\ Resumable(conn[k].work)
         /\ minted' = minted + 1
         /\ session'.token = minted + 1 /\ session'.presented = conn[k].work.token
         /\ session'.attempt = conn[k].work.attempt /\ session'.owner = k
         /\ conn'[k].closed = conn[k].closed /\ conn'[k].handle = TRUE
         /\ conn'[k].work \in Works
         /\ \A j \in Conns : j # k =>
              /\ conn'[j].closed = conn[j].closed /\ conn'[j].work = conn[j].work
              /\ conn'[j].handle = (conn[j].handle /\ ~ Taken(j, k))
              /\ \/ toClient'[j] = toClient[j]
                 \/ Taken(j, k) /\ ~ conn[j].closed /\ toClient'[j] = Append(toClient[j], Revoked)
         /\ \/ /\ session.token # 0 /\ toClient'[k] = toClient[k]
               /\ conn'[k].work.at = "catch-up" /\ conn'[k].work.token = minted + 1
            \/ /\ session.token = 0 /\ conn'[k].work = Idle
               /\ toClient'[k] = IF Mute(k) THEN toClient[k]
                                 ELSE Append(toClient[k], Opened(minted + 1, FALSE))
<1> DEFINE o == conn[k].work
           old == session.owner
           taken == session.token # 0 /\ old \notin {0, k}
           resumed == session.token # 0
           reply == IF taken THEN Reply(old, Revoked) ELSE toClient
<1>1. /\ ~ conn[k].closed /\ o.at = "admission" /\ access /\ Resumable(o)
      /\ session' = OpenedSession(k, o) /\ minted' = minted + 1
      /\ toClient' = IF resumed THEN reply ELSE Reply(k, Opened(minted + 1, FALSE))
      /\ UNCHANGED <<client, told, toServer, applied, access, write, budget>>
  BY DEF AdmitOpen, RegisterOpen
<1>2. /\ o.token \in 0 .. minted /\ o.token \in Nat /\ o.attempt \in Nat /\ minted \in Nat
      /\ old \in Conns \cup {0} /\ session.token \in Nat /\ o \in Works /\ k # 0
      /\ conn \in [Conns -> ConnStates] /\ toClient \in [Conns -> Seq(Responses)]
      /\ toClient[k] \in Seq(Responses) /\ 0 \notin Conns
  BY ConnTyped DEF Conns
<1>3. PICK t \in Nat : t = minted + 1
  BY <1>2
<1>4. /\ session' \in SessionStates /\ session'.token = t /\ session'.presented = o.token
      /\ session'.attempt = o.attempt /\ session'.owner = k
  BY <1>1, <1>2, <1>3 DEF OpenedSession, SessionStates
<1>5. \A j \in Conns : j > client.conn => j # k
  BY <1>1, IdleIs, ConnMade
<1> DEFINE w == IF resumed THEN [Idle EXCEPT !.at = "catch-up", !.token = t] ELSE Idle
<1>6. /\ w \in Works /\ w.token <= t
      /\ resumed => w.at = "catch-up" /\ w.token = t
      /\ ~ resumed => w = Idle
  <2>1. CASE resumed
    <3>1. w = [Idle EXCEPT !.at = "catch-up", !.token = t]
      BY <2>1
    <3> HIDE DEF w
    <3>2. w \in Works /\ w.at = "catch-up" /\ w.token = t
      BY <3>1, IdleIs DEF Works
    <3> QED BY <2>1, <3>2, <1>3
  <2>2. CASE ~ resumed
    BY <2>2, <1>3, IdleIs
  <2> QED BY <2>1, <2>2
<1>7. conn' = [j \in Conns |->
        IF j = k THEN [conn[k] EXCEPT !.handle = TRUE, !.work = w]
        ELSE IF taken /\ j = old THEN [conn[j] EXCEPT !.handle = FALSE] ELSE conn[j]]
  BY <1>3 DEF AdmitOpen, RegisterOpen
<1> HIDE DEF w
<1> DEFINE c == [conn[k] EXCEPT !.handle = TRUE, !.work = w]
<1>8. c \in ConnStates /\ c.closed = conn[k].closed /\ c.handle = TRUE /\ c.work = w
  <2>1. conn[k] \in ConnStates
    BY ConnTyped
  <2> QED BY <2>1, <1>6 DEF ConnStates
<1>9. \A j \in Conns :
        /\ [conn[j] EXCEPT !.handle = FALSE] \in ConnStates
        /\ [conn[j] EXCEPT !.handle = FALSE].closed = conn[j].closed
        /\ [conn[j] EXCEPT !.handle = FALSE].work = conn[j].work
        /\ [conn[j] EXCEPT !.handle = FALSE].handle = FALSE
  BY <1>2 DEF ConnStates
<1>10. conn'[k] = c
  BY <1>7
<1> HIDE DEF c
<1>11. \A j \in Conns : j # k =>
         /\ conn'[j].closed = conn[j].closed /\ conn'[j].work = conn[j].work
         /\ conn'[j].handle = (conn[j].handle /\ ~ Taken(j, k))
         /\ conn'[j] \in ConnStates
  <2>1. SUFFICES ASSUME NEW j \in Conns, j # k
                 PROVE  /\ conn'[j].closed = conn[j].closed /\ conn'[j].work = conn[j].work
                        /\ conn'[j].handle = (conn[j].handle /\ ~ Taken(j, k))
                        /\ conn'[j] \in ConnStates
    OBVIOUS
  <2>2. conn'[j] = IF taken /\ j = old THEN [conn[j] EXCEPT !.handle = FALSE] ELSE conn[j]
    BY <1>7, <2>1
  <2>3. Taken(j, k) <=> taken /\ j = old
    BY <1>2, <2>1 DEF Taken
  <2>4. CASE taken /\ j = old
    BY <2>2, <2>3, <2>4, <1>9
  <2>5. CASE ~ (taken /\ j = old)
    BY <2>2, <2>3, <2>5, ConnTyped
  <2> QED BY <2>4, <2>5
<1>12. conn' \in [Conns -> ConnStates]
  <2>1. \A j \in Conns : conn'[j] \in ConnStates
    BY <1>8, <1>10, <1>11
  <2>2. DOMAIN conn' = Conns /\ conn' = [j \in Conns |-> conn'[j]]
    BY <1>7
  <2> QED BY <2>1, <2>2
<1>13. /\ reply \in [Conns -> Seq(Responses)] /\ reply[k] = toClient[k]
       /\ ~ taken => reply = toClient
       /\ \A j \in Conns : j # k =>
            \/ reply[j] = toClient[j]
            \/ Taken(j, k) /\ ~ conn[j].closed /\ reply[j] = Append(toClient[j], Revoked)
  <2>1. CASE taken
    <3>1. old \in Conns /\ old # k /\ Taken(old, k)
      BY <2>1, <1>2 DEF Taken
    <3>2. Revoked \in Responses
      BY FrameTypes
    <3>3. /\ Reply(old, Revoked) \in [Conns -> Seq(Responses)]
          /\ \/ Reply(old, Revoked)[old] = toClient[old]
             \/ /\ ~ conn[old].closed
                /\ Reply(old, Revoked)[old] = Append(toClient[old], Revoked)
          /\ \A j \in Conns : j # old => Reply(old, Revoked)[j] = toClient[j]
      BY <3>1, <3>2, <1>2, ReplyIs DEF Mute
    <3> QED BY <2>1, <3>1, <3>3
  <2>2. CASE ~ taken
    BY <2>2, <1>2
  <2> QED BY <2>1, <2>2
<1>14. /\ toClient' \in [Conns -> Seq(Responses)]
       /\ \A j \in Conns : j # k => toClient'[j] = reply[j]
       /\ resumed => toClient'[k] = toClient[k]
       /\ ~ resumed => toClient'[k] = IF Mute(k) THEN toClient[k]
                                      ELSE Append(toClient[k], Opened(t, FALSE))
  <2>1. ~ resumed => reply = toClient
    BY <1>13
  <2> HIDE DEF reply
  <2>2. CASE resumed
    BY <2>2, <1>1, <1>13
  <2>3. CASE ~ resumed
    <3>1. toClient' = Reply(k, Opened(t, FALSE)) /\ Opened(t, FALSE) \in Responses
      BY <2>3, <1>1, <1>3, FrameTypes
    <3>2. /\ Reply(k, Opened(t, FALSE)) \in [Conns -> Seq(Responses)]
          /\ Reply(k, Opened(t, FALSE))[k] = IF Mute(k) THEN toClient[k]
                                             ELSE Append(toClient[k], Opened(t, FALSE))
          /\ \A j \in Conns : j # k => Reply(k, Opened(t, FALSE))[j] = toClient[j]
      BY <3>1, <1>2, ReplyIs
    <3> QED BY <2>1, <2>3, <3>1, <3>2
  <2> QED BY <2>2, <2>3
<1>15. \A j \in Conns : j # k =>
         \/ toClient'[j] = toClient[j]
         \/ Taken(j, k) /\ ~ conn[j].closed /\ toClient'[j] = Append(toClient[j], Revoked)
  <2> HIDE DEF reply
  <2> QED BY <1>13, <1>14
<1>16. TInv'
  <2>1. k <= client.conn
    BY <1>1, IdleIs, ConnMade
  <2>2. \A j \in Conns : j > client.conn => toClient'[j] = toClient[j] /\ conn'[j] = conn[j]
    <3>1. SUFFICES ASSUME NEW j \in Conns, j > client.conn
                   PROVE  toClient'[j] = toClient[j] /\ conn'[j] = conn[j]
      OBVIOUS
    <3>2. j # old /\ j # k
      BY <3>1, <1>5, ConnTyped
    <3>3. conn'[j] = conn[j]
      BY <3>2, <1>7
    <3>4. ~ Taken(j, k)
      BY <3>2 DEF Taken
    <3> QED BY <3>2, <3>3, <3>4, <1>15
  <2>3. \A j \in Conns : /\ conn'[j].work.token <= minted'
                         /\ conn'[j].work.at = "catch-up" => conn'[j].work.token # 0
    <3>1. SUFFICES ASSUME NEW j \in Conns
                   PROVE  /\ conn'[j].work.token <= t
                          /\ conn'[j].work.at = "catch-up" => conn'[j].work.token # 0
      BY <1>1, <1>3
    <3>2. CASE j = k
      BY <3>2, <1>2, <1>3, <1>6, <1>8, <1>10, IdleIs
    <3>3. CASE j # k
      <4>1. conn'[j].work = conn[j].work
        BY <3>3, <1>11
      <4>2. /\ conn[j].work.token \in 0 .. minted
            /\ conn[j].work.at = "catch-up" => conn[j].work.token \in 1 .. minted
        BY ConnTyped
      <4> QED BY <4>1, <4>2, <1>2, <1>3
    <3> QED BY <3>2, <3>3
  <2>4. \A j \in Conns : \A i \in DOMAIN toClient'[j] :
          \/ i \in DOMAIN toClient[j] /\ toClient'[j][i] = toClient[j][i]
          \/ toClient'[j][i].type # "opened"
          \/ toClient'[j][i].token \in 1 .. minted'
    <3>1. SUFFICES ASSUME NEW j \in Conns, NEW i \in DOMAIN toClient'[j]
                   PROVE  \/ i \in DOMAIN toClient[j] /\ toClient'[j][i] = toClient[j][i]
                          \/ toClient'[j][i].type # "opened"
                          \/ toClient'[j][i].token \in 1 .. minted'
      OBVIOUS
    <3>2. PICK f \in {Revoked, Opened(t, FALSE)} :
            toClient'[j] = toClient[j] \/ toClient'[j] = Append(toClient[j], f)
      BY <1>14, <1>15
    <3>3. f \in Responses /\ (f.type # "opened" \/ f.token \in 1 .. t)
      <4>1. Revoked \in Responses /\ Revoked.type # "opened"
        BY FrameTypes DEF Revoked
      <4>2. Opened(t, FALSE) \in Responses /\ Opened(t, FALSE).token = t
        BY <1>3, FrameTypes DEF Opened
      <4>3. t \in 1 .. t
        BY <1>2, <1>3
      <4> QED BY <4>1, <4>2, <4>3
    <3>4. toClient[j] \in Seq(Responses)
      BY <1>2
    <3>5. \/ i \in DOMAIN toClient[j] /\ toClient'[j][i] = toClient[j][i]
          \/ toClient'[j][i] = f
      <4>1. CASE toClient'[j] = toClient[j]
        BY <4>1
      <4>2. CASE toClient'[j] = Append(toClient[j], f)
        <5>1. \A l \in DOMAIN Append(toClient[j], f) :
                \/ l \in DOMAIN toClient[j] /\ Append(toClient[j], f)[l] = toClient[j][l]
                \/ Append(toClient[j], f)[l] = f
          BY <3>3, <3>4, AppendIs
        <5> QED BY <4>2, <5>1
      <4> QED BY <3>2, <4>1, <4>2
    <3> QED BY <3>3, <3>5, <1>1, <1>3
  <2>5. /\ budget' \in Nat /\ access' \in BOOLEAN /\ write' = write /\ applied' \subseteq Commits
        /\ toServer' \in [Conns -> Seq(Requests)] /\ minted' \in Nat /\ minted <= minted'
    BY <1>1, <1>2 DEF TInv, TypeOK
  <2>6. {session'.token, session'.presented} \subseteq 0 .. minted'
    BY <1>1, <1>2, <1>3, <1>4
  <2>7. \A j \in Conns : \A i \in DOMAIN toServer'[j] :
          \E l \in DOMAIN toServer[j] : toServer'[j][i] = toServer[j][l]
    BY <1>1
  <2>8. session'.owner <= client.conn
    BY <2>1, <1>4
  <2>9. \A j \in Conns : j > client.conn =>
          conn'[j] = conn[j] /\ toServer'[j] = toServer[j] /\ toClient'[j] = toClient[j]
    BY <2>2, <1>1
  <2> HIDE DEF o, old, taken, resumed, reply
  <2> QED BY <1>1, <1>4, <1>12, <1>14, <2>3, <2>4, <2>5, <2>6, <2>7, <2>8, <2>9, ServerTyped, ZenonT(60)
<1> QED BY <1>1, <1>3, <1>4, <1>6, <1>8, <1>10, <1>11, <1>14, <1>15, <1>16

\* What an admitted open leaves alone, and that no commit is in hand behind it.
LEMMA AdmitRest ==
  ASSUME TInv, NEW k \in Conns, AdmitOpen(k)
  PROVE  /\ client' = client /\ toServer' = toServer /\ applied' = applied
         /\ access' = access /\ access
         /\ ~ conn[k].closed /\ conn[k].work.at = "admission" /\ conn'[k].closed = conn[k].closed
         /\ session'.token = minted + 1 /\ session'.presented = conn[k].work.token
         /\ session'.attempt = conn[k].work.attempt /\ session'.owner = k
         /\ conn'[k].work.at \notin {"transact", "admission"}
         /\ \A j \in Conns : j # k => /\ conn'[j].closed = conn[j].closed
                                      /\ conn'[j].work = conn[j].work
                                      /\ conn'[j].handle => conn[j].handle
<1>1. /\ client' = client /\ toServer' = toServer /\ applied' = applied
      /\ access' = access /\ access
  BY AdmitOpenIs
<1>2. /\ ~ conn[k].closed /\ conn[k].work.at = "admission" /\ conn'[k].closed = conn[k].closed
      /\ session'.token = minted + 1 /\ session'.presented = conn[k].work.token
      /\ session'.attempt = conn[k].work.attempt /\ session'.owner = k
  BY AdmitOpenIs
<1>3. conn'[k].work.at \notin {"transact", "admission"}
  <2>1. conn'[k].work.at = "catch-up" \/ conn'[k].work = Idle
    BY AdmitOpenIs
  <2> QED BY <2>1, IdleIs
<1>4. ASSUME NEW j \in Conns, j # k
      PROVE  /\ conn'[j].closed = conn[j].closed /\ conn'[j].work = conn[j].work
             /\ conn'[j].handle => conn[j].handle
  BY <1>4, AdmitOpenIs
<1> QED BY <1>1, <1>2, <1>3, <1>4

\* An open ends.
LEMMA FinishOpenIs ==
  ASSUME TInv, NEW k \in Conns, FinishOpen(k)
  PROVE  /\ TInv'
         /\ UNCHANGED <<client, told, toServer, minted, applied, access, write>>
         /\ conn[k].work.at = "catch-up"
         /\ conn'[k].work = Idle /\ conn'[k].closed = conn[k].closed
         /\ \A j \in Conns : j # k => conn'[j] = conn[j] /\ toClient'[j] = toClient[j]
         /\ session'.token = session.token /\ session'.attempt = session.attempt
         /\ session'.presented = session.presented
         /\ \E lost, failed, mine \in BOOLEAN :
              /\ lost <=> AclActive /\ (session.owner # k \/ session.token # conn[k].work.token)
              /\ failed <=> conn[k].closed \/ lost
              /\ mine <=> session.token = 0 \/ session.token = conn[k].work.token
              /\ conn'[k].handle = (conn[k].handle /\ ~ (failed /\ mine))
              /\ session'.owner = IF failed /\ mine /\ session.owner = k THEN 0 ELSE session.owner
              /\ \/ Mute(k) /\ toClient'[k] = toClient[k]
                 \/ /\ ~ Mute(k)
                    /\ toClient'[k] = Append(toClient[k],
                         IF lost THEN Refusal("revoked") ELSE Opened(conn[k].work.token, TRUE))
<1> DEFINE o == conn[k].work
<1>1. /\ o.at = "catch-up"
      /\ UNCHANGED <<client, told, toServer, minted, applied, access, write, budget>>
  BY DEF FinishOpen
<1>2. PICK lost \in BOOLEAN :
        lost <=> AclActive /\ (session.owner # k \/ session.token # o.token)
  OBVIOUS
<1>3. PICK failed \in BOOLEAN : failed <=> conn[k].closed \/ lost
  OBVIOUS
<1>4. PICK mine \in BOOLEAN : mine <=> session.token = 0 \/ session.token = o.token
  OBVIOUS
<1>5. PICK h \in BOOLEAN : h = (conn[k].handle /\ ~ (failed /\ mine))
  OBVIOUS
<1>6. PICK f \in Responses :
        /\ f = IF lost THEN Refusal("revoked") ELSE Opened(o.token, TRUE)
        /\ f.type = "opened" => f.token \in 1 .. minted
  <2>1. o.token \in 1 .. minted /\ o.token \in Nat
    BY <1>1, ConnTyped
  <2>2. Refusal("revoked") \in Responses /\ Refusal("revoked").type # "opened"
    BY FrameTypes DEF Refusal
  <2>3. Opened(o.token, TRUE) \in Responses /\ Opened(o.token, TRUE).token = o.token
    BY <2>1, FrameTypes DEF Opened
  <2> QED BY <2>1, <2>2, <2>3
<1>7. toClient' = Reply(k, f)
  <2>1. toClient' = Reply(k, IF AclActive /\ (session.owner # k \/ session.token # o.token)
                             THEN Refusal("revoked") ELSE Opened(o.token, TRUE))
    BY DEF FinishOpen
  <2> QED BY <2>1, <1>2, <1>6
<1>8. conn' = [conn EXCEPT ![k].work = Idle, ![k].handle = h]
  <2>1. conn' = [conn EXCEPT ![k].work = Idle,
                   ![k].handle = @ /\ ~ ((conn[k].closed \/
                      (AclActive /\ (session.owner # k \/ session.token # o.token)))
                        /\ session.token \in {0, o.token})]
    BY DEF FinishOpen
  <2>2. conn[k] \in ConnStates /\ conn \in [Conns -> ConnStates]
    BY ConnTyped
  <2>3. h = (conn[k].handle /\ ~ ((conn[k].closed \/
               (AclActive /\ (session.owner # k \/ session.token # o.token)))
                  /\ session.token \in {0, o.token}))
    BY <1>2, <1>3, <1>4, <1>5
  <2> QED BY <2>1, <2>2, <2>3 DEF ConnStates
<1>9. session' = IF failed /\ mine THEN Detached(k) ELSE session
  <2>1. session' = IF (conn[k].closed \/
                      (AclActive /\ (session.owner # k \/ session.token # o.token)))
                        /\ session.token \in {0, o.token} THEN Detached(k) ELSE session
    BY DEF FinishOpen
  <2> QED BY <2>1, <1>2, <1>3, <1>4
<1>10. /\ conn' \in [Conns -> ConnStates]
       /\ conn'[k].work = Idle /\ conn'[k].closed = conn[k].closed /\ conn'[k].handle = h
       /\ \A j \in Conns : j # k => conn'[j] = conn[j]
  <2>1. conn[k] \in ConnStates /\ conn \in [Conns -> ConnStates]
    BY ConnTyped
  <2> DEFINE c == [conn[k] EXCEPT !.work = Idle, !.handle = h]
  <2>2. c \in ConnStates /\ c.work = Idle /\ c.closed = conn[k].closed /\ c.handle = h
    BY <2>1, IdleIs DEF ConnStates
  <2>3. conn' = [conn EXCEPT ![k] = c]
    BY <1>8
  <2> HIDE DEF c
  <2> QED BY <2>1, <2>2, <2>3
<1>11. PICK w \in Conns \cup {0} :
         w = IF failed /\ mine /\ session.owner = k THEN 0 ELSE session.owner
  BY ConnTyped
<1>12. session' = [session EXCEPT !.owner = w]
  <2>1. session \in SessionStates
    BY ConnTyped
  <2>2. session = [session EXCEPT !.owner = session.owner]
    BY <2>1 DEF SessionStates
  <2> QED BY <1>9, <1>11, <2>2 DEF Detached
<1>13. /\ session' \in SessionStates /\ session'.token = session.token
       /\ session'.attempt = session.attempt /\ session'.presented = session.presented
       /\ session'.owner = w
  <2>1. session \in SessionStates
    BY ConnTyped
  <2> QED BY <1>12, <2>1 DEF SessionStates
<1>14. /\ toClient' \in [Conns -> Seq(Responses)]
       /\ toClient'[k] = IF Mute(k) THEN toClient[k] ELSE Append(toClient[k], f)
       /\ \A j \in Conns : j # k => toClient'[j] = toClient[j]
  BY <1>7, ReplyIs, ConnTyped
<1>15. TInv'
  <2>1. \A j \in Conns : j > client.conn => j # k
    BY <1>1, IdleIs, ConnMade
  <2>2. w <= client.conn
    <3>1. session.owner <= client.conn /\ client.conn \in Nat
      BY ConnTyped
    <3> QED BY <3>1, <1>11
  <2>3. \A j \in Conns : /\ conn'[j].work.token <= minted'
                         /\ conn'[j].work.at = "catch-up" => conn'[j].work.token # 0
    <3>1. SUFFICES ASSUME NEW j \in Conns
                   PROVE  /\ conn'[j].work.token <= minted
                          /\ conn'[j].work.at = "catch-up" => conn'[j].work.token # 0
      BY <1>1
    <3>2. CASE j = k
      BY <3>2, <1>10, IdleIs, ConnTyped
    <3>3. CASE j # k
      BY <3>3, <1>10, ConnTyped
    <3> QED BY <3>2, <3>3
  <2>4. \A j \in Conns : \A i \in DOMAIN toClient'[j] :
          \/ i \in DOMAIN toClient[j] /\ toClient'[j][i] = toClient[j][i]
          \/ toClient'[j][i] = f
    <3>1. \A j \in Conns : \A i \in DOMAIN Reply(k, f)[j] :
            \/ i \in DOMAIN toClient[j] /\ Reply(k, f)[j][i] = toClient[j][i]
            \/ Reply(k, f)[j][i] = f
      BY ReplyAdds
    <3> QED BY <3>1, <1>7
  <2>5. /\ budget' \in Nat /\ access' \in BOOLEAN /\ write' = write /\ applied' \subseteq Commits
        /\ toServer' \in [Conns -> Seq(Requests)] /\ minted' \in Nat /\ minted <= minted'
        /\ {session'.token, session'.presented} \subseteq 0 .. minted'
    BY <1>1, <1>13 DEF TInv, TypeOK
  <2>6. \A j \in Conns : \A i \in DOMAIN toServer'[j] :
          \E l \in DOMAIN toServer[j] : toServer'[j][i] = toServer[j][l]
    BY <1>1
  <2>7. \A j \in Conns : j > client.conn =>
          conn'[j] = conn[j] /\ toServer'[j] = toServer[j] /\ toClient'[j] = toClient[j]
    BY <2>1, <1>1, <1>10, <1>14
  <2>8. \A j \in Conns : \A i \in DOMAIN toClient'[j] :
          \/ i \in DOMAIN toClient[j] /\ toClient'[j][i] = toClient[j][i]
          \/ toClient'[j][i].type # "opened"
          \/ toClient'[j][i].token \in 1 .. minted'
    BY <2>4, <1>1, <1>6
  <2>9. session'.owner <= client.conn
    BY <2>2, <1>13
  <2> HIDE DEF o
  <2> QED BY <1>1, <1>10, <1>13, <1>14, <2>3, <2>5, <2>6, <2>7, <2>8, <2>9, ServerTyped, ZenonT(60)
<1>16. \/ Mute(k) /\ toClient'[k] = toClient[k]
       \/ /\ ~ Mute(k)
          /\ toClient'[k] = Append(toClient[k],
               IF lost THEN Refusal("revoked") ELSE Opened(o.token, TRUE))
  BY <1>6, <1>14
<1>17. session'.owner = IF failed /\ mine /\ session.owner = k THEN 0 ELSE session.owner
  BY <1>11, <1>13
<1>18. \A j \in Conns : j # k => conn'[j] = conn[j] /\ toClient'[j] = toClient[j]
  BY <1>10, <1>14
<1>19. conn'[k].handle = (conn[k].handle /\ ~ (failed /\ mine))
  BY <1>5, <1>10
<1> QED BY <1>1, <1>2, <1>3, <1>4, <1>10, <1>13, <1>15, <1>16, <1>17, <1>18, <1>19

\* A connection closes.
LEMMA CloseIs ==
  ASSUME TInv, NEW k \in Conns, Close(k)
  PROVE  /\ TInv'
         /\ UNCHANGED <<client, told, toClient, minted, applied, access, write>>
         /\ ~ conn[k].closed /\ k <= client.conn
         /\ conn'[k].closed = TRUE /\ conn'[k].handle = FALSE /\ conn'[k].work = conn[k].work
         /\ toServer'[k] = <<>>
         /\ \A j \in Conns : j # k => conn'[j] = conn[j] /\ toServer'[j] = toServer[j]
         /\ session'.token = session.token /\ session'.attempt = session.attempt
         /\ session'.presented = session.presented
         /\ session'.owner = IF session.owner = k THEN 0 ELSE session.owner
<1>1. /\ ~ conn[k].closed /\ k <= client.conn /\ session' = Detached(k)
      /\ toServer' = [toServer EXCEPT ![k] = <<>>]
      /\ UNCHANGED <<client, told, toClient, minted, applied, access, write, budget>>
  BY DEF Close
<1>2. /\ conn' \in [Conns -> ConnStates]
      /\ conn'[k].closed = TRUE /\ conn'[k].handle = FALSE /\ conn'[k].work = conn[k].work
      /\ \A j \in Conns : j # k => conn'[j] = conn[j]
  <2>1. conn[k] \in ConnStates /\ conn \in [Conns -> ConnStates]
    BY ConnTyped
  <2> DEFINE c == [conn[k] EXCEPT !.closed = TRUE, !.handle = FALSE]
  <2>2. c \in ConnStates /\ c.work = conn[k].work /\ c.closed = TRUE /\ c.handle = FALSE
    BY <2>1 DEF ConnStates
  <2>3. conn' = [conn EXCEPT ![k] = c]
    BY DEF Close
  <2> HIDE DEF c
  <2> QED BY <2>1, <2>2, <2>3
<1>3. PICK w \in Conns \cup {0} : w = IF session.owner = k THEN 0 ELSE session.owner
  BY ConnTyped
<1>4. /\ session' \in SessionStates /\ session'.token = session.token
      /\ session'.attempt = session.attempt /\ session'.presented = session.presented
      /\ session'.owner = w
  <2>1. session \in SessionStates
    BY ConnTyped
  <2>2. session' = [session EXCEPT !.owner = w]
    BY <1>1, <1>3 DEF Detached
  <2> QED BY <2>1, <2>2 DEF SessionStates
<1>5. /\ toServer' \in [Conns -> Seq(Requests)] /\ toServer'[k] = <<>>
      /\ \A j \in Conns : j # k => toServer'[j] = toServer[j]
  BY <1>1, ConnTyped
<1>6. TInv'
  <2>1. \A j \in Conns : j > client.conn => j # k
    BY <1>1, ConnTyped
  <2>2. w <= client.conn
    <3>1. session.owner <= client.conn /\ client.conn \in Nat
      BY ConnTyped
    <3> QED BY <3>1, <1>3
  <2>3. \A j \in Conns : conn'[j].work = conn[j].work
    BY <1>2
  <2>4. \A j \in Conns : /\ conn'[j].work.token <= minted'
                         /\ conn'[j].work.at = "catch-up" => conn'[j].work.token # 0
    BY <2>3, <1>1, ConnTyped
  <2>5. /\ budget' \in Nat /\ access' \in BOOLEAN /\ write' = write /\ applied' \subseteq Commits
        /\ toClient' \in [Conns -> Seq(Responses)] /\ minted' \in Nat /\ minted <= minted'
        /\ {session'.token, session'.presented} \subseteq 0 .. minted'
    BY <1>1, <1>4 DEF TInv, TypeOK
  <2>6. \A j \in Conns : \A i \in DOMAIN toServer'[j] :
          \E l \in DOMAIN toServer[j] : toServer'[j][i] = toServer[j][l]
    BY <1>5
  <2>7. \A j \in Conns : j > client.conn =>
          conn'[j] = conn[j] /\ toServer'[j] = toServer[j] /\ toClient'[j] = toClient[j]
    BY <2>1, <1>1, <1>2, <1>5
  <2>8. \A j \in Conns : \A i \in DOMAIN toClient'[j] :
          i \in DOMAIN toClient[j] /\ toClient'[j][i] = toClient[j][i]
    BY <1>1
  <2>9. session'.owner <= client.conn
    BY <2>2, <1>4
  <2> QED BY <1>1, <1>2, <1>4, <1>5, <2>4, <2>5, <2>6, <2>7, <2>8, <2>9, ServerTyped, ZenonT(60)
<1> QED BY <1>1, <1>2, <1>3, <1>4, <1>5, <1>6

\* No session.
LEMMA NoSessionIs ==
  /\ NoSession \in SessionStates /\ NoSession.token = 0 /\ NoSession.presented = 0
  /\ NoSession.attempt = 0 /\ NoSession.owner = 0
BY DEF NoSession, SessionStates

\* A detached session is forgotten.
LEMMA ExpireIs ==
  ASSUME TInv, Expire
  PROVE  /\ TInv'
         /\ UNCHANGED <<client, told, toServer, toClient, minted, conn, applied, access, write>>
         /\ session' = NoSession /\ session.owner = 0
         /\ \A k \in Conns : k < client.conn => ~ OpenInHand(k)
<1>1. /\ UNCHANGED <<client, told, toServer, toClient, minted, conn, applied, access, write>>
      /\ session' = NoSession /\ session.owner = 0 /\ budget' \in Nat
  BY DEF Expire, TInv, TypeOK
<1>2. client.conn \in Nat /\ minted \in Nat
  BY SessionAssumption DEF TInv, TypeOK, ClientStates, Conns
<1>3. TypeOK'
  BY <1>1, <1>2, NoSessionIs DEF TInv, TypeOK
<1>4. TokensMinted'
  BY <1>1 DEF TInv, TokensMinted
<1>5. \A k \in Conns : k < client.conn => ~ OpenInHand(k)
  BY <1>2, SessionAssumption DEF Expire, Conns
<1> QED BY <1>1, <1>3, <1>4, <1>5 DEF TInv

\* The access list leaves the principal out, and the session's owner is told.
LEMMA DeauthorizeIs ==
  ASSUME TInv, Deauthorize
  PROVE  /\ TInv'
         /\ UNCHANGED <<client, told, toServer, minted, applied, write>>
         /\ access' = FALSE /\ access /\ session' = NoSession
         /\ \A j \in Conns :
              /\ conn'[j].closed = conn[j].closed /\ conn'[j].work = conn[j].work
              /\ conn'[j].handle = (conn[j].handle /\ j # session.owner)
              /\ IF j = session.owner /\ conn[j].handle /\ ~ Mute(j)
                 THEN toClient'[j] = Append(toClient[j], Revoked)
                 ELSE toClient'[j] = toClient[j]
<1>1. /\ UNCHANGED <<client, told, toServer, minted, applied, write>>
      /\ access' = FALSE /\ access /\ session' = NoSession /\ budget' \in Nat
  BY DEF Deauthorize, Deny, TInv, TypeOK
<1>2. /\ session.owner \in Conns \cup {0} /\ 0 \notin Conns /\ minted \in Nat
      /\ toClient \in [Conns -> Seq(Responses)] /\ conn \in [Conns -> ConnStates]
      /\ client.conn \in Nat
  <2>1. 0 \notin Conns /\ client.conn \in Conns /\ \A j \in Conns : j \in Nat
    BY DEF Conns, TInv, TypeOK, ClientStates
  <2>2. session.owner \in Conns \cup {0}
    BY DEF TInv, TypeOK, SessionStates
  <2>3. minted \in Nat /\ toClient \in [Conns -> Seq(Responses)] /\ conn \in [Conns -> ConnStates]
    BY DEF TInv, TypeOK
  <2> QED BY <2>1, <2>2, <2>3
<1>3. Revoked \in Responses /\ Revoked.type # "opened"
  BY FrameTypes DEF Revoked
<1>4. /\ conn' \in [Conns -> ConnStates]
      /\ \A j \in Conns :
           /\ conn'[j].closed = conn[j].closed /\ conn'[j].work = conn[j].work
           /\ conn'[j].handle = (conn[j].handle /\ j # session.owner)
           /\ j # session.owner \/ ~ conn[j].handle => conn'[j] = conn[j]
  <2>1. CASE session.owner # 0 /\ conn[session.owner].handle
    <3>1. PICK k \in Conns : k = session.owner
      BY <2>1, <1>2
    <3> DEFINE c == [conn[k] EXCEPT !.handle = FALSE]
    <3>2. c \in ConnStates /\ c.work = conn[k].work /\ c.closed = conn[k].closed
          /\ c.handle = FALSE
      BY <1>2 DEF ConnStates
    <3>3. conn' = [conn EXCEPT ![k] = c]
      BY <2>1, <3>1 DEF Deauthorize
    <3> HIDE DEF c
    <3>4. \A j \in Conns : conn[j].handle \in BOOLEAN
      BY <1>2 DEF ConnStates
    <3> QED BY <2>1, <3>1, <3>2, <3>3, <3>4, <1>2
  <2>2. CASE ~ (session.owner # 0 /\ conn[session.owner].handle)
    <3>1. conn' = conn
      BY <2>2 DEF Deauthorize
    <3>2. \A j \in Conns : conn[j].handle \in BOOLEAN
      BY <1>2 DEF ConnStates
    <3> QED BY <2>2, <3>1, <3>2, <1>2
  <2> QED BY <2>1, <2>2
<1>5. /\ toClient' \in [Conns -> Seq(Responses)]
      /\ \A j \in Conns : IF j = session.owner /\ conn[j].handle /\ ~ Mute(j)
                          THEN toClient'[j] = Append(toClient[j], Revoked)
                          ELSE toClient'[j] = toClient[j]
  <2>1. CASE session.owner # 0 /\ conn[session.owner].handle
    <3>1. PICK k \in Conns : k = session.owner
      BY <2>1, <1>2
    <3>2. toClient' = Reply(k, Revoked)
      BY <2>1, <3>1 DEF Deauthorize, Replies
    <3>3. /\ Reply(k, Revoked) \in [Conns -> Seq(Responses)]
          /\ Reply(k, Revoked)[k] = IF Mute(k) THEN toClient[k]
                                    ELSE Append(toClient[k], Revoked)
          /\ \A j \in Conns : j # k => Reply(k, Revoked)[j] = toClient[j]
      BY <1>2, <1>3, ReplyIs
    <3> QED BY <2>1, <3>1, <3>2, <3>3
  <2>2. CASE ~ (session.owner # 0 /\ conn[session.owner].handle)
    <3>1. toClient' = toClient
      BY <2>2 DEF Deauthorize
    <3> QED BY <2>2, <3>1, <1>2
  <2> QED BY <2>1, <2>2
<1>6. TInv'
  <2>1. \A j \in Conns : j > client.conn => conn'[j] = conn[j] /\ toClient'[j] = toClient[j]
    <3>1. SUFFICES ASSUME NEW j \in Conns, j > client.conn
                   PROVE  conn'[j] = conn[j] /\ toClient'[j] = toClient[j]
      OBVIOUS
    <3>2. j # session.owner
      BY <3>1, ConnTyped
    <3> QED BY <3>2, <1>4, <1>5
  <2>2. \A j \in Conns : /\ conn'[j].work.token <= minted'
                         /\ conn'[j].work.at = "catch-up" => conn'[j].work.token # 0
    <3>1. \A j \in Conns : /\ conn[j].work.token <= minted
                           /\ conn[j].work.at = "catch-up" => conn[j].work.token # 0
      BY DEF TInv, TypeOK, TokensMinted
    <3> QED BY <3>1, <1>1, <1>4
  <2>3. \A j \in Conns : \A i \in DOMAIN toClient'[j] :
          \/ i \in DOMAIN toClient[j] /\ toClient'[j][i] = toClient[j][i]
          \/ toClient'[j][i].type # "opened"
    <3>1. SUFFICES ASSUME NEW j \in Conns, NEW i \in DOMAIN toClient'[j]
                   PROVE  \/ i \in DOMAIN toClient[j] /\ toClient'[j][i] = toClient[j][i]
                          \/ toClient'[j][i].type # "opened"
      OBVIOUS
    <3>2. CASE toClient'[j] = toClient[j]
      BY <3>2
    <3>3. CASE toClient'[j] = Append(toClient[j], Revoked)
      <4>1. toClient[j] \in Seq(Responses)
        BY <1>2
      <4>2. \/ i \in DOMAIN toClient[j] /\ toClient'[j][i] = toClient[j][i]
            \/ toClient'[j][i] = Revoked
        BY <4>1, <3>3, <1>3, AppendIs
      <4> QED BY <4>2, <1>3
    <3> QED BY <3>2, <3>3, <1>5
  <2>4. /\ budget' \in Nat /\ access' \in BOOLEAN /\ write' = write /\ applied' \subseteq Commits
        /\ toServer' \in [Conns -> Seq(Requests)] /\ minted' \in Nat /\ minted <= minted'
        /\ session' \in SessionStates
        /\ {session'.token, session'.presented} \subseteq 0 .. minted'
        /\ session'.owner <= client.conn
    <3>1. session' \in SessionStates /\ session'.token = 0 /\ session'.presented = 0
          /\ session'.owner = 0
      BY <1>1, NoSessionIs
    <3>2. minted' = minted /\ 0 <= client.conn /\ minted <= minted
      BY <1>1, <1>2
    <3>3. access' \in BOOLEAN /\ write' = write /\ applied' \subseteq Commits
          /\ toServer' \in [Conns -> Seq(Requests)]
      BY <1>1 DEF TInv, TypeOK
    <3> QED BY <1>1, <1>2, <3>1, <3>2, <3>3
  <2>5. \A j \in Conns : \A i \in DOMAIN toServer'[j] :
          \E l \in DOMAIN toServer[j] : toServer'[j][i] = toServer[j][l]
    BY <1>1
  <2>6. \A j \in Conns : j > client.conn =>
          conn'[j] = conn[j] /\ toServer'[j] = toServer[j] /\ toClient'[j] = toClient[j]
    BY <2>1, <1>1
  <2> QED BY <1>1, <1>4, <1>5, <2>2, <2>3, <2>4, <2>5, <2>6, ServerTyped, ZenonT(60)
<1> QED BY <1>1, <1>4, <1>5, <1>6

\* A new process.
LEMMA RestartIs ==
  ASSUME TInv, Restart
  PROVE  /\ TInv'
         /\ UNCHANGED <<client, told, toClient, minted, applied, access, write>>
         /\ session' = NoSession
         /\ \A j \in Conns : /\ toServer'[j] = <<>> /\ conn'[j].work = Idle
                             /\ conn'[j].handle = FALSE
                             /\ j <= client.conn => conn'[j].closed = TRUE
<1>1. /\ UNCHANGED <<client, told, toClient, minted, applied, access, write>>
      /\ session' = NoSession /\ budget' \in Nat
      /\ toServer' = [k \in Conns |-> <<>>]
      /\ conn' = [k \in Conns |-> IF k > client.conn THEN conn[k]
                                  ELSE [closed |-> TRUE, handle |-> FALSE, work |-> Idle]]
  BY DEF Restart, TInv, TypeOK
<1>2. minted \in Nat /\ client.conn \in Nat /\ \A j \in Conns : j \in Nat
  BY SessionAssumption DEF TInv, TypeOK, ClientStates, Conns
<1>3. \A j \in Conns : /\ conn'[j].work = Idle /\ conn'[j].handle = FALSE
                       /\ j <= client.conn => conn'[j].closed = TRUE
                       /\ conn'[j] \in ConnStates
  <2>1. \A j \in Conns : j > client.conn =>
          conn[j] = [closed |-> FALSE, handle |-> FALSE, work |-> Idle]
    BY DEF TInv, TypeOK
  <2>2. SUFFICES ASSUME NEW j \in Conns
                 PROVE  /\ conn'[j].work = Idle /\ conn'[j].handle = FALSE
                        /\ j <= client.conn => conn'[j].closed = TRUE
                        /\ conn'[j] \in ConnStates
    OBVIOUS
  <2>3. PICK b \in BOOLEAN : /\ conn'[j] = [closed |-> b, handle |-> FALSE, work |-> Idle]
                             /\ j <= client.conn => b = TRUE
    <3>1. CASE j > client.conn
      <4>1. conn'[j] = conn[j]
        BY <3>1, <1>1
      <4>2. conn[j] = [closed |-> FALSE, handle |-> FALSE, work |-> Idle]
        BY <3>1, <2>1
      <4>3. ~ j <= client.conn
        BY <3>1, <1>2
      <4> QED BY <4>1, <4>2, <4>3
    <3>2. CASE ~ j > client.conn
      BY <3>2, <1>1
    <3> QED BY <3>1, <3>2
  <2> QED BY <2>3, IdleIs DEF ConnStates
<1>4. conn' \in [Conns -> ConnStates] /\ toServer' \in [Conns -> Seq(Requests)]
  <2>1. DOMAIN conn' = Conns /\ conn' = [j \in Conns |-> conn'[j]]
    BY <1>1
  <2>2. \A j \in Conns : conn'[j] \in ConnStates
    BY <1>3
  <2>3. conn' \in [Conns -> ConnStates]
    BY <2>1, <2>2
  <2>4. toServer' \in [Conns -> Seq(Requests)]
    BY <1>1
  <2> QED BY <2>3, <2>4
<1>5. TInv'
  <2>1. \A j \in Conns : /\ conn'[j].work.token <= minted'
                         /\ conn'[j].work.at = "catch-up" => conn'[j].work.token # 0
    BY <1>1, <1>2, <1>3, IdleIs
  <2>2. \A j \in Conns : \A i \in DOMAIN toClient'[j] :
          i \in DOMAIN toClient[j] /\ toClient'[j][i] = toClient[j][i]
    BY <1>1
  <2>3. /\ budget' \in Nat /\ access' \in BOOLEAN /\ write' = write /\ applied' \subseteq Commits
        /\ toClient' \in [Conns -> Seq(Responses)] /\ minted' \in Nat /\ minted <= minted'
        /\ session' \in SessionStates
        /\ {session'.token, session'.presented} \subseteq 0 .. minted'
        /\ session'.owner <= client.conn
    BY <1>1, <1>2, NoSessionIs DEF TInv, TypeOK
  <2>4. \A j \in Conns : \A i \in DOMAIN toServer'[j] :
          \E l \in DOMAIN toServer[j] : toServer'[j][i] = toServer[j][l]
    BY <1>1
  <2>5. \A j \in Conns : j > client.conn =>
          conn'[j] = conn[j] /\ toServer'[j] = toServer[j] /\ toClient'[j] = toClient[j]
    BY <1>1 DEF TInv, TypeOK
  <2> QED BY <1>1, <1>4, <2>1, <2>2, <2>3, <2>4, <2>5, ServerTyped, ZenonT(60)
<1> QED BY <1>1, <1>3, <1>5

\* The access list takes the principal's WRITE, or gives it back.
WriteChange == WithdrawWrite \/ RestoreWrite

\* Such a change is all that happens.
LEMMA WriteChangeIs ==
  ASSUME TInv, WriteChange
  PROVE  /\ TInv'
         /\ UNCHANGED <<client, told, toServer, toClient, session, minted, conn, applied, access>>
<1>1. /\ UNCHANGED <<client, told, toServer, toClient, session, minted, conn, applied, access>>
      /\ write' \in {"granted", "withdrawn", "restored"} /\ budget' \in Nat
  BY DEF WriteChange, WithdrawWrite, RestoreWrite, TInv, TypeOK
<1>2. TypeOK'
  BY <1>1 DEF TInv, TypeOK
<1>3. TokensMinted'
  BY <1>1 DEF TInv, TokensMinted
<1> QED BY <1>1, <1>2, <1>3 DEF TInv

-----------------------------------------------------------------------------
(* The session's owner                                                     *)

\* One step keeps the registry and the connections agreed.
LEMMA OwnerStep ==
  ASSUME TInv, Issued, OwnerAgrees, [Next]_vars
  PROVE  OwnerAgrees'
<1> DEFINE Same(k) == conn'[k].handle = conn[k].handle /\ conn'[k].closed = conn[k].closed
<1>1. ASSUME session' = session, \A k \in Conns : Same(k)
      PROVE  OwnerAgrees'
  <2>1. session.owner \in Conns \cup {0}
    BY DEF TInv, TypeOK, SessionStates
  <2> QED BY <1>1, <2>1 DEF OwnerAgrees
<1>2. ASSUME NEW k \in Conns, \A j \in Conns : j # k => conn'[j] = conn[j], Same(k),
             session' = session
      PROVE  OwnerAgrees'
  BY <1>1, <1>2
<1>3. ASSUME NEW n \in Commits, Transact(n) PROVE OwnerAgrees'
  BY <1>1, <1>3, TransactIs
<1>4. CASE Drop
  BY <1>1, <1>4, DropIs
<1>5. ASSUME NEW k \in Conns, Restore(k) PROVE OwnerAgrees'
  BY <1>1, <1>5 DEF Restore, serverVars
<1>6. CASE Reconnect \/ RetryHeld
  BY <1>1, <1>6 DEF Reconnect, RetryHeld, Restore, serverVars
<1>7. CASE Receive
  BY <1>1, <1>7, ReceiveIs
<1>8. ASSUME NEW k \in Conns, BeginOpen(k) PROVE OwnerAgrees'
  BY <1>2, <1>8, BeginOpenIs
<1>9. ASSUME NEW k \in Conns, RefuseOpen(k) PROVE OwnerAgrees'
  BY <1>2, <1>9, RefuseOpenIs
<1>10. ASSUME NEW k \in Conns, BeginTransact(k) PROVE OwnerAgrees'
  BY <1>2, <1>10, BeginTransactIs
<1>11. ASSUME NEW k \in Conns, DecideTransact(k) PROVE OwnerAgrees'
  <2>1. conn[k].work.commit \in Commits
    BY <1>11 DEF DecideTransact, Issued, IssuedWork
  <2> QED BY <2>1, <1>2, <1>11, DecideTransactIs
<1>12. ASSUME NEW k \in Conns, WatchSet(k) PROVE OwnerAgrees'
  BY <1>1, <1>12, WatchSetIs
<1>13. ASSUME NEW k \in Conns, AdmitOpen(k) PROVE OwnerAgrees'
  <2>1. /\ ~ conn[k].closed /\ session'.owner = k /\ session'.token = minted + 1
        /\ conn'[k].closed = conn[k].closed /\ conn'[k].handle = TRUE
        /\ \A j \in Conns : j # k => conn'[j].handle = (conn[j].handle /\ ~ Taken(j, k))
    BY <1>13, AdmitOpenIs
  <2>2. minted + 1 # 0
    BY DEF TInv, TypeOK
  <2>3. \A j \in Conns : j # k => conn'[j].handle = FALSE
    <3>1. SUFFICES ASSUME NEW j \in Conns, j # k PROVE conn'[j].handle = FALSE
      OBVIOUS
    <3>2. conn[j].handle \in BOOLEAN
      BY ConnTyped
    <3>3. conn[j].handle => Taken(j, k)
      BY <3>1 DEF OwnerAgrees, Taken
    <3> QED BY <2>1, <3>1, <3>2, <3>3
  <2> QED BY <2>1, <2>2, <2>3 DEF OwnerAgrees
<1>14. ASSUME NEW k \in Conns, FinishOpen(k) PROVE OwnerAgrees'
  <2>1. PICK failed \in BOOLEAN, mine \in BOOLEAN :
          /\ conn'[k].closed = conn[k].closed
          /\ \A j \in Conns : j # k => conn'[j] = conn[j]
          /\ session'.token = session.token
          /\ conn'[k].handle = (conn[k].handle /\ ~ (failed /\ mine))
          /\ session'.owner = IF failed /\ mine /\ session.owner = k THEN 0 ELSE session.owner
    BY <1>14, FinishOpenIs
  <2>2. conn[k].handle \in BOOLEAN /\ session.owner \in Conns \cup {0} /\ k # 0
    BY ConnTyped
  <2>3. CASE failed /\ mine
    BY <2>1, <2>2, <2>3 DEF OwnerAgrees
  <2>4. CASE ~ (failed /\ mine)
    BY <2>1, <2>2, <2>4 DEF OwnerAgrees
  <2> QED BY <2>3, <2>4
<1>15. ASSUME NEW k \in Conns, Close(k) PROVE OwnerAgrees'
  <2>1. session.owner \in Conns \cup {0}
    BY ConnTyped, <1>15
  <2>2. /\ conn'[k].handle = FALSE /\ session'.token = session.token
        /\ \A j \in Conns : j # k => conn'[j] = conn[j]
        /\ session'.owner = IF session.owner = k THEN 0 ELSE session.owner
    BY <1>15, CloseIs
  <2>3. session'.owner # 0 => session'.owner \in Conns /\ session'.owner # k
    BY <2>1, <2>2
  <2>4. session'.owner # 0 => conn'[session'.owner].handle /\ ~ conn'[session'.owner].closed
    BY <2>2, <2>3 DEF OwnerAgrees
  <2>5. \A j \in Conns : conn'[j].handle => session'.token # 0 /\ session'.owner = j
    <3>1. SUFFICES ASSUME NEW j \in Conns, conn'[j].handle
                   PROVE  session'.token # 0 /\ session'.owner = j
      OBVIOUS
    <3>2. j # k
      BY <3>1, <2>2
    <3> QED BY <3>1, <3>2, <2>2 DEF OwnerAgrees
  <2> QED BY <2>4, <2>5 DEF OwnerAgrees
<1>16. CASE Expire
  <2>1. session' = NoSession /\ session.owner = 0 /\ conn' = conn
    BY <1>16, ExpireIs
  <2>2. \A j \in Conns : j # 0
    BY DEF Conns
  <2>3. \A j \in Conns : ~ conn[j].handle
    BY <2>1, <2>2 DEF OwnerAgrees
  <2>4. session'.owner = 0 /\ \A j \in Conns : ~ conn'[j].handle
    BY <2>1, <2>3, NoSessionIs
  <2> QED BY <2>4 DEF OwnerAgrees
<1>17. CASE Deauthorize
  <2>1. session' = NoSession
        /\ \A j \in Conns : conn'[j].handle = (conn[j].handle /\ j # session.owner)
    BY <1>17, DeauthorizeIs
  <2>2. \A j \in Conns : ~ conn'[j].handle
    BY <2>1 DEF OwnerAgrees
  <2> QED BY <2>1, <2>2, NoSessionIs DEF OwnerAgrees
<1>18. CASE Restart
  BY <1>18, RestartIs, NoSessionIs DEF OwnerAgrees
<1>19. CASE UNCHANGED vars
  BY <1>1, <1>19 DEF vars
<1>20. CASE WriteChange
  BY <1>1, <1>20, WriteChangeIs
<1> QED BY <1>3, <1>4, <1>6, <1>7, <1>8, <1>9, <1>10, <1>11, <1>12, <1>13, <1>14, <1>15,
           <1>16, <1>17, <1>18, <1>19, <1>20 DEF Next, WriteChange, ServerStep

-----------------------------------------------------------------------------
(* A line, as its ends take from it and add to it                          *)

\* A sequence of no length.
LEMMA NoneIs ==
  ASSUME NEW S, NEW s \in Seq(S), Len(s) = 0
  PROVE  s = <<>>
OBVIOUS

\* The next frame is taken in hand.
LEMMA LineTakes ==
  ASSUME NEW U \in Seq(Requests), NEW D \in Seq(Responses), U # <<>>, Orderly(U, NoAsk, D)
  PROVE  /\ Orderly(Tail(U), AskUp(Head(U)), D)
         /\ \A a : Asks(Tail(U), AskUp(Head(U)), D, a) => Asks(U, NoAsk, D, a)
<1> DEFINE V == Tail(U)
           x == AskUp(Head(U))
<1>1. /\ Head(U) \in Requests /\ V \in Seq(Requests) /\ Len(V) = Len(U) - 1
      /\ Len(U) \in Nat /\ Len(U) > 0 /\ Head(U) = U[1] /\ 1 \in DOMAIN U
      /\ DOMAIN U = 1 .. Len(U) /\ DOMAIN V = 1 .. Len(U) - 1
      /\ \A i \in DOMAIN V : i + 1 \in DOMAIN U /\ V[i] = U[i + 1]
  BY TailIs
<1>2. x # NoAsk /\ x = AskUp(U[1])
  BY <1>1, AskUpIs
<1>3. Len(V) = 0 => V = <<>>
  BY <1>1, NoneIs
<1> HIDE DEF V, x
<1>4. \A i \in DOMAIN V : AskUp(V[i]) = AskUp(U[i + 1]) /\ i + 1 # 1 /\ i \in Nat
  BY <1>1
<1>5. Distinct(V, x, D)
  <2>1. \A i, j \in DOMAIN V : AskUp(V[i]) = AskUp(V[j]) => i = j
    BY <1>1, <1>4 DEF Orderly, Distinct
  <2>2. \A i \in DOMAIN V : AskUp(V[i]) # x
    BY <1>1, <1>2, <1>4 DEF Orderly, Distinct
  <2>3. \A j \in DOMAIN D : AskDown(D[j]) # x
    BY <1>1, <1>2 DEF Orderly, Distinct
  <2>4. \A i \in DOMAIN V : \A j \in DOMAIN D : AskUp(V[i]) # AskDown(D[j])
    BY <1>1, <1>4 DEF Orderly, Distinct
  <2> QED BY <2>1, <2>2, <2>3, <2>4 DEF Orderly, Distinct
<1>6. WatchLast(V, x, D)
  <2>1. \A i \in DOMAIN V : AskUp(V[i]) = 0 => i = Len(V)
    BY <1>1, <1>4 DEF Orderly, WatchLast
  <2>2. x = 0 => V = <<>>
    <3>1. x = 0 => 1 = Len(U)
      BY <1>1, <1>2 DEF Orderly, WatchLast
    <3>2. 1 = Len(U) => Len(V) = 0
      BY <1>1
    <3> QED BY <3>1, <3>2, <1>3
  <2>3. \A j \in DOMAIN D : AskDown(D[j]) # 0
    BY DEF Orderly, WatchLast
  <2> QED BY <2>1, <2>2, <2>3 DEF WatchLast
<1>7. \A a : Asks(V, x, D, a) => Asks(U, NoAsk, D, a)
  BY <1>1, <1>2, <1>4 DEF Asks
<1> QED BY <1>5, <1>6, <1>7 DEF V, x, Orderly

\* The request in hand is answered.
LEMMA LineAnswers ==
  ASSUME NEW U \in Seq(Requests), NEW D \in Seq(Responses), NEW f \in Responses, NEW x,
         x # NoAsk, AskDown(f) = x, Orderly(U, x, D)
  PROVE  /\ Orderly(U, NoAsk, Append(D, f))
         /\ \A a : Asks(U, NoAsk, Append(D, f), a) => Asks(U, x, D, a)
<1> DEFINE E == Append(D, f)
<1>1. /\ E \in Seq(Responses) /\ Len(E) = Len(D) + 1 /\ Len(D) \in Nat
      /\ DOMAIN D = 1 .. Len(D) /\ DOMAIN E = 1 .. Len(D) + 1
      /\ \A i \in DOMAIN E : (i \in DOMAIN D /\ E[i] = D[i]) \/ (i = Len(D) + 1 /\ E[i] = f)
  BY AppendIs
<1>2. \A i \in DOMAIN U : U[i] \in Requests
  OBVIOUS
<1>3. \A i \in DOMAIN U : AskUp(U[i]) # NoAsk
  BY <1>2, AskUpIs
<1> HIDE DEF E
<1>4. \A i \in DOMAIN E : \/ i \in DOMAIN D /\ AskDown(E[i]) = AskDown(D[i])
                          \/ i = Len(D) + 1 /\ AskDown(E[i]) = x
  BY <1>1
<1>5. Distinct(U, NoAsk, E)
  <2>1. \A i, j \in DOMAIN E : AskDown(E[i]) = AskDown(E[j]) => i = j \/ AskDown(E[i]) = NoAsk
    BY <1>1, <1>4 DEF Orderly, Distinct
  <2>2. \A i \in DOMAIN U : \A j \in DOMAIN E : AskUp(U[i]) # AskDown(E[j])
    BY <1>4 DEF Orderly, Distinct
  <2> QED BY <2>1, <2>2, <1>3 DEF Orderly, Distinct
<1>6. WatchLast(U, NoAsk, E)
  <2>1. \A j \in DOMAIN E : AskDown(E[j]) = 0 =>
          /\ U = <<>>
          /\ \A i \in DOMAIN E : i > j => AskDown(E[i]) = NoAsk
    <3>1. SUFFICES ASSUME NEW j \in DOMAIN E, AskDown(E[j]) = 0
                   PROVE  /\ U = <<>>
                          /\ \A i \in DOMAIN E : i > j => AskDown(E[i]) = NoAsk
      OBVIOUS
    <3>2. j = Len(D) + 1 /\ x = 0
      BY <3>1, <1>4 DEF Orderly, WatchLast
    <3> QED BY <3>2, <1>1 DEF Orderly, WatchLast
  <2> QED BY <2>1, AskNumbers DEF Orderly, WatchLast
<1>7. \A a : Asks(U, NoAsk, E, a) => Asks(U, x, D, a)
  BY <1>4 DEF Asks
<1> QED BY <1>5, <1>6, <1>7 DEF E, Orderly

\* A notice that answers nothing.
LEMMA LineNotice ==
  ASSUME NEW U \in Seq(Requests), NEW D \in Seq(Responses), NEW f \in Responses, NEW x,
         AskDown(f) = NoAsk, Orderly(U, x, D)
  PROVE  /\ Orderly(U, x, Append(D, f))
         /\ \A a : Asks(U, x, Append(D, f), a) => Asks(U, x, D, a)
<1> DEFINE E == Append(D, f)
<1>1. /\ E \in Seq(Responses) /\ Len(E) = Len(D) + 1 /\ Len(D) \in Nat
      /\ DOMAIN D = 1 .. Len(D) /\ DOMAIN E = 1 .. Len(D) + 1
      /\ \A i \in DOMAIN E : (i \in DOMAIN D /\ E[i] = D[i]) \/ (i = Len(D) + 1 /\ E[i] = f)
  BY AppendIs
<1>2. \A i \in DOMAIN U : U[i] \in Requests
  OBVIOUS
<1>3. \A i \in DOMAIN U : AskUp(U[i]) # NoAsk
  BY <1>2, AskUpIs
<1> HIDE DEF E
<1>4. \A i \in DOMAIN E : \/ i \in DOMAIN D /\ AskDown(E[i]) = AskDown(D[i])
                          \/ i = Len(D) + 1 /\ AskDown(E[i]) = NoAsk
  BY <1>1
<1>5. Distinct(U, x, E)
  <2>1. \A i, j \in DOMAIN E : AskDown(E[i]) = AskDown(E[j]) => i = j \/ AskDown(E[i]) = NoAsk
    BY <1>1, <1>4 DEF Orderly, Distinct
  <2>2. \A i \in DOMAIN U : \A j \in DOMAIN E : AskUp(U[i]) # AskDown(E[j])
    BY <1>3, <1>4 DEF Orderly, Distinct
  <2>3. \A j \in DOMAIN E : AskDown(E[j]) # x \/ x = NoAsk
    BY <1>4 DEF Orderly, Distinct
  <2> QED BY <2>1, <2>2, <2>3 DEF Orderly, Distinct
<1>6. WatchLast(U, x, E)
  BY <1>4, AskNumbers DEF Orderly, WatchLast
<1>7. \A a : Asks(U, x, E, a) => Asks(U, x, D, a)
  BY <1>4 DEF Asks
<1> QED BY <1>5, <1>6, <1>7 DEF E, Orderly

\* The client takes the next answer.
LEMMA LineReceives ==
  ASSUME NEW U, NEW D \in Seq(Responses), D # <<>>, NEW x, Orderly(U, x, D)
  PROVE  /\ Orderly(U, x, Tail(D))
         /\ \A a : Asks(U, x, Tail(D), a) => Asks(U, x, D, a) /\ a # AskDown(Head(D))
         /\ AskDown(Head(D)) # NoAsk => Asks(U, x, D, AskDown(Head(D)))
         /\ AskDown(Head(D)) = 0 => \A a : ~ Asks(U, x, Tail(D), a)
<1> DEFINE E == Tail(D)
           y == AskDown(Head(D))
<1>1. /\ Head(D) \in Responses /\ E \in Seq(Responses) /\ Len(E) = Len(D) - 1
      /\ Len(D) \in Nat /\ Len(D) > 0 /\ Head(D) = D[1] /\ 1 \in DOMAIN D
      /\ DOMAIN D = 1 .. Len(D) /\ DOMAIN E = 1 .. Len(D) - 1
      /\ \A i \in DOMAIN E : i + 1 \in DOMAIN D /\ E[i] = D[i + 1]
  BY TailIs
<1>2. y = AskDown(D[1])
  BY <1>1
<1> HIDE DEF E, y
<1>3. \A i \in DOMAIN E : AskDown(E[i]) = AskDown(D[i + 1]) /\ i + 1 # 1 /\ i \in Nat /\ i + 1 > 1
  BY <1>1
<1>4. Distinct(U, x, E)
  <2>1. \A i, j \in DOMAIN E : AskDown(E[i]) = AskDown(E[j]) => i = j \/ AskDown(E[i]) = NoAsk
    BY <1>1, <1>3 DEF Orderly, Distinct
  <2> QED BY <2>1, <1>1, <1>3 DEF Orderly, Distinct
<1>5. WatchLast(U, x, E)
  <2>1. \A j \in DOMAIN E : AskDown(E[j]) = 0 =>
          /\ U = <<>> /\ x = NoAsk
          /\ \A i \in DOMAIN E : i > j => AskDown(E[i]) = NoAsk
    BY <1>1, <1>3 DEF Orderly, WatchLast
  <2> QED BY <2>1 DEF Orderly, WatchLast
<1>6. \A a : Asks(U, x, E, a) => Asks(U, x, D, a) /\ a # y
  BY <1>1, <1>2, <1>3 DEF Asks, Orderly, Distinct
<1>7. y # NoAsk => Asks(U, x, D, y)
  BY <1>1, <1>2 DEF Asks
<1>8. y = 0 => \A a : ~ Asks(U, x, E, a)
  <2>1. SUFFICES ASSUME y = 0 PROVE \A a : ~ Asks(U, x, E, a)
    OBVIOUS
  <2>2. U = <<>> /\ x = NoAsk /\ \A i \in DOMAIN E : AskDown(E[i]) = NoAsk
    BY <2>1, <1>1, <1>2, <1>3 DEF Orderly, WatchLast
  <2> QED BY <2>2 DEF Asks
<1> QED BY <1>4, <1>5, <1>6, <1>7, <1>8 DEF E, y, Orderly

\* More is sent: frames F, of which nothing is asked yet.
LEMMA LineSends ==
  ASSUME NEW U \in Seq(Requests), NEW D \in Seq(Responses), NEW F \in Seq(Requests), NEW x,
         Orderly(U, x, D), ~ Asks(U, x, D, 0),
         \A i, j \in DOMAIN F : AskUp(F[i]) = AskUp(F[j]) => i = j,
         \A i \in DOMAIN F : AskUp(F[i]) = 0 => i = Len(F),
         \A i \in DOMAIN F : ~ Asks(U, x, D, AskUp(F[i]))
  PROVE  /\ Orderly(U \o F, x, D)
         /\ \A a : Asks(U \o F, x, D, a) =>
              Asks(U, x, D, a) \/ \E i \in DOMAIN F : AskUp(F[i]) = a
<1> DEFINE V == U \o F
<1>1. /\ V \in Seq(Requests) /\ Len(V) = Len(U) + Len(F)
      /\ Len(U) \in Nat /\ Len(F) \in Nat
      /\ DOMAIN U = 1 .. Len(U) /\ DOMAIN F = 1 .. Len(F) /\ DOMAIN V = 1 .. Len(U) + Len(F)
      /\ \A i \in DOMAIN V : \/ i \in DOMAIN U /\ V[i] = U[i]
                             \/ i - Len(U) \in DOMAIN F /\ V[i] = F[i - Len(U)]
  BY ConcatIs
<1> HIDE DEF V
<1>2. \A i \in DOMAIN F : F[i] \in Requests
  OBVIOUS
<1>3. \A i \in DOMAIN F : AskUp(F[i]) # NoAsk
  BY <1>2, AskUpIs
<1>4. \A i \in DOMAIN V : \/ i \in DOMAIN U /\ AskUp(V[i]) = AskUp(U[i])
                          \/ i - Len(U) \in DOMAIN F /\ AskUp(V[i]) = AskUp(F[i - Len(U)])
  BY <1>1
<1>5. \A i \in DOMAIN F : /\ \A j \in DOMAIN U : AskUp(U[j]) # AskUp(F[i])
                          /\ AskUp(F[i]) # x
                          /\ \A j \in DOMAIN D : AskUp(F[i]) # AskDown(D[j])
  BY <1>3 DEF Asks
<1>6. /\ \A j \in DOMAIN U : AskUp(U[j]) # 0
      /\ x # 0 /\ \A j \in DOMAIN D : AskDown(D[j]) # 0
  BY AskNumbers DEF Asks
<1>7. Distinct(V, x, D)
  <2>1. \A i, j \in DOMAIN V : AskUp(V[i]) = AskUp(V[j]) => i = j
    <3>1. SUFFICES ASSUME NEW i \in DOMAIN V, NEW j \in DOMAIN V, AskUp(V[i]) = AskUp(V[j])
                   PROVE  i = j
      OBVIOUS
    <3>2. CASE i \in DOMAIN U /\ AskUp(V[i]) = AskUp(U[i])
      <4>1. j \in DOMAIN U /\ AskUp(V[j]) = AskUp(U[j])
        BY <3>1, <3>2, <1>4, <1>5
      <4> QED BY <3>1, <3>2, <4>1 DEF Orderly, Distinct
    <3>3. CASE i - Len(U) \in DOMAIN F /\ AskUp(V[i]) = AskUp(F[i - Len(U)])
      <4>1. j - Len(U) \in DOMAIN F /\ AskUp(V[j]) = AskUp(F[j - Len(U)])
        BY <3>1, <3>3, <1>4, <1>5
      <4>2. i - Len(U) = j - Len(U)
        BY <3>1, <3>3, <4>1
      <4> QED BY <4>2, <1>1
    <3> QED BY <3>2, <3>3, <1>4
  <2>2. \A i \in DOMAIN V : AskUp(V[i]) # x
    BY <1>4, <1>5 DEF Orderly, Distinct
  <2>3. \A i \in DOMAIN V : \A j \in DOMAIN D : AskUp(V[i]) # AskDown(D[j])
    BY <1>4, <1>5 DEF Orderly, Distinct
  <2> QED BY <2>1, <2>2, <2>3 DEF Orderly, Distinct
<1>8. WatchLast(V, x, D)
  <2>1. \A i \in DOMAIN V : AskUp(V[i]) = 0 => i = Len(V)
    <3>1. SUFFICES ASSUME NEW i \in DOMAIN V, AskUp(V[i]) = 0 PROVE i = Len(V)
      OBVIOUS
    <3>2. i - Len(U) \in DOMAIN F /\ AskUp(F[i - Len(U)]) = 0
      BY <3>1, <1>4, <1>6
    <3>3. i - Len(U) = Len(F)
      BY <3>2
    <3> QED BY <3>3, <1>1
  <2> QED BY <2>1, <1>6 DEF WatchLast
<1>9. \A a : Asks(V, x, D, a) => Asks(U, x, D, a) \/ \E i \in DOMAIN F : AskUp(F[i]) = a
  <2>1. SUFFICES ASSUME NEW a, Asks(V, x, D, a)
                 PROVE  Asks(U, x, D, a) \/ \E i \in DOMAIN F : AskUp(F[i]) = a
    OBVIOUS
  <2>2. CASE \E i \in DOMAIN V : AskUp(V[i]) = a
    <3>1. PICK i \in DOMAIN V : AskUp(V[i]) = a
      BY <2>2
    <3>2. CASE i \in DOMAIN U /\ AskUp(V[i]) = AskUp(U[i])
      BY <2>1, <3>1, <3>2 DEF Asks
    <3>3. CASE i - Len(U) \in DOMAIN F /\ AskUp(V[i]) = AskUp(F[i - Len(U)])
      BY <3>1, <3>3
    <3> QED BY <3>2, <3>3, <1>4
  <2>3. CASE x = a \/ \E i \in DOMAIN D : AskDown(D[i]) = a
    BY <2>1, <2>3 DEF Asks
  <2> QED BY <2>1, <2>2, <2>3 DEF Asks
<1> QED BY <1>7, <1>8, <1>9 DEF V, Orderly

\* What is still to be taken, or in hand, is lost.
LEMMA LineLoses ==
  ASSUME NEW U, NEW D, NEW x, Orderly(U, x, D), NEW V \in {U, <<>>}, NEW y \in {x, NoAsk},
         y = NoAsk => \A i \in DOMAIN V : AskUp(V[i]) # NoAsk
  PROVE  /\ Orderly(V, y, D)
         /\ \A a : Asks(V, y, D, a) => Asks(U, x, D, a)
<1>1. DOMAIN V \subseteq DOMAIN U /\ \A i \in DOMAIN V : V[i] = U[i]
  OBVIOUS
<1>2. Distinct(V, y, D)
  BY <1>1 DEF Orderly, Distinct
<1>3. WatchLast(V, y, D)
  <2>1. CASE V = U
    BY <2>1, AskNumbers DEF Orderly, WatchLast
  <2>2. CASE V = <<>>
    BY <2>2, AskNumbers DEF Orderly, WatchLast
  <2> QED BY <2>1, <2>2
<1>4. \A a : Asks(V, y, D, a) => Asks(U, x, D, a)
  BY <1>1 DEF Asks
<1> QED BY <1>2, <1>3, <1>4 DEF Orderly

\* A line on which nothing is asked is empty but for notices.
LEMMA LineEmpty ==
  ASSUME NEW U \in Seq(Requests), NEW D \in Seq(Responses), NEW x \in 0 .. NoAsk,
         \A a \in 0 .. NoAsk : ~ Asks(U, x, D, a)
  PROVE  /\ U = <<>> /\ x = NoAsk /\ \A i \in DOMAIN D : D[i].type = "revoked"
         /\ \A a : ~ Asks(U, x, D, a)
<1>1. x = NoAsk
  BY DEF Asks
<1>2. U = <<>>
  <2>1. SUFFICES ASSUME U # <<>> PROVE FALSE
    OBVIOUS
  <2>2. U[1] \in Requests /\ 1 \in DOMAIN U
    BY <2>1, TailIs
  <2> QED BY <2>2, AskUpIs DEF Asks
<1>3. \A i \in DOMAIN D : D[i] \in Responses
  OBVIOUS
<1>4. \A i \in DOMAIN D : AskDown(D[i]) = NoAsk
  BY <1>3, AskDownIs DEF Asks
<1>5. \A i \in DOMAIN D : D[i].type = "revoked"
  BY <1>3, <1>4, AskDownIs
<1>6. \A a : ~ Asks(U, x, D, a)
  BY <1>1, <1>2, <1>4 DEF Asks
<1> QED BY <1>1, <1>2, <1>5, <1>6

\* Nothing at all.
LEMMA LineBlank ==
  Orderly(<<>>, NoAsk, <<>>) /\ \A a : ~ Asks(<<>>, NoAsk, <<>>, a)
BY AskNumbers DEF Orderly, Distinct, WatchLast, Asks

-----------------------------------------------------------------------------
(* The client's line, step by step                                         *)

\* The types of one connection's line.
LEMMA LineTyped ==
  ASSUME TInv, Issued, NEW k \in Conns
  PROVE  /\ Queue(conn[k], toServer[k]) \in Seq(Requests)
         /\ AskWork(conn[k].work) \in 0 .. NoAsk
         /\ AskWork(conn[k].work) = NoAsk <=> conn[k].work.at = "idle"
         /\ AskWork(conn[k].work) = OpenAsk <=> conn[k].work.at \in {"admission", "catch-up"}
         /\ AskWork(conn[k].work) # 0
         /\ AskWork(conn[k].work) \in Commits <=> conn[k].work.at = "transact"
         /\ conn[k].work.at = "transact" =>
              AskWork(conn[k].work) = conn[k].work.commit /\ conn[k].work.commit \in Commits
         /\ AskWork(Idle) = NoAsk
         /\ toClient[k] \in Seq(Responses) /\ conn[k].closed \in BOOLEAN
         /\ client.conn \in Conns
<1>1. /\ conn[k].work \in Works /\ toServer[k] \in Seq(Requests)
      /\ toClient[k] \in Seq(Responses) /\ conn[k].closed \in BOOLEAN /\ client.conn \in Conns
  BY ConnTyped
<1>2. conn[k].work.at = "transact" => conn[k].work.commit \in Commits
  BY DEF Issued, IssuedWork
<1>3. Queue(conn[k], toServer[k]) \in Seq(Requests)
  BY <1>1 DEF Queue
<1>4. AskWork(Idle) = NoAsk
  BY IdleIs DEF AskWork
<1> QED BY <1>1, <1>2, <1>3, <1>4, AskWorkIs

\* A call that is issued stays issued.
LEMMA IssuedStays ==
  ASSUME NEW t, NEW u, \A n \in Commits : t[n] # "unissued" => u[n] # "unissued"
  PROVE  /\ \A U : IssuedUp(U, t) => IssuedUp(U, u)
         /\ \A w : IssuedWork(w, t) => IssuedWork(w, u)
         /\ \A D : IssuedDown(D, t) => IssuedDown(D, u)
BY DEF IssuedUp, IssuedWork, IssuedDown

\* The frame taken in hand, and the frames behind it.
LEMMA IssuedTakes ==
  ASSUME NEW t, NEW U \in Seq(Requests), U # <<>>, IssuedUp(U, t)
  PROVE  /\ IssuedUp(Tail(U), t)
         /\ AskUp(Head(U)) \in Commits => t[AskUp(Head(U))] # "unissued"
<1>1. /\ Head(U) = U[1] /\ 1 \in DOMAIN U
      /\ \A i \in DOMAIN Tail(U) : i + 1 \in DOMAIN U /\ Tail(U)[i] = U[i + 1]
  BY TailIs
<1> QED BY <1>1 DEF IssuedUp

\* The frames behind the one the client takes.
LEMMA IssuedReceives ==
  ASSUME NEW t, NEW D \in Seq(Responses), D # <<>>, IssuedDown(D, t)
  PROVE  IssuedDown(Tail(D), t)
<1>1. \A i \in DOMAIN Tail(D) : i + 1 \in DOMAIN D /\ Tail(D)[i] = D[i + 1]
  BY TailIs
<1> QED BY <1>1 DEF IssuedDown

\* One more answer.
LEMMA IssuedAnswers ==
  ASSUME NEW t, NEW D \in Seq(Responses), NEW f \in Responses, IssuedDown(D, t),
         AskDown(f) \in Commits => t[AskDown(f)] # "unissued"
  PROVE  IssuedDown(Append(D, f), t)
<1>1. \A i \in DOMAIN Append(D, f) :
        (i \in DOMAIN D /\ Append(D, f)[i] = D[i]) \/ Append(D, f)[i] = f
  BY AppendIs
<1> QED BY <1>1 DEF IssuedDown

\* More frames to the server.
LEMMA IssuedSends ==
  ASSUME NEW t, NEW U \in Seq(Requests), NEW F \in Seq(Requests), IssuedUp(U, t), IssuedUp(F, t)
  PROVE  IssuedUp(U \o F, t)
<1>1. \A i \in DOMAIN (U \o F) :
        \/ i \in DOMAIN U /\ (U \o F)[i] = U[i]
        \/ i - Len(U) \in DOMAIN F /\ (U \o F)[i] = F[i - Len(U)]
  BY ConcatIs
<1> QED BY <1>1 DEF IssuedUp

\* One step sends, takes in hand and answers only commits that were issued.
LEMMA IssuedStep ==
  ASSUME TInv, Issued, [Next]_vars
  PROVE  Issued'
<1> DEFINE Up(k) == IssuedUp(toServer'[k], told')
           Work(k) == IssuedWork(conn'[k].work, told')
           Down(k) == IssuedDown(toClient'[k], told')
<1>1. SUFFICES \A k \in Conns : Up(k) /\ Work(k) /\ Down(k)
  BY DEF Issued
<1>2. \A k \in Conns : /\ IssuedUp(toServer[k], told) /\ IssuedWork(conn[k].work, told)
                       /\ IssuedDown(toClient[k], told)
  BY DEF Issued
<1>3. \A k \in Conns : toServer[k] \in Seq(Requests) /\ toClient[k] \in Seq(Responses)
  BY ConnTyped
<1>4. client.conn \in Conns /\ client.attempt + 1 \in Nat /\ client.token \in Nat
      /\ client.conn <= client.conn
  <2>1. client.conn \in Conns /\ client.attempt \in Nat /\ client.token \in Nat
    BY DEF TInv, TypeOK, ClientStates
  <2>2. client.conn \in Nat
    BY <2>1 DEF Conns
  <2> QED BY <2>1, <2>2
<1>5. ASSUME UNCHANGED <<toServer, toClient, told>>,
             \A k \in Conns : conn'[k].work \in {conn[k].work, Idle}
      PROVE  \A k \in Conns : Up(k) /\ Work(k) /\ Down(k)
  BY <1>2, <1>5, IdleIs DEF IssuedWork
<1>6. ASSUME NEW n \in Commits, Transact(n) PROVE \A k \in Conns : Up(k) /\ Work(k) /\ Down(k)
  <2>1. /\ UNCHANGED <<toClient, conn>> /\ told' = [told EXCEPT ![n] = "waiting"]
        /\ \A j \in Conns : j # client.conn => toServer'[j] = toServer[j]
        /\ \/ toServer'[client.conn] = toServer[client.conn] \o <<CommitFrame(n)>>
           \/ toServer'[client.conn] = toServer[client.conn]
    BY <1>6, TransactIs
  <2>2. told \in [Commits -> {"unissued", "waiting", "accepted", "refused", "denied", "lost"}]
    BY DEF TInv, TypeOK
  <2>3. told'[n] = "waiting" /\ \A m \in Commits : told[m] # "unissued" => told'[m] # "unissued"
    BY <2>1, <2>2
  <2>4. \A k \in Conns : /\ IssuedUp(toServer[k], told') /\ IssuedWork(conn[k].work, told')
                         /\ IssuedDown(toClient[k], told')
    BY <1>2, <2>3, IssuedStays
  <2>5. <<CommitFrame(n)>> \in Seq(Requests) /\ IssuedUp(<<CommitFrame(n)>>, told')
    <3>1. CommitFrame(n) \in Requests /\ CommitFrame(n).type = "transact"
          /\ CommitFrame(n).commit = n
      BY FrameTypes DEF CommitFrame
    <3> QED BY <3>1, <2>3 DEF IssuedUp, AskUp
  <2>6. IssuedUp(toServer[client.conn] \o <<CommitFrame(n)>>, told')
    BY <2>4, <2>5, <1>3, <1>4, IssuedSends
  <2> QED BY <2>1, <2>4, <2>6, <1>4
<1>7. CASE Drop
  <2>1. /\ UNCHANGED <<told, toServer, conn>> /\ toClient'[client.conn] = <<>>
        /\ \A j \in Conns : j # client.conn => toClient'[j] = toClient[j]
    BY <1>7, DropIs
  <2> QED BY <2>1, <1>2 DEF IssuedDown
<1>8. ASSUME NEW k \in Conns, client.conn <= k, Restore(k)
      PROVE  \A j \in Conns : Up(j) /\ Work(j) /\ Down(j)
  <2>1. /\ UNCHANGED <<told, toClient, conn>>
        /\ toServer'[k] = toServer[k] \o <<OpenFrame(client.token, client.attempt + 1)>>
        /\ \A j \in Conns : j # k => toServer'[j] = toServer[j]
    BY <1>8, RestoreIs
  <2> DEFINE f == OpenFrame(client.token, client.attempt + 1)
  <2>2. <<f>> \in Seq(Requests) /\ IssuedUp(<<f>>, told)
    <3>1. f \in Requests
      BY <1>4, FrameTypes
    <3>2. f.type = "open"
      BY DEF OpenFrame
    <3> HIDE DEF f
    <3> QED BY <3>1, <3>2, AskNumbers DEF IssuedUp, AskUp
  <2> HIDE DEF f
  <2>3. IssuedUp(toServer[k] \o <<f>>, told)
    BY <2>2, <1>2, <1>3, IssuedSends
  <2> QED BY <2>1, <2>3, <1>2 DEF f
<1>9. CASE Reconnect
  <2>1. client.conn + 1 \in Conns /\ client.conn <= client.conn + 1
    BY <1>4, <1>9, ReconnectConn
  <2> QED BY <2>1, <1>8, <1>9 DEF Reconnect
<1>10. CASE RetryHeld
  BY <1>4, <1>8, <1>10 DEF RetryHeld
<1>11. CASE Receive
  <2>1. /\ UNCHANGED conn
        /\ toClient[client.conn] \in Seq(Responses) /\ toClient[client.conn] # <<>>
        /\ Head(toClient[client.conn]) \in Responses
        /\ toClient'[client.conn] = Tail(toClient[client.conn])
        /\ \A j \in Conns : j # client.conn => toClient'[j] = toClient[j]
    BY <1>11, ReceiveIs
  <2>2. \A j \in Conns : IssuedDown(toClient'[j], told)
    <3>1. IssuedDown(Tail(toClient[client.conn]), told)
      BY <2>1, <1>2, <1>4, IssuedReceives
    <3> QED BY <2>1, <3>1, <1>2, <1>4
  <2>3. told \in [Commits -> {"unissued", "waiting", "accepted", "refused", "denied", "lost"}]
    BY DEF TInv, TypeOK
  <2>4. ASSUME \A n \in Commits : told[n] # "unissued" => told'[n] # "unissued",
               \A j \in Conns : j # client.conn => toServer'[j] = toServer[j],
               NEW F \in Seq(Requests),
               \/ toServer'[client.conn] = toServer[client.conn]
               \/ toServer'[client.conn] = toServer[client.conn] \o F,
               \A i \in DOMAIN F : AskUp(F[i]) \in Commits => told'[AskUp(F[i])] = "waiting"
        PROVE  \A k \in Conns : Up(k) /\ Work(k) /\ Down(k)
    <3>1. \A k \in Conns : /\ IssuedUp(toServer[k], told') /\ IssuedWork(conn[k].work, told')
                           /\ IssuedDown(toClient'[k], told')
      BY <1>2, <2>2, <2>4, IssuedStays
    <3>2. IssuedUp(F, told')
      BY <2>4 DEF IssuedUp
    <3>3. IssuedUp(toServer[client.conn] \o F, told')
      BY <3>1, <3>2, <1>3, <1>4, IssuedSends
    <3> QED BY <2>1, <2>4, <3>1, <3>3, <1>4
  <2>5. <<>> \in Seq(Requests)
    OBVIOUS
  <2>6. CASE Head(toClient[client.conn]).type = "opened"
    <3>1. PICK F \in Seq(Requests) :
            /\ toServer'[client.conn] = toServer[client.conn] \o F
            /\ Batch(F, client'.awaiting, told)
      BY <1>11, <2>6, ReopenedIs
    <3>2. told' = told /\ \A j \in Conns : j # client.conn => toServer'[j] = toServer[j]
      BY <1>11, <2>6, ReopenedIs
    <3> QED BY <2>4, <3>1, <3>2 DEF Batch
  <2>7. ASSUME NEW done, NEW now, Settled(done, now),
               \A n \in Commits : told[n] # "unissued" => now[n] # "unissued"
        PROVE  \A k \in Conns : Up(k) /\ Work(k) /\ Down(k)
    <3>1. told' = now /\ \A j \in Conns : j # client.conn => toServer'[j] = toServer[j]
      BY <2>7 DEF Settled
    <3>2. PICK F \in Seq(Requests) :
            /\ \/ toServer'[client.conn] = toServer[client.conn]
               \/ toServer'[client.conn] = toServer[client.conn] \o F
            /\ Batch(F, Commits, now)
      <4>1. Batch(<<>>, Commits, now)
        BY DEF Batch
      <4> QED BY <2>5, <2>7, <4>1 DEF Settled
    <3> QED BY <2>4, <2>7, <3>1, <3>2 DEF Batch
  <2>8. ASSUME toServer' = toServer,
               \A n \in Commits : told[n] # "unissued" => told'[n] # "unissued"
        PROVE  \A k \in Conns : Up(k) /\ Work(k) /\ Down(k)
    <3> DEFINE F == <<>>
    <3>1. F \in Seq(Requests) /\ DOMAIN F = {}
      BY <2>5
    <3> HIDE DEF F
    <3>2. toServer'[client.conn] = toServer[client.conn]
          /\ \A j \in Conns : j # client.conn => toServer'[j] = toServer[j]
      BY <2>8
    <3>3. \A i \in DOMAIN F : AskUp(F[i]) \in Commits => told'[AskUp(F[i])] = "waiting"
      BY <3>1
    <3> QED BY <2>4, <2>8, <3>1, <3>2, <3>3
  <2> DEFINE m == Head(toClient[client.conn])
  <2>9. CASE m.type = "verdict" /\ Settled(m.commit, Told(m.commit, m.how))
    <3>1. m.commit \in Commits /\ m.how \in Hows
      BY <2>1, <2>9, AskDownIs
    <3>2. \A n \in Commits : told[n] # "unissued" => Told(m.commit, m.how)[n] # "unissued"
      BY <2>3, <3>1 DEF Told, Hows
    <3> HIDE DEF m
    <3> QED BY <2>7, <2>9, <3>2
  <2>10. CASE m.type = "watched" /\ Settled(0, told)
    BY <2>7, <2>10
  <2>11. CASE m.type \in {"watched", "refused"} /\ ~ Terminal(m) /\ GivenUp("held") /\ told' = told
    BY <2>8, <2>11 DEF GivenUp
  <2>12. CASE /\ Terminal(m) /\ GivenUp("ended")
              /\ told' = [n \in Commits |-> IF told[n] = "waiting" THEN "lost" ELSE told[n]]
    BY <2>8, <2>12 DEF GivenUp
  <2> QED BY <1>11, <2>6, <2>9, <2>10, <2>11, <2>12, ReceiveCases
<1>12. ASSUME NEW k \in Conns, NEW type, Takes(k, type), told' = told,
              \A j \in Conns : j # k => conn'[j].work = conn[j].work,
              NEW f \in Responses,
              \A j \in Conns : j # k => toClient'[j] = toClient[j],
              toClient'[k] \in {toClient[k], Append(toClient[k], f)},
              IssuedWork(conn'[k].work, told), \/ AskDown(f) = AskUp(NextFrame(k))
                                               \/ AskDown(f) \notin Commits
       PROVE  \A j \in Conns : Up(j) /\ Work(j) /\ Down(j)
  <2>1. /\ toServer[k] # <<>> /\ toServer'[k] = Tail(toServer[k])
        /\ \A j \in Conns : j # k => toServer'[j] = toServer[j]
    BY <1>12, TakesIs
  <2>2. /\ IssuedUp(Tail(toServer[k]), told)
        /\ AskUp(NextFrame(k)) \in Commits => told[AskUp(NextFrame(k))] # "unissued"
    BY <2>1, <1>2, <1>3, IssuedTakes DEF NextFrame
  <2>3. IssuedDown(Append(toClient[k], f), told)
    BY <2>2, <1>2, <1>3, <1>12, IssuedAnswers
  <2> QED BY <1>2, <1>12, <2>1, <2>2, <2>3
<1>13. ASSUME NEW k \in Conns, told' = told, toServer' = toServer,
              \A j \in Conns : conn'[j].work \in {conn[j].work, Idle} \/ conn'[j].work.at = "catch-up",
              \A j \in Conns : \/ toClient'[j] = toClient[j]
                               \/ \E f \in Responses : /\ toClient'[j] = Append(toClient[j], f)
                                                       /\ AskDown(f) = AskWork(conn[j].work)
                                                          \/ AskDown(f) \notin Commits
       PROVE  \A j \in Conns : Up(j) /\ Work(j) /\ Down(j)
  <2>1. SUFFICES ASSUME NEW j \in Conns PROVE Up(j) /\ Work(j) /\ Down(j)
    OBVIOUS
  <2>2. Up(j)
    BY <1>2, <1>13
  <2>3. Work(j)
    BY <1>2, <1>13, IdleIs DEF IssuedWork
  <2>4. Down(j)
    <3>1. CASE toClient'[j] = toClient[j]
      BY <3>1, <1>2, <1>13
    <3>2. CASE toClient'[j] # toClient[j]
      <4>1. PICK f \in Responses : /\ toClient'[j] = Append(toClient[j], f)
                                   /\ AskDown(f) = AskWork(conn[j].work) \/ AskDown(f) \notin Commits
        BY <3>2, <1>13
      <4>2. AskDown(f) \in Commits => told[AskDown(f)] # "unissued"
        <5>1. AskWork(conn[j].work) \in Commits =>
                conn[j].work.at = "transact" /\ AskWork(conn[j].work) = conn[j].work.commit
          BY LineTyped
        <5> QED BY <4>1, <5>1, <1>2 DEF IssuedWork
      <4>3. IssuedDown(Append(toClient[j], f), told)
        BY <4>1, <4>2, <1>2, <1>3, IssuedAnswers
      <4> QED BY <4>1, <4>3, <1>13
    <3> QED BY <3>1, <3>2
  <2> QED BY <2>2, <2>3, <2>4
<1>14. Revoked \in Responses /\ AskDown(Revoked) \notin Commits
  BY FrameTypes, AskNumbers DEF Revoked, AskDown
<1>15. ASSUME NEW k \in Conns, ServerStep(k)
       PROVE  \A j \in Conns : Up(j) /\ Work(j) /\ Down(j)
  <2>1. CASE BeginOpen(k)
    BY <2>1, <1>12, <1>14, BeginOpenIs DEF BeginOpen, IssuedWork
  <2>2. CASE RefuseOpen(k)
    <3>1. \A why \in {"denied", "retriable", "revoked"} :
            Refusal(why) \in Responses /\ AskDown(Refusal(why)) \notin Commits
      BY FrameTypes, AskNumbers DEF Refusal, AskDown
    <3>2. /\ told' = told /\ toServer' = toServer
          /\ \A j \in Conns : conn'[j].work \in {conn[j].work, Idle}
      BY <2>2, RefuseOpenIs
    <3>3. \A j \in Conns : \/ toClient'[j] = toClient[j]
                           \/ \E f \in Responses : /\ toClient'[j] = Append(toClient[j], f)
                                                   /\ AskDown(f) \notin Commits
      BY <2>2, <3>1, RefuseOpenIs
    <3> QED BY <3>2, <3>3, <1>13
  <2>3. CASE AdmitOpen(k)
    <3>1. Opened(minted + 1, FALSE) \in Responses /\ AskDown(Opened(minted + 1, FALSE)) \notin Commits
      <4>1. minted + 1 \in Nat
        BY DEF TInv, TypeOK
      <4> QED BY <4>1, FrameTypes, AskNumbers DEF Opened, AskDown
    <3>2. /\ told' = told /\ toServer' = toServer
          /\ \A j \in Conns : conn'[j].work \in {conn[j].work, Idle} \/ conn'[j].work.at = "catch-up"
      BY <2>3, AdmitOpenIs
    <3>3. \A j \in Conns : \/ toClient'[j] = toClient[j]
                           \/ toClient'[j] = Append(toClient[j], Revoked)
                           \/ toClient'[j] = Append(toClient[j], Opened(minted + 1, FALSE))
      BY <2>3, AdmitOpenIs
    <3> QED BY <3>1, <3>2, <3>3, <1>13, <1>14
  <2>4. CASE FinishOpen(k)
    <3>1. PICK f \in Responses :
            /\ AskDown(f) \notin Commits
            /\ toClient'[k] = toClient[k] \/ toClient'[k] = Append(toClient[k], f)
      <4>1. conn[k].work.token \in Nat
        BY ConnTyped
      <4>2. Opened(conn[k].work.token, TRUE) \in Responses /\ Refusal("revoked") \in Responses
        BY <4>1, FrameTypes
      <4>3. /\ AskDown(Opened(conn[k].work.token, TRUE)) \notin Commits
            /\ AskDown(Refusal("revoked")) \notin Commits
        BY AskNumbers DEF Opened, Refusal, AskDown
      <4>4. \/ toClient'[k] = toClient[k]
            \/ toClient'[k] = Append(toClient[k], Opened(conn[k].work.token, TRUE))
            \/ toClient'[k] = Append(toClient[k], Refusal("revoked"))
        BY <2>4, FinishOpenIs
      <4> QED BY <4>2, <4>3, <4>4
    <3>2. /\ told' = told /\ toServer' = toServer
          /\ \A j \in Conns : conn'[j].work \in {conn[j].work, Idle}
          /\ \A j \in Conns : j # k => toClient'[j] = toClient[j]
      BY <2>4, FinishOpenIs
    <3> QED BY <3>1, <3>2, <1>13
  <2>5. CASE BeginTransact(k)
    <3>1. /\ Takes(k, "transact") /\ told' = told
          /\ NextFrame(k).commit \in Commits
          /\ \A j \in Conns : j # k => conn'[j] = conn[j] /\ toClient'[j] = toClient[j]
          /\ \/ toClient' = toClient /\ conn'[k].work.at = "transact"
                /\ conn'[k].work.commit = NextFrame(k).commit
             \/ /\ conn' = conn
                /\ \/ toClient'[k] = toClient[k]
                   \/ toClient'[k] = Append(toClient[k], Verdict(NextFrame(k).commit, "refused"))
      BY <2>5, BeginTransactIs
    <3>2. AskUp(NextFrame(k)) = NextFrame(k).commit /\ toServer[k] # <<>>
      BY <3>1, TakesIs, AskUpIs
    <3>3. told[NextFrame(k).commit] # "unissued"
      BY <3>1, <3>2, <1>2, <1>3, IssuedTakes DEF NextFrame
    <3>4. PICK f \in Responses : f = Verdict(NextFrame(k).commit, "refused")
      BY <3>1, FrameTypes
    <3>5. AskDown(f) = AskUp(NextFrame(k))
      BY <3>2, <3>4 DEF Verdict, AskDown
    <3>6. IssuedWork(conn'[k].work, told)
      BY <3>1, <3>3, <1>2 DEF IssuedWork
    <3> QED BY <3>1, <3>4, <3>5, <3>6, <1>12
  <2>6. CASE DecideTransact(k)
    <3>1. conn[k].work.commit \in Commits /\ conn[k].work.at = "transact"
      BY <2>6, <1>2 DEF DecideTransact, IssuedWork
    <3>2. PICK how \in Hows :
            \/ toClient'[k] = toClient[k]
            \/ toClient'[k] = Append(toClient[k], Verdict(conn[k].work.commit, how))
      BY <2>6, <3>1, DecideTransactIs
    <3>3. PICK f \in Responses : f = Verdict(conn[k].work.commit, how)
      BY <3>1, FrameTypes
    <3>4. AskDown(f) = AskWork(conn[k].work)
      BY <3>1, <3>3 DEF Verdict, AskDown, AskWork
    <3>5. /\ told' = told /\ toServer' = toServer
          /\ \A j \in Conns : conn'[j].work \in {conn[j].work, Idle}
          /\ \A j \in Conns : j # k => toClient'[j] = toClient[j]
      BY <2>6, <3>1, DecideTransactIs
    <3> QED BY <3>2, <3>3, <3>4, <3>5, <1>13
  <2>7. CASE WatchSet(k)
    <3>1. PICK how \in {"ok", "retriable"} :
            toClient'[k] \in {toClient[k], Append(toClient[k], Watched(how))}
      BY <2>7, WatchSetIs
    <3>2. PICK f \in Responses : f = Watched(how)
      BY FrameTypes
    <3>3. AskDown(f) \notin Commits
      BY <3>2, AskNumbers DEF Watched, AskDown
    <3>4. /\ Takes(k, "watch") /\ told' = told /\ conn' = conn
          /\ \A j \in Conns : j # k => toClient'[j] = toClient[j]
      BY <2>7, WatchSetIs
    <3> QED BY <3>1, <3>2, <3>3, <3>4, <1>2, <1>12
  <2> QED BY <2>1, <2>2, <2>3, <2>4, <2>5, <2>6, <2>7, <1>15 DEF ServerStep
<1>16. ASSUME NEW k \in Conns, Close(k) PROVE \A j \in Conns : Up(j) /\ Work(j) /\ Down(j)
  <2>1. /\ told' = told /\ toClient' = toClient /\ toServer'[k] = <<>>
        /\ \A j \in Conns : j # k => toServer'[j] = toServer[j]
        /\ \A j \in Conns : conn'[j].work = conn[j].work
    BY <1>16, CloseIs
  <2> QED BY <2>1, <1>2 DEF IssuedUp
<1>17. CASE Expire
  BY <1>5, <1>17, ExpireIs
<1>18. CASE Deauthorize
  <2>1. /\ told' = told /\ toServer' = toServer
        /\ \A j \in Conns : conn'[j].work \in {conn[j].work, Idle}
        /\ \A j \in Conns : \/ toClient'[j] = toClient[j]
                            \/ toClient'[j] = Append(toClient[j], Revoked)
    BY <1>18, DeauthorizeIs
  <2> QED BY <2>1, <1>4, <1>13, <1>14
<1>19. CASE Restart
  <2>1. /\ told' = told /\ toClient' = toClient
        /\ \A j \in Conns : toServer'[j] = <<>> /\ conn'[j].work = Idle
    BY <1>19, RestartIs
  <2> QED BY <2>1, <1>2, IdleIs DEF IssuedUp, IssuedWork
<1>20. CASE UNCHANGED vars
  BY <1>5, <1>20 DEF vars
<1>21. CASE WriteChange
  BY <1>5, <1>21, WriteChangeIs
<1> QED BY <1>6, <1>7, <1>9, <1>10, <1>11, <1>15, <1>16, <1>17, <1>18, <1>19, <1>20, <1>21 DEF Next, WriteChange

\* The frames a restore or its end sends, on a line with nothing else to ask.
LEMMA LineFresh ==
  ASSUME NEW U \in Seq(Requests), NEW x \in 0 .. NoAsk, NEW D \in Seq(Responses),
         NEW F \in Seq(Requests), NEW at, NEW aw,
         Orderly(U, x, D), \A a \in 0 .. NoAsk : ~ Asks(U, x, D, a),
         \A i, j \in DOMAIN F : AskUp(F[i]) = AskUp(F[j]) => i = j,
         \A i \in DOMAIN F : AskUp(F[i]) = 0 => i = Len(F),
         \A i \in DOMAIN F : Phase(at, aw, AskUp(F[i]))
  PROVE  Line(at, aw, U \o F, x, D)
<1>1. \A a : ~ Asks(U, x, D, a)
  BY LineEmpty
<1>2. /\ Orderly(U \o F, x, D)
      /\ \A a : Asks(U \o F, x, D, a) => Asks(U, x, D, a) \/ \E i \in DOMAIN F : AskUp(F[i]) = a
  BY <1>1, LineSends
<1> QED BY <1>1, <1>2 DEF Line

\* A line with nothing to ask is in order whatever the client's state.
LEMMA LineIdle ==
  ASSUME NEW U, NEW x, NEW D, Orderly(U, x, D), \A a \in 0 .. NoAsk : ~ Asks(U, x, D, a),
         NEW at, NEW aw
  PROVE  Line(at, aw, U, x, D)
BY DEF Line

\* The order of a line the client may send on.
LEMMA SendLine ==
  ASSUME NEW c, c.closed \in BOOLEAN, NEW U \in Seq(Requests), NEW x \in 0 .. NoAsk,
         NEW D \in Seq(Responses), NEW F \in Seq(Requests), NEW at, NEW aw,
         Orderly(Queue(c, U), x, D), \A a \in 0 .. NoAsk : ~ Asks(Queue(c, U), x, D, a),
         \A i, j \in DOMAIN F : AskUp(F[i]) = AskUp(F[j]) => i = j,
         \A i \in DOMAIN F : AskUp(F[i]) = 0 => i = Len(F),
         \A i \in DOMAIN F : Phase(at, aw, AskUp(F[i]))
  PROVE  Line(at, aw, Queue(c, U \o F), x, D)
<1>1. Queue(c, U) = <<>>
  <2>1. Queue(c, U) \in Seq(Requests)
    BY DEF Queue
  <2> QED BY <2>1, LineEmpty
<1>2. CASE c.closed
  <2>1. Queue(c, U \o F) = Queue(c, U)
    BY <1>2 DEF Queue
  <2> QED BY <2>1, LineIdle
<1>3. CASE ~ c.closed
  <2>1. Queue(c, U \o F) = U \o F /\ Queue(c, U) = U
    BY <1>3 DEF Queue
  <2> QED BY <2>1, LineFresh
<1> QED BY <1>2, <1>3

\* One frame asks one thing.
LEMMA OneFrame ==
  ASSUME NEW f \in Requests
  PROVE  /\ <<f>> \in Seq(Requests)
         /\ \A i \in DOMAIN <<f>> : AskUp(<<f>>[i]) = AskUp(f) /\ i = Len(<<f>>)
         /\ \A i, j \in DOMAIN <<f>> : AskUp(<<f>>[i]) = AskUp(<<f>>[j]) => i = j
         /\ \A i \in DOMAIN <<f>> : AskUp(<<f>>[i]) = 0 => i = Len(<<f>>)
<1>1. <<f>> \in Seq(Requests) /\ DOMAIN <<f>> = {1} /\ <<f>>[1] = f /\ Len(<<f>>) = 1
  OBVIOUS
<1> QED BY <1>1

\* A call issued on a ready session goes to the end of its line.
LEMMA TransactLine ==
  ASSUME TInv, LInv, NEW n \in Commits, Transact(n)
  PROVE  LiveLine'
<1> DEFINE k == client.conn
           c == conn[k]
           U == toServer[k]
           x == AskWork(conn[k].work)
           D == toClient[k]
           f == CommitFrame(n)
<1>1. /\ client' = client /\ conn' = conn /\ toClient' = toClient /\ told[n] = "unissued"
      /\ IF client.at = "ready" THEN toServer'[k] = U \o <<f>> ELSE toServer'[k] = U
  BY TransactIs
<1>2. SUFFICES ASSUME Live
               PROVE  Line(client.at, client.awaiting, Queue(c, toServer'[k]), x, D)
  BY <1>1 DEF LiveLine, Live
<1>3. Line(client.at, client.awaiting, Queue(c, U), x, D)
  BY <1>2 DEF LInv, LiveLine
<1>4. CASE client.at # "ready"
  BY <1>1, <1>3, <1>4
<1>5. CASE client.at = "ready"
  <2>1. /\ k \in Conns /\ Queue(c, U) \in Seq(Requests) /\ D \in Seq(Responses)
        /\ c.closed \in BOOLEAN /\ U \in Seq(Requests)
        /\ x \in Commits <=> c.work.at = "transact"
        /\ c.work.at = "transact" => x = c.work.commit
    <3>1. client.conn \in Conns
      BY DEF TInv, TypeOK, ClientStates
    <3>2. U \in Seq(Requests) /\ Issued
      BY <3>1, ConnTyped DEF LInv
    <3> QED BY <3>1, <3>2, LineTyped
  <2>2. f \in Requests /\ AskUp(f) = n
    BY FrameTypes DEF CommitFrame, AskUp
  <2>3. ~ Asks(Queue(c, U), x, D, n)
    <3>1. /\ \A i \in DOMAIN U : AskUp(U[i]) # n
          /\ \A i \in DOMAIN D : AskDown(D[i]) # n
          /\ c.work.at = "transact" => c.work.commit # n
      BY <1>1, <2>1 DEF LInv, Issued, IssuedUp, IssuedDown, IssuedWork
    <3>2. \A i \in DOMAIN Queue(c, U) : AskUp(Queue(c, U)[i]) # n
      BY <3>1 DEF Queue
    <3>3. x # n
      BY <2>1, <3>1
    <3> QED BY <3>1, <3>2, <3>3 DEF Asks
  <2>4. ~ Asks(Queue(c, U), x, D, 0)
    BY <1>3, <1>5, AskNumbers DEF Line, Phase
  <2> HIDE DEF f, U, D, x, c, k
  <2>5. /\ <<f>> \in Seq(Requests)
        /\ \A i \in DOMAIN <<f>> : AskUp(<<f>>[i]) = n /\ i = Len(<<f>>)
        /\ \A i, j \in DOMAIN <<f>> : AskUp(<<f>>[i]) = AskUp(<<f>>[j]) => i = j
    BY <2>2, OneFrame
  <2> DEFINE F == <<f>>
  <2>51. /\ F \in Seq(Requests)
         /\ \A i \in DOMAIN F : AskUp(F[i]) = n /\ i = Len(F)
         /\ \A i, j \in DOMAIN F : AskUp(F[i]) = AskUp(F[j]) => i = j
         /\ \A i \in DOMAIN F : AskUp(F[i]) = 0 => i = Len(F)
         /\ \A i \in DOMAIN F : ~ Asks(Queue(c, U), x, D, AskUp(F[i]))
    BY <2>3, <2>5
  <2>52. Orderly(Queue(c, U), x, D)
    BY <1>3 DEF Line
  <2>53. <<f>> = F
    OBVIOUS
  <2> HIDE DEF F
  <2>60. \A V \in Seq(Requests) : Orderly(V, x, D) /\ ~ Asks(V, x, D, 0)
           /\ (\A i \in DOMAIN F : ~ Asks(V, x, D, AskUp(F[i])))
           => /\ Orderly(V \o F, x, D)
              /\ \A a : Asks(V \o F, x, D, a) =>
                   Asks(V, x, D, a) \/ \E i \in DOMAIN F : AskUp(F[i]) = a
    BY <2>1, <2>51, LineSends
  <2>6. /\ Orderly(Queue(c, U) \o F, x, D)
        /\ \A a : Asks(Queue(c, U) \o F, x, D, a) =>
             Asks(Queue(c, U), x, D, a) \/ \E i \in DOMAIN F : AskUp(F[i]) = a
    BY <2>1, <2>4, <2>51, <2>52, <2>60
  <2>7. Line(client.at, client.awaiting, Queue(c, U) \o <<f>>, x, D)
    <3>1. Line(client.at, client.awaiting, Queue(c, U) \o F, x, D)
      BY <1>3, <1>5, <2>51, <2>6 DEF Line, Phase
    <3> QED BY <3>1, <2>53
  <2>8. \/ Queue(c, toServer'[k]) = Queue(c, U)
        \/ Queue(c, toServer'[k]) = Queue(c, U) \o <<f>>
    BY <1>1, <1>5, <2>1 DEF Queue
  <2> QED BY <1>3, <2>7, <2>8
<1> QED BY <1>4, <1>5

\* A restore's open is alone on its line.
LEMMA RestoreLine ==
  ASSUME TInv, LInv, NEW k \in Conns, client.conn <= k, Restore(k),
         Orderly(Queue(conn[k], toServer[k]), AskWork(conn[k].work), toClient[k]),
         \A a \in 0 .. NoAsk :
           ~ Asks(Queue(conn[k], toServer[k]), AskWork(conn[k].work), toClient[k], a)
  PROVE  LiveLine'
<1> DEFINE f == OpenFrame(client.token, client.attempt + 1)
<1>1. /\ UNCHANGED <<conn, toClient>> /\ client'.at = "opening" /\ client'.conn = k
      /\ toServer'[k] = toServer[k] \o <<f>>
  BY RestoreIs
<1>2. f \in Requests /\ AskUp(f) = OpenAsk
  <2>1. client.token \in Nat /\ client.attempt + 1 \in Nat
    BY DEF TInv, TypeOK, ClientStates
  <2> QED BY <2>1, FrameTypes DEF OpenFrame, AskUp
<1> HIDE DEF f
<1>3. /\ <<f>> \in Seq(Requests)
      /\ \A i \in DOMAIN <<f>> : AskUp(<<f>>[i]) = OpenAsk /\ i = Len(<<f>>)
      /\ \A i, j \in DOMAIN <<f>> : AskUp(<<f>>[i]) = AskUp(<<f>>[j]) => i = j
  BY <1>2, OneFrame
<1>4. \A i \in DOMAIN <<f>> : Phase("opening", client'.awaiting, AskUp(<<f>>[i]))
  BY <1>3 DEF Phase
<1>5. /\ conn[k].closed \in BOOLEAN /\ toServer[k] \in Seq(Requests)
      /\ AskWork(conn[k].work) \in 0 .. NoAsk /\ toClient[k] \in Seq(Responses)
  BY LineTyped, ConnTyped DEF LInv
<1> DEFINE F == <<f>>
<1>51. /\ F \in Seq(Requests)
       /\ \A i, j \in DOMAIN F : AskUp(F[i]) = AskUp(F[j]) => i = j
       /\ \A i \in DOMAIN F : AskUp(F[i]) = 0 => i = Len(F)
       /\ \A i \in DOMAIN F : Phase("opening", client'.awaiting, AskUp(F[i]))
  BY <1>3, <1>4
<1>52. <<f>> = F
  OBVIOUS
<1> HIDE DEF F
<1> DEFINE U == toServer[k]
           c == conn[k]
           x == AskWork(conn[k].work)
           D == toClient[k]
<1>53. /\ c.closed \in BOOLEAN /\ U \in Seq(Requests) /\ x \in 0 .. NoAsk /\ D \in Seq(Responses)
       /\ Orderly(Queue(c, U), x, D) /\ \A a \in 0 .. NoAsk : ~ Asks(Queue(c, U), x, D, a)
  BY <1>5
<1>54. ASSUME NEW aw
       PROVE  (\A i \in DOMAIN F : Phase("opening", aw, AskUp(F[i])))
                => Line("opening", aw, Queue(c, U \o F), x, D)
  <2> HIDE DEF c, U, x, D
  <2> QED BY <1>51, <1>53, SendLine
<1>6. Line("opening", client'.awaiting, Queue(c, U \o F), x, D)
  BY <1>51, <1>54
<1> QED BY <1>1, <1>52, <1>6 DEF LiveLine

\* A new connection carries nothing yet.
LEMMA FreshLine ==
  ASSUME TInv, NEW k \in Conns, k > client.conn
  PROVE  /\ Orderly(Queue(conn[k], toServer[k]), AskWork(conn[k].work), toClient[k])
         /\ \A a : ~ Asks(Queue(conn[k], toServer[k]), AskWork(conn[k].work), toClient[k], a)
<1>1. conn[k].work = Idle /\ toServer[k] = <<>> /\ toClient[k] = <<>>
  BY DEF TInv, TypeOK
<1>2. AskWork(conn[k].work) = NoAsk
  BY <1>1, IdleIs DEF AskWork
<1>3. Queue(conn[k], toServer[k]) = <<>>
  BY <1>1 DEF Queue
<1> QED BY <1>1, <1>2, <1>3, LineBlank

\* A held session asks nothing.
LEMMA HeldLine ==
  ASSUME TInv, LInv, client.at = "held"
  PROVE  /\ Orderly(Queue(conn[client.conn], toServer[client.conn]),
                    AskWork(conn[client.conn].work), toClient[client.conn])
         /\ \A a \in 0 .. NoAsk : ~ Asks(Queue(conn[client.conn], toServer[client.conn]),
                    AskWork(conn[client.conn].work), toClient[client.conn], a)
<1>1. Live
  BY DEF Live
<1> QED BY <1>1 DEF LInv, LiveLine, Line, Phase

\* A reconnect and a retry open on a line of their own.
LEMMA ReopenLine ==
  ASSUME TInv, LInv, Reconnect \/ RetryHeld
  PROVE  LiveLine'
<1>1. CASE Reconnect
  <2>1. client.conn + 1 \in Conns /\ client.conn <= client.conn + 1
    BY <1>1, ReconnectConn
  <2>2. client.conn + 1 > client.conn
    BY DEF TInv, TypeOK, ClientStates, Conns
  <2> QED BY <1>1, <2>1, <2>2, RestoreLine, FreshLine DEF Reconnect
<1>2. CASE RetryHeld
  <2>1. client.conn \in Conns /\ client.conn <= client.conn
    BY DEF TInv, TypeOK, ClientStates, Conns
  <2> QED BY <1>2, <2>1, RestoreLine, HeldLine DEF RetryHeld
<1> QED BY <1>1, <1>2

-----------------------------------------------------------------------------
(* What the server does to a line.                                          *)

\* A line goes from (U, x, D) to (V, y, E), asks no more than before and keeps
\* its order.
Eases(U, x, D, V, y, E) ==
  /\ Orderly(U, x, D) => /\ Orderly(V, y, E)
                         /\ \A a : Asks(V, y, E, a) => Asks(U, x, D, a)
  /\ OpenLast(U, x) => OpenLast(V, y)

\* A line left alone.
LEMMA EasesNot ==
  ASSUME NEW U, NEW x, NEW D
  PROVE  Eases(U, x, D, U, x, D)
BY DEF Eases

\* The next frame is taken in hand.
LEMMA EasesTakes ==
  ASSUME NEW U \in Seq(Requests), NEW D \in Seq(Responses), U # <<>>
  PROVE  Eases(U, NoAsk, D, Tail(U), AskUp(Head(U)), D)
<1>1. Orderly(U, NoAsk, D) =>
        /\ Orderly(Tail(U), AskUp(Head(U)), D)
        /\ \A a : Asks(Tail(U), AskUp(Head(U)), D, a) => Asks(U, NoAsk, D, a)
  BY LineTakes
<1>2. ASSUME OpenLast(U, NoAsk) PROVE OpenLast(Tail(U), AskUp(Head(U)))
  <2>1. /\ Head(U) = U[1] /\ 1 \in DOMAIN U /\ Len(Tail(U)) = Len(U) - 1 /\ Len(U) \in Nat
        /\ DOMAIN Tail(U) = 1 .. Len(U) - 1 /\ Tail(U) \in Seq(Requests)
        /\ \A i \in DOMAIN Tail(U) : i + 1 \in DOMAIN U /\ Tail(U)[i] = U[i + 1]
    BY TailIs
  <2>2. ASSUME NEW i \in DOMAIN Tail(U), AskUp(Tail(U)[i]) = OpenAsk PROVE i = Len(Tail(U))
    <3>1. i + 1 = Len(U)
      BY <1>2, <2>1, <2>2 DEF OpenLast
    <3> QED BY <2>1, <3>1
  <2>3. ASSUME AskUp(Head(U)) = OpenAsk PROVE Tail(U) = <<>>
    <3>1. 1 = Len(U)
      BY <1>2, <2>1, <2>3 DEF OpenLast
    <3>2. Len(Tail(U)) = Len(U) - 1
      BY <2>1
    <3>4. Len(Tail(U)) = 0
      BY <3>1, <3>2
    <3> QED BY <2>1, <3>4, NoneIs
  <2> QED BY <2>2, <2>3 DEF OpenLast
<1> QED BY <1>1, <1>2 DEF Eases

\* The request in hand is answered.
LEMMA EasesAnswers ==
  ASSUME NEW U \in Seq(Requests), NEW D \in Seq(Responses), NEW f \in Responses, NEW x,
         x # NoAsk, AskDown(f) = x
  PROVE  Eases(U, x, D, U, NoAsk, Append(D, f))
<1>1. Orderly(U, x, D) =>
        /\ Orderly(U, NoAsk, Append(D, f))
        /\ \A a : Asks(U, NoAsk, Append(D, f), a) => Asks(U, x, D, a)
  BY LineAnswers
<1>2. OpenLast(U, x) => OpenLast(U, NoAsk)
  BY AskNumbers DEF OpenLast
<1> QED BY <1>1, <1>2 DEF Eases

\* The next frame is answered where it is taken.
LEMMA EasesReplies ==
  ASSUME NEW U \in Seq(Requests), NEW D \in Seq(Responses), NEW f \in Responses,
         U # <<>>, AskDown(f) = AskUp(Head(U))
  PROVE  Eases(U, NoAsk, D, Tail(U), NoAsk, Append(D, f))
<1>1. Tail(U) \in Seq(Requests) /\ Head(U) \in Requests
  BY TailIs
<1>2. Eases(U, NoAsk, D, Tail(U), AskUp(Head(U)), D)
  BY EasesTakes
<1>3. AskUp(Head(U)) # NoAsk
  BY <1>1, AskUpIs
<1>4. Eases(Tail(U), AskUp(Head(U)), D, Tail(U), NoAsk, Append(D, f))
  BY <1>1, <1>3, EasesAnswers
<1> QED BY <1>2, <1>4 DEF Eases

\* A notice that answers nothing.
LEMMA EasesNotice ==
  ASSUME NEW U \in Seq(Requests), NEW D \in Seq(Responses), NEW x
  PROVE  Eases(U, x, D, U, x, Append(D, Revoked))
<1>1. Revoked \in Responses /\ AskDown(Revoked) = NoAsk
  BY FrameTypes DEF Revoked, AskDown
<1>2. Orderly(U, x, D) =>
        /\ Orderly(U, x, Append(D, Revoked))
        /\ \A a : Asks(U, x, Append(D, Revoked), a) => Asks(U, x, D, a)
  BY <1>1, LineNotice
<1> QED BY <1>2 DEF Eases

\* What is still to be taken, or in hand, is lost.
LEMMA EasesLoses ==
  ASSUME NEW U \in Seq(Requests), NEW D, NEW x, NEW V \in {U, <<>>}, NEW y \in {x, NoAsk}
  PROVE  Eases(U, x, D, V, y, D)
<1>1. \A i \in DOMAIN V : AskUp(V[i]) # NoAsk
  <2>1. V \in Seq(Requests)
    <3>1. CASE V = U
      BY <3>1
    <3>2. CASE V = <<>>
      BY <3>2
    <3> QED BY <3>1, <3>2
  <2>2. \A i \in DOMAIN V : V[i] \in Requests
    BY <2>1
  <2> QED BY <2>2, AskUpIs
<1>2. Orderly(U, x, D) =>
        /\ Orderly(V, y, D) /\ \A a : Asks(V, y, D, a) => Asks(U, x, D, a)
  BY <1>1, LineLoses
<1>3. OpenLast(U, x) => OpenLast(V, y)
  BY AskNumbers DEF OpenLast
<1> QED BY <1>2, <1>3 DEF Eases

\* The next frame is taken, and its answer goes unread.
LEMMA EasesUnread ==
  ASSUME NEW U \in Seq(Requests), NEW D \in Seq(Responses), U # <<>>
  PROVE  Eases(U, NoAsk, D, Tail(U), NoAsk, D)
<1>1. Tail(U) \in Seq(Requests)
  BY TailIs
<1>2. Eases(U, NoAsk, D, Tail(U), AskUp(Head(U)), D)
  BY EasesTakes
<1>3. Eases(Tail(U), AskUp(Head(U)), D, Tail(U), NoAsk, D)
  BY <1>1, EasesLoses
<1> QED BY <1>2, <1>3 DEF Eases

\* The step eases connection j's line.
Eased(j) ==
  Eases(Queue(conn[j], toServer[j]), AskWork(conn[j].work), toClient[j],
        Queue(conn'[j], toServer'[j]), AskWork(conn'[j].work), toClient'[j])

\* A step that eases every line keeps the client's, and every open last.
LEMMA EasedStep ==
  ASSUME LInv, client' = client, client.conn \in Conns, \A j \in Conns : Eased(j)
  PROVE  LiveLine' /\ OpensLast'
<1>1. OpensLast'
  BY DEF LInv, OpensLast, Eased, Eases
<1>2. LiveLine'
  <2>1. SUFFICES ASSUME Live
        PROVE  Line(client.at, client.awaiting, Queue(conn'[client.conn], toServer'[client.conn]),
                    AskWork(conn'[client.conn].work), toClient'[client.conn])
    BY DEF LiveLine, Live
  <2>2. Line(client.at, client.awaiting, Queue(conn[client.conn], toServer[client.conn]),
             AskWork(conn[client.conn].work), toClient[client.conn])
    BY <2>1 DEF LInv, LiveLine
  <2>3. Eased(client.conn)
    OBVIOUS
  <2> QED BY <2>2, <2>3 DEF Eased, Eases, Line
<1> QED BY <1>1, <1>2

\* Only the line of connection k is not left alone.
LEMMA EasedOthers ==
  ASSUME NEW j, conn'[j].closed = conn[j].closed, conn'[j].work = conn[j].work,
         toServer'[j] = toServer[j], toClient'[j] = toClient[j]
  PROVE  Eased(j)
<1>1. Queue(conn'[j], toServer'[j]) = Queue(conn[j], toServer[j])
  BY DEF Queue
<1> QED BY <1>1, EasesNot DEF Eased

\* Every step of the server eases every line.
LEMMA ServerEases ==
  ASSUME TInv, LInv, NEW k \in Conns, ServerStep(k)
  PROVE  client' = client /\ \A j \in Conns : Eased(j)
<1> DEFINE U == toServer[k]
           D == toClient[k]
           q == Queue(conn[k], toServer[k])
           x == AskWork(conn[k].work)
<1>1. /\ Issued /\ U \in Seq(Requests) /\ D \in Seq(Responses) /\ q \in Seq(Requests)
      /\ AskWork(Idle) = NoAsk
      /\ conn[k].work.at # "idle" => x # NoAsk
      /\ conn[k].work.at = "transact" => x = conn[k].work.commit /\ conn[k].work.commit \in Commits
      /\ conn[k].work.at \in {"admission", "catch-up"} => x = OpenAsk
  <2>1. Issued
    BY DEF LInv
  <2> QED BY <2>1, LineTyped, ConnTyped
<1>2. ASSUME \A j \in Conns : j # k => Eased(j), Eased(k) PROVE \A j \in Conns : Eased(j)
  BY <1>2
<1>3. ASSUME NEW type, Takes(k, type), conn'[k].closed = conn[k].closed
      PROVE  /\ q = U /\ U # <<>> /\ x = NoAsk /\ Queue(conn'[k], toServer'[k]) = Tail(U)
             /\ Head(U) = NextFrame(k) /\ Head(U) \in Requests /\ Head(U).type = type
             /\ \A j \in Conns : j # k => toServer'[j] = toServer[j]
  BY <1>1, <1>3, TakesIs DEF Queue, NextFrame
<1>4. ASSUME toServer' = toServer, conn'[k].closed = conn[k].closed
      PROVE  Queue(conn'[k], toServer'[k]) = q
  BY <1>4 DEF Queue
<1>5. CASE BeginOpen(k)
  <2>1. Takes(k, "open")
    BY <1>5 DEF BeginOpen
  <2>2. /\ client' = client /\ toClient' = toClient /\ conn'[k].closed = conn[k].closed
        /\ conn'[k].work.at = "admission" /\ \A j \in Conns : j # k => conn'[j] = conn[j]
    BY <1>5, BeginOpenIs
  <2>3. AskWork(conn'[k].work) = AskUp(Head(U))
    BY <2>1, <2>2, <1>3 DEF AskWork, AskUp
  <2>4. Eased(k)
    <3>1. Eases(U, NoAsk, D, Tail(U), AskUp(Head(U)), D)
      BY <1>1, <1>3, <2>1, <2>2, EasesTakes
    <3> QED BY <3>1, <1>3, <2>1, <2>2, <2>3 DEF Eased
  <2> QED BY <2>1, <2>2, <2>4, <1>2, <1>3, EasedOthers
<1>6. CASE RefuseOpen(k)
  <2>1. /\ client' = client /\ toServer' = toServer /\ conn[k].work.at = "admission"
        /\ conn'[k].work = Idle /\ conn'[k].closed = conn[k].closed
        /\ \A j \in Conns : j # k => conn'[j] = conn[j] /\ toClient'[j] = toClient[j]
        /\ \/ toClient'[k] = toClient[k]
           \/ \E why \in {"denied", "retriable", "revoked"} :
                toClient'[k] = Append(toClient[k], Refusal(why))
    BY <1>6, RefuseOpenIs
  <2>2. Eased(k)
    <3>1. CASE toClient'[k] = toClient[k]
      <4>1. Eases(q, x, D, q, NoAsk, D)
        BY <1>1, EasesLoses
      <4> QED BY <4>1, <3>1, <2>1, <1>1, <1>4 DEF Eased
    <3>2. ASSUME NEW why \in {"denied", "retriable", "revoked"},
                 toClient'[k] = Append(toClient[k], Refusal(why))
          PROVE  Eased(k)
      <4>1. PICK f \in Responses : f = Refusal(why)
        BY FrameTypes
      <4>2. AskDown(f) = OpenAsk
        BY <4>1 DEF Refusal, AskDown
      <4>3. Eases(q, x, D, q, NoAsk, Append(D, f))
        BY <1>1, <2>1, <4>2, EasesAnswers
      <4> QED BY <4>1, <4>3, <3>2, <2>1, <1>1, <1>4 DEF Eased
    <3> QED BY <2>1, <3>1, <3>2
  <2> QED BY <2>1, <2>2, <1>2, EasedOthers
<1>7. CASE AdmitOpen(k)
  <2>0. \A j \in Conns : j # k => \/ toClient'[j] = toClient[j]
                                  \/ toClient'[j] = Append(toClient[j], Revoked)
    BY <1>7, AdmitOpenIs
  <2>1. /\ client' = client /\ toServer' = toServer /\ conn[k].work.at = "admission"
        /\ conn'[k].closed = conn[k].closed
        /\ \A j \in Conns : j # k => /\ conn'[j].closed = conn[j].closed
                                     /\ conn'[j].work = conn[j].work
    BY <1>7, AdmitOpenIs
  <2>11. \/ toClient'[k] = toClient[k] /\ conn'[k].work.at = "catch-up"
         \/ toClient'[k] = toClient[k] /\ conn'[k].work = Idle
         \/ toClient'[k] = Append(toClient[k], Opened(minted + 1, FALSE)) /\ conn'[k].work = Idle
    BY <1>7, AdmitOpenIs
  <2>2. Eased(k)
    <3>1. CASE toClient'[k] = toClient[k] /\ conn'[k].work.at = "catch-up"
      <4>1. AskWork(conn'[k].work) = x
        BY <3>1, <2>1 DEF AskWork
      <4> QED BY <4>1, <3>1, <2>1, <1>4, EasesNot DEF Eased
    <3>2. CASE toClient'[k] = Append(toClient[k], Opened(minted + 1, FALSE)) /\ conn'[k].work = Idle
      <4>1. PICK f \in Responses : f = Opened(minted + 1, FALSE)
        <5>1. minted + 1 \in Nat
          BY ConnTyped
        <5> QED BY <5>1, FrameTypes
      <4>2. AskDown(f) = OpenAsk
        BY <4>1 DEF Opened, AskDown
      <4>3. Eases(q, x, D, q, NoAsk, Append(D, f))
        BY <1>1, <2>1, <4>2, EasesAnswers
      <4> QED BY <4>1, <4>3, <3>2, <2>1, <1>1, <1>4 DEF Eased
    <3>3. CASE toClient'[k] = toClient[k] /\ conn'[k].work = Idle
      <4>1. Eases(q, x, D, q, NoAsk, D)
        BY <1>1, EasesLoses
      <4> QED BY <4>1, <3>3, <2>1, <1>1, <1>4 DEF Eased
    <3> QED BY <2>11, <3>1, <3>2, <3>3
  <2>3. ASSUME NEW j \in Conns, j # k PROVE Eased(j)
    <3>1. CASE toClient'[j] = toClient[j]
      BY <3>1, <2>1, <2>3, EasedOthers
    <3>2. CASE toClient'[j] = Append(toClient[j], Revoked)
      <4>1. Eases(Queue(conn[j], toServer[j]), AskWork(conn[j].work), toClient[j],
                  Queue(conn[j], toServer[j]), AskWork(conn[j].work), Append(toClient[j], Revoked))
        BY <1>1, LineTyped, EasesNotice
      <4>2. Queue(conn'[j], toServer'[j]) = Queue(conn[j], toServer[j])
        BY <2>1, <2>3 DEF Queue
      <4> QED BY <4>1, <4>2, <3>2, <2>1, <2>3 DEF Eased
    <3> QED BY <3>1, <3>2, <2>0, <2>3
  <2> QED BY <2>1, <2>2, <2>3, <1>2
<1>8. CASE FinishOpen(k)
  <2>1. /\ client' = client /\ toServer' = toServer /\ conn[k].work.at = "catch-up"
        /\ conn'[k].work = Idle /\ conn'[k].closed = conn[k].closed
        /\ \A j \in Conns : j # k => conn'[j] = conn[j] /\ toClient'[j] = toClient[j]
        /\ \/ toClient'[k] = toClient[k]
           \/ toClient'[k] = Append(toClient[k], Refusal("revoked"))
           \/ toClient'[k] = Append(toClient[k], Opened(conn[k].work.token, TRUE))
    BY <1>8, FinishOpenIs
  <2>2. Eased(k)
    <3>1. CASE toClient'[k] = toClient[k]
      <4>1. Eases(q, x, D, q, NoAsk, D)
        BY <1>1, EasesLoses
      <4> QED BY <4>1, <3>1, <2>1, <1>1, <1>4 DEF Eased
    <3>2. ASSUME NEW f \in Responses, AskDown(f) = OpenAsk, toClient'[k] = Append(toClient[k], f)
          PROVE  Eased(k)
      <4>1. Eases(q, x, D, q, NoAsk, Append(D, f))
        BY <1>1, <2>1, <3>2, EasesAnswers
      <4> QED BY <4>1, <3>2, <2>1, <1>1, <1>4 DEF Eased
    <3>3. Refusal("revoked") \in Responses /\ AskDown(Refusal("revoked")) = OpenAsk
      BY FrameTypes DEF Refusal, AskDown
    <3>4. /\ Opened(conn[k].work.token, TRUE) \in Responses
          /\ AskDown(Opened(conn[k].work.token, TRUE)) = OpenAsk
      <4>1. conn[k].work.token \in Nat
        BY ConnTyped
      <4> QED BY <4>1, FrameTypes DEF Opened, AskDown
    <3> QED BY <2>1, <3>1, <3>2, <3>3, <3>4
  <2> QED BY <2>1, <2>2, <1>2, EasedOthers
<1>9. CASE BeginTransact(k)
  <2>1. /\ Takes(k, "transact") /\ client' = client /\ conn'[k].closed = conn[k].closed
        /\ NextFrame(k).commit \in Commits
        /\ \A j \in Conns : j # k => conn'[j] = conn[j] /\ toClient'[j] = toClient[j]
        /\ \/ toClient' = toClient /\ conn'[k].work.at = "transact"
              /\ conn'[k].work.commit = NextFrame(k).commit
           \/ /\ conn' = conn
              /\ \/ toClient'[k] = toClient[k]
                 \/ toClient'[k] = Append(toClient[k], Verdict(NextFrame(k).commit, "refused"))
    BY <1>9, BeginTransactIs
  <2>2. AskUp(Head(U)) = NextFrame(k).commit
    BY <2>1, <1>3 DEF AskUp
  <2>3. Eased(k)
    <3>1. CASE toClient' = toClient /\ conn'[k].work.at = "transact"
               /\ conn'[k].work.commit = NextFrame(k).commit
      <4>1. Eases(U, NoAsk, D, Tail(U), AskUp(Head(U)), D)
        BY <1>1, <1>3, <2>1, EasesTakes
      <4>2. AskWork(conn'[k].work) = AskUp(Head(U))
        BY <2>2, <3>1 DEF AskWork
      <4> QED BY <4>1, <4>2, <1>3, <2>1, <3>1 DEF Eased
    <3>2. CASE conn' = conn /\ toClient'[k] = Append(toClient[k], Verdict(NextFrame(k).commit, "refused"))
      <4>1. PICK f \in Responses : f = Verdict(NextFrame(k).commit, "refused")
        BY <2>1, FrameTypes
      <4>2. AskDown(f) = AskUp(Head(U))
        BY <4>1, <2>2 DEF Verdict, AskDown
      <4>3. Eases(U, NoAsk, D, Tail(U), NoAsk, Append(D, f))
        BY <1>1, <1>3, <2>1, <4>2, EasesReplies
      <4> QED BY <4>1, <4>3, <1>3, <2>1, <3>2 DEF Eased
    <3>3. CASE conn' = conn /\ toClient'[k] = toClient[k]
      <4>1. Eases(U, NoAsk, D, Tail(U), NoAsk, D)
        BY <1>1, <1>3, <2>1, EasesUnread
      <4> QED BY <4>1, <1>3, <2>1, <3>3 DEF Eased
    <3> QED BY <2>1, <3>1, <3>2, <3>3
  <2> QED BY <2>1, <2>3, <1>2, <1>3, EasedOthers
<1>10. CASE DecideTransact(k)
  <2>1. conn[k].work.at = "transact"
    BY <1>10 DEF DecideTransact
  <2>2. /\ client' = client /\ toServer' = toServer
        /\ conn'[k].work = Idle /\ conn'[k].closed = conn[k].closed
        /\ \A j \in Conns : j # k => conn'[j] = conn[j] /\ toClient'[j] = toClient[j]
        /\ \E how \in Hows :
             \/ toClient'[k] = toClient[k]
             \/ toClient'[k] = Append(toClient[k], Verdict(conn[k].work.commit, how))
    BY <1>1, <1>10, <2>1, DecideTransactIs
  <2>3. Eased(k)
    <3>1. CASE toClient'[k] = toClient[k]
      <4>1. Eases(q, x, D, q, NoAsk, D)
        BY <1>1, EasesLoses
      <4> QED BY <4>1, <3>1, <2>2, <1>1, <1>4 DEF Eased
    <3>2. ASSUME NEW how \in Hows,
                 toClient'[k] = Append(toClient[k], Verdict(conn[k].work.commit, how))
          PROVE  Eased(k)
      <4>1. PICK f \in Responses : f = Verdict(conn[k].work.commit, how)
        BY <1>1, <2>1, FrameTypes
      <4>2. AskDown(f) = x
        BY <4>1, <1>1, <2>1 DEF Verdict, AskDown
      <4>3. Eases(q, x, D, q, NoAsk, Append(D, f))
        BY <1>1, <2>1, <4>2, EasesAnswers
      <4> QED BY <4>1, <4>3, <3>2, <2>2, <1>1, <1>4 DEF Eased
    <3> QED BY <2>2, <3>1, <3>2
  <2> QED BY <2>2, <2>3, <1>2, EasedOthers
<1>11. CASE WatchSet(k)
  <2>1. /\ Takes(k, "watch") /\ client' = client /\ conn' = conn
        /\ \A j \in Conns : j # k => toClient'[j] = toClient[j]
    BY <1>11, WatchSetIs
  <2>2. PICK how \in {"ok", "retriable"} :
          toClient'[k] = toClient[k] \/ toClient'[k] = Append(toClient[k], Watched(how))
    BY <1>11, WatchSetIs
  <2>3. PICK f \in Responses : f = Watched(how)
    BY FrameTypes
  <2>4. AskDown(f) = AskUp(Head(U))
    BY <2>1, <2>3, <1>3 DEF Watched, AskDown, AskUp
  <2>5. Eases(U, NoAsk, D, Tail(U), NoAsk, Append(D, f))
    BY <1>1, <1>3, <2>1, <2>4, EasesReplies
  <2>6. Eases(U, NoAsk, D, Tail(U), NoAsk, D)
    BY <1>1, <1>3, <2>1, EasesUnread
  <2>7. Eased(k)
    <3>1. CASE toClient'[k] = toClient[k]
      BY <1>3, <2>1, <2>6, <3>1 DEF Eased
    <3>2. CASE toClient'[k] = Append(toClient[k], Watched(how))
      BY <1>3, <2>1, <2>3, <2>5, <3>2 DEF Eased
    <3> QED BY <2>2, <3>1, <3>2
  <2> QED BY <2>1, <2>7, <1>2, <1>3, EasedOthers
<1> QED BY <1>5, <1>6, <1>7, <1>8, <1>9, <1>10, <1>11 DEF ServerStep

\* What befalls the server eases every line.
LEMMA TroubleEases ==
  ASSUME TInv, LInv, (\E k \in Conns : Close(k)) \/ Expire \/ Deauthorize \/ Restart
  PROVE  client' = client /\ \A j \in Conns : Eased(j)
<1>1. \A j \in Conns : /\ Queue(conn[j], toServer[j]) \in Seq(Requests)
                       /\ toClient[j] \in Seq(Responses) /\ AskWork(Idle) = NoAsk
  BY LineTyped DEF LInv
<1>2. ASSUME NEW k \in Conns, Close(k) PROVE client' = client /\ \A j \in Conns : Eased(j)
  <2>1. /\ client' = client /\ toClient' = toClient
        /\ conn'[k].closed = TRUE /\ conn'[k].work = conn[k].work
        /\ \A j \in Conns : j # k => conn'[j] = conn[j] /\ toServer'[j] = toServer[j]
    BY <1>2, CloseIs
  <2>2. Queue(conn'[k], toServer'[k]) = <<>>
    BY <2>1 DEF Queue
  <2>3. Eases(Queue(conn[k], toServer[k]), AskWork(conn[k].work), toClient[k],
              <<>>, AskWork(conn[k].work), toClient[k])
    BY <1>1, EasesLoses
  <2> QED BY <2>1, <2>2, <2>3, EasedOthers DEF Eased
<1>3. CASE Expire
  BY <1>3, ExpireIs, EasedOthers
<1>4. CASE Deauthorize
  <2>1. client' = client /\ toServer' = toServer
        /\ \A j \in Conns : conn'[j].closed = conn[j].closed /\ conn'[j].work = conn[j].work
    BY <1>4, DeauthorizeIs
  <2>2. \A j \in Conns : toClient'[j] = toClient[j] \/ toClient'[j] = Append(toClient[j], Revoked)
    BY <1>4, DeauthorizeIs
  <2>3. ASSUME NEW j \in Conns PROVE Eased(j)
    <3>1. CASE toClient'[j] = toClient[j]
      BY <3>1, <2>1, EasedOthers
    <3>2. CASE toClient'[j] = Append(toClient[j], Revoked)
      <4>1. Eases(Queue(conn[j], toServer[j]), AskWork(conn[j].work), toClient[j],
                  Queue(conn[j], toServer[j]), AskWork(conn[j].work), Append(toClient[j], Revoked))
        BY <1>1, EasesNotice
      <4>2. Queue(conn'[j], toServer'[j]) = Queue(conn[j], toServer[j])
        BY <2>1 DEF Queue
      <4> QED BY <4>1, <4>2, <3>2, <2>1 DEF Eased
    <3> QED BY <3>1, <3>2, <2>2
  <2> QED BY <2>1, <2>3
<1>5. CASE Restart
  <2>1. client' = client /\ toClient' = toClient
        /\ \A j \in Conns : toServer'[j] = <<>> /\ conn'[j].work = Idle
    BY <1>5, RestartIs
  <2>2. ASSUME NEW j \in Conns PROVE Eased(j)
    <3>1. Queue(conn'[j], toServer'[j]) = <<>>
      BY <2>1 DEF Queue
    <3>2. Eases(Queue(conn[j], toServer[j]), AskWork(conn[j].work), toClient[j],
                <<>>, NoAsk, toClient[j])
      BY <1>1, EasesLoses
    <3> QED BY <3>1, <3>2, <2>1, <1>1 DEF Eased
  <2> QED BY <2>1, <2>2
<1> QED BY <1>2, <1>3, <1>4, <1>5

-----------------------------------------------------------------------------
(* What the client does to its line.                                        *)

\* The answer the client takes is one it waits for.
LEMMA LineAnswered ==
  ASSUME NEW at \in {"ready", "opening", "restoring", "held"},
         NEW aw \in SUBSET (Commits \cup {0}), NEW U, NEW x,
         NEW D \in Seq(Responses), D # <<>>, Line(at, aw, U, x, D)
  PROVE  LET y == AskDown(Head(D)) IN
         /\ Orderly(U, x, Tail(D))
         /\ \A a \in 0 .. NoAsk : Asks(U, x, Tail(D), a) => Phase(at, aw, a) /\ a # y
         /\ y = OpenAsk => at = "opening"
         /\ y = 0 => at = "restoring"
         /\ y \in Commits => at \in {"ready", "restoring"}
         /\ y \in {OpenAsk, 0} => \A a \in 0 .. NoAsk : ~ Asks(U, x, Tail(D), a)
<1> DEFINE y == AskDown(Head(D))
<1>1. Head(D) \in Responses
  BY TailIs
<1>2. y \in 0 .. NoAsk
  BY <1>1, AskDownIs
<1>3. Orderly(U, x, D) /\ \A a \in 0 .. NoAsk : Asks(U, x, D, a) => Phase(at, aw, a)
  BY DEF Line
<1>4. /\ Orderly(U, x, Tail(D))
      /\ \A a : Asks(U, x, Tail(D), a) => Asks(U, x, D, a) /\ a # y
      /\ y # NoAsk => Asks(U, x, D, y)
      /\ y = 0 => \A a : ~ Asks(U, x, Tail(D), a)
  BY <1>3, LineReceives
<1>5. y # NoAsk => Phase(at, aw, y)
  BY <1>2, <1>3, <1>4
<1>6. /\ y = OpenAsk => at = "opening"
      /\ y = 0 => at = "restoring"
      /\ y \in Commits => at \in {"ready", "restoring"}
  BY <1>5, AskNumbers DEF Phase
<1>7. y = OpenAsk => \A a \in 0 .. NoAsk : ~ Asks(U, x, Tail(D), a)
  BY <1>3, <1>4, <1>6 DEF Phase
<1> QED BY <1>3, <1>4, <1>6, <1>7

\* More frames, of which only the last can be an open, on a line that waits for
\* none.
LEMMA OpenLastSends ==
  ASSUME NEW c, c.closed \in BOOLEAN, NEW U \in Seq(Requests), NEW x, NEW D,
         NEW F \in Seq(Requests), ~ Asks(Queue(c, U), x, D, OpenAsk),
         \A i \in DOMAIN F : AskUp(F[i]) = OpenAsk => i = Len(F)
  PROVE  OpenLast(Queue(c, U \o F), x)
<1>1. x # OpenAsk /\ \A i \in DOMAIN Queue(c, U) : AskUp(Queue(c, U)[i]) # OpenAsk
  BY AskNumbers DEF Asks
<1>2. CASE c.closed
  BY <1>1, <1>2 DEF OpenLast, Queue
<1>3. CASE ~ c.closed
  <2>1. Queue(c, U \o F) = U \o F /\ \A i \in DOMAIN U : AskUp(U[i]) # OpenAsk
    BY <1>1, <1>3 DEF Queue
  <2>2. ASSUME NEW i \in DOMAIN (U \o F), AskUp((U \o F)[i]) = OpenAsk PROVE i = Len(U \o F)
    <3>1. /\ \/ i \in DOMAIN U /\ (U \o F)[i] = U[i]
             \/ i - Len(U) \in DOMAIN F /\ (U \o F)[i] = F[i - Len(U)]
          /\ Len(U \o F) = Len(U) + Len(F) /\ Len(U) \in Nat /\ Len(F) \in Nat
          /\ DOMAIN (U \o F) = 1 .. Len(U) + Len(F)
      BY ConcatIs
    <3>2. i - Len(U) = Len(F)
      BY <2>1, <2>2, <3>1
    <3> QED BY <3>1, <3>2
  <2> QED BY <1>1, <2>1, <2>2 DEF OpenLast
<1> QED BY <1>2, <1>3

\* A call issued on a ready session, behind no open.
LEMMA TransactOpens ==
  ASSUME TInv, LInv, NEW n \in Commits, Transact(n)
  PROVE  OpensLast'
<1>1. /\ conn' = conn /\ client.conn \in Conns
      /\ \A j \in Conns : j # client.conn => toServer'[j] = toServer[j]
      /\ \/ client.at = "ready" /\ toServer'[client.conn] = toServer[client.conn] \o <<CommitFrame(n)>>
         \/ toServer'[client.conn] = toServer[client.conn]
  <2>1. client.conn \in Conns
    BY DEF TInv, TypeOK, ClientStates
  <2> QED BY <2>1, TransactIs
<1>2. \A j \in Conns : OpenLast(Queue(conn[j], toServer[j]), AskWork(conn[j].work))
  BY DEF LInv, OpensLast
<1>3. CASE client.at = "ready" /\ toServer'[client.conn] = toServer[client.conn] \o <<CommitFrame(n)>>
  <2>1. ~ Asks(Queue(conn[client.conn], toServer[client.conn]),
               AskWork(conn[client.conn].work), toClient[client.conn], OpenAsk)
    BY <1>3, AskNumbers DEF LInv, LiveLine, Live, Line, Phase
  <2>2. PICK f \in Requests : f = CommitFrame(n)
    BY FrameTypes
  <2>3. AskUp(f) = n
    BY <2>2 DEF CommitFrame, AskUp
  <2>4. PICK F \in Seq(Requests) : F = <<f>>
    BY OneFrame
  <2>5. \A i \in DOMAIN F : AskUp(F[i]) = OpenAsk => i = Len(F)
    BY <2>4, OneFrame
  <2>6. conn[client.conn].closed \in BOOLEAN /\ toServer[client.conn] \in Seq(Requests)
    BY <1>1, ConnTyped
  <2>7. OpenLast(Queue(conn[client.conn], toServer[client.conn] \o F), AskWork(conn[client.conn].work))
    BY <2>1, <2>5, <2>6, OpenLastSends
  <2>8. toServer'[client.conn] = toServer[client.conn] \o F
    BY <1>3, <2>2, <2>4
  <2> QED BY <1>1, <1>2, <2>7, <2>8 DEF OpensLast
<1>4. CASE toServer'[client.conn] = toServer[client.conn]
  BY <1>1, <1>2, <1>4 DEF OpensLast
<1> QED BY <1>1, <1>3, <1>4

\* A restore's open is the last of its line.
LEMMA RestoreOpens ==
  ASSUME TInv, LInv, NEW k \in Conns, client.conn <= k, Restore(k),
         ~ Asks(Queue(conn[k], toServer[k]), AskWork(conn[k].work), toClient[k], OpenAsk)
  PROVE  OpensLast'
<1>1. /\ conn' = conn
      /\ \A j \in Conns : j # k => toServer'[j] = toServer[j]
      /\ toServer'[k] = toServer[k] \o <<OpenFrame(client.token, client.attempt + 1)>>
  BY RestoreIs
<1>2. \A j \in Conns : OpenLast(Queue(conn[j], toServer[j]), AskWork(conn[j].work))
  BY DEF LInv, OpensLast
<1>3. PICK f \in Requests : f = OpenFrame(client.token, client.attempt + 1)
  <2>1. client.token \in Nat /\ client.attempt + 1 \in Nat
    BY DEF TInv, TypeOK, ClientStates
  <2> QED BY <2>1, FrameTypes
<1>4. PICK F \in Seq(Requests) : F = <<f>>
  BY OneFrame
<1>5. \A i \in DOMAIN F : AskUp(F[i]) = OpenAsk => i = Len(F)
  BY <1>4, OneFrame
<1>6. conn[k].closed \in BOOLEAN /\ toServer[k] \in Seq(Requests)
  BY ConnTyped
<1>7. OpenLast(Queue(conn[k], toServer[k] \o F), AskWork(conn[k].work))
  BY <1>5, <1>6, OpenLastSends
<1>8. toServer'[k] = toServer[k] \o F
  BY <1>1, <1>3, <1>4
<1> QED BY <1>1, <1>2, <1>7, <1>8 DEF OpensLast

\* A reconnect and a retry send one open, last.
LEMMA ReopenOpens ==
  ASSUME TInv, LInv, Reconnect \/ RetryHeld
  PROVE  OpensLast'
<1>0. OpenAsk \in 0 .. NoAsk
  BY AskNumbers
<1>1. CASE Reconnect
  <2>1. client.conn + 1 \in Conns /\ client.conn <= client.conn + 1
    BY <1>1, ReconnectConn
  <2>2. client.conn + 1 > client.conn
    BY DEF TInv, TypeOK, ClientStates, Conns
  <2> QED BY <1>1, <2>1, <2>2, RestoreOpens, FreshLine DEF Reconnect
<1>2. CASE RetryHeld
  <2>1. client.conn \in Conns /\ client.conn <= client.conn
    BY DEF TInv, TypeOK, ClientStates, Conns
  <2>2. ~ Asks(Queue(conn[client.conn], toServer[client.conn]),
               AskWork(conn[client.conn].work), toClient[client.conn], OpenAsk)
    BY <1>0, <1>2, HeldLine DEF RetryHeld
  <2> QED BY <1>2, <2>1, <2>2, RestoreOpens DEF RetryHeld
<1> QED BY <1>1, <1>2

\* The client takes an answer: its line stays in order, and opens stay last.
LEMMA ReceiveLine ==
  ASSUME TInv, LInv, Receive
  PROVE  LiveLine' /\ OpensLast'
<1> DEFINE k == client.conn
           c == conn[k]
           U == toServer[k]
           x == AskWork(conn[k].work)
           D == toClient[k]
           m == Head(D)
           y == AskDown(m)
<1>1. /\ k \in Conns /\ conn' = conn /\ D \in Seq(Responses) /\ D # <<>> /\ m \in Responses
      /\ toClient'[k] = Tail(D) /\ Live
  BY ReceiveIs
<1>2. /\ c.closed \in BOOLEAN /\ U \in Seq(Requests) /\ x \in 0 .. NoAsk
      /\ Tail(D) \in Seq(Responses)
  <2>1. Issued
    BY DEF LInv
  <2> QED BY <1>1, <2>1, LineTyped, ConnTyped, TailIs
<1>3. /\ client.at \in {"ready", "opening", "restoring", "held"}
      /\ client.awaiting \in SUBSET (Commits \cup {0}) /\ client \in ClientStates
  BY <1>1 DEF TInv, TypeOK, ClientStates, Live
<1>4. Line(client.at, client.awaiting, Queue(c, U), x, D)
  BY <1>1 DEF LInv, LiveLine
<1>5. \A j \in Conns : OpenLast(Queue(conn[j], toServer[j]), AskWork(conn[j].work))
  BY DEF LInv, OpensLast
<1>6. /\ Orderly(Queue(c, U), x, Tail(D))
      /\ \A a \in 0 .. NoAsk : Asks(Queue(c, U), x, Tail(D), a) =>
           Phase(client.at, client.awaiting, a) /\ a # y
      /\ y = OpenAsk => client.at = "opening"
      /\ y = 0 => client.at = "restoring"
      /\ y \in Commits => client.at \in {"ready", "restoring"}
      /\ y \in {OpenAsk, 0} => \A a \in 0 .. NoAsk : ~ Asks(Queue(c, U), x, Tail(D), a)
  <2> HIDE DEF k, c, U, x, D
  <2> QED BY <1>1, <1>3, <1>4, LineAnswered
<1>7. ASSUME NEW F \in Seq(Requests), client'.conn = k, toServer'[k] = U \o F,
             \A j \in Conns : j # k => toServer'[j] = toServer[j],
             \A a \in 0 .. NoAsk : ~ Asks(Queue(c, U), x, Tail(D), a),
             \A i, j \in DOMAIN F : AskUp(F[i]) = AskUp(F[j]) => i = j,
             \A i \in DOMAIN F : AskUp(F[i]) = 0 => i = Len(F),
             \A i \in DOMAIN F : AskUp(F[i]) # OpenAsk,
             \A i \in DOMAIN F : Phase(client'.at, client'.awaiting, AskUp(F[i]))
      PROVE  LiveLine' /\ OpensLast'
  <2>1. ASSUME NEW at, NEW aw
        PROVE  (\A i \in DOMAIN F : Phase(at, aw, AskUp(F[i])))
                 => Line(at, aw, Queue(c, U \o F), x, Tail(D))
    <3>1. /\ F \in Seq(Requests) /\ Orderly(Queue(c, U), x, Tail(D))
          /\ \A a \in 0 .. NoAsk : ~ Asks(Queue(c, U), x, Tail(D), a)
          /\ \A i, j \in DOMAIN F : AskUp(F[i]) = AskUp(F[j]) => i = j
          /\ \A i \in DOMAIN F : AskUp(F[i]) = 0 => i = Len(F)
      BY <1>6, <1>7
    <3>2. PICK E \in Seq(Responses) : E = Tail(D)
      BY <1>2
    <3>4. /\ c.closed \in BOOLEAN /\ U \in Seq(Requests) /\ x \in 0 .. NoAsk
          /\ Orderly(Queue(c, U), x, E) /\ \A a \in 0 .. NoAsk : ~ Asks(Queue(c, U), x, E, a)
      BY <1>2, <3>1, <3>2
    <3> HIDE DEF k, c, U, x, D
    <3>3. (\A i \in DOMAIN F : Phase(at, aw, AskUp(F[i])))
            => Line(at, aw, Queue(c, U \o F), x, E)
      BY <3>1, <3>4, SendLine
    <3> QED BY <3>2, <3>3
  <2>2. Line(client'.at, client'.awaiting, Queue(c, U \o F), x, Tail(D))
    BY <1>7, <2>1
  <2>3. OpenLast(Queue(c, U \o F), x)
    <3>1. ~ Asks(Queue(c, U), x, Tail(D), OpenAsk)
      BY <1>7, AskNumbers
    <3> HIDE DEF k, c, U, x, D
    <3> QED BY <1>2, <1>7, <3>1, OpenLastSends
  <2>4. LiveLine'
    BY <1>1, <1>7, <2>2 DEF LiveLine
  <2>5. OpensLast'
    BY <1>1, <1>5, <1>7, <2>3 DEF OpensLast
  <2> QED BY <2>4, <2>5
<1>8. ASSUME toServer' = toServer \/ \A j \in Conns : toServer'[j] = toServer[j]
      PROVE  OpensLast'
  BY <1>1, <1>5, <1>8 DEF OpensLast
<1>9. CASE m.type = "opened"
  <2>1. /\ client'.conn = client.conn
        /\ client'.at = IF client'.awaiting = {} THEN "ready" ELSE "restoring"
        /\ \A j \in Conns : j # client.conn => toServer'[j] = toServer[j]
        /\ client' \in ClientStates
    BY <1>9, ReopenedIs
  <2>2. PICK F \in Seq(Requests) : /\ toServer'[client.conn] = toServer[client.conn] \o F
                                   /\ Batch(F, client'.awaiting, told)
    BY <1>9, ReopenedIs
  <2>3. y = OpenAsk
    BY <1>1, <1>9, AskDownIs
  <2>4. client'.awaiting \in SUBSET (Commits \cup {0})
    BY <2>1 DEF ClientStates
  <2>5. /\ \A i \in DOMAIN F : AskUp(F[i]) # OpenAsk
        /\ \A i \in DOMAIN F : Phase(client'.at, client'.awaiting, AskUp(F[i]))
    BY <2>1, <2>2, <2>4, AskNumbers DEF Batch, Phase
  <2> QED BY <1>6, <1>7, <2>1, <2>2, <2>3, <2>5 DEF Batch
<1>10. ASSUME NEW now, Settled(y, now), y \in Commits \cup {0}
       PROVE  LiveLine' /\ OpensLast'
  <2>1. client'.conn = client.conn /\ client'.awaiting = client.awaiting \ {y}
        /\ \A j \in Conns : j # client.conn => toServer'[j] = toServer[j]
    BY <1>10 DEF Settled
  <2>2. CASE /\ client.at = "restoring" /\ client'.awaiting = {} /\ client'.at = "ready"
             /\ \E F \in Seq(Requests) : /\ toServer'[client.conn] = toServer[client.conn] \o F
                                         /\ Batch(F, Commits, now)
    <3>1. PICK F \in Seq(Requests) : /\ toServer'[client.conn] = toServer[client.conn] \o F
                                     /\ Batch(F, Commits, now)
      BY <2>2
    <3>2. \A a \in 0 .. NoAsk : ~ Asks(Queue(c, U), x, Tail(D), a)
      BY <1>6, <2>1, <2>2 DEF Phase
    <3>3. /\ \A i \in DOMAIN F : AskUp(F[i]) # OpenAsk
          /\ \A i \in DOMAIN F : Phase(client'.at, client'.awaiting, AskUp(F[i]))
      BY <2>2, <3>1, AskNumbers DEF Batch, Phase
    <3> QED BY <1>7, <2>1, <3>1, <3>2, <3>3 DEF Batch
  <2>3. CASE /\ ~ (client.at = "restoring" /\ client'.awaiting = {})
             /\ client'.at = client.at
             /\ toServer'[client.conn] = toServer[client.conn]
    <3>1. client.at \in {"ready", "restoring"}
      BY <1>6, <1>10
    <3>2. \A a \in 0 .. NoAsk : Asks(Queue(c, U), x, Tail(D), a) =>
            Phase(client'.at, client'.awaiting, a)
      BY <1>6, <2>1, <2>3, <3>1 DEF Phase
    <3>3. Line(client'.at, client'.awaiting, Queue(c, U), x, Tail(D))
      BY <1>6, <3>2 DEF Line
    <3>4. LiveLine'
      BY <1>1, <2>1, <2>3, <3>3 DEF LiveLine
    <3> QED BY <1>8, <2>1, <2>3, <3>4
  <2> QED BY <1>10, <2>2, <2>3 DEF Settled
<1>11. CASE m.type = "verdict"
  <2>1. Settled(m.commit, Told(m.commit, m.how)) /\ y = m.commit /\ m.commit \in Commits
    BY <1>1, <1>11, ReceiveCases, AskDownIs DEF Terminal
  <2> QED BY <1>10, <2>1
<1>12. CASE GivenUp("held") /\ ~ Terminal(m) /\ m.type \in {"watched", "refused"}
  <2>1. client'.at = "held" /\ client'.conn = client.conn /\ toServer' = toServer
    BY <1>12 DEF GivenUp
  <2>2. y \in {OpenAsk, 0}
    BY <1>1, <1>12, AskDownIs
  <2>3. Line(client'.at, client'.awaiting, Queue(c, U), x, Tail(D))
    BY <1>6, <2>2 DEF Line
  <2>4. LiveLine'
    BY <1>1, <2>1, <2>3 DEF LiveLine
  <2> QED BY <1>8, <2>1, <2>4
<1>13. CASE m.type = "watched" /\ Settled(0, told)
  <2>1. y = 0
    BY <1>1, <1>13, AskDownIs
  <2> QED BY <1>10, <1>13, <2>1
<1>14. CASE GivenUp("ended")
  <2>1. client'.at = "ended" /\ toServer' = toServer
    BY <1>14 DEF GivenUp
  <2> QED BY <1>8, <2>1 DEF LiveLine, Live
<1> QED BY <1>9, <1>11, <1>12, <1>13, <1>14, ReceiveCases

\* One step keeps the lines in order.
LEMMA LineStep ==
  ASSUME TInv, LInv, [Next]_vars
  PROVE  LInv'
<1>1. SUFFICES LiveLine' /\ OpensLast'
  <2>1. Issued'
    BY IssuedStep DEF LInv
  <2> QED BY <2>1 DEF LInv
<1>2. client.conn \in Conns
  BY DEF TInv, TypeOK, ClientStates
<1>3. ASSUME NEW n \in Commits, Transact(n) PROVE LiveLine' /\ OpensLast'
  BY <1>3, TransactLine, TransactOpens
<1>4. CASE Drop
  <2>1. client'.at = "down" /\ conn' = conn /\ toServer' = toServer
    BY <1>4, DropIs
  <2> QED BY <2>1 DEF LiveLine, Live, OpensLast, LInv
<1>5. CASE Reconnect \/ RetryHeld
  BY <1>5, ReopenLine, ReopenOpens
<1>6. CASE Receive
  BY <1>6, ReceiveLine
<1>7. ASSUME NEW k \in Conns, ServerStep(k) PROVE LiveLine' /\ OpensLast'
  BY <1>2, <1>7, ServerEases, EasedStep
<1>8. CASE (\E k \in Conns : Close(k)) \/ Expire \/ Deauthorize \/ Restart
  BY <1>2, <1>8, TroubleEases, EasedStep
<1>9. CASE UNCHANGED vars
  BY <1>9 DEF vars, LInv, LiveLine, OpensLast, Live
<1>10. CASE WriteChange
  BY <1>10, WriteChangeIs DEF LInv, LiveLine, OpensLast, Live
<1> QED BY <1>3, <1>4, <1>5, <1>6, <1>7, <1>8, <1>9, <1>10 DEF Next, WriteChange

-----------------------------------------------------------------------------
(* Types, minted tokens, issued commits, one owner                          *)

\* The session starts on its first connection, with nothing sent.
LEMMA InitHolds ==
  ASSUME Init
  PROVE  TInv /\ Issued /\ OwnerAgrees
<1>1. 1 \in Conns /\ MaxConns \in Nat
  BY SessionAssumption DEF Conns
<1>2. /\ client.at = "ready" /\ client.conn = 1 /\ client.token = 1
      /\ client \in ClientStates
  BY <1>1 DEF Init, ClientStates
<1>3. told \in [Commits -> {"unissued", "waiting", "accepted", "refused", "denied", "lost"}]
  BY DEF Init
<1>4. /\ toServer \in [Conns -> Seq(Requests)] /\ toClient \in [Conns -> Seq(Responses)]
      /\ \A k \in Conns : toServer[k] = <<>> /\ toClient[k] = <<>>
  BY DEF Init
<1>5. /\ session \in SessionStates /\ session.token = 1 /\ session.presented = 0
      /\ session.owner = 1
  BY <1>1 DEF Init, SessionStates
<1>6. Idle \in Works /\ Idle.at = "idle" /\ Idle.token = 0
  BY IdleIs
<1>7. /\ conn \in [Conns -> ConnStates]
      /\ \A k \in Conns : /\ conn[k].work = Idle /\ ~ conn[k].closed /\ conn[k].handle = (k = 1)
                          /\ k # 1 => conn[k] = [closed |-> FALSE, handle |-> FALSE, work |-> Idle]
  <2> HIDE DEF Idle
  <2> QED BY <1>6 DEF Init, ConnStates
<1>8. minted = 1 /\ applied = {} /\ access = TRUE /\ write = "granted" /\ budget \in Nat
  BY SessionAssumption DEF Init
<1>9. TypeOK
  <2>1. \A k \in Conns : k > 1 => k # 1
    BY DEF Conns
  <2> QED BY <1>1, <1>2, <1>3, <1>4, <1>5, <1>6, <1>7, <1>8, <2>1 DEF TypeOK
<1>10. TokensMinted
  BY <1>4, <1>6, <1>7 DEF TokensMinted
<1>11. Issued
  BY <1>4, <1>6, <1>7 DEF Issued, IssuedUp, IssuedWork, IssuedDown
<1>12. OwnerAgrees
  <2>1. /\ session.owner # 0 => conn[session.owner].handle /\ ~ conn[session.owner].closed
    BY <1>1, <1>5, <1>7
  <2>2. ASSUME NEW k \in Conns, conn[k].handle PROVE k = 1
    <3>1. conn[k].handle = (k = 1)
      BY <1>7
    <3> QED BY <3>1, <2>2
  <2> QED BY <1>5, <2>1, <2>2 DEF OwnerAgrees
<1> QED BY <1>9, <1>10, <1>11, <1>12 DEF TInv

\* One step keeps the types and every token minted.
LEMMA TypeStep ==
  ASSUME TInv, Issued, [Next]_vars
  PROVE  TInv'
<1>1. ASSUME NEW n \in Commits, Transact(n) PROVE TInv'
  BY <1>1, TransactIs
<1>2. CASE Drop
  BY <1>2, DropIs
<1>3. CASE Reconnect \/ RetryHeld
  <2>1. client.conn \in Conns /\ client.conn <= client.conn
    BY DEF TInv, TypeOK, ClientStates, Conns
  <2>2. CASE Reconnect
    BY <2>2, RestoreIs, ReconnectConn DEF Reconnect
  <2>3. CASE RetryHeld
    BY <2>1, <2>3, RestoreIs DEF RetryHeld
  <2> QED BY <1>3, <2>2, <2>3
<1>4. CASE Receive
  <2>1. CASE Head(toClient[client.conn]).type = "opened"
    BY <1>4, <2>1, ReopenedIs
  <2>2. CASE Head(toClient[client.conn]).type # "opened"
    BY <1>4, <2>2, ReceiveCases DEF Settled, GivenUp
  <2> QED BY <2>1, <2>2
<1>5. ASSUME NEW k \in Conns, ServerStep(k) PROVE TInv'
  <2>1. CASE BeginOpen(k)
    BY <2>1, BeginOpenIs
  <2>2. CASE RefuseOpen(k)
    BY <2>2, RefuseOpenIs
  <2>3. CASE AdmitOpen(k)
    BY <2>3, AdmitOpenIs
  <2>4. CASE FinishOpen(k)
    BY <2>4, FinishOpenIs
  <2>5. CASE BeginTransact(k)
    BY <2>5, BeginTransactIs
  <2>6. CASE DecideTransact(k)
    <3>1. conn[k].work.commit \in Commits
      BY <2>6 DEF DecideTransact, Issued, IssuedWork
    <3> QED BY <2>6, <3>1, DecideTransactIs
  <2>7. CASE WatchSet(k)
    BY <2>7, WatchSetIs
  <2> QED BY <1>5, <2>1, <2>2, <2>3, <2>4, <2>5, <2>6, <2>7 DEF ServerStep
<1>6. ASSUME NEW k \in Conns, Close(k) PROVE TInv'
  BY <1>6, CloseIs
<1>7. CASE Expire
  BY <1>7, ExpireIs
<1>8. CASE Deauthorize
  BY <1>8, DeauthorizeIs
<1>9. CASE Restart
  BY <1>9, RestartIs
<1>10. CASE UNCHANGED vars
  BY <1>10 DEF vars, TInv, TypeOK, TokensMinted, Waiting
<1>11. CASE WriteChange
  BY <1>11, WriteChangeIs
<1> QED BY <1>1, <1>2, <1>3, <1>4, <1>5, <1>6, <1>7, <1>8, <1>9, <1>10, <1>11 DEF Next, WriteChange

-----------------------------------------------------------------------------
(* The registry against the opens still in hand and what the client holds.   *)

\* An open that presents token t under attempt a is still to be judged.
Pending(c, U, t, a) ==
  \/ ~ c.closed /\ \E i \in DOMAIN U : U[i].type = "open" /\ U[i].token = t /\ U[i].attempt = a
  \/ c.work.at = "admission" /\ c.work.token = t /\ c.work.attempt = a

\* Token t is on its way to the client.
Answering(c, D, t) ==
  \/ c.work.at = "catch-up" /\ c.work.token = t
  \/ \E i \in DOMAIN D : D[i].type = "opened" /\ D[i].token = t

\* An open under an attempt the session has seen, or an earlier one.
Behind(s, a) == s.token # 0 /\ a <= s.attempt

Judged(cl, s, acc, k, t, a) ==
  /\ a <= cl.attempt
  /\ k < cl.conn => a < cl.attempt
  /\ k = cl.conn => t = cl.token /\ a = cl.attempt /\ s.attempt < cl.attempt
  /\ Behind(s, a) => t < s.token
  /\ acc => Behind(s, a) \/ t = cl.token
  /\ acc /\ s.owner = cl.conn /\ k # cl.conn => Behind(s, a)

AllJudged ==
  \A k \in Conns : \A t, a \in Nat :
    Pending(conn[k], toServer[k], t, a) => Judged(client, session, access, k, t, a)

\* The client can resume what the registry holds.
CanResume ==
  /\ session.attempt <= client.attempt
  /\ access => session.token = 0 \/ client.token \in {session.token, session.presented}
  /\ ~ access => session.token = 0

\* A token on its way to the client is the session's, and nothing in hand can
\* replace it.
AnswerStands ==
  Live /\ access =>
    \A t \in Nat : Answering(conn[client.conn], toClient[client.conn], t) =>
      \/ session.token = t /\ session.attempt = client.attempt
      \/ /\ session.token = 0
         /\ \A k \in Conns : \A u, a \in Nat : ~ Pending(conn[k], toServer[k], u, a)

\* The server has opened the session for the client's connection.
Past ==
  /\ Live /\ ~ conn[client.conn].closed
  /\ \/ client.at \in {"ready", "restoring"}
     \/ \E t \in Nat : Answering(conn[client.conn], toClient[client.conn], t)

OwnerHeld == Past /\ access => session.owner = client.conn

NoneTerminal ==
  Live /\ access => \A i \in DOMAIN toClient[client.conn] : ~ Terminal(toClient[client.conn][i])

RInv == AllJudged /\ CanResume /\ AnswerStands /\ OwnerHeld /\ NoneTerminal /\ NotLockedOut

-----------------------------------------------------------------------------
(* Verdicts.                                                                 *)

\* A client that is told of its session's end is told before anything else it
\* hears about its commits.
EndTold ==
  Past /\ ~ access => \E i \in DOMAIN toClient[client.conn] : Terminal(toClient[client.conn][i])

\* The commit in hand on the client's connection came from the session held.
HandHolds ==
  Live /\ access /\ ~ conn[client.conn].closed /\ conn[client.conn].work.at = "transact"
    => conn[client.conn].work.token = session.token

\* A commit in hand under the session held is its owner's.
HandOwned ==
  \A k \in Conns :
    conn[k].work.at = "transact" /\ session.token # 0 /\ conn[k].work.token = session.token
      => session.owner \in {0, k}

\* No copy of commit n can be applied any more.
DeadAt(s, c, U, n) ==
  /\ ~ c.closed /\ c.handle => \A i \in DOMAIN U : AskUp(U[i]) # n
  /\ c.work.at = "transact" /\ c.work.commit = n => s.token = 0 \/ c.work.token # s.token

Final(n) == \A k \in Conns : DeadAt(session, conn[k], toServer[k], n)

\* Commit n can be applied no more, and the answer it was given is the truth.
Over(n, how) ==
  /\ Final(n)
  /\ how = "refused" => n \notin applied
  /\ how = "denied" => write # "granted"

ToldTrue ==
  \A n \in Commits :
    /\ told[n] = "accepted" => n \in applied
    /\ \A how \in {"refused", "denied"} : told[n] = how => Over(n, how)
    /\ told[n] = "lost" => client.at = "ended"

AcceptedTrue ==
  \A k \in Conns : \A i \in DOMAIN toClient[k] :
    toClient[k][i].type = "verdict" /\ toClient[k][i].how = "accepted" => toClient[k][i].commit \in applied

\* Frame i refuses or denies commit n, and nothing before it ends the session.
RefusedAt(D, i, n, how) ==
  /\ D[i].type = "verdict" /\ D[i].how = how /\ D[i].commit = n
  /\ \A j \in DOMAIN D : j < i => ~ Terminal(D[j])

RefusedFinal ==
  Live => \A n \in Commits : \A how \in {"refused", "denied"} :
            \A i \in DOMAIN toClient[client.conn] :
              RefusedAt(toClient[client.conn], i, n, how) => Over(n, how)

VInv ==
  EndTold /\ HandHolds /\ HandOwned /\ ToldTrue /\ AcceptedTrue /\ RefusedFinal

-----------------------------------------------------------------------------
(* The registry and the client's token, step by step                       *)

\* What an open in the queue or in hand asks of its line, and what is on its way
\* to the client.
LEMMA OpenAsks ==
  ASSUME NEW c \in ConnStates, NEW U \in Seq(Requests), NEW D \in Seq(Responses)
  PROVE  /\ \A t, a \in Nat : Pending(c, U, t, a) => Asks(Queue(c, U), AskWork(c.work), D, OpenAsk)
         /\ \A t \in Nat : Answering(c, D, t) => Asks(Queue(c, U), AskWork(c.work), D, OpenAsk)
         /\ \A t, u, a \in Nat : Answering(c, D, t) /\ Pending(c, U, u, a)
              => ~ Orderly(Queue(c, U), AskWork(c.work), D)
<1>1. \A i \in DOMAIN U : U[i].type = "open" => AskUp(U[i]) = OpenAsk
  BY DEF AskUp
<1>2. \A i \in DOMAIN D : D[i].type = "opened" => AskDown(D[i]) = OpenAsk
  <2>1. \A i \in DOMAIN D : D[i] \in Responses
    OBVIOUS
  <2> QED BY <2>1, AskDownIs
<1>3. c.work.at \in {"admission", "catch-up"} => AskWork(c.work) = OpenAsk
  BY DEF AskWork
<1>4. OpenAsk # NoAsk
  BY AskNumbers
<1>5. ASSUME NEW t \in Nat, NEW a \in Nat, Pending(c, U, t, a)
      PROVE  \/ \E i \in DOMAIN Queue(c, U) : AskUp(Queue(c, U)[i]) = OpenAsk
             \/ AskWork(c.work) = OpenAsk /\ c.work.at # "catch-up"
  BY <1>1, <1>3, <1>5 DEF Pending, Queue
<1>6. ASSUME NEW t \in Nat, Answering(c, D, t)
      PROVE  \/ AskWork(c.work) = OpenAsk /\ c.work.at = "catch-up"
             \/ \E i \in DOMAIN D : AskDown(D[i]) = OpenAsk
  BY <1>2, <1>3, <1>6 DEF Answering
<1>7. ASSUME NEW t \in Nat, NEW u \in Nat, NEW a \in Nat, Answering(c, D, t), Pending(c, U, u, a),
             Orderly(Queue(c, U), AskWork(c.work), D)
      PROVE  FALSE
  <2>1. Distinct(Queue(c, U), AskWork(c.work), D)
    BY <1>7 DEF Orderly
  <2> QED BY <1>4, <1>5, <1>6, <1>7, <2>1 DEF Distinct
<1> QED BY <1>4, <1>5, <1>6, <1>7 DEF Asks

\* Every connection's part of the state has its type.
LEMMA LinesTyped ==
  ASSUME TInv
  PROVE  /\ \A k \in Conns : conn[k] \in ConnStates /\ toServer[k] \in Seq(Requests)
                             /\ toClient[k] \in Seq(Responses)
         /\ client.conn \in Conns
BY ConnTyped DEF TInv, TypeOK, ClientStates

\* While an answer is on its way to the client, none of its opens is pending on
\* the same connection.
LEMMA OneOpen ==
  ASSUME TInv, LInv, Live, NEW t \in Nat, Answering(conn[client.conn], toClient[client.conn], t)
  PROVE  \A u, a \in Nat : ~ Pending(conn[client.conn], toServer[client.conn], u, a)
<1>1. Orderly(Queue(conn[client.conn], toServer[client.conn]), AskWork(conn[client.conn].work),
              toClient[client.conn])
  BY DEF LInv, LiveLine, Line
<1> QED BY <1>1, OpenAsks, LinesTyped

\* A request in hand or on its way on the client's connection is one of a client
\* past its opening, unless it is an open.
LEMMA AskedPast ==
  ASSUME TInv, LInv, Live, ~ conn[client.conn].closed, NEW a \in 0 .. NoAsk, a # OpenAsk,
         Asks(toServer[client.conn], AskWork(conn[client.conn].work), toClient[client.conn], a)
  PROVE  Past
<1>1. Queue(conn[client.conn], toServer[client.conn]) = toServer[client.conn]
  BY DEF Queue
<1>2. Phase(client.at, client.awaiting, a)
  BY <1>1 DEF LInv, LiveLine, Line
<1>3. client.at \in {"ready", "opening", "restoring", "held"}
  BY DEF TInv, TypeOK, ClientStates, Live
<1>4. client.at \in {"ready", "restoring"}
  BY <1>2, <1>3 DEF Phase
<1> QED BY <1>4 DEF Past

\* Nothing new is pending, or on its way to the client.
Fewer ==
  /\ \A k \in Conns : \A t, a \in Nat :
       Pending(conn'[k], toServer'[k], t, a) => Pending(conn[k], toServer[k], t, a)
  /\ \A t \in Nat : Answering(conn'[client.conn], toClient'[client.conn], t)
                      => Answering(conn[client.conn], toClient[client.conn], t)
  /\ conn[client.conn].closed => conn'[client.conn].closed

\* The client keeps what its opens present.
SameClient ==
  /\ client'.conn = client.conn /\ client'.token = client.token
  /\ client'.attempt = client.attempt
  /\ client'.at \notin {"down", "ended"} => Live
  /\ client'.at \in {"ready", "restoring"} => client.at \in {"ready", "restoring"}

\* A step that leaves the session and the client's token alone, makes nothing
\* new pending and sends the client no end.
LEMMA QuietStep ==
  ASSUME TInv, RInv, Fewer, SameClient, access' = access,
         session'.token = session.token, session'.attempt = session.attempt,
         session'.presented = session.presented, session'.owner \in {session.owner, 0},
         session'.owner = session.owner \/ (Past' => ~ access),
         NoneTerminal', NotLockedOut'
  PROVE  RInv'
<1>1. client.conn \in Conns /\ client.conn # 0
  BY ConnTyped, LinesTyped
<1>2. AllJudged'
  <2>1. SUFFICES ASSUME NEW k \in Conns, NEW t \in Nat, NEW a \in Nat,
                        Pending(conn'[k], toServer'[k], t, a)
                 PROVE  Judged(client', session', access', k, t, a)
    BY DEF AllJudged
  <2>2. Judged(client, session, access, k, t, a)
    BY <2>1 DEF Fewer, RInv, AllJudged
  <2> QED BY <1>1, <2>2 DEF Judged, Behind, SameClient
<1>3. CanResume'
  BY DEF RInv, CanResume, SameClient
<1>4. Past' => Past
  BY DEF Past, Fewer, SameClient, Live
<1>5. AnswerStands'
  BY DEF RInv, AnswerStands, Fewer, SameClient, Live
<1>6. OwnerHeld'
  BY <1>4 DEF RInv, OwnerHeld, SameClient
<1> QED BY <1>2, <1>3, <1>5, <1>6 DEF RInv

\* A step that leaves the client alone and answers at most one request, on
\* connection k with frame f.
Answers(k, f) ==
  /\ client' = client
  /\ \A j \in Conns : j # k => toClient'[j] = toClient[j]
  /\ toClient'[k] = toClient[k] \/ toClient'[k] = Append(toClient[k], f)
  /\ \A j \in Conns : conn'[j].closed = conn[j].closed
  /\ \A j \in Conns : \A i \in DOMAIN toServer'[j] :
       \E l \in DOMAIN toServer[j] : toServer'[j][i] = toServer[j][l]
  /\ \A j \in Conns : conn'[j].work.at = "catch-up" => conn'[j].work = conn[j].work
  /\ \A j \in Conns : conn'[j].work.at = "admission" =>
       \/ conn'[j].work = conn[j].work
       \/ Pending(conn[j], toServer[j], conn'[j].work.token, conn'[j].work.attempt)

\* The frames on their way to the client are those before it, and f.
LEMMA AnswerHeard ==
  ASSUME TInv, NEW k \in Conns, NEW f \in Responses, Answers(k, f)
  PROVE  \A i \in DOMAIN toClient'[client.conn] :
           \/ \E j \in DOMAIN toClient[client.conn] : toClient'[client.conn][i] = toClient[client.conn][j]
           \/ k = client.conn /\ toClient'[client.conn][i] = f
<1> DEFINE D == toClient[client.conn]
           E == toClient'[client.conn]
<1>1. client.conn \in Conns /\ D \in Seq(Responses)
  BY LinesTyped
<1>2. CASE E = D
  BY <1>2
<1>3. CASE k = client.conn /\ E = Append(D, f)
  <2>1. \A i \in DOMAIN Append(D, f) :
          (i \in DOMAIN D /\ Append(D, f)[i] = D[i]) \/ (i = Len(D) + 1 /\ Append(D, f)[i] = f)
    BY <1>1, AppendIs
  <2> QED BY <1>3, <2>1
<1> QED BY <1>1, <1>2, <1>3 DEF Answers

\* Such a step is quiet, unless the frame ends the client's session.
LEMMA QuietAnswer ==
  ASSUME TInv, RInv, NEW k \in Conns, NEW f \in Responses, Answers(k, f), access' = access,
         session'.token = session.token, session'.attempt = session.attempt,
         session'.presented = session.presented, session'.owner \in {session.owner, 0},
         session'.owner = session.owner \/ (Past' => ~ access),
         f.type = "opened" => Answering(conn[k], toClient[k], f.token),
         Terminal(f) /\ k = client.conn => ~ (Live /\ access)
  PROVE  RInv'
<1>1. client.conn \in Conns
  BY LinesTyped
<1>2. ASSUME NEW j \in Conns, NEW t \in Nat, NEW a \in Nat, Pending(conn'[j], toServer'[j], t, a)
      PROVE  Pending(conn[j], toServer[j], t, a)
  <2>1. CASE ~ conn'[j].closed /\ \E i \in DOMAIN toServer'[j] :
               toServer'[j][i].type = "open" /\ toServer'[j][i].token = t /\ toServer'[j][i].attempt = a
    BY <2>1 DEF Answers, Pending
  <2>2. CASE conn'[j].work.at = "admission" /\ conn'[j].work.token = t /\ conn'[j].work.attempt = a
    BY <2>2 DEF Answers, Pending
  <2> QED BY <1>2, <2>1, <2>2 DEF Pending
<1>3. ASSUME NEW t \in Nat, Answering(conn'[client.conn], toClient'[client.conn], t)
      PROVE  Answering(conn[client.conn], toClient[client.conn], t)
  <2>1. CASE conn'[client.conn].work.at = "catch-up" /\ conn'[client.conn].work.token = t
    BY <1>1, <2>1 DEF Answers, Answering
  <2>2. CASE \E i \in DOMAIN toClient'[client.conn] :
               toClient'[client.conn][i].type = "opened" /\ toClient'[client.conn][i].token = t
    BY <2>2, AnswerHeard DEF Answering
  <2> QED BY <1>3, <2>1, <2>2 DEF Answering
<1>4. Fewer
  BY <1>1, <1>2, <1>3 DEF Fewer, Answers
<1>5. SameClient
  BY DEF SameClient, Answers, Live
<1>6. NoneTerminal'
  <2>1. SUFFICES ASSUME Live, access, NEW i \in DOMAIN toClient'[client.conn]
                 PROVE  ~ Terminal(toClient'[client.conn][i])
    BY DEF NoneTerminal, Answers, Live
  <2>2. \A j \in DOMAIN toClient[client.conn] : ~ Terminal(toClient[client.conn][j])
    BY <2>1 DEF RInv, NoneTerminal
  <2> QED BY <2>1, <2>2, AnswerHeard
<1>7. NotLockedOut'
  BY DEF RInv, NotLockedOut, Answers
<1> QED BY <1>4, <1>5, <1>6, <1>7, QuietStep

\* The steps that only take or answer a request answer at most that.
LEMMA PlainAnswers ==
  ASSUME TInv, LInv, NEW k \in Conns,
         BeginOpen(k) \/ BeginTransact(k) \/ WatchSet(k) \/ DecideTransact(k)
  PROVE  /\ session' = session /\ access' = access
         /\ \E f \in Responses : Answers(k, f) /\ f.type # "opened" /\ ~ Terminal(f)
<1> DEFINE w == Watched("ok")
<1>1. w \in Responses /\ w.type # "opened" /\ ~ Terminal(w)
  BY FrameTypes DEF Watched, Terminal
<1>2. ASSUME NEW type, Takes(k, type)
      PROVE  \A j \in Conns : \A i \in DOMAIN toServer'[j] :
               \E l \in DOMAIN toServer[j] : toServer'[j][i] = toServer[j][l]
  BY <1>2, TakesIs
<1> HIDE DEF w
<1>4. CASE BeginOpen(k)
  <2>1. Takes(k, "open")
    BY <1>4 DEF BeginOpen
  <2>2. /\ client' = client /\ toClient' = toClient /\ session' = session /\ access' = access
        /\ conn'[k].work.at = "admission" /\ conn'[k].closed = conn[k].closed
        /\ conn'[k].work.token = NextFrame(k).token
        /\ conn'[k].work.attempt = NextFrame(k).attempt
        /\ \A j \in Conns : j # k => conn'[j] = conn[j]
    BY <1>4, BeginOpenIs
  <2>3. Pending(conn[k], toServer[k], conn'[k].work.token, conn'[k].work.attempt)
    <3>1. /\ ~ conn[k].closed /\ 1 \in DOMAIN toServer[k] /\ NextFrame(k) = toServer[k][1]
          /\ NextFrame(k).type = "open"
      BY <2>1, TakesIs
    <3> QED BY <2>2, <3>1 DEF Pending
  <2>4. Answers(k, w)
    BY <1>2, <2>1, <2>2, <2>3 DEF Answers
  <2> QED BY <1>1, <2>2, <2>4
<1>5. CASE BeginTransact(k)
  <2>1. /\ Takes(k, "transact") /\ client' = client /\ session' = session /\ access' = access
        /\ NextFrame(k).commit \in Commits /\ conn'[k].closed = conn[k].closed
        /\ \A j \in Conns : j # k => conn'[j] = conn[j] /\ toClient'[j] = toClient[j]
        /\ \/ toClient' = toClient /\ conn'[k].work.at = "transact"
           \/ /\ conn' = conn
              /\ \/ toClient'[k] = toClient[k]
                 \/ toClient'[k] = Append(toClient[k], Verdict(NextFrame(k).commit, "refused"))
    BY <1>5, BeginTransactIs
  <2>2. PICK f \in Responses : f = Verdict(NextFrame(k).commit, "refused")
    BY <2>1, FrameTypes
  <2>3. f.type # "opened" /\ ~ Terminal(f)
    BY <2>2 DEF Verdict, Terminal
  <2>4. Answers(k, f)
    BY <1>2, <2>1, <2>2 DEF Answers
  <2> QED BY <2>1, <2>3, <2>4
<1>6. CASE WatchSet(k)
  <2>1. /\ Takes(k, "watch") /\ client' = client /\ session' = session /\ access' = access
        /\ conn' = conn /\ \A j \in Conns : j # k => toClient'[j] = toClient[j]
        /\ \E how \in {"ok", "retriable"} :
             toClient'[k] = toClient[k] \/ toClient'[k] = Append(toClient[k], Watched(how))
    BY <1>6, WatchSetIs
  <2>2. PICK how \in {"ok", "retriable"} :
          toClient'[k] = toClient[k] \/ toClient'[k] = Append(toClient[k], Watched(how))
    BY <2>1
  <2>3. PICK f \in Responses : f = Watched(how)
    BY FrameTypes
  <2>4. f.type # "opened" /\ ~ Terminal(f)
    BY <2>3 DEF Watched, Terminal
  <2>5. Answers(k, f)
    BY <1>2, <2>1, <2>2, <2>3 DEF Answers
  <2> QED BY <2>1, <2>4, <2>5
<1>7. CASE DecideTransact(k)
  <2>1. conn[k].work.commit \in Commits
    BY <1>7 DEF DecideTransact, LInv, Issued, IssuedWork
  <2>2. /\ client' = client /\ toServer' = toServer /\ session' = session /\ access' = access
        /\ conn'[k].work = Idle /\ conn'[k].closed = conn[k].closed
        /\ \A j \in Conns : j # k => conn'[j] = conn[j] /\ toClient'[j] = toClient[j]
        /\ \E how \in Hows :
             \/ toClient'[k] = toClient[k]
             \/ toClient'[k] = Append(toClient[k], Verdict(conn[k].work.commit, how))
    BY <1>7, <2>1, DecideTransactIs
  <2>3. PICK how \in Hows : \/ toClient'[k] = toClient[k]
                              \/ toClient'[k] = Append(toClient[k], Verdict(conn[k].work.commit, how))
    BY <2>2
  <2>4. PICK f \in Responses : f = Verdict(conn[k].work.commit, how)
    BY <2>1, FrameTypes
  <2>5. f.type # "opened" /\ ~ Terminal(f)
    BY <2>4 DEF Verdict, Terminal
  <2>6. Answers(k, f)
    BY <2>2, <2>3, <2>4, IdleIs DEF Answers
  <2> QED BY <2>2, <2>5, <2>6
<1> QED BY <1>4, <1>5, <1>6, <1>7

\* Such a step is quiet.
LEMMA RegistryAnswers ==
  ASSUME TInv, LInv, RInv, NEW k \in Conns,
         BeginOpen(k) \/ BeginTransact(k) \/ WatchSet(k) \/ DecideTransact(k)
  PROVE  RInv'
<1>1. session' = session /\ access' = access
  BY PlainAnswers
<1>2. PICK f \in Responses : Answers(k, f) /\ f.type # "opened" /\ ~ Terminal(f)
  BY PlainAnswers
<1>3. /\ session'.token = session.token /\ session'.attempt = session.attempt
      /\ session'.presented = session.presented /\ session'.owner = session.owner
  BY <1>1
<1> QED BY <1>1, <1>2, <1>3, QuietAnswer

\* An open that the client waits for is never refused as one that does not
\* resume.
LEMMA RefusalAnswers ==
  ASSUME TInv, RInv, NEW k \in Conns, RefuseOpen(k)
  PROVE  /\ session' = session /\ access' = access
         /\ \E f \in Responses : /\ Answers(k, f) /\ f.type # "opened"
                                 /\ Terminal(f) /\ k = client.conn => ~ access
<1>1. /\ client' = client /\ toServer' = toServer /\ session' = session /\ access' = access
      /\ conn[k].work.at = "admission" /\ conn'[k].work = Idle /\ conn'[k].closed = conn[k].closed
      /\ \A j \in Conns : j # k => conn'[j] = conn[j] /\ toClient'[j] = toClient[j]
  BY RefuseOpenIs
<1>2. \/ toClient'[k] = toClient[k]
      \/ \E why \in {"denied", "retriable", "revoked"} :
           /\ toClient'[k] = Append(toClient[k], Refusal(why))
           /\ why = "denied" => ~ access
           /\ why = "revoked" => ~ Resumable(conn[k].work)
  BY RefuseOpenIs
<1>4. k = client.conn /\ access => Resumable(conn[k].work)
  <2>1. SUFFICES ASSUME k = client.conn, access PROVE Resumable(conn[k].work)
    OBVIOUS
  <2>2. conn[k].work.token \in Nat /\ conn[k].work.attempt \in Nat
    BY ConnTyped
  <2>3. Pending(conn[k], toServer[k], conn[k].work.token, conn[k].work.attempt)
    BY <1>1 DEF Pending
  <2>4. Judged(client, session, access, k, conn[k].work.token, conn[k].work.attempt)
    BY <2>2, <2>3 DEF RInv, AllJudged
  <2>5. conn[k].work.token = client.token /\ conn[k].work.attempt = client.attempt
        /\ session.attempt < client.attempt
    BY <2>1, <2>4 DEF Judged
  <2>6. session.token = 0 \/ client.token \in {session.token, session.presented}
    BY <2>1 DEF RInv, CanResume
  <2> QED BY <2>5, <2>6 DEF Resumable
<1>5. CASE toClient'[k] = toClient[k]
  <2>1. PICK f \in Responses : f = Watched("ok")
    BY FrameTypes
  <2>2. f.type # "opened" /\ ~ Terminal(f)
    BY <2>1 DEF Watched, Terminal
  <2>3. Answers(k, f)
    BY <1>1, <1>5, IdleIs DEF Answers
  <2> QED BY <1>1, <2>2, <2>3
<1>6. ASSUME NEW why \in {"denied", "retriable", "revoked"},
             toClient'[k] = Append(toClient[k], Refusal(why)),
             why = "denied" => ~ access, why = "revoked" => ~ Resumable(conn[k].work)
      PROVE  \E f \in Responses : /\ Answers(k, f) /\ f.type # "opened"
                                  /\ Terminal(f) /\ k = client.conn => ~ access
  <2>1. PICK f \in Responses : f = Refusal(why)
    BY FrameTypes
  <2>2. f.type # "opened" /\ (Terminal(f) => why # "retriable")
    BY <2>1 DEF Refusal, Terminal
  <2>3. Answers(k, f)
    BY <1>1, <1>6, <2>1, IdleIs DEF Answers
  <2>4. Terminal(f) /\ k = client.conn => ~ access
    BY <1>4, <1>6, <2>2
  <2> QED BY <1>1, <2>2, <2>3, <2>4
<1> QED BY <1>1, <1>2, <1>5, <1>6

\* Such a refusal is quiet.
LEMMA RegistryRefuses ==
  ASSUME TInv, RInv, NEW k \in Conns, RefuseOpen(k)
  PROVE  RInv'
<1>1. session' = session /\ access' = access
  BY RefusalAnswers
<1>2. PICK f \in Responses : /\ Answers(k, f) /\ f.type # "opened"
                             /\ Terminal(f) /\ k = client.conn => ~ access
  BY RefusalAnswers
<1>3. /\ session'.token = session.token /\ session'.attempt = session.attempt
      /\ session'.presented = session.presented /\ session'.owner = session.owner
  BY <1>1
<1> QED BY <1>1, <1>2, <1>3, QuietAnswer

\* An open the client waits for does not lose its session while it catches up.
LEMMA RegistryFinishes ==
  ASSUME TInv, OwnerAgrees, RInv, NEW k \in Conns, FinishOpen(k)
  PROVE  RInv'
<1> DEFINE o == conn[k].work
<1>1. /\ client' = client /\ toServer' = toServer /\ access' = access
      /\ o.at = "catch-up" /\ conn'[k].work = Idle /\ conn'[k].closed = conn[k].closed
      /\ \A j \in Conns : j # k => conn'[j] = conn[j] /\ toClient'[j] = toClient[j]
      /\ session'.token = session.token /\ session'.attempt = session.attempt
      /\ session'.presented = session.presented
  BY FinishOpenIs
<1>2. PICK lost, failed, mine \in BOOLEAN :
        /\ lost <=> AclActive /\ (session.owner # k \/ session.token # o.token)
        /\ failed <=> conn[k].closed \/ lost
        /\ session'.owner = IF failed /\ mine /\ session.owner = k THEN 0 ELSE session.owner
        /\ \/ toClient'[k] = toClient[k]
           \/ /\ ~ conn[k].closed
              /\ toClient'[k] = Append(toClient[k],
                   IF lost THEN Refusal("revoked") ELSE Opened(o.token, TRUE))
  BY FinishOpenIs DEF Mute
<1>3. o.token \in Nat /\ Answering(conn[k], toClient[k], o.token)
  BY <1>1, ConnTyped DEF Answering
<1>4. k = client.conn /\ Live /\ access /\ ~ conn[k].closed => ~ lost
  <2>1. SUFFICES ASSUME k = client.conn, Live, access, ~ conn[k].closed
                 PROVE  session.owner = k /\ session.token = o.token
    BY <1>2
  <2>2. Past
    BY <1>3, <2>1 DEF Past
  <2>3. session.owner = k
    BY <2>1, <2>2 DEF RInv, OwnerHeld
  <2>4. k # 0
    BY ConnTyped
  <2>5. session.token # 0
    BY <2>3, <2>4 DEF OwnerAgrees
  <2>6. session.token = o.token
    BY <1>3, <2>1, <2>5 DEF RInv, AnswerStands
  <2> QED BY <2>3, <2>6
<1>5. session'.owner \in {session.owner, 0}
  BY <1>2
<1>6. session'.owner = session.owner \/ (Past' => ~ access)
  <2>1. SUFFICES ASSUME session'.owner # session.owner, Past', access PROVE FALSE
    OBVIOUS
  <2>2. session.owner = k /\ failed
    BY <1>2, <2>1
  <2>3. ~ conn'[client.conn].closed /\ Live
    BY <1>1, <2>1 DEF Past, Live
  <2>4. ~ conn[client.conn].closed
    <3>1. conn'[client.conn].closed = conn[client.conn].closed
      BY <1>1, LinesTyped
    <3> QED BY <2>3, <3>1
  <2>6. k # client.conn
    BY <1>2, <1>4, <2>1, <2>2, <2>3, <2>4
  <2>7. conn'[client.conn] = conn[client.conn] /\ toClient'[client.conn] = toClient[client.conn]
    BY <1>1, <2>6, LinesTyped
  <2>8. Past
    BY <1>1, <2>1, <2>7 DEF Past, Live
  <2>9. session.owner = client.conn
    BY <2>1, <2>8 DEF RInv, OwnerHeld
  <2> QED BY <2>2, <2>6, <2>9
<1>7. CASE toClient'[k] = toClient[k]
  <2>1. PICK f \in Responses : f = Watched("ok")
    BY FrameTypes
  <2>2. f.type # "opened" /\ ~ Terminal(f)
    BY <2>1 DEF Watched, Terminal
  <2>3. Answers(k, f)
    BY <1>1, <1>7, IdleIs DEF Answers
  <2> QED BY <1>1, <1>5, <1>6, <2>2, <2>3, QuietAnswer
<1>8. CASE ~ conn[k].closed /\ lost /\ toClient'[k] = Append(toClient[k], Refusal("revoked"))
  <2>1. PICK f \in Responses : f = Refusal("revoked")
    BY FrameTypes
  <2>2. f.type # "opened"
    BY <2>1 DEF Refusal
  <2>3. Answers(k, f)
    BY <1>1, <1>8, <2>1, IdleIs DEF Answers
  <2>4. k = client.conn => ~ (Live /\ access)
    BY <1>4, <1>8
  <2> QED BY <1>1, <1>5, <1>6, <2>2, <2>3, <2>4, QuietAnswer
<1>9. CASE ~ conn[k].closed /\ toClient'[k] = Append(toClient[k], Opened(o.token, TRUE))
  <2>1. PICK f \in Responses : f = Opened(o.token, TRUE)
    BY <1>3, FrameTypes
  <2>2. f.token = o.token /\ ~ Terminal(f)
    BY <2>1 DEF Opened, Terminal
  <2>3. Answers(k, f)
    BY <1>1, <1>9, <2>1, IdleIs DEF Answers
  <2> QED BY <1>1, <1>3, <1>5, <1>6, <2>2, <2>3, QuietAnswer
<1> QED BY <1>2, <1>7, <1>8, <1>9

\* The end of a catch-up answers its open.
LEMMA FinishAnswers ==
  ASSUME TInv, NEW k \in Conns, FinishOpen(k)
  PROVE  \E f \in Responses : /\ Answers(k, f)
                              /\ f.type = "opened" => Answering(conn[k], toClient[k], f.token)
<1> DEFINE o == conn[k].work
<1>1. /\ client' = client /\ toServer' = toServer
      /\ o.at = "catch-up" /\ conn'[k].work = Idle /\ conn'[k].closed = conn[k].closed
      /\ \A j \in Conns : j # k => conn'[j] = conn[j] /\ toClient'[j] = toClient[j]
      /\ \/ toClient'[k] = toClient[k]
         \/ toClient'[k] = Append(toClient[k], Refusal("revoked"))
         \/ toClient'[k] = Append(toClient[k], Opened(o.token, TRUE))
  BY FinishOpenIs
<1>2. o.token \in Nat /\ Answering(conn[k], toClient[k], o.token)
  BY <1>1, ConnTyped DEF Answering
<1>3. PICK f \in Responses : f = Refusal("revoked")
  BY FrameTypes
<1>4. PICK g \in Responses : g = Opened(o.token, TRUE)
  BY <1>2, FrameTypes
<1>5. f.type # "opened" /\ g.token = o.token
  BY <1>3, <1>4 DEF Refusal, Opened
<1>6. Answers(k, f) \/ Answers(k, g)
  BY <1>1, <1>3, <1>4, IdleIs DEF Answers
<1> QED BY <1>2, <1>5, <1>6

\* A connection that closes leaves nothing new.
LEMMA RegistryCloses ==
  ASSUME TInv, RInv, NEW k \in Conns, Close(k)
  PROVE  RInv'
<1>1. /\ UNCHANGED <<client, toClient, access, write>>
      /\ conn'[k].closed = TRUE /\ conn'[k].work = conn[k].work
      /\ toServer'[k] = <<>>
      /\ \A j \in Conns : j # k => conn'[j] = conn[j] /\ toServer'[j] = toServer[j]
      /\ session'.token = session.token /\ session'.attempt = session.attempt
      /\ session'.presented = session.presented
      /\ session'.owner = IF session.owner = k THEN 0 ELSE session.owner
  BY CloseIs
<1>2. \A j \in Conns : conn'[j].work = conn[j].work
  BY <1>1
<1>3. Fewer
  <2>1. ASSUME NEW j \in Conns, NEW t \in Nat, NEW a \in Nat, Pending(conn'[j], toServer'[j], t, a)
        PROVE  Pending(conn[j], toServer[j], t, a)
    BY <1>1, <2>1 DEF Pending
  <2>2. \A t \in Nat : Answering(conn'[client.conn], toClient'[client.conn], t)
                         => Answering(conn[client.conn], toClient[client.conn], t)
    BY <1>1, <1>2, LinesTyped DEF Answering
  <2>3. conn[client.conn].closed => conn'[client.conn].closed
    BY <1>1, LinesTyped
  <2> QED BY <2>1, <2>2, <2>3 DEF Fewer
<1>4. SameClient
  BY <1>1 DEF SameClient, Live
<1>5. NoneTerminal' /\ NotLockedOut'
  BY <1>1 DEF RInv, NoneTerminal, NotLockedOut, Live
<1>6. session'.owner \in {session.owner, 0}
  BY <1>1
<1>7. session'.owner = session.owner \/ (Past' => ~ access)
  <2>1. SUFFICES ASSUME session'.owner # session.owner, Past', access PROVE FALSE
    OBVIOUS
  <2>2. session.owner = k /\ client.conn # k
    BY <1>1, <2>1 DEF Past
  <2>3. Past
    BY <1>3, <1>4, <2>1 DEF Past, Fewer, SameClient, Live
  <2> QED BY <2>1, <2>2, <2>3 DEF RInv, OwnerHeld
<1> QED BY <1>1, <1>3, <1>4, <1>5, <1>6, <1>7, QuietStep

\* The session that an admitted open replaces is behind no other answer the
\* client waits for, and no line it is past the opening of.
LEMMA AdmitFinds ==
  ASSUME TInv, RInv, NEW k \in Conns, AdmitOpen(k)
  PROVE  LET o == conn[k].work IN
         /\ o.token \in Nat /\ o.attempt \in Nat /\ Pending(conn[k], toServer[k], o.token, o.attempt)
         /\ ~ Behind(session, o.attempt)
         /\ Judged(client, session, access, k, o.token, o.attempt)
         /\ o.token = client.token
         /\ ~ (session.owner = client.conn /\ k # client.conn)
         /\ Past => k = client.conn
         /\ k <= client.conn
<1> DEFINE o == conn[k].work
<1>1. /\ access /\ o.at = "admission" /\ Resumable(o) /\ o.token \in Nat /\ o.attempt \in Nat
      /\ session.attempt \in Nat /\ session.token \in Nat
  BY AdmitOpenIs, ConnTyped
<1>2. Pending(conn[k], toServer[k], o.token, o.attempt)
  BY <1>1 DEF Pending
<1>3. Judged(client, session, access, k, o.token, o.attempt)
  BY <1>1, <1>2 DEF RInv, AllJudged
<1>4. ~ Behind(session, o.attempt)
  <2>1. SUFFICES ASSUME Behind(session, o.attempt) PROVE FALSE
    OBVIOUS
  <2>2. session.token # 0 /\ o.attempt <= session.attempt /\ o.token < session.token
    BY <1>3, <2>1 DEF Behind, Judged
  <2> QED BY <1>1, <2>2 DEF Resumable
<1>5. o.token = client.token /\ ~ (session.owner = client.conn /\ k # client.conn)
  BY <1>1, <1>3, <1>4 DEF Judged
<1>6. Past => k = client.conn
  BY <1>1, <1>5 DEF RInv, OwnerHeld
<1>7. k <= client.conn
  <2>1. conn[k].work # Idle
    BY <1>1, IdleIs
  <2> QED BY <2>1, ConnMade
<1> QED BY <1>1, <1>2, <1>3, <1>4, <1>5, <1>6, <1>7

\* An admitted open leaves every other one behind it, or for the client's last.
LEMMA AdmitJudges ==
  ASSUME TInv, LInv, RInv, NEW k \in Conns, AdmitOpen(k)
  PROVE  AllJudged'
<1> DEFINE o == conn[k].work
<1>1. /\ o.token \in Nat /\ o.attempt \in Nat
      /\ ~ Behind(session, o.attempt)
      /\ Judged(client, session, access, k, o.token, o.attempt)
      /\ o.token = client.token /\ k <= client.conn
  BY AdmitFinds
<1>2. /\ client' = client /\ toServer' = toServer /\ access' = access /\ access
      /\ o.at = "admission" /\ ~ conn[k].closed /\ conn'[k].closed = conn[k].closed
      /\ session'.token = minted + 1 /\ session'.attempt = o.attempt /\ session'.owner = k
      /\ \A j \in Conns : j # k => conn'[j].closed = conn[j].closed /\ conn'[j].work = conn[j].work
  BY AdmitRest
<1>3. conn'[k].work.at # "admission"
  BY AdmitRest
<1>4. toServer[k] = <<>>
  <2>1. OpenLast(Queue(conn[k], toServer[k]), AskWork(conn[k].work))
    BY DEF LInv, OpensLast
  <2>2. AskWork(conn[k].work) = OpenAsk
    BY <1>2 DEF AskWork
  <2> QED BY <1>2, <2>1, <2>2 DEF OpenLast, Queue
<1>5. /\ minted \in Nat /\ session.token \in Nat /\ session.attempt \in Nat
      /\ client.attempt \in Nat /\ client.conn \in Nat /\ k \in Nat
  BY ConnTyped, LinesTyped
<1>6. SUFFICES ASSUME NEW j \in Conns, NEW t \in Nat, NEW a \in Nat,
                      Pending(conn'[j], toServer'[j], t, a)
               PROVE  Judged(client, session', TRUE, j, t, a)
  BY <1>2 DEF AllJudged
<1>7. j # k
  BY <1>2, <1>3, <1>4, <1>6 DEF Pending
<1>8. Pending(conn[j], toServer[j], t, a)
  BY <1>2, <1>6, <1>7 DEF Pending
<1>9. Judged(client, session, TRUE, j, t, a)
  BY <1>2, <1>8 DEF RInv, AllJudged
<1>10. t <= minted
  <2>1. CASE \E i \in DOMAIN toServer[j] : toServer[j][i].type = "open" /\ toServer[j][i].token = t
    BY <2>1, <1>5 DEF TInv, TokensMinted
  <2>2. CASE conn[j].work.token = t
    BY <2>2, ConnTyped
  <2> QED BY <1>8, <2>1, <2>2 DEF Pending
<1>11. a <= client.attempt /\ (j < client.conn => a < client.attempt)
  BY <1>9 DEF Judged
<1>12. j = client.conn => /\ t = client.token /\ a = client.attempt
                          /\ session'.attempt < client.attempt
  <2>1. SUFFICES ASSUME j = client.conn
                 PROVE  t = client.token /\ a = client.attempt /\ o.attempt < client.attempt
    BY <1>2
  <2>2. k < client.conn
    BY <1>1, <1>5, <1>7, <2>1
  <2> QED BY <1>1, <1>9, <2>1, <2>2 DEF Judged
<1>13. Behind(session', a) => t < session'.token
  BY <1>2, <1>5, <1>10
<1>14. Behind(session, a) => Behind(session', a)
  <2>1. SUFFICES ASSUME Behind(session, a) PROVE a <= o.attempt
    BY <1>2, <1>5 DEF Behind
  <2> QED BY <1>1, <1>5, <2>1 DEF Behind
<1>15. Behind(session', a) \/ t = client.token
  BY <1>9, <1>14 DEF Judged
<1>16. k = client.conn => Behind(session', a)
  <2>1. SUFFICES ASSUME k = client.conn PROVE a <= o.attempt
    BY <1>2, <1>5 DEF Behind
  <2>2. o.attempt = client.attempt
    BY <1>1, <2>1 DEF Judged
  <2> QED BY <1>11, <2>2
<1> QED BY <1>2, <1>11, <1>12, <1>13, <1>15, <1>16 DEF Judged

\* An open is admitted for the client, whichever connection brought it.
LEMMA RegistryAdmits ==
  ASSUME TInv, LInv, RInv, NEW k \in Conns, AdmitOpen(k)
  PROVE  RInv'
<1> DEFINE o == conn[k].work
<1>1. /\ o.token \in Nat /\ o.attempt \in Nat /\ Pending(conn[k], toServer[k], o.token, o.attempt)
      /\ ~ Behind(session, o.attempt)
      /\ Judged(client, session, access, k, o.token, o.attempt)
      /\ o.token = client.token
      /\ ~ (session.owner = client.conn /\ k # client.conn)
      /\ Past => k = client.conn
  BY AdmitFinds
<1>2. /\ client' = client /\ toServer' = toServer /\ access' = access /\ access
      /\ o.at = "admission" /\ ~ conn[k].closed /\ conn'[k].closed = conn[k].closed
      /\ session'.token = minted + 1 /\ session'.attempt = o.attempt /\ session'.owner = k
      /\ session'.presented = o.token
      /\ \A j \in Conns : j # k => conn'[j].closed = conn[j].closed /\ conn'[j].work = conn[j].work
  BY AdmitRest
<1>3. \A j \in Conns : j # k => \/ toClient'[j] = toClient[j]
                                \/ Taken(j, k) /\ toClient'[j] = Append(toClient[j], Revoked)
  BY AdmitOpenIs
<1>4. \/ toClient'[k] = toClient[k] /\ conn'[k].work.at = "catch-up" /\ conn'[k].work.token = minted + 1
      \/ toClient'[k] = toClient[k] /\ conn'[k].work = Idle
      \/ toClient'[k] = Append(toClient[k], Opened(minted + 1, FALSE)) /\ conn'[k].work = Idle
  BY AdmitOpenIs
<1>5. /\ minted \in Nat /\ session.token \in Nat /\ session.attempt \in Nat
      /\ client.attempt \in Nat /\ client.conn \in Conns
      /\ \A j \in Conns : toClient[j] \in Seq(Responses)
  BY ConnTyped, LinesTyped
<1>6. AllJudged'
  BY AdmitJudges
<1>7. CanResume'
  <2>1. o.attempt <= client.attempt
    BY <1>1 DEF Judged
  <2> QED BY <1>1, <1>2, <2>1 DEF CanResume
<1>8. k # client.conn => /\ toClient'[client.conn] = toClient[client.conn]
                         /\ conn'[client.conn].closed = conn[client.conn].closed
                         /\ conn'[client.conn].work = conn[client.conn].work
  BY <1>1, <1>2, <1>3, <1>5 DEF Taken
<1>9. AnswerStands'
  <2>1. SUFFICES ASSUME Live, NEW t \in Nat, Answering(conn'[client.conn], toClient'[client.conn], t)
                 PROVE  t = minted + 1 /\ o.attempt = client.attempt
    BY <1>2 DEF AnswerStands, Live
  <2>2. CASE k = client.conn
    <3>1. \A u \in Nat : ~ Answering(conn[k], toClient[k], u)
      BY <1>1, <2>1, <2>2, OneOpen
    <3>2. \A i \in DOMAIN toClient[k] : toClient[k][i].type = "opened" => toClient[k][i].token \in Nat
      <4>1. \A i \in DOMAIN toClient[k] : toClient[k][i] \in Responses
        BY <1>5
      <4> QED BY <4>1, AskDownIs
    <3>3. \A i \in DOMAIN toClient[k] : toClient[k][i].type # "opened"
      BY <3>1, <3>2 DEF Answering
    <3>4. t = minted + 1
      <4>1. CASE toClient'[k] = toClient[k] /\ conn'[k].work.token = minted + 1
        BY <2>1, <2>2, <3>3, <4>1 DEF Answering
      <4>2. CASE toClient'[k] = Append(toClient[k], Opened(minted + 1, FALSE)) /\ conn'[k].work = Idle
        <5>1. PICK f \in Responses : f = Opened(minted + 1, FALSE)
          <6>1. minted + 1 \in Nat
            BY <1>5
          <6> QED BY <6>1, FrameTypes
        <5>2. f.token = minted + 1
          BY <5>1 DEF Opened
        <5>3. \A i \in DOMAIN Append(toClient[k], f) :
                \/ i \in DOMAIN toClient[k] /\ Append(toClient[k], f)[i] = toClient[k][i]
                \/ Append(toClient[k], f)[i] = f
          BY <1>5, AppendIs
        <5> QED BY <2>1, <2>2, <3>3, <4>2, <5>1, <5>2, <5>3, IdleIs DEF Answering
      <4>3. CASE toClient'[k] = toClient[k] /\ conn'[k].work = Idle
        BY <2>1, <2>2, <3>3, <4>3, IdleIs DEF Answering
      <4> QED BY <1>4, <4>1, <4>2, <4>3
    <3>5. o.attempt = client.attempt
      BY <1>1, <2>2 DEF Judged
    <3> QED BY <3>4, <3>5
  <2>3. CASE k # client.conn
    <3>1. Answering(conn[client.conn], toClient[client.conn], t)
      BY <1>8, <2>1, <2>3 DEF Answering
    <3>2. t # 0
      BY <3>1, <1>5 DEF Answering, TInv, TokensMinted
    <3>3. CASE session.token = t /\ session.attempt = client.attempt
      <4>1. o.attempt <= client.attempt
        BY <1>1 DEF Judged
      <4> QED BY <1>1, <3>2, <3>3, <4>1 DEF Behind
    <3>4. CASE \A j \in Conns : \A u, a \in Nat : ~ Pending(conn[j], toServer[j], u, a)
      BY <1>1, <3>4
    <3> QED BY <1>2, <2>1, <3>1, <3>3, <3>4 DEF RInv, AnswerStands
  <2> QED BY <2>2, <2>3
<1>10. OwnerHeld'
  <2>1. SUFFICES ASSUME Past', k # client.conn PROVE FALSE
    BY <1>2 DEF OwnerHeld
  <2>2. Past
    BY <1>2, <1>8, <2>1 DEF Past, Live, Answering
  <2> QED BY <1>1, <2>1, <2>2
<1>11. NoneTerminal'
  <2>1. SUFFICES ASSUME Live, NEW i \in DOMAIN toClient'[client.conn]
                 PROVE  ~ Terminal(toClient'[client.conn][i])
    BY <1>2 DEF NoneTerminal, Live
  <2>2. \A j \in DOMAIN toClient[client.conn] : ~ Terminal(toClient[client.conn][j])
    BY <1>2, <2>1 DEF RInv, NoneTerminal
  <2>3. CASE toClient'[client.conn] = toClient[client.conn]
    BY <2>1, <2>2, <2>3
  <2>4. CASE toClient'[client.conn] = Append(toClient[client.conn], Opened(minted + 1, FALSE))
    <3>1. PICK f \in Responses : f = Opened(minted + 1, FALSE)
      <4>1. minted + 1 \in Nat
        BY <1>5
      <4> QED BY <4>1, FrameTypes
    <3>2. ~ Terminal(f)
      BY <3>1 DEF Opened, Terminal
    <3>3. \A l \in DOMAIN Append(toClient[client.conn], f) :
            \/ l \in DOMAIN toClient[client.conn]
               /\ Append(toClient[client.conn], f)[l] = toClient[client.conn][l]
            \/ Append(toClient[client.conn], f)[l] = f
      BY <1>5, AppendIs
    <3> QED BY <2>1, <2>2, <2>4, <3>1, <3>2, <3>3
  <2> QED BY <1>4, <1>8, <2>3, <2>4
<1>12. NotLockedOut'
  BY <1>2 DEF RInv, NotLockedOut
<1> QED BY <1>6, <1>7, <1>9, <1>10, <1>11, <1>12 DEF RInv

\* A session that has run out leaves no open but the client's last.
LEMMA RegistryExpires ==
  ASSUME TInv, LInv, OwnerAgrees, RInv, Expire
  PROVE  RInv'
<1>1. /\ UNCHANGED <<client, toServer, toClient, conn, access, write>>
      /\ session'.token = 0 /\ session'.attempt = 0 /\ session'.presented = 0 /\ session'.owner = 0
      /\ session.owner = 0 /\ \A k \in Conns : k < client.conn => ~ OpenInHand(k)
  BY ExpireIs, NoSessionIs
<1>2. /\ client.attempt \in Nat /\ session.attempt \in Nat /\ client.conn \in Conns
      /\ client.conn \in Nat /\ client.conn # 0
  BY ConnTyped, LinesTyped
<1>3. ASSUME NEW k \in Conns, NEW t \in Nat, NEW a \in Nat, Pending(conn[k], toServer[k], t, a)
      PROVE  k = client.conn
  <2>1. OpenInHand(k)
    <3>1. DOMAIN toServer[k] = 1 .. Len(toServer[k])
      BY LinesTyped
    <3> QED BY <1>3, <3>1 DEF Pending, OpenInHand
  <2>2. k <= client.conn
    <3>1. toServer[k] # <<>> \/ conn[k].work # Idle
      BY <1>3, IdleIs DEF Pending
    <3> QED BY <3>1, ConnMade
  <2>3. k \in Nat
    BY ConnTyped
  <2> QED BY <1>1, <1>2, <2>1, <2>2, <2>3
<1>4. AllJudged'
  <2>1. SUFFICES ASSUME NEW k \in Conns, NEW t \in Nat, NEW a \in Nat,
                        Pending(conn[k], toServer[k], t, a)
                 PROVE  Judged(client, session', access, k, t, a)
    BY <1>1 DEF AllJudged
  <2>2. k = client.conn /\ Judged(client, session, access, k, t, a)
    BY <1>3, <2>1 DEF RInv, AllJudged
  <2> QED BY <1>1, <1>2, <2>2 DEF Judged, Behind
<1>5. CanResume'
  BY <1>1, <1>2 DEF CanResume
<1>6. AnswerStands'
  <2>1. SUFFICES ASSUME Live, NEW t \in Nat,
                        Answering(conn[client.conn], toClient[client.conn], t)
                 PROVE  \A k \in Conns : \A u, a \in Nat : ~ Pending(conn[k], toServer[k], u, a)
    BY <1>1 DEF AnswerStands, Live
  <2> QED BY <1>3, <2>1, OneOpen
<1>7. ~ (Past /\ access)
  BY <1>1, <1>2 DEF RInv, OwnerHeld
<1>8. OwnerHeld'
  BY <1>1, <1>7 DEF OwnerHeld, Past, Live
<1>9. NoneTerminal' /\ NotLockedOut'
  BY <1>1 DEF RInv, NoneTerminal, NotLockedOut, Live
<1> QED BY <1>4, <1>5, <1>6, <1>8, <1>9 DEF RInv

\* A principal taken off the access list owns nothing.
LEMMA RegistryDeauthorizes ==
  ASSUME TInv, RInv, Deauthorize
  PROVE  RInv'
<1>1. /\ client' = client /\ toServer' = toServer /\ access' = FALSE
      /\ session'.token = 0 /\ session'.attempt = 0 /\ session'.presented = 0 /\ session'.owner = 0
      /\ \A j \in Conns : conn'[j].closed = conn[j].closed /\ conn'[j].work = conn[j].work
  BY DeauthorizeIs, NoSessionIs
<1>2. /\ client.attempt \in Nat /\ session.attempt \in Nat /\ client.conn \in Conns
  BY ConnTyped, LinesTyped
<1>3. AllJudged'
  <2>1. SUFFICES ASSUME NEW k \in Conns, NEW t \in Nat, NEW a \in Nat,
                        Pending(conn'[k], toServer'[k], t, a)
                 PROVE  Judged(client, session', FALSE, k, t, a)
    BY <1>1 DEF AllJudged
  <2>2. Pending(conn[k], toServer[k], t, a)
    BY <1>1, <2>1 DEF Pending
  <2>3. Judged(client, session, access, k, t, a)
    BY <2>2 DEF RInv, AllJudged
  <2> QED BY <1>1, <1>2, <2>3 DEF Judged, Behind
<1>4. CanResume'
  BY <1>1, <1>2 DEF CanResume
<1>5. AnswerStands' /\ OwnerHeld' /\ NoneTerminal' /\ NotLockedOut'
  BY <1>1 DEF AnswerStands, OwnerHeld, NoneTerminal, NotLockedOut
<1> QED BY <1>3, <1>4, <1>5 DEF RInv

\* A restart leaves nothing pending.
LEMMA RegistryRestarts ==
  ASSUME TInv, RInv, Restart
  PROVE  RInv'
<1>1. /\ UNCHANGED <<client, toClient, access, write>>
      /\ session'.token = 0 /\ session'.attempt = 0 /\ session'.presented = 0 /\ session'.owner = 0
      /\ \A j \in Conns : /\ toServer'[j] = <<>> /\ conn'[j].work = Idle
                          /\ j <= client.conn => conn'[j].closed = TRUE
  BY RestartIs, NoSessionIs
<1>2. /\ client.attempt \in Nat /\ client.conn \in Conns /\ client.conn <= client.conn
  BY ConnTyped, LinesTyped
<1>3. \A k \in Conns : \A t, a \in Nat : ~ Pending(conn'[k], toServer'[k], t, a)
  BY <1>1, IdleIs DEF Pending
<1>4. conn'[client.conn].closed
  BY <1>1, <1>2
<1>5. AllJudged' /\ AnswerStands'
  BY <1>1, <1>3 DEF AllJudged, AnswerStands
<1>6. CanResume'
  BY <1>1, <1>2 DEF CanResume
<1>7. OwnerHeld'
  BY <1>1, <1>4 DEF OwnerHeld, Past
<1>8. NoneTerminal' /\ NotLockedOut'
  BY <1>1 DEF RInv, NoneTerminal, NotLockedOut, Live
<1> QED BY <1>5, <1>6, <1>7, <1>8 DEF RInv

\* Frames that open nothing make nothing pending.
LEMMA PendingSends ==
  ASSUME NEW c, NEW U \in Seq(Requests), NEW F \in Seq(Requests),
         \A i \in DOMAIN F : F[i].type # "open"
  PROVE  \A t, a \in Nat : Pending(c, U \o F, t, a) => Pending(c, U, t, a)
<1>1. \A i \in DOMAIN (U \o F) :
        \/ i \in DOMAIN U /\ (U \o F)[i] = U[i]
        \/ i - Len(U) \in DOMAIN F /\ (U \o F)[i] = F[i - Len(U)]
  BY ConcatIs
<1> QED BY <1>1 DEF Pending

\* A call and a lost connection are quiet.
LEMMA RegistryCalls ==
  ASSUME TInv, RInv, (\E n \in Commits : Transact(n)) \/ Drop
  PROVE  RInv'
<1>1. client.conn \in Conns
  BY LinesTyped
<1>2. ASSUME NEW n \in Commits, Transact(n) PROVE RInv'
  <2>1. /\ UNCHANGED <<client, toClient, session, conn, access, write>>
        /\ \A j \in Conns : j # client.conn => toServer'[j] = toServer[j]
        /\ \/ toServer'[client.conn] = toServer[client.conn] \o <<CommitFrame(n)>>
           \/ toServer'[client.conn] = toServer[client.conn]
    BY <1>2, TransactIs
  <2>2. PICK f \in Requests : f = CommitFrame(n)
    BY FrameTypes
  <2>3. f.type # "open"
    BY <2>2 DEF CommitFrame
  <2>4. PICK F \in Seq(Requests) : F = <<f>>
    BY OneFrame
  <2>5. \A i \in DOMAIN F : F[i].type # "open"
    BY <2>3, <2>4
  <2>6. \A t, a \in Nat : Pending(conn[client.conn], toServer[client.conn] \o F, t, a)
                            => Pending(conn[client.conn], toServer[client.conn], t, a)
    BY <2>5, LinesTyped, PendingSends
  <2>7. ASSUME NEW j \in Conns, NEW t \in Nat, NEW a \in Nat, Pending(conn'[j], toServer'[j], t, a)
        PROVE  Pending(conn[j], toServer[j], t, a)
    <3>1. CASE toServer'[j] = toServer[j]
      BY <2>1, <2>7, <3>1
    <3>2. CASE j = client.conn /\ toServer'[j] = toServer[j] \o F
      BY <2>1, <2>6, <2>7, <3>2
    <3> QED BY <2>1, <2>2, <2>4, <3>1, <3>2
  <2>8. Fewer /\ SameClient
    BY <2>1, <2>7 DEF Fewer, SameClient, Live
  <2>9. NoneTerminal' /\ NotLockedOut'
    BY <2>1 DEF RInv, NoneTerminal, NotLockedOut, Live
  <2> QED BY <2>1, <2>8, <2>9, QuietStep
<1>3. CASE Drop
  <2>1. /\ UNCHANGED <<toServer, session, conn, access, write>>
        /\ client'.at = "down" /\ client'.conn = client.conn /\ client'.token = client.token
        /\ client'.attempt = client.attempt
        /\ toClient'[client.conn] = <<>>
    BY <1>3, DropIs
  <2>2. Fewer
    BY <2>1 DEF Fewer, Answering
  <2>3. SameClient /\ NoneTerminal' /\ NotLockedOut'
    BY <2>1 DEF SameClient, NoneTerminal, NotLockedOut, Live
  <2> QED BY <2>1, <2>2, <2>3, QuietStep
<1> QED BY <1>2, <1>3

\* A restore's open is the only one on its line, and later than every other.
LEMMA RegistryRestores ==
  ASSUME TInv, RInv, NEW k \in Conns, client.conn <= k, Restore(k),
         k > client.conn \/ (k = client.conn /\ Live),
         \A a \in 0 .. NoAsk :
           ~ Asks(Queue(conn[k], toServer[k]), AskWork(conn[k].work), toClient[k], a)
  PROVE  RInv'
<1>1. /\ UNCHANGED <<toClient, session, conn, access, write>>
      /\ client'.at = "opening" /\ client'.conn = k /\ client'.token = client.token
      /\ client'.attempt = client.attempt + 1
      /\ toServer'[k] = toServer[k] \o <<OpenFrame(client.token, client.attempt + 1)>>
      /\ \A j \in Conns : j # k => toServer'[j] = toServer[j]
  BY RestoreIs
<1>2. /\ client.attempt \in Nat /\ client.token \in Nat /\ session.attempt \in Nat
      /\ client.conn \in Nat /\ client.conn # 0 /\ k \in Nat /\ session.owner <= client.conn
      /\ session.owner \in Nat
      /\ conn[k] \in ConnStates /\ toServer[k] \in Seq(Requests) /\ toClient[k] \in Seq(Responses)
  <2>1. session.owner \in Nat
    BY ConnTyped DEF Conns
  <2> QED BY <2>1, ConnTyped, LinesTyped
<1>3. ~ Asks(Queue(conn[k], toServer[k]), AskWork(conn[k].work), toClient[k], OpenAsk)
  BY AskNumbers
<1>4. /\ \A t, a \in Nat : ~ Pending(conn[k], toServer[k], t, a)
      /\ \A t \in Nat : ~ Answering(conn[k], toClient[k], t)
  BY <1>2, <1>3, OpenAsks
<1>5. session.attempt <= client.attempt
  BY DEF RInv, CanResume
<1>6. AllJudged'
  <2>1. SUFFICES ASSUME NEW j \in Conns, NEW t \in Nat, NEW a \in Nat,
                        Pending(conn[j], toServer'[j], t, a)
                 PROVE  Judged(client', session, access, j, t, a)
    BY <1>1 DEF AllJudged
  <2>2. CASE j # k
    <3>1. Pending(conn[j], toServer[j], t, a)
      BY <1>1, <2>1, <2>2
    <3>2. Judged(client, session, access, j, t, a)
      BY <3>1 DEF RInv, AllJudged
    <3>3. k > client.conn => session.owner # k
      BY <1>2
    <3> QED BY <1>1, <1>2, <2>2, <3>2, <3>3 DEF Judged, Behind
  <2>3. CASE j = k
    <3>1. PICK f \in Requests : f = OpenFrame(client.token, client.attempt + 1)
      BY <1>2, FrameTypes
    <3>2. f.token = client.token /\ f.attempt = client.attempt + 1
      BY <3>1 DEF OpenFrame
    <3>3. PICK F \in Seq(Requests) : F = <<f>>
      BY OneFrame
    <3>4. \A i \in DOMAIN F : F[i] = f
      BY <3>3
    <3>5. \A i \in DOMAIN (toServer[k] \o F) :
            \/ i \in DOMAIN toServer[k] /\ (toServer[k] \o F)[i] = toServer[k][i]
            \/ i - Len(toServer[k]) \in DOMAIN F
               /\ (toServer[k] \o F)[i] = F[i - Len(toServer[k])]
      BY <1>2, ConcatIs
    <3>6. toServer'[k] = toServer[k] \o F
      BY <1>1, <3>1, <3>3
    <3>7. t = client.token /\ a = client.attempt + 1
      <4>1. ~ Pending(conn[k], toServer[k], t, a)
        BY <1>4
      <4>2. PICK i \in DOMAIN (toServer[k] \o F) :
              /\ ~ conn[k].closed /\ (toServer[k] \o F)[i].type = "open"
              /\ (toServer[k] \o F)[i].token = t /\ (toServer[k] \o F)[i].attempt = a
        BY <2>1, <2>3, <3>6, <4>1 DEF Pending
      <4>3. ~ (i \in DOMAIN toServer[k] /\ (toServer[k] \o F)[i] = toServer[k][i])
        BY <4>1, <4>2 DEF Pending
      <4>4. (toServer[k] \o F)[i] = f
        BY <3>4, <3>5, <4>3
      <4> QED BY <3>2, <4>2, <4>4
    <3> QED BY <1>1, <1>2, <1>5, <2>3, <3>7 DEF Judged, Behind
  <2> QED BY <2>2, <2>3
<1>7. CanResume'
  <2>1. session.attempt <= client.attempt + 1
    BY <1>2, <1>5
  <2> QED BY <1>1, <2>1 DEF RInv, CanResume
<1>8. AnswerStands' /\ OwnerHeld'
  BY <1>1, <1>4 DEF AnswerStands, OwnerHeld, Past
<1>9. NoneTerminal'
  <2>1. SUFFICES ASSUME access, NEW i \in DOMAIN toClient[k] PROVE ~ Terminal(toClient[k][i])
    BY <1>1 DEF NoneTerminal
  <2>2. CASE k > client.conn
    BY <2>1, <2>2 DEF TInv, TypeOK
  <2>3. CASE k = client.conn /\ Live
    BY <2>1, <2>3 DEF RInv, NoneTerminal
  <2> QED BY <2>2, <2>3
<1>10. NotLockedOut'
  BY <1>1 DEF NotLockedOut
<1> QED BY <1>6, <1>7, <1>8, <1>9, <1>10 DEF RInv

\* A reconnect and a retry.
LEMMA RegistryReopens ==
  ASSUME TInv, LInv, RInv, Reconnect \/ RetryHeld
  PROVE  RInv'
<1>1. CASE Reconnect
  <2>1. client.conn + 1 \in Conns /\ client.conn <= client.conn + 1
    BY <1>1, ReconnectConn
  <2>2. client.conn + 1 > client.conn
    BY DEF TInv, TypeOK, ClientStates, Conns
  <2> QED BY <1>1, <2>1, <2>2, RegistryRestores, FreshLine DEF Reconnect
<1>2. CASE RetryHeld
  <2>1. client.conn \in Conns /\ client.conn <= client.conn
    BY DEF TInv, TypeOK, ClientStates, Conns
  <2>2. Live
    BY <1>2 DEF RetryHeld, Live
  <2> QED BY <1>2, <2>1, <2>2, RegistryRestores, HeldLine DEF RetryHeld
<1> QED BY <1>1, <1>2

\* The client takes an answer: what it keeps is what the registry would resume.
LEMMA RegistryHears ==
  ASSUME TInv, LInv, RInv, Receive
  PROVE  RInv'
<1> DEFINE k == client.conn
           D == toClient[k]
           m == Head(toClient[client.conn])
<1>1. /\ UNCHANGED <<session, conn, access, write>> /\ Live /\ k \in Conns
      /\ D \in Seq(Responses) /\ D # <<>> /\ m \in Responses
      /\ toClient'[k] = Tail(D)
  BY ReceiveIs
<1>2. /\ m = D[1] /\ 1 \in DOMAIN D
      /\ \A i \in DOMAIN Tail(D) : i + 1 \in DOMAIN D /\ Tail(D)[i] = D[i + 1]
  BY <1>1, TailIs
<1>4. \A t \in Nat : Answering(conn[k], Tail(D), t) => Answering(conn[k], D, t)
  BY <1>2 DEF Answering
<1>5. access => \A i \in DOMAIN D : ~ Terminal(D[i])
  BY <1>1 DEF RInv, NoneTerminal
<1>6. ASSUME client'.conn = client.conn PROVE NoneTerminal'
  BY <1>1, <1>2, <1>5, <1>6 DEF NoneTerminal
<1>7. ASSUME NEW F \in Seq(Requests), toServer'[k] = toServer[k] \o F,
             \A j \in Conns : j # k => toServer'[j] = toServer[j],
             \A i \in DOMAIN F : F[i].type # "open"
      PROVE  \A j \in Conns : \A t, a \in Nat :
               Pending(conn'[j], toServer'[j], t, a) => Pending(conn[j], toServer[j], t, a)
  <2>1. \A t, a \in Nat : Pending(conn[k], toServer[k] \o F, t, a) => Pending(conn[k], toServer[k], t, a)
    BY <1>1, <1>7, LinesTyped, PendingSends
  <2> QED BY <1>1, <1>7, <2>1
<1>8. ASSUME SameClient, client'.at \notin {"down", "ended"} \/ ~ access,
             \A j \in Conns : \A t, a \in Nat :
               Pending(conn'[j], toServer'[j], t, a) => Pending(conn[j], toServer[j], t, a)
      PROVE  RInv'
  <2>1. Fewer
    BY <1>1, <1>4, <1>8 DEF Fewer
  <2>2. NoneTerminal' /\ NotLockedOut'
    BY <1>1, <1>6, <1>8 DEF SameClient, NotLockedOut
  <2> QED BY <1>1, <1>8, <2>1, <2>2, QuietStep
<1>9. ASSUME NEW done, NEW now, Settled(done, now) PROVE RInv'
  <2>1. /\ client'.conn = client.conn /\ client'.attempt = client.attempt
        /\ client'.token = client.token
        /\ \A j \in Conns : j # client.conn => toServer'[j] = toServer[j]
    BY <1>9 DEF Settled
  <2>2. CASE /\ client.at = "restoring" /\ client'.at = "ready"
             /\ \E F \in Seq(Requests) : /\ toServer'[client.conn] = toServer[client.conn] \o F
                                         /\ Batch(F, Commits, now)
    <3>1. PICK F \in Seq(Requests) : /\ toServer'[client.conn] = toServer[client.conn] \o F
                                     /\ Batch(F, Commits, now)
      BY <2>2
    <3>2. \A i \in DOMAIN F : F[i].type # "open"
      BY <3>1, BatchOpens
    <3>3. SameClient
      BY <1>1, <2>1, <2>2 DEF SameClient
    <3> QED BY <1>7, <1>8, <2>1, <2>2, <3>1, <3>2, <3>3
  <2>3. CASE client'.at = client.at /\ toServer'[client.conn] = toServer[client.conn]
    <3>1. SameClient /\ client'.at \notin {"down", "ended"}
      BY <1>1, <2>1, <2>3 DEF SameClient, Live
    <3>2. \A j \in Conns : toServer'[j] = toServer[j]
      BY <2>1, <2>3
    <3> QED BY <1>1, <1>8, <3>1, <3>2
  <2> QED BY <1>9, <2>2, <2>3 DEF Settled
<1>10. ASSUME NEW at \in {"held", "ended"}, GivenUp(at), at = "ended" => Terminal(m)
       PROVE  RInv'
  <2>1. /\ client'.at = at /\ client'.conn = client.conn /\ client'.attempt = client.attempt
        /\ client'.token = client.token /\ toServer' = toServer
    BY <1>10 DEF GivenUp
  <2>2. SameClient
    BY <1>1, <2>1 DEF SameClient
  <2>3. client'.at \notin {"down", "ended"} \/ ~ access
    BY <1>2, <1>5, <1>10, <2>1
  <2> QED BY <1>1, <1>8, <2>1, <2>2, <2>3
<1>11. CASE m.type = "opened"
  <2>1. /\ client'.conn = client.conn /\ client'.attempt = client.attempt
        /\ client'.token = m.token
        /\ client'.at = IF client'.awaiting = {} THEN "ready" ELSE "restoring"
        /\ \A j \in Conns : j # client.conn => toServer'[j] = toServer[j]
        /\ client' \in ClientStates
    BY <1>11, ReopenedIs
  <2>2. PICK F \in Seq(Requests) : /\ toServer'[client.conn] = toServer[client.conn] \o F
                                   /\ Batch(F, client'.awaiting, told)
    BY <1>11, ReopenedIs
  <2>3. m.token \in Nat /\ m.token # 0 /\ minted \in Nat
    <3>1. m.token \in 1 .. minted
      BY <1>1, <1>2, <1>11 DEF TInv, TokensMinted
    <3> QED BY <3>1, ConnTyped, <1>1
  <2>4. Answering(conn[k], D, m.token)
    BY <1>2, <1>11 DEF Answering
  <2>5. \A u, a \in Nat : ~ Pending(conn[k], toServer[k], u, a)
    BY <1>1, <2>3, <2>4, OneOpen
  <2>6. \A i \in DOMAIN F : F[i].type # "open"
    <3>1. client'.awaiting \in SUBSET (Commits \cup {0})
      BY <2>1 DEF ClientStates
    <3> QED BY <2>2, <3>1, BatchOpens
  <2>7. \A j \in Conns : \A t, a \in Nat :
          Pending(conn'[j], toServer'[j], t, a) => Pending(conn[j], toServer[j], t, a)
    BY <1>7, <2>1, <2>2, <2>6
  <2>8. access => \/ session.token = m.token /\ session.attempt = client.attempt
                  \/ /\ session.token = 0
                     /\ \A j \in Conns : \A u, a \in Nat : ~ Pending(conn[j], toServer[j], u, a)
    BY <1>1, <2>3, <2>4 DEF RInv, AnswerStands
  <2>9. AllJudged'
    <3>1. SUFFICES ASSUME NEW j \in Conns, NEW t \in Nat, NEW a \in Nat,
                          Pending(conn'[j], toServer'[j], t, a)
                   PROVE  Judged(client', session, access, j, t, a)
      BY <1>1 DEF AllJudged
    <3>2. Pending(conn[j], toServer[j], t, a) /\ j # client.conn
      BY <2>5, <2>7, <3>1
    <3>3. Judged(client, session, access, j, t, a)
      BY <3>2 DEF RInv, AllJudged
    <3>4. access => Behind(session, a)
      BY <2>3, <2>8, <3>2, <3>3 DEF Judged, Behind
    <3> QED BY <2>1, <3>2, <3>3, <3>4 DEF Judged
  <2>10. CanResume'
    BY <1>1, <2>1, <2>8 DEF RInv, CanResume
  <2>11. \A t \in Nat : ~ Answering(conn[k], Tail(D), t)
    <3>1. /\ client.at \in {"ready", "opening", "restoring", "held"}
          /\ client.awaiting \in SUBSET (Commits \cup {0})
      BY <1>1 DEF TInv, TypeOK, ClientStates, Live
    <3>2. Line(client.at, client.awaiting, Queue(conn[k], toServer[k]), AskWork(conn[k].work), D)
      BY <1>1 DEF LInv, LiveLine
    <3>3. AskDown(Head(D)) = OpenAsk
      BY <1>1, <1>11, AskDownIs
    <3>4. ~ Asks(Queue(conn[k], toServer[k]), AskWork(conn[k].work), Tail(D), OpenAsk)
      BY <1>1, <3>1, <3>2, <3>3, LineAnswered, AskNumbers
    <3>5. Tail(D) \in Seq(Responses) /\ conn[k] \in ConnStates /\ toServer[k] \in Seq(Requests)
      BY <1>1, TailIs, LinesTyped
    <3> QED BY <3>4, <3>5, OpenAsks
  <2>12. AnswerStands'
    BY <1>1, <2>1, <2>11 DEF AnswerStands
  <2>13. OwnerHeld'
    <3>1. ~ conn[k].closed => Past
      BY <1>1, <2>3, <2>4 DEF Past
    <3> QED BY <1>1, <2>1, <3>1 DEF RInv, OwnerHeld, Past
  <2>14. NotLockedOut'
    BY <2>1 DEF NotLockedOut
  <2> QED BY <1>6, <2>1, <2>9, <2>10, <2>12, <2>13, <2>14 DEF RInv
<1> QED BY <1>9, <1>10, <1>11, ReceiveCases

\* One step keeps the registry and the client's token together.
LEMMA RegistryStep ==
  ASSUME TInv, LInv, OwnerAgrees, RInv, [Next]_vars
  PROVE  RInv'
<1>1. ASSUME NEW n \in Commits, Transact(n) PROVE RInv'
  BY <1>1, RegistryCalls
<1>2. CASE Drop
  BY <1>2, RegistryCalls
<1>3. CASE Reconnect \/ RetryHeld
  BY <1>3, RegistryReopens
<1>4. CASE Receive
  BY <1>4, RegistryHears
<1>5. ASSUME NEW k \in Conns, ServerStep(k) PROVE RInv'
  <2>1. CASE BeginOpen(k) \/ BeginTransact(k) \/ WatchSet(k) \/ DecideTransact(k)
    BY <2>1, RegistryAnswers
  <2>2. CASE RefuseOpen(k)
    BY <2>2, RegistryRefuses
  <2>3. CASE AdmitOpen(k)
    BY <2>3, RegistryAdmits
  <2>4. CASE FinishOpen(k)
    BY <2>4, RegistryFinishes
  <2> QED BY <1>5, <2>1, <2>2, <2>3, <2>4 DEF ServerStep
<1>6. ASSUME NEW k \in Conns, Close(k) PROVE RInv'
  BY <1>6, RegistryCloses
<1>7. CASE Expire
  BY <1>7, RegistryExpires
<1>8. CASE Deauthorize
  BY <1>8, RegistryDeauthorizes
<1>9. CASE Restart
  BY <1>9, RegistryRestarts
<1>10. CASE UNCHANGED vars
  BY <1>10 DEF vars, RInv, AllJudged, CanResume, AnswerStands, OwnerHeld, NoneTerminal,
               NotLockedOut, Past, Live
<1>11. CASE WriteChange
  <2>1. UNCHANGED <<client, toServer, toClient, session, conn, access>>
    BY <1>11, WriteChangeIs
  <2> QED BY <2>1 DEF RInv, AllJudged, CanResume, AnswerStands, OwnerHeld, NoneTerminal,
               NotLockedOut, Past, Live
<1> QED BY <1>1, <1>2, <1>3, <1>4, <1>5, <1>6, <1>7, <1>8, <1>9, <1>10, <1>11 DEF Next, WriteChange

-----------------------------------------------------------------------------
(* Verdicts, step by step                                                  *)

\* The step sends no copy of commit n.
NotSent(n) ==
  \A j \in Conns : \A i \in DOMAIN toServer'[j] :
    AskUp(toServer'[j][i]) = n => \E l \in DOMAIN toServer[j] : AskUp(toServer[j][l]) = n

\* Frames that do not ask for n bring no copy of it.
LEMMA SendsNone ==
  ASSUME NEW n, NEW U \in Seq(Requests), NEW F \in Seq(Requests),
         \A i \in DOMAIN F : AskUp(F[i]) # n
  PROVE  \A i \in DOMAIN (U \o F) : AskUp((U \o F)[i]) = n => \E l \in DOMAIN U : AskUp(U[l]) = n
<1>1. \A i \in DOMAIN (U \o F) :
        \/ i \in DOMAIN U /\ (U \o F)[i] = U[i]
        \/ i - Len(U) \in DOMAIN F /\ (U \o F)[i] = F[i - Len(U)]
  BY ConcatIs
<1> QED BY <1>1

\* The client sends commit n again only while its call waits.
LEMMA NotResent ==
  ASSUME TInv, NEW n \in Commits, told[n] # "unissued", [Next]_vars,
         told'[n] # "waiting" \/ ~ Receive
  PROVE  NotSent(n)
<1>1. /\ client.conn \in Conns /\ \A j \in Conns : toServer[j] \in Seq(Requests)
      /\ told \in [Commits -> {"unissued", "waiting", "accepted", "refused", "denied", "lost"}]
      /\ OpenAsk # n
  BY LinesTyped, AskNumbers DEF TInv, TypeOK
<1>2. ASSUME NEW k \in Conns, NEW F \in Seq(Requests), toServer'[k] = toServer[k] \o F,
             \A j \in Conns : j # k => toServer'[j] = toServer[j],
             \A i \in DOMAIN F : AskUp(F[i]) # n
      PROVE  NotSent(n)
  <2>1. \A i \in DOMAIN (toServer[k] \o F) :
          AskUp((toServer[k] \o F)[i]) = n => \E l \in DOMAIN toServer[k] : AskUp(toServer[k][l]) = n
    BY <1>1, <1>2, SendsNone
  <2> QED BY <1>2, <2>1 DEF NotSent
<1>3. ASSUME \A j \in Conns : \A i \in DOMAIN toServer'[j] :
               \E l \in DOMAIN toServer[j] : toServer'[j][i] = toServer[j][l]
      PROVE  NotSent(n)
  BY <1>3 DEF NotSent
<1>4. ASSUME \A j \in Conns : toServer'[j] = toServer[j]
      PROVE  NotSent(n)
  BY <1>4 DEF NotSent
<1>5. ASSUME NEW p \in Commits, Transact(p) PROVE NotSent(n)
  <2>1. /\ told[p] = "unissued"
        /\ \A j \in Conns : j # client.conn => toServer'[j] = toServer[j]
        /\ \/ toServer'[client.conn] = toServer[client.conn] \o <<CommitFrame(p)>>
           \/ toServer'[client.conn] = toServer[client.conn]
    BY <1>5, TransactIs
  <2>2. PICK f \in Requests : f = CommitFrame(p)
    BY FrameTypes
  <2>3. AskUp(f) = p
    BY <2>2 DEF CommitFrame, AskUp
  <2>4. PICK F \in Seq(Requests) : F = <<f>>
    BY OneFrame
  <2>5. \A i \in DOMAIN F : AskUp(F[i]) # n
    <3>1. p # n
      BY <2>1
    <3>2. \A i \in DOMAIN F : F[i] = f
      BY <2>4
    <3> QED BY <2>3, <3>1, <3>2
  <2>6. CASE toServer'[client.conn] = toServer[client.conn] \o F
    BY <1>1, <1>2, <2>1, <2>5, <2>6
  <2>7. CASE toServer'[client.conn] = toServer[client.conn]
    BY <1>4, <2>1, <2>7
  <2> QED BY <2>1, <2>2, <2>4, <2>6, <2>7
<1>6. CASE Drop
  BY <1>4, <1>6, DropIs
<1>7. ASSUME NEW k \in Conns, client.conn <= k, Restore(k) PROVE NotSent(n)
  <2>1. /\ toServer'[k] = toServer[k] \o <<OpenFrame(client.token, client.attempt + 1)>>
        /\ \A j \in Conns : j # k => toServer'[j] = toServer[j]
    BY <1>7, RestoreIs
  <2>2. PICK f \in Requests : f = OpenFrame(client.token, client.attempt + 1)
    <3>1. client.token \in Nat /\ client.attempt + 1 \in Nat
      BY DEF TInv, TypeOK, ClientStates
    <3> QED BY <3>1, FrameTypes
  <2>3. AskUp(f) = OpenAsk
    BY <2>2 DEF OpenFrame, AskUp
  <2>4. PICK F \in Seq(Requests) : F = <<f>>
    BY OneFrame
  <2>5. \A i \in DOMAIN F : AskUp(F[i]) # n
    <3>1. \A i \in DOMAIN F : F[i] = f
      BY <2>4
    <3> QED BY <1>1, <2>3, <3>1
  <2>6. toServer'[k] = toServer[k] \o F
    BY <2>1, <2>2, <2>4
  <2> QED BY <1>2, <2>1, <2>5, <2>6
<1>8. CASE Reconnect \/ RetryHeld
  <2>1. client.conn \in Conns /\ client.conn <= client.conn
    BY DEF TInv, TypeOK, ClientStates, Conns
  <2> QED BY <1>7, <1>8, <2>1, ReconnectConn DEF Reconnect, RetryHeld
<1>9. CASE Receive
  <2>1. told'[n] # "waiting"
    BY <1>9
  <2>2. ASSUME NEW A, NEW F \in Seq(Requests), Batch(F, A, told')
        PROVE  \A i \in DOMAIN F : AskUp(F[i]) # n
    BY <2>1, <2>2 DEF Batch
  <2>3. CASE Head(toClient[client.conn]).type = "opened"
    <3>1. /\ told' = told
          /\ \A j \in Conns : j # client.conn => toServer'[j] = toServer[j]
      BY <1>9, <2>3, ReopenedIs
    <3>2. PICK F \in Seq(Requests) : /\ toServer'[client.conn] = toServer[client.conn] \o F
                                     /\ Batch(F, client'.awaiting, told)
      BY <1>9, <2>3, ReopenedIs
    <3>3. Batch(F, client'.awaiting, told')
      BY <3>1, <3>2
    <3> QED BY <1>1, <1>2, <2>2, <3>1, <3>2, <3>3
  <2>4. ASSUME NEW done, NEW now, Settled(done, now) PROVE NotSent(n)
    <3>1. told' = now /\ \A j \in Conns : j # client.conn => toServer'[j] = toServer[j]
      BY <2>4 DEF Settled
    <3>2. ASSUME NEW F \in Seq(Requests), toServer'[client.conn] = toServer[client.conn] \o F,
                 Batch(F, Commits, now)
          PROVE  NotSent(n)
      <4>1. Batch(F, Commits, told')
        BY <3>1, <3>2
      <4> QED BY <1>1, <1>2, <2>2, <3>1, <3>2, <4>1
    <3>3. CASE toServer'[client.conn] = toServer[client.conn]
      BY <1>4, <3>1, <3>3
    <3> QED BY <2>4, <3>2, <3>3 DEF Settled
  <2>5. ASSUME NEW at, GivenUp(at) PROVE NotSent(n)
    BY <1>4, <2>5 DEF GivenUp
  <2> QED BY <1>9, <2>3, <2>4, <2>5, ReceiveCases
<1>10. ASSUME NEW k \in Conns, ServerStep(k) PROVE NotSent(n)
  <2>1. ASSUME NEW type, Takes(k, type) PROVE NotSent(n)
    BY <1>3, <2>1, TakesIs
  <2>2. CASE toServer' = toServer
    BY <1>4, <2>2
  <2> QED BY <1>10, <2>1, <2>2
          DEF ServerStep, BeginOpen, RefuseOpen, AdmitOpen, RegisterOpen, FinishOpen,
              BeginTransact, DecideTransact, WatchSet
<1>11. ASSUME NEW k \in Conns, Close(k) PROVE NotSent(n)
  <2>1. toServer'[k] = <<>> /\ \A j \in Conns : j # k => toServer'[j] = toServer[j]
    BY <1>11, CloseIs
  <2> QED BY <2>1 DEF NotSent
<1>12. CASE Expire \/ Deauthorize
  BY <1>4, <1>12 DEF Expire, Deauthorize
<1>13. CASE Restart
  <2>1. \A j \in Conns : toServer'[j] = <<>>
    BY <1>13, RestartIs
  <2> QED BY <2>1 DEF NotSent
<1>14. CASE UNCHANGED vars
  BY <1>4, <1>14 DEF vars
<1>15. CASE WriteChange
  BY <1>4, <1>15, WriteChangeIs
<1> QED BY <1>5, <1>6, <1>8, <1>9, <1>10, <1>11, <1>12, <1>13, <1>14, <1>15 DEF Next, WriteChange

\* What the engine has applied it keeps, and only a commit's decision adds to it.
LEMMA AppliedSteps ==
  ASSUME TInv, LInv, [Next]_vars
  PROVE  /\ applied \subseteq applied'
         /\ applied' = applied \/ \E k \in Conns : DecideTransact(k)
<1>1. ASSUME NEW k \in Conns, DecideTransact(k) PROVE applied \subseteq applied'
  BY <1>1 DEF DecideTransact
<1>2. applied' = applied \/ \E k \in Conns : DecideTransact(k)
  <2>1. ASSUME NEW k \in Conns, ServerStep(k) \/ Close(k), ~ DecideTransact(k)
        PROVE  applied' = applied
    BY <2>1 DEF ServerStep, Close, BeginOpen, RefuseOpen, AdmitOpen, RegisterOpen, FinishOpen,
                BeginTransact, WatchSet
  <2>2. CASE \/ \E n \in Commits : Transact(n)
             \/ Drop \/ Reconnect \/ RetryHeld \/ Receive \/ Expire \/ Deauthorize \/ Restart
             \/ WithdrawWrite \/ RestoreWrite
             \/ UNCHANGED vars
    BY <2>2 DEF Transact, Drop, Reconnect, RetryHeld, Restore, Receive, Expire, Deauthorize,
                Restart, WithdrawWrite, RestoreWrite, vars, serverVars
  <2> QED BY <2>1, <2>2 DEF Next
<1> QED BY <1>1, <1>2

\* A commit that is final stays so, unless it is sent again.
LEMMA FinalKept ==
  ASSUME NEW n, Final(n), NotSent(n),
         \A j \in Conns : conn'[j].handle /\ ~ conn'[j].closed =>
           (conn[j].handle /\ ~ conn[j].closed) \/ toServer'[j] = <<>>,
         \A j \in Conns : conn'[j].work.at = "transact" /\ conn'[j].work.commit = n =>
           \/ session'.token = 0 \/ conn'[j].work.token # session'.token
           \/ conn'[j].work = conn[j].work /\ session'.token = session.token
  PROVE  Final(n)'
<1>1. ASSUME NEW j \in Conns PROVE DeadAt(session', conn'[j], toServer'[j], n)
  <2>1. DeadAt(session, conn[j], toServer[j], n)
    BY DEF Final
  <2>2. ASSUME conn'[j].handle, ~ conn'[j].closed, NEW i \in DOMAIN toServer'[j],
               AskUp(toServer'[j][i]) = n
        PROVE  FALSE
    BY <2>1, <2>2 DEF DeadAt, NotSent
  <2>3. conn'[j].work.at = "transact" /\ conn'[j].work.commit = n
          => session'.token = 0 \/ conn'[j].work.token # session'.token
    BY <2>1 DEF DeadAt
  <2> QED BY <2>2, <2>3 DEF DeadAt
<1> QED BY <1>1 DEF Final

\* No step but a copy sent again can make a final commit applicable.
LEMMA FinalStep ==
  ASSUME TInv, LInv, OwnerAgrees, NEW n \in Commits, Final(n), NotSent(n), [Next]_vars
  PROVE  Final(n)'
<1>1. \A j \in Conns : DeadAt(session, conn[j], toServer[j], n)
  BY DEF Final
<1>2. ASSUME session' = session, conn' = conn PROVE Final(n)'
  BY <1>1, <1>2, FinalKept
<1>3. CASE (\E p \in Commits : Transact(p)) \/ Drop \/ Reconnect \/ RetryHeld \/ Receive
  BY <1>2, <1>3 DEF Transact, Drop, Reconnect, RetryHeld, Restore, Receive, serverVars
<1>4. ASSUME NEW k \in Conns, \A j \in Conns : j # k => conn'[j] = conn[j],
             conn'[k].closed = conn[k].closed, conn'[k].handle => conn[k].handle,
             session'.token = session.token,
             conn'[k].work.at # "transact"
      PROVE  Final(n)'
  <2>1. \A j \in Conns : conn'[j].handle /\ ~ conn'[j].closed => conn[j].handle /\ ~ conn[j].closed
    BY <1>4
  <2>2. \A j \in Conns : conn'[j].work.at = "transact" => conn'[j].work = conn[j].work
    BY <1>4
  <2> QED BY <1>1, <1>4, <2>1, <2>2, FinalKept
<1>5. ASSUME NEW k \in Conns, ServerStep(k) PROVE Final(n)'
  <2>1. CASE BeginOpen(k)
    <3>1. /\ \A j \in Conns : j # k => conn'[j] = conn[j]
          /\ conn'[k].closed = conn[k].closed /\ conn'[k].handle = conn[k].handle
          /\ session' = session /\ conn'[k].work.at = "admission"
      BY <2>1, BeginOpenIs
    <3> QED BY <1>4, <3>1
  <2>2. CASE RefuseOpen(k)
    <3>1. /\ \A j \in Conns : j # k => conn'[j] = conn[j]
          /\ conn'[k].closed = conn[k].closed /\ conn'[k].handle = conn[k].handle
          /\ session' = session /\ conn'[k].work = Idle
      BY <2>2, RefuseOpenIs
    <3> QED BY <1>4, <3>1, IdleIs
  <2>3. CASE AdmitOpen(k)
    <3>1. /\ session'.token = minted + 1 /\ toServer' = toServer
          /\ ~ conn[k].closed /\ conn[k].work.at = "admission"
          /\ \A j \in Conns : j # k => /\ conn'[j].closed = conn[j].closed
                                       /\ conn'[j].work = conn[j].work
                                       /\ conn'[j].handle => conn[j].handle
      BY <2>3, AdmitRest
    <3>2. conn'[k].work.at # "transact"
      BY <2>3, AdmitRest
    <3>3. toServer[k] = <<>>
      <4>1. OpenLast(Queue(conn[k], toServer[k]), AskWork(conn[k].work))
        BY DEF LInv, OpensLast
      <4>2. AskWork(conn[k].work) = OpenAsk
        BY <3>1 DEF AskWork
      <4> QED BY <3>1, <4>1, <4>2 DEF OpenLast, Queue
    <3>4. \A j \in Conns : conn'[j].handle /\ ~ conn'[j].closed =>
            (conn[j].handle /\ ~ conn[j].closed) \/ toServer'[j] = <<>>
      BY <3>1, <3>3
    <3>5. \A j \in Conns : conn'[j].work.at = "transact" => conn'[j].work.token # session'.token
      <4>1. SUFFICES ASSUME NEW j \in Conns, j # k PROVE conn[j].work.token # minted + 1
        BY <3>1, <3>2
      <4>2. conn[j].work.token \in 0 .. minted /\ minted \in Nat
        BY ConnTyped
      <4> QED BY <4>2
    <3> QED BY <1>1, <3>1, <3>4, <3>5, FinalKept
  <2>4. CASE FinishOpen(k)
    <3>1. /\ \A j \in Conns : j # k => conn'[j] = conn[j]
          /\ conn'[k].closed = conn[k].closed /\ conn'[k].handle => conn[k].handle
          /\ session'.token = session.token /\ conn'[k].work = Idle
      BY <2>4, FinishOpenIs
    <3> QED BY <1>4, <3>1, IdleIs, FinishOpenIs, <2>4
  <2>5. CASE BeginTransact(k)
    <3>1. /\ Takes(k, "transact") /\ session' = session
          /\ \A j \in Conns : j # k => conn'[j] = conn[j]
          /\ conn'[k].closed = conn[k].closed /\ conn'[k].handle = conn[k].handle
          /\ \/ conn[k].handle /\ conn'[k].work.commit = NextFrame(k).commit
             \/ conn' = conn
      BY <2>5, BeginTransactIs
    <3>2. CASE conn' = conn
      BY <1>2, <3>1, <3>2
    <3>3. CASE conn[k].handle /\ conn'[k].work.commit = NextFrame(k).commit
      <4>1. /\ ~ conn[k].closed /\ 1 \in DOMAIN toServer[k] /\ NextFrame(k) = toServer[k][1]
            /\ NextFrame(k) \in Requests /\ NextFrame(k).type = "transact"
        BY <3>1, TakesIs
      <4>2. AskUp(NextFrame(k)) = NextFrame(k).commit
        BY <4>1, AskUpIs
      <4>3. conn'[k].work.commit # n
        BY <1>1, <3>3, <4>1, <4>2 DEF DeadAt
      <4>4. \A j \in Conns : conn'[j].handle /\ ~ conn'[j].closed => conn[j].handle /\ ~ conn[j].closed
        BY <3>1
      <4>5. \A j \in Conns : conn'[j].work.commit = n => conn'[j].work = conn[j].work
        BY <3>1, <4>3
      <4> QED BY <1>1, <3>1, <4>4, <4>5, FinalKept
    <3> QED BY <3>1, <3>2, <3>3
  <2>6. CASE DecideTransact(k)
    <3>1. conn[k].work.at = "transact" /\ conn[k].work.commit \in Commits
      BY <2>6 DEF DecideTransact, LInv, Issued, IssuedWork
    <3>2. /\ session' = session /\ conn'[k].work = Idle
          /\ conn'[k].closed = conn[k].closed /\ conn'[k].handle = conn[k].handle
          /\ \A j \in Conns : j # k => conn'[j] = conn[j]
      BY <2>6, <3>1, DecideTransactIs
    <3>3. \A j \in Conns : conn'[j].handle /\ ~ conn'[j].closed => conn[j].handle /\ ~ conn[j].closed
      BY <3>2
    <3>4. \A j \in Conns : conn'[j].work.at = "transact" => conn'[j].work = conn[j].work
      BY <3>2, IdleIs
    <3> QED BY <3>2, <3>3, <3>4, FinalKept
  <2>7. CASE WatchSet(k)
    BY <1>2, <2>7, WatchSetIs
  <2> QED BY <1>5, <2>1, <2>2, <2>3, <2>4, <2>5, <2>6, <2>7 DEF ServerStep
<1>6. ASSUME NEW k \in Conns, Close(k) PROVE Final(n)'
  <2>1. /\ session'.token = session.token
        /\ conn'[k].handle = FALSE /\ conn'[k].work = conn[k].work
        /\ \A j \in Conns : j # k => conn'[j] = conn[j]
    BY <1>6, CloseIs
  <2>2. \A j \in Conns : conn'[j].handle /\ ~ conn'[j].closed => conn[j].handle /\ ~ conn[j].closed
    BY <2>1
  <2>3. \A j \in Conns : conn'[j].work = conn[j].work
    BY <2>1
  <2> QED BY <1>1, <2>1, <2>2, <2>3, FinalKept
<1>7. CASE Expire
  <2>1. conn' = conn /\ session'.token = 0
    BY <1>7, ExpireIs, NoSessionIs
  <2> QED BY <1>1, <2>1, FinalKept
<1>8. CASE Deauthorize
  <2>1. session'.token = 0
        /\ \A j \in Conns : conn'[j].closed = conn[j].closed /\ (conn'[j].handle => conn[j].handle)
    BY <1>8, DeauthorizeIs, NoSessionIs
  <2> QED BY <1>1, <2>1, FinalKept
<1>11. CASE WithdrawWrite \/ RestoreWrite
  BY <1>2, <1>11 DEF WithdrawWrite, RestoreWrite
<1>9. CASE Restart
  <2>1. session'.token = 0 /\ \A j \in Conns : toServer'[j] = <<>>
    BY <1>9, RestartIs, NoSessionIs
  <2> QED BY <1>1, <2>1, FinalKept
<1>10. CASE UNCHANGED vars
  BY <1>2, <1>10 DEF vars
<1> QED BY <1>3, <1>5, <1>6, <1>7, <1>8, <1>9, <1>10, <1>11 DEF Next

\* A commit that is final is not applied any more.
LEMMA FinalUnapplied ==
  ASSUME TInv, LInv, NEW n \in Commits, Final(n), n \notin applied, [Next]_vars
  PROVE  n \notin applied'
<1>1. CASE applied' = applied
  BY <1>1
<1>2. ASSUME NEW k \in Conns, DecideTransact(k) PROVE n \notin applied'
  <2>1. conn[k].work.at = "transact" /\ conn[k].work.commit \in Commits
    BY <1>2 DEF DecideTransact, LInv, Issued, IssuedWork
  <2>2. PICK how \in Hows : Decided(k, how)
    BY <1>2, <2>1, DecideTransactIs
  <2>3. conn[k].work.commit = n => session.token = 0 \/ conn[k].work.token # session.token
    BY <2>1 DEF Final, DeadAt
  <2> QED BY <2>2, <2>3 DEF Decided
<1> QED BY <1>1, <1>2, AppliedSteps

\* Write access once withdrawn has been withdrawn for good, given back or not.
LEMMA WithdrawnStays ==
  ASSUME write # "granted", [Next]_vars
  PROVE  write' # "granted"
<1>1. ASSUME NEW k \in Conns, ServerStep(k) \/ Close(k) PROVE write' = write
  BY <1>1 DEF ServerStep, Close, BeginOpen, RefuseOpen, AdmitOpen, RegisterOpen, FinishOpen,
              BeginTransact, DecideTransact, WatchSet
<1>2. CASE \/ \E n \in Commits : Transact(n)
           \/ Drop \/ Reconnect \/ RetryHeld \/ Receive \/ Expire \/ Deauthorize \/ Restart
           \/ UNCHANGED vars
  BY <1>2 DEF Transact, Drop, Reconnect, RetryHeld, Restore, Receive, Expire, Deauthorize,
              Restart, vars, serverVars
<1>3. CASE WithdrawWrite \/ RestoreWrite
  BY <1>3 DEF WithdrawWrite, RestoreWrite
<1> QED BY <1>1, <1>2, <1>3 DEF Next

\* What a commit's refusal says stays true, unless the commit is sent again.
LEMMA OverStep ==
  ASSUME TInv, LInv, OwnerAgrees, NEW n \in Commits, NEW how, Over(n, how), NotSent(n),
         [Next]_vars
  PROVE  Over(n, how)'
<1>1. Final(n)
  BY DEF Over
<1>2. Final(n)'
  BY <1>1, FinalStep
<1>3. how = "refused" => n \notin applied'
  BY <1>1, FinalUnapplied DEF Over
<1>4. how = "denied" => write' # "granted"
  BY WithdrawnStays DEF Over
<1> QED BY <1>2, <1>3, <1>4 DEF Over

\* Every step of a connection but an admission answers at most one request, and
\* brings the client no token that was not on its way to it.
LEMMA ServerAnswers ==
  ASSUME TInv, LInv, RInv, NEW k \in Conns, ServerStep(k), ~ AdmitOpen(k)
  PROVE  /\ access' = access
         /\ \E f \in Responses : /\ Answers(k, f)
                                 /\ f.type = "opened" => Answering(conn[k], toClient[k], f.token)
<1>1. CASE BeginOpen(k) \/ BeginTransact(k) \/ WatchSet(k) \/ DecideTransact(k)
  <2>1. access' = access
    BY <1>1, PlainAnswers
  <2>2. PICK f \in Responses : Answers(k, f) /\ f.type # "opened"
    BY <1>1, PlainAnswers
  <2> QED BY <2>1, <2>2
<1>2. CASE RefuseOpen(k)
  <2>1. access' = access
    BY <1>2, RefusalAnswers
  <2>2. PICK f \in Responses : Answers(k, f) /\ f.type # "opened"
    BY <1>2, RefusalAnswers
  <2> QED BY <2>1, <2>2
<1>3. CASE FinishOpen(k)
  BY <1>3, FinishAnswers, FinishOpenIs
<1> QED BY <1>1, <1>2, <1>3 DEF ServerStep

\* Such a step puts no client past its opening, and takes no frame back.
LEMMA AnswerPast ==
  ASSUME TInv, NEW k \in Conns, NEW f \in Responses, Answers(k, f),
         f.type = "opened" => Answering(conn[k], toClient[k], f.token)
  PROVE  /\ Past' => Past
         /\ \A i \in DOMAIN toClient[client.conn] :
              /\ i \in DOMAIN toClient'[client.conn]
              /\ toClient'[client.conn][i] = toClient[client.conn][i]
<1>1. client.conn \in Conns /\ toClient[client.conn] \in Seq(Responses)
  BY LinesTyped
<1>2. ASSUME NEW t \in Nat, Answering(conn'[client.conn], toClient'[client.conn], t)
      PROVE  Answering(conn[client.conn], toClient[client.conn], t)
  <2>1. CASE conn'[client.conn].work.at = "catch-up" /\ conn'[client.conn].work.token = t
    BY <1>1, <2>1 DEF Answers, Answering
  <2>2. CASE \E i \in DOMAIN toClient'[client.conn] :
               toClient'[client.conn][i].type = "opened" /\ toClient'[client.conn][i].token = t
    BY <2>2, AnswerHeard DEF Answering
  <2> QED BY <1>2, <2>1, <2>2 DEF Answering
<1>3. Past' => Past
  BY <1>1, <1>2 DEF Answers, Past, Live
<1>4. \A i \in DOMAIN toClient[client.conn] :
        i \in 1 .. Len(toClient[client.conn]) /\ i \in 1 .. Len(toClient[client.conn]) + 1
  BY <1>1, AppendIs
<1>5. \A i \in DOMAIN toClient[client.conn] :
        /\ i \in DOMAIN Append(toClient[client.conn], f)
        /\ Append(toClient[client.conn], f)[i] = toClient[client.conn][i]
  BY <1>1, <1>4, AppendIs
<1>6. toClient'[client.conn] \in {toClient[client.conn], Append(toClient[client.conn], f)}
  BY <1>1 DEF Answers
<1> QED BY <1>3, <1>5, <1>6

\* A line on which nothing is asked.
LEMMA NothingAsked ==
  ASSUME TInv, LInv, NEW k \in Conns,
         \A a \in 0 .. NoAsk :
           ~ Asks(Queue(conn[k], toServer[k]), AskWork(conn[k].work), toClient[k], a)
  PROVE  /\ \A t \in Nat : ~ Answering(conn[k], toClient[k], t)
         /\ conn[k].work.at = "idle"
         /\ \A i \in DOMAIN toClient[k] : toClient[k][i].type # "verdict"
<1>1. Issued
  BY DEF LInv
<1>2. conn[k] \in ConnStates /\ toServer[k] \in Seq(Requests) /\ toClient[k] \in Seq(Responses)
  BY LinesTyped
<1>3. \A t \in Nat : ~ Answering(conn[k], toClient[k], t)
  BY <1>2, OpenAsks, AskNumbers
<1>4. AskWork(conn[k].work) = NoAsk
  <2>1. AskWork(conn[k].work) \in 0 .. NoAsk
    BY <1>1, LineTyped
  <2> QED BY <2>1 DEF Asks
<1>5. conn[k].work.at = "idle"
  BY <1>1, <1>4, LineTyped
<1>6. ASSUME NEW i \in DOMAIN toClient[k], toClient[k][i].type = "verdict" PROVE FALSE
  <2>1. toClient[k][i] \in Responses
    BY <1>2
  <2>2. AskDown(toClient[k][i]) \in Commits
    BY <1>6, <2>1, AskDownIs
  <2>3. AskDown(toClient[k][i]) \in 0 .. NoAsk /\ AskDown(toClient[k][i]) # NoAsk
    BY <2>2, AskNumbers
  <2> QED BY <2>3 DEF Asks
<1> QED BY <1>3, <1>5, <1>6

\* A restore opens on such a line.
LEMMA RestoredLine ==
  ASSUME TInv, LInv, Reconnect \/ RetryHeld
  PROVE  \E k \in Conns :
           /\ client.conn <= k /\ Restore(k)
           /\ \A t \in Nat : ~ Answering(conn[k], toClient[k], t)
           /\ conn[k].work.at = "idle"
           /\ \A i \in DOMAIN toClient[k] : toClient[k][i].type # "verdict"
<1>1. CASE Reconnect
  <2>1. client.conn + 1 \in Conns /\ client.conn <= client.conn + 1 /\ Restore(client.conn + 1)
    BY <1>1, ReconnectConn DEF Reconnect
  <2>2. client.conn + 1 > client.conn
    BY LinesTyped DEF Conns
  <2> QED BY <2>1, <2>2, FreshLine, NothingAsked
<1>2. CASE RetryHeld
  <2>1. client.conn \in Conns /\ client.conn <= client.conn /\ Restore(client.conn)
    BY <1>2, LinesTyped DEF RetryHeld, Conns
  <2>2. client.at = "held"
    BY <1>2 DEF RetryHeld
  <2> QED BY <2>1, <2>2, HeldLine, NothingAsked
<1> QED BY <1>1, <1>2

\* What the client hears puts it past its opening only as it was.
LEMMA ReceivePast ==
  ASSUME TInv, Receive
  PROVE  /\ Past' => Past
         /\ client'.conn = client.conn
         /\ Terminal(Head(toClient[client.conn])) => client'.at = "ended"
<1> DEFINE k == client.conn
           D == toClient[k]
           m == Head(toClient[client.conn])
<1>1. /\ UNCHANGED <<session, conn, access, write>> /\ Live /\ k \in Conns
      /\ D \in Seq(Responses) /\ D # <<>> /\ m \in Responses
      /\ toClient'[k] = Tail(D)
  BY ReceiveIs
<1>2. /\ m = D[1] /\ 1 \in DOMAIN D
      /\ \A i \in DOMAIN Tail(D) : i + 1 \in DOMAIN D /\ Tail(D)[i] = D[i + 1]
  BY <1>1, TailIs
<1>3. \A t \in Nat : Answering(conn[k], Tail(D), t) => Answering(conn[k], D, t)
  BY <1>2 DEF Answering
<1>4. m.type \in {"opened", "verdict", "watched"} => ~ Terminal(m)
  BY DEF Terminal
<1>5. CASE m.type = "opened"
  <2>1. m.token \in Nat
    BY <1>1, <1>5, AskDownIs
  <2>2. Answering(conn[k], D, m.token)
    BY <1>2, <1>5 DEF Answering
  <2>3. client'.conn = client.conn
    BY <1>5, ReopenedIs
  <2>4. ~ conn[k].closed => Past
    BY <1>1, <2>1, <2>2 DEF Past
  <2> QED BY <1>1, <1>4, <1>5, <2>3, <2>4 DEF Past
<1>6. ASSUME client'.conn = client.conn,
             client'.at \in {"ready", "restoring"} => client.at \in {"ready", "restoring"}
      PROVE  Past' => Past
  BY <1>1, <1>3, <1>6 DEF Past
<1>7. ASSUME NEW done, NEW now, Settled(done, now), ~ Terminal(m)
      PROVE  (Past' => Past) /\ client'.conn = client.conn
  <2>1. client'.conn = client.conn
    BY <1>7 DEF Settled
  <2>2. client'.at \in {"ready", "restoring"} => client.at \in {"ready", "restoring"}
    BY <1>7 DEF Settled
  <2> QED BY <1>6, <2>1, <2>2
<1>8. ASSUME NEW at \in {"held", "ended"}, GivenUp(at)
      PROVE  (Past' => Past) /\ client'.conn = client.conn /\ client'.at = at
  <2>1. client'.conn = client.conn /\ client'.at = at
    BY <1>8 DEF GivenUp
  <2> QED BY <1>6, <2>1
<1> QED BY <1>4, <1>5, <1>7, <1>8, ReceiveCases

\* A step that takes nothing back keeps the end on its way.
LEMMA EndKept ==
  ASSUME EndTold, Past' => Past, access' = access, client'.conn = client.conn,
         \A i \in DOMAIN toClient[client.conn] :
           Terminal(toClient[client.conn][i]) =>
             \E j \in DOMAIN toClient'[client.conn] :
               toClient'[client.conn][j] = toClient[client.conn][i]
  PROVE  EndTold'
<1>1. SUFFICES ASSUME Past', ~ access
               PROVE  \E j \in DOMAIN toClient'[client.conn] : Terminal(toClient'[client.conn][j])
  BY DEF EndTold
<1>2. PICK i \in DOMAIN toClient[client.conn] : Terminal(toClient[client.conn][i])
  BY <1>1 DEF EndTold
<1> QED BY <1>2

\* A client that is told of its session's end is told before all else.
LEMMA EndStep ==
  ASSUME TInv, LInv, OwnerAgrees, RInv, EndTold, [Next]_vars
  PROVE  EndTold'
<1>1. client.conn \in Conns
  BY LinesTyped
<1>2. ASSUME Past' => Past, access' = access, client'.conn = client.conn, toClient' = toClient
      PROVE  EndTold'
  BY <1>2, EndKept
<1>3. ASSUME NEW n \in Commits, Transact(n) PROVE EndTold'
  <2>1. UNCHANGED <<client, toClient, conn, access, write>>
    BY <1>3, TransactIs
  <2> QED BY <1>2, <2>1 DEF Past, Live
<1>4. CASE Drop
  BY <1>4, DropIs DEF EndTold, Past, Live
<1>5. CASE Reconnect \/ RetryHeld
  <2>1. PICK k \in Conns : /\ client.conn <= k /\ Restore(k)
                           /\ \A t \in Nat : ~ Answering(conn[k], toClient[k], t)
    BY <1>5, RestoredLine
  <2>2. /\ UNCHANGED <<toClient, conn>>
        /\ client'.at = "opening" /\ client'.conn = k
    BY <2>1, RestoreIs
  <2>3. ~ Past'
    BY <2>1, <2>2 DEF Past
  <2> QED BY <2>3 DEF EndTold
<1>6. CASE Receive
  <2> DEFINE D == toClient[client.conn]
             m == Head(toClient[client.conn])
  <2>1. /\ access' = access /\ Live /\ D \in Seq(Responses) /\ D # <<>>
        /\ toClient'[client.conn] = Tail(D)
    BY <1>6, ReceiveIs
  <2>2. /\ m = D[1]
        /\ \A i \in DOMAIN D : i # 1 => i - 1 \in DOMAIN Tail(D) /\ Tail(D)[i - 1] = D[i]
    BY <2>1, TailIs
  <2>3. CASE Terminal(m)
    BY <1>6, <2>3, ReceivePast DEF EndTold, Past, Live
  <2>4. CASE ~ Terminal(m)
    <3>1. ASSUME NEW i \in DOMAIN D, Terminal(D[i])
          PROVE  \E j \in DOMAIN Tail(D) : Tail(D)[j] = D[i]
      BY <2>2, <2>4, <3>1
    <3> QED BY <1>6, <2>1, <3>1, ReceivePast, EndKept
  <2> QED BY <2>3, <2>4
<1>7. ASSUME NEW k \in Conns, ServerStep(k) PROVE EndTold'
  <2>1. CASE AdmitOpen(k)
    BY <2>1, AdmitOpenIs DEF EndTold
  <2>2. CASE ~ AdmitOpen(k)
    <3>1. access' = access
      BY <1>7, <2>2, ServerAnswers
    <3>2. PICK f \in Responses : /\ Answers(k, f)
                                 /\ f.type = "opened" => Answering(conn[k], toClient[k], f.token)
      BY <1>7, <2>2, ServerAnswers
    <3>3. client' = client
      BY <3>2 DEF Answers
    <3> QED BY <3>1, <3>2, <3>3, AnswerPast, EndKept
  <2> QED BY <2>1, <2>2
<1>8. ASSUME NEW k \in Conns, Close(k) PROVE EndTold'
  <2>1. /\ UNCHANGED <<client, toClient, access, write>>
        /\ conn'[k].closed = TRUE /\ conn'[k].work = conn[k].work
        /\ \A j \in Conns : j # k => conn'[j] = conn[j]
    BY <1>8, CloseIs
  <2>2. Past' => Past
    BY <1>1, <2>1 DEF Past, Live, Answering
  <2> QED BY <1>2, <2>1, <2>2
<1>9. CASE Expire
  <2>1. UNCHANGED <<client, toClient, conn, access, write>>
    BY <1>9, ExpireIs
  <2> QED BY <1>2, <2>1 DEF Past, Live
<1>10. CASE Deauthorize
  <2> DEFINE k == client.conn
             D == toClient[k]
  <2>1. /\ client' = client /\ access /\ conn'[k].closed = conn[k].closed
        /\ conn'[k].work = conn[k].work
        /\ IF k = session.owner /\ conn[k].handle /\ ~ Mute(k)
           THEN toClient'[k] = Append(D, Revoked) ELSE toClient'[k] = D
    BY <1>1, <1>10, DeauthorizeIs
  <2>2. PICK f \in Responses : f = Revoked
    BY FrameTypes
  <2>3. f.type = "revoked" /\ Terminal(f)
    BY <2>2 DEF Revoked, Terminal
  <2>4. /\ D \in Seq(Responses)
        /\ \A i \in DOMAIN Append(D, f) :
             (i \in DOMAIN D /\ Append(D, f)[i] = D[i]) \/ (i = Len(D) + 1 /\ Append(D, f)[i] = f)
        /\ Append(D, f)[Len(D) + 1] = f /\ Len(D) + 1 \in DOMAIN Append(D, f)
    BY <1>1, LinesTyped, AppendIs
  <2>5. \A t \in Nat : Answering(conn'[k], toClient'[k], t) => Answering(conn[k], D, t)
    BY <2>1, <2>2, <2>3, <2>4 DEF Answering
  <2>6. Past' => Past
    BY <2>1, <2>5 DEF Past, Live
  <2>7. SUFFICES ASSUME Past PROVE \E i \in DOMAIN toClient'[k] : Terminal(toClient'[k][i])
    BY <2>1, <2>6 DEF EndTold
  <2>8. session.owner = k /\ ~ conn[k].closed
    BY <2>1, <2>7 DEF RInv, OwnerHeld, Past
  <2>9. conn[k].handle
    <3>1. k # 0
      BY <1>1, ConnTyped
    <3> QED BY <2>8, <3>1 DEF OwnerAgrees
  <2>10. ~ Mute(k)
    BY <2>7, <2>8 DEF Mute, Reads, Past, Live
  <2> QED BY <2>1, <2>2, <2>3, <2>4, <2>8, <2>9, <2>10
<1>11. CASE Restart
  <2>1. client' = client /\ conn'[client.conn].closed = TRUE
    <3>1. client.conn <= client.conn
      BY <1>1 DEF Conns
    <3> QED BY <1>1, <1>11, <3>1, RestartIs
  <2> QED BY <2>1 DEF EndTold, Past
<1>12. CASE UNCHANGED vars
  BY <1>2, <1>12 DEF vars, Past, Live
<1>13. CASE WriteChange
  BY <1>2, <1>13, WriteChangeIs DEF Past, Live
<1> QED BY <1>3, <1>4, <1>5, <1>6, <1>7, <1>8, <1>9, <1>10, <1>11, <1>12, <1>13 DEF Next, WriteChange

\* What a connection does with the request it has in hand.
HandKept(k) ==
  /\ \A j \in Conns : conn'[j].work.at = "transact" => conn'[j].work = conn[j].work
  /\ \A j \in Conns : conn'[j].closed = conn[j].closed
  /\ session'.token = session.token /\ session'.owner \in {session.owner, 0}
  /\ client' = client /\ access' = access

\* The server's steps but an admission and a commit's beginning put no commit in
\* hand and leave the session's token alone.
LEMMA ServerHand ==
  ASSUME TInv, LInv, NEW k \in Conns, ServerStep(k), ~ AdmitOpen(k), ~ BeginTransact(k)
  PROVE  HandKept(k)
<1>1. Idle.at = "idle"
  BY IdleIs
<1>2. ASSUME conn'[k].work.at # "transact" \/ conn'[k].work = conn[k].work,
             conn'[k].closed = conn[k].closed,
             \A j \in Conns : j # k => conn'[j] = conn[j],
             session'.token = session.token, session'.owner \in {session.owner, 0},
             client' = client, access' = access
      PROVE  HandKept(k)
  <2>1. ASSUME NEW j \in Conns
        PROVE  /\ conn'[j].work.at = "transact" => conn'[j].work = conn[j].work
               /\ conn'[j].closed = conn[j].closed
    BY <1>2
  <2> QED BY <1>2, <2>1 DEF HandKept
<1>3. CASE BeginOpen(k)
  BY <1>2, <1>3, BeginOpenIs
<1>4. CASE RefuseOpen(k)
  BY <1>1, <1>2, <1>4, RefuseOpenIs
<1>5. CASE FinishOpen(k)
  <2>1. session'.owner \in {session.owner, 0}
    BY <1>5, FinishOpenIs
  <2> QED BY <1>1, <1>2, <1>5, <2>1, FinishOpenIs
<1>6. CASE DecideTransact(k)
  <2>1. conn[k].work.commit \in Commits
    BY <1>6 DEF DecideTransact, LInv, Issued, IssuedWork
  <2> QED BY <1>1, <1>2, <1>6, <2>1, DecideTransactIs
<1>7. CASE WatchSet(k)
  BY <1>2, <1>7, WatchSetIs
<1> QED BY <1>3, <1>4, <1>5, <1>6, <1>7 DEF ServerStep

\* A commit in hand under the session held is its owner's.
LEMMA HandOwnedStep ==
  ASSUME TInv, LInv, OwnerAgrees, HandOwned, [Next]_vars
  PROVE  HandOwned'
<1>1. ASSUME \A j \in Conns : conn'[j].work.at = "transact" => conn'[j].work = conn[j].work,
             session'.token = session.token, session'.owner \in {session.owner, 0}
      PROVE  HandOwned'
  BY <1>1 DEF HandOwned
<1>2. ASSUME conn' = conn, session' = session PROVE HandOwned'
  BY <1>1, <1>2
<1>3. CASE (\E n \in Commits : Transact(n)) \/ Drop \/ Reconnect \/ RetryHeld \/ Receive
  BY <1>2, <1>3 DEF Transact, Drop, Reconnect, RetryHeld, Restore, Receive, serverVars
<1>4. ASSUME NEW k \in Conns, ServerStep(k) PROVE HandOwned'
  <2>1. CASE AdmitOpen(k)
    <3>1. /\ session'.token = minted + 1
          /\ \A j \in Conns : j # k => conn'[j].work = conn[j].work
          /\ conn'[k].work.at # "transact"
      BY <2>1, AdmitRest
    <3>2. \A j \in Conns : conn[j].work.token \in 0 .. minted /\ minted \in Nat
      BY ConnTyped
    <3>3. ASSUME NEW j \in Conns, conn'[j].work.at = "transact" PROVE conn'[j].work.token # session'.token
      BY <3>1, <3>2, <3>3
    <3> QED BY <3>3 DEF HandOwned
  <2>2. CASE BeginTransact(k)
    <3>1. /\ session' = session
          /\ \A j \in Conns : j # k => conn'[j] = conn[j]
          /\ conn[k].handle \/ conn' = conn
      BY <2>2, BeginTransactIs
    <3>2. CASE conn' = conn
      BY <1>2, <3>1, <3>2
    <3>3. CASE conn[k].handle
      <4>1. session.owner = k
        BY <3>3 DEF OwnerAgrees
      <4> QED BY <3>1, <4>1 DEF HandOwned
    <3> QED BY <3>1, <3>2, <3>3
  <2>3. CASE ~ AdmitOpen(k) /\ ~ BeginTransact(k)
    BY <1>1, <1>4, <2>3, ServerHand DEF HandKept
  <2> QED BY <2>1, <2>2, <2>3
<1>5. ASSUME NEW k \in Conns, Close(k) PROVE HandOwned'
  <2>1. /\ conn'[k].work = conn[k].work /\ \A j \in Conns : j # k => conn'[j] = conn[j]
        /\ session'.token = session.token /\ session'.owner \in {session.owner, 0}
    BY <1>5, CloseIs
  <2> QED BY <1>1, <2>1
<1>6. CASE Expire \/ Deauthorize \/ Restart
  <2>1. session'.token = 0
    BY <1>6, ExpireIs, DeauthorizeIs, RestartIs, NoSessionIs
  <2> QED BY <2>1 DEF HandOwned
<1>7. CASE UNCHANGED vars
  BY <1>2, <1>7 DEF vars
<1>8. CASE WriteChange
  BY <1>2, <1>8, WriteChangeIs
<1> QED BY <1>3, <1>4, <1>5, <1>6, <1>7, <1>8 DEF Next, WriteChange

\* A commit in hand on the client's connection is one of a client past its
\* opening.
LEMMA HandPast ==
  ASSUME TInv, LInv, Live, ~ conn[client.conn].closed, conn[client.conn].work.at = "transact"
  PROVE  Past
<1> DEFINE x == AskWork(conn[client.conn].work)
<1>1. client.conn \in Conns /\ Issued
  BY LinesTyped DEF LInv
<1>2. x \in Commits /\ x \in 0 .. NoAsk
  BY <1>1, LineTyped
<1>3. x # OpenAsk /\ x # NoAsk
  BY <1>2, AskNumbers
<1> HIDE DEF x
<1>4. Asks(toServer[client.conn], x, toClient[client.conn], x)
  BY <1>3 DEF Asks
<1> QED BY <1>2, <1>3, <1>4, AskedPast DEF x

\* The commit in hand on the client's connection came from the session held.
LEMMA HandHoldsStep ==
  ASSUME TInv, LInv, RInv, HandHolds, [Next]_vars
  PROVE  HandHolds'
<1>1. client.conn \in Conns /\ client.conn # 0
  BY LinesTyped, ConnTyped
<1>2. ASSUME client'.conn = client.conn, client'.at \notin {"down", "ended"} => Live,
             access' = access, conn'[client.conn].closed = conn[client.conn].closed,
             session'.token = session.token,
             conn'[client.conn].work.at = "transact" =>
               conn'[client.conn].work = conn[client.conn].work
      PROVE  HandHolds'
  BY <1>2 DEF HandHolds, Live
<1>3. ASSUME NEW n \in Commits, Transact(n) PROVE HandHolds'
  <2>1. UNCHANGED <<client, session, conn, access, write>>
    BY <1>3, TransactIs
  <2> QED BY <1>2, <2>1 DEF Live
<1>4. CASE Drop
  BY <1>4, DropIs DEF HandHolds, Live
<1>5. CASE Reconnect \/ RetryHeld
  <2>1. PICK k \in Conns : /\ client.conn <= k /\ Restore(k)
                           /\ conn[k].work.at = "idle"
    BY <1>5, RestoredLine
  <2>2. conn' = conn /\ client'.conn = k
    BY <2>1, RestoreIs
  <2> QED BY <2>1, <2>2 DEF HandHolds
<1>6. CASE Receive
  <2>1. UNCHANGED <<session, conn, access, write>> /\ Live
    BY <1>6, ReceiveIs
  <2> QED BY <1>2, <1>6, <2>1, ReceivePast
<1>7. ASSUME NEW k \in Conns, ServerStep(k) PROVE HandHolds'
  <2>1. CASE AdmitOpen(k)
    <3>1. /\ client' = client /\ access' = access
          /\ \A j \in Conns : j # k => conn'[j].work = conn[j].work /\ conn'[j].closed = conn[j].closed
          /\ conn'[k].work.at # "transact"
      BY <2>1, AdmitRest
    <3>2. SUFFICES ASSUME Live, ~ conn'[client.conn].closed, conn'[client.conn].work.at = "transact"
                   PROVE  FALSE
      BY <3>1 DEF HandHolds, Live
    <3>3. client.conn # k
      BY <3>1, <3>2
    <3>4. conn[client.conn].work.at = "transact" /\ ~ conn[client.conn].closed
      BY <1>1, <3>1, <3>2, <3>3
    <3>5. Past
      BY <3>2, <3>4, HandPast
    <3> QED BY <2>1, <3>3, <3>5, AdmitFinds
  <2>2. CASE BeginTransact(k)
    <3>1. /\ UNCHANGED <<client, session, access, write>>
          /\ \A j \in Conns : j # k => conn'[j] = conn[j]
          /\ conn'[k].closed = conn[k].closed
          /\ conn'[k].work.token = session.token \/ conn' = conn
      BY <2>2, BeginTransactIs
    <3>2. CASE client.conn = k /\ conn'[k].work.token = session.token
      BY <3>1, <3>2 DEF HandHolds
    <3>3. CASE client.conn # k \/ conn' = conn
      <4>1. conn'[client.conn] = conn[client.conn]
        BY <1>1, <3>1, <3>3
      <4> QED BY <1>2, <3>1, <4>1 DEF Live
    <3> QED BY <3>1, <3>2, <3>3
  <2>3. CASE ~ AdmitOpen(k) /\ ~ BeginTransact(k)
    <3>1. HandKept(k)
      BY <1>7, <2>3, ServerHand
    <3> QED BY <1>1, <1>2, <3>1 DEF HandKept, Live
  <2> QED BY <2>1, <2>2, <2>3
<1>8. ASSUME NEW k \in Conns, Close(k) PROVE HandHolds'
  <2>1. /\ UNCHANGED <<client, access, write>>
        /\ conn'[k].closed = TRUE /\ \A j \in Conns : j # k => conn'[j] = conn[j]
        /\ session'.token = session.token
    BY <1>8, CloseIs
  <2>2. CASE client.conn = k
    BY <2>1, <2>2 DEF HandHolds
  <2>3. CASE client.conn # k
    <3>1. conn'[client.conn] = conn[client.conn]
      BY <1>1, <2>1, <2>3
    <3> QED BY <1>2, <2>1, <3>1 DEF Live
  <2> QED BY <2>2, <2>3
<1>9. CASE Expire
  <2>1. UNCHANGED <<client, conn, access, write>> /\ session.owner = 0
    BY <1>9, ExpireIs
  <2>2. ASSUME Live, access, ~ conn[client.conn].closed, conn[client.conn].work.at = "transact"
        PROVE  FALSE
    BY <1>1, <2>1, <2>2, HandPast DEF RInv, OwnerHeld
  <2> QED BY <2>1, <2>2 DEF HandHolds, Live
<1>10. CASE Deauthorize
  BY <1>10, DeauthorizeIs DEF HandHolds
<1>11. CASE Restart
  <2>1. client' = client /\ conn'[client.conn].work = Idle
    BY <1>1, <1>11, RestartIs
  <2> QED BY <2>1, IdleIs DEF HandHolds
<1>12. CASE UNCHANGED vars
  BY <1>2, <1>12 DEF vars, Live
<1>13. CASE WriteChange
  BY <1>2, <1>13, WriteChangeIs DEF Live
<1> QED BY <1>3, <1>4, <1>5, <1>6, <1>7, <1>8, <1>9, <1>10, <1>11, <1>12, <1>13 DEF Next, WriteChange

\* What a step makes of a call.
LEMMA CallSteps ==
  ASSUME TInv, NEW n \in Commits, [Next]_vars
  PROVE  LET m == Head(toClient[client.conn]) IN
         \/ told'[n] = told[n]
         \/ told[n] = "unissued" /\ told'[n] = "waiting" /\ Transact(n)
         \/ /\ told[n] = "waiting" /\ Receive /\ m.type = "verdict" /\ m.commit = n
            /\ told'[n] = m.how /\ m.how \in Hows
         \/ /\ told[n] = "waiting" /\ Receive /\ Terminal(m) /\ client'.at = "ended"
            /\ told'[n] = "lost"
<1> DEFINE m == Head(toClient[client.conn])
<1>1. told \in [Commits -> {"unissued", "waiting", "accepted", "refused", "denied", "lost"}]
  BY DEF TInv, TypeOK
<1>2. CASE told' = told
  BY <1>2
<1>3. ASSUME NEW p \in Commits, Transact(p)
      PROVE  told'[n] = told[n] \/ (told[n] = "unissued" /\ told'[n] = "waiting" /\ Transact(n))
  <2>1. told[p] = "unissued" /\ told' = [told EXCEPT ![p] = "waiting"]
    BY <1>3, TransactIs
  <2>2. CASE p = n
    BY <1>1, <1>3, <2>1, <2>2
  <2>3. CASE p # n
    BY <1>1, <2>1, <2>3
  <2> QED BY <2>2, <2>3
<1>4. CASE Receive
  <2>1. CASE m.type = "opened"
    BY <1>2, <1>4, <2>1, ReopenedIs
  <2>2. CASE m.type = "verdict" /\ Settled(m.commit, Told(m.commit, m.how))
    <3>1. told' = Told(m.commit, m.how) /\ m.type = "verdict"
      BY <2>2 DEF Settled
    <3>2. m.commit \in Commits /\ m.how \in Hows
      <4>1. m \in Responses
        BY <1>4, ReceiveIs
      <4> QED BY <2>2, <4>1, AskDownIs
    <3> HIDE DEF m
    <3>3. CASE told[m.commit] = "waiting" /\ m.commit = n
      BY <1>1, <1>4, <3>1, <3>2, <3>3 DEF Told, m
    <3>4. CASE told[m.commit] # "waiting" \/ m.commit # n
      BY <1>1, <3>1, <3>2, <3>4 DEF Told
    <3> QED BY <1>4, <3>1, <3>3, <3>4 DEF m
  <2>3. CASE m.type = "watched" /\ Settled(0, told)
    BY <1>2, <2>3 DEF Settled
  <2>4. CASE Terminal(m) /\ GivenUp("ended")
               /\ told' = [p \in Commits |-> IF told[p] = "waiting" THEN "lost" ELSE told[p]]
    BY <1>4, <2>4 DEF GivenUp
  <2> QED BY <1>2, <1>4, <2>1, <2>2, <2>3, <2>4, ReceiveCases
<1>5. CASE \/ Drop \/ Reconnect \/ RetryHeld \/ Expire \/ Deauthorize \/ Restart
           \/ WithdrawWrite \/ RestoreWrite \/ UNCHANGED vars
  BY <1>2, <1>5 DEF Drop, Reconnect, RetryHeld, Restore, Expire, Deauthorize, Restart,
                    WithdrawWrite, RestoreWrite, vars
<1>6. ASSUME NEW k \in Conns, ServerStep(k) \/ Close(k) PROVE told' = told
  BY <1>6 DEF ServerStep, Close, BeginOpen, RefuseOpen, AdmitOpen, RegisterOpen, FinishOpen,
              BeginTransact, DecideTransact, WatchSet
<1> QED BY <1>2, <1>3, <1>4, <1>5, <1>6 DEF Next

\* A session that has ended stays so.
LEMMA EndedStays ==
  ASSUME TInv, client.at = "ended", [Next]_vars
  PROVE  client'.at = "ended"
<1>1. ASSUME NEW k \in Conns, ServerStep(k) \/ Close(k) PROVE client' = client
  BY <1>1 DEF ServerStep, Close, BeginOpen, RefuseOpen, AdmitOpen, RegisterOpen, FinishOpen,
              BeginTransact, DecideTransact, WatchSet
<1> QED BY <1>1 DEF Next, Transact, Drop, Reconnect, RetryHeld, Receive, Expire, Deauthorize,
                    WithdrawWrite, RestoreWrite, Restart, vars

\* What the server sends a connection in one step: no verdict, or the refusal of a
\* commit that came without a handle, or the decision of the commit in hand.
Heard(j) ==
  \/ toClient'[j] = toClient[j]
  \/ \E f \in Responses : f.type # "verdict" /\ toClient'[j] = Append(toClient[j], f)
  \/ /\ BeginTransact(j) /\ ~ conn[j].handle /\ NextFrame(j).commit \in Commits
     /\ toClient'[j] = Append(toClient[j], Verdict(NextFrame(j).commit, "refused"))
  \/ /\ DecideTransact(j) /\ conn[j].work.commit \in Commits /\ ~ conn[j].closed
     /\ \E how \in Hows :
          /\ toClient'[j] = Append(toClient[j], Verdict(conn[j].work.commit, how))
          /\ Decided(j, how)

\* The server's steps send that.
LEMMA ServerHeard ==
  ASSUME TInv, LInv, NEW j \in Conns, Deauthorize \/ \E k \in Conns : ServerStep(k)
  PROVE  Heard(j)
<1>1. ASSUME toClient'[j] = toClient[j] PROVE Heard(j)
  BY <1>1 DEF Heard
<1>2. ASSUME NEW f \in Responses, f.type # "verdict", toClient'[j] = Append(toClient[j], f)
      PROVE  Heard(j)
  BY <1>2 DEF Heard
<1>3. ASSUME NEW k \in Conns, BeginOpen(k) PROVE Heard(j)
  BY <1>1, <1>3, BeginOpenIs
<1>4. ASSUME NEW k \in Conns, RefuseOpen(k) PROVE Heard(j)
  <2>1. \/ toClient'[j] = toClient[j]
        \/ \E why \in {"denied", "retriable", "revoked"} :
             toClient'[j] = Append(toClient[j], Refusal(why))
    BY <1>4, RefuseOpenIs
  <2>2. ASSUME NEW why \in {"denied", "retriable", "revoked"},
               toClient'[j] = Append(toClient[j], Refusal(why))
        PROVE  Heard(j)
    <3>1. PICK f \in Responses : f = Refusal(why)
      BY FrameTypes
    <3>2. f.type # "verdict"
      BY <3>1 DEF Refusal
    <3> QED BY <1>2, <2>2, <3>1, <3>2
  <2> QED BY <1>1, <2>1, <2>2
<1>5. ASSUME NEW k \in Conns, AdmitOpen(k) PROVE Heard(j)
  <2>1. \/ toClient'[j] = toClient[j]
        \/ toClient'[j] = Append(toClient[j], Revoked)
        \/ toClient'[j] = Append(toClient[j], Opened(minted + 1, FALSE))
    BY <1>5, AdmitOpenIs
  <2>2. PICK f \in Responses : f = Revoked
    BY FrameTypes
  <2>3. PICK g \in Responses : g = Opened(minted + 1, FALSE)
    <3>1. minted + 1 \in Nat
      BY ConnTyped
    <3> QED BY <3>1, FrameTypes
  <2>4. f.type # "verdict" /\ g.type # "verdict"
    BY <2>2, <2>3 DEF Revoked, Opened
  <2> QED BY <1>1, <1>2, <2>1, <2>2, <2>3, <2>4
<1>6. ASSUME NEW k \in Conns, FinishOpen(k) PROVE Heard(j)
  <2>1. \/ toClient'[j] = toClient[j]
        \/ toClient'[j] = Append(toClient[j], Refusal("revoked"))
        \/ toClient'[j] = Append(toClient[j], Opened(conn[k].work.token, TRUE))
    BY <1>6, FinishOpenIs
  <2>2. PICK f \in Responses : f = Refusal("revoked")
    BY FrameTypes
  <2>3. PICK g \in Responses : g = Opened(conn[k].work.token, TRUE)
    BY ConnTyped, FrameTypes
  <2>4. f.type # "verdict" /\ g.type # "verdict"
    BY <2>2, <2>3 DEF Refusal, Opened
  <2> QED BY <1>1, <1>2, <2>1, <2>2, <2>3, <2>4
<1>7. ASSUME NEW k \in Conns, BeginTransact(k) PROVE Heard(j)
  <2>1. /\ NextFrame(k).commit \in Commits
        /\ j # k => toClient'[j] = toClient[j]
        /\ \/ toClient'[j] = toClient[j]
           \/ /\ ~ conn[k].handle
              /\ toClient'[k] = Append(toClient[k], Verdict(NextFrame(k).commit, "refused"))
    BY <1>7, BeginTransactIs
  <2>2. CASE j = k
    <3>1. BeginTransact(j)
      BY <1>7, <2>2 DEF BeginTransact, Takes, NextFrame, Replies, Reply
    <3>2. NextFrame(j) = NextFrame(k)
      BY <2>2 DEF NextFrame
    <3>3. /\ NextFrame(j).commit \in Commits
          /\ \/ toClient'[j] = toClient[j]
             \/ /\ ~ conn[j].handle
                /\ toClient'[j] = Append(toClient[j], Verdict(NextFrame(j).commit, "refused"))
      BY <2>1, <2>2, <3>2
    <3> QED BY <1>1, <3>1, <3>3 DEF Heard
  <2> QED BY <1>1, <2>1, <2>2
<1>8. ASSUME NEW k \in Conns, DecideTransact(k) PROVE Heard(j)
  <2>1. conn[k].work.commit \in Commits
    BY <1>8 DEF DecideTransact, LInv, Issued, IssuedWork
  <2>2. j # k => toClient'[j] = toClient[j]
    BY <1>8, <2>1, DecideTransactIs
  <2>3. PICK how \in Hows :
          /\ \/ Mute(k) /\ toClient'[k] = toClient[k]
             \/ /\ ~ Mute(k)
                /\ toClient'[k] = Append(toClient[k], Verdict(conn[k].work.commit, how))
          /\ Decided(k, how)
    BY <1>8, <2>1, DecideTransactIs
  <2>4. CASE j = k /\ ~ conn[k].closed
    <3>1. DecideTransact(j)
      BY <1>8, <2>4 DEF DecideTransact, Replies, Reply, Answered
    <3>2. \/ toClient'[j] = toClient[j]
          \/ toClient'[j] = Append(toClient[j], Verdict(conn[j].work.commit, how))
      BY <2>3, <2>4
    <3>3. Decided(j, how)
      BY <2>3, <2>4
    <3> QED BY <1>1, <2>1, <2>4, <3>1, <3>2, <3>3 DEF Heard
  <2>5. CASE j = k /\ conn[k].closed
    BY <1>1, <2>3, <2>5 DEF Mute
  <2> QED BY <1>1, <2>2, <2>4, <2>5
<1>9. ASSUME NEW k \in Conns, WatchSet(k) PROVE Heard(j)
  <2>1. \/ toClient'[j] = toClient[j]
        \/ \E how \in {"ok", "retriable"} : toClient'[j] = Append(toClient[j], Watched(how))
    BY <1>9, WatchSetIs
  <2>2. ASSUME NEW how \in {"ok", "retriable"}, toClient'[j] = Append(toClient[j], Watched(how))
        PROVE  Heard(j)
    <3>1. PICK f \in Responses : f = Watched(how)
      BY FrameTypes
    <3>2. f.type # "verdict"
      BY <3>1 DEF Watched
    <3> QED BY <1>2, <2>2, <3>1, <3>2
  <2> QED BY <1>1, <2>1, <2>2
<1>10. CASE Deauthorize
  <2>1. toClient'[j] = toClient[j] \/ toClient'[j] = Append(toClient[j], Revoked)
    BY <1>10, DeauthorizeIs
  <2>2. PICK f \in Responses : f = Revoked
    BY FrameTypes
  <2>3. f.type # "verdict"
    BY <2>2 DEF Revoked
  <2> QED BY <1>1, <1>2, <2>1, <2>2, <2>3
<1> QED BY <1>3, <1>4, <1>5, <1>6, <1>7, <1>8, <1>9, <1>10 DEF ServerStep

\* A verdict of acceptance is sent once the commit is applied.
LEMMA AcceptedStep ==
  ASSUME TInv, LInv, AcceptedTrue, [Next]_vars
  PROVE  AcceptedTrue'
<1> DEFINE Fine(D) == \A i \in DOMAIN D :
                        D[i].type = "verdict" /\ D[i].how = "accepted" => D[i].commit \in applied'
<1>1. SUFFICES ASSUME NEW j \in Conns PROVE Fine(toClient'[j])
  BY DEF AcceptedTrue
<1>2. Fine(toClient[j]) /\ toClient[j] \in Seq(Responses)
  BY AppliedSteps, LinesTyped DEF AcceptedTrue
<1>3. ASSUME toClient'[j] = toClient[j] PROVE Fine(toClient'[j])
  BY <1>2, <1>3
<1>4. ASSUME NEW f \in Responses, toClient'[j] = Append(toClient[j], f),
             f.type = "verdict" /\ f.how = "accepted" => f.commit \in applied'
      PROVE  Fine(toClient'[j])
  <2>1. \A i \in DOMAIN Append(toClient[j], f) :
          \/ i \in DOMAIN toClient[j] /\ Append(toClient[j], f)[i] = toClient[j][i]
          \/ Append(toClient[j], f)[i] = f
    BY <1>2, AppendIs
  <2> QED BY <1>2, <1>4, <2>1
<1>5. ASSUME NEW how \in Hows, NEW p \in Commits, how = "accepted" => p \in applied',
             toClient'[j] = Append(toClient[j], Verdict(p, how))
      PROVE  Fine(toClient'[j])
  <2>1. PICK f \in Responses : f = Verdict(p, how)
    BY FrameTypes
  <2>2. f.how = how /\ f.commit = p
    BY <2>1 DEF Verdict
  <2> QED BY <1>4, <1>5, <2>1, <2>2
<1>7. ASSUME NEW f \in Responses, f.type # "verdict", toClient'[j] = Append(toClient[j], f)
      PROVE  Fine(toClient'[j])
  BY <1>4, <1>7
<1>8. CASE \/ \E n \in Commits : Transact(n)
           \/ Reconnect \/ RetryHeld \/ (\E k \in Conns : Close(k)) \/ Expire \/ Restart
           \/ WriteChange \/ UNCHANGED vars
  BY <1>3, <1>8 DEF Transact, Reconnect, RetryHeld, Restore, Close, Expire, Restart,
                    WriteChange, WithdrawWrite, RestoreWrite, vars
<1>9. CASE Drop
  <2>1. toClient'[j] = toClient[j] \/ toClient'[j] = <<>>
    BY <1>9, DropIs
  <2> QED BY <1>3, <2>1
<1>10. CASE Receive
  <2>1. /\ toClient[client.conn] \in Seq(Responses) /\ toClient[client.conn] # <<>>
        /\ toClient'[client.conn] = Tail(toClient[client.conn])
        /\ j # client.conn => toClient'[j] = toClient[j]
    BY <1>10, ReceiveIs
  <2>2. \A i \in DOMAIN Tail(toClient[client.conn]) :
          /\ i + 1 \in DOMAIN toClient[client.conn]
          /\ Tail(toClient[client.conn])[i] = toClient[client.conn][i + 1]
    BY <2>1, TailIs
  <2>3. CASE j = client.conn
    <3> DEFINE D == toClient[j]
    <3>1. toClient'[j] = Tail(D)
      BY <2>1, <2>3
    <3>2. \A i \in DOMAIN Tail(D) : i + 1 \in DOMAIN D /\ Tail(D)[i] = D[i + 1]
      BY <2>2, <2>3
    <3>3. \A i \in DOMAIN D : D[i].type = "verdict" /\ D[i].how = "accepted" => D[i].commit \in applied'
      BY <1>2
    <3> HIDE DEF D
    <3>4. Fine(Tail(D))
      BY <3>2, <3>3
    <3> QED BY <3>1, <3>4
  <2> QED BY <1>3, <2>1, <2>3
<1>11. CASE Deauthorize \/ \E k \in Conns : ServerStep(k)
  <2>1. Heard(j)
    BY <1>11, ServerHeard
  <2>2. "refused" \in Hows /\ \A how \in Hows : Decided(j, how) /\ how = "accepted"
                                                  => conn[j].work.commit \in applied'
    BY DEF Hows, Decided
  <2> QED BY <1>3, <1>5, <1>7, <2>1, <2>2 DEF Heard
<1> QED BY <1>8, <1>9, <1>10, <1>11 DEF Next, WriteChange

\* What a call has come to stays true.
LEMMA ToldStep ==
  ASSUME TInv, LInv, OwnerAgrees, ToldTrue, AcceptedTrue, RefusedFinal, [Next]_vars
  PROVE  ToldTrue'
<1>1. SUFFICES ASSUME NEW n \in Commits
               PROVE  /\ told'[n] = "accepted" => n \in applied'
                      /\ \A how \in {"refused", "denied"} : told'[n] = how => Over(n, how)'
                      /\ told'[n] = "lost" => client'.at = "ended"
  BY DEF ToldTrue
<1> DEFINE m == Head(toClient[client.conn])
<1>2. applied \subseteq applied'
  BY AppliedSteps
<1>3. ASSUME Receive
      PROVE  /\ Live /\ client.conn \in Conns /\ m = toClient[client.conn][1]
             /\ 1 \in DOMAIN toClient[client.conn] /\ m \in Responses
             /\ \A j \in DOMAIN toClient[client.conn] : ~ (j < 1)
  <2>1. /\ Live /\ client.conn \in Conns /\ m \in Responses
        /\ toClient[client.conn] \in Seq(Responses) /\ toClient[client.conn] # <<>>
    BY <1>3, ReceiveIs
  <2>2. /\ m = toClient[client.conn][1] /\ 1 \in DOMAIN toClient[client.conn]
        /\ DOMAIN toClient[client.conn] = 1 .. Len(toClient[client.conn])
    BY <2>1, TailIs
  <2> QED BY <2>1, <2>2
<1>4. ASSUME told'[n] = "accepted" PROVE n \in applied'
  <2>1. told[n] = "accepted" \/ (Receive /\ m.type = "verdict" /\ m.commit = n /\ m.how = "accepted")
    BY <1>4, CallSteps
  <2>2. CASE told[n] = "accepted"
    BY <1>2, <2>2 DEF ToldTrue
  <2>3. CASE Receive /\ m.type = "verdict" /\ m.commit = n /\ m.how = "accepted"
    BY <1>2, <1>3, <2>3 DEF AcceptedTrue
  <2> QED BY <2>1, <2>2, <2>3
<1>5. ASSUME NEW how \in {"refused", "denied"}, told'[n] = how PROVE Over(n, how)'
  <2>1. \/ told[n] = how
        \/ told[n] = "waiting" /\ Receive /\ m.type = "verdict" /\ m.commit = n /\ m.how = how
    BY <1>5, CallSteps
  <2>2. Over(n, how)
    <3>1. CASE told[n] = how
      BY <3>1 DEF ToldTrue
    <3>2. CASE Receive /\ m.type = "verdict" /\ m.commit = n /\ m.how = how
      <4>1. RefusedAt(toClient[client.conn], 1, n, how)
        BY <1>3, <3>2 DEF RefusedAt
      <4> QED BY <1>3, <3>2, <4>1 DEF RefusedFinal
    <3> QED BY <2>1, <3>1, <3>2
  <2>3. NotSent(n)
    <3>1. told[n] # "unissued" /\ told'[n] # "waiting"
      BY <1>5, <2>1
    <3> QED BY <3>1, NotResent
  <2> QED BY <2>2, <2>3, OverStep
<1>6. ASSUME told'[n] = "lost" PROVE client'.at = "ended"
  <2>1. told[n] = "lost" \/ client'.at = "ended"
    BY <1>6, CallSteps DEF Hows
  <2> QED BY <2>1, EndedStays DEF ToldTrue
<1> QED BY <1>4, <1>5, <1>6

\* A refusal on its way stays true in every step but the client's own.
LEMMA RefusedStays ==
  ASSUME TInv, LInv, OwnerAgrees, RefusedFinal, Live, [Next]_vars, ~ Receive,
         NEW n \in Commits, NEW how \in {"refused", "denied"},
         NEW i \in DOMAIN toClient[client.conn], RefusedAt(toClient[client.conn], i, n, how)
  PROVE  Over(n, how)'
<1>1. Over(n, how)
  BY DEF RefusedFinal
<1>2. client.conn \in Conns /\ toClient[client.conn][i] \in Responses
  BY LinesTyped
<1>3. AskDown(toClient[client.conn][i]) = n
  BY <1>2, AskDownIs DEF RefusedAt
<1>4. told[n] # "unissued"
  BY <1>2, <1>3 DEF LInv, Issued, IssuedDown
<1>5. NotSent(n)
  BY <1>4, NotResent
<1> QED BY <1>1, <1>5, OverStep

\* A step that leaves the client alone and adds at most one frame for it keeps its
\* refusals true, if that frame is none or a true one.
LEMMA RefusedGrows ==
  ASSUME TInv, LInv, OwnerAgrees, RefusedFinal, [Next]_vars, ~ Receive, client' = client,
         NEW f \in Responses,
         toClient'[client.conn] \in {toClient[client.conn], Append(toClient[client.conn], f)},
         \A n \in Commits : \A how \in {"refused", "denied"} :
           (/\ Live /\ f.type = "verdict" /\ f.how = how /\ f.commit = n
            /\ toClient'[client.conn] = Append(toClient[client.conn], f)
            /\ \A j \in DOMAIN toClient[client.conn] : ~ Terminal(toClient[client.conn][j]))
           => Over(n, how)'
  PROVE  RefusedFinal'
<1> DEFINE D == toClient[client.conn]
           E == toClient'[client.conn]
<1>1. D \in Seq(Responses)
  BY LinesTyped
<1>2. SUFFICES ASSUME Live, NEW n \in Commits, NEW how \in {"refused", "denied"},
                      NEW i \in DOMAIN E, RefusedAt(E, i, n, how)
               PROVE  Over(n, how)'
  BY DEF RefusedFinal, Live
<1>3. /\ DOMAIN D = 1 .. Len(D) /\ Len(D) \in Nat
      /\ \A j \in 1 .. Len(D) : Append(D, f)[j] = D[j]
      /\ DOMAIN Append(D, f) = 1 .. Len(D) + 1
      /\ Append(D, f)[Len(D) + 1] = f
  BY <1>1, AppendIs
<1>4. \A j \in DOMAIN D : j \in DOMAIN E /\ E[j] = D[j]
  BY <1>3
<1>5. ASSUME i \in DOMAIN D PROVE Over(n, how)'
  <2>1. RefusedAt(D, i, n, how)
    BY <1>2, <1>4, <1>5 DEF RefusedAt
  <2> QED BY <1>2, <1>5, <2>1, RefusedStays
<1>6. ASSUME i \notin DOMAIN D PROVE Over(n, how)'
  <2>1. E = Append(D, f) /\ i = Len(D) + 1
    BY <1>2, <1>3, <1>6
  <2>2. f.type = "verdict" /\ f.how = how /\ f.commit = n
    BY <1>2, <1>3, <2>1 DEF RefusedAt
  <2>3. \A j \in DOMAIN D : ~ Terminal(D[j])
    <3>1. \A j \in DOMAIN D : j < i
      BY <1>3, <2>1
    <3> QED BY <1>2, <1>4, <3>1 DEF RefusedAt
  <2> QED BY <1>2, <2>1, <2>2, <2>3
<1> QED BY <1>5, <1>6

\* A step that adds none.
LEMMA RefusedKept ==
  ASSUME TInv, LInv, OwnerAgrees, RefusedFinal, [Next]_vars, ~ Receive, client' = client,
         toClient'[client.conn] = toClient[client.conn]
  PROVE  RefusedFinal'
<1>1. PICK f \in Responses : f = Watched("ok")
  BY FrameTypes
<1>2. f.type # "verdict"
  BY <1>1 DEF Watched
<1>3. toClient'[client.conn] \in {toClient[client.conn], Append(toClient[client.conn], f)}
  OBVIOUS
<1> QED BY <1>2, <1>3, RefusedGrows

\* Where the client is past its opening and not told of an end, the session held
\* is its connection's.
LEMMA PastOwns ==
  ASSUME TInv, OwnerAgrees, RInv, EndTold, Past,
         \A j \in DOMAIN toClient[client.conn] : ~ Terminal(toClient[client.conn][j])
  PROVE  /\ access /\ session.owner = client.conn /\ conn[client.conn].handle
         /\ session.token # 0
<1>1. access
  BY DEF EndTold
<1>2. session.owner = client.conn
  BY <1>1 DEF RInv, OwnerHeld
<1>3. client.conn \in Conns /\ client.conn # 0
  BY LinesTyped, ConnTyped
<1> QED BY <1>1, <1>2, <1>3 DEF OwnerAgrees

\* A commit refused on the client's connection is final.
LEMMA DecisionFinal ==
  ASSUME TInv, LInv, NEW how \in {"refused", "denied"}, Decided(client.conn, how),
         OwnerAgrees, RInv, EndTold, HandHolds, HandOwned, Live,
         NEW n \in Commits, n = conn[client.conn].work.commit,
         \A j \in DOMAIN toClient[client.conn] : ~ Terminal(toClient[client.conn][j]),
         DecideTransact(client.conn), ~ conn[client.conn].closed
  PROVE  Over(n, how)'
<1> DEFINE k == client.conn
<1>1. k \in Conns /\ Issued /\ k # 0
  BY LinesTyped, ConnTyped DEF LInv
<1>2. conn[k].work.at = "transact"
  BY DEF DecideTransact
<1>3. AskWork(conn[k].work) = n
  BY <1>1, <1>2, LineTyped
<1>4. Past
  BY <1>2, HandPast
<1>5. access /\ session.owner = k /\ session.token # 0
  BY <1>4, PastOwns
<1>6. conn[k].work.token = session.token
  BY <1>2, <1>5 DEF HandHolds
<1>7. /\ session' = session /\ toServer' = toServer /\ conn'[k].work = Idle
      /\ \A j \in Conns : j # k => conn'[j] = conn[j]
  BY <1>1, <1>3, DecideTransactIs
<1>8. \A i \in DOMAIN toServer[k] : AskUp(toServer[k][i]) # n
  <2>1. Queue(conn[k], toServer[k]) = toServer[k]
    BY DEF Queue
  <2>2. Distinct(toServer[k], n, toClient[k])
    BY <1>3, <2>1 DEF LInv, LiveLine, Line, Orderly
  <2> QED BY <2>2 DEF Distinct
<1>9. ASSUME NEW j \in Conns PROVE DeadAt(session', conn'[j], toServer'[j], n)
  <2>1. CASE j = k
    BY <1>7, <1>8, <2>1, IdleIs DEF DeadAt
  <2>2. CASE j # k
    <3>1. ~ conn[j].handle
      BY <1>5, <2>2 DEF OwnerAgrees
    <3>2. conn[j].work.at = "transact" => conn[j].work.token # session.token
      BY <1>1, <1>5, <2>2 DEF HandOwned
    <3> QED BY <1>7, <2>2, <3>1, <3>2 DEF DeadAt
  <2> QED BY <2>1, <2>2
<1>10. how = "refused" => n \notin applied'
  BY <1>5, <1>6 DEF Decided
<1>11. how = "denied" => write' # "granted"
  <2>1. write' = write
    BY DEF DecideTransact
  <2> QED BY <2>1 DEF Decided
<1>12. Final(n)'
  BY <1>9 DEF Final
<1> QED BY <1>10, <1>11, <1>12 DEF Over

\* A refusal behind what the client hears stays true.
LEMMA RefusedHears ==
  ASSUME TInv, LInv, OwnerAgrees, RefusedFinal, Receive, [Next]_vars
  PROVE  RefusedFinal'
<1> DEFINE k == client.conn
           D == toClient[k]
           m == Head(toClient[client.conn])
           U == Queue(conn[k], toServer[k])
           x == AskWork(conn[k].work)
<1>1. /\ Live /\ k \in Conns /\ D \in Seq(Responses) /\ D # <<>> /\ m \in Responses
      /\ toClient'[k] = Tail(D) /\ client'.conn = client.conn
      /\ Terminal(m) => client'.at = "ended"
  BY ReceiveIs, ReceivePast
<1>2. /\ m = D[1] /\ DOMAIN D = 1 .. Len(D) /\ Len(D) \in Nat
      /\ \A i \in DOMAIN Tail(D) : i + 1 \in DOMAIN D /\ Tail(D)[i] = D[i + 1]
      /\ DOMAIN Tail(D) = 1 .. Len(D) - 1
      /\ Tail(D) \in Seq(Responses)
      /\ \A i \in DOMAIN D : i # 1 => i - 1 \in DOMAIN Tail(D) /\ Tail(D)[i - 1] = D[i]
  BY <1>1, TailIs
<1>3. SUFFICES ASSUME client'.at \notin {"down", "ended"}, NEW n \in Commits,
                      NEW how \in {"refused", "denied"},
                      NEW i \in DOMAIN Tail(D), RefusedAt(Tail(D), i, n, how)
               PROVE  Over(n, how)'
  BY <1>1 DEF RefusedFinal, Live
<1>4. ~ Terminal(m)
  BY <1>1, <1>3
<1>5. RefusedAt(D, i + 1, n, how) /\ i + 1 \in DOMAIN D
  <2>1. /\ Tail(D)[i].type = "verdict" /\ Tail(D)[i].how = how /\ Tail(D)[i].commit = n
        /\ \A j \in DOMAIN Tail(D) : j < i => ~ Terminal(Tail(D)[j])
    BY <1>3 DEF RefusedAt
  <2>2. ASSUME NEW j \in DOMAIN D, j < i + 1 PROVE ~ Terminal(D[j])
    <3>1. CASE j = 1
      BY <1>2, <1>4, <3>1
    <3>2. CASE j # 1
      <4>1. j - 1 \in DOMAIN Tail(D) /\ Tail(D)[j - 1] = D[j] /\ j - 1 < i
        BY <1>2, <1>3, <2>2, <3>2
      <4> QED BY <2>1, <4>1
    <3> QED BY <3>1, <3>2
  <2>3. i + 1 \in DOMAIN D /\ Tail(D)[i] = D[i + 1]
    BY <1>2, <1>3
  <2> QED BY <2>1, <2>2, <2>3 DEF RefusedAt
<1>6. Over(n, how)
  BY <1>1, <1>5 DEF RefusedFinal
<1>7. n \in 0 .. NoAsk /\ n # OpenAsk /\ n # NoAsk /\ n # 0
  BY AskNumbers
<1>8. AskDown(Tail(D)[i]) = n
  <2>1. Tail(D)[i] \in Responses
    BY <1>2, <1>3
  <2> QED BY <1>3, <2>1, AskDownIs DEF RefusedAt
<1>9. Asks(U, x, Tail(D), n)
  BY <1>3, <1>7, <1>8 DEF Asks
<1>10. /\ client.at \in {"ready", "opening", "restoring", "held"}
       /\ client.awaiting \in SUBSET (Commits \cup {0})
  BY <1>1 DEF TInv, TypeOK, ClientStates, Live
<1>11. Line(client.at, client.awaiting, U, x, D)
  BY <1>1 DEF LInv, LiveLine
<1> HIDE DEF U, x
<1>12. /\ Phase(client.at, client.awaiting, n) /\ n # AskDown(m)
       /\ AskDown(m) # OpenAsk
  BY <1>1, <1>7, <1>9, <1>10, <1>11, LineAnswered
<1>13. ASSUME \A j \in Conns : toServer'[j] = toServer[j] PROVE Over(n, how)'
  <2>1. NotSent(n)
    BY <1>13 DEF NotSent
  <2> QED BY <1>6, <2>1, OverStep
<1>14. m.type # "opened"
  BY <1>1, <1>12, AskDownIs
<1>15. ASSUME NEW done, NEW now, Settled(done, now), AskDown(m) = done PROVE Over(n, how)'
  <2>1. \A j \in Conns : j # client.conn => toServer'[j] = toServer[j]
    BY <1>15 DEF Settled
  <2>2. CASE client.at = "restoring" /\ client'.awaiting = {}
    <3>1. client'.awaiting = client.awaiting \ {done}
      BY <1>15 DEF Settled
    <3>2. n \in client.awaiting
      BY <1>12, <2>2 DEF Phase
    <3> QED BY <1>12, <1>15, <2>2, <3>1, <3>2
  <2>3. CASE toServer'[client.conn] = toServer[client.conn]
    BY <1>13, <2>1, <2>3
  <2> QED BY <1>15, <2>2, <2>3 DEF Settled
<1>16. ASSUME NEW at, GivenUp(at) PROVE Over(n, how)'
  BY <1>13, <1>16 DEF GivenUp
<1>17. /\ m.type = "verdict" => AskDown(m) = m.commit
       /\ m.type = "watched" => AskDown(m) = 0
  BY <1>1, AskDownIs
<1> QED BY <1>14, <1>15, <1>16, <1>17, ReceiveCases

\* A commit refused on the client's connection is final.
LEMMA RefusedStep ==
  ASSUME TInv, LInv, OwnerAgrees, RInv, EndTold, HandHolds, HandOwned, RefusedFinal, [Next]_vars
  PROVE  RefusedFinal'
<1>1. client.conn \in Conns
  BY LinesTyped
<1>2. CASE Receive
  BY <1>2, RefusedHears
<1>3. CASE Drop
  BY <1>3, DropIs DEF RefusedFinal, Live
<1>4. CASE Reconnect \/ RetryHeld
  <2>1. PICK k \in Conns : /\ client.conn <= k /\ Restore(k)
                           /\ \A i \in DOMAIN toClient[k] : toClient[k][i].type # "verdict"
    BY <1>4, RestoredLine
  <2>2. toClient' = toClient /\ client'.conn = k
    BY <2>1, RestoreIs
  <2> QED BY <2>1, <2>2 DEF RefusedFinal, RefusedAt
<1>5. ASSUME client' = client, toClient'[client.conn] = toClient[client.conn] PROVE RefusedFinal'
  BY <1>2, <1>5, RefusedKept
<1>6. CASE \/ \E n \in Commits : Transact(n)
           \/ (\E k \in Conns : Close(k)) \/ Expire \/ Restart
           \/ WithdrawWrite \/ RestoreWrite \/ UNCHANGED vars
  BY <1>5, <1>6 DEF Transact, Close, Expire, Restart, WithdrawWrite, RestoreWrite, vars
<1>7. CASE Deauthorize \/ \E k \in Conns : ServerStep(k)
  <2>1. client' = client
    BY <1>7 DEF Deauthorize, ServerStep, BeginOpen, RefuseOpen, AdmitOpen, RegisterOpen,
                FinishOpen, BeginTransact, DecideTransact, WatchSet
  <2>2. SUFFICES ASSUME ~ Receive PROVE RefusedFinal'
    BY <1>2
  <2>3. Heard(client.conn)
    BY <1>1, <1>7, ServerHeard
  <2>4. ASSUME NEW f \in Responses, f.type # "verdict",
               toClient'[client.conn] = Append(toClient[client.conn], f)
        PROVE  RefusedFinal'
    BY <2>1, <2>2, <2>4, RefusedGrows
  <2>5. CASE /\ BeginTransact(client.conn) /\ ~ conn[client.conn].handle
             /\ NextFrame(client.conn).commit \in Commits
             /\ toClient'[client.conn] =
                  Append(toClient[client.conn], Verdict(NextFrame(client.conn).commit, "refused"))
    <3>1. PICK f \in Responses : f = Verdict(NextFrame(client.conn).commit, "refused")
      BY <2>5, FrameTypes
    <3>2. SUFFICES ASSUME Live,
                          \A j \in DOMAIN toClient[client.conn] : ~ Terminal(toClient[client.conn][j])
                   PROVE  FALSE
      <4>1. toClient'[client.conn] \in {toClient[client.conn], Append(toClient[client.conn], f)}
        BY <2>5, <3>1
      <4> QED BY <2>1, <2>2, <3>2, <4>1, RefusedGrows
    <3>3. Takes(client.conn, "transact")
      BY <2>5 DEF BeginTransact
    <3>4. /\ ~ conn[client.conn].closed /\ 1 \in DOMAIN toServer[client.conn]
          /\ NextFrame(client.conn) = toServer[client.conn][1]
          /\ NextFrame(client.conn) \in Requests /\ NextFrame(client.conn).type = "transact"
      BY <1>1, <3>3, TakesIs
    <3>5. PICK a \in Commits : AskUp(toServer[client.conn][1]) = a
      BY <3>4, AskUpIs
    <3>6. a \in 0 .. NoAsk /\ a # OpenAsk /\ a # NoAsk
      BY AskNumbers
    <3>7. Asks(toServer[client.conn], AskWork(conn[client.conn].work), toClient[client.conn], a)
      BY <3>4, <3>5, <3>6 DEF Asks
    <3>8. Past
      BY <3>2, <3>4, <3>6, <3>7, AskedPast
    <3> QED BY <2>5, <3>2, <3>8, PastOwns
  <2>6. CASE /\ DecideTransact(client.conn) /\ conn[client.conn].work.commit \in Commits
             /\ ~ conn[client.conn].closed
             /\ \E how \in Hows :
                  /\ toClient'[client.conn] =
                       Append(toClient[client.conn], Verdict(conn[client.conn].work.commit, how))
                  /\ Decided(client.conn, how)
    <3>1. PICK how \in Hows :
            /\ toClient'[client.conn] =
                 Append(toClient[client.conn], Verdict(conn[client.conn].work.commit, how))
            /\ Decided(client.conn, how)
      BY <2>6
    <3>2. PICK f \in Responses : f = Verdict(conn[client.conn].work.commit, how)
      BY <2>6, FrameTypes
    <3>3. f.how = how /\ f.commit = conn[client.conn].work.commit
      BY <3>2 DEF Verdict
    <3>4. ASSUME NEW n \in Commits, NEW a \in {"refused", "denied"}, Live, f.how = a, f.commit = n,
                 \A j \in DOMAIN toClient[client.conn] : ~ Terminal(toClient[client.conn][j])
          PROVE  Over(n, a)'
      <4>1. n = conn[client.conn].work.commit /\ Decided(client.conn, a)
        BY <3>1, <3>3, <3>4
      <4> QED BY <2>6, <3>4, <4>1, DecisionFinal
    <3>5. toClient'[client.conn] \in {toClient[client.conn], Append(toClient[client.conn], f)}
      BY <3>1, <3>2
    <3> QED BY <2>1, <2>2, <3>4, <3>5, RefusedGrows
  <2> QED BY <2>1, <1>5, <2>3, <2>4, <2>5, <2>6 DEF Heard
<1> QED BY <1>2, <1>3, <1>4, <1>6, <1>7 DEF Next

-----------------------------------------------------------------------------
(* The inductive invariant                                                 *)

IInv == TInv /\ OwnerAgrees /\ LInv /\ RInv /\ VInv

\* Nothing is asked, pending or on its way at the start.
LEMMA InitRest ==
  ASSUME Init
  PROVE  LInv /\ RInv /\ VInv
<1>1. TInv /\ Issued /\ OwnerAgrees
  BY InitHolds
<1>2. client.conn \in Conns /\ client.conn = 1 /\ 1 # 0
  BY <1>1, LinesTyped DEF Init
<1>3. /\ client.at = "ready" /\ client.token = 1 /\ client.attempt = 0
      /\ session.token = 1 /\ session.presented = 0 /\ session.attempt = 0
      /\ session.owner = client.conn /\ access = TRUE /\ applied = {}
      /\ \A n \in Commits : told[n] = "unissued"
  BY <1>2 DEF Init
<1>4. \A k \in Conns : /\ toServer[k] = <<>> /\ toClient[k] = <<>>
                       /\ conn[k].work = Idle
  <2> HIDE DEF Idle
  <2> QED BY DEF Init
<1>5. \A k \in Conns : /\ Queue(conn[k], toServer[k]) = <<>>
                       /\ AskWork(conn[k].work) = NoAsk
                       /\ conn[k].work.at = "idle"
  BY <1>4, IdleIs DEF Queue, AskWork
<1>6. LInv
  <2>1. LiveLine
    BY <1>2, <1>4, <1>5, LineBlank DEF LiveLine, Line
  <2>2. OpensLast
    BY <1>5, AskNumbers DEF OpensLast, OpenLast
  <2> QED BY <1>1, <2>1, <2>2 DEF LInv
<1>7. RInv
  <2>1. \A k \in Conns : /\ \A t, a \in Nat : ~ Pending(conn[k], toServer[k], t, a)
                         /\ \A t \in Nat : ~ Answering(conn[k], toClient[k], t)
    BY <1>4, <1>5 DEF Pending, Answering
  <2>2. AllJudged /\ AnswerStands
    BY <1>2, <2>1 DEF AllJudged, AnswerStands
  <2>3. CanResume /\ OwnerHeld /\ NotLockedOut
    BY <1>3 DEF CanResume, OwnerHeld, NotLockedOut
  <2>4. NoneTerminal
    BY <1>2, <1>4 DEF NoneTerminal
  <2> QED BY <2>2, <2>3, <2>4 DEF RInv
<1>8. VInv
  <2>1. EndTold /\ ToldTrue
    BY <1>3 DEF EndTold, ToldTrue
  <2>2. HandHolds /\ HandOwned
    BY <1>2, <1>5 DEF HandHolds, HandOwned
  <2>3. AcceptedTrue /\ RefusedFinal
    BY <1>2, <1>4 DEF AcceptedTrue, RefusedFinal
  <2> QED BY <2>1, <2>2, <2>3 DEF VInv
<1> QED BY <1>6, <1>7, <1>8

\* One step keeps all of it.
LEMMA InvStep ==
  ASSUME IInv, [Next]_vars
  PROVE  IInv'
<1>1. TInv /\ OwnerAgrees /\ LInv /\ RInv /\ VInv /\ Issued
  BY DEF IInv, LInv
<1>2. TInv' /\ OwnerAgrees'
  BY <1>1, TypeStep, OwnerStep
<1>3. LInv'
  BY <1>1, LineStep
<1>4. RInv'
  BY <1>1, RegistryStep
<1>5. EndTold /\ HandHolds /\ HandOwned /\ ToldTrue /\ AcceptedTrue /\ RefusedFinal
  BY <1>1 DEF VInv
<1>6. EndTold'
  BY <1>1, <1>5, EndStep
<1>7. HandHolds' /\ HandOwned'
  BY <1>1, <1>5, HandHoldsStep, HandOwnedStep
<1>8. ToldTrue'
  BY <1>1, <1>5, ToldStep
<1>9. AcceptedTrue'
  BY <1>1, <1>5, AcceptedStep
<1>10. RefusedFinal'
  BY <1>1, <1>5, RefusedStep
<1>11. VInv'
  BY <1>6, <1>7, <1>8, <1>9, <1>10 DEF VInv
<1> QED BY <1>2, <1>3, <1>4, <1>11 DEF IInv

\* The invariant holds of every session, whatever is lost, resent, expired or
\* forgotten.
THEOREM Invariance == Spec => []IInv
<1>1. Init => IInv
  BY InitHolds, InitRest DEF IInv
<1>2. IInv /\ [Next]_vars => IInv'
  BY InvStep
<1> QED BY <1>1, <1>2, PTL DEF Spec

\* Both sides' records and frames are what the code keeps.
THEOREM TypeCorrect == Spec => []TypeOK
<1>1. IInv => TypeOK
  BY DEF IInv, TInv
<1> QED BY <1>1, Invariance, PTL

\* The registry's owner is an open connection with a handle, and the only one
\* with a handle (SessionRegistry.detach and Connection.close).
THEOREM OwnerAgreement == Spec => []OwnerAgrees
<1>1. IInv => OwnerAgrees
  BY DEF IInv
<1> QED BY <1>1, Invariance, PTL

\* A client's session ends only because the access list stopped admitting it:
\* every token it can present resumes the session (SessionRegistry.open).
THEOREM NeverLockedOut == Spec => []NotLockedOut
<1>1. IInv => NotLockedOut
  BY DEF IInv, RInv
<1> QED BY <1>1, Invariance, PTL

\* An acceptance and a refusal tell whether the commit was applied, and stay
\* true (#decideTransaction, which compares the session a commit came from with
\* the one held); a call is denied only where write access was withdrawn
\* (#authorizeCommitWithEngine, which asks ahead of the engine's replay).
THEOREM VerdictsTrue == Spec => []VerdictTrue
<1>1. IInv => VerdictTrue
  BY DEF IInv, VInv, ToldTrue, Over, VerdictTrue
<1> QED BY <1>1, Invariance, PTL

-----------------------------------------------------------------------------
(* The session keeps what CommitCall promises, liveness aside               *)

\* What the client hears of a call: its commit's verdict, or its session's end.
LEMMA ReceiveCall ==
  ASSUME IInv, Receive
  PROVE  Call!Next \/ UNCHANGED Call!callVars
<1> DEFINE m == Head(toClient[client.conn])
<1>1. TInv /\ RInv /\ AcceptedTrue /\ RefusedFinal
  BY DEF IInv, VInv
<1>2. /\ UNCHANGED <<applied, access, write>> /\ Live /\ client.conn \in Conns /\ m \in Responses
      /\ toClient[client.conn] \in Seq(Responses) /\ toClient[client.conn] # <<>>
  BY <1>1, ReceiveIs
<1>3. /\ m = toClient[client.conn][1] /\ 1 \in DOMAIN toClient[client.conn]
      /\ \A j \in DOMAIN toClient[client.conn] : ~ (j < 1)
  <2>1. DOMAIN toClient[client.conn] = 1 .. Len(toClient[client.conn])
    BY <1>2, TailIs
  <2> QED BY <1>2, <2>1, TailIs
<1>4. CASE told' = told
  BY <1>2, <1>4 DEF Call!callVars
<1>5. CASE m.type = "verdict" /\ told' = Told(m.commit, m.how)
  <2>1. PICK n \in Commits : m.commit = n
    BY <1>2, <1>5, AskDownIs
  <2>2. /\ m.how \in Hows
        /\ m.how = "accepted" => n \in applied
        /\ m.how = "refused" => n \notin applied
        /\ m.how = "denied" => write # "granted"
    <3>1. m.how = "accepted" => n \in applied
      BY <1>1, <1>2, <1>3, <1>5, <2>1 DEF AcceptedTrue
    <3>2. ASSUME NEW how \in {"refused", "denied"}, m.how = how PROVE Over(n, how)
      <4>1. RefusedAt(toClient[client.conn], 1, n, how)
        BY <1>3, <1>5, <2>1, <3>2 DEF RefusedAt
      <4> QED BY <1>1, <1>2, <1>3, <4>1 DEF RefusedFinal
    <3>3. m.how \in Hows
      BY <1>2, <1>5, AskDownIs
    <3> QED BY <3>1, <3>2, <3>3 DEF Over
  <2>3. CASE told[n] = "waiting"
    <3>1. told' = [told EXCEPT ![n] = m.how]
      BY <1>5, <2>1, <2>3 DEF Told
    <3>2. Call!Answer(n) \/ Call!Deny(n)
      BY <1>2, <2>2, <2>3, <3>1 DEF Call!Answer, Call!Deny, Hows
    <3>3. n \in Call!Commits
      BY DEF Call!Commits, Commits
    <3> QED BY <3>2, <3>3 DEF Call!Next
  <2>4. CASE told[n] # "waiting"
    BY <1>4, <1>5, <2>1, <2>4 DEF Told
  <2> QED BY <2>3, <2>4
<1>6. CASE Terminal(m) /\ told' = [n \in Commits |-> IF told[n] = "waiting" THEN "lost" ELSE told[n]]
  <2>1. ~ access
    BY <1>1, <1>2, <1>3, <1>6 DEF RInv, NoneTerminal
  <2>2. Call!End
    BY <1>2, <1>6, <2>1 DEF Call!End, Call!Commits, Commits
  <2> QED BY <2>2 DEF Call!Next
<1>7. m.type = "opened" => told' = told
  BY <1>1, ReopenedIs
<1>8. ASSUME NEW done, NEW now, Settled(done, now) PROVE told' = now
  BY <1>8 DEF Settled
<1> QED BY <1>1, <1>4, <1>5, <1>6, <1>7, <1>8, ReceiveCases

\* The engine applies only the commit of a call that waits, or that it has
\* applied before.
LEMMA DecideCall ==
  ASSUME IInv, NEW k \in Conns, DecideTransact(k)
  PROVE  Call!Next \/ UNCHANGED Call!callVars
<1>1. TInv /\ LInv /\ RInv /\ ToldTrue
  BY DEF IInv, VInv
<1>2. /\ conn[k].work.at = "transact" /\ conn[k].work.commit \in Commits
      /\ told[conn[k].work.commit] # "unissued"
  BY <1>1 DEF DecideTransact, LInv, Issued, IssuedWork
<1>3. PICK n \in Commits : n = conn[k].work.commit
  BY <1>2
<1>4. told' = told /\ access' = access /\ write' = write
  BY <1>1, <1>2, DecideTransactIs
<1>5. \/ applied' = applied
      \/ /\ session.token # 0 /\ session.token = conn[k].work.token
         /\ write # "withdrawn" /\ applied' = applied \cup {n}
  <2>1. PICK how \in Hows : Decided(k, how)
    BY <1>1, <1>2, DecideTransactIs
  <2> QED BY <1>3, <2>1 DEF Decided
<1>6. CASE applied' = applied
  BY <1>4, <1>6 DEF Call!callVars
<1>7. CASE /\ session.token # 0 /\ session.token = conn[k].work.token
           /\ write # "withdrawn" /\ applied' = applied \cup {n}
  <2>1. access
    BY <1>1, <1>7 DEF RInv, CanResume
  <2>2. told[n] \in {"waiting", "accepted", "refused", "denied", "lost"}
    BY <1>1, <1>2, <1>3 DEF TInv, TypeOK
  <2>3. told[n] # "refused" /\ told[n] # "denied"
    BY <1>1, <1>2, <1>3, <1>7 DEF ToldTrue, Over, Final, DeadAt
  <2>4. told[n] # "lost"
    BY <1>1, <2>1 DEF ToldTrue, RInv, NotLockedOut
  <2>5. CASE told[n] = "accepted"
    <3>1. n \in applied
      BY <1>1, <2>5 DEF ToldTrue
    <3>2. applied' = applied
      BY <1>7, <3>1
    <3> QED BY <1>6, <3>2
  <2>6. CASE told[n] = "waiting"
    <3>1. Call!Apply(n)
      BY <1>4, <1>7, <2>1, <2>6 DEF Call!Apply
    <3>2. n \in Call!Commits
      BY DEF Call!Commits, Commits
    <3> QED BY <3>1, <3>2 DEF Call!Next
  <2> QED BY <2>2, <2>3, <2>4, <2>5, <2>6
<1> QED BY <1>5, <1>6, <1>7

\* Every step of the session is a step of the call, or none.
LEMMA CallStep ==
  ASSUME IInv, [Next]_vars
  PROVE  [Call!Next]_(Call!callVars)
<1>1. ASSUME NEW n \in Commits, Transact(n) PROVE Call!Next
  <2>1. Call!Issue(n)
    BY <1>1 DEF Transact, serverVars, Call!Issue
  <2>2. n \in Call!Commits
    BY DEF Call!Commits, Commits
  <2> QED BY <2>1, <2>2 DEF Call!Next
<1>2. CASE Receive
  BY <1>2, ReceiveCall
<1>3. ASSUME NEW k \in Conns, DecideTransact(k) PROVE Call!Next \/ UNCHANGED Call!callVars
  BY <1>3, DecideCall
<1>4. ASSUME NEW k \in Conns, ServerStep(k) \/ Close(k), ~ DecideTransact(k)
      PROVE  UNCHANGED Call!callVars
  BY <1>4 DEF ServerStep, Close, BeginOpen, RefuseOpen, AdmitOpen, RegisterOpen, FinishOpen,
              BeginTransact, WatchSet, Call!callVars
<1>5. CASE Deauthorize
  <2>1. Call!Deauthorize
    BY <1>5 DEF Deauthorize, Call!Deauthorize
  <2> QED BY <2>1 DEF Call!Next
<1>7. CASE WithdrawWrite \/ RestoreWrite
  <2>1. Call!WithdrawWrite \/ Call!RestoreWrite
    BY <1>7 DEF WithdrawWrite, RestoreWrite, Call!WithdrawWrite, Call!RestoreWrite
  <2> QED BY <2>1 DEF Call!Next
<1>6. CASE Drop \/ Reconnect \/ RetryHeld \/ Expire \/ Restart \/ UNCHANGED vars
  BY <1>6 DEF Drop, Reconnect, RetryHeld, Restore, Expire, Restart, vars, serverVars,
              Call!callVars
<1> QED BY <1>1, <1>2, <1>3, <1>4, <1>5, <1>6, <1>7 DEF Next

\* The safety part of CallKept: with connections, resumes and resends out of
\* sight, each call is issued, applied and answered as CommitCall says
\* (SpaceSession.transact and its replay).
THEOREM CallImplemented == Spec => Call!Init /\ [][Call!Next]_(Call!callVars)
<1>1. Init => Call!Init
  BY DEF Init, Call!Init, Call!Commits, Commits
<1>2. IInv /\ [Next]_vars => [Call!Next]_(Call!callVars)
  BY CallStep
<1> QED BY <1>1, <1>2, Invariance, PTL DEF Spec

=============================================================================
