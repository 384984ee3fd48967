--------------------------- MODULE ReplicaDataProofs ---------------------------
(***************************************************************************)
(* What a replica shows, for any documents and any number of commits,      *)
(* foreign writes and faults.                                              *)
(*                                                                         *)
(* The server knows what the replica was sent (KnownInv), and whatever is  *)
(* stored of a document is in the replica's base, in a layer or a frame on *)
(* its way to it, or noted as due (DataInv).  So the base is what the      *)
(* store held (ConfirmedIsStored), a quiet replica shows the store         *)
(* (QuietIsStored), what a stored commit read was stored                   *)
(* (ReadsAreStored), and a refusal's marker covers what it was refused for *)
(* (RefusalsRepaired).                                                     *)
(***************************************************************************)
EXTENDS ClientReplicaProofs

-----------------------------------------------------------------------------
(* What is known of the frames, the bases and the watch set                *)

Base(d) == replica.confirmed[d].seq

BaseIsTrue(d) == replica.confirmed[d].val = DocAt(d, Base(d))

\* A session has watches unless it asks for them; what it asks by is what it
\* was delivered; and no documents come before the answer.
WatchTold ==
  /\ Asked <=> server.watching = FALSE
  /\ \A i \in DOMAIN toServer : toServer[i].type = "watch" => toServer[i].holdings = replica.delivered
  /\ \A i \in DOMAIN toClient : IsRestore(i) => toClient[i].marker = 0
  /\ \A i \in DOMAIN toClient : IsFrame(i) /\ Asked => DOMAIN toClient[i].upserts = {}
  /\ \A i, j \in DOMAIN toClient : IsFrame(i) /\ IsRestore(j) /\ i < j => DOMAIN toClient[i].upserts = {}

\* A frame shows what the store held, under a marker that was given out.
FrameTrue(f) ==
  f.type = "frame" =>
    /\ f.marker <= server.told
    /\ \A d \in DOMAIN f.upserts :
         f.upserts[d].seq <= HeadSeq(d) /\ f.upserts[d].val = DocAt(d, f.upserts[d].seq)

FramesTrue == \A f \in Range(toClient) : FrameTrue(f)

\* A base is no newer than the store, and true when it is what was delivered.
BaseKnown ==
  \A d \in Docs :
    /\ Base(d) <= HeadSeq(d) /\ replica.delivered[d] <= Base(d)
    /\ Base(d) = replica.delivered[d] => BaseIsTrue(d)

SentKnown == \A d \in Docs : server.sent[d] <= Len(log)

KnownInv == WatchTold /\ FramesTrue /\ BaseKnown /\ SentKnown

\* All of a sequence but its first element.
LEMMA TailHolds ==
  ASSUME NEW s, IsSeq(s), s # <<>>
  PROVE  /\ Len(s) \in Nat /\ DOMAIN s = 1..Len(s) /\ 1 \in DOMAIN s
         /\ DOMAIN Tail(s) = 1..(Len(s) - 1)
         /\ \A i \in DOMAIN s : i # 1 => i - 1 \in DOMAIN Tail(s) /\ Tail(s)[i - 1] = s[i]
         /\ \A i \in DOMAIN Tail(s) : i + 1 \in DOMAIN s /\ Tail(s)[i] = s[i + 1]
<1>1. s \in Seq(Range(s))
  BY DEF IsSeq
<1>2. /\ Len(s) \in Nat /\ Len(s) # 0 /\ DOMAIN s = 1..Len(s)
      /\ DOMAIN Tail(s) = 1..(Len(s) - 1)
      /\ \A i \in 1..(Len(s) - 1) : Tail(s)[i] = s[i + 1]
  BY <1>1
<1>3. ASSUME NEW i \in DOMAIN s, i # 1 PROVE i - 1 \in DOMAIN Tail(s) /\ Tail(s)[i - 1] = s[i]
  <2>1. PICK j : j = i - 1
    OBVIOUS
  <2>2. j \in 1..(Len(s) - 1) /\ j + 1 = i
    BY <1>2, <1>3, <2>1
  <2> QED BY <1>2, <2>1, <2>2
<1> QED BY <1>2, <1>3

\* The answers after are those before, moved up by one at most, and one at the end.
Latest(i) == \A j \in DOMAIN toClient : j <= i

LEMMA AnswersShift ==
  ASSUME IsSeq(toClient), NEW x,
         \/ toClient' = toClient \/ toClient' = Append(toClient, x)
         \/ toClient # <<>> /\ toClient' = Tail(toClient)
  PROVE  \E k \in {0, 1} : \A i \in DOMAIN toClient' :
           /\ i \in Nat
           /\ \/ i + k \in DOMAIN toClient /\ toClient'[i] = toClient[i + k]
              \/ toClient'[i] = x /\ Latest(i)'
<1>0. Len(toClient) \in Nat /\ DOMAIN toClient = 1..Len(toClient)
  BY DEF IsSeq
<1>9. PICK n : n = Len(toClient)
  OBVIOUS
<1>1. CASE toClient' = toClient
  <2>1. \A i \in DOMAIN toClient' : i \in Nat /\ i + 0 = i
    BY <1>0, <1>1
  <2> QED BY <1>1, <2>1
<1>2. CASE toClient' = Append(toClient, x)
  <2>1. \A i \in DOMAIN toClient' :
          (i \in DOMAIN toClient /\ toClient'[i] = toClient[i]) \/ (i = n + 1 /\ toClient'[i] = x)
    BY <1>2, <1>9, GrowsIs
  <2>2. DOMAIN toClient' = 1..(n + 1) /\ n \in Nat
    BY <1>0, <1>2, <1>9, GrowsIs
  <2>3. \A i \in 1..(n + 1) : i \in Nat /\ i + 0 = i /\ (i = n + 1 => \A j \in 1..(n + 1) : j <= i)
    BY <2>2
  <2>4. \A i \in DOMAIN toClient' : i \in Nat /\ i + 0 = i /\ (i = n + 1 => Latest(i)')
    BY <2>2, <2>3, Zenon DEF Latest
  <2> QED BY <2>1, <2>4
<1>3. CASE toClient # <<>> /\ toClient' = Tail(toClient)
  <2>1. /\ DOMAIN toClient' = 1..(n - 1)
        /\ \A i \in DOMAIN toClient' : i + 1 \in DOMAIN toClient /\ toClient'[i] = toClient[i + 1]
    BY <1>3, <1>9, TailHolds
  <2>3. \A i \in 1..(n - 1) : i \in Nat
    BY <1>0, <1>9
  <2>2. \A i \in DOMAIN toClient' : i \in Nat
    BY <2>1, <2>3, Zenon
  <2> QED BY <2>1, <2>2
<1> QED BY <1>1, <1>2, <1>3

\* What is known of the watch set, when at most one answer is sent or taken.
LEMMA WatchToldKept ==
  ASSUME IsSeq(toClient), WatchTold,
         Asked' <=> server'.watching = FALSE, Asked' => Asked,
         \A i \in DOMAIN toServer' : toServer'[i].type = "watch" => toServer'[i].holdings = replica'.delivered,
         NEW x,
         x.type = "frame" => (x.restores = TRUE => x.marker = 0 /\ Asked) /\ (Asked' => DOMAIN x.upserts = {}),
         \/ toClient' = toClient \/ toClient' = Append(toClient, x)
         \/ toClient # <<>> /\ toClient' = Tail(toClient)
  PROVE  WatchTold'
<1>1. PICK k \in {0, 1} : \A i \in DOMAIN toClient' :
        /\ i \in Nat
        /\ \/ i + k \in DOMAIN toClient /\ toClient'[i] = toClient[i + k]
           \/ toClient'[i] = x /\ Latest(i)'
  BY AnswersShift
<1>2. ASSUME NEW i \in DOMAIN toClient', IsRestore(i)' PROVE toClient'[i].marker = 0
  BY <1>1, <1>2 DEF WatchTold, IsRestore, IsFrame
<1>3. ASSUME NEW i \in DOMAIN toClient', IsFrame(i)', Asked' PROVE DOMAIN toClient'[i].upserts = {}
  BY <1>1, <1>3 DEF WatchTold, IsFrame
<1>4. ASSUME NEW i \in DOMAIN toClient', NEW j \in DOMAIN toClient', IsFrame(i)', IsRestore(j)', i < j
      PROVE  DOMAIN toClient'[i].upserts = {}
  <2>1. i \in Nat /\ j \in Nat /\ ~ j <= i
    BY <1>1, <1>4
  <2>2. ~ Latest(i)'
    BY <2>1 DEF Latest
  <2>3. i + k \in DOMAIN toClient /\ toClient'[i] = toClient[i + k]
    BY <1>1, <2>2
  <2>4. IsFrame(i + k)
    BY <1>4, <2>3 DEF IsFrame
  <2>5. CASE toClient'[j] = x
    BY <1>4, <2>3, <2>4, <2>5 DEF IsRestore, IsFrame, WatchTold
  <2>6. CASE j + k \in DOMAIN toClient /\ toClient'[j] = toClient[j + k]
    <3>1. IsRestore(j + k) /\ i + k < j + k
      BY <1>4, <2>1, <2>6 DEF IsRestore, IsFrame
    <3> QED BY <2>3, <2>4, <2>6, <3>1 DEF WatchTold
  <2> QED BY <1>1, <2>5, <2>6
<1> QED BY <1>2, <1>3, <1>4 DEF WatchTold

\* Whether the watch set is on its way, when a request is sent or decided.
LEMMA AskedSame ==
  ASSUME IsSeq(toServer),
         \/ toServer' = toServer
         \/ \E a : a.type = "commit" /\ toServer' = Append(toServer, a)
         \/ toServer # <<>> /\ toServer[1].type = "commit" /\ toServer' = Tail(toServer)
  PROVE  /\ Asked' <=> Asked
         /\ \A i \in DOMAIN toServer' : toServer'[i].type = "watch" =>
              \E j \in DOMAIN toServer : toServer'[i] = toServer[j]
<1>1. CASE toServer' = toServer
  BY <1>1 DEF Asked
<1>2. CASE \E a : a.type = "commit" /\ toServer' = Append(toServer, a)
  <2>1. PICK a : a.type = "commit" /\ toServer' = Append(toServer, a)
    BY <1>2
  <2>2. /\ \A i \in DOMAIN toServer' :
             (i \in DOMAIN toServer /\ toServer'[i] = toServer[i]) \/ toServer'[i] = a
        /\ \A i \in DOMAIN toServer : i \in DOMAIN toServer' /\ toServer'[i] = toServer[i]
    BY <2>1, GrowsIs
  <2> QED BY <2>1, <2>2 DEF Asked
<1>3. CASE toServer # <<>> /\ toServer[1].type = "commit" /\ toServer' = Tail(toServer)
  <2>1. /\ \A i \in DOMAIN toServer : i # 1 => i - 1 \in DOMAIN toServer' /\ toServer'[i - 1] = toServer[i]
        /\ \A i \in DOMAIN toServer' : i + 1 \in DOMAIN toServer /\ toServer'[i] = toServer[i + 1]
    BY <1>3, TailHolds
  <2> QED BY <1>3, <2>1 DEF Asked
<1> QED BY <1>1, <1>2, <1>3

\* What is known of the watch set holds after every step.
LEMMA WatchToldStep ==
  ASSUME IInv, Shaped, LineInv, TurnInv, KnownInv, LineInv', [Next]_vars
  PROVE  WatchTold'
<1>0. IsSeq(toClient) /\ IsSeq(toServer) /\ WatchTold
  BY DEF IInv, Typed, KnownInv
<1>1. PICK z : z.type = "verdict"
  <2>1. [type |-> "verdict"].type = "verdict"
    OBVIOUS
  <2> QED BY <2>1
<1>2. CASE Quiet
  <2>1. /\ Asked' <=> Asked
        /\ \A i \in DOMAIN toServer' : toServer'[i].type = "watch" =>
             \E j \in DOMAIN toServer : toServer'[i] = toServer[j]
    BY <1>0, <1>2, AskedSame DEF Quiet
  <2>2. \A i \in DOMAIN toServer' : toServer'[i].type = "watch" => toServer'[i].holdings = replica'.delivered
    BY <1>0, <1>2, <2>1 DEF WatchTold, Quiet
  <2>3. Asked' <=> server'.watching = FALSE
    BY <1>0, <1>2, <2>1 DEF WatchTold, Quiet
  <2>4. z.type # "frame"
    BY <1>1
  <2>5. toClient' = toClient \/ (toClient # <<>> /\ toClient' = Tail(toClient))
    BY <1>2 DEF Quiet
  <2> QED BY <1>0, <2>1, <2>2, <2>3, <2>4, <2>5, WatchToldKept
<1>3. CASE Stores
  <2>1. /\ Asked' <=> Asked
        /\ \A i \in DOMAIN toServer' : toServer'[i].type = "watch" =>
             \E j \in DOMAIN toServer : toServer'[i] = toServer[j]
    BY <1>0, <1>3, AskedSame DEF Stores
  <2>2. \A i \in DOMAIN toServer' : toServer'[i].type = "watch" => toServer'[i].holdings = replica'.delivered
    BY <1>0, <1>3, <2>1 DEF WatchTold, Stores
  <2>3. Asked' <=> server'.watching = FALSE
    BY <1>0, <1>3, <2>1 DEF WatchTold, Stores
  <2>4. PICK x : x.type # "frame" /\ (toClient' = toClient \/ toClient' = Append(toClient, x))
    BY <1>1, <1>3 DEF Stores
  <2> QED BY <1>0, <2>1, <2>2, <2>3, <2>4, WatchToldKept
<1>4. CASE Flush
  <2>1. PICK f :
          /\ UNCHANGED <<toServer, replica>> /\ server'.watching = server.watching
          /\ f.restores = FALSE
          /\ DOMAIN f.upserts = {d \in server.dirty : /\ server.watching
                                   /\ HeadSeq(d) # server.sent[d] /\ ~ Held(d)}
          /\ toClient' = Append(toClient, f) \/ toClient' = toClient
    BY <1>4, FlushEffect
  <2>2. Asked' <=> Asked
    BY <2>1 DEF Asked
  <2>3. Asked => DOMAIN f.upserts = {}
    BY <1>0, <2>1 DEF WatchTold
  <2>4. \A i \in DOMAIN toServer' : toServer'[i].type = "watch" => toServer'[i].holdings = replica'.delivered
    BY <1>0, <2>1 DEF WatchTold
  <2>5. Asked' <=> server'.watching = FALSE
    BY <1>0, <2>1, <2>2 DEF WatchTold
  <2>6. f.restores # TRUE
    BY <2>1
  <2> QED BY <1>0, <2>1, <2>2, <2>3, <2>4, <2>5, <2>6, WatchToldKept
<1>5. CASE SetWatches
  <2>1. PICK f :
          /\ toServer # <<>> /\ toServer[1].type = "watch" /\ toServer' = Tail(toServer)
          /\ server'.watching = TRUE /\ f.type = "frame" /\ f.restores = TRUE /\ f.marker = 0
          /\ toClient' = Append(toClient, f)
    BY <1>5, SetWatchesEffect DEF FrameShaped
  <2>2. Asked
    BY <1>0, <2>1, ShrinksIs DEF Asked
  <2>3. PICK k : k = Len(toClient) + 1
    OBVIOUS
  <2>4. k \in DOMAIN toClient' /\ toClient'[k] = f
    BY <1>0, <2>1, <2>3, GrowsIs
  <2>5. Answered'
    BY <2>1, <2>4 DEF Answered, IsRestore, IsFrame
  <2>6. toServer' = <<>>
    BY <2>5 DEF LineInv, WatchOut
  <2>7. ~ Asked'
    BY <2>6 DEF Asked
  <2>8. \A i \in DOMAIN toServer' : toServer'[i].type = "watch" => toServer'[i].holdings = replica'.delivered
    BY <2>6
  <2>9. Asked' <=> server'.watching = FALSE
    BY <2>1, <2>7
  <2> QED BY <1>0, <2>1, <2>2, <2>7, <2>8, <2>9, WatchToldKept
<1>6. CASE ReceiveFrame
  <2>1. PICK f : f = toClient[1]
    OBVIOUS
  <2>2. /\ UNCHANGED <<log, server, toServer, issued>>
        /\ toClient # <<>> /\ toClient' = Tail(toClient) /\ FrameShaped(f)
        /\ replica'.delivered = [d \in Docs |-> IF Newer(f, d) THEN f.upserts[d].seq
                                                ELSE replica.delivered[d]]
    BY <1>6, <2>1, ReceiveFrameEffect
  <2>3. Asked' <=> Asked
    BY <2>2 DEF Asked
  <2>4. 1 \in DOMAIN toClient /\ IsFrame(1)
    BY <1>0, <2>1, <2>2, ShrinksIs DEF IsFrame, FrameShaped
  <2>5. Asked => replica'.delivered = replica.delivered
    <3>1. SUFFICES ASSUME Asked PROVE replica'.delivered = replica.delivered
      OBVIOUS
    <3>2. DOMAIN f.upserts = {}
      BY <1>0, <2>1, <2>4, <3>1 DEF WatchTold
    <3>3. \A d \in Docs : ~ Newer(f, d)
      BY <3>2 DEF Newer
    <3>4. replica.delivered \in [Docs -> Nat]
      BY DEF Shaped, ReplicaShaped
    <3> QED BY <2>2, <3>3, <3>4
  <2>6. \A i \in DOMAIN toServer' : toServer'[i].type = "watch" => toServer'[i].holdings = replica'.delivered
    BY <1>0, <2>2, <2>5 DEF WatchTold, Asked
  <2>7. Asked' <=> server'.watching = FALSE
    BY <1>0, <2>2, <2>3 DEF WatchTold
  <2>8. z.type # "frame"
    BY <1>1
  <2> QED BY <1>0, <2>2, <2>3, <2>6, <2>7, <2>8, WatchToldKept
<1>7. CASE \E n \in Commits : Promotes(n)
  <2>1. UNCHANGED <<server, toServer, toClient>> /\ replica'.delivered = replica.delivered
    BY <1>7, SettleAcceptEffect DEF Promotes
  <2>2. Asked' <=> Asked
    BY <2>1 DEF Asked
  <2>3. \A i \in DOMAIN toServer' : toServer'[i].type = "watch" => toServer'[i].holdings = replica'.delivered
    BY <1>0, <2>1 DEF WatchTold
  <2>4. Asked' <=> server'.watching = FALSE
    BY <1>0, <2>1, <2>2 DEF WatchTold
  <2>5. z.type # "frame"
    BY <1>1
  <2> QED BY <1>0, <2>1, <2>2, <2>3, <2>4, <2>5, WatchToldKept
<1>8. CASE Resume
  <2>1. PICK f : /\ replica.restoring = {} /\ toServer' = Resent
                 /\ server'.watching = server.watching /\ f.type = "frame" /\ f.restores = FALSE
                 /\ toClient' = <<f>>
    BY <1>8, ResumeEffect DEF FrameShaped
  <2>2. \A i \in DOMAIN toServer' : toServer'[i].type = "commit"
    BY <2>1, ResentInOrder DEF IInv
  <2>3. ~ Asked'
    BY <2>2 DEF Asked
  <2>4. ~ Asked /\ server.watching # FALSE
    BY <1>0, <2>1 DEF LineInv, WatchOut, WatchTold
  <2>5. \A i \in DOMAIN toClient' : ~ IsRestore(i)'
    BY <2>1 DEF IsRestore
  <2> QED BY <2>1, <2>2, <2>3, <2>4, <2>5 DEF WatchTold
<1>9. CASE Replace
  <2>1. PICK w : /\ toClient' = <<>> /\ w.type = "watch" /\ w.holdings = replica.delivered
                 /\ toServer' = Append(Resent, w) /\ server'.watching = FALSE
                 /\ replica'.delivered = replica.delivered
    BY <1>9, ReplaceEffect
  <2>2. PICK R : R = Resent
    OBVIOUS
  <2>3. IsSeq(R) /\ \A i \in DOMAIN R : R[i].type = "commit"
    BY <2>2, ResentInOrder DEF IInv
  <2>4. PICK k : k = Len(R) + 1
    OBVIOUS
  <2>5. /\ \A i \in DOMAIN toServer' : (i \in DOMAIN R /\ toServer'[i] = R[i]) \/ toServer'[i] = w
        /\ k \in DOMAIN toServer' /\ toServer'[k] = w
    BY <2>1, <2>2, <2>3, <2>4, GrowsIs
  <2>6. Asked'
    BY <2>1, <2>5 DEF Asked
  <2>7. \A i \in DOMAIN toServer' : toServer'[i].type = "watch" => toServer'[i].holdings = replica'.delivered
    BY <2>1, <2>3, <2>5
  <2>8. \A i \in DOMAIN toClient' : FALSE
    BY <2>1
  <2> QED BY <2>1, <2>6, <2>7, <2>8 DEF WatchTold
<1> QED BY <1>2, <1>3, <1>4, <1>5, <1>6, <1>7, <1>8, <1>9, StepKinds

\* The store's past stays.
StoreGrows == log' = log \/ \E row : log' = Append(log, row)

LEMMA StorePast ==
  ASSUME IsSeq(log), StoreGrows
  PROVE  /\ \A d, q : q \in 0..Len(log) => DocAt(d, q)' = DocAt(d, q)
         /\ \A d : HeadSeq(d) <= HeadSeq(d)' /\ HeadSeq(d) \in 0..Len(log) /\ HeadSeq(d)' \in Nat
         /\ Len(log) \in Nat /\ Len(log') \in Nat /\ Len(log) <= Len(log')
         /\ DOMAIN log = 1..Len(log)
         /\ \A q \in DOMAIN log : q \in DOMAIN log' /\ log'[q] = log[q]
<1>0. \A d : /\ HeadSeq(d) \in Nat /\ HeadSeq(d) <= Len(log) /\ Len(log) \in Nat
             /\ DOMAIN log = 1..Len(log)
  BY HeadSeqIs
<1>1. CASE log' = log
  <2>1. \A d, q : DocAt(d, q)' = DocAt(d, q) /\ HeadSeq(d)' = HeadSeq(d)
    BY <1>1 DEF DocAt, HeadSeq, HeadAt
  <2> QED BY <1>0, <1>1, <2>1
<1>2. ASSUME NEW row, log' = Append(log, row)
      PROVE  /\ \A d, q : q \in 0..Len(log) => DocAt(d, q)' = DocAt(d, q)
             /\ \A d : HeadSeq(d) <= HeadSeq(d)' /\ HeadSeq(d)' \in Nat
             /\ Len(log') \in Nat /\ Len(log) <= Len(log')
             /\ \A q \in DOMAIN log : q \in DOMAIN log' /\ log'[q] = log[q]
  <2>1. /\ \A q \in DOMAIN log : q \in DOMAIN log' /\ log'[q] = log[q]
        /\ Len(log') = Len(log) + 1 /\ Len(log) \in Nat
        /\ \A d, q : q \in 0..Len(log) => DocAt(d, q)' = DocAt(d, q)
        /\ \A d : HeadSeq(d) <= HeadSeq(d)' /\ HeadSeq(d)' \in Nat
    BY <1>2, PastStays
  <2>2. Len(log') \in Nat /\ Len(log) <= Len(log')
    BY <2>1
  <2> QED BY <2>1, <2>2
<1>3. CASE \E row : log' = Append(log, row)
  <2>1. PICK row : log' = Append(log, row)
    BY <1>3
  <2>2. /\ \A d, q : q \in 0..Len(log) => DocAt(d, q)' = DocAt(d, q)
        /\ \A d : HeadSeq(d) <= HeadSeq(d)' /\ HeadSeq(d)' \in Nat
        /\ Len(log') \in Nat /\ Len(log) <= Len(log')
        /\ \A q \in DOMAIN log : q \in DOMAIN log' /\ log'[q] = log[q]
    BY <1>2, <2>1
  <2>3. \A d : HeadSeq(d) \in 0..Len(log)
    BY <1>0
  <2>4. Len(log) \in Nat /\ DOMAIN log = 1..Len(log)
    BY <1>0
  <2> QED BY <2>2, <2>3, <2>4
<1> QED BY <1>1, <1>3 DEF StoreGrows

\* A document is at the store's end what it is at its head.
LEMMA DocAtHead ==
  ASSUME IsSeq(log), NEW d
  PROVE  DocAt(d, HeadSeq(d)) = DocAt(d, Len(log))
<1>1. /\ HeadSeq(d) \in Nat /\ HeadSeq(d) <= Len(log) /\ Len(log) \in Nat
      /\ DOMAIN log = 1..Len(log)
      /\ \A p \in DOMAIN log : log[p].doc = d => p <= HeadSeq(d)
  BY HeadSeqIs
<1>2. PICK h : h = HeadSeq(d)
  OBVIOUS
<1>3. PICK k : k = Len(log)
  OBVIOUS
<1>4. \A r \in DOMAIN log : h < r /\ r <= k => log[r].doc # d
  BY <1>1, <1>2, <1>3
<1>5. DocAt(d, h) = DocAt(d, k)
  BY <1>1, <1>2, <1>3, <1>4, SameBetween
<1> QED BY <1>2, <1>3, <1>5

\* What was sent stays true.
LEMMA FramesKept ==
  ASSUME IInv, Shaped, FramesTrue, StoreGrows, server.told <= server'.told, server'.told \in Nat,
         NEW f, FrameTrue(f)', FrameMore(f)
  PROVE  FramesTrue'
<1>0. IsSeq(toClient) /\ IsSeq(log) /\ server.told \in Nat
  BY DEF IInv, Typed, Shaped, ServerShaped
<1>1. \A i \in DOMAIN toClient' : toClient'[i] = f \/ \E j \in DOMAIN toClient : toClient'[i] = toClient[j]
  BY <1>0, AnswersAre
<1>2. ASSUME NEW j \in DOMAIN toClient, NEW g, g = toClient[j] PROVE FrameTrue(g)'
  <2>1. FrameTrue(g) /\ AnswerShaped(g)
    BY <1>2 DEF FramesTrue, Shaped, Range
  <2>2. SUFFICES ASSUME g.type = "frame" PROVE FrameTrue(g)'
    BY DEF FrameTrue
  <2>3. FrameShaped(g)
    BY <2>1, <2>2 DEF AnswerShaped
  <2>4. g.marker <= server'.told
    BY <1>0, <2>1, <2>2, <2>3 DEF FrameTrue, FrameShaped
  <2>5. ASSUME NEW d \in DOMAIN g.upserts
        PROVE  g.upserts[d].seq <= HeadSeq(d)' /\ g.upserts[d].val = DocAt(d, g.upserts[d].seq)'
    <3>1. PICK q : q = g.upserts[d].seq
      OBVIOUS
    <3>2. q \in Nat /\ q <= HeadSeq(d) /\ g.upserts[d].val = DocAt(d, q)
      BY <2>1, <2>2, <2>3, <3>1 DEF FrameTrue, FrameShaped
    <3>3. HeadSeq(d) <= HeadSeq(d)' /\ HeadSeq(d) \in 0..Len(log) /\ HeadSeq(d)' \in Nat /\ Len(log) \in Nat
      BY <1>0, StorePast
    <3>4. q \in 0..Len(log) /\ q <= HeadSeq(d)'
      BY <3>2, <3>3
    <3>5. DocAt(d, q)' = DocAt(d, q)
      BY <1>0, <3>4, StorePast
    <3>6. DocAt(d, g.upserts[d].seq)' = DocAt(d, q)'
      BY <3>1
    <3> QED BY <3>1, <3>2, <3>4, <3>5, <3>6
  <2> QED BY <2>4, <2>5 DEF FrameTrue
<1>3. ASSUME NEW g, g \in Range(toClient)' PROVE FrameTrue(g)'
  <2>1. PICK i \in DOMAIN toClient' : g = toClient'[i]
    BY <1>3 DEF Range
  <2> QED BY <1>1, <1>2, <2>1
<1> QED BY <1>3 DEF FramesTrue

\* A frame of heads is true.
LEMMA FreshFrame ==
  ASSUME IInv, log' = log, NEW f, f.marker <= server'.told,
         \A d \in DOMAIN f.upserts :
           f.upserts[d].seq = HeadSeq(d) /\ f.upserts[d].val = DocAt(d, Len(log))
  PROVE  FrameTrue(f)'
<1>1. ASSUME NEW d \in DOMAIN f.upserts
      PROVE  f.upserts[d].seq <= HeadSeq(d)' /\ f.upserts[d].val = DocAt(d, f.upserts[d].seq)'
  <2>1. PICK q : q = f.upserts[d].seq
    OBVIOUS
  <2>2. DocAt(d, q)' = DocAt(d, q) /\ HeadSeq(d)' = HeadSeq(d)
    BY DEF DocAt, HeadSeq, HeadAt
  <2>3. IsSeq(log)
    BY DEF IInv, Typed
  <2>4. DocAt(d, q) = DocAt(d, Len(log))
    BY <2>1, <2>3, DocAtHead
  <2>5. DocAt(d, f.upserts[d].seq)' = DocAt(d, q)'
    BY <2>1
  <2>6. q <= HeadSeq(d)
    BY <2>1, <2>3, HeadSeqIs
  <2> QED BY <2>1, <2>2, <2>4, <2>5, <2>6
<1> QED BY <1>1 DEF FrameTrue

\* Where a stored commit is.
LEMMA RowOf ==
  ASSUME IInv, Shaped, NEW n \in Commits, Resolved(n)
  PROVE  /\ AckSeq(n) \in DOMAIN log /\ log[AckSeq(n)].by = n /\ n \in 1..Len(issued)
         /\ log[AckSeq(n)].doc = issued[n].doc /\ issued[n].doc \in Docs
         /\ AckSeq(n) \in Nat /\ AckSeq(n) > 0 /\ AckSeq(n) <= HeadSeq(issued[n].doc)
<1>1. PICK q : q = AckSeq(n)
  OBVIOUS
<1>2. q \in DOMAIN log /\ log[q].by = n
  BY <1>1, AckOf
<1>3. log[q].doc \in Docs /\ n <= Len(issued) /\ issued[n].doc = log[q].doc
  BY <1>2 DEF Shaped, RowsTrue
<1>4. n \in 1..Len(issued)
  BY <1>3, IssuedAre, CommitNumbers DEF IInv
<1>5. IsSeq(log)
  BY DEF IInv, Typed
<1>6. DOMAIN log = 1..Len(log) /\ Len(log) \in Nat /\ q <= HeadSeq(log[q].doc)
  BY <1>2, <1>5, HeadSeqIs
<1> QED BY <1>1, <1>2, <1>3, <1>4, <1>6

\* A promotion raises a base no higher than the store, and over what it promotes.
LEMMA RaisedIs ==
  ASSUME IInv, Shaped, NEW d \in Docs, NEW v, v.seq \in Nat, v.seq <= HeadSeq(d),
         NEW ns \in SUBSET Commits, \A n \in ns : Resolved(n)
  PROVE  LET p == Promoted(v, d, ns)
         IN  /\ p.seq \in Nat /\ v.seq <= p.seq /\ p.seq <= HeadSeq(d)
             /\ p = v \/ (v.seq < p.seq /\ \E m \in ns : issued[m].doc = d /\ p.seq = AckSeq(m))
             /\ \A m \in ns : issued[m].doc = d => AckSeq(m) <= p.seq
<1>1. PICK p : p = Promoted(v, d, ns)
  OBVIOUS
<1>2. IsSeq(log) /\ MaxCommits \in Nat
  BY CommitNumbers DEF IInv, Typed
<1>3. Risen(v, d, ns, p, MaxCommits)
  BY <1>1, <1>2, PromotedIs
<1>4. p = v \/ (v.seq < p.seq /\ \E m \in ns : issued[m].doc = d /\ p.seq = AckSeq(m))
  BY <1>3 DEF Risen
<1>5. p.seq <= HeadSeq(d)
  <2>1. CASE p = v
    BY <2>1
  <2>2. ASSUME NEW m \in ns, issued[m].doc = d, p.seq = AckSeq(m) PROVE p.seq <= HeadSeq(d)
    BY <2>2, RowOf
  <2> QED BY <1>4, <2>1, <2>2
<1>6. \A m \in ns : issued[m].doc = d => AckSeq(m) <= p.seq
  <2>1. \A m \in ns : m <= MaxCommits
    BY CommitNumbers
  <2> QED BY <1>3, <2>1 DEF Risen
<1>7. p.seq \in Nat /\ v.seq <= p.seq
  BY <1>3 DEF Risen
<1> QED BY <1>1, <1>4, <1>5, <1>6, <1>7

\* The base of one document is known.
KnownAt(d) ==
  /\ Base(d) <= HeadSeq(d) /\ replica.delivered[d] <= Base(d)
  /\ Base(d) = replica.delivered[d] => BaseIsTrue(d)

\* A base known stays so where it is not touched, while the store grows.
LEMMA KnownStays ==
  ASSUME IInv, Shaped, StoreGrows, NEW d \in Docs, KnownAt(d),
         replica'.confirmed = replica.confirmed, replica'.delivered = replica.delivered
  PROVE  KnownAt(d)'
<1>1. PICK q : q = Base(d)
  OBVIOUS
<1>2. /\ HeadSeq(d) <= HeadSeq(d)' /\ HeadSeq(d) \in 0..Len(log) /\ HeadSeq(d)' \in Nat /\ Len(log) \in Nat
      /\ \A k \in 0..Len(log) : DocAt(d, k)' = DocAt(d, k)
  BY StorePast DEF IInv, Typed
<1>3. q \in Nat /\ q <= HeadSeq(d) /\ replica.delivered[d] \in Nat
  BY <1>1 DEF KnownAt, Base, Shaped, ReplicaShaped
<1>4. q \in 0..Len(log) /\ q <= HeadSeq(d)'
  BY <1>2, <1>3
<1>5. Base(d)' = q
  BY <1>1 DEF Base
<1>6. BaseIsTrue(d) => replica.confirmed[d].val = DocAt(d, q)
  BY <1>1 DEF BaseIsTrue
<1>7. BaseIsTrue(d)' <=> replica'.confirmed[d].val = DocAt(d, q)'
  BY <1>5 DEF BaseIsTrue
<1>8. DocAt(d, q)' = DocAt(d, q)
  BY <1>2, <1>4
<1> QED BY <1>1, <1>4, <1>5, <1>6, <1>7, <1>8 DEF KnownAt

\* A base known, and what was promoted over it.
LEMMA KnownRaised ==
  ASSUME IInv, Shaped, log' = log, NEW d \in Docs, NEW v, v.seq \in Nat, v.seq <= HeadSeq(d),
         NEW ns \in SUBSET Commits, \A n \in ns : Resolved(n),
         replica'.confirmed[d] = Promoted(v, d, ns),
         replica'.delivered[d] \in Nat, replica'.delivered[d] <= v.seq,
         v.seq = replica'.delivered[d] => v.val = DocAt(d, v.seq)
  PROVE  KnownAt(d)'
<1>1. PICK p : p = Promoted(v, d, ns)
  OBVIOUS
<1>2. /\ p.seq \in Nat /\ v.seq <= p.seq /\ p.seq <= HeadSeq(d)
      /\ p = v \/ v.seq < p.seq
  BY <1>1, RaisedIs
<1>3. PICK q : q = p.seq
  OBVIOUS
<1>4. HeadSeq(d)' = HeadSeq(d) /\ DocAt(d, q)' = DocAt(d, q)
  BY DEF HeadSeq, DocAt, HeadAt
<1>5. Base(d)' = q
  BY <1>1, <1>3 DEF Base
<1>6. BaseIsTrue(d)' <=> replica'.confirmed[d].val = DocAt(d, q)'
  BY <1>5 DEF BaseIsTrue
<1>7. q <= HeadSeq(d)' /\ replica'.delivered[d] <= q
  BY <1>2, <1>3, <1>4
<1>8. ASSUME q = replica'.delivered[d] PROVE replica'.confirmed[d].val = DocAt(d, q)
  <2>1. p = v
    BY <1>2, <1>3, <1>8
  <2> QED BY <1>1, <1>3, <1>8, <2>1
<1> QED BY <1>4, <1>5, <1>6, <1>7, <1>8 DEF KnownAt

\* What a frame leaves to promote over.
LEMMA FrameBase ==
  ASSUME IInv, Shaped, FramesTrue, NEW d \in Docs, toClient # <<>>, toClient[1].type = "frame",
         Base(d) <= HeadSeq(d)
  PROVE  LET f == toClient[1]
             v == BaseWith(f, d)
         IN  /\ v.seq \in Nat /\ Base(d) <= v.seq /\ v.seq <= HeadSeq(d)
             /\ d \in DOMAIN f.upserts => f.upserts[d].seq <= v.seq
             /\ Newer(f, d) => v = f.upserts[d] /\ v.val = DocAt(d, v.seq)
             /\ ~ Newer(f, d) => v = replica.confirmed[d]
             /\ f.marker <= server.told
<1>1. PICK f : f = toClient[1]
  OBVIOUS
<1>2. 1 \in DOMAIN toClient
  BY ShrinksIs DEF IInv, Typed
<1>3. FrameShaped(f) /\ FrameTrue(f)
  BY <1>1, <1>2 DEF Shaped, AnswerShaped, FramesTrue, Range
<1>4. replica.confirmed[d].seq \in Nat
  BY DEF Shaped, ReplicaShaped
<1>5. HeadSeq(d) \in Nat
  BY HeadSeqIs DEF IInv, Typed
<1>6. PICK v : v = BaseWith(f, d)
  OBVIOUS
<1>7. f.marker <= server.told
  BY <1>1, <1>3 DEF FrameTrue
<1>8. CASE Newer(f, d)
  <2>1. v = f.upserts[d] /\ d \in DOMAIN f.upserts /\ replica.confirmed[d].seq <= f.upserts[d].seq
    BY <1>3, <1>4, <1>6, <1>8 DEF BaseWith, Newer, FrameShaped
  <2>2. f.upserts[d].seq \in Nat /\ f.upserts[d].seq <= HeadSeq(d)
        /\ f.upserts[d].val = DocAt(d, f.upserts[d].seq)
    BY <1>1, <1>3, <2>1 DEF FrameTrue, FrameShaped
  <2> QED BY <1>1, <1>6, <1>7, <1>8, <2>1, <2>2 DEF Base
<1>9. CASE ~ Newer(f, d)
  <2>1. v = replica.confirmed[d]
    BY <1>6, <1>9 DEF BaseWith
  <2>2. d \in DOMAIN f.upserts => f.upserts[d].seq \in Nat
    BY <1>3 DEF FrameShaped
  <2>3. d \in DOMAIN f.upserts => f.upserts[d].seq <= replica.confirmed[d].seq
    BY <1>4, <1>9, <2>2 DEF Newer
  <2> QED BY <1>1, <1>4, <1>6, <1>7, <1>9, <2>1, <2>3 DEF Base
<1> QED BY <1>8, <1>9

\* What is known holds after every step.
LEMMA KnownStep ==
  ASSUME IInv, Shaped, LineInv, TurnInv, KnownInv, Shaped', LineInv', [Next]_vars
  PROVE  KnownInv'
<1>0. /\ IsSeq(toClient) /\ IsSeq(log) /\ FramesTrue /\ SentKnown /\ server.told \in Nat /\ server'.told \in Nat
      /\ Len(log) \in Nat /\ \A d \in Docs : KnownAt(d) /\ server.sent[d] \in Nat
  BY HeadSeqIs DEF IInv, Typed, KnownInv, BaseKnown, KnownAt, Shaped, ServerShaped
<1>1. WatchTold'
  BY WatchToldStep
<1>2. SUFFICES FramesTrue' /\ (\A d \in Docs : KnownAt(d)') /\ SentKnown'
  BY <1>1 DEF KnownInv, BaseKnown, KnownAt
<1>3. PICK z : z.type = "verdict"
  <2>1. [type |-> "verdict"].type = "verdict"
    OBVIOUS
  <2> QED BY <2>1
<1>4. \A x : x.type = "verdict" => FrameTrue(x)'
  BY DEF FrameTrue
<1>5. ASSUME log' = log, server' = server,
             toClient' = toClient \/ (toClient # <<>> /\ toClient' = Tail(toClient))
      PROVE  FramesTrue' /\ SentKnown'
  <2>1. StoreGrows /\ server.told <= server'.told /\ FrameMore(z)
    BY <1>0, <1>5 DEF StoreGrows, FrameMore
  <2>2. FramesTrue'
    BY <1>0, <1>3, <1>4, <2>1, FramesKept
  <2> QED BY <1>0, <1>5, <2>2 DEF SentKnown
<1>6. CASE Quiet
  <2>1. /\ log' = log /\ server' = server
        /\ replica'.confirmed = replica.confirmed /\ replica'.delivered = replica.delivered
        /\ toClient' = toClient \/ (toClient # <<>> /\ toClient' = Tail(toClient))
    BY <1>6 DEF Quiet
  <2>2. \A d \in Docs : KnownAt(d)'
    BY <1>0, <2>1, KnownStays DEF StoreGrows
  <2> QED BY <1>5, <2>1, <2>2
<1>7. CASE Stores
  <2>1. StoreGrows /\ server.told <= server'.told /\ server'.sent = server.sent /\ replica' = replica
    BY <1>0, <1>7 DEF Stores, StoreGrows, NewRow
  <2>2. PICK x : x.type = "verdict" /\ FrameMore(x)
    BY <1>3, <1>7 DEF Stores, FrameMore
  <2>3. FramesTrue'
    BY <1>0, <1>4, <2>1, <2>2, FramesKept
  <2>4. \A d \in Docs : KnownAt(d)'
    BY <1>0, <2>1, KnownStays
  <2>5. Len(log) <= Len(log') /\ Len(log') \in Nat
    BY <1>0, <2>1, StorePast
  <2>6. SentKnown'
    BY <1>0, <2>1, <2>5 DEF SentKnown
  <2> QED BY <2>3, <2>4, <2>6
<1>8. ASSUME log' = log, replica'.confirmed = replica.confirmed, replica'.delivered = replica.delivered,
             NEW f, f.marker <= server'.told, FrameMore(f), server.told <= server'.told,
             \A d \in DOMAIN f.upserts :
               f.upserts[d].seq = HeadSeq(d) /\ f.upserts[d].val = DocAt(d, Len(log)),
             \A d \in Docs : server'.sent[d] \in {HeadSeq(d), server.sent[d]}
      PROVE  FramesTrue' /\ (\A d \in Docs : KnownAt(d)') /\ SentKnown'
  <2>1. StoreGrows
    BY <1>8 DEF StoreGrows
  <2>2. FrameTrue(f)'
    BY <1>8, FreshFrame
  <2>3. FramesTrue'
    BY <1>0, <1>8, <2>1, <2>2, FramesKept
  <2>4. \A d \in Docs : KnownAt(d)'
    BY <1>0, <1>8, <2>1, KnownStays
  <2>5. \A d \in Docs : server'.sent[d] <= Len(log)
    BY <1>0, <1>8, HeadSeqIs DEF SentKnown
  <2>6. SentKnown'
    BY <1>8, <2>5 DEF SentKnown
  <2> QED BY <2>3, <2>4, <2>6
<1>9. CASE Flush
  <2>1. PICK f :
          /\ UNCHANGED <<log, replica>> /\ server'.told \in {server.told, server.owed}
          /\ server'.sent = [d \in Docs |-> IF d \in server.dirty /\ server.watching
                                            THEN HeadSeq(d) ELSE server.sent[d]]
          /\ server.told <= server'.told /\ server.owed <= server'.told
          /\ f.marker \in {0, server.owed}
          /\ \A d \in DOMAIN f.upserts :
               f.upserts[d].seq = HeadSeq(d) /\ f.upserts[d].val = DocAt(d, Len(log))
          /\ toClient' = Append(toClient, f) \/ toClient' = toClient
    BY <1>9, FlushEffect
  <2>2. f.marker <= server'.told
    BY <1>0, <2>1
  <2>3. \A d \in Docs : server'.sent[d] \in {HeadSeq(d), server.sent[d]}
    BY <2>1
  <2>4. FrameMore(f)
    BY <2>1 DEF FrameMore
  <2> QED BY <1>8, <2>1, <2>2, <2>3, <2>4
<1>10. CASE SetWatches
  <2>1. PICK f :
          /\ UNCHANGED <<log, replica>> /\ server'.told = server.told
          /\ server'.sent = [d \in Docs |-> HeadSeq(d)] /\ f.marker = 0
          /\ \A d \in DOMAIN f.upserts :
               f.upserts[d].seq = HeadSeq(d) /\ f.upserts[d].val = DocAt(d, Len(log))
          /\ toClient' = Append(toClient, f)
    BY <1>10, SetWatchesEffect
  <2>2. f.marker <= server'.told /\ server.told <= server'.told
    BY <1>0, <2>1
  <2>3. \A d \in Docs : server'.sent[d] \in {HeadSeq(d), server.sent[d]}
    BY <2>1
  <2>4. FrameMore(f)
    BY <2>1 DEF FrameMore
  <2> QED BY <1>8, <2>1, <2>2, <2>3, <2>4
<1>11. CASE Resume
  <2>1. PICK f :
          /\ log' = log /\ replica'.confirmed = replica.confirmed /\ replica'.delivered = replica.delivered
          /\ server.told <= server'.told
          /\ server'.sent = [d \in Docs |-> HeadSeq(d)] /\ f.marker = server'.told
          /\ \A d \in DOMAIN f.upserts :
               f.upserts[d].seq = HeadSeq(d) /\ f.upserts[d].val = DocAt(d, Len(log))
          /\ toClient' = <<f>>
    BY <1>11, ResumeEffect
  <2>2. f.marker <= server'.told
    BY <1>0, <2>1
  <2>3. \A d \in Docs : server'.sent[d] \in {HeadSeq(d), server.sent[d]}
    BY <2>1
  <2>4. FrameMore(f)
    BY <2>1 DEF FrameMore
  <2> QED BY <1>8, <2>1, <2>2, <2>3, <2>4
<1>12. CASE ReceiveFrame
  <2>1. PICK f : f = toClient[1]
    OBVIOUS
  <2>2. /\ UNCHANGED <<log, server>> /\ toClient # <<>> /\ toClient' = Tail(toClient) /\ FrameShaped(f)
        /\ DueWith(f) \in SUBSET Commits /\ \A n \in DueWith(f) : Resolved(n)
        /\ replica'.confirmed = [d \in Docs |-> Promoted(BaseWith(f, d), d, DueWith(f))]
        /\ replica'.delivered = [d \in Docs |-> IF Newer(f, d) THEN f.upserts[d].seq
                                                ELSE replica.delivered[d]]
    BY <1>12, <2>1, ReceiveFrameEffect
  <2>3. ASSUME NEW d \in Docs PROVE KnownAt(d)'
    <3>1. PICK v : v = BaseWith(f, d)
      OBVIOUS
    <3>2. KnownAt(d)
      BY <1>0
    <3>3. /\ v.seq \in Nat /\ Base(d) <= v.seq /\ v.seq <= HeadSeq(d)
          /\ Newer(f, d) => v = f.upserts[d] /\ v.val = DocAt(d, v.seq)
          /\ ~ Newer(f, d) => v = replica.confirmed[d]
      BY <1>0, <2>1, <2>2, <3>1, <3>2, FrameBase DEF KnownAt, FrameShaped
    <3>4. replica'.confirmed[d] = Promoted(v, d, DueWith(f))
      BY <2>2, <3>1
    <3>5. replica'.delivered[d] = IF Newer(f, d) THEN f.upserts[d].seq ELSE replica.delivered[d]
      BY <2>2
    <3>6. replica.delivered[d] \in Nat
      BY DEF Shaped, ReplicaShaped
    <3>7. /\ replica'.delivered[d] \in Nat /\ replica'.delivered[d] <= v.seq
          /\ v.seq = replica'.delivered[d] => v.val = DocAt(d, v.seq)
      BY <3>2, <3>3, <3>5, <3>6 DEF KnownAt, Base, BaseIsTrue
    <3> QED BY <2>2, <3>3, <3>4, <3>7, KnownRaised
  <2> QED BY <1>5, <2>2, <2>3
<1>13. ASSUME NEW ns \in SUBSET Commits, \A n \in ns : Resolved(n), log' = log,
              replica'.confirmed = [d \in Docs |-> Promoted(replica.confirmed[d], d, ns)],
              replica'.delivered = replica.delivered
       PROVE  \A d \in Docs : KnownAt(d)'
  <2>1. SUFFICES ASSUME NEW d \in Docs PROVE KnownAt(d)'
    OBVIOUS
  <2>2. PICK v : v = replica.confirmed[d]
    OBVIOUS
  <2>3. KnownAt(d)
    BY <1>0
  <2>4. v.seq \in Nat /\ replica.delivered[d] \in Nat
    BY <2>2 DEF Shaped, ReplicaShaped
  <2>5. v.seq <= HeadSeq(d) /\ replica'.delivered[d] <= v.seq
        /\ (v.seq = replica'.delivered[d] => v.val = DocAt(d, v.seq))
    BY <1>13, <2>2, <2>3 DEF KnownAt, Base, BaseIsTrue
  <2>6. replica'.confirmed[d] = Promoted(v, d, ns)
    BY <1>13, <2>2
  <2>7. replica'.delivered[d] \in Nat
    BY <1>13, <2>4
  <2> QED BY <1>13, <2>4, <2>5, <2>6, <2>7, KnownRaised
<1>14. CASE \E n \in Commits : Promotes(n)
  <2>1. PICK n \in Commits : Promotes(n)
    BY <1>14
  <2>2. /\ UNCHANGED <<log, server, toClient>> /\ fate[n] = "accepted"
        /\ replica'.confirmed = [d \in Docs |-> Promoted(replica.confirmed[d], d, {n})]
        /\ replica'.delivered = replica.delivered
    <3>1. n \in Nat /\ replica.caughtUp \in Nat /\ n <= replica.caughtUp
      BY <2>1, CommitNumbers DEF Shaped, ReplicaShaped, Promotes
    <3>2. ~ n > replica.caughtUp
      BY <3>1
    <3> QED BY <2>1, <3>2, SettleAcceptEffect DEF Promotes
  <2>3. Resolved(n)
    BY <2>2 DEF IInv, AcceptedStored
  <2>4. {n} \in SUBSET Commits /\ \A m \in {n} : Resolved(m)
    BY <2>3
  <2> QED BY <1>5, <1>13, <2>2, <2>4
<1>15. CASE Replace
  <2>1. /\ log' = log /\ toClient' = <<>> /\ server'.told = 0
        /\ Parked \in SUBSET Commits /\ \A n \in Parked : Resolved(n)
        /\ replica'.confirmed = [d \in Docs |-> Promoted(replica.confirmed[d], d, Parked)]
        /\ replica'.delivered = replica.delivered
    BY <1>15, ReplaceEffect
  <2>2. server'.sent = server.sent
    <3>1. server' = [server EXCEPT !.watching = FALSE, !.owed = 0, !.told = 0]
      BY <1>15 DEF Replace
    <3>2. ServerShaped(server)
      BY DEF Shaped
    <3>3. server = [watching |-> server.watching, sent |-> server.sent, dirty |-> server.dirty,
                    origin |-> server.origin, owed |-> server.owed, told |-> server.told]
      BY <3>2 DEF ServerShaped
    <3> QED BY <3>1, <3>3
  <2>3. SentKnown'
    BY <1>0, <2>1, <2>2 DEF SentKnown
  <2>4. FramesTrue'
    BY <2>1 DEF FramesTrue, Range
  <2> QED BY <1>13, <2>1, <2>3, <2>4
<1> QED BY <1>6, <1>7, <1>9, <1>10, <1>11, <1>12, <1>14, <1>15, StepKinds

-----------------------------------------------------------------------------
(* What the bases, the frames on their way and the dirty batch say together *)

\* Frame i brings document d as of q or later.
Brings(i, d, q) ==
  IsFrame(i) /\ d \in DOMAIN toClient[i].upserts /\ q <= toClient[i].upserts[d].seq

\* Row q is an own one that is not promoted.
Open(q) == \E n \in Commits : log[q].by = n /\ fate[n] # "applied"

\* Row q of d is in the base, or to be promoted, or in the first i answers.
Shown(q, d, i) == q <= Base(d) \/ Open(q) \/ \E j \in 1..i : Brings(j, d, q)

\* The answer to the watch set puts the base of d right.
Repairs(i, d) ==
  /\ d \in DOMAIN toClient[i].upserts => Base(d) <= toClient[i].upserts[d].seq
  /\ d \notin DOMAIN toClient[i].upserts => BaseIsTrue(d)

\* The bases are true, or put right by the answer to the watch set.
BaseTrue ==
  /\ Watches \notin replica.restoring => \A d \in Docs : BaseIsTrue(d)
  /\ \A i \in DOMAIN toClient, d \in Docs : IsRestore(i) => Repairs(i, d)

\* What is stored and not sent is dirty, and no marker covers it; where only
\* own writes are noted, it is one.
DirtyTrue ==
  server.watching = TRUE =>
    \A d \in Docs, q \in DOMAIN log : log[q].doc = d /\ server.sent[d] < q =>
      /\ d \in server.dirty
      /\ server.origin[d].by = "own" => log[q].by \in Commits
      /\ \A n \in Commits : log[q].by = n =>
           server.told < n /\ replica.caughtUp < n /\ fate[n] # "applied"

\* What is sent is in the base, or to be promoted, or on its way.
SentCovered ==
  server.watching = TRUE =>
    \A d \in Docs, q \in DOMAIN log :
      log[q].doc = d /\ q <= server.sent[d] => \E i \in 0..Len(toClient) : Shown(q, d, i)

\* The marker of answer i, or what the replica was told before all, covers n.
ToldBy(i, n) ==
  \/ i = 0 /\ n <= replica.caughtUp
  \/ i # 0 /\ IsFrame(i) /\ n <= toClient[i].marker

\* Answer i comes before the one to the watch set.
Early(i) == Watches \in replica.restoring /\ \A j \in 1..i : ~ IsRestore(j)

\* With the marker of a commit, all that was stored up to it is there.
MarkersTrue ==
  \A i \in 0..Len(toClient), d \in Docs :
    \A a \in DOMAIN log, n \in Commits : log[a].doc = d /\ log[a].by = n /\ ToldBy(i, n) =>
      /\ Early(i) => \A j \in DOMAIN toClient : IsRestore(j) => a <= Base(d) \/ Brings(j, d, a)
      /\ ~ Early(i) => \A q \in DOMAIN log : log[q].doc = d /\ q <= a => Shown(q, d, i)

\* Bases rise, and an own write leaves its layer for the base only.
Rises ==
  /\ StoreGrows
  /\ \A d \in Docs : Base(d) \in Nat /\ Base(d)' \in Nat /\ Base(d) <= Base(d)'
  /\ \A d \in Docs, q \in DOMAIN log : log[q].doc = d /\ Open(q) => Open(q)' \/ q <= Base(d)'

\* What a promotion takes from the layers it adds to the bases.
LEMMA RisesBy ==
  ASSUME IInv, Shaped, Shaped', log' = log, NEW ns \in SUBSET Commits, \A n \in ns : Resolved(n),
         \A d \in Docs : \E v : /\ v.seq \in Nat /\ Base(d) <= v.seq /\ v.seq <= HeadSeq(d)
                                /\ replica'.confirmed[d] = Promoted(v, d, ns),
         \A n \in Commits : fate'[n] = "applied" => fate[n] = "applied" \/ n \in ns
  PROVE  Rises
<1>1. ASSUME NEW d \in Docs
      PROVE  /\ Base(d) \in Nat /\ Base(d)' \in Nat /\ Base(d) <= Base(d)'
             /\ \A m \in ns : issued[m].doc = d => AckSeq(m) <= Base(d)'
  <2>1. PICK v : /\ v.seq \in Nat /\ Base(d) <= v.seq /\ v.seq <= HeadSeq(d)
                 /\ replica'.confirmed[d] = Promoted(v, d, ns)
    OBVIOUS
  <2>2. PICK p : p = Promoted(v, d, ns)
    OBVIOUS
  <2>3. /\ p.seq \in Nat /\ v.seq <= p.seq
        /\ \A m \in ns : issued[m].doc = d => AckSeq(m) <= p.seq
    BY <2>1, <2>2, RaisedIs
  <2>4. Base(d)' = p.seq
    BY <2>1, <2>2 DEF Base
  <2>5. Base(d) \in Nat
    BY DEF Base, Shaped, ReplicaShaped
  <2> QED BY <2>1, <2>3, <2>4, <2>5
<1>2. ASSUME NEW d \in Docs, NEW q \in DOMAIN log, log[q].doc = d, Open(q), ~ Open(q)' PROVE q <= Base(d)'
  <2>1. PICK n \in Commits : log[q].by = n /\ fate[n] # "applied"
    BY <1>2 DEF Open
  <2>2. n \in ns
    BY <1>2, <2>1 DEF Open
  <2>3. AckSeq(n) = q
    BY <2>1, AckIs DEF IInv
  <2>4. issued[n].doc = d
    BY <1>2, <2>1 DEF Shaped, RowsTrue
  <2> QED BY <1>1, <2>2, <2>3, <2>4
<1>3. StoreGrows
  BY DEF StoreGrows
<1> QED BY <1>1, <1>2, <1>3 DEF Rises

\* Every step rises.
LEMMA RisesStep ==
  ASSUME IInv, Shaped, LineInv, TurnInv, KnownInv, Shaped', [Next]_vars
  PROVE  Rises
<1>0. \A d \in Docs : Base(d) \in Nat /\ Base(d)' \in Nat /\ Base(d) <= HeadSeq(d)
  BY DEF Base, Shaped, ReplicaShaped, KnownInv, BaseKnown
<1>1. ASSUME StoreGrows, replica'.confirmed = replica.confirmed,
             \A n \in Commits : fate'[n] = "applied" => fate[n] = "applied"
      PROVE  Rises
  <2>1. \A d \in Docs : Base(d) <= Base(d)'
    BY <1>0, <1>1 DEF Base
  <2>2. \A q \in DOMAIN log : log'[q] = log[q]
    BY <1>1, StorePast DEF IInv, Typed
  <2> QED BY <1>0, <1>1, <2>1, <2>2 DEF Rises, Open
<1>2. CASE Quiet
  BY <1>1, <1>2 DEF Quiet, StoreGrows
<1>3. CASE Stores
  BY <1>1, <1>3 DEF Stores, StoreGrows, NewRow
<1>4. CASE Flush
  <2>1. UNCHANGED <<log, fate, replica>>
    BY <1>4, FlushEffect
  <2> QED BY <1>1, <2>1 DEF StoreGrows
<1>5. CASE SetWatches
  <2>1. UNCHANGED <<log, fate, replica>>
    BY <1>5, SetWatchesEffect
  <2> QED BY <1>1, <2>1 DEF StoreGrows
<1>6. CASE Resume
  <2>1. UNCHANGED <<log, fate>> /\ replica'.confirmed = replica.confirmed
    BY <1>6, ResumeEffect
  <2> QED BY <1>1, <2>1 DEF StoreGrows
<1>7. CASE ReceiveFrame
  <2>1. PICK f : f = toClient[1]
    OBVIOUS
  <2>2. /\ log' = log /\ toClient # <<>> /\ FrameShaped(f)
        /\ \A n \in Commits : fate'[n] = IF n \in DueWith(f) THEN "applied" ELSE fate[n]
        /\ DueWith(f) \in SUBSET Commits /\ \A n \in DueWith(f) : Resolved(n)
        /\ replica'.confirmed = [d \in Docs |-> Promoted(BaseWith(f, d), d, DueWith(f))]
    BY <1>7, <2>1, ReceiveFrameEffect
  <2>3. ASSUME NEW d \in Docs
        PROVE  \E v : /\ v.seq \in Nat /\ Base(d) <= v.seq /\ v.seq <= HeadSeq(d)
                      /\ replica'.confirmed[d] = Promoted(v, d, DueWith(f))
    <3>1. PICK v : v = BaseWith(f, d)
      OBVIOUS
    <3>2. FramesTrue /\ f.type = "frame"
      BY <2>2 DEF KnownInv, FrameShaped
    <3>3. v.seq \in Nat /\ Base(d) <= v.seq /\ v.seq <= HeadSeq(d)
      BY <1>0, <2>1, <2>2, <3>1, <3>2, FrameBase
    <3> QED BY <2>2, <3>1, <3>3
  <2>4. \A n \in Commits : fate'[n] = "applied" => fate[n] = "applied" \/ n \in DueWith(f)
    BY <2>2
  <2> QED BY <2>2, <2>3, <2>4, RisesBy
<1>8. ASSUME NEW ns \in SUBSET Commits, \A n \in ns : Resolved(n), log' = log,
             replica'.confirmed = [d \in Docs |-> Promoted(replica.confirmed[d], d, ns)],
             \A n \in Commits : fate'[n] = "applied" => fate[n] = "applied" \/ n \in ns
      PROVE  Rises
  <2>1. ASSUME NEW d \in Docs
        PROVE  \E v : /\ v.seq \in Nat /\ Base(d) <= v.seq /\ v.seq <= HeadSeq(d)
                      /\ replica'.confirmed[d] = Promoted(v, d, ns)
    <3>1. PICK v : v = replica.confirmed[d]
      OBVIOUS
    <3>2. v.seq \in Nat /\ Base(d) <= v.seq /\ v.seq <= HeadSeq(d)
      BY <1>0, <3>1 DEF Base
    <3> QED BY <1>8, <3>1, <3>2
  <2> QED BY <1>8, <2>1, RisesBy
<1>9. CASE \E n \in Commits : Promotes(n)
  <2>1. PICK n \in Commits : Promotes(n)
    BY <1>9
  <2>2. /\ log' = log /\ fate[n] = "accepted" /\ \A m \in Commits : m # n => fate'[m] = fate[m]
        /\ replica'.confirmed = [d \in Docs |-> Promoted(replica.confirmed[d], d, {n})]
    <3>1. n \in Nat /\ replica.caughtUp \in Nat /\ n <= replica.caughtUp
      BY <2>1, CommitNumbers DEF Shaped, ReplicaShaped, Promotes
    <3>2. ~ n > replica.caughtUp
      BY <3>1
    <3> QED BY <2>1, <3>2, SettleAcceptEffect DEF Promotes
  <2>3. Resolved(n)
    BY <2>2 DEF IInv, AcceptedStored
  <2>4. {n} \in SUBSET Commits /\ \A m \in {n} : Resolved(m)
    BY <2>3
  <2>5. \A m \in Commits : fate'[m] = "applied" => fate[m] = "applied" \/ m \in {n}
    BY <2>2
  <2> QED BY <1>8, <2>2, <2>4, <2>5
<1>10. CASE Replace
  <2>1. /\ log' = log
        /\ \A n \in Commits : \/ fate[n] = "parked" /\ fate'[n] = "applied"
                              \/ fate[n] = "repairing" /\ fate'[n] = "doomed"
                              \/ fate[n] \notin {"parked", "repairing"} /\ fate'[n] = fate[n]
        /\ Parked \in SUBSET Commits /\ \A n \in Parked : Resolved(n)
        /\ replica'.confirmed = [d \in Docs |-> Promoted(replica.confirmed[d], d, Parked)]
    BY <1>10, ReplaceEffect
  <2>2. \A n \in Commits : fate'[n] = "applied" => fate[n] = "applied" \/ n \in Parked
    BY <2>1 DEF Parked
  <2> QED BY <1>8, <2>1, <2>2
<1> QED BY <1>2, <1>3, <1>4, <1>5, <1>6, <1>7, <1>9, <1>10, StepKinds

\* What is shown stays shown, under answers that stay.
LEMMA ShownStays ==
  ASSUME Rises, IsSeq(log), IsSeq(toClient), NEW d \in Docs, NEW q \in DOMAIN log, log[q].doc = d,
         NEW i \in 0..Len(toClient), Shown(q, d, i),
         NEW x, toClient' = toClient \/ toClient' = Append(toClient, x)
  PROVE  Shown(q, d, i)'
<1>1. \A j \in DOMAIN toClient : j \in DOMAIN toClient' /\ toClient'[j] = toClient[j]
  BY GrowsIs
<1>2. \A j \in 1..i : j \in DOMAIN toClient
  BY DEF IsSeq
<1>3. DOMAIN log = 1..Len(log) /\ Len(log) \in Nat
  BY DEF IsSeq
<1>4. CASE q <= Base(d)
  <2>1. q <= Base(d)'
    BY <1>3, <1>4 DEF Rises
  <2> QED BY <2>1 DEF Shown
<1>5. CASE Open(q)
  BY <1>5 DEF Rises, Shown
<1>6. CASE \E j \in 1..i : Brings(j, d, q)
  BY <1>1, <1>2, <1>6 DEF Shown, Brings, IsFrame
<1> QED BY <1>4, <1>5, <1>6 DEF Shown

\* What is shown stays shown, when the first answer is taken.
LEMMA ShownShifts ==
  ASSUME Rises, IsSeq(log), IsSeq(toClient), toClient # <<>>, toClient' = Tail(toClient),
         NEW d \in Docs, NEW q \in DOMAIN log, log[q].doc = d,
         Brings(1, d, q) => q <= Base(d)',
         NEW i \in Nat, NEW k \in Nat, k = i + 1 \/ (k = 0 /\ i = 0), Shown(q, d, k), k <= Len(toClient)
  PROVE  Shown(q, d, i)'
<1>1. /\ DOMAIN toClient = 1..Len(toClient) /\ Len(toClient) \in Nat
      /\ \A j \in DOMAIN toClient : j # 1 => j - 1 \in DOMAIN toClient' /\ toClient'[j - 1] = toClient[j]
  BY TailHolds
<1>3. DOMAIN log = 1..Len(log) /\ Len(log) \in Nat
  BY DEF IsSeq
<1>4. CASE q <= Base(d)
  <2>1. q <= Base(d)'
    BY <1>3, <1>4 DEF Rises
  <2> QED BY <2>1 DEF Shown
<1>5. CASE Open(q)
  BY <1>5 DEF Rises, Shown
<1>6. CASE \E j \in 1..k : Brings(j, d, q)
  <2>1. PICK j \in 1..k : Brings(j, d, q)
    BY <1>6
  <2>2. CASE j = 1
    <3>1. q <= Base(d)'
      BY <2>1, <2>2
    <3> QED BY <3>1 DEF Shown
  <2>3. CASE j # 1
    <3>1. PICK h : h = j - 1
      OBVIOUS
    <3>2. j \in DOMAIN toClient /\ h \in 1..i
      BY <1>1, <2>3, <3>1
    <3>3. toClient'[h] = toClient[j]
      BY <1>1, <2>3, <3>1, <3>2
    <3>4. Brings(h, d, q)'
      BY <2>1, <3>3 DEF Brings, IsFrame
    <3> QED BY <3>2, <3>4 DEF Shown
  <2> QED BY <2>2, <2>3
<1> QED BY <1>4, <1>5, <1>6 DEF Shown

\* What of a row not sent is noted.
DirtyAt(d, q) ==
  /\ d \in server.dirty
  /\ server.origin[d].by = "own" => log[q].by \in Commits
  /\ \A n \in Commits : log[q].by = n =>
       server.told < n /\ replica.caughtUp < n /\ fate[n] # "applied"

\* All is sent: nothing is left to note.
LEMMA AllSent ==
  ASSUME IInv, log' = log, \A d \in Docs : server'.sent[d] = HeadSeq(d)
  PROVE  DirtyTrue'
<1>1. ASSUME NEW d \in Docs, NEW q \in DOMAIN log, log[q].doc = d, server'.sent[d] < q PROVE FALSE
  <2>1. q <= HeadSeq(d) /\ HeadSeq(d) \in Nat /\ DOMAIN log = 1..Len(log) /\ Len(log) \in Nat
    BY <1>1, HeadSeqIs DEF IInv, Typed
  <2> QED BY <1>1, <2>1
<1> QED BY <1>1 DEF DirtyTrue

\* The dirty batch holds all that is not sent, after every step.
LEMMA DirtyStep ==
  ASSUME IInv, Shaped, LineInv, TurnInv, KnownInv, DirtyTrue, Shaped', [Next]_vars
  PROVE  DirtyTrue'
<1>0. /\ IsSeq(toClient) /\ IsSeq(log) /\ server.told \in Nat /\ replica.caughtUp \in Nat
      /\ Len(log) \in Nat /\ DOMAIN log = 1..Len(log) /\ \A d \in Docs : server.sent[d] \in Nat
  BY HeadSeqIs DEF IInv, Typed, Shaped, ServerShaped, ReplicaShaped
<1>1. SUFFICES ASSUME server'.watching = TRUE, NEW d \in Docs, NEW q \in DOMAIN log', log'[q].doc = d,
                      server'.sent[d] < q
               PROVE  DirtyAt(d, q)'
  BY DEF DirtyTrue, DirtyAt
<1>2. ASSUME server.watching = TRUE, q \in DOMAIN log, log[q].doc = d, server.sent[d] < q PROVE DirtyAt(d, q)
  BY <1>2 DEF DirtyTrue, DirtyAt
<1>3. CASE Quiet
  <2>1. /\ log' = log /\ server' = server /\ replica'.caughtUp = replica.caughtUp
        /\ \A n \in Commits : fate'[n] = "applied" <=> fate[n] = "applied"
    BY <1>3 DEF Quiet
  <2>2. DirtyAt(d, q)
    BY <1>1, <1>2, <2>1
  <2> QED BY <2>1, <2>2 DEF DirtyAt
<1>4. CASE Stores
  <2>1. /\ UNCHANGED <<fate, replica>>
        /\ server'.watching = server.watching /\ server'.sent = server.sent /\ server'.told = server.told
        /\ server.dirty \subseteq server'.dirty
        /\ server'.origin[d].by = "own" => server.origin[d].by = "own" \/ d \notin server.dirty
        /\ log' = log \/ \E row : NewRow(row)
    BY <1>4 DEF Stores
  <2>2. CASE q \in DOMAIN log
    <3>1. log'[q] = log[q]
      BY <1>0, <2>1, <2>2, StorePast DEF StoreGrows, NewRow
    <3>2. DirtyAt(d, q)
      BY <1>1, <1>2, <2>1, <2>2, <3>1
    <3> QED BY <2>1, <3>1, <3>2 DEF DirtyAt
  <2>3. CASE q \notin DOMAIN log
    <3>1. PICK row : NewRow(row)
      BY <1>1, <2>1, <2>3
    <3>2. DOMAIN log' = DOMAIN log \cup {Len(log) + 1} /\ log'[Len(log) + 1] = row
      BY <1>0, <3>1, PastStays DEF NewRow
    <3>3. log'[q] = row
      BY <1>1, <2>3, <3>2
    <3>4. CASE row.by = Foreign /\ server'.origin[row.doc].by # "own"
      BY <1>1, <3>1, <3>3, <3>4, CommitNumbers DEF DirtyAt, NewRow
    <3>5. CASE row.by \in Commits /\ ~ Passed(row.by) /\ fate[row.by] # "applied"
      <4>1. PICK m \in Commits : m = row.by
        BY <3>5
      <4>2. ~ m <= replica.caughtUp /\ ~ m <= server.told /\ m \in Nat
        BY <3>5, <4>1, CommitNumbers DEF Passed
      <4>3. replica.caughtUp < m /\ server.told < m
        BY <1>0, <4>2
      <4> QED BY <1>1, <2>1, <3>1, <3>3, <3>5, <4>1, <4>3 DEF DirtyAt, NewRow
    <3> QED BY <3>1, <3>4, <3>5 DEF NewRow
  <2> QED BY <2>2, <2>3
<1>5. CASE Flush
  <2>1. /\ log' = log /\ server'.watching = server.watching
        /\ server'.sent = [e \in Docs |-> IF e \in server.dirty /\ server.watching
                                          THEN HeadSeq(e) ELSE server.sent[e]]
    BY <1>5, FlushEffect
  <2>2. q <= HeadSeq(d) /\ HeadSeq(d) \in Nat
    BY <1>0, <1>1, <2>1, HeadSeqIs
  <2>3. d \notin server.dirty
    BY <1>0, <1>1, <2>1, <2>2
  <2>4. DirtyAt(d, q)
    BY <1>1, <1>2, <2>1, <2>3
  <2> QED BY <2>3, <2>4 DEF DirtyAt
<1>6. CASE SetWatches
  <2>1. log' = log /\ server'.sent = [e \in Docs |-> HeadSeq(e)]
    BY <1>6, SetWatchesEffect
  <2> QED BY <1>1, <2>1, AllSent DEF DirtyTrue, DirtyAt
<1>7. CASE Resume
  <2>1. log' = log /\ server'.sent = [e \in Docs |-> HeadSeq(e)]
    BY <1>7, ResumeEffect
  <2> QED BY <1>1, <2>1, AllSent DEF DirtyTrue, DirtyAt
<1>8. CASE Replace
  BY <1>1, <1>8, ReplaceEffect
<1>9. CASE ReceiveFrame
  <2>1. PICK f : f = toClient[1]
    OBVIOUS
  <2>2. /\ UNCHANGED <<log, server>> /\ toClient # <<>> /\ FrameShaped(f)
        /\ \A n \in Commits : fate'[n] = IF n \in DueWith(f) THEN "applied" ELSE fate[n]
        /\ ToldWith(f) \in {replica.caughtUp, f.marker} /\ replica'.caughtUp = ToldWith(f)
    BY <1>9, <2>1, ReceiveFrameEffect
  <2>3. DirtyAt(d, q)
    BY <1>1, <1>2, <2>2
  <2>4. f.marker <= server.told /\ f.marker \in Nat
    <3>1. Base(d) <= HeadSeq(d) /\ FramesTrue
      BY DEF KnownInv, BaseKnown
    <3> QED BY <2>1, <2>2, <3>1, FrameBase DEF FrameShaped
  <2>5. ASSUME NEW n \in Commits, log[q].by = n
        PROVE  server.told < n /\ ToldWith(f) < n /\ fate'[n] # "applied"
    <3>1. server.told < n /\ replica.caughtUp < n /\ fate[n] # "applied" /\ n \in Nat
      BY <2>3, <2>5, CommitNumbers DEF DirtyAt
    <3>2. ToldWith(f) < n
      BY <1>0, <2>2, <2>4, <3>1
    <3>3. ToldWith(f) \in Nat
      BY <1>0, <2>2, <2>4
    <3>4. n \notin DueWith(f)
      BY <3>1, <3>2, <3>3 DEF DueWith
    <3> QED BY <2>2, <3>1, <3>2, <3>4
  <2> QED BY <2>2, <2>3, <2>5 DEF DirtyAt
<1>10. CASE \E n \in Commits : Promotes(n)
  <2>1. PICK n \in Commits : Promotes(n)
    BY <1>10
  <2>2. /\ UNCHANGED <<log, server>> /\ replica'.caughtUp = replica.caughtUp
        /\ \A m \in Commits : m # n => fate'[m] = fate[m]
    <3>1. n \in Nat /\ n <= replica.caughtUp
      BY <2>1, CommitNumbers DEF Promotes
    <3>2. ~ n > replica.caughtUp
      BY <1>0, <3>1
    <3>3. ReplicaShaped(replica')
      BY DEF Shaped
    <3>4. replica'.caughtUp = replica.caughtUp
      BY <2>1 DEF Promotes, SettleAccept, Confirmed, Shaped, ReplicaShaped
    <3> QED BY <2>1, <3>2, <3>4, SettleAcceptEffect DEF Promotes
  <2>3. DirtyAt(d, q)
    BY <1>1, <1>2, <2>2
  <2>4. ASSUME NEW m \in Commits, log[q].by = m PROVE m # n
    <3>1. replica.caughtUp < m /\ n <= replica.caughtUp /\ m \in Nat /\ n \in Nat
      BY <2>1, <2>3, <2>4, CommitNumbers DEF DirtyAt, Promotes
    <3> QED BY <1>0, <3>1
  <2> QED BY <2>2, <2>3, <2>4 DEF DirtyAt
<1> QED BY <1>3, <1>4, <1>5, <1>6, <1>7, <1>8, <1>9, <1>10, StepKinds

\* The lengths of the line of answers.
LEMMA LineLengths ==
  ASSUME IsSeq(toClient), NEW x, NEW n, n = Len(toClient)
  PROVE  /\ n \in Nat /\ DOMAIN toClient = 1..n
         /\ toClient' = Append(toClient, x) =>
              /\ Len(toClient') = n + 1 /\ toClient'[n + 1] = x /\ DOMAIN toClient' = 1..(n + 1)
              /\ \A j \in 1..n : toClient'[j] = toClient[j]
         /\ toClient # <<>> /\ toClient' = Tail(toClient) =>
              /\ Len(toClient') = n - 1 /\ n >= 1 /\ 1 \in DOMAIN toClient /\ DOMAIN toClient' = 1..(n - 1)
              /\ \A j \in 1..(n - 1) : toClient'[j] = toClient[j + 1]
<1>1. n \in Nat /\ DOMAIN toClient = 1..n
  BY DEF IsSeq
<1>2. ASSUME toClient' = Append(toClient, x)
      PROVE  /\ Len(toClient') = n + 1 /\ toClient'[n + 1] = x /\ DOMAIN toClient' = 1..(n + 1)
             /\ \A j \in 1..n : toClient'[j] = toClient[j]
  BY <1>2, GrowsIs
<1>3. ASSUME toClient # <<>>, toClient' = Tail(toClient)
      PROVE  /\ Len(toClient') = n - 1 /\ n >= 1 /\ 1 \in DOMAIN toClient /\ DOMAIN toClient' = 1..(n - 1)
             /\ \A j \in 1..(n - 1) : toClient'[j] = toClient[j + 1]
  <2>1. toClient \in Seq(Range(toClient))
    BY DEF IsSeq
  <2> QED BY <1>3, <2>1
<1> QED BY <1>1, <1>2, <1>3

\* What is sent is covered, when nothing of it changes but the bases and the line.
LEMMA SentKept ==
  ASSUME IInv, Shaped, KnownInv, Rises, SentCovered, NEW x,
         server'.watching = server.watching, server'.sent = server.sent,
         \/ toClient' = toClient \/ toClient' = Append(toClient, x)
         \/ /\ toClient # <<>> /\ toClient' = Tail(toClient)
            /\ \A d \in Docs, q \in DOMAIN log : log[q].doc = d /\ Brings(1, d, q) => q <= Base(d)'
  PROVE  SentCovered'
<1>0. /\ IsSeq(toClient) /\ IsSeq(log) /\ Len(log) \in Nat /\ DOMAIN log = 1..Len(log)
      /\ \A d \in Docs : server.sent[d] \in Nat /\ server.sent[d] <= Len(log)
      /\ \A q \in DOMAIN log : log'[q] = log[q]
  BY HeadSeqIs, StorePast DEF IInv, Typed, Shaped, ServerShaped, KnownInv, SentKnown, Rises
<1>1. SUFFICES ASSUME server.watching = TRUE, NEW d \in Docs, NEW q \in DOMAIN log', log'[q].doc = d,
                      q <= server.sent[d]
               PROVE  \E i \in 0..Len(toClient') : Shown(q, d, i)'
  BY DEF SentCovered
<1>2. q \in DOMAIN log /\ log[q].doc = d
  <2>1. IsSeq(log')
    BY <1>0, PastStays DEF Rises, StoreGrows
  <2>2. DOMAIN log' = 1..Len(log')
    BY <2>1 DEF IsSeq
  <2>3. q >= 1 /\ q \in Int
    BY <2>1, <2>2 DEF IsSeq
  <2>4. q \in DOMAIN log
    BY <1>0, <1>1, <2>3
  <2> QED BY <1>0, <1>1, <2>4
<1>3. PICK i \in 0..Len(toClient) : Shown(q, d, i)
  BY <1>1, <1>2 DEF SentCovered
<1>4. PICK n : n = Len(toClient) /\ n \in Nat
  BY <1>0 DEF IsSeq
<1>5. CASE toClient' = toClient \/ toClient' = Append(toClient, x)
  <2>1. Shown(q, d, i)'
    BY <1>0, <1>2, <1>3, <1>5, ShownStays
  <2>2. i \in 0..Len(toClient')
    BY <1>0, <1>4, <1>5, LineLengths
  <2> QED BY <2>1, <2>2
<1>6. CASE /\ toClient # <<>> /\ toClient' = Tail(toClient)
           /\ \A e \in Docs, p \in DOMAIN log : log[p].doc = e /\ Brings(1, e, p) => p <= Base(e)'
  <2>1. PICK k : k = IF i = 0 THEN 0 ELSE i - 1
    OBVIOUS
  <2>2. Len(toClient') = n - 1 /\ n >= 1
    BY <1>0, <1>4, <1>6, LineLengths
  <2>3. k \in Nat /\ k \in 0..Len(toClient') /\ i \in Nat /\ i <= Len(toClient)
    BY <1>3, <1>4, <2>1, <2>2
  <2>4. i = k + 1 \/ (i = 0 /\ k = 0)
    BY <2>1, <2>3
  <2>5. Brings(1, d, q) => q <= Base(d)'
    BY <1>2, <1>6
  <2>6. Shown(q, d, k)'
    BY <1>0, <1>2, <1>3, <1>6, <2>3, <2>4, <2>5, ShownShifts
  <2> QED BY <2>3, <2>6
<1> QED BY <1>5, <1>6

\* What a frame of heads leaves out is in the bases.
LEMMA LeftOut ==
  ASSUME IInv, Shaped, KnownInv, NEW f, FrameShaped(f), NEW d \in Docs, NEW q \in DOMAIN log, log[q].doc = d,
         DOMAIN f.upserts = {e \in Docs : HeadSeq(e) # replica.delivered[e]},
         \A e \in DOMAIN f.upserts : f.upserts[e].seq = HeadSeq(e)
  PROVE  q <= Base(d) \/ (d \in DOMAIN f.upserts /\ q <= f.upserts[d].seq)
<1>1. q <= HeadSeq(d) /\ HeadSeq(d) \in Nat /\ q \in Nat
  <2>1. IsSeq(log)
    BY DEF IInv, Typed
  <2>2. DOMAIN log = 1..Len(log) /\ Len(log) \in Nat
    BY <2>1 DEF IsSeq
  <2> QED BY <2>1, <2>2, HeadSeqIs
<1>2. replica.delivered[d] <= Base(d) /\ Base(d) \in Nat /\ replica.delivered[d] \in Nat
  BY DEF KnownInv, BaseKnown, Base, Shaped, ReplicaShaped
<1>3. CASE HeadSeq(d) = replica.delivered[d]
  BY <1>1, <1>2, <1>3
<1>4. CASE HeadSeq(d) # replica.delivered[d]
  BY <1>1, <1>4
<1> QED BY <1>3, <1>4

\* A frame that brings a row shows it.
LEMMA ShownBy ==
  ASSUME NEW f, NEW q, NEW d, NEW k \in Nat, k >= 1, toClient'[k] = f, f.type = "frame",
         d \in DOMAIN f.upserts, q <= f.upserts[d].seq
  PROVE  Shown(q, d, k)'
<1>1. Brings(k, d, q)'
  BY DEF Brings, IsFrame
<1>2. k \in 1..k
  OBVIOUS
<1> QED BY <1>1, <1>2 DEF Shown

\* What is sent is covered after every step.
LEMMA SentStep ==
  ASSUME IInv, Shaped, LineInv, TurnInv, KnownInv, DirtyTrue, SentCovered, Shaped', [Next]_vars
  PROVE  SentCovered'
<1>0. /\ IsSeq(toClient) /\ IsSeq(log) /\ Len(log) \in Nat /\ DOMAIN log = 1..Len(log) /\ Rises
      /\ \A d \in Docs : server.sent[d] \in Nat /\ server.sent[d] <= Len(log)
      /\ Len(toClient) \in Nat /\ DOMAIN toClient = 1..Len(toClient)
  <2>1. IsSeq(toClient) /\ IsSeq(log) /\ Rises
    BY RisesStep DEF IInv, Typed
  <2>2. Len(log) \in Nat /\ DOMAIN log = 1..Len(log) /\ Len(toClient) \in Nat /\ DOMAIN toClient = 1..Len(toClient)
    BY <2>1 DEF IsSeq
  <2> QED BY <2>1, <2>2 DEF Shaped, ServerShaped, KnownInv, SentKnown
<1>10. PICK m : m = Len(toClient) /\ m \in Nat
  BY <1>0
<1>1. CASE Quiet
  <2>1. server' = server
    BY <1>1 DEF Quiet
  <2>2. CASE toClient' = toClient
    BY <1>0, <2>1, <2>2, SentKept
  <2>3. CASE toClient # <<>> /\ toClient[1].type = "verdict" /\ toClient' = Tail(toClient)
    <3>1. \A d \in Docs, q \in DOMAIN log : ~ Brings(1, d, q)
      BY <2>3 DEF Brings, IsFrame
    <3> QED BY <1>0, <2>1, <2>3, <3>1, SentKept
  <2> QED BY <1>1, <2>2, <2>3 DEF Quiet
<1>2. CASE Stores
  <2>1. server'.watching = server.watching /\ server'.sent = server.sent
    BY <1>2 DEF Stores
  <2>2. PICK x : toClient' = toClient \/ toClient' = Append(toClient, x)
    BY <1>2 DEF Stores
  <2> QED BY <1>0, <2>1, <2>2, SentKept
<1>3. CASE Flush
  <2>1. PICK f :
          /\ UNCHANGED <<log, fate, replica>> /\ server'.watching = server.watching
          /\ server'.sent = [e \in Docs |-> IF e \in server.dirty /\ server.watching
                                            THEN HeadSeq(e) ELSE server.sent[e]]
          /\ FrameShaped(f)
          /\ DOMAIN f.upserts = {e \in server.dirty : /\ server.watching
                                   /\ HeadSeq(e) # server.sent[e] /\ ~ Held(e)}
          /\ \A e \in DOMAIN f.upserts : f.upserts[e].seq = HeadSeq(e)
          /\ \/ toClient' = Append(toClient, f)
             \/ toClient' = toClient /\ DOMAIN f.upserts = {}
    BY <1>3, FlushEffect
  <2>2. SUFFICES ASSUME server.watching = TRUE, NEW d \in Docs, NEW q \in DOMAIN log, log[q].doc = d,
                        q <= server'.sent[d]
                 PROVE  \E i \in 0..Len(toClient') : Shown(q, d, i)'
    BY <2>1 DEF SentCovered
  <2>3. Len(toClient') \in Nat /\ m <= Len(toClient')
    BY <1>0, <1>10, <2>1, LineLengths
  <2>4. CASE q <= server.sent[d]
    <3>1. PICK i \in 0..m : Shown(q, d, i)
      BY <1>10, <2>2, <2>4 DEF SentCovered
    <3>2. Shown(q, d, i)'
      BY <1>0, <1>10, <2>1, <2>2, <3>1, ShownStays
    <3> QED BY <1>10, <2>3, <3>1, <3>2
  <2>5. CASE ~ q <= server.sent[d]
    <3>1. server.sent[d] < q /\ q \in Nat /\ q <= HeadSeq(d) /\ HeadSeq(d) \in Nat
      BY <1>0, <2>2, <2>5, HeadSeqIs
    <3>2. DirtyAt(d, q)
      BY <2>2, <3>1 DEF DirtyTrue, DirtyAt
    <3>3. CASE d \in DOMAIN f.upserts
      <4>1. PICK k : k = m + 1
        OBVIOUS
      <4>2. toClient' = Append(toClient, f)
        BY <2>1, <3>3
      <4>3. k \in Nat /\ k >= 1 /\ k \in 0..Len(toClient') /\ toClient'[k] = f
        <5>1. Len(toClient') = k /\ toClient'[k] = f
          BY <1>0, <1>10, <4>1, <4>2, LineLengths
        <5> QED BY <1>10, <4>1, <5>1
      <4>4. f.type = "frame" /\ q <= f.upserts[d].seq
        BY <2>1, <3>1, <3>3 DEF FrameShaped
      <4>5. Shown(q, d, k)'
        BY <3>3, <4>3, <4>4, ShownBy
      <4> QED BY <4>3, <4>5
    <3>4. CASE d \notin DOMAIN f.upserts
      <4>1. Held(d)
        BY <1>0, <2>1, <2>2, <3>1, <3>2, <3>4 DEF DirtyAt
      <4>2. Open(q)
        BY <3>2, <4>1 DEF Held, DirtyAt, Open
      <4>3. Open(q)'
        BY <2>1, <4>2 DEF Open
      <4>4. Shown(q, d, 0)'
        BY <4>3 DEF Shown
      <4> QED BY <2>3, <4>4
    <3> QED BY <3>3, <3>4
  <2> QED BY <2>4, <2>5
<1>4. ASSUME NEW f, FrameShaped(f), log' = log,
             DOMAIN f.upserts = {e \in Docs : HeadSeq(e) # replica.delivered[e]},
             \A e \in DOMAIN f.upserts : f.upserts[e].seq = HeadSeq(e),
             toClient' = Append(toClient, f) \/ toClient' = <<f>>
      PROVE  SentCovered'
  <2>1. SUFFICES ASSUME NEW d \in Docs, NEW q \in DOMAIN log, log[q].doc = d
                 PROVE  \E i \in 0..Len(toClient') : Shown(q, d, i)'
    BY <1>4 DEF SentCovered
  <2>2. PICK k : k = IF toClient' = <<f>> THEN 1 ELSE m + 1
    OBVIOUS
  <2>3. k \in Nat /\ k >= 1 /\ k \in 0..Len(toClient') /\ toClient'[k] = f
    <3>1. CASE toClient' = <<f>>
      BY <2>2, <3>1
    <3>2. CASE toClient' # <<f>>
      BY <1>0, <1>4, <1>10, <2>2, <3>2, LineLengths
    <3> QED BY <3>1, <3>2
  <2>4. CASE d \in DOMAIN f.upserts /\ q <= f.upserts[d].seq
    <3>1. Shown(q, d, k)'
      BY <1>4, <2>3, <2>4, ShownBy DEF FrameShaped
    <3> QED BY <2>3, <3>1
  <2>5. CASE q <= Base(d)
    <3>1. q <= Base(d)'
      BY <1>0, <2>5 DEF Rises
    <3>2. Shown(q, d, k)'
      BY <3>1 DEF Shown
    <3> QED BY <2>3, <3>2
  <2> QED BY <1>4, <2>1, <2>4, <2>5, LeftOut
<1>5. CASE SetWatches
  <2>1. PICK f : /\ log' = log /\ FrameShaped(f) /\ toServer # <<>> /\ toServer[1].type = "watch"
                 /\ DOMAIN f.upserts = {e \in Docs : HeadSeq(e) # toServer[1].holdings[e]}
                 /\ \A e \in DOMAIN f.upserts : f.upserts[e].seq = HeadSeq(e)
                 /\ toClient' = Append(toClient, f)
    BY <1>5, SetWatchesEffect
  <2>2. toServer[1].holdings = replica.delivered
    BY <2>1, ShrinksIs DEF IInv, Typed, KnownInv, WatchTold
  <2> QED BY <1>4, <2>1, <2>2
<1>6. CASE Resume
  <2>1. PICK f : /\ log' = log /\ FrameShaped(f)
                 /\ DOMAIN f.upserts = {e \in Docs : HeadSeq(e) # replica.delivered[e]}
                 /\ \A e \in DOMAIN f.upserts : f.upserts[e].seq = HeadSeq(e)
                 /\ toClient' = <<f>>
    BY <1>6, ResumeEffect
  <2> QED BY <1>4, <2>1
<1>7. CASE Replace
  BY <1>7, ReplaceEffect DEF SentCovered
<1>8. CASE ReceiveFrame
  <2>1. /\ server' = server /\ toClient # <<>> /\ toClient' = Tail(toClient)
    BY <1>8, ReceiveFrameEffect
  <2>2. ASSUME NEW d \in Docs, NEW q \in DOMAIN log, Brings(1, d, q) PROVE q <= Base(d)'
    <3>1. PICK f : f = toClient[1]
      OBVIOUS
    <3>2. /\ FrameShaped(f) /\ DueWith(f) \in SUBSET Commits /\ \A n \in DueWith(f) : Resolved(n)
          /\ replica'.confirmed = [e \in Docs |-> Promoted(BaseWith(f, e), e, DueWith(f))]
      BY <1>8, <3>1, ReceiveFrameEffect
    <3>3. PICK v : v = BaseWith(f, d)
      OBVIOUS
    <3>4. FramesTrue /\ f.type = "frame" /\ Base(d) <= HeadSeq(d)
      BY <3>2 DEF KnownInv, BaseKnown, FrameShaped
    <3>5. /\ v.seq \in Nat /\ v.seq <= HeadSeq(d)
          /\ d \in DOMAIN f.upserts => f.upserts[d].seq <= v.seq
      BY <2>1, <3>1, <3>3, <3>4, FrameBase
    <3>6. PICK p : p = Promoted(v, d, DueWith(f))
      OBVIOUS
    <3>7. p.seq \in Nat /\ v.seq <= p.seq
      BY <3>2, <3>5, <3>6, RaisedIs
    <3>8. Base(d)' = p.seq
      BY <3>2, <3>3, <3>6 DEF Base
    <3>9. d \in DOMAIN f.upserts /\ q <= f.upserts[d].seq /\ f.upserts[d].seq \in Nat
      BY <2>2, <3>1, <3>2 DEF Brings, FrameShaped
    <3> QED BY <1>0, <3>5, <3>7, <3>8, <3>9
  <2> QED BY <1>0, <2>1, <2>2, SentKept
<1>9. CASE \E n \in Commits : Promotes(n)
  <2>1. UNCHANGED <<server, toClient>>
    BY <1>9, SettleAcceptEffect DEF Promotes
  <2> QED BY <1>0, <2>1, SentKept
<1> QED BY <1>1, <1>2, <1>3, <1>5, <1>6, <1>7, <1>8, <1>9, StepKinds

\* A base that is true stays so where it is not touched.
LEMMA BaseStays ==
  ASSUME IInv, Shaped, KnownInv, StoreGrows, NEW d \in Docs, replica'.confirmed = replica.confirmed
  PROVE  BaseIsTrue(d)' <=> BaseIsTrue(d)
<1>1. PICK q : q = Base(d)
  OBVIOUS
<1>2. Base(d)' = q
  BY <1>1 DEF Base
<1>3. q \in 0..Len(log)
  <2>1. q \in Nat /\ q <= HeadSeq(d)
    BY <1>1 DEF KnownInv, BaseKnown, Base, Shaped, ReplicaShaped
  <2>2. HeadSeq(d) \in 0..Len(log) /\ Len(log) \in Nat
    BY StorePast DEF IInv, Typed
  <2> QED BY <2>1, <2>2
<1>4. DocAt(d, q)' = DocAt(d, q)
  BY <1>3, StorePast DEF IInv, Typed
<1>5. BaseIsTrue(d) <=> replica.confirmed[d].val = DocAt(d, q)
  BY <1>1 DEF BaseIsTrue
<1>6. BaseIsTrue(d)' <=> replica'.confirmed[d].val = DocAt(d, q)'
  BY <1>2 DEF BaseIsTrue
<1> QED BY <1>4, <1>5, <1>6

\* An answer to the watch set that puts a base right, moved up in the line.
LEMMA RepairsStays ==
  ASSUME IInv, Shaped, KnownInv, StoreGrows, NEW d \in Docs, replica'.confirmed = replica.confirmed,
         NEW i, NEW j, toClient'[i] = toClient[j], Repairs(j, d)
  PROVE  Repairs(i, d)'
<1>1. BaseIsTrue(d)' <=> BaseIsTrue(d)
  BY BaseStays
<1>2. Base(d)' = Base(d)
  BY DEF Base
<1> QED BY <1>1, <1>2 DEF Repairs

\* The bases are true as they were, when none is touched and no watch set is answered.
LEMMA BaseKept ==
  ASSUME IInv, Shaped, KnownInv, BaseTrue, StoreGrows, replica'.confirmed = replica.confirmed,
         Watches \notin replica'.restoring => Watches \notin replica.restoring,
         NEW x, ~ (x.type = "frame" /\ x.restores = TRUE),
         \/ toClient' = toClient \/ toClient' = Append(toClient, x)
         \/ toClient # <<>> /\ toClient' = Tail(toClient)
  PROVE  BaseTrue'
<1>1. PICK k \in {0, 1} : \A i \in DOMAIN toClient' :
        /\ i \in Nat
        /\ \/ i + k \in DOMAIN toClient /\ toClient'[i] = toClient[i + k]
           \/ toClient'[i] = x /\ Latest(i)'
  BY AnswersShift DEF IInv, Typed
<1>2. ASSUME NEW i \in DOMAIN toClient', NEW d \in Docs, IsRestore(i)' PROVE Repairs(i, d)'
  <2>1. toClient'[i] # x
    BY <1>2 DEF IsRestore, IsFrame
  <2>2. PICK j : j = i + k
    OBVIOUS
  <2>3. j \in DOMAIN toClient /\ toClient'[i] = toClient[j]
    BY <1>1, <2>1, <2>2
  <2>4. IsRestore(j)
    BY <1>2, <2>3 DEF IsRestore, IsFrame
  <2>5. Repairs(j, d)
    BY <2>3, <2>4 DEF BaseTrue
  <2> QED BY <2>3, <2>5, RepairsStays
<1>3. ASSUME Watches \notin replica'.restoring, NEW d \in Docs PROVE BaseIsTrue(d)'
  BY <1>3, BaseStays DEF BaseTrue
<1> QED BY <1>2, <1>3 DEF BaseTrue

\* Own writes below one that waits for its marker, and not promoted, wait too.
LEMMA OpenBelow ==
  ASSUME IInv, Shaped, FateOrder, TurnInv, NEW n \in Commits, fate[n] \in {"accepted", "parked"},
         NEW q \in DOMAIN log, q < AckSeq(n), NEW m \in Commits, log[q].by = m, fate[m] # "applied"
  PROVE  m < n /\ (fate[m] = "parked" \/ (fate[m] = "accepted" /\ fate[n] = "accepted"))
<1>1. Resolved(n) /\ Resolved(m)
  <2>1. Resolved(n)
    BY DEF IInv, AcceptedStored
  <2> QED BY <2>1 DEF Resolved
<1>2. PICK a : a = AckSeq(n)
  OBVIOUS
<1>3. a \in DOMAIN log /\ log[a].by = n /\ a \in Nat
  BY <1>1, <1>2, RowOf
<1>4. q \in Nat
  <2>1. IsSeq(log)
    BY DEF IInv, Typed
  <2> QED BY <2>1 DEF IsSeq
<1>5. m # n
  BY <1>2, <1>3, <1>4 DEF IInv, StoredOnce
<1>6. ~ n < m
  <2>1. SUFFICES ASSUME n < m PROVE FALSE
    OBVIOUS
  <2>2. a < q
    BY <1>3, <2>1 DEF TurnInv, StoredInOrder
  <2> QED BY <1>2, <1>3, <1>4, <2>2
<1>7. m < n
  BY <1>5, <1>6, CommitNumbers
<1>8. fate[m] \in {"sent", "accepted", "parked"}
  <2>1. fate[m] \in Fates
    BY DEF IInv, Typed
  <2>2. fate[m] \notin {"unissued", "queued", "waiting"}
    BY <1>1 DEF IInv, Unsent
  <2>3. fate[m] \notin {"repairing", "doomed", "rejected"}
    BY <1>1 DEF IInv, Over
  <2> QED BY <2>1, <2>2, <2>3 DEF Fates
<1>9. fate[m] # "sent"
  BY <1>6 DEF FateOrder, SentOut, AheadOfOut
<1>10. fate[n] = "parked" => fate[m] # "accepted"
  BY <1>6 DEF FateOrder, ParkedFirst
<1> QED BY <1>7, <1>8, <1>9, <1>10

\* A base over which all is promoted that was written is true.
LEMMA PromotedBase ==
  ASSUME IInv, Shaped, TurnInv, log' = log, NEW d \in Docs, NEW v, v.seq \in Nat, v.seq <= HeadSeq(d),
         v.val = DocAt(d, v.seq), NEW ns \in SUBSET Commits, \A n \in ns : Resolved(n),
         \A n \in ns : \A q \in DOMAIN log :
           issued[n].doc = d /\ log[q].doc = d /\ v.seq < q /\ q < AckSeq(n) => log[q].by \in ns,
         replica'.confirmed[d] = Promoted(v, d, ns)
  PROVE  BaseIsTrue(d)'
<1>1. PICK p : p = Promoted(v, d, ns)
  OBVIOUS
<1>2. StoreOK
  BY DEF StoreOK, IInv, Typed, Shaped, TurnInv
<1>3. v.seq <= Len(log)
  BY HeadSeqIs DEF StoreOK, IInv, Typed
<1>4. p.val = DocAt(d, p.seq)
  BY <1>1, <1>2, <1>3, PromotedTrue
<1>5. PICK q : q = p.seq
  OBVIOUS
<1>6. DocAt(d, q)' = DocAt(d, q)
  BY DEF DocAt, HeadAt
<1>7. Base(d)' = q
  BY <1>1, <1>5 DEF Base
<1>8. BaseIsTrue(d)' <=> replica'.confirmed[d].val = DocAt(d, q)'
  BY <1>7 DEF BaseIsTrue
<1> QED BY <1>1, <1>4, <1>5, <1>6, <1>8

\* An answer to the watch set puts a base right that was promoted meanwhile.
LEMMA RepairsRaised ==
  ASSUME IInv, Shaped, KnownInv, log' = log, NEW d \in Docs,
         NEW ns \in SUBSET Commits, \A n \in ns : Resolved(n),
         replica'.confirmed[d] = Promoted(replica.confirmed[d], d, ns),
         NEW i, NEW j, toClient'[i] = toClient[j], Repairs(j, d),
         \A n \in ns : issued[n].doc = d => AckSeq(n) <= Base(d) \/ Brings(j, d, AckSeq(n))
  PROVE  Repairs(i, d)'
<1>1. PICK v : v = replica.confirmed[d]
  OBVIOUS
<1>2. PICK p : p = Promoted(v, d, ns)
  OBVIOUS
<1>3. v.seq \in Nat /\ v.seq <= HeadSeq(d) /\ v.seq = Base(d)
  BY <1>1 DEF KnownInv, BaseKnown, Base, Shaped, ReplicaShaped
<1>4. p = v \/ (v.seq < p.seq /\ \E m \in ns : issued[m].doc = d /\ p.seq = AckSeq(m))
  BY <1>2, <1>3, RaisedIs
<1>5. replica'.confirmed[d] = p
  BY <1>1, <1>2
<1>6. CASE p = v
  <2>1. Base(d)' = Base(d)
    BY <1>1, <1>5, <1>6 DEF Base
  <2>2. BaseIsTrue(d) => BaseIsTrue(d)'
    <3>1. PICK q : q = Base(d)
      OBVIOUS
    <3>2. DocAt(d, q)' = DocAt(d, q)
      BY DEF DocAt, HeadAt
    <3>3. BaseIsTrue(d) <=> replica.confirmed[d].val = DocAt(d, q)
      BY <3>1 DEF BaseIsTrue
    <3>4. BaseIsTrue(d)' <=> replica'.confirmed[d].val = DocAt(d, q)'
      BY <2>1, <3>1 DEF BaseIsTrue
    <3> QED BY <1>1, <1>5, <1>6, <3>2, <3>3, <3>4
  <2> QED BY <2>1, <2>2 DEF Repairs
<1>7. CASE v.seq < p.seq /\ \E m \in ns : issued[m].doc = d /\ p.seq = AckSeq(m)
  <2>1. PICK m \in ns : issued[m].doc = d /\ p.seq = AckSeq(m)
    BY <1>7
  <2>2. AckSeq(m) \in Nat
    BY <2>1, RowOf
  <2>3. ~ AckSeq(m) <= Base(d)
    BY <1>3, <1>7, <2>1, <2>2
  <2>4. Brings(j, d, AckSeq(m))
    BY <2>1, <2>3
  <2>5. d \in DOMAIN toClient[j].upserts /\ p.seq <= toClient[j].upserts[d].seq
    BY <2>1, <2>4 DEF Brings
  <2>6. Base(d)' = p.seq
    BY <1>5 DEF Base
  <2> QED BY <2>5, <2>6 DEF Repairs
<1> QED BY <1>4, <1>6, <1>7

\* The marker of a commit, at position i, tells of its row.
LEMMA MarkerTells ==
  ASSUME IInv, Shaped, MarkersTrue, NEW n \in Commits, Resolved(n), NEW i \in 0..Len(toClient), ToldBy(i, n)
  PROVE  /\ Early(i) => \A j \in DOMAIN toClient : IsRestore(j) =>
              AckSeq(n) <= Base(issued[n].doc) \/ Brings(j, issued[n].doc, AckSeq(n))
         /\ ~ Early(i) => \A q \in DOMAIN log :
              log[q].doc = issued[n].doc /\ q <= AckSeq(n) => Shown(q, issued[n].doc, i)
<1>1. PICK a, d : a = AckSeq(n) /\ d = issued[n].doc
  OBVIOUS
<1>2. a \in DOMAIN log /\ log[a].by = n /\ log[a].doc = d /\ d \in Docs
  BY <1>1, RowOf
<1>3. /\ Early(i) => \A j \in DOMAIN toClient : IsRestore(j) => a <= Base(d) \/ Brings(j, d, a)
      /\ ~ Early(i) => \A q \in DOMAIN log : log[q].doc = d /\ q <= a => Shown(q, d, i)
  BY <1>2 DEF MarkersTrue
<1> QED BY <1>1, <1>3

\* An accept settled under its marker leaves the bases true.
LEMMA BasePromotes ==
  ASSUME IInv, Shaped, FateOrder, LineInv, TurnInv, KnownInv, BaseTrue, MarkersTrue,
         NEW n \in Commits, Promotes(n)
  PROVE  BaseTrue'
<1>1. /\ UNCHANGED <<log, toClient>> /\ fate[n] = "accepted"
      /\ \A m \in Commits : m < n => fate[m] # "accepted"
      /\ replica'.confirmed = [d \in Docs |-> Promoted(replica.confirmed[d], d, {n})]
      /\ replica'.restoring = replica.restoring
  <2>1. n \in Nat /\ replica.caughtUp \in Nat /\ n <= replica.caughtUp
    BY CommitNumbers DEF Shaped, ReplicaShaped, Promotes
  <2>2. ~ n > replica.caughtUp
    BY <2>1
  <2> QED BY <2>2, SettleAcceptEffect DEF Promotes
<1>2. Resolved(n)
  BY <1>1 DEF IInv, AcceptedStored
<1>3. {n} \in SUBSET Commits /\ \A m \in {n} : Resolved(m)
  BY <1>2
<1>4. 0 \in 0..Len(toClient) /\ ToldBy(0, n)
  <2>1. IsSeq(toClient)
    BY DEF IInv, Typed
  <2>2. Len(toClient) \in Nat
    BY <2>1 DEF IsSeq
  <2> QED BY <2>2 DEF ToldBy, Promotes
<1>5. /\ Early(0) => \A j \in DOMAIN toClient : IsRestore(j) =>
           AckSeq(n) <= Base(issued[n].doc) \/ Brings(j, issued[n].doc, AckSeq(n))
      /\ ~ Early(0) => \A q \in DOMAIN log :
           log[q].doc = issued[n].doc /\ q <= AckSeq(n) => Shown(q, issued[n].doc, 0)
  BY <1>2, <1>4, MarkerTells
<1>6. Early(0) <=> Watches \in replica.restoring
  BY DEF Early
<1>7. ASSUME Watches \notin replica.restoring, NEW d \in Docs PROVE BaseIsTrue(d)'
  <2>1. PICK v : v = replica.confirmed[d]
    OBVIOUS
  <2>2. v.seq \in Nat /\ v.seq <= HeadSeq(d) /\ v.val = DocAt(d, v.seq) /\ v.seq = Base(d)
    BY <1>7, <2>1 DEF KnownInv, BaseKnown, Base, BaseTrue, BaseIsTrue, Shaped, ReplicaShaped
  <2>3. ASSUME NEW q \in DOMAIN log, issued[n].doc = d, log[q].doc = d, v.seq < q, q < AckSeq(n) PROVE FALSE
    <3>1. q \in Nat
      <4>1. IsSeq(log)
        BY DEF IInv, Typed
      <4> QED BY <4>1 DEF IsSeq
    <3>2. AckSeq(n) \in Nat
      BY <1>2, RowOf
    <3>3. Shown(q, d, 0)
      BY <1>5, <1>6, <1>7, <2>3, <3>1, <3>2
    <3>4. ~ q <= Base(d)
      BY <2>2, <2>3, <3>1
    <3>5. Open(q)
      BY <3>3, <3>4 DEF Shown
    <3>6. PICK m \in Commits : log[q].by = m /\ fate[m] # "applied"
      BY <3>5 DEF Open
    <3>7. m < n /\ (fate[m] = "parked" \/ fate[m] = "accepted")
      BY <1>1, <2>3, <3>6, OpenBelow
    <3>8. fate[m] = "parked"
      BY <1>1, <3>7
    <3>9. m > replica.caughtUp
      BY <3>8 DEF FateOrder, ParkedWaits
    <3>10. m \in Nat /\ n \in Nat /\ replica.caughtUp \in Nat /\ n <= replica.caughtUp
      BY CommitNumbers DEF Shaped, ReplicaShaped, Promotes
    <3> QED BY <3>7, <3>9, <3>10
  <2>4. replica'.confirmed[d] = Promoted(v, d, {n})
    BY <1>1, <2>1
  <2>5. \A m \in {n} : \A q \in DOMAIN log :
          issued[m].doc = d /\ log[q].doc = d /\ v.seq < q /\ q < AckSeq(m) => log[q].by \in {n}
    BY <2>3
  <2> QED BY <1>1, <1>3, <2>2, <2>5, <2>4, PromotedBase
<1>8. ASSUME NEW i \in DOMAIN toClient', NEW d \in Docs, IsRestore(i)' PROVE Repairs(i, d)'
  <2>1. i \in DOMAIN toClient /\ IsRestore(i) /\ toClient'[i] = toClient[i]
    BY <1>1, <1>8 DEF IsRestore, IsFrame
  <2>2. Repairs(i, d)
    BY <2>1 DEF BaseTrue
  <2>3. CASE issued[n].doc = d /\ Early(0)
    <3>1. \A m \in {n} : issued[m].doc = d => AckSeq(m) <= Base(d) \/ Brings(i, d, AckSeq(m))
      BY <1>5, <2>1, <2>3
    <3>2. replica'.confirmed[d] = Promoted(replica.confirmed[d], d, {n}) /\ log' = log
      BY <1>1
    <3> QED BY <1>3, <2>1, <2>2, <3>1, <3>2, RepairsRaised
  <2>4. CASE issued[n].doc # d
    <3>1. \A m \in {n} : issued[m].doc = d => AckSeq(m) <= Base(d) \/ Brings(i, d, AckSeq(m))
      BY <2>4
    <3>2. replica'.confirmed[d] = Promoted(replica.confirmed[d], d, {n}) /\ log' = log
      BY <1>1
    <3> QED BY <1>3, <2>1, <2>2, <3>1, <3>2, RepairsRaised
  <2>5. Early(0)
    BY <1>6, <2>1 DEF LineInv, WatchOut, Answered
  <2> QED BY <2>3, <2>4, <2>5
<1> QED BY <1>1, <1>7, <1>8 DEF BaseTrue

\* What a frame makes due: commits that wait, told by its marker.
LEMMA DueAre ==
  ASSUME IInv, Shaped, FateOrder, toClient # <<>>, toClient[1].type = "frame",
         NEW n \in DueWith(toClient[1])
  PROVE  /\ n \in Commits /\ fate[n] = "parked" /\ Resolved(n)
         /\ 1 \in 0..Len(toClient) /\ ToldBy(1, n) /\ toClient[1].marker > 0
<1>1. PICK f : f = toClient[1]
  OBVIOUS
<1>2. n \in Commits /\ fate[n] = "parked" /\ f.marker > 0 /\ n <= ToldWith(f)
  BY <1>1 DEF DueWith, Parked
<1>3. Resolved(n)
  BY <1>2 DEF IInv, AcceptedStored
<1>4. 1 \in DOMAIN toClient /\ IsSeq(toClient)
  BY ShrinksIs DEF IInv, Typed
<1>5. f.marker \in Nat /\ replica.caughtUp \in Nat /\ n \in Nat
  <2>1. AnswerShaped(f)
    BY <1>1, <1>4 DEF Shaped
  <2>2. FrameShaped(f)
    BY <1>1, <2>1 DEF AnswerShaped
  <2> QED BY <1>2, <2>2, CommitNumbers DEF FrameShaped, Shaped, ReplicaShaped
<1>6. n > replica.caughtUp
  BY <1>2 DEF FateOrder, ParkedWaits
<1>7. ToldWith(f) \in {replica.caughtUp, f.marker}
  BY <1>5, MaxOfTwo DEF ToldWith
<1>8. n <= f.marker
  BY <1>2, <1>5, <1>6, <1>7
<1>9. 1 \in 0..Len(toClient)
  BY <1>4 DEF IsSeq
<1> QED BY <1>1, <1>2, <1>3, <1>8, <1>9 DEF ToldBy, IsFrame

\* A frame taken in leaves the bases true, or put right later.
LEMMA BaseFrame ==
  ASSUME IInv, Shaped, FateOrder, LineInv, TurnInv, KnownInv, BaseTrue, MarkersTrue, LineInv', ReceiveFrame
  PROVE  BaseTrue'
<1>1. PICK f : f = toClient[1]
  OBVIOUS
<1>2. /\ UNCHANGED <<log, server, toServer, issued>>
      /\ toClient # <<>> /\ toClient' = Tail(toClient) /\ FrameShaped(f)
      /\ DueWith(f) \in SUBSET Commits /\ \A n \in DueWith(f) : Resolved(n)
      /\ ToldWith(f) \in {replica.caughtUp, f.marker}
      /\ replica'.confirmed = [d \in Docs |-> Promoted(BaseWith(f, d), d, DueWith(f))]
      /\ replica'.restoring = IF f.restores THEN replica.restoring \ {Watches}
                              ELSE replica.restoring
  BY <1>1, ReceiveFrameEffect
<1>3. f.type = "frame" /\ IsFrame(1) /\ IsSeq(toClient) /\ 1 \in DOMAIN toClient
  BY <1>1, <1>2, ShrinksIs DEF FrameShaped, IsFrame, IInv, Typed
<1>4. ASSUME NEW d \in Docs, NEW v, v = BaseWith(f, d)
      PROVE  /\ v.seq \in Nat /\ Base(d) <= v.seq /\ v.seq <= HeadSeq(d)
             /\ d \in DOMAIN f.upserts => f.upserts[d].seq <= v.seq
             /\ Newer(f, d) => v = f.upserts[d] /\ v.val = DocAt(d, v.seq)
             /\ ~ Newer(f, d) => v = replica.confirmed[d]
  BY <1>1, <1>2, <1>3, <1>4, FrameBase DEF KnownInv, BaseKnown
<1>5. \A n \in DueWith(f) : n \in Commits /\ fate[n] = "parked" /\ ToldBy(1, n) /\ f.marker > 0
  BY <1>1, <1>2, <1>3, DueAre
<1>6. 1 \in 0..Len(toClient)
  BY <1>3 DEF IsSeq
<1>7. ASSUME NEW n \in DueWith(f)
      PROVE  /\ Early(1) => \A j \in DOMAIN toClient : IsRestore(j) =>
                  AckSeq(n) <= Base(issued[n].doc) \/ Brings(j, issued[n].doc, AckSeq(n))
             /\ ~ Early(1) => \A q \in DOMAIN log :
                  log[q].doc = issued[n].doc /\ q <= AckSeq(n) => Shown(q, issued[n].doc, 1)
  BY <1>2, <1>5, <1>6, MarkerTells
<1>8. CASE Watches \notin replica'.restoring
  <2>1. \A i \in DOMAIN toClient' : ~ IsRestore(i)'
    BY <1>8 DEF LineInv, WatchOut, Answered
  <2>2. ASSUME NEW d \in Docs PROVE BaseIsTrue(d)'
    <3>1. PICK v : v = BaseWith(f, d)
      OBVIOUS
    <3>2. v.seq \in Nat /\ Base(d) <= v.seq /\ v.seq <= HeadSeq(d) /\ Base(d) \in Nat
      BY <1>4, <3>1 DEF Base, Shaped, ReplicaShaped
    <3>3. replica'.confirmed[d] = Promoted(v, d, DueWith(f))
      BY <1>2, <3>1
    <3>4. CASE Watches \notin replica.restoring
      <4>1. v.val = DocAt(d, v.seq)
        BY <1>4, <3>1, <3>4 DEF BaseTrue, BaseIsTrue, Base
      <4>2. ASSUME NEW n \in DueWith(f), NEW q \in DOMAIN log, issued[n].doc = d, log[q].doc = d,
                   v.seq < q, q < AckSeq(n)
            PROVE  log[q].by \in DueWith(f)
        <5>1. q \in Nat
          BY <1>3 DEF IsSeq, IInv, Typed
        <5>2. AckSeq(n) \in Nat
          BY <1>2, <1>5, RowOf
        <5>3. ~ Early(1)
          BY <3>4 DEF Early
        <5>4. Shown(q, d, 1)
          BY <1>7, <4>2, <5>1, <5>2, <5>3
        <5>5. ~ q <= Base(d)
          BY <3>2, <4>2, <5>1
        <5>6. ~ \E j \in 1..1 : Brings(j, d, q)
          <6>1. SUFFICES ASSUME Brings(1, d, q) PROVE FALSE
            OBVIOUS
          <6>2. d \in DOMAIN f.upserts /\ q <= f.upserts[d].seq
            BY <1>1, <6>1 DEF Brings
          <6>3. f.upserts[d].seq <= v.seq /\ f.upserts[d].seq \in Nat
            BY <1>2, <1>4, <3>1, <6>2 DEF FrameShaped
          <6> QED BY <3>2, <4>2, <5>1, <6>2, <6>3
        <5>7. PICK m \in Commits : log[q].by = m /\ fate[m] # "applied"
          BY <5>4, <5>5, <5>6 DEF Shown, Open
        <5>8. m < n /\ fate[m] = "parked"
          <6>1. n \in Commits /\ fate[n] = "parked"
            BY <1>5
          <6> QED BY <4>2, <5>7, <6>1, OpenBelow
        <5>9. m <= ToldWith(f)
          <6>1. n <= ToldWith(f) /\ n \in Nat /\ m \in Nat
            BY <1>5, CommitNumbers DEF DueWith
          <6>2. ToldWith(f) \in Nat
            BY <1>2 DEF FrameShaped, Shaped, ReplicaShaped
          <6> QED BY <5>8, <6>1, <6>2
        <5> QED BY <1>5, <5>7, <5>8, <5>9 DEF DueWith, Parked
      <4>3. \A n \in DueWith(f) : \A q \in DOMAIN log :
              issued[n].doc = d /\ log[q].doc = d /\ v.seq < q /\ q < AckSeq(n) => log[q].by \in DueWith(f)
        BY <4>2
      <4> QED BY <1>2, <3>2, <3>3, <4>1, <4>3, PromotedBase
    <3>5. CASE Watches \in replica.restoring
      <4>1. f.restores = TRUE
        BY <1>2, <1>8, <3>5 DEF FrameShaped
      <4>2. IsRestore(1)
        BY <1>1, <1>3, <4>1 DEF IsRestore
      <4>3. f.marker = 0
        BY <1>1, <1>3, <4>2 DEF KnownInv, WatchTold
      <4>4. \A n \in DueWith(f) : FALSE
        BY <1>5, <4>3
      <4>5. Repairs(1, d)
        BY <1>3, <4>2 DEF BaseTrue
      <4>6. v.val = DocAt(d, v.seq)
        <5>1. CASE Newer(f, d)
          BY <1>4, <3>1, <5>1
        <5>2. CASE ~ Newer(f, d)
          <6>1. v = replica.confirmed[d]
            BY <1>4, <3>1, <5>2
          <6>2. d \notin DOMAIN f.upserts
            <7>1. d \in DOMAIN f.upserts => f.upserts[d].seq \in Nat /\ Base(d) <= f.upserts[d].seq
              BY <1>1, <1>2, <4>5 DEF Repairs, FrameShaped
            <7> QED BY <3>2, <5>2, <7>1 DEF Newer, Base
          <6> QED BY <1>1, <4>5, <6>1, <6>2 DEF Repairs, BaseIsTrue, Base
        <5> QED BY <5>1, <5>2
      <4>7. \A n \in DueWith(f) : \A q \in DOMAIN log :
              issued[n].doc = d /\ log[q].doc = d /\ v.seq < q /\ q < AckSeq(n) => log[q].by \in DueWith(f)
        BY <4>4
      <4> QED BY <1>2, <3>2, <3>3, <4>6, <4>7, PromotedBase
    <3> QED BY <3>4, <3>5
  <2> QED BY <2>1, <2>2 DEF BaseTrue
<1>9. CASE Watches \in replica'.restoring
  <2>1. SUFFICES ASSUME NEW i \in DOMAIN toClient', NEW d \in Docs, IsRestore(i)' PROVE Repairs(i, d)'
    BY <1>9 DEF BaseTrue
  <2>2. PICK j : j = i + 1
    OBVIOUS
  <2>3. j \in DOMAIN toClient /\ toClient'[i] = toClient[j] /\ 1 < j
    <3>1. /\ DOMAIN toClient' = 1..(Len(toClient) - 1) /\ Len(toClient) \in Nat
          /\ \A h \in DOMAIN toClient' : h + 1 \in DOMAIN toClient /\ toClient'[h] = toClient[h + 1]
      BY <1>2, <1>3, TailHolds
    <3> QED BY <2>2, <3>1
  <2>4. IsRestore(j)
    BY <2>1, <2>3 DEF IsRestore, IsFrame
  <2>5. DOMAIN f.upserts = {}
    BY <1>1, <1>3, <2>3, <2>4 DEF KnownInv, WatchTold
  <2>6. ~ IsRestore(1)
    BY <1>3, <2>3, <2>4 DEF LineInv, WatchOut
  <2>7. Early(1)
    BY <1>2, <1>9, <2>6 DEF Early
  <2>8. Repairs(j, d)
    BY <2>3, <2>4 DEF BaseTrue
  <2>9. replica'.confirmed[d] = Promoted(replica.confirmed[d], d, DueWith(f))
    <3>1. BaseWith(f, d) = replica.confirmed[d]
      BY <2>5 DEF BaseWith, Newer
    <3> QED BY <1>2, <3>1
  <2>10. \A n \in DueWith(f) : issued[n].doc = d => AckSeq(n) <= Base(d) \/ Brings(j, d, AckSeq(n))
    BY <1>7, <2>3, <2>4, <2>7
  <2> QED BY <1>2, <2>3, <2>8, <2>9, <2>10, RepairsRaised
<1> QED BY <1>8, <1>9

\* The bases are true, or put right by what comes, after every step.
LEMMA BaseStep ==
  ASSUME IInv, Shaped, FateOrder, LineInv, TurnInv, KnownInv, BaseTrue, MarkersTrue, LineInv', [Next]_vars
  PROVE  BaseTrue'
<1>1. PICK z : z.type = "verdict"
  <2>1. [type |-> "verdict"].type = "verdict"
    OBVIOUS
  <2> QED BY <2>1
<1>2. CASE Quiet
  <2>1. /\ StoreGrows /\ replica'.confirmed = replica.confirmed
        /\ Watches \in replica'.restoring <=> Watches \in replica.restoring
        /\ toClient' = toClient \/ (toClient # <<>> /\ toClient' = Tail(toClient))
    BY <1>2 DEF Quiet, StoreGrows
  <2>2. z.type # "frame"
    BY <1>1
  <2> QED BY <2>1, <2>2, BaseKept
<1>3. CASE Stores
  <2>1. StoreGrows /\ replica' = replica
    BY <1>3 DEF Stores, StoreGrows, NewRow
  <2>2. PICK x : x.type # "frame" /\ (toClient' = toClient \/ toClient' = Append(toClient, x))
    BY <1>1, <1>3 DEF Stores
  <2> QED BY <2>1, <2>2, BaseKept
<1>4. CASE Flush
  <2>1. PICK f : /\ log' = log /\ replica' = replica /\ f.restores = FALSE
                 /\ toClient' = Append(toClient, f) \/ toClient' = toClient
    BY <1>4, FlushEffect
  <2>2. f.restores # TRUE /\ StoreGrows
    BY <2>1 DEF StoreGrows
  <2> QED BY <2>1, <2>2, BaseKept
<1>5. CASE SetWatches
  <2>1. PICK f : /\ log' = log /\ replica' = replica /\ FrameShaped(f)
                 /\ toServer # <<>> /\ toServer[1].type = "watch"
                 /\ DOMAIN f.upserts = {d \in Docs : HeadSeq(d) # toServer[1].holdings[d]}
                 /\ \A d \in DOMAIN f.upserts : f.upserts[d].seq = HeadSeq(d)
                 /\ toClient' = Append(toClient, f)
    BY <1>5, SetWatchesEffect
  <2>2. 1 \in DOMAIN toServer
    BY <2>1, ShrinksIs DEF IInv, Typed
  <2>3. Asked /\ toServer[1].holdings = replica.delivered
    BY <2>1, <2>2 DEF Asked, KnownInv, WatchTold
  <2>4. ~ Answered /\ Watches \in replica.restoring
    BY <2>3 DEF LineInv, WatchOut
  <2>5. \A i \in DOMAIN toClient' : (i \in DOMAIN toClient /\ toClient'[i] = toClient[i]) \/ toClient'[i] = f
    BY <2>1, GrowsIs DEF IInv, Typed
  <2>6. ASSUME NEW i \in DOMAIN toClient', NEW d \in Docs, IsRestore(i)' PROVE Repairs(i, d)'
    <3>1. toClient'[i] = f
      BY <2>4, <2>5, <2>6 DEF Answered, IsRestore, IsFrame
    <3>2. Base(d)' = Base(d)
      BY <2>1 DEF Base
    <3>3. Base(d) <= HeadSeq(d) /\ replica.delivered[d] <= Base(d)
          /\ (Base(d) = replica.delivered[d] => BaseIsTrue(d))
      BY DEF KnownInv, BaseKnown
    <3>4. Base(d) \in Nat /\ replica.delivered[d] \in Nat /\ HeadSeq(d) \in Nat
      BY HeadSeqIs DEF Base, Shaped, ReplicaShaped, IInv, Typed
    <3>5. CASE d \in DOMAIN f.upserts
      BY <2>1, <3>1, <3>2, <3>3, <3>5 DEF Repairs
    <3>6. CASE d \notin DOMAIN f.upserts
      <4>1. HeadSeq(d) = replica.delivered[d]
        BY <2>1, <2>3, <3>6
      <4>2. BaseIsTrue(d)
        BY <3>3, <3>4, <4>1
      <4>3. BaseIsTrue(d)'
        BY <2>1, <4>2, BaseStays DEF StoreGrows
      <4> QED BY <3>1, <3>6, <4>3 DEF Repairs
    <3> QED BY <3>5, <3>6
  <2> QED BY <2>1, <2>4, <2>6 DEF BaseTrue
<1>6. CASE ReceiveFrame
  BY <1>6, BaseFrame
<1>7. CASE \E n \in Commits : Promotes(n)
  BY <1>7, BasePromotes
<1>8. CASE Resume
  <2>1. PICK f : /\ log' = log /\ replica'.confirmed = replica.confirmed /\ replica.restoring = {}
                 /\ f.restores = FALSE /\ toClient' = <<f>>
    BY <1>8, ResumeEffect
  <2>2. \A d \in Docs : BaseIsTrue(d)'
    BY <2>1, BaseStays DEF BaseTrue, StoreGrows
  <2>3. \A i \in DOMAIN toClient' : ~ IsRestore(i)'
    BY <2>1 DEF IsRestore
  <2> QED BY <2>2, <2>3 DEF BaseTrue
<1>9. CASE Replace
  <2>1. toClient' = <<>> /\ Watches \in replica'.restoring
    BY <1>9, ReplaceEffect
  <2> QED BY <2>1 DEF BaseTrue
<1> QED BY <1>2, <1>3, <1>4, <1>5, <1>6, <1>7, <1>8, <1>9, StepKinds

\* What a marker at position i says of row a of d.
MarkedAt(i, d, a) ==
  /\ Early(i) => \A j \in DOMAIN toClient : IsRestore(j) => a <= Base(d) \/ Brings(j, d, a)
  /\ ~ Early(i) => \A q \in DOMAIN log : log[q].doc = d /\ q <= a => Shown(q, d, i)

\* Rows up to an old one are old.
LEMMA OldRows ==
  ASSUME IsSeq(log), StoreGrows, NEW a \in DOMAIN log, NEW q \in DOMAIN log', q <= a
  PROVE  q \in DOMAIN log /\ log'[q] = log[q] /\ q \in Nat /\ a \in Nat
<1>1. IsSeq(log')
  BY PastStays DEF StoreGrows
<1>2. q \in Nat /\ q >= 1 /\ Len(log) \in Nat /\ DOMAIN log = 1..Len(log)
  BY <1>1 DEF IsSeq
<1>3. q \in DOMAIN log /\ a \in Nat
  BY <1>2
<1> QED BY <1>2, <1>3, StorePast

\* What a marker says stays said, under answers that stay.
LEMMA MarkedStays ==
  ASSUME IInv, Rises, NEW d \in Docs, NEW a \in DOMAIN log, NEW i \in 0..Len(toClient), MarkedAt(i, d, a),
         Watches \in replica'.restoring <=> Watches \in replica.restoring,
         NEW x, toClient' = toClient \/ toClient' = Append(toClient, x),
         x.type = "frame" /\ x.restores = TRUE =>
           a <= Base(d) \/ (d \in DOMAIN x.upserts /\ a <= x.upserts[d].seq)
  PROVE  MarkedAt(i, d, a)'
<1>0. IsSeq(toClient) /\ IsSeq(log) /\ StoreGrows
  BY DEF IInv, Typed, Rises
<1>9. Len(toClient) \in Nat /\ DOMAIN toClient = 1..Len(toClient)
  BY <1>0 DEF IsSeq
<1>1. \A j \in 1..i : j \in DOMAIN toClient /\ toClient'[j] = toClient[j]
  BY <1>0, <1>9, GrowsIs
<1>2. Early(i)' <=> Early(i)
  BY <1>1 DEF Early, IsRestore, IsFrame
<1>3. \A j \in DOMAIN toClient' : (j \in DOMAIN toClient /\ toClient'[j] = toClient[j]) \/ toClient'[j] = x
  BY <1>0, GrowsIs
<1>4. a <= Base(d) => a <= Base(d)'
  BY <1>0 DEF Rises, IsSeq
<1>5. ASSUME Early(i), NEW j \in DOMAIN toClient', IsRestore(j)' PROVE a <= Base(d)' \/ Brings(j, d, a)'
  <2>1. CASE j \in DOMAIN toClient /\ toClient'[j] = toClient[j]
    <3>1. IsRestore(j)
      BY <1>5, <2>1 DEF IsRestore, IsFrame
    <3>2. a <= Base(d) \/ Brings(j, d, a)
      BY <1>5, <2>1, <3>1 DEF MarkedAt
    <3> QED BY <1>4, <2>1, <3>2 DEF Brings, IsFrame
  <2>2. CASE toClient'[j] = x
    <3>1. x.type = "frame" /\ x.restores = TRUE
      BY <1>5, <2>2 DEF IsRestore, IsFrame
    <3> QED BY <1>4, <2>2, <3>1 DEF Brings, IsFrame
  <2> QED BY <1>3, <2>1, <2>2
<1>6. ASSUME ~ Early(i), NEW q \in DOMAIN log', log'[q].doc = d, q <= a PROVE Shown(q, d, i)'
  <2>1. q \in DOMAIN log /\ log[q].doc = d
    BY <1>0, <1>6, OldRows
  <2>2. Shown(q, d, i)
    BY <1>6, <2>1 DEF MarkedAt
  <2> QED BY <1>0, <2>1, <2>2, ShownStays
<1> QED BY <1>2, <1>5, <1>6 DEF MarkedAt

\* What a marker says stays said, when the first answer is taken.
LEMMA MarkedShifts ==
  ASSUME IInv, LineInv, Rises, NEW d \in Docs, NEW a \in DOMAIN log, toClient # <<>>, toClient' = Tail(toClient),
         \A q \in DOMAIN log : log[q].doc = d /\ Brings(1, d, q) => q <= Base(d)',
         log[a].doc = d,
         Watches \in replica'.restoring <=> Watches \in replica.restoring /\ ~ IsRestore(1),
         NEW i \in Nat, NEW k \in Nat, k = i + 1 \/ (k = 0 /\ i = 0), k <= Len(toClient), MarkedAt(k, d, a)
  PROVE  MarkedAt(i, d, a)'
<1>0. IsSeq(toClient) /\ IsSeq(log) /\ StoreGrows
  BY DEF IInv, Typed, Rises
<1>1. /\ DOMAIN toClient = 1..Len(toClient) /\ Len(toClient) \in Nat /\ 1 \in DOMAIN toClient
      /\ \A j \in DOMAIN toClient : j # 1 => j - 1 \in DOMAIN toClient' /\ toClient'[j - 1] = toClient[j]
      /\ \A j \in DOMAIN toClient' : j + 1 \in DOMAIN toClient /\ toClient'[j] = toClient[j + 1]
      /\ DOMAIN toClient' = 1..(Len(toClient) - 1)
  BY <1>0, TailHolds
<1>2. a <= Base(d) => a <= Base(d)'
  BY <1>0 DEF Rises, IsSeq
<1>3. ASSUME Early(i)' PROVE Early(k)
  <2>1. ASSUME NEW j \in 1..k, IsRestore(j) PROVE FALSE
    <3>1. j # 1
      BY <1>3, <2>1 DEF Early
    <3>2. PICK h : h = j - 1
      OBVIOUS
    <3>3. h \in 1..i /\ j \in DOMAIN toClient
      BY <1>1, <3>1, <3>2
    <3>4. toClient'[h] = toClient[j]
      BY <1>1, <3>1, <3>2, <3>3
    <3>5. IsRestore(h)'
      BY <2>1, <3>4 DEF IsRestore, IsFrame
    <3> QED BY <1>3, <3>3, <3>5 DEF Early
  <2> QED BY <1>3, <2>1 DEF Early
<1>4. ASSUME Early(i)', NEW j \in DOMAIN toClient', IsRestore(j)' PROVE a <= Base(d)' \/ Brings(j, d, a)'
  <2>1. PICK h : h = j + 1
    OBVIOUS
  <2>2. h \in DOMAIN toClient /\ toClient'[j] = toClient[h]
    BY <1>1, <2>1
  <2>3. IsRestore(h)
    BY <1>4, <2>2 DEF IsRestore, IsFrame
  <2>4. a <= Base(d) \/ Brings(h, d, a)
    BY <1>3, <1>4, <2>2, <2>3 DEF MarkedAt
  <2> QED BY <1>2, <2>2, <2>4 DEF Brings, IsFrame
<1>5. ASSUME ~ Early(i)', NEW q \in DOMAIN log', log'[q].doc = d, q <= a PROVE Shown(q, d, i)'
  <2>1. q \in DOMAIN log /\ log[q].doc = d /\ q \in Nat /\ a \in Nat
    BY <1>0, <1>5, OldRows
  <2>2. CASE ~ Early(k)
    <3>1. Shown(q, d, k)
      BY <1>5, <2>1, <2>2 DEF MarkedAt
    <3> QED BY <1>0, <2>1, <3>1, ShownShifts
  <2>3. CASE Early(k)
    <3>1. Watches \in replica.restoring /\ \A j \in 1..k : ~ IsRestore(j)
      BY <2>3 DEF Early
    <3>2. ASSUME NEW j \in 1..i, IsRestore(j)' PROVE FALSE
      <4>1. PICK h : h = j + 1
        OBVIOUS
      <4>2. h \in 1..k /\ j \in DOMAIN toClient'
        BY <1>1, <4>1
      <4>3. toClient'[j] = toClient[h]
        BY <1>1, <4>1, <4>2
      <4>4. IsRestore(h)
        BY <3>2, <4>3 DEF IsRestore, IsFrame
      <4> QED BY <3>1, <4>2, <4>4
    <3>3. IsRestore(1)
      BY <1>5, <3>1, <3>2 DEF Early
    <3>4. a <= Base(d) \/ Brings(1, d, a)
      BY <1>1, <2>3, <3>3 DEF MarkedAt
    <3>5. a <= Base(d)'
      BY <1>2, <3>4
    <3>6. q <= Base(d)'
      BY <1>5, <2>1, <3>5 DEF Rises
    <3> QED BY <3>6 DEF Shown
  <2> QED BY <2>2, <2>3
<1> QED BY <1>4, <1>5 DEF MarkedAt

\* When all that is sent is covered and nothing is dirty of d, a new marker may say so.
LEMMA MarkedLast ==
  ASSUME SentCovered', DirtyTrue', IsSeq(log'), server'.watching = TRUE, NEW d \in Docs, NEW a, NEW k \in Nat,
         k = Len(toClient'), ~ Early(k)', server'.sent[d] \in Nat,
         d \notin server'.dirty \/ \A q \in DOMAIN log' : log'[q].doc = d => q <= server'.sent[d]
  PROVE  MarkedAt(k, d, a)'
<1>1. ASSUME NEW q \in DOMAIN log', log'[q].doc = d PROVE Shown(q, d, k)'
  <2>1. q \in Nat
    BY DEF IsSeq
  <2>2. q <= server'.sent[d]
    <3>1. CASE d \notin server'.dirty
      <4>1. ~ server'.sent[d] < q
        BY <1>1, <3>1 DEF DirtyTrue
      <4> QED BY <2>1, <4>1
    <3> QED BY <1>1, <3>1
  <2>3. PICK i \in 0..k : Shown(q, d, i)'
    BY <1>1, <2>2 DEF SentCovered
  <2>4. i \in Nat /\ i <= k /\ \A j \in 1..i : j \in 1..k
    OBVIOUS
  <2> QED BY <2>3, <2>4 DEF Shown
<1> QED BY <1>1 DEF MarkedAt

\* What a frame brings is in the bases when it is taken in.
LEMMA BroughtIn ==
  ASSUME IInv, Shaped, KnownInv, ReceiveFrame, NEW d \in Docs, NEW q \in DOMAIN log, Brings(1, d, q)
  PROVE  q <= Base(d)'
<1>0. q \in Nat
  BY DEF IsSeq, IInv, Typed
<1>1. PICK f : f = toClient[1]
  OBVIOUS
<1>2. /\ FrameShaped(f) /\ DueWith(f) \in SUBSET Commits /\ \A n \in DueWith(f) : Resolved(n)
      /\ toClient # <<>> /\ log' = log
      /\ replica'.confirmed = [e \in Docs |-> Promoted(BaseWith(f, e), e, DueWith(f))]
  BY <1>1, ReceiveFrameEffect
<1>3. PICK v : v = BaseWith(f, d)
  OBVIOUS
<1>4. FramesTrue /\ f.type = "frame" /\ Base(d) <= HeadSeq(d)
  BY <1>2 DEF KnownInv, BaseKnown, FrameShaped
<1>5. /\ v.seq \in Nat /\ v.seq <= HeadSeq(d)
      /\ d \in DOMAIN f.upserts => f.upserts[d].seq <= v.seq
  BY <1>1, <1>2, <1>3, <1>4, FrameBase
<1>6. PICK p : p = Promoted(v, d, DueWith(f))
  OBVIOUS
<1>7. p.seq \in Nat /\ v.seq <= p.seq
  BY <1>2, <1>5, <1>6, RaisedIs
<1>8. Base(d)' = p.seq
  BY <1>2, <1>3, <1>6 DEF Base
<1>9. d \in DOMAIN f.upserts /\ q <= f.upserts[d].seq /\ f.upserts[d].seq \in Nat
  BY <1>1, <1>2 DEF Brings, FrameShaped
<1> QED BY <1>0, <1>5, <1>7, <1>8, <1>9

\* A session that does not ask has watches.
LEMMA NotAsking ==
  ASSUME Shaped, LineInv, KnownInv, ~ (Watches \in replica.restoring) \/ Answered
  PROVE  server.watching = TRUE
<1>1. ~ Asked
  BY DEF LineInv, WatchOut
<1>2. server.watching \in BOOLEAN /\ ~ server.watching = FALSE
  BY <1>1 DEF KnownInv, WatchTold, Shaped, ServerShaped
<1> QED BY <1>2

\* Markers tell the truth after a flush.
LEMMA MarkersFlush ==
  ASSUME IInv, Shaped, LineInv, KnownInv, MarkersTrue, Rises, DirtyTrue', SentCovered', Shaped', Flush,
         NEW i \in 0..Len(toClient'), NEW d \in Docs, NEW a \in DOMAIN log', NEW n \in Commits,
         log'[a].doc = d, log'[a].by = n, ToldBy(i, n)'
  PROVE  MarkedAt(i, d, a)'
<1>1. PICK f : /\ UNCHANGED <<log, fate, replica>> /\ server'.watching = server.watching /\ server'.dirty = {}
               /\ f.restores = FALSE /\ (toClient' = Append(toClient, f) \/ toClient' = toClient)
  BY FlushEffect
<1>2. PICK m : m = Len(toClient) /\ m \in Nat
  BY DEF IInv, Typed, IsSeq
<1>3. IsSeq(toClient) /\ IsSeq(log)
  BY DEF IInv, Typed
<1>4. CASE i \in 0..m
  <2>1. ToldBy(i, n)
    <3>1. i # 0 => toClient'[i] = toClient[i]
      BY <1>1, <1>2, <1>3, <1>4, LineLengths
    <3> QED BY <1>1, <3>1 DEF ToldBy, IsFrame
  <2>2. MarkedAt(i, d, a)
    BY <1>1, <1>2, <1>4, <2>1 DEF MarkersTrue, MarkedAt
  <2>3. ~ (f.type = "frame" /\ f.restores = TRUE)
    BY <1>1
  <2> QED BY <1>1, <1>2, <1>4, <2>2, <2>3, MarkedStays
<1>5. CASE i \notin 0..m
  <2>1. /\ toClient' = Append(toClient, f) /\ i = m + 1 /\ i = Len(toClient') /\ i \in Nat
        /\ DOMAIN toClient' = 1..i /\ toClient'[i] = f /\ \A j \in 1..m : toClient'[j] = toClient[j]
    <3>1. toClient' = Append(toClient, f)
      BY <1>1, <1>2, <1>5
    <3>2. /\ Len(toClient') = m + 1 /\ toClient'[m + 1] = f /\ DOMAIN toClient' = 1..(m + 1)
          /\ \A j \in 1..m : toClient'[j] = toClient[j]
      BY <1>2, <1>3, <3>1, LineLengths
    <3>3. i = m + 1
      BY <1>2, <1>5, <3>2
    <3> QED BY <1>2, <3>1, <3>2, <3>3
  <2>2. CASE Early(i)'
    <3>1. \A j \in DOMAIN toClient' : ~ IsRestore(j)'
      BY <2>1, <2>2 DEF Early
    <3> QED BY <2>2, <3>1 DEF MarkedAt
  <2>3. CASE ~ Early(i)'
    <3>1. ASSUME Watches \in replica.restoring PROVE Answered
      <4>1. PICK j \in 1..i : IsRestore(j)'
        BY <1>1, <2>3, <3>1 DEF Early
      <4>2. j # i
        BY <1>1, <2>1, <4>1 DEF IsRestore
      <4>3. j \in 1..m
        BY <1>2, <2>1, <4>1, <4>2
      <4>4. toClient'[j] = toClient[j] /\ j \in DOMAIN toClient
        BY <1>2, <1>3, <2>1, <4>3, LineLengths
      <4>5. IsRestore(j)
        BY <4>1, <4>4 DEF IsRestore, IsFrame
      <4> QED BY <4>4, <4>5 DEF Answered
    <3>2. server'.watching = TRUE
      BY <1>1, <3>1, NotAsking
    <3>3. server'.sent[d] \in Nat /\ IsSeq(log') /\ d \notin server'.dirty
      BY <1>1, <1>3 DEF Shaped, ServerShaped
    <3> QED BY <2>1, <2>3, <3>2, <3>3, MarkedLast
  <2> QED BY <2>2, <2>3
<1> QED BY <1>4, <1>5

\* Markers tell the truth when the watch set is answered.
LEMMA MarkersWatch ==
  ASSUME IInv, Shaped, LineInv, KnownInv, MarkersTrue, Rises, SetWatches,
         NEW i \in 0..Len(toClient'), NEW d \in Docs, NEW a \in DOMAIN log', NEW n \in Commits,
         log'[a].doc = d, log'[a].by = n, ToldBy(i, n)'
  PROVE  MarkedAt(i, d, a)'
<1>1. PICK f : /\ log' = log /\ replica' = replica /\ FrameShaped(f) /\ f.marker = 0
               /\ toServer # <<>> /\ toServer[1].type = "watch"
               /\ DOMAIN f.upserts = {e \in Docs : HeadSeq(e) # toServer[1].holdings[e]}
               /\ \A e \in DOMAIN f.upserts : f.upserts[e].seq = HeadSeq(e)
               /\ toClient' = Append(toClient, f)
  BY SetWatchesEffect
<1>2. PICK m : m = Len(toClient) /\ m \in Nat
  BY DEF IInv, Typed, IsSeq
<1>3. IsSeq(toClient) /\ IsSeq(log)
  BY DEF IInv, Typed
<1>4. /\ Len(toClient') = m + 1 /\ toClient'[m + 1] = f
      /\ \A j \in 1..m : toClient'[j] = toClient[j]
  BY <1>1, <1>2, <1>3, LineLengths
<1>5. i \in 0..m
  <2>1. SUFFICES ASSUME i \notin 0..m PROVE FALSE
    OBVIOUS
  <2>2. i = m + 1 /\ i # 0
    BY <1>2, <1>4, <2>1
  <2>3. n <= 0
    BY <1>1, <1>4, <2>2 DEF ToldBy
  <2> QED BY <2>3, CommitNumbers
<1>6. ToldBy(i, n)
  <2>1. i # 0 => toClient'[i] = toClient[i]
    BY <1>2, <1>4, <1>5
  <2> QED BY <1>1, <2>1 DEF ToldBy, IsFrame
<1>7. MarkedAt(i, d, a)
  BY <1>1, <1>2, <1>5, <1>6 DEF MarkersTrue, MarkedAt
<1>8. a <= Base(d) \/ (d \in DOMAIN f.upserts /\ a <= f.upserts[d].seq)
  <2>1. toServer[1].holdings = replica.delivered
    BY <1>1, ShrinksIs DEF IInv, Typed, KnownInv, WatchTold
  <2> QED BY <1>1, <2>1, LeftOut
<1> QED BY <1>1, <1>2, <1>5, <1>7, <1>8, MarkedStays

\* Markers tell the truth when the first answer is taken.
LEMMA MarkersTaken ==
  ASSUME IInv, Shaped, LineInv, MarkersTrue, Rises, log' = log, toClient # <<>>, toClient' = Tail(toClient),
         \A d \in Docs, q \in DOMAIN log : log[q].doc = d /\ Brings(1, d, q) => q <= Base(d)',
         Watches \in replica'.restoring <=> Watches \in replica.restoring /\ ~ IsRestore(1),
         \A n \in Commits : n <= replica'.caughtUp => n <= replica.caughtUp \/ ToldBy(1, n),
         NEW i \in 0..Len(toClient'), NEW d \in Docs, NEW a \in DOMAIN log', NEW n \in Commits,
         log'[a].doc = d, log'[a].by = n, ToldBy(i, n)'
  PROVE  MarkedAt(i, d, a)'
<1>1. PICK m : m = Len(toClient) /\ m \in Nat
  BY DEF IInv, Typed, IsSeq
<1>2. IsSeq(toClient) /\ IsSeq(log)
  BY DEF IInv, Typed
<1>3. /\ Len(toClient') = m - 1 /\ m >= 1
      /\ \A j \in 1..(m - 1) : toClient'[j] = toClient[j + 1]
  BY <1>1, <1>2, LineLengths
<1>4. PICK k \in 0..m : (k = i + 1 \/ (k = 0 /\ i = 0)) /\ ToldBy(k, n)
  <2>1. CASE i = 0 /\ n <= replica.caughtUp
    <3>1. 0 \in 0..m /\ ToldBy(0, n)
      BY <1>1, <2>1 DEF ToldBy
    <3> QED BY <2>1, <3>1
  <2>2. CASE i = 0 /\ ToldBy(1, n)
    <3>1. 1 \in 0..m /\ 1 = i + 1
      BY <1>1, <1>3, <2>2
    <3> QED BY <2>2, <3>1
  <2>3. CASE i # 0
    <3>1. PICK k : k = i + 1
      OBVIOUS
    <3>2. k \in 0..m /\ i \in 1..(m - 1) /\ k # 0
      BY <1>1, <1>3, <2>3, <3>1
    <3>3. toClient'[i] = toClient[k]
      BY <1>3, <3>1, <3>2
    <3>4. ToldBy(k, n)
      BY <2>3, <3>2, <3>3 DEF ToldBy, IsFrame
    <3> QED BY <3>1, <3>2, <3>4
  <2>4. i = 0 => n <= replica'.caughtUp
    BY DEF ToldBy
  <2> QED BY <2>1, <2>2, <2>3, <2>4
<1>5. MarkedAt(k, d, a)
  BY <1>1, <1>4 DEF MarkersTrue, MarkedAt
<1>6. i \in Nat /\ k \in Nat /\ k <= Len(toClient)
  BY <1>1, <1>3, <1>4
<1>7. \A q \in DOMAIN log : log[q].doc = d /\ Brings(1, d, q) => q <= Base(d)'
  OBVIOUS
<1> QED BY <1>4, <1>5, <1>6, <1>7, MarkedShifts

\* Markers tell the truth after every step.
LEMMA MarkersStep ==
  ASSUME IInv, Shaped, LineInv, TurnInv, KnownInv, MarkersTrue, DirtyTrue', SentCovered', LineInv', Shaped',
         [Next]_vars
  PROVE  MarkersTrue'
<1>0. IsSeq(toClient) /\ IsSeq(log) /\ Rises
  BY RisesStep DEF IInv, Typed
<1>1. SUFFICES ASSUME NEW i \in 0..Len(toClient'), NEW d \in Docs, NEW a \in DOMAIN log', NEW n \in Commits,
                      log'[a].doc = d, log'[a].by = n, ToldBy(i, n)'
               PROVE  MarkedAt(i, d, a)'
  BY DEF MarkersTrue, MarkedAt
<1>2. PICK m : m = Len(toClient) /\ m \in Nat
  BY <1>0 DEF IsSeq
<1>3. ASSUME i \in 0..m, ToldBy(i, n), a \in DOMAIN log, log'[a] = log[a] PROVE MarkedAt(i, d, a)
  BY <1>1, <1>2, <1>3 DEF MarkersTrue, MarkedAt
<1>4. PICK z : z.type = "verdict"
  <2>1. [type |-> "verdict"].type = "verdict"
    OBVIOUS
  <2> QED BY <2>1
<1>5. CASE Quiet
  <2>1. /\ log' = log /\ replica'.caughtUp = replica.caughtUp
        /\ Watches \in replica'.restoring <=> Watches \in replica.restoring
        /\ \/ toClient' = toClient
           \/ toClient # <<>> /\ toClient[1].type = "verdict" /\ toClient' = Tail(toClient)
    BY <1>5 DEF Quiet
  <2>2. CASE toClient' = toClient
    <3>1. ToldBy(i, n)
      BY <1>1, <2>1, <2>2 DEF ToldBy, IsFrame
    <3>2. MarkedAt(i, d, a)
      BY <1>1, <1>2, <1>3, <2>1, <2>2, <3>1
    <3>3. ~ (z.type = "frame" /\ z.restores = TRUE)
      BY <1>4
    <3> QED BY <1>0, <2>1, <2>2, <3>2, <3>3, MarkedStays
  <2>3. CASE toClient # <<>> /\ toClient[1].type = "verdict" /\ toClient' = Tail(toClient)
    <3>1. (\A e, q : ~ Brings(1, e, q)) /\ ~ IsRestore(1)
      BY <2>3 DEF Brings, IsRestore, IsFrame
    <3>2. \A k \in Commits : k <= replica'.caughtUp => k <= replica.caughtUp
      BY <2>1
    <3> QED BY <1>0, <1>1, <2>1, <2>3, <3>1, <3>2, MarkersTaken
  <2> QED BY <2>1, <2>2, <2>3
<1>6. CASE Stores
  <2>1. PICK x : x.type = "verdict" /\ (toClient' = toClient \/ toClient' = Append(toClient, x))
    BY <1>4, <1>6 DEF Stores
  <2>2. replica' = replica /\ (log' = log \/ \E row : NewRow(row))
    BY <1>6 DEF Stores
  <2>3. i \in 0..m /\ ToldBy(i, n) /\ \A j \in DOMAIN toClient' : j \in 1..m \/ toClient'[j] = x
    <3>1. CASE toClient' = toClient
      <4>1. ToldBy(i, n)
        BY <1>1, <2>2, <3>1 DEF ToldBy, IsFrame
      <4>2. DOMAIN toClient = 1..m
        BY <1>0, <1>2 DEF IsSeq
      <4> QED BY <1>1, <1>2, <3>1, <4>1, <4>2
    <3>2. CASE toClient' = Append(toClient, x)
      <4>1. /\ Len(toClient') = m + 1 /\ toClient'[m + 1] = x /\ DOMAIN toClient' = 1..(m + 1)
            /\ \A j \in 1..m : toClient'[j] = toClient[j]
        BY <1>0, <1>2, <3>2, LineLengths
      <4>2. i # m + 1
        <5>1. toClient'[m + 1].type # "frame" /\ m + 1 # 0
          BY <1>2, <2>1, <4>1
        <5> QED BY <1>1, <5>1 DEF ToldBy, IsFrame
      <4>3. i \in 0..m
        BY <1>1, <1>2, <4>1, <4>2
      <4>4. i # 0 => toClient'[i] = toClient[i]
        BY <1>2, <4>1, <4>3
      <4>5. ToldBy(i, n)
        BY <1>1, <2>2, <4>4 DEF ToldBy, IsFrame
      <4> QED BY <1>2, <4>1, <4>3, <4>5
    <3> QED BY <2>1, <3>1, <3>2
  <2>4. a \in DOMAIN log /\ log'[a] = log[a]
    <3>1. CASE log' = log
      BY <1>1, <3>1
    <3>2. CASE log' # log /\ a \in DOMAIN log
      BY <1>0, <2>2, <3>2, StorePast DEF StoreGrows, NewRow
    <3>3. CASE log' # log /\ a \notin DOMAIN log
      <4>1. PICK row : NewRow(row)
        BY <2>2, <3>3
      <4>2. DOMAIN log' = DOMAIN log \cup {Len(log) + 1} /\ log'[Len(log) + 1] = row
        BY <1>0, <4>1, PastStays DEF NewRow
      <4>3. row.by = n
        BY <1>1, <3>3, <4>2
      <4>4. ~ Passed(n)
        BY <4>1, <4>3, CommitNumbers DEF NewRow
      <4>5. i # 0 => i \in DOMAIN toClient
        BY <1>0, <1>2, <2>3 DEF IsSeq
      <4> QED BY <2>3, <4>4, <4>5 DEF Passed, ToldBy
    <3> QED BY <3>1, <3>2, <3>3
  <2>5. MarkedAt(i, d, a)
    BY <1>3, <2>3, <2>4
  <2>6. ~ (x.type = "frame" /\ x.restores = TRUE)
    BY <2>1
  <2> QED BY <1>0, <1>2, <2>1, <2>2, <2>3, <2>4, <2>5, <2>6, MarkedStays
<1>7. CASE Flush
  BY <1>0, <1>1, <1>7, MarkersFlush
<1>8. CASE SetWatches
  BY <1>0, <1>1, <1>8, MarkersWatch
<1>9. CASE ReceiveFrame
  <2>1. PICK f : f = toClient[1]
    OBVIOUS
  <2>2. /\ log' = log /\ toClient # <<>> /\ toClient' = Tail(toClient) /\ FrameShaped(f)
        /\ ToldWith(f) \in {replica.caughtUp, f.marker} /\ replica'.caughtUp = ToldWith(f)
        /\ replica'.restoring = IF f.restores THEN replica.restoring \ {Watches} ELSE replica.restoring
    BY <1>9, <2>1, ReceiveFrameEffect
  <2>3. \A e \in Docs, q \in DOMAIN log : log[q].doc = e /\ Brings(1, e, q) => q <= Base(e)'
    BY <1>9, BroughtIn
  <2>4. IsRestore(1) <=> f.restores = TRUE
    BY <2>1, <2>2 DEF IsRestore, IsFrame, FrameShaped
  <2>5. Watches \in replica'.restoring <=> Watches \in replica.restoring /\ ~ IsRestore(1)
    BY <2>2, <2>4 DEF FrameShaped
  <2>6. \A k \in Commits : k <= replica'.caughtUp => k <= replica.caughtUp \/ ToldBy(1, k)
    BY <2>1, <2>2 DEF ToldBy, IsFrame, FrameShaped
  <2> QED BY <1>0, <1>1, <2>2, <2>3, <2>5, <2>6, MarkersTaken
<1>10. CASE \E k \in Commits : Promotes(k)
  <2>1. PICK k \in Commits : SettleAccept(k)
    BY <1>10 DEF Promotes
  <2>2. /\ UNCHANGED <<log, toClient>> /\ replica'.caughtUp = replica.caughtUp
        /\ replica'.restoring = replica.restoring
    BY <2>1, SettleAcceptEffect
  <2>3. ToldBy(i, n)
    BY <1>1, <2>2 DEF ToldBy, IsFrame
  <2>4. MarkedAt(i, d, a)
    BY <1>1, <1>2, <1>3, <2>2, <2>3
  <2>5. ~ (z.type = "frame" /\ z.restores = TRUE)
    BY <1>4
  <2> QED BY <1>0, <1>1, <2>2, <2>4, <2>5, MarkedStays
<1>11. CASE Resume
  <2>1. PICK f : /\ log' = log /\ replica.restoring = {} /\ f.restores = FALSE /\ toClient' = <<f>>
                 /\ server'.watching = server.watching /\ server'.sent = [e \in Docs |-> HeadSeq(e)]
                 /\ replica'.restoring = replica.outstanding /\ replica'.caughtUp = replica.caughtUp
                 /\ replica'.confirmed = replica.confirmed
    BY <1>11, ResumeEffect
  <2>2. Watches \notin replica'.restoring
    BY <2>1, CommitNumbers DEF IInv, Typed
  <2>3. ~ Early(i)' /\ ~ Early(0)
    BY <2>1, <2>2 DEF Early
  <2>4. i \in {0, 1} /\ Len(toClient') = 1
    BY <1>1, <2>1
  <2>5. CASE i = 0
    <3>1. ToldBy(0, n)
      BY <1>1, <2>1, <2>5 DEF ToldBy
    <3>2. MarkedAt(0, d, a)
      BY <1>1, <1>2, <2>1, <3>1 DEF MarkersTrue, MarkedAt
    <3>3. ASSUME NEW q \in DOMAIN log, log[q].doc = d, q <= a PROVE Shown(q, d, 0)'
      <4>1. Shown(q, d, 0)
        BY <2>3, <3>2, <3>3 DEF MarkedAt
      <4>2. q <= Base(d) => q <= Base(d)'
        BY <1>0, <2>1 DEF Base
      <4>3. Open(q) => Open(q)' \/ q <= Base(d)'
        BY <1>0, <3>3 DEF Rises
      <4> QED BY <4>1, <4>2, <4>3 DEF Shown
    <3> QED BY <2>1, <2>3, <2>5, <3>3 DEF MarkedAt
  <2>6. CASE i = 1
    <3>1. server'.watching = TRUE
      BY <2>1, NotAsking
    <3>2. \A q \in DOMAIN log' : log'[q].doc = d => q <= server'.sent[d]
      BY <1>0, <2>1, HeadSeqIs
    <3>3. server'.sent[d] \in Nat /\ IsSeq(log')
      BY <1>0, <2>1 DEF Shaped, ServerShaped
    <3> QED BY <2>3, <2>4, <2>6, <3>1, <3>2, <3>3, MarkedLast
  <2> QED BY <2>4, <2>5, <2>6
<1>12. CASE Replace
  <2>1. toClient' = <<>> /\ Watches \in replica'.restoring
    BY <1>12, ReplaceEffect
  <2>2. i = 0
    BY <1>1, <2>1
  <2>3. Early(i)'
    BY <2>1, <2>2 DEF Early
  <2> QED BY <2>1, <2>3 DEF MarkedAt
<1> QED BY <1>5, <1>6, <1>7, <1>8, <1>9, <1>10, <1>11, <1>12, StepKinds

\* In the beginning nothing is stored and all bases are its empty versions.
LEMMA InitData ==
  ASSUME Init
  PROVE  KnownInv /\ BaseTrue /\ DirtyTrue /\ SentCovered /\ MarkersTrue
<1>1. /\ log = <<>> /\ toServer = <<>> /\ toClient = <<>> /\ server.watching = TRUE
      /\ server.sent = [d \in Docs |-> 0] /\ replica.confirmed = [d \in Docs |-> [seq |-> 0, val |-> <<>>]]
      /\ replica.delivered = [d \in Docs |-> 0] /\ replica.restoring = {}
  BY DEF Init
<1>2. IsSeq(log) /\ Len(log) = 0 /\ DOMAIN log = {} /\ DOMAIN toClient = {} /\ DOMAIN toServer = {}
  BY <1>1 DEF IsSeq
<1>3. \A d \in Docs : HeadSeq(d) = 0
  BY <1>2, HeadSeqIs
<1>4. \A d \in Docs : Base(d) = 0 /\ replica.delivered[d] = 0 /\ server.sent[d] = 0
  BY <1>1 DEF Base
<1>5. ASSUME NEW d \in Docs PROVE BaseIsTrue(d)
  <2>1. HeadAt(d, 0) = 0
    BY <1>2, <1>3 DEF HeadSeq
  <2>2. DocAt(d, 0) = <<>>
    BY <2>1 DEF DocAt
  <2> QED BY <1>1, <1>4, <2>2 DEF BaseIsTrue
<1>6. KnownInv
  <2>1. ~ Asked /\ \A f : f \notin Range(toClient)
    BY <1>1, <1>2 DEF Asked, Range
  <2>2. WatchTold
    BY <1>1, <1>2, <2>1 DEF WatchTold
  <2>3. BaseKnown
    BY <1>3, <1>4, <1>5 DEF BaseKnown
  <2> QED BY <1>2, <1>4, <2>1, <2>2, <2>3 DEF KnownInv, FramesTrue, SentKnown
<1> QED BY <1>2, <1>5, <1>6 DEF BaseTrue, DirtyTrue, SentCovered, MarkersTrue

\* What the replica and the server know of the data, and in what order they came to.
DataInv ==
  /\ IInv /\ Shaped /\ FateOrder /\ LineInv /\ TurnInv
  /\ KnownInv /\ BaseTrue /\ DirtyTrue /\ SentCovered /\ MarkersTrue

LEMMA DataStep ==
  ASSUME DataInv, [Next]_vars
  PROVE  DataInv'
<1>1. /\ IInv /\ Shaped /\ FateOrder /\ LineInv /\ TurnInv
      /\ KnownInv /\ BaseTrue /\ DirtyTrue /\ SentCovered /\ MarkersTrue
  BY DEF DataInv
<1>2. IInv'
  BY <1>1, InvStep
<1>3. Shaped'
  BY <1>1, ShapedStep
<1>4. FateOrder' /\ LineInv'
  BY <1>1, FateOrderStep, LineStep
<1>5. TurnInv'
  BY <1>1, TurnStep
<1>6. KnownInv'
  BY <1>1, <1>3, <1>4, KnownStep
<1>7. BaseTrue'
  BY <1>1, <1>4, BaseStep
<1>8. DirtyTrue'
  BY <1>1, <1>3, DirtyStep
<1>9. SentCovered'
  BY <1>1, <1>3, SentStep
<1>10. MarkersTrue'
  BY <1>1, <1>3, <1>4, <1>8, <1>9, MarkersStep
<1> QED BY <1>2, <1>3, <1>4, <1>5, <1>6, <1>7, <1>8, <1>9, <1>10 DEF DataInv

\* The order of the line, the markers and the bases hold whatever is pushed,
\* refused, lost and sent again.
THEOREM DataInvariance == Spec => []DataInv
<1>1. Init => DataInv
  BY InitHolds, InitShaped, InitLine, InitTurn, InitData DEF DataInv
<1>2. DataInv /\ [Next]_vars => DataInv'
  BY DataStep
<1> QED BY <1>1, <1>2, PTL DEF Spec

\* A confirmed version is what the store held at its seq, whichever frames,
\* verdicts and markers it was made from (#settleAccept, #noteCaughtUpLocalSeq,
\* #applySessionSync; INV-9).
THEOREM ConfirmedIsStored == Spec => []MirrorTrue
<1>1. DataInv => MirrorTrue
  BY DEF DataInv, BaseTrue, BaseIsTrue, Base, MirrorTrue
<1> QED BY <1>1, DataInvariance, PTL

\* When nothing is on the way and nothing is dirty, the bases are the heads.
LEMMA QuietBase ==
  ASSUME DataInv, toServer = <<>>, toClient = <<>>, server.dirty = {},
         \A n \in Commits : fate[n] \in {"unissued", "applied", "rejected"},
         NEW d \in Docs
  PROVE  Base(d) = HeadSeq(d) /\ BaseIsTrue(d)
<1>0. /\ IInv /\ Shaped /\ LineInv /\ KnownInv /\ BaseTrue /\ DirtyTrue /\ SentCovered
      /\ IsSeq(log) /\ IsSeq(toClient)
  BY DEF DataInv, IInv, Typed
<1>1. /\ HeadSeq(d) \in Nat /\ HeadSeq(d) <= Len(log)
      /\ HeadSeq(d) # 0 => HeadSeq(d) \in DOMAIN log /\ log[HeadSeq(d)].doc = d
  BY <1>0, HeadSeqIs
<1>2. Watches \notin replica.restoring
  <2>1. DOMAIN toServer = {} /\ DOMAIN toClient = {}
    OBVIOUS
  <2> QED BY <1>0, <2>1 DEF LineInv, WatchOut, Asked, Answered
<1>3. server.watching = TRUE
  BY <1>0, <1>2, NotAsking
<1>4. Base(d) \in Nat /\ Base(d) <= HeadSeq(d) /\ server.sent[d] \in Nat
  BY <1>0 DEF KnownInv, BaseKnown, Base, Shaped, ReplicaShaped, ServerShaped
<1>5. ASSUME HeadSeq(d) # 0 PROVE HeadSeq(d) <= Base(d)
  <2>1. PICK h : h = HeadSeq(d)
    OBVIOUS
  <2>2. h \in DOMAIN log /\ log[h].doc = d
    BY <1>1, <1>5, <2>1
  <2>3. h <= server.sent[d]
    <3>1. ~ server.sent[d] < h
      BY <1>0, <1>3, <2>2 DEF DirtyTrue
    <3> QED BY <1>1, <1>4, <2>1, <3>1
  <2>4. PICK i \in 0..Len(toClient) : Shown(h, d, i)
    BY <1>0, <1>3, <2>2, <2>3 DEF SentCovered
  <2>5. ~ \E j \in 1..i : Brings(j, d, h)
    <3>1. i = 0
      BY <2>4
    <3> QED BY <3>1
  <2>6. ~ Open(h)
    <3>1. ASSUME NEW n \in Commits, log[h].by = n, fate[n] # "applied" PROVE FALSE
      <4>1. Resolved(n)
        BY <2>2, <3>1 DEF Resolved
      <4> QED BY <1>0, <3>1, <4>1 DEF IInv, Unsent, Over
    <3> QED BY <3>1 DEF Open
  <2> QED BY <2>1, <2>4, <2>5, <2>6 DEF Shown
<1> QED BY <1>0, <1>1, <1>2, <1>4, <1>5 DEF BaseTrue

\* When nothing is on the way or owed, the replica shows the store: no frame is
\* left out, none is lost, and no layer stays behind (#syncSessionForConnection,
\* #applySessionSync, #confirmPending).
THEOREM QuietIsStored == Spec => []QuietView
<1>1. DataInv => QuietView
  <2>1. SUFFICES ASSUME DataInv, toServer = <<>>, toClient = <<>>, server.dirty = {},
                        \A n \in Commits : fate[n] \in {"unissued", "applied", "rejected"},
                        NEW d \in Docs
                 PROVE  View(d) = DocAt(d, Len(log))
    BY DEF QuietView
  <2>2. IInv /\ Shaped /\ TurnInv /\ IsSeq(log)
    BY <2>1 DEF DataInv, IInv, Typed
  <2>3. Base(d) = HeadSeq(d) /\ BaseIsTrue(d)
    BY <2>1, QuietBase
  <2>4. PICK h : h = HeadSeq(d)
    OBVIOUS
  <2>5. h \in Nat /\ h <= Len(log) /\ Len(log) \in Nat /\ DOMAIN log = 1..Len(log)
        /\ \A p \in DOMAIN log : log[p].doc = d => p <= h
    BY <2>2, <2>4, HeadSeqIs
  <2>6. replica.pending[d] = {}
    <3>1. \A n \in 1..Len(issued) : n \in Commits /\ fate[n] # "unissued"
      BY <2>2, IssuedAre DEF IInv
    <3>2. \A n \in 1..Len(issued) : fate[n] \in {"applied", "rejected"}
      BY <2>1, <3>1
    <3> QED BY <2>2, <3>2 DEF Shaped, LayersStand
  <2>7. Layered(DocAt(d, h), {}) = DocAt(d, Len(log))
    <3>1. StoreOK
      BY <2>2 DEF StoreOK, IInv, Typed, Shaped, TurnInv
    <3>2. \A q \in DOMAIN log : log[q].doc = d /\ h < q /\ q <= Len(log) => log[q].by \in {}
      BY <2>5
    <3>3. PICK e : e = Len(log)
      OBVIOUS
    <3>4. \A q \in DOMAIN log : log[q].doc = d /\ h < q /\ q <= e => log[q].by \in {}
      BY <3>2, <3>3
    <3> QED BY <2>5, <3>1, <3>3, <3>4, LayeredIs
  <2>8. replica.confirmed[d].val = DocAt(d, h)
    BY <2>3, <2>4 DEF BaseIsTrue
  <2> QED BY <2>6, <2>7, <2>8 DEF View
<1> QED BY <1>1, DataInvariance, PTL

-----------------------------------------------------------------------------
(* What commits read                                                       *)

\* The rounds of Layered, now and after a step.
LEMMA LayeredAll ==
  \A val, layers : \E over : LayersOver(val, layers, over) /\ Layered(val, layers) = over[MaxCommits]
BY LayeredRounds

LEMMA LayeredThen ==
  (\A val, layers : \E over : LayersOver(val, layers, over) /\ Layered(val, layers) = over[MaxCommits])'
BY LayeredAll, PTL

\* Layers do the same where they write the same.
LEMMA LayeredSame ==
  ASSUME NEW val, NEW layers, \A n \in layers : Op(n)' = Op(n)
  PROVE  Layered(val, layers)' = Layered(val, layers)
<1>1. PICK over : LayersOver(val, layers, over) /\ Layered(val, layers) = over[MaxCommits]
  BY LayeredRounds
<1>3. PICK after : LayersOver(val, layers, after)' /\ Layered(val, layers)' = after[MaxCommits]
  BY LayeredThen
<1>4. MaxCommits \in Nat
  BY CommitNumbers
<1>5. over[0] = after[0]
  BY <1>1, <1>3 DEF LayersOver
<1>6. ASSUME NEW n \in 1..MaxCommits, over[n - 1] = after[n - 1] PROVE over[n] = after[n]
  <2>1. CASE n \in layers
    <3>1. over[n] = Applied(over[n - 1], Op(n), n) /\ after[n] = Applied(after[n - 1], Op(n)', n)
      BY <1>1, <1>3, <2>1 DEF LayersOver, Applied
    <3> QED BY <1>6, <2>1, <3>1
  <2>2. CASE n \notin layers
    BY <1>1, <1>3, <1>6, <2>2 DEF LayersOver
  <2> QED BY <2>1, <2>2
<1> DEFINE T == {n \in 0..MaxCommits : over[n] # after[n]}
<1>7. T = {}
  <2>1. SUFFICES ASSUME T # {} PROVE FALSE
    OBVIOUS
  <2>2. T \in SUBSET Nat
    BY <1>4
  <2>3. PICK n \in T : \A y \in T : n <= y
    BY <2>1, <2>2, LeastOfNaturals
  <2>4. n \in 1..MaxCommits
    BY <1>4, <1>5, <2>3
  <2>5. PICK k : k = n - 1
    OBVIOUS
  <2>6. k \in 0..MaxCommits /\ ~ n <= k
    BY <1>4, <2>4, <2>5
  <2>7. over[k] = after[k]
    BY <2>3, <2>6
  <2> QED BY <1>6, <2>3, <2>4, <2>5, <2>7
<1> QED BY <1>1, <1>3, <1>4, <1>7

\* A read is the document the store held at its basis, under its layers; what of
\* them is stored was stored after that.
ReadIsTrue(d, r) ==
  /\ r.basis \in Nat /\ r.basis <= Len(log)
  /\ r.seen = Layered(DocAt(d, r.basis), r.layers)
  /\ \A m \in r.layers : Resolved(m) => r.basis < AckSeq(m)

ReadTrue ==
  \A n \in 1..Len(issued) : \A d \in DOMAIN issued[n].reads :
    \A r : r = issued[n].reads[d] => ReadIsTrue(d, r)

\* What a step does to the store and to the commits.
LEMMA WriteKinds ==
  ASSUME IInv, Shaped, [Next]_vars
  PROVE  \/ UNCHANGED <<log, issued>>
         \/ /\ issued' = issued
            /\ \E row : /\ log' = Append(log, row)
                        /\ \/ row.by = Foreign
                           \/ \E n \in 1..Len(issued) : row.by = n /\ Admissible(issued[n])
         \/ \E d \in Docs, op \in {"set", "patch"}, docs \in SUBSET Docs : Issue(d, op, docs)
<1>1. CASE Decide
  <2>1. PICK n : /\ issued' = issued /\ n \in 1..Len(issued)
                 /\ \/ log' = log
                    \/ /\ Admissible(issued[n])
                       /\ \E row : log' = Append(log, row) /\ row.by = n
    BY <1>1, DecideEffect
  <2> QED BY <2>1
<1>2. CASE Flush
  BY <1>2, FlushEffect
<1>3. CASE SetWatches
  BY <1>3, SetWatchesEffect
<1>4. CASE ReceiveVerdict
  BY <1>4 DEF ReceiveVerdict
<1>5. CASE ReceiveFrame
  BY <1>5 DEF ReceiveFrame
<1>6. ASSUME NEW n \in Commits, Send(n) \/ SettleAccept(n) \/ Drop(n) PROVE UNCHANGED <<log, issued>>
  BY <1>6 DEF Send, SettleAccept, Drop
<1>7. ASSUME NEW d \in Docs, NEW op, CommitForeign(d, op)
      PROVE  issued' = issued /\ \E row : log' = Append(log, row) /\ row.by = Foreign
  BY <1>7, ForeignEffect
<1>8. ASSUME NEW n \in Commits, RepairTimesOut(n) PROVE UNCHANGED <<log, issued>>
  BY <1>8 DEF RepairTimesOut
<1>9. CASE Resume
  BY <1>9 DEF Resume
<1>10. CASE Replace
  BY <1>10 DEF Replace
<1>11. CASE UNCHANGED vars
  BY <1>11 DEF vars
<1> QED BY <1>1, <1>2, <1>3, <1>4, <1>5, <1>6, <1>7, <1>8, <1>9, <1>10, <1>11 DEF Next, Progress

\* A read of the past stays true when the store grows.
LEMMA ReadStays ==
  ASSUME IInv, StoredOnce', StoreGrows, NEW n \in 1..Len(issued), NEW d, NEW r, ReadIsTrue(d, r),
         r.layers \subseteq 1..Len(issued), \A m \in 1..Len(issued) : issued'[m] = issued[m]
  PROVE  ReadIsTrue(d, r)'
<1>0. IsSeq(log) /\ 1..Len(issued) \subseteq Commits
  BY IssuedAre DEF IInv, Typed
<1>1. PICK b, ls : b = r.basis /\ ls = r.layers
  OBVIOUS
<1>2. /\ Len(log) \in Nat /\ Len(log') \in Nat /\ Len(log) <= Len(log') /\ DOMAIN log = 1..Len(log)
      /\ DocAt(d, b)' = DocAt(d, b) /\ b \in Nat /\ b <= Len(log)
      /\ \A q \in DOMAIN log : q \in DOMAIN log' /\ log'[q] = log[q]
  BY <1>0, <1>1, StorePast DEF ReadIsTrue
<1>3. PICK v : v = DocAt(d, b)
  OBVIOUS
<1>4. Layered(v, ls)' = Layered(v, ls)
  <2>1. \A m \in ls : Op(m)' = Op(m)
    BY <1>1 DEF Op
  <2> QED BY <2>1, LayeredSame
<1>5. r.seen = Layered(DocAt(d, b), ls)'
  <2>1. DocAt(d, b)' = v
    BY <1>2, <1>3
  <2> QED BY <1>1, <1>3, <1>4, <2>1 DEF ReadIsTrue
<1>6. ASSUME NEW m \in ls, Resolved(m)' PROVE b < AckSeq(m)'
  <2>1. m \in Commits
    BY <1>0, <1>1
  <2>2. PICK q \in DOMAIN log' : log'[q].by = m
    BY <1>6 DEF Resolved
  <2>3. AckSeq(m)' = q
    BY <2>1, <2>2 DEF AckSeq, StoredOnce
  <2>4. CASE q \in DOMAIN log
    <3>1. log[q].by = m
      BY <1>2, <2>2, <2>4
    <3>2. AckSeq(m) = q
      BY <2>1, <2>4, <3>1, AckIs DEF IInv
    <3>3. Resolved(m)
      BY <2>4, <3>1 DEF Resolved
    <3> QED BY <1>1, <1>6, <2>3, <3>2, <3>3 DEF ReadIsTrue
  <2>5. CASE q \notin DOMAIN log
    <3>1. PICK row : log' = Append(log, row)
      BY <2>5 DEF StoreGrows
    <3>2. q = Len(log) + 1
      BY <1>0, <2>5, <3>1, PastStays
    <3> QED BY <1>2, <2>3, <3>2
  <2> QED BY <2>4, <2>5
<1> QED BY <1>1, <1>2, <1>5, <1>6 DEF ReadIsTrue

\* A read of a document that is not unsettled is true.
LEMMA ReadOfIsTrue ==
  ASSUME DataInv, NEW d \in Docs, ~ Unsettled(d)
  PROVE  ReadIsTrue(d, ReadOf(d)) /\ ReadOf(d).layers \subseteq 1..Len(issued)
<1>0. IInv /\ Shaped /\ KnownInv /\ BaseTrue /\ IsSeq(log)
  BY DEF DataInv, IInv, Typed
<1>1. Watches \notin replica.restoring
  BY DEF Unsettled
<1>2. replica.confirmed[d].val = DocAt(d, Base(d))
  BY <1>0, <1>1 DEF BaseTrue, BaseIsTrue
<1>3. Base(d) \in Nat /\ Base(d) <= Len(log)
  <2>1. Base(d) \in Nat /\ Base(d) <= HeadSeq(d)
    BY <1>0 DEF KnownInv, BaseKnown, Base, Shaped, ReplicaShaped
  <2> QED BY <1>0, <2>1, HeadSeqIs
<1>4. replica.pending[d] \subseteq 1..Len(issued)
  BY <1>0 DEF Shaped, LayersStand
<1>5. ASSUME NEW m \in replica.pending[d], Resolved(m) PROVE Base(d) < AckSeq(m)
  <2>1. m \in Commits
    BY <1>0, <1>4, IssuedAre DEF IInv
  <2>2. AckSeq(m) \in Nat
    BY <1>0, <1>5, <2>1, RowOf
  <2>3. ~ AckSeq(m) <= Base(d)
    BY <1>5 DEF Unsettled, Base
  <2> QED BY <1>3, <2>2, <2>3
<1>6. /\ ReadOf(d).basis = Base(d) /\ ReadOf(d).layers = replica.pending[d]
      /\ ReadOf(d).seen = Layered(replica.confirmed[d].val, replica.pending[d])
  BY ReadOfIs DEF View, Base
<1> QED BY <1>2, <1>3, <1>4, <1>5, <1>6 DEF ReadIsTrue

\* Reads stay true.
LEMMA ReadStep ==
  ASSUME DataInv, DataInv', ReadTrue, ~ ReadUnsettled, [Next]_vars
  PROVE  ReadTrue'
<1>0. IInv /\ Shaped /\ IsSeq(log) /\ StoredOnce'
  BY DEF DataInv, IInv, Typed
<1>1. ASSUME NEW n \in 1..Len(issued), NEW d \in DOMAIN issued[n].reads, StoreGrows,
             \A m \in 1..Len(issued) : issued'[m] = issued[m]
      PROVE  \A r : r = issued'[n].reads[d] => ReadIsTrue(d, r)'
  <2>1. PICK r : r = issued[n].reads[d]
    OBVIOUS
  <2>2. ReadIsTrue(d, r)
    BY <2>1 DEF ReadTrue
  <2>3. r.layers \subseteq 1..Len(issued)
    <3>1. CommitShaped(n) /\ n \in Nat /\ Len(issued) \in Nat
      BY <1>0, IssuedAre DEF Shaped, IInv
    <3>2. r.layers \subseteq {m \in 1..(n - 1) : issued[m].doc = d}
      BY <2>1, <3>1 DEF CommitShaped
    <3>3. \A m \in 1..(n - 1) : m \in 1..Len(issued)
      BY <3>1
    <3> QED BY <3>2, <3>3
  <2>4. ReadIsTrue(d, r)'
    BY <1>0, <1>1, <2>2, <2>3, ReadStays
  <2>5. issued'[n].reads[d] = r
    BY <1>1, <2>1
  <2> QED BY <2>4, <2>5
<1>2. CASE issued' = issued /\ StoreGrows
  <2>1. ASSUME NEW n \in 1..Len(issued'), NEW d \in DOMAIN issued'[n].reads
        PROVE  \A r : r = issued'[n].reads[d] => ReadIsTrue(d, r)'
    BY <1>1, <1>2
  <2> QED BY <1>2, <2>1 DEF ReadTrue
<1>3. ASSUME NEW e \in Docs, NEW op, NEW docs \in SUBSET Docs, Issue(e, op, docs) PROVE ReadTrue'
  <2>1. PICK k : k = Len(issued) + 1
    OBVIOUS
  <2>2. /\ log' = log /\ Len(issued') = k /\ \A m \in 1..Len(issued) : issued'[m] = issued[m]
        /\ DOMAIN issued'[k].reads = docs /\ \A d \in docs : issued'[k].reads[d] = ReadOf(d)
        /\ \A d \in docs : ~ Unsettled(d)
    BY <1>0, <1>3, <2>1, IssueEffect
  <2>3. StoreGrows
    BY <2>2 DEF StoreGrows
  <2>4. ASSUME NEW d \in docs PROVE \A r : r = issued'[k].reads[d] => ReadIsTrue(d, r)'
    <3>1. PICK r : r = ReadOf(d)
      OBVIOUS
    <3>2. ReadIsTrue(d, r) /\ r.layers \subseteq 1..Len(issued)
      BY <2>2, <3>1, ReadOfIsTrue
    <3>3. PICK b, ls : b = r.basis /\ ls = r.layers
      OBVIOUS
    <3>4. PICK v : v = DocAt(d, b)
      OBVIOUS
    <3>5. DocAt(d, b)' = v
      BY <2>2, <3>4 DEF DocAt, HeadAt
    <3>6. Layered(v, ls)' = Layered(v, ls)
      <4>1. \A m \in ls : Op(m)' = Op(m)
        BY <2>2, <3>2, <3>3 DEF Op
      <4> QED BY <4>1, LayeredSame
    <3>7. r.seen = Layered(DocAt(d, b), ls)'
      BY <3>2, <3>3, <3>4, <3>5, <3>6 DEF ReadIsTrue
    <3>8. \A m \in ls : Resolved(m)' => b < AckSeq(m)'
      BY <2>2, <3>2, <3>3 DEF ReadIsTrue, Resolved, AckSeq
    <3>9. issued'[k].reads[d] = r
      BY <2>2, <3>1
    <3>10. ReadIsTrue(d, r)'
      BY <2>2, <3>2, <3>3, <3>7, <3>8 DEF ReadIsTrue
    <3> QED BY <3>9, <3>10
  <2>5. ASSUME NEW n \in 1..Len(issued'), NEW d \in DOMAIN issued'[n].reads
        PROVE  \A r : r = issued'[n].reads[d] => ReadIsTrue(d, r)'
    <3>1. n = k \/ n \in 1..Len(issued)
      <4>1. Len(issued) \in Nat
        BY <1>0, IssuedAre DEF IInv
      <4> QED BY <2>1, <2>2, <4>1
    <3>2. CASE n = k
      BY <2>2, <2>4, <2>5, <3>2
    <3>3. CASE n \in 1..Len(issued)
      BY <1>1, <2>2, <2>3, <2>5, <3>3
    <3> QED BY <3>1, <3>2, <3>3
  <2> QED BY <2>5 DEF ReadTrue
<1> QED BY <1>0, <1>2, <1>3, WriteKinds DEF StoreGrows

\* A read the store admits is what the store holds.
LEMMA AdmittedReads ==
  ASSUME DataInv, NEW n \in 1..Len(issued), Admissible(issued[n]), NEW d \in DOMAIN issued[n].reads,
         NEW r, r = issued[n].reads[d], ReadIsTrue(d, r)
  PROVE  r.seen = DocAt(d, Len(log))
<1>0. IInv /\ Shaped /\ TurnInv /\ IsSeq(log)
  BY DEF DataInv, IInv, Typed
<1>1. StoreOK
  BY <1>0 DEF StoreOK, IInv, Typed, Shaped, TurnInv
<1>2. Fresh(d, r)
  BY DEF Admissible
<1>3. r.layers \subseteq {m \in 1..(n - 1) : issued[m].doc = d} /\ 1..Len(issued) \subseteq Commits
      /\ n \in Nat /\ Len(issued) \in Nat
  BY <1>0, IssuedAre DEF Shaped, CommitShaped, IInv
<1>4. r.layers \in SUBSET Commits /\ \A m \in r.layers : issued[m].doc = d
  <2>1. \A m \in 1..(n - 1) : m \in 1..Len(issued)
    BY <1>3
  <2> QED BY <1>3, <2>1
<1>5. PICK b, e : b = r.basis /\ e = Len(log)
  OBVIOUS
<1>6. b \in Nat /\ e \in Nat /\ b <= e /\ DOMAIN log = 1..e
  BY <1>0, <1>5, HeadSeqIs DEF ReadIsTrue
<1>7. ASSUME NEW m \in r.layers
      PROVE  \E q \in DOMAIN log : log[q].by = m /\ log[q].doc = d /\ b < q /\ q <= e
  <2>1. Resolved(m) /\ m \in Commits /\ issued[m].doc = d
    BY <1>2, <1>4 DEF Fresh
  <2>2. PICK q : q = AckSeq(m)
    OBVIOUS
  <2>3. q \in DOMAIN log /\ log[q].by = m /\ log[q].doc = d
    BY <1>0, <2>1, <2>2, RowOf
  <2>4. b < q
    BY <1>5, <2>1, <2>2 DEF ReadIsTrue
  <2> QED BY <1>6, <2>3, <2>4
<1>8. \A q \in DOMAIN log : log[q].doc = d /\ b < q /\ q <= e => log[q].by \in r.layers
  BY <1>2, <1>5, <1>6 DEF Fresh
<1>9. Layered(DocAt(d, b), r.layers) = DocAt(d, e)
  BY <1>1, <1>4, <1>5, <1>6, <1>7, <1>8, LayeredIs
<1> QED BY <1>5, <1>9 DEF ReadIsTrue

\* What stored commits read was stored, after every step.
LEMMA SeenStep ==
  ASSUME DataInv, DataInv', ReadTrue, SeenIsStored, [Next]_vars
  PROVE  SeenIsStored'
<1>0. IInv /\ Shaped /\ IsSeq(log) /\ RowsTrue
  BY DEF DataInv, IInv, Typed, Shaped
<1>1. ASSUME StoreGrows, \A m \in 1..Len(issued) : issued'[m] = issued[m], NEW q \in DOMAIN log,
             log[q].by # Foreign, NEW n, n = log[q].by, NEW d \in DOMAIN issued[n].reads
      PROVE  issued'[n].reads[d].seen = DocAt(d, q - 1)'
  <2>1. PICK p : p = q - 1
    OBVIOUS
  <2>2. p \in 0..Len(log)
    BY <1>0, <2>1 DEF IsSeq
  <2>3. DocAt(d, p)' = DocAt(d, p)
    BY <1>0, <1>1, <2>2, StorePast
  <2>4. n \in 1..Len(issued)
    BY <1>0, <1>1, CommitNumbers DEF RowsTrue
  <2>5. issued[n].reads[d].seen = DocAt(d, p)
    BY <1>1, <2>1 DEF SeenIsStored
  <2> QED BY <1>1, <2>1, <2>3, <2>4, <2>5
<1>2. CASE UNCHANGED <<log, issued>>
  <2>1. StoreGrows /\ \A m \in 1..Len(issued) : issued'[m] = issued[m]
    BY <1>2 DEF StoreGrows
  <2> QED BY <1>1, <1>2, <2>1 DEF SeenIsStored
<1>3. ASSUME NEW e \in Docs, NEW op, NEW docs \in SUBSET Docs, Issue(e, op, docs) PROVE SeenIsStored'
  <2>1. log' = log /\ \A m \in 1..Len(issued) : issued'[m] = issued[m]
    BY <1>0, <1>3, IssueEffect
  <2>2. StoreGrows
    BY <2>1 DEF StoreGrows
  <2>3. \A q \in DOMAIN log : log[q].by # Foreign => log[q].by \in 1..Len(issued)
    BY <1>0, CommitNumbers DEF RowsTrue
  <2> QED BY <1>1, <2>1, <2>2, <2>3 DEF SeenIsStored
<1>4. ASSUME issued' = issued, NEW row, log' = Append(log, row),
             \/ row.by = Foreign
             \/ \E n \in 1..Len(issued) : row.by = n /\ Admissible(issued[n])
      PROVE  SeenIsStored'
  <2>1. StoreGrows /\ \A m \in 1..Len(issued) : issued'[m] = issued[m]
    BY <1>4 DEF StoreGrows
  <2>2. PICK h : h = Len(log)
    OBVIOUS
  <2>3. /\ DOMAIN log' = DOMAIN log \cup {h + 1} /\ log'[h + 1] = row /\ h \in Nat
        /\ \A q \in DOMAIN log : log'[q] = log[q]
        /\ \A d : DocAt(d, h)' = DocAt(d, h)
    BY <1>0, <1>4, <2>2, PastStays
  <2>4. ASSUME NEW n \in 1..Len(issued), row.by = n, Admissible(issued[n]), NEW d \in DOMAIN issued[n].reads
        PROVE  issued[n].reads[d].seen = DocAt(d, h)'
    <3>1. PICK r : r = issued[n].reads[d]
      OBVIOUS
    <3>2. ReadIsTrue(d, r)
      BY <3>1 DEF ReadTrue
    <3>3. r.seen = DocAt(d, h)
      BY <2>2, <2>4, <3>1, <3>2, AdmittedReads
    <3> QED BY <2>3, <3>1, <3>3
  <2>5. SUFFICES ASSUME NEW q \in DOMAIN log', log'[q].by # Foreign, NEW n, n = log'[q].by,
                        NEW d \in DOMAIN issued[n].reads, NEW p, p = q - 1
                 PROVE  issued[n].reads[d].seen = DocAt(d, p)'
    BY <1>4 DEF SeenIsStored
  <2>6. CASE q \in DOMAIN log
    <3>1. log[q].by # Foreign /\ n = log[q].by
      BY <2>3, <2>5, <2>6
    <3> QED BY <1>1, <1>4, <2>1, <2>5, <2>6, <3>1
  <2>7. CASE q \notin DOMAIN log
    <3>1. q = h + 1 /\ p = h /\ row.by # Foreign /\ n = row.by
      BY <2>3, <2>5, <2>7
    <3> QED BY <1>4, <2>4, <2>5, <3>1
  <2> QED BY <2>6, <2>7
<1> QED BY <1>0, <1>2, <1>3, <1>4, WriteKinds

\* What a stored commit read, through whatever layers and frames, is what the
\* store held just before it, where no commit reads a document the replica shows
\* as the store never held it (#buildReads, #decideTransaction; INV-1).
THEOREM ReadsAreStored ==
  ASSUME ~ ReadUnsettled
  PROVE  Spec => []SeenIsStored
<1> DEFINE SeenInv == DataInv /\ ReadTrue /\ SeenIsStored
<1>1. Init => SeenInv
  <2>1. SUFFICES ASSUME Init PROVE ReadTrue /\ SeenIsStored
    BY InitHolds, InitShaped, InitLine, InitTurn, InitData DEF DataInv
  <2>2. Len(issued) = 0 /\ DOMAIN log = {}
    BY <2>1 DEF Init
  <2> QED BY <2>2 DEF ReadTrue, SeenIsStored
<1>2. SeenInv /\ [Next]_vars => SeenInv'
  <2>1. SUFFICES ASSUME DataInv, ReadTrue, SeenIsStored, [Next]_vars PROVE SeenInv'
    OBVIOUS
  <2>2. DataInv'
    BY <2>1, DataStep
  <2>3. ReadTrue'
    BY <2>1, <2>2, ReadStep
  <2>4. SeenIsStored'
    BY <2>1, <2>2, SeenStep
  <2> QED BY <2>2, <2>3, <2>4
<1>3. SeenInv => SeenIsStored
  OBVIOUS
<1> QED BY <1>1, <1>2, <1>3, PTL DEF Spec

-----------------------------------------------------------------------------
(* Refusals, while no connection is lost                                   *)

\* The replica, the server or a frame knows of a marker that covers commit n.
Noted(n) ==
  \/ n <= replica.caughtUp \/ n <= server.told \/ n <= server.owed
  \/ \E i \in DOMAIN toClient : IsFrame(i) /\ n <= toClient[i].marker

\* No commit is decided a second time.
RequestsNew == \A i \in DOMAIN toServer : IsRequest(i) => ~ Noted(toServer[i].n)

\* Commit n was refused when the store was at s.
Refused(n, s) ==
  \/ \E i \in DOMAIN toClient : Tells(i, n) /\ ~ toClient[i].ok /\ toClient[i].seq = s
  \/ fate[n] = "repairing" /\ retryAfter[n] = s

\* With the marker of a refusal, all that was stored up to it is there.
RefusedTold ==
  \A n \in Commits : \A s : Refused(n, s) =>
    /\ s \in Nat /\ s <= Len(log)
    /\ \A i \in 0..Len(toClient), d \in Docs : ToldBy(i, n) =>
         \A q \in DOMAIN log : log[q].doc = d /\ q <= s => Shown(q, d, i)

Calm == Watches \notin replica.restoring /\ RequestsNew /\ RefusedTold

CalmInv ==
  faults \in 0..MaxFaults /\ DOMAIN retryAfter = Commits /\ (faults = MaxFaults => Calm)

\* Faults are used up one by one.
LEMMA FaultsStep ==
  ASSUME faults \in 0..MaxFaults, [Next]_vars
  PROVE  /\ faults' \in 0..MaxFaults
         /\ faults' = MaxFaults =>
              /\ faults = MaxFaults /\ ~ Resume /\ ~ Replace /\ \A n \in Commits : ~ RepairTimesOut(n)
<1>0. MaxFaults \in Nat
  BY ReplicaAssumption
<1>1. CASE faults' = faults /\ ~ Fault
  <2>1. ~ Resume /\ ~ Replace /\ \A n \in Commits : ~ RepairTimesOut(n)
    BY <1>1 DEF Resume, Replace, RepairTimesOut, Lose
  <2> QED BY <1>1, <2>1
<1>2. CASE Fault
  BY <1>0, <1>2 DEF Fault
<1>3. faults' = faults \/ Fault
  <2>1. CASE Decide \/ Flush \/ SetWatches \/ ReceiveVerdict \/ ReceiveFrame
    BY <2>1 DEF Decide, Flush, SetWatches, ReceiveVerdict, ReceiveFrame
  <2>2. ASSUME NEW n \in Commits, Send(n) \/ SettleAccept(n) \/ Drop(n) PROVE faults' = faults
    BY <2>2 DEF Send, SettleAccept, Drop
  <2>3. ASSUME NEW d \in Docs, NEW op, CommitForeign(d, op) PROVE faults' = faults
    BY <2>3 DEF CommitForeign
  <2>4. ASSUME NEW d \in Docs, NEW op, NEW docs, Issue(d, op, docs) PROVE faults' = faults
    BY <2>4 DEF Issue
  <2>5. CASE Resume \/ Replace \/ \E n \in Commits : RepairTimesOut(n)
    BY <2>5 DEF Resume, Replace, RepairTimesOut, Lose
  <2>6. CASE UNCHANGED vars
    BY <2>6 DEF vars
  <2> QED BY <2>1, <2>2, <2>3, <2>4, <2>5, <2>6 DEF Next, Progress
<1> QED BY <1>1, <1>2, <1>3

\* Refusals are noted for commits.
LEMMA RetriesStep ==
  ASSUME [Next]_vars
  PROVE  DOMAIN retryAfter' = DOMAIN retryAfter
<1>1. CASE Decide \/ Flush \/ SetWatches \/ ReceiveFrame
  BY <1>1 DEF Decide, Flush, SetWatches, ReceiveFrame
<1>2. CASE ReceiveVerdict
  BY <1>2 DEF ReceiveVerdict
<1>3. ASSUME NEW n \in Commits, Send(n) \/ SettleAccept(n) \/ Drop(n) \/ RepairTimesOut(n)
      PROVE  retryAfter' = retryAfter
  BY <1>3 DEF Send, SettleAccept, Drop, RepairTimesOut
<1>4. ASSUME NEW d \in Docs, NEW op, CommitForeign(d, op) PROVE retryAfter' = retryAfter
  BY <1>4 DEF CommitForeign
<1>5. ASSUME NEW d \in Docs, NEW op, NEW docs, Issue(d, op, docs) PROVE retryAfter' = retryAfter
  BY <1>5 DEF Issue
<1>6. CASE Resume \/ Replace
  BY <1>6 DEF Resume, Replace
<1>7. CASE UNCHANGED vars
  BY <1>7 DEF vars
<1> QED BY <1>1, <1>2, <1>3, <1>4, <1>5, <1>6, <1>7 DEF Next, Progress

\* What the line and the markers do in a step without a fault.
CalmKinds ==
  \/ /\ UNCHANGED <<toClient, retryAfter>> /\ replica'.caughtUp = replica.caughtUp
     /\ server'.told = server.told /\ server'.owed = server.owed
     /\ Watches \in replica'.restoring => Watches \in replica.restoring
     /\ \A n \in Commits : fate'[n] = "repairing" => fate[n] = "repairing"
     /\ \/ toServer' = toServer
        \/ \E a : a.type = "commit" /\ a.n \in Commits /\ fate[a.n] = "queued" /\ toServer' = Append(toServer, a)
  \/ Decide \/ Flush \/ ReceiveVerdict \/ ReceiveFrame

LEMMA CalmStepKinds ==
  ASSUME DataInv, Watches \notin replica.restoring, [Next]_vars,
         ~ Resume, ~ Replace, \A n \in Commits : ~ RepairTimesOut(n)
  PROVE  CalmKinds
<1>0. IInv /\ Shaped /\ LineInv
  BY DEF DataInv
<1>1. CASE Decide \/ Flush \/ ReceiveVerdict \/ ReceiveFrame
  BY <1>1 DEF CalmKinds
<1>2. ~ SetWatches
  <2>1. SUFFICES ASSUME SetWatches PROVE FALSE
    OBVIOUS
  <2>2. toServer # <<>> /\ toServer[1].type = "watch"
    BY <1>0, <2>1, SetWatchesEffect
  <2>3. 1 \in DOMAIN toServer
    BY <1>0, <2>2, ShrinksIs DEF IInv, Typed
  <2> QED BY <1>0, <2>2, <2>3 DEF LineInv, WatchOut, Asked
<1>3. ASSUME NEW n \in Commits, Send(n) PROVE CalmKinds
  <2>1. /\ UNCHANGED <<log, server, toClient, issued>> /\ fate[n] = "queued"
        /\ \A m \in Commits : m # n => fate'[m] = fate[m]
        /\ \/ fate'[n] = "waiting" /\ UNCHANGED <<toServer, replica>>
           \/ /\ fate'[n] = "sent"
              /\ \E a : a.type = "commit" /\ a.n = n /\ toServer' = Append(toServer, a)
              /\ replica'.confirmed = replica.confirmed /\ replica'.delivered = replica.delivered
              /\ replica'.caughtUp = replica.caughtUp /\ replica'.restoring = replica.restoring
    BY <1>0, <1>3, SendEffect
  <2>2. retryAfter' = retryAfter
    BY <1>3 DEF Send
  <2>3. \A m \in Commits : fate'[m] = "repairing" => fate[m] = "repairing"
    BY <2>1
  <2> QED BY <2>1, <2>2, <2>3 DEF CalmKinds
<1>4. ASSUME NEW n \in Commits, SettleAccept(n) PROVE CalmKinds
  <2>1. /\ UNCHANGED <<log, server, toServer, toClient, issued>>
        /\ \A m \in Commits : m # n => fate'[m] = fate[m]
        /\ replica'.caughtUp = replica.caughtUp /\ replica'.restoring = replica.restoring
        /\ fate'[n] \in {"applied", "parked"}
    BY <1>0, <1>4, SettleAcceptEffect
  <2>2. retryAfter' = retryAfter
    BY <1>4 DEF SettleAccept
  <2>3. \A m \in Commits : fate'[m] = "repairing" => fate[m] = "repairing"
    BY <2>1
  <2> QED BY <2>1, <2>2, <2>3 DEF CalmKinds
<1>5. ASSUME NEW n \in Commits, Drop(n) PROVE CalmKinds
  <2>1. /\ UNCHANGED <<log, server, toServer, toClient, issued>>
        /\ fate'[n] = "rejected"
        /\ \A m \in Commits : m # n =>
             \/ fate'[m] = fate[m]
             \/ fate[m] \in {"queued", "sent"} /\ fate'[m] = "doomed"
        /\ replica'.caughtUp = replica.caughtUp /\ replica'.restoring = replica.restoring
    BY <1>0, <1>5, DropEffect
  <2>2. retryAfter' = retryAfter
    BY <1>5 DEF Drop
  <2>3. \A m \in Commits : fate'[m] = "repairing" => fate[m] = "repairing"
    BY <2>1
  <2> QED BY <2>1, <2>2, <2>3 DEF CalmKinds
<1>6. ASSUME NEW d \in Docs, NEW op, CommitForeign(d, op) PROVE CalmKinds
  <2>1. /\ UNCHANGED <<toServer, toClient, issued, fate, replica>>
        /\ server'.owed = server.owed /\ server'.told = server.told
    BY <1>0, <1>6, ForeignEffect
  <2>2. retryAfter' = retryAfter
    BY <1>6 DEF CommitForeign
  <2> QED BY <2>1, <2>2 DEF CalmKinds
<1>7. ASSUME NEW d \in Docs, NEW op, NEW docs \in SUBSET Docs, Issue(d, op, docs) PROVE CalmKinds
  <2>1. PICK n : n = Len(issued) + 1
    OBVIOUS
  <2>2. /\ UNCHANGED <<log, server, toServer, toClient>> /\ fate'[n] = "queued"
        /\ \A m \in Commits : m # n => fate'[m] = fate[m]
        /\ replica'.caughtUp = replica.caughtUp /\ replica'.restoring = replica.restoring
    BY <1>0, <1>7, <2>1, IssueEffect
  <2>3. retryAfter' = retryAfter
    BY <1>7 DEF Issue
  <2>4. \A m \in Commits : fate'[m] = "repairing" => fate[m] = "repairing"
    BY <2>2
  <2> QED BY <2>2, <2>3, <2>4 DEF CalmKinds
<1>8. CASE UNCHANGED vars
  BY <1>8 DEF vars, CalmKinds
<1> QED BY <1>1, <1>2, <1>3, <1>4, <1>5, <1>6, <1>7, <1>8 DEF Next, Progress

\* A marker covers a commit that was covered, or the one decided now.
LEMMA NotedStep ==
  ASSUME DataInv, CalmKinds, NEW n \in Commits, Noted(n)'
  PROVE  Noted(n) \/ (Decide /\ n <= toServer[1].n)
<1>0. IInv /\ Shaped /\ IsSeq(toClient) /\ n \in Nat /\ n > 0
  BY CommitNumbers DEF DataInv, IInv, Typed
<1>1. ASSUME UNCHANGED toClient, replica'.caughtUp = replica.caughtUp,
             server'.told = server.told, server'.owed = server.owed
      PROVE  Noted(n)
  BY <1>1 DEF Noted, IsFrame
<1>2. CASE Decide
  <2>1. PICK a : /\ replica' = replica /\ server'.told = server.told
                 /\ server'.owed \in {server.owed, toServer[1].n}
                 /\ a.type = "verdict" /\ toClient' = Append(toClient, a)
    BY <1>0, <1>2, DecideEffect
  <2>2. \A i \in DOMAIN toClient' : (i \in DOMAIN toClient /\ toClient'[i] = toClient[i]) \/ toClient'[i] = a
    BY <1>0, <2>1, GrowsIs
  <2> QED BY <1>2, <2>1, <2>2 DEF Noted, IsFrame
<1>3. CASE Flush
  <2>1. PICK f : /\ replica' = replica /\ server'.told \in {server.told, server.owed} /\ server'.owed = 0
                 /\ f.marker \in {0, server.owed}
                 /\ toClient' = Append(toClient, f) \/ toClient' = toClient
    BY <1>0, <1>3, FlushEffect
  <2>2. \A i \in DOMAIN toClient' : (i \in DOMAIN toClient /\ toClient'[i] = toClient[i]) \/ toClient'[i] = f
    BY <1>0, <2>1, GrowsIs
  <2>3. ~ n <= 0
    BY <1>0
  <2> QED BY <2>1, <2>2, <2>3 DEF Noted, IsFrame
<1>4. ASSUME toClient # <<>>, toClient' = Tail(toClient), server' = server,
             replica'.caughtUp = replica.caughtUp
             \/ (IsFrame(1) /\ replica'.caughtUp \in {replica.caughtUp, toClient[1].marker})
      PROVE  Noted(n)
  <2>1. /\ 1 \in DOMAIN toClient
        /\ \A i \in DOMAIN toClient' : i + 1 \in DOMAIN toClient /\ toClient'[i] = toClient[i + 1]
    BY <1>0, <1>4, TailHolds
  <2>2. CASE \E i \in DOMAIN toClient' : IsFrame(i)' /\ n <= toClient'[i].marker
    <3>1. PICK i \in DOMAIN toClient' : IsFrame(i)' /\ n <= toClient'[i].marker
      BY <2>2
    <3>2. PICK j : j = i + 1
      OBVIOUS
    <3> QED BY <2>1, <3>1, <3>2 DEF Noted, IsFrame
  <2> QED BY <1>4, <2>1, <2>2 DEF Noted
<1>5. CASE ReceiveVerdict
  BY <1>0, <1>4, <1>5, ReceiveVerdictEffect
<1>6. CASE ReceiveFrame
  <2>1. PICK f : f = toClient[1]
    OBVIOUS
  <2>2. /\ server' = server /\ toClient # <<>> /\ toClient' = Tail(toClient) /\ FrameShaped(f)
        /\ ToldWith(f) \in {replica.caughtUp, f.marker} /\ replica'.caughtUp = ToldWith(f)
    BY <1>0, <1>6, <2>1, ReceiveFrameEffect
  <2>3. IsFrame(1)
    BY <2>1, <2>2 DEF IsFrame, FrameShaped
  <2> QED BY <1>4, <2>1, <2>2, <2>3
<1> QED BY <1>1, <1>2, <1>3, <1>5, <1>6 DEF CalmKinds

\* No commit is decided twice, after every step.
LEMMA RequestsStep ==
  ASSUME DataInv, RequestsNew, CalmKinds
  PROVE  RequestsNew'
<1>0. IInv /\ Shaped /\ LineInv /\ TurnInv /\ IsSeq(toServer)
      /\ \A i \in DOMAIN toServer : IsRequest(i) => toServer[i].n \in Commits
  <2>1. IInv /\ Shaped /\ LineInv /\ TurnInv /\ IsSeq(toServer)
    BY DEF DataInv, IInv, Typed
  <2>2. \A i \in DOMAIN toServer : IsRequest(i) => toServer[i].n \in Commits
    BY <2>1 DEF IInv, OneCopy, Carries, IsRequest, Typed
  <2> QED BY <2>1, <2>2
<1>1. SUFFICES ASSUME NEW i \in DOMAIN toServer', IsRequest(i)', NEW n, n = toServer'[i].n, Noted(n)' PROVE FALSE
  BY DEF RequestsNew
<1>2. CASE Decide
  <2>1. /\ toServer # <<>> /\ toServer[1].type = "commit" /\ toServer' = Tail(toServer)
    BY <1>0, <1>2, DecideEffect
  <2>2. PICK j : j = i + 1
    OBVIOUS
  <2>3. j \in DOMAIN toServer /\ toServer'[i] = toServer[j] /\ 1 \in DOMAIN toServer /\ i \in DOMAIN Tail(toServer)
    BY <1>0, <1>1, <2>1, <2>2, TailHolds
  <2>4. 1 < j
    BY <1>0, <2>2, <2>3, ShrinksIs, <2>1
  <2>5. IsRequest(j) /\ IsRequest(1)
    BY <1>1, <2>1, <2>3 DEF IsRequest
  <2>6. toServer[1].n < n /\ n \in Commits /\ toServer[1].n \in Commits
    BY <1>0, <1>1, <2>3, <2>4, <2>5 DEF LineInv, LineOrder
  <2>7. ~ n <= toServer[1].n
    BY <2>6, CommitNumbers
  <2>8. Noted(n)
    BY <1>1, <2>6, <2>7, NotedStep
  <2> QED BY <1>1, <2>3, <2>5, <2>8 DEF RequestsNew
<1>3. CASE ~ Decide
  <2>1. \/ toServer' = toServer
        \/ \E a : a.type = "commit" /\ a.n \in Commits /\ fate[a.n] = "queued" /\ toServer' = Append(toServer, a)
    BY <1>0, <1>3, FlushEffect, ReceiveVerdictEffect, ReceiveFrameEffect DEF CalmKinds
  <2>2. CASE i \in DOMAIN toServer /\ toServer'[i] = toServer[i]
    <3>1. IsRequest(i) /\ n \in Commits
      BY <1>0, <1>1, <2>2 DEF IsRequest
    <3>2. Noted(n)
      BY <1>1, <1>3, <3>1, NotedStep
    <3> QED BY <1>1, <2>2, <3>1, <3>2 DEF RequestsNew
  <2>3. CASE ~ (i \in DOMAIN toServer /\ toServer'[i] = toServer[i])
    <3>1. PICK a : a.type = "commit" /\ a.n \in Commits /\ fate[a.n] = "queued" /\ toServer' = Append(toServer, a)
      BY <1>1, <2>1, <2>3
    <3>2. toServer'[i] = a
      BY <1>0, <1>1, <2>3, <3>1, GrowsIs
    <3>3. n \in Commits /\ fate[n] = "queued" /\ n \in Nat
      BY <1>1, <3>1, <3>2, CommitNumbers
    <3>4. Noted(n)
      BY <1>1, <1>3, <3>3, NotedStep
    <3>5. Passed(n)
      BY <3>4 DEF Noted, Passed
    <3>6. Decided(n)
      BY <1>0, <3>3, <3>5 DEF TurnInv, InTurn
    <3> QED BY <3>3, <3>6 DEF Decided
  <2> QED BY <2>2, <2>3
<1> QED BY <1>2, <1>3

\* A refusal is an old one, or the one decided now.
LEMMA RefusedStep ==
  ASSUME DataInv, DOMAIN retryAfter = Commits, CalmKinds, NEW n \in Commits, NEW s, Refused(n, s)'
  PROVE  Refused(n, s) \/ (Decide /\ n = toServer[1].n /\ s = Len(log))
<1>0. IInv /\ Shaped /\ IsSeq(toClient)
  BY DEF DataInv, IInv, Typed
<1>1. ASSUME UNCHANGED <<toClient, retryAfter>>, \A m \in Commits : fate'[m] = "repairing" => fate[m] = "repairing"
      PROVE  Refused(n, s)
  BY <1>1 DEF Refused, Tells
<1>2. CASE Decide
  <2>1. PICK a : /\ fate' = fate /\ retryAfter' = retryAfter /\ toClient' = Append(toClient, a)
                 /\ (a.type = "verdict" /\ a.n = n /\ ~ a.ok /\ a.seq = s) => n = toServer[1].n /\ s = Len(log)
    <3>1. retryAfter' = retryAfter /\ fate' = fate
      BY <1>2 DEF Decide
    <3>2. toServer # <<>> /\ Head(toServer) = toServer[1]
      BY <1>0, <1>2, ShrinksIs DEF Decide, IInv, Typed
    <3>3. \/ \E q : toClient' = Append(toClient, Verdict(toServer[1].n, TRUE, q))
          \/ toClient' = Append(toClient, Verdict(toServer[1].n, FALSE, Len(log)))
      BY <1>2, <3>2 DEF Decide
    <3>4. \A q : Verdict(toServer[1].n, TRUE, q).ok = TRUE
      BY DEF Verdict
    <3>5. /\ Verdict(toServer[1].n, FALSE, Len(log)).n = toServer[1].n
          /\ Verdict(toServer[1].n, FALSE, Len(log)).seq = Len(log)
      BY DEF Verdict
    <3>6. CASE \E q : toClient' = Append(toClient, Verdict(toServer[1].n, TRUE, q))
      <4>1. PICK q : toClient' = Append(toClient, Verdict(toServer[1].n, TRUE, q))
        BY <3>6
      <4> QED BY <3>1, <3>4, <4>1
    <3>7. CASE toClient' = Append(toClient, Verdict(toServer[1].n, FALSE, Len(log)))
      BY <3>1, <3>5, <3>7
    <3> QED BY <3>3, <3>6, <3>7
  <2>2. \A i \in DOMAIN toClient' : (i \in DOMAIN toClient /\ toClient'[i] = toClient[i]) \/ toClient'[i] = a
    BY <1>0, <2>1, GrowsIs
  <2>3. CASE fate'[n] = "repairing" /\ retryAfter'[n] = s
    BY <2>1, <2>3 DEF Refused
  <2>4. CASE \E i \in DOMAIN toClient' : Tells(i, n)' /\ ~ toClient'[i].ok /\ toClient'[i].seq = s
    <3>1. PICK i \in DOMAIN toClient' : Tells(i, n)' /\ ~ toClient'[i].ok /\ toClient'[i].seq = s
      BY <2>4
    <3>2. CASE i \in DOMAIN toClient /\ toClient'[i] = toClient[i]
      BY <3>1, <3>2 DEF Refused, Tells
    <3>3. CASE toClient'[i] = a
      BY <1>2, <2>1, <3>1, <3>3 DEF Tells
    <3> QED BY <2>2, <3>2, <3>3
  <2> QED BY <2>3, <2>4 DEF Refused
<1>3. CASE Flush
  <2>1. PICK f : /\ fate' = fate /\ FrameShaped(f)
                 /\ toClient' = Append(toClient, f) \/ toClient' = toClient
    BY <1>0, <1>3, FlushEffect
  <2>2. retryAfter' = retryAfter
    BY <1>3 DEF Flush
  <2>3. \A i \in DOMAIN toClient' : (i \in DOMAIN toClient /\ toClient'[i] = toClient[i]) \/ toClient'[i] = f
    BY <1>0, <2>1, GrowsIs
  <2>4. \A i \in DOMAIN toClient' : Tells(i, n)' => i \in DOMAIN toClient /\ toClient'[i] = toClient[i]
    BY <2>1, <2>3 DEF Tells, FrameShaped
  <2> QED BY <2>1, <2>2, <2>4 DEF Refused, Tells
<1>4. ASSUME toClient # <<>>, toClient' = Tail(toClient),
             fate'[n] = "repairing" /\ retryAfter'[n] = s =>
               \/ fate[n] = "repairing" /\ retryAfter[n] = s
               \/ Tells(1, n) /\ ~ toClient[1].ok /\ toClient[1].seq = s
      PROVE  Refused(n, s)
  <2>1. /\ 1 \in DOMAIN toClient
        /\ \A i \in DOMAIN toClient' : i + 1 \in DOMAIN toClient /\ toClient'[i] = toClient[i + 1]
    BY <1>0, <1>4, TailHolds
  <2>2. CASE \E i \in DOMAIN toClient' : Tells(i, n)' /\ ~ toClient'[i].ok /\ toClient'[i].seq = s
    <3>1. PICK i \in DOMAIN toClient' : Tells(i, n)' /\ ~ toClient'[i].ok /\ toClient'[i].seq = s
      BY <2>2
    <3>2. PICK j : j = i + 1
      OBVIOUS
    <3> QED BY <2>1, <3>1, <3>2 DEF Refused, Tells
  <2> QED BY <1>4, <2>1, <2>2 DEF Refused
<1>5. CASE ReceiveVerdict
  <2>1. /\ toClient # <<>> /\ toClient' = Tail(toClient) /\ Head(toClient) = toClient[1]
        /\ toClient[1].type = "verdict" /\ toClient[1].n \in Commits
        /\ \A m \in Commits : m # toClient[1].n => fate'[m] = fate[m]
    BY <1>0, <1>5, ReceiveVerdictEffect, ShrinksIs
  <2>2. PICK v : v = toClient[1]
    OBVIOUS
  <2>3. \/ UNCHANGED <<fate, retryAfter>>
        \/ /\ fate' = [fate EXCEPT ![v.n] = IF v.ok THEN "accepted" ELSE "repairing"]
           /\ retryAfter' = IF v.ok THEN retryAfter ELSE [retryAfter EXCEPT ![v.n] = v.seq]
    BY <1>5, <2>1, <2>2 DEF ReceiveVerdict
  <2>4. DOMAIN fate = Commits
    BY <1>0 DEF IInv, Typed
  <2>5. CASE n # v.n
    <3>1. fate'[n] = fate[n] /\ retryAfter'[n] = retryAfter[n]
      BY <2>1, <2>2, <2>3, <2>4, <2>5
    <3> QED BY <1>4, <2>1, <3>1
  <2>6. CASE n = v.n /\ UNCHANGED <<fate, retryAfter>>
    BY <1>4, <2>1, <2>6
  <2>7. CASE /\ n = v.n /\ fate' = [fate EXCEPT ![v.n] = IF v.ok THEN "accepted" ELSE "repairing"]
             /\ retryAfter' = IF v.ok THEN retryAfter ELSE [retryAfter EXCEPT ![v.n] = v.seq]
    <3>1. fate'[n] = "repairing" => ~ v.ok
      BY <2>4, <2>7
    <3>2. ASSUME fate'[n] = "repairing", retryAfter'[n] = s PROVE v.seq = s \/ n \notin DOMAIN retryAfter
      BY <2>7, <3>1, <3>2
    <3>3. n \in DOMAIN retryAfter
      OBVIOUS
    <3> QED BY <1>4, <2>1, <2>2, <2>7, <3>1, <3>2, <3>3 DEF Tells
  <2> QED BY <2>3, <2>5, <2>6, <2>7
<1>6. CASE ReceiveFrame
  <2>1. PICK f : f = toClient[1]
    OBVIOUS
  <2>2. /\ toClient # <<>> /\ toClient' = Tail(toClient)
        /\ \A m \in Commits : fate'[m] = IF m \in DueWith(f) THEN "applied" ELSE fate[m]
    BY <1>0, <1>6, <2>1, ReceiveFrameEffect
  <2>3. retryAfter' = retryAfter
    BY <1>6 DEF ReceiveFrame
  <2> QED BY <1>4, <2>2, <2>3
<1> QED BY <1>1, <1>2, <1>3, <1>5, <1>6 DEF CalmKinds

\* What was shown with a marker stays shown with it.
LEMMA ToldKept ==
  ASSUME DataInv, DataInv', Calm, CalmKinds, [Next]_vars,
         NEW n \in Commits, NEW s \in Nat, s <= Len(log), Refused(n, s), NEW d \in Docs,
         NEW q \in DOMAIN log, log[q].doc = d, q <= s,
         NEW i \in 0..Len(toClient'), ToldBy(i, n)'
  PROVE  Shown(q, d, i)'
<1>0. /\ IInv /\ Shaped /\ LineInv /\ TurnInv /\ KnownInv /\ Shaped' /\ SentCovered' /\ DirtyTrue'
      /\ IsSeq(toClient) /\ IsSeq(log) /\ IsSeq(log') /\ Rises
  <2>1. /\ IInv /\ Shaped /\ LineInv /\ TurnInv /\ KnownInv /\ Shaped' /\ SentCovered' /\ DirtyTrue' /\ IInv'
    BY DEF DataInv
  <2> QED BY <2>1, RisesStep DEF IInv, Typed
<1>1. PICK m : m = Len(toClient) /\ m \in Nat
  BY <1>0 DEF IsSeq
<1>2. ASSUME NEW k \in 0..m, ToldBy(k, n) PROVE Shown(q, d, k)
  BY <1>1, <1>2 DEF Calm, RefusedTold
<1>3. ASSUME NEW x, toClient' = toClient \/ toClient' = Append(toClient, x), i \in 0..m,
             replica'.caughtUp = replica.caughtUp
      PROVE  Shown(q, d, i)'
  <2>1. i # 0 => toClient'[i] = toClient[i]
    BY <1>0, <1>1, <1>3, LineLengths
  <2>2. ToldBy(i, n)
    BY <1>3, <2>1 DEF ToldBy, IsFrame
  <2>3. Shown(q, d, i)
    BY <1>2, <1>3, <2>2
  <2> QED BY <1>0, <1>1, <1>3, <2>3, ShownStays
<1>4. CASE toClient' = toClient /\ replica'.caughtUp = replica.caughtUp
  BY <1>1, <1>3, <1>4
<1>5. CASE Decide
  <2>1. PICK a : /\ replica' = replica /\ a.type = "verdict" /\ toClient' = Append(toClient, a)
    BY <1>0, <1>5, DecideEffect
  <2>2. Len(toClient') = m + 1 /\ toClient'[m + 1] = a
    BY <1>0, <1>1, <2>1, LineLengths
  <2>3. i # m + 1
    <3>1. m + 1 # 0
      BY <1>1
    <3> QED BY <2>1, <2>2, <3>1 DEF ToldBy, IsFrame
  <2>4. i \in 0..m
    BY <1>1, <2>2, <2>3
  <2> QED BY <1>3, <2>1, <2>4
<1>6. CASE Flush
  <2>1. PICK f : /\ replica' = replica /\ log' = log /\ server'.watching = server.watching /\ server'.dirty = {}
                 /\ toClient' = Append(toClient, f) \/ toClient' = toClient
    BY <1>0, <1>6, FlushEffect
  <2>2. CASE i \in 0..m
    BY <1>3, <2>1, <2>2
  <2>3. CASE i \notin 0..m
    <3>1. toClient' = Append(toClient, f)
      BY <1>1, <2>1, <2>3
    <3>2. Len(toClient') = m + 1
      BY <1>0, <1>1, <3>1, LineLengths
    <3>3. i = Len(toClient') /\ i \in Nat
      BY <1>1, <2>3, <3>2
    <3>4. ~ Early(i)'
      BY <2>1 DEF Calm, Early
    <3>5. server'.watching = TRUE
      BY <1>0, <2>1, NotAsking DEF Calm
    <3>6. server'.sent[d] \in Nat /\ d \notin server'.dirty
      BY <1>0, <2>1 DEF Shaped, ServerShaped
    <3>7. MarkedAt(i, d, s)'
      BY <1>0, <3>3, <3>4, <3>5, <3>6, MarkedLast
    <3> QED BY <2>1, <3>4, <3>7 DEF MarkedAt
  <2> QED BY <2>2, <2>3
<1>7. ASSUME log' = log, toClient # <<>>, toClient' = Tail(toClient), Brings(1, d, q) => q <= Base(d)',
             n <= replica'.caughtUp => n <= replica.caughtUp \/ ToldBy(1, n)
      PROVE  Shown(q, d, i)'
  <2>1. /\ Len(toClient') = m - 1 /\ m >= 1
        /\ \A j \in 1..(m - 1) : toClient'[j] = toClient[j + 1]
    BY <1>0, <1>1, <1>7, LineLengths
  <2>2. PICK k \in 0..m : (k = i + 1 \/ (k = 0 /\ i = 0)) /\ ToldBy(k, n)
    <3>1. CASE i = 0 /\ n <= replica.caughtUp
      <4>1. 0 \in 0..m /\ ToldBy(0, n)
        BY <1>1, <3>1 DEF ToldBy
      <4> QED BY <3>1, <4>1
    <3>2. CASE i = 0 /\ ToldBy(1, n)
      <4>1. 1 \in 0..m /\ 1 = i + 1
        BY <1>1, <2>1, <3>2
      <4> QED BY <3>2, <4>1
    <3>3. CASE i # 0
      <4>1. PICK k : k = i + 1
        OBVIOUS
      <4>2. k \in 0..m /\ i \in 1..(m - 1) /\ k # 0
        BY <1>1, <2>1, <3>3, <4>1
      <4>3. toClient'[i] = toClient[k]
        BY <2>1, <4>1, <4>2
      <4>4. ToldBy(k, n)
        BY <3>3, <4>2, <4>3 DEF ToldBy, IsFrame
      <4> QED BY <4>1, <4>2, <4>4
    <3>4. i = 0 => n <= replica'.caughtUp
      BY DEF ToldBy
    <3> QED BY <1>7, <3>1, <3>2, <3>3, <3>4
  <2>3. Shown(q, d, k)
    BY <1>2, <2>2
  <2>4. i \in Nat /\ k \in Nat /\ k <= Len(toClient)
    BY <1>1, <2>1, <2>2
  <2> QED BY <1>0, <1>7, <2>2, <2>3, <2>4, ShownShifts
<1>8. CASE ReceiveVerdict
  <2>1. /\ log' = log /\ toClient # <<>> /\ toClient' = Tail(toClient) /\ toClient[1].type = "verdict"
        /\ replica'.caughtUp = replica.caughtUp
    BY <1>0, <1>8, ReceiveVerdictEffect
  <2>2. ~ Brings(1, d, q)
    BY <2>1 DEF Brings, IsFrame
  <2> QED BY <1>7, <2>1, <2>2
<1>9. CASE ReceiveFrame
  <2>1. PICK f : f = toClient[1]
    OBVIOUS
  <2>2. /\ log' = log /\ toClient # <<>> /\ toClient' = Tail(toClient) /\ FrameShaped(f)
        /\ ToldWith(f) \in {replica.caughtUp, f.marker} /\ replica'.caughtUp = ToldWith(f)
    BY <1>0, <1>9, <2>1, ReceiveFrameEffect
  <2>3. Brings(1, d, q) => q <= Base(d)'
    BY <1>0, <1>9, BroughtIn
  <2>4. n <= replica'.caughtUp => n <= replica.caughtUp \/ ToldBy(1, n)
    BY <2>1, <2>2 DEF ToldBy, IsFrame, FrameShaped
  <2> QED BY <1>7, <2>2, <2>3, <2>4
<1> QED BY <1>4, <1>5, <1>6, <1>8, <1>9 DEF CalmKinds

\* Refusals are told of after every step without a fault.
LEMMA RefusedToldStep ==
  ASSUME DataInv, DataInv', Calm, DOMAIN retryAfter = Commits, CalmKinds, [Next]_vars
  PROVE  RefusedTold'
<1>0. IInv /\ Shaped /\ LineInv /\ TurnInv /\ KnownInv /\ Shaped' /\ IsSeq(log) /\ IsSeq(toClient)
      /\ IsSeq(log') /\ IsSeq(toServer)
  <2>1. IInv /\ IInv' /\ Shaped /\ LineInv /\ TurnInv /\ KnownInv /\ Shaped'
    BY DEF DataInv
  <2> QED BY <2>1 DEF IInv, Typed
<1>1. StoreGrows
  BY <1>0, RisesStep DEF Rises
<1>2. /\ Len(log) \in Nat /\ Len(log') \in Nat /\ Len(log) <= Len(log') /\ DOMAIN log = 1..Len(log)
      /\ \A q \in DOMAIN log : log'[q] = log[q]
  BY <1>0, <1>1, StorePast
<1>3. SUFFICES ASSUME NEW n \in Commits, NEW s, Refused(n, s)'
               PROVE  /\ s \in Nat /\ s <= Len(log')
                      /\ \A i \in 0..Len(toClient'), d \in Docs : ToldBy(i, n)' =>
                           \A q \in DOMAIN log' : log'[q].doc = d /\ q <= s => Shown(q, d, i)'
  BY DEF RefusedTold
<1>4. CASE Refused(n, s)
  <2>1. s \in Nat /\ s <= Len(log)
    BY <1>4 DEF Calm, RefusedTold
  <2>2. ASSUME NEW i \in 0..Len(toClient'), NEW d \in Docs, ToldBy(i, n)',
               NEW q \in DOMAIN log', log'[q].doc = d, q <= s
        PROVE  Shown(q, d, i)'
    <3>1. q \in Nat /\ q >= 1
      BY <1>0 DEF IsSeq
    <3>2. q \in DOMAIN log
      BY <1>2, <2>1, <2>2, <3>1
    <3> QED BY <1>2, <1>4, <2>1, <2>2, <3>2, ToldKept
  <2> QED BY <1>2, <2>1, <2>2
<1>5. CASE Decide /\ n = toServer[1].n /\ s = Len(log)
  <2>1. PICK a : /\ replica' = replica /\ toServer # <<>> /\ toServer[1].type = "commit"
                 /\ a.type = "verdict" /\ toClient' = Append(toClient, a)
    BY <1>0, <1>5, DecideEffect
  <2>2. 1 \in DOMAIN toServer
    BY <1>0, <2>1, ShrinksIs
  <2>3. ~ Noted(n)
    BY <1>5, <2>1, <2>2 DEF Calm, RequestsNew, IsRequest
  <2>4. PICK m : m = Len(toClient) /\ m \in Nat /\ DOMAIN toClient = 1..m
    BY <1>0 DEF IsSeq
  <2>5. /\ Len(toClient') = m + 1 /\ toClient'[m + 1] = a
        /\ \A j \in 1..m : toClient'[j] = toClient[j]
    BY <1>0, <2>1, <2>4, LineLengths
  <2>6. ASSUME NEW i \in 0..Len(toClient'), ToldBy(i, n)' PROVE FALSE
    <3>1. i # m + 1
      <4>1. m + 1 # 0
        BY <2>4
      <4> QED BY <2>1, <2>5, <2>6, <4>1 DEF ToldBy, IsFrame
    <3>2. i # 0 => i \in DOMAIN toClient /\ toClient'[i] = toClient[i]
      BY <2>4, <2>5, <2>6, <3>1
    <3> QED BY <2>1, <2>3, <2>6, <3>2 DEF ToldBy, Noted, IsFrame
  <2> QED BY <1>2, <1>5, <2>6
<1> QED BY <1>3, <1>4, <1>5, RefusedStep

\* While no connection is lost, refusals are told of.
LEMMA CalmStep ==
  ASSUME DataInv, DataInv', CalmInv, [Next]_vars
  PROVE  CalmInv'
<1>1. /\ faults' \in 0..MaxFaults /\ DOMAIN retryAfter' = Commits
      /\ faults' = MaxFaults =>
           /\ faults = MaxFaults /\ ~ Resume /\ ~ Replace /\ \A n \in Commits : ~ RepairTimesOut(n)
  BY FaultsStep, RetriesStep DEF CalmInv
<1>2. ASSUME faults' = MaxFaults PROVE Calm'
  <2>1. Calm /\ DOMAIN retryAfter = Commits
    BY <1>1, <1>2 DEF CalmInv
  <2>2. CalmKinds
    BY <1>1, <1>2, <2>1, CalmStepKinds DEF Calm
  <2>3. Watches \notin replica'.restoring
    <3>1. IInv /\ Shaped
      BY DEF DataInv
    <3>2. CASE Decide \/ Flush
      BY <2>1, <3>1, <3>2, DecideEffect, FlushEffect DEF Calm
    <3>3. CASE ReceiveVerdict
      BY <2>1, <3>1, <3>3, ReceiveVerdictEffect DEF Calm
    <3>4. CASE ReceiveFrame
      BY <2>1, <3>1, <3>4, ReceiveFrameEffect DEF Calm
    <3> QED BY <2>1, <2>2, <3>2, <3>3, <3>4 DEF CalmKinds, Calm
  <2>4. RequestsNew'
    BY <2>1, <2>2, RequestsStep DEF Calm
  <2>5. RefusedTold'
    BY <2>1, <2>2, RefusedToldStep
  <2> QED BY <2>3, <2>4, <2>5 DEF Calm
<1> QED BY <1>1, <1>2 DEF CalmInv

\* A layer that is taken back is dropped.
LEMMA OnlyDrops ==
  ASSUME IInv, Shaped, Next, NEW n \in Commits, fate[n] = "repairing", fate'[n] = "rejected"
  PROVE  Drop(n)
<1>1. CASE Decide \/ Flush \/ SetWatches \/ Resume
  BY <1>1 DEF Decide, Flush, SetWatches, Resume
<1>2. CASE ReceiveVerdict
  <2>1. /\ \A m \in Commits : m # toClient[1].n => fate'[m] = fate[m]
        /\ \/ fate' = fate
           \/ fate[toClient[1].n] = "sent"
    BY <1>2, ReceiveVerdictEffect
  <2> QED BY <2>1
<1>3. CASE ReceiveFrame
  <2>1. fate'[n] \in {"applied", fate[n]}
    BY <1>3, ReceiveFrameEffect
  <2> QED BY <2>1
<1>4. ASSUME NEW m \in Commits, Send(m) PROVE FALSE
  <2>1. fate[m] = "queued" /\ \A k \in Commits : k # m => fate'[k] = fate[k]
    BY <1>4, SendEffect
  <2> QED BY <2>1
<1>5. ASSUME NEW m \in Commits, SettleAccept(m) PROVE FALSE
  <2>1. fate[m] = "accepted" /\ \A k \in Commits : k # m => fate'[k] = fate[k]
    BY <1>5, SettleAcceptEffect
  <2> QED BY <2>1
<1>6. ASSUME NEW m \in Commits, Drop(m) PROVE Drop(n)
  <2>1. m # n => fate'[n] = fate[n] \/ fate'[n] = "doomed"
    BY <1>6, DropEffect
  <2> QED BY <1>6, <2>1
<1>7. ASSUME NEW d \in Docs, NEW op, CommitForeign(d, op) PROVE FALSE
  BY <1>7 DEF CommitForeign
<1>8. ASSUME NEW d \in Docs, NEW op, NEW docs \in SUBSET Docs, Issue(d, op, docs) PROVE FALSE
  <2>1. PICK k : k = Len(issued) + 1
    OBVIOUS
  <2>2. fate[k] = "unissued" /\ \A m \in Commits : m # k => fate'[m] = fate[m]
    BY <1>8, <2>1, IssueEffect
  <2> QED BY <2>2
<1>9. ASSUME NEW m \in Commits, RepairTimesOut(m) PROVE FALSE
  <2>1. fate' = [fate EXCEPT ![m] = "doomed"] /\ fate \in [Commits -> Fates]
    BY <1>9 DEF RepairTimesOut, IInv, Typed
  <2>2. fate'[n] = IF n = m THEN "doomed" ELSE fate[n]
    BY <2>1
  <2> QED BY <2>2
<1>10. CASE Replace
  BY <1>10 DEF Replace
<1> QED BY <1>1, <1>2, <1>3, <1>4, <1>5, <1>6, <1>7, <1>8, <1>9, <1>10 DEF Next, Progress

\* While no connection is lost, a refused commit is dropped when the replica
\* shows what it was refused for: the write it conflicts with is confirmed, or a
\* layer of its own (#waitForConflictReadRepair, #noteCaughtUpLocalSeq).
THEOREM RefusalsRepaired == Spec => RepairedBase
<1>1. Init => DataInv /\ CalmInv
  <2>1. SUFFICES ASSUME Init PROVE CalmInv
    BY InitHolds, InitShaped, InitLine, InitTurn, InitData DEF DataInv
  <2>2. /\ faults = MaxFaults /\ DOMAIN retryAfter = Commits /\ toServer = <<>> /\ toClient = <<>>
        /\ replica.restoring = {} /\ \A n \in Commits : fate[n] = "unissued"
    BY <2>1 DEF Init
  <2>3. DOMAIN toServer = {} /\ DOMAIN toClient = {} /\ MaxFaults \in 0..MaxFaults
    BY <2>2, ReplicaAssumption
  <2>4. RequestsNew
    BY <2>3 DEF RequestsNew
  <2>5. \A n \in Commits : \A s : ~ Refused(n, s)
    BY <2>2, <2>3 DEF Refused
  <2> QED BY <2>2, <2>3, <2>4, <2>5 DEF CalmInv, Calm, RefusedTold
<1>2. DataInv /\ CalmInv /\ [Next]_vars => (DataInv /\ CalmInv)'
  BY DataStep, CalmStep
<1>3. DataInv /\ CalmInv /\ [Next]_vars =>
        [\A n \in Commits :
           faults = MaxFaults /\ fate[n] = "repairing" /\ fate'[n] = "rejected" =>
             \A d \in {issued[n].doc} \cup DOMAIN issued[n].reads :
               LET h == HeadAt(d, retryAfter[n])
               IN  \/ replica.confirmed[d].seq >= h
                   \/ log[h].by \in replica.pending[d]]_vars
  <2>1. SUFFICES ASSUME DataInv, CalmInv, Next, NEW n \in Commits,
                        faults = MaxFaults, fate[n] = "repairing", fate'[n] = "rejected",
                        NEW d \in {issued[n].doc} \cup DOMAIN issued[n].reads,
                        NEW h, h = HeadAt(d, retryAfter[n])
                 PROVE  replica.confirmed[d].seq >= h \/ log[h].by \in replica.pending[d]
    OBVIOUS
  <2>2. IInv /\ Shaped /\ Calm
    BY <2>1 DEF DataInv, CalmInv
  <2>3. Ready(n) /\ Drop(n)
    BY <2>1, <2>2, OnlyDrops DEF Drop
  <2>4. 0 \in 0..Len(toClient) /\ ToldBy(0, n)
    <3>1. Len(toClient) \in Nat /\ n <= replica.caughtUp
      BY <2>1, <2>2, <2>3, CommitNumbers DEF Ready, IInv, Typed, IsSeq, Shaped, ReplicaShaped
    <3> QED BY <3>1 DEF ToldBy
  <2>5. PICK s : s = retryAfter[n] /\ s \in Nat /\ s <= Len(log)
    BY <2>1, <2>2 DEF Calm, RefusedTold, Refused
  <2>6. d \in Docs
    <3>1. n \in 1..Len(issued)
      BY <2>1, <2>2, IssuedAre DEF IInv
    <3> QED BY <2>1, <2>2, <3>1 DEF Shaped, CommitShaped
  <2>7. h \in 0..s /\ (h # 0 => h \in DOMAIN log /\ log[h].doc = d)
    BY <2>1, <2>2, <2>5, HeadIs DEF IInv, Typed
  <2>8. Base(d) \in Nat
    BY <2>2, <2>6 DEF Shaped, ReplicaShaped, Base
  <2>9. CASE h = 0
    BY <2>8, <2>9 DEF Base
  <2>10. CASE h # 0
    <3>1. h \in DOMAIN log /\ log[h].doc = d /\ h <= s
      BY <2>5, <2>7, <2>10
    <3>2. Refused(n, s)
      BY <2>1, <2>5 DEF Refused
    <3>3. Shown(h, d, 0)
      BY <2>2, <2>4, <2>6, <3>1, <3>2 DEF Calm, RefusedTold
    <3>4. CASE h <= Base(d)
      BY <2>5, <2>7, <2>8, <3>4 DEF Base
    <3>5. CASE Open(h)
      <4>1. PICK m \in Commits : log[h].by = m /\ fate[m] # "applied"
        BY <3>5 DEF Open
      <4>2. Resolved(m)
        BY <3>1, <4>1 DEF Resolved
      <4>3. fate[m] # "rejected"
        BY <2>2, <4>2 DEF IInv, Over
      <4>4. m <= Len(issued) /\ issued[m].doc = d
        BY <2>2, <2>6, <3>1, <4>1 DEF Shaped, RowsTrue
      <4>5. m \in 1..Len(issued)
        BY <2>2, <4>4, CommitNumbers, IssuedAre DEF IInv
      <4> QED BY <2>2, <2>6, <4>1, <4>3, <4>4, <4>5 DEF Shaped, LayersStand
    <3> QED BY <3>3, <3>4, <3>5 DEF Shown
  <2> QED BY <2>9, <2>10
<1> QED BY <1>1, <1>2, <1>3, PTL DEF Spec, RepairedBase

\* Types hold, and a layer stands exactly as long as its commit is neither
\* applied nor rejected (`pending` of the replica's records).
THEOREM TypesHold == Spec => []TypeOK
<1>1. Init => DataInv /\ faults \in 0..MaxFaults
  <2>1. Init => faults \in 0..MaxFaults
    BY ReplicaAssumption DEF Init
  <2> QED BY <2>1, InitHolds, InitShaped, InitLine, InitTurn, InitData DEF DataInv
<1>2. DataInv /\ faults \in 0..MaxFaults /\ [Next]_vars => (DataInv /\ faults \in 0..MaxFaults)'
  <2>1. ASSUME faults \in 0..MaxFaults, [Next]_vars PROVE (faults \in 0..MaxFaults)'
    BY <2>1, FaultsStep
  <2> QED BY <2>1, DataStep
<1>3. DataInv /\ faults \in 0..MaxFaults => TypeOK
  <2>1. SUFFICES ASSUME DataInv, faults \in 0..MaxFaults PROVE TypeOK
    OBVIOUS
  <2>2. IInv /\ Shaped
    BY <2>1 DEF DataInv
  <2>3. fate \in [Commits -> Fates]
    BY <2>2 DEF IInv, Typed
  <2>4. LayersStand /\ server.dirty \subseteq Docs
    BY <2>2 DEF Shaped, ServerShaped
  <2> QED BY <2>1, <2>3, <2>4 DEF TypeOK, Fates, LayersStand
<1> QED BY <1>1, <1>2, <1>3, PTL DEF Spec

=============================================================================
