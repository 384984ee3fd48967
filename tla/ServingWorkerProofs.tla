------------------------- MODULE ServingWorkerProofs -------------------------
(***************************************************************************)
(* Theorems about the serving loop in a worker thread, for every number of *)
(* workers, tenures, waves and failures.                                   *)
(*                                                                         *)
(* The two threads agree on nothing but what the port carries, so the      *)
(* argument is about the port: what each end may find in it, given where   *)
(* the other end stands.  `Port' says so for one generation, as a          *)
(* predicate on that generation's own state; a step of one generation      *)
(* leaves the others' alone.                                               *)
(***************************************************************************)
EXTENDS ServingWorker, TLAPS

-----------------------------------------------------------------------------
(* The inductive invariant                                                 *)

Requests == {"ready", "acquire", "release"}
Replies  == {"init", "acquired", "released"}
Granted  == [kind |-> "acquired", granted |-> TRUE]

\* Phases in which a worker has no part of the lease.
Idle == {"loading", "loaded", "parked", "refused", "closed"}

\* What a message on its way up says of its sender w, of generation g, while l
\* holds the lease.
Said(m, g, w, l) ==
  /\ m.kind \in {"ready", "initOk", "acquire", "release", "wave", "hostClosed"}
  /\ m.kind = "ready" => w.at = "loaded"
  /\ m.kind = "acquire" => w.at = "acquiring" /\ l # g
  /\ m.kind = "release" => w.at = "releasing" /\ l = g
  /\ m.kind = "wave" =>
       w.at \in {"serving", "parking", "releasing"} /\ m.tenure = w.cycle /\ l = g
  /\ m.kind = "hostClosed" => w.at = "closed" /\ w.closing

\* What a message on its way down says of its addressee and the lease; open is
\* whether the bridge still listens, c the generation the supervisor closes.
Heard(m, g, w, open, l, c) ==
  /\ m.kind = "init" => w.at = "loaded"
  /\ m.kind = "acquired" =>
       /\ w.at = "acquiring"
       /\ m.granted /\ open => l = g
       /\ ~ m.granted => l # g
  /\ m.kind = "released" => w.at = "releasing" /\ l # g
  /\ m.kind = "close" => c = g

\* Where worker w stands with the lease.
Standing(g, w, open, l, c) ==
  /\ open /\ w.thread \in {"stalled", "crashed", "gone"} => g < MaxGens
  /\ w.at \in Idle => l # g
  /\ open /\ w.at \in {"serving", "parking"} => l = g
  /\ w.at = "acquiring" => w.cycle < MaxTenures
  /\ w.at \in {"serving", "parking", "releasing"} => w.cycle > 0
  /\ w.held => w.at \in {"serving", "parking"}
  /\ w.closing => c = g

\* What the server's thread finds on its way up: at most one request, and no
\* wave behind a release.
UpOK(g, w, U, l) ==
  /\ \A i \in DOMAIN U : Said(U[i], g, w, l)
  /\ \A i, j \in DOMAIN U : U[i].kind \in Requests /\ U[j].kind \in Requests => i = j
  /\ \A i, j \in DOMAIN U : U[i].kind = "wave" /\ U[j].kind = "release" => i < j

\* What the worker finds on its way down: at most one reply.
DownOK(g, w, D, open, l, c) ==
  /\ \A i \in DOMAIN D : Heard(D[i], g, w, open, l, c)
  /\ \A i, j \in DOMAIN D : D[i].kind \in Replies /\ D[j].kind \in Replies => i = j

NoRequest(U) == \A i \in DOMAIN U : U[i].kind \notin Requests
NoReply(D)   == \A i \in DOMAIN D : D[i].kind \notin Replies

\* The server, which counts n grants, is one ahead of the worker exactly while
\* a grant is on its way.
Counted(w, D, n) ==
  /\ \A i \in DOMAIN D : D[i] = Granted => n = w.cycle + 1
  /\ (\A i \in DOMAIN D : D[i] # Granted) => n = w.cycle

\* A worker not started has no state.
Fresh(w, U, D, open) ==
  w.thread = "none" => w = Unborn /\ U = <<>> /\ D = <<>> /\ ~ open

Typed(w, U, D, open, n) ==
  /\ w \in WorkerStates /\ w.deciding \cup w.sent \subseteq 1..w.cycle
  /\ U \in Seq(Messages) /\ D \in Seq(Messages)
  /\ open \in BOOLEAN /\ n \in Nat

\* One generation's end of the port and the other agree; a request that waits
\* has no reply yet.
Port(g, w, U, D, open, l, n, c) ==
  /\ Typed(w, U, D, open, n)
  /\ Standing(g, w, open, l, c)
  /\ open => UpOK(g, w, U, l)
  /\ DownOK(g, w, D, open, l, c)
  /\ open => NoRequest(U) \/ NoReply(D)
  /\ Counted(w, D, n)
  /\ Fresh(w, U, D, open)

PortOf(g) ==
  Port(g, worker[g], up[g], down[g], bridge[g].open, lease, history.grants[g], sup.closing)

\* What the supervisor knows: at most one worker is its own, and only that one,
\* or the one it closes, is listened to.
SupOK ==
  /\ sup.closed = "open" => sup.closing = None
  /\ sup.gen # None => sup.terminating = None /\ sup.respawn = "none" /\ sup.closed = "open"
  /\ sup.closing # None => sup.terminating = None
  /\ sup.closed \in {"closingHost", "hostClosed", "failed"} => sup.closing # None
  /\ sup.closed = "hostClosed" => worker[sup.closing].at = "closed"
  /\ \A g \in Gens : bridge[g].open =>
       sup.gen = g \/ (sup.closing = g /\ sup.closed \in {"waiting", "closingHost"})

\* Workers start in order, and a respawn is due only while one is left to start.
StartsOK ==
  /\ \E n \in Gens : \A h \in Gens : worker[h].thread # "none" <=> h <= n
  /\ sup.gen # None => \A h \in Gens : worker[h].thread # "none" <=> h <= sup.gen
  /\ sup.respawn # "none" => worker[MaxGens].thread = "none"

\* A tenure that ended was granted.
EndedOK == \A t \in history.ended : t[2] <= history.grants[t[1]]

IInv ==
  /\ TypeOK /\ SupOK /\ StartsOK /\ EndedOK /\ NoOrphanLease
  /\ \A g \in Gens : PortOf(g)
-----------------------------------------------------------------------------
(* Sequences                                                               *)

\* What a sequence holds once a message is appended.
LEMMA AppendSeq ==
  ASSUME NEW S, NEW s \in Seq(S), NEW m \in S
  PROVE  /\ Append(s, m) \in Seq(S)
         /\ Len(s) \in Nat
         /\ DOMAIN s = 1..Len(s)
         /\ DOMAIN Append(s, m) = 1..(Len(s) + 1)
         /\ \A i \in DOMAIN s : Append(s, m)[i] = s[i]
         /\ Append(s, m)[Len(s) + 1] = m
OBVIOUS

\* What a sequence holds once its head is taken.
LEMMA TailSeq ==
  ASSUME NEW S, NEW s \in Seq(S), s # <<>>
  PROVE  /\ Tail(s) \in Seq(S)
         /\ Head(s) = s[1]
         /\ Head(s) \in S
         /\ Len(s) \in Nat
         /\ 1 \in DOMAIN s
         /\ DOMAIN s = 1..Len(s)
         /\ DOMAIN Tail(s) = 1..(Len(s) - 1)
         /\ \A i \in DOMAIN Tail(s) : i + 1 \in DOMAIN s /\ Tail(s)[i] = s[i + 1]
OBVIOUS

-----------------------------------------------------------------------------
(* What one change does to a port                                          *)

\* A worker that asked nothing has no request waiting and no reply coming.
LEMMA Unasked ==
  ASSUME NEW g \in Gens, NEW w, NEW U, NEW D, NEW open, NEW l, NEW n, NEW c,
         Port(g, w, U, D, open, l, n, c),
         w.at \notin {"loaded", "acquiring", "releasing"}
  PROVE  (open => NoRequest(U)) /\ NoReply(D)
BY DEF Port, UpOK, Said, DownOK, Heard, NoRequest, NoReply, Requests, Replies

\* The worker takes its next message.
LEMMA TakenDown ==
  ASSUME NEW g \in Gens, NEW w, NEW U, NEW D, NEW open, NEW l, NEW n, NEW c,
         Port(g, w, U, D, open, l, n, c), D # <<>>
  PROVE  /\ Head(D) \in Messages
         /\ Heard(Head(D), g, w, open, l, c)
         /\ Head(D) # Granted => Port(g, w, U, Tail(D), open, l, n, c)
         /\ Head(D).kind \in Replies => (open => NoRequest(U)) /\ NoReply(Tail(D))
<1>1. D \in Seq(Messages)
  BY DEF Port, Typed
<1>2. Head(D) \in Messages /\ Heard(Head(D), g, w, open, l, c)
  BY <1>1, TailSeq DEF Port, DownOK
<1>3. Typed(w, U, Tail(D), open, n)
  BY <1>1, TailSeq DEF Port, Typed
<1>4. DownOK(g, w, Tail(D), open, l, c)
  BY <1>1, TailSeq DEF Port, DownOK
<1>5. NoReply(D) => NoReply(Tail(D))
  BY <1>1, TailSeq DEF NoReply
<1>6. Head(D) # Granted => Counted(w, Tail(D), n)
  <2>1. SUFFICES ASSUME Head(D) # Granted, NEW i \in DOMAIN D, D[i] = Granted
                 PROVE  \E j \in DOMAIN Tail(D) : Tail(D)[j] = Granted
    BY <1>1, TailSeq DEF Port, Counted
  <2>2. i # 1 /\ i - 1 \in DOMAIN Tail(D) /\ Tail(D)[i - 1] = Granted
    BY <1>1, <2>1, TailSeq
  <2> QED
    BY <2>2
<1>7. Fresh(w, U, Tail(D), open)
  BY DEF Port, Fresh
<1>8. Head(D).kind \in Replies => (open => NoRequest(U)) /\ NoReply(Tail(D))
  BY <1>1, TailSeq DEF Port, DownOK, NoReply
<1> QED
  BY <1>2, <1>3, <1>4, <1>5, <1>6, <1>7, <1>8 DEF Port

\* The server's thread takes the next message.
LEMMA TakenUp ==
  ASSUME NEW g \in Gens, NEW w, NEW U, NEW D, NEW l, NEW n, NEW c,
         Port(g, w, U, D, TRUE, l, n, c), U # <<>>
  PROVE  /\ Head(U) \in Messages
         /\ Said(Head(U), g, w, l)
         /\ Port(g, w, Tail(U), D, TRUE, l, n, c)
         /\ Head(U).kind \in Requests => NoRequest(Tail(U)) /\ NoReply(D)
         /\ Head(U).kind = "release" =>
              \A i \in DOMAIN Tail(U) : Tail(U)[i].kind # "wave"
<1>1. U \in Seq(Messages)
  BY DEF Port, Typed
<1>2. Head(U) \in Messages /\ Said(Head(U), g, w, l)
  BY <1>1, TailSeq DEF Port, UpOK
<1>3. Typed(w, Tail(U), D, TRUE, n)
  BY <1>1, TailSeq DEF Port, Typed
<1>4. UpOK(g, w, Tail(U), l)
  BY <1>1, TailSeq DEF Port, UpOK
<1>5. NoRequest(U) => NoRequest(Tail(U))
  BY <1>1, TailSeq DEF NoRequest
<1>6. Fresh(w, Tail(U), D, TRUE)
  BY DEF Port, Fresh
<1>7. Head(U).kind \in Requests => NoRequest(Tail(U)) /\ NoReply(D)
  BY <1>1, TailSeq DEF Port, UpOK, NoRequest
<1>8. ASSUME Head(U).kind = "release", NEW i \in DOMAIN Tail(U)
      PROVE  Tail(U)[i].kind # "wave"
  BY <1>1, <1>8, TailSeq DEF Port, UpOK
<1> QED
  BY <1>2, <1>3, <1>4, <1>5, <1>6, <1>7, <1>8 DEF Port

\* The worker posts a message; a closed bridge does not listen.
LEMMA Posted ==
  ASSUME NEW g \in Gens, NEW w, NEW U, NEW D, NEW open, NEW l, NEW n, NEW c,
         Port(g, w, U, D, open, l, n, c), w.thread # "none",
         NEW m \in Messages,
         open => Said(m, g, w, l),
         m.kind \in Requests => (open => NoRequest(U)) /\ NoReply(D),
         m.kind = "wave" => w.at # "releasing"
  PROVE  Port(g, w, IF open THEN Append(U, m) ELSE U, D, open, l, n, c)
<1>1. CASE ~ open
  BY <1>1
<1>2. CASE open
  <2> DEFINE V == Append(U, m)
  <2>1. U \in Seq(Messages)
    BY DEF Port, Typed
  <2>2. Typed(w, V, D, open, n)
    BY <2>1, AppendSeq DEF Port, Typed
  <2>3. \A i \in DOMAIN V : Said(V[i], g, w, l)
    BY <1>2, <2>1, AppendSeq DEF Port, UpOK
  <2>4. \A i, j \in DOMAIN V : V[i].kind \in Requests /\ V[j].kind \in Requests => i = j
    BY <1>2, <2>1, AppendSeq DEF Port, UpOK, NoRequest
  <2>5. \A i, j \in DOMAIN V : V[i].kind = "wave" /\ V[j].kind = "release" => i < j
    BY <1>2, <2>1, AppendSeq DEF Port, UpOK, Said
  <2>6. NoRequest(V) \/ NoReply(D)
    BY <1>2, <2>1, AppendSeq DEF Port, NoRequest
  <2>7. Fresh(w, V, D, open)
    BY DEF Port, Fresh
  <2> QED
    BY <1>2, <2>2, <2>3, <2>4, <2>5, <2>6, <2>7 DEF Port, UpOK
<1> QED
  BY <1>1, <1>2 DEF Port, Typed

\* The server's thread posts a message that is no grant.
LEMMA PostedDown ==
  ASSUME NEW g \in Gens, NEW w, NEW U, NEW D, NEW open, NEW l, NEW n, NEW c,
         Port(g, w, U, D, open, l, n, c), w.thread # "none",
         NEW m \in Messages, m # Granted,
         Heard(m, g, w, open, l, c),
         m.kind \in Replies => (open => NoRequest(U)) /\ NoReply(D)
  PROVE  Port(g, w, U, Append(D, m), open, l, n, c)
<1> DEFINE E == Append(D, m)
<1>1. D \in Seq(Messages)
  BY DEF Port, Typed
<1>2. Typed(w, U, E, open, n)
  BY <1>1, AppendSeq DEF Port, Typed
<1>3. DownOK(g, w, E, open, l, c)
  BY <1>1, AppendSeq DEF Port, DownOK, NoReply
<1>4. open => NoRequest(U) \/ NoReply(E)
  BY <1>1, AppendSeq DEF Port, NoReply
<1>5. Counted(w, E, n)
  BY <1>1, AppendSeq DEF Port, Counted
<1>6. Fresh(w, U, E, open)
  BY DEF Port, Fresh
<1> QED
  BY <1>2, <1>3, <1>4, <1>5, <1>6 DEF Port

\* The worker goes on as v, in the same phase or from one that owes no answer.
Moves(g, w, v, U, D, open, l, c) ==
  /\ w.thread # "none" /\ v.thread # "none"
  /\ v \in WorkerStates /\ v.deciding \cup v.sent \subseteq 1..v.cycle
  /\ v.cycle = w.cycle /\ (w.closing => v.closing)
  /\ Standing(g, v, open, l, c)
  /\ \/ v.at = w.at
     \/ /\ (open => NoRequest(U)) /\ NoReply(D)
        /\ w.at # "closed"
        /\ w.at \in {"serving", "parking", "releasing"} /\ l = g =>
             v.at \in {"serving", "parking", "releasing"}

\* Such a move breaks no agreement.
LEMMA Moved ==
  ASSUME NEW g \in Gens, NEW w, NEW U, NEW D, NEW open, NEW l, NEW n, NEW c, NEW v,
         Port(g, w, U, D, open, l, n, c),
         Moves(g, w, v, U, D, open, l, c)
  PROVE  Port(g, v, U, D, open, l, n, c)
<1>1. Typed(v, U, D, open, n)
  BY DEF Moves, Port, Typed
<1>2. open => UpOK(g, v, U, l)
  BY DEF Moves, Port, UpOK, Said, NoRequest, Requests
<1>3. DownOK(g, v, D, open, l, c)
  BY DEF Moves, Port, DownOK, Heard, NoReply, Replies
<1>4. Counted(v, D, n)
  BY DEF Moves, Port, Counted
<1>5. Fresh(v, U, D, open)
  BY DEF Moves, Fresh
<1> QED
  BY <1>1, <1>2, <1>3, <1>4, <1>5 DEF Moves, Port

\* The lease passes between others, or is taken from a worker cut off.
LEMMA LeaseElsewhere ==
  ASSUME NEW g \in Gens, NEW w, NEW U, NEW D, NEW open, NEW l, NEW n, NEW c,
         Port(g, w, U, D, open, l, n, c), l # g \/ ~ open,
         NEW k, k # g
  PROVE  Port(g, w, U, D, open, k, n, c)
<1>1. Standing(g, w, open, k, c)
  BY DEF Port, Standing
<1>2. open => UpOK(g, w, U, k)
  BY DEF Port, UpOK, Said
<1>3. DownOK(g, w, D, open, k, c)
  BY DEF Port, DownOK, Heard
<1> QED
  BY <1>1, <1>2, <1>3 DEF Port

\* The worker's own release is answered.
LEMMA LeaseReleased ==
  ASSUME NEW g \in Gens, NEW w, NEW U, NEW D, NEW l, NEW n, NEW c,
         Port(g, w, U, D, TRUE, l, n, c), w.thread # "none", w.at = "releasing",
         NoRequest(U), NoReply(D), \A i \in DOMAIN U : U[i].kind # "wave",
         NEW k, k # g
  PROVE  Port(g, w, U, Append(D, Msg("released")), TRUE, k, n, c)
<1>1. Standing(g, w, TRUE, k, c)
  BY DEF Port, Standing, Idle
<1>2. UpOK(g, w, U, k)
  BY DEF Port, UpOK, Said, NoRequest, Requests
<1>3. DownOK(g, w, D, TRUE, k, c)
  BY DEF Port, DownOK, Heard, NoReply, Replies
<1>4. Port(g, w, U, D, TRUE, k, n, c)
  BY <1>1, <1>2, <1>3 DEF Port
<1>5. /\ Msg("released") \in Messages
      /\ Msg("released").kind = "released"
  BY DEF Msg, Messages
<1>6. Msg("released") # Granted
  BY <1>5 DEF Granted
<1>7. Heard(Msg("released"), g, w, TRUE, k, c)
  BY <1>5 DEF Heard
<1> QED
  BY <1>4, <1>5, <1>6, <1>7, PostedDown

\* The lease is granted: the server counts the tenure before the worker hears.
LEMMA LeaseGranted ==
  ASSUME NEW g \in Gens, NEW w, NEW U, NEW D, NEW l, NEW n, NEW c,
         Port(g, w, U, D, TRUE, l, n, c), w.thread # "none", w.at = "acquiring",
         NoRequest(U), NoReply(D)
  PROVE  /\ n = w.cycle
         /\ Port(g, w, U, Append(D, Granted), TRUE, g, n + 1, c)
<1> DEFINE E == Append(D, Granted)
<1>1. D \in Seq(Messages) /\ Granted \in Messages /\ n \in Nat /\ w.cycle \in Nat
  BY DEF Port, Typed, Granted, Messages, WorkerStates
<1>2. Granted.kind = "acquired" /\ Granted.granted
  BY DEF Granted
<1>3. n = w.cycle
  BY <1>2 DEF Port, Counted, NoReply, Replies
<1>4. Typed(w, U, E, TRUE, n + 1)
  BY <1>1, AppendSeq DEF Port, Typed
<1>5. Standing(g, w, TRUE, g, c)
  BY DEF Port, Standing, Idle
<1>6. UpOK(g, w, U, g)
  BY DEF Port, UpOK, Said, NoRequest, Requests
<1>7. \A i \in DOMAIN E : Heard(E[i], g, w, TRUE, g, c)
  BY <1>1, <1>2, AppendSeq DEF Port, DownOK, Heard, NoReply, Replies
<1>8. \A i, j \in DOMAIN E : E[i].kind \in Replies /\ E[j].kind \in Replies => i = j
  BY <1>1, AppendSeq DEF NoReply
<1>9. Counted(w, E, n + 1)
  BY <1>1, <1>3, AppendSeq DEF Counted
<1>10. Fresh(w, U, E, TRUE)
  BY DEF Fresh
<1> QED
  BY <1>3, <1>4, <1>5, <1>6, <1>7, <1>8, <1>9, <1>10 DEF Port, DownOK

\* The worker hears of the grant, and its own count catches up.
LEMMA GrantHeard ==
  ASSUME NEW g \in Gens, NEW w, NEW U, NEW D, NEW open, NEW l, NEW n, NEW c,
         Port(g, w, U, D, open, l, n, c), w.thread # "none",
         D # <<>>, Head(D) = Granted
  PROVE  Port(g, [w EXCEPT !.at = "serving", !.held = TRUE, !.cycle = @ + 1],
              U, Tail(D), open, l, n, c)
<1> DEFINE v == [w EXCEPT !.at = "serving", !.held = TRUE, !.cycle = @ + 1]
<1>1. /\ D \in Seq(Messages) /\ w \in WorkerStates
      /\ Granted.kind = "acquired" /\ Granted.granted /\ Granted.kind \in Replies
  BY DEF Port, Typed, Granted, Replies
<1>2. /\ Heard(Head(D), g, w, open, l, c)
      /\ (open => NoRequest(U)) /\ NoReply(Tail(D))
  BY <1>1, TakenDown
<1>3. w.at = "acquiring" /\ (open => l = g)
  BY <1>1, <1>2 DEF Heard
<1>4. w.cycle \in 0..MaxTenures /\ w.cycle < MaxTenures
  BY <1>1, <1>3 DEF Port, Standing, WorkerStates
<1>5. /\ v \in WorkerStates
      /\ v.at = "serving" /\ v.held /\ v.cycle = w.cycle + 1 /\ v.closing = w.closing
      /\ v.thread = w.thread /\ v.deciding = w.deciding /\ v.sent = w.sent
  <2>1. MaxTenures \in Nat
    BY WorkerAssumption
  <2>2. w.cycle + 1 \in 0..MaxTenures
    BY <1>4, <2>1
  <2> QED
    BY <1>1, <2>2 DEF WorkerStates, Phases
<1> HIDE DEF v
<1>6. Typed(v, U, Tail(D), open, n)
  BY <1>1, <1>4, <1>5, TailSeq DEF Port, Typed
<1>7. Standing(g, v, open, l, c)
  BY <1>3, <1>4, <1>5 DEF Port, Standing, Idle
<1>8. open => UpOK(g, v, U, l)
  BY <1>2, <1>3, <1>5 DEF Port, UpOK, Said, NoRequest, Requests
<1>9. DownOK(g, v, Tail(D), open, l, c)
  BY <1>1, <1>2, TailSeq DEF Port, DownOK, Heard, NoReply, Replies
<1>10. Counted(v, Tail(D), n)
  <2>1. n = w.cycle + 1
    BY <1>1, TailSeq DEF Port, Counted
  <2>2. \A i \in DOMAIN Tail(D) : Tail(D)[i] # Granted
    BY <1>1, <1>2 DEF NoReply
  <2> QED
    BY <1>5, <2>1, <2>2 DEF Counted
<1>11. Fresh(v, U, Tail(D), open)
  BY <1>5 DEF Fresh
<1> QED
  BY <1>2, <1>6, <1>7, <1>8, <1>9, <1>10, <1>11 DEF Port, v

\* The bridge stops listening.
LEMMA Silenced ==
  ASSUME NEW g \in Gens, NEW w, NEW U, NEW D, NEW open, NEW l, NEW n, NEW c,
         Port(g, w, U, D, open, l, n, c), NEW V \in Seq(Messages),
         w.thread = "none" => V = <<>>, NEW shut \in BOOLEAN, ~ shut
  PROVE  Port(g, w, V, D, shut, l, n, c)
<1>1. Typed(w, V, D, shut, n)
  BY DEF Port, Typed
<1>2. Standing(g, w, shut, l, c)
  BY DEF Port, Standing
<1>3. DownOK(g, w, D, shut, l, c)
  BY DEF Port, DownOK, Heard
<1>4. Fresh(w, V, D, shut)
  BY DEF Port, Fresh
<1> QED
  BY <1>1, <1>2, <1>3, <1>4 DEF Port

\* The supervisor picks the worker it closes; it had picked none before.
LEMMA ClosingChosen ==
  ASSUME NEW g \in Gens, NEW w, NEW U, NEW D, NEW open, NEW l, NEW n, NEW c,
         Port(g, w, U, D, open, l, n, c), c # g, NEW k
  PROVE  Port(g, w, U, D, open, l, n, k)
<1>1. Standing(g, w, open, l, k)
  BY DEF Port, Standing
<1>2. DownOK(g, w, D, open, l, k)
  BY DEF Port, DownOK, Heard
<1> QED
  BY <1>1, <1>2 DEF Port

\* A worker starts.
LEMMA Started ==
  ASSUME NEW g \in Gens, NEW U, NEW D, NEW open, NEW l, NEW n, NEW c,
         NEW w, w.thread = "none", Port(g, w, U, D, open, l, n, c)
  PROVE  Port(g, [w EXCEPT !.thread = "running"], U, D, TRUE, l, n, c)
<1> DEFINE v == [w EXCEPT !.thread = "running"]
<1>1. w = Unborn /\ U = <<>> /\ D = <<>>
  BY DEF Port, Fresh
<1>2. w \in WorkerStates
  BY DEF Port, Typed
<1>3. /\ v \in WorkerStates /\ v.thread = "running" /\ v.at = w.at /\ v.held = w.held
      /\ v.cycle = w.cycle /\ v.closing = w.closing
      /\ v.deciding = w.deciding /\ v.sent = w.sent
  BY <1>2 DEF WorkerStates
<1>4. w.at = "loading" /\ ~ w.held /\ ~ w.closing
  BY <1>1 DEF Unborn
<1> HIDE DEF v
<1>5. Typed(v, U, D, TRUE, n)
  BY <1>3 DEF Port, Typed
<1>6. Standing(g, v, TRUE, l, c)
  BY <1>3, <1>4 DEF Port, Standing, Idle
<1>7. UpOK(g, v, U, l) /\ NoRequest(U)
  BY <1>1 DEF UpOK, NoRequest
<1>8. DownOK(g, v, D, TRUE, l, c) /\ Counted(v, D, n)
  BY <1>1, <1>3 DEF Port, DownOK, Counted
<1>9. Fresh(v, U, D, TRUE)
  BY <1>3 DEF Fresh
<1> QED
  BY <1>5, <1>6, <1>7, <1>8, <1>9 DEF Port, v

-----------------------------------------------------------------------------
(* The steps of a worker                                                   *)

Budgets == [waves : Nat, conflicts : Nat, troubles : Nat, sessions : Nat]

\* A step of generation g's worker: its own state and its ends of the port
\* change, in agreement, and nothing else does.
Local(g) ==
  /\ worker' = [worker EXCEPT ![g] = worker'[g]]
  /\ up' = [up EXCEPT ![g] = up'[g]]
  /\ down' = [down EXCEPT ![g] = down'[g]]
  /\ UNCHANGED <<sup, bridge, lease, session, history>>
  /\ budget' \in Budgets
  /\ worker[g].thread # "none" /\ worker'[g].thread # "none"
  /\ worker[g].at = "closed" => worker'[g].at = "closed"
  /\ Port(g, worker'[g], up'[g], down'[g], bridge[g].open, lease, history.grants[g],
          sup.closing)

\* A worker's step, spelled out by what it leaves in the worker and the port.
LEMMA LocalFrom ==
  ASSUME TypeOK, NEW g \in Gens, NEW v, NEW U, NEW D,
         worker' = [worker EXCEPT ![g] = v],
         up' = [up EXCEPT ![g] = U],
         down' = [down EXCEPT ![g] = D],
         UNCHANGED <<sup, bridge, lease, session, history>>,
         budget' \in Budgets,
         worker[g].thread # "none", v.thread # "none",
         worker[g].at = "closed" => v.at = "closed",
         Port(g, v, U, D, bridge[g].open, lease, history.grants[g], sup.closing)
  PROVE  Local(g)
<1>1. worker'[g] = v /\ up'[g] = U /\ down'[g] = D
  BY DEF TypeOK
<1> QED
  BY <1>1 DEF Local

\* What is spent is counted.
LEMMA Spent ==
  ASSUME TypeOK, NEW what \in {"waves", "conflicts", "troubles", "sessions"}, Spend(what)
  PROVE  budget' \in Budgets
<1>1. budget \in Budgets
  BY DEF TypeOK, Budgets
<1>2. CASE what = "waves"
  BY <1>1, <1>2 DEF Spend, Budgets
<1>3. CASE what = "conflicts"
  BY <1>1, <1>3 DEF Spend, Budgets
<1>4. CASE what = "troubles"
  BY <1>1, <1>4 DEF Spend, Budgets
<1>5. CASE what = "sessions"
  BY <1>1, <1>5 DEF Spend, Budgets
<1> QED
  BY <1>2, <1>3, <1>4, <1>5

\* The shape of the state, where a generation's part of it is used.
LEMMA Shape ==
  ASSUME TypeOK, NEW g \in Gens
  PROVE  /\ worker[g] \in WorkerStates
         /\ worker[g].deciding \cup worker[g].sent \subseteq 1..worker[g].cycle
         /\ up[g] \in Seq(Messages) /\ down[g] \in Seq(Messages)
         /\ bridge[g].open \in BOOLEAN
         /\ up = [up EXCEPT ![g] = up[g]] /\ down = [down EXCEPT ![g] = down[g]]
         /\ budget \in Budgets
BY DEF TypeOK, Budgets

\* A message without fields is one of the protocol's.
LEMMA PlainMessage ==
  ASSUME NEW k \in {"ready", "init", "initOk", "acquire", "release", "released", "opened",
                    "closed", "close", "hostClosed"}
  PROVE  Msg(k) \in Messages /\ Msg(k).kind = k
BY DEF Msg, Messages

\* Posting to the server's thread touches one port.
LEMMA PostUp ==
  ASSUME TypeOK, NEW g \in Gens, NEW m, Post(g, m)
  PROVE  up' = [up EXCEPT ![g] = IF bridge[g].open THEN Append(up[g], m) ELSE up[g]]
BY DEF Post, TypeOK


\* Generation g's port, once the worker has taken what D no longer holds.
PortWith(g, D) ==
  Port(g, worker[g], up[g], D, bridge[g].open, lease, history.grants[g], sup.closing)

MovesTo(g, v, D) == Moves(g, worker[g], v, up[g], D, bridge[g].open, lease, sup.closing)

\* A worker that moves on and posts nothing.
LEMMA MovesQuietly ==
  ASSUME TypeOK, NEW g \in Gens, NEW D, NEW v,
         PortWith(g, D), MovesTo(g, v, D),
         worker' = [worker EXCEPT ![g] = v],
         down' = [down EXCEPT ![g] = D],
         UNCHANGED <<up, sup, bridge, lease, session, history>>,
         budget' \in Budgets
  PROVE  Local(g)
<1>1. Port(g, v, up[g], D, bridge[g].open, lease, history.grants[g], sup.closing)
  BY Moved DEF PortWith, MovesTo
<1>2. up' = [up EXCEPT ![g] = up[g]]
  BY Shape
<1>3. /\ worker[g].thread # "none" /\ v.thread # "none"
      /\ worker[g].at = "closed" => v.at = "closed"
  BY DEF MovesTo, Moves
<1> QED
  BY <1>1, <1>2, <1>3, LocalFrom

\* A worker that moves on and posts m.
LEMMA MovesPosting ==
  ASSUME TypeOK, NEW g \in Gens, NEW D, NEW v,
         PortWith(g, D), MovesTo(g, v, D),
         NEW m \in Messages, Post(g, m),
         bridge[g].open => Said(m, g, v, lease),
         m.kind \in Requests => (bridge[g].open => NoRequest(up[g])) /\ NoReply(D),
         m.kind = "wave" => v.at # "releasing",
         worker' = [worker EXCEPT ![g] = v],
         down' = [down EXCEPT ![g] = D],
         UNCHANGED <<sup, bridge, lease, session, history>>,
         budget' \in Budgets
  PROVE  Local(g)
<1>1. Port(g, v, up[g], D, bridge[g].open, lease, history.grants[g], sup.closing)
  BY Moved DEF PortWith, MovesTo
<1>2. /\ worker[g].thread # "none" /\ v.thread # "none"
      /\ worker[g].at = "closed" => v.at = "closed"
  BY DEF MovesTo, Moves
<1> DEFINE V == IF bridge[g].open THEN Append(up[g], m) ELSE up[g]
<1>3. Port(g, v, V, D, bridge[g].open, lease, history.grants[g], sup.closing)
  BY <1>1, <1>2, Posted
<1>4. up' = [up EXCEPT ![g] = V]
  BY PostUp
<1> QED
  BY <1>2, <1>3, <1>4, LocalFrom

\* Loading, activating, releasing and closing: the worker moves on and says so.
LEMMA AskingLocal ==
  ASSUME TypeOK, NEW g \in Gens, PortOf(g),
         Load(g) \/ Activate(g) \/ ReleaseTenure(g) \/ AnswerClose(g)
  PROVE  Local(g)
<1> DEFINE w == worker[g]
           l == lease
           c == sup.closing
           open == bridge[g].open
<1>1. /\ w \in WorkerStates /\ w.deciding \cup w.sent \subseteq 1..w.cycle
      /\ w.thread = "running" /\ w.thread # "none"
      /\ w.at \in {"loading", "parked", "parking", "refused"}
  BY Shape DEF Load, Activate, ReleaseTenure, AnswerClose, Running
<1>2. PortWith(g, down[g]) /\ Standing(g, w, open, l, c)
  BY DEF PortOf, PortWith, Port
<1>3. (open => NoRequest(up[g])) /\ NoReply(down[g])
  BY <1>1, Unasked DEF PortOf
<1>4. /\ down' = [down EXCEPT ![g] = down[g]] /\ budget' \in Budgets
      /\ UNCHANGED <<sup, bridge, lease, session, history>>
  BY Shape DEF Load, Activate, ReleaseTenure, AnswerClose
<1>5. CASE Load(g)
  <2> DEFINE v == [w EXCEPT !.at = "loaded"]
  <2>1. /\ v \in WorkerStates /\ v.thread = w.thread /\ v.at = "loaded"
        /\ v.cycle = w.cycle /\ v.closing = w.closing /\ v.held = w.held
        /\ v.deciding = w.deciding /\ v.sent = w.sent
    BY <1>1 DEF WorkerStates, Phases
  <2>2. w.at = "loading" /\ worker' = [worker EXCEPT ![g] = v] /\ Post(g, Msg("ready"))
    BY <1>5 DEF Load
  <2> HIDE DEF w, v
  <2>3. Standing(g, v, open, l, c)
    BY <1>1, <1>2, <2>1, <2>2 DEF Standing, Idle
  <2>4. MovesTo(g, v, down[g])
    BY <1>1, <1>3, <2>1, <2>2, <2>3 DEF MovesTo, Moves, w
  <2>5. Msg("ready") \in Messages /\ Msg("ready").kind = "ready" /\ Said(Msg("ready"), g, v, l)
    BY <2>1, PlainMessage DEF Said
  <2> QED
    BY <1>2, <1>3, <1>4, <2>2, <2>4, <2>5, MovesPosting
<1>6. CASE Activate(g)
  <2> DEFINE v == [w EXCEPT !.at = "acquiring"]
  <2>1. /\ v \in WorkerStates /\ v.thread = w.thread /\ v.at = "acquiring"
        /\ v.cycle = w.cycle /\ v.closing = w.closing /\ v.held = w.held
        /\ v.deciding = w.deciding /\ v.sent = w.sent
    BY <1>1 DEF WorkerStates, Phases
  <2>2. /\ w.at = "parked" /\ w.cycle < MaxTenures
        /\ worker' = [worker EXCEPT ![g] = v] /\ Post(g, Msg("acquire"))
    BY <1>6 DEF Activate
  <2> HIDE DEF w, v
  <2>3. Standing(g, v, open, l, c) /\ l # g
    BY <1>1, <1>2, <2>1, <2>2 DEF Standing, Idle
  <2>4. MovesTo(g, v, down[g])
    BY <1>1, <1>3, <2>1, <2>2, <2>3 DEF MovesTo, Moves, w
  <2>5. /\ Msg("acquire") \in Messages /\ Msg("acquire").kind = "acquire"
        /\ Said(Msg("acquire"), g, v, l)
    BY <2>1, <2>3, PlainMessage DEF Said
  <2> QED
    BY <1>2, <1>3, <1>4, <2>2, <2>4, <2>5, MovesPosting
<1>7. CASE ReleaseTenure(g)
  <2> DEFINE v == [w EXCEPT !.at = "releasing", !.held = FALSE]
  <2>1. /\ v \in WorkerStates /\ v.thread = w.thread /\ v.at = "releasing"
        /\ v.cycle = w.cycle /\ v.closing = w.closing /\ ~ v.held
        /\ v.deciding = w.deciding /\ v.sent = w.sent
    BY <1>1 DEF WorkerStates, Phases
  <2>2. /\ w.at = "parking"
        /\ worker' = [worker EXCEPT ![g] = v] /\ Post(g, Msg("release"))
    BY <1>7 DEF ReleaseTenure
  <2> HIDE DEF w, v
  <2>3. Standing(g, v, open, l, c) /\ (open => l = g)
    BY <1>1, <1>2, <2>1, <2>2 DEF Standing, Idle
  <2>4. MovesTo(g, v, down[g])
    BY <1>1, <1>3, <2>1, <2>2, <2>3 DEF MovesTo, Moves, w
  <2>5. /\ Msg("release") \in Messages /\ Msg("release").kind = "release"
        /\ open => Said(Msg("release"), g, v, l)
    BY <2>1, <2>3, PlainMessage DEF Said
  <2> QED
    BY <1>2, <1>3, <1>4, <2>2, <2>4, <2>5, MovesPosting
<1>8. CASE AnswerClose(g)
  <2> DEFINE v == [w EXCEPT !.at = "closed"]
  <2>1. /\ v \in WorkerStates /\ v.thread = w.thread /\ v.at = "closed"
        /\ v.cycle = w.cycle /\ v.closing = w.closing /\ v.held = w.held
        /\ v.deciding = w.deciding /\ v.sent = w.sent
    BY <1>1 DEF WorkerStates, Phases
  <2>2. /\ w.at \in {"parked", "refused"} /\ w.closing
        /\ worker' = [worker EXCEPT ![g] = v] /\ Post(g, Msg("hostClosed"))
    BY <1>8 DEF AnswerClose
  <2> HIDE DEF w, v
  <2>3. Standing(g, v, open, l, c)
    BY <1>1, <1>2, <2>1, <2>2 DEF Standing, Idle
  <2>4. MovesTo(g, v, down[g])
    BY <1>1, <1>3, <2>1, <2>2, <2>3 DEF MovesTo, Moves, w
  <2>5. /\ Msg("hostClosed") \in Messages /\ Msg("hostClosed").kind = "hostClosed"
        /\ Said(Msg("hostClosed"), g, v, l)
    BY <2>1, <2>2, PlainMessage DEF Said
  <2> QED
    BY <1>2, <1>3, <1>4, <2>2, <2>4, <2>5, MovesPosting
<1> QED
  BY <1>5, <1>6, <1>7, <1>8

\* Sealing and attempting a wave, and parking: the tenure's own business, save
\* for the wave sent, which is sent under the tenure that holds the lease.
LEMMA TenureLocal ==
  ASSUME TypeOK, NEW g \in Gens, PortOf(g),
         SealWave(g) \/ AttemptWave(g) \/ Park(g)
  PROVE  Local(g)
<1> DEFINE w == worker[g]
           l == lease
           c == sup.closing
           open == bridge[g].open
<1>1. /\ w \in WorkerStates /\ w.deciding \cup w.sent \subseteq 1..w.cycle
      /\ w.thread = "running" /\ w.thread # "none"
  BY Shape DEF SealWave, AttemptWave, Park, Running
<1>2. PortWith(g, down[g]) /\ Standing(g, w, open, l, c)
  BY DEF PortOf, PortWith, Port
<1>3. /\ down' = [down EXCEPT ![g] = down[g]]
      /\ UNCHANGED <<sup, bridge, lease, session, history>>
  BY Shape DEF SealWave, AttemptWave, Park
<1>4. w.cycle \in 0..MaxTenures
  BY <1>1 DEF WorkerStates
<1>5. CASE SealWave(g)
  <2> DEFINE v == [w EXCEPT !.deciding = @ \cup {w.cycle}]
  <2>1. /\ w.at = "serving" /\ worker' = [worker EXCEPT ![g] = v] /\ up' = up
        /\ Spend("waves")
    BY <1>5 DEF SealWave
  <2>2. w.cycle \in 1..MaxTenures /\ w.cycle \in 1..w.cycle
    BY <1>2, <1>4, <2>1 DEF Standing
  <2>3. /\ v \in WorkerStates /\ v.thread = w.thread /\ v.at = w.at
        /\ v.cycle = w.cycle /\ v.closing = w.closing /\ v.held = w.held
        /\ v.deciding = w.deciding \cup {w.cycle} /\ v.sent = w.sent
    BY <1>1, <2>2 DEF WorkerStates
  <2>4. budget' \in Budgets
    BY <2>1, Spent
  <2> HIDE DEF w, v
  <2>5. Standing(g, v, open, l, c) /\ v.deciding \cup v.sent \subseteq 1..v.cycle
    BY <1>1, <1>2, <2>2, <2>3 DEF Standing
  <2>6. MovesTo(g, v, down[g])
    BY <1>1, <2>3, <2>5 DEF MovesTo, Moves, w
  <2> QED
    BY <1>2, <1>3, <2>1, <2>4, <2>6, MovesQuietly
<1>6. CASE AttemptWave(g)
  <2>1. PICK t \in w.deciding :
          \/ /\ IsCurrentTenure(g, t)
             /\ worker' = [worker EXCEPT ![g].deciding = @ \ {t}, ![g].sent = @ \cup {t}]
             /\ Post(g, [kind |-> "wave", tenure |-> t])
          \/ /\ worker' = [worker EXCEPT ![g].deciding = @ \ {t}]
             /\ UNCHANGED up
    BY <1>6 DEF AttemptWave
  <2>2. t \in 1..MaxTenures /\ t \in 1..w.cycle /\ budget' \in Budgets
    BY <1>1, <1>6, Shape DEF WorkerStates, AttemptWave
  <2>3. ASSUME worker' = [worker EXCEPT ![g].deciding = @ \ {t}], UNCHANGED up
        PROVE  Local(g)
    <3> DEFINE v == [w EXCEPT !.deciding = @ \ {t}]
    <3>1. worker' = [worker EXCEPT ![g] = v]
      BY <2>3
    <3>2. /\ v \in WorkerStates /\ v.thread = w.thread /\ v.at = w.at
          /\ v.cycle = w.cycle /\ v.closing = w.closing /\ v.held = w.held
          /\ v.deciding = w.deciding \ {t} /\ v.sent = w.sent
      BY <1>1 DEF WorkerStates
    <3> HIDE DEF w, v
    <3>3. Standing(g, v, open, l, c) /\ v.deciding \cup v.sent \subseteq 1..v.cycle
      BY <1>1, <1>2, <3>2 DEF Standing
    <3>4. MovesTo(g, v, down[g])
      BY <1>1, <3>2, <3>3 DEF MovesTo, Moves, w
    <3> QED
      BY <1>2, <1>3, <2>2, <2>3, <3>1, <3>4, MovesQuietly
  <2>4. ASSUME IsCurrentTenure(g, t),
               worker' = [worker EXCEPT ![g].deciding = @ \ {t}, ![g].sent = @ \cup {t}],
               Post(g, [kind |-> "wave", tenure |-> t])
        PROVE  Local(g)
    <3> DEFINE v == [w EXCEPT !.deciding = @ \ {t}, !.sent = @ \cup {t}]
               m == [kind |-> "wave", tenure |-> t]
    <3>1. worker' = [worker EXCEPT ![g] = v] /\ w.held /\ t = w.cycle
      BY <2>4 DEF IsCurrentTenure
    <3>2. /\ v \in WorkerStates /\ v.thread = w.thread /\ v.at = w.at
          /\ v.cycle = w.cycle /\ v.closing = w.closing /\ v.held = w.held
          /\ v.deciding = w.deciding \ {t} /\ v.sent = w.sent \cup {t}
      BY <1>1, <2>2 DEF WorkerStates
    <3>3. m \in Messages /\ m.kind = "wave" /\ m.tenure = t
      BY <2>2 DEF Messages
    <3> HIDE DEF w, v, m
    <3>4. Standing(g, v, open, l, c) /\ v.deciding \cup v.sent \subseteq 1..v.cycle
      BY <1>1, <1>2, <2>2, <3>2 DEF Standing
    <3>5. MovesTo(g, v, down[g])
      BY <1>1, <3>2, <3>4 DEF MovesTo, Moves, w
    <3>6. v.at \in {"serving", "parking"} /\ (open => Said(m, g, v, l))
      BY <3>1, <3>2, <3>3, <3>4 DEF Standing, Said
    <3>7. m.kind \notin Requests /\ v.at # "releasing"
      BY <3>3, <3>6 DEF Requests
    <3>8. Post(g, m)
      BY <2>4 DEF m
    <3> QED
      BY <1>2, <1>3, <2>2, <3>1, <3>3, <3>5, <3>6, <3>7, <3>8, MovesPosting
  <2> QED
    BY <2>1, <2>3, <2>4
<1>7. CASE Park(g)
  <2> DEFINE v == [w EXCEPT !.at = "parking"]
  <2>1. w.at = "serving" /\ worker' = [worker EXCEPT ![g] = v] /\ UNCHANGED up
    BY <1>7 DEF Park
  <2>2. budget' \in Budgets
    BY <1>7, Spent, Shape DEF Park
  <2>3. /\ v \in WorkerStates /\ v.thread = w.thread /\ v.at = "parking"
        /\ v.cycle = w.cycle /\ v.closing = w.closing /\ v.held = w.held
        /\ v.deciding = w.deciding /\ v.sent = w.sent
    BY <1>1 DEF WorkerStates, Phases
  <2> HIDE DEF w, v
  <2>4. Standing(g, v, open, l, c)
    BY <1>1, <1>2, <2>1, <2>3 DEF Standing, Idle
  <2>5. (open => NoRequest(up[g])) /\ NoReply(down[g])
    BY <2>1, Unasked DEF PortOf, w
  <2>6. MovesTo(g, v, down[g])
    BY <1>1, <2>1, <2>3, <2>4, <2>5 DEF MovesTo, Moves, w
  <2> QED
    BY <1>2, <1>3, <2>1, <2>2, <2>6, MovesQuietly
<1> QED
  BY <1>5, <1>6, <1>7

\* A thread that crashes, stalls, comes back or ends.
LEMMA ThreadLocal ==
  ASSUME TypeOK, NEW g \in Gens, PortOf(g),
         Crash(g) \/ Stall(g) \/ Resume(g) \/ ThreadEnds(g)
  PROVE  Local(g)
<1> DEFINE w == worker[g]
<1>1. PICK th \in {"running", "crashed", "stalled", "gone"} :
        /\ worker' = [worker EXCEPT ![g] = [w EXCEPT !.thread = th]]
        /\ th \in {"crashed", "stalled"} => g < MaxGens
        /\ th = "gone" => w.thread = "crashed" \/ ~ bridge[g].open
  BY DEF Crash, Stall, Resume, ThreadEnds
<1> DEFINE v == [w EXCEPT !.thread = th]
<1>2. /\ w \in WorkerStates /\ w.deciding \cup w.sent \subseteq 1..w.cycle
      /\ w.thread # "none"
  BY Shape DEF Crash, Stall, Resume, ThreadEnds, Running
<1>3. /\ v \in WorkerStates /\ v.thread = th /\ v.at = w.at
      /\ v.cycle = w.cycle /\ v.closing = w.closing /\ v.held = w.held
      /\ v.deciding = w.deciding /\ v.sent = w.sent
  BY <1>2 DEF WorkerStates
<1>4. budget' \in Budgets
  BY Spent, Shape DEF Crash, Stall, Resume, ThreadEnds
<1>5. /\ down' = [down EXCEPT ![g] = down[g]]
      /\ UNCHANGED <<up, sup, bridge, lease, session, history>>
  BY Shape DEF Crash, Stall, Resume, ThreadEnds
<1>6. PortWith(g, down[g]) /\ Standing(g, w, bridge[g].open, lease, sup.closing)
  BY DEF PortOf, PortWith, Port
<1> HIDE DEF w, v
<1>7. Standing(g, v, bridge[g].open, lease, sup.closing)
  BY <1>1, <1>3, <1>6 DEF Standing
<1>8. MovesTo(g, v, down[g])
  BY <1>2, <1>3, <1>7 DEF MovesTo, Moves, w
<1>9. worker' = [worker EXCEPT ![g] = v]
  BY <1>1 DEF v
<1> QED
  BY <1>4, <1>5, <1>6, <1>8, <1>9, MovesQuietly

\* The worker takes its next message.
LEMMA ReceivesLocal ==
  ASSUME TypeOK, NEW g \in Gens, PortOf(g), WorkerReceives(g)
  PROVE  Local(g)
<1> DEFINE w == worker[g]
           D == Tail(down[g])
           m == Head(down[g])
           l == lease
           c == sup.closing
           open == bridge[g].open
<1>1. /\ w \in WorkerStates /\ w.deciding \cup w.sent \subseteq 1..w.cycle
      /\ w.thread = "running" /\ w.thread # "none" /\ w.at # "closed" /\ down[g] # <<>>
      /\ budget' \in Budgets
  BY Shape DEF WorkerReceives, Running
<1>2. down' = [down EXCEPT ![g] = D] /\ UNCHANGED <<sup, bridge, lease, session, history>>
  BY DEF WorkerReceives, TypeOK
<1>3. Port(g, w, up[g], down[g], open, l, history.grants[g], c)
  BY DEF PortOf
<1>4. /\ m \in Messages
      /\ Heard(m, g, w, open, l, c)
      /\ m # Granted => PortWith(g, D)
      /\ m.kind \in Replies => (open => NoRequest(up[g])) /\ NoReply(D)
  BY <1>1, <1>3, TakenDown DEF PortWith
<1>5. Standing(g, w, open, l, c)
  BY <1>3 DEF Port
<1>6. Granted.kind = "acquired"
  BY DEF Granted
<1>7. CASE m.kind = "init"
  <2> DEFINE v == [w EXCEPT !.at = "parked"]
  <2>1. worker' = [worker EXCEPT ![g] = v] /\ Post(g, Msg("initOk"))
    BY <1>7 DEF WorkerReceives
  <2>2. /\ v \in WorkerStates /\ v.thread = w.thread /\ v.at = "parked"
        /\ v.cycle = w.cycle /\ v.closing = w.closing /\ v.held = w.held
        /\ v.deciding = w.deciding /\ v.sent = w.sent
    BY <1>1 DEF WorkerStates, Phases
  <2> HIDE DEF w, v, m, D
  <2>3. w.at = "loaded" /\ (open => NoRequest(up[g])) /\ NoReply(D)
    BY <1>4, <1>7 DEF Heard, Replies
  <2>4. Standing(g, v, open, l, c)
    BY <1>5, <2>2, <2>3 DEF Standing, Idle
  <2>5. MovesTo(g, v, D)
    BY <1>1, <2>2, <2>3, <2>4 DEF MovesTo, Moves, w
  <2>6. /\ Msg("initOk") \in Messages /\ Msg("initOk").kind = "initOk"
        /\ Said(Msg("initOk"), g, v, l) /\ "initOk" \notin Requests
    BY PlainMessage DEF Said, Requests
  <2> QED
    BY <1>1, <1>2, <1>4, <1>6, <1>7, <2>1, <2>5, <2>6, MovesPosting
<1>8. CASE m.kind = "opened"
  <2> DEFINE v == [w EXCEPT !.mirror = TRUE, !.at = IF @ = "refused" THEN "parked" ELSE @]
  <2>1. worker' = [worker EXCEPT ![g] = v] /\ UNCHANGED up
    BY <1>8 DEF WorkerReceives
  <2>2. /\ v \in WorkerStates /\ v.thread = w.thread
        /\ v.at = IF w.at = "refused" THEN "parked" ELSE w.at
        /\ v.cycle = w.cycle /\ v.closing = w.closing /\ v.held = w.held
        /\ v.deciding = w.deciding /\ v.sent = w.sent
    BY <1>1 DEF WorkerStates, Phases
  <2>3. PortWith(g, D)
    BY <1>4, <1>6, <1>8
  <2>4. w.at = "refused" => (open => NoRequest(up[g])) /\ NoReply(D)
    BY <2>3, Unasked DEF PortWith
  <2> HIDE DEF w, v, m, D
  <2>5. Standing(g, v, open, l, c)
    BY <1>5, <2>2 DEF Standing, Idle
  <2>6. MovesTo(g, v, D)
    BY <1>1, <2>2, <2>4, <2>5 DEF MovesTo, Moves, w
  <2> QED
    BY <1>1, <1>2, <2>1, <2>3, <2>6, MovesQuietly
<1>9. CASE m.kind = "closed"
  <2> DEFINE v == [w EXCEPT !.mirror = FALSE]
  <2>1. worker' = [worker EXCEPT ![g] = v] /\ UNCHANGED up
    BY <1>9 DEF WorkerReceives
  <2>2. /\ v \in WorkerStates /\ v.thread = w.thread /\ v.at = w.at
        /\ v.cycle = w.cycle /\ v.closing = w.closing /\ v.held = w.held
        /\ v.deciding = w.deciding /\ v.sent = w.sent
    BY <1>1 DEF WorkerStates
  <2> HIDE DEF w, v, m, D
  <2>3. Standing(g, v, open, l, c)
    BY <1>5, <2>2 DEF Standing
  <2>4. MovesTo(g, v, D)
    BY <1>1, <2>2, <2>3 DEF MovesTo, Moves, w
  <2> QED
    BY <1>1, <1>2, <1>4, <1>6, <1>9, <2>1, <2>4, MovesQuietly
<1>10. CASE m.kind = "acquired"
  <2>1. /\ worker' = [worker EXCEPT ![g] = [w EXCEPT
             !.at = IF m.granted THEN "serving" ELSE "refused", !.held = m.granted,
             !.cycle = IF m.granted THEN @ + 1 ELSE @]]
        /\ UNCHANGED up
    BY <1>10 DEF WorkerReceives
  <2>2. m.granted \in BOOLEAN /\ (m.granted => m = Granted)
    BY <1>4, <1>10 DEF Messages, Granted
  <2>3. CASE m.granted
    <3> DEFINE v == [w EXCEPT !.at = "serving", !.held = TRUE, !.cycle = @ + 1]
    <3>1. Port(g, v, up[g], D, open, l, history.grants[g], c)
      BY <1>1, <1>3, <2>2, <2>3, GrantHeard
    <3>2. worker' = [worker EXCEPT ![g] = v]
      BY <2>1, <2>2, <2>3
    <3>3. v.thread # "none" /\ up' = [up EXCEPT ![g] = up[g]]
      BY <1>1, <2>1, Shape DEF WorkerStates
    <3> QED
      BY <1>1, <1>2, <3>1, <3>2, <3>3, LocalFrom
  <2>4. CASE ~ m.granted
    <3> DEFINE v == [w EXCEPT !.at = "refused", !.held = FALSE]
    <3>1. worker' = [worker EXCEPT ![g] = v]
      BY <1>1, <2>1, <2>2, <2>4 DEF WorkerStates
    <3>2. /\ v \in WorkerStates /\ v.thread = w.thread /\ v.at = "refused"
          /\ v.cycle = w.cycle /\ v.closing = w.closing /\ ~ v.held
          /\ v.deciding = w.deciding /\ v.sent = w.sent
      BY <1>1 DEF WorkerStates, Phases
    <3>3. PortWith(g, D)
      BY <1>4, <2>4 DEF Granted
    <3> HIDE DEF w, v, m, D
    <3>4. w.at = "acquiring" /\ l # g /\ (open => NoRequest(up[g])) /\ NoReply(D)
      BY <1>4, <1>10, <2>4 DEF Heard, Replies
    <3>5. Standing(g, v, open, l, c)
      BY <1>5, <3>2, <3>4 DEF Standing, Idle
    <3>6. MovesTo(g, v, D)
      BY <1>1, <3>2, <3>4, <3>5 DEF MovesTo, Moves, w
    <3> QED
      BY <1>1, <1>2, <2>1, <3>1, <3>3, <3>6, MovesQuietly
  <2> QED
    BY <2>3, <2>4
<1>11. CASE m.kind = "verdict"
  <2> DEFINE again == m.result = "conflict" /\ IsCurrentTenure(g, m.tenure)
             lost  == m.result = "refused" /\ IsCurrentTenure(g, m.tenure)
             v == [w EXCEPT
                    !.sent = @ \ {m.tenure},
                    !.deciding = IF again THEN @ \cup {m.tenure} ELSE @,
                    !.at = IF lost /\ @ = "serving" THEN "parking" ELSE @]
  <2>1. worker' = [worker EXCEPT ![g] = v] /\ UNCHANGED up
    BY <1>11 DEF WorkerReceives, HandleVerdict
  <2>2. m.tenure \in 1..MaxTenures /\ (again => m.tenure = w.cycle)
    BY <1>4, <1>11 DEF Messages, IsCurrentTenure
  <2>3. PortWith(g, D)
    BY <1>4, <1>6, <1>11
  <2>4. w.at = "serving" => (open => NoRequest(up[g])) /\ NoReply(D)
    BY <2>3, Unasked DEF PortWith
  <2> HIDE DEF again, lost
  <2>5. /\ v \in WorkerStates /\ v.thread = w.thread
        /\ v.at = w.at \/ (w.at = "serving" /\ v.at = "parking")
        /\ v.cycle = w.cycle /\ v.closing = w.closing /\ v.held = w.held
        /\ v.deciding = (IF again THEN w.deciding \cup {m.tenure} ELSE w.deciding)
        /\ v.sent = w.sent \ {m.tenure}
    BY <1>1, <2>2 DEF WorkerStates, Phases
  <2> HIDE DEF w, v, m, D
  <2>6. w.cycle \in Nat
    BY <1>1 DEF WorkerStates
  <2>7. Standing(g, v, open, l, c) /\ v.deciding \cup v.sent \subseteq 1..v.cycle
    BY <1>1, <1>5, <2>2, <2>5, <2>6 DEF Standing, Idle
  <2>8. MovesTo(g, v, D)
    BY <1>1, <2>4, <2>5, <2>7 DEF MovesTo, Moves, w
  <2> QED
    BY <1>1, <1>2, <2>1, <2>3, <2>8, MovesQuietly
<1>12. CASE m.kind = "released"
  <2> DEFINE v == [w EXCEPT !.at = "parked", !.held = FALSE]
  <2>1. worker' = [worker EXCEPT ![g] = v] /\ UNCHANGED up
    BY <1>12 DEF WorkerReceives
  <2>2. /\ v \in WorkerStates /\ v.thread = w.thread /\ v.at = "parked"
        /\ v.cycle = w.cycle /\ v.closing = w.closing /\ ~ v.held
        /\ v.deciding = w.deciding /\ v.sent = w.sent
    BY <1>1 DEF WorkerStates, Phases
  <2> HIDE DEF w, v, m, D
  <2>3. w.at = "releasing" /\ l # g /\ (open => NoRequest(up[g])) /\ NoReply(D)
    BY <1>4, <1>12 DEF Heard, Replies
  <2>4. Standing(g, v, open, l, c)
    BY <1>5, <2>2, <2>3 DEF Standing, Idle
  <2>5. MovesTo(g, v, D)
    BY <1>1, <2>2, <2>3, <2>4 DEF MovesTo, Moves, w
  <2> QED
    BY <1>1, <1>2, <1>4, <1>6, <1>12, <2>1, <2>5, MovesQuietly
<1>13. CASE m.kind = "close"
  <2> DEFINE v == [w EXCEPT !.closing = TRUE]
  <2>1. worker' = [worker EXCEPT ![g] = v] /\ UNCHANGED up
    BY <1>13 DEF WorkerReceives
  <2>2. /\ v \in WorkerStates /\ v.thread = w.thread /\ v.at = w.at
        /\ v.cycle = w.cycle /\ v.closing /\ v.held = w.held
        /\ v.deciding = w.deciding /\ v.sent = w.sent
    BY <1>1 DEF WorkerStates
  <2> HIDE DEF w, v, m, D
  <2>3. c = g
    BY <1>4, <1>13 DEF Heard
  <2>4. Standing(g, v, open, l, c)
    BY <1>5, <2>2, <2>3 DEF Standing
  <2>5. MovesTo(g, v, D)
    BY <1>1, <2>2, <2>4 DEF MovesTo, Moves, w
  <2> QED
    BY <1>1, <1>2, <1>4, <1>6, <1>13, <2>1, <2>5, MovesQuietly
<1> QED
  BY <1>7, <1>8, <1>9, <1>10, <1>11, <1>12, <1>13 DEF WorkerReceives
-----------------------------------------------------------------------------
(* What a step that touches one port leaves                                *)

Histories ==
  [grants : [Gens -> Nat], ended : SUBSET (Gens \X Nat), landed : Nat,
   latest : (Gens \cup {None}) \X Nat]

\* A step that touches generation g's worker and port only, and neither the
\* lease nor the tenures counted.
Contained(g) ==
  /\ worker' = [worker EXCEPT ![g] = worker'[g]]
  /\ up' = [up EXCEPT ![g] = up'[g]]
  /\ down' = [down EXCEPT ![g] = down'[g]]
  /\ UNCHANGED <<sup, lease, session>>
  /\ bridge' \in [Gens -> [open : BOOLEAN, serving : BOOLEAN, lock : BOOLEAN]]
  /\ \A h \in Gens : bridge'[h].open = bridge[h].open
  /\ history' \in Histories
  /\ history'.grants = history.grants /\ history'.ended = history.ended
  /\ budget' \in Budgets
  /\ worker[g].thread # "none" /\ worker'[g].thread # "none"
  /\ worker[g].at = "closed" => worker'[g].at = "closed"
  /\ Port(g, worker'[g], up'[g], down'[g], bridge[g].open, lease, history.grants[g],
          sup.closing)

\* Every port but g's is as it was.
LEMMA ContainedKeeps ==
  ASSUME IInv, NEW g \in Gens, Contained(g)
  PROVE  IInv'
<1>1. /\ worker \in [Gens -> WorkerStates] /\ up \in [Gens -> Seq(Messages)]
      /\ down \in [Gens -> Seq(Messages)]
  BY DEF IInv, TypeOK
<1>2. /\ worker'[g] \in WorkerStates /\ up'[g] \in Seq(Messages)
      /\ down'[g] \in Seq(Messages)
      /\ worker'[g].deciding \cup worker'[g].sent \subseteq 1..worker'[g].cycle
  BY DEF Contained, Port, Typed
<1>3. \A h \in Gens \ {g} : worker'[h] = worker[h] /\ up'[h] = up[h] /\ down'[h] = down[h]
  BY <1>1 DEF Contained
<1>4. /\ worker' \in [Gens -> WorkerStates] /\ up' \in [Gens -> Seq(Messages)]
      /\ down' \in [Gens -> Seq(Messages)]
  BY <1>1, <1>2 DEF Contained
<1>5. \A h \in Gens : worker'[h].deciding \cup worker'[h].sent \subseteq 1..worker'[h].cycle
  BY <1>2, <1>3 DEF IInv, TypeOK
<1>6. TypeOK'
  BY <1>4, <1>5 DEF IInv, TypeOK, Contained, Budgets, Histories
<1>7. \A h \in Gens : /\ worker'[h].thread = "none" <=> worker[h].thread = "none"
                      /\ worker[h].at = "closed" => worker'[h].at = "closed"
  BY <1>3 DEF Contained
<1>8. SupOK'
  BY <1>7 DEF IInv, SupOK, Contained, TypeOK, None
<1>9. StartsOK'
  <2>1. StartsOK /\ UNCHANGED sup
    BY DEF IInv, Contained
  <2>2. MaxGens \in Gens
    BY WorkerAssumption DEF Gens
  <2> QED
    BY <1>7, <2>1, <2>2 DEF StartsOK
<1>10. EndedOK' /\ NoOrphanLease'
  BY DEF IInv, EndedOK, NoOrphanLease, Contained
<1>11. ASSUME NEW h \in Gens PROVE PortOf(h)'
  BY <1>3 DEF IInv, PortOf, Contained
<1> QED
  BY <1>6, <1>8, <1>9, <1>10, <1>11 DEF IInv

\* The worker's own steps are such steps.
LEMMA LocalKeeps ==
  ASSUME IInv, NEW g \in Gens, Local(g)
  PROVE  IInv'
<1>1. Contained(g)
  BY DEF IInv, TypeOK, Local, Contained, Histories
<1> QED
  BY <1>1, ContainedKeeps

-----------------------------------------------------------------------------
(* The lease map                                                           *)

\* The step is one the lease's promise allows, or none at all to the lease.
LeaseStep == Lease!Next \/ UNCHANGED <<Owner, history.ended, history.landed, history.latest>>

\* A step that leaves the lease and the history alone.
LEMMA LeaseIdle ==
  ASSUME UNCHANGED <<lease, history>>
  PROVE  LeaseStep
BY DEF LeaseStep, Owner

\* Freeing a lease ends the tenure that held it, and no other.
LEMMA LeaseFreed ==
  ASSUME TypeOK, EndedOK, NEW t \in Gens, FreeLease(t)
  PROVE  /\ lease' \in Gens \cup {None} /\ lease' # t
         /\ lease' = lease \/ (lease = t /\ lease' = None)
         /\ history' \in Histories /\ history'.grants = history.grants
         /\ EndedOK'
         /\ LeaseStep
<1>1. None \notin Gens /\ history \in Histories /\ lease \in Gens \cup {None}
  BY DEF TypeOK, Gens, None, Histories
<1>2. CASE lease # t
  <2>1. UNCHANGED <<lease, history>>
    BY <1>2 DEF FreeLease
  <2> QED
    BY <1>1, <1>2, <2>1, LeaseIdle DEF EndedOK
<1>3. CASE lease = t
  <2>1. /\ lease' = None /\ history' = [history EXCEPT !.ended = @ \cup {<<t, history.grants[t]>>}]
    BY <1>1, <1>3 DEF FreeLease, Owner
  <2>2. history.grants[t] \in Nat
    BY <1>1 DEF Histories
  <2>3. /\ history'.grants = history.grants /\ history'.landed = history.landed
        /\ history'.latest = history.latest
        /\ history'.ended = history.ended \cup {<<t, history.grants[t]>>}
    BY <1>1, <2>1 DEF Histories
  <2>4. history' \in Histories
    BY <1>1, <2>1, <2>2 DEF Histories
  <2>5. EndedOK'
    BY <2>2, <2>3 DEF EndedOK
  <2>6. Owner = <<t, history.grants[t]>> /\ Owner' = <<None, 0>> /\ Owner # <<None, 0>>
    BY <1>1, <1>3, <2>1 DEF Owner
  <2>7. Lease!End
    BY <2>3, <2>6 DEF Lease!End
  <2>8. LeaseStep
    BY <2>7 DEF LeaseStep, Lease!Next
  <2> QED
    BY <1>1, <1>3, <2>1, <2>3, <2>4, <2>5, <2>8
<1> QED
  BY <1>2, <1>3

-----------------------------------------------------------------------------
(* The server's thread takes a message                                     *)

\* What it finds, and what is left of the port.
LEMMA BridgeTakes ==
  ASSUME IInv, NEW g \in Gens, BridgeReceives(g)
  PROVE  /\ bridge[g].open /\ worker[g].thread # "none"
         /\ up[g] # <<>> /\ up' = [up EXCEPT ![g] = Tail(up[g])]
         /\ worker' = [worker EXCEPT ![g] = worker[g]] /\ worker' = worker /\ session' = session
         /\ Head(up[g]) \in Messages
         /\ Said(Head(up[g]), g, worker[g], lease)
         /\ Port(g, worker[g], Tail(up[g]), down[g], TRUE, lease, history.grants[g], sup.closing)
         /\ Head(up[g]).kind \in Requests => NoRequest(Tail(up[g])) /\ NoReply(down[g])
         /\ Head(up[g]).kind = "release" =>
              \A i \in DOMAIN Tail(up[g]) : Tail(up[g])[i].kind # "wave"
<1>1. /\ bridge[g].open /\ up[g] # <<>> /\ up' = [up EXCEPT ![g] = Tail(up[g])]
      /\ worker' = worker /\ session' = session
  BY DEF BridgeReceives
<1>2. bridge[g].open = TRUE /\ worker' = [worker EXCEPT ![g] = worker[g]]
  BY <1>1 DEF IInv, TypeOK
<1>3. Port(g, worker[g], up[g], down[g], TRUE, lease, history.grants[g], sup.closing)
  BY <1>2 DEF IInv, PortOf
<1>4. worker[g].thread # "none"
  BY <1>3 DEF Port, Fresh
<1> QED
  BY <1>1, <1>2, <1>3, <1>4, TakenUp

\* A step of the server's thread that answers g with what port E holds, and
\* changes neither the lease nor the tenures counted.
LEMMA AnswerContained ==
  ASSUME IInv, NEW g \in Gens, BridgeReceives(g), NEW E,
         down' = [down EXCEPT ![g] = E],
         Port(g, worker[g], Tail(up[g]), E, TRUE, lease, history.grants[g], sup.closing),
         UNCHANGED <<sup, lease>>,
         bridge' \in [Gens -> [open : BOOLEAN, serving : BOOLEAN, lock : BOOLEAN]],
         \A h \in Gens : bridge'[h].open = bridge[h].open,
         history' \in Histories,
         history'.grants = history.grants, history'.ended = history.ended,
         budget' \in Budgets
  PROVE  Contained(g)
<1>1. worker'[g] = worker[g] /\ up'[g] = Tail(up[g]) /\ down'[g] = E /\ bridge[g].open = TRUE
  <2>1. /\ up' = [up EXCEPT ![g] = Tail(up[g])] /\ worker' = worker /\ bridge[g].open
    BY BridgeTakes
  <2>2. /\ up \in [Gens -> Seq(Messages)] /\ down \in [Gens -> Seq(Messages)]
        /\ bridge[g].open \in BOOLEAN
    BY DEF IInv, TypeOK
  <2> QED
    BY <2>1, <2>2
<1> QED
  BY <1>1, BridgeTakes DEF Contained

\* The handshake: a worker that is ready gets its init, and one that serves
\* gets the live sessions.
LEMMA HandshakeKeeps ==
  ASSUME IInv, NEW g \in Gens, BridgeReceives(g), Head(up[g]).kind \in {"ready", "initOk"}
  PROVE  IInv' /\ LeaseStep
<1> DEFINE w == worker[g]
           U == Tail(up[g])
           P(E) == Port(g, w, U, E, TRUE, lease, history.grants[g], sup.closing)
<1>1. TypeOK /\ budget \in Budgets /\ history \in Histories
  BY DEF IInv, TypeOK, Budgets, Histories
<1>2. P(down[g]) /\ w.thread # "none" /\ Said(Head(up[g]), g, w, lease)
  BY BridgeTakes
<1>3. CASE Head(up[g]).kind = "ready"
  <2>1. /\ down' = [down EXCEPT ![g] = Append(down[g], Msg("init"))]
        /\ UNCHANGED <<sup, bridge, lease, history, budget>>
    BY <1>1, <1>3 DEF BridgeReceives, Answered
  <2>2. /\ Msg("init") \in Messages /\ Msg("init").kind = "init" /\ Msg("init") # Granted
        /\ Heard(Msg("init"), g, w, TRUE, lease, sup.closing)
    BY <1>2, <1>3, PlainMessage DEF Said, Heard, Granted
  <2>3. NoRequest(U) /\ NoReply(down[g])
    BY <1>3, BridgeTakes DEF Requests
  <2>4. P(Append(down[g], Msg("init")))
    BY <1>2, <2>2, <2>3, PostedDown
  <2>5. Contained(g)
    BY <1>1, <2>1, <2>4, AnswerContained DEF TypeOK
  <2> QED
    BY <2>1, <2>5, ContainedKeeps, LeaseIdle
<1>4. CASE Head(up[g]).kind = "initOk"
  <2>1. /\ bridge' = [bridge EXCEPT ![g].serving = TRUE, ![g].lock = TRUE]
        /\ down' = [down EXCEPT ![g] = @ \o SessionReplay]
        /\ UNCHANGED <<sup, lease, history, budget>>
    BY <1>4 DEF BridgeReceives
  <2>2. /\ bridge' \in [Gens -> [open : BOOLEAN, serving : BOOLEAN, lock : BOOLEAN]]
        /\ \A h \in Gens : bridge'[h].open = bridge[h].open
    <3> DEFINE b == [bridge[g] EXCEPT !.serving = TRUE, !.lock = TRUE]
    <3>1. bridge \in [Gens -> [open : BOOLEAN, serving : BOOLEAN, lock : BOOLEAN]]
      BY <1>1 DEF TypeOK
    <3>2. bridge' = [bridge EXCEPT ![g] = b]
      BY <2>1
    <3>3. /\ b \in [open : BOOLEAN, serving : BOOLEAN, lock : BOOLEAN]
          /\ b.open = bridge[g].open
      BY <3>1
    <3> QED
      BY <3>1, <3>2, <3>3
  <2>3. CASE session
    <3>1. down' = [down EXCEPT ![g] = Append(down[g], Msg("opened"))]
      <4>1. down[g] \in Seq(Messages) /\ Msg("opened") \in Messages
        BY <1>1, Shape, PlainMessage
      <4>2. down[g] \o <<Msg("opened")>> = Append(down[g], Msg("opened"))
        BY <4>1
      <4> QED
        BY <1>1, <2>1, <2>3, <4>2 DEF SessionReplay, TypeOK
    <3>2. /\ Msg("opened") \in Messages /\ Msg("opened").kind = "opened"
          /\ Msg("opened") # Granted /\ "opened" \notin Replies
          /\ Heard(Msg("opened"), g, w, TRUE, lease, sup.closing)
      BY PlainMessage DEF Heard, Granted, Replies
    <3>3. P(Append(down[g], Msg("opened")))
      BY <1>2, <3>2, PostedDown
    <3>4. Contained(g)
      BY <1>1, <2>1, <2>2, <3>1, <3>3, AnswerContained
    <3> QED
      BY <2>1, <3>4, ContainedKeeps, LeaseIdle
  <2>4. CASE ~ session
    <3>1. down' = [down EXCEPT ![g] = down[g]]
      <4>1. down[g] \in Seq(Messages)
        BY <1>1, Shape
      <4>2. down[g] \o <<>> = down[g]
        BY <4>1
      <4> QED
        BY <1>1, <2>1, <2>4, <4>2 DEF SessionReplay, TypeOK
    <3>2. Contained(g)
      BY <1>1, <1>2, <2>1, <2>2, <3>1, AnswerContained
    <3> QED
      BY <2>1, <3>2, ContainedKeeps, LeaseIdle
  <2> QED
    BY <2>3, <2>4
<1> QED
  BY <1>3, <1>4

\* A wave that lands is one more, and the latest.
LEMMA Landing ==
  ASSUME NEW h \in Histories, NEW t \in (Gens \cup {None}) \X Nat
  PROVE  LET H == [h EXCEPT !.landed = @ + 1, !.latest = t]
         IN  /\ H \in Histories /\ H.grants = h.grants /\ H.ended = h.ended
             /\ H.landed = h.landed + 1 /\ H.latest = t
<1> DEFINE L == (Gens \cup {None}) \X Nat
           E == SUBSET (Gens \X Nat)
           G == [Gens -> Nat]
           n == h.landed + 1
<1>1. h \in [grants : G, ended : E, landed : Nat, latest : L] /\ t \in L /\ n \in Nat
  BY DEF Histories
<1> HIDE DEF L, E, G, n
<1> DEFINE H == [h EXCEPT !.landed = n, !.latest = t]
<1>2. /\ H \in [grants : G, ended : E, landed : Nat, latest : L]
      /\ H.grants = h.grants /\ H.ended = h.ended
      /\ H.landed = n /\ H.latest = t
  BY <1>1
<1> QED
  BY <1>2 DEF Histories, G, E, L, n

\* A wave: it lands only under the tenure that sealed it.
LEMMA WaveKeeps ==
  ASSUME IInv, NEW g \in Gens, BridgeReceives(g), Head(up[g]).kind = "wave"
  PROVE  IInv' /\ LeaseStep
<1> DEFINE w == worker[g]
           U == Tail(up[g])
           m == Head(up[g])
           P(E) == Port(g, w, U, E, TRUE, lease, history.grants[g], sup.closing)
<1>1. TypeOK /\ budget \in Budgets /\ history \in Histories
  BY DEF IInv, TypeOK, Budgets, Histories
<1>2. /\ P(down[g]) /\ w.thread # "none" /\ Said(m, g, w, lease)
      /\ m \in Messages
  BY BridgeTakes
<1>3. /\ m.tenure \in 1..MaxTenures /\ m.tenure = w.cycle /\ lease = g
      /\ w.at \in {"serving", "parking", "releasing"}
  BY <1>2 DEF Said, Messages
<1>4. CommitWave(g, m) /\ UNCHANGED <<sup, bridge, lease>>
  BY DEF BridgeReceives
<1>5. PICK result \in {"ok", "conflict", "refused"} :
        /\ down' = [down EXCEPT ![g] = Append(@,
             [kind |-> "verdict", tenure |-> m.tenure, result |-> result])]
        /\ history' = IF result = "ok"
                      THEN [history EXCEPT !.landed = @ + 1, !.latest = <<g, m.tenure>>]
                      ELSE history
        /\ IF result = "conflict" THEN Spend("conflicts") ELSE UNCHANGED budget
  BY <1>3, <1>4 DEF CommitWave, Answered
<1> DEFINE r == [kind |-> "verdict", tenure |-> m.tenure, result |-> result]
<1>6. /\ r \in Messages /\ r.kind = "verdict"
      /\ r # Granted /\ "verdict" \notin Replies
      /\ Heard(r, g, w, TRUE, lease, sup.closing)
  BY <1>3 DEF Messages, Heard, Granted, Replies
<1>7. budget' \in Budgets
  BY <1>1, <1>5, Spent
<1>8. P(Append(down[g], r))
  BY <1>2, <1>6, PostedDown
<1>9. /\ history' \in Histories
      /\ history'.grants = history.grants /\ history'.ended = history.ended
  <2>1. CASE result = "ok"
    <3> DEFINE H == [history EXCEPT !.landed = @ + 1, !.latest = <<g, m.tenure>>]
    <3>1. <<g, m.tenure>> \in (Gens \cup {None}) \X Nat
      BY <1>3
    <3>2. H \in Histories /\ H.grants = history.grants /\ H.ended = history.ended
      BY <1>1, <3>1, Landing
    <3> QED
      BY <1>5, <2>1, <3>2
  <2> QED
    BY <1>1, <1>5, <2>1
<1>10. down' = [down EXCEPT ![g] = Append(down[g], r)]
  BY <1>1, <1>5 DEF TypeOK
<1>11. Contained(g)
  BY <1>1, <1>4, <1>7, <1>8, <1>9, <1>10, AnswerContained DEF TypeOK
<1>12. CASE result # "ok"
  BY <1>4, <1>5, <1>11, <1>12, ContainedKeeps, LeaseIdle
<1>13. CASE result = "ok"
  <2>1. history.grants[g] = w.cycle
    BY <1>2, <1>3 DEF Port, Counted, DownOK, Heard, Granted
  <2>2. Owner = <<g, m.tenure>> /\ Owner' = Owner /\ Owner # <<None, 0>>
    BY <1>3, <1>4, <1>9, <2>1 DEF Owner, Gens, None
  <2>3. history'.landed = history.landed + 1 /\ history'.latest = <<g, m.tenure>>
    <3>1. <<g, m.tenure>> \in (Gens \cup {None}) \X Nat
      BY <1>3
    <3> QED
      BY <1>1, <1>5, <1>13, <3>1, Landing
  <2>4. Lease!Land
    BY <1>9, <2>2, <2>3 DEF Lease!Land
  <2> QED
    BY <1>11, <2>4, ContainedKeeps DEF LeaseStep, Lease!Next
<1> QED
  BY <1>12, <1>13

\* A step that passes the lease on, heard of by generation g only.
LEMMA LeaseMovesKeeps ==
  ASSUME IInv, NEW g \in Gens,
         UNCHANGED <<worker, session, bridge, budget, sup>>,
         up' = [up EXCEPT ![g] = up'[g]],
         down' = [down EXCEPT ![g] = down'[g]],
         lease' \in Gens \cup {None},
         \A h \in Gens \ {g} : lease' = lease \/ (lease # h /\ lease' # h),
         history' \in Histories,
         \A h \in Gens \ {g} : history'.grants[h] = history.grants[h],
         Port(g, worker[g], up'[g], down'[g], bridge[g].open, lease', history'.grants[g],
              sup.closing),
         EndedOK', NoOrphanLease'
  PROVE  IInv'
<1>1. up \in [Gens -> Seq(Messages)] /\ down \in [Gens -> Seq(Messages)]
  BY DEF IInv, TypeOK
<1>2. up'[g] \in Seq(Messages) /\ down'[g] \in Seq(Messages)
  BY DEF Port, Typed
<1>3. up' \in [Gens -> Seq(Messages)] /\ down' \in [Gens -> Seq(Messages)]
  BY <1>1, <1>2
<1>4. \A h \in Gens \ {g} : up'[h] = up[h] /\ down'[h] = down[h]
  BY <1>1
<1>5. TypeOK'
  BY <1>3 DEF IInv, TypeOK, Histories
<1>6. SupOK' /\ StartsOK'
  BY DEF IInv, SupOK, StartsOK
<1>7. ASSUME NEW h \in Gens, h # g PROVE PortOf(h)'
  <2>1. /\ worker'[h] = worker[h] /\ up'[h] = up[h] /\ down'[h] = down[h]
        /\ bridge'[h] = bridge[h] /\ sup' = sup /\ history'.grants[h] = history.grants[h]
    BY <1>4, <1>7
  <2>2. Port(h, worker[h], up[h], down[h], bridge[h].open, lease, history.grants[h],
             sup.closing)
    BY DEF IInv, PortOf
  <2>3. Port(h, worker[h], up[h], down[h], bridge[h].open, lease', history.grants[h],
             sup.closing)
    BY <1>7, <2>2, LeaseElsewhere
  <2> QED
    BY <2>1, <2>3 DEF PortOf
<1>8. PortOf(g)'
  BY DEF PortOf
<1> QED
  BY <1>5, <1>6, <1>7, <1>8 DEF IInv

\* A request for the lease begins a tenure never held before, if it is granted.
LEMMA AcquireKeeps ==
  ASSUME IInv, NEW g \in Gens, BridgeReceives(g), Head(up[g]).kind = "acquire"
  PROVE  IInv' /\ LeaseStep
<1> DEFINE w == worker[g]
           U == Tail(up[g])
           n == history.grants[g]
<1>1. TypeOK /\ budget \in Budgets /\ history \in Histories /\ EndedOK
  BY DEF IInv, TypeOK, Budgets, Histories
<1>2. /\ Port(g, w, U, down[g], TRUE, lease, n, sup.closing)
      /\ w.thread # "none" /\ w.at = "acquiring" /\ lease # g
      /\ NoRequest(U) /\ NoReply(down[g])
      /\ UNCHANGED <<worker, session>> /\ up' = [up EXCEPT ![g] = U]
      /\ bridge[g].open
  BY BridgeTakes DEF Said, Requests
<1>3. GrantLease(g) /\ UNCHANGED <<sup, bridge, budget>>
  BY DEF BridgeReceives
<1>4. CASE lease # None
  <2> DEFINE r == [kind |-> "acquired", granted |-> FALSE]
  <2>1. (lease \in {None, g}) = FALSE
    BY <1>2, <1>4
  <2>2. UNCHANGED <<lease, history>> /\ down' = [down EXCEPT ![g] = Append(down[g], r)]
    <3>1. UNCHANGED <<lease, history>> /\ Answered(g, r)
      BY <1>3, <2>1 DEF GrantLease
    <3> QED
      BY <1>1, <3>1 DEF Answered, TypeOK
  <2>3. /\ r \in Messages /\ r.kind = "acquired" /\ ~ r.granted
        /\ r # Granted
    BY DEF Messages, Granted
  <2>4. Heard(r, g, w, TRUE, lease, sup.closing)
    BY <1>2, <2>3 DEF Heard
  <2> HIDE DEF r
  <2>5. Port(g, w, U, Append(down[g], r), TRUE, lease, n, sup.closing)
    BY <1>2, <2>3, <2>4, PostedDown
  <2>6. Contained(g)
    BY <1>1, <1>3, <2>2, <2>5, AnswerContained DEF TypeOK
  <2> QED
    BY <2>2, <2>6, ContainedKeeps, LeaseIdle
<1>5. CASE lease = None
  <2>1. /\ lease' = g /\ history' = [history EXCEPT !.grants[g] = @ + 1]
        /\ down' = [down EXCEPT ![g] = Append(down[g], Granted)]
    BY <1>1, <1>3, <1>5 DEF GrantLease, Answered, TypeOK, Granted
  <2>2. n = w.cycle /\ Port(g, w, U, Append(down[g], Granted), TRUE, g, n + 1, sup.closing)
    BY <1>2, LeaseGranted
  <2>3. w.cycle \in 0..MaxTenures /\ w.cycle < MaxTenures /\ MaxTenures \in Nat
    BY <1>1, <1>2, Shape, WorkerAssumption DEF Port, Standing, WorkerStates
  <2> DEFINE G == [history.grants EXCEPT ![g] = n + 1]
  <2>4. history' = [history EXCEPT !.grants = G] /\ G \in [Gens -> Nat]
    BY <1>1, <2>1, <2>2, <2>3 DEF Histories
  <2>5. /\ history' \in Histories /\ history'.grants = G /\ history'.ended = history.ended
        /\ history'.landed = history.landed /\ history'.latest = history.latest
    BY <1>1, <2>4 DEF Histories
  <2>6. G[g] = n + 1 /\ \A h \in Gens \ {g} : G[h] = history.grants[h]
    BY <1>1 DEF Histories
  <2> HIDE DEF G
  <2>7. EndedOK'
    <3>1. SUFFICES ASSUME NEW t \in history.ended
                   PROVE  t[2] <= G[t[1]]
      BY <2>5 DEF EndedOK
    <3>2. t[1] \in Gens /\ t[2] \in Nat /\ t[2] <= history.grants[t[1]] /\ n \in Nat
      BY <1>1, <2>2, <2>3 DEF EndedOK, Histories
    <3> QED
      BY <2>6, <3>2
  <2>8. NoOrphanLease'
    BY <1>2, <1>3, <2>1 DEF IInv, SupOK, NoOrphanLease
  <2>9. /\ up'[g] = U /\ down'[g] = Append(down[g], Granted) /\ bridge[g].open = TRUE
        /\ up' = [up EXCEPT ![g] = up'[g]] /\ down' = [down EXCEPT ![g] = down'[g]]
    BY <1>1, <1>2, <2>1 DEF TypeOK
  <2>10. \A h \in Gens \ {g} : lease # h /\ lease' # h
    BY <1>5, <2>1 DEF Gens, None
  <2>11. IInv'
    <3>1. Port(g, worker[g], up'[g], down'[g], bridge[g].open, lease', history'.grants[g],
               sup.closing)
      BY <2>1, <2>2, <2>5, <2>6, <2>9
    <3>2. \A h \in Gens \ {g} : history'.grants[h] = history.grants[h]
      BY <2>5, <2>6
    <3>3. lease' \in Gens \cup {None}
      BY <2>1
    <3> QED
      BY <1>2, <1>3, <2>5, <2>7, <2>8, <2>9, <2>10, <3>1, <3>2, <3>3, LeaseMovesKeeps
  <2>12. /\ Owner = <<None, 0>> /\ Owner' = <<g, n + 1>>
         /\ <<g, n + 1>> \in Gens \X (1..MaxTenures) /\ <<g, n + 1>> \notin history.ended
    <3>1. Owner = <<None, 0>>
      BY <1>5 DEF Owner
    <3>2. Owner' = <<g, n + 1>>
      <4>1. history'.grants[g] = n + 1
        BY <2>5, <2>6
      <4>2. g # None
        BY DEF Gens, None
      <4> QED
        BY <2>1, <4>1, <4>2 DEF Owner
    <3>3. n + 1 \in 1..MaxTenures
      BY <2>2, <2>3
    <3>4. <<g, n + 1>> \notin history.ended
      BY <1>1, <2>2, <2>3 DEF EndedOK
    <3> QED
      BY <3>1, <3>2, <3>3, <3>4
  <2>13. Lease!Begin(<<g, n + 1>>)
    BY <2>5, <2>12 DEF Lease!Begin
  <2> QED
    BY <2>11, <2>12, <2>13 DEF LeaseStep, Lease!Next
<1> QED
  BY <1>4, <1>5

\* A release ends the tenure that asked for it: no wave of it is left behind.
LEMMA ReleaseKeeps ==
  ASSUME IInv, NEW g \in Gens, BridgeReceives(g), Head(up[g]).kind = "release"
  PROVE  IInv' /\ LeaseStep
<1> DEFINE w == worker[g]
           U == Tail(up[g])
           E == Append(down[g], Msg("released"))
<1>1. TypeOK /\ EndedOK
  BY DEF IInv
<1>2. /\ Port(g, w, U, down[g], TRUE, lease, history.grants[g], sup.closing)
      /\ w.thread # "none" /\ w.at = "releasing" /\ lease = g
      /\ NoRequest(U) /\ NoReply(down[g]) /\ \A i \in DOMAIN U : U[i].kind # "wave"
      /\ UNCHANGED <<worker, session>> /\ up' = [up EXCEPT ![g] = U]
      /\ bridge[g].open
  BY BridgeTakes DEF Said, Requests
<1>3. FreeLease(g) /\ Answered(g, Msg("released")) /\ UNCHANGED <<sup, bridge, budget>>
  BY DEF BridgeReceives
<1>4. down' = [down EXCEPT ![g] = E]
  BY <1>1, <1>3 DEF Answered, TypeOK
<1>5. /\ lease' = None /\ lease' # g
      /\ history' \in Histories /\ history'.grants = history.grants
      /\ EndedOK' /\ LeaseStep
  BY <1>1, <1>2, <1>3, LeaseFreed
<1>6. Port(g, w, U, E, TRUE, lease', history.grants[g], sup.closing)
  BY <1>2, <1>5, LeaseReleased
<1>7. /\ up'[g] = U /\ down'[g] = E /\ bridge[g].open = TRUE
      /\ up' = [up EXCEPT ![g] = up'[g]] /\ down' = [down EXCEPT ![g] = down'[g]]
  BY <1>1, <1>2, <1>4 DEF TypeOK
<1>8. \A h \in Gens \ {g} : lease # h /\ lease' # h
  BY <1>2, <1>5 DEF Gens, None
<1>9. NoOrphanLease'
  BY <1>5 DEF NoOrphanLease
<1>10. IInv'
  BY <1>2, <1>3, <1>5, <1>6, <1>7, <1>8, <1>9, LeaseMovesKeeps
<1> QED
  BY <1>5, <1>10

-----------------------------------------------------------------------------
(* The supervisor                                                          *)

\* The bridge of generation g stops listening; what it had not read is lost.
BridgeStops(g) ==
  /\ bridge' \in [Gens -> [open : BOOLEAN, serving : BOOLEAN, lock : BOOLEAN]]
  /\ bridge'[g].open = FALSE
  /\ \A h \in Gens \ {g} : bridge'[h].open = bridge[h].open
  /\ \E U \in Seq(Messages) : (worker[g].thread = "none" => U = <<>>) /\ up' = [up EXCEPT ![g] = U]
  /\ UNCHANGED <<worker, down, lease, session, history, budget>>
  /\ sup'.closing = sup.closing

\* The ports agree afterwards, and the lease is where it was.
LEMMA BridgeStopsPorts ==
  ASSUME IInv, NEW g \in Gens, BridgeStops(g),
         sup' \in [gen : Gens \cup {None}, terminating : Gens \cup {None},
                   respawn : {"none", "timer", "due"},
                   closed : {"open", "waiting", "closingHost", "hostClosed", "failed", "done"},
                   closing : Gens \cup {None}]
  PROVE  /\ TypeOK' /\ EndedOK' /\ LeaseStep
         /\ \A h \in Gens : PortOf(h)'
<1>1. PICK U \in Seq(Messages) : (worker[g].thread = "none" => U = <<>>) /\ up' = [up EXCEPT ![g] = U]
  BY DEF BridgeStops
<1>2. up \in [Gens -> Seq(Messages)]
  BY DEF IInv, TypeOK
<1>3. /\ up' \in [Gens -> Seq(Messages)] /\ up'[g] = U
      /\ \A h \in Gens \ {g} : up'[h] = up[h]
  BY <1>1, <1>2
<1>4. TypeOK'
  BY <1>3 DEF IInv, TypeOK, BridgeStops
<1>5. EndedOK' /\ LeaseStep
  BY LeaseIdle DEF IInv, EndedOK, BridgeStops
<1>6. PortOf(g)'
  <2>1. Port(g, worker[g], up[g], down[g], bridge[g].open, lease, history.grants[g],
             sup.closing)
    BY DEF IInv, PortOf
  <2>2. worker[g].thread = "none" => U = <<>>
    BY <1>1
  <2>3. bridge'[g].open \in BOOLEAN /\ ~ bridge'[g].open
    BY DEF BridgeStops
  <2>4. Port(g, worker[g], U, down[g], bridge'[g].open, lease, history.grants[g], sup.closing)
    BY <2>1, <2>2, <2>3, Silenced
  <2> QED
    BY <1>3, <2>4 DEF PortOf, BridgeStops
<1>7. ASSUME NEW h \in Gens, h # g PROVE PortOf(h)'
  <2>1. PortOf(h)
    BY DEF IInv
  <2> QED
    BY <1>3, <1>7, <2>1 DEF PortOf, BridgeStops
<1> QED
  BY <1>4, <1>5, <1>6, <1>7

Supervisors ==
  [gen : Gens \cup {None}, terminating : Gens \cup {None},
   respawn : {"none", "timer", "due"},
   closed : {"open", "waiting", "closingHost", "hostClosed", "failed", "done"},
   closing : Gens \cup {None}]

\* No generation is None, and the last one is one of them.
LEMMA GensFacts == None \notin Gens /\ MaxGens \in Gens
BY WorkerAssumption DEF Gens, None

\* The host's close is answered.
LEMMA HostClosedKeeps ==
  ASSUME IInv, NEW g \in Gens, BridgeReceives(g), Head(up[g]).kind = "hostClosed"
  PROVE  IInv' /\ LeaseStep
<1>1. /\ sup \in Supervisors /\ SupOK /\ StartsOK /\ NoOrphanLease
      /\ bridge \in [Gens -> [open : BOOLEAN, serving : BOOLEAN, lock : BOOLEAN]]
  BY DEF IInv, TypeOK, Supervisors
<1>2. /\ worker[g].at = "closed" /\ worker[g].closing /\ bridge[g].open
      /\ worker[g].thread # "none"
      /\ Port(g, worker[g], Tail(up[g]), down[g], TRUE, lease, history.grants[g], sup.closing)
      /\ up' = [up EXCEPT ![g] = Tail(up[g])] /\ UNCHANGED <<worker, session>>
  BY BridgeTakes DEF Said
<1>3. sup.closing = g /\ Tail(up[g]) \in Seq(Messages)
  BY <1>2 DEF Port, Standing, Typed
<1>4. /\ sup' = [sup EXCEPT !.closed = "hostClosed"]
      /\ bridge' = [bridge EXCEPT ![g].open = FALSE]
      /\ UNCHANGED <<down, lease, history, budget>>
  BY DEF BridgeReceives
<1>5. /\ sup' \in Supervisors /\ sup'.gen = sup.gen /\ sup'.terminating = sup.terminating
      /\ sup'.respawn = sup.respawn /\ sup'.closing = sup.closing
      /\ sup'.closed = "hostClosed"
  BY <1>1, <1>4 DEF Supervisors
<1>6. /\ bridge' \in [Gens -> [open : BOOLEAN, serving : BOOLEAN, lock : BOOLEAN]]
      /\ bridge'[g].open = FALSE
      /\ \A h \in Gens \ {g} : bridge'[h].open = bridge[h].open
  BY <1>1, <1>4
<1>7. BridgeStops(g)
  BY <1>2, <1>3, <1>4, <1>5, <1>6 DEF BridgeStops
<1>8. TypeOK' /\ EndedOK' /\ LeaseStep /\ \A h \in Gens : PortOf(h)'
  BY <1>5, <1>7, BridgeStopsPorts DEF Supervisors
<1>9. sup.gen = None /\ sup.terminating = None
  BY <1>1, <1>3, GensFacts DEF SupOK
<1>10. \A h \in Gens : ~ bridge'[h].open
  BY <1>1, <1>3, <1>6, <1>9, GensFacts DEF SupOK
<1>11. SupOK'
  BY <1>2, <1>3, <1>5, <1>9, <1>10, GensFacts DEF SupOK
<1>12. StartsOK'
  BY <1>1, <1>2, <1>5 DEF StartsOK
<1>13. NoOrphanLease'
  BY <1>1, <1>4, <1>5 DEF NoOrphanLease
<1> QED
  BY <1>8, <1>11, <1>12, <1>13 DEF IInv

\* Every message the server's thread takes.
LEMMA BridgeKeeps ==
  ASSUME IInv, NEW g \in Gens, BridgeReceives(g)
  PROVE  IInv' /\ LeaseStep
<1>1. Head(up[g]).kind \in {"ready", "initOk", "acquire", "release", "wave", "hostClosed"}
  BY DEF BridgeReceives
<1> QED
  BY <1>1, HandshakeKeeps, AcquireKeeps, ReleaseKeeps, WaveKeeps, HostClosedKeeps

\* A worker has failed: the supervisor drops it, or close tears it down.
LEMMA FailsKeeps ==
  ASSUME IInv, NEW g \in Gens, NEW killed \in BOOLEAN, WorkerFails(g, killed),
         worker[g].thread \in {"stalled", "crashed", "gone"}
  PROVE  IInv' /\ LeaseStep
<1>1. /\ sup \in Supervisors /\ SupOK /\ StartsOK /\ NoOrphanLease
      /\ bridge \in [Gens -> [open : BOOLEAN, serving : BOOLEAN, lock : BOOLEAN]]
  BY DEF IInv, TypeOK, Supervisors
<1>2. /\ bridge[g].open
      /\ bridge' = [bridge EXCEPT ![g].open = FALSE, ![g].lock = @ /\ ~ killed]
      /\ up' = [up EXCEPT ![g] = <<>>]
      /\ UNCHANGED <<worker, down, lease, session, history, budget>>
  BY DEF WorkerFails
<1>3. /\ bridge' \in [Gens -> [open : BOOLEAN, serving : BOOLEAN, lock : BOOLEAN]]
      /\ bridge'[g].open = FALSE
      /\ \A h \in Gens \ {g} : bridge'[h].open = bridge[h].open
  <2> DEFINE b == [bridge[g] EXCEPT !.open = FALSE, !.lock = bridge[g].lock /\ ~ killed]
  <2>1. bridge' = [bridge EXCEPT ![g] = b]
    BY <1>2
  <2>2. b \in [open : BOOLEAN, serving : BOOLEAN, lock : BOOLEAN] /\ b.open = FALSE
    BY <1>1
  <2> QED
    BY <1>1, <2>1, <2>2
<1>4. g < MaxGens
  BY <1>2 DEF IInv, PortOf, Port, Standing
<1>5. ASSUME sup' \in Supervisors, sup'.closing = sup.closing
      PROVE  TypeOK' /\ EndedOK' /\ LeaseStep /\ \A h \in Gens : PortOf(h)'
  <2>1. <<>> \in Seq(Messages)
    OBVIOUS
  <2>2. BridgeStops(g)
    BY <1>2, <1>3, <1>5, <2>1 DEF BridgeStops
  <2> QED
    BY <1>5, <2>2, BridgeStopsPorts DEF Supervisors
<1>6. CASE sup.gen = g
  <2>1. sup' = [sup EXCEPT !.gen = None, !.terminating = g, !.respawn = "timer"]
    BY <1>6 DEF WorkerFails
  <2>2. /\ sup' \in Supervisors /\ sup'.gen = None /\ sup'.terminating = g
        /\ sup'.respawn = "timer" /\ sup'.closed = sup.closed /\ sup'.closing = sup.closing
    BY <1>1, <2>1 DEF Supervisors
  <2>3. sup.closed = "open" /\ sup.closing = None /\ sup.terminating = None
    BY <1>1, <1>6, GensFacts DEF SupOK
  <2>4. \A h \in Gens : ~ bridge'[h].open
    BY <1>1, <1>3, <1>6, <2>3, GensFacts DEF SupOK
  <2>5. SupOK'
    BY <2>2, <2>3, <2>4 DEF SupOK
  <2>6. worker[MaxGens].thread = "none"
    <3>1. \A h \in Gens : worker[h].thread # "none" <=> h <= g
      BY <1>1, <1>6, GensFacts DEF StartsOK
    <3>2. ~ (MaxGens <= g)
      BY <1>4, WorkerAssumption DEF Gens
    <3> QED
      BY <3>1, <3>2, GensFacts
  <2>7. StartsOK'
    BY <1>1, <1>2, <2>2, <2>6 DEF StartsOK
  <2>8. NoOrphanLease'
    BY <1>1, <1>2, <1>6, <2>2, <2>3 DEF NoOrphanLease
  <2> QED
    BY <1>5, <2>2, <2>5, <2>7, <2>8 DEF IInv
<1>7. CASE sup.gen # g
  <2>1. sup' = IF sup.closed = "closingHost" THEN [sup EXCEPT !.closed = "failed"] ELSE sup
    BY <1>7 DEF WorkerFails
  <2>2. /\ sup' \in Supervisors /\ sup'.gen = sup.gen /\ sup'.terminating = sup.terminating
        /\ sup'.respawn = sup.respawn /\ sup'.closing = sup.closing
        /\ sup'.closed = IF sup.closed = "closingHost" THEN "failed" ELSE sup.closed
    BY <1>1, <2>1 DEF Supervisors
  <2>3. sup.closing = g /\ sup.closed \in {"waiting", "closingHost"} /\ sup.gen = None
    BY <1>1, <1>2, <1>7, GensFacts DEF SupOK
  <2>4. \A h \in Gens : ~ bridge'[h].open
    BY <1>1, <1>3, <2>3, GensFacts DEF SupOK
  <2>5. SupOK'
    BY <1>1, <2>2, <2>3, <2>4, GensFacts DEF SupOK
  <2>6. StartsOK'
    BY <1>1, <1>2, <2>2 DEF StartsOK
  <2>7. NoOrphanLease'
    BY <1>1, <1>2, <2>2, <2>3 DEF NoOrphanLease
  <2> QED
    BY <1>5, <2>2, <2>5, <2>6, <2>7 DEF IInv
<1> QED
  BY <1>6, <1>7

\* A step of the supervisor alone, that picks no worker to close.
LEMMA SupervisorKeeps ==
  ASSUME IInv, UNCHANGED <<bridge, worker, up, down, lease, session, history, budget>>,
         sup' \in Supervisors, sup'.closing = sup.closing,
         SupOK', StartsOK', NoOrphanLease'
  PROVE  IInv' /\ LeaseStep
<1>1. TypeOK' /\ EndedOK'
  BY DEF IInv, TypeOK, Supervisors, EndedOK
<1>2. \A h \in Gens : PortOf(h)'
  BY DEF IInv, PortOf
<1> QED
  BY <1>1, <1>2, LeaseIdle DEF IInv

\* The leases of a worker cut off are freed.
LEMMA FreesKeeps ==
  ASSUME IInv, NEW t \in Gens, ~ bridge[t].open, FreeLease(t),
         UNCHANGED <<bridge, worker, up, down, session, budget>>,
         sup' \in Supervisors, sup'.closing = sup.closing,
         SupOK', StartsOK', NoOrphanLease'
  PROVE  IInv' /\ LeaseStep
<1>1. /\ lease' \in Gens \cup {None} /\ lease' # t
      /\ lease' = lease \/ (lease = t /\ lease' = None)
      /\ history' \in Histories /\ history'.grants = history.grants
      /\ EndedOK' /\ LeaseStep
  BY LeaseFreed DEF IInv
<1>2. TypeOK'
  BY <1>1 DEF IInv, TypeOK, Supervisors, Histories
<1>3. ASSUME NEW h \in Gens PROVE PortOf(h)'
  <2>1. Port(h, worker[h], up[h], down[h], bridge[h].open, lease, history.grants[h],
             sup.closing)
    BY DEF IInv, PortOf
  <2>2. lease' = lease \/ (lease' # h /\ (lease # h \/ ~ bridge[h].open))
    BY <1>1, GensFacts
  <2>3. Port(h, worker[h], up[h], down[h], bridge[h].open, lease', history.grants[h],
             sup.closing)
    BY <2>1, <2>2, LeaseElsewhere
  <2> QED
    BY <1>1, <2>3 DEF PortOf
<1> QED
  BY <1>1, <1>2, <1>3 DEF IInv

\* A client session opens or ends: every attached bridge forwards it.
LEMMA SessionKeeps ==
  ASSUME IInv, SessionChanges
  PROVE  IInv' /\ LeaseStep
<1> DEFINE k == IF session THEN "closed" ELSE "opened"
           m == Msg(k)
           told(g) == bridge[g].open /\ bridge[g].serving
<1>1. /\ m \in Messages /\ m.kind = k /\ k \notin Replies /\ m # Granted
      /\ \A g \in Gens : Heard(m, g, worker[g], bridge[g].open, lease, sup.closing)
  <2>1. k \in {"closed", "opened"}
    OBVIOUS
  <2>2. m \in Messages /\ m.kind = k
    BY <2>1, PlainMessage
  <2> QED
    BY <2>1, <2>2 DEF Heard, Granted, Replies
<1>2. /\ UNCHANGED <<sup, bridge, worker, up, lease, history>> /\ session' = ~ session
      /\ down' = [g \in Gens |-> IF told(g) THEN Append(down[g], m) ELSE down[g]]
  BY DEF SessionChanges
<1> HIDE DEF m, k
<1>3. budget' \in Budgets
  BY Spent, Shape, GensFacts DEF SessionChanges, IInv
<1>4. ASSUME NEW g \in Gens
      PROVE  /\ down'[g] \in Seq(Messages)
             /\ PortOf(g)'
  <2>1. Port(g, worker[g], up[g], down[g], bridge[g].open, lease, history.grants[g],
             sup.closing)
    BY DEF IInv, PortOf
  <2>2. worker[g].thread = "none" => ~ bridge[g].open
    BY <2>1 DEF Port, Fresh
  <2>3. CASE told(g)
    <3>1. Port(g, worker[g], up[g], Append(down[g], m), bridge[g].open, lease,
               history.grants[g], sup.closing)
      BY <1>1, <2>1, <2>2, <2>3, PostedDown
    <3>2. down'[g] = Append(down[g], m)
      BY <1>2, <2>3
    <3> QED
      BY <1>2, <3>1, <3>2 DEF PortOf, Port, Typed
  <2>4. CASE ~ told(g)
    <3>1. down'[g] = down[g]
      BY <1>2, <2>4
    <3> QED
      BY <1>2, <2>1, <3>1 DEF PortOf, Port, Typed
  <2> QED
    BY <2>3, <2>4
<1>5. down' \in [Gens -> Seq(Messages)]
  BY <1>2, <1>4
<1>6. TypeOK'
  BY <1>2, <1>3, <1>5 DEF IInv, TypeOK, Budgets
<1>7. SupOK' /\ StartsOK' /\ EndedOK' /\ NoOrphanLease'
  BY <1>2 DEF IInv, SupOK, StartsOK, EndedOK, NoOrphanLease
<1> QED
  BY <1>2, <1>4, <1>6, <1>7, LeaseIdle DEF IInv

\* The teardown of a failed worker ends.
LEMMA TeardownKeeps ==
  ASSUME IInv, FinishTeardown
  PROVE  IInv' /\ LeaseStep
<1> DEFINE t == sup.terminating
<1>1. sup \in Supervisors /\ SupOK /\ StartsOK /\ NoOrphanLease
  BY DEF IInv, TypeOK, Supervisors
<1>2. /\ t # None /\ FreeLease(t) /\ sup' = [sup EXCEPT !.terminating = None]
      /\ UNCHANGED <<bridge, worker, up, down, session, budget>>
  BY DEF FinishTeardown
<1>3. t \in Gens /\ sup.gen = None /\ sup.closing = None
  BY <1>1, <1>2 DEF Supervisors, SupOK
<1>4. ~ bridge[t].open
  BY <1>1, <1>3, GensFacts DEF SupOK
<1>5. /\ sup' \in Supervisors /\ sup'.gen = sup.gen /\ sup'.terminating = None
      /\ sup'.respawn = sup.respawn /\ sup'.closed = sup.closed /\ sup'.closing = sup.closing
  BY <1>1, <1>2 DEF Supervisors
<1>6. SupOK' /\ StartsOK'
  BY <1>1, <1>2, <1>5 DEF SupOK, StartsOK
<1>7. lease' = None
  <2>1. lease = None \/ lease = t
    BY <1>1, <1>3 DEF NoOrphanLease
  <2> QED
    BY <1>2, <2>1 DEF FreeLease
<1>8. NoOrphanLease'
  BY <1>7 DEF NoOrphanLease
<1> QED
  BY <1>2, <1>3, <1>4, <1>5, <1>6, <1>8, FreesKeeps

\* The respawn timer fires.
LEMMA TimerKeeps ==
  ASSUME IInv, RespawnTimer
  PROVE  IInv' /\ LeaseStep
<1>1. sup \in Supervisors /\ SupOK /\ StartsOK /\ NoOrphanLease
  BY DEF IInv, TypeOK, Supervisors
<1>2. /\ sup.respawn = "timer" /\ sup' = [sup EXCEPT !.respawn = "due"]
      /\ UNCHANGED <<bridge, worker, up, down, lease, session, history, budget>>
  BY DEF RespawnTimer
<1>3. /\ sup' \in Supervisors /\ sup'.gen = sup.gen /\ sup'.terminating = sup.terminating
      /\ sup'.respawn = "due" /\ sup'.closed = sup.closed /\ sup'.closing = sup.closing
  BY <1>1, <1>2 DEF Supervisors
<1>4. SupOK' /\ StartsOK' /\ NoOrphanLease'
  BY <1>1, <1>2, <1>3 DEF SupOK, StartsOK, NoOrphanLease
<1> QED
  BY <1>2, <1>3, <1>4, SupervisorKeeps

\* The next worker is the first that has not started.
LEMMA NextGenFacts ==
  ASSUME TypeOK, StartsOK, sup.respawn # "none"
  PROVE  /\ NextGen \in Gens /\ worker[NextGen].thread = "none"
         /\ \A h \in Gens : worker[h].thread # "none" <=> h < NextGen
<1>1. PICK n \in Gens : \A h \in Gens : worker[h].thread # "none" <=> h <= n
  BY DEF StartsOK
<1>2. worker[MaxGens].thread = "none" /\ MaxGens \in Gens /\ MaxGens \in Nat
  BY GensFacts, WorkerAssumption DEF StartsOK
<1>3. n \in Nat /\ n < MaxGens /\ n + 1 \in Gens
  BY <1>1, <1>2 DEF Gens
<1> DEFINE First(g) == /\ worker[g].thread = "none"
                       /\ \A h \in 1..(g - 1) : worker[h].thread # "none"
<1>4. First(n + 1)
  <2>1. worker[n + 1].thread = "none"
    BY <1>1, <1>3
  <2>2. ASSUME NEW h \in 1..((n + 1) - 1) PROVE worker[h].thread # "none"
    <3>1. h \in Gens /\ h <= n
      BY <1>2, <1>3 DEF Gens
    <3> QED
      BY <1>1, <3>1
  <2> QED
    BY <2>1, <2>2
<1>5. NextGen = CHOOSE g \in Gens : First(g)
  BY DEF NextGen
<1>6. NextGen \in Gens /\ First(NextGen)
  BY <1>3, <1>4, <1>5
<1> QED
  BY <1>1, <1>3, <1>6 DEF Gens

\* A worker starts, once the failed one is torn down.
LEMMA SpawnKeeps ==
  ASSUME IInv, Spawn
  PROVE  IInv' /\ LeaseStep
<1>1. /\ sup \in Supervisors /\ SupOK /\ StartsOK /\ NoOrphanLease /\ TypeOK
      /\ bridge \in [Gens -> [open : BOOLEAN, serving : BOOLEAN, lock : BOOLEAN]]
      /\ worker \in [Gens -> WorkerStates]
  BY DEF IInv, TypeOK, Supervisors
<1>2. sup.respawn = "due" /\ sup.terminating = None /\ sup.closed = "open"
  BY DEF Spawn
<1>3. PICK g \in Gens :
        /\ g = NextGen /\ worker[g].thread = "none"
        /\ \A h \in Gens : worker[h].thread # "none" <=> h < g
  BY <1>2, <1>1, NextGenFacts
<1>4. /\ sup' = [sup EXCEPT !.gen = g, !.respawn = "none"]
      /\ bridge' = [bridge EXCEPT ![g].open = TRUE]
      /\ worker' = [worker EXCEPT ![g].thread = "running"]
      /\ UNCHANGED <<up, down, lease, session, history, budget>>
  BY <1>3 DEF Spawn, StartWorker
<1>5. sup.gen = None /\ sup.closing = None
  BY <1>2, <1>1 DEF SupOK
<1>6. /\ sup' \in Supervisors /\ sup'.gen = g /\ sup'.terminating = None
      /\ sup'.respawn = "none" /\ sup'.closed = "open" /\ sup'.closing = None
  BY <1>2, <1>1, <1>4, <1>3, <1>5 DEF Supervisors
<1>7. /\ bridge' \in [Gens -> [open : BOOLEAN, serving : BOOLEAN, lock : BOOLEAN]]
      /\ bridge'[g].open = TRUE
      /\ \A h \in Gens \ {g} : bridge'[h].open = bridge[h].open
  BY <1>1, <1>4, <1>3
<1> DEFINE v == [worker[g] EXCEPT !.thread = "running"]
<1>8. Port(g, v, up[g], down[g], TRUE, lease, history.grants[g], sup.closing)
  <2>1. Port(g, worker[g], up[g], down[g], bridge[g].open, lease, history.grants[g],
             sup.closing)
    BY <1>3 DEF IInv, PortOf
  <2> QED
    BY <1>3, <2>1, Started
<1>9. /\ v \in WorkerStates /\ v.deciding \cup v.sent \subseteq 1..v.cycle
      /\ v.thread = "running"
  <2>1. v \in WorkerStates /\ v.deciding \cup v.sent \subseteq 1..v.cycle
    BY <1>8 DEF Port, Typed
  <2> QED
    BY <1>1, <1>3, <2>1 DEF WorkerStates
<1>10. /\ worker' = [worker EXCEPT ![g] = v]
  BY <1>4
<1>11. /\ worker' \in [Gens -> WorkerStates] /\ worker'[g] = v
       /\ \A h \in Gens \ {g} : worker'[h] = worker[h]
  BY <1>1, <1>3, <1>9, <1>10
<1> HIDE DEF v
<1>12. TypeOK'
  <2>1. \A h \in Gens : worker'[h].deciding \cup worker'[h].sent \subseteq 1..worker'[h].cycle
    BY <1>1, <1>9, <1>11 DEF TypeOK
  <2> QED
    BY <1>1, <1>4, <1>6, <1>7, <1>11, <2>1 DEF TypeOK, Supervisors
<1>13. SupOK'
  <2>1. \A h \in Gens : bridge'[h].open => h = g
    BY <1>1, <1>5, <1>7, GensFacts DEF SupOK
  <2> QED
    BY <1>6, <2>1 DEF SupOK
<1>14. StartsOK'
  <2>1. \A h \in Gens : worker'[h].thread # "none" <=> h <= g
    BY <1>3, <1>9, <1>11 DEF Gens
  <2> QED
    BY <1>3, <1>6, <2>1 DEF StartsOK
<1>15. EndedOK' /\ NoOrphanLease'
  <2>1. lease = None
    BY <1>2, <1>1, <1>5 DEF NoOrphanLease
  <2> QED
    BY <1>4, <2>1 DEF IInv, EndedOK, NoOrphanLease
<1>16. PortOf(g)'
  BY <1>4, <1>5, <1>6, <1>7, <1>8, <1>11 DEF PortOf
<1>17. ASSUME NEW h \in Gens, h # g PROVE PortOf(h)'
  <2>1. PortOf(h)
    BY DEF IInv
  <2> QED
    BY <1>4, <1>5, <1>6, <1>7, <1>11, <1>17, <2>1 DEF PortOf
<1>18. LeaseStep
  BY <1>4, LeaseIdle
<1> QED
  BY <1>12, <1>13, <1>14, <1>15, <1>16, <1>17, <1>18 DEF IInv

\* The supervisor starts to close.
LEMMA CloseKeeps ==
  ASSUME IInv, Close
  PROVE  IInv' /\ LeaseStep
<1>1. sup \in Supervisors /\ SupOK /\ StartsOK /\ NoOrphanLease
  BY DEF IInv, TypeOK, Supervisors
<1>2. /\ sup.closed = "open"
      /\ sup' = [sup EXCEPT !.closed = "waiting", !.closing = sup.gen, !.gen = None,
                            !.respawn = "none"]
      /\ UNCHANGED <<bridge, worker, up, down, lease, session, history, budget>>
  BY DEF Close
<1>3. /\ sup' \in Supervisors /\ sup'.gen = None /\ sup'.terminating = sup.terminating
      /\ sup'.respawn = "none" /\ sup'.closed = "waiting" /\ sup'.closing = sup.gen
  BY <1>1, <1>2 DEF Supervisors
<1>4. sup.closing = None
  BY <1>1, <1>2 DEF SupOK
<1>5. SupOK'
  BY <1>1, <1>2, <1>3, <1>4, GensFacts DEF SupOK
<1>6. StartsOK' /\ NoOrphanLease'
  BY <1>1, <1>2, <1>3, <1>4 DEF StartsOK, NoOrphanLease
<1>7. TypeOK' /\ EndedOK'
  BY <1>2, <1>3 DEF IInv, TypeOK, Supervisors, EndedOK
<1>8. ASSUME NEW h \in Gens PROVE PortOf(h)'
  <2>1. Port(h, worker[h], up[h], down[h], bridge[h].open, lease, history.grants[h],
             sup.closing)
    BY DEF IInv, PortOf
  <2>2. sup.closing # h
    BY <1>4, GensFacts
  <2>3. Port(h, worker[h], up[h], down[h], bridge[h].open, lease, history.grants[h],
             sup'.closing)
    BY <2>1, <2>2, ClosingChosen
  <2> QED
    BY <1>2, <2>3 DEF PortOf
<1> QED
  BY <1>2, <1>5, <1>6, <1>7, <1>8, LeaseIdle DEF IInv

\* Close asks the worker that serves to close its host, and cuts off another.
LEMMA CloseHostKeeps ==
  ASSUME IInv, CloseHost
  PROVE  IInv' /\ LeaseStep
<1> DEFINE g == sup.closing
<1>1. /\ sup \in Supervisors /\ SupOK /\ StartsOK /\ NoOrphanLease /\ TypeOK
      /\ bridge \in [Gens -> [open : BOOLEAN, serving : BOOLEAN, lock : BOOLEAN]]
  BY DEF IInv, TypeOK, Supervisors
<1>2. /\ sup.closed = "waiting" /\ sup.terminating = None
      /\ UNCHANGED <<worker, lease, session, history, budget>>
  BY DEF CloseHost
<1>3. sup.gen = None
  BY <1>1, <1>2 DEF SupOK
<1>4. ASSUME NEW k \in {"done", "closingHost", "failed"}, sup' = [sup EXCEPT !.closed = k]
      PROVE  /\ sup' \in Supervisors /\ sup'.gen = None /\ sup'.terminating = None
             /\ sup'.respawn = sup.respawn /\ sup'.closed = k /\ sup'.closing = g
             /\ StartsOK'
  <2>1. /\ sup' \in Supervisors /\ sup'.gen = None /\ sup'.terminating = None
        /\ sup'.respawn = sup.respawn /\ sup'.closed = k /\ sup'.closing = g
    BY <1>1, <1>2, <1>3, <1>4 DEF Supervisors
  <2> QED
    BY <1>1, <1>2, <2>1 DEF StartsOK
<1>5. CASE g = None
  <2>1. sup' = [sup EXCEPT !.closed = "done"] /\ UNCHANGED <<bridge, up, down>>
    BY <1>5 DEF CloseHost
  <2>2. SupOK' /\ NoOrphanLease'
    BY <1>1, <1>2, <1>3, <1>4, <1>5, <2>1, GensFacts DEF SupOK, NoOrphanLease
  <2> QED
    BY <1>2, <1>4, <2>1, <2>2, SupervisorKeeps
<1>6. CASE g # None /\ bridge[g].open /\ bridge[g].serving
  <2>1. g \in Gens
    BY <1>1, <1>6 DEF Supervisors
  <2>2. /\ sup' = [sup EXCEPT !.closed = "closingHost"] /\ UNCHANGED <<bridge, up>>
        /\ down' = [down EXCEPT ![g] = Append(down[g], Msg("close"))]
    BY <1>1, <1>6, <2>1 DEF CloseHost, Answered, TypeOK
  <2>3. SupOK' /\ NoOrphanLease'
    BY <1>1, <1>2, <1>3, <1>4, <1>6, <2>2, GensFacts DEF SupOK, NoOrphanLease
  <2>4. Port(g, worker[g], up[g], down[g], bridge[g].open, lease, history.grants[g], g)
    BY <2>1 DEF IInv, PortOf
  <2>5. worker[g].thread # "none"
    BY <1>6, <2>4 DEF Port, Fresh
  <2>6. /\ Msg("close") \in Messages /\ Msg("close").kind = "close" /\ Msg("close") # Granted
        /\ "close" \notin Replies /\ Heard(Msg("close"), g, worker[g], bridge[g].open, lease, g)
    BY PlainMessage DEF Heard, Granted, Replies
  <2>7. Port(g, worker[g], up[g], Append(down[g], Msg("close")), bridge[g].open, lease,
             history.grants[g], g)
    BY <2>1, <2>4, <2>5, <2>6, PostedDown
  <2>8. down \in [Gens -> Seq(Messages)] /\ Append(down[g], Msg("close")) \in Seq(Messages)
    BY <1>1, <2>7 DEF TypeOK, Port, Typed
  <2>9. /\ down' \in [Gens -> Seq(Messages)] /\ down'[g] = Append(down[g], Msg("close"))
        /\ \A h \in Gens \ {g} : down'[h] = down[h]
    BY <2>1, <2>2, <2>8
  <2>10. TypeOK' /\ EndedOK'
    BY <1>2, <1>4, <2>2, <2>9 DEF IInv, TypeOK, Supervisors, EndedOK
  <2>11. ASSUME NEW h \in Gens PROVE PortOf(h)'
    <3>1. CASE h = g
      BY <1>2, <1>4, <2>2, <2>7, <2>9, <3>1 DEF PortOf
    <3>2. CASE h # g
      BY <1>2, <1>4, <2>2, <2>9, <3>2 DEF PortOf, IInv
    <3> QED
      BY <3>1, <3>2
  <2> QED
    BY <1>2, <1>4, <2>2, <2>3, <2>10, <2>11, LeaseIdle DEF IInv
<1>7. CASE g # None /\ ~ (bridge[g].open /\ bridge[g].serving)
  <2>1. g \in Gens
    BY <1>1, <1>7 DEF Supervisors
  <2>2. /\ sup' = [sup EXCEPT !.closed = "failed"] /\ UNCHANGED down
        /\ bridge' = [bridge EXCEPT ![g].open = FALSE]
        /\ up' = [up EXCEPT ![g] = <<>>]
    BY <1>7 DEF CloseHost
  <2>3. /\ bridge' \in [Gens -> [open : BOOLEAN, serving : BOOLEAN, lock : BOOLEAN]]
        /\ bridge'[g].open = FALSE
        /\ \A h \in Gens \ {g} : bridge'[h].open = bridge[h].open
    BY <1>1, <2>1, <2>2
  <2>4. <<>> \in Seq(Messages)
    OBVIOUS
  <2>5. BridgeStops(g)
    BY <1>2, <1>4, <2>2, <2>3, <2>4 DEF BridgeStops
  <2>6. TypeOK' /\ EndedOK' /\ LeaseStep /\ \A h \in Gens : PortOf(h)'
    BY <1>4, <2>1, <2>2, <2>5, BridgeStopsPorts DEF Supervisors
  <2>7. \A h \in Gens : ~ bridge'[h].open
    BY <1>1, <1>3, <2>3, GensFacts DEF SupOK
  <2>8. SupOK' /\ NoOrphanLease'
    BY <1>1, <1>2, <1>3, <1>4, <1>7, <2>2, <2>7 DEF SupOK, NoOrphanLease
  <2> QED
    BY <1>4, <2>2, <2>6, <2>8 DEF IInv
<1> QED
  BY <1>5, <1>6, <1>7

\* The worker close took over is torn down.
LEMMA FinishCloseKeeps ==
  ASSUME IInv, FinishClose
  PROVE  IInv' /\ LeaseStep
<1> DEFINE g == sup.closing
<1>1. sup \in Supervisors /\ SupOK /\ StartsOK /\ NoOrphanLease
  BY DEF IInv, TypeOK, Supervisors
<1>2. /\ sup.closed \in {"hostClosed", "failed"}
      /\ sup' = [sup EXCEPT !.closed = "done"]
      /\ UNCHANGED <<bridge, worker, up, down, session, budget>>
  BY DEF FinishClose
<1>3. /\ g \in Gens /\ sup.gen = None /\ sup.terminating = None
      /\ \A h \in Gens : ~ bridge[h].open
  BY <1>1, <1>2, GensFacts DEF Supervisors, SupOK
<1>4. /\ sup' \in Supervisors /\ sup'.gen = sup.gen /\ sup'.terminating = sup.terminating
      /\ sup'.respawn = sup.respawn /\ sup'.closed = "done" /\ sup'.closing = sup.closing
  BY <1>1, <1>2 DEF Supervisors
<1>5. SupOK' /\ StartsOK'
  BY <1>1, <1>2, <1>3, <1>4 DEF SupOK, StartsOK
<1>6. lease = None \/ lease = g
  BY <1>1, <1>3 DEF NoOrphanLease
<1>7. CASE sup.closed = "failed"
  <2>1. FreeLease(g)
    BY <1>7 DEF FinishClose
  <2>2. lease' = None
    BY <1>6, <2>1 DEF FreeLease
  <2>3. NoOrphanLease'
    BY <2>2 DEF NoOrphanLease
  <2> QED
    BY <1>2, <1>3, <1>4, <1>5, <2>1, <2>3, FreesKeeps
<1>8. CASE sup.closed = "hostClosed"
  <2>1. UNCHANGED <<lease, history>>
    BY <1>8 DEF FinishClose
  <2>2. worker[g].at = "closed"
    BY <1>1, <1>8 DEF SupOK
  <2>3. lease # g
    BY <1>3, <2>2 DEF IInv, PortOf, Port, Standing, Idle
  <2>4. NoOrphanLease'
    BY <1>6, <2>1, <2>3 DEF NoOrphanLease
  <2> QED
    BY <1>2, <1>4, <1>5, <2>1, <2>4, SupervisorKeeps
<1> QED
  BY <1>2, <1>7, <1>8

-----------------------------------------------------------------------------
(* The theorems                                                            *)

\* The first worker has just been started and nothing has been said.
LEMMA InitKeeps ==
  ASSUME Init
  PROVE  IInv /\ Lease!Init
<1>1. 1 \in Gens /\ None \notin Gens /\ MaxGens \in Gens
  BY WorkerAssumption DEF Gens, None
<1>2. Unborn \in WorkerStates /\ [Unborn EXCEPT !.thread = "running"] \in WorkerStates
  <2>1. 0 \in 0..MaxTenures
    BY WorkerAssumption
  <2>2. Unborn \in WorkerStates
    BY <2>1 DEF Unborn, WorkerStates, Phases
  <2> QED
    BY <2>2 DEF WorkerStates
<1>3. \A g \in Gens : worker[g] = IF g = 1 THEN [Unborn EXCEPT !.thread = "running"] ELSE Unborn
  BY DEF Init
<1>4. \A g \in Gens :
        /\ worker[g].thread = IF g = 1 THEN "running" ELSE "none"
        /\ worker[g].at = "loading" /\ ~ worker[g].closing /\ ~ worker[g].held
        /\ worker[g].cycle = 0 /\ worker[g].deciding = {} /\ worker[g].sent = {}
        /\ up[g] = <<>> /\ down[g] = <<>> /\ bridge[g].open = (g = 1)
        /\ history.grants[g] = 0
        /\ worker[g] \in WorkerStates
  BY <1>2, <1>3 DEF Init, Unborn
<1>5. lease = None /\ history.ended = {}
  BY DEF Init
<1>6. TypeOK
  <2>1. up \in [Gens -> Seq(Messages)] /\ down \in [Gens -> Seq(Messages)]
    BY DEF Init
  <2>2. worker \in [Gens -> WorkerStates]
    BY <1>2 DEF Init
  <2>3. \A g \in Gens : worker[g].deciding \cup worker[g].sent \subseteq 1..worker[g].cycle
    BY <1>4
  <2>4. bridge \in [Gens -> [open : BOOLEAN, serving : BOOLEAN, lock : BOOLEAN]]
    BY DEF Init
  <2>5. history \in Histories
    BY DEF Init, Histories, None
  <2>6. budget \in Budgets
    BY WorkerAssumption DEF Init, Budgets
  <2>7. sup \in Supervisors
    BY <1>1 DEF Init, Supervisors
  <2> QED
    BY <2>1, <2>2, <2>3, <2>4, <2>5, <2>6, <2>7
    DEF Init, TypeOK, Histories, Budgets, Supervisors
<1>7. SupOK
  BY <1>1, <1>4 DEF Init, SupOK, None
<1>8. StartsOK
  <2>1. \A h \in Gens : worker[h].thread # "none" <=> h <= 1
    BY <1>4 DEF Gens
  <2>2. sup.gen = 1 /\ sup.respawn = "none"
    BY DEF Init
  <2> QED
    BY <1>1, <2>1, <2>2 DEF StartsOK
<1>9. EndedOK /\ NoOrphanLease
  BY <1>5 DEF EndedOK, NoOrphanLease
<1>10. ASSUME NEW g \in Gens PROVE PortOf(g)
  <2> DEFINE w == worker[g]
  <2>1. Typed(w, up[g], down[g], bridge[g].open, history.grants[g])
    BY <1>4, <1>6, Shape DEF Typed, TypeOK
  <2>2. Standing(g, w, bridge[g].open, lease, sup.closing)
    BY <1>1, <1>4, <1>5 DEF Standing
  <2>3. /\ UpOK(g, w, up[g], lease) /\ NoRequest(up[g])
        /\ DownOK(g, w, down[g], bridge[g].open, lease, sup.closing)
        /\ Counted(w, down[g], history.grants[g])
    BY <1>4 DEF UpOK, NoRequest, DownOK, Counted
  <2>4. Fresh(w, up[g], down[g], bridge[g].open)
    BY <1>3, <1>4 DEF Fresh
  <2> QED
    BY <2>1, <2>2, <2>3, <2>4 DEF PortOf, Port
<1>11. Lease!Init
  BY DEF Init, Lease!Init, Owner
<1> QED
  BY <1>6, <1>7, <1>8, <1>9, <1>10, <1>11 DEF IInv

\* Every step keeps the invariant, and is a step the lease's promise allows.
LEMMA NextKeeps ==
  ASSUME IInv, [Next]_vars
  PROVE  IInv' /\ LeaseStep
<1>1. CASE UNCHANGED vars
  <2>1. /\ UNCHANGED <<sup, bridge, worker, up, down, lease, session, history, budget>>
        /\ sup \in Supervisors
    BY <1>1 DEF vars, IInv, TypeOK, Supervisors
  <2>2. SupOK' /\ StartsOK' /\ NoOrphanLease'
    BY <2>1 DEF IInv, SupOK, StartsOK, NoOrphanLease
  <2> QED
    BY <2>1, <2>2, SupervisorKeeps
<1>2. ASSUME NEW g \in Gens, Local(g) PROVE IInv' /\ LeaseStep
  BY <1>2, LocalKeeps, LeaseIdle DEF Local
<1>3. ASSUME NEW g \in Gens,
             \/ WorkerStep(g) \/ Crash(g) \/ Stall(g) \/ Resume(g) \/ ThreadEnds(g)
      PROVE  IInv' /\ LeaseStep
  <2>1. TypeOK /\ PortOf(g)
    BY DEF IInv
  <2>2. Local(g)
    BY <1>3, <2>1, AskingLocal, TenureLocal, ReceivesLocal, ThreadLocal DEF WorkerStep
  <2> QED
    BY <1>2, <2>2
<1>4. ASSUME NEW g \in Gens, ReportError(g) \/ WatchdogKills(g)
      PROVE  IInv' /\ LeaseStep
  BY <1>4, FailsKeeps DEF ReportError, WatchdogKills
<1> QED
  BY <1>1, <1>3, <1>4, BridgeKeeps, SessionKeeps, CloseKeeps, TeardownKeeps, TimerKeeps,
     SpawnKeeps, CloseHostKeeps, FinishCloseKeeps
  DEF Next, Supervise

\* The inductive invariant holds throughout.
THEOREM Invariance == Spec => []IInv
<1>1. Init => IInv
  BY InitKeeps
<1>2. IInv /\ [Next]_vars => IInv'
  BY NextKeeps
<1> QED
  BY <1>1, <1>2, PTL DEF Spec

\* Every variable keeps its shape: the port carries only messages of the
\* protocol, and a worker has waves in flight only under tenures it has had.
THEOREM TypeCorrect == Spec => []TypeOK
<1>1. IInv => TypeOK
  BY DEF IInv
<1> QED
  BY <1>1, Invariance, PTL

\* No lease outlives its worker's teardown, however many workers fail, stall
\* and come back, and whatever is on its way between the threads.
THEOREM NoLeaseOrphaned == Spec => []NoOrphanLease
<1>1. IInv => NoOrphanLease
  BY DEF IInv
<1> QED
  BY <1>1, Invariance, PTL

\* The worker, its port and its supervisor implement the lease's promise:
\* tenures neither overlap nor resume, and a wave lands only within the tenure
\* that sealed it.
THEOREM LeaseImplemented == Spec => LeaseKept
<1>1. Init => Lease!Init
  BY InitKeeps
<1>2. IInv /\ [Next]_vars => [Lease!Next]_(Lease!leaseVars)
  BY NextKeeps DEF LeaseStep, Lease!leaseVars
<1> QED
  BY <1>1, <1>2, Invariance, PTL DEF Spec, LeaseKept, Lease!Spec

=============================================================================
