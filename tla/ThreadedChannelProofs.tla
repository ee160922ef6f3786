------------------------ MODULE ThreadedChannelProofs ------------------------
(***************************************************************************)
(* Proofs about the threaded channel, for every capacity, every number of  *)
(* messages, endpoints and restarts, and every interleaving of its threads *)
(* with the network.                                                       *)
(***************************************************************************)
EXTENDS ThreadedChannel, FiniteSetTheorems, FunctionTheorems, SequenceTheorems,
        TLAPS

-----------------------------------------------------------------------------
(***************************************************************************)
(* The queue.                                                              *)
(***************************************************************************)
LEMMA QueueItems ==
  ASSUME NEW q \in Queue(Nat), NEW r \in Seq(Nat),
         NEW p, p = [q EXCEPT !.items = r]
  PROVE  p \in Queue(Nat) /\ p.items = r /\ p.dropped = q.dropped
  BY DEF Queue

LEMMA QueueCounted ==
  ASSUME NEW q \in Queue(Nat), NEW r \in Seq(Nat), NEW n \in Nat,
         NEW p, p = [q EXCEPT !.items = r, !.dropped = n]
  PROVE  p \in Queue(Nat) /\ p.items = r /\ p.dropped = n
  BY DEF Queue

\* A queue that holds r, the items of q and of v.
Pushed(q, v, r) ==
    /\ r \in Seq(Nat) /\ Len(r) =< Capacity
    /\ \A i \in DOMAIN r : r[i] = v \/ \E j \in DOMAIN q.items : r[i] = q.items[j]

LEMMA PushEffect ==
  ASSUME NEW q \in Queue(Nat), Len(q.items) =< Capacity, NEW v \in Nat
  PROVE  /\ push(q, v) \in Queue(Nat)
         /\ Len(push(q, v).items) + push(q, v).dropped
              = Len(q.items) + q.dropped + 1
         /\ Pushed(q, v, push(q, v).items)
<1> USE CapacityAssumption
<1>1. /\ q.items \in Seq(Nat) /\ q.dropped \in Nat /\ q.closed \in BOOLEAN
      /\ Len(q.items) \in Nat /\ DOMAIN q.items = 1 .. Len(q.items)
  BY DEF Queue
<1>2. CASE Len(q.items) >= Capacity
  <2> DEFINE t == Tail(q.items)
             r == Append(t, v)
             n == q.dropped + 1
  <2>1. q.items # <<>>
    BY <1>1, <1>2
  <2>2. /\ t \in Seq(Nat) /\ Len(t) = Len(q.items) - 1
        /\ \A i \in 1 .. Len(t) : t[i] = q.items[i + 1]
    BY <1>1, <2>1
  <2> HIDE DEF t
  <2>3. /\ r \in Seq(Nat) /\ Len(r) = Len(q.items) /\ DOMAIN r = 1 .. Len(q.items)
        /\ r[Len(q.items)] = v
        /\ \A i \in 1 .. Len(q.items) - 1 : r[i] = q.items[i + 1]
    BY <1>1, <2>2
  <2> HIDE DEF r
  <2>4. n \in Nat
    BY <1>1
  <2>5. push(q, v) = [q EXCEPT !.items = r, !.dropped = n]
    BY <1>2 DEF push, r, t
  <2> HIDE DEF n
  <2>6. push(q, v).items = r /\ push(q, v).dropped = n /\ push(q, v) \in Queue(Nat)
    BY <2>3, <2>4, <2>5 DEF Queue
  <2>7. ASSUME NEW i \in DOMAIN r, r[i] # v
        PROVE  i + 1 \in DOMAIN q.items /\ r[i] = q.items[i + 1]
    BY <1>1, <2>3, <2>7
  <2>8. Pushed(q, v, r)
    BY <1>1, <2>3, <2>7 DEF Pushed
  <2> QED BY <1>1, <2>3, <2>6, <2>8 DEF n
<1>3. CASE Len(q.items) < Capacity
  <2> DEFINE t == q.items
             r == Append(t, v)
             n == Len(t)
  <2>1. t \in Seq(Nat) /\ n \in Nat /\ DOMAIN t = 1 .. n /\ n < Capacity
    BY <1>1, <1>3
  <2> HIDE DEF t
  <2>2. /\ r \in Seq(Nat) /\ Len(r) = n + 1 /\ DOMAIN r = 1 .. n + 1
        /\ r[n + 1] = v /\ \A i \in 1 .. n : r[i] = t[i]
    BY <2>1
  <2> HIDE DEF r, n
  <2>3. push(q, v) = [q EXCEPT !.items = r]
    BY <1>1, <1>3 DEF push, r, t
  <2>4. /\ push(q, v).items = r /\ push(q, v).dropped = q.dropped
        /\ push(q, v) \in Queue(Nat)
    BY <2>2, <2>3, QueueItems
  <2>5. \A i \in DOMAIN r : r[i] = v \/ (i \in DOMAIN t /\ r[i] = t[i])
    BY <2>1, <2>2
  <2>6. Pushed(q, v, r)
    BY <2>1, <2>2, <2>5 DEF Pushed, t
  <2>7. Len(push(q, v).items) + push(q, v).dropped = Len(q.items) + q.dropped + 1
    <3>1. Len(push(q, v).items) = Len(q.items) + 1
      BY <2>2, <2>4 DEF n, t
    <3> DEFINE a == Len(push(q, v).items)
               b == Len(q.items)
               c == push(q, v).dropped
               d == q.dropped
    <3>2. a = b + 1 /\ c = d /\ b \in Nat /\ d \in Nat
      BY <1>1, <2>4, <3>1
    <3> HIDE DEF a, b, c, d
    <3>3. a + c = b + d + 1
      BY <3>2
    <3> QED BY <3>3 DEF a, b, c, d
  <2> QED BY <2>4, <2>6, <2>7
<1> QED BY <1>1, <1>2, <1>3

LEMMA DrainedEffect ==
  ASSUME NEW q \in Queue(Nat)
  PROVE  /\ drained(q) \in Queue(Nat) /\ drained(q).items = <<>>
         /\ drained(q).dropped = q.dropped
         /\ close(q) \in Queue(Nat) /\ close(q).items = q.items
         /\ close(q).dropped = q.dropped
<1>1. <<>> \in Seq(Nat)
  OBVIOUS
<1>2. /\ drained(q) \in Queue(Nat) /\ drained(q).items = <<>>
      /\ drained(q).dropped = q.dropped
  BY <1>1, QueueItems DEF drained
<1> QED BY <1>2 DEF Queue, close

\* The messages that went into a queue and not out of it again.
held(q) == Len(q.items) + q.dropped

LEMMA HeldEffect ==
  ASSUME NEW q \in Queue(Nat)
  PROVE  /\ held(q) \in Nat /\ Len(q.items) \in Nat /\ q.items \in Seq(Nat)
         /\ held(q) = held(drained(q)) + Len(q.items)
         /\ held(drained(q)) \in Nat
         /\ held(close(q)) = held(q)
<1>1. /\ Len(q.items) \in Nat /\ q.dropped \in Nat /\ Len(<<>>) = 0
      /\ q.items \in Seq(Nat)
  BY DEF Queue
<1>2. held(drained(q)) = q.dropped /\ held(close(q)) = held(q)
  BY <1>1, DrainedEffect DEF held
<1> QED BY <1>1, <1>2 DEF held

LEMMA HeldPush ==
  ASSUME NEW q \in Queue(Nat), Len(q.items) =< Capacity, NEW v \in Nat
  PROVE  /\ push(q, v) \in Queue(Nat) /\ Len(push(q, v).items) =< Capacity
         /\ held(push(q, v)) = held(q) + 1
<1>1. Len(q.items) \in Nat /\ q.dropped \in Nat
  BY DEF Queue
<1> QED BY <1>1, PushEffect DEF held, Pushed

-----------------------------------------------------------------------------
(***************************************************************************)
(* Counting the datagrams that hold a message.                             *)
(***************************************************************************)
Datagram == [messages : {<<>>}, from : Endpoints \cup {Self}]
            \cup [messages : {<<n>> : n \in Nat}, from : Endpoints]

LEMMA SpokenFinite ==
  ASSUME NEW s \in Seq(Datagram)
  PROVE  IsFiniteSet(spoken(s)) /\ Cardinality(spoken(s)) \in Nat
<1>1. IsFiniteSet(1 .. Len(s))
  BY FS_Interval
<1>2. spoken(s) \subseteq 1 .. Len(s)
  BY DEF spoken
<1> QED BY <1>1, <1>2, FS_Subset, FS_CardinalityType

LEMMA SpokenAppend ==
  ASSUME NEW s \in Seq(Datagram), NEW d \in Datagram
  PROVE  /\ Append(s, d) \in Seq(Datagram)
         /\ Cardinality(spoken(Append(s, d))) =
              Cardinality(spoken(s)) + (IF d.messages # <<>> THEN 1 ELSE 0)
<1> DEFINE r == Append(s, d)
           n == Len(s) + 1
<1>1. /\ r \in Seq(Datagram) /\ DOMAIN r = 1 .. n /\ DOMAIN s = 1 .. n - 1
      /\ n \in Nat \ {0} /\ r[n] = d /\ \A i \in 1 .. n - 1 : r[i] = s[i]
  OBVIOUS
<1> HIDE DEF r, n
<1>2. CASE d.messages # <<>>
  <2>1. spoken(r) = spoken(s) \cup {n}
    BY <1>1, <1>2 DEF spoken
  <2>2. n \notin spoken(s)
    BY <1>1 DEF spoken
  <2> QED BY <1>1, <1>2, <2>1, <2>2, SpokenFinite, FS_AddElement DEF r
<1>3. CASE d.messages = <<>>
  <2>1. spoken(r) = spoken(s)
    BY <1>1, <1>3 DEF spoken
  <2> QED BY <1>1, <1>3, <2>1, SpokenFinite DEF r
<1> QED BY <1>2, <1>3

LEMMA SpokenTail ==
  ASSUME NEW s \in Seq(Datagram), s # <<>>
  PROVE  /\ Tail(s) \in Seq(Datagram) /\ Head(s) \in Datagram
         /\ Cardinality(spoken(s)) = Cardinality(spoken(Tail(s)))
              + (IF Head(s).messages # <<>> THEN 1 ELSE 0)
<1> DEFINE r == Tail(s)
           T == spoken(s) \ {1}
           f == [i \in spoken(r) |-> i + 1]
<1>1. /\ r \in Seq(Datagram) /\ Len(s) \in Nat \ {0} /\ DOMAIN s = 1 .. Len(s)
      /\ DOMAIN r = 1 .. Len(s) - 1 /\ \A i \in DOMAIN r : r[i] = s[i + 1]
      /\ Head(s) = s[1] /\ s[1] \in Datagram
  OBVIOUS
<1> HIDE DEF r
<1>2. IsFiniteSet(spoken(s)) /\ IsFiniteSet(spoken(r))
      /\ Cardinality(spoken(s)) \in Nat /\ Cardinality(spoken(r)) \in Nat
  BY <1>1, SpokenFinite
<1>3. Cardinality(T) = Cardinality(spoken(r))
  <2>1. f \in [spoken(r) -> T]
    BY <1>1 DEF spoken
  <2>2. \A i, j \in spoken(r) : f[i] = f[j] => i = j
    BY <1>1 DEF spoken
  <2>3. \A t \in T : \E i \in spoken(r) : f[i] = t
    <3> SUFFICES ASSUME NEW t \in T PROVE t - 1 \in spoken(r) /\ f[t - 1] = t
      OBVIOUS
    <3>1. t \in 2 .. Len(s) /\ s[t].messages # <<>>
      BY <1>1 DEF spoken
    <3>2. t - 1 \in DOMAIN r /\ r[t - 1] = s[(t - 1) + 1] /\ (t - 1) + 1 = t
      BY <1>1, <3>1
    <3>3. t - 1 \in spoken(r)
      BY <3>1, <3>2 DEF spoken
    <3> QED BY <3>2, <3>3
  <2>4. f \in Bijection(spoken(r), T)
    BY <2>1, <2>2, <2>3, Fun_IsBij
  <2> QED BY <1>2, <2>4, FS_Bijection DEF ExistsBijection
<1>4. 1 \in spoken(s) <=> Head(s).messages # <<>>
  BY <1>1 DEF spoken
<1>5. Cardinality(T) = IF 1 \in spoken(s) THEN Cardinality(spoken(s)) - 1
                                          ELSE Cardinality(spoken(s))
  BY <1>2, FS_RemoveElement
<1>6. Cardinality(spoken(s)) = Cardinality(spoken(r))
        + (IF Head(s).messages # <<>> THEN 1 ELSE 0)
  BY <1>2, <1>3, <1>4, <1>5
<1> QED BY <1>1, <1>6 DEF r

-----------------------------------------------------------------------------
(***************************************************************************)
(* The inductive invariant.  Outwards: every message sent is accounted for *)
(* and nothing is out of the queue but while the worker transmits it.      *)
(* Inwards: likewise, and only what holds a message comes from a peer.     *)
(***************************************************************************)
AppPoints == {"idle", "shutdown", "close", "join"}

WorkerPoints == {"none", "test", "receive", "wait", "store", "drain", "transmit",
                 "drainLast", "transmitLast", "exited"}

Control ==
    /\ app \in AppPoints /\ worker \in WorkerPoints
    /\ running \in BOOLEAN /\ shutting_down \in BOOLEAN
    /\ running => /\ app = "idle"
                  /\ worker \notin {"none", "drainLast", "transmitLast", "exited"}
    /\ ~running /\ app = "idle" => worker = "none"
    /\ app # "idle" => worker # "none"
    /\ app \in {"close", "join"} => shutting_down

LEMMA ControlInductive == Control /\ [Next]_vars => Control'
<1> SUFFICES ASSUME Control, [Next]_vars PROVE Control'
  OBVIOUS
<1> USE DEF Control, AppPoints, WorkerPoints
<1>1. CASE Start \/ Stop
  BY <1>1 DEF Start, Stop
<1>8. CASE Shutdown
  <2>1. /\ app = "shutdown" /\ app' = "close" /\ shutting_down' = TRUE
        /\ running' = running /\ worker' = worker
    BY <1>8 DEF Shutdown
  <2> QED BY <2>1
<1>10. CASE Close
  <2>1. /\ app = "close" /\ app' = "join" /\ shutting_down' = shutting_down
        /\ running' = running /\ worker' = worker
    BY <1>10 DEF Close
  <2> QED BY <2>1
<1>9. CASE Join
  BY <1>9 DEF Join
<1>2. CASE Send \/ Poll
  BY <1>2 DEF Send, Poll, threads
<1>3. CASE Test \/ Receive \/ Take \/ TakeNothing
  BY <1>3 DEF Test, Receive, Take, TakeNothing
<1>4. CASE Store \/ Drain \/ TransmitNothing
  BY <1>4 DEF Store, Drain, TransmitNothing
<1>5. CASE Transmit
  BY <1>5 DEF Transmit, threads
<1>6. CASE \E from \in Endpoints : Arrive(from) \/ ArriveNoise(from)
  BY <1>6 DEF Arrive, ArriveNoise, threads
<1>7. CASE UNCHANGED vars
  BY <1>7 DEF vars, threads
<1> QED
  BY <1>1, <1>2, <1>3, <1>4, <1>5, <1>6, <1>7, <1>8, <1>9, <1>10
  DEF Next, App, Worker

OutInv ==
    /\ tx \in Queue(Nat) /\ Len(tx.items) =< Capacity
    /\ outgoing \in Seq(Nat)
    /\ sent \in Nat /\ wire \in Nat /\ onWire \in Nat
    /\ dropped_no_peer \in Nat /\ refused \in Nat
    /\ worker \notin {"transmit", "transmitLast"} => outgoing = <<>>
    /\ sent = onWire + Len(outgoing) + held(tx) + dropped_no_peer + refused

outState == <<tx, outgoing, sent, wire, onWire, dropped_no_peer, refused>>

LEMMA OutIdle ==
  ASSUME OutInv, UNCHANGED outState,
         \/ worker' = worker
         \/ worker \notin {"transmit", "transmitLast"} \/ outgoing = <<>>
  PROVE  OutInv'
<1>1. /\ tx' = tx /\ held(tx') = held(tx)
      /\ UNCHANGED <<outgoing, sent, wire, onWire, dropped_no_peer, refused>>
  BY DEF outState
<1>2. worker' \notin {"transmit", "transmitLast"} => outgoing = <<>>
  BY DEF OutInv
<1> QED BY <1>1, <1>2 DEF OutInv

LEMMA OutInductive == Control /\ OutInv /\ [Next]_vars => OutInv'
<1> SUFFICES ASSUME Control, OutInv, [Next]_vars PROVE OutInv'
  OBVIOUS
<1>0. held(tx) \in Nat /\ Len(outgoing) \in Nat /\ tx.items \in Seq(Nat)
  BY HeldEffect DEF OutInv
<1>1. CASE Send
  <2>1. /\ sent' = sent + 1 /\ tx' = push(tx, sent + 1) /\ worker' = worker
        /\ UNCHANGED <<outgoing, wire, onWire, dropped_no_peer, refused>>
    BY <1>1 DEF Send, threads
  <2>2. tx' \in Queue(Nat) /\ Len(tx'.items) =< Capacity
    BY <2>1, HeldPush DEF OutInv
  <2>3. held(tx') = held(tx) + 1
    BY <2>1, HeldPush DEF OutInv
  <2>4. sent' = onWire' + Len(outgoing') + held(tx') + dropped_no_peer' + refused'
    BY <1>0, <2>1, <2>3 DEF OutInv
  <2> QED BY <2>1, <2>2, <2>4 DEF OutInv
<1>2. CASE Close
  <2>1. /\ tx' = close(tx) /\ worker' = worker
        /\ UNCHANGED <<outgoing, sent, wire, onWire, dropped_no_peer, refused>>
    BY <1>2 DEF Close
  <2>2. tx' \in Queue(Nat) /\ tx'.items = tx.items /\ held(tx') = held(tx)
    BY <2>1, DrainedEffect, HeldEffect DEF OutInv
  <2> QED BY <2>1, <2>2 DEF OutInv
<1>3. CASE Drain
  <2>1. /\ outgoing' = tx.items /\ tx' = drained(tx) /\ outgoing = <<>>
        /\ worker' \in {"transmit", "transmitLast"}
        /\ UNCHANGED <<sent, wire, onWire, dropped_no_peer, refused>>
    BY <1>3 DEF Drain, OutInv
  <2>2. /\ tx' \in Queue(Nat) /\ tx'.items = <<>>
        /\ held(tx) = held(tx') + Len(outgoing') /\ Len(outgoing') \in Nat
    BY <2>1, DrainedEffect, HeldEffect DEF OutInv
  <2>3. Len(<<>>) = 0 /\ Len(outgoing) = 0
    BY <2>1
  <2>6. held(tx') \in Nat
    BY <2>1, HeldEffect DEF OutInv
  <2>4. sent' = onWire' + Len(outgoing') + held(tx') + dropped_no_peer' + refused'
    BY <1>0, <2>1, <2>2, <2>3, <2>6 DEF OutInv
  <2>5. Len(tx'.items) =< Capacity
    BY <2>2, <2>3, CapacityAssumption
  <2> QED BY <1>0, <2>1, <2>2, <2>4, <2>5 DEF OutInv
<1>4. CASE Transmit
  <2>1. /\ outgoing # <<>> /\ outgoing' = Tail(outgoing)
        /\ worker' = worker /\ worker \in {"transmit", "transmitLast"}
        /\ tx' = tx /\ sent' = sent
        /\ wire' = wire \/ wire' = Head(outgoing)
        /\ onWire' + dropped_no_peer' + refused'
             = onWire + dropped_no_peer + refused + 1
        /\ onWire' \in Nat /\ dropped_no_peer' \in Nat /\ refused' \in Nat
    <3>1. /\ onWire \in Nat /\ dropped_no_peer \in Nat /\ refused \in Nat
      BY DEF OutInv
    <3> QED BY <1>4, <3>1 DEF Transmit, threads
  <2>2. /\ outgoing' \in Seq(Nat) /\ Len(outgoing') = Len(outgoing) - 1
        /\ Head(outgoing) \in Nat
    BY <2>1, HeadTailProperties DEF OutInv
  <2>3. sent' = onWire' + Len(outgoing') + held(tx') + dropped_no_peer' + refused'
    <3>1. /\ Len(outgoing) \in Nat /\ held(tx) \in Nat /\ sent \in Nat
          /\ sent = onWire + Len(outgoing) + held(tx) + dropped_no_peer + refused
          /\ onWire \in Nat /\ dropped_no_peer \in Nat /\ refused \in Nat
      BY <1>0 DEF OutInv
    <3>3. /\ onWire' \in Nat /\ dropped_no_peer' \in Nat /\ refused' \in Nat
          /\ onWire' + dropped_no_peer' + refused'
               = onWire + dropped_no_peer + refused + 1
      BY <2>1
    <3> DEFINE a == Len(outgoing)
               h == held(tx)
               x == onWire'
               y == dropped_no_peer'
               z == refused'
    <3> HIDE DEF a, h, x, y, z
    <3>4. /\ a \in Nat /\ h \in Nat /\ x \in Nat /\ y \in Nat /\ z \in Nat
          /\ x + y + z = onWire + dropped_no_peer + refused + 1
          /\ onWire \in Nat /\ dropped_no_peer \in Nat /\ refused \in Nat
          /\ sent = onWire + a + h + dropped_no_peer + refused
      BY <3>1, <3>3 DEF a, h, x, y, z
    <3>5. sent = x + (a - 1) + h + y + z
      BY <3>4
    <3>2. sent = onWire' + (Len(outgoing) - 1) + held(tx)
                 + dropped_no_peer' + refused'
      BY <3>5 DEF a, h, x, y, z
    <3> QED BY <2>1, <2>2, <3>2
  <2> QED BY <2>1, <2>2, <2>3 DEF OutInv
<1>5. CASE TransmitNothing
  <2>1. UNCHANGED outState /\ outgoing = <<>>
    BY <1>5 DEF TransmitNothing, outbound, outState
  <2> QED BY <2>1, OutIdle
<1>6. CASE Start \/ Poll \/ Stop \/ Shutdown \/ Join
  <2>1. UNCHANGED outState
    BY <1>6 DEF Start, Poll, Stop, Shutdown, Join, outbound, outState
  <2>2. worker' = worker \/ worker \in {"none", "exited"}
    BY <1>6 DEF Start, Poll, Stop, Shutdown, Join, threads, Control
  <2> QED BY <2>1, <2>2, OutIdle
<1>7. CASE Test \/ Receive \/ Take \/ TakeNothing \/ Store
  <2>1. UNCHANGED outState /\ worker \notin {"transmit", "transmitLast"}
    BY <1>7 DEF Test, Receive, Take, TakeNothing, Store, outbound, outState
  <2> QED BY <2>1, OutIdle
<1>8. CASE \E from \in Endpoints : Arrive(from) \/ ArriveNoise(from)
  <2>1. UNCHANGED outState /\ worker' = worker
    BY <1>8 DEF Arrive, ArriveNoise, threads, outbound, outState
  <2> QED BY <2>1, OutIdle
<1>9. CASE UNCHANGED vars
  <2>1. UNCHANGED outState /\ worker' = worker
    BY <1>9 DEF vars, threads, outbound, outState
  <2> QED BY <2>1, OutIdle
<1> QED
  BY <1>1, <1>2, <1>3, <1>4, <1>5, <1>6, <1>7, <1>8, <1>9 DEF Next, App, Worker

InInv ==
    /\ rx \in Queue(Nat) /\ Len(rx.items) =< Capacity
    /\ batch \in Seq(Nat) /\ socket \in Seq(Datagram)
    /\ peer \in {{}} \cup {{e} : e \in Endpoints}
    /\ arrived \in Nat /\ nPolled \in Nat /\ polled \in Nat
    /\ lost \in Nat /\ noise \in Nat
    /\ worker \notin {"receive", "wait", "store"} => batch = <<>>
    /\ arrived = nPolled + held(rx) + Len(batch) + Cardinality(spoken(socket)) + lost
    /\ arrived = 0 => peer = ConfiguredPeer

inState == <<rx, batch, socket, peer, arrived, nPolled, polled, lost, noise>>

LEMMA InIdle ==
  ASSUME InInv, UNCHANGED inState,
         \/ worker' = worker
         \/ worker' \in {"receive", "wait", "store"}
         \/ batch = <<>>
  PROVE  InInv'
<1>1. /\ UNCHANGED <<rx, batch, socket, peer, arrived, nPolled, polled, lost, noise>>
      /\ held(rx') = held(rx)
  BY DEF inState
<1>2. worker' \notin {"receive", "wait", "store"} => batch' = <<>>
  BY <1>1 DEF InInv
<1> QED BY <1>1, <1>2 DEF InInv

\* A datagram without a message reaches the socket.
LEMMA InNoise ==
  ASSUME InInv, NEW from \in Endpoints \cup {Self},
         socket' = Append(socket, [messages |-> <<>>, from |-> from]),
         UNCHANGED <<rx, batch, peer, arrived, nPolled, polled, lost, worker>>,
         noise' \in Nat
  PROVE  InInv'
<1> DEFINE d == [messages |-> <<>>, from |-> from]
<1>1. d \in Datagram /\ d.messages = <<>>
  BY DEF Datagram
<1>2. Cardinality(spoken(socket)) \in Nat
  BY SpokenFinite DEF InInv
<1>3. socket' \in Seq(Datagram)
      /\ Cardinality(spoken(socket')) = Cardinality(spoken(socket))
  BY <1>1, <1>2, SpokenAppend DEF InInv
<1>4. held(rx') = held(rx)
  OBVIOUS
<1> QED BY <1>3, <1>4 DEF InInv

LEMMA InInductive == Control /\ InInv /\ [Next]_vars => InInv'
<1> SUFFICES ASSUME Control, InInv, [Next]_vars PROVE InInv'
  OBVIOUS
<1>0. /\ held(rx) \in Nat /\ Len(batch) \in Nat /\ Len(rx.items) \in Nat
      /\ Cardinality(spoken(socket)) \in Nat
      /\ arrived \in Nat /\ nPolled \in Nat /\ polled \in Nat
      /\ lost \in Nat /\ noise \in Nat
      /\ arrived = nPolled + held(rx) + Len(batch)
                   + Cardinality(spoken(socket)) + lost
  BY HeldEffect, SpokenFinite DEF InInv
<1>1. CASE Poll
  <2>1. /\ rx' = drained(rx) /\ nPolled' = nPolled + Len(rx.items)
        /\ polled' = rx.items[Len(rx.items)] /\ rx.items # <<>> /\ worker' = worker
        /\ UNCHANGED <<batch, socket, peer, arrived, lost, noise>>
    BY <1>1 DEF Poll, threads
  <2>2. /\ rx' \in Queue(Nat) /\ rx'.items = <<>> /\ held(rx') \in Nat
        /\ held(rx) = held(rx') + Len(rx.items)
    BY <2>1, DrainedEffect, HeldEffect DEF InInv
  <2>3. Len(rx'.items) =< Capacity
    BY <2>2, CapacityAssumption
  <2>4. rx.items \in Seq(Nat)
    BY HeldEffect DEF InInv
  <2>5. polled' \in Nat
    BY <2>1, <2>4
  <2> DEFINE b == Len(batch)
             c == Cardinality(spoken(socket))
             h == held(rx)
             g == held(rx')
             i == Len(rx.items)
  <2>6. /\ b \in Nat /\ c \in Nat /\ h \in Nat /\ g \in Nat /\ i \in Nat
        /\ h = g + i /\ nPolled' = nPolled + i /\ nPolled \in Nat /\ lost \in Nat
        /\ arrived = nPolled + h + b + c + lost
    BY <1>0, <2>1, <2>2
  <2> HIDE DEF b, c, h, g, i
  <2>7. arrived = nPolled' + g + b + c + lost /\ nPolled' \in Nat
    BY <2>6
  <2>8. arrived' = nPolled' + held(rx') + Len(batch')
                   + Cardinality(spoken(socket')) + lost'
    BY <2>1, <2>7 DEF b, c, g
  <2> QED BY <2>1, <2>2, <2>3, <2>5, <2>7, <2>8 DEF InInv
<1>2. CASE Close
  <2>1. /\ rx' = close(rx) /\ worker' = worker
        /\ UNCHANGED <<batch, socket, peer, arrived, nPolled, polled, lost, noise>>
    BY <1>2 DEF Close
  <2>2. rx' \in Queue(Nat) /\ rx'.items = rx.items /\ held(rx') = held(rx)
    BY <2>1, DrainedEffect, HeldEffect DEF InInv
  <2> QED BY <2>1, <2>2 DEF InInv
<1>3. CASE Shutdown
  <2>1. /\ UNCHANGED <<rx, batch, peer, arrived, nPolled, polled, lost, noise>>
        /\ worker' = worker
        /\ \/ socket' = socket
           \/ socket' = Append(socket, [messages |-> <<>>, from |-> Self])
    BY <1>3 DEF Shutdown
  <2>2. CASE socket' = socket
    BY <2>1, <2>2, InIdle DEF inState
  <2>3. CASE socket' = Append(socket, [messages |-> <<>>, from |-> Self])
    BY <1>0, <2>1, <2>3, InNoise
  <2> QED BY <2>1, <2>2, <2>3
<1>4. CASE Take
  <2> DEFINE d == Head(socket)
  <2>1. /\ worker' = "receive" /\ socket # <<>> /\ socket' = Tail(socket)
        /\ batch' = batch \o d.messages
        /\ peer' = IF d.messages # <<>> /\ LearnPeer THEN {d.from} ELSE peer
        /\ UNCHANGED <<rx, arrived, nPolled, polled, lost, noise>>
    BY <1>4 DEF Take, learned
  <2>2. /\ socket' \in Seq(Datagram) /\ d \in Datagram
        /\ Cardinality(spoken(socket)) = Cardinality(spoken(socket'))
             + (IF d.messages # <<>> THEN 1 ELSE 0)
        /\ Cardinality(spoken(socket')) \in Nat
    BY <2>1, SpokenTail, SpokenFinite DEF InInv
  <2> HIDE DEF d
  <2>3. \/ d.messages = <<>>
        \/ d.from \in Endpoints /\ \E n \in Nat : d.messages = <<n>>
    BY <2>2 DEF Datagram
  <2>4. /\ batch' \in Seq(Nat)
        /\ Len(batch') = Len(batch) + (IF d.messages # <<>> THEN 1 ELSE 0)
    <3>1. batch \in Seq(Nat) /\ batch' = batch \o d.messages
      BY <2>1 DEF InInv
    <3>2. CASE d.messages = <<>>
      BY <3>1, <3>2
    <3>3. ASSUME NEW n \in Nat, d.messages = <<n>>
          PROVE  batch' \in Seq(Nat) /\ Len(batch') = Len(batch) + 1
      BY <3>1, <3>3
    <3>4. CASE d.messages # <<>>
      BY <2>3, <3>3, <3>4
    <3> QED BY <3>2, <3>4
  <2>5. Cardinality(spoken(socket')) + Len(batch')
          = Cardinality(spoken(socket)) + Len(batch)
    BY <1>0, <2>2, <2>4
  <2>6. held(rx') = held(rx)
    BY <2>1
  <2> DEFINE b == Len(batch)
             b1 == Len(batch')
             c == Cardinality(spoken(socket))
             c1 == Cardinality(spoken(socket'))
             h == held(rx)
  <2>7. /\ b \in Nat /\ b1 \in Nat /\ c \in Nat /\ c1 \in Nat /\ h \in Nat
        /\ c1 + b1 = c + b /\ nPolled \in Nat /\ lost \in Nat
        /\ arrived = nPolled + h + b + c + lost
    BY <1>0, <2>2, <2>4, <2>5
  <2> HIDE DEF b, b1, c, c1, h
  <2>8. arrived = nPolled + h + b1 + c1 + lost
    BY <2>7
  <2>9. arrived' = nPolled' + held(rx') + Len(batch')
                   + Cardinality(spoken(socket')) + lost'
    BY <2>1, <2>6, <2>8 DEF b1, c1, h
  <2>10. d.messages # <<>> => arrived # 0
    <3> SUFFICES ASSUME d.messages # <<>> PROVE c >= 1
      BY <2>7
    <3> QED BY <2>2, <2>7 DEF c
  <2>11. peer' \in {{}} \cup {{e} : e \in Endpoints}
         /\ (arrived' = 0 => peer' = ConfiguredPeer)
    BY <2>1, <2>3, <2>10 DEF InInv
  <2> QED BY <2>1, <2>2, <2>4, <2>6, <2>9, <2>11 DEF InInv
<1>5. CASE TakeNothing
  <2>1. /\ worker' = "store"
        /\ UNCHANGED <<rx, batch, peer, arrived, nPolled, polled, lost, noise>>
        /\ \/ socket' = socket
           \/ /\ socket # <<>> /\ Head(socket).messages = <<>>
              /\ socket' = Tail(socket)
    BY <1>5 DEF TakeNothing
  <2>2. /\ socket' \in Seq(Datagram)
        /\ Cardinality(spoken(socket')) = Cardinality(spoken(socket))
    <3>1. CASE socket' = socket
      BY <3>1 DEF InInv
    <3>2. CASE socket # <<>> /\ Head(socket).messages = <<>> /\ socket' = Tail(socket)
      <4>1. /\ socket' \in Seq(Datagram)
            /\ Cardinality(spoken(socket)) = Cardinality(spoken(socket')) + 0
            /\ Cardinality(spoken(socket')) \in Nat
        BY <3>2, SpokenTail, SpokenFinite DEF InInv
      <4> QED BY <4>1
    <3> QED BY <2>1, <3>1, <3>2
  <2>3. held(rx') = held(rx)
    BY <2>1
  <2> QED BY <2>1, <2>2, <2>3 DEF InInv
<1>6. CASE Store
  <2>1. CASE batch = <<>>
    <3>1. UNCHANGED inState
      BY <1>6, <2>1 DEF Store, inState
    <3> QED BY <2>1, <3>1, InIdle
  <2>2. CASE batch # <<>>
    <3>1. /\ rx' = push(rx, Head(batch)) /\ batch' = Tail(batch)
          /\ worker = "store" /\ worker' = worker
          /\ UNCHANGED <<socket, peer, arrived, nPolled, polled, lost, noise>>
      BY <1>6, <2>2 DEF Store
    <3>2. /\ Head(batch) \in Nat /\ batch' \in Seq(Nat)
          /\ Len(batch') = Len(batch) - 1
      BY <2>2, <3>1, HeadTailProperties DEF InInv
    <3>3. /\ rx' \in Queue(Nat) /\ Len(rx'.items) =< Capacity
          /\ held(rx') = held(rx) + 1
      BY <3>1, <3>2, HeldPush DEF InInv
    <3> DEFINE b == Len(batch)
               b1 == Len(batch')
               c == Cardinality(spoken(socket))
               h == held(rx)
               h1 == held(rx')
    <3>4. /\ b \in Nat /\ b1 = b - 1 /\ c \in Nat /\ h \in Nat /\ h1 = h + 1
          /\ nPolled \in Nat /\ lost \in Nat
          /\ arrived = nPolled + h + b + c + lost
      BY <1>0, <3>2, <3>3
    <3> HIDE DEF b, b1, c, h, h1
    <3>5. arrived = nPolled + h1 + b1 + c + lost
      BY <3>4
    <3>6. arrived' = nPolled' + held(rx') + Len(batch')
                     + Cardinality(spoken(socket')) + lost'
      BY <3>1, <3>5 DEF b1, c, h1
    <3> QED BY <3>1, <3>2, <3>3, <3>6 DEF InInv
  <2> QED BY <2>1, <2>2
<1>7. CASE Drain \/ TransmitNothing \/ Test \/ Receive
  <2>1. UNCHANGED inState
    BY <1>7 DEF Drain, TransmitNothing, Test, Receive, inbound, inState
  <2>2. \/ worker' \in {"receive", "wait", "store"}
        \/ worker \notin {"receive", "wait", "store"}
    BY <1>7 DEF Drain, TransmitNothing, Test, Receive
  <2> QED BY <2>1, <2>2, InIdle DEF InInv
<1>8. CASE Start \/ Send \/ Stop \/ Join \/ Transmit
  <2>1. UNCHANGED inState
    BY <1>8 DEF Start, Send, Stop, Join, Transmit, inbound, inState
  <2>2. worker' = worker \/ worker \in {"none", "exited"}
    BY <1>8 DEF Start, Send, Stop, Join, Transmit, threads, Control
  <2> QED BY <2>1, <2>2, InIdle DEF InInv
<1>9. ASSUME NEW from \in Endpoints, Arrive(from) PROVE InInv'
  <2> DEFINE d == [messages |-> <<arrived + 1>>, from |-> from]
             b == Len(batch)
             c == Cardinality(spoken(socket))
             c1 == Cardinality(spoken(socket'))
             h == held(rx)
  <2>1. /\ arrived' = arrived + 1 /\ worker' = worker
        /\ UNCHANGED <<rx, batch, peer, nPolled, polled, noise>>
        /\ \/ socket' = Append(socket, d) /\ lost' = lost
           \/ socket' = socket /\ lost' = lost + 1
    BY <1>9 DEF Arrive, threads
  <2>2. arrived + 1 \in Nat /\ d.messages # <<>> /\ d \in Datagram
    BY <1>0 DEF Datagram
  <2>3. socket' \in Seq(Datagram) /\ c1 + lost' = c + lost + 1 /\ lost' \in Nat
        /\ c1 \in Nat
    <3>1. CASE socket' = Append(socket, d) /\ lost' = lost
      <4>1. socket' \in Seq(Datagram) /\ c1 = c + 1
        BY <2>2, <3>1, SpokenAppend DEF InInv
      <4>2. c \in Nat /\ lost \in Nat /\ lost' = lost
        BY <1>0, <3>1
      <4> HIDE DEF c, c1
      <4>3. c1 + lost' = c + lost + 1 /\ lost' \in Nat /\ c1 \in Nat
        BY <4>1, <4>2
      <4> QED BY <4>1, <4>3
    <3>2. CASE socket' = socket /\ lost' = lost + 1
      <4>1. c \in Nat /\ lost \in Nat /\ c1 = c /\ lost' = lost + 1
        BY <1>0, <3>2
      <4>2. socket' \in Seq(Datagram)
        BY <3>2 DEF InInv
      <4> HIDE DEF c, c1
      <4>3. c1 + lost' = c + lost + 1 /\ lost' \in Nat /\ c1 \in Nat
        BY <4>1
      <4> QED BY <4>2, <4>3
    <3> QED BY <2>1, <3>1, <3>2
  <2>4. /\ b \in Nat /\ c \in Nat /\ c1 \in Nat /\ h \in Nat
        /\ c1 + lost' = c + lost + 1 /\ lost' \in Nat /\ lost \in Nat
        /\ nPolled \in Nat /\ arrived \in Nat
        /\ arrived = nPolled + h + b + c + lost
    BY <1>0, <2>3
  <2> HIDE DEF b, c, c1, h, d
  <2>5. arrived + 1 = nPolled + h + b + c1 + lost'
    <3> DEFINE l == lost'
    <3> HIDE DEF l
    <3>1. /\ b \in Nat /\ c \in Nat /\ c1 \in Nat /\ h \in Nat
          /\ c1 + l = c + lost + 1 /\ l \in Nat /\ lost \in Nat
          /\ nPolled \in Nat /\ arrived = nPolled + h + b + c + lost
      BY <2>4 DEF l
    <3>2. arrived + 1 = nPolled + h + b + c1 + l
      BY <3>1
    <3> QED BY <3>2 DEF l
  <2>6. held(rx') = held(rx)
    BY <2>1
  <2>7. arrived' = nPolled' + held(rx') + Len(batch')
                   + Cardinality(spoken(socket')) + lost'
    BY <2>1, <2>5, <2>6 DEF b, c1, h
  <2>8. arrived' \in Nat /\ arrived' # 0
    BY <2>1, <2>4
  <2> QED BY <2>1, <2>3, <2>4, <2>6, <2>7, <2>8 DEF InInv
<1>10. ASSUME NEW from \in Endpoints, ArriveNoise(from) PROVE InInv'
  <2>1. /\ socket' = Append(socket, [messages |-> <<>>, from |-> from])
        /\ noise' = noise + 1 /\ worker' = worker
        /\ UNCHANGED <<rx, batch, peer, arrived, nPolled, polled, lost>>
    BY <1>10 DEF ArriveNoise, threads
  <2> QED BY <1>0, <2>1, InNoise
<1>11. CASE UNCHANGED vars
  <2>1. UNCHANGED inState /\ worker' = worker
    BY <1>11 DEF vars, threads, inbound, inState
  <2> QED BY <2>1, InIdle
<1> QED
  BY <1>1, <1>2, <1>3, <1>4, <1>5, <1>6, <1>7, <1>8, <1>9, <1>10, <1>11
  DEF Next, App, Worker

-----------------------------------------------------------------------------
(***************************************************************************)
(* What stop() waits for.  Once the worker has drained the queue for the   *)
(* last time, nobody fills it until stop() has returned; and once the      *)
(* socket is shut down, the worker waits for it at most once more.         *)
(***************************************************************************)
newer(q) == \A i \in DOMAIN q.items : q.items[i] > last

StopInv ==
    /\ last \in Nat /\ last =< sent
    /\ worker \in {"transmitLast", "exited"} => tx.items = <<>>
    /\ ~running /\ app = "idle" => newer(tx)

LateInv ==
    /\ late \in {0, 1}
    /\ running \/ app = "shutdown" => late = 0
    /\ app \in {"close", "join"} /\ worker = "wait" => late = 0

LEMMA LateInductive == Control /\ LateInv /\ [Next]_vars => LateInv'
<1> SUFFICES ASSUME Control, LateInv, [Next]_vars PROVE LateInv'
  OBVIOUS
<1> USE DEF LateInv
<1>1. CASE Start
  <2>1. late' = 0
    BY <1>1 DEF Start
  <2> QED BY <2>1
<1>2. CASE Stop
  <2>1. late' = late /\ running /\ running' = FALSE /\ app' = "shutdown"
    BY <1>2 DEF Stop, inbound
  <2> QED BY <2>1
<1>3. CASE Shutdown
  <2>1. /\ late' = late /\ running' = running /\ app = "shutdown"
        /\ app' = "close" /\ worker' = worker
    BY <1>3 DEF Shutdown
  <2> QED BY <2>1
<1>4. CASE Close
  <2>1. /\ late' = late /\ running' = running /\ app = "close"
        /\ app' = "join" /\ worker' = worker
    BY <1>4 DEF Close
  <2> QED BY <2>1
<1>5. CASE Join
  <2>1. late' = late /\ running' = running /\ app' = "idle" /\ app = "join"
    BY <1>5 DEF Join, inbound
  <2>2. ~running
    BY <2>1 DEF Control
  <2> QED BY <2>1, <2>2
<1>6. CASE Receive
  <2>1. /\ late' = late /\ running' = running /\ app' = app
        /\ worker' = IF shutting_down THEN "store" ELSE "wait"
    BY <1>6 DEF Receive, inbound
  <2>2. app \in {"close", "join"} => shutting_down
    BY DEF Control
  <2> QED BY <2>1, <2>2
<1>7. CASE Take \/ TakeNothing
  <2>1. /\ running' = running /\ app' = app /\ worker = "wait"
        /\ worker' \in {"receive", "store"}
        /\ late' \in {late, IF app \in {"close", "join"} THEN late + 1 ELSE late}
    BY <1>7 DEF Take, TakeNothing
  <2>2. running => app = "idle"
    BY DEF Control
  <2> QED BY <2>1, <2>2
<1>8. CASE Test \/ Store \/ Drain \/ TransmitNothing
  <2>1. late' = late /\ running' = running /\ app' = app /\ worker' # "wait"
    BY <1>8 DEF Test, Store, Drain, TransmitNothing, inbound
  <2> QED BY <2>1
<1>9. CASE Send \/ Poll \/ Transmit
  <2>1. late' = late /\ running' = running /\ app' = app /\ worker' = worker
    BY <1>9 DEF Send, Poll, Transmit, threads, inbound
  <2> QED BY <2>1
<1>10. CASE \E from \in Endpoints : Arrive(from) \/ ArriveNoise(from)
  <2>1. late' = late /\ running' = running /\ app' = app /\ worker' = worker
    BY <1>10 DEF Arrive, ArriveNoise, threads
  <2> QED BY <2>1
<1>11. CASE UNCHANGED vars
  <2>1. late' = late /\ running' = running /\ app' = app /\ worker' = worker
    BY <1>11 DEF vars, threads, inbound
  <2> QED BY <2>1
<1> QED
  BY <1>1, <1>2, <1>3, <1>4, <1>5, <1>6, <1>7, <1>8, <1>9, <1>10, <1>11
  DEF Next, App, Worker

LEMMA StopIdle ==
  ASSUME StopInv, UNCHANGED <<running, app, last, sent>>, tx'.items = tx.items,
         worker' \in {"transmitLast", "exited"}
           => worker \in {"transmitLast", "exited"}
  PROVE  StopInv'
  BY DEF StopInv, newer

LEMMA StopInductive == Control /\ OutInv /\ StopInv /\ [Next]_vars => StopInv'
<1> SUFFICES ASSUME Control, OutInv, StopInv, [Next]_vars PROVE StopInv'
  OBVIOUS
<1>0. last \in Nat /\ sent \in Nat /\ last =< sent
  BY DEF StopInv, OutInv
<1>1. CASE Start
  <2>1. /\ running' = TRUE /\ worker' = "test" /\ last' = last
        /\ tx' = tx /\ sent' = sent
    BY <1>1 DEF Start, outbound
  <2> QED BY <2>1 DEF StopInv
<1>2. CASE Send
  <2>1. /\ app = "idle" /\ sent' = sent + 1 /\ tx' = push(tx, sent + 1)
        /\ running' = running /\ app' = app /\ worker' = worker /\ last' = last
    BY <1>2 DEF Send, threads
  <2>2. Pushed(tx, sent + 1, tx'.items)
    BY <1>0, <2>1, PushEffect DEF OutInv
  <2>3. sent + 1 > last
    BY <1>0
  <2>4. newer(tx) => newer(tx)'
    BY <2>1, <2>2, <2>3 DEF Pushed, newer
  <2>5. worker \notin {"transmitLast", "exited"}
    BY <2>1 DEF Control
  <2>6. last' =< sent'
    BY <1>0, <2>1
  <2> QED BY <1>0, <2>1, <2>4, <2>5, <2>6 DEF StopInv
<1>3. CASE Stop
  <2>1. /\ last' = sent /\ sent' = sent /\ tx' = tx /\ worker' = worker
        /\ app' = "shutdown"
    BY <1>3 DEF Stop, outbound
  <2> QED BY <1>0, <2>1 DEF StopInv
<1>4. CASE Shutdown
  <2>1. /\ app = "shutdown" /\ app' = "close" /\ worker' = worker
        /\ UNCHANGED <<running, last, sent, tx>>
    BY <1>4 DEF Shutdown, outbound
  <2> QED BY <2>1 DEF StopInv
<1>5. CASE Close
  <2>1. /\ app = "close" /\ app' = "join" /\ worker' = worker /\ tx' = close(tx)
        /\ UNCHANGED <<running, last, sent>>
    BY <1>5 DEF Close
  <2>2. tx'.items = tx.items
    BY <2>1, DrainedEffect DEF OutInv
  <2> QED BY <2>1, <2>2 DEF StopInv
<1>6. CASE Join
  <2>1. /\ worker = "exited" /\ worker' = "none"
        /\ UNCHANGED <<running, last, sent, tx>>
    BY <1>6 DEF Join, outbound
  <2>2. tx'.items = <<>>
    BY <2>1 DEF StopInv
  <2> QED BY <1>0, <2>1, <2>2 DEF StopInv, newer
<1>7. CASE Drain
  <2>1. tx' = drained(tx) /\ UNCHANGED <<running, app, last, sent>>
    BY <1>7 DEF Drain
  <2>2. tx'.items = <<>>
    BY <2>1, DrainedEffect DEF OutInv
  <2> QED BY <1>0, <2>1, <2>2 DEF StopInv, newer
<1>8. CASE TransmitNothing
  <2>1. /\ UNCHANGED <<running, app, last, sent, tx>>
        /\ worker' = "exited" => worker = "transmitLast"
        /\ worker' # "transmitLast"
    BY <1>8 DEF TransmitNothing, outbound
  <2> QED BY <2>1, StopIdle
<1>9. CASE Poll \/ Transmit
  <2>1. UNCHANGED <<running, app, last, sent, tx, worker>>
    BY <1>9 DEF Poll, Transmit, outbound, threads
  <2> QED BY <2>1, StopIdle
<1>10. CASE Test \/ Receive \/ Take \/ TakeNothing \/ Store
  <2>1. /\ UNCHANGED <<running, app, last, sent, tx>>
        /\ worker' \notin {"transmitLast", "exited"}
    BY <1>10 DEF Test, Receive, Take, TakeNothing, Store, outbound
  <2> QED BY <2>1, StopIdle
<1>11. CASE \E from \in Endpoints : Arrive(from) \/ ArriveNoise(from)
  <2>1. UNCHANGED <<running, app, last, sent, tx, worker>>
    BY <1>11 DEF Arrive, ArriveNoise, threads, outbound
  <2> QED BY <2>1, StopIdle
<1>12. CASE UNCHANGED vars
  <2>1. UNCHANGED <<running, app, last, sent, tx, worker>>
    BY <1>12 DEF vars, threads, outbound
  <2> QED BY <2>1, StopIdle
<1> QED
  BY <1>1, <1>2, <1>3, <1>4, <1>5, <1>6, <1>7, <1>8, <1>9, <1>10, <1>11, <1>12
  DEF Next, App, Worker

-----------------------------------------------------------------------------
IInv == Control /\ OutInv /\ InInv /\ StopInv /\ LateInv

LEMMA InitIInv == Init => IInv
<1> SUFFICES ASSUME Init PROVE IInv
  OBVIOUS
<1> USE CapacityAssumption, ChannelAssumption
<1>1. EmptyQueue \in Queue(Nat) /\ EmptyQueue.items = <<>> /\ held(EmptyQueue) = 0
  BY DEF EmptyQueue, Queue, held
<1>2. Control
  BY DEF Init, Control, AppPoints, WorkerPoints
<1>3. OutInv
  BY <1>1 DEF Init, OutInv
<1>4. Cardinality(spoken(<<>>)) = 0
  <2>1. spoken(<<>>) = {}
    BY DEF spoken
  <2> QED BY <2>1, FS_EmptySet
<1>5. InInv
  BY <1>1, <1>4 DEF Init, InInv
<1>6. StopInv
  BY <1>1 DEF Init, StopInv, newer
<1>7. LateInv
  BY DEF Init, LateInv
<1> QED BY <1>2, <1>3, <1>5, <1>6, <1>7 DEF IInv

LEMMA Invariance == Spec => []IInv
<1>1. IInv /\ [Next]_vars => IInv'
  BY ControlInductive, OutInductive, InInductive, StopInductive, LateInductive
  DEF IInv
<1> QED BY InitIInv, <1>1, PTL DEF Spec

-----------------------------------------------------------------------------
(***************************************************************************)
(* The order of the messages, as relations between the sets that the       *)
(* stations of their way hold: what is nearer the end is older.            *)
(***************************************************************************)
Ascending(s) == \A i, j \in DOMAIN s : i < j => s[i] < s[j]

Below(A, B) == \A a \in A, b \in B : a < b

LEMMA ElementsConcat ==
  ASSUME NEW a \in Seq(Nat), NEW b \in Seq(Nat)
  PROVE  elements(a \o b) = elements(a) \cup elements(b)
<1> DEFINE r == a \o b
<1>1. /\ Len(a) \in Nat /\ Len(b) \in Nat /\ DOMAIN r = 1 .. Len(a) + Len(b)
      /\ DOMAIN a = 1 .. Len(a) /\ DOMAIN b = 1 .. Len(b)
      /\ \A i \in 1 .. Len(a) + Len(b) :
            r[i] = IF i =< Len(a) THEN a[i] ELSE b[i - Len(a)]
  BY ConcatProperties
<1> HIDE DEF r
<1>2. ASSUME NEW i \in DOMAIN r PROVE r[i] \in elements(a) \cup elements(b)
  <2>1. CASE i =< Len(a)
    <3>1. i \in DOMAIN a /\ r[i] = a[i]
      BY <1>1, <2>1
    <3> QED BY <3>1 DEF elements
  <2>2. CASE i > Len(a)
    <3>1. i - Len(a) \in DOMAIN b /\ r[i] = b[i - Len(a)]
      BY <1>1, <2>2
    <3> QED BY <3>1 DEF elements
  <2> QED BY <1>1, <2>1, <2>2
<1>3. ASSUME NEW i \in DOMAIN a PROVE a[i] \in elements(r)
  <2>1. i \in DOMAIN r /\ r[i] = a[i]
    BY <1>1
  <2> QED BY <2>1 DEF elements
<1>4. ASSUME NEW i \in DOMAIN b PROVE b[i] \in elements(r)
  <2>1. /\ Len(a) + i \in DOMAIN r /\ ~(Len(a) + i =< Len(a))
        /\ (Len(a) + i) - Len(a) = i
    BY <1>1
  <2>2. r[Len(a) + i] = b[i]
    BY <1>1, <2>1
  <2> QED BY <2>1, <2>2 DEF elements
<1>5. elements(r) = elements(a) \cup elements(b)
  BY <1>2, <1>3, <1>4 DEF elements
<1> QED BY <1>5 DEF r

LEMMA ElementsEmpty == elements(<<>>) = {} /\ Ascending(<<>>)
  BY DEF elements, Ascending

LEMMA ElementsTail ==
  ASSUME NEW s \in Seq(Nat), s # <<>>, Ascending(s)
  PROVE  /\ Tail(s) \in Seq(Nat) /\ Head(s) \in Nat /\ Ascending(Tail(s))
         /\ elements(s) = {Head(s)} \cup elements(Tail(s))
         /\ Below({Head(s)}, elements(Tail(s)))
<1> DEFINE t == Tail(s)
<1>1. /\ t \in Seq(Nat) /\ Len(s) \in Nat \ {0} /\ DOMAIN s = 1 .. Len(s)
      /\ DOMAIN t = 1 .. Len(s) - 1 /\ Head(s) = s[1] /\ s[1] \in Nat
      /\ \A i \in DOMAIN t : t[i] = s[i + 1]
  OBVIOUS
<1> HIDE DEF t
<1>2. ASSUME NEW i \in DOMAIN t
      PROVE  i \in Nat /\ i + 1 \in DOMAIN s /\ t[i] = s[i + 1] /\ s[1] < t[i]
  <2>1. i \in Nat /\ i + 1 \in DOMAIN s /\ 1 \in DOMAIN s /\ 1 < i + 1
    BY <1>1
  <2> QED BY <1>1, <2>1 DEF Ascending
<1>3. Ascending(t)
  <2> SUFFICES ASSUME NEW i \in DOMAIN t, NEW j \in DOMAIN t, i < j
               PROVE  t[i] < t[j]
    BY DEF Ascending
  <2>1. i + 1 < j + 1
    BY <1>2
  <2> QED BY <1>2, <2>1 DEF Ascending
<1>4. ASSUME NEW i \in DOMAIN s PROVE s[i] = s[1] \/ s[i] \in elements(t)
  <2>1. CASE i = 1
    BY <2>1
  <2>2. CASE i # 1
    <3>1. i - 1 \in DOMAIN t /\ (i - 1) + 1 = i
      BY <1>1, <2>2
    <3>2. t[i - 1] = s[i]
      BY <1>1, <3>1
    <3> QED BY <3>1, <3>2 DEF elements
  <2> QED BY <2>1, <2>2
<1>5. elements(s) = {s[1]} \cup elements(t)
  <2>1. 1 \in DOMAIN s
    BY <1>1
  <2> QED BY <1>2, <1>4, <2>1 DEF elements
<1>6. Below({s[1]}, elements(t))
  BY <1>2 DEF Below, elements
<1> QED BY <1>1, <1>3, <1>5, <1>6 DEF t

LEMMA ElementsAppend ==
  ASSUME NEW s \in Seq(Nat), NEW v \in Nat, Ascending(s), Below(elements(s), {v})
  PROVE  /\ Append(s, v) \in Seq(Nat) /\ Ascending(Append(s, v))
         /\ elements(Append(s, v)) = elements(s) \cup {v}
<1> DEFINE r == Append(s, v)
           n == Len(s) + 1
<1>1. /\ r \in Seq(Nat) /\ n \in Nat \ {0} /\ DOMAIN r = 1 .. n /\ DOMAIN s = 1 .. n - 1
      /\ r[n] = v /\ \A i \in DOMAIN s : r[i] = s[i]
  OBVIOUS
<1> HIDE DEF r, n
<1>2. \A i \in DOMAIN r : i = n \/ (i \in DOMAIN s /\ i < n)
  BY <1>1
<1>3. \A i \in DOMAIN s : i \in DOMAIN r /\ i < n
  BY <1>1
<1>4. \A i \in DOMAIN s : s[i] < v
  BY DEF Below, elements
<1>5. Ascending(r)
  <2> SUFFICES ASSUME NEW i \in DOMAIN r, NEW j \in DOMAIN r, i < j
               PROVE  r[i] < r[j]
    BY DEF Ascending
  <2>1. i \in DOMAIN s
    BY <1>1, <1>2
  <2>2. CASE j = n
    BY <1>1, <1>4, <2>1, <2>2
  <2>3. CASE j \in DOMAIN s
    BY <1>1, <2>1, <2>3 DEF Ascending
  <2> QED BY <1>2, <2>2, <2>3
<1>6. elements(r) = elements(s) \cup {v}
  <2>1. n \in DOMAIN r
    BY <1>1
  <2> QED BY <1>1, <1>2, <1>3, <2>1 DEF elements
<1> QED BY <1>1, <1>5, <1>6 DEF r

\* A push keeps the order, adds its message at the end, and may lose others.
LEMMA PushOrder ==
  ASSUME NEW q \in Queue(Nat), NEW v \in Nat,
         Ascending(q.items), Below(elements(q.items), {v})
  PROVE  /\ Ascending(push(q, v).items)
         /\ elements(push(q, v).items) \subseteq elements(q.items) \cup {v}
<1>1. q.items \in Seq(Nat) /\ Len(q.items) \in Nat
  BY DEF Queue
<1>2. CASE Len(q.items) >= Capacity
  <2> DEFINE t == Tail(q.items)
  <2>1. q.items # <<>>
    BY <1>1, <1>2, CapacityAssumption
  <2>2. /\ t \in Seq(Nat) /\ Ascending(t)
        /\ elements(q.items) = {Head(q.items)} \cup elements(t)
    BY <1>1, <2>1, ElementsTail
  <2>3. push(q, v).items = Append(t, v)
    BY <1>2 DEF push, Queue
  <2> HIDE DEF t
  <2>4. Below(elements(t), {v})
    BY <2>2 DEF Below
  <2>5. /\ Ascending(Append(t, v)) /\ elements(Append(t, v)) = elements(t) \cup {v}
    BY <2>2, <2>4, ElementsAppend
  <2> QED BY <2>2, <2>3, <2>5
<1>3. CASE ~(Len(q.items) >= Capacity)
  <2>1. push(q, v).items = Append(q.items, v)
    BY <1>3 DEF push, Queue
  <2>2. /\ Ascending(Append(q.items, v))
        /\ elements(Append(q.items, v)) = elements(q.items) \cup {v}
    BY <1>1, ElementsAppend
  <2> QED BY <2>1, <2>2
<1> QED BY <1>2, <1>3

\* The same for the datagrams in the kernel's buffer.
InLine(s) ==
    \A i, j \in spoken(s) : i < j => Head(s[i].messages) < Head(s[j].messages)

LEMMA MessagesType ==
  ASSUME NEW d \in Datagram
  PROVE  /\ d.messages \in Seq(Nat)
         /\ d.messages # <<>> => d.messages = <<Head(d.messages)>>
                                 /\ Head(d.messages) \in Nat
<1>1. CASE d.messages = <<>>
  BY <1>1
<1>2. CASE \E n \in Nat : d.messages = <<n>>
  BY <1>2
<1> QED BY <1>1, <1>2 DEF Datagram

LEMMA NumbersType ==
  ASSUME NEW s \in Seq(Datagram)
  PROVE  numbers(s) \subseteq Nat
<1>1. \A i \in DOMAIN s : s[i] \in Datagram
  OBVIOUS
<1> QED BY <1>1, MessagesType DEF numbers, spoken

LEMMA NumbersAppend ==
  ASSUME NEW s \in Seq(Datagram), NEW d \in Datagram, InLine(s),
         d.messages # <<>> => Below(numbers(s), {Head(d.messages)})
  PROVE  /\ InLine(Append(s, d))
         /\ numbers(Append(s, d)) = numbers(s) \cup elements(d.messages)
<1> DEFINE r == Append(s, d)
           n == Len(s) + 1
<1>1. /\ n \in Nat \ {0} /\ DOMAIN r = 1 .. n /\ DOMAIN s = 1 .. n - 1
      /\ r[n] = d /\ \A i \in DOMAIN s : r[i] = s[i]
  OBVIOUS
<1> HIDE DEF r, n
<1>2. \A i \in DOMAIN r : i = n \/ (i \in DOMAIN s /\ i < n)
  BY <1>1
<1>3. \A i \in DOMAIN s : i \in DOMAIN r /\ i < n
  BY <1>1
<1>4. /\ \A i \in spoken(r) : i = n \/ (i \in spoken(s) /\ r[i] = s[i])
      /\ \A i \in spoken(s) : i \in spoken(r) /\ r[i] = s[i] /\ i < n
      /\ (n \in spoken(r)) <=> (d.messages # <<>>)
      /\ spoken(r) \subseteq 1 .. n
  <2>1. \A i \in spoken(r) : i = n \/ (i \in spoken(s) /\ r[i] = s[i])
    BY <1>1, <1>2 DEF spoken
  <2>2. \A i \in spoken(s) : i \in spoken(r) /\ r[i] = s[i] /\ i < n
    BY <1>1, <1>3 DEF spoken
  <2>3. n \in DOMAIN r
    BY <1>1
  <2>4. (n \in spoken(r)) <=> (d.messages # <<>>)
    BY <1>1, <2>3 DEF spoken
  <2>5. spoken(r) \subseteq 1 .. n
    BY <1>1 DEF spoken
  <2> QED BY <2>1, <2>2, <2>4, <2>5
<1>5. InLine(r)
  <2> SUFFICES ASSUME NEW i \in spoken(r), NEW j \in spoken(r), i < j
               PROVE  Head(r[i].messages) < Head(r[j].messages)
    BY DEF InLine
  <2>1. i \in spoken(s) /\ r[i] = s[i]
    BY <1>1, <1>4
  <2>2. CASE j = n
    <3>1. Head(s[i].messages) \in numbers(s)
      BY <2>1 DEF numbers
    <3> QED BY <1>1, <1>4, <2>1, <2>2, <3>1 DEF Below
  <2>3. CASE j \in spoken(s) /\ r[j] = s[j]
    BY <2>1, <2>3 DEF InLine
  <2> QED BY <1>4, <2>2, <2>3
<1>6. numbers(r) = numbers(s) \cup elements(d.messages)
  <2>1. CASE d.messages = <<>>
    <3>1. spoken(r) = spoken(s) /\ \A i \in spoken(s) : r[i] = s[i]
      BY <1>4, <2>1
    <3> QED BY <2>1, <3>1, ElementsEmpty DEF numbers
  <2>2. CASE d.messages # <<>>
    <3>1. spoken(r) = spoken(s) \cup {n} /\ \A i \in spoken(s) : r[i] = s[i]
      BY <1>4, <2>2
    <3>2. numbers(r) = numbers(s) \cup {Head(d.messages)}
      BY <1>1, <3>1 DEF numbers
    <3>3. d.messages = <<Head(d.messages)>>
      BY <2>2, MessagesType
    <3>4. elements(<<Head(d.messages)>>) = {Head(d.messages)}
      BY DEF elements
    <3> QED BY <3>2, <3>3, <3>4
  <2> QED BY <2>1, <2>2
<1> QED BY <1>5, <1>6 DEF r

LEMMA NumbersTail ==
  ASSUME NEW s \in Seq(Datagram), s # <<>>, InLine(s)
  PROVE  /\ InLine(Tail(s))
         /\ numbers(s) = elements(Head(s).messages) \cup numbers(Tail(s))
         /\ Below(elements(Head(s).messages), numbers(Tail(s)))
<1> DEFINE t == Tail(s)
           d == Head(s)
<1>1. /\ Len(s) \in Nat \ {0} /\ DOMAIN s = 1 .. Len(s)
      /\ DOMAIN t = 1 .. Len(s) - 1 /\ d = s[1] /\ s[1] \in Datagram
      /\ \A i \in DOMAIN t : t[i] = s[i + 1]
  OBVIOUS
<1> HIDE DEF t, d
<1>2. /\ \A i \in spoken(t) : i \in Nat /\ i + 1 \in spoken(s) /\ t[i] = s[i + 1] /\ 1 < i + 1
      /\ \A i \in spoken(s) :
            i = 1 \/ (i - 1 \in spoken(t) /\ t[i - 1] = s[i])
      /\ 1 \in spoken(s) <=> d.messages # <<>>
  <2>1. ASSUME NEW i \in spoken(t)
        PROVE  i \in Nat /\ i + 1 \in spoken(s) /\ t[i] = s[i + 1] /\ 1 < i + 1
    <3>1. i \in DOMAIN t /\ t[i].messages # <<>>
      BY DEF spoken
    <3>2. i \in Nat /\ i + 1 \in DOMAIN s /\ t[i] = s[i + 1] /\ 1 < i + 1
      BY <1>1, <3>1
    <3> QED BY <3>1, <3>2 DEF spoken
  <2>2. ASSUME NEW i \in spoken(s), i # 1
        PROVE  i - 1 \in spoken(t) /\ t[i - 1] = s[i]
    <3>1. i \in DOMAIN s /\ s[i].messages # <<>>
      BY DEF spoken
    <3>2. i - 1 \in DOMAIN t /\ (i - 1) + 1 = i
      BY <1>1, <2>2, <3>1
    <3>3. t[i - 1] = s[i]
      BY <1>1, <3>2
    <3> QED BY <3>1, <3>2, <3>3 DEF spoken
  <2>3. 1 \in DOMAIN s
    BY <1>1
  <2> QED BY <1>1, <2>1, <2>2, <2>3 DEF spoken
<1>3. InLine(t)
  <2> SUFFICES ASSUME NEW i \in spoken(t), NEW j \in spoken(t), i < j
               PROVE  Head(t[i].messages) < Head(t[j].messages)
    BY DEF InLine
  <2>1. i + 1 < j + 1
    BY <1>2
  <2> QED BY <1>2, <2>1 DEF InLine
<1>4. CASE d.messages = <<>>
  <2>1. numbers(s) = numbers(t)
    BY <1>2, <1>4 DEF numbers
  <2>2. elements(d.messages) = {}
    BY <1>4, ElementsEmpty
  <2> QED BY <1>3, <2>1, <2>2 DEF Below, t, d
<1>5. CASE d.messages # <<>>
  <2>1. numbers(s) = {Head(d.messages)} \cup numbers(t)
    <3>1. ASSUME NEW i \in spoken(s)
          PROVE  Head(s[i].messages) \in {Head(d.messages)} \cup numbers(t)
      BY <1>1, <1>2 DEF numbers
    <3>2. ASSUME NEW i \in spoken(t) PROVE Head(t[i].messages) \in numbers(s)
      BY <1>2 DEF numbers
    <3>3. Head(d.messages) \in numbers(s)
      BY <1>1, <1>2, <1>5 DEF numbers
    <3> QED BY <3>1, <3>2, <3>3 DEF numbers
  <2>2. Below({Head(d.messages)}, numbers(t))
    <3>1. ASSUME NEW i \in spoken(t)
          PROVE  Head(d.messages) < Head(t[i].messages)
      BY <1>1, <1>2, <1>5 DEF InLine
    <3> QED BY <3>1 DEF Below, numbers
  <2>3. elements(d.messages) = {Head(d.messages)}
    <3>1. d.messages = <<Head(d.messages)>>
      BY <1>1, <1>5, MessagesType
    <3>2. elements(<<Head(d.messages)>>) = {Head(d.messages)}
      BY DEF elements
    <3> QED BY <3>1, <3>2
  <2> QED BY <1>3, <2>1, <2>2, <2>3 DEF t, d
<1> QED BY <1>4, <1>5

-----------------------------------------------------------------------------
(***************************************************************************)
(* Outwards: what was drained is older than what waits, and newer than     *)
(* what is on the wire.  Inwards: from the queue, over the batch, to the   *)
(* socket the messages become newer.                                       *)
(***************************************************************************)
OutOrder ==
    /\ Ascending(outgoing) /\ Ascending(tx.items)
    /\ elements(outgoing) \cup elements(tx.items) \subseteq 1 .. sent
    /\ Below({wire}, elements(outgoing)) /\ Below({wire}, elements(tx.items))
    /\ Below(elements(outgoing), elements(tx.items))
    /\ wire =< sent

InOrder ==
    /\ Ascending(rx.items) /\ Ascending(batch) /\ InLine(socket)
    /\ elements(rx.items) \cup elements(batch) \cup numbers(socket)
         \subseteq 1 .. arrived
    /\ Below({polled}, elements(rx.items)) /\ Below({polled}, elements(batch))
    /\ Below({polled}, numbers(socket))
    /\ Below(elements(rx.items), elements(batch))
    /\ Below(elements(rx.items), numbers(socket))
    /\ Below(elements(batch), numbers(socket))
    /\ polled =< arrived

queued == elements(outgoing \o tx.items)

coming == elements(rx.items \o batch) \cup numbers(socket)

OutStep == Outbound!Next \/ UNCHANGED <<sent, queued, wire>>

InStep == Inbound!Next \/ UNCHANGED <<arrived, coming, polled>>

LEMMA QueuedType ==
  ASSUME OutInv
  PROVE  queued = elements(outgoing) \cup elements(tx.items)
<1>1. outgoing \in Seq(Nat) /\ tx.items \in Seq(Nat)
  BY HeldEffect DEF OutInv
<1> QED BY <1>1, ElementsConcat DEF queued

LEMMA ComingType ==
  ASSUME InInv
  PROVE  coming = elements(rx.items) \cup elements(batch) \cup numbers(socket)
<1>1. batch \in Seq(Nat) /\ rx.items \in Seq(Nat)
  BY HeldEffect DEF InInv
<1> QED BY <1>1, ElementsConcat DEF coming

LEMMA OutOrderStep ==
  ASSUME Control, OutInv, OutInv', OutOrder, [Next]_vars
  PROVE  OutOrder' /\ OutStep
<1>0. /\ tx \in Queue(Nat) /\ tx.items \in Seq(Nat) /\ outgoing \in Seq(Nat)
      /\ sent \in Nat /\ wire \in Nat
  BY HeldEffect DEF OutInv
<1>1. /\ queued = elements(outgoing) \cup elements(tx.items)
      /\ queued' = elements(outgoing') \cup elements(tx'.items)
  <2>1. outgoing' \in Seq(Nat) /\ tx' \in Queue(Nat)
    BY DEF OutInv
  <2>2. tx'.items \in Seq(Nat)
    BY <2>1, HeldEffect
  <2>3. queued' = elements(outgoing' \o tx'.items)
    BY DEF queued
  <2> QED BY <2>1, <2>2, <2>3, QueuedType, ElementsConcat
<1>2. ASSUME UNCHANGED <<outgoing, sent, wire>>, tx'.items = tx.items
      PROVE  OutOrder' /\ OutStep
  BY <1>1, <1>2 DEF OutOrder, OutStep
<1>3. CASE Send
  <2>1. /\ sent' = sent + 1 /\ tx' = push(tx, sent + 1)
        /\ UNCHANGED <<outgoing, wire>>
    BY <1>3 DEF Send
  <2>2. Below(elements(tx.items), {sent + 1})
    BY <1>0 DEF OutOrder, Below
  <2>3. /\ Ascending(tx'.items)
        /\ elements(tx'.items) \subseteq elements(tx.items) \cup {sent + 1}
    <3> DEFINE v == sent + 1
    <3>1. v \in Nat /\ tx' = push(tx, v) /\ Below(elements(tx.items), {v})
      BY <1>0, <2>1, <2>2
    <3>2. tx \in Queue(Nat) /\ Ascending(tx.items)
      BY <1>0 DEF OutOrder
    <3> HIDE DEF v
    <3>3. /\ Ascending(push(tx, v).items)
          /\ elements(push(tx, v).items) \subseteq elements(tx.items) \cup {v}
      BY <3>1, <3>2, PushOrder
    <3> QED BY <3>1, <3>3 DEF v
  <2>4. OutOrder'
    <3>1. wire' =< sent'
      BY <1>0, <2>1 DEF OutOrder
    <3>2. elements(outgoing') \cup elements(tx'.items) \subseteq 1 .. sent'
      BY <1>0, <2>1, <2>3 DEF OutOrder
    <3>3. Below({wire'}, elements(tx'.items))
      BY <1>0, <2>1, <2>3 DEF OutOrder, Below
    <3>4. Below(elements(outgoing'), elements(tx'.items))
      BY <1>0, <2>1, <2>3 DEF OutOrder, Below
    <3> QED BY <2>1, <2>3, <3>1, <3>2, <3>3, <3>4 DEF OutOrder
  <2>5. queued' \subseteq queued \cup {sent + 1}
    BY <1>1, <2>1, <2>3
  <2>6. Outbound!Send
    BY <2>1, <2>5 DEF Outbound!Send, queued
  <2> QED BY <2>4, <2>6 DEF OutStep, Outbound!Next
<1>4. CASE Drain
  <2>1. /\ outgoing' = tx.items /\ tx' = drained(tx) /\ outgoing = <<>>
        /\ UNCHANGED <<sent, wire>>
    BY <1>4 DEF Drain, OutInv
  <2>2. tx'.items = <<>> /\ elements(<<>>) = {} /\ Ascending(<<>>)
    BY <1>0, <2>1, DrainedEffect, ElementsEmpty
  <2>3. OutOrder'
    BY <2>1, <2>2 DEF OutOrder, Below
  <2>4. queued' = queued
    BY <1>1, <2>1, <2>2
  <2> QED BY <2>1, <2>3, <2>4 DEF OutStep
<1>5. CASE Transmit
  <2> DEFINE h == Head(outgoing)
             t == Tail(outgoing)
  <2>1. /\ outgoing # <<>> /\ outgoing' = t
        /\ UNCHANGED <<tx, sent>>
        /\ wire' = wire \/ wire' = h
    BY <1>5 DEF Transmit
  <2>2. /\ h \in Nat /\ Ascending(t)
        /\ elements(outgoing) = {h} \cup elements(t)
        /\ Below({h}, elements(t))
    BY <1>0, <2>1, ElementsTail DEF OutOrder
  <2> HIDE DEF h, t
  <2>3. /\ h \in 1 .. sent /\ Below({h}, elements(tx.items))
    BY <2>2 DEF OutOrder, Below
  <2>4. OutOrder'
    <3>1. wire' =< sent'
      BY <1>0, <2>1, <2>3 DEF OutOrder
    <3>2. /\ Below({wire'}, elements(t)) /\ Below({wire'}, elements(tx.items))
          /\ Below(elements(t), elements(tx.items))
      BY <2>1, <2>2, <2>3 DEF OutOrder, Below
    <3>3. elements(t) \cup elements(tx.items) \subseteq 1 .. sent
      BY <2>2 DEF OutOrder
    <3> QED BY <2>1, <2>2, <3>1, <3>2, <3>3 DEF OutOrder
  <2>5. queued = {h} \cup queued' /\ queued' = elements(t) \cup elements(tx.items)
    BY <1>1, <2>1, <2>2
  <2>6. \A m \in queued' : m > h
    <3>1. elements(t) \cup elements(tx.items) \subseteq 1 .. sent
      BY <2>2 DEF OutOrder
    <3>2. ASSUME NEW m \in queued' PROVE m > h
      <4>1. m \in Nat
        <5>1. sent \in Nat
          BY DEF OutInv
        <5> QED BY <2>5, <3>1, <5>1
      <4>2. h < m
        BY <2>2, <2>3, <2>5 DEF Below
      <4> QED BY <2>2, <4>1, <4>2
    <3> QED BY <3>2
  <2>7. CASE wire' = wire
    <3>1. Outbound!Lose
      BY <2>1, <2>5, <2>7 DEF Outbound!Lose, queued
    <3> QED BY <2>4, <3>1 DEF OutStep, Outbound!Next
  <2>8. CASE wire' = h
    <3>1. h \notin queued'
      BY <2>2, <2>6
    <3>2. /\ queued' \subseteq queued /\ wire' \in queued \ queued'
          /\ \A m \in queued' : m > wire'
      BY <2>5, <2>6, <2>8, <3>1
    <3>3. Outbound!Deliver
      BY <2>1, <3>2 DEF Outbound!Deliver, queued
    <3> QED BY <2>4, <3>3 DEF OutStep, Outbound!Next
  <2> QED BY <2>1, <2>7, <2>8
<1>6. CASE Close
  <2>1. UNCHANGED <<outgoing, sent, wire>> /\ tx' = close(tx)
    BY <1>6 DEF Close
  <2> QED BY <1>0, <1>2, <2>1, DrainedEffect
<1>7. CASE \/ Start \/ Poll \/ Stop \/ Shutdown \/ Join \/ Test \/ Receive \/ Take
           \/ TakeNothing \/ Store \/ TransmitNothing
           \/ \E from \in Endpoints : Arrive(from) \/ ArriveNoise(from)
           \/ UNCHANGED vars
  <2>1. UNCHANGED <<outgoing, sent, wire, tx>>
    BY <1>7 DEF Start, Poll, Stop, Shutdown, Join, Test, Receive, Take, TakeNothing,
                Store, TransmitNothing, Arrive, ArriveNoise, vars, outbound
  <2> QED BY <1>2, <2>1
<1> QED
  BY <1>3, <1>4, <1>5, <1>6, <1>7 DEF Next, App, Worker

LEMMA InOrderStep ==
  ASSUME Control, InInv, InInv', InOrder, [Next]_vars
  PROVE  InOrder' /\ InStep
<1>0. /\ rx \in Queue(Nat) /\ rx.items \in Seq(Nat) /\ batch \in Seq(Nat)
      /\ socket \in Seq(Datagram) /\ arrived \in Nat /\ polled \in Nat
  BY HeldEffect DEF InInv
<1>1. /\ coming = elements(rx.items) \cup elements(batch) \cup numbers(socket)
      /\ coming' = elements(rx'.items) \cup elements(batch') \cup numbers(socket')
  <2>1. batch' \in Seq(Nat) /\ rx' \in Queue(Nat)
    BY DEF InInv
  <2>2. rx'.items \in Seq(Nat)
    BY <2>1, HeldEffect
  <2>3. coming' = elements(rx'.items \o batch') \cup numbers(socket')
    BY DEF coming, numbers, spoken
  <2> QED BY <2>1, <2>2, <2>3, ComingType, ElementsConcat
<1>2. ASSUME UNCHANGED <<batch, arrived, polled>>, rx'.items = rx.items,
             InLine(socket'), numbers(socket') = numbers(socket)
      PROVE  InOrder' /\ InStep
  <2>1. coming' = coming
    BY <1>1, <1>2
  <2>2. /\ InLine(socket)' = InLine(socket') /\ numbers(socket)' = numbers(socket')
    BY DEF InLine, numbers, spoken
  <2>3. InOrder'
    BY <1>2, <2>2 DEF InOrder
  <2> QED BY <1>2, <2>1, <2>3 DEF InStep
<1>3. ASSUME UNCHANGED <<batch, arrived, polled>>, rx'.items = rx.items,
             NEW from \in Endpoints \cup {Self},
             socket' = Append(socket, [messages |-> <<>>, from |-> from])
      PROVE  InOrder' /\ InStep
  <2> DEFINE d == [messages |-> <<>>, from |-> from]
  <2>1. d \in Datagram /\ d.messages = <<>>
    BY DEF Datagram
  <2>2. /\ InLine(Append(socket, d))
        /\ numbers(Append(socket, d)) = numbers(socket) \cup elements(d.messages)
    BY <1>0, <2>1, NumbersAppend DEF InOrder
  <2>3. numbers(socket') = numbers(socket)
    BY <1>3, <2>1, <2>2, ElementsEmpty
  <2> QED BY <1>2, <1>3, <2>2, <2>3
<1>4. CASE Poll
  <2> DEFINE n == Len(rx.items)
  <2>1. /\ rx.items # <<>> /\ rx' = drained(rx) /\ polled' = rx.items[n]
        /\ UNCHANGED <<batch, socket, arrived>>
    BY <1>4 DEF Poll
  <2>2. rx'.items = <<>> /\ elements(<<>>) = {} /\ Ascending(<<>>)
    BY <1>0, <2>1, DrainedEffect, ElementsEmpty
  <2>3. n \in DOMAIN rx.items /\ polled' \in elements(rx.items)
    <3>1. n \in DOMAIN rx.items
      BY <1>0, <2>1
    <3> QED BY <2>1, <3>1 DEF elements
  <2>4. /\ Below({polled'}, elements(batch)) /\ Below({polled'}, numbers(socket))
        /\ polled' \in 1 .. arrived
    BY <2>3 DEF InOrder, Below
  <2>5. coming' = elements(batch) \cup numbers(socket)
    BY <1>1, <2>1, <2>2
  <2>6. coming \subseteq 1 .. arrived
    BY <1>1 DEF InOrder
  <2>7. \A m \in coming' : m > polled'
    <3>1. ASSUME NEW m \in coming' PROVE m > polled'
      <4>1. m \in Nat
        BY <1>1, <2>5, <2>6
      <4> DEFINE p == polled'
      <4>2. p \in Nat
        BY <2>4
      <4>3. p < m
        BY <2>4, <2>5 DEF Below
      <4> HIDE DEF p
      <4>4. m > p
        BY <4>1, <4>2, <4>3
      <4> QED BY <4>4 DEF p
    <3> QED BY <3>1
  <2>8. polled' \notin coming'
    <3> DEFINE p == polled'
    <3>1. p \in Nat
      BY <2>4
    <3> HIDE DEF p
    <3>2. ~(p > p)
      BY <3>1
    <3> QED BY <2>7, <3>2 DEF p
  <2>9. InOrder'
    <3>1. /\ polled' =< arrived'
      BY <2>1, <2>4
    <3>2. InLine(socket)' /\ numbers(socket)' = numbers(socket)
      BY <2>1 DEF InOrder, InLine, numbers, spoken
    <3> QED BY <2>1, <2>2, <2>4, <3>1, <3>2 DEF InOrder, Below
  <2>10. /\ coming' \subseteq coming /\ polled' \in coming \ coming'
    BY <1>1, <2>3, <2>5, <2>8
  <2>11. Inbound!Deliver
    BY <2>1, <2>7, <2>10 DEF Inbound!Deliver, coming
  <2> QED BY <2>9, <2>11 DEF InStep, Inbound!Next
<1>5. CASE Take
  <2> DEFINE d == Head(socket)
             t == Tail(socket)
  <2>1. /\ socket # <<>> /\ socket' = t /\ batch' = batch \o d.messages
        /\ UNCHANGED <<rx, arrived, polled>>
    BY <1>5 DEF Take
  <2>2. /\ t \in Seq(Datagram) /\ d \in Datagram
        /\ InLine(t) /\ numbers(socket) = elements(d.messages) \cup numbers(t)
        /\ Below(elements(d.messages), numbers(t))
    BY <1>0, <2>1, SpokenTail, NumbersTail DEF InOrder
  <2> HIDE DEF d, t
  <2>3. d.messages \in Seq(Nat)
    BY <2>2, MessagesType
  <2>4. elements(batch') = elements(batch) \cup elements(d.messages)
    BY <1>0, <2>1, <2>3, ElementsConcat
  <2>5. Ascending(batch')
    <3>1. CASE d.messages = <<>>
      <4>1. batch' = batch
        BY <1>0, <2>1, <3>1
      <4> QED BY <4>1 DEF InOrder
    <3>2. CASE d.messages # <<>>
      <4> DEFINE v == Head(d.messages)
      <4>1. d.messages = <<v>> /\ v \in Nat
        BY <2>2, <3>2, MessagesType
      <4> HIDE DEF v
      <4>2. batch' = Append(batch, v)
        BY <1>0, <2>1, <4>1
      <4>3. v \in elements(d.messages)
        BY <4>1 DEF elements
      <4>4. Below(elements(batch), {v})
        BY <2>2, <4>3 DEF InOrder, Below
      <4> QED BY <1>0, <4>1, <4>2, <4>4, ElementsAppend DEF InOrder
    <3> QED BY <3>1, <3>2
  <2>6. InOrder'
    <3>1. InLine(socket)' /\ numbers(socket)' = numbers(t)
      BY <2>1, <2>2 DEF InLine, numbers, spoken
    <3>2. /\ elements(rx.items) \cup elements(batch') \cup numbers(t) \subseteq 1 .. arrived
          /\ Below({polled}, elements(batch')) /\ Below({polled}, numbers(t))
          /\ Below(elements(rx.items), elements(batch'))
          /\ Below(elements(rx.items), numbers(t))
          /\ Below(elements(batch'), numbers(t))
      BY <2>2, <2>4 DEF InOrder, Below
    <3> QED BY <2>1, <2>5, <3>1, <3>2 DEF InOrder
  <2>7. coming' = coming
    <3>1. numbers(socket') = numbers(t)
      BY <2>1
    <3> QED BY <1>1, <2>1, <2>2, <2>4, <3>1
  <2> QED BY <2>1, <2>6, <2>7 DEF InStep
<1>6. CASE TakeNothing
  <2>1. /\ UNCHANGED <<batch, arrived, polled, rx>>
        /\ \/ socket' = socket
           \/ /\ socket # <<>> /\ Head(socket).messages = <<>>
              /\ socket' = Tail(socket)
    BY <1>6 DEF TakeNothing
  <2>2. InLine(socket') /\ numbers(socket') = numbers(socket)
    <3>1. CASE socket' = socket
      BY <3>1 DEF InOrder
    <3>2. CASE socket # <<>> /\ Head(socket).messages = <<>> /\ socket' = Tail(socket)
      BY <1>0, <3>2, NumbersTail, ElementsEmpty DEF InOrder
    <3> QED BY <2>1, <3>1, <3>2
  <2> QED BY <1>2, <2>1, <2>2
<1>7. CASE Store
  <2>1. CASE batch = <<>>
    <3>1. UNCHANGED <<batch, arrived, polled, rx, socket>>
      BY <1>7, <2>1 DEF Store
    <3>2. InLine(socket') /\ numbers(socket') = numbers(socket)
      BY <3>1 DEF InOrder
    <3> QED BY <1>2, <3>1, <3>2
  <2>2. CASE batch # <<>>
    <3> DEFINE v == Head(batch)
               t == Tail(batch)
    <3>1. /\ rx' = push(rx, v) /\ batch' = t /\ UNCHANGED <<arrived, polled, socket>>
      BY <1>7, <2>2 DEF Store
    <3>2. /\ v \in Nat /\ Ascending(t) /\ elements(batch) = {v} \cup elements(t)
          /\ Below({v}, elements(t))
      BY <1>0, <2>2, ElementsTail DEF InOrder
    <3> HIDE DEF v, t
    <3>3. Below(elements(rx.items), {v})
      BY <3>2 DEF InOrder, Below
    <3>4. /\ Ascending(rx'.items)
          /\ elements(rx'.items) \subseteq elements(rx.items) \cup {v}
      BY <1>0, <3>1, <3>2, <3>3, PushOrder DEF InOrder
    <3>5. InOrder'
      <4>1. InLine(socket)' /\ numbers(socket)' = numbers(socket)
        BY <3>1 DEF InOrder, InLine, numbers, spoken
      <4>2. elements(rx'.items) \cup elements(t) \cup numbers(socket)
               \subseteq 1 .. arrived
        BY <3>2, <3>4 DEF InOrder
      <4>3. /\ Below({polled}, elements(rx'.items)) /\ Below({polled}, elements(t))
            /\ Below({polled}, numbers(socket))
        BY <3>2, <3>4 DEF InOrder, Below
      <4>4. /\ Below(elements(rx'.items), elements(t))
            /\ Below(elements(rx'.items), numbers(socket))
            /\ Below(elements(t), numbers(socket))
        BY <3>2, <3>4 DEF InOrder, Below
      <4> QED BY <3>1, <3>2, <3>4, <4>1, <4>2, <4>3, <4>4 DEF InOrder
    <3>6. coming' \subseteq coming
      BY <1>1, <3>1, <3>2, <3>4
    <3>7. Inbound!Lose
      BY <3>1, <3>6 DEF Inbound!Lose, coming
    <3> QED BY <3>5, <3>7 DEF InStep, Inbound!Next
  <2> QED BY <2>1, <2>2
<1>8. CASE Shutdown
  <2>1. /\ UNCHANGED <<batch, arrived, polled, rx>>
        /\ \/ socket' = socket
           \/ socket' = Append(socket, [messages |-> <<>>, from |-> Self])
    BY <1>8 DEF Shutdown
  <2>2. CASE socket' = socket
    <3>1. InLine(socket') /\ numbers(socket') = numbers(socket)
      BY <2>2 DEF InOrder
    <3> QED BY <1>2, <2>1, <3>1
  <2>3. CASE socket' = Append(socket, [messages |-> <<>>, from |-> Self])
    BY <1>3, <2>1, <2>3
  <2> QED BY <2>1, <2>2, <2>3
<1>9. ASSUME NEW from \in Endpoints, ArriveNoise(from)
      PROVE  InOrder' /\ InStep
  <2>1. /\ UNCHANGED <<batch, arrived, polled, rx>>
        /\ socket' = Append(socket, [messages |-> <<>>, from |-> from])
    BY <1>9 DEF ArriveNoise
  <2> QED BY <1>3, <2>1
<1>10. ASSUME NEW from \in Endpoints, Arrive(from)
       PROVE  InOrder' /\ InStep
  <2> DEFINE d == [messages |-> <<arrived + 1>>, from |-> from]
  <2>1. /\ UNCHANGED <<batch, polled, rx>> /\ arrived' = arrived + 1
        /\ socket' = socket \/ socket' = Append(socket, d)
    BY <1>10 DEF Arrive
  <2>2. /\ d \in Datagram /\ d.messages = <<arrived + 1>> /\ arrived + 1 \in Nat
        /\ d.messages # <<>> /\ Head(d.messages) = arrived + 1
    BY <1>0 DEF Datagram
  <2> HIDE DEF d
  <2>3. Below(numbers(socket), {Head(d.messages)})
    BY <1>0, <2>2 DEF InOrder, Below
  <2>4. elements(<<arrived + 1>>) = {arrived + 1}
    BY DEF elements
  <2>5. /\ InLine(socket')
        /\ numbers(socket') \subseteq numbers(socket) \cup {arrived + 1}
    <3>1. CASE socket' = socket
      BY <3>1 DEF InOrder
    <3>2. CASE socket' = Append(socket, d)
      BY <1>0, <2>2, <2>3, <2>4, <3>2, NumbersAppend DEF InOrder
    <3> QED BY <2>1, <3>1, <3>2
  <2>6. InOrder'
    <3>1. InLine(socket)' /\ numbers(socket)' = numbers(socket')
      BY <2>5 DEF InLine, numbers, spoken
    <3>2. elements(rx.items) \cup elements(batch) \cup numbers(socket')
             \subseteq 1 .. arrived + 1
      BY <1>0, <2>5 DEF InOrder
    <3>3. /\ Below({polled}, numbers(socket'))
          /\ Below(elements(rx.items), numbers(socket'))
          /\ Below(elements(batch), numbers(socket'))
      <4>1. polled < arrived + 1
        BY <1>0 DEF InOrder
      <4>2. \A m \in elements(rx.items) \cup elements(batch) : m < arrived + 1
        BY <1>0 DEF InOrder
      <4> QED BY <2>5, <4>1, <4>2 DEF InOrder, Below
    <3>4. polled' =< arrived'
      BY <1>0, <2>1 DEF InOrder
    <3> QED BY <2>1, <3>1, <3>2, <3>3, <3>4 DEF InOrder
  <2>7. coming' \subseteq coming \cup {arrived + 1}
    BY <1>1, <2>1, <2>5
  <2>8. Inbound!Send
    BY <2>1, <2>7 DEF Inbound!Send, coming
  <2> QED BY <2>6, <2>8 DEF InStep, Inbound!Next
<1>11. CASE Close
  <2>1. UNCHANGED <<batch, arrived, polled, socket>> /\ rx' = close(rx)
    BY <1>11 DEF Close
  <2>2. rx'.items = rx.items
    BY <1>0, <2>1, DrainedEffect
  <2>3. InLine(socket') /\ numbers(socket') = numbers(socket)
    BY <2>1 DEF InOrder
  <2> QED BY <1>2, <2>1, <2>2, <2>3
<1>12. CASE \/ Start \/ Send \/ Stop \/ Join \/ Test \/ Receive \/ Drain \/ Transmit
            \/ TransmitNothing \/ UNCHANGED vars
  <2>1. UNCHANGED <<batch, arrived, polled, socket, rx>>
    BY <1>12 DEF Start, Send, Stop, Join, Test, Receive, Drain, Transmit,
                 TransmitNothing, vars, inbound
  <2>2. InLine(socket') /\ numbers(socket') = numbers(socket)
    BY <2>1 DEF InOrder
  <2> QED BY <1>2, <2>1, <2>2
<1> QED
  BY <1>4, <1>5, <1>6, <1>7, <1>8, <1>9, <1>10, <1>11, <1>12 DEF Next, App, Worker

-----------------------------------------------------------------------------
(***************************************************************************)
(* The theorems.                                                           *)
(***************************************************************************)
\* However the application and the network flood the channel, neither queue holds
\* more than its capacity (BoundedQueue::push).
THEOREM BoundedForEver == Spec => []QueuesAreBounded
<1>1. IInv => QueuesAreBounded
  BY DEF IInv, OutInv, InInv, QueuesAreBounded
<1> QED BY Invariance, <1>1, PTL

\* Every message sent and every message that arrived is accounted for, whatever the
\* interleaving of the two threads, the network, and start() and stop().
THEOREM AccountIsComplete == Spec => []NothingIsLostSilently
<1>1. ASSUME IInv PROVE NothingIsLostSilently
  <2>1. /\ Len(tx.items) \in Nat /\ tx.dropped \in Nat
        /\ Len(rx.items) \in Nat /\ rx.dropped \in Nat
        /\ Len(outgoing) \in Nat /\ Len(batch) \in Nat
        /\ Cardinality(spoken(socket)) \in Nat
    <3>1. /\ outgoing \in Seq(Nat) /\ batch \in Seq(Nat)
          /\ Cardinality(spoken(socket)) \in Nat
      BY <1>1, SpokenFinite DEF IInv, OutInv, InInv
    <3>2. tx \in Queue(Nat) /\ rx \in Queue(Nat)
      BY <1>1 DEF IInv, OutInv, InInv
    <3>3. ASSUME NEW q \in Queue(Nat)
          PROVE  Len(q.items) \in Nat /\ q.dropped \in Nat
      BY DEF Queue
    <3> QED BY <3>1, <3>2, <3>3
  <2> DEFINE a == Len(outgoing)
             b == Len(tx.items)
             c == tx.dropped
             d == Len(batch)
             e == Cardinality(spoken(socket))
             f == Len(rx.items)
             g == rx.dropped
  <2>2. /\ a \in Nat /\ b \in Nat /\ c \in Nat
        /\ onWire \in Nat /\ dropped_no_peer \in Nat /\ refused \in Nat
        /\ sent = onWire + a + (b + c) + dropped_no_peer + refused
    BY <1>1, <2>1 DEF IInv, OutInv, held
  <2>3. /\ d \in Nat /\ e \in Nat /\ f \in Nat /\ g \in Nat
        /\ nPolled \in Nat /\ lost \in Nat
        /\ arrived = nPolled + (f + g) + d + e + lost
    BY <1>1, <2>1 DEF IInv, InInv, held
  <2> HIDE DEF a, b, c, d, e, f, g
  <2>4. sent = onWire + a + b + c + dropped_no_peer + refused
    BY <2>2
  <2>5. arrived = nPolled + f + d + e + g + lost
    BY <2>3
  <2> QED BY <2>4, <2>5 DEF NothingIsLostSilently, a, b, c, d, e, f, g
<1> QED BY Invariance, <1>1, PTL

\* When stop() has returned, what was sent before the call has left the queue, and
\* what the worker had received is in rx.
THEOREM StopFlushesForEver == Spec => []StopFlushes
<1>1. IInv => StopFlushes
  BY DEF IInv, Control, OutInv, InInv, StopInv, newer, StopFlushes
<1> QED BY Invariance, <1>1, PTL

\* After the shutdown of the socket the worker takes at most one more datagram.
THEOREM FloodIsHarmless == Spec => []FloodDoesNotDelayStop
<1>1. IInv => FloodDoesNotDelayStop
  BY DEF IInv, LateInv, FloodDoesNotDelayStop
<1> QED BY Invariance, <1>1, PTL

\* Nobody but a sender of messages becomes the peer.
THEOREM PeerIsHeardForEver == Spec => []PeerIsHeard
<1>1. IInv => PeerIsHeard
  BY ChannelAssumption DEF IInv, InInv, PeerIsHeard
<1> QED BY Invariance, <1>1, PTL

LEMMA InitOrder ==
  Init => OutOrder /\ InOrder /\ Outbound!Init /\ Inbound!Init
<1> SUFFICES ASSUME Init
             PROVE  OutOrder /\ InOrder /\ Outbound!Init /\ Inbound!Init
  OBVIOUS
<1>1. /\ outgoing = <<>> /\ tx.items = <<>> /\ sent = 0 /\ wire = 0
      /\ rx.items = <<>> /\ batch = <<>> /\ socket = <<>> /\ arrived = 0
      /\ polled = 0
  BY DEF Init, EmptyQueue
<1>2. /\ elements(<<>>) = {} /\ Ascending(<<>>)
  BY ElementsEmpty
<1>3. spoken(<<>>) = {}
  BY DEF spoken
<1>4. numbers(socket) = {} /\ InLine(socket)
  BY <1>1, <1>3 DEF numbers, InLine
<1>5. <<>> \o <<>> = <<>>
  OBVIOUS
<1>6. OutOrder /\ InOrder
  BY <1>1, <1>2, <1>4 DEF OutOrder, InOrder, Below
<1> QED BY <1>1, <1>2, <1>4, <1>5, <1>6 DEF Outbound!Init, Inbound!Init

LEMMA OrderInductive ==
  IInv /\ OutOrder /\ InOrder /\ [Next]_vars => (IInv /\ OutOrder /\ InOrder)'
<1> SUFFICES ASSUME IInv, OutOrder, InOrder, [Next]_vars
             PROVE  (IInv /\ OutOrder /\ InOrder)'
  OBVIOUS
<1>1. IInv'
  BY ControlInductive, OutInductive, InInductive, StopInductive, LateInductive
  DEF IInv
<1>2. Control /\ OutInv /\ OutInv' /\ InInv /\ InInv'
  BY <1>1 DEF IInv
<1> QED BY <1>1, <1>2, OutOrderStep, InOrderStep

LEMMA OrderInvariance == Spec => [](IInv /\ OutOrder /\ InOrder)
  BY InitIInv, InitOrder, OrderInductive, PTL DEF Spec

LEMMA OrderIs ==
  ASSUME IInv, OutOrder, InOrder
  PROVE  Outbound!Ordered /\ Inbound!Ordered
<1>1. queued = elements(outgoing) \cup elements(tx.items)
  BY QueuedType DEF IInv
<1>2. coming = elements(rx.items) \cup elements(batch) \cup numbers(socket)
  BY ComingType DEF IInv
<1>3. wire \in Nat /\ polled \in Nat /\ sent \in Nat /\ arrived \in Nat
  BY DEF IInv, OutInv, InInv
<1>4. wire =< sent /\ \A m \in queued : m \in 1 .. sent /\ wire < m
  BY <1>1 DEF OutOrder, Below
<1>5. polled =< arrived /\ \A m \in coming : m \in 1 .. arrived /\ polled < m
  BY <1>2 DEF InOrder, Below
<1>6. Outbound!Ordered
  BY <1>3, <1>4 DEF Outbound!Ordered, queued
<1>7. Inbound!Ordered
  BY <1>3, <1>5 DEF Inbound!Ordered, coming
<1> QED BY <1>6, <1>7

\* In both directions every message under way is newer than all that came out
\* (the queues of BoundedQueue, the batches of the worker and the socket's buffer).
THEOREM ChannelIsOrdered == Spec => [](Outbound!Ordered /\ Inbound!Ordered)
<1>1. IInv /\ OutOrder /\ InOrder => Outbound!Ordered /\ Inbound!Ordered
  BY OrderIs
<1> QED BY <1>1, OrderInvariance, PTL

\* The number of the last message that left, and of the last that poll() returned,
\* never falls: none is repeated or overtaken, across restarts too.
THEOREM ChannelNeverRepeats ==
  Spec => [][/\ wire' # wire => wire' > wire
             /\ polled' # polled => polled' > polled]_vars
<1>1. IInv /\ IInv' /\ OutOrder /\ InOrder /\ [Next]_vars
        => [/\ wire' # wire => wire' > wire
            /\ polled' # polled => polled' > polled]_vars
  <2> SUFFICES ASSUME IInv, IInv', OutOrder, InOrder, [Next]_vars
               PROVE  /\ wire' # wire => wire' > wire
                      /\ polled' # polled => polled' > polled
    OBVIOUS
  <2>1. OutStep /\ InStep
    BY OutOrderStep, InOrderStep DEF IInv
  <2>2. Outbound!Ordered /\ Inbound!Ordered
    BY OrderIs
  <2>3. wire' # wire => wire' \in queued
    BY <2>1 DEF OutStep, queued, Outbound!Next, Outbound!Send, Outbound!Lose,
                Outbound!Deliver
  <2>4. polled' # polled => polled' \in coming
    BY <2>1 DEF InStep, coming, Inbound!Next, Inbound!Send, Inbound!Lose, Inbound!Deliver
  <2> QED BY <2>2, <2>3, <2>4 DEF Outbound!Ordered, Inbound!Ordered, queued, coming
<1> QED BY <1>1, OrderInvariance, PTL DEF Spec

\* In both directions the channel implements the abstract link of LossyFifo: under
\* every interleaving, and across every restart, nothing comes out that was not put
\* in, nothing twice, and nothing overtakes.
THEOREM ChannelIsLossyFifo == Spec => IsLossyFifo
<1>1. /\ IInv /\ IInv' /\ OutOrder /\ InOrder /\ [Next]_vars
      => /\ [Outbound!Next]_(Outbound!vars)
         /\ [Inbound!Next]_(Inbound!vars)
  <2> SUFFICES ASSUME IInv, IInv', OutOrder, InOrder, [Next]_vars
               PROVE  /\ [Outbound!Next]_(Outbound!vars)
                      /\ [Inbound!Next]_(Inbound!vars)
    OBVIOUS
  <2>1. Control /\ OutInv /\ OutInv' /\ InInv /\ InInv'
    BY DEF IInv
  <2>2. OutStep /\ InStep
    BY <2>1, OutOrderStep, InOrderStep
  <2> QED BY <2>2 DEF OutStep, InStep, queued, coming, Outbound!vars, Inbound!vars
<1> QED
  BY <1>1, InitOrder, OrderInvariance, PTL DEF Spec, IsLossyFifo, Outbound!Spec, Inbound!Spec
=============================================================================
