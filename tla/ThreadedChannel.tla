--------------------------- MODULE ThreadedChannel ---------------------------
(***************************************************************************)
(* The channel between the application and the socket: two bounded queues, *)
(* a worker thread that owns the socket, and the application thread, which *)
(* starts and stops the worker and otherwise only touches the queues.      *)
(* Every step of a thread holds a mutex once, or is one socket call.       *)
(*                                                                         *)
(* Messages are numbered: the application sends 1, 2, 3, ..., and the      *)
(* network delivers 1, 2, 3, ... in the other direction.  A datagram holds *)
(* the messages that the codec finds in it, one or none, and comes from an *)
(* endpoint, which matters to the peer that the channel learns.            *)
(***************************************************************************)
EXTENDS BoundedQueue, FiniteSets

CONSTANTS
    Endpoints,        \* addresses that messages come from
    Self,             \* the socket's own address
    ConfiguredPeer,   \* Config::peer, an optional
    LearnPeer,        \* Config::learn_peer_from_traffic
    SocketCapacity,   \* datagrams the kernel buffers for the socket
    MaxSent,          \* messages the application sends
    MaxArrived,       \* messages that arrive
    MaxNoise,         \* datagrams without a message that arrive
    MaxRefused,       \* times the kernel refuses to send
    MaxStarts         \* times the application starts the worker

ASSUME ChannelAssumption ==
    /\ ConfiguredPeer \in {{}} \cup {{e} : e \in Endpoints}
    /\ Self \notin Endpoints
    /\ LearnPeer \in BOOLEAN
    /\ SocketCapacity \in Nat \ {0}
    /\ MaxSent \in Nat /\ MaxArrived \in Nat /\ MaxNoise \in Nat
    /\ MaxRefused \in Nat /\ MaxStarts \in Nat

VARIABLES
    running,        \* the atomic flag that start and stop exchange
    app,            \* where the application thread is in stop()
    worker,         \* where the worker thread is in run()
    tx, rx,         \* the queues
    batch,          \* messages received and not yet pushed to rx
    outgoing,       \* messages drained from tx and not yet sent
    peer,           \* Config::peer
    dropped_no_peer,
    socket,         \* datagrams in the kernel's buffer
    shutting_down,  \* UdpSocket::shutting_down_
    \* History:
    sent, arrived, starts,   \* how many of each so far
    wire,           \* number of the last message put on the wire
    onWire,         \* how many messages were
    polled,         \* number of the last message the application polled
    nPolled,        \* how many it polled
    lost,           \* messages that found the kernel's buffer full
    noise,          \* how many datagrams without a message arrived
    refused,        \* how many messages the kernel refused to send
    last,           \* number of the last message sent before stop()
    late            \* datagrams taken after the socket was shut down

threads == <<running, app, worker, starts, last>>
outbound == <<tx, outgoing, dropped_no_peer, sent, wire, onWire, refused>>
inbound == <<rx, batch, peer, socket, arrived, noise, polled, nPolled,
             lost, late>>
vars == <<threads, outbound, inbound, shutting_down>>

Init ==
    /\ running = FALSE /\ app = "idle" /\ worker = "none"
    /\ tx = EmptyQueue /\ rx = EmptyQueue
    /\ batch = <<>> /\ outgoing = <<>> /\ socket = <<>>
    /\ peer = ConfiguredPeer
    /\ dropped_no_peer = 0
    /\ shutting_down = FALSE
    /\ sent = 0 /\ arrived = 0 /\ starts = 0 /\ last = 0
    /\ wire = 0 /\ onWire = 0 /\ polled = 0 /\ nPolled = 0 /\ lost = 0
    /\ late = 0 /\ noise = 0 /\ refused = 0

-----------------------------------------------------------------------------
(***************************************************************************)
(* The application thread.                                                 *)
(***************************************************************************)
Start ==
    /\ app = "idle" /\ ~running /\ starts < MaxStarts
    /\ running' = TRUE
    /\ worker' = "test"
    /\ starts' = starts + 1
    /\ late' = 0
    /\ UNCHANGED <<app, last, outbound, rx, batch, peer, socket, arrived,
                   noise, polled, nPolled, lost, shutting_down>>

Send ==
    /\ app = "idle" /\ sent < MaxSent
    /\ sent' = sent + 1
    /\ tx' = push(tx, sent + 1)
    /\ UNCHANGED <<threads, outgoing, dropped_no_peer, wire, onWire, refused,
                   inbound, shutting_down>>

Poll ==
    /\ app = "idle" /\ rx.items # <<>>
    /\ rx' = drained(rx)
    /\ polled' = rx.items[Len(rx.items)]
    /\ nPolled' = nPolled + Len(rx.items)
    /\ UNCHANGED <<threads, outbound, batch, peer, socket, arrived, noise, lost,
                   late, shutting_down>>

\* stop() is called on a running channel; on another it does nothing.
Stop ==
    /\ app = "idle" /\ running
    /\ running' = FALSE
    /\ app' = "shutdown"
    /\ last' = sent
    /\ UNCHANGED <<worker, starts, outbound, inbound, shutting_down>>

\* Mutant: the socket is woken up but not marked.
Shutdown_WakeOnly ==
    /\ app = "shutdown"
    /\ app' = "close"
    /\ socket' = Append(socket, [messages |-> <<>>, from |-> Self])
    /\ UNCHANGED <<running, worker, starts, last, outbound, rx, batch, peer,
                   arrived, noise, polled, nPolled, lost, late, shutting_down>>

\* UdpSocket::shutdown.  The byte that it sends to itself ends a pending wait and
\* holds no message; on a full buffer it is lost, and nobody waits.
Shutdown ==
    /\ app = "shutdown"
    /\ shutting_down' = TRUE
    /\ app' = "close"
    /\ socket' = IF Len(socket) < SocketCapacity
                    THEN Append(socket, [messages |-> <<>>, from |-> Self])
                    ELSE socket
    /\ UNCHANGED <<running, worker, starts, last, outbound, rx, batch, peer,
                   arrived, noise, polled, nPolled, lost, late>>

Close ==
    /\ app = "close"
    /\ tx' = close(tx) /\ rx' = close(rx)
    /\ app' = "join"
    /\ UNCHANGED <<running, worker, starts, last, outgoing, dropped_no_peer,
                   sent, wire, onWire, refused, batch, peer, socket, arrived,
                   noise, polled, nPolled, lost, late, shutting_down>>

Join ==
    /\ app = "join" /\ worker = "exited"
    /\ app' = "idle" /\ worker' = "none"
    /\ UNCHANGED <<running, starts, last, outbound, inbound, shutting_down>>

-----------------------------------------------------------------------------
(***************************************************************************)
(* The worker thread.                                                      *)
(***************************************************************************)
\* Mutants: the thread ends as soon as it sees the flag; it never looks at it.
Test_Abandon ==
    /\ worker = "test"
    /\ worker' = IF running THEN "receive" ELSE "exited"
    /\ UNCHANGED <<running, app, starts, last, outbound, inbound, shutting_down>>

Test_Never ==
    /\ worker = "test"
    /\ worker' = "receive"
    /\ UNCHANGED <<running, app, starts, last, outbound, inbound, shutting_down>>

Test ==
    /\ worker = "test"
    /\ worker' = IF running THEN "receive" ELSE "drainLast"
    /\ UNCHANGED <<running, app, starts, last, outbound, inbound, shutting_down>>

\* UdpSocket::receive: it reads nothing from a socket that is shut down, and
\* else waits for a datagram.
Receive ==
    /\ worker = "receive"
    /\ worker' = IF shutting_down THEN "store" ELSE "wait"
    /\ UNCHANGED <<running, app, starts, last, outbound, inbound, shutting_down>>

\* Mutant: whoever sends a datagram is the peer.
learned_Anybody(datagram) == IF LearnPeer THEN {datagram.from} ELSE peer

\* The peer once a datagram was read: a sender that speaks MAVLink.
learned(datagram) ==
    IF datagram.messages # <<>> /\ LearnPeer THEN {datagram.from} ELSE peer

\* SynchronousChannel::poll takes a datagram, learns its sender and asks for
\* another.
Take ==
    /\ worker = "wait" /\ socket # <<>>
    /\ worker' = "receive"
    /\ socket' = Tail(socket)
    /\ batch' = batch \o Head(socket).messages
    /\ peer' = learned(Head(socket))
    /\ late' = IF app \in {"close", "join"} THEN late + 1 ELSE late
    /\ UNCHANGED <<running, app, starts, last, outbound, rx, arrived, noise,
                   polled, nPolled, lost, shutting_down>>

\* When none comes, it returns what it took; and when one comes that is empty,
\* which the socket takes for none.
TakeNothing ==
    /\ worker = "wait"
    /\ worker' = "store"
    /\ \/ /\ socket = <<>>
          /\ UNCHANGED <<socket, late>>
       \/ /\ socket # <<>> /\ Head(socket).messages = <<>>
          /\ socket' = Tail(socket)
          /\ late' = IF app \in {"close", "join"} THEN late + 1 ELSE late
    /\ UNCHANGED <<running, app, starts, last, outbound, rx, batch, peer, arrived,
                   noise, polled, nPolled, lost, shutting_down>>

\* Each message received is pushed to rx.
Store ==
    /\ worker = "store"
    /\ \/ /\ batch # <<>>
          /\ rx' = push(rx, Head(batch))
          /\ batch' = Tail(batch)
          /\ UNCHANGED worker
       \/ /\ batch = <<>>
          /\ worker' = "drain"
          /\ UNCHANGED <<rx, batch>>
    /\ UNCHANGED <<running, app, starts, last, outbound, peer, socket, arrived,
                   noise, polled, nPolled, lost, late, shutting_down>>

\* Mutant: what is drained stays in the queue when the thread was told to stop.
Drain_Twice ==
    /\ worker \in {"drain", "drainLast"}
    /\ outgoing' = tx.items
    /\ tx' = IF running THEN drained(tx) ELSE tx
    /\ worker' = IF worker = "drain" THEN "transmit" ELSE "transmitLast"
    /\ UNCHANGED <<running, app, starts, last, dropped_no_peer, sent, wire,
                   onWire, refused, inbound, shutting_down>>

Drain ==
    /\ worker \in {"drain", "drainLast"}
    /\ outgoing' = tx.items
    /\ tx' = drained(tx)
    /\ worker' = IF worker = "drain" THEN "transmit" ELSE "transmitLast"
    /\ UNCHANGED <<running, app, starts, last, dropped_no_peer, sent, wire,
                   onWire, refused, inbound, shutting_down>>

\* SynchronousChannel::send: to the peer, or nowhere.  The socket tells when the
\* kernel refuses a datagram, and the channel does not look.
Transmit ==
    /\ worker \in {"transmit", "transmitLast"} /\ outgoing # <<>>
    /\ outgoing' = Tail(outgoing)
    /\ \/ /\ peer # {}
          /\ wire' = Head(outgoing)
          /\ onWire' = onWire + 1
          /\ UNCHANGED <<dropped_no_peer, refused>>
       \/ /\ peer # {} /\ refused < MaxRefused
          /\ refused' = refused + 1
          /\ UNCHANGED <<wire, onWire, dropped_no_peer>>
       \/ /\ peer = {}
          /\ dropped_no_peer' = dropped_no_peer + 1
          /\ UNCHANGED <<wire, onWire, refused>>
    /\ UNCHANGED <<threads, tx, sent, inbound, shutting_down>>

TransmitNothing ==
    /\ worker \in {"transmit", "transmitLast"} /\ outgoing = <<>>
    /\ worker' = IF worker = "transmit" THEN "test" ELSE "exited"
    /\ UNCHANGED <<running, app, starts, last, outbound, inbound, shutting_down>>

-----------------------------------------------------------------------------
\* A message arrives, and is lost if the kernel's buffer is full.
Arrive(from) ==
    /\ arrived < MaxArrived
    /\ arrived' = arrived + 1
    /\ \/ /\ Len(socket) < SocketCapacity
          /\ socket' = Append(socket, [messages |-> <<arrived + 1>>, from |-> from])
          /\ UNCHANGED lost
       \/ /\ Len(socket) >= SocketCapacity
          /\ lost' = lost + 1
          /\ UNCHANGED socket
    /\ UNCHANGED <<threads, outbound, rx, batch, peer, noise, polled, nPolled,
                   late, shutting_down>>

\* So does a datagram in which the codec finds no message.
ArriveNoise(from) ==
    /\ noise < MaxNoise /\ Len(socket) < SocketCapacity
    /\ noise' = noise + 1
    /\ socket' = Append(socket, [messages |-> <<>>, from |-> from])
    /\ UNCHANGED <<threads, outbound, rx, batch, peer, arrived, polled, nPolled,
                   lost, late, shutting_down>>

App == Start \/ Send \/ Poll \/ Stop \/ Shutdown \/ Close \/ Join

Worker == \/ Test \/ Receive \/ Take \/ TakeNothing \/ Store
          \/ Drain \/ Transmit \/ TransmitNothing

Next == \/ App \/ Worker
        \/ \E from \in Endpoints : Arrive(from) \/ ArriveNoise(from)

Spec == Init /\ [][Next]_vars

\* The operating system runs both threads; a thread that called stop() goes on
\* to its end.  Nothing makes the application call, or a datagram arrive.
FairSpec == Spec /\ WF_vars(Worker) /\ WF_vars(Shutdown \/ Close \/ Join)

-----------------------------------------------------------------------------
\* A stalled consumer costs memory for Capacity messages and no more.
QueuesAreBounded ==
    Len(tx.items) =< Capacity /\ Len(rx.items) =< Capacity

\* The datagrams that hold a message.
spoken(datagrams) == {i \in DOMAIN datagrams : datagrams[i].messages # <<>>}

\* The messages that they hold.
numbers(datagrams) == {Head(datagrams[i].messages) : i \in spoken(datagrams)}

\* A message is lost only where a counter of the channel says so, or inside the
\* kernel: whatever the interleaving of the threads, starts and stops included,
\* every message sent is on the wire, under way, refused by the kernel or counted
\* as dropped, and likewise for every message that arrives.
NothingIsLostSilently ==
    /\ sent = onWire + Len(outgoing) + Len(tx.items)
              + tx.dropped + dropped_no_peer + refused
    /\ arrived = nPolled + Len(rx.items) + Len(batch) + Cardinality(spoken(socket))
                 + rx.dropped + lost

\* When stop() has returned, the worker is gone and everything sent before the
\* call, the final acknowledgement included, has left the queue.
StopFlushes ==
    starts > 0 /\ ~running /\ app = "idle" =>
        /\ worker = "none"
        /\ outgoing = <<>> /\ batch = <<>>
        /\ \A i \in DOMAIN tx.items : tx.items[i] > last

\* Datagrams that keep arriving do not delay stop(): after the shutdown of the
\* socket the worker takes at most the one it was waiting for.
FloodDoesNotDelayStop == late =< 1

\* The channel sends to its configured peer until a message has arrived: whoever
\* sends noise does not become the peer, nor does the socket by its own wake-up.
PeerIsHeard ==
    /\ peer # {Self}
    /\ arrived = 0 => peer = ConfiguredPeer

\* In both directions the channel is a lossy first-in first-out link, whatever its
\* threads do and however often it is stopped and started.
elements(s) == {s[i] : i \in DOMAIN s}

Outbound == INSTANCE LossyFifo WITH
    sent <- sent, delivered <- wire,
    transit <- elements(outgoing \o tx.items)

Inbound == INSTANCE LossyFifo WITH
    sent <- arrived, delivered <- polled,
    transit <- elements(rx.items \o batch) \cup numbers(socket)

IsLossyFifo == Outbound!Spec /\ Inbound!Spec

\* stop() returns, wherever it finds the worker and whatever is queued.
StopReturns == app # "idle" ~> app = "idle"

\* A message sent on a running channel leaves the queue, provided that the
\* datagrams that arrive meanwhile come to an end.
SentMessagesLeave == running /\ tx.items # <<>> ~> tx.items = <<>>

(***************************************************************************)
(* The comment on BoundedQueue says that dropping the oldest message is    *)
(* "what keeps memory usage provably flat under a command flood".  The     *)
(* messages of one pass over the socket are collected before the queue.    *)
(***************************************************************************)
MemoryIsFlat == Len(batch) =< Capacity + SocketCapacity
=============================================================================
