--------------------------- MODULE LoopbackNetwork ---------------------------
(***************************************************************************)
(* The in-memory network of the integration suite, with a synchronous      *)
(* channel on each of its ports.  One thread drives everything, so every   *)
(* call is one step; what the suite varies is the order of the calls, the  *)
(* loss and the partitions, and when a port is destroyed and made anew.    *)
(*                                                                         *)
(* The network holds raw pointers to the ports and does not own them: a    *)
(* port is a numbered object here, and an entry of the map is its number.  *)
(***************************************************************************)
EXTENDS Integers, SequencesExt

CONSTANTS
    Ports,
    Peer,        \* the peer each port's channel is configured with, an optional
    Ratios,      \* the losses that are asked for, in percent
    Learning,    \* the ports whose channel learns its peer from traffic
    MaxSent,     \* messages that are sent
    MaxCreated   \* ports that are created

ASSUME LoopbackAssumption ==
    /\ Peer \in [Ports -> {{}} \cup {{p} : p \in Ports}]
    /\ Learning \subseteq Ports
    /\ Ratios \subseteq Int
    /\ MaxSent \in Nat /\ MaxCreated \in Nat

VARIABLES
    ports_,       \* the map: number of the object behind a port
    object,       \* the objects alive: port, inbox_ and peer
    packet_loss_, \* in percent
    partitioned_,
    delivered_, dropped_,
    \* History:
    created,      \* how many ports were
    said,         \* number of the last message each port sent
    heard,        \* and of the last one each port polled from each other
    unaddressed,  \* dropped_no_peer_ of all channels
    polled,       \* messages that were
    discarded     \* and that left an inbox otherwise

faults == <<packet_loss_, partitioned_>>
counters == <<delivered_, dropped_>>
vars == <<ports_, object, faults, counters, created, said, heard, unaddressed,
          polled, discarded>>

Init ==
    /\ ports_ = <<>> /\ object = <<>>
    /\ packet_loss_ = 0 /\ partitioned_ = FALSE
    /\ delivered_ = 0 /\ dropped_ = 0
    /\ created = 0 /\ unaddressed = 0 /\ polled = 0 /\ discarded = 0
    /\ said = [p \in Ports |-> 0]
    /\ heard = [p \in Ports |-> [q \in Ports |-> 0]]

\* The sum of the values of a function.
total(f) == Cardinality(UNION {{x} \X (1 .. f[x]) : x \in DOMAIN f})

without(f, x) == [y \in DOMAIN f \ {x} |-> f[y]]

with(f, x, v) == [y \in DOMAIN f \cup {x} |-> IF y = x THEN v ELSE f[y]]

\* A new port.
endpoint(p) == [port |-> p, inbox_ |-> <<>>, peer |-> Peer[p]]

\* Mutant: the new port is made before the check, and destroyed when it fails.
create_endpoint_Late(p) ==
    /\ created < MaxCreated
    /\ created' = created + 1
    /\ IF p \in DOMAIN ports_
         THEN ports_' = without(ports_, p) /\ UNCHANGED object
         ELSE /\ ports_' = with(ports_, p, created')
              /\ object' = with(object, created', endpoint(p))
    /\ UNCHANGED <<faults, counters, said, heard, unaddressed, polled, discarded>>

\* A port in use is refused, and nothing changes.
create_endpoint(p) ==
    /\ p \notin DOMAIN ports_ /\ created < MaxCreated
    /\ created' = created + 1
    /\ ports_' = with(ports_, p, created')
    /\ object' = with(object, created', endpoint(p))
    /\ UNCHANGED <<faults, counters, said, heard, unaddressed, polled, discarded>>

\* The channel is destroyed, and its port unregisters itself.
destroy(o) ==
    /\ ports_' = without(ports_, object[o].port)
    /\ object' = without(object, o)
    /\ discarded' = discarded + Len(object[o].inbox_)
    /\ UNCHANGED <<faults, counters, created, said, heard, unaddressed, polled>>

drop ==
    /\ dropped_' = dropped_ + 1
    /\ UNCHANGED <<delivered_, object>>

\* Mutant: a datagram for a port that does not exist is not counted.
deliver_Void(datagram, to) ==
    \/ partitioned_ /\ drop
    \/ ~partitioned_ /\ packet_loss_ > 0 /\ drop
    \/ /\ ~partitioned_ /\ packet_loss_ < 100
       /\ to \notin DOMAIN ports_
       /\ UNCHANGED <<counters, object>>
    \/ /\ ~partitioned_ /\ packet_loss_ < 100
       /\ to \in DOMAIN ports_
       /\ delivered_' = delivered_ + 1
       /\ object' = [object EXCEPT ![ports_[to]].inbox_ = Append(@, datagram)]
       /\ UNCHANGED dropped_

\* Lost in a partition, by chance, for want of a listener; or delivered.
deliver(datagram, to) ==
    \/ partitioned_ /\ drop
    \/ ~partitioned_ /\ packet_loss_ > 0 /\ drop
    \/ ~partitioned_ /\ packet_loss_ < 100 /\ to \notin DOMAIN ports_ /\ drop
    \/ /\ ~partitioned_ /\ packet_loss_ < 100
       /\ to \in DOMAIN ports_
       /\ delivered_' = delivered_ + 1
       /\ object' = [object EXCEPT ![ports_[to]].inbox_ = Append(@, datagram)]
       /\ UNCHANGED dropped_

\* SynchronousChannel::send.
send(o) ==
    LET from == object[o].port IN
    /\ total(said) < MaxSent
    /\ said' = [said EXCEPT ![from] = @ + 1]
    /\ IF object[o].peer = {}
         THEN unaddressed' = unaddressed + 1 /\ UNCHANGED <<counters, object>>
         ELSE /\ \E to \in object[o].peer :
                     deliver([from |-> from, number |-> said'[from]], to)
              /\ UNCHANGED unaddressed
    /\ UNCHANGED <<ports_, faults, created, heard, polled, discarded>>

\* What o has heard of q once it has read the datagrams.
newest(datagrams, q, before) ==
    LET of_q == {i \in DOMAIN datagrams : datagrams[i].from = q}
    IN  IF of_q = {} THEN before ELSE datagrams[Max(of_q)].number

\* Mutant: the inbox is read and keeps what it holds.
poll_Peek(o) ==
    LET inbox == object[o].inbox_  p == object[o].port IN
    /\ inbox # <<>>
    /\ object' = [object EXCEPT ![o].peer =
                    IF p \in Learning THEN {Last(inbox).from} ELSE @]
    /\ heard' = [heard EXCEPT ![p] = [q \in Ports |-> newest(inbox, q, @[q])]]
    /\ polled' = polled + Len(inbox)
    /\ UNCHANGED <<ports_, faults, counters, created, said, unaddressed, discarded>>

\* SynchronousChannel::poll reads the inbox to its end, and learns from each
\* datagram; every one holds a message.
poll(o) ==
    LET inbox == object[o].inbox_  p == object[o].port IN
    /\ inbox # <<>>
    /\ object' = [object EXCEPT ![o].inbox_ = <<>>,
                                ![o].peer = IF p \in Learning
                                            THEN {Last(inbox).from} ELSE @]
    /\ heard' = [heard EXCEPT ![p] = [q \in Ports |-> newest(inbox, q, @[q])]]
    /\ polled' = polled + Len(inbox)
    /\ UNCHANGED <<ports_, faults, counters, created, said, unaddressed, discarded>>

\* A port that is shut down loses what it holds, and goes on receiving.
shutdown(o) ==
    /\ object[o].inbox_ # <<>>
    /\ object' = [object EXCEPT ![o].inbox_ = <<>>]
    /\ discarded' = discarded + Len(object[o].inbox_)
    /\ UNCHANGED <<ports_, faults, counters, created, said, heard, unaddressed,
                   polled>>

clamped(ratio) == IF ratio < 0 THEN 0 ELSE IF ratio > 100 THEN 100 ELSE ratio

set_packet_loss(ratio) ==
    /\ packet_loss_' = clamped(ratio)
    /\ UNCHANGED <<ports_, object, partitioned_, counters, created, said, heard,
                   unaddressed, polled, discarded>>

set_partitioned ==
    /\ partitioned_' = ~partitioned_
    /\ UNCHANGED <<ports_, object, packet_loss_, counters, created, said, heard,
                   unaddressed, polled, discarded>>

Next ==
    \/ \E p \in Ports : create_endpoint(p)
    \/ \E o \in DOMAIN object : destroy(o) \/ send(o) \/ poll(o) \/ shutdown(o)
    \/ \E ratio \in Ratios : set_packet_loss(ratio)
    \/ set_partitioned

Spec == Init /\ [][Next]_vars

-----------------------------------------------------------------------------
\* The map points to the ports that are alive, each to its own, and to all of them:
\* deliver() never follows a pointer to a destroyed port, and a port that is alive
\* is never cut off by the making or the end of another.
PointersAreAlive ==
    /\ \A p \in DOMAIN ports_ : /\ ports_[p] \in DOMAIN object
                                /\ object[ports_[p]].port = p
    /\ \A o \in DOMAIN object : /\ object[o].port \in DOMAIN ports_
                                /\ ports_[object[o].port] = o

\* The counters that the suite reads tell the fate of every message: however ports
\* come and go, what was sent is counted as delivered, dropped or unaddressed, and
\* what was delivered is in an inbox, polled or gone with its port.
CountersAddUp ==
    /\ total(said) = unaddressed + delivered_ + dropped_
    /\ delivered_ = polled + discarded
                    + total([o \in DOMAIN object |-> Len(object[o].inbox_)])

\* Between any two ports the network is a lossy first-in first-out link, through
\* losses, partitions and new ports at an old address: nothing is polled twice, out
\* of order, by another port, or without having been sent.
underway(p, q) ==
    UNION {{d.number : d \in {e \in ToSet(object[o].inbox_) : e.from = p}} :
           o \in {o \in DOMAIN object : object[o].port = q}}

Link(p, q) == INSTANCE LossyFifo WITH
    sent <- said[p], delivered <- heard[q][p], transit <- underway(p, q)

LinksAreLossyFifos ==
    /\ \A p, q \in Ports : Link(p, q)!Init
    /\ [][\A p, q \in Ports :
            Link(p, q)!Next \/ UNCHANGED <<said[p], heard[q][p], underway(p, q)>>]_vars
=============================================================================
