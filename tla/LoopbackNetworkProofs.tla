----------------------- MODULE LoopbackNetworkProofs -----------------------
(***************************************************************************)
(* Proofs about the in-memory network, for every set of ports, every       *)
(* configuration of their channels and every order of the calls.           *)
(*                                                                         *)
(* The objects that a call does not touch are the same before and after    *)
(* it, so that a call is described by what it does to one object.          *)
(***************************************************************************)
EXTENDS LoopbackNetwork, FiniteSetTheorems, NaturalsInduction,
        WellFoundedInduction, TLAPS

Datagram == [from : Ports, number : Nat]

Endpoint == [port : Ports, inbox_ : Seq(Datagram), peer : SUBSET Ports]

-----------------------------------------------------------------------------
(***************************************************************************)
(* What a call does to the objects.  o is the object it touches.           *)
(***************************************************************************)
\* The object made last is the only new one.
Made(p) ==
    /\ p \in Ports /\ p \notin DOMAIN ports_
    /\ created' = created + 1
    /\ DOMAIN ports_' = DOMAIN ports_ \cup {p}
    /\ ports_'[p] = created'
    /\ \A q \in DOMAIN ports_ : ports_'[q] = ports_[q]
    /\ DOMAIN object' = DOMAIN object \cup {created'}
    /\ \A x \in DOMAIN object : x # created' => object'[x] = object[x]

Gone(o) ==
    /\ o \in DOMAIN object
    /\ DOMAIN ports_' = DOMAIN ports_ \ {object[o].port}
    /\ \A q \in DOMAIN ports_' : ports_'[q] = ports_[q]
    /\ DOMAIN object' = DOMAIN object \ {o}
    /\ \A x \in DOMAIN object' : object'[x] = object[x]

\* The inbox of o is replaced.
Kept(o, inbox) ==
    /\ o \in DOMAIN object
    /\ ports_' = ports_
    /\ DOMAIN object' = DOMAIN object
    /\ object'[o].port = object[o].port
    /\ object'[o].inbox_ = inbox
    /\ \A x \in DOMAIN object \ {o} : object'[x] = object[x]

Still == ports_' = ports_ /\ object' = object

TypeOK ==
    /\ DOMAIN ports_ \subseteq Ports
    /\ created \in Nat
    /\ \A o \in DOMAIN object : o \in 1 .. created /\ object[o] \in Endpoint

LEMMA CreateEffect ==
  ASSUME TypeOK, NEW p \in Ports, create_endpoint(p)
  PROVE  Made(p) /\ object'[created'] = endpoint(p)
<1> DEFINE c == created'
<1>1. /\ p \notin DOMAIN ports_ /\ c = created + 1
      /\ ports_' = with(ports_, p, c)
      /\ object' = with(object, c, endpoint(p))
  BY DEF create_endpoint
<1>2. c \notin DOMAIN object
  BY <1>1 DEF TypeOK
<1> HIDE DEF c
<1>3. /\ ports_' = [q \in DOMAIN ports_ \cup {p} |->
                      IF q = p THEN c ELSE ports_[q]]
      /\ object' = [o \in DOMAIN object \cup {c} |->
                      IF o = c THEN endpoint(p) ELSE object[o]]
  BY <1>1 DEF with
<1> QED BY <1>1, <1>2, <1>3 DEF Made, c

LEMMA DestroyEffect ==
  ASSUME NEW o \in DOMAIN object, destroy(o)
  PROVE  Gone(o) /\ created' = created
  BY DEF destroy, without, Gone

\* An endpoint with another inbox.
LEMMA EndpointUpdate ==
  ASSUME NEW e \in Endpoint, NEW inbox \in Seq(Datagram)
  PROVE  /\ [e EXCEPT !.inbox_ = inbox] \in Endpoint
         /\ [e EXCEPT !.inbox_ = inbox].port = e.port
         /\ [e EXCEPT !.inbox_ = inbox].inbox_ = inbox
  BY DEF Endpoint

\* The fate of one message, as the counters tell it.
Lost ==
    /\ delivered_' = delivered_
    /\ \/ dropped_' = dropped_ + 1 /\ unaddressed' = unaddressed
       \/ dropped_' = dropped_ /\ unaddressed' = unaddressed + 1

Arrived ==
    /\ delivered_' = delivered_ + 1
    /\ dropped_' = dropped_ /\ unaddressed' = unaddressed

LEMMA DeliverEffect ==
  ASSUME TypeOK, PointersAreAlive, NEW d \in Datagram, NEW to, deliver(d, to),
         ports_' = ports_, unaddressed' = unaddressed
  PROVE  \/ Still /\ Lost
         \/ /\ to \in DOMAIN ports_ /\ Arrived
            /\ Kept(ports_[to], Append(object[ports_[to]].inbox_, d))
            /\ object'[ports_[to]] \in Endpoint
<1>1. CASE drop
  BY <1>1 DEF Still, Lost, drop
<1>2. CASE /\ to \in DOMAIN ports_
           /\ delivered_' = delivered_ + 1 /\ dropped_' = dropped_
           /\ object' = [object EXCEPT ![ports_[to]].inbox_ =
                            Append(object[ports_[to]].inbox_, d)]
  <2> DEFINE x == ports_[to]
             e == object[x]
             inbox == Append(e.inbox_, d)
             f == [e EXCEPT !.inbox_ = inbox]
  <2>1. /\ to \in DOMAIN ports_
        /\ object' = [object EXCEPT ![x].inbox_ = inbox]
    BY <1>2
  <2>2. x \in DOMAIN object /\ e \in Endpoint
    BY <2>1 DEF PointersAreAlive, TypeOK
  <2>3. object' = [object EXCEPT ![x] = f]
    BY <2>1
  <2>4. e.inbox_ \in Seq(Datagram)
    BY <2>2 DEF Endpoint
  <2>5. inbox \in Seq(Datagram)
    BY <2>4
  <2>6. f \in Endpoint /\ f.port = e.port /\ f.inbox_ = inbox
    BY <2>2, <2>5, EndpointUpdate
  <2> HIDE DEF x, e, f, inbox
  <2>7. DOMAIN object' = DOMAIN object /\ object'[x] = f
        /\ \A y \in DOMAIN object \ {x} : object'[y] = object[y]
    BY <2>2, <2>3
  <2>8. Kept(x, inbox)
    BY <2>2, <2>6, <2>7 DEF Kept, e
  <2> QED BY <1>2, <2>1, <2>6, <2>7, <2>8 DEF Arrived, x, e, inbox
<1> QED BY <1>1, <1>2 DEF deliver

\* The number that the next message of o gets.
Next_(o) == [from |-> object[o].port, number |-> said'[object[o].port]]

LEMMA SendEffect ==
  ASSUME TypeOK, PointersAreAlive, said' \in [Ports -> Nat],
         NEW o \in DOMAIN object, send(o)
  PROVE  \/ Still /\ Lost
         \/ /\ Arrived
            /\ \E to \in DOMAIN ports_ :
                  /\ Kept(ports_[to], Append(object[ports_[to]].inbox_, Next_(o)))
                  /\ object'[ports_[to]] \in Endpoint
<1>1. ports_' = ports_
  BY DEF send
<1>2. object[o].port \in Ports
  BY DEF TypeOK, Endpoint
<1>3. Next_(o) \in Datagram
  BY <1>2 DEF Next_, Datagram
<1>4. CASE object[o].peer = {}
  BY <1>1, <1>4 DEF send, Still, Lost, counters
<1>5. CASE object[o].peer # {}
  <2>1. PICK to \in object[o].peer : deliver(Next_(o), to) /\ unaddressed' = unaddressed
    BY <1>5 DEF send, Next_
  <2> QED BY <1>1, <1>3, <2>1, DeliverEffect
<1> QED BY <1>4, <1>5

LEMMA PollEffect ==
  ASSUME TypeOK, NEW o \in DOMAIN object, poll(o)
  PROVE  Kept(o, <<>>) /\ object'[o] \in Endpoint
<1> DEFINE e == object[o]
           s == IF e.port \in Learning THEN {Last(e.inbox_).from} ELSE e.peer
           f == [e EXCEPT !.inbox_ = <<>>, !.peer = s]
<1>1. ports_' = ports_ /\ e.inbox_ # <<>>
      /\ object' = [object EXCEPT ![o] = f]
  BY DEF poll
<1>2. e \in Endpoint /\ e.inbox_ \in Seq(Datagram) /\ e.peer \in SUBSET Ports
  BY DEF TypeOK, Endpoint
<1>3. Last(e.inbox_) \in Datagram
  <2> DEFINE q == e.inbox_
  <2>1. q \in Seq(Datagram) /\ q # <<>>
    BY <1>1, <1>2
  <2> HIDE DEF q
  <2>2. Len(q) \in DOMAIN q
    BY <2>1
  <2>3. q[Len(q)] \in Datagram
    BY <2>1, <2>2
  <2> QED BY <2>3 DEF Last, q
<1>4. s \in SUBSET Ports
  BY <1>2, <1>3 DEF Datagram
<1>5. <<>> \in Seq(Datagram)
  OBVIOUS
<1> HIDE DEF s, e
<1>6. f \in Endpoint /\ f.port = e.port /\ f.inbox_ = <<>>
  <2> DEFINE none == <<>>
  <2>1. none \in Seq(Datagram)
    BY <1>5
  <2> HIDE DEF none
  <2>2. /\ [e EXCEPT !.inbox_ = none, !.peer = s] \in Endpoint
        /\ [e EXCEPT !.inbox_ = none, !.peer = s].port = e.port
        /\ [e EXCEPT !.inbox_ = none, !.peer = s].inbox_ = none
    BY <1>2, <1>4, <2>1 DEF Endpoint
  <2> QED BY <2>2 DEF none
<1> HIDE DEF f
<1>7. DOMAIN object' = DOMAIN object /\ object'[o] = f
      /\ \A y \in DOMAIN object \ {o} : object'[y] = object[y]
  BY <1>1
<1> QED BY <1>1, <1>6, <1>7 DEF Kept, e

LEMMA ShutdownEffect ==
  ASSUME TypeOK, NEW o \in DOMAIN object, shutdown(o)
  PROVE  Kept(o, <<>>) /\ object'[o] \in Endpoint
<1> DEFINE e == object[o]
           f == [e EXCEPT !.inbox_ = <<>>]
<1>1. ports_' = ports_ /\ object' = [object EXCEPT ![o] = f]
  BY DEF shutdown
<1>2. e \in Endpoint
  BY DEF TypeOK
<1>3. <<>> \in Seq(Datagram)
  OBVIOUS
<1>4. f \in Endpoint /\ f.port = e.port /\ f.inbox_ = <<>>
  BY <1>2, <1>3, EndpointUpdate
<1> HIDE DEF f
<1>5. DOMAIN object' = DOMAIN object /\ object'[o] = f
      /\ \A y \in DOMAIN object \ {o} : object'[y] = object[y]
  BY <1>1
<1> QED BY <1>1, <1>4, <1>5 DEF Kept

-----------------------------------------------------------------------------
(***************************************************************************)
(* The pointers.                                                           *)
(***************************************************************************)
PortInv == TypeOK /\ PointersAreAlive /\ said \in [Ports -> Nat]

LEMMA PortStep == PortInv /\ [Next]_vars => PortInv'
<1> SUFFICES ASSUME PortInv, [Next]_vars PROVE PortInv'
  OBVIOUS
<1> USE DEF PortInv
<1>1. said' \in [Ports -> Nat]
  <2>1. ASSUME NEW o \in DOMAIN object, send(o) PROVE said' \in [Ports -> Nat]
    <3>1. object[o].port \in Ports
      BY DEF TypeOK, Endpoint
    <3>2. said' = [said EXCEPT ![object[o].port] = said[object[o].port] + 1]
      BY <2>1 DEF send
    <3> QED BY <3>1, <3>2
  <2>2. ASSUME ~\E o \in DOMAIN object : send(o) PROVE said' = said
    BY <2>2 DEF Next, vars, create_endpoint, destroy, poll, shutdown,
                set_packet_loss, set_partitioned
  <2> QED BY <2>1, <2>2
<1>2. ASSUME NEW p \in Ports, create_endpoint(p)
      PROVE  TypeOK' /\ PointersAreAlive'
  <2>1. Made(p) /\ object'[created'] = endpoint(p)
    BY <1>2, CreateEffect
  <2>2. object'[created'] \in Endpoint /\ object'[created'].port = p
    <3>1. Peer[p] \in SUBSET Ports
      BY LoopbackAssumption
    <3> QED BY <2>1, <3>1 DEF Endpoint, endpoint
  <2>3. created' \notin DOMAIN object
    BY <2>1 DEF Made, TypeOK
  <2>4. TypeOK'
    BY <2>1, <2>2 DEF TypeOK, Made
  <2>5. PointersAreAlive'
    BY <2>1, <2>2, <2>3 DEF PointersAreAlive, Made, TypeOK
  <2> QED BY <2>4, <2>5
<1>3. ASSUME NEW o \in DOMAIN object, destroy(o)
      PROVE  TypeOK' /\ PointersAreAlive'
  <2>1. Gone(o) /\ created' = created
    BY <1>3, DestroyEffect
  <2>2. TypeOK'
    BY <2>1 DEF TypeOK, Gone
  <2>3. PointersAreAlive'
    BY <2>1 DEF PointersAreAlive, Gone
  <2> QED BY <2>2, <2>3
<1>4. ASSUME NEW o \in DOMAIN object, NEW inbox, Kept(o, inbox),
             object'[o] \in Endpoint, created' = created
      PROVE  TypeOK' /\ PointersAreAlive'
  <2>1. TypeOK'
    BY <1>4 DEF TypeOK, Kept
  <2>2. \A x \in DOMAIN object : object'[x].port = object[x].port
    BY <1>4 DEF Kept
  <2>3. PointersAreAlive'
    BY <1>4, <2>2 DEF PointersAreAlive, Kept
  <2> QED BY <2>1, <2>3
<1>5. ASSUME Still, created' = created PROVE TypeOK' /\ PointersAreAlive'
  BY <1>5 DEF Still, TypeOK, PointersAreAlive
<1>6. ASSUME NEW o \in DOMAIN object, send(o) PROVE TypeOK' /\ PointersAreAlive'
  <2>1. created' = created
    BY <1>6 DEF send
  <2>2. CASE Still
    BY <1>5, <2>1, <2>2
  <2>3. ASSUME NEW to \in DOMAIN ports_,
               Kept(ports_[to], Append(object[ports_[to]].inbox_, Next_(o))),
               object'[ports_[to]] \in Endpoint
        PROVE  TypeOK' /\ PointersAreAlive'
    <3>1. ports_[to] \in DOMAIN object
      BY DEF PointersAreAlive
    <3> QED BY <1>4, <2>1, <2>3, <3>1
  <2> QED BY <1>1, <1>6, <2>2, <2>3, SendEffect
<1>7. ASSUME NEW o \in DOMAIN object, poll(o) PROVE TypeOK' /\ PointersAreAlive'
  BY <1>4, <1>7, PollEffect DEF poll
<1>8. ASSUME NEW o \in DOMAIN object, shutdown(o)
      PROVE  TypeOK' /\ PointersAreAlive'
  BY <1>4, <1>8, ShutdownEffect DEF shutdown
<1>9. CASE set_partitioned \/ (\E ratio \in Ratios : set_packet_loss(ratio))
           \/ UNCHANGED vars
  BY <1>5, <1>9 DEF set_partitioned, set_packet_loss, vars, Still
<1> QED
  BY <1>1, <1>2, <1>3, <1>6, <1>7, <1>8, <1>9 DEF Next

LEMMA PortInit == Init => PortInv
  BY DEF Init, PortInv, TypeOK, PointersAreAlive

LEMMA PortInvariance == Spec => []PortInv
  BY PortInit, PortStep, PTL DEF Spec

\* However ports come and go, the map points to the ports that are alive, to all of
\* them, and to nothing else: deliver() never follows a dangling pointer.
THEOREM PointersStayAlive == Spec => []PointersAreAlive
  BY PortInvariance, PTL DEF PortInv

-----------------------------------------------------------------------------
(***************************************************************************)
(* The order in an inbox: of each sender, the numbers ascend, are newer    *)
(* than what was polled, and were sent.                                    *)
(***************************************************************************)
InOrder(inbox, told, known) ==
    /\ \A i \in DOMAIN inbox :
          known[inbox[i].from] < inbox[i].number /\ inbox[i].number =< told[inbox[i].from]
    /\ \A i, j \in DOMAIN inbox :
          i < j /\ inbox[i].from = inbox[j].from => inbox[i].number < inbox[j].number

LEMMA DatagramAt ==
  ASSUME NEW inbox \in Seq(Datagram)
  PROVE  \A i \in DOMAIN inbox : inbox[i].from \in Ports /\ inbox[i].number \in Nat
<1>1. \A i \in DOMAIN inbox : inbox[i] \in Datagram
  OBVIOUS
<1> QED BY <1>1 DEF Datagram

LEMMA EmptyInOrder == \A told, known : InOrder(<<>>, told, known)
  BY DEF InOrder

LEMMA OlderInOrder ==
  ASSUME NEW inbox \in Seq(Datagram), NEW told \in [Ports -> Nat],
         NEW more \in [Ports -> Nat], \A p \in Ports : told[p] =< more[p],
         NEW known \in [Ports -> Nat], InOrder(inbox, told, known)
  PROVE  InOrder(inbox, more, known)
<1>1. \A i \in DOMAIN inbox : inbox[i].from \in Ports /\ inbox[i].number \in Nat
  BY DatagramAt
<1>2. ASSUME NEW i \in DOMAIN inbox PROVE inbox[i].number =< more[inbox[i].from]
  BY <1>1 DEF InOrder
<1> QED BY <1>2 DEF InOrder

\* The next message of a port, behind the others.
LEMMA AppendInOrder ==
  ASSUME NEW inbox \in Seq(Datagram), NEW told \in [Ports -> Nat],
         NEW known \in [Ports -> Nat], InOrder(inbox, told, known),
         NEW p \in Ports, known[p] =< told[p],
         NEW more, more = [told EXCEPT ![p] = told[p] + 1],
         NEW d, d = [from |-> p, number |-> more[p]]
  PROVE  /\ Append(inbox, d) \in Seq(Datagram)
         /\ InOrder(Append(inbox, d), more, known)
<1> DEFINE r == Append(inbox, d)
           n == Len(inbox)
<1>1. /\ more \in [Ports -> Nat] /\ more[p] = told[p] + 1
      /\ \A q \in Ports : told[q] =< more[q]
  OBVIOUS
<1>2. d \in Datagram /\ d.from = p /\ d.number = told[p] + 1
  BY <1>1 DEF Datagram
<1>3. /\ r \in Seq(Datagram) /\ n \in Nat /\ DOMAIN inbox = 1 .. n
      /\ DOMAIN r = 1 .. n + 1 /\ r[n + 1] = d
      /\ \A i \in 1 .. n : r[i] = inbox[i]
  BY <1>2
<1>4. \A i \in 1 .. n : /\ inbox[i].from \in Ports /\ inbox[i].number \in Nat
                        /\ known[inbox[i].from] < inbox[i].number
                        /\ inbox[i].number =< told[inbox[i].from]
  BY <1>3, DatagramAt DEF InOrder
<1>5. \A i, j \in 1 .. n :
         i < j /\ inbox[i].from = inbox[j].from => inbox[i].number < inbox[j].number
  BY <1>3 DEF InOrder
<1> HIDE DEF r, n
<1>6. ASSUME NEW i \in 1 .. n + 1
      PROVE  known[r[i].from] < r[i].number /\ r[i].number =< more[r[i].from]
  <2>1. CASE i \in 1 .. n
    BY <1>1, <1>3, <1>4, <2>1
  <2>2. CASE i = n + 1
    BY <1>1, <1>2, <1>3, <2>2
  <2> QED BY <1>3, <2>1, <2>2
<1>7. ASSUME NEW i \in 1 .. n + 1, NEW j \in 1 .. n + 1, i < j,
             r[i].from = r[j].from
      PROVE  r[i].number < r[j].number
  <2>1. i \in 1 .. n
    BY <1>3, <1>7
  <2>2. CASE j \in 1 .. n
    BY <1>3, <1>5, <1>7, <2>1, <2>2
  <2>3. CASE j = n + 1
    <3>1. r[i] = inbox[i] /\ r[j] = d /\ inbox[i].from = p
      BY <1>2, <1>3, <1>7, <2>1, <2>3
    <3>2. inbox[i].number =< told[p] /\ inbox[i].number \in Nat /\ told[p] \in Nat
      BY <1>4, <2>1, <3>1
    <3> QED BY <1>2, <3>1, <3>2
  <2> QED BY <1>3, <2>2, <2>3
<1> QED BY <1>3, <1>6, <1>7 DEF InOrder, r

\* A set of numbers up to n has a greatest.
LEMMA Greatest ==
  ASSUME NEW n \in Nat, NEW S \in SUBSET (1 .. n), S # {}
  PROVE  Max(S) \in S /\ \A i \in S : i =< Max(S)
<1> DEFINE B == {n - i : i \in S}
<1>1. B \in SUBSET Nat /\ B # {}
  <2>1. \A i \in S : n - i \in Nat
    OBVIOUS
  <2>2. \A b \in B : b \in Nat
    BY <2>1
  <2>3. PICK i \in S : TRUE
    OBVIOUS
  <2>4. n - i \in B
    OBVIOUS
  <2> HIDE DEF B
  <2> QED BY <2>2, <2>4
<1>2. IsWellFoundedOn(OpToRel(<, Nat), Nat)
  BY NatLessThanWellFounded
<1>3. PICK b \in B : \A m \in B : <<m, b>> \notin OpToRel(<, Nat)
  <2> HIDE DEF B
  <2> QED BY <1>1, <1>2, WFMin
<1>4. \A m \in B : ~(m < b)
  BY <1>1, <1>3 DEF OpToRel
<1>5. PICK x \in S : b = n - x
  BY <1>3
<1>6. \A y \in S : x >= y
  <2> SUFFICES ASSUME NEW y \in S PROVE x >= y
    OBVIOUS
  <2>1. n - y \in B
    OBVIOUS
  <2> QED BY <1>4, <1>5, <2>1
<1>7. Max(S) \in S /\ \A y \in S : Max(S) >= y
  BY <1>6 DEF Max
<1> QED BY <1>7

\* What is heard of q when an inbox is read: the newest of its messages.
LEMMA NewestHeard ==
  ASSUME NEW inbox \in Seq(Datagram), NEW told \in [Ports -> Nat],
         NEW known \in [Ports -> Nat], InOrder(inbox, told, known),
         NEW q \in Ports, known[q] =< told[q]
  PROVE  LET n == newest(inbox, q, known[q])
             of_q == {i \in DOMAIN inbox : inbox[i].from = q}
         IN  /\ n \in Nat /\ known[q] =< n /\ n =< told[q]
             /\ of_q = {} => n = known[q]
             /\ of_q # {} => /\ n > known[q]
                             /\ \E i \in of_q : inbox[i].number = n
                             /\ \A i \in of_q : inbox[i].number =< n
<1> DEFINE of_q == {i \in DOMAIN inbox : inbox[i].from = q}
           n == newest(inbox, q, known[q])
<1>1. CASE of_q = {}
  BY <1>1 DEF newest
<1>2. CASE of_q # {}
  <2> DEFINE x == Max(of_q)
  <2>1. of_q \in SUBSET (1 .. Len(inbox)) /\ Len(inbox) \in Nat
    OBVIOUS
  <2>2. n = inbox[x].number
    BY <1>2 DEF newest
  <2> HIDE DEF of_q, n
  <2>3. x \in of_q /\ \A i \in of_q : i =< x
    BY <1>2, <2>1, Greatest
  <2> HIDE DEF x
  <2>4. \A i \in of_q : i \in DOMAIN inbox /\ inbox[i].from = q
    BY DEF of_q
  <2>5. \A i \in of_q : inbox[i].number \in Nat
    BY <2>4, DatagramAt
  <2>6. n \in Nat /\ known[q] < n /\ n =< told[q]
    BY <2>2, <2>3, <2>4, <2>5 DEF InOrder
  <2>7. ASSUME NEW i \in of_q PROVE inbox[i].number =< n
    <3>1. CASE i = x
      BY <2>2, <2>5, <3>1
    <3>2. CASE i < x
      <4>1. inbox[i].number < inbox[x].number
        BY <2>3, <2>4, <3>2 DEF InOrder
      <4> QED BY <2>2, <2>3, <2>5, <4>1
    <3> QED BY <2>1, <2>3, <3>1, <3>2
  <2>8. known[q] \in Nat
    OBVIOUS
  <2> QED BY <1>2, <2>2, <2>3, <2>6, <2>7, <2>8 DEF of_q, n
<1> QED BY <1>1, <1>2

-----------------------------------------------------------------------------
(***************************************************************************)
(* Every inbox stays in order.                                             *)
(***************************************************************************)
HeardInv ==
    /\ heard \in [Ports -> [Ports -> Nat]]
    /\ \A p, q \in Ports : heard[q][p] =< said[p]

OrderInv ==
    /\ PortInv
    /\ HeardInv
    /\ \A o \in DOMAIN object :
          InOrder(object[o].inbox_, said, heard[object[o].port])

LEMMA SendCounts ==
  ASSUME PortInv, NEW o \in DOMAIN object, send(o)
  PROVE  LET from == object[o].port
         IN  /\ from \in Ports
             /\ said' = [said EXCEPT ![from] = said[from] + 1]
             /\ said' \in [Ports -> Nat] /\ said'[from] = said[from] + 1
             /\ \A p \in Ports : said[p] =< said'[p]
             /\ Next_(o) = [from |-> from, number |-> said'[from]]
<1> DEFINE from == object[o].port
<1>1. from \in Ports
  BY DEF PortInv, TypeOK, Endpoint
<1>2. said' = [said EXCEPT ![from] = said[from] + 1]
  BY DEF send
<1>3. said \in [Ports -> Nat]
  BY DEF PortInv
<1>4. Next_(o) = [from |-> from, number |-> said'[from]]
  BY DEF Next_
<1> HIDE DEF from
<1> QED BY <1>1, <1>2, <1>3, <1>4 DEF from

\* What a poll of o makes heard of the others.
LEMMA PollHears ==
  ASSUME OrderInv, NEW o \in DOMAIN object, poll(o)
  PROVE  LET p == object[o].port
             inbox == object[o].inbox_
         IN  /\ p \in Ports /\ inbox \in Seq(Datagram) /\ inbox # <<>>
             /\ heard' \in [Ports -> [Ports -> Nat]]
             /\ \A q \in Ports \ {p} : heard'[q] = heard[q]
             /\ \A q \in Ports : heard'[p][q] = newest(inbox, q, heard[p][q])
<1> DEFINE p == object[o].port
           inbox == object[o].inbox_
           h == [q \in Ports |-> newest(inbox, q, heard[p][q])]
<1>1. p \in Ports /\ inbox \in Seq(Datagram) /\ InOrder(inbox, said, heard[p])
  BY DEF OrderInv, PortInv, TypeOK, Endpoint
<1>2. said \in [Ports -> Nat] /\ heard \in [Ports -> [Ports -> Nat]]
      /\ \A q \in Ports : heard[p][q] =< said[q]
  BY <1>1 DEF OrderInv, PortInv, HeardInv
<1>3. inbox # <<>> /\ heard' = [heard EXCEPT ![p] = h]
  BY DEF poll
<1> HIDE DEF p, inbox
<1>4. \A q \in Ports : newest(inbox, q, heard[p][q]) \in Nat
  BY <1>1, <1>2, NewestHeard
<1>5. h \in [Ports -> Nat]
  BY <1>4
<1>6. \A q \in Ports : h[q] = newest(inbox, q, heard[p][q])
  OBVIOUS
<1> HIDE DEF h
<1>7. /\ heard' \in [Ports -> [Ports -> Nat]] /\ heard'[p] = h
      /\ \A q \in Ports \ {p} : heard'[q] = heard[q]
  BY <1>1, <1>2, <1>3, <1>5
<1> QED BY <1>1, <1>3, <1>6, <1>7 DEF p, inbox

LEMMA OrderStep == OrderInv /\ [Next]_vars => OrderInv'
<1> SUFFICES ASSUME OrderInv, [Next]_vars PROVE OrderInv'
  OBVIOUS
<1>0. PortInv /\ PortInv' /\ TypeOK /\ PointersAreAlive
  BY PortStep DEF OrderInv, PortInv
<1>1. \A o \in DOMAIN object : /\ object[o].port \in Ports
                               /\ object[o].inbox_ \in Seq(Datagram)
  BY <1>0 DEF TypeOK, Endpoint
<1>2. /\ said \in [Ports -> Nat] /\ heard \in [Ports -> [Ports -> Nat]]
      /\ \A p, q \in Ports : heard[q][p] =< said[p]
  BY <1>0 DEF OrderInv, HeardInv, PortInv
<1>3. \A o \in DOMAIN object :
         InOrder(object[o].inbox_, said, heard[object[o].port])
  BY DEF OrderInv
<1>4. ASSUME NEW p \in Ports, create_endpoint(p) PROVE OrderInv'
  <2>1. Made(p) /\ object'[created'] = endpoint(p)
    BY <1>0, <1>4, CreateEffect
  <2>2. object'[created'].inbox_ = <<>>
    BY <2>1 DEF endpoint
  <2>3. created' \notin DOMAIN object
    BY <1>0, <2>1 DEF Made, TypeOK
  <2>4. said' = said /\ heard' = heard
    BY <1>4 DEF create_endpoint
  <2>5. ASSUME NEW o \in DOMAIN object'
        PROVE  InOrder(object'[o].inbox_, said, heard[object'[o].port])
    <3>1. CASE o = created'
      BY <2>2, <3>1, EmptyInOrder
    <3>2. CASE o \in DOMAIN object
      BY <1>3, <2>1, <2>3, <3>2 DEF Made
    <3> QED BY <2>1, <3>1, <3>2 DEF Made
  <2> QED BY <1>0, <1>2, <2>4, <2>5 DEF OrderInv, HeardInv
<1>5. ASSUME NEW o \in DOMAIN object, destroy(o) PROVE OrderInv'
  <2>1. Gone(o)
    BY <1>5, DestroyEffect
  <2>2. said' = said /\ heard' = heard
    BY <1>5 DEF destroy
  <2>3. \A x \in DOMAIN object' : x \in DOMAIN object /\ object'[x] = object[x]
    BY <2>1 DEF Gone
  <2> QED BY <1>0, <1>2, <1>3, <2>2, <2>3 DEF OrderInv, HeardInv
<1>6. ASSUME NEW o \in DOMAIN object, send(o) PROVE OrderInv'
  <2> DEFINE from == object[o].port
  <2>1. /\ from \in Ports /\ said' = [said EXCEPT ![from] = said[from] + 1]
        /\ said' \in [Ports -> Nat] /\ said'[from] = said[from] + 1
        /\ \A p \in Ports : said[p] =< said'[p]
        /\ Next_(o) = [from |-> from, number |-> said'[from]]
    BY <1>0, <1>6, SendCounts
  <2>2. heard' = heard
    BY <1>6 DEF send
  <2> HIDE DEF from
  <2>3. HeardInv'
    <3>1. \A p, q \in Ports : heard[q][p] =< said'[p]
      BY <1>2, <2>1
    <3> QED BY <1>2, <2>2, <3>1 DEF HeardInv
  <2>4. ASSUME NEW x \in DOMAIN object
        PROVE  InOrder(object[x].inbox_, said', heard[object[x].port])
    <3> DEFINE known == heard[object[x].port]
               inbox == object[x].inbox_
               more == said'
    <3>1. known \in [Ports -> Nat] /\ inbox \in Seq(Datagram)
          /\ InOrder(inbox, said, known)
      BY <1>1, <1>2, <1>3
    <3>2. more \in [Ports -> Nat] /\ \A p \in Ports : said[p] =< more[p]
      BY <2>1
    <3> HIDE DEF known, inbox, more
    <3>3. InOrder(inbox, more, known)
      BY <1>2, <3>1, <3>2, OlderInOrder
    <3> QED BY <3>3 DEF known, inbox, more
  <2>5. CASE Still
    BY <1>0, <2>2, <2>3, <2>4, <2>5 DEF Still, OrderInv
  <2>6. ASSUME NEW to \in DOMAIN ports_,
               Kept(ports_[to], Append(object[ports_[to]].inbox_, Next_(o)))
        PROVE  OrderInv'
    <3> DEFINE x == ports_[to]
               inbox == object[x].inbox_
               known == heard[object[x].port]
               r == Append(inbox, Next_(o))
    <3>1. x \in DOMAIN object
      BY <1>0 DEF PointersAreAlive
    <3>2. /\ object'[x].port = object[x].port /\ object'[x].inbox_ = r
          /\ DOMAIN object' = DOMAIN object
          /\ \A y \in DOMAIN object \ {x} : object'[y] = object[y]
      BY <2>6 DEF Kept
    <3>3. /\ inbox \in Seq(Datagram) /\ known \in [Ports -> Nat]
          /\ InOrder(inbox, said, known) /\ known[from] =< said[from]
      BY <1>1, <1>2, <1>3, <2>1, <3>1
    <3> HIDE DEF x
    <3>4. InOrder(r, said', known)
      <4> HIDE DEF inbox, known
      <4> QED BY <1>2, <2>1, <3>3, AppendInOrder
    <3>5. ASSUME NEW y \in DOMAIN object'
          PROVE  InOrder(object'[y].inbox_, said', heard[object'[y].port])
      <4>1. CASE y = x
        BY <3>2, <3>4, <4>1
      <4>2. CASE y # x
        BY <2>4, <3>2, <4>2
      <4> QED BY <4>1, <4>2
    <3> QED BY <1>0, <2>2, <2>3, <3>5 DEF OrderInv
  <2> QED BY <1>0, <1>6, <2>1, <2>5, <2>6, SendEffect
<1>7. ASSUME NEW o \in DOMAIN object, poll(o) PROVE OrderInv'
  <2> DEFINE p == object[o].port
             inbox == object[o].inbox_
  <2>1. /\ p \in Ports /\ inbox \in Seq(Datagram)
        /\ heard' \in [Ports -> [Ports -> Nat]]
        /\ \A q \in Ports \ {p} : heard'[q] = heard[q]
        /\ \A q \in Ports : heard'[p][q] = newest(inbox, q, heard[p][q])
    BY <1>7, PollHears
  <2>2. said' = said
    BY <1>7 DEF poll
  <2>3. Kept(o, <<>>)
    BY <1>0, <1>7, PollEffect
  <2>4. InOrder(inbox, said, heard[p]) /\ heard[p] \in [Ports -> Nat]
        /\ \A q \in Ports : heard[p][q] =< said[q]
    BY <1>2, <1>3, <2>1
  <2>5. \A q \in Ports : heard'[p][q] =< said[q]
    <3> HIDE DEF p, inbox
    <3>1. \A q \in Ports : newest(inbox, q, heard[p][q]) =< said[q]
      BY <1>2, <2>1, <2>4, NewestHeard
    <3> QED BY <2>1, <3>1
  <2> HIDE DEF p, inbox
  <2>6. HeardInv'
    <3>1. ASSUME NEW q \in Ports, NEW r \in Ports PROVE heard'[r][q] =< said[q]
      <4>1. CASE r = p
        BY <2>5, <4>1
      <4>2. CASE r # p
        BY <1>2, <2>1, <4>2
      <4> QED BY <4>1, <4>2
    <3> QED BY <2>1, <2>2, <3>1 DEF HeardInv
  <2>7. ASSUME NEW x \in DOMAIN object'
        PROVE  InOrder(object'[x].inbox_, said, heard'[object'[x].port])
    <3>1. CASE x = o
      BY <2>3, <3>1, EmptyInOrder DEF Kept
    <3>2. CASE x # o
      <4>1. x \in DOMAIN object /\ object'[x] = object[x]
        BY <2>3, <3>2 DEF Kept
      <4>2. object[x].port # p
        BY <1>0, <3>2, <4>1 DEF PointersAreAlive, p
      <4> QED BY <1>1, <1>3, <2>1, <4>1, <4>2
    <3> QED BY <3>1, <3>2
  <2> QED BY <1>0, <2>2, <2>6, <2>7 DEF OrderInv
<1>8. ASSUME NEW o \in DOMAIN object, shutdown(o) PROVE OrderInv'
  <2>1. Kept(o, <<>>)
    BY <1>0, <1>8, ShutdownEffect
  <2>2. said' = said /\ heard' = heard
    BY <1>8 DEF shutdown
  <2>3. ASSUME NEW x \in DOMAIN object'
        PROVE  InOrder(object'[x].inbox_, said, heard[object'[x].port])
    <3>1. CASE x = o
      BY <2>1, <3>1, EmptyInOrder DEF Kept
    <3>2. CASE x # o
      BY <1>3, <2>1, <3>2 DEF Kept
    <3> QED BY <3>1, <3>2
  <2> QED BY <1>0, <1>2, <2>2, <2>3 DEF OrderInv, HeardInv
<1>9. ASSUME Still, said' = said, heard' = heard PROVE OrderInv'
  BY <1>0, <1>2, <1>3, <1>9 DEF Still, OrderInv, HeardInv
<1>10. CASE set_partitioned \/ (\E ratio \in Ratios : set_packet_loss(ratio))
            \/ UNCHANGED vars
  <2>1. Still /\ said' = said /\ heard' = heard
    BY <1>10 DEF set_partitioned, set_packet_loss, vars, Still
  <2> QED BY <1>9, <2>1
<1> QED
  BY <1>4, <1>5, <1>6, <1>7, <1>8, <1>10 DEF Next

LEMMA OrderInvariance == Spec => []OrderInv
<1>1. Init => OrderInv
  <2> SUFFICES ASSUME Init PROVE OrderInv
    OBVIOUS
  <2>1. PortInv
    BY PortInit
  <2>2. object = <<>> /\ heard = [p \in Ports |-> [q \in Ports |-> 0]]
        /\ said = [p \in Ports |-> 0]
    BY DEF Init
  <2>3. HeardInv
    BY <2>2 DEF HeardInv
  <2> QED BY <2>1, <2>2, <2>3 DEF OrderInv
<1> QED BY <1>1, OrderStep, PTL DEF Spec

-----------------------------------------------------------------------------
(***************************************************************************)
(* The messages under way.                                                 *)
(***************************************************************************)
\* underway, on the objects ob.
Under(ob, p, q) ==
    UNION {{d.number : d \in {e \in ToSet(ob[o].inbox_) : e.from = p}} :
           o \in {o \in DOMAIN ob : ob[o].port = q}}

\* Message m of p is in the inbox of the port q.
Waits(ob, p, q, m) ==
    \E o \in DOMAIN ob : /\ ob[o].port = q
                         /\ \E i \in DOMAIN ob[o].inbox_ :
                               /\ ob[o].inbox_[i].from = p
                               /\ ob[o].inbox_[i].number = m

LEMMA UnderWaits ==
  ASSUME NEW ob, NEW p, NEW q, NEW m
  PROVE  (m \in Under(ob, p, q)) <=> Waits(ob, p, q, m)
<1>1. ASSUME m \in Under(ob, p, q) PROVE Waits(ob, p, q, m)
  <2>1. PICK o \in {o \in DOMAIN ob : ob[o].port = q} :
              m \in {d.number : d \in {e \in ToSet(ob[o].inbox_) : e.from = p}}
    BY <1>1 DEF Under
  <2>2. PICK d \in ToSet(ob[o].inbox_) : d.from = p /\ m = d.number
    BY <2>1
  <2>3. PICK i \in DOMAIN ob[o].inbox_ : d = ob[o].inbox_[i]
    BY <2>2 DEF ToSet
  <2> QED BY <2>1, <2>2, <2>3 DEF Waits
<1>2. ASSUME Waits(ob, p, q, m) PROVE m \in Under(ob, p, q)
  <2>1. PICK o \in DOMAIN ob :
              /\ ob[o].port = q
              /\ \E i \in DOMAIN ob[o].inbox_ :
                    ob[o].inbox_[i].from = p /\ ob[o].inbox_[i].number = m
    BY <1>2 DEF Waits
  <2>2. PICK i \in DOMAIN ob[o].inbox_ :
              ob[o].inbox_[i].from = p /\ ob[o].inbox_[i].number = m
    BY <2>1
  <2> DEFINE d == ob[o].inbox_[i]
  <2>3. d \in ToSet(ob[o].inbox_)
    BY DEF ToSet
  <2>4. m \in {e.number : e \in {e \in ToSet(ob[o].inbox_) : e.from = p}}
    BY <2>2, <2>3
  <2> QED BY <2>1, <2>4 DEF Under
<1> QED BY <1>1, <1>2

\* One step of the link, from the numbers and the messages before to those after.
Moves(sent, transit, got, sent1, transit1, got1) ==
    \/ sent1 = sent + 1 /\ transit1 \subseteq transit \cup {sent + 1} /\ got1 = got
    \/ transit1 \subseteq transit /\ sent1 = sent /\ got1 = got
    \/ /\ transit1 \subseteq transit /\ got1 \in transit \ transit1
       /\ \A m \in transit1 : m > got1
       /\ sent1 = sent

LinkMoves(p, q) ==
    Moves(said[p], Under(object, p, q), heard[q][p],
          said'[p], Under(object', p, q), heard'[q][p])

LEMMA MovesAreSteps ==
  ASSUME NEW p \in Ports, NEW q \in Ports, LinkMoves(p, q)
  PROVE  Link(p, q)!Next
  BY DEF LinkMoves, Moves, Under, underway, Link!Next, Link!Send, Link!Lose,
         Link!Deliver

\* Where no message appears or is polled.
LEMMA LossMoves ==
  ASSUME NEW p \in Ports, NEW q \in Ports, said' = said, heard' = heard,
         \A m : Waits(object', p, q, m) => Waits(object, p, q, m)
  PROVE  LinkMoves(p, q)
<1>1. Under(object', p, q) \subseteq Under(object, p, q)
  BY UnderWaits
<1> QED BY <1>1 DEF LinkMoves, Moves

LEMMA LinkStep ==
  ASSUME OrderInv, [Next]_vars, NEW p \in Ports, NEW q \in Ports
  PROVE  LinkMoves(p, q)
<1>0. PortInv /\ PortInv' /\ TypeOK /\ PointersAreAlive
  BY PortStep DEF OrderInv, PortInv
<1>1. \A o \in DOMAIN object : /\ object[o].port \in Ports
                               /\ object[o].inbox_ \in Seq(Datagram)
  BY <1>0 DEF TypeOK, Endpoint
<1>2. /\ said \in [Ports -> Nat] /\ heard \in [Ports -> [Ports -> Nat]]
      /\ \A r, s \in Ports : heard[s][r] =< said[r]
      /\ \A o \in DOMAIN object :
            InOrder(object[o].inbox_, said, heard[object[o].port])
  BY <1>0 DEF OrderInv, HeardInv, PortInv
<1>3. ASSUME NEW r \in Ports, create_endpoint(r) PROVE LinkMoves(p, q)
  <2>1. Made(r) /\ object'[created'].inbox_ = <<>>
    <3>1. Made(r) /\ object'[created'] = endpoint(r)
      BY <1>0, <1>3, CreateEffect
    <3> QED BY <3>1 DEF endpoint
  <2>2. created' \notin DOMAIN object
    BY <1>0, <2>1 DEF Made, TypeOK
  <2>3. said' = said /\ heard' = heard
    BY <1>3 DEF create_endpoint
  <2>4. ASSUME NEW m, Waits(object', p, q, m) PROVE Waits(object, p, q, m)
    <3>1. PICK o \in DOMAIN object' :
              /\ object'[o].port = q
              /\ \E i \in DOMAIN object'[o].inbox_ :
                    /\ object'[o].inbox_[i].from = p
                    /\ object'[o].inbox_[i].number = m
      BY <2>4 DEF Waits
    <3>2. o # created'
      <4>1. DOMAIN <<>> = {}
        OBVIOUS
      <4> QED BY <2>1, <3>1, <4>1
    <3>3. o \in DOMAIN object /\ object'[o] = object[o]
      BY <2>1, <3>2 DEF Made
    <3> QED BY <3>1, <3>3 DEF Waits
  <2> QED BY <2>3, <2>4, LossMoves
<1>4. ASSUME NEW o \in DOMAIN object, destroy(o) PROVE LinkMoves(p, q)
  <2>1. \A x \in DOMAIN object' : x \in DOMAIN object /\ object'[x] = object[x]
    BY <1>4, DestroyEffect DEF Gone
  <2>2. said' = said /\ heard' = heard
    BY <1>4 DEF destroy
  <2>3. ASSUME NEW m, Waits(object', p, q, m) PROVE Waits(object, p, q, m)
    BY <2>1, <2>3 DEF Waits
  <2> QED BY <2>2, <2>3, LossMoves
<1>5. ASSUME NEW o \in DOMAIN object, Kept(o, <<>>), NEW m,
             Waits(object', p, q, m)
      PROVE  Waits(object, p, q, m) /\ (object[o].port # q)
  <2>1. PICK x \in DOMAIN object' :
            /\ object'[x].port = q
            /\ \E i \in DOMAIN object'[x].inbox_ :
                  /\ object'[x].inbox_[i].from = p
                  /\ object'[x].inbox_[i].number = m
    BY <1>5 DEF Waits
  <2>2. x # o
    <3>1. DOMAIN <<>> = {}
      OBVIOUS
    <3> QED BY <1>5, <2>1, <3>1 DEF Kept
  <2>3. x \in DOMAIN object /\ object'[x] = object[x]
    BY <1>5, <2>2 DEF Kept
  <2>4. Waits(object, p, q, m)
    BY <2>1, <2>3 DEF Waits
  <2>5. object[o].port # q
    BY <1>0, <2>1, <2>2, <2>3 DEF PointersAreAlive
  <2> QED BY <2>4, <2>5
<1>6. ASSUME NEW o \in DOMAIN object, shutdown(o) PROVE LinkMoves(p, q)
  <2>1. Kept(o, <<>>)
    BY <1>0, <1>6, ShutdownEffect
  <2>2. said' = said /\ heard' = heard
    BY <1>6 DEF shutdown
  <2> QED BY <1>5, <2>1, <2>2, LossMoves
<1>7. ASSUME Still, said' = said, heard' = heard PROVE LinkMoves(p, q)
  BY <1>7, LossMoves DEF Still
<1>8. CASE set_partitioned \/ (\E ratio \in Ratios : set_packet_loss(ratio))
           \/ UNCHANGED vars
  <2>1. Still /\ said' = said /\ heard' = heard
    BY <1>8 DEF set_partitioned, set_packet_loss, vars, Still
  <2> QED BY <1>7, <2>1
<1>9. ASSUME NEW o \in DOMAIN object, send(o) PROVE LinkMoves(p, q)
  <2> DEFINE from == object[o].port
             new == said'[p]
  <2>1. /\ from \in Ports /\ said' = [said EXCEPT ![from] = said[from] + 1]
        /\ Next_(o) = [from |-> from, number |-> said'[from]]
    BY <1>0, <1>9, SendCounts
  <2>2. heard' = heard
    BY <1>9 DEF send
  <2>3. IF p = from THEN said'[p] = said[p] + 1 ELSE said'[p] = said[p]
    BY <1>2, <2>1
  <2>4. ASSUME NEW m, Waits(object', p, q, m)
        PROVE  Waits(object, p, q, m) \/ (p = from /\ m = new)
    <3>1. CASE Still
      BY <2>4, <3>1 DEF Still
    <3>2. ASSUME NEW to \in DOMAIN ports_,
                 Kept(ports_[to], Append(object[ports_[to]].inbox_, Next_(o)))
          PROVE  Waits(object, p, q, m) \/ (p = from /\ m = new)
      <4> DEFINE x == ports_[to]
                 inbox == object[x].inbox_
                 r == Append(inbox, Next_(o))
      <4>1. x \in DOMAIN object /\ inbox \in Seq(Datagram)
        BY <1>0, <1>1 DEF PointersAreAlive
      <4>2. /\ object'[x].port = object[x].port /\ object'[x].inbox_ = r
            /\ DOMAIN object' = DOMAIN object
            /\ \A y \in DOMAIN object \ {x} : object'[y] = object[y]
        BY <3>2 DEF Kept
      <4>3. PICK y \in DOMAIN object' :
                /\ object'[y].port = q
                /\ \E i \in DOMAIN object'[y].inbox_ :
                      /\ object'[y].inbox_[i].from = p
                      /\ object'[y].inbox_[i].number = m
        BY <2>4 DEF Waits
      <4> DEFINE d == Next_(o)
      <4>4. d.from = from /\ d.number = said'[from]
        BY <2>1
      <4> HIDE DEF d, x, new, from
      <4>5. CASE y # x
        <5>1. y \in DOMAIN object /\ object'[y] = object[y]
          BY <4>2, <4>3, <4>5
        <5> QED BY <4>3, <5>1 DEF Waits
      <4>6. CASE y = x
        <5>1. object[x].port = q
          BY <4>2, <4>3, <4>6
        <5>2. PICK i \in DOMAIN r : r[i].from = p /\ r[i].number = m
          BY <4>2, <4>3, <4>6
        <5> HIDE DEF inbox
        <5>3. /\ DOMAIN r = 1 .. Len(inbox) + 1 /\ r[Len(inbox) + 1] = d
              /\ DOMAIN inbox = 1 .. Len(inbox) /\ Len(inbox) \in Nat
              /\ \A j \in 1 .. Len(inbox) : r[j] = inbox[j]
          BY <4>1 DEF d
        <5>4. CASE i = Len(inbox) + 1
          BY <4>4, <5>2, <5>3, <5>4 DEF new
        <5>5. CASE i \in 1 .. Len(inbox)
          <6>1. i \in DOMAIN inbox /\ inbox[i].from = p /\ inbox[i].number = m
            BY <5>2, <5>3, <5>5
          <6> QED BY <4>1, <5>1, <6>1 DEF Waits, inbox
        <5> HIDE DEF r
        <5> QED BY <5>2, <5>3, <5>4, <5>5
      <4> QED BY <4>5, <4>6
    <3>3. \/ Still
          \/ \E to \in DOMAIN ports_ :
                Kept(ports_[to], Append(object[ports_[to]].inbox_, Next_(o)))
      <4>1. said' \in [Ports -> Nat]
        BY <1>0 DEF PortInv
      <4> QED BY <1>0, <1>9, <4>1, SendEffect
    <3> QED BY <3>1, <3>2, <3>3
  <2> HIDE DEF from, new
  <2>5. \A m \in Under(object', p, q) :
           m \in Under(object, p, q) \/ (p = from /\ m = new)
    BY <2>4, UnderWaits
  <2>6. CASE p = from
    <3>1. new = said[p] + 1
      BY <2>3, <2>6 DEF new
    <3>2. Under(object', p, q) \subseteq Under(object, p, q) \cup {said[p] + 1}
      BY <2>5, <3>1
    <3> QED BY <2>2, <3>1, <3>2 DEF LinkMoves, Moves, new
  <2>7. CASE p # from
    <3>1. Under(object', p, q) \subseteq Under(object, p, q)
      BY <2>5, <2>7
    <3> QED BY <2>2, <2>3, <2>7, <3>1 DEF LinkMoves, Moves
  <2> QED BY <2>6, <2>7
<1>10. ASSUME NEW o \in DOMAIN object, poll(o) PROVE LinkMoves(p, q)
  <2> DEFINE inbox == object[o].inbox_
             r == object[o].port
             of_p == {i \in DOMAIN inbox : inbox[i].from = p}
             n == newest(inbox, p, heard[r][p])
  <2>1. /\ r \in Ports /\ inbox \in Seq(Datagram)
        /\ \A s \in Ports \ {r} : heard'[s] = heard[s]
        /\ heard'[r][p] = n
    BY <1>10, PollHears
  <2>2. said' = said /\ Kept(o, <<>>)
    BY <1>0, <1>10, PollEffect DEF poll
  <2>3. Under(object', p, q) \subseteq Under(object, p, q)
    BY <1>5, <2>2, UnderWaits
  <2>4. CASE q # r
    <3>1. heard'[q] = heard[q]
      BY <2>1, <2>4
    <3> QED BY <2>2, <2>3, <3>1 DEF LinkMoves, Moves
  <2>5. CASE q = r
    <3>1. Under(object', p, q) = {}
      BY <1>5, <2>2, <2>5, UnderWaits
    <3>2. /\ of_p = {} => n = heard[r][p]
          /\ of_p # {} => \E i \in of_p : inbox[i].number = n
      <4> DEFINE known == heard[r]
      <4>1. /\ known \in [Ports -> Nat] /\ known[p] =< said[p]
            /\ InOrder(inbox, said, known)
        BY <1>2, <2>1
      <4> HIDE DEF known, inbox
      <4>2. LET k == newest(inbox, p, known[p])
                of_q == {i \in DOMAIN inbox : inbox[i].from = p}
            IN  /\ k \in Nat /\ known[p] =< k /\ k =< said[p]
                /\ of_q = {} => k = known[p]
                /\ of_q # {} => /\ k > known[p]
                                /\ \E i \in of_q : inbox[i].number = k
                                /\ \A i \in of_q : inbox[i].number =< k
        BY <1>2, <2>1, <4>1, NewestHeard
      <4> QED BY <4>2 DEF known
    <3>3. CASE of_p = {}
      <4>1. heard'[q][p] = heard[q][p]
        BY <2>1, <2>5, <3>2, <3>3
      <4> QED BY <2>2, <2>3, <4>1 DEF LinkMoves, Moves
    <3>4. CASE of_p # {}
      <4>1. PICK i \in DOMAIN inbox : inbox[i].from = p /\ inbox[i].number = n
        BY <3>2, <3>4
      <4>2. Waits(object, p, q, n)
        BY <2>5, <4>1 DEF Waits
      <4>3. heard'[q][p] \in Under(object, p, q)
        BY <2>1, <2>5, <4>2, UnderWaits
      <4> QED BY <2>2, <3>1, <4>3 DEF LinkMoves, Moves
    <3> QED BY <3>3, <3>4
  <2> QED BY <2>4, <2>5
<1> QED
  BY <1>3, <1>4, <1>6, <1>8, <1>9, <1>10 DEF Next

\* Between any two ports the network is a lossy first-in first-out link: through
\* losses, partitions and new ports at an old address, nothing is polled twice,
\* out of order, by another port, or without having been sent.
THEOREM NetworkIsLossyFifo == Spec => LinksAreLossyFifos
<1>1. Init => \A p, q \in Ports : Link(p, q)!Init
  <2> SUFFICES ASSUME Init, NEW p \in Ports, NEW q \in Ports
               PROVE  Link(p, q)!Init
    OBVIOUS
  <2>1. said[p] = 0 /\ heard[q][p] = 0 /\ object = <<>>
    BY DEF Init
  <2>2. underway(p, q) = {}
    <3>1. DOMAIN object = {}
      BY <2>1
    <3> QED BY <3>1 DEF underway
  <2> QED BY <2>1, <2>2 DEF Link!Init
<1>2. OrderInv /\ [Next]_vars
        => [\A p, q \in Ports : Link(p, q)!Next
               \/ UNCHANGED <<said[p], heard[q][p], underway(p, q)>>]_vars
  <2> SUFFICES ASSUME OrderInv, [Next]_vars, NEW p \in Ports, NEW q \in Ports
               PROVE  Link(p, q)!Next
    OBVIOUS
  <2> QED BY LinkStep, MovesAreSteps
<1> QED
  BY <1>1, <1>2, OrderInvariance, PTL DEF Spec, LinksAreLossyFifos
-----------------------------------------------------------------------------
(***************************************************************************)
(* The sum of the values of a function: total(f) counts the pairs of a     *)
(* place x and one of the f[x] units at it.                                *)
(***************************************************************************)
Units(f) == UNION {{x} \X (1 .. f[x]) : x \in DOMAIN f}

UnitsBut(f, x) == UNION {{y} \X (1 .. f[y]) : y \in DOMAIN f \ {x}}

LEMMA TotalSplit ==
  ASSUME NEW f, NEW x \in DOMAIN f, f[x] \in Nat, IsFiniteSet(UnitsBut(f, x))
  PROVE  /\ IsFiniteSet(Units(f))
         /\ Cardinality(UnitsBut(f, x)) \in Nat
         /\ total(f) = Cardinality(UnitsBut(f, x)) + f[x]
<1> DEFINE A == UnitsBut(f, x)
           B == {x} \X (1 .. f[x])
<1>1. Units(f) = A \cup B
  BY DEF Units, UnitsBut
<1>2. A \cap B = {}
  BY DEF UnitsBut
<1>3. IsFiniteSet(1 .. f[x]) /\ Cardinality(1 .. f[x]) = f[x]
  BY FS_Interval
<1>4. IsFiniteSet({x}) /\ Cardinality({x}) = 1
  BY FS_Singleton
<1>5. IsFiniteSet(B) /\ Cardinality(B) = 1 * f[x]
  BY <1>3, <1>4, FS_Product
<1>6. IsFiniteSet(A)
  OBVIOUS
<1>7. total(f) = Cardinality(Units(f))
  BY DEF total, Units
<1> HIDE DEF A, B
<1>8. /\ IsFiniteSet(A \cup B)
      /\ Cardinality(A \cup B) = Cardinality(A) + Cardinality(B) - Cardinality(A \cap B)
  BY <1>5, <1>6, FS_Union
<1>9. Cardinality(A \cap B) = 0 /\ Cardinality(A) \in Nat
  BY <1>2, <1>6, FS_EmptySet, FS_CardinalityType
<1> QED BY <1>1, <1>5, <1>7, <1>8, <1>9 DEF A

\* One value changes.
LEMMA TotalChange ==
  ASSUME NEW f, NEW g, NEW x \in DOMAIN f, DOMAIN g = DOMAIN f,
         \A y \in DOMAIN f \ {x} : g[y] = f[y],
         f[x] \in Nat, g[x] \in Nat, IsFiniteSet(Units(f))
  PROVE  IsFiniteSet(Units(g)) /\ total(f) \in Nat /\ total(g) = total(f) - f[x] + g[x]
<1>1. UnitsBut(g, x) = UnitsBut(f, x)
  BY DEF UnitsBut
<1>2. UnitsBut(f, x) \subseteq Units(f)
  BY DEF Units, UnitsBut
<1>3. IsFiniteSet(UnitsBut(f, x))
  BY <1>2, FS_Subset
<1>4. /\ Cardinality(UnitsBut(f, x)) \in Nat
      /\ total(f) = Cardinality(UnitsBut(f, x)) + f[x]
  BY <1>3, TotalSplit
<1>5. /\ IsFiniteSet(Units(g))
      /\ total(g) = Cardinality(UnitsBut(g, x)) + g[x]
  BY <1>1, <1>3, TotalSplit
<1> QED BY <1>1, <1>4, <1>5

\* A place comes, or goes.
LEMMA TotalPlace ==
  ASSUME NEW f, NEW g, NEW x \in DOMAIN f, DOMAIN g = DOMAIN f \ {x},
         \A y \in DOMAIN g : g[y] = f[y], f[x] \in Nat,
         IsFiniteSet(Units(f)) \/ IsFiniteSet(Units(g))
  PROVE  /\ IsFiniteSet(Units(f)) /\ IsFiniteSet(Units(g))
         /\ total(f) \in Nat /\ total(g) \in Nat /\ total(f) = total(g) + f[x]
<1>1. UnitsBut(f, x) = Units(g) /\ Units(g) \subseteq Units(f)
  BY DEF Units, UnitsBut
<1>2. IsFiniteSet(Units(g))
  BY <1>1, FS_Subset
<1>3. total(g) = Cardinality(Units(g))
  BY DEF total, Units
<1> QED BY <1>1, <1>2, <1>3, TotalSplit

-----------------------------------------------------------------------------
(***************************************************************************)
(* The counters.                                                           *)
(***************************************************************************)
Lengths(ob) == [o \in DOMAIN ob |-> Len(ob[o].inbox_)]

CountTypes ==
    /\ delivered_ \in Nat /\ dropped_ \in Nat /\ unaddressed \in Nat
    /\ polled \in Nat /\ discarded \in Nat
    /\ IsFiniteSet(Units(said)) /\ IsFiniteSet(Units(Lengths(object)))

CountInv == PortInv /\ CountTypes /\ CountersAddUp

\* What waits in the inboxes, which is what was delivered and did not leave.
Waiting == total(Lengths(object))

LEMMA AddsUp ==
  CountersAddUp <=> /\ total(said) = unaddressed + delivered_ + dropped_
                    /\ delivered_ = polled + discarded + Waiting
  BY DEF CountersAddUp, Waiting, Lengths

LEMMA LengthsAreNat ==
  ASSUME TypeOK
  PROVE  \A o \in DOMAIN object : Len(object[o].inbox_) \in Nat
<1>1. \A o \in DOMAIN object : object[o].inbox_ \in Seq(Datagram)
  BY DEF TypeOK, Endpoint
<1> QED BY <1>1

\* The inbox of o gets another length.
LEMMA LengthStep ==
  ASSUME TypeOK, TypeOK', IsFiniteSet(Units(Lengths(object))),
         NEW o \in DOMAIN object, NEW inbox, Kept(o, inbox)
  PROVE  /\ IsFiniteSet(Units(Lengths(object)))'
         /\ Waiting \in Nat
         /\ Waiting' = Waiting - Len(object[o].inbox_) + Len(inbox)
<1> DEFINE f == Lengths(object)
           g == Lengths(object')
<1>1. /\ DOMAIN f = DOMAIN object /\ DOMAIN g = DOMAIN object'
      /\ \A x \in DOMAIN object : f[x] = Len(object[x].inbox_)
      /\ \A x \in DOMAIN object' : g[x] = Len(object'[x].inbox_)
  BY DEF Lengths
<1>2. /\ DOMAIN object' = DOMAIN object /\ object'[o].inbox_ = inbox
      /\ \A x \in DOMAIN object \ {o} : object'[x] = object[x]
  BY DEF Kept
<1>3. f[o] \in Nat /\ f[o] = Len(object[o].inbox_)
  BY <1>1, LengthsAreNat
<1>4. g[o] \in Nat /\ g[o] = Len(inbox)
  <2>1. object'[o].inbox_ \in Seq(Datagram)
    BY <1>2 DEF TypeOK, Endpoint
  <2> QED BY <1>1, <1>2, <2>1
<1>5. \A x \in DOMAIN f \ {o} : g[x] = f[x]
  BY <1>1, <1>2
<1>6. o \in DOMAIN f /\ DOMAIN g = DOMAIN f /\ IsFiniteSet(Units(f))
  BY <1>1, <1>2
<1> HIDE DEF f, g
<1>7. IsFiniteSet(Units(g)) /\ total(f) \in Nat /\ total(g) = total(f) - f[o] + g[o]
  BY <1>3, <1>4, <1>5, <1>6, TotalChange
<1> QED BY <1>3, <1>4, <1>7 DEF f, g, Waiting

LEMMA CountStep == CountInv /\ [Next]_vars => CountInv'
<1> SUFFICES ASSUME CountInv, [Next]_vars PROVE CountInv'
  OBVIOUS
<1>1. PortInv /\ PortInv' /\ TypeOK /\ TypeOK' /\ PointersAreAlive
  BY PortStep DEF CountInv, PortInv
<1>2. /\ delivered_ \in Nat /\ dropped_ \in Nat /\ unaddressed \in Nat
      /\ polled \in Nat /\ discarded \in Nat
      /\ IsFiniteSet(Units(said)) /\ IsFiniteSet(Units(Lengths(object)))
  BY DEF CountInv, CountTypes
<1>3. /\ total(said) = unaddressed + delivered_ + dropped_
      /\ delivered_ = polled + discarded + Waiting
  BY AddsUp DEF CountInv
<1>4. said \in [Ports -> Nat] /\ said' \in [Ports -> Nat]
  BY <1>1 DEF PortInv
<1>5. \A o \in DOMAIN object : Len(object[o].inbox_) \in Nat
  BY <1>1, LengthsAreNat
\* The counters that a call leaves alone, and those that remain to be shown.
<1> DEFINE Sent0 == said' = said /\ UNCHANGED <<delivered_, dropped_, unaddressed>>
           Left0 == UNCHANGED <<polled, discarded>>
<1>6. ASSUME IsFiniteSet(Units(said))', IsFiniteSet(Units(Lengths(object)))',
             delivered_' \in Nat, dropped_' \in Nat, unaddressed' \in Nat,
             polled' \in Nat, discarded' \in Nat,
             total(said') = unaddressed' + delivered_' + dropped_',
             delivered_' = polled' + discarded' + Waiting'
      PROVE  CountTypes' /\ CountersAddUp'
  <2>1. CountTypes'
    BY <1>6 DEF CountTypes
  <2>2. CountersAddUp' <=> /\ total(said') = unaddressed' + delivered_' + dropped_'
                           /\ delivered_' = polled' + discarded' + Waiting'
    BY DEF CountersAddUp, Waiting, Lengths
  <2> QED BY <1>6, <2>1, <2>2
<1>7. ASSUME Sent0, Left0, IsFiniteSet(Units(Lengths(object)))', Waiting' = Waiting
      PROVE  CountTypes' /\ CountersAddUp'
  BY <1>2, <1>3, <1>6, <1>7
<1>8. ASSUME NEW p \in Ports, create_endpoint(p) PROVE CountTypes' /\ CountersAddUp'
  <2> DEFINE f == Lengths(object')
             g == Lengths(object)
  <2>1. /\ DOMAIN object' = DOMAIN object \cup {created'}
        /\ \A x \in DOMAIN object : x # created' => object'[x] = object[x]
        /\ object'[created'].inbox_ = <<>>
    <3>1. Made(p) /\ object'[created'] = endpoint(p)
      BY <1>1, <1>8, CreateEffect
    <3> QED BY <3>1 DEF Made, endpoint
  <2>2. created' \notin DOMAIN object
    BY <1>1, <1>8 DEF create_endpoint, TypeOK
  <2>3. /\ DOMAIN f = DOMAIN object' /\ DOMAIN g = DOMAIN object
        /\ \A x \in DOMAIN object' : f[x] = Len(object'[x].inbox_)
        /\ \A x \in DOMAIN object : g[x] = Len(object[x].inbox_)
    BY DEF Lengths
  <2>4. f[created'] = 0
    BY <2>1, <2>3
  <2>5. /\ created' \in DOMAIN f /\ DOMAIN g = DOMAIN f \ {created'}
        /\ \A x \in DOMAIN g : g[x] = f[x]
    BY <2>1, <2>2, <2>3
  <2>6. IsFiniteSet(Units(g))
    BY <1>2
  <2> DEFINE c == created'
  <2> HIDE DEF f, g, c
  <2>7. IsFiniteSet(Units(f)) /\ total(g) \in Nat /\ total(f) = total(g) + 0
    <3>1. c \in DOMAIN f /\ f[c] = 0 /\ f[c] \in Nat /\ DOMAIN g = DOMAIN f \ {c}
      BY <2>4, <2>5 DEF c
    <3> QED BY <2>5, <2>6, <3>1, TotalPlace
  <2>8. IsFiniteSet(Units(Lengths(object)))' /\ Waiting' = Waiting
    BY <2>7 DEF f, g, Waiting
  <2>9. Sent0 /\ Left0
    BY <1>8 DEF create_endpoint, counters
  <2> QED BY <1>7, <2>8, <2>9
<1>9. ASSUME NEW o \in DOMAIN object, destroy(o) PROVE CountTypes' /\ CountersAddUp'
  <2> DEFINE f == Lengths(object)
             g == Lengths(object')
  <2>1. /\ DOMAIN object' = DOMAIN object \ {o}
        /\ \A x \in DOMAIN object' : object'[x] = object[x]
    BY <1>9, DestroyEffect DEF Gone
  <2>2. /\ DOMAIN f = DOMAIN object /\ DOMAIN g = DOMAIN object'
        /\ \A x \in DOMAIN object : f[x] = Len(object[x].inbox_)
        /\ \A x \in DOMAIN object' : g[x] = Len(object'[x].inbox_)
    BY DEF Lengths
  <2>3. /\ o \in DOMAIN f /\ f[o] \in Nat /\ DOMAIN g = DOMAIN f \ {o}
        /\ \A x \in DOMAIN g : g[x] = f[x]
    BY <1>5, <2>1, <2>2
  <2>4. IsFiniteSet(Units(f)) /\ f[o] = Len(object[o].inbox_)
    BY <1>2, <2>2
  <2> HIDE DEF f, g
  <2>5. /\ IsFiniteSet(Units(g)) /\ total(g) \in Nat
        /\ total(f) = total(g) + f[o]
    BY <2>3, <2>4, TotalPlace
  <2>6. /\ IsFiniteSet(Units(Lengths(object)))' /\ Waiting' \in Nat
        /\ Waiting = Waiting' + Len(object[o].inbox_)
    BY <2>4, <2>5 DEF f, g, Waiting
  <2>7. Sent0 /\ polled' = polled /\ discarded' = discarded + Len(object[o].inbox_)
    BY <1>9 DEF destroy, counters
  <2> DEFINE n == Len(object[o].inbox_)
             w == Waiting
             w1 == Waiting'
  <2>8. n \in Nat /\ w1 \in Nat /\ w = w1 + n /\ discarded' = discarded + n
        /\ delivered_ = polled + discarded + w
    BY <1>3, <1>5, <2>6, <2>7
  <2> HIDE DEF n, w, w1
  <2>9. discarded' \in Nat /\ delivered_ = polled + discarded' + w1
    BY <1>2, <2>8
  <2>10. delivered_' = polled' + discarded' + Waiting'
    BY <2>7, <2>9 DEF w1
  <2> QED BY <1>2, <1>3, <1>6, <2>6, <2>7, <2>9, <2>10
<1>10. ASSUME NEW o \in DOMAIN object, send(o) PROVE CountTypes' /\ CountersAddUp'
  <2> DEFINE from == object[o].port
  <2>1. from \in Ports /\ said' = [said EXCEPT ![from] = said[from] + 1]
    BY <1>1, <1>10, SendCounts
  <2>2. IsFiniteSet(Units(said')) /\ total(said') = total(said) + 1
        /\ total(said) \in Nat
    <3> DEFINE g == said'
               a == said[from]
               b == g[from]
    <3>1. /\ from \in DOMAIN said /\ DOMAIN g = DOMAIN said
          /\ \A y \in DOMAIN said \ {from} : g[y] = said[y]
          /\ a \in Nat /\ b \in Nat /\ b = a + 1
      BY <1>4, <2>1
    <3> HIDE DEF g, from
    <3>2. IsFiniteSet(Units(g)) /\ total(said) \in Nat /\ total(g) = total(said) - a + b
      BY <1>2, <3>1, TotalChange
    <3> HIDE DEF a, b
    <3> QED BY <3>1, <3>2 DEF g
  <2>3. Left0
    BY <1>10 DEF send
  <2>4. CASE Still /\ Lost
    <3>1. Waiting' = Waiting /\ IsFiniteSet(Units(Lengths(object)))'
      BY <1>2, <2>4 DEF Still, Waiting
    <3>2. /\ delivered_' = delivered_ /\ dropped_' \in Nat /\ unaddressed' \in Nat
          /\ dropped_' + unaddressed' = dropped_ + unaddressed + 1
      BY <1>2, <2>4 DEF Lost
    <3> DEFINE s == total(said)
               s1 == total(said')
               u1 == unaddressed'
               d1 == dropped_'
    <3> HIDE DEF s, s1, u1, d1
    <3>3. s1 = s + 1 /\ s = unaddressed + delivered_ + dropped_
          /\ u1 \in Nat /\ d1 \in Nat /\ d1 + u1 = dropped_ + unaddressed + 1
      BY <1>3, <2>2, <3>2 DEF s, s1, u1, d1
    <3>4. s1 = u1 + delivered_ + d1
      BY <1>2, <3>3
    <3>5. total(said') = unaddressed' + delivered_' + dropped_'
      BY <3>2, <3>4 DEF s1, u1, d1
    <3>6. delivered_' = polled' + discarded' + Waiting'
      BY <1>3, <2>3, <3>1, <3>2
    <3> QED BY <1>2, <1>6, <2>2, <2>3, <3>1, <3>2, <3>5, <3>6
  <2>5. ASSUME Arrived, NEW to \in DOMAIN ports_,
               Kept(ports_[to], Append(object[ports_[to]].inbox_, Next_(o)))
        PROVE  CountTypes' /\ CountersAddUp'
    <3> DEFINE x == ports_[to]
               inbox == object[x].inbox_
               more == Append(inbox, Next_(o))
    <3>1. x \in DOMAIN object /\ inbox \in Seq(Datagram)
      BY <1>1 DEF PointersAreAlive, TypeOK, Endpoint
    <3>2. Kept(x, more)
      BY <2>5
    <3>3. Len(inbox) \in Nat /\ Len(more) = Len(inbox) + 1
      BY <3>1
    <3> HIDE DEF x, more
    <3>4. /\ IsFiniteSet(Units(Lengths(object)))'
          /\ Waiting \in Nat
          /\ Waiting' = Waiting - Len(inbox) + Len(more)
      BY <1>1, <1>2, <3>1, <3>2, LengthStep
    <3> DEFINE n == Len(inbox)
               n1 == Len(more)
               w == Waiting
               w1 == Waiting'
               s == total(said)
               s1 == total(said')
    <3> HIDE DEF n, n1, w, w1, s, s1
    <3>5. n \in Nat /\ n1 = n + 1 /\ w \in Nat /\ w1 = w - n + n1
      BY <3>3, <3>4 DEF n, n1, w, w1
    <3>6. w1 = w + 1
      BY <3>5
    <3>7. s1 = s + 1 /\ s = unaddressed + delivered_ + dropped_
          /\ delivered_ = polled + discarded + w
      BY <1>3, <2>2 DEF s, s1, w
    <3>8. delivered_' = delivered_ + 1 /\ dropped_' = dropped_
          /\ unaddressed' = unaddressed
      BY <2>5 DEF Arrived
    <3>9. s1 = unaddressed' + delivered_' + dropped_'
          /\ delivered_' = polled' + discarded' + w1
      BY <1>2, <2>3, <3>5, <3>6, <3>7, <3>8
    <3>10. /\ total(said') = unaddressed' + delivered_' + dropped_'
           /\ delivered_' = polled' + discarded' + Waiting'
      BY <3>9 DEF s1, w1
    <3>11. /\ delivered_' \in Nat /\ dropped_' \in Nat /\ unaddressed' \in Nat
           /\ polled' \in Nat /\ discarded' \in Nat
      BY <1>2, <2>3, <3>8
    <3> QED BY <1>6, <2>2, <3>4, <3>10, <3>11
  <2> QED BY <1>1, <1>4, <1>10, <2>4, <2>5, SendEffect
\* An inbox is emptied into one of the two counters.
<1>11. ASSUME NEW o \in DOMAIN object, Kept(o, <<>>), Sent0,
              NEW n, n = Len(object[o].inbox_),
              \/ polled' = polled + n /\ discarded' = discarded
              \/ polled' = polled /\ discarded' = discarded + n
       PROVE  CountTypes' /\ CountersAddUp'
  <2>1. /\ IsFiniteSet(Units(Lengths(object)))'
        /\ Waiting \in Nat
        /\ Waiting' = Waiting - n + Len(<<>>)
    BY <1>1, <1>2, <1>11, LengthStep
  <2>2. n \in Nat /\ Len(<<>>) = 0
    BY <1>5, <1>11
  <2> DEFINE w == Waiting
             w1 == Waiting'
  <2> HIDE DEF w, w1
  <2>3. w \in Nat /\ w1 = w - n + 0 /\ delivered_ = polled + discarded + w
    BY <1>3, <2>1, <2>2 DEF w, w1
  <2>4. /\ polled' \in Nat /\ discarded' \in Nat
        /\ delivered_ = polled' + discarded' + w1
    BY <1>2, <1>11, <2>2, <2>3
  <2>5. delivered_' = polled' + discarded' + Waiting'
    BY <1>11, <2>4 DEF w1
  <2> QED BY <1>2, <1>3, <1>6, <1>11, <2>1, <2>4, <2>5
<1>12. ASSUME NEW o \in DOMAIN object, poll(o) PROVE CountTypes' /\ CountersAddUp'
  <2>1. Kept(o, <<>>)
    BY <1>1, <1>12, PollEffect
  <2>2. Sent0 /\ polled' = polled + Len(object[o].inbox_) /\ discarded' = discarded
    BY <1>12 DEF poll, counters
  <2> QED BY <1>11, <2>1, <2>2
<1>13. ASSUME NEW o \in DOMAIN object, shutdown(o)
       PROVE  CountTypes' /\ CountersAddUp'
  <2>1. Kept(o, <<>>)
    BY <1>1, <1>13, ShutdownEffect
  <2>2. Sent0 /\ polled' = polled /\ discarded' = discarded + Len(object[o].inbox_)
    BY <1>13 DEF shutdown, counters
  <2> QED BY <1>11, <2>1, <2>2
<1>14. ASSUME \/ set_partitioned
              \/ \E ratio \in Ratios : set_packet_loss(ratio)
              \/ UNCHANGED vars
       PROVE  CountTypes' /\ CountersAddUp'
  <2>1. Sent0 /\ Left0 /\ object' = object
    BY <1>14 DEF set_partitioned, set_packet_loss, vars, counters
  <2>2. IsFiniteSet(Units(Lengths(object)))'
    BY <1>2, <2>1
  <2>3. Waiting' = Waiting
    BY <2>1 DEF Waiting
  <2> QED BY <1>7, <2>1, <2>2, <2>3
<1> QED
  BY <1>1, <1>8, <1>9, <1>10, <1>12, <1>13, <1>14 DEF Next, CountInv

LEMMA CountInit == Init => CountInv
<1> SUFFICES ASSUME Init PROVE CountInv
  OBVIOUS
<1>1. /\ object = <<>> /\ said = [p \in Ports |-> 0]
      /\ delivered_ = 0 /\ dropped_ = 0 /\ unaddressed = 0
      /\ polled = 0 /\ discarded = 0
  BY DEF Init
<1>2. Units(said) = {}
  BY <1>1 DEF Units
<1>3. Units(Lengths(object)) = {}
  <2>1. DOMAIN Lengths(object) = {}
    BY <1>1 DEF Lengths
  <2> QED BY <2>1 DEF Units
<1>4. IsFiniteSet({}) /\ Cardinality({}) = 0
  BY FS_EmptySet
<1>5. total(said) = 0 /\ Waiting = 0
  BY <1>2, <1>3, <1>4 DEF total, Units, Waiting
<1>6. CountersAddUp
  BY <1>1, <1>5, AddsUp
<1> QED BY <1>1, <1>2, <1>3, <1>4, <1>6, PortInit DEF CountInv, CountTypes

\* The counters that the suite reads tell the fate of every message: however ports
\* come and go, what was sent is counted as delivered, dropped or unaddressed, and
\* what was delivered is in an inbox, polled or gone with its port.
THEOREM CountersStayTrue == Spec => []CountersAddUp
<1>1. CountInv => CountersAddUp
  BY DEF CountInv
<1> QED BY <1>1, CountInit, CountStep, PTL DEF Spec
=============================================================================
