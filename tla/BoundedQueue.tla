---------------------------- MODULE BoundedQueue ----------------------------
(***************************************************************************)
(* The bounded thread-safe queue between the application thread and the    *)
(* worker of a ThreadedChannel.  Every operation holds the mutex from its  *)
(* beginning to its end, so each is a function on the value of the queue.  *)
(***************************************************************************)
EXTENDS Integers, Sequences

CONSTANT Capacity

ASSUME CapacityAssumption == Capacity \in Nat \ {0}

Queue(T) == [items : Seq(T), dropped : Nat, closed : BOOLEAN]

EmptyQueue == [items |-> <<>>, dropped |-> 0, closed |-> FALSE]

\* Mutant: what is dropped is not counted.
push_Silent(q, value) ==
    IF Len(q.items) >= Capacity
    THEN [q EXCEPT !.items = Append(Tail(@), value)]
    ELSE [q EXCEPT !.items = Append(@, value)]

\* A full queue drops its oldest item.
push(q, value) ==
    IF Len(q.items) >= Capacity
    THEN [q EXCEPT !.items = Append(Tail(@), value), !.dropped = @ + 1]
    ELSE [q EXCEPT !.items = Append(@, value)]

\* Mutant: drain copies the items and leaves them.
drained_Copy(q) == q

\* The queue that drain leaves; what it returns are the items.
drained(q) == [q EXCEPT !.items = <<>>]

\* Nobody waits on the queue and nobody reads the flag.
close(q) == [q EXCEPT !.closed = TRUE]
=============================================================================
