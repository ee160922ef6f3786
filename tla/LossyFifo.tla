----------------------------- MODULE LossyFifo -----------------------------
(***************************************************************************)
(* What a channel promises in one direction: messages 1, 2, 3, ... are put *)
(* in, may be lost while they are under way, and those that come out do so *)
(* in order and once.                                                      *)
(***************************************************************************)
EXTENDS Integers

VARIABLES
    sent,       \* number of the last message put in
    transit,    \* the messages under way
    delivered   \* number of the last message that came out

vars == <<sent, transit, delivered>>

TypeOK ==
    /\ sent \in Nat /\ delivered \in Nat
    /\ transit \subseteq 1 .. sent

Init == sent = 0 /\ transit = {} /\ delivered = 0

\* Room for a new message may be made at the expense of others, or of itself.
Send ==
    /\ sent' = sent + 1
    /\ transit' \subseteq transit \cup {sent + 1}
    /\ UNCHANGED delivered

Lose ==
    /\ transit' \subseteq transit
    /\ UNCHANGED <<sent, delivered>>

\* Some of the oldest messages come out together.
Deliver ==
    /\ transit' \subseteq transit
    /\ delivered' \in transit \ transit'
    /\ \A m \in transit' : m > delivered'
    /\ UNCHANGED sent

Next == Send \/ Lose \/ Deliver

Spec == Init /\ [][Next]_vars

\* Every message under way is newer than those that came out.
Ordered ==
    /\ delivered =< sent
    /\ \A m \in transit : m > delivered
=============================================================================
