-------------------------- MODULE CompletionStream --------------------------
(***************************************************************************)
(* What the completion queue promises to the threads around it: the        *)
(* requests a thread put are taken in the order it put them, each by one   *)
(* reader, and the reader gets the very request that was put.              *)
(***************************************************************************)
EXTENDS Naturals

CONSTANTS Producers, Consumers, Nobody

VARIABLES
    put,         \* producer -> how many requests it put
    taken,       \* producer -> how many of them were taken
    hand,        \* consumer -> the request it is taking, or Nobody
    delivered    \* the requests handed to reply threads

Init ==
    /\ put = [p \in Producers |-> 0]
    /\ taken = [p \in Producers |-> 0]
    /\ hand = [c \in Consumers |-> Nobody]
    /\ delivered = {}

Put(p) ==
    /\ put' = [put EXCEPT ![p] = @ + 1]
    /\ UNCHANGED <<taken, hand, delivered>>

Take(c, p) ==
    /\ hand[c] = Nobody
    /\ taken[p] < put[p]
    /\ taken' = [taken EXCEPT ![p] = @ + 1]
    /\ hand' = [hand EXCEPT ![c] = <<p, taken[p]>>]
    /\ UNCHANGED <<put, delivered>>

Deliver(c) ==
    /\ hand[c] # Nobody
    /\ hand[c] \notin delivered
    /\ delivered' = delivered \cup {hand[c]}
    /\ hand' = [hand EXCEPT ![c] = Nobody]
    /\ UNCHANGED <<put, taken>>

Next ==
    \/ \E p \in Producers : Put(p)
    \/ \E c \in Consumers : Deliver(c) \/ \E p \in Producers : Take(c, p)

Spec == Init /\ [][Next]_<<put, taken, hand, delivered>>
=============================================================================
