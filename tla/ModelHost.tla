----------------------------- MODULE ModelHost -----------------------------
(***************************************************************************)
(* What a GPU partition promises the scheduler: requests are routed only   *)
(* to models that it holds in memory, and a model leaves memory only while *)
(* nothing is routed to it.  GpuProxy is shown to implement this.          *)
(***************************************************************************)
CONSTANT Models

VARIABLES
    served,   \* the models requests are routed to
    loaded    \* the models in the memory of the partition

vars == <<served, loaded>>

Init == /\ served = {}
        /\ loaded = {}

Route(S) == /\ S \subseteq loaded
            /\ served' = S
            /\ UNCHANGED loaded

Load(m) == /\ loaded' = loaded \cup {m}
           /\ UNCHANGED served

Unload(m) == /\ m \notin served
             /\ loaded' = loaded \ {m}
             /\ UNCHANGED served

Next == \/ \E S \in SUBSET Models : Route(S)
        \/ \E m \in Models : Load(m) \/ Unload(m)

Spec == Init /\ [][Next]_vars
=============================================================================
