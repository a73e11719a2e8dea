----------------------------- MODULE MCControl -----------------------------
(***************************************************************************)
(* Three nodes in BackendList.json: the first has one GPU, the second does *)
(* not answer, the third has two GPUs, the host's 1 and 2.  Threads work   *)
(* on the second partition of 50 of the first and on the whole of the last *)
(* GPU of the third.                                                       *)
(***************************************************************************)
EXTENDS ControlChannel

MCReachable == {0, 2}
MCNGPUs == [n \in MCReachable |-> IF n = 0 THEN 1 ELSE 2]
MCFirstIdx == [n \in MCReachable |-> IF n = 0 THEN 0 ELSE 1]
MCAvail == <<50, 100>>
MCSizes == [n \in MCReachable |-> MCAvail]
MCManaged == {[node |-> 0, gpu |-> 0, cap |-> 50, dedup |-> 1],
              [node |-> 2, gpu |-> 1, cap |-> 100, dedup |-> 0]}
=============================================================================
