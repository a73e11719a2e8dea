-------------------------- MODULE MCBatchPipeline --------------------------
(***************************************************************************)
(* Small instances of BatchPipeline.                                       *)
(*                                                                         *)
(* The application graphs are those of resource/config: "chain" is the     *)
(* part of traffic.json that has a successor, "fan" the two branches of    *)
(* game.json that meet in the output, "single" a model of its own.         *)
(***************************************************************************)
EXTENDS BatchPipeline, TLC

\* One GPU partition, or two that share the request queues.
MCOneProxy == {"p1"}
MCTwoProxies == {"p1", "p2"}

\* Two batching and two output threads, all on one partition or one each.
MCBatchers == {"b1", "b2"}
MCOutputs == {"o1", "o2"}
MCProxyOfOne == [x \in MCBatchers \cup MCOutputs |-> "p1"]
MCProxyOfTwo == [x \in MCBatchers \cup MCOutputs |->
                    IF x \in {"b1", "o1"} THEN "p1" ELSE "p2"]

\* One model.
MCSingleModel == {"A"}
MCSingleNodes == {1}
MCSingleModelOf == [n \in {1} |-> "A"]
MCSingleSucc == [n \in {1} |-> {}]

\* Two models: the nodes 1 and 2 in sequence, or side by side.
MCTwoModels == {"A", "B"}
MCTwoNodes == {1, 2}
MCTwoModelOf == [n \in {1, 2} |-> IF n = 1 THEN "A" ELSE "B"]
MCChainSucc == [n \in {1, 2} |-> IF n = 1 THEN {2} ELSE {}]
MCFanSucc == [n \in {1, 2} |-> {}]
MCLast == {2}
MCFirst == {1}

MCBatchOne == [m \in Models |-> 1]
MCBatchTwo == [m \in Models |-> 2]
MCAllNets == [p \in Proxies |-> Models]
MCOneNet == [p \in Proxies |-> {"A"}]

\* The graphs above are trees, as NoRequestLost requires.
ASSUME MCTreeAssumption == TreeApplication

\* Tasks are interchangeable: no action or property names one.
MCSymmetry == Permutations(Tasks)
=============================================================================
