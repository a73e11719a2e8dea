----------------------------- MODULE MCGpuProxy -----------------------------
(***************************************************************************)
(* Small instances of GpuProxy: a partition, and two or three models.       *)
(***************************************************************************)
EXTENDS GpuProxy, TLC

MCModels == {"A", "B"}
MCThreeModels == {"A", "B", "C"}
=============================================================================
