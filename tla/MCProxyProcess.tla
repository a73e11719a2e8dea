--------------------------- MODULE MCProxyProcess ---------------------------
(***************************************************************************)
(* A small instance of ProxyProcess: two models that are loaded, served    *)
(* and unloaded, then the shutdown.                                        *)
(***************************************************************************)
EXTENDS ProxyProcess, TLC

MCModels == {"A", "B"}
=============================================================================
