----------------------------- MODULE MCDataWire -----------------------------
(***************************************************************************)
(* A small instance of DataWire: two batching threads, a batch of each     *)
(* kind, and the control thread's commands, word by word.  Model 1 has as  *)
(* many input dimensions as the protocol admits, model 2 has none.         *)
(***************************************************************************)
EXTENDS DataWire, TLC

MCKinds == {<<1, 2>>, <<2, 1>>}
MCInputDims == <<<<3, 2, 2>>, <<>>>>
MCOutputDims == <<<<7>>, <<>>>>

ASSUME WireConfigured == Configured

(* Both sockets are closed and every word is read. *)
Done ==
    /\ Closed /\ open = {} /\ wire["input"] = <<>>
    /\ UNCHANGED vars

MCSpec == Init /\ [][Next \/ Done]_vars
=============================================================================
