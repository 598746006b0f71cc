----------------------------- MODULE MCMsgSleep -----------------------------
(* Instances of MsgSleep for TLC. *)
EXTENDS MsgSleep
=============================================================================
