----------------------------- MODULE MCWsTimers -----------------------------
(***************************************************************************)
(* The timeout is four intervals, as in ws.rs, and a frame may outlast two *)
(* of them.                                                                *)
(***************************************************************************)
EXTENDS WsTimers
=============================================================================
