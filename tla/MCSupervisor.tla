---------------------------- MODULE MCSupervisor ----------------------------
(***************************************************************************)
(* Timers in their order of length: the grace of the entrypoint and the    *)
(* flush of the frontend are equal, and an inference may outlast both.     *)
(***************************************************************************)
EXTENDS Supervisor
=============================================================================
