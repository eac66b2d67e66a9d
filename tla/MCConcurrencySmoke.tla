------------------------- MODULE MCConcurrencySmoke -------------------------
(***************************************************************************)
(* Three clients, so that two can wait for the lock; a timeout that only a *)
(* lost reply exceeds.                                                     *)
(***************************************************************************)
EXTENDS ConcurrencySmoke
=============================================================================
