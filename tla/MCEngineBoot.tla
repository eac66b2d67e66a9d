----------------------------- MODULE MCEngineBoot -----------------------------
(***************************************************************************)
(* Two copies of the model's code, two blocks, two engines.                *)
(***************************************************************************)
EXTENDS EngineBoot
=============================================================================
