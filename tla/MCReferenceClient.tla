-------------------------- MODULE MCReferenceClient --------------------------
(***************************************************************************)
(* Small instances of the reference client; the .cfg files give the sizes. *)
(***************************************************************************)
EXTENDS ReferenceClient
=============================================================================
