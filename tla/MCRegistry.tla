----------------------------- MODULE MCRegistry -----------------------------
(***************************************************************************)
(* One stray id and a cap of one session, so that three requests suffice   *)
(* to create, adopt, reset and retire the same id at the same time.        *)
(***************************************************************************)
EXTENDS ReplayRegistry
=============================================================================
