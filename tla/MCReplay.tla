------------------------------ MODULE MCReplay ------------------------------
(***************************************************************************)
(* The whole script, from cursor 5 to 25, with one driving thread and one  *)
(* stream.  Readers do not influence each other or the session, so that a  *)
(* second one would only multiply the states.                              *)
(***************************************************************************)
EXTENDS ReplaySession
=============================================================================
