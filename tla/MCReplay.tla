----------------------------- MODULE MCReplay ------------------------------
(***************************************************************************)
(* Constants for the runs of Replay: those of the runs of Session.         *)
(***************************************************************************)
EXTENDS Replay, MCSession
=============================================================================
