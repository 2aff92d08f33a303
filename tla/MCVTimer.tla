------------------------------- MODULE MCVTimer -------------------------------
(* A task without a delay, two with one, and three vsyncs to submit them around. *)
EXTENDS VTimer, TLC
=============================================================================
