------------------------------ MODULE MCClientMgr ------------------------------
(* Two client objects: a stale one and its successor.  A run casts the         *)
(* manager with an application that starts and stops it at will, or with a    *)
(* SysService.                                                                *)
EXTENDS SysService, TLC

VARIABLE cast

MCVars == <<svcAll, cast>>
MCInit == SvcInit /\ cast \in {"application", "service"}

MCNext ==
  /\ UNCHANGED cast
  /\ \/ cast = "application" /\ Next /\ UNCHANGED svcVars
     \/ cast = "service" /\ SvcNext

MCFairSpec == MCInit /\ [][MCNext]_MCVars /\ Fairness /\ SvcFairness
=============================================================================
