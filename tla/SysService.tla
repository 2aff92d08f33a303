------------------------------ MODULE SysService ------------------------------
(***************************************************************************)
(* src/core/SysService/SysService.hpp: the life of a service program on    *)
(* its ClientManager.  start() gives onStart, a hook of the subclass, to   *)
(* the pool, and the creation of the manager to the loop; nothing orders   *)
(* the two, so onStart runs beside everything below and is not a step of   *)
(* it.  stop() is called by a control message of Main, by the manager's    *)
(* verdict, or by the service itself, on the loop or on another thread.    *)
(*                                                                         *)
(* The manager's handlers are those of ClientMgr, and the service stops    *)
(* the manager in every callback that gives it reason to.                  *)
(***************************************************************************)
EXTENDS ClientMgr

VARIABLES
  manager,  \* _clientMgr: none, initClientMgr queued, or made
  ended     \* history: the cause onStop was last called with

svcVars == <<manager, ended>>
svcAll == <<vars, svcVars>>

\* The causes of onStop; normal, force and runtime_error are "asked".
Causes == {"none", "asked", "uds_error"}

SvcInit == Init /\ manager = "none" /\ ended = "none"

-----------------------------------------------------------------------------
(* start().                                                                *)

\* Main calls it before the loop runs, or on the loop, where dispatch does not
\* wait.
StartService ==
  /\ manager = "none"
  /\ \/ manager' = "queued" /\ Alive /\ UNCHANGED vars
     \/ manager' = "made" /\ Start
  /\ UNCHANGED ended

\* A variant of InitClientMgr that does not start the manager it makes.
InitClientMgrIdle ==
  /\ manager = "queued"
  /\ Alive
  /\ manager' = "made"
  /\ UNCHANGED <<vars, ended>>

InitClientMgr ==
  /\ manager = "queued"
  /\ Start
  /\ manager' = "made"
  /\ UNCHANGED ended

-----------------------------------------------------------------------------
(* stop(cause).                                                            *)

\* On the loop: there may be no manager yet, and one that is idle refuses.
StopOnLoop ==
  /\ manager # "none"
  /\ IF manager = "made" /\ state # "Idle" THEN Stop ELSE Alive /\ UNCHANGED vars
  /\ ended' = "asked"
  /\ UNCHANGED manager

\* On another thread the manager refuses, and onStop is called all the same.
StopElsewhere ==
  /\ Alive
  /\ manager # "none"
  /\ ended' = "asked"
  /\ UNCHANGED <<vars, manager>>

\* A message that makes the service stop: a request or a kill of Main, or one
\* on which the service itself calls stop.
ControlMessage(a) == MessageArrives(a, TRUE) /\ ended' = "asked"

OtherMessage(a) == MessageArrives(a, FALSE) /\ UNCHANGED ended

\* handleInternalError(): the service stops whenever the manager gives up.
Reported == ended' = IF told' # told THEN "uds_error" ELSE ended

-----------------------------------------------------------------------------
\* What the manager does by itself, whatever the service is doing.
ManagerStep ==
  \/ TaskExpires \/ Body
  \/ \E a \in Attempt : ConnectCompletes(a) \/ ReadCompletes(a) \/ LinkBreaks(a)
                        \/ OperationEnds(a) \/ ReadFails(a) \/ WriteFails(a)
  \/ PingExpires \/ PingIsSent \/ OverTimeExpires \/ OverTime

\* The handlers in which the manager may give up.
Decision ==
  /\ Completion(TRUE) \/ \E a \in Attempt : ConnectSucceeds(a, TRUE) \/ ConnectFails(a, TRUE)
  /\ Reported

SvcNext ==
  \/ StartService \/ InitClientMgr
  \/ StopOnLoop \/ StopElsewhere
  \/ SendMsg /\ UNCHANGED svcVars
  \/ ManagerStep /\ UNCHANGED svcVars
  \/ Decision /\ UNCHANGED manager
  \/ \E a \in Attempt :
       /\ OtherMessage(a) \/ ControlMessage(a)
       /\ UNCHANGED manager

SvcSpec == SvcInit /\ [][SvcNext]_svcAll

\* The loop runs what start() has given it.
SvcFairness == WF_svcAll(InitClientMgr)

SvcFairSpec == SvcSpec /\ Fairness /\ SvcFairness

-----------------------------------------------------------------------------
\* A service whose manager has given up has been told to stop, and its manager
\* is idle and plans no attempt, although Stop runs inside the handler that
\* gives up and that handler goes on after it.
GivenUpIsStopped ==
  manager = "made" /\ told # "none" => ended # "none" /\ state = "Idle" /\ ~task

\* A service has one open connection at most, however it reconnects: the router
\* keys its sessions by id, and a second one would overwrite the first.
OneConnection ==
  manager = "made" =>
    \A a \in Attempt : op[a] \in {"connecting", "ok", "reading", "msg"} /\ ~shut[a] => client = a

\* SysService.hpp:25-43 and :70-101: a service with a manager that has not been
\* told to stop works, or waits for a decision that is under way: no verdict, late
\* completion or error of an earlier client leaves it with an idle or dead manager.
NeverForgotten ==
  manager = "made" /\ ended = "none" => state = "Working" \/ (Connecting /\ (task \/ late > 0))

\* A started service gets a connection or is told to stop, provided that the
\* pool never runs out of client objects for good.
ServiceComesUp ==
  []<>(body # "queued") =>
    (manager # "none" ~> (state = "Working" \/ ended # "none" \/ fault # "none"))
=============================================================================
