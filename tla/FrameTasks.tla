------------------------------ MODULE FrameTasks ------------------------------
(***************************************************************************)
(* What VTimerProvider promises to those who submit tasks: a task names a  *)
(* frame; it is refused if the display is past that frame and otherwise    *)
(* accepted, for good, and an accepted task begins once, after the vsync   *)
(* of its frame.                                                           *)
(***************************************************************************)
EXTENDS Naturals

CONSTANTS Task, Frame

VARIABLES
  now,   \* the frame whose vsync is next
  st,    \* st[t]: new, refused, accepted, or begun
  due    \* due[t]: the frame that t was submitted for

ftVars == <<now, st, due>>

FTInit ==
  /\ now = 0
  /\ st = [t \in Task |-> "new"]
  /\ due = [t \in Task |-> 0]

Vsync == now' = now + 1 /\ UNCHANGED <<st, due>>

Submitted(t, n) ==
  /\ st[t] = "new"
  /\ due' = [due EXCEPT ![t] = n]
  /\ st' = [st EXCEPT ![t] = IF n < now THEN "refused" ELSE "accepted"]
  /\ UNCHANGED now

Begins(t) ==
  /\ st[t] = "accepted"
  /\ due[t] < now
  /\ st' = [st EXCEPT ![t] = "begun"]
  /\ UNCHANGED <<now, due>>

FTNext == Vsync \/ \E t \in Task : Begins(t) \/ \E n \in Frame : Submitted(t, n)

FTSpec == FTInit /\ [][FTNext]_ftVars
=============================================================================
