------------------------------ MODULE CountedTask ------------------------------
(***************************************************************************)
(* What a caller of suRuntime::schedule and scheduleAtFixedRate may rely   *)
(* on, without timers, threads or handlers: a task has a budget of runs    *)
(* (-1: no end), a cancellation closes it for good, and only a task that   *)
(* spent its whole budget notifies its owner, once.                        *)
(***************************************************************************)
EXTENDS Integers

CONSTANTS Tasks, Budgets, MaxSub

VARIABLES status, budget, runs

ctVars == <<status, budget, runs>>

Status == {"idle", "active", "cancelled", "finished", "completing", "notified"}

CTInit ==
  /\ status = [t \in Tasks |-> "idle"]
  /\ budget = [t \in Tasks |-> 0]
  /\ runs = [t \in Tasks |-> 0]

Start(t) ==
  /\ status[t] = "idle"
  /\ status' = [status EXCEPT ![t] = "active"]
  /\ \E n \in Budgets : budget' = [budget EXCEPT ![t] = n]
  /\ UNCHANGED runs

Run(t) ==
  /\ status[t] = "active"
  /\ budget[t] # 0
  /\ budget' = [budget EXCEPT ![t] = IF @ > 0 THEN @ - 1 ELSE @]
  /\ runs' = [runs EXCEPT ![t] = IF @ < MaxSub THEN @ + 1 ELSE @]
  /\ UNCHANGED status

CancelInTime(t) ==
  /\ status[t] = "active"
  /\ budget[t] # 0
  /\ status' = [status EXCEPT ![t] = "cancelled"]
  /\ UNCHANGED <<budget, runs>>

\* The budget is spent: no callback, one that is still to come, or one
\* that is made in the same step.
Exhaust(t) ==
  /\ status[t] = "active"
  /\ budget[t] = 0
  /\ \E s \in {"finished", "completing", "notified"} : status' = [status EXCEPT ![t] = s]
  /\ UNCHANGED <<budget, runs>>

Notify(t) ==
  /\ status[t] = "completing"
  /\ status' = [status EXCEPT ![t] = "notified"]
  /\ UNCHANGED <<budget, runs>>

CTNext == \E t \in Tasks : Start(t) \/ Run(t) \/ CancelInTime(t) \/ Exhaust(t) \/ Notify(t)

CTSpec == CTInit /\ [][CTNext]_ctVars
=============================================================================
