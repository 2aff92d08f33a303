---------------------------- MODULE VTimer_proofs ----------------------------
(***************************************************************************)
(* Proofs about VTimer, for any tasks and any number of frames.            *)
(*                                                                         *)
(* That a task begins once follows from where it can be: Places says that  *)
(* its ways from the caller to the pool exclude each other, and that what  *)
(* has left a queue has had its vsync.                                     *)
(***************************************************************************)
EXTENDS VTimer, TLAPS

Places ==
  /\ \A t \in Task : t \in fresh => t \notin Held /\ ran[t] = 0
  /\ \A t \in Task : t \in Held => ran[t] = 0
  /\ \A t \in Task : ran[t] \in {0, 1}
  /\ \A n \in Frame, t \in Task :
       t \in queue[n] => due[t] = n /\ t \notin timers \cup pool
  /\ \A t \in timers : t \notin pool
  /\ \A t \in timers \cup pool : due[t] < frame

InBound == thread = "triggering" => frame < MaxFrame

VTInv == VTTypeOK /\ InBound /\ NothingStranded /\ WaitsOnOpenDevice /\ Places

\* Held, without its union.
LEMMA HeldIs ==
  ASSUME NEW t
  PROVE  t \in Held <=> t \in timers \/ t \in pool \/ \E n \in Frame : t \in queue[n]
BY DEF Held

LEMMA FrameNat == Frame \subseteq Nat /\ 0 \in Frame
BY MaxFrameAssumption DEF Frame

LEMMA VTInitInv == VTInit => VTInv
<1> SUFFICES ASSUME VTInit PROVE VTInv
  OBVIOUS
<1>1. VTTypeOK
  <2>1. frame \in 0..MaxFrame /\ due \in [Task -> Frame] /\ ran \in [Task -> Nat]
    BY FrameNat, MaxFrameAssumption DEF VTInit
  <2>2. queue \in [Frame -> SUBSET Task]
    BY DEF VTInit
  <2> QED
    BY <2>1, <2>2 DEF VTInit, VTTypeOK
<1>2. InBound /\ NothingStranded /\ WaitsOnOpenDevice
  BY DEF VTInit, InBound, NothingStranded, WaitsOnOpenDevice
<1>3. Places
  BY HeldIs DEF VTInit, Places
<1> QED
  BY <1>1, <1>2, <1>3 DEF VTInv

\* Type correctness.
LEMMA VTTypeStep == VTTypeOK /\ InBound /\ [VTNext]_vtVars => VTTypeOK' /\ InBound'
<1> SUFFICES ASSUME VTTypeOK, InBound, [VTNext]_vtVars PROVE VTTypeOK' /\ InBound'
  OBVIOUS
<1> USE FrameNat, MaxFrameAssumption DEF VTTypeOK, InBound, taskVars, listenerVars
<1>1. ASSUME NEW t \in Task, NEW n \in Frame, SubmitTask(t, n) PROVE VTTypeOK' /\ InBound'
  BY <1>1 DEF SubmitTask
<1>2. ASSUME NEW t \in Task, TimerExpires(t) \/ WorkerRuns(t) PROVE VTTypeOK' /\ InBound'
  BY <1>2 DEF TimerExpires, WorkerRuns
<1>3. CASE StopRuntime
  BY <1>3 DEF StopRuntime
<1>4. CASE Start \/ Stop \/ StopReturns
  BY <1>4 DEF Start, Stop, StopReturns
<1>5. CASE Check \/ WaitFails \/ Wakes
  BY <1>5 DEF Check, WaitFails, Wakes
<1>6. CASE WaitSucceeds
  BY <1>6 DEF WaitSucceeds
<1>7. CASE Trigger
  <2>1. frame \in Frame /\ frame' \in 0..MaxFrame
    BY <1>7 DEF Trigger, Frame
  <2>2. queue' \in [Frame -> SUBSET Task]
    BY <1>7, <2>1 DEF Trigger
  <2>3. queue[frame] \subseteq Task
    BY <2>1
  <2>4. timers' \subseteq Task /\ pool' \subseteq Task
    BY <1>7, <2>3 DEF Trigger
  <2>5. thread' = "checking" /\ UNCHANGED <<fresh, due, ran, runtime, running, fd, stopping>>
    BY <1>7 DEF Trigger
  <2>6. InBound'
    BY <2>5
  <2>7. VTTypeOK'
    BY <2>1, <2>2, <2>4, <2>5
  <2> QED
    BY <2>6, <2>7
<1>8. CASE UNCHANGED vtVars
  BY <1>8 DEF vtVars
<1> QED
  BY <1>1, <1>2, <1>3, <1>4, <1>5, <1>6, <1>7, <1>8 DEF VTNext, ThreadStep

\* No task is left behind, and the thread waits on an open descriptor.
LEMMA VTQueueStep ==
  VTInv /\ [VTNext]_vtVars => NothingStranded' /\ WaitsOnOpenDevice'
<1> SUFFICES ASSUME VTInv, [VTNext]_vtVars PROVE NothingStranded' /\ WaitsOnOpenDevice'
  OBVIOUS
<1> USE FrameNat, MaxFrameAssumption
    DEF VTInv, VTTypeOK, NothingStranded, WaitsOnOpenDevice, taskVars, listenerVars
<1>1. ASSUME NEW t \in Task, NEW n \in Frame, SubmitTask(t, n)
      PROVE  NothingStranded' /\ WaitsOnOpenDevice'
  BY <1>1 DEF SubmitTask
<1>2. ASSUME NEW t \in Task, TimerExpires(t) \/ WorkerRuns(t)
      PROVE  NothingStranded' /\ WaitsOnOpenDevice'
  BY <1>2 DEF TimerExpires, WorkerRuns
<1>3. CASE StopRuntime
  BY <1>3 DEF StopRuntime
<1>4. CASE Start \/ Stop \/ StopReturns
  BY <1>4 DEF Start, Stop, StopReturns
<1>5. CASE WaitFails \/ WaitSucceeds \/ Wakes
  BY <1>5 DEF WaitFails, WaitSucceeds, Wakes
<1>6. CASE Check
  BY <1>6 DEF Check
<1>7. CASE Trigger
  BY <1>7 DEF Trigger
<1>8. CASE UNCHANGED vtVars
  BY <1>8 DEF vtVars
<1> QED
  BY <1>1, <1>2, <1>3, <1>4, <1>5, <1>6, <1>7, <1>8 DEF VTNext, ThreadStep
\* Places, action by action: only four of them touch a task.
LEMMA PlacesStep == VTInv /\ [VTNext]_vtVars => Places'
<1> SUFFICES ASSUME VTInv, [VTNext]_vtVars PROVE Places'
  OBVIOUS
<1> USE FrameNat DEF VTInv, VTTypeOK, taskVars, listenerVars
<1>1. ASSUME NEW t \in Task, NEW n \in Frame, SubmitTask(t, n) PROVE Places'
  <2>1. \A m \in Frame, u \in Task : u \in queue'[m] => u \in queue[m] \/ (u = t /\ m = n /\ n >= frame)
    BY <1>1 DEF SubmitTask
  <2>2. \A u \in Task : u \in Held' => u \in Held \/ u = t
    BY <1>1, <2>1 DEF SubmitTask, Held
  <2>3. t \notin Held /\ ran[t] = 0
    BY <1>1 DEF SubmitTask, Places
  <2>4. \A u \in Task : u \in fresh' => u \in fresh /\ u # t
    BY <1>1 DEF SubmitTask
  <2>5. \A u \in timers \cup pool : u # t
    BY <2>3, HeldIs
  <2>6. \A u \in Task : due'[u] = IF u = t THEN n ELSE due[u]
    BY <1>1 DEF SubmitTask
  <2>7. \A m \in Frame : t \notin queue[m]
    BY <2>3, HeldIs
  <2> QED
    BY <1>1, <2>1, <2>2, <2>3, <2>4, <2>5, <2>6, <2>7 DEF SubmitTask, Places
<1>2. ASSUME NEW t \in Task, TimerExpires(t) PROVE Places'
  <2>1. \A u : u \in Held' <=> u \in Held
    BY <1>2, HeldIs DEF TimerExpires, Held
  <2> QED
    BY <1>2, <2>1 DEF TimerExpires, Places
<1>3. ASSUME NEW t \in Task, WorkerRuns(t) PROVE Places'
  <2>1. t \in Held /\ t \notin timers /\ \A n \in Frame : t \notin queue[n]
    BY <1>3, HeldIs DEF WorkerRuns, Places
  <2>2. \A u : u \in Held' <=> u \in Held /\ u # t
    BY <1>3, <2>1 DEF WorkerRuns, Held
  <2>3. \A u \in Task : ran'[u] = IF u = t THEN 1 ELSE ran[u]
    BY <1>3, <2>1 DEF WorkerRuns, Places
  <2> QED
    BY <1>3, <2>1, <2>2, <2>3 DEF WorkerRuns, Places
<1>4. CASE Trigger
  <2>1. frame \in Frame /\ frame' = frame + 1 /\ frame \in Nat
    BY <1>4, MaxFrameAssumption DEF Trigger, InBound, Frame
  <2>2. \A n \in Frame : queue'[n] = IF n = frame THEN {} ELSE queue[n]
    BY <1>4, <2>1 DEF Trigger
  <2>3. \A u : u \in timers' \cup pool' <=> u \in timers \cup pool \cup queue[frame]
    BY <1>4 DEF Trigger
  <2>4. \A u : u \in Held' <=> u \in Held
    BY <2>1, <2>2, <2>3, HeldIs DEF Held
  <2>5. \A u \in timers' : u \notin pool'
    BY <1>4, <2>1 DEF Trigger, Places
  <2>6. \A u \in timers' \cup pool' : due[u] < frame'
    <3>1. \A u \in queue[frame] : u \in Task /\ due[u] = frame
      BY <2>1 DEF Places
    <3>2. \A u \in Task : due[u] \in Nat
      OBVIOUS
    <3>3. \A u \in timers \cup pool : u \in Task /\ due[u] < frame
      BY DEF Places
    <3> QED
      BY <2>1, <2>3, <3>1, <3>2, <3>3
  <2>7. \A n \in Frame, u \in Task : u \in queue'[n] => due[u] = n /\ u \notin timers' \cup pool'
    BY <2>1, <2>2, <2>3 DEF Places
  <2> QED
    BY <1>4, <2>4, <2>5, <2>6, <2>7 DEF Trigger, Places
<1>5. CASE UNCHANGED <<taskVars, pool, ran>>
  <2>1. Held' = Held
    BY <1>5 DEF Held
  <2> QED
    BY <1>5, <2>1 DEF Places
<1>6. StopRuntime \/ Start \/ Stop \/ StopReturns \/ Check \/ WaitSucceeds \/ WaitFails
        \/ Wakes \/ UNCHANGED vtVars => UNCHANGED <<taskVars, pool, ran>>
  BY DEF StopRuntime, Start, Stop, StopReturns, Check, WaitSucceeds, WaitFails, Wakes, vtVars
<1> QED
  BY <1>1, <1>2, <1>3, <1>4, <1>5, <1>6 DEF VTNext, ThreadStep

\* The invariant that everything else rests on.
THEOREM VTInvCorrect == VTSpec => []VTInv
<1>1. VTInv /\ [VTNext]_vtVars => VTInv'
  BY VTTypeStep, VTQueueStep, PlacesStep DEF VTInv
<1> QED
  BY <1>1, VTInitInv, PTL DEF VTSpec

\* Type correctness, for any tasks and any number of frames.
THEOREM VTTypeCorrect == VTSpec => []VTTypeOK
BY VTInvCorrect, PTL DEF VTInv

\* No task waits in the queue of a frame that has been triggered: the check of
\* scheduleTask and the count of triggerHardwareVSync cannot miss each other.
THEOREM NothingStrandedHolds == VTSpec => []NothingStranded
BY VTInvCorrect, PTL DEF VTInv

\* The listener's thread uses its descriptor only while that is open.
THEOREM WaitsOnOpenDeviceHolds == VTSpec => []WaitsOnOpenDevice
BY VTInvCorrect, PTL DEF VTInv

-----------------------------------------------------------------------------
(* The refinement of FrameTasks.                                           *)

\* A step that leaves the tasks where they are is no step of the promise.
LEMMA StatusKept ==
  ASSUME fresh' = fresh, ran' = ran, \A u : u \in Held' <=> u \in Held
  PROVE  [t \in Task |-> Status(t)]' = [t \in Task |-> Status(t)]
<1>1. \A t \in Task : Status(t)' = Status(t)
  BY DEF Status
<1> QED
  BY <1>1

\* Tasks that are where they were have the status they had.
LEMMA StatusOfOthers ==
  ASSUME NEW t \in Task,
         \A u \in Task \ {t} : /\ u \in fresh' <=> u \in fresh
                               /\ ran'[u] = ran[u]
                               /\ u \in Held' <=> u \in Held
  PROVE  [u \in Task |-> Status(u)]' = [[u \in Task |-> Status(u)] EXCEPT ![t] = Status(t)']
<1>1. \A u \in Task \ {t} : Status(u)' = Status(u)
  BY DEF Status
<1> QED
  BY <1>1

LEMMA PromiseInit == VTInit => Promise!FTInit
<1> SUFFICES ASSUME VTInit PROVE Promise!FTInit
  OBVIOUS
<1>1. \A t \in Task : Status(t) = "new"
  BY DEF VTInit, Status
<1> QED
  BY <1>1 DEF VTInit, Promise!FTInit

LEMMA PromiseStep == VTInv /\ [VTNext]_vtVars => [Promise!FTNext]_(Promise!ftVars)
<1> SUFFICES ASSUME VTInv, [VTNext]_vtVars PROVE [Promise!FTNext]_(Promise!ftVars)
  OBVIOUS
<1> USE FrameNat DEF VTInv, VTTypeOK, taskVars, listenerVars
<1>1. ASSUME NEW t \in Task, NEW n \in Frame, SubmitTask(t, n) PROVE Promise!Submitted(t, n)
  <2>1. Status(t) = "new"
    BY <1>1 DEF SubmitTask, Status
  <2>2. t \notin Held /\ ran[t] = 0
    BY <1>1 DEF SubmitTask, Places
  <2>3. t \in Held' <=> n >= frame
    BY <1>1, <2>2 DEF SubmitTask, Held
  <2>4. t \notin fresh' /\ ran'[t] = 0
    BY <1>1, <2>2 DEF SubmitTask
  <2>5. Status(t)' = IF n < frame THEN "refused" ELSE "accepted"
    BY <2>3, <2>4, MaxFrameAssumption DEF Status, Frame
  <2>6. \A u \in Task \ {t} : u \in Held' <=> u \in Held
    BY <1>1 DEF SubmitTask, Held
  <2>7. [u \in Task |-> Status(u)]' = [[u \in Task |-> Status(u)] EXCEPT ![t] = Status(t)']
    BY <1>1, <2>6, StatusOfOthers DEF SubmitTask
  <2> QED
    BY <1>1, <2>1, <2>5, <2>7 DEF SubmitTask, Promise!Submitted
<1>2. ASSUME NEW t \in Task, TimerExpires(t) PROVE UNCHANGED Promise!ftVars
  <2>1. \A u : u \in Held' <=> u \in Held
    BY <1>2 DEF TimerExpires, Held
  <2> QED
    BY <1>2, <2>1, StatusKept DEF TimerExpires, Promise!ftVars
<1>3. ASSUME NEW t \in Task, WorkerRuns(t) PROVE Promise!Begins(t)
  <2>1. t \in Held /\ t \notin timers /\ (\A n \in Frame : t \notin queue[n]) /\ due[t] < frame
    BY <1>3, HeldIs DEF WorkerRuns, Places
  <2>2. \A u : u \in Held' <=> u \in Held /\ u # t
    BY <1>3, <2>1 DEF WorkerRuns, Held
  <2>3. t \notin fresh /\ ran[t] = 0 /\ ran'[t] = 1 /\ t \notin fresh'
    BY <1>3, <2>1 DEF WorkerRuns, Places
  <2>4. Status(t) = "accepted" /\ Status(t)' = "begun"
    BY <2>1, <2>2, <2>3 DEF Status
  <2>5. [u \in Task |-> Status(u)]' = [[u \in Task |-> Status(u)] EXCEPT ![t] = Status(t)']
    BY <1>3, <2>2, StatusOfOthers DEF WorkerRuns
  <2> QED
    BY <1>3, <2>1, <2>4, <2>5 DEF WorkerRuns, Promise!Begins
<1>4. CASE Trigger
  <2>1. frame \in Frame /\ frame' = frame + 1
    BY <1>4, MaxFrameAssumption DEF Trigger, InBound, Frame
  <2>2. \A n \in Frame : queue'[n] = IF n = frame THEN {} ELSE queue[n]
    BY <1>4, <2>1 DEF Trigger
  <2>3. \A u : u \in timers' \cup pool' <=> u \in timers \cup pool \cup queue[frame]
    BY <1>4 DEF Trigger
  <2>4. \A u : u \in Held' <=> u \in Held
    BY <2>1, <2>2, <2>3, HeldIs DEF Held
  <2> QED
    BY <1>4, <2>1, <2>4, StatusKept DEF Trigger, Promise!Vsync, Promise!FTNext
<1>5. CASE UNCHANGED <<taskVars, pool, ran>>
  <2>1. \A u : u \in Held' <=> u \in Held
    BY <1>5 DEF Held
  <2> QED
    BY <1>5, <2>1, StatusKept DEF Promise!ftVars
<1>6. StopRuntime \/ Start \/ Stop \/ StopReturns \/ Check \/ WaitSucceeds \/ WaitFails
        \/ Wakes \/ UNCHANGED vtVars => UNCHANGED <<taskVars, pool, ran>>
  BY DEF StopRuntime, Start, Stop, StopReturns, Check, WaitSucceeds, WaitFails, Wakes, vtVars
<1> QED
  BY <1>1, <1>2, <1>3, <1>4, <1>5, <1>6 DEF VTNext, ThreadStep, Promise!FTNext

\* The provider, its listener and the runtime implement what FrameTasks
\* promises: a task that is accepted begins once, after its frame's vsync.
THEOREM ImplementsFrameTasksHolds == VTSpec => ImplementsFrameTasks
<1>1. VTInit => Promise!FTInit
  BY PromiseInit
<1>2. VTInv /\ [VTNext]_vtVars => [Promise!FTNext]_(Promise!ftVars)
  BY PromiseStep
<1> QED
  BY <1>1, <1>2, VTInvCorrect, PTL DEF VTSpec, ImplementsFrameTasks, Promise!FTSpec
=============================================================================
