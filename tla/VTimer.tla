-------------------------------- MODULE VTimer --------------------------------
(***************************************************************************)
(* src/core/Graphics/Vtimer: VTimerProvider, the DRMVsyncListener whose    *)
(* thread drives it, and what they use of suRuntime.                       *)
(*                                                                         *)
(* Any thread submits tasks at any time; the provider's mutex makes every  *)
(* call one step.  attachRuntime has been called before, as vtimer.hpp     *)
(* demands, and the listener's owner starts it only when it is stopped.    *)
(* The delays t1, t2 and t3 differ in their length only: a task has one or *)
(* it has none.                                                            *)
(*                                                                         *)
(* drmWaitVBlank is taken to return at any time, with success or not: the  *)
(* request is filled in once, before the loop, and its reply overlays it.  *)
(***************************************************************************)
EXTENDS Naturals, FiniteSets

CONSTANTS
  Task,      \* the tasks; each is submitted once
  Prompt,    \* those of them submitted with the offset t0
  MaxFrame   \* bound: vsyncs counted

ASSUME PromptAssumption == Prompt \subseteq Task
ASSUME MaxFrameAssumption == MaxFrame \in Nat \ {0}

Frame == 0..MaxFrame - 1

VARIABLES
  frame,     \* current_frame_count_
  queue,     \* queue[n]: the tasks in frame_task_queues_[n]
  fresh,     \* the tasks that nobody has submitted yet
  due,       \* history: due[t] is the frame t was submitted for
  timers,    \* tasks behind a steady_timer of the runtime's loop
  pool,      \* tasks posted to the runtime's pool
  ran,       \* history: ran[t] is how often t has begun
  runtime,   \* running, stopping: stop() is in its joins, or stopped
  running,   \* running_
  thread,    \* where the listener's thread is; none: not joinable
  fd,        \* drm_fd_ is open
  stopping   \* stop() of the listener is in its join

taskVars == <<frame, queue, fresh, due, timers>>
listenerVars == <<running, fd, stopping>>
vtVars == <<frame, queue, fresh, due, timers, pool, ran, runtime, running, thread, fd, stopping>>

-----------------------------------------------------------------------------
VTInit ==
  /\ frame = 0
  /\ queue = [n \in Frame |-> {}]
  /\ fresh = Task
  /\ due = [t \in Task |-> 0]
  /\ timers = {} /\ pool = {}
  /\ ran = [t \in Task |-> 0]
  /\ runtime = "running"
  /\ running = FALSE /\ thread = "none" /\ fd = FALSE /\ stopping = FALSE

-----------------------------------------------------------------------------
(* VTimerProvider.                                                         *)

\* A variant of SubmitTask that takes every frame.
SubmitAnyTask(t, n) ==
  /\ t \in fresh
  /\ fresh' = fresh \ {t}
  /\ due' = [due EXCEPT ![t] = n]
  /\ queue' = [queue EXCEPT ![n] = @ \cup {t}]
  /\ UNCHANGED <<frame, timers, pool, ran, runtime, thread, listenerVars>>

\* A task for a frame that has been triggered is dropped without a word.
SubmitTask(t, n) ==
  /\ t \in fresh
  /\ fresh' = fresh \ {t}
  /\ due' = [due EXCEPT ![t] = n]
  /\ queue' = IF n >= frame THEN [queue EXCEPT ![n] = @ \cup {t}] ELSE queue
  /\ UNCHANGED <<frame, timers, pool, ran, runtime, thread, listenerVars>>

\* A variant of Trigger that only knows tasks without a delay.
TriggerPromptOnly ==
  /\ thread = "triggering"
  /\ frame' = frame + 1
  /\ queue' = [queue EXCEPT ![frame] = {}]
  /\ pool' = pool \cup (queue[frame] \cap Prompt)
  /\ thread' = "checking"
  /\ UNCHANGED <<fresh, due, timers, ran, runtime, listenerVars>>

\* triggerHardwareVSync, called by the listener's thread.
Trigger ==
  /\ thread = "triggering"
  /\ frame' = frame + 1
  /\ queue' = [queue EXCEPT ![frame] = {}]
  /\ pool' = pool \cup (queue[frame] \cap Prompt)
  /\ timers' = timers \cup (queue[frame] \ Prompt)
  /\ thread' = "checking"
  /\ UNCHANGED <<fresh, due, ran, runtime, listenerVars>>

-----------------------------------------------------------------------------
(* suRuntime, as far as tasks need it.                                     *)

\* A variant of TimerExpires that leaves the timer armed.
TimerRepeats(t) ==
  /\ runtime = "running"
  /\ t \in timers
  /\ pool' = pool \cup {t}
  /\ UNCHANGED <<taskVars, ran, runtime, thread, listenerVars>>

\* The handler of a task's timer hands it to the pool.
TimerExpires(t) ==
  /\ runtime = "running"
  /\ t \in timers
  /\ timers' = timers \ {t}
  /\ pool' = pool \cup {t}
  /\ UNCHANGED <<frame, queue, fresh, due, ran, runtime, thread, listenerVars>>

WorkerRuns(t) ==
  /\ runtime # "stopped"
  /\ t \in pool
  /\ pool' = pool \ {t}
  /\ ran' = [ran EXCEPT ![t] = @ + 1]
  /\ UNCHANGED <<taskVars, runtime, thread, listenerVars>>

\* stop(): the loop first; the pool is joined when it is empty.
StopRuntime ==
  /\ \/ runtime = "running" /\ runtime' = "stopping"
     \/ runtime = "stopping" /\ pool = {} /\ runtime' = "stopped"
  /\ UNCHANGED <<taskVars, pool, ran, thread, listenerVars>>

-----------------------------------------------------------------------------
(* DRMVsyncListener.                                                       *)

\* Opening the device may fail.
Start ==
  /\ thread = "none" /\ ~stopping
  /\ \/ UNCHANGED <<running, thread, fd>>
     \/ running' = TRUE /\ thread' = "checking" /\ fd' = TRUE
  /\ UNCHANGED <<taskVars, pool, ran, runtime, stopping>>

\* stop(), and the destructor: it waits for the thread, if there is one.
Stop ==
  /\ ~stopping
  /\ running' = FALSE
  /\ stopping' = TRUE
  /\ UNCHANGED <<taskVars, pool, ran, runtime, thread, fd>>

\* A variant of StopReturns that closes the descriptor without the join.
StopReturnsAtOnce ==
  /\ stopping
  /\ fd' = FALSE
  /\ stopping' = FALSE
  /\ UNCHANGED <<taskVars, pool, ran, runtime, running, thread>>

StopReturns ==
  /\ stopping
  /\ thread \in {"none", "ended"}
  /\ thread' = "none"
  /\ fd' = FALSE
  /\ stopping' = FALSE
  /\ UNCHANGED <<taskVars, pool, ran, runtime, running>>

\* A variant of Check that does not look.
CheckNothing ==
  /\ thread = "checking"
  /\ thread' = "waiting"
  /\ UNCHANGED <<taskVars, pool, ran, runtime, listenerVars>>

\* The head of the thread's loop.
Check ==
  /\ thread = "checking"
  /\ thread' = IF running THEN "waiting" ELSE "ended"
  /\ UNCHANGED <<taskVars, pool, ran, runtime, listenerVars>>

WaitSucceeds ==
  /\ thread = "waiting"
  /\ frame < MaxFrame
  /\ thread' = "triggering"
  /\ UNCHANGED <<taskVars, pool, ran, runtime, listenerVars>>

WaitFails ==
  /\ thread = "waiting"
  /\ thread' = "sleeping"
  /\ UNCHANGED <<taskVars, pool, ran, runtime, listenerVars>>

Wakes ==
  /\ thread = "sleeping"
  /\ thread' = "checking"
  /\ UNCHANGED <<taskVars, pool, ran, runtime, listenerVars>>

ThreadStep == Check \/ WaitSucceeds \/ WaitFails \/ Wakes \/ Trigger

-----------------------------------------------------------------------------
VTNext ==
  \/ \E t \in Task, n \in Frame : SubmitTask(t, n)
  \/ \E t \in Task : TimerExpires(t) \/ WorkerRuns(t)
  \/ StopRuntime
  \/ Start \/ Stop \/ StopReturns
  \/ ThreadStep

VTSpec == VTInit /\ [][VTNext]_vtVars

\* The thread runs, stop() goes on when it has ended, timers expire and the
\* pool runs what it is given.  The kernel ends every wait, and while the
\* display is on it is not for ever with an error.
VTFairness ==
  /\ WF_vtVars(ThreadStep) /\ SF_vtVars(WaitSucceeds) /\ WF_vtVars(StopReturns)
  /\ \A t \in Task : WF_vtVars(TimerExpires(t)) /\ WF_vtVars(WorkerRuns(t))

VTFairSpec == VTSpec /\ VTFairness

-----------------------------------------------------------------------------
\* The variables of provider, runtime and listener have their types.
VTTypeOK ==
  /\ frame \in 0..MaxFrame
  /\ queue \in [Frame -> SUBSET Task]
  /\ fresh \subseteq Task /\ timers \subseteq Task /\ pool \subseteq Task
  /\ due \in [Task -> Frame]
  /\ ran \in [Task -> Nat]
  /\ runtime \in {"running", "stopping", "stopped"}
  /\ running \in BOOLEAN /\ fd \in BOOLEAN /\ stopping \in BOOLEAN
  /\ thread \in {"none", "checking", "waiting", "triggering", "sleeping", "ended"}

\* The count of the vsync thread and the submissions of other threads meet: no
\* task stays in the queue of a frame that will never be triggered again.
NothingStranded == \A n \in Frame : n < frame => queue[n] = {}

\* The thread of the listener never waits on a descriptor that stop() or a
\* failed start has closed.
WaitsOnOpenDevice == thread \notin {"none", "ended"} => fd

\* Where a task is, seen by the one who has submitted it.
Held == timers \cup pool \cup UNION {queue[n] : n \in Frame}
Status(t) ==
  IF t \in fresh THEN "new"
  ELSE IF t \in Held THEN (IF ran[t] = 0 THEN "accepted" ELSE "lost count")
  ELSE IF ran[t] = 0 THEN "refused"
  ELSE IF ran[t] = 1 THEN "begun" ELSE "lost count"

Promise == INSTANCE FrameTasks WITH now <- frame, st <- [t \in Task |-> Status(t)]

\* A task that is accepted begins exactly once and after its frame's vsync,
\* whichever threads count, submit, stop and run meanwhile.
ImplementsFrameTasks == Promise!FTSpec

\* An accepted task does begin, unless the listener or the runtime is stopped.
AcceptedBegins ==
  \A t \in Task : t \in Held ~> (ran[t] > 0 \/ thread = "none" \/ runtime # "running")

\* stop() of the listener returns: the wait it cannot interrupt comes to an end.
StopEnds == stopping ~> ~stopping
=============================================================================
