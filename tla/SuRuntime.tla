------------------------------- MODULE SuRuntime -------------------------------
(***************************************************************************)
(* src/core/suRuntime/include/suRuntime.hpp: one event-loop thread running *)
(* an io_context, a worker pool, and tasks that a timer of the loop starts *)
(* once (schedule) or repeatedly (scheduleAtFixedRate).                    *)
(*                                                                         *)
(* A task t of Tasks is one call of schedule, scheduleAtFixedRate,         *)
(* dispatch, runOnEventLoop or execute.  A handler of the loop is two      *)
(* steps, BeginHandler and FinishHandler, because other threads run        *)
(* between them: a worker may already execute the body that the handler    *)
(* posted, and any thread may call cancel().                               *)
(***************************************************************************)
EXTENDS Integers, Sequences, FiniteSets

CONSTANTS
  Tasks,    \* the calls made in one behaviour
  Workers,  \* threads of worker_pool_
  Counts,   \* values given for execute_count; -1 (its default) is "forever"
  Kinds,    \* the entry points called: rate, once, post, execute
  Dones,    \* onCompeleted: "none", "now" (no delay), "later" (after a delay)
  Nobody,   \* the value of "no task"
  MaxSub,   \* bound: handed[t] stops counting here
  MaxPool   \* bound: closures queued in worker_pool_

ASSUME CountsAssumption == Counts \subseteq Int /\ \A n \in Counts : n >= -1
ASSUME KindsAssumption == /\ Kinds \subseteq {"rate", "once", "post", "execute"}
                          /\ Dones \subseteq {"none", "now", "later"}
ASSUME NobodyAssumption == Nobody \notin Tasks
ASSUME BoundsAssumption ==
  /\ MaxSub \in Nat /\ MaxSub >= 2 /\ \A n \in Counts : n < MaxSub
  /\ MaxPool \in Nat /\ MaxPool >= 1

VARIABLES
  cfg,     \* cfg[t]: the arguments of the call, NoCfg before it is made
  timer,   \* timer[t]: the state of its steady_timer and of its pending wait
  left,    \* left[t]: *remaining_count
  handle,  \* handle[t]: a caller still holds the ScheduledTask
  asked,   \* history: what the last cancel() of t achieved
  loop,    \* the task whose handler the event loop is executing, or Nobody
  pool,    \* closures queued in worker_pool_, oldest first
  worker,  \* worker[w]: the task whose body thread w is executing, or Nobody
  handed,  \* history: how many times the body of t was run or given to the pool
  comp,    \* comp[t]: the completion callback of t
  life     \* of the runtime: "running", "stopping" (in stop()), "joined"

vars == <<cfg, timer, left, handle, asked, loop, pool, worker, handed, comp, life>>

-----------------------------------------------------------------------------
Args(kind, count, heavy, done) ==
  [kind |-> kind, count |-> count, heavy |-> heavy, done |-> done]

NoCfg == Args("none", 0, FALSE, "none")

Cfg == [kind : {"none", "rate", "once", "post", "execute"},
        count : Counts \cup {0}, heavy : BOOLEAN, done : {"none", "now", "later"}]

TimerState == {"off", "waiting", "expired", "aborted", "firing"}

Fresh(t, kind) == kind \in Kinds /\ cfg[t] = NoCfg /\ life # "joined"

\* A body that runs on the loop thread is running now.
InLightBody == loop # Nobody /\ ~cfg[loop].heavy

CountUp(n) == IF n < MaxSub THEN n + 1 ELSE n

Init ==
  /\ cfg = [t \in Tasks |-> NoCfg]
  /\ timer = [t \in Tasks |-> "off"]
  /\ left = [t \in Tasks |-> 0]
  /\ handle = [t \in Tasks |-> FALSE]
  /\ asked = [t \in Tasks |-> "no"]
  /\ loop = Nobody
  /\ pool = <<>>
  /\ worker = [w \in Workers |-> Nobody]
  /\ handed = [t \in Tasks |-> 0]
  /\ comp = [t \in Tasks |-> "no"]
  /\ life = "running"

-----------------------------------------------------------------------------
(* The interface, called by any thread at any moment.                      *)

ScheduleAtFixedRate(t) ==
  /\ Fresh(t, "rate")
  /\ \E n \in Counts, h \in BOOLEAN, d \in Dones :
        /\ cfg' = [cfg EXCEPT ![t] = Args("rate", n, h, d)]
        /\ left' = [left EXCEPT ![t] = n]
  /\ timer' = [timer EXCEPT ![t] = "waiting"]
  /\ handle' = [handle EXCEPT ![t] = TRUE]
  /\ UNCHANGED <<asked, loop, pool, worker, handed, comp, life>>

\* The caller of schedule gets no handle: nothing can cancel the timer.
Schedule(t) ==
  /\ Fresh(t, "once")
  /\ \E h \in BOOLEAN :
        cfg' = [cfg EXCEPT ![t] = Args("once", 0, h, "none")]
  /\ timer' = [timer EXCEPT ![t] = "waiting"]
  /\ UNCHANGED <<left, handle, asked, loop, pool, worker, handed, comp, life>>

\* runOnEventLoop, and dispatch from a thread that is not the loop: post.
Post(t) ==
  /\ Fresh(t, "post")
  /\ cfg' = [cfg EXCEPT ![t] = Args("post", 0, FALSE, "none")]
  /\ timer' = [timer EXCEPT ![t] = "expired"]
  /\ UNCHANGED <<left, handle, asked, loop, pool, worker, handed, comp, life>>

\* dispatch on the loop thread runs the closure inside the current handler,
\* ahead of everything that is queued.
DispatchInline(t) ==
  /\ Fresh(t, "post")
  /\ InLightBody
  /\ cfg' = [cfg EXCEPT ![t] = Args("post", 0, FALSE, "none")]
  /\ handed' = [handed EXCEPT ![t] = 1]
  /\ UNCHANGED <<timer, left, handle, asked, loop, pool, worker, comp, life>>

Execute(t) ==
  /\ Fresh(t, "execute")
  /\ Len(pool) < MaxPool
  /\ cfg' = [cfg EXCEPT ![t] = Args("execute", 0, TRUE, "none")]
  /\ pool' = Append(pool, t)
  /\ handed' = [handed EXCEPT ![t] = 1]
  /\ UNCHANGED <<timer, left, handle, asked, loop, worker, comp, life>>

\* ScheduledTask::cancel: asio aborts a wait that is still pending and does
\* nothing to one whose handler is queued or running.
CancelTimer(t) ==
  /\ timer' = [timer EXCEPT ![t] = IF @ = "waiting" THEN "aborted" ELSE @]
  /\ asked' = [asked EXCEPT ![t] =
                 IF timer[t] = "waiting" THEN "effective"
                 ELSE IF @ = "effective" THEN @ ELSE "late"]

Cancel(t) ==
  /\ handle[t]
  /\ CancelTimer(t)
  /\ UNCHANGED <<cfg, left, handle, loop, pool, worker, handed, comp, life>>

\* ~ScheduledTask: the last owner lets go of the handle.
DropHandle(t) ==
  /\ handle[t]
  /\ CancelTimer(t)
  /\ handle' = [handle EXCEPT ![t] = FALSE]
  /\ UNCHANGED <<cfg, left, loop, pool, worker, handed, comp, life>>

-----------------------------------------------------------------------------
(* The event loop.                                                         *)

LoopFree == loop = Nobody /\ life = "running"

TimerExpires(t) ==
  /\ life = "running"
  /\ timer[t] = "waiting"
  /\ timer' = [timer EXCEPT ![t] = "expired"]
  /\ UNCHANGED <<cfg, left, handle, asked, loop, pool, worker, handed, comp, life>>

\* A variant of HandleAborted that does not look at ec.
HandleAbortedRuns(t) ==
  /\ LoopFree
  /\ timer[t] = "aborted"
  /\ timer' = [timer EXCEPT ![t] = "firing"]
  /\ loop' = t
  /\ handed' = [handed EXCEPT ![t] = CountUp(@)]
  /\ UNCHANGED <<cfg, left, handle, asked, pool, worker, comp, life>>

\* ec == operation_aborted: the closure returns without waiting again.
HandleAborted(t) ==
  /\ LoopFree
  /\ timer[t] = "aborted"
  /\ timer' = [timer EXCEPT ![t] = "off"]
  /\ UNCHANGED <<cfg, left, handle, asked, loop, pool, worker, handed, comp, life>>

\* The handler starts: a light body runs in place, a heavy one is posted.
BeginHandler(t) ==
  /\ LoopFree
  /\ timer[t] = "expired"
  /\ cfg[t].heavy => Len(pool) < MaxPool
  /\ timer' = [timer EXCEPT ![t] = "firing"]
  /\ loop' = t
  /\ handed' = [handed EXCEPT ![t] = CountUp(@)]
  /\ pool' = IF cfg[t].heavy THEN Append(pool, t) ELSE pool
  /\ UNCHANGED <<cfg, left, handle, asked, worker, comp, life>>

\* A variant of Completion: a delayed callback is forgotten.
CompletionForgotten(done) == IF done = "now" THEN "ran" ELSE "no"

Completion(done) == IF done = "none" THEN "no" ELSE IF done = "now" THEN "ran" ELSE "waiting"

\* A variant of AfterRun that is off by one.
AfterRunStuck(n) == IF n > 1 THEN n - 1 ELSE n

AfterRun(n) == IF n > 0 THEN n - 1 ELSE n

\* A variant of FinishHandler that looks at the counter before it counts.
FinishHandlerLate(t) ==
  /\ loop = t
  /\ loop' = Nobody
  /\ left' = [left EXCEPT ![t] = AfterRun(@)]
  /\ IF cfg[t].kind = "rate" /\ left[t] # 0
     THEN /\ timer' = [timer EXCEPT ![t] = "waiting"]
          /\ comp' = comp
     ELSE /\ timer' = [timer EXCEPT ![t] = "off"]
          /\ comp' = [comp EXCEPT ![t] = Completion(cfg[t].done)]
  /\ UNCHANGED <<cfg, handle, asked, pool, worker, handed, life>>

\* The handler counts the run and completes or waits again; it does not ask
\* whether the task was cancelled meanwhile.
FinishHandler(t) ==
  /\ loop = t
  /\ loop' = Nobody
  /\ left' = [left EXCEPT ![t] = AfterRun(@)]
  /\ IF cfg[t].kind = "rate" /\ AfterRun(left[t]) # 0
     THEN /\ timer' = [timer EXCEPT ![t] = "waiting"]
          /\ comp' = comp
     ELSE /\ timer' = [timer EXCEPT ![t] = "off"]
          /\ comp' = [comp EXCEPT ![t] = Completion(cfg[t].done)]
  /\ UNCHANGED <<cfg, handle, asked, pool, worker, handed, life>>

\* The timer of a delayed completion belongs to no handle.
RunCompletion(t) ==
  /\ LoopFree
  /\ comp[t] = "waiting"
  /\ comp' = [comp EXCEPT ![t] = "ran"]
  /\ UNCHANGED <<cfg, timer, left, handle, asked, loop, pool, worker, handed, life>>

-----------------------------------------------------------------------------
(* The worker pool and stop().                                             *)

WorkerTakes(w) ==
  /\ worker[w] = Nobody
  /\ pool # <<>>
  /\ worker' = [worker EXCEPT ![w] = Head(pool)]
  /\ pool' = Tail(pool)
  /\ UNCHANGED <<cfg, timer, left, handle, asked, loop, handed, comp, life>>

WorkerEnds(w) ==
  /\ worker[w] # Nobody
  /\ worker' = [worker EXCEPT ![w] = Nobody]
  /\ UNCHANGED <<cfg, timer, left, handle, asked, loop, pool, handed, comp, life>>

\* io_context_.stop(): the loop finishes the handler it is in.
Stop ==
  /\ life = "running"
  /\ life' = "stopping"
  /\ UNCHANGED <<cfg, timer, left, handle, asked, loop, pool, worker, handed, comp>>

\* A variant of Join for a loop that stops only when it has no work left.
JoinWithTimers ==
  /\ life = "stopping"
  /\ loop = Nobody
  /\ \A t \in Tasks : timer[t] # "waiting"
  /\ pool = <<>>
  /\ \A w \in Workers : worker[w] = Nobody
  /\ life' = "joined"
  /\ UNCHANGED <<cfg, timer, left, handle, asked, loop, pool, worker, handed, comp>>

\* event_thread_.join(), then worker_pool_.join(), which runs what is queued.
Join ==
  /\ life = "stopping"
  /\ loop = Nobody
  /\ pool = <<>>
  /\ \A w \in Workers : worker[w] = Nobody
  /\ life' = "joined"
  /\ UNCHANGED <<cfg, timer, left, handle, asked, loop, pool, worker, handed, comp>>

-----------------------------------------------------------------------------
Call(t) ==
  \/ ScheduleAtFixedRate(t) \/ Schedule(t) \/ Post(t) \/ DispatchInline(t) \/ Execute(t)
  \/ Cancel(t) \/ DropHandle(t)

LoopStep(t) ==
  \/ TimerExpires(t) \/ HandleAborted(t) \/ BeginHandler(t) \/ FinishHandler(t)
  \/ RunCompletion(t)

Next ==
  \/ \E t \in Tasks : Call(t) \/ LoopStep(t)
  \/ \E w \in Workers : WorkerTakes(w) \/ WorkerEnds(w)
  \/ Stop
  \/ Join

Spec == Init /\ [][Next]_vars

\* Clocks advance, handlers and bodies return, and asio's queue is first in
\* first out: a queued handler is not overtaken for ever by newer ones.
Fairness ==
  /\ \A t \in Tasks : /\ WF_vars(TimerExpires(t))
                      /\ SF_vars(HandleAborted(t))
                      /\ SF_vars(BeginHandler(t))
                      /\ WF_vars(FinishHandler(t))
                      /\ SF_vars(RunCompletion(t))
  /\ \A w \in Workers : WF_vars(WorkerTakes(w)) /\ WF_vars(WorkerEnds(w))
  /\ WF_vars(Join)

FairSpec == Spec /\ Fairness

-----------------------------------------------------------------------------
(* Properties.                                                             *)

\* Every variable has its type: the timers, queues and threads of suRuntime.
TypeOK ==
  /\ cfg \in [Tasks -> Cfg]
  /\ timer \in [Tasks -> TimerState]
  /\ left \in [Tasks -> Int]
  /\ handle \in [Tasks -> BOOLEAN]
  /\ asked \in [Tasks -> {"no", "effective", "late"}]
  /\ loop \in Tasks \cup {Nobody}
  /\ pool \in Seq(Tasks)
  /\ worker \in [Workers -> Tasks \cup {Nobody}]
  /\ handed \in [Tasks -> 0..MaxSub]
  /\ comp \in [Tasks -> {"no", "waiting", "ran"}]
  /\ life \in {"running", "stopping", "joined"}

Counted(t) == cfg[t].kind = "once" \/ (cfg[t].kind = "rate" /\ cfg[t].count >= 0)

\* The handler runs the body before it looks at the counter, so a count of 0
\* runs once; schedule() is such a task without a handle.
Budget(t) == IF cfg[t].count = 0 THEN 1 ELSE cfg[t].count

\* However cancel() calls from other threads fall between the timer, the queue
\* and the two halves of a handler, a counted task never runs more often than
\* its count, and its completion callback is made only when the count is spent.
CountKept ==
  \A t \in Tasks :
    /\ Counted(t) => handed[t] <= Budget(t)
    /\ comp[t] # "no" => Counted(t) /\ handed[t] = Budget(t)

\* suRuntime.hpp:130-175: a repeated task whose wait has come to an end was
\* cancelled in time, or has spent its count and made or queued its completion
\* callback; no order of handler, worker and cancel() drops a task.
NeverStranded ==
  \A t \in Tasks : cfg[t].kind = "rate" /\ timer[t] = "off" /\ asked[t] # "effective" =>
    /\ Counted(t) /\ handed[t] = Budget(t)
    /\ cfg[t].done # "none" => comp[t] # "no"

\* A cancel() that found the wait pending is final: the task is never run or
\* handed to the pool again, and its completion callback is never made.
StaysCancelled ==
  \A t \in Tasks : asked[t] = "effective" => handed'[t] = handed[t] /\ comp'[t] = "no"

CancelFinal == [][StaysCancelled]_vars

\* A counted task whose owner did not cancel it in time spends its count and,
\* if it has a completion callback, makes it, unless the runtime is stopped.
CountedTaskCompletes ==
  \A t \in Tasks :
    (Counted(t) /\ cfg[t].done # "none")
      ~> (comp[t] = "ran" \/ asked[t] = "effective" \/ life # "running")

\* stop() returns: the loop leaves its handler, the pool drains, both join.
StopJoins == (life = "stopping") ~> (life = "joined")

-----------------------------------------------------------------------------
(* The runtime implements the tasks its callers see.                       *)

StatusOf(t) ==
  IF cfg[t].kind \notin {"rate", "once"} THEN "idle"
  ELSE IF asked[t] = "effective" THEN "cancelled"
  ELSE IF comp[t] = "ran" THEN "notified"
  ELSE IF comp[t] = "waiting" THEN "completing"
  ELSE IF timer[t] = "off" THEN "finished"
  ELSE "active"

BudgetOf(t) ==
  IF cfg[t].kind \notin {"rate", "once"} THEN 0
  ELSE IF Counted(t) THEN Budget(t) - handed[t] ELSE -1

RunsOf(t) == IF cfg[t].kind \in {"rate", "once"} THEN handed[t] ELSE 0

CT == INSTANCE CountedTask WITH
        Budgets <- Counts \cup {1},
        status <- [t \in Tasks |-> StatusOf(t)],
        budget <- [t \in Tasks |-> BudgetOf(t)],
        runs <- [t \in Tasks |-> RunsOf(t)]

\* Seen from outside, every task of the runtime behaves as CountedTask says.
ImplementsCountedTask == CT!CTSpec

-----------------------------------------------------------------------------
(* The inductive invariant behind CountKept, CancelFinal and the refinement.*)

\* The handler being executed is the one whose timer is firing.
FiringInv == \A t \in Tasks : timer[t] = "firing" <=> loop = t

\* The counter and the hand-overs add up at every point of a task's life.
CountOK(t) ==
  /\ cfg[t].kind = "none" => timer[t] = "off" /\ handed[t] = 0 /\ left[t] = 0
  /\ cfg[t].kind = "once" => cfg[t].count = 0
  /\ cfg[t].kind = "rate" /\ cfg[t].count = -1 => left[t] = -1
  /\ Counted(t) /\ cfg[t].count = 0 =>
       /\ left[t] = 0
       /\ timer[t] \in {"waiting", "expired", "aborted"} => handed[t] = 0
       /\ timer[t] = "firing" => handed[t] = 1
       /\ timer[t] = "off" => handed[t] = IF asked[t] = "effective" THEN 0 ELSE 1
  /\ Counted(t) /\ cfg[t].count > 0 =>
       /\ timer[t] # "off" => left[t] >= 1
       /\ timer[t] = "off" => left[t] = 0 \/ (left[t] >= 1 /\ asked[t] = "effective")
       /\ handed[t] + left[t] = IF timer[t] = "firing" THEN cfg[t].count + 1 ELSE cfg[t].count

\* Cancelled, completed and abandoned tasks have no wait of their own left.
ClosedOK(t) ==
  /\ cfg[t].kind # "rate" => ~handle[t] /\ asked[t] = "no" /\ cfg[t].done = "none"
  /\ asked[t] = "effective" => timer[t] \in {"aborted", "off"} /\ comp[t] = "no"
  /\ timer[t] = "aborted" => asked[t] = "effective"
  /\ comp[t] # "no" => /\ timer[t] = "off" /\ asked[t] # "effective"
                       /\ cfg[t].kind = "rate" /\ cfg[t].count >= 0
  /\ cfg[t].kind = "rate" /\ cfg[t].count = -1 /\ timer[t] = "off" => asked[t] = "effective"

CountInv == \A t \in Tasks : CountOK(t)
ClosedInv == \A t \in Tasks : ClosedOK(t)

IInv == TypeOK /\ FiringInv /\ CountInv /\ ClosedInv

=============================================================================
