---------------------------- MODULE SuRuntime_proofs ----------------------------
(* Proofs about SuRuntime, for every set of tasks, workers and counts. *)
EXTENDS SuRuntime, TLAPS

USE CountsAssumption, NobodyAssumption, BoundsAssumption, KindsAssumption

\* A runtime without tasks is well typed.
LEMMA TypeInit == Init => TypeOK
  BY DEF Init, TypeOK, Cfg, Args, NoCfg, TimerState

\* Every step of the runtime keeps the types.
LEMMA TypeStep == TypeOK /\ [Next]_vars => TypeOK'
<1> SUFFICES ASSUME TypeOK, [Next]_vars PROVE TypeOK'
  OBVIOUS
<1> USE DEF TypeOK, Cfg, Args, NoCfg, TimerState
<1>1. ASSUME NEW t \in Tasks, ScheduleAtFixedRate(t) PROVE TypeOK'
  BY <1>1 DEF ScheduleAtFixedRate, Fresh
<1>2. ASSUME NEW t \in Tasks, Schedule(t) PROVE TypeOK'
  BY <1>2 DEF Schedule, Fresh
<1>3. ASSUME NEW t \in Tasks, Post(t) PROVE TypeOK'
  BY <1>3 DEF Post, Fresh
<1>4. ASSUME NEW t \in Tasks, DispatchInline(t) PROVE TypeOK'
  BY <1>4 DEF DispatchInline, Fresh
<1>5. ASSUME NEW t \in Tasks, Execute(t) PROVE TypeOK'
  BY <1>5 DEF Execute, Fresh
<1>6. ASSUME NEW t \in Tasks, Cancel(t) PROVE TypeOK'
  BY <1>6 DEF Cancel, CancelTimer
<1>7. ASSUME NEW t \in Tasks, DropHandle(t) PROVE TypeOK'
  BY <1>7 DEF DropHandle, CancelTimer
<1>8. ASSUME NEW t \in Tasks, TimerExpires(t) PROVE TypeOK'
  BY <1>8 DEF TimerExpires
<1>9. ASSUME NEW t \in Tasks, HandleAborted(t) PROVE TypeOK'
  BY <1>9 DEF HandleAborted
<1>10. ASSUME NEW t \in Tasks, BeginHandler(t) PROVE TypeOK'
  BY <1>10 DEF BeginHandler, CountUp
<1>11. ASSUME NEW t \in Tasks, FinishHandler(t) PROVE TypeOK'
  <2>1. timer' \in [Tasks -> TimerState]
    BY <1>11 DEF FinishHandler
  <2>2. left' \in [Tasks -> Int]
    BY <1>11 DEF FinishHandler, AfterRun
  <2>3. comp' \in [Tasks -> {"no", "waiting", "ran"}]
    BY <1>11 DEF FinishHandler, Completion
  <2> QED BY <1>11, <2>1, <2>2, <2>3 DEF FinishHandler
<1>12. ASSUME NEW t \in Tasks, RunCompletion(t) PROVE TypeOK'
  BY <1>12 DEF RunCompletion
<1>13. ASSUME NEW w \in Workers, WorkerTakes(w) PROVE TypeOK'
  BY <1>13 DEF WorkerTakes
<1>14. ASSUME NEW w \in Workers, WorkerEnds(w) PROVE TypeOK'
  BY <1>14 DEF WorkerEnds
<1>15. CASE Stop
  BY <1>15 DEF Stop
<1>16. CASE Join
  BY <1>16 DEF Join
<1>17. CASE UNCHANGED vars
  BY <1>17 DEF vars
<1> QED
  BY <1>1, <1>2, <1>3, <1>4, <1>5, <1>6, <1>7, <1>8, <1>9, <1>10, <1>11, <1>12, <1>13, <1>14, <1>15, <1>16, <1>17 DEF Next, Call, LoopStep

\* Every variable of suRuntime keeps its type.
THEOREM TypeCorrect == Spec => []TypeOK
<1> QED BY TypeInit, TypeStep, PTL DEF Spec

-----------------------------------------------------------------------------
\* The invariant holds before any call is made.
LEMMA InvInit == Init => FiringInv /\ CountInv /\ ClosedInv
  BY DEF Init, FiringInv, CountInv, ClosedInv, CountOK, ClosedOK, Counted, Args, NoCfg

\* A call that has not been made has left no trace.
LEMMA FreshIsIdle ==
  ASSUME IInv, NEW t \in Tasks, cfg[t] = NoCfg
  PROVE  /\ timer[t] = "off" /\ handed[t] = 0 /\ left[t] = 0 /\ comp[t] = "no"
         /\ asked[t] = "no" /\ ~handle[t] /\ loop # t
<1>1. cfg[t].kind = "none"
  BY DEF NoCfg, Args
<1>2. CountOK(t) /\ ClosedOK(t)
  BY DEF IInv, CountInv, ClosedInv
<1>3. timer[t] = "off" /\ loop # t
  BY <1>1, <1>2 DEF CountOK, IInv, FiringInv
<1>4. comp[t] = "no"
  BY <1>1, <1>2 DEF ClosedOK, IInv, TypeOK
<1> QED BY <1>1, <1>2, <1>3, <1>4 DEF CountOK, ClosedOK

\* The numbers of a task are numbers.
LEMMA ValueTypes ==
  ASSUME IInv, NEW t \in Tasks
  PROVE  /\ cfg[t].count \in Int /\ cfg[t].count >= -1
         /\ left[t] \in Int /\ handed[t] \in Nat
<1>1. cfg[t] \in Cfg /\ left[t] \in Int /\ handed[t] \in 0..MaxSub
  BY DEF IInv, TypeOK
<1>2. cfg[t].count \in Counts \cup {0}
  BY <1>1 DEF Cfg
<1>3. cfg[t].count \in Int /\ cfg[t].count >= -1
  <2> DEFINE n == cfg[t].count
  <2>1. n \in Counts \cup {0}
    BY <1>2
  <2> HIDE DEF n
  <2>2. n \in Int /\ n >= -1
    BY <2>1, CountsAssumption
  <2> QED BY <2>2 DEF n
<1>4. handed[t] \in Nat
  BY <1>1, BoundsAssumption
<1> QED BY <1>1, <1>3, <1>4

\* The task whose handler is being executed was started by a call.
LEMMA FiringTask ==
  ASSUME IInv, NEW t \in Tasks, loop = t
  PROVE  /\ timer[t] = "firing" /\ cfg[t].kind # "none" /\ comp[t] = "no"
         /\ CountOK(t) /\ ClosedOK(t)
         /\ cfg[t].count \in Int /\ cfg[t].count >= -1
         /\ left[t] \in Int /\ handed[t] \in Nat
<1>1. CountOK(t) /\ ClosedOK(t) /\ timer[t] = "firing"
  BY DEF IInv, CountInv, ClosedInv, FiringInv
<1>2. /\ cfg[t].count \in Int /\ cfg[t].count >= -1
      /\ left[t] \in Int /\ handed[t] \in Nat
  BY ValueTypes
<1>3. cfg[t].kind # "none"
  BY <1>1 DEF CountOK
<1>4. comp[t] = "no"
  BY <1>1 DEF ClosedOK, IInv, TypeOK
<1> QED BY <1>1, <1>2, <1>3, <1>4

\* The loop is in the handler of the one task whose timer is firing.
LEMMA FiringStep == IInv /\ [Next]_vars => FiringInv'
<1> SUFFICES ASSUME IInv, [Next]_vars PROVE FiringInv'
  OBVIOUS
<1> USE DEF IInv, TypeOK, FiringInv, CountInv, CountOK, NoCfg, Args, TimerState
<1>1. ASSUME NEW t \in Tasks, ScheduleAtFixedRate(t) PROVE FiringInv'
  <2> SUFFICES ASSUME NEW u \in Tasks PROVE (timer[u] = "firing" <=> loop = u)'
    OBVIOUS
  <2>1. CASE u # t
    BY <1>1, <2>1 DEF ScheduleAtFixedRate
  <2>2. CASE u = t
    BY <1>1, <2>2, FreshIsIdle DEF ScheduleAtFixedRate, Fresh
  <2> QED BY <2>1, <2>2
<1>2. ASSUME NEW t \in Tasks, Schedule(t) PROVE FiringInv'
  BY <1>2, FreshIsIdle DEF Schedule, Fresh
<1>3. ASSUME NEW t \in Tasks, Post(t) PROVE FiringInv'
  BY <1>3 DEF Post, Fresh
<1>4. ASSUME NEW t \in Tasks, DispatchInline(t) PROVE FiringInv'
  BY <1>4 DEF DispatchInline, Fresh
<1>5. ASSUME NEW t \in Tasks, Execute(t) PROVE FiringInv'
  BY <1>5 DEF Execute, Fresh
<1>6. ASSUME NEW t \in Tasks, Cancel(t) PROVE FiringInv'
  BY <1>6 DEF Cancel, CancelTimer
<1>7. ASSUME NEW t \in Tasks, DropHandle(t) PROVE FiringInv'
  BY <1>7 DEF DropHandle, CancelTimer
<1>8. ASSUME NEW t \in Tasks, TimerExpires(t) PROVE FiringInv'
  BY <1>8 DEF TimerExpires
<1>9. ASSUME NEW t \in Tasks, HandleAborted(t) PROVE FiringInv'
  BY <1>9 DEF HandleAborted, LoopFree
<1>10. ASSUME NEW t \in Tasks, BeginHandler(t) PROVE FiringInv'
  BY <1>10 DEF BeginHandler, CountUp, LoopFree
<1>11. ASSUME NEW t \in Tasks, FinishHandler(t) PROVE FiringInv'
  <2> SUFFICES ASSUME NEW u \in Tasks PROVE (timer[u] = "firing" <=> loop = u)'
    OBVIOUS
  <2>1. CASE u # t
    BY <1>11, <2>1 DEF FinishHandler
  <2>2. CASE u = t /\ cfg[t].kind = "rate" /\ AfterRun(left[t]) # 0
    BY <1>11, <2>2 DEF FinishHandler
  <2>3. CASE u = t /\ ~(cfg[t].kind = "rate" /\ AfterRun(left[t]) # 0)
    BY <1>11, <2>3 DEF FinishHandler
  <2> QED BY <2>1, <2>2, <2>3
<1>12. ASSUME NEW t \in Tasks, RunCompletion(t) PROVE FiringInv'
  BY <1>12 DEF RunCompletion, LoopFree
<1>13. ASSUME NEW w \in Workers, WorkerTakes(w) PROVE FiringInv'
  BY <1>13 DEF WorkerTakes
<1>14. ASSUME NEW w \in Workers, WorkerEnds(w) PROVE FiringInv'
  BY <1>14 DEF WorkerEnds
<1>15. CASE Stop
  BY <1>15 DEF Stop
<1>16. CASE Join
  BY <1>16 DEF Join
<1>17. CASE UNCHANGED vars
  BY <1>17 DEF vars
<1> QED
  BY <1>1, <1>2, <1>3, <1>4, <1>5, <1>6, <1>7, <1>8, <1>9, <1>10, <1>11, <1>12, <1>13, <1>14, <1>15, <1>16, <1>17 DEF Next, Call, LoopStep

\* The counter and the hand-overs keep adding up.
LEMMA CountStep == IInv /\ [Next]_vars => CountInv'
<1> SUFFICES ASSUME IInv, [Next]_vars PROVE CountInv'
  OBVIOUS
<1> USE DEF IInv, TypeOK, FiringInv, CountInv, ClosedInv, CountOK, ClosedOK, Counted, Args, NoCfg, Cfg, TimerState
<1>1. ASSUME NEW t \in Tasks, ScheduleAtFixedRate(t) PROVE CountInv'
  BY <1>1 DEF ScheduleAtFixedRate, Fresh
<1>2. ASSUME NEW t \in Tasks, Schedule(t) PROVE CountInv'
  BY <1>2 DEF Schedule, Fresh
<1>3. ASSUME NEW t \in Tasks, Post(t) PROVE CountInv'
  BY <1>3 DEF Post, Fresh
<1>4. ASSUME NEW t \in Tasks, DispatchInline(t) PROVE CountInv'
  BY <1>4 DEF DispatchInline, Fresh
<1>5. ASSUME NEW t \in Tasks, Execute(t) PROVE CountInv'
  BY <1>5 DEF Execute, Fresh
<1>6. ASSUME NEW t \in Tasks, Cancel(t) PROVE CountInv'
  BY <1>6 DEF Cancel, CancelTimer
<1>7. ASSUME NEW t \in Tasks, DropHandle(t) PROVE CountInv'
  BY <1>7 DEF DropHandle, CancelTimer
<1>8. ASSUME NEW t \in Tasks, TimerExpires(t) PROVE CountInv'
  BY <1>8 DEF TimerExpires
<1>9. ASSUME NEW t \in Tasks, HandleAborted(t) PROVE CountInv'
  BY <1>9 DEF HandleAborted, LoopFree
<1>10. ASSUME NEW t \in Tasks, BeginHandler(t) PROVE CountInv'
  <2> SUFFICES ASSUME NEW u \in Tasks PROVE CountOK(u)'
    OBVIOUS
  <2>1. CASE u # t
    BY <1>10, <2>1 DEF BeginHandler
  <2>2. CASE u = t
    BY <1>10, <2>2 DEF BeginHandler, CountUp, LoopFree
  <2> QED BY <2>1, <2>2
<1>11. ASSUME NEW t \in Tasks, FinishHandler(t) PROVE CountInv'
  <2> SUFFICES ASSUME NEW u \in Tasks PROVE CountOK(u)'
    OBVIOUS
  <2>1. CASE u # t
    BY <1>11, <2>1 DEF FinishHandler
  <2>2. CASE u = t /\ cfg[t].kind = "rate" /\ AfterRun(left[t]) # 0
    <3>1. timer'[t] = "waiting" /\ left'[t] = AfterRun(left[t])
      BY <1>11, <2>2 DEF FinishHandler
    <3>2. /\ timer[t] = "firing" /\ CountOK(t) /\ cfg[t].count \in Int
          /\ left[t] \in Int /\ handed[t] \in Nat
      BY <1>11, FiringTask DEF FinishHandler
    <3>3. cfg'[t] = cfg[t] /\ handed'[t] = handed[t] /\ asked'[t] = asked[t]
      BY <1>11 DEF FinishHandler
    <3> QED BY ONLY <3>1, <3>2, <3>3, <2>2 DEF CountOK, Counted, AfterRun
  <2>3. CASE u = t /\ ~(cfg[t].kind = "rate" /\ AfterRun(left[t]) # 0)
    <3>1. timer'[t] = "off" /\ left'[t] = AfterRun(left[t])
      BY <1>11, <2>3 DEF FinishHandler
    <3>2. /\ timer[t] = "firing" /\ CountOK(t) /\ ClosedOK(t)
          /\ left[t] \in Int /\ handed[t] \in Nat /\ cfg[t].count \in Int
      BY <1>11, FiringTask DEF FinishHandler
    <3>3. cfg'[t] = cfg[t] /\ handed'[t] = handed[t] /\ asked'[t] = asked[t]
      BY <1>11 DEF FinishHandler
    <3>4. asked[t] # "effective" /\ cfg[t].kind # "none"
      BY ONLY <3>2 DEF CountOK, ClosedOK
    <3> QED BY ONLY <3>1, <3>2, <3>3, <3>4, <2>3 DEF CountOK, Counted, AfterRun
  <2> QED BY <2>1, <2>2, <2>3
<1>12. ASSUME NEW t \in Tasks, RunCompletion(t) PROVE CountInv'
  BY <1>12 DEF RunCompletion, LoopFree
<1>13. ASSUME NEW w \in Workers, WorkerTakes(w) PROVE CountInv'
  BY <1>13 DEF WorkerTakes
<1>14. ASSUME NEW w \in Workers, WorkerEnds(w) PROVE CountInv'
  BY <1>14 DEF WorkerEnds
<1>15. CASE Stop
  BY <1>15 DEF Stop
<1>16. CASE Join
  BY <1>16 DEF Join
<1>17. CASE UNCHANGED vars
  BY <1>17 DEF vars
<1> QED
  BY <1>1, <1>2, <1>3, <1>4, <1>5, <1>6, <1>7, <1>8, <1>9, <1>10, <1>11, <1>12, <1>13, <1>14, <1>15, <1>16, <1>17 DEF Next, Call, LoopStep

\* Cancelled and completed tasks stay closed.
LEMMA ClosedStep == IInv /\ [Next]_vars => ClosedInv'
<1> SUFFICES ASSUME IInv, [Next]_vars PROVE ClosedInv'
  OBVIOUS
<1> USE DEF IInv, TypeOK, FiringInv, CountInv, ClosedInv, CountOK, ClosedOK, Counted, Args, NoCfg, Cfg, TimerState
<1>1. ASSUME NEW t \in Tasks, ScheduleAtFixedRate(t) PROVE ClosedInv'
  BY <1>1 DEF ScheduleAtFixedRate, Fresh
<1>2. ASSUME NEW t \in Tasks, Schedule(t) PROVE ClosedInv'
  BY <1>2 DEF Schedule, Fresh
<1>3. ASSUME NEW t \in Tasks, Post(t) PROVE ClosedInv'
  BY <1>3 DEF Post, Fresh
<1>4. ASSUME NEW t \in Tasks, DispatchInline(t) PROVE ClosedInv'
  BY <1>4 DEF DispatchInline, Fresh
<1>5. ASSUME NEW t \in Tasks, Execute(t) PROVE ClosedInv'
  BY <1>5 DEF Execute, Fresh
<1>6. ASSUME NEW t \in Tasks, Cancel(t) PROVE ClosedInv'
  BY <1>6 DEF Cancel, CancelTimer
<1>7. ASSUME NEW t \in Tasks, DropHandle(t) PROVE ClosedInv'
  BY <1>7 DEF DropHandle, CancelTimer
<1>8. ASSUME NEW t \in Tasks, TimerExpires(t) PROVE ClosedInv'
  BY <1>8 DEF TimerExpires
<1>9. ASSUME NEW t \in Tasks, HandleAborted(t) PROVE ClosedInv'
  BY <1>9 DEF HandleAborted, LoopFree
<1>10. ASSUME NEW t \in Tasks, BeginHandler(t) PROVE ClosedInv'
  BY <1>10 DEF BeginHandler, CountUp, LoopFree
<1>11. ASSUME NEW t \in Tasks, FinishHandler(t) PROVE ClosedInv'
  <2> SUFFICES ASSUME NEW u \in Tasks PROVE ClosedOK(u)'
    OBVIOUS
  <2>1. CASE u # t
    BY <1>11, <2>1 DEF FinishHandler
  <2>2. CASE u = t /\ cfg[t].kind = "rate" /\ AfterRun(left[t]) # 0
    BY <1>11, <2>2 DEF FinishHandler, AfterRun, Completion
  <2>3. CASE u = t /\ ~(cfg[t].kind = "rate" /\ AfterRun(left[t]) # 0)
    <3>1. timer'[t] = "off" /\ comp'[t] = Completion(cfg[t].done)
      BY <1>11, <2>3, FiringTask DEF FinishHandler
    <3>2. /\ timer[t] = "firing" /\ CountOK(t) /\ ClosedOK(t)
          /\ left[t] \in Int /\ cfg[t].count \in Int /\ cfg[t].count >= -1
      BY <1>11, FiringTask DEF FinishHandler
    <3>3. cfg'[t] = cfg[t] /\ handle'[t] = handle[t] /\ asked'[t] = asked[t]
      BY <1>11 DEF FinishHandler
    <3>4. cfg[t].kind = "rate" => cfg[t].count \in Int /\ cfg[t].count >= 0
      BY ONLY <3>2, <2>3 DEF CountOK, AfterRun, Counted
    <3> QED BY ONLY <3>1, <3>2, <3>3, <3>4, <2>3 DEF ClosedOK, Completion
  <2> QED BY <2>1, <2>2, <2>3
<1>12. ASSUME NEW t \in Tasks, RunCompletion(t) PROVE ClosedInv'
  BY <1>12 DEF RunCompletion, LoopFree
<1>13. ASSUME NEW w \in Workers, WorkerTakes(w) PROVE ClosedInv'
  BY <1>13 DEF WorkerTakes
<1>14. ASSUME NEW w \in Workers, WorkerEnds(w) PROVE ClosedInv'
  BY <1>14 DEF WorkerEnds
<1>15. CASE Stop
  BY <1>15 DEF Stop
<1>16. CASE Join
  BY <1>16 DEF Join
<1>17. CASE UNCHANGED vars
  BY <1>17 DEF vars
<1> QED
  BY <1>1, <1>2, <1>3, <1>4, <1>5, <1>6, <1>7, <1>8, <1>9, <1>10, <1>11, <1>12, <1>13, <1>14, <1>15, <1>16, <1>17 DEF Next, Call, LoopStep


-----------------------------------------------------------------------------
\* The inductive invariant holds in every reachable state.
THEOREM InvCorrect == Spec => []IInv
<1>1. Init => IInv
  BY TypeInit, InvInit DEF IInv
<1>2. IInv /\ [Next]_vars => IInv'
  BY TypeStep, FiringStep, CountStep, ClosedStep DEF IInv
<1> QED BY <1>1, <1>2, PTL DEF Spec

\* A counted task never runs more often than its count, whatever cancel()
\* calls arrive, and completes only when the count is spent.
THEOREM CountKeptHolds == Spec => []CountKept
<1>1. IInv => CountKept
  <2> SUFFICES ASSUME IInv, NEW t \in Tasks
               PROVE  /\ Counted(t) => handed[t] <= Budget(t)
                      /\ comp[t] # "no" => Counted(t) /\ handed[t] = Budget(t)
    BY DEF CountKept
  <2>1. CountOK(t) /\ ClosedOK(t) /\ timer[t] \in TimerState
    BY DEF IInv, CountInv, ClosedInv, TypeOK
  <2>2. cfg[t].count \in Int /\ left[t] \in Int /\ handed[t] \in Nat
    BY ValueTypes
  <2>3. Counted(t) => cfg[t].count >= 0
    BY <2>1 DEF Counted, CountOK
  <2>4. Counted(t) => handed[t] <= Budget(t)
    BY ONLY <2>1, <2>2, <2>3 DEF CountOK, Budget, TimerState
  <2>5. ASSUME comp[t] # "no" PROVE Counted(t) /\ handed[t] = Budget(t)
    BY ONLY <2>1, <2>2, <2>3, <2>5 DEF CountOK, ClosedOK, Counted, Budget
  <2> QED BY <2>4, <2>5
<1> QED BY <1>1, InvCorrect, PTL

\* A cancel() that found the wait pending is final.
THEOREM CancelFinalHolds == Spec => CancelFinal
<1>1. IInv /\ [Next]_vars => [StaysCancelled]_vars
  <2> SUFFICES ASSUME IInv, Next, NEW t \in Tasks, asked[t] = "effective"
               PROVE  handed'[t] = handed[t] /\ comp'[t] = "no"
    BY DEF StaysCancelled
  <2>1. /\ cfg[t] # NoCfg /\ timer[t] \in {"aborted", "off"} /\ comp[t] = "no" /\ loop # t
    <3>1. ClosedOK(t) /\ CountOK(t) /\ (timer[t] = "firing" <=> loop = t)
      BY DEF IInv, ClosedInv, CountInv, FiringInv
    <3> QED BY <3>1, FreshIsIdle DEF ClosedOK
  <2>2. ASSUME NEW u \in Tasks, Call(u) PROVE handed'[t] = handed[t] /\ comp'[t] = "no"
    BY <2>1, <2>2 DEF Call, ScheduleAtFixedRate, Schedule, Post, DispatchInline, Execute,
                      Cancel, DropHandle, Fresh, IInv, TypeOK
  <2>3. ASSUME NEW u \in Tasks, LoopStep(u) PROVE handed'[t] = handed[t] /\ comp'[t] = "no"
    BY <2>1, <2>3 DEF LoopStep, TimerExpires, HandleAborted, BeginHandler, FinishHandler,
                      RunCompletion, IInv, TypeOK
  <2>4. CASE \E w \in Workers : WorkerTakes(w) \/ WorkerEnds(w)
    BY <2>1, <2>4 DEF WorkerTakes, WorkerEnds
  <2>5. CASE Stop \/ Join
    BY <2>1, <2>5 DEF Stop, Join
  <2> QED BY <2>2, <2>3, <2>4, <2>5 DEF Next
<1> QED BY <1>1, InvCorrect, PTL DEF Spec, CancelFinal

\* The callback of a task that has ended uncancelled is made or queued.
Called ==
  \A t \in Tasks :
    cfg[t].kind = "rate" /\ timer[t] = "off" /\ asked[t] # "effective" /\ cfg[t].done # "none" =>
      comp[t] # "no"

\* No step ends a task without its callback, nor takes a callback back.
LEMMA CalledStep == IInv /\ Called /\ [Next]_vars => Called'
<1> SUFFICES ASSUME IInv, Called, [Next]_vars, NEW t \in Tasks,
                    cfg'[t].kind = "rate", timer'[t] = "off", asked'[t] # "effective", cfg'[t].done # "none"
             PROVE  comp'[t] # "no"
  BY DEF Called
<1>0. /\ TypeOK /\ ClosedOK(t)
      /\ cfg[t].kind = "rate" /\ timer[t] = "off" /\ asked[t] # "effective" /\ cfg[t].done # "none" =>
           comp[t] # "no"
  BY DEF IInv, ClosedInv, Called
<1>1. ASSUME UNCHANGED <<cfg, comp>>, timer'[t] = timer[t], asked'[t] = asked[t] PROVE comp'[t] # "no"
  BY <1>0, <1>1
<1>2. ASSUME NEW u \in Tasks, ScheduleAtFixedRate(u) \/ Schedule(u) \/ Post(u) PROVE comp'[t] # "no"
  <2>1. CASE u # t
    <3>1. cfg'[t] = cfg[t] /\ timer'[t] = timer[t] /\ asked'[t] = asked[t] /\ comp'[t] = comp[t]
      BY <1>0, <1>2, <2>1 DEF TypeOK, ScheduleAtFixedRate, Schedule, Post
    <3> QED BY <1>0, <3>1
  <2>2. CASE u = t
    <3>1. timer'[t] \in {"waiting", "expired"}
      BY <1>0, <1>2, <2>2 DEF TypeOK, ScheduleAtFixedRate, Schedule, Post
    <3> QED BY <3>1
  <2> QED BY <2>1, <2>2
<1>3. ASSUME NEW u \in Tasks, DispatchInline(u) \/ Execute(u) PROVE comp'[t] # "no"
  <2>1. CASE u # t
    <3>1. cfg'[t] = cfg[t] /\ timer'[t] = timer[t] /\ asked'[t] = asked[t] /\ comp'[t] = comp[t]
      BY <1>0, <1>3, <2>1 DEF TypeOK, DispatchInline, Execute
    <3> QED BY <1>0, <3>1
  <2>2. CASE u = t
    <3>1. cfg'[t].kind \in {"post", "execute"}
      BY <1>0, <1>3, <2>2 DEF TypeOK, DispatchInline, Execute, Args
    <3> QED BY <3>1
  <2> QED BY <2>1, <2>2
<1>4. ASSUME NEW u \in Tasks, Cancel(u) \/ DropHandle(u) PROVE comp'[t] # "no"
  BY <1>0, <1>4 DEF TypeOK, Cancel, DropHandle, CancelTimer
<1>5. ASSUME NEW u \in Tasks, TimerExpires(u) \/ BeginHandler(u) PROVE comp'[t] # "no"
  BY <1>0, <1>5 DEF TypeOK, TimerExpires, BeginHandler
<1>6. ASSUME NEW u \in Tasks, HandleAborted(u) PROVE comp'[t] # "no"
  BY <1>0, <1>6 DEF TypeOK, HandleAborted, ClosedOK
<1>7. ASSUME NEW u \in Tasks, FinishHandler(u) PROVE comp'[t] # "no"
  <2>1. CASE u # t
    <3>1. cfg'[t] = cfg[t] /\ timer'[t] = timer[t] /\ asked'[t] = asked[t] /\ comp'[t] = comp[t]
      BY <1>0, <1>7, <2>1 DEF FinishHandler, TypeOK
    <3> QED BY <1>0, <3>1
  <2>2. CASE u = t
    <3>1. cfg'[t] = cfg[t] /\ comp'[t] = Completion(cfg[t].done)
      BY <1>0, <1>7, <2>2 DEF FinishHandler, TypeOK
    <3> QED BY <3>1 DEF Completion
  <2> QED BY <2>1, <2>2
<1>8. ASSUME NEW u \in Tasks, RunCompletion(u) PROVE comp'[t] # "no"
  BY <1>0, <1>8 DEF TypeOK, RunCompletion
<1>9. CASE (\E w \in Workers : WorkerTakes(w) \/ WorkerEnds(w)) \/ Stop \/ Join \/ UNCHANGED vars
  BY <1>1, <1>9 DEF WorkerTakes, WorkerEnds, Stop, Join, vars
<1> QED BY <1>2, <1>3, <1>4, <1>5, <1>6, <1>7, <1>8, <1>9 DEF Next, Call, LoopStep

\* A repeated task ends only by a cancel() in time, or with its count spent and
\* its callback made or queued, for any tasks, counts and cancelling threads.
THEOREM NeverStrandedHolds == Spec => []NeverStranded
<1>1. Init => Called
  BY DEF Init, Called, NoCfg, Args
<1>2. IInv /\ Called => NeverStranded
  <2> SUFFICES ASSUME IInv, Called, NEW t \in Tasks,
                      cfg[t].kind = "rate", timer[t] = "off", asked[t] # "effective"
               PROVE  Counted(t) /\ handed[t] = Budget(t) /\ (cfg[t].done # "none" => comp[t] # "no")
    BY DEF NeverStranded
  <2>1. CountOK(t) /\ ClosedOK(t) /\ (cfg[t].done # "none" => comp[t] # "no")
    BY DEF IInv, CountInv, ClosedInv, Called
  <2>2. /\ cfg[t].count \in Int /\ cfg[t].count >= -1
        /\ left[t] \in Int /\ handed[t] \in Nat
    BY ValueTypes
  <2>3. cfg[t].count >= 0 /\ Counted(t)
    BY <2>1, <2>2 DEF ClosedOK, Counted
  <2>4. handed[t] = Budget(t)
    BY ONLY <2>1, <2>2, <2>3, timer[t] = "off", asked[t] # "effective" DEF CountOK, Budget
  <2> QED BY <2>1, <2>3, <2>4
<1> QED BY <1>1, <1>2, CalledStep, InvCorrect, PTL DEF Spec
-----------------------------------------------------------------------------
(* The runtime implements CountedTask: a step of task t is one of t there, *)
(* or changes nothing that a caller sees.                                  *)

Timed(t) == cfg[t].kind \in {"rate", "once"}

\* What a caller sees of task t is what it was.
Unseen(t) == StatusOf(t)' = StatusOf(t) /\ BudgetOf(t)' = BudgetOf(t) /\ RunsOf(t)' = RunsOf(t)

LEMMA UnseenIf ==
  ASSUME NEW t \in Tasks,
         cfg'[t] = cfg[t], handed'[t] = handed[t], comp'[t] = comp[t],
         asked'[t] = "effective" <=> asked[t] = "effective",
         timer'[t] = "off" <=> timer[t] = "off"
  PROVE  Unseen(t)
BY DEF Unseen, StatusOf, BudgetOf, RunsOf, Counted, Budget

LEMMA Stutters ==
  ASSUME \A t \in Tasks : Unseen(t)
  PROVE  UNCHANGED CT!ctVars
BY DEF Unseen, CT!ctVars

\* A step that a caller sees in task t alone.
LEMMA Seen ==
  ASSUME NEW t \in Tasks, \A u \in Tasks \ {t} : Unseen(u),
         \/ /\ StatusOf(t) = "idle" /\ StatusOf(t)' = "active"
            /\ BudgetOf(t)' \in Counts \cup {1} /\ RunsOf(t)' = RunsOf(t)
         \/ /\ StatusOf(t) = "active" /\ StatusOf(t)' = "active" /\ BudgetOf(t) # 0
            /\ BudgetOf(t)' = IF BudgetOf(t) > 0 THEN BudgetOf(t) - 1 ELSE BudgetOf(t)
            /\ RunsOf(t)' = IF RunsOf(t) < MaxSub THEN RunsOf(t) + 1 ELSE RunsOf(t)
         \/ /\ StatusOf(t) = "active" /\ StatusOf(t)' = "cancelled" /\ BudgetOf(t) # 0
            /\ BudgetOf(t)' = BudgetOf(t) /\ RunsOf(t)' = RunsOf(t)
         \/ /\ StatusOf(t) = "active" /\ StatusOf(t)' \in {"finished", "completing", "notified"}
            /\ BudgetOf(t) = 0 /\ BudgetOf(t)' = BudgetOf(t) /\ RunsOf(t)' = RunsOf(t)
         \/ /\ StatusOf(t) = "completing" /\ StatusOf(t)' = "notified"
            /\ BudgetOf(t)' = BudgetOf(t) /\ RunsOf(t)' = RunsOf(t)
  PROVE  CT!CTNext
<1> DEFINE st == [u \in Tasks |-> StatusOf(u)]
           bu == [u \in Tasks |-> BudgetOf(u)]
           ru == [u \in Tasks |-> RunsOf(u)]
<1>1. /\ st' = [st EXCEPT ![t] = StatusOf(t)']
      /\ bu' = [bu EXCEPT ![t] = BudgetOf(t)']
      /\ ru' = [ru EXCEPT ![t] = RunsOf(t)']
  BY DEF Unseen
<1>2. /\ st[t] = StatusOf(t) /\ bu[t] = BudgetOf(t) /\ ru[t] = RunsOf(t)
      /\ bu = [bu EXCEPT ![t] = BudgetOf(t)] /\ ru = [ru EXCEPT ![t] = RunsOf(t)]
      /\ st = [st EXCEPT ![t] = StatusOf(t)]
  OBVIOUS
<1> HIDE DEF st, bu, ru
<1>3. CT!Start(t) \/ CT!Run(t) \/ CT!CancelInTime(t) \/ CT!Exhaust(t) \/ CT!Notify(t)
  BY <1>1, <1>2
     DEF CT!Start, CT!Run, CT!CancelInTime, CT!Exhaust, CT!Notify, st, bu, ru
<1> QED BY <1>3 DEF CT!CTNext
\* What the invariant says of a task that is scheduled and has a wait or runs.
LEMMA ActiveTask ==
  ASSUME IInv, NEW t \in Tasks, Timed(t), asked[t] # "effective",
         timer[t] \in {"waiting", "expired", "firing"}
  PROVE  /\ StatusOf(t) = "active" /\ RunsOf(t) = handed[t]
         /\ timer[t] # "firing" => BudgetOf(t) # 0
         /\ timer[t] # "firing" /\ Counted(t) => BudgetOf(t) > 0 /\ handed[t] < MaxSub
<1>1. CountOK(t) /\ ClosedOK(t)
  BY DEF IInv, CountInv, ClosedInv
<1>2. cfg[t].count \in Int /\ cfg[t].count >= -1 /\ left[t] \in Int /\ handed[t] \in Nat
  BY ValueTypes
<1>3. cfg[t].count < MaxSub
  <2>1. cfg[t].count \in Counts \cup {0}
    BY DEF IInv, TypeOK, Cfg
  <2> DEFINE n == cfg[t].count
  <2>2. n \in Counts \cup {0}
    BY <2>1
  <2> HIDE DEF n
  <2>3. n < MaxSub
    BY <2>2, BoundsAssumption
  <2> QED BY <2>3 DEF n
<1>4. comp[t] = "no"
  BY <1>1 DEF ClosedOK, IInv, TypeOK
<1>5. StatusOf(t) = "active" /\ RunsOf(t) = handed[t]
  BY <1>4 DEF Timed, StatusOf, RunsOf
<1>6. ASSUME timer[t] # "firing", Counted(t) PROVE BudgetOf(t) > 0 /\ handed[t] < MaxSub
  <2>1. cfg[t].count >= 0 /\ BudgetOf(t) = Budget(t) - handed[t]
    BY <1>1, <1>6 DEF Timed, BudgetOf, Counted, CountOK
  <2>2. handed[t] < Budget(t) /\ Budget(t) \in Int
    BY ONLY <1>1, <1>2, <1>6, <2>1, timer[t] \in {"waiting", "expired", "firing"}
       DEF CountOK, Budget
  <2>3. Budget(t) <= MaxSub
    BY <1>2, <1>3, BoundsAssumption DEF Budget
  <2> QED BY <1>2, <2>1, <2>2, <2>3, BoundsAssumption
<1>7. ~Counted(t) => BudgetOf(t) = -1
  BY DEF Timed, BudgetOf
<1> QED BY <1>5, <1>6, <1>7

\* A new task is a Start of CountedTask.
LEMMA NewTask ==
  ASSUME IInv, NEW t \in Tasks, cfg[t] = NoCfg, NEW kind \in {"rate", "once"},
         NEW n \in Counts \cup {0}, kind = "once" => n = 0, NEW heavy, NEW done,
         cfg' = [cfg EXCEPT ![t] = Args(kind, n, heavy, done)],
         timer' = [timer EXCEPT ![t] = "waiting"],
         kind = "rate" => n \in Counts,
         UNCHANGED <<asked, handed, comp>>
  PROVE  CT!CTNext
<1>1. /\ timer[t] = "off" /\ handed[t] = 0 /\ comp[t] = "no" /\ asked[t] = "no"
      /\ cfg[t].kind = "none" /\ cfg'[t] = Args(kind, n, heavy, done) /\ timer'[t] = "waiting"
  BY FreshIsIdle DEF IInv, TypeOK, NoCfg, Args
<1>2. \A u \in Tasks \ {t} : Unseen(u)
  BY UnseenIf DEF IInv, TypeOK
<1>3. StatusOf(t) = "idle" /\ BudgetOf(t) = 0 /\ RunsOf(t) = 0
  BY <1>1 DEF StatusOf, BudgetOf, RunsOf
<1>4. StatusOf(t)' = "active" /\ RunsOf(t)' = 0
  BY <1>1 DEF StatusOf, RunsOf, Args
<1>5. n \in Int /\ n >= -1
  BY CountsAssumption
<1>6. BudgetOf(t)' \in Counts \cup {1}
  <2>1. cfg'[t].kind = kind /\ cfg'[t].count = n /\ handed'[t] = 0
    BY <1>1 DEF Args
  <2>2. CASE n = 0
    BY <2>1, <2>2 DEF BudgetOf, Counted, Budget
  <2>3. CASE n > 0
    BY <1>5, <2>1, <2>3 DEF BudgetOf, Counted, Budget
  <2>4. CASE n = -1
    BY <2>1, <2>4 DEF BudgetOf, Counted, Budget
  <2> QED BY <1>5, <2>2, <2>3, <2>4
<1> QED BY <1>2, <1>3, <1>4, <1>6, Seen

\* A call that is neither a timer nor a cancellation is not one of CountedTask.
LEMMA OtherCall ==
  ASSUME IInv, NEW t \in Tasks, cfg[t] = NoCfg, NEW kind \in {"post", "execute"}, NEW heavy,
         cfg' = [cfg EXCEPT ![t] = Args(kind, 0, heavy, "none")],
         \A u \in Tasks \ {t} : timer'[u] = timer[u] /\ handed'[u] = handed[u],
         UNCHANGED <<asked, comp>>
  PROVE  UNCHANGED CT!ctVars
<1>1. cfg[t].kind = "none" /\ cfg'[t].kind = kind
  BY DEF IInv, TypeOK, NoCfg, Args
<1>2. Unseen(t)
  BY <1>1 DEF Unseen, StatusOf, BudgetOf, RunsOf
<1>3. \A u \in Tasks \ {t} : Unseen(u)
  BY UnseenIf DEF IInv, TypeOK
<1> QED BY <1>2, <1>3, Stutters

LEMMA CancelSeen ==
  ASSUME IInv, NEW t \in Tasks, handle[t], CancelTimer(t), UNCHANGED <<cfg, left, handed, comp>>
  PROVE  CT!CTNext \/ UNCHANGED CT!ctVars
<1>1. \A u \in Tasks \ {t} : Unseen(u)
  BY UnseenIf DEF CancelTimer, IInv, TypeOK
<1>2. ClosedOK(t) /\ cfg[t].kind = "rate"
  BY DEF IInv, ClosedInv, ClosedOK
<1>3. CASE timer[t] = "waiting"
  <2>1. asked[t] # "effective" /\ asked'[t] = "effective"
    BY <1>2, <1>3 DEF ClosedOK, CancelTimer, IInv, TypeOK
  <2>2. StatusOf(t) = "active" /\ BudgetOf(t) # 0
    BY <1>2, <1>3, <2>1, ActiveTask DEF Timed
  <2>3. StatusOf(t)' = "cancelled" /\ BudgetOf(t)' = BudgetOf(t) /\ RunsOf(t)' = RunsOf(t)
    BY <1>2, <2>1 DEF StatusOf, BudgetOf, RunsOf, Counted, Budget
  <2> QED BY <1>1, <2>2, <2>3, Seen
<1>4. CASE timer[t] # "waiting"
  <2>1. timer'[t] = timer[t] /\ (asked'[t] = "effective" <=> asked[t] = "effective")
    BY <1>4 DEF CancelTimer, IInv, TypeOK
  <2>2. Unseen(t)
    BY <2>1, UnseenIf
  <2> QED BY <1>1, <2>2, Stutters
<1> QED BY <1>3, <1>4

LEMMA BeginSeen ==
  ASSUME IInv, NEW t \in Tasks, BeginHandler(t)
  PROVE  CT!CTNext \/ UNCHANGED CT!ctVars
<1>1. /\ timer[t] = "expired" /\ timer'[t] = "firing" /\ handed'[t] = CountUp(handed[t])
      /\ UNCHANGED <<cfg, asked, comp>>
      /\ \A u \in Tasks \ {t} : timer'[u] = timer[u] /\ handed'[u] = handed[u]
  BY DEF BeginHandler, IInv, TypeOK
<1>2. \A u \in Tasks \ {t} : Unseen(u)
  BY <1>1, UnseenIf
<1>3. CASE Timed(t)
  <2>1. ClosedOK(t) /\ handed[t] \in Nat
    BY ValueTypes DEF IInv, ClosedInv
  <2>2. asked[t] # "effective" /\ asked'[t] = asked[t]
    BY <1>1, <2>1 DEF ClosedOK
  <2>3. /\ StatusOf(t) = "active" /\ RunsOf(t) = handed[t] /\ BudgetOf(t) # 0
        /\ Counted(t) => BudgetOf(t) > 0 /\ handed[t] < MaxSub
    BY <1>1, <1>3, <2>2, ActiveTask
  <2>4. StatusOf(t)' = "active" /\ RunsOf(t)' = CountUp(RunsOf(t))
    BY <1>1, <1>3, <2>3 DEF StatusOf, RunsOf, Timed
  <2>5. BudgetOf(t)' = IF BudgetOf(t) > 0 THEN BudgetOf(t) - 1 ELSE BudgetOf(t)
    <3>1. CASE Counted(t)
      <4>1. Budget(t) \in Int /\ BudgetOf(t) = Budget(t) - handed[t] /\ Budget(t)' = Budget(t)
        BY <1>1, <1>3, <3>1, ValueTypes DEF Timed, BudgetOf, Budget
      <4>2. BudgetOf(t)' = Budget(t) - handed'[t]
        BY <1>1, <1>3, <3>1, <4>1 DEF Timed, BudgetOf, Counted, Budget
      <4>3. handed'[t] = handed[t] + 1
        BY <1>1, <2>3, <3>1 DEF CountUp
      <4> QED BY <2>1, <2>3, <3>1, <4>1, <4>2, <4>3
    <3>2. CASE ~Counted(t)
      BY <1>1, <1>3, <3>2 DEF Timed, BudgetOf, Counted
    <3> QED BY <3>1, <3>2
  <2> QED BY <1>2, <2>3, <2>4, <2>5, Seen DEF CountUp
<1>4. CASE ~Timed(t)
  <2>1. Unseen(t)
    BY <1>1, <1>4 DEF Timed, Unseen, StatusOf, BudgetOf, RunsOf
  <2> QED BY <1>2, <2>1, Stutters
<1> QED BY <1>3, <1>4

LEMMA FinishSeen ==
  ASSUME IInv, CountInv', ClosedInv', NEW t \in Tasks, FinishHandler(t)
  PROVE  CT!CTNext \/ UNCHANGED CT!ctVars
<1>0. /\ timer[t] = "firing" /\ cfg[t].kind # "none" /\ comp[t] = "no" /\ CountOK(t) /\ ClosedOK(t)
      /\ cfg[t].count \in Int /\ cfg[t].count >= -1 /\ left[t] \in Int /\ handed[t] \in Nat
  BY FiringTask DEF FinishHandler
<1>1. /\ UNCHANGED <<cfg, asked, handed>> /\ left'[t] = AfterRun(left[t])
      /\ \A u \in Tasks \ {t} : timer'[u] = timer[u] /\ comp'[u] = comp[u]
  BY DEF FinishHandler, IInv, TypeOK
<1>2. \A u \in Tasks \ {t} : Unseen(u)
  BY <1>1, UnseenIf
<1>3. CASE ~Timed(t)
  <2>1. Unseen(t)
    BY <1>1, <1>3 DEF Timed, Unseen, StatusOf, BudgetOf, RunsOf
  <2> QED BY <1>2, <2>1, Stutters
<1>4. CASE Timed(t) /\ cfg[t].kind = "rate" /\ AfterRun(left[t]) # 0
  <2>1. timer'[t] = "waiting" /\ comp' = comp
    BY <1>4 DEF FinishHandler, IInv, TypeOK
  <2>2. Unseen(t)
    BY <1>0, <1>1, <2>1, UnseenIf
  <2> QED BY <1>2, <2>2, Stutters
<1>5. CASE Timed(t) /\ ~(cfg[t].kind = "rate" /\ AfterRun(left[t]) # 0)
  <2>1. timer'[t] = "off" /\ comp'[t] = Completion(cfg[t].done)
    BY <1>5 DEF FinishHandler, IInv, TypeOK
  <2>2. asked[t] # "effective"
    BY <1>0 DEF ClosedOK
  <2>3. StatusOf(t) = "active"
    BY <1>0, <1>5, <2>2, ActiveTask
  <2>4. StatusOf(t)' \in {"finished", "completing", "notified"}
    BY <1>1, <1>5, <2>1, <2>2 DEF Timed, StatusOf, Completion
  <2>5. CountOK(t)' /\ ClosedOK(t)'
    BY DEF CountInv, ClosedInv
  <2>6. Counted(t)
    BY <1>0, <1>1, <1>5, <2>1, <2>2, <2>5 DEF ClosedOK, Timed, Counted
  <2>7. handed[t] = Budget(t)
    <3>1. cfg'[t] = cfg[t] /\ handed'[t] = handed[t] /\ asked'[t] = asked[t]
      BY <1>1
    <3>2. cfg[t].count >= 0
      BY <1>0, <2>6 DEF Counted, CountOK
    <3>3. left'[t] \in Int
      BY <1>0, <1>1 DEF AfterRun
    <3> QED BY ONLY <1>0, <2>1, <2>2, <2>5, <2>6, <3>1, <3>2, <3>3
            DEF CountOK, Counted, Budget
  <2>8. BudgetOf(t) = 0 /\ BudgetOf(t)' = BudgetOf(t) /\ RunsOf(t)' = RunsOf(t)
    <3>1. Budget(t) \in Int
      BY <1>0 DEF Budget
    <3> QED BY <1>0, <1>1, <1>5, <2>6, <2>7, <3>1 DEF Timed, BudgetOf, RunsOf, Counted, Budget
  <2> QED BY <1>2, <2>3, <2>4, <2>8, Seen
<1> QED BY <1>3, <1>4, <1>5

\* Every step of the runtime is a step of CountedTask or a stutter.
LEMMA CountedTaskStep == IInv /\ IInv' /\ [Next]_vars => [CT!CTNext]_(CT!ctVars)
<1> SUFFICES ASSUME IInv, IInv', [Next]_vars PROVE CT!CTNext \/ UNCHANGED CT!ctVars
  OBVIOUS
<1>0. /\ cfg \in [Tasks -> Cfg] /\ timer \in [Tasks -> TimerState]
      /\ asked \in [Tasks -> {"no", "effective", "late"}]
      /\ handed \in [Tasks -> 0..MaxSub] /\ comp \in [Tasks -> {"no", "waiting", "ran"}]
  BY DEF IInv, TypeOK
<1>1. ASSUME NEW t \in Tasks, ScheduleAtFixedRate(t) PROVE CT!CTNext
  <2>1. PICK n \in Counts, h \in BOOLEAN, d \in Dones :
           cfg' = [cfg EXCEPT ![t] = Args("rate", n, h, d)]
    BY <1>1 DEF ScheduleAtFixedRate
  <2> QED BY <1>1, <2>1, NewTask DEF ScheduleAtFixedRate, Fresh
<1>2. ASSUME NEW t \in Tasks, Schedule(t) PROVE CT!CTNext
  <2>1. PICK h \in BOOLEAN : cfg' = [cfg EXCEPT ![t] = Args("once", 0, h, "none")]
    BY <1>2 DEF Schedule
  <2> QED BY <1>2, <2>1, NewTask DEF Schedule, Fresh
<1>3. ASSUME NEW t \in Tasks, Post(t) \/ DispatchInline(t) \/ Execute(t)
      PROVE  UNCHANGED CT!ctVars
  <2>1. \A u \in Tasks \ {t} : timer'[u] = timer[u] /\ handed'[u] = handed[u]
    BY <1>0, <1>3 DEF Post, DispatchInline, Execute
  <2>2. \E kind \in {"post", "execute"}, h \in BOOLEAN :
           cfg' = [cfg EXCEPT ![t] = Args(kind, 0, h, "none")]
    BY <1>3 DEF Post, DispatchInline, Execute
  <2>3. cfg[t] = NoCfg /\ UNCHANGED <<asked, comp>>
    BY <1>3 DEF Post, DispatchInline, Execute, Fresh
  <2> QED BY <2>1, <2>2, <2>3, OtherCall
<1>4. ASSUME NEW t \in Tasks, Cancel(t) \/ DropHandle(t)
      PROVE  CT!CTNext \/ UNCHANGED CT!ctVars
  BY <1>4, CancelSeen DEF Cancel, DropHandle
<1>5. ASSUME NEW t \in Tasks, TimerExpires(t) PROVE UNCHANGED CT!ctVars
  <2>1. \A u \in Tasks : Unseen(u)
    BY <1>0, <1>5, UnseenIf DEF TimerExpires
  <2> QED BY <2>1, Stutters
<1>6. ASSUME NEW t \in Tasks, HandleAborted(t) PROVE UNCHANGED CT!ctVars
  <2>1. \A u \in Tasks \ {t} : Unseen(u)
    BY <1>0, <1>6, UnseenIf DEF HandleAborted
  <2>2. asked[t] = "effective"
    BY <1>6 DEF HandleAborted, IInv, ClosedInv, ClosedOK
  <2>3. Unseen(t)
    BY <1>6, <2>2 DEF HandleAborted, Unseen, StatusOf, BudgetOf, RunsOf, Counted, Budget
  <2> QED BY <2>1, <2>3, Stutters
<1>7. ASSUME NEW t \in Tasks, BeginHandler(t) PROVE CT!CTNext \/ UNCHANGED CT!ctVars
  BY <1>7, BeginSeen
<1>8. ASSUME NEW t \in Tasks, FinishHandler(t) PROVE CT!CTNext \/ UNCHANGED CT!ctVars
  BY <1>8, FinishSeen DEF IInv
<1>9. ASSUME NEW t \in Tasks, RunCompletion(t) PROVE CT!CTNext
  <2>1. \A u \in Tasks \ {t} : Unseen(u)
    BY <1>0, <1>9, UnseenIf DEF RunCompletion
  <2>2. /\ comp[t] = "waiting" /\ comp'[t] = "ran" /\ UNCHANGED <<cfg, asked, timer, handed>>
        /\ asked[t] # "effective" /\ cfg[t].kind = "rate"
    BY <1>0, <1>9 DEF RunCompletion, IInv, ClosedInv, ClosedOK
  <2>3. StatusOf(t) = "completing" /\ StatusOf(t)' = "notified"
    BY <2>2 DEF StatusOf
  <2>4. BudgetOf(t)' = BudgetOf(t) /\ RunsOf(t)' = RunsOf(t)
    BY <2>2 DEF BudgetOf, RunsOf, Counted, Budget
  <2> QED BY <2>1, <2>3, <2>4, Seen
<1>10. CASE \/ \E w \in Workers : WorkerTakes(w) \/ WorkerEnds(w)
            \/ Stop \/ Join \/ UNCHANGED vars
  <2>1. UNCHANGED <<cfg, timer, asked, handed, comp>>
    BY <1>10 DEF WorkerTakes, WorkerEnds, Stop, Join, vars
  <2>2. \A u \in Tasks : Unseen(u)
    BY <2>1, UnseenIf
  <2> QED BY <2>2, Stutters
<1> QED
  BY <1>1, <1>2, <1>3, <1>4, <1>5, <1>6, <1>7, <1>8, <1>9, <1>10 DEF Next, Call, LoopStep

\* Seen from its callers, whatever timers, queues, workers and cancelling threads
\* do, every task of the runtime behaves as CountedTask says.
THEOREM Implements == Spec => ImplementsCountedTask
<1>1. Init => CT!CTInit
  BY DEF Init, CT!CTInit, StatusOf, BudgetOf, RunsOf, NoCfg, Args
<1>2. IInv /\ IInv' /\ [Next]_vars => [CT!CTNext]_(CT!ctVars)
  BY CountedTaskStep
<1> QED BY <1>1, <1>2, InvCorrect, PTL DEF Spec, ImplementsCountedTask, CT!CTSpec
=============================================================================
