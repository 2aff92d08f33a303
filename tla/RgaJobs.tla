-------------------------------- MODULE RgaJobs --------------------------------
(***************************************************************************)
(* src/core/Graphics/Rga: a job's way from RgaServiceClient through        *)
(* RgaService and RgaEngine to the hardware, in a process whose other      *)
(* threads use the buffers of Vram all the while.  What its call means at  *)
(* each stage is RgaWire's.                                                *)
(*                                                                         *)
(* A job is an actor of Vram: refs[j] are the references that the chain,   *)
(* the job's handle and the captured callback hold for it.  The service    *)
(* makes chains of one step, always with a callback, so that the ways of   *)
(* submit without a callback, and cancel, for which nobody is given a      *)
(* handle, are not taken by any job.                                       *)
(*                                                                         *)
(* Job ids are random: a new one is taken to differ from those in use.     *)
(* Requests and replies travel through the router and may be lost.         *)
(***************************************************************************)
EXTENDS Vram

CONSTANTS
  Thread,    \* the actors that are threads of the process
  Job,       \* job ids
  Request,   \* the calls of clients: records of op and args
  High,      \* ids of 2^63 and more
  Shape,     \* what RgaWire looks at in the configs of calls
  Offset

INSTANCE RgaWire

ASSUME ActorAssumption == Actor = Thread \cup Job /\ Thread \cap Job = {}
ASSUME RequestAssumption ==
  \A c \in Request :
    c = [op |-> c.op, args |-> c.args] /\ c.op \in Op /\ DOMAIN c.args = DOMAIN Table[c.op]
ASSUME IdAssumption == {-1, 0} \cap Id = {}

VARIABLES
  pending,   \* the jobs in the client's _pending_jobs
  stage,     \* stage[j]: sent, looking, running, ending, or ended: not under way
  asked,     \* history: asked[j] is the call of the client, or NoCall
  msg,       \* msg[j]: the message that carries it, or NoCall
  found,     \* found[j]: what the service has found for j so far, as s, d and p
  handles,   \* the jobs in _active_handles
  armed,     \* the jobs whose fence is in the epoll set
  using,     \* using[j]: what the hardware does for j, with which buffers
  hw,        \* the jobs the hardware works on
  signalled, \* the jobs whose fence has been signalled
  replies,   \* the jobs whose response is on its way
  fault      \* an exception has left the epoll thread: the process has ended

callVars == <<asked, msg, found>>
jobVars == <<pending, stage, callVars, handles, armed, using, hw, signalled, replies, fault>>
rgaVars == <<vars, jobVars>>

NoCall == <<>>

-----------------------------------------------------------------------------
RgaInit ==
  /\ Init
  /\ pending = {} /\ handles = {} /\ armed = {}
  /\ stage = [j \in Job |-> "ended"]
  /\ asked = [j \in Job |-> NoCall]
  /\ msg = [j \in Job |-> NoCall]
  /\ found = [j \in Job |-> <<>>]
  /\ using = [j \in Job |-> {}]
  /\ hw = {} /\ signalled = {} /\ replies = {}
  /\ fault = FALSE

\* The service's event loop is in the handler of one message at a time.
LoopFree == \A j \in Job : stage[j] \notin {"looking", "ending"}

-----------------------------------------------------------------------------
(* RgaServiceClient.                                                       *)

\* generateJobId keeps the callback, if there is one, before the request is
\* built and sent.
SendRga(j) ==
  /\ stage[j] = "ended"
  /\ j \notin pending \cup replies
  /\ pending' \in {pending, pending \cup {j}}
  /\ stage' = [stage EXCEPT ![j] = "sent"]
  /\ \E c \in Request :
       /\ asked' = [asked EXCEPT ![j] = c]
       /\ msg' = [msg EXCEPT ![j] = Build(c.op, c.args)]
  /\ UNCHANGED <<vars, found, handles, armed, using, hw, signalled, replies, fault>>

Forgotten(j) ==
  /\ asked' = [asked EXCEPT ![j] = NoCall]
  /\ msg' = [msg EXCEPT ![j] = NoCall]
  /\ found' = [found EXCEPT ![j] = <<>>]

RequestLost(j) ==
  /\ stage[j] = "sent"
  /\ stage' = [stage EXCEPT ![j] = "ended"]
  /\ Forgotten(j)
  /\ UNCHANGED <<vars, pending, handles, armed, using, hw, signalled, replies, fault>>

ReplyLost(j) ==
  /\ j \in replies
  /\ replies' = replies \ {j}
  /\ UNCHANGED <<vars, pending, stage, callVars, handles, armed, using, hw, signalled, fault>>

OnRgaResponse(j) ==
  /\ j \in replies
  /\ replies' = replies \ {j}
  /\ pending' = pending \ {j}
  /\ UNCHANGED <<vars, stage, callVars, handles, armed, using, hw, signalled, fault>>

-----------------------------------------------------------------------------
(* RgaService, on the event loop.                                          *)

TakeRequest(j) ==
  /\ LoopFree
  /\ stage[j] = "sent"
  /\ stage' = [stage EXCEPT ![j] = "looking"]
  /\ UNCHANGED <<vars, pending, callVars, handles, armed, using, hw, signalled, replies, fault>>

\* What the callback of the message looks up next.
NextId(j) == Lookups(msg[j].payload_type, Parse(msg[j]))[Len(found[j]) + 1]

LooksUp(j) == stage[j] = "looking" /\ Len(found[j]) < 3
Found(j, b) == found' = [found EXCEPT ![j] = Append(@, b)]

\* Ids are taken as int64_t, and those that are negative are not looked up.
Missing(j) == NextId(j) \in Id \ High => registry[NextId(j)] = NoBuffer

\* A variant of LookUp: the registry keeps plain pointers.
LookUpPointer(j) ==
  /\ LooksUp(j)
  /\ \/ NextId(j) \in Id \ High /\ GetPlainPointer(j, NextId(j)) /\ Found(j, registry[NextId(j)])
     \/ Missing(j) /\ Found(j, NoBuffer) /\ UNCHANGED vars
  /\ UNCHANGED <<pending, stage, asked, msg, handles, armed, using, hw, signalled, replies, fault>>

\* handleRgaGeneric looks up s, d and p in turn; an id that is not in the
\* registry, or whose buffer is being destroyed, gives a null pointer.
LookUp(j) ==
  /\ LooksUp(j)
  /\ \/ /\ NextId(j) \in Id \ High /\ GetSharedBuffer(j, NextId(j))
        /\ LET b == registry[NextId(j)]
           IN Found(j, IF life[b] = "live" THEN b ELSE NoBuffer)
     \/ Missing(j) /\ Found(j, NoBuffer) /\ UNCHANGED vars
  /\ UNCHANGED <<pending, stage, asked, msg, handles, armed, using, hw, signalled, replies, fault>>

-----------------------------------------------------------------------------
(* RgaEngine.                                                              *)

\* All three have been looked up: the callback has made its chain of one step.
Chained(j) == stage[j] = "looking" /\ Len(found[j]) = 3
ChainTask(j) ==
  LET op == msg[j].payload_type
  IN Task(op, Step(op, Parse(msg[j]), found[j][1], found[j][2], found[j][3]))

\* A variant of Submit: the fence is not given to epoll.
SubmitUnarmed(j) ==
  /\ Chained(j)
  /\ stage' = [stage EXCEPT ![j] = "running"]
  /\ handles' = handles \cup {j}
  /\ hw' = hw \cup {j}
  /\ using' = [using EXCEPT ![j] = ChainTask(j)]
  /\ UNCHANGED <<vars, pending, callVars, armed, signalled, replies, fault>>

\* submit with a fence: the hardware begins, and epoll waits for the fence.
Submit(j) ==
  /\ Chained(j)
  /\ stage' = [stage EXCEPT ![j] = "running"]
  /\ handles' = handles \cup {j}
  /\ armed' = armed \cup {j}
  /\ hw' = hw \cup {j}
  /\ using' = [using EXCEPT ![j] = ChainTask(j)]
  /\ UNCHANGED <<vars, pending, callVars, signalled, replies, fault>>

\* submit without a fence: the hardware has refused, removeHandle calls back at
\* once, on the loop, where a response can be built; the references follow.
SubmitRefused(j) ==
  /\ Chained(j)
  /\ stage' = [stage EXCEPT ![j] = "ending"]
  /\ replies' = replies \cup {j}
  /\ UNCHANGED <<vars, pending, callVars, handles, armed, using, hw, signalled, fault>>

\* A variant of LetGo: nothing keeps the buffers of a running job.
LetGoEarly(j, b) ==
  /\ stage[j] \in {"running", "ending"}
  /\ DropRef(j, b)
  /\ UNCHANGED jobVars

\* The handle and the captured callback are destroyed, reference by reference.
LetGo(j, b) ==
  /\ stage[j] = "ending"
  /\ DropRef(j, b)
  /\ UNCHANGED jobVars

\* A variant of Ended: a reference stays in the callback.
EndedHolding(j) ==
  /\ stage[j] = "ending"
  /\ stage' = [stage EXCEPT ![j] = "ended"]
  /\ Forgotten(j)
  /\ UNCHANGED <<vars, pending, handles, armed, using, hw, signalled, replies, fault>>

Ended(j) ==
  /\ stage[j] = "ending"
  /\ refs[j] = {}
  /\ stage' = [stage EXCEPT ![j] = "ended"]
  /\ Forgotten(j)
  /\ UNCHANGED <<vars, pending, handles, armed, using, hw, signalled, replies, fault>>

HardwareEnds(j) ==
  /\ j \in hw
  /\ hw' = hw \ {j}
  /\ using' = [using EXCEPT ![j] = {}]
  /\ signalled' = signalled \cup {j}
  /\ UNCHANGED <<vars, pending, stage, callVars, handles, armed, replies, fault>>

\* The epoll thread removes the handle and calls back.  BuildRgaResponse throws,
\* since this is not the event loop, and the exception leaves the thread.
FenceEvent(j) ==
  /\ j \in armed \cap signalled \cap handles
  /\ handles' = handles \ {j}
  /\ armed' = armed \ {j}
  /\ fault' = TRUE
  /\ UNCHANGED <<vars, pending, stage, callVars, using, hw, signalled, replies>>

-----------------------------------------------------------------------------
\* What the threads of the process do with buffers in the meantime.
ThreadStep ==
  /\ \/ RemoveUsr
     \/ \E a \in Thread : GetOrCreateUsr(a) \/ ReleaseAllBuffers(a) \/ DropUsr(a)
     \/ \E a \in Thread, i \in Id : GetSharedBuffer(a, i)
     \/ \E a \in Thread, b \in Buffer : BufferCall(a, b)
     \/ \E b \in Buffer : DestructorUnshares(b) \/ DestructorFrees(b)
  /\ UNCHANGED jobVars

ServiceStep(j) ==
  LookUp(j) \/ Submit(j) \/ SubmitRefused(j) \/ Ended(j) \/ \E b \in Buffer : LetGo(j, b)

RgaNext ==
  /\ ~fault
  /\ \/ ThreadStep
     \/ \E j \in Job :
          \/ SendRga(j) \/ RequestLost(j) \/ ReplyLost(j) \/ OnRgaResponse(j)
          \/ TakeRequest(j) \/ ServiceStep(j)
          \/ HardwareEnds(j) \/ FenceEvent(j)

\* Handlers return, the hardware ends what it has begun, and the epoll thread
\* is told of signalled fences.
RgaFairness ==
  \A j \in Job :
    /\ WF_rgaVars(~fault /\ ServiceStep(j))
    /\ WF_rgaVars(~fault /\ HardwareEnds(j))
    /\ WF_rgaVars(~fault /\ FenceEvent(j))

RgaSpec == RgaInit /\ [][RgaNext]_rgaVars
RgaFairSpec == RgaSpec /\ RgaFairness

-----------------------------------------------------------------------------
\* The variables of client, service and engine have their types.
RgaTypeOK ==
  /\ pending \subseteq Job /\ handles \subseteq Job /\ armed \subseteq Job
  /\ hw \subseteq Job /\ signalled \subseteq Job /\ replies \subseteq Job
  /\ stage \in [Job -> {"sent", "looking", "running", "ending", "ended"}]
  /\ asked \in [Job -> Request \cup {NoCall}]
  /\ msg \in [Job -> {Build(c.op, c.args) : c \in Request} \cup {NoCall}]
  /\ found \in [Job -> Seq(Buffer \cup {NoBuffer})]
  /\ using = [j \in Job |-> using[j]]
  /\ \A j \in Job : \A u \in using[j] : u.buffer \in Buffer /\ u.does \in {"read", "write"}
  /\ fault \in BOOLEAN

\* The hardware works on living buffers, with memory, descriptor and mapping in
\* place, whatever the threads unshare, release or remove meanwhile.
HardwareUsesLiving ==
  \A j \in hw : \A u \in using[j] :
    life[u.buffer] = "live" /\ kernel[u.buffer] = Resource

\* What was found for j, under which id.
Gave(j) == {<<Lookups(msg[j].payload_type, Parse(msg[j]))[k], found[j][k]>> : k \in 1..3}

\* From the client's parameters to the driver's, by way of message, lookups,
\* chain and engine: the hardware writes the buffer that was shared under the id
\* which the client named as the target, reads those it named as sources, each
\* in the shape of its own config and where the client means, never at the place
\* of another, and leaves out none that was found.
HardwareActsAsCalled ==
  \A j \in hw :
    LET op == asked[j].op
        args == asked[j].args
    IN /\ \A u \in using[j] : \E f \in Named(op) :
            /\ <<Arg(op, args, f), u.buffer>> \in Gave(j)
            /\ u.does = IF f = Target(op) THEN "write" ELSE "read"
            /\ u.shape = IF HasConfig(op, f) THEN Shape[Arg(op, args, Cfg(op, f))] ELSE Unset
            /\ u.region = MeantRegion(op, args, f)
       /\ \A k \in 1..3 : found[j][k] # NoBuffer => \E u \in using[j] : u.buffer = found[j][k]

\* A client is answered only for a job that the hardware does not work on, and that is
\* not yet asked for again.
AnsweredIsOver == \A j \in replies : j \notin hw /\ stage[j] \in {"ending", "ended"}

\* A job keeps buffers alive only from its lookups to its end.
BuffersLetGo ==
  \A j \in Job : stage[j] \in {"sent", "ended"} => refs[j] = {}

\* RgaEngine.cpp:180-240: while the process lives a running job has its handle, its fence
\* is in the epoll set, and the fence will be signalled or has been, although ids
\* come back and other jobs end meanwhile: nothing is left to wait for ever.
RunningIsAwaited ==
  ~fault => \A j \in Job : stage[j] = "running" =>
    j \in handles /\ j \in armed /\ j \in hw \cup signalled

\* With jobs as actors the buffers behave as Vram says, so that all that holds
\* of Vram holds here.
BuffersAsInVram == Spec

\* A request that has been taken comes to an end, although that may be the end
\* of the process.
JobSettles == \A j \in Job : stage[j] = "looking" ~> stage[j] = "ended" \/ fault
=============================================================================
