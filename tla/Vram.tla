--------------------------------- MODULE Vram ---------------------------------
(***************************************************************************)
(* src/core/Graphics/Vram/VramProvider.hpp: the buffers that users of the  *)
(* graphics layer create, the workflow that passes a buffer from step to   *)
(* step, and the registry through which buffers are shared by id.          *)
(*                                                                         *)
(* Actors are the threads that use the interface.  A method that holds its *)
(* mutex throughout is one step.  The destructor of a buffer is two, since *)
(* a lookup may come between the last reference's end and unshare(); the   *)
(* thread that runs it may be overtaken by any other.                      *)
(*                                                                         *)
(* users_ is modelled for one user name: entries of different names do not *)
(* meet.  A VramUsr lives on after removeUsr while somebody holds it.      *)
(*                                                                         *)
(* Callers keep the buffer they are in a step of, and call finishStep with *)
(* the tag of the step they have started.  Share ids are 64-bit random     *)
(* numbers: a new one is taken to differ from every one still in use.      *)
(***************************************************************************)
EXTENDS Integers, Sequences, FiniteSets

CONSTANTS
  Actor,     \* threads that use the interface
  Buffer,    \* VBuffer objects; one is used again after its destruction
  Usr,       \* VramUsr objects of the one name
  Id,        \* share ids
  Tag,       \* names of steps
  Plan,      \* values given for planned_steps
  NoUsr, NoBuffer, NoId, Nobody

ASSUME NullAssumption == /\ NoUsr \notin Usr /\ NoBuffer \notin Buffer
                         /\ NoId \notin Id /\ Nobody \notin Actor
ASSUME PlanAssumption == Plan \subseteq Seq(Tag)

VARIABLES
  current,   \* the VramUsr in users_, or NoUsr
  usrOf,     \* usrOf[a]: the VramUsr actor a holds, or NoUsr
  life,      \* life[b]: none, live, dying (no reference left), unshared
  kernel,    \* kernel[b]: what b has of the kernel: dumb buffer, fd, mapping
  active,    \* active[b]: the VramUsr whose active_buffers_ has b, or NoUsr
  refs,      \* refs[a]: the buffers actor a holds references to
  state, plan, step, busy, dirty,  \* the WorkflowContext of each buffer
  shareId,   \* shareId[b]: share_id_, or NoId for 0
  registry,  \* registry[i]: the buffer of a weak_ptr in shared_registry_
  working    \* history: <<a, b, t>> if a has started step t of b

usrVars == <<current, usrOf>>
ctxVars == <<state, plan, step, busy, dirty>>
bufVars == <<life, kernel, active, refs>>
shareVars == <<shareId, registry>>
vars == <<current, usrOf, life, kernel, active, refs, state, plan, step, busy, dirty,
          shareId, registry, working>>

-----------------------------------------------------------------------------
Resource == {"dumb", "fd", "map"}

Init ==
  /\ current = NoUsr
  /\ usrOf = [a \in Actor |-> NoUsr]
  /\ life = [b \in Buffer |-> "none"]
  /\ kernel = [b \in Buffer |-> {}]
  /\ active = [b \in Buffer |-> NoUsr]
  /\ refs = [a \in Actor |-> {}]
  /\ state = [b \in Buffer |-> "IDLE"]
  /\ plan = [b \in Buffer |-> <<>>]
  /\ step = [b \in Buffer |-> 0]
  /\ busy = [b \in Buffer |-> FALSE]
  /\ dirty = [b \in Buffer |-> FALSE]
  /\ shareId = [b \in Buffer |-> NoId]
  /\ registry = [i \in Id |-> NoBuffer]
  /\ working = {}

Holds(a, b) == b \in refs[a]

\* The buffers of S that lists and holders no longer refer to die.
Dying(lists, holders) ==
  [b \in Buffer |->
     IF life[b] = "live" /\ lists[b] = NoUsr /\ \A a \in Actor : b \notin holders[a]
     THEN "dying" ELSE life[b]]

Held(u) == \E a \in Actor : usrOf[a] = u

-----------------------------------------------------------------------------
(* The provider and its users.                                             *)

GetOrCreateUsr(a) ==
  /\ usrOf[a] = NoUsr
  /\ \E u \in Usr :
       /\ IF current = NoUsr THEN ~Held(u) ELSE u = current
       /\ current' = u
       /\ usrOf' = [usrOf EXCEPT ![a] = u]
  /\ UNCHANGED <<bufVars, ctxVars, shareVars, working>>

\* active_buffers_.clear()
Cleared(u) == [b \in Buffer |-> IF active[b] = u THEN NoUsr ELSE active[b]]

ReleaseAllBuffers(a) ==
  /\ usrOf[a] # NoUsr
  /\ active' = Cleared(usrOf[a])
  /\ life' = Dying(Cleared(usrOf[a]), refs)
  /\ UNCHANGED <<usrVars, kernel, refs, ctxVars, shareVars, working>>

RemoveUsr ==
  /\ current # NoUsr
  /\ current' = NoUsr
  /\ active' = Cleared(current)
  /\ life' = Dying(Cleared(current), refs)
  /\ UNCHANGED <<usrOf, kernel, refs, ctxVars, shareVars, working>>

\* A variant of DropUsr: there is no destructor that releases.
DropUsrSilently(a) ==
  /\ usrOf[a] # NoUsr
  /\ usrOf' = [usrOf EXCEPT ![a] = NoUsr]
  /\ UNCHANGED <<current, bufVars, ctxVars, shareVars, working>>

\* The last shared_ptr to a VramUsr ends in ~VramUsr, which releases all.
DropUsr(a) ==
  /\ usrOf[a] # NoUsr
  /\ LET u     == usrOf[a]
         lists == IF u = current \/ \E o \in Actor \ {a} : usrOf[o] = u
                  THEN active ELSE Cleared(u)
     IN /\ active' = lists
        /\ life' = Dying(lists, refs)
  /\ usrOf' = [usrOf EXCEPT ![a] = NoUsr]
  /\ UNCHANGED <<current, kernel, refs, ctxVars, shareVars, working>>

-----------------------------------------------------------------------------
(* Creation, use and destruction of buffers.                               *)

\* What a call of createBuffer that fails has got from the kernel, and what it
\* gives back before it returns.
Failure == {"DUMB_FAILED", "EXPORT_FAILED", "MAP_FAILED", "MMAP_FAILED"}
Obtained(f) == CASE f = "DUMB_FAILED"   -> {}
                 [] f = "EXPORT_FAILED" -> {"dumb"}
                 [] OTHER               -> {"dumb", "fd"}

\* UndoneDumbOnly, a variant of Undone, forgets to close the file descriptor.
UndoneDumbOnly(f) == IF f = "DUMB_FAILED" THEN {} ELSE {"dumb"}

Undone(f) == CASE f = "DUMB_FAILED"   -> {}
               [] f = "EXPORT_FAILED" -> {"dumb"}
               [] OTHER               -> {"dumb", "fd"}

\* WorkflowContext::reset()
Reset(b) ==
  /\ state' = [state EXCEPT ![b] = "IDLE"]
  /\ plan' = [plan EXCEPT ![b] = <<>>]
  /\ step' = [step EXCEPT ![b] = 0]
  /\ busy' = [busy EXCEPT ![b] = FALSE]
  /\ dirty' = [dirty EXCEPT ![b] = FALSE]

CreateFails(a, b) ==
  /\ usrOf[a] # NoUsr
  /\ life[b] = "none"
  /\ \E f \in Failure : kernel' = [kernel EXCEPT ![b] = @ \cup (Obtained(f) \ Undone(f))]
  /\ UNCHANGED <<usrVars, life, active, refs, ctxVars, shareVars, working>>

CreateBuffer(a, b) ==
  /\ usrOf[a] # NoUsr
  /\ life[b] = "none"
  /\ life' = [life EXCEPT ![b] = "live"]
  /\ kernel' = [kernel EXCEPT ![b] = Resource]
  /\ active' = [active EXCEPT ![b] = usrOf[a]]
  /\ refs' = [refs EXCEPT ![a] = @ \cup {b}]
  /\ Reset(b)
  /\ shareId' = [shareId EXCEPT ![b] = NoId]
  /\ UNCHANGED <<usrVars, registry, working>>

\* Nothing is reserved: another caller may be given the same buffer.
GetAvailableBuffer(a, b) ==
  /\ usrOf[a] # NoUsr
  /\ active[b] = usrOf[a]
  /\ state[b] = "IDLE"
  /\ refs' = [refs EXCEPT ![a] = @ \cup {b}]
  /\ UNCHANGED <<usrVars, life, kernel, active, ctxVars, shareVars, working>>

DropRef(a, b) ==
  /\ Holds(a, b)
  /\ \A t \in Tag : <<a, b, t>> \notin working
  /\ refs' = [refs EXCEPT ![a] = @ \ {b}]
  /\ life' = Dying(active, [refs EXCEPT ![a] = @ \ {b}])
  /\ UNCHANGED <<usrVars, kernel, active, ctxVars, shareVars, working>>

\* A variant of Unregistered: the entry is forgotten.
UnregisteredLocally(b) ==
  /\ shareId' = [shareId EXCEPT ![b] = NoId]
  /\ UNCHANGED registry

\* unshare(): nothing to do if the buffer is not shared.
Unregistered(b) ==
  /\ registry' = [i \in Id |-> IF i = shareId[b] THEN NoBuffer ELSE registry[i]]
  /\ shareId' = [shareId EXCEPT ![b] = NoId]

\* ~VBuffer: first unshare(), then the kernel's part.
DestructorUnshares(b) ==
  /\ life[b] = "dying"
  /\ life' = [life EXCEPT ![b] = "unshared"]
  /\ Unregistered(b)
  /\ UNCHANGED <<usrVars, kernel, active, refs, ctxVars, working>>

DestructorFrees(b) ==
  /\ life[b] = "unshared"
  /\ life' = [life EXCEPT ![b] = "none"]
  /\ kernel' = [kernel EXCEPT ![b] = {}]
  /\ UNCHANGED <<usrVars, active, refs, ctxVars, shareVars, working>>

-----------------------------------------------------------------------------
(* Sharing.                                                                *)

\* A new id is not in use in the registry, nor by a buffer that is dying.
Registered(b, i) ==
  /\ registry[i] = NoBuffer
  /\ \A o \in Buffer : shareId[o] # i
  /\ registry' = [registry EXCEPT ![i] = b]

Share(a, b) ==
  /\ Holds(a, b)
  /\ shareId[b] = NoId
  /\ \E i \in Id : Registered(b, i) /\ shareId' = [shareId EXCEPT ![b] = i]
  /\ UNCHANGED <<usrVars, bufVars, ctxVars, working>>

Unshare(a, b) ==
  /\ Holds(a, b)
  /\ shareId[b] # NoId
  /\ Unregistered(b)
  /\ UNCHANGED <<usrVars, bufVars, ctxVars, working>>

\* A variant of GetSharedBuffer: the registry keeps plain pointers.
GetPlainPointer(a, i) ==
  /\ registry[i] # NoBuffer
  /\ refs' = [refs EXCEPT ![a] = @ \cup {registry[i]}]
  /\ UNCHANGED <<usrVars, life, kernel, active, ctxVars, shareVars, working>>

\* weak_ptr::lock succeeds while there is a reference; an expired entry is
\* removed, and its buffer's destructor will look for it in vain.
GetSharedBuffer(a, i) ==
  /\ registry[i] # NoBuffer
  /\ \/ /\ life[registry[i]] = "live"
        /\ refs' = [refs EXCEPT ![a] = @ \cup {registry[i]}]
        /\ UNCHANGED registry
     \/ /\ life[registry[i]] # "live"
        /\ registry' = [registry EXCEPT ![i] = NoBuffer]
        /\ UNCHANGED refs
  /\ UNCHANGED <<usrVars, life, kernel, active, ctxVars, shareId, working>>

-----------------------------------------------------------------------------
(* The workflow.  A call that is refused changes nothing.                  *)

\* A variant of SetupWorkflow: a holder need not find the buffer idle.
SetupAnytime(a, b) ==
  /\ Holds(a, b)
  /\ ~busy[b]
  /\ \E p \in Plan : plan' = [plan EXCEPT ![b] = p]
  /\ state' = [state EXCEPT ![b] = "READY"]
  /\ step' = [step EXCEPT ![b] = 0]
  /\ UNCHANGED <<usrVars, bufVars, busy, dirty, shareVars, working>>

SetupWorkflow(a, b) ==
  /\ Holds(a, b)
  /\ state[b] = "IDLE"
  /\ \E p \in Plan : plan' = [plan EXCEPT ![b] = p]
  /\ state' = [state EXCEPT ![b] = "READY"]
  /\ step' = [step EXCEPT ![b] = 0]
  /\ busy' = [busy EXCEPT ![b] = FALSE]
  /\ dirty' = [dirty EXCEPT ![b] = FALSE]
  /\ UNCHANGED <<usrVars, bufVars, shareVars, working>>

AddDirtyRect(a, b) ==
  /\ Holds(a, b)
  /\ state[b] # "IDLE"
  /\ dirty' = [dirty EXCEPT ![b] = TRUE]
  /\ UNCHANGED <<usrVars, bufVars, state, plan, step, busy, shareVars, working>>

StartStep(a, b, t) ==
  /\ Holds(a, b)
  /\ state[b] # "IDLE"
  /\ ~busy[b]
  /\ step[b] < Len(plan[b]) /\ plan[b][step[b] + 1] = t
  /\ state' = [state EXCEPT ![b] = "RUNNING"]
  /\ busy' = [busy EXCEPT ![b] = TRUE]
  /\ working' = working \cup {<<a, b, t>>}
  /\ UNCHANGED <<usrVars, bufVars, plan, step, dirty, shareVars>>

FinishStep(a, b, t) ==
  /\ <<a, b, t>> \in working
  /\ state[b] = "RUNNING" /\ busy[b]
  /\ plan[b][step[b] + 1] = t
  /\ busy' = [busy EXCEPT ![b] = FALSE]
  /\ step' = [step EXCEPT ![b] = @ + 1]
  /\ state' = [state EXCEPT ![b] = IF step[b] + 1 >= Len(plan[b]) THEN "IDLE" ELSE @]
  /\ working' = working \ {<<a, b, t>>}
  /\ UNCHANGED <<usrVars, bufVars, plan, dirty, shareVars>>

\* A variant of CancelWorkflow: it does not look whether a step is under way.
CancelAnytime(a, b) ==
  /\ Holds(a, b)
  /\ state' = [state EXCEPT ![b] = "IDLE"]
  /\ busy' = [busy EXCEPT ![b] = FALSE]
  /\ UNCHANGED <<usrVars, bufVars, plan, step, dirty, shareVars, working>>

CancelWorkflow(a, b) ==
  /\ Holds(a, b)
  /\ ~busy[b]
  /\ Reset(b)
  /\ UNCHANGED <<usrVars, bufVars, shareVars, working>>

-----------------------------------------------------------------------------
BufferCall(a, b) ==
  \/ CreateFails(a, b) \/ CreateBuffer(a, b) \/ GetAvailableBuffer(a, b) \/ DropRef(a, b)
  \/ Share(a, b) \/ Unshare(a, b)
  \/ SetupWorkflow(a, b) \/ AddDirtyRect(a, b) \/ CancelWorkflow(a, b)
  \/ \E t \in Tag : StartStep(a, b, t) \/ FinishStep(a, b, t)

Next ==
  \/ RemoveUsr
  \/ \E a \in Actor : GetOrCreateUsr(a) \/ ReleaseAllBuffers(a) \/ DropUsr(a)
  \/ \E a \in Actor, i \in Id : GetSharedBuffer(a, i)
  \/ \E a \in Actor, b \in Buffer : BufferCall(a, b)
  \/ \E b \in Buffer : DestructorUnshares(b) \/ DestructorFrees(b)

Spec == Init /\ [][Next]_vars

-----------------------------------------------------------------------------
\* Every variable of provider, users, buffers and registry has its type.
TypeOK ==
  /\ current \in Usr \cup {NoUsr}
  /\ usrOf \in [Actor -> Usr \cup {NoUsr}]
  /\ life \in [Buffer -> {"none", "live", "dying", "unshared"}]
  /\ kernel \in [Buffer -> SUBSET Resource]
  /\ active \in [Buffer -> Usr \cup {NoUsr}]
  /\ refs \in [Actor -> SUBSET Buffer]
  /\ state \in [Buffer -> {"IDLE", "READY", "RUNNING"}]
  /\ plan \in [Buffer -> Seq(Tag)]
  /\ step \in [Buffer -> Nat]
  /\ busy \in [Buffer -> BOOLEAN]
  /\ dirty \in [Buffer -> BOOLEAN]
  /\ shareId \in [Buffer -> Id \cup {NoId}]
  /\ registry \in [Id -> Buffer \cup {NoBuffer}]
  /\ working \subseteq Actor \X Buffer \X Tag

\* Whoever has started a step is alone in it, and the buffer stays in that step
\* until he finishes it: neither cancelWorkflow nor setupWorkflow of another
\* holder, nor a removed user, takes it from under him, and his finishStep is
\* accepted.
StepIsExclusive ==
  \A w \in working :
    /\ \A v \in working : v[2] = w[2] => v = w
    /\ state[w[2]] = "RUNNING" /\ busy[w[2]]
    /\ step[w[2]] < Len(plan[w[2]]) /\ plan[w[2]][step[w[2]] + 1] = w[3]
    /\ w[2] \in refs[w[1]]

\* A reference leads to a living buffer, however removals, drops and lookups of
\* dying buffers interleave, and a buffer nobody refers to is being destroyed.
ReferencedIsAlive ==
  \A b \in Buffer :
    life[b] = "live" <=> (active[b] # NoUsr \/ \E a \in Actor : b \in refs[a])

\* The registry agrees with the buffers: a living buffer that has an id is found
\* under it, and an entry belongs to the buffer that has its id, until that has
\* been destroyed.
RegistryExact ==
  /\ \A b \in Buffer : life[b] = "live" /\ shareId[b] # NoId => registry[shareId[b]] = b
  /\ \A i \in Id : registry[i] # NoBuffer =>
       shareId[registry[i]] = i /\ life[registry[i]] \in {"live", "dying"}

\* Nothing of the kernel outlives its buffer, whichever step of createBuffer
\* fails, and a buffer has all it needs until its destructor has run.
NothingLeaks ==
  \A b \in Buffer : kernel[b] = IF life[b] = "none" THEN {} ELSE Resource

\* Every buffer in a list can be reached: its VramUsr is in users_ or held, so
\* that removeUsr leaves nothing behind for ever.
ListsAreReachable ==
  \A b \in Buffer : active[b] # NoUsr => active[b] = current \/ Held(active[b])

-----------------------------------------------------------------------------
(* The workflow implements the turns its users see.                        *)

Todo ==
  [b \in Buffer |->
     IF state[b] = "IDLE" THEN <<>> ELSE SubSeq(plan[b], step[b] + 1, Len(plan[b]))]
Holder ==
  [b \in Buffer |->
     IF \E w \in working : w[2] = b THEN (CHOOSE w \in working : w[2] = b)[1] ELSE Nobody]

Turns == INSTANCE BufferTurns WITH todo <- Todo, holder <- Holder

\* Seen by those who share a buffer, the workflow gives it in turns.
ImplementsTurns == Turns!TurnSpec
=============================================================================
