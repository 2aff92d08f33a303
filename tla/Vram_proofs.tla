------------------------------ MODULE Vram_proofs ------------------------------
(***************************************************************************)
(* Vram's invariants, for any number of actors, users, buffers and ids.    *)
(* Together they are inductive, once it is added that no two buffers have  *)
(* one id (IdsUnique): a buffer whose entry a lookup has removed still has *)
(* its id, and its destructor would otherwise erase another's entry.       *)
(***************************************************************************)
EXTENDS Vram, SequenceTheorems, TLAPS

IdsUnique ==
  \A b, c \in Buffer : shareId[b] = shareId[c] /\ shareId[b] # NoId => b = c

Inv ==
  /\ TypeOK
  /\ StepIsExclusive
  /\ ReferencedIsAlive
  /\ RegistryExact /\ IdsUnique
  /\ NothingLeaks
  /\ ListsAreReachable

-----------------------------------------------------------------------------
\* The invariant holds when the provider has just been made.
LEMMA InitInv == Init => Inv
<1> SUFFICES ASSUME Init PROVE Inv
  OBVIOUS
<1> USE DEF Init
<1>1. TypeOK
  BY NullAssumption DEF TypeOK, Resource
<1>2. StepIsExclusive
  BY DEF StepIsExclusive
<1>3. ReferencedIsAlive /\ NothingLeaks /\ ListsAreReachable
  BY DEF ReferencedIsAlive, NothingLeaks, ListsAreReachable
<1>4. RegistryExact /\ IdsUnique
  BY DEF RegistryExact, IdsUnique
<1> QED
  BY <1>1, <1>2, <1>3, <1>4 DEF Inv

\* Losing a reference moves a buffer from live to dying at most.
LEMMA DyingType ==
  ASSUME life \in [Buffer -> {"none", "live", "dying", "unshared"}],
         NEW lists, NEW holders
  PROVE  /\ Dying(lists, holders) \in [Buffer -> {"none", "live", "dying", "unshared"}]
         /\ \A b \in Buffer :
              \/ Dying(lists, holders)[b] = life[b]
              \/ life[b] = "live" /\ Dying(lists, holders)[b] = "dying"
  BY DEF Dying

\* Every step keeps the types.
LEMMA TypeStep == TypeOK /\ [Next]_vars => TypeOK'
<1> SUFFICES ASSUME TypeOK, [Next]_vars PROVE TypeOK'
  OBVIOUS
<1> USE DEF TypeOK, usrVars, ctxVars, bufVars, shareVars, Holds
<1>1. CASE RemoveUsr
  BY <1>1, DyingType DEF RemoveUsr, Cleared
<1>2. ASSUME NEW a \in Actor, GetOrCreateUsr(a) PROVE TypeOK'
  BY <1>2 DEF GetOrCreateUsr
<1>3. ASSUME NEW a \in Actor, ReleaseAllBuffers(a) PROVE TypeOK'
  BY <1>3, DyingType DEF ReleaseAllBuffers, Cleared
<1>4. ASSUME NEW a \in Actor, DropUsr(a) PROVE TypeOK'
  BY <1>4, DyingType DEF DropUsr, Cleared
<1>5. ASSUME NEW a \in Actor, NEW i \in Id, GetSharedBuffer(a, i) PROVE TypeOK'
  <2>1. registry[i] \in Buffer
    BY <1>5 DEF GetSharedBuffer
  <2>2. refs' \in [Actor -> SUBSET Buffer]
    <3>1. CASE UNCHANGED refs
      BY <3>1
    <3>2. CASE refs' = [refs EXCEPT ![a] = @ \cup {registry[i]}]
      BY <2>1, <3>2
    <3> QED
      BY <1>5, <3>1, <3>2 DEF GetSharedBuffer
  <2>3. registry' \in [Id -> Buffer \cup {NoBuffer}]
    BY <1>5 DEF GetSharedBuffer
  <2> QED
    BY <1>5, <2>2, <2>3 DEF GetSharedBuffer
<1>6. ASSUME NEW a \in Actor, NEW b \in Buffer, BufferCall(a, b) PROVE TypeOK'
  <2>1. CASE CreateFails(a, b)
    BY <2>1 DEF CreateFails, Failure, Obtained, Undone, Resource
  <2>2. CASE CreateBuffer(a, b)
    BY <2>2 DEF CreateBuffer, Reset
  <2>3. CASE GetAvailableBuffer(a, b)
    BY <2>3 DEF GetAvailableBuffer
  <2>4. CASE DropRef(a, b)
    BY <2>4, DyingType DEF DropRef
  <2>5. CASE Share(a, b)
    BY <2>5 DEF Share, Registered
  <2>6. CASE Unshare(a, b)
    BY <2>6 DEF Unshare, Unregistered
  <2>7. CASE SetupWorkflow(a, b)
    BY <2>7, PlanAssumption DEF SetupWorkflow
  <2>8. CASE AddDirtyRect(a, b)
    BY <2>8 DEF AddDirtyRect
  <2>9. CASE CancelWorkflow(a, b)
    BY <2>9 DEF CancelWorkflow, Reset
  <2>10. ASSUME NEW t \in Tag, StartStep(a, b, t) PROVE TypeOK'
    BY <2>10 DEF StartStep
  <2>11. ASSUME NEW t \in Tag, FinishStep(a, b, t) PROVE TypeOK'
    BY <2>11 DEF FinishStep
  <2> QED
    BY <1>6, <2>1, <2>2, <2>3, <2>4, <2>5, <2>6, <2>7, <2>8, <2>9, <2>10, <2>11
       DEF BufferCall
<1>7. ASSUME NEW b \in Buffer, DestructorUnshares(b) PROVE TypeOK'
  BY <1>7 DEF DestructorUnshares, Unregistered
<1>8. ASSUME NEW b \in Buffer, DestructorFrees(b) PROVE TypeOK'
  BY <1>8 DEF DestructorFrees
<1>9. CASE UNCHANGED vars
  BY <1>9 DEF vars
<1> QED
  BY <1>1, <1>2, <1>3, <1>4, <1>5, <1>6, <1>7, <1>8, <1>9 DEF Next

-----------------------------------------------------------------------------
\* Where lists and holders lose entries, the life of every buffer follows.
LEMMA DyingAlive ==
  ASSUME TypeOK, ReferencedIsAlive,
         life' = Dying(active', refs'),
         \A b \in Buffer : active'[b] \in {active[b], NoUsr},
         \A a \in Actor : refs'[a] \subseteq refs[a]
  PROVE  ReferencedIsAlive'
<1>1. SUFFICES ASSUME NEW b \in Buffer
               PROVE  life'[b] = "live"
                        <=> (active'[b] # NoUsr \/ \E a \in Actor : b \in refs'[a])
  BY DEF ReferencedIsAlive
<1>2. life'[b] = IF life[b] = "live" /\ active'[b] = NoUsr /\ \A a \in Actor : b \notin refs'[a]
                 THEN "dying" ELSE life[b]
  BY DEF Dying
<1>3. CASE life[b] = "live"
  BY <1>2, <1>3
<1>4. CASE life[b] # "live"
  BY <1>2, <1>4 DEF ReferencedIsAlive
<1> QED
  BY <1>3, <1>4

\* Every step keeps references and lives in agreement.
LEMMA AliveStep ==
  TypeOK /\ ReferencedIsAlive /\ [Next]_vars => ReferencedIsAlive'
<1> SUFFICES ASSUME TypeOK, ReferencedIsAlive, [Next]_vars PROVE ReferencedIsAlive'
  OBVIOUS
<1> USE DEF usrVars, ctxVars, bufVars, shareVars
<1>1. CASE RemoveUsr
  BY <1>1, DyingAlive DEF RemoveUsr, Cleared, TypeOK
<1>2. CASE UNCHANGED <<life, active, refs>>
  BY <1>2 DEF ReferencedIsAlive
<1>3. ASSUME NEW a \in Actor, ReleaseAllBuffers(a) PROVE ReferencedIsAlive'
  BY <1>3, DyingAlive DEF ReleaseAllBuffers, Cleared, TypeOK
<1>4. ASSUME NEW a \in Actor, DropUsr(a) PROVE ReferencedIsAlive'
  BY <1>4, DyingAlive DEF DropUsr, Cleared, TypeOK
<1>5. ASSUME NEW a \in Actor, NEW i \in Id, GetSharedBuffer(a, i) PROVE ReferencedIsAlive'
  <2>1. registry[i] \in Buffer
    BY <1>5 DEF GetSharedBuffer, TypeOK
  <2>2. CASE UNCHANGED refs
    BY <1>2, <1>5, <2>2 DEF GetSharedBuffer
  <2>3. CASE life[registry[i]] = "live" /\ refs' = [refs EXCEPT ![a] = @ \cup {registry[i]}]
    BY <1>5, <2>1, <2>3 DEF GetSharedBuffer, ReferencedIsAlive, TypeOK
  <2> QED
    BY <1>5, <2>2, <2>3 DEF GetSharedBuffer
<1>6. ASSUME NEW a \in Actor, NEW b \in Buffer, CreateBuffer(a, b) PROVE ReferencedIsAlive'
  BY <1>6 DEF CreateBuffer, ReferencedIsAlive, TypeOK
<1>7. ASSUME NEW a \in Actor, NEW b \in Buffer, GetAvailableBuffer(a, b)
      PROVE  ReferencedIsAlive'
  BY <1>7 DEF GetAvailableBuffer, ReferencedIsAlive, TypeOK
<1>8. ASSUME NEW a \in Actor, NEW b \in Buffer, DropRef(a, b) PROVE ReferencedIsAlive'
  BY <1>8, DyingAlive DEF DropRef, TypeOK
<1>9. ASSUME NEW b \in Buffer, DestructorUnshares(b) \/ DestructorFrees(b)
      PROVE  ReferencedIsAlive'
  <2>1. UNCHANGED <<active, refs>> /\ \A c \in Buffer : life'[c] = "live" <=> life[c] = "live"
    BY <1>9 DEF DestructorUnshares, DestructorFrees, TypeOK
  <2> QED
    BY <2>1 DEF ReferencedIsAlive
<1>10. ASSUME NEW a \in Actor, NEW b \in Buffer, BufferCall(a, b) PROVE ReferencedIsAlive'
  <2>1. CASE \/ CreateFails(a, b) \/ Share(a, b) \/ Unshare(a, b)
             \/ SetupWorkflow(a, b) \/ AddDirtyRect(a, b) \/ CancelWorkflow(a, b)
             \/ \E t \in Tag : StartStep(a, b, t) \/ FinishStep(a, b, t)
    <3>1. UNCHANGED <<life, active, refs>>
      BY <2>1 DEF CreateFails, Share, Unshare, SetupWorkflow, AddDirtyRect, CancelWorkflow,
                  StartStep, FinishStep
    <3> QED
      BY <1>2, <3>1
  <2> QED
    BY <1>6, <1>7, <1>8, <1>10, <2>1 DEF BufferCall
<1>11. ASSUME NEW a \in Actor, GetOrCreateUsr(a) PROVE ReferencedIsAlive'
  BY <1>2, <1>11 DEF GetOrCreateUsr
<1>12. CASE UNCHANGED vars
  BY <1>2, <1>12 DEF vars
<1> QED
  BY <1>1, <1>3, <1>4, <1>5, <1>9, <1>10, <1>11, <1>12 DEF Next

-----------------------------------------------------------------------------
\* Every step keeps kernel and lives in agreement.
LEMMA LeakStep == TypeOK /\ NothingLeaks /\ [Next]_vars => NothingLeaks'
<1> SUFFICES ASSUME TypeOK, NothingLeaks, [Next]_vars PROVE NothingLeaks'
  OBVIOUS
<1> USE DEF usrVars, ctxVars, bufVars, shareVars
<1>1. ASSUME UNCHANGED kernel,
             \A b \in Buffer : life'[b] = "none" <=> life[b] = "none"
      PROVE  NothingLeaks'
  BY <1>1 DEF NothingLeaks
<1>2. ASSUME UNCHANGED kernel, life' = Dying(active', refs') PROVE NothingLeaks'
  BY <1>1, <1>2, DyingType DEF TypeOK
<1>3. ASSUME NEW a \in Actor, NEW b \in Buffer, CreateFails(a, b) PROVE NothingLeaks'
  BY <1>3 DEF CreateFails, Failure, Obtained, Undone, NothingLeaks, TypeOK
<1>4. ASSUME NEW a \in Actor, NEW b \in Buffer, CreateBuffer(a, b) PROVE NothingLeaks'
  BY <1>4 DEF CreateBuffer, NothingLeaks, TypeOK
<1>5. ASSUME NEW b \in Buffer, DestructorUnshares(b) PROVE NothingLeaks'
  BY <1>1, <1>5 DEF DestructorUnshares, TypeOK
<1>6. ASSUME NEW b \in Buffer, DestructorFrees(b) PROVE NothingLeaks'
  BY <1>6 DEF DestructorFrees, NothingLeaks, TypeOK
<1>7. CASE RemoveUsr \/ \E a \in Actor : ReleaseAllBuffers(a) \/ DropUsr(a)
  BY <1>2, <1>7 DEF RemoveUsr, ReleaseAllBuffers, DropUsr
<1>8. ASSUME NEW a \in Actor, NEW b \in Buffer, DropRef(a, b) PROVE NothingLeaks'
  BY <1>2, <1>8 DEF DropRef
<1>9. CASE UNCHANGED <<life, kernel>>
  BY <1>1, <1>9
<1>10. ASSUME NEW a \in Actor, NEW b \in Buffer, BufferCall(a, b) PROVE NothingLeaks'
  BY <1>3, <1>4, <1>8, <1>9, <1>10
     DEF BufferCall, GetAvailableBuffer, Share, Unshare, SetupWorkflow, AddDirtyRect,
         CancelWorkflow, StartStep, FinishStep
<1>11. CASE \E a \in Actor : GetOrCreateUsr(a) \/ \E i \in Id : GetSharedBuffer(a, i)
  BY <1>9, <1>11 DEF GetOrCreateUsr, GetSharedBuffer
<1>12. CASE UNCHANGED vars
  BY <1>9, <1>12 DEF vars
<1> QED
  BY <1>5, <1>6, <1>7, <1>10, <1>11, <1>12 DEF Next

-----------------------------------------------------------------------------
\* Every step keeps the lists reachable.
LEMMA ReachStep == TypeOK /\ ListsAreReachable /\ [Next]_vars => ListsAreReachable'
<1> SUFFICES ASSUME TypeOK, ListsAreReachable, [Next]_vars PROVE ListsAreReachable'
  OBVIOUS
<1> USE DEF usrVars, ctxVars, bufVars, shareVars, ListsAreReachable, Held, TypeOK
<1>1. CASE UNCHANGED <<current, usrOf, active>>
  BY <1>1
<1>2. CASE RemoveUsr
  BY <1>2 DEF RemoveUsr, Cleared
<1>3. ASSUME NEW a \in Actor, GetOrCreateUsr(a) PROVE ListsAreReachable'
  BY <1>3, NullAssumption DEF GetOrCreateUsr
<1>4. ASSUME NEW a \in Actor, ReleaseAllBuffers(a) PROVE ListsAreReachable'
  BY <1>4 DEF ReleaseAllBuffers, Cleared
<1>5. ASSUME NEW a \in Actor, DropUsr(a) PROVE ListsAreReachable'
  <2> SUFFICES ASSUME NEW b \in Buffer, active'[b] # NoUsr
               PROVE  active'[b] = current' \/ \E o \in Actor : usrOf'[o] = active'[b]
    OBVIOUS
  <2>1. active'[b] = active[b]
    BY <1>5 DEF DropUsr, Cleared
  <2>2. CASE active[b] = current
    BY <1>5, <2>1, <2>2 DEF DropUsr
  <2>3. CASE active[b] # current
    <3>1. PICK o \in Actor : usrOf[o] = active[b]
      BY <2>1, <2>3
    <3>2. CASE o # a
      BY <1>5, <2>1, <3>1, <3>2 DEF DropUsr
    <3>3. CASE o = a
      BY <1>5, <2>1, <2>3, <3>1, <3>3 DEF DropUsr, Cleared
    <3> QED
      BY <3>2, <3>3
  <2> QED
    BY <2>2, <2>3
<1>6. ASSUME NEW a \in Actor, NEW b \in Buffer, CreateBuffer(a, b) PROVE ListsAreReachable'
  BY <1>6 DEF CreateBuffer
<1>7. ASSUME NEW a \in Actor, NEW b \in Buffer, BufferCall(a, b) PROVE ListsAreReachable'
  BY <1>1, <1>6, <1>7
     DEF BufferCall, CreateFails, GetAvailableBuffer, DropRef, Share, Unshare, SetupWorkflow,
         AddDirtyRect, CancelWorkflow, StartStep, FinishStep
<1>8. CASE \/ \E a \in Actor, i \in Id : GetSharedBuffer(a, i)
           \/ \E b \in Buffer : DestructorUnshares(b) \/ DestructorFrees(b)
           \/ UNCHANGED vars
  BY <1>1, <1>8 DEF GetSharedBuffer, DestructorUnshares, DestructorFrees, vars
<1> QED
  BY <1>2, <1>3, <1>4, <1>5, <1>7, <1>8 DEF Next

-----------------------------------------------------------------------------
Registry == RegistryExact /\ IdsUnique

\* A step that writes neither ids nor registry, and from which buffers die at
\* most, keeps the registry exact.
LEMMA RegistryKept ==
  ASSUME TypeOK, Registry, UNCHANGED shareVars,
         UNCHANGED life \/ life' = Dying(active', refs')
  PROVE  Registry'
<1>1. \A b \in Buffer : life'[b] = life[b] \/ (life[b] = "live" /\ life'[b] = "dying")
  BY DyingType DEF TypeOK
<1>2. RegistryExact'
  BY <1>1 DEF RegistryExact, Registry, shareVars, TypeOK
<1>3. IdsUnique'
  BY DEF IdsUnique, Registry, shareVars
<1> QED
  BY <1>2, <1>3 DEF Registry

\* Where a buffer gives its id back, the registry stays exact.
LEMMA RegistryUnregisters ==
  ASSUME TypeOK, Registry, NEW b \in Buffer, Unregistered(b),
         \A c \in Buffer : c # b => life'[c] = life[c]
  PROVE  Registry'
<1> USE DEF Unregistered, TypeOK
<1>1. /\ shareId'[b] = NoId
      /\ \A c \in Buffer \ {b} : shareId'[c] = shareId[c]
  OBVIOUS
<1>2. \A i \in Id : registry'[i] = IF i = shareId[b] THEN NoBuffer ELSE registry[i]
  OBVIOUS
<1>3. IdsUnique'
  BY <1>1 DEF IdsUnique, Registry
<1>4. ASSUME NEW c \in Buffer, life'[c] = "live", shareId'[c] # NoId
      PROVE  registry'[shareId'[c]] = c
  BY <1>1, <1>2, <1>4 DEF IdsUnique, RegistryExact, Registry
<1>5. ASSUME NEW i \in Id, registry'[i] # NoBuffer
      PROVE  shareId'[registry'[i]] = i /\ life'[registry'[i]] \in {"live", "dying"}
  <2>1. registry'[i] = registry[i] /\ i # shareId[b] /\ registry[i] \in Buffer
    BY <1>2, <1>5
  <2> QED
    BY <1>1, <2>1, <1>5 DEF RegistryExact, Registry
<1> QED
  BY <1>3, <1>4, <1>5 DEF RegistryExact, Registry

\* Every step keeps registry, ids and lives in agreement.
LEMMA RegistryStep ==
  TypeOK /\ ReferencedIsAlive /\ Registry /\ [Next]_vars => Registry'
<1> SUFFICES ASSUME TypeOK, ReferencedIsAlive, Registry, [Next]_vars PROVE Registry'
  OBVIOUS
<1> USE DEF usrVars, ctxVars, bufVars, shareVars
<1>1. ASSUME NEW a \in Actor, NEW b \in Buffer, CreateBuffer(a, b) PROVE Registry'
  <2>1. /\ life[b] = "none" /\ life' = [life EXCEPT ![b] = "live"]
        /\ shareId' = [shareId EXCEPT ![b] = NoId] /\ registry' = registry
    BY <1>1 DEF CreateBuffer
  <2>2. IdsUnique'
    BY <2>1 DEF IdsUnique, Registry, TypeOK
  <2>3. RegistryExact'
    BY <2>1 DEF RegistryExact, Registry, TypeOK
  <2> QED
    BY <2>2, <2>3 DEF Registry
<1>2. ASSUME NEW a \in Actor, NEW b \in Buffer, Share(a, b) PROVE Registry'
  <2>1. PICK i \in Id : Registered(b, i) /\ shareId' = [shareId EXCEPT ![b] = i]
    BY <1>2 DEF Share
  <2>2. life[b] = "live" /\ life' = life
    BY <1>2 DEF Share, Holds, ReferencedIsAlive
  <2>3. shareId'[b] = i /\ \A c \in Buffer \ {b} : shareId'[c] = shareId[c]
    BY <2>1 DEF TypeOK
  <2>4. registry'[i] = b /\ \A j \in Id \ {i} : registry'[j] = registry[j]
    BY <2>1 DEF Registered, TypeOK
  <2>5. IdsUnique'
    BY <2>1, <2>3 DEF IdsUnique, Registry, Registered
  <2>6. ASSUME NEW c \in Buffer, life'[c] = "live", shareId'[c] # NoId
        PROVE  registry'[shareId'[c]] = c
    <3>1. CASE c = b
      BY <2>3, <2>4, <3>1
    <3>2. CASE c # b
      <4>1. shareId[c] \in Id \ {i} /\ shareId'[c] = shareId[c]
        BY <2>1, <2>3, <2>6, <3>2 DEF Registered, TypeOK
      <4> QED
        BY <2>2, <2>4, <2>6, <4>1 DEF RegistryExact, Registry
    <3> QED
      BY <3>1, <3>2
  <2>7. ASSUME NEW j \in Id, registry'[j] # NoBuffer
        PROVE  shareId'[registry'[j]] = j /\ life'[registry'[j]] \in {"live", "dying"}
    <3>1. CASE j = i
      BY <2>2, <2>3, <2>4, <3>1
    <3>2. CASE j # i
      <4>1. registry'[j] = registry[j] /\ registry[j] \in Buffer /\ shareId[registry[j]] = j
        BY <2>4, <2>7, <3>2 DEF RegistryExact, Registry, TypeOK
      <4>2. registry[j] # b
        BY <1>2, <4>1, NullAssumption DEF Share
      <4> QED
        BY <2>2, <2>3, <2>7, <4>1, <4>2 DEF RegistryExact, Registry
    <3> QED
      BY <3>1, <3>2
  <2> QED
    BY <2>5, <2>6, <2>7 DEF RegistryExact, Registry
<1>3. ASSUME NEW a \in Actor, NEW b \in Buffer, Unshare(a, b) PROVE Registry'
  BY <1>3, RegistryUnregisters DEF Unshare
<1>4. ASSUME NEW b \in Buffer, DestructorUnshares(b) PROVE Registry'
  BY <1>4, RegistryUnregisters DEF DestructorUnshares, TypeOK
<1>5. ASSUME NEW b \in Buffer, DestructorFrees(b) PROVE Registry'
  <2>1. /\ life[b] = "unshared" /\ life' = [life EXCEPT ![b] = "none"]
        /\ UNCHANGED shareVars
    BY <1>5 DEF DestructorFrees
  <2>2. RegistryExact'
    BY <2>1 DEF RegistryExact, Registry, TypeOK
  <2> QED
    BY <2>1, <2>2 DEF IdsUnique, Registry
<1>6. ASSUME NEW a \in Actor, NEW i \in Id, GetSharedBuffer(a, i) PROVE Registry'
  <2>1. CASE UNCHANGED registry
    BY <1>6, <2>1, RegistryKept DEF GetSharedBuffer
  <2>2. CASE life[registry[i]] # "live" /\ registry' = [registry EXCEPT ![i] = NoBuffer]
    <3>1. UNCHANGED <<life, shareId>>
      BY <1>6 DEF GetSharedBuffer
    <3>2. RegistryExact'
      BY <2>2, <3>1 DEF RegistryExact, Registry, TypeOK
    <3> QED
      BY <3>1, <3>2 DEF IdsUnique, Registry
  <2> QED
    BY <1>6, <2>1, <2>2 DEF GetSharedBuffer
<1>7. CASE RemoveUsr \/ \E a \in Actor : ReleaseAllBuffers(a) \/ DropUsr(a)
  BY <1>7, RegistryKept DEF RemoveUsr, ReleaseAllBuffers, DropUsr
<1>8. ASSUME NEW a \in Actor, NEW b \in Buffer, DropRef(a, b) PROVE Registry'
  BY <1>8, RegistryKept DEF DropRef
<1>9. CASE UNCHANGED <<life, shareVars>>
  BY <1>9, RegistryKept
<1>10. ASSUME NEW a \in Actor, NEW b \in Buffer, BufferCall(a, b) PROVE Registry'
  BY <1>1, <1>2, <1>3, <1>8, <1>9, <1>10
     DEF BufferCall, CreateFails, GetAvailableBuffer, SetupWorkflow, AddDirtyRect,
         CancelWorkflow, StartStep, FinishStep
<1>11. CASE (\E a \in Actor : GetOrCreateUsr(a)) \/ UNCHANGED vars
  BY <1>9, <1>11 DEF GetOrCreateUsr, vars
<1> QED
  BY <1>4, <1>5, <1>6, <1>7, <1>10, <1>11 DEF Next

-----------------------------------------------------------------------------
\* What a call that leaves workflows alone, and takes no reference from anybody
\* who is in a step, cannot disturb.
LEMMA ExclusiveKept ==
  ASSUME StepIsExclusive, UNCHANGED <<ctxVars, working>>,
         \A w \in working : w[2] \in refs'[w[1]]
  PROVE  StepIsExclusive'
  BY DEF StepIsExclusive, ctxVars

\* A step that changes the workflow of one buffer in which nobody is.
LEMMA ExclusiveElsewhere ==
  ASSUME TypeOK, StepIsExclusive, NEW b \in Buffer, UNCHANGED working,
         \A w \in working : w[2] # b,
         \A w \in working : w[2] \in refs'[w[1]],
         \A c \in Buffer \ {b} : /\ state'[c] = state[c] /\ plan'[c] = plan[c]
                                 /\ step'[c] = step[c] /\ busy'[c] = busy[c]
  PROVE  StepIsExclusive'
<1>1. \A w \in working : w[2] \in Buffer \ {b}
  BY DEF TypeOK
<1> QED
  BY <1>1 DEF StepIsExclusive

\* Every step leaves those who are in a step alone.
LEMMA ExclusiveStep ==
  TypeOK /\ ReferencedIsAlive /\ StepIsExclusive /\ [Next]_vars => StepIsExclusive'
<1> SUFFICES ASSUME TypeOK, ReferencedIsAlive, StepIsExclusive, [Next]_vars
             PROVE  StepIsExclusive'
  OBVIOUS
<1> USE DEF usrVars, bufVars, shareVars
<1>t. \A w \in working : w[1] \in Actor /\ w[2] \in Buffer /\ w[3] \in Tag
                           /\ w = <<w[1], w[2], w[3]>>
  BY DEF TypeOK
<1>r. \A w \in working : w[2] \in refs[w[1]]
  BY DEF StepIsExclusive
<1>1. ASSUME NEW a \in Actor, NEW b \in Buffer, CreateBuffer(a, b) PROVE StepIsExclusive'
  <2>1. \A w \in working : w[2] # b
    BY <1>1, <1>t, <1>r DEF CreateBuffer, ReferencedIsAlive
  <2>2. \A w \in working : w[2] \in refs'[w[1]]
    BY <1>1, <1>t, <1>r DEF CreateBuffer, TypeOK
  <2> QED
    BY <1>1, <2>1, <2>2, ExclusiveElsewhere DEF CreateBuffer, Reset, TypeOK
<1>2. ASSUME NEW a \in Actor, NEW b \in Buffer, GetAvailableBuffer(a, b)
      PROVE  StepIsExclusive'
  <2>1. \A w \in working : w[2] \in refs'[w[1]]
    BY <1>2, <1>t, <1>r DEF GetAvailableBuffer, TypeOK
  <2> QED
    BY <1>2, <2>1, ExclusiveKept DEF GetAvailableBuffer
<1>3. ASSUME NEW a \in Actor, NEW b \in Buffer, DropRef(a, b) PROVE StepIsExclusive'
  <2>1. \A w \in working : w[1] = a => w[2] # b
    BY <1>3, <1>t DEF DropRef
  <2>2. \A w \in working : w[2] \in refs'[w[1]]
    BY <1>3, <1>t, <1>r, <2>1 DEF DropRef, TypeOK
  <2> QED
    BY <1>3, <2>2, ExclusiveKept DEF DropRef
<1>4. ASSUME NEW a \in Actor, NEW i \in Id, GetSharedBuffer(a, i) PROVE StepIsExclusive'
  <2>1. CASE UNCHANGED refs
    BY <1>4, <1>r, <2>1, ExclusiveKept DEF GetSharedBuffer
  <2>2. CASE refs' = [refs EXCEPT ![a] = @ \cup {registry[i]}]
    <3>1. \A w \in working : w[2] \in refs'[w[1]]
      BY <1>t, <1>r, <2>2 DEF TypeOK
    <3> QED
      BY <1>4, <3>1, ExclusiveKept DEF GetSharedBuffer
  <2> QED
    BY <1>4, <2>1, <2>2 DEF GetSharedBuffer
<1>5. ASSUME NEW a \in Actor, NEW b \in Buffer, SetupWorkflow(a, b) PROVE StepIsExclusive'
  <2>1. \A w \in working : w[2] # b
    BY <1>5 DEF SetupWorkflow, StepIsExclusive
  <2> QED
    BY <1>5, <1>r, <2>1, ExclusiveElsewhere DEF SetupWorkflow, TypeOK
<1>6. ASSUME NEW a \in Actor, NEW b \in Buffer, CancelWorkflow(a, b) PROVE StepIsExclusive'
  <2>1. \A w \in working : w[2] # b
    BY <1>6 DEF CancelWorkflow, StepIsExclusive
  <2> QED
    BY <1>6, <1>r, <2>1, ExclusiveElsewhere DEF CancelWorkflow, Reset, TypeOK
<1>7. ASSUME NEW a \in Actor, NEW b \in Buffer, NEW t \in Tag, StartStep(a, b, t)
      PROVE  StepIsExclusive'
  <2>1. \A w \in working : w[2] # b
    BY <1>7 DEF StartStep, StepIsExclusive
  <2>2. /\ working' = working \cup {<<a, b, t>>}
        /\ UNCHANGED <<refs, plan, step>>
        /\ b \in refs[a]
        /\ step[b] < Len(plan[b]) /\ plan[b][step[b] + 1] = t
    BY <1>7 DEF StartStep, Holds
  <2>3. /\ state'[b] = "RUNNING" /\ busy'[b]
        /\ \A c \in Buffer \ {b} : state'[c] = state[c] /\ busy'[c] = busy[c]
    BY <1>7 DEF StartStep, TypeOK
  <2>4. \A w, v \in working' : v[2] = w[2] => v = w
    BY <2>1, <2>2 DEF StepIsExclusive
  <2>5. ASSUME NEW w \in working'
        PROVE  /\ state'[w[2]] = "RUNNING" /\ busy'[w[2]]
               /\ step'[w[2]] < Len(plan'[w[2]]) /\ plan'[w[2]][step'[w[2]] + 1] = w[3]
               /\ w[2] \in refs'[w[1]]
    <3>1. CASE w = <<a, b, t>>
      BY <2>2, <2>3, <3>1
    <3>2. CASE w \in working
      BY <1>t, <2>1, <2>2, <2>3, <3>2 DEF StepIsExclusive
    <3> QED
      BY <2>2, <3>1, <3>2
  <2> QED
    BY <2>4, <2>5 DEF StepIsExclusive
<1>8. ASSUME NEW a \in Actor, NEW b \in Buffer, NEW t \in Tag, FinishStep(a, b, t)
      PROVE  StepIsExclusive'
  <2>1. working' = working \ {<<a, b, t>>} /\ <<a, b, t>> \in working
    BY <1>8 DEF FinishStep
  <2>2. \A w \in working' : w \in working /\ w[2] \in Buffer \ {b}
    BY <1>t, <2>1 DEF StepIsExclusive
  <2>3. \A c \in Buffer \ {b} : /\ state'[c] = state[c] /\ busy'[c] = busy[c]
                                /\ step'[c] = step[c] /\ plan'[c] = plan[c]
    BY <1>8 DEF FinishStep, TypeOK
  <2>4. UNCHANGED refs
    BY <1>8 DEF FinishStep
  <2> QED
    BY <2>2, <2>3, <2>4 DEF StepIsExclusive
<1>9. CASE UNCHANGED <<refs, state, plan, step, busy, working>>
  BY <1>9 DEF StepIsExclusive
<1>10. ASSUME NEW a \in Actor, NEW b \in Buffer, BufferCall(a, b) PROVE StepIsExclusive'
  BY <1>1, <1>2, <1>3, <1>5, <1>6, <1>7, <1>8, <1>9, <1>10
     DEF BufferCall, CreateFails, Share, Unshare, AddDirtyRect, ctxVars
<1>11. CASE \/ RemoveUsr
            \/ \E a \in Actor : GetOrCreateUsr(a) \/ ReleaseAllBuffers(a) \/ DropUsr(a)
            \/ \E b \in Buffer : DestructorUnshares(b) \/ DestructorFrees(b)
            \/ UNCHANGED vars
  BY <1>9, <1>11
     DEF RemoveUsr, GetOrCreateUsr, ReleaseAllBuffers, DropUsr, DestructorUnshares,
         DestructorFrees, vars, ctxVars
<1> QED
  BY <1>4, <1>10, <1>11 DEF Next

-----------------------------------------------------------------------------
\* The invariant holds throughout.
THEOREM InvCorrect == Spec => []Inv
<1>1. Init => Inv
  BY InitInv
<1>2. Inv /\ [Next]_vars => Inv'
  BY TypeStep, ExclusiveStep, AliveStep, RegistryStep, LeakStep, ReachStep DEF Inv, Registry
<1> QED
  BY <1>1, <1>2, PTL DEF Spec

\* Provider, users, buffers and registry keep their types.
THEOREM TypeCorrect == Spec => []TypeOK
<1>1. Inv => TypeOK
  BY DEF Inv
<1> QED
  BY <1>1, InvCorrect, PTL

\* Whoever has started a step is alone in it until he finishes it.
THEOREM StepIsExclusiveHolds == Spec => []StepIsExclusive
<1>1. Inv => StepIsExclusive
  BY DEF Inv
<1> QED
  BY <1>1, InvCorrect, PTL

\* References lead to living buffers.
THEOREM ReferencedIsAliveHolds == Spec => []ReferencedIsAlive
<1>1. Inv => ReferencedIsAlive
  BY DEF Inv
<1> QED
  BY <1>1, InvCorrect, PTL

\* The registry and the buffers agree about ids.
THEOREM RegistryExactHolds == Spec => []RegistryExact
<1>1. Inv => RegistryExact
  BY DEF Inv
<1> QED
  BY <1>1, InvCorrect, PTL

\* Nothing of the kernel outlives its buffer.
THEOREM NothingLeaksHolds == Spec => []NothingLeaks
<1>1. Inv => NothingLeaks
  BY DEF Inv
<1> QED
  BY <1>1, InvCorrect, PTL

\* Every list of buffers can be reached.
THEOREM ListsAreReachableHolds == Spec => []ListsAreReachable
<1>1. Inv => ListsAreReachable
  BY DEF Inv
<1> QED
  BY <1>1, InvCorrect, PTL

-----------------------------------------------------------------------------
(* The workflow implements BufferTurns.                                    *)

\* Holder names whoever is in a step of the buffer, and Nobody otherwise.
LEMMA HolderFacts ==
  TypeOK /\ StepIsExclusive =>
    /\ Holder = [b \in Buffer |-> Holder[b]]
    /\ \A w \in working : Holder[w[2]] = w[1] /\ Holder[w[2]] # Nobody
    /\ \A b \in Buffer : (\A w \in working : w[2] # b) => Holder[b] = Nobody
<1> SUFFICES ASSUME TypeOK, StepIsExclusive
             PROVE  /\ Holder = [b \in Buffer |-> Holder[b]]
                    /\ \A w \in working : Holder[w[2]] = w[1] /\ Holder[w[2]] # Nobody
                    /\ \A b \in Buffer : (\A w \in working : w[2] # b) => Holder[b] = Nobody
  OBVIOUS
<1>1. Holder = [b \in Buffer |-> Holder[b]]
  BY DEF Holder
<1>2. ASSUME NEW w \in working PROVE Holder[w[2]] = w[1] /\ Holder[w[2]] # Nobody
  <2>1. (CHOOSE v \in working : v[2] = w[2]) = w
    BY DEF StepIsExclusive
  <2>2. w[1] \in Actor /\ w[2] \in Buffer
    BY DEF TypeOK
  <2>3. Holder[w[2]] = w[1]
    BY <2>1, <2>2 DEF Holder
  <2> QED
    BY <2>2, <2>3, NullAssumption
<1>3. ASSUME NEW b \in Buffer, \A w \in working : w[2] # b PROVE Holder[b] = Nobody
  BY <1>3 DEF Holder
<1> QED
  BY <1>1, <1>2, <1>3

\* What is left of a plan: all of it, less its first step, or nothing.
LEMMA RestOfPlan ==
  ASSUME NEW p \in Seq(Tag), NEW s \in Nat
  PROVE  /\ SubSeq(p, 1, Len(p)) = p
         /\ s >= Len(p) => SubSeq(p, s + 1, Len(p)) = <<>>
         /\ s < Len(p) => /\ SubSeq(p, s + 1, Len(p)) # <<>>
                          /\ Tail(SubSeq(p, s + 1, Len(p))) = SubSeq(p, s + 2, Len(p))
<1>1. SubSeq(p, 1, Len(p)) = p
  BY SubSeqFull
<1>2. s >= Len(p) => SubSeq(p, s + 1, Len(p)) = <<>>
  BY SubSeqEmpty
<1>3. ASSUME s < Len(p)
      PROVE  /\ SubSeq(p, s + 1, Len(p)) # <<>>
             /\ Tail(SubSeq(p, s + 1, Len(p))) = SubSeq(p, s + 2, Len(p))
  <2>1. s + 1 \in 1 .. Len(p) /\ Len(p) \in (s + 1) .. Len(p) /\ (s + 1) + 1 = s + 2
    BY <1>3
  <2>2. Len(SubSeq(p, s + 1, Len(p))) = Len(p) - s
    BY <2>1, SubSeqProperties
  <2>3. Tail(SubSeq(p, s + 1, Len(p))) = SubSeq(p, (s + 1) + 1, Len(p))
    BY <2>1, HeadTailOfSubSeq
  <2>4. SubSeq(p, s + 1, Len(p)) # <<>>
    <3>1. Len(SubSeq(p, s + 1, Len(p))) # 0 /\ Len(<<>>) = 0
      BY <1>3, <2>2
    <3> QED
      BY <3>1, Zenon
  <2> QED
    BY <2>1, <2>3, <2>4
<1> QED
  BY <1>1, <1>2, <1>3

\* A buffer whose workflow is changed while nobody is in it, and stays free.
LEMMA TurnsOfFree ==
  ASSUME TypeOK, StepIsExclusive, TypeOK', StepIsExclusive', NEW b \in Buffer,
         UNCHANGED working, \A w \in working : w[2] # b,
         \A c \in Buffer \ {b} : /\ state'[c] = state[c] /\ plan'[c] = plan[c]
                                 /\ step'[c] = step[c]
  PROVE  /\ Holder' = Holder /\ Holder[b] = Nobody
         /\ Todo' = [Todo EXCEPT ![b] = Todo'[b]]
<1>1. Holder[b] = Nobody
  BY HolderFacts
<1>2. Holder' = Holder
  BY DEF Holder
<1>3. Todo' = [Todo EXCEPT ![b] = Todo'[b]]
  BY DEF Todo
<1> QED
  BY <1>1, <1>2, <1>3

\* Every step of the workflow is a step of the turns, or none.
LEMMA TurnsStep == Inv /\ Inv' /\ [Next]_vars => [Turns!TurnNext]_(Turns!turnVars)
<1> SUFFICES ASSUME Inv, Inv', [Next]_vars PROVE [Turns!TurnNext]_(Turns!turnVars)
  OBVIOUS
<1> USE DEF usrVars, bufVars, shareVars
<1>i. TypeOK /\ StepIsExclusive /\ ReferencedIsAlive /\ TypeOK' /\ StepIsExclusive'
  BY DEF Inv
<1>h. /\ Holder' = [b \in Buffer |-> Holder'[b]]
      /\ \A w \in working' : Holder'[w[2]] = w[1] /\ Holder'[w[2]] # Nobody
      /\ \A b \in Buffer : (\A w \in working' : w[2] # b) => Holder'[b] = Nobody
  <2>1. (TypeOK /\ StepIsExclusive)' =>
          (/\ Holder = [b \in Buffer |-> Holder[b]]
           /\ \A w \in working : Holder[w[2]] = w[1] /\ Holder[w[2]] # Nobody
           /\ \A b \in Buffer : (\A w \in working : w[2] # b) => Holder[b] = Nobody)'
    BY HolderFacts, PTL
  <2> QED
    BY <1>i, <2>1
<1>t. \A w \in working \cup working' : w[1] \in Actor /\ w[2] \in Buffer
  BY <1>i DEF TypeOK
<1>1. ASSUME NEW a \in Actor, NEW b \in Buffer, CreateBuffer(a, b) \/ CancelWorkflow(a, b)
      PROVE  [Turns!TurnNext]_(Turns!turnVars)
  <2>1. \A w \in working : w[2] # b
    BY <1>1, <1>i, <1>t
       DEF CreateBuffer, CancelWorkflow, StepIsExclusive, ReferencedIsAlive
  <2>2. state'[b] = "IDLE"
    BY <1>1, <1>i DEF CreateBuffer, CancelWorkflow, Reset, TypeOK
  <2>3. \A c \in Buffer \ {b} : /\ state'[c] = state[c] /\ plan'[c] = plan[c]
                                /\ step'[c] = step[c]
    BY <1>1, <1>i DEF CreateBuffer, CancelWorkflow, Reset, TypeOK
  <2>4. Holder' = Holder /\ Holder[b] = Nobody /\ Todo' = [Todo EXCEPT ![b] = Todo'[b]]
    BY <1>1, <1>i, <2>1, <2>3, TurnsOfFree DEF CreateBuffer, CancelWorkflow
  <2>5. Todo'[b] = <<>>
    BY <2>2 DEF Todo
  <2> QED
    BY <2>4, <2>5 DEF Turns!TurnNext, Turns!GivenUp, Turns!Free
<1>2. ASSUME NEW a \in Actor, NEW b \in Buffer, SetupWorkflow(a, b)
      PROVE  [Turns!TurnNext]_(Turns!turnVars)
  <2>1. \A w \in working : w[2] # b
    BY <1>2, <1>i DEF SetupWorkflow, StepIsExclusive
  <2>2. PICK p \in Plan : plan' = [plan EXCEPT ![b] = p]
    BY <1>2 DEF SetupWorkflow
  <2>3. \A c \in Buffer \ {b} : /\ state'[c] = state[c] /\ plan'[c] = plan[c]
                                /\ step'[c] = step[c]
    BY <1>2, <1>i DEF SetupWorkflow, TypeOK
  <2>4. Holder' = Holder /\ Holder[b] = Nobody /\ Todo' = [Todo EXCEPT ![b] = Todo'[b]]
    BY <1>2, <1>i, <2>1, <2>3, TurnsOfFree DEF SetupWorkflow
  <2>5. Todo[b] = <<>>
    BY <1>2 DEF SetupWorkflow, Todo
  <2>6. plan'[b] = p /\ step'[b] = 0 /\ state'[b] = "READY"
    BY <1>2, <1>i, <2>2 DEF SetupWorkflow, TypeOK
  <2>7. Todo'[b] = SubSeq(p, 1, Len(p))
    BY <2>6 DEF Todo
  <2>8. SubSeq(p, 1, Len(p)) = p
    BY PlanAssumption, RestOfPlan
  <2> QED
    BY <2>4, <2>5, <2>7, <2>8 DEF Turns!TurnNext, Turns!Planned, Turns!Free
<1>3. ASSUME NEW a \in Actor, NEW b \in Buffer, NEW t \in Tag, StartStep(a, b, t)
      PROVE  [Turns!TurnNext]_(Turns!turnVars)
  <2>1. \A w \in working : w[2] # b
    BY <1>3, <1>i DEF StartStep, StepIsExclusive
  <2>2. working' = working \cup {<<a, b, t>>}
    BY <1>3 DEF StartStep
  <2>3. Holder[b] = Nobody
    BY <1>i, <2>1, HolderFacts
  <2>4. Holder'[b] = a
    BY <1>h, <2>2
  <2>5. ASSUME NEW c \in Buffer, c # b PROVE Holder'[c] = Holder[c]
    <3>1. CASE \A w \in working : w[2] # c
      BY <1>i, <1>h, <2>2, <2>5, <3>1, HolderFacts
    <3>2. ASSUME NEW w \in working, w[2] = c PROVE Holder'[c] = Holder[c]
      BY <1>i, <1>h, <2>2, <3>2, HolderFacts
    <3> QED
      BY <3>1, <3>2
  <2>6. Holder' = [Holder EXCEPT ![b] = a]
    BY <1>i, <1>h, <2>4, <2>5, HolderFacts
  <2>7. state[b] # "IDLE" /\ step[b] \in Nat /\ plan[b] \in Seq(Tag) /\ step[b] < Len(plan[b])
    BY <1>3, <1>i DEF StartStep, TypeOK
  <2>8. Todo[b] # <<>>
    BY <2>7, RestOfPlan DEF Todo
  <2>9. Todo' = Todo
    <3>1. UNCHANGED <<plan, step>>
      BY <1>3 DEF StartStep
    <3>2. \A c \in Buffer : state'[c] = "IDLE" <=> state[c] = "IDLE"
      BY <1>3, <1>i DEF StartStep, TypeOK
    <3> QED
      BY <3>1, <3>2 DEF Todo
  <2> QED
    BY <2>3, <2>6, <2>8, <2>9 DEF Turns!TurnNext, Turns!Taken, Turns!Free
<1>4. ASSUME NEW a \in Actor, NEW b \in Buffer, NEW t \in Tag, FinishStep(a, b, t)
      PROVE  [Turns!TurnNext]_(Turns!turnVars)
  <2>1. <<a, b, t>> \in working /\ working' = working \ {<<a, b, t>>}
    BY <1>4 DEF FinishStep
  <2>2. \A w \in working' : w[2] # b
    BY <1>i, <2>1 DEF StepIsExclusive
  <2>3. Holder[b] # Nobody
    BY <1>i, <2>1, HolderFacts
  <2>4. Holder'[b] = Nobody
    BY <1>h, <2>2
  <2>5. ASSUME NEW c \in Buffer, c # b PROVE Holder'[c] = Holder[c]
    <3>1. CASE \A w \in working : w[2] # c
      BY <1>i, <1>h, <2>1, <3>1, HolderFacts
    <3>2. ASSUME NEW w \in working, w[2] = c PROVE Holder'[c] = Holder[c]
      <4>1. w \in working'
        BY <2>1, <2>5, <3>2
      <4> QED
        BY <1>i, <1>h, <3>2, <4>1, HolderFacts
    <3> QED
      BY <3>1, <3>2
  <2>6. Holder' = [Holder EXCEPT ![b] = Nobody]
    BY <1>i, <1>h, <2>4, <2>5, HolderFacts
  <2>7. /\ step[b] \in Nat /\ plan[b] \in Seq(Tag) /\ step[b] < Len(plan[b])
        /\ state[b] = "RUNNING"
    BY <1>i, <2>1 DEF StepIsExclusive, TypeOK
  <2>8. /\ step'[b] = step[b] + 1 /\ plan'[b] = plan[b]
        /\ state'[b] = IF step[b] + 1 >= Len(plan[b]) THEN "IDLE" ELSE "RUNNING"
    BY <1>4, <1>i DEF FinishStep, TypeOK
  <2>9. Todo[b] = SubSeq(plan[b], step[b] + 1, Len(plan[b]))
    BY <2>7 DEF Todo
  <2>10. Todo'[b] = SubSeq(plan[b], step[b] + 2, Len(plan[b]))
    <3>1. CASE step[b] + 1 >= Len(plan[b])
      <4>1. Todo'[b] = <<>>
        BY <2>8, <3>1 DEF Todo
      <4> QED
        BY <2>7, <3>1, <4>1, SubSeqEmpty
    <3>2. CASE step[b] + 1 < Len(plan[b])
      <4>1. state'[b] # "IDLE" /\ step'[b] + 1 = step[b] + 2
        BY <2>7, <2>8, <3>2
      <4>2. Todo'[b] = SubSeq(plan'[b], step'[b] + 1, Len(plan'[b]))
        BY <4>1 DEF Todo
      <4> QED
        BY <2>8, <4>1, <4>2
    <3> QED
      BY <2>7, <3>1, <3>2
  <2>11. Todo'[b] = Tail(Todo[b])
    BY <2>7, <2>9, <2>10, RestOfPlan
  <2>12. \A c \in Buffer \ {b} : Todo'[c] = Todo[c]
    BY <1>4, <1>i DEF FinishStep, TypeOK, Todo
  <2>13. Todo' = [Todo EXCEPT ![b] = Tail(@)]
    BY <2>11, <2>12 DEF Todo
  <2> QED
    BY <2>3, <2>6, <2>13 DEF Turns!TurnNext, Turns!Returned, Turns!Free
<1>5. CASE UNCHANGED <<state, plan, step, working>>
  BY <1>5 DEF Turns!turnVars, Todo, Holder
<1>6. ASSUME NEW a \in Actor, NEW b \in Buffer, BufferCall(a, b)
      PROVE  [Turns!TurnNext]_(Turns!turnVars)
  BY <1>1, <1>2, <1>3, <1>4, <1>5, <1>6
     DEF BufferCall, CreateFails, GetAvailableBuffer, DropRef, Share, Unshare, AddDirtyRect,
         ctxVars
<1>7. CASE \/ RemoveUsr
           \/ \E a \in Actor : GetOrCreateUsr(a) \/ ReleaseAllBuffers(a) \/ DropUsr(a)
           \/ \E a \in Actor, i \in Id : GetSharedBuffer(a, i)
           \/ \E b \in Buffer : DestructorUnshares(b) \/ DestructorFrees(b)
           \/ UNCHANGED vars
  BY <1>5, <1>7
     DEF RemoveUsr, GetOrCreateUsr, ReleaseAllBuffers, DropUsr, GetSharedBuffer,
         DestructorUnshares, DestructorFrees, vars, ctxVars
<1> QED
  BY <1>6, <1>7 DEF Next

\* Seen by those who share a buffer, the workflow gives it in turns.
THEOREM Implements == Spec => ImplementsTurns
<1>1. Init => Turns!TurnInit
  BY DEF Init, Turns!TurnInit, Todo, Holder
<1>2. Inv /\ Inv' /\ [Next]_vars => [Turns!TurnNext]_(Turns!turnVars)
  BY TurnsStep
<1> QED
  BY <1>1, <1>2, InvCorrect, PTL DEF Spec, ImplementsTurns, Turns!TurnSpec
=============================================================================
