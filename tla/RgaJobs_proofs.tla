----------------------------- MODULE RgaJobs_proofs -----------------------------
(***************************************************************************)
(* The jobs on the buffers of Vram.  Every step of RgaJobs is a step of    *)
(* Vram or leaves its variables alone, so that Vram's invariants hold      *)
(* here; with the references that a running job keeps (FoundIsHeld) they   *)
(* say that the hardware works on living buffers.  That it acts on them as *)
(* the client has called rests on the tables of the messages, which differ *)
(* for every operation, and on what has been found under which id.         *)
(***************************************************************************)
EXTENDS RgaJobs, Vram_proofs

\* A call that has not come to the hardware's end is what its client asked for.
Carried ==
  \A j \in Job : stage[j] \in {"sent", "looking", "running"} =>
    asked[j] \in Request /\ msg[j] = Build(asked[j].op, asked[j].args)

\* What has been found was looked up under an id, and the job refers to it.
FoundIsHeld ==
  \A j \in Job :
    /\ stage[j] \in {"sent", "ended"} => found[j] = <<>>
    /\ stage[j] \in {"looking", "running"} =>
         \A k \in 1..Len(found[j]) : found[j][k] # NoBuffer =>
           found[j][k] \in refs[j] /\ Lookups(msg[j].payload_type, Parse(msg[j]))[k] \in Id

\* The hardware works on the chain of a running job, and on nothing else.
WorksOnChain ==
  \A j \in Job :
    IF j \in hw THEN stage[j] = "running" /\ Len(found[j]) = 3 /\ using[j] = ChainTask(j)
                ELSE using[j] = {}

JobInv ==
  /\ RgaTypeOK
  /\ Carried
  /\ FoundIsHeld
  /\ WorksOnChain
  /\ BuffersLetGo

-----------------------------------------------------------------------------
(* The tables of the messages.                                             *)

\* A table names each of its fields once.
Distinct(t) == \A k, l \in DOMAIN t : t[k] = t[l] => k = l

\* The union, spelt out.
LEMMA Ops ==
  /\ Op = {"Copy", "Rotate", "Fill", "Blend", "Osd", "Resize", "Crop", "Convert", "Flip",
           "Composite", "ColorKey", "Mosaic", "Rectangle", "FillArray", "RectangleArray", "MosaicArray"}
  /\ Table["Copy"] = RgaCopy /\ Table["Rotate"] = RgaRotate /\ Table["Fill"] = RgaFill
  /\ Table["Blend"] = RgaBlend /\ Table["Osd"] = RgaOsd /\ Table["Resize"] = RgaResize
  /\ Table["Crop"] = RgaCrop /\ Table["Convert"] = RgaConvert /\ Table["Flip"] = RgaFlip
  /\ Table["Composite"] = RgaComposite /\ Table["ColorKey"] = RgaColorKey
  /\ Table["Mosaic"] = RgaMosaic /\ Table["Rectangle"] = RgaRectangle
  /\ Table["FillArray"] = RgaFillArray /\ Table["RectangleArray"] = RgaRectangleArray
  /\ Table["MosaicArray"] = RgaMosaicArray
BY DEF Op, Table

\* The tables of all operations do.
LEMMA FieldsDiffer == \A op \in Op : Distinct(Table[op])
<1>1. Distinct(RgaCopy) /\ Distinct(RgaRotate) /\ Distinct(RgaFill) /\ Distinct(RgaBlend)
  BY DEF Distinct, RgaCopy, RgaRotate, RgaFill, RgaBlend
<1>2. Distinct(RgaOsd) /\ Distinct(RgaResize) /\ Distinct(RgaCrop) /\ Distinct(RgaConvert)
  BY DEF Distinct, RgaOsd, RgaResize, RgaCrop, RgaConvert
<1>3. Distinct(RgaFlip) /\ Distinct(RgaComposite) /\ Distinct(RgaColorKey) /\ Distinct(RgaMosaic)
  BY DEF Distinct, RgaFlip, RgaComposite, RgaColorKey, RgaMosaic
<1>4. Distinct(RgaRectangle) /\ Distinct(RgaFillArray) /\ Distinct(RgaRectangleArray) /\ Distinct(RgaMosaicArray)
  BY DEF Distinct, RgaRectangle, RgaFillArray, RgaRectangleArray, RgaMosaicArray
<1> QED
  BY <1>1, <1>2, <1>3, <1>4, Ops

\* A field is found at the slot that it is built into.
LEMMA SlotOf ==
  ASSUME NEW op \in Op, NEW k \in DOMAIN Table[op]
  PROVE  Slot(op, Table[op][k]) = k
BY FieldsDiffer DEF Slot, Distinct

\* A message is parsed into the call it was built from: a field that is not stored
\* had the default.
LEMMA RoundTrip ==
  ASSUME NEW op \in Op, NEW args, DOMAIN args = DOMAIN Table[op]
  PROVE  /\ Build(op, args).payload_type = op
         /\ DOMAIN Parse(Build(op, args)) = DOMAIN Table[op]
         /\ \A k \in DOMAIN Table[op] : Parse(Build(op, args))[k] = args[k]
<1> DEFINE t == Table[op]
           stored == {t[k] : k \in {i \in DOMAIN t : args[i] # 0}}
           load == [f \in stored |-> Arg(op, args, f)]
<1>1. Build(op, args) = [payload_type |-> op, payload |-> load]
  BY DEF Build, ToRgaEnvelope
<1>2. Build(op, args).payload_type = op /\ Build(op, args).payload = load
  BY <1>1
<1>3. ASSUME NEW k \in DOMAIN t
      PROVE  (IF t[k] \in DOMAIN load THEN load[t[k]] ELSE 0) = args[k]
  <2>1. t[k] \in stored <=> args[k] # 0
    BY FieldsDiffer DEF Distinct
  <2>2. Arg(op, args, t[k]) = args[k]
    BY SlotOf DEF Arg
  <2> QED
    BY <2>1, <2>2
<1>4. Parse(Build(op, args)) = [k \in DOMAIN t |-> IF t[k] \in DOMAIN load THEN load[t[k]] ELSE 0]
  BY <1>2 DEF Parse
<1> QED
  BY <1>2, <1>3, <1>4
-----------------------------------------------------------------------------
\* Every step of the composition is a step of Vram, or none.
LEMMA RefinesStep == [RgaNext]_rgaVars => [Next]_vars
<1> SUFFICES ASSUME [RgaNext]_rgaVars PROVE [Next]_vars
  OBVIOUS
<1> USE ActorAssumption
<1>1. CASE UNCHANGED rgaVars
  BY <1>1 DEF rgaVars, vars
<1>2. CASE ThreadStep
  <2>1. CASE RemoveUsr
    BY <2>1 DEF Next
  <2>2. ASSUME NEW a \in Thread, GetOrCreateUsr(a) \/ ReleaseAllBuffers(a) \/ DropUsr(a)
        PROVE  Next
    BY <2>2 DEF Next
  <2>3. ASSUME NEW a \in Thread, NEW i \in Id, GetSharedBuffer(a, i) PROVE Next
    BY <2>3 DEF Next
  <2>4. ASSUME NEW a \in Thread, NEW b \in Buffer, BufferCall(a, b) PROVE Next
    BY <2>4 DEF Next
  <2>5. ASSUME NEW b \in Buffer, DestructorUnshares(b) \/ DestructorFrees(b) PROVE Next
    BY <2>5 DEF Next
  <2> QED
    BY <1>2, <2>1, <2>2, <2>3, <2>4, <2>5 DEF ThreadStep
<1>3. ASSUME NEW j \in Job, LookUp(j) PROVE [Next]_vars
  <2>1. CASE NextId(j) \in Id \ High /\ GetSharedBuffer(j, NextId(j))
    BY <2>1 DEF Next
  <2> QED
    BY <1>3, <2>1 DEF LookUp
<1>4. ASSUME NEW j \in Job, NEW b \in Buffer, LetGo(j, b) PROVE [Next]_vars
  <2>1. BufferCall(j, b)
    BY <1>4 DEF LetGo, BufferCall
  <2> QED
    BY <2>1 DEF Next
<1>5. ASSUME NEW j \in Job, 
             \/ SendRga(j) \/ RequestLost(j) \/ ReplyLost(j) \/ OnRgaResponse(j)
             \/ TakeRequest(j) \/ Submit(j) \/ SubmitRefused(j) \/ Ended(j)
             \/ HardwareEnds(j) \/ FenceEvent(j)
      PROVE  UNCHANGED vars
  BY <1>5 DEF SendRga, RequestLost, ReplyLost, OnRgaResponse, TakeRequest, Submit,
              SubmitRefused, Ended, HardwareEnds, FenceEvent
<1> QED
  BY <1>1, <1>2, <1>3, <1>4, <1>5 DEF RgaNext, ServiceStep

\* The composition is a behaviour of Vram: what the buffers promise to threads
\* they also promise to jobs.
THEOREM ComposesVram == RgaSpec => BuffersAsInVram
<1>1. RgaInit => Init
  BY DEF RgaInit
<1> QED
  BY <1>1, RefinesStep, PTL DEF RgaSpec, BuffersAsInVram, Spec

-----------------------------------------------------------------------------
\* No thread touches the references of a job.
LEMMA ThreadsLeaveJobs ==
  ASSUME TypeOK, ThreadStep, NEW j \in Job
  PROVE  refs'[j] = refs[j]
<1> USE ActorAssumption DEF TypeOK
<1>1. \A a \in Thread : a # j /\ a \in Actor
  OBVIOUS
<1>2. ASSUME NEW a \in Thread, NEW b \in Buffer, BufferCall(a, b) PROVE refs'[j] = refs[j]
  BY <1>1, <1>2 DEF BufferCall, CreateFails, CreateBuffer, GetAvailableBuffer, DropRef, Share,
     Unshare, SetupWorkflow, AddDirtyRect, CancelWorkflow, StartStep, FinishStep, bufVars
<1>3. ASSUME NEW a \in Thread, NEW i \in Id, GetSharedBuffer(a, i) PROVE refs'[j] = refs[j]
  BY <1>1, <1>3 DEF GetSharedBuffer
<1>4. ASSUME NEW a \in Thread, GetOrCreateUsr(a) \/ ReleaseAllBuffers(a) \/ DropUsr(a)
      PROVE  refs' = refs
  BY <1>4 DEF GetOrCreateUsr, ReleaseAllBuffers, DropUsr, bufVars
<1>5. CASE RemoveUsr
  BY <1>5 DEF RemoveUsr
<1>6. ASSUME NEW b \in Buffer, DestructorUnshares(b) \/ DestructorFrees(b) PROVE refs' = refs
  BY <1>6 DEF DestructorUnshares, DestructorFrees
<1> QED
  BY <1>2, <1>3, <1>4, <1>5, <1>6 DEF ThreadStep

\* A lookup for a job, or the end of one of its references, concerns that job
\* alone.
LEMMA JobsLeaveJobs ==
  ASSUME TypeOK, NEW j \in Job, NEW k \in Job, k # j,
         LookUp(j) \/ \E b \in Buffer : LetGo(j, b)
  PROVE  refs'[k] = refs[k]
<1> USE ActorAssumption DEF TypeOK
<1>1. CASE LookUp(j)
  BY <1>1 DEF LookUp, GetSharedBuffer, vars
<1>2. CASE \E b \in Buffer : LetGo(j, b)
  BY <1>2 DEF LetGo, DropRef
<1> QED
  BY <1>1, <1>2

\* The hardware is only given buffers of the step, and no null pointer.
LEMMA TaskUses ==
  ASSUME NEW op, NEW st, NEW u \in Task(op, st)
  PROVE  /\ u.buffer # NoBuffer /\ u.buffer \in {st.src, st.dst, st.pat}
         /\ u.does \in {"read", "write"}
<1>1. \A b, cfg, region, does : u \in Bundled(b, cfg, region, does) =>
        b # NoBuffer /\ u = [buffer |-> b, shape |-> cfg.shape, region |-> region, does |-> does]
  BY DEF Bundled
<1>2. \/ \E cfg, region : u \in Bundled(st.src, cfg, region, "read")
      \/ \E cfg, region : u \in Bundled(st.pat, cfg, region, "read")
      \/ \E cfg, region : u \in Bundled(st.dst, cfg, region, "write")
  BY DEF Task
<1> QED
  BY <1>1, <1>2

\* What the kinds of operations make of what was found and of their configs.
Config(op, args, f) == [shape |-> Shape[Arg(op, args, f)], at |-> Offset[Arg(op, args, f)]]

LEMMA StepIs ==
  ASSUME NEW op, NEW args, NEW s, NEW d, NEW p
  PROVE  LET st == Step(op, args, s, d, p)
         IN /\ op = "Composite" =>
                 /\ st.src = s /\ st.dst = d /\ st.pat = p
                 /\ st.src_cfg = Config(op, args, "fg_cfg") /\ st.pat_cfg = Config(op, args, "bg_cfg")
                 /\ st.dst_cfg = Config(op, args, "dst_cfg")
            /\ op = "ColorKey" =>
                 /\ st.src = s /\ st.dst = d /\ st.pat = NoBuffer
                 /\ st.src_cfg = Config(op, args, "fg_cfg") /\ st.dst_cfg = Config(op, args, "bg_dst_cfg")
            /\ op = "Osd" =>
                 /\ st.src = s /\ st.dst = d /\ st.pat = NoBuffer
                 /\ st.src_cfg = NoConfig /\ st.dst_cfg = Config(op, args, "dst_cfg")
            /\ op \in HasSource \ {"Osd"} =>
                 /\ st.src = s /\ st.dst = d /\ st.pat = NoBuffer
                 /\ st.src_cfg = Config(op, args, "src_cfg") /\ st.dst_cfg = Config(op, args, "dst_cfg")
            /\ op \in OnArray =>
                 /\ st.src = NoBuffer /\ st.dst = d /\ st.pat = NoBuffer
                 /\ st.dst_cfg.shape = Config(op, args, "dst_cfg").shape
                 /\ st.rects = Arg(op, args, "rects")
            /\ op \notin HasSource \cup OnArray \cup {"Composite", "ColorKey"} =>
                 /\ st.src = NoBuffer /\ st.dst = d /\ st.pat = NoBuffer
                 /\ st.dst_cfg = Config(op, args, "dst_cfg")
<1> DEFINE st == Step(op, args, s, d, p)
<1>1. CASE op = "Composite"
  <2>1. st = [Pairwise(s, d, Config(op, args, "fg_cfg"), Config(op, args, "dst_cfg"))
                EXCEPT !.pat = p, !.pat_cfg = Config(op, args, "bg_cfg")]
    BY <1>1 DEF Step, Config, HasSource, OnArray
  <2> QED BY <1>1, <2>1 DEF Pairwise, HasSource, OnArray
<1>2. CASE op = "ColorKey"
  <2>1. st = Pairwise(s, d, Config(op, args, "fg_cfg"), Config(op, args, "bg_dst_cfg"))
    BY <1>2 DEF Step, Config, HasSource, OnArray
  <2> QED BY <1>2, <2>1 DEF Pairwise, HasSource, OnArray
<1>3. CASE op = "Osd"
  <2>1. st = Pairwise(s, d, NoConfig, Config(op, args, "dst_cfg"))
    BY <1>3 DEF Step, Config, HasSource, OnArray
  <2> QED BY <1>3, <2>1 DEF Pairwise, HasSource, OnArray
<1>4. CASE op \in HasSource \ {"Osd"}
  <2>1. op \notin {"Composite", "ColorKey", "Osd"} \cup OnArray BY <1>4 DEF HasSource, OnArray
  <2>2. st = Pairwise(s, d, Config(op, args, "src_cfg"), Config(op, args, "dst_cfg"))
    BY <1>4, <2>1 DEF Step, Config
  <2> QED BY <1>4, <2>1, <2>2 DEF Pairwise
<1>5. CASE op \in OnArray
  <2>1. op \notin {"Composite", "ColorKey", "Osd"} \cup HasSource BY <1>5 DEF HasSource, OnArray
  <2>2. st = [Pairwise(NoBuffer, d, NoConfig, Config(op, args, "dst_cfg"))
                EXCEPT !.dst_cfg.at = Origin, !.rects = Arg(op, args, "rects")]
    BY <1>5, <2>1 DEF Step, Config
  <2> QED BY <1>5, <2>1, <2>2 DEF Pairwise, Config
<1>6. CASE op \notin HasSource \cup OnArray \cup {"Composite", "ColorKey"}
  <2>1. op \notin {"Composite", "ColorKey", "Osd"} /\ op \notin HasSource /\ op \notin OnArray
    BY <1>6 DEF HasSource
  <2>2. st = Pairwise(NoBuffer, d, NoConfig, Config(op, args, "dst_cfg"))
    BY <2>1 DEF Step, Config
  <2> QED BY <1>6, <2>1, <2>2 DEF Pairwise
<1> QED
  BY <1>1, <1>2, <1>3, <1>4, <1>5, <1>6

\* A step has only buffers that it was given.
LEMMA StepHas ==
  ASSUME NEW op, NEW args, NEW s, NEW d, NEW p
  PROVE  \A b \in {Step(op, args, s, d, p).src, Step(op, args, s, d, p).dst,
                   Step(op, args, s, d, p).pat} : b \in {s, d, p, NoBuffer}
<1> DEFINE st == Step(op, args, s, d, p)
<1>1. st.src \in {s, NoBuffer} /\ st.dst = d /\ st.pat \in {p, NoBuffer}
  BY StepIs
<1> QED
  BY <1>1

\* The hardware is only given buffers that were found.
LEMMA ChainUses ==
  ASSUME NEW j, NEW u \in ChainTask(j)
  PROVE  /\ u.buffer \in {found[j][1], found[j][2], found[j][3]} \ {NoBuffer}
         /\ u.does \in {"read", "write"}
BY TaskUses, StepHas DEF ChainTask

\* Every step keeps the jobs' invariant.
LEMMA JobStep == TypeOK /\ JobInv /\ [RgaNext]_rgaVars => JobInv'
<1> SUFFICES ASSUME TypeOK, JobInv, [RgaNext]_rgaVars PROVE JobInv'
  OBVIOUS
<1> USE DEF JobInv, RgaTypeOK, Carried, FoundIsHeld, WorksOnChain, ChainTask, BuffersLetGo, callVars
<1>1. CASE UNCHANGED rgaVars
  BY <1>1 DEF rgaVars, vars, jobVars
<1>2. CASE ThreadStep
  <2>1. UNCHANGED jobVars
    BY <1>2 DEF ThreadStep
  <2>2. \A j \in Job : refs'[j] = refs[j]
    BY <1>2, ThreadsLeaveJobs
  <2> QED
    BY <2>1, <2>2 DEF jobVars
<1>3. ASSUME NEW j \in Job, SendRga(j) PROVE JobInv'
  BY <1>3 DEF SendRga, vars
<1>4. ASSUME NEW j \in Job, RequestLost(j) PROVE JobInv'
  BY <1>4 DEF RequestLost, Forgotten, vars
<1>5. ASSUME NEW j \in Job, ReplyLost(j) \/ OnRgaResponse(j) PROVE JobInv'
  BY <1>5 DEF ReplyLost, OnRgaResponse, vars
<1>6. ASSUME NEW j \in Job, TakeRequest(j) PROVE JobInv'
  BY <1>6 DEF TakeRequest, vars
<1>7. ASSUME NEW j \in Job, LookUp(j) PROVE JobInv'
  <2> DEFINE n == Len(found[j])
             id == Lookups(msg[j].payload_type, Parse(msg[j]))
  <2>1. \A k \in Job \ {j} : refs'[k] = refs[k]
    BY <1>7, JobsLeaveJobs
  <2>2. refs[j] \subseteq refs'[j]
    BY <1>7, ActorAssumption DEF LookUp, GetSharedBuffer, vars, TypeOK
  <2>3. PICK b \in Buffer \cup {NoBuffer} :
          /\ found' = [found EXCEPT ![j] = Append(found[j], b)]
          /\ b # NoBuffer => b \in refs'[j] /\ id[n + 1] \in Id
    BY <1>7, ActorAssumption DEF LookUp, Found, NextId, GetSharedBuffer, TypeOK
  <2>4. found[j] \in Seq(Buffer \cup {NoBuffer})
    OBVIOUS
  <2>5. /\ Append(found[j], b) \in Seq(Buffer \cup {NoBuffer})
        /\ Len(Append(found[j], b)) = n + 1
        /\ Append(found[j], b)[n + 1] = b
        /\ \A k \in 1..n : Append(found[j], b)[k] = found[j][k]
    BY <2>4
  <2>6. n \in Nat
    BY <2>4
  <2>7. \A k \in 1..(n + 1) : Append(found[j], b)[k] # NoBuffer =>
          Append(found[j], b)[k] \in refs'[j] /\ id[k] \in Id
    <3>1. /\ stage[j] = "looking"
          /\ \A k \in 1..n : found[j][k] # NoBuffer => found[j][k] \in refs[j] /\ id[k] \in Id
      BY <1>7 DEF LookUp, LooksUp
    <3>2. \A k \in 1..(n + 1) : k \in 1..n \/ k = n + 1
      BY <2>6
    <3> HIDE DEF JobInv, RgaTypeOK, id, n
    <3> QED
      BY <2>2, <2>3, <2>5, <3>1, <3>2
  <2>8. /\ stage[j] = "looking" /\ j \notin hw
        /\ UNCHANGED <<pending, stage, asked, msg, handles, armed, using, hw, signalled, replies, fault>>
    BY <1>7 DEF LookUp, LooksUp
  <2>9. RgaTypeOK'
    BY <2>3, <2>5, <2>8
  <2>10. Carried' /\ BuffersLetGo'
    BY <2>1, <2>8
  <2>11. FoundIsHeld'
    BY <2>1, <2>3, <2>5, <2>7, <2>8
  <2>12. WorksOnChain'
    BY <2>3, <2>8
  <2> QED
    BY <2>9, <2>10, <2>11, <2>12
<1>8. ASSUME NEW j \in Job, Submit(j) PROVE JobInv'
  <2> USE <1>8 DEF Submit, Chained, vars
  <2>1. \A k \in 1..3 : found[j][k] \in Buffer \cup {NoBuffer}
    <3>1. found[j] \in Seq(Buffer \cup {NoBuffer}) /\ Len(found[j]) = 3
      OBVIOUS
    <3> HIDE DEF RgaTypeOK, WorksOnChain, FoundIsHeld, Carried, JobInv
    <3> QED
      BY <3>1
  <2>2. ASSUME NEW u \in ChainTask(j)
        PROVE  u.buffer \in Buffer /\ u.does \in {"read", "write"}
    <3> HIDE DEF RgaTypeOK, WorksOnChain, FoundIsHeld, Carried, JobInv
    <3>1. u.buffer \in {found[j][1], found[j][2], found[j][3]} \ {NoBuffer}
            /\ u.does \in {"read", "write"}
      BY ChainUses
    <3> QED
      BY <2>1, <3>1
  <2>3. \A k \in Job : using'[k] = IF k = j THEN ChainTask(j) ELSE using[k]
    BY <2>2
  <2> QED
    BY <2>2
<1>9. ASSUME NEW j \in Job, SubmitRefused(j) PROVE JobInv'
  BY <1>9 DEF SubmitRefused, Chained, vars
<1>10. ASSUME NEW j \in Job, NEW b \in Buffer, LetGo(j, b) PROVE JobInv'
  <2>1. UNCHANGED jobVars /\ stage[j] = "ending"
    BY <1>10 DEF LetGo
  <2>2. \A k \in Job \ {j} : refs'[k] = refs[k]
    BY <1>10, JobsLeaveJobs
  <2> QED
    BY <2>1, <2>2 DEF jobVars
<1>11. ASSUME NEW j \in Job, Ended(j) PROVE JobInv'
  BY <1>11 DEF Ended, Forgotten, vars
<1>12. ASSUME NEW j \in Job, HardwareEnds(j) PROVE JobInv'
  BY <1>12 DEF HardwareEnds, vars
<1>13. ASSUME NEW j \in Job, FenceEvent(j) PROVE JobInv'
  BY <1>13 DEF FenceEvent, vars
<1> QED
  BY <1>1, <1>2, <1>3, <1>4, <1>5, <1>6, <1>7, <1>8, <1>9, <1>10, <1>11, <1>12, <1>13
     DEF RgaNext, ServiceStep

\* The jobs' invariant holds throughout.
THEOREM JobInvCorrect == RgaSpec => []JobInv
<1>1. RgaInit => JobInv
  <2> SUFFICES ASSUME RgaInit PROVE JobInv
    OBVIOUS
  <2>1. RgaTypeOK
    <3>1. <<>> \in Seq(Buffer \cup {NoBuffer})
      OBVIOUS
    <3> QED
      BY <3>1 DEF RgaInit, RgaTypeOK
  <2>2. BuffersLetGo
    BY ActorAssumption DEF RgaInit, Init, BuffersLetGo
  <2>3. Carried /\ FoundIsHeld /\ WorksOnChain
    BY DEF RgaInit, Carried, FoundIsHeld, WorksOnChain
  <2> QED
    BY <2>1, <2>2, <2>3 DEF JobInv
<1>2. RgaSpec => []TypeOK
  BY ComposesVram, TypeCorrect, PTL DEF BuffersAsInVram
<1> QED
  BY <1>1, <1>2, JobStep, PTL DEF RgaSpec

\* Client, service and engine keep their types.
THEOREM RgaTypeCorrect == RgaSpec => []RgaTypeOK
<1>1. JobInv => RgaTypeOK
  BY DEF JobInv
<1> QED
  BY <1>1, JobInvCorrect, PTL

\* No step lets a running job out of the hardware, the epoll set or the handles
\* other than by the end of the process.
LEMMA AwaitedStep == RgaTypeOK /\ RunningIsAwaited /\ [RgaNext]_rgaVars => RunningIsAwaited'
<1> SUFFICES ASSUME RgaTypeOK, RunningIsAwaited, [RgaNext]_rgaVars, ~fault'
             PROVE  \A j \in Job : stage'[j] = "running" => j \in handles' /\ j \in armed' /\ j \in hw' \cup signalled'
  BY DEF RunningIsAwaited
<1>1. CASE UNCHANGED jobVars
  BY <1>1 DEF jobVars, RunningIsAwaited
<1>2. ASSUME NEW j \in Job, UNCHANGED <<handles, armed, hw, signalled, fault>>,
             \E g \in {"sent", "looking", "ending", "ended"} : stage' = [stage EXCEPT ![j] = g]
      PROVE  RunningIsAwaited'
  BY <1>2 DEF RunningIsAwaited, RgaTypeOK
<1>3. ASSUME NEW j \in Job, SendRga(j) \/ RequestLost(j) \/ TakeRequest(j) \/ SubmitRefused(j) \/ Ended(j)
      PROVE  RunningIsAwaited'
  BY <1>2, <1>3 DEF SendRga, RequestLost, TakeRequest, SubmitRefused, Ended
<1>4. ASSUME NEW j \in Job, ReplyLost(j) \/ OnRgaResponse(j) \/ LookUp(j) PROVE RunningIsAwaited'
  BY <1>4 DEF ReplyLost, OnRgaResponse, LookUp, RunningIsAwaited
<1>5. ASSUME NEW j \in Job, Submit(j) PROVE RunningIsAwaited'
  BY <1>5 DEF Submit, RunningIsAwaited, RgaTypeOK
<1>6. ASSUME NEW j \in Job, HardwareEnds(j) PROVE RunningIsAwaited'
  BY <1>6 DEF HardwareEnds, RunningIsAwaited
<1>7. ASSUME NEW j \in Job, FenceEvent(j) PROVE FALSE
  BY <1>7 DEF FenceEvent
<1>8. CASE UNCHANGED rgaVars \/ ThreadStep \/ \E j \in Job, b \in Buffer : LetGo(j, b)
  BY <1>1, <1>8 DEF rgaVars, ThreadStep, LetGo
<1> QED
  BY <1>3, <1>4, <1>5, <1>6, <1>7, <1>8 DEF RgaNext, ServiceStep, RunningIsAwaited

\* A running job is waited for and comes to its fence, for any jobs, threads and
\* buffers.
THEOREM RunningIsAwaitedHolds == RgaSpec => []RunningIsAwaited
<1>1. RgaInit => RunningIsAwaited
  BY DEF RgaInit, RunningIsAwaited
<1> QED BY <1>1, AwaitedStep, RgaTypeCorrect, PTL DEF RgaSpec

\* A job that is not being looked up, run or ended refers to no buffer.
THEOREM BuffersLetGoHolds == RgaSpec => []BuffersLetGo
<1>1. JobInv => BuffersLetGo
  BY DEF JobInv
<1> QED
  BY <1>1, JobInvCorrect, PTL

\* The hardware works on living buffers, for any number of threads, jobs and
\* buffers.
THEOREM HardwareUsesLivingHolds == RgaSpec => []HardwareUsesLiving
<1>1. Inv /\ JobInv => HardwareUsesLiving
  <2> SUFFICES ASSUME Inv, JobInv, NEW j \in hw, NEW u \in using[j]
               PROVE  life[u.buffer] = "live" /\ kernel[u.buffer] = Resource
    BY DEF HardwareUsesLiving
  <2>1. j \in Job /\ j \in Actor /\ u.buffer \in Buffer
    BY ActorAssumption DEF JobInv, RgaTypeOK
  <2>2. u.buffer \in {found[j][1], found[j][2], found[j][3]} \ {NoBuffer}
    BY <2>1, ChainUses DEF JobInv, WorksOnChain
  <2>3. u.buffer \in refs[j]
    BY <2>1, <2>2 DEF JobInv, FoundIsHeld, WorksOnChain
  <2>4. life[u.buffer] = "live"
    BY <2>1, <2>3 DEF Inv, ReferencedIsAlive
  <2> QED
    BY <2>1, <2>4 DEF Inv, NothingLeaks
<1>2. RgaSpec => []Inv
  BY ComposesVram, InvCorrect, PTL DEF BuffersAsInVram
<1> QED
  BY <1>1, <1>2, JobInvCorrect, PTL

-----------------------------------------------------------------------------
(* What the hardware does for a call.                                       *)

Fields(op) == {Table[op][k] : k \in DOMAIN Table[op]}
Plain == Op \ ({"Composite", "ColorKey"} \cup HasSource)

\* The fields by which the kinds of operations name their buffers.
LEMMA FieldsOf ==
  /\ {"fg_fd", "bg_fd", "dst_fd", "fg_cfg", "bg_cfg", "dst_cfg"} \subseteq Fields("Composite")
  /\ {"fg_fd", "bg_fd", "fg_cfg", "bg_dst_cfg"} \subseteq Fields("ColorKey")
  /\ \A op \in HasSource : {"src_fd", "dst_fd", "dst_cfg"} \subseteq Fields(op)
  /\ \A op \in HasSource \ {"Osd"} : "src_cfg" \in Fields(op)
  /\ \A op \in Plain : {"dst_fd", "dst_cfg"} \subseteq Fields(op)
  /\ \A op \in OnArray : "rects" \in Fields(op)
<1> DEFINE Has(t, f) == \E k \in DOMAIN t : t[k] = f
<1>1. \A op, f : Has(Table[op], f) => f \in Fields(op)
  BY DEF Fields
<1>2. \A f \in {"fg_fd", "bg_fd", "dst_fd", "fg_cfg", "bg_cfg", "dst_cfg"} : Has(RgaComposite, f)
  BY DEF RgaComposite
<1>3. \A f \in {"fg_fd", "bg_fd", "fg_cfg", "bg_dst_cfg"} : Has(RgaColorKey, f)
  BY DEF RgaColorKey
<1>4. \A f \in {"src_fd", "dst_fd", "dst_cfg"} : /\ Has(RgaCopy, f) /\ Has(RgaRotate, f)
                                                /\ Has(RgaBlend, f) /\ Has(RgaOsd, f)
  BY DEF RgaCopy, RgaRotate, RgaBlend, RgaOsd
<1>5. \A f \in {"src_fd", "dst_fd", "dst_cfg"} : /\ Has(RgaResize, f) /\ Has(RgaCrop, f)
                                                /\ Has(RgaConvert, f) /\ Has(RgaFlip, f)
  BY DEF RgaResize, RgaCrop, RgaConvert, RgaFlip
<1>6. /\ Has(RgaCopy, "src_cfg") /\ Has(RgaRotate, "src_cfg") /\ Has(RgaBlend, "src_cfg")
      /\ Has(RgaResize, "src_cfg") /\ Has(RgaCrop, "src_cfg") /\ Has(RgaConvert, "src_cfg")
      /\ Has(RgaFlip, "src_cfg")
  BY DEF RgaCopy, RgaRotate, RgaBlend, RgaResize, RgaCrop, RgaConvert, RgaFlip
<1>7. \A f \in {"dst_fd", "dst_cfg"} : /\ Has(RgaFill, f) /\ Has(RgaMosaic, f) /\ Has(RgaRectangle, f)
                                      /\ Has(RgaFillArray, f) /\ Has(RgaRectangleArray, f)
                                      /\ Has(RgaMosaicArray, f)
  BY DEF RgaFill, RgaMosaic, RgaRectangle, RgaFillArray, RgaRectangleArray, RgaMosaicArray
<1>12. Has(RgaFillArray, "rects") /\ Has(RgaRectangleArray, "rects") /\ Has(RgaMosaicArray, "rects")
  BY DEF RgaFillArray, RgaRectangleArray, RgaMosaicArray
<1> HIDE DEF Has
<1>8. Plain = {"Fill", "Mosaic", "Rectangle", "FillArray", "RectangleArray", "MosaicArray"}
  BY Ops DEF Plain, HasSource
<1>9. \A op \in HasSource : \A f \in {"src_fd", "dst_fd", "dst_cfg"} : Has(Table[op], f)
  BY <1>4, <1>5, Ops DEF HasSource
<1>10. \A op \in HasSource \ {"Osd"} : Has(Table[op], "src_cfg")
  BY <1>6, Ops DEF HasSource
<1>11. \A op \in Plain : \A f \in {"dst_fd", "dst_cfg"} : Has(Table[op], f)
  BY <1>7, <1>8, Ops
<1>13. \A op \in OnArray : Has(Table[op], "rects")
  BY <1>12, Ops DEF OnArray
<1> QED
  BY <1>1, <1>2, <1>3, <1>9, <1>10, <1>11, <1>13, Ops

\* What the driver is told to do with the buffers s, d and p that the service has
\* found is what the caller of op means by its parameters.
Pairs(ids, s, d, p) == {<<ids[1], s>>, <<ids[2], d>>, <<ids[3], p>>}

Means(op, args, ids, s, d, p, u) ==
  \E f \in Named(op) :
    /\ <<Arg(op, args, f), u.buffer>> \in Pairs(ids, s, d, p)
    /\ u.does = IF f = Target(op) THEN "write" ELSE "read"
    /\ u.shape = IF HasConfig(op, f) THEN Shape[Arg(op, args, Cfg(op, f))] ELSE Unset
    /\ u.region = MeantRegion(op, args, f)

ActsAsCalled(op, args, task, ids, s, d, p) ==
  /\ \A u \in task : Means(op, args, ids, s, d, p, u)
  /\ \A b \in {s, d, p} \ {NoBuffer} : \E u \in task : u.buffer = b

\* What Bundled adds to a task, if it adds anything, is what the caller means by the
\* parameter f.
Meets(op, args, ids, s, d, p, b, cfg, region, does, f) ==
  b # NoBuffer =>
    /\ f \in Named(op) /\ <<Arg(op, args, f), b>> \in Pairs(ids, s, d, p)
    /\ does = IF f = Target(op) THEN "write" ELSE "read"
    /\ cfg.shape = IF HasConfig(op, f) THEN Shape[Arg(op, args, Cfg(op, f))] ELSE Unset
    /\ region = MeantRegion(op, args, f)

LEMMA BundledActs ==
  ASSUME NEW op, NEW args, NEW ids, NEW s, NEW d, NEW p, NEW b, NEW cfg, NEW region, NEW does, NEW f,
         Meets(op, args, ids, s, d, p, b, cfg, region, does, f),
         NEW u \in Bundled(b, cfg, region, does)
  PROVE  Means(op, args, ids, s, d, p, u)
<1>1. b # NoBuffer /\ u = [buffer |-> b, shape |-> cfg.shape, region |-> region, does |-> does]
  BY DEF Bundled
<1> QED
  BY <1>1 DEF Means, Meets

\* The parameter that names the source of an operation that has one.
Source(op) == IF op \in {"Composite", "ColorKey"} THEN "fg_fd" ELSE "src_fd"

\* The operations that are given a rectangle.
OnRect == {"Fill", "Osd", "Mosaic", "Rectangle"}

\* The task of a call, whatever the operation: composition, color key, osd, any
\* other with a source, or one with a target only.
LEMMA TaskActs ==
  ASSUME NEW op \in Op, NEW args, NEW par, NEW s, NEW d, NEW p,
         \A f \in Fields(op) : Arg(op, par, f) = Arg(op, args, f),
         Lookups(op, par)[1] = -1 => s = NoBuffer,
         Lookups(op, par)[3] = -1 => p = NoBuffer
  PROVE  ActsAsCalled(op, args, Task(op, Step(op, par, s, d, p)), Lookups(op, par), s, d, p)
<1> DEFINE ids == Lookups(op, par)
           st == Step(op, par, s, d, p)
           source == IF op = "Crop" THEN Rect(st.src_cfg) ELSE Whole
           target == CASE op \in OnRect -> Rect(st.dst_cfg)
                       [] op \in OnArray -> Rects(st.rects)
                       [] OTHER -> Whole
           M(b, cfg, region, does, f) == Meets(op, args, ids, s, d, p, b, cfg, region, does, f)
           Kind == \/ op = "Composite" \/ op = "ColorKey" \/ op = "Osd"
                   \/ op \in HasSource \ {"Osd"} \/ op \in Plain
<1>0. Kind
  BY DEF Plain
<1>1. \A f \in {"src_fd", "dst_fd", "fg_fd", "bg_fd"} \cap Fields(op) : f \in Named(op)
  BY DEF Named, Fields
<1>2. \A f \in Fields(op) : Config(op, par, f) = Config(op, args, f)
  BY DEF Config
<1>3. M(st.src, st.src_cfg, source, "read", Source(op))
  <2>1. CASE op \in {"Composite", "ColorKey"}
    <3>1. st.src = s /\ st.src_cfg = Config(op, args, "fg_cfg") /\ source = Whole
      BY <2>1, <1>2, StepIs, FieldsOf
    <3>2. "fg_fd" \in Named(op) /\ <<Arg(op, args, "fg_fd"), s>> \in Pairs(ids, s, d, p)
      <4>1. "fg_fd" \in Fields(op) BY <2>1, FieldsOf
      <4>2. ids[1] = Arg(op, par, "fg_fd") BY <2>1 DEF Lookups, HasSource
      <4> QED BY <1>1, <4>1, <4>2 DEF Pairs
    <3>3. HasConfig(op, "fg_fd") /\ Cfg(op, "fg_fd") = "fg_cfg" /\ Target(op) # "fg_fd"
      BY <2>1 DEF HasConfig, Cfg, Target
    <3>4. MeantRegion(op, args, "fg_fd") = Whole
      BY <2>1 DEF MeantRegion, OnArray
    <3>5. Source(op) = "fg_fd" /\ st.src_cfg.shape = Shape[Arg(op, args, "fg_cfg")]
      BY <2>1, <3>1 DEF Source, Config
    <3> HIDE DEF ids, st, source
    <3> QED BY <3>1, <3>2, <3>3, <3>4, <3>5 DEF Meets
  <2>2. CASE op \in HasSource
    <3>1. op \notin {"Composite", "ColorKey"} \cup OnArray BY <2>2 DEF HasSource, OnArray
    <3>2. st.src = s /\ (op = "Osd" => st.src_cfg = NoConfig)
          /\ (op # "Osd" => st.src_cfg = Config(op, args, "src_cfg"))
      BY <2>2, <1>2, StepIs, FieldsOf
    <3>3. "src_fd" \in Named(op) /\ <<Arg(op, args, "src_fd"), s>> \in Pairs(ids, s, d, p)
      BY <2>2, <3>1, <1>1, FieldsOf DEF Lookups, Pairs
    <3>4. Cfg(op, "src_fd") = "src_cfg" /\ Target(op) # "src_fd" /\ Source(op) = "src_fd"
      BY <3>1 DEF Cfg, Target, Source
    <3>5. st.src_cfg.shape = IF HasConfig(op, "src_fd") THEN Shape[Arg(op, args, "src_cfg")] ELSE Unset
      BY <3>2 DEF HasConfig, Config, NoConfig
    <3>6. source = MeantRegion(op, args, "src_fd")
      BY <3>1, <3>2, <3>4 DEF MeantRegion, Config, Rect
    <3> HIDE DEF ids, st, source
    <3> QED BY <3>2, <3>3, <3>4, <3>5, <3>6 DEF Meets
  <2>3. CASE op \in Plain
    <3>1. st.src = NoBuffer
      BY <2>3, StepIs DEF Plain
    <3> QED BY <3>1 DEF Meets
  <2> QED BY <1>0, <2>1, <2>2, <2>3 DEF HasSource
<1>4. M(st.pat, st.pat_cfg, Whole, "read", "bg_fd")
  <2>1. CASE op = "Composite"
    <3>1. st.pat = p /\ st.pat_cfg = Config(op, args, "bg_cfg")
      BY <2>1, <1>2, StepIs, FieldsOf
    <3>2. "bg_fd" \in Named(op) /\ <<Arg(op, args, "bg_fd"), p>> \in Pairs(ids, s, d, p)
      <4>1. "bg_fd" \in Fields(op) BY <2>1, FieldsOf
      <4>2. ids[3] = Arg(op, par, "bg_fd") BY <2>1 DEF Lookups, HasSource
      <4> QED BY <1>1, <4>1, <4>2 DEF Pairs
    <3>3. HasConfig(op, "bg_fd") /\ Cfg(op, "bg_fd") = "bg_cfg" /\ Target(op) # "bg_fd"
      BY <2>1 DEF HasConfig, Cfg, Target
    <3>4. MeantRegion(op, args, "bg_fd") = Whole
      BY <2>1 DEF MeantRegion, OnArray
    <3>5. st.pat_cfg.shape = Shape[Arg(op, args, "bg_cfg")]
      BY <3>1 DEF Config
    <3> HIDE DEF ids, st
    <3> QED BY <3>1, <3>2, <3>3, <3>4, <3>5 DEF Meets
  <2>2. CASE op # "Composite"
    <3>1. st.pat = NoBuffer
      BY <2>2, StepIs
    <3> QED BY <3>1 DEF Meets
  <2> QED BY <2>1, <2>2
<1>5. M(st.dst, st.dst_cfg, target, "write", Target(op))
  <2>1. st.dst = d BY StepIs
  <2>2. CASE op = "ColorKey"
    <3>1. st.dst_cfg = Config(op, args, "bg_dst_cfg") /\ target = Whole
      BY <2>2, <1>2, StepIs, FieldsOf DEF OnArray, OnRect
    <3>2. "bg_fd" \in Named(op) /\ <<Arg(op, args, "bg_fd"), d>> \in Pairs(ids, s, d, p)
      <4>1. "bg_fd" \in Fields(op) BY <2>2, FieldsOf
      <4>2. ids[2] = Arg(op, par, "bg_fd") BY <2>2 DEF Lookups, HasSource
      <4> QED BY <1>1, <4>1, <4>2 DEF Pairs
    <3>3. HasConfig(op, "bg_fd") /\ Cfg(op, "bg_fd") = "bg_dst_cfg" /\ Target(op) = "bg_fd"
      BY <2>2 DEF HasConfig, Cfg, Target
    <3>4. MeantRegion(op, args, "bg_fd") = Whole
      BY <2>2 DEF MeantRegion, OnArray
    <3>5. st.dst_cfg.shape = Shape[Arg(op, args, "bg_dst_cfg")]
      BY <3>1 DEF Config
    <3> HIDE DEF ids, st, target
    <3> QED BY <2>1, <3>1, <3>2, <3>3, <3>4, <3>5 DEF Meets
  <2>3. CASE op # "ColorKey"
    <3>0. {"dst_fd", "dst_cfg"} \subseteq Fields(op)
      BY <2>3, <1>0, FieldsOf DEF HasSource
    <3>1. /\ st.dst_cfg.shape = Config(op, args, "dst_cfg").shape
          /\ op \notin OnArray => st.dst_cfg = Config(op, args, "dst_cfg")
          /\ op \in OnArray => st.rects = Arg(op, args, "rects")
      BY <2>3, <3>0, <1>2, StepIs, FieldsOf
    <3>2. ids[2] = Arg(op, args, "dst_fd")
      BY <2>3, <3>0 DEF Lookups, HasSource
    <3>3. "dst_fd" \in Named(op) /\ <<Arg(op, args, "dst_fd"), d>> \in Pairs(ids, s, d, p)
      BY <3>0, <3>2, <1>1 DEF Pairs
    <3>4. HasConfig(op, "dst_fd") /\ Cfg(op, "dst_fd") = "dst_cfg" /\ Target(op) = "dst_fd"
      BY <2>3 DEF HasConfig, Cfg, Target
    <3>5. target = MeantRegion(op, args, "dst_fd")
      BY <3>1, <3>4 DEF MeantRegion, Config, OnArray, OnRect, Rect
    <3>6. st.dst_cfg.shape = Shape[Arg(op, args, "dst_cfg")]
      BY <3>1 DEF Config
    <3> HIDE DEF ids, st, target
    <3> QED BY <2>1, <3>3, <3>4, <3>5, <3>6 DEF Meets
  <2> QED BY <2>2, <2>3
<1>6. Task(op, st) = Bundled(st.src, st.src_cfg, source, "read")
                       \cup Bundled(st.pat, st.pat_cfg, Whole, "read")
                       \cup Bundled(st.dst, st.dst_cfg, target, "write")
  BY DEF Task, OnRect
<1>7. \A b \in {s, d, p} \ {NoBuffer} : b \in {st.src, st.pat, st.dst}
  <2>1. CASE op = "Composite" BY <2>1, StepIs
  <2>2. CASE op \in HasSource \cup {"ColorKey"}
    <3>1. ids[3] = -1 /\ st.src = s /\ st.dst = d BY <2>2, StepIs DEF Lookups, HasSource
    <3> QED BY <3>1
  <2>3. CASE op \in Plain
    <3>1. op \notin HasSource \cup {"Composite", "ColorKey"} BY <2>3 DEF Plain
    <3>2. ids = <<-1, Arg(op, par, "dst_fd"), -1>> BY <3>1 DEF Lookups
    <3>3. s = NoBuffer /\ p = NoBuffer BY <3>2
    <3>4. st.dst = d BY StepIs
    <3> QED BY <3>3, <3>4
  <2> QED BY <1>0, <2>1, <2>2, <2>3 DEF HasSource
<1>8. \A b, cfg, region, does : b # NoBuffer => \E u \in Bundled(b, cfg, region, does) : u.buffer = b
  BY DEF Bundled
<1> HIDE DEF ids, st, source, target
<1>9. \A u \in Task(op, st) : Means(op, args, ids, s, d, p, u)
  BY <1>3, <1>4, <1>5, <1>6, BundledActs
<1>10. \A b \in {s, d, p} \ {NoBuffer} : \E u \in Task(op, st) : u.buffer = b
  BY <1>6, <1>7, <1>8
<1> QED
  BY <1>9, <1>10 DEF ActsAsCalled, ids, st

\* An argument arrives as it was sent, also if it was not stored.
LEMMA ArgArrives ==
  ASSUME NEW op \in Op, NEW args, DOMAIN args = DOMAIN Table[op]
  PROVE  \A f \in Fields(op) : Arg(op, Parse(Build(op, args)), f) = Arg(op, args, f)
<1> SUFFICES ASSUME NEW k \in DOMAIN Table[op]
             PROVE  Arg(op, Parse(Build(op, args)), Table[op][k]) = Arg(op, args, Table[op][k])
  BY DEF Fields
<1> QED
  BY SlotOf, RoundTrip DEF Arg

\* The hardware does what the client has asked for: its target is written, its
\* sources are read, each in the shape of its own config and where the client means,
\* for every operation, any arguments and any buffers.
THEOREM HardwareActsAsCalledHolds == RgaSpec => []HardwareActsAsCalled
<1>1. JobInv => HardwareActsAsCalled
  <2> SUFFICES ASSUME JobInv, NEW j \in hw
               PROVE  LET op == asked[j].op
                          args == asked[j].args
                      IN /\ \A u \in using[j] : \E f \in Named(op) :
                              /\ <<Arg(op, args, f), u.buffer>> \in Gave(j)
                              /\ u.does = IF f = Target(op) THEN "write" ELSE "read"
                              /\ u.shape = IF HasConfig(op, f) THEN Shape[Arg(op, args, Cfg(op, f))] ELSE Unset
                              /\ u.region = MeantRegion(op, args, f)
                         /\ \A k \in 1..3 : found[j][k] # NoBuffer =>
                              \E u \in using[j] : u.buffer = found[j][k]
    BY DEF HardwareActsAsCalled
  <2> DEFINE op == asked[j].op
             args == asked[j].args
             par == Parse(msg[j])
             ids == Lookups(op, par)
  <2>1. /\ j \in Job /\ stage[j] = "running" /\ Len(found[j]) = 3
        /\ using[j] = ChainTask(j)
        /\ asked[j] \in Request /\ msg[j] = Build(op, args)
    BY DEF JobInv, RgaTypeOK, WorksOnChain, Carried
  <2>2. op \in Op /\ DOMAIN args = DOMAIN Table[op]
    BY <2>1, RequestAssumption
  <2>3. msg[j].payload_type = op
    BY <2>1, <2>2, RoundTrip
  <2>4. \A f \in Fields(op) : Arg(op, par, f) = Arg(op, args, f)
    BY <2>1, <2>2, ArgArrives
  <2>5. \A k \in 1..3 : ids[k] = -1 => found[j][k] = NoBuffer
    BY <2>1, <2>3, IdAssumption DEF JobInv, FoundIsHeld
  <2> HIDE DEF op, args, par
  <2>6. ActsAsCalled(op, args, Task(op, Step(op, par, found[j][1], found[j][2], found[j][3])),
                     ids, found[j][1], found[j][2], found[j][3])
    BY <2>2, <2>4, <2>5, TaskActs
  <2>7. using[j] = Task(op, Step(op, par, found[j][1], found[j][2], found[j][3]))
    BY <2>1, <2>3 DEF ChainTask, par
  <2>8. Gave(j) = {<<ids[k], found[j][k]>> : k \in 1..3}
    BY <2>3 DEF Gave, par
  <2>9. Pairs(ids, found[j][1], found[j][2], found[j][3]) = Gave(j)
    BY <2>8 DEF Pairs
  <2>10. \A u \in using[j] : Means(op, args, ids, found[j][1], found[j][2], found[j][3], u)
    BY <2>6, <2>7 DEF ActsAsCalled
  <2>11. \A k \in 1..3 : found[j][k] # NoBuffer => \E u \in using[j] : u.buffer = found[j][k]
    <3>1. \A k \in 1..3 : k = 1 \/ k = 2 \/ k = 3
      OBVIOUS
    <3> QED
      BY <2>6, <2>7, <3>1 DEF ActsAsCalled
  <2>12. \A u \in using[j] : \E f \in Named(op) :
           /\ <<Arg(op, args, f), u.buffer>> \in Gave(j)
           /\ u.does = IF f = Target(op) THEN "write" ELSE "read"
           /\ u.shape = IF HasConfig(op, f) THEN Shape[Arg(op, args, Cfg(op, f))] ELSE Unset
           /\ u.region = MeantRegion(op, args, f)
    BY <2>9, <2>10 DEF Means
  <2> QED
    BY <2>11, <2>12 DEF op, args
<1> QED
  BY <1>1, JobInvCorrect, PTL

\* An answer is sent for jobs only that the hardware does not work on, whatever of
\* the other jobs it answers, and whichever answers are lost.
THEOREM AnsweredIsOverHolds == RgaSpec => []AnsweredIsOver
<1>1. RgaInit => AnsweredIsOver
  BY DEF RgaInit, AnsweredIsOver
<1>2. JobInv /\ JobInv' /\ AnsweredIsOver /\ [RgaNext]_rgaVars => AnsweredIsOver'
  <2> SUFFICES ASSUME JobInv, JobInv', AnsweredIsOver, [RgaNext]_rgaVars, NEW j \in replies'
               PROVE  stage'[j] \in {"ending", "ended"}
    BY DEF AnsweredIsOver, JobInv, RgaTypeOK, WorksOnChain
  <2> USE DEF JobInv, RgaTypeOK, AnsweredIsOver
  <2>1. j \in Job OBVIOUS
  <2>2. CASE UNCHANGED rgaVars \/ ThreadStep
    BY <2>2 DEF rgaVars, jobVars, callVars, ThreadStep
  <2>3. ASSUME NEW k \in Job, SendRga(k) PROVE stage'[j] \in {"ending", "ended"}
    BY <2>1, <2>3 DEF SendRga
  <2>4. ASSUME NEW k \in Job, RequestLost(k) \/ TakeRequest(k) \/ Submit(k) \/ Ended(k) \/ SubmitRefused(k)
        PROVE  stage'[j] \in {"ending", "ended"}
    BY <2>1, <2>4 DEF RequestLost, TakeRequest, Submit, Ended, SubmitRefused, Chained
  <2>5. ASSUME NEW k \in Job, ReplyLost(k) \/ OnRgaResponse(k) \/ LookUp(k) \/ HardwareEnds(k) \/ FenceEvent(k)
        PROVE  stage'[j] \in {"ending", "ended"}
    BY <2>1, <2>5 DEF ReplyLost, OnRgaResponse, LookUp, HardwareEnds, FenceEvent
  <2>6. ASSUME NEW k \in Job, NEW b \in Buffer, LetGo(k, b) PROVE stage'[j] \in {"ending", "ended"}
    BY <2>1, <2>6 DEF LetGo, jobVars, callVars
  <2> QED
    BY <2>2, <2>3, <2>4, <2>5, <2>6 DEF RgaNext, ServiceStep
<1> QED
  BY <1>1, <1>2, JobInvCorrect, PTL DEF RgaSpec
=============================================================================
