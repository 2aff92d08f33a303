--------------------------- MODULE ClientMgr_proofs ---------------------------
(***************************************************************************)
(* Theorems about the client manager under any application, and about a   *)
(* service on it.  A working manager has its client because a connection  *)
(* that has succeeded and is not closed is _client's (Current), which      *)
(* holds because one attempt is in flight at a time (OneInFlight).  A      *)
(* service never starts its manager again, so that a further attempt is   *)
(* only made when the last connection has been closed (Closed).            *)
(***************************************************************************)
EXTENDS SysService, TLAPS

FlightOps == {"connecting", "ok", "refused", "nofile"}

OneInFlight ==
  \A a \in Attempt : op[a] \in FlightOps =>
    body = "none" /\ \A b \in Attempt : op[b] \in FlightOps => a = b

Current == \A a \in Attempt : op[a] \in {"connecting", "ok"} /\ ~shut[a] => client = a

Inv == TypeOK /\ OneInFlight /\ Current /\ WorkingHasClient /\ DecisionPending

\* The part of the types that handlers change through Disconnect and KeepClient.
ClientsOK ==
  /\ client \in Attempt \cup {NoClient}
  /\ op \in [Attempt -> OpStates]
  /\ shut \in [Attempt -> BOOLEAN]
  /\ link \in [Attempt -> BOOLEAN]

\* What is left of the types.
RestOK ==
  /\ state \in States
  /\ task \in BOOLEAN
  /\ body \in {"none", "queued", "made"}
  /\ late \in 0..MaxLate
  /\ werr \in [Attempt -> BOOLEAN]
  /\ ping \in BOOLEAN /\ pinging \in BOOLEAN /\ over \in BOOLEAN /\ overdue \in BOOLEAN
  /\ told \in Verdicts
  /\ fault \in {"none", "null"}

LEMMA TypeParts == (TypeOK <=> ClientsOK /\ RestOK) /\ (TypeOK' <=> ClientsOK' /\ RestOK')
BY DEF TypeOK, ClientsOK, RestOK

\* disconnect() keeps the types of the clients.
LEMMA DisconnectType ==
  ASSUME ClientsOK, NEW ops \in [Attempt -> OpStates], Disconnect(ops)
  PROVE  ClientsOK'
<1>1. "aborted" \in OpStates
  BY DEF OpStates
<1>2. op' \in [Attempt -> OpStates]
  BY <1>1 DEF Disconnect
<1> QED BY <1>2 DEF Disconnect, ClientsOK

LEMMA KeepClientType ==
  ASSUME ClientsOK, NEW ops \in [Attempt -> OpStates], KeepClient(ops)
  PROVE  ClientsOK'
BY DEF ClientsOK, KeepClient

LEMMA ReadsOnType ==
  ASSUME ClientsOK, NEW a \in Attempt, NEW stops
  PROVE  ReadsOn(a, stops) \in [Attempt -> OpStates]
BY DEF ReadsOn, ClientsOK, OpStates

\* An operation that has ended.
LEMMA EndedType ==
  ASSUME ClientsOK, NEW a \in Attempt
  PROVE  [op EXCEPT ![a] = "ended"] \in [Attempt -> OpStates]
BY DEF ClientsOK, OpStates

\* What Die and BadError do to clients, state, task, heartbeat and verdict.
LEMMA DieType ==
  ASSUME ClientsOK, RestOK, NEW verdict \in Verdicts, NEW pending \in BOOLEAN,
         NEW ops \in [Attempt -> OpStates], NEW stops, Die(verdict, pending, ops, stops)
  PROVE  /\ ClientsOK'
         /\ state' \in States /\ task' \in BOOLEAN /\ told' \in Verdicts
         /\ ping' \in BOOLEAN /\ over' \in BOOLEAN
<1>1. CASE stops
  BY <1>1, DisconnectType DEF Die, StopsNow, HeartbeatStop, States
<1>2. CASE ~stops
  BY <1>2, KeepClientType DEF Die, HeartbeatStop, States
<1> QED BY <1>1, <1>2

LEMMA BadErrorType ==
  ASSUME ClientsOK, RestOK, NEW ops \in [Attempt -> OpStates], BadError(ops)
  PROVE  /\ ClientsOK'
         /\ state' \in States /\ task' \in BOOLEAN /\ told' \in Verdicts
         /\ ping' \in BOOLEAN /\ over' \in BOOLEAN
<1>1. CASE state = "Working"
  BY <1>1, DisconnectType DEF BadError, HeartbeatStop, Connect, States, RestOK
<1>2. CASE state # "Working"
  BY <1>2, KeepClientType DEF BadError, RestOK, hb
<1> QED BY <1>1, <1>2

\* The variables of manager, heartbeat and clients keep their types.
LEMMA TypeStep == TypeOK /\ [Next]_vars => TypeOK'
<1> SUFFICES ASSUME ClientsOK, RestOK, [Next]_vars PROVE ClientsOK' /\ RestOK'
    BY TypeParts
<1>1. CASE Start
  <2>1. ClientsOK'
    BY <1>1 DEF Start, ClientsOK
  <2>2. RestOK'
    BY <1>1 DEF Start, Connect, RestOK, hb, States, Verdicts
  <2> QED BY <2>1, <2>2
<1>2. CASE Stop
  <2>1. ClientsOK'
    BY <1>2, DisconnectType DEF Stop, StopsNow, ClientsOK
  <2>2. RestOK'
    BY <1>2 DEF Stop, StopsNow, HeartbeatStop, RestOK, States
  <2> QED BY <2>1, <2>2
<1>3. CASE SendMsg
  <2>1. ClientsOK'
    BY <1>3 DEF SendMsg, ClientsOK
  <2>2. werr' \in [Attempt -> BOOLEAN] /\ fault' \in {"none", "null"}
    BY <1>3 DEF SendMsg, Send, RestOK, ClientsOK
  <2>3. RestOK'
    BY <1>3, <2>2 DEF SendMsg, RestOK, hb
  <2> QED BY <2>1, <2>3
<1>4. CASE TaskExpires
  <2>1. ClientsOK'
    BY <1>4 DEF TaskExpires, ClientsOK
  <2>2. late' \in 0..MaxLate
    BY <1>4, MaxLateAssumption DEF TaskExpires, RestOK
  <2>3. RestOK'
    BY <1>4, <2>2 DEF TaskExpires, RestOK, hb
  <2> QED BY <2>1, <2>3
<1>5. CASE Body
  <2>1. ASSUME NEW a \in Attempt, BodyCreates(a) PROVE ClientsOK' /\ RestOK'
    <3>1. ClientsOK'
      BY <2>1 DEF BodyCreates, ClientsOK, OpStates
    <3>2. RestOK'
      BY <2>1 DEF BodyCreates, RestOK, hb
    <3> QED BY <3>1, <3>2
  <2>2. CASE BodyConnects
    <3>1. ClientsOK'
      BY <2>2 DEF BodyConnects, ClientsOK, OpStates
    <3>2. RestOK'
      BY <2>2 DEF BodyConnects, RestOK, hb
    <3> QED BY <3>1, <3>2
  <2> QED BY <1>5, <2>1, <2>2 DEF Body
<1>6. ASSUME NEW stops \in BOOLEAN, Completion(stops) PROVE ClientsOK' /\ RestOK'
  <2>1. op \in [Attempt -> OpStates] /\ {"ConnectionTimeOut", "ReconnectFail"} \subseteq Verdicts
    BY DEF ClientsOK, Verdicts
  <2>2. /\ ClientsOK'
        /\ state' \in States /\ task' \in BOOLEAN /\ told' \in Verdicts
        /\ ping' \in BOOLEAN /\ over' \in BOOLEAN
    <3>1. CASE Connecting
      BY <1>6, <2>1, <3>1, DieType DEF Completion, Connecting
    <3>2. CASE ~Connecting
      BY <1>6, <2>1, <3>2, KeepClientType DEF Completion, Connecting, RestOK, hb
    <3> QED BY <3>1, <3>2
  <2>3. late' \in 0..MaxLate
    BY <1>6, MaxLateAssumption DEF Completion, RestOK
  <2>4. RestOK'
    BY <1>6, <2>2, <2>3 DEF Completion, RestOK
  <2> QED BY <2>2, <2>4
<1>7. ASSUME NEW a \in Attempt, NEW stops \in BOOLEAN, ConnectSucceeds(a, stops)
      PROVE  ClientsOK' /\ RestOK'
  <2>1. PICK certified \in BOOLEAN : Succeeded(a, certified, stops)
    BY <1>7 DEF ConnectSucceeds
  <2>2. /\ ClientsOK'
        /\ state' \in States /\ task' \in BOOLEAN /\ told' \in Verdicts
        /\ ping' \in BOOLEAN /\ over' \in BOOLEAN
    <3>1. CASE ~certified /\ Connecting
      BY <2>1, <3>1, DieType, ReadsOnType DEF Succeeded, Verdicts
    <3>2. CASE ~(~certified /\ Connecting)
      BY <2>1, <3>2, KeepClientType, ReadsOnType
         DEF Succeeded, HeartbeatStart, RestOK, States, hb
    <3> QED BY <3>1, <3>2
  <2>3. RestOK'
    BY <1>7, <2>2 DEF ConnectSucceeds, RestOK
  <2> QED BY <2>2, <2>3
<1>8. ASSUME NEW a \in Attempt, NEW stops \in BOOLEAN, ConnectFails(a, stops)
      PROVE  ClientsOK' /\ RestOK'
  <2> DEFINE ops == [op EXCEPT ![a] = "ended"]
  <2>1. ops \in [Attempt -> OpStates] /\ "NoSuchFileOrDirectory" \in Verdicts /\ task \in BOOLEAN
    BY EndedType DEF Verdicts, RestOK
  <2>2. BadError(ops) \/ NoFileError(ops, stops)
    BY <1>8 DEF ConnectFails
  <2> HIDE DEF ops
  <2>3. /\ ClientsOK'
        /\ state' \in States /\ task' \in BOOLEAN /\ told' \in Verdicts
        /\ ping' \in BOOLEAN /\ over' \in BOOLEAN
    <3>1. CASE BadError(ops)
      BY <2>1, <3>1, BadErrorType
    <3>2. CASE NoFileError(ops, stops) /\ (Connecting \/ state = "Working")
      BY <2>1, <3>2, DieType DEF NoFileError
    <3>3. CASE NoFileError(ops, stops) /\ ~(Connecting \/ state = "Working")
      BY <2>1, <3>3, KeepClientType DEF NoFileError, RestOK, hb
    <3> QED BY <2>2, <3>1, <3>2, <3>3
  <2>4. RestOK'
    BY <1>8, <2>3 DEF ConnectFails, RestOK
  <2> QED BY <2>3, <2>4
<1>9. ASSUME NEW a \in Attempt, NEW stops \in BOOLEAN, MessageArrives(a, stops)
      PROVE  ClientsOK' /\ RestOK'
  <2>1. CASE stops /\ state # "Idle"
    BY <1>9, <2>1, DisconnectType, ReadsOnType
       DEF MessageArrives, StopsNow, HeartbeatStop, RestOK, States
  <2>2. CASE ~(stops /\ state # "Idle")
    BY <1>9, <2>2, KeepClientType, ReadsOnType DEF MessageArrives, RestOK
  <2> QED BY <2>1, <2>2
<1>10. ASSUME NEW a \in Attempt, ConnectCompletes(a) \/ ReadCompletes(a) \/ LinkBreaks(a) \/ OperationEnds(a)
      PROVE  ClientsOK' /\ RestOK'
  <2>1. RestOK'
    BY <1>10 DEF ConnectCompletes, ReadCompletes, LinkBreaks, OperationEnds, RestOK, hb
  <2>2. ASSUME NEW r \in OpStates PROVE [op EXCEPT ![a] = r] \in [Attempt -> OpStates]
    BY <2>2 DEF ClientsOK
  <2>3. CASE ConnectCompletes(a)
    <3>1. PICK r \in {"ok", "refused", "nofile"} :
             op' = [op EXCEPT ![a] = r] /\ link' = [link EXCEPT ![a] = (r = "ok")]
      BY <2>3 DEF ConnectCompletes
    <3>2. r \in OpStates
      BY DEF OpStates
    <3>3. link' \in [Attempt -> BOOLEAN]
      BY <3>1 DEF ClientsOK
    <3> QED BY <2>1, <2>2, <2>3, <3>1, <3>2, <3>3 DEF ConnectCompletes, ClientsOK
  <2>4. CASE ReadCompletes(a)
    <3>1. PICK r \in {"msg", "eof", "error"} : op' = [op EXCEPT ![a] = r]
      BY <2>4 DEF ReadCompletes
    <3>2. r \in OpStates
      BY DEF OpStates
    <3> QED BY <2>1, <2>2, <2>4, <3>1, <3>2 DEF ReadCompletes, ClientsOK
  <2>5. CASE LinkBreaks(a)
    BY <2>1, <2>5 DEF LinkBreaks, ClientsOK
  <2>6. CASE OperationEnds(a)
    BY <2>1, <2>6, EndedType DEF OperationEnds, ClientsOK
  <2> QED BY <1>10, <2>3, <2>4, <2>5, <2>6
<1>11. ASSUME NEW a \in Attempt, ReadFails(a) PROVE ClientsOK' /\ RestOK'
  BY <1>11, BadErrorType, EndedType DEF ReadFails, RestOK
<1>12. ASSUME NEW a \in Attempt, WriteFails(a) PROVE ClientsOK' /\ RestOK'
  <2>1. op \in [Attempt -> OpStates] /\ BadError(op)
    BY <1>12 DEF WriteFails, ClientsOK
  <2>2. werr' \in [Attempt -> BOOLEAN]
    BY <1>12 DEF WriteFails, RestOK
  <2> QED BY <1>12, <2>1, <2>2, BadErrorType DEF WriteFails, RestOK
<1>13. CASE PingExpires \/ OverTimeExpires \/ OverTime
  <2>1. ClientsOK'
    BY <1>13 DEF PingExpires, OverTimeExpires, OverTime, ClientsOK
  <2>2. RestOK'
    BY <1>13 DEF PingExpires, OverTimeExpires, OverTime, HeartbeatStop, RestOK
  <2> QED BY <2>1, <2>2
<1>14. CASE PingIsSent
  <2>1. ClientsOK'
    BY <1>14 DEF PingIsSent, ClientsOK
  <2>2. werr' \in [Attempt -> BOOLEAN] /\ fault' \in {"none", "null"}
    BY <1>14 DEF PingIsSent, Send, RestOK, ClientsOK
  <2>3. RestOK'
    BY <1>14, <2>2 DEF PingIsSent, RestOK, hb
  <2> QED BY <2>1, <2>3
<1>15. CASE UNCHANGED vars
  BY <1>15 DEF vars, hb, ClientsOK, RestOK
<1> QED
  BY <1>1, <1>2, <1>3, <1>4, <1>5, <1>6, <1>7, <1>8, <1>9, <1>10, <1>11, <1>12, <1>13, <1>14,
     <1>15 DEF Next, Handler, AnyCompletion

-----------------------------------------------------------------------------
(* The invariant.                                                          *)

LEMMA InitInv == Init => Inv
<1> SUFFICES ASSUME Init PROVE Inv
  OBVIOUS
<1>1. ClientsOK
  BY DEF Init, ClientsOK, OpStates
<1>2. RestOK
  <2>1. 0 \in 0..MaxLate
    BY MaxLateAssumption
  <2> QED BY <2>1 DEF Init, RestOK, States, Verdicts
<1>3. OneInFlight /\ Current
  BY DEF Init, OneInFlight, FlightOps, Current
<1>4. WorkingHasClient /\ DecisionPending
  BY DEF Init, WorkingHasClient, DecisionPending, Connecting
<1> QED BY <1>1, <1>2, <1>3, <1>4, TypeParts DEF Inv

\* A step in which attempts only leave their flight, and in which _client lets
\* go of a connection only by closing it.
Fades ==
  /\ body' = body
  /\ \A a \in Attempt : op'[a] \in FlightOps => op'[a] = op[a]
  /\ \A a \in Attempt : shut[a] => shut'[a]
  /\ \A a \in Attempt : op'[a] \in FlightOps /\ a = client => a = client' \/ shut'[a]

LEMMA FadesKeep ==
  ASSUME OneInFlight, Current, Fades
  PROVE  OneInFlight' /\ Current'
<1>1. OneInFlight'
  BY DEF OneInFlight, Fades
<1>2. Current'
  <2> SUFFICES ASSUME NEW a \in Attempt, op'[a] \in {"connecting", "ok"}, ~shut'[a]
               PROVE  client' = a
    BY DEF Current
  <2>1. op'[a] \in FlightOps
    BY DEF FlightOps
  <2>2. op'[a] = op[a] /\ ~shut[a]
    BY <2>1 DEF Fades
  <2> QED BY <2>1, <2>2 DEF Fades, Current
<1> QED BY <1>1, <1>2

\* Disconnect and KeepClient fade, whatever handler they belong to.
LEMMA HandlerFades ==
  ASSUME ClientsOK, NEW ops \in [Attempt -> OpStates],
         \A a \in Attempt : ops[a] \in FlightOps => ops[a] = op[a],
         Disconnect(ops) \/ KeepClient(ops), body' = body
  PROVE  Fades
<1>1. CASE Disconnect(ops)
  <2>1. \A a \in Attempt : op'[a] = (IF a = client /\ ops[a] \in {"connecting", "reading"}
                                     THEN "aborted" ELSE ops[a])
    BY <1>1 DEF Disconnect
  <2>2. \A a \in Attempt : shut'[a] = (shut[a] \/ a = client)
    BY <1>1 DEF Disconnect
  <2>3. "aborted" \notin FlightOps
    BY DEF FlightOps
  <2> QED BY <2>1, <2>2, <2>3 DEF Fades
<1>2. CASE KeepClient(ops)
  BY <1>2 DEF KeepClient, Fades
<1> QED BY <1>1, <1>2

\* The operations that handlers leave.
LEMMA EndedFades ==
  ASSUME ClientsOK, NEW a \in Attempt, NEW b \in Attempt,
         [op EXCEPT ![a] = "ended"][b] \in FlightOps
  PROVE  [op EXCEPT ![a] = "ended"][b] = op[b]
BY DEF ClientsOK, FlightOps

LEMMA ReadsOnFades ==
  ASSUME ClientsOK, NEW a \in Attempt, NEW stops, NEW b \in Attempt,
         ReadsOn(a, stops)[b] \in FlightOps
  PROVE  ReadsOn(a, stops)[b] = op[b]
<1>1. ReadsOn(a, stops)[b] = IF b = a THEN IF shut[a] \/ (stops /\ a = client) THEN "badf" ELSE "reading"
                             ELSE op[b]
  BY DEF ClientsOK, ReadsOn
<1> QED BY <1>1 DEF FlightOps

\* What users of the manager see is kept by a step that leaves it as it is.
LEMMA SeenKept ==
  ASSUME WorkingHasClient, DecisionPending, state' = state, client' = client,
         task => task' \/ late' > 0, late > 0 => late' > 0
  PROVE  WorkingHasClient' /\ DecisionPending'
BY DEF WorkingHasClient, DecisionPending, Connecting

\* Die keeps the invariant, whether the application stops in it or not.
LEMMA DieKeeps ==
  ASSUME Inv, NEW verdict, NEW pending, NEW ops \in [Attempt -> OpStates], NEW stops,
         \A a \in Attempt : ops[a] \in FlightOps => ops[a] = op[a],
         Die(verdict, pending, ops, stops), body' = body
  PROVE  OneInFlight' /\ Current' /\ WorkingHasClient' /\ DecisionPending'
<1>1. Disconnect(ops) \/ KeepClient(ops)
  BY DEF Die, StopsNow
<1>2. OneInFlight' /\ Current'
  BY <1>1, HandlerFades, FadesKeep, TypeParts DEF Inv
<1>3. state' \in {"Idle", "Dead"}
  BY DEF Die, StopsNow
<1> QED BY <1>2, <1>3 DEF WorkingHasClient, DecisionPending, Connecting

LEMMA BadErrorKeeps ==
  ASSUME Inv, NEW ops \in [Attempt -> OpStates],
         \A a \in Attempt : ops[a] \in FlightOps => ops[a] = op[a],
         BadError(ops), body' = body, late' = late
  PROVE  OneInFlight' /\ Current' /\ WorkingHasClient' /\ DecisionPending'
<1>1. Disconnect(ops) \/ KeepClient(ops)
  BY DEF BadError
<1>2. OneInFlight' /\ Current'
  BY <1>1, HandlerFades, FadesKeep, TypeParts DEF Inv
<1>3. CASE state = "Working"
  BY <1>2, <1>3 DEF BadError, Connect, WorkingHasClient, DecisionPending, Connecting
<1>4. CASE state # "Working"
  BY <1>2, <1>4, SeenKept DEF BadError, KeepClient, Inv, hb
<1> QED BY <1>3, <1>4

\* One step for every action that touches operations, client or decision.
LEMMA InvStep == Inv /\ [Next]_vars => Inv'
<1> SUFFICES ASSUME Inv, [Next]_vars
             PROVE  OneInFlight' /\ Current' /\ WorkingHasClient' /\ DecisionPending'
  BY TypeStep DEF Inv
<1>0. ClientsOK /\ RestOK /\ op \in [Attempt -> OpStates] /\ late \in Nat
  BY TypeParts, MaxLateAssumption DEF Inv, ClientsOK, RestOK
<1>1. CASE Start
  <2>1. Fades
    BY <1>1 DEF Start, Fades
  <2> QED BY <1>1, <2>1, FadesKeep
          DEF Start, Connect, Inv, WorkingHasClient, DecisionPending, Connecting
<1>2. CASE Stop
  <2>1. Fades
    BY <1>0, <1>2, HandlerFades DEF Stop, StopsNow
  <2>2. state' = "Idle"
    BY <1>2 DEF Stop, StopsNow
  <2> QED BY <2>1, <2>2, FadesKeep DEF Inv, WorkingHasClient, DecisionPending, Connecting
<1>3. CASE SendMsg \/ PingExpires \/ PingIsSent \/ OverTimeExpires \/ OverTime \/ UNCHANGED vars
  <2>1. UNCHANGED <<state, task, body, late, client, op, shut>>
    BY <1>3 DEF SendMsg, PingExpires, PingIsSent, OverTimeExpires, OverTime, vars
  <2>2. Fades
    BY <2>1 DEF Fades
  <2> QED BY <2>1, <2>2, FadesKeep, SeenKept DEF Inv
<1>4. CASE TaskExpires
  <2>1. \A a \in Attempt : op[a] \notin FlightOps
    BY <1>4 DEF TaskExpires, InFlight, FlightOps
  <2>2. OneInFlight' /\ Current'
    BY <1>4, <2>1 DEF TaskExpires, OneInFlight, Current, Inv
  <2>3. late' > 0
    BY <1>0, <1>4 DEF TaskExpires
  <2> QED BY <1>4, <2>2, <2>3, SeenKept DEF TaskExpires, Inv
<1>5. ASSUME NEW a \in Attempt, BodyCreates(a)
      PROVE  OneInFlight' /\ Current' /\ WorkingHasClient' /\ DecisionPending'
  <2>1. \A b \in Attempt : op[b] \notin FlightOps
    BY <1>5 DEF BodyCreates, OneInFlight, Inv
  <2>2. \A b \in Attempt : op'[b] = IF b = a THEN "made" ELSE op[b]
    BY <1>0, <1>5 DEF BodyCreates
  <2>3. \A b \in Attempt : op'[b] \notin FlightOps
    BY <2>1, <2>2 DEF FlightOps
  <2>4. OneInFlight' /\ Current'
    BY <2>3 DEF OneInFlight, Current, FlightOps
  <2> QED BY <1>5, <2>4, NoClientAssumption
          DEF BodyCreates, Inv, WorkingHasClient, DecisionPending, Connecting
<1>6. CASE BodyConnects
  <2>1. UNCHANGED <<state, task, late, client, shut>> /\ body' = "none"
    BY <1>6 DEF BodyConnects
  <2>2. \A b \in Attempt : op[b] \notin FlightOps
    BY <1>6 DEF BodyConnects, OneInFlight, Inv
  <2>3. \A b \in Attempt : op'[b] \in FlightOps => b = client
    <3>1. CASE client = NoClient
      BY <1>6, <2>2, <3>1 DEF BodyConnects
    <3>2. CASE client # NoClient
      BY <1>0, <1>6, <2>2, <3>2 DEF BodyConnects
    <3> QED BY <3>1, <3>2
  <2>4. OneInFlight' /\ Current'
    BY <2>1, <2>3 DEF OneInFlight, Current, FlightOps
  <2> QED BY <2>1, <2>4, SeenKept DEF Inv
<1>7. ASSUME NEW stops \in BOOLEAN, Completion(stops)
      PROVE  OneInFlight' /\ Current' /\ WorkingHasClient' /\ DecisionPending'
  <2>1. body' = body
    BY <1>7 DEF Completion
  <2>2. CASE Connecting
    <3>1. \E verdict : Die(verdict, FALSE, op, stops)
      BY <1>7, <2>2 DEF Completion, Connecting
    <3> QED BY <1>0, <2>1, <3>1, DieKeeps
  <2>3. CASE ~Connecting
    <3>1. KeepClient(op) /\ state' = state
      BY <1>7, <2>3 DEF Completion, Connecting
    <3>2. Fades
      BY <1>0, <2>1, <3>1, HandlerFades
    <3> QED BY <2>3, <3>1, <3>2, FadesKeep
            DEF KeepClient, Inv, WorkingHasClient, DecisionPending, Connecting
  <2> QED BY <2>2, <2>3
<1>8. ASSUME NEW a \in Attempt, ConnectCompletes(a)
      PROVE  OneInFlight' /\ Current' /\ WorkingHasClient' /\ DecisionPending'
  <2>1. PICK r \in {"ok", "refused", "nofile"} : op' = [op EXCEPT ![a] = r]
    BY <1>8 DEF ConnectCompletes
  <2>2. \A b \in Attempt : op'[b] = IF b = a THEN r ELSE op[b]
    BY <1>0, <2>1
  <2>3. UNCHANGED <<state, task, body, late, client, shut>> /\ op[a] = "connecting"
    BY <1>8 DEF ConnectCompletes
  <2>4. \A b \in Attempt : op'[b] \in FlightOps => op[b] \in FlightOps
    BY <2>2, <2>3 DEF FlightOps
  <2>5. OneInFlight'
    BY <2>3, <2>4 DEF OneInFlight, Inv
  <2>6. Current'
    BY <2>2, <2>3 DEF Current, Inv
  <2> QED BY <2>3, <2>5, <2>6, SeenKept DEF Inv
<1>9. ASSUME NEW a \in Attempt, ReadCompletes(a) \/ LinkBreaks(a) \/ OperationEnds(a)
      PROVE  OneInFlight' /\ Current' /\ WorkingHasClient' /\ DecisionPending'
  <2>1. UNCHANGED <<state, task, body, late, client, shut>>
    BY <1>9 DEF ReadCompletes, LinkBreaks, OperationEnds
  <2>2. \E r \in {"msg", "eof", "error", "ended"} : op' = [op EXCEPT ![a] = r] \/ op' = op
    BY <1>9 DEF ReadCompletes, LinkBreaks, OperationEnds
  <2>3. Fades
    BY <1>0, <2>1, <2>2 DEF Fades, FlightOps
  <2> QED BY <2>1, <2>3, FadesKeep, SeenKept DEF Inv
<1>10. ASSUME NEW a \in Attempt, NEW stops \in BOOLEAN, ConnectSucceeds(a, stops)
       PROVE  OneInFlight' /\ Current' /\ WorkingHasClient' /\ DecisionPending'
  <2>1. PICK certified \in BOOLEAN :
           (certified => ~shut[a]) /\ Succeeded(a, certified, stops)
    BY <1>0, <1>10 DEF ConnectSucceeds, ClientsOK
  <2>2. body' = body /\ late' = late /\ op[a] = "ok"
    BY <1>10 DEF ConnectSucceeds
  <2>3. CASE ~certified /\ Connecting
    <3>1. Die("CertificationError", FALSE, ReadsOn(a, stops), stops)
      BY <2>1, <2>3 DEF Succeeded
    <3>2. /\ ReadsOn(a, stops) \in [Attempt -> OpStates]
          /\ \A b \in Attempt : ReadsOn(a, stops)[b] \in FlightOps => ReadsOn(a, stops)[b] = op[b]
      BY <1>0, ReadsOnType, ReadsOnFades
    <3> QED BY <2>2, <3>1, <3>2, DieKeeps
  <2>4. CASE ~(~certified /\ Connecting)
    <3>1. KeepClient(ReadsOn(a, FALSE)) /\ state' = IF Connecting THEN "Working" ELSE state
      BY <2>1, <2>4 DEF Succeeded
    <3>2. Fades
      <4>1. /\ ReadsOn(a, FALSE) \in [Attempt -> OpStates]
            /\ \A b \in Attempt : ReadsOn(a, FALSE)[b] \in FlightOps => ReadsOn(a, FALSE)[b] = op[b]
        BY <1>0, ReadsOnType, ReadsOnFades
      <4> QED BY <1>0, <2>2, <3>1, <4>1, HandlerFades
    <3>3. Connecting => client = a
      BY <2>1, <2>2, <2>4 DEF Current, Inv
    <3>4. WorkingHasClient'
      BY <3>1, <3>3, NoClientAssumption DEF KeepClient, WorkingHasClient, Inv
    <3>5. DecisionPending'
      BY <3>1 DEF DecisionPending, Connecting
    <3> QED BY <3>2, <3>4, <3>5, FadesKeep DEF Inv
  <2> QED BY <2>3, <2>4
<1>11. ASSUME NEW a \in Attempt, NEW stops \in BOOLEAN, ConnectFails(a, stops)
       PROVE  OneInFlight' /\ Current' /\ WorkingHasClient' /\ DecisionPending'
  <2> DEFINE ops == [op EXCEPT ![a] = "ended"]
  <2>1. ops \in [Attempt -> OpStates] /\ \A b \in Attempt : ops[b] \in FlightOps => ops[b] = op[b]
    BY <1>0, EndedType, EndedFades
  <2>2. (BadError(ops) \/ NoFileError(ops, stops)) /\ body' = body /\ late' = late
    BY <1>11 DEF ConnectFails
  <2> HIDE DEF ops
  <2>3. CASE BadError(ops)
    BY <2>1, <2>2, <2>3, BadErrorKeeps
  <2>4. CASE NoFileError(ops, stops) /\ (Connecting \/ state = "Working")
    BY <2>1, <2>2, <2>4, DieKeeps DEF NoFileError
  <2>5. CASE NoFileError(ops, stops) /\ ~(Connecting \/ state = "Working")
    <3>1. KeepClient(ops) /\ UNCHANGED <<state, task>>
      BY <2>5 DEF NoFileError
    <3>2. Fades
      BY <1>0, <2>1, <2>2, <3>1, HandlerFades
    <3> QED BY <2>2, <3>1, <3>2, FadesKeep, SeenKept DEF KeepClient, Inv
  <2> QED BY <2>2, <2>3, <2>4, <2>5
<1>12. ASSUME NEW a \in Attempt, NEW stops \in BOOLEAN, MessageArrives(a, stops)
       PROVE  OneInFlight' /\ Current' /\ WorkingHasClient' /\ DecisionPending'
  <2>1. body' = body /\ late' = late
    BY <1>12 DEF MessageArrives
  <2>2. CASE stops /\ state # "Idle"
    <3>1. Disconnect(ReadsOn(a, TRUE)) /\ state' = "Idle"
      BY <1>12, <2>2 DEF MessageArrives, StopsNow
    <3>2. Fades
      <4>1. /\ ReadsOn(a, TRUE) \in [Attempt -> OpStates]
            /\ \A b \in Attempt : ReadsOn(a, TRUE)[b] \in FlightOps => ReadsOn(a, TRUE)[b] = op[b]
        BY <1>0, ReadsOnType, ReadsOnFades
      <4> QED BY <1>0, <2>1, <3>1, <4>1, HandlerFades
    <3> QED BY <3>1, <3>2, FadesKeep DEF Inv, WorkingHasClient, DecisionPending, Connecting
  <2>3. CASE ~(stops /\ state # "Idle")
    <3>1. KeepClient(ReadsOn(a, FALSE)) /\ UNCHANGED <<state, task>>
      BY <1>12, <2>3 DEF MessageArrives
    <3>2. Fades
      <4>1. /\ ReadsOn(a, FALSE) \in [Attempt -> OpStates]
            /\ \A b \in Attempt : ReadsOn(a, FALSE)[b] \in FlightOps => ReadsOn(a, FALSE)[b] = op[b]
        BY <1>0, ReadsOnType, ReadsOnFades
      <4> QED BY <1>0, <2>1, <3>1, <4>1, HandlerFades
    <3> QED BY <2>1, <3>1, <3>2, FadesKeep, SeenKept DEF KeepClient, Inv
  <2> QED BY <2>2, <2>3
<1>13. ASSUME NEW a \in Attempt, ReadFails(a) \/ WriteFails(a)
       PROVE  OneInFlight' /\ Current' /\ WorkingHasClient' /\ DecisionPending'
  <2>1. body' = body /\ late' = late /\ (BadError([op EXCEPT ![a] = "ended"]) \/ BadError(op))
    BY <1>13 DEF ReadFails, WriteFails
  <2> QED BY <1>0, <2>1, BadErrorKeeps, EndedType, EndedFades
<1> QED
  BY <1>1, <1>2, <1>3, <1>4, <1>5, <1>6, <1>7, <1>8, <1>9, <1>10, <1>11, <1>12, <1>13
     DEF Next, Handler, AnyCompletion, Body

\* The inductive invariant holds throughout, for any application.
THEOREM InvCorrect == Spec => []Inv
<1>1. Init => Inv
  BY InitInv
<1>2. Inv /\ [Next]_vars => Inv'
  BY InvStep
<1> QED BY <1>1, <1>2, PTL DEF Spec

\* Manager, heartbeat and clients keep their types, for any client objects and
\* any bound on completion callbacks.
THEOREM TypeCorrect == Spec => []TypeOK
BY InvCorrect, PTL DEF Inv

\* A working manager has a client for sendmsg to dereference, whatever pool,
\* loop and application do, and however many objects are stale.
THEOREM WorkingHasClientHolds == Spec => []WorkingHasClient
BY InvCorrect, PTL DEF Inv

\* A connecting manager has a task or a completion callback that will decide.
THEOREM DecisionPendingHolds == Spec => []DecisionPending
BY InvCorrect, PTL DEF Inv

-----------------------------------------------------------------------------
(* The manager is a connection of ConnectionLife.                          *)

\* Nothing is left of the attempts once one has made the manager work.
Clear ==
  state = "Working" => body = "none" /\ ~task /\ \A a \in Attempt : op[a] \notin FlightOps

\* No verdict has been given on a connection that is sought or works.
Undecided == Connecting \/ state = "Working" => told = "none"

LifeInv == Clear /\ Undecided

LifeStep == [Life!LifeNext]_(Life!lifeVars)

\* A step that leaves state and verdict, and starts no attempt while it works.
LEMMA Idles ==
  ASSUME LifeInv, UNCHANGED <<state, told>>,
         state = "Working" =>
           /\ body' = "none" /\ ~task'
           /\ \A a \in Attempt : op'[a] \in FlightOps => op[a] \in FlightOps
  PROVE  LifeInv' /\ LifeStep
<1>1. Clear'
  BY DEF LifeInv, Clear
<1>2. Undecided'
  BY DEF LifeInv, Undecided, Connecting
<1> QED BY <1>1, <1>2 DEF LifeInv, LifeStep, Life!lifeVars

\* Stop, in the interface or in a handler.
LEMMA Leaves ==
  ASSUME NEW ops, state # "Idle", StopsNow(ops), told' = told
  PROVE  LifeInv' /\ LifeStep
BY DEF StopsNow, LifeInv, Clear, Undecided, Connecting, LifeStep, Life!LifeNext, Life!Leave

\* The fatal branch of handleError, for a connection that is being sought.
LEMMA GivesUp ==
  ASSUME LifeInv, Connecting, NEW verdict \in Life!Verdict, NEW pending, NEW ops, NEW stops,
         Die(verdict, pending, ops, stops)
  PROVE  LifeInv' /\ LifeStep
<1>1. state' \in {"Dead", "Idle"} /\ told' = verdict
  BY DEF Die, StopsNow
<1>2. told = "none" /\ state \in {"Starting", "Reconnecting"}
  BY DEF LifeInv, Undecided, Connecting
<1>3. LifeInv'
  BY <1>1 DEF LifeInv, Clear, Undecided, Connecting
<1> QED BY <1>1, <1>2, <1>3 DEF LifeStep, Life!LifeNext, Life!GiveUp

\* The other branch, in a handler that starts no attempt.
LEMMA Loses ==
  ASSUME LifeInv, NEW ops, BadError(ops), body' = body,
         \A a \in Attempt : ops[a] \in FlightOps => ops[a] = op[a]
  PROVE  LifeInv' /\ LifeStep
<1>1. CASE state = "Working"
  <2>1. state' = "Reconnecting" /\ told' = told
    BY <1>1 DEF BadError
  <2>2. LifeInv'
    BY <1>1, <2>1 DEF LifeInv, Clear, Undecided, Connecting
  <2> QED BY <1>1, <2>1, <2>2 DEF LifeStep, Life!LifeNext, Life!Lose
<1>2. CASE state # "Working"
  BY <1>2, Idles DEF BadError
<1> QED BY <1>1, <1>2

\* Every step of the manager is one of a connection, or leaves it as it is.
LEMMA ConnectionStep == Inv /\ LifeInv /\ [Next]_vars => LifeInv' /\ LifeStep
<1> SUFFICES ASSUME Inv, LifeInv, [Next]_vars PROVE LifeInv' /\ LifeStep
  OBVIOUS
<1>0. ClientsOK /\ OneInFlight
  BY TypeParts DEF Inv
<1>1. CASE Start
  <2>1. state = "Idle" /\ state' = "Starting" /\ told' = "none"
    BY <1>1 DEF Start
  <2>2. LifeInv'
    BY <2>1 DEF LifeInv, Clear, Undecided
  <2> QED BY <2>1, <2>2 DEF LifeStep, Life!LifeNext, Life!Begin
<1>2. CASE Stop
  BY <1>2, Leaves DEF Stop
<1>3. CASE SendMsg \/ PingExpires \/ PingIsSent \/ OverTimeExpires \/ OverTime
  <2>1. UNCHANGED <<state, told, body, task, op>>
    BY <1>3 DEF SendMsg, PingExpires, PingIsSent, OverTimeExpires, OverTime
  <2> QED BY <2>1, Idles DEF LifeInv, Clear
<1>4. CASE TaskExpires \/ Body
  <2>1. UNCHANGED <<state, told>> /\ (task \/ body # "none")
    BY <1>4 DEF TaskExpires, Body, BodyCreates, BodyConnects
  <2> QED BY <2>1, Idles DEF LifeInv, Clear
<1>5. ASSUME NEW stops \in BOOLEAN, Completion(stops) PROVE LifeInv' /\ LifeStep
  <2>1. CASE state = "Starting"
    BY <1>5, <2>1, GivesUp DEF Completion, Connecting, Life!Verdict
  <2>2. CASE state = "Reconnecting"
    BY <1>5, <2>2, GivesUp DEF Completion, Connecting, Life!Verdict
  <2>3. CASE ~Connecting
    <3>1. UNCHANGED <<state, told, body, op>> /\ ~task'
      BY <1>5, <2>3 DEF Completion, Connecting, KeepClient
    <3> QED BY <3>1, Idles DEF LifeInv, Clear
  <2> QED BY <2>1, <2>2, <2>3 DEF Connecting
<1>6. ASSUME NEW a \in Attempt, ConnectCompletes(a) PROVE LifeInv' /\ LifeStep
  <2>1. UNCHANGED <<state, told>> /\ op[a] \in FlightOps
    BY <1>6 DEF ConnectCompletes, FlightOps
  <2> QED BY <2>1, Idles DEF LifeInv, Clear
<1>7. ASSUME NEW a \in Attempt, ReadCompletes(a) \/ LinkBreaks(a) \/ OperationEnds(a)
      PROVE  LifeInv' /\ LifeStep
  <2>1. UNCHANGED <<state, told, body, task>>
    BY <1>7 DEF ReadCompletes, LinkBreaks, OperationEnds
  <2>2. op' = op \/ \E r \in {"msg", "eof", "error", "ended"} : op' = [op EXCEPT ![a] = r]
    BY <1>7 DEF ReadCompletes, LinkBreaks, OperationEnds
  <2>3. \A b \in Attempt : op'[b] \in FlightOps => op[b] \in FlightOps
    BY <1>0, <2>2 DEF ClientsOK, FlightOps
  <2> QED BY <2>1, <2>3, Idles DEF LifeInv, Clear
<1>8. ASSUME NEW a \in Attempt, NEW stops \in BOOLEAN, ConnectSucceeds(a, stops)
      PROVE  LifeInv' /\ LifeStep
  <2>1. PICK certified \in BOOLEAN : Succeeded(a, certified, stops)
    BY <1>8 DEF ConnectSucceeds
  <2>2. op[a] = "ok" /\ op[a] \in FlightOps /\ state # "Working"
    BY <1>8 DEF ConnectSucceeds, FlightOps, LifeInv, Clear
  <2>3. CASE ~certified /\ Connecting
    BY <2>1, <2>3, GivesUp DEF Succeeded, Life!Verdict
  <2>4. CASE ~Connecting
    <3>1. UNCHANGED <<state, told>>
      BY <2>1, <2>4 DEF Succeeded
    <3> QED BY <2>2, <3>1, Idles
  <2>5. CASE certified /\ Connecting
    <3>1. state' = "Working" /\ told' = told /\ ~task' /\ op' = ReadsOn(a, FALSE)
      BY <2>1, <2>5 DEF Succeeded, KeepClient
    <3>2. body' = "none"
      BY <1>0, <1>8, <2>2 DEF ConnectSucceeds, OneInFlight
    <3>3. ASSUME NEW b \in Attempt, op'[b] \in FlightOps PROVE FALSE
      <4>1. op[b] \in FlightOps
        BY <1>0, <3>1, <3>3, ReadsOnFades
      <4>2. a = b
        BY <1>0, <2>2, <4>1 DEF OneInFlight
      <4>3. op'[a] \in {"badf", "reading"}
        BY <1>0, <3>1 DEF ReadsOn, ClientsOK
      <4> QED BY <3>3, <4>2, <4>3 DEF FlightOps
    <3>4. LifeInv'
      BY <2>5, <3>1, <3>2, <3>3 DEF LifeInv, Clear, Undecided, Connecting
    <3>5. Life!Establish
      BY <2>5, <3>1 DEF Life!Establish, Connecting
    <3> QED BY <3>4, <3>5 DEF LifeStep, Life!LifeNext
  <2> QED BY <2>3, <2>4, <2>5
<1>9. ASSUME NEW a \in Attempt, NEW stops \in BOOLEAN, ConnectFails(a, stops)
      PROVE  LifeInv' /\ LifeStep
  <2> DEFINE ops == [op EXCEPT ![a] = "ended"]
  <2>1. \A b \in Attempt : ops[b] \in FlightOps => ops[b] = op[b]
    BY <1>0, EndedFades
  <2>2. state # "Working" /\ body' = body
    BY <1>9 DEF ConnectFails, FlightOps, LifeInv, Clear
  <2>3. BadError(ops) \/ NoFileError(ops, stops)
    BY <1>9 DEF ConnectFails
  <2> HIDE DEF ops
  <2>4. CASE BadError(ops)
    BY <2>1, <2>2, <2>4, Loses
  <2>5. CASE NoFileError(ops, stops) /\ Connecting
    BY <2>5, GivesUp DEF NoFileError, Life!Verdict
  <2>6. CASE NoFileError(ops, stops) /\ ~Connecting
    BY <2>2, <2>6, Idles DEF NoFileError
  <2> QED BY <2>3, <2>4, <2>5, <2>6
<1>10. ASSUME NEW a \in Attempt, NEW stops \in BOOLEAN, MessageArrives(a, stops)
      PROVE  LifeInv' /\ LifeStep
  <2>1. CASE stops /\ state # "Idle"
    BY <1>10, <2>1, Leaves DEF MessageArrives
  <2>2. CASE ~(stops /\ state # "Idle")
    <3>1. UNCHANGED <<state, told, task, body>> /\ op' = ReadsOn(a, FALSE)
      BY <1>10, <2>2 DEF MessageArrives, KeepClient
    <3>2. \A b \in Attempt : op'[b] \in FlightOps => op[b] \in FlightOps
      BY <1>0, <3>1, ReadsOnFades
    <3> QED BY <3>1, <3>2, Idles DEF LifeInv, Clear
  <2> QED BY <2>1, <2>2
<1>11. ASSUME NEW a \in Attempt, ReadFails(a) \/ WriteFails(a) PROVE LifeInv' /\ LifeStep
  <2>1. body' = body /\ (BadError([op EXCEPT ![a] = "ended"]) \/ BadError(op))
    BY <1>11 DEF ReadFails, WriteFails
  <2> QED BY <1>0, <2>1, Loses, EndedFades
<1>12. CASE UNCHANGED vars
  <2>1. UNCHANGED <<state, told, body, task, op>>
    BY <1>12 DEF vars
  <2> QED BY <2>1, Idles DEF LifeInv, Clear
<1> QED
  BY <1>1, <1>2, <1>3, <1>4, <1>5, <1>6, <1>7, <1>8, <1>9, <1>10, <1>11, <1>12
     DEF Next, Handler, AnyCompletion

\* Whatever attempts, errors and late completions come in between, the manager
\* gives up only a connection it seeks, with the verdict that is due, and once.
THEOREM ImplementsConnectionHolds == Spec => ImplementsConnection
<1>1. Init => LifeInv /\ Life!LifeInit
  BY DEF Init, LifeInv, Clear, Undecided, Connecting, Life!LifeInit
<1>2. Inv /\ LifeInv /\ [Next]_vars => LifeInv' /\ [Life!LifeNext]_(Life!lifeVars)
  BY ConnectionStep DEF LifeStep
<1> QED BY <1>1, <1>2, InvCorrect, PTL DEF Spec, ImplementsConnection, Life!LifeSpec

-----------------------------------------------------------------------------
(* A service.                                                              *)

\* What a service does to its manager an application may do.
LEMMA ServiceStep == [SvcNext]_svcAll => [Next]_vars
<1> SUFFICES ASSUME SvcNext PROVE [Next]_vars
  BY DEF svcAll
<1>1. CASE StartService \/ InitClientMgr
  BY <1>1 DEF StartService, InitClientMgr, Next
<1>2. CASE StopOnLoop \/ StopElsewhere
  BY <1>2 DEF StopOnLoop, StopElsewhere, Next
<1>3. CASE SendMsg
  BY <1>3 DEF Next
<1>4. CASE ManagerStep
  BY <1>4 DEF ManagerStep, Next, Handler
<1>5. CASE Decision
  BY <1>5 DEF Decision, Next, Handler, AnyCompletion
<1>6. ASSUME NEW a \in Attempt, OtherMessage(a) \/ ControlMessage(a) PROVE [Next]_vars
  BY <1>6 DEF OtherMessage, ControlMessage, Next, Handler
<1> QED BY <1>1, <1>2, <1>3, <1>4, <1>5, <1>6 DEF SvcNext

\* A service is an application of its manager: what holds of the manager under
\* any application holds of the manager of a service.
THEOREM ServiceIsApplication == SvcSpec => Spec
<1>1. SvcInit => Init
  BY DEF SvcInit
<1> QED BY <1>1, ServiceStep, PTL DEF SvcSpec, Spec

OpenOps == {"connecting", "ok", "reading", "msg"}
Open(a) == op[a] \in OpenOps /\ ~shut[a]
Quiet == \A a \in Attempt : ~Open(a)

\* Before its manager is made there is nothing.
Unmade ==
  manager # "made" =>
    state = "Idle" /\ told = "none" /\ ~task /\ body = "none" /\ \A a \in Attempt : op[a] = "ended"

\* Nothing is under way when an attempt is planned, or not needed.
Rested ==
  /\ task \/ state = "Working" => body = "none" /\ \A a \in Attempt : op[a] \notin FlightOps
  /\ state = "Working" => ~task

\* The next attempt is made when the last connection has been closed.
Closed == task \/ body = "queued" => Quiet

Mine == \A a \in Attempt : Open(a) => client = a

SvcInv == Inv /\ Unmade /\ Rested /\ Closed /\ Mine /\ GivenUpIsStopped

LEMMA SvcInitInv == SvcInit => SvcInv
BY InitInv
   DEF SvcInit, Init, SvcInv, Unmade, Rested, Closed, Quiet, Open, OpenOps, FlightOps, Mine,
       GivenUpIsStopped

\* Disconnect closes the one connection; KeepClient adds none.
LEMMA DisconnectQuiets ==
  ASSUME ClientsOK, Mine, NEW ops \in [Attempt -> OpStates],
         \A a \in Attempt : ops[a] \in OpenOps /\ ~shut[a] => op[a] \in OpenOps,
         Disconnect(ops)
  PROVE  Quiet' /\ Mine'
<1>1. Quiet'
  <2> SUFFICES ASSUME NEW a \in Attempt, Open(a)' PROVE FALSE
    BY DEF Quiet
  <2>1. ~shut[a] /\ a # client /\ op'[a] = ops[a]
    BY DEF Open, Disconnect, ClientsOK
  <2> QED BY <2>1 DEF Open, Mine
<1> QED BY <1>1 DEF Quiet, Mine

LEMMA KeepClientKeeps ==
  ASSUME Mine, NEW ops,
         \A a \in Attempt : ops[a] \in OpenOps /\ ~shut[a] => op[a] \in OpenOps,
         KeepClient(ops)
  PROVE  Mine' /\ (Quiet => Quiet')
BY DEF KeepClient, Mine, Quiet, Open

LEMMA EndedOpens ==
  ASSUME ClientsOK, NEW a \in Attempt, NEW b \in Attempt, [op EXCEPT ![a] = "ended"][b] \in OpenOps
  PROVE  op[b] \in OpenOps
BY DEF ClientsOK, OpenOps

LEMMA ReadsOnOpens ==
  ASSUME ClientsOK, NEW a \in Attempt, op[a] \in OpenOps, NEW stops, NEW b \in Attempt,
         ReadsOn(a, stops)[b] \in OpenOps
  PROVE  op[b] \in OpenOps
<1>1. b # a => ReadsOn(a, stops)[b] = op[b]
  BY DEF ClientsOK, ReadsOn
<1> QED BY <1>1

\* What a handler does that only loses operations and plans.
Ebbs ==
  /\ Fades
  /\ Mine' /\ (Quiet => Quiet')
  /\ task' => task
  /\ state' = state \/ state' = "Idle"
  /\ told' = told /\ manager' = manager /\ ended' \in {ended, "asked"}
  /\ \A a \in Attempt : op[a] = "ended" => op'[a] = "ended"

LEMMA EbbsKeep ==
  ASSUME SvcInv, Ebbs
  PROVE  Unmade' /\ Rested' /\ Closed' /\ Mine' /\ GivenUpIsStopped'
<1>1. Unmade'
  BY DEF SvcInv, Ebbs, Fades, Unmade
<1>2. Rested'
  BY DEF SvcInv, Ebbs, Fades, Rested
<1>3. Closed' /\ Mine'
  BY DEF SvcInv, Ebbs, Fades, Closed
<1>4. GivenUpIsStopped'
  BY DEF SvcInv, Ebbs, GivenUpIsStopped
<1> QED BY <1>1, <1>2, <1>3, <1>4

\* A handler that ends the operation of a, or reads on, and keeps the client or
\* disconnects it.
LEMMA HandlerEbbs ==
  ASSUME SvcInv, ClientsOK, NEW ops \in [Attempt -> OpStates],
         \A a \in Attempt : ops[a] \in FlightOps => ops[a] = op[a],
         \A a \in Attempt : ops[a] \in OpenOps => op[a] \in OpenOps,
         \A a \in Attempt : op[a] = "ended" => ops[a] = "ended",
         Disconnect(ops) \/ KeepClient(ops),
         body' = body, task' => task, state' = state \/ state' = "Idle",
         told' = told, manager' = manager, ended' \in {ended, "asked"}
  PROVE  Ebbs
<1>1. Fades
  BY HandlerFades
<1>2. Mine' /\ (Quiet => Quiet')
  BY DisconnectQuiets, KeepClientKeeps DEF SvcInv
<1>3. \A a \in Attempt : op[a] = "ended" => op'[a] = "ended"
  BY DEF Disconnect, KeepClient
<1> QED BY <1>1, <1>2, <1>3 DEF Ebbs

LEMMA EndedKeeps ==
  ASSUME ClientsOK, NEW a \in Attempt
  PROVE  LET ops == [op EXCEPT ![a] = "ended"]
         IN /\ ops \in [Attempt -> OpStates]
            /\ \A b \in Attempt : ops[b] \in FlightOps => ops[b] = op[b]
            /\ \A b \in Attempt : ops[b] \in OpenOps => op[b] \in OpenOps
            /\ \A b \in Attempt : op[b] = "ended" => ops[b] = "ended"
BY EndedType, EndedFades, EndedOpens DEF ClientsOK

LEMMA ReadsOnKeeps ==
  ASSUME ClientsOK, NEW a \in Attempt, op[a] \in OpenOps, NEW stops
  PROVE  LET ops == ReadsOn(a, stops)
         IN /\ ops \in [Attempt -> OpStates]
            /\ \A b \in Attempt : ops[b] \in FlightOps => ops[b] = op[b]
            /\ \A b \in Attempt : ops[b] \in OpenOps => op[b] \in OpenOps
            /\ \A b \in Attempt : op[b] = "ended" => ops[b] = "ended"
<1>1. \A b \in Attempt : op[b] = "ended" => ReadsOn(a, stops)[b] = "ended"
  BY DEF ClientsOK, ReadsOn, OpenOps
<1> QED BY <1>1, ReadsOnType, ReadsOnFades, ReadsOnOpens

\* BadError closes the connection of a working service before it plans another.
LEMMA BadErrorServes ==
  ASSUME SvcInv, ClientsOK, NEW ops \in [Attempt -> OpStates],
         \A a \in Attempt : ops[a] \in FlightOps => ops[a] = op[a],
         \A a \in Attempt : ops[a] \in OpenOps => op[a] \in OpenOps,
         \A a \in Attempt : op[a] = "ended" => ops[a] = "ended",
         BadError(ops), body' = body, UNCHANGED svcVars
  PROVE  Unmade' /\ Rested' /\ Closed' /\ Mine' /\ GivenUpIsStopped'
<1>1. CASE state = "Working"
  <2>1. Disconnect(ops) /\ state' = "Reconnecting" /\ told' = told
    BY <1>1 DEF BadError
  <2>2. Fades /\ Quiet' /\ Mine'
    BY <2>1, HandlerFades, DisconnectQuiets DEF SvcInv
  <2>3. manager = "made" /\ manager' = manager /\ ended' = ended
    BY <1>1 DEF SvcInv, Unmade, svcVars
  <2>4. Rested'
    BY <1>1, <2>1, <2>2 DEF SvcInv, Rested, Fades
  <2>5. told = "none"
    BY <1>1, <2>3 DEF SvcInv, GivenUpIsStopped
  <2> QED BY <2>1, <2>2, <2>3, <2>4, <2>5 DEF Unmade, Closed, GivenUpIsStopped
<1>2. CASE state # "Working"
  <2>1. KeepClient(ops) /\ UNCHANGED <<state, task, told>>
    BY <1>2 DEF BadError
  <2> QED BY <2>1, HandlerEbbs, EbbsKeep DEF svcVars
<1> QED BY <1>1, <1>2

\* A verdict stops the service in the step in which it is given.
LEMMA VerdictServes ==
  ASSUME SvcInv, ClientsOK, NEW verdict \in Verdicts \ {"none"}, NEW pending,
         NEW ops \in [Attempt -> OpStates],
         \A a \in Attempt : ops[a] \in FlightOps => ops[a] = op[a],
         \A a \in Attempt : ops[a] \in OpenOps => op[a] \in OpenOps,
         state # "Idle", Die(verdict, pending, ops, TRUE), body' = body, Reported,
         manager' = manager
  PROVE  Unmade' /\ Rested' /\ Closed' /\ Mine' /\ GivenUpIsStopped'
<1>1. manager = "made" /\ told = "none"
  BY DEF SvcInv, Unmade, GivenUpIsStopped
<1>2. told' = verdict /\ state' = "Idle" /\ ~task' /\ Disconnect(ops)
  BY DEF Die, StopsNow
<1>3. ended' = "uds_error"
  BY <1>1, <1>2 DEF Reported
<1>4. Fades /\ Quiet' /\ Mine'
  BY <1>2, HandlerFades, DisconnectQuiets DEF SvcInv
<1>5. Rested'
  BY <1>2, <1>4 DEF Rested
<1> QED BY <1>1, <1>2, <1>3, <1>4, <1>5 DEF Unmade, Closed, GivenUpIsStopped
\* One step for every step of the service and of its manager.
LEMMA SvcInvStep == SvcInv /\ [SvcNext]_svcAll => SvcInv'
<1> SUFFICES ASSUME SvcInv, [SvcNext]_svcAll
             PROVE  Unmade' /\ Rested' /\ Closed' /\ Mine' /\ GivenUpIsStopped'
  BY ServiceStep, InvStep DEF SvcInv
<1>0. /\ ClientsOK /\ RestOK /\ op \in [Attempt -> OpStates]
      /\ Inv /\ Unmade /\ Rested /\ Closed /\ Mine /\ GivenUpIsStopped
  BY TypeParts DEF SvcInv, Inv, ClientsOK
<1>1. ASSUME Start, manager # "made", manager' = "made", ended' = ended
      PROVE  Unmade' /\ Rested' /\ Closed' /\ Mine' /\ GivenUpIsStopped'
  <2>1. /\ state' = "Starting" /\ told' = "none"
        /\ UNCHANGED <<body, client, op, shut>>
        /\ body = "none" /\ \A a \in Attempt : op[a] = "ended"
    BY <1>0, <1>1 DEF Start, Unmade
  <2>2. Quiet' /\ \A a \in Attempt : op'[a] \notin FlightOps
    BY <2>1 DEF Quiet, Open, OpenOps, FlightOps
  <2> QED BY <1>1, <2>1, <2>2 DEF Unmade, Rested, Closed, Mine, Quiet, GivenUpIsStopped
<1>2. ASSUME UNCHANGED <<state, task, body, client, op, shut, told>>,
             manager' \in {manager} \cup (IF manager = "none" THEN {"queued"} ELSE {}),
             ended' \in {ended, "asked"}
      PROVE  Unmade' /\ Rested' /\ Closed' /\ Mine' /\ GivenUpIsStopped'
  <2>1. Quiet' = Quiet /\ Mine'
    BY <1>0, <1>2 DEF Quiet, Mine, Open
  <2>2. manager' = "made" <=> manager = "made"
    BY <1>2
  <2> QED BY <1>0, <1>2, <2>1, <2>2 DEF Unmade, Rested, Closed, GivenUpIsStopped
<1>3. CASE StartService
  BY <1>1, <1>2, <1>3 DEF StartService, vars
<1>4. CASE InitClientMgr
  BY <1>1, <1>4 DEF InitClientMgr
<1>5. CASE StopOnLoop
  <2>1. CASE manager = "made" /\ state # "Idle"
    <3>1. Disconnect(op) /\ state' = "Idle" /\ ~task' /\ body' = body /\ told' = told
      BY <1>5, <2>1 DEF StopOnLoop, Stop, StopsNow
    <3> QED BY <1>0, <1>5, <3>1, HandlerEbbs, EbbsKeep DEF StopOnLoop
  <2>2. CASE ~(manager = "made" /\ state # "Idle")
    BY <1>2, <1>5, <2>2 DEF StopOnLoop, vars
  <2> QED BY <2>1, <2>2
<1>6. CASE StopElsewhere \/ UNCHANGED svcAll
  BY <1>2, <1>6 DEF StopElsewhere, vars, svcAll, svcVars
<1>7. CASE SendMsg /\ UNCHANGED svcVars
  BY <1>2, <1>7 DEF SendMsg, svcVars
<1>8. CASE (PingExpires \/ PingIsSent \/ OverTimeExpires \/ OverTime) /\ UNCHANGED svcVars
  BY <1>2, <1>8 DEF PingExpires, PingIsSent, OverTimeExpires, OverTime, svcVars
<1>9. CASE TaskExpires /\ UNCHANGED svcVars
  <2>1. /\ task /\ ~task' /\ body' = "queued" /\ UNCHANGED <<state, client, op, shut, told>>
        /\ manager' = manager /\ ended' = ended
    BY <1>9 DEF TaskExpires, svcVars
  <2>2. Quiet' /\ Mine'
    BY <1>0, <2>1 DEF Closed, Quiet, Mine, Open
  <2> QED BY <1>0, <2>1, <2>2 DEF Unmade, Rested, Closed, GivenUpIsStopped
<1>10. ASSUME NEW a \in Attempt, BodyCreates(a), UNCHANGED svcVars
       PROVE  Unmade' /\ Rested' /\ Closed' /\ Mine' /\ GivenUpIsStopped'
  <2>1. /\ body = "queued" /\ body' = "made" /\ UNCHANGED <<state, task, told>>
        /\ manager' = manager /\ ended' = ended
        /\ \A b \in Attempt : b # a => op'[b] = op[b] /\ shut'[b] = shut[b]
        /\ op'[a] = "made"
    BY <1>0, <1>10 DEF BodyCreates, svcVars, ClientsOK
  <2>2. ~task /\ state # "Working" /\ manager = "made"
    BY <1>0, <2>1 DEF Rested, Unmade
  <2>3. Quiet'
    BY <1>0, <2>1 DEF Closed, Quiet, Open, OpenOps
  <2> QED BY <1>0, <2>1, <2>2, <2>3
          DEF Unmade, Rested, Closed, Quiet, Mine, GivenUpIsStopped
<1>11. CASE BodyConnects /\ UNCHANGED svcVars
  <2>1. /\ body = "made" /\ body' = "none" /\ UNCHANGED <<state, task, client, shut, told>>
        /\ manager' = manager /\ ended' = ended
        /\ \A b \in Attempt : b # client => op'[b] = op[b]
    BY <1>0, <1>11 DEF BodyConnects, svcVars
  <2>2. ~task /\ state # "Working" /\ manager = "made"
    BY <1>0, <2>1 DEF Rested, Unmade
  <2>3. Mine'
    BY <1>0, <2>1 DEF Mine, Open
  <2> QED BY <1>0, <2>1, <2>2, <2>3 DEF Unmade, Rested, Closed, GivenUpIsStopped
<1>12. ASSUME NEW a \in Attempt, ConnectCompletes(a), UNCHANGED svcVars
       PROVE  Unmade' /\ Rested' /\ Closed' /\ Mine' /\ GivenUpIsStopped'
  <2>1. /\ op[a] = "connecting" /\ UNCHANGED <<state, task, body, client, shut, told>>
        /\ manager' = manager /\ ended' = ended
        /\ \A b \in Attempt : b # a => op'[b] = op[b]
    BY <1>0, <1>12 DEF ConnectCompletes, svcVars
  <2>2. op[a] \in FlightOps /\ op[a] \in OpenOps /\ op[a] # "ended"
    BY <2>1 DEF FlightOps, OpenOps
  <2>3. body = "none" /\ ~task /\ state # "Working" /\ manager = "made"
    BY <1>0, <2>2 DEF Inv, OneInFlight, Rested, Unmade
  <2>4. Mine'
    BY <1>0, <2>1, <2>2 DEF Mine, Open
  <2> QED BY <1>0, <2>1, <2>3, <2>4 DEF Unmade, Rested, Closed, GivenUpIsStopped
<1>13. ASSUME NEW a \in Attempt, ReadCompletes(a) \/ LinkBreaks(a) \/ OperationEnds(a),
              UNCHANGED svcVars
       PROVE  Unmade' /\ Rested' /\ Closed' /\ Mine' /\ GivenUpIsStopped'
  <2>1. CASE LinkBreaks(a)
    BY <1>2, <1>13, <2>1 DEF LinkBreaks, svcVars
  <2>2. CASE ReadCompletes(a)
    <3>1. PICK r \in {"msg", "eof", "error"} : op' = [op EXCEPT ![a] = r]
      BY <2>2 DEF ReadCompletes
    <3>2. op[a] = "reading" /\ r \in OpStates /\ r \notin FlightOps /\ r # "ended"
      BY <2>2 DEF ReadCompletes, OpStates, FlightOps
    <3> DEFINE ops == [op EXCEPT ![a] = r]
    <3>3. /\ ops \in [Attempt -> OpStates]
          /\ \A b \in Attempt : ops[b] \in FlightOps => ops[b] = op[b]
          /\ \A b \in Attempt : ops[b] \in OpenOps => op[b] \in OpenOps
          /\ \A b \in Attempt : op[b] = "ended" => ops[b] = "ended"
      BY <1>0, <3>2 DEF OpenOps
    <3> HIDE DEF ops
    <3>4. KeepClient(ops)
      BY <2>2, <3>1 DEF ReadCompletes, KeepClient, ops
    <3> QED BY <1>0, <1>13, <2>2, <3>3, <3>4, HandlerEbbs, EbbsKeep DEF ReadCompletes, svcVars
  <2>3. CASE OperationEnds(a)
    <3>1. KeepClient([op EXCEPT ![a] = "ended"])
      BY <2>3 DEF OperationEnds, KeepClient
    <3> QED BY <1>0, <1>13, <2>3, <3>1, EndedKeeps, HandlerEbbs, EbbsKeep
            DEF OperationEnds, svcVars
  <2> QED BY <1>13, <2>1, <2>2, <2>3
<1>14. ASSUME NEW a \in Attempt, ReadFails(a) \/ WriteFails(a), UNCHANGED svcVars
       PROVE  Unmade' /\ Rested' /\ Closed' /\ Mine' /\ GivenUpIsStopped'
  <2>1. body' = body /\ (BadError([op EXCEPT ![a] = "ended"]) \/ BadError(op))
    BY <1>14 DEF ReadFails, WriteFails
  <2> QED BY <1>0, <1>14, <2>1, EndedKeeps, BadErrorServes
<1>15. ASSUME Completion(TRUE), Reported, manager' = manager
       PROVE  Unmade' /\ Rested' /\ Closed' /\ Mine' /\ GivenUpIsStopped'
  <2>1. body' = body
    BY <1>15 DEF Completion
  <2>2. CASE Connecting
    <3>1. state # "Idle" /\ \E verdict \in Verdicts \ {"none"} : Die(verdict, FALSE, op, TRUE)
      BY <1>15, <2>2 DEF Completion, Connecting, Verdicts
    <3> QED BY <1>0, <1>15, <2>1, <3>1, VerdictServes
  <2>3. CASE ~Connecting
    <3>1. KeepClient(op) /\ ~task' /\ UNCHANGED <<state, told>>
      BY <1>15, <2>3 DEF Completion, Connecting
    <3>2. ended' = ended
      BY <1>15, <3>1 DEF Reported
    <3> QED BY <1>0, <1>15, <2>1, <3>1, <3>2, HandlerEbbs, EbbsKeep
  <2> QED BY <2>2, <2>3
<1>16. ASSUME NEW a \in Attempt, ConnectSucceeds(a, TRUE), Reported, manager' = manager
       PROVE  Unmade' /\ Rested' /\ Closed' /\ Mine' /\ GivenUpIsStopped'
  <2>1. PICK certified \in BOOLEAN : Succeeded(a, certified, TRUE)
    BY <1>16 DEF ConnectSucceeds
  <2>2. body' = body /\ op[a] = "ok" /\ op[a] \in OpenOps /\ op[a] \in FlightOps
    BY <1>16 DEF ConnectSucceeds, OpenOps, FlightOps
  <2>3. CASE ~certified /\ Connecting
    <3>1. /\ Die("CertificationError", FALSE, ReadsOn(a, TRUE), TRUE) /\ state # "Idle"
          /\ "CertificationError" \in Verdicts \ {"none"}
      BY <2>1, <2>3 DEF Succeeded, Connecting, Verdicts
    <3> QED BY <1>0, <1>16, <2>2, <3>1, ReadsOnKeeps, VerdictServes
  <2>4. CASE ~(~certified /\ Connecting)
    <3>1. /\ KeepClient(ReadsOn(a, FALSE)) /\ ~task' /\ told' = told
          /\ state' = IF Connecting THEN "Working" ELSE state
      BY <2>1, <2>4 DEF Succeeded
    <3>2. ended' = ended
      BY <1>16, <3>1 DEF Reported
    <3>3. CASE ~Connecting
      BY <1>0, <1>16, <2>2, <3>1, <3>2, <3>3, ReadsOnKeeps, HandlerEbbs, EbbsKeep
    <3>4. CASE Connecting
      <4>1. manager = "made" /\ told = "none" /\ body = "none"
        BY <1>0, <2>2, <3>4
           DEF Unmade, GivenUpIsStopped, Connecting, Inv, OneInFlight
      <4>2. \A b \in Attempt : op'[b] \notin FlightOps
        <5> SUFFICES ASSUME NEW b \in Attempt, op'[b] \in FlightOps PROVE FALSE
          OBVIOUS
        <5>1. ReadsOn(a, FALSE)[b] = op[b] /\ op[b] \in FlightOps
          BY <1>0, <3>1, ReadsOnFades DEF KeepClient
        <5>2. b = a
          BY <1>0, <2>2, <5>1 DEF Inv, OneInFlight
        <5>3. ReadsOn(a, FALSE)[a] \in {"badf", "reading"}
          BY <1>0 DEF ReadsOn
        <5> QED BY <2>2, <5>1, <5>2, <5>3
      <4>3. Mine'
        BY <1>0, <2>2, <3>1, ReadsOnOpens, KeepClientKeeps
      <4> QED BY <1>16, <2>2, <3>1, <3>2, <3>4, <4>1, <4>2, <4>3
              DEF Unmade, Rested, Closed, GivenUpIsStopped
    <3> QED BY <3>3, <3>4
  <2> QED BY <2>3, <2>4
<1>17. ASSUME NEW a \in Attempt, ConnectFails(a, TRUE), Reported, manager' = manager
       PROVE  Unmade' /\ Rested' /\ Closed' /\ Mine' /\ GivenUpIsStopped'
  <2> DEFINE ops == [op EXCEPT ![a] = "ended"]
  <2>1. /\ ops \in [Attempt -> OpStates]
        /\ \A b \in Attempt : ops[b] \in FlightOps => ops[b] = op[b]
        /\ \A b \in Attempt : ops[b] \in OpenOps => op[b] \in OpenOps
        /\ \A b \in Attempt : op[b] = "ended" => ops[b] = "ended"
    BY <1>0, EndedKeeps
  <2>2. (BadError(ops) \/ NoFileError(ops, TRUE)) /\ body' = body
    BY <1>17 DEF ConnectFails
  <2> HIDE DEF ops
  <2>3. CASE BadError(ops)
    <3>1. told' = told
      BY <2>3 DEF BadError
    <3> QED BY <1>0, <1>17, <2>1, <2>2, <2>3, <3>1, BadErrorServes DEF Reported, svcVars
  <2>4. CASE NoFileError(ops, TRUE) /\ (Connecting \/ state = "Working")
    <3>1. /\ Die("NoSuchFileOrDirectory", task, ops, TRUE) /\ state # "Idle"
          /\ "NoSuchFileOrDirectory" \in Verdicts \ {"none"}
      BY <2>4 DEF NoFileError, Connecting, Verdicts
    <3> QED BY <1>0, <1>17, <2>1, <2>2, <3>1, VerdictServes
  <2>5. CASE NoFileError(ops, TRUE) /\ ~(Connecting \/ state = "Working")
    <3>1. KeepClient(ops) /\ UNCHANGED <<state, task, told>>
      BY <2>5 DEF NoFileError
    <3>2. ended' = ended
      BY <1>17, <3>1 DEF Reported
    <3> QED BY <1>0, <1>17, <2>1, <2>2, <3>1, <3>2, HandlerEbbs, EbbsKeep
  <2> QED BY <2>2, <2>3, <2>4, <2>5
<1>18. ASSUME NEW a \in Attempt, NEW stops \in BOOLEAN, MessageArrives(a, stops),
              ended' \in {ended, "asked"}, manager' = manager
       PROVE  Unmade' /\ Rested' /\ Closed' /\ Mine' /\ GivenUpIsStopped'
  <2>1. body' = body /\ told' = told /\ op[a] \in OpenOps
    BY <1>18 DEF MessageArrives, OpenOps
  <2>2. CASE stops /\ state # "Idle"
    <3>1. Disconnect(ReadsOn(a, TRUE)) /\ state' = "Idle" /\ ~task'
      BY <1>18, <2>2 DEF MessageArrives, StopsNow
    <3> QED BY <1>0, <1>18, <2>1, <3>1, ReadsOnKeeps, HandlerEbbs, EbbsKeep
  <2>3. CASE ~(stops /\ state # "Idle")
    <3>1. KeepClient(ReadsOn(a, FALSE)) /\ UNCHANGED <<state, task>>
      BY <1>18, <2>3 DEF MessageArrives
    <3> QED BY <1>0, <1>18, <2>1, <3>1, ReadsOnKeeps, HandlerEbbs, EbbsKeep
  <2> QED BY <2>2, <2>3
<1>19. CASE ManagerStep /\ UNCHANGED svcVars
  BY <1>8, <1>9, <1>10, <1>11, <1>12, <1>13, <1>14, <1>19 DEF ManagerStep, Body
<1>20. CASE Decision /\ UNCHANGED manager
  BY <1>15, <1>16, <1>17, <1>20 DEF Decision
<1>21. ASSUME NEW a \in Attempt, OtherMessage(a) \/ ControlMessage(a), UNCHANGED manager
       PROVE  Unmade' /\ Rested' /\ Closed' /\ Mine' /\ GivenUpIsStopped'
  BY <1>18, <1>21 DEF OtherMessage, ControlMessage
<1> QED
  BY <1>3, <1>4, <1>5, <1>6, <1>7, <1>19, <1>20, <1>21 DEF SvcNext

\* The inductive invariant of a service.
THEOREM SvcInvCorrect == SvcSpec => []SvcInv
<1>1. SvcInit => SvcInv
  BY SvcInitInv
<1>2. SvcInv /\ [SvcNext]_svcAll => SvcInv'
  BY SvcInvStep
<1> QED BY <1>1, <1>2, PTL DEF SvcSpec

\* A service has one open connection at most, for any number of client objects,
\* however often it reconnects and whenever it is stopped.
THEOREM OneConnectionHolds == SvcSpec => []OneConnection
<1>1. SvcInv => OneConnection
  BY DEF SvcInv, Mine, Open, OpenOps, OneConnection
<1> QED BY <1>1, SvcInvCorrect, PTL

\* A service whose manager has given up has been told to stop, and its manager
\* is idle with no attempt planned.
THEOREM GivenUpIsStoppedHolds == SvcSpec => []GivenUpIsStopped
BY SvcInvCorrect, PTL DEF SvcInv

\* The manager of a service that has not been told to stop is not idle or dead.
Up == manager = "made" /\ ended = "none" => state = "Working" \/ Connecting

\* Only a step that ends the service takes its manager to rest.
LEMMA UpStep == SvcInv /\ Up /\ [SvcNext]_svcAll => Up'
<1> SUFFICES ASSUME SvcInv, Up, [SvcNext]_svcAll, manager' = "made", ended' = "none"
             PROVE  state' \in {"Working", "Starting", "Reconnecting"}
  BY DEF Up, Connecting
<1>0. /\ GivenUpIsStopped /\ state \in States
      /\ manager = "made" /\ ended = "none" => state \in {"Working", "Starting", "Reconnecting"}
  BY DEF SvcInv, Inv, TypeOK, Up, Connecting
<1>1. ASSUME state' = state, manager' = manager, ended' = ended PROVE state' \in {"Working", "Starting", "Reconnecting"}
  BY <1>0, <1>1
<1>2. CASE StartService \/ InitClientMgr
  BY <1>2 DEF StartService, InitClientMgr, Start
<1>3. CASE StopOnLoop \/ StopElsewhere
  BY <1>3 DEF StopOnLoop, StopElsewhere
<1>4. CASE SendMsg /\ UNCHANGED svcVars
  BY <1>1, <1>4 DEF SendMsg, svcVars
<1>5. CASE ManagerStep /\ UNCHANGED svcVars
  <2>1. ASSUME NEW ops, BadError(ops) PROVE state' \in {state, "Reconnecting"}
    BY <2>1 DEF BadError
  <2>2. state' \in {state, "Reconnecting"}
    BY <1>5, <2>1
       DEF ManagerStep, TaskExpires, Body, BodyCreates, BodyConnects, ConnectCompletes, ReadCompletes,
           LinkBreaks, OperationEnds, ReadFails, WriteFails, PingExpires, PingIsSent, OverTimeExpires, OverTime
  <2> QED BY <1>0, <1>5, <2>2 DEF svcVars
<1>6. CASE Decision /\ UNCHANGED manager
  <2>1. manager = "made" /\ told' = told /\ ended = "none"
    BY <1>6 DEF Decision, Reported
  <2>2. told = "none" /\ state \in {"Working", "Starting", "Reconnecting"}
    BY <1>0, <2>1 DEF GivenUpIsStopped
  <2>3. ASSUME NEW verdict \in Verdicts \ {"none"}, NEW pending, NEW ops, Die(verdict, pending, ops, TRUE)
        PROVE  FALSE
    BY <2>1, <2>2, <2>3 DEF Die
  <2>4. ASSUME Completion(TRUE) PROVE state' = state
    BY <2>3, <2>4 DEF Completion, Verdicts
  <2>5. ASSUME NEW a \in Attempt, ConnectSucceeds(a, TRUE) PROVE state' \in {state, "Working"}
    <3>1. PICK certified \in BOOLEAN : Succeeded(a, certified, TRUE)
      BY <2>5 DEF ConnectSucceeds
    <3> QED BY <2>3, <3>1 DEF Succeeded, Verdicts
  <2>6. ASSUME NEW a \in Attempt, ConnectFails(a, TRUE) PROVE state' \in {state, "Reconnecting"}
    BY <2>3, <2>6 DEF ConnectFails, BadError, NoFileError, Verdicts
  <2> QED BY <1>6, <2>2, <2>4, <2>5, <2>6 DEF Decision
<1>7. ASSUME NEW a \in Attempt, OtherMessage(a), UNCHANGED manager PROVE state' \in {"Working", "Starting", "Reconnecting"}
  BY <1>1, <1>7 DEF OtherMessage, MessageArrives
<1>8. ASSUME NEW a \in Attempt, ControlMessage(a) PROVE FALSE
  BY <1>8 DEF ControlMessage
<1>9. CASE UNCHANGED svcAll
  BY <1>1, <1>9 DEF svcAll, vars, svcVars
<1> QED BY <1>2, <1>3, <1>4, <1>5, <1>6, <1>7, <1>8, <1>9 DEF SvcNext

\* A service that has not been told to stop works or has a decision coming, for
\* any number of client objects and late completions.
THEOREM NeverForgottenHolds == SvcSpec => []NeverForgotten
<1>1. SvcInit => Up
  BY DEF SvcInit, Up
<1>2. SvcInv /\ Up => NeverForgotten
  BY DEF SvcInv, Inv, Up, NeverForgotten, DecisionPending
<1> QED BY <1>1, <1>2, UpStep, SvcInvCorrect, PTL DEF SvcSpec
=============================================================================
