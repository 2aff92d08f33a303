------------------------------- MODULE ClientMgr -------------------------------
(***************************************************************************)
(* src/core/suUDS: ClientManager, its Uds_Client_heartbeat and the         *)
(* one-shot Uds_Client it makes for every attempt to reach the router.     *)
(*                                                                         *)
(* connect() passes (false, 3) for (execute_count, heavy): execute_count   *)
(* is 0 and heavy is true, so one attempt is made, by a pool thread, and   *)
(* its completion callback runs on the loop 2000 ms later, whatever has    *)
(* happened by then: no handle reaches it.  The heartbeat's ping has       *)
(* execute_count 0 and is heavy too: it is sent once, through the pool.    *)
(*                                                                         *)
(* Every handler of the loop is one step.  The body of an attempt is two,  *)
(* BodyCreates and BodyConnects, because the loop runs beside the pool.    *)
(*                                                                         *)
(* Timing: between its task's expiry and the handler of its connect, which *)
(* on a Unix socket has its result at once, an attempt takes less than the *)
(* 100 ms that a further task waits, and than the 2000 ms of its own       *)
(* completion callback.                                                    *)
(***************************************************************************)
EXTENDS Integers, FiniteSets

CONSTANTS
  Attempt,   \* the Uds_Client objects; one is used again after its end
  NoClient,  \* _client is null
  MaxLate    \* bound: completion callbacks outstanding

ASSUME NoClientAssumption == NoClient \notin Attempt
ASSUME MaxLateAssumption == MaxLate \in Nat \ {0}

VARIABLES
  state,   \* _stateMgr
  task,    \* _connect_task is pending
  body,    \* the attempt's body in the pool: none, queued, or between its lines
  late,    \* completion callbacks that will run
  client,  \* _client
  op,      \* op[a]: the operation of client a, "ended" before its first
  shut,    \* shut[a]: its socket has been closed here
  link,    \* link[a]: it is connected, and both ends are open
  werr,    \* werr[a]: the handler of a failed async_write is queued
  ping,    \* _heartbeat_task is pending
  pinging, \* a ping is on its way through the pool to the loop
  over,    \* _overTime_task is pending
  overdue, \* the handler of an expired _overTime_task is queued
  told,    \* history: what onError has last reported since Start
  fault    \* what has taken the process down, or "none"

hb == <<ping, over>>
vars == <<state, task, body, late, client, op, shut, link, werr,
          ping, pinging, over, overdue, told, fault>>

-----------------------------------------------------------------------------
States == {"Idle", "Starting", "Working", "Reconnecting", "Dead"}
OpStates == {"made", "connecting", "ok", "refused", "nofile",
             "reading", "msg", "eof", "error", "aborted", "badf", "ended"}
Verdicts == {"none", "ConnectionTimeOut", "ReconnectFail", "CertificationError",
             "NoSuchFileOrDirectory"}

Alive == fault = "none"
Connecting == state \in {"Starting", "Reconnecting"}

\* A client object that is gone for good, or not made yet.
Free(a) == op[a] = "ended" /\ ~werr[a] /\ a # client

\* An attempt is on its way from its task to the handler of its connect.
InFlight ==
  body # "none" \/ \E a \in Attempt : op[a] \in {"connecting", "ok", "refused", "nofile"}

Init ==
  /\ state = "Idle" /\ task = FALSE /\ body = "none" /\ late = 0
  /\ client = NoClient
  /\ op = [a \in Attempt |-> "ended"]
  /\ shut = [a \in Attempt |-> FALSE]
  /\ link = [a \in Attempt |-> FALSE]
  /\ werr = [a \in Attempt |-> FALSE]
  /\ ping = FALSE /\ pinging = FALSE /\ over = FALSE /\ overdue = FALSE
  /\ told = "none" /\ fault = "none"

-----------------------------------------------------------------------------
(* What the calls made by several handlers do.                             *)

HeartbeatStart == ping' = TRUE /\ over' = TRUE
HeartbeatStop == ping' = FALSE /\ over' = FALSE

Connect == task' = TRUE

\* A variant of Disconnect that lets go of the client without closing it.
DisconnectOpen(ops) ==
  /\ client' = NoClient
  /\ op' = ops
  /\ UNCHANGED <<shut, link>>

\* disconnect(): an outstanding operation is aborted, one whose handler is
\* already queued is not.
Disconnect(ops) ==
  /\ client' = NoClient
  /\ shut' = [a \in Attempt |-> shut[a] \/ a = client]
  /\ link' = [a \in Attempt |-> link[a] /\ a # client]
  /\ op' = [a \in Attempt |->
              IF a = client /\ ops[a] \in {"connecting", "reading"} THEN "aborted" ELSE ops[a]]

KeepClient(ops) == op' = ops /\ UNCHANGED <<client, shut, link>>

\* Stop, in a handler that leaves the operations ops.
StopsNow(ops) ==
  /\ state' = "Idle"
  /\ HeartbeatStop
  /\ task' = FALSE
  /\ Disconnect(ops)

\* A variant of Die that enters its state only after onError has returned.
DieLate(verdict, pending, ops, stops) ==
  /\ told' = verdict
  /\ state' = "Dead"
  /\ HeartbeatStop
  /\ IF stops THEN task' = FALSE /\ Disconnect(ops) ELSE task' = pending /\ KeepClient(ops)

\* The fatal branch of handleError, in a handler that leaves the task and the
\* operations ops; stops is whether the application's onError calls Stop.
Die(verdict, pending, ops, stops) ==
  /\ told' = verdict
  /\ IF stops
     THEN StopsNow(ops)
     ELSE state' = "Dead" /\ HeartbeatStop /\ task' = pending /\ KeepClient(ops)

\* handleError(UdsBadEroor) in a handler that leaves the operations ops: only
\* a working client takes notice, and starts anew.
BadError(ops) ==
  IF state = "Working"
  THEN /\ state' = "Reconnecting"
       /\ HeartbeatStop /\ Disconnect(ops) /\ Connect
       /\ UNCHANGED told
  ELSE KeepClient(ops) /\ UNCHANGED <<state, hb, task, told>>

NoFileError(ops, stops) ==
  IF Connecting \/ state = "Working"
  THEN Die("NoSuchFileOrDirectory", task, ops, stops)
  ELSE KeepClient(ops) /\ UNCHANGED <<state, hb, task, told>>

\* The next read of client a, whose socket may have been closed earlier or by
\* the callback before it.
ReadsOn(a, stops) ==
  [op EXCEPT ![a] = IF shut[a] \/ (stops /\ a = client) THEN "badf" ELSE "reading"]

\* A variant of Succeeded that leaves the connect task pending.
SucceededKeepsTask(a, certified, stops) ==
  IF ~certified /\ Connecting
  THEN Die("CertificationError", FALSE, ReadsOn(a, stops), stops)
  ELSE /\ IF certified THEN HeartbeatStart ELSE UNCHANGED hb
       /\ state' = IF Connecting THEN "Working" ELSE state
       /\ task' = task
       /\ KeepClient(ReadsOn(a, FALSE))
       /\ UNCHANGED told

\* onConnectResult(true) for client a: the heartbeat starts in any state.
Succeeded(a, certified, stops) ==
  IF ~certified /\ Connecting
  THEN Die("CertificationError", FALSE, ReadsOn(a, stops), stops)
  ELSE /\ IF certified THEN HeartbeatStart ELSE UNCHANGED hb
       /\ state' = IF Connecting THEN "Working" ELSE state
       /\ task' = FALSE
       /\ KeepClient(ReadsOn(a, FALSE))
       /\ UNCHANGED told

\* Sending on client a fails later if it is not connected (any more).
Send(a) == werr' = [werr EXCEPT ![a] = @ \/ ~link[a]]

-----------------------------------------------------------------------------
(* The interface, called on the loop, outside the manager's handlers.  In  *)
(* its callbacks the application may call Stop too: that is the parameter  *)
(* stops of the handlers.                                                  *)

Start ==
  /\ Alive
  /\ state = "Idle"
  /\ state' = "Starting"
  /\ Connect
  /\ told' = "none"
  /\ UNCHANGED <<body, late, client, op, shut, link, werr, hb, pinging, overdue, fault>>

Stop ==
  /\ Alive
  /\ state # "Idle"
  /\ StopsNow(op)
  /\ UNCHANGED <<body, late, werr, pinging, overdue, told, fault>>

\* sendmsg, which the application calls while it is connected.
SendMsg ==
  /\ Alive
  /\ state = "Working"
  /\ IF client = NoClient
     THEN fault' = "null" /\ UNCHANGED werr
     ELSE Send(client) /\ UNCHANGED fault
  /\ UNCHANGED <<state, task, body, late, client, op, shut, link, hb, pinging, overdue, told>>

-----------------------------------------------------------------------------
(* The connect task.                                                       *)

\* A variant of TaskExpires whose completion callback is forgotten.
TaskExpiresSilently ==
  /\ Alive
  /\ task
  /\ ~InFlight
  /\ task' = FALSE
  /\ body' = "queued"
  /\ UNCHANGED <<state, late, client, op, shut, link, werr, hb, pinging, overdue, told, fault>>

TaskExpires ==
  /\ Alive
  /\ task
  /\ ~InFlight
  /\ late < MaxLate
  /\ task' = FALSE
  /\ body' = "queued"
  /\ late' = late + 1
  /\ UNCHANGED <<state, client, op, shut, link, werr, hb, pinging, overdue, told, fault>>

BodyCreates(a) ==
  /\ Alive
  /\ body = "queued"
  /\ Free(a)
  /\ body' = "made"
  /\ client' = a
  /\ op' = [op EXCEPT ![a] = "made"]
  /\ shut' = [shut EXCEPT ![a] = FALSE]
  /\ link' = [link EXCEPT ![a] = FALSE]
  /\ UNCHANGED <<state, task, late, werr, hb, pinging, overdue, told, fault>>

\* _client is read again, and the loop may have reset it.
BodyConnects ==
  /\ Alive
  /\ body = "made"
  /\ body' = "none"
  /\ IF client = NoClient
     THEN fault' = "null" /\ UNCHANGED op
     ELSE op' = [op EXCEPT ![client] = "connecting"] /\ UNCHANGED fault
  /\ UNCHANGED <<state, task, late, client, shut, link, werr, hb, pinging, overdue, told>>

\* The completion callback: onConnectResult(false), which also drops the task.
Completion(stops) ==
  /\ Alive
  /\ late > IF InFlight THEN 1 ELSE 0
  /\ late' = late - 1
  /\ \/ state = "Starting" /\ Die("ConnectionTimeOut", FALSE, op, stops)
     \/ state = "Reconnecting" /\ Die("ReconnectFail", FALSE, op, stops)
     \/ ~Connecting /\ task' = FALSE /\ KeepClient(op) /\ UNCHANGED <<state, hb, told>>
  /\ UNCHANGED <<body, werr, pinging, overdue, fault>>

-----------------------------------------------------------------------------
(* The operations of a client: their completion, then their handlers.      *)

ConnectCompletes(a) ==
  /\ Alive
  /\ op[a] = "connecting"
  /\ \E r \in {"ok", "refused", "nofile"} :
        /\ op' = [op EXCEPT ![a] = r]
        /\ link' = [link EXCEPT ![a] = (r = "ok")]
  /\ UNCHANGED <<state, task, body, late, client, shut, werr, hb, pinging, overdue, told, fault>>

ReadCompletes(a) ==
  /\ Alive
  /\ op[a] = "reading"
  /\ \E r \in IF link[a] THEN {"msg"} ELSE {"eof", "error"} : op' = [op EXCEPT ![a] = r]
  /\ UNCHANGED <<state, task, body, late, client, shut, link, werr, hb, pinging, overdue,
                 told, fault>>

LinkBreaks(a) ==
  /\ Alive
  /\ link[a]
  /\ link' = [link EXCEPT ![a] = FALSE]
  /\ UNCHANGED <<state, task, body, late, client, op, shut, werr, hb, pinging, overdue,
                 told, fault>>

\* A closed socket has no credentials, so its peer is not certified.
ConnectSucceeds(a, stops) ==
  /\ Alive
  /\ op[a] = "ok"
  /\ \E certified \in IF shut[a] THEN {FALSE} ELSE BOOLEAN : Succeeded(a, certified, stops)
  /\ UNCHANGED <<body, late, werr, pinging, overdue, fault>>

ConnectFails(a, stops) ==
  /\ Alive
  /\ \/ op[a] = "refused" /\ BadError([op EXCEPT ![a] = "ended"])
     \/ op[a] = "nofile" /\ NoFileError([op EXCEPT ![a] = "ended"], stops)
  /\ UNCHANGED <<body, late, werr, pinging, overdue, fault>>

\* _onUdsMsgCb: a ping of the router re-arms the timeout, even a stopped one;
\* another message goes to the application.
MessageArrives(a, stops) ==
  /\ Alive
  /\ op[a] = "msg"
  /\ IF stops /\ state # "Idle"
     THEN StopsNow(ReadsOn(a, TRUE))
     ELSE /\ over' \in IF stops THEN {over} ELSE {over, TRUE}
          /\ KeepClient(ReadsOn(a, FALSE))
          /\ UNCHANGED <<state, task, ping>>
  /\ UNCHANGED <<body, late, werr, pinging, overdue, told, fault>>

\* operation_aborted and eof are dropped.
OperationEnds(a) ==
  /\ Alive
  /\ op[a] \in {"eof", "aborted"}
  /\ op' = [op EXCEPT ![a] = "ended"]
  /\ UNCHANGED <<state, task, body, late, client, shut, link, werr, hb, pinging, overdue,
                 told, fault>>

ReadFails(a) ==
  /\ Alive
  /\ op[a] \in {"error", "badf"}
  /\ BadError([op EXCEPT ![a] = "ended"])
  /\ UNCHANGED <<body, late, werr, pinging, overdue, fault>>

WriteFails(a) ==
  /\ Alive
  /\ werr[a]
  /\ werr' = [werr EXCEPT ![a] = FALSE]
  /\ BadError(op)
  /\ UNCHANGED <<body, late, pinging, overdue, fault>>

-----------------------------------------------------------------------------
(* The heartbeat.                                                          *)

PingExpires ==
  /\ Alive
  /\ ping /\ ~pinging
  /\ ping' = FALSE
  /\ pinging' = TRUE
  /\ UNCHANGED <<state, task, body, late, client, op, shut, link, werr, over, overdue,
                 told, fault>>

\* The loop's half of sendmsg uses _client as it is now.
PingIsSent ==
  /\ Alive
  /\ pinging
  /\ pinging' = FALSE
  /\ IF client = NoClient
     THEN fault' = "null" /\ UNCHANGED werr
     ELSE Send(client) /\ UNCHANGED fault
  /\ UNCHANGED <<state, task, body, late, client, op, shut, link, hb, overdue, told>>

OverTimeExpires ==
  /\ Alive
  /\ over /\ ~overdue
  /\ over' = FALSE
  /\ overdue' = TRUE
  /\ UNCHANGED <<state, task, body, late, client, op, shut, link, werr, ping, pinging,
                 told, fault>>

\* stop(); then `onConnectLost();', which constructs an empty std::function
\* of the type of that name and destroys it.
OverTime ==
  /\ Alive
  /\ overdue
  /\ overdue' = FALSE
  /\ HeartbeatStop
  /\ UNCHANGED <<state, task, body, late, client, op, shut, link, werr, pinging, told, fault>>

-----------------------------------------------------------------------------
Body == (\E a \in Attempt : BodyCreates(a)) \/ BodyConnects

Handler(a) ==
  \/ OperationEnds(a) \/ ReadFails(a)
  \/ \E stops \in BOOLEAN :
        ConnectSucceeds(a, stops) \/ ConnectFails(a, stops) \/ MessageArrives(a, stops)

AnyCompletion == \E stops \in BOOLEAN : Completion(stops)

Next ==
  \/ Start \/ Stop \/ SendMsg
  \/ TaskExpires \/ Body \/ AnyCompletion
  \/ \E a \in Attempt : \/ ConnectCompletes(a) \/ ReadCompletes(a) \/ LinkBreaks(a)
                        \/ Handler(a) \/ WriteFails(a)
  \/ PingExpires \/ PingIsSent \/ OverTimeExpires \/ OverTime

Spec == Init /\ [][Next]_vars

\* The pool and the loop run what they are given, and a connect comes to a
\* result.  Application and router owe nothing.
Fairness ==
  /\ WF_vars(TaskExpires) /\ WF_vars(Body) /\ WF_vars(AnyCompletion) /\ WF_vars(OverTime)
  /\ \A a \in Attempt : WF_vars(Handler(a)) /\ WF_vars(ConnectCompletes(a))

FairSpec == Spec /\ Fairness

-----------------------------------------------------------------------------
\* Every variable of the manager, its heartbeat and its clients has its type.
TypeOK ==
  /\ state \in States
  /\ task \in BOOLEAN
  /\ body \in {"none", "queued", "made"}
  /\ late \in 0..MaxLate
  /\ client \in Attempt \cup {NoClient}
  /\ op \in [Attempt -> OpStates]
  /\ shut \in [Attempt -> BOOLEAN]
  /\ link \in [Attempt -> BOOLEAN]
  /\ werr \in [Attempt -> BOOLEAN]
  /\ ping \in BOOLEAN /\ pinging \in BOOLEAN /\ over \in BOOLEAN /\ overdue \in BOOLEAN
  /\ told \in Verdicts
  /\ fault \in {"none", "null"}

\* sendmsg dereferences _client unchecked: while the manager is working there
\* is one, although pool threads set it and Stop, errors and results of
\* earlier attempts come in between.
WorkingHasClient == state = "Working" => client # NoClient

\* While the manager waits for a connection something is under way that will
\* decide: its task, or the completion callback of an attempt.
DecisionPending == Connecting => task \/ late > 0

\* Uds_ClientMgr.hpp:253-345: whatever results, errors and completion callbacks of
\* earlier attempts come in between, state and verdicts are those of ConnectionLife:
\* a working manager never gives up, and one verdict is given for each Start.
Life == INSTANCE ConnectionLife
ImplementsConnection == Life!LifeSpec

\* Connecting comes to an end, with a connection or with a verdict, provided
\* that the pool never runs out of client objects for good.
NeverStuckConnecting ==
  []<>(body # "queued") => (Connecting ~> (~Connecting \/ fault # "none"))

\* Uds_ClientMgr.hpp:338 reconnects when the heartbeat has timed out.
TimeoutReconnects ==
  (state = "Working" /\ overdue) ~> (state # "Working" \/ fault # "none" \/ over)
=============================================================================
