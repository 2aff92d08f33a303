--------------------------------- MODULE Router ---------------------------------
(***************************************************************************)
(* src/core/Router: RouterManager on top of the server of UdsServer, with  *)
(* Router_Heartbeat and RouterAuthManager.  Peers are programs; a program  *)
(* is known by its executable and gets the id of its registry entry.       *)
(*                                                                         *)
(* Stop destroys the Uds_Server while handlers of it are still queued:     *)
(* their `this' dangles.  zombie and gone say which those are, and running *)
(* one is a choice over what freed memory may do.  A later Start may get   *)
(* the same memory, so such a handler may also act on the new server; of   *)
(* the two accept loops that this makes only one is followed.              *)
(*                                                                         *)
(* Timing: heartbeat_interval (1600 ms) is shorter than heartbeat_timeout  *)
(* (3000 ms), so no timeout expires before a broadcast timer armed with    *)
(* it; and a timer armed while a timeout handler of the same id waits in   *)
(* the loop's queue does not expire before that handler has run.           *)
(***************************************************************************)
EXTENDS UdsServer

CONSTANTS
  Main,    \* Usr::MAIN
  Apps,    \* the ids of the registry's apps; the others are its usrs
  Policy,  \* Policy[k]: the acl of usr k
  Who,     \* Who[c]: the id of the program that makes connection c, or NoCid
  MaxStarts  \* bound: how often the router is started

ASSUME MainAssumption == Main \in Cid /\ Apps \subseteq Cid \ {Main}
ASSUME PolicyAssumption ==
  Policy \in [Cid \ Apps -> {"core_only", "all_accessible", "out_optional"}]
ASSUME WhoAssumption == Who \in [Conn -> Cid \cup {NoCid}]
ASSUME MaxStartsAssumption == MaxStarts \in Nat

VARIABLES
  up,           \* _server is there, and _state is Running
  starts,       \* how often Start has made a server
  main_online,  \* _main_online
  hb_started,   \* _heartbeat_started
  gone,         \* connections accepted by a server that has been destroyed
  zombie,       \* an accept handler of a destroyed server is queued
  tmr,          \* tmr[k]: _timeout_tasks[k] is missing, pending, or has fired
  due,          \* ids with a timeout handler in the loop's queue
  bc,           \* the broadcast task; "pool": its body waits for a worker
  groups,       \* entityGroupMap_
  allowed,      \* the apps in allowedOutApps_
  out           \* the envelope the last step has forwarded, or NoEnvelope

hbVars == <<tmr, due, bc>>
routerVars == <<up, starts, main_online, hb_started, gone, zombie, tmr, due, bc, groups, allowed>>
rVars == <<listening, acc, accConn, sock, peer, rd, wr, cidOf, sessions, fault,
           up, starts, main_online, hb_started, gone, zombie, tmr, due, bc, groups, allowed, out>>

-----------------------------------------------------------------------------
NoEnvelope == <<>>
Envelope == Cid \X Cid

\* _active_clients: an id enters and leaves it together with its timeout task.
ActiveClients == {k \in Cid : tmr[k] # "none"}

Group(k) == IF k \in Apps THEN "out" ELSE "core"

\* A variant of Authorize that takes an id without a group for a core one.
AuthorizeUnknown(from, to) ==
  IF groups[from] # "out" THEN "yes"
  ELSE IF groups[to] = "out" \/ to \in Apps \/ Policy[to] = "core_only" THEN "no"
  ELSE IF Policy[to] = "all_accessible" THEN "yes"
  ELSE "crash"

\* RouterAuthManager::authorizeMessage.  The out_optional branch looks the
\* receiver, a usr, up among the apps and dereferences what it finds.
Authorize(from, to) ==
  CASE groups[from] = "none" -> "no"
    [] groups[from] = "core" -> "yes"
    [] groups[from] = "out" ->
         IF groups[to] = "out" \/ to \in Apps
         THEN "no"
         ELSE CASE Policy[to] = "core_only"      -> "no"
                [] Policy[to] = "all_accessible" -> "yes"
                [] Policy[to] = "out_optional"   -> "crash"

\* A variant of UpdateClient that re-arms but never arms.
UpdateKnownClient(k) == tmr' = [tmr EXCEPT ![k] = IF @ = "none" THEN @ ELSE "armed"]

\* Router_Heartbeat::updateClient and stopClient; a handler that is queued
\* already (due) is out of the reach of both.
UpdateClient(k) == tmr' = [tmr EXCEPT ![k] = "armed"]
StopClient(k) == tmr' = [tmr EXCEPT ![k] = "none"]

RInit ==
  /\ SrvInit
  /\ up = FALSE /\ starts = 0 /\ main_online = FALSE /\ hb_started = FALSE
  /\ gone = {} /\ zombie = FALSE
  /\ tmr = [k \in Cid |-> "none"]
  /\ due = {}
  /\ bc = "none"
  /\ groups = [k \in Cid |-> "none"]
  /\ allowed = {}
  /\ out = NoEnvelope

-----------------------------------------------------------------------------
(* Start and Stop.                                                         *)

Start ==
  /\ Alive
  /\ ~up
  /\ starts < MaxStarts
  /\ starts' = starts + 1
  /\ up' = TRUE
  /\ listening' = TRUE
  /\ acc' = "waiting"
  /\ UNCHANGED <<accConn, sock, peer, rd, wr, cidOf, sessions, fault,
                 main_online, hb_started, gone, zombie, hbVars, groups, allowed>>

\* What Stop closes, given the table it finds.
Stopped(table) ==
  ({table[k] : k \in Cid} \ {NoConn}) \cup {c \in Conn : sock[c] = "backlog"}

\* Stop, called from a handler that has left the server in this state: all
\* timers, the server's sockets, the server itself.
StopRouter(table, reads, socks) ==
  /\ tmr' = [k \in Cid |-> "none"]
  /\ bc' = IF bc = "armed" THEN "none" ELSE bc
  /\ up' = FALSE
  /\ listening' = FALSE
  /\ acc' = "off"
  /\ accConn' = NoConn
  /\ zombie' = (zombie \/ up)
  /\ gone' = gone \cup {c \in Conn : cidOf[c] # NoCid}
  /\ sessions' = [k \in Cid |-> NoConn]
  /\ sock' = Shut(Stopped(table), socks)
  /\ rd' = Abort(Stopped(table), reads)

\* Stop called by the owner of the router, on the loop.
Stop ==
  /\ Alive
  /\ up
  /\ StopRouter(sessions, rd, sock)
  /\ UNCHANGED <<peer, wr, cidOf, fault, starts, main_online, hb_started, due, groups, allowed>>

-----------------------------------------------------------------------------
(* The accept handler: perform_auth and on_uds_connect.                    *)

Authenticated(k) == k # NoCid /\ (k \in Apps => k \in allowed)

\* Not authenticated; or authenticated, but Main is not there: the group has been
\* recorded by then.
Refuse(c) ==
  /\ LET k == Who[c]
     IN \/ ~Authenticated(k) /\ UNCHANGED groups
        \/ /\ Authenticated(k) /\ ~main_online /\ k # Main
           /\ groups' = [groups EXCEPT ![k] = Group(k)]
  /\ sock' = Shut({c}, sock)
  /\ UNCHANGED <<peer, rd, wr, cidOf, sessions, main_online, hb_started, tmr, bc>>

\* The new session replaces one the table may hold for the same id; the report
\* to Main is sent before the session is in the table.
Admit(c) ==
  /\ LET k      == Who[c]
         table  == [sessions EXCEPT ![k] = c]
         reads  == [rd EXCEPT ![c] = "waiting"]
         writes == Fail(FailedSend(Main, sessions, sock), wr)
     IN /\ Authenticated(k) /\ (main_online \/ k = Main)
        /\ groups' = [groups EXCEPT ![k] = Group(k)]
        /\ UpdateClient(k)
        /\ sessions' = table
        /\ cidOf' = [cidOf EXCEPT ![c] = k]
        /\ rd' = reads
        /\ wr' = writes
        /\ sock' = Shut(Unreferenced(Victim(k), table, reads, writes), sock)
  /\ main_online' = TRUE
  /\ hb_started' = TRUE
  /\ bc' = IF hb_started THEN bc ELSE "armed"
  /\ UNCHANGED peer

AcceptHandled ==
  /\ Alive
  /\ acc = "accepted"
  /\ acc' = "waiting"
  /\ accConn' = NoConn
  /\ UNCHANGED <<listening, fault, up, starts, gone, zombie, due, allowed>>

AcceptRefuses == AcceptHandled /\ Refuse(accConn)
AcceptClient == AcceptHandled /\ Admit(accConn)

\* The sockets that accepts of destroyed servers have completed with.
Stranded == {c \in Conn : cidOf[c] = NoCid /\ sock[c] = "open" /\ c # accConn}

\* The accept handler of a destroyed server: the process crashes, or the
\* accept ends there and the socket it may hold is destroyed.
ZombieAccept ==
  /\ Alive
  /\ zombie
  /\ \/ fault' = "dangling" /\ UNCHANGED <<sock, zombie>>
     \/ /\ UNCHANGED fault
        /\ zombie' = FALSE
        /\ sock' = Shut(Stranded, sock)
  /\ UNCHANGED <<listening, acc, accConn, peer, rd, wr, cidOf, sessions,
                 up, starts, main_online, hb_started, gone, hbVars, groups, allowed>>

\* Or a next server has the memory of the old one, and the handler accepts for it,
\* beside the accept that this server has made itself.
ZombieAccepts ==
  /\ Alive
  /\ zombie /\ up
  /\ \E c \in Stranded :
       /\ Refuse(c) \/ Admit(c)
       /\ zombie' \in {TRUE, Stranded # {c}}
  /\ UNCHANGED <<listening, acc, accConn, fault, up, starts, gone, due, allowed>>

-----------------------------------------------------------------------------
(* The message handler of connection c: on_uds_message, route_message, and *)
(* the read that follows.  A message reaches the router even from a        *)
(* connection whose server has been destroyed.                             *)

ReadsOn(c, S) == [rd EXCEPT ![c] = NextRead(sock[c] = "closed" \/ c \in S)]

FromClient(c) == Alive /\ rd[c] = "msg"

\* Malformed, sent under another id than the connection's, or a command that
\* is not the sender's to give.
MessageIgnored(c) ==
  /\ FromClient(c)
  /\ rd' = ReadsOn(c, {})
  /\ UNCHANGED <<listening, acc, accConn, sock, peer, wr, cidOf, sessions, fault, routerVars>>

MessageHeartbeat(c) ==
  /\ FromClient(c)
  /\ UpdateClient(cidOf[c])
  /\ rd' = ReadsOn(c, {})
  /\ UNCHANGED <<listening, acc, accConn, sock, peer, wr, cidOf, sessions, fault,
                 up, starts, main_online, hb_started, gone, zombie, due, bc, groups, allowed>>

\* Ids that are not those of apps enter allowedOutApps_ too, and are never
\* looked up there.
MessageEnableApp(c) ==
  /\ FromClient(c)
  /\ cidOf[c] = Main
  /\ \E a \in Apps : allowed' = allowed \cup {a}
  /\ rd' = ReadsOn(c, {})
  /\ UNCHANGED <<listening, acc, accConn, sock, peer, wr, cidOf, sessions, fault,
                 up, starts, main_online, hb_started, gone, zombie, hbVars, groups>>

\* UsrStopRequest or UsrStopKill.
MessageStop(c) ==
  /\ FromClient(c)
  /\ cidOf[c] = Main
  /\ StopRouter(sessions, ReadsOn(c, Registered), sock)
  /\ UNCHANGED <<peer, wr, cidOf, fault, starts, main_online, hb_started, due, groups, allowed>>

\* A message for another client.  The claimed sender is the connection's id.
MessageForwarded(c) ==
  /\ FromClient(c)
  /\ \E from \in Cid, to \in Cid :
       /\ from = cidOf[c]
       /\ Authorize(from, to) = "yes"
       /\ fault' = IF up THEN "none" ELSE "null"
       /\ wr' = Fail(FailedSend(to, sessions, sock), wr)
       /\ out' = IF up THEN <<from, to>> ELSE NoEnvelope
  /\ rd' = ReadsOn(c, {})
  /\ UNCHANGED <<listening, acc, accConn, sock, peer, cidOf, sessions, routerVars>>

AuthorizeCrashes(c) ==
  /\ FromClient(c)
  /\ \E to \in Cid : Authorize(cidOf[c], to) = "crash"
  /\ fault' = "acl"
  /\ UNCHANGED <<listening, acc, accConn, sock, peer, rd, wr, cidOf, sessions, routerVars>>

-----------------------------------------------------------------------------
(* A failed read or write of c: on_session_error and process_disconnect.   *)

Disconnect(c, reads, writes) ==
  LET k      == cidOf[c]
      table  == Erased(k)
      ended  == Abort(Victim(k), reads)
      failed == Fail(FailedSend(Main, table, sock), writes)
      socks  == Shut(Victim(k) \cup Unreferenced({c}, table, ended, failed), sock)
  IN /\ groups' = [groups EXCEPT ![k] = "none"]
     /\ wr' = failed
     /\ main_online' = (main_online /\ k # Main)
     /\ \/ k = Main /\ StopRouter(table, ended, socks)
        \/ /\ k # Main
           /\ StopClient(k)
           /\ sessions' = table
           /\ sock' = socks
           /\ rd' = ended
           /\ UNCHANGED <<listening, acc, accConn, up, gone, zombie, bc>>

\* The errors of a session whose entry is gone are ignored; it is destroyed
\* with its last operation.
ErrorIgnored(c, reads, writes) ==
  /\ rd' = reads
  /\ wr' = writes
  /\ sock' = Shut(Unreferenced({c}, sessions, reads, writes), sock)
  /\ UNCHANGED <<listening, acc, accConn, sessions, up, main_online, gone, zombie, tmr, bc, groups>>

SessionError(c, reads, writes) ==
  /\ \/ /\ sessions[cidOf[c]] # NoConn
        /\ Disconnect(c, reads, writes)
        /\ UNCHANGED fault
     \/ /\ sessions[cidOf[c]] = NoConn \/ c \in gone
        /\ ErrorIgnored(c, reads, writes)
        /\ UNCHANGED fault
     \/ /\ c \in gone
        /\ fault' = "dangling"
        /\ ErrorIgnored(c, reads, writes)
  /\ UNCHANGED <<peer, cidOf, starts, hb_started, due, allowed>>

ReadFails(c) ==
  /\ Alive
  /\ rd[c] \in {"error", "badf"}
  /\ SessionError(c, [rd EXCEPT ![c] = "none"], wr)

WriteFails(c) ==
  /\ Alive
  /\ wr[c] > 0
  /\ SessionError(c, rd, [wr EXCEPT ![c] = @ - 1])

-----------------------------------------------------------------------------
(* The heartbeat's timers.                                                 *)

\* The broadcast runs once (execute_count FALSE is 0), and in the pool.
BroadcastExpires ==
  /\ Alive
  /\ bc = "armed"
  /\ bc' = "pool"
  /\ UNCHANGED <<srvVars, up, starts, main_online, hb_started, gone, zombie, tmr, due, groups, allowed>>

\* raw_send builds the envelope, which throws off the event loop, and nothing
\* in a worker catches it.
Broadcast ==
  /\ Alive
  /\ bc = "pool"
  /\ bc' = "done"
  /\ fault' = IF ActiveClients = {} THEN "none" ELSE "broadcast"
  /\ UNCHANGED <<listening, acc, accConn, sock, peer, rd, wr, cidOf, sessions,
                 up, starts, main_online, hb_started, gone, zombie, tmr, due, groups, allowed>>

TimeoutExpires(k) ==
  /\ Alive
  /\ tmr[k] = "armed"
  /\ bc # "armed"
  /\ k \notin due
  /\ tmr' = [tmr EXCEPT ![k] = "fired"]
  /\ due' = due \cup {k}
  /\ UNCHANGED <<srvVars, up, starts, main_online, hb_started, gone, zombie, bc, groups, allowed>>

\* A variant of TimeoutHandler that forgets the client but does not close it.
TimeoutHandlerKeeps(k) ==
  /\ Alive
  /\ k \in due
  /\ due' = due \ {k}
  /\ StopClient(k)
  /\ UNCHANGED <<srvVars, up, starts, main_online, hb_started, gone, zombie, bc, groups, allowed>>

\* stopClient, then close of whatever session the table holds for k now.
TimeoutHandler(k) ==
  /\ Alive
  /\ k \in due
  /\ due' = due \ {k}
  /\ StopClient(k)
  /\ fault' = CASE ~up -> "null" [] up /\ sessions[k] = NoConn -> "close" [] OTHER -> "none"
  /\ sock' = Shut(Victim(k), sock)
  /\ rd' = Abort(Victim(k), rd)
  /\ UNCHANGED <<listening, acc, accConn, peer, wr, cidOf, sessions,
                 up, starts, main_online, hb_started, gone, zombie, bc, groups, allowed>>

-----------------------------------------------------------------------------
MessageHandler(c) ==
  \/ (MessageIgnored(c) \/ MessageHeartbeat(c) \/ MessageEnableApp(c) \/ MessageStop(c)
        \/ AuthorizeCrashes(c)) /\ out' = NoEnvelope
  \/ MessageForwarded(c)

Silent ==
  \/ \E c \in Conn : (Environment(c) \/ ReadEnds(c)) /\ UNCHANGED routerVars
  \/ \E c \in Conn : ReadFails(c) \/ WriteFails(c)
  \/ \E k \in Cid : TimeoutExpires(k) \/ TimeoutHandler(k)
  \/ AcceptRefuses \/ AcceptClient \/ ZombieAccept \/ ZombieAccepts
  \/ BroadcastExpires \/ Broadcast
  \/ Start \/ Stop

RNext == (Silent /\ out' = NoEnvelope) \/ \E c \in Conn : MessageHandler(c)

RSpec == RInit /\ [][RNext]_rVars

\* The router in a later life: Main has been connected to an earlier server,
\* Stop has destroyed that one before the broadcast, and the handlers it left
\* behind have run.  Connections of the earlier life are not in Conn.
LaterInit ==
  /\ SrvInit
  /\ up = FALSE /\ starts = 0 /\ main_online = TRUE /\ hb_started = TRUE
  /\ gone = {} /\ zombie = FALSE
  /\ tmr = [k \in Cid |-> "none"]
  /\ due = {}
  /\ bc = "none"
  /\ groups = [k \in Cid |-> IF k = Main THEN "core" ELSE "none"]
  /\ allowed = {}
  /\ out = NoEnvelope

LaterSpec == LaterInit /\ [][RNext]_rVars

\* Timers expire, the loop runs the handlers of timeouts and of messages, and the pool
\* the broadcast.  Nothing is assumed of peers, of the owner of the router, and of the
\* other handlers.
RFairness ==
  /\ \A c \in Conn : WF_rVars(MessageHandler(c))
  /\ \A k \in Cid : WF_rVars((TimeoutExpires(k) \/ TimeoutHandler(k)) /\ out' = NoEnvelope)
  /\ WF_rVars((BroadcastExpires \/ Broadcast) /\ out' = NoEnvelope)

LaterFairSpec == LaterSpec /\ RFairness

-----------------------------------------------------------------------------
\* Every variable of the router and of its server has its type.
RTypeOK ==
  /\ listening \in BOOLEAN
  /\ acc \in AccState
  /\ accConn \in Conn \cup {NoConn}
  /\ sock \in [Conn -> SockState]
  /\ peer \in [Conn -> BOOLEAN]
  /\ rd \in [Conn -> ReadState]
  /\ wr \in [Conn -> 0..MaxWrites]
  /\ cidOf \in [Conn -> Cid \cup {NoCid}]
  /\ sessions \in [Cid -> Conn \cup {NoConn}]
  /\ fault \in {"none", "broadcast", "close", "null", "dangling", "acl"}
  /\ up \in BOOLEAN /\ starts \in 0..MaxStarts /\ main_online \in BOOLEAN /\ hb_started \in BOOLEAN
  /\ gone \subseteq Conn
  /\ zombie \in BOOLEAN
  /\ tmr \in [Cid -> {"none", "armed", "fired"}]
  /\ due \subseteq Cid
  /\ bc \in {"none", "armed", "pool", "done"}
  /\ groups \in [Cid -> {"none", "core", "out"}]
  /\ allowed \subseteq Apps
  /\ out \in Envelope \cup {NoEnvelope}

\* Every client in the table whose socket is open is watched: its timeout is
\* armed, or has expired and its handler is on the way.  Nobody is forgotten,
\* whichever of reconnection, timeout, failure and restart come between.
Watched ==
  \A k \in Cid : sessions[k] # NoConn /\ sock[sessions[k]] = "open" =>
    tmr[k] = "armed" \/ k \in due

\* A registered client has its group, so that it is never silently muted, and
\* it is the group of its registry entry.
RegisteredIsKnown ==
  \A k \in Cid : sessions[k] # NoConn => groups[k] = Group(k)

\* Uds_Server.cpp:196-208 and Router.hpp:116-150: the session that the table holds for
\* an id is of the present server and of the program with that id, and while its peer
\* is there it is read, whatever the handlers of overwritten sessions, of timeouts
\* and of a destroyed server still do to table and sockets.
Served ==
  \A k \in Cid : sessions[k] # NoConn =>
    LET c == sessions[k]
    IN /\ cidOf[c] = k /\ c \notin gone
       /\ sock[c] = "open" /\ peer[c] => rd[c] \in {"waiting", "msg"}

\* What is forwarded for an app goes to a usr that all may access, and what is
\* forwarded under an id comes from a program registered under it.
AclEnforced ==
  out # NoEnvelope =>
    /\ \E c \in Conn : Who[c] = out[1] /\ cidOf[c] = out[1]
    /\ out[1] \in Apps => /\ out[2] \notin Apps
                          /\ Policy[out[2]] = "all_accessible"
                          /\ out[1] \in allowed

\* The inductive invariant under Watched, RegisteredIsKnown and AclEnforced.
\* What the table or a completed accept refers to is an accepted socket.
AcceptedOnly ==
  /\ \A k \in Cid : sessions[k] # NoConn => sock[sessions[k]] \in {"open", "closed"}
  /\ acc = "accepted" => accConn \in Conn /\ sock[accConn] \in {"open", "closed"}

\* Ids and groups are those of the registry, and an app with a group has been
\* enabled.
Identity ==
  /\ \A c \in Conn : cidOf[c] \in {NoCid, Who[c]}
  /\ \A k \in Cid : groups[k] \in {"none", Group(k)}
  /\ \A a \in Apps : groups[a] # "none" => a \in allowed

RInv == RTypeOK /\ AcceptedOnly /\ Watched /\ RegisteredIsKnown /\ Identity /\ AclEnforced

\* Uds_Server.cpp:126 and Router_Heartbeat.hpp:33-48: a client in the table whose peer is
\* gone is closed in the end, although the end of file of its connection is ignored.  The
\* timeout sees to it, unless messages go on coming by another connection that was accepted
\* under the same id: they answer for the dead one.  One that is dead or silent does not.
DeadPeerClosed ==
  \A c \in Conn :
    (c \in Registered /\ ~peer[c])
      ~> (sock[c] = "closed" \/ fault # "none" \/ c \notin Registered
            \/ \E d \in Conn : d # c /\ cidOf[d] = cidOf[c] /\ rd[d] = "msg")

\* Router.hpp:124 lets only Main connect until Main is connected.
MainFirst ==
  [][\A k \in Cid \ {Main} :
       sessions[k] = NoConn /\ sessions'[k] # NoConn => sessions[Main] # NoConn]_rVars
=============================================================================
