------------------------------ MODULE Router_proofs ------------------------------
(* Proofs about Router, for every set of connections, every registry and every *)
(* assignment of programs to connections.                                      *)
EXTENDS Router, TLAPS

USE ConnAssumption, CidAssumption, MainAssumption, PolicyAssumption, WhoAssumption,
    MaxStartsAssumption

\* Closing sockets keeps them sockets and turns each into a closed one or
\* leaves it alone.
LEMMA ShutFacts ==
  ASSUME NEW S, NEW socks \in [Conn -> SockState]
  PROVE  /\ Shut(S, socks) \in [Conn -> SockState]
         /\ \A c \in Conn : Shut(S, socks)[c] \in {socks[c], "closed"}
         /\ \A c \in Conn : c \in S => Shut(S, socks)[c] = "closed"
  BY DEF Shut, SockState

\* Aborting reads leaves read states.
LEMMA AbortType ==
  ASSUME NEW S, NEW reads \in [Conn -> ReadState]
  PROVE  Abort(S, reads) \in [Conn -> ReadState]
  BY DEF Abort, ReadState

\* Failing writes leaves counts.
LEMMA FailType ==
  ASSUME NEW S, NEW writes \in [Conn -> 0..MaxWrites]
  PROVE  Fail(S, writes) \in [Conn -> 0..MaxWrites]
<1>1. \A c \in Conn : (IF c \in S /\ writes[c] < MaxWrites THEN writes[c] + 1 ELSE writes[c]) \in 0..MaxWrites
  BY WritesAssumption
<1> QED BY <1>1 DEF Fail

\* The handler of a failed write leaves one less.
LEMMA HandledType ==
  ASSUME NEW writes \in [Conn -> 0..MaxWrites], NEW c \in Conn, writes[c] > 0
  PROVE  [writes EXCEPT ![c] = @ - 1] \in [Conn -> 0..MaxWrites]
<1>1. writes[c] - 1 \in 0..MaxWrites
  BY WritesAssumption
<1> QED BY <1>1

\* The next read of a connection is a read state.
LEMMA ReadsOnType ==
  ASSUME RTypeOK, NEW c \in Conn, NEW S
  PROVE  ReadsOn(c, S) \in [Conn -> ReadState]
  BY DEF ReadsOn, NextRead, RTypeOK, ReadState

\* Stop keeps the types of what it changes, and leaves an empty table.
LEMMA StopFacts ==
  ASSUME RTypeOK, NEW table, NEW reads \in [Conn -> ReadState],
         NEW socks \in [Conn -> SockState], StopRouter(table, reads, socks)
  PROVE  /\ tmr' \in [Cid -> {"none", "armed", "fired"}]
         /\ bc' \in {"none", "armed", "pool", "done"}
         /\ up' = FALSE /\ listening' = FALSE /\ acc' = "off" /\ accConn' = NoConn
         /\ zombie' \in BOOLEAN
         /\ gone' \subseteq Conn
         /\ sessions' = [k \in Cid |-> NoConn]
         /\ sock' \in [Conn -> SockState]
         /\ rd' \in [Conn -> ReadState]
<1>1. zombie' \in BOOLEAN
  BY Zenon DEF StopRouter, RTypeOK
<1> QED BY <1>1, ShutFacts, AbortType DEF StopRouter, RTypeOK

\* Refusing and admitting a connection keep the types of what they change.
LEMMA AcceptTypes ==
  ASSUME RTypeOK, NEW c \in Conn \cup {NoConn}, Refuse(c) \/ Admit(c)
  PROVE  /\ sock' \in [Conn -> SockState] /\ peer' \in [Conn -> BOOLEAN]
         /\ rd' \in [Conn -> ReadState] /\ wr' \in [Conn -> 0..MaxWrites]
         /\ cidOf' \in [Conn -> Cid \cup {NoCid}]
         /\ sessions' \in [Cid -> Conn \cup {NoConn}]
         /\ main_online' \in BOOLEAN /\ hb_started' \in BOOLEAN
         /\ tmr' \in [Cid -> {"none", "armed", "fired"}]
         /\ bc' \in {"none", "armed", "pool", "done"}
         /\ groups' \in [Cid -> {"none", "core", "out"}]
<1>1. CASE Refuse(c)
  <2>1. sock' \in [Conn -> SockState]
    BY <1>1, ShutFacts DEF Refuse, RTypeOK
  <2>2. groups' \in [Cid -> {"none", "core", "out"}]
    BY <1>1 DEF Refuse, RTypeOK, Group
  <2> QED BY <2>1, <2>2, <1>1 DEF Refuse, RTypeOK
<1>2. CASE Admit(c)
  <2>1. sock' \in [Conn -> SockState] /\ wr' \in [Conn -> 0..MaxWrites]
    BY <1>2, ShutFacts, FailType DEF Admit, RTypeOK
  <2>2. groups' \in [Cid -> {"none", "core", "out"}]
    BY <1>2 DEF Admit, RTypeOK, Group
  <2>3. "waiting" \in ReadState
    BY DEF ReadState
  <2>4. /\ tmr' \in [Cid -> {"none", "armed", "fired"}]
        /\ sessions' \in [Cid -> Conn \cup {NoConn}]
        /\ rd' \in [Conn -> ReadState]
        /\ cidOf' \in [Conn -> Cid \cup {NoCid}]
    BY <1>2, <2>3 DEF Admit, UpdateClient, RTypeOK, Authenticated
  <2>5. main_online' \in BOOLEAN /\ hb_started' \in BOOLEAN
    BY <1>2, Zenon DEF Admit
  <2> QED BY <2>1, <2>2, <2>4, <2>5, <1>2 DEF Admit, RTypeOK
<1> QED BY <1>1, <1>2

\* The router starts well typed, in its first life and in a later one.
LEMMA RTypeInit == RInit \/ LaterInit => RTypeOK
<1> SUFFICES ASSUME RInit \/ LaterInit PROVE RTypeOK
  OBVIOUS
<1>1. /\ "off" \in AccState /\ "none" \in SockState /\ "none" \in ReadState
      /\ 0 \in 0..MaxWrites
  BY WritesAssumption DEF AccState, SockState, ReadState
<1>2. SrvInit
  BY DEF RInit, LaterInit
<1>3. /\ listening \in BOOLEAN /\ acc \in AccState /\ accConn \in Conn \cup {NoConn}
      /\ sock \in [Conn -> SockState] /\ peer \in [Conn -> BOOLEAN]
      /\ rd \in [Conn -> ReadState] /\ wr \in [Conn -> 0..MaxWrites]
      /\ cidOf \in [Conn -> Cid \cup {NoCid}]
      /\ sessions \in [Cid -> Conn \cup {NoConn}]
      /\ fault = "none"
  BY <1>1, <1>2 DEF SrvInit
<1>4. /\ up = FALSE /\ starts = 0 /\ main_online \in BOOLEAN /\ hb_started \in BOOLEAN
      /\ gone = {} /\ zombie = FALSE /\ due = {} /\ bc = "none" /\ allowed = {}
      /\ out = NoEnvelope /\ tmr = [k \in Cid |-> "none"]
      /\ groups \in [Cid -> {"none", "core", "out"}]
  BY DEF RInit, LaterInit
<1>5. /\ up \in BOOLEAN /\ zombie \in BOOLEAN
  BY <1>4
<1>6. starts \in 0..MaxStarts
  BY <1>4, SMT
<1> QED BY <1>3, <1>4, <1>5, <1>6, Zenon DEF RTypeOK

\* Every step keeps the types.
LEMMA RTypeStep == RTypeOK /\ [RNext]_rVars => RTypeOK'
<1> SUFFICES ASSUME RTypeOK, [RNext]_rVars PROVE RTypeOK'
  OBVIOUS
<1> DEFINE Quiet == out' = NoEnvelope
<1>t. /\ "waiting" \in AccState /\ "accepted" \in AccState /\ "off" \in AccState
      /\ "badf" \in AccState
      /\ "backlog" \in SockState /\ "open" \in SockState /\ "closed" \in SockState
      /\ "msg" \in ReadState /\ "none" \in ReadState /\ "waiting" \in ReadState
      /\ "eof" \in ReadState /\ "error" \in ReadState
  BY DEF AccState, SockState, ReadState
<1>1. ASSUME NEW c \in Conn, Environment(c), UNCHANGED routerVars, Quiet PROVE RTypeOK'
  <2>1. CASE PeerConnects(c)
    BY <2>1, <1>1, <1>t DEF PeerConnects, RTypeOK, routerVars
  <2>2. CASE PeerCloses(c)
    BY <2>2, <1>1, <1>t DEF PeerCloses, RTypeOK, routerVars
  <2>3. CASE AcceptCompletes(c)
    BY <2>3, <1>1, <1>t DEF AcceptCompletes, RTypeOK, routerVars
  <2>4. CASE ReadCompletes(c)
    BY <2>4, <1>1, <1>t DEF ReadCompletes, RTypeOK, routerVars
  <2> QED BY <2>1, <2>2, <2>3, <2>4, <1>1 DEF Environment
<1>2. ASSUME NEW c \in Conn, ReadEnds(c), UNCHANGED routerVars, Quiet PROVE RTypeOK'
  <2>1. sock' \in [Conn -> SockState]
    BY <1>2, ShutFacts DEF ReadEnds, RTypeOK
  <2> QED BY <2>1, <1>2, <1>t, ZenonT(60) DEF ReadEnds, RTypeOK, routerVars
<1>3. ASSUME Start, Quiet PROVE RTypeOK'
  BY <1>3, <1>t DEF Start, RTypeOK, hbVars
<1>4. ASSUME Stop, Quiet PROVE RTypeOK'
  <2>1. StopRouter(sessions, rd, sock)
    BY <1>4 DEF Stop
  <2> HIDE DEF RTypeOK
  <2>2. /\ tmr' \in [Cid -> {"none", "armed", "fired"}]
        /\ bc' \in {"none", "armed", "pool", "done"}
        /\ up' = FALSE /\ listening' = FALSE /\ acc' = "off" /\ accConn' = NoConn
        /\ zombie' \in BOOLEAN
        /\ gone' \subseteq Conn
        /\ sessions' = [k \in Cid |-> NoConn]
        /\ sock' \in [Conn -> SockState]
        /\ rd' \in [Conn -> ReadState]
    BY <2>1, StopFacts DEF RTypeOK
  <2> QED BY <2>2, <1>4, <1>t DEF Stop, RTypeOK
<1>5. ASSUME AcceptRefuses \/ AcceptClient, Quiet PROVE RTypeOK'
  <2>1. Refuse(accConn) \/ Admit(accConn)
    BY <1>5 DEF AcceptRefuses, AcceptClient
  <2>2. /\ UNCHANGED <<listening, fault, up, starts, gone, zombie, due, allowed>>
        /\ acc' = "waiting" /\ accConn' = NoConn
    BY <1>5 DEF AcceptRefuses, AcceptClient, AcceptHandled
  <2> QED BY <2>1, <2>2, <1>5, <1>t, AcceptTypes DEF RTypeOK
<1>6. ASSUME ZombieAccepts, Quiet PROVE RTypeOK'
  <2>1. PICK c \in Stranded : Refuse(c) \/ Admit(c)
    BY <1>6 DEF ZombieAccepts
  <2>2. /\ UNCHANGED <<listening, acc, accConn, fault, up, starts, gone, due, allowed>>
        /\ zombie' \in BOOLEAN
    BY <1>6 DEF ZombieAccepts
  <2>3. c \in Conn
    BY DEF Stranded
  <2> QED BY <2>1, <2>2, <2>3, <1>6, AcceptTypes DEF RTypeOK
<1>7. ASSUME ZombieAccept, Quiet PROVE RTypeOK'
  <2>1. sock' \in [Conn -> SockState]
    <3>1. sock' = sock \/ sock' = Shut(Stranded, sock)
      BY <1>7 DEF ZombieAccept
    <3> QED BY <3>1, ShutFacts DEF RTypeOK
  <2> QED BY <2>1, <1>7, ZenonT(60) DEF ZombieAccept, RTypeOK, hbVars
<1>8. ASSUME NEW c \in Conn, MessageIgnored(c), Quiet PROVE RTypeOK'
  <2>1. rd' \in [Conn -> ReadState]
    BY <1>8, ReadsOnType DEF MessageIgnored
  <2> QED BY <2>1, <1>8 DEF MessageIgnored, RTypeOK, routerVars
<1>9. ASSUME NEW c \in Conn, MessageHeartbeat(c), Quiet PROVE RTypeOK'
  <2>1. tmr' \in [Cid -> {"none", "armed", "fired"}]
    BY <1>9 DEF MessageHeartbeat, UpdateClient, RTypeOK
  <2>2. rd' \in [Conn -> ReadState]
    BY <1>9, ReadsOnType DEF MessageHeartbeat
  <2> QED BY <2>1, <2>2, <1>9 DEF MessageHeartbeat, RTypeOK
<1>10. ASSUME NEW c \in Conn, MessageEnableApp(c), Quiet PROVE RTypeOK'
  <2>1. rd' \in [Conn -> ReadState] /\ allowed' \subseteq Apps
    BY <1>10, ReadsOnType DEF MessageEnableApp, RTypeOK
  <2> QED BY <2>1, <1>10 DEF MessageEnableApp, RTypeOK, hbVars
<1>11. ASSUME NEW c \in Conn, MessageStop(c), Quiet PROVE RTypeOK'
  <2>1. StopRouter(sessions, ReadsOn(c, Registered), sock)
    BY <1>11 DEF MessageStop
  <2>2. ReadsOn(c, Registered) \in [Conn -> ReadState] /\ sock \in [Conn -> SockState]
    BY ReadsOnType DEF RTypeOK
  <2>3. /\ tmr' \in [Cid -> {"none", "armed", "fired"}]
        /\ bc' \in {"none", "armed", "pool", "done"}
        /\ up' = FALSE /\ listening' = FALSE /\ acc' = "off" /\ accConn' = NoConn
        /\ zombie' \in BOOLEAN
        /\ gone' \subseteq Conn
        /\ sessions' = [k \in Cid |-> NoConn]
        /\ sock' \in [Conn -> SockState]
        /\ rd' \in [Conn -> ReadState]
    BY <2>1, <2>2, StopFacts
  <2> QED BY <2>3, <1>11, <1>t DEF MessageStop, FromClient, RTypeOK
<1>12. ASSUME NEW c \in Conn, MessageForwarded(c) PROVE RTypeOK'
  <2>1. /\ fault' \in {"none", "null"}
        /\ out' \in Envelope \cup {NoEnvelope}
    BY <1>12 DEF MessageForwarded, Envelope
  <2>2. wr' \in [Conn -> 0..MaxWrites]
    BY <1>12, FailType DEF MessageForwarded, RTypeOK
  <2>3. rd' \in [Conn -> ReadState]
    BY <1>12, ReadsOnType DEF MessageForwarded
  <2> QED BY <2>1, <2>2, <2>3, <1>12 DEF MessageForwarded, RTypeOK, routerVars
<1>13. ASSUME NEW c \in Conn, AuthorizeCrashes(c), Quiet PROVE RTypeOK'
  BY <1>13 DEF AuthorizeCrashes, RTypeOK, routerVars
<1>14. ASSUME NEW c \in Conn, NEW reads \in [Conn -> ReadState],
              NEW writes \in [Conn -> 0..MaxWrites], SessionError(c, reads, writes), Quiet
       PROVE  RTypeOK'
  <2>1. CASE Disconnect(c, reads, writes) /\ UNCHANGED fault
    <3> DEFINE ended == Abort(Victim(cidOf[c]), reads)
               failed == Fail(FailedSend(Main, Erased(cidOf[c]), sock), writes)
               socks == Shut(Victim(cidOf[c])
                              \cup Unreferenced({c}, Erased(cidOf[c]), ended, failed), sock)
    <3>1. ended \in [Conn -> ReadState] /\ socks \in [Conn -> SockState]
      BY AbortType, ShutFacts DEF RTypeOK
    <3>2. failed \in [Conn -> 0..MaxWrites]
      BY FailType
    <3>3. /\ groups' = [groups EXCEPT ![cidOf[c]] = "none"]
          /\ wr' = failed
          /\ main_online' \in BOOLEAN
      BY <2>1, Zenon DEF Disconnect
    <3> HIDE DEF ended, failed, socks
    <3>4. CASE StopRouter(Erased(cidOf[c]), ended, socks)
      <4>1. /\ tmr' \in [Cid -> {"none", "armed", "fired"}]
            /\ bc' \in {"none", "armed", "pool", "done"}
            /\ up' = FALSE /\ listening' = FALSE /\ acc' = "off" /\ accConn' = NoConn
            /\ zombie' \in BOOLEAN
            /\ gone' \subseteq Conn
            /\ sessions' = [k \in Cid |-> NoConn]
            /\ sock' \in [Conn -> SockState]
            /\ rd' \in [Conn -> ReadState]
        BY <3>4, <3>1, StopFacts
      <4> QED BY <4>1, <3>2, <3>3, <2>1, <1>14, <1>t DEF SessionError, RTypeOK
    <3>5. CASE /\ StopClient(cidOf[c])
               /\ sessions' = Erased(cidOf[c])
               /\ sock' = socks
               /\ rd' = ended
               /\ UNCHANGED <<listening, acc, accConn, up, gone, zombie, bc>>
      BY <3>5, <3>1, <3>2, <3>3, <2>1, <1>14, ZenonT(60) DEF SessionError, RTypeOK, StopClient, Erased
    <3> QED BY <3>4, <3>5, <2>1, ZenonT(60) DEF Disconnect, ended, failed, socks
  <2>2. CASE ErrorIgnored(c, reads, writes) /\ (UNCHANGED fault \/ fault' = "dangling")
    <3>1. sock' \in [Conn -> SockState]
      BY <2>2, ShutFacts DEF ErrorIgnored, RTypeOK
    <3>2. /\ rd' \in [Conn -> ReadState] /\ wr' \in [Conn -> 0..MaxWrites]
          /\ fault' \in {"none", "broadcast", "close", "null", "dangling", "acl"}
      BY <2>2 DEF ErrorIgnored, RTypeOK
    <3>3. UNCHANGED <<listening, acc, accConn, sessions, up, main_online, gone, zombie, tmr, bc, groups>>
      BY <2>2 DEF ErrorIgnored
    <3>4. UNCHANGED <<peer, cidOf, starts, hb_started, due, allowed>>
      BY <1>14 DEF SessionError
    <3>5. out' \in Envelope \cup {NoEnvelope}
      BY <1>14
    <3> QED BY <3>1, <3>2, <3>3, <3>4, <3>5 DEF RTypeOK
  <2> QED BY <2>1, <2>2, <1>14 DEF SessionError
<1>15. ASSUME NEW c \in Conn, ReadFails(c), Quiet PROVE RTypeOK'
  <2>1. [rd EXCEPT ![c] = "none"] \in [Conn -> ReadState] /\ wr \in [Conn -> 0..MaxWrites]
    BY <1>t DEF RTypeOK
  <2> QED BY <2>1, <1>15, <1>14 DEF ReadFails
<1>16. ASSUME NEW c \in Conn, WriteFails(c), Quiet PROVE RTypeOK'
  <2>1. rd \in [Conn -> ReadState] /\ [wr EXCEPT ![c] = @ - 1] \in [Conn -> 0..MaxWrites]
    BY <1>16, HandledType DEF WriteFails, RTypeOK
  <2> QED BY <2>1, <1>16, <1>14 DEF WriteFails
<1>17. ASSUME BroadcastExpires \/ Broadcast, Quiet PROVE RTypeOK'
  BY <1>17 DEF BroadcastExpires, Broadcast, RTypeOK, srvVars
<1>18. ASSUME NEW k \in Cid, TimeoutExpires(k), Quiet PROVE RTypeOK'
  BY <1>18 DEF TimeoutExpires, RTypeOK, srvVars
<1>19. ASSUME NEW k \in Cid, TimeoutHandler(k), Quiet PROVE RTypeOK'
  <2>1. sock' \in [Conn -> SockState] /\ rd' \in [Conn -> ReadState]
    BY <1>19, ShutFacts, AbortType DEF TimeoutHandler, RTypeOK
  <2>2. fault' \in {"none", "null", "close"}
    BY <1>19 DEF TimeoutHandler
  <2> QED BY <2>1, <2>2, <1>19 DEF TimeoutHandler, StopClient, RTypeOK
<1>20. ASSUME UNCHANGED rVars PROVE RTypeOK'
  BY <1>20 DEF rVars, RTypeOK
<1> QED BY <1>1, <1>2, <1>3, <1>4, <1>5, <1>6, <1>7, <1>8, <1>9, <1>10, <1>11, <1>12, <1>13,
           <1>15, <1>16, <1>17, <1>18, <1>19, <1>20 DEF RNext, Silent, MessageHandler

-----------------------------------------------------------------------------
(* The inductive invariant.                                                *)

\* Its parts that a step can disturb in more than one way.
Core == AcceptedOnly /\ Watched /\ RegisteredIsKnown /\ Identity

\* A step that accepts nobody, closes what it likes, and takes the timer or the
\* group only from ids it also takes out of the table, preserves Core.
LEMMA Calm ==
  ASSUME RTypeOK, RTypeOK', Core, cidOf' = cidOf, allowed \subseteq allowed',
         \A c \in Conn : sock'[c] \in {sock[c], "closed"},
         \A k \in Cid : groups'[k] \in {groups[k], "none"},
         acc' = "accepted" => acc = "accepted" /\ accConn' = accConn,
         \A k \in Cid :
           \/ sessions'[k] = NoConn
           \/ /\ sessions'[k] = sessions[k]
              /\ groups'[k] = groups[k]
              /\ sock'[sessions[k]] = "open" /\ (tmr[k] = "armed" \/ k \in due)
                   => tmr'[k] = "armed" \/ k \in due'
  PROVE  Core'
<1>1. AcceptedOnly'
  BY DEF Core, AcceptedOnly, RTypeOK
<1>2. Watched'
  BY DEF Core, Watched, RTypeOK
<1>3. RegisteredIsKnown'
  BY DEF Core, RegisteredIsKnown, Group
<1>4. Identity'
  BY DEF Core, Identity, Group
<1> QED BY <1>1, <1>2, <1>3, <1>4 DEF Core

\* The same for a step that leaves the table, the groups and the ids alone.
LEMMA Undisturbed ==
  ASSUME RTypeOK, RTypeOK', Core, UNCHANGED <<cidOf, sessions, groups, allowed>>,
         \A c \in Conn : sock'[c] \in {sock[c], "closed"},
         acc' = "accepted" => acc = "accepted" /\ accConn' = accConn,
         \A k \in Cid : (tmr[k] = "armed" \/ k \in due) => tmr'[k] = "armed" \/ k \in due'
  PROVE  Core'
<1>1. allowed \subseteq allowed'
  OBVIOUS
<1> QED BY <1>1, Calm

\* Stop empties the table.
LEMMA StopCalm ==
  ASSUME RTypeOK, RTypeOK', Core, cidOf' = cidOf, allowed' = allowed,
         \A k \in Cid : groups'[k] \in {groups[k], "none"},
         NEW table, NEW reads, NEW socks \in [Conn -> SockState],
         \A c \in Conn : socks[c] \in {sock[c], "closed"},
         StopRouter(table, reads, socks)
  PROVE  Core'
<1>1. \A k \in Cid : sessions'[k] = NoConn
  BY DEF StopRouter
<1>2. \A c \in Conn : sock'[c] \in {sock[c], "closed"}
  BY ShutFacts DEF StopRouter
<1>3. acc' # "accepted"
  BY DEF StopRouter
<1> QED BY <1>1, <1>2, <1>3, Calm

\* A connection whose accept has completed may be refused or admitted.
LEMMA AcceptsCore ==
  ASSUME RTypeOK, RTypeOK', Core, NEW c \in Conn, sock[c] \in {"open", "closed"},
         Refuse(c) \/ Admit(c), UNCHANGED <<due, allowed>>,
         acc' = "accepted" => acc = "accepted" /\ accConn' = accConn
  PROVE  Core'
<1>1. CASE Refuse(c)
  <2>1. \A d \in Conn : sock'[d] \in {sock[d], "closed"}
    BY <1>1, ShutFacts DEF Refuse, RTypeOK
  <2>2. UNCHANGED <<sessions, tmr>>
    BY <1>1 DEF Refuse
  <2>3. AcceptedOnly' /\ Watched'
    BY <2>1, <2>2 DEF Core, AcceptedOnly, Watched, RTypeOK
  <2>4. RegisteredIsKnown' /\ Identity'
    BY <1>1 DEF Refuse, Authenticated, Core, RegisteredIsKnown, Identity, Group, RTypeOK
  <2> QED BY <2>3, <2>4 DEF Core
<1>2. CASE Admit(c)
  <2> DEFINE k == Who[c]
  <2>1. k \in Cid
    BY <1>2 DEF Admit, Authenticated
  <2>2. \A d \in Conn : sock'[d] \in {sock[d], "closed"}
    BY <1>2, ShutFacts DEF Admit, RTypeOK
  <2>3. /\ sessions' = [sessions EXCEPT ![k] = c]
        /\ tmr' = [tmr EXCEPT ![k] = "armed"]
        /\ groups' = [groups EXCEPT ![k] = Group(k)]
        /\ cidOf' = [cidOf EXCEPT ![c] = k]
        /\ k \in Apps => k \in allowed
    BY <1>2 DEF Admit, UpdateClient, Authenticated
  <2>4. AcceptedOnly'
    BY <2>1, <2>2, <2>3 DEF Core, AcceptedOnly, RTypeOK
  <2>5. Watched'
    BY <2>1, <2>2, <2>3 DEF Core, Watched, RTypeOK
  <2>6. RegisteredIsKnown' /\ Identity'
    BY <2>1, <2>3 DEF Core, RegisteredIsKnown, Identity, Group, RTypeOK
  <2> QED BY <2>4, <2>5, <2>6 DEF Core
<1> QED BY <1>1, <1>2

\* The initial states satisfy the invariant.
LEMMA RInvInit == RInit \/ LaterInit => RInv
<1> SUFFICES ASSUME RInit \/ LaterInit PROVE RInv
  OBVIOUS
<1>1. /\ sessions = [k \in Cid |-> NoConn] /\ acc = "off" /\ out = NoEnvelope
      /\ cidOf = [c \in Conn |-> NoCid]
  BY DEF RInit, LaterInit, SrvInit
<1>2. AcceptedOnly /\ Watched /\ RegisteredIsKnown
  BY <1>1 DEF AcceptedOnly, Watched, RegisteredIsKnown
<1>3. Identity
  BY <1>1 DEF RInit, LaterInit, Identity, Group
<1>4. AclEnforced
  BY <1>1 DEF AclEnforced
<1> QED BY <1>2, <1>3, <1>4, RTypeInit DEF RInv

\* Every step preserves Core: one step per action.
LEMMA CoreStep == RTypeOK /\ Core /\ [RNext]_rVars => Core'
<1> SUFFICES ASSUME RTypeOK, Core, [RNext]_rVars PROVE Core'
  OBVIOUS
<1>t. RTypeOK'
  BY RTypeStep
<1>1. ASSUME NEW c \in Conn, PeerConnects(c), UNCHANGED routerVars PROVE Core'
  <2>1. \A k \in Cid : sessions[k] # c /\ (acc = "accepted" => accConn # c)
    BY <1>1 DEF PeerConnects, Core, AcceptedOnly
  <2>2. \A d \in Conn : d # c => sock'[d] = sock[d]
    BY <1>1 DEF PeerConnects, RTypeOK
  <2>3. AcceptedOnly' /\ Watched'
    BY <2>1, <2>2, <1>1 DEF PeerConnects, Core, AcceptedOnly, Watched, RTypeOK, routerVars
  <2>4. RegisteredIsKnown' /\ Identity'
    BY <1>1 DEF PeerConnects, Core, RegisteredIsKnown, Identity, Group, routerVars
  <2> QED BY <2>3, <2>4 DEF Core
<1>2. ASSUME NEW c \in Conn, PeerCloses(c) \/ ReadCompletes(c), UNCHANGED routerVars PROVE Core'
  BY <1>2, <1>t, Undisturbed DEF PeerCloses, ReadCompletes, routerVars
<1>3. ASSUME NEW c \in Conn, AcceptCompletes(c), UNCHANGED routerVars PROVE Core'
  <2>1. \A k \in Cid : sessions[k] # c
    BY <1>3 DEF AcceptCompletes, Core, AcceptedOnly
  <2>2. sock'[c] = "open" /\ \A d \in Conn : d # c => sock'[d] = sock[d]
    BY <1>3 DEF AcceptCompletes, RTypeOK
  <2>3. AcceptedOnly' /\ Watched'
    BY <2>1, <2>2, <1>3 DEF AcceptCompletes, Core, AcceptedOnly, Watched, RTypeOK, routerVars
  <2>4. RegisteredIsKnown' /\ Identity'
    BY <1>3 DEF AcceptCompletes, Core, RegisteredIsKnown, Identity, Group, routerVars
  <2> QED BY <2>3, <2>4 DEF Core
<1>4. ASSUME NEW c \in Conn, ReadEnds(c), UNCHANGED routerVars PROVE Core'
  <2>1. \A d \in Conn : sock'[d] \in {sock[d], "closed"}
    BY <1>4, ShutFacts DEF ReadEnds, RTypeOK
  <2> QED BY <2>1, <1>4, <1>t, Undisturbed DEF ReadEnds, routerVars
<1>5. CASE Start
  BY <1>5, <1>t, Undisturbed DEF Start, hbVars
<1>6. CASE Stop
  <2>1. /\ StopRouter(sessions, rd, sock) /\ sock \in [Conn -> SockState]
        /\ cidOf' = cidOf /\ allowed' = allowed /\ groups' = groups
    BY <1>6 DEF Stop, RTypeOK
  <2> QED BY <2>1, <1>t, StopCalm
<1>7. CASE AcceptRefuses \/ AcceptClient
  <2>1. /\ Refuse(accConn) \/ Admit(accConn)
        /\ UNCHANGED <<due, allowed>> /\ acc = "accepted" /\ acc' = "waiting"
    BY <1>7 DEF AcceptRefuses, AcceptClient, AcceptHandled
  <2>2. accConn \in Conn /\ sock[accConn] \in {"open", "closed"}
    BY <2>1 DEF Core, AcceptedOnly
  <2> QED BY <2>1, <2>2, <1>t, AcceptsCore
<1>8. CASE ZombieAccepts
  <2>1. PICK c \in Stranded : Refuse(c) \/ Admit(c)
    BY <1>8 DEF ZombieAccepts
  <2>2. UNCHANGED <<due, allowed, acc, accConn>>
    BY <1>8 DEF ZombieAccepts
  <2>3. c \in Conn /\ sock[c] = "open"
    BY DEF Stranded
  <2> QED BY <2>1, <2>2, <2>3, <1>t, AcceptsCore
<1>9. CASE ZombieAccept
  <2>1. sock' = sock \/ sock' = Shut(Stranded, sock)
    BY <1>9 DEF ZombieAccept
  <2>2. \A c \in Conn : sock'[c] \in {sock[c], "closed"}
    BY <2>1, ShutFacts DEF RTypeOK
  <2> QED BY <2>2, <1>9, <1>t, Undisturbed DEF ZombieAccept, hbVars
<1>10. ASSUME NEW c \in Conn, MessageIgnored(c) \/ MessageForwarded(c) \/ AuthorizeCrashes(c)
       PROVE  Core'
  BY <1>10, <1>t, Undisturbed DEF MessageIgnored, MessageForwarded, AuthorizeCrashes, routerVars
<1>11. ASSUME NEW c \in Conn, MessageHeartbeat(c) PROVE Core'
  <2>1. \A k \in Cid : tmr[k] = "armed" => tmr'[k] = "armed"
    BY <1>11 DEF MessageHeartbeat, UpdateClient, RTypeOK
  <2> QED BY <2>1, <1>11, <1>t, Undisturbed DEF MessageHeartbeat
<1>12. ASSUME NEW c \in Conn, MessageEnableApp(c) PROVE Core'
  BY <1>12, <1>t, Calm DEF MessageEnableApp, hbVars
<1>13. ASSUME NEW c \in Conn, MessageStop(c) PROVE Core'
  <2>1. /\ StopRouter(sessions, ReadsOn(c, Registered), sock) /\ sock \in [Conn -> SockState]
        /\ cidOf' = cidOf /\ allowed' = allowed /\ groups' = groups
    BY <1>13 DEF MessageStop, RTypeOK
  <2> QED BY <2>1, <1>t, StopCalm
<1>14. ASSUME NEW c \in Conn, NEW reads, NEW writes, SessionError(c, reads, writes) PROVE Core'
  <2>1. cidOf' = cidOf /\ allowed' = allowed /\ due' = due
    BY <1>14 DEF SessionError
  <2>2. CASE Disconnect(c, reads, writes)
    <3> DEFINE ended == Abort(Victim(cidOf[c]), reads)
               failed == Fail(FailedSend(Main, Erased(cidOf[c]), sock), writes)
               socks == Shut(Victim(cidOf[c])
                              \cup Unreferenced({c}, Erased(cidOf[c]), ended, failed), sock)
    <3>1. socks \in [Conn -> SockState] /\ \A d \in Conn : socks[d] \in {sock[d], "closed"}
      BY ShutFacts DEF RTypeOK
    <3>2. groups' = [groups EXCEPT ![cidOf[c]] = "none"]
      BY <2>2 DEF Disconnect
    <3>3. \A k \in Cid : groups'[k] \in {groups[k], "none"}
      BY <3>2 DEF RTypeOK
    <3> HIDE DEF ended, failed, socks
    <3>4. CASE StopRouter(Erased(cidOf[c]), ended, socks)
      BY <3>4, <3>1, <3>3, <2>1, <1>t, StopCalm
    <3>5. CASE /\ StopClient(cidOf[c])
               /\ sessions' = Erased(cidOf[c])
               /\ sock' = socks
               /\ UNCHANGED <<acc, accConn>>
      <4>1. \A k \in Cid : \/ sessions'[k] = NoConn
                           \/ /\ sessions'[k] = sessions[k] /\ tmr'[k] = tmr[k]
                              /\ groups'[k] = groups[k]
        BY <3>5, <3>2 DEF StopClient, Erased, RTypeOK
      <4> QED BY <4>1, <3>5, <3>1, <3>3, <2>1, <1>t, Calm
    <3> QED BY <3>4, <3>5, <2>2 DEF Disconnect, ended, failed, socks
  <2>3. CASE ErrorIgnored(c, reads, writes)
    <3>1. \A d \in Conn : sock'[d] \in {sock[d], "closed"}
      BY <2>3, ShutFacts DEF ErrorIgnored, RTypeOK
    <3> QED BY <3>1, <2>1, <2>3, <1>t, Undisturbed DEF ErrorIgnored
  <2> QED BY <2>2, <2>3, <1>14 DEF SessionError
<1>15. ASSUME NEW c \in Conn, ReadFails(c) \/ WriteFails(c) PROVE Core'
  BY <1>15, <1>14 DEF ReadFails, WriteFails
<1>16. CASE BroadcastExpires \/ Broadcast
  BY <1>16, <1>t, Undisturbed DEF BroadcastExpires, Broadcast, srvVars
<1>17. ASSUME NEW k \in Cid, TimeoutExpires(k) PROVE Core'
  <2>1. \A j \in Cid : (tmr[j] = "armed" \/ j \in due) => tmr'[j] = "armed" \/ j \in due'
    BY <1>17 DEF TimeoutExpires, RTypeOK
  <2> QED BY <2>1, <1>17, <1>t, Undisturbed DEF TimeoutExpires, srvVars
<1>18. ASSUME NEW k \in Cid, TimeoutHandler(k) PROVE Core'
  <2>1. \A c \in Conn : sock'[c] \in {sock[c], "closed"}
    BY <1>18, ShutFacts DEF TimeoutHandler, RTypeOK
  <2>2. sessions[k] # NoConn => sock'[sessions[k]] = "closed"
    BY <1>18, ShutFacts DEF TimeoutHandler, Victim, RTypeOK
  <2>3. \A j \in Cid : j # k => tmr'[j] = tmr[j] /\ (j \in due => j \in due')
    BY <1>18 DEF TimeoutHandler, StopClient, RTypeOK
  <2> QED BY <2>1, <2>2, <2>3, <1>18, <1>t, Calm DEF TimeoutHandler
<1>19. CASE UNCHANGED rVars
  BY <1>19, <1>t, Undisturbed DEF rVars
<1> QED BY <1>1, <1>2, <1>3, <1>4, <1>5, <1>6, <1>7, <1>8, <1>9, <1>10, <1>11, <1>12, <1>13,
           <1>15, <1>16, <1>17, <1>18, <1>19
        DEF RNext, Silent, MessageHandler, Environment

\* What is forwarded was authorised for a connection's own id.
LEMMA AclStep == RTypeOK /\ Core /\ [RNext]_rVars /\ AclEnforced => AclEnforced'
<1> SUFFICES ASSUME RTypeOK, Core, [RNext]_rVars, AclEnforced PROVE AclEnforced'
  OBVIOUS
<1>1. ASSUME NEW c \in Conn, MessageForwarded(c) PROVE AclEnforced'
  <2>1. CASE out' = NoEnvelope
    BY <2>1 DEF AclEnforced
  <2>2. CASE out' # NoEnvelope
    <3>1. PICK from \in Cid, to \in Cid :
            from = cidOf[c] /\ Authorize(from, to) = "yes" /\ out' = <<from, to>>
      BY <1>1, <2>2 DEF MessageForwarded
    <3>2. Who[c] = from /\ cidOf'[c] = from
      BY <3>1, <1>1 DEF MessageForwarded, Core, Identity
    <3>3. ASSUME from \in Apps
          PROVE  to \notin Apps /\ Policy[to] = "all_accessible" /\ from \in allowed'
      <4>1. groups[from] = "out"
        BY <3>1, <3>3 DEF Authorize, Core, Identity, Group
      <4>2. to \notin Apps /\ Policy[to] = "all_accessible"
        BY <3>1, <4>1 DEF Authorize
      <4>3. from \in allowed'
        BY <4>1, <3>3, <1>1 DEF MessageForwarded, routerVars, Core, Identity
      <4> QED BY <4>2, <4>3
    <3> QED BY <3>1, <3>2, <3>3 DEF AclEnforced
  <2> QED BY <2>1, <2>2
<1>2. CASE out' = NoEnvelope
  BY <1>2 DEF AclEnforced
<1>3. CASE UNCHANGED rVars
  BY <1>3 DEF rVars, AclEnforced
<1> QED BY <1>1, <1>2, <1>3 DEF RNext, MessageHandler

\* The invariant holds throughout, in the router's first life and in a later one.
THEOREM RInvCorrect == RSpec \/ LaterSpec => []RInv
<1>1. RInit \/ LaterInit => RInv
  BY RInvInit
<1>2. RInv /\ [RNext]_rVars => RInv'
  BY RTypeStep, CoreStep, AclStep DEF RInv, Core
<1>3. RSpec => []RInv
  BY <1>1, <1>2, PTL DEF RSpec
<1>4. LaterSpec => []RInv
  BY <1>1, <1>2, PTL DEF LaterSpec
<1> QED BY <1>3, <1>4

\* Every variable of the router keeps its type.
THEOREM RTypeCorrect == RSpec \/ LaterSpec => []RTypeOK
<1>1. RInv => RTypeOK
  BY DEF RInv
<1> QED BY <1>1, RInvCorrect, PTL

\* Every registered client with an open socket is watched by a timeout.
THEOREM WatchedHolds == RSpec \/ LaterSpec => []Watched
<1>1. RInv => Watched
  BY DEF RInv
<1> QED BY <1>1, RInvCorrect, PTL

\* Every registered client has the group of its registry entry.
THEOREM RegisteredIsKnownHolds == RSpec \/ LaterSpec => []RegisteredIsKnown
<1>1. RInv => RegisteredIsKnown
  BY DEF RInv
<1> QED BY <1>1, RInvCorrect, PTL

\* What is forwarded for an app is what the registry lets it send.
THEOREM AclEnforcedHolds == RSpec \/ LaterSpec => []AclEnforced
<1>1. RInv => AclEnforced
  BY DEF RInv
<1> QED BY <1>1, RInvCorrect, PTL

-----------------------------------------------------------------------------
(* The sessions of the table are served.  The reads of every connection,    *)
(* of this server or of one that has been destroyed, end only with its peer *)
(* or its socket, so that the table's are read as long as they have both.   *)

\* A connection that has no session has no read, and is not of an old server.
Unread == \A c \in Conn : cidOf[c] = NoCid => rd[c] = "none" /\ c \notin gone

\* It has none before its accept handler.
Fresh ==
  \A c \in Conn :
    sock[c] \in {"none", "backlog"} \/ (acc = "accepted" /\ accConn = c) => cidOf[c] = NoCid

Ends ==
  \A c \in Conn :
    /\ rd[c] \in {"eof", "error"} => ~peer[c]
    /\ rd[c] \in {"aborted", "badf"} => sock[c] = "closed"
    /\ rd[c] = "none" /\ cidOf[c] # NoCid => sock[c] = "closed" \/ ~peer[c]

\* The table is keyed by id and holds sessions of the present server.
Keyed ==
  \A k \in Cid : sessions[k] # NoConn => cidOf[sessions[k]] = k /\ sessions[k] \notin gone

Serving == Unread /\ Fresh /\ Ends /\ Keyed

\* The state r of a read that a handler may leave to connection c.
Fits(r, c) ==
  \/ r = rd[c]
  \/ /\ rd[c] # "none"
     /\ \/ r \in {"waiting", "msg"}
        \/ r \in {"eof", "error"} /\ ~peer'[c]
        \/ r \in {"aborted", "badf"} /\ sock'[c] = "closed"
        \/ r = "none" /\ (sock'[c] = "closed" \/ ~peer'[c])

\* A step that accepts nobody, closes what it likes, takes what it likes out of the
\* table, and leaves reads that fit to connections that have one.
LEMMA Serves ==
  ASSUME RTypeOK, RTypeOK', Serving, cidOf' = cidOf,
         \A c \in Conn : sock'[c] \in {sock[c], "closed"},
         \A c \in Conn : peer'[c] => peer[c],
         acc' = "accepted" => acc = "accepted" /\ accConn' = accConn,
         \A c \in Conn : Fits(rd'[c], c),
         \/ gone' = gone /\ \A k \in Cid : sessions'[k] \in {sessions[k], NoConn}
         \/ /\ gone' = gone \cup {c \in Conn : cidOf[c] # NoCid}
            /\ \A k \in Cid : sessions'[k] = NoConn
  PROVE  Serving'
<1>0. Unread /\ Fresh /\ Ends /\ Keyed
  BY DEF Serving
<1>1. Unread'
  BY <1>0 DEF Unread, Fits
<1>2. Fresh'
  BY <1>0 DEF Fresh
<1>3. Ends'
  <2> SUFFICES ASSUME NEW c \in Conn
               PROVE  /\ rd'[c] \in {"eof", "error"} => ~peer'[c]
                      /\ rd'[c] \in {"aborted", "badf"} => sock'[c] = "closed"
                      /\ rd'[c] = "none" /\ cidOf'[c] # NoCid => sock'[c] = "closed" \/ ~peer'[c]
    BY DEF Ends
  <2>1. Fits(rd'[c], c)
    OBVIOUS
  <2> QED BY <1>0, <2>1 DEF Ends, Fits
<1>4. Keyed'
  BY <1>0 DEF Keyed
<1> QED BY <1>1, <1>2, <1>3, <1>4 DEF Serving

\* Aborting the reads of connections that are closed in the step leaves them fit.
LEMMA AbortServes ==
  ASSUME NEW S, NEW reads \in [Conn -> ReadState], \A c \in Conn : Fits(reads[c], c),
         \A c \in Conn : c \in S => sock'[c] = "closed"
  PROVE  \A c \in Conn : Fits(Abort(S, reads)[c], c)
<1>1. \A c \in Conn :
        Abort(S, reads)[c] = IF c \in S /\ reads[c] = "waiting" THEN "aborted" ELSE reads[c]
  BY DEF Abort
<1> QED BY <1>1 DEF Fits

\* The next read after a message is fit, if the sockets of S are closed in the step.
LEMMA ReadsOnServes ==
  ASSUME RTypeOK, NEW c \in Conn, rd[c] = "msg", NEW S,
         sock'[c] \in {sock[c], "closed"}, c \in S => sock'[c] = "closed"
  PROVE  \A d \in Conn : Fits(ReadsOn(c, S)[d], d)
<1>1. \A d \in Conn : ReadsOn(c, S)[d] = IF d = c THEN NextRead(sock[c] = "closed" \/ c \in S) ELSE rd[d]
  BY DEF ReadsOn, RTypeOK
<1> QED BY <1>1 DEF Fits, NextRead

\* Stop, called in a handler that leaves these reads and sockets.
LEMMA StopServes ==
  ASSUME RTypeOK, RTypeOK', Serving, cidOf' = cidOf, peer' = peer,
         NEW table, NEW reads \in [Conn -> ReadState], NEW socks \in [Conn -> SockState],
         \A c \in Conn : Fits(reads[c], c),
         \A c \in Conn : socks[c] \in {sock[c], "closed"},
         StopRouter(table, reads, socks)
  PROVE  Serving'
<1>1. sock' = Shut(Stopped(table), socks) /\ rd' = Abort(Stopped(table), reads)
  BY DEF StopRouter
<1>2. /\ \A c \in Conn : sock'[c] \in {sock[c], "closed"}
      /\ \A c \in Conn : c \in Stopped(table) => sock'[c] = "closed"
  BY <1>1, ShutFacts
<1>3. \A c \in Conn : Fits(rd'[c], c)
  BY <1>1, <1>2, AbortServes
<1>4. /\ acc' # "accepted" /\ \A k \in Cid : sessions'[k] = NoConn
      /\ gone' = gone \cup {c \in Conn : cidOf[c] # NoCid}
  BY DEF StopRouter
<1> QED BY <1>2, <1>3, <1>4, Serves

\* A connection without a session may be refused or admitted.
LEMMA AcceptsServe ==
  ASSUME RTypeOK, RTypeOK', Serving, NEW c \in Conn, cidOf[c] = NoCid,
         sock[c] \in {"open", "closed"}, Refuse(c) \/ Admit(c), gone' = gone,
         acc' = "accepted" => acc = "accepted" /\ accConn' = accConn /\ c # accConn
  PROVE  Serving'
<1>s. Unread /\ Fresh /\ Ends /\ Keyed
  BY DEF Serving
<1>1. CASE Refuse(c)
  <2>1. \A d \in Conn : sock'[d] \in {sock[d], "closed"}
    BY <1>1, ShutFacts DEF Refuse, RTypeOK
  <2>2. UNCHANGED <<peer, rd, cidOf, sessions>>
    BY <1>1 DEF Refuse
  <2>3. \A d \in Conn : Fits(rd'[d], d)
    BY <2>2 DEF Fits
  <2> QED BY <2>1, <2>2, <2>3, Serves
<1>2. CASE Admit(c)
  <2> DEFINE k == Who[c]
  <2>1. k \in Cid
    BY <1>2 DEF Admit, Authenticated
  <2>2. \A d \in Conn : sock'[d] \in {sock[d], "closed"}
    BY <1>2, ShutFacts DEF Admit, RTypeOK
  <2>3. /\ \A j \in Cid : sessions'[j] = IF j = k THEN c ELSE sessions[j]
        /\ \A d \in Conn : cidOf'[d] = IF d = c THEN k ELSE cidOf[d]
        /\ \A d \in Conn : rd'[d] = IF d = c THEN "waiting" ELSE rd[d]
        /\ UNCHANGED <<gone, peer>>
    BY <1>2 DEF Admit, RTypeOK
  <2> HIDE DEF k
  <2>4. k # NoCid /\ c # NoConn /\ c \notin gone
    BY <1>s, <2>1 DEF Unread
  <2>5. Unread'
    BY <1>s, <2>3, <2>4 DEF Unread
  <2>6. Keyed'
    <3> SUFFICES ASSUME NEW j \in Cid, sessions'[j] # NoConn
                 PROVE  cidOf'[sessions'[j]] = j /\ sessions'[j] \notin gone'
      BY DEF Keyed
    <3>1. CASE j = k
      BY <2>1, <2>3, <2>4, <3>1
    <3>2. CASE j # k
      <4>1. /\ sessions'[j] = sessions[j] /\ sessions[j] \in Conn
            /\ cidOf[sessions[j]] = j /\ sessions[j] \notin gone /\ j # NoCid
        BY <1>s, <2>3, <3>2 DEF Keyed, RTypeOK
      <4>2. sessions[j] # c
        BY <2>1, <4>1
      <4> QED BY <2>3, <4>1, <4>2
    <3> QED BY <3>1, <3>2
  <2>7. Fresh'
    BY <1>s, <2>1, <2>2, <2>3 DEF Fresh
  <2>8. Ends'
    BY <1>s, <2>2, <2>3 DEF Ends
  <2> QED BY <2>5, <2>6, <2>7, <2>8 DEF Serving
<1> QED BY <1>1, <1>2

LEMMA ServingInit == RInit \/ LaterInit => Serving
BY DEF RInit, LaterInit, SrvInit, Serving, Unread, Fresh, Ends, Keyed

\* Every step keeps the table's sessions served: one step per action.
LEMMA ServingStep == RInv /\ Serving /\ [RNext]_rVars => Serving'
<1> SUFFICES ASSUME RTypeOK, AcceptedOnly, Serving, [RNext]_rVars PROVE Serving'
  BY DEF RInv
<1>t. RTypeOK'
  BY RTypeStep
<1>s. Unread /\ Fresh /\ Ends /\ Keyed
  BY DEF Serving
<1>r. \A c \in Conn : Fits(rd[c], c)
  BY DEF Fits
<1>1. ASSUME NEW c \in Conn, PeerConnects(c), UNCHANGED routerVars PROVE Serving'
  <2>1. /\ sock[c] = "none" /\ UNCHANGED <<rd, cidOf, gone, acc, accConn, sessions>>
        /\ \A d \in Conn : sock'[d] = IF d = c THEN "backlog" ELSE sock[d]
        /\ \A d \in Conn : peer'[d] = IF d = c THEN TRUE ELSE peer[d]
    BY <1>1 DEF PeerConnects, RTypeOK, routerVars
  <2>2. cidOf[c] = NoCid /\ rd[c] = "none"
    BY <1>s, <2>1 DEF Fresh, Unread
  <2>3. Unread' /\ Fresh' /\ Keyed'
    BY <1>s, <2>1, <2>2 DEF Unread, Fresh, Keyed
  <2>4. Ends'
    BY <1>s, <2>1, <2>2 DEF Ends
  <2> QED BY <2>3, <2>4 DEF Serving
<1>2. ASSUME NEW c \in Conn, PeerCloses(c), UNCHANGED routerVars PROVE Serving'
  <2>1. \A d \in Conn : peer'[d] => peer[d]
    BY <1>2 DEF PeerCloses, RTypeOK
  <2> QED BY <1>2, <1>t, <1>r, <2>1, Serves DEF PeerCloses, routerVars
<1>3. ASSUME NEW c \in Conn, ReadCompletes(c), UNCHANGED routerVars PROVE Serving'
  <2>1. PICK r \in {"msg", "eof", "error"} : rd' = [rd EXCEPT ![c] = r] /\ (r # "msg" => ~peer[c])
    BY <1>3 DEF ReadCompletes
  <2>2. rd[c] = "waiting" /\ peer' = peer /\ sock' = sock
    BY <1>3 DEF ReadCompletes
  <2>3. \A d \in Conn : Fits(rd'[d], d)
    BY <2>1, <2>2 DEF RTypeOK, Fits
  <2> QED BY <1>3, <1>t, <2>3, Serves DEF ReadCompletes, routerVars
<1>4. ASSUME NEW c \in Conn, AcceptCompletes(c), UNCHANGED routerVars PROVE Serving'
  <2>1. /\ sock[c] = "backlog" /\ accConn' = c /\ UNCHANGED <<rd, cidOf, gone, peer, sessions>>
        /\ \A d \in Conn : sock'[d] = IF d = c THEN "open" ELSE sock[d]
    BY <1>4 DEF AcceptCompletes, RTypeOK, routerVars
  <2>2. cidOf[c] = NoCid /\ rd[c] = "none"
    BY <1>s, <2>1 DEF Fresh, Unread
  <2>3. Unread' /\ Fresh' /\ Keyed'
    BY <1>s, <2>1, <2>2 DEF Unread, Fresh, Keyed
  <2>4. Ends'
    BY <1>s, <2>1, <2>2 DEF Ends
  <2> QED BY <2>3, <2>4 DEF Serving
<1>5. ASSUME NEW c \in Conn, ReadEnds(c), UNCHANGED routerVars PROVE Serving'
  <2>1. \A d \in Conn : sock'[d] \in {sock[d], "closed"}
    BY <1>5, ShutFacts DEF ReadEnds, RTypeOK
  <2>2. rd[c] \in {"eof", "aborted"} /\ rd' = [rd EXCEPT ![c] = "none"] /\ peer' = peer
    BY <1>5 DEF ReadEnds
  <2>3. sock[c] = "closed" \/ ~peer[c]
    BY <1>s, <2>2 DEF Ends
  <2>4. \A d \in Conn : Fits(rd'[d], d)
    BY <2>1, <2>2, <2>3 DEF RTypeOK, Fits
  <2> QED BY <1>5, <1>t, <2>1, <2>4, Serves DEF ReadEnds, routerVars
<1>6. CASE Start
  BY <1>6, <1>t, <1>r, Serves DEF Start
<1>7. CASE Stop
  <2>1. /\ StopRouter(sessions, rd, sock) /\ cidOf' = cidOf /\ peer' = peer
        /\ sock \in [Conn -> SockState] /\ rd \in [Conn -> ReadState]
    BY <1>7 DEF Stop, RTypeOK
  <2> QED BY <2>1, <1>t, <1>r, StopServes
<1>8. CASE AcceptRefuses \/ AcceptClient
  <2>1. /\ Refuse(accConn) \/ Admit(accConn)
        /\ gone' = gone /\ acc = "accepted" /\ acc' = "waiting"
    BY <1>8 DEF AcceptRefuses, AcceptClient, AcceptHandled
  <2>2. accConn \in Conn /\ sock[accConn] \in {"open", "closed"} /\ cidOf[accConn] = NoCid
    BY <2>1, <1>s DEF AcceptedOnly, Fresh
  <2> QED BY <2>1, <2>2, <1>t, AcceptsServe
<1>9. CASE ZombieAccepts
  <2>1. PICK c \in Stranded : Refuse(c) \/ Admit(c)
    BY <1>9 DEF ZombieAccepts
  <2>2. UNCHANGED <<gone, acc, accConn>>
    BY <1>9 DEF ZombieAccepts
  <2>3. c \in Conn /\ sock[c] = "open" /\ cidOf[c] = NoCid /\ c # accConn
    BY DEF Stranded
  <2> QED BY <2>1, <2>2, <2>3, <1>t, AcceptsServe
<1>10. CASE ZombieAccept
  <2>1. sock' = sock \/ sock' = Shut(Stranded, sock)
    BY <1>10 DEF ZombieAccept
  <2>2. \A c \in Conn : sock'[c] \in {sock[c], "closed"}
    BY <2>1, ShutFacts DEF RTypeOK
  <2> QED BY <2>2, <1>10, <1>t, <1>r, Serves DEF ZombieAccept
<1>11. ASSUME NEW c \in Conn,
              MessageIgnored(c) \/ MessageHeartbeat(c) \/ MessageEnableApp(c) \/ MessageForwarded(c)
       PROVE  Serving'
  <2>1. /\ rd[c] = "msg" /\ rd' = ReadsOn(c, {})
        /\ UNCHANGED <<cidOf, sock, peer, acc, accConn, sessions, gone>>
    BY <1>11 DEF MessageIgnored, MessageHeartbeat, MessageEnableApp, MessageForwarded, FromClient, routerVars
  <2>2. \A d \in Conn : Fits(rd'[d], d)
    BY <2>1, ReadsOnServes
  <2> QED BY <2>1, <2>2, <1>t, Serves
<1>12. ASSUME NEW c \in Conn, AuthorizeCrashes(c) PROVE Serving'
  BY <1>12, <1>t, <1>r, Serves DEF AuthorizeCrashes, routerVars
<1>13. ASSUME NEW c \in Conn, MessageStop(c) PROVE Serving'
  <2> DEFINE reads == ReadsOn(c, Registered)
  <2>1. /\ StopRouter(sessions, reads, sock) /\ cidOf' = cidOf /\ peer' = peer /\ rd[c] = "msg"
        /\ sock \in [Conn -> SockState] /\ reads \in [Conn -> ReadState]
    BY <1>13, ReadsOnType DEF MessageStop, FromClient, RTypeOK
  <2>2. sock' = Shut(Stopped(sessions), sock) /\ (c \in Registered => c \in Stopped(sessions))
    BY <2>1 DEF StopRouter, Stopped, Registered
  <2>3. sock'[c] \in {sock[c], "closed"} /\ (c \in Registered => sock'[c] = "closed")
    BY <2>1, <2>2, ShutFacts
  <2>4. \A d \in Conn : Fits(reads[d], d)
    BY <2>1, <2>3, ReadsOnServes
  <2> HIDE DEF reads
  <2> QED BY <2>1, <2>4, <1>t, StopServes
<1>14. ASSUME NEW c \in Conn, NEW reads \in [Conn -> ReadState], NEW writes \in [Conn -> 0..MaxWrites],
              SessionError(c, reads, writes),
              \A d \in Conn : reads[d] = rd[d] \/ (reads[d] = "none" /\ rd[d] \in {"error", "badf"})
       PROVE  Serving'
  <2>1. cidOf' = cidOf /\ peer' = peer
    BY <1>14 DEF SessionError
  <2>2. ASSUME \A d \in Conn : sock'[d] \in {sock[d], "closed"}
        PROVE  \A d \in Conn : Fits(reads[d], d)
    BY <1>14, <1>s, <2>1, <2>2 DEF Ends, Fits
  <2>3. CASE Disconnect(c, reads, writes)
    <3> DEFINE ended == Abort(Victim(cidOf[c]), reads)
               failed == Fail(FailedSend(Main, Erased(cidOf[c]), sock), writes)
               shut == Victim(cidOf[c]) \cup Unreferenced({c}, Erased(cidOf[c]), ended, failed)
               socks == Shut(shut, sock)
    <3>1. /\ socks \in [Conn -> SockState] /\ ended \in [Conn -> ReadState]
          /\ \A d \in Conn : socks[d] \in {sock[d], "closed"}
          /\ \A d \in Conn : d \in Victim(cidOf[c]) => socks[d] = "closed"
      BY ShutFacts, AbortType DEF RTypeOK
    <3>2. \/ StopRouter(Erased(cidOf[c]), ended, socks)
          \/ /\ sessions' = Erased(cidOf[c]) /\ sock' = socks /\ rd' = ended
             /\ UNCHANGED <<acc, accConn, gone>>
      BY <2>3 DEF Disconnect
    <3>3. ASSUME \A d \in Conn : sock'[d] \in {socks[d], "closed"}
          PROVE  \A d \in Conn : Fits(ended[d], d)
      BY <1>14, <2>2, <3>1, <3>3, AbortServes
    <3> HIDE DEF ended, failed, shut, socks
    <3>4. CASE StopRouter(Erased(cidOf[c]), ended, socks)
      <4>1. \A d \in Conn : sock'[d] \in {socks[d], "closed"}
        BY <3>1, <3>4, ShutFacts DEF StopRouter
      <4> QED BY <2>1, <3>1, <3>3, <3>4, <4>1, <1>t, StopServes
    <3>5. CASE /\ sessions' = Erased(cidOf[c]) /\ sock' = socks /\ rd' = ended
               /\ UNCHANGED <<acc, accConn, gone>>
      <4>1. \A k \in Cid : sessions'[k] \in {sessions[k], NoConn}
        BY <3>5 DEF Erased, RTypeOK
      <4>2. \A d \in Conn : Fits(rd'[d], d)
        BY <3>3, <3>5
      <4> QED BY <2>1, <3>1, <3>5, <4>1, <4>2, <1>t, Serves
    <3> QED BY <3>2, <3>4, <3>5
  <2>4. CASE ErrorIgnored(c, reads, writes)
    <3>1. \A d \in Conn : sock'[d] \in {sock[d], "closed"}
      BY <2>4, ShutFacts DEF ErrorIgnored, RTypeOK
    <3> QED BY <2>1, <2>2, <2>4, <3>1, <1>t, Serves DEF ErrorIgnored
  <2> QED BY <2>3, <2>4, <1>14 DEF SessionError
<1>15. ASSUME NEW c \in Conn, ReadFails(c) PROVE Serving'
  <2> DEFINE reads == [rd EXCEPT ![c] = "none"]
  <2>1. rd[c] \in {"error", "badf"} /\ SessionError(c, reads, wr)
    BY <1>15 DEF ReadFails
  <2>2. /\ reads \in [Conn -> ReadState] /\ wr \in [Conn -> 0..MaxWrites]
        /\ \A d \in Conn : reads[d] = rd[d] \/ (reads[d] = "none" /\ rd[d] \in {"error", "badf"})
    BY <2>1 DEF RTypeOK, ReadState
  <2> HIDE DEF reads
  <2> QED BY <2>1, <2>2, <1>14
<1>16. ASSUME NEW c \in Conn, WriteFails(c) PROVE Serving'
  <2>1. rd \in [Conn -> ReadState] /\ [wr EXCEPT ![c] = @ - 1] \in [Conn -> 0..MaxWrites]
    BY <1>16, HandledType DEF WriteFails, RTypeOK
  <2> QED BY <2>1, <1>16, <1>14 DEF WriteFails
<1>17. ASSUME NEW k \in Cid, TimeoutHandler(k) PROVE Serving'
  <2>1. /\ sock' = Shut(Victim(k), sock) /\ rd' = Abort(Victim(k), rd)
        /\ UNCHANGED <<cidOf, peer, acc, accConn, sessions, gone>>
        /\ sock \in [Conn -> SockState] /\ rd \in [Conn -> ReadState]
    BY <1>17 DEF TimeoutHandler, RTypeOK
  <2>2. /\ \A c \in Conn : sock'[c] \in {sock[c], "closed"}
        /\ \A c \in Conn : c \in Victim(k) => sock'[c] = "closed"
    BY <2>1, ShutFacts
  <2>3. \A c \in Conn : Fits(rd'[c], c)
    BY <1>r, <2>1, <2>2, AbortServes
  <2> QED BY <2>1, <2>2, <2>3, <1>t, Serves
<1>18. CASE BroadcastExpires \/ Broadcast \/ (\E k \in Cid : TimeoutExpires(k)) \/ UNCHANGED rVars
  <2>1. UNCHANGED <<cidOf, sock, peer, acc, accConn, sessions, gone, rd>>
    BY <1>18 DEF BroadcastExpires, Broadcast, TimeoutExpires, srvVars, rVars
  <2> QED BY <2>1, <1>t, <1>r, Serves
<1> QED BY <1>1, <1>2, <1>3, <1>4, <1>5, <1>6, <1>7, <1>8, <1>9, <1>10, <1>11, <1>12, <1>13,
           <1>15, <1>16, <1>17, <1>18
        DEF RNext, Silent, MessageHandler, Environment

\* The session that the table holds for an id is of the present server, has that id and
\* is read while its peer is there, for any connections, programs and restarts.
THEOREM ServedHolds == RSpec \/ LaterSpec => []Served
<1>1. RInit \/ LaterInit => Serving
  BY ServingInit
<1>2. RInv /\ Serving => Served
  <2> SUFFICES ASSUME RTypeOK, Serving, NEW k \in Cid, sessions[k] # NoConn
               PROVE  LET c == sessions[k]
                      IN /\ cidOf[c] = k /\ c \notin gone
                         /\ sock[c] = "open" /\ peer[c] => rd[c] \in {"waiting", "msg"}
    BY DEF RInv, Served
  <2>1. sessions[k] \in Conn /\ cidOf[sessions[k]] = k /\ sessions[k] \notin gone /\ k # NoCid
    BY DEF RTypeOK, Serving, Keyed
  <2>2. rd[sessions[k]] \in ReadState
    BY <2>1 DEF RTypeOK
  <2> QED BY <2>1, <2>2 DEF Serving, Ends, ReadState
<1>3. RSpec => []Served
  BY <1>1, <1>2, ServingStep, RInvCorrect, PTL DEF RSpec
<1>4. LaterSpec => []Served
  BY <1>1, <1>2, ServingStep, RInvCorrect, PTL DEF LaterSpec
<1> QED BY <1>3, <1>4
=============================================================================
