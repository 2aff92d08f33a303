------------------------------ MODULE UdsServerApp ------------------------------
(***************************************************************************)
(* The server of UdsServer under an arbitrary application: its callbacks   *)
(* accept or refuse anybody under any id, and it sends, closes clients and *)
(* stops the server whenever it likes, from inside a callback or not.  It  *)
(* only closes clients it has been told of and not been told to be gone.   *)
(***************************************************************************)
EXTENDS UdsServer

VARIABLES
  online,   \* the clients the callbacks have announced and not taken back
  stopped   \* stop() has been called

appVars == <<listening, acc, accConn, sock, peer, rd, wr, cidOf, sessions, fault, online, stopped>>

AppInit == SrvInit /\ online = {} /\ stopped = FALSE

-----------------------------------------------------------------------------
(* Calls of the application, from on_msg_ or from elsewhere on the loop.   *)

\* Uds_Server::close(k) dereferences the entry without looking.
ClosesClient(k, reads) ==
  /\ fault' = IF sessions[k] = NoConn THEN "close" ELSE fault
  /\ sock' = Shut(Victim(k), sock)
  /\ rd' = Abort(Victim(k), reads)
  /\ UNCHANGED <<listening, acc, wr, stopped>>

SendsTo(k, reads) ==
  /\ wr' = Fail(FailedSend(k, sessions, sock), wr)
  /\ rd' = reads
  /\ UNCHANGED <<listening, acc, sock, fault, stopped>>

\* Closing the acceptor also throws the connections away that wait in it.
StopsServer(reads) ==
  /\ listening' = FALSE
  /\ acc' = IF acc = "waiting" /\ listening THEN "aborted" ELSE acc
  /\ sock' = Shut(Registered \cup {c \in Conn : sock[c] = "backlog"}, sock)
  /\ rd' = Abort(Registered, reads)
  /\ stopped' = TRUE
  /\ UNCHANGED <<wr, fault>>

CallsNothing(reads) ==
  /\ rd' = reads
  /\ UNCHANGED <<listening, acc, sock, wr, fault, stopped>>

ApplicationCall(reads) ==
  \/ \E k \in online : ClosesClient(k, reads)
  \/ \E k \in online : SendsTo(k, reads)
  \/ StopsServer(reads)

-----------------------------------------------------------------------------
StartServer ==
  /\ Alive
  /\ acc = "off"
  /\ acc' = "waiting"
  /\ listening' = TRUE
  /\ UNCHANGED <<accConn, sock, peer, rd, wr, cidOf, sessions, fault, online, stopped>>

ApplicationStep ==
  /\ Alive
  /\ acc # "off"
  /\ ApplicationCall(rd)
  /\ UNCHANGED <<accConn, peer, cidOf, sessions, online>>

\* The accept handler asks on_connected_ and registers the session it starts.
AcceptSession(k) ==
  /\ Alive
  /\ acc = "accepted"
  /\ LET c     == accConn
         table == [sessions EXCEPT ![k] = c]
         reads == [rd EXCEPT ![c] = "waiting"]
     IN /\ sessions' = table
        /\ cidOf' = [cidOf EXCEPT ![c] = k]
        /\ rd' = reads
        /\ sock' = Shut(Unreferenced(Victim(k), table, reads, wr), sock)
  /\ online' = online \cup {k}
  /\ acc' = "waiting"
  /\ accConn' = NoConn
  /\ UNCHANGED <<listening, peer, wr, fault, stopped>>

RefuseSession ==
  /\ Alive
  /\ acc = "accepted"
  /\ sock' = Shut({accConn}, sock)
  /\ acc' = "waiting"
  /\ accConn' = NoConn
  /\ UNCHANGED <<listening, peer, rd, wr, cidOf, sessions, fault, online, stopped>>

\* on_msg_, then the next read: on_msg_ may have closed the socket under it.
MessageHandler(c) ==
  /\ Alive
  /\ rd[c] = "msg"
  /\ \/ CallsNothing([rd EXCEPT ![c] = NextRead(sock[c] = "closed")])
     \/ \E k \in online :
          ClosesClient(k, [rd EXCEPT ![c] = NextRead(sock[c] = "closed" \/ c \in Victim(k))])
     \/ \E k \in online : SendsTo(k, [rd EXCEPT ![c] = NextRead(sock[c] = "closed")])
     \/ StopsServer([rd EXCEPT ![c] = NextRead(sock[c] = "closed" \/ c \in Registered)])
  /\ UNCHANGED <<accConn, peer, cidOf, sessions, online>>

\* A variant of SessionError that reports only the session it was called for.
SessionErrorUnreported(c, reads, writes) ==
  LET k     == cidOf[c]
      table == Erased(k)
      ended == Abort(Victim(k), reads)
  IN /\ sessions' = table
     /\ rd' = ended
     /\ wr' = writes
     /\ sock' = Shut(Victim(k) \cup Unreferenced({c}, table, ended, writes), sock)
     /\ online' = IF sessions[k] = c THEN online \ {k} ELSE online

\* on_session_error, for a failed read or a failed write of c.
SessionError(c, reads, writes) ==
  LET k     == cidOf[c]
      table == Erased(k)
      ended == Abort(Victim(k), reads)
  IN /\ sessions' = table
     /\ rd' = ended
     /\ wr' = writes
     /\ sock' = Shut(Victim(k) \cup Unreferenced({c}, table, ended, writes), sock)
     /\ online' = IF sessions[k] = NoConn THEN online ELSE online \ {k}

ReadFails(c) ==
  /\ Alive
  /\ rd[c] \in {"error", "badf"}
  /\ SessionError(c, [rd EXCEPT ![c] = "none"], wr)
  /\ UNCHANGED <<listening, acc, accConn, peer, cidOf, fault, stopped>>

WriteFails(c) ==
  /\ Alive
  /\ wr[c] > 0
  /\ SessionError(c, rd, [wr EXCEPT ![c] = @ - 1])
  /\ UNCHANGED <<listening, acc, accConn, peer, cidOf, fault, stopped>>

Handler(c) == MessageHandler(c) \/ ReadFails(c) \/ WriteFails(c)

AppNext ==
  \/ \E c \in Conn : \/ (Environment(c) \/ ReadEnds(c)) /\ UNCHANGED <<online, stopped>>
                     \/ Handler(c)
  \/ (AcceptRefused \/ AcceptFails) /\ UNCHANGED <<online, stopped>>
  \/ \E k \in Cid : AcceptSession(k)
  \/ RefuseSession
  \/ StartServer
  \/ ApplicationStep

AppSpec == AppInit /\ [][AppNext]_appVars

\* The loop runs every queued handler; nothing is assumed of peers and of the
\* application.
AppFairness ==
  /\ \A c \in Conn : /\ WF_appVars(ReadEnds(c) /\ UNCHANGED <<online, stopped>>)
                     /\ WF_appVars(ReadFails(c))
                     /\ WF_appVars(WriteFails(c))
                     /\ WF_appVars(MessageHandler(c))
  /\ WF_appVars(AcceptRefused /\ UNCHANGED <<online, stopped>>)
  /\ WF_appVars(AcceptFails /\ UNCHANGED <<online, stopped>>)

AppFairSpec == AppSpec /\ AppFairness

-----------------------------------------------------------------------------
\* Every variable of the server and of its application has its type.
AppTypeOK ==
  /\ listening \in BOOLEAN
  /\ acc \in AccState
  /\ accConn \in Conn \cup {NoConn}
  /\ sock \in [Conn -> SockState]
  /\ peer \in [Conn -> BOOLEAN]
  /\ rd \in [Conn -> ReadState]
  /\ wr \in [Conn -> 0..MaxWrites]
  /\ cidOf \in [Conn -> Cid \cup {NoCid}]
  /\ sessions \in [Cid -> Conn \cup {NoConn}]
  /\ fault \in {"none", "close"}
  /\ online \subseteq Cid
  /\ stopped \in BOOLEAN

\* close(cid) dereferences sessions_.find(cid) unchecked: it is safe exactly
\* because no session leaves the table without on_disconnected_, however
\* errors of overwritten sessions, late handlers and stop() interleave.
CloseIsSafe == fault = "none"

\* A registered session whose peer is alive always has a read outstanding or a
\* read handler queued: no handler path forgets to read on.
NobodyIsDeaf ==
  \A k \in Cid : sessions[k] # NoConn =>
    LET c == sessions[k] IN sock[c] = "open" /\ peer[c] => rd[c] \in {"waiting", "msg"}

\* A failed read or write of a registered session ends in its removal from the
\* table, even if the session is overwritten, closed or stopped meanwhile.
FailureUnregisters ==
  \A c \in Conn :
    (wr[c] > 0 \/ rd[c] \in {"error", "badf"}) ~> (c \notin Registered \/ fault # "none")
=============================================================================
