------------------------------- MODULE UdsServer -------------------------------
(***************************************************************************)
(* src/core/suUDS/basic/src/Uds_Server.cpp: the acceptor loop, the         *)
(* sessions and the table sessions_ of the Unix-domain-socket server.      *)
(*                                                                         *)
(* asio splits every operation in two: it completes (the kernel has the    *)
(* result) and later its handler runs on the event loop.  rd[c] and acc    *)
(* say which of the two a read or an accept has reached; everything may    *)
(* happen between them.  Every handler is one step, because all of them    *)
(* run on the one loop thread.                                             *)
(*                                                                         *)
(* This module is the state, and the operators a user of the server is     *)
(* composed from: UdsServerApp runs the server under an application that   *)
(* may do anything, Router under the router.                               *)
(***************************************************************************)
EXTENDS Integers, FiniteSets

CONSTANTS
  Conn,    \* the connections made by peer processes in one behaviour
  Cid,     \* the client ids an accept callback may assign
  NoConn,  \* "no entry in sessions_", "no socket accepted"
  NoCid,   \* the connection has not been accepted
  MaxWrites  \* bound: how many failed writes of a session are told apart

ASSUME ConnAssumption == NoConn \notin Conn
ASSUME CidAssumption == NoCid \notin Cid
ASSUME WritesAssumption == MaxWrites \in Nat \ {0}

VARIABLES
  listening,  \* acceptor_ is open
  acc,        \* the accept operation: "off" before start()
  accConn,    \* the socket a completed accept has put into temp_socket
  sock,       \* sock[c]: the server's end of connection c
  peer,       \* peer[c]: the peer's end is open
  rd,         \* rd[c]: the read operation of the session of c
  wr,         \* wr[c]: how many handlers of failed async_writes of c are queued
  cidOf,      \* cidOf[c]: the cid_ of the session of c
  sessions,   \* sessions_
  fault       \* what has taken the process down, "none" while it lives

srvVars == <<listening, acc, accConn, sock, peer, rd, wr, cidOf, sessions, fault>>

-----------------------------------------------------------------------------
AccState == {"off", "waiting", "accepted", "aborted", "badf"}
SockState == {"none", "backlog", "open", "closed"}

\* waiting: the operation is outstanding; otherwise its handler is queued with
\* a message, end of file, an error that is reported, operation_aborted, or
\* the bad_descriptor that an operation on a closed socket completes with.
ReadState == {"none", "waiting", "msg", "eof", "error", "aborted", "badf"}

Alive == fault = "none"
Registered == {sessions[k] : k \in Cid} \ {NoConn}

SrvInit ==
  /\ listening = FALSE
  /\ acc = "off"
  /\ accConn = NoConn
  /\ sock = [c \in Conn |-> "none"]
  /\ peer = [c \in Conn |-> FALSE]
  /\ rd = [c \in Conn |-> "none"]
  /\ wr = [c \in Conn |-> 0]
  /\ cidOf = [c \in Conn |-> NoCid]
  /\ sessions = [k \in Cid |-> NoConn]
  /\ fault = "none"

-----------------------------------------------------------------------------
(* What the calls of the source do to the sockets, as functions of the     *)
(* state, so that a handler making several calls can compose them.         *)

\* socket_.close() on every connection of S: an outstanding read is aborted,
\* a handler that is already queued still runs.
Shut(S, socks) == [c \in Conn |-> IF c \in S THEN "closed" ELSE socks[c]]

\* A variant of Abort: closing one session cancels the reads of all.
AbortEveryone(S, reads) ==
  [c \in Conn |-> IF S # {} /\ reads[c] = "waiting" THEN "aborted" ELSE reads[c]]

Abort(S, reads) ==
  [c \in Conn |-> IF c \in S /\ reads[c] = "waiting" THEN "aborted" ELSE reads[c]]

\* Uds_Server::send_async(k): nobody, or the session whose write will fail
\* because its socket is closed or its peer is gone.
FailedSend(k, table, socks) ==
  {c \in Conn : table[k] = c /\ ~(socks[c] = "open" /\ peer[c])}

Fail(S, writes) ==
  [c \in Conn |-> IF c \in S /\ writes[c] < MaxWrites THEN writes[c] + 1 ELSE writes[c]]

\* A session that no table entry and no operation refers to is destroyed,
\* and its socket with it.
Unreferenced(S, table, reads, writes) ==
  {c \in S : /\ \A k \in Cid : table[k] # c
             /\ reads[c] = "none"
             /\ writes[c] = 0}

\* start_reading_header on a socket that may have been closed meanwhile.
NextRead(closed) == IF closed THEN "badf" ELSE "waiting"

\* Uds_Server::on_session_error(k) closes and erases whatever session the
\* table holds for k, which need not be the one that failed.
Victim(k) == {sessions[k]} \ {NoConn}

\* A variant of Erased that leaves the entry.
ErasedNot(k) == sessions

Erased(k) == [sessions EXCEPT ![k] = NoConn]

-----------------------------------------------------------------------------
(* The kernel and the peers.                                               *)

PeerConnects(c) ==
  /\ Alive
  /\ listening
  /\ sock[c] = "none"
  /\ sock' = [sock EXCEPT ![c] = "backlog"]
  /\ peer' = [peer EXCEPT ![c] = TRUE]
  /\ UNCHANGED <<listening, acc, accConn, rd, wr, cidOf, sessions, fault>>

\* The peer process closes its socket or dies.
PeerCloses(c) ==
  /\ Alive
  /\ peer[c]
  /\ peer' = [peer EXCEPT ![c] = FALSE]
  /\ UNCHANGED <<listening, acc, accConn, sock, rd, wr, cidOf, sessions, fault>>

AcceptCompletes(c) ==
  /\ Alive
  /\ acc = "waiting" /\ listening
  /\ sock[c] = "backlog"
  /\ acc' = "accepted"
  /\ accConn' = c
  /\ sock' = [sock EXCEPT ![c] = "open"]
  /\ UNCHANGED <<listening, peer, rd, wr, cidOf, sessions, fault>>

\* An accept started on a closed acceptor.
AcceptRefused ==
  /\ Alive
  /\ acc = "waiting" /\ ~listening
  /\ acc' = "badf"
  /\ UNCHANGED <<listening, accConn, sock, peer, rd, wr, cidOf, sessions, fault>>

\* A peer that is gone leaves an end of file, or a reset if it had not read
\* everything that was sent to it.
ReadCompletes(c) ==
  /\ Alive
  /\ rd[c] = "waiting"
  /\ \E r \in IF peer[c] THEN {"msg"} ELSE {"eof", "error"} : rd' = [rd EXCEPT ![c] = r]
  /\ UNCHANGED <<listening, acc, accConn, sock, peer, wr, cidOf, sessions, fault>>

-----------------------------------------------------------------------------
(* Handlers that call nothing of the application.                          *)

\* operation_aborted and eof are dropped by Uds_Session::handle_error.
ReadEnds(c) ==
  /\ Alive
  /\ rd[c] \in {"eof", "aborted"}
  /\ LET reads == [rd EXCEPT ![c] = "none"]
     IN /\ rd' = reads
        /\ sock' = Shut(Unreferenced({c}, sessions, reads, wr), sock)
  /\ UNCHANGED <<listening, acc, accConn, peer, wr, cidOf, sessions, fault>>

\* do_accept ends every accept handler, whatever the result was.
AcceptFails ==
  /\ Alive
  /\ acc \in {"aborted", "badf"}
  /\ acc' = "waiting"
  /\ UNCHANGED <<listening, accConn, sock, peer, rd, wr, cidOf, sessions, fault>>

Environment(c) == PeerConnects(c) \/ PeerCloses(c) \/ AcceptCompletes(c) \/ ReadCompletes(c)
=============================================================================
