-------------------------------- MODULE SuUds_proofs --------------------------------
(***************************************************************************)
(* Theorems about src/core/suUDS: the server under any application, and    *)
(* the stream of a connection for any messages, chunks and sockets.        *)
(***************************************************************************)
EXTENDS UdsServerApp, Framing, SequenceTheorems, TLAPS

-----------------------------------------------------------------------------
(* The server.  close() is safe because what the application has been told *)
(* is what the table holds (Told).  Nobody is deaf because a read ends only *)
(* when the peer is gone or the socket closed (Ends), and a session whose   *)
(* read has ended is one of the two (Quiet); Fresh and Accepted say that    *)
(* neither happens to a connection before its session.                      *)

Told == \A k \in Cid : k \in online <=> sessions[k] # NoConn

Accepted == acc = "accepted" => accConn \in Conn /\ sock[accConn] \in {"open", "closed"}

Fresh ==
  \A c \in Conn : sock[c] \in {"none", "backlog"} =>
    rd[c] = "none" /\ \A k \in Cid : sessions[k] # c

Ends ==
  \A c \in Conn : /\ rd[c] \in {"eof", "error"} => ~peer[c]
                  /\ rd[c] \in {"aborted", "badf"} => sock[c] = "closed"

Quiet ==
  \A c \in Conn : rd[c] = "none" /\ (\E k \in Cid : sessions[k] = c) =>
    sock[c] = "closed" \/ ~peer[c]

Inv == AppTypeOK /\ CloseIsSafe /\ Told /\ Accepted /\ Fresh /\ Ends /\ Quiet

-----------------------------------------------------------------------------
\* What the operators on sockets and operations do to each connection.
LEMMA ShutAbort ==
  ASSUME NEW socks \in [Conn -> SockState], NEW reads \in [Conn -> ReadState], NEW S
  PROVE  /\ Shut(S, socks) \in [Conn -> SockState]
         /\ Abort(S, reads) \in [Conn -> ReadState]
         /\ \A c \in Conn : Shut(S, socks)[c] = IF c \in S THEN "closed" ELSE socks[c]
         /\ \A c \in Conn :
              Abort(S, reads)[c] = IF c \in S /\ reads[c] = "waiting" THEN "aborted" ELSE reads[c]
<1>1. "closed" \in SockState /\ "aborted" \in ReadState
  BY DEF SockState, ReadState
<1> QED BY <1>1 DEF Shut, Abort

LEMMA FailType ==
  ASSUME NEW writes \in [Conn -> 0..MaxWrites], NEW S PROVE Fail(S, writes) \in [Conn -> 0..MaxWrites]
<1>1. \A c \in Conn : (IF c \in S /\ writes[c] < MaxWrites THEN writes[c] + 1 ELSE writes[c]) \in 0..MaxWrites
  BY WritesAssumption
<1> QED BY <1>1 DEF Fail

\* The handler of a failed write leaves one less.
LEMMA HandledType ==
  ASSUME NEW writes \in [Conn -> 0..MaxWrites], NEW c \in Conn, writes[c] > 0
  PROVE  [writes EXCEPT ![c] = @ - 1] \in [Conn -> 0..MaxWrites]
<1>1. writes[c] - 1 \in 0..MaxWrites
  BY WritesAssumption
<1> QED BY <1>1

\* What a handler does to the sockets, the reads and the table: it closes the
\* sockets of S and aborts the reads of a part of S, and no entry is added.
LEMMA Closing ==
  ASSUME Inv, NEW S, NEW T, NEW reads \in [Conn -> ReadState],
         \A c \in T : c \in S,
         \A c \in Conn : sock[c] \in {"none", "backlog"} => reads[c] = "none",
         \A c \in Conn : reads[c] \in {"eof", "error"} => ~peer[c],
         \A c \in Conn : reads[c] \in {"aborted", "badf"} => c \in S \/ sock[c] = "closed",
         \A c \in Conn : reads[c] = "none" /\ rd[c] # "none" => sock[c] = "closed" \/ ~peer[c],
         \A k \in Cid : sessions'[k] \in {sessions[k], NoConn},
         sock' = Shut(S, sock), rd' = Abort(T, reads), peer' = peer,
         UNCHANGED accConn, acc' = "accepted" => acc = "accepted"
  PROVE  Accepted' /\ Fresh' /\ Ends' /\ Quiet' /\ sock' \in [Conn -> SockState] /\ rd' \in [Conn -> ReadState]
<1>0. /\ AppTypeOK /\ Accepted /\ Fresh /\ Ends /\ Quiet
      /\ sock \in [Conn -> SockState]
  BY DEF Inv, AppTypeOK
<1>1. /\ sock' \in [Conn -> SockState] /\ rd' \in [Conn -> ReadState]
      /\ \A c \in Conn : sock'[c] = IF c \in S THEN "closed" ELSE sock[c]
      /\ \A c \in Conn : rd'[c] = IF c \in T /\ reads[c] = "waiting" THEN "aborted" ELSE reads[c]
  BY <1>0, ShutAbort
<1>2. Accepted'
  BY <1>0, <1>1 DEF Accepted
<1>3. Fresh'
  <2> SUFFICES ASSUME NEW c \in Conn, sock'[c] \in {"none", "backlog"}
               PROVE  rd'[c] = "none" /\ \A k \in Cid : sessions'[k] # c
    BY DEF Fresh
  <2>1. c \notin S /\ sock[c] \in {"none", "backlog"}
    BY <1>1
  <2>2. rd'[c] = "none"
    BY <1>1, <2>1
  <2> QED BY <1>0, <2>1, <2>2, ConnAssumption DEF Fresh
<1>4. Ends'
  BY <1>0, <1>1 DEF Ends
<1>5. Quiet'
  <2> SUFFICES ASSUME NEW c \in Conn, rd'[c] = "none", NEW k \in Cid, sessions'[k] = c
               PROVE  sock'[c] = "closed" \/ ~peer'[c]
    BY DEF Quiet
  <2>1. sessions[k] = c /\ reads[c] = "none"
    BY <1>1, ConnAssumption
  <2>2. CASE rd[c] = "none"
    BY <1>0, <1>1, <2>1, <2>2 DEF Quiet
  <2>3. CASE rd[c] # "none"
    BY <1>1, <2>1, <2>3
  <2> QED BY <2>2, <2>3
<1> QED BY <1>1, <1>2, <1>3, <1>4, <1>5

\* The reads that a handler closing the sockets of S may leave.
Fits(reads, S) ==
  /\ reads \in [Conn -> ReadState]
  /\ \A d \in Conn : sock[d] \in {"none", "backlog"} => reads[d] = "none"
  /\ \A d \in Conn : reads[d] \in {"eof", "error"} => ~peer[d]
  /\ \A d \in Conn : reads[d] \in {"aborted", "badf"} => d \in S \/ sock[d] = "closed"
  /\ \A d \in Conn : reads[d] = "none" => rd[d] = "none"

\* The read after a message fits, if it fails only on a closed socket.
LEMMA NextReadFits ==
  ASSUME Inv, NEW c \in Conn, rd[c] = "msg", NEW S, NEW r \in {"badf", "waiting"},
         r = "badf" => c \in S \/ sock[c] = "closed"
  PROVE  Fits([rd EXCEPT ![c] = r], S)
<1> DEFINE reads == [rd EXCEPT ![c] = r]
<1>1. /\ reads \in [Conn -> ReadState]
      /\ \A d \in Conn : reads[d] = IF d = c THEN r ELSE rd[d]
  BY DEF Inv, AppTypeOK, ReadState
<1> HIDE DEF reads
<1>2. Fresh /\ Ends
  BY DEF Inv
<1> QED BY <1>1, <1>2 DEF Fits, Fresh, Ends, reads

\* A call of the application that leaves the reads given to the loop.
LEMMA CallKeeps ==
  ASSUME Inv, Alive, NEW reads, NEW S, Fits(reads, S),
         \/ S = {} /\ CallsNothing(reads)
         \/ S = {} /\ \E k \in online : SendsTo(k, reads)
         \/ \E k \in online : S = Victim(k) /\ ClosesClient(k, reads)
         \/ S = Registered /\ StopsServer(reads),
         UNCHANGED <<accConn, peer, cidOf, sessions, online>>
  PROVE  Inv'
<1>0. AppTypeOK /\ Told /\ Accepted /\ Fresh /\ Ends /\ Quiet /\ fault = "none"
  BY DEF Inv, CloseIsSafe
<1>0a. /\ reads \in [Conn -> ReadState]
       /\ \A c \in Conn : sock[c] \in {"none", "backlog"} => reads[c] = "none"
       /\ \A c \in Conn : reads[c] \in {"eof", "error"} => ~peer[c]
       /\ \A c \in Conn : reads[c] \in {"aborted", "badf"} => c \in S \/ sock[c] = "closed"
       /\ \A c \in Conn : reads[c] = "none" => rd[c] = "none"
  BY DEF Fits
<1>0b. /\ sock \in [Conn -> SockState] /\ wr \in [Conn -> 0..MaxWrites] /\ acc \in AccState
       /\ listening \in BOOLEAN /\ stopped \in BOOLEAN /\ online \subseteq Cid
  BY <1>0 DEF AppTypeOK
<1>1. CASE CallsNothing(reads) /\ S = {}
  <2>1. sock' = Shut({}, sock) /\ rd' = Abort({}, reads)
    BY <1>0b, <1>0a, <1>1 DEF CallsNothing, Shut, Abort
  <2>2. acc' = acc /\ fault' = fault
    BY <1>1 DEF CallsNothing
  <2>3. Accepted' /\ Fresh' /\ Ends' /\ Quiet' /\ sock' \in [Conn -> SockState] /\ rd' \in [Conn -> ReadState]
    BY <1>0a, <1>1, <2>1, <2>2, Closing
  <2> QED BY <1>0, <1>1, <2>2, <2>3 DEF CallsNothing, Inv, AppTypeOK, CloseIsSafe, Told
<1>2. ASSUME NEW k \in online, SendsTo(k, reads), S = {} PROVE Inv'
  <2>1. sock' = Shut({}, sock) /\ rd' = Abort({}, reads)
    BY <1>0b, <1>0a, <1>2 DEF SendsTo, Shut, Abort
  <2>2. acc' = acc /\ fault' = fault /\ wr' \in [Conn -> 0..MaxWrites]
    BY <1>0b, <1>2, FailType DEF SendsTo
  <2>3. Accepted' /\ Fresh' /\ Ends' /\ Quiet' /\ sock' \in [Conn -> SockState] /\ rd' \in [Conn -> ReadState]
    BY <1>0a, <1>2, <2>1, <2>2, Closing
  <2> QED BY <1>0, <1>2, <2>2, <2>3 DEF SendsTo, Inv, AppTypeOK, CloseIsSafe, Told
<1>3. ASSUME NEW k \in online, ClosesClient(k, reads), S = Victim(k) PROVE Inv'
  <2>1. sock' = Shut(Victim(k), sock) /\ rd' = Abort(Victim(k), reads)
    BY <1>3 DEF ClosesClient
  <2>2. acc' = acc /\ fault' = "none"
    BY <1>0, <1>0b, <1>3 DEF ClosesClient, Told
  <2>3. Accepted' /\ Fresh' /\ Ends' /\ Quiet' /\ sock' \in [Conn -> SockState] /\ rd' \in [Conn -> ReadState]
    BY <1>0a, <1>3, <2>1, <2>2, Closing
  <2> QED BY <1>0, <1>3, <2>2, <2>3 DEF ClosesClient, Inv, AppTypeOK, CloseIsSafe, Told
<1>4. CASE StopsServer(reads) /\ S = Registered
  <2> DEFINE T == Registered \cup {c \in Conn : sock[c] = "backlog"}
  <2>1. sock' = Shut(T, sock) /\ rd' = Abort(Registered, reads)
    BY <1>4 DEF StopsServer
  <2>2. fault' = fault /\ (acc' = "accepted" => acc = "accepted") /\ acc' \in AccState
    BY <1>0b, <1>4 DEF StopsServer, AccState
  <2>3. /\ \A c \in Registered : c \in T
        /\ \A c \in Conn : reads[c] \in {"aborted", "badf"} => c \in T \/ sock[c] = "closed"
    BY <1>0a, <1>4
  <2> HIDE DEF T
  <2>4. Accepted' /\ Fresh' /\ Ends' /\ Quiet' /\ sock' \in [Conn -> SockState] /\ rd' \in [Conn -> ReadState]
    BY <1>0a, <2>1, <2>2, <2>3, Closing
  <2> QED BY <1>0, <1>4, <2>2, <2>4 DEF StopsServer, Inv, AppTypeOK, CloseIsSafe, Told
<1> QED BY <1>1, <1>2, <1>3, <1>4

\* on_session_error takes the entry and what the application knows together.
LEMMA SessionErrorKeeps ==
  ASSUME Inv, NEW c \in Conn, NEW reads \in [Conn -> ReadState], NEW writes \in [Conn -> 0..MaxWrites],
         \/ reads = rd
         \/ rd[c] \in {"error", "badf"} /\ reads = [rd EXCEPT ![c] = "none"],
         SessionError(c, reads, writes),
         UNCHANGED <<listening, acc, accConn, peer, cidOf, fault, stopped>>
  PROVE  Inv'
<1> DEFINE k == cidOf[c]
           S == Victim(k) \cup Unreferenced({c}, Erased(k), Abort(Victim(k), reads), writes)
<1>0. AppTypeOK /\ Told /\ Accepted /\ Fresh /\ Ends /\ Quiet /\ fault = "none" /\ rd \in [Conn -> ReadState]
  BY DEF Inv, CloseIsSafe, AppTypeOK
<1>1. /\ sessions' = Erased(k) /\ rd' = Abort(Victim(k), reads) /\ wr' = writes
      /\ sock' = Shut(S, sock)
      /\ online' = IF sessions[k] = NoConn THEN online ELSE online \ {k}
  BY DEF SessionError
<1>2. /\ sessions' \in [Cid -> Conn \cup {NoConn}]
      /\ \A j \in Cid : sessions'[j] = IF j = k THEN NoConn ELSE sessions[j]
  BY <1>0, <1>1 DEF Erased, AppTypeOK
<1>3. Told' /\ online' \subseteq Cid
  BY <1>0, <1>1, <1>2 DEF Told, AppTypeOK
<1>4. /\ \A d \in Conn : sock[d] \in {"none", "backlog"} => reads[d] = "none"
      /\ \A d \in Conn : reads[d] \in {"eof", "error"} => ~peer[d]
      /\ \A d \in Conn : reads[d] \in {"aborted", "badf"} => d \in S \/ sock[d] = "closed"
      /\ \A d \in Conn : reads[d] = "none" /\ rd[d] # "none" => sock[d] = "closed" \/ ~peer[d]
  <2>1. \A d \in Conn : \/ reads[d] = rd[d]
                        \/ reads[d] = "none" /\ rd[d] \in {"error", "badf"}
    BY <1>0
  <2> QED BY <1>0, <2>1 DEF Fresh, Ends
<1>5. \A d \in Victim(k) : d \in S
  OBVIOUS
<1> HIDE DEF k, S
<1>6. Accepted' /\ Fresh' /\ Ends' /\ Quiet' /\ sock' \in [Conn -> SockState] /\ rd' \in [Conn -> ReadState]
  BY <1>1, <1>2, <1>4, <1>5, Closing
<1> QED BY <1>0, <1>1, <1>2, <1>3, <1>6 DEF Inv, AppTypeOK, CloseIsSafe

\* A server that has not started, under an application that knows nobody.
LEMMA InitInv == AppInit => Inv
<1> SUFFICES ASSUME AppInit PROVE Inv
  OBVIOUS
<1>1. wr \in [Conn -> 0..MaxWrites]
  <2>1. wr = [c \in Conn |-> 0] /\ 0 \in 0..MaxWrites
    BY WritesAssumption DEF AppInit, SrvInit
  <2> QED BY <2>1
<1>2. AppTypeOK
  BY <1>1 DEF AppInit, SrvInit, AppTypeOK, AccState, SockState, ReadState
<1> QED
  BY <1>2, ConnAssumption
     DEF AppInit, SrvInit, Inv, CloseIsSafe, Told, Accepted, Fresh, Ends, Quiet

\* One step for every action of the environment, the loop and the application.
LEMMA InvStep == Inv /\ [AppNext]_appVars => Inv'
<1> SUFFICES ASSUME Inv, [AppNext]_appVars PROVE Inv'
  OBVIOUS
<1>0. /\ AppTypeOK /\ CloseIsSafe /\ Told /\ Accepted /\ Fresh /\ Ends /\ Quiet
      /\ rd \in [Conn -> ReadState] /\ sock \in [Conn -> SockState] /\ peer \in [Conn -> BOOLEAN]
      /\ sessions \in [Cid -> Conn \cup {NoConn}] /\ wr \in [Conn -> 0..MaxWrites] /\ online \subseteq Cid
      /\ cidOf \in [Conn -> Cid \cup {NoCid}]
  BY DEF Inv, AppTypeOK
<1>1. ASSUME NEW c \in Conn, PeerConnects(c), UNCHANGED <<online, stopped>> PROVE Inv'
  <2>1. /\ sock[c] = "none" /\ UNCHANGED <<rd, sessions, acc, accConn>>
        /\ \A d \in Conn : sock'[d] = IF d = c THEN "backlog" ELSE sock[d]
        /\ \A d \in Conn : peer'[d] = IF d = c THEN TRUE ELSE peer[d]
        /\ sock' \in [Conn -> SockState] /\ peer' \in [Conn -> BOOLEAN]
    BY <1>0, <1>1 DEF PeerConnects, SockState
  <2>2. AppTypeOK' /\ CloseIsSafe' /\ Told'
    BY <1>0, <1>1, <2>1 DEF PeerConnects, AppTypeOK, CloseIsSafe, Told
  <2>3. Accepted' /\ Fresh'
    BY <1>0, <2>1 DEF Accepted, Fresh
  <2>4. Ends' /\ Quiet'
    BY <1>0, <2>1 DEF Fresh, Ends, Quiet
  <2> QED BY <2>2, <2>3, <2>4 DEF Inv
<1>2. ASSUME NEW c \in Conn, PeerCloses(c), UNCHANGED <<online, stopped>> PROVE Inv'
  <2>1. /\ UNCHANGED <<rd, sessions, acc, accConn, sock>>
        /\ \A d \in Conn : peer'[d] => peer[d]
        /\ peer' \in [Conn -> BOOLEAN]
    BY <1>0, <1>2 DEF PeerCloses
  <2>2. AppTypeOK' /\ CloseIsSafe' /\ Told'
    BY <1>0, <1>2, <2>1 DEF PeerCloses, AppTypeOK, CloseIsSafe, Told
  <2> QED BY <1>0, <2>1, <2>2 DEF Inv, Accepted, Fresh, Ends, Quiet
<1>3. ASSUME NEW c \in Conn, AcceptCompletes(c), UNCHANGED <<online, stopped>> PROVE Inv'
  <2>1. /\ sock[c] = "backlog" /\ UNCHANGED <<rd, sessions, peer>> /\ accConn' = c
        /\ \A d \in Conn : sock'[d] = IF d = c THEN "open" ELSE sock[d]
        /\ sock' \in [Conn -> SockState] /\ acc' \in AccState
    BY <1>0, <1>3 DEF AcceptCompletes, SockState, AccState
  <2>2. AppTypeOK' /\ CloseIsSafe' /\ Told'
    BY <1>0, <1>3, <2>1 DEF AcceptCompletes, AppTypeOK, CloseIsSafe, Told
  <2>3. Accepted' /\ Fresh'
    BY <1>0, <2>1 DEF Accepted, Fresh
  <2>4. Ends' /\ Quiet'
    BY <1>0, <2>1 DEF Fresh, Ends, Quiet
  <2> QED BY <2>2, <2>3, <2>4 DEF Inv
<1>4. ASSUME NEW c \in Conn, ReadCompletes(c), UNCHANGED <<online, stopped>> PROVE Inv'
  <2>1. PICK r \in {"msg", "eof", "error"} : rd' = [rd EXCEPT ![c] = r] /\ (r # "msg" => ~peer[c])
    BY <1>0, <1>4 DEF ReadCompletes
  <2>2. /\ rd[c] = "waiting" /\ UNCHANGED <<sock, sessions, peer, acc, accConn>>
        /\ \A d \in Conn : rd'[d] = IF d = c THEN r ELSE rd[d]
        /\ rd' \in [Conn -> ReadState]
    BY <1>0, <1>4, <2>1 DEF ReadCompletes, ReadState
  <2>3. AppTypeOK' /\ CloseIsSafe' /\ Told'
    BY <1>0, <1>4, <2>2 DEF ReadCompletes, AppTypeOK, CloseIsSafe, Told
  <2>4. Accepted' /\ Fresh' /\ Ends' /\ Quiet'
    BY <1>0, <2>1, <2>2 DEF Accepted, Fresh, Ends, Quiet
  <2> QED BY <2>3, <2>4 DEF Inv
<1>5. ASSUME NEW c \in Conn, ReadEnds(c), UNCHANGED <<online, stopped>> PROVE Inv'
  <2> DEFINE reads == [rd EXCEPT ![c] = "none"]
             S == Unreferenced({c}, sessions, reads, wr)
  <2>1. /\ rd' = reads /\ sock' = Shut(S, sock) /\ rd[c] \in {"eof", "aborted"}
        /\ UNCHANGED <<acc, accConn, sessions, peer>>
    BY <1>5 DEF ReadEnds
  <2>2. reads \in [Conn -> ReadState] /\ \A d \in Conn : reads[d] = IF d = c THEN "none" ELSE rd[d]
    BY <1>0 DEF ReadState
  <2>3. /\ \A d \in Conn : sock[d] \in {"none", "backlog"} => reads[d] = "none"
        /\ \A d \in Conn : reads[d] \in {"eof", "error"} => ~peer[d]
        /\ \A d \in Conn : reads[d] \in {"aborted", "badf"} => sock[d] = "closed"
        /\ \A d \in Conn : reads[d] = "none" /\ rd[d] # "none" => sock[d] = "closed" \/ ~peer[d]
    BY <1>0, <2>1, <2>2 DEF Fresh, Ends
  <2> HIDE DEF reads, S
  <2>4. rd' = Abort({}, reads)
    BY <2>1, <2>2 DEF Abort
  <2>5. Accepted' /\ Fresh' /\ Ends' /\ Quiet' /\ sock' \in [Conn -> SockState] /\ rd' \in [Conn -> ReadState]
    BY <1>0, <2>1, <2>2, <2>3, <2>4, Closing
  <2> QED BY <1>0, <1>5, <2>5 DEF ReadEnds, Inv, AppTypeOK, CloseIsSafe, Told
<1>6. CASE (AcceptRefused \/ AcceptFails) /\ UNCHANGED <<online, stopped>>
  <2>1. /\ UNCHANGED <<listening, accConn, sock, peer, rd, wr, cidOf, sessions, fault, online, stopped>>
        /\ acc' \in {"badf", "waiting"}
    BY <1>6 DEF AcceptRefused, AcceptFails
  <2> QED BY <1>0, <2>1
          DEF Inv, AppTypeOK, CloseIsSafe, Told, Accepted, Fresh, Ends, Quiet, AccState
<1>7. ASSUME NEW k \in Cid, AcceptSession(k) PROVE Inv'
  <2> DEFINE c == accConn
             table == [sessions EXCEPT ![k] = c]
             reads == [rd EXCEPT ![c] = "waiting"]
             S == Unreferenced(Victim(k), table, reads, wr)
  <2>1. /\ c \in Conn /\ sock[c] \in {"open", "closed"}
        /\ sessions' = table /\ rd' = reads /\ sock' = Shut(S, sock) /\ acc' = "waiting"
        /\ online' = online \cup {k} /\ peer' = peer
    BY <1>0, <1>7 DEF AcceptSession, Accepted
  <2>2. /\ \A j \in Cid : sessions'[j] = IF j = k THEN c ELSE sessions[j]
        /\ \A d \in Conn : rd'[d] = IF d = c THEN "waiting" ELSE rd[d]
        /\ sessions' \in [Cid -> Conn \cup {NoConn}] /\ rd' \in [Conn -> ReadState]
    BY <1>0, <2>1 DEF ReadState
  <2> HIDE DEF S
  <2>3. /\ \A d \in Conn : sock'[d] \in {"closed", sock[d]}
        /\ sock' \in [Conn -> SockState]
    BY <1>0, <2>1, ShutAbort
  <2>4. Told' /\ Accepted' /\ CloseIsSafe'
    BY <1>0, <1>7, <2>1, <2>2, ConnAssumption DEF Told, Accepted, AcceptSession, CloseIsSafe
  <2>5. Fresh'
    BY <1>0, <2>1, <2>2, <2>3 DEF Fresh
  <2>6. Ends' /\ Quiet'
    BY <1>0, <2>1, <2>2, <2>3 DEF Ends, Quiet
  <2>7. AppTypeOK'
    BY <1>0, <1>7, <2>2, <2>3 DEF AcceptSession, AppTypeOK, AccState
  <2> QED BY <2>4, <2>5, <2>6, <2>7 DEF Inv
<1>8. CASE RefuseSession
  <2>1. /\ UNCHANGED <<rd, peer, sessions>> /\ acc' = "waiting"
        /\ \A d \in Conn : sock'[d] \in {"closed", sock[d]}
        /\ sock' \in [Conn -> SockState]
    BY <1>0, <1>8, ShutAbort DEF RefuseSession
  <2>2. AppTypeOK' /\ CloseIsSafe' /\ Told'
    BY <1>0, <1>8, <2>1 DEF RefuseSession, AppTypeOK, CloseIsSafe, Told, AccState
  <2> QED BY <1>0, <2>1, <2>2 DEF Inv, Accepted, Fresh, Ends, Quiet
<1>9. CASE StartServer
  <2>1. /\ UNCHANGED <<accConn, sock, peer, rd, wr, cidOf, sessions, fault, online, stopped>>
        /\ acc' = "waiting" /\ listening' = TRUE
    BY <1>9 DEF StartServer
  <2> QED BY <1>0, <2>1
          DEF Inv, AppTypeOK, CloseIsSafe, Told, Accepted, Fresh, Ends, Quiet, AccState
<1>10. CASE ApplicationStep
  <2>1. \A S : Fits(rd, S)
    BY <1>0 DEF Fits, Fresh, Ends
  <2>2. Alive /\ ApplicationCall(rd) /\ UNCHANGED <<accConn, peer, cidOf, sessions, online>>
    BY <1>10 DEF ApplicationStep
  <2> QED BY <1>0, <2>1, <2>2, CallKeeps DEF ApplicationCall
<1>11. ASSUME NEW c \in Conn, MessageHandler(c) PROVE Inv'
  <2>1. /\ Alive /\ rd[c] = "msg" /\ sock[c] \notin {"none", "backlog"}
        /\ UNCHANGED <<accConn, peer, cidOf, sessions, online>>
    BY <1>0, <1>11 DEF MessageHandler, Fresh
  <2>2. ASSUME NEW r, r = NextRead(sock[c] = "closed") PROVE Fits([rd EXCEPT ![c] = r], {})
    BY <2>1, <2>2, NextReadFits DEF NextRead
  <2>3. CASE CallsNothing([rd EXCEPT ![c] = NextRead(sock[c] = "closed")])
    BY <2>1, <2>2, <2>3, CallKeeps
  <2>4. ASSUME NEW k \in online, SendsTo(k, [rd EXCEPT ![c] = NextRead(sock[c] = "closed")])
        PROVE  Inv'
    BY <2>1, <2>2, <2>4, CallKeeps
  <2>5. ASSUME NEW k \in online,
               ClosesClient(k, [rd EXCEPT ![c] = NextRead(sock[c] = "closed" \/ c \in Victim(k))])
        PROVE  Inv'
    <3> DEFINE r == NextRead(sock[c] = "closed" \/ c \in Victim(k))
    <3>1. r \in {"badf", "waiting"} /\ (r = "badf" => c \in Victim(k) \/ sock[c] = "closed")
      BY DEF NextRead
    <3> HIDE DEF r
    <3>2. Fits([rd EXCEPT ![c] = r], Victim(k))
      BY <2>1, <3>1, NextReadFits
    <3>3. ClosesClient(k, [rd EXCEPT ![c] = r])
      BY <2>5 DEF r
    <3> QED BY <2>1, <3>2, <3>3, CallKeeps
  <2>6. CASE StopsServer([rd EXCEPT ![c] = NextRead(sock[c] = "closed" \/ c \in Registered)])
    <3> DEFINE r == NextRead(sock[c] = "closed" \/ c \in Registered)
    <3>1. r \in {"badf", "waiting"} /\ (r = "badf" => c \in Registered \/ sock[c] = "closed")
      BY DEF NextRead
    <3> HIDE DEF r
    <3>2. Fits([rd EXCEPT ![c] = r], Registered)
      BY <2>1, <3>1, NextReadFits
    <3>3. StopsServer([rd EXCEPT ![c] = r])
      BY <2>6 DEF r
    <3> QED BY <2>1, <3>2, <3>3, CallKeeps
  <2> QED BY <1>11, <2>3, <2>4, <2>5, <2>6 DEF MessageHandler
<1>12. ASSUME NEW c \in Conn, ReadFails(c) PROVE Inv'
  <2>1. [rd EXCEPT ![c] = "none"] \in [Conn -> ReadState]
    BY <1>0 DEF ReadState
  <2> QED BY <1>0, <1>12, <2>1, SessionErrorKeeps DEF ReadFails
<1>13. ASSUME NEW c \in Conn, WriteFails(c) PROVE Inv'
  <2>1. [wr EXCEPT ![c] = @ - 1] \in [Conn -> 0..MaxWrites]
    BY <1>0, <1>13, HandledType DEF WriteFails
  <2> QED BY <1>0, <1>13, <2>1, SessionErrorKeeps DEF WriteFails
<1>14. CASE UNCHANGED appVars
  BY <1>0, <1>14 DEF appVars, Inv, AppTypeOK, CloseIsSafe, Told, Accepted, Fresh, Ends, Quiet
<1> QED
  BY <1>1, <1>2, <1>3, <1>4, <1>5, <1>6, <1>7, <1>8, <1>9, <1>10, <1>11, <1>12, <1>13, <1>14
     DEF AppNext, Environment, Handler

\* The inductive invariant of the server under any application.
THEOREM InvCorrect == AppSpec => []Inv
<1>1. AppInit => Inv
  BY InitInv
<1>2. Inv /\ [AppNext]_appVars => Inv'
  BY InvStep
<1> QED BY <1>1, <1>2, PTL DEF AppSpec

\* Server and application keep their types, for any connections and ids.
THEOREM TypeCorrect == AppSpec => []AppTypeOK
BY InvCorrect, PTL DEF Inv

\* close(cid) never dereferences an absent entry when the application closes
\* the clients it has been told of and not been told to be gone.
THEOREM CloseIsSafeHolds == AppSpec => []CloseIsSafe
BY InvCorrect, PTL DEF Inv

\* A registered session with a live peer is read from, for any number of
\* sessions and whatever is overwritten, closed and stopped around it.
THEOREM NobodyIsDeafHolds == AppSpec => []NobodyIsDeaf
<1>1. Inv => NobodyIsDeaf
  <2> SUFFICES ASSUME Inv, NEW k \in Cid, sessions[k] # NoConn,
                      sock[sessions[k]] = "open", peer[sessions[k]]
               PROVE  rd[sessions[k]] \in {"waiting", "msg"}
    BY DEF NobodyIsDeaf
  <2>1. sessions[k] \in Conn /\ rd[sessions[k]] \in ReadState
    BY DEF Inv, AppTypeOK
  <2>2. rd[sessions[k]] \notin {"eof", "error", "aborted", "badf"}
    BY <2>1 DEF Inv, Ends
  <2>3. rd[sessions[k]] # "none"
    BY <2>1 DEF Inv, Quiet
  <2> QED BY <2>1, <2>2, <2>3 DEF ReadState
<1> QED BY <1>1, InvCorrect, PTL

-----------------------------------------------------------------------------
(* The stream of a connection.  First what one write does, and the types. *)

\* The least of three numbers.
LEMMA MinOfThree ==
  ASSUME NEW a \in Int, NEW b \in Int, NEW c \in Int
  PROVE  /\ Min({a, b, c}) \in {a, b, c}
         /\ Min({a, b, c}) <= a /\ Min({a, b, c}) <= b /\ Min({a, b, c}) <= c
<1>1. PICK x \in {a, b, c} : \A y \in {a, b, c} : x <= y
  <2>1. CASE a <= b /\ a <= c
    BY <2>1
  <2>2. CASE b <= a /\ b <= c
    BY <2>2
  <2>3. CASE c <= a /\ c <= b
    BY <2>3
  <2> QED BY <2>1, <2>2, <2>3
<1>2. Min({a, b, c}) \in {a, b, c} /\ \A y \in {a, b, c} : Min({a, b, c}) <= y
  BY <1>1 DEF Min
<1> QED BY <1>2

\* Every unit of a message is a unit, and none of them is Dead.
LEMMA UnitOf ==
  ASSUME NEW m \in Msg, NEW i \in Nat, i <= Size[m]
  PROVE  <<m, i>> \in Unit /\ <<m, i>> # Dead
BY SizeAssumption DEF Unit, Dead

\* What the socket does with units of a message that it takes.
LEMMA TakenFacts ==
  ASSUME FrTypeOK, NEW m \in Msg, NEW ok \in BOOLEAN, Taken(m, ok)
  PROVE  \E r \in Nat \ {0} :
           /\ r <= Rest(m) /\ Len(wire) + r <= Cap
           /\ pos' = [pos EXCEPT ![m] = @ + r]
           /\ wire' \in Seq(Unit) /\ Len(wire') = Len(wire) + r
           /\ \A k \in 1..Len(wire) : wire'[k] = wire[k]
           /\ \A k \in 1..r : wire'[Len(wire) + k] = IF ok THEN <<m, pos[m] + k - 1>> ELSE Dead
           /\ eager' \in BOOLEAN
           /\ spoilt' \subseteq {"mixed", "dead", "length"} /\ spoilt \subseteq spoilt'
           /\ spoilt' = {} => ok /\ Legal(Size[m]) /\ \A k \in Msg \ {m} : ~Midway(k)
<1> DEFINE r == Room(m)
           new == [k \in 1..r |-> IF ok THEN <<m, pos[m] + k - 1>> ELSE Dead]
<1>1. /\ Size[m] \in Nat /\ pos[m] \in Nat /\ pos[m] <= Size[m] + 1
      /\ Len(wire) \in Nat /\ Cap \in Nat /\ Chunk \in Nat /\ wire \in Seq(Unit)
  BY SizeAssumption, BoundAssumption, LenProperties DEF FrTypeOK
<1>2. /\ r \in Int /\ r <= Rest(m) /\ r <= Cap - Len(wire) /\ Rest(m) \in Int
  <2> HIDE DEF new, r
  <2>0. Rest(m) = Size[m] + 1 - pos[m]
    BY DEF Rest
  <2>1. Rest(m) \in Int /\ Cap - Len(wire) \in Int /\ Chunk \in Int
    BY <1>1, <2>0
  <2>2. r = Min({Chunk, Rest(m), Cap - Len(wire)})
    BY DEF Room, r
  <2>3. r \in {Chunk, Rest(m), Cap - Len(wire)} /\ r <= Rest(m) /\ r <= Cap - Len(wire)
    BY <2>1, <2>2, MinOfThree
  <2> QED BY <2>1, <2>3
<1>3. r \in Nat \ {0}
  BY <1>2 DEF Taken
<1>4. new \in Seq(Unit) /\ Len(new) = r
  <2>1. \A k \in 1..r : (IF ok THEN <<m, pos[m] + k - 1>> ELSE Dead) \in Unit
    <3> SUFFICES ASSUME NEW k \in 1..r PROVE (IF ok THEN <<m, pos[m] + k - 1>> ELSE Dead) \in Unit
      OBVIOUS
    <3>1. pos[m] + k - 1 \in Nat /\ pos[m] + k - 1 <= Size[m]
      BY <1>1, <1>2 DEF Rest
    <3>2. <<m, pos[m] + k - 1>> \in Unit
      BY <3>1, UnitOf
    <3> QED BY <3>2 DEF Unit
  <2>2. new \in [1..r -> Unit]
    BY <2>1
  <2> HIDE DEF new, r
  <2> QED BY <2>2, <1>3, LenProperties
<1>5. /\ wire' = wire \o new
      /\ pos' = [pos EXCEPT ![m] = @ + r]
      /\ eager' = (r = Min({Chunk, Rest(m)})) /\ spoilt' = spoilt \cup Spoils(m, ok)
  BY DEF Taken
<1>6. /\ wire' \in Seq(Unit) /\ Len(wire') = Len(wire) + r
      /\ \A k \in 1..Len(wire) : wire'[k] = wire[k]
      /\ \A k \in 1..r : wire'[Len(wire) + k] = new[k]
  <2>1. \A i \in 1..Len(wire) + Len(new) : wire'[i] = IF i <= Len(wire) THEN wire[i] ELSE new[i - Len(wire)]
    BY <1>1, <1>4, <1>5, ConcatProperties
  <2>2. wire' \in Seq(Unit) /\ Len(wire') = Len(wire) + Len(new)
    BY <1>1, <1>4, <1>5, ConcatProperties
  <2> HIDE DEF new, r
  <2>3. \A k \in 1..Len(wire) : wire'[k] = wire[k]
    BY <2>1, <1>1, <1>3, <1>4
  <2>4. \A k \in 1..r : wire'[Len(wire) + k] = new[k]
    <3> SUFFICES ASSUME NEW k \in 1..r PROVE wire'[Len(wire) + k] = new[k]
      OBVIOUS
    <3>1. Len(wire) + k \in 1..Len(wire) + Len(new) /\ ~(Len(wire) + k <= Len(wire))
          /\ Len(wire) + k - Len(wire) = k
      BY <1>1, <1>3, <1>4
    <3> QED BY <2>1, <3>1
  <2> QED BY <2>2, <2>3, <2>4, <1>4
<1>7. \A k \in 1..r : new[k] = IF ok THEN <<m, pos[m] + k - 1>> ELSE Dead
  OBVIOUS
<1>8. /\ spoilt' \subseteq {"mixed", "dead", "length"} /\ spoilt \subseteq spoilt'
      /\ spoilt' = {} => ok /\ Legal(Size[m]) /\ \A k \in Msg \ {m} : ~Midway(k)
  BY <1>5 DEF FrTypeOK, Spoils
<1>9. eager' \in BOOLEAN
  BY <1>5
<1>10. Len(wire) + r <= Cap
  BY <1>1, <1>2, <1>3
<1> HIDE DEF new, r
<1>11. \A k \in 1..r : wire'[Len(wire) + k] = IF ok THEN <<m, pos[m] + k - 1>> ELSE Dead
  BY <1>6, <1>7
<1> QED BY <1>2, <1>3, <1>5, <1>6, <1>8, <1>9, <1>10, <1>11

\* Taking units leaves the types.
LEMMA TakenType ==
  ASSUME FrTypeOK, NEW m \in Msg, NEW ok \in BOOLEAN, Taken(m, ok)
  PROVE  /\ pos' \in [Msg -> Nat] /\ \A k \in Msg : pos'[k] <= Size[k] + 1
         /\ eager' \in BOOLEAN
         /\ wire' \in Seq(Unit) /\ Len(wire') <= Cap
         /\ spoilt' \subseteq {"mixed", "dead", "length"}
<1>1. PICK r \in Nat \ {0} :
        /\ r <= Rest(m) /\ Len(wire) + r <= Cap
        /\ pos' = [pos EXCEPT ![m] = @ + r]
        /\ wire' \in Seq(Unit) /\ Len(wire') = Len(wire) + r
        /\ eager' \in BOOLEAN /\ spoilt' \subseteq {"mixed", "dead", "length"}
  BY TakenFacts
<1>2. Size \in [Msg -> Nat] /\ pos \in [Msg -> Nat] /\ \A k \in Msg : pos[k] <= Size[k] + 1
  BY SizeAssumption DEF FrTypeOK
<1> QED BY <1>1, <1>2 DEF Rest

\* What async_write_some does to the state of the sender.
LEMMA WriteSomeType ==
  ASSUME FrTypeOK, NEW m \in Msg, NEW ok \in BOOLEAN, NEW done \in Seq(Msg), WriteSome(m, done, ok)
  PROVE  /\ queue' \in Seq(Msg) /\ posted' \in Seq(Msg)
         /\ pos' \in [Msg -> Nat] /\ \A k \in Msg : pos'[k] <= Size[k] + 1
         /\ eager' \in BOOLEAN
         /\ wire' \in Seq(Unit) /\ Len(wire') <= Cap
         /\ spoilt' \subseteq {"mixed", "dead", "length"}
<1>1. CASE Taken(m, ok) /\ posted' = Append(done, m) /\ UNCHANGED queue
  <2>1. posted' \in Seq(Msg) /\ queue' \in Seq(Msg)
    BY <1>1, AppendProperties DEF FrTypeOK
  <2> QED BY <1>1, <2>1, TakenType
<1>2. CASE queue' = Append(queue, m) /\ posted' = done /\ UNCHANGED <<wire, pos, eager, spoilt>>
  <2>1. queue' \in Seq(Msg)
    BY <1>2, AppendProperties DEF FrTypeOK
  <2> QED BY <1>2, <2>1 DEF FrTypeOK
<1> QED BY <1>1, <1>2 DEF WriteSome

\* The variables of both ends and of the socket have their types, for every
\* assignment of lengths, every chunk and every socket.
THEOREM FrTypeCorrect == FrSpec => []FrTypeOK
<1>1. FrInit => FrTypeOK
  BY SizeAssumption, BoundAssumption, EmptySeq DEF FrInit, FrTypeOK
<1>2. FrTypeOK /\ [FrNext]_frVars => FrTypeOK'
  <2> SUFFICES ASSUME FrTypeOK, [FrNext]_frVars PROVE FrTypeOK'
    OBVIOUS
  <2>0. /\ sent \in Seq(Msg) /\ queue \in Seq(Msg) /\ posted \in Seq(Msg) /\ wire \in Seq(Unit)
        /\ body \in Seq(Unit) /\ got \in Seq(Msg \cup {Dead}) /\ need \in 0..Limit - 1 /\ Limit \in Nat \ {0}
        /\ Len(wire) \in Nat /\ Len(wire) <= Cap /\ Cap \in Nat
    BY BoundAssumption, LenProperties DEF FrTypeOK
  <2>1. ASSUME NEW m \in Msg, SendAsync(m) PROVE FrTypeOK'
    <3>1. sent' \in Seq(Msg)
      BY <2>0, <2>1, AppendProperties DEF SendAsync
    <3> QED BY <2>0, <2>1, <3>1, WriteSomeType DEF SendAsync, FrTypeOK, inVars
  <2>2. ASSUME NEW ok \in BOOLEAN, Writable(ok) PROVE FrTypeOK'
    <3>1. /\ Head(queue) \in Msg /\ Tail(queue) \in Seq(Msg) /\ Append(posted, Head(queue)) \in Seq(Msg)
      BY <2>0, <2>2, HeadTailProperties, AppendProperties DEF Writable
    <3> QED BY <2>0, <2>2, <3>1, TakenType DEF Writable, FrTypeOK, inVars
  <2>3. ASSUME NEW ok \in BOOLEAN, WriteHandler(ok) PROVE FrTypeOK'
    <3>1. Head(posted) \in Msg /\ Tail(posted) \in Seq(Msg)
      BY <2>0, <2>3, HeadTailProperties DEF WriteHandler
    <3>2. CASE Rest(Head(posted)) = 0
      BY <2>0, <2>3, <3>1, <3>2 DEF WriteHandler, FrTypeOK, inVars
    <3>3. CASE Rest(Head(posted)) # 0
      BY <2>0, <2>3, <3>1, <3>3, WriteSomeType DEF WriteHandler, FrTypeOK, inVars
    <3> QED BY <3>2, <3>3
  <2>4. ASSUME ReadHeader PROVE FrTypeOK'
    <3>1. Tail(wire) \in Seq(Unit) /\ Len(Tail(wire)) = Len(wire) - 1 /\ Head(wire) \in Unit
      BY <2>0, <2>4, HeadTailProperties DEF ReadHeader
    <3>2. PICK n \in LengthOf(Head(wire)) : need' = IF Legal(n) THEN n ELSE 0
      BY <2>4 DEF ReadHeader
    <3>3. n \in Nat
      BY <3>1, <3>2, <2>0, SizeAssumption DEF LengthOf, Unit
    <3>4. need' \in 0..Limit - 1
      BY <2>0, <3>2, <3>3 DEF Legal
    <3> QED BY <2>0, <2>4, <3>1, <3>4 DEF ReadHeader, FrTypeOK, outVars
  <2>5. ASSUME ReadBody PROVE FrTypeOK'
    <3>1. /\ Tail(wire) \in Seq(Unit) /\ Len(Tail(wire)) = Len(wire) - 1 /\ Head(wire) \in Unit
      BY <2>0, <2>5, HeadTailProperties DEF ReadBody
    <3>2. Append(body, Head(wire)) \in Seq(Unit)
      BY <2>0, <3>1, AppendProperties
    <3>3. need' \in 0..Limit - 1
      BY <2>0, <2>5 DEF ReadBody
    <3>4. Meaning(Append(body, Head(wire))) \in Msg \cup {Dead}
      BY DEF Meaning
    <3>5. Append(got, Meaning(Append(body, Head(wire)))) \in Seq(Msg \cup {Dead})
      BY <2>0, <3>4, AppendProperties
    <3>6. body' \in Seq(Unit) /\ got' \in Seq(Msg \cup {Dead})
      BY <2>0, <2>5, <3>2, <3>5, EmptySeq DEF ReadBody
    <3> QED BY <2>0, <2>5, <3>1, <3>3, <3>6 DEF ReadBody, FrTypeOK, outVars
  <2>6. CASE UNCHANGED frVars
    BY <2>6 DEF FrTypeOK, frVars, outVars, inVars
  <2> QED BY <2>1, <2>2, <2>3, <2>4, <2>5, <2>6 DEF FrNext, Write, Read
<1> QED BY <1>1, <1>2, PTL DEF FrSpec

-----------------------------------------------------------------------------
(* The order of the writes.  Every message that is not wholly written is in *)
(* the queue of writes or has a handler; those of which nothing is written  *)
(* wait in the order of the calls, so that they begin in that order.        *)

Distinct(s) == \A i, j \in 1..Len(s) : s[i] = s[j] => i = j

Known(s) ==
  /\ \A m \in Msg : pos[m] > 0 => \E i \in 1..Len(s) : s[i] = m
  /\ \A q \in 1..Len(queue) : \E i \in 1..Len(s) : s[i] = queue[q]
  /\ \A p \in 1..Len(posted) : pos[posted[p]] > 0

Pending(s) ==
  \A i \in 1..Len(s) : Rest(s[i]) > 0 =>
    \/ \E q \in 1..Len(queue) : queue[q] = s[i]
    \/ \E p \in 1..Len(posted) : posted[p] = s[i]

InTurn(s) ==
  \A i, j \in 1..Len(s) : \A q \in 1..Len(queue) :
    i < j /\ pos[s[i]] = 0 /\ queue[q] = s[j] /\ pos[s[j]] = 0 =>
      \E p \in 1..q - 1 : queue[p] = s[i]

Begun(s) == \A i, j \in 1..Len(s) : i < j /\ pos[s[j]] > 0 => pos[s[i]] > 0

Order(s) == Distinct(s) /\ Known(s) /\ Pending(s) /\ InTurn(s) /\ Begun(s)

\* Where an appended element is.
LEMMA Appended ==
  ASSUME NEW S, NEW t \in Seq(S), NEW e \in S, NEW u, u = Append(t, e)
  PROVE  /\ u \in Seq(S) /\ Len(t) \in Nat /\ Len(u) = Len(t) + 1 /\ u[Len(t) + 1] = e
         /\ \A i \in 1..Len(t) : u[i] = t[i]
BY AppendProperties, LenProperties

\* Where the elements of a sequence are without its first.
LEMMA Behind ==
  ASSUME NEW S, NEW t \in Seq(S), t # <<>>, NEW u, u = Tail(t)
  PROVE  /\ u \in Seq(S) /\ Len(t) \in Nat \ {0} /\ Len(u) = Len(t) - 1
         /\ Head(t) = t[1] /\ t[1] \in S
         /\ \A i \in 1..Len(u) : u[i] = t[i + 1]
BY HeadTailProperties, LenProperties, EmptySeq

\* How far the messages are written after some units of one have been taken.
LEMMA Advance ==
  ASSUME FrTypeOK, NEW m \in Msg, NEW ok \in BOOLEAN, Taken(m, ok)
  PROVE  /\ pos \in [Msg -> Nat] /\ pos' \in [Msg -> Nat] /\ Size \in [Msg -> Nat]
         /\ \A k \in Msg : k # m => pos'[k] = pos[k]
         /\ pos'[m] > pos[m] /\ pos[m] <= Size[m]
<1>1. PICK r \in Nat \ {0} : r <= Rest(m) /\ pos' = [pos EXCEPT ![m] = @ + r]
  BY TakenFacts
<1>2. Size \in [Msg -> Nat] /\ pos \in [Msg -> Nat]
  BY SizeAssumption DEF FrTypeOK
<1> QED BY <1>1, <1>2 DEF Rest

\* A new message waits behind all of which nothing is written, or there is none.
LEMMA OrderSend ==
  ASSUME FrTypeOK, Order(sent), NEW m \in Msg, SendAsync(m)
  PROVE  Order(sent)'
<1>a. sent \in Seq(Msg) /\ queue \in Seq(Msg) /\ posted \in Seq(Msg)
  BY DEF FrTypeOK
<1>0. /\ pos \in [Msg -> Nat] /\ Size \in [Msg -> Nat] /\ \A k \in Msg : pos[k] <= Size[k] + 1
      /\ \A i \in 1..Len(sent) : sent[i] \in Msg
  BY <1>a, SizeAssumption, LenProperties DEF FrTypeOK
<1>1. /\ Len(sent) \in Nat /\ Len(sent') = Len(sent) + 1 /\ sent'[Len(sent) + 1] = m
      /\ \A i \in 1..Len(sent) : sent'[i] = sent[i] /\ sent[i] \in Msg
  BY <1>a, Appended DEF SendAsync
<1>2. \A i \in 1..Len(sent) : sent[i] # m
  BY <1>a, RangeEquality DEF SendAsync
<1>3. pos[m] = 0
  BY <1>0, <1>2 DEF Order, Known
<1>4. Distinct(sent')
  BY <1>1, <1>2 DEF Order, Distinct
<1>5. ASSUME Taken(m, TRUE), queue = <<>>, posted' = Append(posted, m), UNCHANGED queue
      PROVE  Order(sent)'
  <2>1. /\ \A k \in Msg : k # m => pos'[k] = pos[k]
        /\ pos'[m] > 0 /\ pos' \in [Msg -> Nat]
    BY <1>0, <1>3, <1>5, Advance
  <2>2. /\ Len(queue) = 0 /\ Len(queue') = 0
    BY <1>5, EmptySeq
  <2>3. /\ Len(posted) \in Nat /\ Len(posted') = Len(posted) + 1 /\ posted'[Len(posted) + 1] = m
        /\ \A p \in 1..Len(posted) : posted'[p] = posted[p] /\ posted[p] \in Msg
    BY <1>a, <1>5, Appended
  <2>4. Known(sent)'
    <3>1. \A k \in Msg : pos'[k] > 0 => \E i \in 1..Len(sent') : sent'[i] = k
      BY <1>1, <2>1 DEF Order, Known
    <3>2. \A p \in 1..Len(posted') : pos'[posted'[p]] > 0
      <4> SUFFICES ASSUME NEW p \in 1..Len(posted) + 1 PROVE pos'[posted'[p]] > 0
        BY <2>3
      <4>1. CASE p = Len(posted) + 1
        BY <2>1, <2>3, <4>1
      <4>2. CASE p # Len(posted) + 1
        <5>1. p \in 1..Len(posted) /\ posted'[p] = posted[p] /\ posted[p] \in Msg
          BY <2>3, <4>2
        <5>2. pos[posted[p]] > 0
          BY <5>1 DEF Order, Known
        <5>3. CASE posted[p] = m
          BY <2>1, <5>1, <5>3
        <5>4. CASE posted[p] # m
          BY <2>1, <5>1, <5>2, <5>4
        <5> QED BY <5>3, <5>4
      <4> QED BY <4>1, <4>2
    <3> QED BY <2>2, <3>1, <3>2 DEF Known
  <2>5. Pending(sent)'
    <3> SUFFICES ASSUME NEW i \in 1..Len(sent) + 1, Rest(sent[i])' > 0
                 PROVE  \E p \in 1..Len(posted') : posted'[p] = sent'[i]
      BY <1>1 DEF Pending
    <3>1. CASE i = Len(sent) + 1
      BY <1>1, <2>3, <3>1
    <3>2. CASE i # Len(sent) + 1
      <4>1. i \in 1..Len(sent) /\ sent'[i] = sent[i] /\ sent[i] \in Msg /\ sent[i] # m
        BY <1>1, <1>2, <3>2
      <4>2. Rest(sent[i]) > 0
        BY <1>0, <2>1, <4>1 DEF Rest
      <4>3. PICK p \in 1..Len(posted) : posted[p] = sent[i]
        BY <2>2, <4>1, <4>2 DEF Order, Pending
      <4> QED BY <2>3, <4>1, <4>3
    <3> QED BY <3>1, <3>2
  <2>6. InTurn(sent)'
    BY <2>2 DEF InTurn
  <2>7. Begun(sent)'
    <3>1. \A i \in 1..Len(sent) : pos[sent[i]] > 0
      <4> SUFFICES ASSUME NEW i \in 1..Len(sent), pos[sent[i]] = 0 PROVE FALSE
        BY <1>0, <1>1
      <4>1. Rest(sent[i]) > 0
        BY <1>0, <1>1 DEF Rest
      <4>2. PICK p \in 1..Len(posted) : posted[p] = sent[i]
        BY <2>2, <4>1 DEF Order, Pending
      <4> QED BY <1>0, <4>2 DEF Order, Known
    <3>2. \A i \in 1..Len(sent) : pos'[sent'[i]] > 0
      <4> SUFFICES ASSUME NEW i \in 1..Len(sent) PROVE pos'[sent'[i]] > 0
        OBVIOUS
      <4>1. sent'[i] = sent[i] /\ sent[i] \in Msg /\ sent[i] # m
        BY <1>1, <1>2
      <4> QED BY <2>1, <3>1, <4>1
    <3> SUFFICES ASSUME NEW i \in 1..Len(sent) + 1, NEW j \in 1..Len(sent) + 1, i < j
                 PROVE  pos'[sent'[i]] > 0
      BY <1>1 DEF Begun
    <3> QED BY <1>1, <3>2
  <2> QED BY <1>4, <2>4, <2>5, <2>6, <2>7 DEF Order, Distinct
<1>6. ASSUME queue' = Append(queue, m), posted' = posted, UNCHANGED pos
      PROVE  Order(sent)'
  <2>1. /\ Len(queue) \in Nat /\ Len(queue') = Len(queue) + 1 /\ queue'[Len(queue) + 1] = m
        /\ \A q \in 1..Len(queue) : queue'[q] = queue[q]
    BY <1>a, <1>6, Appended
  <2>2. Known(sent)'
    <3>1. \A k \in Msg : pos'[k] > 0 => \E i \in 1..Len(sent') : sent'[i] = k
      BY <1>1, <1>6 DEF Order, Known
    <3>2. ASSUME NEW q \in 1..Len(queue') PROVE \E i \in 1..Len(sent') : sent'[i] = queue'[q]
      <4>1. CASE q = Len(queue) + 1
        BY <1>1, <2>1, <4>1
      <4>2. CASE q # Len(queue) + 1
        <5>1. q \in 1..Len(queue) /\ queue'[q] = queue[q]
          BY <2>1, <4>2
        <5>2. PICK i \in 1..Len(sent) : sent[i] = queue[q]
          BY <5>1 DEF Order, Known
        <5> QED BY <1>1, <5>1, <5>2
      <4> QED BY <4>1, <4>2
    <3>3. \A p \in 1..Len(posted') : pos'[posted'[p]] > 0
      BY <1>6 DEF Order, Known
    <3> QED BY <3>1, <3>2, <3>3 DEF Known
  <2>3. Pending(sent)'
    <3> SUFFICES ASSUME NEW i \in 1..Len(sent) + 1, Rest(sent[i])' > 0
                 PROVE  \/ \E q \in 1..Len(queue') : queue'[q] = sent'[i]
                        \/ \E p \in 1..Len(posted') : posted'[p] = sent'[i]
      BY <1>1 DEF Pending
    <3>1. CASE i = Len(sent) + 1
      BY <1>1, <2>1, <3>1
    <3>2. CASE i # Len(sent) + 1
      <4>1. i \in 1..Len(sent) /\ sent'[i] = sent[i]
        BY <1>1, <3>2
      <4>2. Rest(sent[i]) > 0
        BY <1>6, <4>1 DEF Rest
      <4>3. \/ \E q \in 1..Len(queue) : queue[q] = sent[i]
            \/ \E p \in 1..Len(posted) : posted[p] = sent[i]
        BY <4>1, <4>2 DEF Order, Pending
      <4> QED BY <1>6, <2>1, <4>1, <4>3
    <3> QED BY <3>1, <3>2
  <2>4. InTurn(sent)'
    <3> SUFFICES ASSUME NEW i \in 1..Len(sent) + 1, NEW j \in 1..Len(sent) + 1, NEW q \in 1..Len(queue) + 1,
                        i < j, pos[sent'[i]] = 0, queue'[q] = sent'[j], pos[sent'[j]] = 0
                 PROVE  \E p \in 1..q - 1 : queue'[p] = sent'[i]
      BY <1>1, <1>6, <2>1 DEF InTurn
    <3>1. i \in 1..Len(sent) /\ sent'[i] = sent[i] /\ sent[i] \in Msg
      BY <1>1
    <3>2. CASE q = Len(queue) + 1
      <4>1. Rest(sent[i]) > 0
        BY <1>0, <3>1 DEF Rest
      <4>2. ~\E p \in 1..Len(posted) : posted[p] = sent[i]
        BY <1>0, <3>1 DEF Order, Known
      <4>3. PICK p \in 1..Len(queue) : queue[p] = sent[i]
        BY <3>1, <4>1, <4>2 DEF Order, Pending
      <4> QED BY <2>1, <3>1, <3>2, <4>3
    <3>3. CASE q # Len(queue) + 1
      <4>1. q \in 1..Len(queue) /\ queue'[q] = queue[q]
        BY <2>1, <3>3
      <4>2. PICK l \in 1..Len(sent) : sent[l] = queue[q]
        BY <4>1 DEF Order, Known
      <4>3. j = l /\ j \in 1..Len(sent) /\ sent'[j] = sent[j]
        <5>1. l \in 1..Len(sent') /\ j \in 1..Len(sent') /\ sent'[l] = sent'[j]
          BY <1>1, <4>1, <4>2
        <5> QED BY <1>1, <1>4, <5>1 DEF Distinct
      <4>4. PICK p \in 1..q - 1 : queue[p] = sent[i]
        BY <3>1, <4>1, <4>3 DEF Order, InTurn
      <4>5. p \in 1..Len(queue) /\ queue'[p] = queue[p]
        BY <2>1, <4>1, <4>4
      <4> QED BY <3>1, <4>4, <4>5
    <3> QED BY <3>2, <3>3
  <2>5. Begun(sent)'
    <3> SUFFICES ASSUME NEW i \in 1..Len(sent) + 1, NEW j \in 1..Len(sent) + 1,
                        i < j, pos[sent'[j]] > 0
                 PROVE  pos[sent'[i]] > 0
      BY <1>1, <1>6 DEF Begun
    <3>1. j \in 1..Len(sent) /\ i \in 1..Len(sent) /\ sent'[j] = sent[j] /\ sent'[i] = sent[i]
      BY <1>1, <1>3
    <3> QED BY <3>1 DEF Order, Begun
  <2> QED BY <1>4, <2>2, <2>3, <2>4, <2>5 DEF Order, Distinct
<1> QED BY <1>5, <1>6 DEF SendAsync, WriteSome

\* The head of the queue begins only after every message sent before it.
LEMMA OrderWritable ==
  ASSUME FrTypeOK, Order(sent), NEW ok \in BOOLEAN, Writable(ok)
  PROVE  Order(sent)'
<1> DEFINE m == Head(queue)
<1>a. queue \in Seq(Msg) /\ posted \in Seq(Msg) /\ sent \in Seq(Msg) /\ queue # <<>>
  BY DEF FrTypeOK, Writable
<1>1. /\ m \in Msg /\ m = queue[1] /\ Len(queue) \in Nat \ {0} /\ Len(queue') = Len(queue) - 1
      /\ \A q \in 1..Len(queue') : queue'[q] = queue[q + 1]
  BY <1>a, Behind DEF Writable
<1>2. /\ Len(posted) \in Nat /\ Len(posted') = Len(posted) + 1 /\ posted'[Len(posted) + 1] = m
      /\ \A p \in 1..Len(posted) : posted'[p] = posted[p] /\ posted[p] \in Msg
  <2>1. posted' = Append(posted, m)
    BY DEF Writable
  <2>2. \A p \in 1..Len(posted) : posted[p] \in Msg
    BY <1>a, LenProperties
  <2> HIDE DEF m
  <2> QED BY <1>a, <1>1, <2>1, <2>2, Appended
<1>3. Taken(m, ok)
  BY DEF Writable
<1> HIDE DEF m
<1>4. /\ pos \in [Msg -> Nat] /\ pos' \in [Msg -> Nat] /\ Size \in [Msg -> Nat]
      /\ \A k \in Msg : k # m => pos'[k] = pos[k]
      /\ pos'[m] > pos[m] /\ pos[m] <= Size[m]
  BY <1>1, <1>3, Advance
<1>5. /\ sent' = sent /\ Len(sent) \in Nat /\ \A i \in 1..Len(sent) : sent[i] \in Msg
  BY <1>a, LenProperties DEF Writable
<1>6. \A k \in Msg : pos'[k] >= pos[k]
  BY <1>4
<1>7. PICK n \in 1..Len(sent) : sent[n] = m
  BY <1>1 DEF Order, Known
<1>8. Known(sent)'
  <2>1. \A k \in Msg : pos'[k] > 0 => \E i \in 1..Len(sent) : sent[i] = k
    BY <1>4, <1>7 DEF Order, Known
  <2>2. \A q \in 1..Len(queue') : \E i \in 1..Len(sent) : sent[i] = queue'[q]
    <3> SUFFICES ASSUME NEW q \in 1..Len(queue') PROVE \E i \in 1..Len(sent) : sent[i] = queue'[q]
      OBVIOUS
    <3>1. q + 1 \in 1..Len(queue) /\ queue'[q] = queue[q + 1]
      BY <1>1
    <3> QED BY <3>1 DEF Order, Known
  <2>3. ASSUME NEW p \in 1..Len(posted) + 1 PROVE pos'[posted'[p]] > 0
    <3>1. CASE p = Len(posted) + 1
      BY <1>1, <1>2, <1>4, <3>1
    <3>2. CASE p # Len(posted) + 1
      <4>1. p \in 1..Len(posted) /\ posted'[p] = posted[p] /\ posted[p] \in Msg
        BY <1>2, <3>2
      <4>2. pos[posted[p]] > 0
        BY <4>1 DEF Order, Known
      <4>3. pos'[posted[p]] >= pos[posted[p]] /\ pos[posted[p]] \in Nat /\ pos'[posted[p]] \in Nat
        BY <1>4, <1>6, <4>1
      <4> QED BY <4>1, <4>2, <4>3
    <3> QED BY <3>1, <3>2
  <2> QED BY <1>2, <1>5, <2>1, <2>2, <2>3 DEF Known
<1>9. Pending(sent)'
  <2> SUFFICES ASSUME NEW i \in 1..Len(sent), Rest(sent[i])' > 0
               PROVE  \/ \E q \in 1..Len(queue') : queue'[q] = sent[i]
                      \/ \E p \in 1..Len(posted') : posted'[p] = sent[i]
    BY <1>5 DEF Pending
  <2>1. CASE sent[i] = m
    BY <1>2, <2>1
  <2>2. CASE sent[i] # m
    <3>1. Rest(sent[i]) > 0
      BY <1>4, <1>5, <2>2 DEF Rest
    <3>2. CASE \E p \in 1..Len(posted) : posted[p] = sent[i]
      BY <1>2, <3>2
    <3>3. ASSUME NEW q \in 1..Len(queue), queue[q] = sent[i]
          PROVE  \E x \in 1..Len(queue') : queue'[x] = sent[i]
      <4>1. q # 1
        BY <1>1, <2>2, <3>3
      <4>2. q - 1 \in 1..Len(queue') /\ (q - 1) + 1 = q
        BY <1>1, <4>1
      <4> QED BY <1>1, <3>3, <4>2
    <3> QED BY <3>1, <3>2, <3>3 DEF Order, Pending
  <2> QED BY <2>1, <2>2
<1>10. InTurn(sent)'
  <2> SUFFICES ASSUME NEW i \in 1..Len(sent), NEW j \in 1..Len(sent), NEW q \in 1..Len(queue'),
                      i < j, pos'[sent[i]] = 0, queue'[q] = sent[j], pos'[sent[j]] = 0
               PROVE  \E p \in 1..q - 1 : queue'[p] = sent[i]
    BY <1>5 DEF InTurn
  <2>1. pos[sent[i]] = 0 /\ pos[sent[j]] = 0 /\ sent[i] # m
    <3>1. sent[i] \in Msg /\ sent[j] \in Msg /\ pos'[m] > 0
      BY <1>1, <1>4, <1>5
    <3>2. sent[i] # m /\ sent[j] # m
      BY <3>1
    <3> QED BY <1>4, <3>1, <3>2
  <2>2. q + 1 \in 1..Len(queue) /\ queue[q + 1] = sent[j]
    BY <1>1
  <2>3. PICK p \in 1..(q + 1) - 1 : queue[p] = sent[i]
    BY <2>1, <2>2 DEF Order, InTurn
  <2>4. p # 1
    BY <1>1, <2>1, <2>3
  <2>5. p - 1 \in 1..q - 1 /\ p - 1 \in 1..Len(queue') /\ (p - 1) + 1 = p
    BY <1>1, <2>3, <2>4
  <2> QED BY <1>1, <2>3, <2>5
<1>11. Begun(sent)'
  <2> SUFFICES ASSUME NEW i \in 1..Len(sent), NEW j \in 1..Len(sent), i < j, pos'[sent[j]] > 0,
                      pos'[sent[i]] = 0
               PROVE  FALSE
    BY <1>4, <1>5 DEF Begun
  <2>1. pos[sent[i]] = 0
    BY <1>4, <1>5
  <2>2. pos[sent[j]] = 0
    <3>1. ~(pos[sent[j]] > 0)
      BY <2>1, <1>5 DEF Order, Begun
    <3> QED BY <1>4, <1>5, <3>1
  <2>3. sent[j] = m
    BY <1>4, <1>5, <2>2
  <2>4. 1 \in 1..Len(queue) /\ queue[1] = sent[j]
    BY <1>1, <2>3
  <2>5. \E p \in 1..1 - 1 : queue[p] = sent[i]
    BY <2>1, <2>2, <2>4 DEF Order, InTurn
  <2> QED BY <2>5
<1> QED BY <1>5, <1>8, <1>9, <1>10, <1>11 DEF Order, Distinct

\* A handler moves its message, of which something is written, and no other.
LEMMA OrderHandler ==
  ASSUME FrTypeOK, Order(sent), NEW ok \in BOOLEAN, WriteHandler(ok)
  PROVE  Order(sent)'
<1> DEFINE m == Head(posted)
           done == Tail(posted)
<1>a. queue \in Seq(Msg) /\ posted \in Seq(Msg) /\ sent \in Seq(Msg) /\ posted # <<>>
  BY DEF FrTypeOK, WriteHandler
<1>1. /\ m \in Msg /\ m = posted[1] /\ Len(posted) \in Nat \ {0} /\ Len(done) = Len(posted) - 1
      /\ done \in Seq(Msg) /\ \A p \in 1..Len(done) : done[p] = posted[p + 1] /\ posted[p + 1] \in Msg
  <2>1. /\ m \in Msg /\ m = posted[1] /\ Len(posted) \in Nat \ {0} /\ Len(done) = Len(posted) - 1
        /\ done \in Seq(Msg) /\ \A p \in 1..Len(done) : done[p] = posted[p + 1]
    BY <1>a, Behind
  <2>2. \A p \in 1..Len(posted) : posted[p] \in Msg
    BY <1>a, LenProperties
  <2> HIDE DEF m, done
  <2> QED BY <2>1, <2>2
<1>2. IF Rest(m) = 0 THEN posted' = done /\ UNCHANGED <<pos, queue>> ELSE WriteSome(m, done, ok)
  BY DEF WriteHandler
<1> HIDE DEF m, done
<1>3. /\ sent' = sent /\ Len(sent) \in Nat /\ \A i \in 1..Len(sent) : sent[i] \in Msg
  BY <1>a, LenProperties DEF WriteHandler
<1>4. pos \in [Msg -> Nat] /\ Size \in [Msg -> Nat] /\ pos[m] > 0 /\ \A k \in Msg : pos[k] <= Size[k] + 1
  <2>1. 1 \in 1..Len(posted)
    BY <1>1
  <2> QED BY <1>1, <2>1, SizeAssumption DEF FrTypeOK, Order, Known
<1>5. \A i \in 1..Len(sent) : Rest(sent[i]) > 0 /\ sent[i] # m =>
        \/ \E q \in 1..Len(queue) : queue[q] = sent[i]
        \/ \E p \in 1..Len(done) : done[p] = sent[i]
  <2> SUFFICES ASSUME NEW i \in 1..Len(sent), Rest(sent[i]) > 0, sent[i] # m,
                      NEW p \in 1..Len(posted), posted[p] = sent[i]
               PROVE  \E x \in 1..Len(done) : done[x] = sent[i]
    BY DEF Order, Pending
  <2>1. p # 1
    BY <1>1
  <2>2. p - 1 \in 1..Len(done) /\ (p - 1) + 1 = p
    BY <1>1, <2>1
  <2> QED BY <1>1, <2>2
<1>6. \A p \in 1..Len(done) : pos[done[p]] > 0
  <2> SUFFICES ASSUME NEW p \in 1..Len(done) PROVE pos[done[p]] > 0
    OBVIOUS
  <2>1. p + 1 \in 1..Len(posted) /\ done[p] = posted[p + 1]
    BY <1>1
  <2> QED BY <2>1 DEF Order, Known
<1>7. CASE Rest(m) = 0
  <2>1. Known(sent)'
    BY <1>2, <1>3, <1>6, <1>7 DEF Order, Known
  <2>2. Pending(sent)'
    BY <1>2, <1>3, <1>5, <1>7 DEF Pending, Rest
  <2> QED BY <1>2, <1>3, <1>7, <2>1, <2>2 DEF Order, Distinct, InTurn, Begun
<1>8. ASSUME Taken(m, ok), queue = <<>>, posted' = Append(done, m), UNCHANGED queue
      PROVE  Order(sent)'
  <2>1. /\ pos' \in [Msg -> Nat] /\ \A k \in Msg : k # m => pos'[k] = pos[k]
        /\ pos'[m] > pos[m]
    BY <1>1, <1>8, Advance
  <2>2. /\ Len(done) \in Nat /\ Len(posted') = Len(done) + 1 /\ posted'[Len(done) + 1] = m
        /\ \A p \in 1..Len(done) : posted'[p] = done[p] /\ done[p] \in Msg
    BY <1>1, <1>8, Appended
  <2>3. \A k \in Msg : pos'[k] > 0 <=> pos[k] > 0
    BY <1>4, <2>1
  <2>4. Known(sent)'
    <3>1. \A p \in 1..Len(posted') : pos'[posted'[p]] > 0
      <4> SUFFICES ASSUME NEW p \in 1..Len(done) + 1 PROVE pos'[posted'[p]] > 0
        BY <2>2
      <4>1. CASE p = Len(done) + 1
        BY <1>1, <1>4, <2>2, <2>3, <4>1
      <4>2. CASE p # Len(done) + 1
        <5>1. p \in 1..Len(done) /\ posted'[p] = done[p] /\ done[p] \in Msg
          BY <2>2, <4>2
        <5> QED BY <1>6, <2>3, <5>1
      <4> QED BY <4>1, <4>2
    <3> QED BY <1>3, <1>8, <2>3, <3>1 DEF Order, Known
  <2>5. Pending(sent)'
    <3> SUFFICES ASSUME NEW i \in 1..Len(sent), Rest(sent[i])' > 0
                 PROVE  \/ \E q \in 1..Len(queue') : queue'[q] = sent[i]
                        \/ \E p \in 1..Len(posted') : posted'[p] = sent[i]
      BY <1>3 DEF Pending
    <3>1. CASE sent[i] = m
      BY <2>2, <3>1
    <3>2. CASE sent[i] # m
      <4>1. Rest(sent[i]) > 0
        BY <1>3, <2>1, <3>2 DEF Rest
      <4> QED BY <1>5, <1>8, <2>2, <3>2, <4>1
    <3> QED BY <3>1, <3>2
  <2>6. InTurn(sent)'
    <3>1. Len(queue') = 0
      BY <1>8, EmptySeq
    <3> QED BY <3>1 DEF InTurn
  <2>7. Begun(sent)'
    <3> SUFFICES ASSUME NEW i \in 1..Len(sent), NEW j \in 1..Len(sent), i < j, pos'[sent[j]] > 0
                 PROVE  pos'[sent[i]] > 0
      BY <1>3 DEF Begun
    <3> QED BY <1>3, <2>3 DEF Order, Begun
  <2> QED BY <1>3, <2>4, <2>5, <2>6, <2>7 DEF Order, Distinct
<1>9. ASSUME queue' = Append(queue, m), posted' = done, UNCHANGED pos
      PROVE  Order(sent)'
  <2>1. /\ Len(queue) \in Nat /\ Len(queue') = Len(queue) + 1 /\ queue'[Len(queue) + 1] = m
        /\ \A q \in 1..Len(queue) : queue'[q] = queue[q]
    BY <1>a, <1>1, <1>9, Appended
  <2>2. Known(sent)'
    <3>1. ASSUME NEW q \in 1..Len(queue') PROVE \E i \in 1..Len(sent') : sent'[i] = queue'[q]
      <4>1. CASE q = Len(queue) + 1
        BY <1>1, <1>3, <1>4, <2>1, <4>1 DEF Order, Known
      <4>2. CASE q # Len(queue) + 1
        BY <1>3, <2>1, <4>2 DEF Order, Known
      <4> QED BY <4>1, <4>2
    <3> QED BY <1>3, <1>6, <1>9, <3>1 DEF Order, Known
  <2>3. Pending(sent)'
    <3> SUFFICES ASSUME NEW i \in 1..Len(sent), Rest(sent[i])' > 0
                 PROVE  \/ \E q \in 1..Len(queue') : queue'[q] = sent[i]
                        \/ \E p \in 1..Len(posted') : posted'[p] = sent[i]
      BY <1>3 DEF Pending
    <3>1. CASE sent[i] = m
      BY <2>1, <3>1
    <3>2. CASE sent[i] # m
      <4>1. Rest(sent[i]) > 0
        BY <1>3, <1>9 DEF Rest
      <4> QED BY <1>5, <1>9, <2>1, <3>2, <4>1
    <3> QED BY <3>1, <3>2
  <2>4. InTurn(sent)'
    <3> SUFFICES ASSUME NEW i \in 1..Len(sent), NEW j \in 1..Len(sent), NEW q \in 1..Len(queue) + 1,
                        i < j, pos[sent[i]] = 0, queue'[q] = sent[j], pos[sent[j]] = 0
                 PROVE  \E p \in 1..q - 1 : queue'[p] = sent[i]
      BY <1>3, <1>9, <2>1 DEF InTurn
    <3>1. q # Len(queue) + 1
      BY <1>4, <2>1
    <3>2. q \in 1..Len(queue) /\ queue[q] = sent[j]
      BY <2>1, <3>1
    <3>3. PICK p \in 1..q - 1 : queue[p] = sent[i]
      BY <3>2 DEF Order, InTurn
    <3> QED BY <2>1, <3>3
  <2> QED BY <1>3, <1>9, <2>2, <2>3, <2>4 DEF Order, Distinct, Begun
<1> QED BY <1>2, <1>7, <1>8, <1>9 DEF WriteSome

-----------------------------------------------------------------------------
(* The stream of a connection that is not spoilt.  What is in the socket    *)
(* begins with the unit that the reader expects, each unit is followed by    *)
(* the next of its message or, after the last, by the header of the message  *)
(* sent next, and the last unit is the last that was written.                *)

Upto == Len(got)
Expected == IF need = 0 THEN 0 ELSE Len(body) + 1

\* Messages are written one after the other, and their lengths are legal.
WriterIn(s) ==
  /\ \A i, j \in 1..Len(s) : i < j /\ pos[s[j]] > 0 => Rest(s[i]) = 0
  /\ \A m \in Msg : pos[m] > 0 => Legal(Size[m])

\* What has been read is what was sent first, and then a part of the next.
ReaderIn(s) ==
  /\ Upto <= Len(s)
  /\ \A i \in 1..Upto : got[i] = s[i] /\ Rest(s[i]) = 0
  /\ need > 0 => /\ Upto < Len(s) /\ need + Len(body) = Size[s[Upto + 1]]
                 /\ \A i \in 1..Len(body) : body[i] = <<s[Upto + 1], i>>

\* Unit u is the one after unit i of the n-th message.
Follows(s, n, i, u) ==
  \/ i < Size[s[n]] /\ u = <<s[n], i + 1>>
  \/ i = Size[s[n]] /\ n < Len(s) /\ u = <<s[n + 1], 0>>

\* The n-th message is written up to p, and none behind it has begun.
Edge(s, n, p) == pos[s[n]] = p /\ \A j \in n + 1..Len(s) : pos[s[j]] = 0

Units(s) ==
  \A k \in 1..Len(wire) : \E n \in 1..Len(s) : \E i \in 0..Size[s[n]] :
    /\ wire[k] = <<s[n], i>> /\ i < pos[s[n]]
    /\ k < Len(wire) => Follows(s, n, i, wire[k + 1])
    /\ k = Len(wire) => Edge(s, n, i + 1)

StreamIn(s) ==
  /\ wire # <<>> => Upto < Len(s) /\ wire[1] = <<s[Upto + 1], Expected>>
  /\ wire = <<>> /\ Upto < Len(s) => Edge(s, Upto + 1, Expected)
  /\ Units(s)

\* A message whose units are taken is the first that is not wholly written.
LEMMA WriterTakes ==
  ASSUME FrTypeOK, NEW s \in Seq(Msg), Distinct(s), Begun(s)', WriterIn(s),
         NEW m \in Msg, NEW ok \in BOOLEAN, Taken(m, ok), spoilt' = {}
  PROVE  WriterIn(s)'
<1>1. /\ pos \in [Msg -> Nat] /\ pos' \in [Msg -> Nat] /\ Size \in [Msg -> Nat]
      /\ \A k \in Msg : k # m => pos'[k] = pos[k]
      /\ pos'[m] > pos[m] /\ pos[m] <= Size[m]
  BY Advance
<1>2. Legal(Size[m]) /\ \A k \in Msg \ {m} : ~Midway(k)
  BY TakenFacts
<1>3. \A i \in 1..Len(s) : s[i] \in Msg
  BY LenProperties
<1>4. \A k \in Msg : pos[k] <= Size[k] + 1
  BY DEF FrTypeOK
<1>5. ASSUME NEW i \in 1..Len(s), NEW j \in 1..Len(s), i < j, pos'[s[j]] > 0
      PROVE  Rest(s[i])' = 0
  <2>1. s[i] # s[j]
    BY <1>5, LenProperties DEF Distinct
  <2>2. s[i] # m
    <3> SUFFICES ASSUME s[i] = m PROVE FALSE
      OBVIOUS
    <3>1. pos[s[j]] > 0
      BY <1>1, <1>3, <1>5, <2>1
    <3>2. Rest(s[i]) = 0
      BY <1>5, <3>1 DEF WriterIn
    <3>3. Rest(m) = 0
      BY <3>2
    <3> QED BY <1>1, <3>3 DEF Rest
  <2>3. pos'[s[i]] > 0
    BY <1>5 DEF Begun
  <2>4. pos'[s[i]] = pos[s[i]] /\ ~Midway(s[i]) /\ s[i] \in Msg
    BY <1>1, <1>2, <1>3, <2>2
  <2>5. ~(Rest(s[i]) > 0)
    BY <2>3, <2>4 DEF Midway
  <2>6. pos[s[i]] = Size[s[i]] + 1
    <3>1. pos[s[i]] \in Nat /\ Size[s[i]] \in Nat /\ pos[s[i]] <= Size[s[i]] + 1
      BY <1>1, <1>4, <2>4
    <3> QED BY <2>5, <3>1 DEF Rest
  <2> QED BY <1>1, <2>4, <2>6 DEF Rest
<1>6. \A k \in Msg : pos'[k] > 0 => Legal(Size[k])
  BY <1>1, <1>2 DEF WriterIn
<1> QED BY <1>5, <1>6 DEF WriterIn

\* What is taken continues the message written last, or begins the one behind it.
LEMMA Junction ==
  ASSUME FrTypeOK, NEW s \in Seq(Msg), Distinct(s), WriterIn(s), WriterIn(s)',
         NEW m \in Msg, NEW ok \in BOOLEAN, Taken(m, ok),
         NEW x \in 1..Len(s), s[x] = m,
         NEW n \in 1..Len(s), NEW p, Edge(s, n, p), pos[s[n]] > 0 \/ n <= x
  PROVE  /\ \/ x = n
            \/ x = n + 1 /\ p = Size[s[n]] + 1 /\ pos[m] = 0
         /\ Edge(s, x, pos[m])
<1>1. /\ pos \in [Msg -> Nat] /\ pos' \in [Msg -> Nat] /\ Size \in [Msg -> Nat]
      /\ \A k \in Msg : k # m => pos'[k] = pos[k]
      /\ pos'[m] > pos[m] /\ pos[m] <= Size[m]
  BY Advance
<1>2. Len(s) \in Nat /\ \A i \in 1..Len(s) : s[i] \in Msg
  BY LenProperties
<1>3. n <= x
  <2> SUFFICES ASSUME x < n, pos[s[n]] > 0 PROVE FALSE
    BY <1>2
  <2>1. Rest(m) = 0
    BY DEF WriterIn
  <2> QED BY <1>1, <2>1 DEF Rest
<1>4. ASSUME NEW y \in 1..Len(s), y < x PROVE pos[s[y]] = Size[s[y]] + 1
  <2>1. pos'[s[x]] > 0
    BY <1>1
  <2>2. Rest(s[y])' = 0
    BY <1>4, <2>1 DEF WriterIn
  <2>3. s[y] # m
    BY <1>4, <1>2 DEF Distinct
  <2>4. pos'[s[y]] = pos[s[y]] /\ pos[s[y]] \in Nat /\ Size[s[y]] \in Nat
    BY <1>1, <1>2, <2>3
  <2> QED BY <2>2, <2>4 DEF Rest
<1>5. CASE x = n
  BY <1>5 DEF Edge
<1>6. CASE x > n
  <2>1. x = n + 1
    <3> SUFFICES ASSUME x > n + 1 PROVE FALSE
      BY <1>2, <1>6
    <3>1. n + 1 \in 1..Len(s) /\ n + 1 \in n + 1..Len(s)
      BY <1>2, <1>6
    <3>2. pos[s[n + 1]] = 0
      BY <3>1 DEF Edge
    <3>3. pos[s[n + 1]] = Size[s[n + 1]] + 1
      BY <1>2, <1>4, <3>1
    <3>4. Size[s[n + 1]] \in Nat
      BY <1>1, <1>2, <3>1
    <3> QED BY <3>2, <3>3, <3>4
  <2>2. x \in n + 1..Len(s) /\ \A j \in x + 1..Len(s) : j \in n + 1..Len(s)
    BY <1>2, <2>1
  <2>3. pos[m] = 0
    BY <2>2 DEF Edge
  <2> QED BY <1>4, <1>6, <2>1, <2>2, <2>3 DEF Edge
<1> QED BY <1>2, <1>3, <1>5, <1>6

\* What is taken of a message fits behind what is in the socket.
LEMMA StreamTakes ==
  ASSUME FrTypeOK, NEW s \in Seq(Msg), Distinct(s), WriterIn(s), WriterIn(s)',
         ReaderIn(s), StreamIn(s),
         NEW m \in Msg, NEW ok \in BOOLEAN, Taken(m, ok), spoilt' = {},
         NEW x \in 1..Len(s), s[x] = m, UNCHANGED inVars
  PROVE  ReaderIn(s)' /\ StreamIn(s)'
<1>1. /\ pos \in [Msg -> Nat] /\ pos' \in [Msg -> Nat] /\ Size \in [Msg -> Nat]
      /\ \A k \in Msg : k # m => pos'[k] = pos[k]
      /\ pos'[m] > pos[m] /\ pos[m] <= Size[m]
  BY Advance
<1>2. PICK r \in Nat \ {0} :
        /\ r <= Rest(m) /\ pos' = [pos EXCEPT ![m] = @ + r]
        /\ wire' \in Seq(Unit) /\ Len(wire') = Len(wire) + r
        /\ \A k \in 1..Len(wire) : wire'[k] = wire[k]
        /\ \A k \in 1..r : wire'[Len(wire) + k] = <<m, pos[m] + k - 1>>
  BY TakenFacts
<1>3. pos'[m] = pos[m] + r /\ pos[m] + r <= Size[m] + 1
  BY <1>1, <1>2 DEF Rest
<1>4. /\ Len(s) \in Nat /\ \A i \in 1..Len(s) : s[i] \in Msg
      /\ Len(wire) \in Nat /\ (wire = <<>> <=> Len(wire) = 0)
      /\ Upto \in Nat /\ need \in Nat /\ Len(body) \in Nat
  BY LenProperties, EmptySeq, BoundAssumption DEF FrTypeOK, Upto
<1>5. UNCHANGED <<need, body, got, Upto, Expected>>
  BY DEF inVars, Upto, Expected
<1>6. \A i \in 1..Len(s) : Rest(s[i]) = 0 => i # x /\ Rest(s[i])' = 0
  <2> SUFFICES ASSUME NEW i \in 1..Len(s), Rest(s[i]) = 0 PROVE i # x /\ Rest(s[i])' = 0
    OBVIOUS
  <2>1. Rest(m) # 0
    BY <1>1 DEF Rest
  <2>2. s[i] # m /\ s[i] \in Msg
    BY <1>4, <2>1
  <2> QED BY <1>1, <2>2 DEF Rest
<1>7. Upto < x
  BY <1>4, <1>6 DEF ReaderIn
<1>8. ReaderIn(s)'
  <2>1. \A i \in 1..Upto : i \in 1..Len(s)
    BY <1>4 DEF ReaderIn
  <2> QED BY <1>5, <1>6, <2>1 DEF ReaderIn
<1>9. ASSUME wire = <<>> PROVE Edge(s, x, pos[m]) /\ x = Upto + 1 /\ pos[m] = Expected
  <2>1. Upto + 1 \in 1..Len(s) /\ Upto + 1 <= x /\ Upto < Len(s)
    BY <1>4, <1>7
  <2>2. Edge(s, Upto + 1, Expected)
    BY <1>9, <2>1 DEF StreamIn
  <2>3. /\ \/ x = Upto + 1
           \/ x = Upto + 1 + 1 /\ Expected = Size[s[Upto + 1]] + 1 /\ pos[m] = 0
        /\ Edge(s, x, pos[m])
    BY <2>1, <2>2, Junction
  <2>4. Expected # Size[s[Upto + 1]] + 1
    <3>1. Size[s[Upto + 1]] \in Nat
      BY <1>1, <1>4, <2>1
    <3>2. CASE need = 0
      BY <3>1, <3>2 DEF Expected
    <3>3. CASE need # 0
      <4>1. need > 0 /\ Expected = Len(body) + 1
        BY <1>4, <3>3 DEF Expected
      <4>2. need + Len(body) = Size[s[Upto + 1]]
        BY <4>1 DEF ReaderIn
      <4> QED BY <1>4, <3>1, <4>1, <4>2
    <3> QED BY <3>2, <3>3
  <2>5. x = Upto + 1 /\ pos[m] = Expected
    BY <2>2, <2>3, <2>4 DEF Edge
  <2> QED BY <2>3, <2>5
<1>10. ASSUME wire # <<>>, NEW n \in 1..Len(s), NEW i \in 0..Size[s[n]], Edge(s, n, i + 1)
       PROVE  Edge(s, x, pos[m]) /\ Follows(s, n, i, <<m, pos[m]>>)
  <2>1. Size[s[n]] \in Nat /\ pos[s[n]] > 0
    BY <1>1, <1>4, <1>10 DEF Edge
  <2>2. /\ \/ x = n
           \/ x = n + 1 /\ i + 1 = Size[s[n]] + 1 /\ pos[m] = 0
        /\ Edge(s, x, pos[m])
    BY <1>10, <2>1, Junction
  <2>3. CASE x = n
    <3>1. pos[m] = i + 1 /\ i < Size[s[n]]
      <4>1. pos[m] = i + 1 /\ pos[m] <= Size[s[n]]
        BY <1>1, <1>10, <2>3 DEF Edge
      <4> QED BY <2>1, <4>1
    <3> QED BY <2>2, <2>3, <3>1 DEF Follows
  <2>4. CASE x # n
    <3>1. x = n + 1 /\ i = Size[s[n]] /\ pos[m] = 0 /\ n < Len(s)
      BY <1>4, <2>1, <2>2, <2>4
    <3> QED BY <2>2, <3>1 DEF Follows
  <2> QED BY <2>3, <2>4
<1>11. Edge(s, x, pos[m])
  <2>1. CASE wire = <<>>
    BY <1>9, <2>1
  <2>2. CASE wire # <<>>
    <3>1. Len(wire) \in 1..Len(wire)
      BY <1>4, <2>2
    <3>2. PICK n \in 1..Len(s) : \E i \in 0..Size[s[n]] : Edge(s, n, i + 1)
      BY <3>1 DEF StreamIn, Units
    <3> QED BY <1>10, <2>2, <3>2
  <2> QED BY <2>1, <2>2
<1>12. \A j \in x + 1..Len(s) : pos'[s[j]] = 0
  <2> SUFFICES ASSUME NEW j \in x + 1..Len(s) PROVE pos'[s[j]] = 0
    OBVIOUS
  <2>1. j \in 1..Len(s) /\ s[j] # m /\ s[j] \in Msg
    BY <1>4 DEF Distinct
  <2>2. pos[s[j]] = 0
    BY <1>11 DEF Edge
  <2> QED BY <1>1, <2>1, <2>2
<1>13. wire' # <<>> /\ wire'[1] = <<s[Upto + 1], Expected>> /\ Upto < Len(s)
  <2>1. CASE wire = <<>>
    <3>1. 1 \in 1..r /\ Len(wire) + 1 = 1 /\ pos[m] + 1 - 1 = pos[m]
      BY <1>1, <1>4, <2>1
    <3>2. wire'[1] = <<m, pos[m]>>
      BY <1>2, <3>1
    <3>3. Len(wire') # 0
      BY <1>2, <1>4
    <3>4. wire' # <<>>
      BY <3>3, EmptySeq
    <3> QED BY <1>4, <1>9, <2>1, <3>2, <3>4
  <2>2. CASE wire # <<>>
    <3>1. 1 \in 1..Len(wire) /\ Len(wire') # 0
      BY <1>2, <1>4, <2>2
    <3>2. wire' # <<>>
      BY <3>1, EmptySeq
    <3> QED BY <1>2, <2>2, <3>1, <3>2 DEF StreamIn
  <2> QED BY <2>1, <2>2
<1>14. ASSUME NEW k \in 1..Len(wire), k < Len(wire)
       PROVE  \E n \in 1..Len(s) : \E i \in 0..Size[s[n]] :
                /\ wire'[k] = <<s[n], i>> /\ i < pos'[s[n]]
                /\ Follows(s, n, i, wire'[k + 1])
  <2>0. PICK n \in 1..Len(s) : \E i \in 0..Size[s[n]] :
          wire[k] = <<s[n], i>> /\ i < pos[s[n]] /\ Follows(s, n, i, wire[k + 1])
    BY <1>14 DEF StreamIn, Units
  <2>1. PICK i \in 0..Size[s[n]] :
          wire[k] = <<s[n], i>> /\ i < pos[s[n]] /\ Follows(s, n, i, wire[k + 1])
    BY <2>0
  <2>2. k + 1 \in 1..Len(wire)
    BY <1>4, <1>14
  <2>3. i < pos'[s[n]]
    <3>1. s[n] \in Msg /\ Size[s[n]] \in Nat /\ pos[s[n]] \in Nat /\ pos'[s[n]] \in Nat
      BY <1>1, <1>4
    <3>2. pos'[s[n]] >= pos[s[n]]
      <4>1. CASE s[n] = m
        BY <1>1, <4>1
      <4>2. CASE s[n] # m
        BY <1>1, <3>1, <4>2
      <4> QED BY <4>1, <4>2
    <3> QED BY <2>1, <3>1, <3>2
  <2> QED BY <1>2, <2>1, <2>2, <2>3
<1>15. ASSUME NEW k \in 1..Len(wire), k = Len(wire)
       PROVE  \E n \in 1..Len(s) : \E i \in 0..Size[s[n]] :
                /\ wire'[k] = <<s[n], i>> /\ i < pos'[s[n]]
                /\ Follows(s, n, i, wire'[k + 1])
  <2>0. PICK n \in 1..Len(s) : \E i \in 0..Size[s[n]] :
          wire[k] = <<s[n], i>> /\ i < pos[s[n]] /\ Edge(s, n, i + 1)
    BY <1>15 DEF StreamIn, Units
  <2>1. PICK i \in 0..Size[s[n]] :
          wire[k] = <<s[n], i>> /\ i < pos[s[n]] /\ Edge(s, n, i + 1)
    BY <2>0
  <2>2. wire # <<>> /\ 1 \in 1..r /\ pos[m] + 1 - 1 = pos[m]
    BY <1>1, <1>4
  <2>3. Follows(s, n, i, <<m, pos[m]>>)
    BY <1>10, <2>1, <2>2
  <2>4. wire'[k + 1] = <<m, pos[m]>>
    BY <1>2, <1>15, <2>2
  <2>5. i < pos'[s[n]]
    <3>1. s[n] \in Msg /\ Size[s[n]] \in Nat /\ pos[s[n]] \in Nat /\ pos'[s[n]] \in Nat
      BY <1>1, <1>4
    <3>2. pos'[s[n]] >= pos[s[n]]
      <4>1. CASE s[n] = m
        BY <1>1, <4>1
      <4>2. CASE s[n] # m
        BY <1>1, <3>1, <4>2
      <4> QED BY <4>1, <4>2
    <3> QED BY <2>1, <3>1, <3>2
  <2> QED BY <1>2, <2>1, <2>3, <2>4, <2>5
<1>16. ASSUME NEW l \in 1..r
       PROVE  \E n \in 1..Len(s) : \E i \in 0..Size[s[n]] :
                /\ wire'[Len(wire) + l] = <<s[n], i>> /\ i < pos'[s[n]]
                /\ l < r => Follows(s, n, i, wire'[Len(wire) + l + 1])
                /\ l = r => Edge(s, n, i + 1)'
  <2>a. PICK i : i = pos[m] + l - 1
    OBVIOUS
  <2>1. Size[m] \in Nat /\ pos[m] \in Nat
    BY <1>1
  <2>2. i \in 0..Size[s[x]] /\ i < pos'[s[x]]
    <3>1. i \in Nat /\ i < pos[m] + r /\ i <= Size[m]
      BY <1>3, <2>a, <2>1
    <3> QED BY <1>3, <2>1, <3>1
  <2>3. wire'[Len(wire) + l] = <<s[x], i>>
    BY <1>2, <2>a
  <2>4. ASSUME l < r PROVE Follows(s, x, i, wire'[Len(wire) + l + 1])
    <3>1. l + 1 \in 1..r /\ Len(wire) + l + 1 = Len(wire) + (l + 1)
      BY <1>4, <2>4
    <3>2. pos[m] + (l + 1) - 1 = i + 1 /\ i < Size[s[x]]
      BY <1>3, <2>a, <2>1, <2>4
    <3>3. wire'[Len(wire) + (l + 1)] = <<m, i + 1>>
      BY <1>2, <3>1, <3>2
    <3> QED BY <3>1, <3>2, <3>3 DEF Follows
  <2>5. ASSUME l = r PROVE Edge(s, x, i + 1)'
    <3>1. i + 1 = pos[m] + r
      BY <2>a, <2>1, <2>5
    <3> QED BY <1>3, <1>12, <3>1 DEF Edge
  <2> QED BY <2>2, <2>3, <2>4, <2>5
<1>17. Units(s)'
  <2> SUFFICES ASSUME NEW k \in 1..Len(wire')
               PROVE  \E n \in 1..Len(s) : \E i \in 0..Size[s[n]] :
                        /\ wire'[k] = <<s[n], i>> /\ i < pos'[s[n]]
                        /\ k < Len(wire') => Follows(s, n, i, wire'[k + 1])
                        /\ k = Len(wire') => Edge(s, n, i + 1)'
    BY DEF Units, Follows
  <2>0. Len(wire') = Len(wire) + r
    BY <1>2
  <2>1. CASE k \in 1..Len(wire)
    <3>1. k < Len(wire') /\ k # Len(wire') /\ (k < Len(wire) \/ k = Len(wire))
      BY <1>4, <2>0, <2>1
    <3> QED BY <1>14, <1>15, <2>1, <3>1
  <2>2. CASE k \notin 1..Len(wire)
    <3>1. k - Len(wire) \in 1..r /\ k = Len(wire) + (k - Len(wire))
      BY <1>4, <2>0, <2>2
    <3>2. PICK l \in 1..r : k = Len(wire) + l
      BY <3>1
    <3>3. (k < Len(wire') <=> l < r) /\ (k = Len(wire') <=> l = r)
      BY <1>4, <2>0, <3>2
    <3> QED BY <1>16, <3>2, <3>3
  <2> QED BY <2>1, <2>2
<1> QED BY <1>5, <1>8, <1>13, <1>17 DEF StreamIn

\* A message that is sent is a further one of which nothing is written.
LEMMA StreamGrows ==
  ASSUME FrTypeOK, WriterIn(sent), ReaderIn(sent), StreamIn(sent),
         NEW m \in Msg, pos[m] = 0, NEW s, s = Append(sent, m)
  PROVE  WriterIn(s) /\ ReaderIn(s) /\ StreamIn(s)
<1>1. /\ Len(sent) \in Nat /\ Len(s) = Len(sent) + 1 /\ s[Len(sent) + 1] = m
      /\ \A i \in 1..Len(sent) : s[i] = sent[i]
  BY Appended DEF FrTypeOK
<1>2. Upto \in Nat /\ need \in Nat
  BY LenProperties, BoundAssumption DEF FrTypeOK, Upto
<1>3. \A i \in 1..Len(s) : i \in 1..Len(sent) \/ i = Len(sent) + 1
  BY <1>1
<1>4. WriterIn(s)
  <2> SUFFICES ASSUME NEW i \in 1..Len(s), NEW j \in 1..Len(s), i < j, pos[s[j]] > 0
               PROVE  Rest(s[i]) = 0
    BY DEF WriterIn
  <2>1. i \in 1..Len(sent) /\ j \in 1..Len(sent) /\ s[i] = sent[i] /\ s[j] = sent[j]
    BY <1>1, <1>3
  <2> QED BY <2>1 DEF WriterIn
<1>5. ReaderIn(s)
  <2>1. \A i \in 1..Upto : i \in 1..Len(sent)
    BY <1>1, <1>2 DEF ReaderIn
  <2>2. ASSUME need > 0 PROVE Upto < Len(s) /\ Upto + 1 \in 1..Len(sent)
    BY <1>1, <1>2, <2>2 DEF ReaderIn
  <2> QED BY <1>1, <1>2, <2>1, <2>2 DEF ReaderIn
<1>6. ASSUME NEW n \in 1..Len(sent), NEW p, Edge(sent, n, p) PROVE Edge(s, n, p)
  <2> SUFFICES ASSUME NEW j \in n + 1..Len(s) PROVE pos[s[j]] = 0
    BY <1>1, <1>6 DEF Edge
  <2>1. CASE j = Len(sent) + 1
    BY <1>1, <2>1
  <2>2. CASE j # Len(sent) + 1
    <3>1. j \in 1..Len(sent) /\ j \in n + 1..Len(sent)
      BY <1>1, <2>2
    <3> QED BY <1>1, <1>6, <3>1 DEF Edge
  <2> QED BY <2>1, <2>2
<1>7. ASSUME wire # <<>> PROVE Upto < Len(s) /\ wire[1] = <<s[Upto + 1], Expected>>
  <2>1. Upto + 1 \in 1..Len(sent) /\ Upto < Len(s)
    BY <1>1, <1>2, <1>7 DEF StreamIn
  <2> QED BY <1>1, <1>7, <2>1 DEF StreamIn
<1>8. ASSUME wire = <<>> PROVE Edge(s, Upto + 1, Expected)
  <2>1. CASE Upto < Len(sent)
    <3>1. Upto + 1 \in 1..Len(sent)
      BY <1>1, <1>2, <2>1
    <3> QED BY <1>6, <1>8, <2>1, <3>1 DEF StreamIn
  <2>2. CASE ~(Upto < Len(sent))
    <3>1. Upto = Len(sent) /\ Expected = 0
      BY <1>1, <1>2, <2>2 DEF ReaderIn, Expected
    <3> QED BY <1>1, <3>1 DEF Edge
  <2> QED BY <2>1, <2>2
<1>9. Units(s)
  <2> SUFFICES ASSUME NEW k \in 1..Len(wire)
               PROVE  \E n \in 1..Len(s) : \E i \in 0..Size[s[n]] :
                        /\ wire[k] = <<s[n], i>> /\ i < pos[s[n]]
                        /\ k < Len(wire) => Follows(s, n, i, wire[k + 1])
                        /\ k = Len(wire) => Edge(s, n, i + 1)
    BY DEF Units
  <2>1. PICK n \in 1..Len(sent) : \E i \in 0..Size[sent[n]] :
          /\ wire[k] = <<sent[n], i>> /\ i < pos[sent[n]]
          /\ k < Len(wire) => Follows(sent, n, i, wire[k + 1])
          /\ k = Len(wire) => Edge(sent, n, i + 1)
    BY DEF StreamIn, Units
  <2>2. n \in 1..Len(s) /\ s[n] = sent[n] /\ (n < Len(sent) => n < Len(s) /\ s[n + 1] = sent[n + 1])
    BY <1>1
  <2>3. \A i : Follows(sent, n, i, wire[k + 1]) => Follows(s, n, i, wire[k + 1])
    BY <2>2 DEF Follows
  <2> QED BY <1>6, <2>1, <2>2, <2>3
<1> QED BY <1>4, <1>5, <1>7, <1>8, <1>9 DEF StreamIn

\* The first unit in the socket is the one that the reader expects.
LEMMA FirstUnit ==
  ASSUME FrTypeOK, Distinct(sent), ReaderIn(sent), StreamIn(sent), wire # <<>>
  PROVE  /\ Upto + 1 \in 1..Len(sent)
         /\ Head(wire) = <<sent[Upto + 1], Expected>>
         /\ Expected \in 0..Size[sent[Upto + 1]] /\ Expected < pos[sent[Upto + 1]]
         /\ Len(wire) > 1 => Follows(sent, Upto + 1, Expected, wire[2])
         /\ Len(wire) = 1 => Edge(sent, Upto + 1, Expected + 1)
<1>1. wire \in Seq(Unit) /\ sent \in Seq(Msg)
  BY DEF FrTypeOK
<1>2. Head(wire) = wire[1] /\ Len(wire) \in Nat \ {0}
  BY <1>1, Behind
<1>3. Upto \in Nat /\ Len(sent) \in Nat
  BY <1>1, LenProperties DEF FrTypeOK, Upto
<1>4. Upto + 1 \in 1..Len(sent) /\ wire[1] = <<sent[Upto + 1], Expected>>
  BY <1>3 DEF StreamIn
<1>5. 1 \in 1..Len(wire) /\ 1 + 1 = 2
  BY <1>2
<1>6. PICK n \in 1..Len(sent) : \E i \in 0..Size[sent[n]] :
        /\ wire[1] = <<sent[n], i>> /\ i < pos[sent[n]]
        /\ 1 < Len(wire) => Follows(sent, n, i, wire[2])
        /\ 1 = Len(wire) => Edge(sent, n, i + 1)
  BY <1>5 DEF StreamIn, Units
<1>7. PICK i \in 0..Size[sent[n]] :
        /\ wire[1] = <<sent[n], i>> /\ i < pos[sent[n]]
        /\ 1 < Len(wire) => Follows(sent, n, i, wire[2])
        /\ 1 = Len(wire) => Edge(sent, n, i + 1)
  BY <1>6
<1>8. n = Upto + 1 /\ i = Expected
  <2>1. sent[n] = sent[Upto + 1] /\ i = Expected
    BY <1>4, <1>7
  <2> QED BY <1>4, <2>1 DEF Distinct
<1> QED BY <1>2, <1>4, <1>7, <1>8

\* What remains in the socket after a unit has been read.
LEMMA UnitsRemain ==
  ASSUME FrTypeOK, StreamIn(sent), wire # <<>>, wire' = Tail(wire), UNCHANGED <<sent, pos>>
  PROVE  /\ Units(sent)'
         /\ Len(wire) \in Nat \ {0} /\ Len(wire') = Len(wire) - 1
         /\ wire' # <<>> => Len(wire) > 1 /\ wire'[1] = wire[2]
         /\ wire' = <<>> => Len(wire) = 1
<1>1. /\ wire' \in Seq(Unit) /\ Len(wire) \in Nat \ {0} /\ Len(wire') = Len(wire) - 1
      /\ \A k \in 1..Len(wire') : wire'[k] = wire[k + 1]
  BY Behind DEF FrTypeOK
<1>1a. /\ Len(wire) \in Nat \ {0} /\ Len(wire') = Len(wire) - 1
       /\ \A k \in 1..Len(wire') : wire'[k] = wire[k + 1]
  BY <1>1
<1>2. wire' = <<>> <=> Len(wire') = 0
  BY <1>1, EmptySeq
<1>3. Units(sent)'
  <2> SUFFICES ASSUME NEW k \in 1..Len(wire')
               PROVE  \E n \in 1..Len(sent') : \E i \in 0..Size[sent'[n]] :
                        /\ wire'[k] = <<sent'[n], i>> /\ i < pos'[sent'[n]]
                        /\ k < Len(wire') => Follows(sent, n, i, wire[k + 1])'
                        /\ k = Len(wire') => Edge(sent, n, i + 1)'
    BY DEF Units
  <2>1. /\ k + 1 \in 1..Len(wire) /\ wire'[k] = wire[k + 1]
        /\ (k < Len(wire') => k + 1 < Len(wire) /\ wire'[k + 1] = wire[(k + 1) + 1])
        /\ (k = Len(wire') => k + 1 = Len(wire))
    <3>1. k + 1 \in 1..Len(wire) /\ wire'[k] = wire[k + 1]
      BY <1>1a
    <3>2. ASSUME k < Len(wire') PROVE k + 1 < Len(wire) /\ wire'[k + 1] = wire[(k + 1) + 1]
      <4>1. k + 1 \in 1..Len(wire') /\ k + 1 < Len(wire)
        BY <1>1a, <3>2
      <4> QED BY <1>1a, <4>1
    <3>3. k = Len(wire') => k + 1 = Len(wire)
      BY <1>1a
    <3> QED BY <3>1, <3>2, <3>3
  <2>2. PICK n \in 1..Len(sent) : \E i \in 0..Size[sent[n]] :
          /\ wire[k + 1] = <<sent[n], i>> /\ i < pos[sent[n]]
          /\ k + 1 < Len(wire) => Follows(sent, n, i, wire[(k + 1) + 1])
          /\ k + 1 = Len(wire) => Edge(sent, n, i + 1)
    BY <2>1 DEF StreamIn, Units
  <2>3. \A i : Edge(sent, n, i + 1) => Edge(sent, n, i + 1)'
    BY DEF Edge
  <2>4. \A i : Follows(sent, n, i, wire'[k + 1]) => Follows(sent, n, i, wire[k + 1])'
    BY DEF Follows
  <2> QED BY <2>1, <2>2, <2>3, <2>4
<1>4. wire' # <<>> => Len(wire) > 1 /\ wire'[1] = wire[2]
  <2> SUFFICES ASSUME wire' # <<>> PROVE Len(wire) > 1 /\ wire'[1] = wire[2]
    OBVIOUS
  <2>1. Len(wire') > 0 /\ 1 \in 1..Len(wire') /\ 1 + 1 = 2
    BY <1>1, <1>2
  <2> QED BY <1>1, <2>1
<1> QED BY <1>1, <1>2, <1>3, <1>4

\* A header that is read begins the body of the message sent next.
LEMMA StreamReadHeader ==
  ASSUME FrTypeOK, Distinct(sent), WriterIn(sent), ReaderIn(sent), StreamIn(sent),
         need = 0 => body = <<>>, ReadHeader
  PROVE  ReaderIn(sent)' /\ StreamIn(sent)'
<1>c. PICK c : c = sent[Upto + 1]
  OBVIOUS
<1>0. wire # <<>> /\ need = 0 /\ wire' = Tail(wire) /\ UNCHANGED <<sent, pos, body, got>>
  BY DEF ReadHeader, outVars
<1>1. /\ Upto + 1 \in 1..Len(sent) /\ Head(wire) = <<c, 0>>
      /\ 0 < pos[c]
      /\ Len(wire) > 1 => Follows(sent, Upto + 1, 0, wire[2])
      /\ Len(wire) = 1 => Edge(sent, Upto + 1, 0 + 1)
  <2>1. Expected = 0
    BY <1>0 DEF Expected
  <2> QED BY <1>0, <1>c, <2>1, FirstUnit
<1>2. /\ Units(sent)'
      /\ wire' # <<>> => Len(wire) > 1 /\ wire'[1] = wire[2]
      /\ wire' = <<>> => Len(wire) = 1
  BY <1>0, UnitsRemain
<1>3. /\ Upto \in Nat /\ Len(sent) \in Nat /\ Upto' = Upto /\ c \in Msg /\ Len(body) = 0
      /\ Upto < Len(sent)
  <2>1. Upto \in Nat /\ Len(sent) \in Nat /\ \A i \in 1..Len(sent) : sent[i] \in Msg
    BY LenProperties DEF FrTypeOK, Upto
  <2>2. Len(body) = 0
    BY <1>0, EmptySeq
  <2> QED BY <1>0, <1>c, <1>1, <2>1, <2>2 DEF Upto
<1>4. Size[c] \in Nat /\ Size[c] > 0 /\ Size[c] < Limit
  BY <1>1, <1>3, SizeAssumption DEF WriterIn, Legal
<1>5. need' = Size[c]
  <2>1. <<c, 0>> # Dead
    BY <1>3, <1>4, UnitOf
  <2>2. LengthOf(<<c, 0>>) = {Size[c]}
    BY <2>1 DEF LengthOf
  <2>3. PICK n \in LengthOf(Head(wire)) : need' = IF Legal(n) THEN n ELSE 0
    BY DEF ReadHeader
  <2> QED BY <1>1, <1>4, <2>2, <2>3 DEF Legal
<1>6. Expected' = 1
  BY <1>0, <1>3, <1>4, <1>5 DEF Expected
<1>7. ReaderIn(sent)'
  BY <1>0, <1>c, <1>3, <1>4, <1>5 DEF ReaderIn, Rest
<1>8. ASSUME wire' # <<>> PROVE wire'[1] = <<c, 1>>
  BY <1>1, <1>2, <1>4, <1>8, <1>c DEF Follows
<1>9. ASSUME wire' = <<>> PROVE Edge(sent, Upto + 1, 1)
  BY <1>1, <1>2, <1>9
<1> QED BY <1>0, <1>c, <1>2, <1>3, <1>6, <1>7, <1>8, <1>9 DEF StreamIn, Edge

\* A whole body means its message.
LEMMA MeaningOfWhole ==
  ASSUME NEW c \in Msg, Size[c] > 0, NEW b \in Seq(Unit), Len(b) = Size[c],
         \A i \in 1..Len(b) : b[i] = <<c, i>>
  PROVE  Meaning(b) = c
<1>1. Size[c] \in Nat
  BY SizeAssumption
<1>2. b = [i \in 1..Size[c] |-> <<c, i>>]
  <2>1. b = [i \in 1..Len(b) |-> b[i]]
    BY LenProperties
  <2> QED BY <2>1
<1>3. b = Whole(c)
  BY <1>2 DEF Whole
<1>4. ASSUME NEW m \in Msg, b = Whole(m) PROVE m = c
  <2>1. 1 \in DOMAIN b /\ b[1] = <<c, 1>>
    BY <1>1, <1>2
  <2>2. 1 \in 1..Size[m] /\ Whole(m)[1] = <<m, 1>>
    BY <1>4, <2>1 DEF Whole
  <2>3. <<m, 1>> = <<c, 1>>
    BY <1>4, <2>1, <2>2
  <2> QED BY <2>3
<1> QED BY <1>3, <1>4 DEF Meaning

\* A unit of a body that is read is the next one, and the last gives the message.
LEMMA StreamReadBody ==
  ASSUME FrTypeOK, Distinct(sent), WriterIn(sent), ReaderIn(sent), StreamIn(sent), ReadBody
  PROVE  ReaderIn(sent)' /\ StreamIn(sent)'
<1>c. PICK c : c = sent[Upto + 1]
  OBVIOUS
<1> DEFINE all == Append(body, Head(wire))
<1>0. wire # <<>> /\ need > 0 /\ need' = need - 1 /\ wire' = Tail(wire) /\ UNCHANGED <<sent, pos>>
  BY DEF ReadBody, outVars
<1>a. /\ Upto \in Nat /\ Len(sent) \in Nat /\ Len(body) \in Nat /\ need \in Nat
      /\ \A i \in 1..Len(sent) : sent[i] \in Msg
  BY LenProperties, BoundAssumption DEF FrTypeOK, Upto
<1>1. /\ Upto + 1 \in 1..Len(sent) /\ Head(wire) = <<c, Len(body) + 1>>
      /\ Len(body) + 1 \in 0..Size[c] /\ Len(body) + 1 < pos[c]
      /\ Len(wire) > 1 => Follows(sent, Upto + 1, Len(body) + 1, wire[2])
      /\ Len(wire) = 1 => Edge(sent, Upto + 1, (Len(body) + 1) + 1)
  <2>1. Expected = Len(body) + 1
    BY <1>0, <1>a DEF Expected
  <2> QED BY <1>0, <1>c, <2>1, FirstUnit
<1>2. /\ Units(sent)'
      /\ wire' # <<>> => Len(wire) > 1 /\ wire'[1] = wire[2]
      /\ wire' = <<>> => Len(wire) = 1
  BY <1>0, UnitsRemain
<1>3. c \in Msg /\ Size[c] \in Nat /\ pos[c] \in Nat /\ pos[c] <= Size[c] + 1 /\ Upto < Len(sent)
  <2>1. c \in Msg /\ Upto < Len(sent)
    BY <1>1, <1>a, <1>c
  <2> QED BY <2>1, SizeAssumption DEF FrTypeOK
<1>4. need + Len(body) = Size[c] /\ \A i \in 1..Len(body) : body[i] = <<c, i>>
  BY <1>0, <1>c DEF ReaderIn
<1>5. /\ all \in Seq(Unit) /\ Len(all) = Len(body) + 1
      /\ \A i \in 1..Len(all) : all[i] = <<c, i>>
  <2>1. <<c, Len(body) + 1>> \in Unit
    BY <1>1, <1>3, <1>a, UnitOf
  <2>a. body \in Seq(Unit) /\ Head(wire) \in Unit
    BY <1>1, <2>1 DEF FrTypeOK
  <2>2. /\ all \in Seq(Unit) /\ Len(all) = Len(body) + 1 /\ all[Len(body) + 1] = <<c, Len(body) + 1>>
        /\ \A i \in 1..Len(body) : all[i] = body[i]
    <3>1. /\ all \in Seq(Unit) /\ Len(all) = Len(body) + 1 /\ all[Len(body) + 1] = Head(wire)
          /\ \A i \in 1..Len(body) : all[i] = body[i]
      BY <2>a, AppendProperties
    <3> QED BY <1>1, <3>1
  <2>3. \A i \in 1..Len(body) + 1 : i \in 1..Len(body) \/ i = Len(body) + 1
    BY <1>a
  <2> HIDE DEF all
  <2> QED BY <1>4, <2>2, <2>3
<1>6. IF need = 1 THEN body' = <<>> /\ got' = Append(got, Meaning(all)) ELSE body' = all /\ got' = got
  BY DEF ReadBody
<1> HIDE DEF all
<1>7. CASE need = 1
  <2>1. Meaning(all) = c
    <3>1. Size[c] > 0 /\ Len(all) = Size[c]
      BY <1>3, <1>4, <1>5, <1>7, <1>a
    <3> QED BY <1>3, <1>5, <3>1, MeaningOfWhole
  <2>2. /\ Len(got') = Upto + 1 /\ got'[Upto + 1] = c /\ \A i \in 1..Upto : got'[i] = got[i]
    <3>1. got \in Seq(Msg \cup {Dead}) /\ c \in Msg \cup {Dead}
      BY <1>3 DEF FrTypeOK
    <3> QED BY <1>6, <1>7, <2>1, <3>1, Appended DEF Upto
  <2>3. Upto' = Upto + 1 /\ need' = 0 /\ Expected' = 0
    BY <1>0, <1>7, <2>2 DEF Upto, Expected
  <2>4. Len(body) + 1 = Size[c] /\ pos[c] = Size[c] + 1 /\ Rest(c) = 0
    BY <1>1, <1>3, <1>4, <1>7, <1>a DEF Rest
  <2>5. ReaderIn(sent)'
    <3>1. ASSUME NEW i \in 1..Upto + 1 PROVE got'[i] = sent[i] /\ Rest(sent[i]) = 0
      <4>1. CASE i = Upto + 1
        BY <2>2, <2>4, <4>1, <1>c
      <4>2. CASE i # Upto + 1
        <5>1. i \in 1..Upto
          BY <1>a, <4>2
        <5> QED BY <2>2, <5>1 DEF ReaderIn
      <4> QED BY <4>1, <4>2
    <3> QED BY <1>0, <1>1, <1>a, <2>3, <3>1 DEF ReaderIn, Rest
  <2>6. ASSUME wire' # <<>> PROVE Upto + 1 < Len(sent) /\ wire'[1] = <<sent[(Upto + 1) + 1], 0>>
    <3>1. Follows(sent, Upto + 1, Size[c], wire'[1])
      BY <1>1, <1>2, <2>4, <2>6
    <3>2. ~(Size[c] < Size[c])
      BY <1>3
    <3> QED BY <3>1, <3>2, <1>c DEF Follows
  <2>7. ASSUME wire' = <<>>, Upto + 1 < Len(sent) PROVE Edge(sent, (Upto + 1) + 1, 0)
    <3>1. \A j \in (Upto + 1) + 1..Len(sent) : pos[sent[j]] = 0
      BY <1>1, <1>2, <2>7 DEF Edge
    <3>2. (Upto + 1) + 1 \in (Upto + 1) + 1..Len(sent)
          /\ \A j \in ((Upto + 1) + 1) + 1..Len(sent) : j \in (Upto + 1) + 1..Len(sent)
      BY <1>a, <2>7
    <3> QED BY <3>1, <3>2 DEF Edge
  <2> QED BY <1>0, <1>2, <2>3, <2>5, <2>6, <2>7 DEF StreamIn, Edge
<1>8. CASE need # 1
  <2>1. UNCHANGED <<got, Upto>> /\ body' = all /\ Len(body') = Len(body) + 1
    BY <1>5, <1>6, <1>8 DEF Upto
  <2>2. need' > 0 /\ need' + Len(body') = Size[c] /\ Len(body) + 1 < Size[c]
    <3>1. need' = need - 1 /\ need > 1 /\ need + Len(body) = Size[c]
      BY <1>0, <1>4, <1>8, <1>a
    <3> QED BY <1>3, <1>a, <2>1, <3>1
  <2>3. Expected' = (Len(body) + 1) + 1
    BY <1>0, <1>8, <1>a, <2>1, <2>2 DEF Expected
  <2>4. ReaderIn(sent)'
    BY <1>0, <1>3, <1>5, <2>1, <2>2, <1>c DEF ReaderIn, Rest
  <2>5. ASSUME wire' # <<>> PROVE wire'[1] = <<c, (Len(body) + 1) + 1>>
    <3>1. Follows(sent, Upto + 1, Len(body) + 1, wire'[1])
      BY <1>1, <1>2, <2>5
    <3>2. Len(body) + 1 # Size[c]
      BY <1>3, <1>a, <2>2
    <3> QED BY <3>1, <3>2, <1>c DEF Follows
  <2>6. ASSUME wire' = <<>> PROVE Edge(sent, Upto + 1, (Len(body) + 1) + 1)
    BY <1>1, <1>2, <2>6
  <2> QED BY <1>0, <1>2, <1>3, <2>1, <2>3, <2>4, <2>5, <2>6, <1>c DEF StreamIn, Edge
<1> QED BY <1>7, <1>8

-----------------------------------------------------------------------------
\* The inductive invariant.  The order of the writes holds of every stream, what is
\* in the socket and with the reader of one that is not spoilt.
FrInv ==
  /\ FrTypeOK /\ Order(sent) /\ (need = 0 => body = <<>>)
  /\ spoilt = {} => WriterIn(sent) /\ ReaderIn(sent) /\ StreamIn(sent)

\* A step that takes units of message s[x] keeps the stream.
LEMMA TakingKeeps ==
  ASSUME FrTypeOK, NEW s \in Seq(Msg), Order(s)', WriterIn(s), ReaderIn(s), StreamIn(s),
         NEW m \in Msg, NEW ok \in BOOLEAN, Taken(m, ok), spoilt' = {},
         NEW x \in 1..Len(s), s[x] = m, UNCHANGED inVars
  PROVE  WriterIn(s)' /\ ReaderIn(s)' /\ StreamIn(s)'
<1>1. Distinct(s) /\ Begun(s)'
  BY DEF Order, Distinct
<1>2. WriterIn(s)'
  BY <1>1, WriterTakes
<1> QED BY <1>1, <1>2, StreamTakes

\* A step that only reads, or does nothing, keeps the order.
LEMMA IdleOrder ==
  ASSUME Order(sent), UNCHANGED outVars PROVE Order(sent)'
<1>1. UNCHANGED <<sent, pos, queue, posted>>
  BY DEF outVars
<1>2. Distinct(sent)' /\ Known(sent)' /\ Begun(sent)'
  BY <1>1 DEF Order, Distinct, Known, Begun
<1>3. Pending(sent)'
  BY <1>1 DEF Order, Pending, Rest
<1>4. InTurn(sent)'
  BY <1>1 DEF Order, InTurn
<1> QED BY <1>2, <1>3, <1>4 DEF Order

\* A step that writes and reads nothing keeps the stream.
LEMMA IdleKeeps ==
  ASSUME NEW s, WriterIn(s), ReaderIn(s), StreamIn(s), UNCHANGED <<pos, wire, inVars>>
  PROVE  WriterIn(s)' /\ ReaderIn(s)' /\ StreamIn(s)'
<1>1. UNCHANGED <<Upto, Expected, need, body, got, pos, wire>>
  BY DEF inVars, Upto, Expected
<1>2. WriterIn(s)'
  BY <1>1 DEF WriterIn, Rest
<1>3. ReaderIn(s)'
  BY <1>1 DEF ReaderIn, Rest
<1>4. StreamIn(s)'
  <2>1. Units(s)'
    <3> SUFFICES ASSUME NEW k \in 1..Len(wire')
                 PROVE  \E n \in 1..Len(s) : \E i \in 0..Size[s[n]] :
                          /\ wire'[k] = <<s[n], i>> /\ i < pos'[s[n]]
                          /\ k < Len(wire') => Follows(s, n, i, wire'[k + 1])
                          /\ k = Len(wire') => Edge(s, n, i + 1)'
      BY DEF Units, Follows
    <3>1. PICK n \in 1..Len(s) : \E i \in 0..Size[s[n]] :
            /\ wire[k] = <<s[n], i>> /\ i < pos[s[n]]
            /\ k < Len(wire) => Follows(s, n, i, wire[k + 1])
            /\ k = Len(wire) => Edge(s, n, i + 1)
      BY <1>1 DEF StreamIn, Units
    <3>2. \A i : Edge(s, n, i + 1) => Edge(s, n, i + 1)'
      BY <1>1 DEF Edge
    <3> QED BY <1>1, <3>1, <3>2
  <2> QED BY <1>1, <2>1 DEF StreamIn, Edge
<1> QED BY <1>2, <1>3, <1>4

\* The invariant is one: it holds at first, and every step keeps it.
THEOREM FrInvCorrect == FrSpec => []FrInv
<1>1. FrInit => FrInv
  <2> SUFFICES ASSUME FrInit PROVE FrInv
    OBVIOUS
  <2>1. FrTypeOK
    BY SizeAssumption, BoundAssumption, EmptySeq DEF FrInit, FrTypeOK
  <2>2. Len(sent) = 0 /\ Len(queue) = 0 /\ Len(posted) = 0 /\ Len(wire) = 0 /\ Len(got) = 0
    BY EmptySeq DEF FrInit
  <2>3. \A m \in Msg : pos[m] = 0
    BY DEF FrInit
  <2>4. Order(sent)
    BY <2>2, <2>3 DEF Order, Distinct, Known, Pending, InTurn, Begun
  <2>5. WriterIn(sent)
    BY <2>3, <2>2 DEF WriterIn
  <2>6. ReaderIn(sent) /\ StreamIn(sent)
    BY <2>2 DEF FrInit, ReaderIn, StreamIn, Units, Upto
  <2> QED BY <2>1, <2>4, <2>5, <2>6 DEF FrInv, FrInit
<1>2. FrInv /\ FrTypeOK' /\ [FrNext]_frVars => FrInv'
  <2> SUFFICES ASSUME FrInv, FrTypeOK', [FrNext]_frVars PROVE FrInv'
    OBVIOUS
  <2>0. /\ FrTypeOK /\ Order(sent) /\ Distinct(sent) /\ (need = 0 => body = <<>>)
        /\ spoilt = {} => WriterIn(sent) /\ ReaderIn(sent) /\ StreamIn(sent)
        /\ sent \in Seq(Msg) /\ queue \in Seq(Msg) /\ posted \in Seq(Msg)
    BY DEF FrInv, FrTypeOK, Order
  <2>1. ASSUME NEW m \in Msg, SendAsync(m) PROVE FrInv'
    <3>1. Order(sent)'
      BY <2>0, <2>1, OrderSend
    <3>2. UNCHANGED inVars /\ WriteSome(m, posted, TRUE) /\ sent' = Append(sent, m)
      BY <2>1 DEF SendAsync
    <3>3. ASSUME spoilt' = {} PROVE WriterIn(sent)' /\ ReaderIn(sent)' /\ StreamIn(sent)'
      <4>1. PICK s : s = sent'
        OBVIOUS
      <4>2. /\ s \in Seq(Msg) /\ Len(sent) \in Nat /\ Len(s) = Len(sent) + 1 /\ s[Len(sent) + 1] = m
        BY <2>0, <3>2, <4>1, Appended
      <4>3. pos[m] = 0
        <5>1. \A i \in 1..Len(sent) : sent[i] # m
          BY <2>0, <2>1, RangeEquality DEF SendAsync
        <5>2. pos \in [Msg -> Nat] /\ ~(pos[m] > 0)
          BY <2>0, <5>1 DEF FrTypeOK, Order, Known
        <5> QED BY <5>2
      <4>4. spoilt = {}
        <5>1. Taken(m, TRUE) => spoilt \subseteq spoilt'
          BY <2>0, TakenFacts
        <5> QED BY <3>2, <3>3, <5>1 DEF WriteSome
      <4>5. WriterIn(s) /\ ReaderIn(s) /\ StreamIn(s)
        BY <2>0, <3>2, <4>1, <4>3, <4>4, StreamGrows
      <4>6. WriterIn(s)' /\ ReaderIn(s)' /\ StreamIn(s)'
        <5>1. CASE Taken(m, TRUE)
          <6>1. Order(s)'
            BY <3>1, <4>1 DEF Order, Distinct, Known, Pending, InTurn, Begun
          <6>2. Len(sent) + 1 \in 1..Len(s)
            BY <4>2
          <6> QED BY <2>0, <3>2, <3>3, <4>2, <4>5, <5>1, <6>1, <6>2, TakingKeeps
        <5>2. CASE UNCHANGED <<wire, pos>>
          BY <3>2, <4>5, <5>2, IdleKeeps
        <5> QED BY <3>2, <5>1, <5>2 DEF WriteSome
      <4> QED BY <4>1, <4>6
    <3> QED BY <2>0, <3>1, <3>2, <3>3 DEF FrInv, inVars
  <2>2. ASSUME NEW m \in Msg, NEW ok \in BOOLEAN, NEW n \in 1..Len(sent), sent[n] = m,
               Taken(m, ok), UNCHANGED <<sent, inVars>>, Order(sent)'
        PROVE  FrInv'
    <3>1. ASSUME spoilt' = {} PROVE WriterIn(sent)' /\ ReaderIn(sent)' /\ StreamIn(sent)'
      <4>1. PICK s : s = sent
        OBVIOUS
      <4>2. spoilt = {}
        BY <2>0, <2>2, <3>1, TakenFacts
      <4>3. Order(s)' /\ WriterIn(s) /\ ReaderIn(s) /\ StreamIn(s)
        BY <2>0, <2>2, <4>1, <4>2 DEF Order, Distinct, Known, Pending, InTurn, Begun
      <4>4. WriterIn(s)' /\ ReaderIn(s)' /\ StreamIn(s)'
        BY <2>0, <2>2, <3>1, <4>1, <4>3, TakingKeeps
      <4> QED BY <2>2, <4>1, <4>4
    <3> QED BY <2>0, <2>2, <3>1 DEF FrInv, inVars
  <2>3. ASSUME UNCHANGED <<sent, pos, wire, inVars, spoilt>>, Order(sent)' PROVE FrInv'
    <3>1. ASSUME spoilt' = {} PROVE WriterIn(sent)' /\ ReaderIn(sent)' /\ StreamIn(sent)'
      <4>1. PICK s : s = sent
        OBVIOUS
      <4>2. WriterIn(s)' /\ ReaderIn(s)' /\ StreamIn(s)'
        BY <2>0, <2>3, <3>1, <4>1, IdleKeeps
      <4> QED BY <2>3, <4>1, <4>2
    <3> QED BY <2>0, <2>3, <3>1 DEF FrInv, inVars
  <2>4. ASSUME NEW ok \in BOOLEAN, Writable(ok) PROVE FrInv'
    <3>1. Order(sent)'
      BY <2>0, <2>4, OrderWritable
    <3>2. /\ Head(queue) \in Msg /\ Head(queue) = queue[1] /\ 1 \in 1..Len(queue)
          /\ Taken(Head(queue), ok) /\ UNCHANGED <<sent, inVars>>
      BY <2>0, <2>4, Behind DEF Writable
    <3>3. PICK n \in 1..Len(sent) : sent[n] = Head(queue)
      BY <2>0, <3>2 DEF Order, Known
    <3> QED BY <2>2, <3>1, <3>2, <3>3
  <2>5. ASSUME NEW ok \in BOOLEAN, WriteHandler(ok) PROVE FrInv'
    <3>1. Order(sent)'
      BY <2>0, <2>5, OrderHandler
    <3>2. /\ Head(posted) \in Msg /\ Head(posted) = posted[1] /\ 1 \in 1..Len(posted)
          /\ UNCHANGED <<sent, inVars>>
      BY <2>0, <2>5, Behind DEF WriteHandler
    <3>3. CASE Taken(Head(posted), ok)
      <4>1. PICK n \in 1..Len(sent) : sent[n] = Head(posted)
        BY <2>0, <3>2 DEF Order, Known
      <4> QED BY <2>2, <3>1, <3>2, <3>3, <4>1
    <3>4. CASE UNCHANGED <<pos, wire, spoilt>>
      BY <2>3, <3>1, <3>2, <3>4
    <3> QED BY <2>5, <3>3, <3>4 DEF WriteHandler, WriteSome
  <2>6. ASSUME ReadHeader PROVE FrInv'
    <3>1. UNCHANGED <<outVars, body, spoilt>>
      BY <2>6 DEF ReadHeader
    <3>2. Order(sent)'
      BY <2>0, <3>1, IdleOrder
    <3>3. spoilt = {} => WriterIn(sent)' /\ ReaderIn(sent)' /\ StreamIn(sent)'
      <4> SUFFICES ASSUME spoilt = {} PROVE WriterIn(sent)' /\ ReaderIn(sent)' /\ StreamIn(sent)'
        OBVIOUS
      <4>1. WriterIn(sent)'
        BY <2>0, <3>1 DEF outVars, WriterIn, Rest
      <4> QED BY <2>0, <2>6, <4>1, StreamReadHeader
    <3>4. need' = 0 => body' = <<>>
      BY <2>0, <2>6, <3>1 DEF ReadHeader
    <3> QED BY <3>1, <3>2, <3>3, <3>4 DEF FrInv
  <2>7. ASSUME ReadBody PROVE FrInv'
    <3>1. UNCHANGED <<outVars, spoilt>>
      BY <2>7 DEF ReadBody
    <3>2. Order(sent)'
      BY <2>0, <3>1, IdleOrder
    <3>3. spoilt = {} => WriterIn(sent)' /\ ReaderIn(sent)' /\ StreamIn(sent)'
      <4> SUFFICES ASSUME spoilt = {} PROVE WriterIn(sent)' /\ ReaderIn(sent)' /\ StreamIn(sent)'
        OBVIOUS
      <4>1. WriterIn(sent)'
        BY <2>0, <3>1 DEF outVars, WriterIn, Rest
      <4> QED BY <2>0, <2>7, <4>1, StreamReadBody
    <3>4. need' = 0 => body' = <<>>
      <4>1. need \in Nat
        BY <2>0, BoundAssumption DEF FrTypeOK
      <4> QED BY <2>7, <4>1 DEF ReadBody
    <3> QED BY <3>1, <3>2, <3>3, <3>4 DEF FrInv
  <2>8. CASE UNCHANGED frVars
    <3>1. UNCHANGED <<outVars, sent, pos, wire, inVars, spoilt>>
      BY <2>8 DEF frVars, outVars
    <3>2. Order(sent)'
      BY <2>0, <3>1, IdleOrder
    <3> QED BY <2>3, <3>1, <3>2
  <2> QED BY <2>1, <2>4, <2>5, <2>6, <2>7, <2>8 DEF FrNext, Write, Read
<1> QED BY <1>1, <1>2, FrTypeCorrect, PTL DEF FrSpec

\* Uds_Server.cpp:56-100: what on_msg is given is what was sent, in its order, for
\* every assignment of lengths, every chunk and every socket, as long as the stream
\* is not spoilt.
THEOREM InStepHolds == FrSpec => []InStep
<1>1. FrInv => InStep
  <2> SUFFICES ASSUME FrInv, spoilt = {} PROVE IsPrefix(got, sent)
    BY DEF InStep, AsSent
  <2>1. sent \in Seq(Msg) /\ got \in Seq(Msg \cup {Dead}) /\ ReaderIn(sent)
    BY DEF FrInv, FrTypeOK
  <2>2. /\ Len(got) \in Nat /\ Len(sent) \in Nat /\ Len(got) <= Len(sent)
        /\ \A i \in 1..Len(got) : got[i] = sent[i]
    BY <2>1, LenProperties DEF ReaderIn, Upto
  <2>3. \A i \in 1..Len(got) : got[i] \in Msg \cup {Dead} /\ sent[i] \in Msg \cup {Dead}
    BY <2>1, <2>2, LenProperties
  <2>4. /\ SubSeq(got, 1, Len(got)) \in Seq(Msg \cup {Dead}) /\ SubSeq(sent, 1, Len(got)) \in Seq(Msg \cup {Dead})
        /\ Len(SubSeq(got, 1, Len(got))) = Len(SubSeq(sent, 1, Len(got)))
        /\ Len(SubSeq(got, 1, Len(got))) = Len(got)
    BY <2>2, <2>3, SubSeqProperties
  <2>5. \A i \in 1..Len(got) : SubSeq(got, 1, Len(got))[i] = got[i] /\ SubSeq(sent, 1, Len(got))[i] = sent[i]
    BY <2>2, <2>3, SubSeqProperties
  <2>6. SubSeq(got, 1, Len(got)) = SubSeq(sent, 1, Len(got))
    BY <2>2, <2>4, <2>5, SeqEqual
  <2> QED BY <2>2, <2>6 DEF IsPrefix
<1> QED BY <1>1, FrInvCorrect, PTL

\* Uds_Server.cpp:42 and :68: no part of a write and no part of a body is given up,
\* so that a stream at rest has delivered everything.
THEOREM NothingLostHolds == FrSpec => []NothingLost
<1>1. FrInv => NothingLost
  <2> SUFFICES ASSUME FrInv, spoilt = {}, queue = <<>>, posted = <<>>, wire = <<>>
               PROVE  need = 0 /\ got = sent
    BY DEF NothingLost
  <2>1. /\ sent \in Seq(Msg) /\ got \in Seq(Msg \cup {Dead}) /\ FrTypeOK
        /\ Order(sent) /\ ReaderIn(sent) /\ StreamIn(sent)
    BY DEF FrInv, FrTypeOK
  <2>2. /\ Upto \in Nat /\ Len(sent) \in Nat /\ Upto <= Len(sent) /\ need \in Nat /\ Len(body) \in Nat
        /\ \A i \in 1..Len(sent) : sent[i] \in Msg
    BY <2>1, LenProperties, BoundAssumption DEF FrTypeOK, ReaderIn, Upto
  <2>3. ~(Upto < Len(sent))
    <3> SUFFICES ASSUME Upto < Len(sent) PROVE FALSE
      OBVIOUS
    <3>1. Upto + 1 \in 1..Len(sent) /\ pos[sent[Upto + 1]] = Expected
      BY <2>1, <2>2 DEF StreamIn, Edge
    <3>2. PICK c \in Msg : c = sent[Upto + 1]
      BY <2>2, <3>1
    <3>3. Size[c] \in Nat /\ pos[c] \in Nat /\ pos[c] <= Size[c] + 1
      BY <2>1, SizeAssumption DEF FrTypeOK
    <3>4. ~(Rest(c) > 0)
      <4>1. Len(queue) = 0 /\ Len(posted) = 0
        BY EmptySeq
      <4> QED BY <2>1, <3>1, <3>2, <4>1 DEF Order, Pending
    <3>5. Expected = Size[c] + 1
      BY <3>1, <3>2, <3>3, <3>4 DEF Rest
    <3> QED BY <2>1, <2>2, <3>2, <3>3, <3>5 DEF Expected, ReaderIn
  <2>4. need = 0
    BY <2>1, <2>2, <2>3 DEF ReaderIn
  <2>5. Len(got) = Len(sent) /\ \A i \in 1..Len(got) : got[i] = sent[i]
    BY <2>1, <2>2, <2>3 DEF ReaderIn, Upto
  <2>6. sent \in Seq(Msg \cup {Dead})
    BY <2>1, SeqMonotonic
  <2> QED BY <2>1, <2>4, <2>5, <2>6, SeqEqual
<1> QED BY <1>1, FrInvCorrect, PTL

\* Uds_Server.cpp:42-100 and Uds_Client.cpp:65-130: each end, the socket and asio's
\* chunks together are the channel of whole messages that send_async and on_msg
\* offer: every step is a step of the channel or leaves it alone.
THEOREM ImplementsChannelHolds == FrSpec => ImplementsChannel
<1>1. FrInit => Channel!ChInit
  BY DEF FrInit, Channel!ChInit
<1>2. FrInv /\ FrInv' /\ [FrNext]_frVars => [Channel!ChNext]_(Channel!chVars)
  <2> SUFFICES ASSUME FrInv, FrInv', [FrNext]_frVars PROVE Channel!ChNext \/ UNCHANGED Channel!chVars
    OBVIOUS
  <2>0. FrTypeOK /\ sent \in Seq(Msg) /\ queue \in Seq(Msg) /\ posted \in Seq(Msg)
    BY DEF FrInv, FrTypeOK
  <2>1. ASSUME NEW m \in Msg, SendAsync(m) PROVE Channel!ChNext
    <3>1. UNCHANGED got /\ sent' = Append(sent, m) /\ WriteSome(m, posted, TRUE)
      BY <2>1 DEF SendAsync, inVars
    <3>2. spoilt # {} => spoilt' # {}
      BY <2>0, <3>1, TakenFacts DEF WriteSome
    <3>3. Channel!Send(m)
      BY <3>1, <3>2 DEF Channel!Send
    <3> QED BY <3>3 DEF Channel!ChNext
  <2>2. ASSUME NEW m \in Msg, NEW ok \in BOOLEAN, Taken(m, ok), UNCHANGED <<sent, got>>
        PROVE  Channel!ChNext \/ UNCHANGED Channel!chVars
    <3>1. spoilt \subseteq spoilt'
      BY <2>0, <2>2, TakenFacts
    <3>2. CASE spoilt' = {}
      BY <2>2, <3>1, <3>2 DEF Channel!chVars
    <3>3. CASE spoilt' # {}
      <4>1. Channel!Break
        BY <2>2, <3>3 DEF Channel!Break
      <4> QED BY <4>1 DEF Channel!ChNext
    <3> QED BY <3>2, <3>3
  <2>3. ASSUME NEW ok \in BOOLEAN, Writable(ok) PROVE Channel!ChNext \/ UNCHANGED Channel!chVars
    <3>1. Head(queue) \in Msg /\ Taken(Head(queue), ok) /\ UNCHANGED <<sent, got>>
      BY <2>0, <2>3, HeadTailProperties DEF Writable, inVars
    <3> QED BY <2>2, <3>1
  <2>4. ASSUME NEW ok \in BOOLEAN, WriteHandler(ok) PROVE Channel!ChNext \/ UNCHANGED Channel!chVars
    <3>1. Head(posted) \in Msg /\ UNCHANGED <<sent, got>>
      BY <2>0, <2>4, HeadTailProperties DEF WriteHandler, inVars
    <3>2. CASE Taken(Head(posted), ok)
      BY <2>2, <3>1, <3>2
    <3>3. CASE UNCHANGED spoilt
      BY <3>1, <3>3 DEF Channel!chVars
    <3> QED BY <2>4, <3>2, <3>3 DEF WriteHandler, WriteSome
  <2>5. CASE ReadHeader
    BY <2>5 DEF ReadHeader, outVars, Channel!chVars
  <2>6. ASSUME ReadBody PROVE Channel!ChNext \/ UNCHANGED Channel!chVars
    <3>1. UNCHANGED <<sent, spoilt>>
      BY <2>6 DEF ReadBody, outVars
    <3>2. CASE need # 1
      BY <2>6, <3>1, <3>2 DEF ReadBody, Channel!chVars
    <3>3. ASSUME need = 1 PROVE Channel!ChNext
      <4>1. PICK e : e = Meaning(Append(body, Head(wire)))
        OBVIOUS
      <4>2. e \in Msg \cup {Dead} /\ got' = Append(got, e)
        BY <2>6, <3>3, <4>1 DEF ReadBody, Meaning
      <4>3. CASE spoilt # {}
        <5>1. Channel!DeliverAnything
          BY <3>1, <4>2, <4>3 DEF Channel!DeliverAnything
        <5> QED BY <5>1 DEF Channel!ChNext
      <4>4. CASE spoilt = {}
        <5>1. got \in Seq(Msg \cup {Dead})
          BY <2>0 DEF FrTypeOK
        <5>2. Len(got) \in Nat /\ Len(got') = Len(got) + 1 /\ got'[Len(got) + 1] = e
          BY <4>2, <5>1, Appended
        <5>3. Len(got') <= Len(sent) /\ \A i \in 1..Len(got') : got'[i] = sent[i]
          BY <3>1, <4>4 DEF FrInv, ReaderIn, Upto
        <5>4. Len(sent) \in Nat
          BY <2>0, LenProperties
        <5>5. Len(got) < Len(sent) /\ e = sent[Len(got) + 1]
          BY <5>2, <5>3, <5>4
        <5>6. Channel!Deliver
          BY <3>1, <4>2, <4>4, <5>5 DEF Channel!Deliver
        <5> QED BY <5>6 DEF Channel!ChNext
      <4> QED BY <4>3, <4>4
    <3> QED BY <3>2, <3>3
  <2>7. CASE UNCHANGED frVars
    BY <2>7 DEF frVars, outVars, inVars, Channel!chVars
  <2> QED BY <2>1, <2>3, <2>4, <2>5, <2>6, <2>7 DEF FrNext, Write, Read
<1> QED BY <1>1, <1>2, FrInvCorrect, PTL DEF FrSpec, ImplementsChannel, Channel!ChSpec
=====================================================================================
