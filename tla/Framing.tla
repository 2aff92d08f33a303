-------------------------------- MODULE Framing --------------------------------
(***************************************************************************)
(* src/core/suUDS/basic: one direction of one open connection, from        *)
(* send_async over the socket to on_msg of the other end, in the order in  *)
(* which boost::asio works through overlapping writes.                     *)
(*                                                                         *)
(* A message is a header and its body.  What travels are units: <<m, 0>>   *)
(* is the header of message m and <<m, i>> its i-th part; the four bytes   *)
(* of a header stay together, so that it is one unit.  A unit that is no   *)
(* header, read as one, gives any length at all.                           *)
(*                                                                         *)
(* The two ends send differently.  A session of the server keeps length    *)
(* and data in msg_ptr until the write has ended; a client gives           *)
(* async_write its local variable and a vector of its caller, and what is  *)
(* written later than send_async is read from memory of somebody else.     *)
(***************************************************************************)
EXTENDS Naturals, SequencesExt

CONSTANTS
  Msg,     \* the messages; each is sent once
  Size,    \* Size[m]: the length of m's body, in units
  Limit,   \* 1 MiB in units: a body must be shorter
  Chunk,   \* what async_write hands to the socket at once, 64 KiB
  Cap      \* what the socket holds between the two programs

ASSUME SizeAssumption == Size \in [Msg -> Nat \ {0}]  \* an envelope is never empty
ASSUME BoundAssumption == {Limit, Chunk, Cap} \subseteq Nat \ {0}

Dead == <<"dead">>   \* a unit from memory that is not the message's any more

VARIABLES
  side,    \* who sends: a session of the server, or a client
  sent,    \* history: the messages, in the order of the calls of send_async
  pos,     \* pos[m]: the units of m that the socket has taken
  queue,   \* the messages whose write waits for the socket, in order
  eager,   \* the socket took all of the last write: the next one tries at once
  posted,  \* those with a write that ended, whose handler is queued
  wire,    \* the units in the socket
  need,    \* the units of the body still to be read; 0: a header is read
  body,    \* the units of the body that have been read
  got,     \* history: the messages given to on_msg; Dead: a body nobody has sent
  spoilt   \* history: what has happened that the framing does not survive

outVars == <<sent, pos, queue, eager, posted>>
inVars == <<need, body, got>>
frVars == <<side, outVars, wire, inVars, spoilt>>

-----------------------------------------------------------------------------
Legal(n) == 0 < n /\ n < Limit
Whole(m) == [i \in 1..Size[m] |-> <<m, i>>]

FrInit ==
  /\ side \in {"session", "client"}
  /\ sent = <<>> /\ queue = <<>> /\ posted = <<>> /\ wire = <<>>
  /\ pos = [m \in Msg |-> 0]
  /\ eager = TRUE
  /\ need = 0 /\ body = <<>> /\ got = <<>>
  /\ spoilt = {}

-----------------------------------------------------------------------------
(* boost::asio::async_write: a chunk at a time, one chunk per message in    *)
(* the queue of the descriptor.                                             *)

Rest(m) == Size[m] + 1 - pos[m]
Midway(m) == 0 < pos[m] /\ Rest(m) > 0
Room(m) == Min({Chunk, Rest(m), Cap - Len(wire)})

\* What the framing does not survive when units of m are taken.
Spoils(m, ok) ==
  (IF \E k \in Msg \ {m} : Midway(k) THEN {"mixed"} ELSE {})
    \cup (IF ok THEN {} ELSE {"dead"})
    \cup (IF Legal(Size[m]) THEN {} ELSE {"length"})

\* A variant of Taken: the next chunk begins where the last one began.
TakenAgain(m, ok) ==
  /\ Room(m) > 0
  /\ wire' = wire \o [i \in 1..Room(m) |-> IF ok THEN <<m, i - 1>> ELSE Dead]
  /\ pos' = [pos EXCEPT ![m] = @ + Room(m)]
  /\ eager' = (Room(m) = Min({Chunk, Rest(m)}))
  /\ spoilt' = spoilt \cup Spoils(m, ok)

\* The socket takes what it has room for, ok saying whether that is the message.
Taken(m, ok) ==
  /\ Room(m) > 0
  /\ wire' = wire \o [i \in 1..Room(m) |-> IF ok THEN <<m, pos[m] + i - 1>> ELSE Dead]
  /\ pos' = [pos EXCEPT ![m] = @ + Room(m)]
  /\ eager' = (Room(m) = Min({Chunk, Rest(m)}))
  /\ spoilt' = spoilt \cup Spoils(m, ok)

\* async_write_some for m, done being the handlers queued before: it tries at
\* once if the socket took all of the last write and no other write waits.
WriteSome(m, done, ok) ==
  IF queue = <<>> /\ eager /\ Room(m) > 0
  THEN Taken(m, ok) /\ posted' = Append(done, m) /\ UNCHANGED queue
  ELSE queue' = Append(queue, m) /\ posted' = done /\ UNCHANGED <<wire, pos, eager, spoilt>>

\* Whether memory that send_async referred to is still what it was.
Kept(ok) == side = "session" => ok

SendAsync(m) ==
  /\ m \notin Range(sent)
  /\ sent' = Append(sent, m)
  /\ WriteSome(m, posted, TRUE)
  /\ UNCHANGED <<side, inVars>>

\* The reactor finds the socket writable and performs the first write.
Writable(ok) ==
  /\ queue # <<>> /\ Kept(ok)
  /\ Taken(Head(queue), ok)
  /\ posted' = Append(posted, Head(queue))
  /\ queue' = Tail(queue)
  /\ UNCHANGED <<side, sent, inVars>>

\* A variant of WriteHandler that takes any write for a whole one.
WriteHandlerOnce(ok) ==
  /\ posted # <<>> /\ ok
  /\ posted' = Tail(posted)
  /\ UNCHANGED <<side, sent, inVars, pos, queue, eager, wire, spoilt>>

\* The handler of a write that took a part goes on with the rest, behind the
\* writes that wait meanwhile.
WriteHandler(ok) ==
  /\ posted # <<>>
  /\ IF Rest(Head(posted)) = 0
     THEN ok /\ posted' = Tail(posted) /\ UNCHANGED <<pos, queue, eager, wire, spoilt>>
     ELSE Kept(ok) /\ WriteSome(Head(posted), Tail(posted), ok)
  /\ UNCHANGED <<side, sent, inVars>>

-----------------------------------------------------------------------------
(* The reading loop, the same in Uds_Session and Uds_Client.               *)

\* A length the unit may give, if it is taken for a header.
LengthOf(u) == IF u # Dead /\ u[2] = 0 THEN {Size[u[1]]} ELSE 0..Limit

\* A variant of ReadHeader whose limit is one too low.
ReadHeaderStrict ==
  /\ need = 0 /\ wire # <<>>
  /\ \E n \in LengthOf(Head(wire)) : need' = IF Legal(n + 1) THEN n ELSE 0
  /\ wire' = Tail(wire)
  /\ UNCHANGED <<side, outVars, body, got, spoilt>>

\* A length that is not legal is passed over, and another header awaited.
ReadHeader ==
  /\ need = 0 /\ wire # <<>>
  /\ \E n \in LengthOf(Head(wire)) : need' = IF Legal(n) THEN n ELSE 0
  /\ wire' = Tail(wire)
  /\ UNCHANGED <<side, outVars, body, got, spoilt>>

\* The message whose body b is.
Meaning(b) == IF \E m \in Msg : b = Whole(m) THEN CHOOSE m \in Msg : b = Whole(m) ELSE Dead

\* The last unit of a body gives it to on_msg.
ReadBody ==
  /\ need > 0 /\ wire # <<>>
  /\ need' = need - 1
  /\ LET all == Append(body, Head(wire))
     IN IF need = 1 THEN body' = <<>> /\ got' = Append(got, Meaning(all))
                    ELSE body' = all /\ UNCHANGED got
  /\ wire' = Tail(wire)
  /\ UNCHANGED <<side, outVars, spoilt>>

Read == ReadHeader \/ ReadBody
Write == \E ok \in BOOLEAN : Writable(ok) \/ WriteHandler(ok)

FrNext == (\E m \in Msg : SendAsync(m)) \/ Write \/ Read

FrSpec == FrInit /\ [][FrNext]_frVars

\* Both programs run their loops, and the kernel reports a writable socket.
FrFairness ==
  /\ WF_frVars(Read)
  /\ WF_frVars(\E ok \in BOOLEAN : Writable(ok))
  /\ WF_frVars(\E ok \in BOOLEAN : WriteHandler(ok))

FrFairSpec == FrSpec /\ FrFairness

-----------------------------------------------------------------------------
\* What the socket carries: units of messages, and what is none.
Unit == {Dead} \cup {u \in Msg \X Nat : u[2] <= Size[u[1]]}

\* The variables of both ends and of the socket have their types.
FrTypeOK ==
  /\ side \in {"session", "client"}
  /\ sent \in Seq(Msg) /\ queue \in Seq(Msg) /\ posted \in Seq(Msg)
  /\ pos \in [Msg -> Nat] /\ \A m \in Msg : pos[m] <= Size[m] + 1
  /\ eager \in BOOLEAN
  /\ wire \in Seq(Unit) /\ Len(wire) <= Cap
  /\ need \in 0..Limit - 1
  /\ body \in Seq(Unit)
  /\ got \in Seq(Msg \cup {Dead})
  /\ spoilt \subseteq {"mixed", "dead", "length"}

\* What is given to on_msg is what was sent, in its order.
AsSent == IsPrefix(got, sent)

\* Uds_Server.cpp:56-100: however the socket cuts the stream, the reading loop
\* finds the messages again, provided that every length was legal, no message was
\* written into the middle of another, and no memory was read after its time.
InStep == spoilt = {} => AsSent

\* Uds_Server.cpp:42-100 and Uds_Client.cpp:65-130: what asio, the socket and the
\* reading loops do to units is a channel of messages, which breaks only when a
\* length is not legal, a write begins within another, or memory is read too late.
Channel == INSTANCE MessageChannel WITH Junk <- Dead, broken <- spoilt # {}
ImplementsChannel == Channel!ChSpec

\* Uds_Server.cpp:42 and :68: when nothing is left to be written or read of a
\* stream that is not spoilt, everything that was sent has been given to on_msg:
\* no write that took a part, and no body read in parts, is given up.
NothingLost ==
  spoilt = {} /\ queue = <<>> /\ posted = <<>> /\ wire = <<>> => need = 0 /\ got = sent

\* Uds_Server.cpp:42 and Uds_Client.cpp:76: a message that is sent arrives,
\* unless the stream is spoilt before.
AllArrive ==
  \A m \in Msg : m \in Range(sent) ~> (m \in Range(got) \/ spoilt # {})

\* Uds_Client.cpp:65 says that the client sends by the same protocol, of a
\* length and the data.
ClientFollowsProtocol ==
  side = "client" /\ (\A i \in DOMAIN sent : Legal(Size[sent[i]])) /\ "mixed" \notin spoilt => AsSent
=============================================================================
