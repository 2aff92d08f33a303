----------------------------- MODULE MessageChannel -----------------------------
(***************************************************************************)
(* What suUDS promises of one direction of a connection: messages are      *)
(* given to on_msg one by one in the order in which they were sent, until  *)
(* the stream breaks; then anything may be given.                          *)
(***************************************************************************)
EXTENDS Naturals, Sequences

CONSTANTS
  Msg,   \* the messages
  Junk   \* what on_msg is given and nobody has sent

VARIABLES
  sent,   \* the messages, in the order of the calls of send_async
  got,    \* the messages given to on_msg
  broken  \* the receiver is no longer at a message

chVars == <<sent, got, broken>>

ChInit == sent = <<>> /\ got = <<>> /\ broken = FALSE

\* Sending may break the stream, and nothing mends it.
Send(m) ==
  /\ sent' = Append(sent, m)
  /\ broken' \in {broken, TRUE}
  /\ UNCHANGED got

Break == broken' = TRUE /\ UNCHANGED <<sent, got>>

Deliver ==
  /\ ~broken /\ Len(got) < Len(sent)
  /\ got' = Append(got, sent[Len(got) + 1])
  /\ UNCHANGED <<sent, broken>>

DeliverAnything ==
  /\ broken
  /\ \E m \in Msg \cup {Junk} : got' = Append(got, m)
  /\ UNCHANGED <<sent, broken>>

ChNext == (\E m \in Msg : Send(m)) \/ Break \/ Deliver \/ DeliverAnything

ChSpec == ChInit /\ [][ChNext]_chVars
=============================================================================
