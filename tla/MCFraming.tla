------------------------------- MODULE MCFraming -------------------------------
(* A message that fits a chunk, one that does not, one that is too long. *)
EXTENDS Framing

CONSTANTS short, long, huge

MCMsg == {short, long, huge}
MCSize == [m \in MCMsg |-> IF m = short THEN 1 ELSE IF m = long THEN 2 ELSE 3]
=============================================================================
