------------------------------ MODULE BufferTurns ------------------------------
(***************************************************************************)
(* What the workflow of src/core/Graphics/Vram promises to those who share *)
(* a buffer: the steps that have been planned for it are taken in turn,    *)
(* by one holder at a time, and a plan is only replaced or given up        *)
(* between two steps.                                                      *)
(***************************************************************************)
EXTENDS Sequences

CONSTANTS
  Buffer, Actor,
  Plan,     \* the sequences of steps a buffer may be planned for
  Nobody

VARIABLES
  todo,    \* todo[b]: the steps of b that are left
  holder   \* holder[b]: who is in the first of them, or Nobody

turnVars == <<todo, holder>>

TurnInit ==
  /\ todo = [b \in Buffer |-> <<>>]
  /\ holder = [b \in Buffer |-> Nobody]

Free(b) == holder[b] = Nobody

Planned(b) ==
  /\ Free(b) /\ todo[b] = <<>>
  /\ \E p \in Plan : todo' = [todo EXCEPT ![b] = p]
  /\ UNCHANGED holder

Taken(b) ==
  /\ Free(b) /\ todo[b] # <<>>
  /\ \E a \in Actor : holder' = [holder EXCEPT ![b] = a]
  /\ UNCHANGED todo

Returned(b) ==
  /\ ~Free(b)
  /\ holder' = [holder EXCEPT ![b] = Nobody]
  /\ todo' = [todo EXCEPT ![b] = Tail(@)]

GivenUp(b) ==
  /\ Free(b)
  /\ todo' = [todo EXCEPT ![b] = <<>>]
  /\ UNCHANGED holder

TurnNext == \E b \in Buffer : Planned(b) \/ Taken(b) \/ Returned(b) \/ GivenUp(b)

TurnSpec == TurnInit /\ [][TurnNext]_turnVars
=============================================================================
