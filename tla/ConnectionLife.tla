---------------------------- MODULE ConnectionLife ----------------------------
(***************************************************************************)
(* What ClientManager promises a program about its connection to the       *)
(* router: it is sought after Start and again after every loss, it is      *)
(* given up with one verdict, which tells whether there has been a         *)
(* connection since Start, and one that works is lost before it is sought  *)
(* again: it is never given up.                                            *)
(***************************************************************************)

VARIABLES
  state,  \* Idle, Starting, Working, Reconnecting or Dead
  told    \* the verdict reported since Start, or none

lifeVars == <<state, told>>

LifeInit == state = "Idle" /\ told = "none"

Begin ==
  /\ state = "Idle"
  /\ state' = "Starting" /\ told' = "none"

Establish ==
  /\ state \in {"Starting", "Reconnecting"}
  /\ state' = "Working"
  /\ UNCHANGED told

Lose ==
  /\ state = "Working"
  /\ state' = "Reconnecting"
  /\ UNCHANGED told

\* Why a connection that is being sought may be given up.
Verdict ==
  {"CertificationError", "NoSuchFileOrDirectory"}
    \cup (IF state = "Starting" THEN {"ConnectionTimeOut"} ELSE {"ReconnectFail"})

\* The program may leave in the callback that reports the verdict.
GiveUp ==
  /\ state \in {"Starting", "Reconnecting"} /\ told = "none"
  /\ told' \in Verdict
  /\ state' \in {"Dead", "Idle"}

Leave ==
  /\ state # "Idle"
  /\ state' = "Idle"
  /\ UNCHANGED told

LifeNext == Begin \/ Establish \/ Lose \/ GiveUp \/ Leave

LifeSpec == LifeInit /\ [][LifeNext]_lifeVars
=============================================================================
