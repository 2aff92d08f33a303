------------------------------ MODULE MCSuRuntime ------------------------------
(* One task of any kind, with counts below, at and above one and for ever, and *)
(* a second one that keeps loop and pool busy meanwhile.                        *)
EXTENDS SuRuntime, TLC

CONSTANTS t1, t2

MCCounts == {-1, 0, 2}

\* The second task is a closure, or repeats its heavy body for ever.
SecondCall ==
  /\ cfg'[t2].kind \in {"none", "post", "rate"}
  /\ cfg'[t2].kind = "rate" => cfg'[t2].count = -1 /\ cfg'[t2].heavy

MCSpec == Init /\ [][Next /\ SecondCall]_vars /\ Fairness
=============================================================================
