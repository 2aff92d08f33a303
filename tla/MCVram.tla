-------------------------------- MODULE MCVram --------------------------------
(* Two actors who meet on two buffers; a plan is empty or has two steps.      *)
EXTENDS Vram, TLC

CONSTANTS t1, t2

MCPlan == {<<>>, <<t1, t2>>}
VramSymmetry == Permutations(Actor) \cup Permutations(Buffer) \cup Permutations(Usr)
                  \cup Permutations(Id)
=============================================================================
