-------------------------------- MODULE MCRouter --------------------------------
(* Main and an app meet the router in its first life; a usr that connects twice *)
(* meets it in two later ones.                                                   *)
EXTENDS Router, TLC

CONSTANTS main, usr, app, m1, u1, u2, a1

VARIABLE cast   \* the connections that take part

mcVars == <<rVars, cast>>

\* A usr that everybody may reach, and Main.
PublicUsr == [k \in Cid \ Apps |-> IF k = usr THEN "all_accessible" ELSE "core_only"]

\* Who is behind the connections: u2 is a second connection of the usr.
WhoIs == [c \in Conn |-> CASE c = m1 -> main [] c \in {u1, u2} -> usr [] c = a1 -> app]

MCInit ==
  \/ RInit /\ cast = {m1, a1}
  \/ LaterInit /\ cast = {u1, u2}

MCNext ==
  /\ RNext
  /\ UNCHANGED cast
  /\ cast = {m1, a1} => starts' <= 1
  /\ \A c \in Conn \ cast : sock'[c] = sock[c]

MCSpec == MCInit /\ [][MCNext]_mcVars /\ RFairness

\* Main and a usr in the first life, with a restart.
FirstSpec == RInit /\ cast = {m1, u1} /\ [][MCNext]_mcVars
=============================================================================
