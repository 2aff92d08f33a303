------------------------------- MODULE MCRgaJobs -------------------------------
(* Either two threads and two jobs meet on one buffer, or one thread and one   *)
(* job use two, with calls that name several.  An id may be dead, may read as  *)
(* negative, or may be the default that is not stored.  The two jobs are sent   *)
(* with a callback, the one without, and the one thread keeps the user it has. *)
EXTENDS RgaJobs, TLC

CONSTANTS a1, a2, j1, j2, b1, b2, i1, i2, i3, c1, c2, c3, r1

VARIABLE cast

mcVars == <<rgaVars, cast>>

R(op, args) == [op |-> op, args |-> args]
MeetCalls == {R("Copy", <<i1, i2, c1, c2>>)}
RoleCalls ==
  {R("Fill", <<i3, c1, 0>>), R("Osd", <<i1, i3, c2, 0>>),
   R("Composite", <<0, i1, i3, c1, c2, c3, 0>>), R("ColorKey", <<i1, i3, c1, c2, 0, 0>>),
   R("Crop", <<i1, i3, c1, c2>>), R("MosaicArray", <<i3, c1, r1, 0>>)}
MCShape == c1 :> "wide" @@ c2 :> "tall" @@ c3 :> "square"
MCOffset == c1 :> <<1, 0>> @@ c2 :> <<0, 1>> @@ c3 :> <<1, 1>>
MCRequest == MeetCalls \cup RoleCalls

Meet  == [threads |-> {a1, a2}, jobs |-> {j1, j2}, buffers |-> {b1}, ids |-> {i1, i2}, calls |-> MeetCalls]
Roles == [threads |-> {a1}, jobs |-> {j1}, buffers |-> {b1, b2}, ids |-> {i1, i3}, calls |-> RoleCalls]

MCInit == RgaInit /\ cast \in {Meet, Roles}

MCNext ==
  /\ RgaNext
  /\ UNCHANGED cast
  /\ \A a \in Thread \ cast.threads : refs'[a] = {} /\ usrOf'[a] = NoUsr
  /\ \A b \in Buffer \ cast.buffers : life'[b] = "none"
  /\ \A j \in Job : stage[j] = "ended" /\ stage'[j] = "sent" => (j \in pending' <=> cast = Meet)
  /\ cast = Roles /\ current # NoUsr => usrOf' = usrOf /\ current' = current
  /\ \A i \in Id \ cast.ids : registry'[i] = NoBuffer
  /\ \A j \in Job : asked'[j] \in IF j \in cast.jobs THEN cast.calls \cup {NoCall} ELSE {NoCall}

MCSpec == MCInit /\ [][MCNext]_mcVars /\ RgaFairness
=============================================================================
