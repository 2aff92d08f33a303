-------------------------------- MODULE Registry --------------------------------
(***************************************************************************)
(* src/core/Main/Database: the registry of usrs, parts and apps that       *)
(* RegistryManager loads from a file.                                      *)
(*                                                                         *)
(* loadAll goes through the file section by section and row by row, and a  *)
(* row that yaml-cpp cannot convert throws out of the middle of it.  The   *)
(* registry has no lock: it is used by one thread at a time, so that       *)
(* nothing else happens during a load.                                     *)
(*                                                                         *)
(* status, group and father_name are left out: nobody reads them.          *)
(***************************************************************************)
EXTENDS Naturals, Sequences

CONSTANTS
  Row,    \* the rows of the tables: records with id, name, path, uid and acl
  Bad,    \* a row of a file that cannot be converted
  Doc,    \* files: functions from the sections they have to sequences of rows
  NewApp, \* the rows that addApp is called with
  Uid,    \* the values of a linux_id: a number, or "any" for -1
  Unset   \* the uid of a row whose linux_id is not a list of three

\* Row r with u for its linux_id.
WithUid(r, u) == [id |-> r.id, name |-> r.name, path |-> r.path, uid |-> u, acl |-> r.acl]

Section == <<"usrs", "part", "apps">>
Table == {Section[n] : n \in 1..3}

ASSUME RowAssumption ==
  /\ Bad \notin Row /\ NewApp \subseteq Row
  /\ \A r \in Row : r.uid = Unset => \A u \in Uid : WithUid(r, u) \in Row
ASSUME DocAssumption ==
  \A d \in Doc : DOMAIN d \subseteq Table /\ \A s \in DOMAIN d : d[s] \in Seq(Row \cup {Bad})

VARIABLES
  reg,     \* reg[s]: the rows of usrReg, partReg and appReg
  load,    \* where loadAll is: <<file, section, row>>, or <<>>
  loaded,  \* history: the file of the last load, if it returned true; or <<>>
  source,  \* history: source[s]: the file that s was last loaded from, or <<>>
  added    \* history: the rows of addApp since then

regVars == <<reg, load, loaded, source, added>>

RegInit ==
  /\ reg = [s \in Table |-> {}]
  /\ load = <<>> /\ loaded = <<>>
  /\ source = [s \in Table |-> <<>>]
  /\ added = {}

-----------------------------------------------------------------------------
SameKey(r, q) == r.id = q.id \/ r.name = q.name

\* insert: a row whose id or name is there already is not taken.
Inserted(rows, r) == IF \E q \in rows : SameKey(q, r) THEN rows ELSE rows \cup {r}

\* linux_id has no initializer: without three numbers it is whatever was there.
Values(r) == IF r.uid = Unset THEN {WithUid(r, u) : u \in Uid} ELSE {r}

Idle == load = <<>>
File == load[1]
Name == Section[load[2]]
Line == load[3]

-----------------------------------------------------------------------------
(* loadAll.                                                                *)

\* A file that cannot be read or parsed changes nothing.
LoadBegins(d) ==
  /\ Idle
  /\ load' \in {<<>>, <<d, 1, 0>>}
  /\ loaded' = <<>>
  /\ UNCHANGED <<reg, source, added>>

\* A section that the file does not have is passed over.
SectionMissing ==
  /\ ~Idle /\ load[2] <= 3 /\ Line = 0 /\ Name \notin DOMAIN File
  /\ load' = <<File, load[2] + 1, 0>>
  /\ UNCHANGED <<reg, loaded, source, added>>

\* A variant of SectionBegins without the clear.
SectionBeginsFull ==
  /\ ~Idle /\ load[2] <= 3 /\ Line = 0 /\ Name \in DOMAIN File
  /\ source' = [source EXCEPT ![Name] = File]
  /\ added' = IF Name = "apps" THEN {} ELSE added
  /\ load' = <<File, load[2], 1>>
  /\ UNCHANGED <<reg, loaded>>

SectionBegins ==
  /\ ~Idle /\ load[2] <= 3 /\ Line = 0 /\ Name \in DOMAIN File
  /\ reg' = [reg EXCEPT ![Name] = {}]
  /\ source' = [source EXCEPT ![Name] = File]
  /\ added' = IF Name = "apps" THEN {} ELSE added
  /\ load' = <<File, load[2], 1>>
  /\ UNCHANGED loaded

\* The row being read, if the section is not at its end.
Current == File[Name][Line]
InSection == ~Idle /\ load[2] <= 3 /\ Line > 0
MoreRows == InSection /\ Line <= Len(File[Name])

RowInserted ==
  /\ MoreRows /\ Current # Bad
  /\ \E r \in Values(Current) : reg' = [reg EXCEPT ![Name] = Inserted(@, r)]
  /\ load' = <<File, load[2], Line + 1>>
  /\ UNCHANGED <<loaded, source, added>>

\* A variant of RowThrows: the exception is caught inside the loop.
RowSkipped ==
  /\ MoreRows /\ Current = Bad
  /\ load' = <<File, load[2], Line + 1>>
  /\ UNCHANGED <<reg, loaded, source, added>>

\* loadAll returns false; what has been loaded stays.
RowThrows ==
  /\ MoreRows /\ Current = Bad
  /\ load' = <<>>
  /\ UNCHANGED <<reg, loaded, source, added>>

SectionEnds ==
  /\ InSection /\ Line > Len(File[Name])
  /\ load' = <<File, load[2] + 1, 0>>
  /\ UNCHANGED <<reg, loaded, source, added>>

\* loadAll returns true.
LoadEnds ==
  /\ ~Idle /\ load[2] = 4
  /\ load' = <<>>
  /\ loaded' = File
  /\ UNCHANGED <<reg, source, added>>

-----------------------------------------------------------------------------
UnloadAll ==
  /\ Idle
  /\ reg' = [s \in Table |-> {}]
  /\ loaded' = <<>>
  /\ UNCHANGED <<load, source, added>>

AddApp(r) ==
  /\ Idle
  /\ reg' = [reg EXCEPT !["apps"] = Inserted(@, r)]
  /\ added' = added \cup {r}
  /\ UNCHANGED <<load, loaded, source>>

LoadStep ==
  SectionMissing \/ SectionBegins \/ RowInserted \/ RowThrows \/ SectionEnds \/ LoadEnds

RegNext ==
  \/ \E d \in Doc : LoadBegins(d)
  \/ LoadStep
  \/ UnloadAll
  \/ \E r \in NewApp : AddApp(r)

-----------------------------------------------------------------------------
\* The tables, the place in the file and the histories have their types.
RegTypeOK ==
  /\ reg \in [Table -> SUBSET Row]
  /\ load = <<>> \/ load \in Doc \X (1..4) \X Nat
  /\ loaded = <<>> \/ loaded \in Doc
  /\ source \in [Table -> {<<>>} \cup Doc]
  /\ \A s \in Table : source[s] # <<>> => s \in DOMAIN source[s]
  /\ added \subseteq Row

\* Rows of a file's section, whatever their linux_id came out as.
RowsOf(d, s) == UNION {Values(d[s][i]) : i \in {n \in DOMAIN d[s] : d[s][n] # Bad}}

\* The rows of the file that table s was last loaded from.
RowsRead(s) == IF source[s] = <<>> THEN {} ELSE RowsOf(source[s], s)

\* No table mixes the rows of two files, whichever loads failed in whichever
\* section: what is in it comes from the file it was last loaded from, or was
\* added since.
OneSource ==
  \A s \in Table : \A r \in reg[s] :
    \/ source[s] # <<>> /\ r \in RowsOf(source[s], s)
    \/ s = "apps" /\ r \in added

\* When loadAll has returned true no row of the file is missing: its id or its
\* name is in the table, at least for a row that came before it.
LoadComplete ==
  loaded # <<>> =>
    \A s \in DOMAIN loaded : \A i \in DOMAIN loaded[s] :
      loaded[s][i] # Bad /\ \E q \in reg[s] : SameKey(q, loaded[s][i])
=============================================================================
