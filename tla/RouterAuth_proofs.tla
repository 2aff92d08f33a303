---------------------------- MODULE RouterAuth_proofs ----------------------------
(***************************************************************************)
(* For any files, rows, executables and ids: the tables come from one file *)
(* each, a load that returns true has missed no row, and what apps send    *)
(* keeps to these files.                                                   *)
(***************************************************************************)
EXTENDS RouterAuth, TLAPS

Covered(rows, r) == r # Bad /\ \E q \in rows : SameKey(q, r)

\* What loadAll has dealt with when it is at row i of section n of d.
Progress(d, n, i) ==
  /\ loaded = <<>>
  /\ i > 0 => n <= 3 /\ Section[n] \in DOMAIN d /\ source[Section[n]] = d
  /\ \A m \in 1..3 : Section[m] \in DOMAIN d =>
       \A j \in DOMAIN d[Section[m]] :
         m < n \/ (m = n /\ j < i) => Covered(reg[Section[m]], d[Section[m]][j])

LoadInv == \A d \in Doc, n \in 1..4, i \in Nat : load = <<d, n, i>> => Progress(d, n, i)

RegInv == RegTypeOK /\ LoadInv /\ OneSource /\ LoadComplete

AuthInv == AuthTypeOK /\ RegInv /\ AppsKeepToTheFiles

-----------------------------------------------------------------------------
(* Rows and sections.                                                      *)

LEMMA SectionNames ==
  /\ \A n \in 1..3 : Section[n] \in Table
  /\ \A n, m \in 1..3 : n # m => Section[n] # Section[m]
  /\ "apps" \in Table /\ "usrs" \in Table
<1>1. Section[1] = "usrs" /\ Section[2] = "part" /\ Section[3] = "apps" BY DEF Section
<1>2. \A n \in 1..3 : n = 1 \/ n = 2 \/ n = 3 OBVIOUS
<1> QED BY <1>1, <1>2 DEF Table

\* What a row is read as is a row with its id and its name.
LEMMA ValuesKeepKeys ==
  ASSUME NEW r \in Row, NEW q \in Values(r)
  PROVE  q \in Row /\ q.id = r.id /\ q.name = r.name
<1>1. CASE r.uid = Unset
  <2>1. PICK u \in Uid : q = WithUid(r, u) BY <1>1 DEF Values
  <2>2. q \in Row BY <2>1, <1>1, RowAssumption
  <2> QED BY <2>1, <2>2 DEF WithUid
<1>2. CASE r.uid # Unset BY <1>2 DEF Values
<1> QED BY <1>1, <1>2

\* insert keeps what is there, takes nothing else, and covers the row.
LEMMA InsertedCovers ==
  ASSUME NEW rows, NEW q, NEW r, q.id = r.id, q.name = r.name
  PROVE  /\ rows \subseteq Inserted(rows, q)
         /\ Inserted(rows, q) \subseteq rows \cup {q}
         /\ \E p \in Inserted(rows, q) : SameKey(p, r)
<1>1. CASE \E p \in rows : SameKey(p, q) BY <1>1 DEF Inserted, SameKey
<1>2. CASE ~\E p \in rows : SameKey(p, q)
  <2>1. Inserted(rows, q) = rows \cup {q} BY <1>2 DEF Inserted
  <2>2. SameKey(q, r) BY DEF SameKey
  <2> QED BY <2>1, <2>2
<1> QED BY <1>1, <1>2

\* Covering survives rows that are added.
LEMMA CoveredGrows ==
  ASSUME NEW rows, NEW more, rows \subseteq more, NEW r, Covered(rows, r)
  PROVE  Covered(more, r)
BY DEF Covered

\* The rows of a section are those of its sequence.
LEMMA SectionRows ==
  ASSUME NEW d \in Doc, NEW s \in DOMAIN d
  PROVE  s \in Table /\ d[s] \in Seq(Row \cup {Bad})
BY DocAssumption

-----------------------------------------------------------------------------
(* The registry.                                                           *)

LEMMA RegInitially == RegInit => RegInv
BY DEF RegInit, RegInv, RegTypeOK, LoadInv, OneSource, LoadComplete

\* Where a load under way is.
LEMMA LoadPlace ==
  ASSUME RegTypeOK, ~Idle
  PROVE  \E d \in Doc, n \in 1..4, i \in Nat :
           load = <<d, n, i>> /\ File = d /\ Line = i /\ load[2] = n
BY DEF RegTypeOK, Idle, File, Line

LEMMA RegStep == RegInv /\ [RegNext]_regVars => RegInv'
<1> SUFFICES ASSUME RegInv, [RegNext]_regVars PROVE RegInv'
  OBVIOUS
<1> USE DEF RegInv
<1>0. CASE UNCHANGED regVars
  BY <1>0 DEF regVars, RegTypeOK, LoadInv, Progress, OneSource, LoadComplete, RowsOf, Covered
<1>1. CASE \E d \in Doc : LoadBegins(d)
  <2>1. PICK d \in Doc : LoadBegins(d) BY <1>1
  <2>2. RegTypeOK' BY <2>1 DEF RegTypeOK, LoadBegins
  <2>3. LoadInv'
    <3>1. CASE load' = <<>> BY <3>1 DEF LoadInv
    <3>2. CASE load' = <<d, 1, 0>>
      <4>1. \A m \in 1..3 : Section[m] \in DOMAIN d =>
              \A j \in DOMAIN d[Section[m]] : ~(m < 1) /\ ~(j < 0)
        BY SectionRows
      <4>2. Progress(d, 1, 0)' BY <4>1, <2>1 DEF Progress, LoadBegins
      <4> QED BY <4>2, <3>2 DEF LoadInv
    <3> QED BY <3>1, <3>2, <2>1 DEF LoadBegins
  <2>4. OneSource' BY <2>1 DEF OneSource, LoadBegins, RowsOf
  <2>5. LoadComplete' BY <2>1 DEF LoadComplete, LoadBegins
  <2> QED BY <2>2, <2>3, <2>4, <2>5
<1>2. CASE LoadStep
  <2>0. ~Idle
    BY <1>2 DEF LoadStep, SectionMissing, SectionBegins, RowInserted, RowThrows, SectionEnds,
      LoadEnds, MoreRows, InSection
  <2>1. PICK d \in Doc, n \in 1..4, i \in Nat :
          load = <<d, n, i>> /\ File = d /\ Line = i /\ load[2] = n
    BY <2>0, LoadPlace
  <2>2. Progress(d, n, i) BY <2>1 DEF LoadInv
  <2>3. Name = Section[n] BY <2>1 DEF Name
  <2>4. CASE SectionMissing
    <3>1. load' = <<d, n + 1, 0>> /\ n \in 1..3 /\ i = 0 /\ Section[n] \notin DOMAIN d
      BY <2>1, <2>3, <2>4 DEF SectionMissing
    <3>2. UNCHANGED <<reg, loaded, source, added>> BY <2>4 DEF SectionMissing
    <3>3. \A m \in 1..3 : Section[m] \in DOMAIN d =>
            \A j \in DOMAIN d[Section[m]] : ~(j < 0)
      BY SectionRows
    <3>4. Progress(d, n + 1, 0)' BY <2>2, <3>1, <3>2, <3>3 DEF Progress
    <3>5. RegTypeOK' BY <3>1, <3>2 DEF RegTypeOK
    <3>6. LoadInv' BY <3>1, <3>4 DEF LoadInv
    <3>7. OneSource' /\ LoadComplete' BY <3>2 DEF OneSource, LoadComplete, RowsOf
    <3> QED BY <3>5, <3>6, <3>7
  <2>5. CASE SectionBegins
    <3> DEFINE s == Section[n]
    <3>1. load' = <<d, n, 1>> /\ n \in 1..3 /\ i = 0 /\ s \in DOMAIN d /\ s \in Table
      BY <2>1, <2>3, <2>5, SectionNames DEF SectionBegins
    <3>2. /\ reg' = [reg EXCEPT ![s] = {}]
          /\ source' = [source EXCEPT ![s] = d]
          /\ added' = IF s = "apps" THEN {} ELSE added
          /\ loaded' = loaded
      BY <2>1, <2>3, <2>5 DEF SectionBegins
    <3>3. \A m \in 1..3 : Section[m] \in DOMAIN d =>
            \A j \in DOMAIN d[Section[m]] : ~(j < 1)
      BY SectionRows
    <3>4. \A m \in 1..3 : m < n => reg'[Section[m]] = reg[Section[m]]
      <4> TAKE m \in 1..3
      <4> HAVE m < n
      <4>1. Section[m] # s /\ Section[m] \in Table BY <3>1, SectionNames
      <4> QED BY <4>1, <3>2 DEF RegTypeOK
    <3>5. source'[s] = d BY <3>1, <3>2 DEF RegTypeOK
    <3>6. Progress(d, n, 1)'
      BY <2>2, <3>1, <3>2, <3>3, <3>4, <3>5 DEF Progress, Covered
    <3>7. RegTypeOK' BY <3>1, <3>2 DEF RegTypeOK
    <3>8. LoadInv' BY <3>1, <3>6 DEF LoadInv
    <3>9. OneSource'
      <4> SUFFICES ASSUME NEW t \in Table, NEW r \in reg'[t]
                   PROVE  \/ source'[t] # <<>> /\ r \in RowsOf(source'[t], t)
                          \/ t = "apps" /\ r \in added'
        BY DEF OneSource, RowsOf
      <4>1. t # s BY <3>1, <3>2 DEF RegTypeOK
      <4>2. r \in reg[t] /\ source'[t] = source[t] BY <4>1, <3>1, <3>2 DEF RegTypeOK
      <4> QED BY <4>1, <4>2, <3>2 DEF OneSource
    <3>10. LoadComplete' BY <2>2, <3>2 DEF LoadComplete, Progress
    <3> QED BY <3>7, <3>8, <3>9, <3>10
  <2>6. CASE RowInserted
    <3> DEFINE s == Section[n]
    <3>1. n \in 1..3 /\ i > 0 /\ i <= Len(d[s]) /\ s \in DOMAIN d /\ s \in Table
      BY <2>1, <2>2, <2>3, <2>6, SectionNames DEF RowInserted, MoreRows, InSection, Progress
    <3>2. d[s] \in Seq(Row \cup {Bad}) /\ i \in DOMAIN d[s] BY <3>1, SectionRows
    <3>3. d[s][i] \in Row /\ d[s][i] # Bad
      BY <3>2, <2>1, <2>3, <2>6 DEF RowInserted, Current
    <3>4. PICK r \in Values(d[s][i]) : reg' = [reg EXCEPT ![s] = Inserted(@, r)]
      BY <2>1, <2>3, <2>6 DEF RowInserted, Current
    <3>5. load' = <<d, n, i + 1>> /\ UNCHANGED <<loaded, source, added>>
      BY <2>1, <2>6 DEF RowInserted
    <3>6. r \in Row /\ r.id = d[s][i].id /\ r.name = d[s][i].name BY <3>3, ValuesKeepKeys
    <3>7. /\ reg[s] \subseteq reg'[s] /\ reg'[s] \subseteq reg[s] \cup {r}
          /\ Covered(reg'[s], d[s][i])
      <4>1. reg'[s] = Inserted(reg[s], r) BY <3>1, <3>4 DEF RegTypeOK
      <4> QED BY <4>1, <3>3, <3>6, InsertedCovers DEF Covered
    <3>8. \A t \in Table : t # s => reg'[t] = reg[t] BY <3>4 DEF RegTypeOK
    <3>9. Progress(d, n, i + 1)'
      <4> SUFFICES ASSUME NEW m \in 1..3, Section[m] \in DOMAIN d,
                          NEW j \in DOMAIN d[Section[m]],
                          m < n \/ (m = n /\ j < i + 1)
                   PROVE  Covered(reg'[Section[m]], d[Section[m]][j])
        BY <2>2, <3>1, <3>5 DEF Progress, Covered
      <4>1. CASE m < n
        <5>1. Section[m] # s /\ Section[m] \in Table BY <4>1, <3>1, SectionNames
        <5> QED BY <4>1, <5>1, <2>2, <3>8 DEF Progress
      <4>2. CASE m = n /\ j = i BY <4>2, <3>7
      <4>3. CASE m = n /\ j # i
        <5>1. j < i BY <4>3, <3>1, SectionRows
        <5>2. Covered(reg[s], d[s][j]) BY <5>1, <4>3, <2>2 DEF Progress
        <5> QED BY <5>2, <4>3, <3>7, CoveredGrows
      <4> QED BY <4>1, <4>2, <4>3, <3>1
    <3>10. RegTypeOK'
      <4>1. \A t \in Table : reg'[t] \subseteq Row BY <3>6, <3>7, <3>8 DEF RegTypeOK
      <4> QED BY <4>1, <3>4, <3>5, <3>1 DEF RegTypeOK
    <3>11. LoadInv' BY <3>5, <3>9, <3>1 DEF LoadInv
    <3>12. OneSource'
      <4> SUFFICES ASSUME NEW t \in Table, NEW q \in reg'[t]
                   PROVE  \/ source[t] # <<>> /\ q \in RowsOf(source[t], t)
                          \/ t = "apps" /\ q \in added
        BY <3>5 DEF OneSource, RowsOf
      <4>1. CASE q \in reg[t] BY <4>1 DEF OneSource
      <4>2. CASE q \notin reg[t]
        <5>1. t = s /\ q = r BY <4>2, <3>7, <3>8
        <5>2. source[s] = d BY <2>2, <3>1 DEF Progress
        <5>3. r \in RowsOf(d, s) BY <3>2, <3>3, <3>4 DEF RowsOf
        <5>4. d # <<>> BY <3>1
        <5> QED BY <5>1, <5>2, <5>3, <5>4
      <4> QED BY <4>1, <4>2
    <3>13. LoadComplete' BY <2>2, <3>5 DEF LoadComplete, Progress
    <3> QED BY <3>10, <3>11, <3>12, <3>13
  <2>7. CASE RowThrows
    BY <2>7 DEF RowThrows, RegTypeOK, LoadInv, OneSource, LoadComplete, RowsOf
  <2>8. CASE SectionEnds
    <3>1. /\ load' = <<d, n + 1, 0>> /\ n \in 1..3 /\ i > Len(d[Section[n]])
          /\ UNCHANGED <<reg, loaded, source, added>>
          /\ Section[n] \in DOMAIN d
      BY <2>1, <2>2, <2>3, <2>8 DEF SectionEnds, InSection, Progress
    <3>2. \A m \in 1..3 : Section[m] \in DOMAIN d =>
            \A j \in DOMAIN d[Section[m]] : ~(j < 0) /\ (m = n => j < i)
      BY SectionRows, <3>1
    <3>3. Progress(d, n + 1, 0)' BY <2>2, <3>1, <3>2 DEF Progress
    <3>4. RegTypeOK' BY <3>1 DEF RegTypeOK
    <3>5. LoadInv' BY <3>1, <3>3 DEF LoadInv
    <3>6. OneSource' /\ LoadComplete' BY <3>1 DEF OneSource, LoadComplete, RowsOf
    <3> QED BY <3>4, <3>5, <3>6
  <2>9. CASE LoadEnds
    <3>1. load' = <<>> /\ loaded' = d /\ n = 4 /\ UNCHANGED <<reg, source, added>>
      BY <2>1, <2>9 DEF LoadEnds
    <3>2. LoadComplete'
      <4> SUFFICES ASSUME NEW s \in DOMAIN d, NEW j \in DOMAIN d[s]
                   PROVE  d[s][j] # Bad /\ \E q \in reg[s] : SameKey(q, d[s][j])
        BY <3>1 DEF LoadComplete
      <4>1. s \in Table BY SectionRows
      <4>2. PICK m \in 1..3 : s = Section[m] BY <4>1 DEF Table
      <4>3. Covered(reg[s], d[s][j]) BY <4>2, <2>2, <3>1 DEF Progress
      <4> QED BY <4>3 DEF Covered
    <3>3. RegTypeOK' BY <3>1 DEF RegTypeOK
    <3>4. LoadInv' BY <3>1 DEF LoadInv
    <3>5. OneSource' BY <3>1 DEF OneSource, RowsOf
    <3> QED BY <3>2, <3>3, <3>4, <3>5
  <2> QED BY <1>2, <2>4, <2>5, <2>6, <2>7, <2>8, <2>9 DEF LoadStep
<1>3. CASE UnloadAll
  BY <1>3 DEF UnloadAll, Idle, RegTypeOK, LoadInv, OneSource, LoadComplete, RowsOf
<1>4. CASE \E r \in NewApp : AddApp(r)
  <2>1. PICK r \in NewApp : AddApp(r) BY <1>4
  <2>2. r \in Row BY RowAssumption
  <2>3. /\ reg' = [reg EXCEPT !["apps"] = Inserted(@, r)] /\ added' = added \cup {r}
        /\ load = <<>> /\ UNCHANGED <<load, loaded, source>>
    BY <2>1 DEF AddApp, Idle
  <2>4. /\ reg["apps"] \subseteq reg'["apps"] /\ reg'["apps"] \subseteq reg["apps"] \cup {r}
        /\ \A t \in Table : t # "apps" => reg'[t] = reg[t]
    <3>1. reg'["apps"] = Inserted(reg["apps"], r) BY <2>3, SectionNames DEF RegTypeOK
    <3> QED BY <3>1, <2>3, InsertedCovers DEF RegTypeOK
  <2>5. RegTypeOK'
    <3>1. \A t \in Table : reg'[t] \subseteq Row BY <2>2, <2>4 DEF RegTypeOK
    <3> QED BY <3>1, <2>2, <2>3 DEF RegTypeOK
  <2>6. LoadInv' BY <2>3 DEF LoadInv
  <2>7. OneSource' BY <2>3, <2>4 DEF OneSource, RowsOf
  <2>8. LoadComplete'
    <3>1. \A t \in Table : reg[t] \subseteq reg'[t] BY <2>4
    <3>2. loaded # <<>> => loaded \in Doc BY DEF RegTypeOK
    <3>3. loaded # <<>> => \A t \in DOMAIN loaded : t \in Table BY <3>2, SectionRows
    <3> QED BY <2>3, <3>1, <3>3 DEF LoadComplete
  <2> QED BY <2>5, <2>6, <2>7, <2>8
<1> QED BY <1>0, <1>1, <1>2, <1>3, <1>4 DEF RegNext

-----------------------------------------------------------------------------
(* RouterAuthManager on the registry.                                      *)

\* Rows that are found in a table are rows of its file, or have been added.
LEMMA FoundWasRead ==
  ASSUME OneSource
  PROVE  /\ reg["usrs"] \subseteq RowsRead("usrs")
         /\ reg["apps"] \subseteq RowsRead("apps") \cup added
BY SectionNames DEF OneSource, RowsRead

LEMMA AuthStep == AuthInv /\ [AuthNext]_raVars => AuthInv'
<1> SUFFICES ASSUME AuthInv, [AuthNext]_raVars PROVE AuthInv'
  OBVIOUS
<1> USE DEF AuthInv
<1>0. CASE UNCHANGED raVars
  <2>1. RegInv' BY <1>0, RegStep DEF raVars
  <2> QED
    BY <1>0, <2>1 DEF raVars, regVars, authVars, AuthTypeOK, RegInv, AppsKeepToTheFiles, RowsRead, RowsOf
<1>1. CASE RegistryStep
  <2>1. RegInv' BY <1>1, RegStep DEF RegistryStep
  <2> QED BY <1>1, <2>1 DEF RegistryStep, AuthTypeOK, RegInv, AppsKeepToTheFiles
<1>2. CASE UNCHANGED regVars /\ passed' = <<>> /\ AuthTypeOK'
  <2>1. RegInv' BY <1>2, RegStep
  <2> QED BY <1>2, <2>1 DEF AppsKeepToTheFiles
<1>3. ASSUME NEW k \in Ids, RemoveEntity(k) PROVE AuthInv'
  <2>1. AuthTypeOK' BY <1>3 DEF RemoveEntity, AuthTypeOK, RegTypeOK, regVars
  <2> QED BY <1>2, <1>3, <2>1 DEF RemoveEntity
<1>4. ASSUME NEW k \in Ids, UpdateAppAllowedState(k) PROVE AuthInv'
  <2>1. AuthTypeOK' BY <1>4 DEF UpdateAppAllowedState, AuthTypeOK, RegTypeOK, regVars
  <2> QED BY <1>2, <1>4, <2>1 DEF UpdateAppAllowedState
<1>5. ASSUME NEW A \in SUBSET Ids, SetAllowedApps(A) PROVE AuthInv'
  <2>1. AuthTypeOK' BY <1>5 DEF SetAllowedApps, AuthTypeOK, RegTypeOK, regVars
  <2> QED BY <1>2, <1>5, <2>1 DEF SetAllowedApps
<1>6. ASSUME NEW p \in Path, NEW u \in Uid, AuthenticateConnection(p, u) PROVE AuthInv'
  <2>1. UNCHANGED <<regVars, allowed, crashed>> /\ passed' = <<>>
    BY <1>6 DEF AuthenticateConnection
  <2>2. PICK r \in reg["usrs"] \cup reg["apps"], g \in {"core", "out"} :
          group' = [group EXCEPT ![r.id] = g]
    BY <1>6 DEF AuthenticateConnection, WithPath
  <2>3. AuthTypeOK' BY <2>1, <2>2 DEF AuthTypeOK, RegTypeOK, regVars
  <2> QED BY <1>2, <2>1, <2>3
<1>7. ASSUME NEW k \in Ids, NEW l \in Ids, AuthorizeMessage(k, l) PROVE AuthInv'
  <2>0. UNCHANGED <<regVars, allowed, group>> BY <1>7 DEF AuthorizeMessage
  <2>1. RegInv' BY <2>0, RegStep
  <2>2. AuthTypeOK'
    <3>1. (passed' = <<k, l>> \/ passed' = <<>>) /\ crashed' \in BOOLEAN
      BY <1>7 DEF AuthorizeMessage, AuthTypeOK
    <3> QED BY <2>0, <3>1 DEF AuthTypeOK, RegTypeOK, regVars
  <2>3. CASE group[k] = "core" /\ passed' = <<k, l>>
    BY <2>0, <2>1, <2>2, <2>3 DEF AppsKeepToTheFiles
  <2>4. ASSUME NEW a \in WithId("apps", k), MayReach(a, l), passed' = <<k, l>>
        PROVE  AuthInv'
    <3>1. PICK u \in WithId("usrs", l) : u.acl # "core_only" BY <2>4 DEF MayReach
    <3>2. u \in RowsRead("usrs") /\ u.id = l BY <3>1, FoundWasRead DEF WithId, RegInv
    <3>3. a \in RowsRead("apps") \cup added /\ a.id = k BY FoundWasRead DEF WithId, RegInv
    <3>4. group[l] # "out" BY <2>4 DEF MayReach
    <3>5. /\ passed'[1] = k /\ passed'[2] = l
          /\ source' = source /\ added' = added /\ group' = group
      BY <2>0, <2>4 DEF regVars
    <3>6. AppsKeepToTheFiles'
      BY <3>1, <3>2, <3>3, <3>4, <3>5 DEF AppsKeepToTheFiles, RowsRead, RowsOf
    <3> QED BY <2>1, <2>2, <3>6
  <2>5. CASE passed' = <<>>
    BY <2>1, <2>2, <2>5 DEF AppsKeepToTheFiles
  <2> QED BY <1>7, <2>3, <2>4, <2>5 DEF AuthorizeMessage
<1> QED BY <1>0, <1>1, <1>3, <1>4, <1>5, <1>6, <1>7 DEF AuthNext

-----------------------------------------------------------------------------
\* The inductive invariant of registry and router's authentication.
THEOREM AuthInvCorrect == AuthSpec => []AuthInv
<1>1. AuthInit => AuthInv
  <2> SUFFICES ASSUME AuthInit PROVE AuthInv
    OBVIOUS
  <2>1. RegInv BY RegInitially DEF AuthInit
  <2> QED BY <2>1 DEF AuthInit, AuthInv, AuthTypeOK, RegInv, AppsKeepToTheFiles
<1> QED BY <1>1, AuthStep, PTL DEF AuthSpec

\* Registry and RouterAuthManager keep the types of their variables.
THEOREM AuthTypeCorrect == AuthSpec => []AuthTypeOK
BY AuthInvCorrect, PTL DEF AuthInv

\* After any loads, failed ones included, no table mixes two files.
THEOREM OneSourceHolds == AuthSpec => []OneSource
BY AuthInvCorrect, PTL DEF AuthInv, RegInv

\* A load that returns true has left no row of the file out.
THEOREM LoadCompleteHolds == AuthSpec => []LoadComplete
BY AuthInvCorrect, PTL DEF AuthInv, RegInv

\* Whatever is loaded when, one id in several files included, what an app sends comes
\* from an app of the last file, and reaches a usr there that apps may reach.
THEOREM AppsKeepToTheFilesHolds == AuthSpec => []AppsKeepToTheFiles
BY AuthInvCorrect, PTL DEF AuthInv
=============================================================================
