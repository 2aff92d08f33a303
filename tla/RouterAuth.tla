------------------------------- MODULE RouterAuth -------------------------------
(***************************************************************************)
(* src/core/Router/suRouterAuth.hpp: who may connect and who may send to   *)
(* whom, by the registry, which may be loaded again at any time, and by    *)
(* what RouterAuthManager remembers of those who have connected.           *)
(***************************************************************************)
EXTENDS Registry

CONSTANT Path   \* the paths of executables

\* One id may be a usr's in a file and an app's in another, or in the same.
Ids == {r.id : r \in Row}

VARIABLES
  allowed,  \* allowedOutApps_
  group,    \* entityGroupMap_
  passed,   \* the message that the last step has let pass, or <<>>
  crashed   \* a null pointer has been used

authVars == <<allowed, group, passed, crashed>>
raVars == <<regVars, authVars>>

AuthInit ==
  /\ RegInit
  /\ allowed = {}
  /\ group = [k \in Ids |-> "none"]
  /\ passed = <<>>
  /\ crashed = FALSE

-----------------------------------------------------------------------------
WithPath(s, p) == {r \in reg[s] : r.path = p}
WithId(s, k) == {r \in reg[s] : r.id = k}

\* checkLinuxId: the pid is not looked at.
CheckLinuxId(r, u) == r.uid \in {"any", u}

RemoveEntity(k) ==
  /\ Idle
  /\ group[k] # "none"
  /\ group' = [group EXCEPT ![k] = "none"]
  /\ passed' = <<>>
  /\ UNCHANGED <<regVars, allowed, crashed>>

SetAllowedApps(A) ==
  /\ Idle
  /\ allowed' = A
  /\ passed' = <<>>
  /\ UNCHANGED <<regVars, group, crashed>>

UpdateAppAllowedState(k) ==
  /\ Idle
  /\ allowed' \in {allowed \cup {k}, allowed \ {k}}
  /\ passed' = <<>>
  /\ UNCHANGED <<regVars, group, crashed>>

\* The path need not be unique; which of its rows find returns is not said.  An
\* attempt that fails changes nothing.
AuthenticateConnection(p, u) ==
  /\ Idle
  /\ \/ \E r \in WithPath("usrs", p) :
          CheckLinuxId(r, u) /\ group' = [group EXCEPT ![r.id] = "core"]
     \/ /\ WithPath("usrs", p) = {}
        /\ \E r \in WithPath("apps", p) :
             /\ r.id \in allowed /\ CheckLinuxId(r, u)
             /\ group' = [group EXCEPT ![r.id] = "out"]
  /\ passed' = <<>>
  /\ UNCHANGED <<regVars, allowed, crashed>>

\* An app may send to a usr that is public, or that asks for a name the app's
\* acl has: the name is looked up among the apps, where no usr is found.
MayReach(a, k) ==
  /\ group[k] # "out"
  /\ \E u \in WithId("usrs", k) :
       \/ u.acl = "all_accessible"
       \/ u.acl = "out_optional" /\ \E q \in WithId("apps", k) : q.name \in a.acl

LooksUpNobody(k) ==
  /\ group[k] # "out"
  /\ \E u \in WithId("usrs", k) : u.acl = "out_optional"
  /\ WithId("apps", k) = {}

AuthorizeMessage(k, l) ==
  /\ Idle
  /\ \/ group[k] = "core" /\ passed' = <<k, l>> /\ UNCHANGED crashed
     \/ group[k] = "out" /\ \E a \in WithId("apps", k) :
          \/ MayReach(a, l) /\ passed' = <<k, l>> /\ UNCHANGED crashed
          \/ LooksUpNobody(l) /\ passed' = <<>> /\ crashed' = TRUE
  /\ UNCHANGED <<regVars, allowed, group>>

-----------------------------------------------------------------------------
RegistryStep == RegNext /\ passed' = <<>> /\ UNCHANGED <<allowed, group, crashed>>

AuthNext ==
  /\ ~crashed
  /\ \/ RegistryStep
     \/ \E k \in Ids : RemoveEntity(k)
     \/ \E k \in Ids : UpdateAppAllowedState(k)
     \/ \E A \in SUBSET Ids : SetAllowedApps(A)
     \/ \E p \in Path, u \in Uid : AuthenticateConnection(p, u)
     \/ \E k \in Ids, l \in Ids : AuthorizeMessage(k, l)

AuthSpec == AuthInit /\ [][AuthNext]_raVars

-----------------------------------------------------------------------------
\* The variables of registry and RouterAuthManager have their types.
AuthTypeOK ==
  /\ RegTypeOK
  /\ allowed \subseteq Ids
  /\ group \in [Ids -> {"none", "core", "out"}]
  /\ passed = <<>> \/ passed \in Ids \X Ids
  /\ crashed \in BOOLEAN

\* What a program that was admitted as an app sends keeps to the files that usrs
\* and apps were last read from, whatever was loaded, or failed in the middle, since
\* it and the receiver connected: the sender is an app there, or has been added
\* since, and the receiver is no app that is connected and a usr of a row there that
\* is not for core programs only (suRouterAuth.hpp:137-173).
AppsKeepToTheFiles ==
  passed # <<>> /\ group[passed[1]] = "out" =>
    /\ group[passed[2]] # "out"
    /\ \E a \in RowsRead("apps") \cup added : a.id = passed[1]
    /\ \E u \in RowsRead("usrs") : u.id = passed[2] /\ u.acl # "core_only"
=============================================================================
