------------------------------ MODULE MCRouterAuth ------------------------------
(* Files with a double name, without a section, with a row that throws, and with *)
(* a usr whose acl has changed and whose id an app has in another file.            *)
EXTENDS RouterAuth

CONSTANTS bad, unset

R(id, name, path, uid, acl) == [id |-> id, name |-> name, path |-> path, uid |-> uid, acl |-> acl]

Open == R(1, "g", "gfx", "any", "all_accessible")
Asks == R(1, "g", "gfx", "u1", "out_optional")
Shut == R(1, "g", "gfx", "any", "core_only")
Core == R(2, "m", "gfx", unset, "core_only")
Twin == R(2, "g", "gfx", "any", "all_accessible")
Part == R(2, "d", "", "any", "out_optional")
App  == R(9, "a", "app", "any", {"b"})
Both == R(1, "b", "app", "any", {})
MCUid == {"u1", "any"}

MCRow == {Open, Asks, Shut, Core, Twin, Part, App, Both} \cup {[Core EXCEPT !.uid = u] : u \in MCUid}

First  == [usrs |-> <<Open, Core>>, part |-> <<Part>>]
Second == [usrs |-> <<Asks, Twin>>, apps |-> <<App, bad, Both>>]
Third  == [usrs |-> <<Core, Shut, bad>>, part |-> <<Part, Part>>, apps |-> <<App, Both>>]
Fourth == [usrs |-> <<Twin>>, apps |-> <<Both>>]
MCDoc == {First, Second, Third, Fourth}
MCNewApp == {App, Both}
=============================================================================
