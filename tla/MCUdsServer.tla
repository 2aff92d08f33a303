------------------------------ MODULE MCUdsServer ------------------------------
(* Two connections and two ids: the connections may take one id each, or one   *)
(* id, the second of them while the first one is in use.  The application     *)
(* tells the connections and the ids apart only by their entries.             *)
EXTENDS UdsServerApp, TLC
=============================================================================
