----------------------------- MODULE ModuleCache -----------------------------
(***************************************************************************)
(* What a module loader promises about its cache, without its tables, its  *)
(* call stack or its identifiers: a module is absent, loading or loaded;   *)
(* it is loaded by one body at a time; and while any module is loading,    *)
(* the modules that are loaded stay as they are.                           *)
(***************************************************************************)
CONSTANTS Id, Exports, Nil

VARIABLES
  status,    \* status[id] \in {"absent", "loading", "loaded"}
  exports    \* exports[id], Nil when absent

vars == <<status, exports>>

Init ==
  /\ status = [id \in Id |-> "absent"]
  /\ exports = [id \in Id |-> Nil]

Quiet == \A id \in Id : status[id] # "loading"

\* A first load, possibly from the body of another module.
Begin(id, e) ==
  /\ status[id] = "absent"
  /\ status' = [status EXCEPT ![id] = "loading"]
  /\ exports' = [exports EXCEPT ![id] = e]

Succeed(id, e) ==
  /\ status[id] = "loading"
  /\ status' = [status EXCEPT ![id] = "loaded"]
  /\ exports' = [exports EXCEPT ![id] = e]

Fail(id) ==
  /\ status[id] = "loading"
  /\ status' = [status EXCEPT ![id] = "absent"]
  /\ exports' = [exports EXCEPT ![id] = Nil]

\* From outside of every module body: some modules are forgotten, and at most one
\* of those that are not loaded after it starts at once.
Reload ==
  /\ Quiet
  /\ status' \in [Id -> {"absent", "loading", "loaded"}]
  /\ exports' \in [Id -> Exports \cup {Nil}]
  /\ \A id \in Id :
       CASE status'[id] = "loaded"  -> status[id] = "loaded" /\ exports'[id] = exports[id]
         [] status'[id] = "absent"  -> exports'[id] = Nil
         [] status'[id] = "loading" -> exports'[id] # Nil
  /\ \A i, j \in Id : status'[i] = "loading" /\ status'[j] = "loading" => i = j

Next ==
  \/ \E id \in Id : Fail(id) \/ \E e \in Exports : Begin(id, e) \/ Succeed(id, e)
  \/ Reload

Spec == Init /\ [][Next]_vars
=============================================================================
