---------------------------- MODULE MCObjectBridge ----------------------------
(* Finite instances of ObjectBridge for TLC: two contexts share a runtime, a third *)
(* has one of its own. *)
EXTENDS ObjectBridge

ContextRuntimes == [c \in Context |-> IF c = "c3" THEN "r2" ELSE "r1"]
=============================================================================
