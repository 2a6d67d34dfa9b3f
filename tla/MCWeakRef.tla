------------------------------- MODULE MCWeakRef -------------------------------
(* Finite instances of WeakRef for TLC: two contexts share a runtime, a third has *)
(* one of its own. *)
EXTENDS WeakRef

ContextRuntimes == [c \in Context |-> IF c = "c3" THEN "r2" ELSE "r1"]
ObjectHeaps == [o \in Object |-> IF o = "other" THEN "r2" ELSE "r1"]
=============================================================================
