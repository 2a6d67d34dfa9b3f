---------------------------- MODULE MCModuleGraph ----------------------------
(* Finite instances of ModuleGraph for TLC. *)
EXTENDS ModuleGraph

FlatIds == {<<"a">>, <<"b">>, <<"c">>}
=============================================================================
