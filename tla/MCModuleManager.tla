--------------------------- MODULE MCModuleManager ---------------------------
(* Finite instances of ModuleManager for TLC. *)
EXTENDS ModuleManager

\* A module at the root, one in a directory, and a relative id that means one or
\* the other, depending on the module that requires it.
RelativeIds == {<<"a">>, <<"b">>, <<"d", "b">>, <<".", "b">>}

Root == {<<"a">>}
Leaf == {<<"b">>}
=============================================================================
