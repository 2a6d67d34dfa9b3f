------------------------------- MODULE Runtimes -------------------------------
(***************************************************************************)
(* Contexts and the runtimes they are made in: what the models of native   *)
(* references to JS objects and of JS references to native objects share.  *)
(***************************************************************************)
CONSTANTS
  Context, Runtime,   \* XJSContexts and XJSRuntimes
  RuntimeOf,          \* the runtime of each context
  None

ASSUME RuntimeAssumption == RuntimeOf \in [Context -> Runtime]
ASSUME NoneAssumption == None \notin Context

VARIABLE alive        \* contexts that exist

\* The contexts that keep a runtime alive.
ContextsOf(r) == {c \in alive : RuntimeOf[c] = r}
=============================================================================
