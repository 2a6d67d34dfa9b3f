----------------------------- MODULE ModuleGraph -----------------------------
(***************************************************************************)
(* ModuleManager with module bodies that are scripts: the body of a module *)
(* requires the modules of `imports`, in order, and then ends.  The graph  *)
(* of the imports is arbitrary, cycles and self-imports included, and the  *)
(* script of a module may throw (LoadFails) at any point, so that it is    *)
(* started again when it is required again.  A script that catches the     *)
(* failure of a module it requires goes on with its next import.           *)
(***************************************************************************)
EXTENDS ModuleManager, FiniteSets

CONSTANT MaxImports       \* bound: imports of one module

ASSUME ImportsAssumption == MaxImports \in Nat

VARIABLES
  imports,    \* imports[id]: the ids the script of id requires, as written
  pc          \* pc[i]: how many imports the body of frames[i] has started

graphVars == <<vars, imports, pc>>

GraphInit ==
  /\ Init
  /\ imports \in [Id -> UNION {[1..n -> Id] : n \in 0..MaxImports}]
  /\ pc = <<>>

\* The program's one call of require; everything else is done by scripts.
Call ==
  /\ loads = 0
  /\ \E raw \in Id : RequireModule(raw)
  /\ pc' = IF frames' = <<>> THEN <<>> ELSE <<0>>
  /\ UNCHANGED imports

Body == imports[Last(frames).id]
Advanced == [pc EXCEPT ![Len(pc)] = @ + 1]

\* A require that waits for the end of a body that has begun.
ImportWaiting ==
  /\ ~Idle
  /\ Last(pc) < Len(Body)
  /\ \A i \in DOMAIN frames : frames[i].id # ResolveModuleId(Body[Last(pc) + 1])
  /\ RequireModule(Body[Last(pc) + 1])
  /\ pc' = IF Len(frames') > Len(frames) THEN Append(Advanced, 0) ELSE Advanced
  /\ UNCHANGED imports

Import ==
  /\ ~Idle
  /\ Last(pc) < Len(Body)
  /\ RequireModule(Body[Last(pc) + 1])
  /\ pc' = IF Len(frames') > Len(frames) THEN Append(Advanced, 0) ELSE Advanced
  /\ UNCHANGED imports

End ==
  /\ ~Idle
  /\ Last(pc) = Len(Body)
  /\ LoadSucceeds
  /\ pc' = Front(pc)
  /\ UNCHANGED imports

Throw ==
  /\ LoadFails
  /\ pc' = Front(pc)
  /\ UNCHANGED imports

GraphNext == Call \/ Import \/ End \/ Throw

\* JavaScript runs to completion: a body that can take its next step takes it,
\* unless it throws; nothing makes it throw.
GraphSpec ==
  GraphInit /\ [][GraphNext]_graphVars /\ WF_graphVars(Import) /\ WF_graphVars(End)
-----------------------------------------------------------------------------
\* The bodies that one require can start when n modules are not being loaded: the one it
\* asks for, and what each import of that one starts when one module less is left.
LoadsCaused[n \in 0..Cardinality(Id)] ==
  IF n = 0 THEN 0 ELSE 1 + MaxImports * LoadsCaused[n - 1]

NestingBounded == Len(frames) <= Cardinality(Id)

\* Bodies nest at most once per module, whatever the imports and the failures: that each
\* module is cached before its body runs bounds the C stack.  And the program's one require
\* starts a number of bodies that only depends on how many modules and imports there are.
\* When all of them fail there are that many, exponential in the number of modules, for
\* nothing remembers that a module has failed.
WorkBounded == NestingBounded /\ loads <= LoadsCaused[Cardinality(Id)]

\* Every require returns: no cycle of imports, and no module that fails and is
\* started again, keeps a load from ending.  MaxLoads is above the bound of WorkBounded:
\* a body that it stopped would not return.
RequireReturns == ~Idle ~> Idle
=============================================================================
