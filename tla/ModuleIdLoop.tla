----------------------------- MODULE ModuleIdLoop -----------------------------
(***************************************************************************)
(* The loop of -resolveModuleId: over the path components, one turn per    *)
(* step, next to the lexical normalisation of paths it stands for: there   *)
(* "." is dropped, ".." cancels the name before it, and a ".." that has no *)
(* name to cancel is kept.                                                 *)
(***************************************************************************)
EXTENDS Naturals, FiniteSets, ModuleId

CONSTANTS
  Name,        \* names of modules and directories
  MaxLength    \* bound: components of an id

ASSUME NameAssumption == DotName \subseteq Name /\ Name \cap {".", "..", "/"} = {}

VARIABLES
  path,        \* `path`, as a sequence of components
  turns,       \* components done
  reference,   \* the lexical normal form of the components done
  climbed      \* the most directories above the start that were needed at once

loopVars == <<path, turns, reference, climbed>>

Climbs(p) == Cardinality({i \in DOMAIN p : p[i] = ".."})

NormalForm(p, c) ==
  IF c = "." THEN p
  ELSE IF c # ".." \/ p = <<>> THEN Append(p, c)
  ELSE IF Last(p) = ".." THEN Append(p, c) ELSE DeleteLast(p)

LoopInit ==
  /\ path = <<>>
  /\ turns = 0
  /\ reference = <<>>
  /\ climbed = 0

Turn(c) ==
  /\ turns < MaxLength
  /\ c = "/" => turns = 0
  /\ turns' = turns + 1
  /\ path' = AddComponent(path, c)
  /\ reference' = NormalForm(reference, c)
  /\ climbed' = IF Climbs(reference') > climbed THEN Climbs(reference') ELSE climbed

LoopNext == \E c \in Name \cup {".", "..", "/"} : Turn(c)
LoopSpec == LoopInit /\ [][LoopNext]_loopVars
-----------------------------------------------------------------------------
\* A resolved id climbs at most one directory, and only at its start: no module is
\* ever cached under an id with dots inside.
DotsOnlyInFront ==
  \A i \in DOMAIN path : path[i] = ".." => i = 1

\* The loop is the lexical normalisation exactly as long as no more than one
\* directory above the start is named: the ".." of a second one cancels the first.
NormalWithinOneClimb == climbed <= 1 => path = reference

\* A resolved id that does not start with a dot means itself in every module, so
\* that -reloadModule: may resolve it twice.
PlainIdIsAbsolute ==
  ~IsRelative(path) => Resolve(path, <<"dir", "module">>) = path
=============================================================================
