---------------------------- MODULE ModuleManager ----------------------------
(***************************************************************************)
(* XJSModuleManager: the CommonJS `require` of one XJSContext.             *)
(*                                                                         *)
(* Every method runs inside @synchronized(_context.runtime), a recursive   *)
(* lock, so the module tables are only touched by the thread that holds    *)
(* it.  What makes the class hard is reentrancy: the body of a module (a   *)
(* script or a provided block) runs in the middle of -resolveModule:, and  *)
(* may require, provide and reload other modules, or itself.  `frames` is  *)
(* the call stack of those bodies: one record per running activation of    *)
(* -resolveModule:, with the locals the rest of the method uses.           *)
(*                                                                         *)
(* A body is arbitrary code, so which operation comes next, and whether    *)
(* the body succeeds, is nondeterministic.  A require that finds a value   *)
(* pushes and pops `stack` in one step, for no other code runs in between. *)
(***************************************************************************)
EXTENDS Naturals, Sequences, ModuleId

CONSTANTS
  Id,         \* the ids callers write and the ones resolution makes of them
  LocalId,    \* the ids this program provides a module for in the manager ...
  GlobalId,   \* ... and in the class
  Value,      \* XJSValues made outside of the manager, for -provideValue:
  Block,      \* stands for any XJSValue-less provider: a block or a script
  Nil,        \* nil: no entry, or null/undefined as the value of module.exports
  MaxLoads    \* bound: how many module bodies are started in a behaviour

Object  == 1..MaxLoads          \* the `exports` object made for the n-th load
Exports == Object \cup Value

ASSUME IdAssumption ==
  \A raw \in Id, current \in Id \cup {<<>>} : Resolve(raw, current) \in Id
ASSUME ProvidedAssumption == LocalId \cup GlobalId \subseteq Id \ {<<>>}
ASSUME ValueAssumption ==
  /\ MaxLoads \in Nat
  /\ Value \cap Nat = {}
  /\ Nil \notin Value \cup Nat
  /\ Block \notin Value \cup Nat \cup {Nil}

VARIABLES
  modules,          \* _modules: what require answers from its cache
  providedModules,  \* _providedModules
  globalModules,    \* the static table of the class, shared by all managers
  stack,            \* _stack: the ids being required, outermost first
  frames,           \* running activations of -resolveModule:, outermost first
  loads,            \* module bodies started so far
  lastGood          \* history: what the last successful load of an id stored

vars == <<modules, providedModules, globalModules, stack, frames, loads, lastGood>>

Frame == [id : Id,                        \* moduleId
          exports : Object,               \* the fresh exports object
          result : Exports \cup {Nil}]    \* module.exports, as the body left it

Init ==
  /\ modules = [id \in Id |-> Nil]
  /\ providedModules = [id \in Id |-> Nil]
  /\ globalModules = [id \in Id |-> Nil]
  /\ stack = <<>>
  /\ frames = <<>>
  /\ loads = 0
  /\ lastGood = [id \in Id |-> Nil]

Idle == frames = <<>>
Loading == {frames[i].id : i \in DOMAIN frames}

CurrentId == IF stack = <<>> THEN <<>> ELSE Last(stack)
ResolveModuleId(raw) == Resolve(raw, CurrentId)

\* The chain of ?: that picks the module, given the cache to look in.
Lookup(cache, id) ==
  IF cache[id] # Nil THEN cache[id]
  ELSE IF providedModules[id] # Nil THEN providedModules[id]
  ELSE globalModules[id]

\* A load that caches the exports only when it is done.
BeginLoadUncached(cache, id) ==
  /\ loads < MaxLoads
  /\ loads' = loads + 1
  /\ modules' = cache
  /\ stack' = Append(stack, id)
  /\ frames' = Append(frames,
                  [id |-> id, exports |-> loads + 1, result |-> loads + 1])

\* -resolveModule: up to the call of the block: the exports object is cached
\* before the body runs.
BeginLoad(cache, id) ==
  /\ loads < MaxLoads
  /\ loads' = loads + 1
  /\ modules' = [cache EXCEPT ![id] = loads + 1]
  /\ stack' = Append(stack, id)
  /\ frames' = Append(frames,
                  [id |-> id, exports |-> loads + 1, result |-> loads + 1])

\* A require that caches whatever the tables hold, blocks as well.
RequireCachingBlocks(cache, raw) ==
  LET id == ResolveModuleId(raw) IN
    /\ UNCHANGED <<providedModules, globalModules, lastGood>>
    /\ \/ /\ Lookup(cache, id) # Nil
          /\ modules' = [cache EXCEPT ![id] = Lookup(cache, id)]
          /\ UNCHANGED <<stack, frames, loads>>
       \/ /\ Lookup(cache, id) = Nil
          /\ BeginLoad(cache, id)

\* -requireModule: with `cache` as _modules.  A value is returned as it is; a
\* block, or nil (the default loader, which asks the script provider), is run.
Require(cache, raw) ==
  LET id == ResolveModuleId(raw) IN
    /\ UNCHANGED <<providedModules, globalModules, lastGood>>
    /\ \/ /\ Lookup(cache, id) \in Exports
          /\ modules' = cache
          /\ UNCHANGED <<stack, frames, loads>>
       \/ /\ Lookup(cache, id) \in {Block, Nil}
          /\ BeginLoad(cache, id)

RequireModule(raw) == Require(modules, raw)

\* module.exports = v, by whatever code runs; it may have got hold of the
\* `module` object of any activation.
SetModuleExports(i, v) ==
  /\ frames' = [frames EXCEPT ![i].result = v]
  /\ UNCHANGED <<modules, providedModules, globalModules, stack, loads, lastGood>>

\* The block returned YES: module.exports, unless null or undefined, is cached.
LoadSucceeds ==
  /\ ~Idle
  /\ LET f == Last(frames)
         exports == IF f.result = Nil THEN f.exports ELSE f.result IN
       /\ modules' = [modules EXCEPT ![f.id] = exports]
       /\ lastGood' = [lastGood EXCEPT ![f.id] = exports]
  /\ frames' = Front(frames)
  /\ stack' = Front(stack)
  /\ UNCHANGED <<providedModules, globalModules, loads>>

\* Four ways to get the cleaning up of a failed load wrong: nothing is taken out of
\* the cache, everything is, the id is not popped, it is popped in two places.
LoadFailsKeepingExports ==
  /\ ~Idle
  /\ frames' = Front(frames)
  /\ stack' = Front(stack)
  /\ UNCHANGED <<modules, providedModules, globalModules, loads, lastGood>>

LoadFailsForgettingAll ==
  /\ ~Idle
  /\ modules' = [id \in Id |-> Nil]
  /\ frames' = Front(frames)
  /\ stack' = Front(stack)
  /\ UNCHANGED <<providedModules, globalModules, loads, lastGood>>

LoadFailsWithoutPop ==
  /\ ~Idle
  /\ modules' = [modules EXCEPT ![Last(frames).id] = Nil]
  /\ frames' = Front(frames)
  /\ UNCHANGED <<providedModules, globalModules, stack, loads, lastGood>>

LoadFailsPoppingTwice ==
  /\ ~Idle
  /\ modules' = [modules EXCEPT ![Last(frames).id] = Nil]
  /\ frames' = Front(frames)
  /\ stack' = Front(Front(stack))
  /\ UNCHANGED <<providedModules, globalModules, loads, lastGood>>

\* The block returned NO: no script, or the script threw.
LoadFails ==
  /\ ~Idle
  /\ modules' = [modules EXCEPT ![Last(frames).id] = Nil]
  /\ frames' = Front(frames)
  /\ stack' = Front(stack)
  /\ UNCHANGED <<providedModules, globalModules, loads, lastGood>>

\* -provideValue:, -provideScript:, -provideBlock: and require.provide.  The id is
\* the key as it stands: it is not resolved, and it may not be empty.
Provide(id, provider) ==
  /\ providedModules' = [providedModules EXCEPT ![id] = provider]
  /\ UNCHANGED <<modules, globalModules, stack, frames, loads, lastGood>>

\* The class methods, at any time and from any thread: they do not take the
\* runtime's lock.  Their callers may not provide an id twice (XLCAssert).
ProvideGlobal(id, provider) ==
  /\ globalModules[id] = Nil
  /\ globalModules' = [globalModules EXCEPT ![id] = provider]
  /\ UNCHANGED <<modules, providedModules, stack, frames, loads, lastGood>>

ReloadAll ==
  /\ modules' = [id \in Id |-> Nil]
  /\ UNCHANGED <<providedModules, globalModules, stack, frames, loads, lastGood>>

\* The id is resolved here and once more by -requireModule:.
ReloadModule(raw) ==
  LET id == ResolveModuleId(raw) IN Require([modules EXCEPT ![id] = Nil], id)

Load ==
  \/ \E raw \in Id : RequireModule(raw)
  \/ \E i \in DOMAIN frames, v \in Value \cup (1..loads) \cup {Nil} : SetModuleExports(i, v)
  \/ LoadSucceeds
  \/ LoadFails
  \/ \E p \in Value \cup {Block} : \/ \E id \in LocalId : Provide(id, p)
                                  \/ \E id \in GlobalId : ProvideGlobal(id, p)

Reload ==
  \/ ReloadAll
  \/ \E raw \in Id : ReloadModule(raw)

\* An Objective-C exception leaves the running body (a provided block that raises,
\* an adopter that cannot convert) and is caught further out, by the caller of
\* require or by the bridge around an Objective-C method; the k outer activations
\* go on.  Neither -requireModule: nor -resolveModule: cleans up behind the others.
Unwind(k) ==
  /\ frames' = SubSeq(frames, 1, k)
  /\ UNCHANGED <<modules, providedModules, globalModules, stack, loads, lastGood>>

Next == Load \/ Reload
Spec == Init /\ [][Next]_vars

\* The discipline of the tests and of a careful program: modules are reloaded from
\* outside, never by a module that is being loaded.
QuietNext == Load \/ (Idle /\ Reload)
QuietSpec == Init /\ [][QuietNext]_vars

\* A program whose blocks raise exceptions.
RaisingNext == Next \/ \E k \in 0..(Len(frames) - 1) : Unwind(k)
RaisingSpec == Init /\ [][RaisingNext]_vars
-----------------------------------------------------------------------------
TypeOK ==
  /\ modules \in [Id -> Exports \cup {Nil}]
  /\ providedModules \in [Id -> Value \cup {Block, Nil}]
  /\ globalModules \in [Id -> Value \cup {Block, Nil}]
  /\ stack \in Seq(Id)
  /\ frames \in Seq(Frame)
  /\ loads \in 0..MaxLoads
  /\ lastGood \in [Id -> Exports \cup {Nil}]

\* The id a relative require starts from is the one of the innermost body that
\* is running, and nothing is left on _stack when no body runs, however requires,
\* failures and reloads nest (requireModule pushes and pops around resolveModule).
StackMatchesFrames ==
  /\ Len(stack) = Len(frames)
  /\ \A i \in DOMAIN frames : stack[i] = frames[i].id

\* Even when exceptions skip the pop of _stack, every activation finds an entry to
\* pop: -removeLastObject is never sent to an empty array.
StackNeverUnderflows == Len(frames) <= Len(stack)

\* A cached module is what its last successful load left, or the exports object of
\* an activation that is still running: a load that failed leaves nothing behind,
\* even when the module was reloaded while it was loading.
NoOrphanedExports ==
  \A id \in Id : modules[id] # Nil =>
    \/ modules[id] = lastGood[id]
    \/ \E i \in DOMAIN frames : frames[i].id = id /\ frames[i].exports = modules[id]

\* An exception that leaves a body leaves an entry on _stack that no later load takes
\* away.  As long as there is none, the cache and _stack are in order, however loads,
\* failures and reloads (of modules that are being loaded, too) are mixed.
OrderlyUnlessRaised ==
  Len(stack) # Len(frames) \/ (StackMatchesFrames /\ NoOrphanedExports)

\* A module that (indirectly) requires itself gets the exports object its own
\* running body fills in, so a cycle of modules does not recurse for ever.
CycleSeesOwnExports ==
  \A i \in DOMAIN frames : modules[frames[i].id] = frames[i].exports

\* No module body is entered while an earlier activation of it is running.
OneActivation ==
  \A i, j \in DOMAIN frames : frames[i].id = frames[j].id => i = j
-----------------------------------------------------------------------------
\* What the manager promises of its cache under the quiet discipline.
Cache == INSTANCE ModuleCache WITH
  status <- [id \in Id |-> IF id \in Loading THEN "loading"
                           ELSE IF modules[id] # Nil THEN "loaded" ELSE "absent"],
  exports <- modules

CacheSpec == Cache!Spec
=============================================================================
