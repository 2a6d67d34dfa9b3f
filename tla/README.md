# Verification of XJSBinding

XJSBinding is an Objective-C binding of SpiderMonkey: it runs scripts from
Objective-C, lets scripts use Objective-C objects, and gives scripts a CommonJS
`require`. This directory holds TLA+ models of its core, the TLC configurations
that check them on small instances, and theorems about them that TLAPS checks for
every value of the constants. `PROJECT.json` lists the components, the runs, for
each definition the lines of code it stands for, for each property a bug it would
catch, the hazards of the code and the findings.

All file names below are in `src/XJSBinding/` unless they say otherwise. The code of the
project is in its `.mm` and `.m` files, 4,000 lines of which the models cover about half;
the header files of the repository are nearly all those of SpiderMonkey, a vendored library
without its source (`src/Spidermonkey`), which is not what is verified here.

## 1. The system

| Component | State it keeps | Operations | Interacts with |
|---|---|---|---|
| **Runtime** (`XJSRuntime.mm`) | a `JSRuntime`; its recursive lock is `@synchronized(runtime)` | `performBlock:`, `gc` | every component takes its lock |
| **Context** (`XJSContext.mm`) | a `JSContext`, the global object, `_errorStack`, the static `contextDict` | init, dealloc, `contextForJSContext:`, `allContexts`, `evaluateString:...`, dotted subscripts, `gcIfNeed` | every callback from SpiderMonkey looks its context up in `contextDict` |
| **Values** (`XJSValue.mm`) | a rooted `jsval` and a strong reference to its context | calls, getters, setters, conversions, native copies of objects | lock of the runtime, `XJSConvert` |
| **Module manager** (`XJSModuleManager.mm`) | `_modules`, `_providedModules`, `_stack`, the static table of global modules | `requireModule:`, `provide...`, `reloadAll`, `reloadModule:`, and the JS functions of the same names | module bodies run in the middle of `requireModule:` and call back |
| **Weak references** (`XJSValueWeakRef.mm`) | a JS `WeakMap` rooted by the address of an instance variable, a weak context | `value`, `setValue:`, dealloc | the collector, contexts that die first |
| **Wrappers** (`XJSClass.mm`) | the native object in the private slot of its wrapper; a dictionary runtime -> weak reference attached to the native object | create, finalize, call, get, set, construct, resolve | retain counts, scripts, `XJSHelperFunctions`, `XJSConvert` |
| **Look-up** (`XJSHelperFunctions.mm`) | none | name and argument count -> selector; selector -> property | both directions of a call |
| **Conversion** (`XJSConvert.mm`, `NSObject+XJSValueConvert.mm`, `XJSStructMetadata.mm`) | struct metadata | C type <-> JS value | may run code of the script (`valueOf`, getters) |
| **Adopters** (`XJSAdopter.mm`) | an `XJSValue` per adopter | `forwardInvocation:` | calls JS functions from native code |
| **Runtime entry** (`XJSRuntimeEntry.mm`, `XJSInternalOperation.hh`) | the wrappers of classes, by name; a set that counts the internal operations of every `JSContext` | the hooks of the `objc` object | wrappers are made in its hooks, and set off further hooks |
| Logging, errors, built-in modules, demo application | - | formatting, I/O | - |

What is hard about it:

* **Reentrancy.** Scripts call native code that calls scripts: module bodies
  require, provide and reload modules, themselves included; evaluations nest; calls
  cross the bridge in both directions. Exceptions unwind through all of that.
* **Threads.** The lock of the runtime is recursive and released between steps that
  belong together: init and dealloc of a context, the push and pop of the error
  stack, the return of a raw result and its rooting. The error stack is an array that no
  lock guards at all. There is a lock for each runtime, one for each native object that
  scripts have seen and two for static tables, and they are taken inside each other.
* **Lifetime.** Four kinds of owners (ARC, the collector, weak maps, root tables)
  and objects whose owners die in any order; a dealloc runs on whatever thread drops
  the last reference, with whatever locks it holds, and a finalizer on whatever thread the
  collector runs on.
* **Two forms of failure.** An exception pending in the `JSContext` on one side,
  an `NSException` on the other, and functions that fail with neither.

What makes each component correct, and where that is checked:

* Module manager: the stack of ids is that of the running bodies; a failed load
  leaves nothing in the cache; cyclic imports see each other's exports and end.
* Module ids: `.` and `..` are resolved as paths are.
* Contexts: a look-up finds the context, or nothing, but never a stranger; no reference
  is to a context that is being deallocated.
* Locks: threads wait for each other for ever only where a thread in one runtime waits for
  another one, or releases a module that was provided twice.
* Evaluation: errors reach the evaluation they belong to; results that are meant to be
  protected are not collected; the lock is counted right.
* Weak references: they answer what was set, while it lives; no root is left behind.
* Wrappers: one native object is one JS object; a wrapper keeps its object alive.
* Calls: the selector found takes the arguments given; numbers come back as they
  were; a stopped script has an exception to catch, one that goes on has none, and no
  `NSException` passes through SpiderMonkey but those of results that cannot be converted.
* Names: the entry object holds its classes and nothing else; a look at a class finds it;
  a name of a wrapper stays what it was found to be.
* Dotted keys: what was set is read back, and nothing else changes.
* Copies: an object has a native copy unless a path from it leads in circles; one that is
  converted to native objects and back reads the same, with an object of its own for each
  path that leads to one.

## 2. Modules

| Module | Models | Uses |
|---|---|---|
| `ModuleId` | `-resolveModuleId:` over sequences of path components | - |
| `ModuleIdLoop` | its loop, a component a step, beside lexical normalisation | `ModuleId` |
| `ModuleManager` | `XJSModuleManager`, one action per method, with the call stack of module bodies | `ModuleId` |
| `ModuleCache` | abstract: what a module loader promises of its cache | - |
| `ModuleGraph` | the manager composed with scripts whose bodies import modules in order | `ModuleManager` |
| `ContextRegistry` | init, dealloc and look-up of contexts, in the steps between their locks | - |
| `Sharing` | threads that share contexts: the locks of each method and of finalizers in their order, the references that keep a context alive, global modules, the dictionaries of natives | `ContextRegistry` |
| `Evaluation` | calls into SpiderMonkey by threads, the lock, the unguarded error stack, exceptions that leave scripts, the collector | - |
| `Runtimes` | contexts, the runtimes they are made in, which of them exist | - |
| `WeakRef` | `XJSValueWeakRef` among contexts, runtimes and collections | `Runtimes` |
| `ObjectBridge` | identity and reference counts of wrappers, with their finalizer | `Runtimes` |
| `Resolution` | the hooks of the runtime entry object, internal operations, the resolve hook of wrappers | - |
| `Namespace` | the dotted subscripts of a context over a heap of JS objects | - |
| `Copies` | native copies of the objects of that heap | `Namespace` |
| `Containers` | their way back | `Copies` |
| `SelectorSearch` | `XJSSearchSelector` and `XJSSearchProperty` | - |
| `Conversion` | `XJSConvert`: integers of every width, and whether and how other values fail | - |
| `MethodCall` | calls across the bridge in both directions, nested | `SelectorSearch`, `Conversion` |
| `ModuleManagerProofs` | theorems about `ModuleManager`, `ModuleGraph` and `ModuleIdLoop` | TLAPS |
| `SharingProofs` | theorems about `ContextRegistry` and `Sharing` | TLAPS |
| `ReferenceProofs` | theorems about `WeakRef` and `ObjectBridge` | TLAPS |
| `EvaluationProofs`, `ResolutionProofs`, `MethodCallProofs` | theorems about the module of that name | TLAPS |
| `NamespaceProofs` | theorems about `Namespace`, `Copies` and `Containers` | TLAPS |
| `StackLemmas` | for the proofs: what a push and a pop do to a sequence, least and greatest members of sets, the fold of an operator over a sequence, induction over sets of numbers | TLAPS |
| `MC...` | values of the constants for TLC | - |

The definitions that begin like the ones next to them and differ in one line
(`BeginLoadUncached`, `AllBlockUnchecked`, `CatchNothing`, ...) are no part of the models:
each is a bug that a property is shown to catch, and PROJECT.json says which.

### How state and actions correspond to the code

**ModuleManager.** `modules`, `providedModules`, `globalModules` and `stack` are the
tables and `_stack`. `frames` holds the locals of the activations of
`-resolveModule:moduleId:` that are running a body. `Require` is `-requireModule:` up
to the call of a body; `LoadSucceeds` and `LoadFails` are the rest of it, including
what `-requireModule:` does after it. `Provide`, `ProvideGlobal`, `ReloadAll` and
`ReloadModule` are the other methods; a body may do any of them, at any time. `Unwind`
is an `NSException` that leaves bodies without the code after them. `require.paths`
and the script provider are the choice between `LoadSucceeds` and `LoadFails`.

**ContextRegistry.** A context goes through the phases between the locks of
`-initWithRuntime:` and `-dealloc`. Its look-up is one step, for it holds the lock of the
table. The address of a destroyed `JSContext` may be used again at once.

**Sharing.** A method is the sequence of its `@synchronized` blocks (`Sections`), and
`stack[t]` holds the methods that thread `t` is in: `Enter` takes the lock of the next
block, the `...Block` actions are what it does, and inside the block of a use the program may
start anything again. `program`, `kept`, `global` and the methods in progress are all that
refers to a context (`Owned`); the step that drops the last reference pushes the dealloc
onto the same stack. Inside their blocks init, dealloc and look-up are the actions of
`ContextRegistry`. `crosses` tells programs that use, or let one object own, objects of one
runtime inside the lock of another from those that do not.

Scripts see natives: `StartWrap` is `XJSGetOrCreateJSObject`, whose two blocks on the dictionary
of the native are `LookBlock` and `StoreBlock`; `refs` holds the contexts of the weak references
in that dictionary, one for each runtime. The collector runs inside a use, in
`JS_NewGlobalObject` and in `JS_DestroyContext` (`Collects`), and what its finalizers do is to
release: values (`ReleaseValue`), contexts (`DropContext`), and natives with their weak references
(`FreeReference`), whose dealloc takes the lock of the runtime they are for, be it that of the
collector or another (`UnrootBlock`). A native that scripts of two runtimes have seen is in `spread`. The
weak references of a native go one at a time here and not all at once, which allows more orders
than the code has; the read and the store of a wrap are two methods of the same use, in any order
and number. A dictionary that is lost to another thread is in `ObjectBridge`. The
end of an `XJSRuntime`, which finalizes what is left in it with none of its locks held, is left out.

`StartProvide` asks for the module as the class methods do,
outside of the lock, and `Store` writes it; that "module already exists" raises is taken from
builds in which `XLCAssert` is on.

**Resolution.** Each context has a runtime and a thread of its own, and all share the set that
counts internal operations. `resolving[c]` is the stack of resolve hooks in progress: `Read`
and `Wrap` start a look, `ResolveConstructor` is the look at NSObject inside the hook of
another class, `ResolveClass` and `ResolveNothing` end a hook, `Answer` and `SetPrototype` the
look. `Write` and `Delete` are the hooks that refuse. `ResolveName` is the resolve hook of
wrappers with the prototype on which it puts methods; scripts assign nothing to
wrappers and prototypes here.

**Evaluation.** `calls[t]` is the stack of calls of thread `t`; `Start` is the call of a method,
which for an evaluation begins the push and `Push` ends it, `Enter` takes the lock,
`Succeed` and `Fail` give it back, `Report` reads `-error`, `Wrap` makes the `XJSValue`,
`BeginPop` and `Return` are the pop. The stack is an `NSMutableArray` that threads change
without a lock: if one begins a push or a pop while another is inside one, `torn` is
set, and from then on the array may hold anything (`ErrorsFound` answers whatever there can be). A
reader, or an error that is added, in the middle of another thread's change may miss the last
entry. Errors come from two sources: `LeaveScript` is SpiderMonkey's report when the outermost
script is left, and `ConversionFails` that of `-reportErrorWithSelector:`, which adds to the last
entry at once, in native code that a script has called or outside of any. `Escape` is an
`NSException` that goes through a script: the `@synchronized` block is left, the pop is not
reached (`left` counts the entries that stay), and SpiderMonkey, whose frames it has skipped, may
believe from then on that a script is running. That two threads add to the same entry at the
same instant is one step after the other here, and so is the script code that a conversion runs.
The collector runs wherever the lock can be taken and takes what only the stack of another
thread refers to.

**WeakRef.** One reference, its `_map` and `_context` as the fields are, the root tables
of the runtimes, and a world of contexts, `XJSValue`s and collections around it.

**ObjectBridge.** A call of `XJSGetOrCreateJSObject` is split where threads of two
runtimes, who share no lock, can interleave: reading the dictionary, attaching one,
using or creating a wrapper, or failing to (`CreateFails`: a class that is not registered, or no
runtime entry object; the JS object that was made owns the native until it is collected).
`surplus` counts references without an owner.

**Namespace.** A get or a set holds the lock and is one step; the setter's loop is a
fold over the components.

**Copies, Containers.** `ToObject` is `-toObject` and, for objects, the `-toDictionary` it
calls, over the heaps of `Namespace`; a native dictionary is a function. The recursion of the
code has no end on cyclic objects: the model gives it room for as many calls inside each other
as there are objects, and what needs more returns nothing, so that `ToDictionary` is a set of
one dictionary or an empty one. `CopiesEnd` says when it is empty without a word of room, and
with that justifies the bound. `ToValue` of `Containers` is the way back, `XJSToValue`: `Made`
makes a new object on a heap of copies and assigns it the members one after the other
(`SetObject`), each converted where the members before it have left the heap. It too is given room
for as many calls inside each other as there are objects, which is enough for what `-toObject`
returns (`Native`), nested no deeper than that. `CopiesReadAlike` reads the object and its copy
by the same paths: what is found is the same but that an undefined property has become null
(`ReadAlike`), and an object that several paths lead to is there once for each (`ReadApart`).

**MethodCall.** `frames` is the stack of calls in progress, `control` what the innermost
code does. For a script that calls a method: `Search`, then `Found` or `Unfound`,
`Argument` once per argument, `Invoke`, then `Catch` or `Result` or `NoResult`, as
`XJSCallMethod` goes; property getters and setters (`Access`), wrapped blocks
(`CallCallable`) and constructors (`Construct`) enter the same path where the code does the
same. For native code that calls an adopter: `ProgramForwards`, `ForwardArgument`,
`StartFunction`, then `FunctionReturns` or `FunctionFails`, `ForwardResult` or
`ForwardEnds`. Names are sequences of three characters (a letter, `_`, `:`), for no other
matters to the search. Integers are as wide as `CharBits` ... `LongBits` say and doubles
have `Mantissa` bits, in the order of the real widths. Of other values it is modelled
whether they convert and whether code of the script they run throws; a selector or a C string
made from an object whose conversion throws reads a null pointer, and the model ends there.
`convertible` says of the objects that native code hands over that each of them can become a
JS value: the context has a runtime entry object with a constructor for its class, and an `XJSValue`
is of the same runtime. If not, the conversion raises, and of a method, a getter, a callable
or a constructor it does so outside of the try block (`Result`).

## 3. Runs

| Run | Instance | What it shows |
|---|---|---|
| `module_manager_quiet` | four ids (root, nested, a relative one that means either), three loads; 63,000 states | with reloads from outside: stack, cache, cycles, and the refinement of `ModuleCache` |
| `module_manager_reentrant` | the same, reloads from bodies and exceptions that skip the pop; 188,000 states | the stack never underflows, and all is in order until an exception leaves an entry behind |
| `module_graph` | every graph of three modules with two imports each, scripts that throw; 152,000 states | bodies nest at most three deep, one require starts at most seven of them, which it does when all fail; every require returns |
| `module_id_loop` | ids of up to six components; 3,000 states | the loop is lexical normalisation up to one climb; dots stay in front |
| `sharing` | two contexts in two runtimes, two addresses, two threads with two methods inside each other, a global module, a native object; 1,433,000 states up to symmetry | look-ups find no stranger, only a reused address hides a context, references are to living contexts, what circles of waiting threads need, modules are replaced in a race only |
| `resolution` | two contexts, NSObject, a class, an unknown class, three objects, two names; 225,000 states | the entry object, looks at classes, the kinds of names |
| `evaluation` | two threads, two calls deep, one skipped pop; 1,912,000 states up to symmetry | lock, error stack, roots, errors |
| `weak_ref` | three contexts in two runtimes, two maps; 468,000 states | answers what was set; one root |
| `weak_ref_root` | the same | **violated:** no root outlives the reference |
| `object_bridge` | one object, three contexts in two runtimes, three wrappers, calls that fail to make one; 1,392,000 states | one wrapper each; wrapped objects live |
| `namespace` | keys of up to four components over two names, three objects; 62,000 states | sets are read back, short ones disturb nothing, objects have copies unless they lead in circles, copies read like their originals |
| `method_call` | every name of up to four characters and eight longer ones, up to three arguments, three calls deep; 55,000 states | selectors, numbers, exceptions |

The bounds are where the interesting cases have happened:

* `MaxLoads = 3` allows a module to load, fail, be reloaded and load again, and a
  cycle of two with a third started in its middle. In `module_graph` eight loads are more
  than the seven (`LoadsCaused`) that three modules with two imports can start, so that the
  bound never stops a body, which `BoundStopsNoBody` proves of every number of modules;
  `RequireReturns` would be violated if it did.
* Two addresses for two contexts allow the second context to be made on the address of the
  first while that is dying. Two threads and two runtimes are the smallest circle; two
  methods inside each other are a callback, a use of the other runtime, a release or a
  dealloc inside the lock of a script. The theorems of `SharingProofs` hold for any number
  of everything.
* A class beside NSObject is what makes hooks run inside hooks. Two objects of it share
  a prototype; the third has a class that the runtime does not know.
* A thread in a use of one runtime, whose collector frees a native that scripts of the other have
  seen, waits for that one: two of them are the smallest circle of finalizers. Global modules do
  not influence each other, so one is enough. The contexts, with their runtimes, can be
  exchanged for each other, which the symmetry of the run uses.
* Two nested calls are an evaluation inside an evaluation or inside a call, beside the same on
  another thread: every pair of pushes, pops and reports meets. One skipped pop is an entry
  that later evaluations find. The theorems hold for calls nested to any depth.
* Two maps are a reference that was set again, in the same runtime or in another one.
* Three wrappers are two for the same runtime and one for the other. Of the methods one
  hands over a reference and one does not.
* Keys of three components have the inner component that the setter and the getter
  look up in different objects; those of four can come back to a name that they have used. Three
  objects are a cycle through another one, and an object that two paths lead to. Copies are read
  by paths of up to as many components as there are objects: a longer one passes an object twice.
* Names of four characters hold every arrangement of a first word, a separator, a
  second word and a trailing underscore; the longer ones add a second separator, so
  that a call with one to three arguments meets names with too few, enough and too
  many underscores. Widths 2 < 3 < 4 <= 5 < 7 keep the order char < short < int <= exact
  doubles < long, so that each conversion has values that it cuts off. Three calls deep
  are a script in native code in a script, or native code in a script in native code.

**Fairness.** Only `ModuleGraph` needs it, for `RequireReturns`: weak fairness of `Import`
and `End`. Module bodies run on one thread that holds the lock, and JavaScript runs to
completion: a body that can take its next step does. Nothing makes a script throw.
All the other properties are safety properties.

**Deadlock** is checked except where the modelled activity ends: `ModuleIdLoop` (the id
has been read), `ModuleGraph` (the one require has returned), `Namespace` (the program has
crashed), `MethodCall` (an exception has left the bridge) and `Sharing` (threads wait for each
other in a circle, which is what `CirclesCross` is about).

## 4. Findings

`weak_ref_root`: `-setValue:` removes the root `&_map` only when the weak `_context` still
answers (XJSValueWeakRef.mm:82). A reference that outlives its context, in a
runtime that lives on, leaves the address of freed memory in the root table.

Some disagreements were met that no run is devoted to; properties name them
as what they leave out:

* `-dealloc` removes the key of its `JSContext` from `contextDict` after `JS_DestroyContext`
  (XJSContext.mm:148). A thread that gets the same address in between registers its
  context and loses the entry; from then on its errors are dropped and its wrappers find no
  context (`reused` in `ContextRegistry`).
* Threads that use two runtimes inside each other, in either order, can wait for each other
  for ever (`crosses` in `Sharing`). So can threads each in a runtime of its own, if scripts of
  both have seen the same native objects: the collector of one runtime frees a native, and the
  weak reference that it leaves takes the lock of the other runtime (XJSClass.mm:371,
  XJSValueWeakRef.mm:83; `spread`). And so can two that have provided the same global module at
  the same time, for the second releases the first's value inside the lock of the table
  (XJSModuleManager.mm:51, `overlapped`).
* `_errorStack` is an `NSMutableArray` that threads change outside of any lock (XJSContext.mm:176-184;
  `torn` in `Evaluation`), and an `NSException` that leaves a script skips the pop (248; `left`).
* A context with a module that holds a value of it is never deallocated: manager, value and
  context own each other (`kept` in `Sharing`).
* `-toDictionary` of an object that a path leads back to never returns (XJSValue.mm:350;
  `LeadsInCircles` in `Copies`); an undefined property comes back as null.
* `_context[@"a.b.c"] = v` looks `b` up in the global object (XJSContext.mm:347), so a
  global `b` takes the rest of the path and the getter does not find it
  (`Crossed` in `Namespace`). The set can also cut the path it has taken: if the first
  component is a name of the global object itself, a later component that repeats the second one
  is found there, and the last assignment may replace what led to it (`a.a`, or `a.b.b.c`, where
  `a` is the global object). Keys of four components were needed to see the latter; the proof of
  `SetsReadBack` met it first.
* `a_b` called with two arguments is `a_b::`, not `a:b:`, because underscores are counted from
  the second character on (XJSHelperFunctions.mm:59; `Standard` in `SelectorSearch`).
* chars and shorts are read with the sign of the other kind on their way to JS
  (XJSConvert.mm:247-262); they come back right (`NumbersSurvive`).
* Nothing remembers that a module has failed (XJSModuleManager.mm:407): each require starts it
  again, so that one require of modules that import each other and all fail starts a number of
  bodies that is exponential in the number of modules (`LoadsCaused` in `ModuleGraph`, which is
  reached).
* A getter whose result does not convert stops the script without an exception
  (XJSClass.mm:65; `mute` in `StopsHaveAReason`); a result that cannot become a JS value, of a class that is not registered (533), an `XJSValue`
  of another runtime (NSObject+XJSValueConvert.mm:44) or any object in a context without a runtime
  entry object, raises through SpiderMonkey (`convertible` in `RaisesStayNative`).
* An object whose conversion to a string throws makes `XJSConvertJSValueToString` read a null
  pointer (XJSConvert.mm:19), for selectors and C strings (138, 141; `"string"` in `Conversion`).

## 5. Theorems

| Theorem | Says | Argument |
|---|---|---|
| `TypeCorrect` | `Spec => []TypeOK` for any ids, values, loads | `IdAssumption`: resolution stays in `Id` |
| `StackCorrect` | `Spec => []StackMatchesFrames`, reentrant reloads included | inductive with `TypeOK` |
| `NoOrphans` | `Spec => []NoOrphanedExports` | needs, besides the stack, that exports objects are fresh and frames hold objects of earlier loads: a failed load must not share its object with another one |
| `CyclesEnd`, `CyclesShareExports` | `QuietSpec => []OneActivation`, `QuietSpec => []CycleSeesOwnExports` | each needs the other: a body is not started again because its exports are cached, and they stay cached because no second activation removes them |
| `PopsFindAnEntry`, `OrderUntilARaise` | `RaisingSpec => []StackNeverUnderflows`, `RaisingSpec => []OrderlyUnlessRaised` | once there are more entries than activations there always are (`Leftovers`); until then every step is one of `Spec` and the invariants above apply |
| `ImplementsCache` | `QuietSpec => CacheSpec` | one lemma per action of the manager: begin, succeed, fail, reload, or a stutter |
| `LookupSound` (of `ContextRegistry`) | `Spec => [](NeverAnother /\ NoEntryOfTheGone)` for any contexts and addresses | `RegistryInv`: an address has one owner, and its entry is of an object that was registered there and has not gone |
| `UnreusedContextsFound` | `Spec => []OthersAreFound` | the history `reused` names all that can remove another's entry |
| `ResolvedIdClimbsOnce` | `LoopSpec => []DotsOnlyInFront` for ids of any length | a turn adds `..` to an empty path only |
| `LoopNormalizes` | `LoopSpec => []NormalWithinOneClimb` | `LoopInv`: up to one climb path and reference are the same at every turn, for with one `..` in front a second one would be a second climb (`ClimbsProperties`) |
| `ResolvedIds`, `ResolvedIdsStay` | what `Resolve` returns is a sequence of components with dots in front only, and one that does not begin with a dot resolves to itself, from any module; `LoopSpec => []PlainIdIsAbsolute` | the fold of `AddComponent` is followed turn by turn (`FoldTrace`): over components that are plain it appends (`PlainResolvedNormal`) |
| `GraphsAreQuiet`, `GraphsKeepTheCache` | `GraphSpec => QuietSpec`, `GraphSpec => CacheSpec` for any number of modules and any throws | each step of a graph is one of the quiet manager, to which `ImplementsCache` applies |
| `WorkIsBounded` | `GraphSpec => []WorkBounded` for any finite number of modules: how deep bodies nest, and how many of them one require starts | by `OneActivation` the frames map one to one into the modules, and with more frames than modules two would be of the same one (pigeonhole). `WorkInv` keeps an account for the loads: each running body has room for what the imports that are left of it can start (`Room`), one module less being free at each depth (`Ledger`), and the loads so far and the room of all bodies together never exceed `LoadsCaused`. A load that begins takes its own room from that of the body which asked for it (`WorkBegins`), whether it is the first of its module or another one after a failure |
| `BoundStopsNoBody` | with `MaxLoads` at least `LoadsCaused` of the number of modules `GraphSpec => []NotHeldUp`: a body with an import left can take it | `WorkInv`: a body with imports left has room for a load |
| `ExceptionsDelivered`, `NothingStale` | `Spec => []StopsHaveAReason`, `Spec => []NoStaleException` for calls nested to any depth | `FailureInv` adds `NativeKnows`: native code, too, has nothing pending that was not dropped; without it the return to a script would not be covered |
| `NoExceptionEscapes` | `Spec => []RaisesStayNative` | the same invariant and the lemma `FromTypeRaises`: conversions of results raise only for objects that cannot become JS values; whatever a method raises is caught |
| `SharingIsRegistry` | `SharingSpec => Spec` of `ContextRegistry` | each block of a thread is an action of the registry or leaves its state alone; the proof needs the invariant `OwnInv`, that a dealloc in progress is of a context already released |
| `SharedLookups` | `SharingSpec => []NeverAnother` and `[]OthersAreFound` | from `SharingIsRegistry` and the theorems of the registry |
| `OwnedLive` | `SharingSpec => []OwnedContextsLive` | `OwnInv`: types of the frames, the invariant of the registry, and that what is in the table or referred to is born and not released; the step that drops the last reference is the one that starts the dealloc |
| `CirclesHaveACause` | `SharingSpec => []CirclesCross` for any threads, runtimes, natives and nesting | `CircleInv`: which methods are below others on a stack, with releases only above all but a use (`BelowTop`); that without `crosses` a thread is in one runtime, except where something is released by a finalizer of a native in `spread`, or by a `provide` (`OneRuntime`); that only a `provide` that replaces a value releases under the lock of the table (`Superseding`), that it has met another one (`Races`), and that locks exclude each other (`Exclusive`). The lock of `contextDict` is innermost, and one of a dictionary or of the modules is taken inside that of a runtime only and released before another is waited for, but for the releases that `CirclesCross` names: so in a circle a thread that waits for a runtime holds another one, or the table of modules |
| `ModulesStay` | `SharingSpec => ReplacedOnlyInARace`, an action property | `Races`: a `provide` in progress found no module, so one that is there now was stored by another that overlapped it |
| `WeakReferenceAnswers` | `RefSpec => []AnswersWhatWasSet` for any contexts, runtimes, objects | `RefInv`: set to an object the reference has the map that was made for that object, in the runtime of its context (`MapOfTarget`), and the map is rooted as long as that context lives (`MapKept`); `_value` is what it was set to (`ValueIsTarget`), and an `XJSValue` keeps its context alive |
| `WeakReferenceRoots` | `RefSpec => []OneRoot` | `RefInv` as well: `MapKept` gives the root, and there is none before there is a map (`RootsAfterMap`), so that what `RootsWithoutOld` leaves is empty unless a context has died first |
| `OneObjectForScripts` | `Spec` of `ObjectBridge` `=> []OneWrapperEach` | `BridgeInv`: a wrapper whose context lives is in the dictionary of its native object and is the latest of its runtime (`LatestIsKnown`), and a call in progress has that dictionary (`CallsKnowTheDictionary`), unless another thread has replaced it (`lost`) |
| `WrappersKeepTheirNatives` | `Spec => []WrappedNativesLive` | `BridgeInv` counts: for each call that is going to release an object there is a reference without an owner (`OwedIsThere`), so that a release takes none that a wrapper has |
| `HeapTyped` | `Spec` of `Namespace` `=> []TypeOK` | `NamespaceInv`: values only, references to objects that are in use; the setter's loop keeps it at each turn (`WalkInv`) |
| `SetsReadBack` | `Spec => []ReadsBackUncrossed` for keys of any length | an induction over the turns of the setter's loop (`FirstTurn`, `LaterTurn`): there is a path of properties from the global object to where the loop is (`Path`), the loop is at an object that nothing on the path is (`Fresh`), and the global object has changed in the first components only (`OnlyNamed`); the getter then follows the path (`GetAlongPath`), which the last assignment does not cut |
| `ShortSetsAreLocal` | `Spec => []ShortSetsKeepTheRest` | one turn at most, which takes an object or makes one |
| `CopiesComeToAnEnd` | `Spec => []CopiesEnd` for any number of objects | the function that the recursion describes exists (`ConversionExists`); the objects of which it returns nothing are fewer with each call of room (`UnendingShrinks`), by one at least until those that are left lead to each other (`UnendingInCircles`, by cardinality); objects in a circle are never among those that return (`CirclesAreUnending`) |
| `CopiesAreAlike` | `Spec => []CopiesReadAlike` for any number of objects and any finite set of names | the functions that both recursions describe exist (`NativeExists`, `ToValueExists`), and `SetToSeq` has every member. What is shown of the fold over the members, turn by turn (`Filled`, `MemberFilled`), and of the conversion, room by room (`CopiesAtDepth`), is `IsCopy`: what was on the heap stays; there is a relation of values and their copies that the properties of related objects are in again (`Alike`); and the new objects are trees, in which a property holds objects made later, and no other property the same (`Tree`, `TreeGrafted`). Both are then followed along a path: along one path the relation leads to related values (`CopyReadsAlike`), and two paths to one object of a tree are the same path (`PathsApart`) |
| `SelectorsFit` | `Spec` of `MethodCall` `=> []ColonsMatchArguments` for names of any length | `FramesInv`: a frame holds what the search returned for its name and arguments until the object has answered. `SearchCounts`: what the search returns has as many colons as arguments, by counting: the colons put (`LastPlacesCount`, an induction over how many), the one at the end, and those appended |
| `NamesAreFound`, `PropertiesLeadBack` | `Spec => []StandardNamesFound`, `Spec => []ForwardedNamesCallBack` for selectors of any length | `StandardFound`: in each of the three names of a standard selector the search finds the places of its colons and no others. A name with all the underscores, or with one left at the end, has them in place (`AllColonsFound`); a name without the trailing ones has them appended (`TrailingColons`), and then no underscore is in front of them |
| `NumbersComeBack` | `Spec => []NumbersSurvive` for words of any widths | `NumberInv`: a number on its way is what the conversions made of one of its type. `NarrowSurvives`: to read the low bits with the other sign and again with the right one gives the number back; `WideSurvives`: a whole number up to `2 ^ Mantissa` is its own double (`DoubleSmall`, `DoubleLimit`) |
| `CallsTyped` | `Spec => []TypeOK` of `MethodCall` | `FramesInv`, `NumberInv`, and that doubles are whole numbers (`DoubleTyped`) |
| `EntryKept` | `Spec => [](TypeOK /\ EntryHoldsItsClasses)` | `HooksNest`: as many internal operations as hooks, in each context, so that scripts and hooks never run at the same time in one |
| `LooksSucceed` | `Spec => []LooksFindTheClass` | `HooksNest` says besides that the outermost hook is for what the look is for |
| `KindsKept` | `Spec => NamesKeepTheirKind`, an action property | a name becomes an accessor only where the prototype has none of that name |
| `TypeCorrect` of `EvaluationProofs` | `Spec => []TypeOK` for any threads, calls nested to any depth | with `EvaluationInv` below, for a release of the lock needs a holder |
| `LockFollowsCalls` | `Spec => []LockMatchesCalls` | `BelowTopRuns`: every call but the innermost is in its script, so that the lock is entered once for each call, the innermost one excepted when it is before or behind its block |
| `ErrorStackMatches` | `Spec => []ErrorStackBalanced` | as long as the array is not `torn`, the set of evaluations in progress, with the pops that were skipped, gains and loses one element where the stack does (cardinality of finite sets) |
| `ResultsAreKept` | `Spec => []ResultsSurvive` | by the lock: no other thread can collect while a block is open |
| `CallersGetTheirErrors` | `Spec => []ErrorsReachTheirCaller` | `AloneInv`: as long as a thread overlaps no other, each evaluation of it has an entry of the error stack, counted from the outermost (`Rank`), which holds `{t}` if a conversion has failed in it, or if it is the outermost one and has failed, and is empty if it is nested and none has (`Told`, `OwnErrors`). It needs the balance of the stack: with nothing in progress no entry is left that the first evaluation could find (`NoEntryWhenIdle`), which is why the claim ends with `torn` and `escaped` |

They assume nothing but the ASSUMEs of the modules, which say that stand-ins differ
from what they stand beside, that bounds are numbers, that `MaxArgs` is at least the number of
colons of a selector of the instance, that the widths of the C types are in their order, that
dictionaries are none of the other values, and that resolution stays in the set of ids. Where a
theorem counts or enumerates, it assumes besides that the set it does so with is finite, as any
such set of the program is: the names of `CopiesAreAlike`, the ids of `WorkIsBounded`.

What a fold, a search or a power of two is for every input is an induction over data. The theorems
of the library that take an operator for the induction hypothesis cannot be used here; the
proofs instead make the set of the numbers for which the hypothesis holds and show that it has
all of them: `LeastExists` (from the well-foundedness of `<` on the naturals) gives the least
number outside, and `NatSetInduction` follows. `FoldExists` and `FoldTrace` do the same
for `FoldLeft`, so that a proof can follow a loop turn by turn. `2 ^ n` has no definition that the
provers know beyond small constants; its laws (`PowerStep`, `PowersGrow`) come
from the cardinality of the set of all subsets of `1..n`.

Left to TLC: `RequireReturns`, which is liveness under fairness. Its parts that are safety
are proved: no require starts more loads than `LoadsCaused` says, and as long as a body has an
import left the bound lets it take it (`WorkIsBounded`, `BoundStopsNoBody`). That fairness then makes the
steps happen rests on ENABLED, which the provers do not have. Every other property that a
run checks is proved.

## 6. Not modelled, and the plan

Done, in the order of their importance: the module manager, contexts, evaluation, weak
references, wrappers, dotted keys, calls across the bridge, threads with the locks and
references they share, the runtime entry object and resolve hooks, copies of objects. What
is left:

1. Strings and arrays in `Containers`: lengths in UTF-16 units for buffers of UTF-8 bytes
   (XJSContext.mm:240, XJSConvert.mm:38).
2. `StructMetadata`: the fields of a struct and their offsets, parsed from a type encoding.
3. `XJSHasInstanceImpl`, and the `JSClass` of an Objective-C class that two threads make at once
   (XJSClass.mm:439), which concerns memory that no model here has.
4. `errorHandler` blocks, which run inside `reportError`; `require.paths` and the script provider,
   so far the nondeterministic outcome of a load.

Left out for good: logging, errors, the demo application and the built-in modules
(formatting and I/O); SpiderMonkey itself, of which the models take what its header
says of rooting, weak maps and error reports; floating point numbers and dates, whose
conversion is one call of a library (that dates are converted with seconds for milliseconds,
XJSValue.mm:105 and 288, is listed among the hazards); and the making of adopter
classes, which is done once per protocol by the Objective-C runtime.

## 7. Running

    tlc -workers 2 -config MethodCall.cfg MCMethodCall.tla
    tlapm ModuleManagerProofs.tla

Each run of `PROJECT.json` names its module and configuration, and takes less than three
minutes with two workers; a proof module takes a few minutes at most.
