-------------------------------- MODULE Sharing --------------------------------
(***************************************************************************)
(* Threads that share contexts: the locks they take, in which order, and   *)
(* the references that keep a context alive.                               *)
(*                                                                         *)
(* A method of the binding is a sequence of @synchronized blocks, on the   *)
(* runtime of its context, on contextDict, on globalModules or on the      *)
(* dictionary of a native object.  Inside the lock of a runtime a script   *)
(* runs, and native code it calls may do anything again; or the collector  *)
(* runs, and the finalizers release natives and what belongs to them.      *)
(* Whoever drops the last reference to a context runs its dealloc, there   *)
(* and then, whatever locks it holds.                                      *)
(*                                                                         *)
(* The steps inside the blocks are those of ContextRegistry.               *)
(***************************************************************************)
EXTENDS ContextRegistry, Naturals, Sequences, SequencesExt

CONSTANTS
  Thread,      \* threads of the program
  Runtime,     \* XJSRuntime objects
  RuntimeOf,   \* the runtime of each context
  ModuleId,    \* ids of global modules
  Native,      \* native objects that scripts see, and the dictionary of each
  Block,       \* a module that is provided as a block or a script
  MaxNest      \* bound: blocks inside each other on one thread

ASSUME RuntimeAssumption == RuntimeOf \in [Context -> Runtime]
ASSUME LockAssumption ==
  /\ {"contextDict", "globalModules"} \cap (Runtime \cup Native) = {}
  /\ Runtime \cap Native = {}
ASSUME BlockAssumption == Block \notin Context \cup {None}
ASSUME MaxNestAssumption == MaxNest \in Nat

VARIABLES
  stack,       \* stack[t]: the methods in progress on thread t, outermost first
  program,     \* contexts that somebody in the program refers to, or to a value of theirs
  kept,        \* contexts whose module manager has a value among its modules
  global,      \* globalModules
  refs,        \* refs[n]: the contexts of the weak references in the dictionary of n
  crosses,     \* the program uses, or releases, objects of one runtime inside the lock of another
  overlapped,  \* history: ids that two threads have provided at the same time
  spread       \* history: natives that scripts of two runtimes have seen

own == <<stack, program, kept, global, refs, crosses, overlapped, spread>>
sharingVars == <<vars, own>>

Op == {"init", "dealloc", "use", "find", "all", "release", "provide", "provided",
       "wrap", "wrapped", "unroot"}

\* A method in progress: before a block it waits, then it is inside.
Frame == [op : Op, c : Context \cup {Block, None}, m : ModuleId \cup Native \cup {None},
          section : 1..3, inside : BOOLEAN]
Method(op, c, m) == [op |-> op, c |-> c, m |-> m, section |-> 1, inside |-> FALSE]

\* The locks of its @synchronized blocks, one after the other.
Sections(f) ==
  CASE f.op = "init"                    -> <<RuntimeOf[f.c], "contextDict", RuntimeOf[f.c]>>
    [] f.op = "dealloc"                 -> <<RuntimeOf[f.c], "contextDict">>
    [] f.op \in {"use", "release", "unroot"} -> <<RuntimeOf[f.c]>>
    [] f.op \in {"find", "all"}         -> <<"contextDict">>
    [] f.op \in {"provide", "provided"} -> <<"globalModules">>
    [] f.op \in {"wrap", "wrapped"}     -> <<f.m>>
Lock(f) == Sections(f)[f.section]

HeldBy(f) == IF f.inside THEN {Lock(f)} ELSE {}

Methods(t) == {stack[t][i] : i \in DOMAIN stack[t]}
Held(t) == UNION {HeldBy(f) : f \in Methods(t)}
Top(t) == Last(stack[t])
Waits(t) == stack[t] # <<>> /\ ~Top(t).inside
Within(t, op) == stack[t] # <<>> /\ Top(t).op = op /\ Top(t).inside

\* References to a context: of the program, of the modules of its own manager and of
\* global modules, and those of the methods in progress.
Refers(f, c) == f.c = c /\ f.op \in {"init", "use", "release", "provide", "unroot"}
Owned(c) ==
  \/ c \in program \cup kept
  \/ \E t \in Thread : \E f \in Methods(t) : Refers(f, c)
  \/ \E m \in ModuleId : global[m] = c

SharingInit ==
  /\ Init
  /\ stack = [t \in Thread |-> <<>>]
  /\ program = {} /\ kept = {}
  /\ global = [m \in ModuleId |-> None]
  /\ refs = [n \in Native |-> {}]
  /\ crosses \in BOOLEAN
  /\ overlapped = {} /\ spread = {}

Pushed(t, f) == [stack EXCEPT ![t] = Append(@, f)]
Popped(t) == [stack EXCEPT ![t] = Front(@)]
Replaced(t, f) == [stack EXCEPT ![t] = Append(Front(@), f)]

\* @synchronized: the lock is recursive.
Enter(t) ==
  /\ Waits(t)
  /\ \A u \in Thread \ {t} : Lock(Top(t)) \notin Held(u)
  /\ stack' = Replaced(t, [Top(t) EXCEPT !.inside = TRUE])
  /\ UNCHANGED <<vars, program, kept, global, refs, crosses, overlapped, spread>>

\* The end of a block: on to the next one.
Leave(t) ==
  stack' = IF Top(t).section = Len(Sections(Top(t))) THEN Popped(t)
           ELSE Replaced(t, [Top(t) EXCEPT !.section = @ + 1, !.inside = FALSE])

\* Code of the program runs: outside of any method or in one called by a script.
Runs(t) == (stack[t] = <<>> \/ Within(t, "use")) /\ Len(stack[t]) < MaxNest

\* The collector may run: in a use, in JS_NewGlobalObject and in JS_DestroyContext.
Collects(t) ==
  \/ Within(t, "use")
  \/ Within(t, "init") /\ Top(t).section = 3
  \/ Within(t, "dealloc") /\ Top(t).section = 1

\* Something is released, by the program or by a finalizer.
Releases(t) == (stack[t] = <<>> \/ Collects(t)) /\ Len(stack[t]) < MaxNest

\* A program that does not cross stays in the runtime it is in.
Stays(t, c) == stack[t] # <<>> /\ ~crosses => RuntimeOf[Top(t).c] = RuntimeOf[c]
-----------------------------------------------------------------------------
\* Life of a context.

StartInit(t, c) ==
  /\ Runs(t) /\ Stays(t, c)
  /\ phase[c] = "unborn" /\ ~Owned(c)
  /\ stack' = Pushed(t, Method("init", c, None))
  /\ UNCHANGED <<vars, program, kept, global, refs, crosses, overlapped, spread>>

InitBlock(t) ==
  /\ Within(t, "init")
  /\ LET f == Top(t) IN
       /\ CASE f.section = 1 -> \E a \in Address : NewContext(f.c, a)
            [] f.section = 2 -> Register(f.c)
            [] f.section = 3 -> NewGlobal(f.c)
       /\ program' = IF f.section = 3 THEN program \cup {f.c} ELSE program
  /\ Leave(t)
  /\ UNCHANGED <<kept, global, refs, crosses, overlapped, spread>>

\* The stack goes on as given, or with the dealloc of a context that has lost its last
\* reference.
Goes(t, c, next) ==
  \/ stack' = next /\ Owned(c)' /\ UNCHANGED vars
  \/ /\ stack' = [next EXCEPT ![t] = Append(@, Method("dealloc", c, None))]
     /\ ~Owned(c)' /\ Release(c)

\* The last reference of the program to the context itself is dropped.
DropContext(t, c) ==
  /\ Releases(t) /\ Stays(t, c)
  /\ c \in program /\ program' = program \ {c}
  /\ UNCHANGED <<kept, global, refs, crosses, overlapped, spread>>
  /\ Goes(t, c, stack)

\* A reference to a value of it: -[XJSValue dealloc] takes the lock of the runtime.
ReleaseValue(t, c) ==
  /\ Releases(t) /\ Stays(t, c)
  /\ c \in program /\ program' = program \ {c}
  /\ stack' = Pushed(t, Method("release", c, None))
  /\ UNCHANGED <<vars, kept, global, refs, crosses, overlapped, spread>>

ReleaseBlock(t) ==
  /\ Within(t, "release")
  /\ UNCHANGED <<program, kept, global, refs, crosses, overlapped, spread>>
  /\ \E c \in Context : c = Top(t).c /\ Goes(t, c, Popped(t))

DeallocBlock(t) ==
  /\ Within(t, "dealloc")
  /\ IF Top(t).section = 1 THEN DestroyContext(Top(t).c) ELSE RemoveKey(Top(t).c)
  /\ Leave(t)
  /\ UNCHANGED <<program, kept, global, refs, crosses, overlapped, spread>>
-----------------------------------------------------------------------------
\* Use of a context.

\* An evaluation, a block of the runtime or a method of a value.
StartUse(t, c) ==
  /\ Runs(t) /\ Stays(t, c) /\ c \in program
  /\ stack' = Pushed(t, Method("use", c, None))
  /\ UNCHANGED <<vars, program, kept, global, refs, crosses, overlapped, spread>>

UseBlock(t) ==
  /\ Within(t, "use")
  /\ Leave(t)
  /\ UNCHANGED <<vars, program, kept, global, refs, crosses, overlapped, spread>>

\* A callback from SpiderMonkey looks its context up by the JSContext that runs.
StartFind(t) ==
  /\ Runs(t) /\ stack[t] # <<>>
  /\ stack' = Pushed(t, Method("find", Top(t).c, None))
  /\ UNCHANGED <<vars, program, kept, global, refs, crosses, overlapped, spread>>

FindBlock(t) ==
  /\ Within(t, "find")
  /\ LET a == context[Top(t).c] IN
       /\ ContextForJSContext(a)
       /\ program' = program \cup ({Found(a)} \ {None})
  /\ Leave(t)
  /\ UNCHANGED <<kept, global, refs, crosses, overlapped, spread>>

StartAll(t) ==
  /\ Runs(t)
  /\ stack' = Pushed(t, Method("all", None, None))
  /\ UNCHANGED <<vars, program, kept, global, refs, crosses, overlapped, spread>>

\* A walk over the table that takes the objects as they are.
AllBlockUnchecked(t) ==
  /\ Within(t, "all")
  /\ program' = program \cup ({contextDict[a] : a \in Address} \ {None})
  /\ Leave(t)
  /\ UNCHANGED <<vars, kept, global, refs, crosses, overlapped, spread>>

\* +allContexts: among them contexts whose init has not returned.
AllBlock(t) ==
  /\ Within(t, "all")
  /\ program' = program \cup ({Found(a) : a \in Address} \ {None})
  /\ Leave(t)
  /\ UNCHANGED <<vars, kept, global, refs, crosses, overlapped, spread>>
-----------------------------------------------------------------------------
\* Modules.

\* A module of the context is loaded, or a value is provided to its manager.
Keep(t) ==
  /\ Within(t, "use")
  /\ kept' = kept \cup {Top(t).c}
  /\ UNCHANGED <<vars, stack, program, global, refs, crosses, overlapped, spread>>

\* -reloadAll, when nothing was provided to the manager.
ReloadAll(t) ==
  /\ Within(t, "use")
  /\ kept' = kept \ {Top(t).c}
  /\ UNCHANGED <<vars, stack, program, global, refs, crosses, overlapped, spread>>

Providing(m) == {t \in Thread : \E f \in Methods(t) : f.op = "provide" /\ f.m = m}

\* A provide that does not ask whether the module exists.
StartProvideAgain(t, m, v) ==
  /\ Runs(t)
  /\ v \in program \cup {Block}
  /\ stack' = Pushed(t, Method("provide", v, m))
  /\ overlapped' = IF Providing(m) = {} THEN overlapped ELSE overlapped \cup {m}
  /\ UNCHANGED <<vars, program, kept, global, refs, crosses, spread>>

\* +provideValue:forModuleId: and the others: "module already exists" is asked first.
StartProvide(t, m, v) ==
  /\ Runs(t)
  /\ v \in program \cup {Block}
  /\ global[m] = None
  /\ stack' = Pushed(t, Method("provide", v, m))
  /\ overlapped' = IF Providing(m) = {} THEN overlapped ELSE overlapped \cup {m}
  /\ UNCHANGED <<vars, program, kept, global, refs, crosses, spread>>

\* What was there is released inside the lock.
Store(t) ==
  /\ Within(t, "provide")
  /\ LET f == Top(t)
         old == global[f.m]
         done == Replaced(t, [f EXCEPT !.op = "provided"]) IN
       /\ global' = [global EXCEPT ![f.m] = f.c]
       /\ stack' = IF old \in Context
                   THEN [done EXCEPT ![t] = Append(@, Method("release", old, None))]
                   ELSE done
  /\ UNCHANGED <<vars, program, kept, refs, crosses, overlapped, spread>>

ProvidedBlock(t) ==
  /\ Within(t, "provided")
  /\ Leave(t)
  /\ UNCHANGED <<vars, program, kept, global, refs, crosses, overlapped, spread>>
-----------------------------------------------------------------------------
\* Natives that scripts see.

\* XJSGetOrCreateJSObject looks into the dictionary of the native, or stores into it.
StartWrap(t, n) ==
  /\ Within(t, "use") /\ Runs(t)
  /\ stack' = Pushed(t, Method("wrap", Top(t).c, n))
  /\ UNCHANGED <<vars, program, kept, global, refs, crosses, overlapped, spread>>

\* The weak references in the dictionary of n that are for the runtime of c.
Same(n, c) == {d \in refs[n] : RuntimeOf[d] = RuntimeOf[c]}

\* The value of the weak reference that is found refers to its context.
LookBlock(t) ==
  /\ Within(t, "wrap")
  /\ program' = program \cup {d \in Same(Top(t).m, Top(t).c) : Alive(d)}
  /\ Leave(t)
  /\ UNCHANGED <<vars, kept, global, refs, crosses, overlapped, spread>>

\* What was there is released inside the lock of the dictionary.
StoreBlock(t) ==
  /\ Within(t, "wrap")
  /\ LET f == Top(t)
         old == Same(f.m, f.c)
         done == Replaced(t, [f EXCEPT !.op = "wrapped"]) IN
       /\ refs' = [refs EXCEPT ![f.m] = (@ \ old) \cup {f.c}]
       /\ spread' = IF refs[f.m] = old THEN spread ELSE spread \cup {f.m}
       /\ \/ (\A d \in old : ~Alive(d)) /\ Leave(t)
          \/ \E d \in old : /\ Alive(d)
                            /\ stack' = [done EXCEPT ![t] = Append(@, Method("unroot", d, None))]
  /\ UNCHANGED <<vars, program, kept, global, crosses, overlapped>>

WrappedBlock(t) ==
  /\ Within(t, "wrapped")
  /\ Leave(t)
  /\ UNCHANGED <<vars, program, kept, global, refs, crosses, overlapped, spread>>

\* A native goes, by its last release or by the finalizer of a wrapper, and takes its
\* weak references along, this one among them; one whose context is left holds the
\* context while it removes its root.
FreeReference(t, n, c) ==
  /\ Releases(t)
  /\ Stays(t, c) \/ n \in spread
  /\ c \in refs[n] /\ refs' = [refs EXCEPT ![n] = @ \ {c}]
  /\ stack' = IF Alive(c) THEN Pushed(t, Method("unroot", c, None)) ELSE stack
  /\ UNCHANGED <<vars, program, kept, global, crosses, overlapped, spread>>

UnrootBlock(t) ==
  /\ Within(t, "unroot")
  /\ UNCHANGED <<program, kept, global, refs, crosses, overlapped, spread>>
  /\ \E c \in Context : c = Top(t).c /\ Goes(t, c, Popped(t))
-----------------------------------------------------------------------------
\* What the program starts, and what goes on by itself once started.
Start(t) ==
  \/ \E c \in Context :
       StartInit(t, c) \/ DropContext(t, c) \/ ReleaseValue(t, c) \/ StartUse(t, c)
  \/ StartFind(t) \/ StartAll(t)
  \/ Keep(t) \/ ReloadAll(t)
  \/ \E m \in ModuleId, v \in Context \cup {Block} : StartProvide(t, m, v)
  \/ \E n \in Native : StartWrap(t, n) \/ \E c \in Context : FreeReference(t, n, c)

EndBlock(t) ==
  \/ InitBlock(t) \/ ReleaseBlock(t) \/ DeallocBlock(t)
  \/ FindBlock(t) \/ AllBlock(t)
  \/ Store(t) \/ ProvidedBlock(t)
  \/ LookBlock(t) \/ StoreBlock(t) \/ WrappedBlock(t) \/ UnrootBlock(t)
  \/ UseBlock(t)

SharingNext == \E t \in Thread : Start(t) \/ Enter(t) \/ EndBlock(t)

SharingSpec == SharingInit /\ [][SharingNext]_sharingVars
-----------------------------------------------------------------------------
SharingTypeOK ==
  /\ TypeOK
  /\ stack \in [Thread -> Seq(Frame)]
  /\ program \subseteq Context /\ kept \subseteq Context
  /\ global \in [ModuleId -> Context \cup {Block, None}]
  /\ refs \in [Native -> SUBSET Context]
  /\ crosses \in BOOLEAN
  /\ overlapped \subseteq ModuleId /\ spread \subseteq Native

\* No reference of any kind is to a context whose dealloc has begun: not one that
\* +allContexts or a callback has got out of the table while another thread dropped the
\* last one, nor one of a module.  So a context whose manager keeps a module, which refers
\* to its context again, is not deallocated.
OwnedContextsLive ==
  \A c \in Context : Owned(c) => phase[c] \in {"unborn", "created", "registered", "ready"}

\* t waits for a lock that u holds.
Blocks(u, t) == u # t /\ Waits(t) /\ Lock(Top(t)) \in Held(u)
Circle(S) == S # {} /\ \A t \in S : \E u \in S : Blocks(u, t)

\* t waits for the lock of a runtime, and has that of another.
Crosses(t) == Lock(Top(t)) \in Runtime /\ \E r \in Runtime \ {Lock(Top(t))} : r \in Held(t)

\* t waits for the lock of a runtime, to release the module that it replaces.
Replaces(t) == Lock(Top(t)) \in Runtime /\ "globalModules" \in Held(t)

\* t waits for the lock of a runtime, in a finalizer of another one.
Finalizes(t) == Crosses(t) /\ Top(t).op \in {"unroot", "release", "dealloc"}

\* Threads wait for each other in a circle only if one of them goes from the lock of one
\* runtime to that of another, because the program does or because the collector of the
\* one frees a native that scripts of both have seen; or if one releases a global module
\* that two threads have provided at the same time.  The lock of the table, which every
\* callback takes inside the lock of a runtime and which init and dealloc take, too, and
\* the locks of the dictionaries are never the cause.
CirclesCross ==
  \A S \in SUBSET Thread : Circle(S) =>
    \/ crosses /\ \E t \in S : Crosses(t)
    \/ spread # {} /\ \E t \in S : Finalizes(t)
    \/ overlapped # {} /\ \E t \in S : Replaces(t)

\* "module already exists": a global module is not replaced, unless two threads have
\* provided it at the same time and passed the check both.
ReplacedOnlyInARace ==
  [][\A m \in ModuleId : global[m] \notin {None, global'[m]} => m \in overlapped]_sharingVars
=============================================================================
