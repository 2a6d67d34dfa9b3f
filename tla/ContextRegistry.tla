---------------------------- MODULE ContextRegistry ----------------------------
(***************************************************************************)
(* The life of XJSContext objects and contextDict, the static table that   *)
(* takes a JSContext pointer back to its XJSContext.  Every callback from  *)
(* SpiderMonkey (error reports, require, property hooks of bridged         *)
(* objects) starts with a look-up in that table.                           *)
(*                                                                         *)
(* -initWithRuntime: and -dealloc each take the runtime's lock and the     *)
(* table's lock one after the other, so they are several steps, and steps  *)
(* of different contexts interleave when they run on different threads.    *)
(* The address of a destroyed JSContext may be given to the next one.      *)
(***************************************************************************)
EXTENDS FiniteSets

CONSTANTS
  Context,     \* XJSContext objects, each of which lives once
  Address,     \* where the allocator may put a JSContext
  None         \* no pointer, no entry

ASSUME NoneAssumption == None \notin Context \cup Address

VARIABLES
  phase,        \* how far the init or the dealloc of each object has come
  context,      \* context[c]: _context, the JSContext pointer
  contextDict,  \* contextDict[a]: the object whose weak reference is stored
  reused        \* history: objects created at an address whose key was still to be removed

vars == <<phase, context, contextDict, reused>>

(* "unborn"     no object yet                                              *)
(* "created"    JS_NewContext has returned                                 *)
(* "registered" entered in contextDict                                     *)
(* "ready"      has its global object: init has returned                   *)
(* "dying"      last strong reference dropped: weak references read nil    *)
(* "destroyed"  JS_DestroyContext has returned                             *)
(* "gone"       key removed, deallocated                                   *)
Phase == {"unborn", "created", "registered", "ready", "dying", "destroyed", "gone"}

\* A strong reference can still be made from a weak one.
Alive(c) == phase[c] \in {"created", "registered", "ready"}

\* c's JSContext exists.
Owns(c, a) == context[c] = a /\ phase[c] \in {"created", "registered", "ready", "dying"}

Init ==
  /\ phase = [c \in Context |-> "unborn"]
  /\ context = [c \in Context |-> None]
  /\ contextDict = [a \in Address |-> None]
  /\ reused = {}

NewContext(c, a) ==
  /\ phase[c] = "unborn"
  /\ \A d \in Context : ~Owns(d, a)
  /\ phase' = [phase EXCEPT ![c] = "created"]
  /\ context' = [context EXCEPT ![c] = a]
  /\ reused' = IF \E d \in Context : phase[d] = "destroyed" /\ context[d] = a
               THEN reused \cup {c} ELSE reused
  /\ UNCHANGED contextDict

Register(c) ==
  /\ phase[c] = "created"
  /\ phase' = [phase EXCEPT ![c] = "registered"]
  /\ contextDict' = [contextDict EXCEPT ![context[c]] = c]
  /\ UNCHANGED <<context, reused>>

NewGlobal(c) ==
  /\ phase[c] = "registered"
  /\ phase' = [phase EXCEPT ![c] = "ready"]
  /\ UNCHANGED <<context, contextDict, reused>>

\* The owner, or whoever got the object from a look-up, drops the last reference.
Release(c) ==
  /\ phase[c] = "ready"
  /\ phase' = [phase EXCEPT ![c] = "dying"]
  /\ UNCHANGED <<context, contextDict, reused>>

DestroyContext(c) ==
  /\ phase[c] = "dying"
  /\ phase' = [phase EXCEPT ![c] = "destroyed"]
  /\ UNCHANGED <<context, contextDict, reused>>

RemoveKey(c) ==
  /\ phase[c] = "destroyed"
  /\ phase' = [phase EXCEPT ![c] = "gone"]
  /\ contextDict' = [contextDict EXCEPT ![context[c]] = None]
  /\ UNCHANGED <<context, reused>>

\* A table of plain pointers instead of weak references.
FoundDeadOrAlive(a) == contextDict[a]

\* +contextForJSContext: returns this, and removes a key whose object is gone.
Found(a) ==
  IF contextDict[a] # None /\ Alive(contextDict[a]) THEN contextDict[a] ELSE None

\* A look-up that removes the key whatever it finds.
ContextForJSContextOnce(a) ==
  /\ contextDict' = [contextDict EXCEPT ![a] = None]
  /\ UNCHANGED <<phase, context, reused>>

ContextForJSContext(a) ==
  /\ contextDict' = [contextDict EXCEPT ![a] = Found(a)]
  /\ UNCHANGED <<phase, context, reused>>

Step(c) ==
  \/ \E a \in Address : NewContext(c, a)
  \/ Register(c)
  \/ NewGlobal(c)
  \/ Release(c)
  \/ DestroyContext(c)
  \/ RemoveKey(c)

Lookup == \E a \in Address : ContextForJSContext(a)

Next == Lookup \/ \E c \in Context : Step(c)
Spec == Init /\ [][Next]_vars
-----------------------------------------------------------------------------
TypeOK ==
  /\ phase \in [Context -> Phase]
  /\ context \in [Context -> Address \cup {None}]
  /\ contextDict \in [Address -> Context \cup {None}]
  /\ reused \subseteq Context
  /\ \A c \in Context : phase[c] # "unborn" => context[c] \in Address

\* A look-up by the pointer of an existing JSContext never finds another object,
\* whatever happens to the address before and after: an error is not reported to,
\* and a script does not call into, a stranger.
NeverAnother ==
  \A c \in Context, a \in Address : Owns(c, a) => Found(a) \in {c, None}

\* A JSContext has one owner, and the entry of an object that has gone is removed:
\* no block is left in the table, not even when the address was reused meanwhile.
NoEntryOfTheGone ==
  /\ \A a \in Address : contextDict[a] # None =>
       phase[contextDict[a]] # "gone" /\ context[contextDict[a]] = a
  /\ \A c, d \in Context, a \in Address : Owns(c, a) /\ Owns(d, a) => c = d

\* Reuse of an address between JS_DestroyContext and the removal of the key is all
\* that can hide a context: every other one is found from the end of its init to the
\* start of its dealloc, whatever other contexts, on whatever threads, come and go.
OthersAreFound ==
  \A c \in Context \ reused : phase[c] = "ready" => Found(context[c]) = c
=============================================================================
