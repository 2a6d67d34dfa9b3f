------------------------------ MODULE Resolution ------------------------------
(***************************************************************************)
(* What scripts find by name: a class in the runtime entry object, and a   *)
(* method or a property in the wrapper of a native object.  Both come into *)
(* being by resolve hooks, at the first look.                              *)
(*                                                                         *)
(* The hooks of the entry object refuse every change but those that an     *)
(* XJSInternalOperation of the same JSContext is around for, and all       *)
(* contexts on all threads share the set in which those are counted.  To   *)
(* make the wrapper of a class takes the wrapper of NSObject, and that of  *)
(* an object the one of its class, so hooks run inside hooks.  The         *)
(* contexts here have a runtime each, and a thread each.                   *)
(***************************************************************************)
EXTENDS Naturals, Sequences, SequencesExt

CONSTANTS
  Context,
  Class, NSObject,     \* classes that objc_getClass knows, the root among them
  Unknown,             \* names that it does not know
  Object, ClassOf,     \* native objects, and object_getClass of each
  Property,            \* names that scripts look up in wrappers
  Declared,            \* Declared[k]: those for which class_getProperty of class k has an answer
  Builtin,             \* those that Object.prototype has
  None

Named == Class \cup Unknown

ASSUME ClassAssumption == NSObject \in Class /\ ClassOf \in [Object -> Named]
ASSUME DeclaredAssumption == Declared \in [Named -> SUBSET Property]
ASSUME NoneAssumption ==
  None \notin Named \cup Object /\ Named \cap Object = {} /\ Class \cap Unknown = {}

VARIABLES
  internal,      \* XJSInternalOperation::set, as the count of each JSContext
  entry,         \* entry[c][n]: own property n of the runtime entry object
  resolving,     \* resolving[c]: the names whose resolve hooks run, outermost first
  wanted,        \* wanted[c]: what they run for: the name a script has read, or the object
                 \* that gets a wrapper
  wrapped,       \* wrapped[c]: objects with a wrapper
  methods,       \* methods[c][k]: functions on the prototype of class k
  accessors,     \* accessors[c][x]: own properties of the wrapper of object or class x
  treatPropertyAsMethod

names == <<methods, accessors, treatPropertyAsMethod>>
hooks == <<internal, entry, resolving, wanted, wrapped>>
vars == <<hooks, names>>

Junk == "junk"      \* what a script may try to store

Init ==
  /\ internal = [c \in Context |-> 0]
  /\ entry = [c \in Context |-> [n \in Named |-> None]]
  /\ resolving = [c \in Context |-> <<>>]
  /\ wanted = [c \in Context |-> None]
  /\ wrapped = [c \in Context |-> {}]
  /\ methods = [c \in Context |-> [k \in Named |-> {}]]
  /\ accessors = [c \in Context |-> [x \in Object \cup Class |-> {}]]
  /\ treatPropertyAsMethod = [c \in Context |-> TRUE]

\* One flag for all contexts.
IsInternalAnywhere(c) == \E d \in Context : internal[d] > 0

IsInternalOperation(c) == internal[c] > 0

\* The constructor and the destructor of XJSInternalOperation.
Count(c) == [internal EXCEPT ![c] = @ + 1]
UncountAll(c) == [internal EXCEPT ![c] = 0]      \* a set that does not count
Uncount(c) == [internal EXCEPT ![c] = @ - 1]

\* JS_GetProperty on the entry object: the hook runs when there is no such property, and
\* not again for a name that is being resolved.
GetProperty(c, n) ==
  IF entry[c][n] = None
  THEN resolving' = [resolving EXCEPT ![c] = Append(@, n)] /\ internal' = Count(c)
  ELSE UNCHANGED <<resolving, internal>>

Idle(c) == wanted[c] = None
Top(c) == Last(resolving[c])

\* A script reads a property of the entry object.
Read(c, n) ==
  /\ Idle(c)
  /\ wanted' = [wanted EXCEPT ![c] = n]
  /\ GetProperty(c, n)
  /\ UNCHANGED <<entry, wrapped, names>>

\* XJSGetOrCreateJSObject for an object that has no wrapper.
Wrap(c, o) ==
  /\ Idle(c) /\ o \notin wrapped[c]
  /\ wanted' = [wanted EXCEPT ![c] = o]
  /\ GetProperty(c, ClassOf[o])
  /\ UNCHANGED <<entry, wrapped, names>>

\* The hook for a name that is no class does nothing.
ResolveNothing(c) ==
  /\ resolving[c] # <<>> /\ Top(c) \notin Class
  /\ resolving' = [resolving EXCEPT ![c] = Front(@)]
  /\ internal' = Uncount(c)
  /\ UNCHANGED <<entry, wanted, wrapped, names>>

\* XJSCreateJSObject for a class looks for its constructor: NSObject.
ResolveConstructor(c) ==
  /\ resolving[c] # <<>> /\ Top(c) \in Class \ {NSObject}
  /\ entry[c][NSObject] = None
  /\ GetProperty(c, NSObject)
  /\ UNCHANGED <<entry, wanted, wrapped, names>>

\* The wrapper of the class is made, the one of NSObject with its prototype, and set in
\* the entry object; if that is refused the reads below fail.
ResolveClass(c) ==
  /\ resolving[c] # <<>> /\ Top(c) \in Class
  /\ Top(c) = NSObject \/ entry[c][NSObject] # None
  /\ entry' = IF IsInternalOperation(c) THEN [entry EXCEPT ![c][Top(c)] = Top(c)] ELSE entry
  /\ resolving' = [resolving EXCEPT ![c] = IF IsInternalOperation(c) THEN Front(@) ELSE <<>>]
  /\ internal' = Uncount(c)
  /\ UNCHANGED <<wanted, wrapped, names>>

\* The read is done.
Answer(c) ==
  /\ wanted[c] \in Named /\ resolving[c] = <<>>
  /\ wanted' = [wanted EXCEPT ![c] = None]
  /\ UNCHANGED <<internal, entry, resolving, wrapped, names>>

\* The wrapper of an object gets the prototype of its class; "unable to get constructor
\* object" is an NSException.
SetPrototype(c) ==
  /\ wanted[c] \in Object /\ resolving[c] = <<>>
  /\ wrapped' = IF entry[c][ClassOf[wanted[c]]] # None
                 THEN [wrapped EXCEPT ![c] = @ \cup {wanted[c]}] ELSE wrapped
  /\ wanted' = [wanted EXCEPT ![c] = None]
  /\ UNCHANGED <<internal, entry, resolving, names>>

\* A script writes or deletes a property of the entry object.  A write is refused without
\* an exception, so the script ends; a delete does nothing.
Write(c, n) ==
  /\ Idle(c)
  /\ entry' = IF IsInternalOperation(c) THEN [entry EXCEPT ![c][n] = Junk] ELSE entry
  /\ UNCHANGED <<internal, resolving, wanted, wrapped, names>>

Delete(c, n) ==
  /\ Idle(c)
  /\ entry' = IF IsInternalOperation(c) THEN [entry EXCEPT ![c][n] = None] ELSE entry
  /\ UNCHANGED <<internal, resolving, wanted, wrapped, names>>
-----------------------------------------------------------------------------
\* Names in wrappers: x is an object or, for methods of the class, a class.

IsWrapped(c, x) == x \in wrapped[c] \/ (x \in Class /\ entry[c][x] = x)

\* The prototype is that of the class; all classes, NSObject too, have the one of NSObject.
PrototypeClass(x) == IF x \in Object THEN ClassOf[x] ELSE NSObject
\* -[NSObject class] of a class is that class: it is taken to have what its objects have.
Properties(x) == Declared[IF x \in Object THEN ClassOf[x] ELSE x]

\* A hook that does not ask whether the prototype has the name.
ResolveNameAgain(c, x, p) ==
  LET accessor == ~treatPropertyAsMethod[c] /\ p \in Properties(x) IN
    /\ Idle(c) /\ IsWrapped(c, x)
    /\ p \notin accessors[c][x]
    /\ accessors' = IF accessor THEN [accessors EXCEPT ![c][x] = @ \cup {p}] ELSE accessors
    /\ methods' = IF accessor THEN methods
                  ELSE [methods EXCEPT ![c][PrototypeClass(x)] = @ \cup {p}]
    /\ UNCHANGED <<hooks, treatPropertyAsMethod>>

\* The resolve hook of wrappers runs for a name that is no own property of the wrapper.
\* What the prototype has stays; else a property of the native object becomes an own
\* accessor, and any other name a method that all objects with the prototype get.
ResolveName(c, x, p) ==
  LET k == PrototypeClass(x) IN
    /\ Idle(c) /\ IsWrapped(c, x)
    /\ p \notin methods[c][k] \cup Builtin
    /\ p \notin accessors[c][x]
    /\ IF ~treatPropertyAsMethod[c] /\ p \in Properties(x)
       THEN accessors' = [accessors EXCEPT ![c][x] = @ \cup {p}] /\ UNCHANGED methods
       ELSE methods' = [methods EXCEPT ![c][k] = @ \cup {p}] /\ UNCHANGED accessors
    /\ UNCHANGED <<hooks, treatPropertyAsMethod>>

SetTreatPropertyAsMethod(c, b) ==
  /\ treatPropertyAsMethod' = [treatPropertyAsMethod EXCEPT ![c] = b]
  /\ UNCHANGED <<hooks, methods, accessors>>

Step(c) ==
  \/ \E n \in Named : Read(c, n) \/ Write(c, n) \/ Delete(c, n)
  \/ \E o \in Object : Wrap(c, o)
  \/ ResolveNothing(c) \/ ResolveConstructor(c) \/ ResolveClass(c)
  \/ Answer(c) \/ SetPrototype(c)
  \/ \E x \in Object \cup Class, p \in Property : ResolveName(c, x, p)
  \/ \E b \in BOOLEAN : SetTreatPropertyAsMethod(c, b)

Next == \E c \in Context : Step(c)
Spec == Init /\ [][Next]_vars
-----------------------------------------------------------------------------
HooksTypeOK ==
  /\ internal \in [Context -> Nat]
  /\ entry \in [Context -> [Named -> Named \cup {None, Junk}]]
  /\ resolving \in [Context -> Seq(Named)]
  /\ wanted \in [Context -> Named \cup Object \cup {None}]
  /\ wrapped \in [Context -> SUBSET Object]

NamesTypeOK ==
  /\ methods \in [Context -> [Named -> SUBSET Property]]
  /\ accessors \in [Context -> [Object \cup Class -> SUBSET Property]]
  /\ treatPropertyAsMethod \in [Context -> BOOLEAN]

TypeOK == HooksTypeOK /\ NamesTypeOK

\* The entry object holds nothing but the wrappers of classes, each under its own name:
\* no script can put anything else there, whatever the hooks of its own context or of
\* another thread's are doing (XJSPropertyImpl, XJSSetPropertyImpl, XJSInternalOperation).
EntryHoldsItsClasses ==
  \A c \in Context, n \in Named : entry[c][n] \in {None} \cup ({n} \cap Class)

\* When the hooks that a look at a class has set off are done, the class is there: a
\* script that reads its name gets it, and an object gets the prototype of its class; also
\* when the look took NSObject first, so that the end of the inner hook is not the end of
\* the internal operation of the outer one (XJSResolveImpl, XJSCreateJSObject).
LooksFindTheClass ==
  \A c \in Context :
    LET n == IF wanted[c] \in Object THEN ClassOf[wanted[c]] ELSE wanted[c] IN
      resolving[c] = <<>> /\ n \in Class => entry[c][n] = n

\* What script code gets for a name of a wrapper: the prototype answers after the object.
Kind(c, x, p) ==
  CASE p \in accessors[c][x]                 -> "accessor"
    [] p \in methods[c][PrototypeClass(x)]    -> "method"
    [] OTHER                                   -> "unresolved"

\* A name of a wrapped object that has once been found as a method never becomes a
\* property, nor the reverse, although treatPropertyAsMethod changes between looks and
\* other objects of the class, or the class itself, put names on the same prototype
\* (the resolve hook of wrappers).
NamesKeepTheirKind ==
  [][\A c \in Context, x \in Object \cup Class, p \in Property :
       Kind(c, x, p) # "unresolved" => Kind(c, x, p)' = Kind(c, x, p)]_vars
=============================================================================
