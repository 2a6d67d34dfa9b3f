-------------------------------- MODULE WeakRef --------------------------------
(***************************************************************************)
(* XJSValueWeakRef: a native object that refers weakly to a JS object.     *)
(*                                                                         *)
(* SpiderMonkey has no weak pointers for native code, so the class keeps   *)
(* the object as the only key of a JS WeakMap, and roots the map by the    *)
(* address of its own instance variable (`&_map`).  That address stays in  *)
(* the root table of a runtime until -setValue: removes it, which needs    *)
(* the context the map was made in, to which the class has a weak          *)
(* reference only.  The model is one such object with the contexts,        *)
(* runtimes, XJSValues and the garbage collector around it.                *)
(***************************************************************************)
EXTENDS Naturals, Sequences, Runtimes

CONSTANTS
  Object,      \* JS objects
  HeapOf,      \* the runtime of each object
  Primitive,   \* stands for any JS value that is not an object
  MaxMaps      \* bound: WeakMaps made in a behaviour

ASSUME HeapAssumption == HeapOf \in [Object -> Runtime]
ASSUME ContentAssumption ==
  /\ None \notin Object \cup {Primitive} \cup Nat \cup (Context \X (Object \cup {Primitive}))
  /\ Primitive \notin Object
ASSUME MaxMapsAssumption == MaxMaps \in Nat

VARIABLES
  scripts,    \* objects that scripts refer to
  collected,  \* objects the collector has freed
  handles,    \* XJSValues that exist, each as <<its context, its content>>
  exists,     \* the weak reference exists
  value,      \* _value, which reads nil when the XJSValue has gone
  context,    \* _context; Cx is what it reads
  map,        \* _map: a pointer, which nothing clears
  maps,       \* the WeakMaps made so far: their runtime and their one key
  freed,      \* those the collector has freed
  roots,      \* runtimes with &_map in their root table
  target,     \* history: what the weak reference was last set to
  abandoned   \* history: the context has died before the reference was set again

refVars == <<alive, scripts, collected, handles, exists, value, context, map, maps,
             freed, roots, target, abandoned>>

world == <<alive, scripts, collected, handles, freed>>      \* not the weak reference
self  == <<exists, value, context, map, maps, roots, target, abandoned>>

Content == Object \cup {Primitive}
Handle  == Context \X Content

RefInit ==
  /\ alive = Context
  /\ scripts = Object
  /\ collected = {} /\ freed = {}
  /\ handles = {}
  /\ exists = TRUE
  /\ value = None /\ context = None /\ map = None
  /\ maps = <<>>
  /\ roots = {}
  /\ target = None
  /\ abandoned = FALSE

Cx == IF context \in alive THEN context ELSE None
Reachable == scripts \cup {h[2] : h \in handles}

\* What -value answers; "garbage" when it looks into a map that was freed.
Get ==
  IF value # None THEN value[2]
  ELSE IF map = None \/ Cx = None THEN None
  ELSE IF map \in freed THEN "garbage"
  ELSE IF maps[map].key \in collected THEN None
  ELSE maps[map].key

\* The getter makes a new XJSValue unless there is one still.
GetValue ==
  /\ exists /\ Get \in Object
  /\ value = None => handles' = handles \cup {<<Cx, Get>>}
  /\ value # None => UNCHANGED handles
  /\ UNCHANGED <<alive, scripts, collected, freed, self>>

\* The part of -setValue: that takes the old map out of the root table.
RootsWithoutOld == IF Cx # None /\ map # None THEN roots \ {RuntimeOf[Cx]} ELSE roots

\* A set that makes the new map and does not root it.
SetValueToObjectUnrooted(h) ==
  /\ exists /\ h[2] \in Object
  /\ Len(maps) < MaxMaps
  /\ value' = h /\ context' = h[1]
  /\ maps' = Append(maps, [runtime |-> RuntimeOf[h[1]], key |-> h[2]])
  /\ map' = Len(maps)'
  /\ roots' = RootsWithoutOld
  /\ target' = h[2]
  /\ UNCHANGED <<world, exists, abandoned>>

SetValueToObject(h) ==
  /\ exists /\ h[2] \in Object
  /\ Len(maps) < MaxMaps
  /\ value' = h /\ context' = h[1]
  /\ maps' = Append(maps, [runtime |-> RuntimeOf[h[1]], key |-> h[2]])
  /\ map' = Len(maps)'
  /\ roots' = RootsWithoutOld \cup {RuntimeOf[h[1]]}
  /\ target' = h[2]
  /\ UNCHANGED <<world, exists, abandoned>>

\* With a primitive value the method returns early: no map is made, and _map stays.
SetValueToPrimitive(h) ==
  /\ exists /\ h[2] = Primitive
  /\ value' = h /\ context' = h[1]
  /\ roots' = RootsWithoutOld
  /\ target' = Primitive
  /\ UNCHANGED <<world, exists, map, maps, abandoned>>

SetValueToNil ==
  /\ exists
  /\ value' = None /\ context' = None
  /\ roots' = RootsWithoutOld
  /\ target' = None
  /\ UNCHANGED <<world, exists, map, maps, abandoned>>

\* A dealloc that leaves the map rooted.
DeallocRooted ==
  /\ exists /\ exists' = FALSE
  /\ value' = None /\ context' = None
  /\ target' = None
  /\ UNCHANGED <<world, map, maps, roots, abandoned>>

\* self.value = nil, then the memory that &_map points to is gone.
Dealloc ==
  /\ exists /\ exists' = FALSE
  /\ value' = None /\ context' = None
  /\ roots' = RootsWithoutOld
  /\ target' = None
  /\ UNCHANGED <<world, map, maps, abandoned>>
-----------------------------------------------------------------------------
\* The rest of the program.

NewValue(c, content) ==
  /\ c \in alive
  /\ content # Primitive => content \in Reachable /\ HeapOf[content] = RuntimeOf[c]
  /\ handles' = handles \cup {<<c, content>>}
  /\ UNCHANGED <<alive, scripts, collected, freed, self>>

\* The XJSValues <<c, content>> are released: all of them, or only the one the weak
\* reference was set to.
ReleaseValue(h) ==
  /\ h \in handles
  /\ \/ handles' = handles \ {h}
     \/ UNCHANGED handles
  /\ value' = IF value = h THEN None ELSE value
  /\ UNCHANGED <<alive, scripts, collected, freed, exists, context, map, maps, roots,
                 target, abandoned>>

ScriptsDrop(o) ==
  /\ scripts' = scripts \ {o}
  /\ UNCHANGED <<alive, collected, handles, freed, self>>

\* An XJSValue keeps its context alive.  A runtime, with its heap and its root table,
\* goes with its last context.
ContextGoes(c) ==
  LET r == RuntimeOf[c]
      heap == IF ContextsOf(r) = {c} THEN {o \in Object : HeapOf[o] = r} ELSE {} IN
    /\ c \in alive /\ \A h \in handles : h[1] # c
    /\ alive' = alive \ {c}
    /\ scripts' = scripts \ heap
    /\ collected' = collected \cup heap
    /\ freed' = freed \cup {m \in DOMAIN maps : maps[m].runtime = r /\ ContextsOf(r) = {c}}
    /\ roots' = IF ContextsOf(r) = {c} THEN roots \ {r} ELSE roots
    /\ abandoned' = (abandoned \/ (context = c /\ r \in roots'))
    /\ UNCHANGED <<handles, exists, value, context, map, maps, target>>

\* Any part of the garbage is freed: the collector scans stacks conservatively.
CollectGarbage(r) ==
  /\ \E objects \in SUBSET {o \in Object : HeapOf[o] = r /\ o \notin Reachable} :
       collected' = collected \cup objects
  /\ \E unrooted \in SUBSET {m \in DOMAIN maps : maps[m].runtime = r /\
                               ~(exists /\ r \in roots /\ map = m)} :
       freed' = freed \cup unrooted
  /\ UNCHANGED <<alive, scripts, handles, self>>

RefNext ==
  \/ GetValue \/ SetValueToNil \/ Dealloc
  \/ \E h \in handles : SetValueToObject(h) \/ SetValueToPrimitive(h) \/ ReleaseValue(h)
  \/ \E c \in Context : ContextGoes(c) \/ \E content \in Content : NewValue(c, content)
  \/ \E o \in Object : ScriptsDrop(o)
  \/ \E r \in Runtime : CollectGarbage(r)

RefSpec == RefInit /\ [][RefNext]_refVars
-----------------------------------------------------------------------------
RefTypeOK ==
  /\ alive \subseteq Context
  /\ scripts \subseteq Object /\ collected \subseteq Object
  /\ handles \subseteq Handle
  /\ exists \in BOOLEAN
  /\ value \in Handle \cup {None}
  /\ context \in Context \cup {None}
  /\ maps \in Seq([runtime : Runtime, key : Object])
  /\ map \in DOMAIN maps \cup {None}
  /\ freed \subseteq DOMAIN maps
  /\ roots \subseteq Runtime
  /\ target \in Content \cup {None}
  /\ abandoned \in BOOLEAN

\* Set to an object, the reference answers that object or nil: never the object of an
\* earlier set, and never from a map that was freed.  As long as the context lives and
\* the object was not collected, it answers the object.
AnswersWhatWasSet ==
  exists /\ target # Primitive =>
    /\ Get \in {target, None}
    /\ target # None /\ Cx # None /\ target \notin collected => Get = target

\* As long as no context dies before its reference, the runtime of the current map is
\* the only one with &_map among its roots, and none when there is no reference.
OneRoot ==
  ~abandoned =>
    /\ roots \subseteq {RuntimeOf[c] : c \in {Cx} \ {None}}
    /\ ~exists => roots = {}

\* "also remove rooted map": a weak reference that was deallocated leaves no pointer to
\* its memory in the root table of a runtime.
NoDanglingRoot == ~exists => roots = {}
=============================================================================
