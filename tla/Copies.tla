-------------------------------- MODULE Copies --------------------------------
(***************************************************************************)
(* Native copies of JS objects: -[XJSValue toDictionary], which takes each *)
(* property through -toObject, which goes on with what it finds.  It runs  *)
(* in the lock of the runtime, on the heaps that Namespace makes.          *)
(*                                                                         *)
(* A native dictionary is a function from its keys.  Arrays are converted  *)
(* index by index in the same way and are left out.                        *)
(***************************************************************************)
EXTENDS Namespace

CONSTANT NSNull        \* the object that stands for nil in dictionaries

ASSUME DictionaryAssumption == NSNull \notin Scalar \cup Nat \cup {Undefined, Null, Nil}

\* The names of o in heap that JS_Enumerate gives: the heap does not tell a property
\* that is undefined from one that is not there, shown says which they are.
EnumeratedIfSet(heap, shown, o) == {n \in Name : heap[o][n] \notin Missing}
Enumerated(heap, shown, o) == {n \in Name : shown \/ heap[o][n] # Undefined}

Member(x) == IF x = Nil THEN NSNull ELSE x

\* A conversion of o that puts null where the conversion of a property does not return.
DictionaryWithoutEndless(heap, shown, o, returns) ==
  {[n \in Enumerated(heap, shown, o) |->
      IF returns[heap[o][n]] = {} THEN NSNull
      ELSE Member(CHOOSE x \in returns[heap[o][n]] : TRUE)]}

\* What -toDictionary returns of o, as a set of one dictionary, or an empty one when it
\* never returns: it calls -toObject, which returns what returns says, of each property.
Dictionary(heap, shown, o, returns) ==
  LET names == Enumerated(heap, shown, o) IN
    IF \E n \in names : returns[heap[o][n]] = {} THEN {}
    ELSE {[n \in names |-> Member(CHOOSE x \in returns[heap[o][n]] : TRUE)]}

\* What -toObject returns of v with room for so many calls of -toDictionary inside each
\* other, when returns says what it does with one call less.
Returned(heap, shown, v, room, returns) ==
  CASE v \in Missing -> {Nil}
    [] v \in Scalar  -> {v}
    [] v \in Object  -> IF room = 0 THEN {} ELSE Dictionary(heap, shown, v, returns)

\* More room than there are objects is needed only by calls that repeat, which have no end.
ToObject(heap, shown) ==
  LET Convert[room \in 0..MaxObjects] ==
        [v \in Value |-> Returned(heap, shown, v, room, Convert[room - 1])]
  IN Convert[MaxObjects]

ToDictionary(heap, shown, o) == ToObject(heap, shown)[o]
-----------------------------------------------------------------------------
\* There is a path from o without an end.
LeadsInCircles(o) ==
  \E S \in SUBSET (1..used) :
    o \in S /\ \A p \in S : \E n \in Name : props[p][n] \in S

\* Only an object from which a path leads in circles has no copy: then -toDictionary, which
\* does not know where it has been, never returns.  An object that two paths lead to has one.
CopiesEnd ==
  \A o \in 1..used, shown \in BOOLEAN :
    ToDictionary(props, shown, o) = {} <=> LeadsInCircles(o)
=============================================================================
