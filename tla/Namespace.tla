------------------------------- MODULE Namespace -------------------------------
(***************************************************************************)
(* context[@"a.b.c"] of XJSContext: the subscript getter and setter with a *)
(* dotted key, over a heap of JS objects that scripts change, too.         *)
(*                                                                         *)
(* The getter goes from object to object.  The setter looks each inner     *)
(* component up in the global object instead of the object it has come to, *)
(* and makes the objects that it does not find there.  Both run under the  *)
(* lock of the runtime, so a get or a set is one step.  Properties with    *)
(* getters, setters or attributes are left out.                            *)
(***************************************************************************)
EXTENDS Naturals, Sequences, SequencesExt

CONSTANTS
  Name,              \* names of properties
  Scalar,            \* JS numbers, strings and booleans
  Undefined, Null,
  Nil,               \* Objective-C's nil
  MaxLength,         \* bound: components of a key
  MaxObjects         \* bound: objects in the heap

ASSUME ValueAssumption ==
  /\ Undefined # Null /\ {Undefined, Null} \cap (Scalar \cup Nat) = {}
  /\ Scalar \cap Nat = {} /\ Nil \notin Scalar \cup Nat \cup {Undefined, Null}
ASSUME BoundAssumption == MaxLength \in Nat /\ MaxObjects \in Nat \ {0}

VARIABLES
  props,      \* props[o][n]: property n of object o
  used,       \* objects made so far
  crashed     \* toObjectOrNull() was asked of a scalar: what follows is undefined

vars == <<props, used, crashed>>

Global == 1
Object == 1..MaxObjects
Missing == {Undefined, Null}
Value  == Object \cup Scalar \cup Missing
Key    == UNION {[1..n -> Name] : n \in 1..MaxLength}
Argument == Scalar \cup (1..used) \cup {Nil}    \* numbers and strings, XJSValues, nil

Init ==
  /\ props = [o \in Object |-> [n \in Name |-> Undefined]]
  /\ used = 1
  /\ crashed = FALSE

\* The getter in a given heap: Undefined as soon as an inner component is no object.
GetTurn(heap, o, n) ==
  IF o \in Object /\ heap[o][n] \in Object THEN heap[o][n] ELSE Undefined

Get(heap, key) ==
  LET o == FoldLeft(LAMBDA p, n : GetTurn(heap, p, n), Global, Front(key)) IN
    IF o \in Object THEN heap[o][Last(key)] ELSE Undefined

\* Two wrong turns: a missing object becomes a property of the global object; an
\* object that is there is not used.
SetTurnInGlobal(s, n) ==
  LET found == s.props[Global][n] IN
    IF s.crashed \/ found \in Scalar THEN [s EXCEPT !.crashed = TRUE]
    ELSE IF found \in Object THEN [s EXCEPT !.obj = found]
    ELSE IF s.used = MaxObjects THEN [s EXCEPT !.full = TRUE]
    ELSE [s EXCEPT !.used = @ + 1, !.obj = s.used + 1, !.props[Global][n] = s.used + 1]

SetTurnAnew(s, n) ==
  IF s.used = MaxObjects THEN [s EXCEPT !.full = TRUE]
  ELSE [s EXCEPT !.used = @ + 1, !.obj = s.used + 1, !.props[s.obj][n] = s.used + 1]

\* One turn of the setter's loop, with the locals of the method in s; full when the
\* bound leaves no room for the object it makes.
SetTurn(s, n) ==
  LET found == s.props[Global][n] IN
    IF s.crashed \/ found \in Scalar THEN [s EXCEPT !.crashed = TRUE]
    ELSE IF found \in Object THEN [s EXCEPT !.obj = found]
    ELSE IF s.used = MaxObjects THEN [s EXCEPT !.full = TRUE]
    ELSE [s EXCEPT !.used = @ + 1, !.obj = s.used + 1, !.props[s.obj][n] = s.used + 1]

Walked(key) ==
  FoldLeft(SetTurn, [obj |-> Global, props |-> props, used |-> used, crashed |-> FALSE,
                     full |-> FALSE], Front(key))

\* The getter and the setter part, or the set cuts the path it has taken: an inner
\* component but for the first is a property of the global object, too, or is named like
\* the first; or the first is a name of the global object itself, and the key goes on
\* with that name, or with another one twice, which the setter then finds there.
Crossed(key) ==
  LET later == 2..(Len(key) - 1) IN
    \/ \E i \in later : props[Global][key[i]] \notin Missing \/ key[i] = key[1]
    \/ /\ props[Global][key[1]] = Global
       /\ \/ Len(key) = 2 /\ key[2] = key[1]
          \/ \E i \in later \ {2} : key[i] = key[2]

\* What a set makes of the heap.  XJSToValue turns nil into null.
Converted(v) == IF v = Nil THEN Null ELSE v

Outcome(key, v) ==
  LET end == Walked(key) IN
    IF end.crashed THEN end ELSE [end EXCEPT !.props[end.obj][Last(key)] = Converted(v)]

Set(key, v) ==
  LET end == Outcome(key, v) IN
    /\ ~crashed /\ ~end.full
    /\ crashed' = end.crashed
    /\ used' = end.used
    /\ props' = end.props

\* A script assigns a value, a new object among them, or deletes a property.
Assign(o, n) ==
  /\ ~crashed
  /\ \/ \E v \in Value \ ((used + 1)..MaxObjects) :
          props' = [props EXCEPT ![o][n] = v] /\ used' = used
     \/ /\ used < MaxObjects
        /\ used' = used + 1
        /\ props' = [props EXCEPT ![o][n] = used + 1]
  /\ UNCHANGED crashed

Next ==
  \/ \E key \in Key, v \in Argument : Set(key, v)
  \/ \E o \in 1..used, n \in Name : Assign(o, n)

Spec == Init /\ [][Next]_vars
-----------------------------------------------------------------------------
\* The heap holds JS values only, whatever is assigned by whom.
TypeOK ==
  /\ props \in [Object -> [Name -> Value]]
  /\ used \in Object
  /\ crashed \in BOOLEAN

\* The outcome of a set is defined, and the key kept within the bound.
Defined(end) == ~crashed /\ ~end.full /\ ~end.crashed

\* _context[key] = v; _context[key] is v, as the tests of the subscripts expect of every
\* key they try: on every heap that sets and scripts can make, when the paths of the
\* setter and the getter do not cross.  The setter looks each inner component up in the
\* global object again, so a global with the name of an inner component takes the rest
\* of its path; in a key of one or two components there is no inner component but the
\* first, where both look in the global object.
ReadsBackUncrossed ==
  \A key \in {k \in Key : ~Crossed(k)}, v \in Argument :
    LET end == Outcome(key, v) IN Defined(end) => Get(end.props, key) = Converted(v)

\* A set with a key of one or two components changes a property of one object, and
\* makes an object only where there is none: what scripts keep beside it stays.
ShortSetsKeepTheRest ==
  \A key \in {k \in Key : Len(k) <= 2}, v \in Argument :
    LET end == Outcome(key, v) IN
      Defined(end) => \A o \in 1..used, n \in Name :
        \/ end.props[o][n] = props[o][n]
        \/ n = Last(key) /\ o = end.obj
        \/ o = Global /\ n = key[1] /\ props[o][n] \in Missing
=============================================================================
