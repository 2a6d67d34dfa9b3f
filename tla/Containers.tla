------------------------------ MODULE Containers ------------------------------
(***************************************************************************)
(* The way back of a native copy: a dictionary that becomes a JS object,   *)
(* +[XJSValue valueWithDictionary:inContext:], and what scripts read there. *)
(***************************************************************************)
EXTENDS Copies

Plain == Scalar \cup {NSNull, Nil}
CopyValue == Nat \cup Scalar \cup Missing
Heaps == Seq([Name -> CopyValue])        \* the objects made so far

\* What -toObject can return, with dictionaries nested so deep at most.
Native[depth \in 0..MaxObjects] ==
  Plain \cup IF depth = 0 THEN {} ELSE UNION {[S -> Native[depth - 1]] : S \in SUBSET Name}

\* XJSToValue asks for the class of an object: a dictionary is nothing else.
ASSUME ClassAssumption ==
  \A depth \in 0..MaxObjects, S \in SUBSET Name : Plain \cap [S -> Native[depth]] = {}

\* ret[key] = obj, when member is what XJSToValue returns of obj.
SetObject(ret, key, member) == [member.heap EXCEPT ![ret][key] = member.value]

\* XJSToValue of x: the value, and the heap with the objects that it has made, when
\* toValue says what it does of the members of x.
Made(heap, x, toValue) ==
  IF x \in Plain
  THEN [heap |-> heap, value |-> IF x \in Scalar THEN x ELSE Null]
  ELSE LET ret == Len(heap) + 1 IN
         [heap |-> FoldLeft(LAMBDA h, key : SetObject(ret, key, toValue[x[key]][h]),
                            Append(heap, [n \in Name |-> Undefined]), SetToSeq(DOMAIN x)),
          value |-> ret]

ToValue ==
  LET Convert[depth \in 0..MaxObjects] ==
        [x \in Native[depth] |-> [heap \in Heaps |-> Made(heap, x, Convert[depth - 1])]]
  IN Convert[MaxObjects]
-----------------------------------------------------------------------------
\* What scripts read at the end of a path from o.
ReadTurn(heap, v, n) == IF v \in DOMAIN heap THEN heap[v][n] ELSE Undefined
Reads(heap, o, path) == FoldLeft(LAMBDA v, n : ReadTurn(heap, v, n), o, path)

\* A path with more components than there are objects passes one of them twice.
ScriptPath == {p \in Key : Len(p) <= MaxObjects}

\* An object that is converted and converted back is another one that reads the same by
\* every path, but for undefined properties, which have become null.
ReadAlike(o, shown, copy) ==
  \A path \in ScriptPath :
    LET original == Reads(props, o, path)
        there == shown /\ Reads(props, o, Front(path)) \in Object
        read == Reads(copy.heap, copy.value, path) IN
      CASE original \in Object    -> read \in DOMAIN copy.heap
        [] original = Undefined -> read = IF there THEN Null ELSE Undefined
        [] OTHER                -> read = original

\* An object that several paths lead to is there once for each.
ReadApart(o, copy) ==
  IsInjective([path \in {p \in ScriptPath : Reads(props, o, p) \in Object}
                 |-> Reads(copy.heap, copy.value, path)])

\* So it is whatever scripts and sets have put into the object.
CopiesReadAlike ==
  \A o \in 1..used, shown \in BOOLEAN :
    \A dictionary \in ToDictionary(props, shown, o) :
      LET copy == ToValue[dictionary][<<>>] IN ReadAlike(o, shown, copy) /\ ReadApart(o, copy)
=============================================================================
