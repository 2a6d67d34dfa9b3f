--------------------------- MODULE MethodCallProofs ---------------------------
(***************************************************************************)
(* What crosses the bridge, for calls nested to any depth, of any names,   *)
(* in both directions: failures (FailureInv), selectors and the names      *)
(* scripts use for them (FramesInv, which rests on what the search for     *)
(* selectors returns), and numbers (NumberInv, which rests on words of any *)
(* widths).                                                                *)
(***************************************************************************)
EXTENDS MethodCall, StackLemmas, FiniteSetTheorems

\* Native code that runs has nothing pending behind its back either: that is what makes a
\* script that goes on after a call sound.
NativeKnows == control = "native" /\ pending => dropped

FailureInv ==
  /\ pending \in BOOLEAN
  /\ NativeKnows /\ NoStaleException /\ StopsHaveAReason /\ RaisesStayNative

LEMMA InitEstablishes == Init => FailureInv
BY DEF Init, FailureInv, NativeKnows, NoStaleException, StopsHaveAReason, RaisesStayNative

\* Calls by scripts.
LEMMA EnterKeepsInv ==
  ASSUME FailureInv, Enter
  PROVE  FailureInv'
<1> USE DEF FailureInv, NativeKnows, NoStaleException, StopsHaveAReason, RaisesStayNative
<1>1. ASSUME NEW name \in Name, NEW argc \in 0..MaxArgs, Search(name, argc)
      PROVE  FailureInv'
  BY <1>1 DEF Search
<1>2. CASE Access("getter", 0) \/ Access("setter", 1)
  BY <1>2 DEF Access
<1>8. CASE CallCallable \/ Construct
  BY <1>8 DEF CallCallable, Construct, EnterDirectly
<1>9. CASE NotAConstructor
  BY <1>9 DEF NotAConstructor, FailWithException
<1>3. CASE Unfound
  BY <1>3 DEF Unfound, FailWithException
<1>4. CASE Found
  BY <1>4 DEF Found
<1>5. ASSUME NEW value \in Value, NEW class \in TypeClass, Argument(value, class)
      PROVE  FailureInv'
  <2>1. PICK out \in ToType(value, class) :
          IF out.converted \/ class = "object"
          THEN /\ pending' = (pending \/ out.failure)
               /\ dropped' = (dropped \/ out.failure)
               /\ UNCHANGED control
          ELSE FailWithException
    BY <1>5 DEF Argument
  <2>2. UNCHANGED <<outer, convertible, mute>>
    BY <1>5 DEF Argument
  <2>3. CASE out.converted \/ class = "object"
    BY <2>1, <2>2, <2>3
  <2>4. CASE ~(out.converted \/ class = "object")
    BY <2>1, <2>2, <2>4 DEF FailWithException
  <2> QED
    BY <2>3, <2>4
<1>6. CASE NumberArgument \/ Invoke
  BY <1>6 DEF NumberArgument, Invoke
<1>7. CASE Catch
  BY <1>7 DEF Catch, FailWithException
<1> QED
  BY <1>1, <1>2, <1>3, <1>4, <1>5, <1>6, <1>7, <1>8, <1>9 DEF Enter

\* The conversion of a result raises only for an object that cannot become a JS value.
LEMMA FromTypeRaises ==
  ASSUME NEW class \in TypeClass, convertible, NEW out \in FromType(class, convertible)
  PROVE  ~out.failure
BY DEF FromType, ObjectFromType, StructFromType, Outcome, TypeClass

LEMMA ReturnKeepsInv ==
  ASSUME FailureInv, Return
  PROVE  FailureInv'
<1> USE DEF FailureInv, NativeKnows, NoStaleException, StopsHaveAReason, RaisesStayNative
<1>1. ASSUME NEW class \in TypeClass, Result(class)
      PROVE  FailureInv'
  <2>1. PICK out \in FromType(class, convertible) :
          \/ out.failure /\ control' = "escaped" /\ mute' = FALSE
          \/ control' = "script" /\ mute' = FALSE
          \/ control' = "unwinding" /\ mute' = TRUE
    BY <1>1 DEF Result
  <2>2. control = "native" /\ UNCHANGED <<outer, convertible, pending, dropped>>
    BY <1>1 DEF Result
  <2>3. convertible => ~out.failure
    BY FromTypeRaises
  <2> QED
    BY <2>1, <2>2, <2>3
<1>2. ASSUME NEW type \in NumberType, NEW n \in NativeNumbers(type), NumberResult(type, n)
      PROVE  FailureInv'
  BY <1>2 DEF NumberResult
<1>3. CASE NoResult
  BY <1>3 DEF NoResult
<1> QED
  BY <1>1, <1>2, <1>3 DEF Return

\* Calls by native code.
LEMMA ForwardKeepsInv ==
  ASSUME FailureInv, Forward
  PROVE  FailureInv'
<1> USE DEF FailureInv, NativeKnows, NoStaleException, StopsHaveAReason, RaisesStayNative
<1>1. ASSUME NEW sel \in Selector, NEW properties \in SUBSET Names(sel),
             ProgramForwards(sel, properties)
      PROVE  FailureInv'
  <2>1. control = "native" /\ control' \in {"native", "raising"}
    BY <1>1 DEF ProgramForwards
  <2>2. UNCHANGED <<outer, convertible, pending, dropped, mute, number>>
    BY <1>1 DEF ProgramForwards
  <2> QED
    BY <2>1, <2>2
<1>2. ASSUME NEW class \in TypeClass, ForwardArgument(class)
      PROVE  FailureInv'
  <2>1. control = "native" /\ control' \in {"native", "raising"}
    BY <1>2 DEF ForwardArgument
  <2>2. UNCHANGED <<outer, convertible, pending, dropped, mute, number>>
    BY <1>2 DEF ForwardArgument
  <2> QED
    BY <2>1, <2>2
<1>3. CASE StartFunction
  BY <1>3 DEF StartFunction
<1>4. CASE FunctionReturns
  BY <1>4 DEF FunctionReturns, LeaveScripts
<1>5. CASE FunctionFails
  BY <1>5 DEF FunctionFails, LeaveScripts
<1>6. ASSUME NEW value \in Value, NEW class \in TypeClass, ForwardResult(value, class)
      PROVE  FailureInv'
  <2>1. PICK out \in ToType(value, class), kept \in {ScriptsBelow, TRUE} :
          /\ control' \in {"native", "raising"}
          /\ pending' = (pending \/ (out.failure /\ kept))
          /\ dropped' = (dropped \/ (out.failure /\ kept))
    BY <1>6 DEF ForwardResult
  <2>2. control = "native" /\ UNCHANGED <<outer, convertible, mute, number>>
    BY <1>6 DEF ForwardResult
  <2> QED
    BY <2>1, <2>2
<1>7. CASE ForwardEnds
  BY <1>7 DEF ForwardEnds
<1> QED
  BY <1>1, <1>2, <1>3, <1>4, <1>5, <1>6, <1>7 DEF Forward

\* The program and its scripts.
LEMMA ProgramKeepsInv ==
  ASSUME FailureInv, Program
  PROVE  FailureInv'
<1> USE DEF FailureInv, NativeKnows, NoStaleException, StopsHaveAReason, RaisesStayNative
<1>1. CASE ProgramReturns \/ ProgramRaises \/ ProgramCatches
  BY <1>1 DEF ProgramReturns, ProgramRaises, ProgramCatches
<1>2. CASE ScriptThrows
  BY <1>2 DEF ScriptThrows, FailWithException
<1>3. CASE ScriptForgets
  BY <1>3 DEF ScriptForgets
<1>4. CASE ScriptCatches
  BY <1>4 DEF ScriptCatches
<1>5. CASE ScriptEnds
  BY <1>5 DEF ScriptEnds
<1> QED
  BY <1>1, <1>2, <1>3, <1>4, <1>5 DEF Program

LEMMA FailureInductive == FailureInv /\ [Next]_vars => FailureInv'
<1>1. FailureInv /\ Next => FailureInv'
  BY EnterKeepsInv, ReturnKeepsInv, ForwardKeepsInv, ProgramKeepsInv DEF Next
<1>2. FailureInv /\ UNCHANGED vars => FailureInv'
  BY DEF FailureInv, NativeKnows, NoStaleException, StopsHaveAReason, RaisesStayNative, vars
<1> QED
  BY <1>1, <1>2

\* However calls nest across the bridge, a script that is stopped has an exception to
\* catch unless a getter has returned what does not convert.
THEOREM ExceptionsDelivered == Spec => []StopsHaveAReason
<1>1. FailureInv => StopsHaveAReason
  BY DEF FailureInv
<1> QED
  BY <1>1, InitEstablishes, FailureInductive, PTL DEF Spec

\* And a script that goes on after a call has no exception pending unless a conversion or
\* the program has dropped it.
THEOREM NothingStale == Spec => []NoStaleException
<1>1. FailureInv => NoStaleException
  BY DEF FailureInv
<1> QED
  BY <1>1, InitEstablishes, FailureInductive, PTL DEF Spec

\* No NSException leaves the bridge into the frames of SpiderMonkey as long as the objects
\* that native code hands over can become JS values.
THEOREM NoExceptionEscapes == Spec => []RaisesStayNative
<1>1. FailureInv => RaisesStayNative
  BY DEF FailureInv
<1> QED
  BY <1>1, InitEstablishes, FailureInductive, PTL DEF Spec
-----------------------------------------------------------------------------
\* Places in a name.
LEMMA PlacesOf ==
  ASSUME NEW s \in Seq(Character), NEW c
  PROVE  /\ Occurrences(s, c) \in SUBSET (1..Len(s)) /\ Occurrences(s, c) \in SUBSET Nat
         /\ IsFiniteSet(Occurrences(s, c)) /\ Cardinality(Occurrences(s, c)) \in Nat
<1>1. Len(s) \in Nat /\ DOMAIN s = 1..Len(s)
  BY LenProperties
<1>2. Occurrences(s, c) \in SUBSET (1..Len(s))
  BY <1>1 DEF Occurrences
<1>3. IsFiniteSet(1..Len(s))
  BY <1>1, FS_Interval
<1> QED
  BY <1>1, <1>2, <1>3, FS_Subset, FS_CardinalityType

\* The greatest members of a set are those of which all others are less.
LEMMA UpperPlaces ==
  ASSUME NEW places \in SUBSET Nat, IsFiniteSet(places), NEW upper \in SUBSET places,
         \A i \in places \ upper, j \in upper : i < j
  PROVE  LastPlaces(places, Cardinality(upper)) = upper
<1> DEFINE above(i) == {j \in places : j > i}
<1>1. IsFiniteSet(upper) /\ Cardinality(upper) \in Nat
  BY FS_Subset, FS_CardinalityType
<1>2. ASSUME NEW i \in places
      PROVE  IsFiniteSet(above(i)) /\ Cardinality(above(i)) \in Nat
  BY FS_Subset, FS_CardinalityType
<1>3. ASSUME NEW i \in upper PROVE Cardinality(above(i)) < Cardinality(upper)
  <2>1. \A j \in above(i) : j \in upper /\ j # i
    <3> SUFFICES ASSUME NEW j \in places, j > i PROVE j \in upper /\ j # i
      OBVIOUS
    <3>1. i \in Nat /\ j \in Nat /\ ~(j < i)
      OBVIOUS
    <3> QED
      BY <3>1
  <2>2. IsFiniteSet(upper \ {i}) /\ Cardinality(upper \ {i}) = Cardinality(upper) - 1
    BY <1>1, FS_RemoveElement
  <2>3. Cardinality(above(i)) <= Cardinality(upper \ {i})
    <3>1. above(i) \in SUBSET (upper \ {i})
      BY <2>1
    <3> QED
      BY <2>2, <3>1, FS_Subset
  <2> HIDE DEF above
  <2> QED
    BY <1>1, <1>2, <2>2, <2>3
<1>4. ASSUME NEW i \in places \ upper PROVE ~(Cardinality(above(i)) < Cardinality(upper))
  <2>1. upper \in SUBSET above(i)
    OBVIOUS
  <2>2. Cardinality(upper) <= Cardinality(above(i))
    BY <1>2, <2>1, FS_Subset
  <2> HIDE DEF above
  <2> QED
    BY <1>1, <1>2, <2>2
<1> QED
  BY <1>3, <1>4, Zenon DEF LastPlaces

\* There are such members, as many as one likes.
LEMMA UpperExists ==
  ASSUME NEW m \in Nat, NEW places \in SUBSET (1..m), IsFiniteSet(places),
         NEW n \in Nat, n <= Cardinality(places)
  PROVE  \E upper \in SUBSET places :
           Cardinality(upper) = n /\ \A i \in places \ upper, j \in upper : i < j
<1> DEFINE Upper(k) == \E upper \in SUBSET places :
             Cardinality(upper) = k /\ \A i \in places \ upper, j \in upper : i < j
           N == {k \in Nat : k <= Cardinality(places) => Upper(k)}
<1>0. Cardinality(places) \in Nat
  BY FS_CardinalityType
<1>1. Upper(0)
  BY FS_EmptySet
<1>2. ASSUME NEW k \in Nat, k + 1 <= Cardinality(places), Upper(k) PROVE Upper(k + 1)
  <2>1. PICK upper \in SUBSET places :
             Cardinality(upper) = k /\ \A i \in places \ upper, j \in upper : i < j
    BY <1>2
  <2>2. IsFiniteSet(upper)
    BY FS_Subset
  <2> DEFINE rest == places \ upper
             next == Max(rest)
  <2>3. rest # {}
    <3>1. k # Cardinality(places)
      BY <1>0, <1>2
    <3> QED
      BY <2>1, <3>1
  <2>4. next \in rest /\ \A y \in rest : y <= next
    <3>1. rest \in SUBSET (1..m)
      OBVIOUS
    <3> HIDE DEF rest
    <3> QED
      BY <2>3, <3>1, MaxOfSome
  <2> HIDE DEF next
  <2>5. Cardinality(upper \cup {next}) = k + 1
    BY <2>1, <2>2, <2>4, FS_AddElement
  <2>6. \A i \in places \ (upper \cup {next}), j \in upper \cup {next} : i < j
    BY <2>1, <2>4
  <2>7. upper \cup {next} \in SUBSET places
    BY <2>4
  <2> QED
    BY <2>5, <2>6, <2>7
<1>3. N = Nat
  <2> HIDE DEF Upper
  <2>1. 0 \in N /\ N \in SUBSET Nat
    BY <1>1
  <2>2. ASSUME NEW k \in N PROVE k + 1 \in N
    <3>1. k + 1 <= Cardinality(places) => k <= Cardinality(places)
      BY <1>0
    <3> QED
      BY <1>2, <3>1
  <2> HIDE DEF N
  <2> QED
    BY <2>1, <2>2, NatSetInduction
<1>4. Upper(n)
  <2> HIDE DEF Upper
  <2> QED
    BY <1>3
<1> QED
  BY <1>4

\* So the last n places are n of them.
LEMMA LastPlacesCount ==
  ASSUME NEW m \in Nat, NEW places \in SUBSET (1..m), IsFiniteSet(places),
         NEW n \in Nat, n <= Cardinality(places)
  PROVE  LastPlaces(places, n) \in SUBSET places /\ Cardinality(LastPlaces(places, n)) = n
<1>1. PICK upper \in SUBSET places :
           Cardinality(upper) = n /\ \A i \in places \ upper, j \in upper : i < j
  BY UpperExists
<1>2. places \in SUBSET Nat
  OBVIOUS
<1> QED
  BY <1>1, <1>2, UpperPlaces

\* Colons put at places of a name, and in front of its end.
LEMMA ColonsAdded ==
  ASSUME NEW s \in Seq(Character), NEW places \in SUBSET (1..Len(s))
  PROVE  /\ WithColonsAt(s, places) \in Seq(Character)
         /\ Len(WithColonsAt(s, places)) = Len(s)
         /\ \A i \in 1..Len(s) :
              WithColonsAt(s, places)[i] = IF i \in places THEN ":" ELSE s[i]
         /\ Occurrences(WithColonsAt(s, places), ":") = Occurrences(s, ":") \cup places
<1> DEFINE n == Len(s)
           t == WithColonsAt(s, places)
<1>1. n \in Nat /\ DOMAIN s = 1..n /\ \A i \in 1..n : s[i] \in Character
  BY LenProperties
<1>2. t = [i \in 1..n |-> IF i \in places THEN ":" ELSE s[i]]
  BY <1>1 DEF WithColonsAt
<1>3. ":" \in Character
  BY DEF Character
<1>4. t \in [1..n -> Character]
  BY <1>1, <1>2, <1>3
<1>5. t \in Seq(Character)
  BY <1>1, <1>4, SeqDef
<1>6. Len(t) = n
  BY <1>1, <1>4, <1>5, LenProperties
<1>7. Occurrences(t, ":") = Occurrences(s, ":") \cup places
  BY <1>1, <1>2 DEF Occurrences
<1> QED
  BY <1>2, <1>5, <1>6, <1>7

\* Colons put behind a name.
LEMMA ColonsBehind ==
  ASSUME NEW s \in Seq(Character), NEW k \in Nat, NEW more, more = [i \in 1..k |-> ":"]
  PROVE  /\ s \o more \in Seq(Character) /\ Len(s \o more) = Len(s) + k
         /\ \A i \in 1..(Len(s) + k) : (s \o more)[i] = IF i <= Len(s) THEN s[i] ELSE ":"
         /\ Occurrences(s \o more, ":")
              = Occurrences(s, ":") \cup ((Len(s) + 1)..(Len(s) + k))
<1>0. Len(s) \in Nat /\ DOMAIN s = 1..Len(s)
  BY LenProperties
<1>1. more \in Seq(Character) /\ Len(more) = k
  <2>1. more \in [1..k -> Character]
    BY DEF Character
  <2>2. more \in Seq(Character)
    BY <2>1, SeqDef
  <2> QED
    BY <2>1, <2>2, LenProperties
<1> DEFINE t == s \o more
           n == Len(s)
<1>2. t \in Seq(Character) /\ Len(t) = n + k
      /\ \A i \in 1..(n + k) : t[i] = IF i <= n THEN s[i] ELSE more[i - n]
  BY <1>1, ConcatProperties
<1>3. ASSUME NEW i \in 1..(n + k) PROVE t[i] = IF i <= n THEN s[i] ELSE ":"
  <2>1. CASE i <= n
    BY <1>2, <2>1
  <2>2. CASE ~(i <= n)
    <3>1. i - n \in 1..k
      BY <1>0, <2>2
    <3>2. t[i] = more[i - n]
      BY <1>2, <2>2
    <3> QED
      BY <2>2, <3>1, <3>2
  <2> QED
    BY <2>1, <2>2
<1>4. DOMAIN t = 1..(n + k)
  BY <1>2, LenProperties
<1>5. \A i : i \in Occurrences(t, ":") <=> i \in 1..(n + k) /\ (i <= n => s[i] = ":")
  <2> HIDE DEF t
  <2> QED
    BY <1>3, <1>4 DEF Occurrences
<1>6. Occurrences(t, ":") = Occurrences(s, ":") \cup ((n + 1)..(n + k))
  <2> HIDE DEF t
  <2>1. \A i : i \in Occurrences(s, ":") <=> i \in 1..n /\ s[i] = ":"
    BY <1>0 DEF Occurrences
  <2>2. \A i : i \in 1..(n + k) /\ (i <= n => s[i] = ":")
               <=> (i \in 1..n /\ s[i] = ":") \/ i \in (n + 1)..(n + k)
    BY <1>0
  <2> QED
    BY <1>5, <2>1, <2>2
<1> QED
  BY <1>2, <1>3, <1>6

\* A name that ends with a colon, and what there is to find in it.
LEMMA EndedName ==
  ASSUME NEW name \in Seq(Character), name # <<>>, Occurrences(name, ":") = {}
  PROVE  /\ Ended(name) \in Seq(Character) /\ Len(Ended(name)) \in Nat \ {0}
         /\ Occurrences(Ended(name), ":") = {Len(Ended(name))}
<1>1. /\ Len(name) \in Nat \ {0} /\ Last(name) = name[Len(name)]
      /\ DOMAIN name = 1..Len(name)
  BY LastFront, LenProperties
<1>2. CASE Last(name) = "_"
  <2>1. {Len(name)} \in SUBSET (1..Len(name))
    BY <1>1
  <2> QED
    BY <1>1, <1>2, <2>1, ColonsAdded DEF Ended
<1>3. CASE Last(name) # "_"
  <2>1. Ended(name) = Append(name, ":") /\ ":" \in Character
    BY <1>3 DEF Ended, Character
  <2>2. /\ Append(name, ":") \in Seq(Character)
        /\ Len(Append(name, ":")) = Len(name) + 1
        /\ \A i \in 1..Len(name) : Append(name, ":")[i] = name[i]
        /\ Append(name, ":")[Len(name) + 1] = ":"
    BY <2>1, AppendTop
  <2>3. DOMAIN Append(name, ":") = 1..(Len(name) + 1)
    BY <2>2, LenProperties
  <2>4. \A i \in 1..Len(name) : name[i] # ":"
    BY <1>1 DEF Occurrences
  <2>5. \A i : i \in 1..(Len(name) + 1) /\ Append(name, ":")[i] = ":" <=> i = Len(name) + 1
    BY <1>1, <2>2, <2>4
  <2>6. Occurrences(Append(name, ":"), ":") = {Len(name) + 1}
    BY <2>3, <2>5 DEF Occurrences
  <2> QED
    BY <1>1, <2>1, <2>2, <2>6
<1> QED
  BY <1>2, <1>3

\* k numbers from n on.
LEMMA IntervalCount ==
  ASSUME NEW n \in Nat, NEW k \in Nat
  PROVE  IsFiniteSet((n + 1)..(n + k)) /\ Cardinality((n + 1)..(n + k)) = k
<1> DEFINE a == n + 1
           b == n + k
<1>1. a \in Int /\ b \in Int /\ (IF a > b THEN 0 ELSE b - a + 1) = k
  OBVIOUS
<1> HIDE DEF a, b
<1> QED
  BY <1>1, FS_Interval DEF a, b

\* What ColonsPlaced returns.
LEMMA ColonsPlacedCount ==
  ASSUME NEW name \in Seq(Character), name # <<>>, Occurrences(name, ":") = {},
         NEW argc \in Nat \ {0}, ColonsPlaced(name, argc) # NoSelector
  PROVE  ColonsPlaced(name, argc) \in Seq(Character) /\ Colons(ColonsPlaced(name, argc)) = argc
<1> DEFINE cstr == Ended(name)
           n == Len(cstr)
           found == NonLeading(cstr)
           count == Cardinality(found) + 1
<1>1. cstr \in Seq(Character) /\ n \in Nat \ {0} /\ Occurrences(cstr, ":") = {n}
  BY EndedName
<1>2. /\ ColonsPlaced(name, argc) =
           IF count >= argc THEN WithColonsAt(cstr, LastPlaces(found, argc - 1))
           ELSE IF Last(name) = "_" THEN NoSelector
           ELSE WithColonsAt(cstr, found) \o [i \in 1..(argc - count) |-> ":"]
  BY DEF ColonsPlaced
<1> HIDE DEF cstr
<1>3. /\ found \in SUBSET (1..n) /\ n \notin found
      /\ IsFiniteSet(found) /\ Cardinality(found) \in Nat
  <2>1. found \in SUBSET Occurrences(cstr, "_")
    BY DEF NonLeading
  <2>2. n \notin Occurrences(cstr, "_")
    BY <1>1 DEF Occurrences
  <2> QED
    BY <1>1, <2>1, <2>2, PlacesOf, FS_Subset, FS_CardinalityType
<1> HIDE DEF found
<1>4. ASSUME NEW places \in SUBSET found
      PROVE  /\ WithColonsAt(cstr, places) \in Seq(Character) /\ Len(WithColonsAt(cstr, places)) = n
             /\ IsFiniteSet(Occurrences(WithColonsAt(cstr, places), ":"))
             /\ Colons(WithColonsAt(cstr, places)) = Cardinality(places) + 1
  <2>1. /\ WithColonsAt(cstr, places) \in Seq(Character) /\ Len(WithColonsAt(cstr, places)) = n
        /\ Occurrences(WithColonsAt(cstr, places), ":") = Occurrences(cstr, ":") \cup places
    <3>1. places \in SUBSET (1..n)
      BY <1>3
    <3> QED
      BY <1>1, <3>1, ColonsAdded
  <2>2. n \notin places /\ Occurrences(WithColonsAt(cstr, places), ":") = places \cup {n}
    BY <1>1, <1>3, <2>1
  <2>3. IsFiniteSet(places) /\ IsFiniteSet(places \cup {n})
        /\ Cardinality(places \cup {n}) = Cardinality(places) + 1
    BY <1>3, <2>2, FS_Subset, FS_AddElement
  <2> QED
    BY <2>1, <2>2, <2>3 DEF Colons
<1> HIDE DEF n
<1>5. CASE count >= argc
  <2> DEFINE places == LastPlaces(found, argc - 1)
  <2>1. places \in SUBSET found /\ Cardinality(places) = argc - 1
    <3>1. argc - 1 \in Nat /\ argc - 1 <= Cardinality(found) /\ n \in Nat
      <4> HIDE DEF places
      <4> QED
        BY <1>1, <1>3, <1>5
    <3> HIDE DEF found
    <3> QED
      BY <1>3, <3>1, LastPlacesCount
  <2>2. ColonsPlaced(name, argc) = WithColonsAt(cstr, places)
    BY <1>2, <1>5
  <2> HIDE DEF places
  <2>3. /\ WithColonsAt(cstr, places) \in Seq(Character)
        /\ Colons(WithColonsAt(cstr, places)) = Cardinality(places) + 1
    BY <1>4, <2>1
  <2> QED
    BY <2>1, <2>2, <2>3
<1>6. CASE ~(count >= argc)
  <2> DEFINE t == WithColonsAt(cstr, found)
             more == [i \in 1..(argc - count) |-> ":"]
  <2>1. ColonsPlaced(name, argc) = t \o more
    BY <1>2, <1>6
  <2>2. /\ t \in Seq(Character) /\ Len(t) = n /\ IsFiniteSet(Occurrences(t, ":"))
        /\ Cardinality(Occurrences(t, ":")) = count
    BY <1>4 DEF Colons
  <2>3. count \in Nat /\ argc - count \in Nat
    <3> HIDE DEF t, more
    <3> QED
      BY <1>3, <1>6
  <2> HIDE DEF t, count
  <2> DEFINE added == (n + 1)..(n + (argc - count))
  <2>10. more = [i \in 1..(argc - count) |-> ":"]
    OBVIOUS
  <2> HIDE DEF more
  <2>4. /\ t \o more \in Seq(Character)
        /\ Occurrences(t \o more, ":") = Occurrences(t, ":") \cup added
    BY <2>2, <2>3, <2>10, ColonsBehind, Zenon
  <2>5. IsFiniteSet(added) /\ Cardinality(added) = argc - count
    BY <1>1, <2>3, IntervalCount
  <2>6. Occurrences(t, ":") \cap added = {}
    <3>1. Occurrences(t, ":") \in SUBSET (1..n)
      BY <2>2, PlacesOf
    <3>2. n \in Nat
      BY <1>1
    <3> QED
      BY <3>1, <3>2
  <2> HIDE DEF added
  <2>7. Cardinality(Occurrences(t \o more, ":")) = count + (argc - count) - Cardinality({})
    BY <2>2, <2>4, <2>5, <2>6, FS_Union
  <2>8. count + (argc - count) - 0 = argc
    BY <2>3
  <2> QED
    BY <2>1, <2>4, <2>7, <2>8, FS_EmptySet DEF Colons
<1> QED
  BY <1>5, <1>6

\* A selector that the search finds has as many colons as the call has arguments.
LEMMA SearchCounts ==
  ASSUME NEW name \in Seq(Character), name # <<>>, NEW argc \in Nat
  PROVE  /\ SearchSelector(name, argc) \in Seq(Character) \cup {NoSelector}
         /\ SearchSelector(name, argc) # NoSelector => Colons(SearchSelector(name, argc)) = argc
<1>1. Colons(name) \in Nat /\ (Colons(name) = 0 => Occurrences(name, ":") = {})
  BY PlacesOf, FS_EmptySet DEF Colons
<1>2. CASE Colons(name) # 0 \/ argc = 0
  BY <1>1, <1>2 DEF SearchSelector
<1>3. CASE Colons(name) = 0 /\ argc # 0
  BY <1>1, <1>3, ColonsPlacedCount DEF SearchSelector
<1> QED
  BY <1>2, <1>3

\* Places in a name, the last one and those in front of it.
LEMMA Before ==
  ASSUME NEW n \in Nat, NEW i \in 1..n
  PROVE  /\ i # n => i \in 1..(n - 1)
         /\ i < n <=> i # n
         /\ i \in Nat
OBVIOUS

\* Places in a part of a name.
LEMMA BeforeEnd ==
  ASSUME NEW l \in Nat, NEW n \in 1..l, NEW i \in 1..(n - 1)
  PROVE  i \in 1..l /\ i \in 1..n /\ i < n
OBVIOUS

\* Places behind the stem of a name.
LEMMA Behind ==
  ASSUME NEW l \in Nat, NEW m \in 1..l
  PROVE  /\ l - m > 0 => m < l
         /\ m # l => l \in (m + 1)..l
         /\ m < l => l \in (m + 1)..l
OBVIOUS

\* The shape of a standard selector with colons: the last of its letters is followed by
\* colons up to the end, and the first one precedes all colons.
LEMMA StandardShape ==
  ASSUME NEW sel \in Seq(Character), Standard(sel)
  PROVE  \E m \in 1..Len(sel) :
           /\ m = Max({0} \cup Occurrences(sel, Letter)) /\ sel[m] = Letter
           /\ \A i \in (m + 1)..Len(sel) : sel[i] = ":"
           /\ Colons(sel) > 0 => m < Len(sel)
           /\ Occurrences(sel, "_") # {} => Len(sel) - m <= 1
<1> DEFINE letters == Occurrences(sel, Letter)
           m == Max({0} \cup letters)
<1>1. letters \in SUBSET (1..Len(sel)) /\ Len(sel) \in Nat /\ letters # {}
      /\ DOMAIN sel = 1..Len(sel)
  BY PlacesOf, LenProperties DEF Standard
<1>2. m \in letters
  <2>1. PICK l \in letters : \A y \in letters : y <= l
    <3> HIDE DEF letters
    <3> QED
      BY <1>1, MaxOfSome
  <2>2. \A y \in {0} \cup letters : l >= y
    BY <1>1, <2>1
  <2>3. m \in {0} \cup letters /\ \A y \in {0} \cup letters : m >= y
    <3> HIDE DEF letters
    <3> QED
      BY <2>2 DEF Max
  <2>4. l \in Nat \ {0}
    BY <1>1, <2>1
  <2> HIDE DEF m, letters
  <2> QED
    BY <1>1, <2>1, <2>3, <2>4
<1>3. m \in 1..Len(sel) /\ sel[m] = Letter
  <2>1. \A i \in letters : i \in 1..Len(sel) /\ sel[i] = Letter
    BY <1>1 DEF Occurrences
  <2> HIDE DEF m, letters
  <2> QED
    BY <1>2, <2>1
<1>4. Len(SubSeq(sel, 1, m)) = m
  <2>1. \A i \in 1..m : sel[i] \in Character
    <3> HIDE DEF m
    <3> QED
      BY <1>1, <1>3, ElementOfSeq
  <2> HIDE DEF m
  <2> QED
    BY <1>1, <1>3, <2>1, SubSeqProperties
<1>5. /\ \A i \in (m + 1)..Len(sel) : sel[i] = ":"
      /\ Colons(sel) > 0 => Len(sel) - m > 0
      /\ Occurrences(sel, "_") # {} => Len(sel) - m <= 1
  BY <1>4 DEF Standard
<1> HIDE DEF m
<1>6. Colons(sel) > 0 => m < Len(sel)
  BY <1>1, <1>3, <1>5, Behind, Zenon
<1> QED
  BY <1>1, <1>3, <1>5, <1>6, Zenon DEF m

\* Such a selector, its colons written as underscores but for a last one, in or behind its
\* last word: all colons that are left to find are found, and no underscore of the
\* selector comes between them.
LEMMA StandardColons ==
  ASSUME NEW sel \in Seq(Character), Standard(sel), NEW n \in 1..Len(sel),
         NEW cstr \in Seq(Character), Len(cstr) = n, cstr[n] = ":",
         \A i \in 1..(n - 1) : cstr[i] = Underscored(sel)[i]
  PROVE  LET others == {i \in Occurrences(sel, ":") : i < n} IN
           others \in SUBSET NonLeading(cstr)
           /\ \A i \in NonLeading(cstr) \ others : i \in Occurrences(sel, "_") /\ i < n
<1> DEFINE letters == Occurrences(sel, Letter)
<1>1. /\ DOMAIN sel = 1..Len(sel) /\ DOMAIN cstr = 1..n /\ Len(sel) \in Nat
      /\ \A i \in 1..Len(sel) : sel[i] \in Character
  BY LenProperties
<1>0. \A i \in 1..(n - 1) : i \in 1..Len(sel) /\ i \in 1..n /\ i < n
  BY <1>1, BeforeEnd
<1>2. \A i \in 1..(n - 1) : cstr[i] = IF sel[i] = ":" THEN "_" ELSE sel[i]
  BY <1>0, <1>1, Zenon DEF Underscored
<1>3. ASSUME NEW i \in Occurrences(sel, ":"), i < n
      PROVE  i \in Occurrences(cstr, "_") /\ \E j \in 2..(i - 1) : cstr[j] # "_"
  <2>1. i \in 1..(n - 1) /\ sel[i] = ":"
    BY <1>1, <1>3 DEF Occurrences
  <2>2. i \in Occurrences(cstr, "_")
    <3>1. cstr[i] = "_" /\ i \in 1..n
      BY <1>0, <1>2, <2>1, Zenon
    <3> QED
      BY <1>1, <3>1, Zenon DEF Occurrences
  <2>3. Min(letters) \in letters /\ Min(letters) < i
    <3>1. letters # {} /\ letters \in SUBSET Nat
      BY PlacesOf DEF Standard
    <3> HIDE DEF letters
    <3>2. Min(letters) \in letters
      BY <3>1, MinOfSome
    <3> QED
      BY <3>2 DEF Standard, letters
  <2> DEFINE first == Min(letters)
  <2>4. first \in 1..(n - 1) /\ sel[first] = Letter /\ first \in 1..(i - 1)
    <3>1. \A j \in letters : j \in 1..Len(sel) /\ sel[j] = Letter
      BY <1>1 DEF Occurrences
    <3> HIDE DEF letters, first
    <3> QED
      BY <2>1, <2>3, <3>1 DEF first
  <2> HIDE DEF first
  <2>5. Letter # "_" /\ Letter # ":"
    BY DEF Letter
  <2>6. CASE first # 1
    <3>1. first \in 2..(i - 1)
      BY <2>1, <2>4, <2>6
    <3>2. cstr[first] = Letter
      BY <1>2, <2>4, <2>5
    <3> QED
      BY <2>2, <2>5, <3>1, <3>2
  <2>7. CASE first = 1
    <3>1. Len(sel) > 2 /\ sel[1] = Letter
      BY <1>1, <2>1, <2>4, <2>7
    <3>2. sel[2] = Letter
      BY <3>1 DEF Standard
    <3>3. i # 1 /\ i # 2
      BY <2>1, <2>5, <3>1, <3>2
    <3>4. 2 \in 2..(i - 1) /\ 2 \in 1..(n - 1)
      BY <2>1, <3>3
    <3>5. cstr[2] = Letter
      BY <1>2, <2>5, <3>2, <3>4
    <3> QED
      BY <2>2, <2>5, <3>4, <3>5
  <2> QED
    BY <2>6, <2>7
<1>4. ASSUME NEW i \in NonLeading(cstr), ~(i \in Occurrences(sel, ":") /\ i < n)
      PROVE  i \in Occurrences(sel, "_") /\ i < n
  <2>1. i \in 1..n /\ cstr[i] = "_"
    BY <1>1 DEF NonLeading, Occurrences
  <2>2. i \in 1..(n - 1)
    <3>1. "_" # ":" /\ n \in Nat
      BY <1>1
    <3>2. i # n
      BY <2>1, <3>1, Zenon
    <3> QED
      BY <2>1, <3>1, <3>2, Before
  <2>3. i \in 1..Len(sel) /\ i < n /\ sel[i] # ":"
    BY <1>0, <1>1, <1>4, <2>2, Zenon DEF Occurrences
  <2>4. sel[i] = "_"
    BY <1>2, <2>1, <2>2, <2>3, Zenon
  <2> QED
    BY <1>1, <2>3, <2>4, Zenon DEF Occurrences
<1> QED
  BY <1>3, <1>4 DEF NonLeading

\* A name that ends like the selector but for a last colon.
LEMMA AllColonsFound ==
  ASSUME NEW sel \in Seq(Character), Standard(sel), NEW name,
         NEW k, k = Colons(sel), k > 0,
         NEW cstr \in Seq(Character), cstr = Ended(name), Len(cstr) = Len(sel),
         cstr[Len(sel)] = ":", sel[Len(sel)] = ":",
         \A i \in 1..(Len(sel) - 1) : cstr[i] = Underscored(sel)[i]
  PROVE  ColonsPlaced(name, k) = sel
<1> DEFINE n == Len(sel)
           colons == Occurrences(sel, ":")
           others == {i \in colons : i < n}
           found == NonLeading(cstr)
           count == Cardinality(found) + 1
<1>1. /\ n \in Nat /\ DOMAIN sel = 1..n /\ DOMAIN cstr = 1..n
      /\ \A i \in 1..n : sel[i] \in Character
  BY LenProperties
<1>2. /\ colons \in SUBSET (1..n) /\ colons \in SUBSET Nat /\ IsFiniteSet(colons)
      /\ Cardinality(colons) = k /\ k \in Nat
  BY PlacesOf DEF Colons
<1>3. n \in colons /\ n \in 1..n
  <2>1. n # 0
    <3>1. CASE n = 0
      <4>1. colons = {}
        BY <1>2, <3>1
      <4> QED
        BY <1>2, <4>1, FS_EmptySet
    <3> QED
      BY <3>1
  <2> QED
    BY <1>1, <2>1 DEF Occurrences
<1>4. others = colons \ {n} /\ IsFiniteSet(others) /\ Cardinality(others) = k - 1
  <2>1. \A i : i \in others <=> i \in colons /\ i # n
    BY <1>1, <1>2, Before, Zenon
  <2>2. others = colons \ {n}
    BY <2>1
  <2> HIDE DEF others, colons
  <2>3. /\ IsFiniteSet(colons \ {n})
        /\ Cardinality(colons \ {n}) =
             IF n \in colons THEN Cardinality(colons) - 1 ELSE Cardinality(colons)
    BY <1>2, FS_RemoveElement, Zenon
  <2> QED
    BY <1>2, <1>3, <2>2, <2>3, Zenon
<1>5. /\ others \in SUBSET found
      /\ \A i \in found \ others : i \in Occurrences(sel, "_") /\ i < n
  BY <1>3, StandardColons
<1>6. /\ found \in SUBSET Nat /\ found \in SUBSET (1..n)
      /\ IsFiniteSet(found) /\ Cardinality(found) \in Nat
  <2>1. found \in SUBSET Occurrences(cstr, "_")
    BY DEF NonLeading
  <2> QED
    BY <2>1, PlacesOf, FS_Subset, FS_CardinalityType
<1>7. \A i \in found \ others, j \in others : i < j
  <2>1. \A i \in colons, j \in Occurrences(sel, "_") : j < i
    BY DEF Standard
  <2> QED
    BY <1>5, <2>1
<1> HIDE DEF found, others, colons
<1>8. LastPlaces(found, k - 1) = others
  BY <1>4, <1>5, <1>6, <1>7, UpperPlaces
<1>9. Cardinality(others) <= Cardinality(found)
  BY <1>5, <1>6, FS_Subset
<1>10. count >= k
  BY <1>2, <1>4, <1>6, <1>9
<1>11. ColonsPlaced(name, k) = WithColonsAt(cstr, others)
  BY <1>8, <1>10 DEF ColonsPlaced, found
<1> DEFINE t == WithColonsAt(cstr, others)
<1>12. /\ t \in Seq(Character) /\ Len(t) = n
       /\ \A i \in 1..n : t[i] = IF i \in others THEN ":" ELSE cstr[i]
  <2>1. others \in SUBSET (1..n)
    BY <1>5, <1>6
  <2> QED
    BY <2>1, ColonsAdded
<1> HIDE DEF t
<1>13. ASSUME NEW i \in 1..n PROVE t[i] = sel[i]
  <2>1. i \in colons <=> sel[i] = ":"
    BY <1>1 DEF colons, Occurrences
  <2>2. CASE i = n
    BY <1>4, <1>12, <2>2
  <2>3. CASE i # n
    <3>1. i \in 1..(n - 1)
      BY <1>1, <2>3, Before
    <3>2. cstr[i] = IF sel[i] = ":" THEN "_" ELSE sel[i]
      BY <1>1, <3>1, Zenon DEF Underscored
    <3> QED
      BY <1>4, <1>12, <2>1, <2>3, <3>2
  <2> QED
    BY <2>2, <2>3
<1>14. t = sel
  BY <1>12, <1>13, SeqEqual
<1> QED
  BY <1>11, <1>14 DEF t

\* The beginning of a sequence.
LEMMA PrefixOf ==
  ASSUME NEW S, NEW n \in Nat, NEW u \in [1..n -> S], NEW m \in 1..n
  PROVE  /\ SubSeq(u, 1, m) \in Seq(S) /\ Len(SubSeq(u, 1, m)) = m
         /\ \A i \in 1..m : SubSeq(u, 1, m)[i] = u[i]
<1>1. \A i \in 1..m : u[i] \in S
  OBVIOUS
<1>2. m \in Int /\ 1 \in Int /\ 1 <= m /\ m - 1 + 1 = m /\ \A i \in 1..m : 1 + i - 1 = i
  OBVIOUS
<1>3. /\ SubSeq(u, 1, m) \in Seq(S)
      /\ Len(SubSeq(u, 1, m)) = IF 1 <= m THEN m - 1 + 1 ELSE 0
      /\ \A i \in 1..(m - 1 + 1) : SubSeq(u, 1, m)[i] = u[1 + i - 1]
  BY <1>1, <1>2, SubSeqProperties
<1> QED
  BY <1>2, <1>3

\* The last of some places, when it is known.
LEMMA MaxAtEnd ==
  ASSUME NEW m \in Nat, NEW t \in SUBSET (1..m), m \in t
  PROVE  Max({0} \cup t) = m
<1>1. \A x \in {0} \cup t : (\A y \in {0} \cup t : x >= y) <=> x = m
  OBVIOUS
<1> QED
  BY <1>1, Zenon DEF Max

\* A standard selector without colons is its own name, all three times.
LEMMA UncolonedNames ==
  ASSUME NEW sel \in Seq(Character), Standard(sel), Colons(sel) = 0, NEW name \in Names(sel)
  PROVE  name = sel
<1>1. Occurrences(sel, ":") = {}
  BY PlacesOf, FS_EmptySet DEF Colons
<1>2. DOMAIN sel = 1..Len(sel) /\ Len(sel) \in Nat /\ sel \in [1..Len(sel) -> Character]
  BY LenProperties
<1>3. \A i \in 1..Len(sel) : sel[i] # ":"
  BY <1>1, <1>2 DEF Occurrences
<1>4. Underscored(sel) = sel
  BY <1>2, <1>3 DEF Underscored
<1>5. Bare(sel) = sel
  <2>1. PICK m \in 1..Len(sel) :
           /\ sel[m] = Letter /\ \A i \in (m + 1)..Len(sel) : sel[i] = ":"
    BY StandardShape
  <2>2. m = Len(sel)
    <3>1. ~(Len(sel) \in (m + 1)..Len(sel))
      BY <1>2, <1>3, <2>1
    <3> QED
      BY <1>2, <3>1, Behind, Zenon
  <2> DEFINE others == {i \in DOMAIN sel : sel[i] # "_"}
  <2>3. m \in others /\ others \in SUBSET (1..m)
    BY <1>2, <2>1, <2>2 DEF Letter
  <2>4. Max({0} \cup others) = m
    <3> HIDE DEF others
    <3> QED
      BY <2>3, MaxAtEnd
  <2> HIDE DEF others
  <2>5. Bare(sel) = SubSeq(sel, 1, Len(sel))
    BY <2>2, <2>4 DEF Bare, others
  <2> QED
    BY <2>5, SubSeqFull
<1> QED
  BY <1>4, <1>5 DEF Names, PropertyNames

\* A place is not zero.
LEMMA Nonzero ==
  ASSUME NEW n, NEW m \in 1..n
  PROVE  m # 0
OBVIOUS

\* Places around the stem of a name that goes on.
LEMMA Around ==
  ASSUME NEW n \in Nat, NEW m \in 1..n, m < n
  PROVE  /\ m \in Nat /\ n - 1 \in Nat /\ n \in (m + 1)..n /\ n \in 1..n
         /\ \A i \in 1..m : i \in 1..n
         /\ \A i \in 1..(n - 1) : i \in 1..n /\ i # n
         /\ n = m + 1 \/ (m + 1 < n /\ ~(n - m <= 1))
         /\ n = m + 1 => n - 1 = m
         /\ m \in 1..m
OBVIOUS

\* A name none of whose characters is a colon has no colons.
LEMMA NoColons ==
  ASSUME NEW s \in Seq(Character), \A i \in 1..Len(s) : s[i] # ":"
  PROVE  Colons(s) = 0
<1>1. Occurrences(s, ":") = {}
  BY LenProperties DEF Occurrences
<1> QED
  BY <1>1, FS_EmptySet DEF Colons

\* Places of a name of n characters around its place m, and counts of them.
LEMMA Positions ==
  ASSUME NEW n \in Nat, NEW m \in 1..n, m + 1 < n
  PROVE  /\ m \in Nat /\ m + 1 \in Nat /\ m + 1 \in 1..n /\ (m + 1) - 1 = m
         /\ n - (m + 1) \in Nat /\ n - m \in Nat
         /\ m + (n - m) = n /\ (m + 1) + (n - (m + 1)) = n
         /\ m + 1 \in 1..(m + 1) /\ m + 1 <= m + 1
         /\ \A i \in 1..m : /\ i \in 1..n /\ i < m + 1 /\ i <= m + 1
                            /\ i \notin (m + 1)..n /\ i \in 1..(m + 1)
         /\ \A i \in 1..n : i \in 1..m \/ i = m + 1 \/ (i \in (m + 1)..n /\ ~(i <= m + 1))
         /\ \A i \in 1..n : i < m + 1 <=> i \in 1..m
         /\ (m + 1)..n \in SUBSET (1..n) /\ m + 1 \in (m + 1)..n
OBVIOUS

\* What the search compares when the name leaves out colons.
LEMMA CountsAround ==
  ASSUME NEW n \in Nat, NEW m \in 1..n, m + 1 < n, NEW f \in Nat
  PROVE  ~(f + 1 >= f + (n - m) - 0) /\ (f + (n - m) - 0) - (f + 1) = n - (m + 1)
OBVIOUS

\* The search has made cstr of a name that leaves out colons at the end of a selector.
LeavesOut(sel, n, m, name, cstr) ==
  /\ Ended(name) = cstr /\ Last(name) # "_"
  /\ n = Len(sel) /\ m + 1 < n
  /\ Occurrences(sel, "_") = {} /\ \A i \in (m + 1)..n : sel[i] = ":"
  /\ Len(cstr) = m + 1 /\ cstr[m + 1] = ":" /\ \A i \in 1..m : cstr[i] = Underscored(sel)[i]

\* Then the colons inside are found and the others appended.
LEMMA TrailingColons ==
  ASSUME NEW sel \in Seq(Character), Standard(sel), NEW n \in Nat, NEW m \in 1..n,
         NEW name, NEW cstr \in Seq(Character), LeavesOut(sel, n, m, name, cstr)
  PROVE  ColonsPlaced(name, Colons(sel)) = sel
<1>0. m + 1 < n
  BY DEF LeavesOut
<1> DEFINE l == m + 1
           colons == Occurrences(sel, ":")
           found == NonLeading(cstr)
           added == l..n
           k == Colons(sel)
<1>1. DOMAIN sel = 1..n /\ sel \in [1..n -> Character] /\ n = Len(sel)
  BY LenProperties DEF LeavesOut
<1>2. /\ m \in Nat /\ l \in Nat /\ l \in 1..n /\ l - 1 = m /\ n - l \in Nat /\ n - m \in Nat
      /\ m + (n - m) = n /\ l + (n - l) = n /\ l \in 1..l /\ l <= l
  BY <1>0, Positions, Zenon
<1>3. /\ \A i \in 1..m : i \in 1..n /\ i < l /\ i <= l /\ i \notin added /\ i \in 1..l
      /\ \A i \in 1..n : i \in 1..m \/ i = l \/ (i \in added /\ ~(i <= l))
      /\ \A i \in 1..n : i < l <=> i \in 1..m
      /\ added \in SUBSET (1..n) /\ l \in added
  BY <1>0, Positions, Zenon
<1> HIDE DEF l
<1>4. found = {i \in colons : i < l}
  <2>1. {i \in colons : i < l} \in SUBSET found
        /\ \A i \in found \ {i \in colons : i < l} : i \in Occurrences(sel, "_") /\ i < l
    BY <1>2, StandardColons DEF LeavesOut, l
  <2>2. \A i \in Occurrences(sel, "_") : FALSE
    BY DEF LeavesOut
  <2> QED
    BY <2>1, <2>2
<1>5. colons = found \cup added /\ found \cap added = {}
  <2>1. \A i : i \in colons <=> i \in 1..n /\ sel[i] = ":"
    BY <1>1 DEF Occurrences
  <2> HIDE DEF colons, found
  <2>2. \A i : i \in found <=> i \in 1..m /\ i \in colons
    BY <1>3, <1>4, <2>1, Zenon
  <2>3. \A i \in added : i \in 1..n /\ sel[i] = ":"
    BY <1>3 DEF LeavesOut, l
  <2>4. \A i : i \in colons <=> i \in found \/ i \in added
    <3> HIDE DEF added
    <3> QED
      BY <1>3, <2>1, <2>2, <2>3, Zenon DEF added
  <2> HIDE DEF added
  <2> QED
    BY <1>3, <2>2, <2>4, Zenon
<1>6. /\ IsFiniteSet(found) /\ Cardinality(found) \in Nat /\ found \in SUBSET (1..m)
      /\ Cardinality(colons) = k
  <2>1. IsFiniteSet(colons) /\ colons \in SUBSET (1..n)
    BY <1>1, PlacesOf
  <2>2. found \in SUBSET (1..m) /\ found \in SUBSET colons
    BY <1>3, <1>4, <2>1, Zenon
  <2> HIDE DEF found, colons
  <2> QED
    BY <2>1, <2>2, FS_Subset, FS_CardinalityType DEF Colons, colons, k
<1>7. IsFiniteSet(added) /\ Cardinality(added) = n - m
  <2>1. IsFiniteSet((m + 1)..(m + (n - m))) /\ Cardinality((m + 1)..(m + (n - m))) = n - m
    BY <1>2, IntervalCount
  <2> QED
    BY <1>2, <2>1, Zenon DEF l
<1> HIDE DEF found, colons, added, k
<1>8. k = Cardinality(found) + (n - m) - 0
  <2>1. Cardinality(found \cup added)
          = Cardinality(found) + Cardinality(added) - Cardinality(found \cap added)
    BY <1>6, <1>7, FS_Union
  <2> QED
    BY <1>5, <1>6, <1>7, <2>1, FS_EmptySet, Zenon
<1> DEFINE c == Cardinality(found)
<1> HIDE DEF c
<1>9. ~(c + 1 >= k) /\ k - (c + 1) = n - l
  <2>1. c \in Nat /\ k = c + (n - m) - 0
    BY <1>6, <1>8 DEF c
  <2>2. ~(c + 1 >= c + (n - m) - 0) /\ (c + (n - m) - 0) - (c + 1) = n - l
    BY <1>0, <2>1, CountsAround, Zenon DEF l
  <2> QED
    BY <2>1, <2>2, Zenon
<1> DEFINE t == WithColonsAt(cstr, found)
           more == [i \in 1..(n - l) |-> ":"]
           all == t \o more
<1>10. ColonsPlaced(name, k) = all
  BY <1>9, Zenon DEF ColonsPlaced, found, c, k, LeavesOut
<1>11. /\ t \in Seq(Character) /\ Len(t) = l
       /\ \A i \in 1..l : t[i] = IF i \in found THEN ":" ELSE cstr[i]
  <2>1. found \in SUBSET (1..Len(cstr))
    BY <1>3, <1>6 DEF LeavesOut, l
  <2>2. /\ t \in Seq(Character) /\ Len(t) = Len(cstr)
        /\ \A i \in 1..Len(cstr) : t[i] = IF i \in found THEN ":" ELSE cstr[i]
    <3> HIDE DEF more, all
    <3>1. \A p \in SUBSET (1..Len(cstr)) :
            /\ WithColonsAt(cstr, p) \in Seq(Character) /\ Len(WithColonsAt(cstr, p)) = Len(cstr)
            /\ \A i \in 1..Len(cstr) :
                 WithColonsAt(cstr, p)[i] = IF i \in p THEN ":" ELSE cstr[i]
      BY ColonsAdded
    <3> QED
      BY <2>1, <3>1, Zenon
  <2> HIDE DEF t
  <2> QED
    BY <2>2, Zenon DEF LeavesOut, l
<1> HIDE DEF t
<1>12. /\ all \in Seq(Character) /\ Len(all) = l + (n - l)
       /\ \A i \in 1..(l + (n - l)) : all[i] = IF i <= l THEN t[i] ELSE ":"
  <2>1. /\ all \in Seq(Character) /\ Len(all) = Len(t) + (n - l)
        /\ \A i \in 1..(Len(t) + (n - l)) : all[i] = IF i <= Len(t) THEN t[i] ELSE ":"
    <3>1. n - l \in Nat /\ more = [i \in 1..(n - l) |-> ":"]
      BY <1>2
    <3> HIDE DEF more, all
    <3>2. /\ t \o more \in Seq(Character) /\ Len(t \o more) = Len(t) + (n - l)
          /\ \A i \in 1..(Len(t) + (n - l)) :
               (t \o more)[i] = IF i <= Len(t) THEN t[i] ELSE ":"
      <4>1. t \in Seq(Character)
        BY <1>11, Zenon
      <4> QED
        BY ONLY <3>1, <4>1, ColonsBehind
    <3>3. all = t \o more
      BY DEF all
    <3> QED
      BY <3>2, <3>3, Zenon
  <2> HIDE DEF all
  <2> QED
    BY <1>11, <2>1, Zenon
<1> HIDE DEF more, all
<1>13. ASSUME NEW i \in 1..n PROVE all[i] = sel[i]
  <2>0. all[i] = IF i <= l THEN t[i] ELSE ":"
    BY <1>2, <1>12, Zenon
  <2>1. CASE i \in 1..m
    <3>1. i <= l /\ i \in 1..l
      BY <1>3, <2>1, Zenon
    <3>2. all[i] = IF i \in found THEN ":" ELSE cstr[i]
      BY <1>11, <2>0, <3>1, Zenon
    <3>3. i \in found <=> sel[i] = ":"
      BY <1>1, <1>3, <1>4, <2>1, Zenon DEF colons, Occurrences
    <3>4. cstr[i] = IF sel[i] = ":" THEN "_" ELSE sel[i]
      BY <1>1, <1>3, <2>1, Zenon DEF Underscored, LeavesOut
    <3> QED
      BY <3>2, <3>3, <3>4, Zenon
  <2>2. CASE i = l
    <3>1. l \notin found /\ cstr[l] = ":" /\ sel[l] = ":"
      BY <1>3, <1>5, Zenon DEF added, LeavesOut, l
    <3>2. all[l] = t[l] /\ t[l] = cstr[l]
      BY <1>2, <1>11, <2>0, <2>2, <3>1, Zenon
    <3> QED
      BY <2>2, <3>1, <3>2, Zenon
  <2>3. CASE i \in added /\ ~(i <= l)
    <3>1. sel[i] = ":"
      BY <2>3, Zenon DEF added, LeavesOut, l
    <3> QED
      BY <2>0, <2>3, <3>1, Zenon
  <2> QED
    BY <1>3, <2>1, <2>2, <2>3, Zenon
<1>14. Len(all) = Len(sel)
  BY <1>2, <1>12, Zenon DEF LeavesOut
<1>15. all = sel
  BY <1>1, <1>2, <1>12, <1>13, <1>14, SeqEqual DEF LeavesOut
<1> QED
  BY <1>10, <1>15 DEF k

\* Called by one of its names, with as many arguments as it has colons, a standard
\* selector is found.
LEMMA StandardFound ==
  ASSUME NEW sel \in Seq(Character), Standard(sel), NEW name \in Names(sel)
  PROVE  SearchSelector(name, Colons(sel)) = sel
<1> DEFINE n == Len(sel)
           k == Colons(sel)
<1>1. /\ n \in Nat /\ DOMAIN sel = 1..n /\ sel \in [1..n -> Character]
      /\ k \in Nat /\ k = Cardinality(Occurrences(sel, ":"))
  BY LenProperties, PlacesOf DEF Colons
<1>2. CASE k = 0
  BY <1>2, UncolonedNames DEF SearchSelector
<1> HIDE DEF n, k
<1>3. CASE k # 0 /\ name = sel
  BY <1>3 DEF SearchSelector, k
<1>4. CASE k # 0 /\ name # sel
  <2> DEFINE u == Underscored(sel)
  <2>1. PICK m \in 1..n :
           /\ sel[m] = Letter /\ \A i \in (m + 1)..n : sel[i] = ":"
           /\ m < n /\ (Occurrences(sel, "_") # {} => n - m <= 1)
    <3>1. k > 0
      BY <1>1, <1>4
    <3> QED
      BY <3>1, StandardShape DEF n, k
  <2>0. /\ m \in Nat /\ n - 1 \in Nat /\ n \in (m + 1)..n /\ n \in 1..n
        /\ \A i \in 1..m : i \in 1..n
        /\ \A i \in 1..(n - 1) : i \in 1..n /\ i # n
        /\ n = m + 1 \/ (m + 1 < n /\ ~(n - m <= 1))
        /\ n = m + 1 => n - 1 = m
        /\ m \in 1..m
    BY <1>1, <2>1, Around, Zenon
  <2>2. u = [i \in 1..n |-> IF sel[i] = ":" THEN "_" ELSE sel[i]]
    BY <1>1 DEF Underscored
  <2>3. u \in [1..n -> Character \ {":"}]
    BY <1>1, <2>2 DEF Character
  <2>4. u \in Seq(Character) /\ Len(u) = n /\ DOMAIN u = 1..n
    <3>1. u \in [1..n -> Character]
      BY <2>3
    <3> HIDE DEF u
    <3>2. u \in Seq(Character)
      BY <1>1, <3>1, SeqDef
    <3> QED
      BY <1>1, <3>1, <3>2, LenProperties
  <2>5. \A i \in 1..n : u[i] = IF sel[i] = ":" THEN "_" ELSE sel[i]
    BY <2>2
  <2>6. n \in (m + 1)..n /\ n \in 1..n /\ sel[n] = ":" /\ m \in 1..n
    BY <2>0, <2>1, Zenon
  <2>7. Bare(u) = SubSeq(u, 1, m)
    <3> DEFINE others == {i \in DOMAIN u : u[i] # "_"}
    <3>1. ASSUME NEW i \in 1..n, u[i] # "_" PROVE i \in 1..m
      <4>1. ~(i \in (m + 1)..n)
        BY <2>1, <2>5, <3>1
      <4> QED
        BY <1>1, <4>1
    <3>2. m \in others
      BY <2>1, <2>4, <2>5 DEF Letter
    <3>3. Max({0} \cup others) = m
      <4>1. m \in Nat
        BY <2>0
      <4>2. others \in SUBSET (1..m)
        BY <2>4, <3>1
      <4> HIDE DEF others
      <4> QED
        BY <3>2, <4>1, <4>2, MaxAtEnd
    <3> HIDE DEF others, u
    <3> QED
      BY <3>3 DEF Bare, others
  <2>8. name \in {u, SubSeq(u, 1, m)}
    BY <1>4, <2>7 DEF Names, PropertyNames
  <2> HIDE DEF u
  <2> DEFINE bare == SubSeq(u, 1, m)
  <2>9. bare \in Seq(Character) /\ Len(bare) = m /\ \A i \in 1..m : bare[i] = u[i]
    <3>1. u \in [1..n -> Character]
      BY <2>3
    <3> QED
      BY <1>1, <3>1, PrefixOf
  <2> HIDE DEF bare
  <2>10. CASE name = u
    <3>1. Last(u) = "_" /\ u # <<>> /\ Ended(u) = WithColonsAt(u, {n})
      <4>1. u # <<>>
        BY <2>4, <2>6, EmptySeq
      <4>2. Last(u) = u[n]
        BY <2>4, <4>1, LastFront
      <4>3. u[n] = "_"
        BY <2>5, <2>6
      <4> QED
        BY <2>4, <4>1, <4>2, <4>3 DEF Ended
    <3>2. /\ Ended(u) \in Seq(Character) /\ Len(Ended(u)) = n /\ Ended(u)[n] = ":"
          /\ \A i \in 1..(n - 1) : Ended(u)[i] = u[i]
      <4>1. {n} \in SUBSET (1..Len(u))
        BY <2>4, <2>6
      <4>2. /\ WithColonsAt(u, {n}) \in Seq(Character)
            /\ Len(WithColonsAt(u, {n})) = n
            /\ \A i \in 1..n : WithColonsAt(u, {n})[i] = IF i \in {n} THEN ":" ELSE u[i]
        BY <2>4, <4>1, ColonsAdded
      <4> QED
        BY <2>0, <2>6, <3>1, <4>2, Zenon
    <3>3. ColonsPlaced(u, k) = sel
      <4>1. k > 0
        BY <1>1, <1>4
      <4> QED
        BY <2>6, <3>2, <4>1, AllColonsFound DEF u, n, k
    <3>4. Colons(u) = 0
      BY <2>3, <2>4, NoColons
    <3> QED
      BY <1>4, <2>10, <3>3, <3>4 DEF SearchSelector, k
  <2>11. CASE name = bare
    <3>1. bare # <<>> /\ Last(bare) = Letter /\ bare[m] = Letter
      <4>1. bare # <<>>
        <5>1. m # 0
          BY Nonzero
        <5> QED
          BY <2>9, <5>1, EmptySeq, Zenon
      <4>2. Last(bare) = bare[m]
        BY <2>9, <4>1, LastFront
      <4>3. bare[m] = Letter
        <5>1. bare[m] = u[m] /\ u[m] = IF sel[m] = ":" THEN "_" ELSE sel[m]
          BY <2>0, <2>5, <2>9, Zenon
        <5> QED
          BY <2>1, <5>1 DEF Letter
      <4> QED
        BY <4>1, <4>2, <4>3
    <3> DEFINE cstr == Append(bare, ":")
    <3>2. Ended(bare) = cstr
      BY <3>1 DEF Ended, Letter
    <3>3. /\ cstr \in Seq(Character) /\ Len(cstr) = m + 1 /\ cstr[m + 1] = ":"
          /\ \A i \in 1..m : cstr[i] = u[i]
      <4>1. ":" \in Character
        BY DEF Character
      <4> QED
        BY <2>9, <4>1, AppendTop
    <3> HIDE DEF cstr
    <3>4. Colons(bare) = 0
      <4>1. \A i \in 1..m : bare[i] # ":"
        BY <2>0, <2>5, <2>9
      <4> QED
        BY <2>9, <4>1, NoColons
    <3>5. SearchSelector(bare, k) = ColonsPlaced(bare, k)
      BY <1>4, <3>4 DEF SearchSelector
    <3>6. CASE n = m + 1
      <4>1. k > 0 /\ n - 1 = m
        BY <1>1, <1>4, <2>0, <3>6
      <4>2. ColonsPlaced(bare, k) = sel
        BY <2>6, <3>2, <3>3, <3>6, <4>1, AllColonsFound DEF u, n, k
      <4> QED
        BY <2>11, <3>5, <4>2 DEF k
    <3>7. CASE n # m + 1
      <4>1. m + 1 < n
        BY <2>0, <3>7, Zenon
      <4>2. Occurrences(sel, "_") = {}
        BY <2>0, <2>1, <3>7, Zenon
      <4>3. Last(bare) # "_"
        BY <3>1 DEF Letter
      <4>4. LeavesOut(sel, n, m, bare, cstr)
        BY <2>1, <3>2, <4>3, <3>3, <4>1, <4>2, Zenon DEF LeavesOut, u, n
      <4>5. ColonsPlaced(bare, k) = sel
        BY <1>1, <3>3, <4>4, TrailingColons DEF k
      <4> QED
        BY <2>11, <3>5, <4>5 DEF k
    <3> QED
      BY <3>6, <3>7
  <2> QED
    BY <2>8, <2>10, <2>11 DEF bare
<1> QED
  BY <1>2, <1>3, <1>4

-----------------------------------------------------------------------------
\* The calls in progress.  What a search has found is there until the object has answered
\* for it, what an adopter has found until the function is called.
GoodFrame ==
  {f \in Frame :
     /\ f.kind = "method" /\ f.phase = "searched" =>
          f.name \in Name /\ f.sel = SearchSelector(f.name, f.argc)
     /\ f.kind \in Entered /\ ~(f.kind = "method" /\ f.phase = "searched") => f.sel = None
     /\ f.kind = "forward" /\ f.sel # None =>
          f.sel \in Selector /\ f.name \in Names(f.sel) /\ f.argc = Colons(f.sel)}

\* All calls in progress are like that; each of them is pushed so and changed so.
FramesInv == frames \in Seq(GoodFrame)

\* The last of some places is a place, or zero.
LEMMA MaxWithin ==
  ASSUME NEW l \in Nat, NEW t \in SUBSET (1..l)
  PROVE  Max({0} \cup t) \in 0..l
<1>1. CASE t = {}
  <2>1. {0} \cup t = {0} /\ Max({0}) = 0
    BY <1>1 DEF Max
  <2> QED
    BY <2>1
<1>2. CASE t # {}
  <2> DEFINE m == Max(t)
  <2>1. m \in t /\ \A y \in t : y <= m
    BY <1>2, MaxOfSome
  <2> HIDE DEF m
  <2>2. m \in 1..l
    BY <2>1
  <2>3. t \in SUBSET (1..m)
    BY <2>1, <2>2
  <2>4. Max({0} \cup t) = m
    BY <2>1, <2>2, <2>3, MaxAtEnd
  <2> QED
    BY <2>2, <2>4
<1> QED
  BY <1>1, <1>2

\* The names of a selector are names.
LEMMA NamesTyped ==
  ASSUME NEW sel \in Seq(Character), NEW name \in Names(sel)
  PROVE  name \in Seq(Character)
<1>1. Len(sel) \in Nat /\ sel \in [1..Len(sel) -> Character]
  BY LenProperties
<1>2. Underscored(sel) = [i \in 1..Len(sel) |-> IF sel[i] = ":" THEN "_" ELSE sel[i]]
  BY <1>1 DEF Underscored
<1>3. Underscored(sel) \in [1..Len(sel) -> Character]
  BY <1>1, <1>2 DEF Character
<1> DEFINE u == Underscored(sel)
           others == {i \in DOMAIN u : u[i] # "_"}
           m == Max({0} \cup others)
<1>4. u \in Seq(Character) /\ DOMAIN u = 1..Len(sel)
  BY <1>1, <1>3, SeqDef
<1>5. m \in 0..Len(sel)
  <2>1. others \in SUBSET (1..Len(sel))
    BY <1>4
  <2> HIDE DEF others
  <2> QED
    BY <1>1, <2>1, MaxWithin
<1>6. Bare(u) \in Seq(Character)
  <2>1. Bare(u) = SubSeq(u, 1, m)
    BY DEF Bare
  <2> HIDE DEF m, u
  <2>2. \A i \in 1..m : u[i] \in Character
    BY <1>1, <1>3, <1>5 DEF u
  <2> QED
    BY <1>5, <2>1, <2>2, SubSeqProperties
<1> QED
  BY <1>4, <1>6 DEF Names, PropertyNames

\* A frame that is pushed.
LEMMA SearchedFrame ==
  ASSUME NEW name \in Name, NEW argc \in 0..MaxArgs
  PROVE  [kind |-> "method", phase |-> "searched", name |-> name,
          sel |-> SearchSelector(name, argc), argc |-> argc, left |-> argc] \in GoodFrame
<1>1. name \in Seq(Character) /\ name # <<>> /\ argc \in Nat
  BY NameAssumption, BoundsAssumption
<1>2. SearchSelector(name, argc) \in Seq(Character) \cup {None, NoSelector}
  BY <1>1, SearchCounts
<1> QED
  BY <1>1, <1>2 DEF GoodFrame, Frame, Entered

\* A frame that is pushed by a property, a callable or a constructor.
LEMMA PlainFrame ==
  ASSUME NEW kind \in Entered, NEW phase \in {"searched", "converting"}, NEW argc \in 0..MaxArgs,
         ~(kind = "method" /\ phase = "searched")
  PROVE  [kind |-> kind, phase |-> phase, name |-> None, sel |-> None,
          argc |-> argc, left |-> argc] \in GoodFrame
BY DEF GoodFrame, Frame, Entered

\* A frame that is pushed by an adopter.
LEMMA ForwardFrame ==
  ASSUME NEW sel \in Selector, NEW prop \in Names(sel)
  PROVE  [kind |-> "forward", phase |-> "converting", name |-> prop, sel |-> sel,
          argc |-> Colons(sel), left |-> Colons(sel)] \in GoodFrame
<1>1. sel \in Seq(Character) /\ prop \in Seq(Character)
  BY NameAssumption, NamesTyped
<1>2. Colons(sel) \in 0..MaxArgs
  BY <1>1, BoundsAssumption, PlacesOf DEF Colons
<1> QED
  BY <1>1, <1>2 DEF GoodFrame, Frame, Entered

\* What becomes of the innermost one.
LEMMA FrameConverts ==
  ASSUME NEW f \in GoodFrame
  PROVE  /\ f.left > 0 => [f EXCEPT !.left = @ - 1] \in GoodFrame
         /\ [f EXCEPT !.left = 0] \in GoodFrame
<1>1. f.left \in Nat /\ f.left <= MaxArgs /\ 0 \in 0..MaxArgs /\ f \in Frame
  BY BoundsAssumption DEF GoodFrame, Frame
<1>2. ASSUME NEW l \in 0..MaxArgs PROVE [f EXCEPT !.left = l] \in GoodFrame
  BY <1>1, <1>2 DEF GoodFrame, Frame
<1>3. f.left > 0 => f.left - 1 \in 0..MaxArgs
  BY <1>1, BoundsAssumption
<1> QED
  BY <1>1, <1>2, <1>3

\* It goes on to its next phase; what the search found is forgotten.
LEMMA FrameGoesOn ==
  ASSUME NEW f \in GoodFrame, NEW phase \in {"converting", "invoked", "returning"}
  PROVE  /\ f.phase # "searched" => [f EXCEPT !.phase = phase] \in GoodFrame
         /\ [f EXCEPT !.phase = phase, !.name = None, !.sel = None, !.argc = 0] \in GoodFrame
<1>1. 0 \in 0..MaxArgs /\ f \in Frame
  BY BoundsAssumption DEF GoodFrame
<1>2. f.phase # "searched" => [f EXCEPT !.phase = phase] \in GoodFrame
  BY <1>1 DEF GoodFrame, Frame
<1>3. [f EXCEPT !.phase = phase, !.name = None, !.sel = None, !.argc = 0] \in GoodFrame
  BY <1>1 DEF GoodFrame, Frame, Entered
<1> QED
  BY <1>2, <1>3

\* The innermost call ends, or is replaced.
LEMMA FramesPopped ==
  ASSUME FramesInv, frames # <<>>
  PROVE  Top \in GoodFrame /\ Front(frames) \in Seq(GoodFrame)
         /\ \A f \in GoodFrame : Append(Front(frames), f) \in Seq(GoodFrame)
BY LastFront, AppendTop DEF FramesInv, Top

\* A call is added.
LEMMA FramesPushed ==
  ASSUME FramesInv
  PROVE  \A f \in GoodFrame : Append(frames, f) \in Seq(GoodFrame)
BY AppendTop DEF FramesInv

\* The property that a search for a selector finds is one of its names.
LEMMA PropertyIsName ==
  ASSUME NEW sel, NEW properties, SearchProperty(properties, sel) # NoSelector
  PROVE  SearchProperty(properties, sel) \in Names(sel)
<1> DEFINE has == {i \in 1..3 : PropertyNames(sel)[i] \in properties}
<1>1. has # {} /\ has \in SUBSET Nat
  BY DEF SearchProperty
<1>2. Min(has) \in has
  <2> HIDE DEF has
  <2> QED
    BY <1>1, MinOfSome
<1>3. Min(has) \in 1..3 /\ SearchProperty(properties, sel) = PropertyNames(sel)[Min(has)]
  BY <1>1, <1>2 DEF SearchProperty
<1> QED
  BY <1>3, Zenon DEF Names

\* At first there are no calls.
LEMMA InitFrames == Init => FramesInv
BY EmptySeq DEF Init, FramesInv

\* Calls by scripts.
LEMMA EnterKeepsFrames ==
  ASSUME FramesInv, Enter
  PROVE  FramesInv'
<1>1. ASSUME NEW name \in Name, NEW argc \in 0..MaxArgs, Search(name, argc)
      PROVE  FramesInv'
  BY <1>1, SearchedFrame, FramesPushed DEF Search, Push, FramesInv
<1>2. CASE Access("getter", 0) \/ Access("setter", 1)
  <2>1. 0 \in 0..MaxArgs /\ 1 \in 0..MaxArgs
    BY BoundsAssumption
  <2>2. PICK kind \in Entered, argc \in 0..MaxArgs :
          /\ kind # "method"
          /\ frames' = Append(frames, [kind |-> kind, phase |-> "searched", name |-> None,
                                       sel |-> None, argc |-> argc, left |-> argc])
    BY <1>2, <2>1 DEF Access, Push, Entered
  <2> QED
    BY <2>2, PlainFrame, FramesPushed DEF FramesInv
<1>3. CASE CallCallable \/ Construct
  <2>1. 0 \in 0..MaxArgs
    BY BoundsAssumption
  <2>2. PICK kind \in Entered :
          frames' = Append(frames, [kind |-> kind, phase |-> "converting", name |-> None,
                                    sel |-> None, argc |-> 0, left |-> 0])
    BY <1>3 DEF CallCallable, Construct, EnterDirectly, Push, Entered
  <2> QED
    BY <2>1, <2>2, PlainFrame, FramesPushed DEF FramesInv
<1>4. CASE NotAConstructor
  BY <1>4 DEF NotAConstructor, FramesInv
<1>5. CASE Unfound \/ Catch
  BY <1>5, FramesPopped DEF Unfound, Catch, Pop, TopIs, FramesInv
<1>6. CASE Found
  BY <1>6, FramesPopped, FrameGoesOn DEF Found, TopIs, FramesInv
<1>7. ASSUME NEW value \in Value, NEW class \in TypeClass, Argument(value, class)
      PROVE  FramesInv'
  <2>1. frames # <<>> /\ Top.left > 0
        /\ (frames' = Front(frames) \/ frames' = Append(Front(frames), [Top EXCEPT !.left = @ - 1]))
    BY <1>7 DEF Argument, TopIs, Pop
  <2> QED
    BY <2>1, FramesPopped, FrameConverts DEF FramesInv
<1>8. CASE NumberArgument
  BY <1>8, FramesPopped, FrameConverts DEF NumberArgument, TopIs, FramesInv
<1>9. CASE Invoke
  <2>1. /\ frames # <<>> /\ Top.phase = "converting"
        /\ frames' = Append(Front(frames), [Top EXCEPT !.phase = "invoked"])
    BY <1>9 DEF Invoke, TopIs
  <2> QED
    BY <2>1, FramesPopped, FrameGoesOn DEF FramesInv
<1> QED
  BY <1>1, <1>2, <1>3, <1>4, <1>5, <1>6, <1>7, <1>8, <1>9 DEF Enter

\* Results of calls by scripts.
LEMMA ReturnKeepsFrames ==
  ASSUME FramesInv, Return
  PROVE  FramesInv'
<1>1. frames # <<>> /\ frames' = Front(frames)
  BY DEF Return, Result, NumberResult, NoResult, TopIs, Pop
<1> QED
  BY <1>1, FramesPopped DEF FramesInv

\* Calls by native code.
LEMMA ForwardKeepsFrames ==
  ASSUME FramesInv, Forward
  PROVE  FramesInv'
<1>1. ASSUME NEW sel \in Selector, NEW properties \in SUBSET Names(sel),
             ProgramForwards(sel, properties)
      PROVE  FramesInv'
  <2> DEFINE prop == SearchProperty(properties, sel)
  <2>1. CASE prop = NoSelector
    BY <1>1, <2>1 DEF ProgramForwards, FramesInv
  <2>2. CASE prop # NoSelector
    <3>1. prop \in Names(sel)
      BY <2>2, PropertyIsName
    <3>2. frames' = Append(frames, [kind |-> "forward", phase |-> "converting", name |-> prop,
                     sel |-> sel, argc |-> Colons(sel), left |-> Colons(sel)])
      BY <1>1, <2>2 DEF ProgramForwards, Push
    <3> HIDE DEF prop
    <3> QED
      BY <3>1, <3>2, ForwardFrame, FramesPushed DEF FramesInv
  <2> QED
    BY <2>1, <2>2
<1>2. ASSUME NEW class \in TypeClass, ForwardArgument(class)
      PROVE  FramesInv'
  <2>1. frames # <<>> /\ Top.left > 0
        /\ (frames' = Front(frames) \/ frames' = Append(Front(frames), [Top EXCEPT !.left = @ - 1]))
    BY <1>2 DEF ForwardArgument, TopIs, Pop
  <2> QED
    BY <2>1, FramesPopped, FrameConverts DEF FramesInv
<1>3. CASE StartFunction
  BY <1>3, FramesPopped, FrameGoesOn DEF StartFunction, TopIs, FramesInv
<1>4. CASE FunctionReturns
  <2>1. /\ frames # <<>> /\ Top.phase = "invoked"
        /\ frames' = Append(Front(frames), [Top EXCEPT !.phase = "returning"])
    BY <1>4 DEF FunctionReturns, TopIs
  <2> QED
    BY <2>1, FramesPopped, FrameGoesOn DEF FramesInv
<1>5. CASE FunctionFails \/ ForwardEnds
  BY <1>5, FramesPopped DEF FunctionFails, ForwardEnds, Pop, TopIs, FramesInv
<1>6. ASSUME NEW value \in Value, NEW class \in TypeClass, ForwardResult(value, class)
      PROVE  FramesInv'
  BY <1>6, FramesPopped DEF ForwardResult, Pop, TopIs, FramesInv
<1> QED
  BY <1>1, <1>2, <1>3, <1>4, <1>5, <1>6 DEF Forward

\* The program and its scripts.
LEMMA ProgramKeepsFrames ==
  ASSUME FramesInv, Program
  PROVE  FramesInv'
<1>1. CASE ProgramReturns
  <2>1. /\ frames # <<>> /\ Top.phase = "invoked"
        /\ frames' = Append(Front(frames), [Top EXCEPT !.phase = "returning"])
    BY <1>1 DEF ProgramReturns, TopIs
  <2> QED
    BY <2>1, FramesPopped, FrameGoesOn DEF FramesInv
<1>2. CASE ~ProgramReturns
  BY <1>2 DEF Program, ProgramRaises, ProgramCatches, ScriptThrows, ScriptForgets,
              ScriptCatches, ScriptEnds, FramesInv
<1> QED
  BY <1>1, <1>2

\* Every step keeps the calls as they should be.
LEMMA FramesInductive == FramesInv /\ [Next]_vars => FramesInv'
<1>1. FramesInv /\ Next => FramesInv'
  BY EnterKeepsFrames, ReturnKeepsFrames, ForwardKeepsFrames, ProgramKeepsFrames DEF Next
<1>2. FramesInv /\ UNCHANGED vars => FramesInv'
  BY DEF FramesInv, vars
<1> QED
  BY <1>1, <1>2

\* Whatever a script calls a method by, the invocation takes as many arguments as the call
\* has (ColonsMatchArguments).
THEOREM SelectorsFit == Spec => []ColonsMatchArguments
<1>1. FramesInv => ColonsMatchArguments
  <2> SUFFICES ASSUME FramesInv, NEW i \in DOMAIN frames, frames[i].kind = "method",
                      frames[i].sel \notin {None, NoSelector}
               PROVE  Colons(frames[i].sel) = frames[i].argc
    BY DEF ColonsMatchArguments
  <2>1. frames[i] \in GoodFrame
    BY LenProperties DEF FramesInv
  <2>2. /\ frames[i].name \in Name /\ frames[i].argc \in Nat
        /\ frames[i].sel = SearchSelector(frames[i].name, frames[i].argc)
    BY <2>1, BoundsAssumption DEF GoodFrame, Entered, Frame
  <2>3. frames[i].name \in Seq(Character) /\ frames[i].name # <<>>
    BY <2>2, NameAssumption
  <2> QED
    BY <2>2, <2>3, SearchCounts
<1> QED
  BY <1>1, InitFrames, FramesInductive, PTL DEF Spec

\* A script that calls a standard selector by any of its names calls that one
\* (StandardNamesFound): for selectors of any length.
THEOREM NamesAreFound == Spec => []StandardNamesFound
<1>1. FramesInv => StandardNamesFound
  <2> SUFFICES ASSUME FramesInv, NEW i \in DOMAIN frames, frames[i].kind = "method",
                      frames[i].phase = "searched", NEW sel \in Selector,
                      Colons(sel) = frames[i].argc, frames[i].name \in Names(sel), Standard(sel)
               PROVE  frames[i].sel = sel
    BY DEF StandardNamesFound
  <2>1. frames[i] \in GoodFrame
    BY LenProperties DEF FramesInv
  <2>2. frames[i].sel = SearchSelector(frames[i].name, frames[i].argc)
    BY <2>1 DEF GoodFrame
  <2>3. sel \in Seq(Character)
    BY NameAssumption
  <2> QED
    BY <2>2, <2>3, StandardFound
<1> QED
  BY <1>1, InitFrames, FramesInductive, PTL DEF Spec

\* A property that an adopter finds for a standard selector leads a script back to it
\* (ForwardedNamesCallBack).
THEOREM PropertiesLeadBack == Spec => []ForwardedNamesCallBack
<1>1. FramesInv => ForwardedNamesCallBack
  <2> SUFFICES ASSUME FramesInv, NEW i \in DOMAIN frames, frames[i].kind = "forward",
                      frames[i].sel # None, Standard(frames[i].sel)
               PROVE  SearchSelector(frames[i].name, frames[i].argc) = frames[i].sel
    BY DEF ForwardedNamesCallBack
  <2>1. frames[i] \in GoodFrame
    BY LenProperties DEF FramesInv
  <2>2. /\ frames[i].sel \in Selector /\ frames[i].name \in Names(frames[i].sel)
        /\ frames[i].argc = Colons(frames[i].sel)
    BY <2>1 DEF GoodFrame
  <2>3. frames[i].sel \in Seq(Character)
    BY <2>2, NameAssumption
  <2> QED
    BY <2>2, <2>3, StandardFound
<1> QED
  BY <1>1, InitFrames, FramesInductive, PTL DEF Spec

-----------------------------------------------------------------------------
\* Powers of two.
LEMMA PowerStep ==
  ASSUME NEW n \in Nat
  PROVE  2 ^ n \in Nat /\ 2 ^ (n + 1) = 2 * 2 ^ n
<1> DEFINE old == SUBSET (1..n)
           new == {x \cup {n + 1} : x \in old}
           f == [x \in old |-> x \cup {n + 1}]
<1>1. /\ IsFiniteSet(1..n) /\ Cardinality(1..n) = n
      /\ IsFiniteSet(1..(n + 1)) /\ Cardinality(1..(n + 1)) = n + 1
  BY FS_Interval
<1>2. /\ IsFiniteSet(old) /\ Cardinality(old) = 2 ^ n /\ Cardinality(old) \in Nat
      /\ Cardinality(SUBSET (1..(n + 1))) = 2 ^ (n + 1)
  BY <1>1, FS_SUBSET, FS_CardinalityType
<1>3. \A x \in old : n + 1 \notin x
  OBVIOUS
<1>4. ExistsBijection(old, new)
  <2>1. \A x, y \in old : x \cup {n + 1} = y \cup {n + 1} => x = y
    BY <1>3
  <2> HIDE DEF old
  <2>2. f \in Bijection(old, new)
    BY <2>1 DEF Bijection, Injection, Surjection, IsInjective
  <2> QED
    BY <2>2 DEF ExistsBijection
<1>5. IsFiniteSet(new) /\ Cardinality(new) = Cardinality(old)
  <2> HIDE DEF old, new
  <2> QED
    BY <1>2, <1>4, FS_Bijection
<1>6. old \cap new = {}
  BY <1>3
<1>7. SUBSET (1..(n + 1)) = old \cup new
  <2>1. \A i : i \in 1..(n + 1) <=> i \in 1..n \/ i = n + 1
    OBVIOUS
  <2>2. ASSUME NEW x \in SUBSET (1..(n + 1)), n + 1 \in x PROVE x \in new
    <3>1. x \ {n + 1} \in old /\ x = (x \ {n + 1}) \cup {n + 1}
      BY <2>1, <2>2
    <3> QED
      BY <3>1
  <2>3. ASSUME NEW x \in SUBSET (1..(n + 1)), n + 1 \notin x PROVE x \in old
    BY <2>1, <2>3
  <2>4. old \cup new \in SUBSET SUBSET (1..(n + 1))
    BY <2>1
  <2> HIDE DEF old, new
  <2> QED
    BY <2>2, <2>3, <2>4
<1> HIDE DEF old, new
<1>8. Cardinality(old \cup new) = Cardinality(old) + Cardinality(new) - Cardinality(old \cap new)
  BY <1>2, <1>5, FS_Union
<1>9. Cardinality(old \cup new) = Cardinality(old) + Cardinality(old) - 0
  BY <1>5, <1>6, <1>8, FS_EmptySet
<1>10. 2 ^ (n + 1) = 2 ^ n + 2 ^ n - 0
  BY <1>2, <1>7, <1>9
<1>11. 2 ^ n \in Nat
  BY <1>2
<1> QED
  BY <1>10, <1>11

\* Powers of two grow.
LEMMA PowersGrow ==
  ASSUME NEW a \in Nat, NEW d \in Nat
  PROVE  2 ^ a \in Nat \ {0} /\ 2 ^ a <= 2 ^ (a + d)
<1> DEFINE N == {n \in Nat : 2 ^ n \in Nat \ {0}}
           G == {n \in Nat : 2 ^ a <= 2 ^ (a + n)}
<1>1. N = Nat
  <2>1. 2 ^ 0 = 1
    OBVIOUS
  <2>2. ASSUME NEW n \in N PROVE n + 1 \in N
    <3>1. n \in Nat /\ 2 ^ n \in Nat \ {0} /\ 2 ^ (n + 1) = 2 * 2 ^ n
      BY PowerStep
    <3> QED
      BY <3>1
  <2>3. 0 \in N /\ N \in SUBSET Nat
    BY <2>1
  <2> HIDE DEF N
  <2> QED
    BY <2>2, <2>3, NatSetInduction
<1>2. \A n \in Nat : 2 ^ n \in Nat \ {0}
  BY <1>1
<1>3. G = Nat
  <2>1. 0 \in G /\ G \in SUBSET Nat
    <3>1. a + 0 = a /\ 2 ^ a <= 2 ^ a
      BY <1>2
    <3> QED
      BY <3>1
  <2>2. ASSUME NEW n \in G PROVE n + 1 \in G
    <3>1. /\ n \in Nat /\ a + n \in Nat /\ a + (n + 1) = (a + n) + 1
          /\ 2 ^ a <= 2 ^ (a + n)
      OBVIOUS
    <3>2. 2 ^ ((a + n) + 1) = 2 * 2 ^ (a + n)
      BY <3>1, PowerStep
    <3> DEFINE x == 2 ^ a
               y == 2 ^ (a + n)
               z == 2 ^ (a + (n + 1))
    <3>3. x \in Nat /\ y \in Nat /\ z = 2 * y /\ x <= y
      BY <1>2, <3>1, <3>2
    <3> HIDE DEF x, y, z
    <3>4. x <= z
      BY <3>3
    <3> QED
      BY <3>1, <3>4 DEF x, z
  <2> HIDE DEF G
  <2> QED
    BY <2>1, <2>2, NatSetInduction
<1>4. d \in G
  <2> HIDE DEF G
  <2> QED
    BY <1>3
<1> QED
  BY <1>2, <1>4

\* Half of the range of a word of some bits, and that of a wider one.
LEMMA Powers ==
  ASSUME NEW a \in Nat, NEW b \in Nat, a < b
  PROVE  /\ 2 ^ a \in Nat \ {0} /\ 2 ^ b \in Nat \ {0}
         /\ 2 ^ b = 2 * 2 ^ (b - 1) /\ 2 ^ (b - 1) \in Nat \ {0} /\ 2 ^ a <= 2 ^ (b - 1)
<1>1. b - 1 \in Nat /\ (b - 1) + 1 = b /\ (b - 1) - a \in Nat /\ a + ((b - 1) - a) = b - 1
  OBVIOUS
<1>2. 2 ^ a \in Nat \ {0} /\ 2 ^ a <= 2 ^ (a + ((b - 1) - a)) /\ 2 ^ (b - 1) \in Nat \ {0}
      /\ 2 ^ b \in Nat \ {0}
  BY <1>1, PowersGrow
<1>3. 2 ^ ((b - 1) + 1) = 2 * 2 ^ (b - 1)
  BY <1>1, PowerStep
<1> QED
  BY <1>1, <1>2, <1>3

\* Reading words.
LEMMA Halves ==
  ASSUME NEW h \in Nat \ {0}, NEW x \in Int
  PROVE  /\ x % (2 * h) \in 0..(2 * h - 1)
         /\ x \in 0..(2 * h - 1) => x % (2 * h) = x
         /\ x \in -h..-1 => x % (2 * h) = x + 2 * h
<1> DEFINE p == 2 * h
<1>1. p \in Nat \ {0}
  OBVIOUS
<1> HIDE DEF p
<1>2. x % p \in 0..(p - 1) /\ (x \in 0..(p - 1) => x % p = x)
  BY <1>1
<1>3. ASSUME -p <= x, x < 0 PROVE x % p = x + p
  BY <1>1, <1>3
<1>4. x \in -h..-1 => -p <= x /\ x < 0
  BY DEF p
<1> QED
  BY <1>2, <1>3, <1>4 DEF p

\* The low bits of a number, with and without a sign.
LEMMA Words ==
  ASSUME NEW bits \in Nat \ {0}, NEW x \in Int
  PROVE  /\ 2 ^ (bits - 1) \in Nat \ {0}
         /\ Unsigned(x, bits) \in 0..(2 * 2 ^ (bits - 1) - 1)
         /\ Signed(x, bits) \in -(2 ^ (bits - 1))..(2 ^ (bits - 1) - 1)
         /\ x \in -(2 ^ (bits - 1))..(2 ^ (bits - 1) - 1) =>
              Signed(x, bits) = x /\ Signed(Unsigned(x, bits), bits) = x
         /\ x \in 0..(2 * 2 ^ (bits - 1) - 1) =>
              Unsigned(x, bits) = x /\ Unsigned(Signed(x, bits), bits) = x
<1> DEFINE h == 2 ^ (bits - 1)
<1>1. h \in Nat \ {0} /\ 2 ^ bits = 2 * h
  <2>1. bits - 1 \in Nat /\ (bits - 1) + 1 = bits /\ 0 \in Nat
    OBVIOUS
  <2>2. 2 ^ (bits - 1) \in Nat \ {0} /\ 2 ^ ((bits - 1) + 1) = 2 * 2 ^ (bits - 1)
    BY <2>1, PowersGrow, PowerStep
  <2> QED
    BY <2>1, <2>2
<1> HIDE DEF h
<1>2. \A y : Unsigned(y, bits) = y % (2 * h)
  BY <1>1, Zenon DEF Unsigned, h
<1>3. \A y : Signed(y, bits) = IF y % (2 * h) < h THEN y % (2 * h) ELSE (y % (2 * h)) - 2 * h
  BY <1>1, Zenon DEF Signed, Unsigned, h
<1> DEFINE u == x % (2 * h)
           s == IF u < h THEN u ELSE u - 2 * h
<1>4. u \in 0..(2 * h - 1) /\ (x \in 0..(2 * h - 1) => u = x) /\ (x \in -h..-1 => u = x + 2 * h)
  BY <1>1, Halves
<1>5. Unsigned(x, bits) = u /\ Signed(x, bits) = s
  BY <1>2, <1>3
<1> HIDE DEF u
<1>6. u \in Int /\ s \in -h..(h - 1)
  BY <1>1, <1>4
<1>7. x \in -h..(h - 1) => s = x
  BY <1>1, <1>4
<1>8. u % (2 * h) = u
  BY <1>1, <1>4, <1>6, Halves
<1>9. Signed(u, bits) = s
  BY <1>3, <1>8
<1>10. x \in 0..(2 * h - 1) => s % (2 * h) = x
  <2> SUFFICES ASSUME x \in 0..(2 * h - 1) PROVE s % (2 * h) = x
    OBVIOUS
  <2>1. CASE u < h
    BY <1>4, <1>8, <2>1
  <2>2. CASE ~(u < h)
    <3>1. s \in -h..-1 /\ s \in Int /\ s = x - 2 * h
      BY <1>1, <1>4, <2>2
    <3>2. s % (2 * h) = s + 2 * h
      <4> HIDE DEF s
      <4> QED
        BY <1>1, <3>1, Halves
    <3> HIDE DEF s
    <3> QED
      BY <1>1, <3>1, <3>2
  <2> QED
    BY <2>1, <2>2
<1> HIDE DEF s
<1>11. Unsigned(s, bits) = s % (2 * h)
  BY <1>2
<1> QED
  BY <1>1, <1>4, <1>5, <1>6, <1>7, <1>9, <1>10, <1>11 DEF h

\* Doubles.
LEMMA DoubleSmall ==
  ASSUME NEW n \in Int, Magnitude(n) < 2 ^ Mantissa
  PROVE  Double(n) = n
<1>1. Magnitude(n) \in Nat /\ (n < 0 => Magnitude(n) = -n) /\ (n >= 0 => Magnitude(n) = n)
  BY DEF Magnitude
<1> DEFINE Fits(e) == Magnitude(n) < 2 ^ (Mantissa + e)
                      /\ \A d \in 0..(e - 1) : Magnitude(n) >= 2 ^ (Mantissa + d)
           e == CHOOSE e \in 0..LongBits : Fits(e)
<1>2. 0 \in 0..LongBits /\ Mantissa + 0 = Mantissa /\ Mantissa \in Nat /\ 2 ^ Mantissa \in Nat
  BY BitsAssumption, PowersGrow
<1>3. Fits(0)
  BY <1>2
<1>4. ASSUME NEW d \in 0..LongBits, Fits(d) PROVE d = 0
  <2>1. 0 \in 0..(d - 1) => Magnitude(n) >= 2 ^ Mantissa
    BY <1>2, <1>4
  <2>2. ~(0 \in 0..(d - 1))
    BY <1>1, <1>2, <2>1
  <2>3. d \in Nat
    BY BitsAssumption
  <2> QED
    BY <2>2, <2>3
<1>5. e = 0
  <2> HIDE DEF Fits
  <2> QED
    BY <1>2, <1>3, <1>4
<1> HIDE DEF e, Fits
<1> DEFINE unit == 2 ^ e
           down == Magnitude(n) \div unit
           rest == 2 * (Magnitude(n) % unit)
           near == IF rest > unit \/ (rest = unit /\ down % 2 = 1) THEN down + 1 ELSE down
<1>6. Double(n) = IF n < 0 THEN -(near * unit) ELSE near * unit
  BY DEF Double, e, Fits
<1>7. unit = 1
  BY <1>5
<1> HIDE DEF unit
<1>8. down = Magnitude(n) /\ rest = 0
  BY <1>1, <1>7
<1> HIDE DEF down, rest
<1>9. near = Magnitude(n)
  BY <1>7, <1>8
<1> HIDE DEF near
<1> QED
  BY <1>1, <1>6, <1>7, <1>9

\* The first number that needs one bit more is exact as well.
LEMMA DoubleLimit ==
  ASSUME NEW n \in Int, Magnitude(n) = 2 ^ Mantissa
  PROVE  Double(n) = n
<1>1. Magnitude(n) \in Nat /\ (n < 0 => Magnitude(n) = -n) /\ (n >= 0 => Magnitude(n) = n)
  BY DEF Magnitude
<1> DEFINE h == 2 ^ (Mantissa - 1)
           Fits(e) == Magnitude(n) < 2 ^ (Mantissa + e)
                      /\ \A d \in 0..(e - 1) : Magnitude(n) >= 2 ^ (Mantissa + d)
           e == CHOOSE e \in 0..LongBits : Fits(e)
<1>2. /\ Mantissa \in Nat \ {0} /\ LongBits \in Nat /\ 1 \in 0..LongBits
      /\ Mantissa + 0 = Mantissa
  BY BitsAssumption
<1>3. h \in Nat \ {0} /\ 2 ^ Mantissa = 2 * h /\ 2 ^ (Mantissa + 1) = 2 * (2 * h)
  <2>1. 0 \in Nat /\ 0 < Mantissa /\ Mantissa \in Nat
    BY <1>2
  <2>2. 2 ^ Mantissa = 2 * h /\ h \in Nat \ {0}
    BY <2>1, Powers
  <2>3. 2 ^ (Mantissa + 1) = 2 * 2 ^ Mantissa
    BY <2>1, PowerStep
  <2> QED
    BY <2>2, <2>3
<1> HIDE DEF h
<1>4. Fits(1)
  <2>1. \A d \in 0..(1 - 1) : d = 0
    OBVIOUS
  <2>2. Magnitude(n) < 2 ^ (Mantissa + 1)
    BY <1>3
  <2>3. Magnitude(n) >= 2 ^ (Mantissa + 0)
    BY <1>1, <1>2
  <2> QED
    BY <2>1, <2>2, <2>3
<1>5. ASSUME NEW d \in 0..LongBits, Fits(d) PROVE d = 1
  <2>1. d \in Nat
    BY <1>2
  <2>2. d # 0
    BY <1>1, <1>2, <1>5
  <2>3. 1 \in 0..(d - 1) => Magnitude(n) >= 2 ^ (Mantissa + 1)
    BY <1>5
  <2>4. ~(1 \in 0..(d - 1))
    BY <1>3, <2>3
  <2> QED
    BY <2>1, <2>2, <2>4
<1>6. e = 1
  <2> HIDE DEF Fits
  <2> QED
    BY <1>2, <1>4, <1>5
<1> HIDE DEF e, Fits
<1> DEFINE unit == 2 ^ e
           down == Magnitude(n) \div unit
           rest == 2 * (Magnitude(n) % unit)
           near == IF rest > unit \/ (rest = unit /\ down % 2 = 1) THEN down + 1 ELSE down
<1>7. Double(n) = IF n < 0 THEN -(near * unit) ELSE near * unit
  BY DEF Double, e, Fits
<1>8. unit = 2
  <2>1. 2 ^ (0 + 1) = 2 * 2 ^ 0 /\ 2 ^ 0 = 1
    BY PowerStep
  <2> QED
    BY <1>6, <2>1
<1> HIDE DEF unit
<1>9. down = h /\ rest = 0
  BY <1>3, <1>8
<1> HIDE DEF down, rest
<1>10. near = h
  BY <1>8, <1>9
<1> HIDE DEF near
<1> QED
  BY <1>1, <1>3, <1>7, <1>8, <1>10

\* The numbers of a C type.
LEMMA NativeRange ==
  ASSUME NEW type \in NumberType, NEW n \in NativeNumbers(type)
  PROVE  /\ Bits(type) \in Nat \ {0} /\ n \in Int /\ 2 ^ (Bits(type) - 1) \in Nat \ {0}
         /\ IsUnsigned(type) => n \in 0..(2 * 2 ^ (Bits(type) - 1) - 1)
         /\ ~IsUnsigned(type) => n \in -(2 ^ (Bits(type) - 1))..(2 ^ (Bits(type) - 1) - 1)
<1>1. Bits(type) \in Nat \ {0}
  BY BitsAssumption DEF Bits, NumberType, Narrow
<1>2. PICK m \in 0..(2 ^ Bits(type) - 1) : n = Read(m, type)
  BY DEF NativeNumbers
<1> DEFINE h == 2 ^ (Bits(type) - 1)
<1>3. m \in Int
  OBVIOUS
<1>4. /\ h \in Nat \ {0} /\ Unsigned(m, Bits(type)) \in 0..(2 * h - 1)
      /\ Signed(m, Bits(type)) \in -h..(h - 1)
  BY <1>1, <1>3, Words, Zenon
<1>5. n = IF IsUnsigned(type) THEN Unsigned(m, Bits(type)) ELSE Signed(m, Bits(type))
  BY <1>2 DEF Read
<1> HIDE DEF h
<1>6. /\ IsUnsigned(type) => n \in 0..(2 * h - 1)
      /\ ~IsUnsigned(type) => n \in -h..(h - 1)
  BY <1>4, <1>5
<1>7. n \in Int
  BY <1>4, <1>6
<1> QED
  BY <1>1, <1>4, <1>6, <1>7 DEF h

\* The halves of the ranges of the types, from the narrow to the wide ones.
LEMMA WidthsGrow ==
  ASSUME NEW a \in Nat \ {0}, NEW b \in Nat, a < b
  PROVE  /\ 2 ^ (a - 1) \in Nat \ {0} /\ 2 ^ (b - 1) \in Nat \ {0}
         /\ 2 * 2 ^ (a - 1) <= 2 ^ (b - 1)
<1>1. a - 1 \in Nat /\ (a - 1) + 1 = a /\ a \in Nat
  OBVIOUS
<1>2. 2 ^ (a - 1) \in Nat \ {0} /\ 2 ^ a = 2 * 2 ^ (a - 1)
  <2>1. 2 ^ ((a - 1) + 1) = 2 * 2 ^ (a - 1) /\ 2 ^ (a - 1) \in Nat \ {0}
    BY <1>1, PowerStep, PowersGrow, 0 \in Nat
  <2> QED
    BY <1>1, <2>1
<1>3. 2 ^ (b - 1) \in Nat \ {0} /\ 2 ^ a <= 2 ^ (b - 1)
  BY <1>1, Powers
<1> QED
  BY <1>2, <1>3

\* A char or a short survives, although it is read with the sign of the other kind.
LEMMA NarrowSurvives ==
  ASSUME NEW type \in Narrow, NEW n \in NativeNumbers(type),
         NEW js, js = NumberFromType(type, n)
  PROVE  /\ NumberToType(type, js) = n
         /\ n \in 0..(2 ^ (Bits(type) - 1) - 1) => js.n = n
<1> DEFINE bits == Bits(type)
           h == 2 ^ (bits - 1)
           k == 2 ^ (IntBits - 1)
<1>1. /\ bits \in Nat \ {0} /\ IntBits \in Nat \ {0} /\ bits < IntBits
      /\ type \in NumberType /\ (IsUnsigned(type) <=> type \in {"uchar", "ushort"})
  BY BitsAssumption DEF Bits, NumberType, Narrow, IsUnsigned
<1>2. /\ n \in Int /\ h \in Nat \ {0}
      /\ IsUnsigned(type) => n \in 0..(2 * h - 1)
      /\ ~IsUnsigned(type) => n \in -h..(h - 1)
  BY <1>1, NativeRange, Zenon
<1>3. k \in Nat \ {0} /\ 2 * h <= k
  BY <1>1, WidthsGrow
<1>4. NumberToType(type, js) = Read(Signed(js.n, IntBits), type)
  BY <1>1 DEF NumberToType
<1>5. \A x \in Int : x \in -k..(k - 1) => Signed(x, IntBits) = x
  BY <1>1, Words, Zenon
<1>6. CASE IsUnsigned(type)
  <2>1. js.n = Signed(n, bits)
    BY <1>1, <1>6 DEF NumberFromType, JSNumber, JSBoolean
  <2>2. /\ Signed(n, bits) \in -h..(h - 1) /\ Unsigned(Signed(n, bits), bits) = n
        /\ n \in -h..(h - 1) => Signed(n, bits) = n
    BY <1>1, <1>2, <1>6, Words, Zenon
  <2> DEFINE s == Signed(n, bits)
  <2> HIDE DEF s
  <2>3. s \in -h..(h - 1) /\ (n \in -h..(h - 1) => s = n)
    BY <2>2 DEF s
  <2> HIDE DEF h, k, bits
  <2>4. s \in Int /\ s \in -k..(k - 1)
    BY <1>2, <1>3, <2>3
  <2>5. n \in 0..(h - 1) => s = n
    BY <1>2, <2>3
  <2>6. Read(Signed(s, IntBits), type) = n
    BY <1>5, <1>6, <2>2, <2>4 DEF Read, s, bits
  <2> QED
    BY <1>4, <2>1, <2>5, <2>6 DEF s, h, bits
<1>7. CASE ~IsUnsigned(type)
  <2>1. js.n = n \/ js.n = Unsigned(n, bits)
    BY <1>1, <1>7 DEF NumberFromType, JSNumber, JSBoolean, Narrow
  <2>2. /\ Unsigned(n, bits) \in 0..(2 * h - 1) /\ Signed(Unsigned(n, bits), bits) = n
        /\ n \in 0..(2 * h - 1) => Unsigned(n, bits) = n
        /\ Signed(n, bits) = n
    BY <1>1, <1>2, <1>7, Words, Zenon
  <2> DEFINE u == js.n
  <2> HIDE DEF u
  <2>3. /\ (u = n \/ u \in 0..(2 * h - 1)) /\ (n \in 0..(2 * h - 1) => u = n)
        /\ Signed(u, bits) = n
    BY <2>1, <2>2 DEF u
  <2> HIDE DEF h, k, bits
  <2>4. u \in Int /\ u \in -k..(k - 1)
    BY <1>2, <1>3, <1>7, <2>3
  <2>5. n \in 0..(h - 1) => u = n
    BY <1>2, <2>3
  <2>6. Read(Signed(u, IntBits), type) = n
    BY <1>5, <1>7, <2>3, <2>4 DEF Read, bits
  <2> QED
    BY <1>4, <2>5, <2>6 DEF u, h, bits
<1> QED
  BY <1>6, <1>7

\* A wide number survives as far as a double holds it.
LEMMA WideSurvives ==
  ASSUME NEW type \in NumberType \ Narrow, NEW n \in NativeNumbers(type),
         Magnitude(n) <= 2 ^ Mantissa, NEW js, js = NumberFromType(type, n)
  PROVE  NumberToType(type, js) = n /\ js.n = n
<1> DEFINE bits == Bits(type)
           h == 2 ^ (bits - 1)
           word == IF type = "int" THEN IntBits ELSE LongBits
           k == 2 ^ (word - 1)
<1>1. /\ bits \in Nat \ {0} /\ IntBits \in Nat \ {0} /\ LongBits \in Nat \ {0}
      /\ IntBits < LongBits
      /\ type \in NumberType /\ (IsUnsigned(type) <=> type \in {"uint", "ulong"})
      /\ type \in {"int", "uint", "long", "ulong"}
      /\ type \in {"int", "uint"} => bits = IntBits
      /\ type \in {"long", "ulong"} => bits = LongBits
  BY BitsAssumption DEF Bits, NumberType, Narrow, IsUnsigned
<1>2. /\ n \in Int /\ h \in Nat \ {0}
      /\ IsUnsigned(type) => n \in 0..(2 * h - 1)
      /\ ~IsUnsigned(type) => n \in -h..(h - 1)
  BY <1>1, NativeRange, Zenon
<1>3. Double(n) = n
  <2>1. Magnitude(n) \in Nat /\ 2 ^ Mantissa \in Nat
    BY <1>2, BitsAssumption, PowersGrow, 0 \in Nat DEF Magnitude
  <2>2. Magnitude(n) < 2 ^ Mantissa \/ Magnitude(n) = 2 ^ Mantissa
    BY <2>1
  <2> QED
    BY <1>2, <2>2, DoubleSmall, DoubleLimit
<1>4. js.n = n
  BY <1>1, <1>3 DEF NumberFromType, JSNumber
<1>5. NumberToType(type, js) = Read(Signed(n, word), type)
  BY <1>1, <1>4 DEF NumberToType, Narrow
<1>6. CASE type \in {"int", "long"}
  <2>1. word = bits /\ ~IsUnsigned(type)
    BY <1>1, <1>6
  <2>2. Signed(n, bits) = n
    BY <1>1, <1>2, <2>1, Words, Zenon
  <2> HIDE DEF word, bits
  <2> QED
    BY <1>4, <1>5, <2>1, <2>2 DEF Read, bits
<1>7. CASE type = "uint"
  <2>1. word = LongBits /\ bits = IntBits /\ IsUnsigned(type)
    BY <1>1, <1>7
  <2>2. k \in Nat \ {0} /\ 2 * h <= k
    BY <1>1, <2>1, WidthsGrow
  <2>3. Unsigned(n, bits) = n
    BY <1>1, <1>2, <2>1, Words, Zenon
  <2>4. n \in -k..(k - 1)
    <3> HIDE DEF h, k
    <3> QED
      BY <1>2, <2>1, <2>2
  <2>5. Signed(n, word) = n
    BY <1>1, <1>2, <2>1, <2>4, Words, Zenon
  <2> HIDE DEF word, bits
  <2> QED
    BY <1>4, <1>5, <2>1, <2>3, <2>5 DEF Read, bits
<1>8. CASE type = "ulong"
  <2>1. word = bits /\ IsUnsigned(type)
    BY <1>1, <1>8
  <2>2. Unsigned(Signed(n, bits), bits) = n
    BY <1>1, <1>2, <2>1, Words, Zenon
  <2> HIDE DEF word, bits
  <2> QED
    BY <1>4, <1>5, <2>1, <2>2 DEF Read, bits
<1> QED
  BY <1>1, <1>6, <1>7, <1>8

\* Conversions give numbers, the double of any of them too.
LEMMA DoubleTyped ==
  ASSUME NEW n \in Int, Magnitude(n) <= 2 ^ LongBits
  PROVE  Double(n) \in Int
<1> DEFINE Fits(c) == Magnitude(n) < 2 ^ (Mantissa + c)
                      /\ \A d \in 0..(c - 1) : Magnitude(n) >= 2 ^ (Mantissa + d)
           e == CHOOSE c \in 0..LongBits : Fits(c)
           enough == {d \in 0..LongBits : Magnitude(n) < 2 ^ (Mantissa + d)}
<1>1. Magnitude(n) \in Nat /\ LongBits \in Nat /\ Mantissa \in Nat
  BY BitsAssumption DEF Magnitude
<1>2. LongBits \in enough
  <2>1. LongBits < Mantissa + LongBits /\ Mantissa + LongBits \in Nat
    BY <1>1, BitsAssumption
  <2>2. /\ 2 ^ LongBits <= 2 ^ ((Mantissa + LongBits) - 1)
        /\ 2 ^ (Mantissa + LongBits) = 2 * 2 ^ ((Mantissa + LongBits) - 1)
        /\ 2 ^ LongBits \in Nat \ {0} /\ 2 ^ ((Mantissa + LongBits) - 1) \in Nat \ {0}
    BY <1>1, <2>1, Powers
  <2> DEFINE x == 2 ^ LongBits
             y == 2 ^ ((Mantissa + LongBits) - 1)
             z == 2 ^ (Mantissa + LongBits)
  <2>3. x <= y /\ z = 2 * y /\ x \in Nat \ {0} /\ y \in Nat \ {0} /\ Magnitude(n) <= x
    BY <2>2
  <2> HIDE DEF x, y, z
  <2>4. Magnitude(n) < z
    BY <1>1, <2>3
  <2> QED
    BY <1>1, <2>4 DEF z
<1>3. PICK d \in enough : \A y \in enough : d <= y
  <2>1. enough \in SUBSET Nat
    BY <1>1
  <2> HIDE DEF enough
  <2> QED
    BY <1>2, <2>1, LeastExists
<1>4. d \in 0..LongBits /\ Fits(d)
  <2>1. d \in 0..LongBits /\ Magnitude(n) < 2 ^ (Mantissa + d)
    BY <1>3
  <2>2. ASSUME NEW c \in 0..(d - 1) PROVE Magnitude(n) >= 2 ^ (Mantissa + c)
    <3>1. c \in 0..LongBits /\ ~(d <= c) /\ c \in Nat /\ Mantissa + c \in Nat
      BY <1>1, <2>1
    <3>2. ~(Magnitude(n) < 2 ^ (Mantissa + c))
      BY <1>3, <3>1
    <3>3. 2 ^ (Mantissa + c) \in Nat
      BY <3>1, PowerStep
    <3> QED
      BY <1>1, <3>2, <3>3
  <2> QED
    BY <2>1, <2>2
<1>5. e \in 0..LongBits
  <2> HIDE DEF Fits
  <2> QED
    BY <1>4
<1> HIDE DEF e, Fits, enough
<1> DEFINE unit == 2 ^ e
           down == Magnitude(n) \div unit
           rest == 2 * (Magnitude(n) % unit)
           near == IF rest > unit \/ (rest = unit /\ down % 2 = 1) THEN down + 1 ELSE down
<1>6. Double(n) = IF n < 0 THEN -(near * unit) ELSE near * unit
  BY DEF Double, e, Fits
<1>7. unit \in Nat \ {0}
  <2>1. e \in Nat /\ 0 \in Nat
    BY <1>1, <1>5
  <2> QED
    BY <2>1, PowersGrow
<1> HIDE DEF unit
<1>8. down \in Int
  BY <1>1, <1>7
<1> HIDE DEF down
<1>9. near \in Int
  BY <1>8
<1> HIDE DEF near
<1>10. near * unit \in Int
  BY <1>7, <1>9
<1> QED
  BY <1>6, <1>10

\* What is read from the bits of a number is a number.
LEMMA ReadTyped ==
  ASSUME NEW type \in NumberType, NEW x \in Int
  PROVE  Read(x, type) \in Int /\ \A bits \in {IntBits, LongBits} : Signed(x, bits) \in Int
<1>1. /\ Bits(type) \in Nat \ {0} /\ IntBits \in Nat \ {0} /\ LongBits \in Nat \ {0}
  BY BitsAssumption DEF Bits, NumberType, Narrow
<1>2. \A bits \in Nat \ {0} : Unsigned(x, bits) \in Int /\ Signed(x, bits) \in Int
  <2> SUFFICES ASSUME NEW bits \in Nat \ {0}
               PROVE  Unsigned(x, bits) \in Int /\ Signed(x, bits) \in Int
    OBVIOUS
  <2> DEFINE h == 2 ^ (bits - 1)
  <2>1. /\ h \in Nat \ {0} /\ Unsigned(x, bits) \in 0..(2 * h - 1)
        /\ Signed(x, bits) \in -h..(h - 1)
    BY Words, Zenon
  <2> HIDE DEF h
  <2> QED
    BY <2>1
<1> QED
  BY <1>1, <1>2 DEF Read

\* A number, what a script makes of it, and what comes back.
LEMMA ConversionsTyped ==
  ASSUME NEW type \in NumberType, NEW n \in NativeNumbers(type),
         NEW js, js = NumberFromType(type, n)
  PROVE  /\ n \in Int /\ js \in [is : {"number", "boolean"}, n : Int]
         /\ NumberToType(type, js) \in Int
<1>1. n \in Int /\ Bits(type) \in Nat \ {0} /\ LongBits \in Nat /\ Bits(type) <= LongBits
  BY NativeRange, BitsAssumption DEF Bits, NumberType, Narrow
<1>2. Magnitude(n) <= 2 ^ LongBits
  <2> DEFINE b == Bits(type)
             h == 2 ^ (b - 1)
             p == 2 ^ LongBits
  <2>1. /\ h \in Nat \ {0}
        /\ IsUnsigned(type) => n \in 0..(2 * h - 1)
        /\ ~IsUnsigned(type) => n \in -h..(h - 1)
    BY NativeRange, Zenon
  <2>2. 2 * h <= p /\ p \in Nat
    <3>1. b \in Nat /\ b - 1 \in Nat /\ (b - 1) + 1 = b
      BY <1>1
    <3>2. LongBits - b \in Nat /\ b + (LongBits - b) = LongBits
      BY <1>1
    <3>3. 2 ^ ((b - 1) + 1) = 2 * h
      BY <3>1, PowerStep
    <3>4. 2 ^ b <= 2 ^ (b + (LongBits - b))
      BY <3>1, <3>2, PowersGrow
    <3>5. p \in Nat
      BY <1>1, PowerStep
    <3> QED
      BY <3>1, <3>2, <3>3, <3>4, <3>5
  <2> HIDE DEF h, p
  <2>3. Magnitude(n) <= p
    BY <1>1, <2>1, <2>2 DEF Magnitude
  <2> QED
    BY <2>3 DEF p
<1>3. Double(n) \in Int
  BY <1>1, <1>2, DoubleTyped
<1>4. Unsigned(n, Bits(type)) \in Int /\ Signed(n, Bits(type)) \in Int
  <2> DEFINE h == 2 ^ (Bits(type) - 1)
  <2>1. /\ h \in Nat \ {0} /\ Unsigned(n, Bits(type)) \in 0..(2 * h - 1)
        /\ Signed(n, Bits(type)) \in -h..(h - 1)
    BY <1>1, Words, Zenon
  <2> HIDE DEF h
  <2> QED
    BY <2>1
<1>5. js \in [is : {"number", "boolean"}, n : Int]
  BY <1>1, <1>3, <1>4 DEF NumberFromType, JSNumber, JSBoolean, NumberType, Narrow
<1>6. js.n \in Int
  BY <1>5
<1>7. NumberToType(type, js) \in Int
  <2>1. \A bits \in {IntBits, LongBits} : Signed(js.n, bits) \in Int
    BY <1>6, ReadTyped
  <2> QED
    BY <2>1, ReadTyped DEF NumberToType
<1> QED
  BY <1>1, <1>5, <1>7

\* A number on its way, as the conversions have made it.
NumberInv ==
  number = None \/
  \E type \in NumberType : \E n \in NativeNumbers(type) :
    \E got \in {None, NumberToType(type, NumberFromType(type, n))} :
      number = [type |-> type, sent |-> n, js |-> NumberFromType(type, n), got |-> got]

\* Every step keeps it so.
LEMMA NumberInductive == NumberInv /\ [Next]_vars => NumberInv'
<1> SUFFICES ASSUME NumberInv, [Next]_vars PROVE NumberInv'
  OBVIOUS
<1>1. ASSUME number' = None \/ number' = number PROVE NumberInv'
  BY <1>1 DEF NumberInv
<1>2. CASE Enter
  <2>1. CASE NumberArgument
    <3>1. /\ number # None
          /\ number' = [number EXCEPT !.got = NumberToType(number.type, number.js)]
      BY <2>1 DEF NumberArgument
    <3> DEFINE Made(type, n) ==
                 \E got \in {None, NumberToType(type, NumberFromType(type, n))} :
                   number = [type |-> type, sent |-> n, js |-> NumberFromType(type, n),
                             got |-> got]
    <3>4. PICK type \in NumberType : \E n \in NativeNumbers(type) : Made(type, n)
      BY <3>1 DEF NumberInv
    <3>2. PICK n \in NativeNumbers(type) : Made(type, n)
      BY <3>4
    <3>3. number' = [type |-> type, sent |-> n, js |-> NumberFromType(type, n),
                     got |-> NumberToType(type, NumberFromType(type, n))]
      BY <3>1, <3>2
    <3> QED
      BY <3>3 DEF NumberInv
  <2>2. CASE ~NumberArgument
    <3>1. number' = None \/ number' = number
      BY <1>2, <2>2 DEF Enter, Search, Access, CallCallable, Construct, EnterDirectly,
           NotAConstructor, Unfound, Found, Argument, Invoke, Catch
    <3> QED
      BY <1>1, <3>1
  <2> QED
    BY <2>1, <2>2
<1>3. CASE Return
  <2>1. CASE \E type \in NumberType : \E n \in NativeNumbers(type) : NumberResult(type, n)
    BY <2>1 DEF NumberResult, NumberInv
  <2>2. CASE NoResult \/ \E class \in TypeClass : Result(class)
    BY <1>1, <2>2 DEF NoResult, Result
  <2> QED
    BY <1>3, <2>1, <2>2 DEF Return
<1>4. CASE Forward
  BY <1>1, <1>4 DEF Forward, ProgramForwards, ForwardArgument, StartFunction, FunctionReturns,
    FunctionFails, ForwardResult, ForwardEnds
<1>5. CASE Program
  BY <1>1, <1>5 DEF Program, ProgramReturns, ProgramRaises, ProgramCatches, ScriptThrows,
    ScriptForgets, ScriptCatches, ScriptEnds
<1>6. CASE UNCHANGED vars
  BY <1>1, <1>6 DEF vars
<1> QED
  BY <1>2, <1>3, <1>4, <1>5, <1>6 DEF Next

\* A number of any C type that goes to a script and back is what it was, up to the size a
\* double holds (NumbersSurvive): for words of any widths.
THEOREM NumbersComeBack == Spec => []NumbersSurvive
<1>1. NumberInv => NumbersSurvive
  <2> SUFFICES ASSUME NumberInv, number # None, Magnitude(number.sent) <= 2 ^ Mantissa
               PROVE  /\ number.got # None => number.got = number.sent
                      /\ number.js.n # number.sent =>
                           number.type \in Narrow
                           /\ number.sent \notin 0..(2 ^ (Bits(number.type) - 1) - 1)
    BY DEF NumbersSurvive
  <2> DEFINE Made(type, n) ==
               \E got \in {None, NumberToType(type, NumberFromType(type, n))} :
                 number = [type |-> type, sent |-> n, js |-> NumberFromType(type, n),
                           got |-> got]
  <2>5. PICK type \in NumberType : \E n \in NativeNumbers(type) : Made(type, n)
    BY DEF NumberInv
  <2>6. PICK n \in NativeNumbers(type) : Made(type, n)
    BY <2>5
  <2>1. PICK got \in {None, NumberToType(type, NumberFromType(type, n))} :
             number = [type |-> type, sent |-> n, js |-> NumberFromType(type, n), got |-> got]
    BY <2>6
  <2> HIDE DEF Made
  <2> DEFINE js == NumberFromType(type, n)
  <2>2. /\ NumberToType(type, js) = n
        /\ js.n # n => type \in Narrow /\ n \notin 0..(2 ^ (Bits(type) - 1) - 1)
    <3>1. CASE type \in Narrow
      BY <3>1, NarrowSurvives
    <3>2. CASE type \notin Narrow
      <4>1. Magnitude(n) <= 2 ^ Mantissa
        BY <2>1
      <4> QED
        BY <3>2, <4>1, WideSurvives
    <3> QED
      BY <3>1, <3>2
  <2>3. /\ number.type = type /\ number.sent = n /\ number.js = js /\ number.got = got
    BY <2>1
  <2> HIDE DEF js
  <2>4. got = None \/ got = NumberToType(type, js)
    BY DEF js
  <2> QED
    BY <2>2, <2>3, <2>4, Zenon
<1>2. Init => NumberInv
  BY DEF Init, NumberInv
<1> QED
  BY <1>1, <1>2, NumberInductive, PTL DEF Spec

\* The rest of the state is of its type.
StateTyped ==
  /\ outer \in {"script", "program"} /\ convertible \in BOOLEAN
  /\ control \in Control
  /\ pending \in BOOLEAN /\ dropped \in BOOLEAN /\ mute \in BOOLEAN

\* Every step keeps the rest of the state of its type.
LEMMA StateInductive == StateTyped /\ [Next]_vars => StateTyped'
<1> SUFFICES ASSUME StateTyped, [Next]_vars PROVE StateTyped'
  OBVIOUS
<1> USE DEF StateTyped, Control
<1>1. CASE Enter
  <2>1. ASSUME NEW value \in Value, NEW class \in TypeClass, Argument(value, class)
        PROVE  StateTyped'
    BY <2>1 DEF Argument, FailWithException, ToType, Outcomes
  <2>2. CASE ~\E value \in Value, class \in TypeClass : Argument(value, class)
    BY <1>1, <2>2 DEF Enter, Search, Access, CallCallable, Construct, EnterDirectly,
         NotAConstructor, Unfound, Found, NumberArgument, Invoke, Catch, FailWithException
  <2> QED
    BY <2>1, <2>2
<1>2. CASE Return
  BY <1>2 DEF Return, Result, NumberResult, NoResult
<1>3. CASE Forward
  <2>1. ASSUME NEW sel \in Selector, NEW properties \in SUBSET Names(sel),
               ProgramForwards(sel, properties)
        PROVE  StateTyped'
    <3>1. control' \in {"raising", control} /\ UNCHANGED <<outer, convertible, pending, dropped, mute>>
      BY <2>1 DEF ProgramForwards
    <3> QED
      BY <3>1
  <2>2. ASSUME NEW class \in TypeClass, ForwardArgument(class)
        PROVE  StateTyped'
    BY <2>2 DEF ForwardArgument
  <2>3. CASE StartFunction \/ FunctionReturns \/ FunctionFails \/ ForwardEnds
    BY <2>3 DEF StartFunction, FunctionReturns, FunctionFails, ForwardEnds, LeaveScripts
  <2>4. ASSUME NEW value \in Value, NEW class \in TypeClass, ForwardResult(value, class)
        PROVE  StateTyped'
    BY <2>4 DEF ForwardResult, ToType, Outcomes
  <2> QED
    BY <1>3, <2>1, <2>2, <2>3, <2>4 DEF Forward
<1>4. CASE Program
  BY <1>4 DEF Program, ProgramReturns, ProgramRaises, ProgramCatches, ScriptThrows,
    ScriptForgets, ScriptCatches, ScriptEnds, FailWithException
<1>5. CASE UNCHANGED vars
  BY <1>5 DEF vars
<1> QED
  BY <1>1, <1>2, <1>3, <1>4, <1>5 DEF Next

\* Calls, numbers and failures are of their types, whatever calls nest (TypeOK): no call has
\* more arguments than fit, and what the conversions make of a number is always a number.
THEOREM CallsTyped == Spec => []TypeOK
<1>1. FramesInv /\ NumberInv /\ StateTyped => TypeOK
  <2> SUFFICES ASSUME FramesInv, NumberInv, StateTyped PROVE TypeOK
    OBVIOUS
  <2>1. frames \in Seq(Frame)
    <3>1. GoodFrame \in SUBSET Frame
      BY DEF GoodFrame
    <3> QED
      BY <3>1, LenProperties, SeqDef DEF FramesInv
  <2>2. number \in Crossing \cup {None}
    <3>1. ASSUME NEW type \in NumberType, NEW n \in NativeNumbers(type),
                 NEW got \in {None, NumberToType(type, NumberFromType(type, n))},
                 number = [type |-> type, sent |-> n, js |-> NumberFromType(type, n),
                           got |-> got]
          PROVE  number \in Crossing
      <4> DEFINE js == NumberFromType(type, n)
      <4>1. /\ n \in Int /\ js \in [is : {"number", "boolean"}, n : Int]
            /\ NumberToType(type, js) \in Int
        BY ConversionsTyped
      <4>2. number = [type |-> type, sent |-> n, js |-> js, got |-> got]
        BY <3>1
      <4>3. got \in Int \cup {None}
        BY <4>1
      <4> HIDE DEF js
      <4> QED
        BY <4>1, <4>2, <4>3 DEF Crossing
    <3> QED
      BY <3>1 DEF NumberInv
  <2> QED
    BY <2>1, <2>2 DEF TypeOK, StateTyped
<1>2. Init => FramesInv /\ NumberInv /\ StateTyped
  BY InitFrames DEF Init, NumberInv, StateTyped, Control
<1> QED
  BY <1>1, <1>2, FramesInductive, NumberInductive, StateInductive, PTL DEF Spec
=============================================================================
