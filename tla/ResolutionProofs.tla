--------------------------- MODULE ResolutionProofs ---------------------------
(***************************************************************************)
(* Theorems about Resolution, for any contexts, classes, objects and names. *)
(***************************************************************************)
EXTENDS Resolution, StackLemmas, SequenceTheorems, TLAPS

\* The name that the outermost hook of c runs for.
Goal(c) == IF wanted[c] \in Object THEN ClassOf[wanted[c]] ELSE wanted[c]

\* Hooks run only below a look, the outermost for what is wanted, and each has counted
\* itself once: what the refusals and the looks that find their class rest on.
HooksNest ==
  \A c \in Context :
    /\ internal[c] = Len(resolving[c])
    /\ wanted[c] = None => resolving[c] = <<>>
    /\ resolving[c] # <<>> => resolving[c][1] = Goal(c)

Resolved == \A c \in Context : resolving[c] = <<>> /\ Goal(c) \in Class => entry[c][Goal(c)] = Goal(c)

ResolutionInv == TypeOK /\ EntryHoldsItsClasses /\ HooksNest /\ Resolved

-----------------------------------------------------------------------------
\* What pushing and popping a hook does to the stack of one context.

LEMMA PushHook ==
  ASSUME NEW S, NEW s \in Seq(S), NEW n \in S
  PROVE  /\ Append(s, n) \in Seq(S) /\ Append(s, n) # <<>>
         /\ Len(Append(s, n)) = Len(s) + 1
         /\ Append(s, n)[1] = IF s = <<>> THEN n ELSE s[1]
<1>1. s # <<>> => 1 \in 1..Len(s)
  BY LenProperties, EmptySeq
<1>2. s = <<>> => Len(s) = 0
  BY EmptySeq
<1> QED BY <1>1, <1>2, AppendTop

LEMMA PopHook ==
  ASSUME NEW S, NEW s \in Seq(S), s # <<>>
  PROVE  /\ Front(s) \in Seq(S) /\ Len(Front(s)) = Len(s) - 1
         /\ Last(s) \in S /\ Len(s) \in Nat \ {0}
         /\ Front(s) # <<>> => Front(s)[1] = s[1]
         /\ Front(s) = <<>> => Last(s) = s[1]
<1>1. Front(s) # <<>> => 1 \in 1..(Len(s) - 1)
  BY LastFront, LenProperties, EmptySeq
<1>2. Len(Front(s)) = Len(s) - 1 /\ Len(s) \in Nat \ {0} /\ Last(s) = s[Len(s)]
  BY LastFront
<1>3. Front(s) = <<>> => Len(s) = 1
  BY <1>2, EmptySeq
<1> QED BY <1>1, <1>2, <1>3, LastFront

LEMMA InitInv == Init => ResolutionInv
BY NoneAssumption, ClassAssumption, DeclaredAssumption
   DEF Named, Init, ResolutionInv, TypeOK, HooksTypeOK, NamesTypeOK, EntryHoldsItsClasses, HooksNest, Resolved, Goal

\* The updates that steps of hooks and looks are made of keep the types.
LEMMA HookUpdates ==
  ASSUME TypeOK, NEW c \in Context
  PROVE  /\ Count(c) \in [Context -> Nat]
         /\ internal[c] # 0 => Uncount(c) \in [Context -> Nat]
         /\ \A n \in Named : [resolving EXCEPT ![c] = Append(@, n)] \in [Context -> Seq(Named)]
         /\ resolving[c] # <<>> => [resolving EXCEPT ![c] = Front(@)] \in [Context -> Seq(Named)]
         /\ \A w \in Named \cup Object \cup {None} :
              [wanted EXCEPT ![c] = w] \in [Context -> Named \cup Object \cup {None}]
         /\ \A n \in Named :
              [entry EXCEPT ![c][n] = n] \in [Context -> [Named -> Named \cup {None, Junk}]]
         /\ \A o \in Object : [wrapped EXCEPT ![c] = @ \cup {o}] \in [Context -> SUBSET Object]
<1>1. internal \in [Context -> Nat]
  BY DEF TypeOK, HooksTypeOK
<1>2. Count(c) \in [Context -> Nat] /\ (internal[c] # 0 => Uncount(c) \in [Context -> Nat])
  BY <1>1 DEF Count, Uncount
<1>3. /\ \A n \in Named : [resolving EXCEPT ![c] = Append(@, n)] \in [Context -> Seq(Named)]
      /\ resolving[c] # <<>> => [resolving EXCEPT ![c] = Front(@)] \in [Context -> Seq(Named)]
  BY StacksOfMany, Zenon DEF TypeOK, HooksTypeOK
<1>4. \A w \in Named \cup Object \cup {None} :
        [wanted EXCEPT ![c] = w] \in [Context -> Named \cup Object \cup {None}]
  BY UpdateType, Zenon DEF TypeOK, HooksTypeOK
<1>5. \A n \in Named :
        [entry EXCEPT ![c][n] = n] \in [Context -> [Named -> Named \cup {None, Junk}]]
  <2>1. entry \in [Context -> [Named -> Named \cup {None, Junk}]]
    BY DEF TypeOK, HooksTypeOK
  <2> QED BY <2>1
<1>6. \A o \in Object : [wrapped EXCEPT ![c] = @ \cup {o}] \in [Context -> SUBSET Object]
  <2>1. wrapped \in [Context -> SUBSET Object]
    BY DEF TypeOK, HooksTypeOK
  <2> QED BY <2>1
<1> QED BY <1>2, <1>3, <1>4, <1>5, <1>6, Zenon

\* What is left to show of the types after them.
LEMMA HookTypes ==
  ASSUME TypeOK, UNCHANGED names,
         internal' \in [Context -> Nat],
         entry' \in [Context -> [Named -> Named \cup {None, Junk}]],
         resolving' \in [Context -> Seq(Named)],
         wanted' \in [Context -> Named \cup Object \cup {None}],
         wrapped' \in [Context -> SUBSET Object]
  PROVE  TypeOK'
BY DEF TypeOK, HooksTypeOK, NamesTypeOK, names

LEMMA ReadStep ==
  ASSUME ResolutionInv, NEW c \in Context, NEW n \in Named, Read(c, n)
  PROVE  ResolutionInv'
<1>1. TypeOK'
  <2>1. TypeOK /\ UNCHANGED names
    BY DEF ResolutionInv, Read, GetProperty
  <2>2. internal' \in [Context -> Nat] /\ resolving' \in [Context -> Seq(Named)]
    <3>1. \/ resolving' = [resolving EXCEPT ![c] = Append(@, n)] /\ internal' = Count(c)
          \/ resolving' = resolving /\ internal' = internal
      BY DEF Read, GetProperty
    <3>2. Count(c) \in [Context -> Nat] /\ [resolving EXCEPT ![c] = Append(@, n)] \in [Context -> Seq(Named)]
      BY <2>1, HookUpdates
    <3>3. internal \in [Context -> Nat] /\ resolving \in [Context -> Seq(Named)]
      BY <2>1 DEF TypeOK, HooksTypeOK
    <3> QED BY <3>1, <3>2, <3>3, Zenon
  <2>3. /\ entry' \in [Context -> [Named -> Named \cup {None, Junk}]]
        /\ wanted' \in [Context -> Named \cup Object \cup {None}]
        /\ wrapped' \in [Context -> SUBSET Object]
    BY <2>1, HookUpdates, Zenon DEF TypeOK, HooksTypeOK, Read, GetProperty
  <2> QED BY <2>1, <2>2, <2>3, HookTypes
<1>2. EntryHoldsItsClasses'
  BY DEF ResolutionInv, EntryHoldsItsClasses, Read
<1>3. n \notin Object /\ n # None
  BY NoneAssumption
<1>4. resolving[c] = <<>> /\ internal[c] = 0
  BY DEF ResolutionInv, HooksNest, Read, Idle
<1>5. CASE entry[c][n] = None
  <2>1. resolving' = [resolving EXCEPT ![c] = Append(@, n)] /\ internal' = Count(c)
    BY <1>5 DEF Read, GetProperty
  <2>2. wanted' = [wanted EXCEPT ![c] = n] /\ UNCHANGED entry
    BY DEF Read
  <2>3. HooksNest'
    BY <1>3, <1>4, <2>1, <2>2, PushHook DEF ResolutionInv, TypeOK, HooksTypeOK, HooksNest, Goal, Count
  <2>4. Resolved'
    BY <1>3, <1>4, <2>1, <2>2, PushHook DEF ResolutionInv, TypeOK, HooksTypeOK, Resolved, Goal
  <2> QED BY <1>1, <1>2, <2>3, <2>4 DEF ResolutionInv
<1>6. CASE entry[c][n] # None
  <2>1. UNCHANGED <<resolving, internal>>
    BY <1>6 DEF Read, GetProperty
  <2>2. wanted' = [wanted EXCEPT ![c] = n] /\ UNCHANGED entry
    BY DEF Read
  <2>3. HooksNest'
    BY <1>3, <1>4, <2>1, <2>2 DEF ResolutionInv, TypeOK, HooksTypeOK, HooksNest, Goal
  <2>4. entry[c][n] = n
    BY <1>6 DEF ResolutionInv, EntryHoldsItsClasses
  <2>5. Resolved'
    BY <1>3, <2>1, <2>2, <2>4 DEF ResolutionInv, TypeOK, HooksTypeOK, Resolved, Goal
  <2> QED BY <1>1, <1>2, <2>3, <2>5 DEF ResolutionInv
<1> QED BY <1>5, <1>6

LEMMA WrapStep ==
  ASSUME ResolutionInv, NEW c \in Context, NEW o \in Object, Wrap(c, o)
  PROVE  ResolutionInv'
<1> DEFINE n == ClassOf[o]
<1>0. n \in Named
  BY ClassAssumption
<1>1. TypeOK'
  <2>1. TypeOK /\ UNCHANGED names
    BY DEF ResolutionInv, Wrap, GetProperty
  <2>2. internal' \in [Context -> Nat] /\ resolving' \in [Context -> Seq(Named)]
    <3>1. \/ resolving' = [resolving EXCEPT ![c] = Append(@, ClassOf[o])] /\ internal' = Count(c)
          \/ resolving' = resolving /\ internal' = internal
      BY DEF Wrap, GetProperty
    <3>2. Count(c) \in [Context -> Nat] /\ [resolving EXCEPT ![c] = Append(@, ClassOf[o])] \in [Context -> Seq(Named)]
      BY <1>0, <2>1, HookUpdates
    <3>3. internal \in [Context -> Nat] /\ resolving \in [Context -> Seq(Named)]
      BY <2>1 DEF TypeOK, HooksTypeOK
    <3> QED BY <3>1, <3>2, <3>3, Zenon
  <2>3. /\ entry' \in [Context -> [Named -> Named \cup {None, Junk}]]
        /\ wanted' \in [Context -> Named \cup Object \cup {None}]
        /\ wrapped' \in [Context -> SUBSET Object]
    BY <1>0, <2>1, HookUpdates, Zenon DEF TypeOK, HooksTypeOK, Wrap, GetProperty
  <2> QED BY <2>1, <2>2, <2>3, HookTypes
<1>2. EntryHoldsItsClasses'
  BY DEF ResolutionInv, EntryHoldsItsClasses, Wrap
<1>3. o # None
  BY NoneAssumption
<1>4. resolving[c] = <<>> /\ internal[c] = 0
  BY DEF ResolutionInv, HooksNest, Wrap, Idle
<1>a. wanted' = [wanted EXCEPT ![c] = o] /\ UNCHANGED entry
  BY DEF Wrap
<1>5. CASE entry[c][n] = None
  <2>1. resolving' = [resolving EXCEPT ![c] = Append(@, n)] /\ internal' = Count(c)
    BY <1>5 DEF Wrap, GetProperty
  <2>3. HooksNest'
    BY <1>0, <1>3, <1>4, <1>a, <2>1, PushHook DEF ResolutionInv, TypeOK, HooksTypeOK, HooksNest, Goal, Count
  <2>4. Resolved'
    BY <1>0, <1>3, <1>4, <1>a, <2>1, PushHook DEF ResolutionInv, TypeOK, HooksTypeOK, Resolved, Goal
  <2> QED BY <1>1, <1>2, <2>3, <2>4 DEF ResolutionInv
<1>6. CASE entry[c][n] # None
  <2>1. UNCHANGED <<resolving, internal>>
    BY <1>6 DEF Wrap, GetProperty
  <2>3. HooksNest'
    BY <1>3, <1>4, <1>a, <2>1 DEF ResolutionInv, TypeOK, HooksTypeOK, HooksNest, Goal
  <2>4. entry[c][n] = n
    BY <1>0, <1>6 DEF ResolutionInv, EntryHoldsItsClasses
  <2>5. Resolved'
    BY <1>3, <1>a, <2>1, <2>4 DEF ResolutionInv, TypeOK, HooksTypeOK, Resolved, Goal
  <2> QED BY <1>1, <1>2, <2>3, <2>5 DEF ResolutionInv
<1> QED BY <1>5, <1>6

LEMMA ResolveNothingStep ==
  ASSUME ResolutionInv, NEW c \in Context, ResolveNothing(c)
  PROVE  ResolutionInv'
<1>1. /\ resolving[c] \in Seq(Named) /\ resolving[c] # <<>>
      /\ resolving' = [resolving EXCEPT ![c] = Front(@)]
      /\ internal' = Uncount(c)
      /\ UNCHANGED <<entry, wanted, wrapped, names>>
  BY DEF ResolutionInv, TypeOK, HooksTypeOK, ResolveNothing
<1>2. /\ Front(resolving[c]) \in Seq(Named)
      /\ Len(Front(resolving[c])) = Len(resolving[c]) - 1
      /\ Len(resolving[c]) \in Nat \ {0}
      /\ Front(resolving[c]) # <<>> => Front(resolving[c])[1] = resolving[c][1]
      /\ Front(resolving[c]) = <<>> => Last(resolving[c]) = resolving[c][1]
  BY <1>1, PopHook
<1>3. internal[c] = Len(resolving[c]) /\ resolving[c][1] = Goal(c) /\ wanted[c] # None
  BY <1>1 DEF ResolutionInv, HooksNest
<1>4. TypeOK'
  <2>1. TypeOK /\ UNCHANGED names
    BY <1>1 DEF ResolutionInv
  <2>2. internal' \in [Context -> Nat] /\ resolving' \in [Context -> Seq(Named)]
    BY <1>1, <1>2, <1>3, <2>1, HookUpdates, Zenon DEF TypeOK, HooksTypeOK
  <2>3. /\ entry' \in [Context -> [Named -> Named \cup {None, Junk}]]
        /\ wanted' \in [Context -> Named \cup Object \cup {None}]
        /\ wrapped' \in [Context -> SUBSET Object]
    BY <1>1, <1>2, <1>3, <2>1, HookUpdates, Zenon DEF TypeOK, HooksTypeOK
  <2> QED BY <2>1, <2>2, <2>3, HookTypes
<1>5. EntryHoldsItsClasses'
  BY <1>1 DEF ResolutionInv, EntryHoldsItsClasses
<1>6. HooksNest'
  BY <1>1, <1>2, <1>3 DEF ResolutionInv, TypeOK, HooksTypeOK, HooksNest, Goal, Uncount
<1>7. Front(resolving[c]) = <<>> => Goal(c) \notin Class
  BY <1>2, <1>3 DEF ResolveNothing, Top
<1>8. Resolved'
  BY <1>1, <1>7 DEF ResolutionInv, TypeOK, HooksTypeOK, Resolved, Goal
<1> QED BY <1>4, <1>5, <1>6, <1>8 DEF ResolutionInv

LEMMA ResolveConstructorStep ==
  ASSUME ResolutionInv, NEW c \in Context, ResolveConstructor(c)
  PROVE  ResolutionInv'
<1>1. /\ resolving[c] \in Seq(Named) /\ resolving[c] # <<>> /\ NSObject \in Named
      /\ resolving' = [resolving EXCEPT ![c] = Append(@, NSObject)]
      /\ internal' = Count(c)
      /\ UNCHANGED <<entry, wanted, wrapped, names>>
  <2>1. resolving[c] \in Seq(Named) /\ NSObject \in Named
    BY ClassAssumption DEF ResolutionInv, TypeOK, HooksTypeOK, Named
  <2> QED BY <2>1, Zenon DEF ResolveConstructor, GetProperty
<1>2. /\ Append(resolving[c], NSObject) \in Seq(Named)
      /\ Append(resolving[c], NSObject) # <<>>
      /\ Len(Append(resolving[c], NSObject)) = Len(resolving[c]) + 1
      /\ Append(resolving[c], NSObject)[1] = resolving[c][1]
  BY <1>1, PushHook
<1>3. internal[c] = Len(resolving[c]) /\ resolving[c][1] = Goal(c) /\ wanted[c] # None
  BY <1>1 DEF ResolutionInv, HooksNest
<1>4. TypeOK'
  <2>1. TypeOK /\ UNCHANGED names
    BY <1>1 DEF ResolutionInv
  <2>2. internal' \in [Context -> Nat] /\ resolving' \in [Context -> Seq(Named)]
    BY <1>1, <2>1, HookUpdates, Zenon DEF TypeOK, HooksTypeOK
  <2>3. /\ entry' \in [Context -> [Named -> Named \cup {None, Junk}]]
        /\ wanted' \in [Context -> Named \cup Object \cup {None}]
        /\ wrapped' \in [Context -> SUBSET Object]
    BY <1>1, <2>1, HookUpdates, Zenon DEF TypeOK, HooksTypeOK
  <2> QED BY <2>1, <2>2, <2>3, HookTypes
<1>5. EntryHoldsItsClasses'
  BY <1>1 DEF ResolutionInv, EntryHoldsItsClasses
<1>6. HooksNest'
  BY <1>1, <1>2, <1>3 DEF ResolutionInv, TypeOK, HooksTypeOK, HooksNest, Goal, Count
<1>8. Resolved'
  BY <1>1, <1>2 DEF ResolutionInv, TypeOK, HooksTypeOK, Resolved, Goal
<1> QED BY <1>4, <1>5, <1>6, <1>8 DEF ResolutionInv

\* The step that the count of internal operations lets happen.
LEMMA ResolveClassStep ==
  ASSUME ResolutionInv, NEW c \in Context, ResolveClass(c)
  PROVE  ResolutionInv'
<1>1. resolving[c] \in Seq(Named) /\ resolving[c] # <<>> /\ Last(resolving[c]) \in Class
  BY DEF ResolutionInv, TypeOK, HooksTypeOK, ResolveClass, Top
<1>2. /\ Front(resolving[c]) \in Seq(Named)
      /\ Len(Front(resolving[c])) = Len(resolving[c]) - 1
      /\ Len(resolving[c]) \in Nat \ {0}
      /\ Front(resolving[c]) # <<>> => Front(resolving[c])[1] = resolving[c][1]
      /\ Front(resolving[c]) = <<>> => Last(resolving[c]) = resolving[c][1]
  BY <1>1, PopHook
<1>3. internal[c] = Len(resolving[c]) /\ resolving[c][1] = Goal(c) /\ wanted[c] # None
  BY <1>1 DEF ResolutionInv, HooksNest
<1>c. Last(resolving[c]) \in Named
  BY <1>1 DEF Named
<1>4. IsInternalOperation(c)
  BY <1>2, <1>3 DEF IsInternalOperation
<1>5. /\ entry' = [entry EXCEPT ![c][Last(resolving[c])] = Last(resolving[c])]
      /\ resolving' = [resolving EXCEPT ![c] = Front(@)]
      /\ internal' = Uncount(c)
      /\ UNCHANGED <<wanted, wrapped, names>>
  BY <1>4 DEF ResolveClass, Top
<1>6. TypeOK'
  <2>1. TypeOK /\ UNCHANGED names
    BY <1>5 DEF ResolutionInv
  <2>2. internal' \in [Context -> Nat] /\ resolving' \in [Context -> Seq(Named)]
    BY <1>1, <1>2, <1>3, <1>5, <1>c, <2>1, HookUpdates, Zenon DEF TypeOK, HooksTypeOK
  <2>3. /\ entry' \in [Context -> [Named -> Named \cup {None, Junk}]]
        /\ wanted' \in [Context -> Named \cup Object \cup {None}]
        /\ wrapped' \in [Context -> SUBSET Object]
    BY <1>1, <1>2, <1>3, <1>5, <1>c, <2>1, HookUpdates, Zenon DEF TypeOK, HooksTypeOK
  <2> QED BY <2>1, <2>2, <2>3, HookTypes
<1>7. EntryHoldsItsClasses'
  BY <1>1, <1>5 DEF ResolutionInv, TypeOK, HooksTypeOK, EntryHoldsItsClasses
<1>8. HooksNest'
  BY <1>1, <1>2, <1>3, <1>5 DEF ResolutionInv, TypeOK, HooksTypeOK, HooksNest, Goal, Uncount
<1>9. \A d \in Context : Goal(d)' = Goal(d)
  BY <1>5 DEF Goal
<1>10. ASSUME NEW d \in Context, resolving'[d] = <<>>, Goal(d) \in Class
       PROVE  entry'[d][Goal(d)] = Goal(d)
  <2>1. CASE d = c
    <3>1. Last(resolving[c]) = Goal(c)
      BY <1>1, <1>2, <1>3, <1>5, <1>10, <2>1 DEF ResolutionInv, TypeOK, HooksTypeOK
    <3>2. Last(resolving[c]) \in Named /\ entry \in [Context -> [Named -> Named \cup {None, Junk}]]
      BY <1>1 DEF ResolutionInv, TypeOK, HooksTypeOK, Named
    <3> QED BY <1>5, <2>1, <3>1, <3>2
  <2>2. CASE d # c
    <3>1. resolving[d] = <<>> /\ entry'[d] = entry[d]
      BY <1>5, <1>10, <2>2 DEF ResolutionInv, TypeOK, HooksTypeOK
    <3> QED BY <1>10, <3>1 DEF ResolutionInv, Resolved
  <2> QED BY <2>1, <2>2
<1>11. Resolved'
  BY <1>9, <1>10 DEF Resolved
<1> QED BY <1>6, <1>7, <1>8, <1>11 DEF ResolutionInv

LEMMA LookEndsStep ==
  ASSUME ResolutionInv, NEW c \in Context, Answer(c) \/ SetPrototype(c)
  PROVE  ResolutionInv'
<1>1. /\ resolving[c] = <<>>
      /\ wanted' = [wanted EXCEPT ![c] = None]
      /\ UNCHANGED <<internal, entry, resolving, names>>
  BY DEF Answer, SetPrototype
<1>3. TypeOK'
  <2>1. TypeOK /\ UNCHANGED names
    BY <1>1 DEF ResolutionInv, Answer, SetPrototype
  <2>2. internal' \in [Context -> Nat] /\ resolving' \in [Context -> Seq(Named)]
    BY <1>1, <2>1, HookUpdates, Zenon DEF TypeOK, HooksTypeOK, Answer, SetPrototype
  <2>3. entry' \in [Context -> [Named -> Named \cup {None, Junk}]]
    BY <1>1, <2>1, Zenon DEF TypeOK, HooksTypeOK
  <2>4. wanted' \in [Context -> Named \cup Object \cup {None}]
    BY <1>1, <2>1, HookUpdates, Zenon
  <2>5. wrapped' \in [Context -> SUBSET Object]
    <3>1. wrapped' = wrapped \/ (wanted[c] \in Object /\ wrapped' = [wrapped EXCEPT ![c] = @ \cup {wanted[c]}])
      BY Zenon DEF Answer, SetPrototype
    <3>2. wrapped \in [Context -> SUBSET Object]
      BY <2>1 DEF TypeOK, HooksTypeOK
    <3>3. wanted[c] \in Object => [wrapped EXCEPT ![c] = @ \cup {wanted[c]}] \in [Context -> SUBSET Object]
      BY <2>1, HookUpdates
    <3> QED BY <3>1, <3>2, <3>3, Zenon
  <2> QED BY <2>1, <2>2, <2>3, <2>4, <2>5, HookTypes
<1>4. EntryHoldsItsClasses' /\ HooksNest'
  BY <1>1 DEF ResolutionInv, TypeOK, HooksTypeOK, EntryHoldsItsClasses, HooksNest, Goal
<1>5. Resolved'
  BY <1>1, NoneAssumption DEF ResolutionInv, TypeOK, HooksTypeOK, Resolved, Goal, Named
<1> QED BY <1>3, <1>4, <1>5 DEF ResolutionInv

\* Scripts run while no hook of their context does, so nothing of theirs gets through.
LEMMA RefusedStep ==
  ASSUME ResolutionInv, NEW c \in Context, NEW n \in Named, Write(c, n) \/ Delete(c, n)
  PROVE  UNCHANGED vars
<1>1. ~IsInternalOperation(c)
  BY DEF ResolutionInv, HooksNest, Write, Delete, Idle, IsInternalOperation
<1> QED BY <1>1 DEF Write, Delete, vars, hooks

LEMMA NamesStep ==
  ASSUME ResolutionInv, UNCHANGED hooks,
         methods' \in [Context -> [Named -> SUBSET Property]],
         accessors' \in [Context -> [Object \cup Class -> SUBSET Property]],
         treatPropertyAsMethod' \in [Context -> BOOLEAN]
  PROVE  ResolutionInv'
BY DEF ResolutionInv, TypeOK, HooksTypeOK, NamesTypeOK, EntryHoldsItsClasses, HooksNest,
       Resolved, Goal, hooks

LEMMA ResolveNameTypes ==
  ASSUME TypeOK, NEW c \in Context, NEW x \in Object \cup Class, NEW p \in Property,
         ResolveName(c, x, p)
  PROVE  /\ UNCHANGED hooks
         /\ methods' \in [Context -> [Named -> SUBSET Property]]
         /\ accessors' \in [Context -> [Object \cup Class -> SUBSET Property]]
         /\ treatPropertyAsMethod' \in [Context -> BOOLEAN]
<1> DEFINE k == PrototypeClass(x)
<1>1. k \in Named
  BY ClassAssumption DEF PrototypeClass, Named
<1>2. UNCHANGED hooks /\ treatPropertyAsMethod' = treatPropertyAsMethod
  BY DEF ResolveName
<1>3. \/ /\ methods' = methods
         /\ accessors' = [accessors EXCEPT ![c][x] = @ \cup {p}]
      \/ /\ methods' = [methods EXCEPT ![c][k] = @ \cup {p}]
         /\ accessors' = accessors
  BY Zenon DEF ResolveName
<1>4. methods' \in [Context -> [Named -> SUBSET Property]]
  <2>1. methods \in [Context -> [Named -> SUBSET Property]]
    BY DEF TypeOK, NamesTypeOK
  <2>2. methods[c][k] \cup {p} \in SUBSET Property
    BY <1>1, <2>1
  <2>3. [methods EXCEPT ![c][k] = @ \cup {p}] \in [Context -> [Named -> SUBSET Property]]
    BY <1>1, <2>1, <2>2
  <2> QED BY <1>3, <2>1, <2>3, Zenon
<1>5. accessors' \in [Context -> [Object \cup Class -> SUBSET Property]]
  <2>1. accessors \in [Context -> [Object \cup Class -> SUBSET Property]]
    BY DEF TypeOK, NamesTypeOK
  <2>2. accessors[c][x] \cup {p} \in SUBSET Property
    BY <2>1
  <2>3. [accessors EXCEPT ![c][x] = @ \cup {p}] \in [Context -> [Object \cup Class -> SUBSET Property]]
    BY <2>1, <2>2
  <2> QED BY <1>3, <2>1, <2>3, Zenon
<1> QED BY <1>2, <1>4, <1>5, Zenon DEF TypeOK, NamesTypeOK

LEMMA NextInv == ResolutionInv /\ [Next]_vars => ResolutionInv'
<1> SUFFICES ASSUME ResolutionInv, [Next]_vars PROVE ResolutionInv'
  OBVIOUS
<1>1. CASE UNCHANGED vars
  BY <1>1 DEF ResolutionInv, TypeOK, HooksTypeOK, NamesTypeOK, EntryHoldsItsClasses,
              HooksNest, Resolved, Goal, vars, hooks, names
<1>2. ASSUME NEW c \in Context, Step(c) PROVE ResolutionInv'
  <2>1. ASSUME NEW n \in Named, Read(c, n) PROVE ResolutionInv'
    BY <2>1, ReadStep
  <2>2. ASSUME NEW n \in Named, Write(c, n) \/ Delete(c, n) PROVE ResolutionInv'
    BY <1>1, <2>2, RefusedStep
  <2>3. ASSUME NEW o \in Object, Wrap(c, o) PROVE ResolutionInv'
    BY <2>3, WrapStep
  <2>4. CASE ResolveNothing(c)
    BY <2>4, ResolveNothingStep
  <2>5. CASE ResolveConstructor(c)
    BY <2>5, ResolveConstructorStep
  <2>6. CASE ResolveClass(c)
    BY <2>6, ResolveClassStep
  <2>7. CASE Answer(c) \/ SetPrototype(c)
    BY <2>7, LookEndsStep
  <2>8. ASSUME NEW x \in Object \cup Class, NEW p \in Property, ResolveName(c, x, p)
        PROVE  ResolutionInv'
    BY <2>8, ResolveNameTypes, NamesStep DEF ResolutionInv
  <2>9. ASSUME NEW b \in BOOLEAN, SetTreatPropertyAsMethod(c, b) PROVE ResolutionInv'
    BY <2>9, NamesStep DEF SetTreatPropertyAsMethod, ResolutionInv, TypeOK, NamesTypeOK
  <2> QED BY <1>2, <2>1, <2>2, <2>3, <2>4, <2>5, <2>6, <2>7, <2>8, <2>9 DEF Step
<1> QED BY <1>1, <1>2 DEF Next

\* The strengthened invariant: resolve hooks run only below a look, the outermost for the
\* name that the look wants, and each has one internal operation counted for its context,
\* so scripts, which run when no hook does, find none (XJSResolveImpl).
THEOREM InvHolds == Spec => []ResolutionInv
BY InitInv, NextInv, PTL DEF Spec

\* Whatever scripts write and whenever they do, in any number of contexts: the entry
\* object holds wrappers of classes under their own names (the hooks of XJSRuntimeEntry).
THEOREM EntryKept == Spec => [](TypeOK /\ EntryHoldsItsClasses)
<1>1. ResolutionInv => TypeOK /\ EntryHoldsItsClasses
  BY DEF ResolutionInv
<1> QED BY <1>1, InvHolds, PTL

\* A look that has run its hooks finds the class it was for, however hooks nest
\* (XJSResolveImpl, XJSInternalOperation).
THEOREM LooksSucceed == Spec => []LooksFindTheClass
<1>1. ResolutionInv => LooksFindTheClass
  BY DEF ResolutionInv, Resolved, Goal, LooksFindTheClass
<1> QED BY <1>1, InvHolds, PTL

LEMMA KindKept ==
  ASSUME TypeOK, [Next]_vars, NEW c \in Context, NEW x \in Object \cup Class,
         NEW p \in Property, Kind(c, x, p) # "unresolved"
  PROVE  Kind(c, x, p)' = Kind(c, x, p)
<1> DEFINE Same == UNCHANGED <<methods, accessors>>
<1>1. ASSUME Same PROVE Kind(c, x, p)' = Kind(c, x, p)
  BY <1>1 DEF Kind
<1>2. ASSUME NEW d \in Context, NEW y \in Object \cup Class, NEW q \in Property,
             ResolveName(d, y, q)
      PROVE  Kind(c, x, p)' = Kind(c, x, p)
  <2> DEFINE k == PrototypeClass(y)
  <2>0. k \in Named /\ PrototypeClass(x) \in Named
    BY ClassAssumption DEF PrototypeClass, Named
  <2>1. CASE accessors' = [accessors EXCEPT ![d][y] = @ \cup {q}] /\ UNCHANGED methods
    <3>1. q \notin methods[d][k]
      BY <1>2 DEF ResolveName
    <3>2. p \in accessors'[c][x] <=> p \in accessors[c][x] \/ (c = d /\ x = y /\ p = q)
      BY <2>1 DEF TypeOK, NamesTypeOK
    <3> QED BY <2>1, <3>1, <3>2 DEF Kind
  <2>2. CASE methods' = [methods EXCEPT ![d][k] = @ \cup {q}] /\ UNCHANGED accessors
    <3>1. p \in methods[c][PrototypeClass(x)] => p \in methods'[c][PrototypeClass(x)]
      BY <2>0, <2>2 DEF TypeOK, NamesTypeOK
    <3> QED BY <2>2, <3>1 DEF Kind
  <2> QED BY <1>2, <2>1, <2>2 DEF ResolveName
<1>3. ASSUME NEW d \in Context, Step(d) PROVE Kind(c, x, p)' = Kind(c, x, p)
  BY <1>1, <1>2, <1>3
     DEF Step, Read, Write, Delete, Wrap, ResolveNothing, ResolveConstructor, ResolveClass,
         Answer, SetPrototype, SetTreatPropertyAsMethod, names
<1> QED BY <1>1, <1>3 DEF Next, vars, names

\* What a name of a wrapper has once been, method or property, it stays, for any order of
\* looks by any number of objects that share prototypes and of changes of
\* treatPropertyAsMethod (the resolve hook of wrappers).
THEOREM KindsKept == Spec => NamesKeepTheirKind
<1>1. TypeOK /\ [Next]_vars =>
        [\A c \in Context, x \in Object \cup Class, p \in Property :
           Kind(c, x, p) # "unresolved" => Kind(c, x, p)' = Kind(c, x, p)]_vars
  BY KindKept
<1> QED BY <1>1, EntryKept, PTL DEF Spec, NamesKeepTheirKind
=============================================================================
