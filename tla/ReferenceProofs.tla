--------------------------- MODULE ReferenceProofs ---------------------------
(***************************************************************************)
(* References between the two memory managements: weak references from     *)
(* native code to JS objects (WeakRef), and the wrappers by which scripts  *)
(* refer to native objects (ObjectBridge).  They share the contexts and    *)
(* runtimes of Runtimes; each part has an invariant of its own, for any    *)
(* number of contexts, runtimes and objects.                               *)
(***************************************************************************)
EXTENDS WeakRef, ObjectBridge, FiniteSetTheorems, SequenceTheorems, TLAPS

-----------------------------------------------------------------------------
\* The invariant of a weak reference.  An XJSValue keeps its context alive.
HandlesLive == \A h \in handles : h[1] \in alive

\* _value is what the reference was set to, and _context is its context.
ValueIsTarget ==
  value # None => value \in handles /\ context = value[1] /\ target = value[2]

\* Set to nil or deallocated it has neither.
NothingSet ==
  /\ target = None => value = None /\ context = None
  /\ ~exists => target = None

\* Set to an object it has the map that was made for that object, in the runtime of its
\* context.
MapOfTarget ==
  target \in Object =>
    /\ context \in Context /\ map # None
    /\ maps[map] = [runtime |-> RuntimeOf[context], key |-> target]

\* As long as the context lives that map is rooted, so that it has not been freed.
MapKept == target \in Object /\ context \in alive => RuntimeOf[context] \in roots /\ map \notin freed

\* &_map is no root before there is a map.
RootsAfterMap == map = None => roots = {}

RefInv ==
  /\ RefTypeOK /\ HandlesLive /\ ValueIsTarget /\ NothingSet /\ MapOfTarget /\ MapKept
  /\ RootsAfterMap /\ OneRoot

LEMMA RefInitInv == RefInit => RefInv
BY ContentAssumption, NoneAssumption, EmptySeq
DEF RefInit, RefInv, RefTypeOK, HandlesLive, ValueIsTarget, NothingSet, MapOfTarget, MapKept,
    RootsAfterMap, OneRoot, Cx, Content, Handle

\* Nothing here makes or sets a map.
LEMMA WorldKeeps ==
  ASSUME RefInv, UNCHANGED <<alive, exists, context, map, maps, roots, target, abandoned, freed>>,
         HandlesLive', ValueIsTarget', NothingSet', RefTypeOK'
  PROVE  RefInv'
BY DEF RefInv, MapOfTarget, MapKept, RootsAfterMap, OneRoot, Cx

LEMMA GetValueKeeps ==
  ASSUME RefInv, GetValue
  PROVE  RefInv'
<1> USE DEF RefInv, GetValue, self
<1>1. value = None => Cx \in alive
  BY ContentAssumption, NoneAssumption DEF Get, Cx
<1>2. RefTypeOK'
  BY <1>1 DEF RefTypeOK, Content, Handle
<1>3. HandlesLive' /\ ValueIsTarget' /\ NothingSet'
  BY <1>1 DEF HandlesLive, ValueIsTarget, NothingSet
<1> QED
  BY <1>2, <1>3, WorldKeeps

LEMMA SetToObjectKeeps ==
  ASSUME RefInv, NEW h \in handles, SetValueToObject(h)
  PROVE  RefInv'
<1> USE DEF RefInv, SetValueToObject, world
<1> DEFINE entry == [runtime |-> RuntimeOf[h[1]], key |-> h[2]]
<1>1. /\ h \in Handle /\ h[1] \in Context /\ h[1] \in alive /\ h[2] \in Object
      /\ entry \in [runtime : Runtime, key : Object]
  BY RuntimeAssumption DEF RefTypeOK, Handle, HandlesLive
<1>2. /\ maps' \in Seq([runtime : Runtime, key : Object])
      /\ Len(maps') = Len(maps) + 1 /\ maps'[Len(maps) + 1] = entry
      /\ DOMAIN maps = 1..Len(maps) /\ DOMAIN maps' = 1..(Len(maps) + 1) /\ Len(maps) \in Nat
  <2>1. maps \in Seq([runtime : Runtime, key : Object]) /\ maps' = Append(maps, entry)
    BY DEF RefTypeOK
  <2> HIDE DEF entry
  <2> QED
    BY <1>1, <2>1, AppendProperties, LenProperties
<1>3. map' = Len(maps) + 1
  BY <1>2
<1>4. map' \notin freed /\ map' # None
  BY <1>2, <1>3, ContentAssumption DEF RefTypeOK
<1>5. RefTypeOK'
  BY <1>1, <1>2, <1>3, RuntimeAssumption DEF RefTypeOK, RootsWithoutOld, Content, Handle
<1>6. HandlesLive' /\ ValueIsTarget' /\ NothingSet'
  BY <1>1, ContentAssumption DEF HandlesLive, ValueIsTarget, NothingSet
<1>7. MapOfTarget' /\ MapKept' /\ RootsAfterMap'
  BY <1>1, <1>2, <1>3, <1>4 DEF MapOfTarget, MapKept, RootsAfterMap
<1>8. ~abandoned => RootsWithoutOld = {}
  BY DEF RootsWithoutOld, OneRoot, RootsAfterMap
<1>9. OneRoot'
  BY <1>1, <1>8, NoneAssumption DEF OneRoot, Cx
<1> QED
  BY <1>5, <1>6, <1>7, <1>9

\* A set that makes no map: to a primitive value or to nil, and dealloc.
LEMMA UnsetKeeps ==
  ASSUME RefInv, UNCHANGED <<world, map, maps, abandoned>>, roots' = RootsWithoutOld,
         exists' \in BOOLEAN, target' \notin Object,
         RefTypeOK', ValueIsTarget', NothingSet'
  PROVE  RefInv'
<1> USE DEF RefInv, world
<1>1. HandlesLive' /\ MapOfTarget' /\ MapKept' /\ RootsAfterMap'
  BY DEF HandlesLive, MapOfTarget, MapKept, RootsAfterMap, RootsWithoutOld
<1>2. ~abandoned => RootsWithoutOld = {}
  BY DEF RootsWithoutOld, OneRoot, RootsAfterMap
<1> QED
  BY <1>1, <1>2 DEF OneRoot

LEMMA SetToPrimitiveKeeps ==
  ASSUME RefInv, NEW h \in handles, SetValueToPrimitive(h)
  PROVE  RefInv'
<1> USE DEF SetValueToPrimitive, RefInv, world
<1>1. RefTypeOK'
  BY DEF RefTypeOK, RootsWithoutOld, Content, Handle
<1>2. ValueIsTarget' /\ NothingSet'
  BY ContentAssumption DEF ValueIsTarget, NothingSet
<1> QED
  BY <1>1, <1>2, UnsetKeeps, ContentAssumption DEF RefTypeOK

LEMMA NilKeeps ==
  ASSUME RefInv, SetValueToNil \/ Dealloc
  PROVE  RefInv'
<1> USE DEF SetValueToNil, Dealloc, RefInv, world
<1>1. RefTypeOK'
  BY DEF RefTypeOK, RootsWithoutOld
<1>2. ValueIsTarget' /\ NothingSet'
  BY DEF ValueIsTarget, NothingSet
<1> QED
  BY <1>1, <1>2, UnsetKeeps, ContentAssumption DEF RefTypeOK

LEMMA HandlesKeep ==
  ASSUME RefInv,
         \/ \E c \in Context, content \in Content : NewValue(c, content)
         \/ \E h \in handles : ReleaseValue(h)
         \/ \E o \in Object : ScriptsDrop(o)
  PROVE  RefInv'
<1> USE DEF RefInv, self
<1>1. ASSUME NEW c \in Context, NEW content \in Content, NewValue(c, content)
      PROVE  RefInv'
  <2>1. RefTypeOK' /\ HandlesLive' /\ ValueIsTarget' /\ NothingSet'
    BY <1>1 DEF NewValue, RefTypeOK, HandlesLive, ValueIsTarget, NothingSet, Handle
  <2> QED
    BY <1>1, <2>1, WorldKeeps DEF NewValue
<1>2. ASSUME NEW h \in handles, ReleaseValue(h)
      PROVE  RefInv'
  <2>1. RefTypeOK' /\ HandlesLive' /\ ValueIsTarget' /\ NothingSet'
    BY <1>2 DEF ReleaseValue, RefTypeOK, HandlesLive, ValueIsTarget, NothingSet
  <2> QED
    BY <1>2, <2>1, WorldKeeps DEF ReleaseValue
<1>3. ASSUME NEW o \in Object, ScriptsDrop(o)
      PROVE  RefInv'
  <2>1. RefTypeOK' /\ HandlesLive' /\ ValueIsTarget' /\ NothingSet'
    BY <1>3 DEF ScriptsDrop, RefTypeOK, HandlesLive, ValueIsTarget, NothingSet
  <2> QED
    BY <1>3, <2>1, WorldKeeps DEF ScriptsDrop
<1> QED
  BY <1>1, <1>2, <1>3

\* The context of the reference keeps its runtime, and so the map, alive.
LEMMA ContextGoesKeeps ==
  ASSUME RefInv, NEW c \in Context, ContextGoes(c)
  PROVE  RefInv'
<1> USE DEF RefInv
<1>1. UNCHANGED <<handles, exists, value, context, map, maps, target>> /\ alive' = alive \ {c}
  BY DEF ContextGoes
<1>2. RefTypeOK'
  BY <1>1 DEF ContextGoes, RefTypeOK
<1>3. HandlesLive' /\ ValueIsTarget' /\ NothingSet' /\ MapOfTarget'
  BY <1>1 DEF ContextGoes, HandlesLive, ValueIsTarget, NothingSet, MapOfTarget
<1>4. MapKept'
  <2> SUFFICES ASSUME target \in Object, context \in alive, context # c
               PROVE  RuntimeOf[context] \in roots' /\ map \notin freed'
    BY <1>1 DEF MapKept
  <2>1. RuntimeOf[context] \in roots /\ map \notin freed /\ maps[map].runtime = RuntimeOf[context]
    BY DEF MapKept, MapOfTarget
  <2>2. ContextsOf(RuntimeOf[c]) = {c} => RuntimeOf[context] # RuntimeOf[c]
    BY DEF ContextsOf
  <2> QED
    BY <2>1, <2>2 DEF ContextGoes
<1>5. RootsAfterMap' /\ roots' \subseteq roots
  BY <1>1 DEF ContextGoes, RootsAfterMap
<1>6. OneRoot'
  <2> SUFFICES ASSUME ~abandoned'
               PROVE  /\ roots' \subseteq {RuntimeOf[d] : d \in {Cx'} \ {None}}
                      /\ ~exists => roots' = {}
    BY <1>1 DEF OneRoot
  <2>1. ~abandoned /\ (context = c => RuntimeOf[c] \notin roots')
    BY DEF ContextGoes
  <2>2. CASE context = c
    <3>1. Cx = c /\ roots' \subseteq {RuntimeOf[c]}
      BY <1>5, <2>1, <2>2 DEF OneRoot, Cx, ContextGoes
    <3> QED
      BY <1>5, <2>1, <2>2, <3>1
  <2>3. CASE context # c
    <3>1. Cx' = Cx
      BY <1>1, <2>3 DEF Cx
    <3> QED
      BY <1>1, <1>5, <2>1, <3>1 DEF OneRoot
  <2> QED
    BY <2>2, <2>3
<1> QED
  BY <1>2, <1>3, <1>4, <1>5, <1>6

LEMMA CollectGarbageKeeps ==
  ASSUME RefInv, NEW r \in Runtime, CollectGarbage(r)
  PROVE  RefInv'
<1> USE DEF RefInv
<1>1. UNCHANGED <<alive, scripts, handles, self>>
  BY DEF CollectGarbage
<1>2. RefTypeOK'
  BY DEF CollectGarbage, RefTypeOK, self
<1>3. HandlesLive' /\ ValueIsTarget' /\ NothingSet' /\ MapOfTarget' /\ RootsAfterMap' /\ OneRoot'
  BY <1>1 DEF HandlesLive, ValueIsTarget, NothingSet, MapOfTarget, RootsAfterMap, OneRoot, Cx, self
<1>4. MapKept'
  <2> SUFFICES ASSUME target \in Object, context \in alive
               PROVE  RuntimeOf[context] \in roots /\ map \notin freed'
    BY <1>1 DEF MapKept, self
  <2>1. /\ RuntimeOf[context] \in roots /\ map \notin freed
        /\ maps[map].runtime = RuntimeOf[context] /\ exists
    BY ContentAssumption DEF MapKept, MapOfTarget, NothingSet, RefTypeOK
  <2> QED
    BY <2>1 DEF CollectGarbage
<1> QED
  BY <1>2, <1>3, <1>4

LEMMA RefInductive == RefSpec => []RefInv
<1>1. RefInv /\ [RefNext]_refVars => RefInv'
  <2> SUFFICES ASSUME RefInv, [RefNext]_refVars PROVE RefInv'
    OBVIOUS
  <2>1. CASE GetValue
    BY <2>1, GetValueKeeps
  <2>2. CASE SetValueToNil \/ Dealloc
    BY <2>2, NilKeeps
  <2>3. CASE \E h \in handles : SetValueToObject(h)
    BY <2>3, SetToObjectKeeps
  <2>4. CASE \E h \in handles : SetValueToPrimitive(h)
    BY <2>4, SetToPrimitiveKeeps
  <2>5. CASE \/ \E c \in Context, content \in Content : NewValue(c, content)
             \/ \E h \in handles : ReleaseValue(h)
             \/ \E o \in Object : ScriptsDrop(o)
    BY <2>5, HandlesKeep
  <2>6. CASE \E c \in Context : ContextGoes(c)
    BY <2>6, ContextGoesKeeps
  <2>7. CASE \E r \in Runtime : CollectGarbage(r)
    BY <2>7, CollectGarbageKeeps
  <2>8. CASE UNCHANGED refVars
    BY <2>8 DEF refVars, RefInv, RefTypeOK, HandlesLive, ValueIsTarget, NothingSet, MapOfTarget,
                MapKept, RootsAfterMap, OneRoot, Cx
  <2> QED
    BY <2>1, <2>2, <2>3, <2>4, <2>5, <2>6, <2>7, <2>8 DEF RefNext
<1> QED
  BY <1>1, RefInitInv, PTL DEF RefSpec

\* Whatever is set, collected and deallocated in any number of contexts and runtimes, a
\* weak reference that was set to an object answers that object or nil
\* (AnswersWhatWasSet), and the object itself as long as it and the context live.
THEOREM WeakReferenceAnswers == RefSpec => []AnswersWhatWasSet
<1>1. RefInv => AnswersWhatWasSet
  <2> SUFFICES ASSUME RefInv, exists, target # Primitive
               PROVE  /\ Get \in {target, None}
                      /\ target # None /\ Cx # None /\ target \notin collected => Get = target
    BY DEF AnswersWhatWasSet
  <2>1. CASE value # None
    BY <2>1 DEF RefInv, ValueIsTarget, Get
  <2>2. CASE value = None /\ target = None
    BY <2>2, NoneAssumption DEF RefInv, RefTypeOK, NothingSet, Get, Cx
  <2>3. CASE value = None /\ target # None
    <3>1. target \in Object /\ map # None /\ maps[map].key = target
      BY <2>3 DEF RefInv, RefTypeOK, MapOfTarget, Content
    <3>2. Cx # None => map \notin freed
      BY <3>1 DEF RefInv, MapKept, Cx
    <3> QED
      BY <2>3, <3>1, <3>2 DEF Get
  <2> QED
    BY <2>1, <2>2, <2>3
<1> QED
  BY <1>1, RefInductive, PTL

\* The address of a weak reference is a root of one runtime at most, that of the context
\* it was set in, and of none when it is gone (OneRoot), if no context died before it.
THEOREM WeakReferenceRoots == RefSpec => []OneRoot
<1>1. RefInv => OneRoot
  BY DEF RefInv
<1> QED
  BY <1>1, RefInductive, PTL
-----------------------------------------------------------------------------
\* The invariant of wrappers.

\* The wrapper wraps that native object for the scripts of that runtime.
WrapsIn(w, n, r) ==
  /\ wrappers[w].context # None
  /\ wrappers[w].native = n /\ RuntimeOf[wrappers[w].context] = r

HeldNotFinalized ==
  held \cap finalized = {} /\ \A w \in held : wrappers[w].context # None

\* A call works in the runtime of its context, with the dictionary that is attached to its
\* native object unless another thread has replaced it since.
CallsKnowTheDictionary ==
  \A r \in Runtime : work[r] # None =>
    /\ RuntimeOf[work[r].context] = r
    /\ work[r].dict # None =>
         /\ work[r].dict \in DOMAIN dicts
         /\ work[r].dict = association[work[r].native] \/ <<work[r].native, r>> \in lost

\* A dictionary is attached to one native object.
DictionariesApart ==
  \A n \in Native : association[n] # None =>
    /\ \A m \in Native : association[m] = association[n] => m = n
    /\ \A r \in Runtime :
         work[r] # None /\ work[r].dict = association[n] => work[r].native = n

\* A wrapper whose weak reference answers is in the dictionary of its native object, and
\* no later one was made in its runtime.
LatestIsKnown ==
  \A v \in DOMAIN wrappers \ finalized, n \in Native, r \in Runtime :
    WrapsIn(v, n, r) /\ wrappers[v].context \in alive /\ <<n, r>> \notin lost =>
      /\ association[n] # None /\ dicts[association[n]][r] = v
      /\ \A w \in DOMAIN wrappers : WrapsIn(w, n, r) => w <= v

\* The runtimes with a call that is going to release n.
Owing(n) == {r \in Working(n) : work[r].method \in Prefixed}

\* Each of them has a reference to release.
OwedIsThere ==
  \A n \in Native :
    /\ IsFiniteSet(Owing(n))
    /\ Prefixed \subseteq Owned => surplus[n] >= Cardinality(Owing(n))

BridgeInv ==
  /\ TypeOK /\ Len(dicts) <= MaxWrappers
  /\ HeldNotFinalized /\ CallsKnowTheDictionary /\ DictionariesApart /\ LatestIsKnown
  /\ OwedIsThere

LEMMA BridgeInitInv == Init => BridgeInv
<1> SUFFICES ASSUME Init PROVE BridgeInv
  OBVIOUS
<1>1. wrappers = <<>> /\ dicts = <<>> /\ DOMAIN wrappers = {} /\ \A r \in Runtime : work[r] = None
  BY DEF Init
<1>2. TypeOK
  BY <1>1, EmptySeq DEF Init, TypeOK
<1>5. Len(dicts) <= MaxWrappers
  BY <1>1, EmptySeq, MaxWrappersAssumption
<1>3. HeldNotFinalized /\ CallsKnowTheDictionary /\ DictionariesApart /\ LatestIsKnown
  BY <1>1 DEF Init, HeldNotFinalized, CallsKnowTheDictionary, DictionariesApart, LatestIsKnown
<1>4. OwedIsThere
  <2> SUFFICES ASSUME NEW n \in Native
               PROVE  IsFiniteSet(Owing(n)) /\ surplus[n] >= Cardinality(Owing(n))
    BY DEF OwedIsThere
  <2>1. Owing(n) = {} /\ surplus[n] = 0
    BY <1>1 DEF Init, Owing, Working
  <2> QED
    BY <2>1, FS_EmptySet
<1> QED
  BY <1>2, <1>3, <1>4, <1>5 DEF BridgeInv

\* A new wrapper: its number is new, and what was said of the others still is.
LEMMA NewWrapper ==
  ASSUME BridgeInv, NEW w \in Wrapper, wrappers' = Append(wrappers, w)
  PROVE  /\ wrappers' \in Seq(Wrapper)
         /\ Len(wrappers) \in Nat /\ DOMAIN wrappers = 1..Len(wrappers)
         /\ DOMAIN wrappers' = 1..(Len(wrappers) + 1)
         /\ wrappers'[Len(wrappers) + 1] = w
         /\ \A v \in DOMAIN wrappers : wrappers'[v] = wrappers[v]
<1>1. wrappers \in Seq(Wrapper)
  BY DEF BridgeInv, TypeOK
<1>2. wrappers' \in Seq(Wrapper)
  BY <1>1, AppendProperties
<1> QED
  BY <1>1, <1>2, AppendProperties, LenProperties

LEMMA WrapperNumbers ==
  ASSUME BridgeInv, NEW v \in DOMAIN wrappers
  PROVE  v \in Nat /\ v # None /\ wrappers[v] \in Wrapper
<1>1. wrappers \in Seq(Wrapper)
  BY DEF BridgeInv, TypeOK
<1>2. v \in 1..Len(wrappers) /\ Len(wrappers) \in Nat
  BY <1>1, LenProperties
<1> QED
  BY <1>1, <1>2, ElementOfSeq, MethodNoneAssumption

\* A call that ends pays what it owes, or never will.
LEMMA EndOfCallPays ==
  ASSUME BridgeInv, NEW r \in Runtime, work[r] # None,
         work' = [work EXCEPT ![r] = None],
         surplus' = Balanced(work[r]) \/ UNCHANGED surplus
  PROVE  OwedIsThere' /\ surplus' \in [Native -> Int]
<1> DEFINE m == work[r].native
<1>1. /\ work \in [Runtime -> Call \cup {None}] /\ work[r] \in Call /\ m \in Native
      /\ surplus \in [Native -> Int]
  BY DEF BridgeInv, TypeOK, Call
<1>2. \/ surplus' = [surplus EXCEPT ![m] = IF work[r].method \in Prefixed THEN @ - 1 ELSE @]
      \/ surplus' = surplus
  BY DEF Balanced
<1>3. ASSUME NEW n \in Native
      PROVE  /\ IsFiniteSet(Owing(n)')
             /\ Prefixed \subseteq Owned => surplus'[n] >= Cardinality(Owing(n)')
  <2>1. /\ IsFiniteSet(Owing(n))
        /\ Prefixed \subseteq Owned => surplus[n] >= Cardinality(Owing(n))
    BY DEF BridgeInv, OwedIsThere
  <2>2. Owing(n)' = Owing(n) \ {r}
    BY <1>1 DEF Owing, Working
  <2>3. r \in Owing(n) <=> n = m /\ work[r].method \in Prefixed
    BY <1>1 DEF Owing, Working
  <2>4. /\ IsFiniteSet(Owing(n) \ {r})
        /\ Cardinality(Owing(n) \ {r}) =
             IF r \in Owing(n) THEN Cardinality(Owing(n)) - 1 ELSE Cardinality(Owing(n))
        /\ Cardinality(Owing(n)) \in Nat
    BY <2>1, FS_RemoveElement, FS_CardinalityType
  <2>5. \/ surplus'[n] = IF r \in Owing(n) THEN surplus[n] - 1 ELSE surplus[n]
        \/ surplus'[n] = surplus[n]
    BY <1>1, <1>2, <2>3
  <2> QED
    BY <1>1, <2>1, <2>2, <2>4, <2>5
<1> QED
  BY <1>1, <1>2, <1>3 DEF OwedIsThere

\* Nothing is owed or paid.
LEMMA OwedStays ==
  ASSUME BridgeInv, UNCHANGED surplus, \A n \in Native : Owing(n)' = Owing(n)
  PROVE  OwedIsThere'
BY DEF BridgeInv, OwedIsThere

LEMMA BeginKeeps ==
  ASSUME BridgeInv, NEW c \in Context, NEW n \in Native, NEW method \in Method \cup {None},
         Begin(c, n, method)
  PROVE  BridgeInv'
<1> DEFINE r == RuntimeOf[c]
           call == [native |-> n, context |-> c, method |-> method, dict |-> association[n]]
<1> USE DEF BridgeInv
<1>1. /\ r \in Runtime /\ work[r] = None
      /\ surplus' = [surplus EXCEPT ![n] = IF method \in Owned THEN @ + 1 ELSE @]
      /\ work' = [work EXCEPT ![r] = call]
      /\ UNCHANGED <<alive, wrappers, held, finalized, dicts, association, program, lost>>
  BY RuntimeAssumption DEF Begin
<1>2. dicts \in Seq([Runtime -> DOMAIN wrappers \cup {None}])
  BY DEF TypeOK
<1>3. call \in Call /\ call # None
  <2>1. association[n] \in 1..MaxWrappers \cup {None}
    BY <1>2, LenProperties, MaxWrappersAssumption DEF TypeOK
  <2> QED
    BY <2>1, CallAssumption DEF Call
<1>4. TypeOK'
  <2>1. work' \in [Runtime -> Call \cup {None}]
    BY <1>1, <1>3 DEF TypeOK
  <2>2. surplus' \in [Native -> Int]
    BY <1>1 DEF TypeOK
  <2> QED
    BY <1>1, <2>1, <2>2 DEF TypeOK
<1>5. /\ \A q \in Runtime : q # r => work'[q] = work[q]
      /\ work'[r] = call
  BY <1>1 DEF TypeOK
<1>6. HeldNotFinalized' /\ LatestIsKnown'
  BY <1>1 DEF HeldNotFinalized, LatestIsKnown, WrapsIn
<1>7. CallsKnowTheDictionary'
  BY <1>1, <1>5 DEF CallsKnowTheDictionary, TypeOK
<1>8. DictionariesApart'
  BY <1>1, <1>5 DEF DictionariesApart, TypeOK
<1>9. OwedIsThere'
  <2> SUFFICES ASSUME NEW k \in Native
               PROVE  /\ IsFiniteSet(Owing(k)')
                      /\ Prefixed \subseteq Owned => surplus'[k] >= Cardinality(Owing(k)')
    BY DEF OwedIsThere
  <2>1. /\ IsFiniteSet(Owing(k)) /\ r \notin Owing(k)
        /\ Prefixed \subseteq Owned => surplus[k] >= Cardinality(Owing(k))
    BY <1>1 DEF OwedIsThere, Owing, Working
  <2>2. /\ IsFiniteSet(Owing(k) \cup {r})
        /\ Cardinality(Owing(k) \cup {r}) = Cardinality(Owing(k)) + 1
        /\ Cardinality(Owing(k)) \in Nat
    BY <2>1, FS_AddElement, FS_CardinalityType
  <2>3. /\ k = n /\ method \in Owned => surplus'[k] = surplus[k] + 1
        /\ ~(k = n /\ method \in Owned) => surplus'[k] = surplus[k]
        /\ surplus[k] \in Int
    BY <1>1 DEF TypeOK
  <2>4. CASE k = n /\ method \in Prefixed
    <3>1. Owing(k)' = Owing(k) \cup {r}
      BY <1>1, <1>3, <1>5, <2>4 DEF Owing, Working
    <3> QED
      BY <2>1, <2>2, <2>3, <2>4, <3>1
  <2>5. CASE ~(k = n /\ method \in Prefixed)
    <3>1. Owing(k)' = Owing(k)
      BY <1>1, <1>3, <1>5, <2>5 DEF Owing, Working
    <3> QED
      BY <2>1, <2>2, <2>3, <3>1
  <2> QED
    BY <2>4, <2>5
<1>10. Len(dicts') <= MaxWrappers
  BY <1>1
<1> QED
  BY <1>4, <1>6, <1>7, <1>8, <1>9, <1>10

LEMMA AssociateKeeps ==
  ASSUME BridgeInv, NEW r \in Runtime, Associate(r)
  PROVE  BridgeInv'
<1> DEFINE n == work[r].native
           d == Len(dicts) + 1
           empty == [q \in Runtime |-> None]
           T == [Runtime -> DOMAIN wrappers \cup {None}]
<1> USE DEF BridgeInv
<1>1. /\ work[r] # None /\ work[r].dict = None /\ work[r] \in Call /\ n \in Native
      /\ dicts' = Append(dicts, empty)
      /\ association' = [association EXCEPT ![n] = d]
      /\ work' = [work EXCEPT ![r].dict = d]
      /\ UNCHANGED <<alive, wrappers, held, finalized, program, surplus>>
      /\ Len(dicts) < MaxWrappers
  BY DEF Associate, TypeOK, Call
<1>2. /\ Len(dicts) \in Nat /\ DOMAIN dicts = 1..Len(dicts) /\ DOMAIN dicts' = 1..d
      /\ dicts' \in Seq(T) /\ dicts'[d] = empty /\ Len(dicts') = d
      /\ \A i \in DOMAIN dicts : dicts'[i] = dicts[i]
  <2>1. dicts \in Seq(T) /\ empty \in T
    BY DEF TypeOK
  <2>2. dicts' \in Seq(T)
    BY <1>1, <2>1, AppendProperties
  <2> HIDE DEF T, empty
  <2> QED
    BY <1>1, <2>1, <2>2, AppendProperties, LenProperties
<1>3. d \notin DOMAIN dicts /\ d # None /\ d \in 1..MaxWrappers
  BY <1>1, <1>2, MethodNoneAssumption, MaxWrappersAssumption
<1>4. /\ association'[n] = d
      /\ \A k \in Native : k # n => association'[k] = association[k]
      /\ \A k \in Native : association[k] \in DOMAIN dicts \cup {None}
  BY <1>1 DEF TypeOK
<1>5. /\ \A q \in Runtime : q # r => work'[q] = work[q]
      /\ work'[r] = [work[r] EXCEPT !.dict = d]
  BY <1>1 DEF TypeOK
<1>6. /\ work'[r] \in Call /\ work'[r].native = n /\ work'[r].context = work[r].context
      /\ work'[r].dict = d /\ work'[r].method = work[r].method
  BY <1>1, <1>3, <1>5 DEF Call
<1>7. lost \subseteq lost' /\ lost' \subseteq Native \X Runtime
  BY <1>1 DEF Associate, TypeOK
<1>8. association[n] # None => \A q \in Runtime :
        dicts[association[n]][q] # None \/ (q \in Working(n) /\ work[q].dict = association[n])
          => <<n, q>> \in lost'
  BY <1>1 DEF Associate
<1>9. TypeOK'
  <2>1. work' \in [Runtime -> Call \cup {None}]
    BY <1>1, <1>5, <1>6 DEF TypeOK
  <2>2. association' \in [Native -> DOMAIN dicts' \cup {None}]
    BY <1>1, <1>2, <1>4 DEF TypeOK
  <2> QED
    BY <1>1, <1>2, <1>7, <2>1, <2>2 DEF TypeOK
<1>10. HeldNotFinalized'
  BY <1>1 DEF HeldNotFinalized
<1>11. CallsKnowTheDictionary'
  <2> SUFFICES ASSUME NEW q \in Runtime, work'[q] # None
               PROVE  /\ RuntimeOf[work'[q].context] = q
                      /\ work'[q].dict # None =>
                           /\ work'[q].dict \in DOMAIN dicts'
                           /\ \/ work'[q].dict = association'[work'[q].native]
                              \/ <<work'[q].native, q>> \in lost'
    BY DEF CallsKnowTheDictionary
  <2>1. CASE q = r
    BY <1>1, <1>2, <1>4, <1>6, <2>1 DEF CallsKnowTheDictionary
  <2>2. CASE q # r
    <3>1. work'[q] = work[q] /\ work[q] # None /\ work[q].native \in Native
      BY <1>5, <2>2 DEF TypeOK, Call
    <3>2. RuntimeOf[work[q].context] = q
      BY <3>1 DEF CallsKnowTheDictionary
    <3>3. ASSUME work[q].dict # None
          PROVE  /\ work[q].dict \in DOMAIN dicts
                 /\ work[q].dict = association[work[q].native] \/ <<work[q].native, q>> \in lost
      BY <3>1, <3>3 DEF CallsKnowTheDictionary
    <3>4. q \in Working(work[q].native)
      BY <3>1 DEF Working
    <3> QED
      BY <1>2, <1>4, <1>7, <1>8, <3>1, <3>2, <3>3, <3>4
  <2> QED
    BY <2>1, <2>2
<1>12. DictionariesApart'
  <2>1. \A q \in Runtime : work[q] # None => work[q].dict # d
    BY <1>3 DEF CallsKnowTheDictionary
  <2> QED
    BY <1>1, <1>3, <1>4, <1>5, <1>6, <2>1 DEF DictionariesApart
<1>13. LatestIsKnown'
  <2>1. wrappers' = wrappers /\ finalized' = finalized /\ alive' = alive
    BY <1>1
  <2>2. ASSUME NEW v \in DOMAIN wrappers \ finalized, NEW k \in Native, NEW q \in Runtime,
               WrapsIn(v, k, q), wrappers[v].context \in alive, <<k, q>> \notin lost'
        PROVE  /\ association'[k] # None /\ dicts'[association'[k]][q] = v
               /\ \A w \in DOMAIN wrappers : WrapsIn(w, k, q) => w <= v
    <3>1. <<k, q>> \notin lost
      BY <1>7, <2>2
    <3>2. /\ association[k] # None /\ dicts[association[k]][q] = v
          /\ \A w \in DOMAIN wrappers : WrapsIn(w, k, q) => w <= v
      BY <2>2, <3>1 DEF LatestIsKnown
    <3>3. v # None
      BY WrapperNumbers
    <3>4. k # n
      BY <1>8, <2>2, <3>2, <3>3
    <3> QED
      BY <1>2, <1>4, <3>2, <3>4
  <2>3. \A v \in DOMAIN wrappers, k \in Native, q \in Runtime : WrapsIn(v, k, q)' <=> WrapsIn(v, k, q)
    BY <2>1 DEF WrapsIn
  <2> QED
    BY <2>1, <2>2, <2>3 DEF LatestIsKnown
<1>14. OwedIsThere'
  <2>1. \A k \in Native : Owing(k)' = Owing(k)
    BY <1>1, <1>5, <1>6, CallAssumption DEF Owing, Working
  <2> QED
    BY <1>1, <2>1, OwedStays
<1> QED
  BY <1>1, <1>2, <1>3, <1>9, <1>10, <1>11, <1>12, <1>13, <1>14

\* The end of a call changes no dictionary of another call.
LEMMA CallsAfterEnd ==
  ASSUME BridgeInv, NEW r \in Runtime, work' = [work EXCEPT ![r] = None],
         UNCHANGED <<association, lost>>, DOMAIN dicts' = DOMAIN dicts
  PROVE  /\ CallsKnowTheDictionary' /\ DictionariesApart'
         /\ work' \in [Runtime -> Call \cup {None}]
<1>1. \A q \in Runtime : work'[q] = IF q = r THEN None ELSE work[q]
  BY DEF BridgeInv, TypeOK
<1>2. work' \in [Runtime -> Call \cup {None}]
  BY DEF BridgeInv, TypeOK
<1> QED
  BY <1>1, <1>2 DEF BridgeInv, CallsKnowTheDictionary, DictionariesApart

LEMMA UseWrapperKeeps ==
  ASSUME BridgeInv, NEW r \in Runtime, UseWrapper(r)
  PROVE  BridgeInv'
<1> USE DEF BridgeInv
<1>1. /\ work[r] # None /\ work' = [work EXCEPT ![r] = None] /\ surplus' = Balanced(work[r])
      /\ held' = held \cup {Cached(r)} /\ Answers(Cached(r))
      /\ UNCHANGED <<alive, wrappers, finalized, dicts, association, program, lost>>
  BY DEF UseWrapper
<1>2. Cached(r) \in DOMAIN wrappers
  <2>1. work[r].dict \in DOMAIN dicts
    BY DEF UseWrapper, CallsKnowTheDictionary
  <2>2. dicts[work[r].dict] \in [Runtime -> DOMAIN wrappers \cup {None}]
    BY <2>1, ElementOfSeq, LenProperties DEF TypeOK
  <2> QED
    BY <1>1, <2>2 DEF Cached, Answers
<1>3. CallsKnowTheDictionary' /\ DictionariesApart' /\ work' \in [Runtime -> Call \cup {None}]
  BY <1>1, CallsAfterEnd
<1>4. OwedIsThere' /\ surplus' \in [Native -> Int]
  BY <1>1, EndOfCallPays
<1>5. TypeOK'
  BY <1>1, <1>2, <1>3, <1>4 DEF TypeOK
<1>6. HeldNotFinalized' /\ LatestIsKnown'
  <2>1. Cached(r) \notin finalized /\ wrappers[Cached(r)].context # None
    BY <1>1, NoneAssumption DEF Answers, TypeOK
  <2> QED
    BY <1>1, <2>1 DEF HeldNotFinalized, LatestIsKnown, WrapsIn
<1> QED
  BY <1>1, <1>3, <1>4, <1>5, <1>6

\* One entry of one dictionary is set, and what that comes to.
SetsEntry(d, r, e) == dicts' = [dicts EXCEPT ![d][r] = e]
EntryIsSet(d, r, e) ==
  /\ dicts' \in Seq([Runtime -> DOMAIN wrappers' \cup {None}])
  /\ Len(dicts') = Len(dicts) /\ DOMAIN dicts' = DOMAIN dicts
  /\ \A i \in DOMAIN dicts, q \in Runtime :
       dicts'[i][q] = IF i = d /\ q = r THEN e ELSE dicts[i][q]

LEMMA EntrySet ==
  ASSUME BridgeInv, NEW d \in DOMAIN dicts, NEW r \in Runtime, NEW e \in DOMAIN wrappers' \cup {None},
         DOMAIN wrappers \subseteq DOMAIN wrappers', SetsEntry(d, r, e)
  PROVE  EntryIsSet(d, r, e)
<1> DEFINE T == [Runtime -> DOMAIN wrappers' \cup {None}]
           f == [dicts[d] EXCEPT ![r] = e]
<1>1. dicts \in Seq([Runtime -> DOMAIN wrappers \cup {None}])
  BY DEF BridgeInv, TypeOK
<1>2. dicts \in Seq(T)
  <2>1. [Runtime -> DOMAIN wrappers \cup {None}] \subseteq T
    OBVIOUS
  <2> HIDE DEF T
  <2> QED
    BY <1>1, <2>1, SeqMonotonic
<1>3. DOMAIN dicts = 1..Len(dicts) /\ \A i \in 1..Len(dicts) : dicts[i] \in T
  BY <1>2, ElementOfSeq, LenProperties
<1>4. f \in T /\ dicts' = [dicts EXCEPT ![d] = f] /\ d \in 1..Len(dicts)
  BY <1>3 DEF SetsEntry
<1>5. /\ dicts' \in Seq(T) /\ Len(dicts') = Len(dicts)
      /\ \A i \in 1..Len(dicts) : dicts'[i] = IF i = d THEN f ELSE dicts[i]
  <2>1. d \in 1..Len(dicts) /\ f \in T /\ dicts' = [dicts EXCEPT ![d] = f]
    BY <1>4
  <2> HIDE DEF f, T
  <2> QED
    BY ONLY <1>2, <2>1, ExceptSeq
<1>6. DOMAIN dicts' = DOMAIN dicts
  BY <1>3, <1>5, LenProperties
<1>7. \A q \in Runtime : f[q] = IF q = r THEN e ELSE dicts[d][q]
  BY <1>3
<1> QED
  <2> HIDE DEF f
  <2> QED
    BY <1>3, <1>5, <1>6, <1>7 DEF EntryIsSet

Stays(v, k, q) ==
  /\ association[k] # None /\ dicts'[association[k]][q] = v
  /\ \A u \in DOMAIN wrappers : WrapsIn(u, k, q) => u <= v

\* A wrapper that was known before a call set an entry is known after it: the call has
\* not found it, so that the entry is another one.
LEMMA EntryStays ==
  ASSUME BridgeInv, NEW r \in Runtime, NEW e, work[r] # None, work[r].dict # None,
         ~Answers(Cached(r)),
         work[r].dict = association[work[r].native] \/ <<work[r].native, r>> \in lost,
         EntryIsSet(work[r].dict, r, e),
         NEW v \in DOMAIN wrappers \ finalized, NEW k \in Native, NEW q \in Runtime,
         wrappers'[v] = wrappers[v],
         WrapsIn(v, k, q)', wrappers'[v].context \in alive, <<k, q>> \notin lost
  PROVE  Stays(v, k, q) /\ ~(k = work[r].native /\ q = r)
<1>1. WrapsIn(v, k, q) /\ wrappers[v].context \in alive
  BY DEF WrapsIn
<1>2. /\ association[k] # None /\ dicts[association[k]][q] = v
      /\ \A u \in DOMAIN wrappers : WrapsIn(u, k, q) => u <= v
  BY <1>1 DEF BridgeInv, LatestIsKnown
<1>3. v # None
  BY WrapperNumbers
<1>4. ~(k = work[r].native /\ q = r)
  <2> SUFFICES ASSUME k = work[r].native, q = r PROVE FALSE
    OBVIOUS
  <2>1. Cached(r) = v
    BY <1>2 DEF Cached
  <2> QED
    BY <1>1, <1>3, <2>1 DEF Answers
<1>5. k # work[r].native => association[k] # work[r].dict
  BY <1>2 DEF BridgeInv, DictionariesApart
<1>6. association[k] \in DOMAIN dicts
  BY <1>2 DEF BridgeInv, TypeOK
<1>7. dicts'[association[k]][q] = v
  BY <1>2, <1>4, <1>5, <1>6 DEF EntryIsSet
<1> QED
  BY <1>2, <1>4, <1>7 DEF Stays

LEMMA CreateWrapperKeeps ==
  ASSUME BridgeInv, NEW r \in Runtime, CreateWrapper(r)
  PROVE  BridgeInv'
<1> DEFINE n == work[r].native
           d == work[r].dict
           new == Len(wrappers) + 1
           w == [native |-> n, context |-> work[r].context]
           T == [Runtime -> DOMAIN wrappers' \cup {None}]
<1> USE DEF BridgeInv
<1>1. /\ work[r] # None /\ d # None /\ ~Answers(Cached(r))
      /\ wrappers' = Append(wrappers, w) /\ held' = held \cup {new}
      /\ dicts' = [dicts EXCEPT ![d][r] = new]
      /\ work' = [work EXCEPT ![r] = None] /\ surplus' = Balanced(work[r])
      /\ UNCHANGED <<alive, finalized, association, program, lost>>
  BY DEF CreateWrapper
<1>2. n \in Native /\ work[r].context \in Context /\ RuntimeOf[work[r].context] = r /\ w \in Wrapper
  <2>1. work[r] \in Call
    BY <1>1 DEF TypeOK
  <2>2. n \in Native /\ work[r].context \in Context
    BY <2>1 DEF Call
  <2>3. RuntimeOf[work[r].context] = r
    BY <1>1 DEF CallsKnowTheDictionary
  <2> QED
    BY <2>2, <2>3 DEF Wrapper
<1>3. /\ wrappers' \in Seq(Wrapper)
      /\ Len(wrappers) \in Nat /\ DOMAIN wrappers = 1..Len(wrappers) /\ DOMAIN wrappers' = 1..new
      /\ wrappers'[new] = w /\ \A v \in DOMAIN wrappers : wrappers'[v] = wrappers[v]
  BY <1>1, <1>2, NewWrapper
<1>4. /\ new \in DOMAIN wrappers' /\ new \notin DOMAIN wrappers /\ new # None
      /\ DOMAIN wrappers \subseteq DOMAIN wrappers' /\ finalized \subseteq DOMAIN wrappers
  BY <1>3, MethodNoneAssumption DEF TypeOK
<1>5. d \in DOMAIN dicts /\ (d = association[n] \/ <<n, r>> \in lost)
  BY <1>1 DEF CallsKnowTheDictionary
<1>6. /\ dicts' \in Seq(T) /\ Len(dicts') = Len(dicts) /\ DOMAIN dicts' = DOMAIN dicts
      /\ \A i \in DOMAIN dicts, q \in Runtime :
           dicts'[i][q] = IF i = d /\ q = r THEN new ELSE dicts[i][q]
      /\ EntryIsSet(d, r, new)
  <2>1. SetsEntry(d, r, new)
    BY <1>1 DEF SetsEntry
  <2>2. EntryIsSet(d, r, new)
    <3> HIDE DEF d, new
    <3> QED
      BY <1>4, <1>5, <2>1, EntrySet
  <2> QED
    BY <2>2 DEF EntryIsSet
<1>7. CallsKnowTheDictionary' /\ DictionariesApart' /\ work' \in [Runtime -> Call \cup {None}]
  BY <1>1, <1>6, CallsAfterEnd
<1>8. OwedIsThere' /\ surplus' \in [Native -> Int]
  BY <1>1, EndOfCallPays
<1>9. TypeOK'
  BY <1>1, <1>3, <1>4, <1>6, <1>7, <1>8 DEF TypeOK
<1>10. HeldNotFinalized'
  BY <1>1, <1>2, <1>3, <1>4, NoneAssumption DEF HeldNotFinalized, TypeOK
<1>11. LatestIsKnown'
  <2> SUFFICES ASSUME NEW v \in DOMAIN wrappers' \ finalized, NEW k \in Native, NEW q \in Runtime,
                      WrapsIn(v, k, q)', wrappers'[v].context \in alive, <<k, q>> \notin lost
               PROVE  /\ association[k] # None /\ dicts'[association[k]][q] = v
                      /\ \A u \in DOMAIN wrappers' : WrapsIn(u, k, q)' => u <= v
    BY <1>1 DEF LatestIsKnown
  <2>1. CASE v = new
    <3>1. k = n /\ q = r
      BY <1>2, <1>3, <2>1 DEF WrapsIn
    <3>2. d = association[n] /\ dicts'[d][r] = new
      BY <1>2, <1>5, <1>6, <3>1
    <3>3. \A u \in DOMAIN wrappers' : u <= v
      BY <1>3, <2>1
    <3> QED
      BY <1>1, <2>1, <3>1, <3>2, <3>3
  <2>2. CASE v # new
    <3>1. v \in DOMAIN wrappers \ finalized
      BY <1>3, <2>2
    <3>2. Stays(v, k, q) /\ ~(k = n /\ q = r)
      <4>1. wrappers'[v] = wrappers[v] /\ EntryIsSet(work[r].dict, r, new)
        BY <1>3, <1>6, <3>1
      <4> HIDE DEF new
      <4> QED
        BY <1>1, <1>5, <2>2, <3>1, <4>1, EntryStays
    <3>3. \A u \in DOMAIN wrappers' : u = new => ~WrapsIn(u, k, q)'
      BY <1>2, <1>3, <3>2 DEF WrapsIn
    <3>4. \A u \in DOMAIN wrappers' : u = new \/ (u \in DOMAIN wrappers /\ wrappers'[u] = wrappers[u])
      BY <1>3
    <3> QED
      BY <3>2, <3>3, <3>4 DEF WrapsIn, Stays
  <2> QED
    BY <2>1, <2>2
<1> QED
  BY <1>1, <1>6, <1>7, <1>8, <1>9, <1>10, <1>11

LEMMA CreateFailsKeeps ==
  ASSUME BridgeInv, NEW r \in Runtime, NEW raises \in BOOLEAN, CreateFails(r, raises)
  PROVE  BridgeInv'
<1> DEFINE n == work[r].native
           d == work[r].dict
           new == Len(wrappers) + 1
           w == [native |-> n, context |-> None]
<1> USE DEF BridgeInv
<1>1. /\ work[r] # None /\ d # None /\ ~Answers(Cached(r))
      /\ wrappers' = Append(wrappers, w)
      /\ work' = [work EXCEPT ![r] = None]
      /\ UNCHANGED <<alive, held, finalized, association, program, lost>>
      /\ \/ UNCHANGED <<dicts, surplus>>
         \/ dicts' = [dicts EXCEPT ![d][r] = None] /\ surplus' = Balanced(work[r])
  BY DEF CreateFails
<1>2. n \in Native /\ w \in Wrapper
  BY <1>1 DEF TypeOK, Call, Wrapper
<1>3. /\ wrappers' \in Seq(Wrapper)
      /\ Len(wrappers) \in Nat /\ DOMAIN wrappers = 1..Len(wrappers) /\ DOMAIN wrappers' = 1..new
      /\ wrappers'[new] = w /\ \A v \in DOMAIN wrappers : wrappers'[v] = wrappers[v]
  BY <1>1, <1>2, NewWrapper
<1>4. DOMAIN wrappers \subseteq DOMAIN wrappers'
  BY <1>3
<1>5. d \in DOMAIN dicts /\ (d = association[n] \/ <<n, r>> \in lost)
  BY <1>1 DEF CallsKnowTheDictionary
<1>6. /\ dicts' \in Seq([Runtime -> DOMAIN wrappers' \cup {None}])
      /\ Len(dicts') = Len(dicts) /\ DOMAIN dicts' = DOMAIN dicts
      /\ UNCHANGED dicts \/ EntryIsSet(d, r, None)
  <2>1. CASE UNCHANGED dicts
    <3>1. [Runtime -> DOMAIN wrappers \cup {None}] \subseteq [Runtime -> DOMAIN wrappers' \cup {None}]
      BY <1>4
    <3>2. dicts \in Seq([Runtime -> DOMAIN wrappers \cup {None}])
      BY DEF TypeOK
    <3>3. dicts \in Seq([Runtime -> DOMAIN wrappers' \cup {None}])
      BY <3>1, <3>2, SeqMonotonic
    <3> QED
      BY <2>1, <3>3
  <2>2. CASE dicts' = [dicts EXCEPT ![d][r] = None]
    <3>1. None \in DOMAIN wrappers' \cup {None} /\ SetsEntry(d, r, None)
      BY <2>2 DEF SetsEntry
    <3>2. EntryIsSet(d, r, None)
      <4> HIDE DEF d
      <4> QED
        BY <1>4, <1>5, <3>1, EntrySet
    <3> QED
      BY <3>2 DEF EntryIsSet
  <2> QED
    BY <1>1, <2>1, <2>2
<1>7. ASSUME NEW v \in DOMAIN wrappers \ finalized, NEW k \in Native, NEW q \in Runtime,
             WrapsIn(v, k, q)', wrappers'[v].context \in alive, <<k, q>> \notin lost
      PROVE  Stays(v, k, q)
  <2>1. wrappers'[v] = wrappers[v]
    BY <1>3
  <2>2. CASE UNCHANGED dicts
    <3>1. WrapsIn(v, k, q) /\ wrappers[v].context \in alive
      BY <1>7, <2>1 DEF WrapsIn
    <3> QED
      BY <1>7, <2>2, <3>1 DEF LatestIsKnown, Stays
  <2>3. CASE EntryIsSet(work[r].dict, r, None)
    BY <1>1, <1>5, <1>7, <2>1, <2>3, EntryStays
  <2> QED
    BY <1>6, <2>2, <2>3
<1>8. CallsKnowTheDictionary' /\ DictionariesApart' /\ work' \in [Runtime -> Call \cup {None}]
  BY <1>1, <1>6, CallsAfterEnd
<1>9. OwedIsThere' /\ surplus' \in [Native -> Int]
  BY <1>1, EndOfCallPays
<1>10. TypeOK'
  BY <1>1, <1>3, <1>4, <1>6, <1>8, <1>9 DEF TypeOK
<1>11. HeldNotFinalized'
  BY <1>1, <1>3 DEF HeldNotFinalized, TypeOK
<1>12. LatestIsKnown'
  <2> SUFFICES ASSUME NEW v \in DOMAIN wrappers' \ finalized, NEW k \in Native, NEW q \in Runtime,
                      WrapsIn(v, k, q)', wrappers'[v].context \in alive, <<k, q>> \notin lost
               PROVE  /\ association[k] # None /\ dicts'[association[k]][q] = v
                      /\ \A u \in DOMAIN wrappers' : WrapsIn(u, k, q)' => u <= v
    BY <1>1 DEF LatestIsKnown
  <2>1. \A u \in DOMAIN wrappers' : u = new => ~WrapsIn(u, k, q)'
    BY <1>3 DEF WrapsIn
  <2>2. v \in DOMAIN wrappers \ finalized
    BY <1>3, <2>1
  <2>3. Stays(v, k, q)
    BY <1>7, <2>2
  <2>4. \A u \in DOMAIN wrappers' : u = new \/ (u \in DOMAIN wrappers /\ wrappers'[u] = wrappers[u])
    BY <1>3
  <2> QED
    BY <2>1, <2>3, <2>4 DEF WrapsIn, Stays
<1> QED
  BY <1>1, <1>6, <1>8, <1>9, <1>10, <1>11, <1>12

\* Steps outside of the calls: the collector, scripts, the program.
LEMMA OutsideKeeps ==
  ASSUME BridgeInv,
         \/ \E w \in DOMAIN wrappers : Finalize(w) \/ ScriptsForget(w)
         \/ \E n \in Native : ProgramReleases(n)
         \/ \E c \in Context : ContextDies(c)
  PROVE  BridgeInv'
<1> USE DEF BridgeInv
<1>1. /\ UNCHANGED <<wrappers, dicts, association, work, surplus, lost>>
      /\ alive' \subseteq alive /\ finalized \subseteq finalized' /\ program' \subseteq program
      /\ held' \subseteq held
      /\ finalized' \subseteq DOMAIN wrappers /\ held' \cap finalized' = {}
  BY DEF Finalize, ScriptsForget, ProgramReleases, ContextDies, TypeOK, HeldNotFinalized
<1>2. TypeOK' /\ HeldNotFinalized'
  BY <1>1 DEF TypeOK, HeldNotFinalized
<1>3. CallsKnowTheDictionary' /\ DictionariesApart' /\ LatestIsKnown'
  BY <1>1 DEF CallsKnowTheDictionary, DictionariesApart, LatestIsKnown, WrapsIn
<1>4. OwedIsThere'
  BY <1>1, OwedStays DEF Owing, Working
<1> QED
  BY <1>1, <1>2, <1>3, <1>4

LEMMA BridgeInductive == Spec => []BridgeInv
<1>1. BridgeInv /\ [Next]_vars => BridgeInv'
  <2> SUFFICES ASSUME BridgeInv, [Next]_vars PROVE BridgeInv'
    OBVIOUS
  <2>1. CASE \E c \in Context, n \in Native, method \in Method \cup {None} : Begin(c, n, method)
    BY <2>1, BeginKeeps
  <2>2. CASE \E r \in Runtime : Associate(r)
    BY <2>2, AssociateKeeps
  <2>3. CASE \E r \in Runtime : UseWrapper(r)
    BY <2>3, UseWrapperKeeps
  <2>4. CASE \E r \in Runtime : CreateWrapper(r)
    BY <2>4, CreateWrapperKeeps
  <2>5. CASE \/ \E w \in DOMAIN wrappers : Finalize(w) \/ ScriptsForget(w)
             \/ \E n \in Native : ProgramReleases(n)
             \/ \E c \in Context : ContextDies(c)
    BY <2>5, OutsideKeeps
  <2>6. CASE \E r \in Runtime, raises \in BOOLEAN : CreateFails(r, raises)
    BY <2>6, CreateFailsKeeps
  <2>7. CASE UNCHANGED vars
    <3>1. TypeOK' /\ HeldNotFinalized' /\ CallsKnowTheDictionary' /\ DictionariesApart'
      BY <2>7 DEF vars, BridgeInv, TypeOK, HeldNotFinalized, CallsKnowTheDictionary, DictionariesApart
    <3>2. LatestIsKnown'
      BY <2>7 DEF vars, BridgeInv, LatestIsKnown, WrapsIn
    <3>3. OwedIsThere' /\ Len(dicts') <= MaxWrappers
      BY <2>7 DEF vars, BridgeInv, OwedIsThere, Owing, Working
    <3> QED
      BY <3>1, <3>2, <3>3 DEF BridgeInv
  <2> QED
    BY <2>1, <2>2, <2>3, <2>4, <2>5, <2>6, <2>7 DEF Next
<1> QED
  BY <1>1, BridgeInitInv, PTL DEF Spec

\* Scripts of a runtime never see a native object as two objects (OneWrapperEach), for any
\* number of objects, contexts and threads, unless the context of the first wrapper has
\* died or the threads of two runtimes have raced for the dictionary.
THEOREM OneObjectForScripts == Spec => []OneWrapperEach
<1>1. BridgeInv => OneWrapperEach
  <2> SUFFICES ASSUME BridgeInv, NEW v \in held, NEW w \in held,
                      v < w, wrappers[w].native = wrappers[v].native,
                      RuntimeOf[wrappers[w].context] = RuntimeOf[wrappers[v].context],
                      wrappers[v].context \in alive,
                      <<wrappers[v].native, RuntimeOf[wrappers[v].context]>> \notin lost
               PROVE  FALSE
    BY DEF OneWrapperEach
  <2> DEFINE n == wrappers[v].native
             r == RuntimeOf[wrappers[v].context]
  <2>1. v \in DOMAIN wrappers \ finalized /\ w \in DOMAIN wrappers
    BY DEF BridgeInv, TypeOK, HeldNotFinalized
  <2>2. WrapsIn(v, n, r) /\ WrapsIn(w, n, r)
    BY DEF BridgeInv, HeldNotFinalized, WrapsIn
  <2>3. n \in Native /\ r \in Runtime
    BY <2>1, WrapperNumbers, RuntimeAssumption DEF Wrapper, BridgeInv, TypeOK
  <2>4. w <= v
    BY <2>1, <2>2, <2>3 DEF BridgeInv, LatestIsKnown
  <2>5. v \in Nat /\ w \in Nat
    BY <2>1, WrapperNumbers
  <2> QED
    BY <2>4, <2>5
<1> QED
  BY <1>1, BridgeInductive, PTL

\* A native object lives as long as a wrapper of it is not finalized (WrappedNativesLive),
\* however many calls of however many threads return it at once, if all methods keep to
\* the naming convention the bridge relies on.
THEOREM WrappersKeepTheirNatives == Spec => []WrappedNativesLive
<1>1. BridgeInv => WrappedNativesLive
  <2> SUFFICES ASSUME BridgeInv, Prefixed \subseteq Owned, NEW n \in Native, Wrapping(n) # {}
               PROVE  References(n) > 0
    BY DEF WrappedNativesLive
  <2>1. IsFiniteSet(Owing(n)) /\ surplus[n] >= Cardinality(Owing(n)) /\ surplus[n] \in Int
    BY DEF BridgeInv, OwedIsThere, TypeOK
  <2>2. Cardinality(Owing(n)) \in Nat
    BY <2>1, FS_CardinalityType
  <2>3. Cardinality(Wrapping(n)) \in Nat \ {0}
    <3>1. DOMAIN wrappers = 1..Len(wrappers) /\ Len(wrappers) \in Nat
      BY LenProperties DEF BridgeInv, TypeOK
    <3>2. IsFiniteSet(1..Len(wrappers)) /\ Wrapping(n) \in SUBSET (1..Len(wrappers))
      BY <3>1, FS_Interval DEF Wrapping
    <3>3. IsFiniteSet(Wrapping(n))
      BY <3>2, FS_Subset
    <3> QED
      BY <3>3, FS_CardinalityType, FS_EmptySet
  <2> QED
    BY <2>1, <2>2, <2>3 DEF References
<1> QED
  BY <1>1, BridgeInductive, PTL
=============================================================================
