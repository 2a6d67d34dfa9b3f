--------------------------- MODULE NamespaceProofs ---------------------------
(***************************************************************************)
(* Namespace for every set of names and values and keys of every length,   *)
(* the native copies of the objects on its heaps (Copies), and their way   *)
(* back (Containers).                                                      *)
(*                                                                         *)
(* The loops of the setter and the getter are folds; StackLemmas gives     *)
(* their turns one by one, and the proofs are inductions over them.        *)
(***************************************************************************)
EXTENDS Containers, StackLemmas, SequenceTheorems, FiniteSetTheorems, TLAPS

\* The locals of the setter, between two turns of its loop.
Heap == [Object -> [Name -> Value]]
Locals == [obj : Object, props : Heap, used : Object, crashed : BOOLEAN, full : BOOLEAN]
Start == [obj |-> Global, props |-> props, used |-> used, crashed |-> FALSE, full |-> FALSE]

\* Objects are none of the other values.
LEMMA ValueKinds ==
  /\ Global \in Object /\ Object \subseteq Nat
  /\ Object \cap (Scalar \cup Missing) = {} /\ Scalar \cap Missing = {}
  /\ Undefined \in Value \ Object /\ Null \in Value \ Object
BY ValueAssumption, BoundAssumption DEF Global, Object, Missing, Value

LEMMA SetTurnType ==
  ASSUME NEW s \in Locals, NEW n \in Name
  PROVE  SetTurn(s, n) \in Locals
<1>1. /\ s.obj \in Object /\ s.used \in Object /\ s.props \in Heap
      /\ s.crashed \in BOOLEAN /\ s.full \in BOOLEAN
  BY DEF Locals
<1>2. CASE SetTurn(s, n) = [s EXCEPT !.crashed = TRUE]
  BY <1>2 DEF Locals
<1>3. CASE s.props[Global][n] \in Object /\ SetTurn(s, n) = [s EXCEPT !.obj = s.props[Global][n]]
  BY <1>3 DEF Locals
<1>4. CASE SetTurn(s, n) = [s EXCEPT !.full = TRUE]
  BY <1>4 DEF Locals
<1>5. CASE /\ s.used # MaxObjects
           /\ SetTurn(s, n) = [s EXCEPT !.used = @ + 1, !.obj = s.used + 1,
                                        !.props[s.obj][n] = s.used + 1]
  <2>1. s.used + 1 \in Object
    BY <1>1, <1>5, BoundAssumption DEF Object
  <2>2. [s.props EXCEPT ![s.obj][n] = s.used + 1] \in Heap
    BY <1>1, <2>1 DEF Heap, Value
  <2> QED
    BY <1>1, <1>5, <2>1, <2>2 DEF Locals
<1> QED
  BY <1>2, <1>3, <1>4, <1>5 DEF SetTurn

\* The inner components of a key.
LEMMA InnerComponents ==
  ASSUME NEW key \in Key
  PROVE  /\ key \in Seq(Name) /\ Len(key) \in Nat \ {0} /\ DOMAIN key = 1..Len(key)
         /\ Front(key) \in Seq(Name) /\ Len(Front(key)) = Len(key) - 1
         /\ \A i \in 1..(Len(key) - 1) : Front(key)[i] = key[i]
         /\ \A i \in 1..Len(key) : key[i] \in Name
         /\ Last(key) = key[Len(key)]
<1>1. PICK n \in 1..MaxLength : key \in [1..n -> Name]
  BY DEF Key
<1>2. n \in Nat \ {0}
  BY <1>1, BoundAssumption
<1>3. key \in Seq(Name) /\ Len(key) = n
  BY <1>1, <1>2, LenProperties, SeqDef
<1>4. key # <<>>
  BY <1>2, <1>3
<1> QED
  BY <1>2, <1>3, <1>4, LastFront, LenProperties

\* The setter's loop, turn by turn.
LEMMA WalkedTurns ==
  ASSUME TypeOK, NEW key \in Key
  PROVE  \E g \in [0..(Len(key) - 1) -> Locals] :
           /\ g[0] = Start /\ g[Len(key) - 1] = Walked(key)
           /\ \A i \in 1..(Len(key) - 1) : g[i] = SetTurn(g[i - 1], key[i])
<1> DEFINE s == Front(key)
           Fold(iter) == iter = [t \in SUBSET DOMAIN s |->
              IF t = {} THEN Start ELSE SetTurn(iter[t \ {Max(t)}], s[Max(t)])]
           F == [x \in Locals \X Name |-> SetTurn(x[1], x[2])]
           all == CHOOSE iter : Fold(iter)
           g == [i \in 0..Len(s) |-> all[1..i]]
<1>1. Walked(key) = all[DOMAIN s]
  BY DEF Walked, Start, FoldLeft, MapThenFoldSet
<1>2. /\ Len(s) = Len(key) - 1 /\ Len(s) \in Nat /\ s \in Seq(Name)
      /\ s \in [1..Len(s) -> Name] /\ DOMAIN s = 1..Len(s)
      /\ \A i \in 1..Len(s) : s[i] = key[i]
  BY InnerComponents, LenProperties
<1> HIDE DEF s
<1>3. F \in [Locals \X Name -> Locals] /\ Start \in Locals
  BY SetTurnType, ValueKinds DEF TypeOK, Start, Locals, Heap
<1>4. \A p \in Locals, n \in Name : F[<<p, n>>] = SetTurn(p, n)
  OBVIOUS
<1>5. Fold(all)
  <2> HIDE DEF F
  <2>1. PICK iter \in [SUBSET DOMAIN s -> Locals] : Folds(iter, F, Start, s)
    BY <1>2, <1>3, FoldExists
  <2>2. ASSUME NEW t \in SUBSET DOMAIN s, t # {}
        PROVE  iter[t] = SetTurn(iter[t \ {Max(t)}], s[Max(t)])
    <3>1. Max(t) \in t
      BY <1>2, <2>2, MaxOfSome
    <3>2. iter[t \ {Max(t)}] \in Locals /\ s[Max(t)] \in Name
      BY <1>2, <3>1
    <3> QED
      BY <1>4, <2>1, <2>2, <3>2 DEF Folds
  <2>3. Fold(iter)
    BY <2>1, <2>2 DEF Folds
  <2> HIDE DEF Fold
  <2> QED
    BY <2>3
<1> HIDE DEF all, F
<1>6. all[{}] = Start /\ \A i \in 1..Len(s) : all[1..i] = SetTurn(all[1..(i - 1)], s[i])
  <2>1. ASSUME NEW i \in 1..Len(s)
        PROVE  all[1..i] = SetTurn(all[1..(i - 1)], s[i])
    <3>1. 1..i \in SUBSET DOMAIN s /\ 1..i # {} /\ (1..i) \ {i} = 1..(i - 1)
      BY <1>2, UpTo
    <3>2. Max(1..i) = i
      BY <1>2, MaxUpTo
    <3> QED
      BY <1>5, <3>1, <3>2
  <2> QED
    BY <1>5, <2>1
<1>7. \A i \in 0..Len(s) : all[1..i] \in Locals
  <2>1. \A i \in 1..Len(s) : all[1..(i - 1)] \in Locals => all[1..i] \in Locals
    BY <1>2, <1>6, SetTurnType
  <2> QED
    BY <1>2, <1>3, <1>6, <2>1, FoldTrace
<1>8. /\ g \in [0..Len(s) -> Locals]
      /\ g[0] = Start /\ g[Len(s)] = Walked(key)
      /\ \A i \in 1..Len(s) : g[i] = SetTurn(g[i - 1], s[i])
  <2>1. 1..0 = {}
    OBVIOUS
  <2> QED
    BY <1>1, <1>2, <1>6, <1>7, <2>1
<1> HIDE DEF g
<1> QED
  BY <1>2, <1>8

\* The getter reads what there is at the end of a path of objects.
LEMMA GetAlongPath ==
  ASSUME NEW heap \in Heap, NEW key \in Key,
         NEW path \in [0..(Len(key) - 1) -> Object], path[0] = Global,
         \A i \in 1..(Len(key) - 1) : heap[path[i - 1]][key[i]] = path[i]
  PROVE  Get(heap, key) = heap[path[Len(key) - 1]][Last(key)]
<1> DEFINE s == Front(key)
           S == Object \cup {Undefined}
           Fold(iter) == iter = [t \in SUBSET DOMAIN s |->
              IF t = {} THEN Global ELSE GetTurn(heap, iter[t \ {Max(t)}], s[Max(t)])]
           F == [x \in S \X Name |-> GetTurn(heap, x[1], x[2])]
           all == CHOOSE iter : Fold(iter)
<1>1. Get(heap, key) = IF all[DOMAIN s] \in Object THEN heap[all[DOMAIN s]][Last(key)] ELSE Undefined
  BY DEF Get, FoldLeft, MapThenFoldSet
<1>2. /\ Len(s) = Len(key) - 1 /\ Len(s) \in Nat /\ s \in Seq(Name)
      /\ s \in [1..Len(s) -> Name] /\ DOMAIN s = 1..Len(s)
      /\ \A i \in 1..Len(s) : s[i] = key[i]
  BY InnerComponents, LenProperties
<1> HIDE DEF s
<1>3. F \in [S \X Name -> S] /\ Global \in S
  BY ValueKinds DEF GetTurn
<1>4. \A p \in S, n \in Name : F[<<p, n>>] = GetTurn(heap, p, n)
  OBVIOUS
<1>5. Fold(all)
  <2> HIDE DEF F, S
  <2>1. PICK iter \in [SUBSET DOMAIN s -> S] : Folds(iter, F, Global, s)
    BY <1>2, <1>3, FoldExists
  <2>2. ASSUME NEW t \in SUBSET DOMAIN s, t # {}
        PROVE  iter[t] = GetTurn(heap, iter[t \ {Max(t)}], s[Max(t)])
    <3>1. Max(t) \in t
      BY <1>2, <2>2, MaxOfSome
    <3>2. iter[t \ {Max(t)}] \in S /\ s[Max(t)] \in Name
      BY <1>2, <3>1
    <3> QED
      BY <1>4, <2>1, <2>2, <3>2 DEF Folds
  <2>3. Fold(iter)
    BY <2>1, <2>2 DEF Folds
  <2> HIDE DEF Fold
  <2> QED
    BY <2>3
<1> HIDE DEF all, F
<1>0. ASSUME NEW i \in 1..Len(s)
      PROVE  all[1..i] = GetTurn(heap, all[1..(i - 1)], s[i])
  <2>1. 1..i \in SUBSET DOMAIN s /\ 1..i # {} /\ (1..i) \ {i} = 1..(i - 1)
    BY <1>2, UpTo
  <2>2. Max(1..i) = i
    BY <1>2, MaxUpTo
  <2>3. all[1..i] = GetTurn(heap, all[(1..i) \ {Max(1..i)}], s[Max(1..i)])
    BY <1>5, <2>1
  <2> QED
    BY <2>1, <2>2, <2>3
<1> DEFINE At(i) == all[1..i] = path[i]
           N == {i \in Nat : i <= Len(s) => At(i)}
<1>6. At(0)
  <2>1. 1..0 = {}
    OBVIOUS
  <2> QED
    BY <1>5, <2>1
<1>7. ASSUME NEW i \in Nat, i + 1 <= Len(s), At(i) PROVE At(i + 1)
  <2>1. i + 1 \in 1..Len(s) /\ (i + 1) - 1 = i
    BY <1>2, <1>7
  <2>4. all[1..(i + 1)] = GetTurn(heap, all[1..i], s[i + 1])
    BY <1>0, <2>1
  <2>5. heap[path[i]][key[i + 1]] = path[i + 1] /\ path[i] \in Object /\ path[i + 1] \in Object
    <3>1. /\ i + 1 \in 1..(Len(key) - 1)
          /\ i \in 0..(Len(key) - 1) /\ i + 1 \in 0..(Len(key) - 1)
      BY <1>2, <1>7, <2>1
    <3>2. path[i] \in Object /\ path[i + 1] \in Object
      BY <3>1, Zenon
    <3>3. heap[path[(i + 1) - 1]][key[i + 1]] = path[i + 1]
      BY <3>1, Zenon
    <3>4. heap[path[i]][key[i + 1]] = path[i + 1]
      BY <2>1, <3>3, Zenon
    <3> QED
      BY <3>2, <3>4
  <2>6. s[i + 1] = key[i + 1] /\ all[1..i] = path[i]
    BY <1>2, <1>7, <2>1
  <2> QED
    BY <2>4, <2>5, <2>6 DEF GetTurn
<1>8. N = Nat
  <2> HIDE DEF At
  <2>1. 0 \in N /\ N \in SUBSET Nat
    BY <1>6
  <2>2. ASSUME NEW i \in N PROVE i + 1 \in N
    BY <1>2, <1>7
  <2> HIDE DEF N
  <2> QED
    BY <2>1, <2>2, NatSetInduction
<1>9. At(Len(s))
  <2> HIDE DEF At
  <2> QED
    BY <1>2, <1>8
<1> QED
  BY <1>1, <1>2, <1>9
-----------------------------------------------------------------------------
(***************************************************************************)
(* A turn takes an object that is there or makes one, and writes at most   *)
(* one property, the one that leads to the object it goes on with.         *)
(***************************************************************************)
Fine(s) == ~s.crashed /\ ~s.full
Takes(s, t, n) ==
  /\ s.props[Global][n] \in Object /\ t.obj = s.props[Global][n]
  /\ t.props = s.props /\ t.used = s.used
Makes(s, t, n) ==
  /\ s.props[Global][n] \in Missing
  /\ t.obj = s.used + 1 /\ t.used = s.used + 1
  /\ t.props[s.obj][n] = t.obj
  /\ \A o \in Object, x \in Name : o # s.obj \/ x # n => t.props[o][x] = s.props[o][x]
Stops(s, t) ==
  t.obj = s.obj /\ t.props = s.props /\ t.used = s.used /\ ~Fine(t)

LEMMA SetTurnKinds ==
  ASSUME NEW s \in Locals, NEW n \in Name, NEW t, t = SetTurn(s, n)
  PROVE  /\ Takes(s, t, n) \/ Makes(s, t, n) \/ Stops(s, t)
         /\ Fine(t) => Fine(s)
<1> DEFINE found == s.props[Global][n]
<1>1. /\ s.obj \in Object /\ s.used \in Object /\ s.props \in Heap
      /\ s.crashed \in BOOLEAN /\ s.full \in BOOLEAN
      /\ s = [obj |-> s.obj, props |-> s.props, used |-> s.used, crashed |-> s.crashed,
              full |-> s.full]
  BY DEF Locals
<1>2. found \in Value
  BY <1>1, ValueKinds DEF Heap
<1>3. CASE s.crashed \/ found \in Scalar
  <2>1. t = [s EXCEPT !.crashed = TRUE]
    BY <1>3 DEF SetTurn
  <2> QED
    BY <1>1, <2>1 DEF Stops, Fine
<1>4. CASE ~s.crashed /\ found \notin Scalar /\ found \in Object
  <2>1. t = [s EXCEPT !.obj = found]
    BY <1>4 DEF SetTurn
  <2> QED
    BY <1>1, <1>4, <2>1 DEF Takes, Fine
<1>5. CASE ~s.crashed /\ found \notin Scalar /\ found \notin Object /\ s.used = MaxObjects
  <2>1. t = [s EXCEPT !.full = TRUE]
    BY <1>5 DEF SetTurn
  <2> QED
    BY <1>1, <2>1 DEF Stops, Fine
<1>6. CASE ~s.crashed /\ found \notin Scalar /\ found \notin Object /\ s.used # MaxObjects
  <2>1. t = [s EXCEPT !.used = @ + 1, !.obj = s.used + 1, !.props[s.obj][n] = s.used + 1]
    BY <1>6 DEF SetTurn
  <2>2. /\ t.used = s.used + 1 /\ t.obj = s.used + 1 /\ t.full = s.full /\ t.crashed = s.crashed
        /\ t.props = [s.props EXCEPT ![s.obj][n] = s.used + 1]
    BY <1>1, <2>1
  <2>3. /\ t.props[s.obj][n] = s.used + 1
        /\ \A o \in Object, x \in Name : o # s.obj \/ x # n => t.props[o][x] = s.props[o][x]
    BY <1>1, <2>2 DEF Heap
  <2>4. found \in Missing
    BY <1>2, <1>6 DEF Value
  <2> QED
    BY <2>2, <2>3, <2>4 DEF Makes, Fine
<1> QED
  BY <1>3, <1>4, <1>5, <1>6

\* No property holds an object that has not been made yet.
InUse(heap, made) ==
  \A o \in Object, n \in Name : heap[o][n] \in Object => heap[o][n] <= made

WalkInv(s) == InUse(s.props, s.used) /\ s.obj <= s.used /\ used <= s.used

LEMMA WalkStep ==
  ASSUME TypeOK, NEW s \in Locals, NEW n \in Name, WalkInv(s)
  PROVE  WalkInv(SetTurn(s, n))
<1> DEFINE t == SetTurn(s, n)
<1>1. /\ s.obj \in Nat /\ s.used \in Nat /\ used \in Nat /\ Object \subseteq Nat
      /\ Global \in Object /\ s.obj \in Object
  BY ValueKinds DEF Locals, TypeOK
<1>2. CASE Takes(s, t, n)
  BY <1>1, <1>2 DEF Takes, WalkInv, InUse
<1>3. CASE Makes(s, t, n)
  <2>1. ASSUME NEW o \in Object, NEW x \in Name, t.props[o][x] \in Object
        PROVE  t.props[o][x] <= t.used
    <3>1. CASE o = s.obj /\ x = n
      BY <1>1, <1>3, <3>1 DEF Makes
    <3>2. CASE ~(o = s.obj /\ x = n)
      <4>1. t.props[o][x] = s.props[o][x]
        BY <1>3, <3>2 DEF Makes
      <4>2. s.props[o][x] <= s.used /\ s.props[o][x] \in Nat
        BY <1>1, <2>1, <4>1 DEF WalkInv, InUse
      <4> QED
        BY <1>1, <1>3, <4>1, <4>2 DEF Makes
    <3> QED
      BY <3>1, <3>2
  <2> QED
    BY <1>1, <1>3, <2>1 DEF Makes, WalkInv, InUse
<1>4. CASE Stops(s, t)
  BY <1>4 DEF Stops, WalkInv
<1> QED
  BY <1>2, <1>3, <1>4, SetTurnKinds

NamespaceInv == TypeOK /\ InUse(props, used)

\* What the loop of the setter makes of the heap.
LEMMA WalkedInv ==
  ASSUME NamespaceInv, NEW key \in Key,
         NEW g \in [0..(Len(key) - 1) -> Locals], g[0] = Start,
         \A i \in 1..(Len(key) - 1) : g[i] = SetTurn(g[i - 1], key[i])
  PROVE  /\ \A i \in 0..(Len(key) - 1) : WalkInv(g[i])
         /\ Fine(g[Len(key) - 1]) => \A i \in 0..(Len(key) - 1) : Fine(g[i])
<1> DEFINE m == Len(key) - 1
<1>1. m \in Nat /\ \A i \in 1..m : key[i] \in Name
  BY InnerComponents
<1> HIDE DEF m
<1>2. ASSUME NEW i \in Nat, i + 1 <= m
      PROVE  g[i] \in Locals /\ key[i + 1] \in Name /\ g[i + 1] = SetTurn(g[i], key[i + 1])
  <2>1. i \in 0..m /\ i + 1 \in 1..m /\ (i + 1) - 1 = i
    BY <1>1, <1>2
  <2> QED
    BY <1>1, <2>1 DEF m
<1> DEFINE At(i) == WalkInv(g[i])
           N == {i \in Nat : i <= m => At(i)}
<1>3. At(0)
  BY ValueKinds DEF NamespaceInv, TypeOK, WalkInv, Start, Global, Object
<1>4. ASSUME NEW i \in Nat, i + 1 <= m, At(i) PROVE At(i + 1)
  BY <1>2, <1>4, WalkStep DEF NamespaceInv
<1>5. N = Nat
  <2> HIDE DEF At
  <2>1. 0 \in N /\ N \in SUBSET Nat
    BY <1>3
  <2>2. ASSUME NEW i \in N PROVE i + 1 \in N
    BY <1>1, <1>4
  <2> HIDE DEF N
  <2> QED
    BY <2>1, <2>2, NatSetInduction
<1>6. \A i \in 0..m : At(i)
  <2> HIDE DEF At
  <2> QED
    BY <1>1, <1>5
<1> DEFINE From(i) == Fine(g[m]) => Fine(g[m - i])
           M == {i \in Nat : i <= m => From(i)}
<1>7. From(0)
  BY <1>1
<1>8. ASSUME NEW i \in Nat, i + 1 <= m, From(i) PROVE From(i + 1)
  <2>1. m - (i + 1) \in Nat /\ (m - (i + 1)) + 1 = m - i /\ (m - (i + 1)) + 1 <= m
    BY <1>1, <1>8
  <2>2. /\ g[m - (i + 1)] \in Locals /\ key[(m - (i + 1)) + 1] \in Name
        /\ g[m - i] = SetTurn(g[m - (i + 1)], key[(m - (i + 1)) + 1])
    BY <1>2, <2>1
  <2>3. Fine(g[m - i]) => Fine(g[m - (i + 1)])
    BY <2>2, SetTurnKinds
  <2> QED
    BY <1>8, <2>3
<1>9. M = Nat
  <2> HIDE DEF From
  <2>1. 0 \in M /\ M \in SUBSET Nat
    BY <1>7
  <2>2. ASSUME NEW i \in M PROVE i + 1 \in M
    BY <1>1, <1>8
  <2> HIDE DEF M
  <2> QED
    BY <2>1, <2>2, NatSetInduction
<1>10. \A i \in 0..m : Fine(g[m]) => Fine(g[i])
  <2> SUFFICES ASSUME NEW i \in 0..m PROVE Fine(g[m]) => Fine(g[i])
    OBVIOUS
  <2>1. m - i \in Nat /\ m - i <= m /\ m - (m - i) = i
    BY <1>1
  <2>2. From(m - i)
    <3> HIDE DEF From
    <3> QED
      BY <1>9, <2>1
  <2> QED
    BY <2>1, <2>2
<1> QED
  BY <1>6, <1>10 DEF m
-----------------------------------------------------------------------------
\* The heap that a set leaves, and the object it has written the last property of.
LEMMA OutcomeProperties ==
  ASSUME NamespaceInv, NEW key \in Key, NEW v \in Argument, NEW end, end = Outcome(key, v)
  PROVE  /\ end \in Locals /\ WalkInv(end) /\ Converted(v) \in Value
         /\ Walked(key) \in Locals
         /\ end.crashed = Walked(key).crashed /\ end.full = Walked(key).full
         /\ end.obj = Walked(key).obj
         /\ ~end.crashed =>
              end.props = [Walked(key).props EXCEPT ![end.obj][Last(key)] = Converted(v)]
<1>1. PICK g \in [0..(Len(key) - 1) -> Locals] :
           /\ g[0] = Start /\ g[Len(key) - 1] = Walked(key)
           /\ \A i \in 1..(Len(key) - 1) : g[i] = SetTurn(g[i - 1], key[i])
  BY WalkedTurns DEF NamespaceInv
<1> DEFINE w == Walked(key)
<1>2. Len(key) - 1 \in 0..(Len(key) - 1) /\ Last(key) \in Name
  BY InnerComponents
<1>3. w \in Locals /\ WalkInv(w)
  BY <1>1, <1>2, WalkedInv
<1> HIDE DEF w
<1>4. /\ w.obj \in Object /\ w.used \in Object /\ w.props \in Heap
      /\ w.crashed \in BOOLEAN /\ w.full \in BOOLEAN /\ Object \subseteq Nat
      /\ used \in Object /\ used <= w.used
  BY <1>3, ValueKinds DEF Locals, NamespaceInv, TypeOK, WalkInv
<1>5. Converted(v) \in Value /\ (Converted(v) \in Object => Converted(v) <= w.used)
  <2>1. CASE v = Nil
    BY <2>1, ValueKinds DEF Converted, Value, Missing
  <2>2. CASE v # Nil /\ v \in Scalar
    BY <2>2, ValueKinds DEF Converted, Value, Missing
  <2>3. CASE v # Nil /\ v \in 1..used
    <3>1. v \in Object /\ v <= w.used
      BY <1>4, <2>3, BoundAssumption DEF Object
    <3> QED
      BY <2>3, <3>1 DEF Converted, Value
  <2> QED
    BY <2>1, <2>2, <2>3 DEF Argument
<1>6. CASE w.crashed
  BY <1>3, <1>5, <1>6 DEF Outcome, w
<1>7. CASE ~w.crashed
  <2>1. end = [w EXCEPT !.props[w.obj][Last(key)] = Converted(v)]
    BY <1>7 DEF Outcome, w
  <2>2. /\ end.obj = w.obj /\ end.used = w.used /\ end.crashed = w.crashed /\ end.full = w.full
        /\ end.props = [w.props EXCEPT ![w.obj][Last(key)] = Converted(v)]
    BY <1>3, <2>1 DEF Locals
  <2>3. end.props \in Heap
    BY <1>2, <1>4, <1>5, <2>2 DEF Heap
  <2>4. end \in Locals
    BY <1>4, <2>1, <2>2, <2>3, <1>3 DEF Locals
  <2>5. ASSUME NEW o \in Object, NEW n \in Name, end.props[o][n] \in Object
        PROVE  end.props[o][n] <= end.used
    <3>1. end.props[o][n] = IF o = w.obj /\ n = Last(key) THEN Converted(v) ELSE w.props[o][n]
      BY <1>2, <1>4, <2>2 DEF Heap
    <3> QED
      BY <1>3, <1>5, <2>2, <2>5, <3>1 DEF WalkInv, InUse
  <2>6. WalkInv(end)
    BY <1>3, <2>2, <2>5 DEF WalkInv, InUse
  <2> QED
    BY <1>3, <1>5, <2>2, <2>4, <2>6 DEF w
<1> QED
  BY <1>6, <1>7

\* Sets and scripts keep the types, and use only objects that have been made.
LEMMA NamespaceInductive ==
  /\ Init => NamespaceInv
  /\ NamespaceInv /\ [Next]_vars => NamespaceInv'
<1>1. Init => NamespaceInv
  <2> SUFFICES ASSUME Init PROVE NamespaceInv
    OBVIOUS
  <2>1. used \in Object /\ crashed \in BOOLEAN
    BY ValueKinds DEF Init, Global
  <2>2. props \in Heap /\ \A o \in Object, n \in Name : props[o][n] \notin Object
    BY ValueKinds DEF Init, Heap
  <2> QED
    BY <2>1, <2>2 DEF NamespaceInv, TypeOK, InUse, Heap
<1>2. ASSUME NamespaceInv, NEW key \in Key, NEW v \in Argument, Set(key, v) PROVE NamespaceInv'
  <2>1. Outcome(key, v) \in Locals /\ WalkInv(Outcome(key, v))
    BY <1>2, OutcomeProperties
  <2> QED
    BY <1>2, <2>1 DEF Set, Locals, Heap, WalkInv, InUse, NamespaceInv, TypeOK
<1>3. ASSUME NamespaceInv, NEW o \in 1..used, NEW n \in Name, Assign(o, n) PROVE NamespaceInv'
  <2>1. /\ o \in Object /\ used \in Nat /\ Object \subseteq Nat
        /\ props \in [Object -> [Name -> Value]] /\ used \in Object
    BY <1>3, BoundAssumption DEF NamespaceInv, TypeOK, Object
  <2> DEFINE Assigned(v) == /\ props' = [props EXCEPT ![o][n] = v]
                            /\ used' \in Object /\ used <= used'
                            /\ v \in Object => v <= used'
  <2>2. PICK v \in Value : Assigned(v)
    <3>1. CASE \E v \in Value \ ((used + 1)..MaxObjects) :
                 props' = [props EXCEPT ![o][n] = v] /\ used' = used
      <4>1. PICK v \in Value \ ((used + 1)..MaxObjects) :
                 props' = [props EXCEPT ![o][n] = v] /\ used' = used
        BY <3>1
      <4>2. v \in Object => v <= used
        BY <2>1, <4>1, BoundAssumption DEF Object
      <4>3. Assigned(v)
        BY <2>1, <4>1, <4>2
      <4> HIDE DEF Assigned
      <4> QED
        BY <4>1, <4>3
    <3>2. CASE /\ used < MaxObjects /\ used' = used + 1
               /\ props' = [props EXCEPT ![o][n] = used + 1]
      <4>1. used + 1 \in Object /\ used + 1 \in Value
        BY <2>1, <3>2, BoundAssumption DEF Object, Value
      <4>2. Assigned(used + 1)
        BY <2>1, <3>2, <4>1
      <4> HIDE DEF Assigned
      <4> QED
        BY <4>1, <4>2
    <3> QED
      BY <1>3, <3>1, <3>2 DEF Assign
  <2>3. props' \in [Object -> [Name -> Value]]
    BY <2>1, <2>2
  <2>4. ASSUME NEW p \in Object, NEW x \in Name, props'[p][x] \in Object
        PROVE  props'[p][x] <= used'
    <3>1. props'[p][x] = IF p = o /\ x = n THEN v ELSE props[p][x]
      BY <2>1, <2>2
    <3>2. props[p][x] \in Object => props[p][x] <= used
      BY <1>3 DEF NamespaceInv, InUse
    <3>3. CASE p = o /\ x = n
      BY <2>2, <2>4, <3>1, <3>3
    <3>4. CASE ~(p = o /\ x = n)
      <4>1. props[p][x] \in Nat /\ props[p][x] <= used /\ used' \in Nat /\ used <= used'
        BY <2>1, <2>2, <2>4, <3>1, <3>2, <3>4
      <4> QED
        BY <2>1, <3>1, <3>4, <4>1
    <3> QED
      BY <3>3, <3>4
  <2> QED
    BY <1>3, <2>2, <2>3, <2>4 DEF NamespaceInv, TypeOK, InUse, Assign
<1>4. NamespaceInv /\ UNCHANGED vars => NamespaceInv'
  BY DEF vars, NamespaceInv, TypeOK, InUse
<1> QED
  BY <1>1, <1>2, <1>3, <1>4 DEF Next
-----------------------------------------------------------------------------
(***************************************************************************)
(* The path that the setter has taken: after i turns each of the objects   *)
(* it has been to leads to the next one.  From the second turn on the      *)
(* setter is at an object it has just made, unless the key is crossed.     *)
(***************************************************************************)
Path(g, key, i) == \A j \in 0..(i - 1) : g[i].props[g[j].obj][key[j + 1]] = g[j + 1].obj
Known(g, i)     == \A j \in 0..i : g[j].obj <= g[i].used
Fresh(g, i)     == i >= 2 => \A j \in 0..(i - 1) : g[j].obj # g[i].obj
SelfNamed(key)  == props[Global][key[1]] = Global
OnlyNamed(g, key, i) ==
  \A n \in Name : g[i].props[Global][n] # props[Global][n] =>
    n = key[1] \/ (i >= 2 /\ SelfNamed(key) /\ n = key[2])
Way(g, key, i) ==
  /\ Path(g, key, i) /\ Known(g, i) /\ Fresh(g, i) /\ OnlyNamed(g, key, i)
  /\ i = 1 => (g[1].obj = Global <=> SelfNamed(key))

\* The first turn.
LEMMA FirstTurn ==
  ASSUME NamespaceInv, NEW key \in Key, Len(key) > 1,
         NEW g \in [0..(Len(key) - 1) -> Locals], g[0] = Start,
         g[1] = SetTurn(g[0], key[1]), Fine(g[1])
  PROVE  Way(g, key, 1)
<1>1. /\ 0 \in 0..(Len(key) - 1) /\ 1 \in 0..(Len(key) - 1) /\ key[1] \in Name
      /\ Len(key) \in Nat
  BY InnerComponents
<1>2. /\ g[0].obj = Global /\ g[0].props = props /\ g[0].used = used /\ g[0] \in Locals
      /\ g[1] \in Locals /\ props \in Heap /\ used \in Nat /\ 1 <= used
      /\ Global = 1 /\ Global \in Object /\ Object \subseteq Nat
  <2>1. props \in Heap /\ used \in Object
    BY DEF NamespaceInv, TypeOK, Heap
  <2>2. /\ Global = 1 /\ Global \in Object /\ Object \subseteq Nat
        /\ used \in Nat /\ 1 <= used
    BY <2>1, ValueKinds DEF Global, Object
  <2>3. g[0] \in Locals /\ g[1] \in Locals
    BY <1>1
  <2> QED
    BY <2>1, <2>2, <2>3 DEF Start
<1>3. CASE Takes(g[0], g[1], key[1])
  <2>1. /\ g[1].obj = props[Global][key[1]] /\ g[1].props = props /\ g[1].used = used
        /\ g[1].obj \in Object /\ g[1].obj <= used
    BY <1>1, <1>2, <1>3 DEF Takes, NamespaceInv, InUse
  <2> QED
    BY <1>2, <2>1 DEF Way, Path, Known, Fresh, OnlyNamed, SelfNamed
<1>4. CASE Makes(g[0], g[1], key[1])
  <2>1. /\ g[1].obj = used + 1 /\ g[1].used = used + 1
        /\ g[1].props[Global][key[1]] = g[1].obj
        /\ props[Global][key[1]] # Global
        /\ \A o \in Object, x \in Name :
              o # Global \/ x # key[1] => g[1].props[o][x] = props[o][x]
    BY <1>2, <1>4, ValueKinds DEF Makes
  <2> QED
    BY <1>2, <2>1 DEF Way, Path, Known, Fresh, OnlyNamed, SelfNamed
<1> QED
  BY <1>1, <1>2, <1>3, <1>4, SetTurnKinds DEF Stops

\* Each later one, of a key that is not crossed.
LEMMA LaterTurn ==
  ASSUME NamespaceInv, NEW key \in Key, ~Crossed(key),
         NEW g \in [0..(Len(key) - 1) -> Locals], g[0] = Start,
         NEW i \in Nat \ {0}, i + 1 <= Len(key) - 1,
         g[i + 1] = SetTurn(g[i], key[i + 1]), Fine(g[i + 1]), Way(g, key, i)
  PROVE  Way(g, key, i + 1)
<1> DEFINE n == key[i + 1]
<1>1. /\ i \in 0..(Len(key) - 1) /\ i + 1 \in 0..(Len(key) - 1) /\ Len(key) \in Nat
      /\ \A j \in 1..Len(key) : key[j] \in Name
      /\ i + 1 \in 2..(Len(key) - 1)
  BY InnerComponents
<1>2. /\ g[0].obj = Global /\ Global \in Object /\ Object \subseteq Nat /\ props \in Heap
      /\ \A j \in 0..(Len(key) - 1) : /\ g[j] \in Locals /\ g[j].obj \in Object
                                      /\ g[j].props \in Heap /\ g[j].used \in Nat
  <2>1. Global \in Object /\ Object \subseteq Nat /\ props \in Heap
    BY ValueKinds DEF NamespaceInv, TypeOK, Heap
  <2>2. ASSUME NEW j \in 0..(Len(key) - 1)
        PROVE  /\ g[j] \in Locals /\ g[j].obj \in Object
               /\ g[j].props \in Heap /\ g[j].used \in Nat
    <3>1. g[j] \in Locals
      OBVIOUS
    <3> QED
      BY <2>1, <3>1 DEF Locals
  <2> QED
    BY <2>1, <2>2 DEF Start
<1>3. /\ n \in Name /\ n # key[1] /\ props[Global][n] \in Missing
      /\ i >= 2 /\ SelfNamed(key) => n # key[2]
  BY <1>1 DEF Crossed, SelfNamed
<1>4. g[i].props[Global][n] \in Missing
  BY <1>3 DEF Way, OnlyNamed
<1>5. Makes(g[i], g[i + 1], n)
  BY <1>1, <1>2, <1>3, <1>4, SetTurnKinds, ValueKinds DEF Takes, Stops
<1> HIDE DEF n
<1>6. /\ g[i + 1].obj = g[i].used + 1 /\ g[i + 1].used = g[i].used + 1
      /\ g[i + 1].props[g[i].obj][n] = g[i + 1].obj
      /\ \A o \in Object, x \in Name :
            o # g[i].obj \/ x # n => g[i + 1].props[o][x] = g[i].props[o][x]
  BY <1>5 DEF Makes
<1>7. ASSUME NEW j \in 0..i
      PROVE  g[j].obj \in Nat /\ g[j].obj <= g[i].used /\ g[i].used \in Nat
  <2>1. j \in 0..(Len(key) - 1)
    BY <1>1
  <2> QED
    BY <1>1, <1>2, <2>1 DEF Way, Known
<1>8. Known(g, i + 1) /\ Fresh(g, i + 1)
  <2>1. \A j \in 0..(i + 1) : j \in 0..i \/ j = i + 1
    OBVIOUS
  <2>2. g[i + 1].obj \in Nat /\ i \in 0..i /\ (i + 1) - 1 = i
    <3>1. i \in 0..i /\ (i + 1) - 1 = i
      OBVIOUS
    <3>2. g[i + 1].obj \in Object
      BY <1>1, <1>2, Zenon
    <3> QED
      BY <1>2, <3>1, <3>2, Zenon
  <2> DEFINE o == g[i + 1].obj
             u == g[i].used
             w == g[i + 1].used
  <2>3. o \in Nat /\ u \in Nat /\ o = u + 1 /\ w = u + 1
    BY <1>6, <1>7, <2>2
  <2>4. ASSUME NEW j \in 0..i PROVE g[j].obj <= w /\ g[j].obj # o
    <3>1. g[j].obj \in Nat /\ g[j].obj <= u
      BY <1>7
    <3> HIDE DEF o, u, w
    <3> QED
      BY <2>3, <3>1
  <2>5. o <= w
    <3> HIDE DEF o, u, w
    <3> QED
      BY <2>3
  <2>6. \A j \in 0..(i + 1) : g[j].obj <= w
    BY <2>1, <2>4, <2>5
  <2> HIDE DEF u
  <2> QED
    BY <2>2, <2>4, <2>6, Zenon DEF Known, Fresh, o, w
<1>9. Path(g, key, i + 1)
  <2> SUFFICES ASSUME NEW j \in 0..i
               PROVE  g[i + 1].props[g[j].obj][key[j + 1]] = g[j + 1].obj
    <3>1. (i + 1) - 1 = i
      OBVIOUS
    <3> QED
      BY <3>1, Zenon DEF Path
  <2>1. CASE j = i
    BY <1>6, <2>1 DEF n
  <2>2. CASE j # i
    <3>1. /\ j \in 0..(i - 1) /\ j \in 0..(Len(key) - 1) /\ j + 1 \in 1..Len(key)
          /\ key[j + 1] \in Name /\ g[j].obj \in Object
      BY <1>1, <1>2, <2>2
    <3>2. g[i].props[g[j].obj][key[j + 1]] = g[j + 1].obj
      BY <3>1 DEF Way, Path
    <3>3. g[j].obj # g[i].obj \/ key[j + 1] # n
      <4>1. CASE i >= 2
        BY <3>1, <4>1 DEF Way, Fresh
      <4>2. CASE i = 1
        BY <1>3, <3>1, <4>2
      <4> QED
        BY <4>1, <4>2
    <3> QED
      BY <1>6, <3>1, <3>2, <3>3
  <2> QED
    BY <2>1, <2>2
<1>10. OnlyNamed(g, key, i + 1)
  <2> SUFFICES ASSUME NEW x \in Name, g[i + 1].props[Global][x] # props[Global][x]
               PROVE  x = key[1] \/ (SelfNamed(key) /\ x = key[2])
    BY DEF OnlyNamed
  <2>1. CASE g[i].props[Global][x] # props[Global][x]
    BY <2>1 DEF Way, OnlyNamed
  <2>2. CASE g[i].props[Global][x] = props[Global][x]
    <3>1. g[i].obj = Global /\ x = n
      BY <1>2, <1>6, <2>2
    <3>2. i = 1
      BY <1>2, <3>1 DEF Way, Fresh
    <3> QED
      BY <3>1, <3>2 DEF Way, n
  <2> QED
    BY <2>1, <2>2
<1> QED
  BY <1>8, <1>9, <1>10 DEF Way

\* The property that the set writes last is not on the path, and the getter finds it.
LEMMA ReadsBack ==
  ASSUME NamespaceInv, NEW key \in Key, ~Crossed(key), NEW v \in Argument,
         NEW end, end = Outcome(key, v), Defined(end)
  PROVE  Get(end.props, key) = Converted(v)
<1>1. PICK g \in [0..(Len(key) - 1) -> Locals] :
           /\ g[0] = Start /\ g[Len(key) - 1] = Walked(key)
           /\ \A i \in 1..(Len(key) - 1) : g[i] = SetTurn(g[i - 1], key[i])
  BY WalkedTurns DEF NamespaceInv
<1> DEFINE m == Len(key) - 1
           path == [j \in 0..m |-> g[j].obj]
<1>2. /\ m \in Nat /\ Len(key) = m + 1 /\ \A i \in 1..Len(key) : key[i] \in Name
      /\ Last(key) = key[m + 1] /\ m \in 0..m
  BY InnerComponents
<1>3. /\ end \in Locals /\ end.obj = g[m].obj
      /\ end.props = [g[m].props EXCEPT ![g[m].obj][Last(key)] = Converted(v)]
      /\ Fine(g[m])
  <2>1. /\ end \in Locals /\ Walked(key) \in Locals
        /\ end.crashed = Walked(key).crashed /\ end.full = Walked(key).full
        /\ end.obj = Walked(key).obj
        /\ ~end.crashed =>
             end.props = [Walked(key).props EXCEPT ![end.obj][Last(key)] = Converted(v)]
    BY OutcomeProperties
  <2>2. ~end.crashed /\ ~end.full /\ g[m] = Walked(key)
    BY <1>1 DEF Defined
  <2> HIDE DEF m
  <2> QED
    BY <2>1, <2>2 DEF Fine
<1>4. \A i \in 0..m : Fine(g[i])
  BY <1>1, <1>3, WalkedInv
<1> HIDE DEF m
<1>5. ASSUME NEW j \in 0..m PROVE g[j].obj \in Object /\ g[j].props \in Heap
  BY <1>1, <1>5 DEF m, Locals
<1> DEFINE At(i) == Way(g, key, i + 1)
           N == {i \in Nat : i + 1 <= m => At(i)}
<1>6. m >= 1 => At(0)
  BY <1>1, <1>2, <1>4, FirstTurn DEF m
<1>7. ASSUME NEW i \in Nat, (i + 1) + 1 <= m, At(i) PROVE At(i + 1)
  <2> DEFINE k == i + 1
  <2>1. k \in Nat \ {0} /\ k + 1 \in 1..m /\ (k + 1) - 1 = k /\ k + 1 <= Len(key) - 1 /\ k + 1 \in 0..m
    BY <1>2, <1>7
  <2>2. g[k + 1] = SetTurn(g[k], key[k + 1]) /\ Fine(g[k + 1]) /\ Way(g, key, k)
    BY <1>1, <1>4, <1>7, <2>1 DEF m
  <2> HIDE DEF k
  <2>3. Way(g, key, k + 1)
    BY <1>1, <2>1, <2>2, LaterTurn
  <2> QED
    BY <2>3 DEF k
<1>8. N = Nat
  <2> HIDE DEF At
  <2>1. 0 \in N /\ N \in SUBSET Nat
    BY <1>6
  <2>2. ASSUME NEW i \in N PROVE i + 1 \in N
    BY <1>2, <1>7
  <2> HIDE DEF N
  <2> QED
    BY <2>1, <2>2, NatSetInduction
<1>9. m >= 1 => Way(g, key, m)
  <2> SUFFICES ASSUME m >= 1 PROVE Way(g, key, m)
    OBVIOUS
  <2>1. m - 1 \in Nat /\ (m - 1) + 1 = m
    BY <1>2
  <2>2. At(m - 1)
    <3> HIDE DEF At
    <3> QED
      BY <1>2, <1>8, <2>1
  <2> QED
    BY <2>1, <2>2
<1>10. ASSUME NEW j \in 0..(m - 1)
       PROVE  end.props[g[j].obj][key[j + 1]] = g[j + 1].obj
  <2>1. /\ m >= 1 /\ j \in 0..m /\ j + 1 \in 1..Len(key) /\ Way(g, key, m)
        /\ key[j + 1] \in Name /\ Last(key) \in Name
    BY <1>2, <1>9
  <2>2. g[m].props[g[j].obj][key[j + 1]] = g[j + 1].obj
    BY <2>1 DEF Way, Path
  <2>3. g[j].obj # g[m].obj \/ key[j + 1] # Last(key)
    <3>1. CASE m >= 2
      BY <2>1, <3>1 DEF Way, Fresh
    <3>2. CASE m = 1
      <4>1. j = 0 /\ Len(key) = 2 /\ Last(key) = key[2] /\ g[j].obj = Global
        BY <1>1, <1>2, <3>2 DEF Start
      <4>2. g[1].obj = Global => SelfNamed(key)
        BY <2>1, <3>2 DEF Way
      <4> QED
        BY <3>2, <4>1, <4>2 DEF SelfNamed, Crossed
    <3> QED
      BY <1>2, <2>1, <3>1, <3>2
  <2> QED
    BY <1>2, <1>3, <1>5, <2>1, <2>2, <2>3 DEF Heap
<1>11. Get(end.props, key) = end.props[path[m]][Last(key)]
  <2>1. path \in [0..(Len(key) - 1) -> Object] /\ path[0] = Global
    BY <1>1, <1>2, <1>5 DEF Start, m
  <2>2. \A i \in 1..(Len(key) - 1) : end.props[path[i - 1]][key[i]] = path[i]
    <3> SUFFICES ASSUME NEW i \in 1..m PROVE end.props[path[i - 1]][key[i]] = path[i]
      BY DEF m
    <3>1. i - 1 \in 0..(m - 1) /\ (i - 1) + 1 = i /\ i - 1 \in 0..m /\ i \in 0..m
      BY <1>2
    <3> QED
      BY <1>10, <3>1
  <2>3. end.props \in Heap
    BY <1>3 DEF Locals
  <2> HIDE DEF path
  <2> QED
    BY <2>1, <2>2, <2>3, GetAlongPath DEF m
<1>12. end.props[g[m].obj][Last(key)] = Converted(v)
  BY <1>2, <1>3, <1>5 DEF Heap
<1> QED
  BY <1>2, <1>11, <1>12

\* Everywhere but in two properties a short set leaves the heap as it was.
LEMMA ShortSet ==
  ASSUME NamespaceInv, NEW key \in Key, Len(key) <= 2, NEW v \in Argument,
         NEW end, end = Outcome(key, v), Defined(end), NEW o \in 1..used, NEW n \in Name
  PROVE  \/ end.props[o][n] = props[o][n]
         \/ n = Last(key) /\ o = end.obj
         \/ o = Global /\ n = key[1] /\ props[o][n] \in Missing
<1>1. PICK g \in [0..(Len(key) - 1) -> Locals] :
           /\ g[0] = Start /\ g[Len(key) - 1] = Walked(key)
           /\ \A i \in 1..(Len(key) - 1) : g[i] = SetTurn(g[i - 1], key[i])
  BY WalkedTurns DEF NamespaceInv
<1>2. Len(key) \in {1, 2} /\ key[1] \in Name /\ Last(key) \in Name
  <2>1. Len(key) \in Nat \ {0} /\ Last(key) \in Name
    BY InnerComponents
  <2>2. Len(key) \in {1, 2}
    BY <2>1
  <2>3. key \in Seq(Name)
    BY DEF Key
  <2> QED
    BY <2>1, <2>2, <2>3
<1>3. o \in Object
  BY BoundAssumption DEF NamespaceInv, TypeOK, Object
<1>4. end.props[o][n] = Walked(key).props[o][n] \/ (n = Last(key) /\ o = end.obj)
  <2>1. /\ Walked(key) \in Locals
        /\ end.props = [Walked(key).props EXCEPT ![end.obj][Last(key)] = Converted(v)]
    <3>1. ~end.crashed
      BY DEF Defined
    <3>2. Walked(key) \in Locals
      BY OutcomeProperties
    <3>3. ~end.crashed =>
            end.props = [Walked(key).props EXCEPT ![end.obj][Last(key)] = Converted(v)]
      BY OutcomeProperties
    <3> QED
      BY <3>1, <3>2, <3>3
  <2>2. Walked(key).props \in Heap
    BY <2>1 DEF Locals
  <2> QED
    BY <1>2, <1>3, <2>1, <2>2 DEF Heap
<1>5. Walked(key).props[o][n] = props[o][n]
      \/ (o = Global /\ n = key[1] /\ props[o][n] \in Missing)
  <2>1. CASE Len(key) = 1
    BY <1>1, <2>1 DEF Start
  <2>2. CASE Len(key) = 2
    <3>1. g[0] \in Locals /\ g[0].obj = Global /\ g[0].props = props
      <4>1. 0 \in 0..(Len(key) - 1)
        BY <2>2
      <4>2. g[0] \in Locals
        BY <1>1, <4>1
      <4>3. g[0].obj = Global /\ g[0].props = props
        BY <1>1 DEF Start
      <4> QED
        BY <4>2, <4>3
    <3>2. g[1] = Walked(key) /\ g[1] = SetTurn(g[0], key[1])
      BY <1>1, <2>2
    <3>3. Fine(g[1])
      <4>1. ~Walked(key).crashed /\ ~Walked(key).full
        <5>1. end.crashed = Walked(key).crashed /\ end.full = Walked(key).full
          BY OutcomeProperties
        <5>2. ~end.full /\ ~end.crashed
          BY DEF Defined
        <5> QED
          BY <5>1, <5>2, Zenon
      <4> QED
        BY <3>2, <4>1, Zenon DEF Fine
    <3>4. Takes(g[0], g[1], key[1]) \/ Makes(g[0], g[1], key[1])
      BY <1>2, <3>1, <3>2, <3>3, SetTurnKinds DEF Stops
    <3> QED
      BY <1>3, <3>1, <3>2, <3>4 DEF Takes, Makes
  <2> QED
    BY <1>2, <2>1, <2>2
<1> QED
  BY <1>4, <1>5
-----------------------------------------------------------------------------
\* The heap holds JS values only, whatever sets and scripts do, and the setter makes
\* objects within the bound (TypeOK).
THEOREM HeapTyped == Spec => []TypeOK
<1>1. NamespaceInv => TypeOK
  BY DEF NamespaceInv
<1> QED
  BY <1>1, NamespaceInductive, PTL DEF Spec

\* What -setObject:forKeyedSubscript: puts at a key, -objectForKeyedSubscript: finds there
\* (ReadsBackUncrossed): for keys of any length, on every heap that sets and scripts can
\* make, unless the paths of the setter and the getter cross.
THEOREM SetsReadBack == Spec => []ReadsBackUncrossed
<1>1. NamespaceInv => ReadsBackUncrossed
  BY ReadsBack DEF ReadsBackUncrossed
<1> QED
  BY <1>1, NamespaceInductive, PTL DEF Spec

\* A set with a key of one or two components changes what it has to and nothing else
\* that scripts keep (ShortSetsKeepTheRest).
THEOREM ShortSetsAreLocal == Spec => []ShortSetsKeepTheRest
<1>1. NamespaceInv => ShortSetsKeepTheRest
  BY ShortSet DEF ShortSetsKeepTheRest
<1> QED
  BY <1>1, NamespaceInductive, PTL DEF Spec
-----------------------------------------------------------------------------
(***************************************************************************)
(* Copies: what -toObject returns with room for so many calls inside each  *)
(* other, and the objects that it never returns of.                        *)
(***************************************************************************)
\* f is the function that the recursion of -toObject describes.
Describes(f, heap, shown, d) ==
  f = [room \in 0..d |-> [v \in Value |-> Returned(heap, shown, v, room, f[room - 1])]]

\* There is one.
LEMMA ConversionExists ==
  ASSUME NEW heap, NEW shown, NEW d \in Nat
  PROVE  \E f : Describes(f, heap, shown, d)
<1> DEFINE N == {n \in Nat : \E f : Describes(f, heap, shown, n)}
<1>1. 0 \in N
  <2> DEFINE f == [room \in 0..0 |-> [v \in Value |-> Returned(heap, shown, v, 0, 0)]]
  <2>1. \A room \in 0..0, v \in Value :
          Returned(heap, shown, v, 0, 0) = Returned(heap, shown, v, room, f[room - 1])
    <3> HIDE DEF f
    <3> QED
      BY DEF Returned
  <2>2. Describes(f, heap, shown, 0)
    <3>1. \A room \in 0..0 : [v \in Value |-> Returned(heap, shown, v, 0, 0)]
                              = [v \in Value |-> Returned(heap, shown, v, room, f[room - 1])]
      BY <2>1
    <3> QED
      BY <3>1 DEF Describes
  <2> HIDE DEF f
  <2> QED
    BY <2>2
<1>2. ASSUME NEW n \in N PROVE n + 1 \in N
  <2>1. PICK f : Describes(f, heap, shown, n)
    BY <1>2
  <2> DEFINE g == [room \in 0..(n + 1) |->
                     [v \in Value |-> Returned(heap, shown, v, room, f[room - 1])]]
  <2>2. n \in Nat /\ n + 1 \in Nat
    BY <1>2
  <2>3. ASSUME NEW room \in 0..n PROVE g[room] = f[room]
    <3>1. room \in 0..(n + 1)
      BY <2>2
    <3>2. f[room] = [v \in Value |-> Returned(heap, shown, v, room, f[room - 1])]
      BY <2>1 DEF Describes
    <3> QED
      BY <3>1, <3>2
  <2>4. ASSUME NEW room \in 0..(n + 1), NEW v \in Value
        PROVE  Returned(heap, shown, v, room, f[room - 1]) = Returned(heap, shown, v, room, g[room - 1])
    <3>1. CASE room = 0
      BY <3>1 DEF Returned
    <3>2. CASE room # 0
      <4>1. room - 1 \in 0..n
        BY <2>2, <3>2
      <4> QED
        BY <2>3, <4>1, Zenon
    <3> QED
      BY <3>1, <3>2
  <2>5. Describes(g, heap, shown, n + 1)
    <3>1. \A room \in 0..(n + 1) :
            [v \in Value |-> Returned(heap, shown, v, room, f[room - 1])]
            = [v \in Value |-> Returned(heap, shown, v, room, g[room - 1])]
      <4> HIDE DEF g
      <4> QED
        BY <2>4
    <3> QED
      BY <3>1 DEF Describes
  <2> HIDE DEF g
  <2> QED
    BY <2>2, <2>5
<1>3. N = Nat
  <2>1. N \in SUBSET Nat
    OBVIOUS
  <2> HIDE DEF N
  <2> QED
    BY <1>1, <1>2, <2>1, NatSetInduction
<1> QED
  BY <1>3

\* What -toObject returns with each room.
LEMMA ConversionTurns ==
  ASSUME NEW heap, NEW shown
  PROVE  \E c : /\ ToObject(heap, shown) = c[MaxObjects]
                /\ \A room \in 0..MaxObjects, v \in Value :
                     c[room][v] = Returned(heap, shown, v, room, c[room - 1])
<1> DEFINE c == CHOOSE f : Describes(f, heap, shown, MaxObjects)
<1>1. ToObject(heap, shown) = c[MaxObjects]
  BY DEF ToObject, Describes
<1>2. Describes(c, heap, shown, MaxObjects)
  <2>1. MaxObjects \in Nat
    BY BoundAssumption
  <2>2. \E f : Describes(f, heap, shown, MaxObjects)
    BY <2>1, ConversionExists
  <2> QED
    BY <2>2
<1> HIDE DEF c
<1>3. ASSUME NEW room \in 0..MaxObjects, NEW v \in Value
      PROVE  c[room][v] = Returned(heap, shown, v, room, c[room - 1])
  <2>1. c[room] = [w \in Value |-> Returned(heap, shown, w, room, c[room - 1])]
    BY <1>2 DEF Describes
  <2> QED
    BY <2>1, Zenon
<1> QED
  BY <1>1, <1>3

\* A function that the recursion of -toObject describes, on the heap as it is.
Conversions(c, shown) ==
  \A room \in 0..MaxObjects, v \in Value :
    c[room][v] = Returned(props, shown, v, room, c[room - 1])

\* The objects that -toObject does not return of, with some room.
Unending(c, room) == {o \in 1..used : c[room][o] = {}}

\* Without room these are all; with more, those that lead to one of them.
LEMMA UnendingTurns ==
  ASSUME NamespaceInv, NEW shown, NEW c, Conversions(c, shown)
  PROVE  /\ Unending(c, 0) = 1..used
         /\ \A room \in 0..(MaxObjects - 1) :
              Unending(c, room + 1)
                = {o \in 1..used : \E n \in Name : props[o][n] \in Unending(c, room)}
<1>1. /\ props \in Heap /\ used \in Object /\ MaxObjects \in Nat \ {0}
      /\ 1..used \subseteq Object /\ Object \subseteq Value
      /\ \A o \in Object, n \in Name : props[o][n] \in Value
  <2>1. props \in Heap /\ used \in Object /\ MaxObjects \in Nat \ {0}
    BY BoundAssumption DEF NamespaceInv, TypeOK, Heap
  <2>2. 1..used \subseteq Object /\ Object \subseteq Value
    BY <2>1 DEF Object, Value
  <2> QED
    BY <2>1, <2>2 DEF Heap
<1>2. ASSUME NEW room \in 0..MaxObjects, NEW v \in Value \ Object
      PROVE  c[room][v] # {}
  BY <1>2 DEF Conversions, Returned, Value
<1>3. ASSUME NEW room \in 0..MaxObjects, NEW o \in Object
      PROVE  c[room][o] = IF room = 0 THEN {} ELSE Dictionary(props, shown, o, c[room - 1])
  <2>1. o \in Value /\ o \notin Missing /\ o \notin Scalar
    BY <1>1, ValueKinds
  <2> QED
    BY <2>1 DEF Conversions, Returned
<1>4. Unending(c, 0) = 1..used
  <2>1. 0 \in 0..MaxObjects
    BY <1>1
  <2> QED
    BY <1>1, <1>3, <2>1 DEF Unending
<1>5. ASSUME NEW room \in 0..(MaxObjects - 1), NEW o \in 1..used
      PROVE  c[room + 1][o] = {} <=> \E n \in Name : props[o][n] \in Unending(c, room)
  <2>1. /\ room \in 0..MaxObjects /\ room + 1 \in 0..MaxObjects /\ room + 1 # 0
        /\ (room + 1) - 1 = room /\ o \in Object
    BY <1>1
  <2>2. c[room + 1][o] = Dictionary(props, shown, o, c[room])
    BY <1>3, <2>1
  <2>3. c[room + 1][o] = {} <=> \E n \in Enumerated(props, shown, o) : c[room][props[o][n]] = {}
    BY <2>2 DEF Dictionary
  <2>4. ASSUME NEW n \in Name
        PROVE  n \in Enumerated(props, shown, o) /\ c[room][props[o][n]] = {}
               <=> props[o][n] \in Unending(c, room)
    <3>1. CASE props[o][n] \in Object
      <4>1. props[o][n] \in 1..used
        BY <2>1, <3>1 DEF NamespaceInv, InUse, Object
      <4>2. n \in Enumerated(props, shown, o)
        BY <3>1, ValueKinds DEF Enumerated
      <4> QED
        BY <4>1, <4>2 DEF Unending
    <3>2. CASE props[o][n] \notin Object
      BY <1>1, <1>2, <2>1, <3>2 DEF Unending
    <3> QED
      BY <3>1, <3>2
  <2> QED
    BY <2>3, <2>4 DEF Enumerated
<1>6. ASSUME NEW room \in 0..(MaxObjects - 1)
      PROVE  Unending(c, room + 1)
               = {o \in 1..used : \E n \in Name : props[o][n] \in Unending(c, room)}
  <2>1. Unending(c, room + 1) = {o \in 1..used : c[room + 1][o] = {}}
    BY DEF Unending
  <2> QED
    BY <1>5, <2>1
<1> QED
  BY <1>4, <1>6

\* A set of objects from each of which a property leads back into it.
Circles(S) == \A p \in S : \E n \in Name : props[p][n] \in S

\* More room leaves fewer of them.
LEMMA UnendingShrinks ==
  ASSUME NamespaceInv, NEW shown, NEW c, Conversions(c, shown)
  PROVE  \A room \in 0..(MaxObjects - 1) : Unending(c, room + 1) \subseteq Unending(c, room)
<1> DEFINE N == {d \in Nat : d < MaxObjects => Unending(c, d + 1) \subseteq Unending(c, d)}
<1>1. /\ MaxObjects \in Nat \ {0} /\ Unending(c, 0) = 1..used
      /\ \A room \in 0..(MaxObjects - 1) :
           Unending(c, room + 1)
             = {o \in 1..used : \E n \in Name : props[o][n] \in Unending(c, room)}
  <2>1. MaxObjects \in Nat \ {0}
    BY BoundAssumption
  <2> QED
    BY <2>1, UnendingTurns
<1>2. 0 \in N
  <2>1. 0 \in 0..(MaxObjects - 1)
    BY <1>1
  <2>2. Unending(c, 0 + 1) = {o \in 1..used : \E n \in Name : props[o][n] \in Unending(c, 0)}
    BY <1>1, <2>1, Zenon
  <2> QED
    BY <1>1, <2>2
<1>3. ASSUME NEW d \in N PROVE d + 1 \in N
  <2> SUFFICES ASSUME d + 1 < MaxObjects
               PROVE  Unending(c, (d + 1) + 1) \subseteq Unending(c, d + 1)
    OBVIOUS
  <2>1. d \in 0..(MaxObjects - 1) /\ d + 1 \in 0..(MaxObjects - 1)
    BY <1>1
  <2>2. Unending(c, d + 1) \subseteq Unending(c, d)
    BY <1>1, <2>1
  <2>3. Unending(c, d + 1) = {o \in 1..used : \E n \in Name : props[o][n] \in Unending(c, d)}
    BY <1>1, <2>1, Zenon
  <2>4. Unending(c, (d + 1) + 1)
          = {o \in 1..used : \E n \in Name : props[o][n] \in Unending(c, d + 1)}
    BY <1>1, <2>1, Zenon
  <2> QED
    BY <2>2, <2>3, <2>4, Zenon
<1>4. N = Nat
  <2>1. N \in SUBSET Nat
    OBVIOUS
  <2> HIDE DEF N
  <2> QED
    BY <1>2, <1>3, <2>1, NatSetInduction
<1>5. ASSUME NEW room \in 0..(MaxObjects - 1)
      PROVE  Unending(c, room + 1) \subseteq Unending(c, room)
  <2>1. room \in N /\ room < MaxObjects
    BY <1>1, <1>4
  <2> QED
    BY <2>1
<1> QED
  BY <1>5

\* Objects in circles stay unending with any room.
LEMMA CirclesAreUnending ==
  ASSUME NamespaceInv, NEW shown, NEW c, Conversions(c, shown),
         NEW S \in SUBSET (1..used), Circles(S)
  PROVE  S \subseteq Unending(c, MaxObjects)
<1> DEFINE N == {d \in Nat : d <= MaxObjects => S \subseteq Unending(c, d)}
<1>1. /\ MaxObjects \in Nat \ {0} /\ Unending(c, 0) = 1..used
      /\ \A room \in 0..(MaxObjects - 1) :
           Unending(c, room + 1)
             = {o \in 1..used : \E n \in Name : props[o][n] \in Unending(c, room)}
  <2>1. MaxObjects \in Nat \ {0}
    BY BoundAssumption
  <2> QED
    BY <2>1, UnendingTurns
<1>2. 0 \in N
  BY <1>1
<1>3. ASSUME NEW d \in N PROVE d + 1 \in N
  <2> SUFFICES ASSUME d + 1 <= MaxObjects PROVE S \subseteq Unending(c, d + 1)
    OBVIOUS
  <2>1. d \in 0..(MaxObjects - 1) /\ S \subseteq Unending(c, d)
    BY <1>1
  <2>2. Unending(c, d + 1) = {o \in 1..used : \E n \in Name : props[o][n] \in Unending(c, d)}
    BY <1>1, <2>1, Zenon
  <2> QED
    BY <2>1, <2>2, Zenon DEF Circles
<1>4. N = Nat
  <2>1. N \in SUBSET Nat
    OBVIOUS
  <2> HIDE DEF N
  <2> QED
    BY <1>2, <1>3, <2>1, NatSetInduction
<1>5. MaxObjects \in N
  BY <1>1, <1>4
<1> QED
  BY <1>1, <1>5

\* Each call of room ends for another object, until those that are left lead to each other.
LEMMA UnendingInCircles ==
  ASSUME NamespaceInv, NEW shown, NEW c, Conversions(c, shown)
  PROVE  \E S \in SUBSET (1..used) : Circles(S) /\ Unending(c, MaxObjects) \subseteq S
<1> DEFINE Left(d) == \E S \in SUBSET (1..used) : Circles(S) /\ Unending(c, d) \subseteq S
           Fewer(d) == Cardinality(Unending(c, d)) + d <= used
           N == {d \in Nat : d <= MaxObjects => Left(d) \/ Fewer(d)}
<1>1. /\ MaxObjects \in Nat \ {0} /\ used \in 1..MaxObjects /\ Unending(c, 0) = 1..used
      /\ \A room \in 0..(MaxObjects - 1) :
           /\ Unending(c, room + 1)
                = {o \in 1..used : \E n \in Name : props[o][n] \in Unending(c, room)}
           /\ Unending(c, room + 1) \subseteq Unending(c, room)
  <2>1. MaxObjects \in Nat \ {0} /\ used \in 1..MaxObjects
    BY BoundAssumption DEF NamespaceInv, TypeOK, Object
  <2>2. \A room \in 0..(MaxObjects - 1) : Unending(c, room + 1) \subseteq Unending(c, room)
    BY UnendingShrinks
  <2>3. /\ Unending(c, 0) = 1..used
        /\ \A room \in 0..(MaxObjects - 1) :
             Unending(c, room + 1)
               = {o \in 1..used : \E n \in Name : props[o][n] \in Unending(c, room)}
    BY UnendingTurns
  <2> QED
    BY <2>1, <2>2, <2>3, Zenon
<1>2. IsFiniteSet(1..used) /\ Cardinality(1..used) = used
  BY <1>1, FS_Interval
<1>3. \A d : /\ Unending(c, d) \in SUBSET (1..used) /\ IsFiniteSet(Unending(c, d))
             /\ Cardinality(Unending(c, d)) \in Nat
  BY <1>2, FS_Subset, FS_CardinalityType DEF Unending
<1>4. 0 \in N
  BY <1>1, <1>2
<1>5. ASSUME NEW d \in N PROVE d + 1 \in N
  <2> SUFFICES ASSUME d + 1 <= MaxObjects PROVE Left(d + 1) \/ Fewer(d + 1)
    OBVIOUS
  <2>1. d \in 0..(MaxObjects - 1) /\ d \in Nat /\ (Left(d) \/ Fewer(d))
    BY <1>1
  <2>2. /\ Unending(c, d + 1) = {o \in 1..used : \E n \in Name : props[o][n] \in Unending(c, d)}
        /\ Unending(c, d + 1) \subseteq Unending(c, d)
    BY <1>1, <2>1, Zenon
  <2>3. CASE Left(d)
    BY <2>2, <2>3
  <2>4. CASE Unending(c, d + 1) = Unending(c, d)
    <3>1. Circles(Unending(c, d))
      BY <2>2, <2>4 DEF Circles
    <3> QED
      BY <1>3, <2>4, <3>1
  <2>5. CASE Fewer(d) /\ Unending(c, d + 1) # Unending(c, d)
    <3>1. Cardinality(Unending(c, d + 1)) < Cardinality(Unending(c, d))
      BY <1>3, <2>2, <2>5, FS_Subset
    <3>2. Cardinality(Unending(c, d + 1)) \in Nat /\ Cardinality(Unending(c, d)) \in Nat
      BY <1>3
    <3> QED
      BY <1>1, <2>1, <2>5, <3>1, <3>2
  <2> QED
    BY <2>1, <2>3, <2>4, <2>5
<1>6. N = Nat
  <2>1. N \in SUBSET Nat
    OBVIOUS
  <2> HIDE DEF N
  <2> QED
    BY <1>4, <1>5, <2>1, NatSetInduction
<1>7. CASE Left(MaxObjects)
  BY <1>7
<1>8. CASE Fewer(MaxObjects)
  <2>1. Cardinality(Unending(c, MaxObjects)) = 0
    BY <1>1, <1>3, <1>8
  <2>2. Unending(c, MaxObjects) = {}
    BY <1>3, <2>1, FS_EmptySet
  <2> QED
    BY <2>2 DEF Circles
<1>9. MaxObjects \in N
  BY <1>1, <1>6
<1> QED
  BY <1>1, <1>7, <1>8, <1>9

\* What -toDictionary never returns of leads in circles, and the reverse.
LEMMA CopyOrCircle ==
  ASSUME NamespaceInv, NEW o \in 1..used, NEW shown
  PROVE  ToDictionary(props, shown, o) = {} <=> LeadsInCircles(o)
<1>1. PICK c : /\ ToObject(props, shown) = c[MaxObjects]
               /\ \A room \in 0..MaxObjects, v \in Value :
                    c[room][v] = Returned(props, shown, v, room, c[room - 1])
  BY ConversionTurns
<1>2. Conversions(c, shown)
  BY <1>1 DEF Conversions
<1>3. ToDictionary(props, shown, o) = {} <=> o \in Unending(c, MaxObjects)
  BY <1>1 DEF ToDictionary, Unending
<1>4. LeadsInCircles(o) <=> \E S \in SUBSET (1..used) : o \in S /\ Circles(S)
  BY DEF LeadsInCircles, Circles
<1>5. ASSUME o \in Unending(c, MaxObjects) PROVE LeadsInCircles(o)
  <2>1. PICK S \in SUBSET (1..used) : Circles(S) /\ Unending(c, MaxObjects) \subseteq S
    BY <1>2, UnendingInCircles
  <2> QED
    BY <1>4, <1>5, <2>1
<1>6. ASSUME LeadsInCircles(o) PROVE o \in Unending(c, MaxObjects)
  <2>1. PICK S \in SUBSET (1..used) : o \in S /\ Circles(S)
    BY <1>4, <1>6
  <2> QED
    BY <1>2, <2>1, CirclesAreUnending
<1> QED
  BY <1>3, <1>5, <1>6

\* -toDictionary returns of every object but those from which a path leads in circles
\* (CopiesEnd): with any number of objects and names, on every heap that sets and scripts
\* can make.
THEOREM CopiesComeToAnEnd == Spec => []CopiesEnd
<1>1. NamespaceInv => CopiesEnd
  BY CopyOrCircle DEF CopiesEnd
<1> QED
  BY <1>1, NamespaceInductive, PTL DEF Spec
-----------------------------------------------------------------------------
(***************************************************************************)
(* The way back: what XJSToValue makes of a dictionary, whose members are  *)
(* converted one by one into a new object, each with the same function of  *)
(* one level less.                                                         *)
(***************************************************************************)
\* SetToSeq takes the elements of a finite set, each once.
LEMMA SetToSeqTakesAll ==
  ASSUME NEW S, IsFiniteSet(S)
  PROVE  /\ SetToSeq(S) \in Seq(S) /\ Len(SetToSeq(S)) = Cardinality(S)
         /\ \A x \in S : \E i \in 1..Cardinality(S) : SetToSeq(S)[i] = x
         /\ \A i, j \in 1..Cardinality(S) : SetToSeq(S)[i] = SetToSeq(S)[j] => i = j
<1> DEFINE n == Cardinality(S)
           f == SetToSeq(S)
<1>1. n \in Nat /\ ExistsBijection(1..n, S)
  BY FS_CardinalityType
<1>2. PICK g : g \in Bijection(1..n, S)
  BY <1>1 DEF ExistsBijection
<1>3. g \in [1..n -> S] /\ IsInjective(g)
  BY <1>2 DEF Bijection, Injection
<1>4. f \in [1..n -> S] /\ IsInjective(f)
  <2>1. f = CHOOSE h \in [1..n -> S] : IsInjective(h)
    BY DEF SetToSeq
  <2> HIDE DEF f, n
  <2> QED
    BY <1>3, <2>1
<1>5. f \in Injection(1..n, S) /\ IsFiniteSet(1..n) /\ Cardinality(1..n) = n
  <2>1. IsFiniteSet(1..n) /\ Cardinality(1..n) = n
    BY <1>1, FS_Interval
  <2> QED
    BY <1>4, <2>1 DEF Injection
<1>6. f \in Surjection(1..n, S)
  <2> HIDE DEF f
  <2> QED
    BY <1>5, FS_Injection
<1>7. \A x \in S : \E i \in 1..n : f[i] = x
  <2> HIDE DEF f, n
  <2> QED
    BY <1>6 DEF Surjection
<1>8. f \in Seq(S) /\ Len(f) = n
  <2> HIDE DEF f
  <2> QED
    BY <1>1, <1>4, SeqDef, LenProperties
<1>9. \A i, j \in 1..n : f[i] = f[j] => i = j
  <2> HIDE DEF f, n
  <2> QED
    BY <1>4 DEF IsInjective
<1> QED
  BY <1>7, <1>8, <1>9
-----------------------------------------------------------------------------
\* f is the function that the recursion of Native describes.
NativesOf(below, depth) ==
  Plain \cup IF depth = 0 THEN {} ELSE UNION {[S -> below] : S \in SUBSET Name}
NativeDescribes(f, d) == f = [depth \in 0..d |-> NativesOf(f[depth - 1], depth)]

\* There is one.
LEMMA NativeExists ==
  ASSUME NEW d \in Nat
  PROVE  \E f : NativeDescribes(f, d)
<1> DEFINE N == {n \in Nat : \E f : NativeDescribes(f, n)}
<1>1. 0 \in N
  <2>1. PICK f : f = [depth \in 0..0 |-> NativesOf(0, 0)]
    OBVIOUS
  <2>2. \A depth \in 0..0 : NativesOf(0, 0) = NativesOf(f[depth - 1], depth)
    BY DEF NativesOf
  <2> QED
    BY <2>1, <2>2 DEF NativeDescribes
<1>2. ASSUME NEW n \in N PROVE n + 1 \in N
  <2>1. PICK f : NativeDescribes(f, n)
    BY <1>2
  <2>2. n \in Nat /\ n + 1 \in Nat
    BY <1>2
  <2>3. PICK g : g = [depth \in 0..(n + 1) |-> NativesOf(f[depth - 1], depth)]
    OBVIOUS
  <2>4. ASSUME NEW depth \in 0..n PROVE g[depth] = f[depth]
    <3>1. depth \in 0..(n + 1)
      BY <2>2
    <3>2. f[depth] = NativesOf(f[depth - 1], depth)
      BY <2>1 DEF NativeDescribes
    <3> QED
      BY <2>3, <3>1, <3>2
  <2>5. ASSUME NEW depth \in 0..(n + 1)
        PROVE  NativesOf(f[depth - 1], depth) = NativesOf(g[depth - 1], depth)
    <3>1. CASE depth = 0
      BY <3>1 DEF NativesOf
    <3>2. CASE depth # 0
      <4>1. depth - 1 \in 0..n
        BY <2>2, <3>2
      <4> QED
        BY <2>4, <4>1, Zenon
    <3> QED
      BY <3>1, <3>2
  <2>6. NativeDescribes(g, n + 1)
    BY <2>3, <2>5 DEF NativeDescribes
  <2> QED
    BY <2>2, <2>6
<1>3. N = Nat
  <2>1. N \in SUBSET Nat
    OBVIOUS
  <2> HIDE DEF N
  <2> QED
    BY <1>1, <1>2, <2>1, NatSetInduction
<1> QED
  BY <1>3

\* So Native is what its recursion says.
LEMMA NativeTurns ==
  \A depth \in 0..MaxObjects : Native[depth] = NativesOf(Native[depth - 1], depth)
<1>1. \E f : NativeDescribes(f, MaxObjects)
  BY NativeExists, BoundAssumption
<1>2. Native = CHOOSE f : NativeDescribes(f, MaxObjects)
  BY DEF Native, NativeDescribes, NativesOf
<1>3. NativeDescribes(Native, MaxObjects)
  BY <1>1, <1>2
<1> QED
  BY <1>3 DEF NativeDescribes

\* t is the function that the recursion of XJSToValue describes.
ToValueDescribes(t, d) ==
  t = [depth \in 0..d |->
         [x \in Native[depth] |-> [heap \in Heaps |-> Made(heap, x, t[depth - 1])]]]

\* There is one.
LEMMA ToValueExists ==
  ASSUME NEW d \in Nat, d <= MaxObjects
  PROVE  \E t : ToValueDescribes(t, d)
<1> DEFINE Row(f, depth) == [x \in Native[depth] |-> [heap \in Heaps |-> Made(heap, x, f)]]
           N == {n \in Nat : n <= MaxObjects => \E t : ToValueDescribes(t, n)}
<1>0. MaxObjects \in Nat /\ Native[0] = Plain
  BY NativeTurns, BoundAssumption DEF NativesOf
<1>1. 0 \in N
  <2>1. PICK f : f = [depth \in 0..0 |-> Row(0, 0)]
    OBVIOUS
  <2>2. ASSUME NEW depth \in 0..0 PROVE Row(0, 0) = Row(f[depth - 1], depth)
    <3>1. \A x \in Native[0], heap \in Heaps : Made(heap, x, 0) = Made(heap, x, f[depth - 1])
      BY <1>0 DEF Made
    <3> QED
      BY <3>1
  <2>3. ToValueDescribes(f, 0)
    BY <2>1, <2>2 DEF ToValueDescribes
  <2> QED
    BY <2>3
<1>2. ASSUME NEW n \in N PROVE n + 1 \in N
  <2> SUFFICES ASSUME n + 1 <= MaxObjects PROVE \E t : ToValueDescribes(t, n + 1)
    BY <1>2
  <2>2. n \in Nat /\ n + 1 \in Nat /\ n <= MaxObjects
    BY <1>0, <1>2
  <2>1. PICK f : ToValueDescribes(f, n)
    BY <1>2, <2>2
  <2> HIDE DEF Row
  <2>3. PICK g : g = [depth \in 0..(n + 1) |-> Row(f[depth - 1], depth)]
    OBVIOUS
  <2>4. ASSUME NEW depth \in 0..n PROVE g[depth] = f[depth]
    <3>1. depth \in 0..(n + 1)
      BY <2>2
    <3>2. f[depth] = Row(f[depth - 1], depth)
      BY <2>1 DEF ToValueDescribes, Row
    <3> QED
      BY <2>3, <3>1, <3>2
  <2>5. ASSUME NEW depth \in 0..(n + 1)
        PROVE  Row(f[depth - 1], depth) = Row(g[depth - 1], depth)
    <3>1. CASE depth = 0
      <4>1. \A x \in Native[0], heap \in Heaps :
              Made(heap, x, f[depth - 1]) = Made(heap, x, g[depth - 1])
        BY <1>0 DEF Made
      <4> QED
        BY <3>1, <4>1 DEF Row
    <3>2. CASE depth # 0
      <4>1. depth - 1 \in 0..n
        BY <2>2, <3>2
      <4> QED
        BY <2>4, <4>1, Zenon
    <3> QED
      BY <3>1, <3>2
  <2>6. ToValueDescribes(g, n + 1)
    <3>1. g = [depth \in 0..(n + 1) |-> Row(g[depth - 1], depth)]
      BY <2>3, <2>5
    <3> QED
      BY <3>1 DEF ToValueDescribes, Row
  <2> QED
    BY <2>6
<1>3. N = Nat
  <2>1. N \in SUBSET Nat
    OBVIOUS
  <2> HIDE DEF N
  <2> QED
    BY <1>1, <1>2, <2>1, NatSetInduction
<1> QED
  BY <1>3

\* What XJSToValue makes of values nested so deep.
LEMMA ToValueTurns ==
  \E t : /\ ToValue = t[MaxObjects]
         /\ \A depth \in 0..MaxObjects : \A x \in Native[depth] : \A heap \in Heaps :
              t[depth][x][heap] = Made(heap, x, t[depth - 1])
<1> DEFINE t == CHOOSE f : ToValueDescribes(f, MaxObjects)
<1>1. ToValue = t[MaxObjects]
  BY DEF ToValue, ToValueDescribes
<1>2. ToValueDescribes(t, MaxObjects)
  <2>1. MaxObjects \in Nat /\ MaxObjects <= MaxObjects
    BY BoundAssumption
  <2>2. \E f : ToValueDescribes(f, MaxObjects)
    BY <2>1, ToValueExists
  <2> QED
    BY <2>2
<1> HIDE DEF t
<1>3. ASSUME NEW depth \in 0..MaxObjects, NEW x \in Native[depth], NEW heap \in Heaps
      PROVE  t[depth][x][heap] = Made(heap, x, t[depth - 1])
  <2>1. t[depth] = [y \in Native[depth] |-> [h \in Heaps |-> Made(h, y, t[depth - 1])]]
    BY <1>2 DEF ToValueDescribes
  <2>2. t[depth][x] = [h \in Heaps |-> Made(h, x, t[depth - 1])]
    BY <2>1, Zenon
  <2> QED
    BY <2>2, Zenon
<1> QED
  BY <1>1, <1>3

\* g holds what scripts have read after each component of a path.
ReadsAlong(g, heap, o, path) ==
  /\ g[0] = o /\ g[Len(path)] = Reads(heap, o, path)
  /\ \A i \in 1..Len(path) : g[i] = ReadTurn(heap, g[i - 1], path[i])

\* It can be followed in a heap of either kind.
LEMMA ReadsTurns ==
  ASSUME NEW heap, \A v \in DOMAIN heap, n \in Name : heap[v][n] \in CopyValue,
         NEW o \in CopyValue, NEW path \in Seq(Name)
  PROVE  \E g \in [0..Len(path) -> CopyValue] : ReadsAlong(g, heap, o, path)
<1> DEFINE s == path
           Fold(iter) == iter = [t \in SUBSET DOMAIN s |->
              IF t = {} THEN o ELSE ReadTurn(heap, iter[t \ {Max(t)}], s[Max(t)])]
           F == [x \in CopyValue \X Name |-> ReadTurn(heap, x[1], x[2])]
           all == CHOOSE iter : Fold(iter)
           g == [i \in 0..Len(s) |-> all[1..i]]
<1>1. Reads(heap, o, path) = all[DOMAIN s]
  BY DEF Reads, FoldLeft, MapThenFoldSet
<1>2. /\ Len(s) \in Nat /\ s \in Seq(Name)
      /\ s \in [1..Len(s) -> Name] /\ DOMAIN s = 1..Len(s)
  BY LenProperties
<1>3. F \in [CopyValue \X Name -> CopyValue] /\ o \in CopyValue
  BY DEF ReadTurn, CopyValue, Missing
<1>4. \A p \in CopyValue, n \in Name : F[<<p, n>>] = ReadTurn(heap, p, n)
  OBVIOUS
<1> HIDE DEF CopyValue
<1>5. Fold(all)
  <2> HIDE DEF F
  <2>1. PICK iter \in [SUBSET DOMAIN s -> CopyValue] : Folds(iter, F, o, s)
    BY <1>2, <1>3, FoldExists
  <2>2. ASSUME NEW t \in SUBSET DOMAIN s, t # {}
        PROVE  iter[t] = ReadTurn(heap, iter[t \ {Max(t)}], s[Max(t)])
    <3>1. Max(t) \in t
      BY <1>2, <2>2, MaxOfSome
    <3>2. iter[t \ {Max(t)}] \in CopyValue /\ s[Max(t)] \in Name
      BY <1>2, <3>1
    <3> QED
      BY <1>4, <2>1, <2>2, <3>2 DEF Folds
  <2>3. Fold(iter)
    BY <2>1, <2>2 DEF Folds
  <2> HIDE DEF Fold
  <2> QED
    BY <2>3
<1> HIDE DEF all
<1>6. all[{}] = o /\ \A i \in 1..Len(s) : all[1..i] = ReadTurn(heap, all[1..(i - 1)], s[i])
  <2>1. ASSUME NEW i \in 1..Len(s)
        PROVE  all[1..i] = ReadTurn(heap, all[1..(i - 1)], s[i])
    <3>1. 1..i \in SUBSET DOMAIN s /\ 1..i # {} /\ (1..i) \ {i} = 1..(i - 1)
      BY <1>2, UpTo
    <3>2. Max(1..i) = i
      BY <1>2, MaxUpTo
    <3> QED
      BY <1>5, <3>1, <3>2
  <2> QED
    BY <1>5, <2>1
<1>7. \A i \in 0..Len(s) : all[1..i] \in CopyValue
  <2>1. \A i \in 1..Len(s) : all[1..(i - 1)] \in CopyValue => all[1..i] \in CopyValue
    <3> SUFFICES ASSUME NEW i \in 1..Len(s), all[1..(i - 1)] \in CopyValue
                 PROVE  all[1..i] \in CopyValue
      OBVIOUS
    <3>1. s[i] \in Name
      BY <1>2
    <3>2. F[<<all[1..(i - 1)], s[i]>>] \in CopyValue
      BY <1>3, <3>1
    <3> QED
      BY <1>4, <1>6, <3>1, <3>2
  <2> QED
    BY <1>2, <1>3, <1>6, <2>1, FoldTrace
<1> HIDE DEF F
<1>8. /\ g \in [0..Len(s) -> CopyValue]
      /\ g[0] = o /\ g[Len(s)] = all[DOMAIN s]
      /\ \A i \in 1..Len(s) : g[i] = ReadTurn(heap, g[i - 1], s[i])
  <2>1. 1..0 = {}
    OBVIOUS
  <2> QED
    BY <1>2, <1>6, <1>7, <2>1
<1> HIDE DEF g
<1> QED
  BY <1>1, <1>8 DEF ReadsAlong
-----------------------------------------------------------------------------
\* What the next member makes of the heap.
Taken(x, toValue, ret, h, key) == SetObject(ret, key, toValue[x[key]][h])
\* The heap with the object that is going to be returned.
WithObject(heap) == Append(heap, [n \in Name |-> Undefined])

\* g holds the heaps that a dictionary's members are put into, one by one.
FillsUp(g, heap, x, toValue) ==
  /\ g[0] = WithObject(heap)
  /\ g[Cardinality(DOMAIN x)] = Made(heap, x, toValue).heap
  /\ \A i \in 1..Cardinality(DOMAIN x) :
       g[i] = Taken(x, toValue, Len(heap) + 1, g[i - 1], SetToSeq(DOMAIN x)[i])

\* There are such heaps.
LEMMA MadeTurns ==
  ASSUME NEW heap, NEW x, x \notin Plain, NEW toValue, NEW S, WithObject(heap) \in S,
         IsFiniteSet(DOMAIN x),
         \A h \in S, key \in DOMAIN x : Taken(x, toValue, Len(heap) + 1, h, key) \in S
  PROVE  /\ Made(heap, x, toValue).value = Len(heap) + 1
         /\ \E g \in [0..Cardinality(DOMAIN x) -> S] : FillsUp(g, heap, x, toValue)
<1> DEFINE s == SetToSeq(DOMAIN x)
           ret == Len(heap) + 1
           base == WithObject(heap)
           Fold(iter) == iter = [t \in SUBSET DOMAIN s |->
              IF t = {} THEN base ELSE Taken(x, toValue, ret, iter[t \ {Max(t)}], s[Max(t)])]
           F == [p \in S \X DOMAIN x |-> Taken(x, toValue, ret, p[1], p[2])]
           all == CHOOSE iter : Fold(iter)
           g == [i \in 0..Len(s) |-> all[1..i]]
<1>1. Made(heap, x, toValue).heap = all[DOMAIN s] /\ Made(heap, x, toValue).value = ret
  BY DEF Made, WithObject, Taken, FoldLeft, MapThenFoldSet
<1>2. /\ Len(s) = Cardinality(DOMAIN x) /\ Len(s) \in Nat /\ s \in Seq(DOMAIN x)
      /\ s \in [1..Len(s) -> DOMAIN x] /\ DOMAIN s = 1..Len(s)
  BY SetToSeqTakesAll, LenProperties
<1> HIDE DEF s
<1>3. F \in [S \X DOMAIN x -> S] /\ base \in S
  OBVIOUS
<1>4. \A p \in S, n \in DOMAIN x : F[<<p, n>>] = Taken(x, toValue, ret, p, n)
  OBVIOUS
<1> HIDE DEF base, ret
<1>5. Fold(all)
  <2> HIDE DEF F
  <2>1. PICK iter \in [SUBSET DOMAIN s -> S] : Folds(iter, F, base, s)
    BY <1>2, <1>3, FoldExists
  <2>2. ASSUME NEW t \in SUBSET DOMAIN s, t # {}
        PROVE  iter[t] = Taken(x, toValue, ret, iter[t \ {Max(t)}], s[Max(t)])
    <3>1. Max(t) \in t
      BY <1>2, <2>2, MaxOfSome
    <3>2. iter[t \ {Max(t)}] \in S /\ s[Max(t)] \in DOMAIN x
      BY <1>2, <3>1
    <3> QED
      BY <1>4, <2>1, <2>2, <3>2 DEF Folds
  <2>3. Fold(iter)
    BY <2>1, <2>2 DEF Folds
  <2> HIDE DEF Fold
  <2> QED
    BY <2>3
<1> HIDE DEF all
<1>6. all[{}] = base /\ \A i \in 1..Len(s) : all[1..i] = Taken(x, toValue, ret, all[1..(i - 1)], s[i])
  <2>1. ASSUME NEW i \in 1..Len(s)
        PROVE  all[1..i] = Taken(x, toValue, ret, all[1..(i - 1)], s[i])
    <3>1. 1..i \in SUBSET DOMAIN s /\ 1..i # {} /\ (1..i) \ {i} = 1..(i - 1)
      BY <1>2, UpTo
    <3>2. Max(1..i) = i
      BY <1>2, MaxUpTo
    <3> QED
      BY <1>5, <3>1, <3>2
  <2> QED
    BY <1>5, <2>1
<1>7. \A i \in 0..Len(s) : all[1..i] \in S
  <2>1. \A i \in 1..Len(s) : all[1..(i - 1)] \in S => all[1..i] \in S
    <3> SUFFICES ASSUME NEW i \in 1..Len(s), all[1..(i - 1)] \in S
                 PROVE  all[1..i] \in S
      OBVIOUS
    <3>1. s[i] \in DOMAIN x
      BY <1>2
    <3>2. F[<<all[1..(i - 1)], s[i]>>] \in S
      BY <1>3, <3>1
    <3> QED
      BY <1>4, <1>6, <3>1, <3>2
  <2> QED
    BY <1>2, <1>3, <1>6, <2>1, FoldTrace
<1> HIDE DEF F
<1>8. /\ g \in [0..Len(s) -> S]
      /\ g[0] = base /\ g[Len(s)] = all[DOMAIN s]
      /\ \A i \in 1..Len(s) : g[i] = Taken(x, toValue, ret, g[i - 1], s[i])
  <2>1. 1..0 = {}
    OBVIOUS
  <2> QED
    BY <1>2, <1>6, <1>7, <2>1
<1> HIDE DEF g
<1> QED
  BY <1>1, <1>2, <1>8 DEF FillsUp, s, ret, base

\* v, a value on the heap, and w, what its copy reads as, when R holds all such pairs, and
\* the copies are the objects of h above base.
Matches(R, shown, h, base, v, w) ==
  /\ v \in Scalar => w = v
  /\ v \in Missing => w = Null
  /\ v \in Object =>
       /\ w \in (base + 1)..Len(h)
       /\ \A n \in Name : IF n \in Enumerated(props, shown, v)
                          THEN <<props[v][n], h[w][n]>> \in R ELSE h[w][n] = Undefined

Alike(R, shown, h, base) ==
  \A v \in Value : \A w : <<v, w>> \in R => Matches(R, shown, h, base, v, w)

\* The objects of h above base are trees: what a property holds was made later than the
\* object that has the property, and no other property holds it.
Grows(h, base) ==
  \A w \in (base + 1)..Len(h), n \in Name : h[w][n] \in Nat => h[w][n] \in (w + 1)..Len(h)
Apart(h, base) ==
  \A w1, w2 \in (base + 1)..Len(h), n1, n2 \in Name :
    h[w1][n1] \in Nat /\ h[w1][n1] = h[w2][n2] => w1 = w2 /\ n1 = n2
Tree(h, base) == Grows(h, base) /\ Apart(h, base)

\* r is a copy of v, made in heap: what was there has stayed, and a new object is the first
\* of the new ones.
IsCopy(shown, v, heap, r) ==
  /\ r.heap \in Heaps /\ Len(heap) <= Len(r.heap)
  /\ \A i \in 1..Len(heap) : r.heap[i] = heap[i]
  /\ r.value \in CopyValue
  /\ r.value \in Nat => r.value = Len(heap) + 1 /\ Len(heap) < Len(r.heap)
  /\ Tree(r.heap, Len(heap))
  /\ \E R : Alike(R, shown, r.heap, Len(heap)) /\ <<v, r.value>> \in R

\* Heaps of copies are sequences of objects.
LEMMA HeapsType ==
  ASSUME NEW h \in Heaps
  PROVE  /\ Len(h) \in Nat /\ DOMAIN h = 1..Len(h)
         /\ \A i \in 1..Len(h) : h[i] \in [Name -> CopyValue]
BY LenProperties DEF Heaps, CopyValue

\* A member is put into one property of one object.
LEMMA SetObjectType ==
  ASSUME NEW m, m.heap \in Heaps, m.value \in CopyValue, NEW ret \in 1..Len(m.heap), NEW key \in Name
  PROVE  LET h == SetObject(ret, key, m) IN
           /\ h \in Heaps /\ Len(h) = Len(m.heap)
           /\ \A i \in 1..Len(h) : i # ret => h[i] = m.heap[i]
           /\ \A n \in Name : h[ret][n] = IF n = key THEN m.value ELSE m.heap[ret][n]
<1> DEFINE old == m.heap
           row == [old[ret] EXCEPT ![key] = m.value]
           h == [old EXCEPT ![ret] = row]
<1>1. SetObject(ret, key, m) = h
  BY DEF SetObject
<1>2. /\ Len(old) \in Nat /\ DOMAIN old = 1..Len(old) /\ old \in Seq([Name -> CopyValue])
      /\ old[ret] \in [Name -> CopyValue]
  BY HeapsType DEF Heaps, CopyValue
<1>3. row \in [Name -> CopyValue] /\ \A n \in Name : row[n] = IF n = key THEN m.value ELSE old[ret][n]
  BY <1>2
<1> HIDE DEF row, old
<1>4. h \in Seq([Name -> CopyValue]) /\ Len(h) = Len(old)
  BY <1>2, <1>3 DEF old
<1>5. h[ret] = row /\ \A i \in 1..Len(h) : i # ret => h[i] = old[i]
  BY <1>2, <1>3, <1>4 DEF old
<1>6. h \in Heaps
  BY <1>4 DEF Heaps, CopyValue
<1> HIDE DEF h
<1> QED
  BY <1>1, <1>3, <1>4, <1>5, <1>6 DEF old

\* Pairs stay alike while their objects do.
LEMMA AlikeKept ==
  ASSUME NEW R, NEW shown, NEW h, NEW base \in Nat, Alike(R, shown, h, base),
         NEW later, NEW lower \in Nat, lower <= base,
         Len(h) \in Nat, Len(later) \in Nat, Len(h) <= Len(later),
         \A i \in (base + 1)..Len(h) : later[i] = h[i]
  PROVE  Alike(R, shown, later, lower)
<1> SUFFICES ASSUME NEW v \in Value, NEW w, <<v, w>> \in R
             PROVE  Matches(R, shown, later, lower, v, w)
  BY DEF Alike
<1>1. Matches(R, shown, h, base, v, w)
  BY DEF Alike
<1>2. CASE v \in Object
  <2>1. w \in (base + 1)..Len(h) /\ later[w] = h[w]
    BY <1>1, <1>2 DEF Matches
  <2>2. w \in (lower + 1)..Len(later)
    BY <2>1
  <2> QED
    BY <1>1, <1>2, <2>1, <2>2 DEF Matches
<1> QED
  BY <1>1, <1>2 DEF Matches

\* Pairs of two conversions.
LEMMA AlikeTogether ==
  ASSUME NEW R1, NEW R2, NEW shown, NEW h, NEW base,
         Alike(R1, shown, h, base), Alike(R2, shown, h, base)
  PROVE  Alike(R1 \cup R2, shown, h, base)
<1> SUFFICES ASSUME NEW v \in Value, NEW w, <<v, w>> \in R1 \cup R2
             PROVE  Matches(R1 \cup R2, shown, h, base, v, w)
  BY DEF Alike
<1>1. Matches(R1, shown, h, base, v, w) \/ Matches(R2, shown, h, base, v, w)
  BY DEF Alike
<1> QED
  BY <1>1 DEF Matches

\* Values that are no objects are their own copies, or null.
LEMMA PlainCopied ==
  ASSUME NEW shown, NEW v \in Value \ Object, NEW heap \in Heaps, NEW toValue, NEW x,
         x = IF v \in Scalar THEN v ELSE NSNull
  PROVE  IsCopy(shown, v, heap, Made(heap, x, toValue))
<1> DEFINE w == IF v \in Scalar THEN v ELSE Null
           r == Made(heap, x, toValue)
<1>1. x \in Plain /\ (x \in Scalar <=> v \in Scalar) /\ v \in Scalar \cup Missing
  BY DictionaryAssumption DEF Plain, Value
<1>2. r = [heap |-> heap, value |-> w]
  BY <1>1 DEF Made
<1>3. w \in CopyValue /\ Len(heap) \in Nat
  BY HeapsType DEF CopyValue, Missing
<1> HIDE DEF r
<1>4. r.heap = heap /\ r.value = w
  BY <1>2
<1>5. Alike({<<v, w>>}, shown, heap, Len(heap))
  BY <1>1, ValueKinds DEF Alike, Matches
<1>6. w \notin Nat
  BY ValueAssumption
<1>7. Tree(heap, Len(heap))
  BY <1>3 DEF Tree, Grows, Apart
<1> HIDE DEF w
<1> QED
  BY <1>3, <1>4, <1>5, <1>6, <1>7 DEF IsCopy, r
-----------------------------------------------------------------------------
\* h holds a new object for o, after the objects of heap, with the members of K.
Filled(shown, o, heap, K, h) ==
  /\ h \in Heaps /\ Len(heap) + 1 <= Len(h)
  /\ \A i \in 1..Len(heap) : h[i] = heap[i]
  /\ \A n \in Name \ K : h[Len(heap) + 1][n] = Undefined
  /\ Tree(h, Len(heap))
  /\ \E R : /\ Alike(R, shown, h, Len(heap) + 1)
            /\ \A n \in K : <<props[o][n], h[Len(heap) + 1][n]>> \in R

\* Before the first member.
LEMMA FreshFilled ==
  ASSUME NEW shown, NEW o, NEW heap \in Heaps
  PROVE  Filled(shown, o, heap, {}, WithObject(heap))
<1> DEFINE h == WithObject(heap)
           row == [n \in Name |-> Undefined]
<1>1. Len(heap) \in Nat /\ heap \in Seq([Name -> CopyValue])
  BY HeapsType DEF Heaps, CopyValue
<1>2. row \in [Name -> CopyValue] /\ \A n \in Name : row[n] = Undefined
  BY DEF CopyValue, Missing
<1>0. h = Append(heap, row)
  BY DEF WithObject
<1> HIDE DEF row, h
<1>3. /\ h \in Seq([Name -> CopyValue]) /\ Len(h) = Len(heap) + 1
      /\ h[Len(heap) + 1] = row /\ \A i \in 1..Len(heap) : h[i] = heap[i]
  BY <1>0, <1>1, <1>2
<1>4. h \in Heaps
  BY <1>3 DEF Heaps, CopyValue
<1>5. Alike({}, shown, h, Len(heap) + 1)
  BY DEF Alike
<1>6. Tree(h, Len(heap))
  <2>1. \A w \in (Len(heap) + 1)..Len(h), n \in Name : h[w][n] \notin Nat
    BY <1>1, <1>2, <1>3, ValueAssumption
  <2> QED
    BY <2>1 DEF Tree, Grows, Apart
<1> QED
  BY <1>1, <1>2, <1>3, <1>4, <1>5, <1>6 DEF Filled, h

\* new is h and the objects that more has after it, with root at key of the first object
\* after base.
Grafts(new, h, more, base, key, root) ==
  /\ Len(h) \in Nat /\ base + 1 <= Len(h)
  /\ Len(more) \in Nat /\ Len(h) <= Len(more)
  /\ root \in Nat => root = Len(h) + 1 /\ Len(h) < Len(more)
  /\ Len(new) = Len(more) /\ new[base + 1][key] = root
  /\ \A w \in (base + 1)..Len(h), n \in Name :
       w # base + 1 \/ n # key => new[w][n] = h[w][n]
  /\ \A w \in (Len(h) + 1)..Len(more), n \in Name : new[w][n] = more[w][n]

\* A tree whose root becomes a property of another one.
LEMMA TreeGrafted ==
  ASSUME NEW base \in Nat, NEW h, Tree(h, base), NEW more, Tree(more, Len(h)),
         NEW root, NEW new, NEW key \in Name, Grafts(new, h, more, base, key, root)
  PROVE  Tree(new, base)
<1> DEFINE Old(w, n) == w \in (base + 1)..Len(h) /\ (w # base + 1 \/ n # key) /\ new[w][n] = h[w][n]
           Grafted(w, n) == w = base + 1 /\ n = key
           New(w, n) == w \in (Len(h) + 1)..Len(more) /\ new[w][n] = more[w][n]
<1>0. /\ \A w \in (base + 1)..Len(h), n \in Name :
           w # base + 1 \/ n # key => new[w][n] = h[w][n]
      /\ \A w \in (Len(h) + 1)..Len(more), n \in Name : new[w][n] = more[w][n]
      /\ new[base + 1][key] = root
  BY DEF Grafts
<1>1. /\ Len(h) \in Nat /\ Len(more) \in Nat /\ Len(h) <= Len(more) /\ Len(new) = Len(more) /\ base + 1 <= Len(h)
      /\ root \in Nat => root = Len(h) + 1 /\ Len(h) < Len(more)
  BY DEF Grafts
<1>2. ASSUME NEW w \in (base + 1)..Len(more), NEW n \in Name
      PROVE  Old(w, n) \/ Grafted(w, n) \/ New(w, n)
  <2>1. w \in (base + 1)..Len(h) \/ w \in (Len(h) + 1)..Len(more)
    BY <1>1
  <2> QED
    BY <1>0, <2>1
<1>3. \A w : \A n \in Name : Grafted(w, n) => new[w][n] = root
  BY <1>0
<1>4. /\ Apart(h, base) /\ Apart(more, Len(h))
      /\ \A w \in (base + 1)..Len(h), n \in Name :
           h[w][n] \in Nat => h[w][n] \in (w + 1)..Len(h)
      /\ \A w \in (Len(h) + 1)..Len(more), n \in Name :
           more[w][n] \in Nat => more[w][n] \in (w + 1)..Len(more)
  BY DEF Tree, Grows
<1>5. ASSUME NEW w \in (base + 1)..Len(more), NEW n \in Name, new[w][n] \in Nat
      PROVE  /\ new[w][n] \in (w + 1)..Len(more)
             /\ Old(w, n) => new[w][n] \in 0..Len(h)
             /\ Grafted(w, n) => new[w][n] = Len(h) + 1
             /\ New(w, n) => new[w][n] \in (Len(h) + 2)..Len(more)
  <2>1. CASE Old(w, n)
    <3>1. new[w][n] \in (w + 1)..Len(h)
      BY <1>4, <1>5, <2>1
    <3> QED
      BY <1>1, <2>1, <3>1
  <2>2. CASE Grafted(w, n)
    <3>0. new[w][n] = root /\ root \in Nat
      BY <1>3, <1>5, <2>2, Zenon
    <3>1. new[w][n] = Len(h) + 1 /\ Len(h) < Len(more)
      BY <1>1, <3>0
    <3> QED
      BY <1>1, <2>2, <3>1
  <2>3. CASE New(w, n)
    <3>1. new[w][n] \in (w + 1)..Len(more)
      BY <1>4, <1>5, <2>3
    <3> QED
      BY <1>1, <2>3, <3>1
  <2> QED
    BY <1>2, <2>1, <2>2, <2>3
<1>6. Grows(new, base)
  BY <1>1, <1>5 DEF Grows
<1>7. ASSUME NEW w1 \in (base + 1)..Len(more), NEW w2 \in (base + 1)..Len(more), NEW n1 \in Name, NEW n2 \in Name,
             new[w1][n1] \in Nat, new[w1][n1] = new[w2][n2]
      PROVE  w1 = w2 /\ n1 = n2
  <2> DEFINE v == new[w1][n1]
  <2>1. v \in Nat /\ v = new[w2][n2]
    BY <1>7
  <2>2. /\ Old(w1, n1) => v \in 0..Len(h)
        /\ Grafted(w1, n1) => v = Len(h) + 1
        /\ New(w1, n1) => v \in (Len(h) + 2)..Len(more)
    BY <1>5, <1>7
  <2>3. /\ Old(w2, n2) => v \in 0..Len(h)
        /\ Grafted(w2, n2) => v = Len(h) + 1
        /\ New(w2, n2) => v \in (Len(h) + 2)..Len(more)
    BY <1>5, <1>7
  <2>4. CASE Old(w1, n1) /\ Old(w2, n2)
    <3>1. /\ w1 \in (base + 1)..Len(h) /\ w2 \in (base + 1)..Len(h)
          /\ h[w1][n1] \in Nat /\ h[w1][n1] = h[w2][n2]
      BY <1>7, <2>4
    <3>2. \A a, b \in (base + 1)..Len(h), m, n \in Name :
            h[a][m] \in Nat /\ h[a][m] = h[b][n] => a = b /\ m = n
      BY <1>4, Zenon DEF Apart
    <3> HIDE DEF v
    <3> QED
      BY <3>1, <3>2, Zenon
  <2>5. CASE Grafted(w1, n1) /\ Grafted(w2, n2)
    BY <2>5
  <2>6. CASE New(w1, n1) /\ New(w2, n2)
    <3>1. /\ w1 \in (Len(h) + 1)..Len(more) /\ w2 \in (Len(h) + 1)..Len(more)
          /\ more[w1][n1] \in Nat /\ more[w1][n1] = more[w2][n2]
      BY <1>7, <2>6
    <3>2. \A a, b \in (Len(h) + 1)..Len(more), m, n \in Name :
            more[a][m] \in Nat /\ more[a][m] = more[b][n] => a = b /\ m = n
      BY <1>4, Zenon DEF Apart
    <3> HIDE DEF v
    <3> QED
      BY <3>1, <3>2, Zenon
  <2>7. \/ Old(w1, n1) /\ Old(w2, n2)
        \/ Grafted(w1, n1) /\ Grafted(w2, n2)
        \/ New(w1, n1) /\ New(w2, n2)
    <3>1. Old(w1, n1) \/ Grafted(w1, n1) \/ New(w1, n1)
      BY <1>2
    <3>2. Old(w2, n2) \/ Grafted(w2, n2) \/ New(w2, n2)
      BY <1>2
    <3> HIDE DEF v, Old, Grafted, New
    <3> QED
      BY <1>1, <2>1, <2>2, <2>3, <3>1, <3>2
  <2> QED
    BY <2>4, <2>5, <2>6, <2>7
<1>8. Apart(new, base)
  BY <1>1, <1>7 DEF Apart
<1> QED
  BY <1>6, <1>8 DEF Tree

\* After another one: what it has made is above what was there.
LEMMA MemberFilled ==
  ASSUME NEW shown, NEW o, NEW heap \in Heaps, NEW K \in SUBSET Name,
         NEW h, Filled(shown, o, heap, K, h),
         NEW x, NEW toValue, NEW key \in Name,
         IsCopy(shown, props[o][key], h, toValue[x[key]][h])
  PROVE  Filled(shown, o, heap, K \cup {key}, Taken(x, toValue, Len(heap) + 1, h, key))
<1> DEFINE r == toValue[x[key]][h]
           ret == Len(heap) + 1
           new == Taken(x, toValue, ret, h, key)
<1>1. /\ h \in Heaps /\ ret \in Nat /\ ret \in 1..Len(h) /\ Len(h) \in Nat /\ Len(heap) \in Nat
      /\ \A i \in 1..Len(heap) : h[i] = heap[i]
      /\ \A n \in Name \ K : h[ret][n] = Undefined
  BY HeapsType DEF Filled
<1>2. /\ r.heap \in Heaps /\ Len(h) <= Len(r.heap) /\ Len(r.heap) \in Nat /\ r.value \in CopyValue
      /\ \A i \in 1..Len(h) : r.heap[i] = h[i]
  BY HeapsType DEF IsCopy
<1>3. PICK R1 : Alike(R1, shown, h, ret) /\ \A n \in K : <<props[o][n], h[ret][n]>> \in R1
  BY DEF Filled
<1>4. PICK R2 : Alike(R2, shown, r.heap, Len(h)) /\ <<props[o][key], r.value>> \in R2
  BY DEF IsCopy
<1>5. new = SetObject(ret, key, r)
  BY DEF Taken
<1> HIDE DEF r, ret, new
<1>6. ret \in 1..Len(r.heap)
  BY <1>1, <1>2
<1>7. /\ new \in Heaps /\ Len(new) = Len(r.heap)
      /\ \A i \in 1..Len(new) : i # ret => new[i] = r.heap[i]
      /\ \A n \in Name : new[ret][n] = IF n = key THEN r.value ELSE r.heap[ret][n]
  BY <1>2, <1>5, <1>6, SetObjectType
<1>8. Alike(R1, shown, new, ret)
  <2>1. ASSUME NEW i \in (ret + 1)..Len(h) PROVE new[i] = h[i]
    <3>1. i \in 1..Len(h) /\ i \in 1..Len(new) /\ i # ret
      BY <1>1, <1>2, <1>7
    <3>2. new[i] = r.heap[i] /\ r.heap[i] = h[i]
      BY <1>2, <1>7, <3>1
    <3> QED
      BY <3>2
  <2>2. Len(h) <= Len(new) /\ Len(new) \in Nat
    BY <1>2, <1>7
  <2> QED
    BY <1>1, <1>3, <2>1, <2>2, AlikeKept
<1>9. Alike(R2, shown, new, ret)
  <2>1. ASSUME NEW i \in (Len(h) + 1)..Len(r.heap) PROVE new[i] = r.heap[i]
    <3>1. i \in 1..Len(new) /\ i # ret
      BY <1>1, <1>2, <1>7
    <3> QED
      BY <1>7, <3>1
  <2>2. Len(r.heap) <= Len(new) /\ Len(new) \in Nat /\ ret <= Len(h)
    BY <1>1, <1>2, <1>7
  <2> QED
    BY <1>1, <1>2, <1>4, <2>1, <2>2, AlikeKept
<1>10. Alike(R1 \cup R2, shown, new, ret)
  BY <1>8, <1>9, AlikeTogether
<1>11. \A n \in Name : n # key => new[ret][n] = h[ret][n]
  BY <1>1, <1>2, <1>7
<1>12. \A i \in 1..Len(heap) : new[i] = heap[i]
  <2> SUFFICES ASSUME NEW i \in 1..Len(heap) PROVE new[i] = heap[i]
    OBVIOUS
  <2>1. i \in 1..Len(h) /\ i \in 1..Len(new) /\ i # ret
    BY <1>1, <1>2, <1>7 DEF ret
  <2> QED
    BY <1>1, <1>2, <1>7, <2>1
<1>13. \A n \in Name \ (K \cup {key}) : new[ret][n] = Undefined
  BY <1>1, <1>11
<1>14. \A n \in K \cup {key} : <<props[o][n], new[ret][n]>> \in R1 \cup R2
  BY <1>3, <1>4, <1>7, <1>11
<1>15. Tree(new, Len(heap))
  <2>1. Tree(h, Len(heap)) /\ Tree(r.heap, Len(h))
    BY DEF Filled, IsCopy, r
  <2>2. r.value \in Nat => r.value = Len(h) + 1 /\ Len(h) < Len(r.heap)
    BY DEF IsCopy, r
  <2>3. ret = Len(heap) + 1
    BY DEF ret
  <2>4. \A w \in (Len(heap) + 1)..Len(h), n \in Name :
          w # Len(heap) + 1 \/ n # key => new[w][n] = h[w][n]
    BY <1>1, <1>2, <1>7, <1>11, <2>3
  <2>5. \A w \in (Len(h) + 1)..Len(r.heap), n \in Name : new[w][n] = r.heap[w][n]
    BY <1>1, <1>2, <1>7
  <2>6. new[Len(heap) + 1][key] = r.value
    BY <1>7, <2>3
  <2>7. Grafts(new, h, r.heap, Len(heap), key, r.value)
    BY <1>1, <1>2, <1>7, <2>2, <2>3, <2>4, <2>5, <2>6 DEF Grafts
  <2> QED
    BY <1>1, <2>1, <2>7, TreeGrafted, Zenon
<1> QED
  BY <1>1, <1>2, <1>7, <1>10, <1>12, <1>13, <1>14, <1>15 DEF Filled, ret, new

\* An object that is made of copies of its members is a copy.
LEMMA DictionaryCopied ==
  ASSUME IsFiniteSet(Name), NEW shown, NEW o \in Object, NEW heap \in Heaps, NEW x, NEW toValue,
         x \notin Plain, DOMAIN x = Enumerated(props, shown, o),
         \A n \in DOMAIN x, h \in Heaps : IsCopy(shown, props[o][n], h, toValue[x[n]][h])
  PROVE  IsCopy(shown, o, heap, Made(heap, x, toValue))
<1> DEFINE names == DOMAIN x
           m == Cardinality(names)
           s == SetToSeq(names)
           ret == Len(heap) + 1
           S == {h \in Heaps : ret <= Len(h)}
           r == Made(heap, x, toValue)
           K(i) == {s[j] : j \in 1..i}
<1>1. names \subseteq Name /\ IsFiniteSet(names) /\ m \in Nat /\ Len(heap) \in Nat
  <2>1. names \subseteq Name
    BY DEF Enumerated
  <2> QED
    BY <2>1, FS_Subset, FS_CardinalityType, HeapsType
<1>2. /\ \A i \in 1..m : s[i] \in names
      /\ \A n \in names : \E i \in 1..m : s[i] = n
  <2> HIDE DEF names
  <2>1. s \in Seq(names) /\ Len(s) = m /\ \A n \in names : \E i \in 1..m : s[i] = n
    BY <1>1, SetToSeqTakesAll
  <2> HIDE DEF s, m
  <2> QED
    BY <2>1, LenProperties
<1> HIDE DEF s, m
<1>3. Filled(shown, o, heap, {}, WithObject(heap))
  BY FreshFilled
<1>4. WithObject(heap) \in S
  BY <1>3 DEF Filled
<1>5. ASSUME NEW h \in S, NEW key \in names
      PROVE  Taken(x, toValue, ret, h, key) \in S
  <2> DEFINE member == toValue[x[key]][h]
  <2>1. IsCopy(shown, props[o][key], h, member) /\ key \in Name
    BY <1>1
  <2>2. /\ member.heap \in Heaps /\ member.value \in CopyValue /\ ret <= Len(h)
        /\ Len(h) <= Len(member.heap) /\ Len(h) \in Nat /\ Len(member.heap) \in Nat
    BY <2>1, HeapsType DEF IsCopy
  <2>3. Taken(x, toValue, ret, h, key) = SetObject(ret, key, member)
    BY DEF Taken
  <2> HIDE DEF member
  <2>4. ret \in 1..Len(member.heap)
    BY <1>1, <2>2
  <2>5. /\ SetObject(ret, key, member) \in Heaps
        /\ Len(SetObject(ret, key, member)) = Len(member.heap)
    BY <2>1, <2>2, <2>4, SetObjectType
  <2> QED
    BY <1>1, <2>2, <2>3, <2>5
<1>6. /\ r.value = ret
      /\ \E g \in [0..m -> S] : FillsUp(g, heap, x, toValue)
  <2> HIDE DEF S
  <2>1. IsFiniteSet(DOMAIN x)
    BY <1>1
  <2> QED
    BY <1>4, <1>5, <2>1, MadeTurns DEF m
<1>7. PICK g \in [0..m -> S] :
        /\ g[0] = WithObject(heap) /\ g[m] = r.heap
        /\ \A i \in 1..m : g[i] = Taken(x, toValue, ret, g[i - 1], s[i])
  BY <1>6, Zenon DEF FillsUp, m, s
<1> DEFINE N == {i \in Nat : i <= m => Filled(shown, o, heap, K(i), g[i])}
<1>8. 0 \in N
  <2>1. K(0) = {}
    OBVIOUS
  <2> QED
    BY <1>3, <1>7, <2>1
<1>9. ASSUME NEW i \in N PROVE i + 1 \in N
  <2> SUFFICES ASSUME i + 1 <= m PROVE Filled(shown, o, heap, K(i + 1), g[i + 1])
    BY <1>9
  <2>1. i \in Nat /\ i + 1 \in 1..m /\ i \in 0..m /\ (i + 1) - 1 = i
    BY <1>1
  <2>2. Filled(shown, o, heap, K(i), g[i])
    BY <1>1, <2>1
  <2>3. s[i + 1] \in names /\ g[i] \in S
    BY <1>2, <1>7, <2>1
  <2>4. g[i + 1] = Taken(x, toValue, ret, g[i], s[i + 1])
    BY <1>7, <2>1
  <2>5. IsCopy(shown, props[o][s[i + 1]], g[i], toValue[x[s[i + 1]]][g[i]])
    BY <2>3
  <2>6. K(i) \subseteq Name /\ K(i + 1) = K(i) \cup {s[i + 1]}
    <3>1. 1..(i + 1) = (1..i) \cup {i + 1} /\ \A j \in 1..i : j \in 1..m
      BY <1>1, <2>1
    <3>2. \A j \in 1..i : s[j] \in Name
      BY <1>1, <1>2, <3>1
    <3> QED
      BY <3>1, <3>2
  <2> HIDE DEF K, names, S
  <2> QED
    BY <1>1, <2>2, <2>3, <2>4, <2>5, <2>6, MemberFilled
<1>10. N = Nat
  <2>1. N \in SUBSET Nat
    OBVIOUS
  <2> HIDE DEF N
  <2> QED
    BY <1>8, <1>9, <2>1, NatSetInduction
<1>11. Filled(shown, o, heap, names, r.heap)
  <2>1. m \in N
    BY <1>1, <1>10
  <2>2. Filled(shown, o, heap, K(m), g[m])
    BY <1>1, <2>1
  <2>3. K(m) = names
    BY <1>2
  <2> HIDE DEF K
  <2> QED
    BY <1>7, <2>2, <2>3
<1> HIDE DEF r, S, K
<1>12. /\ r.heap \in Heaps /\ ret <= Len(r.heap) /\ Len(r.heap) \in Nat
       /\ \A i \in 1..Len(heap) : r.heap[i] = heap[i]
       /\ \A n \in Name \ names : r.heap[ret][n] = Undefined
       /\ Tree(r.heap, Len(heap))
  BY <1>11, HeapsType DEF Filled
<1>13. PICK R : /\ Alike(R, shown, r.heap, ret)
                /\ \A n \in names : <<props[o][n], r.heap[ret][n]>> \in R
  BY <1>11 DEF Filled
<1> HIDE DEF names
<1> DEFINE Q == R \cup {<<o, ret>>}
<1>14. Alike(R, shown, r.heap, Len(heap))
  BY <1>1, <1>12, <1>13, AlikeKept
<1>15. Alike(Q, shown, r.heap, Len(heap))
  <2> SUFFICES ASSUME NEW v \in Value, NEW w, <<v, w>> \in Q
               PROVE  Matches(Q, shown, r.heap, Len(heap), v, w)
    BY DEF Alike
  <2>1. CASE <<v, w>> \in R
    <3>1. Matches(R, shown, r.heap, Len(heap), v, w)
      BY <1>14, <2>1 DEF Alike
    <3> QED
      BY <3>1 DEF Matches
  <2>2. CASE v = o /\ w = ret
    <3>1. v \in Object /\ v \notin Scalar \cup Missing
      BY <2>2, ValueKinds
    <3>2. w \in (Len(heap) + 1)..Len(r.heap)
      BY <1>1, <1>12, <2>2
    <3>3. \A n \in Name : IF n \in Enumerated(props, shown, v)
                          THEN <<props[v][n], r.heap[w][n]>> \in Q ELSE r.heap[w][n] = Undefined
      BY <1>12, <1>13, <2>2 DEF names
    <3> QED
      BY <3>1, <3>2, <3>3 DEF Matches
  <2> QED
    BY <2>1, <2>2
<1>16. ret \in CopyValue
  BY <1>1 DEF CopyValue
<1>17. Len(heap) <= Len(r.heap) /\ Len(heap) < Len(r.heap)
  BY <1>1, <1>12
<1> QED
  BY <1>6, <1>12, <1>15, <1>16, <1>17 DEF IsCopy, r
-----------------------------------------------------------------------------
\* What -toObject returns of a value is what XJSToValue makes a copy of.
CopiedAt(c, t, shown, depth) ==
  \A v \in Value : \A x \in c[depth][v] :
    /\ Member(x) \in Native[depth] /\ (v \in Object => x # Nil)
    /\ \A heap \in Heaps : IsCopy(shown, v, heap, t[depth][Member(x)][heap])

\* A conversion of one level more makes copies if those of its members do.
LEMMA CopiesAtDepth ==
  ASSUME IsFiniteSet(Name), TypeOK, NEW shown, NEW c, Conversions(c, shown), NEW t,
         \A depth \in 0..MaxObjects : \A x \in Native[depth] : \A heap \in Heaps :
           t[depth][x][heap] = Made(heap, x, t[depth - 1]),
         NEW depth \in 0..MaxObjects, depth # 0 => CopiedAt(c, t, shown, depth - 1)
  PROVE  CopiedAt(c, t, shown, depth)
<1> SUFFICES ASSUME NEW v \in Value, NEW x \in c[depth][v]
             PROVE  /\ Member(x) \in Native[depth] /\ (v \in Object => x # Nil)
                    /\ \A heap \in Heaps : IsCopy(shown, v, heap, t[depth][Member(x)][heap])
  BY DEF CopiedAt
<1>1. c[depth][v] = Returned(props, shown, v, depth, c[depth - 1])
  BY DEF Conversions
<1>2. Native[depth] = NativesOf(Native[depth - 1], depth)
  BY NativeTurns
<1>3. Plain \subseteq Native[depth]
  BY <1>2 DEF NativesOf
<1>4. CASE v \notin Object
  <2>1. x = IF v \in Scalar THEN v ELSE Nil
    BY <1>1, <1>4, ValueKinds DEF Returned, Value
  <2>2. Member(x) = IF v \in Scalar THEN v ELSE NSNull
    BY <2>1, ValueAssumption DEF Member
  <2>3. Member(x) \in Native[depth]
    BY <1>3, <2>2 DEF Plain
  <2>4. ASSUME NEW heap \in Heaps PROVE IsCopy(shown, v, heap, t[depth][Member(x)][heap])
    <3>1. t[depth][Member(x)][heap] = Made(heap, Member(x), t[depth - 1])
      BY <2>3
    <3> DEFINE toValue == t[depth - 1]
    <3> HIDE DEF toValue
    <3>2. v \in Value \ Object
      BY <1>4
    <3>3. IsCopy(shown, v, heap, Made(heap, Member(x), toValue))
      BY <2>2, <3>2, PlainCopied
    <3> QED
      BY <3>1, <3>3 DEF toValue
  <2> QED
    BY <1>4, <2>3, <2>4
<1>5. CASE v \in Object
  <2> DEFINE names == Enumerated(props, shown, v)
             returns == c[depth - 1]
             d == [n \in names |-> Member(CHOOSE y \in returns[props[v][n]] : TRUE)]
  <2>1. v \notin Missing /\ v \notin Scalar
    BY <1>5, ValueKinds
  <2>2. depth # 0 /\ x \in Dictionary(props, shown, v, returns)
    BY <1>1, <1>5, <2>1 DEF Returned
  <2>3. x = d /\ \A n \in names : returns[props[v][n]] # {}
    BY <2>2 DEF Dictionary
  <2>4. depth - 1 \in 0..MaxObjects /\ CopiedAt(c, t, shown, depth - 1)
    BY <2>2, BoundAssumption
  <2>5. names \subseteq Name /\ \A n \in names : props[v][n] \in Value
    BY <1>5 DEF TypeOK, Enumerated
  <2>6. ASSUME NEW n \in names
        PROVE  /\ x[n] \in Native[depth - 1]
               /\ \A h \in Heaps : IsCopy(shown, props[v][n], h, t[depth - 1][x[n]][h])
    <3> DEFINE y == CHOOSE z \in returns[props[v][n]] : TRUE
    <3>1. y \in returns[props[v][n]]
      BY <2>3
    <3>2. x[n] = Member(y)
      BY <2>3
    <3> HIDE DEF y, d
    <3> QED
      BY <2>4, <2>5, <3>1, <3>2 DEF CopiedAt
  <2>7. x \in [names -> Native[depth - 1]] /\ DOMAIN x = names
    <3>1. x = [n \in names |-> x[n]]
      BY <2>3
    <3> HIDE DEF names, d, returns
    <3> QED
      BY <2>6, <3>1
  <2> HIDE DEF names, d, returns
  <2>8. x \notin Plain
    BY <2>4, <2>5, <2>7, ClassAssumption
  <2>9. x \in Native[depth] /\ Member(x) = x /\ x # Nil
    <3>1. x # Nil
      BY <2>8 DEF Plain
    <3>2. x \in UNION {[S -> Native[depth - 1]] : S \in SUBSET Name}
      BY <2>5, <2>7
    <3> QED
      BY <1>2, <2>2, <3>1, <3>2 DEF Member, NativesOf
  <2>10. ASSUME NEW heap \in Heaps PROVE IsCopy(shown, v, heap, t[depth][x][heap])
    <3>1. t[depth][x][heap] = Made(heap, x, t[depth - 1])
      BY <2>9
    <3>2. \A n \in DOMAIN x, h \in Heaps : IsCopy(shown, props[v][n], h, t[depth - 1][x[n]][h])
      BY <2>6, <2>7
    <3> QED
      BY <1>5, <2>7, <2>8, <3>1, <3>2, DictionaryCopied DEF names
  <2> QED
    BY <2>9, <2>10
<1> QED
  BY <1>4, <1>5

\* The object that a dictionary of o becomes is a copy of o.
LEMMA ToValueCopies ==
  ASSUME IsFiniteSet(Name), TypeOK, NEW shown, NEW o \in Object,
         NEW dictionary \in ToDictionary(props, shown, o)
  PROVE  IsCopy(shown, o, <<>>, ToValue[dictionary][<<>>])
<1>1. PICK c : /\ ToObject(props, shown) = c[MaxObjects]
               /\ \A room \in 0..MaxObjects, v \in Value :
                    c[room][v] = Returned(props, shown, v, room, c[room - 1])
  BY ConversionTurns
<1>2. PICK t : /\ ToValue = t[MaxObjects]
               /\ \A depth \in 0..MaxObjects : \A x \in Native[depth] : \A heap \in Heaps :
                    t[depth][x][heap] = Made(heap, x, t[depth - 1])
  BY ToValueTurns
<1> DEFINE N == {d \in Nat : d <= MaxObjects => CopiedAt(c, t, shown, d)}
<1>3. Conversions(c, shown) /\ MaxObjects \in Nat \ {0}
  BY <1>1, BoundAssumption DEF Conversions
<1>4. 0 \in N
  <2>1. 0 \in 0..MaxObjects
    BY <1>3
  <2> QED
    BY <1>2, <1>3, <2>1, CopiesAtDepth
<1>5. ASSUME NEW d \in N PROVE d + 1 \in N
  <2> SUFFICES ASSUME d + 1 <= MaxObjects PROVE CopiedAt(c, t, shown, d + 1)
    BY <1>5
  <2>1. d + 1 \in 0..MaxObjects /\ (d + 1) - 1 = d /\ CopiedAt(c, t, shown, d)
    BY <1>3
  <2>2. CopiedAt(c, t, shown, (d + 1) - 1)
    BY <2>1
  <2> QED
    BY <1>2, <1>3, <2>1, <2>2, CopiesAtDepth
<1>6. N = Nat
  <2>1. N \in SUBSET Nat
    OBVIOUS
  <2> HIDE DEF N
  <2> QED
    BY <1>4, <1>5, <2>1, NatSetInduction
<1>7. CopiedAt(c, t, shown, MaxObjects)
  <2>1. MaxObjects \in N
    BY <1>3, <1>6
  <2> QED
    BY <1>3, <2>1
<1>8. dictionary \in c[MaxObjects][o] /\ o \in Value
  BY <1>1 DEF ToDictionary, Value
<1>9. dictionary # Nil
  BY <1>7, <1>8 DEF CopiedAt
<1>10. <<>> \in Heaps
  BY DEF Heaps
<1>11. Member(dictionary) = dictionary
  BY <1>9 DEF Member
<1> QED
  BY <1>2, <1>7, <1>8, <1>10, <1>11 DEF CopiedAt

\* What is read of both sides: a copy and its original, or nothing is left in either.
BothRead(R, a, b) == a \in Value /\ (<<a, b>> \in R \/ (a = Undefined /\ b = Undefined))

\* One property further, an undefined property has become null where it was shown.
NextRead(R, shown, a, a2, b2) ==
  /\ BothRead(R, a2, b2)
  /\ a2 = Undefined => b2 = IF shown /\ a \in Object THEN Null ELSE Undefined

\* So it goes on with the next component.
LEMMA ReadTurnAlike ==
  ASSUME TypeOK, NEW shown \in BOOLEAN, NEW R, NEW h \in Heaps, Alike(R, shown, h, 0),
         NEW a, NEW b, BothRead(R, a, b), NEW n \in Name
  PROVE  NextRead(R, shown, a, ReadTurn(props, a, n), ReadTurn(h, b, n))
<1> DEFINE a2 == ReadTurn(props, a, n)
           b2 == ReadTurn(h, b, n)
<1> SUFFICES /\ a2 \in Value
             /\ <<a2, b2>> \in R \/ (a2 = Undefined /\ b2 = Undefined)
             /\ a2 = Undefined => b2 = IF shown /\ a \in Object THEN Null ELSE Undefined
  BY DEF NextRead, BothRead
<1>0. a \in Value /\ (<<a, b>> \in R \/ (a = Undefined /\ b = Undefined))
  BY DEF BothRead
<1>1. /\ DOMAIN props = Object /\ DOMAIN h = 1..Len(h) /\ Len(h) \in Nat
      /\ \A v \in Object : props[v][n] \in Value
  BY HeapsType DEF TypeOK
<1>2. CASE a \notin Object
  <2>1. a2 = Undefined
    BY <1>1, <1>2 DEF ReadTurn
  <2>2. b \notin Nat
    <3>1. a \in Scalar \cup Missing
      BY <1>0, <1>2 DEF Value
    <3>2. b \in Scalar \cup Missing
      BY <1>0, <3>1 DEF Alike, Matches, Missing
    <3> QED
      BY <3>2, ValueAssumption DEF Missing
  <2>3. b2 = Undefined
    BY <1>1, <2>2 DEF ReadTurn
  <2> QED
    BY <1>2, <2>1, <2>3, ValueKinds
<1>3. CASE a \in Object
  <2>1. <<a, b>> \in R
    BY <1>0, <1>3, ValueKinds
  <2>2. Matches(R, shown, h, 0, a, b)
    BY <1>0, <2>1 DEF Alike
  <2>3. b \in DOMAIN h
    BY <1>1, <1>3, <2>2 DEF Matches
  <2>4. a2 = props[a][n] /\ b2 = h[b][n] /\ a2 \in Value
    BY <1>1, <1>3, <2>3 DEF ReadTurn
  <2>5. CASE n \in Enumerated(props, shown, a)
    <3>1. <<a2, b2>> \in R
      BY <1>3, <2>2, <2>4, <2>5 DEF Matches
    <3>2. a2 = Undefined => shown
      BY <2>4, <2>5 DEF Enumerated
    <3>3. a2 = Undefined => b2 = Null
      BY <2>4, <3>1 DEF Alike, Matches, Missing
    <3> QED
      BY <1>3, <2>4, <3>1, <3>2, <3>3
  <2>6. CASE n \notin Enumerated(props, shown, a)
    <3>1. b2 = Undefined
      BY <1>3, <2>2, <2>4, <2>6 DEF Matches
    <3>2. a2 = Undefined /\ ~shown
      BY <2>4, <2>6 DEF Enumerated
    <3> QED
      BY <2>4, <3>1, <3>2
  <2> QED
    BY <2>5, <2>6
<1> QED
  BY <1>2, <1>3

\* What is read by all of a path but its last component is what the last one is read of.
LEMMA ReadsLast ==
  ASSUME NEW heap, \A v \in DOMAIN heap, n \in Name : heap[v][n] \in CopyValue,
         NEW o \in CopyValue, NEW path \in Key,
         NEW g, ReadsAlong(g, heap, o, path)
  PROVE  Reads(heap, o, Front(path)) = g[Len(path) - 1]
<1> DEFINE front == Front(path)
           m == Len(path) - 1
<1>1. /\ Len(path) \in Nat \ {0} /\ m \in Nat /\ m + 1 = Len(path)
      /\ front \in Seq(Name) /\ Len(front) = m /\ \A i \in 1..m : front[i] = path[i]
  BY InnerComponents
<1> HIDE DEF front, m
<1>2. PICK f \in [0..m -> CopyValue] :
        /\ f[0] = o /\ f[m] = Reads(heap, o, front)
        /\ \A i \in 1..m : f[i] = ReadTurn(heap, f[i - 1], front[i])
  <2>1. \E f \in [0..Len(front) -> CopyValue] : ReadsAlong(f, heap, o, front)
    BY <1>1, ReadsTurns
  <2> QED
    BY <1>1, <2>1 DEF ReadsAlong
<1>0. /\ g[0] = o
      /\ \A i \in 1..Len(path) : g[i] = ReadTurn(heap, g[i - 1], path[i])
  BY DEF ReadsAlong
<1> DEFINE N == {i \in Nat : i <= m => f[i] = g[i]}
<1>3. 0 \in N
  BY <1>0, <1>2
<1>4. ASSUME NEW i \in N PROVE i + 1 \in N
  <2> SUFFICES ASSUME i + 1 <= m PROVE f[i + 1] = g[i + 1]
    BY <1>4
  <2>1. i + 1 \in 1..m /\ i + 1 \in 1..Len(path) /\ (i + 1) - 1 = i /\ f[i] = g[i]
    BY <1>1
  <2>2. f[i + 1] = ReadTurn(heap, f[i], front[i + 1])
    BY <1>2, <2>1
  <2>3. g[i + 1] = ReadTurn(heap, g[i], path[i + 1])
    BY <1>0, <2>1
  <2> QED
    BY <1>1, <2>1, <2>2, <2>3
<1>5. N = Nat
  <2>1. N \in SUBSET Nat
    OBVIOUS
  <2> HIDE DEF N
  <2> QED
    BY <1>3, <1>4, <2>1, NatSetInduction
<1>6. m \in N
  BY <1>1, <1>5
<1> QED
  BY <1>1, <1>2, <1>6 DEF front, m

\* Along a path a copy and its original are read alike.
LEMMA CopyReadsAlike ==
  ASSUME TypeOK, NEW shown \in BOOLEAN, NEW o \in Object, NEW copy, IsCopy(shown, o, <<>>, copy),
         NEW path \in Key
  PROVE  LET original == Reads(props, o, path)
             there == shown /\ Reads(props, o, Front(path)) \in Object
             read == Reads(copy.heap, copy.value, path)
         IN  /\ original \in Object => read \in DOMAIN copy.heap
             /\ original = Undefined => read = IF there THEN Null ELSE Undefined
             /\ original \notin Object /\ original # Undefined => read = original
<1> DEFINE h == copy.heap
           m == Len(path)
<1>1. /\ path \in Seq(Name) /\ m \in Nat \ {0}
      /\ \A i \in 1..m : path[i] \in Name
  BY InnerComponents
<1>2. /\ h \in Heaps /\ DOMAIN h = 1..Len(h) /\ copy.value \in CopyValue
      /\ \A v \in DOMAIN h, n \in Name : h[v][n] \in CopyValue
  BY HeapsType DEF IsCopy
<1>3. /\ o \in Value /\ o \in CopyValue /\ Value \subseteq CopyValue
      /\ \A v \in DOMAIN props, n \in Name : props[v][n] \in CopyValue
  <2>1. Value \subseteq CopyValue /\ o \in Value
    BY ValueKinds DEF Value, CopyValue
  <2> QED
    BY <2>1 DEF TypeOK
<1>4. PICK R : Alike(R, shown, h, 0) /\ <<o, copy.value>> \in R
  <2>1. Len(<<>>) = 0
    OBVIOUS
  <2> QED
    BY <2>1 DEF IsCopy
<1> HIDE DEF h, m
<1>5. PICK g \in [0..m -> CopyValue] :
        /\ g[0] = o /\ g[m] = Reads(props, o, path)
        /\ \A i \in 1..m : g[i] = ReadTurn(props, g[i - 1], path[i])
  <2>1. \E g \in [0..Len(path) -> CopyValue] : ReadsAlong(g, props, o, path)
    BY <1>1, <1>3, ReadsTurns
  <2> QED
    BY <2>1 DEF ReadsAlong, m
<1>6. PICK k \in [0..m -> CopyValue] :
        /\ k[0] = copy.value /\ k[m] = Reads(h, copy.value, path)
        /\ \A i \in 1..m : k[i] = ReadTurn(h, k[i - 1], path[i])
  <2>1. \E k \in [0..Len(path) -> CopyValue] : ReadsAlong(k, h, copy.value, path)
    BY <1>1, <1>2, ReadsTurns
  <2> QED
    BY <2>1 DEF ReadsAlong, m
<1> DEFINE Same(i) == BothRead(R, g[i], k[i])
           N == {i \in Nat : i <= m => Same(i)}
<1>7. ASSUME NEW i \in Nat, i + 1 <= m, Same(i)
      PROVE  Same(i + 1) /\ NextRead(R, shown, g[i], g[i + 1], k[i + 1])
  <2>1. i + 1 \in 1..m /\ (i + 1) - 1 = i
    BY <1>1, <1>7
  <2>2. /\ path[i + 1] \in Name
        /\ g[i + 1] = ReadTurn(props, g[i], path[i + 1])
        /\ k[i + 1] = ReadTurn(h, k[i], path[i + 1])
    BY <1>1, <1>5, <1>6, <2>1
  <2>3. NextRead(R, shown, g[i], g[i + 1], k[i + 1])
    BY <1>2, <1>4, <1>7, <2>2, ReadTurnAlike
  <2> QED
    BY <2>3 DEF NextRead
<1>8. N = Nat
  <2>1. 0 \in N
    BY <1>3, <1>4, <1>5, <1>6 DEF BothRead
  <2>2. ASSUME NEW i \in N PROVE i + 1 \in N
    <3> SUFFICES ASSUME i + 1 <= m PROVE Same(i + 1)
      BY <2>2
    <3>1. i \in Nat /\ Same(i)
      BY <1>1
    <3> HIDE DEF Same
    <3> QED
      BY <1>7, <3>1
  <2>3. N \in SUBSET Nat
    OBVIOUS
  <2> HIDE DEF N
  <2> QED
    BY <2>1, <2>2, <2>3, NatSetInduction
<1>9. Same(m) /\ Same(m - 1) /\ m - 1 \in Nat /\ (m - 1) + 1 = m
  <2>2. m \in Nat /\ m - 1 \in Nat /\ (m - 1) + 1 = m /\ m - 1 <= m /\ m <= m
    BY <1>1
  <2>1. Same(m) /\ Same(m - 1)
    <3> HIDE DEF Same
    <3>1. \A i \in Nat : i <= m => Same(i)
      BY <1>8
    <3> QED
      BY <2>2, <3>1
  <2> HIDE DEF Same
  <2> QED
    BY <2>1, <2>2
<1>10. Reads(props, o, Front(path)) = g[m - 1]
  <2>1. ReadsAlong(g, props, o, path)
    BY <1>5 DEF ReadsAlong, m
  <2> QED
    BY <1>3, <2>1, ReadsLast DEF m
<1>11. g[m] = Undefined => k[m] = IF shown /\ g[m - 1] \in Object THEN Null ELSE Undefined
  <2>1. m - 1 \in Nat /\ (m - 1) + 1 <= m /\ (m - 1) + 1 = m
    BY <1>1
  <2> HIDE DEF Same
  <2>2. NextRead(R, shown, g[m - 1], g[(m - 1) + 1], k[(m - 1) + 1])
    BY <1>7, <1>9, <2>1
  <2>3. NextRead(R, shown, g[m - 1], g[m], k[m])
    BY <2>1, <2>2
  <2> QED
    BY <2>3 DEF NextRead
<1>12. g[m] \in Object => k[m] \in DOMAIN h
  <2> SUFFICES ASSUME g[m] \in Object PROVE k[m] \in DOMAIN h
    OBVIOUS
  <2>1. <<g[m], k[m]>> \in R /\ g[m] \in Value
    BY <1>9, ValueKinds DEF BothRead
  <2>2. Matches(R, shown, h, 0, g[m], k[m])
    BY <1>4, <2>1 DEF Alike
  <2> QED
    BY <1>2, <2>2 DEF Matches
<1>13. g[m] \notin Object /\ g[m] # Undefined => k[m] = g[m]
  <2> SUFFICES ASSUME g[m] \notin Object, g[m] # Undefined PROVE k[m] = g[m]
    OBVIOUS
  <2>1. <<g[m], k[m]>> \in R /\ g[m] \in Value
    BY <1>9 DEF BothRead
  <2>2. Matches(R, shown, h, 0, g[m], k[m])
    BY <1>4, <2>1 DEF Alike
  <2>3. g[m] \in Scalar \/ g[m] = Null
    BY <2>1 DEF Value, Missing
  <2> QED
    BY <2>2, <2>3 DEF Matches, Missing
<1> QED
  BY <1>5, <1>6, <1>10, <1>11, <1>12, <1>13 DEF h

\* No two paths lead to the same object of a copy.
LEMMA ObjectsOnPath ==
  ASSUME NEW h, Undefined \notin DOMAIN h, NEW m \in Nat, NEW k, NEW path, k[m] \in DOMAIN h,
         \A i \in 1..m : k[i] = ReadTurn(h, k[i - 1], path[i])
  PROVE  \A i \in 0..m : k[i] \in DOMAIN h
<1> DEFINE N == {j \in Nat : j <= m => k[m - j] \in DOMAIN h}
<1>1. 0 \in N
  OBVIOUS
<1>2. ASSUME NEW j \in N PROVE j + 1 \in N
  <2> SUFFICES ASSUME j + 1 <= m PROVE k[m - (j + 1)] \in DOMAIN h
    BY <1>2
  <2>1. m - j \in 1..m /\ (m - j) - 1 = m - (j + 1) /\ k[m - j] \in DOMAIN h
    BY <1>2
  <2>2. k[m - j] = ReadTurn(h, k[m - (j + 1)], path[m - j])
    BY <2>1
  <2> QED
    BY <2>1, <2>2 DEF ReadTurn
<1>3. N = Nat
  <2>1. N \in SUBSET Nat
    OBVIOUS
  <2> HIDE DEF N
  <2> QED
    BY <1>1, <1>2, <2>1, NatSetInduction
<1> SUFFICES ASSUME NEW i \in 0..m PROVE k[i] \in DOMAIN h
  OBVIOUS
<1>4. m - i \in Nat /\ m - i <= m /\ m - (m - i) = i
  OBVIOUS
<1>5. m - i \in N
  BY <1>3, <1>4
<1> QED
  BY <1>4, <1>5

\* f has what is read from the first object of h by the m names of path.
FollowsRoot(f, h, path, m) ==
  /\ f[0] = 1
  /\ \A i \in 1..m : path[i] \in Name /\ f[i] = ReadTurn(h, f[i - 1], path[i])

SameTurns(p, m, q, l) == m = l /\ \A i \in 1..m : p[i] = q[i]

LEMMA PathsApart ==
  ASSUME NEW h, DOMAIN h = 1..Len(h), Len(h) \in Nat, Tree(h, 0),
         NEW p, NEW q, NEW m \in Nat, NEW l \in Nat,
         NEW f, FollowsRoot(f, h, p, m), NEW g, FollowsRoot(g, h, q, l),
         f[m] \in DOMAIN h, f[m] = g[l]
  PROVE  SameTurns(p, m, q, l)
<1>0. Undefined \notin DOMAIN h
  BY ValueAssumption
<1>1. \A i \in 0..m : f[i] \in DOMAIN h
  <2>1. \A i \in 1..m : f[i] = ReadTurn(h, f[i - 1], p[i])
    BY DEF FollowsRoot
  <2> QED
    BY <1>0, <2>1, ObjectsOnPath
<1>2. \A i \in 0..l : g[i] \in DOMAIN h
  <2>1. \A i \in 1..l : g[i] = ReadTurn(h, g[i - 1], q[i])
    BY DEF FollowsRoot
  <2> QED
    BY <1>0, <2>1, ObjectsOnPath
<1>9. /\ f[0] = 1 /\ \A i \in 1..m : p[i] \in Name /\ f[i] = ReadTurn(h, f[i - 1], p[i])
      /\ g[0] = 1 /\ \A i \in 1..l : q[i] \in Name /\ g[i] = ReadTurn(h, g[i - 1], q[i])
  BY DEF FollowsRoot
<1>3. ASSUME NEW i \in Nat, i + 1 <= m
      PROVE  /\ f[i] \in 1..Len(h) /\ f[i + 1] = h[f[i]][p[i + 1]] /\ p[i + 1] \in Name
             /\ f[i + 1] \in Nat /\ f[i + 1] > f[i]
  <2>1. i + 1 \in 1..m /\ (i + 1) - 1 = i /\ i \in 0..m /\ i + 1 \in 0..m
    BY <1>3
  <2>2. /\ f[i] \in 1..Len(h) /\ f[i + 1] \in 1..Len(h) /\ p[i + 1] \in Name
        /\ f[i + 1] = ReadTurn(h, f[i], p[i + 1])
    BY <1>1, <1>9, <2>1
  <2>3. f[i + 1] = h[f[i]][p[i + 1]]
    BY <2>2 DEF ReadTurn
  <2>4. f[i] \in (0 + 1)..Len(h) /\ h[f[i]][p[i + 1]] \in Nat
    BY <2>2, <2>3
  <2>5. h[f[i]][p[i + 1]] \in (f[i] + 1)..Len(h)
    BY <2>2, <2>4 DEF Tree, Grows
  <2> QED
    BY <2>2, <2>3, <2>5
<1>4. ASSUME NEW i \in Nat, i + 1 <= l
      PROVE  /\ g[i] \in 1..Len(h) /\ g[i + 1] = h[g[i]][q[i + 1]] /\ q[i + 1] \in Name
             /\ g[i + 1] \in Nat /\ g[i + 1] > g[i]
  <2>1. i + 1 \in 1..l /\ (i + 1) - 1 = i /\ i \in 0..l /\ i + 1 \in 0..l
    BY <1>4
  <2>2. /\ g[i] \in 1..Len(h) /\ g[i + 1] \in 1..Len(h) /\ q[i + 1] \in Name
        /\ g[i + 1] = ReadTurn(h, g[i], q[i + 1])
    BY <1>2, <1>9, <2>1
  <2>3. g[i + 1] = h[g[i]][q[i + 1]]
    BY <2>2 DEF ReadTurn
  <2>4. g[i] \in (0 + 1)..Len(h) /\ h[g[i]][q[i + 1]] \in Nat
    BY <2>2, <2>3
  <2>5. h[g[i]][q[i + 1]] \in (g[i] + 1)..Len(h)
    BY <2>2, <2>4 DEF Tree, Grows
  <2> QED
    BY <2>2, <2>3, <2>5
<1> DEFINE Meet(a) == \A b \in Nat : a <= m /\ b <= l /\ f[a] = g[b]
                                     => a = b /\ \A i \in 1..a : p[i] = q[i]
           N == {a \in Nat : Meet(a)}
<1>5. 0 \in N
  <2> SUFFICES ASSUME NEW b \in Nat, b <= l, g[b] = 1 PROVE b = 0
    BY <1>9
  <2> SUFFICES ASSUME b # 0 PROVE FALSE
    OBVIOUS
  <2>1. b - 1 \in Nat /\ (b - 1) + 1 = b
    OBVIOUS
  <2>2. g[b - 1] \in 1..Len(h) /\ g[b] > g[b - 1]
    BY <1>4, <2>1
  <2> QED
    BY <2>2
<1>6. ASSUME NEW a \in N PROVE a + 1 \in N
  <2>0. a \in Nat /\ Meet(a)
    BY <1>6
  <2> SUFFICES ASSUME NEW b \in Nat, a + 1 <= m, b <= l, f[a + 1] = g[b]
               PROVE  a + 1 = b /\ \A i \in 1..(a + 1) : p[i] = q[i]
    BY <2>0
  <2>1. /\ a \in Nat /\ f[a] \in 1..Len(h) /\ f[a + 1] = h[f[a]][p[a + 1]] /\ p[a + 1] \in Name
        /\ f[a + 1] \in Nat /\ f[a + 1] > f[a]
    BY <1>3, <2>0
  <2>2. b # 0
    <3>1. f[a + 1] # 1
      BY <2>1
    <3> QED
      BY <1>9, <3>1
  <2> DEFINE c == b - 1
  <2>3. c \in Nat /\ c + 1 = b
    BY <2>2
  <2>4. /\ g[c] \in 1..Len(h) /\ g[c + 1] = h[g[c]][q[c + 1]] /\ q[c + 1] \in Name
    BY <1>4, <2>3
  <2>5. /\ f[a] \in (0 + 1)..Len(h) /\ g[c] \in (0 + 1)..Len(h)
        /\ h[f[a]][p[a + 1]] \in Nat /\ h[f[a]][p[a + 1]] = h[g[c]][q[c + 1]]
    <3>1. \A w \in 1..Len(h) : w \in (0 + 1)..Len(h)
      OBVIOUS
    <3>2. f[a + 1] = g[c + 1]
      BY <2>3
    <3> HIDE DEF c
    <3> QED
      BY <2>1, <2>4, <3>1, <3>2, Zenon
  <2>6. f[a] = g[c] /\ p[a + 1] = q[c + 1]
    <3> DEFINE S == (0 + 1)..Len(h)
    <3>1. \A u, v \in S, n1, n2 \in Name :
            h[u][n1] \in Nat /\ h[u][n1] = h[v][n2] => u = v /\ n1 = n2
      BY Zenon DEF Tree, Apart
    <3>2. PICK u \in S : u = f[a]
      BY <2>5
    <3>3. PICK v \in S : v = g[c]
      BY <2>5
    <3>4. PICK n1 \in Name : n1 = p[a + 1]
      BY <2>1
    <3>5. PICK n2 \in Name : n2 = q[c + 1]
      BY <2>4
    <3>6. /\ h[u][n1] \in Nat /\ h[u][n1] = h[v][n2]
          /\ u \in S /\ v \in S /\ n1 \in Name /\ n2 \in Name
      BY <2>5, <3>2, <3>3, <3>4, <3>5
    <3> HIDE DEF S
    <3>7. u = v /\ n1 = n2
      BY <3>1, <3>6
    <3> QED
      BY <3>2, <3>3, <3>4, <3>5, <3>7
  <2>7. a = c /\ \A i \in 1..a : p[i] = q[i]
    <3>1. a <= m /\ c <= l
      BY <2>0, <2>3
    <3> HIDE DEF c
    <3> QED
      BY <2>0, <2>3, <2>6, <3>1
  <2> HIDE DEF c
  <2> QED
    BY <2>1, <2>3, <2>6, <2>7
<1>7. N = Nat
  <2>1. N \in SUBSET Nat
    OBVIOUS
  <2> HIDE DEF N
  <2> QED
    BY <1>5, <1>6, <2>1, NatSetInduction
<1>8. Meet(m)
  BY <1>7
<1> QED
  BY <1>8 DEF SameTurns

LEMMA CopyReadsApart ==
  ASSUME TypeOK, NEW shown \in BOOLEAN, NEW o \in Object, NEW copy, IsCopy(shown, o, <<>>, copy),
         NEW p \in Key, NEW q \in Key,
         Reads(props, o, p) \in Object,
         Reads(copy.heap, copy.value, p) = Reads(copy.heap, copy.value, q)
  PROVE  p = q
<1> DEFINE h == copy.heap
           root == copy.value
<1>1. /\ p \in Seq(Name) /\ Len(p) \in Nat /\ \A i \in 1..Len(p) : p[i] \in Name
      /\ q \in Seq(Name) /\ Len(q) \in Nat /\ \A i \in 1..Len(q) : q[i] \in Name
  BY InnerComponents
<1>2. /\ h \in Heaps /\ DOMAIN h = 1..Len(h) /\ Len(h) \in Nat /\ root \in CopyValue
      /\ \A v \in DOMAIN h, n \in Name : h[v][n] \in CopyValue
  BY HeapsType DEF IsCopy
<1>3. Len(<<>>) = 0
  OBVIOUS
<1>4. Tree(h, 0) /\ (root \in Nat => root = 1)
  BY <1>3 DEF IsCopy
<1>5. root = 1
  <2>1. PICK R : Alike(R, shown, h, 0) /\ <<o, root>> \in R
    BY <1>3 DEF IsCopy
  <2>2. Matches(R, shown, h, 0, o, root)
    BY <2>1 DEF Alike, Value
  <2>3. root \in Nat
    BY <1>2, <2>2 DEF Matches
  <2> QED
    BY <1>4, <2>3
<1>6. Reads(h, root, p) \in DOMAIN h
  BY CopyReadsAlike
<1>7. Reads(h, root, p) = Reads(h, root, q)
  OBVIOUS
<1> HIDE DEF h, root
<1>8. PICK f \in [0..Len(p) -> CopyValue] : ReadsAlong(f, h, root, p)
  BY <1>1, <1>2, ReadsTurns
<1>9. PICK g \in [0..Len(q) -> CopyValue] : ReadsAlong(g, h, root, q)
  BY <1>1, <1>2, ReadsTurns
<1>10. /\ f[0] = 1 /\ f[Len(p)] \in DOMAIN h /\ f[Len(p)] = g[Len(q)] /\ g[0] = 1
       /\ \A i \in 1..Len(p) : f[i] = ReadTurn(h, f[i - 1], p[i])
       /\ \A i \in 1..Len(q) : g[i] = ReadTurn(h, g[i - 1], q[i])
  BY <1>5, <1>6, <1>7, <1>8, <1>9 DEF ReadsAlong
<1>11. SameTurns(p, Len(p), q, Len(q))
  <2>1. FollowsRoot(f, h, p, Len(p)) /\ FollowsRoot(g, h, q, Len(q))
    BY <1>1, <1>10 DEF FollowsRoot
  <2> QED
    BY <1>1, <1>2, <1>4, <1>10, <2>1, PathsApart, Zenon
<1>12. Len(p) = Len(q) /\ \A i \in 1..Len(p) : p[i] = q[i]
  BY <1>11 DEF SameTurns
<1> QED
  BY <1>1, <1>12, SeqEqual

\* With the conversions that the heap as it is has.
LEMMA AllCopiesReadAlike ==
  ASSUME IsFiniteSet(Name), NamespaceInv
  PROVE  CopiesReadAlike
<1> SUFFICES ASSUME NEW o \in 1..used, NEW shown \in BOOLEAN,
                    NEW dictionary \in ToDictionary(props, shown, o)
             PROVE  /\ ReadAlike(o, shown, ToValue[dictionary][<<>>])
                    /\ ReadApart(o, ToValue[dictionary][<<>>])
  BY DEF CopiesReadAlike
<1>1. TypeOK /\ o \in Object
  BY BoundAssumption DEF NamespaceInv, TypeOK, Object
<1> DEFINE copy == ToValue[dictionary][<<>>]
<1>2. IsCopy(shown, o, <<>>, copy)
  BY <1>1, ToValueCopies
<1> HIDE DEF copy
<1>3. ReadAlike(o, shown, copy)
  <2> SUFFICES ASSUME NEW path \in ScriptPath
               PROVE  LET original == Reads(props, o, path)
                          there == shown /\ Reads(props, o, Front(path)) \in Object
                          read == Reads(copy.heap, copy.value, path)
                      IN  CASE original \in Object    -> read \in DOMAIN copy.heap
                            [] original = Undefined -> read = IF there THEN Null ELSE Undefined
                            [] OTHER                -> read = original
    BY DEF ReadAlike
  <2> DEFINE original == Reads(props, o, path)
             there == shown /\ Reads(props, o, Front(path)) \in Object
             read == Reads(copy.heap, copy.value, path)
  <2>1. /\ original \in Object => read \in DOMAIN copy.heap
        /\ original = Undefined => read = IF there THEN Null ELSE Undefined
        /\ original \notin Object /\ original # Undefined => read = original
    BY <1>1, <1>2, CopyReadsAlike DEF ScriptPath
  <2>2. Undefined \notin Object
    BY ValueKinds
  <2> HIDE DEF original, there, read
  <2>3. (CASE original \in Object -> read \in DOMAIN copy.heap
           [] original = Undefined -> read = IF there THEN Null ELSE Undefined
           [] OTHER -> read = original)
    BY <2>1, <2>2
  <2> QED
    BY <2>3 DEF original, there, read
<1>4. ReadApart(o, copy)
  <2>1. ASSUME NEW p \in ScriptPath, NEW q \in ScriptPath, Reads(props, o, p) \in Object,
               Reads(copy.heap, copy.value, p) = Reads(copy.heap, copy.value, q)
        PROVE  p = q
    BY <1>1, <1>2, <2>1, CopyReadsApart DEF ScriptPath
  <2> QED
    BY <2>1 DEF ReadApart, IsInjective
<1> QED
  BY <1>3, <1>4 DEF copy

\* A native copy of an object, converted back, reads like the object by every path of
\* properties, and has an object of its own for each path that leads to one
\* (CopiesReadAlike): for any number of objects and names, on every heap that sets and
\* scripts can make.
THEOREM CopiesAreAlike ==
  ASSUME IsFiniteSet(Name)
  PROVE  Spec => []CopiesReadAlike
<1>1. NamespaceInv => CopiesReadAlike
  BY AllCopiesReadAlike
<1> QED
  BY <1>1, NamespaceInductive, PTL DEF Spec
=============================================================================
