----------------------------- MODULE StackLemmas -----------------------------
(***************************************************************************)
(* Sequences as stacks: what a push and a pop do to length, elements and   *)
(* type; and the fold of an operator over a sequence.  The proofs about    *)
(* modules that keep a stack, or that loop over the components of a path,  *)
(* cite these.                                                             *)
(***************************************************************************)
EXTENDS Integers, Sequences, SequencesExt, SequenceTheorems, WellFoundedInduction, TLAPS

\* A push keeps what is below.
LEMMA AppendTop ==
  ASSUME NEW S, NEW s \in Seq(S), NEW e \in S
  PROVE  /\ Append(s, e) \in Seq(S) /\ Append(s, e) # <<>>
         /\ Len(s) \in Nat /\ Len(Append(s, e)) = Len(s) + 1
         /\ \A i \in 1..Len(s) : Append(s, e)[i] = s[i]
         /\ Append(s, e)[Len(s) + 1] = e
         /\ Last(Append(s, e)) = e /\ Front(Append(s, e)) = s
<1>1. /\ Append(s, e) \in Seq(S)
      /\ Append(s, e) # <<>>
      /\ Len(Append(s, e)) = Len(s) + 1
      /\ Len(s) \in Nat
      /\ \A i \in 1..Len(s) : Append(s, e)[i] = s[i]
      /\ Append(s, e)[Len(s) + 1] = e
  BY AppendProperties, LenProperties
<1>2. Last(Append(s, e)) = e
  BY <1>1 DEF Last
<1>3. Front(Append(s, e)) = s
  BY <1>1 DEF Front
<1> QED
  BY <1>1, <1>2, <1>3

\* The last element and the rest of a sequence: the top of a stack, and what popping leaves.
LEMMA LastFront ==
  ASSUME NEW S, NEW s \in Seq(S), s # <<>>
  PROVE  /\ Len(s) \in Nat \ {0}
         /\ Last(s) = s[Len(s)]
         /\ Last(s) \in S
         /\ Front(s) \in Seq(S)
         /\ Len(Front(s)) = Len(s) - 1
         /\ \A i \in 1..(Len(s) - 1) : Front(s)[i] = s[i]
<1>1. Len(s) \in Nat \ {0} /\ \A i \in 1..Len(s) : s[i] \in S
  BY LenProperties, EmptySeq
<1>2. PICK n \in Nat : Len(s) = n + 1
  BY <1>1
<1>3. 1 \in Int /\ n \in Int /\ \A i \in 1..n : s[i] \in S
  BY <1>1, <1>2
<1>4. /\ SubSeq(s, 1, n) \in Seq(S)
      /\ Len(SubSeq(s, 1, n)) = IF 1 <= n THEN n - 1 + 1 ELSE 0
      /\ \A i \in 1..(n - 1 + 1) : SubSeq(s, 1, n)[i] = s[1 + i - 1]
  BY <1>3, SubSeqProperties, SMTT(20)
<1>5. Len(SubSeq(s, 1, n)) = n /\ Len(s) - 1 = n
  BY <1>2, <1>4
<1>6. \A i \in 1..n : SubSeq(s, 1, n)[i] = s[i]
  <2>1. \A i \in 1..n : i \in 1..(n - 1 + 1) /\ 1 + i - 1 = i
    OBVIOUS
  <2> QED
    BY <1>4, <2>1, Zenon
<1>7. Front(s) = SubSeq(s, 1, n) /\ Last(s) = s[Len(s)]
  BY <1>5, Zenon DEF Front, Last
<1> QED
  BY <1>1, <1>4, <1>5, <1>6, <1>7

\* An update of a function keeps its type.
LEMMA UpdateType ==
  ASSUME NEW D, NEW R, NEW f \in [D -> R], NEW d \in D, NEW v \in R
  PROVE  [f EXCEPT ![d] = v] \in [D -> R]
OBVIOUS

\* A push or a pop on one of many stacks keeps the type of all.
LEMMA StacksOfMany ==
  ASSUME NEW D, NEW S, NEW f \in [D -> Seq(S)], NEW d \in D
  PROVE  /\ \A e \in S : [f EXCEPT ![d] = Append(@, e)] \in [D -> Seq(S)]
         /\ f[d] # <<>> => [f EXCEPT ![d] = Front(@)] \in [D -> Seq(S)]
<1>1. f[d] \in Seq(S)
  OBVIOUS
<1>2. \A e \in S : Append(f[d], e) \in Seq(S)
  BY <1>1, AppendTop
<1>3. f[d] # <<>> => Front(f[d]) \in Seq(S)
  BY <1>1, LastFront
<1> QED
  BY <1>2, <1>3, Zenon

\* What such a push, pop or exchange of the top does to the elements.
LEMMA PushOnOne ==
  ASSUME NEW D, NEW S, NEW f \in [D -> Seq(S)], NEW d \in D, NEW e \in S,
         NEW g, g = [f EXCEPT ![d] = Append(@, e)]
  PROVE  /\ g \in [D -> Seq(S)] /\ \A x \in D \ {d} : g[x] = f[x]
         /\ Len(f[d]) \in Nat /\ Len(g[d]) = Len(f[d]) + 1
         /\ \A i \in 1..Len(f[d]) : g[d][i] = f[d][i]
         /\ g[d][Len(g[d])] = e
<1>1. g \in [D -> Seq(S)]
  BY StacksOfMany
<1>2. f[d] \in Seq(S) /\ g[d] = Append(f[d], e) /\ \A x \in D \ {d} : g[x] = f[x]
  BY Zenon
<1> QED
  BY <1>1, <1>2, AppendTop

LEMMA PopFromOne ==
  ASSUME NEW D, NEW S, NEW f \in [D -> Seq(S)], NEW d \in D, f[d] # <<>>,
         NEW g, g = [f EXCEPT ![d] = Front(@)]
  PROVE  /\ g \in [D -> Seq(S)] /\ \A x \in D \ {d} : g[x] = f[x]
         /\ Len(f[d]) \in Nat \ {0} /\ Len(g[d]) = Len(f[d]) - 1
         /\ \A i \in 1..Len(g[d]) : g[d][i] = f[d][i]
<1>1. g \in [D -> Seq(S)]
  BY StacksOfMany
<1>2. f[d] \in Seq(S) /\ g[d] = Front(f[d]) /\ \A x \in D \ {d} : g[x] = f[x]
  BY Zenon
<1>3. f[d] \in Seq(S) /\ f[d] # <<>>
  BY <1>2
<1>4. /\ Len(f[d]) \in Nat \ {0} /\ Len(Front(f[d])) = Len(f[d]) - 1
      /\ \A i \in 1..(Len(f[d]) - 1) : Front(f[d])[i] = f[d][i]
  BY <1>3, LastFront
<1> QED
  BY <1>1, <1>2, <1>4

LEMMA ExchangeTop ==
  ASSUME NEW S, NEW s \in Seq(S), s # <<>>, NEW e \in S
  PROVE  /\ Append(Front(s), e) \in Seq(S) /\ Len(Append(Front(s), e)) = Len(s)
         /\ \A i \in 1..(Len(s) - 1) : Append(Front(s), e)[i] = s[i]
         /\ Append(Front(s), e)[Len(s)] = e
<1>1. Front(s) \in Seq(S) /\ Len(Front(s)) = Len(s) - 1 /\ Len(s) \in Nat \ {0}
      /\ \A i \in 1..(Len(s) - 1) : Front(s)[i] = s[i]
  BY LastFront
<1>2. /\ Append(Front(s), e) \in Seq(S)
      /\ Len(Append(Front(s), e)) = Len(s) - 1 + 1
      /\ \A i \in 1..(Len(s) - 1) : Append(Front(s), e)[i] = Front(s)[i]
      /\ Append(Front(s), e)[Len(s) - 1 + 1] = e
  BY <1>1, AppendTop
<1>3. Len(s) - 1 + 1 = Len(s)
  BY <1>1
<1> QED
  BY <1>1, <1>2, <1>3
-----------------------------------------------------------------------------
\* Numbers have a least one.
LEMMA LeastExists ==
  ASSUME NEW t \in SUBSET Nat, t # {}
  PROVE  \E least \in t : \A y \in t : least <= y
<1> DEFINE below == OpToRel(<, Nat)
<1>1. PICK least \in t : \A y \in t : ~(<<y, least>> \in below)
  <2>1. IsWellFoundedOn(below, Nat)
    BY NatLessThanWellFounded
  <2> HIDE DEF below
  <2> QED
    BY <2>1, WFMin
<1>2. \A y \in t : ~(y < least)
  BY <1>1 DEF OpToRel
<1> QED
  BY <1>2

\* Induction over the natural numbers, for the set of those that have a property.
LEMMA NatSetInduction ==
  ASSUME NEW S \in SUBSET Nat, 0 \in S, \A n \in S : n + 1 \in S
  PROVE  S = Nat
<1> SUFFICES ASSUME Nat \ S # {} PROVE FALSE
  OBVIOUS
<1>1. PICK least \in Nat \ S : \A y \in Nat \ S : least <= y
  BY LeastExists, Nat \ S \in SUBSET Nat
<1>2. least # 0 /\ least - 1 \in Nat /\ least - 1 < least
  OBVIOUS
<1>3. (least - 1) + 1 \in S
  BY <1>1, <1>2
<1> QED
  BY <1>3

\* The largest of numbers up to a bound.
LEMMA MaxOfUpTo ==
  ASSUME NEW n \in Nat, NEW t \in SUBSET (1..(n + 1)), n + 1 \in t
  PROVE  Max(t) = n + 1
<1>1. \A x \in t : (\A y \in t : x >= y) <=> x = n + 1
  OBVIOUS
<1> QED
  BY <1>1, Zenon DEF Max

LEMMA MaxUpTo ==
  ASSUME NEW i \in Nat \ {0}
  PROVE  Max(1..i) = i
<1>1. /\ i - 1 \in Nat /\ (i - 1) + 1 = i
      /\ 1..i \in SUBSET (1..((i - 1) + 1)) /\ (i - 1) + 1 \in 1..i
  OBVIOUS
<1>2. Max(1..i) = (i - 1) + 1
  BY <1>1, MaxOfUpTo, Zenon
<1> QED
  BY <1>1, <1>2

\* The first indices without the last one.
LEMMA UpTo ==
  ASSUME NEW n \in Nat, NEW i \in 1..n
  PROVE  1..i \in SUBSET (1..n) /\ 1..i # {} /\ (1..i) \ {i} = 1..(i - 1)
<1>1. i \in 1..i /\ \A j \in 1..i : j \in 1..n
  OBVIOUS
<1>2. \A j : j \in (1..i) \ {i} <=> j \in 1..(i - 1)
  OBVIOUS
<1> QED
  BY <1>1, <1>2, Zenon

\* The least of some numbers, and the largest of some up to a bound.
LEMMA MinOfSome ==
  ASSUME NEW t \in SUBSET Nat, t # {}
  PROVE  Min(t) \in t /\ \A y \in t : Min(t) <= y
<1>1. \E x \in t : \A y \in t : x <= y
  BY LeastExists
<1> QED
  BY <1>1 DEF Min

LEMMA MaxOfSome ==
  ASSUME NEW n \in Nat, NEW t \in SUBSET (1..n), t # {}
  PROVE  Max(t) \in t /\ \A y \in t : y <= Max(t)
<1> DEFINE above == {k \in Nat : \A y \in t : y <= k}
<1>1. above \in SUBSET Nat /\ n \in above
  OBVIOUS
<1>2. PICK k \in above : \A y \in above : k <= y
  BY <1>1, LeastExists
<1>3. k \in t
  <2> SUFFICES ASSUME k \notin t PROVE FALSE
    OBVIOUS
  <2>1. \A y \in t : y \in Nat \ {0} /\ y < k
    OBVIOUS
  <2>2. PICK y \in t : y \in Nat \ {0} /\ y < k
    BY <2>1
  <2>3. k - 1 \in Nat /\ k - 1 < k
    BY <2>2
  <2>4. \A x \in t : x <= k - 1
    BY <2>1
  <2>5. k - 1 \in above
    BY <2>3, <2>4
  <2> QED
    BY <1>2, <2>3, <2>5
<1>4. \E x \in t : \A y \in t : x >= y
  BY <1>3
<1>5. Max(t) \in t /\ \A y \in t : Max(t) >= y
  BY <1>4 DEF Max
<1> QED
  BY <1>5

\* iter[t] is the fold of F over the elements of s at the indices t, from the lowest up.
Folds(iter, F, base, s) ==
  \A t \in SUBSET DOMAIN s :
    iter[t] = IF t = {} THEN base ELSE F[<<iter[t \ {Max(t)}], s[Max(t)]>>]

\* The recursive function that FoldLeft is defined by exists.
LEMMA FoldExists ==
  ASSUME NEW S, NEW T, NEW F \in [S \X T -> S], NEW base \in S, NEW s \in Seq(T)
  PROVE  \E iter \in [SUBSET DOMAIN s -> S] : Folds(iter, F, base, s)
<1> DEFINE n == Len(s)
<1>0. n \in Nat /\ DOMAIN s = 1..n /\ s \in [1..n -> T]
  BY LenProperties
<1> HIDE DEF n
<1> DEFINE Works(k, iter) ==
             \A t \in SUBSET (1..k) :
               iter[t] = IF t = {} THEN base ELSE F[<<iter[t \ {Max(t)}], s[Max(t)]>>]
           Has(k) == \E iter \in [SUBSET (1..k) -> S] : Works(k, iter)
           N == {k \in Nat : k <= n => Has(k)}
<1>1. Has(0)
  <2> DEFINE it == [t \in SUBSET (1..0) |-> base]
  <2>1. it \in [SUBSET (1..0) -> S]
    OBVIOUS
  <2>2. Works(0, it)
    OBVIOUS
  <2> QED
    BY <2>1, <2>2
<1>2. ASSUME NEW k \in Nat, Has(k), k + 1 <= n PROVE Has(k + 1)
  <2>1. PICK old \in [SUBSET (1..k) -> S] : Works(k, old)
    BY <1>2
  <2> DEFINE new == [t \in SUBSET (1..(k + 1)) |->
                       IF k + 1 \in t THEN F[<<old[t \ {k + 1}], s[k + 1]>>] ELSE old[t]]
  <2>2. s[k + 1] \in T
    BY <1>0, <1>2
  <2>3. \A t \in SUBSET (1..(k + 1)) :
          /\ k + 1 \in t => t \ {k + 1} \in SUBSET (1..k)
          /\ k + 1 \notin t => t \in SUBSET (1..k)
    OBVIOUS
  <2>4. new \in [SUBSET (1..(k + 1)) -> S]
    <3>1. ASSUME NEW t \in SUBSET (1..(k + 1)), k + 1 \in t
          PROVE  F[<<old[t \ {k + 1}], s[k + 1]>>] \in S
      <4>1. old[t \ {k + 1}] \in S
        BY <2>3, <3>1
      <4> QED
        BY <2>2, <4>1
    <3>2. ASSUME NEW t \in SUBSET (1..(k + 1)), k + 1 \notin t PROVE old[t] \in S
      BY <2>3, <3>2
    <3> QED
      BY <3>1, <3>2
  <2>5. ASSUME NEW t \in SUBSET (1..k) PROVE new[t] = old[t]
    BY SMT
  <2>6. ASSUME NEW t \in SUBSET (1..(k + 1))
        PROVE  new[t] = IF t = {} THEN base ELSE F[<<new[t \ {Max(t)}], s[Max(t)]>>]
    <3>1. CASE k + 1 \in t
      <4>1. Max(t) = k + 1 /\ t # {}
        BY <3>1, MaxOfUpTo
      <4>2. new[t \ {k + 1}] = old[t \ {k + 1}]
        BY <2>3, <2>5, <3>1
      <4>3. new[t] = F[<<old[t \ {k + 1}], s[k + 1]>>]
        BY <3>1
      <4> QED
        BY <4>1, <4>2, <4>3
    <3>2. CASE t = {}
      <4>1. t \in SUBSET (1..k)
        BY <3>2
      <4>2. new[t] = old[t] /\ old[t] = base
        BY <4>1, <2>5, <2>1, <3>2
      <4> QED
        BY <3>2, <4>2
    <3>3. CASE k + 1 \notin t /\ t # {}
      <4>1. t \in SUBSET (1..k)
        BY <2>3, <3>3
      <4>2. t \ {Max(t)} \in SUBSET (1..k)
        BY <4>1
      <4>3. new[t] = old[t] /\ new[t \ {Max(t)}] = old[t \ {Max(t)}]
        BY <2>5, <4>1, <4>2
      <4>4. old[t] = F[<<old[t \ {Max(t)}], s[Max(t)]>>]
        BY <2>1, <3>3, <4>1
      <4> QED
        BY <3>3, <4>3, <4>4
    <3> QED
      BY <3>1, <3>2, <3>3
  <2> HIDE DEF new
  <2> QED
    BY <2>4, <2>6
<1>3. N = Nat
  <2> HIDE DEF Has
  <2>1. 0 \in N /\ N \in SUBSET Nat
    BY <1>1
  <2>2. ASSUME NEW k \in N PROVE k + 1 \in N
    BY <1>0, <1>2
  <2> HIDE DEF N
  <2> QED
    BY <2>1, <2>2, NatSetInduction
<1>4. Has(n)
  <2> HIDE DEF Has
  <2> QED
    BY <1>0, <1>3
<1> QED
  BY <1>0, <1>4, Zenon DEF Folds

\* Along the sequence such a fold keeps the type that each of its steps keeps.
LEMMA FoldTrace ==
  ASSUME NEW S, NEW n \in Nat, NEW iter, iter[{}] \in S,
         \A i \in 1..n : iter[1..(i - 1)] \in S => iter[1..i] \in S
  PROVE  \A i \in 0..n : iter[1..i] \in S
<1> DEFINE N == {i \in Nat : i <= n => iter[1..i] \in S}
<1>1. 0 \in N /\ N \in SUBSET Nat
  <2>1. 1..0 = {}
    OBVIOUS
  <2> QED
    BY <2>1
<1>2. ASSUME NEW i \in N PROVE i + 1 \in N
  <2> SUFFICES ASSUME i + 1 <= n PROVE iter[1..(i + 1)] \in S
    OBVIOUS
  <2>1. i + 1 \in 1..n /\ (i + 1) - 1 = i /\ iter[1..i] \in S
    OBVIOUS
  <2> QED
    BY <2>1
<1>3. N = Nat
  <2> HIDE DEF N
  <2> QED
    BY <1>1, <1>2, NatSetInduction
<1> QED
  BY <1>3
==============================================================================
