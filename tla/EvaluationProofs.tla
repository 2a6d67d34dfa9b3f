--------------------------- MODULE EvaluationProofs ---------------------------
(***************************************************************************)
(* Evaluation for any number of threads and calls nested to any depth: the *)
(* lock, the error stack, the roots of results, and whose errors a caller  *)
(* is told of, as long as no two threads change the error stack at once.   *)
(***************************************************************************)
EXTENDS Evaluation, StackLemmas, FiniteSetTheorems, TLAPS

-----------------------------------------------------------------------------
\* What an action does to the calls of its thread.

Begun(kind) ==
  [kind |-> kind, phase |-> IF kind = "evaluate" THEN "pushing" ELSE "started",
   ok |-> FALSE, cell |-> "none", error |-> {}]

LEMMA TopCall ==
  ASSUME TypeOK, NEW t \in Thread, Active(t)
  PROVE  /\ Len(calls[t]) \in Nat \ {0} /\ Top(t) = calls[t][Len(calls[t])] /\ Top(t) \in Call
BY LastFront DEF TypeOK, Active, Top

LEMMA LengthType ==
  ASSUME TypeOK, NEW t \in Thread
  PROVE  Len(calls[t]) \in Nat /\ DOMAIN calls[t] = 1..Len(calls[t])
         /\ (Active(t) <=> Len(calls[t]) > 0)
         /\ \A i \in 1..Len(calls[t]) : calls[t][i] \in Call
BY LenProperties, EmptySeq DEF TypeOK, Active

Pushes(t, c) ==
  /\ calls' \in [Thread -> Seq(Call)] /\ \A u \in Thread \ {t} : calls'[u] = calls[u]
  /\ Len(calls'[t]) = Len(calls[t]) + 1
  /\ \A i \in 1..Len(calls[t]) : calls'[t][i] = calls[t][i]
  /\ calls'[t][Len(calls[t]) + 1] = c

LEMMA StartPushes ==
  ASSUME TypeOK, NEW t \in Thread, NEW kind \in Kind, Start(t, kind)
  PROVE  Pushes(t, Begun(kind))
<1>1. Begun(kind) \in Call
  BY DEF Begun, Call, Phase, Cell
<1>2. calls' = [calls EXCEPT ![t] = Append(@, Begun(kind))] /\ calls \in [Thread -> Seq(Call)]
  BY DEF Start, Begun, TypeOK
<1> QED
  BY <1>1, <1>2, PushOnOne DEF Pushes

Exchanges(t, c) ==
  /\ calls' \in [Thread -> Seq(Call)] /\ \A u \in Thread \ {t} : calls'[u] = calls[u]
  /\ Len(calls'[t]) = Len(calls[t])
  /\ \A i \in 1..(Len(calls[t]) - 1) : calls'[t][i] = calls[t][i]
  /\ calls'[t][Len(calls[t])] = c

LEMMA ReplacedExchanges ==
  ASSUME TypeOK, NEW t \in Thread, Active(t), NEW c \in Call, calls' = Replaced(t, c)
  PROVE  Exchanges(t, c)
<1>1. calls[t] \in Seq(Call) /\ calls[t] # <<>>
  BY DEF TypeOK, Active
<1>2. Append(Front(calls[t]), c) \in Seq(Call)
  BY <1>1, ExchangeTop
<1>3. /\ calls' \in [Thread -> Seq(Call)] /\ calls'[t] = Append(Front(calls[t]), c)
      /\ \A u \in Thread \ {t} : calls'[u] = calls[u]
  BY <1>2, Zenon DEF TypeOK, Replaced
<1> QED
  BY <1>1, <1>3, ExchangeTop DEF Exchanges

Pops(t) ==
  /\ calls' \in [Thread -> Seq(Call)] /\ \A u \in Thread \ {t} : calls'[u] = calls[u]
  /\ Len(calls'[t]) = Len(calls[t]) - 1
  /\ \A i \in 1..(Len(calls[t]) - 1) : calls'[t][i] = calls[t][i]

LEMMA FinishPops ==
  ASSUME TypeOK, NEW t \in Thread, Active(t), Finish(t)
  PROVE  Pops(t)
<1>1. calls' = [calls EXCEPT ![t] = Front(@)] /\ calls \in [Thread -> Seq(Call)] /\ calls[t] # <<>>
  BY DEF Finish, TypeOK, Active
<1>2. /\ calls' \in [Thread -> Seq(Call)] /\ \A u \in Thread \ {t} : calls'[u] = calls[u]
      /\ Len(calls'[t]) = Len(calls[t]) - 1
      /\ \A i \in 1..Len(calls'[t]) : calls'[t][i] = calls[t][i]
  BY ONLY <1>1, PopFromOne, t \in Thread
<1> QED
  BY <1>2 DEF Pops

\* The collector takes cells only, and those of other threads.
Collects(t) ==
  /\ calls' \in [Thread -> Seq(Call)]
  /\ \A u \in Thread :
       /\ Len(calls'[u]) = Len(calls[u])
       /\ \A i \in 1..Len(calls[u]) :
            /\ calls'[u][i].kind = calls[u][i].kind /\ calls'[u][i].phase = calls[u][i].phase
            /\ calls'[u][i].ok = calls[u][i].ok /\ calls'[u][i].error = calls[u][i].error
            /\ \/ calls'[u][i].cell = calls[u][i].cell
               \/ u # t /\ calls[u][i].cell = "raw" /\ calls'[u][i].cell = "collected"

LEMMA CollectGarbageCollects ==
  ASSUME TypeOK, NEW t \in Thread, CollectGarbage(t)
  PROVE  Collects(t)
<1> DEFINE Taken(c) == IF c.cell = "raw" THEN [c EXCEPT !.cell = "collected"] ELSE c
           Swept(u) == [i \in DOMAIN calls[u] |-> Taken(calls[u][i])]
<1>1. \A u \in Thread : calls'[u] = IF u = t THEN calls[u] ELSE Swept(u)
  BY Zenon DEF CollectGarbage
<1>2. ASSUME NEW c \in Call PROVE Taken(c) \in Call
  BY DEF Call, Cell
<1>3. ASSUME NEW u \in Thread PROVE Swept(u) \in Seq(Call) /\ Len(Swept(u)) = Len(calls[u])
  <2>1. /\ Len(calls[u]) \in Nat /\ DOMAIN calls[u] = 1..Len(calls[u])
        /\ \A i \in 1..Len(calls[u]) : calls[u][i] \in Call
    BY LengthType
  <2>2. Swept(u) \in [1..Len(calls[u]) -> Call]
    BY <1>2, <2>1
  <2>3. Swept(u) \in Seq(Call)
    <3> HIDE DEF Swept
    <3> QED BY <2>1, <2>2, SeqDef
  <2>4. DOMAIN Swept(u) = 1..Len(calls[u])
    BY <2>1
  <2> QED
    BY <2>1, <2>3, <2>4, LenProperties
<1>4. calls' \in [Thread -> Seq(Call)]
  BY <1>1, <1>3 DEF TypeOK, CollectGarbage
<1>5. ASSUME NEW u \in Thread, u # t, NEW i \in 1..Len(calls[u])
      PROVE calls'[u][i] = Taken(calls[u][i]) /\ calls[u][i] \in Call
  BY <1>1, <1>5, LengthType
<1>6. ASSUME NEW u \in Thread, NEW i \in 1..Len(calls[u])
      PROVE calls'[u][i] = (IF u = t THEN calls[u][i] ELSE Taken(calls[u][i]))
  BY <1>1, <1>5
<1>7. ASSUME NEW c \in Call
      PROVE /\ Taken(c).kind = c.kind /\ Taken(c).phase = c.phase
            /\ Taken(c).ok = c.ok /\ Taken(c).error = c.error
            /\ Taken(c).cell = (IF c.cell = "raw" THEN "collected" ELSE c.cell)
  BY DEF Call
<1>8. \A u \in Thread : Len(calls'[u]) = Len(calls[u])
  BY <1>1, <1>3
<1> HIDE DEF Taken
<1> QED
  BY <1>4, <1>5, <1>6, <1>7, <1>8 DEF Collects

\* One of these is what every action does to the calls.
StartMove(t) ==
  /\ Active(t) => Top(t).phase = "running"
  /\ Len(calls[t]) < MaxDepth
  /\ \E kind \in Kind : Pushes(t, Begun(kind))
TopMove(t) == Active(t) /\ \E c \in Call : c.kind = Top(t).kind /\ Exchanges(t, c)
ReturnMove(t) == Active(t) /\ Top(t).phase \in {"wrapped", "popping"} /\ Pops(t)
EscapeMove(t) == Active(t) /\ Top(t).phase = "running" /\ Pops(t)
Moves(t) ==
  StartMove(t) \/ TopMove(t) \/ ReturnMove(t) \/ EscapeMove(t) \/ Collects(t) \/ UNCHANGED calls

\* The steps that move the innermost call on, and what they leave of it.
Advances(t) ==
  Push(t) \/ Enter(t) \/ Succeed(t) \/ Fail(t) \/ Report(t) \/ Wrap(t) \/ BeginPop(t)

Same(t, c) == c.kind = Top(t).kind /\ c.ok = Top(t).ok /\ c.error = Top(t).error

NewTop(t, c) ==
  \/ /\ Push(t) /\ Top(t).phase = "pushing" /\ c.phase = "started" /\ c.kind = "evaluate"
     /\ Same(t, c) /\ c.cell = Top(t).cell
  \/ /\ Enter(t) /\ Top(t).phase = "started" /\ c.phase = "running"
     /\ Same(t, c) /\ c.cell = Top(t).cell
  \/ /\ Succeed(t) /\ Top(t).phase = "running" /\ c.kind = Top(t).kind /\ c.ok
     /\ IF c.kind = "get" THEN c.phase = "wrapped" /\ c.cell = "rooted"
                          ELSE c.phase = "ran" /\ c.cell = "raw"
  \/ /\ Fail(t) /\ Top(t).phase = "running" /\ c.phase = "ran"
     /\ Same(t, c) /\ c.cell = Top(t).cell
  \/ /\ Report(t) /\ Top(t).phase = "ran" /\ c.phase = "reported"
     /\ c.kind = "evaluate" /\ Top(t).kind = "evaluate" /\ c.ok = Top(t).ok
     /\ c.error \in ErrorsFound(t) /\ c.cell = Top(t).cell
  \/ /\ Wrap(t) /\ c.phase = "wrapped" /\ Same(t, c)
     /\ IF c.kind = "evaluate" THEN Top(t).phase = "reported" ELSE Top(t).phase \in {"ran", "reported"}
     /\ c.cell = IF Top(t).cell = "raw" THEN "rooted" ELSE Top(t).cell
  \/ /\ BeginPop(t) /\ Top(t).phase = "wrapped" /\ c.phase = "popping"
     /\ Same(t, c) /\ c.cell = Top(t).cell

LEMMA ErrorsFoundType ==
  ASSUME TypeOK, NEW t \in Thread
  PROVE  ErrorsFound(t) \subseteq SUBSET Thread
<1>1. errorStack # <<>> => Last(errorStack) \in SUBSET Thread
  BY LastFront DEF TypeOK
<1> QED
  BY <1>1 DEF ErrorsFound

LEMMA TopMoves ==
  ASSUME TypeOK, NEW t \in Thread, Advances(t)
  PROVE  /\ TopMove(t) /\ Active(t)
         /\ \E c \in Call : NewTop(t, c) /\ c.kind = Top(t).kind /\ Exchanges(t, c)
<1>1. Active(t)
  BY DEF Advances, Push, Enter, Succeed, Fail, Report, Wrap, BeginPop
<1>2. Top(t) \in Call
  BY <1>1, TopCall
<1>3. ErrorsFound(t) \subseteq SUBSET Thread
  BY ErrorsFoundType
<1>4. \E c \in Call : NewTop(t, c) /\ c.kind = Top(t).kind /\ calls' = Replaced(t, c)
  <2>1. CASE Enter(t)
    BY <1>2, <2>1 DEF Enter, NewTop, Same, Call, Phase
  <2>2. CASE Succeed(t)
    <3> DEFINE c == [Top(t) EXCEPT
                       !.ok = TRUE,
                       !.phase = IF Top(t).kind = "get" THEN "wrapped" ELSE "ran",
                       !.cell = IF Top(t).kind = "get" THEN "rooted" ELSE "raw"]
    <3>1. calls' = Replaced(t, c) /\ Top(t).phase = "running"
      BY <2>2 DEF Succeed
    <3>2. /\ c \in Call /\ c.kind = Top(t).kind /\ c.ok
          /\ IF c.kind = "get" THEN c.phase = "wrapped" /\ c.cell = "rooted"
                               ELSE c.phase = "ran" /\ c.cell = "raw"
      BY <1>2 DEF Call, Phase, Cell
    <3> HIDE DEF c
    <3> QED BY <2>2, <3>1, <3>2 DEF NewTop
  <2>3. CASE Fail(t)
    BY <1>2, <2>3 DEF Fail, NewTop, Same, Call, Phase
  <2>4. CASE Report(t)
    <3>1. PICK error \in ErrorsFound(t) :
            calls' = Replaced(t, [Top(t) EXCEPT !.phase = "reported", !.error = error])
      BY <2>4 DEF Report
    <3>2. Top(t).phase = "ran" /\ Top(t).kind = "evaluate"
      BY <2>4 DEF Report
    <3> DEFINE c == [Top(t) EXCEPT !.phase = "reported", !.error = error]
    <3>3. /\ c \in Call /\ c.kind = Top(t).kind /\ c.phase = "reported" /\ c.ok = Top(t).ok
          /\ c.error = error /\ c.cell = Top(t).cell
      BY <1>2, <1>3 DEF Call, Phase
    <3> HIDE DEF c
    <3> QED BY <2>4, <3>1, <3>2, <3>3 DEF NewTop, c
  <2>5. CASE Wrap(t)
    <3> DEFINE c == [Top(t) EXCEPT !.phase = "wrapped", !.cell = IF @ = "raw" THEN "rooted" ELSE @]
    <3>1. /\ calls' = Replaced(t, c)
          /\ Top(t).phase = "reported" \/ (Top(t).phase = "ran" /\ Top(t).kind # "evaluate")
      BY <2>5 DEF Wrap
    <3>2. /\ c \in Call /\ c.phase = "wrapped" /\ Same(t, c)
          /\ c.cell = IF Top(t).cell = "raw" THEN "rooted" ELSE Top(t).cell
      BY <1>2 DEF Call, Phase, Cell, Same
    <3>3. c.kind = Top(t).kind
      BY <3>2 DEF Same
    <3> HIDE DEF c
    <3>4. NewTop(t, c)
      BY <2>5, <3>1, <3>2, <3>3 DEF NewTop
    <3> QED BY <3>1, <3>2, <3>3, <3>4
  <2>6. CASE Push(t)
    BY <1>2, <2>6 DEF Push, NewTop, Same, Call, Phase
  <2>7. CASE BeginPop(t)
    BY <1>2, <2>7 DEF BeginPop, NewTop, Same, Call, Phase
  <2> QED BY <2>1, <2>2, <2>3, <2>4, <2>5, <2>6, <2>7 DEF Advances
<1> QED
  BY <1>1, <1>4, ReplacedExchanges DEF TopMove

LEMMA StepMoves ==
  ASSUME TypeOK, NEW t \in Thread, Continue(t) \/ \E kind \in Kind : Start(t, kind)
  PROVE  Moves(t)
<1>1. CASE \E kind \in Kind : Start(t, kind)
  BY <1>1, StartPushes DEF Moves, StartMove, Start, InNativeCode
<1>2. CASE Advances(t)
  BY <1>2, TopMoves DEF Moves
<1>3. CASE Return(t)
  BY <1>3, FinishPops DEF Moves, ReturnMove, Return
<1>4. CASE Escape(t)
  BY <1>4, FinishPops DEF Moves, EscapeMove, Escape
<1>5. CASE CollectGarbage(t)
  BY <1>5, CollectGarbageCollects DEF Moves
<1>6. CASE Catch(t) \/ ConversionFails(t) \/ PerformBlock(t) \/ EndBlock(t)
  BY <1>6 DEF Catch, ConversionFails, PerformBlock, EndBlock, Moves
<1> QED
  BY <1>1, <1>2, <1>3, <1>4, <1>5, <1>6 DEF Continue, Advances

-----------------------------------------------------------------------------
\* The lock.

\* Every call but the innermost of its thread is in its script, and native code of that
\* script is what runs.
BelowTopRuns ==
  \A t \in Thread :
    /\ Len(calls[t]) <= MaxDepth
    /\ \A i \in 1..(Len(calls[t]) - 1) : calls[t][i].phase = "running"

TopRuns(t) == Active(t) => calls[t][Len(calls[t])].phase = "running"

\* How often t has entered the lock.
InScripts(t) == IF TopRuns(t) THEN Len(calls[t]) ELSE Len(calls[t]) - 1
InBlocks(t) == IF t \in inBlock THEN 1 ELSE 0
Entered(t) == InScripts(t) + InBlocks(t)

LockInv ==
  /\ \A t \in Thread :
       IF lockOwner = t THEN lockDepth = Entered(t) /\ Entered(t) > 0 ELSE Entered(t) = 0
  /\ lockOwner = NoThread => lockDepth = 0

LEMMA BelowTopOfOne ==
  ASSUME BelowTopRuns, NEW t \in Thread, \A u \in Thread \ {t} : calls'[u] = calls[u],
         Len(calls'[t]) <= MaxDepth,
         \A i \in 1..(Len(calls'[t]) - 1) : calls'[t][i].phase = "running"
  PROVE  BelowTopRuns'
<1>1. ASSUME NEW u \in Thread
      PROVE  Len(calls'[u]) <= MaxDepth /\ \A i \in 1..(Len(calls'[u]) - 1) : calls'[u][i].phase = "running"
  <2>1. CASE u = t
    BY <2>1
  <2>2. CASE u # t
    <3>1. calls'[u] = calls[u]
      BY <2>2
    <3> QED BY <3>1 DEF BelowTopRuns
  <2> QED BY <2>1, <2>2
<1> QED BY <1>1 DEF BelowTopRuns

LEMMA ShapeStep ==
  ASSUME TypeOK, BelowTopRuns, NEW t \in Thread, Moves(t)
  PROVE  BelowTopRuns' /\ calls' \in [Thread -> Seq(Call)]
<1> USE DepthAssumption
<1>1. \A u \in Thread : Len(calls[u]) \in Nat /\ (Active(u) <=> Len(calls[u]) > 0)
  BY LengthType
<1>2. Active(t) => Top(t) = calls[t][Len(calls[t])]
  BY TopCall
<1>3. CASE StartMove(t)
  <2>1. PICK kind \in Kind : Pushes(t, Begun(kind))
    BY <1>3 DEF StartMove
  <2>2. Len(calls[t]) < MaxDepth /\ (Len(calls[t]) > 0 => calls[t][Len(calls[t])].phase = "running")
    BY <1>1, <1>2, <1>3 DEF StartMove
  <2>3. /\ calls' \in [Thread -> Seq(Call)] /\ \A u \in Thread \ {t} : calls'[u] = calls[u]
        /\ Len(calls'[t]) = Len(calls[t]) + 1
        /\ \A i \in 1..Len(calls[t]) : calls'[t][i] = calls[t][i]
    BY <2>1 DEF Pushes
  <2>4. Len(calls'[t]) <= MaxDepth
    BY <1>1, <2>2, <2>3
  <2>5. ASSUME NEW i \in 1..(Len(calls'[t]) - 1) PROVE calls'[t][i].phase = "running"
    <3>1. i \in 1..(Len(calls[t]) - 1) \/ (i = Len(calls[t]) /\ Len(calls[t]) > 0)
      BY <1>1, <2>3
    <3>2. i \in 1..Len(calls[t])
      BY <1>1, <2>3
    <3>3. calls[t][i].phase = "running"
      BY <2>2, <3>1 DEF BelowTopRuns
    <3> QED BY <2>3, <3>2, <3>3
  <2> QED BY <2>3, <2>4, <2>5, BelowTopOfOne
<1>4. CASE TopMove(t)
  <2>1. PICK c \in Call : Exchanges(t, c)
    BY <1>4 DEF TopMove
  <2>2. /\ calls' \in [Thread -> Seq(Call)] /\ \A u \in Thread \ {t} : calls'[u] = calls[u]
        /\ Len(calls'[t]) = Len(calls[t])
        /\ \A i \in 1..(Len(calls[t]) - 1) : calls'[t][i] = calls[t][i]
    BY <2>1 DEF Exchanges
  <2>3. Len(calls'[t]) <= MaxDepth
    BY <2>2 DEF BelowTopRuns
  <2>4. \A i \in 1..(Len(calls'[t]) - 1) : calls'[t][i].phase = "running"
    BY <2>2 DEF BelowTopRuns
  <2> QED
    BY <2>2, <2>3, <2>4, BelowTopOfOne
<1>5. CASE ReturnMove(t) \/ EscapeMove(t)
  <2>1. Len(calls[t]) > 0 /\ Pops(t)
    BY <1>1, <1>5 DEF ReturnMove, EscapeMove
  <2>2. Len(calls[t]) <= MaxDepth /\ Len(calls'[t]) = Len(calls[t]) - 1 /\ Len(calls[t]) \in Nat
    BY <1>1, <2>1 DEF Pops, BelowTopRuns
  <2>3. Len(calls'[t]) <= MaxDepth /\ \A i \in 1..(Len(calls'[t]) - 1) : i \in 1..(Len(calls[t]) - 1)
    BY <2>2
  <2>4. \A i \in 1..(Len(calls[t]) - 1) : calls'[t][i].phase = "running"
    BY <2>1 DEF Pops, BelowTopRuns
  <2>5. calls' \in [Thread -> Seq(Call)] /\ \A u \in Thread \ {t} : calls'[u] = calls[u]
    BY <2>1 DEF Pops
  <2>6. \A i \in 1..(Len(calls'[t]) - 1) : calls'[t][i].phase = "running"
    BY <2>3, <2>4
  <2> QED
    BY <2>3, <2>5, <2>6, BelowTopOfOne
<1>6. CASE Collects(t)
  <2>1. /\ calls' \in [Thread -> Seq(Call)]
        /\ \A u \in Thread : Len(calls'[u]) = Len(calls[u])
        /\ \A u \in Thread : \A i \in 1..Len(calls[u]) : calls'[u][i].phase = calls[u][i].phase
    BY <1>6 DEF Collects
  <2>2. ASSUME NEW u \in Thread
        PROVE  Len(calls'[u]) <= MaxDepth /\ \A i \in 1..(Len(calls'[u]) - 1) : calls'[u][i].phase = "running"
    <3>1. Len(calls'[u]) = Len(calls[u]) /\ Len(calls[u]) \in Nat /\ Len(calls[u]) <= MaxDepth
      BY <1>1, <2>1 DEF BelowTopRuns
    <3>2. ASSUME NEW i \in 1..(Len(calls'[u]) - 1) PROVE calls'[u][i].phase = "running"
      <4>1. i \in 1..Len(calls[u]) /\ i \in 1..(Len(calls[u]) - 1)
        BY <3>1
      <4>2. calls[u][i].phase = "running"
        BY <4>1 DEF BelowTopRuns
      <4> QED BY <2>1, <4>1, <4>2
    <3> QED BY <3>1, <3>2
  <2> QED
    BY <2>1, <2>2 DEF BelowTopRuns
<1>7. CASE UNCHANGED calls
  BY <1>7 DEF BelowTopRuns, TypeOK
<1> QED
  BY <1>3, <1>4, <1>5, <1>6, <1>7 DEF Moves

LEMMA EnteredType ==
  ASSUME TypeOK, NEW t \in Thread
  PROVE  InScripts(t) \in Nat /\ InBlocks(t) \in {0, 1} /\ Entered(t) \in Nat
<1>1. Len(calls[t]) \in Nat /\ (Active(t) <=> Len(calls[t]) > 0)
  BY LengthType
<1>2. ~TopRuns(t) => Len(calls[t]) > 0
  BY <1>1 DEF TopRuns
<1>3. InScripts(t) \in Nat
  BY <1>1, <1>2 DEF InScripts
<1>4. InBlocks(t) \in {0, 1}
  BY DEF InBlocks
<1> QED
  BY <1>3, <1>4 DEF Entered

LEMMA Locked ==
  ASSUME TypeOK, LockInv, NEW t \in Thread, Acquire(t), Entered(t)' = Entered(t) + 1,
         \A u \in Thread \ {t} : Entered(u)' = Entered(u)
  PROVE  LockInv' /\ lockDepth' \in Nat /\ lockOwner' \in Thread
<1>1. \A u \in Thread : Entered(u) \in Nat
  BY EnteredType
<1>2. t # NoThread /\ NoThread \notin Thread
  BY ThreadAssumption
<1> QED
  BY <1>1, <1>2 DEF LockInv, Acquire, CanLock, TypeOK

LEMMA Unlocked ==
  ASSUME TypeOK, LockInv, NEW t \in Thread, ReleaseLock, Entered(t) > 0,
         Entered(t)' = Entered(t) - 1,
         \A u \in Thread \ {t} : Entered(u)' = Entered(u)
  PROVE  LockInv' /\ lockDepth' \in Nat /\ lockOwner' \in Thread \cup {NoThread}
<1>1. \A u \in Thread : Entered(u) \in Nat
  BY EnteredType
<1>2. t # NoThread /\ NoThread \notin Thread
  BY ThreadAssumption
<1>3. lockOwner = t /\ lockDepth = Entered(t)
  BY DEF LockInv
<1> QED
  BY <1>1, <1>2, <1>3 DEF LockInv, ReleaseLock, TypeOK

LEMMA Kept ==
  ASSUME LockInv, UNCHANGED <<lockOwner, lockDepth>>, \A u \in Thread : Entered(u)' = Entered(u)
  PROVE  LockInv'
BY DEF LockInv

\* Other threads have entered as often as before.
LEMMA OthersEntered ==
  ASSUME TypeOK, NEW t \in Thread, Moves(t), inBlock' \ {t} = inBlock \ {t}, NEW u \in Thread \ {t}
  PROVE  Entered(u)' = Entered(u)
<1>1. InBlocks(u)' = InBlocks(u)
  BY DEF InBlocks
<1>2. ASSUME calls'[u] = calls[u] PROVE InScripts(u)' = InScripts(u)
  BY <1>2 DEF InScripts, TopRuns, Active
<1>3. ASSUME Collects(t) PROVE InScripts(u)' = InScripts(u)
  <2>1. /\ Len(calls[u]) \in Nat /\ calls[u] \in Seq(Call)
        /\ Len(calls'[u]) = Len(calls[u]) /\ calls'[u] \in Seq(Call)
        /\ \A i \in 1..Len(calls[u]) : calls'[u][i].phase = calls[u][i].phase
    BY <1>3, LengthType DEF Collects, TypeOK
  <2>2. Active(u) <=> Len(calls[u]) > 0
    BY LengthType
  <2>3. Active(u)' <=> Active(u)
    BY <2>1, <2>2, EmptySeq DEF Active
  <2>4. Active(u) => calls'[u][Len(calls[u])].phase = calls[u][Len(calls[u])].phase
    BY <2>1, <2>2
  <2>5. TopRuns(u)' <=> TopRuns(u)
    BY <2>1, <2>3, <2>4 DEF TopRuns
  <2> QED
    BY <2>1, <2>5 DEF InScripts
<1>4. Collects(t) \/ calls'[u] = calls[u]
  BY DEF Moves, StartMove, TopMove, ReturnMove, EscapeMove, Pushes, Exchanges, Pops
<1> QED
  BY <1>1, <1>2, <1>3, <1>4 DEF Entered

\* How often t itself has entered, after each move.
LEMMA OwnEntered ==
  ASSUME TypeOK, BelowTopRuns, NEW t \in Thread
  PROVE  /\ StartMove(t) => InScripts(t)' = InScripts(t)
         /\ \A c \in Call : Active(t) /\ Exchanges(t, c) =>
              InScripts(t)' = (IF c.phase = "running" THEN Len(calls[t]) ELSE Len(calls[t]) - 1)
         /\ ReturnMove(t) => InScripts(t)' = InScripts(t)
         /\ EscapeMove(t) => InScripts(t)' = InScripts(t) - 1
         /\ Collects(t) => InScripts(t)' = InScripts(t)
<1>1. /\ Len(calls[t]) \in Nat /\ calls[t] \in Seq(Call)
      /\ Active(t) <=> Len(calls[t]) > 0
  BY LengthType DEF TypeOK
<1>2. calls' \in [Thread -> Seq(Call)] => (Active(t)' <=> Len(calls'[t]) > 0)
  <2>1. calls' \in [Thread -> Seq(Call)] => calls'[t] \in Seq(Call)
    OBVIOUS
  <2> QED BY <2>1, EmptySeq, LenProperties DEF Active
<1>3. ASSUME StartMove(t) PROVE InScripts(t)' = InScripts(t)
  <2>1. PICK kind \in Kind : Pushes(t, Begun(kind))
    BY <1>3 DEF StartMove
  <2>2. /\ Len(calls'[t]) = Len(calls[t]) + 1 /\ Active(t)'
        /\ calls'[t][Len(calls'[t])].phase # "running"
    BY <1>1, <1>2, <2>1 DEF Pushes, Begun
  <2>3. ~TopRuns(t)'
    BY <2>2 DEF TopRuns
  <2>4. TopRuns(t)
    BY <1>3, TopCall DEF StartMove, TopRuns
  <2> QED BY <1>1, <2>2, <2>3, <2>4 DEF InScripts
<1>4. ASSUME NEW c \in Call, Active(t), Exchanges(t, c)
      PROVE  InScripts(t)' = (IF c.phase = "running" THEN Len(calls[t]) ELSE Len(calls[t]) - 1)
  <2>1. Active(t)' /\ Len(calls'[t]) = Len(calls[t]) /\ calls'[t][Len(calls'[t])] = c
    BY <1>1, <1>2, <1>4 DEF Exchanges
  <2>2. TopRuns(t)' <=> c.phase = "running"
    BY <2>1 DEF TopRuns
  <2> QED BY <2>1, <2>2 DEF InScripts
<1>5. ASSUME ReturnMove(t) PROVE InScripts(t)' = InScripts(t)
  <2>1. /\ Active(t) /\ Top(t).phase # "running" /\ calls' \in [Thread -> Seq(Call)]
        /\ Len(calls'[t]) = Len(calls[t]) - 1
        /\ \A i \in 1..(Len(calls[t]) - 1) : calls'[t][i] = calls[t][i]
    BY <1>5 DEF ReturnMove, Pops
  <2>2. ~TopRuns(t)
    BY <2>1, TopCall DEF TopRuns
  <2>3. Len(calls'[t]) > 0 => calls'[t][Len(calls'[t])].phase = "running"
    BY <1>1, <2>1 DEF BelowTopRuns
  <2>4. TopRuns(t)'
    BY <1>2, <2>1, <2>3 DEF TopRuns
  <2> QED BY <1>1, <2>1, <2>2, <2>4 DEF InScripts
<1>6. ASSUME Collects(t) PROVE InScripts(t)' = InScripts(t)
  <2>1. /\ calls' \in [Thread -> Seq(Call)] /\ Len(calls'[t]) = Len(calls[t])
        /\ \A i \in 1..Len(calls[t]) : calls'[t][i].phase = calls[t][i].phase
    BY <1>6 DEF Collects
  <2>2. Active(t) => calls'[t][Len(calls'[t])].phase = calls[t][Len(calls[t])].phase
    BY <1>1, <2>1
  <2>3. TopRuns(t)' <=> TopRuns(t)
    BY <1>1, <1>2, <2>1, <2>2 DEF TopRuns
  <2> QED BY <2>1, <2>3 DEF InScripts
<1>7. ASSUME EscapeMove(t) PROVE InScripts(t)' = InScripts(t) - 1
  <2>1. /\ Active(t) /\ Top(t).phase = "running" /\ calls' \in [Thread -> Seq(Call)]
        /\ Len(calls'[t]) = Len(calls[t]) - 1
        /\ \A i \in 1..(Len(calls[t]) - 1) : calls'[t][i] = calls[t][i]
    BY <1>7 DEF EscapeMove, Pops
  <2>2. TopRuns(t)
    BY <2>1, TopCall DEF TopRuns
  <2>3. Len(calls'[t]) > 0 => calls'[t][Len(calls'[t])].phase = "running"
    BY <1>1, <2>1 DEF BelowTopRuns
  <2>4. TopRuns(t)'
    BY <1>2, <2>1, <2>3 DEF TopRuns
  <2> QED BY <1>1, <2>1, <2>2, <2>4 DEF InScripts
<1> QED
  BY <1>3, <1>4, <1>5, <1>6, <1>7

LEMMA LockStep ==
  ASSUME TypeOK, BelowTopRuns, LockInv, NEW t \in Thread,
         Continue(t) \/ \E kind \in Kind : Start(t, kind)
  PROVE  LockInv' /\ lockDepth' \in Nat /\ lockOwner' \in Thread \cup {NoThread}
<1>1. Moves(t)
  BY StepMoves
<1>2. /\ Len(calls[t]) \in Nat /\ InScripts(t) \in Nat /\ InBlocks(t) \in {0, 1}
      /\ Active(t) <=> Len(calls[t]) > 0
  BY EnteredType, LengthType
<1>3. inBlock' \ {t} = inBlock \ {t}
  BY DEF Continue, Start, Push, Enter, Catch, ConversionFails, Succeed, Fail, Escape, Report, Wrap,
         BeginPop, Return, CollectGarbage, PerformBlock, EndBlock
<1>4. \A u \in Thread \ {t} : Entered(u)' = Entered(u)
  BY <1>1, <1>3, OthersEntered
<1>5. Active(t) => Len(calls[t]) > 0 /\ (TopRuns(t) <=> Top(t).phase = "running")
  BY <1>2, TopCall DEF TopRuns
<1>6. ASSUME UNCHANGED <<lockOwner, lockDepth>>, Entered(t)' = Entered(t)
      PROVE  LockInv' /\ lockDepth' \in Nat /\ lockOwner' \in Thread \cup {NoThread}
  BY <1>4, <1>6, Kept DEF TypeOK
<1>7. UNCHANGED inBlock => InBlocks(t)' = InBlocks(t)
  BY DEF InBlocks
<1>8. CASE \E kind \in Kind : Start(t, kind)
  <2>1. StartMove(t) /\ UNCHANGED <<lockOwner, lockDepth, inBlock>>
    BY <1>8, StartPushes DEF StartMove, Start, InNativeCode
  <2> QED BY <1>6, <1>7, <2>1, OwnEntered DEF Entered
<1>9. CASE Advances(t)
  <2>1. PICK c \in Call : NewTop(t, c) /\ Exchanges(t, c)
    BY <1>9, TopMoves
  <2>2. Active(t)
    BY <1>9, TopMoves
  <2>3. CASE Enter(t) /\ Top(t).phase = "started" /\ c.phase = "running"
    <3>1. Acquire(t) /\ UNCHANGED inBlock
      BY <2>3 DEF Enter
    <3>2. InScripts(t)' = Len(calls[t]) /\ InScripts(t) = Len(calls[t]) - 1
      BY <1>5, <2>1, <2>2, <2>3, OwnEntered DEF InScripts
    <3>3. Entered(t)' = Entered(t) + 1
      BY <1>2, <1>7, <3>1, <3>2 DEF Entered
    <3> QED BY <1>4, <3>1, <3>3, Locked
  <2>4. CASE (Succeed(t) \/ Fail(t)) /\ Top(t).phase = "running" /\ c.phase # "running"
    <3>1. ReleaseLock /\ UNCHANGED inBlock
      BY <2>4 DEF Succeed, Fail
    <3>2. InScripts(t)' = Len(calls[t]) - 1 /\ InScripts(t) = Len(calls[t])
      BY <1>5, <2>1, <2>2, <2>4, OwnEntered DEF InScripts
    <3>3. Entered(t)' = Entered(t) - 1 /\ Entered(t) > 0
      BY <1>2, <1>5, <1>7, <2>2, <3>1, <3>2 DEF Entered
    <3> QED BY <1>4, <3>1, <3>3, Unlocked
  <2>5. CASE /\ Push(t) \/ Report(t) \/ Wrap(t) \/ BeginPop(t)
             /\ Top(t).phase # "running" /\ c.phase # "running"
    <3>1. UNCHANGED <<lockOwner, lockDepth, inBlock>>
      BY <2>5 DEF Push, Report, Wrap, BeginPop
    <3>2. InScripts(t)' = Len(calls[t]) - 1 /\ InScripts(t) = Len(calls[t]) - 1
      BY <1>5, <2>1, <2>2, <2>5, OwnEntered DEF InScripts
    <3> QED BY <1>6, <1>7, <3>1, <3>2 DEF Entered
  <2>6. \/ Enter(t) /\ Top(t).phase = "started" /\ c.phase = "running"
        \/ (Succeed(t) \/ Fail(t)) /\ Top(t).phase = "running" /\ c.phase # "running"
        \/ /\ Push(t) \/ Report(t) \/ Wrap(t) \/ BeginPop(t)
           /\ Top(t).phase # "running" /\ c.phase # "running"
    BY <2>1 DEF NewTop
  <2> QED BY <2>3, <2>4, <2>5, <2>6
<1>10. CASE Escape(t)
  <2>1. EscapeMove(t) /\ Active(t) /\ ReleaseLock /\ UNCHANGED inBlock /\ Top(t).phase = "running"
    BY <1>10, FinishPops DEF EscapeMove, Escape
  <2>2. InScripts(t)' = InScripts(t) - 1 /\ InScripts(t) = Len(calls[t])
    BY <1>5, <2>1, OwnEntered DEF InScripts
  <2>3. Entered(t)' = Entered(t) - 1 /\ Entered(t) > 0
    BY <1>2, <1>5, <1>7, <2>1, <2>2 DEF Entered
  <2> QED BY <1>4, <2>1, <2>3, Unlocked
<1>12. CASE Return(t) \/ CollectGarbage(t)
  <2>1. ReturnMove(t) \/ Collects(t)
    BY <1>12, FinishPops, CollectGarbageCollects DEF ReturnMove, Return
  <2>2. UNCHANGED <<lockOwner, lockDepth, inBlock>>
    BY <1>12 DEF Return, CollectGarbage
  <2> QED BY <1>6, <1>7, <2>1, <2>2, OwnEntered DEF Entered
<1>13. CASE Catch(t) \/ ConversionFails(t)
  <2>1. UNCHANGED <<lockOwner, lockDepth, inBlock, calls>>
    BY <1>13 DEF Catch, ConversionFails
  <2>2. Entered(t)' = Entered(t)
    BY <2>1 DEF Entered, InScripts, InBlocks, TopRuns, Active
  <2> QED BY <1>6, <2>1, <2>2
<1>14. CASE PerformBlock(t) \/ EndBlock(t)
  <2>1. UNCHANGED calls /\ ~Active(t)
    BY <1>14 DEF PerformBlock, EndBlock
  <2>2. InScripts(t)' = InScripts(t)
    BY <2>1 DEF InScripts, TopRuns, Active
  <2>3. CASE PerformBlock(t)
    <3>1. InBlocks(t)' = InBlocks(t) + 1 /\ Acquire(t)
      BY <2>3 DEF PerformBlock, InBlocks
    <3>2. Entered(t)' = Entered(t) + 1
      BY <1>2, <2>2, <3>1 DEF Entered
    <3> QED BY <1>4, <3>1, <3>2, Locked
  <2>4. CASE EndBlock(t)
    <3>1. InBlocks(t)' = InBlocks(t) - 1 /\ InBlocks(t) = 1 /\ ReleaseLock
      BY <2>4 DEF EndBlock, InBlocks
    <3>2. Entered(t)' = Entered(t) - 1 /\ Entered(t) > 0
      BY <1>2, <2>2, <3>1 DEF Entered
    <3> QED BY <1>4, <3>1, <3>2, Unlocked
  <2> QED BY <1>14, <2>3, <2>4
<1> QED
  BY <1>8, <1>9, <1>10, <1>12, <1>13, <1>14 DEF Continue, Advances

-----------------------------------------------------------------------------
\* The error stack.

IsEntry(u, i) == /\ i \in 1..Len(calls[u])
                 /\ calls[u][i].kind = "evaluate" /\ calls[u][i].phase # "pushing"

\* The evaluations in progress that have pushed.
Entries ==
  {p \in Thread \X (1..MaxDepth) :
     /\ p[2] \in DOMAIN calls[p[1]]
     /\ calls[p[1]][p[2]].kind = "evaluate" /\ calls[p[1]][p[2]].phase # "pushing"}

BalanceInv ==
  /\ IsFiniteSet(Entries)
  /\ ~torn => Len(errorStack) = left + Cardinality(Entries)
  /\ ~escaped => left = 0

LEMMA EntriesAre ==
  ASSUME TypeOK, BelowTopRuns
  PROVE  /\ Entries \subseteq Thread \X Nat
         /\ \A u \in Thread, i \in Nat : <<u, i>> \in Entries <=> IsEntry(u, i)
<1>1. ASSUME NEW u \in Thread, NEW i \in Nat PROVE <<u, i>> \in Entries <=> IsEntry(u, i)
  <2>1. Len(calls[u]) \in Nat /\ DOMAIN calls[u] = 1..Len(calls[u]) /\ Len(calls[u]) <= MaxDepth
    BY LengthType DEF BelowTopRuns
  <2>2. i \in 1..Len(calls[u]) => i \in 1..MaxDepth
    BY <2>1, DepthAssumption
  <2> QED BY <2>1, <2>2 DEF Entries, IsEntry
<1>2. Entries \subseteq Thread \X Nat
  BY DepthAssumption DEF Entries
<1> QED BY <1>1, <1>2

LEMMA EntriesAfter ==
  ASSUME TypeOK', BelowTopRuns'
  PROVE  /\ Entries' \subseteq Thread \X Nat
         /\ \A u \in Thread, i \in Nat : <<u, i>> \in Entries' <=> IsEntry(u, i)'
<1>1. ASSUME NEW u \in Thread, NEW i \in Nat PROVE <<u, i>> \in Entries' <=> IsEntry(u, i)'
  <2>1. /\ Len(calls'[u]) \in Nat /\ DOMAIN calls'[u] = 1..Len(calls'[u])
        /\ Len(calls'[u]) <= MaxDepth
    BY LenProperties DEF TypeOK, BelowTopRuns
  <2>2. i \in 1..Len(calls'[u]) => i \in 1..MaxDepth
    BY <2>1, DepthAssumption
  <2> QED BY <2>1, <2>2 DEF Entries, IsEntry
<1>2. Entries' \subseteq Thread \X Nat
  BY DepthAssumption DEF Entries
<1> QED BY <1>1, <1>2

\* What a step of t does to the entries: t gets one, loses one, or none changes.
Keeps == \A u \in Thread, i \in Nat : IsEntry(u, i)' <=> IsEntry(u, i)
Gains(t) == /\ ~IsEntry(t, Len(calls[t]))
            /\ \A u \in Thread, i \in Nat :
                 IsEntry(u, i)' <=> IsEntry(u, i) \/ (u = t /\ i = Len(calls[t]))
Loses(t) == /\ IsEntry(t, Len(calls[t]))
            /\ \A u \in Thread, i \in Nat :
                 IsEntry(u, i)' <=> IsEntry(u, i) /\ ~(u = t /\ i = Len(calls[t]))

LEMMA ExchangeEntries ==
  ASSUME TypeOK, NEW t \in Thread, Active(t), NEW c \in Call, Exchanges(t, c), c.kind = Top(t).kind
  PROVE  /\ (Top(t).phase # "pushing" /\ c.phase # "pushing") => Keeps
         /\ (c.kind = "evaluate" /\ Top(t).phase = "pushing" /\ c.phase # "pushing") => Gains(t)
         /\ c.kind # "evaluate" => Keeps
<1>1. /\ Len(calls[t]) \in Nat \ {0} /\ Top(t) = calls[t][Len(calls[t])]
  BY TopCall
<1>2. \A i \in Nat : i \in 1..Len(calls[t]) <=> i \in 1..(Len(calls[t]) - 1) \/ i = Len(calls[t])
  BY <1>1
<1>3. /\ \A u \in Thread \ {t} : calls'[u] = calls[u]
      /\ Len(calls'[t]) = Len(calls[t])
      /\ \A i \in 1..(Len(calls[t]) - 1) : calls'[t][i] = calls[t][i]
      /\ calls'[t][Len(calls[t])] = c
  BY DEF Exchanges
<1>4. \A u \in Thread \ {t}, i \in Nat : IsEntry(u, i)' <=> IsEntry(u, i)
  BY <1>3 DEF IsEntry
<1>5. \A i \in Nat : i # Len(calls[t]) => (IsEntry(t, i)' <=> IsEntry(t, i))
  BY <1>2, <1>3 DEF IsEntry
<1>6. IsEntry(t, Len(calls[t])) <=> Top(t).kind = "evaluate" /\ Top(t).phase # "pushing"
  BY <1>1 DEF IsEntry
<1>7. LET n == Len(calls[t]) IN
      \A i \in Nat : i = n => (IsEntry(t, i)' <=> c.kind = "evaluate" /\ c.phase # "pushing")
  BY <1>1, <1>3 DEF IsEntry
<1>8. \A i \in Nat : i = Len(calls[t]) =>
        (IsEntry(t, i) <=> c.kind = "evaluate" /\ Top(t).phase # "pushing")
  BY <1>6
<1>9. ASSUME (Top(t).phase # "pushing" /\ c.phase # "pushing") \/ c.kind # "evaluate" PROVE Keeps
  <2>1. ASSUME NEW u \in Thread, NEW i \in Nat PROVE IsEntry(u, i)' <=> IsEntry(u, i)
    <3>1. CASE u # t
      BY <1>4, <3>1
    <3>2. CASE u = t /\ i # Len(calls[t])
      BY <1>5, <3>2
    <3>3. CASE u = t /\ i = Len(calls[t])
      BY <1>7, <1>8, <1>9, <3>3
    <3> QED BY <3>1, <3>2, <3>3
  <2> QED BY <2>1 DEF Keeps
<1>10. ASSUME c.kind = "evaluate", Top(t).phase = "pushing", c.phase # "pushing" PROVE Gains(t)
  <2>1. ASSUME NEW u \in Thread, NEW i \in Nat
        PROVE  IsEntry(u, i)' <=> IsEntry(u, i) \/ (u = t /\ i = Len(calls[t]))
    <3>1. CASE u # t
      BY <1>4, <3>1
    <3>2. CASE u = t /\ i # Len(calls[t])
      BY <1>5, <3>2
    <3>3. CASE u = t /\ i = Len(calls[t])
      BY <1>7, <1>10, <3>3
    <3> QED BY <3>1, <3>2, <3>3
  <2>2. ~IsEntry(t, Len(calls[t]))
    BY <1>6, <1>10
  <2> QED BY <2>1, <2>2 DEF Gains
<1> QED BY <1>9, <1>10

LEMMA PopEntries ==
  ASSUME TypeOK, NEW t \in Thread, Active(t), Top(t).phase # "pushing", Pops(t)
  PROVE  IF Top(t).kind = "evaluate" THEN Loses(t) ELSE Keeps
<1>1. /\ Len(calls[t]) \in Nat \ {0} /\ Top(t) = calls[t][Len(calls[t])]
  BY TopCall
<1>2. \A i \in Nat : i \in 1..(Len(calls[t]) - 1) <=> i \in 1..Len(calls[t]) /\ i # Len(calls[t])
  BY <1>1
<1>3. /\ \A u \in Thread \ {t} : calls'[u] = calls[u]
      /\ Len(calls'[t]) = Len(calls[t]) - 1
      /\ \A i \in 1..(Len(calls[t]) - 1) : calls'[t][i] = calls[t][i]
  BY DEF Pops
<1>4. \A u \in Thread \ {t}, i \in Nat : IsEntry(u, i)' <=> IsEntry(u, i)
  BY <1>3 DEF IsEntry
<1>5. \A i \in Nat : IsEntry(t, i)' <=> IsEntry(t, i) /\ i # Len(calls[t])
  BY <1>2, <1>3 DEF IsEntry
<1>6. IsEntry(t, Len(calls[t])) <=> Top(t).kind = "evaluate"
  BY <1>1 DEF IsEntry
<1> QED BY <1>1, <1>4, <1>5, <1>6 DEF Loses, Keeps

LEMMA OtherEntries ==
  ASSUME TypeOK, NEW t \in Thread
  PROVE  /\ StartMove(t) => Keeps
         /\ Collects(t) => Keeps
         /\ UNCHANGED calls => Keeps
<1>1. \A u \in Thread : Len(calls[u]) \in Nat
  BY LengthType
<1>2. ASSUME StartMove(t) PROVE Keeps
  <2>1. PICK kind \in Kind : Pushes(t, Begun(kind))
    BY <1>2 DEF StartMove
  <2>2. /\ \A u \in Thread \ {t} : calls'[u] = calls[u]
        /\ Len(calls'[t]) = Len(calls[t]) + 1
        /\ \A i \in 1..Len(calls[t]) : calls'[t][i] = calls[t][i]
        /\ calls'[t][Len(calls[t]) + 1] = Begun(kind)
    BY <2>1 DEF Pushes
  <2>3. \A i \in Nat : i \in 1..(Len(calls[t]) + 1) <=> i \in 1..Len(calls[t]) \/ i = Len(calls[t]) + 1
    BY <1>1
  <2>4. ~(Begun(kind).kind = "evaluate" /\ Begun(kind).phase # "pushing")
    BY DEF Begun
  <2>5. \A i \in Nat : IsEntry(t, i)' <=> IsEntry(t, i)
    BY <1>1, <2>2, <2>3, <2>4 DEF IsEntry
  <2>6. \A u \in Thread \ {t}, i \in Nat : IsEntry(u, i)' <=> IsEntry(u, i)
    BY <2>2 DEF IsEntry
  <2> QED BY <2>5, <2>6 DEF Keeps
<1>3. ASSUME Collects(t) PROVE Keeps
  BY <1>3 DEF Collects, Keeps, IsEntry
<1>4. ASSUME UNCHANGED calls PROVE Keeps
  BY <1>4 DEF Keeps, IsEntry
<1> QED BY <1>2, <1>3, <1>4

\* What happens to the error stack and to the entries.
ErrorMoves(t) ==
  \/ Keeps /\ BeginChange(t) /\ UNCHANGED <<left, escaped>>
  \/ Keeps /\ AddError(t) /\ UNCHANGED <<torn, left, escaped>>
  \/ Keeps /\ UNCHANGED <<errorStack, torn, left, escaped>>
  \/ /\ Gains(t) /\ UNCHANGED <<torn, left, escaped>>
     /\ errorStack' = IF torn THEN errorStack ELSE Append(errorStack, {})
  \/ /\ Loses(t) /\ UNCHANGED <<torn, left, escaped>>
     /\ errorStack' = IF errorStack = <<>> THEN errorStack ELSE Front(errorStack)
  \/ /\ Loses(t) /\ UNCHANGED <<errorStack, torn>> /\ left' = left + 1 /\ left' <= MaxLeft /\ escaped'
  \/ Keeps /\ UNCHANGED <<errorStack, torn, left>> /\ escaped'

LEMMA ErrorsMove ==
  ASSUME TypeOK, NEW t \in Thread, Continue(t) \/ \E kind \in Kind : Start(t, kind)
  PROVE  ErrorMoves(t)
<1>1. CASE \E kind \in Kind : Start(t, kind)
  <2>1. StartMove(t)
    BY <1>1, StartPushes DEF StartMove, Start, InNativeCode
  <2>2. Keeps
    BY <2>1, OtherEntries
  <2>3. /\ BeginChange(t) \/ UNCHANGED <<torn, errorStack>>
        /\ UNCHANGED <<left, escaped>>
    BY <1>1 DEF Start
  <2> QED BY <2>2, <2>3 DEF ErrorMoves
<1>2. CASE Advances(t)
  <2>1. PICK c \in Call : NewTop(t, c) /\ c.kind = Top(t).kind /\ Exchanges(t, c)
    BY <1>2, TopMoves
  <2>2. Active(t)
    BY <1>2, TopMoves
  <2>3. CASE Push(t) /\ Top(t).phase = "pushing" /\ c.phase = "started" /\ c.kind = "evaluate"
    <3>2. Gains(t)
      BY <2>1, <2>2, <2>3, ExchangeEntries
    <3>3. /\ UNCHANGED <<torn, left, escaped>>
          /\ errorStack' = IF torn THEN errorStack ELSE Append(errorStack, {})
      BY <2>3 DEF Push
    <3> QED BY <3>2, <3>3 DEF ErrorMoves
  <2>4. CASE (Succeed(t) \/ Fail(t)) /\ Top(t).phase # "pushing" /\ c.phase # "pushing"
    <3>1. Keeps
      BY <2>1, <2>2, <2>4, ExchangeEntries
    <3>2. (AddError(t) \/ UNCHANGED errorStack) /\ UNCHANGED <<torn, left, escaped>>
      BY <2>4 DEF Succeed, Fail, LeaveScript
    <3> QED BY <3>1, <3>2 DEF ErrorMoves
  <2>5. CASE (Enter(t) \/ Report(t) \/ Wrap(t)) /\ Top(t).phase # "pushing" /\ c.phase # "pushing"
    <3>1. Keeps
      BY <2>1, <2>2, <2>5, ExchangeEntries
    <3>2. UNCHANGED <<errorStack, torn, left, escaped>>
      BY <2>5 DEF Enter, Report, Wrap
    <3> QED BY <3>1, <3>2 DEF ErrorMoves
  <2>6. CASE BeginPop(t) /\ Top(t).phase # "pushing" /\ c.phase # "pushing"
    <3>1. Keeps
      BY <2>1, <2>2, <2>6, ExchangeEntries
    <3>2. BeginChange(t) /\ UNCHANGED <<left, escaped>>
      BY <2>6 DEF BeginPop
    <3> QED BY <3>1, <3>2 DEF ErrorMoves
  <2>7. \/ Push(t) /\ Top(t).phase = "pushing" /\ c.phase = "started" /\ c.kind = "evaluate"
        \/ (Succeed(t) \/ Fail(t)) /\ Top(t).phase # "pushing" /\ c.phase # "pushing"
        \/ (Enter(t) \/ Report(t) \/ Wrap(t)) /\ Top(t).phase # "pushing" /\ c.phase # "pushing"
        \/ BeginPop(t) /\ Top(t).phase # "pushing" /\ c.phase # "pushing"
    BY <2>1 DEF NewTop
  <2> QED BY <2>3, <2>4, <2>5, <2>6, <2>7
<1>3. CASE Return(t)
  <2>1. Active(t) /\ Pops(t) /\ Top(t).phase # "pushing" /\ UNCHANGED <<torn, left, escaped>>
    BY <1>3, FinishPops DEF Return
  <2>2. IF Top(t).kind = "evaluate" THEN Loses(t) ELSE Keeps
    BY <2>1, PopEntries
  <2>3. \/ Top(t).kind # "evaluate" /\ UNCHANGED errorStack
        \/ /\ Top(t).kind = "evaluate"
           /\ errorStack' = IF errorStack = <<>> THEN errorStack ELSE Front(errorStack)
    BY <1>3 DEF Return
  <2> QED BY <2>1, <2>2, <2>3 DEF ErrorMoves
<1>4. CASE Escape(t)
  <2>1. Active(t) /\ Pops(t) /\ Top(t).phase # "pushing" /\ UNCHANGED <<errorStack, torn>> /\ escaped'
    BY <1>4, FinishPops DEF Escape
  <2>2. IF Top(t).kind = "evaluate" THEN Loses(t) ELSE Keeps
    BY <2>1, PopEntries
  <2>3. \/ Top(t).kind = "evaluate" /\ left < MaxLeft /\ left' = left + 1
        \/ Top(t).kind # "evaluate" /\ UNCHANGED left
    BY <1>4 DEF Escape
  <2>4. left < MaxLeft => left + 1 <= MaxLeft
    BY LeftAssumption DEF TypeOK
  <2> QED BY <2>1, <2>2, <2>3, <2>4 DEF ErrorMoves
<1>5. CASE CollectGarbage(t)
  <2>1. Keeps
    BY <1>5, CollectGarbageCollects, OtherEntries
  <2> QED BY <1>5, <2>1 DEF CollectGarbage, ErrorMoves
<1>6. CASE Catch(t) \/ PerformBlock(t) \/ EndBlock(t)
  <2>1. UNCHANGED <<calls, errorStack, torn, left, escaped>>
    BY <1>6 DEF Catch, PerformBlock, EndBlock
  <2> QED BY <2>1, OtherEntries DEF ErrorMoves
<1>7. CASE ConversionFails(t)
  <2>1. UNCHANGED <<calls, torn, left, escaped>> /\ AddError(t)
    BY <1>7 DEF ConversionFails
  <2> QED BY <2>1, OtherEntries DEF ErrorMoves
<1> QED
  BY <1>1, <1>2, <1>3, <1>4, <1>5, <1>6, <1>7 DEF Continue, Advances
LEMMA AddErrorKeeps ==
  ASSUME TypeOK, NEW t \in Thread, AddError(t)
  PROVE  errorStack' \in Seq(SUBSET Thread) /\ Len(errorStack') = Len(errorStack)
<1>1. errorStack \in Seq(SUBSET Thread)
  BY DEF TypeOK
<1>2. CASE errorStack # <<>> /\ errorStack' = Append(Front(errorStack), Last(errorStack) \cup {t})
  <2>1. Last(errorStack) \cup {t} \in SUBSET Thread
    BY <1>1, <1>2, LastFront
  <2> QED
    BY <1>1, <1>2, <2>1, ExchangeTop
<1>3. CASE UNCHANGED errorStack
  BY <1>1, <1>3
<1> QED
  BY <1>2, <1>3 DEF AddError

LEMMA ErrorStackType ==
  ASSUME TypeOK, NEW t \in Thread, ErrorMoves(t)
  PROVE  /\ errorStack' \in Seq(SUBSET Thread)
         /\ left' \in 0..MaxLeft /\ torn' \in BOOLEAN
<1>1. errorStack \in Seq(SUBSET Thread) /\ left \in 0..MaxLeft /\ torn \in BOOLEAN
  BY DEF TypeOK
<1>2. Append(errorStack, {}) \in Seq(SUBSET Thread)
  BY <1>1, AppendTop
<1>3. errorStack # <<>> => Front(errorStack) \in Seq(SUBSET Thread)
  BY <1>1, LastFront
<1>4. <<>> \in Seq(SUBSET Thread)
  BY EmptySeq
<1>5. errorStack' \in Seq(SUBSET Thread)
  BY <1>1, <1>2, <1>3, <1>4, AddErrorKeeps DEF ErrorMoves, BeginChange
<1>6. left' = left \/ (left' = left + 1 /\ left' <= MaxLeft)
  BY DEF ErrorMoves
<1>7. left' \in 0..MaxLeft
  BY <1>1, <1>6, LeftAssumption
<1>8. torn' \in BOOLEAN
  BY <1>1 DEF ErrorMoves, BeginChange
<1> QED
  BY <1>5, <1>7, <1>8

LEMMA BalanceStep ==
  ASSUME TypeOK, BelowTopRuns, BalanceInv, TypeOK', BelowTopRuns', NEW t \in Thread, ErrorMoves(t)
  PROVE  BalanceInv'
<1>1. errorStack \in Seq(SUBSET Thread) /\ Len(errorStack) \in Nat /\ left \in Nat
  BY LenProperties, LeftAssumption DEF TypeOK
<1>2. /\ \A u \in Thread, i \in Nat : <<u, i>> \in Entries <=> IsEntry(u, i)
      /\ \A u \in Thread, i \in Nat : <<u, i>> \in Entries' <=> IsEntry(u, i)'
      /\ Entries \subseteq Thread \X Nat /\ Entries' \subseteq Thread \X Nat
      /\ Len(calls[t]) \in Nat
  BY EntriesAre, EntriesAfter, LengthType
<1>3. IsFiniteSet(Entries) /\ Cardinality(Entries) \in Nat
  BY FS_CardinalityType DEF BalanceInv
<1>4. ASSUME Keeps PROVE Entries' = Entries
  <2>1. \A u \in Thread, i \in Nat : <<u, i>> \in Entries' <=> <<u, i>> \in Entries
    BY <1>2, <1>4 DEF Keeps
  <2> QED BY <1>2, <2>1
<1>5. ASSUME Gains(t)
      PROVE  IsFiniteSet(Entries') /\ Cardinality(Entries') = Cardinality(Entries) + 1
  <2>1. Entries' = Entries \cup {<<t, Len(calls[t])>>} /\ <<t, Len(calls[t])>> \notin Entries
    <3>1. \A u \in Thread, i \in Nat :
            <<u, i>> \in Entries' <=> <<u, i>> \in Entries \/ (u = t /\ i = Len(calls[t]))
      BY <1>2, <1>5 DEF Gains
    <3>2. <<t, Len(calls[t])>> \notin Entries
      BY <1>2, <1>5 DEF Gains
    <3> QED BY <1>2, <3>1, <3>2
  <2> QED BY <1>3, <2>1, FS_AddElement
<1>6. ASSUME Loses(t)
      PROVE  /\ IsFiniteSet(Entries') /\ Cardinality(Entries') = Cardinality(Entries) - 1
             /\ Cardinality(Entries) # 0
  <2>1. Entries' = Entries \ {<<t, Len(calls[t])>>} /\ <<t, Len(calls[t])>> \in Entries
    <3>1. \A u \in Thread, i \in Nat :
            <<u, i>> \in Entries' <=> <<u, i>> \in Entries /\ ~(u = t /\ i = Len(calls[t]))
      BY <1>2, <1>6 DEF Loses
    <3>2. <<t, Len(calls[t])>> \in Entries
      BY <1>2, <1>6 DEF Loses
    <3> QED BY <1>2, <3>1, <3>2
  <2> QED BY <1>3, <2>1, FS_RemoveElement, FS_EmptySet
<1>7. torn \in BOOLEAN /\ escaped \in BOOLEAN
  BY DEF TypeOK
<1>8. CASE Keeps /\ BeginChange(t) /\ UNCHANGED <<left, escaped>>
  BY <1>4, <1>8, Zenon DEF BalanceInv, BeginChange
<1>9. CASE Keeps /\ AddError(t) /\ UNCHANGED <<torn, left, escaped>>
  <2>1. Len(errorStack') = Len(errorStack) /\ Entries' = Entries
    BY <1>4, <1>9, AddErrorKeeps
  <2> QED BY <1>9, <2>1, Zenon DEF BalanceInv
<1>10. CASE Keeps /\ UNCHANGED <<errorStack, torn, left, escaped>>
  BY <1>4, <1>10, Zenon DEF BalanceInv
<1>11. CASE /\ Gains(t) /\ UNCHANGED <<torn, left, escaped>>
            /\ errorStack' = IF torn THEN errorStack ELSE Append(errorStack, {})
  <2>1. ~torn => Len(errorStack') = Len(errorStack) + 1
    BY <1>1, <1>11, AppendTop
  <2> QED BY <1>1, <1>3, <1>5, <1>11, <2>1 DEF BalanceInv
<1>12. CASE /\ Loses(t) /\ UNCHANGED <<torn, left, escaped>>
            /\ errorStack' = IF errorStack = <<>> THEN errorStack ELSE Front(errorStack)
  <2>1. ~torn => errorStack # <<>>
    BY <1>1, <1>3, <1>6, <1>12, EmptySeq DEF BalanceInv
  <2>2. ~torn => Len(errorStack') = Len(errorStack) - 1
    BY <1>1, <1>12, <2>1, LastFront
  <2> QED BY <1>1, <1>3, <1>6, <1>12, <2>2 DEF BalanceInv
<1>13. CASE /\ Loses(t) /\ UNCHANGED <<errorStack, torn>> /\ left' = left + 1 /\ left' <= MaxLeft
            /\ escaped'
  BY <1>1, <1>3, <1>6, <1>13 DEF BalanceInv
<1>14. CASE Keeps /\ UNCHANGED <<errorStack, torn, left>> /\ escaped'
  BY <1>4, <1>14, Zenon DEF BalanceInv
<1> QED
  BY <1>8, <1>9, <1>10, <1>11, <1>12, <1>13, <1>14 DEF ErrorMoves

-----------------------------------------------------------------------------
\* Results.

CellsInv ==
  \A t \in Thread : \A i \in 1..Len(calls[t]) :
    /\ calls[t][i].kind = "get" => calls[t][i].cell \in {"none", "rooted"}
    /\ t \in inBlock => calls[t][i].cell # "collected"

LEMMA CellsOfOne ==
  ASSUME CellsInv, NEW t \in Thread, UNCHANGED inBlock,
         \A u \in Thread \ {t} : calls'[u] = calls[u],
         \A i \in 1..Len(calls'[t]) :
           /\ calls'[t][i].kind = "get" => calls'[t][i].cell \in {"none", "rooted"}
           /\ t \in inBlock => calls'[t][i].cell # "collected"
  PROVE  CellsInv'
<1>1. ASSUME NEW u \in Thread, NEW i \in 1..Len(calls'[u])
      PROVE  /\ calls'[u][i].kind = "get" => calls'[u][i].cell \in {"none", "rooted"}
             /\ u \in inBlock' => calls'[u][i].cell # "collected"
  <2>1. CASE u = t
    BY <2>1
  <2>2. CASE u # t
    <3>1. calls'[u] = calls[u]
      BY <2>2
    <3> QED BY <3>1 DEF CellsInv
  <2> QED BY <2>1, <2>2
<1> QED BY <1>1 DEF CellsInv

LEMMA CellsStep ==
  ASSUME TypeOK, LockInv, CellsInv, NEW t \in Thread,
         Continue(t) \/ \E kind \in Kind : Start(t, kind)
  PROVE  CellsInv'
<1>1. \A u \in Thread : Len(calls[u]) \in Nat
  BY LengthType
<1>2. CASE \E kind \in Kind : Start(t, kind)
  <2>1. PICK kind \in Kind : Pushes(t, Begun(kind)) /\ UNCHANGED inBlock
    BY <1>2, StartPushes DEF Start
  <2>2. \A i \in 1..Len(calls'[t]) : i \in 1..Len(calls[t]) \/ i = Len(calls[t]) + 1
    BY <1>1, <2>1 DEF Pushes
  <2>3. Begun(kind).cell = "none"
    BY DEF Begun
  <2> QED BY <2>1, <2>2, <2>3 DEF Pushes, CellsInv
<1>3. CASE Advances(t)
  <2>1. PICK c \in Call : NewTop(t, c) /\ c.kind = Top(t).kind /\ Exchanges(t, c)
    BY <1>3, TopMoves
  <2>7. Active(t) /\ UNCHANGED inBlock
    BY <1>3, TopMoves DEF Advances, Push, Enter, Succeed, Fail, Report, Wrap, BeginPop
  <2>2. Top(t) = calls[t][Len(calls[t])] /\ Len(calls[t]) > 0 /\ Top(t) \in Call
    BY <2>7, TopCall
  <2>3. /\ Top(t).kind = "get" => Top(t).cell \in {"none", "rooted"}
        /\ t \in inBlock => Top(t).cell # "collected"
    BY <1>1, <2>2 DEF CellsInv
  <2>4. /\ c.kind = "get" => c.cell \in {"none", "rooted"}
        /\ t \in inBlock => c.cell # "collected"
    BY <2>1, <2>3 DEF NewTop
  <2>5. \A i \in 1..Len(calls'[t]) : i \in 1..(Len(calls[t]) - 1) \/ i = Len(calls[t])
    BY <1>1, <2>1, <2>2 DEF Exchanges
  <2>6. \A i \in 1..(Len(calls[t]) - 1) : i \in 1..Len(calls[t])
    BY <1>1
  <2>8. /\ \A u \in Thread \ {t} : calls'[u] = calls[u]
        /\ \A i \in 1..(Len(calls[t]) - 1) : calls'[t][i] = calls[t][i]
        /\ calls'[t][Len(calls[t])] = c
    BY <2>1 DEF Exchanges
  <2>9. ASSUME NEW i \in 1..Len(calls'[t])
        PROVE  /\ calls'[t][i].kind = "get" => calls'[t][i].cell \in {"none", "rooted"}
               /\ t \in inBlock => calls'[t][i].cell # "collected"
    <3>1. CASE i \in 1..(Len(calls[t]) - 1)
      BY <2>6, <2>8, <3>1 DEF CellsInv
    <3>2. CASE i = Len(calls[t])
      BY <2>4, <2>8, <3>2
    <3> QED BY <2>5, <3>1, <3>2
  <2> QED BY <2>7, <2>8, <2>9, CellsOfOne
<1>4. CASE Return(t) \/ Escape(t)
  <2>1. Pops(t) /\ UNCHANGED inBlock
    BY <1>4, FinishPops DEF Return, Escape
  <2>2. \A i \in 1..(Len(calls[t]) - 1) : i \in 1..Len(calls[t])
    BY <1>1
  <2>3. /\ \A u \in Thread \ {t} : calls'[u] = calls[u]
        /\ \A i \in 1..Len(calls'[t]) : i \in 1..(Len(calls[t]) - 1) /\ calls'[t][i] = calls[t][i]
    BY <1>1, <2>1 DEF Pops
  <2>4. \A i \in 1..Len(calls'[t]) :
          /\ calls'[t][i].kind = "get" => calls'[t][i].cell \in {"none", "rooted"}
          /\ t \in inBlock => calls'[t][i].cell # "collected"
    BY <2>2, <2>3 DEF CellsInv
  <2> QED BY <2>1, <2>3, <2>4, CellsOfOne
<1>5. CASE CollectGarbage(t)
  <2>1. Collects(t) /\ UNCHANGED inBlock /\ CanLock(t)
    BY <1>5, CollectGarbageCollects DEF CollectGarbage
  <2>2. ASSUME NEW u \in Thread \ {t}, u \in inBlock PROVE FALSE
    <3>1. Entered(u) > 0
      BY <2>2, EnteredType DEF Entered, InBlocks
    <3>2. lockOwner = u
      BY <3>1 DEF LockInv
    <3> QED BY <2>1, <3>2, ThreadAssumption DEF CanLock
  <2>3. ASSUME NEW u \in Thread, NEW i \in 1..Len(calls'[u])
        PROVE  /\ calls'[u][i].kind = "get" => calls'[u][i].cell \in {"none", "rooted"}
               /\ u \in inBlock => calls'[u][i].cell # "collected"
    <3>1. /\ i \in 1..Len(calls[u])
          /\ calls'[u][i].kind = calls[u][i].kind
          /\ \/ calls'[u][i].cell = calls[u][i].cell
             \/ u # t /\ calls[u][i].cell = "raw"
      BY <2>1 DEF Collects
    <3>2. /\ calls[u][i].kind = "get" => calls[u][i].cell \in {"none", "rooted"}
          /\ u \in inBlock => calls[u][i].cell # "collected"
      BY <3>1 DEF CellsInv
    <3> QED BY <2>2, <3>1, <3>2
  <2> QED BY <2>1, <2>3 DEF CellsInv
<1>6. CASE Catch(t) \/ ConversionFails(t) \/ EndBlock(t)
  BY <1>6 DEF Catch, ConversionFails, EndBlock, CellsInv
<1>7. CASE PerformBlock(t)
  <2>1. UNCHANGED calls /\ inBlock' = inBlock \cup {t} /\ ~Active(t)
    BY <1>7 DEF PerformBlock
  <2>2. \A i \in 1..Len(calls[t]) : FALSE
    BY <2>1, LengthType
  <2> QED BY <2>1, <2>2 DEF CellsInv
<1> QED
  BY <1>2, <1>3, <1>4, <1>5, <1>6, <1>7 DEF Continue, Advances

-----------------------------------------------------------------------------
\* Whose calls overlap.

Crowds ==
  \A t, u \in Thread : t # u /\ Active(t) /\ Active(u) => t \in crowded

\* Whose calls begin, go on and end.
LEMMA ActiveStep ==
  ASSUME TypeOK, NEW t \in Thread, Moves(t), NEW u \in Thread
  PROVE  /\ calls' \in [Thread -> Seq(Call)]
         /\ Active(u)' <=> Len(calls'[u]) > 0
         /\ u # t => (Active(u)' <=> Active(u)) /\ Len(calls'[u]) = Len(calls[u])
         /\ StartMove(t) => Active(t)'
         /\ TopMove(t) \/ Collects(t) \/ UNCHANGED calls => (Active(t)' <=> Active(t))
<1>1. calls' \in [Thread -> Seq(Call)]
  BY DEF Moves, StartMove, TopMove, ReturnMove, EscapeMove, Pushes, Exchanges, Pops, Collects, TypeOK
<1>2. ASSUME NEW v \in Thread PROVE Active(v)' <=> Len(calls'[v]) > 0
  <2>1. calls'[v] \in Seq(Call)
    BY <1>1
  <2> QED BY <2>1, LenProperties, EmptySeq DEF Active
<1>3. \A v \in Thread : Len(calls[v]) \in Nat /\ (Active(v) <=> Len(calls[v]) > 0)
  BY LengthType
<1>4. u # t => Len(calls'[u]) = Len(calls[u])
  BY DEF Moves, StartMove, TopMove, ReturnMove, EscapeMove, Pushes, Exchanges, Pops, Collects
<1>5. StartMove(t) => Len(calls'[t]) > 0
  BY <1>3 DEF StartMove, Pushes
<1>6. TopMove(t) \/ Collects(t) \/ UNCHANGED calls => Len(calls'[t]) = Len(calls[t])
  BY DEF TopMove, Exchanges, Collects
<1> QED
  BY <1>1, <1>2, <1>3, <1>4, <1>5, <1>6

LEMMA CrowdsStep ==
  ASSUME TypeOK, Crowds, NEW t \in Thread, Continue(t) \/ \E kind \in Kind : Start(t, kind)
  PROVE  Crowds'
<1>1. Moves(t)
  BY StepMoves
<1>2. \A u \in Thread \ {t} : Active(u)' <=> Active(u)
  BY <1>1, ActiveStep
<1>3. CASE \E kind \in Kind : Start(t, kind)
  <2>1. crowded' = LET others == {u \in Thread \ {t} : Active(u)} IN
                   IF others = {} THEN crowded ELSE crowded \cup others \cup {t}
    BY <1>3 DEF Start
  <2> QED BY <1>2, <2>1, Zenon DEF Crowds
<1>4. CASE Return(t) \/ Escape(t)
  <2>1. Pops(t) /\ crowded' = IF Len(calls[t]) = 1 THEN crowded \ {t} ELSE crowded
    BY <1>4, FinishPops DEF Return, Escape, Finish
  <2>2. Active(t) /\ Len(calls[t]) \in Nat
    BY <1>4, LengthType DEF Return, Escape
  <2>3. Active(t)' => Len(calls[t]) # 1
    <3>1. Len(calls'[t]) = 0 => ~Active(t)'
      BY <1>1, ActiveStep
    <3>2. Len(calls[t]) = 1 => Len(calls'[t]) = 0
      BY <2>1, <2>2 DEF Pops
    <3> QED BY <3>1, <3>2, Zenon
  <2> QED BY <1>2, <2>1, <2>2, <2>3 DEF Crowds
<1>5. CASE ~(\E kind \in Kind : Start(t, kind)) /\ ~Return(t) /\ ~Escape(t)
  <2>1. crowded \subseteq crowded'
    BY <1>5 DEF Continue, Push, Enter, Catch, ConversionFails, Succeed, Fail, Report, Wrap, BeginPop,
                CollectGarbage, PerformBlock, EndBlock
  <2>2. TopMove(t) \/ Collects(t) \/ UNCHANGED calls
    BY <1>5, TopMoves, CollectGarbageCollects
       DEF Continue, Advances, Catch, ConversionFails, PerformBlock, EndBlock
  <2>3. Active(t)' <=> Active(t)
    BY <1>1, <2>2, ActiveStep
  <2> QED BY <1>2, <2>1, <2>3 DEF Crowds
<1> QED
  BY <1>3, <1>4, <1>5

\* t is alone: no other thread has a call in progress.
Alone(t) == \A u \in Thread \ {t} : ~Active(u)

-----------------------------------------------------------------------------
\* The entry of an evaluation, if no other thread has one.

\* The place of i in the order of S.
Rank(S, i) == Cardinality({j \in S : j <= i})

LEMMA RankType ==
  ASSUME NEW n \in Nat, NEW S \in SUBSET (1..n)
  PROVE  /\ IsFiniteSet(S) /\ Cardinality(S) \in Nat
         /\ S = {} <=> Cardinality(S) = 0
         /\ \A i \in S : Rank(S, i) \in 1..Cardinality(S)
<1>1. IsFiniteSet(S) /\ Cardinality(S) \in Nat /\ (S = {} <=> Cardinality(S) = 0)
  <2>1. IsFiniteSet(1..n)
    BY FS_Interval
  <2>2. IsFiniteSet(S)
    BY <2>1, FS_Subset
  <2> QED BY <2>2, FS_CardinalityType, FS_EmptySet
<1>2. ASSUME NEW i \in S PROVE Rank(S, i) \in 1..Cardinality(S)
  <2> DEFINE low == {j \in S : j <= i}
  <2>1. low \subseteq S /\ i \in low
    OBVIOUS
  <2> HIDE DEF low
  <2>2. IsFiniteSet(low) /\ Cardinality(low) <= Cardinality(S) /\ Cardinality(low) \in Nat
    BY <1>1, <2>1, FS_Subset, FS_CardinalityType
  <2>3. Cardinality(low) # 0
    BY <2>1, <2>2, FS_EmptySet
  <2>4. Cardinality(low) \in 1..Cardinality(S)
    BY <1>1, <2>2, <2>3
  <2> QED BY <2>4 DEF Rank, low
<1> QED BY <1>1, <1>2

\* The greatest comes last.
LEMMA RankGreatest ==
  ASSUME NEW n \in Nat, NEW S \in SUBSET (1..n), NEW m \in S, \A j \in S : j <= m
  PROVE  /\ Rank(S, m) = Cardinality(S) /\ Cardinality(S) \in Nat \ {0}
         /\ \A i \in S \ {m} : Rank(S, i) \in 1..(Cardinality(S) - 1) /\ Rank(S, i) = Rank(S \ {m}, i)
         /\ Cardinality(S \ {m}) = Cardinality(S) - 1
<1>1. IsFiniteSet(S) /\ Cardinality(S) \in Nat /\ Cardinality(S) # 0
  BY RankType
<1>2. {j \in S : j <= m} = S
  OBVIOUS
<1>3. Cardinality(S \ {m}) = Cardinality(S) - 1
  BY <1>1, FS_RemoveElement
<1>4. ASSUME NEW i \in S \ {m}
      PROVE  Rank(S, i) \in 1..(Cardinality(S) - 1) /\ Rank(S, i) = Rank(S \ {m}, i)
  <2>1. {j \in S : j <= i} = {j \in S \ {m} : j <= i}
    OBVIOUS
  <2>2. Rank(S, i) = Rank(S \ {m}, i)
    BY <2>1 DEF Rank
  <2>3. S \ {m} \in SUBSET (1..n)
    OBVIOUS
  <2>4. Rank(S \ {m}, i) \in 1..Cardinality(S \ {m})
    BY <2>3, RankType
  <2> QED BY <1>3, <2>2, <2>4
<1> QED BY <1>1, <1>2, <1>3, <1>4 DEF Rank

\* The entries of t, by the depth of their evaluations.
Own(t) == {i \in 1..Len(calls[t]) : calls[t][i].kind = "evaluate" /\ calls[t][i].phase # "pushing"}

\* The outermost call of t, still in progress, has left its script.
Ended(t) ==
  Len(calls[t]) = 1 /\ calls[t][1].phase \notin {"pushing", "started", "running"}

\* What the entry of the evaluation at depth i holds.
Holds(t, i, e) ==
  /\ e \subseteq {t}
  /\ i \in told[t] => e = {t}
  /\ i \notin told[t] /\ ~Ended(t) => e = {}
  /\ i = 1 /\ Ended(t) /\ calls[t][1].phase = "ran" /\ ~calls[t][1].ok => e = {t}

OwnErrors(t) ==
  /\ Len(errorStack) = Cardinality(Own(t))
  /\ \A i \in Own(t) : Holds(t, i, errorStack[Rank(Own(t), i)])

\* The same, of the next state.
HoldsThen(t, i, e) ==
  /\ e \subseteq {t}
  /\ i \in told'[t] => e = {t}
  /\ i \notin told'[t] /\ ~Ended(t)' => e = {}
  /\ i = 1 /\ Ended(t)' /\ calls'[t][1].phase = "ran" /\ ~calls'[t][1].ok => e = {t}

LEMMA OwnErrorsThen ==
  ASSUME NEW t \in Thread, Len(errorStack') = Cardinality(Own(t)'),
         \A i \in Own(t)' : HoldsThen(t, i, errorStack'[Rank(Own(t)', i)])
  PROVE  OwnErrors(t)'
BY DEF OwnErrors, Holds, HoldsThen, Rank

\* What it is told.
Told(t) ==
  LET n == Len(calls[t])
      c == calls[t][n] IN
    c.kind = "evaluate" /\ c.phase \in {"reported", "wrapped", "popping"} =>
      /\ c.error \subseteq {t}
      /\ (n = 1 /\ ~c.ok) \/ n \in told[t] => c.error = {t}
      /\ n > 1 /\ n \notin told[t] => c.error = {}

ToldInv == \A t \in Thread : told[t] \subseteq Own(t)

AloneInv ==
  /\ Crowds
  /\ ToldInv
  /\ (~torn /\ ~escaped) =>
       \A t \in Thread : t \notin crowded /\ Active(t) => OwnErrors(t) /\ Told(t)

\* Where nothing is in progress there is none.
LEMMA NoEntryWhenIdle ==
  ASSUME TypeOK, BelowTopRuns, BalanceInv, \A u \in Thread : ~Active(u), ~torn, ~escaped
  PROVE  Len(errorStack) = 0
<1>1. \A u \in Thread : DOMAIN calls[u] = {}
  BY LengthType
<1>2. Entries = {}
  BY <1>1 DEF Entries
<1> QED
  BY <1>2, FS_EmptySet DEF BalanceInv

LEMMA NestedIffDeep ==
  ASSUME TypeOK, BelowTopRuns, NEW t \in Thread, Active(t)
  PROVE  Nested(t) <=> Len(calls[t]) > 1
<1>1. Len(calls[t]) \in Nat \ {0} /\ DOMAIN calls[t] = 1..Len(calls[t])
  BY LengthType, TopCall
<1>2. ASSUME Len(calls[t]) > 1 PROVE 1 \in Running(t) /\ 1 < Len(calls[t])
  BY <1>1, <1>2 DEF Running, BelowTopRuns
<1> QED
  BY <1>1, <1>2 DEF Nested, Running

LEMMA OwnType ==
  ASSUME TypeOK, NEW t \in Thread
  PROVE  /\ Own(t) \in SUBSET (1..Len(calls[t])) /\ Len(calls[t]) \in Nat
         /\ \A i \in Own(t) : Rank(Own(t), i) \in 1..Cardinality(Own(t))
         /\ Cardinality(Own(t)) \in Nat
<1>1. Own(t) \in SUBSET (1..Len(calls[t])) /\ Len(calls[t]) \in Nat
  BY LengthType DEF Own
<1> QED BY <1>1, RankType

\* Where the innermost call of t is an evaluation that has pushed, its entry is the last.
LEMMA InnermostEntry ==
  ASSUME TypeOK, NEW t \in Thread, Len(calls[t]) \in Own(t), OwnErrors(t)
  PROVE  /\ Rank(Own(t), Len(calls[t])) = Len(errorStack)
         /\ errorStack # <<>> /\ Last(errorStack) = errorStack[Len(errorStack)]
         /\ Holds(t, Len(calls[t]), Last(errorStack))
<1>1. Own(t) \in SUBSET (1..Len(calls[t])) /\ Len(calls[t]) \in Nat
  BY OwnType
<1>2. \A j \in Own(t) : j <= Len(calls[t])
  BY <1>1
<1>3. Rank(Own(t), Len(calls[t])) = Cardinality(Own(t)) /\ Cardinality(Own(t)) # 0
  BY <1>1, <1>2, RankGreatest
<1>4. Len(errorStack) = Cardinality(Own(t)) /\ Holds(t, Len(calls[t]), errorStack[Rank(Own(t), Len(calls[t]))])
  BY DEF OwnErrors
<1>5. errorStack # <<>>
  BY <1>3, <1>4, EmptySeq
<1>6. Last(errorStack) = errorStack[Len(errorStack)]
  BY <1>5, LastFront DEF TypeOK
<1> QED BY <1>3, <1>4, <1>5, <1>6

LEMMA OwnStep ==
  ASSUME TypeOK, calls' \in [Thread -> Seq(Call)], NEW t \in Thread
  PROVE  /\ Keeps => \A u \in Thread : Own(u)' = Own(u)
         /\ Gains(t) => /\ Own(t)' = Own(t) \cup {Len(calls[t])} /\ Len(calls[t]) \notin Own(t)
                        /\ \A u \in Thread \ {t} : Own(u)' = Own(u)
         /\ Loses(t) => /\ Own(t)' = Own(t) \ {Len(calls[t])} /\ Len(calls[t]) \in Own(t)
                        /\ \A u \in Thread \ {t} : Own(u)' = Own(u)
<1>1. ASSUME NEW u \in Thread
      PROVE  /\ Own(u) \subseteq Nat /\ Own(u)' \subseteq Nat
             /\ \A i \in Nat : i \in Own(u) <=> IsEntry(u, i)
             /\ \A i \in Nat : i \in Own(u)' <=> IsEntry(u, i)'
  <2>1. Len(calls[u]) \in Nat /\ Len(calls'[u]) \in Nat
    BY LenProperties DEF TypeOK
  <2> QED BY <2>1 DEF Own, IsEntry
<1>2. ASSUME Keeps, NEW u \in Thread PROVE Own(u)' = Own(u)
  BY <1>1, <1>2 DEF Keeps
<1>3. ASSUME Gains(t) \/ Loses(t), NEW u \in Thread \ {t} PROVE Own(u)' = Own(u)
  <2>1. \A i \in Nat : i \in Own(u)' <=> i \in Own(u)
    BY <1>1, <1>3 DEF Gains, Loses
  <2> QED BY <1>1, <2>1
<1>4. Len(calls[t]) \in Nat
  BY LengthType
<1>5. ASSUME Gains(t) PROVE Own(t)' = Own(t) \cup {Len(calls[t])} /\ Len(calls[t]) \notin Own(t)
  <2>1. \A i \in Nat : i \in Own(t)' <=> i \in Own(t) \/ i = Len(calls[t])
    BY <1>1, <1>5 DEF Gains
  <2> QED BY <1>1, <1>4, <1>5, <2>1 DEF Gains
<1>6. ASSUME Loses(t) PROVE Own(t)' = Own(t) \ {Len(calls[t])} /\ Len(calls[t]) \in Own(t)
  <2>1. \A i \in Nat : i \in Own(t)' <=> i \in Own(t) /\ i # Len(calls[t])
    BY <1>1, <1>6 DEF Loses
  <2> QED BY <1>1, <1>4, <1>6, <2>1 DEF Loses
<1> QED BY <1>2, <1>3, <1>5, <1>6

\* Where native code of t runs, each evaluation of t has an entry, and none has ended.
LEMMA AllPushed ==
  ASSUME TypeOK, BelowTopRuns, NEW t \in Thread, InNativeCode(t)
  PROVE  /\ Own(t) = {i \in DOMAIN calls[t] : calls[t][i].kind = "evaluate"}
         /\ ~Ended(t)
<1>1. /\ Len(calls[t]) \in Nat /\ DOMAIN calls[t] = 1..Len(calls[t])
      /\ Active(t) <=> Len(calls[t]) > 0
  BY LengthType
<1>2. Active(t) => calls[t][Len(calls[t])].phase = "running"
  BY TopCall DEF InNativeCode
<1>3. \A i \in 1..Len(calls[t]) : i \in 1..(Len(calls[t]) - 1) \/ i = Len(calls[t])
  BY <1>1
<1>4. \A i \in 1..Len(calls[t]) : calls[t][i].phase = "running"
  BY <1>1, <1>2, <1>3 DEF BelowTopRuns
<1> QED BY <1>1, <1>4 DEF Own, Ended

LEMMA InnermostIsGreatest ==
  ASSUME TypeOK, BelowTopRuns, NEW t \in Thread, InNativeCode(t)
  PROVE  \/ InnermostEvaluation(t) = {} /\ Own(t) = {}
         \/ \E m \in Own(t) : InnermostEvaluation(t) = {m} /\ \A j \in Own(t) : j <= m
<1>1. Own(t) = {i \in DOMAIN calls[t] : calls[t][i].kind = "evaluate"}
  BY AllPushed
<1>2. Own(t) \in SUBSET (1..Len(calls[t])) /\ Len(calls[t]) \in Nat
  BY OwnType
<1>3. InnermostEvaluation(t) = {i \in Own(t) : \A j \in Own(t) : j <= i}
  BY <1>1 DEF InnermostEvaluation
<1>4. CASE Own(t) # {}
  <2>1. PICK m \in Own(t) : \A j \in Own(t) : j <= m
    BY <1>2, <1>4, MaxOfSome
  <2>2. ASSUME NEW i \in Own(t), \A j \in Own(t) : j <= i PROVE i = m
    BY <1>2, <2>1, <2>2
  <2>3. InnermostEvaluation(t) = {m}
    BY <1>3, <2>1, <2>2
  <2> QED BY <2>1, <2>3
<1>5. CASE Own(t) = {}
  BY <1>3, <1>5
<1> QED BY <1>4, <1>5

\* What is told of evaluations that have an entry.
LEMMA ToldStep ==
  ASSUME TypeOK, BelowTopRuns, ToldInv, NEW t \in Thread, calls' \in [Thread -> Seq(Call)],
         Continue(t) \/ \E kind \in Kind : Start(t, kind)
  PROVE  ToldInv' /\ told' \in [Thread -> SUBSET Nat]
<1>1. told \in [Thread -> SUBSET Nat] /\ \A u \in Thread : Len(calls[u]) \in Nat
  BY LengthType DEF TypeOK
<1>2. ASSUME Keeps \/ Gains(t), UNCHANGED told PROVE ToldInv' /\ told' \in [Thread -> SUBSET Nat]
  <2>1. ASSUME NEW u \in Thread PROVE Own(u) \subseteq Own(u)'
    BY <1>2, <2>1, OwnStep
  <2> QED BY <1>1, <1>2, <2>1 DEF ToldInv
<1>3. CASE \E kind \in Kind : Start(t, kind)
  <2>1. StartMove(t)
    BY <1>3, StartPushes DEF StartMove, Start, InNativeCode
  <2> QED BY <1>2, <1>3, <2>1, OtherEntries DEF Start
<1>4. CASE Advances(t)
  <2>1. PICK c \in Call : NewTop(t, c) /\ c.kind = Top(t).kind /\ Exchanges(t, c)
    BY <1>4, TopMoves
  <2>2. Active(t)
    BY <1>4, TopMoves
  <2>3. /\ c.phase # "pushing"
        /\ Top(t).phase = "pushing" => c.kind = "evaluate"
    BY <2>1 DEF NewTop
  <2>4. Keeps \/ Gains(t)
    BY <2>1, <2>2, <2>3, ExchangeEntries
  <2>5. UNCHANGED told
    BY <1>4 DEF Advances, Push, Enter, Succeed, Fail, Report, Wrap, BeginPop
  <2> QED BY <1>2, <2>4, <2>5
<1>5. CASE Return(t) \/ Escape(t)
  <2>1. /\ Active(t) /\ Pops(t) /\ Top(t).phase # "pushing"
        /\ told' = [told EXCEPT ![t] = @ \ {Len(calls[t])}]
    BY <1>5, FinishPops DEF Return, Escape, Finish
  <2>2. Loses(t) \/ Keeps
    BY <2>1, PopEntries
  <2>3. /\ Own(t) \ {Len(calls[t])} \subseteq Own(t)'
        /\ \A u \in Thread \ {t} : Own(u)' = Own(u)
    BY <2>2, OwnStep
  <2>4. told' \in [Thread -> SUBSET Nat]
    BY <1>1, <2>1
  <2>5. told'[t] = told[t] \ {Len(calls[t])} /\ \A u \in Thread \ {t} : told'[u] = told[u]
    BY <1>1, <2>1
  <2> QED BY <2>3, <2>4, <2>5 DEF ToldInv
<1>6. CASE CollectGarbage(t)
  BY <1>2, <1>6, CollectGarbageCollects, OtherEntries DEF CollectGarbage
<1>7. CASE Catch(t) \/ PerformBlock(t) \/ EndBlock(t)
  BY <1>2, <1>7, OtherEntries DEF Catch, PerformBlock, EndBlock
<1>8. CASE ConversionFails(t)
  <2>1. /\ InNativeCode(t) /\ UNCHANGED calls
        /\ told' = [told EXCEPT ![t] = @ \cup InnermostEvaluation(t)]
    BY <1>8 DEF ConversionFails
  <2>2. InnermostEvaluation(t) \subseteq Own(t)
    BY <2>1, InnermostIsGreatest
  <2>3. Own(t) \subseteq Nat
    BY OwnType
  <2>4. \A u \in Thread : Own(u)' = Own(u)
    BY <2>1 DEF Own
  <2>5. told'[t] = told[t] \cup InnermostEvaluation(t) /\ \A u \in Thread \ {t} : told'[u] = told[u]
    BY <1>1, <2>1
  <2>6. told' \in [Thread -> SUBSET Nat]
    BY <1>1, <2>1, <2>2, <2>3
  <2> QED BY <2>2, <2>4, <2>5, <2>6 DEF ToldInv
<1> QED
  BY <1>3, <1>4, <1>5, <1>6, <1>7, <1>8 DEF Continue, Advances

\* A step of a thread that is alone.
LEMMA AloneStart ==
  ASSUME TypeOK, BelowTopRuns, BalanceInv, NEW t \in Thread, Alone(t), ~torn', ~escaped',
         NEW kind \in Kind, Start(t, kind), Active(t) => OwnErrors(t)
  PROVE  OwnErrors(t)' /\ Told(t)'
<1>1. Pushes(t, Begun(kind)) /\ Len(calls[t]) \in Nat /\ StartMove(t)
  BY StartPushes, LengthType DEF StartMove, Start, InNativeCode
<1>2. Own(t)' = Own(t)
  <2>1. Keeps /\ calls' \in [Thread -> Seq(Call)]
    BY <1>1, OtherEntries DEF Pushes
  <2> QED BY <2>1, OwnStep
<1>3. ~torn /\ ~escaped /\ UNCHANGED <<errorStack, told>> /\ InNativeCode(t)
  BY DEF Start, BeginChange
<1>4. /\ Len(calls'[t]) = Len(calls[t]) + 1
      /\ calls'[t][Len(calls'[t])] = Begun(kind)
  BY <1>1 DEF Pushes
<1>5. Begun(kind).phase \in {"pushing", "started"}
  BY DEF Begun
<1>6. ~Ended(t)' /\ ~Ended(t)
  BY <1>3, <1>4, <1>5, AllPushed DEF Ended
<1>7. Told(t)'
  BY <1>4, <1>5 DEF Told
<1>8. CASE Active(t)
  <2>1. \A i, e : Holds(t, i, e) => HoldsThen(t, i, e)
    BY <1>3, <1>6 DEF Holds, HoldsThen
  <2>2. OwnErrors(t)
    BY <1>8
  <2>3. OwnErrors(t)'
    BY <1>2, <1>3, <2>1, <2>2, OwnErrorsThen DEF OwnErrors
  <2> QED BY <1>7, <2>3
<1>9. CASE ~Active(t)
  <2>1. Len(errorStack) = 0
    BY <1>3, <1>9, NoEntryWhenIdle DEF Alone
  <2>2. Own(t) = {}
    BY <1>9, LengthType DEF Own
  <2> QED BY <1>2, <1>3, <1>7, <2>1, <2>2, FS_EmptySet DEF OwnErrors
<1> QED BY <1>8, <1>9

LEMMA AlonePushes ==
  ASSUME TypeOK, BelowTopRuns, ToldInv, NEW t \in Thread, OwnErrors(t), Push(t), ~torn,
         NEW c \in Call, Exchanges(t, c), c.kind = Top(t).kind, c.kind = "evaluate",
         Top(t).phase = "pushing", c.phase = "started"
  PROVE  OwnErrors(t)' /\ Told(t)'
<1> DEFINE n == Len(calls[t])
<1>1. Active(t) /\ UNCHANGED told /\ errorStack' = Append(errorStack, {})
  BY DEF Push
<1>2. n \in Nat \ {0} /\ Top(t) = calls[t][n] /\ errorStack \in Seq(SUBSET Thread)
  BY <1>1, TopCall DEF TypeOK
<1>3. Own(t)' = Own(t) \cup {n} /\ n \notin Own(t)
  <2>1. Gains(t) /\ calls' \in [Thread -> Seq(Call)]
    BY <1>1, ExchangeEntries DEF Exchanges
  <2> QED BY <2>1, OwnStep
<1>4. Len(calls'[t]) = n /\ calls'[t][n] = c
  BY DEF Exchanges
<1>5. ~Ended(t) /\ ~Ended(t)'
  BY <1>2, <1>4 DEF Ended
<1>6. n \notin told[t]
  BY <1>3 DEF ToldInv
<1>7. Own(t) \in SUBSET (1..n)
  BY OwnType
<1> HIDE DEF n
<1>8. PICK S \in SUBSET (1..n) : S = Own(t)' /\ n \in S /\ S \ {n} = Own(t)
  BY <1>2, <1>3, <1>7
<1>9. \A j \in S : j <= n
  BY <1>2
<1>10. /\ Rank(S, n) = Cardinality(S) /\ Cardinality(S) \in Nat
       /\ \A i \in Own(t) : Rank(S, i) = Rank(Own(t), i) /\ Rank(S, i) \in 1..(Cardinality(S) - 1)
       /\ Cardinality(Own(t)) = Cardinality(S) - 1
  <2>1. /\ Rank(S, n) = Cardinality(S) /\ Cardinality(S) \in Nat \ {0}
        /\ \A i \in S \ {n} : Rank(S, i) \in 1..(Cardinality(S) - 1) /\ Rank(S, i) = Rank(S \ {n}, i)
        /\ Cardinality(S \ {n}) = Cardinality(S) - 1
    <3>1. n \in Nat /\ S \in SUBSET (1..n) /\ n \in S
      BY <1>2, <1>8
    <3> QED BY ONLY <3>1, <1>9, RankGreatest
  <2> QED BY <1>8, <2>1
<1>11. /\ Len(errorStack) = Cardinality(S) - 1
       /\ \A i \in Own(t) : Holds(t, i, errorStack[Rank(Own(t), i)])
  BY <1>10 DEF OwnErrors
<1>12. /\ Len(errorStack') = Cardinality(S)
       /\ \A k \in 1..(Cardinality(S) - 1) : errorStack'[k] = errorStack[k]
       /\ errorStack'[Cardinality(S)] = {}
  <2>1. /\ Len(Append(errorStack, {})) = Len(errorStack) + 1
        /\ \A k \in 1..Len(errorStack) : Append(errorStack, {})[k] = errorStack[k]
        /\ Append(errorStack, {})[Len(errorStack) + 1] = {}
    BY <1>2, AppendTop
  <2> QED BY <1>1, <1>10, <1>11, <2>1
<1>13. \A i, e : Holds(t, i, e) => HoldsThen(t, i, e)
  BY <1>1, <1>5 DEF Holds, HoldsThen
<1>14. HoldsThen(t, n, {})
  BY <1>1, <1>5, <1>6 DEF HoldsThen
<1>15. ASSUME NEW i \in S PROVE HoldsThen(t, i, errorStack'[Rank(S, i)])
  <2>1. CASE i = n
    BY <1>10, <1>12, <1>14, <2>1
  <2>2. CASE i # n
    <3>1. i \in Own(t)
      BY <1>8, <2>2
    <3>2. errorStack'[Rank(S, i)] = errorStack[Rank(Own(t), i)]
      BY <1>10, <1>12, <3>1
    <3> QED BY <1>11, <1>13, <3>1, <3>2
  <2> QED BY <2>1, <2>2
<1>16. OwnErrors(t)'
  BY <1>8, <1>12, <1>15, OwnErrorsThen
<1>17. Told(t)'
  BY <1>4 DEF Told
<1> QED BY <1>16, <1>17

\* The steps of t that leave its entries as they are.
LEMMA AloneSame ==
  ASSUME NEW t \in Thread, OwnErrors(t), Own(t)' = Own(t), UNCHANGED errorStack, told'[t] = told[t],
         Ended(t) => Ended(t)',
         Ended(t)' /\ calls'[t][1].phase = "ran" /\ ~calls'[t][1].ok =>
           Ended(t) /\ calls[t][1].phase = "ran" /\ ~calls[t][1].ok
  PROVE  OwnErrors(t)'
<1>1. \A i, e : Holds(t, i, e) => HoldsThen(t, i, e)
  BY DEF Holds, HoldsThen
<1> QED BY <1>1, OwnErrorsThen DEF OwnErrors

LEMMA AloneTells ==
  ASSUME TypeOK, BelowTopRuns, NEW t \in Thread, OwnErrors(t), Told(t), ~torn', ~torn, Alone(t),
         NEW c \in Call, Exchanges(t, c), c.kind = Top(t).kind, NewTop(t, c),
         ~Push(t), ~Succeed(t), ~Fail(t)
  PROVE  OwnErrors(t)' /\ Told(t)'
<1> DEFINE n == Len(calls[t])
<1>1. Enter(t) \/ Report(t) \/ Wrap(t) \/ BeginPop(t)
  BY DEF NewTop
<1>2. Active(t) /\ UNCHANGED <<errorStack, told>>
  BY <1>1 DEF Enter, Report, Wrap, BeginPop, BeginChange
<1>3. n \in Nat \ {0} /\ Top(t) = calls[t][n]
  BY <1>2, TopCall
<1>4. Len(calls'[t]) = n /\ calls'[t][n] = c /\ calls' \in [Thread -> Seq(Call)]
  BY DEF Exchanges
<1>5. Top(t).phase # "pushing" /\ c.phase # "pushing"
  BY DEF NewTop
<1>6. Own(t)' = Own(t)
  BY <1>2, <1>4, <1>5, ExchangeEntries, OwnStep
<1>7. /\ c.phase \in {"running", "reported", "wrapped", "popping"}
      /\ c.phase = "running" <=> Top(t).phase = "started"
      /\ Top(t).phase # "running"
  BY DEF NewTop
<1>8. Ended(t)' <=> Ended(t)
  BY <1>3, <1>4, <1>5, <1>7 DEF Ended
<1>9. Ended(t)' => calls'[t][1].phase # "ran"
  BY <1>4, <1>7 DEF Ended
<1>10. OwnErrors(t)'
  BY <1>2, <1>6, <1>8, <1>9, AloneSame
<1>11. CASE Report(t) /\ c.phase = "reported"
  <2>1. /\ c.kind = "evaluate" /\ c.error \in ErrorsFound(t) /\ Top(t).phase = "ran"
        /\ c.ok = Top(t).ok
    BY <1>11 DEF NewTop
  <2>2. n \in Own(t)
    BY <1>3, <1>5, <2>1 DEF Own
  <2>3. errorStack # <<>> /\ Holds(t, n, Last(errorStack))
    BY <2>2, InnermostEntry
  <2>4. ~Disturbed(t)
    BY DEF Disturbed, Alone
  <2>5. c.error = Last(errorStack)
    BY <2>1, <2>3, <2>4 DEF ErrorsFound
  <2>6. n > 1 => ~Ended(t)
    BY <1>3 DEF Ended
  <2>7. n = 1 => Ended(t) /\ calls[t][1].phase = "ran" /\ calls[t][1].ok = c.ok
    BY <1>3, <2>1 DEF Ended
  <2>8. /\ c.error \subseteq {t}
        /\ (n = 1 /\ ~c.ok) \/ n \in told[t] => c.error = {t}
        /\ n > 1 /\ n \notin told[t] => c.error = {}
    BY <2>3, <2>5, <2>6, <2>7 DEF Holds
  <2> QED BY <1>2, <1>4, <1>10, <2>8 DEF Told
<1>12. CASE Enter(t) /\ c.phase = "running"
  BY <1>4, <1>10, <1>12 DEF Told
<1>13. CASE (Wrap(t) \/ BeginPop(t)) /\ Same(t, c) /\ c.phase \in {"wrapped", "popping"}
  <2>1. c.kind = "evaluate" => Top(t).phase \in {"reported", "wrapped"}
    BY <1>7, <1>13 DEF NewTop
  <2> QED BY <1>2, <1>3, <1>4, <1>10, <1>13, <2>1 DEF Told, Same
<1>14. \/ Report(t) /\ c.phase = "reported"
       \/ Enter(t) /\ c.phase = "running"
       \/ (Wrap(t) \/ BeginPop(t)) /\ Same(t, c) /\ c.phase \in {"wrapped", "popping"}
  BY DEF NewTop
<1> QED BY <1>11, <1>12, <1>13, <1>14

\* An error of t that nothing disturbs goes to the last entry, if there is one.
LEMMA LastTold ==
  ASSUME TypeOK, NEW t \in Thread, AddError(t), Alone(t)
  PROVE  /\ Len(errorStack') = Len(errorStack) /\ Len(errorStack) \in Nat
         /\ Len(errorStack) > 0 =>
              /\ \A k \in 1..(Len(errorStack) - 1) : errorStack'[k] = errorStack[k]
              /\ errorStack'[Len(errorStack)] = errorStack[Len(errorStack)] \cup {t}
<1>1. errorStack \in Seq(SUBSET Thread) /\ Len(errorStack) \in Nat
      /\ (errorStack = <<>> <=> Len(errorStack) = 0)
  BY LenProperties, EmptySeq DEF TypeOK
<1>2. ~Disturbed(t)
  BY DEF Disturbed, Alone
<1>3. errorStack' = IF errorStack = <<>> THEN errorStack
                    ELSE Append(Front(errorStack), Last(errorStack) \cup {t})
  BY <1>2 DEF AddError
<1>4. CASE errorStack # <<>>
  <2>1. Last(errorStack) = errorStack[Len(errorStack)] /\ Last(errorStack) \cup {t} \in SUBSET Thread
    BY <1>1, <1>4, LastFront
  <2> QED BY <1>1, <1>3, <1>4, <2>1, ExchangeTop
<1>5. CASE errorStack = <<>>
  BY <1>1, <1>3, <1>5
<1> QED BY <1>4, <1>5

LEMMA AloneLeaves ==
  ASSUME TypeOK, BelowTopRuns, NEW t \in Thread, OwnErrors(t), Alone(t), ~escaped,
         Succeed(t) \/ Fail(t), NEW c \in Call, Exchanges(t, c), c.kind = Top(t).kind,
         Top(t).phase = "running", c.phase = "ran" \/ (c.phase = "wrapped" /\ c.kind # "evaluate"),
         ~c.ok => Fail(t)
  PROVE  OwnErrors(t)' /\ Told(t)'
<1> DEFINE n == Len(calls[t])
<1>1. Active(t) /\ UNCHANGED told
  BY DEF Succeed, Fail
<1>2. n \in Nat \ {0} /\ Top(t) = calls[t][n]
  BY <1>1, TopCall
<1>3. Len(calls'[t]) = n /\ calls'[t][n] = c /\ calls' \in [Thread -> Seq(Call)]
  BY DEF Exchanges
<1>4. Own(t)' = Own(t)
  <2>1. c.phase # "pushing"
    OBVIOUS
  <2> QED BY <1>1, <1>3, <2>1, ExchangeEntries, OwnStep
<1>5. ~Ended(t)
  BY <1>2 DEF Ended
<1>6. Nested(t) <=> n > 1
  BY <1>1, NestedIffDeep
<1>7. PICK exception \in BOOLEAN : LeaveScript(t, exception) /\ (Fail(t) => exception)
  <2>1. CASE Fail(t)
    BY <2>1 DEF Fail
  <2>2. CASE ~Fail(t)
    BY <2>2 DEF Succeed, TypeOK
  <2> QED BY <2>1, <2>2
<1>8. Told(t)'
  BY <1>3 DEF Told
<1>9. CASE UNCHANGED errorStack /\ (n = 1 => ~Fail(t))
  <2>1. ~(Ended(t)' /\ ~calls'[t][1].ok)
    BY <1>3, <1>9 DEF Ended
  <2> QED BY <1>1, <1>4, <1>5, <1>8, <1>9, <2>1, AloneSame
<1>10. CASE n = 1 /\ AddError(t)
  <2>1. Own(t) \in SUBSET (1..n)
    BY OwnType
  <2>2. CASE Own(t) = {}
    BY <1>4, <1>8, <2>2, LastTold, <1>10, OwnErrorsThen DEF OwnErrors
  <2>3. CASE 1 \in Own(t)
    <3>1. /\ Rank(Own(t), 1) = Len(errorStack) /\ Holds(t, 1, errorStack[Len(errorStack)])
          /\ errorStack # <<>>
      BY <1>10, <2>3, InnermostEntry
    <3>2. Len(errorStack) > 0
      BY <3>1, LenProperties, EmptySeq DEF TypeOK
    <3>3. /\ Len(errorStack') = Len(errorStack)
          /\ errorStack'[Len(errorStack)] = {t}
      BY <1>10, <3>1, <3>2, LastTold DEF Holds
    <3>4. Ended(t)'
      BY <1>3, <1>10 DEF Ended
    <3>5. HoldsThen(t, 1, {t})
      BY <3>4 DEF HoldsThen
    <3>6. \A i \in Own(t)' : i = 1
      BY <1>4, <1>10, <2>1
    <3>7. \A i \in Own(t)' : HoldsThen(t, i, errorStack'[Rank(Own(t)', i)])
      BY <1>4, <3>1, <3>3, <3>5, <3>6
    <3>8. Len(errorStack') = Cardinality(Own(t)')
      BY <1>4, <3>3 DEF OwnErrors
    <3> QED BY <1>8, <3>7, <3>8, OwnErrorsThen
  <2> QED BY <1>10, <2>1, <2>2, <2>3
<1>11. \/ UNCHANGED errorStack /\ (n = 1 => ~Fail(t))
       \/ n = 1 /\ AddError(t)
  <2>1. n > 1 \/ n = 1
    <3> HIDE DEF n
    <3> QED BY <1>2
  <2>2. n = 1 => ~Nested(t)
    BY <1>6
  <2>3. CASE exception /\ ~Nested(t) /\ AddError(t)
    BY <1>6, <2>1, <2>3
  <2>4. CASE (exception => Nested(t)) /\ UNCHANGED errorStack
    BY <1>7, <2>2, <2>4
  <2> QED BY <1>7, <2>3, <2>4 DEF LeaveScript
<1> QED BY <1>9, <1>10, <1>11

LEMMA AloneConverts ==
  ASSUME TypeOK, BelowTopRuns, NEW t \in Thread, OwnErrors(t), Told(t), Active(t), Alone(t),
         ConversionFails(t)
  PROVE  OwnErrors(t)' /\ Told(t)'
<1>1. /\ InNativeCode(t) /\ AddError(t) /\ UNCHANGED calls
      /\ told' = [told EXCEPT ![t] = @ \cup InnermostEvaluation(t)]
  BY DEF ConversionFails
<1>2. told'[t] = told[t] \cup InnermostEvaluation(t)
  BY <1>1 DEF TypeOK
<1>3. Own(t)' = Own(t) /\ ~Ended(t) /\ ~Ended(t)'
  BY <1>1, AllPushed DEF Own, Ended
<1>4. Told(t)'
  <2>1. calls[t][Len(calls[t])].phase = "running"
    BY <1>1, TopCall DEF InNativeCode
  <2> QED BY <1>1, <2>1 DEF Told
<1>5. CASE InnermostEvaluation(t) = {} /\ Own(t) = {}
  BY <1>1, <1>3, <1>4, <1>5, LastTold, OwnErrorsThen DEF OwnErrors
<1>6. ASSUME NEW m \in Own(t), InnermostEvaluation(t) = {m}, \A j \in Own(t) : j <= m
      PROVE  OwnErrors(t)'
  <2>1. /\ Own(t) \in SUBSET (1..Len(calls[t])) /\ Len(calls[t]) \in Nat
    BY OwnType
  <2>2. /\ Rank(Own(t), m) = Cardinality(Own(t)) /\ Cardinality(Own(t)) \in Nat \ {0}
        /\ \A i \in Own(t) \ {m} : Rank(Own(t), i) \in 1..(Cardinality(Own(t)) - 1)
    BY ONLY <1>6, <2>1, RankGreatest
  <2>3. /\ Len(errorStack) = Cardinality(Own(t))
        /\ \A i \in Own(t) : Holds(t, i, errorStack[Rank(Own(t), i)])
    BY DEF OwnErrors
  <2>4. /\ Len(errorStack') = Len(errorStack)
        /\ \A k \in 1..(Len(errorStack) - 1) : errorStack'[k] = errorStack[k]
        /\ errorStack'[Len(errorStack)] = errorStack[Len(errorStack)] \cup {t}
    BY <1>1, <2>2, <2>3, LastTold
  <2>5. \A i, e : Holds(t, i, e) /\ i # m => HoldsThen(t, i, e)
    BY <1>2, <1>3, <1>6 DEF Holds, HoldsThen
  <2>6. \A e : Holds(t, m, e) => HoldsThen(t, m, e \cup {t})
    BY <1>2, <1>3, <1>6 DEF Holds, HoldsThen
  <2>7. ASSUME NEW i \in Own(t) PROVE HoldsThen(t, i, errorStack'[Rank(Own(t), i)])
    <3>1. CASE i = m
      BY <2>2, <2>3, <2>4, <2>6, <3>1
    <3>2. CASE i # m
      <4>1. errorStack'[Rank(Own(t), i)] = errorStack[Rank(Own(t), i)]
        BY <2>2, <2>3, <2>4, <3>2
      <4> QED BY <2>3, <2>5, <3>2, <4>1
    <3> QED BY <3>1, <3>2
  <2> QED BY <1>3, <2>3, <2>4, <2>7, OwnErrorsThen
<1> QED BY <1>1, <1>4, <1>5, <1>6, InnermostIsGreatest

LEMMA AloneReturns ==
  ASSUME TypeOK, BelowTopRuns, BelowTopRuns', NEW t \in Thread, OwnErrors(t), Return(t), Active(t)'
  PROVE  OwnErrors(t)' /\ Told(t)'
<1> DEFINE n == Len(calls[t])
<1>1. /\ Active(t) /\ Pops(t) /\ Top(t).phase \in {"wrapped", "popping"}
      /\ told' = [told EXCEPT ![t] = @ \ {n}]
      /\ \/ Top(t).kind # "evaluate" /\ UNCHANGED errorStack
         \/ /\ Top(t).kind = "evaluate"
            /\ errorStack' = IF errorStack = <<>> THEN errorStack ELSE Front(errorStack)
  BY FinishPops DEF Return, Finish
<1>2. n \in Nat \ {0} /\ Top(t) = calls[t][n]
  BY <1>1, TopCall
<1>3. Len(calls'[t]) > 0 /\ Len(calls'[t]) = n - 1 /\ calls' \in [Thread -> Seq(Call)]
  <2>1. Moves(t)
    BY <1>1 DEF Moves, ReturnMove
  <2> QED BY <1>1, <2>1, ActiveStep DEF Pops
<1>4. told'[t] = told[t] \ {n}
  BY <1>1 DEF TypeOK
<1>5. calls'[t][Len(calls'[t])].phase = "running"
  <2>1. n - 1 \in 1..(n - 1)
    BY <1>2, <1>3
  <2> QED BY <1>1, <1>3, <2>1 DEF Pops, BelowTopRuns
<1>6. ~Ended(t) /\ ~Ended(t)'
  BY <1>2, <1>3, <1>5 DEF Ended
<1>7. Told(t)'
  BY <1>5 DEF Told
<1>8. \A i, e : i # n /\ Holds(t, i, e) => HoldsThen(t, i, e)
  BY <1>4, <1>6 DEF Holds, HoldsThen
<1>9. CASE Top(t).kind # "evaluate" /\ UNCHANGED errorStack
  <2>1. Own(t)' = Own(t)
    BY <1>1, <1>3, <1>9, PopEntries, OwnStep
  <2>2. n \notin Own(t)
    BY <1>2, <1>9 DEF Own
  <2>3. \A i \in Own(t) : HoldsThen(t, i, errorStack[Rank(Own(t), i)])
    BY <1>8, <2>2 DEF OwnErrors
  <2> QED BY <1>7, <1>9, <2>1, <2>3, OwnErrorsThen DEF OwnErrors
<1>10. CASE Top(t).kind = "evaluate" /\ errorStack' = IF errorStack = <<>> THEN errorStack ELSE Front(errorStack)
  <2>1. Own(t)' = Own(t) \ {n} /\ n \in Own(t)
    BY <1>1, <1>3, <1>10, PopEntries, OwnStep
  <2>2. Own(t) \in SUBSET (1..n)
    BY OwnType
  <2>3. \A j \in Own(t) : j <= n
    BY <1>2, <2>2
  <2>4. /\ Cardinality(Own(t)) \in Nat \ {0} /\ Cardinality(Own(t) \ {n}) = Cardinality(Own(t)) - 1
        /\ \A i \in Own(t) \ {n} : /\ Rank(Own(t), i) \in 1..(Cardinality(Own(t)) - 1)
                                   /\ Rank(Own(t), i) = Rank(Own(t) \ {n}, i)
    <3> HIDE DEF n
    <3> QED BY ONLY <1>2, <2>1, <2>2, <2>3, RankGreatest
  <2>5. /\ Len(errorStack) = Cardinality(Own(t))
        /\ \A i \in Own(t) : Holds(t, i, errorStack[Rank(Own(t), i)])
    BY DEF OwnErrors
  <2>6. errorStack # <<>>
    BY <2>4, <2>5, EmptySeq
  <2>7. /\ Len(errorStack') = Len(errorStack) - 1
        /\ \A k \in 1..(Len(errorStack) - 1) : errorStack'[k] = errorStack[k]
    BY <1>10, <2>6, LastFront DEF TypeOK
  <2>8. ASSUME NEW i \in Own(t) \ {n} PROVE HoldsThen(t, i, errorStack'[Rank(Own(t) \ {n}, i)])
    <3>1. errorStack'[Rank(Own(t) \ {n}, i)] = errorStack[Rank(Own(t), i)]
      BY <2>4, <2>5, <2>7
    <3> QED BY <1>8, <2>5, <3>1
  <2>9. Len(errorStack') = Cardinality(Own(t)')
    BY <2>1, <2>4, <2>5, <2>7
  <2> QED BY <1>7, <2>1, <2>8, <2>9, OwnErrorsThen
<1> QED BY <1>1, <1>9, <1>10

LEMMA AloneStep ==
  ASSUME TypeOK, BelowTopRuns, BalanceInv, AloneInv, BelowTopRuns', NEW t \in Thread,
         Continue(t) \/ \E kind \in Kind : Start(t, kind)
  PROVE  AloneInv' /\ told' \in [Thread -> SUBSET Nat]
<1>1. Crowds' /\ Moves(t)
  BY CrowdsStep, StepMoves DEF AloneInv
<1>2. calls' \in [Thread -> Seq(Call)]
  BY <1>1, ActiveStep
<1>3. ToldInv' /\ told' \in [Thread -> SUBSET Nat]
  BY <1>2, ToldStep DEF AloneInv
<1>4. (torn => torn') /\ (escaped => escaped')
  <2>1. ASSUME NEW kind \in Kind, Start(t, kind) PROVE (torn => torn') /\ (escaped => escaped')
    BY <2>1 DEF Start, BeginChange
  <2>2. ASSUME Push(t) \/ Enter(t) \/ Catch(t) \/ ConversionFails(t) PROVE torn' = torn /\ escaped' = escaped
    BY <2>2, Zenon DEF Push, Enter, Catch, ConversionFails
  <2>3. ASSUME Succeed(t) \/ Fail(t) \/ Report(t) \/ Wrap(t) PROVE torn' = torn /\ escaped' = escaped
    BY <2>3, Zenon DEF Succeed, Fail, Report, Wrap
  <2>4. ASSUME Escape(t) PROVE torn' = torn /\ escaped'
    BY <2>4, Zenon DEF Escape
  <2>5. ASSUME BeginPop(t) PROVE (torn => torn') /\ (escaped => escaped')
    BY <2>5 DEF BeginPop, BeginChange
  <2>6. ASSUME Return(t) PROVE torn' = torn /\ escaped' = escaped
    BY <2>6, Zenon DEF Return
  <2>7. ASSUME CollectGarbage(t) \/ PerformBlock(t) \/ EndBlock(t) PROVE torn' = torn /\ escaped' = escaped
    BY <2>7, Zenon DEF CollectGarbage, PerformBlock, EndBlock
  <2>8. ASSUME torn' = torn, escaped' = escaped PROVE (torn => torn') /\ (escaped => escaped')
    BY <2>8, SMT
  <2>9. ASSUME torn' = torn, escaped' PROVE (torn => torn') /\ (escaped => escaped')
    BY <2>9, SMT
  <2> QED BY <2>1, <2>2, <2>3, <2>4, <2>5, <2>6, <2>7, <2>8, <2>9, Zenon DEF Continue
<1>5. ASSUME ~torn', ~escaped', NEW u \in Thread, u \notin crowded', Active(u)'
      PROVE  OwnErrors(u)' /\ Told(u)'
  <2>1. ~torn /\ ~escaped
    BY <1>4, <1>5
  <2>2. \A v \in Thread \ {u} : ~Active(v)'
    BY <1>1, <1>5 DEF Crowds
  <2>3. CASE u = t
    <3>1. Alone(t)
      BY <1>1, <2>2, <2>3, ActiveStep DEF Alone
    <3>2. t \notin crowded \/ ~Active(t)
      <4>1. CASE Return(t) \/ Escape(t)
        <5>1. crowded' = IF Len(calls[t]) = 1 THEN crowded \ {t} ELSE crowded
          BY <4>1 DEF Return, Escape, Finish
        <5>2. Pops(t) /\ Active(t)
          BY <4>1, FinishPops DEF Return, Escape
        <5>3. Len(calls'[t]) > 0 /\ Len(calls'[t]) = Len(calls[t]) - 1
          BY <1>1, <1>5, <2>3, <5>2, ActiveStep DEF Pops
        <5>4. Len(calls[t]) # 1
          BY <5>3, LengthType
        <5> QED BY <1>5, <2>3, <5>1, <5>4
      <4>2. CASE ~Return(t) /\ ~Escape(t)
        <5>1. ASSUME NEW kind \in Kind, Start(t, kind) PROVE crowded \subseteq crowded'
          BY <5>1, Zenon DEF Start
        <5>2. ASSUME ConversionFails(t) PROVE crowded \subseteq crowded'
          BY <5>2, Zenon DEF ConversionFails
        <5>3. ASSUME Continue(t), ~ConversionFails(t) PROVE crowded' = crowded
          <6>1. ASSUME Push(t) \/ Enter(t) \/ Catch(t) \/ Succeed(t) \/ Fail(t) PROVE crowded' = crowded
            BY <6>1 DEF Push, Enter, Catch, Succeed, Fail
          <6>2. ASSUME Report(t) \/ Wrap(t) \/ BeginPop(t) PROVE crowded' = crowded
            BY <6>2 DEF Report, Wrap, BeginPop
          <6>3. ASSUME CollectGarbage(t) \/ PerformBlock(t) \/ EndBlock(t) PROVE crowded' = crowded
            BY <6>3 DEF CollectGarbage, PerformBlock, EndBlock
          <6> QED BY <4>2, <5>3, <6>1, <6>2, <6>3 DEF Continue
        <5>4. crowded \subseteq crowded'
          BY <5>1, <5>2, <5>3
        <5> QED BY <1>5, <2>3, <5>4
      <4> QED BY <4>1, <4>2
    <3>3. Active(t) => OwnErrors(t) /\ Told(t)
      BY <2>1, <3>2 DEF AloneInv
    <3>4. CASE \E kind \in Kind : Start(t, kind)
      BY <1>5, <2>3, <3>1, <3>3, <3>4, AloneStart
    <3>5. CASE Advances(t)
      <4>1. PICK c \in Call : NewTop(t, c) /\ c.kind = Top(t).kind /\ Exchanges(t, c)
        BY <3>5, TopMoves
      <4>2. OwnErrors(t) /\ Told(t)
        BY <3>3, <3>5, TopMoves
      <4>3. CASE /\ Push(t) /\ Top(t).phase = "pushing" /\ c.phase = "started" /\ c.kind = "evaluate"
        BY <2>1, <2>3, <4>1, <4>2, <4>3, AlonePushes DEF AloneInv
      <4>4. CASE /\ Succeed(t) \/ Fail(t)
                 /\ Top(t).phase = "running"
                 /\ c.phase = "ran" \/ (c.phase = "wrapped" /\ c.kind # "evaluate")
                 /\ ~c.ok => Fail(t)
        BY <2>1, <2>3, <3>1, <4>1, <4>2, <4>4, AloneLeaves
      <4>5. CASE ~Push(t) /\ ~Succeed(t) /\ ~Fail(t)
        BY <1>5, <2>1, <2>3, <3>1, <4>1, <4>2, <4>5, AloneTells
      <4>6. CASE Top(t).phase \notin {"pushing", "running"}
        BY <4>5, <4>6 DEF Push, Succeed, Fail
      <4>7. Top(t) \in Call
        BY <3>5, TopMoves, TopCall
      <4>8. \/ Push(t) /\ Top(t).phase = "pushing" /\ c.phase = "started" /\ c.kind = "evaluate"
            \/ /\ Succeed(t) \/ Fail(t)
               /\ Top(t).phase = "running"
               /\ c.phase = "ran" \/ (c.phase = "wrapped" /\ c.kind # "evaluate")
               /\ ~c.ok => Fail(t)
            \/ Top(t).phase \notin {"pushing", "running"}
        <5>1. CASE Top(t).phase = "pushing"
          BY <4>1, <5>1 DEF NewTop, Enter, Succeed, Fail, Report, Wrap, BeginPop
        <5>2. CASE Top(t).phase = "running"
          <6>1. \/ /\ Succeed(t) /\ c.ok
                   /\ c.phase = "ran" \/ (c.phase = "wrapped" /\ c.kind # "evaluate")
                \/ Fail(t) /\ c.phase = "ran"
            BY <4>1, <5>2 DEF NewTop, Push, Enter, Report, Wrap, BeginPop
          <6> QED BY <5>2, <6>1
        <5> QED BY <5>1, <5>2
      <4> QED BY <4>3, <4>4, <4>6, <4>8
    <3>6. CASE Return(t)
      BY <1>5, <2>3, <3>3, <3>6, AloneReturns DEF Return
    <3>7. CASE Escape(t)
      BY <1>5, <3>7 DEF Escape
    <3>8. CASE ConversionFails(t)
      <4>1. Active(t)
        BY <1>5, <2>3, <3>8 DEF ConversionFails, Active
      <4> QED BY <2>3, <3>1, <3>3, <3>8, <4>1, AloneConverts
    <3>9. CASE CollectGarbage(t) \/ Catch(t) \/ PerformBlock(t) \/ EndBlock(t)
      <4>1. calls'[t] = calls[t] /\ UNCHANGED <<errorStack, told>>
        BY <3>9 DEF CollectGarbage, Catch, PerformBlock, EndBlock
      <4>2. Active(t)
        BY <1>5, <2>3, <4>1 DEF Active
      <4>3. Own(t)' = Own(t) /\ (Ended(t)' <=> Ended(t))
        BY <4>1 DEF Own, Ended
      <4>4. OwnErrors(t)'
        BY <3>3, <4>1, <4>2, <4>3, AloneSame
      <4>5. Told(t)'
        BY <3>3, <4>1, <4>2 DEF Told
      <4> QED BY <2>3, <4>4, <4>5
    <3> QED BY <3>4, <3>5, <3>6, <3>7, <3>8, <3>9 DEF Continue, Advances
  <2>4. CASE u # t
    <3>1. Active(u)
      BY <1>1, <1>5, <2>4, ActiveStep
    <3>2. ~(\E kind \in Kind : Start(t, kind)) /\ ~ConversionFails(t)
      <4>1. ASSUME Active(u), \E kind \in Kind : Start(t, kind) PROVE u \in crowded'
        <5>1. crowded' = LET others == {v \in Thread \ {t} : Active(v)} IN
                         IF others = {} THEN crowded ELSE crowded \cup others \cup {t}
          BY <4>1 DEF Start
        <5> QED BY <2>4, <4>1, <5>1, Zenon
      <4>2. ASSUME Active(u), ConversionFails(t) PROVE u \in crowded'
        <5>1. {v \in Thread \ {t} : Active(v)} \subseteq crowded'
          BY <4>2 DEF ConversionFails
        <5> QED BY <2>4, <4>2, <5>1
      <4> QED BY <1>5, <3>1, <4>1, <4>2
    <3>3. ~Active(t) \/ Return(t) \/ Escape(t)
      <4>1. ASSUME ~Return(t), ~Escape(t) PROVE Active(t)' <=> Active(t)
        <5>1. TopMove(t) \/ Collects(t) \/ UNCHANGED calls
          BY <3>2, <4>1, TopMoves, CollectGarbageCollects
             DEF Continue, Advances, Catch, PerformBlock, EndBlock
        <5> QED BY <1>1, <5>1, ActiveStep
      <4> QED BY <2>2, <2>4, <4>1
    <3>4. Active(t) => u \in crowded
      BY <2>4, <3>1 DEF AloneInv, Crowds
    <3>5. Return(t) \/ Escape(t) => Active(t) /\ crowded \subseteq crowded' \cup {t}
      BY DEF Return, Escape, Finish
    <3>6. ~Return(t) /\ ~Escape(t) /\ ~Active(t)
      BY <1>5, <2>4, <3>3, <3>4, <3>5
    <3>7. CollectGarbage(t) \/ PerformBlock(t) \/ EndBlock(t)
      BY <3>2, <3>6 DEF Continue, Push, Enter, Catch, Succeed, Fail, Report, Wrap, BeginPop
    <3>8. UNCHANGED <<errorStack, told, crowded>>
      BY <3>7 DEF CollectGarbage, PerformBlock, EndBlock
    <3>9. OwnErrors(u) /\ Told(u)
      BY <1>5, <2>1, <3>1, <3>8 DEF AloneInv
    <3>10. /\ Len(calls'[u]) = Len(calls[u])
           /\ \A i \in 1..Len(calls[u]) :
                /\ calls'[u][i].kind = calls[u][i].kind /\ calls'[u][i].phase = calls[u][i].phase
                /\ calls'[u][i].ok = calls[u][i].ok /\ calls'[u][i].error = calls[u][i].error
      <4>1. CASE CollectGarbage(t)
        BY <4>1, CollectGarbageCollects DEF Collects
      <4>2. CASE PerformBlock(t) \/ EndBlock(t)
        BY <4>2 DEF PerformBlock, EndBlock
      <4> QED BY <3>7, <4>1, <4>2
    <3>11. Len(calls[u]) \in Nat /\ Len(calls[u]) \in 1..Len(calls[u])
      BY <3>1, LengthType
    <3>12. Own(u)' = Own(u) /\ (Ended(u)' <=> Ended(u))
      BY <3>10, <3>11 DEF Own, Ended
    <3>13. Ended(u)' => calls'[u][1].phase = calls[u][1].phase /\ calls'[u][1].ok = calls[u][1].ok
      BY <3>10, <3>11 DEF Ended
    <3>14. OwnErrors(u)'
      BY <3>8, <3>9, <3>12, <3>13, AloneSame
    <3>15. Told(u)'
      BY <3>8, <3>9, <3>10, <3>11 DEF Told
    <3> QED BY <3>14, <3>15
  <2> QED BY <2>3, <2>4
<1> QED
  BY <1>1, <1>3, <1>5 DEF AloneInv

-----------------------------------------------------------------------------
\* All of it.

EvaluationInv ==
  TypeOK /\ BelowTopRuns /\ LockInv /\ BalanceInv /\ CellsInv /\ AloneInv

LEMMA InitHolds == Init => EvaluationInv
<1> SUFFICES ASSUME Init PROVE EvaluationInv
  OBVIOUS
<1>1. /\ calls = [t \in Thread |-> <<>>] /\ errorStack = <<>> /\ inBlock = {}
      /\ lockOwner = NoThread /\ lockDepth = 0 /\ pending = FALSE /\ crowded = {}
      /\ told = [t \in Thread |-> {}] /\ left = 0 /\ torn = FALSE /\ escaped = FALSE
  BY DEF Init
<1>2. \A t \in Thread : calls[t] = <<>> /\ Len(calls[t]) = 0 /\ ~Active(t) /\ DOMAIN calls[t] = {}
  BY <1>1 DEF Active
<1>3. TypeOK
  <2>1. <<>> \in Seq(Call) /\ <<>> \in Seq(SUBSET Thread)
    BY EmptySeq
  <2>2. calls \in [Thread -> Seq(Call)]
    BY <1>1, <2>1
  <2>3. 0 \in 0..MaxLeft
    BY LeftAssumption
  <2> QED BY <1>1, <2>1, <2>2, <2>3 DEF TypeOK
<1>4. BelowTopRuns
  BY <1>2, DepthAssumption DEF BelowTopRuns
<1>5. LockInv
  <2>1. \A t \in Thread : Entered(t) = 0
    BY <1>1, <1>2 DEF Entered, InScripts, InBlocks, TopRuns
  <2> QED BY <1>1, <2>1, ThreadAssumption DEF LockInv
<1>6. BalanceInv
  <2>1. Entries = {}
    BY <1>2 DEF Entries
  <2>2. Len(errorStack) = 0
    BY <1>1
  <2>3. Cardinality(Entries) = 0
    BY <2>1, FS_EmptySet
  <2>4. IsFiniteSet(Entries)
    BY <2>1, FS_EmptySet
  <2> QED BY <1>1, <2>2, <2>3, <2>4 DEF BalanceInv
<1>7. CellsInv /\ AloneInv
  <2>1. \A t \in Thread : told[t] = {}
    BY <1>1
  <2>2. ToldInv
    BY <2>1 DEF ToldInv
  <2> QED BY <1>2, <2>2 DEF CellsInv, AloneInv, Crowds
<1> QED
  BY <1>3, <1>4, <1>5, <1>6, <1>7 DEF EvaluationInv

LEMMA NextKeeps == EvaluationInv /\ [Next]_vars => EvaluationInv'
<1> SUFFICES ASSUME EvaluationInv, [Next]_vars PROVE EvaluationInv'
  OBVIOUS
<1>1. CASE UNCHANGED vars
  <2>1. UNCHANGED <<lockOwner, lockDepth, inBlock, calls, errorStack, pending, crowded,
                    told, left, torn, escaped>>
    BY <1>1 DEF vars
  <2>2. TypeOK' /\ BelowTopRuns'
    BY <2>1 DEF EvaluationInv, TypeOK, BelowTopRuns
  <2>3. LockInv'
    BY <2>1 DEF EvaluationInv, LockInv, Entered, InScripts, InBlocks, TopRuns, Active
  <2>4. BalanceInv'
    BY <2>1 DEF EvaluationInv, BalanceInv, Entries
  <2>5. CellsInv'
    BY <2>1 DEF EvaluationInv, CellsInv
  <2>6. AloneInv'
    <3>1. UNCHANGED <<Crowds, ToldInv>>
      BY <2>1 DEF Crowds, Active, ToldInv, Own
    <3>2. \A t \in Thread : (OwnErrors(t)' <=> OwnErrors(t)) /\ (Told(t)' <=> Told(t))
      BY <2>1 DEF OwnErrors, Holds, Told, Own, Ended, Rank
    <3> QED BY <2>1, <3>1, <3>2 DEF EvaluationInv, AloneInv, Active
  <2> QED BY <2>2, <2>3, <2>4, <2>5, <2>6 DEF EvaluationInv
<1>2. CASE Next
  <2>1. PICK t \in Thread : Continue(t) \/ \E kind \in Kind : Start(t, kind)
    BY <1>2 DEF Next
  <2>2. TypeOK /\ BelowTopRuns /\ LockInv /\ BalanceInv /\ CellsInv /\ AloneInv
    BY DEF EvaluationInv
  <2>3. Moves(t) /\ ErrorMoves(t)
    BY <2>1, <2>2, StepMoves, ErrorsMove
  <2>4. BelowTopRuns' /\ calls' \in [Thread -> Seq(Call)] /\ errorStack' \in Seq(SUBSET Thread)
        /\ left' \in 0..MaxLeft /\ torn' \in BOOLEAN
    BY <2>2, <2>3, ShapeStep, ErrorStackType
  <2>5. LockInv' /\ lockDepth' \in Nat /\ lockOwner' \in Thread \cup {NoThread}
    BY <2>1, <2>2, LockStep
  <2>6. /\ inBlock' \subseteq Thread /\ crowded' \subseteq Thread
        /\ pending' \in BOOLEAN /\ escaped' \in BOOLEAN
    <3>1. inBlock \subseteq Thread /\ crowded \subseteq Thread /\ pending \in BOOLEAN /\ escaped \in BOOLEAN
      BY <2>2 DEF TypeOK
    <3>2. CASE \E kind \in Kind : Start(t, kind)
      BY <3>1, <3>2, Zenon DEF Start
    <3>3. CASE Return(t) \/ Escape(t)
      BY <3>1, <3>3 DEF Return, Escape, Finish
    <3>4. CASE Continue(t) /\ ~Return(t) /\ ~Escape(t)
      BY <3>1, <3>4 DEF Continue, Push, Enter, Catch, ConversionFails, Succeed, Fail, Report, Wrap,
                        BeginPop, CollectGarbage, PerformBlock, EndBlock, LeaveScript
    <3> QED BY <2>1, <3>2, <3>3, <3>4
  <2>7. AloneInv' /\ told' \in [Thread -> SUBSET Nat]
    BY <2>1, <2>2, <2>4, AloneStep
  <2>10. TypeOK'
    BY <2>4, <2>5, <2>6, <2>7 DEF TypeOK
  <2>8. BalanceInv'
    BY <2>2, <2>3, <2>4, <2>10, BalanceStep
  <2>9. CellsInv'
    BY <2>1, <2>2, CellsStep
  <2> QED BY <2>4, <2>5, <2>7, <2>8, <2>9, <2>10 DEF EvaluationInv
<1> QED
  BY <1>1, <1>2

\* EvaluationInv holds in every reachable state.
LEMMA InvHolds == Spec => []EvaluationInv
BY InitHolds, NextKeeps, PTL DEF Spec

\* The lock, the calls of the threads, the error stack and the results keep their types,
\* whatever the threads do: the race on the array included.
THEOREM TypeCorrect == Spec => []TypeOK
<1>1. EvaluationInv => TypeOK
  BY DEF EvaluationInv
<1> QED
  BY <1>1, InvHolds, PTL

\* The recursive lock of @synchronized(_runtime) is held by the thread that runs scripts or
\* a block, once for each, whatever the threads and however deep their calls nest.
THEOREM LockFollowsCalls == Spec => []LockMatchesCalls
<1>1. ASSUME EvaluationInv PROVE LockMatchesCalls
  <2>1. TypeOK /\ BelowTopRuns /\ LockInv
    BY <1>1 DEF EvaluationInv
  <2>2. ASSUME NEW t \in Thread PROVE Cardinality(Running(t)) = InScripts(t)
    <3>1. Len(calls[t]) \in Nat /\ DOMAIN calls[t] = 1..Len(calls[t]) /\ InScripts(t) \in Nat
          /\ (Active(t) <=> Len(calls[t]) > 0)
      BY <2>1, LengthType, EnteredType
    <3>2. \A i \in 1..Len(calls[t]) : i \in 1..(Len(calls[t]) - 1) \/ i = Len(calls[t])
      BY <3>1
    <3>3. \A i \in 1..(Len(calls[t]) - 1) : calls[t][i].phase = "running"
      BY <2>1 DEF BelowTopRuns
    <3>4. Running(t) = 1..InScripts(t)
      BY <3>1, <3>2, <3>3 DEF Running, InScripts, TopRuns
    <3> QED BY <3>1, <3>4, FS_Interval
  <2> QED BY <2>1, <2>2 DEF LockMatchesCalls, LockInv, Entered, InBlocks
<1> QED
  BY <1>1, InvHolds, PTL

\* -evaluateString: pushes and pops outside of the lock; if no two threads do so at the same
\* time, _errorStack has one entry for each evaluation in progress and one for each that an
\* NSException has left: no pop finds it empty, and no evaluation that returns leaves one.
THEOREM ErrorStackMatches == Spec => []ErrorStackBalanced
<1>1. EvaluationInv => ErrorStackBalanced
  BY DEF EvaluationInv, BalanceInv, Entries, ErrorStackBalanced
<1> QED
  BY <1>1, InvHolds, PTL

\* No collection takes the result of a getter, or of a call made inside -performBlock:,
\* before -initWithContext:value: has rooted it.
THEOREM ResultsAreKept == Spec => []ResultsSurvive
<1>1. ASSUME EvaluationInv PROVE ResultsSurvive
  <2>1. TypeOK /\ CellsInv
    BY <1>1 DEF EvaluationInv
  <2>2. \A t \in Thread : DOMAIN calls[t] = 1..Len(calls[t])
    BY <2>1, LengthType
  <2> QED BY <2>1, <2>2 DEF CellsInv, ResultsSurvive
<1> QED
  BY <1>1, InvHolds, PTL

\* The `error` argument of an evaluation that overlapped no call of another thread holds what
\* its own script and the failed conversions of its own native code reported, for any number of
\* threads that take turns; until threads race on the array or an NSException leaves a script.
THEOREM CallersGetTheirErrors == Spec => []ErrorsReachTheirCaller
<1>1. ASSUME EvaluationInv PROVE ErrorsReachTheirCaller
  <2>1. TypeOK /\ BelowTopRuns /\ AloneInv
    BY <1>1 DEF EvaluationInv
  <2>2. SUFFICES ASSUME ~torn, ~escaped, NEW t \in Thread \ crowded, NEW i \in DOMAIN calls[t],
                        calls[t][i].kind = "evaluate",
                        calls[t][i].phase \in {"reported", "wrapped", "popping"}
                 PROVE  /\ calls[t][i].error \subseteq {t}
                        /\ (i = 1 /\ ~calls[t][i].ok) \/ i \in told[t] => calls[t][i].error = {t}
                        /\ i > 1 /\ i \notin told[t] => calls[t][i].error = {}
    BY DEF ErrorsReachTheirCaller
  <2>3. /\ Len(calls[t]) \in Nat /\ DOMAIN calls[t] = 1..Len(calls[t])
        /\ Active(t) <=> Len(calls[t]) > 0
    BY <2>1, LengthType
  <2>4. i = Len(calls[t])
    BY <2>1, <2>2, <2>3 DEF BelowTopRuns
  <2>5. Told(t)
    BY <2>1, <2>2, <2>3, <2>4 DEF AloneInv
  <2> QED BY <2>2, <2>4, <2>5 DEF Told
<1> QED
  BY <1>1, InvHolds, PTL
=============================================================================
