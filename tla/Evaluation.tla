------------------------------ MODULE Evaluation ------------------------------
(***************************************************************************)
(* How native threads run scripts of one XJSContext: the recursive lock of *)
(* the runtime (@synchronized(_runtime)), the error stack that takes an    *)
(* uncaught exception to the `error` argument of -evaluateString:, and the *)
(* step from a raw result of SpiderMonkey to an XJSValue that roots it.    *)
(* The error stack is an NSMutableArray that no lock guards: a push or a   *)
(* pop takes time, and when two threads change it at once it may hold      *)
(* anything from then on: `torn` is set and errorStack is modelled no more.*)
(*                                                                         *)
(* Three kinds of calls differ in what they do outside the lock:           *)
(*   "evaluate"  -evaluateString:...  pushes and pops the error stack and  *)
(*               wraps its result outside                                  *)
(*   "call"      -callWithArguments:, -constructWithArguments: and         *)
(*               -invokeMethod:...   wrap their result outside             *)
(*   "get"       the subscript getters  wrap their result inside           *)
(* While a script runs, native code it calls may start further calls on    *)
(* the same thread, convert values and raise an NSException through it.    *)
(***************************************************************************)
EXTENDS Naturals, FiniteSets, Sequences, SequencesExt

CONSTANTS
  Thread,     \* native threads that use the context
  NoThread,   \* the lock is free
  MaxDepth,   \* bound: calls that nest on one thread
  MaxLeft     \* bound: pops of the error stack that are skipped

ASSUME ThreadAssumption == NoThread \notin Thread
ASSUME DepthAssumption == MaxDepth \in Nat
ASSUME LeftAssumption == MaxLeft \in Nat

VARIABLES
  lockOwner,   \* the thread inside @synchronized(_runtime)
  lockDepth,   \* how often it has entered
  inBlock,     \* threads inside -performBlock:
  calls,       \* calls[t]: the calls of thread t, outermost first
  errorStack,  \* _errorStack: for each entry, the threads whose errors it holds
  pending,     \* an exception is pending in the JSContext
  crowded,     \* history: threads whose calls in progress have overlapped another thread's
  told,        \* history: told[t]: evaluations of t, by depth, with a failed conversion in them
  left,        \* history: evaluations that an NSException left before the pop
  torn,        \* two threads were changing _errorStack at the same time
  escaped      \* history: an NSException has gone through the frames of SpiderMonkey

vars == <<lockOwner, lockDepth, inBlock, calls, errorStack, pending, crowded, told, left, torn, escaped>>

Kind  == {"evaluate", "call", "get"}
Phase == {"pushing", "started", "running", "ran", "reported", "wrapped", "popping"}

\* The result of a call: no object yet or no success, an object only the native
\* stack of its thread refers to, one rooted by an XJSValue, one that was collected.
Cell == {"none", "raw", "rooted", "collected"}

Call == [kind : Kind, phase : Phase, ok : BOOLEAN, cell : Cell, error : SUBSET Thread]

Init ==
  /\ lockOwner = NoThread
  /\ lockDepth = 0
  /\ inBlock = {}
  /\ calls = [t \in Thread |-> <<>>]
  /\ errorStack = <<>>
  /\ pending = FALSE
  /\ crowded = {}
  /\ told = [t \in Thread |-> {}]
  /\ left = 0
  /\ torn = FALSE
  /\ escaped = FALSE

CanLock(t) == lockOwner \in {t, NoThread}
Acquire(t) == CanLock(t) /\ lockOwner' = t /\ lockDepth' = lockDepth + 1
ReleaseLockAtOnce ==        \* a lock that is not recursive
  lockDepth' = lockDepth - 1 /\ lockOwner' = NoThread
ReleaseLock ==
  /\ lockDepth' = lockDepth - 1
  /\ lockOwner' = IF lockDepth = 1 THEN NoThread ELSE lockOwner

Active(t) == calls[t] # <<>>
Top(t) == Last(calls[t])
Replaced(t, c) == [calls EXCEPT ![t] = Append(Front(@), c)]
Running(t) == {i \in DOMAIN calls[t] : calls[t][i].phase = "running"}

\* JS code of t is on the stack below the innermost call of t.
Nested(t) == \E i \in Running(t) : i < Len(calls[t])

\* Native code of t runs: outside of any call, or called by a script.
InNativeCode(t) == Active(t) => Top(t).phase = "running"

\* Another thread is changing the array _errorStack.
Disturbed(t) ==
  \E u \in Thread \ {t} : Active(u) /\ Top(u).phase \in {"pushing", "popping"}

\* t begins to add to the array or to remove from it.
BeginChange(t) ==
  /\ torn' = (torn \/ Disturbed(t))
  /\ errorStack' = IF torn' THEN <<>> ELSE errorStack

\* -[XJSRuntime performBlock:] and its end; the block makes any calls it likes.
PerformBlock(t) ==
  /\ ~Active(t) /\ t \notin inBlock
  /\ Acquire(t)
  /\ inBlock' = inBlock \cup {t}
  /\ UNCHANGED <<calls, errorStack, pending, crowded, told, left, torn, escaped>>

EndBlock(t) ==
  /\ ~Active(t) /\ t \in inBlock
  /\ ReleaseLock
  /\ inBlock' = inBlock \ {t}
  /\ UNCHANGED <<calls, errorStack, pending, crowded, told, left, torn, escaped>>

\* A call starts; an evaluation begins with [_errorStack addObject:].
Start(t, kind) ==
  /\ InNativeCode(t)
  /\ Len(calls[t]) < MaxDepth
  /\ calls' = [calls EXCEPT ![t] = Append(@,
       [kind |-> kind, phase |-> IF kind = "evaluate" THEN "pushing" ELSE "started",
        ok |-> FALSE, cell |-> "none", error |-> {}])]
  /\ crowded' = LET others == {u \in Thread \ {t} : Active(u)} IN
                IF others = {} THEN crowded ELSE crowded \cup others \cup {t}
  /\ IF kind = "evaluate" THEN BeginChange(t) ELSE UNCHANGED <<torn, errorStack>>
  /\ UNCHANGED <<lockOwner, lockDepth, inBlock, pending, told, left, escaped>>

\* Only an outermost evaluation makes an entry.
PushOutermost(t) ==
  /\ Active(t) /\ Top(t).phase = "pushing" /\ Top(t).kind = "evaluate"
  /\ errorStack' = IF torn \/ Nested(t) THEN errorStack ELSE Append(errorStack, {})
  /\ calls' = Replaced(t, [Top(t) EXCEPT !.phase = "started"])
  /\ UNCHANGED <<lockOwner, lockDepth, inBlock, pending, crowded, told, left, torn, escaped>>

Push(t) ==
  /\ Active(t) /\ Top(t).phase = "pushing" /\ Top(t).kind = "evaluate"
  /\ errorStack' = IF torn THEN errorStack ELSE Append(errorStack, {})
  /\ calls' = Replaced(t, [Top(t) EXCEPT !.phase = "started"])
  /\ UNCHANGED <<lockOwner, lockDepth, inBlock, pending, crowded, told, left, torn, escaped>>

Enter(t) ==
  /\ Active(t) /\ Top(t).phase = "started"
  /\ Acquire(t)
  /\ calls' = Replaced(t, [Top(t) EXCEPT !.phase = "running"])
  /\ UNCHANGED <<inBlock, errorStack, pending, crowded, told, left, torn, escaped>>

\* A catch clause of a running script.
Catch(t) ==
  /\ Active(t) /\ Top(t).phase = "running"
  /\ pending' = FALSE
  /\ UNCHANGED <<lockOwner, lockDepth, inBlock, calls, errorStack, crowded, told, left, torn, escaped>>

\* -[XJSContext addError:]: into the entry that is the last just then, nowhere when there
\* is none; and past it if the array is changing.
AddError(t) ==
  \/ errorStack' = IF errorStack = <<>> THEN errorStack
                   ELSE Append(Front(errorStack), Last(errorStack) \cup {t})
  \/ Disturbed(t) /\ UNCHANGED errorStack

\* Where an error lands that native code of t adds, if no other thread is at work.
InnermostEvaluation(t) ==
  {i \in DOMAIN calls[t] : /\ calls[t][i].kind = "evaluate"
                           /\ \A j \in DOMAIN calls[t] : calls[t][j].kind = "evaluate" => j <= i}

\* -[XJSValue toInt32] and the like, without the lock: when it fails, -reportErrorWithSelector:
\* adds an error while scripts are still running, and what a valueOf threw stays pending.
ConversionFails(t) ==
  /\ InNativeCode(t)
  /\ AddError(t)
  /\ pending' \in {pending, TRUE}
  /\ told' = [told EXCEPT ![t] = @ \cup InnermostEvaluation(t)]
  /\ crowded' = LET others == {u \in Thread \ {t} : Active(u)} IN
                IF Active(t) /\ others # {} THEN crowded \cup others \cup {t}
                ELSE crowded \cup others
  /\ UNCHANGED <<lockOwner, lockDepth, inBlock, calls, left, torn, escaped>>

\* On the way out of the outermost API call SpiderMonkey turns the exception that is
\* pending into an error report (JSOPTION_DONT_REPORT_UNCAUGHT is not set), which reportError
\* adds; on the way out of a nested one it stays pending.
\* After an NSException has skipped its frames, SpiderMonkey may take a script still to run.
LeaveScript(t, exception) ==
  \/ /\ exception /\ ~Nested(t)
     /\ pending' = FALSE
     /\ AddError(t)
  \/ /\ exception => Nested(t) \/ escaped
     /\ pending' = exception
     /\ UNCHANGED errorStack

\* The end of the @synchronized block.
Succeed(t) ==
  /\ Active(t) /\ Top(t).phase = "running"
  /\ LeaveScript(t, pending)
  /\ ReleaseLock
  /\ calls' = Replaced(t, [Top(t) EXCEPT
       !.ok = TRUE,
       !.phase = IF Top(t).kind = "get" THEN "wrapped" ELSE "ran",
       !.cell = IF Top(t).kind = "get" THEN "rooted" ELSE "raw"])
  /\ UNCHANGED <<inBlock, crowded, told, left, torn, escaped>>

Fail(t) ==
  /\ Active(t) /\ Top(t).phase = "running"
  /\ LeaveScript(t, TRUE)
  /\ ReleaseLock
  /\ calls' = Replaced(t, [Top(t) EXCEPT !.phase = "ran"])
  /\ UNCHANGED <<inBlock, crowded, told, left, torn, escaped>>

\* [self error]; it may find nothing while the array is changing.
ErrorsFound(t) ==
  IF torn THEN SUBSET Thread
  ELSE {IF errorStack = <<>> THEN {} ELSE Last(errorStack)} \cup (IF Disturbed(t) THEN {{}} ELSE {})

\* *error = [self error]
Report(t) ==
  /\ Active(t) /\ Top(t).phase = "ran" /\ Top(t).kind = "evaluate"
  /\ \E error \in ErrorsFound(t) :
       calls' = Replaced(t, [Top(t) EXCEPT !.phase = "reported", !.error = error])
  /\ UNCHANGED <<lockOwner, lockDepth, inBlock, errorStack, pending, crowded, told, left, torn, escaped>>

\* -[XJSValue initWithContext:value:] roots the result, in a lock of its own.
Wrap(t) ==
  /\ Active(t)
  /\ \/ Top(t).phase = "reported"
     \/ Top(t).phase = "ran" /\ Top(t).kind # "evaluate"
  /\ Top(t).ok => CanLock(t)
  /\ calls' = Replaced(t, [Top(t) EXCEPT
       !.phase = "wrapped", !.cell = IF @ = "raw" THEN "rooted" ELSE @])
  /\ UNCHANGED <<lockOwner, lockDepth, inBlock, errorStack, pending, crowded, told, left, torn, escaped>>

\* An evaluation begins [_errorStack removeLastObject].
BeginPop(t) ==
  /\ Active(t) /\ Top(t).phase = "wrapped" /\ Top(t).kind = "evaluate"
  /\ calls' = Replaced(t, [Top(t) EXCEPT !.phase = "popping"])
  /\ BeginChange(t)
  /\ UNCHANGED <<lockOwner, lockDepth, inBlock, pending, crowded, told, left, escaped>>

\* The innermost call of t is over.
Finish(t) ==
  /\ calls' = [calls EXCEPT ![t] = Front(@)]
  /\ told' = [told EXCEPT ![t] = @ \ {Len(calls[t])}]
  /\ crowded' = IF Len(calls[t]) = 1 THEN crowded \ {t} ELSE crowded

\* A failed evaluation returns before the pop.
ReturnEarly(t) ==
  /\ Active(t) /\ Top(t).phase = IF Top(t).kind = "evaluate" THEN "popping" ELSE "wrapped"
  /\ errorStack' = IF Top(t).kind = "evaluate" /\ Top(t).ok /\ errorStack # <<>>
                   THEN Front(errorStack) ELSE errorStack
  /\ Finish(t)
  /\ UNCHANGED <<lockOwner, lockDepth, inBlock, pending, left, torn, escaped>>

\* The end of the pop of an evaluation, and the return of a call.
Return(t) ==
  /\ Active(t)
  /\ \/ /\ Top(t).kind # "evaluate" /\ Top(t).phase = "wrapped"
        /\ UNCHANGED errorStack
     \/ /\ Top(t).kind = "evaluate" /\ Top(t).phase = "popping"
        /\ errorStack' = IF errorStack = <<>> THEN errorStack ELSE Front(errorStack)
  /\ Finish(t)
  /\ UNCHANGED <<lockOwner, lockDepth, inBlock, pending, left, torn, escaped>>

\* An NSException that native code raises below the script leaves JS_EvaluateScript or its
\* like and the call: @synchronized lets go of the lock, and an evaluation does not pop.
Escape(t) ==
  /\ Active(t) /\ Top(t).phase = "running"
  /\ ReleaseLock
  /\ \/ Top(t).kind = "evaluate" /\ left < MaxLeft /\ left' = left + 1
     \/ Top(t).kind # "evaluate" /\ UNCHANGED left
  /\ Finish(t)
  /\ escaped' = TRUE
  /\ UNCHANGED <<inBlock, errorStack, pending, torn>>

\* -[XJSRuntime gc], -gcIfNeed or an allocation: the collector sees roots and the
\* native stack of the thread it runs on, and no stack of another thread.
CollectGarbage(t) ==
  /\ CanLock(t)
  /\ InNativeCode(t)
  /\ calls' = [u \in Thread |-> IF u = t THEN calls[u] ELSE
       [i \in DOMAIN calls[u] |->
          IF calls[u][i].cell = "raw" THEN [calls[u][i] EXCEPT !.cell = "collected"]
          ELSE calls[u][i]]]
  /\ UNCHANGED <<lockOwner, lockDepth, inBlock, errorStack, pending, crowded, told, left, torn, escaped>>

Continue(t) ==
  \/ Push(t) \/ Enter(t) \/ Catch(t) \/ ConversionFails(t)
  \/ Succeed(t) \/ Fail(t) \/ Escape(t)
  \/ Report(t) \/ Wrap(t) \/ BeginPop(t) \/ Return(t)
  \/ CollectGarbage(t)
  \/ PerformBlock(t) \/ EndBlock(t)

Next == \E t \in Thread : Continue(t) \/ \E kind \in Kind : Start(t, kind)
Spec == Init /\ [][Next]_vars

-----------------------------------------------------------------------------
TypeOK ==
  /\ lockOwner \in Thread \cup {NoThread}
  /\ lockDepth \in Nat
  /\ inBlock \subseteq Thread
  /\ calls \in [Thread -> Seq(Call)]
  /\ errorStack \in Seq(SUBSET Thread)
  /\ pending \in BOOLEAN
  /\ crowded \subseteq Thread
  /\ told \in [Thread -> SUBSET Nat]
  /\ left \in 0..MaxLeft
  /\ torn \in BOOLEAN
  /\ escaped \in BOOLEAN

\* The recursive lock is held exactly by the thread that runs scripts or a block,
\* once for each of them: nested calls neither lock themselves out nor let another
\* thread in before the outermost one is done.
LockMatchesCalls ==
  \A t \in Thread :
    LET entered == Cardinality(Running(t)) + (IF t \in inBlock THEN 1 ELSE 0) IN
      IF lockOwner = t THEN lockDepth = entered /\ entered > 0 ELSE entered = 0

\* Unless two threads have changed it at the same time, the error stack has one
\* entry for each evaluation in progress and one for each that an NSException has left:
\* however calls nest and take turns, an evaluation finds an entry to pop and leaves none.
ErrorStackBalanced ==
  ~torn => Len(errorStack) = left + Cardinality({p \in Thread \X (1..MaxDepth) :
    /\ p[2] \in DOMAIN calls[p[1]]
    /\ calls[p[1]][p[2]].kind = "evaluate" /\ calls[p[1]][p[2]].phase # "pushing"})

\* What -performBlock: is for, and why the getters wrap inside the lock: the result of a
\* getter, and of every call a block makes, is not collected before it is rooted,
\* whatever other threads do.
ResultsSurvive ==
  \A t \in Thread : \A i \in DOMAIN calls[t] :
    t \in inBlock \/ calls[t][i].kind = "get" => calls[t][i].cell # "collected"

\* An evaluation that overlaps no call of another thread gets an error when it fails,
\* unless it is nested in another call of its thread, and when a conversion fails in it
\* and in no evaluation nested in it; a nested one gets no other error, and none gets the
\* error of another thread.
\* (No lock is held from the push to the pop, not even by performBlock. The claim ends when
\* two threads have changed the stack at once or an NSException has skipped a pop.)
ErrorsReachTheirCaller ==
  (~torn /\ ~escaped) => \A t \in Thread \ crowded : \A i \in DOMAIN calls[t] :
    LET c == calls[t][i] IN
      c.kind = "evaluate" /\ c.phase \in {"reported", "wrapped", "popping"} =>
        /\ c.error \subseteq {t}
        /\ (i = 1 /\ ~c.ok) \/ i \in told[t] => c.error = {t}
        /\ i > 1 /\ i \notin told[t] => c.error = {}
=============================================================================
