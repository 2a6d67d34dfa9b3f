----------------------------- MODULE ObjectBridge -----------------------------
(***************************************************************************)
(* XJSClass: JS objects that wrap Objective-C objects.  A wrapper owns its *)
(* native object until the collector finalizes it, and a native object     *)
(* remembers its wrapper in each runtime, weakly, in a dictionary that is  *)
(* attached to it: the same object must be the same object in scripts.     *)
(*                                                                         *)
(* A thread that works in a runtime holds its lock, so there is at most    *)
(* one call of XJSGetOrCreateJSObject in progress in a runtime; but calls  *)
(* in different runtimes share the dictionary of the native object.  The   *)
(* calls that the creation of a wrapper makes for the class of the object  *)
(* are calls for other native objects; they disturb nothing here.          *)
(***************************************************************************)
EXTENDS Integers, Sequences, FiniteSets, Runtimes

CONSTANTS
  Native,          \* Objective-C objects
  Method,          \* methods that return an object ...
  Owned,           \* ... and hand a reference over to the caller
  Prefixed,        \* ... and have a selector that starts with alloc, copy, mutableCopy or new
  MaxWrappers      \* bound: wrappers and dictionaries made in a behaviour

ASSUME MethodAssumption == Owned \subseteq Method /\ Prefixed \subseteq Method
ASSUME MethodNoneAssumption == None \notin Native \cup Method \cup Nat
ASSUME MaxWrappersAssumption == MaxWrappers \in Nat

Wrapper == [native : Native, context : Context \cup {None}]
Call == [native : Native, context : Context, method : Method \cup {None},
         dict : (1..MaxWrappers) \cup {None}]

ASSUME CallAssumption == None \notin Call

VARIABLES
  wrappers,      \* wrappers made so far: native object, context of their creation; None is
                 \* that of a JS object that owns a native object and did not become a wrapper
  held,          \* wrappers that scripts or XJSValues refer to
  finalized,     \* wrappers the collector has freed
  dicts,         \* dictionaries made so far: runtime -> wrapper whose weak reference is stored
  association,   \* the dictionary attached to each native object
  work,          \* the call of XJSGetOrCreateJSObject in progress in each runtime
  program,       \* native objects the program itself refers to
  surplus,       \* references of a native object that have no owner any more (negative:
                 \* owners that have no reference)
  lost           \* history: <<native, runtime>> whose dictionary was replaced

vars == <<alive, wrappers, held, finalized, dicts, association, work, program, surplus, lost>>

Init ==
  /\ alive = Context
  /\ wrappers = <<>> /\ held = {} /\ finalized = {}
  /\ dicts = <<>>
  /\ association = [n \in Native |-> None]
  /\ work = [r \in Runtime |-> None]
  /\ program = Native
  /\ surplus = [n \in Native |-> 0]
  /\ lost = {}

Wrapping(n) == {w \in DOMAIN wrappers \ finalized : wrappers[w].native = n}
Working(n) == {r \in Runtime : work[r] # None /\ work[r].native = n}
References(n) == surplus[n] + Cardinality(Wrapping(n)) + (IF n \in program THEN 1 ELSE 0)

\* No reference is left; the autorelease pool keeps what a call works on.
Deallocated(n) == Working(n) = {} /\ References(n) <= 0

\* The program asks for the wrapper of an object it has (method = None), or a script
\* calls a method that returns n.  The dictionary is read.
Begin(c, n, method) ==
  LET r == RuntimeOf[c] IN
    /\ c \in alive /\ work[r] = None /\ ~Deallocated(n)
    /\ method = None => n \in program
    /\ surplus' = [surplus EXCEPT ![n] = IF method \in Owned THEN @ + 1 ELSE @]
    /\ work' = [work EXCEPT ![r] =
         [native |-> n, context |-> c, method |-> method, dict |-> association[n]]]
    /\ UNCHANGED <<alive, wrappers, held, finalized, dicts, association, program, lost>>

\* There was none: a new one is attached, in place of what another thread may have
\* attached meanwhile.
Associate(r) ==
  /\ work[r] # None /\ work[r].dict = None
  /\ Len(dicts) < MaxWrappers
  /\ LET n == work[r].native
         old == association[n] IN
       /\ dicts' = Append(dicts, [q \in Runtime |-> None])
       /\ association' = [association EXCEPT ![n] = Len(dicts) + 1]
       /\ work' = [work EXCEPT ![r].dict = Len(dicts) + 1]
       /\ lost' = IF old = None THEN lost ELSE
            lost \cup {<<n, q>> : q \in {q \in Runtime : dicts[old][q] # None \/
                                     (q \in Working(n) /\ work[q].dict = old)}}
  /\ UNCHANGED <<alive, wrappers, held, finalized, program, surplus>>

\* What the weak reference of a wrapper answers.
Answers(w) == w # None /\ w \notin finalized /\ wrappers[w].context \in alive

\* A balance for every returned object, whatever the selector.
BalancedAlways(call) == [surplus EXCEPT ![call.native] = @ - 1]

\* The returned value is balanced: the bridge guesses from the selector whether the
\* method has handed a reference over, and releases it.
Balanced(call) ==
  [surplus EXCEPT ![call.native] = IF call.method \in Prefixed THEN @ - 1 ELSE @]

Cached(r) == dicts[work[r].dict][r]

UseWrapper(r) ==
  /\ work[r] # None /\ work[r].dict # None
  /\ Answers(Cached(r))
  /\ held' = held \cup {Cached(r)}
  /\ surplus' = Balanced(work[r])
  /\ work' = [work EXCEPT ![r] = None]
  /\ UNCHANGED <<alive, wrappers, finalized, dicts, association, program, lost>>

\* A call that does not remember the wrapper it makes.
CreateWrapperForgotten(r) ==
  /\ work[r] # None /\ work[r].dict # None
  /\ ~Answers(Cached(r))
  /\ Len(wrappers) < MaxWrappers
  /\ wrappers' = Append(wrappers, [native |-> work[r].native, context |-> work[r].context])
  /\ held' = held \cup {Len(wrappers) + 1}
  /\ surplus' = Balanced(work[r])
  /\ work' = [work EXCEPT ![r] = None]
  /\ UNCHANGED <<alive, finalized, dicts, association, program, lost>>

CreateWrapper(r) ==
  /\ work[r] # None /\ work[r].dict # None
  /\ ~Answers(Cached(r))
  /\ Len(wrappers) < MaxWrappers
  /\ wrappers' = Append(wrappers, [native |-> work[r].native, context |-> work[r].context])
  /\ held' = held \cup {Len(wrappers) + 1}
  /\ dicts' = [dicts EXCEPT ![work[r].dict][r] = Len(wrappers) + 1]
  /\ surplus' = Balanced(work[r])
  /\ work' = [work EXCEPT ![r] = None]
  /\ UNCHANGED <<alive, finalized, association, program, lost>>

\* The context has no runtime entry object or the class of the native object is not
\* registered: the JS object that was made for it gets no prototype and is not handed out,
\* but owns it until it is collected.  XLCFail raises, and the call ends there; or it says
\* so and goes on, and then a reference that answers nothing takes the place of the old
\* one and the call answers null.
CreateFails(r, raises) ==
  /\ work[r] # None /\ work[r].dict # None
  /\ ~Answers(Cached(r))
  /\ Len(wrappers) < MaxWrappers
  /\ wrappers' = Append(wrappers, [native |-> work[r].native, context |-> None])
  /\ IF raises THEN UNCHANGED <<dicts, surplus>>
     ELSE /\ dicts' = [dicts EXCEPT ![work[r].dict][r] = None]
          /\ surplus' = Balanced(work[r])
  /\ work' = [work EXCEPT ![r] = None]
  /\ UNCHANGED <<alive, held, finalized, association, program, lost>>

\* XJSFinalizeImpl releases the native object; its dictionary goes with the last
\* reference.
Finalize(w) ==
  /\ w \in DOMAIN wrappers \ (held \cup finalized)
  /\ finalized' = finalized \cup {w}
  /\ UNCHANGED <<alive, wrappers, held, dicts, association, work, program, surplus, lost>>
-----------------------------------------------------------------------------
\* The rest of the program.

ScriptsForget(w) ==
  /\ held' = held \ {w}
  /\ UNCHANGED <<alive, wrappers, finalized, dicts, association, work, program, surplus, lost>>

ProgramReleases(n) ==
  /\ program' = program \ {n}
  /\ UNCHANGED <<alive, wrappers, held, finalized, dicts, association, work, surplus, lost>>

\* Scripts of another context of the runtime may go on with the wrappers it made.
ContextDies(c) ==
  /\ work[RuntimeOf[c]] # None => work[RuntimeOf[c]].context # c
  /\ alive' = alive \ {c}
  /\ UNCHANGED <<wrappers, held, finalized, dicts, association, work, program, surplus, lost>>

Next ==
  \/ \E c \in Context, n \in Native, method \in Method \cup {None} : Begin(c, n, method)
  \/ \E r \in Runtime : Associate(r) \/ UseWrapper(r) \/ CreateWrapper(r)
  \/ \E r \in Runtime, raises \in BOOLEAN : CreateFails(r, raises)
  \/ \E w \in DOMAIN wrappers : Finalize(w) \/ ScriptsForget(w)
  \/ \E n \in Native : ProgramReleases(n)
  \/ \E c \in Context : ContextDies(c)

Spec == Init /\ [][Next]_vars
-----------------------------------------------------------------------------
TypeOK ==
  /\ alive \subseteq Context
  /\ wrappers \in Seq(Wrapper)
  /\ held \subseteq DOMAIN wrappers /\ finalized \subseteq DOMAIN wrappers
  /\ dicts \in Seq([Runtime -> DOMAIN wrappers \cup {None}])
  /\ association \in [Native -> DOMAIN dicts \cup {None}]
  /\ work \in [Runtime -> Call \cup {None}]
  /\ program \subseteq Native
  /\ surplus \in [Native -> Int]
  /\ lost \subseteq Native \X Runtime

\* A native object is one object to the scripts of a runtime: two wrappers of it are in
\* use only if the context that made the first is gone (its weak reference is deaf
\* then) or if threads of two runtimes attached a dictionary at the same time ("it is
\* fine to lost some update").
OneWrapperEach ==
  \A v, w \in held :
    LET n == wrappers[v].native
        r == RuntimeOf[wrappers[v].context] IN
      /\ v < w
      /\ wrappers[w].native = n
      /\ RuntimeOf[wrappers[w].context] = r
      => wrappers[v].context \notin alive \/ <<n, r>> \in lost

\* No wrapper outlives its native object, nor does a JS object that was to become one: as
\* long as every selector with one of the four prefixes does hand a reference over, no
\* call releases too much.
WrappedNativesLive ==
  Prefixed \subseteq Owned =>
    \A n \in Native : Wrapping(n) # {} => References(n) > 0
=============================================================================
