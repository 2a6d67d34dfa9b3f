----------------------------- MODULE SharingProofs -----------------------------
(***************************************************************************)
(* The registry of contexts and the threads that use it, for any number of *)
(* contexts, addresses, runtimes, threads and modules and any nesting:     *)
(* first ContextRegistry by itself, then Sharing: that its contexts live   *)
(* as ContextRegistry says, that no reference outlives its context, and    *)
(* which waits can close a circle.                                         *)
(***************************************************************************)
EXTENDS Sharing, StackLemmas, SequenceTheorems, TLAPS

EntryIsRegistered ==
  \A a \in Address : contextDict[a] # None =>
    phase[contextDict[a]] \in {"registered", "ready", "dying", "destroyed"}

\* A JSContext has one owner, and an entry is of an object that was registered at
\* that address and has not gone.  Needed together: a look-up tells objects apart
\* by the address only.
RegistryInv == TypeOK /\ NoEntryOfTheGone /\ EntryIsRegistered

\* One step of one context.
LEMMA StepKeepsInv ==
  ASSUME RegistryInv, NEW c \in Context, Step(c)
  PROVE  RegistryInv'
<1> USE NoneAssumption
    DEF RegistryInv, EntryIsRegistered, NoEntryOfTheGone, TypeOK, Phase, Owns
<1>1. CASE \E a \in Address : NewContext(c, a)
  BY <1>1 DEF NewContext
<1>2. CASE Register(c)
  BY <1>2 DEF Register
<1>3. CASE NewGlobal(c)
  BY <1>3 DEF NewGlobal
<1>4. CASE Release(c)
  BY <1>4 DEF Release
<1>5. CASE DestroyContext(c)
  BY <1>5 DEF DestroyContext
<1>6. CASE RemoveKey(c)
  BY <1>6 DEF RemoveKey
<1> QED
  BY <1>1, <1>2, <1>3, <1>4, <1>5, <1>6 DEF Step

LEMMA LookupKeepsInv ==
  ASSUME RegistryInv, Lookup
  PROVE  RegistryInv'
BY NoneAssumption
   DEF RegistryInv, EntryIsRegistered, NoEntryOfTheGone, TypeOK, Phase, Owns,
       Lookup, ContextForJSContext, Found

LEMMA RegistryInductive ==
  /\ Init => RegistryInv
  /\ RegistryInv /\ [Next]_vars => RegistryInv'
<1>1. Init => RegistryInv
  BY NoneAssumption
     DEF Init, RegistryInv, EntryIsRegistered, NoEntryOfTheGone, TypeOK, Phase, Owns
<1>2. RegistryInv /\ UNCHANGED vars => RegistryInv'
  BY DEF RegistryInv, EntryIsRegistered, NoEntryOfTheGone, TypeOK, Owns, vars
<1> QED
  BY <1>1, <1>2, StepKeepsInv, LookupKeepsInv DEF Next

\* No look-up by the pointer of an existing JSContext finds the object of another
\* one, however threads interleave and addresses are reused (NeverAnother), and no
\* entry of an object that has gone stays in the table (NoEntryOfTheGone).
THEOREM LookupSound == Spec => [](NeverAnother /\ NoEntryOfTheGone)
<1>1. ASSUME RegistryInv, NEW c \in Context, NEW a \in Address, Owns(c, a),
             Found(a) # None
      PROVE  Found(a) = c
  <2>1. Found(a) = contextDict[a] /\ Found(a) \in Context /\ Alive(Found(a))
    BY <1>1 DEF RegistryInv, TypeOK, Found
  <2>2. Owns(Found(a), a)
    BY <1>1, <2>1 DEF RegistryInv, NoEntryOfTheGone, Owns, Alive
  <2> QED
    BY <1>1, <2>1, <2>2 DEF RegistryInv, NoEntryOfTheGone
<1>2. RegistryInv => NeverAnother /\ NoEntryOfTheGone
  BY <1>1 DEF NeverAnother, RegistryInv
<1> QED
  BY <1>2, RegistryInductive, PTL DEF Spec
-----------------------------------------------------------------------------
\* What has an entry keeps it: a registered object that is not `reused` is in the
\* table, because no object that is destroyed but not gone shares its address.
FoundInv ==
  /\ RegistryInv
  /\ \A c \in Context \ reused, d \in Context :
       Owns(c, context[c]) /\ phase[d] = "destroyed" => context[d] # context[c]
  /\ \A c \in Context \ reused :
       phase[c] \in {"registered", "ready"} => contextDict[context[c]] = c

LEMMA StepKeepsFound ==
  ASSUME FoundInv, NEW c \in Context, Step(c)
  PROVE  FoundInv'
<1>1. RegistryInv'
  BY StepKeepsInv DEF FoundInv
<1> USE NoneAssumption
    DEF FoundInv, RegistryInv, NoEntryOfTheGone, TypeOK, Phase, Owns
<1>2. CASE \E a \in Address : NewContext(c, a)
  BY <1>1, <1>2 DEF NewContext
<1>3. CASE Register(c)
  BY <1>1, <1>3 DEF Register
<1>4. CASE NewGlobal(c)
  BY <1>1, <1>4 DEF NewGlobal
<1>5. CASE Release(c)
  BY <1>1, <1>5 DEF Release
<1>6. CASE DestroyContext(c)
  BY <1>1, <1>6 DEF DestroyContext
<1>7. CASE RemoveKey(c)
  BY <1>1, <1>7 DEF RemoveKey
<1> QED
  BY <1>2, <1>3, <1>4, <1>5, <1>6, <1>7 DEF Step

LEMMA LookupKeepsFound ==
  ASSUME FoundInv, Lookup
  PROVE  FoundInv'
<1>1. RegistryInv'
  BY LookupKeepsInv DEF FoundInv
<1> QED
  BY <1>1, NoneAssumption
     DEF FoundInv, RegistryInv, TypeOK, Owns, Lookup, ContextForJSContext, Found, Alive

\* Every context in use whose address was not taken over too early is found by its
\* own JSContext pointer (OthersAreFound).
THEOREM UnreusedContextsFound == Spec => []OthersAreFound
<1>1. Init => FoundInv
  <2>1. Init => RegistryInv
    BY RegistryInductive
  <2> QED
    BY <2>1 DEF Init, FoundInv
<1>2. FoundInv /\ [Next]_vars => FoundInv'
  <2>1. FoundInv /\ UNCHANGED vars => FoundInv'
    BY RegistryInductive DEF FoundInv, Owns, vars
  <2> QED
    BY <2>1, StepKeepsFound, LookupKeepsFound DEF Next
<1>3. FoundInv => OthersAreFound
  BY NoneAssumption DEF FoundInv, OthersAreFound, Found, Alive, RegistryInv, TypeOK
<1> QED
  BY <1>1, <1>2, <1>3, PTL DEF Spec
-----------------------------------------------------------------------------
(***************************************************************************)
(* The threads.                                                            *)
(***************************************************************************)

ContextOps == {"init", "dealloc", "use", "release", "find", "unroot", "wrap", "wrapped"}
RuntimeOps == {"init", "dealloc", "use", "release", "unroot"}
WrapOps == {"wrap", "wrapped"}

\* Those that a release or a finalizer leads to.
Releasing == {"unroot", "release", "dealloc"}

\* The methods that threads can be in: each has what it is for, and a section it has.
Frames ==
  {f \in Frame :
     /\ f.op \in ContextOps => f.c \in Context
     /\ f.op \in {"provide", "provided"} => f.c \in Context \cup {Block} /\ f.m \in ModuleId
     /\ f.op \in WrapOps => f.m \in Native
     /\ f.op # "init" => f.section # 3
     /\ f.op \notin {"init", "dealloc"} => f.section = 1}

OwnTypes ==
  /\ stack \in [Thread -> Seq(Frames)]
  /\ program \subseteq Context /\ kept \subseteq Context
  /\ global \in [ModuleId -> Context \cup {Block, None}]
  /\ refs \in [Native -> SUBSET Context]
  /\ overlapped \subseteq ModuleId /\ spread \subseteq Native

\* The locks and the number of the blocks of a method.
LEMMA LockOf ==
  ASSUME NEW f \in Frames
  PROVE  /\ f.op \in {"use", "release", "unroot"} =>
              Lock(f) = RuntimeOf[f.c] /\ Len(Sections(f)) = 1
         /\ f.op = "init" =>
              /\ Len(Sections(f)) = 3
              /\ Lock(f) = IF f.section = 2 THEN "contextDict" ELSE RuntimeOf[f.c]
         /\ f.op = "dealloc" =>
              /\ Len(Sections(f)) = 2
              /\ Lock(f) = IF f.section = 1 THEN RuntimeOf[f.c] ELSE "contextDict"
         /\ f.op \in {"find", "all"} => Lock(f) = "contextDict" /\ Len(Sections(f)) = 1
         /\ f.op \in {"provide", "provided"} =>
              Lock(f) = "globalModules" /\ Len(Sections(f)) = 1
         /\ f.op \in WrapOps => Lock(f) = f.m /\ Len(Sections(f)) = 1
<1>1. f.section \in 1..3 /\ f.op \in Op
  BY DEF Frames, Frame
<1>2. CASE f.op \in {"use", "release", "unroot"}
  BY <1>1, <1>2 DEF Frames, Lock, Sections, WrapOps
<1>3. CASE f.op = "init"
  BY <1>1, <1>3 DEF Frames, Lock, Sections, WrapOps
<1>4. CASE f.op = "dealloc"
  BY <1>1, <1>4 DEF Frames, Lock, Sections, WrapOps
<1>5. CASE f.op \in {"find", "all"}
  BY <1>1, <1>5 DEF Frames, Lock, Sections, WrapOps
<1>6. CASE f.op \in {"provide", "provided"}
  BY <1>1, <1>6 DEF Frames, Lock, Sections, WrapOps
<1>7. CASE f.op \in WrapOps
  BY <1>1, <1>7 DEF Frames, Lock, Sections, WrapOps
<1> QED
  BY <1>1, <1>2, <1>3, <1>4, <1>5, <1>6, <1>7 DEF Op, WrapOps

\* The method on top of a stack is the last of its elements.
LEMMA TopFrame ==
  ASSUME OwnTypes, NEW t \in Thread, stack[t] # <<>>
  PROVE  /\ Top(t) \in Frames /\ Len(stack[t]) \in Nat \ {0}
         /\ Top(t) = stack[t][Len(stack[t])] /\ Top(t) \in Methods(t)
<1>1. stack[t] \in Seq(Frames)
  BY DEF OwnTypes
<1>2. /\ Top(t) \in Frames /\ Len(stack[t]) \in Nat \ {0}
      /\ Top(t) = stack[t][Len(stack[t])]
  BY <1>1, LastFront DEF Top
<1>3. DOMAIN stack[t] = 1..Len(stack[t])
  BY <1>1, LenProperties
<1> QED
  BY <1>2, <1>3 DEF Methods

-----------------------------------------------------------------------------
\* What a step does to the stack of its thread, apart from what it is for.

Living == {"unborn", "created", "registered", "ready"}

Push(t) ==
  \E f \in Frames :
    /\ stack' = Pushed(t, f) /\ ~f.inside /\ f.op \notin {"provide", "provided", "wrapped"}
    /\ f.op \in RuntimeOps \cup WrapOps => Stays(t, f.c) \/ (f.op = "unroot" /\ spread # {})
    /\ \A c \in Context : Refers(f, c) => c \in program \/ phase[c] \in Living
    /\ f.op = "use" => f.c \in program
    /\ f.op \in {"find", "wrap"} => Within(t, "use") /\ f.c = Top(t).c
    /\ stack[t] = <<>> \/ Collects(t)
    /\ f.op \notin Releasing => stack[t] = <<>> \/ Within(t, "use")
ProvideMove(t) == \E m \in ModuleId, v \in Context \cup {Block} : StartProvide(t, m, v)

\* On to the next block, or from the release of the last reference to the dealloc.
GoOn(t) ==
  /\ stack[t] # <<>> /\ Top(t).inside
  /\ \E f \in Frames :
       /\ stack' = Replaced(t, f) /\ ~f.inside /\ f.c = Top(t).c
       /\ \/ f.op \in {"init", "dealloc"} /\ Top(t).op = f.op
          \/ f.op = "dealloc" /\ Top(t).op \in {"release", "unroot"}

Pop(t) == stack[t] # <<>> /\ Top(t).inside /\ stack' = Popped(t)

Stored(t) == [Top(t) EXCEPT !.op = "provided"]
StoreMove(t) ==
  /\ Within(t, "provide") /\ UNCHANGED overlapped
  /\ global' = [global EXCEPT ![Top(t).m] = Top(t).c]
  /\ \/ stack' = Replaced(t, Stored(t))
     \/ \E f \in Frames :
          /\ f.op = "release" /\ ~f.inside
          /\ f.c = global[Top(t).m] /\ f.c \in Context
          /\ stack' = [Replaced(t, Stored(t)) EXCEPT ![t] = Append(@, f)]

Wrapped(t) == [Top(t) EXCEPT !.op = "wrapped"]
WrapMove(t) ==
  /\ Within(t, "wrap")
  /\ \E f \in Frames :
       /\ f.op = "unroot" /\ ~f.inside
       /\ Alive(f.c) /\ RuntimeOf[f.c] = RuntimeOf[Top(t).c]
       /\ stack' = [Replaced(t, Wrapped(t)) EXCEPT ![t] = Append(@, f)]

Quiet(t) == Push(t) \/ Enter(t) \/ GoOn(t) \/ Pop(t) \/ UNCHANGED stack
Move(t) ==
  \/ Quiet(t) /\ UNCHANGED <<global, overlapped>>
  \/ ProvideMove(t)
  \/ StoreMove(t)
  \/ WrapMove(t) /\ UNCHANGED <<global, overlapped>>

LEMMA LeaveMoves ==
  ASSUME OwnTypes, NEW t \in Thread, stack[t] # <<>>, Top(t).inside, Leave(t)
  PROVE  GoOn(t) \/ Pop(t)
<1> DEFINE f == [Top(t) EXCEPT !.section = @ + 1, !.inside = FALSE]
<1>1. Top(t) \in Frames
  BY TopFrame
<1>2. CASE Top(t).section = Len(Sections(Top(t)))
  BY <1>2 DEF Leave, Pop
<1>3. CASE Top(t).section # Len(Sections(Top(t)))
  <2>1. Top(t).op \in {"init", "dealloc"}
    BY <1>1, <1>3, LockOf DEF Frames, Frame, Op, WrapOps
  <2>2. Top(t).section \in 1..3 /\ (Top(t).op # "init" => Top(t).section # 3)
    BY <1>1 DEF Frames, Frame
  <2>5. (Top(t).op = "init" => Top(t).section # 3) /\ (Top(t).op = "dealloc" => Top(t).section # 2)
    BY <1>1, <1>3, LockOf
  <2>6. Top(t).section + 1 \in 1..3 /\ (Top(t).op # "init" => Top(t).section + 1 # 3)
    BY <2>1, <2>2, <2>5
  <2>3. f \in Frames /\ f.op = Top(t).op /\ f.c = Top(t).c /\ ~f.inside
    BY <1>1, <2>1, <2>6 DEF Frames, Frame
  <2>4. stack' = Replaced(t, f)
    BY <1>3 DEF Leave
  <2> QED
    BY <2>1, <2>3, <2>4 DEF GoOn
<1> QED
  BY <1>2, <1>3

\* The methods that are put on a stack.
LEMMA ContextMethods ==
  ASSUME NEW op \in Op \ {"provided"}, NEW c \in Context
  PROVE  /\ op \notin {"provide", "provided", "wrap", "wrapped"} => Method(op, c, None) \in Frames
         /\ Method(op, c, None).op = op /\ Method(op, c, None).c = c
         /\ ~Method(op, c, None).inside
BY DEF Method, Frames, Frame, Op, ContextOps, WrapOps

LEMMA AllMethod ==
  /\ Method("all", None, None) \in Frames
  /\ Method("all", None, None).op = "all" /\ ~Method("all", None, None).inside
BY DEF Method, Frames, Frame, Op, ContextOps, WrapOps

LEMMA ProvideMethod ==
  ASSUME NEW m \in ModuleId, NEW v \in Context \cup {Block}
  PROVE  /\ Method("provide", v, m) \in Frames
         /\ Method("provide", v, m).op = "provide" /\ ~Method("provide", v, m).inside
         /\ Method("provide", v, m).c = v /\ Method("provide", v, m).m = m
BY DEF Method, Frames, Frame, Op, ContextOps, WrapOps

LEMMA WrapMethod ==
  ASSUME NEW n \in Native, NEW c \in Context
  PROVE  /\ Method("wrap", c, n) \in Frames
         /\ Method("wrap", c, n).op = "wrap" /\ ~Method("wrap", c, n).inside
         /\ Method("wrap", c, n).c = c /\ Method("wrap", c, n).m = n
BY DEF Method, Frames, Frame, Op, ContextOps, WrapOps

\* A method of the program, and one that something released leads to.
LEMMA PushOf ==
  ASSUME NEW t \in Thread, NEW f \in Frames, ~f.inside,
         f.op \notin {"provide", "provided", "wrapped"},
         f.op \in RuntimeOps \cup WrapOps => Stays(t, f.c), Runs(t), stack' = Pushed(t, f),
         \A c \in Context : Refers(f, c) => c \in program \/ phase[c] = "unborn",
         f.op = "use" => f.c \in program,
         f.op \in {"find", "wrap"} => Within(t, "use") /\ f.c = Top(t).c
  PROVE  Push(t)
BY DEF Push, Runs, Collects, Living

LEMMA PushOfReleasing ==
  ASSUME NEW t \in Thread, NEW f \in Frames, ~f.inside, f.op \in Releasing,
         Stays(t, f.c) \/ (f.op = "unroot" /\ spread # {}), Releases(t), stack' = Pushed(t, f),
         \A c \in Context : Refers(f, c) => c \in program \/ Alive(c)
  PROVE  Push(t)
BY DEF Push, Releases, Releasing, Alive, Living

LEMMA StartMoves ==
  ASSUME OwnTypes, NEW t \in Thread, Start(t)
  PROVE  Move(t)
<1>1. ASSUME NEW c \in Context, StartInit(t, c) PROVE Push(t)
  <2>1. Method("init", c, None) \in Frames /\ ~Method("init", c, None).inside
        /\ Method("init", c, None).c = c /\ Method("init", c, None).op = "init"
    BY ContextMethods DEF Op
  <2> QED
    BY <1>1, <2>1, PushOf, Zenon DEF StartInit, Refers
<1>2. ASSUME NEW c \in Context, DropContext(t, c) PROVE Push(t) \/ UNCHANGED stack
  <2>1. Method("dealloc", c, None) \in Frames /\ ~Method("dealloc", c, None).inside
        /\ Method("dealloc", c, None).c = c /\ Method("dealloc", c, None).op = "dealloc"
    BY ContextMethods DEF Op
  <2>2. \/ stack' = stack
        \/ stack' = Pushed(t, Method("dealloc", c, None))
    BY <1>2, Zenon DEF DropContext, Goes, Pushed
  <2>3. Releases(t) /\ Stays(t, c)
    BY <1>2 DEF DropContext
  <2>4. Method("dealloc", c, None).op \in Releasing
        /\ \A d \in Context : ~Refers(Method("dealloc", c, None), d)
    BY <2>1 DEF Releasing, Refers
  <2> QED
    BY <2>1, <2>2, <2>3, <2>4, PushOfReleasing, Zenon
<1>3. ASSUME NEW c \in Context, ReleaseValue(t, c) PROVE Push(t)
  <2>1. Method("release", c, None) \in Frames /\ ~Method("release", c, None).inside
        /\ Method("release", c, None).c = c /\ Method("release", c, None).op = "release"
    BY ContextMethods DEF Op
  <2>2. Releases(t) /\ Stays(t, c) /\ stack' = Pushed(t, Method("release", c, None)) /\ c \in program
    BY <1>3 DEF ReleaseValue
  <2>3. Method("release", c, None).op \in Releasing
    BY <2>1 DEF Releasing
  <2> QED
    BY <2>1, <2>2, <2>3, PushOfReleasing, Zenon DEF Refers
<1>4. ASSUME NEW c \in Context, StartUse(t, c) PROVE Push(t)
  <2>1. Method("use", c, None) \in Frames /\ ~Method("use", c, None).inside
        /\ Method("use", c, None).c = c /\ Method("use", c, None).op = "use"
    BY ContextMethods DEF Op
  <2> QED
    BY <1>4, <2>1, PushOf, Zenon DEF StartUse, Refers
<1>5. ASSUME StartFind(t) PROVE Push(t)
  <2>1. Top(t) \in Frames /\ Top(t).op = "use" /\ Within(t, "use")
    BY <1>5, TopFrame DEF StartFind, Runs, Within
  <2>2. Top(t).c \in Context
    BY <2>1 DEF Frames, ContextOps
  <2>3. /\ Method("find", Top(t).c, None) \in Frames /\ ~Method("find", Top(t).c, None).inside
        /\ Method("find", Top(t).c, None).op = "find"
        /\ Method("find", Top(t).c, None).c = Top(t).c
    BY <2>2, ContextMethods DEF Op
  <2> QED
    BY <1>5, <2>1, <2>3, PushOf, Zenon DEF StartFind, RuntimeOps, WrapOps, Refers
<1>6. ASSUME StartAll(t) PROVE Push(t)
  BY <1>6, AllMethod, PushOf, Zenon DEF StartAll, RuntimeOps, WrapOps, Refers
<1>7. ASSUME Keep(t) \/ ReloadAll(t) PROVE UNCHANGED stack
  BY <1>7 DEF Keep, ReloadAll
<1>10. ASSUME NEW n \in Native, StartWrap(t, n) PROVE Push(t)
  <2>1. Top(t) \in Frames /\ Top(t).op = "use" /\ Within(t, "use") /\ Runs(t)
    BY <1>10, TopFrame DEF StartWrap, Within
  <2>2. Top(t).c \in Context
    BY <2>1 DEF Frames, ContextOps
  <2>3. stack' = Pushed(t, Method("wrap", Top(t).c, n)) /\ Stays(t, Top(t).c)
    BY <1>10 DEF StartWrap, Stays
  <2> QED
    BY <2>1, <2>2, <2>3, WrapMethod, PushOf, Zenon DEF Refers
<1>11. ASSUME NEW n \in Native, NEW c \in Context, FreeReference(t, n, c)
       PROVE  Push(t) \/ UNCHANGED stack
  <2>1. Method("unroot", c, None) \in Frames /\ ~Method("unroot", c, None).inside
        /\ Method("unroot", c, None).c = c /\ Method("unroot", c, None).op = "unroot"
    BY ContextMethods DEF Op
  <2>2. Releases(t) /\ (Stays(t, c) \/ spread # {})
    BY <1>11 DEF FreeReference
  <2>3. CASE Alive(c)
    <3>1. stack' = Pushed(t, Method("unroot", c, None))
      BY <1>11, <2>3 DEF FreeReference
    <3>2. Method("unroot", c, None).op \in Releasing
      BY <2>1 DEF Releasing
    <3> QED
      BY <2>1, <2>2, <2>3, <3>1, <3>2, PushOfReleasing, Zenon DEF Refers
  <2>4. CASE ~Alive(c)
    BY <1>11, <2>4 DEF FreeReference
  <2> QED
    BY <2>3, <2>4
<1>8. UNCHANGED <<global, overlapped>> \/ ProvideMove(t)
  BY DEF Start, StartInit, DropContext, ReleaseValue, StartUse, StartFind, StartAll, Keep,
         ReloadAll, ProvideMove, StartWrap, FreeReference
<1>9. Quiet(t) \/ ProvideMove(t)
  BY <1>1, <1>2, <1>3, <1>4, <1>5, <1>6, <1>7, <1>10, <1>11 DEF Start, Quiet, ProvideMove
<1> QED
  BY <1>8, <1>9 DEF Move

LEMMA EndMoves ==
  ASSUME OwnTypes, NEW t \in Thread, EndBlock(t)
  PROVE  Move(t)
<1>1. CASE InitBlock(t) \/ DeallocBlock(t) \/ FindBlock(t) \/ AllBlock(t) \/ ProvidedBlock(t)
           \/ UseBlock(t) \/ LookBlock(t) \/ WrappedBlock(t)
  BY <1>1, LeaveMoves
     DEF InitBlock, DeallocBlock, FindBlock, AllBlock, ProvidedBlock, UseBlock, LookBlock,
         WrappedBlock, Within, Quiet, Move
<1>2. CASE ReleaseBlock(t) \/ UnrootBlock(t)
  <2>1. stack[t] # <<>> /\ Top(t).inside /\ Top(t).op \in {"release", "unroot"}
    BY <1>2 DEF ReleaseBlock, UnrootBlock, Within
  <2>5. UNCHANGED <<global, overlapped>>
    BY <1>2 DEF ReleaseBlock, UnrootBlock
  <2>2. PICK c \in Context : c = Top(t).c /\ Goes(t, c, Popped(t))
    BY <1>2 DEF ReleaseBlock, UnrootBlock
  <2>3. CASE stack' = Popped(t)
    BY <2>1, <2>3, <2>5 DEF Pop, Quiet, Move
  <2>4. CASE stack' = [Popped(t) EXCEPT ![t] = Append(@, Method("dealloc", c, None))]
    <3>1. t \in DOMAIN stack
      BY DEF OwnTypes
    <3>2. stack' = Replaced(t, Method("dealloc", c, None))
      BY <2>4, <3>1, Zenon DEF Popped, Replaced
    <3>3. Method("dealloc", c, None) \in Frames /\ ~Method("dealloc", c, None).inside
          /\ Method("dealloc", c, None).c = c /\ Method("dealloc", c, None).op = "dealloc"
      BY ContextMethods DEF Op
    <3> QED
      BY <2>1, <2>2, <2>5, <3>2, <3>3, Zenon DEF GoOn, Quiet, Move
  <2> QED
    BY <2>2, <2>3, <2>4 DEF Goes
<1>3. CASE Store(t)
  <2>1. /\ Within(t, "provide") /\ UNCHANGED overlapped
        /\ global' = [global EXCEPT ![Top(t).m] = Top(t).c]
    BY <1>3, Zenon DEF Store
  <2>2. CASE global[Top(t).m] \in Context
    <3>1. /\ Method("release", global[Top(t).m], None) \in Frames
          /\ ~Method("release", global[Top(t).m], None).inside
          /\ Method("release", global[Top(t).m], None).c = global[Top(t).m]
          /\ Method("release", global[Top(t).m], None).op = "release"
      BY <2>2, ContextMethods DEF Op
    <3>2. stack' = [Replaced(t, Stored(t)) EXCEPT
                     ![t] = Append(@, Method("release", global[Top(t).m], None))]
      BY <1>3, <2>2, Zenon DEF Store, Stored
    <3> QED
      BY <2>1, <2>2, <3>1, <3>2, Zenon DEF StoreMove, Move
  <2>3. CASE global[Top(t).m] \notin Context
    <3>1. stack' = Replaced(t, Stored(t))
      BY <1>3, <2>3, Zenon DEF Store, Stored
    <3> QED
      BY <2>1, <3>1, Zenon DEF StoreMove, Move
  <2> QED
    BY <2>2, <2>3
<1>4. CASE StoreBlock(t)
  <2>1. Within(t, "wrap") /\ UNCHANGED <<global, overlapped>> /\ stack[t] # <<>> /\ Top(t).inside
    BY <1>4 DEF StoreBlock, Within
  <2>2. CASE Leave(t)
    BY <2>1, <2>2, LeaveMoves DEF Quiet, Move
  <2>3. CASE ~Leave(t)
    <3>1. PICK d \in Same(Top(t).m, Top(t).c) :
            /\ Alive(d)
            /\ stack' = [Replaced(t, Wrapped(t)) EXCEPT
                           ![t] = Append(@, Method("unroot", d, None))]
      BY <1>4, <2>3, Zenon DEF StoreBlock, Wrapped
    <3>2. Top(t).m \in Native
      BY <2>1, TopFrame DEF Within, Frames, WrapOps
    <3>3. d \in Context /\ RuntimeOf[d] = RuntimeOf[Top(t).c]
      BY <3>1, <3>2 DEF Same, OwnTypes
    <3>4. /\ Method("unroot", d, None) \in Frames /\ ~Method("unroot", d, None).inside
          /\ Method("unroot", d, None).c = d /\ Method("unroot", d, None).op = "unroot"
      BY <3>3, ContextMethods DEF Op
    <3> QED
      BY <2>1, <3>1, <3>3, <3>4, Zenon DEF WrapMove, Move
  <2> QED
    BY <2>2, <2>3
<1> QED
  BY <1>1, <1>2, <1>3, <1>4 DEF EndBlock

LEMMA StepMoves ==
  ASSUME OwnTypes, SharingNext
  PROVE  \E t \in Thread : Move(t)
<1>1. ASSUME NEW t \in Thread, Enter(t) PROVE Move(t)
  BY <1>1 DEF Enter, Quiet, Move
<1> QED
  BY <1>1, StartMoves, EndMoves DEF SharingNext
-----------------------------------------------------------------------------
\* The frames that a step puts in place of others.
LEMMA NewFrames ==
  ASSUME OwnTypes, NEW t \in Thread, stack[t] # <<>>
  PROVE  /\ [Top(t) EXCEPT !.inside = TRUE] \in Frames
         /\ Top(t).op = "provide" => Stored(t) \in Frames
         /\ Top(t).op = "wrap" => Wrapped(t) \in Frames
<1>1. Top(t) \in Frames
  BY TopFrame
<1>2. [Top(t) EXCEPT !.inside = TRUE] \in Frames
  BY <1>1 DEF Frames, Frame
<1>3. ASSUME Top(t).op = "provide" PROVE Stored(t) \in Frames
  BY <1>1, <1>3 DEF Frames, Frame, Stored, Op, ContextOps, WrapOps
<1>4. ASSUME Top(t).op = "wrap" PROVE Wrapped(t) \in Frames
  BY <1>1, <1>4 DEF Frames, Frame, Wrapped, Op, ContextOps, WrapOps
<1> QED
  BY <1>2, <1>3, <1>4

\* g is s with another top on one stack, and with one more frame on it.
Exchange(g, s, t, e) ==
  \A u \in Thread :
    \/ u # t /\ g[u] = s[u]
    \/ /\ u = t /\ Len(g[u]) = Len(s[u]) /\ g[u][Len(s[u])] = e
       /\ \A j \in 1..(Len(s[u]) - 1) : g[u][j] = s[u][j]
PushOn(g, s, t, e) ==
  \A u \in Thread :
    \/ u # t /\ g[u] = s[u]
    \/ /\ u = t /\ Len(g[u]) = Len(s[u]) + 1 /\ g[u][Len(g[u])] = e
       /\ \A j \in 1..Len(s[u]) : g[u][j] = s[u][j]

LEMMA Exchanged ==
  ASSUME NEW s \in [Thread -> Seq(Frames)], NEW t \in Thread, NEW e \in Frames, s[t] # <<>>
  PROVE  /\ [s EXCEPT ![t] = Append(Front(@), e)] \in [Thread -> Seq(Frames)]
         /\ Exchange([s EXCEPT ![t] = Append(Front(@), e)], s, t, e)
<1> DEFINE g == [s EXCEPT ![t] = Append(Front(@), e)]
<1>1. s[t] \in Seq(Frames) /\ g[t] = Append(Front(s[t]), e) /\ \A x \in Thread \ {t} : g[x] = s[x]
  BY Zenon
<1>2. /\ Append(Front(s[t]), e) \in Seq(Frames) /\ Len(Append(Front(s[t]), e)) = Len(s[t])
      /\ \A j \in 1..(Len(s[t]) - 1) : Append(Front(s[t]), e)[j] = s[t][j]
      /\ Append(Front(s[t]), e)[Len(s[t])] = e
  BY <1>1, ExchangeTop
<1>3. g \in [Thread -> Seq(Frames)]
  BY <1>2, UpdateType, Zenon
<1> HIDE DEF g
<1>4. Exchange(g, s, t, e)
  BY <1>1, <1>2 DEF Exchange
<1> QED
  BY <1>3, <1>4 DEF g

LEMMA PushedOn ==
  ASSUME NEW s \in [Thread -> Seq(Frames)], NEW t \in Thread, NEW e \in Frames
  PROVE  /\ [s EXCEPT ![t] = Append(@, e)] \in [Thread -> Seq(Frames)]
         /\ PushOn([s EXCEPT ![t] = Append(@, e)], s, t, e)
<1> DEFINE g == [s EXCEPT ![t] = Append(@, e)]
<1>1. s[t] \in Seq(Frames) /\ g[t] = Append(s[t], e) /\ \A x \in Thread \ {t} : g[x] = s[x]
  BY Zenon
<1>2. /\ Append(s[t], e) \in Seq(Frames) /\ Len(Append(s[t], e)) = Len(s[t]) + 1
      /\ \A j \in 1..Len(s[t]) : Append(s[t], e)[j] = s[t][j]
      /\ Append(s[t], e)[Len(s[t]) + 1] = e
  BY <1>1, AppendTop
<1>3. g \in [Thread -> Seq(Frames)]
  BY <1>2, UpdateType, Zenon
<1> HIDE DEF g
<1>4. PushOn(g, s, t, e)
  BY <1>1, <1>2 DEF PushOn
<1> QED
  BY <1>3, <1>4 DEF g

LEMMA MoveKeepsStacks ==
  ASSUME OwnTypes, NEW t \in Thread, Move(t)
  PROVE  stack' \in [Thread -> Seq(Frames)]
<1>1. stack \in [Thread -> Seq(Frames)]
  BY DEF OwnTypes
<1>2. ASSUME NEW f \in Frames, stack' = Pushed(t, f) PROVE stack' \in [Thread -> Seq(Frames)]
  BY <1>1, <1>2, PushOnOne DEF Pushed
<1>3. ASSUME NEW f \in Frames, stack[t] # <<>>
      PROVE  Replaced(t, f) \in [Thread -> Seq(Frames)]
  <2> DEFINE g == Replaced(t, f)
  <2>1. g = [stack EXCEPT ![t] = Append(Front(@), f)]
    BY Zenon DEF Replaced
  <2> HIDE DEF g
  <2>2. g \in [Thread -> Seq(Frames)]
    BY <1>1, <1>3, <2>1, Exchanged, Zenon
  <2> QED
    BY <2>2 DEF g
<1>4. CASE Quiet(t)
  <2>1. CASE Push(t)
    BY <1>2, <2>1 DEF Push
  <2>2. CASE Enter(t)
    BY <1>3, <2>2, NewFrames DEF Enter, Waits
  <2>3. CASE GoOn(t)
    BY <1>3, <2>3 DEF GoOn
  <2>4. CASE Pop(t)
    BY <1>1, <2>4, PopFromOne DEF Pop, Popped
  <2> QED
    BY <1>1, <1>4, <2>1, <2>2, <2>3, <2>4 DEF Quiet
<1>5. CASE ProvideMove(t)
  BY <1>2, <1>5, ProvideMethod DEF ProvideMove, StartProvide
<1>6. CASE StoreMove(t)
  <2>1. Replaced(t, Stored(t)) \in [Thread -> Seq(Frames)]
    BY <1>3, <1>6, NewFrames DEF StoreMove, Within
  <2>2. ASSUME NEW f \in Frames
        PROVE  [Replaced(t, Stored(t)) EXCEPT ![t] = Append(@, f)] \in [Thread -> Seq(Frames)]
    BY <2>1, PushOnOne
  <2> QED
    BY <1>6, <2>1, <2>2 DEF StoreMove
<1>7. CASE WrapMove(t)
  <2>1. Replaced(t, Wrapped(t)) \in [Thread -> Seq(Frames)]
    BY <1>3, <1>7, NewFrames DEF WrapMove, Within
  <2>2. ASSUME NEW f \in Frames
        PROVE  [Replaced(t, Wrapped(t)) EXCEPT ![t] = Append(@, f)] \in [Thread -> Seq(Frames)]
    BY <2>1, PushOnOne
  <2> QED
    BY <1>7, <2>1, <2>2 DEF WrapMove
<1> QED
  BY <1>4, <1>5, <1>6, <1>7 DEF Move

\* Every step is one of ContextRegistry, or leaves its variables alone.
LEMMA StepsOfRegistry ==
  ASSUME OwnTypes, TypeOK, SharingNext
  PROVE  [Next]_vars
<1>1. PICK t \in Thread : Start(t) \/ Enter(t) \/ EndBlock(t)
  BY DEF SharingNext
<1>2. ASSUME NEW c \in Context, NEW next, Goes(t, c, next) PROVE [Next]_vars
  BY <1>2 DEF Goes, Next, Step
<1>3. CASE Start(t) \/ Enter(t)
  BY <1>2, <1>3
     DEF Start, StartInit, DropContext, ReleaseValue, StartUse, StartFind, StartAll, Keep,
         ReloadAll, StartProvide, StartWrap, FreeReference, Enter
<1>4. CASE InitBlock(t)
  <2>1. Top(t) \in Frames /\ Top(t).op = "init"
    BY <1>4, TopFrame DEF InitBlock, Within
  <2>2. Top(t).c \in Context /\ Top(t).section \in 1..3
    BY <2>1 DEF Frames, Frame, ContextOps
  <2>3. Step(Top(t).c)
    <3>1. CASE Top(t).section = 1
      BY <1>4, <3>1 DEF InitBlock, Step
    <3>2. CASE Top(t).section = 2
      BY <1>4, <3>2 DEF InitBlock, Step
    <3>3. CASE Top(t).section = 3
      BY <1>4, <3>3 DEF InitBlock, Step
    <3> QED
      BY <2>2, <3>1, <3>2, <3>3
  <2> QED
    BY <2>2, <2>3 DEF Next
<1>5. CASE DeallocBlock(t)
  <2>1. Top(t) \in Frames /\ Top(t).op = "dealloc"
    BY <1>5, TopFrame DEF DeallocBlock, Within
  <2>2. Top(t).c \in Context
    BY <2>1 DEF Frames, ContextOps
  <2> QED
    BY <1>5, <2>2 DEF DeallocBlock, Step, Next
<1>6. CASE FindBlock(t)
  <2>1. ContextForJSContext(context[Top(t).c])
    BY <1>6 DEF FindBlock
  <2>2. CASE context[Top(t).c] \in Address
    BY <2>1, <2>2 DEF Next, Lookup
  <2>3. CASE context[Top(t).c] \notin Address
    BY <2>1, <2>3 DEF ContextForJSContext, TypeOK, vars
  <2> QED
    BY <2>2, <2>3
<1>7. CASE ReleaseBlock(t) \/ UnrootBlock(t)
  BY <1>2, <1>7 DEF ReleaseBlock, UnrootBlock
<1>8. CASE \/ AllBlock(t) \/ Store(t) \/ ProvidedBlock(t) \/ UseBlock(t)
           \/ LookBlock(t) \/ StoreBlock(t) \/ WrappedBlock(t)
  BY <1>8 DEF AllBlock, Store, ProvidedBlock, UseBlock, LookBlock, StoreBlock, WrappedBlock
<1> QED
  BY <1>1, <1>3, <1>4, <1>5, <1>6, <1>7, <1>8 DEF EndBlock

\* Whatever the program uses has been created: the pointer that a callback looks up is one.
Born ==
  /\ \A c \in program : phase[c] # "unborn"
  /\ \A t \in Thread : \A f \in Methods(t) :
       f.op \in {"use", "find"} => phase[f.c] # "unborn"

\* The context of the method on top.
TopIs(c) == c \in Context /\ \E t \in Thread : stack[t] # <<>> /\ Refers(Top(t), c)

\* Where new references of the program, of managers and of global modules come from.
LEMMA ReferenceSteps ==
  ASSUME OwnTypes, TypeOK, Born, SharingNext
  PROVE  /\ \A c \in program' : \/ c \in program
                                \/ c \in Context /\ Alive(c)
                                \/ TopIs(c) /\ phase'[c] # "unborn"
         /\ \A c \in kept' : c \in kept \/ TopIs(c)
         /\ \/ UNCHANGED global
            \/ \E t \in Thread :
                 Within(t, "provide") /\ global' = [global EXCEPT ![Top(t).m] = Top(t).c]
<1>1. PICK t \in Thread : Start(t) \/ Enter(t) \/ EndBlock(t)
  BY DEF SharingNext
<1>2. CASE Start(t) \/ Enter(t)
  <2>1. CASE Keep(t)
    <3>1. Top(t) \in Frames /\ Top(t).op = "use" /\ stack[t] # <<>>
      BY <2>1, TopFrame DEF Keep, Within
    <3>2. TopIs(Top(t).c)
      BY <3>1 DEF TopIs, Refers, Frames, ContextOps
    <3> QED
      BY <2>1, <3>2 DEF Keep
  <2>2. CASE ~Keep(t)
    BY <1>2, <2>2
       DEF Start, StartInit, DropContext, ReleaseValue, StartUse, StartFind, StartAll,
           ReloadAll, StartProvide, StartWrap, FreeReference, Enter
  <2> QED
    BY <2>1, <2>2
<1>3. CASE InitBlock(t)
  <2>1. Top(t) \in Frames /\ Top(t).op = "init" /\ stack[t] # <<>>
    BY <1>3, TopFrame DEF InitBlock, Within
  <2>2. Top(t).c \in Context /\ TopIs(Top(t).c)
    BY <2>1 DEF Frames, ContextOps, Refers, TopIs
  <2>3. CASE Top(t).section = 3
    <3>1. NewGlobal(Top(t).c) /\ program' = program \cup {Top(t).c}
      BY <1>3, <2>3 DEF InitBlock
    <3>2. phase'[Top(t).c] = "ready"
      BY <2>2, <3>1 DEF NewGlobal, TypeOK
    <3> QED
      BY <1>3, <2>2, <3>1, <3>2 DEF InitBlock
  <2>4. CASE Top(t).section # 3
    BY <1>3, <2>4 DEF InitBlock
  <2> QED
    BY <2>3, <2>4
<1>4. CASE FindBlock(t)
  <2>1. Top(t) \in Frames /\ Top(t) \in Methods(t) /\ Top(t).op = "find"
    BY <1>4, TopFrame DEF FindBlock, Within
  <2>2. Top(t).c \in Context /\ phase[Top(t).c] # "unborn"
    BY <2>1 DEF Frames, ContextOps, Born
  <2>3. context[Top(t).c] \in Address
    BY <2>2 DEF TypeOK
  <2>4. \A c \in {Found(context[Top(t).c])} \ {None} : c \in Context /\ Alive(c)
    BY <2>3 DEF Found, TypeOK
  <2> QED
    BY <1>4, <2>4 DEF FindBlock
<1>5. CASE AllBlock(t)
  <2>1. \A a \in Address : Found(a) # None => Found(a) \in Context /\ Alive(Found(a))
    BY DEF Found, TypeOK
  <2> QED
    BY <1>5, <2>1 DEF AllBlock
<1>6. CASE Store(t)
  BY <1>6, Zenon DEF Store
<1>7. CASE \/ ReleaseBlock(t) \/ DeallocBlock(t) \/ ProvidedBlock(t) \/ UseBlock(t)
           \/ StoreBlock(t) \/ WrappedBlock(t) \/ UnrootBlock(t)
  BY <1>7 DEF ReleaseBlock, DeallocBlock, ProvidedBlock, UseBlock, StoreBlock, WrappedBlock,
              UnrootBlock
<1>8. CASE LookBlock(t)
  <2>1. Top(t) \in Frames /\ Top(t).op = "wrap"
    BY <1>8, TopFrame DEF LookBlock, Within
  <2>2. Top(t).m \in Native
    BY <2>1 DEF Frames, WrapOps
  <2>3. Same(Top(t).m, Top(t).c) \subseteq Context
    BY <2>2 DEF Same, OwnTypes
  <2> QED
    BY <1>8, <2>3 DEF LookBlock
<1> QED
  BY <1>1, <1>2, <1>3, <1>4, <1>5, <1>6, <1>7, <1>8 DEF EndBlock

\* Where the methods of the next state come from.
LEMMA MethodSteps ==
  ASSUME OwnTypes, NEW t \in Thread, Move(t), NEW u \in Thread, NEW f \in Methods(u)'
  PROVE  \/ f \in Methods(u)
         \/ u = t /\ Within(t, "use") /\ f.op = "find" /\ f.c = Top(t).c
         \/ u = t /\ f.op \in {"use", "provide"} /\ (f.c \in Context => f.c \in program)
         \/ u = t /\ f.op \notin {"use", "find"}
            /\ \A c \in Context : Refers(f, c) =>
                 \/ Owned(c)
                 \/ phase[c] \in Living
         \/ u = t /\ stack[t] # <<>> /\ f.op = Top(t).op /\ f.c = Top(t).c
<1>1. PICK i \in DOMAIN stack'[u] : f = stack'[u][i]
  BY DEF Methods
<1>2. stack \in [Thread -> Seq(Frames)] /\ stack' \in [Thread -> Seq(Frames)]
  BY MoveKeepsStacks DEF OwnTypes
<1>3. DOMAIN stack[u] = 1..Len(stack[u]) /\ DOMAIN stack'[u] = 1..Len(stack'[u])
      /\ Len(stack[u]) \in Nat /\ Len(stack'[u]) \in Nat
  BY <1>2, LenProperties
<1>4. \A j \in 1..Len(stack[u]) : stack[u][j] \in Methods(u)
  BY <1>3 DEF Methods
<1>5. ASSUME NEW e \in Frames, stack' = Pushed(t, e)
      PROVE  f \in Methods(u) \/ (u = t /\ f = e)
  <2>1. \/ stack'[u] = stack[u]
        \/ /\ u = t /\ Len(stack'[u]) = Len(stack[u]) + 1 /\ stack'[u][Len(stack'[u])] = e
           /\ \A j \in 1..Len(stack[u]) : stack'[u][j] = stack[u][j]
    BY <1>2, <1>5, PushOnOne DEF Pushed
  <2> QED
    BY <1>1, <1>3, <1>4, <2>1
<1>6. ASSUME NEW e \in Frames, stack[t] # <<>>, stack' = Replaced(t, e)
      PROVE  f \in Methods(u) \/ (u = t /\ f = e)
  <2>1. stack' = [stack EXCEPT ![t] = Append(Front(@), e)]
    BY <1>6, Zenon DEF Replaced
  <2>2. Exchange([stack EXCEPT ![t] = Append(Front(@), e)], stack, t, e)
    BY <1>2, <1>6, Exchanged, Zenon
  <2>3. Exchange(stack', stack, t, e)
    BY <2>1, <2>2, Zenon
  <2> QED
    BY <1>1, <1>3, <1>4, <2>3 DEF Exchange
<1>7. ASSUME stack[t] # <<>>, stack' = Popped(t)
      PROVE  f \in Methods(u)
  <2>1. \/ stack'[u] = stack[u]
        \/ /\ u = t /\ Len(stack'[u]) = Len(stack[u]) - 1
           /\ \A j \in 1..Len(stack'[u]) : stack'[u][j] = stack[u][j]
    BY <1>2, <1>7, PopFromOne DEF Popped
  <2> QED
    BY <1>1, <1>3, <1>4, <2>1
<1>8. CASE Push(t)
  <2>1. PICK e \in Frames :
          /\ stack' = Pushed(t, e)
          /\ e.op \notin {"provide", "provided"}
          /\ \A c \in Context : Refers(e, c) => c \in program \/ phase[c] \in Living
          /\ e.op = "use" => e.c \in program
          /\ e.op = "find" => Within(t, "use") /\ e.c = Top(t).c
    BY <1>8 DEF Push
  <2>2. \A c \in program : Owned(c)
    BY DEF Owned
  <2> QED
    BY <1>5, <2>1, <2>2
<1>9. CASE Enter(t)
  <2>1. stack[t] # <<>> /\ stack' = Replaced(t, [Top(t) EXCEPT !.inside = TRUE])
    BY <1>9 DEF Enter, Waits
  <2>2. [Top(t) EXCEPT !.inside = TRUE] \in Frames /\ Top(t) \in Frames
    BY <2>1, NewFrames, TopFrame
  <2>3. f \in Methods(u) \/ (u = t /\ f = [Top(t) EXCEPT !.inside = TRUE])
    BY <1>6, <2>1, <2>2
  <2>4. [Top(t) EXCEPT !.inside = TRUE].op = Top(t).op
        /\ [Top(t) EXCEPT !.inside = TRUE].c = Top(t).c
    BY <2>2 DEF Frames, Frame
  <2> QED
    BY <2>1, <2>3, <2>4
<1>10. CASE GoOn(t)
  <2>1. PICK e \in Frames :
          /\ stack' = Replaced(t, e) /\ e.c = Top(t).c
          /\ \/ e.op \in {"init", "dealloc"} /\ Top(t).op = e.op
             \/ e.op = "dealloc" /\ Top(t).op \in {"release", "unroot"}
    BY <1>10 DEF GoOn
  <2>2. stack[t] # <<>>
    BY <1>10 DEF GoOn
  <2> QED
    BY <1>6, <2>1, <2>2 DEF Refers
<1>11. CASE Pop(t)
  BY <1>7, <1>11 DEF Pop
<1>12. CASE UNCHANGED stack
  BY <1>1, <1>3, <1>4, <1>12
<1>13. CASE ProvideMove(t)
  <2>1. PICK m \in ModuleId, v \in Context \cup {Block} :
          v \in program \cup {Block} /\ stack' = Pushed(t, Method("provide", v, m))
    BY <1>13 DEF ProvideMove, StartProvide
  <2>2. f \in Methods(u) \/ (u = t /\ f = Method("provide", v, m))
    BY <1>5, <2>1, ProvideMethod
  <2> QED
    BY <2>1, <2>2, ProvideMethod, BlockAssumption
<1>14. CASE StoreMove(t)
  <2>1. stack[t] # <<>> /\ Top(t) \in Frames /\ Top(t).op = "provide" /\ Stored(t) \in Frames
    BY <1>14, TopFrame, NewFrames DEF StoreMove, Within
  <2>2. Top(t).m \in ModuleId /\ Stored(t).op = "provided"
    BY <2>1 DEF Frames, Frame, Stored
  <2>3. CASE stack' = Replaced(t, Stored(t))
    BY <1>6, <2>1, <2>2, <2>3 DEF Refers
  <2>4. ASSUME NEW e \in Frames, e.op = "release", e.c = global[Top(t).m], e.c \in Context,
               stack' = [Replaced(t, Stored(t)) EXCEPT ![t] = Append(@, e)]
        PROVE  f \in Methods(u) \/ (u = t /\ f \in {Stored(t), e})
    <3> DEFINE g == Replaced(t, Stored(t))
    <3>1. g = [stack EXCEPT ![t] = Append(Front(@), Stored(t))]
      BY Zenon DEF Replaced
    <3>2. stack' = [g EXCEPT ![t] = Append(@, e)]
      BY <2>4
    <3> HIDE DEF g
    <3>3. g \in [Thread -> Seq(Frames)] /\ Exchange(g, stack, t, Stored(t))
      BY <1>2, <2>1, <3>1, Exchanged, Zenon
    <3>4. PushOn([g EXCEPT ![t] = Append(@, e)], g, t, e)
      BY <3>3, PushedOn, Zenon
    <3>5. PushOn(stack', g, t, e)
      BY <3>2, <3>4, Zenon
    <3> QED
      BY <1>1, <1>3, <1>4, <3>3, <3>5 DEF Exchange, PushOn
  <2>5. ASSUME NEW c \in Context, c = global[Top(t).m] PROVE Owned(c)
    BY <2>2, <2>5 DEF Owned
  <2> QED
    BY <1>14, <2>2, <2>3, <2>4, <2>5 DEF StoreMove, Refers
<1>15. CASE WrapMove(t)
  <2>1. stack[t] # <<>> /\ Top(t) \in Frames /\ Top(t).op = "wrap" /\ Wrapped(t) \in Frames
    BY <1>15, TopFrame, NewFrames DEF WrapMove, Within
  <2>2. Wrapped(t).op = "wrapped"
    BY <2>1 DEF Frames, Frame, Wrapped
  <2>3. PICK e \in Frames :
          /\ e.op = "unroot" /\ Alive(e.c)
          /\ stack' = [Replaced(t, Wrapped(t)) EXCEPT ![t] = Append(@, e)]
    BY <1>15 DEF WrapMove
  <2>4. f \in Methods(u) \/ (u = t /\ f \in {Wrapped(t), e})
    <3> DEFINE g == Replaced(t, Wrapped(t))
    <3>1. g = [stack EXCEPT ![t] = Append(Front(@), Wrapped(t))]
      BY Zenon DEF Replaced
    <3>2. stack' = [g EXCEPT ![t] = Append(@, e)]
      BY <2>3
    <3> HIDE DEF g
    <3>3. g \in [Thread -> Seq(Frames)] /\ Exchange(g, stack, t, Wrapped(t))
      BY <1>2, <2>1, <3>1, Exchanged, Zenon
    <3>4. PushOn([g EXCEPT ![t] = Append(@, e)], g, t, e)
      BY <3>3, PushedOn, Zenon
    <3>5. PushOn(stack', g, t, e)
      BY <3>2, <3>4, Zenon
    <3> QED
      BY <1>1, <1>3, <1>4, <3>3, <3>5 DEF Exchange, PushOn
  <2>5. phase[e.c] \in Living
    BY <2>3 DEF Alive, Living
  <2> QED
    BY <2>2, <2>3, <2>4, <2>5 DEF Refers
<1> QED
  BY <1>8, <1>9, <1>10, <1>11, <1>12, <1>13, <1>14, <1>15 DEF Move, Quiet
-----------------------------------------------------------------------------
\* Nobody's dealloc begins while somebody refers to it.
LEMMA OwnedNotReleased ==
  ASSUME OwnTypes, TypeOK, SharingNext, NEW c \in Context, Owned(c)', phase[c] \in Living
  PROVE  phase'[c] \in Living
<1>1. PICK t \in Thread : Start(t) \/ Enter(t) \/ EndBlock(t)
  BY DEF SharingNext
<1>2. ASSUME NEW d \in Context, NEW next, Goes(t, d, next) PROVE phase'[c] \in Living
  <2>1. UNCHANGED vars \/ (~Owned(d)' /\ Release(d))
    BY <1>2, Zenon DEF Goes
  <2>2. ASSUME ~Owned(d)', Release(d) PROVE phase'[c] = phase[c]
    <3>1. c # d
      BY <2>2, Zenon
    <3> QED
      BY <2>2, <3>1 DEF Release, TypeOK
  <2> QED
    BY <2>1, <2>2 DEF vars
<1>3. CASE Start(t) \/ Enter(t)
  <2>1. \/ \E d \in Context : Goes(t, d, stack)
        \/ UNCHANGED vars
    BY <1>3
       DEF Start, StartInit, DropContext, ReleaseValue, StartUse, StartFind, StartAll, Keep,
           ReloadAll, StartProvide, StartWrap, FreeReference, Enter
  <2> QED
    BY <1>2, <2>1 DEF vars
<1>4. CASE InitBlock(t)
  <2>1. Top(t) \in Frames /\ Top(t).op = "init"
    BY <1>4, TopFrame DEF InitBlock, Within
  <2>2. Top(t).c \in Context /\ Top(t).section \in 1..3
    BY <2>1 DEF Frames, Frame, ContextOps
  <2>3. CASE Top(t).section = 1
    BY <1>4, <2>2, <2>3 DEF InitBlock, NewContext, Living, TypeOK
  <2>4. CASE Top(t).section = 2
    BY <1>4, <2>2, <2>4 DEF InitBlock, Register, Living, TypeOK
  <2>5. CASE Top(t).section = 3
    BY <1>4, <2>2, <2>5 DEF InitBlock, NewGlobal, Living, TypeOK
  <2> QED
    BY <2>2, <2>3, <2>4, <2>5
<1>5. CASE DeallocBlock(t)
  <2>1. DestroyContext(Top(t).c) \/ RemoveKey(Top(t).c)
    BY <1>5 DEF DeallocBlock
  <2> QED
    BY <2>1 DEF DestroyContext, RemoveKey, Living, TypeOK
<1>6. CASE FindBlock(t)
  BY <1>6 DEF FindBlock, ContextForJSContext
<1>7. CASE ReleaseBlock(t) \/ UnrootBlock(t)
  BY <1>2, <1>7 DEF ReleaseBlock, UnrootBlock
<1>8. CASE \/ AllBlock(t) \/ Store(t) \/ ProvidedBlock(t) \/ UseBlock(t)
           \/ LookBlock(t) \/ StoreBlock(t) \/ WrappedBlock(t)
  BY <1>8 DEF AllBlock, Store, ProvidedBlock, UseBlock, LookBlock, StoreBlock, WrappedBlock, vars
<1> QED
  BY <1>1, <1>3, <1>4, <1>5, <1>6, <1>7, <1>8 DEF EndBlock

\* A new reference is made from another, or out of the table to a living context.
LEMMA OwnedBefore ==
  ASSUME OwnTypes, TypeOK, Born, SharingNext, NEW c \in Context, Owned(c)'
  PROVE  Owned(c) \/ phase[c] \in Living
<1>1. ASSUME NEW t \in Thread, stack[t] # <<>>, Refers(Top(t), c) PROVE Owned(c)
  BY <1>1, TopFrame DEF Owned
<1>2. CASE c \in program' \cup kept'
  <2>1. \/ c \in program \cup kept
        \/ Alive(c)
        \/ TopIs(c)
    BY <1>2, ReferenceSteps
  <2> QED
    BY <1>1, <2>1 DEF Owned, Alive, Living, TopIs
<1>3. ASSUME NEW u \in Thread, NEW f \in Methods(u)', Refers(f, c)
      PROVE  Owned(c) \/ phase[c] \in Living
  <2>1. PICK t \in Thread : Move(t)
    BY StepMoves
  <2>2. \/ f \in Methods(u)
        \/ f.op = "find"
        \/ f.c \in Context => f.c \in program
        \/ \A d \in Context : Refers(f, d) => Owned(d) \/ phase[d] \in Living
        \/ stack[t] # <<>> /\ f.op = Top(t).op /\ f.c = Top(t).c
    BY <2>1, MethodSteps
  <2>3. f.c = c /\ f.op \in {"init", "use", "release", "provide", "unroot"}
    BY <1>3 DEF Refers
  <2>4. CASE f \in Methods(u)
    BY <1>3, <2>4 DEF Owned
  <2>5. CASE c \in program
    BY <2>5 DEF Owned
  <2>6. CASE stack[t] # <<>> /\ f.op = Top(t).op /\ f.c = Top(t).c
    BY <1>1, <2>3, <2>6 DEF Refers
  <2> QED
    BY <1>3, <2>2, <2>3, <2>4, <2>5, <2>6 DEF Living
<1>4. ASSUME NEW m \in ModuleId, global'[m] = c PROVE Owned(c)
  <2>1. CASE UNCHANGED global
    BY <1>4, <2>1 DEF Owned
  <2>2. ASSUME NEW t \in Thread, Within(t, "provide"),
               global' = [global EXCEPT ![Top(t).m] = Top(t).c]
        PROVE  Owned(c)
    <3>1. CASE global[m] = c
      BY <3>1 DEF Owned
    <3>2. CASE global[m] # c
      <4>1. Top(t).c = c
        BY <1>4, <2>2, <3>2 DEF OwnTypes
      <4> QED
        BY <1>1, <2>2, <4>1 DEF Within, Refers
    <3> QED
      BY <3>1, <3>2
  <2> QED
    BY <2>1, <2>2, ReferenceSteps
<1> QED
  BY <1>2, <1>3, <1>4 DEF Owned

LEMMA TypesKept ==
  ASSUME OwnTypes, TypeOK, Born, SharingNext
  PROVE  OwnTypes'
<1>1. PICK t \in Thread : Move(t)
  BY StepMoves
<1>2. stack' \in [Thread -> Seq(Frames)]
  BY <1>1, MoveKeepsStacks
<1>3. ASSUME NEW u \in Thread, Within(u, "provide")
      PROVE  Top(u).m \in ModuleId /\ Top(u).c \in Context \cup {Block}
  <2>1. Top(u) \in Frames /\ Top(u).op = "provide"
    BY <1>3, TopFrame DEF Within
  <2> QED
    BY <2>1 DEF Frames
<1>4. program' \subseteq Context /\ kept' \subseteq Context
  BY ReferenceSteps DEF OwnTypes, TopIs
<1>5. global' \in [ModuleId -> Context \cup {Block, None}]
  BY <1>3, ReferenceSteps DEF OwnTypes
<1>6. overlapped' \subseteq ModuleId
  BY <1>1 DEF Move, ProvideMove, StartProvide, StoreMove, OwnTypes
<1>7. refs' \in [Native -> SUBSET Context] /\ spread' \subseteq Native
  <2>1. PICK u \in Thread : Start(u) \/ Enter(u) \/ EndBlock(u)
    BY DEF SharingNext
  <2>2. CASE UNCHANGED <<refs, spread>>
    BY <2>2 DEF OwnTypes
  <2>3. ASSUME NEW n \in Native, NEW c \in Context, FreeReference(u, n, c)
        PROVE  refs' \in [Native -> SUBSET Context] /\ spread' \subseteq Native
    BY <2>3 DEF FreeReference, OwnTypes
  <2>4. CASE StoreBlock(u)
    <3>1. Top(u) \in Frames /\ Top(u).op = "wrap"
      BY <2>4, TopFrame DEF StoreBlock, Within
    <3>2. Top(u).m \in Native /\ Top(u).c \in Context
      BY <3>1 DEF Frames, WrapOps, ContextOps
    <3>3. /\ refs' = [refs EXCEPT ![Top(u).m] = (@ \ Same(Top(u).m, Top(u).c)) \cup {Top(u).c}]
          /\ spread' \in {spread, spread \cup {Top(u).m}}
      BY <2>4 DEF StoreBlock
    <3> QED
      BY <3>2, <3>3 DEF OwnTypes
  <2>5. ASSUME Start(u) \/ Enter(u), \A n \in Native, c \in Context : ~FreeReference(u, n, c)
        PROVE  UNCHANGED <<refs, spread>>
    BY <2>5 DEF Start, StartInit, DropContext, ReleaseValue, StartUse, StartFind, StartAll, Keep,
         ReloadAll, StartProvide, StartWrap, Enter
  <2>6. ASSUME EndBlock(u), ~StoreBlock(u) PROVE UNCHANGED <<refs, spread>>
    BY <2>6 DEF EndBlock, InitBlock, ReleaseBlock, DeallocBlock, FindBlock, AllBlock, Store,
         ProvidedBlock, UseBlock, LookBlock, WrappedBlock, UnrootBlock
  <2> QED
    BY <2>1, <2>2, <2>3, <2>4, <2>5, <2>6
<1> QED
  BY <1>2, <1>4, <1>5, <1>6, <1>7 DEF OwnTypes

LEMMA BornKept ==
  ASSUME OwnTypes, TypeOK, Born, SharingNext
  PROVE  Born'
<1>1. [Next]_vars
  BY StepsOfRegistry
<1>2. \A c \in Context : phase[c] # "unborn" => phase'[c] # "unborn"
  BY <1>1
     DEF Next, Lookup, Step, NewContext, Register, NewGlobal, Release, DestroyContext,
         RemoveKey, ContextForJSContext, TypeOK, vars
<1>3. PICK t \in Thread : Move(t)
  BY StepMoves
<1>4. \A c \in program' : phase'[c] # "unborn"
  BY <1>2, ReferenceSteps DEF Born, Alive, OwnTypes
<1>5. ASSUME NEW u \in Thread, NEW f \in Methods(u), f.op \in {"use", "find"}
      PROVE  f.c \in Context /\ phase[f.c] # "unborn"
  <2>1. f \in Frames
    BY <1>5, ElementOfSeq DEF Methods, OwnTypes
  <2> QED
    BY <1>5, <2>1 DEF Frames, ContextOps, Born
<1>6. ASSUME NEW u \in Thread, NEW f \in Methods(u)', f.op \in {"use", "find"}
      PROVE  phase'[f.c] # "unborn"
  <2>1. f \in Frames
    <3>1. stack'[u] \in Seq(Frames)
      BY <1>3, MoveKeepsStacks
    <3> QED
      BY <3>1, ElementOfSeq DEF Methods
  <2>2. f.c \in Context
    BY <1>6, <2>1 DEF Frames, ContextOps
  <2>3. \/ f \in Methods(u)
        \/ Within(t, "use") /\ f.c = Top(t).c
        \/ f.c \in program
        \/ stack[t] # <<>> /\ f.op = Top(t).op /\ f.c = Top(t).c
    BY <1>3, <1>6, <2>2, MethodSteps
  <2>4. CASE f \in Methods(u)
    BY <1>2, <1>5, <1>6, <2>4
  <2>5. CASE f.c \in program
    BY <1>2, <2>2, <2>5 DEF Born
  <2>6. ASSUME stack[t] # <<>>, Top(t).op \in {"use", "find"}, f.c = Top(t).c
        PROVE  phase'[f.c] # "unborn"
    BY <1>2, <1>5, <2>6, TopFrame
  <2> QED
    BY <1>6, <2>3, <2>4, <2>5, <2>6 DEF Within
<1> QED
  BY <1>4, <1>6 DEF Born

OwnInv == OwnTypes /\ RegistryInv /\ Born /\ OwnedContextsLive

LEMMA OwnInductive ==
  /\ SharingInit => OwnInv
  /\ OwnInv /\ [SharingNext]_sharingVars => OwnInv' /\ [Next]_vars
<1>1. ASSUME SharingInit PROVE OwnInv
  <2>1. RegistryInv
    BY <1>1, RegistryInductive DEF SharingInit
  <2>2. <<>> \in Seq(Frames) /\ \A t \in Thread : Methods(t) = {}
    BY <1>1 DEF SharingInit, Methods
  <2>3. OwnTypes
    BY <1>1, <2>2 DEF SharingInit, OwnTypes
  <2>4. Born
    BY <1>1, <2>2 DEF SharingInit, Born
  <2>5. OwnedContextsLive
    BY <1>1 DEF SharingInit, Init, OwnedContextsLive
  <2> QED
    BY <2>1, <2>3, <2>4, <2>5 DEF OwnInv
<1>2. ASSUME OwnInv, SharingNext PROVE OwnInv' /\ [Next]_vars
  <2>1. OwnTypes /\ TypeOK /\ Born
    BY <1>2 DEF OwnInv, RegistryInv
  <2>2. [Next]_vars /\ OwnTypes' /\ Born'
    BY <1>2, <2>1, StepsOfRegistry, TypesKept, BornKept
  <2>3. RegistryInv'
    BY <1>2, <2>2, RegistryInductive DEF OwnInv
  <2>4. ASSUME NEW c \in Context, Owned(c)' PROVE phase'[c] \in Living
    <3>1. Owned(c) \/ phase[c] \in Living
      BY <1>2, <2>1, <2>4, OwnedBefore
    <3>2. phase[c] \in Living
      BY <1>2, <3>1 DEF OwnInv, OwnedContextsLive, Living
    <3> QED
      BY <1>2, <2>1, <2>4, <3>2, OwnedNotReleased
  <2>5. OwnedContextsLive'
    BY <2>4 DEF OwnedContextsLive, Living
  <2> QED
    BY <2>2, <2>3, <2>5 DEF OwnInv
<1>3. ASSUME OwnInv, UNCHANGED sharingVars PROVE OwnInv' /\ [Next]_vars
  <2>1. UNCHANGED vars /\ UNCHANGED own
    BY <1>3 DEF sharingVars
  <2>2. RegistryInv'
    BY <1>3, <2>1, RegistryInductive DEF OwnInv
  <2> QED
    BY <1>3, <2>1, <2>2
       DEF OwnInv, OwnTypes, Born, OwnedContextsLive, Owned, Methods, own, vars
<1> QED
  BY <1>1, <1>2, <1>3

\* The contexts that threads share live as ContextRegistry says: what its theorems state
\* of the table holds whatever locks threads take and whoever drops the last reference.
THEOREM SharingIsRegistry == SharingSpec => Spec
<1>1. SharingInit => Init
  BY DEF SharingInit
<1> QED
  BY <1>1, OwnInductive, PTL DEF SharingSpec, Spec

\* No reference that the program, a module or a method in progress holds is to a context
\* whose dealloc has begun (OwnedContextsLive).
THEOREM OwnedLive == SharingSpec => []OwnedContextsLive
<1>1. OwnInv => OwnedContextsLive
  BY DEF OwnInv
<1> QED
  BY <1>1, OwnInductive, PTL DEF SharingSpec

LEMMA CrossesStays ==
  ASSUME SharingNext
  PROVE  UNCHANGED crosses
<1>1. PICK t \in Thread : Start(t) \/ Enter(t) \/ EndBlock(t)
  BY DEF SharingNext
<1>2. CASE Start(t) \/ Enter(t)
  BY <1>2 DEF Start, StartInit, DropContext, ReleaseValue, StartUse, StartFind, StartAll, Keep,
              ReloadAll, StartProvide, StartWrap, FreeReference, Enter
<1>3. CASE EndBlock(t)
  BY <1>3 DEF EndBlock, InitBlock, ReleaseBlock, DeallocBlock, FindBlock, AllBlock, Store,
              ProvidedBlock, UseBlock, LookBlock, StoreBlock, WrappedBlock, UnrootBlock
<1> QED
  BY <1>1, <1>2, <1>3

\* The variables of threads and contexts keep their types.
THEOREM SharingTypes == SharingSpec => []SharingTypeOK
<1>1. SharingInit => crosses \in BOOLEAN
  BY DEF SharingInit
<1>2. crosses \in BOOLEAN /\ [SharingNext]_sharingVars => (crosses \in BOOLEAN)'
  BY CrossesStays DEF sharingVars, own
<1>3. ASSUME OwnInv, crosses \in BOOLEAN PROVE SharingTypeOK
  <2>1. TypeOK /\ OwnTypes
    BY <1>3 DEF OwnInv, RegistryInv
  <2>2. ASSUME NEW t \in Thread PROVE stack[t] \in Seq(Frame)
    <3>1. stack[t] \in Seq(Frames) /\ Frames \subseteq Frame
      BY <2>1 DEF OwnTypes, Frames
    <3> QED
      BY <3>1, ElementOfSeq, SeqDef
  <2>3. spread \subseteq Native /\ refs \in [Native -> SUBSET Context]
    BY <2>1 DEF OwnTypes
  <2> QED
    BY <1>3, <2>1, <2>2, <2>3 DEF OwnTypes, SharingTypeOK
<1> QED
  BY <1>1, <1>2, <1>3, OwnInductive, PTL DEF SharingSpec

\* So look-ups stay sound when threads share contexts (NeverAnother, OthersAreFound).
THEOREM SharedLookups == SharingSpec => []NeverAnother /\ []OthersAreFound
BY SharingIsRegistry, LookupSound, UnreusedContextsFound, PTL
-----------------------------------------------------------------------------
\* The shapes of a step, seen from the stacks.

PopOff(g, s, t) ==
  \A u \in Thread :
    \/ u # t /\ g[u] = s[u]
    \/ /\ u = t /\ Len(g[u]) = Len(s[u]) - 1
       /\ \A j \in 1..Len(g[u]) : g[u][j] = s[u][j]

Begins(m) ==
  /\ global[m] = None /\ UNCHANGED global
  /\ overlapped' = IF Providing(m) = {} THEN overlapped ELSE overlapped \cup {m}

\* Methods of one context, in whose runtime a program stays that does not cross.
Tied == RuntimeOps \cup WrapOps

Grow(t, e) ==
  /\ PushOn(stack', stack, t, e)
  /\ ~e.inside /\ e.op \notin {"provided", "wrapped"}
  /\ e.op \in Tied => Stays(t, e.c) \/ (e.op = "unroot" /\ spread # {})
  /\ stack[t] = <<>> \/ Collects(t)
  /\ e.op \notin Releasing => stack[t] = <<>> \/ Within(t, "use")
  /\ e.op = "wrap" => Within(t, "use")
  /\ e.op = "provide" => Begins(e.m)

\* The top goes on with another block, begins one, or has stored its module.
Turn(t, e) ==
  /\ Exchange(stack', stack, t, e)
  /\ stack[t] # <<>> /\ e.c = Top(t).c
  /\ \/ /\ ~e.inside /\ e.op \in {"init", "dealloc"}
        /\ e.op = Top(t).op \/ (e.op = "dealloc" /\ Top(t).op \in {"release", "unroot"})
     \/ Enter(t) /\ e.op = Top(t).op /\ Lock(e) = Lock(Top(t)) /\ e.m = Top(t).m
     \/ Within(t, "provide") /\ e.op = "provided" /\ Lock(e) = Lock(Top(t))

Shrink(t) == stack[t] # <<>> /\ PopOff(stack', stack, t)

\* The module, or the weak reference, is stored, and what it replaces is released.
Supersede(t, e) ==
  /\ ~e.inside
  /\ \E d \in Frames :
       /\ \/ /\ Within(t, "provide") /\ global[Top(t).m] \in Context
             /\ d.op = "provided" /\ e.op = "release"
          \/ /\ Within(t, "wrap") /\ RuntimeOf[e.c] = RuntimeOf[Top(t).c]
             /\ d.op = "wrapped" /\ e.op = "unroot"
       /\ d.inside /\ d.c = Top(t).c /\ Lock(d) = Lock(Top(t))
       /\ \E g \in [Thread -> Seq(Frames)] :
            Exchange(g, stack, t, d) /\ PushOn(stack', g, t, e)

Shape(t) ==
  \/ \E e \in Frames : Grow(t, e) \/ Turn(t, e) \/ Supersede(t, e)
  \/ Shrink(t)
  \/ UNCHANGED stack

\* The frames that a store leaves below what it releases.
LEMMA StoredFrame ==
  ASSUME OwnTypes, NEW t \in Thread
  PROVE  /\ Within(t, "provide") =>
              /\ Stored(t) \in Frames /\ Stored(t).inside /\ Stored(t).op = "provided"
              /\ Stored(t).c = Top(t).c /\ Lock(Stored(t)) = Lock(Top(t))
         /\ Within(t, "wrap") =>
              /\ Wrapped(t) \in Frames /\ Wrapped(t).inside /\ Wrapped(t).op = "wrapped"
              /\ Wrapped(t).c = Top(t).c /\ Lock(Wrapped(t)) = Lock(Top(t))
<1>1. ASSUME Within(t, "provide")
      PROVE  /\ Stored(t) \in Frames /\ Stored(t).inside /\ Stored(t).op = "provided"
             /\ Stored(t).c = Top(t).c /\ Lock(Stored(t)) = Lock(Top(t))
  <2>1. stack[t] # <<>> /\ Top(t) \in Frames /\ Top(t).op = "provide" /\ Top(t).inside
    BY <1>1, TopFrame DEF Within
  <2>2. Stored(t) \in Frames
    BY <2>1, NewFrames
  <2>3. Stored(t).op = "provided" /\ Stored(t).c = Top(t).c /\ Stored(t).inside
    BY <2>1 DEF Stored, Frames, Frame
  <2>4. Lock(Stored(t)) = "globalModules" /\ Lock(Top(t)) = "globalModules"
    BY <2>1, <2>2, <2>3, LockOf
  <2> QED
    BY <2>2, <2>3, <2>4
<1>2. ASSUME Within(t, "wrap")
      PROVE  /\ Wrapped(t) \in Frames /\ Wrapped(t).inside /\ Wrapped(t).op = "wrapped"
             /\ Wrapped(t).c = Top(t).c /\ Lock(Wrapped(t)) = Lock(Top(t))
  <2>1. stack[t] # <<>> /\ Top(t) \in Frames /\ Top(t).op = "wrap" /\ Top(t).inside
    BY <1>2, TopFrame DEF Within
  <2>2. Wrapped(t) \in Frames
    BY <2>1, NewFrames
  <2>3. /\ Wrapped(t).op = "wrapped" /\ Wrapped(t).c = Top(t).c /\ Wrapped(t).inside
        /\ Wrapped(t).m = Top(t).m
    BY <2>1 DEF Wrapped, Frames, Frame
  <2>4. Lock(Wrapped(t)) = Wrapped(t).m /\ Lock(Top(t)) = Top(t).m
    BY <2>1, <2>2, <2>3, LockOf DEF WrapOps
  <2> QED
    BY <2>2, <2>3, <2>4
<1> QED
  BY <1>1, <1>2

LEMMA ShapeOfMove ==
  ASSUME OwnTypes, NEW t \in Thread, Move(t)
  PROVE  Shape(t)
<1>1. stack \in [Thread -> Seq(Frames)]
  BY DEF OwnTypes
<1>2. ASSUME NEW e \in Frames, stack' = Pushed(t, e) PROVE PushOn(stack', stack, t, e)
  <2>1. PushOn([stack EXCEPT ![t] = Append(@, e)], stack, t, e)
    BY <1>1, PushedOn, Zenon
  <2> QED
    BY <1>2, <2>1, Zenon DEF Pushed
<1>3. ASSUME NEW e \in Frames, stack[t] # <<>>
      PROVE  Exchange(Replaced(t, e), stack, t, e) /\ Replaced(t, e) \in [Thread -> Seq(Frames)]
  <2>1. /\ Exchange([stack EXCEPT ![t] = Append(Front(@), e)], stack, t, e)
        /\ [stack EXCEPT ![t] = Append(Front(@), e)] \in [Thread -> Seq(Frames)]
    BY <1>1, <1>3, Exchanged, Zenon
  <2> QED
    BY <2>1, Zenon DEF Replaced
<1>4. CASE Push(t)
  <2>1. PICK e \in Frames :
          /\ stack' = Pushed(t, e) /\ ~e.inside /\ e.op \notin {"provide", "provided", "wrapped"}
          /\ e.op \in Tied => Stays(t, e.c) \/ (e.op = "unroot" /\ spread # {})
          /\ e.op \in {"find", "wrap"} => Within(t, "use")
          /\ stack[t] = <<>> \/ Collects(t)
          /\ e.op \notin Releasing => stack[t] = <<>> \/ Within(t, "use")
    BY <1>4, Zenon DEF Push, Tied
  <2>2. PushOn(stack', stack, t, e)
    BY <1>2, <2>1
  <2>3. Grow(t, e)
    BY <2>1, <2>2 DEF Grow
  <2> QED
    BY <2>3 DEF Shape
<1>5. CASE Enter(t)
  <2> DEFINE e == [Top(t) EXCEPT !.inside = TRUE]
  <2>1. stack[t] # <<>> /\ stack' = Replaced(t, e)
    BY <1>5 DEF Enter, Waits
  <2>2. e \in Frames /\ Top(t) \in Frames
    BY <2>1, NewFrames, TopFrame
  <2>3. e.op = Top(t).op /\ e.c = Top(t).c /\ e.section = Top(t).section /\ e.m = Top(t).m
    BY <2>2 DEF Frames, Frame
  <2>4. Lock(e) = Lock(Top(t))
    BY <2>3, Zenon DEF Lock, Sections
  <2> HIDE DEF e
  <2>5. Exchange(stack', stack, t, e)
    BY <1>3, <2>1, <2>2, Zenon
  <2>6. Turn(t, e)
    BY <1>5, <2>1, <2>3, <2>4, <2>5, Zenon DEF Turn
  <2> QED
    BY <2>2, <2>6, Zenon DEF Shape
<1>6. CASE GoOn(t)
  <2>1. PICK e \in Frames :
          /\ stack' = Replaced(t, e) /\ ~e.inside /\ e.c = Top(t).c
          /\ \/ e.op \in {"init", "dealloc"} /\ Top(t).op = e.op
             \/ e.op = "dealloc" /\ Top(t).op \in {"release", "unroot"}
    BY <1>6 DEF GoOn
  <2>2. stack[t] # <<>>
    BY <1>6 DEF GoOn
  <2>3. Exchange(stack', stack, t, e)
    BY <1>3, <2>1, <2>2, Zenon
  <2>4. Turn(t, e)
    BY <2>1, <2>2, <2>3 DEF Turn
  <2> QED
    BY <2>4 DEF Shape
<1>7. CASE Pop(t)
  <2>1. stack[t] \in Seq(Frames) /\ stack[t] # <<>>
    BY <1>1, <1>7 DEF Pop
  <2>2. stack'[t] = Front(stack[t]) /\ \A u \in Thread \ {t} : stack'[u] = stack[u]
    BY <1>1, <1>7, Zenon DEF Pop, Popped
  <2>3. Len(Front(stack[t])) = Len(stack[t]) - 1
        /\ \A j \in 1..(Len(stack[t]) - 1) : Front(stack[t])[j] = stack[t][j]
    BY <2>1, LastFront
  <2>4. PopOff(stack', stack, t)
    BY <2>2, <2>3 DEF PopOff
  <2> QED
    BY <1>7, <2>4 DEF Pop, Shrink, Shape
<1>8. CASE ProvideMove(t)
  <2>1. PICK m \in ModuleId, v \in Context \cup {Block} :
          Runs(t) /\ stack' = Pushed(t, Method("provide", v, m)) /\ Begins(m)
    BY <1>8 DEF ProvideMove, StartProvide, Begins
  <2>2. /\ Method("provide", v, m) \in Frames /\ ~Method("provide", v, m).inside
        /\ Method("provide", v, m).op = "provide" /\ Method("provide", v, m).m = m
    BY ProvideMethod
  <2>3. PushOn(stack', stack, t, Method("provide", v, m))
    BY <1>2, <2>1, <2>2
  <2>4. Grow(t, Method("provide", v, m))
    BY <2>1, <2>2, <2>3 DEF Grow, Runs, Collects, Tied, RuntimeOps, WrapOps
  <2> QED
    BY <2>2, <2>4, Zenon DEF Shape
<1>9. CASE StoreMove(t)
  <2>1. Within(t, "provide") /\ stack[t] # <<>>
    BY <1>9 DEF StoreMove, Within
  <2>2. /\ Stored(t) \in Frames /\ Stored(t).inside /\ Stored(t).op = "provided"
        /\ Stored(t).c = Top(t).c /\ Lock(Stored(t)) = Lock(Top(t))
    BY <2>1, StoredFrame
  <2>3. Exchange(Replaced(t, Stored(t)), stack, t, Stored(t))
        /\ Replaced(t, Stored(t)) \in [Thread -> Seq(Frames)]
    BY <1>3, <2>1, <2>2, Zenon
  <2>4. CASE stack' = Replaced(t, Stored(t))
    <3>1. Turn(t, Stored(t))
      BY <2>1, <2>2, <2>3, <2>4, Zenon DEF Turn
    <3> QED
      BY <2>2, <3>1, Zenon DEF Shape
  <2>5. ASSUME NEW e \in Frames, e.op = "release", ~e.inside, global[Top(t).m] \in Context,
               stack' = [Replaced(t, Stored(t)) EXCEPT ![t] = Append(@, e)]
        PROVE  Shape(t)
    <3>1. PushOn(stack', Replaced(t, Stored(t)), t, e)
      BY <2>3, <2>5, PushedOn, Zenon
    <3>2. Supersede(t, e)
      BY <2>1, <2>2, <2>3, <2>5, <3>1, Zenon DEF Supersede
    <3> QED
      BY <2>5, <3>2, Zenon DEF Shape
  <2> QED
    BY <1>9, <2>4, <2>5 DEF StoreMove
<1>10. CASE WrapMove(t)
  <2>1. Within(t, "wrap") /\ stack[t] # <<>>
    BY <1>10 DEF WrapMove, Within
  <2>2. /\ Wrapped(t) \in Frames /\ Wrapped(t).inside /\ Wrapped(t).op = "wrapped"
        /\ Wrapped(t).c = Top(t).c /\ Lock(Wrapped(t)) = Lock(Top(t))
    BY <2>1, StoredFrame
  <2>3. Exchange(Replaced(t, Wrapped(t)), stack, t, Wrapped(t))
        /\ Replaced(t, Wrapped(t)) \in [Thread -> Seq(Frames)]
    BY <1>3, <2>1, <2>2, Zenon
  <2>4. PICK e \in Frames :
          /\ e.op = "unroot" /\ ~e.inside /\ RuntimeOf[e.c] = RuntimeOf[Top(t).c]
          /\ stack' = [Replaced(t, Wrapped(t)) EXCEPT ![t] = Append(@, e)]
    BY <1>10, Zenon DEF WrapMove
  <2>5. PushOn(stack', Replaced(t, Wrapped(t)), t, e)
    BY <2>3, <2>4, PushedOn, Zenon
  <2>6. Supersede(t, e)
    BY <2>1, <2>2, <2>3, <2>4, <2>5, Zenon DEF Supersede
  <2> QED
    BY <2>6, Zenon DEF Shape
<1> QED
  BY <1>4, <1>5, <1>6, <1>7, <1>8, <1>9, <1>10 DEF Move, Quiet, Shape
-----------------------------------------------------------------------------
\* The invariants behind CirclesCross.

\* What a thread is inside of while another method is on top: the lock of a runtime, in
\* which scripts call native code or the collector runs; globalModules or a dictionary, in
\* which what was there is released.
Under(f) ==
  /\ f.inside /\ f.op \in {"use", "init", "dealloc", "provided", "wrapped"}
  /\ f.op \in {"init", "dealloc"} => Lock(f) = RuntimeOf[f.c]

\* On all of these but a use only releases follow.
BelowTop(p) ==
  /\ \A i \in 1..(Len(p) - 1) : Under(p[i])
  /\ \A i, j \in 1..Len(p) : i < j /\ p[i].op # "use" => p[j].op \in Releasing
  /\ \A i \in 1..Len(p) : p[i].op \in WrapOps => i # 1

\* A program that does not cross is, in one thread, in one runtime only, unless it releases
\* a module, or a native goes that scripts of two runtimes, w of them, have seen.
OneRuntime(p, w) ==
  \A i, j \in 1..Len(p) : i < j /\ p[i].op \in Tied /\ p[j].op \in Tied =>
    \/ RuntimeOf[p[i].c] = RuntimeOf[p[j].c]
    \/ w # {} /\ p[j].op \in Releasing
    \/ \E k \in 1..Len(p) : k < j /\ p[k].op = "provided"

Superseding(t) ==
  (\E i \in 1..(Len(stack[t]) - 1) : stack[t][i].op = "provided") => overlapped # {}

\* A module is provided twice only by threads that do so at the same time.
Races ==
  /\ \A t \in Thread : \A f \in Methods(t) :
       f.op = "provide" => global[f.m] = None \/ f.m \in overlapped
  /\ \A t, u \in Thread : \A f \in Methods(t), g \in Methods(u) :
       t # u /\ f.op = "provide" /\ g.op = "provide" /\ f.m = g.m => f.m \in overlapped

Exclusive == \A t, u \in Thread : t # u => Held(t) \cap Held(u) = {}

CircleInv ==
  /\ \A t \in Thread : BelowTop(stack[t]) /\ Superseding(t)
  /\ ~crosses => \A t \in Thread : OneRuntime(stack[t], spread)
  /\ Races
  /\ Exclusive

\* Stacks by their indices.
LEMMA Indices ==
  ASSUME NEW s \in [Thread -> Seq(Frames)], NEW t \in Thread
  PROVE  /\ Len(s[t]) \in Nat /\ DOMAIN s[t] = 1..Len(s[t])
         /\ s[t] = <<>> <=> Len(s[t]) = 0
         /\ \A i \in 1..Len(s[t]) : s[t][i] \in Frames
BY LenProperties, EmptySeq, ElementOfSeq

\* One stack with a frame more, with another on top, and with one less.
More(q, p, e) ==
  Len(q) = Len(p) + 1 /\ q[Len(p) + 1] = e /\ \A j \in 1..Len(p) : q[j] = p[j]
Other(q, p, e) ==
  /\ Len(p) # 0 /\ Len(q) = Len(p)
  /\ q[Len(p)] = e /\ \A j \in 1..(Len(p) - 1) : q[j] = p[j]
Less(q, p) ==
  Len(p) # 0 /\ Len(q) = Len(p) - 1 /\ \A j \in 1..Len(q) : q[j] = p[j]

LEMMA BelowMore ==
  ASSUME NEW p, NEW q, NEW e, Len(p) \in Nat, More(q, p, e), BelowTop(p),
         Len(p) # 0 => Under(p[Len(p)]) /\ (p[Len(p)].op # "use" => e.op \in Releasing),
         e.op \in WrapOps => Len(p) # 0
  PROVE  BelowTop(q)
<1> DEFINE n == Len(p)
<1>1. /\ n \in Nat /\ Len(q) = n + 1 /\ q[n + 1] = e /\ \A j \in 1..n : q[j] = p[j]
      /\ \A i \in 1..(n - 1) : Under(p[i])
      /\ \A i, j \in 1..n : i < j /\ p[i].op # "use" => p[j].op \in Releasing
      /\ \A i \in 1..n : p[i].op \in WrapOps => i # 1
      /\ n # 0 => Under(p[n]) /\ (p[n].op # "use" => e.op \in Releasing)
      /\ e.op \in WrapOps => n # 0
  BY Zenon DEF More, BelowTop
<1> HIDE DEF n
<1>2. ASSUME NEW i \in 1..n PROVE Under(p[i])
  <2>1. i \in 1..(n - 1) \/ (i = n /\ n # 0)
    BY <1>1
  <2> QED
    BY <1>1, <2>1, Zenon
<1>3. ASSUME NEW i \in 1..n, p[i].op # "use" PROVE e.op \in Releasing
  <2>1. (i < n /\ n \in 1..n) \/ (i = n /\ n # 0)
    BY <1>1
  <2>2. ASSUME i < n, n \in 1..n PROVE e.op \in Releasing
    <3>1. p[n].op \in Releasing /\ n # 0
      BY <1>1, <1>3, <2>2
    <3>2. p[n].op # "use"
      BY <3>1 DEF Releasing
    <3> QED
      BY <1>1, <3>1, <3>2, Zenon
  <2> QED
    BY <1>1, <1>3, <2>1, <2>2, Zenon
<1>4. \A i \in 1..(Len(q) - 1) : Under(q[i])
  <2>1. Len(q) - 1 = n
    BY <1>1
  <2> QED
    BY <1>1, <1>2, <2>1, Zenon
<1>5. ASSUME NEW i \in 1..Len(q), NEW j \in 1..Len(q), i < j, q[i].op # "use"
      PROVE  q[j].op \in Releasing
  <2>1. i \in 1..n /\ (j = n + 1 \/ j \in 1..n)
    BY <1>1, <1>5
  <2>2. p[i].op # "use"
    BY <1>1, <1>5, <2>1, Zenon
  <2>3. CASE j = n + 1
    BY <1>1, <1>3, <2>1, <2>2, <2>3, Zenon
  <2>4. CASE j \in 1..n
    BY <1>1, <1>5, <2>1, <2>2, <2>4, Zenon
  <2> QED
    BY <2>1, <2>3, <2>4
<1>6. ASSUME NEW i \in 1..Len(q), q[i].op \in WrapOps PROVE i # 1
  <2>1. i \in 1..n \/ i = n + 1
    BY <1>1
  <2>2. CASE i \in 1..n
    BY <1>1, <1>6, <2>2, Zenon
  <2>3. CASE i = n + 1
    <3>1. n # 0
      BY <1>1, <1>6, <2>3, Zenon
    <3> QED
      BY <1>1, <2>3, <3>1
  <2> QED
    BY <2>1, <2>2, <2>3
<1> QED
  BY <1>4, <1>5, <1>6, Zenon DEF BelowTop

LEMMA BelowOther ==
  ASSUME NEW p, NEW q, NEW e, Len(p) \in Nat, Other(q, p, e), BelowTop(p),
         p[Len(p)].op \in Releasing => e.op \in Releasing,
         e.op \in WrapOps => p[Len(p)].op \in WrapOps
  PROVE  BelowTop(q)
<1> DEFINE n == Len(p)
<1>1. /\ n \in Nat /\ n # 0 /\ Len(q) = n /\ q[n] = e /\ \A j \in 1..(n - 1) : q[j] = p[j]
      /\ \A i \in 1..(n - 1) : Under(p[i])
      /\ \A i, j \in 1..n : i < j /\ p[i].op # "use" => p[j].op \in Releasing
      /\ \A i \in 1..n : p[i].op \in WrapOps => i # 1
      /\ p[n].op \in Releasing => e.op \in Releasing
      /\ e.op \in WrapOps => p[n].op \in WrapOps
  BY Zenon DEF Other, BelowTop
<1> HIDE DEF n
<1>2. \A i \in 1..(Len(q) - 1) : Under(q[i])
  BY <1>1, Zenon
<1>3. ASSUME NEW i \in 1..Len(q), NEW j \in 1..Len(q), i < j, q[i].op # "use"
      PROVE  q[j].op \in Releasing
  <2>1. /\ i \in 1..(n - 1) /\ i \in 1..n /\ j \in 1..n
        /\ j = n \/ j \in 1..(n - 1)
    BY <1>1, <1>3
  <2>2. p[j].op \in Releasing
    BY <1>1, <1>3, <2>1, Zenon
  <2> QED
    BY <1>1, <2>1, <2>2, Zenon
<1>4. ASSUME NEW i \in 1..Len(q), q[i].op \in WrapOps PROVE i # 1
  <2>1. i \in 1..n /\ (i = n \/ i \in 1..(n - 1))
    BY <1>1
  <2>2. p[i].op \in WrapOps
    BY <1>1, <1>4, <2>1, Zenon
  <2> QED
    BY <1>1, <2>1, <2>2, Zenon
<1> QED
  BY <1>2, <1>3, <1>4, Zenon DEF BelowTop

LEMMA BelowLess ==
  ASSUME NEW p, NEW q, Len(p) \in Nat, Less(q, p), BelowTop(p)
  PROVE  BelowTop(q)
<1>1. /\ \A j \in 1..Len(q) : j \in 1..Len(p) /\ q[j] = p[j]
      /\ \A j \in 1..(Len(q) - 1) : j \in 1..Len(q) /\ j \in 1..(Len(p) - 1)
  BY DEF Less
<1> QED
  BY <1>1, Zenon DEF BelowTop

LEMMA OneMore ==
  ASSUME NEW p, NEW q, NEW e, NEW w, Len(p) \in Nat, More(q, p, e),
         BelowTop(p), OneRuntime(p, w),
         Len(p) # 0 /\ e.op \in Tied =>
           \/ p[Len(p)].op = "provided"
           \/ w # {} /\ e.op \in Releasing
           \/ /\ p[Len(p)].op \in Tied /\ RuntimeOf[p[Len(p)].c] = RuntimeOf[e.c]
              /\ p[Len(p)].op \in Releasing => e.op \in Releasing
  PROVE  OneRuntime(q, w)
<1> DEFINE n == Len(p)
<1>1. /\ n \in Nat /\ Len(q) = n + 1 /\ q[n + 1] = e /\ \A j \in 1..n : q[j] = p[j]
      /\ \A i, j \in 1..n : i < j /\ p[i].op \in Tied /\ p[j].op \in Tied =>
           \/ RuntimeOf[p[i].c] = RuntimeOf[p[j].c]
           \/ w # {} /\ p[j].op \in Releasing
           \/ \E k \in 1..n : k < j /\ p[k].op = "provided"
      /\ n # 0 /\ e.op \in Tied =>
           \/ p[n].op = "provided"
           \/ w # {} /\ e.op \in Releasing
           \/ /\ p[n].op \in Tied /\ RuntimeOf[p[n].c] = RuntimeOf[e.c]
              /\ p[n].op \in Releasing => e.op \in Releasing
  BY Zenon DEF More, OneRuntime
<1> HIDE DEF n
<1>2. ASSUME NEW i \in 1..Len(q), NEW j \in 1..Len(q), i < j, q[i].op \in Tied, q[j].op \in Tied
      PROVE  \/ RuntimeOf[q[i].c] = RuntimeOf[q[j].c]
             \/ w # {} /\ q[j].op \in Releasing
             \/ \E k \in 1..Len(q) : k < j /\ q[k].op = "provided"
  <2>1. /\ i \in 1..n /\ (j = n + 1 \/ j \in 1..n) /\ n # 0 /\ n \in 1..n
        /\ \A k \in 1..n : k \in 1..Len(q) /\ k < n + 1
        /\ i = n \/ i < n
    BY <1>1, <1>2
  <2>2. q[i] = p[i] /\ p[i].op \in Tied
    BY <1>1, <1>2, <2>1, Zenon
  <2>3. CASE j \in 1..n
    <3>1. q[j] = p[j] /\ p[j].op \in Tied
      BY <1>1, <1>2, <2>3, Zenon
    <3>2. \/ RuntimeOf[p[i].c] = RuntimeOf[p[j].c]
          \/ w # {} /\ p[j].op \in Releasing
          \/ \E k \in 1..n : k < j /\ p[k].op = "provided"
      BY <1>1, <1>2, <2>1, <2>2, <2>3, <3>1, Zenon
    <3> QED
      BY <1>1, <2>1, <2>2, <3>1, <3>2, Zenon
  <2>4. CASE j = n + 1
    <3>1. q[j] = e /\ e.op \in Tied
      BY <1>1, <1>2, <2>4, Zenon
    <3>2. ASSUME NEW k \in 1..n, p[k].op = "provided"
          PROVE  \E l \in 1..Len(q) : l < j /\ q[l].op = "provided"
      BY <1>1, <2>1, <2>4, <3>2, Zenon
    <3>3. CASE p[n].op = "provided"
      BY <2>1, <3>2, <3>3, Zenon
    <3>4. CASE w # {} /\ e.op \in Releasing
      BY <3>1, <3>4, Zenon
    <3>5. CASE /\ p[n].op \in Tied /\ RuntimeOf[p[n].c] = RuntimeOf[e.c]
               /\ p[n].op \in Releasing => e.op \in Releasing
      <4>1. CASE i = n
        BY <2>2, <3>1, <3>5, <4>1, Zenon
      <4>2. CASE i < n
        <5>1. \/ RuntimeOf[p[i].c] = RuntimeOf[p[n].c]
              \/ w # {} /\ p[n].op \in Releasing
              \/ \E k \in 1..n : k < n /\ p[k].op = "provided"
          BY <1>1, <2>1, <2>2, <3>5, <4>2, Zenon
        <5>2. \/ RuntimeOf[q[i].c] = RuntimeOf[q[j].c]
              \/ w # {} /\ q[j].op \in Releasing
              \/ \E k \in 1..n : p[k].op = "provided"
          BY <2>2, <3>1, <3>5, <5>1, Zenon
        <5> QED
          BY <3>2, <5>2, Zenon
      <4> QED
        BY <2>1, <4>1, <4>2
    <3> QED
      BY <1>1, <2>1, <3>1, <3>3, <3>4, <3>5, Zenon
  <2> QED
    BY <2>1, <2>3, <2>4
<1> QED
  BY <1>2, Zenon DEF OneRuntime

LEMMA OneOther ==
  ASSUME NEW p, NEW q, NEW e, NEW w, Len(p) \in Nat, Other(q, p, e), OneRuntime(p, w),
         e.op \in Tied => p[Len(p)].op \in Tied /\ RuntimeOf[p[Len(p)].c] = RuntimeOf[e.c],
         p[Len(p)].op \in Releasing => e.op \in Releasing
  PROVE  OneRuntime(q, w)
<1> DEFINE n == Len(p)
<1>1. /\ n \in Nat /\ n # 0 /\ Len(q) = n /\ q[n] = e /\ \A j \in 1..(n - 1) : q[j] = p[j]
      /\ \A i, j \in 1..n : i < j /\ p[i].op \in Tied /\ p[j].op \in Tied =>
           \/ RuntimeOf[p[i].c] = RuntimeOf[p[j].c]
           \/ w # {} /\ p[j].op \in Releasing
           \/ \E k \in 1..n : k < j /\ p[k].op = "provided"
      /\ e.op \in Tied => p[n].op \in Tied /\ RuntimeOf[p[n].c] = RuntimeOf[e.c]
      /\ p[n].op \in Releasing => e.op \in Releasing
  BY Zenon DEF Other, OneRuntime
<1> HIDE DEF n
<1>2. ASSUME NEW i \in 1..Len(q), NEW j \in 1..Len(q), i < j, q[i].op \in Tied, q[j].op \in Tied
      PROVE  \/ RuntimeOf[q[i].c] = RuntimeOf[q[j].c]
             \/ w # {} /\ q[j].op \in Releasing
             \/ \E k \in 1..Len(q) : k < j /\ q[k].op = "provided"
  <2>1. /\ i \in 1..(n - 1) /\ i \in 1..n /\ j \in 1..n
        /\ j = n \/ j \in 1..(n - 1)
        /\ \A k \in 1..n : k < j => k \in 1..(n - 1)
    BY <1>1, <1>2
  <2>2. q[i] = p[i] /\ p[i].op \in Tied
    BY <1>1, <1>2, <2>1, Zenon
  <2>3. /\ p[j].op \in Tied /\ RuntimeOf[p[j].c] = RuntimeOf[q[j].c]
        /\ p[j].op \in Releasing => q[j].op \in Releasing
    BY <1>1, <1>2, <2>1, Zenon
  <2>4. \/ RuntimeOf[p[i].c] = RuntimeOf[p[j].c]
        \/ w # {} /\ p[j].op \in Releasing
        \/ \E k \in 1..n : k < j /\ p[k].op = "provided"
    BY <1>1, <1>2, <2>1, <2>2, <2>3, Zenon
  <2>5. ASSUME NEW k \in 1..n, k < j, p[k].op = "provided"
        PROVE  \E l \in 1..Len(q) : l < j /\ q[l].op = "provided"
    BY <1>1, <2>1, <2>5, Zenon
  <2> QED
    BY <2>2, <2>3, <2>4, <2>5, Zenon
<1> QED
  BY <1>2, Zenon DEF OneRuntime

LEMMA OneLess ==
  ASSUME NEW p, NEW q, NEW w, Len(p) \in Nat, Less(q, p), OneRuntime(p, w)
  PROVE  OneRuntime(q, w)
<1>1. /\ \A j \in 1..Len(q) : j \in 1..Len(p) /\ q[j] = p[j]
      /\ \A j \in 1..Len(q), k \in 1..Len(p) : k < j => k \in 1..Len(q)
  BY DEF Less
<1>2. ASSUME NEW i \in 1..Len(q), NEW j \in 1..Len(q), i < j, q[i].op \in Tied, q[j].op \in Tied
      PROVE  \/ RuntimeOf[q[i].c] = RuntimeOf[q[j].c]
             \/ w # {} /\ q[j].op \in Releasing
             \/ \E k \in 1..Len(q) : k < j /\ q[k].op = "provided"
  <2>1. \/ RuntimeOf[p[i].c] = RuntimeOf[p[j].c]
        \/ w # {} /\ p[j].op \in Releasing
        \/ \E k \in 1..Len(p) : k < j /\ p[k].op = "provided"
    BY <1>1, <1>2, Zenon DEF OneRuntime
  <2>2. q[i] = p[i] /\ q[j] = p[j]
    BY <1>1, Zenon
  <2>3. ASSUME NEW k \in 1..Len(p), k < j, p[k].op = "provided"
        PROVE  \E l \in 1..Len(q) : l < j /\ q[l].op = "provided"
    BY <1>1, <2>3, Zenon
  <2> QED
    BY <2>1, <2>2, <2>3, Zenon
<1> QED
  BY <1>2, Zenon DEF OneRuntime

\* The stacks of the others stay, and that of the thread is one of these.
LEMMA StackOfOne ==
  ASSUME OwnTypes, NEW t \in Thread, stack' \in [Thread -> Seq(Frames)], NEW u \in Thread
  PROVE  /\ \A e \in Frames : Grow(t, e) => stack'[u] = stack[u] \/ (u = t /\ More(stack'[u], stack[u], e))
         /\ \A e \in Frames : Turn(t, e) => stack'[u] = stack[u] \/ (u = t /\ Other(stack'[u], stack[u], e))
         /\ Shrink(t) => stack'[u] = stack[u] \/ (u = t /\ Less(stack'[u], stack[u]))
<1>1. /\ Len(stack[u]) \in Nat /\ Len(stack'[u]) \in Nat
      /\ stack[u] = <<>> <=> Len(stack[u]) = 0
  BY Indices DEF OwnTypes
<1>2. ASSUME NEW e \in Frames, Grow(t, e), u = t PROVE More(stack'[u], stack[u], e)
  BY <1>1, <1>2 DEF Grow, PushOn, More
<1>3. ASSUME NEW e \in Frames, Turn(t, e), u = t PROVE Other(stack'[u], stack[u], e)
  BY <1>1, <1>3 DEF Turn, Exchange, Other
<1>4. ASSUME Shrink(t), u = t PROVE Less(stack'[u], stack[u])
  BY <1>1, <1>4 DEF Shrink, PopOff, Less
<1>5. ASSUME u # t PROVE /\ \A e \in Frames : Grow(t, e) \/ Turn(t, e) => stack'[u] = stack[u]
                         /\ Shrink(t) => stack'[u] = stack[u]
  BY <1>5, Zenon DEF Grow, Turn, Shrink, PushOn, Exchange, PopOff
<1> QED
  BY <1>2, <1>3, <1>4, <1>5, Zenon

\* The two changes of a store that releases what was there.
Superseded(t, e, d, q) ==
  /\ Other(q, stack[t], d) /\ More(stack'[t], q, e)
  /\ d.inside /\ d.c = Top(t).c /\ Lock(d) = Lock(Top(t)) /\ ~e.inside
  /\ \/ /\ Within(t, "provide") /\ global[Top(t).m] \in Context
        /\ d.op = "provided" /\ e.op = "release"
     \/ /\ Within(t, "wrap") /\ RuntimeOf[e.c] = RuntimeOf[Top(t).c]
        /\ d.op = "wrapped" /\ e.op = "unroot"

LEMMA StacksOfSupersede ==
  ASSUME OwnTypes, NEW t \in Thread, stack' \in [Thread -> Seq(Frames)], NEW u \in Thread,
         NEW e \in Frames, Supersede(t, e)
  PROVE  \/ stack'[u] = stack[u]
         \/ u = t /\ \E d \in Frames, q \in Seq(Frames) : Superseded(t, e, d, q)
<1>1. PICK d \in Frames, g \in [Thread -> Seq(Frames)] :
        /\ Exchange(g, stack, t, d) /\ PushOn(stack', g, t, e)
        /\ d.inside /\ d.c = Top(t).c /\ Lock(d) = Lock(Top(t)) /\ ~e.inside
        /\ \/ /\ Within(t, "provide") /\ global[Top(t).m] \in Context
              /\ d.op = "provided" /\ e.op = "release"
           \/ /\ Within(t, "wrap") /\ RuntimeOf[e.c] = RuntimeOf[Top(t).c]
              /\ d.op = "wrapped" /\ e.op = "unroot"
  BY Zenon DEF Supersede
<1>2. CASE u # t
  <2>1. stack'[u] = g[u] /\ g[u] = stack[u]
    BY <1>1, <1>2, Zenon DEF Exchange, PushOn
  <2> QED
    BY <2>1
<1>3. CASE u = t
  <2>1. /\ Len(stack[t]) \in Nat /\ Len(g[t]) \in Nat /\ Len(stack'[t]) \in Nat
        /\ stack[t] = <<>> <=> Len(stack[t]) = 0
        /\ g[t] \in Seq(Frames)
    BY Indices DEF OwnTypes
  <2>2. stack[t] # <<>>
    BY <1>1 DEF Within
  <2>3. /\ Len(g[t]) = Len(stack[t]) /\ g[t][Len(stack[t])] = d
        /\ \A j \in 1..(Len(stack[t]) - 1) : g[t][j] = stack[t][j]
    BY <1>1, Zenon DEF Exchange
  <2>4. Other(g[t], stack[t], d)
    BY <2>1, <2>2, <2>3, Zenon DEF Other
  <2>5. /\ Len(stack'[t]) = Len(g[t]) + 1 /\ stack'[t][Len(stack'[t])] = e
        /\ \A j \in 1..Len(g[t]) : stack'[t][j] = g[t][j]
    BY <1>1, Zenon DEF PushOn
  <2>6. More(stack'[t], g[t], e)
    BY <2>5 DEF More
  <2>7. Superseded(t, e, d, g[t])
    BY <1>1, <2>4, <2>6, Zenon DEF Superseded
  <2> QED
    BY <1>3, <2>1, <2>7, Zenon
<1> QED
  BY <1>2, <1>3


LEMMA BelowTopKept ==
  ASSUME OwnTypes, NEW t \in Thread, Shape(t), stack' \in [Thread -> Seq(Frames)],
         NEW u \in Thread, BelowTop(stack[u])
  PROVE  BelowTop(stack'[u])
<1>1. Len(stack[u]) \in Nat /\ (stack[u] = <<>> <=> Len(stack[u]) = 0)
  BY Indices DEF OwnTypes
<1>2. stack[u] # <<>> => Top(u) = stack[u][Len(stack[u])] /\ Top(u) \in Frames
  BY TopFrame
<1>3. ASSUME NEW e \in Frames, Grow(t, e), u = t, More(stack'[u], stack[u], e)
      PROVE  BelowTop(stack'[u])
  <2>1. ASSUME stack[u] # <<>> PROVE Under(Top(u))
    <3>1. Collects(u) /\ Top(u) \in Frames
      BY <1>2, <1>3, <2>1 DEF Grow
    <3>2. Top(u).inside /\ Top(u).op \in {"use", "init", "dealloc"}
      BY <3>1 DEF Collects, Within
    <3>3. /\ Top(u).op = "init" => Top(u).section = 3
          /\ Top(u).op = "dealloc" => Top(u).section = 1
      BY <3>1 DEF Collects, Within
    <3>4. Top(u).op \in {"init", "dealloc"} => Lock(Top(u)) = RuntimeOf[Top(u).c]
      BY <3>1, <3>3, LockOf
    <3> QED
      BY <3>2, <3>4 DEF Under
  <2>2. stack[u] # <<>> /\ Top(u).op # "use" => e.op \in Releasing
    BY <1>3 DEF Grow, Within
  <2>3. e.op \in WrapOps => stack[u] # <<>>
    BY <1>3 DEF Grow, Within, WrapOps
  <2>4. Len(stack[u]) # 0 =>
          /\ Under(stack[u][Len(stack[u])])
          /\ stack[u][Len(stack[u])].op # "use" => e.op \in Releasing
    BY <1>1, <1>2, <2>1, <2>2, Zenon
  <2>5. e.op \in WrapOps => Len(stack[u]) # 0
    BY <1>1, <2>3, Zenon
  <2> QED
    BY <1>1, <1>3, <2>4, <2>5, BelowMore, Zenon
<1>4. ASSUME NEW e \in Frames, Turn(t, e), u = t, Other(stack'[u], stack[u], e)
      PROVE  BelowTop(stack'[u])
  <2>1. stack[u] # <<>>
    BY <1>4 DEF Turn
  <2>2. /\ Top(u).op \in Releasing => e.op \in Releasing
        /\ e.op \in WrapOps => Top(u).op \in WrapOps
    BY <1>4 DEF Turn, Within, Releasing, WrapOps
  <2>3. Top(u) = stack[u][Len(stack[u])]
    BY <1>2, <2>1
  <2> QED
    BY <1>1, <1>4, <2>2, <2>3, BelowOther, Zenon
<1>5. ASSUME NEW e \in Frames, Supersede(t, e), u = t, NEW d \in Frames, NEW q \in Seq(Frames),
             Superseded(t, e, d, q)
      PROVE  BelowTop(stack'[u])
  <2>0. /\ Other(q, stack[t], d) /\ More(stack'[t], q, e) /\ d.inside
        /\ \/ Within(t, "provide") /\ d.op = "provided" /\ e.op = "release"
           \/ Within(t, "wrap") /\ d.op = "wrapped" /\ e.op = "unroot"
    BY <1>5, Zenon DEF Superseded
  <2>1. stack[u] # <<>> /\ Top(u).op \notin Releasing
    BY <1>5, <2>0 DEF Within, Releasing
  <2>2. Top(u) = stack[u][Len(stack[u])]
    BY <1>2, <2>1
  <2>3. d.op \in WrapOps => Top(u).op \in WrapOps
    BY <1>5, <2>0 DEF Within, WrapOps
  <2>4. BelowTop(q)
    BY <1>1, <1>5, <2>0, <2>1, <2>2, <2>3, BelowOther, Zenon
  <2>5. Len(q) \in Nat /\ Len(q) # 0 /\ q[Len(q)] = d
    BY <1>1, <1>5, <2>0, Zenon DEF Other
  <2>6. Under(d) /\ e.op \in Releasing /\ e.op \notin WrapOps
    BY <1>5, <2>0 DEF Under, Releasing, WrapOps
  <2> QED
    BY <1>5, <2>0, <2>4, <2>5, <2>6, BelowMore, Zenon
<1>6. ASSUME Shrink(t), u = t, Less(stack'[u], stack[u]) PROVE BelowTop(stack'[u])
  BY <1>1, <1>6, BelowLess, Zenon
<1>7. ASSUME stack'[u] = stack[u] PROVE BelowTop(stack'[u])
  BY <1>7
<1>8. ASSUME NEW e \in Frames, Grow(t, e) \/ Turn(t, e) PROVE BelowTop(stack'[u])
  BY <1>3, <1>4, <1>7, <1>8, StackOfOne, Zenon
<1>9. ASSUME NEW e \in Frames, Supersede(t, e) PROVE BelowTop(stack'[u])
  BY <1>5, <1>7, <1>9, StacksOfSupersede, Zenon
<1>10. ASSUME Shrink(t) PROVE BelowTop(stack'[u])
  BY <1>6, <1>7, <1>10, StackOfOne, Zenon
<1> QED
  BY <1>7, <1>8, <1>9, <1>10, Zenon DEF Shape

LEMMA OneRuntimeKept ==
  ASSUME OwnTypes, NEW t \in Thread, Shape(t), stack' \in [Thread -> Seq(Frames)], ~crosses,
         spread \subseteq spread',
         NEW u \in Thread, BelowTop(stack[u]), OneRuntime(stack[u], spread)
  PROVE  OneRuntime(stack'[u], spread')
<1>1. Len(stack[u]) \in Nat /\ (stack[u] = <<>> <=> Len(stack[u]) = 0)
  BY Indices DEF OwnTypes
<1>2. stack[u] # <<>> => Top(u) = stack[u][Len(stack[u])] /\ Top(u) \in Frames
  BY TopFrame
<1>0. OneRuntime(stack[u], spread') /\ (spread # {} => spread' # {})
  <2>1. spread # {} => spread' # {}
    OBVIOUS
  <2> QED
    BY <2>1, Zenon DEF OneRuntime
<1>3. ASSUME NEW e \in Frames, Grow(t, e), u = t, More(stack'[u], stack[u], e)
      PROVE  OneRuntime(stack'[u], spread')
  <2>1. ASSUME stack[u] # <<>>, e.op \in Tied
        PROVE  \/ spread' # {} /\ e.op \in Releasing
               \/ /\ Top(u).op \in Tied /\ RuntimeOf[Top(u).c] = RuntimeOf[e.c]
                  /\ Top(u).op \in Releasing => e.op \in Releasing
    <3>1. Collects(u)
      BY <1>3, <2>1 DEF Grow
    <3>2. Top(u).op \in {"use", "init", "dealloc"}
      BY <3>1 DEF Collects, Within
    <3>3. Top(u).op \in Tied
      BY <3>2 DEF Tied, RuntimeOps
    <3>4. Top(u).op \in Releasing => e.op \in Releasing
      BY <1>3, <2>1 DEF Grow, Within, Releasing
    <3>5. Stays(u, e.c) \/ (e.op = "unroot" /\ spread # {})
      BY <1>3, <2>1, Zenon DEF Grow
    <3>6. Stays(u, e.c) => RuntimeOf[Top(u).c] = RuntimeOf[e.c]
      BY <2>1 DEF Stays
    <3>7. e.op = "unroot" => e.op \in Releasing
      BY DEF Releasing
    <3> QED
      BY <1>0, <3>3, <3>4, <3>5, <3>6, <3>7, Zenon
  <2>2. Len(stack[u]) # 0 /\ e.op \in Tied =>
          LET f == stack[u][Len(stack[u])] IN
            \/ spread' # {} /\ e.op \in Releasing
            \/ /\ f.op \in Tied /\ RuntimeOf[f.c] = RuntimeOf[e.c]
               /\ f.op \in Releasing => e.op \in Releasing
    BY <1>1, <1>2, <2>1, Zenon
  <2> QED
    BY <1>0, <1>1, <1>3, <2>2, OneMore, Zenon
<1>4. ASSUME NEW e \in Frames, Turn(t, e), u = t, Other(stack'[u], stack[u], e)
      PROVE  OneRuntime(stack'[u], spread')
  <2>1. stack[u] # <<>> /\ e.c = Top(u).c
    BY <1>4 DEF Turn
  <2>2. /\ e.op \in Tied => Top(u).op \in Tied
        /\ Top(u).op \in Releasing => e.op \in Releasing
    BY <1>4 DEF Turn, Within, Tied, RuntimeOps, WrapOps, Releasing
  <2>3. Top(u) = stack[u][Len(stack[u])]
    BY <1>2, <2>1
  <2> QED
    BY <1>0, <1>1, <1>4, <2>1, <2>2, <2>3, OneOther, Zenon
<1>5. ASSUME NEW e \in Frames, Supersede(t, e), u = t, NEW d \in Frames, NEW q \in Seq(Frames),
             Superseded(t, e, d, q)
      PROVE  OneRuntime(stack'[u], spread')
  <2>0. /\ Other(q, stack[t], d) /\ More(stack'[t], q, e) /\ d.inside /\ d.c = Top(t).c
        /\ \/ Within(t, "provide") /\ d.op = "provided" /\ e.op = "release"
           \/ /\ Within(t, "wrap") /\ RuntimeOf[e.c] = RuntimeOf[Top(t).c]
              /\ d.op = "wrapped" /\ e.op = "unroot"
    BY <1>5, Zenon DEF Superseded
  <2>1. stack[u] # <<>> /\ Top(u).op \notin Releasing
    BY <1>5, <2>0 DEF Within, Releasing
  <2>2. Top(u) = stack[u][Len(stack[u])]
    BY <1>2, <2>1
  <2>3. d.op \in Tied => Top(u).op \in Tied /\ RuntimeOf[Top(u).c] = RuntimeOf[d.c]
    BY <1>5, <2>0 DEF Within, Tied, RuntimeOps, WrapOps
  <2>4. OneRuntime(q, spread')
    BY <1>0, <1>1, <1>5, <2>0, <2>1, <2>2, <2>3, OneOther, Zenon
  <2>5. Len(q) \in Nat /\ Len(q) # 0 /\ q[Len(q)] = d
    BY <1>1, <1>5, <2>0, Zenon DEF Other
  <2>6. BelowTop(q)
    <3>1. d.op \in WrapOps => Top(u).op \in WrapOps
      BY <1>5, <2>0 DEF Within, WrapOps
    <3> QED
      BY <1>1, <1>5, <2>0, <2>1, <2>2, <3>1, BelowOther, Zenon
  <2>7. \/ d.op = "provided"
        \/ /\ d.op \in Tied /\ RuntimeOf[d.c] = RuntimeOf[e.c]
           /\ d.op \in Releasing => e.op \in Releasing
    BY <1>5, <2>0 DEF Tied, WrapOps, Releasing
  <2> QED
    BY <1>5, <2>0, <2>4, <2>5, <2>6, <2>7, OneMore, Zenon
<1>6. ASSUME Shrink(t), u = t, Less(stack'[u], stack[u]) PROVE OneRuntime(stack'[u], spread')
  BY <1>0, <1>1, <1>6, OneLess, Zenon
<1>7. ASSUME stack'[u] = stack[u] PROVE OneRuntime(stack'[u], spread')
  BY <1>0, <1>7, Zenon
<1>8. ASSUME NEW e \in Frames, Grow(t, e) \/ Turn(t, e) PROVE OneRuntime(stack'[u], spread')
  BY <1>3, <1>4, <1>7, <1>8, StackOfOne, Zenon
<1>9. ASSUME NEW e \in Frames, Supersede(t, e) PROVE OneRuntime(stack'[u], spread')
  BY <1>5, <1>7, <1>9, StacksOfSupersede, Zenon
<1>10. ASSUME Shrink(t) PROVE OneRuntime(stack'[u], spread')
  BY <1>6, <1>7, <1>10, StackOfOne, Zenon
<1> QED
  BY <1>7, <1>8, <1>9, <1>10, Zenon DEF Shape

\* The frames of a thread after a step, by its shape.
LEMMA FramesAfter ==
  ASSUME OwnTypes, NEW t \in Thread, Shape(t), stack' \in [Thread -> Seq(Frames)],
         NEW u \in Thread, NEW f \in Methods(u)'
  PROVE  \/ f \in Methods(u)
         \/ u = t /\ f \in Frames /\ (Grow(t, f) \/ Turn(t, f) \/ Supersede(t, f))
         \/ /\ u = t /\ f.op \in {"provided", "wrapped"} /\ Lock(f) = Lock(Top(t))
            /\ (Within(t, "provide") \/ Within(t, "wrap"))
<1>1. /\ Len(stack[u]) \in Nat /\ Len(stack'[u]) \in Nat
      /\ DOMAIN stack[u] = 1..Len(stack[u]) /\ DOMAIN stack'[u] = 1..Len(stack'[u])
  BY Indices DEF OwnTypes
<1>2. PICK i \in 1..Len(stack'[u]) : f = stack'[u][i]
  BY <1>1 DEF Methods
<1>3. \A j \in 1..Len(stack[u]) : stack[u][j] \in Methods(u)
  BY <1>1 DEF Methods
<1>4. ASSUME stack'[u] = stack[u] PROVE f \in Methods(u)
  BY <1>2, <1>3, <1>4
<1>5. ASSUME NEW e \in Frames, NEW p, Len(p) \in Nat, More(stack'[u], p, e)
      PROVE  f = e \/ \E j \in 1..Len(p) : f = p[j]
  <2>1. i \in 1..Len(p) \/ i = Len(p) + 1
    BY <1>5 DEF More
  <2> QED
    BY <1>2, <1>5, <2>1, Zenon DEF More
<1>6. ASSUME NEW e \in Frames, NEW q, Other(q, stack[u], e), NEW j \in 1..Len(q)
      PROVE  q[j] = e \/ q[j] \in Methods(u)
  <2>1. j = Len(stack[u]) \/ (j \in 1..(Len(stack[u]) - 1) /\ j \in 1..Len(stack[u]))
    BY <1>1, <1>6 DEF Other
  <2> QED
    BY <1>3, <1>6, <2>1, Zenon DEF Other
<1>7. ASSUME NEW e \in Frames, Grow(t, e) PROVE f \in Methods(u) \/ (u = t /\ f = e)
  <2>1. stack'[u] = stack[u] \/ (u = t /\ More(stack'[u], stack[u], e))
    BY <1>7, StackOfOne, Zenon
  <2>2. CASE u = t /\ More(stack'[u], stack[u], e)
    <3>1. f = e \/ \E j \in 1..Len(stack[u]) : f = stack[u][j]
      BY <1>1, <1>5, <2>2, Zenon
    <3> QED
      BY <1>3, <2>2, <3>1, Zenon
  <2> QED
    BY <1>4, <2>1, <2>2
<1>8. ASSUME NEW e \in Frames, Turn(t, e) PROVE f \in Methods(u) \/ (u = t /\ f = e)
  BY <1>2, <1>4, <1>6, <1>8, StackOfOne, Zenon
<1>9. ASSUME Shrink(t) PROVE f \in Methods(u)
  <2>1. ASSUME Less(stack'[u], stack[u]) PROVE f \in Methods(u)
    <3>1. i \in 1..Len(stack[u]) /\ stack'[u][i] = stack[u][i]
      BY <1>1, <2>1 DEF Less
    <3> QED
      BY <1>2, <1>3, <3>1, Zenon
  <2> QED
    BY <1>4, <1>9, <2>1, StackOfOne, Zenon
<1>10. ASSUME NEW e \in Frames, Supersede(t, e), stack'[u] # stack[u], f \notin Methods(u), f # e
       PROVE  /\ u = t /\ f.op \in {"provided", "wrapped"} /\ Lock(f) = Lock(Top(t))
              /\ (Within(t, "provide") \/ Within(t, "wrap"))
  <2>1. PICK d \in Frames, q \in Seq(Frames) :
          u = t /\ Superseded(t, e, d, q)
    BY <1>10, StacksOfSupersede, Zenon
  <2>0. /\ Other(q, stack[u], d) /\ More(stack'[u], q, e) /\ Lock(d) = Lock(Top(t))
        /\ \/ Within(t, "provide") /\ d.op = "provided"
           \/ Within(t, "wrap") /\ d.op = "wrapped"
    BY <2>1, Zenon DEF Superseded
  <2>2. Len(q) \in Nat
    BY <1>1, <2>0, <2>1, Zenon DEF Other
  <2>3. PICK j \in 1..Len(q) : f = q[j]
    BY <1>5, <1>10, <2>0, <2>1, <2>2, Zenon
  <2>4. f = d
    BY <1>6, <1>10, <2>0, <2>1, <2>3, Zenon
  <2>5. f.op \in {"provided", "wrapped"}
    BY <2>0, <2>1, <2>4
  <2> QED
    BY <2>0, <2>1, <2>4, <2>5, Zenon
<1>11. ASSUME UNCHANGED stack PROVE f \in Methods(u)
  BY <1>4, <1>11
<1>12. ASSUME NEW e \in Frames, Supersede(t, e), f \notin Methods(u)
       PROVE  \/ u = t /\ f = e
              \/ /\ u = t /\ f.op \in {"provided", "wrapped"} /\ Lock(f) = Lock(Top(t))
                 /\ (Within(t, "provide") \/ Within(t, "wrap"))
  <2>1. stack'[u] # stack[u]
    BY <1>4, <1>12
  <2>2. u = t
    BY <1>12, <2>1, StacksOfSupersede, Zenon
  <2> QED
    BY <1>10, <1>12, <2>1, <2>2, Zenon
<1> QED
  BY <1>7, <1>8, <1>9, <1>11, <1>12, Zenon DEF Shape

\* A method that holds a lock held it before, or has found it free.
LEMMA ExclusiveKept ==
  ASSUME OwnTypes, NEW t \in Thread, Shape(t), stack' \in [Thread -> Seq(Frames)], Exclusive
  PROVE  Exclusive'
<1>1. ASSUME NEW u \in Thread, NEW f \in Methods(u)', f.inside
      PROVE  \/ Lock(f) \in Held(u)
             \/ u = t /\ \A w \in Thread \ {t} : Lock(f) \notin Held(w)
  <2>1. CASE f \in Methods(u)
    BY <1>1, <2>1 DEF Held, HeldBy
  <2>2. ASSUME u = t, stack[t] # <<>>, Top(t).inside, Lock(f) = Lock(Top(t))
        PROVE  Lock(f) \in Held(u)
    BY <2>2, TopFrame DEF Held, HeldBy
  <2>3. ASSUME u = t, Turn(t, f)
        PROVE  \/ Lock(f) \in Held(u)
               \/ \A w \in Thread \ {t} : Lock(f) \notin Held(w)
    BY <1>1, <2>2, <2>3 DEF Turn, Enter, Within
  <2>4. ~Grow(t, f) /\ ~Supersede(t, f)
    BY <1>1 DEF Grow, Supersede
  <2>5. ASSUME u = t, Within(t, "provide") \/ Within(t, "wrap"), Lock(f) = Lock(Top(t))
        PROVE  Lock(f) \in Held(u)
    BY <2>2, <2>5 DEF Within
  <2> QED
    BY <2>1, <2>3, <2>4, <2>5, FramesAfter, Zenon
<1>2. ASSUME NEW u \in Thread, NEW r \in Held(u)'
      PROVE  \/ r \in Held(u)
             \/ u = t /\ \A w \in Thread \ {t} : r \notin Held(w)
  <2>1. PICK f \in Methods(u)' : f.inside /\ r = Lock(f)
    BY <1>2 DEF Held, HeldBy
  <2> QED
    BY <1>1, <2>1
<1>3. ASSUME NEW u \in Thread, NEW w \in Thread, u # w, NEW r \in Held(u)', r \in Held(w)'
      PROVE  FALSE
  <2>1. r \in Held(u) \/ (u = t /\ \A x \in Thread \ {t} : r \notin Held(x))
    BY <1>2
  <2>2. r \in Held(w) \/ (w = t /\ \A x \in Thread \ {t} : r \notin Held(x))
    BY <1>2, <1>3
  <2> QED
    BY <1>3, <2>1, <2>2 DEF Exclusive
<1> QED
  BY <1>3 DEF Exclusive

LEMMA RacesKept ==
  ASSUME OwnTypes, NEW t \in Thread, Move(t), Shape(t), stack' \in [Thread -> Seq(Frames)],
         \A u \in Thread : BelowTop(stack[u]), Races
  PROVE  Races'
<1>1. ASSUME NEW u \in Thread, NEW f \in Methods(u)', f.op = "provide"
      PROVE  \/ \E g \in Methods(u) : g.op = "provide" /\ g.m = f.m
             \/ u = t /\ Begins(f.m)
  <2>1. CASE f \in Methods(u)
    BY <1>1, <2>1
  <2>2. ASSUME u = t, Grow(t, f) PROVE Begins(f.m)
    BY <1>1, <2>2 DEF Grow
  <2>3. ASSUME u = t, Turn(t, f) PROVE \E g \in Methods(u) : g.op = "provide" /\ g.m = f.m
    <3>1. f.op = Top(t).op /\ f.m = Top(t).m /\ stack[t] # <<>>
      BY <1>1, <2>3 DEF Turn
    <3> QED
      BY <1>1, <2>3, <3>1, TopFrame
  <2>4. ~Supersede(t, f) /\ f.op \notin {"provided", "wrapped"}
    BY <1>1 DEF Supersede
  <2> QED
    BY <1>1, <2>1, <2>2, <2>3, <2>4, FramesAfter, Zenon
<1>2. CASE UNCHANGED global /\ overlapped \subseteq overlapped'
  <2>1. ASSUME NEW u \in Thread, NEW f \in Methods(u)', f.op = "provide"
        PROVE  global'[f.m] = None \/ f.m \in overlapped'
    BY <1>1, <1>2, <2>1 DEF Races, Begins
  <2>2. ASSUME NEW u \in Thread, NEW f \in Methods(u), f.op = "provide", Begins(f.m)
        PROVE  f.m \in overlapped'
    BY <2>2 DEF Begins, Providing
  <2>3. ASSUME NEW u \in Thread, NEW w \in Thread, NEW f \in Methods(u)', NEW g \in Methods(w)',
               u # w, f.op = "provide", g.op = "provide", f.m = g.m
        PROVE  f.m \in overlapped'
    <3>1. (\E e \in Methods(u) : e.op = "provide" /\ e.m = f.m) \/ (u = t /\ Begins(f.m))
      BY <1>1, <2>3
    <3>2. (\E e \in Methods(w) : e.op = "provide" /\ e.m = f.m) \/ (w = t /\ Begins(f.m))
      BY <1>1, <2>3
    <3> QED
      BY <1>2, <2>2, <2>3, <3>1, <3>2 DEF Races
  <2> QED
    BY <2>1, <2>3 DEF Races
<1>3. CASE StoreMove(t)
  <2>1. /\ stack[t] # <<>> /\ Top(t) \in Frames /\ Top(t) \in Methods(t) /\ Top(t).op = "provide"
        /\ Within(t, "provide")
    BY <1>3, TopFrame DEF StoreMove, Within
  <2>2. Top(t).m \in ModuleId /\ Top(t).c # None
    BY <2>1, NoneAssumption, BlockAssumption DEF Frames
  <2>3. global' = [global EXCEPT ![Top(t).m] = Top(t).c] /\ overlapped' = overlapped
    BY <1>3 DEF StoreMove
  <2>4. ASSUME NEW f, f.op = "provide" PROVE ~Grow(t, f) /\ ~Supersede(t, f)
    BY <2>1, <2>4 DEF Grow, Supersede, Collects, Within, Releasing
  <2>5. ASSUME NEW u \in Thread, NEW f \in Methods(u)', f.op = "provide"
        PROVE  \E g \in Methods(u) : g.op = "provide" /\ g.m = f.m
    <3>1. CASE f \in Methods(u)
      BY <2>5, <3>1
    <3>2. f.op \notin {"provided", "wrapped"}
      BY <2>5
    <3>3. ASSUME u = t, Turn(t, f) PROVE \E g \in Methods(u) : g.op = "provide" /\ g.m = f.m
      BY <2>1, <2>5, <3>3 DEF Turn
    <3> QED
      BY <2>4, <2>5, <3>1, <3>2, <3>3, FramesAfter, Zenon
  <2>6. ASSUME NEW f \in Methods(t)' PROVE f.op # "provide"
    <3>1. /\ DOMAIN stack[t] = 1..Len(stack[t]) /\ DOMAIN stack'[t] = 1..Len(stack'[t])
          /\ Len(stack'[t]) \in Nat /\ Len(stack[t]) \in Nat
      BY Indices DEF OwnTypes
    <3>2. \A i \in 1..(Len(stack[t]) - 1) : stack[t][i].op # "provide"
      BY DEF BelowTop, Under
    <3>3. PICK i \in 1..Len(stack'[t]) : f = stack'[t][i]
      BY <3>1 DEF Methods
    <3>4. Stored(t) \in Frames /\ Stored(t).op = "provided"
      BY <2>1, StoredFrame
    <3>5. ASSUME NEW g, Exchange(g, stack, t, Stored(t)), NEW j \in 1..Len(g[t])
          PROVE  g[t][j].op # "provide"
      <4>1. /\ Len(g[t]) = Len(stack[t]) /\ g[t][Len(stack[t])] = Stored(t)
            /\ \A k \in 1..(Len(stack[t]) - 1) : g[t][k] = stack[t][k]
        BY <3>5, Zenon DEF Exchange
      <4>2. j = Len(stack[t]) \/ j \in 1..(Len(stack[t]) - 1)
        BY <3>1, <4>1
      <4>3. CASE j = Len(stack[t])
        BY <3>4, <4>1, <4>3
      <4>4. CASE j \in 1..(Len(stack[t]) - 1)
        BY <3>2, <4>1, <4>4, Zenon
      <4> QED
        BY <4>2, <4>3, <4>4
    <3>6. /\ Exchange(Replaced(t, Stored(t)), stack, t, Stored(t))
          /\ Replaced(t, Stored(t)) \in [Thread -> Seq(Frames)]
      BY <2>1, <3>4, Exchanged, Zenon DEF OwnTypes, Replaced
    <3>7. CASE stack' = Replaced(t, Stored(t))
      BY <3>3, <3>5, <3>6, <3>7, Zenon
    <3>8. ASSUME NEW e \in Frames, e.op = "release",
                 stack' = [Replaced(t, Stored(t)) EXCEPT ![t] = Append(@, e)]
          PROVE  f.op # "provide"
      <4> DEFINE g == Replaced(t, Stored(t))
      <4>1. Exchange(g, stack, t, Stored(t)) /\ PushOn(stack', g, t, e)
            /\ g \in [Thread -> Seq(Frames)]
        BY <3>6, <3>8, PushedOn, Zenon
      <4> HIDE DEF g
      <4>2. /\ Len(stack'[t]) = Len(g[t]) + 1 /\ stack'[t][Len(stack'[t])] = e
            /\ \A j \in 1..Len(g[t]) : stack'[t][j] = g[t][j]
        BY <4>1, Zenon DEF PushOn
      <4>3. Len(g[t]) \in Nat
        BY <4>1, Indices
      <4>4. i \in 1..Len(g[t]) \/ i = Len(stack'[t])
        BY <4>2, <4>3
      <4>5. CASE i \in 1..Len(g[t])
        BY <3>3, <3>5, <4>1, <4>2, <4>5, Zenon
      <4>6. CASE i = Len(stack'[t])
        BY <3>3, <3>8, <4>2, <4>6
      <4> QED
        BY <4>4, <4>5, <4>6
    <3> QED
      BY <1>3, <3>7, <3>8 DEF StoreMove
  <2>7. ASSUME NEW u \in Thread, NEW f \in Methods(u)', f.op = "provide"
        PROVE  global'[f.m] = None \/ f.m \in overlapped'
    <3>1. PICK g \in Methods(u) : g.op = "provide" /\ g.m = f.m
      BY <2>5, <2>7
    <3>2. u # t
      BY <2>6, <2>7
    <3>3. CASE f.m = Top(t).m
      BY <2>1, <2>3, <3>1, <3>2, <3>3 DEF Races
    <3>4. CASE f.m # Top(t).m
      BY <2>3, <3>1, <3>4 DEF Races, OwnTypes
    <3> QED
      BY <3>3, <3>4
  <2>8. ASSUME NEW u \in Thread, NEW w \in Thread, NEW f \in Methods(u)', NEW g \in Methods(w)',
               u # w, f.op = "provide", g.op = "provide", f.m = g.m
        PROVE  f.m \in overlapped'
    <3>1. PICK e \in Methods(u) : e.op = "provide" /\ e.m = f.m
      BY <2>5, <2>8
    <3>2. PICK d \in Methods(w) : d.op = "provide" /\ d.m = f.m
      BY <2>5, <2>8
    <3> QED
      BY <2>3, <2>8, <3>1, <3>2 DEF Races
  <2> QED
    BY <2>7, <2>8 DEF Races
<1> QED
  BY <1>2, <1>3 DEF Move, ProvideMove, StartProvide

LEMMA SupersedingKept ==
  ASSUME OwnTypes, NEW t \in Thread, Shape(t), stack' \in [Thread -> Seq(Frames)],
         overlapped \subseteq overlapped', Races,
         NEW u \in Thread, BelowTop(stack[u]), Superseding(u)
  PROVE  Superseding(u)'
<1>1. SUFFICES ASSUME NEW i \in 1..(Len(stack'[u]) - 1), stack'[u][i].op = "provided",
                      overlapped = {}
               PROVE  FALSE
  BY DEF Superseding
<1>2. /\ Len(stack[u]) \in Nat /\ Len(stack'[u]) \in Nat
      /\ stack[u] = <<>> <=> Len(stack[u]) = 0
  BY Indices DEF OwnTypes
<1>3. \A j \in 1..(Len(stack[u]) - 1) : stack[u][j].op # "provided"
  BY <1>1 DEF Superseding
<1>4. ASSUME stack'[u] = stack[u] PROVE FALSE
  BY <1>1, <1>3, <1>4
<1>5. ASSUME NEW e \in Frames, Grow(t, e), u = t, More(stack'[u], stack[u], e) PROVE FALSE
  <2>1. /\ Len(stack'[u]) = Len(stack[u]) + 1
        /\ \A j \in 1..Len(stack[u]) : stack'[u][j] = stack[u][j]
    BY <1>5 DEF More
  <2>2. ASSUME Len(stack[u]) # 0 PROVE stack[u][Len(stack[u])].op # "provided"
    <3>1. stack[t] # <<>> /\ Top(t) = stack[t][Len(stack[t])]
      BY <1>2, <1>5, <2>2, TopFrame
    <3>2. Collects(t)
      BY <1>5, <3>1 DEF Grow
    <3> QED
      BY <1>5, <3>1, <3>2 DEF Collects, Within
  <2>3. i \in 1..(Len(stack[u]) - 1) \/ (Len(stack[u]) # 0 /\ i = Len(stack[u]))
    BY <1>2, <2>1
  <2>4. i \in 1..Len(stack[u])
    BY <1>2, <2>1
  <2> QED
    BY <1>1, <1>3, <2>1, <2>2, <2>3, <2>4, Zenon
<1>6. ASSUME NEW e \in Frames, NEW q, Other(q, stack[u], e), NEW j \in 1..(Len(q) - 1)
      PROVE  q[j].op # "provided"
  BY <1>3, <1>6, Zenon DEF Other
<1>7. ASSUME NEW e \in Frames, Supersede(t, e), stack'[u] # stack[u] PROVE FALSE
  <2>1. PICK d \in Frames, q \in Seq(Frames) :
          u = t /\ Superseded(t, e, d, q)
    BY <1>7, StacksOfSupersede, Zenon
  <2>0. /\ Other(q, stack[u], d) /\ More(stack'[u], q, e)
        /\ \/ Within(t, "provide") /\ global[Top(t).m] \in Context
           \/ d.op = "wrapped"
    BY <2>1, Zenon DEF Superseded
  <2>2. CASE Within(t, "provide") /\ global[Top(t).m] \in Context
    <3>1. Top(t) \in Methods(t) /\ Top(t).op = "provide" /\ global[Top(t).m] # None
      BY <2>2, TopFrame, NoneAssumption DEF Within
    <3> QED
      BY <1>1, <3>1 DEF Races
  <2>3. CASE d.op = "wrapped"
    <3>1. Len(q) \in Nat /\ Len(stack'[u]) = Len(q) + 1 /\ q[Len(q)] = d /\ Len(q) # 0
      BY <1>2, <2>0, <2>1, Zenon DEF Other, More
    <3>2. i \in 1..Len(q) /\ (i = Len(q) \/ i \in 1..(Len(q) - 1))
      BY <3>1
    <3>3. stack'[u][i] = q[i]
      BY <2>0, <2>1, <3>2, Zenon DEF More
    <3>4. CASE i = Len(q)
      BY <1>1, <2>3, <3>1, <3>3, <3>4
    <3>5. CASE i \in 1..(Len(q) - 1)
      BY <1>1, <1>6, <2>0, <2>1, <3>3, <3>5, Zenon
    <3> QED
      BY <3>2, <3>4, <3>5
  <2> QED
    BY <2>0, <2>1, <2>2, <2>3
<1>8. ASSUME Less(stack'[u], stack[u]) PROVE FALSE
  <2>1. i \in 1..(Len(stack[u]) - 1) /\ stack'[u][i] = stack[u][i]
    BY <1>2, <1>8 DEF Less
  <2> QED
    BY <1>1, <1>3, <2>1
<1>9. ASSUME NEW e \in Frames, Turn(t, e) PROVE FALSE
  BY <1>1, <1>4, <1>6, <1>9, StackOfOne, Zenon
<1>10. ASSUME NEW e \in Frames, Grow(t, e) PROVE FALSE
  BY <1>4, <1>5, <1>10, StackOfOne, Zenon
<1>11. ASSUME Shrink(t) PROVE FALSE
  BY <1>4, <1>8, <1>11, StackOfOne, Zenon
<1>12. ~UNCHANGED stack
  BY <1>4
<1> QED
  BY <1>4, <1>7, <1>9, <1>10, <1>11, <1>12, Zenon DEF Shape

LEMMA SpreadGrows ==
  ASSUME SharingNext
  PROVE  spread \subseteq spread'
<1>1. PICK t \in Thread : Start(t) \/ Enter(t) \/ EndBlock(t)
  BY DEF SharingNext
<1>2. CASE Start(t) \/ Enter(t)
  BY <1>2 DEF Start, StartInit, DropContext, ReleaseValue, StartUse, StartFind, StartAll, Keep,
              ReloadAll, StartProvide, StartWrap, FreeReference, Enter
<1>3. CASE StoreBlock(t)
  <2>1. spread' = spread \/ \E n : spread' = spread \cup {n}
    BY <1>3, Zenon DEF StoreBlock
  <2> QED
    BY <2>1
<1>4. CASE EndBlock(t) /\ ~StoreBlock(t)
  BY <1>4 DEF EndBlock, InitBlock, ReleaseBlock, DeallocBlock, FindBlock, AllBlock, Store,
              ProvidedBlock, UseBlock, LookBlock, WrappedBlock, UnrootBlock
<1> QED
  BY <1>1, <1>2, <1>3, <1>4

LEMMA CircleInductive ==
  /\ SharingInit => CircleInv
  /\ OwnInv /\ CircleInv /\ [SharingNext]_sharingVars => CircleInv'
<1>1. ASSUME SharingInit PROVE CircleInv
  <2>1. \A t \in Thread : stack[t] = <<>> /\ Methods(t) = {} /\ Held(t) = {} /\ Len(stack[t]) = 0
    BY <1>1 DEF SharingInit, Methods, Held
  <2>2. \A t \in Thread : BelowTop(stack[t]) /\ Superseding(t) /\ OneRuntime(stack[t], spread)
    BY <2>1 DEF BelowTop, Superseding, OneRuntime
  <2>3. Races /\ Exclusive
    BY <2>1 DEF Races, Exclusive
  <2> QED
    BY <2>2, <2>3, Zenon DEF CircleInv
<1>2. ASSUME OwnInv, CircleInv, SharingNext PROVE CircleInv'
  <2>1. OwnTypes
    BY <1>2 DEF OwnInv
  <2>2. PICK t \in Thread : Move(t)
    BY <1>2, <2>1, StepMoves
  <2>3. Shape(t) /\ stack' \in [Thread -> Seq(Frames)]
    BY <2>1, <2>2, ShapeOfMove, MoveKeepsStacks
  <2>4. overlapped \subseteq overlapped'
    BY <2>2 DEF Move, ProvideMove, StartProvide, StoreMove
  <2>5. UNCHANGED crosses /\ spread \subseteq spread'
    BY <1>2, CrossesStays, SpreadGrows
  <2>6. \A u \in Thread : BelowTop(stack'[u])
    BY <1>2, <2>1, <2>3, BelowTopKept, Zenon DEF CircleInv
  <2>7. \A u \in Thread : Superseding(u)'
    BY <1>2, <2>1, <2>3, <2>4, SupersedingKept, Zenon DEF CircleInv
  <2>8. ~crosses => \A u \in Thread : OneRuntime(stack'[u], spread')
    BY <1>2, <2>1, <2>3, <2>5, OneRuntimeKept, Zenon DEF CircleInv
  <2>9. Races'
    BY <1>2, <2>1, <2>2, <2>3, RacesKept, Zenon DEF CircleInv
  <2>10. Exclusive'
    BY <1>2, <2>1, <2>3, ExclusiveKept, Zenon DEF CircleInv
  <2>11. ~crosses' => ~crosses
    BY <2>5
  <2> QED
    BY <2>6, <2>7, <2>8, <2>9, <2>10, <2>11, Zenon DEF CircleInv
<1>3. ASSUME CircleInv, UNCHANGED sharingVars PROVE CircleInv'
  <2>1. UNCHANGED <<stack, global, crosses, overlapped, spread>>
    BY <1>3 DEF sharingVars, own
  <2>2. \A t \in Thread : Methods(t)' = Methods(t) /\ Held(t)' = Held(t)
    BY <2>1 DEF Methods, Held
  <2>3. Races' /\ Exclusive'
    BY <1>3, <2>1, <2>2 DEF CircleInv, Races, Exclusive
  <2>4. \A t \in Thread : BelowTop(stack'[t]) /\ Superseding(t)'
    BY <1>3, <2>1 DEF CircleInv, Superseding
  <2>5. ~crosses' => \A t \in Thread : OneRuntime(stack'[t], spread')
    BY <1>3, <2>1 DEF CircleInv
  <2> QED
    BY <2>3, <2>4, <2>5, Zenon DEF CircleInv
<1> QED
  BY <1>1, <1>2, <1>3

\* What a thread that waits holds.
LEMMA HeldWaiting ==
  ASSUME OwnTypes, CircleInv, NEW u \in Thread, Waits(u), NEW r \in Held(u)
  PROVE  \/ /\ r \in Runtime
            /\ \E i \in 1..(Len(stack[u]) - 1) :
                 stack[u][i].op \in RuntimeOps /\ r = RuntimeOf[stack[u][i].c]
         \/ r = "globalModules" /\ Top(u).op \in Releasing /\ overlapped # {}
         \/ r \in Native /\ Top(u).op \in Releasing /\ \E q \in Held(u) : q \in Runtime
<1>1. /\ DOMAIN stack[u] = 1..Len(stack[u]) /\ Len(stack[u]) \in Nat
      /\ \A i \in 1..Len(stack[u]) : stack[u][i] \in Frames
  BY Indices DEF OwnTypes
<1>2. stack[u] # <<>> /\ ~Top(u).inside /\ Top(u) = stack[u][Len(stack[u])]
  BY TopFrame DEF Waits
<1>3. PICK i \in 1..Len(stack[u]) : stack[u][i].inside /\ r = Lock(stack[u][i])
  BY <1>1 DEF Held, HeldBy, Methods
<1>4. i \in 1..(Len(stack[u]) - 1) /\ Len(stack[u]) \in 1..Len(stack[u]) /\ i < Len(stack[u])
  BY <1>1, <1>2, <1>3
<1>5. Under(stack[u][i]) /\ (stack[u][i].op # "use" => Top(u).op \in Releasing)
  BY <1>2, <1>4, Zenon DEF CircleInv, BelowTop
<1>6. CASE stack[u][i].op \in {"use", "init", "dealloc"}
  <2>1. r = RuntimeOf[stack[u][i].c]
    BY <1>1, <1>3, <1>5, <1>6, LockOf DEF Under
  <2>2. stack[u][i].c \in Context
    BY <1>1, <1>6 DEF Frames, ContextOps
  <2>3. stack[u][i].op \in RuntimeOps /\ RuntimeOf[stack[u][i].c] \in Runtime
    BY <1>6, <2>2, RuntimeAssumption DEF RuntimeOps
  <2> QED
    BY <1>4, <2>1, <2>3, Zenon
<1>7. CASE stack[u][i].op = "provided"
  <2>1. r = "globalModules"
    BY <1>1, <1>3, <1>7, LockOf
  <2>2. Top(u).op \in Releasing
    BY <1>5, <1>7
  <2>3. overlapped # {}
    BY <1>4, <1>7 DEF CircleInv, Superseding
  <2> QED
    BY <2>1, <2>2, <2>3
<1>8. CASE stack[u][i].op = "wrapped"
  <2>1. stack[u][i].op \in WrapOps /\ stack[u][i].op \notin Releasing
    BY <1>8 DEF WrapOps, Releasing
  <2>2. r = stack[u][i].m /\ r \in Native
    BY <1>1, <1>3, <2>1, LockOf DEF Frames
  <2>3. Top(u).op \in Releasing
    BY <1>5, <1>8
  <2>4. i # 1
    BY <2>1, Zenon DEF CircleInv, BelowTop
  <2>5. 1 \in 1..Len(stack[u]) /\ 1 \in 1..(Len(stack[u]) - 1) /\ 1 < i
    BY <1>1, <1>4, <2>4
  <2>6. stack[u][1].op = "use" /\ stack[u][1].inside
    BY <2>1, <2>5, Zenon DEF CircleInv, BelowTop, Under
  <2>7. Lock(stack[u][1]) = RuntimeOf[stack[u][1].c] /\ stack[u][1].c \in Context
    BY <1>1, <2>5, <2>6, LockOf DEF Frames, ContextOps
  <2>8. stack[u][1] \in Methods(u)
    BY <1>1, <2>5 DEF Methods
  <2>9. RuntimeOf[stack[u][1].c] \in Held(u) /\ RuntimeOf[stack[u][1].c] \in Runtime
    BY <2>6, <2>7, <2>8, RuntimeAssumption DEF Held, HeldBy
  <2> QED
    BY <2>2, <2>3, <2>9, Zenon
<1> QED
  BY <1>5, <1>6, <1>7, <1>8 DEF Under

\* The lock of a method that something released leads to, and of one that holds a runtime.
LEMMA LockInRuntime ==
  ASSUME NEW f \in Frames
  PROVE  /\ f.op \in Releasing => Lock(f) \in Runtime \/ Lock(f) = "contextDict"
         /\ Lock(f) \in Runtime => f.op \in RuntimeOps /\ Lock(f) = RuntimeOf[f.c]
<1>1. "contextDict" \notin Runtime /\ "globalModules" \notin Runtime /\ Runtime \cap Native = {}
  BY LockAssumption
<1>2. f.op \in RuntimeOps => f.c \in Context /\ RuntimeOf[f.c] \in Runtime
  BY RuntimeAssumption DEF Frames, ContextOps, RuntimeOps
<1>3. ASSUME f.op \in Releasing PROVE Lock(f) \in Runtime \/ Lock(f) = "contextDict"
  <2>1. f.op \in RuntimeOps /\ f.op \in {"unroot", "release", "dealloc"}
    BY <1>3 DEF Releasing, RuntimeOps
  <2>2. Lock(f) \in {RuntimeOf[f.c], "contextDict"}
    BY <2>1, LockOf
  <2> QED
    BY <1>2, <2>1, <2>2
<1>4. ASSUME Lock(f) \in Runtime PROVE f.op \in RuntimeOps /\ Lock(f) = RuntimeOf[f.c]
  <2>1. f.op \in Op
    BY DEF Frames, Frame
  <2>2. ASSUME f.op \in WrapOps PROVE FALSE
    <3>1. Lock(f) \in Native
      BY <2>2, LockOf DEF Frames
    <3> QED
      BY <1>1, <1>4, <3>1
  <2>3. f.op \notin {"find", "all", "provide", "provided"}
    BY <1>1, <1>4, LockOf
  <2>4. f.op \in {"init", "dealloc", "use", "release", "unroot"}
    BY <2>1, <2>2, <2>3 DEF Op, WrapOps
  <2>5. Lock(f) \in {RuntimeOf[f.c], "contextDict"}
    BY <2>4, LockOf
  <2> QED
    BY <1>1, <1>4, <2>4, <2>5 DEF RuntimeOps
<1> QED
  BY <1>3, <1>4

\* Threads that wait for each other in a circle: one of them goes from the lock of one runtime
\* to that of another, as a program that crosses does or a finalizer of a native that scripts
\* of both have seen; or it releases a global module that two threads have provided at the same
\* time (CirclesCross).
LEMMA CirclesCrossHere ==
  ASSUME OwnTypes, CircleInv
  PROVE  CirclesCross
<1>1. SUFFICES ASSUME NEW S \in SUBSET Thread, Circle(S)
               PROVE  \/ crosses /\ \E t \in S : Crosses(t)
                      \/ spread # {} /\ \E t \in S : Finalizes(t)
                      \/ overlapped # {} /\ \E t \in S : Replaces(t)
  BY DEF CirclesCross
<1>2. \A t \in S : Waits(t) /\ \E u \in S : u # t /\ Lock(Top(t)) \in Held(u)
  BY <1>1 DEF Circle, Blocks
<1>3. /\ "contextDict" \notin Runtime \cup Native /\ "globalModules" \notin Runtime \cup Native
      /\ Runtime \cap Native = {} /\ "contextDict" # "globalModules"
  BY LockAssumption
<1>4. ASSUME NEW t \in S PROVE Lock(Top(t)) \in Runtime \cup {"globalModules"} \cup Native
  <2>1. PICK u \in S : Lock(Top(t)) \in Held(u) /\ Waits(u)
    BY <1>2
  <2> QED
    BY <2>1, HeldWaiting
<1>5. ASSUME NEW t \in S PROVE Top(t) \in Frames /\ Top(t) = stack[t][Len(stack[t])]
                               /\ Len(stack[t]) \in Nat \ {0}
  BY <1>2, TopFrame DEF Waits
<1>6. ASSUME NEW u \in S, Top(u).op \in Releasing PROVE Lock(Top(u)) \in Runtime
  BY <1>3, <1>4, <1>5, <1>6, LockInRuntime
<1>7. ASSUME NEW u \in S, "globalModules" \in Held(u) PROVE overlapped # {} /\ Replaces(u)
  <2>1. Top(u).op \in Releasing /\ overlapped # {}
    BY <1>2, <1>3, <1>7, HeldWaiting
  <2> QED
    BY <1>6, <1>7, <2>1 DEF Replaces
<1>8. ASSUME NEW u \in S, Lock(Top(u)) \in Runtime, NEW r \in Held(u), r \in Runtime
      PROVE  \/ crosses /\ \E t \in S : Crosses(t)
             \/ spread # {} /\ \E t \in S : Finalizes(t)
             \/ overlapped # {} /\ \E t \in S : Replaces(t)
  <2>1. PICK w \in S : w # u /\ Lock(Top(u)) \in Held(w)
    BY <1>2
  <2>2. r # Lock(Top(u))
    BY <1>8, <2>1 DEF CircleInv, Exclusive
  <2>3. Crosses(u)
    BY <1>8, <2>2 DEF Crosses
  <2>4. CASE crosses
    BY <2>3, <2>4
  <2>5. CASE ~crosses
    <3>1. PICK i \in 1..(Len(stack[u]) - 1) :
            stack[u][i].op \in RuntimeOps /\ r = RuntimeOf[stack[u][i].c]
      BY <1>2, <1>3, <1>8, HeldWaiting
    <3>2. Top(u).op \in RuntimeOps /\ Lock(Top(u)) = RuntimeOf[Top(u).c]
      BY <1>5, <1>8, LockInRuntime
    <3>3. /\ i \in 1..Len(stack[u]) /\ Len(stack[u]) \in 1..Len(stack[u])
          /\ i < Len(stack[u]) /\ Top(u) = stack[u][Len(stack[u])]
      BY <1>5
    <3>4. OneRuntime(stack[u], spread)
      BY <2>5 DEF CircleInv
    <3>5. stack[u][i].op \in Tied /\ stack[u][Len(stack[u])].op \in Tied
      BY <3>1, <3>2, <3>3 DEF Tied
    <3>6. \/ RuntimeOf[stack[u][i].c] = RuntimeOf[stack[u][Len(stack[u])].c]
          \/ spread # {} /\ stack[u][Len(stack[u])].op \in Releasing
          \/ \E k \in 1..Len(stack[u]) : k < Len(stack[u]) /\ stack[u][k].op = "provided"
      BY <3>3, <3>4, <3>5, Zenon DEF OneRuntime
    <3>7. CASE spread # {} /\ Top(u).op \in Releasing
      BY <2>3, <3>7 DEF Finalizes, Releasing
    <3>8. ASSUME NEW k \in 1..Len(stack[u]), k < Len(stack[u]), stack[u][k].op = "provided"
          PROVE  overlapped # {} /\ Replaces(u)
      <4>1. /\ k \in 1..(Len(stack[u]) - 1) /\ DOMAIN stack[u] = 1..Len(stack[u])
            /\ stack[u][k] \in Frames
        BY <1>5, <3>8, Indices DEF OwnTypes
      <4>2. stack[u][k].inside
        BY <4>1 DEF CircleInv, BelowTop, Under
      <4>3. Lock(stack[u][k]) = "globalModules"
        BY <3>8, <4>1, LockOf
      <4>4. "globalModules" \in Held(u)
        BY <4>1, <4>2, <4>3 DEF Held, HeldBy, Methods
      <4> QED
        BY <1>7, <4>4
    <3>9. RuntimeOf[stack[u][i].c] # RuntimeOf[stack[u][Len(stack[u])].c]
      BY <2>2, <3>1, <3>2, <3>3
    <3> QED
      BY <3>3, <3>6, <3>7, <3>8, <3>9, Zenon
  <2> QED
    BY <2>4, <2>5
<1>9. ASSUME NEW t \in S, Lock(Top(t)) = "globalModules"
      PROVE  overlapped # {} /\ \E u \in S : Replaces(u)
  BY <1>2, <1>7, <1>9
<1>10. ASSUME NEW t \in S, Lock(Top(t)) \in Native
       PROVE  \E u \in S : Lock(Top(u)) \in Runtime /\ \E r \in Held(u) : r \in Runtime
  <2>1. PICK u \in S : Lock(Top(t)) \in Held(u) /\ Waits(u)
    BY <1>2
  <2>2. Top(u).op \in Releasing /\ \E r \in Held(u) : r \in Runtime
    BY <1>3, <1>10, <2>1, HeldWaiting
  <2> QED
    BY <1>6, <2>2
<1>11. ASSUME \A t \in S : Lock(Top(t)) \in Runtime
       PROVE  \E u \in S : Lock(Top(u)) \in Runtime /\ \E r \in Held(u) : r \in Runtime
  <2>1. PICK t \in S : Lock(Top(t)) \in Runtime
    BY <1>1, <1>11 DEF Circle
  <2>2. PICK u \in S : Lock(Top(t)) \in Held(u)
    BY <1>2
  <2> QED
    BY <1>11, <2>1, <2>2
<1>12. \/ \E t \in S : Lock(Top(t)) = "globalModules"
       \/ \E u \in S : Lock(Top(u)) \in Runtime /\ \E r \in Held(u) : r \in Runtime
  BY <1>4, <1>10, <1>11
<1> QED
  BY <1>8, <1>9, <1>12, Zenon

\* Whatever the number of threads, contexts and natives and the order in which they take their
\* locks, a circle of waiting threads has one of three causes (CirclesCross).
THEOREM CirclesHaveACause == SharingSpec => []CirclesCross
<1>1. OwnInv /\ CircleInv => CirclesCross
  BY CirclesCrossHere DEF OwnInv
<1> QED
  BY <1>1, OwnInductive, CircleInductive, PTL DEF SharingSpec

\* A global module is replaced only when two threads provide it at the same time
\* (ReplacedOnlyInARace).
THEOREM ModulesStay == SharingSpec => ReplacedOnlyInARace
<1>1. ASSUME OwnInv, CircleInv, [SharingNext]_sharingVars
      PROVE  [\A m \in ModuleId :
                global[m] \notin {None, global'[m]} => m \in overlapped]_sharingVars
  <2>1. SUFFICES ASSUME SharingNext, NEW m \in ModuleId, global[m] \notin {None, global'[m]}
                 PROVE  m \in overlapped
    BY <1>1
  <2>2. PICK t \in Thread : Within(t, "provide") /\ global' = [global EXCEPT ![Top(t).m] = Top(t).c]
    BY <1>1, <2>1, ReferenceSteps DEF OwnInv, RegistryInv
  <2>3. m = Top(t).m
    BY <1>1, <2>1, <2>2 DEF OwnInv, OwnTypes
  <2>4. Top(t) \in Methods(t) /\ Top(t).op = "provide"
    BY <1>1, <2>2, TopFrame DEF Within, OwnInv
  <2> QED
    BY <1>1, <2>1, <2>3, <2>4 DEF CircleInv, Races
<1> QED
  BY <1>1, OwnInductive, CircleInductive, PTL DEF SharingSpec, ReplacedOnlyInARace
=============================================================================
