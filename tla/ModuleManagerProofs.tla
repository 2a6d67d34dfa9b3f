------------------------- MODULE ModuleManagerProofs -------------------------
(***************************************************************************)
(* ModuleManager for every set of ids and values and every number of       *)
(* loads: its safety properties, first with reloads at any time (Spec),    *)
(* then with reloads from outside only (QuietSpec), that QuietSpec         *)
(* implements ModuleCache and scripts that require each other follow       *)
(* QuietSpec; and the ids of ModuleIdLoop, of every length over every set  *)
(* of names.                                                               *)
(***************************************************************************)
EXTENDS ModuleGraph, ModuleIdLoop, StackLemmas, SequenceTheorems, FiniteSetTheorems, TLAPS

\* The id a require is resolved against is an id, or none.
LEMMA ResolvedType ==
  ASSUME stack \in Seq(Id), NEW raw \in Id
  PROVE  ResolveModuleId(raw) \in Id
<1>1. CurrentId \in Id \cup {<<>>}
  BY LastFront DEF CurrentId
<1> QED
  BY <1>1, IdAssumption DEF ResolveModuleId

\* What an activation of -resolveModule: adds.
LEMMA BeginLoadType ==
  ASSUME TypeOK, NEW cache \in [Id -> Exports \cup {Nil}], NEW id \in Id,
         BeginLoad(cache, id)
  PROVE  /\ modules' \in [Id -> Exports \cup {Nil}]
         /\ stack' \in Seq(Id)
         /\ frames' \in Seq(Frame)
         /\ loads' \in 0..MaxLoads
<1>1. loads + 1 \in Object
  BY ValueAssumption DEF BeginLoad, TypeOK, Object
<1>2. [id |-> id, exports |-> loads + 1, result |-> loads + 1] \in Frame
  BY <1>1 DEF Frame, Exports
<1> QED
  BY <1>1, <1>2 DEF BeginLoad, TypeOK, Object, Exports

\* A require keeps the types, whatever cache it starts from.
LEMMA RequireType ==
  ASSUME TypeOK, NEW cache \in [Id -> Exports \cup {Nil}], NEW raw \in Id,
         Require(cache, raw)
  PROVE  TypeOK'
<1>1. ResolveModuleId(raw) \in Id
  BY ResolvedType DEF TypeOK
<1>2. CASE BeginLoad(cache, ResolveModuleId(raw))
  BY <1>1, <1>2, BeginLoadType DEF Require, TypeOK
<1>3. CASE modules' = cache /\ UNCHANGED <<stack, frames, loads>>
  BY <1>3 DEF Require, TypeOK
<1> QED
  BY <1>2, <1>3 DEF Require

\* The variables keep their types under every operation.
LEMMA TypeStep ==
  ASSUME TypeOK, Next
  PROVE  TypeOK'
<1> USE DEF TypeOK
<1>1. ASSUME NEW raw \in Id, RequireModule(raw) PROVE TypeOK'
  BY <1>1, RequireType DEF RequireModule
<1>2. ASSUME NEW i \in DOMAIN frames, NEW v \in Value \cup (1..loads) \cup {Nil},
             SetModuleExports(i, v)
      PROVE  TypeOK'
  <2>1. v \in Exports \cup {Nil}
    BY ValueAssumption DEF Exports, Object
  <2>2. frames[i] \in Frame
    BY LenProperties
  <2>3. [frames[i] EXCEPT !.result = v] \in Frame
    BY <2>1, <2>2 DEF Frame
  <2> QED
    BY <1>2, <2>3, ExceptSeq DEF SetModuleExports
<1>3. ASSUME LoadSucceeds PROVE TypeOK'
  <2>1. frames # <<>> /\ stack \in Seq(Id)
    BY <1>3 DEF LoadSucceeds, Idle
  <2>2. Last(frames) \in Frame /\ Front(frames) \in Seq(Frame)
    BY <2>1, LastFront
  <2>3. Front(stack) \in Seq(Id)
    BY DEF Front
  <2> QED
    BY <1>3, <2>2, <2>3 DEF LoadSucceeds, Frame, Exports
<1>4. ASSUME LoadFails PROVE TypeOK'
  <2>1. Last(frames) \in Frame /\ Front(frames) \in Seq(Frame)
    BY <1>4, LastFront DEF LoadFails, Idle
  <2>2. Front(stack) \in Seq(Id)
    BY DEF Front
  <2> QED
    BY <1>4, <2>1, <2>2 DEF LoadFails, Frame
<1>5. ASSUME NEW id \in LocalId, NEW p \in Value \cup {Block}, Provide(id, p) PROVE TypeOK'
  BY <1>5 DEF Provide
<1>6. ASSUME NEW id \in GlobalId, NEW p \in Value \cup {Block}, ProvideGlobal(id, p)
      PROVE  TypeOK'
  BY <1>6 DEF ProvideGlobal
<1>7. ASSUME ReloadAll PROVE TypeOK'
  BY <1>7 DEF ReloadAll
<1>8. ASSUME NEW raw \in Id, ReloadModule(raw) PROVE TypeOK'
  <2>1. ResolveModuleId(raw) \in Id
    BY ResolvedType
  <2> QED
    BY <1>8, <2>1, RequireType DEF ReloadModule
<1> QED
  BY <1>1, <1>2, <1>3, <1>4, <1>5, <1>6, <1>7, <1>8 DEF Next, Load, Reload

\* The variables of the manager have their types in every state: what is cached is
\* an exports object or a provided value, never a block, and every id on the stack
\* is a resolved one.
THEOREM TypeCorrect == Spec => []TypeOK
<1>1. Init => TypeOK
  BY ValueAssumption DEF Init, TypeOK
<1>2. TypeOK /\ [Next]_vars => TypeOK'
  BY TypeStep DEF vars, TypeOK
<1> QED
  BY <1>1, <1>2, PTL DEF Spec
-----------------------------------------------------------------------------
\* Starting an activation pushes one id and one frame.
LEMMA BeginLoadFrames ==
  ASSUME TypeOK, NEW cache \in [Id -> Exports \cup {Nil}], NEW id \in Id,
         BeginLoad(cache, id)
  PROVE  /\ Len(stack') = Len(stack) + 1
         /\ Len(frames') = Len(frames) + 1
         /\ Len(frames) \in Nat /\ DOMAIN frames = 1..Len(frames)
         /\ DOMAIN frames' = 1..(Len(frames) + 1)
         /\ \A i \in DOMAIN stack : stack'[i] = stack[i]
         /\ \A i \in DOMAIN frames : frames'[i] = frames[i]
         /\ stack'[Len(stack) + 1] = id
         /\ frames'[Len(frames) + 1].id = id
         /\ frames'[Len(frames) + 1].exports = loads + 1
<1> DEFINE new == [id |-> id, exports |-> loads + 1, result |-> loads + 1]
<1>1. new \in Frame
  BY ValueAssumption DEF BeginLoad, TypeOK, Object, Exports, Frame
<1>2. stack \in Seq(Id) /\ frames \in Seq(Frame)
  BY DEF TypeOK
<1>3. stack' = Append(stack, id) /\ frames' = Append(frames, new)
  BY DEF BeginLoad
<1> HIDE DEF new
<1>4. /\ Len(stack') = Len(stack) + 1
      /\ Len(frames') = Len(frames) + 1
      /\ \A i \in DOMAIN stack : stack'[i] = stack[i]
      /\ \A i \in DOMAIN frames : frames'[i] = frames[i]
      /\ stack'[Len(stack) + 1] = id
      /\ frames'[Len(frames) + 1] = new
  BY <1>1, <1>2, <1>3, AppendProperties, LenProperties
<1>5. Len(frames) \in Nat /\ DOMAIN frames = 1..Len(frames)
  BY <1>2, LenProperties
<1>6. DOMAIN frames' = 1..(Len(frames) + 1)
  BY <1>1, <1>2, <1>3, <1>4, AppendProperties, LenProperties
<1> QED
  BY <1>4, <1>5, <1>6 DEF new

\* module.exports is no part of what identifies an activation.
LEMMA SetExportsFrames ==
  ASSUME TypeOK, NEW i \in DOMAIN frames, NEW v, SetModuleExports(i, v)
  PROVE  /\ Len(frames') = Len(frames)
         /\ DOMAIN frames' = DOMAIN frames
         /\ \A j \in DOMAIN frames : /\ frames'[j].id = frames[j].id
                                    /\ frames'[j].exports = frames[j].exports
<1>1. DOMAIN frames = 1..Len(frames) /\ \A j \in DOMAIN frames : frames[j] \in Frame
  BY LenProperties DEF TypeOK
<1>2. frames' = [frames EXCEPT ![i] = [frames[i] EXCEPT !.result = v]]
  BY DEF SetModuleExports
<1>3. DOMAIN frames' = DOMAIN frames
  BY <1>2
<1>4. \A j \in DOMAIN frames :
        frames'[j] = IF j = i THEN [frames[i] EXCEPT !.result = v] ELSE frames[j]
  BY <1>2
<1>5. Len(frames') = Len(frames)
  BY <1>1, <1>2, <1>3 DEF TypeOK
<1> QED
  BY <1>1, <1>3, <1>4, <1>5 DEF Frame

\* Ending an activation drops the last id and the last frame.
LEMMA EndLoadFrames ==
  ASSUME TypeOK, StackMatchesFrames, LoadSucceeds \/ LoadFails
  PROVE  /\ frames \in Seq(Frame) /\ Len(frames) \in Nat \ {0}
         /\ Last(frames) = frames[Len(frames)] /\ Last(frames) \in Frame
         /\ Len(stack') = Len(stack) - 1
         /\ Len(frames') = Len(frames) - 1
         /\ \A i \in 1..(Len(frames) - 1) : stack'[i] = stack[i] /\ frames'[i] = frames[i]
<1>1. frames \in Seq(Frame) /\ frames # <<>> /\ stack \in Seq(Id)
  BY DEF TypeOK, LoadSucceeds, LoadFails, Idle
<1>2. Len(stack) = Len(frames)
  BY DEF StackMatchesFrames
<1>3. stack # <<>>
  BY <1>1, <1>2, EmptySeq
<1>4. frames' = Front(frames) /\ stack' = Front(stack)
  BY DEF LoadSucceeds, LoadFails
<1> QED
  BY <1>1, <1>2, <1>3, <1>4, LastFront

\* The stack follows the activations under every operation.
LEMMA StackStep ==
  ASSUME TypeOK, StackMatchesFrames, Next
  PROVE  StackMatchesFrames'
<1>1. DOMAIN frames = 1..Len(frames) /\ DOMAIN stack = 1..Len(stack)
  BY LenProperties DEF TypeOK
<1>2. DOMAIN frames' = 1..Len(frames')
  BY TypeStep, LenProperties DEF TypeOK
<1>3. ASSUME NEW cache \in [Id -> Exports \cup {Nil}], NEW id \in Id, BeginLoad(cache, id)
      PROVE  StackMatchesFrames'
  <2>1. /\ Len(stack') = Len(stack) + 1 /\ Len(frames') = Len(frames) + 1
        /\ Len(frames) \in Nat /\ DOMAIN frames = 1..Len(frames)
        /\ DOMAIN frames' = 1..(Len(frames) + 1)
        /\ \A i \in DOMAIN stack : stack'[i] = stack[i]
        /\ \A i \in DOMAIN frames : frames'[i] = frames[i]
        /\ stack'[Len(stack) + 1] = id /\ frames'[Len(frames) + 1].id = id
    BY <1>3, BeginLoadFrames
  <2> QED
    BY <1>1, <2>1 DEF StackMatchesFrames
<1>4. ASSUME NEW cache \in [Id -> Exports \cup {Nil}], NEW raw \in Id, Require(cache, raw)
      PROVE  StackMatchesFrames'
  BY <1>3, <1>4, ResolvedType DEF Require, TypeOK, StackMatchesFrames
<1>5. ASSUME NEW raw \in Id, RequireModule(raw) PROVE StackMatchesFrames'
  BY <1>4, <1>5 DEF RequireModule, TypeOK
<1>6. ASSUME NEW raw \in Id, ReloadModule(raw) PROVE StackMatchesFrames'
  BY <1>4, <1>6, ResolvedType, ValueAssumption DEF ReloadModule, TypeOK
<1>7. ASSUME NEW i \in DOMAIN frames, NEW v \in Value \cup (1..loads) \cup {Nil},
             SetModuleExports(i, v)
      PROVE  StackMatchesFrames'
  <2>1. /\ stack' = stack /\ Len(frames') = Len(frames) /\ DOMAIN frames' = DOMAIN frames
        /\ \A j \in DOMAIN frames : frames'[j].id = frames[j].id
    BY <1>7, SetExportsFrames DEF SetModuleExports
  <2> QED
    BY <2>1 DEF StackMatchesFrames
<1>8. ASSUME LoadSucceeds \/ LoadFails PROVE StackMatchesFrames'
  BY <1>2, <1>8, EndLoadFrames DEF StackMatchesFrames
<1>9. ASSUME UNCHANGED <<stack, frames>> PROVE StackMatchesFrames'
  BY <1>9 DEF StackMatchesFrames
<1> QED
  BY <1>5, <1>6, <1>7, <1>8, <1>9 DEF Next, Load, Reload, Provide, ProvideGlobal, ReloadAll

\* A relative require is resolved against the module whose body runs, and nothing is
\* left on _stack when none runs, whatever is required, reloaded and fails, and in
\* whatever order (StackMatchesFrames).
THEOREM StackCorrect == Spec => []StackMatchesFrames
<1>1. Init => TypeOK /\ StackMatchesFrames
  BY ValueAssumption DEF Init, TypeOK, StackMatchesFrames
<1>2. TypeOK /\ StackMatchesFrames /\ [Next]_vars => (TypeOK /\ StackMatchesFrames)'
  <2>1. TypeOK /\ StackMatchesFrames /\ Next => (TypeOK /\ StackMatchesFrames)'
    BY TypeStep, StackStep
  <2>2. TypeOK /\ StackMatchesFrames /\ UNCHANGED vars => (TypeOK /\ StackMatchesFrames)'
    BY DEF vars, TypeOK, StackMatchesFrames
  <2> QED
    BY <2>1, <2>2
<1> QED
  BY <1>1, <1>2, PTL DEF Spec
-----------------------------------------------------------------------------
\* No operation leaves an exports object behind that no load stands for.
LEMMA OrphanStep ==
  ASSUME TypeOK, StackMatchesFrames, NoOrphanedExports, Next
  PROVE  NoOrphanedExports'
<1> DEFINE Owned(id) == \E i \in DOMAIN frames :
                          frames[i].id = id /\ frames[i].exports = modules[id]
<1>1. DOMAIN frames = 1..Len(frames) /\ Len(frames) \in Nat
  BY LenProperties DEF TypeOK
<1>2. DOMAIN frames' = 1..Len(frames')
  BY TypeStep, LenProperties DEF TypeOK
<1>3. ASSUME NEW cache \in [Id -> Exports \cup {Nil}], NEW raw \in Id, Require(cache, raw),
             \A id \in Id : cache[id] \in {Nil, modules[id]}
      PROVE  NoOrphanedExports'
  <2> DEFINE new == ResolveModuleId(raw)
  <2>1. new \in Id /\ lastGood' = lastGood
    BY <1>3, ResolvedType DEF Require, TypeOK
  <2>2. CASE modules' = cache /\ UNCHANGED frames
    BY <1>3, <2>1, <2>2 DEF NoOrphanedExports
  <2>3. CASE BeginLoad(cache, new)
    <3>1. /\ Len(frames) \in Nat /\ DOMAIN frames = 1..Len(frames)
          /\ DOMAIN frames' = 1..(Len(frames) + 1)
          /\ \A i \in DOMAIN frames : frames'[i] = frames[i]
          /\ frames'[Len(frames) + 1].id = new
          /\ frames'[Len(frames) + 1].exports = loads + 1
      BY <1>3, <2>1, <2>3, BeginLoadFrames
    <3> SUFFICES ASSUME NEW id \in Id, modules'[id] # Nil, modules'[id] # lastGood[id]
                 PROVE  \E i \in DOMAIN frames' :
                          frames'[i].id = id /\ frames'[i].exports = modules'[id]
      BY <2>1 DEF NoOrphanedExports
    <3>2. modules' = [cache EXCEPT ![new] = loads + 1]
      BY <2>3 DEF BeginLoad
    <3>3. CASE id = new
      <4>1. modules'[id] = loads + 1
        BY <3>2, <3>3
      <4> QED
        <5>1. Len(frames) + 1 \in DOMAIN frames'
          BY <3>1
        <5> WITNESS Len(frames) + 1 \in DOMAIN frames'
        <5> QED
          BY <3>1, <3>3, <4>1
    <3>4. CASE id # new
      <4>1. modules'[id] = modules[id]
        BY <1>3, <3>2, <3>4
      <4>2. PICK i \in DOMAIN frames : frames[i].id = id /\ frames[i].exports = modules[id]
        BY <4>1 DEF NoOrphanedExports
      <4> QED
        <5>1. i \in DOMAIN frames'
          BY <3>1, <4>2
        <5> WITNESS i \in DOMAIN frames'
        <5> QED
          BY <3>1, <4>1, <4>2
    <3> QED
      BY <3>3, <3>4
  <2> QED
    BY <1>3, <2>2, <2>3 DEF Require
<1>4. ASSUME NEW raw \in Id, RequireModule(raw) PROVE NoOrphanedExports'
  BY <1>3, <1>4 DEF RequireModule, TypeOK
<1>5. ASSUME NEW raw \in Id, ReloadModule(raw) PROVE NoOrphanedExports'
  <2> DEFINE id == ResolveModuleId(raw)  cache == [modules EXCEPT ![id] = Nil]
  <2>1. id \in Id
    BY ResolvedType DEF TypeOK
  <2>2. cache \in [Id -> Exports \cup {Nil}] /\ \A j \in Id : cache[j] \in {Nil, modules[j]}
    BY <2>1 DEF TypeOK
  <2>3. Require(cache, id)
    BY <1>5 DEF ReloadModule
  <2> QED
    BY <1>3, <2>1, <2>2, <2>3
<1>6. ASSUME NEW i \in DOMAIN frames, NEW v \in Value \cup (1..loads) \cup {Nil},
             SetModuleExports(i, v)
      PROVE  NoOrphanedExports'
  BY <1>6, SetExportsFrames DEF SetModuleExports, NoOrphanedExports
<1>7. ASSUME LoadSucceeds \/ LoadFails PROVE NoOrphanedExports'
  <2> DEFINE f == Last(frames)
  <2>1. /\ f = frames[Len(frames)] /\ f \in Frame /\ Len(frames) > 0
        /\ Len(frames') = Len(frames) - 1
        /\ \A i \in 1..(Len(frames) - 1) : frames'[i] = frames[i]
    BY <1>7, EndLoadFrames
  <2>2. \A id \in Id \ {f.id} : modules'[id] = modules[id] /\ lastGood'[id] = lastGood[id]
    BY <1>7 DEF LoadSucceeds, LoadFails, TypeOK
  <2>3. modules'[f.id] = Nil \/ modules'[f.id] = lastGood'[f.id]
    BY <1>7, <2>1 DEF LoadSucceeds, LoadFails, TypeOK, Frame
  <2>4. ASSUME NEW id \in Id \ {f.id}, NEW i \in DOMAIN frames, frames[i].id = id
        PROVE  i \in DOMAIN frames' /\ frames'[i] = frames[i]
    BY <1>1, <1>2, <2>1, <2>4
  <2> QED
    BY <2>2, <2>3, <2>4 DEF NoOrphanedExports
<1>8. ASSUME UNCHANGED <<modules, frames, lastGood>> PROVE NoOrphanedExports'
  BY <1>8 DEF NoOrphanedExports
<1>9. ASSUME ReloadAll PROVE NoOrphanedExports'
  BY <1>9 DEF ReloadAll, NoOrphanedExports
<1> QED
  BY <1>4, <1>5, <1>6, <1>7, <1>8, <1>9 DEF Next, Load, Reload, Provide, ProvideGlobal

\* What require answers from its cache is the result of the last successful load of
\* that module or the exports object of a load that is still running, even when a
\* module is reloaded by its own body: a failed load is never answered
\* (NoOrphanedExports).
THEOREM NoOrphans == Spec => []NoOrphanedExports
<1> DEFINE Inv == TypeOK /\ StackMatchesFrames /\ NoOrphanedExports
<1>1. Init => Inv
  BY ValueAssumption DEF Init, TypeOK, StackMatchesFrames, NoOrphanedExports
<1>2. Inv /\ [Next]_vars => Inv'
  <2>1. ASSUME Inv, Next PROVE Inv'
    BY <2>1, TypeStep, StackStep, OrphanStep
  <2>2. ASSUME Inv, UNCHANGED vars PROVE Inv'
    BY <2>2 DEF vars, TypeOK, StackMatchesFrames, NoOrphanedExports
  <2> QED
    BY <2>1, <2>2
<1> QED
  BY <1>1, <1>2, PTL DEF Spec
-----------------------------------------------------------------------------
(***************************************************************************)
(* Reloads from outside only.  That a body is never entered twice needs    *)
(* that each running module is cached, and the other way round: a second   *)
(* activation would replace what the first one cached.                     *)
(***************************************************************************)
QuietInv ==
  /\ TypeOK
  /\ StackMatchesFrames
  /\ NoOrphanedExports
  /\ OneActivation
  /\ CycleSeesOwnExports

\* An activation loads an id into an object.
LEMMA FrameType ==
  ASSUME TypeOK, NEW i \in DOMAIN frames
  PROVE  frames[i].id \in Id /\ frames[i].exports \in Exports /\ frames[i].exports # Nil
<1>1. frames[i] \in Frame
  BY LenProperties DEF TypeOK
<1> QED
  BY <1>1, ValueAssumption DEF Frame, Object, Exports

\* A block is run, and the script provider asked, for modules that are not cached.
LEMMA LoadedWhenAbsent ==
  ASSUME TypeOK, NEW cache \in [Id -> Exports \cup {Nil}], NEW id \in Id,
         Lookup(cache, id) \in {Block, Nil}
  PROVE  cache[id] = Nil
BY ValueAssumption DEF Lookup, Object, Exports

\* Starting a load of a module that is not running keeps activations distinct.
LEMMA BeginLoadActivation ==
  ASSUME TypeOK, OneActivation, CycleSeesOwnExports,
         NEW cache \in [Id -> Exports \cup {Nil}], NEW id \in Id, BeginLoad(cache, id),
         \A i \in DOMAIN frames : frames[i].id # id /\ cache[frames[i].id] = frames[i].exports
  PROVE  OneActivation' /\ CycleSeesOwnExports'
<1>1. /\ Len(frames) \in Nat /\ DOMAIN frames = 1..Len(frames)
      /\ DOMAIN frames' = 1..(Len(frames) + 1)
      /\ \A i \in DOMAIN frames : frames'[i] = frames[i]
      /\ frames'[Len(frames) + 1].id = id
      /\ frames'[Len(frames) + 1].exports = loads + 1
  BY BeginLoadFrames
<1>2. modules' = [cache EXCEPT ![id] = loads + 1]
  BY DEF BeginLoad
<1>3. \A i \in DOMAIN frames' : i \in DOMAIN frames \/ i = Len(frames) + 1
  BY <1>1
<1>4. OneActivation'
  BY <1>1, <1>3 DEF OneActivation
<1>5. \A i \in DOMAIN frames : frames[i].id \in Id
  BY FrameType
<1>6. CycleSeesOwnExports'
  BY <1>1, <1>2, <1>3, <1>5 DEF CycleSeesOwnExports
<1> QED
  BY <1>4, <1>6

\* No operation of the quiet discipline enters a running body again or changes
\* what is cached for it.
LEMMA QuietStep ==
  ASSUME QuietInv, QuietNext
  PROVE  OneActivation' /\ CycleSeesOwnExports'
<1> DEFINE Goal == OneActivation' /\ CycleSeesOwnExports'
<1> USE DEF QuietInv
<1>1. Len(frames) \in Nat /\ DOMAIN frames = 1..Len(frames)
  BY LenProperties DEF TypeOK
<1>2. DOMAIN frames' = 1..Len(frames')
  <2>1. Next
    BY DEF QuietNext, Next
  <2> QED
    BY <2>1, TypeStep, LenProperties DEF TypeOK
<1>3. \A i \in DOMAIN frames : frames[i].id \in Id /\ frames[i].exports # Nil
  BY FrameType
<1>4. ASSUME NEW raw \in Id, RequireModule(raw) PROVE Goal
  <2> DEFINE id == ResolveModuleId(raw)
  <2>1. id \in Id
    BY ResolvedType DEF TypeOK
  <2>2. CASE UNCHANGED <<modules, frames>>
    BY <2>2 DEF OneActivation, CycleSeesOwnExports
  <2>3. CASE Lookup(modules, id) \in {Block, Nil} /\ BeginLoad(modules, id)
    <3>1. modules[id] = Nil
      BY <2>1, <2>3, LoadedWhenAbsent DEF TypeOK
    <3>2. \A i \in DOMAIN frames : /\ frames[i].id # id
                                   /\ modules[frames[i].id] = frames[i].exports
      BY <1>3, <3>1 DEF CycleSeesOwnExports
    <3> QED
      BY <2>1, <2>3, <3>2, BeginLoadActivation DEF TypeOK
  <2> QED
    BY <1>4, <2>2, <2>3 DEF RequireModule, Require
<1>5. ASSUME NEW i \in DOMAIN frames, NEW v \in Value \cup (1..loads) \cup {Nil},
             SetModuleExports(i, v)
      PROVE  Goal
  <2>1. /\ modules' = modules /\ DOMAIN frames' = DOMAIN frames
        /\ \A j \in DOMAIN frames : /\ frames'[j].id = frames[j].id
                                    /\ frames'[j].exports = frames[j].exports
    BY <1>5, SetExportsFrames DEF SetModuleExports
  <2> QED
    BY <2>1 DEF OneActivation, CycleSeesOwnExports
<1>6. ASSUME LoadSucceeds \/ LoadFails PROVE Goal
  <2> DEFINE f == Last(frames)
  <2>1. /\ f = frames[Len(frames)] /\ Len(frames) \in Nat \ {0}
        /\ Len(frames') = Len(frames) - 1
        /\ \A i \in 1..(Len(frames) - 1) : frames'[i] = frames[i]
    BY <1>6, EndLoadFrames
  <2>2. \A id \in Id \ {f.id} : modules'[id] = modules[id]
    BY <1>6 DEF LoadSucceeds, LoadFails, TypeOK
  <2>3. \A i \in DOMAIN frames' : /\ i \in DOMAIN frames /\ frames'[i] = frames[i]
                                  /\ frames[i].id # f.id
    BY <1>1, <1>2, <2>1 DEF OneActivation
  <2> QED
    BY <1>3, <2>2, <2>3 DEF OneActivation, CycleSeesOwnExports
<1>7. ASSUME UNCHANGED <<modules, frames>> PROVE Goal
  BY <1>7 DEF OneActivation, CycleSeesOwnExports
<1>8. ASSUME Idle, ReloadAll PROVE Goal
  BY <1>8 DEF Idle, ReloadAll, OneActivation, CycleSeesOwnExports
<1>9. ASSUME Idle, NEW raw \in Id, ReloadModule(raw) PROVE Goal
  <2> DEFINE dropped == ResolveModuleId(raw)
             cache == [modules EXCEPT ![dropped] = Nil]
             id == ResolveModuleId(dropped)
  <2>1. dropped \in Id
    BY ResolvedType DEF TypeOK
  <2>2. id \in Id
    BY <2>1, ResolvedType DEF TypeOK
  <2>3. cache \in [Id -> Exports \cup {Nil}]
    BY <2>1 DEF TypeOK
  <2>4. CASE UNCHANGED frames
    BY <1>9, <2>4 DEF Idle, OneActivation, CycleSeesOwnExports
  <2>5. CASE BeginLoad(cache, id)
    <3>1. DOMAIN frames = {}
      BY <1>9 DEF Idle
    <3> QED
      BY <2>2, <2>3, <2>5, <3>1, BeginLoadActivation
  <2> QED
    BY <1>9, <2>4, <2>5 DEF ReloadModule, Require
<1> QED
  BY <1>4, <1>5, <1>6, <1>7, <1>8, <1>9
     DEF QuietNext, Load, Reload, Provide, ProvideGlobal

\* QuietInv is inductive.
LEMMA QuietInductive ==
  /\ Init => QuietInv
  /\ QuietInv /\ [QuietNext]_vars => QuietInv'
<1>1. Init => QuietInv
  BY ValueAssumption DEF Init, QuietInv, TypeOK, StackMatchesFrames, NoOrphanedExports,
                         OneActivation, CycleSeesOwnExports
<1>2. ASSUME QuietInv, QuietNext PROVE QuietInv'
  <2>1. Next
    BY <1>2 DEF QuietNext, Next
  <2> QED
    BY <1>2, <2>1, TypeStep, StackStep, OrphanStep, QuietStep DEF QuietInv
<1>3. ASSUME QuietInv, UNCHANGED vars PROVE QuietInv'
  BY <1>3 DEF vars, QuietInv, TypeOK, StackMatchesFrames, NoOrphanedExports,
              OneActivation, CycleSeesOwnExports
<1> QED
  BY <1>1, <1>2, <1>3

\* Without reloads from inside a load, no module body is entered while it runs
\* (OneActivation).
THEOREM CyclesEnd == QuietSpec => []OneActivation
<1>1. QuietInv => OneActivation
  BY DEF QuietInv
<1> QED
  BY <1>1, QuietInductive, PTL DEF QuietSpec

\* Then a module that requires itself through others gets the object its own body is
\* filling in (CycleSeesOwnExports).
THEOREM CyclesShareExports == QuietSpec => []CycleSeesOwnExports
<1>1. QuietInv => CycleSeesOwnExports
  BY DEF QuietInv
<1> QED
  BY <1>1, QuietInductive, PTL DEF QuietSpec
-----------------------------------------------------------------------------
\* The state of an id as ModuleCache sees it.
Status(id) == IF id \in Loading THEN "loading"
              ELSE IF modules[id] # Nil THEN "loaded" ELSE "absent"

\* Starting a load of an absent module, while the others stay as they are.
LEMMA BeginImplementsBegin ==
  ASSUME QuietInv, NEW id \in Id, modules[id] = Nil, BeginLoad(modules, id),
         NEW e, e = loads + 1
  PROVE  Cache!Begin(id, e)
<1> USE DEF QuietInv
<1>1. /\ Len(frames) \in Nat /\ DOMAIN frames = 1..Len(frames)
      /\ DOMAIN frames' = 1..(Len(frames) + 1)
      /\ \A i \in DOMAIN frames : frames'[i] = frames[i]
      /\ frames'[Len(frames) + 1].id = id
  BY BeginLoadFrames DEF TypeOK
<1>2. \A i \in DOMAIN frames' : i \in DOMAIN frames \/ i = Len(frames) + 1
  BY <1>1
<1>3. Len(frames) + 1 \in DOMAIN frames'
  BY <1>1
<1>4. Loading' = Loading \cup {id}
  BY <1>1, <1>2, <1>3 DEF Loading
<1>5. id \notin Loading
  BY FrameType DEF CycleSeesOwnExports, Loading
<1>6. modules' = [modules EXCEPT ![id] = loads + 1] /\ modules \in [Id -> Exports \cup {Nil}]
  BY DEF BeginLoad, TypeOK
<1> QED
  BY <1>4, <1>5, <1>6 DEF Cache!Begin

\* Ending a load concerns the module of the innermost activation only.
LEMMA EndLoading ==
  ASSUME QuietInv, LoadSucceeds \/ LoadFails
  PROVE  /\ Last(frames).id \in Loading /\ Last(frames).id \in Id
         /\ Loading' = Loading \ {Last(frames).id}
<1> USE DEF QuietInv
<1>1. /\ Last(frames) = frames[Len(frames)] /\ Len(frames) \in Nat \ {0}
      /\ Len(frames') = Len(frames) - 1
      /\ \A i \in 1..(Len(frames) - 1) : frames'[i] = frames[i]
  BY EndLoadFrames
<1>2. DOMAIN frames = 1..Len(frames)
  BY LenProperties DEF TypeOK
<1>3. frames' \in Seq(Frame)
  BY TypeStep DEF Next, Load, TypeOK
<1>4. DOMAIN frames' = 1..(Len(frames) - 1)
  BY <1>1, <1>3, LenProperties
<1>5. Len(frames) \in DOMAIN frames
  BY <1>1, <1>2
<1>6. \A i \in DOMAIN frames : i \in DOMAIN frames' <=> i # Len(frames)
  BY <1>1, <1>2, <1>4
<1>7. \A i \in DOMAIN frames : frames[i].id = Last(frames).id <=> i = Len(frames)
  BY <1>1, <1>5 DEF OneActivation
<1>8. \A i \in DOMAIN frames' : i \in DOMAIN frames /\ frames'[i] = frames[i]
  BY <1>1, <1>2, <1>4
<1> QED
  BY <1>1, <1>5, <1>6, <1>7, <1>8, FrameType DEF Loading

LEMMA SucceedImplementsSucceed ==
  ASSUME QuietInv, LoadSucceeds
  PROVE  \E id \in Id, e \in Exports : Cache!Succeed(id, e)
<1> DEFINE f == Last(frames)
           e == IF f.result = Nil THEN f.exports ELSE f.result
<1> USE DEF QuietInv
<1>1. f.id \in Id /\ f.id \in Loading /\ Loading' = Loading \ {f.id}
  BY EndLoading
<1>2. f \in Frame
  BY EndLoadFrames
<1>3. e \in Exports /\ e # Nil
  BY <1>2, ValueAssumption DEF Frame, Object, Exports
<1>4. modules' = [modules EXCEPT ![f.id] = e] /\ modules \in [Id -> Exports \cup {Nil}]
  BY DEF LoadSucceeds, TypeOK
<1> HIDE DEF f, e
<1>5. PICK id \in Id, x \in Exports : id = f.id /\ x = e
  BY <1>1, <1>3
<1>6. Cache!Succeed(id, x)
  BY <1>1, <1>3, <1>4, <1>5 DEF Cache!Succeed
<1> QED
  BY <1>6

LEMMA FailImplementsFail ==
  ASSUME QuietInv, LoadFails
  PROVE  \E id \in Id : Cache!Fail(id)
<1> DEFINE f == Last(frames)
<1> USE DEF QuietInv
<1>1. f.id \in Id /\ f.id \in Loading /\ Loading' = Loading \ {f.id}
  BY EndLoading
<1>2. modules' = [modules EXCEPT ![f.id] = Nil] /\ modules \in [Id -> Exports \cup {Nil}]
  BY DEF LoadFails, TypeOK
<1> HIDE DEF f
<1>3. PICK id \in Id : id = f.id
  BY <1>1
<1>4. Cache!Fail(id)
  BY <1>1, <1>2, <1>3 DEF Cache!Fail
<1> QED
  BY <1>4

\* A reload from outside forgets modules and starts at most one.
LEMMA ReloadImplementsReload ==
  ASSUME QuietInv, QuietInv', Idle, Reload
  PROVE  Cache!Reload
<1> USE DEF QuietInv
<1>1. Loading = {}
  BY DEF Idle, Loading
<1>2. /\ modules \in [Id -> Exports \cup {Nil}] /\ modules' \in [Id -> Exports \cup {Nil}]
      /\ Nil \notin Exports
  BY ValueAssumption DEF TypeOK, Object, Exports
<1>3. \A id \in Loading' : modules'[id] # Nil
  <2>1. \A i \in DOMAIN frames' : frames'[i] \in Frame
    BY LenProperties DEF TypeOK
  <2>2. \A i \in DOMAIN frames' : frames'[i].exports # Nil
    BY <2>1, ValueAssumption DEF Frame, Object
  <2> QED
    BY <2>2 DEF CycleSeesOwnExports, Loading
<1>4. (\A i, j \in Loading' : i = j)
      /\ \A id \in Id \ Loading' : modules'[id] \in {Nil, modules[id]}
  <2>1. CASE ReloadAll
    BY <1>1, <2>1 DEF ReloadAll, Loading
  <2>2. ASSUME NEW raw \in Id, ReloadModule(raw)
        PROVE  (\A i, j \in Loading' : i = j)
               /\ \A id \in Id \ Loading' : modules'[id] \in {Nil, modules[id]}
    <3> DEFINE dropped == ResolveModuleId(raw)
               cache == [modules EXCEPT ![dropped] = Nil]
               new == ResolveModuleId(dropped)
    <3>1. dropped \in Id
      BY ResolvedType DEF TypeOK
    <3>2. new \in Id
      BY <3>1, ResolvedType DEF TypeOK
    <3>3. cache \in [Id -> Exports \cup {Nil}] /\ \A j \in Id : cache[j] \in {Nil, modules[j]}
      BY <1>2, <3>1
    <3>4. CASE modules' = cache /\ UNCHANGED frames
      BY <1>1, <3>3, <3>4 DEF Loading
    <3>5. CASE BeginLoad(cache, new)
      <4>1. /\ Len(frames) = 0 /\ DOMAIN frames' = 1..(Len(frames) + 1)
            /\ frames'[Len(frames) + 1].id = new
        BY <3>2, <3>3, <3>5, BeginLoadFrames, EmptySeq DEF Idle
      <4>2. Loading' = {new}
        BY <4>1 DEF Loading
      <4>3. modules' = [cache EXCEPT ![new] = loads + 1]
        BY <3>5 DEF BeginLoad
      <4> QED
        BY <3>3, <4>2, <4>3
    <3> QED
      BY <2>2, <3>4, <3>5 DEF ReloadModule, Require
  <2> QED
    BY <2>1, <2>2 DEF Reload
<1> QED
  BY <1>1, <1>2, <1>3, <1>4, Zenon DEF Cache!Reload, Cache!Quiet

\* Every step of the quiet manager is a step of the cache, or no step of it.
LEMMA CacheStep ==
  ASSUME QuietInv, QuietInv', [QuietNext]_vars
  PROVE  [Cache!Next]_Cache!vars
<1> USE DEF QuietInv
<1>1. ASSUME UNCHANGED <<modules, frames>> PROVE UNCHANGED Cache!vars
  BY <1>1 DEF Cache!vars, Loading
<1>2. ASSUME NEW raw \in Id, RequireModule(raw) PROVE [Cache!Next]_Cache!vars
  <2> DEFINE id == ResolveModuleId(raw)
  <2>1. id \in Id
    BY ResolvedType DEF TypeOK
  <2>2. CASE Lookup(modules, id) \in {Block, Nil} /\ BeginLoad(modules, id)
    <3>1. modules[id] = Nil
      BY <2>1, <2>2, LoadedWhenAbsent DEF TypeOK
    <3>2. loads + 1 \in Exports
      BY <2>2, ValueAssumption DEF BeginLoad, TypeOK, Object, Exports
    <3>3. PICK i \in Id, e \in Exports : i = id /\ e = loads + 1
      BY <2>1, <3>2
    <3>4. Cache!Begin(i, e)
      BY <2>2, <3>1, <3>3, BeginImplementsBegin
    <3> QED
      BY <3>4 DEF Cache!Next
  <2> QED
    BY <1>1, <1>2, <2>2 DEF RequireModule, Require
<1>3. ASSUME NEW i \in DOMAIN frames, NEW v \in Value \cup (1..loads) \cup {Nil},
             SetModuleExports(i, v)
      PROVE  UNCHANGED Cache!vars
  <2>1. Loading' = Loading
    BY <1>3, SetExportsFrames DEF Loading
  <2> QED
    BY <1>3, <2>1 DEF SetModuleExports, Cache!vars
<1>4. ASSUME LoadSucceeds PROVE Cache!Next
  BY <1>4, SucceedImplementsSucceed DEF Cache!Next
<1>5. ASSUME LoadFails PROVE Cache!Next
  BY <1>5, FailImplementsFail DEF Cache!Next
<1>6. ASSUME Idle, Reload PROVE Cache!Next
  BY <1>6, ReloadImplementsReload DEF Cache!Next
<1> QED
  BY <1>1, <1>2, <1>3, <1>4, <1>5, <1>6
     DEF QuietNext, Load, Provide, ProvideGlobal, vars

\* The manager, reloaded from outside only, implements ModuleCache: one load of a
\* module at a time, and modules that are loaded stay what they are while others load.
THEOREM ImplementsCache == QuietSpec => CacheSpec
<1>1. Init => Cache!Init
  BY DEF Init, Cache!Init, Loading
<1>2. QuietInv /\ QuietInv' /\ [QuietNext]_vars => [Cache!Next]_Cache!vars
  BY CacheStep
<1> QED
  BY <1>1, <1>2, QuietInductive, PTL DEF QuietSpec, CacheSpec, Cache!Spec
-----------------------------------------------------------------------------
(***************************************************************************)
(* Exceptions that leave bodies.  The entry that such a body leaves on     *)
(* _stack stays: from then on there are more entries than activations.     *)
(***************************************************************************)
Leftovers == Len(frames) < Len(stack)

\* No operation takes a leftover entry away.
LEMMA LeftoverStep ==
  ASSUME TypeOK, Leftovers, Next
  PROVE  Leftovers'
<1>1. /\ stack \in Seq(Id) /\ frames \in Seq(Frame)
      /\ Len(stack) \in Nat /\ Len(frames) \in Nat
  BY LenProperties DEF TypeOK
<1>2. ASSUME NEW cache \in [Id -> Exports \cup {Nil}], NEW raw \in Id, Require(cache, raw)
      PROVE  Leftovers'
  <2>1. CASE BeginLoad(cache, ResolveModuleId(raw))
    <3>1. Len(stack') = Len(stack) + 1 /\ Len(frames') = Len(frames) + 1
      BY <1>1, <2>1, ResolvedType, BeginLoadFrames
    <3> QED
      BY <1>1, <3>1 DEF Leftovers
  <2>2. CASE UNCHANGED <<stack, frames>>
    BY <2>2 DEF Leftovers
  <2> QED
    BY <1>2, <2>1, <2>2 DEF Require
<1>3. ASSUME NEW raw \in Id, RequireModule(raw) PROVE Leftovers'
  BY <1>2, <1>3 DEF RequireModule, TypeOK
<1>4. ASSUME NEW raw \in Id, ReloadModule(raw) PROVE Leftovers'
  <2>1. [modules EXCEPT ![ResolveModuleId(raw)] = Nil] \in [Id -> Exports \cup {Nil}]
        /\ ResolveModuleId(raw) \in Id
    BY <1>1, ResolvedType DEF TypeOK
  <2> QED
    BY <1>2, <1>4, <2>1 DEF ReloadModule
<1>5. ASSUME NEW i \in DOMAIN frames, NEW v \in Value \cup (1..loads) \cup {Nil},
             SetModuleExports(i, v)
      PROVE  Leftovers'
  BY <1>5, SetExportsFrames DEF SetModuleExports, Leftovers
<1>6. ASSUME LoadSucceeds \/ LoadFails PROVE Leftovers'
  <2>1. frames # <<>> /\ frames' = Front(frames) /\ stack' = Front(stack)
    BY <1>6 DEF LoadSucceeds, LoadFails, Idle
  <2>2. stack # <<>>
    BY <1>1, EmptySeq DEF Leftovers
  <2>3. Len(frames') = Len(frames) - 1 /\ Len(stack') = Len(stack) - 1
    BY <1>1, <2>1, <2>2, LastFront
  <2> QED
    BY <1>1, <2>3 DEF Leftovers
<1>7. ASSUME UNCHANGED <<stack, frames>> PROVE Leftovers'
  BY <1>7 DEF Leftovers
<1> QED
  BY <1>3, <1>4, <1>5, <1>6, <1>7 DEF Next, Load, Reload, Provide, ProvideGlobal, ReloadAll

RaisingInv == TypeOK /\ StackNeverUnderflows /\ OrderlyUnlessRaised

LEMMA UnwindStep ==
  ASSUME RaisingInv, NEW k \in 0..(Len(frames) - 1), Unwind(k)
  PROVE  TypeOK' /\ Leftovers'
<1>1. /\ frames \in Seq(Frame) /\ Len(frames) \in Nat /\ Len(stack) \in Nat
      /\ Len(frames) <= Len(stack) /\ frames' = SubSeq(frames, 1, k) /\ stack' = stack
  BY LenProperties DEF RaisingInv, TypeOK, StackNeverUnderflows, Unwind
<1>2. 1 \in Int /\ k \in Int /\ k < Len(frames) /\ \A i \in 1..k : frames[i] \in Frame
  BY <1>1, LenProperties
<1>3. SubSeq(frames, 1, k) \in Seq(Frame)
      /\ Len(SubSeq(frames, 1, k)) = IF 1 <= k THEN k - 1 + 1 ELSE 0
  BY <1>2, SubSeqProperties, SMTT(20)
<1>4. Len(frames') = k
  BY <1>1, <1>2, <1>3
<1>5. TypeOK'
  BY <1>1, <1>3 DEF RaisingInv, TypeOK, Unwind
<1> QED
  BY <1>1, <1>2, <1>4, <1>5 DEF Leftovers

LEMMA RaisingInductive == RaisingSpec => []RaisingInv
<1>1. ASSUME TypeOK, StackMatchesFrames, NoOrphanedExports PROVE RaisingInv
  BY <1>1, LenProperties DEF RaisingInv, TypeOK, StackNeverUnderflows, OrderlyUnlessRaised,
                             StackMatchesFrames
<1>2. ASSUME TypeOK, Leftovers PROVE RaisingInv
  BY <1>2, LenProperties DEF RaisingInv, TypeOK, StackNeverUnderflows, OrderlyUnlessRaised,
                             Leftovers
<1>3. RaisingInv <=> TypeOK /\ (Leftovers \/ (StackMatchesFrames /\ NoOrphanedExports))
  <2>1. ASSUME RaisingInv PROVE Leftovers \/ (StackMatchesFrames /\ NoOrphanedExports)
    <3>1. Len(stack) \in Nat /\ Len(frames) \in Nat
      BY <2>1, LenProperties DEF RaisingInv, TypeOK
    <3> QED
      BY <2>1, <3>1 DEF RaisingInv, StackNeverUnderflows, OrderlyUnlessRaised, Leftovers
  <2> QED
    BY <1>1, <1>2, <2>1 DEF RaisingInv
<1>4. Init => RaisingInv
  <2>1. Init => TypeOK /\ StackMatchesFrames /\ NoOrphanedExports
    BY ValueAssumption DEF Init, TypeOK, StackMatchesFrames, NoOrphanedExports
  <2> QED
    BY <1>1, <2>1
<1>5. ASSUME RaisingInv, RaisingNext PROVE RaisingInv'
  <2>1. CASE Next /\ Leftovers
    <3>1. TypeOK' /\ Leftovers'
      BY <1>5, <2>1, TypeStep, LeftoverStep DEF RaisingInv
    <3> QED
      BY <3>1, LenProperties DEF RaisingInv, TypeOK, StackNeverUnderflows, OrderlyUnlessRaised,
                                 Leftovers
  <2>2. CASE Next /\ StackMatchesFrames /\ NoOrphanedExports
    <3>1. TypeOK' /\ StackMatchesFrames' /\ NoOrphanedExports'
      BY <1>5, <2>2, TypeStep, StackStep, OrphanStep DEF RaisingInv
    <3> QED
      BY <3>1, LenProperties DEF RaisingInv, TypeOK, StackNeverUnderflows, OrderlyUnlessRaised,
                                 StackMatchesFrames
  <2>3. CASE \E k \in 0..(Len(frames) - 1) : Unwind(k)
    <3>1. TypeOK' /\ Leftovers'
      BY <1>5, <2>3, UnwindStep
    <3> QED
      BY <3>1, LenProperties DEF RaisingInv, TypeOK, StackNeverUnderflows, OrderlyUnlessRaised,
                                 Leftovers
  <2> QED
    BY <1>3, <1>5, <2>1, <2>2, <2>3 DEF RaisingNext
<1>6. ASSUME RaisingInv, UNCHANGED vars PROVE RaisingInv'
  BY <1>6 DEF vars, RaisingInv, TypeOK, StackNeverUnderflows, OrderlyUnlessRaised,
              StackMatchesFrames, NoOrphanedExports
<1> QED
  BY <1>4, <1>5, <1>6, PTL DEF RaisingSpec

\* Wherever exceptions leave module bodies, each activation finds an entry of _stack to
\* pop (StackNeverUnderflows).
THEOREM PopsFindAnEntry == RaisingSpec => []StackNeverUnderflows
<1>1. RaisingInv => StackNeverUnderflows
  BY DEF RaisingInv
<1> QED
  BY <1>1, RaisingInductive, PTL

\* As long as no exception has left an entry on _stack, ids are resolved against the
\* module whose body runs and no failed load is answered, with reloads at any time
\* (OrderlyUnlessRaised).
THEOREM OrderUntilARaise == RaisingSpec => []OrderlyUnlessRaised
<1>1. RaisingInv => OrderlyUnlessRaised
  BY DEF RaisingInv
<1> QED
  BY <1>1, RaisingInductive, PTL
-----------------------------------------------------------------------------
(***************************************************************************)
(* Bodies that are scripts with imports (ModuleGraph).  Their steps are    *)
(* loads of the quiet discipline, for a script requires the ids it is      *)
(* written with: pc has one entry for each activation.                     *)
(***************************************************************************)
GraphInv ==
  /\ QuietInv
  /\ imports \in [Id -> UNION {[1..n -> Id] : n \in 0..MaxImports}]
  /\ pc \in Seq(Nat) /\ Len(pc) = Len(frames)
  /\ loads = 0 => Idle

\* A require starts a body or leaves the activations as they are.
LEMMA RequireFrames ==
  ASSUME TypeOK, NEW raw \in Id, RequireModule(raw)
  PROVE  /\ Len(frames) \in Nat
         /\ \/ frames' = frames /\ loads' = loads
            \/ Len(frames') = Len(frames) + 1 /\ loads' = loads + 1 /\ loads' # 0
<1>1. ResolveModuleId(raw) \in Id /\ modules \in [Id -> Exports \cup {Nil}] /\ loads \in Nat
  BY ResolvedType, ValueAssumption DEF TypeOK
<1>2. ASSUME BeginLoad(modules, ResolveModuleId(raw))
      PROVE  Len(frames') = Len(frames) + 1 /\ loads' = loads + 1 /\ loads' # 0
  BY <1>1, <1>2, BeginLoadFrames DEF BeginLoad
<1>3. Len(frames) \in Nat
  BY LenProperties DEF TypeOK
<1> QED
  BY <1>2, <1>3 DEF RequireModule, Require

\* The module that a running body requires next.
LEMMA ImportType ==
  ASSUME GraphInv, ~Idle
  PROVE  /\ pc # <<>> /\ Last(pc) \in Nat
         /\ Last(pc) < Len(Body) => Body[Last(pc) + 1] \in Id
<1>1. frames \in Seq(Frame) /\ frames # <<>>
  BY DEF GraphInv, QuietInv, TypeOK, Idle
<1>2. Last(frames).id \in Id
  <2>1. Last(frames) \in Frame
    BY <1>1, LastFront
  <2> QED
    BY <2>1 DEF Frame
<1>3. pc \in Seq(Nat) /\ pc # <<>>
  BY <1>1, EmptySeq DEF GraphInv
<1>4. Last(pc) \in Nat
  BY <1>3, LastFront
<1>5. PICK n \in 0..MaxImports : Body \in [1..n -> Id]
  <2>1. Body \in UNION {[1..n -> Id] : n \in 0..MaxImports}
    BY <1>2 DEF GraphInv, Body
  <2> QED
    BY <2>1
<1>6. Body \in Seq(Id) /\ DOMAIN Body = 1..Len(Body)
  BY <1>5, LenProperties, SeqDef
<1> QED
  BY <1>3, <1>4, <1>6

\* Requires and the ends of bodies keep pc in step with the activations.
LEMMA GraphStep ==
  ASSUME GraphInv, GraphNext
  PROVE  QuietNext /\ GraphInv'
<1> USE DEF GraphInv
<1>1. TypeOK /\ frames \in Seq(Frame) /\ Len(frames) \in Nat /\ Len(pc) \in Nat
  BY LenProperties DEF QuietInv, TypeOK
<1>2. ASSUME QuietNext, UNCHANGED imports,
             pc' \in Seq(Nat), Len(pc') = Len(frames'), loads' = 0 => Idle'
      PROVE  QuietNext /\ GraphInv'
  BY <1>2, QuietInductive
<1>3. ASSUME Call PROVE QuietNext /\ GraphInv'
  <2>1. PICK raw \in Id : RequireModule(raw)
    BY <1>3 DEF Call
  <2>2. QuietNext
    BY <2>1 DEF QuietNext, Load
  <2>3. frames = <<>>
    BY <1>3 DEF Call, Idle
  <2>4. frames' = <<>> \/ (Len(frames') = 1 /\ loads' # 0 /\ frames' # <<>>)
    BY <1>1, <2>1, <2>3, RequireFrames
  <2>5. pc' \in Seq(Nat) /\ Len(pc') = Len(frames')
    BY <1>3, <2>4 DEF Call
  <2> QED
    BY <1>2, <1>3, <2>2, <2>4, <2>5 DEF Call, Idle
<1>4. ASSUME Import PROVE QuietNext /\ GraphInv'
  <2> DEFINE raw == Body[Last(pc) + 1]
  <2>1. raw \in Id /\ RequireModule(raw) /\ pc # <<>> /\ Last(pc) \in Nat /\ loads # 0
    BY <1>4, ImportType DEF Import
  <2>2. QuietNext
    BY <2>1 DEF QuietNext, Load
  <2>3. \/ frames' = frames /\ loads' = loads
        \/ Len(frames') = Len(frames) + 1 /\ loads' # 0
    BY <1>1, <2>1, RequireFrames
  <2>4. Advanced \in Seq(Nat) /\ Len(Advanced) = Len(pc)
    <3>1. Len(pc) \in DOMAIN pc /\ pc[Len(pc)] + 1 \in Nat
      BY <2>1, LenProperties, LastFront
    <3> QED
      BY <3>1, ExceptSeq DEF Advanced
  <2>5. Append(Advanced, 0) \in Seq(Nat) /\ Len(Append(Advanced, 0)) = Len(pc) + 1
    BY <2>4, AppendTop
  <2>6. pc' \in Seq(Nat) /\ Len(pc') = Len(frames')
    BY <1>1, <1>4, <2>3, <2>4, <2>5 DEF Import
  <2> QED
    BY <1>2, <1>4, <2>1, <2>2, <2>3, <2>6 DEF Import
<1>5. ASSUME LoadSucceeds \/ LoadFails, pc' = Front(pc), UNCHANGED imports
      PROVE  QuietNext /\ GraphInv'
  <2>1. QuietNext
    BY <1>5 DEF QuietNext, Load
  <2>2. frames # <<>> /\ frames' = Front(frames) /\ loads' = loads
    BY <1>5 DEF LoadSucceeds, LoadFails, Idle
  <2>3. pc # <<>>
    BY <1>1, <2>2, EmptySeq
  <2>4. pc' \in Seq(Nat) /\ Len(pc') = Len(frames')
    BY <1>1, <1>5, <2>2, <2>3, LastFront
  <2> QED
    BY <1>2, <1>5, <2>1, <2>2, <2>4 DEF Idle
<1> QED
  BY <1>3, <1>4, <1>5 DEF GraphNext, End, Throw

LEMMA GraphInductive ==
  /\ GraphInit => GraphInv
  /\ GraphInv /\ [GraphNext]_graphVars => GraphInv' /\ [QuietNext]_vars
<1>1. GraphInit => GraphInv
  BY QuietInductive, EmptySeq DEF GraphInit, Init, GraphInv, Idle
<1>2. GraphInv /\ UNCHANGED graphVars => GraphInv' /\ UNCHANGED vars
  <2> SUFFICES ASSUME GraphInv, UNCHANGED graphVars PROVE GraphInv' /\ UNCHANGED vars
    OBVIOUS
  <2>1. UNCHANGED vars /\ UNCHANGED <<imports, pc>>
    BY DEF graphVars
  <2>2. QuietInv'
    BY <2>1, QuietInductive DEF GraphInv
  <2> QED
    BY <2>1, <2>2 DEF GraphInv, vars, Idle
<1> QED
  BY <1>1, <1>2, GraphStep

\* Whatever scripts require each other, they load modules under the quiet discipline.
THEOREM GraphsAreQuiet == GraphSpec => QuietSpec
<1>1. GraphInit => Init
  BY DEF GraphInit
<1> QED
  BY <1>1, GraphInductive, PTL DEF GraphSpec, QuietSpec

\* So the cache keeps what ModuleCache promises while scripts import each other.
THEOREM GraphsKeepTheCache == GraphSpec => CacheSpec
BY GraphsAreQuiet, ImplementsCache, PTL
-----------------------------------------------------------------------------
(***************************************************************************)
(* How much one require can do.  Each running body has room for what its   *)
(* remaining imports can start; the loads done and all that room together  *)
(* never exceed what the program's require may start.                      *)
(***************************************************************************)
\* f is the function that the recursion of LoadsCaused describes.
LoadsDescribe(f, m) ==
  f = [n \in 0..m |-> IF n = 0 THEN 0 ELSE 1 + MaxImports * f[n - 1]]

\* There is one.
LEMMA LoadsExist ==
  ASSUME NEW m \in Nat
  PROVE  \E f : LoadsDescribe(f, m)
<1> DEFINE N == {n \in Nat : \E f : LoadsDescribe(f, n)}
<1>1. 0 \in N
  <2> DEFINE f == [n \in 0..0 |-> 0]
  <2>1. f = [n \in 0..0 |-> IF n = 0 THEN 0 ELSE 1 + MaxImports * f[n - 1]]
    OBVIOUS
  <2>2. LoadsDescribe(f, 0)
    BY <2>1 DEF LoadsDescribe
  <2> QED
    BY <2>2
<1>2. ASSUME NEW n \in N PROVE n + 1 \in N
  <2>1. PICK f : LoadsDescribe(f, n)
    BY <1>2
  <2> DEFINE g == [k \in 0..(n + 1) |-> IF k = 0 THEN 0 ELSE 1 + MaxImports * f[k - 1]]
  <2>2. n \in Nat /\ n + 1 \in Nat
    BY <1>2
  <2>3. ASSUME NEW k \in 0..n PROVE g[k] = f[k]
    <3>1. k \in 0..(n + 1)
      BY <2>2
    <3>2. f[k] = IF k = 0 THEN 0 ELSE 1 + MaxImports * f[k - 1]
      BY <2>1 DEF LoadsDescribe
    <3> QED
      BY <3>1, <3>2
  <2>4. ASSUME NEW k \in 0..(n + 1), k # 0 PROVE f[k - 1] = g[k - 1]
    <3>1. k - 1 \in 0..n
      BY <2>2, <2>4
    <3> QED
      BY <2>3, <3>1, Zenon
  <2>5. LoadsDescribe(g, n + 1)
    <3>1. \A k \in 0..(n + 1) :
            (IF k = 0 THEN 0 ELSE 1 + MaxImports * f[k - 1])
            = IF k = 0 THEN 0 ELSE 1 + MaxImports * g[k - 1]
      <4> HIDE DEF g
      <4> QED
        BY <2>4
    <3> QED
      BY <3>1 DEF LoadsDescribe
  <2> HIDE DEF g
  <2> QED
    BY <2>2, <2>5
<1>3. N = Nat
  <2>1. N \in SUBSET Nat
    OBVIOUS
  <2> HIDE DEF N
  <2> QED
    BY <1>1, <1>2, <2>1, NatSetInduction
<1> QED
  BY <1>3

\* So LoadsCaused is what its recursion says.
LEMMA LoadsTurn ==
  ASSUME IsFiniteSet(Id)
  PROVE  /\ LoadsCaused[0] = 0
         /\ \A n \in 1..Cardinality(Id) : LoadsCaused[n] = 1 + MaxImports * LoadsCaused[n - 1]
<1>1. Cardinality(Id) \in Nat
  BY FS_CardinalityType
<1>2. \E f : LoadsDescribe(f, Cardinality(Id))
  BY <1>1, LoadsExist
<1>3. LoadsDescribe(LoadsCaused, Cardinality(Id))
  <2>1. LoadsCaused = CHOOSE f : LoadsDescribe(f, Cardinality(Id))
    BY DEF LoadsCaused, LoadsDescribe
  <2> QED
    BY <1>2, <2>1
<1>4. ASSUME NEW n \in 0..Cardinality(Id)
      PROVE  LoadsCaused[n] = IF n = 0 THEN 0 ELSE 1 + MaxImports * LoadsCaused[n - 1]
  BY <1>3 DEF LoadsDescribe
<1> QED
  BY <1>1, <1>4

\* It is a number.
LEMMA LoadsCount ==
  ASSUME IsFiniteSet(Id)
  PROVE  \A n \in 0..Cardinality(Id) : LoadsCaused[n] \in Nat
<1> DEFINE N == {n \in Nat : n <= Cardinality(Id) => LoadsCaused[n] \in Nat}
<1>1. Cardinality(Id) \in Nat
  BY FS_CardinalityType
<1>2. 0 \in N
  BY LoadsTurn
<1>3. ASSUME NEW n \in N PROVE n + 1 \in N
  <2> SUFFICES ASSUME n + 1 <= Cardinality(Id) PROVE LoadsCaused[n + 1] \in Nat
    OBVIOUS
  <2>1. n \in Nat /\ LoadsCaused[n] \in Nat /\ n + 1 \in 1..Cardinality(Id) /\ (n + 1) - 1 = n
    BY <1>1
  <2>2. LoadsCaused[n + 1] = 1 + MaxImports * LoadsCaused[n]
    BY <2>1, LoadsTurn
  <2>3. MaxImports * LoadsCaused[n] \in Nat
    BY <2>1, ImportsAssumption
  <2> QED
    BY <2>2, <2>3
<1>4. N = Nat
  <2>1. N \in SUBSET Nat
    OBVIOUS
  <2> HIDE DEF N
  <2> QED
    BY <1>2, <1>3, <2>1, NatSetInduction
<1> QED
  BY <1>1, <1>4

\* No two activations are of the same module, so there are no more than modules.
LEMMA NestingInv ==
  ASSUME IsFiniteSet(Id), GraphInv
  PROVE  NestingBounded
<1> DEFINE n == Len(frames)
           at == [i \in 1..n |-> frames[i].id]
<1>1. n \in Nat /\ DOMAIN frames = 1..n /\ \A i \in 1..n : frames[i].id \in Id
  BY LenProperties, FrameType DEF GraphInv, QuietInv, TypeOK
<1>2. at \in [1..n -> Id]
  BY <1>1
<1>3. \A i, j \in 1..n : at[i] = at[j] => i = j
  BY <1>1 DEF GraphInv, QuietInv, OneActivation
<1>4. IsFiniteSet(1..n) /\ Cardinality(1..n) = n
  <2>1. n \in Nat
    BY <1>1
  <2> HIDE DEF n
  <2>2. IsFiniteSet(1..n) /\ Cardinality(1..n) = IF 1 > n THEN 0 ELSE n - 1 + 1
    BY <2>1, FS_Interval
  <2> QED
    BY <2>1, <2>2
<1>5. Cardinality(Id) \in Nat
  BY FS_CardinalityType
<1> HIDE DEF at
<1>6. ~(Cardinality(Id) < Cardinality(1..n))
  BY <1>2, <1>3, <1>4, FS_PigeonHole
<1> HIDE DEF n
<1> QED
  BY <1>1, <1>4, <1>5, <1>6 DEF n, NestingBounded

\* What the remaining imports of the i-th body of p can start; the bodies outside of it
\* have their own room, and s adds it up.
Room(p, i) == (MaxImports - p[i]) * LoadsCaused[Cardinality(Id) - i]

Ledger(p, s) ==
  /\ s \in [0..Len(p) -> Nat]
  /\ s[0] = 0
  /\ \A i \in 1..Len(p) : s[i] = s[i - 1] + Room(p, i)

\* The loads done and the room that is left make no more than the require may start.
WorkInv ==
  /\ GraphInv
  /\ \A i \in 1..Len(pc) : pc[i] <= MaxImports
  /\ \E s : Ledger(pc, s) /\ loads + s[Len(pc)] <= LoadsCaused[Cardinality(Id)]

\* One import less leaves room for one load less.
LEMMA OneImportLess ==
  ASSUME NEW m \in Nat, NEW p \in Nat, NEW c \in Nat, p < m
  PROVE  /\ (m - p) * c \in Nat /\ (m - (p + 1)) * c \in Nat
         /\ (m - p) * c = (m - (p + 1)) * c + c
<1>1. PICK k \in Nat : m - (p + 1) = k
  OBVIOUS
<1>2. m - p = k + 1
  BY <1>1
<1>3. k * c \in Nat /\ (k + 1) * c = k * c + c
  OBVIOUS
<1> QED
  BY <1>1, <1>2, <1>3

\* The first body has the room of the whole require.
LEMMA WorkBegins ==
  ASSUME IsFiniteSet(Id), Idle, loads = 0, GraphInv', imports' = imports,
         \/ pc' = <<>> /\ loads' = 0
         \/ pc' = << 0 >> /\ loads' = 1 /\ Len(frames') = 1
  PROVE  WorkInv'
<1>1. Cardinality(Id) \in Nat /\ \A n \in 0..Cardinality(Id) : LoadsCaused[n] \in Nat
  BY FS_CardinalityType, LoadsCount
<1>2. CASE pc' = <<>> /\ loads' = 0
  <2> DEFINE s == [i \in 0..0 |-> 0]
  <2>1. Len(pc') = 0
    BY <1>2
  <2>2. Ledger(pc', s) /\ s[0] = 0
    BY <2>1 DEF Ledger
  <2> QED
    BY <1>1, <1>2, <2>1, <2>2 DEF WorkInv
<1>3. CASE pc' = << 0 >> /\ loads' = 1 /\ Len(frames') = 1
  <2> DEFINE room == MaxImports * LoadsCaused[Cardinality(Id) - 1]
             s == [i \in 0..1 |-> IF i = 0 THEN 0 ELSE room]
  <2>1. Len(pc') = 1 /\ pc'[1] = 0
    BY <1>3
  <2>2. 1 <= Cardinality(Id)
    <3>1. NestingBounded'
      BY NestingInv, PTL
    <3> QED
      BY <1>3, <3>1 DEF NestingBounded
  <2>3. LoadsCaused[Cardinality(Id)] = 1 + room /\ LoadsCaused[Cardinality(Id) - 1] \in Nat
    BY <1>1, <2>2, LoadsTurn
  <2>4. room \in Nat
    BY <2>3, ImportsAssumption
  <2>5. Room(pc', 1) = room
    BY <2>1, ImportsAssumption DEF Room
  <2> HIDE DEF room
  <2>6. Ledger(pc', s) /\ s[1] = room
    BY <2>1, <2>4, <2>5 DEF Ledger
  <2> HIDE DEF s
  <2>7. \A i \in 1..1 : pc'[i] <= MaxImports
    BY <2>1, ImportsAssumption
  <2> QED
    BY <1>3, <2>1, <2>3, <2>4, <2>6, <2>7 DEF WorkInv
<1> QED
  BY <1>2, <1>3

\* An import uses the room of one load; the body it starts, if any, has the rest of that.
LEMMA WorkGoesOn ==
  ASSUME IsFiniteSet(Id), WorkInv, GraphInv', imports' = imports,
         ~Idle, Last(pc) < MaxImports,
         \/ pc' = Advanced /\ loads' = loads
         \/ pc' = Append(Advanced, 0) /\ loads' = loads + 1
  PROVE  WorkInv'
<1> DEFINE N == Cardinality(Id)
           C == LoadsCaused
           d == Len(pc)
<1>1. N \in Nat /\ MaxImports \in Nat /\ (\A n \in 0..N : C[n] \in Nat) /\ loads \in Nat
  BY FS_CardinalityType, LoadsCount, ImportsAssumption DEF WorkInv, GraphInv, QuietInv, TypeOK
<1>2. PICK s : Ledger(pc, s) /\ loads + s[d] <= C[N]
  BY DEF WorkInv
<1>3. pc \in Seq(Nat) /\ pc # <<>> /\ d \in Nat \ {0} /\ Last(pc) = pc[d] /\ pc[d] \in Nat
  BY ImportType, LastFront DEF WorkInv, GraphInv
<1>4. /\ Advanced \in Seq(Nat) /\ Len(Advanced) = d /\ Advanced[d] = pc[d] + 1
      /\ \A i \in 1..(d - 1) : Advanced[i] = pc[i]
  <2>1. d \in DOMAIN pc /\ pc[d] + 1 \in Nat
    BY <1>3, LenProperties
  <2> QED
    BY <1>3, <2>1, ExceptSeq DEF Advanced
<1>5. Len(pc) <= N /\ Len(pc') <= N
  <2>1. NestingBounded
    BY NestingInv DEF WorkInv
  <2>2. NestingBounded'
    BY NestingInv, PTL
  <2> QED
    BY <2>1, <2>2 DEF NestingBounded, WorkInv, GraphInv
<1> DEFINE c == C[N - d]
           rest == (MaxImports - (pc[d] + 1)) * c
<1>6. /\ c \in Nat /\ rest \in Nat /\ s[d - 1] \in Nat /\ s[d] \in Nat
      /\ s[d] = s[d - 1] + rest + c
  <2>1. N - d \in 0..N /\ d - 1 \in 0..d /\ d \in 1..d
    BY <1>1, <1>3, <1>5
  <2>2. c \in Nat /\ s[d - 1] \in Nat /\ s[d] \in Nat /\ s[d] = s[d - 1] + (MaxImports - pc[d]) * c
    <3>1. c \in Nat
      BY <1>1, <2>1
    <3>2. s[d - 1] \in Nat /\ s[d] \in Nat /\ s[d] = s[d - 1] + Room(pc, d)
      BY <1>2, <2>1 DEF Ledger
    <3>3. Room(pc, d) = (MaxImports - pc[d]) * c
      BY DEF Room
    <3> QED
      BY <3>1, <3>2, <3>3
  <2>3. rest \in Nat /\ (MaxImports - pc[d]) * c = rest + c
    <3>1. pc[d] \in Nat /\ MaxImports \in Nat /\ c \in Nat /\ pc[d] < MaxImports
      BY <1>1, <1>3, <2>2
    <3> HIDE DEF c, d
    <3> QED
      BY <3>1, OneImportLess
  <2> HIDE DEF c, rest
  <2> QED
    BY <2>2, <2>3
<1>7. \A i \in 0..d : s[i] \in Nat
  BY <1>2 DEF Ledger
<1>8. \A i \in 1..(d - 1) : s[i] = s[i - 1] + Room(pc, i) /\ pc[i] <= MaxImports
  BY <1>2, <1>3 DEF Ledger, WorkInv
<1>9. s[0] = 0
  BY <1>2 DEF Ledger
<1>10. CASE pc' = Advanced /\ loads' = loads
  <2>0. PICK t : t = [s EXCEPT ![d] = s[d - 1] + rest]
    OBVIOUS
  <2>1. Len(pc') = d
    BY <1>4, <1>10
  <2>2. \A i \in 0..(d - 1) : t[i] = s[i]
    BY <1>2, <2>0 DEF Ledger
  <2>3. t[d] = s[d - 1] + rest /\ t \in [0..d -> Nat]
    <3>1. s \in [0..d -> Nat]
      BY <1>2 DEF Ledger
    <3>2. s[d - 1] \in Nat /\ rest \in Nat
      BY <1>6
    <3>3. d \in 0..d /\ s[d - 1] + rest \in Nat
      BY <1>3, <3>2
    <3> HIDE DEF rest, d
    <3> QED
      BY <2>0, <3>1, <3>3
  <2>4. Room(pc', d) = rest /\ \A i \in 1..(d - 1) : Room(pc', i) = Room(pc, i)
    BY <1>4, <1>10 DEF Room
  <2> HIDE DEF rest, c
  <2>5. ASSUME NEW i \in 1..d PROVE t[i] = t[i - 1] + Room(pc', i) /\ pc'[i] <= MaxImports
    <3>1. CASE i = d
      BY <1>1, <1>3, <1>4, <1>10, <2>2, <2>3, <2>4, <3>1
    <3>2. CASE i # d
      <4>1. i \in 1..(d - 1) /\ i - 1 \in 0..(d - 1) /\ i \in 0..(d - 1)
        BY <1>3, <3>2
      <4> QED
        BY <1>4, <1>8, <1>10, <2>2, <2>4, <4>1
    <3> QED
      BY <3>1, <3>2
  <2>6. t[0] = 0 /\ loads' + t[d] <= C[N]
    <3>1. 0 \in 0..(d - 1)
      BY <1>3
    <3>2. t[0] = 0
      BY <1>9, <2>2, <3>1
    <3>3. t[d] = s[d - 1] + rest /\ s[d] = s[d - 1] + rest + c
      BY <1>6, <2>3
    <3>4. s[d - 1] \in Nat /\ rest \in Nat /\ c \in Nat
      BY <1>6
    <3>5. C[N] \in Nat /\ loads \in Nat /\ loads' = loads /\ loads + s[d] <= C[N]
      BY <1>1, <1>2, <1>10
    <3> HIDE DEF C, N, d
    <3>6. loads' + t[d] <= C[N]
      BY <3>3, <3>4, <3>5
    <3> QED
      BY <3>2, <3>6
  <2>7. Ledger(pc', t)
    BY <2>1, <2>3, <2>5, <2>6 DEF Ledger
  <2> QED
    BY <2>1, <2>5, <2>6, <2>7 DEF WorkInv
<1>11. CASE pc' = Append(Advanced, 0) /\ loads' = loads + 1
  <2> DEFINE room == MaxImports * C[N - (d + 1)]
  <2>0. PICK t : t = [i \in 0..(d + 1) |-> IF i < d THEN s[i] ELSE
                       IF i = d THEN s[d - 1] + rest ELSE s[d - 1] + rest + room]
    OBVIOUS
  <2>1. /\ Len(pc') = d + 1 /\ pc'[d + 1] = 0 /\ pc'[d] = pc[d] + 1
        /\ \A i \in 1..(d - 1) : pc'[i] = pc[i]
    BY <1>3, <1>4, <1>11, AppendTop
  <2>2. c = 1 + room /\ room \in Nat
    <3>1. N - d \in 1..N /\ N - (d + 1) \in 0..N /\ (N - d) - 1 = N - (d + 1)
      <4>1. N \in Nat /\ d \in Nat \ {0} /\ d + 1 <= N
        BY <1>1, <1>3, <1>5, <2>1
      <4> HIDE DEF N, d
      <4> QED
        BY <4>1
    <3>2. C[N - d] = 1 + MaxImports * C[N - (d + 1)]
      BY <3>1, LoadsTurn
    <3>3. C[N - (d + 1)] \in Nat
      BY <1>1, <3>1
    <3> QED
      BY <1>1, <3>2, <3>3
  <2>3. Room(pc', d) = rest /\ Room(pc', d + 1) = room /\ \A i \in 1..(d - 1) : Room(pc', i) = Room(pc, i)
    <3>1. Room(pc', d) = rest
      BY <2>1 DEF Room
    <3>2. MaxImports - 0 = MaxImports
      BY <1>1
    <3>3. Room(pc', d + 1) = room
      BY <2>1, <3>2 DEF Room
    <3>4. \A i \in 1..(d - 1) : Room(pc', i) = Room(pc, i)
      BY <2>1 DEF Room
    <3> QED
      BY <3>1, <3>3, <3>4
  <2> HIDE DEF rest, c, room
  <2>4. /\ t \in [0..(d + 1) -> Nat] /\ \A i \in 0..(d - 1) : t[i] = s[i]
        /\ t[d] = s[d - 1] + rest /\ t[d + 1] = t[d] + room
    <3>1. d \in Nat \ {0} /\ s[d - 1] \in Nat /\ s[d - 1] + rest \in Nat /\ s[d - 1] + rest + room \in Nat
      <4>1. d \in Nat \ {0}
        BY <1>3
      <4>2. s[d - 1] \in Nat /\ rest \in Nat
        BY <1>6
      <4>3. room \in Nat
        BY <2>2
      <4> HIDE DEF d
      <4> QED
        BY <4>1, <4>2, <4>3
    <3> HIDE DEF d
    <3>2. \A i \in 0..(d - 1) : t[i] = s[i] /\ s[i] \in Nat
      BY <1>7, <2>0, <3>1
    <3>3. t[d] = s[d - 1] + rest /\ t[d + 1] = s[d - 1] + rest + room
      BY <2>0, <3>1
    <3>4. \A i \in 0..(d + 1) : i \in 0..(d - 1) \/ i = d \/ i = d + 1
      BY <3>1
    <3> QED
      BY <2>0, <3>1, <3>2, <3>3, <3>4
  <2>5. ASSUME NEW i \in 1..(d + 1) PROVE t[i] = t[i - 1] + Room(pc', i) /\ pc'[i] <= MaxImports
    <3>1. CASE i = d + 1
      BY <1>1, <1>3, <2>1, <2>3, <2>4, <3>1
    <3>2. CASE i = d
      BY <1>1, <1>3, <2>1, <2>3, <2>4, <3>2
    <3>3. CASE i \notin {d, d + 1}
      <4>1. i \in 1..(d - 1) /\ i - 1 \in 0..(d - 1) /\ i \in 0..(d - 1)
        BY <1>3, <3>3
      <4> QED
        BY <1>8, <2>1, <2>3, <2>4, <4>1
    <3> QED
      BY <3>1, <3>2, <3>3
  <2>6. t[0] = 0 /\ loads' + t[d + 1] <= C[N]
    <3>1. 0 \in 0..(d - 1)
      BY <1>3
    <3>2. C[N] \in Nat
      BY <1>1
    <3>3. t[d] = s[d - 1] + rest /\ t[d + 1] = t[d] + room /\ t[0] = 0
      BY <1>9, <2>4, <3>1
    <3>4. loads \in Nat /\ loads' = loads + 1 /\ loads + s[d] <= C[N]
      BY <1>1, <1>2, <1>11
    <3>5. s[d] = s[d - 1] + rest + (1 + room)
      BY <1>6, <2>2
    <3>6. s[d - 1] \in Nat /\ rest \in Nat
      BY <1>6
    <3>7. t[d + 1] = s[d - 1] + rest + room
      BY <3>3
    <3>8. room \in Nat
      BY <2>2
    <3> HIDE DEF C, N, d
    <3>9. t[d + 1] + 1 = s[d] /\ t[d + 1] \in Nat /\ s[d] \in Nat
      <4>1. PICK a \in Nat, r \in Nat, m \in Nat : a = s[d - 1] /\ r = rest /\ m = room
        BY <3>6, <3>8
      <4>2. s[d] = a + r + (1 + m) /\ t[d + 1] = a + r + m
        BY <3>5, <3>7, <4>1
      <4> QED
        BY <4>2
    <3>10. loads' + t[d + 1] <= C[N]
      BY <3>2, <3>4, <3>9
    <3> QED
      BY <3>3, <3>10
  <2>7. Ledger(pc', t)
    BY <2>1, <2>4, <2>5, <2>6 DEF Ledger
  <2> QED
    BY <2>1, <2>5, <2>6, <2>7 DEF WorkInv
<1> QED
  BY <1>10, <1>11

\* The end of a body gives its room back.
LEMMA WorkEnds ==
  ASSUME IsFiniteSet(Id), WorkInv, GraphInv', imports' = imports, loads' = loads,
         pc # <<>>, pc' = Front(pc)
  PROVE  WorkInv'
<1> DEFINE d == Len(pc)
           top == LoadsCaused[Cardinality(Id)]
<1>0. pc \in Seq(Nat) /\ loads \in Nat
  BY DEF WorkInv, GraphInv, QuietInv, TypeOK
<1>1. PICK s : Ledger(pc, s) /\ loads + s[d] <= top
  BY DEF WorkInv
<1>2. /\ d \in Nat \ {0} /\ Len(pc') = d - 1 /\ pc[d] \in Nat
      /\ \A i \in 1..(d - 1) : pc'[i] = pc[i]
  <2>1. d \in Nat \ {0} /\ Last(pc) = pc[d] /\ Last(pc) \in Nat /\ Len(Front(pc)) = d - 1
        /\ \A i \in 1..(d - 1) : Front(pc)[i] = pc[i]
    BY <1>0, LastFront
  <2> QED
    BY <2>1
<1>3. Room(pc, d) \in Nat
  <2>1. NestingBounded
    BY NestingInv DEF WorkInv
  <2>2. Cardinality(Id) \in Nat /\ \A n \in 0..Cardinality(Id) : LoadsCaused[n] \in Nat
    BY FS_CardinalityType, LoadsCount
  <2>3. Cardinality(Id) - d \in 0..Cardinality(Id)
    BY <1>2, <2>1, <2>2 DEF NestingBounded, WorkInv, GraphInv
  <2>4. MaxImports - pc[d] \in Nat /\ LoadsCaused[Cardinality(Id) - d] \in Nat
    BY <1>2, <2>2, <2>3, ImportsAssumption DEF WorkInv
  <2>5. \A a, b \in Nat : a * b \in Nat
    OBVIOUS
  <2> QED
    BY <2>4, <2>5 DEF Room
<1>3a. PICK t : t = [i \in 0..(d - 1) |-> s[i]]
  OBVIOUS
<1>4. /\ t \in [0..(d - 1) -> Nat] /\ t[0] = 0 /\ t[d - 1] = s[d - 1]
      /\ \A i \in 1..(d - 1) : t[i] = t[i - 1] + Room(pc, i) /\ Room(pc', i) = Room(pc, i)
  <2>1. \A i \in 1..(d - 1) : i \in 1..d /\ i - 1 \in 0..(d - 1) /\ i \in 0..(d - 1)
    BY <1>2
  <2>2. t \in [0..(d - 1) -> Nat] /\ t[0] = 0 /\ t[d - 1] = s[d - 1]
    BY <1>1, <1>2, <1>3a DEF Ledger
  <2>3. \A i \in 1..(d - 1) : t[i] = t[i - 1] + Room(pc, i)
    BY <1>1, <1>3a, <2>1 DEF Ledger
  <2>4. \A i \in 1..(d - 1) : Room(pc', i) = Room(pc, i)
    BY <1>2 DEF Room
  <2> QED
    BY <2>2, <2>3, <2>4
<1>5. s[d] = s[d - 1] + Room(pc, d) /\ s[d - 1] \in Nat
  <2>1. d \in 1..d /\ d - 1 \in 0..d
    BY <1>2
  <2> QED
    BY <1>1, <2>1 DEF Ledger
<1>6. Ledger(pc', t)
  <2>1. \A i \in 1..(d - 1) : t[i] = t[i - 1] + Room(pc', i)
    BY <1>4
  <2> QED
    BY <1>2, <1>4, <2>1 DEF Ledger
<1>7. loads' + t[d - 1] <= top
  <2>1. top \in Nat
    BY FS_CardinalityType, LoadsCount
  <2> HIDE DEF top
  <2> QED
    BY <1>0, <1>1, <1>3, <1>4, <1>5, <2>1
<1>8. \A i \in 1..(d - 1) : pc'[i] <= MaxImports
  BY <1>2 DEF WorkInv
<1> QED
  BY <1>2, <1>6, <1>7, <1>8 DEF WorkInv

\* The imports of a body are as many as a module may have.
LEMMA BodyLength ==
  ASSUME GraphInv, ~Idle
  PROVE  Len(Body) \in 0..MaxImports
<1>1. frames \in Seq(Frame) /\ frames # <<>>
  BY DEF GraphInv, QuietInv, TypeOK, Idle
<1>2. Last(frames) \in Frame
  BY <1>1, LastFront
<1>3. Last(frames).id \in Id
  BY <1>2 DEF Frame
<1>4. Body \in UNION {[1..n -> Id] : n \in 0..MaxImports}
  BY <1>3 DEF GraphInv, Body
<1>5. PICK n \in 0..MaxImports : Body \in [1..n -> Id]
  BY <1>4
<1>6. n \in Nat /\ Body \in Seq(Id) /\ DOMAIN Body = 1..n
  BY <1>5, SeqDef
<1>7. DOMAIN Body = 1..Len(Body) /\ Len(Body) \in Nat
  BY <1>6, LenProperties
<1> QED
  BY <1>5, <1>6, <1>7

\* Each step keeps the account.
LEMMA WorkStep ==
  ASSUME IsFiniteSet(Id), WorkInv, [GraphNext]_graphVars
  PROVE  WorkInv'
<1>1. GraphInv /\ GraphInv'
  BY GraphInductive DEF WorkInv
<1>2. TypeOK /\ TypeOK' /\ Len(frames) \in Nat /\ loads \in Nat
  BY <1>1, LenProperties DEF GraphInv, QuietInv, TypeOK
<1>3. CASE Call
  <2>1. PICK raw \in Id : RequireModule(raw)
    BY <1>3 DEF Call
  <2>2. loads = 0 /\ Idle /\ frames = <<>> /\ imports' = imports
    BY <1>1, <1>3 DEF Call, GraphInv, Idle
  <2>3. \/ frames' = frames /\ loads' = loads
        \/ Len(frames') = 1 /\ frames' # <<>> /\ loads' = 1
    BY <1>2, <2>1, <2>2, RequireFrames
  <2> QED
    BY <1>1, <1>3, <2>2, <2>3, WorkBegins DEF Call
<1>4. CASE Import
  <2>1. Last(pc) < Len(Body) /\ ~Idle /\ imports' = imports /\ RequireModule(Body[Last(pc) + 1])
    BY <1>4 DEF Import
  <2>2. Body[Last(pc) + 1] \in Id /\ Last(pc) \in Nat /\ Len(Body) \in 0..MaxImports
    BY <1>1, <2>1, ImportType, BodyLength
  <2>3. \/ frames' = frames /\ loads' = loads
        \/ Len(frames') = Len(frames) + 1 /\ loads' = loads + 1
    BY <1>2, <2>1, <2>2, RequireFrames
  <2>4. Last(pc) < MaxImports
    BY <2>1, <2>2, ImportsAssumption
  <2>5. \/ pc' = Advanced /\ loads' = loads
        \/ pc' = Append(Advanced, 0) /\ loads' = loads + 1
    BY <1>2, <1>4, <2>3 DEF Import
  <2> QED
    BY <1>1, <2>1, <2>4, <2>5, WorkGoesOn
<1>5. CASE End \/ Throw
  <2>1. /\ imports' = imports /\ loads' = loads /\ frames # <<>> /\ pc' = Front(pc)
    BY <1>5 DEF End, Throw, LoadSucceeds, LoadFails, Idle
  <2>2. pc # <<>>
    BY <1>1, <1>2, <2>1, EmptySeq DEF GraphInv, TypeOK
  <2> QED
    BY <1>1, <2>1, <2>2, WorkEnds
<1>6. CASE UNCHANGED graphVars
  <2>1. pc' = pc /\ loads' = loads
    BY <1>6 DEF graphVars, vars
  <2> QED
    BY <1>1, <2>1 DEF WorkInv
<1> QED
  BY <1>3, <1>4, <1>5, <1>6 DEF GraphNext

LEMMA WorkInductive ==
  ASSUME IsFiniteSet(Id)
  PROVE  GraphSpec => []WorkInv
<1>1. GraphInit => WorkInv
  <2> SUFFICES ASSUME GraphInit PROVE WorkInv
    OBVIOUS
  <2>1. GraphInv /\ pc = <<>> /\ loads = 0
    BY GraphInductive DEF GraphInit, Init
  <2>2. Cardinality(Id) \in Nat /\ LoadsCaused[Cardinality(Id)] \in Nat
    BY FS_CardinalityType, LoadsCount
  <2>3. PICK s : s = [i \in 0..0 |-> 0]
    OBVIOUS
  <2>4. Len(pc) = 0
    BY <2>1
  <2>5. Ledger(pc, s) /\ s[0] = 0
    BY <2>3, <2>4 DEF Ledger
  <2> QED
    BY <2>1, <2>2, <2>4, <2>5 DEF WorkInv
<1>2. WorkInv /\ [GraphNext]_graphVars => WorkInv'
  BY WorkStep
<1> QED
  BY <1>1, <1>2, PTL DEF GraphSpec

\* What the program's require can cause is bounded (WorkBounded): no more bodies run inside
\* each other than there are modules, and no more are started one after the other than if
\* every module failed and every import started it again, whatever graph the imports
\* make, of any number of modules.
THEOREM WorkIsBounded ==
  ASSUME IsFiniteSet(Id)
  PROVE  GraphSpec => []WorkBounded
<1>1. WorkInv => WorkBounded
  <2> SUFFICES ASSUME WorkInv PROVE WorkBounded
    OBVIOUS
  <2>1. PICK s : Ledger(pc, s) /\ loads + s[Len(pc)] <= LoadsCaused[Cardinality(Id)]
    BY DEF WorkInv
  <2>2. Len(pc) \in Nat /\ loads \in Nat /\ LoadsCaused[Cardinality(Id)] \in Nat
    BY LenProperties, FS_CardinalityType, LoadsCount DEF WorkInv, GraphInv, QuietInv, TypeOK
  <2>3. s[Len(pc)] \in Nat
    BY <2>1, <2>2 DEF Ledger
  <2> QED
    BY <2>1, <2>2, <2>3, NestingInv DEF WorkInv, WorkBounded
<1> QED
  BY <1>1, WorkInductive, PTL

\* The next import of the running body finds its module, or may start one more load.
NotHeldUp ==
  ~Idle /\ Last(pc) < Len(Body) =>
    Lookup(modules, ResolveModuleId(Body[Last(pc) + 1])) \in Exports \/ loads < MaxLoads

\* Where MaxLoads is as large as LoadsCaused it stops no body: what RequireReturns says of
\* such an instance is said of the code, which has no bound.
THEOREM BoundStopsNoBody ==
  ASSUME IsFiniteSet(Id), LoadsCaused[Cardinality(Id)] <= MaxLoads
  PROVE  GraphSpec => []NotHeldUp
<1>1. WorkInv => NotHeldUp
  <2> SUFFICES ASSUME WorkInv, ~Idle, Last(pc) < Len(Body),
                      modules[ResolveModuleId(Body[Last(pc) + 1])] = Nil
               PROVE  loads < MaxLoads
    <3> DEFINE id == ResolveModuleId(Body[Last(pc) + 1])
    <3>1. ASSUME WorkInv, ~Idle, Last(pc) < Len(Body), modules[id] # Nil
          PROVE  Lookup(modules, id) \in Exports
      <4>1. Body[Last(pc) + 1] \in Id
        BY <3>1, ImportType DEF WorkInv
      <4>2. id \in Id /\ modules \in [Id -> Exports \cup {Nil}]
        BY <3>1, <4>1, ResolvedType DEF WorkInv, GraphInv, QuietInv, TypeOK
      <4> HIDE DEF id
      <4> QED
        BY <3>1, <4>2 DEF Lookup
    <3> HIDE DEF id
    <3> QED
      BY <3>1 DEF NotHeldUp, id
  <2> DEFINE id == ResolveModuleId(Body[Last(pc) + 1])
             N == Cardinality(Id)
             d == Len(pc)
  <2>1. GraphInv /\ TypeOK /\ Body[Last(pc) + 1] \in Id /\ Len(Body) \in 0..MaxImports
    BY ImportType, BodyLength DEF WorkInv, GraphInv, QuietInv
  <2>2. id \in Id
    BY <2>1, ResolvedType DEF TypeOK
  <2>3. d \in Nat \ {0} /\ d = Len(frames) /\ Last(pc) = pc[d] /\ pc[d] \in Nat /\ pc[d] < MaxImports
    <3>1. pc \in Seq(Nat) /\ pc # <<>> /\ d = Len(frames)
      BY <2>1, ImportType DEF GraphInv
    <3>2. d \in Nat \ {0} /\ Last(pc) = pc[d] /\ Last(pc) \in Nat
      BY <3>1, LastFront
    <3> QED
      BY <2>1, <3>1, <3>2, ImportsAssumption
  <2>4. \A i \in 1..d : frames[i].id \in Id \ {id}
    <3>1. DOMAIN frames = 1..d
      BY <2>1, <2>3, LenProperties DEF TypeOK
    <3>2. ASSUME NEW i \in 1..d PROVE frames[i].id \in Id /\ modules[frames[i].id] # Nil
      BY <2>1, <3>1, FrameType DEF GraphInv, QuietInv, CycleSeesOwnExports
    <3> QED
      BY <3>2
  <2>5. N \in Nat /\ d < N
    <3> DEFINE at == [i \in 1..d |-> frames[i].id]
    <3>1. N \in Nat /\ IsFiniteSet(Id \ {id}) /\ Cardinality(Id \ {id}) = N - 1
      BY <2>2, FS_CardinalityType, FS_RemoveElement
    <3>2. at \in [1..d -> Id \ {id}]
      BY <2>4
    <3>3. \A i, j \in 1..d : at[i] = at[j] => i = j
      <4>1. DOMAIN frames = 1..d
        BY <2>1, <2>3, LenProperties DEF TypeOK
      <4> QED
        BY <2>1, <4>1 DEF GraphInv, QuietInv, OneActivation
    <3>4. IsFiniteSet(1..d) /\ Cardinality(1..d) = d
      <4>1. d \in Nat \ {0}
        BY <2>3
      <4> HIDE DEF d
      <4> QED
        BY <4>1, FS_Interval
    <3> HIDE DEF at
    <3>5. ~(Cardinality(Id \ {id}) < Cardinality(1..d))
      BY <3>1, <3>2, <3>3, <3>4, FS_PigeonHole
    <3> HIDE DEF d, N, id
    <3> QED
      BY <2>3, <3>1, <3>4, <3>5
  <2>6. PICK s : Ledger(pc, s) /\ loads + s[d] <= LoadsCaused[N]
    BY DEF WorkInv
  <2>7. LoadsCaused[N - d] \in Nat \ {0} /\ LoadsCaused[N] \in Nat
    <3>1. N - d \in 1..N /\ (N - d) - 1 \in 0..N /\ N - d \in 0..N /\ N \in 0..N
      BY <2>3, <2>5
    <3>2. LoadsCaused[N - d] \in Nat /\ LoadsCaused[(N - d) - 1] \in Nat /\ LoadsCaused[N] \in Nat
      BY <3>1, LoadsCount
    <3>3. LoadsCaused[N - d] = 1 + MaxImports * LoadsCaused[(N - d) - 1]
      BY <3>1, LoadsTurn
    <3>4. MaxImports * LoadsCaused[(N - d) - 1] \in Nat
      BY <3>2, ImportsAssumption
    <3> HIDE DEF N, d
    <3> QED
      BY <3>2, <3>3, <3>4
  <2>8. Room(pc, d) \in Nat \ {0}
    <3>1. MaxImports - pc[d] \in Nat \ {0}
      BY <2>3, ImportsAssumption
    <3>2. \A a, b \in Nat \ {0} : a * b \in Nat \ {0}
      OBVIOUS
    <3> QED
      BY <2>7, <3>1, <3>2 DEF Room
  <2>9. s[d] = s[d - 1] + Room(pc, d) /\ s[d - 1] \in Nat
    <3>1. d \in 1..d /\ d - 1 \in 0..d
      BY <2>3
    <3> QED
      BY <2>6, <3>1 DEF Ledger
  <2>10. loads \in Nat /\ MaxLoads \in Nat /\ LoadsCaused[N] <= MaxLoads
    BY <2>1, ValueAssumption DEF TypeOK
  <2> HIDE DEF d, N
  <2> QED
    BY <2>6, <2>7, <2>8, <2>9, <2>10
<1> QED
  BY <1>1, WorkInductive, PTL
-----------------------------------------------------------------------------
(***************************************************************************)
(* Resolved ids (ModuleIdLoop).                                            *)
(***************************************************************************)
Component == Name \cup {"..", "/"}      \* of a resolved id,
Part == Component \cup {"."}            \* and of one that a caller writes

\* Dropping the last component keeps what is before it.
LEMMA DeleteLastProperties ==
  ASSUME NEW p \in Seq(Component)
  PROVE  /\ DeleteLast(p) \in Seq(Component)
         /\ \A i \in DOMAIN DeleteLast(p) : i \in DOMAIN p /\ DeleteLast(p)[i] = p[i]
<1>1. CASE p \in {<<>>, <<"/">>}
  BY <1>1 DEF DeleteLast
<1>2. CASE p \notin {<<>>, <<"/">>}
  <2>1. PICK n \in Nat : Len(p) = n + 1
    BY <1>2, LenProperties, EmptySeq
  <2>2. 1 \in Int /\ n \in Int /\ \A i \in 1..n : p[i] \in Component
    BY <2>1, LenProperties
  <2>3. /\ SubSeq(p, 1, n) \in Seq(Component)
        /\ Len(SubSeq(p, 1, n)) = IF 1 <= n THEN n - 1 + 1 ELSE 0
        /\ \A i \in 1..(n - 1 + 1) : SubSeq(p, 1, n)[i] = p[1 + i - 1]
    BY <2>2, SubSeqProperties, SMTT(20)
  <2>4. DeleteLast(p) = SubSeq(p, 1, n)
    BY <1>2, <2>1 DEF DeleteLast, Front
  <2>5. DOMAIN SubSeq(p, 1, n) = 1..n /\ DOMAIN p = 1..(n + 1)
    BY <2>1, <2>3, LenProperties
  <2>6. \A i \in 1..n : SubSeq(p, 1, n)[i] = p[i]
    BY <2>3
  <2> QED
    BY <2>3, <2>4, <2>5, <2>6
<1> QED
  BY <1>1, <1>2

\* One turn of the loop never puts a ".." behind another component.
LEMMA AddComponentDots ==
  ASSUME NEW p \in Seq(Component), \A i \in DOMAIN p : p[i] = ".." => i = 1,
         NEW c \in Name \cup {".", "..", "/"}
  PROVE  /\ AddComponent(p, c) \in Seq(Component)
         /\ \A i \in DOMAIN AddComponent(p, c) : AddComponent(p, c)[i] = ".." => i = 1
<1>1. CASE c = "."
  BY <1>1 DEF AddComponent
<1>2. CASE c = ".." /\ p # <<>>
  BY <1>2, DeleteLastProperties DEF AddComponent
<1>3. CASE c # "." /\ ~(c = ".." /\ p # <<>>)
  <2>1. AddComponent(p, c) = Append(p, c) /\ c \in Component
    BY <1>3 DEF AddComponent, Component
  <2>2. /\ Append(p, c) \in Seq(Component)
        /\ Len(Append(p, c)) = Len(p) + 1
        /\ \A i \in 1..Len(p) : Append(p, c)[i] = p[i]
        /\ Append(p, c)[Len(p) + 1] = c
    BY <2>1, AppendProperties
  <2>3. DOMAIN Append(p, c) = 1..(Len(p) + 1) /\ DOMAIN p = 1..Len(p) /\ Len(p) \in Nat
    BY <2>2, LenProperties
  <2>4. c = ".." => Len(p) = 0
    BY <1>3, EmptySeq
  <2> QED
    BY <2>1, <2>2, <2>3, <2>4
<1> QED
  BY <1>1, <1>2, <1>3

\* In every resolved id, of any length, ".." is at most the first component
\* (DotsOnlyInFront): an id climbs at most one directory above where it starts.
THEOREM ResolvedIdClimbsOnce == LoopSpec => []DotsOnlyInFront
<1> DEFINE Inv == path \in Seq(Component) /\ DotsOnlyInFront
<1>1. LoopInit => Inv
  BY EmptySeq DEF LoopInit, DotsOnlyInFront
<1>2. Inv /\ [LoopNext]_loopVars => Inv'
  BY AddComponentDots DEF LoopNext, Turn, loopVars, DotsOnlyInFront
<1> QED
  BY <1>1, <1>2, PTL DEF LoopSpec
\* The loop over the components of an id, turn by turn.
LEMMA NormalizeTurns ==
  ASSUME NEW s \in Seq(Part)
  PROVE  \E g \in [0..Len(s) -> Seq(Component)] :
           /\ g[0] = <<>> /\ g[Len(s)] = Normalize(s)
           /\ \A i \in 1..Len(s) : g[i] = AddComponent(g[i - 1], s[i])
<1> DEFINE Fold(iter) == iter = [t \in SUBSET DOMAIN s |->
              IF t = {} THEN <<>> ELSE AddComponent(iter[t \ {Max(t)}], s[Max(t)])]
           F == [x \in Seq(Component) \X Part |-> AddComponent(x[1], x[2])]
           all == CHOOSE iter : Fold(iter)
           g == [i \in 0..Len(s) |-> all[1..i]]
<1>1. Normalize(s) = all[DOMAIN s]
  BY DEF Normalize, FoldLeft, MapThenFoldSet
<1>2. Len(s) \in Nat /\ s \in [1..Len(s) -> Part] /\ DOMAIN s = 1..Len(s)
  BY LenProperties
<1>3. ASSUME NEW p \in Seq(Component), NEW c \in Part
      PROVE  AddComponent(p, c) \in Seq(Component)
  <2>1. c # "." => c \in Component
    BY DEF Part
  <2> QED
    BY <2>1, AppendProperties, DeleteLastProperties DEF AddComponent
<1>4. F \in [Seq(Component) \X Part -> Seq(Component)] /\ <<>> \in Seq(Component)
  BY <1>3
<1>5. \A p \in Seq(Component), c \in Part : F[<<p, c>>] = AddComponent(p, c)
  OBVIOUS
<1>6. Fold(all)
  <2> HIDE DEF F
  <2>1. PICK iter \in [SUBSET DOMAIN s -> Seq(Component)] : Folds(iter, F, <<>>, s)
    BY <1>4, FoldExists
  <2>2. ASSUME NEW t \in SUBSET DOMAIN s, t # {}
        PROVE  iter[t] = AddComponent(iter[t \ {Max(t)}], s[Max(t)])
    <3>1. Max(t) \in t
      BY <1>2, <2>2, MaxOfSome
    <3>2. iter[t \ {Max(t)}] \in Seq(Component) /\ s[Max(t)] \in Part
      BY <1>2, <3>1
    <3> QED
      BY <1>5, <2>1, <2>2, <3>2 DEF Folds
  <2>3. Fold(iter)
    BY <2>1, <2>2 DEF Folds
  <2> HIDE DEF Fold
  <2> QED
    BY <2>3
<1> HIDE DEF all, F
<1>7. all[{}] = <<>> /\ \A i \in 1..Len(s) : all[1..i] = AddComponent(all[1..(i - 1)], s[i])
  <2>1. ASSUME NEW i \in 1..Len(s)
        PROVE  all[1..i] = AddComponent(all[1..(i - 1)], s[i])
    <3>1. 1..i \in SUBSET DOMAIN s /\ 1..i # {} /\ (1..i) \ {i} = 1..(i - 1)
      BY <1>2, UpTo
    <3>2. Max(1..i) = i
      BY <1>2, MaxUpTo
    <3> QED
      BY <1>6, <3>1, <3>2
  <2> QED
    BY <1>6, <2>1
<1>8. \A i \in 0..Len(s) : all[1..i] \in Seq(Component)
  <2>1. \A i \in 1..Len(s) :
          all[1..(i - 1)] \in Seq(Component) => all[1..i] \in Seq(Component)
    BY <1>2, <1>3, <1>7
  <2> QED
    BY <1>2, <1>4, <1>7, <2>1, FoldTrace
<1>9. /\ g \in [0..Len(s) -> Seq(Component)]
      /\ g[0] = <<>> /\ g[Len(s)] = Normalize(s)
      /\ \A i \in 1..Len(s) : g[i] = AddComponent(g[i - 1], s[i])
  <2>1. 1..0 = {}
    OBVIOUS
  <2> QED
    BY <1>1, <1>2, <1>7, <1>8, <2>1
<1> HIDE DEF g
<1> QED
  BY <1>9

\* An id without dots is its own normal form.
LEMMA PlainIdNormal ==
  ASSUME NEW s \in Seq(Component), \A i \in 1..Len(s) : s[i] \notin {".", ".."}
  PROVE  Normalize(s) = s
<1>0. s \in Seq(Part)
  BY DEF Part
<1>1. PICK g \in [0..Len(s) -> Seq(Component)] :
           /\ g[0] = <<>> /\ g[Len(s)] = Normalize(s)
           /\ \A i \in 1..Len(s) : g[i] = AddComponent(g[i - 1], s[i])
  BY <1>0, NormalizeTurns
<1>2. Len(s) \in Nat /\ DOMAIN s = 1..Len(s) /\ \A i \in 1..Len(s) : s[i] \in Component
  BY LenProperties
<1> DEFINE Same(i) == Len(g[i]) = i /\ \A j \in 1..i : g[i][j] = s[j]
           N == {i \in Nat : i <= Len(s) => Same(i)}
<1>3. Same(0)
  BY <1>1
<1>4. ASSUME NEW i \in Nat, i + 1 <= Len(s), Same(i) PROVE Same(i + 1)
  <2>1. i \in 0..Len(s) /\ i + 1 \in 1..Len(s) /\ (i + 1) - 1 = i
    BY <1>2, <1>4
  <2>2. g[i + 1] = Append(g[i], s[i + 1])
    BY <1>1, <2>1 DEF AddComponent
  <2>3. g[i] \in Seq(Component) /\ s[i + 1] \in Component
    BY <1>2, <2>1
  <2>4. /\ Len(g[i + 1]) = i + 1
        /\ \A j \in 1..i : g[i + 1][j] = g[i][j]
        /\ g[i + 1][i + 1] = s[i + 1]
    BY <1>4, <2>2, <2>3, AppendTop
  <2>5. \A j \in 1..(i + 1) : j \in 1..i \/ j = i + 1
    OBVIOUS
  <2> QED
    BY <1>4, <2>4, <2>5
<1>5. N = Nat
  <2> HIDE DEF Same
  <2>1. 0 \in N /\ N \in SUBSET Nat
    BY <1>3
  <2>2. ASSUME NEW i \in N PROVE i + 1 \in N
    BY <1>2, <1>4
  <2> HIDE DEF N
  <2> QED
    BY <2>1, <2>2, NatSetInduction
<1>6. Same(Len(s))
  <2> HIDE DEF Same
  <2> QED
    BY <1>2, <1>5
<1>7. g[Len(s)] \in Seq(Component)
  BY <1>2
<1> QED
  BY <1>1, <1>2, <1>6, <1>7, SeqEqual

LEMMA PlainResolvedNormal ==
  ASSUME NEW s \in Seq(Component), \A i \in DOMAIN s : s[i] = ".." => i = 1, ~IsRelative(s)
  PROVE  Normalize(s) = s
<1>1. \A i \in 1..Len(s) : i \in DOMAIN s /\ s[i] \in Component
  BY LenProperties
<1>2. ASSUME NEW i \in 1..Len(s) PROVE s[i] \notin {".", ".."}
  <2>1. s[i] # "."
    BY <1>1, NameAssumption DEF Component
  <2>2. s[i] = ".." => i = 1 /\ s # <<>> /\ Head(s) = ".."
    BY <1>1, EmptySeq
  <2> QED
    BY <2>1, <2>2 DEF IsRelative
<1> QED
  BY <1>2, PlainIdNormal

\* What -resolveModuleId: makes of every id a caller may write, in every module: an id
\* that climbs one directory at most, and that means itself from then on unless it
\* starts with a dot.
THEOREM ResolvedIds ==
  ASSUME NEW raw \in Seq(Part), NEW current \in Seq(Component),
         NEW id, id = Resolve(raw, current)
  PROVE  /\ id \in Seq(Component)
         /\ \A i \in 1..Len(id) : id[i] = ".." => i = 1
         /\ ~IsRelative(id) => \A other \in Seq(Component) : Resolve(id, other) = id
<1> DEFINE s == IF IsRelative(raw) THEN DeleteLast(current) \o raw ELSE raw
           Fine(p) == \A i \in DOMAIN p : p[i] = ".." => i = 1
<1>1. s \in Seq(Part)
  <2>1. DeleteLast(current) \in Seq(Component)
    BY DeleteLastProperties
  <2>2. Seq(Component) \subseteq Seq(Part)
    BY DEF Part
  <2> QED
    BY <2>1, <2>2, ConcatProperties
<1> HIDE DEF s
<1>2. PICK g \in [0..Len(s) -> Seq(Component)] :
           /\ g[0] = <<>> /\ g[Len(s)] = Normalize(s)
           /\ \A i \in 1..Len(s) : g[i] = AddComponent(g[i - 1], s[i])
  BY <1>1, NormalizeTurns
<1>3. Len(s) \in Nat /\ \A i \in 1..Len(s) : s[i] \in Part
  BY <1>1, LenProperties
<1> DEFINE At(i) == Fine(g[i])
           N == {i \in Nat : i <= Len(s) => At(i)}
<1>4. At(0)
  BY <1>2
<1>5. ASSUME NEW i \in Nat, i + 1 <= Len(s), At(i) PROVE At(i + 1)
  <2>1. i \in 0..Len(s) /\ i + 1 \in 1..Len(s) /\ (i + 1) - 1 = i
    BY <1>3, <1>5
  <2>2. g[i] \in Seq(Component) /\ g[i + 1] = AddComponent(g[i], s[i + 1])
    BY <1>2, <2>1
  <2>3. s[i + 1] \in Name \cup {".", "..", "/"}
    BY <1>3, <2>1 DEF Part, Component
  <2> QED
    BY <1>5, <2>2, <2>3, AddComponentDots
<1>6. N = Nat
  <2> HIDE DEF At
  <2>1. 0 \in N /\ N \in SUBSET Nat
    BY <1>4
  <2>2. ASSUME NEW i \in N PROVE i + 1 \in N
    BY <1>3, <1>5
  <2> HIDE DEF N
  <2> QED
    BY <2>1, <2>2, NatSetInduction
<1>7. id = g[Len(s)] /\ id \in Seq(Component)
  <2>1. id = Normalize(s)
    BY DEF Resolve, s
  <2> QED
    BY <1>2, <1>3, <2>1
<1>8. Fine(id)
  <2>1. At(Len(s))
    <3> HIDE DEF At
    <3> QED
      BY <1>3, <1>6
  <2> QED
    BY <1>7, <2>1
<1>9. DOMAIN id = 1..Len(id) /\ Len(id) \in Nat /\ \A i \in 1..Len(id) : id[i] \in Component
  BY <1>7, LenProperties
<1>10. ASSUME ~IsRelative(id), NEW other \in Seq(Component) PROVE Resolve(id, other) = id
  BY <1>7, <1>8, <1>9, <1>10, PlainResolvedNormal DEF Resolve
<1> QED
  BY <1>7, <1>8, <1>9, <1>10

\* A resolved id that does not start with a dot resolves to itself wherever it is
\* required (PlainIdIsAbsolute): -reloadModule: may resolve twice.
THEOREM ResolvedIdsStay == LoopSpec => []PlainIdIsAbsolute
<1> DEFINE Inv == path \in Seq(Component) /\ DotsOnlyInFront
<1>1. LoopInit => Inv
  BY EmptySeq DEF LoopInit, DotsOnlyInFront
<1>2. Inv /\ [LoopNext]_loopVars => Inv'
  BY AddComponentDots DEF LoopNext, Turn, loopVars, DotsOnlyInFront
<1>3. Inv => PlainIdIsAbsolute
  BY PlainResolvedNormal DEF PlainIdIsAbsolute, Resolve, DotsOnlyInFront
<1> QED
  BY <1>1, <1>2, <1>3, PTL DEF LoopSpec

\* How many directories a path climbs.
LEMMA ClimbsProperties ==
  ASSUME NEW p \in Seq(Component)
  PROVE  /\ Climbs(p) \in Nat
         /\ p # <<>> /\ Last(p) = ".." => Climbs(Append(p, "..")) > 1
<1> DEFINE Ups(q) == {i \in DOMAIN q : q[i] = ".."}
<1>1. ASSUME NEW q \in Seq(Component)
      PROVE  IsFiniteSet(Ups(q)) /\ Cardinality(Ups(q)) \in Nat
  <2>1. DOMAIN q = 1..Len(q) /\ Len(q) \in Nat
    BY LenProperties
  <2>2. IsFiniteSet(1..Len(q))
    BY <2>1, FS_Interval
  <2> QED
    BY <2>1, <2>2, FS_Subset, FS_CardinalityType
<1>2. ASSUME p # <<>>, Last(p) = ".." PROVE Cardinality(Ups(Append(p, ".."))) > 1
  <2> DEFINE q == Append(p, "..")  n == Len(p)
  <2>1. n \in Nat \ {0} /\ p[n] = ".."
    BY <1>2, LastFront
  <2>2. q \in Seq(Component) /\ Len(q) = n + 1 /\ q[n] = ".." /\ q[n + 1] = ".."
    BY <2>1, AppendTop DEF Component
  <2>3. n..(n + 1) \subseteq Ups(q)
    BY <2>1, <2>2, LenProperties
  <2>4. Cardinality(n..(n + 1)) = 2
    BY <2>1, FS_Interval
  <2>5. Cardinality(n..(n + 1)) <= Cardinality(Ups(q))
    BY <1>1, <2>2, <2>3, FS_Subset
  <2>6. Cardinality(Ups(q)) \in Nat
    BY <1>1, <2>2
  <2> HIDE DEF Ups
  <2> QED
    BY <2>4, <2>5, <2>6
<1> QED
  BY <1>1, <1>2 DEF Climbs

LoopInv ==
  /\ path \in Seq(Component)
  /\ reference \in Seq(Component)
  /\ climbed \in Nat
  /\ NormalWithinOneClimb

\* The loop of -resolveModuleId: computes the lexical normal form of an id as long as
\* that climbs no more than one directory (NormalWithinOneClimb), for ids of any length.
THEOREM LoopNormalizes == LoopSpec => []NormalWithinOneClimb
<1>1. LoopInit => LoopInv
  BY EmptySeq DEF LoopInit, LoopInv, NormalWithinOneClimb
<1>2. ASSUME LoopInv, NEW c \in Name \cup {".", "..", "/"}, Turn(c) PROVE LoopInv'
  <2>1. path' = AddComponent(path, c) /\ reference' = NormalForm(reference, c)
    BY <1>2 DEF Turn
  <2>2. path' \in Seq(Component)
    BY <1>2, <2>1, AppendProperties, DeleteLastProperties DEF LoopInv, AddComponent, Component
  <2>3. reference' \in Seq(Component)
    BY <1>2, <2>1, AppendProperties, DeleteLastProperties DEF LoopInv, NormalForm, Component
  <2>4. Climbs(reference') \in Nat
    BY <2>3, ClimbsProperties
  <2>5. climbed' \in Nat /\ climbed <= climbed' /\ Climbs(reference') <= climbed'
    BY <1>2, <2>4 DEF LoopInv, Turn
  <2>6. ASSUME climbed' <= 1 PROVE path' = reference'
    <3>1. path = reference
      BY <1>2, <2>5, <2>6 DEF LoopInv, NormalWithinOneClimb
    <3>2. ~(c = ".." /\ reference # <<>> /\ Last(reference) = "..")
      BY <1>2, <2>1, <2>4, <2>5, <2>6, ClimbsProperties DEF LoopInv, NormalForm
    <3> QED
      BY <2>1, <3>1, <3>2 DEF AddComponent, NormalForm
  <2> QED
    BY <2>2, <2>3, <2>5, <2>6 DEF LoopInv, NormalWithinOneClimb
<1>3. LoopInv /\ [LoopNext]_loopVars => LoopInv'
  BY <1>2 DEF LoopNext, loopVars, LoopInv, NormalWithinOneClimb
<1>4. LoopInv => NormalWithinOneClimb
  BY DEF LoopInv
<1> QED
  BY <1>1, <1>3, <1>4, PTL DEF LoopSpec
=============================================================================
