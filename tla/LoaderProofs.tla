----------------------------- MODULE LoaderProofs -----------------------------
(***************************************************************************)
(* Theorems about the module loader, for any modules and any bytecode.     *)
(*                                                                         *)
(* The inductive invariant says what the frames of initialize_dfs stand    *)
(* for: a path of dependencies, each frame waiting for the one above it    *)
(* and with all it has looked at before initialised.                       *)
(***************************************************************************)
EXTENDS LoaderProperties, SequenceTheorems, FiniteSetTheorems, WellFoundedInduction, TLAPS

At(i) == stack[i].module

RunsOnce == \A m \in Modules : runs[m] = 1 => state[m] = "Ready"

LoadedTogether ==
  Busy => \A m \in Loaded : ToSet(Deps(m)) \subseteq Loaded

Quiet == ~Busy => ~raised

FramesDistinct == \A i, j \in DOMAIN stack : At(i) = At(j) => i = j

\* Those that FindCycle marked are still there when it returns.
FramesInitializing ==
  \A i \in DOMAIN stack :
    state[At(i)] = "Initializing" \/ (raised /\ state[At(i)] = "Failed")

\* Frame i has looked at its dependencies up to next.
Looked(i) ==
  /\ stack[i].next <= Len(Deps(At(i))) + 1
  /\ \A k \in 1..(stack[i].next - 1) : state[Deps(At(i))[k]] = "Ready"

FramesLooked == \A i \in DOMAIN stack : Looked(i)

\* Frame i waits for frame i + 1.
Waits(i) ==
  /\ stack[i].next \in DOMAIN Deps(At(i))
  /\ Deps(At(i))[stack[i].next] = At(i + 1)

FramesWait == \A i \in 1..(Len(stack) - 1) : Waits(i)

FramesPath ==
  \A i, j \in DOMAIN stack : i < j => At(j) \in DependsOn(At(i))

FailedBelow ==
  raised /\ stack # <<>> =>
    \E d \in ToSet(Deps(Top.module)) : state[d] = "Failed"

StackInv ==
  /\ FramesDistinct
  /\ FramesInitializing
  /\ FramesLooked
  /\ FramesWait
  /\ FramesPath

LoaderInv ==
  /\ TypeOK
  /\ RunsOnce
  /\ LoadedTogether
  /\ Quiet
  /\ StackInv
  /\ FailedBelow
  /\ DependenciesFirst
  /\ FailuresExplained
-----------------------------------------------------------------------------
(* Dependencies *)

LEMMA DepsType ==
  ASSUME TypeOK, NEW m \in Modules
  PROVE  Deps(m) \in Seq(Modules)
BY ProgramsKnown DEF TypeOK, Deps, ProgramRecord

LEMMA DirectDependency ==
  ASSUME TypeOK, NEW m \in Modules, NEW d \in ToSet(Deps(m))
  PROVE  d \in DependsOn(m)
<1>1. d \in Modules
  BY DepsType DEF ToSet
<1> QED
  BY <1>1 DEF DependsOn

LEMMA DependencyOfDependency ==
  ASSUME NEW a, NEW b \in DependsOn(a), NEW c \in DependsOn(b)
  PROVE  c \in DependsOn(a)
<1> SUFFICES ASSUME NEW S \in SUBSET Modules,
                    ToSet(Deps(a)) \subseteq S,
                    \A x \in S : ToSet(Deps(x)) \subseteq S
             PROVE  c \in S
  BY DEF DependsOn
<1>1. b \in S
  BY DEF DependsOn
<1> QED
  BY <1>1 DEF DependsOn

\* What a step takes for granted: the bytecode does not change.
LEMMA SameProgram ==
  ASSUME program' = program, NEW m
  PROVE  Deps(m)' = Deps(m) /\ DependsOn(m)' = DependsOn(m)
BY DEF Deps, DependsOn
-----------------------------------------------------------------------------
(* Stacks *)

\* The frame on top of rest goes on to its next dependency.
Bumped(rest) == [rest EXCEPT ![Len(rest)].next = @ + 1]

LEMMA BumpProperties ==
  ASSUME NEW rest \in Seq(Frame), rest # <<>>, NEW s, s = Bumped(rest)
  PROVE  /\ s \in Seq(Frame) /\ Len(s) = Len(rest) /\ s # <<>>
         /\ \A i \in 1..Len(rest) : s[i].module = rest[i].module
         /\ \A i \in 1..(Len(rest) - 1) : s[i] = rest[i]
         /\ s[Len(rest)].next = rest[Len(rest)].next + 1
<1>1. Len(rest) \in 1..Len(rest) /\ rest \in [1..Len(rest) -> Frame]
  BY EmptySeq, LenProperties
<1>2. [rest[Len(rest)] EXCEPT !.next = @ + 1] \in Frame
  BY <1>1 DEF Frame
<1>3. s = [rest EXCEPT ![Len(rest)] = [rest[Len(rest)] EXCEPT !.next = @ + 1]]
  BY DEF Bumped
<1>4. s \in [1..Len(rest) -> Frame]
  BY <1>1, <1>2, <1>3
<1>5. s \in Seq(Frame) /\ Len(s) = Len(rest)
  BY <1>4, <1>1, LenProperties
<1>6. rest[Len(rest)] \in Frame
  BY <1>1
<1> QED
  BY <1>1, <1>3, <1>5, <1>6 DEF Frame

LEMMA FrontIs ==
  ASSUME NEW s \in Seq(Frame), s # <<>>
  PROVE  /\ Front(s) \in Seq(Frame) /\ Len(Front(s)) = Len(s) - 1
         /\ \A i \in 1..(Len(s) - 1) : Front(s)[i] = s[i]
         /\ Len(s) \in Nat \ {0} /\ Last(s) = s[Len(s)] /\ Last(s) \in Frame
<1>1. Len(s) \in Nat \ {0}
  BY EmptySeq, LenProperties
<1> DEFINE n == Len(s) - 1
<1>2. n \in Nat /\ (\A i \in 1..n : s[i] \in Frame) /\ s[Len(s)] \in Frame
  BY <1>1, ElementOfSeq
<1> HIDE DEF n
<1>3. /\ SubSeq(s, 1, n) \in Seq(Frame)
      /\ Len(SubSeq(s, 1, n)) = n
      /\ \A i \in 1..n : SubSeq(s, 1, n)[i] = s[i]
  BY <1>2, SubSeqProperties
<1> QED
  BY <1>1, <1>2, <1>3 DEF Front, Last, n

LEMMA PushIs ==
  ASSUME NEW s \in Seq(Frame), NEW f \in Frame, NEW t, t = Append(s, f)
  PROVE  /\ t \in Seq(Frame) /\ Len(t) = Len(s) + 1 /\ t # <<>>
         /\ \A i \in 1..Len(s) : t[i] = s[i]
         /\ t[Len(s) + 1] = f
BY AppendProperties, EmptySeq, LenProperties

\* The stack is the one of before, or the first frames of it, and the last of these
\* may have gone on.
Beginning ==
  /\ stack' \in Seq(Frame)
  /\ Len(stack') <= Len(stack)
  /\ \A i \in 1..Len(stack') : At(i)' = At(i)
  /\ \A i \in 1..(Len(stack') - 1) : stack'[i] = stack[i]

\* What was initialised stays it, and what has failed stays so.
Lasting ==
  /\ program' = program
  /\ \A m \in Modules :
       state[m] \in {"Ready", "Failed"} => state'[m] = state[m]

\* The frame on top has looked as far as it says.
LastLooked == \A i \in DOMAIN stack : i = Len(stack) => Looked(i)

LEMMA FrameType ==
  ASSUME TypeOK, NEW i \in DOMAIN stack
  PROVE  /\ stack[i] \in Frame /\ At(i) \in Modules /\ stack[i].next \in Nat \ {0}
         /\ Deps(At(i)) \in Seq(Modules)
<1>1. stack[i] \in Frame
  BY ElementOfSeq, LenProperties DEF TypeOK
<1>2. At(i) \in Modules /\ stack[i].next \in Nat \ {0}
  BY <1>1 DEF At, Frame
<1> QED
  BY <1>1, <1>2, DepsType

LEMMA LookedStays ==
  ASSUME TypeOK, Lasting, NEW i \in DOMAIN stack, Looked(i), stack'[i] = stack[i]
  PROVE  Looked(i)'
<1>1. At(i) \in Modules /\ At(i)' = At(i) /\ stack[i].next \in Nat
  BY FrameType DEF At
<1>2. Deps(At(i)) \in Seq(Modules)
  BY FrameType
<1>3. Deps(At(i))' = Deps(At(i))
  BY <1>1 DEF Deps, Lasting
<1>4. ASSUME NEW k \in 1..(stack[i].next - 1)
      PROVE  state'[Deps(At(i))[k]] = "Ready"
  <2>1. k \in DOMAIN Deps(At(i))
    BY <1>1, <1>2 DEF Looked
  <2>2. Deps(At(i))[k] \in Modules /\ state[Deps(At(i))[k]] = "Ready"
    BY <2>1, <1>2 DEF Looked
  <2> QED
    BY <2>2 DEF Lasting
<1> QED
  BY <1>1, <1>3, <1>4 DEF Looked

LEMMA BeginningKeeps ==
  ASSUME TypeOK, StackInv, Lasting, Beginning, FramesInitializing',
         LastLooked'
  PROVE  StackInv'
<1> USE DEF StackInv
<1>1. /\ Len(stack) \in Nat /\ Len(stack') \in Nat
      /\ DOMAIN stack = 1..Len(stack) /\ DOMAIN stack' = 1..Len(stack')
      /\ Len(stack') <= Len(stack)
  BY LenProperties DEF TypeOK, Beginning
<1>2. \A i \in DOMAIN stack' : i \in DOMAIN stack /\ At(i)' = At(i)
  BY <1>1 DEF Beginning
<1>3. FramesDistinct'
  BY <1>2 DEF FramesDistinct
<1>4. FramesLooked'
  <2> SUFFICES ASSUME NEW i \in DOMAIN stack' PROVE Looked(i)'
    BY DEF FramesLooked
  <2>1. CASE i = Len(stack')
    BY <2>1 DEF LastLooked
  <2>2. CASE i # Len(stack')
    <3>1. stack'[i] = stack[i] /\ i \in DOMAIN stack /\ Looked(i)
      BY <2>2, <1>1, <1>2 DEF Beginning, FramesLooked
    <3> QED
      BY <3>1, LookedStays
  <2> QED
    BY <2>1, <2>2
<1>5. FramesWait'
  <2> SUFFICES ASSUME NEW i \in 1..(Len(stack') - 1) PROVE Waits(i)'
    BY DEF FramesWait
  <2>1. /\ stack'[i] = stack[i] /\ Waits(i)
        /\ i \in DOMAIN stack' /\ i + 1 \in DOMAIN stack'
    BY <1>1 DEF Beginning, FramesWait
  <2>2. At(i)' = At(i) /\ At(i + 1)' = At(i + 1)
    BY <2>1, <1>2
  <2>3. Deps(At(i))' = Deps(At(i))
    BY <2>2 DEF Deps, Lasting
  <2> QED
    BY <2>1, <2>2, <2>3 DEF Waits
<1>6. FramesPath'
  <2> SUFFICES ASSUME NEW i \in DOMAIN stack', NEW j \in DOMAIN stack', i < j
               PROVE  (At(j) \in DependsOn(At(i)))'
    BY DEF FramesPath
  <2>1. At(j) \in DependsOn(At(i)) /\ At(i)' = At(i) /\ At(j)' = At(j)
    BY <1>2 DEF FramesPath
  <2>2. DependsOn(At(i))' = DependsOn(At(i))
    BY <2>1 DEF DependsOn, Deps, Lasting
  <2> QED
    BY <2>1, <2>2
<1> QED
  BY <1>3, <1>4, <1>5, <1>6

LEMMA EmptyStack ==
  ASSUME stack' = <<>>
  PROVE  StackInv' /\ FailedBelow'
<1>1. DOMAIN stack' = {} /\ 1..(Len(stack') - 1) = {}
  BY EmptySeq, LenProperties
<1> QED
  BY <1>1 DEF StackInv, FramesDistinct, FramesInitializing, FramesLooked,
     FramesWait, FramesPath, FailedBelow
-----------------------------------------------------------------------------
(* What has failed, and what is initialised *)

Explained(m) ==
  /\ (state[m] = "Failed") = (cause[m] # "none")
  /\ cause[m] = "cycle" => m \in DependsOn(m)
  /\ cause[m] = "dependency" =>
       \E d \in ToSet(Deps(m)) : state[d] = "Failed"
  /\ state[m] = "Initializing" => m \in OnStack

AllExplained == \A m \in Modules : Explained(m)

LEMMA FailuresAreExplained ==
  FailuresExplained <=> AllExplained /\ (~Busy => stack = <<>>)
BY DEF FailuresExplained, AllExplained, Explained

ReadySame ==
  \A m \in Modules : (state[m] = "Ready") <=> (state'[m] = "Ready")

LEMMA OrderStays ==
  ASSUME TypeOK, DependenciesFirst, program' = program, order' = order, ReadySame
  PROVE  DependenciesFirst'
<1>1. {m \in Modules : state[m] = "Ready"}' = {m \in Modules : state[m] = "Ready"}
  BY DEF ReadySame
<1>2. \A m : Deps(m)' = Deps(m)
  BY DEF Deps
<1> QED
  BY <1>1, <1>2 DEF DependenciesFirst

LEMMA ExplanationStays ==
  ASSUME TypeOK, Lasting, NEW m \in Modules, Explained(m),
         cause'[m] = cause[m],
         state[m] = "Failed" <=> state'[m] = "Failed",
         state'[m] = "Initializing" => m \in OnStack'
  PROVE  Explained(m)'
<1>1. Deps(m)' = Deps(m) /\ DependsOn(m)' = DependsOn(m)
  BY SameProgram DEF Lasting
<1>2. ASSUME NEW d \in ToSet(Deps(m)), state[d] = "Failed"
      PROVE  state'[d] = "Failed"
  <2>1. d \in Modules
    BY DepsType DEF ToSet
  <2> QED
    BY <2>1, <1>2 DEF Lasting
<1> QED
  BY <1>1, <1>2 DEF Explained

\* Nothing is changed of modules but that they are loaded or linked, and no frame
\* is there.
LEMMA OutsideKeeps ==
  ASSUME LoaderInv, ~Busy, TypeOK', program' = program, runs' = runs, order' = order,
         stack' = stack, raised' = raised, LoadedTogether',
         \A m \in Modules :
           \/ state'[m] = state[m] /\ cause'[m] = cause[m]
           \/ /\ state[m] \in {"Unloaded", "Verified"}
              /\ state'[m] \in {"Verified", "Linked"} /\ cause'[m] = cause[m]
           \/ state[m] = "Unloaded" /\ state'[m] = "Failed" /\ cause'[m] = "bytecode"
  PROVE  LoaderInv'
<1> USE DEF LoaderInv
<1>1. stack = <<>> /\ ~raised
  BY DEF FailuresExplained, Quiet
<1>2. StackInv' /\ FailedBelow' /\ Quiet'
  BY <1>1, EmptyStack DEF Quiet
<1>3. Lasting /\ ReadySame /\ RunsOnce'
  BY DEF Lasting, ReadySame, RunsOnce, TypeOK
<1>4. DependenciesFirst'
  BY <1>3, OrderStays
<1>5. OnStack' = OnStack
  BY DEF OnStack
<1>6. AllExplained'
  <2> SUFFICES ASSUME NEW m \in Modules PROVE Explained(m)'
    BY DEF AllExplained
  <2>1. Explained(m)
    BY FailuresAreExplained DEF AllExplained
  <2>2. CASE cause'[m] = cause[m]
    BY <1>3, <1>5, <2>1, <2>2, ExplanationStays DEF Explained
  <2>3. CASE cause'[m] = "bytecode" /\ state'[m] = "Failed"
    BY <2>3 DEF Explained
  <2> QED
    BY <2>2, <2>3
<1>7. FailuresExplained'
  BY <1>1, <1>6 DEF FailuresExplained, AllExplained, Explained
<1> QED
  BY <1>2, <1>3, <1>4, <1>7

LEMMA AddKeeps ==
  ASSUME LoaderInv, NEW m \in Modules, NEW valid \in BOOLEAN, Add(m, valid)
  PROVE  LoaderInv'
<1>1. TypeOK'
  BY DEF LoaderInv, TypeOK, Add, States, Causes, callVars
<1>2. LoadedTogether'
  BY DEF Add, LoadedTogether, Busy
<1>3. \A k \in Modules :
        \/ state'[k] = state[k] /\ cause'[k] = cause[k]
        \/ /\ state[k] \in {"Unloaded", "Verified"}
           /\ state'[k] \in {"Verified", "Linked"} /\ cause'[k] = cause[k]
        \/ state[k] = "Unloaded" /\ state'[k] = "Failed" /\ cause'[k] = "bytecode"
  BY DEF LoaderInv, TypeOK, Add, Loaded
<1> QED
  BY <1>1, <1>2, <1>3, OutsideKeeps DEF Add, callVars

LEMMA AddImportAliasKeeps ==
  ASSUME LoaderInv, NEW a \in Alias, AddImportAlias(a)
  PROVE  LoaderInv'
<1>1. TypeOK'
  BY DEF LoaderInv, TypeOK, AddImportAlias, callVars
<1>2. LoadedTogether'
  BY DEF AddImportAlias, LoadedTogether, Busy
<1> QED
  BY <1>1, <1>2, OutsideKeeps DEF AddImportAlias, callVars

LEMMA LinkedStatesAre ==
  ASSUME TypeOK
  PROVE  /\ LinkedStates \in [Modules -> States]
         /\ \A m \in Modules :
              \/ LinkedStates[m] = state[m]
              \/ state[m] = "Verified" /\ LinkedStates[m] = "Linked"
BY DEF TypeOK, LinkedStates, States

LEMMA LinkModulesKeeps ==
  ASSUME LoaderInv, LinkModules
  PROVE  LoaderInv'
<1>1. TypeOK'
  BY LinkedStatesAre DEF LoaderInv, TypeOK, LinkModules, callVars
<1>2. LoadedTogether'
  BY DEF LinkModules, LoadedTogether, Busy
<1> QED
  BY <1>1, <1>2, LinkedStatesAre, OutsideKeeps DEF LinkModules, callVars, LoaderInv

LEMMA InitializeKeeps ==
  ASSUME LoaderInv, NEW asked \in SUBSET Modules, Initialize(asked)
  PROVE  LoaderInv'
<1>1. TypeOK'
  BY LinkedStatesAre DEF LoaderInv, TypeOK, Initialize
<1>2. /\ ~Busy /\ stack' = stack /\ raised' = raised /\ program' = program
      /\ cause' = cause /\ runs' = runs /\ order' = order
  BY DEF Initialize
<1>3. CASE Linkable
  <2>1. state' = LinkedStates
    BY <1>3 DEF Initialize
  <2>2. Loaded' = Loaded
    BY <2>1, LinkedStatesAre DEF Loaded, LoaderInv
  <2>3. \A m \in Loaded : ToSet(Deps(m)) \subseteq Loaded
    BY <1>3 DEF Linkable
  <2>4. \A m : Deps(m)' = Deps(m)
    BY <1>2 DEF Deps
  <2>5. LoadedTogether'
    BY <2>2, <2>3, <2>4 DEF LoadedTogether
  <2> QED
    BY <1>1, <1>2, <2>1, <2>5, LinkedStatesAre, OutsideKeeps DEF LoaderInv
<1>4. CASE ~Linkable
  <2>1. state' = state /\ answer' = "failed"
    BY <1>4 DEF Initialize
  <2> QED
    BY <1>1, <1>2, <2>1, OutsideKeeps DEF LoadedTogether, Busy
<1> QED
  BY <1>3, <1>4

LEMMA ReturnKeeps ==
  ASSUME LoaderInv, Return
  PROVE  LoaderInv'
<1> USE DEF LoaderInv
<1>1. TypeOK' /\ LoadedTogether' /\ Quiet' /\ stack' = <<>> /\ ~Busy'
  BY DEF Return, TypeOK, LoadedTogether, Quiet, Busy, InGoal
<1>2. StackInv' /\ FailedBelow'
  BY <1>1, EmptyStack
<1>3. Lasting /\ ReadySame /\ RunsOnce'
  BY DEF Return, Lasting, ReadySame, RunsOnce
<1>4. DependenciesFirst'
  BY <1>3, OrderStays DEF Return
<1>5. FailuresExplained'
  <2>1. /\ OnStack' = OnStack
        /\ \A m : Deps(m)' = Deps(m) /\ DependsOn(m)' = DependsOn(m)
    BY SameProgram DEF Return, OnStack
  <2> QED
    BY <1>1, <2>1 DEF Return, FailuresExplained
<1> QED
  BY <1>1, <1>2, <1>3, <1>4, <1>5
-----------------------------------------------------------------------------
(* The steps of initialize_dfs *)

LEMMA InsideKeeps ==
  ASSUME LoaderInv, Busy, answer' = answer, raised' \in BOOLEAN, Lasting, TypeOK',
         \A m \in Modules : state[m] = "Unloaded" <=> state'[m] = "Unloaded",
         StackInv', FailedBelow', DependenciesFirst', RunsOnce', AllExplained'
  PROVE  LoaderInv'
<1>1. Loaded' = Loaded /\ Busy' /\ \A m : Deps(m)' = Deps(m)
  BY DEF Loaded, Busy, Deps, Lasting
<1>2. LoadedTogether' /\ Quiet'
  BY <1>1 DEF LoaderInv, LoadedTogether, Quiet
<1>3. FailuresExplained'
  BY <1>1 DEF AllExplained, FailuresExplained, Explained
<1> QED
  BY <1>2, <1>3 DEF LoaderInv

LEMMA TopFrame ==
  ASSUME LoaderInv, stack # <<>>
  PROVE  /\ Len(stack) \in Nat \ {0} /\ DOMAIN stack = 1..Len(stack)
         /\ Len(stack) \in DOMAIN stack
         /\ Top = stack[Len(stack)] /\ Top \in Frame
         /\ Top.module = At(Len(stack)) /\ Top.module \in Modules
         /\ Top.next \in Nat \ {0} /\ Deps(Top.module) \in Seq(Modules)
<1>1. stack \in Seq(Frame)
  BY DEF LoaderInv, TypeOK
<1>2. Len(stack) \in Nat \ {0} /\ Top = stack[Len(stack)] /\ Top \in Frame
  BY <1>1, FrontIs DEF Top
<1>3. DOMAIN stack = 1..Len(stack)
  BY <1>1, LenProperties
<1> QED
  BY <1>2, <1>3, DepsType DEF LoaderInv, At, Frame

LEMMA WantsIs ==
  ASSUME LoaderInv, NEW d \in Modules, Wants(d), stack # <<>>
  PROVE  /\ Top.next \in DOMAIN Deps(Top.module)
         /\ d = Deps(Top.module)[Top.next]
         /\ d \in ToSet(Deps(Top.module))
         /\ state[d] # "Unloaded"
<1>1. /\ Top.next <= Len(Deps(Top.module)) /\ d = Deps(Top.module)[Top.next]
      /\ Busy /\ ~raised
  BY DEF Wants, InGoal, Running
<1>2. Top.next \in DOMAIN Deps(Top.module)
  BY <1>1, TopFrame, LenProperties
<1>3. d \in ToSet(Deps(Top.module))
  BY <1>1, <1>2 DEF ToSet
<1>4. state[Top.module] = "Initializing"
  BY <1>1, TopFrame DEF LoaderInv, StackInv, FramesInitializing
<1>5. d \in Loaded
  BY <1>1, <1>3, <1>4, TopFrame DEF LoaderInv, LoadedTogether, Loaded
<1> QED
  BY <1>1, <1>2, <1>3, <1>5 DEF Loaded

FirstFrames(rest) ==
  /\ rest \in Seq(Frame)
  /\ Len(rest) <= Len(stack)
  /\ \A i \in 1..Len(rest) : rest[i] = stack[i]

LEMMA WholeStack ==
  ASSUME TypeOK
  PROVE  FirstFrames(stack)
BY LenProperties DEF TypeOK, FirstFrames

LEMMA FrontStack ==
  ASSUME TypeOK, stack # <<>>
  PROVE  FirstFrames(Front(stack)) /\ Len(Front(stack)) = Len(stack) - 1
BY FrontIs, LenProperties DEF TypeOK, FirstFrames

LEMMA ReturnsFalseKeeps ==
  ASSUME TypeOK, StackInv, Lasting, NEW rest, FirstFrames(rest), stack' = rest,
         FramesInitializing'
  PROVE  StackInv'
<1>1. /\ DOMAIN stack = 1..Len(stack) /\ Len(stack) \in Nat
      /\ DOMAIN stack' = 1..Len(stack') /\ Len(stack') \in Nat
  BY LenProperties DEF TypeOK, FirstFrames
<1>2. Beginning
  BY <1>1 DEF Beginning, FirstFrames, At
<1>3. LastLooked'
  <2> SUFFICES ASSUME NEW i \in DOMAIN stack' PROVE Looked(i)'
    BY DEF LastLooked
  <2>1. i \in DOMAIN stack /\ stack'[i] = stack[i]
    BY <1>1 DEF FirstFrames
  <2> QED
    BY <2>1, LookedStays DEF StackInv, FramesLooked
<1> QED
  BY <1>2, <1>3, BeginningKeeps

\* Frame i looks at a dependency that is initialised after the step.
Satisfied(i) ==
  /\ stack[i].next \in DOMAIN Deps(At(i))
  /\ state'[Deps(At(i))[stack[i].next]] = "Ready"

LEMMA ReturnsTrueKeeps ==
  ASSUME TypeOK, StackInv, Lasting, NEW rest, FirstFrames(rest), ReturnsTrue(rest),
         rest # <<>> => Satisfied(Len(rest)),
         FramesInitializing'
  PROVE  StackInv'
<1>1. CASE rest = <<>>
  BY <1>1, EmptyStack DEF ReturnsTrue
<1>2. CASE rest # <<>>
  <2> DEFINE n == Len(rest)
  <2>1. stack' = Bumped(rest) /\ rest \in Seq(Frame)
    BY <1>2 DEF ReturnsTrue, FirstFrames, Bumped
  <2>2. /\ stack' \in Seq(Frame) /\ Len(stack') = n
        /\ \A i \in 1..n : stack'[i].module = rest[i].module
        /\ \A i \in 1..(n - 1) : stack'[i] = rest[i]
        /\ stack'[n].next = rest[n].next + 1
    BY <1>2, <2>1, BumpProperties
  <2>3. /\ n \in Nat \ {0} /\ n <= Len(stack) /\ Len(stack) \in Nat
        /\ DOMAIN stack = 1..Len(stack) /\ DOMAIN stack' = 1..n
        /\ n \in DOMAIN stack
        /\ \A i \in 1..n : rest[i] = stack[i]
    BY <1>2, <2>2, LenProperties, EmptySeq DEF TypeOK, FirstFrames
  <2> HIDE DEF n
  <2>4. Beginning
    BY <2>2, <2>3 DEF Beginning, At
  <2>5. Looked(n)'
    <3>1. /\ At(n) \in Modules /\ stack[n].next \in Nat \ {0}
          /\ Deps(At(n)) \in Seq(Modules)
      BY <2>3, FrameType
    <3>2. At(n)' = At(n) /\ stack'[n].next = stack[n].next + 1
      BY <2>2, <2>3 DEF At
    <3>3. Deps(At(n))' = Deps(At(n))
      BY <3>2 DEF Deps, Lasting
    <3>4. Satisfied(n) /\ Looked(n)
      BY <1>2, <2>3 DEF n, StackInv, FramesLooked
    <3>5. stack'[n].next <= Len(Deps(At(n))) + 1
      BY <3>1, <3>2, <3>4, LenProperties DEF Satisfied
    <3>6. ASSUME NEW k \in 1..stack[n].next
          PROVE  state'[Deps(At(n))[k]] = "Ready"
      <4>1. CASE k = stack[n].next
        BY <4>1, <3>4 DEF Satisfied
      <4>2. CASE k \in 1..(stack[n].next - 1)
        <5>1. state[Deps(At(n))[k]] = "Ready" /\ k \in 1..Len(Deps(At(n)))
          BY <4>2, <3>1, <3>4 DEF Looked
        <5>2. Deps(At(n))[k] \in Modules
          BY <5>1, <3>1
        <5> QED
          BY <5>1, <5>2 DEF Lasting
      <4> QED
        BY <4>1, <4>2, <3>1
    <3> QED
      BY <3>1, <3>2, <3>3, <3>5, <3>6 DEF Looked
  <2>6. LastLooked'
    BY <2>2, <2>5 DEF LastLooked
  <2> QED
    BY <2>4, <2>6, BeginningKeeps
<1> QED
  BY <1>1, <1>2

\* The frames that are left are those of rest, for the same modules.
Leaves(rest) ==
  /\ Len(rest) \in Nat /\ Len(rest) <= Len(stack)
  /\ DOMAIN stack = 1..Len(stack) /\ Len(stack) \in Nat
  /\ stack' \in Seq(Frame) /\ DOMAIN stack' = 1..Len(rest)
  /\ \A i \in 1..Len(rest) : At(i)' = At(i)

LEMMA ReturnsTrueLeaves ==
  ASSUME TypeOK, NEW rest, FirstFrames(rest), ReturnsTrue(rest)
  PROVE  Leaves(rest) /\ goals' \in SUBSET Modules
<1>1. goals' \in SUBSET Modules
  BY DEF TypeOK, ReturnsTrue
<1>2. /\ Len(rest) \in Nat /\ Len(rest) <= Len(stack) /\ rest \in Seq(Frame)
      /\ DOMAIN stack = 1..Len(stack) /\ Len(stack) \in Nat
      /\ DOMAIN rest = 1..Len(rest)
      /\ \A i \in 1..Len(rest) : rest[i] = stack[i]
  BY LenProperties DEF TypeOK, FirstFrames
<1>3. CASE rest = <<>>
  <2>1. stack' = rest
    BY <1>3 DEF ReturnsTrue
  <2> QED
    BY <1>1, <1>2, <2>1 DEF Leaves, At
<1>4. CASE rest # <<>>
  <2>1. stack' = Bumped(rest)
    BY <1>4 DEF ReturnsTrue, Bumped
  <2>2. /\ stack' \in Seq(Frame) /\ Len(stack') = Len(rest)
        /\ \A i \in 1..Len(rest) : stack'[i].module = rest[i].module
    BY <1>2, <1>4, <2>1, BumpProperties
  <2>3. DOMAIN stack' = 1..Len(rest)
    BY <2>2, LenProperties
  <2> QED
    BY <1>1, <1>2, <2>2, <2>3 DEF Leaves, At
<1> QED
  BY <1>3, <1>4

LEMMA StackLeaves ==
  ASSUME TypeOK, NEW rest, FirstFrames(rest), stack' = rest
  PROVE  Leaves(rest)
BY LenProperties DEF TypeOK, FirstFrames, Leaves, At

LEMMA LeavesAll ==
  ASSUME Leaves(stack)
  PROVE  OnStack' = OnStack
<1>1. DOMAIN stack' = DOMAIN stack /\ \A i \in DOMAIN stack : At(i)' = At(i)
  BY DEF Leaves
<1> QED
  BY <1>1 DEF OnStack, At

\* The states stay as they are.
LEMMA NothingFails ==
  ASSUME LoaderInv, program' = program, state' = state, cause' = cause, runs' = runs,
         order' = order, OnStack' = OnStack
  PROVE  Lasting /\ DependenciesFirst' /\ RunsOnce' /\ AllExplained'
<1> USE DEF LoaderInv
<1>1. Lasting /\ ReadySame /\ RunsOnce'
  BY DEF Lasting, ReadySame, RunsOnce
<1>2. DependenciesFirst'
  BY <1>1, OrderStays
<1>3. AllExplained'
  <2> SUFFICES ASSUME NEW m \in Modules PROVE Explained(m)'
    BY DEF AllExplained
  <2>1. Explained(m)
    BY FailuresAreExplained DEF AllExplained
  <2> QED
    BY <1>1, <2>1, ExplanationStays DEF Explained
<1> QED
  BY <1>1, <1>2, <1>3

LEMMA FindReadyKeeps ==
  ASSUME LoaderInv, NEW d \in Modules, FindReady(d)
  PROVE  LoaderInv'
<1> USE DEF LoaderInv
<1>1. /\ Wants(d) /\ state[d] = "Ready" /\ ReturnsTrue(stack)
      /\ program' = program /\ state' = state /\ cause' = cause /\ runs' = runs
      /\ order' = order /\ aliases' = aliases /\ raised' = raised
      /\ answer' = answer /\ Busy /\ ~raised
  BY DEF FindReady, Wants, Running
<1>2. FirstFrames(stack) /\ Leaves(stack) /\ goals' \in SUBSET Modules
  BY <1>1, WholeStack, ReturnsTrueLeaves
<1>3. TypeOK'
  BY <1>1, <1>2 DEF TypeOK, Leaves
<1>4. Lasting /\ DependenciesFirst' /\ RunsOnce' /\ AllExplained'
  BY <1>1, <1>2, LeavesAll, NothingFails
<1>5. FramesInitializing'
  BY <1>1, <1>2 DEF StackInv, FramesInitializing, Leaves
<1>6. stack # <<>> => Satisfied(Len(stack))
  BY <1>1, WantsIs, TopFrame DEF Satisfied
<1>7. StackInv'
  BY <1>1, <1>2, <1>4, <1>5, <1>6, ReturnsTrueKeeps
<1>8. FailedBelow'
  BY <1>1 DEF FailedBelow
<1> QED
  BY <1>1, <1>3, <1>4, <1>7, <1>8, InsideKeeps DEF TypeOK

LEMMA FindUnusableKeeps ==
  ASSUME LoaderInv, NEW d \in Modules, FindUnusable(d)
  PROVE  LoaderInv'
<1> USE DEF LoaderInv
<1>1. /\ Wants(d) /\ state[d] \in {"Failed", "Unloaded"}
      /\ stack' = stack /\ raised' = TRUE
      /\ program' = program /\ state' = state /\ cause' = cause /\ runs' = runs
      /\ order' = order /\ aliases' = aliases /\ goals' = goals
      /\ answer' = answer /\ Busy /\ ~raised
  BY DEF FindUnusable, Wants, Running, ReturnsFalse
<1>2. TypeOK'
  BY <1>1 DEF TypeOK
<1>3. FirstFrames(stack) /\ Leaves(stack)
  BY <1>1, WholeStack, StackLeaves
<1>4. Lasting /\ DependenciesFirst' /\ RunsOnce' /\ AllExplained'
  BY <1>1, <1>3, LeavesAll, NothingFails
<1>5. FramesInitializing'
  BY <1>1, <1>3 DEF StackInv, FramesInitializing, Leaves
<1>6. StackInv'
  BY <1>1, <1>3, <1>4, <1>5, ReturnsFalseKeeps
<1>7. FailedBelow'
  <2> SUFFICES ASSUME stack # <<>>
               PROVE  (\E e \in ToSet(Deps(Top.module)) : state[e] = "Failed")'
    BY <1>1 DEF FailedBelow
  <2>1. d \in ToSet(Deps(Top.module)) /\ state[d] = "Failed"
    BY <1>1, WantsIs
  <2>2. Deps(Top.module)' = Deps(Top.module)
    BY <1>1 DEF Deps, Top
  <2> QED
    BY <1>1, <2>1, <2>2
<1> QED
  BY <1>1, <1>2, <1>4, <1>6, <1>7, InsideKeeps DEF TypeOK

\* The modules of a cycle are under initialisation, and depend on themselves.
LEMMA CycleProperties ==
  ASSUME LoaderInv, NEW d \in Modules, Wants(d), state[d] = "Initializing"
  PROVE  /\ stack # <<>> /\ d \in Cycle(d)
         /\ \A m \in Cycle(d) :
              m \in Modules /\ state[m] = "Initializing" /\ m \in DependsOn(m)
<1> USE DEF LoaderInv
<1>1. PICK n \in DOMAIN stack : At(n) = d
  BY FailuresAreExplained DEF AllExplained, Explained, OnStack, At
<1>2. stack # <<>> /\ DOMAIN stack = 1..Len(stack)
  BY <1>1, EmptySeq, LenProperties DEF TypeOK
<1>3. d \in Cycle(d)
  BY <1>1, <1>2 DEF Cycle, At
<1>4. ASSUME NEW m \in Cycle(d)
      PROVE  m \in Modules /\ state[m] = "Initializing" /\ m \in DependsOn(m)
  <2> DEFINE t == Top.module
             l == Len(stack)
  <2>1. PICK i \in DOMAIN stack : m = At(i) /\ \E k \in 1..i : At(k) = d
    BY DEF Cycle, At
  <2>2. PICK k \in 1..i : At(k) = d
    BY <2>1
  <2>3. k \in DOMAIN stack /\ k <= i /\ i <= l /\ l \in DOMAIN stack /\ t = At(l)
    BY <1>2, <2>1, <2>2, TopFrame
  <2>4. m \in Modules /\ state[m] = "Initializing"
    BY <2>1, FrameType DEF StackInv, FramesInitializing, Wants, Running
  <2> HIDE DEF t, l
  <2>5. d \in DependsOn(t)
    BY <1>2, WantsIs, TopFrame, DirectDependency DEF t
  <2>6. t = m \/ t \in DependsOn(m)
    BY <2>1, <2>3, <1>2, TopFrame DEF StackInv, FramesPath, l
  <2>7. m = d \/ m \in DependsOn(d)
    BY <1>2, <2>1, <2>2, <2>3 DEF StackInv, FramesPath
  <2>8. d \in DependsOn(m)
    BY <2>5, <2>6, DependencyOfDependency
  <2> QED
    BY <2>4, <2>7, <2>8, DependencyOfDependency
<1> QED
  BY <1>2, <1>3, <1>4

LEMMA FindCycleKeeps ==
  ASSUME LoaderInv, NEW d \in Modules, FindCycle(d)
  PROVE  LoaderInv'
<1> USE DEF LoaderInv
<1>1. /\ Wants(d) /\ state[d] = "Initializing"
      /\ state' = [m \in Modules |-> IF m \in Cycle(d) THEN "Failed" ELSE state[m]]
      /\ cause' = [m \in Modules |-> IF m \in Cycle(d) THEN "cycle" ELSE cause[m]]
      /\ stack' = stack /\ raised' = TRUE
      /\ program' = program /\ runs' = runs
      /\ order' = order /\ aliases' = aliases /\ goals' = goals
      /\ answer' = answer /\ Busy /\ ~raised
  BY DEF FindCycle, Wants, Running, ReturnsFalse
<1>2. TypeOK'
  BY <1>1 DEF TypeOK, States, Causes
<1>3. stack # <<>> /\ d \in Cycle(d)
  BY <1>1, CycleProperties
<1>4. \A m \in Cycle(d) : state[m] = "Initializing" /\ m \in DependsOn(m)
  BY <1>1, CycleProperties
<1>5. \A m \in Modules :
        /\ m \in Cycle(d) => state'[m] = "Failed" /\ cause'[m] = "cycle"
        /\ m \notin Cycle(d) => state'[m] = state[m] /\ cause'[m] = cause[m]
  BY <1>1
<1>6. /\ Lasting /\ ReadySame /\ RunsOnce'
      /\ \A m \in Modules : state[m] = "Unloaded" <=> state'[m] = "Unloaded"
  BY <1>1, <1>4, <1>5 DEF Lasting, ReadySame, RunsOnce
<1>7. DependenciesFirst'
  BY <1>1, <1>6, OrderStays
<1>8. FirstFrames(stack) /\ Leaves(stack) /\ OnStack' = OnStack
  BY <1>1, WholeStack, StackLeaves, LeavesAll
<1>9. FramesInitializing'
  <2> SUFFICES ASSUME NEW i \in DOMAIN stack
               PROVE  state'[At(i)] \in {"Initializing", "Failed"}
    BY <1>1 DEF FramesInitializing, At
  <2>1. At(i) \in Modules /\ state[At(i)] = "Initializing"
    BY <1>1, FrameType DEF StackInv, FramesInitializing
  <2> QED
    BY <1>5, <2>1
<1>10. StackInv'
  BY <1>1, <1>6, <1>8, <1>9, ReturnsFalseKeeps
<1>11. FailedBelow'
  <2>1. d \in ToSet(Deps(Top.module)) /\ state'[d] = "Failed"
    BY <1>1, <1>3, <1>5, WantsIs
  <2>2. Deps(Top.module)' = Deps(Top.module)
    BY <1>1 DEF Deps, Top
  <2> QED
    BY <2>1, <2>2 DEF FailedBelow
<1>12. AllExplained'
  <2> SUFFICES ASSUME NEW m \in Modules PROVE Explained(m)'
    BY DEF AllExplained
  <2>1. Explained(m)
    BY FailuresAreExplained DEF AllExplained
  <2>2. CASE m \notin Cycle(d)
    BY <1>5, <1>6, <1>8, <2>1, <2>2, ExplanationStays DEF Explained
  <2>3. CASE m \in Cycle(d)
    <3>1. m \in DependsOn(m) /\ DependsOn(m)' = DependsOn(m)
      BY <1>1, <1>4, <2>3, SameProgram
    <3> QED
      BY <1>5, <2>3, <3>1 DEF Explained
  <2> QED
    BY <2>2, <2>3
<1> QED
  BY <1>1, <1>2, <1>6, <1>7, <1>10, <1>11, <1>12, InsideKeeps DEF TypeOK

LEMMA BeginKeeps ==
  ASSUME LoaderInv, NEW d \in Modules, Begin(d)
  PROVE  LoaderInv'
<1> USE DEF LoaderInv
<1> DEFINE f == [module |-> d, next |-> 1]
<1>0. PICK l \in Nat : l = Len(stack)
  BY LenProperties DEF TypeOK
<1>1. /\ Wants(d) /\ state[d] = "Linked" /\ state' = [state EXCEPT ![d] = "Initializing"]
      /\ stack' = Append(stack, f)
      /\ program' = program /\ cause' = cause /\ runs' = runs
      /\ order' = order /\ aliases' = aliases /\ goals' = goals
      /\ answer' = answer /\ Busy /\ ~raised /\ raised' = raised
  BY DEF Begin, Wants, Running
<1>2. f \in Frame /\ f.module = d /\ f.next = 1
  BY DEF Frame
<1> HIDE DEF f
<1>3. /\ stack' \in Seq(Frame) /\ Len(stack') = l + 1 /\ stack' # <<>>
      /\ \A i \in 1..l : stack'[i] = stack[i]
      /\ stack'[l + 1] = f
  <2>1. stack \in Seq(Frame)
    BY DEF TypeOK
  <2> QED
    BY <1>0, <1>1, <1>2, <2>1, PushIs
<1>4. l = Len(stack) /\ DOMAIN stack = 1..l /\ DOMAIN stack' = 1..(l + 1)
  BY <1>0, <1>3, LenProperties DEF TypeOK
<1>5. /\ \A i \in 1..l : i \in DOMAIN stack /\ At(i)' = At(i) /\ At(i) \in Modules
      /\ At(l + 1)' = d
  BY <1>2, <1>3, <1>4, FrameType DEF At
<1>6. \A i \in 1..l : state[At(i)] = "Initializing" /\ At(i) # d
  BY <1>1, <1>4 DEF StackInv, FramesInitializing
<1>7. /\ state'[d] = "Initializing"
      /\ \A m \in Modules : m # d => state'[m] = state[m]
  BY <1>1 DEF TypeOK
<1>8. TypeOK'
  BY <1>1, <1>3 DEF TypeOK, States
<1>9. /\ Lasting /\ ReadySame /\ RunsOnce'
      /\ \A m \in Modules : state[m] = "Unloaded" <=> state'[m] = "Unloaded"
  BY <1>1, <1>7 DEF Lasting, ReadySame, RunsOnce
<1>10. DependenciesFirst'
  BY <1>1, <1>9, OrderStays
<1>11. FramesDistinct' /\ FramesInitializing'
  BY <1>4, <1>5, <1>6, <1>7 DEF StackInv, FramesDistinct, FramesInitializing
<1>12. FramesLooked'
  <2> SUFFICES ASSUME NEW i \in 1..(l + 1) PROVE Looked(i)'
    BY <1>4 DEF FramesLooked
  <2>1. CASE i = l + 1
    <3>1. stack'[i].next = 1 /\ At(i)' = d /\ Deps(d) \in Seq(Modules)
      BY <1>2, <1>3, <1>5, <2>1, DepsType
    <3>2. (Deps(At(i)))' = Deps(d)
      BY <1>1, <3>1 DEF Deps
    <3>3. 1..(stack'[i].next - 1) = {} /\ stack'[i].next <= Len(Deps(d)) + 1
      BY <3>1, LenProperties
    <3> QED
      BY <3>2, <3>3 DEF Looked
  <2>2. CASE i \in 1..l
    BY <2>2, <1>3, <1>4, <1>9, LookedStays DEF StackInv, FramesLooked
  <2> QED
    BY <1>4, <2>1, <2>2
<1>13. FramesWait'
  <2> SUFFICES ASSUME NEW i \in 1..l PROVE Waits(i)'
    BY <1>3, <1>4 DEF FramesWait
  <2>1. /\ Deps(At(i))' = Deps(At(i)) /\ stack'[i] = stack[i] /\ At(i)' = At(i)
    BY <1>1, <1>3, <1>5 DEF Deps
  <2>2. CASE i = l
    <3>1. stack # <<>> /\ Top.module = At(i) /\ Top.next = stack[i].next
      BY <1>4, <2>2, TopFrame, EmptySeq
    <3>2. stack[i].next \in DOMAIN Deps(At(i)) /\ d = Deps(At(i))[stack[i].next]
      BY <1>1, <3>1, WantsIs
    <3> QED
      BY <1>5, <2>1, <2>2, <3>2 DEF Waits
  <2>3. CASE i \in 1..(l - 1)
    <3>1. Waits(i) /\ At(i + 1)' = At(i + 1)
      BY <1>4, <1>5, <2>3 DEF StackInv, FramesWait
    <3> QED
      BY <2>1, <3>1 DEF Waits
  <2> QED
    BY <1>4, <2>2, <2>3
<1>14. FramesPath'
  <2> SUFFICES ASSUME NEW i \in 1..(l + 1), NEW j \in 1..(l + 1), i < j
               PROVE  At(j)' \in DependsOn(At(i))'
    BY <1>4 DEF FramesPath
  <2>1. i \in 1..l /\ At(i)' = At(i)
    BY <1>4, <1>5
  <2>2. DependsOn(At(i))' = DependsOn(At(i))
    BY <2>1, <1>1 DEF DependsOn, Deps
  <2>3. CASE j \in 1..l
    BY <1>4, <1>5, <2>1, <2>2, <2>3 DEF StackInv, FramesPath
  <2>4. CASE j = l + 1
    <3>1. stack # <<>> /\ Top.module = At(l) /\ l \in DOMAIN stack
      BY <1>4, <2>1, TopFrame, EmptySeq
    <3>2. d \in DependsOn(At(l))
      BY <1>1, <3>1, WantsIs, TopFrame, DirectDependency
    <3>3. i = l \/ At(l) \in DependsOn(At(i))
      BY <1>4, <2>1, <3>1 DEF StackInv, FramesPath
    <3>4. d \in DependsOn(At(i))
      BY <3>2, <3>3, DependencyOfDependency
    <3> QED
      BY <1>5, <2>2, <2>4, <3>4
  <2> QED
    BY <1>4, <2>3, <2>4
<1>15. StackInv' /\ FailedBelow'
  BY <1>1, <1>11, <1>12, <1>13, <1>14 DEF StackInv, FailedBelow
<1>16. AllExplained'
  <2> SUFFICES ASSUME NEW m \in Modules PROVE Explained(m)'
    BY DEF AllExplained
  <2>1. Explained(m)
    BY FailuresAreExplained DEF AllExplained
  <2>2. state'[m] = "Initializing" => m \in OnStack'
    <3>1. CASE m = d
      BY <1>4, <1>5, <3>1 DEF OnStack, At
    <3>2. CASE m # d /\ state[m] = "Initializing"
      <4>1. PICK i \in 1..l : At(i) = m
        BY <1>4, <2>1, <3>2 DEF Explained, OnStack, At
      <4> QED
        BY <1>4, <1>5, <4>1 DEF OnStack, At
    <3> QED
      BY <1>7, <3>1, <3>2
  <2>3. state[m] = "Failed" <=> state'[m] = "Failed"
    BY <1>1, <1>7
  <2> QED
    BY <1>1, <1>9, <2>1, <2>2, <2>3, ExplanationStays
<1> QED
  BY <1>1, <1>8, <1>9, <1>10, <1>15, <1>16, InsideKeeps DEF TypeOK

\* The call on top returns, and only the state of its module may change.
LEMMA PopKeeps ==
  ASSUME LoaderInv, stack # <<>>, Leaves(Front(stack)), raised => raised',
         \A k \in Modules : k # Top.module => state'[k] = state[k],
         state'[Top.module] # "Initializing"
  PROVE  /\ FramesInitializing'
         /\ \A k \in Modules : state'[k] = "Initializing" => k \in OnStack'
<1> USE DEF LoaderInv
<1>1. PICK n \in Nat : n = Len(Front(stack))
  BY DEF Leaves
<1>2. /\ Len(stack) = n + 1 /\ DOMAIN stack = 1..(n + 1) /\ DOMAIN stack' = 1..n
      /\ \A i \in 1..n : At(i)' = At(i)
      /\ Top.module = At(n + 1)
  <2>1. Len(stack) = n + 1 /\ DOMAIN stack = 1..(n + 1) /\ Top.module = At(n + 1)
    BY <1>1, FrontStack, TopFrame
  <2>2. DOMAIN stack' = 1..n /\ \A i \in 1..n : At(i)' = At(i)
    BY <1>1 DEF Leaves
  <2> QED
    BY <2>1, <2>2
<1>3. \A i \in 1..n : At(i) \in Modules /\ At(i) # Top.module
  <2> SUFFICES ASSUME NEW i \in 1..n PROVE At(i) \in Modules /\ At(i) # At(n + 1)
    BY <1>2
  <2>1. i \in DOMAIN stack /\ n + 1 \in DOMAIN stack /\ i # n + 1
    BY <1>2
  <2> QED
    BY <2>1, FrameType DEF StackInv, FramesDistinct
<1>4. FramesInitializing'
  <2> SUFFICES ASSUME NEW i \in 1..n
               PROVE  \/ state'[At(i)] = "Initializing"
                      \/ raised' /\ state'[At(i)] = "Failed"
    BY <1>2 DEF FramesInitializing
  <2>1. state'[At(i)] = state[At(i)] /\ i \in DOMAIN stack
    BY <1>2, <1>3
  <2> QED
    BY <2>1 DEF StackInv, FramesInitializing
<1>5. ASSUME NEW k \in Modules, state'[k] = "Initializing"
      PROVE  k \in OnStack'
  <2>1. k # Top.module /\ state[k] = "Initializing"
    BY <1>5
  <2>2. k \in OnStack
    BY <2>1, FailuresAreExplained DEF AllExplained, Explained
  <2>3. PICK i \in 1..(n + 1) : k = At(i)
    BY <1>2, <2>2 DEF OnStack, At
  <2>4. i \in 1..n
    BY <1>2, <2>1, <2>3
  <2> QED
    BY <1>2, <2>3, <2>4 DEF OnStack, At
<1> QED
  BY <1>4, <1>5

LEMMA WaitsForTop ==
  ASSUME LoaderInv, stack # <<>>, Front(stack) # <<>>, NEW n, n = Len(Front(stack))
  PROVE  /\ n \in Nat \ {0} /\ Len(stack) = n + 1
         /\ stack[n].next \in DOMAIN Deps(At(n))
         /\ Deps(At(n))[stack[n].next] = Top.module
<1>1. Front(stack) \in Seq(Frame) /\ Len(stack) = n + 1
  BY FrontStack, TopFrame DEF LoaderInv, FirstFrames
<1>2. n \in Nat \ {0}
  BY <1>1, EmptySeq, LenProperties
<1>3. Waits(n) /\ At(n + 1) = Top.module
  BY <1>1, <1>2, TopFrame DEF LoaderInv, StackInv, FramesWait
<1> QED
  BY <1>1, <1>2, <1>3 DEF Waits

\* A call returns false, and its module has failed.
LEMMA PopFailed ==
  ASSUME LoaderInv, Busy, stack # <<>>, ReturnsFalse(Front(stack)), Lasting,
         state \in [Modules -> States],
         \A k \in Modules : k # Top.module => state'[k] = state[k],
         state'[Top.module] = "Failed"
  PROVE  /\ stack' \in Seq(Frame) /\ StackInv' /\ FailedBelow'
         /\ \A k \in Modules : state'[k] = "Initializing" => k \in OnStack'
<1> USE DEF LoaderInv
<1>1. /\ stack' = Front(stack) /\ raised' = TRUE /\ program' = program
      /\ FirstFrames(Front(stack)) /\ Leaves(Front(stack))
  BY FrontStack, StackLeaves DEF ReturnsFalse, Lasting
<1>2. /\ FramesInitializing'
      /\ \A k \in Modules : state'[k] = "Initializing" => k \in OnStack'
  BY <1>1, PopKeeps
<1>3. StackInv'
  BY <1>1, <1>2, ReturnsFalseKeeps
<1>4. FailedBelow'
  <2> SUFFICES ASSUME stack' # <<>>
               PROVE  (\E e \in ToSet(Deps(Top.module)) : state[e] = "Failed")'
    BY DEF FailedBelow
  <2>1. PICK n : n = Len(Front(stack))
    OBVIOUS
  <2>2. /\ n \in Nat \ {0} /\ Len(stack) = n + 1
        /\ stack[n].next \in DOMAIN Deps(At(n))
        /\ Deps(At(n))[stack[n].next] = Top.module
    BY <1>1, <2>1, WaitsForTop
  <2>3. /\ stack' = Front(stack) /\ stack'[n] = stack[n]
        /\ Top' = stack'[Len(stack')] /\ Len(stack') = n
    <3>1. Len(Front(stack)) = n /\ \A i \in 1..n : Front(stack)[i] = stack[i]
      BY <2>1, <2>2, FrontIs DEF TypeOK
    <3> QED
      BY <1>1, <2>2, <3>1 DEF Top, Last
  <2>4. Top.module' = At(n) /\ Deps(Top.module)' = Deps(At(n))
    BY <1>1, <2>3 DEF At, Deps
  <2>5. Top.module \in ToSet(Deps(At(n)))
    BY <2>2 DEF ToSet
  <2> QED
    BY <2>4, <2>5
<1> QED
  BY <1>1, <1>2, <1>3, <1>4 DEF Leaves

LEMMA InitFailsKeeps ==
  ASSUME LoaderInv, NEW m \in Modules, InitFails(m)
  PROVE  LoaderInv'
<1> USE DEF LoaderInv
<1>1. /\ stack # <<>> /\ m = Top.module /\ Busy /\ ~raised
      /\ state' = [state EXCEPT ![m] = "Failed"]
      /\ cause' = [cause EXCEPT ![m] = "init"]
      /\ ReturnsFalse(Front(stack)) /\ raised' = TRUE
      /\ program' = program /\ runs' = runs
      /\ order' = order /\ aliases' = aliases /\ goals' = goals /\ answer' = answer
  BY DEF InitFails, Running, InGoal, Fails, ReturnsFalse
<1>2. state[m] = "Initializing"
  BY <1>1, TopFrame DEF StackInv, FramesInitializing
<1>3. /\ state'[m] = "Failed" /\ cause'[m] = "init"
      /\ \A k \in Modules : k # m => state'[k] = state[k] /\ cause'[k] = cause[k]
  BY <1>1 DEF TypeOK
<1>4. /\ Lasting /\ ReadySame /\ RunsOnce'
      /\ \A k \in Modules : state[k] = "Unloaded" <=> state'[k] = "Unloaded"
  BY <1>1, <1>2, <1>3 DEF Lasting, ReadySame, RunsOnce
<1>5. /\ stack' \in Seq(Frame) /\ StackInv' /\ FailedBelow'
      /\ \A k \in Modules : state'[k] = "Initializing" => k \in OnStack'
  BY <1>1, <1>3, <1>4, PopFailed DEF TypeOK
<1>6. TypeOK'
  BY <1>1, <1>5 DEF TypeOK, States, Causes
<1>7. DependenciesFirst'
  BY <1>1, <1>4, OrderStays
<1>8. AllExplained'
  <2> SUFFICES ASSUME NEW k \in Modules PROVE Explained(k)'
    BY DEF AllExplained
  <2>1. Explained(k)
    BY FailuresAreExplained DEF AllExplained
  <2>2. CASE k = m
    BY <1>3, <2>2 DEF Explained
  <2>3. CASE k # m
    BY <1>3, <1>4, <1>5, <2>1, <2>3, ExplanationStays DEF Explained
  <2> QED
    BY <2>2, <2>3
<1> QED
  BY <1>1, <1>4, <1>5, <1>6, <1>7, <1>8, InsideKeeps

LEMMA UnwindKeeps ==
  ASSUME LoaderInv, NEW m \in Modules, Unwind(m)
  PROVE  LoaderInv'
<1> USE DEF LoaderInv
<1>1. /\ stack # <<>> /\ m = Top.module /\ Busy /\ raised
      /\ stack' = Front(stack) /\ raised' = raised
      /\ program' = program /\ runs' = runs
      /\ order' = order /\ aliases' = aliases /\ goals' = goals /\ answer' = answer
  BY DEF Unwind, InGoal
<1>2. raised' = TRUE /\ ReturnsFalse(Front(stack))
  BY <1>1 DEF TypeOK, ReturnsFalse
<1>3. /\ state'[m] = "Failed"
      /\ state' \in [Modules -> States] /\ cause' \in [Modules -> Causes]
      /\ \A k \in Modules : k # m => state'[k] = state[k] /\ cause'[k] = cause[k]
      /\ IF state[m] = "Failed" THEN cause'[m] = cause[m]
         ELSE state[m] = "Initializing" /\ cause'[m] = "dependency"
  <2>1. state[m] \in {"Initializing", "Failed"}
    BY <1>1, TopFrame DEF StackInv, FramesInitializing
  <2>2. CASE state[m] = "Failed"
    BY <2>2 DEF Unwind, TypeOK
  <2>3. CASE state[m] = "Initializing"
    <3>1. /\ state' = [state EXCEPT ![m] = "Failed"]
          /\ cause' = [cause EXCEPT ![m] = "dependency"]
      BY <2>3 DEF Unwind, Fails
    <3> QED
      BY <2>3, <3>1 DEF TypeOK, States, Causes
  <2> QED
    BY <2>1, <2>2, <2>3
<1>4. /\ Lasting /\ ReadySame /\ RunsOnce'
      /\ \A k \in Modules : state[k] = "Unloaded" <=> state'[k] = "Unloaded"
  BY <1>1, <1>3 DEF Lasting, ReadySame, RunsOnce
<1>5. /\ stack' \in Seq(Frame) /\ StackInv' /\ FailedBelow'
      /\ \A k \in Modules : state'[k] = "Initializing" => k \in OnStack'
  BY <1>1, <1>2, <1>3, <1>4, PopFailed DEF TypeOK
<1>6. TypeOK'
  BY <1>1, <1>3, <1>5 DEF TypeOK
<1>7. DependenciesFirst'
  BY <1>1, <1>4, OrderStays
<1>8. AllExplained'
  <2> SUFFICES ASSUME NEW k \in Modules PROVE Explained(k)'
    BY DEF AllExplained
  <2>1. Explained(k)
    BY FailuresAreExplained DEF AllExplained
  <2>2. CASE cause'[k] = cause[k] /\ (state[k] = "Failed" <=> state'[k] = "Failed")
    BY <1>4, <1>5, <2>1, <2>2, ExplanationStays
  <2>3. CASE k = m /\ cause'[m] = "dependency"
    <3>1. PICK e \in ToSet(Deps(m)) : state[e] = "Failed"
      BY <1>1 DEF FailedBelow
    <3>2. e \in Modules
      BY DepsType DEF ToSet
    <3>3. state'[e] = "Failed" /\ Deps(m)' = Deps(m)
      BY <1>1, <1>4, <3>1, <3>2 DEF Lasting, Deps
    <3> QED
      BY <1>3, <2>3, <3>1, <3>3 DEF Explained
  <2> QED
    BY <1>3, <2>2, <2>3
<1> QED
  BY <1>1, <1>2, <1>4, <1>5, <1>6, <1>7, <1>8, InsideKeeps

LEMMA RunInitKeeps ==
  ASSUME LoaderInv, NEW m \in Modules, RunInit(m)
  PROVE  LoaderInv'
<1> USE DEF LoaderInv
<1>1. /\ stack # <<>> /\ m = Top.module /\ Busy /\ ~raised /\ DepsDone
      /\ state' = [state EXCEPT ![m] = "Ready"]
      /\ runs' = IF m \in program.entries THEN [runs EXCEPT ![m] = @ + 1] ELSE runs
      /\ order' = Append(order, m) /\ ReturnsTrue(Front(stack))
      /\ program' = program /\ cause' = cause /\ aliases' = aliases
      /\ raised' = raised /\ answer' = answer
  BY DEF RunInit, Running, InGoal
<1>2. state[m] = "Initializing"
  BY <1>1, TopFrame DEF StackInv, FramesInitializing
<1>3. state'[m] = "Ready" /\ \A k \in Modules : k # m => state'[k] = state[k]
  BY <1>1 DEF TypeOK
<1>4. /\ Lasting
      /\ \A k \in Modules : state[k] = "Unloaded" <=> state'[k] = "Unloaded"
  BY <1>1, <1>2, <1>3 DEF Lasting
<1>5. FirstFrames(Front(stack)) /\ Leaves(Front(stack)) /\ goals' \in SUBSET Modules
  BY <1>1, FrontStack, ReturnsTrueLeaves
<1>6. /\ FramesInitializing'
      /\ \A k \in Modules : state'[k] = "Initializing" => k \in OnStack'
  BY <1>1, <1>3, <1>5, PopKeeps
<1>7. Front(stack) # <<>> => Satisfied(Len(Front(stack)))
  BY <1>1, <1>3, WaitsForTop DEF Satisfied
<1>8. StackInv' /\ FailedBelow'
  BY <1>1, <1>4, <1>5, <1>6, <1>7, ReturnsTrueKeeps DEF FailedBelow
<1>9. runs[m] = 0 /\ runs' \in [Modules -> {0, 1}] /\ RunsOnce'
  BY <1>1, <1>2, <1>3 DEF TypeOK, RunsOnce
<1>10. /\ order' \in Seq(Modules) /\ Len(order') = Len(order) + 1
       /\ \A i \in 1..Len(order) : order'[i] = order[i]
       /\ order'[Len(order) + 1] = m
       /\ Len(order) \in Nat /\ DOMAIN order = 1..Len(order)
       /\ DOMAIN order' = 1..(Len(order) + 1)
  BY <1>1, AppendProperties, LenProperties DEF TypeOK
<1>11. TypeOK'
  BY <1>1, <1>5, <1>9, <1>10 DEF TypeOK, States, Leaves
<1>12. DependenciesFirst'
  <2>1. ToSet(order) = {k \in Modules : state[k] = "Ready"}
    BY DEF DependenciesFirst
  <2>2. ToSet(order)' = ToSet(order) \cup {m}
    BY <1>10 DEF ToSet
  <2>3. {k \in Modules : state[k] = "Ready"}' = {k \in Modules : state[k] = "Ready"} \cup {m}
    BY <1>3
  <2>4. \A d \in ToSet(Deps(m)) : d \in ToSet(order)
    <3> SUFFICES ASSUME NEW k \in DOMAIN Deps(m) PROVE Deps(m)[k] \in ToSet(order)
      BY DEF ToSet
    <3>1. /\ Deps(m) \in Seq(Modules) /\ k \in 1..Len(Deps(m))
          /\ Len(Deps(m)) \in Nat
      BY DepsType, LenProperties
    <3>2. Looked(Len(stack)) /\ At(Len(stack)) = m /\ Top = stack[Len(stack)]
      BY <1>1, TopFrame DEF StackInv, FramesLooked
    <3>3. k \in 1..(stack[Len(stack)].next - 1)
      BY <1>1, <3>1, <3>2, TopFrame DEF DepsDone
    <3>4. state[Deps(m)[k]] = "Ready"
      BY <3>2, <3>3 DEF Looked
    <3> QED
      BY <2>1, <3>1, <3>4
  <2>5. m \notin ToSet(order)
    BY <1>2, <2>1
  <2>6. ASSUME NEW i \in 1..(Len(order) + 1)
        PROVE  /\ \A d \in ToSet(Deps(order'[i])) : \E j \in 1..(i - 1) : order'[j] = d
               /\ \A j \in 1..(i - 1) : order'[j] # order'[i]
    <3>1. CASE i = Len(order) + 1
      <4>1. \A j \in 1..Len(order) : order'[j] = order[j] /\ order[j] # m
        BY <1>10, <2>5 DEF ToSet
      <4>2. \A d \in ToSet(order) : \E j \in 1..Len(order) : order[j] = d
        BY <1>10 DEF ToSet
      <4>3. i - 1 = Len(order) /\ order'[i] = m
        BY <1>10, <3>1
      <4> HIDE DEF LoaderInv
      <4> QED
        BY <2>4, <4>1, <4>2, <4>3
    <3>2. CASE i \in 1..Len(order)
      BY <1>10, <3>2 DEF DependenciesFirst
    <3> QED
      BY <1>10, <3>1, <3>2
  <2>7. ToSet(order)' = {k \in Modules : state[k] = "Ready"}'
    BY <2>1, <2>2, <2>3
  <2> HIDE DEF LoaderInv
  <2>8. ASSUME NEW i \in DOMAIN order'
        PROVE  /\ \A d \in ToSet(Deps(order[i]))' : \E j \in 1..(i - 1) : order'[j] = d
               /\ \A j \in 1..(i - 1) : order'[j] # order'[i]
    <3>1. Deps(order[i])' = Deps(order'[i])
      BY <1>1 DEF Deps
    <3>2. ToSet(Deps(order[i]))' = ToSet(Deps(order'[i]))
      BY <3>1 DEF ToSet
    <3>3. i \in 1..(Len(order) + 1)
      BY <1>10
    <3> QED
      BY <2>6, <3>2, <3>3
  <2> QED
    BY <2>7, <2>8 DEF DependenciesFirst
<1>13. AllExplained'
  <2> SUFFICES ASSUME NEW k \in Modules PROVE Explained(k)'
    BY DEF AllExplained
  <2>1. Explained(k)
    BY FailuresAreExplained DEF AllExplained
  <2>2. state[k] = "Failed" <=> state'[k] = "Failed"
    BY <1>2, <1>3
  <2> QED
    BY <1>1, <1>4, <1>6, <2>1, <2>2, ExplanationStays
<1> QED
  BY <1>1, <1>4, <1>8, <1>9, <1>11, <1>12, <1>13, InsideKeeps DEF TypeOK
-----------------------------------------------------------------------------
(* The invariant, and what follows from it *)

LEMMA InitHolds ==
  ASSUME Init
  PROVE  LoaderInv
<1>1. stack = <<>> /\ DOMAIN stack = {} /\ 1..(Len(stack) - 1) = {}
  BY EmptySeq, LenProperties DEF Init
<1>2. TypeOK
  BY EmptySeq DEF Init, TypeOK, States, Causes, Alias
<1>3. StackInv /\ FailedBelow /\ Quiet /\ LoadedTogether /\ RunsOnce
  BY <1>1 DEF Init, StackInv, FramesDistinct, FramesInitializing, FramesLooked,
     FramesWait, FramesPath, FailedBelow, Quiet, LoadedTogether, Busy, RunsOnce
<1>4. DependenciesFirst
  <2>1. ToSet(order) = {} /\ DOMAIN order = {}
    BY EmptySeq, LenProperties DEF Init, ToSet
  <2> QED
    BY <2>1 DEF Init, DependenciesFirst
<1>5. FailuresExplained
  BY <1>1 DEF Init, FailuresExplained
<1> QED
  BY <1>2, <1>3, <1>4, <1>5 DEF LoaderInv

LEMMA StutterKeeps ==
  ASSUME LoaderInv, UNCHANGED vars
  PROVE  LoaderInv'
<1> USE DEF LoaderInv
<1>1. /\ program' = program /\ state' = state /\ cause' = cause /\ runs' = runs
      /\ order' = order /\ aliases' = aliases /\ goals' = goals /\ stack' = stack
      /\ raised' = raised /\ answer' = answer
  BY DEF vars
<1>2. TypeOK' /\ OnStack' = OnStack
  BY <1>1 DEF TypeOK, OnStack
<1>3. Lasting /\ DependenciesFirst' /\ RunsOnce' /\ AllExplained'
  BY <1>1, <1>2, NothingFails
<1>4. FramesInitializing'
  BY <1>1 DEF StackInv, FramesInitializing, At
<1>5. StackInv'
  BY <1>1, <1>3, <1>4, WholeStack, ReturnsFalseKeeps
<1>6. /\ Top' = Top /\ Loaded' = Loaded /\ (Busy <=> Busy')
      /\ \A m : Deps(m)' = Deps(m)
  BY <1>1 DEF Top, Loaded, Busy, Deps
<1>7. FailedBelow' /\ LoadedTogether' /\ Quiet'
  BY <1>1, <1>6 DEF FailedBelow, LoadedTogether, Quiet
<1>8. FailuresExplained'
  BY <1>1, <1>3, <1>6 DEF FailuresExplained, AllExplained, Explained
<1> QED
  BY <1>2, <1>3, <1>5, <1>7, <1>8

LEMMA NextHolds ==
  ASSUME LoaderInv, [Next]_vars
  PROVE  LoaderInv'
<1>1. ASSUME NEW m \in Modules, Dfs(m)
      PROVE  LoaderInv'
  BY <1>1, FindReadyKeeps, FindUnusableKeeps, FindCycleKeeps, BeginKeeps,
     RunInitKeeps, InitFailsKeeps, UnwindKeeps DEF Dfs
<1>2. ASSUME NEW m \in Modules, Initialize({m})
      PROVE  LoaderInv'
  BY <1>2, InitializeKeeps
<1>3. CASE Initialize(Loaded)
  BY <1>3, InitializeKeeps DEF Loaded
<1>4. CASE UNCHANGED vars
  BY <1>4, StutterKeeps
<1> QED
  BY <1>1, <1>2, <1>3, <1>4, AddKeeps, AddImportAliasKeeps, LinkModulesKeeps,
     ReturnKeeps DEF Next

LEMMA Invariance == Spec => []LoaderInv
<1>1. Init => LoaderInv
  BY InitHolds
<1>2. LoaderInv /\ [Next]_vars => LoaderInv'
  BY NextHolds
<1> QED
  BY <1>1, <1>2, PTL DEF Spec

\* The records and the search stay well formed; no module is initialised twice, as
\* runs is 0 or 1 (init_runs of src/runtime/module_loader.cpp).
THEOREM InitializedAtMostOnce == Spec => []TypeOK
<1>1. LoaderInv => TypeOK
  BY DEF LoaderInv
<1> QED
  BY <1>1, Invariance, PTL

\* The modules that are Ready are those of init_order, and each comes after all that
\* it depends on, whatever is asked for and whatever fails (initialize_dfs).
THEOREM InitializedInOrder == Spec => []DependenciesFirst
<1>1. LoaderInv => DependenciesFirst
  BY DEF LoaderInv
<1> QED
  BY <1>1, Invariance, PTL

\* A module that failed in a cycle depends on itself, one that failed by a dependency
\* has a failed one, and no call leaves one half initialised (initialize_dfs).
THEOREM FailuresHaveCauses == Spec => []FailuresExplained
<1>1. LoaderInv => FailuresExplained
  BY DEF LoaderInv
<1> QED
  BY <1>1, Invariance, PTL
-----------------------------------------------------------------------------
(* Exports *)

\* What holds of 0 and carries over from each number to the next holds up to m.
LEMMA CountingUp ==
  ASSUME NEW S, NEW m \in Nat, 0 \in S,
         \A n \in 0..(m - 1) : n \in S => n + 1 \in S
  PROVE  m \in S
<1> DEFINE Missing == {n \in 0..m : n \notin S}
<1> SUFFICES ASSUME Missing # {} PROVE FALSE
  OBVIOUS
<1>1. OpToRel(<, Nat) = {ss \in Nat \X Nat : ss[1] < ss[2]}
  BY Zenon DEF OpToRel
<1>2. PICK n \in Missing : \A k \in Missing : ~(<<k, n>> \in OpToRel(<, Nat))
  <2>1. Missing \subseteq Nat
    OBVIOUS
  <2> HIDE DEF Missing
  <2> QED
    BY <2>1, NatLessThanWellFounded, WFMin, Zenon
<1>3. n \in 0..m /\ n # 0
  OBVIOUS
<1>4. n - 1 \notin Missing
  <2>1. <<n - 1, n>> \in {ss \in Nat \X Nat : ss[1] < ss[2]}
    BY <1>3
  <2> HIDE DEF Missing
  <2> QED
    BY <1>1, <1>2, <2>1, Zenon
<1> QED
  BY <1>3, <1>4

\* How many cells a chain of re-exports may still come to.
Ahead(seen) == Cardinality(Cells \ seen)

LEMMA AheadFalls ==
  ASSUME NEW seen \in SUBSET Cells
  PROVE  /\ Ahead(seen) \in 0..Cardinality(Cells)
         /\ Cardinality(Cells) \in Nat
         /\ \A c \in Cells \ seen :
              /\ seen \cup {c} \in SUBSET Cells
              /\ Ahead(seen \cup {c}) = Ahead(seen) - 1
<1>1. IsFiniteSet(Cells) /\ Cardinality(Cells) \in Nat
  BY ModulesNumbered, NamesFinite, FS_Product, FS_CardinalityType DEF Cells
<1>2. IsFiniteSet(Cells \ seen) /\ Cardinality(Cells \ seen) \in 0..Cardinality(Cells)
  <2>1. /\ IsFiniteSet(Cells \ seen)
        /\ Cardinality(Cells \ seen) <= Cardinality(Cells)
        /\ Cardinality(Cells \ seen) \in Nat
    BY <1>1, FS_Subset, FS_CardinalityType
  <2> QED
    BY <1>1, <2>1
<1>3. ASSUME NEW c \in Cells \ seen PROVE Ahead(seen \cup {c}) = Ahead(seen) - 1
  <2>1. Cells \ (seen \cup {c}) = (Cells \ seen) \ {c}
    OBVIOUS
  <2>2. Cardinality((Cells \ seen) \ {c}) = Cardinality(Cells \ seen) - 1
    BY <1>2, FS_RemoveElement
  <2> QED
    BY <2>1, <2>2 DEF Ahead
<1> QED
  BY <1>1, <1>2, <1>3 DEF Ahead

Chains == Cells \X SUBSET Cells

\* What the chain comes to from c, if f says so of the rest of it.
Hop(f, c, seen) ==
  IF c \in seen \/ c[1] \notin Loaded THEN Nowhere
  ELSE CASE program.exports[c] = <<"absent">> -> Nowhere
         [] program.exports[c] = <<"own">> -> c
         [] OTHER -> f[<<program.exports[c], seen \cup {c}>>]

LEMMA ExportsType ==
  ASSUME TypeOK, NEW c \in Cells
  PROVE  program.exports[c] \in {<<"absent">>, <<"own">>} \cup Cells
BY ProgramsKnown DEF TypeOK, ProgramRecord, Targets

\* Two functions that agree on the rest of the chain agree on it all.
LEMMA HopAgrees ==
  ASSUME TypeOK, NEW c \in Cells, NEW seen \in SUBSET Cells, NEW f, NEW g,
         c \notin seen => \A d \in Cells : f[<<d, seen \cup {c}>>] = g[<<d, seen \cup {c}>>]
  PROVE  Hop(f, c, seen) = Hop(g, c, seen)
BY ExportsType DEF Hop

LEMMA ResolutionExists ==
  ASSUME TypeOK
  PROVE  \E f : f = [x \in Chains |-> Hop(f, x[1], x[2])]
<1> DEFINE Solves(f, k) == \A c \in Cells, seen \in SUBSET Cells :
                             Ahead(seen) <= k => f[<<c, seen>>] = Hop(f, c, seen)
           Solved == {k \in Nat : \E f : Solves(f, k)}
           N == Cardinality(Cells)
<1>1. 0 \in Solved
  <2> DEFINE f == [x \in Chains |-> Hop(<<>>, x[1], x[2])]
  <2>1. ASSUME NEW c \in Cells, NEW seen \in SUBSET Cells, Ahead(seen) <= 0
        PROVE  f[<<c, seen>>] = Hop(f, c, seen)
    <3>1. c \in seen
      <4>1. CASE c \notin seen
        <5>1. Ahead(seen \cup {c}) = Ahead(seen) - 1 /\ seen \cup {c} \in SUBSET Cells
          BY <4>1, AheadFalls
        <5>2. Ahead(seen \cup {c}) >= 0
          BY <5>1, AheadFalls
        <5> QED
          BY <2>1, <5>1, <5>2, AheadFalls
      <4> QED
        BY <4>1
    <3> QED
      BY <3>1 DEF Hop, Chains
  <2> HIDE DEF f
  <2> QED
    BY <2>1
<1>2. ASSUME NEW k \in Nat, k \in Solved PROVE k + 1 \in Solved
  <2>1. PICK f : Solves(f, k)
    BY <1>2
  <2> DEFINE g == [x \in Chains |-> Hop(f, x[1], x[2])]
  <2>2. ASSUME NEW c \in Cells, NEW seen \in SUBSET Cells, Ahead(seen) <= k + 1
        PROVE  g[<<c, seen>>] = Hop(g, c, seen)
    <3>1. ASSUME c \notin seen, NEW d \in Cells
          PROVE  f[<<d, seen \cup {c}>>] = g[<<d, seen \cup {c}>>]
      <4>1. Ahead(seen \cup {c}) <= k /\ seen \cup {c} \in SUBSET Cells
        BY <2>2, <3>1, AheadFalls
      <4>2. f[<<d, seen \cup {c}>>] = Hop(f, d, seen \cup {c})
        BY <2>1, <4>1
      <4> QED
        BY <4>1, <4>2 DEF Chains
    <3>2. Hop(f, c, seen) = Hop(g, c, seen)
      <4> HIDE DEF g
      <4> QED
        BY <3>1, HopAgrees
    <3> QED
      BY <3>2 DEF Chains
  <2> HIDE DEF g
  <2>3. Solves(g, k + 1)
    BY <2>2
  <2> QED
    BY <2>3
<1>3. N \in Solved
  <2>1. N \in Nat
    BY AheadFalls
  <2> HIDE DEF Solved, N
  <2> QED
    BY <1>1, <1>2, <2>1, CountingUp
<1>4. PICK f : \A c \in Cells, seen \in SUBSET Cells : f[<<c, seen>>] = Hop(f, c, seen)
  BY <1>3, AheadFalls
<1> DEFINE g == [x \in Chains |-> f[<<x[1], x[2]>>]]
<1>5. ASSUME NEW c \in Cells, NEW seen \in SUBSET Cells
      PROVE  f[<<c, seen>>] = Hop(g, c, seen)
  <2>1. ASSUME c \notin seen, NEW d \in Cells
        PROVE  f[<<d, seen \cup {c}>>] = g[<<d, seen \cup {c}>>]
    BY DEF Chains
  <2>2. Hop(f, c, seen) = Hop(g, c, seen)
    <3> HIDE DEF g
    <3> QED
      BY <2>1, HopAgrees
  <2> QED
    BY <1>4, <2>2
<1>6. g = [x \in Chains |-> Hop(g, x[1], x[2])]
  BY <1>5 DEF Chains
<1> QED
  BY <1>6

LEMMA ResolvedUnfolds ==
  ASSUME TypeOK
  PROVE  \A c \in Cells, seen \in SUBSET Cells :
           Resolved[<<c, seen>>] = Hop(Resolved, c, seen)
<1>1. Resolved = [x \in Chains |-> Hop(Resolved, x[1], x[2])]
  BY ResolutionExists, Zenon DEF Resolved, Hop, Chains
<1>2. ASSUME NEW c \in Cells, NEW seen \in SUBSET Cells
      PROVE  <<c, seen>> \in Chains /\ <<c, seen>>[1] = c /\ <<c, seen>>[2] = seen
  BY DEF Chains
<1> QED
  BY <1>1, <1>2
\* What holds of a chain if it holds of all that may follow holds of every chain.
LEMMA ChainsEnd ==
  ASSUME NEW S,
         \A c \in Cells, seen \in SUBSET Cells :
           (c \notin seen => \A d \in Cells : <<d, seen \cup {c}>> \in S)
             => <<c, seen>> \in S
  PROVE  \A c \in Cells, seen \in SUBSET Cells : <<c, seen>> \in S
<1> DEFINE Short == {k \in Nat : \A c \in Cells, seen \in SUBSET Cells :
                                   Ahead(seen) <= k => <<c, seen>> \in S}
<1>1. 0 \in Short
  <2> SUFFICES ASSUME NEW c \in Cells, NEW seen \in SUBSET Cells, Ahead(seen) <= 0
               PROVE  <<c, seen>> \in S
    OBVIOUS
  <2>1. ASSUME c \notin seen PROVE FALSE
    <3>1. Ahead(seen \cup {c}) = Ahead(seen) - 1 /\ seen \cup {c} \in SUBSET Cells
      BY <2>1, AheadFalls
    <3>2. Ahead(seen \cup {c}) \in Nat /\ Ahead(seen) \in Nat
      BY <3>1, AheadFalls
    <3> QED
      BY <3>1, <3>2
  <2> QED
    BY <2>1
<1>2. ASSUME NEW k \in Nat, k \in Short PROVE k + 1 \in Short
  <2> SUFFICES ASSUME NEW c \in Cells, NEW seen \in SUBSET Cells, Ahead(seen) <= k + 1
               PROVE  <<c, seen>> \in S
    OBVIOUS
  <2>1. ASSUME c \notin seen PROVE Ahead(seen \cup {c}) <= k /\ seen \cup {c} \in SUBSET Cells
    BY <2>1, AheadFalls
  <2> QED
    BY <1>2, <2>1
<1>3. Cardinality(Cells) \in Short
  <2> HIDE DEF Short
  <2> QED
    BY <1>1, <1>2, AheadFalls, CountingUp
<1>4. ASSUME NEW c \in Cells, NEW seen \in SUBSET Cells PROVE <<c, seen>> \in S
  <2>1. Ahead(seen) <= Cardinality(Cells)
    BY AheadFalls
  <2> QED
    BY <1>3, <2>1
<1> QED
  BY <1>4

\* Where the modules of a chain are Ready as soon as the first one is, so is the one
\* at its end.
LEMMA ResolvedReady ==
  ASSUME TypeOK,
         \A c \in Cells : state[c[1]] = "Ready" /\ program.exports[c] \in Cells
                            => state[program.exports[c][1]] = "Ready"
  PROVE  \A c \in Cells, seen \in SUBSET Cells :
           state[c[1]] = "Ready" /\ Resolved[<<c, seen>>] # Nowhere
             => CellReady(Resolved[<<c, seen>>])
<1> DEFINE Good(c, seen) == state[c[1]] = "Ready" /\ Resolved[<<c, seen>>] # Nowhere
                              => CellReady(Resolved[<<c, seen>>])
           All == {x \in Chains : Good(x[1], x[2])}
<1>1. ASSUME NEW c \in Cells, NEW seen \in SUBSET Cells,
             c \notin seen => \A d \in Cells : Good(d, seen \cup {c})
      PROVE  Good(c, seen)
  <2>1. Resolved[<<c, seen>>] = Hop(Resolved, c, seen)
    BY ResolvedUnfolds
  <2>2. CASE program.exports[c] \in {<<"absent">>, <<"own">>}
    BY <2>1, <2>2 DEF Hop, CellReady
  <2>3. CASE /\ program.exports[c] \in Cells
             /\ program.exports[c] \notin {<<"absent">>, <<"own">>}
    BY <1>1, <2>1, <2>3 DEF Hop
  <2> QED
    BY <2>2, <2>3, ExportsType
<1> HIDE DEF Good
<1>2. \A c \in Cells, seen \in SUBSET Cells : <<c, seen>> \in All <=> Good(c, seen)
  BY DEF Chains
<1>3. \A c \in Cells, seen \in SUBSET Cells :
        (c \notin seen => \A d \in Cells : <<d, seen \cup {c}>> \in All)
          => <<c, seen>> \in All
  <2> SUFFICES ASSUME NEW c \in Cells, NEW seen \in SUBSET Cells,
                      c \notin seen => \A d \in Cells : <<d, seen \cup {c}>> \in All
               PROVE  <<c, seen>> \in All
    OBVIOUS
  <2>1. seen \cup {c} \in SUBSET Cells
    OBVIOUS
  <2> HIDE DEF All
  <2> QED
    BY <1>1, <1>2, <2>1
<1>4. \A c \in Cells, seen \in SUBSET Cells : <<c, seen>> \in All
  <2> HIDE DEF All
  <2> QED
    BY <1>3, ChainsEnd
<1>5. \A c \in Cells, seen \in SUBSET Cells : Good(c, seen)
  <2> HIDE DEF All
  <2> QED
    BY <1>2, <1>4
<1> QED
  BY <1>5 DEF Good

\* What can be resolved is the same when more modules are loaded.
LEMMA ResolvedStays ==
  ASSUME TypeOK, TypeOK', program' = program, Loaded \subseteq Loaded'
  PROVE  \A c \in Cells, seen \in SUBSET Cells :
           Resolved[<<c, seen>>] # Nowhere
             => Resolved'[<<c, seen>>] = Resolved[<<c, seen>>]
<1> DEFINE Good(c, seen) == Resolved[<<c, seen>>] # Nowhere
                              => Resolved'[<<c, seen>>] = Resolved[<<c, seen>>]
           All == {x \in Chains : Good(x[1], x[2])}
<1>0. \A c \in Cells, seen \in SUBSET Cells :
        Resolved'[<<c, seen>>] = Hop(Resolved, c, seen)'
  <2>1. (TypeOK => \A c \in Cells, seen \in SUBSET Cells :
                      Resolved[<<c, seen>>] = Hop(Resolved, c, seen))'
    BY ResolvedUnfolds, PTL
  <2> QED
    BY <2>1
<1>1. ASSUME NEW c \in Cells, NEW seen \in SUBSET Cells,
             c \notin seen => \A d \in Cells : Good(d, seen \cup {c})
      PROVE  Good(c, seen)
  <2> SUFFICES ASSUME Resolved[<<c, seen>>] # Nowhere
               PROVE  Resolved'[<<c, seen>>] = Resolved[<<c, seen>>]
    OBVIOUS
  <2>1. /\ Resolved[<<c, seen>>] = Hop(Resolved, c, seen)
        /\ Resolved'[<<c, seen>>] = Hop(Resolved, c, seen)'
    BY <1>0, ResolvedUnfolds
  <2>2. c \notin seen /\ c[1] \in Loaded /\ c[1] \in Loaded'
    BY <2>1 DEF Hop
  <2>3. CASE program.exports[c] \in {<<"absent">>, <<"own">>}
    BY <2>1, <2>2, <2>3 DEF Hop, Nowhere
  <2>4. CASE /\ program.exports[c] \in Cells
             /\ program.exports[c] \notin {<<"absent">>, <<"own">>}
    <3>1. /\ Resolved[<<c, seen>>] = Resolved[<<program.exports[c], seen \cup {c}>>]
          /\ Resolved'[<<c, seen>>] = Resolved'[<<program.exports[c], seen \cup {c}>>]
      BY <2>1, <2>2, <2>4 DEF Hop
    <3> QED
      BY <1>1, <2>2, <2>4, <3>1
  <2> QED
    BY <2>3, <2>4, ExportsType
<1> HIDE DEF Good
<1>2. \A c \in Cells, seen \in SUBSET Cells : <<c, seen>> \in All <=> Good(c, seen)
  BY DEF Chains
<1>3. \A c \in Cells, seen \in SUBSET Cells :
        (c \notin seen => \A d \in Cells : <<d, seen \cup {c}>> \in All)
          => <<c, seen>> \in All
  <2> SUFFICES ASSUME NEW c \in Cells, NEW seen \in SUBSET Cells,
                      c \notin seen => \A d \in Cells : <<d, seen \cup {c}>> \in All
               PROVE  <<c, seen>> \in All
    OBVIOUS
  <2>1. seen \cup {c} \in SUBSET Cells
    OBVIOUS
  <2> HIDE DEF All
  <2> QED
    BY <1>1, <1>2, <2>1
<1>4. \A c \in Cells, seen \in SUBSET Cells : <<c, seen>> \in All
  <2> HIDE DEF All
  <2> QED
    BY <1>3, ChainsEnd
<1>5. \A c \in Cells, seen \in SUBSET Cells : Good(c, seen)
  <2> HIDE DEF All
  <2> QED
    BY <1>2, <1>4
<1> QED
  BY <1>5 DEF Good
\* What was linked can be resolved.
ExportsKnown ==
  \A m \in Modules : state[m] \in {"Linked", "Initializing", "Ready"} => ExportsResolve(m)

LEMMA ResolveStays ==
  ASSUME TypeOK, TypeOK', program' = program, Loaded \subseteq Loaded',
         NEW m \in Modules, ExportsResolve(m)
  PROVE  ExportsResolve(m)'
<1> SUFFICES ASSUME NEW n \in Names, program.exports[<<m, n>>] # <<"absent">>
             PROVE  Resolved'[<<<<m, n>>, {}>>] # Nowhere
  BY DEF ExportsResolve, Resolution, Nowhere
<1>1. <<m, n>> \in Cells /\ {} \in SUBSET Cells
  BY DEF Cells
<1>2. Resolved[<<<<m, n>>, {}>>] # Nowhere
  BY DEF ExportsResolve, Resolution
<1> QED
  BY <1>1, <1>2, ResolvedStays

\* How the search changes the states of modules.
LEMMA DfsMoves ==
  ASSUME LoaderInv, NEW d \in Modules, Dfs(d), NEW m \in Modules
  PROVE  \/ state'[m] = state[m] \/ state'[m] = "Failed"
         \/ state[m] \in {"Linked", "Initializing"} /\ state'[m] \in {"Initializing", "Ready"}
<1>0. TypeOK
  BY DEF LoaderInv
<1>1. CASE FindReady(d) \/ FindUnusable(d)
  BY <1>1 DEF FindReady, FindUnusable
<1>2. CASE FindCycle(d)
  BY <1>2 DEF FindCycle
<1>3. CASE Begin(d)
  BY <1>0, <1>3 DEF Begin, TypeOK
<1>4. CASE RunInit(d)
  <2>1. /\ stack # <<>> /\ d = Top.module /\ ~raised
        /\ state' = [state EXCEPT ![d] = "Ready"]
    BY <1>4 DEF RunInit, Running, InGoal
  <2>2. state[d] = "Initializing"
    BY <2>1, TopFrame DEF LoaderInv, StackInv, FramesInitializing
  <2> QED
    BY <1>0, <2>1, <2>2 DEF TypeOK
<1>5. CASE InitFails(d) \/ Unwind(d)
  <2>1. state' = state \/ state' = [state EXCEPT ![d] = "Failed"]
    BY <1>5 DEF InitFails, Unwind, Fails
  <2> QED
    BY <1>0, <2>1 DEF TypeOK
<1> QED
  BY <1>1, <1>2, <1>3, <1>4, <1>5 DEF Dfs

LEMMA NextResolves ==
  ASSUME LoaderInv, TypeOK', ExportsKnown, [Next]_vars PROVE ExportsKnown'
<1>0. TypeOK
  BY DEF LoaderInv
<1>1. program' = program
  BY DEF Next, Dfs, Add, AddImportAlias, LinkModules, Initialize, FindReady, FindUnusable,
    FindCycle, Begin, RunInit, InitFails, Unwind, Return, vars
<1>2. /\ Loaded \subseteq Loaded'
      /\ \A m \in Modules : state'[m] \in {"Linked", "Initializing", "Ready"}
                              => ExportsResolve(m)
  <2>1. CASE Linkable /\ state' = LinkedStates
    BY <1>0, <2>1 DEF ExportsKnown, Linkable, LinkedStates, Loaded, TypeOK, States
  <2>2. CASE state' = state
    BY <2>2 DEF ExportsKnown, Loaded
  <2>3. CASE \E d \in Modules : Dfs(d)
    BY <2>3, DfsMoves DEF ExportsKnown, Loaded
  <2>4. CASE \E d \in Modules, valid \in BOOLEAN : Add(d, valid)
    BY <1>0, <2>4 DEF Add, ExportsKnown, Loaded, TypeOK
  <2> QED
    BY <2>1, <2>2, <2>3, <2>4 DEF Next, AddImportAlias, LinkModules, Initialize, Return, vars
<1> QED
  BY <1>0, <1>1, <1>2, ResolveStays DEF ExportsKnown

LEMMA AlwaysResolves == Spec => []ExportsKnown
<1>1. Init => ExportsKnown
  BY DEF Init, ExportsKnown
<1>2. LoaderInv => TypeOK
  BY DEF LoaderInv
<1>3. LoaderInv /\ TypeOK' /\ ExportsKnown /\ [Next]_vars => ExportsKnown'
  BY NextResolves
<1> QED
  BY <1>1, <1>2, <1>3, Invariance, PTL DEF Spec

\* What an initialised module exports is there, at the end of any chain of re-exports,
\* if modules declare the ones that they re-export from (check_export_cell of link,
\* resolve_export_snapshot).
THEOREM ReadyModulesExport == Spec => []ExportsAvailable
<1>1. ASSUME LoaderInv, ExportsKnown PROVE ExportsAvailable
  <2> SUFFICES ASSUME ReexportsDeclared, NEW m \in Modules, NEW n \in Names,
                      state[m] = "Ready", program.exports[<<m, n>>] # <<"absent">>
               PROVE  CellReady(Resolution(<<m, n>>))
    BY DEF ExportsAvailable
  <2>1. \A c \in Cells : state[c[1]] = "Ready" /\ program.exports[c] \in Cells
                           => state[program.exports[c][1]] = "Ready"
    <3> SUFFICES ASSUME NEW c \in Cells, state[c[1]] = "Ready", program.exports[c] \in Cells
                 PROVE  state[program.exports[c][1]] = "Ready"
      OBVIOUS
    <3>1. program.exports[c][1] \in ToSet(Deps(c[1])) /\ c[1] \in Modules
      BY DEF ReexportsDeclared, Cells
    <3>2. c[1] \in ToSet(order)
      BY <1>1, <3>1 DEF LoaderInv, DependenciesFirst
    <3>3. PICK i \in DOMAIN order : order[i] = c[1]
      BY <3>2 DEF ToSet
    <3>4. PICK j \in 1..(i - 1) : order[j] = program.exports[c][1]
      BY <1>1, <3>1, <3>3 DEF LoaderInv, DependenciesFirst
    <3>5. i \in 1..Len(order) /\ Len(order) \in Nat
      BY <1>1, LenProperties DEF LoaderInv, TypeOK
    <3>6. order[j] \in ToSet(order)
      <4>1. j \in DOMAIN order
        BY <1>1, <3>5, LenProperties DEF LoaderInv, TypeOK
      <4> QED
        BY <4>1 DEF ToSet
    <3> QED
      BY <1>1, <3>4, <3>6 DEF LoaderInv, DependenciesFirst
  <2>2. <<m, n>> \in Cells /\ {} \in SUBSET Cells /\ <<m, n>>[1] = m
    BY DEF Cells
  <2>3. Resolved[<<<<m, n>>, {}>>] # Nowhere
    BY <1>1 DEF ExportsKnown, ExportsResolve, Resolution
  <2>4. CellReady(Resolved[<<<<m, n>>, {}>>])
    BY <1>1, <2>1, <2>2, <2>3, ResolvedReady DEF LoaderInv
  <2> QED
    BY <2>4 DEF Resolution
<1> QED
  BY <1>1, AlwaysResolves, Invariance, PTL
=============================================================================
