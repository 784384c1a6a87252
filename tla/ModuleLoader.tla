----------------------------- MODULE ModuleLoader -----------------------------
(***************************************************************************)
(* RuntimeModuleLoader of src/runtime/module_loader.cpp: modules are added *)
(* one by one, linked when all they need is there, and initialised depth   *)
(* first along their dependencies, each of them once.                      *)
(*                                                                         *)
(* The loader is used by one thread, and the code that initialises a       *)
(* module runs in a VM of its own that cannot call it.  A step is what     *)
(* initialize_dfs does between two calls of itself, and the frames of      *)
(* these calls are the stack.  The state of an export cell is that of its  *)
(* module (sync_export_states follows every change of it), and so is not   *)
(* kept apart.  Names that start with Bug are the mutants.                 *)
(***************************************************************************)
EXTENDS Integers, SequencesExt

CONSTANTS
  Modules,     \* the names of modules, numbers in the order of std::map
  Names,       \* the names of exports
  Programs,    \* what the bytecode of the modules may say
  MaxAliases   \* bound on the import aliases

Cells == Modules \X Names

\* What an entry of the export table stands for: nothing, something of the module
\* itself, or a re-export of another cell.
Targets == {<<"absent">>, <<"own">>} \cup Cells

\* The dependencies of a module in their order, its exports, whether it has code to
\* run at its initialisation, and whether the check of its profile or of one of its
\* dependencies (format, language version, ABI) refuses it.
ProgramRecord ==
  [deps : [Modules -> Seq(Modules)], exports : [Cells -> Targets],
   entries : SUBSET Modules, refused : SUBSET Modules]

ASSUME ModulesNumbered == IsFiniteSet(Modules) /\ Modules \subseteq Nat
ASSUME NamesFinite == IsFiniteSet(Names)
ASSUME ProgramsKnown == Programs \subseteq ProgramRecord
ASSUME MaxAliasesNat == MaxAliases \in Nat

VARIABLES
  program,   \* what the bytecode says
  state,     \* state of each RuntimeModuleRecord
  cause,     \* what error_name and message of a failed one say
  runs,      \* init_runs
  order,     \* init_order
  aliases,   \* imports of all records
  goals,     \* the modules that the call still has to initialise
  stack,     \* the calls of initialize_dfs that it is in
  raised,    \* the innermost of them has returned false
  answer     \* the answer of the last call to initialise, or that it is under way

vars ==
  <<program, state, cause, runs, order, aliases, goals, stack, raised, answer>>

callVars == <<goals, stack, raised>>
-----------------------------------------------------------------------------
States == {"Unloaded", "Verified", "Linked", "Initializing", "Ready", "Failed"}

Causes == {"none", "bytecode", "init", "cycle", "dependency"}

\* next is the dependency that the call looks at.
Frame == [module : Modules, next : Nat \ {0}]

Alias == [to : Modules, cell : Cells]

TypeOK ==
  /\ program \in Programs
  /\ state \in [Modules -> States]
  /\ cause \in [Modules -> Causes]
  /\ runs \in [Modules -> {0, 1}]
  /\ order \in Seq(Modules)
  /\ aliases \in SUBSET Alias
  /\ goals \in SUBSET Modules
  /\ stack \in Seq(Frame)
  /\ raised \in BOOLEAN
  /\ answer \in {"none", "busy", "ok", "failed"}

Init ==
  /\ program \in Programs
  /\ state = [m \in Modules |-> "Unloaded"]
  /\ cause = [m \in Modules |-> "none"]
  /\ runs = [m \in Modules |-> 0]
  /\ order = <<>>
  /\ aliases = {}
  /\ goals = {}
  /\ stack = <<>>
  /\ raised = FALSE
  /\ answer = "none"
-----------------------------------------------------------------------------
Loaded == {m \in Modules : state[m] # "Unloaded"}

Deps(m) == program.deps[m]

Busy == answer = "busy"

\* add_serialized_module, of bytecode that passes the verification or does not.
Add(m, valid) ==
  /\ ~Busy
  /\ m \notin Loaded
  /\ state' = [state EXCEPT ![m] = IF valid THEN "Verified" ELSE "Failed"]
  /\ cause' = IF valid THEN cause ELSE [cause EXCEPT ![m] = "bytecode"]
  /\ answer' = "none"
  /\ UNCHANGED <<program, runs, order, aliases, callVars>>

AddImportAlias(a) ==
  /\ ~Busy
  /\ a.to \in Loaded
  /\ a \notin aliases /\ Cardinality(aliases) < MaxAliases
  /\ aliases' = aliases \cup {a}
  /\ answer' = "none"
  /\ UNCHANGED <<program, state, cause, runs, order, callVars>>

Nowhere == <<"nowhere">>

\* resolve_export_snapshot: the cell that a chain of re-exports ends at, which has
\* come to c by the cells seen.
Resolved[chain \in Cells \X SUBSET Cells] ==
  LET c == chain[1]
      seen == chain[2]
  IN IF c \in seen \/ c[1] \notin Loaded THEN Nowhere
     ELSE CASE program.exports[c] = <<"absent">> -> Nowhere
            [] program.exports[c] = <<"own">> -> c
            [] OTHER -> Resolved[<<program.exports[c], seen \cup {c}>>]

\* What an export stands for in the end.
Resolution(c) == Resolved[<<c, {}>>]

\* The state of a cell is that of its module (export_state_for_module).
CellReady(c) == c # Nowhere /\ state[c[1]] = "Ready"

\* check_export_cell of a re-export is left out.
BugExportsResolve(m) == TRUE

ExportsResolve(m) ==
  \A n \in Names :
    program.exports[<<m, n>>] # <<"absent">> => Resolution(<<m, n>>) # Nowhere

\* check_profile_compatibility, check_dependency_compatibility
Compatible(m) == m \notin program.refused

AliasResolves(a) == Resolution(a.cell) # Nowhere

\* link finds nothing to object to.
Linkable ==
  /\ \A m \in Loaded :
       /\ state[m] # "Failed"
       /\ Compatible(m)
       /\ ToSet(Deps(m)) \subseteq Loaded
       /\ ExportsResolve(m)
  /\ \A a \in aliases : AliasResolves(a)

\* A module that was initialised is linked anew.
BugLinkedStates ==
  [m \in Modules |-> IF m \in Loaded THEN "Linked" ELSE state[m]]

\* The states after a link that succeeds.
LinkedStates ==
  [m \in Modules |-> IF state[m] = "Verified" THEN "Linked" ELSE state[m]]

\* link, and read_import_alias, which links and then only reads.
LinkModules ==
  /\ ~Busy
  /\ Linkable
  /\ state' = LinkedStates
  /\ answer' = "none"
  /\ UNCHANGED <<program, cause, runs, order, aliases, callVars>>

\* initialize_module of one, or initialize_all.
Initialize(asked) ==
  /\ ~Busy
  /\ IF Linkable
       THEN state' = LinkedStates /\ goals' = asked /\ answer' = "busy"
       ELSE answer' = "failed" /\ UNCHANGED <<state, goals>>
  /\ UNCHANGED <<program, cause, runs, order, aliases, stack, raised>>
-----------------------------------------------------------------------------
(* initialize_dfs *)

Running == Busy /\ ~raised

Top == Last(stack)

InGoal == stack = <<>>

\* Several goals are taken in the order of the map.
Goal == Min(goals)

\* The call that comes next is initialize_dfs(d).
Wants(d) ==
  /\ Running
  /\ IF InGoal THEN goals # {} /\ d = Goal
               ELSE Top.next <= Len(Deps(Top.module)) /\ d = Deps(Top.module)[Top.next]

\* A call has returned true to the frame that is on top of rest, or to its caller.
ReturnsTrue(rest) ==
  IF rest = <<>>
    THEN stack' = rest /\ goals' = goals \ {Goal}
    ELSE /\ stack' = [rest EXCEPT ![Len(rest)].next = @ + 1]
         /\ UNCHANGED goals

ReturnsFalse(rest) == stack' = rest /\ raised' = TRUE

Fails(m, why) ==
  /\ state' = [state EXCEPT ![m] = "Failed"]
  /\ cause' = [cause EXCEPT ![m] = why]

FindReady(d) ==
  /\ Wants(d)
  /\ state[d] = "Ready"
  /\ ReturnsTrue(stack)
  /\ UNCHANGED <<program, state, cause, runs, order, aliases, raised, answer>>

\* The module has failed, or is asked for by its name and not loaded.
FindUnusable(d) ==
  /\ Wants(d)
  /\ state[d] \in {"Failed", "Unloaded"}
  /\ ReturnsFalse(stack)
  /\ UNCHANGED <<program, state, cause, runs, order, aliases, goals, answer>>

\* All calls under way count as the cycle.
BugCycle(d) == {stack[i].module : i \in DOMAIN stack}

\* The modules of the calls since that for d.
Cycle(d) ==
  {stack[i].module : i \in {j \in DOMAIN stack :
                              \E k \in 1..j : stack[k].module = d}}

FindCycle(d) ==
  /\ Wants(d)
  /\ state[d] = "Initializing"
  /\ state' = [m \in Modules |-> IF m \in Cycle(d) THEN "Failed" ELSE state[m]]
  /\ cause' = [m \in Modules |-> IF m \in Cycle(d) THEN "cycle" ELSE cause[m]]
  /\ ReturnsFalse(stack)
  /\ UNCHANGED <<program, runs, order, aliases, goals, answer>>

Begin(d) ==
  /\ Wants(d)
  /\ state[d] = "Linked"
  /\ state' = [state EXCEPT ![d] = "Initializing"]
  /\ stack' = Append(stack, [module |-> d, next |-> 1])
  /\ UNCHANGED <<program, cause, runs, order, aliases, goals, raised, answer>>

\* The last dependency is not waited for.
BugDepsDone == Top.next >= Len(Deps(Top.module))

DepsDone == Top.next > Len(Deps(Top.module))

\* The module is initialised, if it has code for it.
RunInit(m) ==
  /\ Running /\ ~InGoal
  /\ m = Top.module /\ DepsDone
  /\ state' = [state EXCEPT ![m] = "Ready"]
  /\ runs' = IF m \in program.entries THEN [runs EXCEPT ![m] = @ + 1] ELSE runs
  /\ order' = Append(order, m)
  /\ ReturnsTrue(Front(stack))
  /\ UNCHANGED <<program, cause, aliases, raised, answer>>

InitFails(m) ==
  /\ Running /\ ~InGoal
  /\ m = Top.module /\ DepsDone
  /\ m \in program.entries
  /\ Fails(m, "init")
  /\ ReturnsFalse(Front(stack))
  /\ UNCHANGED <<program, runs, order, aliases, goals, answer>>

\* The call for a dependency of m returned false.
Unwind(m) ==
  /\ Busy /\ raised /\ ~InGoal
  /\ m = Top.module
  /\ IF state[m] = "Failed" THEN UNCHANGED <<state, cause>> ELSE Fails(m, "dependency")
  /\ stack' = Front(stack)
  /\ UNCHANGED <<program, runs, order, aliases, goals, raised, answer>>

Return ==
  /\ Busy /\ InGoal
  /\ raised \/ goals = {}
  /\ answer' = IF raised THEN "failed" ELSE "ok"
  /\ goals' = {}
  /\ raised' = FALSE
  /\ UNCHANGED <<program, state, cause, runs, order, aliases, stack>>

Dfs(m) ==
  \/ FindReady(m) \/ FindUnusable(m) \/ FindCycle(m) \/ Begin(m)
  \/ RunInit(m) \/ InitFails(m) \/ Unwind(m)

Next ==
  \/ \E m \in Modules :
       Dfs(m) \/ Initialize({m}) \/ \E valid \in BOOLEAN : Add(m, valid)
  \/ \E a \in Alias : AddImportAlias(a)
  \/ LinkModules \/ Initialize(Loaded) \/ Return

Spec == Init /\ [][Next]_vars
=============================================================================
