---------------------------- MODULE LoaderProperties ----------------------------
(* What users of the module loader rely on. *)
EXTENDS ModuleLoader

OnStack == {stack[i].module : i \in DOMAIN stack}

(***************************************************************************)
(* Modules are initialised once, after all their dependencies: whatever    *)
(* was asked for, in any order and however often, and whatever failed in   *)
(* between, the Ready ones are those of init_order, and what one of them   *)
(* depends on comes before it.                                             *)
(***************************************************************************)
DependenciesFirst ==
  /\ ToSet(order) = {m \in Modules : state[m] = "Ready"}
  /\ \A i \in DOMAIN order :
       /\ \A d \in ToSet(Deps(order[i])) : \E j \in 1..(i - 1) : order[j] = d
       /\ \A j \in 1..(i - 1) : order[j] # order[i]

\* The modules that m depends on, directly or through others: a reference for the
\* search, the smallest set that holds them.
DependsOn(m) ==
  {d \in Modules : \A S \in SUBSET Modules :
     ToSet(Deps(m)) \subseteq S /\ (\A x \in S : ToSet(Deps(x)) \subseteq S) => d \in S}

(***************************************************************************)
(* No module is blamed for what another did.  One that failed as part of   *)
(* a cycle depends on itself; one that failed by a dependency has a failed *)
(* one.  And none is left half initialised when the call returns, where    *)
(* every later call would find it "not linked".                            *)
(***************************************************************************)
FailuresExplained ==
  /\ \A m \in Modules :
       /\ (state[m] = "Failed") = (cause[m] # "none")
       /\ cause[m] = "cycle" => m \in DependsOn(m)
       /\ cause[m] = "dependency" =>
            \E d \in ToSet(Deps(m)) : state[d] = "Failed"
       /\ state[m] = "Initializing" => m \in OnStack
  /\ ~Busy => stack = <<>>

\* Modules re-export only what they depend on.
ReexportsDeclared ==
  \A c \in Cells :
    program.exports[c] \in Cells => program.exports[c][1] \in ToSet(Deps(c[1]))

(***************************************************************************)
(* What a Ready module exports is there, also when it comes through a      *)
(* chain of re-exports, as long as modules declare what they re-export as  *)
(* their dependencies: the cell at the end of the chain is Ready as well.  *)
(***************************************************************************)
ExportsAvailable ==
  ReexportsDeclared =>
    \A m \in Modules, n \in Names :
      state[m] = "Ready" /\ program.exports[<<m, n>>] # <<"absent">> =>
        CellReady(Resolution(<<m, n>>))
=============================================================================
