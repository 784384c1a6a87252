------------------------------- MODULE MCLoader -------------------------------
(* A finite instance of ModuleLoader for TLC. *)
EXTENDS LoaderProperties

ThreeModules == 1..3
OneName == {"x"}

\* Up to two dependencies in any order, a module on itself included.
DepLists == {s \in BoundedSeq(ThreeModules, 2) : IsInjective(s)}

AllOwn == [c \in Cells |-> <<"own">>]

\* Every graph of dependencies.
Graphs ==
  [deps : [ThreeModules -> DepLists], exports : {AllOwn}, entries : {{1, 2}},
   refused : {{}}]

\* A chain, a fork and a cycle, with all tables of exports.
Tables ==
  [deps : {<< <<>>, <<1>>, <<2>> >>, << <<>>, <<>>, <<2, 1>> >>, << <<>>, <<3>>, <<2>> >>},
   exports : [Cells -> Targets], entries : {{2}}, refused : {{}}]

Refusals ==
  [deps : {<< <<>>, <<1>>, <<2>> >>}, exports : {AllOwn}, entries : {{}},
   refused : SUBSET ThreeModules]

AllPrograms == Graphs \cup Tables \cup Refusals
=============================================================================
