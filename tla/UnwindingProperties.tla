------------------------ MODULE UnwindingProperties ------------------------
(* What a program means, and what its task relies on. *)
EXTENDS Unwinding

Levels == 1 .. Depth
Exceptions == {"act", "clause", "finally"} \X (1 .. (Depth + 1))
Codes == {"body", "rescue", "ensure"}

(***************************************************************************)
(* Every VM has the frames of a program that is under way: bodies of the   *)
(* procedures that were entered, clauses over the code of their try, with  *)
(* what they were run for, and a parent waits in the call of its block.    *)
(***************************************************************************)
TypeOK ==
  /\ task \in {"running", "parked", "done"}
  /\ task # "running" => Len(vms) = 1
  /\ \A i \in DOMAIN vms :
       /\ vms[i].left => i = Len(vms) /\ vms[i].escaped
       /\ i < Len(vms) =>
            /\ Last(vms[i].frames).code # "body" \/ vms[i + 1].left
                 \/ Kind(Last(vms[i].frames).level) = "block"
            /\ ~vms[i].escaped \/ vms[i + 1].left
       /\ \A j \in DOMAIN vms[i].frames :
            LET f == vms[i].frames[j] IN
              /\ f.code \in Codes /\ f.of \in 0 .. Depth
              /\ f.level \in 1 .. (Depth + 1)
              /\ f.step \in {"down", "after", "ensure", "return"}
              /\ f.scope # 0 => f.code = "body" /\ Kind(f.of) = "with"
              /\ f.pending.how \in {"end"} \cup
                   (IF f.code = "ensure" THEN {"raise", "throw"} ELSE {})
              /\ f.lost \cup f.kept \subseteq Catches(Levels)
              /\ f.code # "body" =>
                   /\ j > 1
                   /\ vms[i].frames[j - 1].code # "ensure"
                   /\ vms[i].frames[j - 1].step # "down"
  /\ \A s \in Range(suppressed) : s[1] \in Exceptions /\ s[2] \in Exceptions
  /\ outcome.how \in {"end", "raise", "throw", "fault"}
-----------------------------------------------------------------------------
(* The meaning of a program p, construct by construct, from the inside out. *)

\* Where the compiled program differs: the ensure of a try that has a rescue as well
\* is not run for a throw, none is run for a fault, and a wide clause that an exception
\* was given to costs the catches around it their tags.
Quirks == {"throw", "fault", "tags"}

\* A result has the way the code is left, the clauses that ran, what was suppressed
\* and the catches of the procedure whose tags are lost.
Nothing == [way |-> Normally, log |-> <<>>, suppressed |-> {}, lost |-> {}]

\* The levels of one kind around l.
Outside(p, l, kind) == {j \in 1 .. (l - 1) : p.nest[j].kind = kind}

Ran(p, r, clause, l) ==
  [r EXCEPT !.log = Append(@, <<clause, l, Max({0} \cup Outside(p, l, "with"))>>)]

\* An act after r, in a clause that replaces what it was run for unless it ends.
Does(r, act, site, cancelled) ==
  CASE act.do = "raise" -> [r EXCEPT !.way = Way("raise", site)]
    [] act.do = "throw" -> [r EXCEPT !.way = Way("throw", <<act.tag>>)]
    [] act.do = "return" -> [r EXCEPT !.way = Way("return", <<>>)]
    [] act.do = "sleep" /\ cancelled -> [r EXCEPT !.way = Way("fault", <<>>)]
    [] OTHER -> r

\* A clause at l has been run with a copy of the registers.
Costs(p, r, l) ==
  IF p.wide THEN [r EXCEPT !.lost = @ \cup Outside(p, l, "catch")] ELSE r

Suppressing(p, r, l) ==
  IF p.nest[l].finally.do = "raise" /\ r.way.how = "raise"
  THEN [r EXCEPT !.suppressed = @ \cup {<<<<"finally", l>>, r.way.what>>}]
  ELSE r

EnsureMeans(p, r, l, quirks) ==
  IF r.way.how = "fault" /\ "fault" \in quirks THEN r
  ELSE Does(Suppressing(p, Ran(p, IF r.way.how = "raise" THEN Costs(p, r, l) ELSE r,
                               "ensure", l), l),
            p.nest[l].finally, <<"finally", l>>, FALSE)

RescueMeans(p, r, l) ==
  CASE r.way.how # "raise" -> r
    [] r.way.how = "raise" /\ ~p.nest[l].matches -> Costs(p, r, l)
    [] r.way.how = "raise" /\ p.nest[l].matches ->
         Does([Ran(p, Costs(p, r, l), "rescue", l) EXCEPT !.way = Normally],
              p.nest[l].clause, <<"clause", l>>, FALSE)

ConstructMeans(p, r, l, quirks) ==
  CASE p.nest[l].kind \in Procedures ->
         [r EXCEPT !.lost = {},
                   !.way = IF @.how = "return" THEN Normally ELSE @]
    [] p.nest[l].kind = "ensure" -> EnsureMeans(p, r, l, quirks)
    [] p.nest[l].kind = "rescue" -> RescueMeans(p, r, l)
    [] p.nest[l].kind = "both" ->
         IF r.way.how = "throw" /\ "throw" \in quirks THEN r
         ELSE EnsureMeans(p, RescueMeans(p, r, l), l, quirks)
    [] p.nest[l].kind = "catch" ->
         IF r.way = Way("throw", <<l>>) /\ ~("tags" \in quirks /\ l \in r.lost)
         THEN [r EXCEPT !.way = Normally] ELSE r

\* What the construct l and all in it mean, and what follows it.  The task sleeps in vain
\* at the level "cancelled", if there is one.
MeansOf(p, cancelled, quirks) ==
  LET Means[l \in 1 .. (Len(p.nest) + 1)] ==
        IF l > Len(p.nest)
        THEN Does(Nothing, p.innermost, <<"act", l>>, l = cancelled)
        ELSE LET r == ConstructMeans(p, Means[l + 1], l, quirks)
             IN  IF r.way = Normally
                 THEN Does(r, p.nest[l].after, <<"act", l>>, l = cancelled) ELSE r
  IN  Means

\* A program returns from its body as from a procedure.
Closed(r) == [r EXCEPT !.way = IF @.how = "return" THEN Normally ELSE @]

Meaning(p, cancelled, quirks) == Closed(MeansOf(p, cancelled, quirks)[1])

\* A scope in a block within a scope.
ScopesEntangled ==
  \E w, b, v \in Levels :
    w < b /\ b < v /\ Kind(w) = "with" /\ Kind(b) = "block" /\ Kind(v) = "with"

(***************************************************************************)
(* A task ends as its program is written: with the outcome, the clauses in *)
(* their order with the task-local value they see, and the suppressed      *)
(* exceptions that the constructs mean, each by itself, whatever VMs and   *)
(* frames the handlers were found in, except for the quirks above, and     *)
(* whichever sleep the cancellation of the task met, if it met one         *)
(* (amber_unified_final_spec.md:1767,                                      *)
(* amber_runtime_project_design.md:7997-8009).                             *)
(***************************************************************************)
AsWritten ==
  task = "done" /\ ~ScopesEntangled =>
    \E cancelled \in 0 .. (Depth + 1) :
      LET m == Meaning(program, cancelled, Quirks) IN
        /\ outcome = m.way
        /\ log = m.log
        /\ Range(suppressed) = m.suppressed
        /\ cancelled # 0 => outcome.how = "fault"

(***************************************************************************)
(* The task-local scopes are those of the frames that are still there, in  *)
(* the order of their nesting (the token of a scope is the number of its   *)
(* construct in the nest), and the last one opened is in force, at every   *)
(* step of every way out: also at a park, in a handler, and when the task  *)
(* has ended (DESIGN-task-local-context-2026-07-14.md:96). A scope in a    *)
(* block within a scope may break it.                                      *)
(***************************************************************************)
OpenScopes ==
  {f.scope : f \in UNION {Range(v.frames) : v \in Range(vms)}} \ {0}

ScopesMatchFrames ==
  ~ScopesEntangled =>
    LET open == context.scopes
    IN  /\ {open[i].token : i \in DOMAIN open} = OpenScopes
        /\ \A i, j \in DOMAIN open : i < j => open[i].token < open[j].token
        /\ context.bound = IF open = <<>> THEN 0 ELSE Last(open).token

(***************************************************************************)
(* The ensure of a try runs on every way out of it, a throw included       *)
(* (amber_unified_final_spec.md:1767).                                     *)
(***************************************************************************)
EnsuresRun ==
  task = "done" =>
    \A l \in Levels : Kind(l) \in Ensured =>
      \E e \in Range(log) : e[1] = "ensure" /\ e[2] = l
=============================================================================
