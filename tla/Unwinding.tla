----------------------------- MODULE Unwinding -----------------------------
(***************************************************************************)
(* How a program of vm.cpp leaves its calls, blocks and try expressions:   *)
(* the frames of the VM, the handler entries that the emitter of           *)
(* src/bytecode makes for try and catch, raise_value, throw_value and      *)
(* finish_return, the VM of its own in which a builtin runs a block, the   *)
(* scopes that TaskLocal.with opens, and the end of the task that runs the *)
(* program, which may be parked or cancelled on the way.                   *)
(*                                                                         *)
(* A program is a nest of constructs, each with one way out: what it does  *)
(* innermost, what follows each construct, and what each rescue and ensure *)
(* clause does.  The loops of raise_value and throw_value, which pop the   *)
(* frames above a handler, are one step per frame.  Of the registers only  *)
(* those matter here that hold the tag of a catch.                         *)
(***************************************************************************)
EXTENDS Naturals, SequencesExt, FiniteSetsExt

CONSTANT Programs   \* the programs that a task may be given

Ways == {"end", "return", "raise", "throw", "sleep"}
Acts == [do : Ways, tag : Nat]        \* the tag is that of a throw
Procedures == {"call", "with", "block"}
Ensured == {"ensure", "both"}
Rescued == {"rescue", "both"}
Kinds == Procedures \cup Ensured \cup Rescued \cup {"catch"}

\* A tag is the number of the catch that waits for it, or 0.  The clauses of a
\* construct are there whatever its kind.  When the program is wide, its rescue and
\* ensure clauses use so many registers that they reach those of the tags.
Constructs ==
  [kind : Kinds, after : Acts, clause : Acts, finally : Acts, matches : BOOLEAN]

ASSUME ProgramsKnown ==
  Programs \subseteq [nest : Seq(Constructs), innermost : Acts, wide : BOOLEAN]

VARIABLES
  program,     \* the module that the task executes
  vms,         \* the VM of the task and, above it, the block VMs it has leased
  context,     \* the task-local context: scopes, and the binding in force
  log,         \* the rescue and ensure clauses that ran, with the binding they saw
  suppressed,  \* each exception with one that was appended to it
  task,        \* "running", "parked" or "done"
  outcome      \* how the task ended

vars == <<program, vms, context, log, suppressed, task, outcome>>
-----------------------------------------------------------------------------
Depth == Len(program.nest)
At(l) == program.nest[l]
Kind(l) == At(l).kind

\* The way a piece of code is left: an exception is named by where it was raised.
Way(how, what) == [how |-> how, what |-> what]
Normally == Way("end", <<>>)

\* A frame runs a body, a rescue clause or an ensure clause.  The body belongs to the
\* procedure number "of" (0 is the program), a clause to the construct "of".
Frame(code, of, step, level) ==
  [code |-> code, of |-> of, step |-> step, level |-> level,
   exception |-> <<>>,     \* in the register of a rescue clause
   pending |-> Normally,   \* pending_exception_on_return, pending_throw_on_return
   lost |-> {},            \* the catches whose tag another value has overwritten
   kept |-> {},            \* preserved_registers_on_return
   scope |-> 0]            \* the token of scope_exit

Body(procedure) == Frame("body", procedure, "down", procedure + 1)

\* way is how the VM is being left by raise_value or throw_value; escaped says that
\* it has no handler left, and left that its parent is told.
NewVm(frame) ==
  [frames |-> <<frame>>, way |-> Normally, escaped |-> FALSE, left |-> FALSE]

\* The VM whose step it is: a block VM that has been left waits for its parent to
\* unwind before its lease ends.
Active == IF Last(vms).left THEN Len(vms) - 1 ELSE Len(vms)
Frames == vms[Active].frames
Top == Last(Frames)
Unwinds == vms[Active].way.how \in {"raise", "throw"} /\ ~vms[Active].escaped
Executes ==
  /\ task = "running" /\ ~Last(vms).left /\ Frames # <<>>
  /\ vms[Active].way = Normally
-----------------------------------------------------------------------------
(* The task-local context. *)
Pushed(c, token) ==
  [scopes |-> Append(c.scopes, [token |-> token, previous |-> c.bound]),
   bound |-> token]

\* pop_scope: refused unless the scope is the last one.
Popped(c, token) ==
  IF c.scopes # <<>> /\ Last(c.scopes).token = token
  THEN [scopes |-> Front(c.scopes), bound |-> Last(c.scopes).previous]
  ELSE c

BugAllPopped(c, frames) ==     \* from the first frame
  FoldLeft(LAMBDA d, f : Popped(d, f.scope), c, frames)

\* unwind_all_frame_scopes: of the last n frames, n by n.
AllPopped(c, frames) ==
  LET Left[n \in 0 .. Len(frames)] ==
        IF n = 0 THEN c ELSE Popped(Left[n - 1], frames[Len(frames) + 1 - n].scope)
  IN  Left[Len(frames)]
-----------------------------------------------------------------------------
(* The frames. *)
SetVm(v) == vms' = [vms EXCEPT ![Active] = v]
SetFrames(frames) == SetVm([vms[Active] EXCEPT !.frames = frames])
BugGoto(frame, step, level) ==     \* stays where it was when a construct is left
  [frame EXCEPT !.step = IF step = "after" THEN @ ELSE step, !.level = level]
Goto(frame, step, level) == [frame EXCEPT !.step = step, !.level = level]
Replaced(frame) == Append(Front(Frames), frame)
MoveTo(step, level) == SetFrames(Replaced(Goto(Top, step, level)))

Catches(levels) == {l \in levels : Kind(l) = "catch"}

BugMerged(caller, clause) == [caller EXCEPT !.lost = clause.lost]  \* keeps no tags

\* merge_frame_registers: a clause has worked on a copy of the registers.
Merged(caller, clause) ==
  [caller EXCEPT !.lost =
     (clause.lost \ clause.kept) \cup (@ \cap clause.kept)]

\* The frames without the last one.
Below(frames) ==
  LET rest == Front(frames) IN
    IF Last(frames).code = "body" \/ rest = <<>> THEN rest
    ELSE Append(Front(rest), Merged(Last(rest), Last(frames)))

\* The constructs of a frame whose protected range has its program counter.  A rescue
\* clause has an entry for the ensure of its own try.
Enclosing(frame) ==
  CASE frame.code = "body" -> (frame.of + 1) .. (frame.level - 1)
    [] frame.code = "rescue" /\ frame.step = "down" -> {frame.of}
    [] OTHER -> {}

\* handler_accepts_reason for the one entry of a construct.  A try with a rescue has
\* no entry for its ensure: that is in the code of the clause.
Accepts(frame, l, how) ==
  IF frame.code = "rescue" THEN Kind(l) = "both"
  ELSE Kind(l) \in (IF how = "raise" THEN Ensured \cup Rescued ELSE {"ensure", "catch"})

\* find_handler_for_pc: the narrowest range is the innermost construct.
Handlers(frame, how) == {l \in Enclosing(frame) : Accepts(frame, l, how)}
HasHandler(how) == \E i \in DOMAIN Frames : Handlers(Frames[i], how) # {}
-----------------------------------------------------------------------------
(* Leaving code. *)

\* raise_value, up to the search for a handler.
Raise(frame, exception) ==
  /\ SetVm([vms[Active] EXCEPT !.way = Way("raise", exception)])
  /\ suppressed' = IF frame.pending.how = "raise"
                   THEN Append(suppressed, <<exception, frame.pending.what>>)
                   ELSE suppressed

\* A frame that a clause has merged into runs on, or fails again with what is pending.
\* A call has returned to the construct that made it.
Resumed(frame, callee) ==
  IF callee.code = "body" THEN Goto(frame, "after", frame.level) ELSE frame

\* finish_return.
FinishReturn ==
  LET rest == Below(Frames)
  IN  /\ SetVm([vms[Active] EXCEPT
                  !.way = Top.pending,
                  !.frames = IF rest = <<>> THEN rest
                             ELSE Append(Front(rest), Resumed(Last(rest), Top))])
      /\ context' = Popped(context, Top.scope)

\* The ensure bodies that a return still runs, in the code that was emitted for it.
EnsuresOnReturn == {l \in Enclosing(Top) : Kind(l) \in Ensured}
Return ==
  \/ /\ EnsuresOnReturn # {}
     /\ MoveTo("return", Max(EnsuresOnReturn))
     /\ UNCHANGED context
  \/ EnsuresOnReturn = {} /\ FinishReturn

\* What stands innermost or after a construct is the end of the body around it.
CompleteBody ==
  LET outer == Top.level - 1 IN
    \/ outer = Top.of /\ FinishReturn
    \/ /\ outer # Top.of
       /\ MoveTo(IF Kind(outer) \in Ensured THEN "ensure" ELSE "after", outer)
       /\ UNCHANGED context

\* The ways of an act that do not depend on where it stands.
Leaves(act, site) ==
  \/ act.do = "raise" /\ Raise(Top, site) /\ UNCHANGED context
  \/ /\ act.do = "throw"
     /\ SetVm([vms[Active] EXCEPT !.way = Way("throw", <<act.tag>>)])
     /\ UNCHANGED <<context, suppressed>>
-----------------------------------------------------------------------------
(* The instructions. *)
Enters(kinds) ==
  /\ Executes
  /\ Top.code = "body" /\ Top.step = "down" /\ Top.level <= Depth
  /\ Kind(Top.level) \in kinds

\* invoke_callable_value.
CallMethod ==
  /\ Enters({"call"})
  /\ SetFrames(Append(Frames, Body(Top.level)))
  /\ UNCHANGED <<program, context, log, suppressed, task, outcome>>

\* TaskLocal.with: the block runs on the frames of this VM.
OpenScope ==
  /\ Enters({"with"})
  /\ SetFrames(Append(Frames, [Body(Top.level) EXCEPT !.scope = Top.level]))
  /\ context' = Pushed(context, Top.level)
  /\ UNCHANGED <<program, log, suppressed, task, outcome>>

\* call_block_to_value: the block of a builtin runs on a VM of its own.
CallBlock ==
  /\ Enters({"block"})
  /\ vms' = Append(vms, NewVm(Body(Top.level)))
  /\ UNCHANGED <<program, context, log, suppressed, task, outcome>>

EnterTry ==
  /\ Enters(Kinds \ Procedures)
  /\ MoveTo("down", Top.level + 1)
  /\ UNCHANGED <<program, context, log, suppressed, task, outcome>>

\* What stands innermost, or after a construct.
Innermost == Top.step = "down" /\ Top.level = Depth + 1
Here == IF Innermost THEN program.innermost ELSE At(Top.level).after
AtAct == Executes /\ Top.code = "body" /\ (Innermost \/ Top.step = "after")

ExecuteAct ==
  /\ AtAct
  /\ \/ Here.do = "end" /\ CompleteBody /\ UNCHANGED suppressed
     \/ Here.do = "return" /\ Return /\ UNCHANGED suppressed
     \/ Leaves(Here, <<"act", Top.level>>)
  /\ UNCHANGED <<program, log, task, outcome>>

\* task.sleep parks a program on its own frames; within a block VM it holds the thread.
Park ==
  /\ AtAct /\ Here.do = "sleep" /\ Len(vms) = 1
  /\ task' = "parked"
  /\ UNCHANGED <<program, vms, context, log, suppressed, outcome>>

SleepEnds ==
  /\ \/ task = "parked"
     \/ AtAct /\ Here.do = "sleep" /\ Len(vms) > 1
  /\ task' = "running"
  /\ CompleteBody
  /\ UNCHANGED <<program, log, suppressed, outcome>>

\* A cancelled task does not go to sleep: a fault, which no handler accepts.
SleepIsCancelled ==
  /\ AtAct /\ Here.do = "sleep"
  /\ SetVm([vms[Active] EXCEPT !.way = Way("fault", <<>>), !.escaped = TRUE])
  /\ UNCHANGED <<program, context, log, suppressed, task, outcome>>

\* The body of an ensure, emitted in line for the end and for the return of the body
\* of its try or of its rescue clause.
EnsureInLine ==
  /\ Executes /\ Top.step \in {"ensure", "return"}
  /\ log' = Append(log, <<"ensure", Top.level, context.bound>>)
  /\ LET act == At(Top.level).finally IN
       \/ /\ act.do = "end" /\ UNCHANGED suppressed
          /\ \/ Top.step = "return" /\ Return
             \/ Top.step = "ensure" /\ Top.code = "rescue" /\ FinishReturn
             \/ /\ Top.step = "ensure" /\ Top.code = "body"
                /\ MoveTo("after", Top.level) /\ UNCHANGED context
       \/ Leaves(act, <<"finally", Top.level>>)
  /\ UNCHANGED <<program, task, outcome>>

\* emit_rescue_handler: a clause that matches, or the exception again.
RescueClause ==
  /\ Executes /\ Top.code = "rescue" /\ Top.step = "down" /\ At(Top.of).matches
  /\ log' = Append(log, <<"rescue", Top.of, context.bound>>)
  /\ LET act == At(Top.of).clause IN
       \/ /\ act.do = "end" /\ UNCHANGED suppressed
          /\ \/ Kind(Top.of) = "rescue" /\ FinishReturn
             \/ Kind(Top.of) = "both" /\ MoveTo("ensure", Top.of) /\ UNCHANGED context
       \/ Leaves(act, <<"clause", Top.of>>)
  /\ UNCHANGED <<program, task, outcome>>

RescueDoesNotMatch ==
  /\ Executes /\ Top.code = "rescue" /\ Top.step = "down" /\ ~At(Top.of).matches
  /\ Raise(Top, Top.exception)
  /\ UNCHANGED <<program, context, log, task, outcome>>

\* emit_ensure_handler: the clause, and then what is pending.
EnsureClause ==
  /\ Executes /\ Top.code = "ensure"
  /\ log' = Append(log, <<"ensure", Top.of, context.bound>>)
  /\ LET act == At(Top.of).finally IN
       \/ act.do = "end" /\ FinishReturn /\ UNCHANGED suppressed
       \/ Leaves(act, <<"finally", Top.of>>)
  /\ UNCHANGED <<program, task, outcome>>
-----------------------------------------------------------------------------
(* Unwinding. *)
Going == vms[Active].way

\* pop_frames_above_unwind_target: one of the frames above the handler.
PopFrame ==
  /\ Unwinds /\ HasHandler(Going.how) /\ Handlers(Top, Going.how) = {}
  /\ SetFrames(Below(Frames))
  /\ context' = Popped(context, Top.scope)
  /\ suppressed' = IF Going.how = "raise" /\ Top.pending.how = "raise"
                   THEN Append(suppressed, <<Going.what, Top.pending.what>>)
                   ELSE suppressed
  /\ UNCHANGED <<program, log, task, outcome>>

\* push_handler_frame_from_target.  snapshot_active_catch_tags keeps the tags for an
\* ensure that a throw runs, and finds those of the frame's own code.
Clause(code, l, way) ==
  [Frame(code, l, "down", l) EXCEPT
     !.lost = Top.lost \cup (IF program.wide THEN Catches(1 .. (l - 1)) ELSE {}),
     !.kept = IF way.how = "throw" THEN Catches(Enclosing(Top) \ {l}) ELSE {},
     !.exception = IF code = "rescue" THEN way.what ELSE <<>>,
     !.pending = IF code = "ensure" THEN way ELSE Normally]

EnterHandler ==
  /\ Unwinds /\ Handlers(Top, Going.how) # {}
  /\ LET l == Max(Handlers(Top, Going.how))
         past == Goto(Top, "after", l)
         code == IF Top.code = "body" /\ Kind(l) \in Rescued THEN "rescue"
                 ELSE "ensure"
         caught == Kind(l) = "catch" /\ Going.what = <<l>> /\ l \notin Top.lost
     IN  SetVm([vms[Active] EXCEPT
                  !.frames = IF Kind(l) = "catch" THEN Replaced(past)
                             ELSE Append(Replaced(past), Clause(code, l, Going)),
                  !.way = IF Kind(l) = "catch" /\ ~caught THEN Going ELSE Normally])
  /\ UNCHANGED <<program, context, log, suppressed, task, outcome>>

\* Nothing in this VM accepts it: escaped_exception_, escaped_throw_.
Escape ==
  /\ Unwinds /\ ~HasHandler(Going.how)
  /\ SetVm([vms[Active] EXCEPT !.escaped = TRUE])
  /\ UNCHANGED <<program, context, log, suppressed, task, outcome>>
-----------------------------------------------------------------------------
(* The end of a block VM and of the program. *)
BlockReturns ==
  /\ Len(vms) > 1 /\ Last(vms).frames = <<>>
  /\ LET parent == vms[Len(vms) - 1]
         caller == Last(parent.frames)
     IN  vms' = Append(Front(Front(vms)),
           [parent EXCEPT !.frames =
              Append(Front(@), Goto(caller, "after", caller.level))])
  /\ UNCHANGED <<program, context, log, suppressed, task, outcome>>

\* The parent goes on with what escaped, while the lease still holds the block VM.
BlockEscapes ==
  /\ Len(vms) > 1 /\ Last(vms).escaped /\ ~Last(vms).left
  /\ vms' = [vms EXCEPT ![Len(vms)].left = TRUE,
                        ![Len(vms) - 1].way = Last(vms).way,
                        ![Len(vms) - 1].escaped = (Last(vms).way.how = "fault")]
  /\ UNCHANGED <<program, context, log, suppressed, task, outcome>>

\* The destructor of BlockVmLease, when the parent has found its handler or none.
ReleaseBlockVm ==
  /\ Last(vms).left /\ ~Unwinds
  /\ context' = AllPopped(context, Last(vms).frames)
  /\ vms' = Front(vms)
  /\ UNCHANGED <<program, log, suppressed, task, outcome>>

\* The driver of a persistent task.
EndTask ==
  /\ task = "running" /\ Len(vms) = 1
  /\ Last(vms).escaped \/ Last(vms).frames = <<>>
  /\ context' = AllPopped(context, Last(vms).frames)
  /\ vms' = <<[Last(vms) EXCEPT !.frames = <<>>]>>
  /\ outcome' = Last(vms).way
  /\ task' = "done"
  /\ UNCHANGED <<program, log, suppressed>>
-----------------------------------------------------------------------------
Init ==
  /\ program \in Programs
  /\ vms = <<NewVm(Body(0))>>
  /\ context = [scopes |-> <<>>, bound |-> 0]
  /\ log = <<>>
  /\ suppressed = <<>>
  /\ task = "running"
  /\ outcome = Normally

Terminated == task = "done" /\ UNCHANGED vars

Execute ==
  \/ CallMethod \/ OpenScope \/ CallBlock \/ EnterTry \/ ExecuteAct
  \/ EnsureInLine \/ RescueClause \/ RescueDoesNotMatch \/ EnsureClause
  \/ Park \/ SleepEnds \/ SleepIsCancelled

Next ==
  \/ Execute
  \/ PopFrame \/ EnterHandler \/ Escape
  \/ BlockReturns \/ BlockEscapes \/ ReleaseBlockVm \/ EndTask
  \/ Terminated

Spec == Init /\ [][Next]_vars
=============================================================================
