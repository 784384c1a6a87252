------------------------------- MODULE Barrier -------------------------------
(***************************************************************************)
(* RuntimeBarrier: the last of the parties to arrive lets a generation     *)
(* pass; those that wait may time out or be cancelled before that.         *)
(***************************************************************************)
EXTENDS SyncCalls

CONSTANTS
  PartiesChoices,   \* the numbers of parties a barrier is made with
  MaxGenerations    \* bound on the generations that pass

ASSUME PartiesPositive == PartiesChoices \subseteq Nat \ {0}
ASSUME MaxGenerationsNat == MaxGenerations \in Nat

VARIABLES
  parties,      \* parties_
  waiting,      \* waiting_
  generation    \* generation_

barrierVars == <<parties, waiting, generation>>

BarrierTypeOK ==
  /\ parties \in PartiesChoices
  /\ waiting \in 0..(parties - 1)
  /\ generation \in 0..MaxGenerations

BarrierInit ==
  /\ parties \in PartiesChoices
  /\ waiting = 0
  /\ generation = 0
-----------------------------------------------------------------------------
\* The arriving caller is not counted.
BugIsLast == waiting = parties

\* The arriving caller is the last of the parties.
IsLast == waiting + 1 = parties

\* release_generation_locked
ArriveLast(p) ==
  /\ In(p, "idle")
  /\ IsLast
  /\ generation < MaxGenerations
  /\ waiting' = 0
  /\ generation' = generation + 1
  /\ UNCHANGED <<parties, callVars>>

Arrive(p, timeout) ==
  /\ In(p, "idle")
  /\ ~IsLast
  /\ MayWait(p, timeout)
  /\ waiting' = waiting + 1
  /\ call' = [call EXCEPT ![p] =
                [Idle EXCEPT !.pc = "barrier", !.timed = timeout = "later",
                             !.number = generation]]
  /\ UNCHANGED <<parties, generation, cancelled>>

\* The deadline and the flag are looked at before the generation.
BugStillHeld(p) == TRUE

\* The generation p waits for has not passed.
StillHeld(p) == call[p].number = generation

Pass(p) ==
  /\ In(p, "barrier")
  /\ call[p].number # generation
  /\ Returns(p)
  /\ UNCHANGED <<barrierVars, cancelled>>

\* remove_waiter_locked
Withdraw(p) ==
  /\ In(p, "barrier")
  /\ StillHeld(p)
  /\ GivesUp(p)
  /\ waiting' = IF waiting > 0 THEN waiting - 1 ELSE waiting
  /\ Returns(p)
  /\ UNCHANGED <<parties, generation, cancelled>>

BarrierPoll(p) == Pass(p) \/ Withdraw(p)

BarrierStep(p) ==
  BarrierPoll(p) \/ ArriveLast(p) \/ \E timeout \in Timeouts : Arrive(p, timeout)
=============================================================================
