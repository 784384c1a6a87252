------------------------------- MODULE Atomic -------------------------------
(***************************************************************************)
(* RuntimeAtomic: a value under a mutex, with an update that reads the     *)
(* value, runs a function on it without the mutex, and stores the outcome  *)
(* if the value still equals what was read, or else starts again.          *)
(*                                                                         *)
(* Values are numbers and the function of every update adds one.           *)
(***************************************************************************)
EXTENDS SyncCalls

CONSTANT MaxValue  \* bound on the value

ASSUME MaxValueNat == MaxValue \in Nat

VARIABLES
  value,    \* value_
  base,     \* what set or compare_and_set last stored
  updates   \* how many updates have returned since

atomicVars == <<value, base, updates>>

AtomicTypeOK ==
  /\ value \in 0..MaxValue
  /\ base \in 0..MaxValue
  /\ updates \in 0..MaxValue

AtomicInit ==
  /\ value = 0
  /\ base = 0
  /\ updates = 0
-----------------------------------------------------------------------------
Stores(v) ==
  /\ value' = v
  /\ base' = v
  /\ updates' = 0

Set(p, v) ==
  /\ In(p, "idle")
  /\ Stores(v)
  /\ UNCHANGED callVars

CompareAndSet(p, expected, desired) ==
  /\ In(p, "idle")
  /\ value = expected
  /\ Stores(desired)
  /\ UNCHANGED callVars

\* get, after which the function runs.
UpdateReads(p) ==
  /\ \/ In(p, "idle")
     \/ In(p, "update") /\ call[p].number # value
  /\ call' = [call EXCEPT ![p] =
                [Idle EXCEPT !.pc = "update", !.number = value]]
  /\ UNCHANGED <<atomicVars, cancelled>>

\* The outcome is stored whatever the value is by then.
BugMatches(p) == TRUE

\* compare_and_set finds the value that get returned.
Matches(p) == value = call[p].number

UpdateStores(p) ==
  /\ In(p, "update")
  /\ Matches(p)
  /\ call[p].number < MaxValue
  /\ value' = call[p].number + 1
  /\ updates' = updates + 1
  /\ Returns(p)
  /\ UNCHANGED <<base, cancelled>>

\* The function throws.
UpdateAbandoned(p) ==
  /\ In(p, "update")
  /\ Returns(p)
  /\ UNCHANGED <<atomicVars, cancelled>>

AtomicStep(p) ==
  \/ UpdateReads(p) \/ UpdateStores(p) \/ UpdateAbandoned(p)
  \/ \E v \in 0..MaxValue :
       \/ Set(p, v)
       \/ \E expected \in 0..MaxValue : CompareAndSet(p, expected, v)
=============================================================================
