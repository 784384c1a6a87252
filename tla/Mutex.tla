-------------------------------- MODULE Mutex --------------------------------
(***************************************************************************)
(* RuntimeMutex: a lock that is granted in the order of arrival, is not    *)
(* reentrant, and whose waiters may time out or be cancelled; synchronize  *)
(* runs a function between lock and unlock.  A reentrant lock and an       *)
(* unlock by another than the owner are errors that change nothing.        *)
(***************************************************************************)
EXTENDS SyncCalls

CONSTANT MaxSections  \* bound on the nested synchronize functions of a caller

ASSUME MaxSectionsNat == MaxSections \in Nat

VARIABLES
  owner,     \* owner_id_ and locked_
  waiters,   \* waiters_
  sections   \* how many functions of synchronize each caller is inside

mutexVars == <<owner, waiters, sections>>

MutexTypeOK ==
  /\ owner \in Procs \cup {None}
  /\ waiters \in Seq(Procs)
  /\ sections \in [Procs -> 0..MaxSections]

MutexInit ==
  /\ owner = None
  /\ waiters = <<>>
  /\ sections = [p \in Procs |-> 0]
-----------------------------------------------------------------------------
\* p is the owner now, inside one more function if it called synchronize.
Owns(p, scoped) ==
  /\ owner' = p
  /\ sections' = IF scoped THEN [sections EXCEPT ![p] = @ + 1] ELSE sections

\* A new caller takes a free mutex although others wait for it.
BugFree == owner = None

\* Nobody owns the mutex and nobody waits for it.
Free == owner = None /\ waiters = <<>>

MayEnter(p, scoped) == scoped => sections[p] < MaxSections

LockNow(p, scoped) ==
  /\ In(p, "idle") /\ MayEnter(p, scoped)
  /\ Free
  /\ Owns(p, scoped)
  /\ UNCHANGED <<waiters, callVars>>

LockWait(p, scoped, timeout) ==
  /\ In(p, "idle") /\ MayEnter(p, scoped)
  /\ owner # p /\ ~Free
  /\ MayWait(p, timeout)
  /\ waiters' = Append(waiters, p)
  /\ call' = [call EXCEPT ![p] = [Idle EXCEPT !.pc = "lock", !.scoped = scoped,
                                              !.timed = timeout = "later"]]
  /\ UNCHANGED <<owner, sections, cancelled>>

\* It is the turn of p.
Granted(p) == owner = None /\ Head(waiters) = p

\* A waiter that finds its turn come takes the mutex, also when its deadline
\* passed or its task was cancelled meanwhile.
Lock(p) ==
  /\ In(p, "lock")
  /\ Granted(p)
  /\ Owns(p, call[p].scoped)
  /\ waiters' = Tail(waiters)
  /\ Returns(p)
  /\ UNCHANGED cancelled

\* A waiter that gives up stays in the queue.
BugWithout(p) == waiters

\* remove_waiter_locked
Without(p) == RemoveAt(waiters, CHOOSE i \in DOMAIN waiters : waiters[i] = p)

LockGivesUp(p) ==
  /\ In(p, "lock")
  /\ ~Granted(p)
  /\ GivesUp(p)
  /\ waiters' = Without(p)
  /\ Returns(p)
  /\ UNCHANGED <<owner, sections, cancelled>>

Unlock(p) ==
  /\ In(p, "idle")
  /\ owner = p
  /\ owner' = None
  /\ UNCHANGED <<waiters, sections, callVars>>

\* The owner is not looked at.
BugUnlocked(p) == None

\* unlock at the end of synchronize fails if the function unlocked the mutex itself.
Unlocked(p) == IF owner = p THEN None ELSE owner

\* The function returns or throws.
EndSection(p) ==
  /\ In(p, "idle")
  /\ sections[p] > 0
  /\ sections' = [sections EXCEPT ![p] = @ - 1]
  /\ owner' = Unlocked(p)
  /\ UNCHANGED <<waiters, callVars>>

MutexPoll(p) == Lock(p) \/ LockGivesUp(p)

MutexStep(p) ==
  \/ MutexPoll(p) \/ Unlock(p) \/ EndSection(p)
  \/ \E scoped \in BOOLEAN :
       LockNow(p, scoped) \/ \E timeout \in Timeouts : LockWait(p, scoped, timeout)
=============================================================================
