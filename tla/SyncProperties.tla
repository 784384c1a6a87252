---------------------------- MODULE SyncProperties ----------------------------
(* What callers of the synchronization objects rely on. *)
EXTENDS Sync

(***************************************************************************)
(* A free mutex that somebody waits for is taken, or everybody stops       *)
(* waiting.  Only the caller at the front of waiters_ takes a mutex that   *)
(* was waited for, so that one that timed out or was cancelled at its turn *)
(* must not be left there (RuntimeMutex::Impl::remove_waiter_locked).      *)
(***************************************************************************)
FreeMutexIsTaken ==
  (owner = None /\ waiters # <<>>) ~> (owner # None \/ waiters = <<>>)

\* A caller that waits for a mutex is overtaken by nobody who came later.
GrantedInTurn ==
  [][ \A i \in DOMAIN waiters :
        owner' # owner /\ owner' # None /\ owner' # waiters[i]
          => \E j \in 1..(i - 1) : owner' = waiters[j] ]_vars

(***************************************************************************)
(* A mutex is handed on, to whom has waited longest, however many others   *)
(* time out, are cancelled or return meanwhile.                            *)
(***************************************************************************)
MutexServesInTurn == FreeMutexIsTaken /\ GrantedInTurn

(***************************************************************************)
(* waiting_ counts the callers inside wait whose generation has not        *)
(* passed, and never reaches parties: a caller that has passed, timed out  *)
(* or was cancelled is not counted for a later generation.                 *)
(***************************************************************************)
ArrivalsCounted ==
  waiting = Cardinality({p \in Procs :
                           In(p, "barrier") /\ call[p].number = generation})

(***************************************************************************)
(* Everybody is told the same result of an awaitable, the one it keeps,    *)
(* whoever of complete, fail, cancel, a cancelled task and a lost pin      *)
(* comes first, and the native wait behind it does not outlive it.         *)
(***************************************************************************)
OneResult ==
  /\ told \subseteq {result}
  /\ result # "Pending" => wait # "active"

(***************************************************************************)
(* No update of an atomic is lost: the value is what was last set, plus    *)
(* one for each update that has returned since.                            *)
(***************************************************************************)
NoUpdateLost == value = base + updates

(***************************************************************************)
(* A call of scatter_map that answers ok has called the function once with *)
(* every item, however the parts shared them out, and knows of each either *)
(* its value or its failure, under the policy First its value.  One that   *)
(* answers failed has a failure to show, under First just one.             *)
(***************************************************************************)
FlowAnswersTrue ==
  /\ answer = "ok" =>
       /\ completed \cap failures = {} /\ completed \cup failures = Items
       /\ \A i \in Items : runs[i] = 1
       /\ plan.first => failures = {}
  /\ answer = "failed" => plan.first /\ Cardinality(failures) = 1

(***************************************************************************)
(* A call of scatter_map returns, and its parts end, unless they are       *)
(* cancelled before they begin: whether they run out of items, one of them *)
(* fails, or the call times out or is cancelled.                           *)
(***************************************************************************)
FlowEnds ==
  (\E p \in Procs : In(p, "gather"))
    ~> (\A w \in Parts : Ended(w)) /\ (\A p \in Procs : ~In(p, "gather"))
=============================================================================
