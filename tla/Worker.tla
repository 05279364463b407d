------------------------------- MODULE Worker -------------------------------
(***************************************************************************)
(* The worker processes of the queue payout-notifications.  BullMQ gives a *)
(* waiting job to one worker, with a lock in Redis that the worker renews  *)
(* while it handles the job.  That the handler has come to its end is      *)
(* known in the worker's process only, until the worker reports it; Redis  *)
(* records the job as completed if the lock is still that worker's.        *)
(*                                                                         *)
(* A lock that is not renewed expires: its worker has died, or is alive    *)
(* and could not renew it in time.  Some running worker finds the job      *)
(* stalled; it waits again, or is given up when that has happened too      *)
(* often.  So a job may be in the hands of two workers, and be handled     *)
(* again after it was handled: delivery is at least once.  The handler has *)
(* nothing that can throw, so the three attempts of defaultJobOptions      *)
(* never come to bear.                                                     *)
(***************************************************************************)
EXTENDS Payouts, FiniteSets

CONSTANTS
  Workers,  \* the processes that may run the worker script
  NoJob,    \* what an idle worker handles
  MaxStalls \* BullMQ's maxStalledCount, 1 unless set

ASSUME WorkerAssumption ==
  /\ IsFiniteSet(Workers)
  /\ Free \notin Workers
  /\ NoJob \notin PayoutIds
  /\ MaxStalls \in Nat

VARIABLES
  running,  \* the workers whose process runs
  handling, \* the job each of them has taken and not reported
  done,     \* the workers whose handler has come to its end
  notices,  \* how often the handler of each job has come to its end
  claim,    \* Redis: the worker that a job was given to last, or Free
  stalls,   \* Redis: how often a job was found stalled
  completed \* Redis: the jobs recorded as completed

queueVars  == <<claim, stalls, completed>>
workerVars == <<running, handling, done, notices, queueVars>>

WorkerInit ==
  /\ running = Workers
  /\ handling = [w \in Workers |-> NoJob]
  /\ done = {}
  /\ notices = [p \in PayoutIds |-> 0]
  /\ claim = [p \in PayoutIds |-> Free]
  /\ stalls = [p \in PayoutIds |-> 0]
  /\ completed = {}

GivenUp(p) == stalls[p] > MaxStalls

\* Mutated form: a stalled job is left where it was.
WaitingUnstalled(p) ==
  /\ p \in jobs \ completed
  /\ claim[p] = Free
  /\ stalls[p] = 0

Waiting(p) ==
  /\ p \in jobs \ completed
  /\ claim[p] = Free
  /\ ~ GivenUp(p)

\* The worker that the job was given to has died, or has turned to another.
Abandoned(p) == claim[p] \in Workers /\ handling[claim[p]] # p

-----------------------------------------------------------------------------
TakeJob(w) ==
  /\ w \in running
  /\ handling[w] = NoJob
  /\ \E p \in PayoutIds :
       /\ Waiting(p)
       /\ handling' = [handling EXCEPT ![w] = p]
       /\ claim' = [claim EXCEPT ![p] = w]
  /\ UNCHANGED <<running, done, notices, stalls, completed>>

\* Mutated form: the timer is not awaited, and the handler ends before it.
EndUnawaited(w) ==
  /\ handling[w] # NoJob
  /\ w \notin done
  /\ done' = done \union {w}
  /\ UNCHANGED <<running, handling, notices, queueVars>>

(* The handler has waited for its timer and written its notice.            *)
EndHandler(w) ==
  /\ handling[w] # NoJob
  /\ w \notin done
  /\ done' = done \union {w}
  /\ notices' = [notices EXCEPT ![handling[w]] = @ + 1]
  /\ UNCHANGED <<running, handling, queueVars>>

Release(w) ==
  /\ handling' = [handling EXCEPT ![w] = NoJob]
  /\ done' = done \ {w}

CompleteJob(w) ==
  /\ w \in done
  /\ claim[handling[w]] = w
  /\ Release(w)
  /\ completed' = completed \union {handling[w]}
  /\ claim' = [claim EXCEPT ![handling[w]] = Free]
  /\ UNCHANGED <<running, notices, stalls>>

(* The lock has expired, whether or not that was found: Redis answers that *)
(* the job has no lock or another worker's, and the worker goes on.        *)
RefuseReport(w) ==
  /\ w \in done
  /\ Release(w)
  /\ UNCHANGED <<running, notices, queueVars>>

(* A running worker finds that the lock of a job has expired.              *)
StallJob(p) ==
  /\ running # {}
  /\ claim[p] # Free
  /\ claim' = [claim EXCEPT ![p] = Free]
  /\ stalls' = [stalls EXCEPT ![p] = @ + 1]
  /\ UNCHANGED <<running, handling, done, notices, completed>>

(* The process dies, with or without a job in its hands.                   *)
WorkerDies(w) ==
  /\ w \in running
  /\ running' = running \ {w}
  /\ Release(w)
  /\ UNCHANGED <<notices, queueVars>>

(* docker-compose has no restart policy: somebody starts it again, or not. *)
WorkerStarts(w) ==
  /\ w \in Workers \ running
  /\ running' = running \union {w}
  /\ UNCHANGED <<handling, done, notices, queueVars>>

WorkerNext ==
  \/ \E w \in Workers :
       \/ TakeJob(w) \/ EndHandler(w) \/ CompleteJob(w) \/ RefuseReport(w)
       \/ WorkerDies(w) \/ WorkerStarts(w)
  \/ \E p \in PayoutIds : StallJob(p)
=============================================================================
