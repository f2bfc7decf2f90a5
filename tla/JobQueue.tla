------------------------------ MODULE JobQueue ------------------------------
(***************************************************************************)
(* The Redis job queue and its worker (cache.enqueue and worker.py): three *)
(* lists, a lease that admits one worker, recovery of what a predecessor   *)
(* left, three attempts and a list of dead jobs.                           *)
(*                                                                         *)
(* Lists are kept as Redis keeps them, the newest entry at the left: LPUSH *)
(* prepends, BRPOPLPUSH and RPOPLPUSH take the last entry, LREM removes    *)
(* the leftmost entry that is EQUAL to the message.  An entry is its text: *)
(* two jobs with the same name, payload and attempts are the same entry.   *)
(***************************************************************************)
EXTENDS Naturals, Sequences, SequencesExt

CONSTANTS
  Jobs,        \* the distinct jobs (a handler's name with its payload)
  Malformed,   \* those no handler understands
  Workers,     \* worker processes
  MayStall,    \* whether a live worker's lease may run out (it sleeps 120 s)
  MaxEnqueues, \* bound: how often each job is enqueued
  MaxFaults,   \* bound: crashes, shutdowns and stalls
  MaxFailures, \* bound: failed runs of each job
  None, Orphan

ASSUME JobQueueAssumption ==
  /\ Malformed \subseteq Jobs
  /\ MayStall \in BOOLEAN
  /\ MaxEnqueues \in Nat /\ MaxFaults \in Nat /\ MaxFailures \in Nat
  /\ {None, Orphan} \cap Workers = {}
  /\ None \notin [job : Jobs, attempts : Nat]

VARIABLES
  jobs, processing, dead,  \* the lists bureau:jobs, :processing and :dead
  lease,     \* the worker that holds bureau:worker:lease; Orphan: one that died
  worker,    \* the phase of each process and the entry it is busy with
  enqueued,  \* how often each job was enqueued
  faults,    \* faults so far
  failures,  \* history: failed runs of each job
  owed       \* history: enqueued, and no run begun since then has settled it

queueVars == <<jobs, processing, dead, lease, worker, enqueued, faults, failures, owed>>

Attempts == 3

\* An entry that process_job accepts, and one as it may stand in the dead list.
Runnable == [job : Jobs, attempts : 0..(Attempts - 1)]
Entry    == [job : Jobs, attempts : 0..Attempts]

Phases == {"down", "waiting", "recovering", "polling", "running", "finished"}

\* covers: the job was not enqueued again since the run took its entry.
Process == [phase : Phases, raw : Runnable \cup {None}, covers : BOOLEAN, failed : BOOLEAN]

At(phase) == [phase |-> phase, raw |-> None, covers |-> FALSE, failed |-> FALSE]

Live == {"recovering", "polling", "running", "finished"}

-----------------------------------------------------------------------------
QueueInit ==
  /\ jobs = <<>> /\ processing = <<>> /\ dead = <<>>
  /\ lease = None
  /\ worker = [w \in Workers |-> At("down")]
  /\ enqueued = [j \in Jobs |-> 0]
  /\ faults = 0
  /\ failures = [j \in Jobs |-> 0]
  /\ owed = [j \in Jobs |-> FALSE]

\* enqueue(): LPUSH of a first attempt.
Enqueue(j) ==
  /\ enqueued[j] < MaxEnqueues
  /\ jobs' = <<[job |-> j, attempts |-> 0]>> \o jobs
  /\ enqueued' = [enqueued EXCEPT ![j] = @ + 1]
  /\ owed' = [owed EXCEPT ![j] = TRUE]
  /\ worker' = [w \in Workers |-> IF worker[w].raw # None /\ worker[w].raw.job = j
                                  THEN [worker[w] EXCEPT !.covers = FALSE]
                                  ELSE worker[w]]
  /\ UNCHANGED <<processing, dead, lease, faults, failures>>

\* A process starts and asks for the lease.
Boot(w) ==
  /\ worker[w].phase = "down"
  /\ worker' = [worker EXCEPT ![w] = At("waiting")]
  /\ UNCHANGED <<jobs, processing, dead, lease, enqueued, faults, failures, owed>>

\* Mutant of LeaseFree: the lease is taken without asking who holds it.
LeaseIgnored == TRUE

LeaseFree == lease = None

Acquire(w) ==
  /\ worker[w].phase = "waiting"
  /\ LeaseFree
  /\ lease' = w
  /\ worker' = [worker EXCEPT ![w] = At("recovering")]
  /\ UNCHANGED <<jobs, processing, dead, enqueued, faults, failures, owed>>

\* The lease outlives a dead holder by 120 s and the wait lasts 130: a process
\* gives up only on a holder that is alive.
GiveUp(w) ==
  /\ worker[w].phase = "waiting"
  /\ lease \in Workers
  /\ worker' = [worker EXCEPT ![w] = At("down")]
  /\ UNCHANGED <<jobs, processing, dead, lease, enqueued, faults, failures, owed>>

\* One RPOPLPUSH of the recovery loop; the loop ends when it returns nothing.
Recover(w) ==
  /\ worker[w].phase = "recovering"
  /\ processing # <<>>
  /\ jobs' = <<Last(processing)>> \o jobs
  /\ processing' = Front(processing)
  /\ UNCHANGED <<dead, lease, worker, enqueued, faults, failures, owed>>

\* Mutant of NothingLeft: the worker starts without recovering.
NothingAsked == TRUE

NothingLeft == processing = <<>>

Recovered(w) ==
  /\ worker[w].phase = "recovering"
  /\ NothingLeft
  /\ worker' = [worker EXCEPT ![w] = At("polling")]
  /\ UNCHANGED <<jobs, processing, dead, lease, enqueued, faults, failures, owed>>

-----------------------------------------------------------------------------
\* Mutant of Reserved: a plain BRPOP, nothing stays in the processing list.
Popped(raw) == processing

Reserved(raw) == <<raw>> \o processing

\* BRPOPLPUSH: the oldest job moves to the processing list.
Take(w) ==
  /\ worker[w].phase = "polling"
  /\ jobs # <<>>
  /\ jobs' = Front(jobs)
  /\ processing' = Reserved(Last(jobs))
  /\ worker' = [worker EXCEPT ![w] = [phase |-> "running", raw |-> Last(jobs),
                                      covers |-> TRUE, failed |-> FALSE]]
  /\ UNCHANGED <<dead, lease, enqueued, faults, failures, owed>>

\* The handler returns, raises, or is stopped after 300 s; a job that no
\* handler understands is not run.
Finish(w, failed) ==
  LET j == worker[w].raw.job
  IN /\ worker[w].phase = "running"
     /\ failed => j \notin Malformed /\ failures[j] < MaxFailures
     /\ worker' = [worker EXCEPT ![w].phase = "finished", ![w].failed = failed]
     /\ failures' = IF failed THEN [failures EXCEPT ![j] = @ + 1] ELSE failures
     /\ owed' = [owed EXCEPT ![j] = @ /\ ~(worker[w].covers /\ ~failed)]
     /\ UNCHANGED <<jobs, processing, dead, lease, enqueued, faults>>

\* Mutants of MayRetry: off by one on either side.
MayRetryOnce(raw) == raw.attempts + 2 < Attempts
MayRetryLate(raw) == raw.attempts < Attempts

MayRetry(raw) == raw.attempts + 1 < Attempts

\* The transaction that ends a run: a failed job goes back behind the others or
\* to the dead list, and the message leaves the processing list.
Acknowledge(w) ==
  LET raw     == worker[w].raw
      again   == [raw EXCEPT !.attempts = @ + 1]
      failed  == worker[w].failed
      retried == failed /\ MayRetry(raw)
      killed  == failed /\ ~MayRetry(raw)
  IN /\ worker[w].phase = "finished"
     /\ jobs' = IF retried THEN <<again>> \o jobs ELSE jobs
     /\ dead' = IF killed THEN <<again>> \o dead
                ELSE IF raw.job \in Malformed THEN <<raw>> \o dead
                ELSE dead
     /\ processing' = RemoveFirst(processing, raw)
     /\ owed' = [owed EXCEPT ![raw.job] = @ /\ ~(killed /\ worker[w].covers)]
     /\ worker' = [worker EXCEPT ![w] = At("polling")]
     /\ UNCHANGED <<lease, enqueued, faults, failures>>

-----------------------------------------------------------------------------
\* The process is killed at any point; Redis keeps its lease until it expires.
Crash(w) ==
  /\ worker[w].phase # "down"
  /\ faults < MaxFaults
  /\ faults' = faults + 1
  /\ worker' = [worker EXCEPT ![w] = At("down")]
  /\ lease' = IF lease = w THEN Orphan ELSE lease
  /\ UNCHANGED <<jobs, processing, dead, enqueued, failures, owed>>

\* SIGTERM cancels the tasks, a running handler included, and gives the lease back.
Stop(w) ==
  /\ worker[w].phase \in Live
  /\ faults < MaxFaults
  /\ faults' = faults + 1
  /\ worker' = [worker EXCEPT ![w] = At("down")]
  /\ lease' = IF lease = w THEN None ELSE lease
  /\ UNCHANGED <<jobs, processing, dead, enqueued, failures, owed>>

\* The 120 seconds of a dead holder end.
ExpireLease ==
  /\ lease = Orphan
  /\ lease' = None
  /\ UNCHANGED <<jobs, processing, dead, worker, enqueued, faults, failures, owed>>

\* A live holder did not extend its lease in time: its host slept.
Stall ==
  /\ MayStall /\ faults < MaxFaults
  /\ lease \in Workers
  /\ lease' = None
  /\ faults' = faults + 1
  /\ UNCHANGED <<jobs, processing, dead, worker, enqueued, failures, owed>>

\* The heartbeat of a worker without the lease raises and cancels its tasks.
Evicted(w) ==
  /\ worker[w].phase \in {"polling", "running", "finished"}
  /\ lease # w
  /\ worker' = [worker EXCEPT ![w] = At("down")]
  /\ UNCHANGED <<jobs, processing, dead, lease, enqueued, faults, failures, owed>>

-----------------------------------------------------------------------------
QueueNext ==
  \/ \E j \in Jobs : Enqueue(j)
  \/ \E w \in Workers : \/ Boot(w) \/ Acquire(w) \/ GiveUp(w) \/ Recover(w) \/ Recovered(w)
                        \/ Take(w) \/ Acknowledge(w)
                        \/ Crash(w) \/ Stop(w) \/ Evicted(w)
  \/ \E w \in Workers, failed \in BOOLEAN : Finish(w, failed)
  \/ ExpireLease
  \/ Stall

QueueSpec == QueueInit /\ [][QueueNext]_queueVars

\* Compose restarts a worker that ended, Redis expires a dead lease, a handler
\* ends within 300 s, and the event loop runs what is ready.
QueueFairness ==
  /\ WF_queueVars(ExpireLease)
  /\ \A w \in Workers :
       /\ WF_queueVars(Boot(w))
       /\ WF_queueVars(Acquire(w))
       /\ WF_queueVars(Recover(w) \/ Recovered(w))
       /\ WF_queueVars(Take(w))
       /\ WF_queueVars(Finish(w, TRUE) \/ Finish(w, FALSE))
       /\ WF_queueVars(Acknowledge(w))
       /\ WF_queueVars(Evicted(w))

FairQueueSpec == QueueSpec /\ QueueFairness

-----------------------------------------------------------------------------
\* Every variable has the shape of the lists, the lease and the processes.
QueueTypeOK ==
  /\ jobs \in Seq(Runnable) /\ processing \in Seq(Runnable) /\ dead \in Seq(Entry)
  /\ lease \in Workers \cup {None, Orphan}
  /\ worker \in [Workers -> Process]
  /\ enqueued \in [Jobs -> 0..MaxEnqueues]
  /\ faults \in 0..MaxFaults
  /\ failures \in [Jobs -> 0..MaxFailures]
  /\ owed \in [Jobs -> BOOLEAN]

Holds(list, j) == \E i \in DOMAIN list : list[i].job = j

\* At least once: wherever a worker is killed, a job whose last enqueue no run
\* has answered yet still has an entry to be run from.
NoJobLost == \A j \in Jobs : owed[j] => Holds(jobs, j) \/ Holds(processing, j)

\* The lease admits one worker at a time: what a process recovers from the
\* processing list is never being run by another.
OneRunner ==
  \A v, w \in Workers : worker[v].phase \in Live /\ worker[w].phase \in Live => v = w

\* A well-formed job is set aside only after three runs of it failed, however
\* often it was interrupted and recovered in between.
DeadAfterThreeFailures ==
  \A j \in Jobs \ Malformed : Holds(dead, j) => failures[j] >= Attempts

\* An enqueued job is eventually settled: done by a run that began after it was
\* enqueued, or set aside for inspection.
JobsSettle == \A j \in Jobs : owed[j] ~> ~owed[j]
=============================================================================
