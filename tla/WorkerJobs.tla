----------------------------- MODULE WorkerJobs -----------------------------
(***************************************************************************)
(* What the handlers of worker.py see of the job queue: entries that are   *)
(* taken one at a time, stay reserved while they run, go back when the run *)
(* is interrupted, and are retried twice when it raises.  Module JobQueue  *)
(* shows that the Redis lists and the lease keep this contract; here the   *)
(* order of the entries does not matter and they form a bag.               *)
(***************************************************************************)
EXTENDS Naturals, Bags, Nothing

CONSTANTS
  Jobs,       \* a handler's name with its payload, as a record with field name
  MaxFaults   \* bound: crashes, raised errors and dead API processes

ASSUME JobsAssumption == MaxFaults \in Nat

VARIABLES
  queue,   \* bag of entries in bureau:jobs
  run,     \* the run of the one worker: phase, entry and a record of what it remembers
  dead,    \* jobs set aside after three failed runs
  outbox,  \* jobs the API has committed the cause of and not yet enqueued
  lost,    \* history: jobs that were never enqueued because a process died
  faults   \* faults so far

jobVars == <<queue, run, dead, outbox, lost, faults>>

Tries == 3

First(j) == [job |-> j, tries |-> 0]
Idle     == [phase |-> "idle", entry |-> None, memo |-> None]
Done     == [run EXCEPT !.phase = "done", !.memo = None]
Failed   == [run EXCEPT !.phase = "failed", !.memo = None]

Running(name, phase) == run.phase = phase /\ run.entry.job.name = name
Go(phase, memo)      == [run EXCEPT !.phase = phase, !.memo = memo]

JobsInit ==
  /\ queue = EmptyBag /\ run = Idle
  /\ dead = {} /\ outbox = {} /\ lost = {} /\ faults = 0

\* enqueue() by the API after its commit.
ApiEnqueue(j) ==
  /\ j \in outbox
  /\ outbox' = outbox \ {j}
  /\ queue' = queue (+) SetToBag({First(j)})
  /\ UNCHANGED <<run, dead, lost, faults>>

\* The API process dies, or Redis refuses, between the commit and enqueue().
ApiDies(j) ==
  /\ j \in outbox /\ faults < MaxFaults
  /\ outbox' = outbox \ {j}
  /\ lost' = lost \cup {j}
  /\ faults' = faults + 1
  /\ UNCHANGED <<queue, run, dead>>

Take(e) ==
  /\ run = Idle /\ e \in BagToSet(queue)
  /\ queue' = queue (-) SetToBag({e})
  /\ run' = [phase |-> "begin", entry |-> e, memo |-> None]
  /\ UNCHANGED <<dead, outbox, lost, faults>>

\* process_job acknowledges a run: a failed one is queued again or set aside.
Retries(e) == e.tries + 1 < Tries

Acknowledge ==
  LET e == run.entry
      again == [e EXCEPT !.tries = @ + 1]
  IN /\ run.phase \in {"done", "failed"}
     /\ run' = Idle
     /\ queue' = IF run.phase = "failed" /\ Retries(e) THEN queue (+) SetToBag({again}) ELSE queue
     /\ dead'  = IF run.phase = "failed" /\ ~Retries(e) THEN dead \cup {e.job} ELSE dead
     /\ UNCHANGED <<outbox, lost, faults>>

\* Jobs a handler has committed the cause of and has yet to enqueue itself, and
\* that a repetition of its run would not enqueue.
Owing == IF run.phase = "announce" THEN run.memo.jobs \ {run.entry.job} ELSE {}

GoAnnounce(js) == IF js = {} THEN Done ELSE Go("announce", [jobs |-> js])

\* enqueue() by a handler after its own commit.
Announce(j) ==
  /\ run.phase = "announce" /\ j \in run.memo.jobs
  /\ queue' = queue (+) SetToBag({First(j)})
  /\ run' = GoAnnounce(run.memo.jobs \ {j})
  /\ UNCHANGED <<dead, outbox, lost, faults>>

\* The handler raises (a store, database or time limit error); its open
\* transaction is rolled back.
Raise ==
  /\ run.phase \notin {"idle", "done", "failed"} /\ faults < MaxFaults
  /\ faults' = faults + 1
  /\ lost' = lost \cup Owing
  /\ run' = Failed
  /\ UNCHANGED <<queue, dead, outbox>>

\* Mutant of Recovered: what was running is gone with the process.
Forgotten(e) == queue

Recovered(e) == queue (+) SetToBag({e})

\* The worker is killed; its successor moves the reserved entry back.
Crash ==
  /\ run # Idle /\ faults < MaxFaults
  /\ faults' = faults + 1
  /\ lost' = lost \cup Owing
  /\ queue' = Recovered(run.entry)
  /\ run' = Idle
  /\ UNCHANGED <<dead, outbox>>
=============================================================================
