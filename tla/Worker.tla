------------------------------- MODULE Worker -------------------------------
(***************************************************************************)
(* The worker with its three handlers and the API that feeds it: one run   *)
(* at a time, interrupted anywhere, with the photographs, the matches and  *)
(* the webhook deliveries it works on.                                     *)
(***************************************************************************)
EXTENDS MediaJob, MatchJobs

CONSTANT Workloads  \* bound: which requests a behaviour has

ASSUME WorkAssumption == ListingOf \in [Photos -> Listings \cup {None}]

VARIABLE workload   \* those it has: a set of "upload", "approve", "integrate" and "report"

coreVars == <<jobVars, mediaVars, hookVars, matchVars>>
workVars == <<coreVars, workload>>

WorkInit == workload \in Workloads /\ JobsInit /\ MediaInit /\ HooksInit /\ MatchInit

\* What the worker does when nothing goes wrong.
WorkerStep ==
  \/ /\ (\E e \in BagToSet(queue) : Take(e)) \/ Acknowledge \/ \E j \in Jobs : Announce(j)
     /\ UNCHANGED <<mediaVars, hookVars, matchVars>>
  \/ MediaStep /\ UNCHANGED <<hookVars, matchVars>>
  \/ HookStep /\ UNCHANGED <<mediaVars, matchVars>>
  \/ MatchStep /\ UNCHANGED mediaVars

Enqueues(j) == ApiEnqueue(j) /\ UNCHANGED <<mediaVars, hookVars, matchVars>>

Fault ==
  /\ Raise \/ Crash \/ \E j \in Jobs : ApiDies(j)
  /\ UNCHANGED <<mediaVars, hookVars, matchVars>>

\* The requests that cause jobs, and the worker's repair task.
\* An upload sends the publication it belongs to back to the moderators.
Uploads ==
  \E m \in Photos :
    \/ /\ \E c \in {"raw", "bad", "video"} : CompleteUpload(m, c)
       /\ open' = open \ {ListingOf[m]}
       /\ UNCHANGED <<hookVars, candidate, told, approvals>>
    \/ RepairVector(m) /\ UNCHANGED <<hookVars, matchVars>>

Approves ==
  /\ \E l \in Listings : ApproveListing(l) \/ WithdrawListing(l)
  /\ UNCHANGED mediaVars

Integrates ==
  /\ \E h \in Hooks : CreateWebhook(h) \/ DeleteWebhook(h)
  /\ UNCHANGED <<mediaVars, matchVars>>

Reports ==
  /\ \E e \in Events \ Pairs : ApiEvent(e)
  /\ UNCHANGED <<mediaVars, matchVars>>

WorkNext ==
  /\ \/ WorkerStep \/ Fault \/ \E j \in Jobs : Enqueues(j)
     \/ "upload" \in workload /\ Uploads
     \/ "approve" \in workload /\ Approves
     \/ "integrate" \in workload /\ Integrates
     \/ "report" \in workload /\ Reports
  /\ UNCHANGED workload

WorkSpec == WorkInit /\ [][WorkNext]_workVars

\* The worker's loop runs what is ready, a handler ends or is stopped after
\* 300 s, and the API process enqueues what it committed unless it dies.
WorkFairness ==
  /\ WF_coreVars(WorkerStep)
  /\ WF_coreVars(\E j \in Jobs : Enqueues(j))

FairWorkSpec == WorkSpec /\ WorkFairness
=============================================================================
