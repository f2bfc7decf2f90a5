----------------------------- MODULE WebhookJob -----------------------------
(***************************************************************************)
(* Webhooks of an organization: a delivery row per event and webhook,      *)
(* created in the transaction of the event, and deliver_webhook, which     *)
(* posts it, records the answer and queues itself again while attempts     *)
(* remain.  The post happens before the commit that counts it.             *)
(***************************************************************************)
EXTENDS WorkerJobs

CONSTANTS
  Hooks,       \* webhooks of the organization
  Events,      \* occurrences that webhooks are told of
  MaxAttempts  \* settings.webhook_max_attempts

ASSUME HooksAssumption == MaxAttempts \in Nat \ {0}

VARIABLES
  hook,      \* webhooks: new, active or deleted
  delivery,  \* webhook_deliveries by event and webhook
  posts,     \* history: posts of each delivery that reached the receiver
  taken      \* history: those the receiver accepted

hookVars == <<hook, delivery, posts, taken>>

Deliveries == Events \X Hooks
HookJob(d) == [name |-> "deliver_webhook", of |-> d]

NoDelivery == [status |-> "none", attempts |-> 0]
Pending    == [status |-> "pending", attempts |-> 0]
Open(d)    == delivery[d].status \in {"pending", "retrying"}

HooksInit ==
  /\ hook = [h \in Hooks |-> "new"]
  /\ delivery = [d \in Deliveries |-> NoDelivery]
  /\ posts = [d \in Deliveries |-> 0] /\ taken = [d \in Deliveries |-> 0]

CreateWebhook(h) ==
  /\ hook[h] = "new"
  /\ hook' = [hook EXCEPT ![h] = "active"]
  /\ UNCHANGED <<jobVars, delivery, posts, taken>>

\* Deleting a webhook deletes its deliveries with it.
DeleteWebhook(h) ==
  /\ hook[h] = "active"
  /\ hook' = [hook EXCEPT ![h] = "deleted"]
  /\ delivery' = [d \in Deliveries |-> IF d[2] = h THEN NoDelivery ELSE delivery[d]]
  /\ UNCHANGED <<jobVars, posts, taken>>

\* create_deliveries: one row per active webhook of the organization.
Addressed(events) == {d \in events \X Hooks : hook[d[2]] = "active"}
WithDeliveries(ds) == [d \in Deliveries |-> IF d \in ds THEN Pending ELSE delivery[d]]

\* An API handler that reports an event, or the test of a webhook: the rows are
\* committed with the event, then each is enqueued.
ApiEvent(e) ==
  LET ds == Addressed({e})
  IN /\ ds # {} /\ \A d \in ds : delivery[d] = NoDelivery
     /\ delivery' = WithDeliveries(ds)
     /\ outbox' = outbox \cup {HookJob(d) : d \in ds}
     /\ UNCHANGED <<queue, run, dead, lost, faults, hook, posts, taken>>

-----------------------------------------------------------------------------
Carried == run.entry.job.of

\* A delivery that is gone or delivered needs nothing; any other is tried, a
\* failed one too.
Skips(d) == delivery[d] = NoDelivery \/ delivery[d].status = "delivered"

BeginDelivery ==
  /\ Running("deliver_webhook", "begin")
  /\ run' = IF Skips(Carried) THEN Done ELSE Go("posting", [attempts |-> delivery[Carried].attempts + 1])
  /\ UNCHANGED <<queue, dead, outbox, lost, faults, hookVars>>

\* The webhook was deleted since the row was loaded: the update of a row that
\* is gone raises.
WebhookGone ==
  /\ Running("deliver_webhook", "posting")
  /\ hook[Carried[2]] = "deleted"
  /\ run' = Failed
  /\ UNCHANGED <<queue, dead, outbox, lost, faults, hookVars>>

\* The post: accepted; accepted with its answer lost; refused; or never sent,
\* because the name does not resolve to a public address.
Post(outcome) ==
  /\ Running("deliver_webhook", "posting")
  /\ hook[Carried[2]] = "active"
  /\ posts' = IF outcome = "unreached" THEN posts ELSE [posts EXCEPT ![Carried] = @ + 1]
  /\ taken' = IF outcome \in {"accepted", "unheard"} THEN [taken EXCEPT ![Carried] = @ + 1] ELSE taken
  /\ run' = Go("posted", [attempts |-> run.memo.attempts, ok |-> outcome = "accepted"])
  /\ UNCHANGED <<queue, dead, outbox, lost, faults, hook, delivery>>

\* Mutant of Outcome: the limit is checked as > instead of >=.
OutcomeLate(m) == IF m.ok THEN "delivered" ELSE IF m.attempts > MaxAttempts THEN "failed" ELSE "retrying"
Outcome(m)     == IF m.ok THEN "delivered" ELSE IF m.attempts >= MaxAttempts THEN "failed" ELSE "retrying"

\* The result is committed; a delivery to be retried is queued by the same job.
\* Mutant of Continues: the job ends before it has queued the retry.
ContinuesNever(status) == FALSE
Continues(status) == status = "retrying"

RecordPost ==
  LET result == [status |-> Outcome(run.memo), attempts |-> run.memo.attempts]
      gone   == delivery[Carried] = NoDelivery
  IN /\ Running("deliver_webhook", "posted")
     /\ delivery' = IF gone THEN delivery ELSE [delivery EXCEPT ![Carried] = result]
     /\ run' = IF gone THEN Failed
               ELSE GoAnnounce(IF Continues(result.status) THEN {HookJob(Carried)} ELSE {})
     /\ UNCHANGED <<queue, dead, outbox, lost, faults, hook, posts, taken>>

HookStep == BeginDelivery \/ WebhookGone \/ RecordPost
            \/ \E o \in {"accepted", "unheard", "refused", "unreached"} : Post(o)

-----------------------------------------------------------------------------
\* A receiver is posted an event at most MaxAttempts times, and once more for
\* each interrupted run; it is recorded as delivered only if it accepted.
PostsBounded ==
  \A d \in Deliveries :
    /\ posts[d] <= MaxAttempts + faults
    /\ delivery[d].status = "delivered" => taken[d] > 0

\* A delivery whose job was enqueued ends delivered, failed, deleted with its
\* webhook, or in the list of dead jobs: a retry is queued after the commit that
\* asks for it and before the run is acknowledged, so that a worker killed in
\* between repeats the run.
DeliveriesSettle ==
  \A d \in Deliveries : Open(d) ~> (~Open(d) \/ HookJob(d) \in dead \/ HookJob(d) \in lost)
=============================================================================
