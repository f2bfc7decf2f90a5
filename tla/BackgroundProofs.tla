-------------------------- MODULE BackgroundProofs --------------------------
(***************************************************************************)
(* Proofs about module Background: whatever interrupts the worker, for any *)
(* number of photographs, publications, webhooks and browsers.             *)
(***************************************************************************)
EXTENDS Background, FiniteSetTheorems, TLAPS

\* A step of the process is one of the worker's, or one of the push cycle.
LEMMA BackgroundStep ==
  ASSUME [BackgroundNext]_<<workVars, pushVars>>
  PROVE  [WorkNext]_workVars /\ [PushNext]_pushVars
BY DEF BackgroundNext, workVars, pushVars

-----------------------------------------------------------------------------
(* Jobs: what is queued, runs or is about to be queued.                    *)

AnyJob  == {PhotoJob(m) : m \in Photos} \cup {ListingJob(l) : l \in Listings}
           \cup {HookJob(d) : d \in Deliveries}
Entries == [job : AnyJob, tries : 0..2]

IsBag(b) == b \in [DOMAIN b -> Nat \ {0}]
CopiesOf(e, b) == IF e \in DOMAIN b THEN b[e] ELSE 0

JobsTypeOK ==
  /\ IsBag(queue) /\ DOMAIN queue \subseteq Entries
  /\ run = [phase |-> run.phase, entry |-> run.entry, memo |-> run.memo]
  /\ run.phase = "idle" => run = Idle
  /\ run.phase # "idle" => run.entry \in Entries
  /\ run.phase = "announce" => run.memo.jobs \subseteq AnyJob
  /\ outbox \subseteq AnyJob
  /\ faults \in 0..MaxFaults

\* The copies of an entry change with the bag, by one at a time.
LEMMA Adding ==
  ASSUME NEW b, IsBag(b), NEW e
  PROVE  /\ IsBag(b (+) SetToBag({e})) /\ DOMAIN (b (+) SetToBag({e})) = DOMAIN b \cup {e}
         /\ CopiesOf(e, b (+) SetToBag({e})) = CopiesOf(e, b) + 1
         /\ \A x : x # e => CopiesOf(x, b (+) SetToBag({e})) = CopiesOf(x, b)
<1> DEFINE c == b (+) SetToBag({e})
<1>1. c = [x \in DOMAIN b \cup {e} |-> (IF x \in DOMAIN b THEN b[x] ELSE 0) + (IF x = e THEN 1 ELSE 0)]
  <2>1. DOMAIN SetToBag({e}) = {e} /\ SetToBag({e})[e] = 1
    BY DEF SetToBag
  <2> QED  BY <2>1 DEF (+)
<1>2. IsBag(c) /\ DOMAIN c = DOMAIN b \cup {e}
  BY <1>1 DEF IsBag
<1> QED  BY <1>1, <1>2 DEF IsBag, CopiesOf

LEMMA Removing ==
  ASSUME NEW b, IsBag(b), NEW e \in DOMAIN b
  PROVE  /\ IsBag(b (-) SetToBag({e})) /\ DOMAIN (b (-) SetToBag({e})) \subseteq DOMAIN b
         /\ CopiesOf(e, b (-) SetToBag({e})) = CopiesOf(e, b) - 1
         /\ \A x : x # e => CopiesOf(x, b (-) SetToBag({e})) = CopiesOf(x, b)
<1> DEFINE c == b (-) SetToBag({e})
           d == [x \in DOMAIN b |-> IF x = e THEN b[x] - 1 ELSE b[x]]
<1>1. DOMAIN SetToBag({e}) = {e} /\ SetToBag({e})[e] = 1
  BY DEF SetToBag
<1>2. d = [x \in DOMAIN b |-> IF x \in DOMAIN SetToBag({e}) THEN b[x] - SetToBag({e})[x] ELSE b[x]]
  BY <1>1
<1>3. c = [x \in {y \in DOMAIN d : d[y] > 0} |-> d[x]]
  BY <1>2 DEF (-)
<1>4. /\ DOMAIN c = {y \in DOMAIN b : d[y] > 0} /\ \A x \in DOMAIN c : c[x] = d[x]
      /\ c = [x \in DOMAIN c |-> c[x]]
  BY <1>3
<1>5. \A x \in DOMAIN b : b[x] \in Nat /\ b[x] > 0 /\ d[x] = IF x = e THEN b[x] - 1 ELSE b[x]
  BY DEF IsBag
<1> HIDE DEF c, d
<1>6. \A x \in DOMAIN c : c[x] \in Nat \ {0}
  BY <1>4, <1>5
<1>7. IsBag(c)
  BY <1>4, <1>6 DEF IsBag
<1>8. CopiesOf(e, c) = CopiesOf(e, b) - 1
  BY <1>4, <1>5 DEF CopiesOf
<1>9. ASSUME NEW x, x # e PROVE CopiesOf(x, c) = CopiesOf(x, b)
  BY <1>4, <1>5, <1>9 DEF CopiesOf
<1> QED  BY <1>4, <1>7, <1>8, <1>9 DEF c

\* A queue of entries stays one.
LEMMA AddingEntry ==
  ASSUME NEW b, IsBag(b), DOMAIN b \subseteq Entries, NEW e \in Entries
  PROVE  IsBag(b (+) SetToBag({e})) /\ DOMAIN (b (+) SetToBag({e})) \subseteq Entries
<1>1. IsBag(b (+) SetToBag({e})) /\ DOMAIN (b (+) SetToBag({e})) = DOMAIN b \cup {e}
  BY Adding
<1> QED  BY <1>1

\* Where a handler goes on, with the entry it runs.
LEMMA Going ==
  ASSUME JobsTypeOK
  PROVE  /\ \A phase, memo : Go(phase, memo) = [phase |-> phase, entry |-> run.entry, memo |-> memo]
         /\ Done = [phase |-> "done", entry |-> run.entry, memo |-> None]
         /\ Failed = [phase |-> "failed", entry |-> run.entry, memo |-> None]
         /\ \A js : GoAnnounce(js) = IF js = {} THEN Done
                                     ELSE [phase |-> "announce", entry |-> run.entry, memo |-> [jobs |-> js]]
<1>1. run = [phase |-> run.phase, entry |-> run.entry, memo |-> run.memo]
  BY DEF JobsTypeOK
<1>2. ASSUME NEW phase, NEW memo, NEW next, next = [run EXCEPT !.phase = phase, !.memo = memo]
      PROVE  next = [phase |-> phase, entry |-> run.entry, memo |-> memo]
  BY <1>1, <1>2
<1> QED  BY <1>2 DEF Go, Done, Failed, GoAnnounce

\* A job is one of a photograph, of a publication, or of a delivery.
LEMMA JobKinds ==
  ASSUME JobsTypeOK, run.phase # "idle"
  PROVE  /\ run.entry \in Entries /\ run.entry.job \in AnyJob
         /\ run.entry.job.name = "process_media" => Held \in Photos /\ run.entry.job = PhotoJob(Held)
         /\ run.entry.job.name = "match_listing" => Source \in Listings /\ run.entry.job = ListingJob(Source)
         /\ run.entry.job.name = "deliver_webhook" => Carried \in Deliveries /\ run.entry.job = HookJob(Carried)
BY DEF JobsTypeOK, Entries, AnyJob, PhotoJob, ListingJob, HookJob, Held, Source, Carried

\* A handler's step keeps its entry and touches no list.
HandlerStep ==
  /\ run.phase # "idle"
  /\ UNCHANGED <<queue, outbox, faults>>
  /\ run' = [phase |-> run'.phase, entry |-> run.entry, memo |-> run'.memo]
  /\ run'.phase # "idle"
  /\ run'.phase = "announce" => run'.memo.jobs \subseteq AnyJob

LEMMA HandlerStep_JobsTypeOK ==
  ASSUME JobsTypeOK, HandlerStep
  PROVE  JobsTypeOK'
BY DEF JobsTypeOK, HandlerStep

\* A request asks for jobs and leaves the worker alone.
Request ==
  /\ UNCHANGED <<queue, run, faults>>
  /\ outbox' \subseteq AnyJob

LEMMA Request_JobsTypeOK ==
  ASSUME JobsTypeOK, Request
  PROVE  JobsTypeOK'
BY DEF JobsTypeOK, Request

\* The steps of the queue itself.
QueueStep ==
  \/ \E e \in DOMAIN queue : Take(e)
  \/ Acknowledge \/ Raise \/ Crash
  \/ \E j \in Jobs : Announce(j) \/ ApiEnqueue(j) \/ ApiDies(j)

LEMMA QueueStep_JobsTypeOK ==
  ASSUME JobsTypeOK, QueueStep
  PROVE  JobsTypeOK'
<1> USE JobsAssumption
<1>1. ASSUME NEW e \in DOMAIN queue, Take(e) PROVE JobsTypeOK'
  BY <1>1, Removing DEF JobsTypeOK, Take, Idle
<1>2. CASE Acknowledge
  <2> DEFINE again == [run.entry EXCEPT !.tries = @ + 1]
  <2>1. /\ run' = Idle /\ UNCHANGED <<outbox, faults>> /\ run.entry \in Entries
        /\ queue' = queue \/ (run.entry.tries + 1 < 3 /\ queue' = queue (+) SetToBag({again}))
    BY <1>2 DEF JobsTypeOK, Acknowledge, Retries, Tries
  <2>2. run.entry.tries + 1 < 3 => again \in Entries
    <3>1. run.entry.tries \in 0..2 /\ again = [job |-> run.entry.job, tries |-> run.entry.tries + 1]
      BY <2>1 DEF Entries
    <3> QED  BY <2>1, <3>1 DEF Entries
  <2>3. IsBag(queue') /\ DOMAIN queue' \subseteq Entries
    BY <2>1, <2>2, AddingEntry DEF JobsTypeOK
  <2> QED  BY <2>1, <2>3 DEF JobsTypeOK, Idle
<1>3. CASE Raise
  BY <1>3, Going DEF JobsTypeOK, Raise
<1>4. CASE Crash
  <2>1. /\ run' = Idle /\ outbox' = outbox /\ faults' \in 0..MaxFaults /\ run.entry \in Entries
        /\ queue' = queue (+) SetToBag({run.entry})
    BY <1>4 DEF JobsTypeOK, Crash, Recovered
  <2> QED  BY <2>1, AddingEntry DEF JobsTypeOK, Idle
<1>5. ASSUME NEW j \in Jobs, j \in AnyJob PROVE First(j) \in Entries
  BY <1>5 DEF First, Entries
<1>6. ASSUME NEW j \in Jobs, Announce(j) PROVE JobsTypeOK'
  <2>1. /\ run.phase = "announce" /\ j \in run.memo.jobs /\ run.memo.jobs \subseteq AnyJob
        /\ queue' = queue (+) SetToBag({First(j)}) /\ UNCHANGED <<outbox, faults>>
        /\ run' = GoAnnounce(run.memo.jobs \ {j})
    BY <1>6 DEF JobsTypeOK, Announce
  <2>2. IsBag(queue') /\ DOMAIN queue' \subseteq Entries
    BY <2>1, <1>5, AddingEntry DEF JobsTypeOK
  <2> DEFINE js == run.memo.jobs \ {j}
  <2>3. js \subseteq AnyJob /\ run' = GoAnnounce(js) /\ run.entry \in Entries
    BY <2>1 DEF JobsTypeOK
  <2> HIDE DEF js
  <2>4. /\ run' = [phase |-> run'.phase, entry |-> run.entry, memo |-> run'.memo]
        /\ run'.phase \in {"done", "announce"} /\ (run'.phase = "announce" => run'.memo.jobs \subseteq AnyJob)
    BY <2>3, Going
  <2>5. outbox' \subseteq AnyJob /\ faults' \in 0..MaxFaults
    BY <2>1 DEF JobsTypeOK
  <2>6. run'.entry = run.entry /\ run' = [phase |-> run'.phase, entry |-> run'.entry, memo |-> run'.memo]
    BY <2>4
  <2> QED  BY <2>2, <2>3, <2>4, <2>5, <2>6 DEF JobsTypeOK
<1>7. ASSUME NEW j \in Jobs, ApiEnqueue(j) PROVE JobsTypeOK'
  BY <1>5, <1>7, AddingEntry DEF JobsTypeOK, ApiEnqueue
<1>8. ASSUME NEW j \in Jobs, ApiDies(j) PROVE JobsTypeOK'
  BY <1>8 DEF JobsTypeOK, ApiDies
<1> QED  BY <1>1, <1>2, <1>3, <1>4, <1>6, <1>7, <1>8 DEF QueueStep

\* Every step of the worker and of the API is of one of the kinds.
LEMMA HandlersStep ==
  ASSUME JobsTypeOK, MediaStep \/ HookStep \/ MatchStep
  PROVE  HandlerStep
<1> USE Going, JobKinds DEF Running
<1>1. CASE BeginMedia
  BY <1>1 DEF BeginMedia, HandlerStep
<1>2. CASE RejectMedia \/ WriteCopy \/ SwapKey \/ DeleteOriginal
  BY <1>2 DEF RejectMedia, WriteCopy, SwapKey, DeleteOriginal, HandlerStep
<1>3. ASSUME NEW vector \in BOOLEAN, FinishMedia(vector) PROVE HandlerStep
  <2> DEFINE js == IF ListingOf[Held] = None THEN {} ELSE {MatchJob(ListingOf[Held])}
  <2>1. js \subseteq AnyJob
    BY <1>3, WorkAssumption DEF FinishMedia, AnyJob, MatchJob, ListingJob
  <2>2. run' = GoAnnounce(js) /\ run.phase # "idle" /\ UNCHANGED <<queue, outbox, faults>>
    BY <1>3 DEF FinishMedia
  <2> HIDE DEF js
  <2> QED  BY <2>1, <2>2 DEF HandlerStep
<1>4. CASE BeginDelivery \/ WebhookGone
  BY <1>4 DEF BeginDelivery, WebhookGone, HandlerStep
<1>5. ASSUME NEW o, Post(o) PROVE HandlerStep
  BY <1>5 DEF Post, HandlerStep
<1>6. CASE RecordPost
  <2> DEFINE js == IF Continues(Outcome(run.memo)) THEN {HookJob(Carried)} ELSE {}
  <2>1. js \subseteq AnyJob
    BY <1>6 DEF RecordPost, AnyJob
  <2>2. /\ run' = Failed \/ run' = GoAnnounce(js)
        /\ run.phase # "idle" /\ UNCHANGED <<queue, outbox, faults>>
    BY <1>6 DEF RecordPost
  <2> HIDE DEF js
  <2> QED  BY <2>1, <2>2 DEF HandlerStep
<1>7. CASE BeginMatch
  <2> DEFINE memo == [seen |-> {c \in open : <<Source, c>> \in Pairs}]
  <2>1. run' \in {Go("matching", memo), Done} /\ run.phase # "idle" /\ UNCHANGED <<queue, outbox, faults>>
    BY <1>7 DEF BeginMatch
  <2> HIDE DEF memo
  <2> QED  BY <2>1 DEF HandlerStep
<1>8. ASSUME NEW score, CommitMatch(score) PROVE HandlerStep
  <2> DEFINE js == {HookJob(d) : d \in Addressed({p \in {q \in Touched(score) : Tells(score, q)} : p[1] \in Owned})}
  <2>1. js \subseteq AnyJob
    BY MatchAssumption DEF Addressed, Touched, AnyJob, Deliveries
  <2>2. run' = GoAnnounce(js) /\ run.phase # "idle" /\ UNCHANGED <<queue, outbox, faults>>
    BY <1>8 DEF CommitMatch
  <2> HIDE DEF js
  <2> QED  BY <2>1, <2>2 DEF HandlerStep
<1> QED  BY <1>1, <1>2, <1>3, <1>4, <1>5, <1>6, <1>7, <1>8 DEF MediaStep, HookStep, MatchStep

LEMMA RequestsStep ==
  ASSUME JobsTypeOK, Uploads \/ Approves \/ Integrates \/ Reports
  PROVE  Request
<1>1. CASE Uploads
  <2>1. \A m \in Photos : PhotoJob(m) \in AnyJob /\ (ListingOf[m] # None => MatchJob(ListingOf[m]) \in AnyJob)
    BY WorkAssumption DEF AnyJob, MatchJob, ListingJob
  <2>2. UNCHANGED <<queue, run, faults>> /\ \E j \in AnyJob : outbox' = outbox \cup {j}
    BY <1>1, <2>1 DEF Uploads, CompleteUpload, RepairVector
  <2> QED  BY <2>2 DEF JobsTypeOK, Request
<1>2. CASE Approves
  BY <1>2 DEF JobsTypeOK, Approves, ApproveListing, WithdrawListing, Request, AnyJob, jobVars
<1>3. CASE Integrates
  BY <1>3 DEF JobsTypeOK, Integrates, CreateWebhook, DeleteWebhook, Request, jobVars
<1>4. CASE Reports
  BY <1>4 DEF JobsTypeOK, Reports, ApiEvent, Addressed, Request, AnyJob, Deliveries
<1> QED  BY <1>1, <1>2, <1>3, <1>4

\* The kinds of step, with what each leaves alone.
LEMMA WorkKinds ==
  ASSUME JobsTypeOK, WorkNext
  PROVE  \/ QueueStep /\ UNCHANGED <<mediaVars, hookVars, matchVars>>
         \/ MediaStep /\ HandlerStep /\ UNCHANGED <<hookVars, matchVars>>
         \/ HookStep /\ HandlerStep /\ UNCHANGED <<mediaVars, matchVars>>
         \/ MatchStep /\ HandlerStep /\ UNCHANGED mediaVars
         \/ Uploads /\ Request
         \/ Approves /\ Request
         \/ Integrates /\ Request
         \/ Reports /\ Request
BY HandlersStep, RequestsStep DEF WorkNext, WorkerStep, Fault, Enqueues, QueueStep, BagToSet

LEMMA Work_JobsTypeOK ==
  ASSUME JobsTypeOK, [WorkNext]_workVars
  PROVE  JobsTypeOK'
<1>1. CASE UNCHANGED workVars
  BY <1>1 DEF JobsTypeOK, workVars, coreVars, jobVars
<1> QED  BY <1>1, WorkKinds, QueueStep_JobsTypeOK, HandlerStep_JobsTypeOK, Request_JobsTypeOK

LEMMA Init_JobsTypeOK == BackgroundInit => JobsTypeOK
<1>1. DOMAIN EmptyBag = {}
  BY DEF EmptyBag, SetToBag
<1> QED  BY <1>1, JobsAssumption DEF BackgroundInit, WorkInit, JobsInit, JobsTypeOK, IsBag, Idle

-----------------------------------------------------------------------------
(* Matches.  The invariant is inductive with the type of the counters, for *)
(* a commit reads and writes both of them at once.                         *)

MatchInv ==
  /\ candidate \in [Pairs -> Nat] /\ told \in [Pairs -> Nat]
  /\ MatchTellsOnce

\* A pair is of two publications, and so is its other direction.
LEMMA OtherDirection ==
  ASSUME NEW p \in Pairs
  PROVE  <<p[2], p[1]>> \in Pairs /\ p[1] # p[2]
BY DEF Pairs

LEMMA CommitMatch_MatchInv ==
  ASSUME MatchInv, NEW seen \in SUBSET Listings, NEW score \in [seen -> Scores], CommitMatch(score)
  PROVE  MatchInv'
<1> DEFINE news == {p \in Touched(score) : Tells(score, p)}
<1>1. /\ candidate' = [p \in Pairs |-> IF p \in Touched(score) THEN ScoreOf(score, p) ELSE candidate[p]]
      /\ told' = [p \in Pairs |-> IF p \in news THEN told[p] + 1 ELSE told[p]]
  BY DEF CommitMatch
<1>2. \A p \in Touched(score) : ScoreOf(score, p) \in Nat
  BY MatchAssumption, OtherDirection DEF Touched, ScoreOf
<1>3. candidate' \in [Pairs -> Nat] /\ told' \in [Pairs -> Nat]
  BY <1>1, <1>2 DEF MatchInv
<1>4. ASSUME NEW p \in Pairs
      PROVE  told'[p] <= 1 /\ (candidate'[p] >= Threshold => told'[p] = 1)
  <2>1. /\ told[p] <= 1 /\ (candidate[p] >= Threshold => told[p] = 1)
        /\ told[p] \in Nat /\ candidate[p] \in Nat
    BY <1>4 DEF MatchInv, MatchTellsOnce
  <2>2. p \in news <=> p \in Touched(score) /\ Tells(score, p)
    OBVIOUS
  <2> HIDE DEF news
  <2> QED  BY <1>1, <1>2, <2>1, <2>2 DEF Tells, Threshold
<1>5. ASSUME NEW p \in Pairs
      PROVE  candidate'[p] = candidate'[<<p[2], p[1]>>]
  <2> DEFINE q == <<p[2], p[1]>>
  <2>1. q \in Pairs /\ p[1] # p[2] /\ q[1] = p[2] /\ q[2] = p[1]
    BY OtherDirection
  <2>2. candidate[p] = candidate[q]
    BY DEF MatchInv, MatchTellsOnce
  <2>3. p \in Touched(score) <=> q \in Touched(score)
    BY <2>1 DEF Touched
  <2>4. p \in Touched(score) => ScoreOf(score, p) = ScoreOf(score, q)
    BY <2>1 DEF Touched, ScoreOf
  <2> QED  BY <1>1, <2>1, <2>2, <2>3, <2>4
<1> QED  BY <1>3, <1>4, <1>5 DEF MatchInv, MatchTellsOnce

LEMMA Work_MatchInv ==
  ASSUME MatchInv, [WorkNext]_workVars
  PROVE  MatchInv'
<1>1. CASE UNCHANGED <<candidate, told>>
  BY <1>1 DEF MatchInv, MatchTellsOnce
<1>2. CASE MatchStep
  <2>1. CASE BeginMatch
    BY <1>1, <2>1 DEF BeginMatch, matchVars
  <2> QED  BY <1>2, <2>1, CommitMatch_MatchInv DEF MatchStep
<1> QED  BY <1>1, <1>2 DEF WorkNext, workVars, coreVars, WorkerStep, Fault, Enqueues, Uploads, Approves,
           Integrates, Reports, ApproveListing, WithdrawListing, matchVars

LEMMA Init_MatchInv == BackgroundInit => MatchInv
BY OtherDirection DEF BackgroundInit, WorkInit, MatchInit, MatchInv, MatchTellsOnce, Threshold

\* However often match_listing is repeated, and whichever publication changes,
\* the owner of a publication is told once of each possible match, exactly when
\* it has reached the threshold, and both directions of a pair agree.
THEOREM MatchToldOnce == BackgroundSpec => []MatchTellsOnce
<1>1. BackgroundInit => MatchInv
  BY Init_MatchInv
<1>2. MatchInv /\ [BackgroundNext]_<<workVars, pushVars>> => MatchInv'
  BY BackgroundStep, Work_MatchInv
<1>3. MatchInv => MatchTellsOnce
  BY DEF MatchInv
<1> QED  BY <1>1, <1>2, <1>3, PTL DEF BackgroundSpec

-----------------------------------------------------------------------------
(* Push notifications.  What was sent is counted in the row (Paid), which  *)
(* lives as long as its subscription; once it is deleted no other is       *)
(* written for the same notification and endpoint (Buried), for a new      *)
(* subscription is younger than the notification.                          *)

PushTypeOK ==
  /\ note \in [Notes -> Notification \cup {None}]
  /\ device \in [Endpoints -> Subscription \cup {None}]
  /\ row \in [Rows -> PushRow \cup {None}]
  /\ sweep = [phase |-> sweep.phase, todo |-> sweep.todo, at |-> sweep.at, known |-> sweep.known]
  /\ sweep.phase \in {"idle", "next", "send"} \cup Answers
  /\ sweep.phase \in {"send"} \cup Answers => sweep.at \in Rows
  /\ sweep.todo \subseteq Rows /\ due \subseteq Rows
  /\ clock \in Nat /\ crashes \in Nat /\ sends \in [Rows -> Nat]

Sending(r)  == sweep.phase = "send" /\ sweep.at = r
InFlight(r) == sweep.phase \in {"send"} \cup Answers /\ sweep.at = r

\* Nothing is younger than the clock, and a row has a notification and a device.
Dated ==
  /\ \A n \in Notes : note[n] # None => note[n].created <= clock
  /\ \A e \in Endpoints : device[e] # None => device[e].created <= clock
  /\ \A r \in Rows : row[r] # None => note[r[1]] # None /\ device[r[2]] # None

\* What is due, or to be done in this cycle, is pending unless deleted since.
Queued ==
  /\ \A r \in due : row[r] # None /\ row[r].status = "pending"
  /\ \A r \in sweep.todo : row[r] # None => row[r].status = "pending"
  /\ \A r \in Rows : InFlight(r) => r \notin due /\ r \notin sweep.todo

\* An attempt is counted before it is made, and a row has no more than these.
Paid ==
  \A r \in Rows :
    /\ row[r] # None =>
         /\ sends[r] <= row[r].attempts /\ (Sending(r) => sends[r] < row[r].attempts)
         /\ row[r].attempts <= PushAttempts + crashes
         /\ row[r].status = "pending" /\ ~InFlight(r) => row[r].attempts < PushAttempts + crashes
    /\ row[r] = None =>
         /\ sends[r] <= PushAttempts + crashes
         /\ Sending(r) => sends[r] < PushAttempts + crashes

\* A deleted row of which something was sent is not written again.
Buried ==
  \A r \in Rows :
    row[r] = None /\ (sends[r] > 0 \/ Sending(r)) =>
      /\ note[r[1]] # None
      /\ device[r[2]] # None => device[r[2]].created > note[r[1]].created

\* A row older than the subscription of its endpoint was inherited by it.
Inherited ==
  /\ \A r \in Rows : row[r] # None /\ device[r[2]].created > note[r[1]].created => r \in inherited
  /\ replays \subseteq inherited

PushInv == PushTypeOK /\ Dated /\ Queued /\ Paid /\ Buried /\ Inherited

\* A new notification has no rows yet.
LEMMA Notify_PushInv ==
  ASSUME PushInv, NEW n \in Notes, Notify(n)
  PROVE  PushInv'
<1>1. /\ note' = [note EXCEPT ![n] = [owner |-> Addressee[n], created |-> clock + 1, fresh |-> TRUE]]
      /\ [owner |-> Addressee[n], created |-> clock + 1, fresh |-> TRUE] \in Notification
      /\ note[n] = None /\ clock \in Nat /\ clock' = clock + 1
      /\ UNCHANGED <<device, row, due, sweep, crashes, sends, inherited, replays>>
  <2>1. clock \in Nat /\ Addressee[n] \in Users
    BY PushAssumption DEF PushInv, PushTypeOK
  <2> QED  BY <2>1 DEF Notify, Notification
<1>2. PushTypeOK'
  BY <1>1 DEF PushInv, PushTypeOK
<1>3. \A r \in Rows : r[1] = n => row[r] = None /\ ~(sends[r] > 0 \/ Sending(r))
  BY <1>1 DEF PushInv, Dated, Buried
<1>4. \A m \in Notes \ {n} : note'[m] = note[m]
  BY <1>1 DEF PushInv, PushTypeOK
<1>5. Dated'
  BY <1>1, <1>3, <1>4 DEF PushInv, PushTypeOK, Dated, Rows, Notification, Subscription
<1>6. Queued' /\ Paid'
  BY <1>1 DEF PushInv, Queued, Paid, Sending, InFlight
<1>7. Buried' /\ Inherited'
  BY <1>1, <1>3, <1>4 DEF PushInv, Buried, Inherited, Sending, Rows
<1> QED  BY <1>2, <1>5, <1>6, <1>7 DEF PushInv

\* Reading changes neither the age nor the existence of a notification.
LEMMA ReadNotification_PushInv ==
  ASSUME PushInv, NEW n \in Notes, ReadNotification(n)
  PROVE  PushInv'
<1>1. /\ note' = [note EXCEPT ![n].fresh = FALSE] /\ note[n] \in Notification
      /\ UNCHANGED <<device, row, due, sweep, clock, crashes, sends, inherited, replays>>
  BY DEF PushInv, PushTypeOK, ReadNotification
<1>2. note' \in [Notes -> Notification \cup {None}]
  BY <1>1 DEF PushInv, PushTypeOK, Notification
<1>3. \A m \in Notes : (note'[m] = None <=> note[m] = None) /\ note'[m].created = note[m].created
  BY <1>1, PushAssumption DEF PushInv, PushTypeOK, Notification
<1>4. PushTypeOK'
  BY <1>1, <1>2 DEF PushInv, PushTypeOK
<1>5. Dated' /\ Buried' /\ Inherited'
  BY <1>1, <1>3 DEF PushInv, Dated, Buried, Inherited, Sending, Rows
<1>6. Queued' /\ Paid'
  BY <1>1 DEF PushInv, Queued, Paid, Sending, InFlight
<1> QED  BY <1>4, <1>5, <1>6 DEF PushInv

\* A subscription anew is younger than what was buried, and inherits the rows
\* that are left.
LEMMA SubscribePush_PushInv ==
  ASSUME PushInv, NEW e \in Endpoints, NEW u \in Users, SubscribePush(e, u)
  PROVE  PushInv'
<1> DEFINE new == [owner |-> u, status |-> "active", created |-> Since(e, u)]
<1>1. /\ device' = [device EXCEPT ![e] = new] /\ clock \in Nat /\ clock' = clock + 1
      /\ UNCHANGED <<note, row, due, sweep, crashes, sends, replays>>
  BY DEF PushInv, PushTypeOK, SubscribePush
<1>2. /\ new \in Subscription /\ new.created <= clock + 1
      /\ new.created = clock + 1 \/ (device[e] # None /\ new.created = device[e].created)
  BY <1>1 DEF PushInv, PushTypeOK, Dated, Since, Subscription
<1>3. inherited' = IF new.created > clock
                     THEN inherited \cup {r \in Rows : r[2] = e /\ row[r] # None} ELSE inherited
  BY <1>1 DEF SubscribePush, PushInv, PushTypeOK
<1> HIDE DEF new
<1>4. PushTypeOK'
  BY <1>1, <1>2 DEF PushInv, PushTypeOK
<1>5. device'[e] = new /\ \A f \in Endpoints \ {e} : device'[f] = device[f]
  BY <1>1 DEF PushInv, PushTypeOK
<1>6. Dated'
  BY <1>1, <1>2, <1>5, PushAssumption DEF PushInv, PushTypeOK, Dated, Rows, Notification, Subscription
<1>7. Queued' /\ Paid'
  BY <1>1 DEF PushInv, Queued, Paid, Sending, InFlight
<1>8. Buried'
  BY <1>1, <1>2, <1>5 DEF PushInv, PushTypeOK, Dated, Buried, Sending, Rows, Notification
<1>9. Inherited'
  BY <1>1, <1>2, <1>3, <1>5 DEF PushInv, PushTypeOK, Dated, Inherited, Rows
<1> QED  BY <1>4, <1>6, <1>7, <1>8, <1>9 DEF PushInv

\* The rows of a deleted device are buried.
LEMMA UnregisterDevice_PushInv ==
  ASSUME PushInv, NEW e \in Endpoints, NEW u \in Users, UnregisterDevice(e, u)
  PROVE  PushInv'
<1>1. PushTypeOK' /\ Dated'
  BY DEF PushInv, PushTypeOK, Dated, UnregisterDevice, Rows
<1>2. Queued'
  BY DEF PushInv, PushTypeOK, Queued, InFlight, UnregisterDevice
<1>3. Paid'
  <2> SUFFICES ASSUME NEW r \in Rows PROVE Paid!(r)'
    BY DEF Paid
  <2>1. /\ row'[r] = (IF r[2] = e THEN None ELSE row[r])
        /\ UNCHANGED <<sends, sweep, crashes>> /\ Paid!(r)
        /\ crashes \in Nat /\ sends[r] \in Nat /\ row[r] \in PushRow \cup {None}
    BY DEF PushInv, PushTypeOK, Paid, UnregisterDevice
  <2> QED  BY <2>1, PushAssumption DEF Sending, InFlight, PushRow
<1>4. Buried' /\ Inherited'
  BY DEF PushInv, PushTypeOK, Dated, Paid, Buried, Inherited, Sending, UnregisterDevice, Rows, PushRow
<1> QED  BY <1>1, <1>2, <1>3, <1>4 DEF PushInv

\* The rows that are added have had nothing sent for them: neither a push from
\* before, as these are buried, nor one under way, as no cycle is.
LEMMA BeginSweep_PushInv ==
  ASSUME PushInv, BeginSweep
  PROVE  PushInv'
<1>1. /\ row' = [r \in Rows |-> IF r \in Missing THEN Awaiting ELSE row[r]]
      /\ due' = due \cup Missing /\ Missing \subseteq Rows
      /\ sweep' = [phase |-> "next", todo |-> due', at |-> None, known |-> <<>>]
      /\ sweep.phase = "idle" /\ Awaiting \in PushRow
      /\ UNCHANGED <<note, device, clock, crashes, sends, inherited, replays>>
  BY DEF BeginSweep, NoSweep, Missing, MissingAll, Awaiting, PushRow
<1>2. /\ \A r \in Missing : /\ note[r[1]] # None /\ device[r[2]] # None /\ sends[r] = 0
                            /\ ~(device[r[2]].created > note[r[1]].created)
      /\ \A r \in Rows : ~InFlight(r) /\ ~Sending(r) /\ ~InFlight(r)' /\ ~Sending(r)'
  BY <1>1 DEF PushInv, PushTypeOK, Buried, Missing, MissingAll, InFlight, Sending, Answers, Rows,
              Notification, Subscription
<1>3. PushTypeOK'
  BY <1>1 DEF PushInv, PushTypeOK, Answers
<1>4. Dated'
  BY <1>1, <1>2 DEF PushInv, Dated, Rows
<1>5. Queued'
  BY <1>1, <1>2, PushAssumption DEF PushInv, PushTypeOK, Queued, Awaiting
<1>6. Paid'
  BY <1>1, <1>2, PushAssumption DEF PushInv, PushTypeOK, Paid, Awaiting
<1>7. Buried' /\ Inherited'
  BY <1>1, <1>2, PushAssumption DEF PushInv, PushTypeOK, Dated, Buried, Inherited, Awaiting
<1> QED  BY <1>3, <1>4, <1>5, <1>6, <1>7 DEF PushInv

\* The attempt is counted with the row out of what is due.
LEMMA TakeRow_PushInv ==
  ASSUME PushInv, NEW r \in Rows, TakeRow(r)
  PROVE  PushInv'
<1> USE DEF PushInv
<1>1. CASE row[r] = None
  <2>1. /\ sweep' = NoSweep /\ replays' = replays
        /\ UNCHANGED <<note, device, row, due, clock, crashes, sends, inherited>>
    BY <1>1 DEF TakeRow, Aborted, EndSweep
  <2>2. \A q \in Rows : ~InFlight(q)' /\ ~Sending(q)' /\ ~InFlight(q)
    BY <2>1 DEF InFlight, Sending, NoSweep, Answers, TakeRow
  <2>3. PushTypeOK' /\ Dated' /\ Inherited'
    BY <2>1 DEF PushTypeOK, Dated, Inherited, NoSweep, Answers
  <2>4. Queued' /\ Paid' /\ Buried'
    BY <2>1, <2>2 DEF Queued, Paid, Buried, NoSweep
  <2> QED  BY <2>3, <2>4
<1>2. CASE row[r] # None
  <2>1. PICK skips, known :
          /\ skips \in BOOLEAN
          /\ due' = due \ {r} /\ r \in sweep.todo /\ sweep.phase = "next"
          /\ row' = IF skips THEN [row EXCEPT ![r].status = "skipped"]
                             ELSE [row EXCEPT ![r].attempts = @ + 1]
          /\ sweep' = [phase |-> IF skips THEN "next" ELSE "send", todo |-> sweep.todo \ {r},
                       at |-> IF skips THEN None ELSE r, known |-> known]
          /\ replays' = IF ~skips /\ device[r[2]].created > note[r[1]].created
                          THEN replays \cup {r} ELSE replays
          /\ UNCHANGED <<note, device, clock, crashes, sends, inherited>>
    <3> DEFINE known == Loaded(r)
               skips == Unwanted(known[r[1]], known[r[2]], known[known[r[1]].owner])
    <3>1. TakeRow(r) /\ (skips \in BOOLEAN)
      BY DEF Unwanted
    <3> QED  BY <1>2, <3>1 DEF TakeRow, Aborted, Skipped
  <2>2. /\ row[r] \in PushRow /\ row[r].status = "pending"
        /\ \A q \in Rows : ~InFlight(q) /\ ~Sending(q)
    BY <1>2, <2>1 DEF PushTypeOK, Queued, InFlight, Sending, Answers
  <2>3. /\ row'[r] \in PushRow /\ row'[r] # None
        /\ row'[r].attempts = IF skips THEN row[r].attempts ELSE row[r].attempts + 1
        /\ row'[r].status = IF skips THEN "skipped" ELSE "pending"
        /\ \A q \in Rows \ {r} : row'[q] = row[q]
    BY <2>1, <2>2, PushAssumption DEF PushTypeOK, PushRow
  <2>4. /\ \A q \in Rows : InFlight(q)' <=> ~skips /\ q = r
        /\ \A q \in Rows : Sending(q)' <=> ~skips /\ q = r
    BY <2>1 DEF InFlight, Sending, Answers
  <2>5. PushTypeOK'
    <3>1. row' \in [Rows -> PushRow \cup {None}]
      BY <2>1, <2>3 DEF PushTypeOK
    <3> QED  BY <2>1, <3>1 DEF PushTypeOK, Answers
  <2>6. Dated'
    BY <2>1, <2>3, <1>2 DEF Dated
  <2>7. Queued'
    BY <2>1, <2>3, <2>4 DEF Queued, PushTypeOK
  <2>8. Paid'
    <3> SUFFICES ASSUME NEW q \in Rows PROVE Paid!(q)'
      BY DEF Paid
    <3>1. /\ crashes \in Nat /\ sends[q] \in Nat /\ Paid!(q)
          /\ UNCHANGED <<crashes, sends>>
      BY <2>1 DEF PushTypeOK, Paid
    <3>2. CASE q = r
      BY <1>2, <2>2, <2>3, <2>4, <3>1, <3>2, PushAssumption DEF PushRow
    <3>3. CASE q # r
      BY <2>2, <2>3, <2>4, <3>1, <3>3
    <3> QED  BY <3>2, <3>3
  <2>9. Buried' /\ Inherited'
    BY <2>1, <2>2, <2>3, <2>4, <1>2 DEF Buried, Inherited
  <2> QED  BY <2>5, <2>6, <2>7, <2>8, <2>9
<1> QED  BY <1>1, <1>2

\* The push that was counted is made.
LEMMA SendPush_PushInv ==
  ASSUME PushInv, NEW a \in Answers, SendPush(a)
  PROVE  PushInv'
<1>1. /\ sweep.phase = "send" /\ sweep.at \in Rows /\ sends' = [sends EXCEPT ![sweep.at] = @ + 1]
      /\ sweep' = [phase |-> a, todo |-> sweep.todo, at |-> sweep.at, known |-> sweep.known]
      /\ UNCHANGED <<note, device, account, row, due, clock, crashes, inherited, replays>>
  BY DEF PushInv, PushTypeOK, SendPush, Answers
<1>2. \A r \in Rows : (InFlight(r)' <=> InFlight(r)) /\ ~Sending(r)' /\ (Sending(r) <=> r = sweep.at)
  BY <1>1 DEF InFlight, Sending, Answers
<1>3. PushTypeOK' /\ Dated' /\ Inherited' /\ Queued'
  BY <1>1, <1>2 DEF PushInv, PushTypeOK, Dated, Inherited, Queued, Answers
<1>4. Paid'
  <2> SUFFICES ASSUME NEW q \in Rows PROVE Paid!(q)'
    BY DEF Paid
  <2>1. /\ crashes \in Nat /\ sends[q] \in Nat /\ Paid!(q) /\ row[q] \in PushRow \cup {None}
        /\ sends'[q] = IF q = sweep.at THEN sends[q] + 1 ELSE sends[q]
        /\ UNCHANGED <<crashes, row>>
    BY <1>1 DEF PushInv, PushTypeOK, Paid
  <2> QED  BY <1>2, <2>1, PushAssumption DEF PushRow
<1>5. Buried'
  BY <1>1, <1>2 DEF PushInv, PushTypeOK, Buried
<1> QED  BY <1>3, <1>4, <1>5 DEF PushInv

\* A row whose attempts are used up does not stay pending.
LEMMA RecordPush_PushInv ==
  ASSUME PushInv, RecordPush
  PROVE  PushInv'
<1> DEFINE r == sweep.at
           answer == sweep.phase
<1>1. /\ answer \in Answers /\ r \in Rows /\ InFlight(r)
      /\ UNCHANGED <<note, due, clock, crashes, sends, inherited, replays>>
      /\ \A q \in Rows : ~Sending(q) /\ (InFlight(q) <=> q = r)
  BY DEF PushInv, PushTypeOK, RecordPush, InFlight, Sending, Answers
<1>2. \/ sweep' = NoSweep
      \/ \E known : sweep' = [phase |-> "next", todo |-> sweep.todo, at |-> None, known |-> known]
  <2> DEFINE known == IF answer = "gone" THEN [sweep.known EXCEPT ![r[2]].status = "expired"] ELSE sweep.known
  <2>1. \/ sweep' = NoSweep
        \/ sweep' = [sweep EXCEPT !.phase = "next", !.at = None, !.known = known]
    BY DEF RecordPush, EndSweep
  <2>2. sweep = [phase |-> sweep.phase, todo |-> sweep.todo, at |-> sweep.at, known |-> sweep.known]
    BY DEF PushInv, PushTypeOK
  <2> HIDE DEF known
  <2> QED  BY <2>1, <2>2
<1>3. /\ sweep'.todo \subseteq sweep.todo /\ sweep'.phase \in {"idle", "next"}
      /\ sweep' = [phase |-> sweep'.phase, todo |-> sweep'.todo, at |-> sweep'.at, known |-> sweep'.known]
      /\ \A q \in Rows : ~Sending(q)' /\ ~InFlight(q)'
  BY <1>2 DEF NoSweep, InFlight, Sending, Answers
<1>4. /\ row' \in [Rows -> PushRow \cup {None}]
      /\ \A q \in Rows : /\ row'[q] = None <=> row[q] = None
                         /\ q # r => row'[q] = row[q]
                         /\ row[q] # None => row'[q].attempts = row[q].attempts
      /\ row[r] # None /\ row'[r].status = "pending" => row[r].attempts < PushAttempts
  <2>1. CASE row[r] = None
    BY <1>1, <2>1 DEF PushInv, PushTypeOK, RecordPush, Aborted
  <2>2. CASE row[r] # None
    <3>1. row' = [row EXCEPT ![r].status = Result(r, answer)]
      BY <1>1, <2>2 DEF RecordPush, Aborted
    <3>2. row[r] \in PushRow
      BY <1>1, <2>2 DEF PushInv, PushTypeOK
    <3>3. /\ Result(r, answer) \in {"pending", "sent", "expired", "failed", "skipped"}
          /\ Result(r, answer) = "pending" => row[r].attempts < PushAttempts
      BY <1>1, <3>2, PushAssumption DEF Result, GivesUp, PushRow
    <3>4. row'[r] \in PushRow /\ row'[r].attempts = row[r].attempts /\ row'[r].status = Result(r, answer)
          /\ \A q \in Rows \ {r} : row'[q] = row[q]
      BY <1>1, <3>1, <3>2, <3>3 DEF PushInv, PushTypeOK, PushRow
    <3>5. row' \in [Rows -> PushRow \cup {None}]
      BY <3>1, <3>4 DEF PushInv, PushTypeOK
    <3> QED  BY <2>2, <3>2, <3>3, <3>4, <3>5, PushAssumption
  <2> QED  BY <2>1, <2>2
<1>5. /\ device' \in [Endpoints -> Subscription \cup {None}]
      /\ \A e \in Endpoints : /\ device'[e] = None <=> device[e] = None
                              /\ device'[e].created = device[e].created
  <2>1. CASE UNCHANGED device
    BY <2>1 DEF PushInv, PushTypeOK
  <2>2. CASE row[r] # None /\ device' = [device EXCEPT ![r[2]].status = "expired"]
    <3>1. r[2] \in Endpoints /\ device[r[2]] \in Subscription
      BY <1>1, <2>2 DEF PushInv, PushTypeOK, Dated, Rows
    <3> QED  BY <2>2, <3>1, PushAssumption DEF PushInv, PushTypeOK, Subscription
  <2> QED  BY <1>1, <2>1, <2>2 DEF RecordPush, Aborted, Answers
<1> HIDE DEF r, answer
<1>6. PushTypeOK'
  BY <1>1, <1>3, <1>4, <1>5 DEF PushInv, PushTypeOK, Answers
<1>7. Dated' /\ Buried' /\ Inherited'
  BY <1>1, <1>3, <1>4, <1>5 DEF PushInv, Dated, Buried, Inherited, Rows
<1>8. Queued'
  BY <1>1, <1>3, <1>4 DEF PushInv, PushTypeOK, Queued
<1>9. Paid'
  <2> SUFFICES ASSUME NEW q \in Rows PROVE Paid!(q)'
    BY DEF Paid
  <2>1. /\ crashes \in Nat /\ sends[q] \in Nat /\ Paid!(q) /\ row[q] \in PushRow \cup {None}
        /\ UNCHANGED <<crashes, sends>>
    BY <1>1 DEF PushInv, PushTypeOK, Paid
  <2> QED  BY <1>1, <1>3, <1>4, <2>1, PushAssumption DEF PushRow
<1> QED  BY <1>6, <1>7, <1>8, <1>9 DEF PushInv

\* A cycle that ends has nothing under way.
LEMMA SweepEnds_PushInv ==
  ASSUME PushInv, FinishSweep \/ SweepDies
  PROVE  PushInv'
<1>1. /\ sweep' = NoSweep /\ crashes \in Nat /\ crashes' \in Nat
      /\ \/ crashes' = crashes /\ \A q \in Rows : ~InFlight(q)
         \/ crashes' = crashes + 1
      /\ UNCHANGED <<note, device, account, row, due, clock, sends, inherited, replays>>
  BY DEF PushInv, PushTypeOK, FinishSweep, SweepDies, EndSweep, InFlight, Answers
<1>2. \A q \in Rows : ~Sending(q)' /\ ~InFlight(q)'
  BY <1>1 DEF NoSweep, InFlight, Sending, Answers
<1>3. PushTypeOK' /\ Dated' /\ Inherited' /\ Buried' /\ Queued'
  BY <1>1, <1>2 DEF PushInv, PushTypeOK, Dated, Inherited, Buried, Queued, NoSweep, Answers
<1>4. Paid'
  <2> SUFFICES ASSUME NEW q \in Rows PROVE Paid!(q)'
    BY DEF Paid
  <2>1. /\ sends[q] \in Nat /\ Paid!(q) /\ row[q] \in PushRow \cup {None} /\ UNCHANGED <<row, sends>>
    BY <1>1 DEF PushInv, PushTypeOK, Paid
  <2> QED  BY <1>1, <1>2, <2>1, PushAssumption DEF PushRow
<1> QED  BY <1>3, <1>4 DEF PushInv

LEMMA BecomeDue_PushInv ==
  ASSUME PushInv, NEW r \in Rows, BecomeDue(r)
  PROVE  PushInv'
<1>1. \A q \in Rows : ~InFlight(q)
  BY DEF BecomeDue, InFlight, Answers
<1> QED  BY <1>1 DEF PushInv, PushTypeOK, Dated, Queued, Paid, Buried, Inherited, InFlight, Sending, BecomeDue

LEMMA Push_PushInv ==
  ASSUME PushInv, [PushNext]_pushVars
  PROVE  PushInv'
<1>1. CASE UNCHANGED pushVars
  BY <1>1 DEF pushVars, PushInv, PushTypeOK, Dated, Queued, Paid, Buried, Inherited, InFlight, Sending
<1>2. ASSUME NEW u \in Users, BlockUser(u)
      PROVE  PushInv'
  BY <1>2 DEF BlockUser, PushInv, PushTypeOK, Dated, Queued, Paid, Buried, Inherited, InFlight, Sending
<1> QED  BY <1>1, <1>2, Notify_PushInv, ReadNotification_PushInv, SubscribePush_PushInv,
           UnregisterDevice_PushInv, BeginSweep_PushInv, TakeRow_PushInv, SendPush_PushInv,
           RecordPush_PushInv, SweepEnds_PushInv, BecomeDue_PushInv DEF PushNext, SweepStep

\* However often cycles are cut off, the push service is away and a browser is
\* subscribed, deleted and subscribed again, a notification is sent to it at
\* most PushAttempts times and once more for each cut; and what is sent from
\* before its subscription had its row before it.
THEOREM PushesAreExplained == BackgroundSpec => []PushesExplained
<1>1. BackgroundInit => PushInv
  <2> SUFFICES ASSUME PushInit PROVE PushInv
    BY DEF BackgroundInit
  <2>1. PushTypeOK
    BY DEF PushInit, PushTypeOK, NoSweep, Answers
  <2> QED  BY <2>1, PushAssumption DEF PushInit, PushInv, Dated, Queued, Paid, Buried, Inherited,
             InFlight, Sending, NoSweep, Answers
<1>2. PushInv /\ [BackgroundNext]_<<workVars, pushVars>> => PushInv'
  BY BackgroundStep, Push_PushInv
<1>3. PushInv => PushesExplained
  <2> SUFFICES ASSUME PushInv, NEW r \in Rows PROVE sends[r] <= PushAttempts + crashes
    BY DEF PushInv, Inherited, PushesExplained
  <2>1. /\ sends[r] \in Nat /\ crashes \in Nat /\ row[r] \in PushRow \cup {None} /\ Paid!(r)
    BY DEF PushInv, PushTypeOK, Paid
  <2> QED  BY <2>1, PushAssumption DEF PushRow
<1> QED  BY <1>1, <1>2, <1>3, PTL DEF BackgroundSpec

-----------------------------------------------------------------------------
(* Photographs.                                                            *)

Orphans == {o \in store : o # photo[o.of].key}

PhotoTypeOK ==
  /\ photo \in [Photos -> [status : {"absent", "processing", "ready", "rejected"},
                           key : Object \cup {None}, vector : BOOLEAN]]
  /\ store \subseteq Object

\* A row names an object of its photograph; before it there is none.
RowsBacked ==
  \A m \in Photos :
    /\ photo[m].status = "absent" => photo[m] = NoPhoto /\ Copies(m) = {}
    /\ photo[m].status # "absent" => photo[m].key \in store /\ photo[m].key.of = m
    /\ photo[m].status = "ready" => photo[m].key.content \in {"clean", "video"}

\* What a run remembers of the photograph it works on.
Remembered ==
  run.phase # "idle" /\ run.entry.job.name = "process_media" =>
    /\ run.phase \in {"rejecting", "cleaning", "written", "swapped", "described"} =>
         photo[Held].status = "processing"
    /\ run.phase \in {"cleaning", "written"} => run.memo.old = photo[Held].key
    /\ run.phase = "written" =>
         /\ run.memo.new \in store /\ run.memo.new # run.memo.old
         /\ run.memo.new.of = Held /\ run.memo.new.content = "clean"
    /\ run.phase = "swapped" =>
         /\ run.memo.old \in store /\ run.memo.old.of = Held /\ run.memo.old # photo[Held].key
         /\ photo[Held].key.content = "clean"
    /\ run.phase = "described" => photo[Held].key.content \in {"clean", "video"}

OrphansCounted ==
  /\ IsFiniteSet(Orphans)
  /\ Cardinality(Orphans) <= faults + (IF run.phase \in {"written", "swapped"} THEN 1 ELSE 0)

PhotoInv == PhotoTypeOK /\ RowsBacked /\ Remembered /\ OrphansCounted

\* A step elsewhere: the run is not one that has written a copy or replaced a
\* key, or it ends by a fault.
LEMMA Elsewhere_PhotoInv ==
  ASSUME PhotoInv, UNCHANGED mediaVars, faults \in Nat, faults' \in Nat,
         \/ run' = run /\ faults' >= faults
         \/ /\ run'.phase \notin {"rejecting", "cleaning", "written", "swapped", "described"}
            /\ \/ faults' = faults /\ run.phase \notin {"written", "swapped"}
               \/ faults' = faults + 1
  PROVE  PhotoInv'
<1>1. PhotoTypeOK' /\ RowsBacked' /\ Orphans' = Orphans
  BY DEF PhotoInv, PhotoTypeOK, RowsBacked, Copies, Orphans, mediaVars
<1>2. Remembered'
  BY DEF PhotoInv, Remembered, Held, mediaVars
<1>3. OrphansCounted'
  <2>1. IsFiniteSet(Orphans) /\ Cardinality(Orphans) \in Nat
    BY FS_CardinalityType DEF PhotoInv, OrphansCounted
  <2> QED  BY <1>1, <2>1 DEF PhotoInv, OrphansCounted
<1> QED  BY <1>1, <1>2, <1>3 DEF PhotoInv

LEMMA QueueStep_PhotoInv ==
  ASSUME PhotoInv, JobsTypeOK, QueueStep, UNCHANGED mediaVars
  PROVE  PhotoInv'
<1>1. faults \in Nat /\ faults' \in Nat
  BY QueueStep_JobsTypeOK, JobsAssumption DEF JobsTypeOK
<1>2. CASE run' = run
  <2>1. faults' \in {faults, faults + 1}
    BY DEF QueueStep, Take, Acknowledge, Announce, Raise, Crash, ApiEnqueue, ApiDies
  <2> QED  BY <1>1, <1>2, <2>1, Elsewhere_PhotoInv
<1>3. CASE run' # run
  <2>1. ASSUME NEW e \in DOMAIN queue, Take(e) PROVE PhotoInv'
    BY <1>1, <2>1, Elsewhere_PhotoInv DEF Take, Idle
  <2>2. CASE Acknowledge
    BY <1>1, <2>2, Elsewhere_PhotoInv DEF Acknowledge, Idle
  <2>3. ASSUME NEW j \in Jobs, Announce(j) PROVE PhotoInv'
    BY <1>1, <2>3, Going, Elsewhere_PhotoInv DEF Announce
  <2>4. CASE Raise
    BY <1>1, <2>4, Going, Elsewhere_PhotoInv DEF Raise
  <2>5. CASE Crash
    BY <1>1, <2>5, Elsewhere_PhotoInv DEF Crash, Idle
  <2> QED  BY <1>3, <2>1, <2>2, <2>3, <2>4, <2>5 DEF QueueStep, ApiEnqueue, ApiDies
<1> QED  BY <1>2, <1>3

LEMMA OtherHandlers_PhotoInv ==
  ASSUME PhotoInv, JobsTypeOK, HookStep \/ MatchStep, UNCHANGED mediaVars
  PROVE  PhotoInv'
<1>1. faults \in Nat
  BY JobsAssumption DEF JobsTypeOK
<1> USE Going DEF Running
<1>2. /\ faults' = faults /\ run.phase \notin {"written", "swapped"}
      /\ run'.phase \notin {"rejecting", "cleaning", "written", "swapped", "described"}
  <2>1. CASE BeginDelivery \/ WebhookGone
    BY <2>1 DEF BeginDelivery, WebhookGone
  <2>2. ASSUME NEW o, Post(o) PROVE <1>2
    BY <2>2 DEF Post
  <2>3. CASE RecordPost
    BY <2>3 DEF RecordPost
  <2>4. CASE BeginMatch
    BY <2>4 DEF BeginMatch
  <2>5. ASSUME NEW score, CommitMatch(score) PROVE <1>2
    BY <2>5 DEF CommitMatch
  <2> QED  BY <2>1, <2>2, <2>3, <2>4, <2>5 DEF HookStep, MatchStep
<1> QED  BY <1>1, <1>2, Elsewhere_PhotoInv

\* An upload is named by its new row.
LEMMA CompleteUpload_PhotoInv ==
  ASSUME PhotoInv, JobsTypeOK, NEW m \in Photos, NEW c \in {"raw", "bad", "video"}, CompleteUpload(m, c)
  PROVE  PhotoInv'
<1> DEFINE key == [of |-> m, copy |-> 0, content |-> c]
<1>1. /\ photo[m] = NoPhoto /\ photo[m].status = "absent" /\ Copies(m) = {}
      /\ store' = store \cup {key} /\ key \in Object /\ key.of = m
      /\ UNCHANGED <<run, faults>>
  BY DEF CompleteUpload, PhotoInv, RowsBacked, NoPhoto, Row, Object
<1>2. photo' = [photo EXCEPT ![m] = Row("processing", key, FALSE)]
  BY DEF CompleteUpload
<1> HIDE DEF key
<1>3. PhotoTypeOK'
  BY <1>1, <1>2 DEF PhotoInv, PhotoTypeOK, Row
<1>4. /\ photo'[m].key = key /\ photo'[m].status = "processing"
      /\ \A n \in Photos \ {m} : photo'[n] = photo[n]
  BY <1>2 DEF PhotoInv, PhotoTypeOK, Row
<1>5. RowsBacked'
  <2> SUFFICES ASSUME NEW n \in Photos PROVE RowsBacked!(n)'
    BY DEF RowsBacked
  <2>1. CASE n = m
    BY <1>1, <1>4, <2>1
  <2>2. CASE n # m
    <3>1. Copies(n)' = Copies(n)
      BY <1>1, <2>2 DEF Copies
    <3> QED  BY <1>1, <1>4, <2>2, <3>1 DEF PhotoInv, RowsBacked
  <2> QED  BY <2>1, <2>2
<1>6. Remembered'
  BY <1>1, <1>4, JobKinds DEF PhotoInv, Remembered, Held
<1>7. Orphans' \subseteq Orphans
  BY <1>1, <1>4 DEF PhotoInv, PhotoTypeOK, Orphans, Copies, Object
<1>8. OrphansCounted'
  <2>1. /\ IsFiniteSet(Orphans) /\ IsFiniteSet(Orphans') /\ Cardinality(Orphans') <= Cardinality(Orphans)
        /\ Cardinality(Orphans) \in Nat /\ Cardinality(Orphans') \in Nat
    BY <1>7, FS_Subset, FS_CardinalityType DEF PhotoInv, OrphansCounted
  <2> QED  BY <1>1, <2>1, JobsAssumption DEF PhotoInv, OrphansCounted, JobsTypeOK
<1> QED  BY <1>3, <1>5, <1>6, <1>8 DEF PhotoInv

\* A step of process_media that changes neither keys nor the store.
LEMMA SameKeys_PhotoInv ==
  ASSUME PhotoInv, JobsTypeOK, PhotoTypeOK', store' = store, faults' = faults,
         \A m \in Photos : photo'[m].key = photo[m].key,
         RowsBacked', Remembered',
         run.phase \notin {"written", "swapped"} \/ run' = run
  PROVE  PhotoInv'
<1>1. Orphans' = Orphans
  BY DEF PhotoInv, PhotoTypeOK, Orphans, Object
<1>2. IsFiniteSet(Orphans) /\ Cardinality(Orphans) \in Nat /\ faults \in Nat
  BY FS_CardinalityType, JobsAssumption DEF PhotoInv, OrphansCounted, JobsTypeOK
<1> QED  BY <1>1, <1>2 DEF PhotoInv, OrphansCounted

LEMMA BeginMedia_PhotoInv ==
  ASSUME PhotoInv, JobsTypeOK, BeginMedia
  PROVE  PhotoInv'
<1>1. Held \in Photos /\ run.phase = "begin" /\ run.entry.job.name = "process_media"
  BY JobKinds DEF BeginMedia, Running
<1>2. /\ UNCHANGED <<photo, store, faults>>
      /\ run' = IF Settled(Held) THEN Done
                ELSE IF photo[Held].key \notin store THEN Failed
                ELSE IF photo[Held].key.content = "bad" THEN Go("rejecting", None)
                ELSE IF photo[Held].key.content = "video" THEN Go("described", None)
                ELSE Go("cleaning", [old |-> photo[Held].key])
  BY DEF BeginMedia
<1>3. ~Settled(Held) /\ photo[Held].key \in store => photo[Held].status = "processing"
  BY <1>1, ObjectsAssumption DEF PhotoInv, PhotoTypeOK, RowsBacked, Settled, NoPhoto, Row
<1>4. Remembered'
  <2>1. CASE Settled(Held) \/ photo[Held].key \notin store
    BY <1>2, <2>1, Going DEF Remembered
  <2>2. CASE ~Settled(Held) /\ photo[Held].key \in store
    <3>1. Held' = Held
      BY <1>2, Going DEF Held
    <3> QED  BY <1>2, <1>3, <2>2, <3>1, Going DEF Remembered
  <2> QED  BY <2>1, <2>2
<1>5. PhotoTypeOK' /\ RowsBacked'
  BY <1>2 DEF PhotoInv, PhotoTypeOK, RowsBacked, Copies
<1> QED  BY <1>1, <1>2, <1>4, <1>5, SameKeys_PhotoInv

LEMMA RejectMedia_PhotoInv ==
  ASSUME PhotoInv, JobsTypeOK, RejectMedia
  PROVE  PhotoInv'
<1>1. /\ Held \in Photos /\ run.phase = "rejecting" /\ photo[Held].status = "processing"
      /\ photo' = [photo EXCEPT ![Held].status = "rejected"] /\ run'.phase = "done"
      /\ UNCHANGED <<store, faults>>
  BY JobKinds, Going DEF RejectMedia, Running, PhotoInv, Remembered
<1>2. PhotoTypeOK' /\ RowsBacked' /\ \A m \in Photos : photo'[m].key = photo[m].key
  BY <1>1 DEF PhotoInv, PhotoTypeOK, RowsBacked, Copies
<1>3. Remembered'
  BY <1>1 DEF Remembered
<1> QED  BY <1>1, <1>2, <1>3, SameKeys_PhotoInv

LEMMA FinishMedia_PhotoInv ==
  ASSUME PhotoInv, JobsTypeOK, NEW vector \in BOOLEAN, FinishMedia(vector)
  PROVE  PhotoInv'
<1>1. /\ Held \in Photos /\ run.phase = "described" /\ photo[Held].status = "processing"
      /\ photo[Held].key.content \in {"clean", "video"}
      /\ photo' = [photo EXCEPT ![Held].status = "ready", ![Held].vector = vector]
      /\ run'.phase \in {"done", "announce"} /\ UNCHANGED <<store, faults>>
  BY JobKinds, Going DEF FinishMedia, Running, PhotoInv, Remembered
<1>2. /\ photo'[Held] = [status |-> "ready", key |-> photo[Held].key, vector |-> vector]
      /\ \A m \in Photos \ {Held} : photo'[m] = photo[m]
      /\ DOMAIN photo' = Photos /\ photo' = [m \in DOMAIN photo' |-> photo'[m]]
  BY <1>1 DEF PhotoInv, PhotoTypeOK
<1>3. PhotoTypeOK' /\ RowsBacked' /\ \A m \in Photos : photo'[m].key = photo[m].key
  BY <1>1, <1>2 DEF PhotoInv, PhotoTypeOK, RowsBacked, Copies
<1>4. Remembered'
  BY <1>1 DEF Remembered
<1> QED  BY <1>1, <1>3, <1>4, SameKeys_PhotoInv

LEMMA RepairVector_PhotoInv ==
  ASSUME PhotoInv, JobsTypeOK, NEW m \in Photos, RepairVector(m)
  PROVE  PhotoInv'
<1>1. photo[m].status = "ready" /\ UNCHANGED <<run, store, faults>>
  BY DEF RepairVector
<1>2. PhotoTypeOK'
  BY <1>1 DEF RepairVector, PhotoInv, PhotoTypeOK
<1>3. \A n \in Photos : photo'[n].key = photo[n].key /\ photo'[n].status = photo[n].status
  BY DEF RepairVector, PhotoInv, PhotoTypeOK
<1>4. \A n \in Photos : photo[n].status = "absent" => photo'[n] = photo[n]
  BY <1>1 DEF RepairVector, PhotoInv, PhotoTypeOK
<1>5. RowsBacked'
  BY <1>1, <1>3, <1>4 DEF PhotoInv, RowsBacked, Copies
<1>6. Remembered'
  BY <1>1, <1>3, JobKinds DEF PhotoInv, Remembered, Held
<1> QED  BY <1>1, <1>2, <1>3, <1>5, <1>6, SameKeys_PhotoInv

\* The objects of a photograph are the one its row names and orphans: there are
\* fewer than MaxFaults + 2 of them, so that some number is not taken.
LEMMA FreshIsNew ==
  ASSUME PhotoInv, JobsTypeOK, NEW m \in Photos, photo[m].status # "absent",
         run.phase \notin {"written", "swapped"}
  PROVE  Fresh(m) \in Object \ store /\ Fresh(m).of = m /\ Fresh(m).content = "clean"
<1> DEFINE numbers == 1..(MaxFaults + 2)
           free(n) == \A o \in Copies(m) : o.copy # n
<1>1. /\ IsFiniteSet(Copies(m)) /\ Cardinality(Copies(m)) \in Nat
      /\ Cardinality(Copies(m)) <= MaxFaults + 1
  <2>1. /\ IsFiniteSet(Orphans) /\ Cardinality(Orphans) \in Nat /\ Cardinality(Orphans) <= MaxFaults
    BY FS_CardinalityType, JobsAssumption DEF PhotoInv, OrphansCounted, JobsTypeOK
  <2>2. /\ IsFiniteSet(Orphans \cup {photo[m].key})
        /\ Cardinality(Orphans \cup {photo[m].key}) \in Nat
        /\ Cardinality(Orphans \cup {photo[m].key}) <= MaxFaults + 1
    <3>1. /\ IsFiniteSet(Orphans \cup {photo[m].key})
          /\ Cardinality(Orphans \cup {photo[m].key}) \in {Cardinality(Orphans), Cardinality(Orphans) + 1}
      BY <2>1, FS_AddElement
    <3> QED  BY <2>1, <3>1, JobsAssumption
  <2>3. Copies(m) \subseteq Orphans \cup {photo[m].key}
    BY DEF Copies, Orphans
  <2> QED  BY <2>2, <2>3, FS_Subset, FS_CardinalityType, JobsAssumption
<1>2. \E n \in numbers : free(n)
  <2> SUFFICES ASSUME \A n \in numbers : \E o \in Copies(m) : o.copy = n PROVE FALSE
    OBVIOUS
  <2> DEFINE f == [n \in numbers |-> CHOOSE o \in Copies(m) : o.copy = n]
  <2>1. \A n \in numbers : f[n] \in Copies(m) /\ f[n].copy = n
    OBVIOUS
  <2>2. f \in [numbers -> Copies(m)]
    BY <2>1
  <2>3. IsFiniteSet(numbers) /\ Cardinality(numbers) = MaxFaults + 2
    BY FS_Interval, JobsAssumption
  <2> HIDE DEF f
  <2>4. \E x, y \in numbers : x # y /\ f[x] = f[y]
    BY <1>1, <2>2, <2>3, FS_PigeonHole, JobsAssumption
  <2> QED  BY <2>1, <2>4
<1> DEFINE k == CHOOSE n \in numbers : free(n)
<1>3. k \in numbers /\ free(k)
  BY <1>2
<1>4. Fresh(m) = [of |-> m, content |-> "clean", copy |-> k]
  BY DEF Fresh
<1> HIDE DEF k
<1>5. k \in Nat
  BY <1>3, JobsAssumption
<1> QED  BY <1>3, <1>4, <1>5 DEF Object, Copies

LEMMA WriteCopy_PhotoInv ==
  ASSUME PhotoInv, JobsTypeOK, WriteCopy
  PROVE  PhotoInv'
<1> DEFINE new == Fresh(Held)
<1>1. /\ Held \in Photos /\ run.phase = "cleaning" /\ photo[Held].status = "processing"
      /\ run.memo.old = photo[Held].key /\ photo[Held].key \in store /\ run.entry.job.name = "process_media"
      /\ store' = store \cup {new} /\ UNCHANGED <<photo, faults>>
      /\ run' = [phase |-> "written", entry |-> run.entry, memo |-> [old |-> run.memo.old, new |-> new]]
  BY JobKinds, Going DEF WriteCopy, Running, PhotoInv, Remembered, RowsBacked
<1>2. new \in Object /\ new \notin store /\ new.of = Held /\ new.content = "clean"
  BY <1>1, FreshIsNew
<1> HIDE DEF new
<1>3. PhotoTypeOK'
  BY <1>1, <1>2 DEF PhotoInv, PhotoTypeOK
<1>4. RowsBacked'
  <2> SUFFICES ASSUME NEW n \in Photos PROVE RowsBacked!(n)'
    BY DEF RowsBacked
  <2>1. n # Held => Copies(n)' = Copies(n)
    BY <1>1, <1>2 DEF Copies
  <2> QED  BY <1>1, <2>1 DEF PhotoInv, RowsBacked
<1>5. Remembered'
  BY <1>1, <1>2 DEF Remembered, Held
<1>6. Orphans' = Orphans \cup {new} /\ new \notin Orphans
  BY <1>1, <1>2 DEF PhotoInv, RowsBacked, Orphans
<1>7. OrphansCounted'
  <2>1. IsFiniteSet(Orphans) /\ Cardinality(Orphans) \in Nat /\ Cardinality(Orphans) <= faults
    BY <1>1, FS_CardinalityType DEF PhotoInv, OrphansCounted, JobsTypeOK
  <2>2. IsFiniteSet(Orphans') /\ Cardinality(Orphans') = Cardinality(Orphans) + 1
    BY <1>6, <2>1, FS_AddElement
  <2> QED  BY <1>1, <2>1, <2>2 DEF OrphansCounted, JobsTypeOK
<1> QED  BY <1>3, <1>4, <1>5, <1>7 DEF PhotoInv

\* The copy stops being an orphan, the original becomes one.
LEMMA SwapKey_PhotoInv ==
  ASSUME PhotoInv, JobsTypeOK, SwapKey
  PROVE  PhotoInv'
<1> DEFINE old == photo[Held].key
           new == run.memo.new
<1>1. /\ Held \in Photos /\ run.phase = "written" /\ photo[Held].status = "processing"
      /\ run.memo.old = old /\ run.entry.job.name = "process_media"
      /\ new \in store /\ new # old /\ new.of = Held /\ new.content = "clean"
      /\ old \in store /\ old.of = Held
      /\ UNCHANGED <<store, faults>>
      /\ run' = [phase |-> "swapped", entry |-> run.entry, memo |-> run.memo]
      /\ photo' = [photo EXCEPT ![Held].key = new]
  BY JobKinds, Going DEF SwapKey, Running, PhotoInv, Remembered, RowsBacked
<1> HIDE DEF old, new
<1>2. /\ photo'[Held].key = new /\ photo'[Held].status = "processing" /\ photo[Held].key = old
      /\ \A n \in Photos \ {Held} : photo'[n] = photo[n]
  BY <1>1 DEF PhotoInv, PhotoTypeOK, old
<1>3. PhotoTypeOK'
  BY <1>1 DEF PhotoInv, PhotoTypeOK
<1>4. RowsBacked'
  <2> SUFFICES ASSUME NEW n \in Photos PROVE RowsBacked!(n)'
    BY DEF RowsBacked
  <2>1. Copies(n)' = Copies(n)
    BY <1>1 DEF Copies
  <2> QED  BY <1>1, <1>2, <2>1 DEF PhotoInv, RowsBacked
<1>5. Remembered'
  BY <1>1, <1>2 DEF Remembered, Held
<1>6. Orphans' = (Orphans \ {new}) \cup {old} /\ new \in Orphans /\ old \notin Orphans
  BY <1>1, <1>2 DEF PhotoInv, PhotoTypeOK, Orphans, Object
<1>7. OrphansCounted'
  <2>1. IsFiniteSet(Orphans) /\ Cardinality(Orphans) \in Nat /\ Cardinality(Orphans) <= faults + 1
    BY <1>1, FS_CardinalityType DEF PhotoInv, OrphansCounted
  <2>2. IsFiniteSet(Orphans \ {new}) /\ Cardinality(Orphans \ {new}) = Cardinality(Orphans) - 1
    BY <1>6, <2>1, FS_RemoveElement
  <2>3. IsFiniteSet(Orphans') /\ Cardinality(Orphans') = Cardinality(Orphans)
    BY <1>6, <2>1, <2>2, FS_AddElement
  <2> QED  BY <1>1, <2>1, <2>3 DEF OrphansCounted
<1> QED  BY <1>3, <1>4, <1>5, <1>7 DEF PhotoInv

\* What is deleted is an orphan.
LEMMA DeleteOriginal_PhotoInv ==
  ASSUME PhotoInv, JobsTypeOK, DeleteOriginal
  PROVE  PhotoInv'
<1> DEFINE old == run.memo.old
<1>1. /\ Held \in Photos /\ run.phase = "swapped" /\ photo[Held].status = "processing"
      /\ run.entry.job.name = "process_media"
      /\ old \in store /\ old.of = Held /\ old # photo[Held].key
      /\ photo[Held].key.content = "clean"
      /\ store' = store \ {old} /\ UNCHANGED <<photo, faults>>
      /\ run' = [phase |-> "described", entry |-> run.entry, memo |-> run.memo]
  BY JobKinds, Going DEF DeleteOriginal, Discarded, Running, PhotoInv, Remembered
<1> HIDE DEF old
<1>2. PhotoTypeOK'
  BY <1>1 DEF PhotoInv, PhotoTypeOK
<1>3. RowsBacked'
  <2> SUFFICES ASSUME NEW n \in Photos PROVE RowsBacked!(n)'
    BY DEF RowsBacked
  <2>1. n # Held => Copies(n)' = Copies(n)
    BY <1>1 DEF Copies
  <2> QED  BY <1>1, <2>1 DEF PhotoInv, RowsBacked
<1>4. Remembered'
  BY <1>1 DEF Remembered, Held
<1>5. Orphans' = Orphans \ {old} /\ old \in Orphans
  BY <1>1 DEF Orphans
<1>6. OrphansCounted'
  <2>1. IsFiniteSet(Orphans) /\ Cardinality(Orphans) \in Nat /\ Cardinality(Orphans) <= faults + 1
    BY <1>1, FS_CardinalityType DEF PhotoInv, OrphansCounted
  <2>2. IsFiniteSet(Orphans') /\ Cardinality(Orphans') = Cardinality(Orphans) - 1
    BY <1>5, <2>1, FS_RemoveElement
  <2> QED  BY <1>1, <2>1, <2>2 DEF OrphansCounted, JobsTypeOK
<1> QED  BY <1>2, <1>3, <1>4, <1>6 DEF PhotoInv

LEMMA Work_PhotoInv ==
  ASSUME PhotoInv, JobsTypeOK, [WorkNext]_workVars
  PROVE  PhotoInv'
<1>1. CASE UNCHANGED workVars
  BY <1>1, Elsewhere_PhotoInv, JobsAssumption DEF JobsTypeOK, workVars, coreVars, jobVars, mediaVars
<1>2. CASE MediaStep
  BY <1>2, BeginMedia_PhotoInv, RejectMedia_PhotoInv, WriteCopy_PhotoInv, SwapKey_PhotoInv,
     DeleteOriginal_PhotoInv, FinishMedia_PhotoInv DEF MediaStep
<1>3. CASE Uploads
  BY <1>3, CompleteUpload_PhotoInv, RepairVector_PhotoInv DEF Uploads
<1>4. CASE Request /\ UNCHANGED mediaVars
  BY <1>4, Elsewhere_PhotoInv, JobsAssumption DEF Request, JobsTypeOK
<1> QED  BY <1>1, <1>2, <1>3, <1>4, WorkKinds, QueueStep_PhotoInv, OtherHandlers_PhotoInv
         DEF Approves, Integrates, Reports

\* Whatever interrupts process_media, and however often, the row of every
\* photograph names an object that is there, what is shown is a copy without
\* metadata, and objects that no row names are at most one for each interruption.
THEOREM PhotosAreServable == BackgroundSpec => []PhotoIsServable
<1> DEFINE Inv == JobsTypeOK /\ PhotoInv
<1>1. BackgroundInit => Inv
  <2> SUFFICES ASSUME BackgroundInit PROVE PhotoInv
    BY Init_JobsTypeOK
  <2>1. PhotoTypeOK /\ RowsBacked /\ Orphans = {}
    BY DEF BackgroundInit, WorkInit, MediaInit, PhotoTypeOK, RowsBacked, Orphans, Copies, NoPhoto, Row
  <2>2. Remembered /\ faults = 0
    BY DEF BackgroundInit, WorkInit, JobsInit, Idle, Remembered
  <2> QED  BY <2>1, <2>2, FS_EmptySet DEF PhotoInv, OrphansCounted
<1>2. Inv /\ [BackgroundNext]_<<workVars, pushVars>> => Inv'
  BY BackgroundStep, Work_JobsTypeOK, Work_PhotoInv
<1>3. Inv => PhotoIsServable
  <2> SUFFICES ASSUME PhotoInv PROVE PhotoIsServable
    OBVIOUS
  <2>1. \A m \in Photos : photo[m] # NoPhoto => RowsBacked!(m) /\ photo[m].status # "absent"
    BY DEF PhotoInv, RowsBacked
  <2> QED  BY <2>1 DEF PhotoInv, OrphansCounted, Orphans, PhotoIsServable
<1> QED  BY <1>1, <1>2, <1>3, PTL DEF BackgroundSpec

-----------------------------------------------------------------------------
(* Webhooks.                                                               *)

Bit(b) == IF b THEN 1 ELSE 0
Queues(d, n) == CopiesOf([job |-> HookJob(d), tries |-> n], queue)
Holds(d) == run.phase # "idle" /\ run.entry.job = HookJob(d)
InRun(d) == \/ run.phase = "announce" /\ HookJob(d) \in run.memo.jobs
            \/ run.phase \in {"begin", "posting", "failed"} /\ run.entry.job = HookJob(d)

Waiting(d) == Queues(d, 0) + Queues(d, 1) + Queues(d, 2)

\* The posts of a delivery that its jobs may still make.
Tokens(d) == Bit(HookJob(d) \in outbox) + Waiting(d) + Bit(InRun(d))

PostsTypeOK ==
  /\ hook \in [Hooks -> {"new", "active", "deleted"}]
  /\ delivery \in [Deliveries -> [status : {"none", "pending", "retrying", "failed", "delivered"},
                                  attempts : Nat]]
  /\ posts \in [Deliveries -> Nat] /\ taken \in [Deliveries -> Nat]

\* A delivery has a row only while its webhook is active; before it, no job.
Recorded ==
  \A d \in Deliveries :
    /\ delivery[d].status = "none" => delivery[d] = NoDelivery
    /\ delivery[d] # NoDelivery => hook[d[2]] = "active"
    /\ delivery[d] = NoDelivery /\ hook[d[2]] # "deleted" =>
         posts[d] = 0 /\ Tokens(d) = 0 /\ ~Holds(d)
    /\ d[1] \in Pairs /\ told[d[1]] = 0 => delivery[d] = NoDelivery

\* Posts made and posts to come.
Budgeted ==
  \A d \in Deliveries :
    /\ posts[d] <= MaxAttempts + faults
    /\ Open(d) => /\ delivery[d].attempts < MaxAttempts
                  /\ posts[d] + Tokens(d) <= delivery[d].attempts + 1 + faults
    /\ delivery[d].status \in {"failed", "delivered"} => posts[d] + Tokens(d) <= MaxAttempts + faults
    /\ delivery[d].status = "failed" => delivery[d].attempts >= MaxAttempts
    /\ delivery[d].status = "delivered" => taken[d] > 0

\* What a run knows of the delivery it carries.
Carrying ==
  \A d \in Deliveries :
    run.phase \in {"posting", "posted"} /\ run.entry.job = HookJob(d) =>
      /\ \/ hook[d[2]] = "deleted"
         \/ /\ delivery[d].status \notin {"none", "delivered"}
            /\ run.memo.attempts = delivery[d].attempts + 1
      /\ run.phase = "posted" /\ run.memo.ok => taken[d] > 0

PostsInv == PostsTypeOK /\ Recorded /\ Budgeted /\ Carrying

\* Jobs of different kinds, or of different deliveries, are different.
LEMMA JobsDiffer ==
  /\ \A d, e \in Deliveries : HookJob(d) = HookJob(e) => d = e
  /\ \A d \in Deliveries : \A m \in Photos : HookJob(d) # PhotoJob(m)
  /\ \A d \in Deliveries : \A l \in Listings : HookJob(d) # ListingJob(l) /\ HookJob(d) # MatchJob(l)
<1>1. \A d : HookJob(d).name = "deliver_webhook" /\ HookJob(d).of = d
  BY DEF HookJob
<1>2. \A m : PhotoJob(m).name = "process_media"
  BY DEF PhotoJob
<1>3. \A l : ListingJob(l).name = "match_listing" /\ MatchJob(l).name = "match_listing"
  BY DEF ListingJob, MatchJob
<1> QED  BY <1>1, <1>2, <1>3

LEMMA TokensAreCounted ==
  ASSUME JobsTypeOK, NEW d \in Deliveries
  PROVE  Waiting(d) \in Nat /\ Tokens(d) \in Nat
BY DEF JobsTypeOK, IsBag, CopiesOf, Queues, Waiting, Tokens, Bit

LEMMA TokensStayCounted ==
  ASSUME JobsTypeOK', NEW d \in Deliveries
  PROVE  Waiting(d)' \in Nat /\ Tokens(d)' \in Nat
BY DEF JobsTypeOK, IsBag, CopiesOf, Queues, Waiting, Tokens, Bit

\* An entry that is added or taken counts for the delivery of its job.
LEMMA WaitingMore ==
  ASSUME JobsTypeOK, NEW d \in Deliveries, NEW e \in Entries, queue' = queue (+) SetToBag({e})
  PROVE  Waiting(d)' = Waiting(d) + Bit(e.job = HookJob(d))
<1> DEFINE entry(n) == [job |-> HookJob(d), tries |-> n]
<1>1. /\ CopiesOf(e, queue') = CopiesOf(e, queue) + 1
      /\ \A x : x # e => CopiesOf(x, queue') = CopiesOf(x, queue)
  BY Adding DEF JobsTypeOK
<1>2. /\ \A n \in 0..2 : Queues(d, n) = CopiesOf(entry(n), queue) /\ Queues(d, n)' = CopiesOf(entry(n), queue')
      /\ \A n \in 0..2 : Queues(d, n) \in Nat
  BY DEF Queues, JobsTypeOK, IsBag, CopiesOf
<1>3. CASE e.job # HookJob(d)
  <2>1. \A n \in 0..2 : entry(n) # e
    BY <1>3
  <2>2. \A n \in 0..2 : Queues(d, n)' = Queues(d, n)
    BY <1>1, <1>2, <2>1
  <2> QED  BY <1>2, <1>3, <2>2 DEF Waiting, Bit
<1>4. CASE e.job = HookJob(d)
  <2>1. PICK n \in 0..2 : e = entry(n)
    BY <1>4 DEF Entries
  <2>2. \A k \in 0..2 : k # n => entry(k) # e
    BY <2>1
  <2>3. \A k \in 0..2 : Queues(d, k)' = IF k = n THEN Queues(d, k) + 1 ELSE Queues(d, k)
    BY <1>1, <1>2, <2>1, <2>2
  <2> QED  BY <1>2, <1>4, <2>3 DEF Waiting, Bit
<1> QED  BY <1>3, <1>4

LEMMA WaitingLess ==
  ASSUME JobsTypeOK, NEW d \in Deliveries, NEW e \in DOMAIN queue, queue' = queue (-) SetToBag({e})
  PROVE  Waiting(d)' = Waiting(d) - Bit(e.job = HookJob(d))
<1> DEFINE entry(n) == [job |-> HookJob(d), tries |-> n]
<1>1. /\ CopiesOf(e, queue') = CopiesOf(e, queue) - 1
      /\ \A x : x # e => CopiesOf(x, queue') = CopiesOf(x, queue)
  BY Removing DEF JobsTypeOK
<1>2. /\ \A n \in 0..2 : Queues(d, n) = CopiesOf(entry(n), queue) /\ Queues(d, n)' = CopiesOf(entry(n), queue')
      /\ \A n \in 0..2 : Queues(d, n) \in Nat
  BY DEF Queues, JobsTypeOK, IsBag, CopiesOf
<1>3. CASE e.job # HookJob(d)
  <2>1. \A n \in 0..2 : entry(n) # e
    BY <1>3
  <2>2. \A n \in 0..2 : Queues(d, n)' = Queues(d, n)
    BY <1>1, <1>2, <2>1
  <2> QED  BY <1>2, <1>3, <2>2 DEF Waiting, Bit
<1>4. CASE e.job = HookJob(d)
  <2>1. PICK n \in 0..2 : e = entry(n)
    BY <1>4 DEF Entries, JobsTypeOK
  <2>2. \A k \in 0..2 : k # n => entry(k) # e
    BY <2>1
  <2>3. \A k \in 0..2 : Queues(d, k)' = IF k = n THEN Queues(d, k) - 1 ELSE Queues(d, k)
    BY <1>1, <1>2, <2>1, <2>2
  <2> QED  BY <1>2, <1>4, <2>3 DEF Waiting, Bit
<1> QED  BY <1>3, <1>4

\* A step that makes and records no post: a fault may add one to come, but not
\* for a delivery that no job is about.
Quiet ==
  /\ UNCHANGED <<hook, delivery, posts, taken, told>>
  /\ faults' >= faults
  /\ \A d \in Deliveries : /\ Tokens(d)' <= Tokens(d) + (faults' - faults)
                           /\ Tokens(d) = 0 /\ ~Holds(d) => Tokens(d)' = 0 /\ ~Holds(d)'
  /\ run' = run \/ run'.phase \notin {"posting", "posted"}

LEMMA Quiet_PostsInv ==
  ASSUME PostsInv, JobsTypeOK, JobsTypeOK', Quiet
  PROVE  PostsInv'
<1> USE DEF Quiet, PostsInv
<1>1. faults \in Nat /\ faults' \in Nat /\ faults' >= faults
  BY JobsAssumption DEF JobsTypeOK
<1>2. PostsTypeOK' /\ Recorded' /\ Carrying'
  BY DEF PostsTypeOK, Recorded, Carrying
<1>3. Budgeted'
  <2> SUFFICES ASSUME NEW d \in Deliveries PROVE Budgeted!(d)'
    BY DEF Budgeted
  <2>1. /\ Tokens(d) \in Nat /\ Tokens(d)' \in Nat /\ Tokens(d)' <= Tokens(d) + (faults' - faults)
        /\ posts[d] \in Nat /\ delivery[d].attempts \in Nat
    BY TokensAreCounted, TokensStayCounted DEF PostsTypeOK
  <2>2. Budgeted!(d) /\ UNCHANGED <<posts, delivery, taken>>
    BY DEF Budgeted
  <2> QED  BY <1>1, <2>1, <2>2, HooksAssumption DEF Open
<1> QED  BY <1>2, <1>3

\* What the queue does with jobs keeps what they may still post.
LEMMA QueueStep_Quiet ==
  ASSUME JobsTypeOK, QueueStep, UNCHANGED <<hookVars, matchVars>>
  PROVE  Quiet
<1>1. faults \in Nat /\ \A d \in Deliveries : Waiting(d) \in Nat
  BY TokensAreCounted, JobsAssumption DEF JobsTypeOK
<1>2. UNCHANGED <<hook, delivery, posts, taken, told>>
  BY DEF hookVars, matchVars
<1>3. ASSUME NEW e \in DOMAIN queue, Take(e) PROVE Quiet
  <2>1. /\ run.phase = "idle" /\ run' = [phase |-> "begin", entry |-> e, memo |-> None]
        /\ queue' = queue (-) SetToBag({e}) /\ UNCHANGED <<outbox, faults>>
    BY <1>3 DEF Take, Idle
  <2>2. ASSUME NEW d \in Deliveries
        PROVE  /\ Tokens(d)' = Tokens(d)
               /\ Tokens(d) = 0 => ~Holds(d)'
    <3>1. Waiting(d)' = Waiting(d) - Bit(e.job = HookJob(d)) /\ Waiting(d)' \in Nat
      BY <1>3, <2>1, WaitingLess, TokensStayCounted, QueueStep_JobsTypeOK DEF QueueStep
    <3>2. ~InRun(d) /\ (InRun(d)' <=> e.job = HookJob(d)) /\ (Holds(d)' <=> e.job = HookJob(d))
      BY <2>1 DEF InRun, Holds
    <3> QED  BY <1>1, <2>1, <3>1, <3>2 DEF Tokens, Bit
  <2>3. \A d \in Deliveries : Tokens(d) \in Nat
    BY TokensAreCounted
  <2> QED  BY <1>1, <1>2, <2>1, <2>2, <2>3 DEF Quiet
<1>4. CASE Acknowledge
  <2> DEFINE again == [run.entry EXCEPT !.tries = @ + 1]
  <2>1. /\ run.phase \in {"done", "failed"} /\ run' = Idle /\ UNCHANGED <<outbox, faults>>
        /\ run.entry \in Entries
        /\ \/ queue' = queue
           \/ /\ run.phase = "failed" /\ run.entry.tries + 1 < 3
              /\ queue' = queue (+) SetToBag({again})
    BY <1>4 DEF Acknowledge, JobsTypeOK, Retries, Tries
  <2>2. run.entry.tries + 1 < 3 => again \in Entries /\ again.job = run.entry.job
    <3>1. run.entry.tries \in 0..2 /\ again = [job |-> run.entry.job, tries |-> run.entry.tries + 1]
      BY <2>1 DEF Entries
    <3> QED  BY <2>1, <3>1 DEF Entries
  <2> HIDE DEF again
  <2>3. ASSUME NEW d \in Deliveries
        PROVE  Tokens(d)' <= Tokens(d) /\ ~Holds(d)' /\ Tokens(d)' \in Nat
    <3>1. ~InRun(d)' /\ ~Holds(d)' /\ (InRun(d) <=> run.phase = "failed" /\ run.entry.job = HookJob(d))
      BY <2>1 DEF InRun, Holds, Idle
    <3>2. \/ Waiting(d)' = Waiting(d)
          \/ /\ run.phase = "failed"
             /\ Waiting(d)' = Waiting(d) + Bit(run.entry.job = HookJob(d))
      BY <2>1, <2>2, WaitingMore DEF Waiting, Queues
    <3> QED  BY <1>1, <2>1, <3>1, <3>2 DEF Tokens, Bit
  <2>4. \A d \in Deliveries : Tokens(d) \in Nat
    BY TokensAreCounted
  <2>5. run'.phase = "idle" /\ faults' = faults
    BY <2>1 DEF Idle
  <2> QED  BY <1>1, <1>2, <2>3, <2>4, <2>5 DEF Quiet
<1>5. CASE Raise
  <2>1. /\ run.phase \notin {"idle"} /\ run' = [phase |-> "failed", entry |-> run.entry, memo |-> None]
        /\ faults' = faults + 1 /\ UNCHANGED <<queue, outbox>>
    BY <1>5, Going DEF Raise
  <2>2. ASSUME NEW d \in Deliveries
        PROVE  /\ Tokens(d)' <= Tokens(d) + 1
               /\ ~Holds(d) => Tokens(d)' <= Tokens(d) /\ ~Holds(d)'
               /\ Tokens(d)' \in Nat /\ Tokens(d) \in Nat
    <3>1. /\ InRun(d)' <=> Holds(d)
          /\ Holds(d)' <=> Holds(d)
      BY <2>1 DEF InRun, Holds
    <3>2. Waiting(d)' = Waiting(d)
      BY <2>1 DEF Waiting, Queues
    <3> QED  BY <1>1, <2>1, <3>1, <3>2 DEF Tokens, Bit
  <2> QED  BY <1>1, <1>2, <2>1, <2>2 DEF Quiet
<1>6. CASE Crash
  <2>1. /\ run.phase # "idle" /\ run' = Idle /\ run.entry \in Entries
        /\ queue' = queue (+) SetToBag({run.entry}) /\ faults' = faults + 1 /\ outbox' = outbox
    BY <1>6 DEF Crash, Recovered, JobsTypeOK
  <2>2. ASSUME NEW d \in Deliveries
        PROVE  /\ Tokens(d)' <= Tokens(d) + 1
               /\ ~Holds(d) => Tokens(d)' <= Tokens(d) /\ ~Holds(d)'
               /\ Tokens(d)' \in Nat /\ Tokens(d) \in Nat
    <3>1. ~InRun(d)' /\ ~Holds(d)' /\ (Holds(d) <=> run.entry.job = HookJob(d))
      BY <2>1 DEF InRun, Holds, Idle
    <3>2. Waiting(d)' = Waiting(d) + Bit(run.entry.job = HookJob(d))
      BY <2>1, WaitingMore
    <3> QED  BY <1>1, <2>1, <3>1, <3>2 DEF Tokens, Bit
  <2>3. run'.phase = "idle"
    BY <2>1 DEF Idle
  <2> QED  BY <1>1, <1>2, <2>1, <2>2, <2>3 DEF Quiet
<1>7. ASSUME NEW j \in Jobs, Announce(j) PROVE Quiet
  <2>1. /\ run.phase = "announce" /\ j \in run.memo.jobs /\ j \in AnyJob
        /\ queue' = queue (+) SetToBag({First(j)}) /\ UNCHANGED <<outbox, faults>>
        /\ run' = IF run.memo.jobs \ {j} = {} THEN [phase |-> "done", entry |-> run.entry, memo |-> None]
                  ELSE [phase |-> "announce", entry |-> run.entry, memo |-> [jobs |-> run.memo.jobs \ {j}]]
    BY <1>7, Going DEF Announce, JobsTypeOK
  <2>2. ASSUME NEW d \in Deliveries
        PROVE  Tokens(d)' = Tokens(d) /\ (Holds(d)' <=> Holds(d)) /\ Tokens(d) \in Nat
    <3>1. /\ InRun(d)' <=> HookJob(d) \in run.memo.jobs \ {j}
          /\ InRun(d) <=> HookJob(d) \in run.memo.jobs
          /\ Holds(d)' <=> Holds(d)
      BY <2>1 DEF InRun, Holds
    <3>2. First(j) \in Entries /\ First(j).job = j
      BY <2>1 DEF First, Entries
    <3>3. Waiting(d)' = Waiting(d) + Bit(j = HookJob(d))
      BY <2>1, <3>2, WaitingMore
    <3> QED  BY <1>1, <2>1, <3>1, <3>3 DEF Tokens, Bit
  <2>3. run'.phase \in {"done", "announce"}
    BY <2>1
  <2> QED  BY <1>1, <1>2, <2>1, <2>2, <2>3 DEF Quiet
<1>8. ASSUME NEW j \in Jobs, ApiEnqueue(j) PROVE Quiet
  <2>1. /\ j \in outbox /\ j \in AnyJob /\ outbox' = outbox \ {j}
        /\ queue' = queue (+) SetToBag({First(j)}) /\ UNCHANGED <<run, faults>>
    BY <1>8 DEF ApiEnqueue, JobsTypeOK
  <2>2. ASSUME NEW d \in Deliveries
        PROVE  Tokens(d)' = Tokens(d) /\ (Holds(d)' <=> Holds(d)) /\ Tokens(d) \in Nat
    <3>1. (InRun(d)' <=> InRun(d)) /\ (Holds(d)' <=> Holds(d))
      BY <2>1 DEF InRun, Holds
    <3>2. First(j) \in Entries /\ First(j).job = j
      BY <2>1 DEF First, Entries
    <3>3. Waiting(d)' = Waiting(d) + Bit(j = HookJob(d))
      BY <2>1, <3>2, WaitingMore
    <3> QED  BY <1>1, <2>1, <3>1, <3>3 DEF Tokens, Bit
  <2> QED  BY <1>1, <1>2, <2>1, <2>2 DEF Quiet
<1>9. ASSUME NEW j \in Jobs, ApiDies(j) PROVE Quiet
  <2>1. outbox' = outbox \ {j} /\ UNCHANGED <<queue, run>> /\ faults' = faults + 1
    BY <1>9 DEF ApiDies
  <2>2. ASSUME NEW d \in Deliveries
        PROVE  Tokens(d)' <= Tokens(d) /\ (Holds(d)' <=> Holds(d)) /\ Tokens(d) \in Nat /\ Tokens(d)' \in Nat
    <3>1. (InRun(d)' <=> InRun(d)) /\ (Holds(d)' <=> Holds(d)) /\ Waiting(d)' = Waiting(d)
      BY <2>1 DEF InRun, Holds, Waiting, Queues
    <3> QED  BY <1>1, <2>1, <3>1 DEF Tokens, Bit
  <2> QED  BY <1>1, <1>2, <2>1, <2>2 DEF Quiet
<1> QED  BY <1>3, <1>4, <1>5, <1>6, <1>7, <1>8, <1>9 DEF QueueStep

\* A handler's step that announces no delivery keeps what its own may post, or
\* gives it up.
LEMMA Handling_Quiet ==
  ASSUME JobsTypeOK, HandlerStep, UNCHANGED <<hook, delivery, posts, taken, told>>,
         run'.phase \notin {"posting", "posted"},
         \A d \in Deliveries : InRun(d)' => InRun(d)
  PROVE  Quiet
<1>1. faults \in Nat /\ faults' = faults
  BY JobsAssumption DEF JobsTypeOK, HandlerStep
<1>2. ASSUME NEW d \in Deliveries
      PROVE  Tokens(d)' <= Tokens(d) /\ Tokens(d)' \in Nat /\ Tokens(d) \in Nat /\ (Holds(d)' <=> Holds(d))
  <2>1. Waiting(d)' = Waiting(d) /\ Waiting(d) \in Nat
    BY TokensAreCounted DEF HandlerStep, Waiting, Queues
  <2>2. Holds(d)' <=> Holds(d)
    BY DEF HandlerStep, Holds
  <2> QED  BY <2>1, <2>2 DEF HandlerStep, Tokens, Bit
<1> QED  BY <1>1, <1>2 DEF Quiet

LEMMA MediaStep_Quiet ==
  ASSUME JobsTypeOK, HandlerStep, MediaStep, UNCHANGED <<hookVars, matchVars>>
  PROVE  Quiet
<1> DEFINE Fine == /\ run.entry.job.name = "process_media"
                   /\ run'.phase \notin {"posting", "posted"}
                   /\ run'.phase = "announce" => \E l \in Listings : run'.memo.jobs = {MatchJob(l)}
<1>1. ASSUME BeginMedia PROVE Fine
  <2>1. run.entry.job.name = "process_media" /\ run.phase = "begin"
    BY <1>1 DEF BeginMedia, Running
  <2>2. run' \in {Done, Failed, Go("rejecting", None), Go("described", None),
                  Go("cleaning", [old |-> photo[Held].key])}
    BY <1>1 DEF BeginMedia
  <2> QED  BY <2>1, <2>2, Going
<1>2. ASSUME RejectMedia \/ WriteCopy \/ SwapKey \/ DeleteOriginal PROVE Fine
  BY <1>2, Going DEF RejectMedia, WriteCopy, SwapKey, DeleteOriginal, Running
<1>3. ASSUME NEW vector \in BOOLEAN, FinishMedia(vector) PROVE Fine
  <2>1. /\ run.entry.job.name = "process_media" /\ Held \in Photos
        /\ run' = IF ListingOf[Held] = None THEN GoAnnounce({}) ELSE GoAnnounce({MatchJob(ListingOf[Held])})
    BY <1>3, JobKinds DEF FinishMedia, Running
  <2>2. ListingOf[Held] \in Listings \cup {None}
    BY <2>1, WorkAssumption
  <2> QED  BY <2>1, <2>2, Going
<1>4. Fine
  BY <1>1, <1>2, <1>3 DEF MediaStep
<1>5. run'.entry = run.entry
  BY DEF HandlerStep
<1>6. ASSUME NEW d \in Deliveries PROVE ~InRun(d)'
  BY <1>4, <1>5, JobsDiffer DEF InRun, HookJob
<1> HIDE DEF Fine
<1> QED  BY <1>4, <1>6, Handling_Quiet DEF Fine, hookVars, matchVars

LEMMA BeginMatch_Quiet ==
  ASSUME JobsTypeOK, HandlerStep, BeginMatch
  PROVE  Quiet
<1>1. /\ run'.phase \in {"matching", "done"} /\ UNCHANGED <<hook, delivery, posts, taken, told>>
  BY Going DEF BeginMatch, hookVars, matchVars
<1>2. \A d \in Deliveries : ~InRun(d)'
  BY <1>1 DEF InRun
<1> QED  BY <1>1, <1>2, Handling_Quiet

LEMMA WebhookGone_Quiet ==
  ASSUME JobsTypeOK, HandlerStep, WebhookGone, UNCHANGED matchVars
  PROVE  Quiet
<1>1. /\ run'.phase = "failed" /\ run'.entry = run.entry /\ run.phase = "posting"
      /\ UNCHANGED <<hook, delivery, posts, taken, told>>
  BY Going DEF WebhookGone, Running, hookVars, matchVars
<1>2. \A d \in Deliveries : InRun(d)' => InRun(d)
  BY <1>1 DEF InRun
<1> QED  BY <1>1, <1>2, Handling_Quiet

\* A request for jobs about photographs and publications.
LEMMA Request_Quiet ==
  ASSUME JobsTypeOK, Request, UNCHANGED <<hook, delivery, posts, taken, told>>,
         \A d \in Deliveries : HookJob(d) \in outbox' <=> HookJob(d) \in outbox
  PROVE  Quiet
<1>1. faults \in Nat /\ UNCHANGED <<queue, run, faults>>
  BY JobsAssumption DEF JobsTypeOK, Request
<1>2. ASSUME NEW d \in Deliveries
      PROVE  Tokens(d)' = Tokens(d) /\ Tokens(d) \in Nat /\ (Holds(d)' <=> Holds(d))
  <2>1. Waiting(d)' = Waiting(d)
    BY <1>1 DEF Waiting, Queues
  <2>2. (InRun(d)' <=> InRun(d)) /\ (Holds(d)' <=> Holds(d))
    BY <1>1 DEF InRun, Holds
  <2> QED  BY <2>1, <2>2, TokensAreCounted DEF Tokens, Bit
<1> QED  BY <1>1, <1>2 DEF Quiet

LEMMA UploadsApproves_Quiet ==
  ASSUME JobsTypeOK, Request, Uploads \/ Approves
  PROVE  Quiet
<1>1. ASSUME NEW m \in Photos, NEW c, CompleteUpload(m, c), Uploads, hookVars' = hookVars, told' = told
      PROVE  Quiet
  BY <1>1, JobsDiffer, Request_Quiet DEF CompleteUpload, hookVars
<1>2. ASSUME NEW m \in Photos, RepairVector(m), UNCHANGED <<hookVars, matchVars>>
      PROVE  Quiet
  <2>1. ListingOf[m] \in Listings
    BY <1>2, WorkAssumption DEF RepairVector
  <2> QED  BY <1>2, <2>1, JobsDiffer, Request_Quiet DEF RepairVector, hookVars, matchVars
<1>3. CASE Approves
  BY <1>3, JobsDiffer, Request_Quiet DEF Approves, ApproveListing, WithdrawListing, hookVars, jobVars
<1> QED  BY <1>1, <1>2, <1>3 DEF Uploads

-----------------------------------------------------------------------------
\* A delivery begins to be posted when its row is there and not delivered.
LEMMA BeginDelivery_PostsInv ==
  ASSUME PostsInv, JobsTypeOK, JobsTypeOK', HandlerStep, BeginDelivery, UNCHANGED matchVars
  PROVE  PostsInv'
<1>1. /\ Carried \in Deliveries /\ run.entry.job = HookJob(Carried) /\ run.phase = "begin"
      /\ UNCHANGED <<hook, delivery, posts, taken, told, queue, outbox, faults>>
      /\ run' = IF Skips(Carried) THEN Done ELSE Go("posting", [attempts |-> delivery[Carried].attempts + 1])
  BY JobKinds DEF BeginDelivery, Running, hookVars, matchVars
<1>2. CASE Skips(Carried)
  <2>1. run'.phase = "done" /\ \A d \in Deliveries : ~InRun(d)'
    BY <1>1, <1>2, Going DEF InRun
  <2> QED  BY <1>1, <2>1, Handling_Quiet, Quiet_PostsInv
<1>3. CASE ~Skips(Carried)
  <2>1. run' = [phase |-> "posting", entry |-> run.entry, memo |-> [attempts |-> delivery[Carried].attempts + 1]]
    BY <1>1, <1>3, Going
  <2>2. ASSUME NEW d \in Deliveries PROVE Tokens(d)' = Tokens(d) /\ (Holds(d)' <=> Holds(d))
    <3>1. Waiting(d)' = Waiting(d)
      BY <1>1 DEF Waiting, Queues
    <3>2. (InRun(d)' <=> InRun(d)) /\ (Holds(d)' <=> Holds(d))
      BY <1>1, <2>1 DEF InRun, Holds
    <3> QED  BY <1>1, <3>1, <3>2 DEF Tokens, Bit
  <2>3. PostsTypeOK' /\ Recorded' /\ Budgeted'
    BY <1>1, <2>2 DEF PostsInv, PostsTypeOK, Recorded, Budgeted, Open
  <2>4. Carrying'
    BY <1>1, <1>3, <2>1, JobsDiffer DEF PostsInv, Recorded, Carrying, Skips
  <2> QED  BY <2>3, <2>4 DEF PostsInv
<1> QED  BY <1>2, <1>3

\* The post that the job was to make is made, or not.
LEMMA Post_PostsInv ==
  ASSUME PostsInv, JobsTypeOK, JobsTypeOK', HandlerStep, UNCHANGED matchVars,
         NEW outcome \in {"accepted", "unheard", "refused", "unreached"}, Post(outcome)
  PROVE  PostsInv'
<1> DEFINE made == IF outcome = "unreached" THEN 0 ELSE 1
           accepted == IF outcome \in {"accepted", "unheard"} THEN 1 ELSE 0
<1>1. /\ Carried \in Deliveries /\ run.entry.job = HookJob(Carried) /\ run.phase = "posting"
      /\ hook[Carried[2]] = "active"
      /\ UNCHANGED <<hook, delivery, told, queue, outbox, faults>>
      /\ run' = [phase |-> "posted", entry |-> run.entry,
                 memo |-> [attempts |-> run.memo.attempts, ok |-> outcome = "accepted"]]
  BY JobKinds, Going DEF Post, Running, matchVars
<1>2. /\ posts' \in [Deliveries -> Nat] /\ taken' \in [Deliveries -> Nat]
      /\ \A d \in Deliveries : posts'[d] = IF d = Carried THEN posts[d] + made ELSE posts[d]
      /\ \A d \in Deliveries : taken'[d] = IF d = Carried THEN taken[d] + accepted ELSE taken[d]
  BY <1>1 DEF Post, PostsInv, PostsTypeOK
<1>3. /\ run'.phase = "posted" /\ run'.entry = run.entry /\ run'.memo.attempts = run.memo.attempts
      /\ run'.memo.ok => outcome = "accepted"
  BY <1>1
<1>4. ASSUME NEW d \in Deliveries
      PROVE  /\ Tokens(d)' = IF d = Carried THEN Tokens(d) - 1 ELSE Tokens(d)
             /\ Holds(d)' <=> Holds(d)
             /\ Tokens(d) \in Nat
  <2>1. Waiting(d)' = Waiting(d) /\ Waiting(d) \in Nat /\ Tokens(d) \in Nat
    BY <1>1, TokensAreCounted DEF Waiting, Queues
  <2>2. ~InRun(d)' /\ (InRun(d) <=> d = Carried) /\ (Holds(d)' <=> Holds(d))
    BY <1>1, <1>3, JobsDiffer DEF InRun, Holds
  <2> QED  BY <1>1, <2>1, <2>2 DEF Tokens, Bit
<1>5. Holds(Carried)
  BY <1>1 DEF Holds
<1>6. made \in {0, 1} /\ accepted \in {0, 1} /\ (outcome = "accepted" => accepted = 1)
  OBVIOUS
<1> HIDE DEF made, accepted
<1>7. PostsTypeOK' /\ Recorded'
  BY <1>1, <1>2, <1>4, <1>5 DEF PostsInv, PostsTypeOK, Recorded
<1>8. Budgeted'
  <2> SUFFICES ASSUME NEW d \in Deliveries PROVE Budgeted!(d)'
    BY DEF Budgeted
  <2>1. /\ posts[d] \in Nat /\ taken[d] \in Nat /\ delivery[d].attempts \in Nat /\ faults \in Nat
        /\ Budgeted!(d)
    BY JobsAssumption DEF PostsInv, PostsTypeOK, JobsTypeOK, Budgeted
  <2>2. CASE d # Carried
    BY <1>1, <1>2, <1>4, <2>1, <2>2 DEF Open
  <2>3. CASE d = Carried
    <3>1. /\ posts'[d] + Tokens(d)' <= posts[d] + Tokens(d) /\ taken'[d] >= taken[d]
          /\ Tokens(d)' \in Nat /\ posts'[d] \in Nat /\ taken'[d] \in Nat
      BY <1>2, <1>4, <1>6, <2>1, <2>3, TokensStayCounted
    <3>2. delivery[d].status \in {"pending", "retrying", "failed"}
      BY <1>1, <2>3 DEF PostsInv, PostsTypeOK, Carrying
    <3>3. posts[d] + Tokens(d) <= MaxAttempts + faults
      BY <2>1, <3>2, <1>4, HooksAssumption DEF Open
    <3> QED  BY <1>1, <1>4, <2>1, <3>1, <3>2, <3>3, HooksAssumption DEF Open
  <2> QED  BY <2>2, <2>3
<1>9. Carrying'
  <2> SUFFICES ASSUME NEW d \in Deliveries, run'.entry.job = HookJob(d) PROVE Carrying!(d)'
    BY DEF Carrying
  <2>1. d = Carried /\ Carrying!(d) /\ taken[d] \in Nat
    BY <1>1, <1>3, JobsDiffer DEF PostsInv, PostsTypeOK, Carrying
  <2>2. UNCHANGED <<hook, delivery>>
    BY <1>1
  <2> QED  BY <1>1, <1>2, <1>3, <1>6, <2>1, <2>2
<1> QED  BY <1>7, <1>8, <1>9 DEF PostsInv

\* The answer is recorded: a delivery to be retried has one more post to come,
\* and one more attempt counted.
LEMMA RecordPost_PostsInv ==
  ASSUME PostsInv, JobsTypeOK, JobsTypeOK', HandlerStep, RecordPost, UNCHANGED matchVars
  PROVE  PostsInv'
<1> DEFINE status == Outcome(run.memo)
           attempts == run.memo.attempts
<1>1. /\ Carried \in Deliveries /\ run.entry.job = HookJob(Carried) /\ run.phase = "posted"
      /\ UNCHANGED <<hook, posts, taken, told, queue, outbox, faults>>
  BY JobKinds DEF RecordPost, Running, matchVars
<1>2. \A d \in Deliveries : /\ Waiting(d)' = Waiting(d) /\ (Holds(d)' <=> Holds(d)) /\ ~InRun(d)
                            /\ Tokens(d) \in Nat /\ Tokens(d)' \in Nat /\ Waiting(d) \in Nat
  BY <1>1, TokensAreCounted, TokensStayCounted DEF HandlerStep, Waiting, Queues, Holds, InRun
<1>3. /\ posts \in [Deliveries -> Nat] /\ faults \in Nat
      /\ \A d \in Deliveries : delivery[d].attempts \in Nat /\ Budgeted!(d)
  BY JobsAssumption DEF PostsInv, PostsTypeOK, JobsTypeOK, Budgeted
<1>4. CASE delivery[Carried] = NoDelivery
  <2>1. delivery' = delivery /\ run'.phase = "failed" /\ run'.entry = run.entry
    BY <1>1, <1>4, Going DEF RecordPost
  <2>2. hook[Carried[2]] = "deleted"
    BY <1>1, <1>4 DEF PostsInv, Carrying, NoDelivery
  <2>3. \A d \in Deliveries : d # Carried => Tokens(d)' = Tokens(d)
    BY <1>1, <1>2, <2>1, JobsDiffer DEF Tokens, InRun, Bit
  <2>4. PostsTypeOK' /\ Recorded' /\ Carrying'
    BY <1>1, <1>2, <2>1, <2>2, <2>3 DEF PostsInv, PostsTypeOK, Recorded, Carrying
  <2>5. Budgeted'
    <3> SUFFICES ASSUME NEW d \in Deliveries PROVE Budgeted!(d)'
      BY DEF Budgeted
    <3> QED  BY <1>1, <1>3, <1>4, <2>1, <2>3 DEF Open, NoDelivery
  <2> QED  BY <2>4, <2>5 DEF PostsInv
<1>5. CASE delivery[Carried] # NoDelivery
  <2>1. /\ hook[Carried[2]] = "active" /\ attempts = delivery[Carried].attempts + 1
        /\ delivery[Carried].status \in {"pending", "retrying", "failed"}
        /\ status = "delivered" => taken[Carried] > 0
    BY <1>1, <1>5 DEF PostsInv, PostsTypeOK, Recorded, Carrying, Outcome
  <2>2. /\ status \in {"delivered", "failed", "retrying"}
        /\ status = "failed" => attempts >= MaxAttempts
        /\ status = "retrying" => attempts < MaxAttempts
    BY <1>1, <1>3, <2>1, HooksAssumption DEF Outcome
  <2>3. delivery' = [delivery EXCEPT ![Carried] = [status |-> status, attempts |-> attempts]]
    BY <1>5 DEF RecordPost
  <2>4. run' = GoAnnounce(IF Continues(status) THEN {HookJob(Carried)} ELSE {})
    BY <1>5 DEF RecordPost
  <2> HIDE DEF status, attempts
  <2>5. run'.phase \in {"announce", "done"} /\ \A d \in Deliveries : InRun(d)' <=> (d = Carried /\ status = "retrying")
    BY <1>1, <2>4, Going, JobsDiffer DEF InRun, Continues
  <2>6. /\ delivery'[Carried] = [status |-> status, attempts |-> attempts]
        /\ \A d \in Deliveries : d # Carried => delivery'[d] = delivery[d]
    BY <1>1, <2>3 DEF PostsInv, PostsTypeOK
  <2>7. \A d \in Deliveries : Tokens(d)' = IF d = Carried /\ status = "retrying" THEN Tokens(d) + 1 ELSE Tokens(d)
    BY <1>1, <1>2, <2>5 DEF Tokens, Bit
  <2>8. PostsTypeOK'
    BY <1>1, <1>3, <2>1, <2>2, <2>3 DEF PostsInv, PostsTypeOK
  <2>9. Recorded'
    <3> SUFFICES ASSUME NEW d \in Deliveries PROVE Recorded!(d)'
      BY DEF Recorded
    <3>1. CASE d = Carried
      BY <1>1, <1>5, <2>1, <2>2, <2>6, <3>1 DEF PostsInv, Recorded, NoDelivery
    <3>2. CASE d # Carried
      BY <1>1, <1>2, <2>6, <2>7, <3>2 DEF PostsInv, Recorded
    <3> QED  BY <3>1, <3>2
  <2>10. Budgeted'
    <3> SUFFICES ASSUME NEW d \in Deliveries PROVE Budgeted!(d)'
      BY DEF Budgeted
    <3>1. CASE d # Carried
      BY <1>1, <1>3, <2>6, <2>7, <3>1 DEF Open
    <3>2. CASE d = Carried
      <4>1. /\ posts'[d] = posts[d] /\ posts[d] \in Nat /\ Tokens(d) \in Nat /\ delivery[d].attempts \in Nat
            /\ posts[d] + Tokens(d) <= MaxAttempts + faults
        BY <1>1, <1>2, <1>3, <2>1, <3>2, HooksAssumption DEF Open
      <4>2. status = "retrying" => Open(d)
        BY <1>3, <2>1, <2>2, <3>2, HooksAssumption DEF Open
      <4>3. delivery'[d].status = status /\ delivery'[d].attempts = delivery[d].attempts + 1
        BY <2>1, <2>6, <3>2
      <4> QED  BY <1>1, <1>3, <2>1, <2>2, <2>7, <3>2, <4>1, <4>2, <4>3, HooksAssumption DEF Open
    <3> QED  BY <3>1, <3>2
  <2>11. Carrying'
    BY <2>5 DEF Carrying
  <2> QED  BY <2>8, <2>9, <2>10, <2>11 DEF PostsInv
<1> QED  BY <1>4, <1>5

\* Rows are created for deliveries that have none, each with one job to come.
LEMMA Creation_PostsInv ==
  ASSUME PostsInv, JobsTypeOK, JobsTypeOK', NEW ds \in SUBSET Deliveries,
         \A d \in ds : delivery[d] = NoDelivery /\ hook[d[2]] = "active",
         delivery' = WithDeliveries(ds), UNCHANGED <<hook, posts, taken, faults>>,
         \A d \in Deliveries : /\ Tokens(d)' <= Tokens(d) + Bit(d \in ds)
                               /\ d \notin ds /\ Tokens(d) = 0 /\ ~Holds(d) => Tokens(d)' = 0 /\ ~Holds(d)'
                               /\ d[1] \in Pairs /\ told'[d[1]] = 0 => d \notin ds /\ told[d[1]] = 0,
         run' = run \/ run'.phase \notin {"posting", "posted"}
  PROVE  PostsInv'
<1>1. /\ \A d \in ds : delivery'[d] = Pending
      /\ \A d \in Deliveries : d \notin ds => delivery'[d] = delivery[d]
  BY DEF WithDeliveries
<1>2. \A d \in Deliveries : Tokens(d) \in Nat /\ Tokens(d)' \in Nat
  BY TokensAreCounted, TokensStayCounted
<1>3. PostsTypeOK'
  BY DEF PostsInv, PostsTypeOK, WithDeliveries, Pending
<1>4. Recorded'
  BY <1>1 DEF PostsInv, Recorded, Pending, NoDelivery
<1>5. Budgeted'
  <2> SUFFICES ASSUME NEW d \in Deliveries PROVE Budgeted!(d)'
    BY DEF Budgeted
  <2>1. /\ Budgeted!(d) /\ posts[d] \in Nat /\ delivery[d].attempts \in Nat /\ faults \in Nat
        /\ posts'[d] = posts[d] /\ taken'[d] = taken[d] /\ faults' = faults
    BY JobsAssumption DEF PostsInv, PostsTypeOK, JobsTypeOK, Budgeted
  <2>2. CASE d \in ds
    <3>1. posts[d] = 0 /\ Tokens(d)' <= 1 /\ delivery'[d] = Pending
      BY <1>1, <2>2 DEF PostsInv, Recorded, Bit
    <3> QED  BY <1>2, <2>1, <3>1, HooksAssumption DEF Open, Pending
  <2>3. CASE d \notin ds
    <3>1. Tokens(d)' <= Tokens(d) /\ delivery'[d] = delivery[d]
      BY <1>1, <1>2, <2>3 DEF Bit
    <3> QED  BY <1>2, <2>1, <3>1, HooksAssumption DEF Open
  <2> QED  BY <2>2, <2>3
<1>6. Carrying'
  <2> SUFFICES ASSUME NEW d \in Deliveries, run'.phase \in {"posting", "posted"}, run'.entry.job = HookJob(d)
               PROVE  Carrying!(d)'
    BY DEF Carrying
  <2>1. run' = run /\ Carrying!(d)
    BY DEF PostsInv, Carrying
  <2>2. delivery'[d] = delivery[d]
    BY <1>1, <2>1 DEF NoDelivery
  <2> QED  BY <2>1, <2>2
<1> QED  BY <1>3, <1>4, <1>5, <1>6 DEF PostsInv

\* The deliveries of new matches: no match told before has one yet.
LEMMA CommitMatch_PostsInv ==
  ASSUME PostsInv, MatchInv, JobsTypeOK, JobsTypeOK', HandlerStep, NEW score, CommitMatch(score)
  PROVE  PostsInv'
<1> DEFINE news == {p \in Touched(score) : Tells(score, p)}
           ds   == Addressed({p \in news : p[1] \in Owned})
<1>1. /\ \A p \in news : p \in Pairs /\ told[p] = 0 /\ told'[p] = 1
      /\ \A p \in Pairs : p \notin news => told'[p] = told[p]
  BY DEF CommitMatch, Touched, Tells, MatchInv
<1>2. /\ ds \subseteq Deliveries
      /\ \A d \in ds : d[1] \in news /\ hook[d[2]] = "active"
  BY <1>1, MatchAssumption DEF Addressed, Deliveries
<1>3. /\ delivery' = WithDeliveries(ds) /\ run' = GoAnnounce({HookJob(d) : d \in ds})
      /\ run.phase = "matching" /\ UNCHANGED <<hook, posts, taken, queue, outbox, faults>>
  BY DEF CommitMatch, Running
<1> HIDE DEF ds, news
<1>4. \A d \in ds : delivery[d] = NoDelivery /\ hook[d[2]] = "active"
  BY <1>1, <1>2 DEF PostsInv, Recorded
<1>5. run'.phase \in {"announce", "done"} /\ \A d \in Deliveries : InRun(d)' <=> d \in ds
  BY <1>2, <1>3, Going, JobsDiffer DEF InRun
<1>6. ASSUME NEW d \in Deliveries
      PROVE  /\ Tokens(d)' <= Tokens(d) + Bit(d \in ds)
             /\ d \notin ds /\ Tokens(d) = 0 /\ ~Holds(d) => Tokens(d)' = 0 /\ ~Holds(d)'
             /\ d[1] \in Pairs /\ told'[d[1]] = 0 => d \notin ds /\ told[d[1]] = 0
  <2>1. /\ Waiting(d)' = Waiting(d) /\ Waiting(d) \in Nat /\ (Holds(d)' <=> Holds(d)) /\ ~InRun(d)
    BY <1>3, TokensAreCounted DEF HandlerStep, Waiting, Queues, Holds, InRun
  <2>2. Tokens(d)' = Tokens(d) + Bit(d \in ds) /\ Tokens(d) \in Nat
    BY <1>3, <1>5, <2>1 DEF Tokens, Bit
  <2>3. d[1] \in Pairs /\ told'[d[1]] = 0 => d \notin ds /\ told[d[1]] = 0
    BY <1>1, <1>2
  <2> QED  BY <2>1, <2>2, <2>3 DEF Bit
<1>7. ds \in SUBSET Deliveries /\ run'.phase \notin {"posting", "posted"}
  BY <1>2, <1>5
<1> QED  BY <1>3, <1>4, <1>6, <1>7, Creation_PostsInv

LEMMA ApiEvent_PostsInv ==
  ASSUME PostsInv, JobsTypeOK, JobsTypeOK', Request, NEW e \in Events \ Pairs, ApiEvent(e), told' = told
  PROVE  PostsInv'
<1> DEFINE ds == Addressed({e})
<1>1. /\ ds \in SUBSET Deliveries
      /\ \A d \in ds : d[1] = e /\ delivery[d] = NoDelivery /\ hook[d[2]] = "active"
      /\ delivery' = WithDeliveries(ds) /\ outbox' = outbox \cup {HookJob(d) : d \in ds}
      /\ UNCHANGED <<queue, run, faults, hook, posts, taken>>
  BY DEF ApiEvent, Addressed, Deliveries
<1> HIDE DEF ds
<1>2. ASSUME NEW d \in Deliveries
      PROVE  /\ Tokens(d)' <= Tokens(d) + Bit(d \in ds)
             /\ d \notin ds /\ Tokens(d) = 0 /\ ~Holds(d) => Tokens(d)' = 0 /\ ~Holds(d)'
  <2>1. /\ Waiting(d)' = Waiting(d) /\ Waiting(d) \in Nat /\ (Holds(d)' <=> Holds(d)) /\ (InRun(d)' <=> InRun(d))
    BY <1>1, TokensAreCounted DEF Waiting, Queues, Holds, InRun
  <2>2. HookJob(d) \in outbox' <=> HookJob(d) \in outbox \/ d \in ds
    BY <1>1, JobsDiffer
  <2> QED  BY <2>1, <2>2 DEF Tokens, Bit
<1> QED  BY <1>1, <1>2, Creation_PostsInv

\* With a deleted webhook go its rows; a run that carries one finds it gone.
LEMMA Integrates_PostsInv ==
  ASSUME PostsInv, JobsTypeOK, JobsTypeOK', Integrates
  PROVE  PostsInv'
<1>1. PICK h \in Hooks : CreateWebhook(h) \/ DeleteWebhook(h)
  BY DEF Integrates
<1>2. UNCHANGED <<queue, run, outbox, faults, posts, taken, told>>
  BY <1>1 DEF Integrates, CreateWebhook, DeleteWebhook, jobVars, matchVars
<1>3. \A d \in Deliveries : /\ Tokens(d)' = Tokens(d) /\ (Holds(d)' <=> Holds(d))
                            /\ Tokens(d) \in Nat
  BY <1>2, TokensAreCounted DEF Tokens, Waiting, Queues, InRun, Holds
<1>4. CASE CreateWebhook(h)
  <2>1. delivery' = delivery /\ hook[h] = "new" /\ hook' = [hook EXCEPT ![h] = "active"]
    BY <1>4 DEF CreateWebhook
  <2>2. PostsTypeOK' /\ Recorded' /\ Carrying'
    BY <1>2, <1>3, <2>1 DEF PostsInv, PostsTypeOK, Recorded, Carrying, Deliveries
  <2>3. Budgeted'
    BY <1>2, <1>3, <2>1 DEF PostsInv, Budgeted, Open
  <2> QED  BY <2>2, <2>3 DEF PostsInv
<1>5. CASE DeleteWebhook(h)
  <2>1. /\ hook' = [hook EXCEPT ![h] = "deleted"]
        /\ delivery' = [d \in Deliveries |-> IF d[2] = h THEN NoDelivery ELSE delivery[d]]
    BY <1>5 DEF DeleteWebhook
  <2>2. PostsTypeOK'
    BY <1>2, <2>1 DEF PostsInv, PostsTypeOK, NoDelivery, Deliveries
  <2>3. /\ \A d \in Deliveries : d[2] = h => delivery'[d] = NoDelivery /\ hook'[d[2]] = "deleted"
        /\ \A d \in Deliveries : d[2] # h => delivery'[d] = delivery[d] /\ hook'[d[2]] = hook[d[2]]
    BY <2>1 DEF PostsInv, PostsTypeOK, Deliveries
  <2>4. Recorded' /\ Carrying'
    BY <1>2, <1>3, <2>3 DEF PostsInv, Recorded, Carrying, NoDelivery
  <2>5. Budgeted'
    <3> SUFFICES ASSUME NEW d \in Deliveries PROVE Budgeted!(d)'
      BY DEF Budgeted
    <3> QED  BY <1>2, <1>3, <2>3 DEF PostsInv, Budgeted, Open, NoDelivery
  <2> QED  BY <2>2, <2>4, <2>5 DEF PostsInv
<1> QED  BY <1>1, <1>4, <1>5

LEMMA Work_PostsInv ==
  ASSUME PostsInv, MatchInv, JobsTypeOK, [WorkNext]_workVars
  PROVE  PostsInv'
<1> USE Work_JobsTypeOK, Quiet_PostsInv
<1>1. CASE UNCHANGED workVars
  <2>1. UNCHANGED <<queue, run, outbox, faults, hook, delivery, posts, taken, told>>
    BY <1>1 DEF workVars, coreVars, jobVars, hookVars, matchVars
  <2>2. Quiet
    BY <2>1, TokensAreCounted, JobsAssumption DEF Quiet, JobsTypeOK, Tokens, Bit, Waiting, Queues, InRun, Holds
  <2> QED  BY <2>2
<1>2. CASE QueueStep /\ UNCHANGED <<mediaVars, hookVars, matchVars>>
  BY <1>2, QueueStep_Quiet
<1>3. CASE MediaStep /\ HandlerStep /\ UNCHANGED <<hookVars, matchVars>>
  BY <1>3, MediaStep_Quiet
<1>4. CASE HookStep /\ HandlerStep /\ UNCHANGED <<mediaVars, matchVars>>
  BY <1>4, BeginDelivery_PostsInv, WebhookGone_Quiet, Post_PostsInv, RecordPost_PostsInv DEF HookStep
<1>5. CASE MatchStep /\ HandlerStep /\ UNCHANGED mediaVars
  BY <1>5, BeginMatch_Quiet, CommitMatch_PostsInv DEF MatchStep
<1>6. CASE (Uploads \/ Approves) /\ Request
  BY <1>6, UploadsApproves_Quiet
<1>7. CASE Integrates
  BY <1>7, Integrates_PostsInv
<1>8. CASE Reports /\ Request
  BY <1>8, ApiEvent_PostsInv DEF Reports, matchVars
<1> QED  BY <1>1, <1>2, <1>3, <1>4, <1>5, <1>6, <1>7, <1>8, WorkKinds

\* A receiver is posted an event at most MaxAttempts times and once more for each
\* interruption of the run, of the worker or of the API, and a delivery counts as
\* delivered only when a post was taken: every interleaving of events, matches,
\* retries, crashes and deletions of the webhook spends the same budget.
THEOREM PostsAreBounded == BackgroundSpec => []PostsBounded
<1> DEFINE Inv == JobsTypeOK /\ MatchInv /\ PostsInv
<1>1. BackgroundInit => Inv
  <2> SUFFICES ASSUME BackgroundInit PROVE PostsInv /\ MatchInv
    BY Init_JobsTypeOK
  <2>1. /\ queue = EmptyBag /\ run = Idle /\ outbox = {} /\ faults = 0 /\ HooksInit /\ MatchInit
    BY DEF BackgroundInit, WorkInit, JobsInit
  <2>2. ASSUME NEW d \in Deliveries PROVE Tokens(d) = 0 /\ ~Holds(d)
    <3>1. \A e : CopiesOf(e, queue) = 0
      BY <2>1 DEF CopiesOf, EmptyBag, SetToBag
    <3> QED  BY <2>1, <3>1 DEF Tokens, Bit, Waiting, Queues, InRun, Holds, Idle
  <2>3. PostsTypeOK /\ Recorded
    BY <2>1, <2>2 DEF HooksInit, PostsTypeOK, Recorded, NoDelivery
  <2>4. Budgeted /\ Carrying
    BY <2>1, <2>2, HooksAssumption DEF HooksInit, Budgeted, Carrying, NoDelivery, Open, Idle
  <2> QED  BY <2>3, <2>4, Init_MatchInv DEF PostsInv
<1>2. Inv /\ [BackgroundNext]_<<workVars, pushVars>> => Inv'
  BY BackgroundStep, Work_JobsTypeOK, Work_MatchInv, Work_PostsInv
<1>3. Inv => PostsBounded
  BY DEF PostsInv, Budgeted, PostsBounded
<1> QED  BY <1>1, <1>2, <1>3, PTL DEF BackgroundSpec
=============================================================================
