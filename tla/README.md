# Verification of the Bureau of Finds

TLA+ models, model-checking runs and machine-checked proofs about the server,
the worker and the client session of this repository. Paths below are relative
to the repository; `app/` stands for `src/backend/app/`.

## The system

| Part | State it keeps | Operations | Hard because |
|---|---|---|---|
| Publications and moderation (`listings.py`, `media.py`, `admin.py`, `users.py`, `organizations.py`) | tables `listings`, `media_objects`, `organization_members`, `users.status` | create, import, edit, upload, process a photograph, moderate, invite, delete the account | `update_listing`, `complete` and `delete_account` read without a lock, validate the copy and commit later; only changed columns are sent |
| Claims, contacts, handover (`claims.py`, disputes of `admin.py`) | `claims`, `contact_grants`, `handovers`, `moderation_cases`, `audit_events` | claim, answer, submit, decide, appeal, resolve, consent, QR issue, regenerate, scan | two people scan at once; the QR expires or is replaced between the lookup and the lock; `resolve_dispute` takes no lock |
| Job queue and worker (`services/cache.py`, `worker.py`) | Redis lists `bureau:jobs`, `:processing`, `:dead`; the lease | enqueue, recover, take, run, acknowledge, retry, set aside | kills at any point, a lease that runs out under a live worker, messages that are equal |
| Sessions (`auth.py`, `users.py`, `deps.py`, `admin_console.py`, `internal_deployment.py`) | `refresh_tokens`, the account's status, role and second factor | login, second factor, refresh and recovery, logouts, block, role change, deletion | refreshes race and are repeated; a login reads the account without a lock |
| Session of the client (`flutter/lib/data/*`) | secure store or HttpOnly cookie, the refresh in flight | login, refresh, retry after 401, logout, restart | answers are lost or late, the device is killed, a retry carries the old body |
| Job handlers (`worker.py`, `matching.py`, `media_safety.py`) | media rows and the objects they name, match candidates, notifications | process a photograph, repair a missing vector, match | a crash between a commit and the object store, a job run again |
| One-time codes, SMS budget (`auth.py`, `cache.py`, `sms.py`) | Redis keys: code, cooldown, rates, budgets | request, reserve, send, verify | several replicas between any two Redis calls, a slow failed send |
| Webhooks (`webhooks.py`, `worker.py`) | deliveries | create with the event, post, record, queue again | the post comes before the commit that counts it |
| Push (`push.py`) | subscriptions, delivery rows | subscribe, read, sweep, send, record | the sweep keeps rows that requests change; an endpoint changes hands |
| Idempotency (`middleware.py`) | cached answers in Redis | look up, run, store | nothing is reserved in between |
| Second factor (`auth.py`) | secret and switch in the user's row | setup, enable, disable | each loads, checks and commits later |
| Support (`support.py`), chat (`chat.py`) | tickets and messages; messages and the sockets of one process | open, write, change the state; post, relay, connect | a state loaded before another commit; a set of sockets that changes during the relay |
| Staff and console (`admin_console.py`, `admin.py`) | roles and states of accounts | first administrator, invite, appoint, block; registers and overview | administrators act on each other; pages and figures of changing rows |
| Organizations, API keys (`organizations.py`, `deps.py`) | organization, members, keys | verify, invite, switch the API, issue and revoke keys, import | rights checked at the start of a request |
| Score (`matching.py`) | none | compare two publications | missing evidence changes the weights |
| Admin web application (`admin/app/lib`) | cookies, refreshes in flight | coalesced refresh | five seconds of grace |
| AI, maps, object store, OpenCLIP, nginx, scripts | none of their own | calls, deployment | external |

How they meet: the routes share PostgreSQL (READ COMMITTED, sessions with
autoflush) and the queue; a handler commits first and enqueues after; the
worker writes the rows the routes read; the clients meet the server only in
requests whose answers may be lost. `PROJECT.json` lists every part under
"components", and under "hazards" what can go wrong, with the line and the
properties that watch it.

## What is modelled

| Module | Models | Lines of thought |
|---|---|---|
| `Listings` | publications, photographs, members, deletion of the account | a handler with a row lock is one action; an unlocked one is `Read...` and `Commit...`, and `req` holds the columns its commit will send |
| `Returns` (extends `Listings`) | claims, disputes, consent, QR handover | `scan_handover` is `LookupScan` then `ConfirmScan` or `RefuseScan`; `resolve_dispute` is `ReadDispute` (the case), `ReadDisputed` (the claim), then `CommitDispute` |
| `ReturnLedger` | abstract specification: a publication is offered, returned once, offered again | `Returns` implements it (`ReturnsAreLedger`) |
| `JobQueue` | the three lists, the lease, the worker processes | lists as Redis keeps them; an entry is its text, so equal messages are equal entries |
| `Sessions` | the account row and its refresh tokens | the successor of a token is a function of the token, because the client keeps one operation identifier beside each token (and the cookie's is derived from it) |
| `SessionClients` (extends `Sessions`) | phones and browsers over a lossy network | one rotation and one logout in flight per client, `late` holds requests no application waits for |
| `WorkerJobs` | the queue as the handlers see it: a bag of entries, one run at a time, retries, kills | the contract that `JobQueue` keeps, without its lists and lease; `outbox` holds what is committed and not yet enqueued |
| `MediaJob`, `MatchJobs`, `WebhookJob` (extend `WorkerJobs`) | the three handlers of `worker.py` | a step per commit and per call to the object store or receiver, so a run may be cut off between any two |
| `Worker` | the three together with the API that feeds them | approving a found thing with an integration reaches all three |
| `Push` | subscriptions, notifications and the push cycle | the cycle keeps the rows it has loaded (`rest`) and looks at each once more |
| `Background` (extends `Worker`, `Push`) | the worker process | a behaviour exercises the part its workload names: they share no state |
| `Otp` | codes, cooldown, rates, budgets, sending | a step per Redis call of `request_code`, a failed store included; a script of Redis is one step; a key expires whatever is in progress, so a request counted in one window may store its code in the next (`carried`) |
| `TwoFactor` | secret and switch of the second factor | load and commit of each handler apart; only changed columns are written |
| `Idempotency` | the middleware and a client that repeats itself | look up, run and store apart |
| `Support`, `Chat` | tickets; messages, notifications and sockets | load and commit apart; the relay begins after the row is read again, and each of its `await`s is a step; a ticket opens a socket also for a user blocked meanwhile |
| `Staff`, `Organizations` | who administers the service and an organization, and who may import | `Begin...` checks the rights, `Commit...` acts; `stale` marks a request that another change has overtaken |
| `Console` | registers read page by page and the overview | each SELECT sees what is committed when it starts; a publication, its claim and its handover are each in the overview's period or not (`within`), and may be older than it; a page is the rows with `offset` to `offset + limit - 1` rows ahead of them |
| `MatchScore` | the score as an operator | fractions instead of rounded numbers |
| `Services` | `Otp` to `MatchScore` together | a behaviour exercises the one its workload names |
| `MC...` | instances for TLC | values of the constants, symmetry |
| `ListingsProofs`, `ReturnsProofs`, `SessionsProofs`, `JobQueueProofs` | theorems about the module of that name | see below |
| `BackgroundProofs` | theorems about `Background` | one invariant for each part of the worker process |
| `AccountProofs`, `ConsoleProofs` | theorems about `Otp`, `TwoFactor`, `Staff`, `Organizations`; `Console`, `MatchScore` | one invariant for each |
| `ServicesProofs` | theorems about `Idempotency`, `Support`, `Chat` and the composition `Services` | the composition implements each service |
| `Nothing` | the value of a missing row | |

State and actions carry the names of the code. `PROJECT.json` "map" names the
lines of every definition. The main abstractions:

- Texts, coordinates, categories and evidence are left out: of an edit only
  whether it changes public content matters. An answer of a claimant is there
  or not.
- Time is left out: a QR, a ticket, an access token, a refresh token or a lease
  may expire at any moment at which the code could see it expired.
- PostgreSQL's row locks make one action of a locked handler. A handler without
  a lock is cut at its commit. `delete_account` has updated the user's row (by
  autoflush) before it reads, so inserts that refer to that row wait:
  `Locked` says so.
- In `Listings` and `JobQueue` the job handlers are runs that succeed or fail;
  `MediaJob`, `MatchJobs` and `WebhookJob` model what happens inside one, over
  the queue of `WorkerJobs`, where the order of entries does not matter.
- Sessions are those of one account. A first registration, the legacy random
  successors in Redis, the difference of moderator and administrator and
  several tabs of a browser are left out; the secret of the second factor is in
  `TwoFactor`.
- `Otp` assumes with `SlowSends = FALSE` that a sending ends within the cooldown,
  as the client's timeouts of ten seconds per phase make it do unless an answer
  trickles in. With `TRUE` a failed sending can delete a newer code.
- A request checks its user when it begins (`deps.py`), so the models let it
  commit whatever was decided meanwhile, and mark it (`stale`, `raced`,
  `overtaken`). The properties name such a request as the only exception; they
  do not say that nothing of the kind happens.
- Rows with equal `created_at` and the rounding of a score to two decimals are
  left out. So is the reactivation of a deleted account, but for `Organizations`,
  where a member may come back (`RegainAccount`).
- `WorkerJobs` runs one job at a time: two match jobs side by side, which a
  lapsed lease would allow, are left out.

## The runs

All runs use two workers of TLC and end within five minutes.

| Run | Instance | Shows |
|---|---|---|
| `MCListings` | one found publication, owner and moderator, one photograph, two overlapping requests | only what the last verdict approved is public |
| `MCReturns` | one claimant, who may become a member, two overlapping calls, two QR tokens, one appeal | contacts need both last words; a return takes two people; both confirmations complete it; a QR that is replaced or has expired when the locks are taken records nothing |
| `MCReturnsEdits` | two claimants, an edit in flight, one call | one return per opening; the ledger is implemented |
| `MCJobQueue` | two processes, one good and one malformed job, each enqueued twice, three faults, fair | nothing is lost, one runner, everything settles |
| `MCQueueStalls` | the same with a lease that may run out, one enqueue | still nothing lost; dead only after three failed runs |
| `MCSessions` | a phone and a browser, three tokens, one late request, an administrator | a login never forks, is never stranded, never comes back; no refresh ends it; a browser's logout ends it |
| `MCBackground` | one photograph or video of a found thing that may match a lost one, one webhook with two attempts, two faults; or two users, two notifications, one endpoint and one cut-off cycle; fair | an object named by a row exists and is clean when shown; posts and pushes are bounded; an owner hears once of a match; photographs, deliveries and pushes settle |
| `MCServices` | two overlapping requests on each of: one telephone, one account, one idempotency key, one ticket, one conversation with a helper and two sockets, three people, one organization with a key, four rows of a register, one pair of publications | the twelve invariants below |
| `MCStaleEdit`, `MCRacingDisputes`, `MCBlockedLogin`, `MCNativeLogout` | small versions of the above | the code departs from what its documents, messages or checks say (next section) |

The invariants of `MCServices`: a code can be guessed at a bounded number of
times per window however many replicas serve (`GuessesBounded`: by the codes of
the window, one from before, and one for each request that was counted before it
and had not stored its code), and what a phone received stays valid until used,
exhausted, replaced or expired, or until Redis fails to store its replacement,
whereupon the handler deletes the older code too (`CodesMatchSms`);
the secret of an enabled factor was proved (`EnabledSecretProved`); a repetition
takes effect again only for a named reason (`RepeatsExplained`); tickets wait
for whom their last message says (`TicketsInOrder`); who is connected is sent
each message (`SocketsInformed`); the service and an organization keep somebody
who manages them (`AdministratorRemains`, `OrganizationManaged`), and imports
have somebody behind them (`ImportsBacked`); what a register or an overview
misses has a named reason (`ScanExplained`, `OverviewExplained`: for figures that
do not add up, a change made meanwhile, a return of a claim older than the period,
`Straddling`, or a completed claim that a dispute has approved again,
`Rewritten`); a missing picture neither helps nor harms a pair
(`MissingPictureIsNeutral`).

Bounds and why they are enough. Two requests, scans, resolutions or workers are
the least that race; the third of any kind meets the same guards, and the
theorems hold for any number. One publication is enough because no handler but
`match_listing` relates two. Two QR tokens are one replaced and one current.
Three refresh tokens are two rotations of one login (the least that makes a
repeated request of the first obsolete) or a second login. `OneAtATime` keeps
one of the two clients idle: different logins of an account meet in the account
row only, which the administrator changes anyway. `Decrees` limits an
administrator to block, readmit, promote and demote; `deleted` is reached by the
owner. `MaxFailures` and `MaxFaults` let a job fail twice over and a worker die
in every phase. In `MCBackground` two faults are a killed run and an API process
that never enqueues, or a run killed twice; two attempts are one retry. The
parts share no state there and in `MCServices`, so a behaviour runs one of them
at a time: nothing is lost and the state space is a sum, not a product. Three
codes in `Otp` are the first, its replacement and one over the limit; hour and
day limits of 1 and 2 are the least that differ. Three people in `Staff` are
the first administrator and two who may be appointed. Four rows, two of them
there from the start, and pages of one row let a row enter and leave between any
two pages. Of these two, the first has a claim and a handover of the overview's
period on an older publication, and the second is older with all that is made of
it before the period; parts made during a behaviour fall in the period or, with
all after them, past its end. Five values of each similarity (`Steps`) are
enough for each factor to be less, equal and more than the others.

Deadlock is not checked: every model may stop, when its bounds are used up or
when all publications, claims and sessions are in their last state.

Fairness is assumed in two runs. `QueueFairness` in `MCJobQueue` is weak
fairness of single steps: Compose restarts a process that ended (`restart:
unless-stopped`), Redis expires a dead lease, a handler ends within its
`asyncio.timeout(300)`, and the event loop runs what is ready. `JobsSettle` is
what it gives: a job that was enqueued is done by a run that began later, or set
aside. In `MCBackground`, `WorkFairness` says that the worker's loop goes on and
that an API process enqueues what it committed unless it dies, and
`PushFairness` that the cycle comes round every thirty seconds and that time
passes. Faults are bounded everywhere and fair nowhere. `PhotosSettle` and
`DeliveriesSettle` name the two ways a row can stay open: its job was set aside,
or the API died between its commit and the enqueue, after which nothing looks
for the row (`listings.py`, 257).

## Disagreements found

Each of these is a run that TLC must find violated, and a finding in
`PROJECT.json`.

1. `EveryChangeModerated`: an edit or photograph that read the publication as
   pending commits after the approval, and what is public was never moderated.
2. `CompletedIsFinal`: two resolutions of one dispute overlap; the second
   rewrites a claim that the handover has completed meanwhile.
3. `BlockedGetsNoSession`: a login that read the account before the block
   stores a session after it, and re-activates an invited account.
4. `LogoutEndsLogin`: a phone whose access token expired revokes the token from
   before its refresh and leaves the renewed one live.

Others are behaviours of the models without a run of their own, because no
property is checked where they occur or the property names them as its exception:

- An edit that read its row before `delete_account` commits after it, and an
  active publication of a deleted account remains, although `users.py:261`
  answers that the active publications are closed.
- With equal messages and a lease that ran out under a live worker, `LREM`
  (`worker.py:235`) takes the entry of the newer request; if that process dies
  then, no run has begun since the enqueue. `docs/PRODUCTION_READINESS.md:25`
  promises at least one. `MCQueueStalls` checks the case of distinct messages.
- A browser's cookie is rotated twice while its logout is on the way: the
  newest token stays live. `ForgetRevokesSession` asks that the cookie did not
  change meanwhile.
- A repetition with a renewed access token is served again, for the
  `Authorization` header is part of the key, although
  `backend/docs/FLUTTER_INTEGRATION.md:44` asks to repeat with the same key
  (`RepeatsExplained`, `bearer`). So are two requests served at once (`overlaps`).
- `setup` beside `enable` replaces the secret of an enabled factor, and `disable`
  beside `enable` leaves it enabled without one (`raced`).
- A notification from before an endpoint was subscribed anew is still pushed if
  its row was written already (`inherited`); the comment in `users.py:120` says
  that old ones are not.
- The number of the first administrator, invited to an organization before its
  first login, logs in as an ordinary user, although `backend/README.md:70` says
  it becomes the administrator. And an invited account that the console
  activates never gets `verified_at`, so it cannot be appointed.
- Two administrators who disable each other at the same moment may leave none
  (`stale` in `AdministratorRemains`); likewise the managers of an organization.
- The key of a blocked member still imports; `ImportsBacked` speaks of their
  role only.
- A message into a resolved ticket does not open it again.
- The overview's approved claims fall when claims are completed. A handover of
  the period on an older claim counts as a return without a claim, and a claim
  rewritten by a dispute (2 above) as approved and returned (`Straddling`,
  `Rewritten`).
- A socket ticket opens a connection for a user who was blocked after it was
  given: `chat.py:164` checks the access, not the account's status.
- A code requested at the end of a window of three is stored in the next, which
  then holds four (`carried`).

## What is proved

Every invariant and every action property that a passing run checks is a
theorem. TLAPS checks them for every value of the constants that satisfies the
named assumptions of the modules (`...Assumption`), which TLC evaluates in the
runs. They are of three kinds: bounds are natural numbers, positive where the code
divides, counts down or pages by them; constants that belong together are subsets
of or functions between each other; and `None` or an owner of one kind is not a
value of another. Four theorems have a hypothesis besides: a lease that is
extended in time (`~MayStall`: `OneWorker`, `AtLeastOnce`), jobs that are enqueued
at most once (`MaxEnqueues <= 1`: `AtLeastOnceSideBySide`) and a sending shorter
than the cooldown (`~SlowSends`: `CodesAreReceived`).

- `ListingsProofs`: `ListingsTypeCorrect` and `ListingsModerated`. The invariant
  adds to `PublicOnlyByLastVerdict` what makes it inductive: an approved row
  was approved by the last verdict, an active row went through moderation, and
  a write in flight that publishes also resubmits.
- `ReturnsProofs`: `TypeCorrect`, `ReturnTakesTwo`, `ConfirmationsComplete`,
  `ReturnedOnce`, `ContactsAreMutual`, `OldQrIsDead` and
  `ReturnsImplementLedger`. The invariant adds that the confirmations of a
  handover are those of its scanners and that a grant is the last word of its
  side; the steps of `Listings` are carried over by one lemma.
- `SessionsProofs`: `ClientsTypeCorrect`, `OneLiveToken`, `SessionNotLost`,
  `EndedIsEnded`, `RefreshIsHarmless` and `ForgetEndsSession`, for any number of
  clients, tokens and late requests. Every step of the server makes tokens fade,
  rotates one or issues one, and each of the three kinds keeps one live token in
  a login. That a client can resume is not inductive by itself: the invariant
  adds that two clients know no tokens of one login (`OwnLogins`), that a live
  token a client has sent is the one it keeps (`Newest`), that the refresh in
  flight presents the newest token sent (`SentLast`) and that an answer on its
  way brings the live token of its login (`Fresh`). The proof of
  `ForgetRevokesSession` reads the live token off that invariant: it is the
  cookie or its successor, and `Lineage` holds both.
- `JobQueueProofs`: `QueueTypeCorrect` and `ThreeAttempts` hold whatever becomes
  of the lease. Their invariant (`CountInv`) adds that the attempts of an entry,
  also of one in a run, were failed runs of its job (`Counted`). `OneWorker` and
  `AtLeastOnce` are for a lease that is extended in time: a worker past its
  wait then holds the lease (`Leased`), and the processing list holds at most the
  entry it is busy with (`Tidy`). Without that `OneRunner` cannot hold, and
  `NoJobLost` fails for equal messages (see above). `AtLeastOnceSideBySide` proves
  it for jobs that are enqueued once: a run of such a job covers it for good
  (`EnqueuedOnce`), so the entry `LREM` takes away is one of a job that is
  settled or back in the list. Both rest on `RemovingOne`, what `LREM` leaves.
- `BackgroundProofs`, all of `BackgroundSpec`. `PhotosAreServable`: the invariant
  says what a run in each phase remembers of its photograph (`Remembered`), that
  a row names an object of its own (`RowsBacked`), and that the objects no row
  names are at most the faults so far and one the run is busy with
  (`OrphansCounted`). `MatchToldOnce`: `MatchTellsOnce` is inductive with its types.
  `PostsAreBounded`: the posts made of a delivery and those its jobs may still
  make (`Tokens`: in the outbox, waiting, in the run) are at most the attempts
  counted, one, and the faults (`Budgeted`); the run remembers the attempts it
  read (`Carrying`), and no job comes before the row (`Recorded`).
  `PushesAreExplained`: an attempt is counted before it is made (`Paid`), and a
  deleted row of which something was sent is not written again, for a new
  subscription is younger than the notification (`Buried`, `Dated`).
- `AccountProofs`: `SecretIsProved` adds that what a request to enable has loaded
  is still the secret (`LoadedIsCurrent`) and that a setup in progress under an
  enabled factor was overtaken (`SetupIsOvertaken`). `StaffIsKept` adds that the
  author of a decision in time is an administrator (`AuthorsDecide`), who stays
  one since nobody may take their own role, and that whoever is verified has
  confirmed a number (`Vouched`). `ManagerIsKept` and `ImportsAreBacked`: the
  rights are checked at the beginning of a request and used at its end; the
  invariant adds that a request nothing has overtaken still has the rights it was
  let in with (`InTimeIsEntitled`), and each commit that takes rights away marks
  the requests it overtakes. `GuessesAreBounded`: the guesses made, those left of
  the stored code, and `OtpAttempts` for each request that may still store a code
  and each that the rate would still let in (`GuessesCounted`) do not grow within a
  window; when it ends, the requests that may still store one are counted into the
  bound of the next (`carried`), whose proof needs their number
  to be finite. `CodesAreReceived`: one request at a time is past the cooldown of a
  telephone (`OneAtATime`), what it sends is stored or nothing is (`SentIsStored`),
  and no two codes are equal (`CodesAreNew`).
- `ServicesProofs`. `RepeatsAreExplained`: each effect, each run to come and each
  token whose answer nobody is about to store is paid for by a token, an overlap or
  a lost answer (`Spent`). `TicketsAreInOrder`: a request that no other has
  overtaken still sees the ticket as it loaded it (`WritersInform`).
  `SocketsAreInformed`: a message nobody relays yet owes nothing (`Pending`); what
  a relay still owes are connections it will come to (`Relaying`), unless their set
  changes; then it breaks and owes nothing. No two posts relay one message
  (`OwnMessages`).
  `ServicesKeepApart`: `ServicesSpec` implies the specification of each of the nine
  services, so that the theorems about them hold of the composition that
  `MCServices` checks.
- `ConsoleProofs`. `FiguresAreExplained`: the figures counted bound those still to
  be counted, up to the changes since the first (`ReportOK`); a row that is counted
  as approved or returned but not as a claim is one of the exceptions.
  `ScansAreExplained`: a row that was there throughout, has not been seen and is
  undisturbed has at least `offset` rows ahead of it (`SteadyAhead`), so that it is on a
  page to come.
  `PicturesAreWeighed`: without a picture the score is the rest of 55 parts, with
  one it is 45 parts of the picture and the rest, of 100; the two are compared by
  cancelling `Steps`.

## What is only model-checked

Liveness (`JobsSettle`, `PhotosSettle`, `DeliveriesSettle`, `PushesSettle`) is
out of the prover's reach; it is checked on the instances of `MCJobQueue` and
`MCBackground`. Every other property of a passing run is a theorem, under the
hypotheses named above.

## Not modelled

Rows of `PROJECT.json` with status `not_modelled`, and what is missing from
those with `partly`:

- the admin application's server side (`refresh.ts`): only a guard of its paging
  is used, by `Console`; its coalescing is the next client to model;
- screens and pages: presentation of what the server decides;
- AI providers, maps, traffic, object store, OpenCLIP: calls to services, which
  the models see as outcomes;
- scripts and containers: only the restart policy is used, as fairness;
- the verification of deployment tokens (OIDC) and their replay cache;
- search, saved lists, branches, settings of the console, exports: reads, or
  single writes that nothing else modelled reads.

## Plan

1. Done: everything under "What is modelled", and the proofs above.
2. Done: the proofs about the job handlers and services.
3. `WorkerJobs` as the abstraction of `JobQueue`.
4. The admin application's coalescing as a client of `Sessions`, and the replay
   cache of deployment tokens.
