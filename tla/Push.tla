-------------------------------- MODULE Push --------------------------------
(***************************************************************************)
(* Web push: users subscribe the endpoint of their browser, and every 30 s *)
(* the worker writes a delivery row for each fresh unread notification and *)
(* each active device, and sends what is due.  An attempt is committed     *)
(* before it is made and its result after; the cycle keeps the rows it has *)
(* loaded, while requests change them.                                     *)
(***************************************************************************)
EXTENDS Naturals, FiniteSets, TLC, Nothing

CONSTANTS
  Users, Notes, Endpoints,
  Addressee,     \* the user whom each notification is for
  MaxDevices,    \* active subscriptions of a user (10)
  PushAttempts,  \* attempts at a row (5)
  MaxClock,      \* bound: notifications and subscriptions
  MaxCrashes     \* bound: cycles that end before their time

Notification == [owner : Users, created : Nat, fresh : BOOLEAN]
Subscription == [owner : Users, status : {"active", "expired"}, created : Nat]
PushRow      == [status : {"pending", "sent", "expired", "failed", "skipped"}, attempts : Nat]

ASSUME PushAssumption ==
  /\ PushAttempts \in Nat \ {0} /\ MaxClock \in Nat /\ MaxCrashes \in Nat
  /\ Addressee \in [Notes -> Users]
  /\ None \notin Notification \cup Subscription \cup PushRow

VARIABLES
  note,     \* notifications
  device,   \* push_devices of platform webpush, by endpoint
  account,  \* users: active or blocked
  row,      \* push_deliveries
  due,      \* rows whose next_attempt_at has come
  sweep,    \* the cycle of deliver_pending: its phase, rows and what it loaded
  clock, crashes,
  sends,    \* history: pushes made of each notification to each endpoint
  inherited, \* history: rows there were when their endpoint was subscribed anew
  replays   \* history: attempts begun for a notification older than the subscription

pushVars == <<note, device, account, row, due, sweep, clock, crashes, sends, inherited, replays>>

Rows == Notes \X Endpoints
Awaiting == [status |-> "pending", attempts |-> 0]
NoSweep == [phase |-> "idle", todo |-> {}, at |-> None, known |-> <<>>]

PushInit ==
  /\ note = [n \in Notes |-> None] /\ device = [e \in Endpoints |-> None]
  /\ account = [u \in Users |-> [status |-> "active"]]
  /\ row = [r \in Rows |-> None] /\ due = {} /\ sweep = NoSweep
  /\ clock = 0 /\ crashes = 0
  /\ sends = [r \in Rows |-> 0] /\ inherited = {} /\ replays = {}

\* A handler notifies a user (a match, a chat message, an answer of support).
Notify(n) ==
  /\ note[n] = None /\ clock < MaxClock
  /\ clock' = clock + 1
  /\ note' = [note EXCEPT ![n] = [owner |-> Addressee[n], created |-> clock + 1, fresh |-> TRUE]]
  /\ UNCHANGED <<device, account, row, due, sweep, crashes, sends, inherited, replays>>

\* Its owner reads it, alone or with all others, or it is a day old: the cycle
\* treats both alike.
ReadNotification(n) ==
  /\ note[n] # None /\ note[n].fresh
  /\ note' = [note EXCEPT ![n].fresh = FALSE]
  /\ UNCHANGED <<device, account, row, due, sweep, clock, crashes, sends, inherited, replays>>

BlockUser(u) ==
  /\ account[u].status = "active"
  /\ account' = [account EXCEPT ![u].status = "blocked"]
  /\ UNCHANGED <<note, device, row, due, sweep, clock, crashes, sends, inherited, replays>>

ActiveDevices(u) == {e \in Endpoints : device[e] # None /\ device[e].owner = u /\ device[e].status = "active"}

Since(e, u) == IF device[e] = None \/ device[e].owner # u \/ device[e].status # "active"
               THEN clock + 1 ELSE device[e].created

\* A row of a new or reactivated or reassigned endpoint counts from now.
SubscribePush(e, u) ==
  /\ account[u].status = "active" /\ clock < MaxClock
  /\ device[e] = None => Cardinality(ActiveDevices(u)) < MaxDevices
  /\ clock' = clock + 1
  /\ device' = [device EXCEPT ![e] = [owner |-> u, status |-> "active", created |-> Since(e, u)]]
  /\ inherited' = IF device'[e].created > clock
                    THEN inherited \cup {r \in Rows : r[2] = e /\ row[r] # None} ELSE inherited
  /\ UNCHANGED <<note, account, row, due, sweep, crashes, sends, replays>>

\* Deleting a device deletes its rows.
UnregisterDevice(e, u) ==
  /\ device[e] # None /\ device[e].owner = u
  /\ device' = [device EXCEPT ![e] = None]
  /\ row' = [r \in Rows |-> IF r[2] = e THEN None ELSE row[r]]
  /\ due' = {r \in due : r[2] # e}
  /\ UNCHANGED <<note, account, sweep, clock, crashes, sends, inherited, replays>>

-----------------------------------------------------------------------------
\* Mutant of Missing: rows are written for notifications from before as well.
MissingAll == {r \in Rows : /\ row[r] = None /\ note[r[1]] # None /\ device[r[2]] # None
                            /\ device[r[2]].owner = note[r[1]].owner /\ device[r[2]].status = "active"
                            /\ note[r[1]].fresh}
Missing == {r \in MissingAll : note[r[1]].created >= device[r[2]].created}

\* The cycle adds the missing rows and takes the pending ones that are due.
BeginSweep ==
  LET now == due \cup Missing
  IN /\ sweep.phase = "idle" /\ now # {}
     /\ row' = [r \in Rows |-> IF r \in Missing THEN Awaiting ELSE row[r]]
     /\ due' = now
     /\ sweep' = [NoSweep EXCEPT !.phase = "next", !.todo = now]
     /\ UNCHANGED <<note, device, account, clock, crashes, sends, inherited, replays>>

\* What the session has loaded once it does not load again.
Load(known, x, value) == IF x \in DOMAIN known THEN known ELSE known @@ (x :> value)
Loaded(r) == LET a == Load(sweep.known, r[1], note[r[1]])
                 b == Load(a, r[2], device[r[2]])
             IN Load(b, a[r[1]].owner, account[a[r[1]].owner])

\* The update of a row that was deleted meanwhile ends the cycle.
Aborted(r) == row[r] = None
EndSweep == sweep' = NoSweep

Unwanted(n, d, user) ==
  \/ user.status # "active" \/ d = None \/ ~n.fresh
  \/ d # None /\ (d.status # "active" \/ d.owner # n.owner)

\* Mutant of Skipped: the row is passed over and stays as it is.
SkippedNot(r) == row
Skipped(r)    == [row EXCEPT ![r].status = "skipped"]

\* A row is skipped, or its attempt counted and put off before it is made.
TakeRow(r) ==
  LET known == Loaded(r)
      skips == Unwanted(known[r[1]], known[r[2]], known[known[r[1]].owner])
  IN /\ sweep.phase = "next" /\ r \in sweep.todo
     /\ IF Aborted(r) THEN EndSweep /\ UNCHANGED <<row, due>>
        ELSE /\ due' = due \ {r}
             /\ row' = IF skips THEN Skipped(r)
                                ELSE [row EXCEPT ![r].attempts = @ + 1]
             /\ sweep' = [phase |-> IF skips THEN "next" ELSE "send", todo |-> sweep.todo \ {r},
                          at |-> IF skips THEN None ELSE r, known |-> known]
     /\ replays' = IF ~skips /\ ~Aborted(r) /\ device[r[2]].created > note[r[1]].created
                     THEN replays \cup {r} ELSE replays
     /\ UNCHANGED <<note, device, account, clock, crashes, sends, inherited>>

\* The request to the push service, which may be answered with any status.
SendPush(answer) ==
  LET r == sweep.at
  IN /\ sweep.phase = "send"
     /\ sends' = [sends EXCEPT ![r] = @ + 1]
     /\ sweep' = [sweep EXCEPT !.phase = answer]
     /\ UNCHANGED <<note, device, account, row, due, clock, crashes, inherited, replays>>

Answers == {"sent", "gone", "refused", "unavailable"}

GivesUp(r) == row[r].attempts >= PushAttempts

\* 404 and 410 expire the device; another 4xx or the last attempt fails the row.
Result(r, answer) ==
  CASE answer = "sent" -> "sent"
    [] answer = "gone" -> "expired"
    [] answer = "refused" -> "failed"
    [] OTHER -> IF GivesUp(r) THEN "failed" ELSE "pending"

RecordPush ==
  LET r == sweep.at   answer == sweep.phase
      expires == answer = "gone"
  IN /\ sweep.phase \in Answers
     /\ IF Aborted(r) /\ (answer # "unavailable" \/ expires)
          THEN EndSweep /\ UNCHANGED <<row, device>>
          ELSE /\ row' = IF Aborted(r) THEN row ELSE [row EXCEPT ![r].status = Result(r, answer)]
               /\ device' = IF expires THEN [device EXCEPT ![r[2]].status = "expired"] ELSE device
               /\ sweep' = [sweep EXCEPT !.phase = "next", !.at = None,
                              !.known = IF expires THEN [@ EXCEPT ![r[2]].status = "expired"] ELSE @]
     /\ UNCHANGED <<note, account, due, clock, crashes, sends, inherited, replays>>

FinishSweep ==
  /\ sweep.phase = "next" /\ sweep.todo = {} /\ EndSweep
  /\ UNCHANGED <<note, device, account, row, due, clock, crashes, sends, inherited, replays>>

\* The worker dies, or the database fails and the cycle is given up.
SweepDies ==
  /\ sweep.phase # "idle" /\ crashes < MaxCrashes
  /\ crashes' = crashes + 1 /\ EndSweep
  /\ UNCHANGED <<note, device, account, row, due, clock, sends, inherited, replays>>

\* The delay of a row that was put off has passed.
BecomeDue(r) ==
  /\ row[r] # None /\ row[r].status = "pending" /\ r \notin due
  /\ sweep.phase = "idle"
  /\ due' = due \cup {r}
  /\ UNCHANGED <<note, device, account, row, sweep, clock, crashes, sends, inherited, replays>>

SweepStep == \/ BeginSweep \/ (\E r \in Rows : TakeRow(r)) \/ (\E a \in Answers : SendPush(a))
             \/ RecordPush \/ FinishSweep

PushNext ==
  \/ \E n \in Notes : Notify(n) \/ ReadNotification(n)
  \/ \E u \in Users : BlockUser(u) \/ \E e \in Endpoints : SubscribePush(e, u) \/ UnregisterDevice(e, u)
  \/ SweepStep \/ SweepDies \/ \E r \in Rows : BecomeDue(r)

\* The worker's loop goes round and time passes.
PushFairness == WF_pushVars(SweepStep) /\ WF_pushVars(\E r \in Rows : BecomeDue(r))

-----------------------------------------------------------------------------
\* A notification is pushed to a browser at most PushAttempts times, and once
\* more for each cycle that was cut off, whatever became of the subscription
\* meanwhile: an attempt is counted before it is made.  And one from before the
\* endpoint was subscribed anew is pushed only if its row was written already.
PushesExplained ==
  /\ \A r \in Rows : sends[r] <= PushAttempts + crashes
  /\ replays \subseteq inherited

\* Every delivery comes to an end, be it sent, failed, expired, skipped or
\* deleted, although the service is away and cycles are cut off.
PushesSettle ==
  \A r \in Rows : (row[r] # None /\ row[r].status = "pending")
                    ~> (row[r] = None \/ row[r].status # "pending")
=============================================================================
