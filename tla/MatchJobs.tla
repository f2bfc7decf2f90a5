------------------------------ MODULE MatchJobs ------------------------------
(***************************************************************************)
(* match_listing: compares a publication with the open publications of the *)
(* other kind, keeps a candidate row for each direction of a pair, tells   *)
(* the owner the first time a pair reaches the threshold, and reports it   *)
(* to the owner's organization.  A run is repeated after an interruption   *)
(* and whenever either publication or a photograph changes.                *)
(***************************************************************************)
EXTENDS WebhookJob

CONSTANTS
  Listings, Found,  \* publications, and which of them are finds
  Owned,            \* those that belong to the organization
  Scores,           \* scores a comparison may give
  MaxApprovals      \* bound: approvals of each publication

VARIABLES
  open,       \* publications that are active and approved
  candidate,  \* match_candidates: the score of each ordered pair, 0 without a row
  told,       \* notifications new_match about each ordered pair
  approvals

matchVars == <<open, candidate, told, approvals>>

Kept == 45
Threshold == 80

Pairs == {p \in Listings \X Listings : (p[1] \in Found) # (p[2] \in Found)}

\* The possible matches of the organization's publications are events.
ASSUME MatchAssumption ==
  /\ Scores \subseteq Nat
  /\ {p \in Pairs : p[1] \in Owned} \subseteq Events

ListingJob(l) == [name |-> "match_listing", of |-> l]

MatchInit ==
  /\ open = {}
  /\ candidate = [p \in Pairs |-> 0] /\ told = [p \in Pairs |-> 0]
  /\ approvals = [l \in Listings |-> 0]

\* A moderator approves: committed, then enqueued.
ApproveListing(l) ==
  /\ l \notin open /\ approvals[l] < MaxApprovals
  /\ open' = open \cup {l}
  /\ approvals' = [approvals EXCEPT ![l] = @ + 1]
  /\ outbox' = outbox \cup {ListingJob(l)}
  /\ UNCHANGED <<queue, run, dead, lost, faults, hookVars, candidate, told>>

\* An edit, a verdict or a return takes it out of the search again.
WithdrawListing(l) ==
  /\ l \in open
  /\ open' = open \ {l}
  /\ UNCHANGED <<jobVars, hookVars, candidate, told, approvals>>

-----------------------------------------------------------------------------
Source == run.entry.job.of

\* The source and the candidates are read; they may change before the commit.
BeginMatch ==
  /\ Running("match_listing", "begin")
  /\ run' = IF Source \in open THEN Go("matching", [seen |-> {c \in open : <<Source, c>> \in Pairs}])
            ELSE Done
  /\ UNCHANGED <<queue, dead, outbox, lost, faults, hookVars, matchVars>>

\* Both directions of the pairs that are close enough.
Touched(score) == {p \in Pairs : \/ p[1] = Source /\ p[2] \in DOMAIN score /\ score[p[2]] >= Kept
                                 \/ p[2] = Source /\ p[1] \in DOMAIN score /\ score[p[1]] >= Kept}
ScoreOf(score, p) == IF p[1] = Source THEN score[p[2]] ELSE score[p[1]]

\* The threshold is crossed now, and no run before has told the owner.
\* Mutant of Tells: only new rows are announced.
TellsOnlyNew(score, p) == ScoreOf(score, p) >= Threshold /\ candidate[p] = 0 /\ told[p] = 0
Tells(score, p)        == ScoreOf(score, p) >= Threshold /\ candidate[p] < Threshold /\ told[p] = 0

\* One comparison with each open publication scores both directions of a pair.
CommitMatch(score) ==
  LET news == {p \in Touched(score) : Tells(score, p)}
      ds   == Addressed({p \in news : p[1] \in Owned})
  IN /\ Running("match_listing", "matching")
     /\ score \in [run.memo.seen -> Scores]
     /\ candidate' = [p \in Pairs |-> IF p \in Touched(score) THEN ScoreOf(score, p) ELSE candidate[p]]
     /\ told' = [p \in Pairs |-> IF p \in news THEN told[p] + 1 ELSE told[p]]
     /\ delivery' = WithDeliveries(ds)
     /\ run' = GoAnnounce({HookJob(d) : d \in ds})
     /\ UNCHANGED <<queue, dead, outbox, lost, faults, hook, posts, taken, open, approvals>>

MatchStep == BeginMatch \/ \E seen \in SUBSET Listings : \E score \in [seen -> Scores] : CommitMatch(score)

-----------------------------------------------------------------------------
\* However often a job is repeated, an owner hears once of a possible match,
\* and does hear of it as soon as the pair has reached the threshold, be it at
\* its first comparison or at a later one; and the two directions of a pair have
\* the same score, whichever of them was compared last.
MatchTellsOnce ==
  \A p \in Pairs : /\ told[p] <= 1
                   /\ candidate[p] >= Threshold => told[p] = 1
                   /\ candidate[p] = candidate[<<p[2], p[1]>>]
=============================================================================
