------------------------------ MODULE Console ------------------------------
(***************************************************************************)
(* What the staff see: the registers of the console, read page by page     *)
(* while the rows change, and the overview, whose figures are counted one  *)
(* after another.  Each SELECT sees what is committed when it starts.      *)
(***************************************************************************)
EXTENDS Naturals, FiniteSets, Sequences

CONSTANTS
  Entries,     \* rows, numbered by their created_at: 1..n
  Reached,     \* how far the publication of each has come at the beginning
  Dated,       \* which parts of it are of the overview's period: the others are older
  PageLimit,   \* rows of a page (50)
  MaxNews      \* bound: changes

\* The parts of a publication that has come so far: its rows in the database.
Made(s) == CASE s = "absent" -> {}
             [] s = "published" -> {"listing"}
             [] s \in {"claimed", "approved", "revoked"} -> {"listing", "claim"}
             [] OTHER -> {"listing", "claim", "handover"}

ASSUME RowsAssumption ==
  /\ Entries \subseteq Nat /\ IsFiniteSet(Entries)
  /\ Reached \in [Entries -> {"absent", "published", "claimed", "approved", "planned", "completed"}]
  /\ Dated \in [Entries -> SUBSET {"listing", "claim", "handover"}]
  /\ \A e \in Entries : Dated[e] \subseteq Made(Reached[e])
  /\ PageLimit \in Nat \ {0}

VARIABLES
  stage,   \* how far the publication of each row has come
  within,  \* its parts whose created_at is in the period of the overview
  fits,    \* rows that satisfy the filter of the scan
  rank,    \* its place in an order other than by created_at: updated_at or score
  scan,    \* a register that is being read
  report,  \* an overview that is being counted
  news     \* changes so far

consoleVars == <<stage, within, fits, rank, scan, report, news>>

-----------------------------------------------------------------------------
\* The registers: who may read them, what they filter by, and their order.
Register(readers, filters, order) == [readers |-> readers, filters |-> filters, order |-> order]
Staff == {"admin", "moderator"}

UsersRegister         == Register({"admin"}, {"query", "role", "status"}, "created")
OrganizationsRegister == Register({"admin"}, {"query", "status"}, "created")
ListingsRegister      == Register(Staff, {"query", "kind", "status", "moderation_status", "organization_id"}, "created")
ClaimsRegister        == Register(Staff, {"query", "status", "min_risk"}, "created")
MatchesRegister       == Register(Staff, {"status", "min_score"}, "score")
HandoversRegister     == Register(Staff, {"completed", "method"}, "created")
AuditRegister         == Register({"admin"}, {"actor_id", "action", "entity_type"}, "created")
TicketsRegister       == Register(Staff, {"status", "priority", "assigned_to"}, "updated")

Registers == {UsersRegister, OrganizationsRegister, ListingsRegister, ClaimsRegister,
              MatchesRegister, HandoversRegister, AuditRegister, TicketsRegister}

\* What a row is filtered by may change while it exists.
Mutable == {"query", "role", "status", "moderation_status", "min_risk", "min_score", "completed",
            "priority", "assigned_to"}

NoScan == [phase |-> "idle"]

ConsoleInit ==
  /\ stage = Reached /\ within = Dated
  /\ fits = {e \in Entries : Reached[e] # "absent"}
  /\ rank = [e \in Entries |-> 0]
  /\ scan = NoScan /\ report = <<>> /\ news = 0

Scanning == scan.phase \in {"count", "rows"}

\* A row comes into the register, leaves it, or is only changed: its updated_at
\* rises above all others, its score may rise or fall.
Happens(coming, leaving, changed) ==
  /\ news < MaxNews /\ news' = news + 1
  /\ fits' = (fits \ leaving) \cup coming
  /\ \E place \in {news + 1} \cup (IF Scanning /\ scan.order = "score" THEN {0} ELSE {}) :
       rank' = [e \in Entries |-> IF e \in changed THEN place ELSE rank[e]]
  /\ scan' = IF Scanning
               THEN [scan EXCEPT !.steady = @ \ leaving, !.moved = @ \cup changed,
                                 !.slipped = @ \/ leaving # {},
                                 !.late = @ \/ (scan.phase = "rows" /\ coming # {})]
               ELSE scan

\* A publication is made, claimed and handed over.  A verdict may be taken back
\* by another that has read the claim before it; a handover may be made, or done,
\* by a request that has read the claim as approved; and the resolution of a
\* dispute may rewrite the claim of a handover that is done.
After == [published |-> {"claimed"},
          claimed   |-> {"approved"},
          approved  |-> {"revoked", "planned"},
          revoked   |-> {"approved", "withdrawn"},
          planned   |-> {"withdrawn", "completed"},
          withdrawn |-> {"planned", "completed"},
          completed |-> {"rewritten"},
          rewritten |-> {"completed"}]

\* A part that is made is dated in the period, or after its end: then also the
\* parts that follow it.
Comes(e, next) ==
  /\ stage' = [stage EXCEPT ![e] = next]
  /\ \/ UNCHANGED within
     \/ /\ Made(stage[e]) \subseteq within[e] \cup Made(Reached[e])
        /\ within' = [within EXCEPT ![e] = @ \cup (Made(next) \ Made(stage[e]))]

Publish(e) ==
  /\ stage[e] = "absent" /\ Comes(e, "published")
  /\ Happens({e}, {}, {e}) /\ UNCHANGED report

Advance(e) ==
  /\ stage[e] \in DOMAIN After
  /\ \E next \in After[stage[e]] : Comes(e, next)
  /\ Happens({}, {}, {e}) /\ UNCHANGED report

Leave(e) ==
  /\ Scanning /\ e \in fits /\ scan.mutable
  /\ Happens({}, {e}, {e}) /\ UNCHANGED <<stage, within, report>>

-----------------------------------------------------------------------------
SortKey(order, e) == IF order = "created" THEN 0 ELSE rank[e]

\* Descending, and rows that are equal in that by created_at.
Precedes(order, d, e) == \/ SortKey(order, d) > SortKey(order, e)
                         \/ SortKey(order, d) = SortKey(order, e) /\ d > e
Ahead(order, e) == {d \in fits : Precedes(order, d, e)}

\* OFFSET rows are ahead of the page, or more, and it has LIMIT rows.
Page(order, offset) ==
  {e \in fits : offset <= Cardinality(Ahead(order, e)) /\ Cardinality(Ahead(order, e)) < offset + PageLimit}

BeginScan(register, filter, who) ==
  /\ ~Scanning /\ who \in register.readers /\ filter \in register.filters \cup {"none"}
  /\ scan' = [phase |-> "count", order |-> register.order, mutable |-> filter \in Mutable, offset |-> 0, total |-> 0,
              seen |-> {}, steady |-> fits, moved |-> {}, slipped |-> FALSE, late |-> FALSE]
  /\ UNCHANGED <<stage, within, fits, rank, report, news>>

CountRows ==
  /\ scan.phase = "count"
  /\ scan' = [scan EXCEPT !.phase = "rows", !.total = Cardinality(fits)]
  /\ UNCHANGED <<stage, within, fits, rank, report, news>>

\* Mutant of More: the button for the next page is disabled one row too early.
MoreBut(total, offset) == offset + PageLimit + 1 < total
More(total, offset) == offset + PageLimit < total

\* The rows of the page; the reader goes on while the total promises more.
ReadRows ==
  /\ scan.phase = "rows"
  /\ scan' = [scan EXCEPT !.seen = @ \cup Page(scan.order, scan.offset), !.offset = @ + PageLimit,
                          !.phase = IF More(scan.total, scan.offset) THEN "count" ELSE "done"]
  /\ UNCHANGED <<stage, within, fits, rank, report, news>>

-----------------------------------------------------------------------------
\* Odd rows are found things, even rows lost ones.
IsFound(e) == e % 2 = 1
\* The filters of the overview: each by created_at of the row that it counts.
ListingFilter(e) == "listing" \in within[e]
ClaimFilter(e)   == "claim" \in within[e]

\* Mutant of HandoverFilter: handovers of any time are counted.
HandoverFilterEver(e) == "handover" \in Made(stage[e])
HandoverFilter(e)     == "handover" \in within[e]

\* The figures of the overview, in the order in which they are counted.  A claim
\* is no longer approved once its handover is completed, unless it is rewritten.
Figures == <<"listings", "found", "lost", "claims", "approved", "returned">>
Counted(figure, e) ==
  CASE figure = "listings" -> ListingFilter(e)
    [] figure = "found"    -> ListingFilter(e) /\ IsFound(e)
    [] figure = "lost"     -> ListingFilter(e) /\ ~IsFound(e)
    [] figure = "claims"   -> ClaimFilter(e)
    [] figure = "approved" -> ClaimFilter(e) /\ stage[e] \in {"approved", "planned", "rewritten"}
    [] figure = "returned" -> HandoverFilter(e) /\ stage[e] \in {"completed", "rewritten"}

BeginReport ==
  /\ report = <<>> \/ Len(report) = Len(Figures) + 1
  /\ report' = <<news>>
  /\ UNCHANGED <<stage, within, fits, rank, scan, news>>

CountFigure ==
  /\ Len(report) \in 1..Len(Figures)
  /\ report' = Append(report, Cardinality({e \in Entries : Counted(Figures[Len(report)], e)}))
  /\ UNCHANGED <<stage, within, fits, rank, scan, news>>

RowsChange == \E e \in Entries : Publish(e) \/ Advance(e) \/ Leave(e)

Scans ==
  \/ \E r \in Registers, who \in Staff : \E f \in r.filters \cup {"none"} : BeginScan(r, f, who)
  \/ CountRows \/ ReadRows

Counts == BeginReport \/ CountFigure

ConsoleSpec == ConsoleInit /\ [][RowsChange \/ Scans \/ Counts]_consoleVars

-----------------------------------------------------------------------------
\* A row that was in a register throughout a scan is missing from its pages only
\* if another row has left the register, the row itself has moved in the order
\* of changes or any row in that of scores, or a row came in between the count
\* and the rows of a page, so that the total promised too little.
ScanExplained ==
  scan.phase = "done" =>
    \A e \in scan.steady \ scan.seen :
      \/ scan.slipped \/ scan.late
      \/ scan.order = "updated" /\ e \in scan.moved
      \/ scan.order = "score" /\ scan.moved # {}

\* Handovers of the period whose claims are older, and completed claims that
\* a dispute's resolution has approved again.
Straddling == {e \in Entries : "handover" \in within[e] /\ "claim" \notin within[e]}
Rewritten  == {e \in Entries : stage[e] = "rewritten"}

\* The figures of an overview agree up to the changes made while it was counted:
\* the kinds add up to the publications, and no more claims were approved or
\* led to a return than were made, save for returns of older claims and for
\* rewritten claims, which count as both.
OverviewExplained ==
  Len(report) = Len(Figures) + 1 =>
    LET meanwhile == news - report[1]
        listings == report[2]   kinds == report[3] + report[4]
        claims == report[5]     decided == report[6] + report[7]
    IN /\ kinds >= listings /\ kinds <= listings + meanwhile
       /\ decided <= claims + Cardinality(Straddling) + Cardinality(Rewritten) + meanwhile
=============================================================================
