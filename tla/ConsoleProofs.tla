---------------------------- MODULE ConsoleProofs ----------------------------
(***************************************************************************)
(* What the staff and the matcher read, for any number of rows, of pages   *)
(* and of changes meanwhile: the figures of an overview agree, a scan      *)
(* leaves a row out only for a reason, and a missing picture is neutral.   *)
(***************************************************************************)
EXTENDS Console, MatchScore, FiniteSetTheorems, TLAPS

LEMMA RowsAreFew ==
  ASSUME NEW S, S \subseteq Entries
  PROVE  IsFiniteSet(S) /\ Cardinality(S) \in Nat
BY RowsAssumption, FS_Subset, FS_CardinalityType

LEMMA FewerRows ==
  ASSUME NEW S, NEW T, S \subseteq T, T \subseteq Entries
  PROVE  Cardinality(S) <= Cardinality(T)
BY RowsAreFew, FS_Subset

LEMMA OneRowMore ==
  ASSUME NEW S, NEW T, NEW x, S \subseteq Entries, T \subseteq Entries, S \subseteq T, T \subseteq S \cup {x}
  PROVE  Cardinality(S) <= Cardinality(T) /\ Cardinality(T) <= Cardinality(S) + 1
<1>1. IsFiniteSet(S) /\ IsFiniteSet(T) /\ Cardinality(S) \in Nat /\ Cardinality(T) \in Nat
  BY RowsAreFew
<1>2. Cardinality(S) <= Cardinality(T)
  BY FewerRows
<1>3. IsFiniteSet(S \cup {x}) /\ Cardinality(S \cup {x}) \in Nat /\ Cardinality(S \cup {x}) <= Cardinality(S) + 1
  <2>1. /\ IsFiniteSet(S \cup {x})
        /\ \/ Cardinality(S \cup {x}) = Cardinality(S)
           \/ Cardinality(S \cup {x}) = Cardinality(S) + 1
    BY <1>1, FS_AddElement
  <2> QED  BY <1>1, <2>1
<1>4. Cardinality(T) <= Cardinality(S \cup {x})
  BY <1>3, FS_Subset
<1> QED  BY <1>1, <1>2, <1>3, <1>4

-----------------------------------------------------------------------------
(* The overview.  What has been counted bounds what is still to be, up to  *)
(* the changes since the first figure.                                     *)

Stages == {"absent", "published", "claimed", "approved", "revoked", "planned", "withdrawn", "completed", "rewritten"}

RowsTypeOK ==
  /\ stage \in [Entries -> Stages]
  /\ within \in [Entries -> SUBSET {"listing", "claim", "handover"}]
  /\ \A e \in Entries : within[e] \subseteq Made(stage[e])
  /\ report \in Seq(Nat) /\ news \in Nat

Listed   == {e \in Entries : "listing" \in within[e]}
Found    == {e \in Entries : "listing" \in within[e] /\ IsFound(e)}
Lost     == {e \in Entries : "listing" \in within[e] /\ ~IsFound(e)}
Claimed  == {e \in Entries : "claim" \in within[e]}
Approved == {e \in Entries : "claim" \in within[e] /\ stage[e] \in {"approved", "planned", "rewritten"}}
Returned == {e \in Entries : "handover" \in within[e] /\ stage[e] \in {"completed", "rewritten"}}

\* How many they are.
ListedRows   == Cardinality(Listed)
FoundRows    == Cardinality(Found)
LostRows     == Cardinality(Lost)
ClaimedRows  == Cardinality(Claimed)
ApprovedRows == Cardinality(Approved)
ReturnedRows == Cardinality(Returned)
StraddlingRows == Cardinality(Straddling)
RewrittenRows  == Cardinality(Rewritten)
Excused == StraddlingRows + RewrittenRows

ReportOK ==
  /\ Len(report) <= 7
  /\ Len(report) >= 1 => report[1] <= news
  /\ Len(report) = 2 => /\ report[2] <= ListedRows
                        /\ ListedRows + report[1] <= report[2] + news
  /\ Len(report) = 3 => /\ report[2] <= report[3] + LostRows
                        /\ report[3] + LostRows + report[1] <= report[2] + news
  /\ Len(report) >= 4 => /\ report[2] <= report[3] + report[4]
                         /\ report[3] + report[4] + report[1] <= report[2] + news
  /\ Len(report) = 5 => ClaimedRows + report[1] <= report[5] + news
  /\ Len(report) = 6 => report[6] + ReturnedRows + report[1] <= report[5] + Excused + news
  /\ Len(report) = 7 => report[6] + report[7] + report[1] <= report[5] + Excused + news

ReportInv == RowsTypeOK /\ ReportOK

\* At any one time the figures agree.
LEMMA FiguresAgree ==
  /\ FoundRows + LostRows = ListedRows
  /\ ApprovedRows + ReturnedRows <= ClaimedRows + Excused
  /\ FoundRows \in Nat /\ LostRows \in Nat /\ ListedRows \in Nat
  /\ ApprovedRows \in Nat /\ ReturnedRows \in Nat /\ ClaimedRows \in Nat
  /\ StraddlingRows \in Nat /\ RewrittenRows \in Nat /\ Excused \in Nat
<1>1. /\ IsFiniteSet(Found) /\ IsFiniteSet(Lost) /\ FoundRows \in Nat /\ LostRows \in Nat
      /\ IsFiniteSet(Listed) /\ ListedRows \in Nat
  BY RowsAreFew DEF Found, Lost, Listed, FoundRows, LostRows, ListedRows
<1>2. /\ IsFiniteSet(Approved) /\ IsFiniteSet(Returned) /\ ApprovedRows \in Nat /\ ReturnedRows \in Nat
      /\ IsFiniteSet(Claimed) /\ ClaimedRows \in Nat
  BY RowsAreFew DEF Approved, Returned, Claimed, ApprovedRows, ReturnedRows, ClaimedRows
<1>5. /\ IsFiniteSet(Straddling) /\ IsFiniteSet(Rewritten)
      /\ StraddlingRows \in Nat /\ RewrittenRows \in Nat
  BY RowsAreFew DEF Straddling, Rewritten, StraddlingRows, RewrittenRows
<1>3. FoundRows + LostRows = ListedRows
  <2>1. Listed = Found \cup Lost /\ Found \cap Lost = {}
    BY DEF Listed, Found, Lost
  <2>2. Cardinality(Found \cup Lost) = FoundRows + LostRows - Cardinality(Found \cap Lost)
    BY <1>1, FS_Union DEF FoundRows, LostRows
  <2>3. Cardinality({}) = 0
    BY FS_EmptySet
  <2> QED  BY <1>1, <2>1, <2>2, <2>3 DEF ListedRows
<1>4. ApprovedRows + ReturnedRows <= ClaimedRows + Excused
  <2>1. Approved \cup Returned \subseteq Claimed \cup Straddling /\ Approved \cap Returned \subseteq Rewritten
    BY DEF Approved, Returned, Claimed, Straddling, Rewritten
  <2>2. Cardinality(Approved \cup Returned)
          = ApprovedRows + ReturnedRows - Cardinality(Approved \cap Returned)
    BY <1>2, FS_Union DEF ApprovedRows, ReturnedRows
  <2>3. Cardinality(Approved \cap Returned) <= RewrittenRows /\ Cardinality(Approved \cap Returned) \in Nat
    BY <1>5, <2>1, FS_Subset, FS_CardinalityType DEF RewrittenRows
  <2>4. /\ IsFiniteSet(Claimed \cup Straddling)
        /\ Cardinality(Claimed \cup Straddling) = ClaimedRows + StraddlingRows - Cardinality(Claimed \cap Straddling)
        /\ Cardinality(Claimed \cap Straddling) \in Nat
    <3>1. IsFiniteSet(Claimed \cap Straddling)
      BY <1>2, FS_Subset
    <3> QED  BY <1>2, <1>5, <3>1, FS_Union, FS_CardinalityType DEF ClaimedRows, StraddlingRows
  <2>5. Cardinality(Approved \cup Returned) <= Cardinality(Claimed \cup Straddling)
    BY <2>1, <2>4, FS_Subset
  <2>6. /\ ApprovedRows + ReturnedRows = Cardinality(Approved \cup Returned) + Cardinality(Approved \cap Returned)
        /\ Cardinality(Approved \cup Returned) \in Nat
    <3>1. IsFiniteSet(Approved \cup Returned)
      BY <2>1, <2>4, FS_Subset
    <3> QED  BY <1>2, <2>2, <2>3, <3>1, FS_CardinalityType
  <2> HIDE DEF Excused
  <2>7. Cardinality(Approved \cup Returned) <= ClaimedRows + StraddlingRows
    BY <1>2, <1>5, <2>4, <2>5, <2>6
  <2> QED  BY <1>2, <1>5, <2>3, <2>6, <2>7 DEF Excused
<1> QED  BY <1>1, <1>2, <1>3, <1>4, <1>5 DEF Excused

\* A figure is the number of the rows that it counts.
LEMMA FiguresCount ==
  /\ Len(Figures) = 6
  /\ {e \in Entries : Counted(Figures[1], e)} = Listed
  /\ {e \in Entries : Counted(Figures[2], e)} = Found
  /\ {e \in Entries : Counted(Figures[3], e)} = Lost
  /\ {e \in Entries : Counted(Figures[4], e)} = Claimed
  /\ {e \in Entries : Counted(Figures[5], e)} = Approved
  /\ {e \in Entries : Counted(Figures[6], e)} = Returned
<1>1. /\ Figures[1] = "listings" /\ Figures[2] = "found" /\ Figures[3] = "lost" /\ Figures[4] = "claims"
      /\ Figures[5] = "approved" /\ Figures[6] = "returned" /\ Len(Figures) = 6
  BY DEF Figures
<1>2. ASSUME NEW e
      PROVE  /\ Counted("listings", e) <=> "listing" \in within[e]
             /\ Counted("found", e) <=> "listing" \in within[e] /\ IsFound(e)
             /\ Counted("lost", e) <=> "listing" \in within[e] /\ ~IsFound(e)
             /\ Counted("claims", e) <=> "claim" \in within[e]
             /\ Counted("approved", e) <=> "claim" \in within[e] /\ stage[e] \in {"approved", "planned", "rewritten"}
             /\ Counted("returned", e) <=> "handover" \in within[e] /\ stage[e] \in {"completed", "rewritten"}
  BY DEF Counted, ListingFilter, ClaimFilter, HandoverFilter
<1> QED  BY <1>1, <1>2 DEF Listed, Found, Lost, Claimed, Approved, Returned

\* A publication keeps its parts, and has all of them once it has a handover.
Follows(old, next) == \/ old = "absent" /\ next = "published"
                      \/ old \in DOMAIN After /\ next \in After[old]

LEMMA PartsStay ==
  ASSUME NEW old \in Stages, NEW next, Follows(old, next)
  PROVE  /\ next \in Stages /\ Made(old) \subseteq Made(next)
         /\ Made(next) \subseteq {"listing", "claim", "handover"}
         /\ "handover" \in Made(old) => Made(next) = Made(old)
         /\ old \in {"completed", "rewritten"} => next \in {"completed", "rewritten"} /\ "handover" \in Made(old)
         /\ old \notin {"completed", "rewritten"} => next # "rewritten"
<1>1. CASE old = "absent" /\ next = "published"
  BY <1>1 DEF Made, Stages
<1>2. CASE old \in DOMAIN After /\ next \in After[old]
  <2>1. /\ DOMAIN After = Stages \ {"absent"}
        /\ After["published"] = {"claimed"} /\ After["claimed"] = {"approved"}
        /\ After["approved"] = {"revoked", "planned"} /\ After["revoked"] = {"approved", "withdrawn"}
        /\ After["planned"] = {"withdrawn", "completed"} /\ After["withdrawn"] = {"planned", "completed"}
        /\ After["completed"] = {"rewritten"} /\ After["rewritten"] = {"completed"}
    BY DEF After, Stages
  <2>2. /\ old \in {"published"} => next = "claimed"
        /\ old \in {"claimed", "approved", "revoked"} => next \in Stages \ {"absent", "published", "claimed", "completed", "rewritten"}
        /\ old \in {"planned", "withdrawn"} => next \in {"planned", "withdrawn", "completed"}
        /\ old \in {"completed", "rewritten"} => next \in {"completed", "rewritten"}
    BY <1>2, <2>1 DEF Stages
  <2> QED  BY <1>2, <2>1, <2>2 DEF Made, Stages
<1> QED  BY <1>1, <1>2 DEF Follows

\* What a step of a publication does to its parts and their dates.
Becomes(e, next, parts) ==
  /\ stage' = [stage EXCEPT ![e] = next] /\ within' = [within EXCEPT ![e] = parts]
  /\ within[e] \subseteq parts /\ parts \subseteq Made(next)
  /\ "handover" \in within[e] => parts = within[e]
  /\ stage[e] \in {"completed", "rewritten"} => parts = within[e] /\ next \in {"completed", "rewritten"}
  /\ stage[e] \notin {"completed", "rewritten"} => next # "rewritten"

LEMMA RowComes ==
  ASSUME RowsTypeOK, NEW e \in Entries, Publish(e) \/ Advance(e) \/ Leave(e)
  PROVE  \E next \in Stages, parts \in SUBSET {"listing", "claim", "handover"} : Becomes(e, next, parts)
<1>1. /\ stage[e] \in Stages /\ within[e] \in SUBSET {"listing", "claim", "handover"}
      /\ within[e] \subseteq Made(stage[e])
  BY DEF RowsTypeOK
<1>2. CASE Leave(e)
  <2>1. stage' = [stage EXCEPT ![e] = stage[e]] /\ within' = [within EXCEPT ![e] = within[e]]
    BY <1>2 DEF Leave, RowsTypeOK
  <2>2. Becomes(e, stage[e], within[e])
    BY <1>1, <2>1 DEF Becomes
  <2> QED  BY <1>1, <2>2
<1>3. CASE Publish(e) \/ Advance(e)
  <2>1. PICK next : Follows(stage[e], next) /\ Comes(e, next)
    BY <1>3 DEF Publish, Advance, Follows
  <2> DEFINE new == Made(next) \ Made(stage[e])
  <2>2. PICK parts \in {within[e], within[e] \cup new} : within' = [within EXCEPT ![e] = parts]
    <3>1. CASE UNCHANGED within
      BY <3>1 DEF RowsTypeOK
    <3> QED  BY <2>1, <3>1 DEF Comes
  <2>3. /\ next \in Stages /\ Made(stage[e]) \subseteq Made(next)
        /\ Made(next) \subseteq {"listing", "claim", "handover"}
        /\ "handover" \in Made(stage[e]) => new = {}
        /\ stage[e] \in {"completed", "rewritten"} => next \in {"completed", "rewritten"} /\ new = {}
        /\ stage[e] \notin {"completed", "rewritten"} => next # "rewritten"
    BY <1>1, <2>1, PartsStay
  <2>4. parts \in SUBSET {"listing", "claim", "handover"} /\ Becomes(e, next, parts)
    <3>1. stage' = [stage EXCEPT ![e] = next]
      BY <2>1 DEF Comes
    <3> QED  BY <1>1, <2>2, <2>3, <3>1 DEF Becomes
  <2> QED  BY <2>3, <2>4
<1> QED  BY <1>2, <1>3

\* One row more has begun, has been claimed or has been returned, or none; what
\* excuses a figure is only lost by a rewritten claim that is taken back.
LEMMA RowMoves ==
  ASSUME RowsTypeOK, NEW e \in Entries, Publish(e) \/ Advance(e) \/ Leave(e)
  PROVE  /\ RowsTypeOK' /\ news' = news + 1 /\ report' = report
         /\ ListedRows <= ListedRows' /\ ListedRows' <= ListedRows + 1
         /\ LostRows <= LostRows' /\ LostRows' <= LostRows + 1
         /\ ClaimedRows' <= ClaimedRows + 1
         /\ ReturnedRows' + Excused <= ReturnedRows + Excused' + 1
         /\ Excused <= Excused' + 1
<1>1. PICK next \in Stages, parts \in SUBSET {"listing", "claim", "handover"} : Becomes(e, next, parts)
  BY RowComes
<1>2. news' = news + 1 /\ report' = report
  BY DEF Publish, Advance, Leave, Happens
<1>3. /\ stage'[e] = next /\ within'[e] = parts
      /\ \A d \in Entries : d # e => stage'[d] = stage[d] /\ within'[d] = within[d]
  BY <1>1 DEF Becomes, RowsTypeOK
<1>4. RowsTypeOK'
  <2>1. stage' \in [Entries -> Stages] /\ within' \in [Entries -> SUBSET {"listing", "claim", "handover"}]
    BY <1>1 DEF Becomes, RowsTypeOK
  <2>2. \A d \in Entries : within'[d] \subseteq Made(stage'[d])
    BY <1>1, <1>3 DEF Becomes, RowsTypeOK
  <2> QED  BY <1>2, <2>1, <2>2 DEF RowsTypeOK, Made
<1>5. /\ Listed \subseteq Listed' /\ Listed' \subseteq Listed \cup {e}
      /\ Lost \subseteq Lost' /\ Lost' \subseteq Lost \cup {e}
      /\ Claimed \subseteq Claimed' /\ Claimed' \subseteq Claimed \cup {e}
  BY <1>1, <1>3 DEF Listed, Lost, Claimed, Becomes
<1>6. /\ Returned \subseteq Returned' /\ Returned' \subseteq Returned \cup {e}
      /\ Straddling \subseteq Straddling'
      /\ Rewritten \subseteq Rewritten' \cup {e} /\ Rewritten' \subseteq Rewritten \cup {e}
  BY <1>1, <1>3 DEF Returned, Straddling, Rewritten, Becomes
<1>7. Rewritten \subseteq Rewritten' \/ (Rewritten' \subseteq Rewritten /\ Returned' = Returned)
  BY <1>1, <1>3 DEF Returned, Rewritten, Becomes
<1>8. /\ Listed \subseteq Entries /\ Listed' \subseteq Entries /\ Lost \subseteq Entries /\ Lost' \subseteq Entries
      /\ Claimed \subseteq Entries /\ Claimed' \subseteq Entries /\ Returned \subseteq Entries /\ Returned' \subseteq Entries
      /\ Straddling \subseteq Entries /\ Straddling' \subseteq Entries
      /\ Rewritten \subseteq Entries /\ Rewritten' \subseteq Entries
  BY DEF Listed, Lost, Claimed, Returned, Straddling, Rewritten
<1>9. ListedRows <= ListedRows' /\ ListedRows' <= ListedRows + 1
  BY <1>5, <1>8, OneRowMore DEF ListedRows
<1>10. LostRows <= LostRows' /\ LostRows' <= LostRows + 1
  BY <1>5, <1>8, OneRowMore DEF LostRows
<1>11. ClaimedRows' <= ClaimedRows + 1
  BY <1>5, <1>8, OneRowMore DEF ClaimedRows
<1>12. ReturnedRows' <= ReturnedRows + 1
  BY <1>6, <1>8, OneRowMore DEF ReturnedRows
<1>13. StraddlingRows <= StraddlingRows'
  BY <1>6, <1>8, FewerRows DEF StraddlingRows
<1>14. /\ ReturnedRows \in Nat /\ ReturnedRows' \in Nat /\ StraddlingRows \in Nat /\ StraddlingRows' \in Nat
       /\ RewrittenRows \in Nat /\ RewrittenRows' \in Nat
  BY <1>8, RowsAreFew DEF ReturnedRows, StraddlingRows, RewrittenRows
<1>17. Excused = StraddlingRows + RewrittenRows /\ Excused' = StraddlingRows' + RewrittenRows'
  BY DEF Excused
<1>18. PICK returned \in Nat, straddling \in Nat, rewritten \in Nat, excused \in Nat :
         /\ returned = ReturnedRows' /\ straddling = StraddlingRows' /\ rewritten = RewrittenRows'
         /\ excused = straddling + rewritten
  BY <1>14
<1>19. Excused' = excused
  BY <1>17, <1>18
<1>15. CASE Rewritten \subseteq Rewritten'
  <2>1. RewrittenRows <= RewrittenRows'
    BY <1>8, <1>15, FewerRows DEF RewrittenRows
  <2>2. ReturnedRows' + Excused <= ReturnedRows + Excused' + 1 /\ Excused <= Excused' + 1
    <3>1. /\ returned <= ReturnedRows + 1 /\ StraddlingRows <= straddling /\ RewrittenRows <= rewritten
          /\ ReturnedRows \in Nat /\ StraddlingRows \in Nat /\ RewrittenRows \in Nat
          /\ Excused = StraddlingRows + RewrittenRows
          /\ returned \in Nat /\ straddling \in Nat /\ rewritten \in Nat /\ excused = straddling + rewritten
      BY <1>12, <1>13, <1>14, <1>17, <1>18, <2>1
    <3>2. returned + Excused <= ReturnedRows + excused + 1 /\ Excused <= excused + 1
      BY <3>1
    <3> QED  BY <1>18, <1>19, <3>2
  <2> QED  BY <1>2, <1>4, <1>9, <1>10, <1>11, <2>2
<1>16. CASE Rewritten' \subseteq Rewritten /\ Returned' = Returned
  <2>1. RewrittenRows <= RewrittenRows' + 1
    BY <1>6, <1>8, <1>16, OneRowMore DEF RewrittenRows
  <2>2. ReturnedRows' = ReturnedRows
    BY <1>16 DEF ReturnedRows
  <2>3. ReturnedRows' + Excused <= ReturnedRows + Excused' + 1 /\ Excused <= Excused' + 1
    <3>1. /\ returned = ReturnedRows /\ StraddlingRows <= straddling /\ RewrittenRows <= rewritten + 1
          /\ ReturnedRows \in Nat /\ StraddlingRows \in Nat /\ RewrittenRows \in Nat
          /\ Excused = StraddlingRows + RewrittenRows
          /\ returned \in Nat /\ straddling \in Nat /\ rewritten \in Nat /\ excused = straddling + rewritten
      BY <1>13, <1>14, <1>17, <1>18, <2>1, <2>2
    <3>2. returned + Excused <= ReturnedRows + excused + 1 /\ Excused <= excused + 1
      BY <3>1
    <3> QED  BY <1>18, <1>19, <3>2
  <2> QED  BY <1>2, <1>4, <1>9, <1>10, <1>11, <2>3
<1> QED  BY <1>7, <1>15, <1>16

LEMMA RowMoves_Report ==
  ASSUME ReportInv, NEW e \in Entries, Publish(e) \/ Advance(e) \/ Leave(e)
  PROVE  ReportInv'
<1>1. /\ RowsTypeOK' /\ news \in Nat /\ news' = news + 1 /\ report' = report
      /\ Len(report) \in Nat /\ \A i \in 1..Len(report) : report[i] \in Nat
  BY RowMoves DEF ReportInv, RowsTypeOK
<1>2. /\ ListedRows <= ListedRows' /\ ListedRows' <= ListedRows + 1
      /\ LostRows <= LostRows' /\ LostRows' <= LostRows + 1
      /\ ClaimedRows' <= ClaimedRows + 1
      /\ ReturnedRows' + Excused <= ReturnedRows + Excused' + 1
      /\ Excused <= Excused' + 1
  BY RowMoves DEF ReportInv
<1>3. /\ LostRows' \in Nat /\ ListedRows' \in Nat
      /\ ReturnedRows' \in Nat /\ ClaimedRows' \in Nat
  BY RowsAreFew DEF Lost, Listed, Returned, Claimed, LostRows, ListedRows, ReturnedRows, ClaimedRows
<1>12. PICK returned \in Nat, excused \in Nat, later \in Nat :
         returned = ReturnedRows' /\ excused = Excused' /\ later = news'
  <2>1. StraddlingRows' \in Nat /\ RewrittenRows' \in Nat
    BY RowsAreFew DEF Straddling, Rewritten, StraddlingRows, RewrittenRows
  <2>2. PICK straddling \in Nat, rewritten \in Nat : straddling = StraddlingRows' /\ rewritten = RewrittenRows'
    BY <2>1
  <2>3. Excused' = straddling + rewritten
    BY <2>2 DEF Excused
  <2>4. news + 1 \in Nat
    BY <1>1
  <2> QED  BY <1>1, <1>3, <2>3, <2>4
<1>4. ReportOK
  BY DEF ReportInv
<1>5. Len(report) <= 7 /\ (Len(report) >= 1 => report[1] <= news')
  BY <1>1, <1>4 DEF ReportOK
<1>6. Len(report) = 2 => /\ report[2] <= ListedRows'
                         /\ ListedRows' + report[1] <= report[2] + news'
  BY <1>1, <1>2, <1>3, <1>4, FiguresAgree DEF ReportOK
<1>7. Len(report) = 3 => /\ report[2] <= report[3] + LostRows'
                         /\ report[3] + LostRows' + report[1] <= report[2] + news'
  BY <1>1, <1>2, <1>3, <1>4, FiguresAgree DEF ReportOK
<1>8. Len(report) >= 4 => /\ report[2] <= report[3] + report[4]
                          /\ report[3] + report[4] + report[1] <= report[2] + news'
  <2> SUFFICES ASSUME Len(report) >= 4
               PROVE  /\ report[2] <= report[3] + report[4]
                      /\ report[3] + report[4] + report[1] <= report[2] + news'
    OBVIOUS
  <2>1. report[1] \in Nat /\ report[2] \in Nat /\ report[3] \in Nat /\ report[4] \in Nat
    BY <1>1
  <2>2. report[2] <= report[3] + report[4] /\ report[3] + report[4] + report[1] <= report[2] + news
    BY <1>4 DEF ReportOK
  <2>3. news \in Nat /\ news' = news + 1
    BY <1>1
  <2> QED  BY <2>1, <2>2, <2>3
<1>9. Len(report) = 5 => ClaimedRows' + report[1] <= report[5] + news'
  BY <1>1, <1>2, <1>3, <1>4, FiguresAgree DEF ReportOK
<1>10. Len(report) = 6 => report[6] + ReturnedRows' + report[1] <= report[5] + Excused' + news'
  <2> SUFFICES ASSUME Len(report) = 6
               PROVE  report[6] + ReturnedRows' + report[1] <= report[5] + Excused' + news'
    OBVIOUS
  <2>1. report[1] \in Nat /\ report[5] \in Nat /\ report[6] \in Nat /\ ReturnedRows \in Nat
    BY <1>1, FiguresAgree
  <2>2. report[6] + ReturnedRows + report[1] <= report[5] + Excused + news
    BY <1>4 DEF ReportOK
  <2>3. /\ returned + Excused <= ReturnedRows + excused + 1 /\ news \in Nat /\ later = news + 1 /\ Excused \in Nat
        /\ returned \in Nat /\ excused \in Nat /\ later \in Nat
    BY <1>1, <1>2, <1>12, FiguresAgree
  <2>4. report[6] + returned + report[1] <= report[5] + excused + later
    BY <2>1, <2>2, <2>3
  <2> QED  BY <1>12, <2>4
<1>11. Len(report) = 7 => report[6] + report[7] + report[1] <= report[5] + Excused' + news'
  <2> SUFFICES ASSUME Len(report) = 7
               PROVE  report[6] + report[7] + report[1] <= report[5] + Excused' + news'
    OBVIOUS
  <2>1. report[1] \in Nat /\ report[5] \in Nat /\ report[6] \in Nat /\ report[7] \in Nat
    BY <1>1
  <2>2. report[6] + report[7] + report[1] <= report[5] + Excused + news
    BY <1>4 DEF ReportOK
  <2>3. /\ Excused <= excused + 1 /\ news \in Nat /\ later = news + 1 /\ Excused \in Nat
        /\ returned \in Nat /\ excused \in Nat /\ later \in Nat
    BY <1>1, <1>2, <1>12, FiguresAgree
  <2>4. report[6] + report[7] + report[1] <= report[5] + excused + later
    BY <2>1, <2>2, <2>3
  <2> QED  BY <1>12, <2>4
<1> QED  BY <1>1, <1>5, <1>6, <1>7, <1>8, <1>9, <1>10, <1>11 DEF ReportInv, ReportOK

LEMMA BeginReport_Report ==
  ASSUME ReportInv, BeginReport
  PROVE  ReportInv'
<1>1. news \in Nat /\ report' = <<news>> /\ UNCHANGED <<stage, within, news>>
  BY DEF ReportInv, RowsTypeOK, BeginReport
<1>2. RowsTypeOK'
  BY <1>1 DEF ReportInv, RowsTypeOK
<1>3. Len(report') = 1 /\ report'[1] = news
  BY <1>1
<1> QED  BY <1>1, <1>2, <1>3 DEF ReportInv, ReportOK

\* The next figure: what bounded it before it was counted bounds it for good.
LEMMA CountFigure_Report ==
  ASSUME ReportInv, CountFigure
  PROVE  ReportInv'
<1> DEFINE n == Len(report)
<1>1. /\ n \in 1..6 /\ report \in Seq(Nat) /\ news \in Nat /\ UNCHANGED <<stage, within, news>>
      /\ report' = Append(report, Cardinality({e \in Entries : Counted(Figures[n], e)}))
  BY FiguresCount DEF ReportInv, RowsTypeOK, CountFigure
<1>2. PICK figure : figure = Cardinality({e \in Entries : Counted(Figures[n], e)})
  OBVIOUS
<1>3. /\ n = 1 => figure = ListedRows
      /\ n = 2 => figure = FoundRows
      /\ n = 3 => figure = LostRows
      /\ n = 4 => figure = ClaimedRows
      /\ n = 5 => figure = ApprovedRows
      /\ n = 6 => figure = ReturnedRows
  BY <1>1, <1>2, FiguresCount DEF ListedRows, FoundRows, LostRows, ClaimedRows, ApprovedRows, ReturnedRows
<1>4. figure \in Nat
  BY <1>2, RowsAreFew
<1>5. /\ report' = Append(report, figure) /\ Len(report') = n + 1 /\ report'[n + 1] = figure
      /\ \A i \in 1..n : report'[i] = report[i] /\ report[i] \in Nat
  BY <1>1, <1>2, <1>4
<1>6. RowsTypeOK'
  BY <1>1, <1>4, <1>5 DEF ReportInv, RowsTypeOK
<1>7. /\ ListedRows' = ListedRows /\ LostRows' = LostRows
      /\ ClaimedRows' = ClaimedRows /\ ReturnedRows' = ReturnedRows /\ Excused' = Excused
  <2>1. /\ Listed' = Listed /\ Lost' = Lost /\ Claimed' = Claimed /\ Returned' = Returned
        /\ Straddling' = Straddling /\ Rewritten' = Rewritten
    BY <1>1 DEF Listed, Lost, Claimed, Returned, Straddling, Rewritten
  <2> QED  BY <2>1 DEF ListedRows, LostRows, ClaimedRows, ReturnedRows, StraddlingRows, RewrittenRows, Excused
<1>8. ReportOK
  BY DEF ReportInv
<1> HIDE DEF n
<1>9. CASE n = 1
  BY <1>1, <1>3, <1>5, <1>6, <1>7, <1>8, <1>9, FiguresAgree DEF ReportInv, ReportOK, n
<1>10. CASE n = 2
  <2>1. /\ Len(report') = 3 /\ report'[3] = figure
        /\ report'[1] = report[1] /\ report'[2] = report[2]
        /\ report[1] \in Nat /\ report[2] \in Nat
    BY <1>5, <1>10
  <2>2. /\ report[1] <= news
        /\ report[2] <= figure + LostRows
        /\ figure + LostRows + report[1] <= report[2] + news
    BY <1>1, <1>3, <1>8, <1>10, <2>1, FiguresAgree DEF ReportOK, n
  <2> QED  BY <1>1, <1>6, <1>7, <2>1, <2>2 DEF ReportInv, ReportOK
<1>11. CASE n = 3
  <2>1. /\ Len(report') = 4 /\ report'[4] = figure
        /\ report'[1] = report[1] /\ report'[2] = report[2] /\ report'[3] = report[3]
        /\ report[1] \in Nat /\ report[2] \in Nat /\ report[3] \in Nat
    BY <1>5, <1>11
  <2>2. /\ report[1] <= news
        /\ report[2] <= report[3] + figure
        /\ report[3] + figure + report[1] <= report[2] + news
    BY <1>1, <1>3, <1>8, <1>11, <2>1, FiguresAgree DEF ReportOK, n
  <2> QED  BY <1>1, <1>6, <1>7, <2>1, <2>2 DEF ReportInv, ReportOK
<1>12. CASE n = 4
  <2>1. /\ Len(report') = 5 /\ report'[5] = figure
        /\ report'[1] = report[1] /\ report'[2] = report[2] /\ report'[3] = report[3] /\ report'[4] = report[4]
        /\ report[1] \in Nat /\ report[2] \in Nat /\ report[3] \in Nat /\ report[4] \in Nat
    BY <1>5, <1>12
  <2>2. /\ report[1] <= news
        /\ report[2] <= report[3] + report[4]
        /\ report[3] + report[4] + report[1] <= report[2] + news
        /\ ClaimedRows + report[1] <= figure + news
    <3>1. /\ report[1] <= news /\ report[2] <= report[3] + report[4]
          /\ report[3] + report[4] + report[1] <= report[2] + news
      BY <1>8, <1>12 DEF ReportOK, n
    <3>2. figure = ClaimedRows /\ ClaimedRows \in Nat
      BY <1>3, <1>12, FiguresAgree
    <3> QED  BY <1>1, <2>1, <3>1, <3>2
  <2>3. Len(report') <= 7 /\ report'[1] <= news'
    BY <1>1, <2>1, <2>2
  <2>4. report'[2] <= report'[3] + report'[4] /\ report'[3] + report'[4] + report'[1] <= report'[2] + news'
    BY <1>1, <2>1, <2>2
  <2>5. ClaimedRows' + report'[1] <= report'[5] + news'
    BY <1>1, <1>7, <2>1, <2>2
  <2> QED  BY <1>6, <2>1, <2>3, <2>4, <2>5 DEF ReportInv, ReportOK
<1>13. CASE n = 5
  <2>1. /\ Len(report') = 6 /\ report'[6] = figure
        /\ report'[1] = report[1] /\ report'[2] = report[2] /\ report'[3] = report[3] /\ report'[4] = report[4] /\ report'[5] = report[5]
        /\ report[1] \in Nat /\ report[2] \in Nat /\ report[3] \in Nat /\ report[4] \in Nat /\ report[5] \in Nat
    BY <1>5, <1>13
  <2>2. /\ report[1] <= news
        /\ report[2] <= report[3] + report[4]
        /\ report[3] + report[4] + report[1] <= report[2] + news
        /\ figure + ReturnedRows + report[1] <= report[5] + Excused + news
    <3>1. /\ ClaimedRows + report[1] <= report[5] + news /\ report[1] <= news
          /\ report[2] <= report[3] + report[4] /\ report[3] + report[4] + report[1] <= report[2] + news
      BY <1>8, <1>13 DEF ReportOK, n
    <3>2. figure = ApprovedRows
      BY <1>3, <1>13
    <3>3. /\ ApprovedRows \in Nat /\ ReturnedRows \in Nat /\ ClaimedRows \in Nat
          /\ ApprovedRows + ReturnedRows <= ClaimedRows + Excused /\ Excused \in Nat
      BY FiguresAgree
    <3>4. figure + ReturnedRows + report[1] <= report[5] + Excused + news
      <4>1. news \in Nat /\ report[1] \in Nat /\ report[5] \in Nat
        BY <1>1, <2>1
      <4>2. ClaimedRows + report[1] <= report[5] + news
        BY <3>1
      <4> QED  BY <3>2, <3>3, <4>1, <4>2
    <3> QED  BY <3>1, <3>4
  <2>3. Len(report') <= 7 /\ report'[1] <= news'
    BY <1>1, <2>1, <2>2
  <2>4. report'[2] <= report'[3] + report'[4] /\ report'[3] + report'[4] + report'[1] <= report'[2] + news'
    BY <1>1, <2>1, <2>2
  <2>5. report'[6] + ReturnedRows' + report'[1] <= report'[5] + Excused' + news'
    BY <1>1, <1>7, <2>1, <2>2
  <2> QED  BY <1>6, <2>1, <2>3, <2>4, <2>5 DEF ReportInv, ReportOK
<1>14. CASE n = 6
  <2>1. /\ Len(report') = 7 /\ report'[7] = figure
        /\ report'[1] = report[1] /\ report'[2] = report[2] /\ report'[3] = report[3] /\ report'[4] = report[4] /\ report'[5] = report[5] /\ report'[6] = report[6]
        /\ report[1] \in Nat /\ report[2] \in Nat /\ report[3] \in Nat /\ report[4] \in Nat /\ report[5] \in Nat /\ report[6] \in Nat
    BY <1>5, <1>14
  <2>2. /\ report[1] <= news
        /\ report[2] <= report[3] + report[4]
        /\ report[3] + report[4] + report[1] <= report[2] + news
        /\ report[6] + figure + report[1] <= report[5] + Excused + news
    BY <1>1, <1>3, <1>8, <1>14, <2>1, FiguresAgree DEF ReportOK, n
  <2>3. Len(report') <= 7 /\ report'[1] <= news'
    BY <1>1, <2>1, <2>2
  <2>4. report'[2] <= report'[3] + report'[4] /\ report'[3] + report'[4] + report'[1] <= report'[2] + news'
    BY <1>1, <2>1, <2>2
  <2>5. report'[6] + report'[7] + report'[1] <= report'[5] + Excused' + news'
    BY <1>1, <1>7, <2>1, <2>2
  <2> QED  BY <1>6, <2>1, <2>3, <2>4, <2>5 DEF ReportInv, ReportOK
<1> QED  BY <1>1, <1>9, <1>10, <1>11, <1>12, <1>13, <1>14


LEMMA ReportFigures ==
  ASSUME report \in Seq(Nat)
  PROVE  Len(report) \in Nat /\ \A i \in 1..Len(report) : report[i] \in Nat
OBVIOUS

\* For any number of publications, and of changes while an overview is counted
\* figure by figure, its figures agree up to those changes.
THEOREM FiguresAreExplained == ConsoleSpec => []OverviewExplained
<1>1. ConsoleInit => ReportInv
  <2> SUFFICES ASSUME ConsoleInit PROVE ReportInv
    OBVIOUS
  <2>1. RowsTypeOK /\ Len(report) = 0
    BY RowsAssumption DEF ConsoleInit, RowsTypeOK, Stages
  <2> QED  BY <2>1 DEF ReportInv, ReportOK
<1>2. ReportInv /\ [RowsChange \/ Scans \/ Counts]_consoleVars => ReportInv'
  <2> SUFFICES ASSUME ReportInv, [RowsChange \/ Scans \/ Counts]_consoleVars PROVE ReportInv'
    OBVIOUS
  <2>1. ASSUME UNCHANGED <<stage, within, report, news>> PROVE ReportInv'
    <3>1. /\ UNCHANGED ListedRows /\ UNCHANGED LostRows
          /\ UNCHANGED ClaimedRows /\ UNCHANGED ReturnedRows /\ UNCHANGED Excused
      BY <2>1 DEF ListedRows, LostRows, ClaimedRows, ReturnedRows, Listed, Lost, Claimed, Returned,
                  Excused, StraddlingRows, RewrittenRows, Straddling, Rewritten
    <3> QED  BY <2>1, <3>1 DEF ReportInv, RowsTypeOK, ReportOK
  <2>2. CASE Scans \/ UNCHANGED consoleVars
    BY <2>1, <2>2 DEF Scans, BeginScan, CountRows, ReadRows, consoleVars
  <2>3. CASE RowsChange
    BY <2>3, RowMoves_Report DEF RowsChange
  <2>4. CASE Counts
    BY <2>4, BeginReport_Report, CountFigure_Report DEF Counts
  <2> QED  BY <2>2, <2>3, <2>4
<1>3. ReportInv => OverviewExplained
  <2> SUFFICES ASSUME ReportInv, Len(report) = 7
               PROVE  LET meanwhile == news - report[1]
                          listings == report[2]   kinds == report[3] + report[4]
                          claims == report[5]     decided == report[6] + report[7]
                      IN /\ kinds >= listings /\ kinds <= listings + meanwhile
                         /\ decided <= claims + StraddlingRows + RewrittenRows + meanwhile
    BY FiguresCount DEF OverviewExplained, StraddlingRows, RewrittenRows
  <2>1. news \in Nat
    BY DEF ReportInv, RowsTypeOK
  <2>3. /\ report[1] \in Nat /\ report[2] \in Nat /\ report[3] \in Nat /\ report[4] \in Nat
        /\ report[5] \in Nat /\ report[6] \in Nat /\ report[7] \in Nat
    BY ReportFigures DEF ReportInv, RowsTypeOK
  <2>2. /\ report[1] <= news /\ report[2] <= report[3] + report[4]
        /\ report[3] + report[4] + report[1] <= report[2] + news
        /\ report[6] + report[7] + report[1] <= report[5] + Excused + news
    <3>1. ReportOK /\ Len(report) >= 1 /\ Len(report) >= 4
      BY DEF ReportInv
    <3>2. /\ report[1] <= news /\ report[2] <= report[3] + report[4]
          /\ report[3] + report[4] + report[1] <= report[2] + news
      BY <3>1 DEF ReportOK
    <3>3. report[6] + report[7] + report[1] <= report[5] + Excused + news
      BY <3>1 DEF ReportOK
    <3> QED  BY <3>2, <3>3
  <2>4. report[3] + report[4] <= report[2] + (news - report[1])
    BY <2>1, <2>2, <2>3
  <2>5. report[6] + report[7] <= report[5] + StraddlingRows + RewrittenRows + (news - report[1])
    BY <2>1, <2>2, <2>3, FiguresAgree DEF Excused
  <2> QED  BY <2>2, <2>3, <2>4, <2>5
<1> QED  BY <1>1, <1>2, <1>3, PTL DEF ConsoleSpec

-----------------------------------------------------------------------------
(* A scan.  A steady row that has not been read still has at least as many *)
(* rows ahead of it as have been skipped, unless it was disturbed.         *)

Scanned == [phase : {"count", "rows", "done"}, order : {"created", "updated", "score"}, mutable : BOOLEAN,
            offset : Nat, total : Nat, seen : SUBSET Entries, steady : SUBSET Entries, moved : SUBSET Entries,
            slipped : BOOLEAN, late : BOOLEAN]

ScanTypeOK ==
  /\ fits \subseteq Entries /\ news \in Nat
  /\ rank \in [Entries -> Nat] /\ \A e \in Entries : rank[e] <= news
  /\ scan = NoScan \/ scan \in Scanned

Undisturbed(e) ==
  /\ ~scan.slipped
  /\ scan.order = "updated" => e \notin scan.moved
  /\ scan.order = "score" => scan.moved = {}

SteadyAhead ==
  Scanning =>
    /\ ~scan.slipped => scan.steady \subseteq fits
    /\ \A e \in scan.steady \ scan.seen : Undisturbed(e) => scan.offset <= Cardinality(Ahead(scan.order, e))
    /\ scan.phase = "rows" /\ ~scan.slipped /\ ~scan.late => scan.total = Cardinality(fits)

ScanInv == ScanTypeOK /\ SteadyAhead /\ ScanExplained

LEMMA ScanIsScanned ==
  ASSUME ScanTypeOK, Scanning
  PROVE  scan \in Scanned
BY DEF ScanTypeOK, Scanning, NoScan

\* What a change does to the scan.
LEMMA HappensToScan ==
  ASSUME ScanTypeOK, Scanning, NEW coming, NEW leaving, NEW changed,
         Happens(coming, leaving, changed), changed \subseteq Entries
  PROVE  /\ scan' \in Scanned /\ Scanning'
         /\ scan'.phase = scan.phase /\ scan'.order = scan.order /\ scan'.offset = scan.offset
         /\ scan'.total = scan.total /\ scan'.seen = scan.seen
         /\ scan'.steady = scan.steady \ leaving /\ scan'.moved = scan.moved \cup changed
         /\ scan'.slipped <=> scan.slipped \/ leaving # {}
         /\ scan'.late <=> scan.late \/ (scan.phase = "rows" /\ coming # {})
<1>1. scan \in Scanned
  BY ScanIsScanned
<1>2. PICK slipped \in BOOLEAN, late \in BOOLEAN :
        /\ slipped <=> scan.slipped \/ leaving # {}
        /\ late <=> scan.late \/ (scan.phase = "rows" /\ coming # {})
  OBVIOUS
<1>3. scan' = [scan EXCEPT !.steady = @ \ leaving, !.moved = @ \cup changed, !.slipped = @ \/ leaving # {},
                           !.late = @ \/ (scan.phase = "rows" /\ coming # {})]
  BY DEF Happens
<1>4. scan' = [scan EXCEPT !.steady = @ \ leaving, !.moved = @ \cup changed, !.slipped = slipped, !.late = late]
  BY <1>1, <1>2, <1>3 DEF Scanned
<1> QED  BY <1>1, <1>2, <1>4 DEF Scanned, Scanning

\* No row that was ahead of an undisturbed one falls behind it.
LEMMA StillAhead ==
  ASSUME ScanTypeOK, Scanning, NEW coming, NEW changed, Happens(coming, {}, changed),
         NEW order \in {"created", "updated", "score"}, order = scan.order, NEW e \in Entries,
         order = "updated" => e \notin changed,
         order = "score" => changed \cap Entries = {}
  PROVE  Ahead(order, e) \subseteq Ahead(order, e)'
<1>1. PICK place \in {news + 1} \cup (IF order = "score" THEN {0} ELSE {}) :
        rank' = [d \in Entries |-> IF d \in changed THEN place ELSE rank[d]]
  BY DEF Happens
<1>2. fits' = fits \cup coming /\ fits \subseteq Entries
  BY DEF Happens, ScanTypeOK
<1>3. news \in Nat /\ \A d \in Entries : rank[d] \in Nat /\ rank[d] <= news
  BY DEF ScanTypeOK
<1>4. \A d \in Entries : rank'[d] = IF d \in changed THEN place ELSE rank[d]
  BY <1>1
<1>5. ASSUME NEW d \in Entries, Precedes(order, d, e)
      PROVE  Precedes(order, d, e)'
  <2>1. CASE order = "created"
    BY <1>5, <2>1 DEF Precedes, SortKey
  <2>2. CASE order = "updated"
    <3>1. rank'[e] = rank[e] /\ rank[e] <= news /\ rank[e] \in Nat
      BY <1>3, <1>4, <2>2
    <3>2. (rank[d] > rank[e] \/ (rank[d] = rank[e] /\ d > e)) /\ rank[d] \in Nat
      BY <1>3, <1>5, <2>2 DEF Precedes, SortKey
    <3>3. rank'[d] = rank[d] \/ rank'[d] = news + 1
      BY <1>1, <1>4, <2>2
    <3>4. rank'[d] > rank'[e] \/ (rank'[d] = rank'[e] /\ d > e)
      BY <1>3, <3>1, <3>2, <3>3
    <3> QED  BY <2>2, <3>4 DEF Precedes, SortKey
  <2>3. CASE order = "score"
    <3>1. rank'[d] = rank[d] /\ rank'[e] = rank[e]
      BY <1>4, <2>3
    <3> QED  BY <1>5, <2>3, <3>1 DEF Precedes, SortKey
  <2> QED  BY <2>1, <2>2, <2>3
<1> QED  BY <1>2, <1>5 DEF Ahead

LEMMA Happens_ScanInv ==
  ASSUME ScanInv, NEW coming \in SUBSET Entries, NEW leaving \in SUBSET Entries, NEW changed \in SUBSET Entries,
         Happens(coming, leaving, changed)
  PROVE  ScanInv'
<1>1. ScanTypeOK /\ news \in Nat /\ news' = news + 1 /\ fits' = (fits \ leaving) \cup coming
  BY DEF ScanInv, ScanTypeOK, Happens
<1>2. scan' = NoScan \/ scan' \in Scanned
  BY <1>1, HappensToScan DEF Happens, ScanTypeOK
<1>3. rank' \in [Entries -> Nat] /\ \A e \in Entries : rank'[e] <= news'
  <2>1. PICK place \in {news + 1, 0} : rank' = [d \in Entries |-> IF d \in changed THEN place ELSE rank[d]]
    BY DEF Happens
  <2>2. \A e \in Entries : rank[e] \in Nat /\ rank[e] <= news
    BY <1>1 DEF ScanTypeOK
  <2> QED  BY <1>1, <2>1, <2>2
<1>4. ScanTypeOK'
  BY <1>1, <1>2, <1>3 DEF ScanTypeOK
<1>5. CASE ~Scanning
  <2>1. scan' = scan /\ ~Scanning'
    BY <1>5 DEF Happens, Scanning
  <2> QED  BY <1>4, <2>1 DEF ScanInv, SteadyAhead, ScanExplained
<1>6. CASE Scanning
  <2>1. /\ scan' \in Scanned /\ Scanning'
        /\ scan'.phase = scan.phase /\ scan'.order = scan.order /\ scan'.offset = scan.offset
        /\ scan'.total = scan.total /\ scan'.seen = scan.seen
        /\ scan'.steady = scan.steady \ leaving /\ scan'.moved = scan.moved \cup changed
    BY <1>1, <1>6, HappensToScan
  <2>2. /\ ~scan'.slipped => ~scan.slipped /\ leaving = {}
        /\ ~scan'.late => ~scan.late /\ (scan.phase = "rows" => coming = {})
    BY <1>1, <1>6, HappensToScan
  <2>3. scan \in Scanned
    BY <1>1, <1>6, ScanIsScanned
  <2>4. ~scan'.slipped => scan'.steady \subseteq fits'
    BY <1>1, <1>6, <2>1, <2>2 DEF ScanInv, SteadyAhead
  <2>5. ASSUME NEW e \in scan'.steady \ scan'.seen, Undisturbed(e)'
        PROVE  scan'.offset <= Cardinality(Ahead(scan.order, e)')
    <3>1. Undisturbed(e) /\ leaving = {} /\ e \in scan.steady \ scan.seen /\ e \in Entries
      BY <2>1, <2>2, <2>3, <2>5 DEF Undisturbed, Scanned
    <3>2. (scan.order = "updated" => e \notin changed) /\ (scan.order = "score" => changed = {})
      BY <2>1, <2>5 DEF Undisturbed
    <3>3. PICK order \in {"created", "updated", "score"} : order = scan.order
      BY <2>3 DEF Scanned
    <3>4. Ahead(order, e) \subseteq Ahead(order, e)'
      BY <1>1, <1>6, <3>1, <3>2, <3>3, StillAhead
    <3>5. Ahead(order, e)' \subseteq Entries /\ Ahead(order, e) \subseteq Entries
      BY <1>1, <1>4 DEF Ahead, ScanTypeOK
    <3>6. Cardinality(Ahead(order, e)) <= Cardinality(Ahead(order, e)')
      BY <3>4, <3>5, FewerRows
    <3>7. Cardinality(Ahead(order, e)) \in Nat /\ Cardinality(Ahead(order, e)') \in Nat /\ scan.offset \in Nat
      BY <2>3, <3>5, RowsAreFew DEF Scanned
    <3>8. scan.offset <= Cardinality(Ahead(order, e))
      BY <1>6, <3>1, <3>3 DEF ScanInv, SteadyAhead
    <3> QED  BY <2>1, <3>3, <3>6, <3>7, <3>8
  <2>6. scan'.phase = "rows" /\ ~scan'.slipped /\ ~scan'.late => scan'.total = Cardinality(fits')
    <3>1. ASSUME scan'.phase = "rows", ~scan'.slipped, ~scan'.late
          PROVE  fits' = fits /\ scan.total = Cardinality(fits)
      BY <1>1, <1>6, <2>1, <2>2, <3>1 DEF ScanInv, SteadyAhead
    <3> QED  BY <2>1, <3>1
  <2>7. scan'.phase # "done"
    BY <1>6, <2>1 DEF Scanning
  <2> QED  BY <1>4, <2>1, <2>4, <2>5, <2>6, <2>7 DEF ScanInv, SteadyAhead, ScanExplained
<1> QED  BY <1>5, <1>6


LEMMA BeginScan_ScanInv ==
  ASSUME ScanInv, NEW register \in Registers, NEW filter, NEW who, BeginScan(register, filter, who)
  PROVE  ScanInv'
<1>1. register.order \in {"created", "updated", "score"}
  BY DEF Registers, Register, UsersRegister, OrganizationsRegister, ListingsRegister, ClaimsRegister,
         MatchesRegister, HandoversRegister, AuditRegister, TicketsRegister
<1>2. PICK mutable \in BOOLEAN : mutable <=> filter \in Mutable
  OBVIOUS
<1>3. /\ scan' = [phase |-> "count", order |-> register.order, mutable |-> mutable, offset |-> 0, total |-> 0,
                  seen |-> {}, steady |-> fits, moved |-> {}, slipped |-> FALSE, late |-> FALSE]
      /\ UNCHANGED <<stage, within, fits, rank, report, news>>
  BY <1>2 DEF BeginScan
<1>4. ScanTypeOK'
  BY <1>1, <1>3 DEF ScanInv, ScanTypeOK, Scanned
<1>5. /\ scan'.phase = "count" /\ scan'.offset = 0 /\ scan'.steady = fits' /\ scan'.order = register.order
  BY <1>3
<1>6. \A e : 0 <= Cardinality(Ahead(register.order, e)')
  <2>1. \A e : Ahead(register.order, e)' \subseteq Entries
    BY <1>4 DEF Ahead, ScanTypeOK
  <2> QED  BY <2>1, RowsAreFew
<1>7. ScanExplained'
  BY <1>5 DEF ScanExplained
<1>8. SteadyAhead'
  BY <1>5, <1>6 DEF SteadyAhead, Ahead
<1> QED  BY <1>4, <1>7, <1>8 DEF ScanInv

LEMMA CountRows_ScanInv ==
  ASSUME ScanInv, CountRows
  PROVE  ScanInv'
<1>1. /\ ScanTypeOK /\ Scanning /\ scan.phase = "count" /\ UNCHANGED <<stage, within, fits, rank, report, news>>
      /\ scan' = [scan EXCEPT !.phase = "rows", !.total = Cardinality(fits)]
  BY DEF CountRows, Scanning, ScanInv
<1>2. scan \in Scanned
  BY <1>1, ScanIsScanned
<1>3. Cardinality(fits) \in Nat
  BY <1>1, RowsAreFew DEF ScanTypeOK
<1>4. /\ scan' \in Scanned /\ scan'.phase = "rows" /\ scan'.total = Cardinality(fits)
      /\ scan'.order = scan.order /\ scan'.offset = scan.offset /\ scan'.seen = scan.seen
      /\ scan'.steady = scan.steady /\ scan'.moved = scan.moved /\ scan'.slipped = scan.slipped
  BY <1>1, <1>2, <1>3 DEF Scanned
<1>5. ScanTypeOK' /\ ScanExplained'
  BY <1>1, <1>4 DEF ScanTypeOK, ScanExplained
<1>6. \A order, e : Ahead(order, e)' = {d \in fits : Precedes(order, d, e)}
  BY <1>1 DEF Ahead, Precedes, SortKey
<1>7. SteadyAhead'
  <2>1. scan'.steady \subseteq fits' \/ scan'.slipped
    BY <1>1, <1>4 DEF ScanInv, SteadyAhead
  <2>2. ASSUME NEW e \in scan'.steady \ scan'.seen, Undisturbed(e)'
        PROVE  scan'.offset <= Cardinality({d \in fits : Precedes(scan.order, d, e)})
    <3>1. Undisturbed(e) /\ e \in scan.steady \ scan.seen
      BY <1>4, <2>2 DEF Undisturbed
    <3> QED  BY <1>1, <1>4, <3>1 DEF ScanInv, SteadyAhead, Ahead
  <2>3. \A e : Ahead(scan.order, e)' = {d \in fits : Precedes(scan.order, d, e)}
    BY <1>1, <1>4 DEF Ahead, Precedes, SortKey
  <2> QED  BY <1>1, <1>4, <2>1, <2>2, <2>3 DEF SteadyAhead
<1> QED  BY <1>5, <1>7 DEF ScanInv

\* A page takes the rows that have too few ahead of them to be on the next one;
\* on the last page no row can have more.
LEMMA ReadRows_ScanInv ==
  ASSUME ScanInv, ReadRows
  PROVE  ScanInv'
<1>1. /\ ScanTypeOK /\ Scanning /\ scan.phase = "rows" /\ UNCHANGED <<stage, within, fits, rank, report, news>>
  BY DEF ReadRows, Scanning, ScanInv
<1>2. scan \in Scanned /\ fits \subseteq Entries /\ PageLimit \in Nat \ {0} /\ scan.offset \in Nat /\ scan.total \in Nat
  BY <1>1, ScanIsScanned, RowsAssumption DEF ScanTypeOK, Scanned
<1>3. PICK order \in {"created", "updated", "score"} : order = scan.order
  BY <1>2 DEF Scanned
<1>4. PICK phase \in {"count", "done"} : /\ phase = IF More(scan.total, scan.offset) THEN "count" ELSE "done"
  OBVIOUS
<1>5. Page(order, scan.offset) \subseteq Entries
  BY <1>2 DEF Page
<1>6. scan' = [scan EXCEPT !.seen = @ \cup Page(order, scan.offset), !.offset = @ + PageLimit, !.phase = phase]
  BY <1>3, <1>4 DEF ReadRows
<1>7. /\ scan' \in Scanned /\ scan'.phase = phase /\ scan'.seen = scan.seen \cup Page(order, scan.offset)
      /\ scan'.offset = scan.offset + PageLimit /\ scan'.order = order
      /\ scan'.steady = scan.steady /\ scan'.moved = scan.moved
      /\ scan'.slipped = scan.slipped /\ scan'.late = scan.late
  <2>1. scan.offset + PageLimit \in Nat /\ scan.seen \cup Page(order, scan.offset) \in SUBSET Entries
    BY <1>2, <1>5 DEF Scanned
  <2>2. PICK offset \in Nat, seen \in SUBSET Entries :
          offset = scan.offset + PageLimit /\ seen = scan.seen \cup Page(order, scan.offset)
    BY <2>1
  <2>3. scan' = [scan EXCEPT !.seen = seen, !.offset = offset, !.phase = phase]
    BY <1>2, <1>6, <2>2 DEF Scanned
  <2>4. scan' \in Scanned
    BY <1>2, <2>3 DEF Scanned
  <2>5. /\ scan'.phase = phase /\ scan'.seen = seen /\ scan'.offset = offset /\ scan'.order = scan.order
        /\ scan'.steady = scan.steady /\ scan'.moved = scan.moved
        /\ scan'.slipped = scan.slipped /\ scan'.late = scan.late
    BY <1>2, <2>3 DEF Scanned
  <2> QED  BY <1>3, <2>2, <2>4, <2>5
<1>8. ScanTypeOK'
  BY <1>1, <1>7 DEF ScanTypeOK
<1>9. ASSUME NEW e \in scan'.steady \ scan'.seen, Undisturbed(e)'
      PROVE  scan.offset + PageLimit <= Cardinality(Ahead(order, e)) /\ e \in fits /\ Undisturbed(e)
  <2>1. Undisturbed(e) /\ e \in scan.steady \ scan.seen /\ e \notin Page(order, scan.offset) /\ ~scan.slipped
    BY <1>3, <1>7, <1>9 DEF Undisturbed
  <2>2. e \in fits /\ scan.offset <= Cardinality(Ahead(order, e))
    BY <1>1, <1>3, <2>1 DEF ScanInv, SteadyAhead
  <2>3. Cardinality(Ahead(order, e)) \in Nat
    BY <1>2, RowsAreFew DEF Ahead
  <2>4. ~(Cardinality(Ahead(order, e)) < scan.offset + PageLimit)
    BY <2>1, <2>2 DEF Page
  <2> QED  BY <1>2, <2>1, <2>2, <2>3, <2>4
<1>10. \A e : Ahead(order, e)' = Ahead(order, e)
  BY <1>1 DEF Ahead, Precedes, SortKey
<1>11. SteadyAhead'
  <2>1. ~scan'.slipped => scan'.steady \subseteq fits'
    BY <1>1, <1>7 DEF ScanInv, SteadyAhead
  <2>2. \A e : Ahead(scan.order, e)' = Ahead(order, e)
    BY <1>1, <1>7 DEF Ahead, Precedes, SortKey
  <2> QED  BY <1>7, <1>9, <2>1, <2>2 DEF SteadyAhead
<1>12. ScanExplained'
  <2> SUFFICES ASSUME scan'.phase = "done", NEW e \in scan'.steady \ scan'.seen, ~scan'.slipped, ~scan'.late,
                      ~(scan'.order = "updated" /\ e \in scan'.moved), ~(scan'.order = "score" /\ scan'.moved # {})
               PROVE  FALSE
    BY DEF ScanExplained
  <2>1. Undisturbed(e)'
    BY DEF Undisturbed
  <2>2. scan.offset + PageLimit <= Cardinality(Ahead(order, e)) /\ e \in fits
    BY <1>9, <2>1
  <2>3. scan.total = Cardinality(fits)
    BY <1>1, <1>7 DEF ScanInv, SteadyAhead
  <2>4. ~(scan.offset + PageLimit < scan.total)
    BY <1>4, <1>7 DEF More
  <2>5. Cardinality(Ahead(order, e)) \in Nat /\ Cardinality(Ahead(order, e)) <= Cardinality(fits) - 1
    <3>1. e \in Entries /\ e \in Nat /\ SortKey(order, e) \in Nat
      BY <1>1, <1>2, <2>2, RowsAssumption DEF SortKey, ScanTypeOK
    <3>2. e \notin Ahead(order, e)
      BY <3>1 DEF Ahead, Precedes
    <3>3. Ahead(order, e) \subseteq fits \ {e} /\ IsFiniteSet(fits) /\ Cardinality(fits) \in Nat
      BY <1>2, <3>2, RowsAreFew DEF Ahead
    <3>4. IsFiniteSet(fits \ {e}) /\ Cardinality(fits \ {e}) = Cardinality(fits) - 1
      BY <2>2, <3>3, FS_RemoveElement
    <3>5. Cardinality(Ahead(order, e)) <= Cardinality(fits \ {e})
      BY <3>3, <3>4, FS_Subset
    <3>6. Cardinality(Ahead(order, e)) \in Nat
      BY <1>2, RowsAreFew DEF Ahead
    <3> QED  BY <3>4, <3>5, <3>6
  <2> QED  BY <1>2, <2>2, <2>3, <2>4, <2>5
<1> QED  BY <1>8, <1>11, <1>12 DEF ScanInv

\* For any register, page size and number of changes between its SELECTs, a scan
\* leaves out a row that was there throughout only for the reasons named.
THEOREM ScansAreExplained == ConsoleSpec => []ScanExplained
<1>1. ConsoleInit => ScanInv
  BY RowsAssumption DEF ConsoleInit, ScanInv, ScanTypeOK, SteadyAhead, ScanExplained, Scanning, NoScan
<1>2. ScanInv /\ [RowsChange \/ Scans \/ Counts]_consoleVars => ScanInv'
  <2> SUFFICES ASSUME ScanInv, [RowsChange \/ Scans \/ Counts]_consoleVars PROVE ScanInv'
    OBVIOUS
  <2>1. ASSUME UNCHANGED <<fits, rank, scan, news>> PROVE ScanInv'
    BY <2>1 DEF ScanInv, ScanTypeOK, SteadyAhead, ScanExplained, Scanning, Undisturbed, Ahead, Precedes, SortKey
  <2>2. CASE Counts \/ UNCHANGED consoleVars
    BY <2>1, <2>2 DEF Counts, BeginReport, CountFigure, consoleVars
  <2>3. CASE RowsChange
    <3>1. PICK e \in Entries : Happens({e}, {}, {e}) \/ Happens({}, {}, {e}) \/ Happens({}, {e}, {e})
      BY <2>3 DEF RowsChange, Publish, Advance, Leave
    <3> QED  BY <3>1, Happens_ScanInv
  <2>4. CASE Scans
    BY <2>4, BeginScan_ScanInv, CountRows_ScanInv, ReadRows_ScanInv DEF Scans
  <2> QED  BY <2>2, <2>3, <2>4
<1>3. ScanInv => ScanExplained
  BY DEF ScanInv
<1> QED  BY <1>1, <1>2, <1>3, PTL DEF ConsoleSpec


-----------------------------------------------------------------------------
(* The score.  Without a picture it is the rest of 55 parts, with one it   *)
(* is 45 times the picture and the rest, of 100.                           *)

Pairs == [left : SUBSET Words, right : SUBSET Words, days : Days, distance : Kilometres, same : BOOLEAN,
          visual : (0..Steps) \cup {None}]

LEMMA Scales ==
  ASSUME NEW a \in Nat, NEW b \in Nat, NEW k \in Nat \ {0}
  PROVE  /\ a <= b <=> a * k <= b * k
         /\ a * k \in Nat
OBVIOUS

\* A share of the steps that is at most the whole.
LEMMA Shares ==
  ASSUME NEW a \in Nat, NEW b \in Nat \ {0}, a <= b
  PROVE  (Steps * a) \div b \in 0..Steps /\ (a * Steps) \div b \in 0..Steps
<1>1. Steps \in Nat \ {0}
  BY ScoreAssumption
<1>2. Steps * a \in Nat /\ Steps * b \in Nat /\ Steps * a <= Steps * b
  BY <1>1, Scales
<1>3. PICK n : n = Steps * a
  OBVIOUS
<1>4. n \in Nat /\ n <= Steps * b
  BY <1>2, <1>3
<1>5. n \div b \in Nat /\ (n \div b) * b <= n
  BY <1>4
<1>6. (n \div b) * b <= Steps * b
  BY <1>2, <1>4, <1>5
<1>7. n \div b <= Steps
  BY <1>1, <1>5, <1>6, Scales
<1>8. a * Steps = Steps * a
  BY <1>1
<1> QED  BY <1>1, <1>3, <1>5, <1>7, <1>8


\* Every similarity is a number of steps.
LEMMA Similarities ==
  ASSUME NEW c \in Pairs
  PROVE  /\ TagSimilarity(c.left, c.right) \in 0..Steps /\ DateSimilarity(c.days) \in 0..Steps
         /\ LocationSimilarity(c.distance) \in 0..Steps /\ CategorySimilarity(c.same) \in 0..Steps
<1>1. Steps \in Nat \ {0}
  BY ScoreAssumption
<1>2. TagSimilarity(c.left, c.right) \in 0..Steps
  <2>1. CASE c.left \cup c.right = {}
    BY <1>1, <2>1 DEF TagSimilarity
  <2>2. CASE c.left \cup c.right # {}
    <3>1. IsFiniteSet(c.left \cup c.right) /\ c.left \cap c.right \subseteq c.left \cup c.right
      BY ScoreAssumption, FS_Subset DEF Pairs
    <3>2. Cardinality(c.left \cap c.right) <= Cardinality(c.left \cup c.right)
      BY <3>1, FS_Subset
    <3>3. Cardinality(c.left \cap c.right) \in Nat /\ Cardinality(c.left \cup c.right) \in Nat
      BY <3>1, FS_Subset, FS_CardinalityType
    <3>4. Cardinality(c.left \cup c.right) # 0
      BY <2>2, <3>1, FS_EmptySet
    <3> QED  BY <2>2, <3>2, <3>3, <3>4, Shares DEF TagSimilarity
  <2> QED  BY <2>1, <2>2
<1>3. DateSimilarity(c.days) \in 0..Steps
  <2>1. AtLeastZero(30, c.days) \in Nat /\ AtLeastZero(30, c.days) <= 30
    <3>1. c.days \in Nat
      BY ScoreAssumption DEF Pairs
    <3> QED  BY <3>1 DEF AtLeastZero
  <2> QED  BY <2>1, Shares DEF DateSimilarity
<1>4. Steps \div 4 \in 0..Steps
  BY <1>1
<1>5. LocationSimilarity(c.distance) \in 0..Steps
  <2>1. CASE c.distance = None
    BY <1>4, <2>1 DEF LocationSimilarity
  <2>2. CASE c.distance # None
    <3>1. AtLeastZero(100, c.distance) \in Nat /\ AtLeastZero(100, c.distance) <= 100
      <4>1. c.distance \in Nat
        BY <2>2, ScoreAssumption DEF Pairs
      <4> QED  BY <4>1 DEF AtLeastZero
    <3> QED  BY <2>2, <3>1, Shares DEF LocationSimilarity
  <2> QED  BY <2>1, <2>2
<1>6. CategorySimilarity(c.same) \in 0..Steps
  BY <1>1, <1>4 DEF CategorySimilarity
<1> QED  BY <1>2, <1>3, <1>5, <1>6

Rest(c) == 18 * TagSimilarity(c.left, c.right) + 15 * DateSimilarity(c.days)
             + 12 * LocationSimilarity(c.distance) + 10 * CategorySimilarity(c.same)

LEMMA RestBounded ==
  ASSUME NEW c \in Pairs
  PROVE  Rest(c) \in Nat /\ Rest(c) <= 55 * Steps
BY Similarities, ScoreAssumption DEF Rest

\* The score with a picture, and without one.
LEMMA ScoreIs ==
  ASSUME NEW c \in Pairs
  PROVE  /\ c.visual # None => Score(c).sum = 45 * c.visual + Rest(c) /\ Score(c).of = 100 * Steps
         /\ c.visual = None => Score(c).sum = Rest(c) /\ Score(c).of = 55 * Steps
<1>1. /\ DOMAIN Weight = {"visual", "tags", "date", "location", "category"}
      /\ Weight["visual"] = 45 /\ Weight["tags"] = 18 /\ Weight["date"] = 15
      /\ Weight["location"] = 12 /\ Weight["category"] = 10
  BY DEF Weight
<1>2. PICK tags \in 0..Steps, date \in 0..Steps, location \in 0..Steps, category \in 0..Steps :
        /\ tags = TagSimilarity(c.left, c.right) /\ date = DateSimilarity(c.days)
        /\ location = LocationSimilarity(c.distance) /\ category = CategorySimilarity(c.same)
  BY Similarities
<1>3. /\ Factors(c)["visual"] = IF c.visual # None THEN c.visual ELSE 0
      /\ Factors(c)["tags"] = tags /\ Factors(c)["date"] = date
      /\ Factors(c)["location"] = location /\ Factors(c)["category"] = category
  BY <1>2 DEF Factors, Comparable
<1>4. Steps \in Nat
  BY ScoreAssumption
<1> DEFINE parts == [x \in DOMAIN Weight |-> IF x \in Weighs(c) THEN Weight[x] ELSE 0]
           products == [x \in DOMAIN Weight |-> Factors(c)[x] * parts[x]]
<1>5. Score(c).sum = Total(products) /\ Score(c).of = Total(parts) * Steps
  BY DEF Score
<1>6. CASE c.visual # None
  <2>1. /\ parts["visual"] = 45 /\ parts["tags"] = 18 /\ parts["date"] = 15
        /\ parts["location"] = 12 /\ parts["category"] = 10
    BY <1>1, <1>6 DEF Weighs, Comparable
  <2>2. c.visual \in Nat
    BY <1>4, <1>6 DEF Pairs
  <2>3. /\ products["visual"] = 45 * c.visual /\ products["tags"] = 18 * tags /\ products["date"] = 15 * date
        /\ products["location"] = 12 * location /\ products["category"] = 10 * category
    BY <1>1, <1>2, <1>3, <1>4, <1>6, <2>1, <2>2
  <2> HIDE DEF parts, products
  <2>4. Total(parts) = 100
    BY <2>1 DEF Total
  <2>5. Total(products) = 45 * c.visual + Rest(c)
    BY <1>2, <1>4, <2>2, <2>3 DEF Total, Rest
  <2> QED  BY <1>5, <1>6, <2>4, <2>5
<1>7. CASE c.visual = None
  <2>1. /\ parts["visual"] = 0 /\ parts["tags"] = 18 /\ parts["date"] = 15
        /\ parts["location"] = 12 /\ parts["category"] = 10
    BY <1>1, <1>7 DEF Weighs, Comparable
  <2>3. /\ products["visual"] = 0 /\ products["tags"] = 18 * tags /\ products["date"] = 15 * date
        /\ products["location"] = 12 * location /\ products["category"] = 10 * category
    BY <1>1, <1>2, <1>3, <1>4, <1>7, <2>1
  <2> HIDE DEF parts, products
  <2>4. Total(parts) = 55
    BY <2>1 DEF Total
  <2>5. Total(products) = Rest(c)
    BY <1>2, <1>4, <2>3 DEF Total, Rest
  <2> QED  BY <1>5, <1>7, <2>4, <2>5
<1> QED  BY <1>6, <1>7


\* Fractions of the steps, compared without them.
LEMMA Compared ==
  ASSUME NEW t \in Nat, NEW v \in Nat
  PROVE  /\ v * (55 * Steps) <= t * Steps <=> 55 * v <= t
         /\ t * Steps <= v * (55 * Steps) <=> t <= 55 * v
         /\ v * (100 * Steps) <= (45 * v + t) * Steps <=> 100 * v <= 45 * v + t
         /\ (45 * v + t) * Steps <= v * (100 * Steps) <=> 45 * v + t <= 100 * v
         /\ (45 * v + t) * (55 * Steps) <= t * (100 * Steps) <=> 55 * (45 * v + t) <= 100 * t
         /\ t * (100 * Steps) <= (45 * v + t) * (55 * Steps) <=> 100 * t <= 55 * (45 * v + t)
<1>1. Steps \in Nat \ {0}
  BY ScoreAssumption
<1>2. PICK u \in Nat : u = 45 * v + t
  OBVIOUS
<1>3. v * (55 * Steps) = (55 * v) * Steps /\ v * (100 * Steps) = (100 * v) * Steps
  BY <1>1
<1>4. u * (55 * Steps) = (55 * u) * Steps /\ t * (100 * Steps) = (100 * t) * Steps
  BY <1>1
<1>5. 55 * v \in Nat /\ 100 * v \in Nat /\ 55 * u \in Nat /\ 100 * t \in Nat
  OBVIOUS
<1>6. (55 * v) * Steps <= t * Steps <=> 55 * v <= t
  BY <1>1, <1>5, Scales
<1>7. t * Steps <= (55 * v) * Steps <=> t <= 55 * v
  BY <1>1, <1>5, Scales
<1>8. (100 * v) * Steps <= u * Steps <=> 100 * v <= u
  BY <1>1, <1>5, Scales
<1>9. u * Steps <= (100 * v) * Steps <=> u <= 100 * v
  BY <1>1, <1>5, Scales
<1>10. (55 * u) * Steps <= (100 * t) * Steps <=> 55 * u <= 100 * t
  BY <1>1, <1>5, Scales
<1>11. (100 * t) * Steps <= (55 * u) * Steps <=> 100 * t <= 55 * u
  BY <1>1, <1>5, Scales
<1> QED  BY <1>2, <1>3, <1>4, <1>6, <1>7, <1>8, <1>9, <1>10, <1>11

\* Another picture, or the two publications the other way about.
LEMMA Variants ==
  ASSUME NEW c \in Pairs
  PROVE  /\ \A v \in (0..Steps) \cup {None} :
              /\ [c EXCEPT !.visual = v] \in Pairs /\ [c EXCEPT !.visual = v].visual = v
              /\ Rest([c EXCEPT !.visual = v]) = Rest(c)
         /\ Score([c EXCEPT !.left = c.right, !.right = c.left]) = Score(c)
<1>1. ASSUME NEW v \in (0..Steps) \cup {None}
      PROVE  /\ [c EXCEPT !.visual = v] \in Pairs /\ [c EXCEPT !.visual = v].visual = v
             /\ Rest([c EXCEPT !.visual = v]) = Rest(c)
  <2>1. ASSUME NEW d, d = [c EXCEPT !.visual = v]
        PROVE  d \in Pairs /\ d.visual = v /\ d.left = c.left /\ d.right = c.right /\ d.days = c.days
               /\ d.distance = c.distance /\ d.same = c.same
    BY <2>1 DEF Pairs
  <2> QED  BY <2>1 DEF Rest
<1>2. Score([c EXCEPT !.left = c.right, !.right = c.left]) = Score(c)
  <2>1. ASSUME NEW d, d = [c EXCEPT !.left = c.right, !.right = c.left]
        PROVE  d \in Pairs /\ d.visual = c.visual /\ d.left = c.right /\ d.right = c.left /\ d.days = c.days
               /\ d.distance = c.distance /\ d.same = c.same
    BY <2>1 DEF Pairs
  <2>2. TagSimilarity(c.right, c.left) = TagSimilarity(c.left, c.right)
    <3>1. c.right \cup c.left = c.left \cup c.right /\ c.right \cap c.left = c.left \cap c.right
      OBVIOUS
    <3> QED  BY <3>1 DEF TagSimilarity
  <2>3. PICK d : d = [c EXCEPT !.left = c.right, !.right = c.left]
    OBVIOUS
  <2>4. Factors(d) = Factors(c) /\ Weighs(d) = Weighs(c)
    BY <2>1, <2>2, <2>3 DEF Factors, Weighs
  <2>5. Score(d) = Score(c)
    BY <2>4 DEF Score
  <2> QED  BY <2>3, <2>5
<1> QED  BY <1>1, <1>2

\* For any words, days, distances and steps, a picture moves the score of a pair
\* towards itself, and one that is missing leaves it where it is.
THEOREM PicturesAreWeighed == ScoreSpec => []MissingPictureIsNeutral
<1>1. ScoreInit => compared = None
  BY DEF ScoreInit
<1>2. (compared = None \/ compared \in Pairs) /\ [Compare]_compared => (compared = None \/ compared \in Pairs)'
  BY DEF Compare, Pairs
<1>3. compared = None \/ compared \in Pairs => MissingPictureIsNeutral
  <2> SUFFICES ASSUME NEW c \in Pairs, c = compared
               PROVE  LET blind == Score([c EXCEPT !.visual = None])
                          alike(v) == [sum |-> v, of |-> Steps]
                      IN /\ AtMost(Score(c), alike(Steps))
                         /\ Score(c) = Score([c EXCEPT !.left = c.right, !.right = c.left])
                         /\ \A v \in 0..Steps :
                              LET seen == Score([c EXCEPT !.visual = v])
                              IN /\ AtMost(alike(v), blind) => AtMost(alike(v), seen) /\ AtMost(seen, blind)
                                 /\ AtMost(blind, alike(v)) => AtMost(blind, seen) /\ AtMost(seen, alike(v))
    BY DEF MissingPictureIsNeutral
  <2>1. Steps \in Nat \ {0} /\ None \notin Nat
    BY ScoreAssumption
  <2>2. PICK t : t = Rest(c)
    OBVIOUS
  <2>3. t \in Nat /\ t <= 55 * Steps
    BY <2>2, RestBounded
  <2>4. Score([c EXCEPT !.visual = None]).sum = t /\ Score([c EXCEPT !.visual = None]).of = 55 * Steps
    <3>1. PICK d : d = [c EXCEPT !.visual = None]
      OBVIOUS
    <3>2. d \in Pairs /\ d.visual = None /\ Rest(d) = t
      BY <2>2, <3>1, Variants
    <3>3. Score(d).sum = t /\ Score(d).of = 55 * Steps
      BY <3>2, ScoreIs
    <3> QED  BY <3>1, <3>3
  <2>5. AtMost(Score(c), [sum |-> Steps, of |-> Steps])
    <3>1. PICK sum \in Nat, of \in Nat : Score(c).sum = sum /\ Score(c).of = of /\ sum <= of
      <4>1. c.visual # None => c.visual \in Nat /\ c.visual <= Steps
        BY <2>1 DEF Pairs
      <4> QED  BY <2>1, <2>2, <2>3, <4>1, ScoreIs
    <3>2. sum * Steps <= of * Steps
      BY <2>1, <3>1, Scales
    <3>3. of * Steps = Steps * of
      BY <2>1
    <3> QED  BY <3>1, <3>2, <3>3 DEF AtMost
  <2>6. ASSUME NEW v \in 0..Steps
        PROVE  LET seen == Score([c EXCEPT !.visual = v])
                   blind == Score([c EXCEPT !.visual = None])
                   alike == [sum |-> v, of |-> Steps]
               IN /\ AtMost(alike, blind) => AtMost(alike, seen) /\ AtMost(seen, blind)
                  /\ AtMost(blind, alike) => AtMost(blind, seen) /\ AtMost(seen, alike)
    <3>1. v \in Nat /\ v # None
      BY <2>1
    <3>2. /\ Score([c EXCEPT !.visual = v]).sum = 45 * v + t
          /\ Score([c EXCEPT !.visual = v]).of = 100 * Steps
      <4>1. PICK d : d = [c EXCEPT !.visual = v]
        OBVIOUS
      <4>2. d \in Pairs /\ d.visual = v /\ Rest(d) = t
        BY <2>2, <4>1, Variants
      <4>3. Score(d).sum = 45 * v + t /\ Score(d).of = 100 * Steps
        BY <3>1, <4>2, ScoreIs
      <4> QED  BY <4>1, <4>3
    <3>3. /\ AtMost([sum |-> v, of |-> Steps], Score([c EXCEPT !.visual = None])) <=> 55 * v <= t
          /\ AtMost(Score([c EXCEPT !.visual = None]), [sum |-> v, of |-> Steps]) <=> t <= 55 * v
      BY <2>3, <2>4, <3>1, Compared DEF AtMost
    <3>4. /\ AtMost([sum |-> v, of |-> Steps], Score([c EXCEPT !.visual = v])) <=> 100 * v <= 45 * v + t
          /\ AtMost(Score([c EXCEPT !.visual = v]), [sum |-> v, of |-> Steps]) <=> 45 * v + t <= 100 * v
      BY <2>3, <3>1, <3>2, Compared DEF AtMost
    <3>5. /\ AtMost(Score([c EXCEPT !.visual = v]), Score([c EXCEPT !.visual = None])) <=> 55 * (45 * v + t) <= 100 * t
          /\ AtMost(Score([c EXCEPT !.visual = None]), Score([c EXCEPT !.visual = v])) <=> 100 * t <= 55 * (45 * v + t)
      BY <2>3, <2>4, <3>1, <3>2, Compared DEF AtMost
    <3>6. /\ 55 * v <= t => 100 * v <= 45 * v + t /\ 55 * (45 * v + t) <= 100 * t
          /\ t <= 55 * v => 45 * v + t <= 100 * v /\ 100 * t <= 55 * (45 * v + t)
      BY <2>3, <3>1
    <3> QED  BY <3>3, <3>4, <3>5, <3>6
  <2> QED  BY <2>5, <2>6, Variants
<1> QED  BY <1>1, <1>2, <1>3, PTL DEF ScoreSpec

=============================================================================
