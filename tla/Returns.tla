------------------------------ MODULE Returns -------------------------------
(***************************************************************************)
(* Returning a found thing: claims, their review, disputes, the exchange   *)
(* of contacts and the two-sided QR handover (claims.py and the disputes   *)
(* of admin.py), over the publications of module Listings.                 *)
(*                                                                         *)
(* Every handler of claims.py locks the claim row, then its listing row,   *)
(* and is one action.  Two handlers are split.  scan_handover first finds  *)
(* the handover by its token without a lock.  resolve_dispute takes no     *)
(* lock at all: it reads the case, then the claim, and commits later,      *)
(* sending claim.status only if it differs from the one it read.           *)
(***************************************************************************)
EXTENDS Listings

CONSTANTS
  Claimants,   \* the accounts that make claims
  Talkers,     \* the accounts that give or withdraw consent to show contacts
  Calls,       \* slots for overlapping scans and dispute resolutions
  MaxTokens,   \* bound: QR tokens issued for one handover
  MaxCases     \* bound: appeals filed for one claim

ASSUME ReturnsAssumption ==
  /\ Claimants \subseteq Users
  /\ Talkers \subseteq Users
  /\ MaxTokens \in Nat
  /\ MaxCases \in Nat

VARIABLES
  claim,      \* rows of table claims
  grant,      \* rows of contact_grants (an absent row grants nothing)
  handover,   \* rows of handovers; token 0: no row yet
  dispute,    \* moderation_cases about each claim: the last one, and if open
  call,       \* scans and resolutions between their read and their commit
  scanners,   \* audit_events "handover.scan": who confirmed each handover
  returns,    \* history: returns of a thing since its publication last opened
  lastWord    \* history: what each side of a claim last said about its contacts

returnVars == <<claim, grant, handover, dispute, call, scanners>>
vars == <<listingVars, returnVars, returns, lastWord>>

\* One row per publication and claimant (UNIQUE listing_id, claimant_id).
Claims == Listings \X Claimants
ThingOf(c) == c[1]
Claimant(c) == c[2]

ClaimStatus == {"absent", "draft", "under_review", "needs_more_info",
                "approved", "rejected", "completed"}
Sides == {"claimant", "holder"}

Claim    == [status : ClaimStatus, answered : BOOLEAN]
Grant    == [claimant : BOOLEAN, holder : BOOLEAN, revoked : BOOLEAN]
Handover == [token : 0..MaxTokens, fresh : BOOLEAN,
             confirmed : SUBSET Sides, done : BOOLEAN]
Dispute  == {d \in [case : 0..MaxCases, open : BOOLEAN] : d.open => d.case > 0}

\* handover is the row as the lookup of the scan loaded it.
Scan       == [op : {"scan"}, user : Users, claim : Claims, token : 1..MaxTokens,
               seen : Handover]
\* "open": the case is loaded and the claim not yet.
Resolution == [op : {"open", "resolve"}, user : Moderators, claim : Claims,
               case : 1..MaxCases,
              status : {"approved", "rejected", "needs_more_info", None}]

-----------------------------------------------------------------------------
Init ==
  /\ ListingsInit
  /\ claim = [c \in Claims |-> [status |-> "absent", answered |-> FALSE]]
  /\ grant = [c \in Claims |-> [claimant |-> FALSE, holder |-> FALSE, revoked |-> FALSE]]
  /\ handover = [c \in Claims |-> [token |-> 0, fresh |-> FALSE,
                                   confirmed |-> {}, done |-> FALSE]]
  /\ dispute = [c \in Claims |-> [case |-> 0, open |-> FALSE]]
  /\ call = [k \in Calls |-> Idle]
  /\ scanners = [c \in Claims |-> {}]
  /\ returns = [l \in Listings |-> 0]
  /\ lastWord = [c \in Claims |-> [s \in Sides |-> FALSE]]

\* A step of the publications; opening one starts a new count of returns.
ListingStep ==
  /\ ListingsNext
  /\ returns' = [l \in Listings |->
       IF listing[l].status # "active" /\ listing'[l].status = "active"
       THEN 0 ELSE returns[l]]
  /\ UNCHANGED <<returnVars, lastWord>>

-----------------------------------------------------------------------------
\* POST /claims: a stranger claims a thing on offer (an existing claim of the
\* same claimant is returned unchanged).
CreateClaim(c) ==
  /\ Claimant(c) \notin deleted \cup members
  /\ Claimant(c) # OwnerOf[ThingOf(c)]
  /\ Public(ThingOf(c)) /\ ThingOf(c) \in Found
  /\ claim[c].status = "absent"
  /\ claim' = [claim EXCEPT ![c].status = "draft"]
  /\ UNCHANGED <<listingVars, grant, handover, dispute, call, scanners, returns, lastWord>>

Editable(c) == claim[c].status \in {"draft", "needs_more_info"}

SaveAnswers(c) ==
  /\ Claimant(c) \notin deleted
  /\ Editable(c)
  /\ claim' = [claim EXCEPT ![c].answered = TRUE]
  /\ UNCHANGED <<listingVars, grant, handover, dispute, call, scanners, returns, lastWord>>

SubmitClaim(c) ==
  /\ Claimant(c) \notin deleted
  /\ Editable(c)
  /\ claim[c].answered
  /\ claim' = [claim EXCEPT ![c].status = "under_review"]
  /\ UNCHANGED <<listingVars, grant, handover, dispute, call, scanners, returns, lastWord>>

\* POST /claims/{id}/decision by whoever manages the publication.
DecideClaim(u, c, decision) ==
  /\ u \notin deleted
  /\ CanManage(u, ThingOf(c))
  /\ claim[c].status \in {"under_review", "needs_more_info"}
  /\ claim' = [claim EXCEPT ![c].status = decision]
  /\ UNCHANGED <<listingVars, grant, handover, dispute, call, scanners, returns, lastWord>>

\* POST /claims/{id}/appeal: opens a case unless one is open already.
AppealClaim(c) ==
  /\ Claimant(c) \notin deleted
  /\ claim[c].status = "rejected"
  /\ ~dispute[c].open
  /\ dispute[c].case < MaxCases
  /\ dispute' = [dispute EXCEPT ![c] = [case |-> @.case + 1, open |-> TRUE]]
  /\ UNCHANGED <<listingVars, claim, grant, handover, call, scanners, returns, lastWord>>

\* POST /admin/disputes/{id}/resolve: loads the case, then the claim.
ReadDispute(k, m, c, decision) ==
  LET target == CASE decision = "approve"           -> "approved"
                  [] decision \in {"reject", "block"} -> "rejected"
                  [] OTHER                          -> "needs_more_info"
  IN /\ call[k] = Idle
     /\ m \in Moderators \ deleted
     /\ dispute[c].open
     /\ call' = [call EXCEPT ![k] =
          [op |-> "open", user |-> m, claim |-> c, case |-> dispute[c].case, status |-> target]]
     /\ UNCHANGED <<listingVars, claim, grant, handover, dispute, scanners, returns, lastWord>>

ReadDisputed(k) ==
  LET d == call[k]
  IN /\ d.op = "open"
     /\ call' = [call EXCEPT ![k] =
          [d EXCEPT !.op = "resolve", !.status = IF @ = claim[d.claim].status THEN None ELSE @]]
     /\ UNCHANGED <<listingVars, claim, grant, handover, dispute, scanners, returns, lastWord>>

CommitDispute(k) ==
  LET d == call[k]
  IN /\ d.op = "resolve"
     /\ claim' = IF d.status = None THEN claim
                 ELSE [claim EXCEPT ![d.claim].status = d.status]
     /\ dispute' = [dispute EXCEPT ![d.claim].open = @ /\ dispute[d.claim].case # d.case]
     /\ call' = [call EXCEPT ![k] = Idle]
     /\ UNCHANGED <<listingVars, grant, handover, scanners, returns, lastWord>>

-----------------------------------------------------------------------------
\* Mutant of Consented: a withdrawal is marked but the consent stays in the row.
ConsentKept(g, side, consent) ==
  IF consent THEN [g EXCEPT ![side] = TRUE, !.revoked = FALSE] ELSE [g EXCEPT !.revoked = TRUE]

\* The row after a side consents or withdraws; one revoked_at serves both.
Consented(g, side, consent) == [g EXCEPT ![side] = consent, !.revoked = ~consent]

\* PUT /claims/{id}/contact-consent by a participant of the claim.
ContactConsent(u, c, consent) ==
  LET side == IF u = Claimant(c) THEN "claimant" ELSE "holder"
  IN /\ u \notin deleted
     /\ u = Claimant(c) \/ CanManage(u, ThingOf(c))
     /\ claim[c].status = "approved"
     /\ grant' = [grant EXCEPT ![c] = Consented(@, side, consent)]
     /\ lastWord' = [lastWord EXCEPT ![c][side] = consent]
     /\ UNCHANGED <<listingVars, claim, handover, dispute, call, scanners, returns>>

\* What GET /claims/{id}/contacts decides: the telephone numbers are shown.
ContactsUnlocked(c) == /\ grant[c].claimant /\ grant[c].holder /\ ~grant[c].revoked
                       /\ claim[c].status = "approved"

\* POST /claims/{id}/handover (an existing handover is returned unchanged).
CreateHandover(c) ==
  /\ Claimant(c) \notin deleted
  /\ claim[c].status = "approved"
  /\ handover[c].token = 0 /\ MaxTokens > 0
  /\ handover' = [handover EXCEPT ![c] = [@ EXCEPT !.token = 1, !.fresh = TRUE]]
  /\ UNCHANGED <<listingVars, claim, grant, dispute, call, scanners, returns, lastWord>>

\* A new QR token; a confirmation already recorded is kept.
RegenerateHandover(c) ==
  /\ Claimant(c) \notin deleted
  /\ claim[c].status = "approved"
  /\ handover[c].token \in 1..(MaxTokens - 1) /\ ~handover[c].done
  /\ handover' = [handover EXCEPT ![c] = [@ EXCEPT !.token = handover[c].token + 1, !.fresh = TRUE]]
  /\ UNCHANGED <<listingVars, claim, grant, dispute, call, scanners, returns, lastWord>>

\* Twenty minutes pass.
ExpireToken(c) ==
  /\ handover[c].fresh
  /\ handover' = [handover EXCEPT ![c].fresh = FALSE]
  /\ UNCHANGED <<listingVars, claim, grant, dispute, call, scanners, returns, lastWord>>

\* POST /claims/handover/scan finds the row of the token, without a lock.
LookupScan(k, u, c) ==
  /\ call[k] = Idle
  /\ u \notin deleted
  /\ handover[c].token > 0
  /\ call' = [call EXCEPT ![k] = [op |-> "scan", user |-> u, claim |-> c,
                                  token |-> handover[c].token, seen |-> handover[c]]]
  /\ UNCHANGED <<listingVars, claim, grant, handover, dispute, scanners, returns, lastWord>>

\* Mutant of Live: the code is judged by the row that the lookup loaded.
LiveAsLookedUp(s) == s.seen.token = s.token /\ s.seen.fresh

\* Under the locks of claim, publication and handover, the handover is read
\* again: the code must still be the current one and not twenty minutes old.
Live(s) == handover[s.claim].token = s.token /\ handover[s.claim].fresh

\* Mutant of OnOffer: the publication is not looked at.
ApprovedOnly(s) == claim[s.claim].status = "approved"

\* The claim is still approved and its publication still active.
OnOffer(s) == /\ claim[s.claim].status = "approved"
              /\ listing[ThingOf(s.claim)].status = "active"

ScanAccepted(s) ==
  /\ s.user = Claimant(s.claim) \/ CanManage(s.user, ThingOf(s.claim))
  /\ ~handover[s.claim].done
  /\ Live(s)
  /\ OnOffer(s)

\* Mutant of Side: the second scan is taken for the holder's, whoever scans.
SecondIsHolder(s) == IF handover[s.claim].confirmed = {} THEN "claimant" ELSE "holder"

\* The claimant confirms for himself, anyone else for the holder.
Side(s) == IF s.user = Claimant(s.claim) THEN "claimant" ELSE "holder"

Confirmations(s) == handover[s.claim].confirmed \cup {Side(s)}

\* Mutants of Completes: the marks are those the lookup loaded; the holder's
\* mark is enough.
CompletesAsLookedUp(s) == s.seen.confirmed \cup {Side(s)} = Sides
CompletesByHolder(s) == "holder" \in Confirmations(s)

Completes(s) == Confirmations(s) = Sides

ConfirmScan(k) ==
  LET s    == call[k]
      done == Completes(s)
      l    == ThingOf(s.claim)
  IN /\ s.op = "scan" /\ ScanAccepted(s)
     /\ handover' = [handover EXCEPT ![s.claim] =
                        [@ EXCEPT !.confirmed = Confirmations(s), !.done = done]]
     /\ claim' = IF done THEN [claim EXCEPT ![s.claim].status = "completed"] ELSE claim
     /\ listing' = IF done THEN [listing EXCEPT ![l].status = "closed"] ELSE listing
     /\ returns' = IF done THEN [returns EXCEPT ![l] = @ + 1] ELSE returns
     /\ scanners' = [scanners EXCEPT ![s.claim] = @ \cup {s.user}]
     /\ call' = [call EXCEPT ![k] = Idle]
     /\ UNCHANGED <<photo, members, deleted, req, verdict, changed, grant, dispute, lastWord>>

RefuseScan(k) ==
  /\ call[k].op = "scan" /\ ~ScanAccepted(call[k])
  /\ call' = [call EXCEPT ![k] = Idle]
  /\ UNCHANGED <<listingVars, claim, grant, handover, dispute, scanners, returns, lastWord>>

-----------------------------------------------------------------------------
Next ==
  \/ ListingStep
  \/ \E c \in Claims : \/ CreateClaim(c) \/ SaveAnswers(c) \/ SubmitClaim(c)
                       \/ AppealClaim(c) \/ CreateHandover(c) \/ RegenerateHandover(c)
                       \/ ExpireToken(c)
  \/ \E u \in Users, c \in Claims, decision \in {"approved", "rejected", "needs_more_info"} :
       DecideClaim(u, c, decision)
  \/ \E k \in Calls, m \in Moderators, c \in Claims, decision \in Decisions :
       ReadDispute(k, m, c, decision)
  \/ \E k \in Calls : ReadDisputed(k) \/ CommitDispute(k) \/ ConfirmScan(k) \/ RefuseScan(k)
  \/ \E u \in Talkers, c \in Claims, consent \in BOOLEAN : ContactConsent(u, c, consent)
  \/ \E k \in Calls, u \in Users, c \in Claims : LookupScan(k, u, c)

Spec == Init /\ [][Next]_vars

-----------------------------------------------------------------------------
\* Every variable has the shape of the rows and of the calls in flight.
TypeOK ==
  /\ ListingsTypeOK
  /\ claim \in [Claims -> Claim]
  /\ grant \in [Claims -> Grant]
  /\ handover \in [Claims -> Handover]
  /\ dispute \in [Claims -> Dispute]
  /\ call \in [Calls -> {Idle} \cup Scan \cup Resolution]
  /\ scanners \in [Claims -> SUBSET Users]
  /\ returns \in [Listings -> Nat]
  /\ lastWord \in [Claims -> [Sides -> BOOLEAN]]

\* A thing goes home through two people: whoever regenerates, repeats or races
\* scans, a handover is completed only after the claimant himself and somebody
\* else who could manage the publication have both scanned a live code.
TwoPersonReturn ==
  \A c \in Claims : handover[c].done =>
    Claimant(c) \in scanners[c] /\ scanners[c] \ {Claimant(c)} # {}

\* Two scans that overlap never record both confirmations without completing
\* the return, or complete it with one: the last commit sees the other's mark.
BothConfirmedIsDone ==
  \A c \in Claims : handover[c].done <=> handover[c].confirmed = Sides

\* However many claims on a thing are approved and scanned at once, it is
\* returned at most once each time its publication is opened.
OneReturnPerOpening ==
  \A l \in Listings : returns[l] <= 1 /\ (listing[l].status = "active" => returns[l] = 0)

\* A code that was replaced, or whose twenty minutes ran out, after the scan had
\* found it and before it took its locks, records nothing.
OldQrRecordsNothing ==
  [][\A k \in Calls :
       LET s == call[k]
       IN (/\ s.op = "scan" /\ call'[k] = Idle
           /\ s.token # handover[s.claim].token \/ ~handover[s.claim].fresh)
          => handover' = handover /\ claim' = claim]_vars

\* The telephone numbers are open only while the last word of BOTH sides is
\* yes, although one revoked_at is shared: the consent of one side never
\* cancels the withdrawal of the other.
ContactsNeedBothLastWords ==
  \A c \in Claims : ContactsUnlocked(c) => \A s \in Sides : lastWord[c][s]

\* The handover implements the two-signature ledger of ReturnLedger.
Ledger == INSTANCE ReturnLedger WITH
  Things   <- Listings,
  signed   <- [c \in Claims |-> handover[c].confirmed],
  returned <- {c \in Claims : handover[c].done},
  offered  <- {l \in Listings : listing[l].status = "active"}

ReturnsAreLedger == Ledger!LedgerSpec

\* PRODUCTION_READINESS.md: the handover ends with two confirmations; once
\* completed, a claim is not decided again (resolve_dispute answers that there
\* is no such dispute when the case is no longer open).
CompletedIsFinal ==
  [][\A c \in Claims : claim[c].status = "completed" => claim'[c].status = "completed"]_vars
=============================================================================
