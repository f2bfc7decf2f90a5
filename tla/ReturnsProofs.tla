---------------------------- MODULE ReturnsProofs ----------------------------
(***************************************************************************)
(* Proofs about Returns, for every number of accounts, publications,       *)
(* claims, tokens, appeals and overlapping calls.                          *)
(***************************************************************************)
EXTENDS Returns, ListingsProofs

\* A claim is a pair of a publication and the account that claims it.
LEMMA ClaimParts ==
  ASSUME NEW c \in Claims
  PROVE  ThingOf(c) \in Listings /\ Claimant(c) \in Claimants /\ Claimant(c) \in Users
BY ReturnsAssumption DEF Claims, ThingOf, Claimant

\* A call that is a scan, or a resolution, has the type of one.
LEMMA CallType ==
  ASSUME NEW x \in {Idle} \cup Scan \cup Resolution
  PROVE  /\ x.op = "scan" => x \in Scan
         /\ x.op \in {"open", "resolve"} => x \in Resolution
BY DEF Idle, Scan, Resolution

\* A handover keeps its shape under a new token and under a confirmation.
LEMMA NewToken ==
  ASSUME NEW h \in Handover, NEW t \in 0..MaxTokens
  PROVE  [h EXCEPT !.token = t, !.fresh = TRUE] \in Handover
BY DEF Handover

\* A handover stays one when it is confirmed.
LEMMA NewConfirmation ==
  ASSUME NEW h \in Handover, NEW S \in SUBSET Sides, NEW d \in BOOLEAN
  PROVE  [h EXCEPT !.confirmed = S, !.done = d] \in Handover
BY DEF Handover

\* Both confirmations come from the claimant himself and from somebody else.
SignedByScanners ==
  \A c \in Claims :
    /\ "claimant" \in handover[c].confirmed => Claimant(c) \in scanners[c]
    /\ "holder" \in handover[c].confirmed => scanners[c] \ {Claimant(c)} # {}

\* The consents in the row are the last words of the two sides.
GrantIsLastWord ==
  \A c \in Claims : /\ grant[c].claimant = lastWord[c]["claimant"]
                    /\ grant[c].holder = lastWord[c]["holder"]

Inv == /\ TypeOK
       /\ BothConfirmedIsDone
       /\ SignedByScanners
       /\ GrantIsLastWord
       /\ OneReturnPerOpening

\* The initial states satisfy the invariant.
LEMMA InvInit == Init => Inv
<1> SUFFICES ASSUME Init PROVE Inv
  OBVIOUS
<1>1. TypeOK
  BY ListingsTypeInit, ReturnsAssumption
     DEF Init, TypeOK, Claim, ClaimStatus, Grant, Handover, Dispute, Sides
<1>2. \A c \in Claims : /\ handover[c].confirmed = {} /\ ~handover[c].done
                        /\ claim[c].status = "absent"
  BY DEF Init
<1>3. "claimant" \in Sides /\ "holder" \in Sides
  BY DEF Sides
<1>4. BothConfirmedIsDone /\ SignedByScanners
  BY <1>2, <1>3 DEF BothConfirmedIsDone, SignedByScanners
<1>5. GrantIsLastWord
  BY <1>3 DEF Init, GrantIsLastWord
<1>6. OneReturnPerOpening
  BY DEF Init, OneReturnPerOpening
<1>7. QED
  BY <1>1, <1>4, <1>5, <1>6 DEF Inv

-----------------------------------------------------------------------------
\* Type correctness, one action at a time.
LEMMA TypeStep == TypeOK /\ [Next]_vars => TypeOK'
<1> SUFFICES ASSUME TypeOK, [Next]_vars PROVE TypeOK'
  OBVIOUS
<1> USE ReturnsAssumption DEF TypeOK
<1>1. ASSUME ListingStep
      PROVE  TypeOK'
  BY <1>1, ListingsTypeStep DEF ListingStep, returnVars
<1>2. ASSUME NEW c \in Claims, CreateClaim(c) \/ SaveAnswers(c) \/ SubmitClaim(c)
      PROVE  TypeOK'
  <2>1. claim' \in [Claims -> Claim]
    <3>1. CASE CreateClaim(c)
      BY <3>1 DEF CreateClaim, Claim, ClaimStatus
    <3>2. CASE SaveAnswers(c)
      BY <3>2 DEF SaveAnswers, Claim, ClaimStatus
    <3>3. CASE SubmitClaim(c)
      BY <3>3 DEF SubmitClaim, Claim, ClaimStatus
    <3>4. QED
      BY <1>2, <3>1, <3>2, <3>3
  <2>2. ListingsTypeOK'
    BY <1>2 DEF CreateClaim, SaveAnswers, SubmitClaim, ListingsTypeOK, listingVars
  <2>3. QED
    BY <1>2, <2>1, <2>2 DEF CreateClaim, SaveAnswers, SubmitClaim
<1>3. ASSUME NEW u \in Users, NEW c \in Claims,
             NEW decision \in {"approved", "rejected", "needs_more_info"},
             DecideClaim(u, c, decision)
      PROVE  TypeOK'
  <2>1. claim' \in [Claims -> Claim]
    BY <1>3 DEF DecideClaim, Claim, ClaimStatus
  <2>2. ListingsTypeOK'
    BY <1>3 DEF DecideClaim, ListingsTypeOK, listingVars
  <2>3. QED
    BY <1>3, <2>1, <2>2 DEF DecideClaim
<1>4. ASSUME NEW c \in Claims, AppealClaim(c)
      PROVE  TypeOK'
  <2>1. dispute' \in [Claims -> Dispute]
    BY <1>4 DEF AppealClaim, Dispute
  <2>2. ListingsTypeOK'
    BY <1>4 DEF AppealClaim, ListingsTypeOK, listingVars
  <2>3. QED
    BY <1>4, <2>1, <2>2 DEF AppealClaim
<1>5. ASSUME NEW k \in Calls, NEW m \in Moderators, NEW c \in Claims,
             NEW decision \in Decisions, ReadDispute(k, m, c, decision)
      PROVE  TypeOK'
  <2>1. dispute[c].case \in 1..MaxCases
    <3>1. dispute[c] \in Dispute /\ dispute[c].open
      BY <1>5 DEF ReadDispute
    <3>2. QED
      BY <3>1 DEF Dispute
  <2>2. call' \in [Calls -> {Idle} \cup Scan \cup Resolution]
    BY <1>5, <2>1 DEF ReadDispute, Resolution
  <2>3. ListingsTypeOK'
    BY <1>5 DEF ReadDispute, ListingsTypeOK, listingVars
  <2>4. QED
    BY <1>5, <2>2, <2>3 DEF ReadDispute
<1>5a. ASSUME NEW k \in Calls, ReadDisputed(k)
      PROVE  TypeOK'
  <2>1. call[k] \in Resolution
    BY <1>5a, CallType DEF ReadDisputed
  <2>2. PICK status \in {call[k].status, None} :
          call' = [call EXCEPT ![k] = [call[k] EXCEPT !.op = "resolve", !.status = status]]
    BY <1>5a DEF ReadDisputed
  <2>3. [call[k] EXCEPT !.op = "resolve", !.status = status] \in Resolution
    BY <2>1, <2>2 DEF Resolution
  <2>4. call' \in [Calls -> {Idle} \cup Scan \cup Resolution]
    BY <2>2, <2>3
  <2>5. ListingsTypeOK'
    BY <1>5a DEF ReadDisputed, ListingsTypeOK, listingVars
  <2>6. QED
    BY <1>5a, <2>4, <2>5 DEF ReadDisputed
<1>6. ASSUME NEW k \in Calls, CommitDispute(k)
      PROVE  TypeOK'
  <2>1. call[k] \in Resolution
    BY <1>6, CallType DEF CommitDispute
  <2>2. claim' \in [Claims -> Claim]
    BY <1>6, <2>1 DEF CommitDispute, Resolution, Claim, ClaimStatus
  <2>3. dispute' \in [Claims -> Dispute]
    <3>1. call[k].claim \in Claims /\ dispute[call[k].claim] \in Dispute
      BY <2>1 DEF Resolution
    <3>2. dispute'[call[k].claim] \in Dispute
      BY <1>6, <3>1 DEF CommitDispute, Dispute
    <3>3. QED
      BY <1>6, <3>1, <3>2 DEF CommitDispute
  <2>4. call' \in [Calls -> {Idle} \cup Scan \cup Resolution]
    BY <1>6 DEF CommitDispute
  <2>5. ListingsTypeOK'
    BY <1>6 DEF CommitDispute, ListingsTypeOK, listingVars
  <2>6. QED
    BY <1>6, <2>2, <2>3, <2>4, <2>5 DEF CommitDispute
<1>7. ASSUME NEW u \in Talkers, NEW c \in Claims, NEW consent \in BOOLEAN,
             ContactConsent(u, c, consent)
      PROVE  TypeOK'
  <2>1. grant' \in [Claims -> Grant] /\ lastWord' \in [Claims -> [Sides -> BOOLEAN]]
    <3>1. CASE u = Claimant(c)
      <4>1. grant' \in [Claims -> Grant]
        BY <1>7, <3>1 DEF ContactConsent, Consented, Grant
      <4>2. lastWord' \in [Claims -> [Sides -> BOOLEAN]]
        BY <1>7, <3>1 DEF ContactConsent, Sides
      <4>3. QED
        BY <4>1, <4>2
    <3>2. CASE u # Claimant(c)
      <4>1. grant' \in [Claims -> Grant]
        BY <1>7, <3>2 DEF ContactConsent, Consented, Grant
      <4>2. lastWord' \in [Claims -> [Sides -> BOOLEAN]]
        BY <1>7, <3>2 DEF ContactConsent, Sides
      <4>3. QED
        BY <4>1, <4>2
    <3>3. QED
      BY <3>1, <3>2
  <2>2. ListingsTypeOK'
    BY <1>7 DEF ContactConsent, ListingsTypeOK, listingVars
  <2>3. QED
    BY <1>7, <2>1, <2>2 DEF ContactConsent
<1>8. ASSUME NEW c \in Claims, CreateHandover(c) \/ RegenerateHandover(c) \/ ExpireToken(c)
      PROVE  TypeOK'
  <2>1. handover' \in [Claims -> Handover]
    <3> handover[c] \in Handover
      OBVIOUS
    <3>1. CASE CreateHandover(c)
      <4>1. [handover[c] EXCEPT !.token = 1, !.fresh = TRUE] \in Handover
        <5>1. 1 \in 0..MaxTokens
          BY <3>1 DEF CreateHandover
        <5>2. QED
          BY <5>1, NewToken
      <4>2. QED
        BY <3>1, <4>1 DEF CreateHandover
    <3>2. CASE RegenerateHandover(c)
      <4>1. [handover[c] EXCEPT !.token = handover[c].token + 1, !.fresh = TRUE] \in Handover
        <5>1. handover[c].token + 1 \in 0..MaxTokens
          BY <3>2 DEF RegenerateHandover
        <5>2. QED
          BY <5>1, NewToken
      <4>2. QED
        BY <3>2, <4>1 DEF RegenerateHandover
    <3>3. CASE ExpireToken(c)
      BY <3>3 DEF ExpireToken, Handover
    <3>4. QED
      BY <1>8, <3>1, <3>2, <3>3
  <2>2. ListingsTypeOK'
    BY <1>8 DEF CreateHandover, RegenerateHandover, ExpireToken, ListingsTypeOK, listingVars
  <2>3. QED
    BY <1>8, <2>1, <2>2 DEF CreateHandover, RegenerateHandover, ExpireToken
<1>9. ASSUME NEW k \in Calls, NEW u \in Users, NEW c \in Claims, LookupScan(k, u, c)
      PROVE  TypeOK'
  <2>1. call' \in [Calls -> {Idle} \cup Scan \cup Resolution]
    <3>1. handover[c].token \in 1..MaxTokens
      BY <1>9 DEF LookupScan, Handover
    <3>2. QED
      BY <1>9, <3>1 DEF LookupScan, Scan
  <2>2. ListingsTypeOK'
    BY <1>9 DEF LookupScan, ListingsTypeOK, listingVars
  <2>3. QED
    BY <1>9, <2>1, <2>2 DEF LookupScan
<1>10. ASSUME NEW k \in Calls, ConfirmScan(k)
       PROVE  TypeOK'
  <2>1. call[k] \in Scan
    BY <1>10, CallType DEF ConfirmScan
  <2>2. call[k].claim \in Claims /\ call[k].user \in Users
    BY <2>1 DEF Scan
  <2>3. handover[call[k].claim].confirmed \subseteq Sides
    BY <2>2 DEF Handover
  <2>4. Confirmations(call[k]) \subseteq Sides
    BY <2>3 DEF Confirmations, Side, Sides
  <2>5. handover' \in [Claims -> Handover]
    <3>1. [handover[call[k].claim] EXCEPT !.confirmed = Confirmations(call[k]),
                                          !.done = Confirmations(call[k]) = Sides] \in Handover
      BY <2>2, <2>4, NewConfirmation
    <3>2. QED
      BY <1>10, <2>2, <3>1 DEF ConfirmScan, Completes
  <2>6. claim' \in [Claims -> Claim] /\ scanners' \in [Claims -> SUBSET Users]
    BY <1>10, <2>2 DEF ConfirmScan, Claim, ClaimStatus
  <2>7. listing' \in [Listings -> [status : Statuses, moderation : Moderation]]
    BY <1>10, <2>2, ClaimParts, SMTT(30) DEF ConfirmScan, ListingsTypeOK, Statuses
  <2>8. returns' \in [Listings -> Nat]
    BY <1>10, <2>2, ClaimParts DEF ConfirmScan
  <2>9. call' \in [Calls -> {Idle} \cup Scan \cup Resolution]
    BY <1>10 DEF ConfirmScan
  <2>10. ListingsTypeOK'
    BY <1>10, <2>7 DEF ConfirmScan, ListingsTypeOK
  <2>11. QED
    BY <1>10, <2>5, <2>6, <2>8, <2>9, <2>10 DEF ConfirmScan
<1>11. ASSUME NEW k \in Calls, RefuseScan(k)
       PROVE  TypeOK'
  BY <1>11 DEF RefuseScan, ListingsTypeOK, listingVars
<1>12. CASE UNCHANGED vars
  BY <1>12 DEF vars, listingVars, returnVars, ListingsTypeOK
<1>13. QED
  BY <1>1, <1>2, <1>3, <1>4, <1>5, <1>5a, <1>6, <1>7, <1>8, <1>9, <1>10, <1>11, <1>12 DEF Next

\* Type correctness of every behaviour of claims and handovers.
THEOREM TypeCorrect == Spec => []TypeOK
<1>1. Init => TypeOK
  BY InvInit DEF Inv
<1>2. QED
  BY <1>1, TypeStep, PTL DEF Spec

-----------------------------------------------------------------------------
\* A step that leaves handovers, scans, grants and publications alone and
\* completes no claim keeps the invariant.
LEMMA DecisionsKeepInv ==
  ASSUME Inv, TypeOK',
         UNCHANGED <<listing, handover, scanners, returns, grant, lastWord>>,
         \A c \in Claims : claim'[c].status = "completed" => claim[c].status = "completed"
  PROVE  Inv'
BY DEF Inv, BothConfirmedIsDone, SignedByScanners,
       GrantIsLastWord, OneReturnPerOpening

\* A step that changes neither confirmations nor completions keeps it, too.
LEMMA TokensKeepInv ==
  ASSUME Inv, TypeOK',
         UNCHANGED <<listing, claim, scanners, returns, grant, lastWord>>,
         \A c \in Claims : /\ handover'[c].confirmed = handover[c].confirmed
                           /\ handover'[c].done = handover[c].done
  PROVE  Inv'
BY DEF Inv, BothConfirmedIsDone, SignedByScanners,
       GrantIsLastWord, OneReturnPerOpening

\* New and expired tokens are such steps.
LEMMA TokensAlone ==
  ASSUME TypeOK, NEW c \in Claims, CreateHandover(c) \/ RegenerateHandover(c) \/ ExpireToken(c)
  PROVE  /\ UNCHANGED <<listing, claim, scanners, returns, grant, lastWord>>
         /\ \A x \in Claims : /\ handover'[x].confirmed = handover[x].confirmed
                              /\ handover'[x].done = handover[x].done
<1>1. UNCHANGED <<listing, claim, scanners, returns, grant, lastWord>>
  BY DEF CreateHandover, RegenerateHandover, ExpireToken, listingVars
<1>2. \A x \in Claims : handover[x] \in Handover
  BY DEF TypeOK
<1>3. CASE CreateHandover(c)
  BY <1>1, <1>2, <1>3 DEF CreateHandover, TypeOK, Handover
<1>4. CASE RegenerateHandover(c)
  BY <1>1, <1>2, <1>4 DEF RegenerateHandover, TypeOK, Handover
<1>5. CASE ExpireToken(c)
  BY <1>1, <1>2, <1>5 DEF ExpireToken, TypeOK, Handover
<1>6. QED
  BY <1>3, <1>4, <1>5

\* What an accepted scan does to the five tables it touches.
LEMMA ConfirmScanEffect ==
  ASSUME TypeOK, NEW k \in Calls, ConfirmScan(k)
  PROVE  LET s    == call[k]
             done == Confirmations(s) = Sides
         IN /\ s.claim \in Claims /\ s.user \in Users
            /\ ScanAccepted(s)
            /\ handover'[s.claim].confirmed = Confirmations(s)
            /\ handover'[s.claim].done = done
            /\ \A c \in Claims : c # s.claim => handover'[c] = handover[c]
            /\ scanners' = [scanners EXCEPT ![s.claim] = @ \cup {s.user}]
            /\ claim' = IF done THEN [claim EXCEPT ![s.claim].status = "completed"] ELSE claim
            /\ listing' = IF done THEN [listing EXCEPT ![ThingOf(s.claim)].status = "closed"]
                          ELSE listing
            /\ returns' = IF done THEN [returns EXCEPT ![ThingOf(s.claim)] = @ + 1] ELSE returns
            /\ UNCHANGED <<grant, lastWord>>
<1>1. call[k].claim \in Claims /\ call[k].user \in Users
  BY CallType DEF ConfirmScan, TypeOK, Scan
<1>2. handover[call[k].claim] \in Handover
  BY <1>1 DEF TypeOK
<1>3. /\ handover'[call[k].claim] =
           [handover[call[k].claim] EXCEPT !.confirmed = Confirmations(call[k]),
                                           !.done = (Confirmations(call[k]) = Sides)]
      /\ \A c \in Claims : c # call[k].claim => handover'[c] = handover[c]
  BY <1>1 DEF ConfirmScan, Completes, TypeOK
<1>4. /\ handover'[call[k].claim].confirmed = Confirmations(call[k])
      /\ handover'[call[k].claim].done = (Confirmations(call[k]) = Sides)
  BY <1>2, <1>3 DEF Handover
<1>5. QED
  BY <1>1, <1>3, <1>4 DEF ConfirmScan, Completes

\* An accepted scan keeps the invariant.
LEMMA ConfirmScanKeepsInv ==
  ASSUME Inv, TypeOK', NEW k \in Calls, ConfirmScan(k)
  PROVE  Inv'
<1> DEFINE s == call[k]
           done == Confirmations(s) = Sides
           l == ThingOf(s.claim)
<1>1. TypeOK
  BY DEF Inv
<1>2. /\ s.claim \in Claims /\ s.user \in Users
      /\ handover'[s.claim].confirmed = Confirmations(s)
      /\ handover'[s.claim].done = done
      /\ \A c \in Claims : c # s.claim => handover'[c] = handover[c]
      /\ scanners' = [scanners EXCEPT ![s.claim] = @ \cup {s.user}]
      /\ UNCHANGED <<grant, lastWord>>
  BY <1>1, ConfirmScanEffect
<1>3. /\ claim' = IF done THEN [claim EXCEPT ![s.claim].status = "completed"] ELSE claim
      /\ listing' = IF done THEN [listing EXCEPT ![l].status = "closed"] ELSE listing
      /\ returns' = IF done THEN [returns EXCEPT ![l] = @ + 1] ELSE returns
  BY <1>1, ConfirmScanEffect
<1>4. /\ l \in Listings
      /\ listing[l].status = "active" /\ ~handover[s.claim].done
  BY <1>1, <1>2, ConfirmScanEffect, ClaimParts DEF ScanAccepted, OnOffer
<1>5. Confirmations(s) = handover[s.claim].confirmed \cup
                           {IF s.user = Claimant(s.claim) THEN "claimant" ELSE "holder"}
  BY DEF Confirmations, Side
<1> HIDE DEF s, l
<1>6. BothConfirmedIsDone'
  BY <1>2 DEF Inv, BothConfirmedIsDone
<1>7. SignedByScanners'
  <2>1. /\ scanners'[s.claim] = scanners[s.claim] \cup {s.user}
        /\ \A c \in Claims : c # s.claim => scanners'[c] = scanners[c]
    BY <1>1, <1>2 DEF TypeOK
  <2>2. /\ "claimant" \in handover'[s.claim].confirmed => Claimant(s.claim) \in scanners'[s.claim]
        /\ "holder" \in handover'[s.claim].confirmed =>
             scanners'[s.claim] \ {Claimant(s.claim)} # {}
    BY <1>2, <1>5, <2>1 DEF Inv, SignedByScanners
  <2>3. QED
    BY <1>2, <2>1, <2>2 DEF Inv, SignedByScanners
<1>8. GrantIsLastWord'
  BY <1>2 DEF Inv, GrantIsLastWord
<1>9. OneReturnPerOpening'
  <2>1. CASE done
    <3>1. returns[l] = 0
      BY <1>4 DEF Inv, OneReturnPerOpening
    <3>2. returns'[l] = 1 /\ \A x \in Listings : x # l => returns'[x] = returns[x]
      BY <1>1, <1>3, <1>4, <2>1, <3>1 DEF TypeOK
    <3>3. listing'[l].status = "closed" /\ \A x \in Listings : x # l => listing'[x] = listing[x]
      BY <1>1, <1>3, <1>4, <2>1 DEF TypeOK, ListingsTypeOK
    <3>4. QED
      BY <3>2, <3>3 DEF Inv, OneReturnPerOpening
  <2>2. CASE ~done
    BY <1>3, <2>2 DEF Inv, OneReturnPerOpening
  <2>3. QED
    BY <2>1, <2>2
<1>10. QED
  BY <1>6, <1>7, <1>8, <1>9 DEF Inv

\* Every step of the system keeps the invariant.
LEMMA InvStep == Inv /\ [Next]_vars => Inv'
<1> SUFFICES ASSUME Inv, [Next]_vars PROVE Inv'
  OBVIOUS
<1>0. TypeOK /\ TypeOK'
  BY TypeStep DEF Inv
<1>1. ASSUME ListingStep
      PROVE  Inv'
  <2>1. OneReturnPerOpening'
    BY <1>0, <1>1 DEF ListingStep, Inv, OneReturnPerOpening
  <2>2. QED
    BY <1>0, <1>1, <2>1 DEF ListingStep, returnVars, Inv, BothConfirmedIsDone,
                            SignedByScanners, GrantIsLastWord
<1>2. ASSUME NEW c \in Claims, CreateClaim(c) \/ SaveAnswers(c) \/ SubmitClaim(c)
      PROVE  Inv'
  <2>1. UNCHANGED <<listing, handover, scanners, returns, grant, lastWord>>
    BY <1>2 DEF CreateClaim, SaveAnswers, SubmitClaim, listingVars
  <2>2. \A x \in Claims : claim'[x].status = "completed" => claim[x].status = "completed"
    <3>1. /\ \A x \in Claims : x # c => claim'[x] = claim[x]
          /\ claim'[c].status \in {"draft", "under_review", claim[c].status}
      <4> claim[c] \in Claim
        BY <1>0 DEF TypeOK
      <4>1. CASE CreateClaim(c)
        BY <1>0, <4>1 DEF CreateClaim, TypeOK, Claim
      <4>2. CASE SaveAnswers(c)
        BY <1>0, <4>2 DEF SaveAnswers, TypeOK, Claim
      <4>3. CASE SubmitClaim(c)
        BY <1>0, <4>3 DEF SubmitClaim, TypeOK, Claim
      <4>4. QED
        BY <1>2, <4>1, <4>2, <4>3
    <3>2. QED
      BY <3>1
  <2>3. QED
    BY <1>0, <2>1, <2>2, DecisionsKeepInv
<1>3. ASSUME NEW u \in Users, NEW c \in Claims,
             NEW decision \in {"approved", "rejected", "needs_more_info"},
             DecideClaim(u, c, decision)
      PROVE  Inv'
  <2>1. UNCHANGED <<listing, handover, scanners, returns, grant, lastWord>>
    BY <1>3 DEF DecideClaim, listingVars
  <2>2. \A x \in Claims : claim'[x].status = "completed" => claim[x].status = "completed"
    BY <1>0, <1>3 DEF DecideClaim, TypeOK, Claim
  <2>3. QED
    BY <1>0, <2>1, <2>2, DecisionsKeepInv
<1>4. ASSUME NEW c \in Claims, AppealClaim(c)
      PROVE  Inv'
  BY <1>0, <1>4, DecisionsKeepInv DEF AppealClaim, listingVars
<1>5. ASSUME NEW k \in Calls, NEW m \in Moderators, NEW c \in Claims,
             NEW decision \in Decisions, ReadDispute(k, m, c, decision)
      PROVE  Inv'
  BY <1>0, <1>5, DecisionsKeepInv DEF ReadDispute, listingVars
<1>5a. ASSUME NEW k \in Calls, ReadDisputed(k)
       PROVE  Inv'
  BY <1>0, <1>5a, DecisionsKeepInv DEF ReadDisputed, listingVars
<1>6. ASSUME NEW k \in Calls, CommitDispute(k)
      PROVE  Inv'
  <2>1. call[k].status # None => call[k].status # "completed"
    <3>1. call[k] \in Resolution
      BY <1>0, <1>6, CallType DEF CommitDispute, TypeOK
    <3>2. QED
      BY <3>1 DEF Resolution
  <2>2. \A x \in Claims : claim'[x].status = "completed" => claim[x].status = "completed"
    BY <1>0, <1>6, <2>1 DEF CommitDispute, TypeOK, Claim
  <2>3. QED
    BY <1>0, <1>6, <2>2, DecisionsKeepInv DEF CommitDispute, listingVars
<1>7. ASSUME NEW u \in Talkers, NEW c \in Claims, NEW consent \in BOOLEAN,
             ContactConsent(u, c, consent)
      PROVE  Inv'
  <2>1. GrantIsLastWord'
    <3>1. /\ \A x \in Claims : x # c => grant'[x] = grant[x] /\ lastWord'[x] = lastWord[x]
          /\ u = Claimant(c) => /\ grant'[c].claimant = consent
                                /\ grant'[c].holder = grant[c].holder
                                /\ lastWord'[c] = [lastWord[c] EXCEPT !["claimant"] = consent]
          /\ u # Claimant(c) => /\ grant'[c].holder = consent
                                /\ grant'[c].claimant = grant[c].claimant
                                /\ lastWord'[c] = [lastWord[c] EXCEPT !["holder"] = consent]
      BY <1>0, <1>7 DEF ContactConsent, Consented, TypeOK, Grant
    <3>2. lastWord[c] \in [Sides -> BOOLEAN] /\ "claimant" \in Sides /\ "holder" \in Sides
      BY <1>0 DEF TypeOK, Sides
    <3>3. /\ grant'[c].claimant = lastWord'[c]["claimant"]
          /\ grant'[c].holder = lastWord'[c]["holder"]
      BY <3>1, <3>2 DEF Inv, GrantIsLastWord
    <3>4. QED
      BY <3>1, <3>3 DEF Inv, GrantIsLastWord
  <2>2. QED
    BY <1>0, <1>7, <2>1 DEF ContactConsent, listingVars, Inv, BothConfirmedIsDone,
                            SignedByScanners, OneReturnPerOpening
<1>8. ASSUME NEW c \in Claims, CreateHandover(c) \/ RegenerateHandover(c) \/ ExpireToken(c)
      PROVE  Inv'
  BY <1>0, <1>8, TokensAlone, TokensKeepInv
<1>9. ASSUME NEW k \in Calls, NEW u \in Users, NEW c \in Claims, LookupScan(k, u, c)
      PROVE  Inv'
  BY <1>0, <1>9, DecisionsKeepInv DEF LookupScan, listingVars
<1>10. ASSUME NEW k \in Calls, ConfirmScan(k)
       PROVE  Inv'
  BY <1>0, <1>10, ConfirmScanKeepsInv
<1>11. ASSUME NEW k \in Calls, RefuseScan(k)
       PROVE  Inv'
  BY <1>0, <1>11, DecisionsKeepInv DEF RefuseScan, listingVars
<1>12. CASE UNCHANGED vars
  BY <1>0, <1>12, DecisionsKeepInv DEF vars, listingVars, returnVars
<1>13. QED
  BY <1>1, <1>2, <1>3, <1>4, <1>5, <1>5a, <1>6, <1>7, <1>8, <1>9, <1>10, <1>11, <1>12 DEF Next

\* The invariant holds in every state.
LEMMA InvAlways == Spec => []Inv
<1>1. QED
  BY InvInit, InvStep, PTL DEF Spec

\* No handover is completed without the scans of the claimant and of another.
THEOREM ReturnTakesTwo == Spec => []TwoPersonReturn
<1>1. Inv => TwoPersonReturn
  BY DEF Inv, TwoPersonReturn, BothConfirmedIsDone, SignedByScanners, Sides
<1>2. QED
  BY <1>1, InvAlways, PTL

\* Two confirmations and a completed handover are one and the same thing.
THEOREM ConfirmationsComplete == Spec => []BothConfirmedIsDone
<1>1. QED
  BY InvAlways, PTL DEF Inv

\* A publication yields at most one return each time it is opened.
THEOREM ReturnedOnce == Spec => []OneReturnPerOpening
<1>1. QED
  BY InvAlways, PTL DEF Inv

\* Contacts are open only while both sides' last word is yes.
THEOREM ContactsAreMutual == Spec => []ContactsNeedBothLastWords
<1>1. Inv => ContactsNeedBothLastWords
  BY DEF Inv, ContactsNeedBothLastWords, ContactsUnlocked, GrantIsLastWord, Sides
<1>2. QED
  BY <1>1, InvAlways, PTL

\* A code that was replaced or has expired when the scan has its locks records
\* nothing.
THEOREM OldQrIsDead == Spec => OldQrRecordsNothing
<1> DEFINE Step == \A k \in Calls :
                     LET s == call[k]
                     IN (/\ s.op = "scan" /\ call'[k] = Idle
                         /\ s.token # handover[s.claim].token \/ ~handover[s.claim].fresh)
                        => handover' = handover /\ claim' = claim
<1>1. TypeOK /\ [Next]_vars => [Step]_vars
  <2> SUFFICES ASSUME TypeOK, Next, NEW k \in Calls, call[k].op = "scan", call'[k] = Idle,
                      \/ call[k].token # handover[call[k].claim].token
                      \/ ~handover[call[k].claim].fresh
               PROVE  handover' = handover /\ claim' = claim
    OBVIOUS
  <2>1. call[k] # Idle
    BY DEF Idle
  <2>2. call' # call
    BY <2>1
  <2>3. \/ \E j \in Calls, u \in Users, c \in Claims : LookupScan(j, u, c)
        \/ \E j \in Calls, m \in Moderators, c \in Claims, d \in Decisions : ReadDispute(j, m, c, d)
        \/ \E j \in Calls : ReadDisputed(j) \/ CommitDispute(j) \/ ConfirmScan(j) \/ RefuseScan(j)
    BY <2>2, Zenon DEF Next, ListingStep, returnVars, CreateClaim, SaveAnswers, SubmitClaim,
       DecideClaim, AppealClaim, ContactConsent, CreateHandover, RegenerateHandover, ExpireToken
  <2>4. ASSUME NEW j \in Calls, CommitDispute(j) \/ ConfirmScan(j)
        PROVE  j = k
    BY <2>1, <2>4 DEF CommitDispute, ConfirmScan, TypeOK
  <2>5. ASSUME NEW j \in Calls, CommitDispute(j)
        PROVE  FALSE
    BY <2>4, <2>5 DEF CommitDispute
  <2>6. ASSUME NEW j \in Calls, ConfirmScan(j)
        PROVE  FALSE
    BY <2>4, <2>6 DEF ConfirmScan, ScanAccepted, Live
  <2>7. QED
    BY <2>3, <2>5, <2>6 DEF LookupScan, ReadDispute, ReadDisputed, RefuseScan
<1>2. QED
  BY <1>1, TypeCorrect, PTL DEF Spec, OldQrRecordsNothing

-----------------------------------------------------------------------------
(***************************************************************************)
(* Refinement.  A publication's step is an Offer of the ledger, a scan     *)
(* that is accepted signs it, and every other step leaves it alone.        *)
(***************************************************************************)
ledgerSigned   == [c \in Claims |-> handover[c].confirmed]
ledgerReturned == {c \in Claims : handover[c].done}
ledgerOffered  == {l \in Listings : listing[l].status = "active"}

\* The initial states are those of the ledger.
LEMMA InitIsLedgerInit == Init => Ledger!LedgerInit
BY DEF Init, ListingsInit, Ledger!LedgerInit

\* Opening and closing a publication is an offer of the ledger or its end.
LEMMA ListingStepIsOffer ==
  ASSUME ListingStep
  PROVE  Ledger!LedgerNext
BY DEF ListingStep, returnVars, Ledger!LedgerNext, Ledger!Offer

\* A signature that the ledger admits, whole or half.
LEMMA SignatureIsLedgerStep ==
  ASSUME NEW c \in Claims, NEW side \in Sides,
         c \notin ledgerReturned, ThingOf(c) \in ledgerOffered,
         ledgerSigned' = [ledgerSigned EXCEPT ![c] = @ \cup {side}],
         IF ledgerSigned'[c] = Sides
         THEN /\ ledgerReturned' = ledgerReturned \cup {c}
              /\ ledgerOffered' = ledgerOffered \ {ThingOf(c)}
         ELSE ledgerReturned' = ledgerReturned /\ ledgerOffered' = ledgerOffered
  PROVE  Ledger!LedgerNext
<1>1. Ledger!Sign(c, side)
  BY Zenon DEF Ledger!Sign, Ledger!Sides, Sides, ledgerSigned, ledgerReturned, ledgerOffered
<1>2. QED
  BY <1>1 DEF Ledger!LedgerNext, Ledger!Sides, Sides

\* A confirmation is a signature of the ledger.
LEMMA ConfirmIsSign ==
  ASSUME Inv, NEW k \in Calls, ConfirmScan(k)
  PROVE  Ledger!LedgerNext
<1> DEFINE s    == call[k]
           side == IF s.user = Claimant(s.claim) THEN "claimant" ELSE "holder"
           done == Confirmations(s) = Sides
           l    == ThingOf(s.claim)
<1>1. TypeOK
  BY DEF Inv
<1>2. /\ s.claim \in Claims
      /\ handover'[s.claim].confirmed = Confirmations(s)
      /\ handover'[s.claim].done = done
      /\ \A c \in Claims : c # s.claim => handover'[c] = handover[c]
      /\ listing' = IF done THEN [listing EXCEPT ![l].status = "closed"] ELSE listing
  BY <1>1, ConfirmScanEffect
<1>3. l \in Listings /\ listing[l].status = "active" /\ ~handover[s.claim].done
  BY <1>1, <1>2, ConfirmScanEffect, ClaimParts DEF ScanAccepted, OnOffer
<1>4. Confirmations(s) = handover[s.claim].confirmed \cup {side}
  BY DEF Confirmations, Side
<1>5. s.claim \in Claims /\ side \in Sides
  BY <1>2 DEF Sides
<1> HIDE DEF s, side, l
<1>6. ledgerSigned' = [ledgerSigned EXCEPT ![s.claim] = @ \cup {side}]
  BY <1>2, <1>4 DEF ledgerSigned
<1>7. ledgerSigned'[s.claim] = Confirmations(s)
  BY <1>2 DEF ledgerSigned
<1>8. s.claim \notin ledgerReturned /\ ThingOf(s.claim) \in ledgerOffered
  BY <1>2, <1>3 DEF ledgerReturned, ledgerOffered, l
<1>9. CASE done
  <2>1. ledgerReturned' = ledgerReturned \cup {s.claim}
    BY <1>2, <1>9 DEF ledgerReturned
  <2>2. ledgerOffered' = ledgerOffered \ {l}
    BY <1>1, <1>2, <1>3, <1>9 DEF ledgerOffered, TypeOK, ListingsTypeOK
  <2>3. QED
    BY <1>5, <1>6, <1>7, <1>8, <1>9, <2>1, <2>2, SignatureIsLedgerStep DEF l
<1>10. CASE ~done
  <2>1. ledgerReturned' = ledgerReturned /\ ledgerOffered' = ledgerOffered
    BY <1>2, <1>3, <1>10 DEF ledgerReturned, ledgerOffered
  <2>2. QED
    BY <1>5, <1>6, <1>7, <1>8, <1>10, <2>1, SignatureIsLedgerStep DEF l
<1>11. QED
  BY <1>9, <1>10

\* Every step of the system is a step of the ledger or leaves it alone.
LEMMA StepIsLedgerStep ==
  Inv /\ [Next]_vars =>
    [Ledger!LedgerNext]_<<ledgerSigned, ledgerReturned, ledgerOffered>>
<1> SUFFICES ASSUME Inv, [Next]_vars
             PROVE  [Ledger!LedgerNext]_<<ledgerSigned, ledgerReturned, ledgerOffered>>
  OBVIOUS
<1> DEFINE Same == UNCHANGED <<ledgerSigned, ledgerReturned, ledgerOffered>>
<1>1. ASSUME UNCHANGED <<listing, handover>>
      PROVE  Same
  BY <1>1 DEF ledgerSigned, ledgerReturned, ledgerOffered
<1>2. ASSUME NEW c \in Claims, CreateHandover(c) \/ RegenerateHandover(c) \/ ExpireToken(c)
      PROVE  Same
  <2>1. /\ listing' = listing
        /\ \A x \in Claims : /\ handover'[x].confirmed = handover[x].confirmed
                             /\ handover'[x].done = handover[x].done
    BY <1>2, TokensAlone DEF Inv
  <2>2. QED
    BY <2>1 DEF ledgerSigned, ledgerReturned, ledgerOffered
<1>3. ASSUME NEW k \in Calls, ConfirmScan(k)
      PROVE  Ledger!LedgerNext
  BY <1>3, ConfirmIsSign
<1>4. ASSUME ListingStep
      PROVE  Ledger!LedgerNext
  BY <1>4, ListingStepIsOffer
<1> HIDE DEF Same
<1>5. Ledger!LedgerNext \/ Same
  <2>1. CASE UNCHANGED vars
    BY <1>1, <2>1 DEF vars, listingVars, returnVars
  <2>2. CASE Next
    BY <1>1, <1>2, <1>3, <1>4, <2>2, Zenon
       DEF Next, CreateClaim, SaveAnswers, SubmitClaim, DecideClaim, AppealClaim, ReadDispute,
           ReadDisputed, CommitDispute, ContactConsent, LookupScan, RefuseScan, listingVars
  <2>3. QED
    BY <2>1, <2>2
<1>6. QED
  BY <1>5 DEF Same

\* The claims and handovers of the bureau implement the two-signature ledger.
THEOREM ReturnsImplementLedger == Spec => ReturnsAreLedger
<1>1. QED
  BY InvAlways, InitIsLedgerInit, StepIsLedgerStep, PTL
     DEF Spec, ReturnsAreLedger, Ledger!LedgerSpec, ledgerSigned, ledgerReturned, ledgerOffered
=============================================================================
