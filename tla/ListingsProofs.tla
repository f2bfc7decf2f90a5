--------------------------- MODULE ListingsProofs ---------------------------
(***************************************************************************)
(* Proofs about Listings, for every number of accounts, publications,      *)
(* photographs and overlapping requests.                                   *)
(***************************************************************************)
EXTENDS Listings, TLAPS

\* A free slot holds no request.
LEMMA IdleIsIdle == Idle.op = "idle" /\ Idle \notin Write \cup Deletion
BY DEF Idle, Write, Deletion

\* A request that is a write has the type of a write, whatever else is in flight.
LEMMA WriteType ==
  ASSUME NEW x \in {Idle} \cup Write \cup Deletion
  PROVE  /\ x.op \in {"update", "complete"} => x \in Write
         /\ x.op = "delete" => x \in Deletion
BY DEF Idle, Write, Deletion

\* Attaching and detaching photographs keeps the shape of the table.
LEMMA ReattachType ==
  ASSUME ListingsTypeOK, NEW l \in Listings, NEW a \in SUBSET Photos, NEW d \in SUBSET Photos
  PROVE  Reattach(l, a, d) \in
           [Photos -> [status : PhotoStatus, listing : Listings \cup {None},
                       owner : Users \cup {None}]]
BY DEF Reattach, ListingsTypeOK

\* Every variable keeps the shape of its table (type correctness).
THEOREM ListingsTypeStep == ListingsTypeOK /\ [ListingsNext]_listingVars => ListingsTypeOK'
<1> SUFFICES ASSUME ListingsTypeOK, [ListingsNext]_listingVars PROVE ListingsTypeOK'
  OBVIOUS
<1>1. ASSUME NEW l \in Listings, NEW publish \in BOOLEAN, NEW media \in SUBSET Photos,
             CreateListing(l, publish, media)
      PROVE  ListingsTypeOK'
  <2>1. photo' \in [Photos -> [status : PhotoStatus, listing : Listings \cup {None},
                               owner : Users \cup {None}]]
    BY <1>1, ReattachType DEF CreateListing
  <2>2. QED
    BY <1>1, <2>1 DEF ListingsTypeOK, CreateListing, Statuses, Moderation
<1>2. ASSUME NEW l \in Listings, ImportListing(l)
      PROVE  ListingsTypeOK'
  BY <1>2 DEF ListingsTypeOK, ImportListing, Statuses, Moderation
<1>3. ASSUME NEW r \in Requests, NEW u \in Users, NEW l \in Listings,
             NEW status \in Requested \cup {None}, NEW media \in (SUBSET Photos) \cup {None},
             NEW public \in BOOLEAN, ReadUpdate(r, u, l, status, media, public)
      PROVE  ListingsTypeOK'
  <2>1. Attached(l) \subseteq Photos
    BY DEF Attached
  <2>2. media # None => media \subseteq Photos
    OBVIOUS
  <2>3. req' \in [Requests -> {Idle} \cup Write \cup Deletion]
    BY <1>3, <2>1, <2>2 DEF ListingsTypeOK, ReadUpdate, Write, Resubmits
  <2>4. QED
    BY <1>3, <2>3 DEF ListingsTypeOK, ReadUpdate
<1>4. ASSUME NEW r \in Requests, NEW u \in Users, NEW l \in Listings, NEW p \in Photos,
             ReadComplete(r, u, l, p)
      PROVE  ListingsTypeOK'
  <2>1. req' \in [Requests -> {Idle} \cup Write \cup Deletion]
    BY <1>4 DEF ListingsTypeOK, ReadComplete, Write
  <2>2. QED
    BY <1>4, <2>1 DEF ListingsTypeOK, ReadComplete
<1>5. ASSUME NEW r \in Requests, CommitWrite(r)
      PROVE  ListingsTypeOK'
  <2>1. req[r] \in Write
    BY <1>5, WriteType DEF CommitWrite, ListingsTypeOK
  <2>2. listing' \in [Listings -> [status : Statuses, moderation : Moderation]]
    BY <1>5, <2>1 DEF CommitWrite, ListingsTypeOK, Write, Statuses, Requested, Moderation
  <2>3. photo' \in [Photos -> [status : PhotoStatus, listing : Listings \cup {None},
                               owner : Users \cup {None}]]
    <3>1. CASE req[r].op = "complete"
      BY <1>5, <2>1, <3>1 DEF CommitWrite, ListingsTypeOK, Write, PhotoStatus
    <3>2. CASE req[r].op = "update"
      BY <1>5, <2>1, <3>2, ReattachType DEF CommitWrite, Write
    <3>3. QED
      BY <3>1, <3>2, <1>5 DEF CommitWrite
  <2>4. changed' \in [Listings -> BOOLEAN]
    BY <1>5, <2>1 DEF CommitWrite, ListingsTypeOK, Write
  <2>5. QED
    BY <1>5, <2>2, <2>3, <2>4 DEF CommitWrite, ListingsTypeOK
<1>6. ASSUME NEW u \in Users, NEW p \in Photos, Upload(u, p)
      PROVE  ListingsTypeOK'
  BY <1>6 DEF ListingsTypeOK, Upload, PhotoStatus
<1>7. ASSUME NEW p \in Photos, NEW outcome \in PhotoStatus, ProcessMedia(p, outcome)
      PROVE  ListingsTypeOK'
  BY <1>7 DEF ListingsTypeOK, ProcessMedia
<1>8. ASSUME NEW m \in Moderators, NEW l \in Listings, NEW decision \in Decisions,
             ModerateListing(m, l, decision)
      PROVE  ListingsTypeOK'
  <2>1. listing' \in [Listings -> [status : Statuses, moderation : Moderation]]
    <3>1. Ruling[decision] \in Moderation
      BY DEF Ruling, Decisions, Moderation
    <3>2. QED
      <4>1. listing'[l] \in [status : Statuses, moderation : Moderation]
        BY <1>8, <3>1 DEF ListingsTypeOK, ModerateListing, Statuses
      <4>2. QED
        BY <1>8, <4>1 DEF ListingsTypeOK, ModerateListing
  <2>2. verdict' \in [Listings -> Decisions \cup {"none"}] /\ changed' \in [Listings -> BOOLEAN]
    BY <1>8 DEF ListingsTypeOK, ModerateListing
  <2>3. QED
    BY <1>8, <2>1, <2>2 DEF ListingsTypeOK, ModerateListing
<1>9. ASSUME NEW u \in Invitees, NEW operator \in BOOLEAN, InviteMember(u, operator)
      PROVE  ListingsTypeOK'
  BY <1>9, ListingsAssumption DEF ListingsTypeOK, InviteMember
<1>10. ASSUME NEW r \in Requests, NEW u \in Leavers, ReadDeleteAccount(r, u)
       PROVE  ListingsTypeOK'
  <2>1. req' \in [Requests -> {Idle} \cup Write \cup Deletion]
    BY <1>10, ListingsAssumption DEF ListingsTypeOK, ReadDeleteAccount, Deletion
  <2>2. QED
    BY <1>10, <2>1 DEF ListingsTypeOK, ReadDeleteAccount
<1>11. ASSUME NEW r \in Requests, CommitDeleteAccount(r)
       PROVE  ListingsTypeOK'
  <2>1. req[r] \in Deletion
    BY <1>11, WriteType DEF CommitDeleteAccount, ListingsTypeOK
  <2>2. listing' \in [Listings -> [status : Statuses, moderation : Moderation]]
    BY <1>11 DEF ListingsTypeOK, CommitDeleteAccount, Statuses
  <2>3. QED
    BY <1>11, <2>1, <2>2 DEF ListingsTypeOK, CommitDeleteAccount, Deletion
<1>12. CASE UNCHANGED listingVars
  BY <1>12 DEF ListingsTypeOK, listingVars
<1>13. QED
  BY <1>1, <1>2, <1>3, <1>4, <1>5, <1>6, <1>7, <1>8, <1>9, <1>10, <1>11, <1>12 DEF ListingsNext

\* The initial states have the shapes.
LEMMA ListingsTypeInit == ListingsInit => ListingsTypeOK
BY DEF ListingsInit, ListingsTypeOK, Statuses, Moderation, PhotoStatus

\* Type correctness of every behaviour of the publications.
THEOREM ListingsTypeCorrect == ListingsSpec => []ListingsTypeOK
<1>1. QED
  BY ListingsTypeInit, ListingsTypeStep, PTL DEF ListingsSpec

-----------------------------------------------------------------------------
(***************************************************************************)
(* PublicOnlyByLastVerdict is not inductive: whether a commit may publish  *)
(* a card depends on what its request read.  The invariant adds that an    *)
(* approval in a row is the moderator's, that the "auto_approved" of a     *)
(* draft never stands in an active row, and that a request which is going  *)
(* to activate a publication either sets it back to pending or has read a  *)
(* row that was not auto-approved and cannot become so again.              *)
(***************************************************************************)
ApprovedByVerdict ==
  \A l \in Listings : listing[l].moderation = "approved" => verdict[l] = "approve"

ActiveIsModerated ==
  \A l \in Listings : listing[l].status = "active" => listing[l].moderation # "auto_approved"

WritesAreModerated ==
  \A r \in Requests : req[r].op \in {"update", "complete"} =>
    /\ listing[req[r].listing].status # "absent"
    /\ req[r].status = "active" /\ ~req[r].pending =>
         listing[req[r].listing].moderation # "auto_approved"

ListingsInv == ListingsTypeOK /\ ApprovedByVerdict /\ ActiveIsModerated /\ WritesAreModerated

\* The initial states satisfy the invariant.
LEMMA ListingsInvInit == ListingsInit => ListingsInv
BY ListingsTypeInit
   DEF ListingsInit, ListingsInv, ApprovedByVerdict, ActiveIsModerated, WritesAreModerated, Idle

\* A step that leaves the requests alone, never makes a row absent and never
\* marks one auto_approved unless it was absent keeps the requests safe.
LEMMA RequestsStaySafe ==
  ASSUME ListingsInv, ListingsTypeOK', req' = req,
         \A l \in Listings : listing[l].status # "absent" =>
           /\ listing'[l].status # "absent"
           /\ listing[l].moderation # "auto_approved" => listing'[l].moderation # "auto_approved"
  PROVE  WritesAreModerated'
<1> SUFFICES ASSUME NEW r \in Requests, req[r].op \in {"update", "complete"}
             PROVE  /\ listing'[req[r].listing].status # "absent"
                    /\ req[r].status = "active" /\ ~req[r].pending =>
                         listing'[req[r].listing].moderation # "auto_approved"
  BY DEF WritesAreModerated
<1>1. req[r].listing \in Listings
  BY WriteType DEF ListingsInv, ListingsTypeOK, Write
<1>2. QED
  BY <1>1 DEF ListingsInv, WritesAreModerated

\* The same for a step that ends one request.
LEMMA OthersStaySafe ==
  ASSUME ListingsInv, ListingsTypeOK', NEW s \in Requests, req' = [req EXCEPT ![s] = Idle],
         \A l \in Listings : listing[l].status # "absent" =>
           /\ listing'[l].status # "absent"
           /\ listing[l].moderation # "auto_approved" => listing'[l].moderation # "auto_approved"
  PROVE  WritesAreModerated'
<1> SUFFICES ASSUME NEW r \in Requests, req'[r].op \in {"update", "complete"}
             PROVE  /\ listing'[req'[r].listing].status # "absent"
                    /\ req'[r].status = "active" /\ ~req'[r].pending =>
                         listing'[req'[r].listing].moderation # "auto_approved"
  BY DEF WritesAreModerated
<1>1. r # s /\ req'[r] = req[r]
  BY IdleIsIdle DEF ListingsInv, ListingsTypeOK
<1>2. req[r].listing \in Listings
  BY <1>1, WriteType DEF ListingsInv, ListingsTypeOK, Write
<1>3. QED
  BY <1>1, <1>2 DEF ListingsInv, WritesAreModerated

\* The same for a step that begins one and leaves the rows alone.
LEMMA NewRequestIsSafe ==
  ASSUME ListingsInv, NEW s \in Requests, NEW w, req' = [req EXCEPT ![s] = w],
         listing' = listing,
         w.op \in {"update", "complete"} =>
           /\ listing[w.listing].status # "absent"
           /\ w.status = "active" /\ ~w.pending => listing[w.listing].moderation # "auto_approved"
  PROVE  WritesAreModerated'
<1> SUFFICES ASSUME NEW r \in Requests, req'[r].op \in {"update", "complete"}
             PROVE  /\ listing'[req'[r].listing].status # "absent"
                    /\ req'[r].status = "active" /\ ~req'[r].pending =>
                         listing'[req'[r].listing].moderation # "auto_approved"
  BY DEF WritesAreModerated
<1>1. CASE r = s
  <2>1. req'[r] = w
    BY <1>1 DEF ListingsInv, ListingsTypeOK
  <2>2. QED
    BY <2>1
<1>2. CASE r # s
  <2>1. req'[r] = req[r]
    BY <1>2 DEF ListingsInv, ListingsTypeOK
  <2>2. QED
    BY <2>1 DEF ListingsInv, WritesAreModerated
<1>3. QED
  BY <1>1, <1>2

\* The rows that a commit leaves behind: active only if moderated.
LEMMA CommittedRows ==
  ASSUME ListingsInv, ListingsTypeOK', NEW r \in Requests, CommitWrite(r)
  PROVE  /\ ApprovedByVerdict'
         /\ ActiveIsModerated'
         /\ \A l \in Listings : listing[l].status # "absent" =>
              /\ listing'[l].status # "absent"
              /\ listing[l].moderation # "auto_approved" =>
                   listing'[l].moderation # "auto_approved"
<1> DEFINE w == req[r]
<1>1. w \in Write /\ w.listing \in Listings /\ w.status \in Requested \cup {None}
  BY WriteType DEF ListingsInv, ListingsTypeOK, CommitWrite, Write
<1>2. /\ listing'[w.listing].status =
           IF w.status = None THEN listing[w.listing].status ELSE w.status
      /\ listing'[w.listing].moderation =
           IF w.pending THEN "pending" ELSE listing[w.listing].moderation
      /\ \A l \in Listings : l # w.listing => listing'[l] = listing[l]
  BY <1>1 DEF ListingsInv, ListingsTypeOK, CommitWrite
<1>3. /\ listing[w.listing].status # "absent"
      /\ w.status = "active" /\ ~w.pending => listing[w.listing].moderation # "auto_approved"
  BY DEF ListingsInv, WritesAreModerated, CommitWrite
<1>4. verdict' = verdict
  BY DEF CommitWrite
<1> HIDE DEF w
<1>5. ApprovedByVerdict'
  BY <1>1, <1>2, <1>4 DEF ListingsInv, ApprovedByVerdict
<1>6. ActiveIsModerated'
  BY <1>1, <1>2, <1>3 DEF ListingsInv, ActiveIsModerated, Requested
<1>7. QED
  BY <1>1, <1>2, <1>3, <1>5, <1>6 DEF Requested

\* Each step of the publications keeps the invariant.
LEMMA ListingsInvStep == ListingsInv /\ [ListingsNext]_listingVars => ListingsInv'
<1> SUFFICES ASSUME ListingsInv, [ListingsNext]_listingVars PROVE ListingsInv'
  OBVIOUS
<1>0. ListingsTypeOK'
  BY ListingsTypeStep DEF ListingsInv
<1> USE DEF ListingsInv
<1>1. ASSUME NEW l \in Listings, NEW publish \in BOOLEAN, NEW media \in SUBSET Photos,
             CreateListing(l, publish, media)
      PROVE  ListingsInv'
  <2>1. listing[l].status = "absent"
    BY <1>1 DEF CreateListing
  <2>2. \A k \in Listings : k # l => listing'[k] = listing[k]
    BY <1>1 DEF CreateListing, ListingsTypeOK
  <2>3. /\ listing'[l].moderation # "approved"
        /\ listing'[l].status = "active" => listing'[l].moderation # "auto_approved"
        /\ verdict' = verdict /\ req' = req
    BY <1>1 DEF CreateListing, ListingsTypeOK
  <2>4. ApprovedByVerdict' /\ ActiveIsModerated'
    BY <2>2, <2>3 DEF ApprovedByVerdict, ActiveIsModerated
  <2>5. WritesAreModerated'
    BY <1>0, <2>1, <2>2, <2>3, RequestsStaySafe
  <2>6. QED
    BY <1>0, <2>4, <2>5
<1>2. ASSUME NEW l \in Listings, ImportListing(l)
      PROVE  ListingsInv'
  <2>1. listing[l].status = "absent"
    BY <1>2 DEF ImportListing
  <2>2. \A k \in Listings : k # l => listing'[k] = listing[k]
    BY <1>2 DEF ImportListing, ListingsTypeOK
  <2>3. /\ listing'[l].moderation = "pending"
        /\ verdict' = verdict /\ req' = req
    BY <1>2 DEF ImportListing, ListingsTypeOK
  <2>4. ApprovedByVerdict' /\ ActiveIsModerated'
    BY <2>2, <2>3 DEF ApprovedByVerdict, ActiveIsModerated
  <2>5. WritesAreModerated'
    BY <1>0, <2>1, <2>2, <2>3, RequestsStaySafe
  <2>6. QED
    BY <1>0, <2>4, <2>5
<1>3. ASSUME NEW r \in Requests, NEW u \in Users, NEW l \in Listings,
             NEW status \in Requested \cup {None}, NEW media \in (SUBSET Photos) \cup {None},
             NEW public \in BOOLEAN, ReadUpdate(r, u, l, status, media, public)
      PROVE  ListingsInv'
  <2>1. listing' = listing /\ verdict' = verdict /\ req' = [req EXCEPT ![r] = req'[r]]
    BY <1>3 DEF ReadUpdate, ListingsTypeOK
  <2>2. ApprovedByVerdict' /\ ActiveIsModerated'
    BY <2>1 DEF ApprovedByVerdict, ActiveIsModerated
  <2>3. /\ listing[req'[r].listing].status # "absent"
        /\ req'[r].status = "active" /\ ~req'[r].pending =>
             listing[req'[r].listing].moderation # "auto_approved"
    BY <1>3, ListingsAssumption DEF ReadUpdate, Resubmits, ListingsTypeOK
  <2>4. WritesAreModerated'
    BY <2>1, <2>3, NewRequestIsSafe
  <2>5. QED
    BY <1>0, <2>2, <2>4
<1>4. ASSUME NEW r \in Requests, NEW u \in Users, NEW l \in Listings, NEW p \in Photos,
             ReadComplete(r, u, l, p)
      PROVE  ListingsInv'
  <2>1. listing' = listing /\ verdict' = verdict /\ req' = [req EXCEPT ![r] = req'[r]]
    BY <1>4 DEF ReadComplete, ListingsTypeOK
  <2>2. ApprovedByVerdict' /\ ActiveIsModerated'
    BY <2>1 DEF ApprovedByVerdict, ActiveIsModerated
  <2>3. /\ listing[req'[r].listing].status # "absent"
        /\ req'[r].status # "active"
    BY <1>4, ListingsAssumption DEF ReadComplete, ListingsTypeOK
  <2>4. WritesAreModerated'
    BY <2>1, <2>3, NewRequestIsSafe
  <2>5. QED
    BY <1>0, <2>2, <2>4
<1>5. ASSUME NEW r \in Requests, CommitWrite(r)
      PROVE  ListingsInv'
  <2>1. req' = [req EXCEPT ![r] = Idle]
    BY <1>5 DEF CommitWrite
  <2>2. QED
    BY <1>0, <1>5, <2>1, CommittedRows, OthersStaySafe
<1>6. ASSUME NEW u \in Users, NEW p \in Photos, Upload(u, p)
      PROVE  ListingsInv'
  BY <1>0, <1>6 DEF Upload, ApprovedByVerdict, ActiveIsModerated, WritesAreModerated
<1>7. ASSUME NEW p \in Photos, NEW outcome \in PhotoStatus, ProcessMedia(p, outcome)
      PROVE  ListingsInv'
  BY <1>0, <1>7 DEF ProcessMedia, ApprovedByVerdict, ActiveIsModerated, WritesAreModerated
<1>8. ASSUME NEW m \in Moderators, NEW l \in Listings, NEW decision \in Decisions,
             ModerateListing(m, l, decision)
      PROVE  ListingsInv'
  <2>1. /\ Ruling[decision] # "auto_approved"
        /\ Ruling[decision] = "approved" => decision = "approve"
    BY DEF Ruling, Decisions
  <2>2. /\ listing'[l].moderation = Ruling[decision]
        /\ listing'[l].status = IF decision = "block" THEN "blocked" ELSE listing[l].status
        /\ \A k \in Listings : k # l => listing'[k] = listing[k]
        /\ verdict'[l] = decision
        /\ \A k \in Listings : k # l => verdict'[k] = verdict[k]
        /\ req' = req
    BY <1>8 DEF ModerateListing, ListingsTypeOK
  <2>3. ApprovedByVerdict' /\ ActiveIsModerated'
    BY <2>1, <2>2 DEF ApprovedByVerdict, ActiveIsModerated
  <2>4. WritesAreModerated'
    BY <1>0, <2>1, <2>2, RequestsStaySafe
  <2>5. QED
    BY <1>0, <2>3, <2>4
<1>9. ASSUME NEW u \in Invitees, NEW operator \in BOOLEAN, InviteMember(u, operator)
      PROVE  ListingsInv'
  BY <1>0, <1>9 DEF InviteMember, ApprovedByVerdict, ActiveIsModerated, WritesAreModerated
<1>10. ASSUME NEW r \in Requests, NEW u \in Leavers, ReadDeleteAccount(r, u)
       PROVE  ListingsInv'
  <2>1. /\ listing' = listing /\ verdict' = verdict /\ req' = [req EXCEPT ![r] = req'[r]]
        /\ req'[r].op = "delete"
    BY <1>10 DEF ReadDeleteAccount, ListingsTypeOK
  <2>2. ApprovedByVerdict' /\ ActiveIsModerated'
    BY <2>1 DEF ApprovedByVerdict, ActiveIsModerated
  <2>3. WritesAreModerated'
    BY <2>1, NewRequestIsSafe
  <2>4. QED
    BY <1>0, <2>2, <2>3
<1>11. ASSUME NEW r \in Requests, CommitDeleteAccount(r)
       PROVE  ListingsInv'
  <2>1. /\ \A l \in Listings : /\ listing'[l].moderation = listing[l].moderation
                               /\ listing'[l].status \in {listing[l].status, "closed"}
        /\ verdict' = verdict /\ req' = [req EXCEPT ![r] = Idle]
    BY <1>11 DEF CommitDeleteAccount, ListingsTypeOK
  <2>2. ApprovedByVerdict' /\ ActiveIsModerated'
    BY <2>1 DEF ApprovedByVerdict, ActiveIsModerated
  <2>3. WritesAreModerated'
    BY <1>0, <2>1, OthersStaySafe
  <2>4. QED
    BY <1>0, <2>2, <2>3
<1>12. CASE UNCHANGED listingVars
  BY <1>0, <1>12 DEF listingVars, ApprovedByVerdict, ActiveIsModerated, WritesAreModerated
<1>13. QED
  BY <1>1, <1>2, <1>3, <1>4, <1>5, <1>6, <1>7, <1>8, <1>9, <1>10, <1>11, <1>12 DEF ListingsNext

\* What is public was last approved by a moderator, in every behaviour.
THEOREM ListingsModerated == ListingsSpec => []PublicOnlyByLastVerdict
<1>1. ListingsInv => PublicOnlyByLastVerdict
  BY DEF ListingsInv, ApprovedByVerdict, ActiveIsModerated, PublicOnlyByLastVerdict, Public
<1>2. QED
  BY <1>1, ListingsInvInit, ListingsInvStep, PTL DEF ListingsSpec
=============================================================================
