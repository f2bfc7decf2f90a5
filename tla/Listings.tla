------------------------------ MODULE Listings ------------------------------
(***************************************************************************)
(* Publications of the bureau: creation, editing, moderation, photographs  *)
(* and the owner's account, as the routes listings.py, media.py, admin.py  *)
(* and users.py change them in PostgreSQL.                                 *)
(*                                                                         *)
(* A handler that takes the row lock (FOR UPDATE) is one atomic action.    *)
(* update_listing, media complete and delete_account take no lock: they    *)
(* read the row, validate that copy, and commit later.  SQLAlchemy then    *)
(* sends only the columns whose new value differs from the value it READ,  *)
(* so a request in flight is represented by the writes its commit will     *)
(* send.  Between the two steps anything else may commit (READ COMMITTED). *)
(***************************************************************************)
EXTENDS Naturals, FiniteSets

CONSTANTS
  Users,        \* accounts
  Moderators,   \* the accounts whose role is admin or moderator
  Invitees,     \* the accounts a manager may invite into the organization
  Leavers,      \* the accounts that may delete themselves
  Listings,     \* publications; the organization holds every one of them
  Found,        \* those of kind "found", which must carry a photograph
  OwnerOf,      \* the account that creates each publication
  Photos,       \* uploaded photographs (MediaObject rows)
  Requests,     \* request slots: how many unlocked handlers overlap
  None

ASSUME ListingsAssumption ==
  /\ Moderators \subseteq Users
  /\ Invitees \subseteq Users
  /\ Leavers \subseteq Users
  /\ Found \subseteq Listings
  /\ OwnerOf \in [Listings -> Users]
  /\ None \notin Listings \cup {"draft", "active", "paused", "closed"}

VARIABLES
  listing,   \* the rows of table listings
  photo,     \* the rows of table media_objects
  members,   \* users with role owner, manager or operator in the organization
  deleted,   \* accounts whose status is "deleted"
  req,       \* the requests between their read and their commit
  verdict,   \* history: the last moderation decision on each publication
  changed    \* history: public content changed since the last approval

listingVars == <<listing, photo, members, deleted, req, verdict, changed>>

Statuses     == {"absent", "draft", "active", "paused", "closed", "blocked"}
Moderation   == {"pending", "auto_approved", "approved", "rejected", "blocked",
                 "changes_requested"}
PhotoStatus  == {"none", "processing", "ready", "rejected"}

\* Mutant of Ruling: the decision is stored as it came in.
RulingAsGiven == [approve |-> "approve", reject |-> "reject", block |-> "block",
                  request_changes |-> "request_changes"]
\* The decisions of a moderator and the moderation status each one gives.
Ruling    == [approve |-> "approved", reject |-> "rejected", block |-> "blocked",
              request_changes |-> "changes_requested"]
Decisions == DOMAIN Ruling

\* The statuses a PATCH may ask for.
Requested    == {"draft", "active", "paused", "closed"}

Idle == [op |-> "idle"]

\* The writes that the commit of an unlocked handler sends for one listing:
\* a status (or None), moderation_status := "pending" or not, the photographs
\* it attaches and detaches, and whether public content is among the columns.
Write == [op : {"update", "complete"}, user : Users, listing : Listings,
          status : Requested \cup {None}, pending : BOOLEAN, public : BOOLEAN,
          attach : SUBSET Photos, detach : SUBSET Photos]

Deletion == [op : {"delete"}, user : Users, closes : SUBSET Listings]

-----------------------------------------------------------------------------
Public(l) == /\ listing[l].status = "active"
             /\ listing[l].moderation \in {"approved", "auto_approved"}

CanManage(u, l) == u = OwnerOf[l] \/ u \in Moderators \cup members

Attached(l) == {p \in Photos : photo[p].listing = l}

Usable(p) == photo[p].status \in {"ready", "processing"}

\* delete_account has updated the row of u (autoflush before its first query) and
\* holds it until the commit: an INSERT that refers to u as the owner waits.
Locked(u) == \E r \in Requests : req[r].op = "delete" /\ req[r].user = u

\* Photographs the query of update_listing and create_listing may return.
Attachable(u, l) == {p \in Photos : /\ Usable(p)
                                    /\ \/ photo[p].listing = l
                                       \/ /\ photo[p].listing = None
                                          /\ photo[p].owner = u}

\* Mutant of Resubmits: publishing a row that was not active is forgotten.
ResubmitsEdits(row, target, public) == target = "active" /\ public

\* Whether an edit sends the publication back to the moderators: its status
\* will be active and it was not, or its public content changes.
Resubmits(row, target, public) == target = "active" /\ (public \/ row.status # "active")

Reattach(l, attach, detach) ==
  [p \in Photos |-> [photo[p] EXCEPT !.listing = IF p \in attach THEN l
                                                 ELSE IF p \in detach THEN None
                                                 ELSE @]]

-----------------------------------------------------------------------------
ListingsInit ==
  /\ listing = [l \in Listings |-> [status |-> "absent", moderation |-> "pending"]]
  /\ photo = [p \in Photos |-> [status |-> "none", listing |-> None, owner |-> None]]
  /\ members = {}
  /\ deleted = {}
  /\ req = [r \in Requests |-> Idle]
  /\ verdict = [l \in Listings |-> "none"]
  /\ changed = [l \in Listings |-> FALSE]

\* POST /listings: published at once (pending) or kept as a draft.  Its owner
\* was active when the request was let in; the INSERT may come, or have waited
\* for the lock of a deletion, when the account is deleted.
CreateListing(l, publish, media) ==
  /\ ~Locked(OwnerOf[l])
  /\ listing[l].status = "absent"
  /\ publish /\ l \in Found => media # {}
  /\ \A p \in media : Usable(p) /\ photo[p].listing = None /\ photo[p].owner = OwnerOf[l]
  /\ listing' = [listing EXCEPT ![l] =
       IF publish THEN [status |-> "active", moderation |-> "pending"]
                  ELSE [status |-> "draft", moderation |-> "auto_approved"]]
  /\ photo' = Reattach(l, media, {})
  /\ changed' = [changed EXCEPT ![l] = TRUE]
  /\ UNCHANGED <<members, deleted, req, verdict>>

\* One row of a bulk import: a draft without photographs, to be moderated.  Like
\* the others it may follow the deletion of the account that sent it.
ImportListing(l) ==
  /\ OwnerOf[l] \in members /\ ~Locked(OwnerOf[l])
  /\ listing[l].status = "absent"
  /\ l \in Found
  /\ listing' = [listing EXCEPT ![l] = [status |-> "draft", moderation |-> "pending"]]
  /\ changed' = [changed EXCEPT ![l] = TRUE]
  /\ UNCHANGED <<photo, members, deleted, req, verdict>>

-----------------------------------------------------------------------------
\* PATCH /listings/{id}, from the read to just before the commit: every check
\* is made on the row as read.  status is the payload's status or None, media
\* the payload's photographs or None, public whether another public field is set.
ReadUpdate(r, u, l, status, media, public) ==
  LET row     == listing[l]
      photos  == IF media = None THEN Attached(l) ELSE media
      target  == IF status = None THEN row.status ELSE status
      public2 == public \/ media # None
  IN /\ req[r] = Idle
     /\ u \notin deleted
     /\ row.status # "absent"
     /\ CanManage(u, l)
     /\ row.status \in {"closed", "blocked"} => u \in Moderators
     /\ media # None => media \subseteq Attachable(u, l)
     /\ target = "active" /\ l \in Found => \E p \in photos : Usable(p)
     /\ req' = [req EXCEPT ![r] =
          [op |-> "update", user |-> u, listing |-> l,
           status |-> IF target = row.status THEN None ELSE target,
           pending |-> Resubmits(row, target, public2) /\ row.moderation # "pending",
           public |-> public2,
           attach |-> IF media = None THEN {} ELSE media \ Attached(l),
           detach |-> IF media = None THEN {} ELSE Attached(l) \ media]]
     /\ UNCHANGED <<listing, photo, members, deleted, verdict, changed>>

\* POST /media/complete for a photograph of an existing listing; the object
\* store is asked for the file (storage.head) between the read and the commit.
ReadComplete(r, u, l, p) ==
  /\ req[r] = Idle
  /\ u = OwnerOf[l] /\ u \notin deleted
  /\ listing[l].status # "absent"
  /\ photo[p].status = "none"
  /\ \A q \in Requests : req[q].op = "complete" => p \notin req[q].attach
  /\ req' = [req EXCEPT ![r] =
       [op |-> "complete", user |-> u, listing |-> l, status |-> None,
        pending |-> listing[l].status = "active" /\ listing[l].moderation # "pending",
        public |-> TRUE, attach |-> {p}, detach |-> {}]]
  /\ UNCHANGED <<listing, photo, members, deleted, verdict, changed>>

\* The commit of either: the prepared columns overwrite the current row.
CommitWrite(r) ==
  LET w == req[r]
      l == w.listing
  IN /\ w.op \in {"update", "complete"}
     /\ w.op = "complete" => ~Locked(w.user)
     /\ listing' = [listing EXCEPT
          ![l].status = IF w.status = None THEN @ ELSE w.status,
          ![l].moderation = IF w.pending THEN "pending" ELSE @]
     /\ photo' = IF w.op = "complete"
                 THEN [p \in Photos |-> IF p \in w.attach
                         THEN [status |-> "processing", listing |-> l, owner |-> w.user]
                         ELSE photo[p]]
                 ELSE Reattach(l, w.attach, w.detach)
     /\ changed' = [changed EXCEPT ![l] = @ \/ w.public]
     /\ req' = [req EXCEPT ![r] = Idle]
     /\ UNCHANGED <<members, deleted, verdict>>

\* POST /media/complete without a listing: the photograph waits unattached.
\* The account may have been deleted since the request was let in.
Upload(u, p) ==
  /\ ~Locked(u)
  /\ photo[p].status = "none"
  /\ \A q \in Requests : req[q].op = "complete" => p \notin req[q].attach
  /\ photo' = [photo EXCEPT ![p] = [status |-> "processing", listing |-> None, owner |-> u]]
  /\ UNCHANGED <<listing, members, deleted, req, verdict, changed>>

\* The worker has checked the file: it is cleaned and usable, or refused.
ProcessMedia(p, outcome) ==
  /\ photo[p].status = "processing"
  /\ outcome \in {"ready", "rejected"}
  /\ photo' = [photo EXCEPT ![p].status = outcome]
  /\ UNCHANGED <<listing, members, deleted, req, verdict, changed>>

-----------------------------------------------------------------------------
\* POST /admin/moderation/listings/{id}, under the listing's row lock.
ModerateListing(m, l, decision) ==
  /\ m \in Moderators \ deleted
  /\ listing[l].status # "absent"
  /\ decision = "approve" =>
       /\ listing[l].status = "active"
       /\ \A p \in Attached(l) : photo[p].status = "ready"
       /\ l \in Found => Attached(l) # {}
  /\ listing' = [listing EXCEPT
       ![l].moderation = Ruling[decision],
       ![l].status = IF decision = "block" THEN "blocked" ELSE @]
  /\ verdict' = [verdict EXCEPT ![l] = decision]
  /\ changed' = [changed EXCEPT ![l] = @ /\ decision # "approve"]
  /\ UNCHANGED <<photo, members, deleted, req>>

\* POST /organizations/{id}/team/invite: adds a member or changes the role of
\* one; a viewer or branch role carries no right over the publications.
InviteMember(u, operator) ==
  /\ u \in Invitees
  /\ members' = IF operator THEN members \cup {u} ELSE members \ {u}
  /\ members' # members
  /\ UNCHANGED <<listing, photo, deleted, req, verdict, changed>>

\* DELETE /users/me: the publications to close are those read as open; the row
\* of the user is already updated, and locked, when they are read.
ReadDeleteAccount(r, u) ==
  /\ req[r] = Idle
  /\ u \notin deleted /\ ~Locked(u)
  /\ req' = [req EXCEPT ![r] =
       [op |-> "delete", user |-> u,
        closes |-> {l \in Listings : /\ OwnerOf[l] = u
                                     /\ listing[l].status \in {"draft", "active", "paused"}}]]
  /\ UNCHANGED <<listing, photo, members, deleted, verdict, changed>>

CommitDeleteAccount(r) ==
  /\ req[r].op = "delete"
  /\ deleted' = deleted \cup {req[r].user}
  /\ listing' = [l \in Listings |-> IF l \in req[r].closes
                                    THEN [listing[l] EXCEPT !.status = "closed"]
                                    ELSE listing[l]]
  /\ req' = [req EXCEPT ![r] = Idle]
  /\ UNCHANGED <<photo, members, verdict, changed>>

-----------------------------------------------------------------------------
ListingsNext ==
  \/ \E l \in Listings, publish \in BOOLEAN, media \in SUBSET Photos :
       CreateListing(l, publish, media)
  \/ \E l \in Listings : ImportListing(l)
  \/ \E r \in Requests, u \in Users, l \in Listings,
        status \in Requested \cup {None},
        media \in (SUBSET Photos) \cup {None}, public \in BOOLEAN :
       ReadUpdate(r, u, l, status, media, public)
  \/ \E r \in Requests, u \in Users, l \in Listings, p \in Photos :
       ReadComplete(r, u, l, p)
  \/ \E r \in Requests : CommitWrite(r)
  \/ \E u \in Users, p \in Photos : Upload(u, p)
  \/ \E p \in Photos, outcome \in PhotoStatus : ProcessMedia(p, outcome)
  \/ \E m \in Moderators, l \in Listings, decision \in Decisions :
       ModerateListing(m, l, decision)
  \/ \E u \in Invitees, operator \in BOOLEAN : InviteMember(u, operator)
  \/ \E r \in Requests, u \in Leavers : ReadDeleteAccount(r, u)
  \/ \E r \in Requests : CommitDeleteAccount(r)

ListingsSpec == ListingsInit /\ [][ListingsNext]_listingVars

-----------------------------------------------------------------------------
\* Every variable has the shape of the tables and of the requests in flight.
ListingsTypeOK ==
  /\ listing \in [Listings -> [status : Statuses, moderation : Moderation]]
  /\ photo \in [Photos -> [status : PhotoStatus, listing : Listings \cup {None},
                           owner : Users \cup {None}]]
  /\ members \subseteq Users
  /\ deleted \subseteq Users
  /\ req \in [Requests -> {Idle} \cup Write \cup Deletion]
  /\ verdict \in [Listings -> Decisions \cup {"none"}]
  /\ changed \in [Listings -> BOOLEAN]

\* Whatever edits, uploads and imports overlap, a publication is visible to
\* the public only while the last moderation decision on it is an approval:
\* the "auto_approved" a draft starts with never reaches the catalogue, and
\* no stale commit revives a publication that a moderator refused or blocked.
PublicOnlyByLastVerdict == \A l \in Listings : Public(l) => verdict[l] = "approve"

\* PRODUCTION_READINESS.md: changing a published card requires moderation
\* again.  What the public sees has not changed since a moderator approved it.
EveryChangeModerated == \A l \in Listings : Public(l) => ~changed[l]
=============================================================================
