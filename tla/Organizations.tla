--------------------------- MODULE Organizations ---------------------------
(***************************************************************************)
(* An organization: its verification, its team, its API switch and keys,   *)
(* and the imports of inventory by members and by keys.  A handler checks  *)
(* the role of its user when it starts and commits later.                  *)
(***************************************************************************)
EXTENDS Nothing

CONSTANTS
  Members,    \* users, one of whom registers the organization
  Keys,       \* API keys, in the order in which they are made
  Desks,      \* requests that may be in progress together
  InviteRoles \* bound: roles that are given, some of TeamRoles

VARIABLES
  org,      \* the organization: status and api_enabled
  team,     \* organization_members: the role of each
  away,     \* users whose account is blocked or deleted
  apiKey,   \* organization_api_keys
  desk,     \* requests in progress, and the import that ended last
  lastLoss  \* history: how the last owner or manager was lost

orgVars == <<org, team, away, apiKey, desk, lastLoss>>

TeamRoles == {"owner", "manager", "operator", "viewer"}
Managing  == {"owner", "manager"}
Request(op, by, for, arg) == [op |-> op, by |-> by, for |-> for, arg |-> arg, stale |-> FALSE]
NoDesk == Request("none", None, None, None)

\* A key is not a user.
ASSUME KeysAssumption == Members \cap Keys = {}

OrgInit ==
  /\ org = [status |-> "none", api |-> FALSE]
  /\ team = [m \in Members |-> None] /\ away = {}
  /\ apiKey = [k \in Keys |-> None]
  /\ desk = [d \in Desks |-> NoDesk]
  /\ lastLoss = "none"

Managers(roles, gone) == {m \in Members \ gone : roles[m] \in Managing}
Loses(roles, gone, why) ==
  lastLoss' = IF Managers(roles, gone) = {} THEN (IF Managers(team, away) # {} THEN why ELSE lastLoss) ELSE "none"

\* Requests of x, a user or a key, were let in before this change.
Outdates(D) == [d \in Desks |-> IF d \in D THEN [desk[d] EXCEPT !.stale = TRUE] ELSE desk[d]]
Passed(x)   == Outdates({d \in Desks : x \in {desk[d].by, desk[d].for}})

CreateOrganization(m) ==
  /\ org.status = "none" /\ m \notin away
  /\ org' = [status |-> "pending", api |-> FALSE]
  /\ team' = [team EXCEPT ![m] = "owner"]
  /\ UNCHANGED <<away, apiKey, desk, lastLoss>>

ApiOpen(o) == o.status = "verified" /\ o.api
KeysPassed == IF ApiOpen(org') THEN desk ELSE Outdates({d \in Desks : desk[d].by \in Keys})

\* An administrator decides, as often as they like; the switch stays as it is.
VerifyOrganization(status) ==
  /\ org.status # "none"
  /\ org' = [org EXCEPT !.status = status]
  /\ desk' = KeysPassed
  /\ UNCHANGED <<team, away, apiKey, lastLoss>>

LoseAccount(m) ==
  /\ m \notin away /\ away' = away \cup {m}
  /\ Loses(team, away', "left") /\ desk' = Passed(m)
  /\ UNCHANGED <<org, team, apiKey>>

\* An administrator makes the account active again, with the role it had here.
RegainAccount(m) ==
  /\ m \in away /\ away' = away \ {m}
  /\ Loses(team, away', lastLoss)
  /\ UNCHANGED <<org, team, apiKey, desk>>

-----------------------------------------------------------------------------
IsMember(m)  == m \notin away /\ team[m] # None
\* Mutant of IsManager: any member may do it.
IsManagerAny(m) == IsMember(m)
IsManager(m) == m \notin away /\ team[m] \in Managing

Starts(d, request) == desk[d].op \in {"none", "done"} /\ desk' = [desk EXCEPT ![d] = request]
Free(desks, d)     == [desks EXCEPT ![d] = NoDesk]

BeginInvite(d, m, invited, role) ==
  /\ IsManager(m)
  /\ Starts(d, Request("invite", m, None, [whom |-> invited, role |-> role, was |-> team[invited]]))
  /\ UNCHANGED <<org, team, away, apiKey, lastLoss>>

\* A member who is invited again gets the new role, an owner too.  A role equal
\* to the one that was read is not sent, and the second INSERT of a member
\* breaks the unique constraint.
RoleAfter(r) ==
  LET now == team[r.arg.whom]
  IN IF r.arg.role = r.arg.was \/ (r.arg.was = None /\ now # None) THEN now ELSE r.arg.role

CommitInvite(d) ==
  LET r == desk[d]   whom == desk[d].arg.whom
  IN /\ r.op = "invite"
     /\ team' = [team EXCEPT ![whom] = RoleAfter(r)]
     /\ Loses(team', away, CASE r.by = whom -> "resigned" [] r.stale -> "stale" [] OTHER -> "dismissed")
     /\ desk' = Free(IF team' = team THEN desk ELSE Passed(whom), d)
     /\ UNCHANGED <<org, away, apiKey>>

BeginSettings(d, m, on) ==
  /\ IsManager(m) /\ (on => org.status = "verified")
  /\ Starts(d, Request("settings", m, None, [on |-> on, was |-> org.api]))
  /\ UNCHANGED <<org, team, away, apiKey, lastLoss>>

CommitSettings(d) ==
  LET r == desk[d]
  IN /\ r.op = "settings"
     /\ org' = [org EXCEPT !.api = IF r.arg.on = r.arg.was THEN @ ELSE r.arg.on]
     /\ desk' = Free(KeysPassed, d)
     /\ UNCHANGED <<team, away, apiKey, lastLoss>>

BeginKey(d, m) ==
  /\ IsManager(m) /\ ApiOpen(org)
  /\ Starts(d, Request("key", m, None, None))
  /\ UNCHANGED <<org, team, away, apiKey, lastLoss>>

CommitKey(d, k, writes) ==
  /\ desk[d].op = "key" /\ apiKey[k] = None
  /\ apiKey' = [apiKey EXCEPT ![k] = [by |-> desk[d].by, writes |-> writes, status |-> "active"]]
  /\ desk' = Free(desk, d)
  /\ UNCHANGED <<org, team, away, lastLoss>>

\* Revoked by a manager, or its expires_at has come.
EndKey(k) ==
  /\ apiKey[k] # None /\ apiKey[k].status = "active"
  /\ apiKey' = [apiKey EXCEPT ![k].status = "over"]
  /\ desk' = Passed(k)
  /\ UNCHANGED <<org, team, away, lastLoss>>

-----------------------------------------------------------------------------
MayImport(m) == team[m] \in {"owner", "manager", "operator"}

BeginImport(d, m) ==
  /\ m \notin away /\ MayImport(m)
  /\ Starts(d, Request("import", m, m, None))
  /\ UNCHANGED <<org, team, away, apiKey, lastLoss>>

\* Mutant of KeyWorks: the key is not asked for its permission and state.
KeyWorksEver(k) == apiKey[k] # None
KeyWorks(k) == apiKey[k] # None /\ apiKey[k].status = "active" /\ apiKey[k].writes

\* The key stands for its maker, who must still be in the team: nobody asks
\* whether the maker's account is active.
BeginKeyImport(d, k) ==
  /\ KeyWorks(k) /\ ApiOpen(org) /\ MayImport(apiKey[k].by)
  /\ Starts(d, Request("import", k, apiKey[k].by, None))
  /\ UNCHANGED <<org, team, away, apiKey, lastLoss>>

\* The drafts, all or none, are committed with the count of the rows that were
\* refused: module Listings has them.
CommitImport(d) ==
  /\ desk[d].op = "import"
  /\ desk' = [desk EXCEPT ![d].op = "done"]
  /\ UNCHANGED <<org, team, away, apiKey, lastLoss>>

OrgNext ==
  \/ \E m \in Members : CreateOrganization(m) \/ LoseAccount(m) \/ RegainAccount(m)
  \/ \E s \in {"verified", "rejected"} : VerifyOrganization(s)
  \/ \E k \in Keys : EndKey(k)
  \/ \E d \in Desks :
       \/ \E m \in Members : \/ \E n \in Members, role \in InviteRoles : BeginInvite(d, m, n, role)
                            \/ \E on \in BOOLEAN : BeginSettings(d, m, on)
                            \/ BeginKey(d, m) \/ BeginImport(d, m)
       \/ \E k \in Keys : BeginKeyImport(d, k) \/ \E writes \in BOOLEAN : CommitKey(d, k, writes)
       \/ CommitImport(d) \/ CommitInvite(d) \/ CommitSettings(d)

OrgSpec == OrgInit /\ [][OrgNext]_orgVars

-----------------------------------------------------------------------------
\* An organization is left without anyone who can manage it only when the last
\* one has left, has changed their own role, or was deposed by a request that
\* was let in when its author still managed it.
OrganizationManaged ==
  org.status # "none" /\ Managers(team, away) = {} => lastLoss \in {"left", "resigned", "stale"}

\* Whoever has imported could do so when the request was let in: an active user
\* who may import, or a key that may write and was not over while the API was
\* open, made by one who still may import.  A request that has been let in is
\* not stopped by what is taken away meanwhile, and no other gets through.
ImportsBacked ==
  \A d \in Desks : desk[d].op = "done" /\ ~desk[d].stale =>
    /\ MayImport(desk[d].for)
    /\ desk[d].by \in Members => desk[d].by \notin away
    /\ desk[d].by \in Keys =>
         apiKey[desk[d].by].writes /\ apiKey[desk[d].by].status = "active" /\ ApiOpen(org)
=============================================================================
