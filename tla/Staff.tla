------------------------------- MODULE Staff -------------------------------
(***************************************************************************)
(* Who administers the service: the first administrator comes from a       *)
(* setting, the others are appointed in the console.  A request is let in  *)
(* by current_user and commits later.                                      *)
(***************************************************************************)
EXTENDS Nothing

CONSTANTS
  People,   \* telephone numbers
  Boot,     \* BN_BOOTSTRAP_ADMIN_PHONE: one of them
  Reviews,  \* requests of the console that may be in progress together
  Roles     \* bound: some of user, operator, manager, moderator and admin

VARIABLES
  person,    \* users, by telephone number
  token,     \* the role in the access token each of them holds
  review,    \* requests in progress
  started,   \* history: there has been an administrator
  confirmed, \* history: numbers that have been confirmed by a code
  lastStep   \* history: how the last administrator was lost

staffVars == <<person, token, review, started, confirmed, lastStep>>

Person(role, status, verified) == [role |-> role, status |-> status, verified |-> verified]
NoReview == [by |-> None, stale |-> FALSE]

\* The value of a missing account is not one of an account.
ASSUME NoneAssumption ==
  None \notin [role : Roles \cup {"user", "admin"}, status : {"invited", "active", "blocked", "deleted"},
               verified : BOOLEAN]

StaffInit ==
  /\ person = [p \in People |-> None] /\ token = [p \in People |-> None]
  /\ review = [r \in Reviews |-> NoReview]
  /\ started = FALSE /\ confirmed = {} /\ lastStep = "none"

Active(who, p) == who[p] # None /\ who[p].status = "active"
Admins(who) == {p \in People : Active(who, p) /\ who[p].role = "admin"}

\* The account p changes: requests its owner has in progress do not see it.
Becomes(p, account, why) ==
  /\ person' = [person EXCEPT ![p] = account]
  /\ started' = (started \/ Admins(person') # {})
  /\ lastStep' = IF Admins(person') = {} THEN (IF Admins(person) # {} THEN why ELSE lastStep) ELSE "none"

Outdated(p) == [r \in Reviews |-> IF review[r].by = p THEN [review[r] EXCEPT !.stale = TRUE] ELSE review[r]]

\* An organization invites a number that has no account yet.
InviteNumber(p) ==
  /\ person[p] = None
  /\ Becomes(p, Person("user", "invited", FALSE), "none")
  /\ UNCHANGED <<token, review, confirmed>>

StatusOf(p) == IF person[p] = None THEN "new" ELSE person[p].status
RoleOfNew(p) == IF p = Boot THEN "admin" ELSE "user"

\* A code is confirmed: an account is made or an invited one becomes active.
ConfirmNumber(p) ==
  /\ StatusOf(p) \in {"new", "invited", "active"}
  /\ Becomes(p, CASE StatusOf(p) = "new" -> Person(RoleOfNew(p), "active", TRUE)
                  [] StatusOf(p) = "invited" -> Person(person[p].role, "active", TRUE)
                  [] OTHER -> person[p], "none")
  /\ token' = [token EXCEPT ![p] = person'[p].role]
  /\ confirmed' = confirmed \cup {p}
  /\ UNCHANGED review

\* DELETE /users/me: the number is free again.
LeaveService(p) ==
  /\ Active(person, p) /\ token[p] = person[p].role
  /\ Becomes(p, None, "left")
  /\ token' = [token EXCEPT ![p] = None]
  /\ review' = Outdated(p) /\ confirmed' = confirmed \ {p}

\* current_user and require_roles("admin").
Admitted(p) == Active(person, p) /\ token[p] = person[p].role /\ person[p].role = "admin"

BeginReview(r, p) ==
  /\ review[r] = NoReview /\ Admitted(p)
  /\ review' = [review EXCEPT ![r] = [by |-> p, stale |-> FALSE]]
  /\ UNCHANGED <<person, token, started, confirmed, lastStep>>

\* Mutant of OwnAccess: administrators may take their own role away.
OwnAccessStatus(role, status) == status \in {"blocked", "deleted"}
OwnAccess(role, status) == status \in {"blocked", "deleted"} \/ role \notin {None, "admin"}

Appointable(account) == account.status = "active" /\ account.verified

Or(new, old) == IF new = None THEN old ELSE new

\* The target is locked and read now; who asks was read before.
CommitReview(r, target, role, status) ==
  LET by == review[r].by   account == person[target]
      refused == \/ target = by /\ OwnAccess(role, status)
                 \/ role \in {"admin", "moderator"} /\ ~Appointable(account)
  IN /\ by # None /\ account # None
     /\ IF refused THEN UNCHANGED <<person, started, lastStep>>
        ELSE Becomes(target, [account EXCEPT !.role = Or(role, @), !.status = Or(status, @)],
                     IF review[r].stale THEN "stale" ELSE "dismissed")
     /\ review' = [(IF person' = person THEN review ELSE Outdated(target)) EXCEPT ![r] = NoReview]
     /\ UNCHANGED <<token, confirmed>>

StaffNext ==
  \/ \E p \in People : InviteNumber(p) \/ ConfirmNumber(p) \/ LeaveService(p)
  \/ \E r \in Reviews : \/ \E p \in People : BeginReview(r, p)
                        \/ \E p \in People, role \in Roles \cup {None}, s \in {"active", "blocked", "deleted", None} :
                             CommitReview(r, p, role, s)

StaffSpec == StaffInit /\ [][StaffNext]_staffVars

-----------------------------------------------------------------------------
\* The last administrator is lost only by leaving, or by a request that was let
\* in when its author still was one; and whoever has been made one had shown
\* that the telephone number is theirs.
AdministratorRemains ==
  /\ started /\ Admins(person) = {} => lastStep \in {"left", "stale"}
  /\ Admins(person) \subseteq confirmed
=============================================================================
