------------------------------ MODULE Sessions ------------------------------
(***************************************************************************)
(* The refresh tokens of one account, as auth.py, users.py, deps.py and    *)
(* admin_console.py keep them.                                             *)
(*                                                                         *)
(* refresh, the browser's logout and an administrator's change lock the    *)
(* account row and are one action each; deleting the account updates that  *)
(* row before it reads the tokens.  A login is two: the account is read    *)
(* without a lock and the token, with an activation, is committed later.   *)
(*                                                                         *)
(* The client keeps one operation identifier beside each token, so the     *)
(* successor of a token, an HMAC of both, is a function of the token.      *)
(***************************************************************************)
EXTENDS Naturals, FiniteSets

CONSTANTS
  Clients,    \* installed applications and browsers, one login form each
  MaxTokens,  \* bound: refresh tokens ever issued
  Decrees     \* bound: the status and the role an administrator may set

ASSUME SessionsAssumption ==
  /\ MaxTokens \in Nat
  /\ Decrees \subseteq [status : {"active", "blocked", "deleted"}, staff : BOOLEAN]

VARIABLES
  account,    \* the row of table users
  token,      \* the rows of table refresh_tokens
  made,       \* how many of them exist
  login       \* the step of each client's login

sessionVars == <<account, token, made, login>>

Tokens   == 1..MaxTokens
Issued   == 1..made
Statuses == {"invited", "active", "blocked", "deleted"}
Account  == [status : Statuses, staff : BOOLEAN, twofa : BOOLEAN]

\* login is the first token of the chain; next the successor, or 0.
Token == [login : 0..MaxTokens, next : 0..MaxTokens, live : BOOLEAN, mfa : BOOLEAN]

NoLogin == [step |-> "none"]
Ticket  == [step |-> "ticket"]
Login   == {NoLogin, Ticket} \cup [step : {"code", "totp"}, seen : Account]

\* Some token of the login that began with token l is live.
Alive(l) == \E t \in Issued : token[t].live /\ token[t].login = l

Revoked(S) == [t \in Tokens |-> IF t \in S THEN [token[t] EXCEPT !.live = FALSE] ELSE token[t]]

NewToken(l, mfa) == [login |-> l, next |-> 0, live |-> TRUE, mfa |-> mfa]

-----------------------------------------------------------------------------
SessionsInit ==
  /\ account \in [status : {"invited", "active"}, staff : {FALSE}, twofa : {FALSE}]
  /\ token = [t \in Tokens |-> [login |-> 0, next |-> 0, live |-> FALSE, mfa |-> FALSE]]
  /\ made = 0
  /\ login = [c \in Clients |-> NoLogin]

\* verify_code: the one-time code is consumed, then the account is read.
ReadCode(c) ==
  /\ login[c] = NoLogin
  /\ login' = [login EXCEPT ![c] = [step |-> "code", seen |-> account]]
  /\ UNCHANGED <<account, token, made>>

Admitted(seen) == seen.status \in {"invited", "active"}

AsksTotp(seen) == seen.staff /\ seen.twofa

\* The outcome of a login: a token that starts a chain.
Issue(mfa) ==
  /\ made < MaxTokens
  /\ made' = made + 1
  /\ token' = [token EXCEPT ![made + 1] = NewToken(made + 1, mfa)]

\* The commit of verify_code: only an account read as invited is written.
CommitCode(c) ==
  LET seen == login[c].seen
  IN /\ login[c].step = "code"
     /\ account' = IF seen.status = "invited" THEN [account EXCEPT !.status = "active"]
                   ELSE account
     /\ login' = [login EXCEPT ![c] = IF Admitted(seen) /\ AsksTotp(seen) THEN Ticket ELSE NoLogin]
     /\ IF Admitted(seen) /\ ~AsksTotp(seen) THEN Issue(FALSE) ELSE UNCHANGED <<token, made>>

\* verify_admin_2fa takes the ticket out of Redis, then reads the account.
ReadTicket(c) ==
  /\ login[c] = Ticket
  /\ login' = [login EXCEPT ![c] = [step |-> "totp", seen |-> account]]
  /\ UNCHANGED <<account, token, made>>

TotpAccepted(seen, right) == seen.status = "active" /\ AsksTotp(seen) /\ right

CommitTotp(c, right) ==
  LET seen == login[c].seen
  IN /\ login[c].step = "totp"
     /\ login' = [login EXCEPT ![c] = NoLogin]
     /\ IF TotpAccepted(seen, right) THEN Issue(TRUE) ELSE UNCHANGED <<token, made>>
     /\ UNCHANGED <<account>>

\* The five minutes of a ticket end.
ExpireTicket(c) ==
  /\ login[c] = Ticket
  /\ login' = [login EXCEPT ![c] = NoLogin]
  /\ UNCHANGED <<account, token, made>>

-----------------------------------------------------------------------------
\* The account may be served through this token.
Honours(t) == account.status = "active" /\ (AsksTotp(account) => token[t].mfa)

\* Mutant of Recoverable: a lost response cannot be asked for again.
RecoverableNever(t) == FALSE

\* The token was consumed, and the successor of that operation is still live.
Recoverable(t) == ~token[t].live /\ token[t].next # 0 /\ token[token[t].next].live

\* Mutant of Granted: a consumed or revoked token is exchanged as a live one is.
GrantedToAny(t) == IF Honours(t) THEN made + 1 ELSE 0

\* The token that a refresh returns: a new successor, the live one, or none (0).
Granted(t) == CASE token[t].live /\ Honours(t)                -> made + 1
                [] Recoverable(t) /\ Honours(token[t].next)   -> token[t].next
                [] OTHER                                      -> 0

\* Mutant of Rotated: the presented token is not consumed.
RotatedKept(t) ==
  [token EXCEPT ![t].next = made + 1, ![made + 1] = NewToken(token[t].login, token[t].mfa)]

\* Mutant of Rotated: the revocation runs after the insert and takes both.
RotatedToNothing(t) ==
  [token EXCEPT ![t].live = FALSE, ![t].next = made + 1,
                ![made + 1] = [NewToken(token[t].login, token[t].mfa) EXCEPT !.live = FALSE]]

Rotated(t) ==
  [token EXCEPT ![t].live = FALSE, ![t].next = made + 1,
                ![made + 1] = NewToken(token[t].login, token[t].mfa)]

\* Mutant of Refresh: the answer is sent and the rotation is not committed.
RefreshRolledBack(t) == UNCHANGED sessionVars

\* POST /auth/refresh and POST /auth/session; a refusal rolls everything back.
Refresh(t) ==
  /\ IF Granted(t) = made + 1
     THEN made < MaxTokens /\ token' = Rotated(t) /\ made' = made + 1
     ELSE UNCHANGED <<token, made>>
  /\ UNCHANGED <<account, login>>

\* Mutant of Lineage: the successor of a lost response is forgotten.
LineageSelf(t) == {t}

Lineage(t) == {t} \cup ({token[t].next} \ {0})

\* DELETE /auth/session, the logout of a browser.
Forget(t) ==
  /\ token' = Revoked(Lineage(t))
  /\ UNCHANGED <<account, made, login>>

\* POST /auth/logout, and DELETE /users/me/sessions/{id}: the one row that the
\* client names, whatever has become of it; the answer is the same.
Dismiss(t) ==
  /\ account.status = "active"
  /\ token' = Revoked({t})
  /\ UNCHANGED <<account, made, login>>

-----------------------------------------------------------------------------
Revocable == {t \in Issued : token[t].live}

\* PATCH /admin/users/{id}, and the grant of the deployment: the role or the
\* status of the account changes and every live token is revoked.
AdminUpdate(status, staff) ==
  /\ status # account.status \/ staff # account.staff
  /\ staff /\ ~account.staff => account.status = "active"
  /\ account' = [account EXCEPT !.status = status, !.staff = staff]
  /\ token' = Revoked(Revocable)
  /\ UNCHANGED <<made, login>>

EnableTwoFactor ==
  /\ account.status = "active" /\ account.staff /\ ~account.twofa
  /\ account' = [account EXCEPT !.twofa = TRUE]
  /\ UNCHANGED <<token, made, login>>

\* current_user lets only a session with a second factor turn it off.
DisableTwoFactor ==
  /\ account.status = "active" /\ account.twofa
  /\ account.staff => \E t \in Issued : token[t].mfa
  /\ account' = [account EXCEPT !.twofa = FALSE]
  /\ UNCHANGED <<token, made, login>>

\* DELETE /users/me (its effect on publications is in module Listings).
DeleteAccount ==
  /\ account.status = "active" /\ made > 0
  /\ account' = [account EXCEPT !.status = "deleted"]
  /\ token' = Revoked(Revocable)
  /\ UNCHANGED <<made, login>>

\* Thirty days pass.
ExpireToken(t) ==
  /\ token[t].live
  /\ token' = Revoked({t})
  /\ UNCHANGED <<account, made, login>>

ServerStep ==
  \/ \E d \in Decrees : AdminUpdate(d.status, d.staff)
  \/ EnableTwoFactor
  \/ DisableTwoFactor
  \/ DeleteAccount
  \/ \E t \in Issued : Dismiss(t) \/ ExpireToken(t)
  \/ \E c \in Clients : ExpireTicket(c)

-----------------------------------------------------------------------------
\* Every variable has the shape of the rows and of the logins in progress.
SessionsTypeOK ==
  /\ account \in Account
  /\ token \in [Tokens -> Token]
  /\ made \in 0..MaxTokens
  /\ login \in [Clients -> Login]

\* However many refreshes of one token race, are repeated after a lost response
\* or arrive late, a login never forks: at most one of its tokens is live.
OneLiveTokenPerLogin ==
  \A s, t \in Tokens : token[s].live /\ token[t].live /\ token[s].login = token[t].login => s = t

\* A login that was ended, by a logout, a change of the account or thirty days,
\* is never continued by a refresh that was on its way or is repeated.
EndedStaysEnded ==
  [][\A l \in Issued : token[l].login = l /\ ~Alive(l) => ~Alive(l)']_sessionVars

\* PRODUCTION_READINESS.md: a blocked user receives no session.
BlockedGetsNoSession ==
  [][account.status \in {"blocked", "deleted"} => made' = made]_sessionVars
=============================================================================
