----------------------------- MODULE TwoFactor -----------------------------
(***************************************************************************)
(* The second factor of an employee: setup, enable and disable, each of    *)
(* which loads the account and commits later, and the login that asks for  *)
(* it.  A commit writes only the columns a handler has changed.            *)
(***************************************************************************)
EXTENDS Naturals, Nothing

CONSTANTS
  Changes,     \* requests that may be in progress together
  MaxSecrets,  \* bound: secrets generated
  ChangeLimit  \* attempts to enable or disable in 300 s (5)

VARIABLES
  factor,    \* the account: its secret and whether the factor is enabled
  change,    \* requests in progress, with the account as they loaded it
  secrets,   \* secrets generated so far
  attempts,  \* the counter of the limit
  ticket,    \* the MFA ticket of a login in progress: none, or given
  proved,    \* history: secrets a code of which has enabled the factor
  raced      \* history: what setup and disable wrote while another request ran

factorVars == <<factor, change, secrets, attempts, ticket, proved, raced>>

NoChange == [op |-> "none", secret |-> None, enabled |-> FALSE, overtaken |-> FALSE]

FactorInit ==
  /\ factor = [secret |-> None, enabled |-> FALSE]
  /\ change = [c \in Changes |-> NoChange]
  /\ secrets = 0 /\ attempts = 0 /\ ticket = "none"
  /\ proved = {} /\ raced = {}

Loads(c, op) == change' = [change EXCEPT ![c] = [op |-> op, secret |-> factor.secret,
                                                 enabled |-> factor.enabled, overtaken |-> FALSE]]
Drops(c)     == change' = [change EXCEPT ![c] = NoChange]

\* Request c commits and is over: those that have loaded the account before do
\* not see it.
Overtakes(c) == change' = [d \in Changes |-> IF d = c \/ change[d] = NoChange THEN NoChange
                                            ELSE [change[d] EXCEPT !.overtaken = TRUE]]
Races(c) == change[c].overtaken \/ \E d \in Changes \ {c} : change[d] # NoChange
Writes(c, secret) == raced' = IF Races(c) THEN raced \cup {secret} ELSE raced

\* Mutant of MaySetUp: an enabled factor may be set up anew.
MaySetUpAlways == TRUE
MaySetUp == ~factor.enabled

LoadSetup(c) ==
  /\ change[c] = NoChange /\ MaySetUp
  /\ Loads(c, "setup")
  /\ UNCHANGED <<factor, secrets, attempts, ticket, proved, raced>>

\* enabled was FALSE and stays so: only the secret is written.
CommitSetup(c) ==
  /\ change[c].op = "setup" /\ secrets < MaxSecrets
  /\ secrets' = secrets + 1
  /\ factor' = [factor EXCEPT !.secret = secrets + 1]
  /\ Writes(c, secrets + 1) /\ Overtakes(c)
  /\ UNCHANGED <<attempts, ticket, proved>>

MayChange(op) == IF op = "enable" THEN factor.secret # None
                                  ELSE factor.enabled /\ factor.secret # None

\* The counter counts refusals too; one above the limit stands for more.
LoadChange(c, op) ==
  /\ change[c] = NoChange /\ MayChange(op) /\ attempts <= ChangeLimit
  /\ attempts' = attempts + 1
  /\ IF attempts < ChangeLimit THEN Loads(c, op) ELSE UNCHANGED change
  /\ UNCHANGED <<factor, secrets, ticket, proved, raced>>

\* The code is checked against the secret that was loaded; codes of three
\* periods of 30 s are good.
WrongCode(c) ==
  /\ change[c].op \in {"enable", "disable"} /\ Drops(c)
  /\ UNCHANGED <<factor, secrets, attempts, ticket, proved, raced>>

CommitEnable(c) ==
  /\ change[c].op = "enable"
  /\ factor' = IF change[c].enabled THEN factor ELSE [factor EXCEPT !.enabled = TRUE]
  /\ proved' = proved \cup {change[c].secret}
  /\ Overtakes(c)
  /\ UNCHANGED <<secrets, attempts, ticket, raced>>

CommitDisable(c) ==
  /\ change[c].op = "disable"
  /\ factor' = [secret |-> None, enabled |-> FALSE]
  /\ Writes(c, None) /\ Overtakes(c)
  /\ UNCHANGED <<secrets, attempts, ticket, proved>>

\* verify_code of an employee whose factor is enabled hands out a ticket, which
\* verify_admin_2fa spends whether the code is right or not.
GiveTicket ==
  /\ factor.enabled /\ ticket = "none" /\ ticket' = "given"
  /\ UNCHANGED <<factor, change, secrets, attempts, proved, raced>>

\* A login with a ticket: refused when the factor is not set up (403), when the
\* code is wrong (400), and otherwise a session with mfa.
SpendTicket(result) ==
  /\ ticket = "given"
  /\ (result = "refused") = (~factor.enabled \/ factor.secret = None)
  /\ ticket' = "none"
  /\ UNCHANGED <<factor, change, secrets, attempts, proved, raced>>

ExpireLimit ==
  /\ attempts > 0 /\ attempts' = 0
  /\ UNCHANGED <<factor, change, secrets, ticket, proved, raced>>

FactorNext ==
  \/ \E c \in Changes : \/ LoadSetup(c) \/ CommitSetup(c) \/ WrongCode(c)
                        \/ CommitEnable(c) \/ CommitDisable(c)
                        \/ \E op \in {"enable", "disable"} : LoadChange(c, op)
  \/ GiveTicket \/ (\E r \in {"refused", "wrong", "session"} : SpendTicket(r)) \/ ExpireLimit

FactorSpec == FactorInit /\ [][FactorNext]_factorVars

-----------------------------------------------------------------------------
\* The secret of an enabled factor is one that its owner has shown a code of,
\* unless setup or disable ran beside another request: the factor of a working
\* administrator is not replaced by setting it up again.
EnabledSecretProved == factor.enabled => factor.secret \in proved \cup raced
=============================================================================
