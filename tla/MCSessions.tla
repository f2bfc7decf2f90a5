----------------------------- MODULE MCSessions -----------------------------
(***************************************************************************)
(* A browser and a phone on one account, one of them signed in at a time.  *)
(***************************************************************************)
EXTENDS SessionClients

CONSTANTS web, phone

\* An administrator blocks the account, lets it in again, gives and takes a role.
BlockOrPromote ==
  [status : {"blocked"}, staff : {FALSE}] \cup [status : {"active"}, staff : BOOLEAN]

\* The two meet in the account row only, for sessions of different logins share
\* nothing: one of them stays idle, with no token, no access token, no refresh.
OneAtATime ==
  \E c \in Clients : \A d \in Clients \ {c} :
    credential[d] = 0 /\ login[d] = NoLogin /\ ~stale[d] /\ rotation[d] = NoRotation
=============================================================================
