------------------------------ MODULE Services ------------------------------
(***************************************************************************)
(* The services of the API beside the publications, the returns and the    *)
(* sessions, put together: they share no state, so each behaviour          *)
(* exercises the one that its workload names.                              *)
(***************************************************************************)
EXTENDS Otp, TwoFactor, Idempotency, Support, Chat, Staff, Organizations, Console, MatchScore

CONSTANT Workloads  \* bound: the services that are exercised

VARIABLE workload   \* the one this behaviour exercises

ServicesInit ==
  /\ workload \in Workloads
  /\ OtpInit /\ FactorInit /\ IdemInit /\ SupportInit /\ ChatInit
  /\ StaffInit /\ OrgInit /\ ConsoleInit /\ ScoreInit

servicesVars ==
  <<workload, otpVars, factorVars, idemVars, supportVars, chatVars, staffVars, orgVars,
    consoleVars, compared>>

\* Only the overview reads when rows were made.
ServicesNext ==
  /\ IF workload = "codes" THEN OtpNext ELSE UNCHANGED otpVars
  /\ IF workload = "factor" THEN FactorNext ELSE UNCHANGED factorVars
  /\ IF workload = "repeat" THEN IdemNext ELSE UNCHANGED idemVars
  /\ IF workload = "support" THEN SupportNext ELSE UNCHANGED supportVars
  /\ IF workload = "chat" THEN ChatNext ELSE UNCHANGED chatVars
  /\ IF workload = "staff" THEN StaffNext ELSE UNCHANGED staffVars
  /\ IF workload = "team" THEN OrgNext ELSE UNCHANGED orgVars
  /\ CASE workload = "registers" -> (RowsChange /\ UNCHANGED within) \/ Scans
       [] workload = "overview"  -> RowsChange \/ Counts
       [] OTHER -> UNCHANGED consoleVars
  /\ IF workload = "score" THEN Compare ELSE UNCHANGED compared
  /\ UNCHANGED workload

ServicesSpec == ServicesInit /\ [][ServicesNext]_servicesVars
=============================================================================
