-------------------------------- MODULE Otp --------------------------------
(***************************************************************************)
(* One-time codes: /auth/request-code with its cooldown, its limits per    *)
(* phone and per client address, the budget of SMS and the sending, and    *)
(* the check of a code, which is one script in Redis.  Requests are served *)
(* by several replicas and interleave between any two Redis calls.         *)
(***************************************************************************)
EXTENDS Naturals, FiniteSets, Nothing

CONSTANTS
  Phones,
  Requests,              \* request-code calls that may be in progress together
  Addresses, Trusted,    \* client addresses, and those of the private gateway
  Origins,               \* (peer, X-Real-IP) pairs that requests come with
  OtpAttempts,           \* settings.otp_max_attempts
  CodesPerWindow, RequestsPerWindow,  \* the limits of 600 s: a phone, an address
  HourLimit, DayLimit,   \* settings.sms_hourly_limit, settings.sms_daily_limit
  MaxCodes,              \* bound: codes ever generated
  SlowSends              \* whether a sending may take longer than the cooldown

ASSUME CodesAssumption ==
  /\ OtpAttempts \in Nat \ {0} /\ CodesPerWindow \in Nat /\ IsFiniteSet(Requests)
  /\ None \notin Nat \cup [code : Nat, attempts : Nat]

VARIABLES
  otp,        \* the stored code of each phone and its wrong attempts, or None
  cooldown,   \* phones whose cooldown key is set
  phoneRate, ipRate, hour, day,  \* the counters in Redis
  req,        \* requests in progress
  codes,      \* codes generated so far
  delivered,  \* history: the live code each phone has received
  refusals,   \* history: codes whose sending failed
  guesses,    \* history: wrong attempts at each phone in its window
  carried     \* history: requests of the window before that could still store
              \* a code when this one began

otpVars == <<otp, cooldown, phoneRate, ipRate, hour, day, req, codes, delivered, refusals, guesses, carried>>

NoRequest == [phase |-> "idle", phone |-> None, address |-> None, code |-> 0]

OtpInit ==
  /\ otp = [p \in Phones |-> None] /\ cooldown = {}
  /\ phoneRate = [p \in Phones |-> 0] /\ ipRate = [a \in Addresses |-> 0]
  /\ hour = 0 /\ day = 0 /\ codes = 0 /\ refusals = {}
  /\ req = [r \in Requests |-> NoRequest]
  /\ delivered = [p \in Phones |-> None] /\ guesses = [p \in Phones |-> 0]
  /\ carried = [p \in Phones |-> 0]

Goes(r, phase) == req' = [req EXCEPT ![r].phase = phase]
Ends(r)        == req' = [req EXCEPT ![r] = NoRequest]
At(r, phase)   == req[r].phase = phase
InFlight(p, phases) == \E r \in Requests : req[r].phone = p /\ req[r].phase \in phases

\* The header counts only when the peer is the private gateway.
ClientIp(origin) == IF origin[1] \in Trusted /\ origin[2] # None THEN origin[2] ELSE origin[1]

\* The counters go on beyond their limit: one more than it stands for any.
Bumped(n, limit) == IF n > limit THEN n ELSE n + 1

Gone(p) == /\ otp' = [otp EXCEPT ![p] = None]
           /\ delivered' = [delivered EXCEPT ![p] = None]

AskCode(r, p, origin) ==
  /\ At(r, "idle") /\ p \notin cooldown
  /\ req' = [req EXCEPT ![r] = [phase |-> "counting", phone |-> p, address |-> ClientIp(origin), code |-> 0]]
  /\ UNCHANGED <<otp, cooldown, phoneRate, ipRate, hour, day, codes, delivered, refusals, guesses, carried>>

\* Two counters in a row; the second only if the first allows.
CountPhone(r) ==
  LET p == req[r].phone
  IN /\ At(r, "counting")
     /\ phoneRate' = [phoneRate EXCEPT ![p] = Bumped(@, CodesPerWindow)]
     /\ IF phoneRate[p] < CodesPerWindow THEN Goes(r, "addressing") ELSE Ends(r)
     /\ UNCHANGED <<otp, cooldown, ipRate, hour, day, codes, delivered, refusals, guesses, carried>>

CountAddress(r) ==
  LET a == req[r].address
  IN /\ At(r, "addressing")
     /\ ipRate' = [ipRate EXCEPT ![a] = Bumped(@, RequestsPerWindow)]
     /\ IF ipRate[a] < RequestsPerWindow THEN Goes(r, "cooling") ELSE Ends(r)
     /\ UNCHANGED <<otp, cooldown, phoneRate, hour, day, codes, delivered, refusals, guesses, carried>>

\* SET NX: of two requests that both saw no cooldown, one goes on.
MayCool(p) == p \notin cooldown

AcquireCooldown(r) ==
  LET p == req[r].phone
  IN /\ At(r, "cooling")
     /\ IF MayCool(p) THEN cooldown' = cooldown \cup {p} /\ Goes(r, "reserving")
                      ELSE Ends(r) /\ UNCHANGED cooldown
     /\ UNCHANGED <<otp, phoneRate, ipRate, hour, day, codes, delivered, refusals, guesses, carried>>

\* One script reserves an attempt in both budgets or in none.
Reserve(r) ==
  /\ At(r, "reserving")
  /\ IF day < DayLimit /\ hour < HourLimit
       THEN hour' = hour + 1 /\ day' = day + 1 /\ Goes(r, "storing")
       ELSE Goes(r, "refused") /\ UNCHANGED <<hour, day>>
  /\ UNCHANGED <<otp, cooldown, phoneRate, ipRate, codes, delivered, refusals, guesses, carried>>

\* A request over the budget gives the cooldown back and answers 503: the code
\* the phone may have stays.
RefuseOverBudget(r) ==
  LET p == req[r].phone
  IN /\ At(r, "refused")
     /\ cooldown' = cooldown \ {p}
     /\ Ends(r)
     /\ UNCHANGED <<otp, phoneRate, ipRate, hour, day, codes, delivered, refusals, guesses, carried>>

\* A new code takes the place of the one before, with no wrong attempts.
StoreCode(r) ==
  LET p == req[r].phone
  IN /\ At(r, "storing") /\ codes < MaxCodes
     /\ codes' = codes + 1
     /\ otp' = [otp EXCEPT ![p] = [code |-> codes + 1, attempts |-> 0]]
     /\ delivered' = [delivered EXCEPT ![p] = None]
     /\ req' = [req EXCEPT ![r].phase = "sending", ![r].code = codes + 1]
     /\ UNCHANGED <<cooldown, phoneRate, ipRate, hour, day, refusals, guesses, carried>>

\* Redis does not store the code: the one before is still there.
FailStore(r) ==
  /\ At(r, "storing")
  /\ Goes(r, "unstored")
  /\ UNCHANGED <<otp, cooldown, phoneRate, ipRate, hour, day, codes, delivered, refusals, guesses, carried>>

\* The provider accepts the code, and the phone receives it unless a later one
\* has replaced it.
SendCode(r) ==
  LET p == req[r].phone
  IN /\ At(r, "sending")
     /\ delivered' = IF otp[p] # None /\ otp[p].code = req[r].code
                       THEN [delivered EXCEPT ![p] = req[r].code] ELSE delivered
     /\ Ends(r)
     /\ UNCHANGED <<otp, cooldown, phoneRate, ipRate, hour, day, codes, refusals, guesses, carried>>

\* A timeout, an HTTP error or a refusal: it may have been sent all the same.
FailSend(r) ==
  /\ At(r, "sending")
  /\ Goes(r, "failing")
  /\ UNCHANGED <<otp, cooldown, phoneRate, ipRate, hour, day, codes, delivered, refusals, guesses, carried>>

\* Mutant of DropFailed: only the cooldown is given back.
DropFailedKept(r) ==
  /\ At(r, "failing")
  /\ cooldown' = cooldown \ {req[r].phone} /\ refusals' = refusals \cup {req[r].code}
  /\ Ends(r)
  /\ UNCHANGED <<otp, phoneRate, ipRate, hour, day, codes, delivered, guesses, carried>>

\* No usable code is left behind, and the next request need not wait.
DropFailed(r) ==
  LET p == req[r].phone
  IN /\ At(r, "failing")
     /\ otp' = [otp EXCEPT ![p] = None]
     /\ cooldown' = cooldown \ {p}
     /\ refusals' = refusals \cup {req[r].code}
     /\ Ends(r)
     /\ UNCHANGED <<phoneRate, ipRate, hour, day, codes, delivered, guesses, carried>>

\* The same handler deletes whatever code the phone had, received or not.
DropUnstored(r) ==
  LET p == req[r].phone
  IN /\ At(r, "unstored") /\ Gone(p)
     /\ cooldown' = cooldown \ {p}
     /\ Ends(r)
     /\ UNCHANGED <<phoneRate, ipRate, hour, day, codes, refusals, guesses, carried>>

\* The replica dies and leaves the keys to their expiry.
RequestDies(r) ==
  /\ ~At(r, "idle") /\ Ends(r)
  /\ UNCHANGED <<otp, cooldown, phoneRate, ipRate, hour, day, codes, delivered, refusals, guesses, carried>>

\* The script of verify_and_consume_otp: the right code is consumed, and the
\* last allowed wrong attempt deletes it.
\* Mutant of Exhausts: the attempts are counted and never compared.
ExhaustsNever(attempts) == FALSE
Exhausts(attempts)      == attempts >= OtpAttempts

\* What a window may hold: its own codes, one that was stored before it, and
\* those that requests counted before it have still to store.
GuessLimit(p) == (CodesPerWindow + 1 + carried[p]) * OtpAttempts

VerifyRight(p) ==
  /\ otp[p] # None /\ Gone(p)
  /\ UNCHANGED <<cooldown, phoneRate, ipRate, hour, day, req, codes, refusals, guesses, carried>>

VerifyWrong(p) ==
  LET attempts == otp[p].attempts + 1
  IN /\ otp[p] # None
     /\ guesses' = [guesses EXCEPT ![p] = Bumped(@, GuessLimit(p))]
     /\ IF Exhausts(attempts) THEN Gone(p)
        ELSE /\ otp' = [otp EXCEPT ![p].attempts = attempts]
             /\ UNCHANGED delivered
     /\ UNCHANGED <<cooldown, phoneRate, ipRate, hour, day, req, codes, refusals, carried>>

-----------------------------------------------------------------------------
\* Keys expire.  A sending (three phases of 10 s at most) is shorter than the
\* cooldown, unless SlowSends.
Busy == {"reserving", "refused", "storing", "unstored", "sending", "failing"}

ExpireCooldown(p) ==
  /\ p \in cooldown /\ (SlowSends \/ ~InFlight(p, Busy))
  /\ cooldown' = cooldown \ {p}
  /\ UNCHANGED <<otp, phoneRate, ipRate, hour, day, req, codes, delivered, refusals, guesses, carried>>

ExpireCode(p) ==
  /\ otp[p] # None /\ Gone(p)
  /\ UNCHANGED <<cooldown, phoneRate, ipRate, hour, day, req, codes, refusals, guesses, carried>>

\* The window of a phone runs from its first count, whatever is in progress:
\* requests that it has let in may store their codes in the next one.
Storing(p) == {r \in Requests : req[r].phone = p /\ req[r].phase \in {"addressing", "cooling", "reserving", "storing"}}

ExpirePhoneRate(p) ==
  /\ phoneRate[p] > 0
  /\ phoneRate' = [phoneRate EXCEPT ![p] = 0]
  /\ guesses' = [guesses EXCEPT ![p] = 0]
  /\ carried' = [carried EXCEPT ![p] = Cardinality(Storing(p))]
  /\ UNCHANGED <<otp, cooldown, ipRate, hour, day, req, codes, delivered, refusals>>

ExpireIpRate(a) ==
  /\ ipRate[a] > 0 /\ ipRate' = [ipRate EXCEPT ![a] = 0]
  /\ UNCHANGED <<otp, cooldown, phoneRate, hour, day, req, codes, delivered, refusals, guesses, carried>>

\* The keys of the budget carry the hour and the day in their names.
NextHour ==
  /\ hour > 0 /\ hour' = 0 /\ day' \in {day, 0}
  /\ UNCHANGED <<otp, cooldown, phoneRate, ipRate, req, codes, delivered, refusals, guesses, carried>>

OtpNext ==
  \/ \E r \in Requests : \/ \E p \in Phones, o \in Origins : AskCode(r, p, o)
                         \/ CountPhone(r) \/ CountAddress(r) \/ AcquireCooldown(r) \/ Reserve(r)
                         \/ RefuseOverBudget(r) \/ StoreCode(r) \/ SendCode(r)
                         \/ FailSend(r) \/ DropFailed(r) \/ RequestDies(r)
                         \/ FailStore(r) \/ DropUnstored(r)
  \/ \E p \in Phones : VerifyRight(p) \/ VerifyWrong(p) \/ ExpireCooldown(p)
                       \/ ExpireCode(p) \/ ExpirePhoneRate(p)
  \/ \E a \in Addresses : ExpireIpRate(a)
  \/ NextHour

OtpSpec == OtpInit /\ [][OtpNext]_otpVars

-----------------------------------------------------------------------------
\* However codes are requested, replaced, failed and exhausted, and by however
\* many replicas, a phone's code can be guessed at only so often in a window:
\* each of the codes the window allows, one that was left from before, and one
\* for each request that was counted before and had not stored its code yet.
GuessesBounded == \A p \in Phones : guesses[p] <= GuessLimit(p)

\* A code that the phone has received stays valid until it is used, exhausted,
\* expired or replaced, or until Redis fails to store the one that was to replace
\* it, also when a later request fails to send or is over the budget; and a code
\* whose sending failed is not left behind.
CodesMatchSms ==
  \A p \in Phones : /\ delivered[p] # None => otp[p] # None /\ otp[p].code = delivered[p]
                    /\ otp[p] # None => otp[p].code \notin refusals
=============================================================================
