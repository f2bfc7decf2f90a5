---------------------------- MODULE AccountProofs ----------------------------
(***************************************************************************)
(* Who may act as whom, for any number of people and of requests: the      *)
(* secret of an enabled second factor has been shown by its owner or was   *)
(* written beside another request; the service keeps an administrator and  *)
(* an organization a manager, and imports have somebody behind them; a     *)
(* code can be guessed at only so often, and is the one that was sent.     *)
(***************************************************************************)
EXTENDS TwoFactor, Staff, Otp, Organizations, FiniteSetTheorems, TLAPS

(* The second factor.                                                      *)

Secrets == Nat \cup {None}

FactorTypeOK ==
  /\ factor \in [secret : Secrets, enabled : BOOLEAN]
  /\ change \in [Changes -> [op : {"none", "setup", "enable", "disable"}, secret : Secrets,
                             enabled : BOOLEAN, overtaken : BOOLEAN]]
  /\ secrets \in Nat

\* What a request to enable has loaded is still the secret, or the secret was
\* written beside it.
LoadedIsCurrent ==
  \A c \in Changes : change[c].op = "enable" =>
    factor.secret = change[c].secret \/ factor.secret \in proved \cup raced

\* A setup that is in progress while the factor is enabled was there before.
SetupIsOvertaken ==
  \A c \in Changes : change[c].op = "setup" /\ factor.enabled => change[c].overtaken

FactorInv == FactorTypeOK /\ EnabledSecretProved /\ LoadedIsCurrent /\ SetupIsOvertaken

-----------------------------------------------------------------------------
\* The initial account has no factor and no request.
LEMMA FactorInit_Inv == FactorInit => FactorInv
BY DEF FactorInit, FactorInv, FactorTypeOK, EnabledSecretProved, LoadedIsCurrent, SetupIsOvertaken,
       NoChange, Secrets

\* Loading the account for a setup.
LEMMA LoadSetup_Inv ==
  ASSUME FactorInv, NEW c \in Changes, LoadSetup(c)
  PROVE  FactorInv'
BY DEF FactorInv, FactorTypeOK, EnabledSecretProved, LoadedIsCurrent, SetupIsOvertaken,
       LoadSetup, Loads, MaySetUp

\* Loading it to enable or disable the factor.
LEMMA LoadChange_Inv ==
  ASSUME FactorInv, NEW c \in Changes, NEW op \in {"enable", "disable"}, LoadChange(c, op)
  PROVE  FactorInv'
<1>1. CASE Loads(c, op)
  BY <1>1 DEF FactorInv, FactorTypeOK, EnabledSecretProved, LoadedIsCurrent, SetupIsOvertaken,
              LoadChange, Loads
<1>2. CASE UNCHANGED change
  BY <1>2 DEF FactorInv, FactorTypeOK, EnabledSecretProved, LoadedIsCurrent, SetupIsOvertaken,
              LoadChange
<1> QED  BY <1>1, <1>2 DEF LoadChange

\* A request that is refused goes away.
LEMMA WrongCode_Inv ==
  ASSUME FactorInv, NEW c \in Changes, WrongCode(c)
  PROVE  FactorInv'
BY DEF FactorInv, FactorTypeOK, EnabledSecretProved, LoadedIsCurrent, SetupIsOvertaken,
       WrongCode, Drops, NoChange, Secrets

\* After a commit the others keep what they have loaded, and are overtaken.
LEMMA OvertakenRequests ==
  ASSUME FactorTypeOK, NEW c \in Changes, Overtakes(c)
  PROVE  /\ change' \in [Changes -> [op : {"none", "setup", "enable", "disable"}, secret : Secrets,
                                     enabled : BOOLEAN, overtaken : BOOLEAN]]
         /\ \A d \in Changes : change'[d].op # "none" =>
              /\ d # c /\ change[d] # NoChange
              /\ change'[d].op = change[d].op /\ change'[d].secret = change[d].secret
              /\ change'[d].overtaken
BY DEF FactorTypeOK, Overtakes, NoChange, Secrets

\* A new secret: those in progress are overtaken, and it was written beside them.
LEMMA CommitSetup_Inv ==
  ASSUME FactorInv, NEW c \in Changes, CommitSetup(c)
  PROVE  FactorInv'
<1>1. FactorTypeOK'
  BY OvertakenRequests DEF FactorInv, FactorTypeOK, CommitSetup, Secrets
<1>2. factor.enabled => factor'.secret \in raced'
  BY DEF FactorInv, FactorTypeOK, SetupIsOvertaken, CommitSetup, Writes, Races
<1>3. ASSUME NEW d \in Changes, d # c, change[d] # NoChange
      PROVE  factor'.secret \in raced'
  BY <1>3 DEF FactorInv, FactorTypeOK, CommitSetup, Writes, Races
<1>4. EnabledSecretProved'
  BY <1>2 DEF FactorInv, FactorTypeOK, EnabledSecretProved, CommitSetup
<1>5. LoadedIsCurrent'
  BY <1>3, OvertakenRequests DEF FactorInv, LoadedIsCurrent, CommitSetup
<1>6. SetupIsOvertaken'
  BY OvertakenRequests DEF FactorInv, SetupIsOvertaken, CommitSetup
<1> QED  BY <1>1, <1>4, <1>5, <1>6 DEF FactorInv

\* The factor is enabled with the secret that was proved, or with one that was
\* written beside this request.
LEMMA CommitEnable_Inv ==
  ASSUME FactorInv, NEW c \in Changes, CommitEnable(c)
  PROVE  FactorInv'
<1>1. FactorTypeOK'
  BY OvertakenRequests DEF FactorInv, FactorTypeOK, CommitEnable
<1>2. factor'.secret = factor.secret
  BY DEF FactorInv, FactorTypeOK, CommitEnable
<1>3. factor.secret \in proved' \cup raced'
  BY DEF FactorInv, LoadedIsCurrent, CommitEnable
<1>4. EnabledSecretProved' /\ LoadedIsCurrent'
  BY <1>2, <1>3 DEF EnabledSecretProved, LoadedIsCurrent
<1>5. SetupIsOvertaken'
  BY OvertakenRequests DEF FactorInv, SetupIsOvertaken, CommitEnable
<1> QED  BY <1>1, <1>4, <1>5 DEF FactorInv

\* The factor is gone: a request to enable it that is in progress was raced.
LEMMA CommitDisable_Inv ==
  ASSUME FactorInv, NEW c \in Changes, CommitDisable(c)
  PROVE  FactorInv'
<1>1. FactorTypeOK'
  BY OvertakenRequests DEF FactorInv, FactorTypeOK, CommitDisable, Secrets
<1>2. ASSUME NEW d \in Changes, d # c, change[d] # NoChange
      PROVE  factor'.secret \in raced'
  BY <1>2 DEF CommitDisable, Writes, Races
<1>3. LoadedIsCurrent'
  BY <1>2, OvertakenRequests DEF FactorInv, LoadedIsCurrent, CommitDisable
<1>4. EnabledSecretProved' /\ SetupIsOvertaken'
  BY DEF EnabledSecretProved, SetupIsOvertaken, CommitDisable
<1> QED  BY <1>1, <1>3, <1>4 DEF FactorInv

\* Every step keeps the invariant.
LEMMA FactorNext_Inv == FactorInv /\ [FactorNext]_factorVars => FactorInv'
<1> SUFFICES ASSUME FactorInv, [FactorNext]_factorVars PROVE FactorInv'
  OBVIOUS
<1>1. CASE \E c \in Changes : LoadSetup(c) \/ CommitSetup(c) \/ WrongCode(c)
                              \/ CommitEnable(c) \/ CommitDisable(c)
  BY <1>1, LoadSetup_Inv, CommitSetup_Inv, WrongCode_Inv, CommitEnable_Inv, CommitDisable_Inv
<1>2. CASE \E c \in Changes : \E op \in {"enable", "disable"} : LoadChange(c, op)
  BY <1>2, LoadChange_Inv
<1>3. CASE GiveTicket \/ (\E r \in {"refused", "wrong", "session"} : SpendTicket(r)) \/ ExpireLimit
           \/ UNCHANGED factorVars
  BY <1>3 DEF FactorInv, FactorTypeOK, EnabledSecretProved, LoadedIsCurrent, SetupIsOvertaken,
              GiveTicket, SpendTicket, ExpireLimit, factorVars
<1> QED  BY <1>1, <1>2, <1>3 DEF FactorNext

\* For any number of requests in progress: the secret of an enabled factor is
\* one its owner has shown a code of, unless setup or disable ran beside
\* another request (auth.py, setup_admin_2fa, enable_admin_2fa, disable_admin_2fa).
THEOREM SecretIsProved == FactorSpec => []EnabledSecretProved
<1>1. FactorInv => EnabledSecretProved
  BY DEF FactorInv
<1> QED  BY FactorInit_Inv, FactorNext_Inv, <1>1, PTL DEF FactorSpec

-----------------------------------------------------------------------------
(* The administrators.  Whoever decides in time is one, and may not take   *)
(* their own role away, so that a decision leaves at least its author.     *)

Accounts == [role : Roles \cup {"user", "admin"}, status : {"invited", "active", "blocked", "deleted"},
             verified : BOOLEAN]

StaffTypeOK ==
  /\ person \in [People -> Accounts \cup {None}]
  /\ review \in [Reviews -> [by : People \cup {None}, stale : BOOLEAN]]
  /\ started \in BOOLEAN

\* Whoever decides in time is an administrator.
AuthorsDecide ==
  \A r \in Reviews : review[r].by # None /\ ~review[r].stale => review[r].by \in Admins(person)

\* Who has shown a number, and who has been appointed.
Vouched ==
  \A p \in People : person[p] # None /\ (person[p].verified \/ person[p].role = "admin") => p \in confirmed

LastLossExplained == started /\ Admins(person) = {} => lastStep \in {"left", "stale"}

StaffInv == StaffTypeOK /\ AuthorsDecide /\ Vouched /\ LastLossExplained

-----------------------------------------------------------------------------
\* There is nobody yet.
LEMMA StaffInit_Inv == StaffInit => StaffInv
<1> SUFFICES ASSUME StaffInit PROVE StaffInv
  OBVIOUS
<1>1. StaffTypeOK
  BY DEF StaffInit, StaffTypeOK, NoReview
<1>2. AuthorsDecide
  BY DEF StaffInit, AuthorsDecide, NoReview
<1>3. Vouched /\ LastLossExplained
  BY DEF StaffInit, Vouched, LastLossExplained
<1> QED  BY <1>1, <1>2, <1>3 DEF StaffInv

\* Nobody stops being an administrator unless their own account changes.
LEMMA OthersStay ==
  ASSUME StaffTypeOK, NEW p \in People, NEW account, NEW why, Becomes(p, account, why),
         NEW q \in Admins(person), q # p
  PROVE  q \in Admins(person')
BY DEF StaffTypeOK, Becomes, Admins, Active

\* A step that takes nobody's role away explains nothing new.
LEMMA NobodyLost ==
  ASSUME StaffInv, NEW p \in People, NEW account, NEW why, Becomes(p, account, why),
         Admins(person) \subseteq Admins(person')
  PROVE  LastLossExplained'
BY DEF StaffInv, StaffTypeOK, LastLossExplained, Becomes

\* An invited number has no role to lose and shows nothing.
LEMMA InviteNumber_Inv ==
  ASSUME StaffInv, NEW p \in People, InviteNumber(p)
  PROVE  StaffInv'
<1>1. StaffTypeOK'
  BY DEF StaffInv, StaffTypeOK, InviteNumber, Becomes, Person, Accounts
<1>2. Admins(person) \subseteq Admins(person')
  BY OthersStay DEF StaffInv, InviteNumber, Admins, Active
<1>3. AuthorsDecide'
  BY <1>2 DEF StaffInv, AuthorsDecide, InviteNumber
<1>4. Vouched'
  BY DEF StaffInv, StaffTypeOK, Vouched, InviteNumber, Becomes, Person
<1>5. LastLossExplained'
  BY <1>2, NobodyLost DEF InviteNumber
<1> QED  BY <1>1, <1>3, <1>4, <1>5 DEF StaffInv

\* A confirmed number keeps the role it had, or is new.
LEMMA ConfirmNumber_Inv ==
  ASSUME StaffInv, NEW p \in People, ConfirmNumber(p)
  PROVE  StaffInv'
<1> DEFINE account == CASE StatusOf(p) = "new" -> Person(RoleOfNew(p), "active", TRUE)
                        [] StatusOf(p) = "invited" -> Person(person[p].role, "active", TRUE)
                        [] OTHER -> person[p]
<1>1. Becomes(p, account, "none") /\ person' = [person EXCEPT ![p] = account]
  BY DEF ConfirmNumber, Becomes
<1>2. /\ account \in Accounts
      /\ p \in Admins(person) => account.status = "active" /\ account.role = "admin"
  <2>1. CASE person[p] = None
    BY <2>1 DEF StatusOf, Person, RoleOfNew, Accounts, Admins, Active
  <2>2. CASE person[p] # None
    BY <2>2, NoneAssumption DEF StaffInv, StaffTypeOK, ConfirmNumber, StatusOf, Person, Accounts, Admins, Active
  <2> QED  BY <2>1, <2>2
<1> HIDE DEF account
<1>3. StaffTypeOK'
  BY <1>1, <1>2 DEF StaffInv, StaffTypeOK, ConfirmNumber, Becomes
<1>4. Admins(person) \subseteq Admins(person')
  BY <1>1, <1>2, OthersStay, NoneAssumption DEF StaffInv, StaffTypeOK, Admins, Active, Accounts
<1>5. AuthorsDecide'
  BY <1>4 DEF StaffInv, AuthorsDecide, ConfirmNumber
<1>6. Vouched'
  BY <1>1 DEF StaffInv, StaffTypeOK, Vouched, ConfirmNumber
<1>7. LastLossExplained'
  BY <1>1, <1>4, NobodyLost
<1> QED  BY <1>3, <1>5, <1>6, <1>7 DEF StaffInv

\* Requests of p are out of date, those of others as before.
LEMMA OutdatedRequests ==
  ASSUME StaffTypeOK, NEW p \in People
  PROVE  /\ Outdated(p) \in [Reviews -> [by : People \cup {None}, stale : BOOLEAN]]
         /\ \A r \in Reviews : Outdated(p)[r].by = review[r].by
                               /\ (~Outdated(p)[r].stale => ~review[r].stale /\ review[r].by # p)
BY DEF StaffTypeOK, Outdated

\* Whoever leaves takes the last role along, by their own will.
LEMMA LeaveService_Inv ==
  ASSUME StaffInv, NEW p \in People, LeaveService(p)
  PROVE  StaffInv'
<1>1. StaffTypeOK'
  BY OutdatedRequests DEF StaffInv, StaffTypeOK, LeaveService, Becomes
<1>2. AuthorsDecide'
  BY OutdatedRequests, OthersStay DEF StaffInv, AuthorsDecide, LeaveService
<1>3. Vouched'
  BY DEF StaffInv, StaffTypeOK, Vouched, LeaveService, Becomes
<1>4. LastLossExplained'
  BY DEF StaffInv, StaffTypeOK, LastLossExplained, LeaveService, Becomes
<1> QED  BY <1>1, <1>2, <1>3, <1>4 DEF StaffInv

\* The author of a request is an administrator when it is let in.
LEMMA BeginReview_Inv ==
  ASSUME StaffInv, NEW r \in Reviews, NEW p \in People, BeginReview(r, p)
  PROVE  StaffInv'
BY DEF StaffInv, StaffTypeOK, AuthorsDecide, Vouched, LastLossExplained, BeginReview, Admitted, Admins

\* A request that is refused, or changes nothing, is over.
LEMMA ReviewOver ==
  ASSUME StaffInv, NEW r \in Reviews, review' = [review EXCEPT ![r] = NoReview],
         UNCHANGED <<person, started, lastStep, confirmed>>
  PROVE  StaffInv'
BY DEF StaffInv, StaffTypeOK, AuthorsDecide, Vouched, LastLossExplained, NoReview

\* A request that was let in in time leaves its author an administrator.
LEMMA CommitReview_Inv ==
  ASSUME StaffInv, NEW r \in Reviews, NEW target \in People, NEW role \in Roles \cup {None},
         NEW status \in {"active", "blocked", "deleted", None}, CommitReview(r, target, role, status)
  PROVE  StaffInv'
<1> DEFINE by == review[r].by
           account == person[target]
           new == [account EXCEPT !.role = Or(role, @), !.status = Or(status, @)]
           why == IF review[r].stale THEN "stale" ELSE "dismissed"
           refused == \/ target = by /\ OwnAccess(role, status)
                      \/ role \in {"admin", "moderator"} /\ ~Appointable(account)
<1>1. CASE refused
  <2>1. review' = [review EXCEPT ![r] = NoReview]
    BY <1>1 DEF CommitReview
  <2>2. UNCHANGED <<person, started, lastStep, confirmed>>
    BY <1>1 DEF CommitReview
  <2> QED  BY <2>1, <2>2, ReviewOver
<1>2. CASE ~refused
  <2>1. account \in Accounts /\ by \in People /\ by # None
    BY DEF StaffInv, StaffTypeOK, CommitReview
  <2>2. Becomes(target, new, why) /\ UNCHANGED confirmed
    BY <1>2 DEF CommitReview
  <2>3. review' = [(IF person' = person THEN review ELSE Outdated(target)) EXCEPT ![r] = NoReview]
    BY DEF CommitReview
  <2>4. /\ new \in Accounts
        /\ new.role = Or(role, account.role) /\ new.status = Or(status, account.status)
        /\ new.verified = account.verified
    BY <2>1 DEF Or, Accounts
  <2>5. person' = [person EXCEPT ![target] = new]
    BY <2>2 DEF Becomes
  <2> HIDE DEF new
  <2>6. StaffTypeOK'
    BY <2>2, <2>3, <2>4, <2>5, OutdatedRequests DEF StaffInv, StaffTypeOK, Becomes, NoReview
  <2>7. ASSUME NEW s \in Reviews, review'[s].by # None, ~review'[s].stale
        PROVE  review'[s].by \in Admins(person')
    <3>1. s # r
      BY <2>3, <2>7, OutdatedRequests DEF StaffInv, StaffTypeOK, NoReview
    <3>2. CASE person' = person
      BY <3>1, <3>2, <2>3, <2>7 DEF StaffInv, StaffTypeOK, AuthorsDecide
    <3>3. CASE person' # person
      <4>1. review'[s] = Outdated(target)[s]
        BY <3>1, <3>3, <2>3, OutdatedRequests DEF StaffInv
      <4>2. review'[s].by \in Admins(person) /\ review'[s].by # target
        BY <4>1, <2>7, OutdatedRequests DEF StaffInv, AuthorsDecide
      <4> QED  BY <4>2, <2>2, OthersStay DEF StaffInv
    <3> QED  BY <3>2, <3>3
  <2>8. Vouched'
    <3>1. new.role = "admin" => account.role = "admin" \/ account.verified
      BY <1>2, <2>4 DEF Or, Appointable
    <3> QED  BY <3>1, <2>1, <2>2, <2>4, <2>5, NoneAssumption DEF StaffInv, StaffTypeOK, Vouched, Accounts
  <2>9. LastLossExplained'
    <3>1. CASE review[r].stale
      BY <3>1, <2>2 DEF StaffInv, StaffTypeOK, LastLossExplained, Becomes
    <3>2. CASE ~review[r].stale
      <4>1. by \in Admins(person)
        BY <3>2, <2>1 DEF StaffInv, AuthorsDecide
      <4>2. CASE target # by
        BY <4>1, <4>2, <2>2, OthersStay DEF StaffInv, LastLossExplained
      <4>3. CASE target = by
        <5>1. new.role = "admin" /\ new.status = "active"
          BY <4>1, <4>3, <1>2, <2>4 DEF Or, OwnAccess, Admins, Active
        <5>2. target \in Admins(person')
          BY <5>1, <2>4, <2>5, NoneAssumption DEF StaffInv, StaffTypeOK, Admins, Active, Accounts
        <5> QED  BY <5>2 DEF LastLossExplained
      <4> QED  BY <4>2, <4>3
    <3> QED  BY <3>1, <3>2 DEF StaffInv, StaffTypeOK
  <2> QED  BY <2>6, <2>7, <2>8, <2>9 DEF StaffInv, AuthorsDecide
<1> QED  BY <1>1, <1>2

\* Every step keeps the invariant.
LEMMA StaffNext_Inv == StaffInv /\ [StaffNext]_staffVars => StaffInv'
<1> SUFFICES ASSUME StaffInv, [StaffNext]_staffVars PROVE StaffInv'
  OBVIOUS
<1>1. CASE \E p \in People : InviteNumber(p) \/ ConfirmNumber(p) \/ LeaveService(p)
  BY <1>1, InviteNumber_Inv, ConfirmNumber_Inv, LeaveService_Inv
<1>2. CASE \E r \in Reviews, p \in People : BeginReview(r, p)
  BY <1>2, BeginReview_Inv
<1>3. CASE \E r \in Reviews : \E p \in People, role \in Roles \cup {None},
              s \in {"active", "blocked", "deleted", None} : CommitReview(r, p, role, s)
  BY <1>3, CommitReview_Inv
<1>4. CASE UNCHANGED staffVars
  BY <1>4 DEF staffVars, StaffInv, StaffTypeOK, AuthorsDecide, Vouched, LastLossExplained, Admins, Active
<1> QED  BY <1>1, <1>2, <1>3, <1>4 DEF StaffNext

\* For any number of people and of overlapping requests: the last administrator
\* is lost only by leaving or to a request let in before, and every one has
\* shown the telephone number (admin_console.py, update_user).
THEOREM StaffIsKept == StaffSpec => []AdministratorRemains
<1>1. StaffInv => AdministratorRemains
  BY DEF StaffInv, StaffTypeOK, Vouched, LastLossExplained, AdministratorRemains, Admins, Active
<1> QED  BY StaffInit_Inv, StaffNext_Inv, <1>1, PTL DEF StaffSpec

-----------------------------------------------------------------------------
(* One-time codes.  The guesses that are left are those of the stored code *)
(* and of each code that may still be stored in this window: by a request  *)
(* that was let in, in this window or the one before, and by those that    *)
(* the limit would let in.                                                 *)

Phases == {"idle", "counting", "addressing", "cooling", "reserving", "refused", "storing", "unstored",
           "sending", "failing"}
Clients == {ClientIp(o) : o \in Origins} \cup {None}
Asked == [phase : Phases, phone : Phones \cup {None}, address : Clients, code : Nat]

OtpTypeOK ==
  /\ otp \in [Phones -> [code : Nat, attempts : Nat] \cup {None}]
  /\ cooldown \subseteq Phones
  /\ phoneRate \in [Phones -> Nat] /\ guesses \in [Phones -> Nat] /\ carried \in [Phones -> Nat] /\ codes \in Nat
  /\ delivered \in [Phones -> Nat \cup {None}]
  /\ req \in [Requests -> Asked]
  /\ \A r \in Requests : req[r].phase # "idle" => req[r].phone \in Phones

Unused(p) == IF phoneRate[p] < CodesPerWindow THEN CodesPerWindow - phoneRate[p] ELSE 0
Left(p) == IF otp[p] = None THEN 0 ELSE OtpAttempts - otp[p].attempts
Worth(n) == OtpAttempts * n
Limit(p) == Worth(CodesPerWindow + 1 + carried[p])

GuessesCounted ==
  \A p \in Phones :
    /\ otp[p] # None => otp[p].attempts < OtpAttempts
    /\ guesses[p] + Left(p) + Worth(Cardinality(Storing(p)) + Unused(p)) <= Limit(p)

\* A telephone has one request past its cooldown, which holds the cooldown.
OneAtATime ==
  \A r \in Requests : req[r].phase \in Busy =>
    /\ req[r].phone \in cooldown
    /\ \A s \in Requests : req[s].phase \in Busy /\ req[s].phone = req[r].phone => s = r

\* What is being sent is stored, if anything is, and has not been received; no
\* other telephone has the same code.
SentIsStored ==
  \A r \in Requests : req[r].phase \in {"sending", "failing"} =>
    LET p == req[r].phone
    IN /\ req[r].code \in 1..codes /\ delivered[p] = None
       /\ otp[p] # None => otp[p].code = req[r].code
       /\ \A q \in Phones \ {p} : otp[q] # None => otp[q].code # req[r].code

CodesAreNew ==
  /\ refusals \subseteq 1..codes
  /\ \A p \in Phones : otp[p] # None => otp[p].code \in 1..codes

SmsInv == OtpTypeOK /\ OneAtATime /\ SentIsStored /\ CodesAreNew /\ CodesMatchSms

LEMMA NoRequestIsAsked == NoRequest \in Asked /\ NoRequest.phase = "idle" /\ NoRequest.phone = None
BY DEF NoRequest, Asked, Phases, Clients

LEMMA StoringAreFew ==
  ASSUME NEW S, S \subseteq Requests
  PROVE  IsFiniteSet(S) /\ Cardinality(S) \in Nat
BY CodesAssumption, FS_Subset, FS_CardinalityType

\* What a step of a request, and a check of a code, do to the types.
LEMMA OtpNext_TypeOK ==
  ASSUME OtpTypeOK, [OtpNext]_otpVars
  PROVE  OtpTypeOK'
<1> USE CodesAssumption, NoRequestIsAsked DEF OtpTypeOK, Goes, Ends, At
<1>0. ASSUME NEW r \in Requests, NEW phase \in Phases, Goes(r, phase)
      PROVE  req' \in [Requests -> Asked] /\ req'[r].phone = req[r].phone
  BY <1>0 DEF Asked
<1>1. CASE UNCHANGED otpVars
  BY <1>1 DEF otpVars
<1>2. ASSUME NEW r \in Requests, NEW p \in Phones, NEW o \in Origins, AskCode(r, p, o)
      PROVE  OtpTypeOK'
  BY <1>2 DEF AskCode, Clients, Asked, Phases
<1>3. ASSUME NEW r \in Requests, CountPhone(r) \/ CountAddress(r) PROVE OtpTypeOK'
  <2>1. /\ phoneRate' \in [Phones -> Nat] /\ UNCHANGED <<otp, cooldown, codes, delivered, guesses, carried>>
        /\ Goes(r, "cooling") \/ Goes(r, "addressing") \/ Ends(r)
        /\ req[r].phone \in Phones
    BY <1>3 DEF CountPhone, CountAddress, Bumped
  <2> QED  BY <1>0, <2>1 DEF Phases
<1>4. ASSUME NEW r \in Requests, AcquireCooldown(r) PROVE OtpTypeOK'
  BY <1>0, <1>4 DEF AcquireCooldown, Phases
<1>5. ASSUME NEW r \in Requests, Reserve(r) \/ RefuseOverBudget(r) PROVE OtpTypeOK'
  BY <1>0, <1>5 DEF Reserve, RefuseOverBudget, Phases
<1>6. ASSUME NEW r \in Requests, StoreCode(r) PROVE OtpTypeOK'
  <2>1. /\ otp' = [otp EXCEPT ![req[r].phone] = [code |-> codes + 1, attempts |-> 0]] /\ codes' = codes + 1
        /\ delivered' = [delivered EXCEPT ![req[r].phone] = None] /\ UNCHANGED <<cooldown, phoneRate, guesses, carried>>
        /\ req' = [req EXCEPT ![r].phase = "sending", ![r].code = codes + 1] /\ req[r].phone \in Phones
    BY <1>6 DEF StoreCode
  <2>2. req' \in [Requests -> Asked] /\ \A s \in Requests : req'[s].phone = req[s].phone
    <3>1. req[r] \in Asked /\ codes + 1 \in Nat
      BY <1>6
    <3> DEFINE now == [[req[r] EXCEPT !.phase = "sending"] EXCEPT !.code = codes + 1]
    <3>2. now \in Asked /\ now.phone = req[r].phone
      BY <3>1 DEF Asked, Phases
    <3>3. req' = [req EXCEPT ![r] = now]
      BY <2>1
    <3> HIDE DEF now
    <3> QED  BY <3>2, <3>3
  <2>3. \A s \in Requests : req'[s].phase # "idle" => req'[s].phone \in Phones
    BY <2>1, <2>2
  <2> QED  BY <2>1, <2>2, <2>3
<1>7. ASSUME NEW r \in Requests, SendCode(r) \/ FailSend(r) \/ DropFailed(r) \/ RequestDies(r)
      PROVE  OtpTypeOK'
  BY <1>0, <1>7, SMTT(30) DEF SendCode, FailSend, DropFailed, RequestDies, Phases, Asked
<1>12. ASSUME NEW r \in Requests, FailStore(r) \/ DropUnstored(r) PROVE OtpTypeOK'
  BY <1>0, <1>12 DEF FailStore, DropUnstored, Gone, Phases
<1>8. ASSUME NEW p \in Phones, VerifyWrong(p) PROVE OtpTypeOK'
  BY <1>8 DEF VerifyWrong, Gone, Bumped
<1>9. ASSUME NEW p \in Phones, VerifyRight(p) \/ ExpireCooldown(p) \/ ExpireCode(p)
      PROVE  OtpTypeOK'
  BY <1>9 DEF VerifyRight, ExpireCooldown, ExpireCode, Gone
<1>13. ASSUME NEW p \in Phones, ExpirePhoneRate(p) PROVE OtpTypeOK'
  <2>1. Cardinality(Storing(p)) \in Nat
    BY StoringAreFew DEF Storing
  <2> QED  BY <1>13, <2>1 DEF ExpirePhoneRate
<1>10. ASSUME NEW a \in Addresses, ExpireIpRate(a) PROVE OtpTypeOK'
  BY <1>10 DEF ExpireIpRate
<1>11. CASE NextHour
  BY <1>11 DEF NextHour
<1> QED  BY <1>1, <1>2, <1>3, <1>4, <1>5, <1>6, <1>7, <1>8, <1>9, <1>10, <1>11, <1>12, <1>13 DEF OtpNext

LEMMA OtpInit_TypeOK == OtpInit => OtpTypeOK
BY NoRequestIsAsked DEF OtpInit, OtpTypeOK

\* One code more is worth the attempts of a code.
LEMMA WorthOfOne ==
  /\ \A n \in Nat : Worth(n) \in Nat /\ Worth(n + 1) = Worth(n) + OtpAttempts
  /\ \A m, n \in Nat : m <= n => Worth(m) <= Worth(n)
<1>1. \A n \in Nat : Worth(n) \in Nat /\ Worth(n + 1) = Worth(n) + OtpAttempts
  BY CodesAssumption DEF Worth
<1>2. ASSUME NEW m \in Nat, NEW n \in Nat, m <= n PROVE Worth(m) <= Worth(n)
  <2>1. PICK k \in Nat : n = m + k
    BY <1>2
  <2>2. OtpAttempts * (m + k) = OtpAttempts * m + OtpAttempts * k /\ OtpAttempts * k >= 0
    BY CodesAssumption
  <2> QED  BY <2>1, <2>2, CodesAssumption DEF Worth
<1> QED  BY <1>1, <1>2

\* A step that adds no guess, keeps or drops the stored code, and lets in nobody.
LEMMA NothingSpent ==
  ASSUME GuessesCounted, OtpTypeOK, OtpTypeOK', NEW p \in Phones,
         guesses'[p] = guesses[p], carried'[p] = carried[p], otp'[p] \in {otp[p], None}, phoneRate'[p] >= phoneRate[p],
         Storing(p)' \subseteq Storing(p)
  PROVE  GuessesCounted!(p)'
<1>1. /\ IsFiniteSet(Storing(p)') /\ Cardinality(Storing(p)') <= Cardinality(Storing(p))
      /\ Cardinality(Storing(p)) \in Nat /\ Cardinality(Storing(p)') \in Nat
  BY StoringAreFew, FS_Subset, FS_CardinalityType DEF Storing
<1>2. Unused(p)' <= Unused(p) /\ Unused(p) \in Nat /\ Unused(p)' \in Nat
  BY CodesAssumption DEF OtpTypeOK, Unused
<1>3. Worth(Cardinality(Storing(p)') + Unused(p)') <= Worth(Cardinality(Storing(p)) + Unused(p))
  BY <1>1, <1>2, WorthOfOne
<1>4. Left(p)' <= Left(p) /\ Left(p) \in Nat /\ Left(p)' \in Nat
  BY CodesAssumption DEF OtpTypeOK, GuessesCounted, Left
<1>5. /\ Worth(Cardinality(Storing(p)') + Unused(p)') \in Nat
      /\ Worth(Cardinality(Storing(p)) + Unused(p)) \in Nat
      /\ Limit(p) \in Nat
  <2>1. /\ Cardinality(Storing(p)') + Unused(p)' \in Nat /\ Cardinality(Storing(p)) + Unused(p) \in Nat
        /\ CodesPerWindow + 1 + carried[p] \in Nat
    BY <1>1, <1>2, CodesAssumption DEF OtpTypeOK
  <2> QED  BY <2>1, WorthOfOne DEF Limit
<1>10. guesses[p] \in Nat
  BY DEF OtpTypeOK
<1>6. otp'[p] # None => otp'[p].attempts < OtpAttempts
  BY DEF GuessesCounted
<1>7. /\ Limit(p)' = Limit(p)
      /\ Worth(Cardinality(Storing(p)) + Unused(p))' = Worth(Cardinality(Storing(p)') + Unused(p)')
  BY DEF Worth, Limit
<1>8. guesses[p] + Left(p) + Worth(Cardinality(Storing(p)) + Unused(p)) <= Limit(p)
  BY DEF GuessesCounted
<1>9. guesses'[p] + Left(p)' + Worth(Cardinality(Storing(p)) + Unused(p))' <= Limit(p)'
  BY <1>3, <1>4, <1>5, <1>7, <1>8, <1>10
<1> QED  BY <1>6, <1>9

\* What is spent is at most what one step less leaves: the sums of a telephone.
LEMMA Sums ==
  ASSUME GuessesCounted, OtpTypeOK, NEW p \in Phones
  PROVE  /\ IsFiniteSet(Storing(p)) /\ Cardinality(Storing(p)) \in Nat /\ Unused(p) \in Nat
         /\ Left(p) \in 0..OtpAttempts /\ guesses[p] \in Nat /\ OtpAttempts \in Nat \ {0} /\ Limit(p) \in Nat
         /\ guesses[p] + Left(p) + Worth(Cardinality(Storing(p)) + Unused(p)) <= Limit(p)
<1>1. /\ otp[p] # None => otp[p].attempts < OtpAttempts
      /\ guesses[p] + Left(p) + Worth(Cardinality(Storing(p)) + Unused(p)) <= Limit(p)
  BY DEF GuessesCounted
<1>2. IsFiniteSet(Storing(p)) /\ Cardinality(Storing(p)) \in Nat
  BY StoringAreFew DEF Storing
<1>3. Limit(p) \in Nat
  <2>1. CodesPerWindow + 1 + carried[p] \in Nat
    BY CodesAssumption DEF OtpTypeOK
  <2> QED  BY <2>1, WorthOfOne DEF Limit
<1> QED  BY <1>1, <1>2, <1>3, CodesAssumption DEF OtpTypeOK, Left, Unused

LEMMA CountPhone_Guesses ==
  ASSUME GuessesCounted, OtpTypeOK, OtpTypeOK', NEW r \in Requests, CountPhone(r)
  PROVE  GuessesCounted'
<1>0. PICK p \in Phones : p = req[r].phone
  BY DEF CountPhone, At, OtpTypeOK
<1>1. /\ p = req[r].phone /\ p \in Phones /\ req[r].phase = "counting" /\ UNCHANGED <<otp, guesses, carried>>
      /\ phoneRate' = [phoneRate EXCEPT ![p] = Bumped(@, CodesPerWindow)]
      /\ \/ Ends(r)
         \/ Goes(r, "addressing") /\ phoneRate[p] < CodesPerWindow
  BY <1>0 DEF CountPhone, At, OtpTypeOK
<1> SUFFICES ASSUME NEW q \in Phones PROVE GuessesCounted!(q)'
  BY DEF GuessesCounted
<1>2. /\ phoneRate'[q] >= phoneRate[q]
      /\ q = p /\ phoneRate[p] < CodesPerWindow => phoneRate'[q] = phoneRate[q] + 1
  BY <1>1, CodesAssumption DEF OtpTypeOK, Bumped
<1>3. CASE q # p \/ Ends(r)
  <2>1. Storing(q)' \subseteq Storing(q)
    BY <1>1, <1>3, NoRequestIsAsked DEF Storing, Ends, Goes, OtpTypeOK, Asked
  <2> QED  BY <1>1, <1>2, <2>1, NothingSpent
<1>4. CASE q = p /\ Goes(r, "addressing") /\ phoneRate[p] < CodesPerWindow
  <2>1. Storing(p)' = Storing(p) \cup {r} /\ r \notin Storing(p)
    BY <1>1, <1>4 DEF Storing, Goes, OtpTypeOK, Asked
  <2>2. IsFiniteSet(Storing(p)') /\ Cardinality(Storing(p)') = Cardinality(Storing(p)) + 1
    BY <1>1, <2>1, Sums, FS_AddElement
  <2>3. Unused(p)' = Unused(p) - 1 /\ Unused(p) > 0
    <3>1. /\ phoneRate[p] \in Nat /\ CodesPerWindow \in Nat
          /\ phoneRate[p] < CodesPerWindow /\ phoneRate'[p] = phoneRate[p] + 1
      BY <1>1, <1>2, <1>4, CodesAssumption DEF OtpTypeOK
    <3> QED  BY <3>1 DEF Unused
  <2>4. Cardinality(Storing(p)') + Unused(p)' = Cardinality(Storing(p)) + Unused(p)
    BY <1>1, <2>2, <2>3, Sums
  <2>5. Left(p)' = Left(p)
    BY <1>1 DEF Left
  <2>6. guesses'[p] + Left(p)' + Worth(Cardinality(Storing(p)') + Unused(p)') <= Limit(p)
    BY <1>1, <2>4, <2>5, Sums
  <2> QED  BY <1>1, <1>4, <2>2, <2>6 DEF GuessesCounted, Worth, Limit
<1> QED  BY <1>1, <1>3, <1>4

LEMMA StoreCode_Guesses ==
  ASSUME GuessesCounted, OtpTypeOK, OtpTypeOK', NEW r \in Requests, StoreCode(r)
  PROVE  GuessesCounted'
<1>0. PICK p \in Phones : p = req[r].phone
  BY DEF StoreCode, At, OtpTypeOK
<1>1. /\ p = req[r].phone /\ p \in Phones /\ req[r].phase = "storing" /\ UNCHANGED <<guesses, phoneRate, carried>>
      /\ otp' = [otp EXCEPT ![p] = [code |-> codes + 1, attempts |-> 0]]
      /\ \A s \in Requests : req'[s].phone = req[s].phone /\ req'[s].phase = IF s = r THEN "sending" ELSE req[s].phase
  BY <1>0 DEF StoreCode, At, OtpTypeOK, Asked
<1> SUFFICES ASSUME NEW q \in Phones PROVE GuessesCounted!(q)'
  BY DEF GuessesCounted
<1>2. CASE q # p
  <2>1. Storing(q)' \subseteq Storing(q) /\ otp'[q] = otp[q] /\ phoneRate'[q] >= phoneRate[q]
    BY <1>1, <1>2 DEF Storing, OtpTypeOK
  <2> QED  BY <1>1, <2>1, NothingSpent
<1>3. CASE q = p
  <2>1. Storing(p)' = Storing(p) \ {r} /\ r \in Storing(p)
    BY <1>1 DEF Storing
  <2>2. /\ IsFiniteSet(Storing(p)') /\ Cardinality(Storing(p)') = Cardinality(Storing(p)) - 1
        /\ Cardinality(Storing(p)') \in Nat
    BY <1>1, <2>1, Sums, FS_RemoveElement, FS_CardinalityType
  <2>3. Unused(p)' = Unused(p)
    BY <1>1 DEF Unused
  <2>4. Worth(Cardinality(Storing(p)) + Unused(p)) = Worth(Cardinality(Storing(p)') + Unused(p)') + OtpAttempts
    <3>1. Cardinality(Storing(p)) + Unused(p) = (Cardinality(Storing(p)') + Unused(p)') + 1
      BY <1>1, <2>2, <2>3, Sums
    <3>2. Cardinality(Storing(p)') + Unused(p)' \in Nat
      BY <1>1, <2>2, <2>3, Sums
    <3> QED  BY <3>1, <3>2, WorthOfOne
  <2>5. otp'[p] = [code |-> codes + 1, attempts |-> 0] /\ Left(p)' <= OtpAttempts /\ Left(p)' \in Nat
    BY <1>1, CodesAssumption DEF OtpTypeOK, Left
  <2>6. /\ Limit(p) \in Nat
        /\ Worth(Cardinality(Storing(p)') + Unused(p)') \in Nat
    <3>1. Cardinality(Storing(p)') + Unused(p)' \in Nat
      BY <1>1, <2>2, <2>3, Sums
    <3> QED  BY <1>1, <3>1, Sums, WorthOfOne
  <2>7. guesses'[p] + Left(p)' + Worth(Cardinality(Storing(p)') + Unused(p)') <= Limit(p)
    BY <1>1, <2>4, <2>5, <2>6, Sums
  <2>8. 0 < OtpAttempts
    BY CodesAssumption
  <2> QED  BY <1>1, <1>3, <2>2, <2>5, <2>7, <2>8 DEF GuessesCounted, Worth, Limit
<1> QED  BY <1>2, <1>3

LEMMA VerifyWrong_Guesses ==
  ASSUME GuessesCounted, OtpTypeOK, OtpTypeOK', NEW p \in Phones, VerifyWrong(p)
  PROVE  GuessesCounted'
<1>1. /\ otp[p] # None /\ UNCHANGED <<req, phoneRate, carried>>
      /\ guesses' = [guesses EXCEPT ![p] = Bumped(@, GuessLimit(p))]
      /\ IF otp[p].attempts + 1 >= OtpAttempts THEN otp' = [otp EXCEPT ![p] = None]
         ELSE otp' = [otp EXCEPT ![p].attempts = otp[p].attempts + 1]
  BY DEF VerifyWrong, Exhausts, Gone
<1>2. \A q : Storing(q)' = Storing(q) /\ Unused(q)' = Unused(q)
  BY <1>1 DEF Storing, Unused
<1> SUFFICES ASSUME NEW q \in Phones PROVE GuessesCounted!(q)'
  BY DEF GuessesCounted
<1>3. CASE q # p
  <2>1. otp'[q] = otp[q] /\ guesses'[q] = guesses[q] /\ carried'[q] = carried[q] /\ phoneRate'[q] >= phoneRate[q]
    BY <1>1, <1>3 DEF OtpTypeOK
  <2> QED  BY <1>2, <2>1, NothingSpent
<1>4. CASE q = p
  <2>1. guesses'[p] \in Nat /\ guesses'[p] <= guesses[p] + 1
    BY <1>1 DEF OtpTypeOK, Bumped
  <2>2. otp[p].attempts \in Nat /\ otp[p].attempts < OtpAttempts /\ Left(p) = OtpAttempts - otp[p].attempts
    BY <1>1 DEF OtpTypeOK, GuessesCounted, Left
  <2>3. /\ Left(p)' \in Nat /\ Left(p)' <= Left(p) - 1
        /\ otp'[p] # None => otp'[p].attempts < OtpAttempts
    <3>1. CASE otp[p].attempts + 1 >= OtpAttempts
      <4>1. otp'[p] = None
        BY <1>1, <3>1 DEF OtpTypeOK
      <4> QED  BY <2>2, <3>1, <4>1, CodesAssumption DEF Left
    <3>2. CASE ~(otp[p].attempts + 1 >= OtpAttempts)
      <4>1. otp'[p].attempts = otp[p].attempts + 1
        BY <1>1, <3>2 DEF OtpTypeOK
      <4>2. otp'[p] # None
        BY <1>1, <3>2, CodesAssumption DEF OtpTypeOK
      <4> QED  BY <2>2, <3>2, <4>1, <4>2, CodesAssumption DEF Left
    <3> QED  BY <3>1, <3>2
  <2>4. guesses'[p] + Left(p)' + Worth(Cardinality(Storing(p)) + Unused(p)) <= Limit(p)
    <3>1. Limit(p) \in Nat /\ Worth(Cardinality(Storing(p)) + Unused(p)) \in Nat
      BY Sums, WorthOfOne, CodesAssumption
    <3> QED  BY <2>1, <2>3, <3>1, Sums
  <2>5. Limit(p)' = Limit(p)
    BY <1>1 DEF Limit, Worth
  <2>6. guesses'[p] + Left(p)' + Worth(Cardinality(Storing(p)) + Unused(p))' <= Limit(p)'
    BY <1>2, <2>4, <2>5 DEF Worth
  <2> QED  BY <1>4, <2>3, <2>6 DEF GuessesCounted
<1> QED  BY <1>3, <1>4

\* A window begins with what is stored, and with those that may still store.
LEMMA ExpirePhoneRate_Guesses ==
  ASSUME GuessesCounted, OtpTypeOK, OtpTypeOK', NEW p \in Phones, ExpirePhoneRate(p)
  PROVE  GuessesCounted'
<1>1. /\ UNCHANGED <<otp, req>> /\ carried' = [carried EXCEPT ![p] = Cardinality(Storing(p))]
      /\ phoneRate' = [phoneRate EXCEPT ![p] = 0] /\ guesses' = [guesses EXCEPT ![p] = 0]
  BY DEF ExpirePhoneRate
<1>2. \A q : Storing(q)' = Storing(q) /\ Left(q)' = Left(q)
  BY <1>1 DEF Storing, Left
<1> SUFFICES ASSUME NEW q \in Phones PROVE GuessesCounted!(q)'
  BY DEF GuessesCounted
<1>3. CASE q # p
  <2>1. /\ otp'[q] = otp[q] /\ guesses'[q] = guesses[q] /\ phoneRate'[q] >= phoneRate[q]
        /\ carried'[q] = carried[q]
    BY <1>1, <1>3 DEF OtpTypeOK
  <2> QED  BY <1>2, <2>1, NothingSpent
<1>4. CASE q = p
  <2> DEFINE n == Cardinality(Storing(p))
  <2>1. /\ guesses'[p] = 0 /\ carried'[p] = n /\ Unused(p)' = CodesPerWindow
        /\ Left(p) \in 0..OtpAttempts /\ n \in Nat
    BY <1>1, Sums, CodesAssumption DEF OtpTypeOK, Unused
  <2>2. Worth(n + CodesPerWindow + 1) = Worth(n + CodesPerWindow) + OtpAttempts /\ Worth(n + CodesPerWindow) \in Nat
    <3>1. n + CodesPerWindow \in Nat
      BY <2>1, CodesAssumption
    <3> QED  BY <3>1, WorthOfOne
  <2>3. Limit(p)' = Worth(n + CodesPerWindow + 1)
    <3>1. CodesPerWindow + 1 + n = n + CodesPerWindow + 1
      BY <2>1, CodesAssumption
    <3>2. Limit(p)' = Worth(CodesPerWindow + 1 + n)
      BY <2>1 DEF Limit, Worth
    <3> QED  BY <3>1, <3>2
  <2>4. guesses'[p] + Left(p) + Worth(n + Unused(p)') <= Worth(n + CodesPerWindow + 1)
    <3> HIDE DEF n
    <3> QED  BY <2>1, <2>2, CodesAssumption
  <2>5. guesses'[p] + Left(p)' + Worth(Cardinality(Storing(p)) + Unused(p))' <= Limit(p)'
    BY <1>2, <2>3, <2>4 DEF Worth
  <2> QED  BY <1>1, <1>2, <1>4, <2>5 DEF GuessesCounted
<1> QED  BY <1>3, <1>4

LEMMA OtpNext_Guesses ==
  ASSUME GuessesCounted, OtpTypeOK, [OtpNext]_otpVars
  PROVE  GuessesCounted'
<1> USE OtpNext_TypeOK, NoRequestIsAsked
<1>1. ASSUME guesses' = guesses, carried' = carried, phoneRate' = phoneRate, \A p \in Phones : otp'[p] \in {otp[p], None},
             \A p \in Phones : Storing(p)' \subseteq Storing(p)
      PROVE  GuessesCounted'
  <2> SUFFICES ASSUME NEW q \in Phones PROVE GuessesCounted!(q)'
    BY DEF GuessesCounted
  <2>1. phoneRate'[q] >= phoneRate[q]
    BY <1>1 DEF OtpTypeOK
  <2> QED  BY <1>1, <2>1, NothingSpent
<1>2. ASSUME NEW r \in Requests, NEW p \in Phones, NEW o \in Origins, AskCode(r, p, o)
      PROVE  GuessesCounted'
  BY <1>1, <1>2 DEF AskCode, At, OtpTypeOK, Storing
<1>3. ASSUME NEW r \in Requests, NEW phase \in Phases, Goes(r, phase), 
             \/ phase \notin {"addressing", "cooling", "reserving", "storing"}
             \/ req[r].phase \in {"addressing", "cooling", "reserving"}
      PROVE  \A p \in Phones : Storing(p)' \subseteq Storing(p)
  BY <1>3 DEF Goes, Storing, OtpTypeOK, Asked
<1>4. ASSUME NEW r \in Requests, Ends(r)
      PROVE  \A p \in Phones : Storing(p)' \subseteq Storing(p)
  BY <1>4 DEF Ends, Storing, OtpTypeOK
<1>5. ASSUME NEW r \in Requests, CountAddress(r) \/ AcquireCooldown(r) \/ Reserve(r) \/ FailStore(r)
      PROVE  GuessesCounted'
  BY <1>1, <1>3, <1>4, <1>5 DEF CountAddress, AcquireCooldown, Reserve, FailStore, At, Phases
<1>6. ASSUME NEW r \in Requests, RefuseOverBudget(r) \/ SendCode(r) \/ FailSend(r) \/ DropFailed(r) \/ DropUnstored(r) \/ RequestDies(r)
      PROVE  GuessesCounted'
  <2>1. /\ guesses' = guesses /\ carried' = carried /\ phoneRate' = phoneRate
        /\ \A p \in Phones : otp'[p] \in {otp[p], None}
        /\ Ends(r) \/ Goes(r, "failing")
    BY <1>6 DEF RefuseOverBudget, SendCode, FailSend, DropFailed, DropUnstored, Gone, RequestDies, OtpTypeOK
  <2> QED  BY <1>1, <1>3, <1>4, <2>1 DEF Phases
<1>7. ASSUME NEW p \in Phones, VerifyRight(p) \/ ExpireCooldown(p) \/ ExpireCode(p) PROVE GuessesCounted'
  BY <1>1, <1>7 DEF VerifyRight, ExpireCooldown, ExpireCode, Gone, OtpTypeOK, Storing
<1>8. ASSUME UNCHANGED <<guesses, carried, phoneRate, otp, req>> PROVE GuessesCounted'
  BY <1>1, <1>8 DEF Storing
<1>9. CASE NextHour \/ UNCHANGED otpVars \/ \E a \in Addresses : ExpireIpRate(a)
  BY <1>8, <1>9 DEF NextHour, ExpireIpRate, otpVars
<1> QED  BY <1>2, <1>5, <1>6, <1>7, <1>9, CountPhone_Guesses, StoreCode_Guesses, VerifyWrong_Guesses,
            ExpirePhoneRate_Guesses DEF OtpNext

\* However codes are asked for, replaced, failed, exhausted and let expire, by
\* any number of requests of any number of replicas, verify_and_consume_otp lets
\* through at most the wrong attempts of the window's codes, of one before, and
\* of those that requests of the windows before had still to store.
THEOREM GuessesAreBounded == OtpSpec => []GuessesBounded
<1>1. OtpInit => OtpTypeOK /\ GuessesCounted
  <2> SUFFICES ASSUME OtpInit, NEW p \in Phones PROVE GuessesCounted!(p)
    BY OtpInit_TypeOK DEF GuessesCounted
  <2>1. /\ Storing(p) = {} /\ Left(p) = 0 /\ Unused(p) = CodesPerWindow
        /\ guesses[p] = 0 /\ otp[p] = None /\ carried[p] = 0
    BY CodesAssumption, NoRequestIsAsked DEF OtpInit, Storing, Left, Unused
  <2>2. Worth(CodesPerWindow) <= Worth(CodesPerWindow + 1) /\ Worth(CodesPerWindow) \in Nat
    BY WorthOfOne, CodesAssumption
  <2>3. Limit(p) = Worth(CodesPerWindow + 1)
    <3>1. CodesPerWindow + 1 + 0 = CodesPerWindow + 1
      BY CodesAssumption
    <3> QED  BY <2>1, <3>1 DEF Limit
  <2>4. guesses[p] + Left(p) + Worth(Cardinality(Storing(p)) + Unused(p)) <= Limit(p)
    BY <2>1, <2>2, <2>3, FS_EmptySet, CodesAssumption
  <2> QED  BY <2>1, <2>4
<1>2. OtpTypeOK /\ GuessesCounted /\ [OtpNext]_otpVars => OtpTypeOK' /\ GuessesCounted'
  BY OtpNext_TypeOK, OtpNext_Guesses
<1>3. OtpTypeOK /\ GuessesCounted => GuessesBounded
  <2> SUFFICES ASSUME OtpTypeOK, GuessesCounted, NEW p \in Phones PROVE guesses[p] <= GuessLimit(p)
    BY DEF GuessesBounded
  <2>1. Limit(p) \in Nat /\ Worth(Cardinality(Storing(p)) + Unused(p)) \in Nat
    BY Sums, WorthOfOne
  <2>2. guesses[p] <= Limit(p)
    BY <2>1, Sums
  <2>3. Limit(p) = GuessLimit(p)
    BY CodesAssumption DEF Worth, Limit, GuessLimit, OtpTypeOK
  <2> QED  BY <2>2, <2>3
<1> QED  BY <1>1, <1>2, <1>3, PTL DEF OtpSpec

-----------------------------------------------------------------------------
\* What the phases of a step do to the requests.
LEMMA RequestMoves ==
  ASSUME OtpTypeOK, NEW r \in Requests
  PROVE  /\ Ends(r) => \A s \in Requests : req'[s] = IF s = r THEN NoRequest ELSE req[s]
         /\ \A phase \in Phases : Goes(r, phase) =>
              \A s \in Requests : /\ s # r => req'[s] = req[s]
                                  /\ req'[s].phone = req[s].phone /\ req'[s].code = req[s].code
                                  /\ req'[s].phase = IF s = r THEN phase ELSE req[s].phase
<1>1. Ends(r) => \A s \in Requests : req'[s] = IF s = r THEN NoRequest ELSE req[s]
  BY DEF Ends, OtpTypeOK
<1>2. ASSUME NEW phase \in Phases, Goes(r, phase)
      PROVE  \A s \in Requests : /\ s # r => req'[s] = req[s]
                                 /\ req'[s].phone = req[s].phone /\ req'[s].code = req[s].code
                                 /\ req'[s].phase = IF s = r THEN phase ELSE req[s].phase
  BY <1>2 DEF Goes, OtpTypeOK, Asked
<1> QED  BY <1>1, <1>2

\* Requests that end, fail or go on before their code is stored.
LEMMA CooldownsKept ==
  ASSUME OneAtATime, cooldown \subseteq cooldown',
         \A s \in Requests : req'[s].phase \in Busy => req[s].phase \in Busy /\ req'[s].phone = req[s].phone
  PROVE  OneAtATime'
BY DEF OneAtATime, Busy

LEMMA CodesKept ==
  ASSUME SentIsStored, CodesAreNew, CodesMatchSms, UNCHANGED <<otp, delivered, codes, refusals>>,
         \A s \in Requests : req'[s].phase \in {"sending", "failing"} =>
           /\ req[s].phase \in {"sending", "failing"}
           /\ req'[s].phone = req[s].phone /\ req'[s].code = req[s].code
  PROVE  SentIsStored' /\ CodesAreNew' /\ CodesMatchSms'
<1>1. CodesAreNew' /\ CodesMatchSms'
  BY DEF CodesAreNew, CodesMatchSms
<1>2. SentIsStored'
  <2> SUFFICES ASSUME NEW s \in Requests, req'[s].phase \in {"sending", "failing"} PROVE SentIsStored!(s)'
    BY DEF SentIsStored
  <2> QED  BY DEF SentIsStored
<1> QED  BY <1>1, <1>2

\* A telephone that gives its code up, or loses it.
LEMMA CodeGone ==
  ASSUME SmsInv, NEW p \in Phones, otp' = [otp EXCEPT ![p] = None],
         delivered' = [delivered EXCEPT ![p] = None], UNCHANGED <<req, codes, refusals>>
  PROVE  SentIsStored' /\ CodesAreNew' /\ CodesMatchSms'
<1>1. \A q \in Phones : /\ otp'[q] = IF q = p THEN None ELSE otp[q]
                        /\ delivered'[q] = IF q = p THEN None ELSE delivered[q]
  BY DEF SmsInv, OtpTypeOK
<1>2. CodesAreNew' /\ CodesMatchSms'
  BY <1>1 DEF SmsInv, CodesAreNew, CodesMatchSms
<1>3. SentIsStored'
  <2> SUFFICES ASSUME NEW s \in Requests, req'[s].phase \in {"sending", "failing"} PROVE SentIsStored!(s)'
    BY DEF SentIsStored
  <2>1. SentIsStored!(s) /\ req[s].phone \in Phones
    BY DEF SmsInv, SentIsStored, OtpTypeOK
  <2> QED  BY <1>1, <2>1
<1> QED  BY <1>2, <1>3

LEMMA AcquireCooldown_SmsInv ==
  ASSUME SmsInv, NEW r \in Requests, AcquireCooldown(r)
  PROVE  SmsInv'
<1>1. OtpTypeOK /\ OtpTypeOK'
  BY OtpNext_TypeOK DEF SmsInv, OtpNext
<1>2. SentIsStored' /\ CodesAreNew' /\ CodesMatchSms'
  BY <1>1, RequestMoves, NoRequestIsAsked, CodesKept DEF AcquireCooldown, SmsInv, Phases
<1>3. CASE Ends(r) /\ UNCHANGED cooldown
  BY <1>1, <1>2, <1>3, RequestMoves, NoRequestIsAsked, CooldownsKept DEF SmsInv, Busy
<1>4. CASE Goes(r, "reserving") /\ req[r].phone \notin cooldown /\ cooldown' = cooldown \cup {req[r].phone}
  <2>1. \A s \in Requests : /\ req'[s].phone = req[s].phone
                            /\ req'[s].phase \in Busy => s = r \/ req[s].phase \in Busy
    BY <1>1, <1>4, RequestMoves DEF Phases
  <2>2. OneAtATime'
    BY <1>4, <2>1 DEF SmsInv, OneAtATime, Busy
  <2> QED  BY <1>1, <1>2, <2>2 DEF SmsInv
<1> QED  BY <1>3, <1>4 DEF AcquireCooldown, MayCool

\* A step of a request past its cooldown that stores no code, and those before.
LEMMA RequestGoesOn_SmsInv ==
  ASSUME SmsInv, NEW r \in Requests, UNCHANGED <<otp, delivered, codes, refusals, cooldown>>, OtpTypeOK',
         \/ Ends(r)
         \/ \E phase \in Phases : /\ Goes(r, phase)
                                  /\ \/ phase \notin Busy
                                     \/ req[r].phase \in Busy /\ phase \notin {"sending", "failing"}
                                     \/ req[r].phase = "sending"
  PROVE  SmsInv'
<1>1. \A s \in Requests : /\ req'[s].phase \in Busy => req[s].phase \in Busy /\ req'[s].phone = req[s].phone
                          /\ req'[s].phase \in {"sending", "failing"} =>
                               /\ req[s].phase \in {"sending", "failing"}
                               /\ req'[s].phone = req[s].phone /\ req'[s].code = req[s].code
  BY RequestMoves, NoRequestIsAsked DEF SmsInv, Busy
<1> QED  BY <1>1, CooldownsKept, CodesKept DEF SmsInv

LEMMA RefuseOverBudget_SmsInv ==
  ASSUME SmsInv, NEW r \in Requests, RefuseOverBudget(r)
  PROVE  SmsInv'
<1>1. OtpTypeOK /\ OtpTypeOK'
  BY OtpNext_TypeOK DEF SmsInv, OtpNext
<1>2. \A s \in Requests : req'[s] = IF s = r THEN NoRequest ELSE req[s]
  BY <1>1, RequestMoves DEF RefuseOverBudget
<1>3. OneAtATime'
  BY <1>2, NoRequestIsAsked DEF RefuseOverBudget, At, SmsInv, OneAtATime, Busy
<1> QED  BY <1>1, <1>2, <1>3, NoRequestIsAsked, CodesKept DEF SmsInv, RefuseOverBudget

\* The new code is no other one, and takes away the one received before.
LEMMA StoreCode_SmsInv ==
  ASSUME SmsInv, NEW r \in Requests, StoreCode(r)
  PROVE  SmsInv'
<1>1. OtpTypeOK /\ OtpTypeOK' /\ codes \in Nat /\ codes' = codes + 1 /\ UNCHANGED <<cooldown, refusals>>
  BY OtpNext_TypeOK DEF SmsInv, OtpNext, StoreCode, OtpTypeOK
<1>2. PICK p \in Phones : p = req[r].phone /\ req[r].phase = "storing"
  BY <1>1 DEF StoreCode, At, OtpTypeOK
<1>3. /\ \A s \in Requests : /\ req'[s].phone = req[s].phone
                             /\ s # r => req'[s] = req[s]
      /\ req'[r].phase = "sending" /\ req'[r].code = codes + 1
  BY <1>1 DEF StoreCode, OtpTypeOK, Asked
<1>4. /\ otp'[p] = [code |-> codes + 1, attempts |-> 0] /\ delivered'[p] = None
      /\ \A q \in Phones : q # p => otp'[q] = otp[q] /\ delivered'[q] = delivered[q]
  BY <1>1, <1>2 DEF StoreCode, OtpTypeOK
<1>5. OneAtATime'
  BY <1>1, <1>2, <1>3, CooldownsKept DEF SmsInv, Busy
<1>6. CodesAreNew' /\ CodesMatchSms'
  BY <1>1, <1>4 DEF SmsInv, CodesAreNew, CodesMatchSms
<1>7. SentIsStored'
  <2> SUFFICES ASSUME NEW s \in Requests, req'[s].phase \in {"sending", "failing"} PROVE SentIsStored!(s)'
    BY DEF SentIsStored
  <2>1. \A q \in Phones : otp[q] # None => otp[q].code \in 1..codes
    BY DEF SmsInv, CodesAreNew
  <2>2. CASE s = r
    BY <1>1, <1>2, <1>3, <1>4, <2>1, <2>2
  <2>3. CASE s # r
    <3>1. SentIsStored!(s) /\ req'[s] = req[s] /\ req[s].phone \in Phones
      BY <1>1, <1>3, <2>3 DEF SmsInv, SentIsStored, OtpTypeOK
    <3>2. req[s].phone # p
      BY <1>2, <1>3, <2>3 DEF SmsInv, OneAtATime, Busy
    <3> QED  BY <1>1, <1>4, <3>1, <3>2
  <2> QED  BY <2>2, <2>3
<1> QED  BY <1>1, <1>5, <1>6, <1>7 DEF SmsInv

LEMMA SendCode_SmsInv ==
  ASSUME SmsInv, NEW r \in Requests, SendCode(r)
  PROVE  SmsInv'
<1>1. OtpTypeOK /\ OtpTypeOK' /\ UNCHANGED <<otp, cooldown, codes, refusals>>
  BY OtpNext_TypeOK DEF SmsInv, OtpNext, SendCode
<1>2. PICK p \in Phones : p = req[r].phone /\ req[r].phase = "sending"
  BY <1>1 DEF SendCode, At, OtpTypeOK
<1>3. \A s \in Requests : req'[s] = IF s = r THEN NoRequest ELSE req[s]
  BY <1>1, RequestMoves DEF SendCode
<1>4. /\ \A q \in Phones : q # p => delivered'[q] = delivered[q]
      /\ \/ delivered'[p] = delivered[p]
         \/ delivered'[p] = req[r].code /\ otp[p] # None /\ otp[p].code = req[r].code
  BY <1>1, <1>2 DEF SendCode, OtpTypeOK
<1>5. OneAtATime'
  BY <1>1, <1>3, NoRequestIsAsked, CooldownsKept DEF SmsInv, Busy
<1>6. CodesAreNew' /\ CodesMatchSms'
  BY <1>1, <1>4 DEF SmsInv, CodesAreNew, CodesMatchSms
<1>7. SentIsStored'
  <2> SUFFICES ASSUME NEW s \in Requests, req'[s].phase \in {"sending", "failing"} PROVE SentIsStored!(s)'
    BY DEF SentIsStored
  <2>1. s # r /\ req'[s] = req[s]
    BY <1>3, NoRequestIsAsked
  <2>2. SentIsStored!(s) /\ req[s].phone \in Phones /\ req[s].phone # p
    BY <1>1, <1>2, <2>1 DEF SmsInv, SentIsStored, OtpTypeOK, OneAtATime, Busy
  <2> QED  BY <1>1, <1>4, <2>1, <2>2
<1> QED  BY <1>1, <1>5, <1>6, <1>7 DEF SmsInv

\* The code whose sending failed is the telephone's, and nobody else's.
LEMMA DropFailed_SmsInv ==
  ASSUME SmsInv, NEW r \in Requests, DropFailed(r)
  PROVE  SmsInv'
<1>1. OtpTypeOK /\ OtpTypeOK' /\ UNCHANGED <<codes, delivered>>
  BY OtpNext_TypeOK DEF SmsInv, OtpNext, DropFailed
<1>2. PICK p \in Phones : p = req[r].phone /\ req[r].phase = "failing"
  BY <1>1 DEF DropFailed, At, OtpTypeOK
<1>3. \A s \in Requests : req'[s] = IF s = r THEN NoRequest ELSE req[s]
  BY <1>1, RequestMoves DEF DropFailed
<1>4. /\ \A q \in Phones : otp'[q] = IF q = p THEN None ELSE otp[q]
      /\ cooldown' = cooldown \ {p} /\ refusals' = refusals \cup {req[r].code}
  BY <1>1, <1>2 DEF DropFailed, OtpTypeOK
<1>5. /\ req[r].code \in 1..codes /\ delivered[p] = None
      /\ \A q \in Phones \ {p} : otp[q] # None => otp[q].code # req[r].code
  BY <1>2 DEF SmsInv, SentIsStored
<1>6. OneAtATime'
  BY <1>2, <1>3, <1>4, NoRequestIsAsked DEF SmsInv, OneAtATime, Busy
<1>7. CodesAreNew' /\ CodesMatchSms'
  BY <1>1, <1>4, <1>5 DEF SmsInv, CodesAreNew, CodesMatchSms
<1>8. SentIsStored'
  <2> SUFFICES ASSUME NEW s \in Requests, req'[s].phase \in {"sending", "failing"} PROVE SentIsStored!(s)'
    BY DEF SentIsStored
  <2>1. s # r /\ req'[s] = req[s] /\ SentIsStored!(s) /\ req[s].phone \in Phones
    BY <1>1, <1>3, NoRequestIsAsked DEF SmsInv, SentIsStored, OtpTypeOK
  <2> QED  BY <1>1, <1>4, <2>1
<1> QED  BY <1>1, <1>6, <1>7, <1>8 DEF SmsInv

\* The telephone has no other request past its cooldown, and no code is left.
LEMMA DropUnstored_SmsInv ==
  ASSUME SmsInv, NEW r \in Requests, DropUnstored(r)
  PROVE  SmsInv'
<1>1. OtpTypeOK /\ OtpTypeOK' /\ UNCHANGED <<codes, refusals>>
  BY OtpNext_TypeOK DEF SmsInv, OtpNext, DropUnstored
<1>2. PICK p \in Phones : p = req[r].phone /\ req[r].phase = "unstored"
  BY <1>1 DEF DropUnstored, At, OtpTypeOK
<1>3. \A s \in Requests : req'[s] = IF s = r THEN NoRequest ELSE req[s]
  BY <1>1, RequestMoves DEF DropUnstored
<1>4. /\ \A q \in Phones : /\ otp'[q] = IF q = p THEN None ELSE otp[q]
                           /\ delivered'[q] = IF q = p THEN None ELSE delivered[q]
      /\ cooldown' = cooldown \ {p}
  BY <1>1, <1>2 DEF DropUnstored, Gone, OtpTypeOK
<1>5. OneAtATime'
  BY <1>2, <1>3, <1>4, NoRequestIsAsked DEF SmsInv, OneAtATime, Busy
<1>6. CodesAreNew' /\ CodesMatchSms'
  BY <1>1, <1>4 DEF SmsInv, CodesAreNew, CodesMatchSms
<1>7. SentIsStored'
  <2> SUFFICES ASSUME NEW s \in Requests, req'[s].phase \in {"sending", "failing"} PROVE SentIsStored!(s)'
    BY DEF SentIsStored
  <2>1. s # r /\ req'[s] = req[s] /\ SentIsStored!(s) /\ req[s].phone \in Phones
    BY <1>1, <1>3, NoRequestIsAsked DEF SmsInv, SentIsStored, OtpTypeOK
  <2> QED  BY <1>1, <1>4, <2>1
<1> QED  BY <1>1, <1>5, <1>6, <1>7 DEF SmsInv

LEMMA VerifyWrong_SmsInv ==
  ASSUME SmsInv, NEW p \in Phones, VerifyWrong(p)
  PROVE  SmsInv'
<1>1. OtpTypeOK /\ OtpTypeOK' /\ UNCHANGED <<cooldown, req, codes, refusals>> /\ otp[p] # None
  BY OtpNext_TypeOK DEF SmsInv, OtpNext, VerifyWrong
<1>2. OneAtATime'
  BY <1>1, CooldownsKept DEF SmsInv
<1>3. CASE Gone(p)
  BY <1>1, <1>2, <1>3, CodeGone DEF Gone, SmsInv
<1>4. CASE delivered' = delivered /\ otp' = [otp EXCEPT ![p].attempts = otp[p].attempts + 1]
  <2>1. \A q \in Phones : (otp'[q] # None => otp[q] # None /\ otp'[q].code = otp[q].code) /\ (otp[q] # None => otp'[q] # None)
    BY <1>1, <1>4, CodesAssumption DEF OtpTypeOK
  <2>2. CodesAreNew' /\ CodesMatchSms'
    BY <1>1, <1>4, <2>1 DEF SmsInv, CodesAreNew, CodesMatchSms
  <2>3. SentIsStored'
    <3> SUFFICES ASSUME NEW s \in Requests, req'[s].phase \in {"sending", "failing"} PROVE SentIsStored!(s)'
      BY DEF SentIsStored
    <3>1. SentIsStored!(s) /\ req[s].phone \in Phones
      BY <1>1 DEF SmsInv, SentIsStored, OtpTypeOK
    <3> QED  BY <1>1, <1>4, <2>1, <3>1
  <2> QED  BY <1>1, <1>2, <2>2, <2>3 DEF SmsInv
<1> QED  BY <1>3, <1>4 DEF VerifyWrong

LEMMA OtpNext_SmsInv ==
  ASSUME ~SlowSends, SmsInv, [OtpNext]_otpVars
  PROVE  SmsInv'
<1>1. OtpTypeOK /\ OtpTypeOK'
  BY OtpNext_TypeOK DEF SmsInv
<1>2. ASSUME UNCHANGED <<otp, delivered, codes, refusals, cooldown, req>> PROVE SmsInv'
  BY <1>1, <1>2, CooldownsKept, CodesKept DEF SmsInv
<1>3. CASE UNCHANGED otpVars \/ NextHour \/ (\E a \in Addresses : ExpireIpRate(a)) \/ (\E p \in Phones : ExpirePhoneRate(p))
  BY <1>2, <1>3 DEF otpVars, NextHour, ExpireIpRate, ExpirePhoneRate
<1>4. ASSUME NEW r \in Requests, NEW p \in Phones, NEW o \in Origins, AskCode(r, p, o) PROVE SmsInv'
  <2>1. \A s \in Requests : req'[s] = req[s] \/ req'[s].phase = "counting"
    BY <1>1, <1>4 DEF AskCode, OtpTypeOK
  <2> QED  BY <1>1, <1>4, <2>1, CooldownsKept, CodesKept DEF AskCode, SmsInv, Busy
<1>5. ASSUME NEW r \in Requests,
             CountPhone(r) \/ CountAddress(r) \/ Reserve(r) \/ FailStore(r) \/ FailSend(r) \/ RequestDies(r)
      PROVE  SmsInv'
  BY <1>1, <1>5, RequestGoesOn_SmsInv
     DEF CountPhone, CountAddress, Reserve, FailStore, FailSend, RequestDies, At, Phases, Busy
<1>6. ASSUME NEW p \in Phones, VerifyRight(p) \/ ExpireCode(p) PROVE SmsInv'
  BY <1>1, <1>6, CodeGone, CooldownsKept DEF VerifyRight, ExpireCode, Gone, SmsInv
<1>7. ASSUME NEW p \in Phones, ExpireCooldown(p) PROVE SmsInv'
  <2>1. OneAtATime'
    BY <1>1, <1>7 DEF ExpireCooldown, InFlight, SmsInv, OneAtATime
  <2> QED  BY <1>1, <1>7, <2>1, CodesKept DEF ExpireCooldown, SmsInv
<1> QED  BY <1>3, <1>4, <1>5, <1>6, <1>7, AcquireCooldown_SmsInv, RefuseOverBudget_SmsInv, StoreCode_SmsInv,
            SendCode_SmsInv, DropFailed_SmsInv, DropUnstored_SmsInv, VerifyWrong_SmsInv DEF OtpNext

\* While a sending is shorter than the cooldown, a code that the telephone has
\* received stays valid until it is used, exhausted, expired or replaced, whatever
\* requests fail or are refused beside it, and a failed sending leaves no code.
THEOREM CodesAreReceived ==
  ASSUME ~SlowSends
  PROVE  OtpSpec => []CodesMatchSms
<1>1. OtpInit => SmsInv
  <2> SUFFICES ASSUME OtpInit PROVE SmsInv
    OBVIOUS
  <2>1. OneAtATime /\ SentIsStored
    BY NoRequestIsAsked DEF OtpInit, OneAtATime, SentIsStored, Busy
  <2>2. CodesAreNew /\ CodesMatchSms
    BY DEF OtpInit, CodesAreNew, CodesMatchSms
  <2> QED  BY <2>1, <2>2, OtpInit_TypeOK DEF SmsInv
<1>2. SmsInv /\ [OtpNext]_otpVars => SmsInv'
  BY OtpNext_SmsInv
<1>3. SmsInv => CodesMatchSms
  BY DEF SmsInv
<1> QED  BY <1>1, <1>2, <1>3, PTL DEF OtpSpec

-----------------------------------------------------------------------------
(* Organizations.  A request that nothing has overtaken still has the       *)
(* rights it was let in with.                                              *)


KeyRows  == [by : Members, writes : BOOLEAN, status : {"active", "over"}]
Invites  == [whom : Members, role : InviteRoles, was : InviteRoles \cup {"owner", None}]
Switches == [on : BOOLEAN, was : BOOLEAN]

DeskRows == [op : {"none", "invite", "settings", "key", "import", "done"}, by : Members \cup Keys \cup {None},
             for : Members \cup {None}, arg : Invites \cup Switches \cup {None}, stale : BOOLEAN]

\* A request names what its operation needs.
Named(q) ==
  /\ q.op = "invite" => q.arg \in Invites /\ q.by \in Members
  /\ q.op = "settings" => q.arg \in Switches
  /\ q.op = "key" => q.by \in Members
  /\ q.op \in {"import", "done"} => q.for \in Members

OrgTypeOK ==
  /\ org \in [status : {"none", "pending", "verified", "rejected"}, api : BOOLEAN]
  /\ team \in [Members -> InviteRoles \cup {"owner", None}]
  /\ away \subseteq Members
  /\ apiKey \in [Keys -> KeyRows \cup {None}]
  /\ desk \in [Desks -> DeskRows]
  /\ \A d \in Desks : Named(desk[d])

\* What a request needed to be let in.
Entitled(q) ==
  /\ q.op = "invite" => IsManager(q.by)
  /\ q.op \in {"import", "done"} =>
       /\ MayImport(q.for)
       /\ q.by \in Members => q.by \notin away
       /\ q.by \in Keys => /\ apiKey[q.by] # None /\ apiKey[q.by].writes /\ apiKey[q.by].status = "active"
                           /\ ApiOpen(org)

InTimeIsEntitled == \A d \in Desks : ~desk[d].stale => Entitled(desk[d])

OrgInv == OrgTypeOK /\ InTimeIsEntitled /\ OrganizationManaged

-----------------------------------------------------------------------------
\* There is no organization and no request.
LEMMA OrgInit_Inv == OrgInit => OrgInv
<1> SUFFICES ASSUME OrgInit PROVE OrgInv
  OBVIOUS
<1>1. \A d \in Desks : desk[d] = NoDesk
  BY DEF OrgInit
<1>2. NoDesk \in DeskRows /\ Named(NoDesk) /\ Entitled(NoDesk)
  BY DEF NoDesk, Request, DeskRows, Named, Entitled
<1>3. OrgTypeOK
  BY <1>1, <1>2 DEF OrgInit, OrgTypeOK
<1>4. InTimeIsEntitled /\ OrganizationManaged
  BY <1>1, <1>2 DEF InTimeIsEntitled, OrganizationManaged, OrgInit
<1> QED  BY <1>3, <1>4 DEF OrgInv

\* DeskRows that are overtaken are otherwise as before.
LEMMA OutdatedDesks ==
  ASSUME OrgTypeOK, NEW D
  PROVE  /\ Outdates(D) \in [Desks -> DeskRows]
         /\ \A d \in Desks :
              /\ Outdates(D)[d].op = desk[d].op /\ Outdates(D)[d].by = desk[d].by
              /\ Outdates(D)[d].for = desk[d].for /\ Outdates(D)[d].arg = desk[d].arg
              /\ ~Outdates(D)[d].stale => ~desk[d].stale /\ d \notin D
<1>1. ASSUME NEW d \in Desks
      PROVE  /\ Outdates(D)[d] \in DeskRows
             /\ Outdates(D)[d].op = desk[d].op /\ Outdates(D)[d].by = desk[d].by
             /\ Outdates(D)[d].for = desk[d].for /\ Outdates(D)[d].arg = desk[d].arg
             /\ ~Outdates(D)[d].stale => ~desk[d].stale /\ d \notin D
  <2>1. Outdates(D)[d] = IF d \in D THEN [desk[d] EXCEPT !.stale = TRUE] ELSE desk[d]
    BY DEF Outdates
  <2>2. desk[d] \in DeskRows
    BY DEF OrgTypeOK
  <2> QED  BY <2>1, <2>2 DEF DeskRows
<1>2. Outdates(D) = [d \in Desks |-> Outdates(D)[d]]
  BY DEF Outdates
<1> QED  BY <1>1, <1>2

\* What x asked, or was asked for x, is overtaken.
LEMMA PassedDesks ==
  ASSUME OrgTypeOK, NEW x
  PROVE  /\ Passed(x) \in [Desks -> DeskRows]
         /\ \A d \in Desks :
              /\ Passed(x)[d].op = desk[d].op /\ Passed(x)[d].by = desk[d].by
              /\ Passed(x)[d].for = desk[d].for /\ Passed(x)[d].arg = desk[d].arg
              /\ ~Passed(x)[d].stale => ~desk[d].stale /\ x # desk[d].by /\ x # desk[d].for
BY OutdatedDesks DEF Passed

\* When the API is closed, what the keys asked is overtaken.
LEMMA KeysPassedDesks ==
  ASSUME OrgTypeOK
  PROVE  /\ KeysPassed \in [Desks -> DeskRows]
         /\ \A d \in Desks :
              /\ KeysPassed[d].op = desk[d].op /\ KeysPassed[d].by = desk[d].by
              /\ KeysPassed[d].for = desk[d].for /\ KeysPassed[d].arg = desk[d].arg
              /\ ~KeysPassed[d].stale => ~desk[d].stale /\ (desk[d].by \in Keys => ApiOpen(org'))
<1>1. CASE ApiOpen(org')
  BY <1>1 DEF KeysPassed, OrgTypeOK
<1>2. CASE ~ApiOpen(org')
  BY <1>2, OutdatedDesks DEF KeysPassed
<1> QED  BY <1>1, <1>2

\* A request is entitled as long as nothing it needs has changed.
LEMMA StillEntitled ==
  ASSUME OrgInv, NEW d \in Desks, NEW q, q.op = desk[d].op, q.by = desk[d].by, q.for = desk[d].for,
         ~desk[d].stale,
         desk[d].by \in Members /\ desk[d].by \notin away => desk[d].by \notin away',
         desk[d].op = "invite" => team'[desk[d].by] = team[desk[d].by],
         desk[d].op \in {"import", "done"} => team'[desk[d].for] = team[desk[d].for],
         desk[d].by \in Keys => apiKey'[desk[d].by] = apiKey[desk[d].by] /\ (ApiOpen(org) => ApiOpen(org'))
  PROVE  Entitled(q)'
BY DEF OrgInv, OrgTypeOK, InTimeIsEntitled, Named, Entitled, IsManager, MayImport

\* A role is given, or taken, to whom the member is.
LEMMA CreateOrganization_Inv ==
  ASSUME OrgInv, NEW m \in Members, CreateOrganization(m)
  PROVE  OrgInv'
<1>1. OrgTypeOK'
  BY DEF OrgInv, OrgTypeOK, CreateOrganization, Named
<1>2. InTimeIsEntitled'
  BY DEF OrgInv, OrgTypeOK, InTimeIsEntitled, CreateOrganization, Named, Entitled, IsManager, MayImport,
         Managing, ApiOpen
<1>3. m \in Managers(team, away)'
  BY DEF OrgInv, OrgTypeOK, CreateOrganization, Managers, Managing
<1>4. OrganizationManaged'
  BY <1>3 DEF OrganizationManaged
<1> QED  BY <1>1, <1>2, <1>4 DEF OrgInv

\* A verdict overtakes what the keys asked.
LEMMA VerifyOrganization_Inv ==
  ASSUME OrgInv, NEW status \in {"verified", "rejected"}, VerifyOrganization(status)
  PROVE  OrgInv'
<1>1. OrgTypeOK'
  BY KeysPassedDesks DEF OrgInv, OrgTypeOK, VerifyOrganization, Named
<1>2. InTimeIsEntitled'
  BY KeysPassedDesks, StillEntitled DEF OrgInv, InTimeIsEntitled, VerifyOrganization
<1>3. OrganizationManaged'
  BY DEF OrgInv, OrganizationManaged, VerifyOrganization, Managers
<1> QED  BY <1>1, <1>2, <1>3 DEF OrgInv

\* A lost account overtakes what its owner asked.
LEMMA LoseAccount_Inv ==
  ASSUME OrgInv, NEW m \in Members, LoseAccount(m)
  PROVE  OrgInv'
<1>1. OrgTypeOK'
  BY PassedDesks DEF OrgInv, OrgTypeOK, LoseAccount, Named
<1>2. InTimeIsEntitled'
  BY PassedDesks, StillEntitled DEF OrgInv, InTimeIsEntitled, LoseAccount
<1>3. OrganizationManaged'
  BY DEF OrgInv, OrganizationManaged, LoseAccount, Loses
<1> QED  BY <1>1, <1>2, <1>3 DEF OrgInv

\* An account that is let in again overtakes nothing.
LEMMA RegainAccount_Inv ==
  ASSUME OrgInv, NEW m \in Members, RegainAccount(m)
  PROVE  OrgInv'
<1>1. OrgTypeOK'
  BY DEF OrgInv, OrgTypeOK, RegainAccount, Named
<1>2. InTimeIsEntitled'
  BY StillEntitled DEF OrgInv, InTimeIsEntitled, RegainAccount
<1>3. OrganizationManaged'
  BY DEF OrgInv, OrganizationManaged, RegainAccount, Loses, Managers
<1> QED  BY <1>1, <1>2, <1>3 DEF OrgInv

\* A key that is over overtakes what it asked.
LEMMA EndKey_Inv ==
  ASSUME OrgInv, NEW k \in Keys, EndKey(k)
  PROVE  OrgInv'
<1>1. OrgTypeOK'
  BY PassedDesks DEF OrgInv, OrgTypeOK, EndKey, Named, KeyRows
<1>2. InTimeIsEntitled'
  BY PassedDesks, StillEntitled DEF OrgInv, OrgTypeOK, InTimeIsEntitled, EndKey
<1>3. OrganizationManaged'
  BY DEF OrgInv, OrganizationManaged, EndKey, Managers
<1> QED  BY <1>1, <1>2, <1>3 DEF OrgInv

\* A request takes a free place.
LEMMA Starts_Inv ==
  ASSUME OrgInv, NEW d \in Desks, NEW q \in DeskRows, Named(q), Entitled(q), Starts(d, q),
         UNCHANGED <<org, team, away, apiKey, lastLoss>>
  PROVE  OrgInv'
<1>1. desk' = [desk EXCEPT ![d] = q]
  BY DEF Starts
<1>2. OrgTypeOK'
  BY <1>1 DEF OrgInv, OrgTypeOK
<1>3. InTimeIsEntitled'
  BY <1>1 DEF OrgInv, OrgTypeOK, InTimeIsEntitled, Entitled, IsManager, MayImport, ApiOpen
<1>4. OrganizationManaged'
  BY DEF OrgInv, OrganizationManaged, Managers
<1> QED  BY <1>2, <1>3, <1>4 DEF OrgInv

\* Each request is entitled when it is let in.
LEMMA BeginInvite_Inv ==
  ASSUME OrgInv, NEW d \in Desks, NEW m \in Members, NEW n \in Members, NEW role \in InviteRoles,
         BeginInvite(d, m, n, role)
  PROVE  OrgInv'
<1> DEFINE q == Request("invite", m, None, [whom |-> n, role |-> role, was |-> team[n]])
<1>1. q \in DeskRows /\ Named(q) /\ Entitled(q)
  BY DEF Request, DeskRows, Named, Entitled, Invites, BeginInvite, OrgInv, OrgTypeOK
<1> QED  BY <1>1, Starts_Inv DEF BeginInvite

LEMMA BeginSettings_Inv ==
  ASSUME OrgInv, NEW d \in Desks, NEW m \in Members, NEW on \in BOOLEAN, BeginSettings(d, m, on)
  PROVE  OrgInv'
<1> DEFINE q == Request("settings", m, None, [on |-> on, was |-> org.api])
<1>1. q \in DeskRows /\ Named(q) /\ Entitled(q)
  BY DEF Request, DeskRows, Named, Entitled, Switches, OrgInv, OrgTypeOK
<1> QED  BY <1>1, Starts_Inv DEF BeginSettings

LEMMA BeginKey_Inv ==
  ASSUME OrgInv, NEW d \in Desks, NEW m \in Members, BeginKey(d, m)
  PROVE  OrgInv'
<1> DEFINE q == Request("key", m, None, None)
<1>1. q \in DeskRows /\ Named(q) /\ Entitled(q)
  BY DEF Request, DeskRows, Named, Entitled
<1> QED  BY <1>1, Starts_Inv DEF BeginKey

LEMMA BeginImport_Inv ==
  ASSUME OrgInv, NEW d \in Desks, NEW m \in Members, BeginImport(d, m)
  PROVE  OrgInv'
<1> DEFINE q == Request("import", m, m, None)
<1>1. q \in DeskRows /\ Named(q) /\ Entitled(q)
  BY KeysAssumption DEF Request, DeskRows, Named, Entitled, BeginImport
<1> QED  BY <1>1, Starts_Inv DEF BeginImport

LEMMA BeginKeyImport_Inv ==
  ASSUME OrgInv, NEW d \in Desks, NEW k \in Keys, BeginKeyImport(d, k)
  PROVE  OrgInv'
<1> DEFINE q == Request("import", k, apiKey[k].by, None)
<1>1. apiKey[k].by \in Members
  BY DEF OrgInv, OrgTypeOK, KeyRows, BeginKeyImport, KeyWorks
<1>2. q \in DeskRows /\ Named(q)
  BY <1>1 DEF Request, DeskRows, Named
<1>3. Entitled(q)
  BY KeysAssumption DEF Request, Entitled, BeginKeyImport, KeyWorks
<1> QED  BY <1>2, <1>3, Starts_Inv DEF BeginKeyImport

-----------------------------------------------------------------------------
\* A free place asks for nothing.
LEMMA FreeDesk ==
  ASSUME NEW desks \in [Desks -> DeskRows], NEW d \in Desks
  PROVE  /\ Free(desks, d) \in [Desks -> DeskRows]
         /\ Free(desks, d)[d].op = "none"
         /\ \A e \in Desks : e # d => Free(desks, d)[e] = desks[e]
BY DEF Free, NoDesk, Request, DeskRows

\* Someone who invites in time remains a manager unless they invite themselves.
LEMMA CommitInvite_Inv ==
  ASSUME OrgInv, NEW d \in Desks, CommitInvite(d)
  PROVE  OrgInv'
<1> DEFINE r == desk[d]
           whom == desk[d].arg.whom
           desks == IF team' = team THEN desk ELSE Passed(whom)
<1>1. /\ r.op = "invite" /\ r.by \in Members /\ whom \in Members
      /\ RoleAfter(r) \in InviteRoles \cup {"owner", None}
  BY DEF OrgInv, OrgTypeOK, CommitInvite, Named, Invites, RoleAfter
<1>2. team' = [team EXCEPT ![whom] = RoleAfter(r)] /\ desk' = Free(desks, d)
      /\ UNCHANGED <<org, away, apiKey>>
  BY DEF CommitInvite
<1>3. /\ desks \in [Desks -> DeskRows]
      /\ \A e \in Desks :
           /\ desks[e].op = desk[e].op /\ desks[e].by = desk[e].by
           /\ desks[e].for = desk[e].for /\ desks[e].arg = desk[e].arg
           /\ ~desks[e].stale => /\ ~desk[e].stale
                                 /\ team' = team \/ (whom # desk[e].by /\ whom # desk[e].for)
  <2>1. CASE team' = team
    BY <2>1 DEF OrgInv, OrgTypeOK
  <2>2. CASE team' # team
    BY <2>2, PassedDesks DEF OrgInv
  <2> QED  BY <2>1, <2>2
<1> HIDE DEF desks
<1>4. OrgTypeOK'
  <2>1. desk' \in [Desks -> DeskRows]
    BY <1>2, <1>3, FreeDesk
  <2>2. ASSUME NEW e \in Desks PROVE Named(desk'[e])
    <3>1. CASE e = d
      BY <3>1, <1>2, <1>3, FreeDesk DEF OrgInv, Named
    <3>2. CASE e # d
      BY <3>2, <1>2, <1>3, FreeDesk DEF OrgInv, OrgTypeOK, Named
    <3> QED  BY <3>1, <3>2
  <2> QED  BY <1>1, <1>2, <2>1, <2>2 DEF OrgInv, OrgTypeOK
<1>5. ASSUME NEW e \in Desks, ~desk'[e].stale
      PROVE  Entitled(desk[e])'
  <2>1. CASE e = d
    BY <2>1, <1>2, <1>3, FreeDesk DEF Entitled
  <2>2. CASE e # d
    <3>1. desk'[e] = desks[e]
      BY <2>2, <1>2, <1>3, FreeDesk
    <3>2. ~desk[e].stale /\ (team' = team \/ (whom # desk[e].by /\ whom # desk[e].for))
      BY <3>1, <1>3, <1>5
    <3>3. /\ desk[e].op = "invite" => team'[desk[e].by] = team[desk[e].by]
          /\ desk[e].op \in {"import", "done"} => team'[desk[e].for] = team[desk[e].for]
      BY <3>2, <1>1, <1>2 DEF OrgInv, OrgTypeOK, Named
    <3> QED  BY <3>1, <3>2, <3>3, <1>2, <1>3, StillEntitled
  <2> QED  BY <2>1, <2>2
<1>6. OrganizationManaged'
  <2>1. CASE r.by = whom \/ r.stale
    BY <2>1, <1>2 DEF OrgInv, OrganizationManaged, CommitInvite, Loses
  <2>2. CASE r.by # whom /\ ~r.stale
    <3>1. r.by \in Managers(team, away)
      BY <2>2, <1>1 DEF OrgInv, InTimeIsEntitled, Entitled, IsManager, Managers
    <3>2. r.by \in Managers(team, away)'
      BY <3>1, <2>2, <1>1, <1>2 DEF Managers, OrgInv, OrgTypeOK
    <3> QED  BY <3>2 DEF OrganizationManaged
  <2> QED  BY <2>1, <2>2
<1> QED  BY <1>4, <1>5, <1>6 DEF OrgInv, InTimeIsEntitled

\* The switch overtakes what the keys asked, if it is turned off.
LEMMA CommitSettings_Inv ==
  ASSUME OrgInv, NEW d \in Desks, CommitSettings(d)
  PROVE  OrgInv'
<1>1. /\ org' \in [status : {"none", "pending", "verified", "rejected"}, api : BOOLEAN]
      /\ org'.status = org.status
  BY DEF OrgInv, OrgTypeOK, CommitSettings, Named, Switches
<1>2. desk' = Free(KeysPassed, d) /\ UNCHANGED <<team, away, apiKey, lastLoss>>
  BY DEF CommitSettings
<1>3. OrgTypeOK'
  <2>1. desk' \in [Desks -> DeskRows]
    BY <1>2, KeysPassedDesks, FreeDesk DEF OrgInv
  <2>2. ASSUME NEW e \in Desks PROVE Named(desk'[e])
    <3>1. CASE e = d
      BY <3>1, <1>2, KeysPassedDesks, FreeDesk DEF OrgInv, Named
    <3>2. CASE e # d
      BY <3>2, <1>2, KeysPassedDesks, FreeDesk DEF OrgInv, OrgTypeOK, Named
    <3> QED  BY <3>1, <3>2
  <2> QED  BY <1>1, <1>2, <2>1, <2>2 DEF OrgInv, OrgTypeOK
<1>4. ASSUME NEW e \in Desks, ~desk'[e].stale
      PROVE  Entitled(desk[e])'
  <2>1. CASE e = d
    BY <2>1, <1>2, KeysPassedDesks, FreeDesk DEF OrgInv, Entitled
  <2>2. CASE e # d
    <3>1. desk'[e] = KeysPassed[e]
      BY <2>2, <1>2, KeysPassedDesks, FreeDesk DEF OrgInv
    <3> QED  BY <3>1, <1>2, <1>4, KeysPassedDesks, StillEntitled DEF OrgInv
  <2> QED  BY <2>1, <2>2
<1>5. OrganizationManaged'
  BY <1>1, <1>2 DEF OrgInv, OrganizationManaged, Managers
<1> QED  BY <1>3, <1>4, <1>5 DEF OrgInv, InTimeIsEntitled

\* A new key has asked for nothing yet.
LEMMA CommitKey_Inv ==
  ASSUME OrgInv, NEW d \in Desks, NEW k \in Keys, NEW writes \in BOOLEAN, CommitKey(d, k, writes)
  PROVE  OrgInv'
<1>1. /\ desk' = Free(desk, d) /\ UNCHANGED <<org, team, away, lastLoss>>
      /\ apiKey' = [apiKey EXCEPT ![k] = [by |-> desk[d].by, writes |-> writes, status |-> "active"]]
      /\ desk[d].by \in Members /\ apiKey[k] = None /\ desk \in [Desks -> DeskRows]
  BY DEF OrgInv, OrgTypeOK, CommitKey, Named
<1>2. OrgTypeOK'
  <2>1. desk' \in [Desks -> DeskRows]
    BY <1>1, FreeDesk
  <2>2. ASSUME NEW e \in Desks PROVE Named(desk'[e])
    <3>1. CASE e = d
      BY <3>1, <1>1, FreeDesk DEF OrgInv, Named
    <3>2. CASE e # d
      BY <3>2, <1>1, FreeDesk DEF OrgInv, OrgTypeOK, Named
    <3> QED  BY <3>1, <3>2
  <2>3. apiKey' \in [Keys -> KeyRows \cup {None}]
    BY <1>1 DEF OrgInv, OrgTypeOK, KeyRows
  <2> QED  BY <1>1, <2>1, <2>2, <2>3 DEF OrgInv, OrgTypeOK
<1>3. ASSUME NEW e \in Desks, ~desk'[e].stale
      PROVE  Entitled(desk[e])'
  <2>1. CASE e = d
    BY <2>1, <1>1, FreeDesk DEF Entitled
  <2>2. CASE e # d
    <3>1. desk'[e] = desk[e] /\ ~desk[e].stale /\ Entitled(desk[e])
      BY <2>2, <1>1, <1>3, FreeDesk DEF OrgInv, InTimeIsEntitled
    <3>2. desk[e].op \in {"import", "done"} /\ desk[e].by \in Keys => apiKey'[desk[e].by] = apiKey[desk[e].by]
      BY <3>1, <1>1 DEF Entitled, OrgInv, OrgTypeOK
    <3> QED  BY <3>1, <3>2, <1>1 DEF Entitled, IsManager, MayImport, ApiOpen
  <2> QED  BY <2>1, <2>2
<1>4. OrganizationManaged'
  BY <1>1 DEF OrgInv, OrganizationManaged, Managers
<1> QED  BY <1>2, <1>3, <1>4 DEF OrgInv, InTimeIsEntitled

\* An import that ends keeps what it was let in with.
LEMMA CommitImport_Inv ==
  ASSUME OrgInv, NEW d \in Desks, CommitImport(d)
  PROVE  OrgInv'
<1>1. /\ desk' = [desk EXCEPT ![d].op = "done"] /\ desk[d].op = "import"
      /\ UNCHANGED <<org, team, away, apiKey, lastLoss>>
  BY DEF CommitImport
<1>2. OrgTypeOK'
  BY <1>1 DEF OrgInv, OrgTypeOK, Named, DeskRows
<1>3. \A e \in Desks : /\ desk'[e].by = desk[e].by /\ desk'[e].for = desk[e].for
                       /\ desk'[e].stale = desk[e].stale
                       /\ desk'[e].op = desk[e].op \/ (desk[e].op = "import" /\ desk'[e].op = "done")
  BY <1>1 DEF OrgInv, OrgTypeOK, DeskRows
<1>4. InTimeIsEntitled'
  BY <1>1, <1>3 DEF OrgInv, InTimeIsEntitled, Entitled, IsManager, MayImport, ApiOpen
<1>5. OrganizationManaged'
  BY <1>1 DEF OrgInv, OrganizationManaged, Managers
<1> QED  BY <1>2, <1>4, <1>5 DEF OrgInv

-----------------------------------------------------------------------------
\* Every step keeps the invariant.
LEMMA OrgNext_Inv == OrgInv /\ [OrgNext]_orgVars => OrgInv'
<1> SUFFICES ASSUME OrgInv, [OrgNext]_orgVars PROVE OrgInv'
  OBVIOUS
<1>1. CASE \/ \E m \in Members : CreateOrganization(m) \/ LoseAccount(m) \/ RegainAccount(m)
           \/ \E s \in {"verified", "rejected"} : VerifyOrganization(s)
           \/ \E k \in Keys : EndKey(k)
  BY <1>1, CreateOrganization_Inv, LoseAccount_Inv, RegainAccount_Inv, VerifyOrganization_Inv, EndKey_Inv
<1>2. CASE \E d \in Desks, m \in Members :
             \/ \E n \in Members, role \in InviteRoles : BeginInvite(d, m, n, role)
             \/ \E on \in BOOLEAN : BeginSettings(d, m, on)
             \/ BeginKey(d, m) \/ BeginImport(d, m)
  BY <1>2, BeginInvite_Inv, BeginSettings_Inv, BeginKey_Inv, BeginImport_Inv
<1>3. CASE \E d \in Desks, k \in Keys : BeginKeyImport(d, k) \/ \E writes \in BOOLEAN : CommitKey(d, k, writes)
  BY <1>3, BeginKeyImport_Inv, CommitKey_Inv
<1>4. CASE \E d \in Desks : CommitImport(d) \/ CommitInvite(d) \/ CommitSettings(d)
  BY <1>4, CommitImport_Inv, CommitInvite_Inv, CommitSettings_Inv
<1>5. CASE UNCHANGED orgVars
  BY <1>5 DEF orgVars, OrgInv, OrgTypeOK, InTimeIsEntitled, OrganizationManaged, Entitled, Named,
              IsManager, MayImport, ApiOpen, Managers
<1> QED  BY <1>1, <1>2, <1>3, <1>4, <1>5 DEF OrgNext

\* For any number of members and of overlapping requests: an organization is
\* left without a manager only by its last manager's own step, or to a request
\* let in before (organizations.py, invite_member).
THEOREM ManagerIsKept == OrgSpec => []OrganizationManaged
<1>1. OrgInv => OrganizationManaged
  BY DEF OrgInv
<1> QED  BY OrgInit_Inv, OrgNext_Inv, <1>1, PTL DEF OrgSpec

\* For any number of keys: what is imported was let in for somebody, or a key,
\* who could then, and is not stopped by what is taken away meanwhile
\* (organizations.py, bulk_import and external_inventory_import; deps.py,
\* organization_api_key).
THEOREM ImportsAreBacked == OrgSpec => []ImportsBacked
<1>1. OrgInv => ImportsBacked
  BY DEF OrgInv, InTimeIsEntitled, Entitled, ImportsBacked
<1> QED  BY OrgInit_Inv, OrgNext_Inv, <1>1, PTL DEF OrgSpec
=============================================================================
