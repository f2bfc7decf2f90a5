---------------------------- MODULE Idempotency ----------------------------
(***************************************************************************)
(* IdempotencyMiddleware: the answer to a request that carries an          *)
(* Idempotency-Key is stored for a day under the key, the route and the    *)
(* Authorization header, and given again to its repetitions.  One key of   *)
(* one client and route, whose client repeats the request.                 *)
(***************************************************************************)
EXTENDS Naturals, Sequences, Nothing

CONSTANTS
  Calls,      \* calls of the client that may be in progress together
  Bodies,     \* what a call may carry
  MaxTokens,  \* bound: access tokens the client has in turn
  MaxCalls,   \* bound: calls of the client
  MaxSlips    \* bound: lost answers of Redis, dead processes, expired entries

ASSUME CallsAssumption == MaxTokens \in Nat \ {0} /\ None \notin [body : Bodies, status : Nat]

VARIABLES
  call,     \* calls in progress
  cached,   \* the stored answer for each bearer
  bearer,   \* the client's access token: it changes every quarter of an hour
  made,     \* calls made so far
  slips,    \* what went wrong so far
  effects,  \* history: the body of each run that changed the database
  overlaps, \* history: calls that found nothing while another one was served
  answers   \* history: pairs of a body asked and the body whose answer was given

idemVars == <<call, cached, bearer, made, slips, effects, overlaps, answers>>

NoCall == [phase |-> "idle", bearer |-> 0, body |-> None, status |-> 0]
Answer(body, status) == [body |-> body, status |-> status]

IdemInit ==
  /\ call = [c \in Calls |-> NoCall]
  /\ cached = [t \in 1..MaxTokens |-> None]
  /\ bearer = 1 /\ made = 0 /\ slips = 0
  /\ effects = <<>> /\ overlaps = 0 /\ answers = {}

SendCall(c, b) ==
  /\ call[c] = NoCall /\ made < MaxCalls
  /\ made' = made + 1
  /\ call' = [call EXCEPT ![c] = [phase |-> "looking", bearer |-> bearer, body |-> b, status |-> 0]]
  /\ UNCHANGED <<cached, bearer, slips, effects, overlaps, answers>>

RenewToken ==
  /\ bearer < MaxTokens /\ bearer' = bearer + 1
  /\ UNCHANGED <<call, cached, made, slips, effects, overlaps, answers>>

Served(c)  == call[c].phase \in {"running", "storing"}
Finishes(c) == call' = [call EXCEPT ![c] = NoCall]
Runs(c)     == call' = [call EXCEPT ![c].phase = "running"]

SameRequest(entry, body) == entry.body = body

\* The stored answer, 409 for another body, or the handler runs.
LookUp(c) ==
  LET entry == cached[call[c].bearer]
  IN /\ call[c].phase = "looking"
     /\ IF entry = None THEN Runs(c) ELSE Finishes(c)
     /\ overlaps' = IF entry = None /\ \E d \in Calls : Served(d) THEN overlaps + 1 ELSE overlaps
     /\ answers' = IF entry # None /\ SameRequest(entry, call[c].body)
                     THEN answers \cup {<<call[c].body, entry.body>>} ELSE answers
     /\ UNCHANGED <<cached, bearer, made, slips, effects>>

\* Redis does not answer: the request is processed without it.
LookUpFails(c) ==
  /\ call[c].phase = "looking" /\ slips < MaxSlips
  /\ slips' = slips + 1 /\ Runs(c)
  /\ UNCHANGED <<cached, bearer, made, effects, overlaps, answers>>

\* The handler: done, refused (4xx), failed before its commit or after it (5xx).
RunHandler(c, status, commits) ==
  /\ call[c].phase = "running"
  /\ status = 200 => commits
  /\ status = 400 => ~commits
  /\ status = 500 => slips < MaxSlips
  /\ slips' = IF status = 500 THEN slips + 1 ELSE slips
  /\ effects' = IF commits THEN Append(effects, call[c].body) ELSE effects
  /\ call' = [call EXCEPT ![c].phase = "storing", ![c].status = status]
  /\ UNCHANGED <<cached, bearer, made, overlaps, answers>>

\* Mutant of Stored: nothing is kept.
StoredNever(status) == FALSE
Stored(status)      == status < 500

StoreAnswer(c) ==
  LET a == Answer(call[c].body, call[c].status)
  IN /\ call[c].phase = "storing"
     /\ cached' = IF Stored(call[c].status) THEN [cached EXCEPT ![call[c].bearer] = a] ELSE cached
     /\ Finishes(c)
     /\ UNCHANGED <<bearer, made, slips, effects, overlaps, answers>>

\* The process dies, or Redis does not take the answer.
CallSlips(c) ==
  /\ call[c].phase # "idle" /\ slips < MaxSlips
  /\ slips' = slips + 1 /\ Finishes(c)
  /\ UNCHANGED <<cached, bearer, made, effects, overlaps, answers>>

\* A day has passed, or Redis lost the entry.
ExpireAnswer(t) ==
  /\ cached[t] # None /\ slips < MaxSlips
  /\ slips' = slips + 1
  /\ cached' = [cached EXCEPT ![t] = None]
  /\ UNCHANGED <<call, bearer, made, effects, overlaps, answers>>

IdemNext ==
  \/ \E c \in Calls : \/ \E b \in Bodies : SendCall(c, b)
                      \/ LookUp(c) \/ LookUpFails(c) \/ StoreAnswer(c) \/ CallSlips(c)
                      \/ \E s \in {200, 400, 500}, k \in BOOLEAN : RunHandler(c, s, k)
  \/ RenewToken \/ \E t \in 1..MaxTokens : ExpireAnswer(t)

IdemSpec == IdemInit /\ [][IdemNext]_idemVars

-----------------------------------------------------------------------------
\* A repeated request takes effect again only for a reason that can be named: it
\* came while another was being served, the client had a new access token, or
\* an answer was lost on its way to Redis or back.  And an answer is given to
\* the request it belongs to.
RepeatsExplained ==
  /\ Len(effects) <= bearer + overlaps + slips
  /\ \A a \in answers : a[1] = a[2]
=============================================================================
