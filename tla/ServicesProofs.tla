---------------------------- MODULE ServicesProofs ----------------------------
(***************************************************************************)
(* The services beside publications, returns and sessions, for any number  *)
(* of calls, tickets, connections and requests: what is repeated has a     *)
(* reason, tickets are in order, and whoever is connected is informed.     *)
(***************************************************************************)
EXTENDS Services, FiniteSetTheorems, TLAPS

(* Idempotency.  Each run that changes the database was paid for by a      *)
(* token, an overlap or a slip; a run may still change it while it is      *)
(* running, once more where its answer will not be stored, and once for    *)
(* each token whose answer nobody is about to store.                       *)

Answers == [body : Bodies, status : Nat]

IdemTypeOK ==
  /\ call \in [Calls -> [phase : {"idle", "looking", "running", "storing"}, bearer : Nat,
                         body : Bodies \cup {None}, status : {0, 200, 400, 500}]]
  /\ \A c \in Calls : call[c].phase # "idle" => call[c].bearer \in 1..bearer /\ call[c].body \in Bodies
  /\ cached \in [1..MaxTokens -> Answers \cup {None}]
  /\ bearer \in 1..MaxTokens /\ slips \in Nat /\ overlaps \in Nat
  /\ effects \in Seq(Bodies)

InHand == {c \in Calls : call[c].phase = "running"}
WillSlip  == {c \in Calls : call[c].phase = "storing" /\ call[c].status = 500}
Unanswered == {t \in 1..bearer : cached[t] = None /\ \A c \in Calls : Served(c) => call[c].bearer # t}

EffectsMade == Len(effects)
RunsInHand  == Cardinality(InHand)
SlipsToCome == Cardinality(WillSlip)
TokensLeft  == Cardinality(Unanswered)

Spent == EffectsMade + RunsInHand + SlipsToCome + TokensLeft

IdemInv ==
  /\ IdemTypeOK
  /\ IsFiniteSet(InHand) /\ IsFiniteSet(WillSlip)
  /\ Spent <= bearer + overlaps + slips
  /\ \A a \in answers : a[1] = a[2]

\* A repeated call: the record of it with the phase, and with the status.
LEMMA CallMoves ==
  ASSUME IdemTypeOK, NEW c \in Calls
  PROVE  /\ Finishes(c) => \A d \in Calls : call'[d] = IF d = c THEN NoCall ELSE call[d]
         /\ Runs(c) => \A d \in Calls : call'[d] = IF d = c THEN [phase |-> "running", bearer |-> call[c].bearer,
                                                                  body |-> call[c].body, status |-> call[c].status]
                                                   ELSE call[d]
<1>1. call[c] = [phase |-> call[c].phase, bearer |-> call[c].bearer, body |-> call[c].body, status |-> call[c].status]
  BY DEF IdemTypeOK
<1>2. Finishes(c) => \A d \in Calls : call'[d] = IF d = c THEN NoCall ELSE call[d]
  BY DEF Finishes, IdemTypeOK
<1>3. ASSUME Runs(c)
      PROVE  \A d \in Calls : call'[d] = IF d = c THEN [phase |-> "running", bearer |-> call[c].bearer,
                                                        body |-> call[c].body, status |-> call[c].status]
                                         ELSE call[d]
  <2>1. \A d \in Calls : call'[d] = IF d = c THEN [call[c] EXCEPT !.phase = "running"] ELSE call[d]
    BY <1>3 DEF Runs, IdemTypeOK
  <2>2. ASSUME NEW next, next = [call[c] EXCEPT !.phase = "running"]
        PROVE  next = [phase |-> "running", bearer |-> call[c].bearer, body |-> call[c].body, status |-> call[c].status]
    BY <1>1, <2>2
  <2> QED  BY <2>1, <2>2
<1> QED  BY <1>2, <1>3

LEMMA CallFinishes ==
  ASSUME IdemTypeOK, NEW c \in Calls, Finishes(c)
  PROVE  \A d \in Calls : call'[d] = IF d = c THEN NoCall ELSE call[d]
BY CallMoves

LEMMA NoCallTyped ==
  NoCall.phase = "idle" /\ NoCall \in [phase : {"idle", "looking", "running", "storing"}, bearer : Nat,
                                       body : Bodies \cup {None}, status : {0, 200, 400, 500}]
BY DEF NoCall

CallTypeOK ==
  /\ call \in [Calls -> [phase : {"idle", "looking", "running", "storing"}, bearer : Nat,
                         body : Bodies \cup {None}, status : {0, 200, 400, 500}]]
  /\ \A c \in Calls : call[c].phase # "idle" => call[c].bearer \in 1..bearer /\ call[c].body \in Bodies

LEMMA CallStep_TypeOK ==
  ASSUME IdemTypeOK, NEW c \in Calls, call[c].phase # "idle", bearer' = bearer,
         Finishes(c) \/ Runs(c)
  PROVE  CallTypeOK'
<1>1. CASE Finishes(c)
  <2>1. call' = [call EXCEPT ![c] = NoCall]
    BY <1>1 DEF Finishes
  <2> QED  BY <2>1, NoCallTyped DEF IdemTypeOK, CallTypeOK
<1>2. CASE Runs(c)
  <2> DEFINE next == [phase |-> "running", bearer |-> call[c].bearer, body |-> call[c].body, status |-> call[c].status]
  <2>1. /\ call[c].bearer \in 1..bearer /\ call[c].bearer \in Nat /\ call[c].body \in Bodies
        /\ call[c].status \in {0, 200, 400, 500}
    BY DEF IdemTypeOK
  <2>2. /\ next \in [phase : {"idle", "looking", "running", "storing"}, bearer : Nat,
                     body : Bodies \cup {None}, status : {0, 200, 400, 500}]
        /\ next.bearer \in 1..bearer /\ next.body \in Bodies
    BY <2>1
  <2>3. \A d \in Calls : call'[d] = IF d = c THEN next ELSE call[d]
    BY <1>2, CallMoves
  <2>4. call' = [d \in Calls |-> call'[d]]
    <3>1. DOMAIN call = Calls
      BY DEF IdemTypeOK
    <3> QED  BY <1>2, <3>1 DEF Runs
  <2> HIDE DEF next
  <2>5. /\ call \in [Calls -> [phase : {"idle", "looking", "running", "storing"}, bearer : Nat,
                              body : Bodies \cup {None}, status : {0, 200, 400, 500}]]
        /\ \A d \in Calls : call[d].phase # "idle" => call[d].bearer \in 1..bearer /\ call[d].body \in Bodies
    BY DEF IdemTypeOK
  <2> QED  BY <2>2, <2>3, <2>4, <2>5 DEF CallTypeOK
<1> QED  BY <1>1, <1>2

\* A call whose handler has returned.
Returns(c, s) == call' = [call EXCEPT ![c].phase = "storing", ![c].status = s]

LEMMA CallReturns ==
  ASSUME IdemTypeOK, NEW c \in Calls, NEW s, Returns(c, s)
  PROVE  /\ \A d \in Calls : call'[d] = IF d = c THEN [phase |-> "storing", bearer |-> call[c].bearer,
                                                      body |-> call[c].body, status |-> s]
                                        ELSE call[d]
         /\ call' = [d \in Calls |-> call'[d]]
<1>1. call[c] = [phase |-> call[c].phase, bearer |-> call[c].bearer, body |-> call[c].body, status |-> call[c].status]
  BY DEF IdemTypeOK
<1>2. DOMAIN call = Calls
  BY DEF IdemTypeOK
<1>3. call' = [d \in DOMAIN call |-> call'[d]]
  BY DEF Returns
<1>4. \A d \in Calls : call'[d] = IF d = c THEN [call[c] EXCEPT !.phase = "storing", !.status = s] ELSE call[d]
  BY <1>2 DEF Returns
<1>5. ASSUME NEW next, next = [call[c] EXCEPT !.phase = "storing", !.status = s]
      PROVE  next = [phase |-> "storing", bearer |-> call[c].bearer, body |-> call[c].body, status |-> s]
  BY <1>1, <1>5
<1> QED  BY <1>2, <1>3, <1>4, <1>5

LEMMA CallAnswered_TypeOK ==
  ASSUME IdemTypeOK, NEW c \in Calls, call[c].phase # "idle", bearer' = bearer,
         NEW s \in {200, 400, 500}, Returns(c, s)
  PROVE  CallTypeOK'
<1> DEFINE next == [phase |-> "storing", bearer |-> call[c].bearer, body |-> call[c].body, status |-> s]
<1>1. call[c].bearer \in 1..bearer /\ call[c].bearer \in Nat /\ call[c].body \in Bodies
  BY DEF IdemTypeOK
<1>2. /\ next \in [phase : {"idle", "looking", "running", "storing"}, bearer : Nat,
                   body : Bodies \cup {None}, status : {0, 200, 400, 500}]
      /\ next.bearer \in 1..bearer /\ next.body \in Bodies
  BY <1>1
<1>3. (\A d \in Calls : call'[d] = IF d = c THEN next ELSE call[d]) /\ call' = [d \in Calls |-> call'[d]]
  BY CallReturns
<1> HIDE DEF next
<1>4. /\ call \in [Calls -> [phase : {"idle", "looking", "running", "storing"}, bearer : Nat,
                            body : Bodies \cup {None}, status : {0, 200, 400, 500}]]
      /\ \A d \in Calls : call[d].phase # "idle" => call[d].bearer \in 1..bearer /\ call[d].body \in Bodies
  BY DEF IdemTypeOK
<1> QED  BY <1>2, <1>3, <1>4 DEF CallTypeOK

LEMMA IdemNext_TypeOK ==
  ASSUME IdemTypeOK, [IdemNext]_idemVars
  PROVE  IdemTypeOK'
<1> USE CallsAssumption
<1>1. ASSUME NEW c \in Calls, NEW b \in Bodies, SendCall(c, b) PROVE IdemTypeOK'
  BY <1>1 DEF SendCall, IdemTypeOK
<1>2. CASE RenewToken
  BY <1>2 DEF RenewToken, IdemTypeOK
<1>3. ASSUME NEW c \in Calls, LookUp(c) \/ LookUpFails(c) \/ CallSlips(c) PROVE IdemTypeOK'
  <2>1. CallTypeOK'
    BY <1>3, CallStep_TypeOK DEF LookUp, LookUpFails, CallSlips
  <2>2. /\ UNCHANGED <<cached, bearer, effects>>
        /\ slips' \in Nat /\ overlaps' \in Nat
    BY <1>3 DEF LookUp, LookUpFails, CallSlips, IdemTypeOK
  <2> QED  BY <2>1, <2>2 DEF IdemTypeOK, CallTypeOK
<1>4. ASSUME NEW c \in Calls, StoreAnswer(c) PROVE IdemTypeOK'
  <2>1. CallTypeOK'
    BY <1>4, CallStep_TypeOK DEF StoreAnswer
  <2>2. /\ UNCHANGED <<bearer, effects, slips, overlaps>>
        /\ call[c].bearer \in 1..MaxTokens /\ Answer(call[c].body, call[c].status) \in Answers
    BY <1>4 DEF StoreAnswer, IdemTypeOK, Answer, Answers
  <2>3. cached' \in [1..MaxTokens -> Answers \cup {None}]
    BY <1>4, <2>2 DEF StoreAnswer, IdemTypeOK
  <2> QED  BY <2>1, <2>2, <2>3 DEF IdemTypeOK, CallTypeOK
<1>5. ASSUME NEW c \in Calls, NEW s \in {200, 400, 500}, NEW k \in BOOLEAN, RunHandler(c, s, k) PROVE IdemTypeOK'
  <2>0. call[c].phase = "running" /\ bearer' = bearer /\ Returns(c, s)
    BY <1>5 DEF RunHandler, Returns
  <2>6. CallTypeOK'
    <3>1. call[c].phase # "idle"
      BY <2>0
    <3> QED  BY <2>0, <3>1, CallAnswered_TypeOK
  <2>2. call[c].body \in Bodies /\ effects \in Seq(Bodies)
    BY <1>5 DEF RunHandler, IdemTypeOK
  <2>3. effects' = effects \/ effects' = Append(effects, call[c].body)
    BY <1>5 DEF RunHandler
  <2>4. effects' \in Seq(Bodies)
    BY <2>2, <2>3
  <2>5. UNCHANGED <<cached, bearer, overlaps>> /\ slips' \in Nat
    BY <1>5 DEF RunHandler, IdemTypeOK
  <2> QED  BY <2>4, <2>5, <2>6 DEF IdemTypeOK, CallTypeOK
<1>6. ASSUME NEW t \in 1..MaxTokens, ExpireAnswer(t) PROVE IdemTypeOK'
  BY <1>6 DEF ExpireAnswer, IdemTypeOK
<1>7. CASE UNCHANGED idemVars
  BY <1>7 DEF idemVars, IdemTypeOK
<1> QED  BY <1>1, <1>2, <1>3, <1>4, <1>5, <1>6, <1>7 DEF IdemNext

\* The tokens that are unanswered are few, and a call answers or leaves only its own.
LEMMA UnansweredFinite ==
  ASSUME IdemTypeOK
  PROVE  IsFiniteSet(Unanswered) /\ TokensLeft \in Nat
<1>1. bearer \in Int
  BY CallsAssumption DEF IdemTypeOK
<1>2. IsFiniteSet(1..bearer) /\ Unanswered \subseteq 1..bearer
  BY <1>1, FS_Interval DEF Unanswered
<1> QED  BY <1>2, FS_Subset, FS_CardinalityType DEF TokensLeft

LEMMA Counting ==
  ASSUME IdemInv
  PROVE  /\ RunsInHand \in Nat /\ SlipsToCome \in Nat /\ TokensLeft \in Nat
         /\ IsFiniteSet(InHand) /\ IsFiniteSet(WillSlip) /\ IsFiniteSet(Unanswered)
         /\ EffectsMade \in Nat /\ bearer \in Nat /\ overlaps \in Nat /\ slips \in Nat
         /\ EffectsMade + RunsInHand + SlipsToCome + TokensLeft
              <= bearer + overlaps + slips
<1>1. /\ IsFiniteSet(InHand) /\ IsFiniteSet(WillSlip) /\ IsFiniteSet(Unanswered)
      /\ RunsInHand \in Nat /\ SlipsToCome \in Nat /\ TokensLeft \in Nat
  BY UnansweredFinite, FS_CardinalityType DEF IdemInv, RunsInHand, SlipsToCome
<1>2. EffectsMade \in Nat /\ bearer \in Nat /\ overlaps \in Nat /\ slips \in Nat
  BY CallsAssumption DEF IdemInv, IdemTypeOK, EffectsMade
<1> QED  BY <1>1, <1>2 DEF IdemInv, Spent

\* How the sets move: an element more, one less.
LEMMA OneMore ==
  ASSUME NEW S, NEW T, NEW x, IsFiniteSet(S), T \subseteq S \cup {x}
  PROVE  IsFiniteSet(T) /\ Cardinality(T) <= Cardinality(S) + 1 /\ Cardinality(T) \in Nat
<1>1. /\ IsFiniteSet(S \cup {x}) /\ Cardinality(S \cup {x}) <= Cardinality(S) + 1
      /\ Cardinality(S) \in Nat
  BY FS_AddElement, FS_CardinalityType
<1> QED  BY <1>1, FS_Subset, FS_CardinalityType

LEMMA OneLess ==
  ASSUME NEW S, NEW T, NEW x \in S, IsFiniteSet(S), T \subseteq S \ {x}
  PROVE  IsFiniteSet(T) /\ Cardinality(T) <= Cardinality(S) - 1 /\ Cardinality(T) \in Nat
<1>1. IsFiniteSet(S \ {x}) /\ Cardinality(S \ {x}) = Cardinality(S) - 1 /\ Cardinality(S) \in Nat
  BY FS_RemoveElement, FS_CardinalityType
<1> QED  BY <1>1, FS_Subset, FS_CardinalityType

LEMMA NoMore ==
  ASSUME NEW S, NEW T, IsFiniteSet(S), T \subseteq S
  PROVE  IsFiniteSet(T) /\ Cardinality(T) <= Cardinality(S) /\ Cardinality(T) \in Nat
BY FS_Subset, FS_CardinalityType

\* A step that leaves the answers it gives out alone.
LEMMA Paid ==
  ASSUME IdemInv, [IdemNext]_idemVars, \A a \in answers' : a[1] = a[2],
         IsFiniteSet(InHand'), IsFiniteSet(WillSlip'),
         EffectsMade' + RunsInHand' + SlipsToCome' + TokensLeft'
           <= bearer' + overlaps' + slips'
  PROVE  IdemInv'
BY IdemNext_TypeOK DEF IdemInv, Spent

\* A step without effect.
LEMMA NoEffect == UNCHANGED effects => EffectsMade' = EffectsMade
BY DEF EffectsMade

LEMMA LookUp_IdemInv ==
  ASSUME IdemInv, NEW c \in Calls, LookUp(c)
  PROVE  IdemInv'
<1> DEFINE t == call[c].bearer
           entry == cached[t]
<1>0. [IdemNext]_idemVars
  BY DEF IdemNext
<1>1. /\ IdemTypeOK /\ call[c].phase = "looking" /\ t \in 1..bearer
      /\ UNCHANGED <<cached, bearer, slips, effects>>
  BY DEF IdemInv, IdemTypeOK, LookUp
<1>2. \A a \in answers' : a[1] = a[2]
  BY DEF LookUp, SameRequest, IdemInv
<1>3. CASE entry # None
  <2>1. (\A d \in Calls : call'[d] = IF d = c THEN NoCall ELSE call[d]) /\ overlaps' = overlaps
    BY <1>1, <1>3, CallMoves DEF LookUp
  <2>2. InHand' \subseteq InHand /\ WillSlip' \subseteq WillSlip /\ Unanswered' \subseteq Unanswered
    BY <1>1, <2>1, NoCallTyped DEF InHand, WillSlip, Unanswered, Served
  <2>3. /\ IsFiniteSet(InHand') /\ RunsInHand' \in Nat /\ RunsInHand' <= RunsInHand
        /\ IsFiniteSet(WillSlip') /\ SlipsToCome' \in Nat /\ SlipsToCome' <= SlipsToCome
        /\ TokensLeft' \in Nat /\ TokensLeft' <= TokensLeft
    BY <2>2, NoMore, Counting DEF RunsInHand, SlipsToCome, TokensLeft
  <2>4. EffectsMade' + RunsInHand' + SlipsToCome' + TokensLeft' <= bearer' + overlaps' + slips'
    BY <1>1, <2>1, <2>3, NoEffect, Counting
  <2> QED  BY <1>0, <1>1, <1>2, <2>3, <2>4, Paid
<1>4. CASE entry = None
  <2>1. \A d \in Calls : call'[d] = IF d = c THEN [phase |-> "running", bearer |-> t,
                                                  body |-> call[c].body, status |-> call[c].status]
                                    ELSE call[d]
    BY <1>1, <1>4, CallMoves DEF LookUp
  <2>2. InHand' \subseteq InHand \cup {c} /\ WillSlip' \subseteq WillSlip /\ Unanswered' \subseteq Unanswered \ {t}
    BY <1>1, <2>1 DEF InHand, WillSlip, Unanswered, Served
  <2>3. /\ IsFiniteSet(InHand') /\ RunsInHand' \in Nat /\ RunsInHand' <= RunsInHand + 1
        /\ IsFiniteSet(WillSlip') /\ SlipsToCome' \in Nat /\ SlipsToCome' <= SlipsToCome
        /\ TokensLeft' \in Nat /\ TokensLeft' <= TokensLeft
    BY <2>2, NoMore, OneMore, Counting DEF RunsInHand, SlipsToCome, TokensLeft
  <2>4. \/ overlaps' = overlaps + 1
        \/ overlaps' = overlaps /\ t \in Unanswered
    BY <1>1, <1>4 DEF LookUp, Unanswered
  <2>5. t \in Unanswered => TokensLeft' <= TokensLeft - 1
    BY <2>2, OneLess, Counting DEF RunsInHand, SlipsToCome, TokensLeft
  <2>6. \/ overlaps' = overlaps + 1
        \/ overlaps' = overlaps /\ TokensLeft' <= TokensLeft - 1
    BY <2>4, <2>5
  <2>7. EffectsMade' + RunsInHand' + SlipsToCome' + TokensLeft' <= bearer' + overlaps' + slips'
    <3>1. EffectsMade' = EffectsMade /\ bearer' = bearer /\ slips' = slips
      BY <1>1, NoEffect
    <3>2. CASE overlaps' = overlaps + 1
      BY <2>3, <3>1, <3>2, Counting
    <3>3. CASE overlaps' = overlaps /\ TokensLeft' <= TokensLeft - 1
      BY <2>3, <3>1, <3>3, Counting
    <3> QED  BY <2>6, <3>2, <3>3
  <2> QED  BY <1>0, <1>1, <1>2, <2>3, <2>7, Paid
<1> QED  BY <1>3, <1>4

LEMMA LookUpFails_IdemInv ==
  ASSUME IdemInv, NEW c \in Calls, LookUpFails(c)
  PROVE  IdemInv'
<1>0. [IdemNext]_idemVars
  BY DEF IdemNext
<1>1. /\ IdemTypeOK /\ call[c].phase = "looking" /\ slips' = slips + 1
      /\ UNCHANGED <<cached, bearer, overlaps, effects, answers>>
  BY DEF IdemInv, LookUpFails
<1>2. \A d \in Calls : call'[d] = IF d = c THEN [phase |-> "running", bearer |-> call[c].bearer,
                                                body |-> call[c].body, status |-> call[c].status]
                                  ELSE call[d]
  BY <1>1, CallMoves DEF LookUpFails
<1>3. InHand' \subseteq InHand \cup {c} /\ WillSlip' \subseteq WillSlip /\ Unanswered' \subseteq Unanswered
  BY <1>1, <1>2 DEF InHand, WillSlip, Unanswered, Served
<1>4. /\ IsFiniteSet(InHand') /\ RunsInHand' \in Nat /\ RunsInHand' <= RunsInHand + 1
      /\ IsFiniteSet(WillSlip') /\ SlipsToCome' \in Nat /\ SlipsToCome' <= SlipsToCome
      /\ TokensLeft' \in Nat /\ TokensLeft' <= TokensLeft
  BY <1>3, NoMore, OneMore, Counting DEF RunsInHand, SlipsToCome, TokensLeft
<1>5. EffectsMade' + RunsInHand' + SlipsToCome' + TokensLeft' <= bearer' + overlaps' + slips'
  BY <1>1, <1>4, NoEffect, Counting
<1> QED  BY <1>0, <1>1, <1>4, <1>5, Paid DEF IdemInv

\* A run that has committed has used its turn; a 5xx answer leaves it another.
LEMMA RunHandler_IdemInv ==
  ASSUME IdemInv, NEW c \in Calls, NEW status \in {200, 400, 500}, NEW commits \in BOOLEAN,
         RunHandler(c, status, commits)
  PROVE  IdemInv'
<1>0. [IdemNext]_idemVars
  BY DEF IdemNext
<1>1. /\ IdemTypeOK /\ call[c].phase = "running"
      /\ UNCHANGED <<cached, bearer, overlaps, answers>>
  BY DEF IdemInv, RunHandler
<1>2. slips' = IF status = 500 THEN slips + 1 ELSE slips
  BY DEF RunHandler
<1>3. EffectsMade' \in Nat /\ EffectsMade' <= EffectsMade + 1
  <2>1. call[c].body \in Bodies /\ effects \in Seq(Bodies)
    BY <1>1 DEF IdemTypeOK
  <2>2. effects' = effects \/ effects' = Append(effects, call[c].body)
    BY DEF RunHandler
  <2> QED  BY <2>1, <2>2 DEF EffectsMade
<1>4. \A d \in Calls : call'[d] = IF d = c THEN [phase |-> "storing", bearer |-> call[c].bearer,
                                                body |-> call[c].body, status |-> status]
                                  ELSE call[d]
  <2>1. Returns(c, status)
    BY DEF RunHandler, Returns
  <2> QED  BY <1>1, <2>1, CallReturns
<1>5. InHand' \subseteq InHand \ {c} /\ c \in InHand /\ Unanswered' \subseteq Unanswered
      /\ WillSlip' \subseteq WillSlip \cup {c} /\ (status # 500 => WillSlip' \subseteq WillSlip)
  BY <1>1, <1>4 DEF InHand, WillSlip, Unanswered, Served
<1>6. /\ IsFiniteSet(InHand') /\ RunsInHand' \in Nat /\ RunsInHand' <= RunsInHand - 1
      /\ IsFiniteSet(WillSlip') /\ SlipsToCome' \in Nat /\ SlipsToCome' <= SlipsToCome + 1
      /\ TokensLeft' \in Nat /\ TokensLeft' <= TokensLeft
  <2>1. IsFiniteSet(InHand') /\ RunsInHand' \in Nat /\ RunsInHand' <= RunsInHand - 1
    BY <1>5, OneLess, Counting DEF RunsInHand, SlipsToCome, TokensLeft
  <2>2. IsFiniteSet(WillSlip') /\ SlipsToCome' \in Nat /\ SlipsToCome' <= SlipsToCome + 1
    BY <1>5, OneMore, Counting DEF RunsInHand, SlipsToCome, TokensLeft
  <2>3. TokensLeft' \in Nat /\ TokensLeft' <= TokensLeft
    BY <1>5, NoMore, Counting DEF RunsInHand, SlipsToCome, TokensLeft
  <2> QED  BY <2>1, <2>2, <2>3
<1>7. status # 500 => SlipsToCome' <= SlipsToCome
  BY <1>5, NoMore, Counting DEF RunsInHand, SlipsToCome, TokensLeft
<1>8. EffectsMade' + RunsInHand' + SlipsToCome' + TokensLeft' <= bearer' + overlaps' + slips'
  <2>1. bearer' = bearer /\ overlaps' = overlaps
    BY <1>1
  <2>2. CASE status = 500
    <3>1. slips' = slips + 1
      BY <1>2, <2>2
    <3> QED  BY <1>3, <1>6, <2>1, <3>1, Counting
  <2>3. CASE status # 500
    <3>1. slips' = slips /\ SlipsToCome' <= SlipsToCome
      BY <1>2, <1>7, <2>3
    <3> QED  BY <1>3, <1>6, <2>1, <3>1, Counting
  <2> QED  BY <2>2, <2>3
<1> QED  BY <1>0, <1>1, <1>6, <1>8, Paid DEF IdemInv

\* An answer that is stored takes the place of its token among the answered.
LEMMA StoreAnswer_IdemInv ==
  ASSUME IdemInv, NEW c \in Calls, StoreAnswer(c)
  PROVE  IdemInv'
<1> DEFINE t == call[c].bearer
<1>0. [IdemNext]_idemVars
  BY DEF IdemNext
<1>1. /\ IdemTypeOK /\ call[c].phase = "storing" /\ t \in 1..MaxTokens
      /\ call[c].status \in {0, 200, 400, 500}
      /\ UNCHANGED <<bearer, overlaps, slips, effects, answers>>
  BY CallsAssumption DEF IdemInv, IdemTypeOK, StoreAnswer
<1>2. \A d \in Calls : call'[d] = IF d = c THEN NoCall ELSE call[d]
  <2>1. Finishes(c)
    BY DEF StoreAnswer
  <2> QED  BY <1>1, <2>1, CallFinishes
<1>3. InHand' \subseteq InHand /\ WillSlip' \subseteq WillSlip \ {c}
  BY <1>2, NoCallTyped DEF InHand, WillSlip
<1>4. CASE call[c].status = 500
  <2>1. cached' = cached /\ c \in WillSlip
    BY <1>1, <1>4 DEF StoreAnswer, Stored, WillSlip
  <2>2. Unanswered' \subseteq Unanswered \cup {t}
    BY <1>1, <1>2, <2>1, NoCallTyped DEF Unanswered, Served
  <2>3. /\ IsFiniteSet(InHand') /\ RunsInHand' \in Nat /\ RunsInHand' <= RunsInHand
        /\ IsFiniteSet(WillSlip') /\ SlipsToCome' \in Nat /\ SlipsToCome' <= SlipsToCome - 1
        /\ TokensLeft' \in Nat /\ TokensLeft' <= TokensLeft + 1
    <3>1. IsFiniteSet(InHand') /\ RunsInHand' \in Nat /\ RunsInHand' <= RunsInHand
      BY <1>3, NoMore, Counting DEF RunsInHand, SlipsToCome, TokensLeft
    <3>2. IsFiniteSet(WillSlip') /\ SlipsToCome' \in Nat /\ SlipsToCome' <= SlipsToCome - 1
      BY <1>3, <2>1, OneLess, Counting DEF RunsInHand, SlipsToCome, TokensLeft
    <3>3. TokensLeft' \in Nat /\ TokensLeft' <= TokensLeft + 1
      BY <2>2, OneMore, Counting DEF RunsInHand, SlipsToCome, TokensLeft
    <3> QED  BY <3>1, <3>2, <3>3
  <2>4. EffectsMade' + RunsInHand' + SlipsToCome' + TokensLeft' <= bearer' + overlaps' + slips'
    BY <1>1, <2>3, NoEffect, Counting
  <2> QED  BY <1>0, <1>1, <2>3, <2>4, Paid DEF IdemInv
<1>5. CASE call[c].status # 500
  <2>1. cached' = [cached EXCEPT ![t] = Answer(call[c].body, call[c].status)]
    BY <1>1, <1>5 DEF StoreAnswer, Stored
  <2>2. Answer(call[c].body, call[c].status) # None
    BY <1>1, CallsAssumption DEF IdemTypeOK, Answer
  <2>3. \A u \in 1..MaxTokens : cached'[u] = None => u # t /\ cached[u] = None
    BY <1>1, <2>1, <2>2 DEF IdemTypeOK
  <2>4. 1..bearer \subseteq 1..MaxTokens
    BY <1>1, CallsAssumption DEF IdemTypeOK
  <2>5. Unanswered' \subseteq Unanswered
    BY <1>1, <1>2, <2>3, <2>4 DEF Unanswered, Served
  <2>6. /\ IsFiniteSet(InHand') /\ RunsInHand' \in Nat /\ RunsInHand' <= RunsInHand
        /\ IsFiniteSet(WillSlip') /\ SlipsToCome' \in Nat /\ SlipsToCome' <= SlipsToCome
        /\ TokensLeft' \in Nat /\ TokensLeft' <= TokensLeft
    BY <1>3, <2>5, NoMore, Counting DEF RunsInHand, SlipsToCome, TokensLeft
  <2>7. EffectsMade' + RunsInHand' + SlipsToCome' + TokensLeft' <= bearer' + overlaps' + slips'
    BY <1>1, <2>6, NoEffect, Counting
  <2> QED  BY <1>0, <1>1, <2>6, <2>7, Paid DEF IdemInv
<1> QED  BY <1>4, <1>5

LEMMA CallSlips_IdemInv ==
  ASSUME IdemInv, NEW c \in Calls, CallSlips(c)
  PROVE  IdemInv'
<1> DEFINE t == call[c].bearer
<1>0. [IdemNext]_idemVars
  BY DEF IdemNext
<1>1. /\ IdemTypeOK /\ slips' = slips + 1
      /\ UNCHANGED <<cached, bearer, overlaps, effects, answers>>
  BY DEF IdemInv, CallSlips
<1>2. \A d \in Calls : call'[d] = IF d = c THEN NoCall ELSE call[d]
  BY <1>1, CallMoves DEF CallSlips
<1>3. InHand' \subseteq InHand /\ WillSlip' \subseteq WillSlip /\ Unanswered' \subseteq Unanswered \cup {t}
  BY <1>1, <1>2, NoCallTyped DEF InHand, WillSlip, Unanswered, Served
<1>4. /\ IsFiniteSet(InHand') /\ RunsInHand' \in Nat /\ RunsInHand' <= RunsInHand
      /\ IsFiniteSet(WillSlip') /\ SlipsToCome' \in Nat /\ SlipsToCome' <= SlipsToCome
      /\ TokensLeft' \in Nat /\ TokensLeft' <= TokensLeft + 1
  BY <1>3, NoMore, OneMore, Counting DEF RunsInHand, SlipsToCome, TokensLeft
<1>5. EffectsMade' + RunsInHand' + SlipsToCome' + TokensLeft' <= bearer' + overlaps' + slips'
  BY <1>1, <1>4, NoEffect, Counting
<1> QED  BY <1>0, <1>1, <1>4, <1>5, Paid DEF IdemInv

\* An entry that expires, a token that is renewed: one token more without answer.
LEMMA OneMoreToken_IdemInv ==
  ASSUME IdemInv, NEW t, ExpireAnswer(t) \/ (RenewToken /\ t = bearer + 1), [IdemNext]_idemVars
  PROVE  IdemInv'
<1>1. /\ UNCHANGED <<call, overlaps, effects, answers>>
      /\ \/ slips' = slips + 1 /\ bearer' = bearer
         \/ slips' = slips /\ bearer' = bearer + 1
  BY DEF ExpireAnswer, RenewToken
<1>2. /\ InHand' = InHand /\ WillSlip' = WillSlip
      /\ RunsInHand' = RunsInHand /\ SlipsToCome' = SlipsToCome
  BY <1>1 DEF InHand, WillSlip, RunsInHand, SlipsToCome
<1>3. Unanswered' \subseteq Unanswered \cup {t}
  <2>1. CASE ExpireAnswer(t)
    <3>1. \A u \in 1..MaxTokens : u # t => cached'[u] = cached[u]
      BY <2>1 DEF ExpireAnswer, IdemInv, IdemTypeOK
    <3>2. 1..bearer \subseteq 1..MaxTokens /\ bearer' = bearer
      BY <2>1, CallsAssumption DEF ExpireAnswer, IdemInv, IdemTypeOK
    <3> QED  BY <1>1, <3>1, <3>2 DEF Unanswered, Served
  <2>2. CASE RenewToken /\ t = bearer + 1
    <3>1. 1..bearer' = 1..bearer \cup {t} /\ cached' = cached
      BY <2>2, CallsAssumption DEF RenewToken, IdemInv, IdemTypeOK
    <3> QED  BY <1>1, <3>1 DEF Unanswered, Served
  <2> QED  BY <2>1, <2>2
<1>4. TokensLeft' \in Nat /\ TokensLeft' <= TokensLeft + 1
  BY <1>3, OneMore, Counting DEF RunsInHand, SlipsToCome, TokensLeft
<1>5. EffectsMade' + RunsInHand' + SlipsToCome' + TokensLeft' <= bearer' + overlaps' + slips'
  BY <1>1, <1>2, <1>4, NoEffect, Counting
<1> QED  BY <1>1, <1>2, <1>5, Counting, Paid DEF IdemInv

LEMMA IdemNext_IdemInv ==
  ASSUME IdemInv, [IdemNext]_idemVars
  PROVE  IdemInv'
<1>1. ASSUME UNCHANGED <<cached, bearer, overlaps, slips, effects, answers>>,
             \A c \in Calls : \/ call'[c] = call[c]
                              \/ call[c] = NoCall /\ call'[c].phase = "looking"
      PROVE  IdemInv'
  <2>1. InHand' = InHand /\ WillSlip' = WillSlip /\ Unanswered' = Unanswered
    BY <1>1, NoCallTyped DEF InHand, WillSlip, Unanswered, Served
  <2>2. /\ RunsInHand' = RunsInHand /\ SlipsToCome' = SlipsToCome /\ TokensLeft' = TokensLeft
        /\ EffectsMade' = EffectsMade
    BY <1>1, <2>1, NoEffect DEF RunsInHand, SlipsToCome, TokensLeft
  <2> QED  BY <1>1, <2>1, <2>2, Counting, Paid DEF IdemInv
<1>2. ASSUME NEW c \in Calls, NEW b \in Bodies, SendCall(c, b) PROVE IdemInv'
  BY <1>1, <1>2 DEF SendCall, IdemInv, IdemTypeOK
<1>3. CASE UNCHANGED idemVars
  BY <1>1, <1>3 DEF idemVars
<1>4. CASE RenewToken
  BY <1>4, OneMoreToken_IdemInv
<1>5. ASSUME NEW t \in 1..MaxTokens, ExpireAnswer(t) PROVE IdemInv'
  BY <1>5, OneMoreToken_IdemInv
<1> QED  BY <1>2, <1>3, <1>4, <1>5, LookUp_IdemInv, LookUpFails_IdemInv, StoreAnswer_IdemInv, CallSlips_IdemInv,
            RunHandler_IdemInv DEF IdemNext

\* For any number of repetitions in flight and of tokens, the middleware runs a
\* request's handler to effect again only as often as the client changed its
\* token, calls overlapped, or an answer was lost; an answer is its request's.
THEOREM RepeatsAreExplained == IdemSpec => []RepeatsExplained
<1>1. IdemInit => IdemInv
  <2> SUFFICES ASSUME IdemInit PROVE IdemInv
    OBVIOUS
  <2>1. IdemTypeOK /\ answers = {}
    BY NoCallTyped, CallsAssumption DEF IdemInit, IdemTypeOK
  <2>2. InHand = {} /\ WillSlip = {} /\ Unanswered = {1} /\ Len(effects) = 0
    BY NoCallTyped, CallsAssumption DEF IdemInit, InHand, WillSlip, Unanswered, Served
  <2>3. bearer = 1 /\ overlaps = 0 /\ slips = 0
    BY DEF IdemInit
  <2>4. IsFiniteSet({}) /\ Cardinality({}) = 0 /\ Cardinality({1}) = 1
    BY FS_EmptySet, FS_Singleton
  <2>5. Spent <= bearer + overlaps + slips
    BY <2>2, <2>3, <2>4 DEF Spent, EffectsMade, RunsInHand, SlipsToCome, TokensLeft
  <2> QED  BY <2>1, <2>2, <2>4, <2>5 DEF IdemInv
<1>2. IdemInv /\ [IdemNext]_idemVars => IdemInv'
  BY IdemNext_IdemInv
<1>3. IdemInv => RepeatsExplained
  BY Counting DEF IdemInv, RepeatsExplained, EffectsMade
<1> QED  BY <1>1, <1>2, <1>3, PTL DEF IdemSpec

-----------------------------------------------------------------------------
(* Support.  A request that no other has overtaken still sees the ticket   *)
(* as it loaded it.                                                        *)

Statuses == {"open", "waiting_user", "in_progress", "resolved", "closed"} \cup PatchStatuses
Filed == [owner : {"user", "guest", "staff"}, answered : BOOLEAN, resolved : BOOLEAN, status : Statuses]
Sent == [by : {"user", "staff"}, internal : BOOLEAN, seen : {"taken", "overtaken", "closed"}]

SupportTypeOK ==
  /\ filed \in [Tickets -> Filed \cup {None}]
  /\ thread \in [Tickets -> Seq(Sent)]
  /\ replies \in [Tickets -> Nat]
  /\ writer \in [Writers -> [op : {"none"}]
                            \cup [op : {"user", "staff"}, ticket : Tickets, internal : BOOLEAN, seen : Statuses]
                            \cup [op : {"update"}, ticket : Tickets, status : Statuses, seen : Statuses]]

WritersInform ==
  \A w \in Writers : writer[w].op # "none" =>
    /\ filed[writer[w].ticket] # None
    /\ w \notin overtaken => writer[w].seen = filed[writer[w].ticket].status
    /\ writer[w].op \in {"user", "staff"} => writer[w].seen # "closed"
    /\ writer[w].op = "user" => ~writer[w].internal

StaffReplies(t) == {i \in Public(t) : thread[t][i].by = "staff"}

TicketOK(t) ==
  /\ filed[t] = None => thread[t] = <<>> /\ replies[t] = 0
  /\ filed[t] # None =>
       /\ \E i \in Public(t) : /\ \A j \in Public(t) : j <= i
                               /\ filed[t].status = "waiting_user" =>
                                    thread[t][i].by = "staff" \/ thread[t][i].seen = "overtaken" \/ t \in byHand
       /\ filed[t].status \in {"resolved", "closed"} => filed[t].resolved
       /\ \A i \in DOMAIN thread[t] : thread[t][i].seen # "closed"
       /\ filed[t].owner = "user" => replies[t] = Cardinality(StaffReplies(t))

ThreadsInOrder == \A t \in Tickets : TicketOK(t)

SupportInv == SupportTypeOK /\ WritersInform /\ ThreadsInOrder

LEMMA FiledTyped ==
  ASSUME SupportTypeOK, NEW t \in Tickets, filed[t] # None
  PROVE  filed[t] \in Filed
BY DEF SupportTypeOK

\* The last public message is the one that no public message follows.
LEMMA LastPublicIs ==
  ASSUME NEW t \in Tickets, SupportTypeOK, NEW i \in Public(t), \A j \in Public(t) : j <= i
  PROVE  LastPublic(t) = i
<1>1. Public(t) \subseteq Nat
  BY DEF Public, SupportTypeOK
<1>2. LastPublic(t) \in Public(t) /\ \A j \in Public(t) : j <= LastPublic(t)
  BY DEF LastPublic
<1> QED  BY <1>1, <1>2

\* A ticket nobody has touched.
LEMMA TicketLeft ==
  ASSUME NEW t \in Tickets, TicketOK(t), filed'[t] = filed[t], thread'[t] = thread[t], replies'[t] = replies[t],
         t \in byHand => t \in byHand'
  PROVE  TicketOK(t)'
<1>1. Public(t)' = Public(t)
  BY DEF Public
<1>2. StaffReplies(t)' = StaffReplies(t)
  BY <1>1 DEF StaffReplies
<1> QED  BY <1>1, <1>2 DEF TicketOK

LEMMA OpenTicket_SupportInv ==
  ASSUME SupportInv, NEW t \in Tickets, NEW owner \in {"user", "guest", "staff"}, OpenTicket(t, owner)
  PROVE  SupportInv'
<1>1. SupportTypeOK /\ filed[t] = None
  BY DEF SupportInv, OpenTicket
<1>2. filed' = [filed EXCEPT ![t] = [owner |-> owner, status |-> "open", answered |-> FALSE, resolved |-> FALSE]]
  BY DEF OpenTicket
<1>3. thread' = [thread EXCEPT ![t] = <<Message("user", FALSE, "taken")>>]
  BY DEF OpenTicket
<1>4. UNCHANGED <<writer, replies, byHand, overtaken>>
  BY DEF OpenTicket
<1>5. [owner |-> owner, status |-> "open", answered |-> FALSE, resolved |-> FALSE] \in Filed
  BY DEF Filed, Statuses
<1>6. <<Message("user", FALSE, "taken")>> \in Seq(Sent)
  BY DEF Message, Sent
<1>7. SupportTypeOK'
  BY <1>1, <1>2, <1>3, <1>4, <1>5, <1>6 DEF SupportTypeOK
<1>8. WritersInform'
  <2>1. \A w \in Writers : writer[w].op # "none" => writer[w].ticket # t /\ writer[w].ticket \in Tickets
    BY <1>1 DEF SupportInv, WritersInform, SupportTypeOK
  <2>2. \A u \in Tickets : u # t => filed'[u] = filed[u]
    BY <1>1, <1>2 DEF SupportTypeOK
  <2> QED  BY <1>4, <2>1, <2>2 DEF SupportInv, WritersInform
<1>9. TicketOK(t)'
  <2>1. filed'[t] = [owner |-> owner, status |-> "open", answered |-> FALSE, resolved |-> FALSE]
    BY <1>1, <1>2 DEF SupportTypeOK
  <2>2. thread'[t] = <<Message("user", FALSE, "taken")>>
    BY <1>1, <1>3 DEF SupportTypeOK
  <2>3. Public(t)' = {1}
    BY <2>2 DEF Public, Message
  <2>4. StaffReplies(t)' = {}
    BY <2>2, <2>3 DEF StaffReplies, Message
  <2>5. replies'[t] = 0
    BY <1>1, <1>4 DEF SupportInv, ThreadsInOrder, TicketOK
  <2>6. Cardinality({}) = 0
    BY FS_EmptySet
  <2>7. filed'[t] # None
    BY <1>5, <2>1, TicketsAssumption DEF Filed, Statuses
  <2>8. /\ \A i \in DOMAIN thread'[t] : thread'[t][i].seen # "closed"
        /\ filed'[t].status = "open"
    BY <2>1, <2>2 DEF Message
  <2> QED  BY <2>3, <2>4, <2>5, <2>6, <2>7, <2>8 DEF TicketOK
<1>10. ASSUME NEW u \in Tickets, u # t PROVE TicketOK(u)'
  BY <1>1, <1>2, <1>3, <1>4, <1>10, TicketLeft DEF SupportInv, ThreadsInOrder, SupportTypeOK
<1> QED  BY <1>7, <1>8, <1>9, <1>10 DEF SupportInv, ThreadsInOrder

\* A request that has loaded the ticket: it knows its state.
LEMMA Loading_SupportInv ==
  ASSUME SupportInv, NEW w \in Writers, NEW load, UNCHANGED <<filed, thread, replies, byHand, overtaken>>,
         Loading(w, load), NEW t \in Tickets, filed[t] # None, load.op # "none",
         load.ticket = t, load.seen = filed[t].status,
         load.op \in {"user", "staff"} => load.seen # "closed",
         load.op = "user" => ~load.internal,
         load \in [op : {"user", "staff"}, ticket : Tickets, internal : BOOLEAN, seen : Statuses]
                  \cup [op : {"update"}, ticket : Tickets, status : Statuses, seen : Statuses]
  PROVE  SupportInv'
<1>1. writer' = [writer EXCEPT ![w] = load]
  BY DEF Loading
<1>2. SupportTypeOK'
  BY <1>1 DEF SupportInv, SupportTypeOK
<1>3. WritersInform'
  BY <1>1 DEF SupportInv, SupportTypeOK, WritersInform
<1>4. ThreadsInOrder'
  BY TicketLeft DEF SupportInv, ThreadsInOrder
<1> QED  BY <1>2, <1>3, <1>4 DEF SupportInv

LEMMA LoadMessage_SupportInv ==
  ASSUME SupportInv, NEW w \in Writers, NEW t \in Tickets, NEW by \in {"user", "staff"}, NEW internal \in BOOLEAN,
         LoadMessage(w, t, by, internal)
  PROVE  SupportInv'
<1> DEFINE load == [op |-> by, ticket |-> t, internal |-> internal, seen |-> filed[t].status]
<1>1. filed[t] # None /\ filed[t].status # "closed" /\ filed[t].status \in Statuses /\ (by = "user" => ~internal)
  BY FiledTyped DEF LoadMessage, TakesMessages, SupportInv, Filed
<1>2. Loading(w, load) /\ UNCHANGED <<filed, thread, replies, byHand, overtaken>>
  BY DEF LoadMessage
<1>3. /\ load \in [op : {"user", "staff"}, ticket : Tickets, internal : BOOLEAN, seen : Statuses]
      /\ load.op = by /\ load.ticket = t /\ load.internal = internal /\ load.seen = filed[t].status
  BY <1>1
<1> HIDE DEF load
<1> QED  BY <1>1, <1>2, <1>3, Loading_SupportInv

LEMMA LoadUpdate_SupportInv ==
  ASSUME SupportInv, NEW w \in Writers, NEW t \in Tickets, NEW status \in PatchStatuses, LoadUpdate(w, t, status)
  PROVE  SupportInv'
<1> DEFINE load == [op |-> "update", ticket |-> t, status |-> status, seen |-> filed[t].status]
<1>1. filed[t] # None /\ filed[t].status \in Statuses /\ status \in Statuses
  BY FiledTyped DEF LoadUpdate, SupportInv, Filed, Statuses
<1>2. Loading(w, load) /\ UNCHANGED <<filed, thread, replies, byHand, overtaken>>
  BY DEF LoadUpdate
<1>3. /\ load \in [op : {"update"}, ticket : Tickets, status : Statuses, seen : Statuses]
      /\ load.op = "update" /\ load.ticket = t /\ load.seen = filed[t].status
  BY <1>1
<1> HIDE DEF load
<1> QED  BY <1>1, <1>2, <1>3, Loading_SupportInv

\* A commit: the others who have the ticket are overtaken, the writer is done.
LEMMA Commit_WritersInform ==
  ASSUME SupportInv, NEW w \in Writers, NEW t \in Tickets, t = writer[w].ticket, writer[w].op # "none",
         Changing(w, t, TRUE), Leaves(w), \A u \in Tickets : filed'[u] # None <=> filed[u] # None,
         \A u \in Tickets : u # t => filed'[u] = filed[u]
  PROVE  WritersInform'
<1>1. writer' = [writer EXCEPT ![w] = [op |-> "none"]] /\ overtaken' = (overtaken \cup Others(w, t)) \ {w}
  BY DEF Leaves, Changing
<1>2. writer'[w].op = "none" /\ \A v \in Writers : v # w => writer'[v] = writer[v]
  BY <1>1 DEF SupportInv, SupportTypeOK
<1>3. \A v \in Writers : v # w /\ writer[v].op # "none" =>
        /\ writer[v].ticket \in Tickets
        /\ v \notin overtaken' => v \notin overtaken /\ writer[v].ticket # t
  BY <1>1 DEF Others, SupportInv, SupportTypeOK
<1> QED  BY <1>2, <1>3 DEF WritersInform, SupportInv

\* The state of the ticket and the message after the commit of a message.
LEMMA CommitMessage_Step ==
  ASSUME SupportInv, NEW w \in Writers, CommitMessage(w)
  PROVE  \E t \in Tickets, by \in {"user", "staff"}, seen \in {"taken", "overtaken"}, status \in Statuses :
           /\ t = writer[w].ticket /\ by = writer[w].op
           /\ filed[t] # None
           /\ seen = "taken" => writer[w].seen = filed[t].status
           /\ status = Written(writer[w].seen, StatusAfter(by, writer[w].internal, writer[w].seen), filed[t].status)
           /\ thread' = [thread EXCEPT ![t] = Append(@, Message(by, writer[w].internal, seen))]
           /\ filed' = [filed EXCEPT ![t].status = status, ![t].answered = @ \/ by = "staff"]
<1>1. /\ writer[w].op \in {"user", "staff"} /\ writer[w].ticket \in Tickets /\ filed[writer[w].ticket] # None
      /\ writer[w].seen \in Statuses /\ writer[w].seen # "closed"
      /\ w \notin overtaken => writer[w].seen = filed[writer[w].ticket].status
  BY DEF CommitMessage, SupportInv, SupportTypeOK, WritersInform
<1>2. PICK t \in Tickets : t = writer[w].ticket
  BY <1>1
<1>3. filed[t].status \in Statuses
  BY <1>1, <1>2, FiledTyped DEF SupportInv, Filed
<1>4. PICK by \in {"user", "staff"} : by = writer[w].op
  BY <1>1
<1>5. PICK seen \in {"taken", "overtaken"} : seen = IF w \in overtaken THEN "overtaken" ELSE "taken"
  OBVIOUS
<1>6. StatusAfter(by, writer[w].internal, writer[w].seen) \in Statuses
  BY <1>1 DEF StatusAfter, Statuses
<1>7. PICK status \in Statuses :
        status = Written(writer[w].seen, StatusAfter(by, writer[w].internal, writer[w].seen), filed[t].status)
  BY <1>3, <1>6 DEF Written
<1>8. thread' = [thread EXCEPT ![t] = Append(@, Message(by, writer[w].internal, seen))]
  BY <1>1, <1>2, <1>4, <1>5 DEF CommitMessage
<1>9. filed' = [filed EXCEPT ![t].status = status, ![t].answered = @ \/ by = "staff"]
  BY <1>2, <1>4, <1>7 DEF CommitMessage
<1> QED  BY <1>1, <1>2, <1>4, <1>5, <1>7, <1>8, <1>9

\* A ticket after a message has come to the end of its thread: a public one is
\* the last that its owner reads, an internal one changes nothing for them.
LEMMA MessageAppended ==
  ASSUME SupportTypeOK, NEW t \in Tickets, TicketOK(t), filed[t] # None, NEW m \in Sent, m.seen # "closed",
         filed'[t] # None, filed'[t].owner = filed[t].owner,
         filed[t].resolved => filed'[t].resolved,
         filed'[t].status \in {"resolved", "closed"} => filed'[t].status = filed[t].status,
         thread'[t] = Append(thread[t], m),
         m.internal \/ m.by = "user" => replies'[t] = replies[t],
         ~m.internal /\ m.by = "staff" /\ filed[t].owner = "user" => replies'[t] = replies[t] + 1,
         m.internal => filed'[t].status = filed[t].status /\ (t \in byHand => t \in byHand'),
         ~m.internal /\ filed'[t].status = "waiting_user" => m.by = "staff" \/ m.seen = "overtaken"
  PROVE  TicketOK(t)'
<1> DEFINE n == Len(thread[t]) + 1
<1>1. /\ thread[t] \in Seq(Sent) /\ Len(thread[t]) \in Nat /\ DOMAIN thread[t] = 1..Len(thread[t])
      /\ DOMAIN thread'[t] = 1..n /\ thread'[t][n] = m
      /\ \A i \in DOMAIN thread[t] : i \in 1..n /\ i # n /\ thread'[t][i] = thread[t][i]
      /\ \A i \in 1..n : i = n \/ i \in DOMAIN thread[t]
  BY DEF SupportTypeOK
<1>2. n \in Nat /\ n \notin DOMAIN thread[t]
  BY <1>1
<1> HIDE DEF n
<1>3. PICK i \in Public(t) : /\ \A j \in Public(t) : j <= i
                             /\ filed[t].status = "waiting_user" =>
                                  thread[t][i].by = "staff" \/ thread[t][i].seen = "overtaken" \/ t \in byHand
  BY DEF TicketOK
<1>4. /\ \A j \in DOMAIN thread'[t] : thread'[t][j].seen # "closed"
      /\ filed'[t].status \in {"resolved", "closed"} => filed'[t].resolved
  BY <1>1 DEF TicketOK
<1>5. CASE m.internal
  <2>1. Public(t)' = Public(t)
    BY <1>1, <1>2, <1>5 DEF Public
  <2>2. StaffReplies(t)' = StaffReplies(t)
    BY <1>1, <2>1 DEF StaffReplies, Public
  <2>3. thread'[t][i] = thread[t][i]
    BY <1>1 DEF Public
  <2> QED  BY <1>3, <1>4, <1>5, <2>1, <2>2, <2>3 DEF TicketOK
<1>6. CASE ~m.internal
  <2>1. Public(t)' = Public(t) \cup {n}
    BY <1>1, <1>2, <1>6 DEF Public
  <2>2. n \in Public(t)' /\ \A j \in Public(t)' : j <= n
    BY <1>1, <1>2, <2>1 DEF Public, n
  <2>3. filed'[t].owner = "user" => replies'[t] = Cardinality(StaffReplies(t)')
    <3>1. CASE m.by = "user"
      <4>1. StaffReplies(t)' = StaffReplies(t)
        BY <1>1, <1>2, <2>1, <3>1 DEF StaffReplies, Public
      <4> QED  BY <3>1, <4>1 DEF TicketOK
    <3>2. CASE m.by = "staff"
      <4>1. StaffReplies(t)' = StaffReplies(t) \cup {n} /\ n \notin StaffReplies(t)
        BY <1>1, <1>2, <2>1, <3>2 DEF StaffReplies, Public
      <4>2. IsFiniteSet(StaffReplies(t))
        <5>1. IsFiniteSet(1..Len(thread[t]))
          BY <1>1, FS_Interval
        <5>2. StaffReplies(t) \subseteq 1..Len(thread[t])
          BY <1>1 DEF StaffReplies, Public
        <5> QED  BY <5>1, <5>2, FS_Subset
      <4>3. Cardinality(StaffReplies(t) \cup {n}) = Cardinality(StaffReplies(t)) + 1
        BY <4>1, <4>2, FS_AddElement
      <4> QED  BY <1>6, <3>2, <4>1, <4>3 DEF TicketOK
    <3> QED  BY <3>1, <3>2 DEF Sent
  <2> QED  BY <1>1, <1>4, <1>6, <2>2, <2>3 DEF TicketOK
<1> QED  BY <1>5, <1>6

LEMMA CommitMessage_SupportInv ==
  ASSUME SupportInv, NEW w \in Writers, CommitMessage(w)
  PROVE  SupportInv'
<1>1. PICK t \in Tickets, by \in {"user", "staff"}, seen \in {"taken", "overtaken"}, status \in Statuses :
        /\ t = writer[w].ticket /\ by = writer[w].op
        /\ filed[t] # None
        /\ seen = "taken" => writer[w].seen = filed[t].status
        /\ status = Written(writer[w].seen, StatusAfter(by, writer[w].internal, writer[w].seen), filed[t].status)
        /\ thread' = [thread EXCEPT ![t] = Append(@, Message(by, writer[w].internal, seen))]
        /\ filed' = [filed EXCEPT ![t].status = status, ![t].answered = @ \/ by = "staff"]
  BY CommitMessage_Step
<1>2. PICK internal \in BOOLEAN : internal = writer[w].internal
  BY <1>1 DEF SupportInv, SupportTypeOK
<1>3. by = "user" => ~internal
  BY <1>1, <1>2 DEF SupportInv, WritersInform
<1>4. PICK m \in Sent : m = Message(by, internal, seen)
  BY DEF Message, Sent
<1>5. m.by = by /\ m.internal = internal /\ m.seen = seen
  BY <1>4 DEF Message
<1>6. thread' = [thread EXCEPT ![t] = Append(thread[t], m)]
  BY <1>1, <1>2, <1>4 DEF SupportInv, SupportTypeOK
<1>7. /\ filed[t] \in Filed /\ filed'[t].status = status /\ filed'[t].owner = filed[t].owner
      /\ filed'[t].resolved = filed[t].resolved
      /\ filed'[t].answered = (filed[t].answered \/ by = "staff")
      /\ filed'[t] \in Filed
      /\ \A u \in Tickets : u # t => filed'[u] = filed[u]
  <2>1. filed[t] \in Filed
    BY <1>1, FiledTyped DEF SupportInv
  <2>2. /\ \A u \in Tickets : u # t => filed'[u] = filed[u]
        /\ filed'[t] = [filed[t] EXCEPT !.status = status, !.answered = @ \/ by = "staff"]
    BY <1>1 DEF SupportInv, SupportTypeOK
  <2> QED  BY <2>1, <2>2 DEF Filed
<1>8. filed'[t] # None
  BY <1>7, TicketsAssumption DEF Filed, Statuses
<1>9. /\ replies' \in [Tickets -> Nat]
      /\ \A u \in Tickets : u # t => replies'[u] = replies[u]
      /\ m.internal \/ m.by = "user" => replies'[t] = replies[t]
      /\ ~m.internal /\ m.by = "staff" /\ filed[t].owner = "user" => replies'[t] = replies[t] + 1
  BY <1>1, <1>2, <1>5 DEF CommitMessage, SupportInv, SupportTypeOK
<1>10. /\ \A u \in Tickets : u # t /\ u \in byHand => u \in byHand'
       /\ status = filed[t].status => byHand' = byHand
  BY <1>1 DEF CommitMessage
<1>11. /\ internal => status = filed[t].status
       /\ status \in {"resolved", "closed"} => status = filed[t].status
       /\ ~internal /\ status = "waiting_user" => by = "staff" \/ seen = "overtaken"
  BY <1>1, <1>2, <1>3 DEF Written, StatusAfter
<1>12. SupportTypeOK'
  <2>1. filed' \in [Tickets -> Filed \cup {None}]
    <3>1. DOMAIN filed' = Tickets /\ filed' = [u \in Tickets |-> filed'[u]]
      BY <1>1 DEF SupportInv, SupportTypeOK
    <3>2. \A u \in Tickets : filed'[u] \in Filed \cup {None}
      BY <1>7 DEF SupportInv, SupportTypeOK
    <3> QED  BY <3>1, <3>2
  <2>2. thread' \in [Tickets -> Seq(Sent)]
    BY <1>6 DEF SupportInv, SupportTypeOK
  <2>3. writer' = [writer EXCEPT ![w] = [op |-> "none"]]
    BY DEF CommitMessage, Leaves
  <2> QED  BY <1>9, <2>1, <2>2, <2>3 DEF SupportInv, SupportTypeOK
<1>13. WritersInform'
  <2>1. Changing(w, t, TRUE) /\ Leaves(w)
    BY <1>1 DEF CommitMessage
  <2>2. writer[w].op # "none" /\ writer[w].ticket = t
    BY <1>1 DEF CommitMessage
  <2> QED  BY <1>1, <1>7, <1>8, <2>1, <2>2, Commit_WritersInform
<1>14. TicketOK(t)'
  <2>1. TicketOK(t) /\ SupportTypeOK /\ thread'[t] = Append(thread[t], m)
    BY <1>6 DEF SupportInv, ThreadsInOrder, SupportTypeOK
  <2>2. m.seen # "closed"
    BY <1>5
  <2>3. filed'[t].status \in {"resolved", "closed"} => filed'[t].status = filed[t].status
    BY <1>7, <1>11
  <2>4. m.internal => filed'[t].status = filed[t].status /\ (t \in byHand => t \in byHand')
    BY <1>5, <1>7, <1>10, <1>11
  <2>5. ~m.internal /\ filed'[t].status = "waiting_user" => m.by = "staff" \/ m.seen = "overtaken"
    BY <1>5, <1>7, <1>11
  <2>6. filed[t].resolved => filed'[t].resolved
    BY <1>7
  <2>7. filed[t] # None /\ filed'[t].owner = filed[t].owner
    BY <1>1, <1>7
  <2>8. /\ m.internal \/ m.by = "user" => replies'[t] = replies[t]
        /\ ~m.internal /\ m.by = "staff" /\ filed[t].owner = "user" => replies'[t] = replies[t] + 1
    BY <1>9
  <2> QED  BY <1>8, <2>1, <2>2, <2>3, <2>4, <2>5, <2>6, <2>7, <2>8, MessageAppended
<1>15. ASSUME NEW u \in Tickets, u # t PROVE TicketOK(u)'
  <2>1. thread'[u] = thread[u] /\ TicketOK(u)
    BY <1>6, <1>15 DEF SupportInv, SupportTypeOK, ThreadsInOrder
  <2> QED  BY <1>7, <1>9, <1>10, <1>15, <2>1, TicketLeft
<1> QED  BY <1>12, <1>13, <1>14, <1>15 DEF SupportInv, ThreadsInOrder

LEMMA CommitUpdate_SupportInv ==
  ASSUME SupportInv, NEW w \in Writers, CommitUpdate(w)
  PROVE  SupportInv'
<1>1. /\ writer[w].op = "update" /\ writer[w].ticket \in Tickets /\ filed[writer[w].ticket] # None
      /\ writer[w].seen \in Statuses /\ writer[w].status \in Statuses
  BY DEF CommitUpdate, SupportInv, SupportTypeOK, WritersInform
<1>2. PICK t \in Tickets : t = writer[w].ticket
  BY <1>1
<1>3. filed[t] \in Filed
  BY <1>1, <1>2, FiledTyped DEF SupportInv
<1>4. PICK status \in Statuses : status = Written(writer[w].seen, writer[w].status, filed[t].status)
  BY <1>1, <1>3 DEF Written, Filed
<1>5. /\ filed'[t].status = status /\ filed'[t].owner = filed[t].owner
      /\ filed'[t].resolved = (filed[t].resolved \/ Settles(writer[w].status))
      /\ filed'[t] \in Filed
      /\ \A u \in Tickets : u # t => filed'[u] = filed[u]
  <2>1. PICK resolved \in BOOLEAN : resolved = (filed[t].resolved \/ Settles(writer[w].status))
    BY <1>3 DEF Filed
  <2>2. filed' = [filed EXCEPT ![t].status = status, ![t].resolved = resolved]
    BY <1>2, <1>4, <2>1 DEF CommitUpdate, SupportInv, SupportTypeOK
  <2>3. /\ \A u \in Tickets : u # t => filed'[u] = filed[u]
        /\ filed'[t] = [filed[t] EXCEPT !.status = status, !.resolved = resolved]
    BY <2>2 DEF SupportInv, SupportTypeOK
  <2> QED  BY <1>3, <2>1, <2>3 DEF Filed
<1>6. filed'[t] # None
  BY <1>5, TicketsAssumption DEF Filed, Statuses
<1>7. UNCHANGED <<thread, replies>> /\ Changing(w, t, TRUE) /\ Leaves(w)
  BY <1>2 DEF CommitUpdate
<1>8. byHand \subseteq byHand' /\ (writer[w].status = "waiting_user" => t \in byHand')
  BY <1>2 DEF CommitUpdate
<1>9. SupportTypeOK'
  <2>1. filed' \in [Tickets -> Filed \cup {None}]
    <3>1. DOMAIN filed' = Tickets /\ filed' = [u \in Tickets |-> filed'[u]]
      BY DEF CommitUpdate, SupportInv, SupportTypeOK
    <3>2. \A u \in Tickets : filed'[u] \in Filed \cup {None}
      BY <1>5 DEF SupportInv, SupportTypeOK
    <3> QED  BY <3>1, <3>2
  <2>2. writer' = [writer EXCEPT ![w] = [op |-> "none"]]
    BY <1>7 DEF Leaves
  <2> QED  BY <1>7, <2>1, <2>2 DEF SupportInv, SupportTypeOK
<1>10. WritersInform'
  BY <1>1, <1>2, <1>5, <1>6, <1>7, Commit_WritersInform
<1>11. TicketOK(t)'
  <2>1. Public(t)' = Public(t) /\ TicketOK(t)
    BY <1>7 DEF Public, SupportInv, ThreadsInOrder
  <2>2. StaffReplies(t)' = StaffReplies(t)
    BY <1>7, <2>1 DEF StaffReplies
  <2>3. status = "waiting_user" => t \in byHand' \/ filed[t].status = "waiting_user"
    BY <1>4, <1>8 DEF Written
  <2>4. filed'[t].status \in {"resolved", "closed"} => filed'[t].resolved
    BY <1>1, <1>2, <1>4, <1>5, <2>1 DEF Written, Settles, TicketOK
  <2> QED  BY <1>1, <1>2, <1>5, <1>6, <1>7, <1>8, <2>1, <2>2, <2>3, <2>4 DEF TicketOK
<1>12. ASSUME NEW u \in Tickets, u # t PROVE TicketOK(u)'
  BY <1>5, <1>7, <1>8, <1>12, TicketLeft DEF SupportInv, ThreadsInOrder
<1> QED  BY <1>9, <1>10, <1>11, <1>12 DEF SupportInv, ThreadsInOrder

LEMMA SupportNext_SupportInv ==
  ASSUME SupportInv, [SupportNext]_supportVars
  PROVE  SupportInv'
<1>1. CASE UNCHANGED supportVars
  <2>1. UNCHANGED <<filed, thread, writer, replies, byHand, overtaken>>
    BY <1>1 DEF supportVars
  <2>2. SupportTypeOK' /\ WritersInform'
    BY <2>1 DEF SupportInv, SupportTypeOK, WritersInform
  <2>3. ThreadsInOrder'
    BY <2>1, TicketLeft DEF SupportInv, ThreadsInOrder
  <2> QED  BY <2>2, <2>3 DEF SupportInv
<1> QED  BY <1>1, OpenTicket_SupportInv, LoadMessage_SupportInv, LoadUpdate_SupportInv, CommitMessage_SupportInv,
            CommitUpdate_SupportInv DEF SupportNext

\* For any number of tickets, and of requests that load one before another has
\* committed, the tickets are in order: a ticket waits for its owner only while
\* the last word is not theirs, or two requests crossed, or the staff said so.
THEOREM TicketsAreInOrder == SupportSpec => []TicketsInOrder
<1>1. SupportInit => SupportInv
  BY DEF SupportInit, SupportInv, SupportTypeOK, WritersInform, ThreadsInOrder, TicketOK
<1>2. SupportInv /\ [SupportNext]_supportVars => SupportInv'
  BY SupportNext_SupportInv
<1>3. SupportInv => TicketsInOrder
  <2> SUFFICES ASSUME SupportInv, NEW t \in Tickets, filed[t] # None
               PROVE  LET last == thread[t][LastPublic(t)]
                      IN /\ filed[t].status = "waiting_user" =>
                              last.by = "staff" \/ last.seen = "overtaken" \/ t \in byHand
                         /\ filed[t].status \in {"resolved", "closed"} => filed[t].resolved
                         /\ \A i \in DOMAIN thread[t] : thread[t][i].seen # "closed"
                         /\ filed[t].owner = "user" =>
                              replies[t] = Cardinality({i \in Public(t) : thread[t][i].by = "staff"})
    BY DEF TicketsInOrder
  <2>1. TicketOK(t)
    BY DEF SupportInv, ThreadsInOrder
  <2>2. PICK i \in Public(t) : /\ \A j \in Public(t) : j <= i
                               /\ filed[t].status = "waiting_user" =>
                                    thread[t][i].by = "staff" \/ thread[t][i].seen = "overtaken" \/ t \in byHand
    BY <2>1 DEF TicketOK
  <2>3. LastPublic(t) = i
    BY <2>2, LastPublicIs DEF SupportInv
  <2> QED  BY <2>1, <2>2, <2>3 DEF TicketOK, StaffReplies
<1> QED  BY <1>1, <1>2, <1>3, PTL DEF SupportSpec

-----------------------------------------------------------------------------
(* Chat.  What a relay still owes are connections it will come to, unless  *)
(* the set of connections has changed: then it breaks and owes nothing.    *)

Users == Parties \cup Helpers

ChatTypeOK ==
  /\ stored \in Seq(Users) /\ owed \in Seq(SUBSET Sockets) /\ Len(owed) = Len(stored)
  /\ conns \subseteq Sockets /\ IsFiniteSet(conns)
  /\ got \in [Sockets -> SUBSET Nat]
  /\ socket \in [Sockets -> [phase : {"none", "ticket", "checked", "live", "closed"}, user : Users \cup {None}]]
  /\ post \in [Posts -> [phase : {"idle"}] \cup [phase : {"loaded"}, user : Users]
                        \cup [phase : {"stored"}, message : Nat]
                        \cup [phase : {"relay"}, message : Nat, size : Nat,
                              visited : SUBSET Sockets, stale : SUBSET Sockets]]

\* Requests whose message is stored and not relayed to the end.
Pending(c) == post[c].phase \in {"stored", "relay"}

OwnMessages ==
  \A c \in Posts : Pending(c) =>
    /\ post[c].message \in DOMAIN stored
    /\ \A d \in Posts : d # c /\ Pending(d) => post[d].message # post[c].message

Relaying ==
  \A c \in Posts : post[c].phase = "relay" =>
    LET m == post[c].message
    IN /\ m \in DOMAIN stored
       /\ \A s \in owed[m] : /\ s \in conns /\ socket[s].phase = "live"
                             /\ s \in post[c].visited => m \in got[s]
       /\ owed[m] # {} => Cardinality(conns) = post[c].size


ChatInv == ChatTypeOK /\ OwnMessages /\ Relaying /\ SocketsInformed

LEMMA MessagesTyped ==
  ASSUME ChatTypeOK
  PROVE  /\ Len(stored) \in Nat /\ DOMAIN stored = 1..Len(stored) /\ DOMAIN owed = DOMAIN stored
         /\ \A m \in DOMAIN stored : owed[m] \subseteq Sockets
BY DEF ChatTypeOK

\* What is owed is still a sequence over the same messages.
LEMMA OwedAfterTyped ==
  ASSUME ChatTypeOK, NEW s, NEW C, OwedAfter(s, C)
  PROVE  /\ owed' \in Seq(SUBSET Sockets) /\ Len(owed') = Len(stored)
         /\ \A m \in DOMAIN stored : /\ owed'[m] \subseteq owed[m] \ {s}
                                     /\ (\E c \in C : m \in Relayed(c)) => owed'[m] = {}
                                     /\ (\A c \in C : m \notin Relayed(c)) => owed'[m] = owed[m] \ {s}
<1>1. /\ Len(stored) \in Nat /\ DOMAIN owed = 1..Len(stored) /\ DOMAIN stored = 1..Len(stored)
      /\ \A m \in 1..Len(stored) : owed[m] \subseteq Sockets
  BY MessagesTyped
<1>2. owed' = [m \in 1..Len(stored) |-> IF \E c \in C : m \in Relayed(c) THEN {} ELSE owed[m] \ {s}]
  BY <1>1 DEF OwedAfter
<1>3. \A m \in 1..Len(stored) : (IF \E c \in C : m \in Relayed(c) THEN {} ELSE owed[m] \ {s}) \in SUBSET Sockets
  BY <1>1
<1>4. owed' \in Seq(SUBSET Sockets) /\ Len(owed') = Len(stored)
  BY <1>1, <1>2, <1>3
<1> QED  BY <1>1, <1>2, <1>4

\* A step that relays nothing: what is owed may become less, and a relay that
\* goes on meets the same set of connections or owes nothing.
LEMMA RelayGoesOn ==
  ASSUME ChatInv, ChatTypeOK', UNCHANGED <<stored, alerts, got>>,
         \A c \in Posts : post'[c] = post[c] \/ (~Pending(c) /\ post'[c].phase \notin {"stored", "relay"}),
         \A m \in DOMAIN stored : owed'[m] \subseteq owed[m],
         \A c \in Posts : post[c].phase = "relay" =>
            \/ owed'[post[c].message] = {}
            \/ conns' = conns /\ \A s \in owed'[post[c].message] : socket'[s].phase = "live"
  PROVE  ChatInv'
<1>1. Relaying'
  <2> SUFFICES ASSUME NEW c \in Posts, post'[c].phase = "relay"
               PROVE  /\ post'[c].message \in DOMAIN stored'
                      /\ \A s \in owed'[post'[c].message] :
                            /\ s \in conns' /\ socket'[s].phase = "live"
                            /\ s \in post'[c].visited => post'[c].message \in got'[s]
                      /\ owed'[post'[c].message] # {} => Cardinality(conns') = post'[c].size
    BY DEF Relaying
  <2>1. post'[c] = post[c] /\ post[c].phase = "relay"
    BY DEF Pending
  <2>2. /\ post[c].message \in DOMAIN stored
        /\ \A s \in owed[post[c].message] : /\ s \in conns /\ socket[s].phase = "live"
                                            /\ s \in post[c].visited => post[c].message \in got[s]
        /\ owed[post[c].message] # {} => Cardinality(conns) = post[c].size
    BY <2>1 DEF ChatInv, Relaying
  <2>3. owed'[post[c].message] \subseteq owed[post[c].message]
    BY <2>2
  <2> QED  BY <2>1, <2>2, <2>3
<1>2. SocketsInformed'
  <2>1. \A m \in DOMAIN stored : (\A c \in Posts : m \notin Relayed(c)') => \A c \in Posts : m \notin Relayed(c)
    BY DEF Relayed, Pending
  <2> QED  BY <2>1 DEF ChatInv, SocketsInformed
<1>3. OwnMessages'
  BY DEF ChatInv, OwnMessages, Pending
<1> QED  BY <1>1, <1>2, <1>3 DEF ChatInv

LEMMA RelayOwes ==
  ASSUME ChatInv, NEW c \in Posts, post[c].phase = "relay"
  PROVE  /\ post[c].message \in DOMAIN stored /\ post[c].message \in Nat
         /\ post[c].visited \subseteq Sockets /\ post[c].stale \subseteq Sockets /\ post[c].size \in Nat
         /\ \A s \in owed[post[c].message] : /\ s \in conns /\ socket[s].phase = "live"
                                             /\ s \in post[c].visited => post[c].message \in got[s]
         /\ owed[post[c].message] # {} => Cardinality(conns) = post[c].size
         /\ Relayed(c) = {post[c].message}
BY DEF ChatInv, ChatTypeOK, Relaying, Relayed

LEMMA Quiet_ChatInv ==
  ASSUME ChatInv, UNCHANGED <<stored, alerts, socket, conns, post, got, owed>>
  PROVE  ChatInv'
<1>1. ChatTypeOK'
  BY DEF ChatInv, ChatTypeOK
<1>2. \A c \in Posts : post[c].phase = "relay" => \A s \in owed'[post[c].message] : socket'[s].phase = "live"
  BY RelayOwes
<1>3. \A m \in DOMAIN stored : owed'[m] \subseteq owed[m]
  OBVIOUS
<1> QED  BY <1>1, <1>2, <1>3, RelayGoesOn

\* A connection that is not part of the conversation, before and after.
LEMMA OtherSocket_ChatInv ==
  ASSUME ChatInv, NEW s \in Sockets, socket[s].phase # "live", UNCHANGED <<stored, alerts, conns, post, got, owed>>,
         NEW life \in [phase : {"none", "ticket", "checked", "live", "closed"}, user : Users \cup {None}],
         socket' = [socket EXCEPT ![s] = life]
  PROVE  ChatInv'
<1>1. ChatTypeOK'
  BY DEF ChatInv, ChatTypeOK
<1>2. \A z \in Sockets : z # s => socket'[z] = socket[z]
  BY DEF ChatInv, ChatTypeOK
<1>3. \A c \in Posts : post[c].phase = "relay" => \A z \in owed'[post[c].message] : socket'[z].phase = "live"
  <2> SUFFICES ASSUME NEW c \in Posts, post[c].phase = "relay", NEW z \in owed[post[c].message]
               PROVE  socket'[z].phase = "live"
    OBVIOUS
  <2>1. socket[z].phase = "live" /\ z \in conns
    BY RelayOwes
  <2> QED  BY <1>2, <2>1 DEF ChatInv, ChatTypeOK
<1>4. \A m \in DOMAIN stored : owed'[m] \subseteq owed[m]
  OBVIOUS
<1> QED  BY <1>1, <1>3, <1>4, RelayGoesOn

LEMMA Socket_ChatInv ==
  ASSUME ChatInv, NEW s \in Sockets,
         \/ \E u \in Parties \cup Helpers : GiveSocketTicket(s, u)
         \/ SpendSocketTicket(s) \/ LapseSocketTicket(s)
  PROVE  ChatInv'
<1>1. /\ socket[s].phase # "live" /\ UNCHANGED <<stored, alerts, conns, post, got, owed>>
      /\ \/ \E u \in Users : socket' = [socket EXCEPT ![s] = [phase |-> "ticket", user |-> u]]
         \/ \E phase \in {"checked", "closed"} : SocketTo(s, phase)
  BY DEF GiveSocketTicket, SpendSocketTicket, LapseSocketTicket, Users
<1>2. ASSUME NEW u \in Users \cup {None}, NEW phase \in {"ticket", "checked", "closed"},
             socket' = [socket EXCEPT ![s] = [phase |-> phase, user |-> u]]
      PROVE  ChatInv'
  BY <1>1, <1>2, OtherSocket_ChatInv
<1> QED  BY <1>1, <1>2 DEF SocketTo

\* The set of connections changes: no relay on its way owes anything more.
LEMMA SetMoves_ChatInv ==
  ASSUME ChatInv, NEW s \in Sockets, ConnectSocket(s) \/ \E noticed \in BOOLEAN : DisconnectSocket(s, noticed)
  PROVE  ChatInv'
<1>0. ChatTypeOK /\ IsFiniteSet(conns)
  BY DEF ChatInv, ChatTypeOK
<1>1. OwedAfter(s, Posts) \/ (OwedAfter(s, {}) /\ conns' = conns)
  BY DEF ConnectSocket, DisconnectSocket
<1>2. PICK phase \in {"live", "closed"} : SocketTo(s, phase)
  BY DEF ConnectSocket, DisconnectSocket
<1>3. UNCHANGED <<stored, alerts, post, got>>
  BY DEF ConnectSocket, DisconnectSocket
<1>4. /\ owed' \in Seq(SUBSET Sockets) /\ Len(owed') = Len(stored)
      /\ \A m \in DOMAIN stored : owed'[m] \subseteq owed[m] \ {s}
      /\ OwedAfter(s, Posts) => \A m \in DOMAIN stored : (\E c \in Posts : m \in Relayed(c)) => owed'[m] = {}
  BY <1>0, <1>1, OwedAfterTyped
<1>5. conns' \subseteq Sockets /\ IsFiniteSet(conns')
  <2>1. conns' = conns \/ conns' = conns \cup {s} \/ conns' = conns \ {s}
    BY DEF ConnectSocket, DisconnectSocket
  <2>2. IsFiniteSet(conns \cup {s}) /\ IsFiniteSet(conns \ {s})
    BY <1>0, FS_AddElement, FS_RemoveElement, FS_Difference
  <2> QED  BY <1>0, <2>1, <2>2 DEF ChatTypeOK
<1>6. ChatTypeOK'
  BY <1>0, <1>2, <1>3, <1>4, <1>5 DEF ChatTypeOK, SocketTo
<1>7. \A z \in Sockets : z # s => socket'[z] = socket[z]
  BY <1>0, <1>2 DEF ChatTypeOK, SocketTo
<1>8. ASSUME NEW c \in Posts, post[c].phase = "relay"
      PROVE  \/ owed'[post[c].message] = {}
             \/ conns' = conns /\ \A z \in owed'[post[c].message] : socket'[z].phase = "live"
  <2>1. post[c].message \in DOMAIN stored /\ post[c].message \in Relayed(c)
    BY <1>8, RelayOwes
  <2>2. CASE OwedAfter(s, Posts)
    BY <1>4, <2>1, <2>2
  <2>3. CASE OwedAfter(s, {}) /\ conns' = conns
    <3>1. \A z \in owed'[post[c].message] : z \in Sockets /\ z # s /\ socket[z].phase = "live"
      BY <1>0, <1>4, <1>8, <2>1, RelayOwes DEF ChatTypeOK
    <3> QED  BY <1>7, <2>3, <3>1
  <2> QED  BY <1>1, <2>2, <2>3
<1>9. \A m \in DOMAIN stored : owed'[m] \subseteq owed[m]
  BY <1>4
<1> QED  BY <1>3, <1>6, <1>8, <1>9, RelayGoesOn

LEMMA LoadPost_ChatInv ==
  ASSUME ChatInv, NEW c \in Posts, NEW u \in Users, LoadPost(c, u)
  PROVE  ChatInv'
<1>1. /\ post' = [post EXCEPT ![c] = [phase |-> "loaded", user |-> u]] /\ post[c].phase = "idle"
      /\ UNCHANGED <<stored, alerts, socket, conns, got, owed>>
  BY DEF LoadPost, NoPost
<1>2. ChatTypeOK'
  BY <1>1 DEF ChatInv, ChatTypeOK
<1>3. \A d \in Posts : post'[d] = IF d = c THEN [phase |-> "loaded", user |-> u] ELSE post[d]
  BY <1>1 DEF ChatInv, ChatTypeOK
<1>4. \A d \in Posts : post'[d] = post[d] \/ (~Pending(d) /\ post'[d].phase \notin {"stored", "relay"})
  BY <1>1, <1>3 DEF Pending
<1>5. \A d \in Posts : post[d].phase = "relay" => \A s \in owed'[post[d].message] : socket'[s].phase = "live"
  BY <1>1, RelayOwes
<1>6. \A m \in DOMAIN stored : owed'[m] \subseteq owed[m]
  BY <1>1
<1> QED  BY <1>1, <1>2, <1>4, <1>5, <1>6, RelayGoesOn


\* The commit of a message: nobody is owed it yet.
LEMMA CommitPost_ChatInv ==
  ASSUME ChatInv, NEW c \in Posts, CommitPost(c)
  PROVE  ChatInv'
<1> DEFINE n == Len(stored) + 1
<1>1. /\ ChatTypeOK /\ post[c].phase = "loaded" /\ post[c].user \in Users
      /\ UNCHANGED <<socket, conns, got>>
  BY DEF CommitPost, ChatInv, ChatTypeOK
<1>2. /\ stored' = Append(stored, post[c].user) /\ owed' = Append(owed, {})
      /\ post' = [post EXCEPT ![c] = [phase |-> "stored", message |-> n]]
  BY DEF CommitPost
<1>3. n \in Nat /\ n \notin DOMAIN stored /\ DOMAIN stored' = DOMAIN stored \cup {n}
  BY <1>1, <1>2 DEF ChatTypeOK
<1>4. /\ stored'[n] = post[c].user /\ owed'[n] = {}
      /\ \A m \in DOMAIN stored : stored'[m] = stored[m] /\ owed'[m] = owed[m]
  BY <1>1, <1>2, <1>3 DEF ChatTypeOK
<1> HIDE DEF n
<1>6. \A d \in Posts : post'[d] = IF d = c THEN [phase |-> "stored", message |-> n] ELSE post[d]
  BY <1>1, <1>2 DEF ChatTypeOK
<1>7. ChatTypeOK'
  <2>1. stored' \in Seq(Users)
    BY <1>1, <1>2 DEF ChatTypeOK
  <2>2. owed' \in Seq(SUBSET Sockets) /\ Len(owed') = Len(stored')
    BY <1>1, <1>2, <1>3 DEF ChatTypeOK
  <2>3. post' \in [Posts -> [phase : {"idle"}] \cup [phase : {"loaded"}, user : Users]
                            \cup [phase : {"stored"}, message : Nat]
                            \cup [phase : {"relay"}, message : Nat, size : Nat,
                                  visited : SUBSET Sockets, stale : SUBSET Sockets]]
    BY <1>1, <1>2, <1>3 DEF ChatTypeOK
  <2> QED  BY <1>1, <2>1, <2>2, <2>3 DEF ChatTypeOK
<1>8. Relaying'
  <2>1. ASSUME NEW d \in Posts, d # c, post[d].phase = "relay"
        PROVE  /\ post[d].message \in DOMAIN stored'
               /\ \A s \in owed'[post[d].message] : /\ s \in conns /\ socket[s].phase = "live"
                                                    /\ s \in post[d].visited => post[d].message \in got[s]
               /\ owed'[post[d].message] # {} => Cardinality(conns) = post[d].size
    BY <1>3, <1>4, <2>1, RelayOwes
  <2> QED  BY <1>1, <1>6, <2>1 DEF Relaying
<1>8a. OwnMessages'
  BY <1>3, <1>6 DEF ChatInv, OwnMessages, Pending
<1>9. \A m \in DOMAIN stored' : (\A d \in Posts : (m \notin Relayed(d))') => \A s \in owed'[m] : m \in got'[s]
  <2>1. \A d \in Posts : (Relayed(d))' = Relayed(d)
    BY <1>1, <1>6 DEF Relayed
  <2> QED  BY <1>1, <1>3, <1>4, <2>1 DEF ChatInv, SocketsInformed
<1>10. \A p \in Parties : alerts'[p] = Cardinality({m \in DOMAIN stored' : stored'[m] # p})
  <2> SUFFICES ASSUME NEW p \in Parties
               PROVE  alerts'[p] = Cardinality({m \in DOMAIN stored' : stored'[m] # p})
    OBVIOUS
  <2>1. alerts[p] = Cardinality({m \in DOMAIN stored : stored[m] # p})
    BY DEF ChatInv, SocketsInformed
  <2>2. CASE post[c].user = p
    <3>1. {m \in DOMAIN stored' : stored'[m] # p} = {m \in DOMAIN stored : stored[m] # p}
      BY <1>3, <1>4, <2>2
    <3>2. alerts'[p] = alerts[p]
      BY <2>2 DEF CommitPost, Recipients
    <3> QED  BY <2>1, <3>1, <3>2
  <2>3. CASE post[c].user # p
    <3>1. {m \in DOMAIN stored' : stored'[m] # p} = {m \in DOMAIN stored : stored[m] # p} \cup {n}
      BY <1>3, <1>4, <2>3
    <3>2. alerts'[p] = alerts[p] + 1
      BY <2>3 DEF CommitPost, Recipients
    <3>3. IsFiniteSet({m \in DOMAIN stored : stored[m] # p})
      <4>1. IsFiniteSet(1..Len(stored)) /\ {m \in DOMAIN stored : stored[m] # p} \subseteq 1..Len(stored)
        <5>1. Len(stored) \in Int /\ DOMAIN stored = 1..Len(stored)
          BY <1>1, MessagesTyped
        <5> QED  BY <5>1, FS_Interval
      <4> QED  BY <4>1, FS_Subset
    <3>4. Cardinality({m \in DOMAIN stored : stored[m] # p} \cup {n})
            = Cardinality({m \in DOMAIN stored : stored[m] # p}) + 1
      BY <1>3, <3>3, FS_AddElement
    <3> QED  BY <2>1, <3>1, <3>2, <3>4
  <2> QED  BY <2>2, <2>3
<1> QED  BY <1>7, <1>8, <1>8a, <1>9, <1>10 DEF ChatInv, SocketsInformed

\* The relay begins: whoever is connected is owed the message, which nobody
\* else relays.
LEMMA StartRelay_ChatInv ==
  ASSUME ChatInv, NEW c \in Posts, StartRelay(c)
  PROVE  ChatInv'
<1> DEFINE n == post[c].message
           live == {s \in conns : socket[s].phase = "live"}
<1>1. /\ ChatTypeOK /\ post[c].phase = "stored" /\ n \in Nat
      /\ UNCHANGED <<stored, alerts, socket, conns, got>>
  BY DEF StartRelay, ChatInv, ChatTypeOK
<1>2. /\ owed' = [owed EXCEPT ![n] = live]
      /\ post' = [post EXCEPT ![c] = [phase |-> "relay", message |-> n, size |-> Cardinality(conns),
                                      visited |-> {}, stale |-> {}]]
  BY DEF StartRelay
<1>3. /\ n \in DOMAIN stored /\ live \subseteq Sockets
      /\ \A d \in Posts : d # c /\ Pending(d) => post[d].message # n
  BY <1>1 DEF ChatInv, OwnMessages, Pending, ChatTypeOK
<1>4. /\ owed'[n] = live
      /\ \A m \in DOMAIN stored : m # n => owed'[m] = owed[m]
  BY <1>1, <1>2, <1>3, MessagesTyped
<1>5. Cardinality(conns) \in Nat
  BY <1>1, FS_CardinalityType DEF ChatTypeOK
<1>6. \A s \in live : s \in conns /\ socket[s].phase = "live"
  OBVIOUS
<1> HIDE DEF n, live
<1>7. \A d \in Posts : post'[d] = IF d = c THEN [phase |-> "relay", message |-> n, size |-> Cardinality(conns),
                                                 visited |-> {}, stale |-> {}] ELSE post[d]
  BY <1>1, <1>2 DEF ChatTypeOK
<1>8. ChatTypeOK'
  <2>1. owed' \in Seq(SUBSET Sockets) /\ Len(owed') = Len(stored')
    BY <1>1, <1>2, <1>3 DEF ChatTypeOK
  <2>2. post' \in [Posts -> [phase : {"idle"}] \cup [phase : {"loaded"}, user : Users]
                            \cup [phase : {"stored"}, message : Nat]
                            \cup [phase : {"relay"}, message : Nat, size : Nat,
                                  visited : SUBSET Sockets, stale : SUBSET Sockets]]
    BY <1>1, <1>2, <1>5 DEF ChatTypeOK
  <2> QED  BY <1>1, <2>1, <2>2 DEF ChatTypeOK
<1>9. Relaying'
  <2>1. ASSUME NEW d \in Posts, d # c, post[d].phase = "relay"
        PROVE  /\ post[d].message \in DOMAIN stored
               /\ \A s \in owed'[post[d].message] : /\ s \in conns /\ socket[s].phase = "live"
                                                    /\ s \in post[d].visited => post[d].message \in got[s]
               /\ owed'[post[d].message] # {} => Cardinality(conns) = post[d].size
    BY <1>3, <1>4, <2>1, RelayOwes DEF Pending
  <2> QED  BY <1>1, <1>3, <1>4, <1>6, <1>7, <2>1 DEF Relaying
<1>10. OwnMessages'
  <2>1. \A d \in Posts : Pending(d)' = Pending(d) /\ (Pending(d) => post'[d].message = post[d].message)
    BY <1>1, <1>7 DEF Pending, n
  <2> QED  BY <1>1, <2>1 DEF ChatInv, OwnMessages
<1>11. SocketsInformed'
  <2>1. (Relayed(c))' = {n} /\ \A d \in Posts : d # c => (Relayed(d))' = Relayed(d)
    BY <1>7 DEF Relayed
  <2>2. Relayed(c) = {}
    BY <1>1 DEF Relayed
  <2> QED  BY <1>1, <1>3, <1>4, <2>1, <2>2 DEF ChatInv, SocketsInformed
<1> QED  BY <1>8, <1>9, <1>10, <1>11 DEF ChatInv

\* A message goes to one more connection, or finds it broken: then it was not owed.
LEMMA RelayTo_ChatInv ==
  ASSUME ChatInv, NEW c \in Posts, NEW s \in Sockets, RelayTo(c, s)
  PROVE  ChatInv'
<1>1. /\ ChatTypeOK /\ post[c].phase = "relay" /\ UNCHANGED <<stored, alerts, socket, owed, conns>>
  BY DEF ChatInv, RelayTo, Fallen
<1>2. PICK m \in DOMAIN stored : m = post[c].message /\ m \in Nat
  BY <1>1, RelayOwes
<1>3. \/ socket[s].phase = "live" /\ got' = [got EXCEPT ![s] = @ \cup {m}]
      \/ socket[s].phase # "live" /\ got' = got
  BY <1>2 DEF RelayTo
<1>4. /\ \A z \in Sockets : got[z] \subseteq got'[z]
      /\ socket[s].phase = "live" => m \in got'[s]
      /\ got' \in [Sockets -> SUBSET Nat]
  <2>1. got \in [Sockets -> SUBSET Nat]
    BY <1>1 DEF ChatTypeOK
  <2>2. CASE socket[s].phase = "live" /\ got' = [got EXCEPT ![s] = @ \cup {m}]
    <3>1. got[s] \cup {m} \in SUBSET Nat
      BY <1>2, <2>1
    <3> QED  BY <2>1, <2>2, <3>1
  <2>3. CASE socket[s].phase # "live" /\ got' = got
    BY <2>1, <2>3
  <2> QED  BY <1>3, <2>2, <2>3
<1>5. PICK stale \in SUBSET Sockets :
        post' = [post EXCEPT ![c] = [phase |-> "relay", message |-> m, size |-> post[c].size,
                                     visited |-> post[c].visited \cup {s}, stale |-> stale]]
  <2>1. post[c] \in [phase : {"relay"}, message : Nat, size : Nat, visited : SUBSET Sockets, stale : SUBSET Sockets]
    BY <1>1 DEF ChatTypeOK
  <2>2. CASE post' = [post EXCEPT ![c].visited = @ \cup {s}]
    <3>1. ASSUME NEW next, next = [post[c] EXCEPT !.visited = @ \cup {s}]
          PROVE  next = [phase |-> "relay", message |-> m, size |-> post[c].size,
                         visited |-> post[c].visited \cup {s}, stale |-> post[c].stale]
      BY <1>2, <2>1, <3>1
    <3>2. post' = [post EXCEPT ![c] = [phase |-> "relay", message |-> m, size |-> post[c].size,
                                       visited |-> post[c].visited \cup {s}, stale |-> post[c].stale]]
      BY <2>2, <3>1
    <3> QED  BY <2>1, <3>2
  <2>3. CASE post' = [post EXCEPT ![c].visited = @ \cup {s}, ![c].stale = @ \cup {s}]
    <3>1. ASSUME NEW next, next = [post[c] EXCEPT !.visited = @ \cup {s}, !.stale = @ \cup {s}]
          PROVE  next = [phase |-> "relay", message |-> m, size |-> post[c].size,
                         visited |-> post[c].visited \cup {s}, stale |-> post[c].stale \cup {s}]
      BY <1>2, <2>1, <3>1
    <3>2. post' = [post EXCEPT ![c] = [phase |-> "relay", message |-> m, size |-> post[c].size,
                                       visited |-> post[c].visited \cup {s}, stale |-> post[c].stale \cup {s}]]
      BY <1>1, <2>3, <3>1 DEF ChatTypeOK
    <3> QED  BY <2>1, <3>2
  <2> QED  BY <2>2, <2>3 DEF RelayTo
<1>6. post[c].size \in Nat /\ post[c].visited \subseteq Sockets
  BY <1>1, RelayOwes
<1>7. ChatTypeOK'
  BY <1>1, <1>2, <1>4, <1>5, <1>6 DEF ChatTypeOK
<1>8. \A d \in Posts : post'[d] = IF d = c THEN [phase |-> "relay", message |-> m, size |-> post[c].size,
                                                 visited |-> post[c].visited \cup {s}, stale |-> stale] ELSE post[d]
  BY <1>1, <1>5 DEF ChatTypeOK
<1>9. Relaying'
  <2>1. ASSUME NEW d \in Posts, d # c, post[d].phase = "relay"
        PROVE  /\ post[d].message \in DOMAIN stored
               /\ \A z \in owed[post[d].message] : /\ z \in conns /\ socket[z].phase = "live"
                                                   /\ z \in post[d].visited => post[d].message \in got'[z]
               /\ owed[post[d].message] # {} => Cardinality(conns) = post[d].size
    BY <1>1, <1>4, <2>1, RelayOwes DEF ChatTypeOK
  <2>2. /\ \A z \in owed[m] : /\ z \in conns /\ socket[z].phase = "live"
                              /\ z \in post[c].visited \cup {s} => m \in got'[z]
        /\ owed[m] # {} => Cardinality(conns) = post[c].size
    BY <1>1, <1>2, <1>4, RelayOwes DEF ChatTypeOK
  <2> QED  BY <1>1, <1>8, <2>1, <2>2 DEF Relaying
<1>10. SocketsInformed'
  <2>1. \A d \in Posts : Relayed(d)' = Relayed(d)
    BY <1>1, <1>2, <1>8 DEF Relayed
  <2>2. \A k \in DOMAIN stored : owed[k] \subseteq Sockets
    BY <1>1, MessagesTyped
  <2> QED  BY <1>1, <1>4, <2>1, <2>2 DEF ChatInv, SocketsInformed
<1>11. OwnMessages'
  <2>1. \A d \in Posts : Pending(d)' = Pending(d) /\ (Pending(d) => post'[d].message = post[d].message)
    BY <1>1, <1>2, <1>8 DEF Pending
  <2> QED  BY <1>1, <2>1 DEF ChatInv, OwnMessages
<1> QED  BY <1>7, <1>9, <1>10, <1>11 DEF ChatInv


\* The end of a relay that owes nothing any more.
LEMMA RelayEnds ==
  ASSUME ChatInv, NEW c \in Posts, post[c].phase = "relay", post' = [post EXCEPT ![c] = NoPost],
         UNCHANGED <<stored, alerts, socket, got>>, conns' \subseteq conns,
         owed' \in Seq(SUBSET Sockets), Len(owed') = Len(stored),
         \A m \in DOMAIN stored : owed'[m] \subseteq owed[m],
         \A s \in owed[post[c].message] : post[c].message \in got[s],
         \A d \in Posts \ {c} : post[d].phase = "relay" => owed'[post[d].message] = {} \/ conns' = conns
  PROVE  ChatInv'
<1>1. ChatTypeOK /\ IsFiniteSet(conns')
  BY FS_Subset DEF ChatInv, ChatTypeOK
<1>2. ChatTypeOK'
  BY <1>1 DEF ChatTypeOK, NoPost
<1>3. \A d \in Posts : post'[d] = IF d = c THEN NoPost ELSE post[d]
  BY <1>1 DEF ChatTypeOK
<1>4. Relaying'
  <2>1. ASSUME NEW d \in Posts, d # c, post[d].phase = "relay"
        PROVE  /\ post[d].message \in DOMAIN stored
               /\ \A z \in owed'[post[d].message] : /\ z \in conns' /\ socket[z].phase = "live"
                                                    /\ z \in post[d].visited => post[d].message \in got[z]
               /\ owed'[post[d].message] # {} => Cardinality(conns') = post[d].size
    BY <2>1, RelayOwes
  <2>2. NoPost.phase # "relay"
    BY DEF NoPost
  <2> QED  BY <1>3, <2>1, <2>2 DEF Relaying
<1>5. SocketsInformed'
  <2>1. Relayed(c) = {post[c].message} /\ \A d \in Posts : d # c => Relayed(d)' = Relayed(d)
    BY <1>3, RelayOwes DEF Relayed
  <2>2. ASSUME NEW m \in DOMAIN stored, \A d \in Posts : m \notin Relayed(d)'
        PROVE  \A s \in owed'[m] : m \in got[s]
    <3>1. CASE m = post[c].message
      BY <3>1
    <3>2. CASE m # post[c].message
      <4>1. \A d \in Posts : m \notin Relayed(d)
        BY <2>1, <2>2, <3>2
      <4> QED  BY <4>1 DEF ChatInv, SocketsInformed
    <3> QED  BY <3>1, <3>2
  <2> QED  BY <2>2 DEF ChatInv, SocketsInformed
<1>6. OwnMessages'
  BY <1>3 DEF ChatInv, OwnMessages, Pending, NoPost
<1> QED  BY <1>2, <1>4, <1>5, <1>6 DEF ChatInv

\* The loop has come round to every connection of a set that kept its size.
LEMMA EndRelay_ChatInv ==
  ASSUME ChatInv, NEW c \in Posts, EndRelay(c)
  PROVE  ChatInv'
<1>1. /\ ChatTypeOK /\ post[c].phase = "relay" /\ conns \subseteq post[c].visited
      /\ post' = [post EXCEPT ![c] = NoPost] /\ conns' = conns \ post[c].stale
      /\ UNCHANGED <<stored, alerts, socket, got>>
  BY DEF ChatInv, EndRelay
<1>2. OwedAfter(None, IF post[c].stale = {} THEN {} ELSE Posts \ {c})
  BY DEF EndRelay
<1>3. /\ owed' \in Seq(SUBSET Sockets) /\ Len(owed') = Len(stored)
      /\ \A m \in DOMAIN stored : owed'[m] \subseteq owed[m]
      /\ post[c].stale # {} => \A m \in DOMAIN stored : (\E d \in Posts \ {c} : m \in Relayed(d)) => owed'[m] = {}
  BY <1>1, <1>2, OwedAfterTyped
<1>4. \A s \in owed[post[c].message] : post[c].message \in got[s]
  BY <1>1, RelayOwes
<1>5. \A d \in Posts \ {c} : post[d].phase = "relay" => owed'[post[d].message] = {} \/ conns' = conns
  BY <1>1, <1>3, RelayOwes
<1> QED  BY <1>1, <1>3, <1>4, <1>5, RelayEnds

\* The relay breaks because the set has changed: then it owed nothing.
LEMMA BreakRelay_ChatInv ==
  ASSUME ChatInv, NEW c \in Posts, BreakRelay(c)
  PROVE  ChatInv'
<1>1. /\ ChatTypeOK /\ post[c].phase = "relay" /\ Cardinality(conns) # post[c].size
      /\ post' = [post EXCEPT ![c] = NoPost]
      /\ UNCHANGED <<stored, alerts, socket, conns, got, owed>>
  BY DEF ChatInv, BreakRelay, SetChanged
<1>2. owed[post[c].message] = {}
  BY <1>1, RelayOwes
<1>3. owed' \in Seq(SUBSET Sockets) /\ Len(owed') = Len(stored)
  BY <1>1 DEF ChatTypeOK
<1> QED  BY <1>1, <1>2, <1>3, RelayEnds

LEMMA ChatNext_ChatInv ==
  ASSUME ChatInv, [ChatNext]_chatVars
  PROVE  ChatInv'
<1>1. ASSUME \/ UNCHANGED chatVars \/ EndClaim \/ \E u \in Parties \cup Helpers : LoseAccess(u)
      PROVE  ChatInv'
  BY <1>1, Quiet_ChatInv DEF chatVars, EndClaim, LoseAccess
<1>2. ASSUME NEW u \in Parties \cup Helpers, NEW c \in Posts, LoadPost(c, u) PROVE ChatInv'
  BY <1>2, LoadPost_ChatInv DEF Users
<1> QED  BY <1>1, <1>2, Socket_ChatInv, SetMoves_ChatInv, CommitPost_ChatInv, StartRelay_ChatInv, RelayTo_ChatInv,
            EndRelay_ChatInv, BreakRelay_ChatInv DEF ChatNext

\* For any number of connections, and of messages that are relayed side by side,
\* a relay that is over has sent its message to everyone who was owed it, and
\* each party has one notification for each message of others.
THEOREM SocketsAreInformed == ChatSpec => []SocketsInformed
<1>1. ChatInit => ChatInv
  <2> SUFFICES ASSUME ChatInit PROVE ChatInv
    OBVIOUS
  <2>1. ChatTypeOK
    BY FS_EmptySet DEF ChatInit, ChatTypeOK, NoPost, NoSocket
  <2>2. Relaying /\ OwnMessages
    BY DEF ChatInit, Relaying, OwnMessages, Pending, NoPost
  <2>3. SocketsInformed
    <3>1. \A p \in Parties : {m \in DOMAIN stored : stored[m] # p} = {}
      BY DEF ChatInit
    <3> QED  BY <3>1, FS_EmptySet DEF ChatInit, SocketsInformed
  <2> QED  BY <2>1, <2>2, <2>3 DEF ChatInv
<1>2. ChatInv /\ [ChatNext]_chatVars => ChatInv'
  BY ChatNext_ChatInv
<1>3. ChatInv => SocketsInformed
  BY DEF ChatInv
<1> QED  BY <1>1, <1>2, <1>3, PTL DEF ChatSpec


-----------------------------------------------------------------------------
\* Put together the services do nothing that they do not do alone: what is proved
\* of each of them holds of the composition, whatever its workloads.
THEOREM ServicesKeepApart ==
  ServicesSpec => /\ OtpSpec /\ FactorSpec /\ IdemSpec /\ SupportSpec /\ ChatSpec
                  /\ StaffSpec /\ OrgSpec /\ ConsoleSpec /\ ScoreSpec
<1>1. ServicesInit => /\ OtpInit /\ FactorInit /\ IdemInit /\ SupportInit /\ ChatInit
                      /\ StaffInit /\ OrgInit /\ ConsoleInit /\ ScoreInit
  BY DEF ServicesInit
<1>2. [ServicesNext]_servicesVars =>
        /\ [OtpNext]_otpVars /\ [FactorNext]_factorVars /\ [IdemNext]_idemVars
        /\ [SupportNext]_supportVars /\ [ChatNext]_chatVars /\ [StaffNext]_staffVars
        /\ [OrgNext]_orgVars /\ [RowsChange \/ Scans \/ Counts]_consoleVars /\ [Compare]_compared
  BY DEF ServicesNext, servicesVars
<1> QED  BY <1>1, <1>2, PTL DEF ServicesSpec, OtpSpec, FactorSpec, IdemSpec, SupportSpec, ChatSpec,
                                StaffSpec, OrgSpec, ConsoleSpec, ScoreSpec

=============================================================================
