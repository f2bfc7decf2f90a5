--------------------------- MODULE SessionsProofs ---------------------------
(***************************************************************************)
(* Proofs about module SessionClients: however many clients, tokens and    *)
(* late requests there are, a login never forks, is never stranded, and    *)
(* never comes back.                                                       *)
(*                                                                         *)
(* A client can resume because what it keeps is the newest token it has    *)
(* ever sent (Newest, SentLast), an answer on its way brings a token that  *)
(* is not older (Fresh), and no two clients know tokens of one login       *)
(* (OwnLogins).  With one live token in a login, the chain of successors   *)
(* then leads from the token kept to the live one in at most one step.     *)
(***************************************************************************)
EXTENDS SessionClients, TLAPS

\* The refresh requests of a client on their way, and all tokens it knows.
Late(c)  == {t \in Issued : <<c, t>> \in late}
Sent(c)  == Late(c) \cup (IF rotation[c].phase = "sent" THEN {rotation[c].token} ELSE {})
Known(c) == Late(c) \cup ({credential[c], rotation[c].token, rotation[c].got} \ {0})

\* Successors stay within a login; what was not issued is not live.
Chained ==
  /\ \A t \in Issued :
       /\ token[t].login \in Issued
       /\ token[t].next \in Issued \cup {0}
       /\ token[t].next # 0 => token[token[t].next].login = token[t].login
  /\ \A t \in Tokens \ Issued : ~token[t].live

\* Two clients know no tokens of one login.
OwnLogins ==
  \A c, d \in Clients : \A s \in Known(c), t \in Known(d) :
    token[s].login = token[t].login => c = d

\* A live token that a client has sent is the one it keeps, unless it has left
\* that login.
Newest ==
  \A c \in Clients : \A s \in Sent(c) :
    token[s].live => \/ credential[c] \in {0, s}
                     \/ token[credential[c]].login # token[s].login

\* Nothing newer than the token of the refresh in flight was sent before it.
SentLast ==
  \A c \in Clients : \A s \in Late(c) :
    /\ rotation[c].phase = "sent"
    /\ token[s].live /\ token[s].login = token[rotation[c].token].login
    => s = rotation[c].token

\* A refresh in flight names a token; an answer brings the live token of its
\* login, which is newer than any request still on its way.
Fresh ==
  \A c \in Clients :
    /\ rotation[c].phase = "idle" => rotation[c] = NoRotation
    /\ rotation[c].phase = "sent" => rotation[c].token # 0
    /\ rotation[c].phase = "answered" /\ rotation[c].got # 0 =>
         /\ rotation[c].got \notin Late(c)
         /\ token[rotation[c].got].live \/ ~Alive(token[rotation[c].got].login)

\* A logout in flight names a token.
Named == \A c \in Clients : leaving[c].phase # "no" => leaving[c].token # 0

ServerInv == SessionsTypeOK /\ Chained /\ OneLiveTokenPerLogin

Knowledge == OwnLogins /\ Newest /\ SentLast /\ Fresh /\ ClientCanResume

SessionsInv == ClientsTypeOK /\ Named /\ ServerInv /\ Knowledge

\* The ways in which a step changes the tokens.
Fading ==
  /\ made' = made
  /\ token' \in [Tokens -> Token]
  /\ \A t \in Tokens : /\ token'[t].login = token[t].login
                       /\ token'[t].next = token[t].next
                       /\ token'[t].live => token[t].live

Rotating(t) ==
  /\ token[t].live
  /\ made < MaxTokens
  /\ made' = made + 1
  /\ token' = Rotated(t)

ServerKind == Fading \/ (\E t \in Issued : Rotating(t)) \/ (\E m \in BOOLEAN : Issue(m))

\* No client learns a token but from an answer that it was sent.
Settling ==
  /\ Fading
  /\ \A d \in Clients :
       /\ \/ credential'[d] \in {credential[d], 0}
          \/ /\ rotation[d].phase = "answered" /\ rotation[d].got # 0
             /\ credential'[d] = rotation[d].got
       /\ rotation'[d] \in {rotation[d], NoRotation}
       /\ Sent(d)' \subseteq Sent(d)

\* Client c, and no other, is answered g to the token t that it sent.
Answering(c, t, g) ==
  /\ \A d \in Clients \ {c} : /\ credential'[d] = credential[d]
                              /\ rotation'[d] = rotation[d]
                              /\ Late(d)' = Late(d)
  /\ Late(c)' \subseteq Late(c)
  /\ credential'[c] = credential[c] \/ (g # 0 /\ credential'[c] = g)
  /\ \/ t \in Late(c) /\ rotation'[c] = rotation[c]
     \/ /\ rotation[c].phase = "sent" /\ rotation[c].token = t
        /\ rotation'[c] = [phase |-> "answered", token |-> t, got |-> g]

-----------------------------------------------------------------------------
(* The tokens of the server.                                               *)

\* Tokens are numbered from one, those issued first.
LEMMA IssuedAreTokens ==
  ASSUME SessionsTypeOK
  PROVE  /\ Issued \subseteq Tokens
         /\ \A t \in Issued : t # 0 /\ t \in Nat /\ t <= made
         /\ made \in Nat
BY SessionsAssumption DEF SessionsTypeOK, Issued, Tokens

\* What a rotation does to each token.
LEMMA RotatedTokens ==
  ASSUME SessionsTypeOK, NEW t \in Issued, Rotating(t)
  PROVE  /\ made + 1 \in Tokens /\ made + 1 \notin Issued
         /\ Issued' = Issued \cup {made + 1}
         /\ token' \in [Tokens -> Token]
         /\ \A s \in Tokens \ {t, made + 1} : token'[s] = token[s]
         /\ token'[t].login = token[t].login /\ token'[t].next = made + 1 /\ ~token'[t].live
         /\ token'[made + 1].login = token[t].login
         /\ token'[made + 1].next = 0 /\ token'[made + 1].live
<1>1. /\ made + 1 \in Tokens /\ made + 1 \notin Issued
      /\ Issued' = Issued \cup {made + 1}
      /\ t \in Tokens /\ t # made + 1 /\ made + 1 \in 0..MaxTokens
  BY SessionsAssumption DEF SessionsTypeOK, Rotating, Issued, Tokens
<1>2. NewToken(token[t].login, token[t].mfa) \in Token
  BY <1>1, SessionsAssumption DEF SessionsTypeOK, NewToken, Token
<1>3. [token[t] EXCEPT !.live = FALSE, !.next = made + 1] \in Token
  BY <1>1 DEF SessionsTypeOK, Token
<1>4. token' = [token EXCEPT ![t] = [token[t] EXCEPT !.live = FALSE, !.next = made + 1],
                             ![made + 1] = NewToken(token[t].login, token[t].mfa)]
  BY <1>1 DEF Rotating, Rotated, SessionsTypeOK, Token
<1>5. token' \in [Tokens -> Token]
  BY <1>1, <1>2, <1>3, <1>4 DEF SessionsTypeOK
<1>6. \A s \in Tokens \ {t, made + 1} : token'[s] = token[s]
  BY <1>1, <1>4 DEF SessionsTypeOK
<1>7. token'[t].login = token[t].login /\ token'[t].next = made + 1 /\ ~token'[t].live
  BY <1>1, <1>4 DEF SessionsTypeOK, Token
<1>8. /\ token'[made + 1].login = token[t].login
      /\ token'[made + 1].next = 0 /\ token'[made + 1].live
  BY <1>1, <1>4 DEF SessionsTypeOK, NewToken
<1> QED BY <1>1, <1>5, <1>6, <1>7, <1>8

\* What a login does to each token.
LEMMA IssuedToken ==
  ASSUME SessionsTypeOK, NEW m \in BOOLEAN, Issue(m)
  PROVE  /\ made' = made + 1
         /\ made + 1 \in Tokens /\ made + 1 \notin Issued
         /\ Issued' = Issued \cup {made + 1}
         /\ token' \in [Tokens -> Token]
         /\ \A s \in Tokens \ {made + 1} : token'[s] = token[s]
         /\ token'[made + 1].login = made + 1
         /\ token'[made + 1].next = 0 /\ token'[made + 1].live
<1>1. /\ made + 1 \in Tokens /\ made + 1 \notin Issued /\ made' = made + 1
      /\ Issued' = Issued \cup {made + 1} /\ made + 1 \in 0..MaxTokens
  BY SessionsAssumption DEF SessionsTypeOK, Issue, Issued, Tokens
<1>2. NewToken(made + 1, m) \in Token
  BY <1>1, SessionsAssumption DEF NewToken, Token
<1>3. token' = [token EXCEPT ![made + 1] = NewToken(made + 1, m)]
  BY DEF Issue
<1> QED BY <1>1, <1>2, <1>3 DEF SessionsTypeOK, NewToken

\* Revoking any set of tokens only makes tokens fade.
LEMMA RevokedFades ==
  ASSUME SessionsTypeOK, NEW S, token' = Revoked(S), made' = made
  PROVE  /\ Fading
         /\ \A t \in Tokens : t \in S => ~token'[t].live
         /\ \A t \in Tokens \ S : token'[t] = token[t]
<1>1. \A t \in Tokens : /\ t \in S => token'[t] = [token[t] EXCEPT !.live = FALSE]
                        /\ t \notin S => token'[t] = token[t]
                        /\ token[t] \in Token
  BY DEF Revoked, SessionsTypeOK
<1>2. \A t \in Tokens : [token[t] EXCEPT !.live = FALSE] \in Token
  BY <1>1 DEF Token
<1>3. token' \in [Tokens -> Token]
  BY <1>1, <1>2 DEF Revoked
<1>4. \A t \in Tokens : /\ token'[t].login = token[t].login
                        /\ token'[t].next = token[t].next
                        /\ token'[t].live => token[t].live
                        /\ t \in S => ~token'[t].live
  BY <1>1 DEF Token
<1> QED BY <1>1, <1>3, <1>4 DEF Fading

\* Leaving the tokens alone is a case of fading.
LEMMA UnchangedFades ==
  ASSUME SessionsTypeOK, UNCHANGED <<token, made>>
  PROVE  Fading
BY DEF SessionsTypeOK, Fading

\* The answers of a refresh.
LEMMA GrantedCases ==
  ASSUME SessionsTypeOK, Chained, NEW t \in Issued
  PROVE  \/ token[t].live /\ Granted(t) = made + 1
         \/ /\ Granted(t) \in Issued /\ Granted(t) = token[t].next
            /\ ~token[t].live
            /\ token[Granted(t)].live /\ token[Granted(t)].login = token[t].login
         \/ Granted(t) = 0
<1>1. CASE token[t].live /\ Honours(t)
  BY <1>1 DEF Granted, Recoverable
<1>2. CASE ~(token[t].live /\ Honours(t)) /\ Recoverable(t) /\ Honours(token[t].next)
  <2>1. Granted(t) = token[t].next
    BY <1>2 DEF Granted, Recoverable
  <2> QED BY <1>2, <2>1 DEF Recoverable, Chained
<1>3. CASE ~(token[t].live /\ Honours(t)) /\ ~(Recoverable(t) /\ Honours(token[t].next))
  BY <1>3 DEF Granted
<1> QED BY <1>1, <1>2, <1>3

\* A refresh rotates the token, repeats its live successor, or refuses.
LEMMA RefreshCases ==
  ASSUME SessionsTypeOK, Chained, NEW t \in Issued, Refresh(t)
  PROVE  \/ Rotating(t) /\ Granted(t) = made + 1
         \/ /\ UNCHANGED <<token, made>>
            /\ Granted(t) \in Issued /\ Granted(t) = token[t].next
            /\ ~token[t].live
            /\ token[Granted(t)].live /\ token[Granted(t)].login = token[t].login
         \/ UNCHANGED <<token, made>> /\ Granted(t) = 0
<1>1. \A s \in Issued \cup {0} : s # made + 1
  BY SessionsAssumption DEF SessionsTypeOK, Issued
<1> QED BY <1>1, GrantedCases DEF Refresh, Rotating

-----------------------------------------------------------------------------
(* The three ways keep the invariant of the server.                        *)

\* Revoking keeps the chains; a login without a live token gets none.
LEMMA FadingKeeps ==
  ASSUME SessionsTypeOK, Chained, OneLiveTokenPerLogin, Fading
  PROVE  /\ Chained' /\ OneLiveTokenPerLogin'
         /\ Issued' = Issued
         /\ \A l : Alive(l)' => Alive(l)
         /\ \A t \in Issued : token[t].live => token'[t].live \/ ~Alive(token[t].login)'
<1>1. Issued' = Issued /\ Tokens' = Tokens /\ Issued \subseteq Tokens
  BY IssuedAreTokens DEF Fading, Issued, Tokens
<1>2. Chained'
  BY <1>1 DEF Fading, Chained
<1>3. OneLiveTokenPerLogin'
  BY <1>1 DEF Fading, OneLiveTokenPerLogin
<1>4. \A l : Alive(l)' => Alive(l)
  BY <1>1 DEF Fading, Alive
<1>5. ASSUME NEW t \in Issued, token[t].live, Alive(token[t].login)', ~token'[t].live
      PROVE  FALSE
  <2>1. PICK s \in Issued : token'[s].live /\ token'[s].login = token'[t].login
    BY <1>1, <1>5 DEF Alive, Fading
  <2>2. token[s].live /\ token[s].login = token[t].login
    BY <2>1, <1>1 DEF Fading
  <2> QED BY <2>1, <2>2, <1>1, <1>5 DEF OneLiveTokenPerLogin
<1>6. \A t \in Tokens : token'[t].login = token[t].login
  BY DEF Fading
<1> QED BY <1>1, <1>2, <1>3, <1>4, <1>5, <1>6

\* A rotation moves the one live token of a login to the successor.
LEMMA RotatingKeeps ==
  ASSUME SessionsTypeOK, Chained, OneLiveTokenPerLogin, NEW t \in Issued, Rotating(t)
  PROVE  /\ Chained' /\ OneLiveTokenPerLogin'
         /\ \A l \in Issued : Alive(l)' <=> Alive(l)
         /\ \A s \in Issued : token[s].live /\ s # t => token'[s].live
<1> USE RotatedTokens, IssuedAreTokens
<1>1. Tokens' = Tokens
  BY DEF Tokens
<1>2. Chained'
  <2>1. ASSUME NEW s \in Issued'
        PROVE  /\ token'[s].login \in Issued'
               /\ token'[s].next \in Issued' \cup {0}
               /\ token'[s].next # 0 => token'[token'[s].next].login = token'[s].login
    <3>0. \A r \in Issued : r \in Tokens /\ r # made + 1 /\ token'[r].login = token[r].login
      OBVIOUS
    <3>1. CASE s = t
      BY <3>1, <3>0 DEF Chained
    <3>2. CASE s = made + 1
      BY <3>2, <3>0 DEF Chained
    <3>3. CASE s \in Issued /\ s # t
      BY <3>3, <3>0 DEF Chained
    <3> QED BY <3>1, <3>2, <3>3
  <2>2. \A s \in Tokens \ Issued' : ~token'[s].live
    BY DEF Chained
  <2> QED BY <2>1, <2>2, <1>1 DEF Chained
<1>3. OneLiveTokenPerLogin'
  <2> SUFFICES ASSUME NEW r \in Tokens, NEW s \in Tokens,
                      token'[r].live, token'[s].live, token'[r].login = token'[s].login
               PROVE  r = s
    BY <1>1 DEF OneLiveTokenPerLogin
  <2>1. \A u \in Tokens : token'[u].live /\ u # made + 1
                          => token[u].live /\ token'[u].login = token[u].login /\ u # t
    OBVIOUS
  <2>2. token[t].live
    BY DEF Rotating
  <2>3. CASE r = made + 1 /\ s # made + 1
    BY <2>1, <2>2, <2>3 DEF OneLiveTokenPerLogin
  <2>4. CASE s = made + 1 /\ r # made + 1
    BY <2>1, <2>2, <2>4 DEF OneLiveTokenPerLogin
  <2>5. CASE r # made + 1 /\ s # made + 1
    BY <2>1, <2>5 DEF OneLiveTokenPerLogin
  <2> QED BY <2>3, <2>4, <2>5
<1>4. ASSUME NEW l \in Issued
      PROVE  Alive(l)' <=> Alive(l)
  <2>1. \A s \in Issued' : token'[s].live /\ s # made + 1 => token[s].live /\ token'[s].login = token[s].login
    OBVIOUS
  <2>2. token[t].live
    BY DEF Rotating
  <2>3. Alive(l)' => Alive(l)
    BY <2>1, <2>2 DEF Alive
  <2>4. Alive(l) => Alive(l)'
    <3> SUFFICES ASSUME NEW s \in Issued, token[s].live, token[s].login = l PROVE Alive(l)'
      BY DEF Alive
    <3>1. CASE s = t
      BY <3>1 DEF Alive
    <3>2. CASE s # t
      BY <3>2 DEF Alive
    <3> QED BY <3>1, <3>2
  <2> QED BY <2>3, <2>4
<1>5. \A s \in Issued : token[s].live /\ s # t => token'[s].live
  OBVIOUS
<1> QED BY <1>2, <1>3, <1>4, <1>5

\* A login starts a chain of its own and leaves the others alone.
LEMMA IssuingKeeps ==
  ASSUME SessionsTypeOK, Chained, OneLiveTokenPerLogin, NEW m \in BOOLEAN, Issue(m)
  PROVE  /\ Chained' /\ OneLiveTokenPerLogin'
         /\ \A l \in Issued : Alive(l)' <=> Alive(l)
<1> USE IssuedToken, IssuedAreTokens
<1>1. Tokens' = Tokens
  BY DEF Tokens
<1>0. \A r \in Issued : r \in Tokens /\ r # made + 1 /\ token'[r] = token[r]
  OBVIOUS
<1>2. Chained'
  <2>1. ASSUME NEW s \in Issued'
        PROVE  /\ token'[s].login \in Issued'
               /\ token'[s].next \in Issued' \cup {0}
               /\ token'[s].next # 0 => token'[token'[s].next].login = token'[s].login
    <3>1. CASE s = made + 1
      BY <3>1
    <3>2. CASE s \in Issued
      BY <3>2, <1>0 DEF Chained
    <3> QED BY <3>1, <3>2
  <2>2. \A s \in Tokens \ Issued' : ~token'[s].live
    BY DEF Chained
  <2> QED BY <2>1, <2>2, <1>1 DEF Chained
<1>3. \A s \in Tokens : token'[s].live /\ s # made + 1 => token[s].live /\ s \in Issued
  BY DEF Chained
<1>4. \A s \in Issued : token[s].login # made + 1
  BY DEF Chained
<1>5. OneLiveTokenPerLogin'
  <2> SUFFICES ASSUME NEW r \in Tokens, NEW s \in Tokens,
                      token'[r].live, token'[s].live, token'[r].login = token'[s].login
               PROVE  r = s
    BY <1>1 DEF OneLiveTokenPerLogin
  <2> QED BY <1>0, <1>3, <1>4 DEF OneLiveTokenPerLogin
<1>6. ASSUME NEW l \in Issued
      PROVE  Alive(l)' <=> Alive(l)
  <2>1. l # made + 1
    OBVIOUS
  <2>2. \A s \in Issued' : token'[s].login = l => s \in Issued /\ token'[s] = token[s]
    BY <2>1, <1>0
  <2> QED BY <2>1, <2>2, <1>0 DEF Alive
<1> QED BY <1>2, <1>5, <1>6

-----------------------------------------------------------------------------
(* What the clients know.                                                  *)

\* What clients know was issued.
LEMMA KnownAreIssued ==
  ASSUME ClientsTypeOK, Fresh, NEW c \in Clients
  PROVE  /\ Late(c) \subseteq Sent(c) /\ Sent(c) \subseteq Known(c) /\ Known(c) \subseteq Issued
         /\ credential[c] \in Issued \cup {0}
         /\ rotation[c].got \in Issued \cup {0}
         /\ rotation[c].token \in Issued \cup {0}
<1>1. rotation[c] \in Rotation /\ credential[c] \in 0..made /\ made \in Nat
  BY SessionsAssumption DEF ClientsTypeOK, SessionsTypeOK
<1>2. \A n \in 0..made : n \in Issued \cup {0}
  BY <1>1 DEF Issued
<1>3. /\ credential[c] \in Issued \cup {0}
      /\ rotation[c].got \in Issued \cup {0}
      /\ rotation[c].token \in Issued \cup {0}
  BY <1>1, <1>2 DEF Rotation
<1> QED BY <1>3 DEF Late, Sent, Known, Fresh

\* Revocations, lost and received answers keep what the clients know.
LEMMA SettlingKeeps ==
  ASSUME SessionsInv, Settling
  PROVE  Knowledge'
<1>1. /\ Issued' = Issued
      /\ \A l : Alive(l)' => Alive(l)
      /\ \A t \in Issued : token[t].live => token'[t].live \/ ~Alive(token[t].login)'
  BY FadingKeeps DEF SessionsInv, ServerInv, Settling
<1>2. /\ 0 \notin Issued
      /\ \A t \in Issued : /\ token'[t].login = token[t].login
                           /\ token'[t].next = token[t].next
                           /\ token'[t].live => token[t].live
  BY IssuedAreTokens DEF SessionsInv, ServerInv, Settling, Fading
<1>3. \A c \in Clients :
        /\ Late(c) \subseteq Sent(c) /\ Sent(c) \subseteq Known(c) /\ Known(c) \subseteq Issued
        /\ credential[c] \in Issued \cup {0}
        /\ rotation[c].got \in Issued \cup {0}
        /\ Late(c)' \subseteq Sent(c)' /\ Sent(c)' \subseteq Sent(c)
        /\ rotation'[c] \in {rotation[c], NoRotation}
  BY KnownAreIssued DEF SessionsInv, Knowledge, Settling, Late, Sent
<1>4. \A c \in Clients : Known(c)' \subseteq Known(c)
  BY <1>3 DEF Settling, Known, NoRotation
<1>5. OwnLogins'
  BY <1>2, <1>3, <1>4 DEF SessionsInv, Knowledge, OwnLogins
<1>6. Newest'
  <2> SUFFICES ASSUME NEW c \in Clients, NEW s \in Sent(c)', token'[s].live,
                      credential'[c] \notin {0, s}
               PROVE  token'[credential'[c]].login # token'[s].login
    BY DEF Newest
  <2>1. s \in Sent(c) /\ s \in Issued /\ token[s].live /\ token'[s].login = token[s].login
    BY <1>2, <1>3
  <2>2. CASE credential'[c] = credential[c]
    BY <2>1, <2>2, <1>2, <1>3 DEF SessionsInv, Knowledge, Newest
  <2>3. CASE /\ rotation[c].phase = "answered" /\ rotation[c].got # 0
             /\ credential'[c] = rotation[c].got
    <3>1. s \in Late(c) /\ rotation[c].got \in Issued /\ s # rotation[c].got
      BY <2>1, <2>3, <1>3 DEF Sent, SessionsInv, Knowledge, Fresh
    <3>2. token[rotation[c].got].live \/ ~Alive(token[rotation[c].got].login)
      BY <2>3 DEF SessionsInv, Knowledge, Fresh
    <3>3. token[s].login # token[rotation[c].got].login
      BY <3>1, <3>2, <2>1, IssuedAreTokens DEF Alive, SessionsInv, ServerInv, OneLiveTokenPerLogin
    <3> QED BY <3>1, <3>3, <2>1, <2>3, <1>2
  <2> QED BY <2>2, <2>3 DEF Settling
<1>7. SentLast'
  BY <1>2, <1>3 DEF SentLast, Sent, NoRotation, SessionsInv, Knowledge
<1>8. Fresh'
  BY <1>1, <1>2, <1>3 DEF Fresh, Sent, NoRotation, SessionsInv, Knowledge
<1>9. ClientCanResume'
  <2> SUFFICES ASSUME NEW c \in Clients, NEW u \in Issued, u = credential'[c],
                      Alive(token[u].login)'
               PROVE  token'[u].live \/ Recoverable(u)'
    BY <1>3 DEF ClientCanResume, Settling
  <2>1. Alive(token[u].login)
    BY <1>1, <1>2 DEF Alive
  <2>2. CASE token[u].live
    BY <1>1, <2>2
  <2>3. CASE Recoverable(u) /\ ~token[u].live
    <3>1. /\ token[u].next \in Issued /\ token[token[u].next].live
          /\ token[token[u].next].login = token[u].login
      BY <2>3 DEF Recoverable, SessionsInv, ServerInv, Chained
    <3>2. token'[token[u].next].live
      BY <3>1, <1>1, <1>2
    <3> QED BY <3>1, <3>2, <2>3, <1>2 DEF Recoverable
  <2>4. token[u].live \/ Recoverable(u)
    <3>1. CASE u = credential[c]
      BY <3>1, <2>1, <1>2 DEF SessionsInv, Knowledge, ClientCanResume
    <3>2. CASE rotation[c].phase = "answered" /\ rotation[c].got # 0 /\ u = rotation[c].got
      BY <3>2, <2>1 DEF SessionsInv, Knowledge, Fresh
    <3> QED BY <3>1, <3>2, <1>2 DEF Settling
  <2> QED BY <2>2, <2>3, <2>4
<1> QED BY <1>5, <1>6, <1>7, <1>8, <1>9 DEF Knowledge

\* An answer teaches its client one token and no other client any.
LEMMA AnsweringSends ==
  ASSUME SessionsInv, NEW c \in Clients, NEW t, NEW g, Answering(c, t, g)
  PROVE  /\ t \in Sent(c) /\ t \in Known(c) /\ t \in Issued
         /\ \A d \in Clients : /\ Late(d)' \subseteq Late(d)
                               /\ Sent(d)' \subseteq Sent(d)
                               /\ Known(d)' \subseteq Known(d) \cup (IF d = c THEN {g} ELSE {})
                               /\ Sent(d) \subseteq Known(d) /\ Late(d) \subseteq Sent(d)
                               /\ Known(d) \subseteq Issued
<1>1. \A d \in Clients : /\ Late(d) \subseteq Sent(d) /\ Sent(d) \subseteq Known(d)
                         /\ Known(d) \subseteq Issued
                         /\ credential[d] \in Issued \cup {0}
                         /\ rotation[d].got \in Issued \cup {0}
                         /\ rotation[d].token \in Issued \cup {0}
  BY KnownAreIssued DEF SessionsInv, Knowledge
<1>2. t \in Sent(c)
  BY <1>1 DEF Answering, Sent
<1>3. \A d \in Clients : Late(d)' \subseteq Late(d)
  BY DEF Answering
<1>4. \A d \in Clients \ {c} : Sent(d)' \subseteq Sent(d) /\ Known(d)' \subseteq Known(d)
  BY <1>3 DEF Answering, Sent, Known
<1>5. Sent(c)' \subseteq Sent(c)
  BY <1>3, <1>2 DEF Answering, Sent
<1>6. Known(c)' \subseteq Known(c) \cup {g}
  BY <1>3, <1>2, <1>1 DEF Answering, Known
<1> QED BY <1>1, <1>2, <1>3, <1>4, <1>5, <1>6

\* The answer is a new successor of the token.
LEMMA RotatingKeepsKnowledge ==
  ASSUME SessionsInv, NEW c \in Clients, NEW t, Rotating(t), Answering(c, t, made + 1)
  PROVE  Knowledge'
<1>1. /\ t \in Sent(c) /\ t \in Known(c) /\ t \in Issued
      /\ \A d \in Clients : /\ Late(d)' \subseteq Late(d)
                            /\ Sent(d)' \subseteq Sent(d)
                            /\ Known(d)' \subseteq Known(d) \cup (IF d = c THEN {made + 1} ELSE {})
                            /\ Sent(d) \subseteq Known(d) /\ Late(d) \subseteq Sent(d)
                            /\ Known(d) \subseteq Issued
                            /\ credential[d] \in Issued \cup {0}
                            /\ rotation[d].got \in Issued \cup {0}
  BY AnsweringSends, KnownAreIssued DEF SessionsInv, Knowledge
<1>2. /\ made + 1 \notin Issued /\ 0 \notin Issued /\ made + 1 # 0
      /\ \A s \in Issued : /\ s \in Tokens /\ token'[s].login = token[s].login
                           /\ token'[s].live => token[s].live /\ s # t
                           /\ s # t => token'[s] = token[s]
      /\ token'[t].next = made + 1 /\ token'[made + 1].live
      /\ token'[made + 1].login = token[t].login
  BY <1>1, IssuedAreTokens, RotatedTokens DEF SessionsInv, ServerInv
<1>3. /\ \A l \in Issued : Alive(l)' <=> Alive(l)
      /\ \A s \in Issued : token[s].live /\ s # t => token'[s].live
  BY <1>1, RotatingKeeps DEF SessionsInv, ServerInv
<1>4. /\ token[t].live
      /\ \A s \in Issued : token[s].live /\ s # t => token[s].login # token[t].login
  BY <1>1, <1>2 DEF Rotating, SessionsInv, ServerInv, OneLiveTokenPerLogin
\* The login is known to no other client, and its only live token was t.
<1>5. \A d \in Clients \ {c} : \A s \in Known(d) : token[s].login # token[t].login
  BY <1>1 DEF SessionsInv, Knowledge, OwnLogins
<1>6. OwnLogins'
  <2> SUFFICES ASSUME NEW d \in Clients, NEW e \in Clients, NEW r \in Known(d)', NEW s \in Known(e)',
                      token'[r].login = token'[s].login
               PROVE  d = e
    BY DEF OwnLogins
  <2>1. CASE r = made + 1 /\ s # made + 1
    BY <2>1, <1>1, <1>2, <1>5
  <2>2. CASE s = made + 1 /\ r # made + 1
    BY <2>2, <1>1, <1>2, <1>5
  <2>3. CASE s = made + 1 /\ r = made + 1
    BY <2>3, <1>1, <1>2
  <2>4. CASE s # made + 1 /\ r # made + 1
    <3>1. r \in Known(d) /\ s \in Known(e) /\ r \in Issued /\ s \in Issued
      BY <2>4, <1>1
    <3> QED BY <3>1, <1>2 DEF SessionsInv, Knowledge, OwnLogins
  <2> QED BY <2>1, <2>2, <2>3, <2>4
<1>7. Newest'
  <2> SUFFICES ASSUME NEW d \in Clients, NEW s \in Sent(d)', token'[s].live,
                      credential'[d] \notin {0, s}
               PROVE  token'[credential'[d]].login # token'[s].login
    BY DEF Newest
  <2>1. s \in Sent(d) /\ s \in Issued /\ token[s].live /\ s # t /\ token'[s].login = token[s].login
    BY <1>1, <1>2
  <2>2. CASE credential'[d] = credential[d]
    BY <2>1, <2>2, <1>1, <1>2 DEF SessionsInv, Knowledge, Newest
  <2>3. CASE d = c /\ credential'[c] = made + 1
    BY <2>1, <2>3, <1>2, <1>4
  <2> QED BY <2>2, <2>3 DEF Answering
<1>8. SentLast'
  <2> SUFFICES ASSUME NEW d \in Clients, NEW s \in Late(d)', rotation'[d].phase = "sent",
                      token'[s].live, token'[s].login = token'[rotation'[d].token].login
               PROVE  s = rotation'[d].token
    BY DEF SentLast
  <2>1. rotation'[d] = rotation[d]
    BY DEF Answering
  <2>2. s \in Late(d) /\ s \in Issued /\ token[s].live
    BY <1>1, <1>2
  <2>3. rotation[d].token \in Issued
    BY <2>1, <1>1 DEF Sent
  <2> QED BY <2>1, <2>2, <2>3, <1>2 DEF SessionsInv, Knowledge, SentLast
<1>9. Fresh'
  <2>1. ASSUME NEW d \in Clients
        PROVE  /\ rotation'[d].phase = "idle" => rotation'[d] = NoRotation
               /\ rotation'[d].phase = "sent" => rotation'[d].token # 0
    BY <2>1 DEF Answering, SessionsInv, Knowledge, Fresh
  <2>2. ASSUME NEW d \in Clients, NEW g, g = rotation'[d].got,
               rotation'[d].phase = "answered", g # 0
        PROVE  g \notin Late(d)' /\ (token'[g].live \/ ~Alive(token[g].login)')
    <3>1. CASE rotation'[d] = rotation[d]
      <4>1. /\ g \in Issued /\ g \in Known(d) /\ g \notin Late(d)
            /\ token[g].live \/ ~Alive(token[g].login)
        BY <2>2, <3>1, <1>1 DEF Known, SessionsInv, Knowledge, Fresh
      <4>2. g # t
        BY <2>2, <3>1, <4>1, <1>5 DEF Answering
      <4>3. token[g].login \in Issued /\ token'[g].login = token[g].login
        BY <4>1, <1>2 DEF SessionsInv, ServerInv, Chained
      <4>4. ~Alive(token[g].login) => ~Alive(token[g].login)'
        BY <4>3, <1>3 DEF Alive
      <4> QED BY <4>1, <4>2, <4>4, <1>1, <1>3
    <3>2. CASE d = c /\ rotation'[c].got = made + 1
      BY <2>2, <3>2, <1>1, <1>2
    <3> QED BY <3>1, <3>2 DEF Answering
  <2> QED BY <2>1, <2>2 DEF Fresh
<1>10. ClientCanResume'
  <2> SUFFICES ASSUME NEW d \in Clients, NEW u, u = credential'[d], u # 0,
                      Alive(token[u].login)'
               PROVE  token'[u].live \/ Recoverable(u)'
    BY DEF ClientCanResume
  <2>1. CASE d = c /\ u = made + 1
    BY <2>1, <1>2
  <2>2. CASE u = t
    BY <2>2, <1>2, <1>4, RotatedTokens, <1>1 DEF Recoverable, SessionsInv, ServerInv
  <2>3. CASE u = credential[d] /\ u # t
    <3>1. u \in Issued /\ token'[u] = token[u] /\ token[u].login # token[t].login
      <4>1. u \in Issued /\ u \in Known(d)
        BY <2>3, <1>1 DEF Known
      <4>2. CASE d # c
        BY <4>1, <4>2, <1>2, <1>5, <2>3
      <4>3. CASE d = c
        BY <4>1, <4>3, <2>3, <1>1, <1>2, <1>4 DEF SessionsInv, Knowledge, Newest
      <4> QED BY <4>2, <4>3
    <3>2. Alive(token[u].login)
      <4>1. token[u].login \in Issued
        BY <3>1 DEF SessionsInv, ServerInv, Chained
      <4> QED BY <3>1, <4>1, <1>3 DEF Alive
    <3>3. CASE token[u].live
      BY <3>1, <3>3
    <3>4. CASE Recoverable(u)
      <4>1. /\ token[u].next \in Issued /\ token[u].next # t /\ token[token[u].next].live
        BY <3>1, <3>4 DEF Recoverable, SessionsInv, ServerInv, Chained
      <4> QED BY <3>1, <3>4, <4>1, <1>3 DEF Recoverable
    <3> QED BY <3>2, <3>3, <3>4, <2>3 DEF SessionsInv, Knowledge, ClientCanResume
  <2> QED BY <2>1, <2>2, <2>3 DEF Answering
<1> QED BY <1>6, <1>7, <1>8, <1>9, <1>10 DEF Knowledge

\* The answer is a refusal, or again the live successor of a consumed token.
LEMMA RepeatingKeepsKnowledge ==
  ASSUME SessionsInv, NEW c \in Clients, NEW t, NEW g, Answering(c, t, g),
         UNCHANGED <<token, made>>,
         g # 0 => /\ g \in Issued /\ token[g].live /\ ~token[t].live
                  /\ token[g].login = token[t].login
  PROVE  Knowledge'
<1>1. /\ t \in Known(c) /\ t \in Sent(c)
      /\ \A d \in Clients : /\ Late(d)' \subseteq Late(d)
                            /\ Sent(d)' \subseteq Sent(d)
                            /\ Known(d)' \subseteq Known(d) \cup (IF d = c THEN {g} ELSE {})
                            /\ Sent(d) \subseteq Known(d) /\ Late(d) \subseteq Sent(d)
                            /\ Known(d) \subseteq Issued
  BY AnsweringSends
<1>2. /\ 0 \notin Issued /\ Issued \subseteq Tokens /\ \A l : Alive(l)' <=> Alive(l)
      /\ \A d \in Clients : 0 \notin Known(d)'
  BY IssuedAreTokens DEF SessionsInv, ServerInv, Issued, Alive, Known, Late
<1>3. OwnLogins'
  <2>1. \A d \in Clients : \A s \in Known(d)' :
          \E r \in Known(d) : token[r].login = token[s].login
    BY <1>1, <1>2
  <2> QED BY <2>1 DEF SessionsInv, Knowledge, OwnLogins
<1>4. Newest'
  <2> SUFFICES ASSUME NEW d \in Clients, NEW s \in Sent(d)', token[s].live,
                      credential'[d] \notin {0, s}
               PROVE  token[credential'[d]].login # token[s].login
    BY DEF Newest
  <2>1. CASE credential'[d] = credential[d]
    BY <2>1, <1>1 DEF SessionsInv, Knowledge, Newest
  <2>2. CASE d = c /\ g # 0 /\ credential'[c] = g
    BY <2>2, <1>1, <1>2 DEF SessionsInv, ServerInv, OneLiveTokenPerLogin
  <2> QED BY <2>1, <2>2 DEF Answering
<1>5. SentLast'
  BY <1>1 DEF Answering, SentLast, SessionsInv, Knowledge
<1>6. Fresh'
  <2>1. ASSUME NEW d \in Clients
        PROVE  /\ rotation'[d].phase = "idle" => rotation'[d] = NoRotation
               /\ rotation'[d].phase = "sent" => rotation'[d].token # 0
    BY <2>1 DEF Answering, SessionsInv, Knowledge, Fresh
  <2>2. ASSUME NEW d \in Clients, NEW h, h = rotation'[d].got,
               rotation'[d].phase = "answered", h # 0
        PROVE  h \notin Late(d)' /\ (token[h].live \/ ~Alive(token[h].login)')
    <3>1. CASE rotation'[d] = rotation[d]
      BY <2>2, <3>1, <1>1, <1>2 DEF SessionsInv, Knowledge, Fresh
    <3>2. CASE /\ d = c /\ rotation[c].phase = "sent" /\ rotation[c].token = t
               /\ rotation'[c].got = g
      BY <2>2, <3>2, <1>1 DEF SessionsInv, Knowledge, SentLast
    <3> QED BY <3>1, <3>2 DEF Answering
  <2> QED BY <2>1, <2>2 DEF Fresh
<1>7. ClientCanResume'
  <2> SUFFICES ASSUME NEW d \in Clients, NEW u, u = credential'[d], u # 0,
                      Alive(token[u].login)
               PROVE  token[u].live \/ Recoverable(u)
    BY <1>2 DEF ClientCanResume, Recoverable
  <2> QED BY DEF Answering, SessionsInv, Knowledge, ClientCanResume
<1> QED BY <1>3, <1>4, <1>5, <1>6, <1>7 DEF Knowledge

\* A new refresh presents the token kept, which no earlier request is newer than.
LEMMA PresentingKeepsKnowledge ==
  ASSUME SessionsInv, NEW c \in Clients, BeginRefresh(c)
  PROVE  Knowledge'
<1>1. /\ Issued' = Issued /\ \A l : Alive(l)' <=> Alive(l)
      /\ \A d \in Clients : Late(d)' = Late(d)
      /\ UNCHANGED <<token, made, credential, late>>
  BY DEF BeginRefresh, sessionVars, Issued, Alive, Late
<1>2. /\ rotation[c] = NoRotation /\ credential[c] # 0
      /\ rotation'[c] = [phase |-> "sent", token |-> credential[c], got |-> 0]
      /\ \A d \in Clients \ {c} : rotation'[d] = rotation[d]
  BY DEF BeginRefresh, Set, SessionsInv, ClientsTypeOK
<1>3. /\ \A d \in Clients \ {c} : Known(d)' = Known(d) /\ Sent(d)' = Sent(d)
      /\ Known(c)' \subseteq Known(c) /\ Sent(c)' = Sent(c) \cup {credential[c]}
  BY <1>1, <1>2 DEF Known, Sent, NoRotation
<1>4. OwnLogins'
  BY <1>1, <1>3 DEF SessionsInv, Knowledge, OwnLogins
<1>5. Newest'
  BY <1>1, <1>3 DEF SessionsInv, Knowledge, Newest
<1>6. SentLast'
  <2>1. \A s \in Late(c) : s \in Sent(c)
    BY DEF Sent
  <2> QED BY <1>1, <1>2, <2>1 DEF SessionsInv, Knowledge, SentLast, Newest
<1>7. Fresh'
  BY <1>1, <1>2 DEF SessionsInv, Knowledge, Fresh
<1>8. ClientCanResume'
  BY <1>1 DEF SessionsInv, Knowledge, ClientCanResume, Recoverable
<1> QED BY <1>4, <1>5, <1>6, <1>7, <1>8 DEF Knowledge

\* A login starts a chain that nobody knew.
LEMMA LoginKeepsKnowledge ==
  ASSUME SessionsInv, NEW c \in Clients, NEW m \in BOOLEAN, Issue(m),
         UNCHANGED <<rotation, late>>,
         credential' \in {credential, Set(credential, c, made + 1)}
  PROVE  Knowledge'
<1>1. /\ made + 1 \notin Issued /\ 0 \notin Issued /\ made + 1 # 0
      /\ \A s \in Issued : token'[s] = token[s] /\ token[s].login \in Issued
      /\ token'[made + 1].login = made + 1 /\ token'[made + 1].live
  BY IssuedAreTokens, IssuedToken DEF SessionsInv, ServerInv, Chained
<1>2. \A l \in Issued : Alive(l)' <=> Alive(l)
  BY IssuingKeeps DEF SessionsInv, ServerInv
<1>3. \A d \in Clients : /\ Late(d) \subseteq Sent(d) /\ Sent(d) \subseteq Known(d)
                         /\ Known(d) \subseteq Issued
                         /\ credential[d] \in Issued \cup {0}
                         /\ rotation[d].got \in Issued \cup {0}
                         /\ rotation[d].token \in Issued \cup {0}
  BY KnownAreIssued DEF SessionsInv, Knowledge
<1>4. /\ \A d \in Clients : credential'[d] = credential[d] \/ (d = c /\ credential'[d] = made + 1)
      /\ \A d \in Clients : Late(d)' = Late(d) /\ Sent(d)' = Sent(d)
  <2>1. late \subseteq Clients \X Issued /\ credential \in [Clients -> 0..made] /\ Issued' = Issued \cup {made + 1}
    BY IssuedToken DEF SessionsInv, ServerInv, ClientsTypeOK
  <2>2. \A d \in Clients : Late(d)' = Late(d)
    BY <2>1 DEF Late
  <2> QED BY <2>1, <2>2 DEF Sent, Set
<1>5. \A d \in Clients : Known(d)' \subseteq Known(d) \cup (IF d = c THEN {made + 1} ELSE {})
  BY <1>4 DEF Known
<1>6. OwnLogins'
  <2> SUFFICES ASSUME NEW d \in Clients, NEW e \in Clients, NEW r \in Known(d)', NEW s \in Known(e)',
                      token'[r].login = token'[s].login
               PROVE  d = e
    BY DEF OwnLogins
  <2>1. \/ r = made + 1 /\ d = c
        \/ r \in Known(d) /\ r \in Issued
    BY <1>3, <1>5
  <2>2. \/ s = made + 1 /\ e = c
        \/ s \in Known(e) /\ s \in Issued
    BY <1>3, <1>5
  <2> QED BY <2>1, <2>2, <1>1 DEF SessionsInv, Knowledge, OwnLogins
<1>7. Newest'
  BY <1>1, <1>3, <1>4 DEF SessionsInv, Knowledge, Newest
<1>8. SentLast'
  BY <1>1, <1>3, <1>4 DEF SessionsInv, Knowledge, SentLast, Sent
<1>9. Fresh'
  BY <1>1, <1>2, <1>3, <1>4 DEF SessionsInv, Knowledge, Fresh
<1>10. ClientCanResume'
  <2> SUFFICES ASSUME NEW d \in Clients, NEW u, u = credential'[d], u # 0,
                      Alive(token[u].login)', u # made + 1
               PROVE  token'[u].live \/ Recoverable(u)'
    BY <1>1 DEF ClientCanResume
  <2>1. u = credential[d] /\ u \in Issued /\ token'[u] = token[u]
    BY <1>1, <1>3, <1>4
  <2>2. Alive(token[u].login)
    BY <2>1, <1>1, <1>2 DEF Alive
  <2>3. token[u].next # 0 => token'[token[u].next] = token[token[u].next]
    BY <2>1, <1>1 DEF SessionsInv, ServerInv, Chained
  <2> QED BY <2>1, <2>2, <2>3 DEF SessionsInv, Knowledge, ClientCanResume, Recoverable
<1> QED BY <1>6, <1>7, <1>8, <1>9, <1>10 DEF Knowledge

-----------------------------------------------------------------------------
(* Every step is of one of the three kinds.                                *)

\* The three kinds of step keep the invariant of the server.
LEMMA KindKeeps ==
  ASSUME ServerInv, ServerKind
  PROVE  /\ Chained' /\ OneLiveTokenPerLogin'
         /\ token' \in [Tokens -> Token] /\ made' \in 0..MaxTokens
         /\ made' \in {made, made + 1}
         /\ \A l \in Issued : Alive(l)' => Alive(l)
<1>1. CASE Fading
  BY <1>1, FadingKeeps DEF ServerInv, Fading, SessionsTypeOK
<1>2. ASSUME NEW t \in Issued, Rotating(t)
      PROVE  /\ Chained' /\ OneLiveTokenPerLogin'
             /\ token' \in [Tokens -> Token] /\ made' \in 0..MaxTokens /\ made' = made + 1
             /\ \A l \in Issued : Alive(l)' => Alive(l)
  BY <1>2, RotatingKeeps, RotatedTokens, SessionsAssumption DEF ServerInv, Rotating, SessionsTypeOK
<1>3. ASSUME NEW m \in BOOLEAN, Issue(m)
      PROVE  /\ Chained' /\ OneLiveTokenPerLogin'
             /\ token' \in [Tokens -> Token] /\ made' \in 0..MaxTokens /\ made' = made + 1
             /\ \A l \in Issued : Alive(l)' => Alive(l)
  <2>1. made' = made + 1 /\ made < MaxTokens /\ made' \in 0..MaxTokens
    BY <1>3, SessionsAssumption DEF ServerInv, Issue, SessionsTypeOK
  <2>2. token' \in [Tokens -> Token]
    BY <1>3, IssuedToken DEF ServerInv
  <2> QED BY <2>1, <2>2, <1>3, IssuingKeeps DEF ServerInv
<1> QED BY <1>1, <1>2, <1>3 DEF ServerKind

\* An account stays one when a field of it is written.
LEMMA AccountFields ==
  ASSUME SessionsTypeOK
  PROVE  /\ \A s \in Statuses : [account EXCEPT !.status = s] \in Account
         /\ \A s \in Statuses, b \in BOOLEAN :
              [account EXCEPT !.status = s, !.staff = b] \in Account
         /\ \A b \in BOOLEAN : [account EXCEPT !.twofa = b] \in Account
BY DEF SessionsTypeOK, Account

\* The steps of the server alone only revoke tokens.
LEMMA ServerStepFades ==
  ASSUME SessionsTypeOK, ServerStep
  PROVE  Fading /\ account' \in Account /\ login' \in [Clients -> Login]
<1>1. account \in Account /\ login \in [Clients -> Login]
  BY DEF SessionsTypeOK
<1>2. ASSUME NEW d \in Decrees, AdminUpdate(d.status, d.staff)
      PROVE  Fading /\ account' \in Account /\ login' = login
  <2>1. d.status \in Statuses /\ d.staff \in BOOLEAN
    BY SessionsAssumption DEF Statuses
  <2> QED BY <1>2, <2>1, RevokedFades, AccountFields DEF AdminUpdate
<1>3. CASE EnableTwoFactor
  BY <1>1, <1>3, UnchangedFades, AccountFields DEF EnableTwoFactor
<1>4. CASE DisableTwoFactor
  BY <1>1, <1>4, UnchangedFades, AccountFields DEF DisableTwoFactor
<1>5. CASE DeleteAccount
  BY <1>1, <1>5, RevokedFades, AccountFields DEF DeleteAccount, Statuses
<1>6. ASSUME NEW t \in Issued, Dismiss(t)
      PROVE  Fading /\ UNCHANGED <<account, login>>
  BY <1>6, RevokedFades DEF Dismiss
<1>7. ASSUME NEW t \in Issued, ExpireToken(t)
      PROVE  Fading /\ UNCHANGED <<account, login>>
  BY <1>7, RevokedFades DEF ExpireToken
<1>8. ASSUME NEW c \in Clients, ExpireTicket(c)
      PROVE  Fading /\ account' = account /\ login' \in [Clients -> Login]
  BY <1>1, <1>8, UnchangedFades DEF ExpireTicket, Login
<1> QED BY <1>1, <1>2, <1>3, <1>4, <1>5, <1>6, <1>7, <1>8 DEF ServerStep

\* A step of a login issues one token or none.
LEMMA ReadingFades ==
  ASSUME SessionsTypeOK, NEW c \in Clients, ReadCode(c) \/ ReadTicket(c)
  PROVE  Fading /\ account' \in Account /\ login' \in [Clients -> Login]
<1>1. /\ [step |-> "code", seen |-> account] \in Login
      /\ [step |-> "totp", seen |-> account] \in Login
  BY DEF SessionsTypeOK, Login
<1> QED BY <1>1, UnchangedFades DEF ReadCode, ReadTicket, SessionsTypeOK

\* The commit of a login issues one token or none.
LEMMA CommittingIssues ==
  ASSUME SessionsTypeOK, NEW c \in Clients, NEW right,
         CommitCode(c) \/ CommitTotp(c, right)
  PROVE  /\ (\E m \in BOOLEAN : Issue(m)) \/ UNCHANGED <<token, made>>
         /\ account' \in Account /\ login' \in [Clients -> Login]
<1>1. account \in Account /\ login \in [Clients -> Login] /\ NoLogin \in Login /\ Ticket \in Login
  BY DEF SessionsTypeOK, Login
<1>2. CASE CommitCode(c)
  <2>1. account' \in Account
    BY <1>1, <1>2, AccountFields DEF CommitCode, Statuses
  <2>2. login' \in [Clients -> Login]
    BY <1>1, <1>2 DEF CommitCode
  <2>3. Issue(FALSE) \/ UNCHANGED <<token, made>>
    BY <1>2 DEF CommitCode
  <2> QED BY <2>1, <2>2, <2>3
<1>3. CASE CommitTotp(c, right)
  <2>1. account' \in Account /\ login' \in [Clients -> Login]
    BY <1>1, <1>3 DEF CommitTotp
  <2>2. Issue(TRUE) \/ UNCHANGED <<token, made>>
    BY <1>3 DEF CommitTotp
  <2> QED BY <2>1, <2>2
<1> QED BY <1>2, <1>3

-----------------------------------------------------------------------------
(* Every action keeps the invariant.                                       *)

\* The part of ClientsTypeOK about the clients.
ClientShape ==
  /\ credential \in [Clients -> 0..made]
  /\ stale \in [Clients -> BOOLEAN]
  /\ rotation \in [Clients -> Rotation]
  /\ leaving \in [Clients -> Leaving]
  /\ late \subseteq Clients \X Issued

\* What each action is shown to do.
Kept ==
  /\ ServerKind
  /\ account' \in Account /\ login' \in [Clients -> Login]
  /\ ClientShape' /\ Named' /\ Knowledge'

\* What was a token, a rotation or a logout is one after more were issued.
LEMMA ShapeGrows ==
  ASSUME ClientsTypeOK, made' \in {made, made + 1}
  PROVE  /\ made \in Nat /\ made \in 0..made' /\ made' \in 0..made' /\ 0 \in 0..made'
         /\ 0..made \subseteq 0..made' /\ Issued \subseteq Issued' /\ Issued \subseteq 0..made'
         /\ Rotation \subseteq Rotation' /\ NoRotation \in Rotation'
         /\ Leaving \subseteq Leaving' /\ Staying \in Leaving'
         /\ credential \in [Clients -> 0..made'] /\ rotation \in [Clients -> Rotation']
         /\ leaving \in [Clients -> Leaving'] /\ late \subseteq Clients \X Issued'
<1>1. /\ made \in Nat /\ 0..made \subseteq 0..made' /\ Issued \subseteq Issued'
      /\ made \in 0..made' /\ made' \in 0..made' /\ 0 \in 0..made' /\ Issued \subseteq 0..made'
  BY SessionsAssumption DEF ClientsTypeOK, SessionsTypeOK, Issued
<1>2. Rotation \subseteq Rotation' /\ NoRotation \in Rotation'
  BY <1>1 DEF Rotation, NoRotation
<1>3. Leaving \subseteq Leaving' /\ Staying \in Leaving'
  BY <1>1 DEF Leaving, Staying
<1> QED BY <1>1, <1>2, <1>3 DEF ClientsTypeOK

\* What a client of a settling step keeps, when no logout begins or changes.
LEMMA QuietKeeps ==
  ASSUME SessionsInv, Fading, UNCHANGED clientVars
  PROVE  ClientShape' /\ Named' /\ Knowledge'
<1>1. ClientShape'
  BY ShapeGrows DEF SessionsInv, ClientsTypeOK, ClientShape, clientVars, Fading, Issued, Rotation, Leaving
<1>2. Named'
  BY DEF SessionsInv, Named, clientVars
<1>3. Settling
  BY DEF Settling, Sent, Late, Issued, Fading, clientVars
<1> QED BY <1>1, <1>2, <1>3, SettlingKeeps

\* The owner, the administrator and time.
LEMMA ServerStepKept ==
  ASSUME SessionsInv, ServerStep, UNCHANGED clientVars
  PROVE  Kept
BY QuietKeeps, ServerStepFades DEF Kept, ServerKind, SessionsInv, ServerInv

\* The first halves of the two steps of a login.
LEMMA ReadingKept ==
  ASSUME SessionsInv, NEW c \in Clients, BeginLogin(c) \/ BeginTotp(c)
  PROVE  Kept
BY QuietKeeps, ReadingFades DEF Kept, ServerKind, SessionsInv, ServerInv, BeginLogin, BeginTotp

\* The second halves of the two steps of a login.
LEMMA CommittingKept ==
  ASSUME SessionsInv, NEW c \in Clients, NEW heard \in BOOLEAN, NEW right \in BOOLEAN,
         FinishLogin(c, heard) \/ FinishTotp(c, right, heard)
  PROVE  Kept
<1>1. /\ (\E m \in BOOLEAN : Issue(m)) \/ UNCHANGED <<token, made>>
      /\ account' \in Account /\ login' \in [Clients -> Login] /\ HearLogin(c, heard)
  BY CommittingIssues DEF FinishLogin, FinishTotp, SessionsInv, ServerInv
<1>2. ClientsTypeOK /\ made \in Nat
  BY ShapeGrows, SessionsAssumption DEF SessionsInv, ClientsTypeOK, SessionsTypeOK
<1>3. CASE UNCHANGED <<token, made>>
  <2>1. Fading
    BY <1>3, UnchangedFades DEF SessionsInv, ServerInv
  <2>2. UNCHANGED clientVars
    <3>1. ~(made' > made)
      BY <1>2, <1>3
    <3>2. credential' = credential /\ stale' = stale /\ UNCHANGED <<rotation, leaving, late>>
      BY <1>1, <3>1 DEF HearLogin
    <3> QED BY <3>2 DEF clientVars
  <2> QED BY <2>1, <2>2, <1>1, QuietKeeps DEF Kept, ServerKind
<1>4. ASSUME NEW m \in BOOLEAN, Issue(m)
      PROVE  Kept
  <2>1. made' = made + 1
    BY <1>4 DEF Issue
  <2>2. ClientShape'
    BY <1>1, <1>2, <2>1, ShapeGrows DEF HearLogin, Set, ClientShape, ClientsTypeOK
  <2>3. Named'
    BY <1>1 DEF HearLogin, SessionsInv, Named
  <2>4. Knowledge'
    BY <1>1, <1>4, <2>1, LoginKeepsKnowledge DEF HearLogin
  <2> QED BY <1>1, <1>4, <2>2, <2>3, <2>4 DEF Kept, ServerKind
<1> QED BY <1>1, <1>3, <1>4

\* A client begins a refresh.
LEMMA PresentingKept ==
  ASSUME SessionsInv, NEW c \in Clients, BeginRefresh(c)
  PROVE  Kept
<1>1. UNCHANGED <<sessionVars, credential, stale, leaving, late>>
  BY DEF BeginRefresh
<1>2. ClientsTypeOK /\ made' = made /\ Issued' = Issued /\ Leaving' = Leaving /\ Rotation' = Rotation
  BY <1>1 DEF SessionsInv, sessionVars, Issued, Leaving, Rotation
<1>3. [phase |-> "sent", token |-> credential[c], got |-> 0] \in Rotation
  BY <1>2, ShapeGrows DEF ClientsTypeOK, Rotation
<1>4. ClientShape'
  BY <1>1, <1>2, <1>3 DEF BeginRefresh, Set, ClientsTypeOK, ClientShape
<1>5. Named'
  BY <1>1 DEF SessionsInv, Named
<1>6. Fading
  BY <1>1, UnchangedFades DEF sessionVars, SessionsInv, ServerInv
<1>7. account' \in Account /\ login' \in [Clients -> Login]
  BY <1>1, <1>2 DEF sessionVars, ClientsTypeOK, SessionsTypeOK
<1> QED BY <1>4, <1>5, <1>6, <1>7, PresentingKeepsKnowledge DEF Kept, ServerKind

\* A settling step that keeps the shapes keeps the invariant.
LEMMA SettlingKept ==
  ASSUME SessionsInv, Settling, UNCHANGED <<account, login>>,
         credential' \in [Clients -> 0..made], stale' \in [Clients -> BOOLEAN],
         rotation' \in [Clients -> Rotation], leaving' \in [Clients -> Leaving],
         late' \subseteq Clients \X Issued, Named'
  PROVE  Kept
<1>1. Fading /\ made' = made /\ Issued' = Issued /\ Rotation' = Rotation /\ Leaving' = Leaving
  BY DEF Settling, Fading, Issued, Rotation, Leaving
<1>2. ClientShape'
  BY <1>1 DEF ClientShape
<1>3. account' \in Account /\ login' \in [Clients -> Login]
  BY DEF SessionsInv, ServerInv, SessionsTypeOK
<1> QED BY <1>1, <1>2, <1>3, SettlingKeeps DEF Kept, ServerKind

\* A step of a logout: the refreshes are left alone, a token is at most cleared.
LEMMA ClearingKept ==
  ASSUME SessionsInv, Fading, UNCHANGED <<account, login, rotation, late>>, NEW c \in Clients,
         credential' \in {credential, Set(credential, c, 0)},
         stale' \in {stale, Set(stale, c, TRUE)},
         leaving' \in [Clients -> Leaving], Named'
  PROVE  Kept
<1>1. /\ credential \in [Clients -> 0..made] /\ stale \in [Clients -> BOOLEAN] /\ 0 \in 0..made
      /\ rotation \in [Clients -> Rotation] /\ late \subseteq Clients \X Issued
  BY SessionsAssumption DEF SessionsInv, ClientsTypeOK, SessionsTypeOK
<1>2. credential' \in [Clients -> 0..made] /\ stale' \in [Clients -> BOOLEAN]
  BY <1>1 DEF Set
<1>3. \A d \in Clients : credential'[d] \in {credential[d], 0}
  BY <1>1 DEF Set
<1>4. Settling
  BY <1>3 DEF Settling, Sent, Late, Issued, Fading
<1> QED BY <1>1, <1>2, <1>4, SettlingKept

\* An access token expires.
LEMMA ExpiringKept ==
  ASSUME SessionsInv, NEW c \in Clients, ExpireAccess(c)
  PROVE  Kept
<1>1. Fading /\ UNCHANGED <<account, login, leaving>>
  BY UnchangedFades DEF ExpireAccess, sessionVars, SessionsInv, ServerInv
<1> QED BY <1>1, ClearingKept DEF ExpireAccess, SessionsInv, Named, ClientsTypeOK

\* A step of a logout revokes tokens or none, and clears a store or none.
LEMMA LogoutFades ==
  ASSUME SessionsInv, NEW c \in Clients, NEW heard \in BOOLEAN,
         \/ BeginLogout(c) \/ ServeLogout(c) \/ RefuseLogout(c) \/ LoseLogout(c)
         \/ ServeForget(c, heard)
  PROVE  /\ Fading /\ UNCHANGED <<account, login, rotation, late, stale>>
         /\ credential' \in {credential, Set(credential, c, 0)}
<1>1. CASE BeginLogout(c) \/ RefuseLogout(c) \/ LoseLogout(c)
  <2>1. UNCHANGED <<sessionVars, rotation, late, stale>>
    BY <1>1 DEF BeginLogout, RefuseLogout, LoseLogout
  <2>2. credential' \in {credential, Set(credential, c, 0)}
    BY <1>1 DEF BeginLogout, RefuseLogout, LoseLogout
  <2> QED BY <2>1, <2>2, UnchangedFades DEF sessionVars, SessionsInv, ServerInv
<1>2. CASE ServeLogout(c)
  BY <1>2, RevokedFades DEF ServeLogout, Dismiss, SessionsInv, ServerInv
<1>3. CASE ServeForget(c, heard)
  BY <1>3, RevokedFades DEF ServeForget, Forget, SessionsInv, ServerInv
<1> QED BY <1>1, <1>2, <1>3

\* The steps of a logout.
LEMMA LogoutKept ==
  ASSUME SessionsInv, NEW c \in Clients, NEW heard \in BOOLEAN,
         \/ BeginLogout(c) \/ ServeLogout(c) \/ RefuseLogout(c) \/ LoseLogout(c)
         \/ ServeForget(c, heard)
  PROVE  Kept
<1>1. /\ leaving \in [Clients -> Leaving] /\ credential[c] \in 0..made
      /\ leaving[c].token \in 0..made
      /\ leaving[c] = [phase |-> leaving[c].phase, token |-> leaving[c].token]
  BY DEF SessionsInv, ClientsTypeOK, Leaving
<1>2. Staying \in Leaving
  BY SessionsAssumption DEF SessionsInv, ClientsTypeOK, SessionsTypeOK, Staying, Leaving
<1>3. CASE BeginLogout(c)
  <2>1. [phase |-> "sent", token |-> credential[c]] \in Leaving /\ credential[c] # 0
    BY <1>1, <1>3 DEF BeginLogout, Leaving
  <2>2. leaving' = Set(leaving, c, [phase |-> "sent", token |-> credential[c]])
    BY <1>3 DEF BeginLogout
  <2>3. leaving' \in [Clients -> Leaving] /\ Named'
    BY <1>1, <2>1, <2>2 DEF Set, SessionsInv, Named
  <2> QED BY <2>3, <1>3, LogoutFades, ClearingKept
<1>4. CASE RefuseLogout(c)
  <2>1. \/ leaving' = Set(leaving, c, Staying)
        \/ /\ leaving[c].phase # "no"
           /\ \E p \in {"again", "refused"} : leaving' = Set(leaving, c, [phase |-> p, token |-> leaving[c].token])
    BY <1>1, <1>4 DEF RefuseLogout
  <2>2. leaving' \in [Clients -> Leaving]
    BY <1>1, <1>2, <2>1 DEF Set, Leaving
  <2>3. Named'
    BY <1>1, <2>1 DEF Set, SessionsInv, Named, Staying
  <2> QED BY <2>2, <2>3, <1>4, LogoutFades, ClearingKept
<1>5. CASE ServeLogout(c) \/ LoseLogout(c) \/ ServeForget(c, heard)
  <2>1. leaving' = Set(leaving, c, Staying)
    BY <1>5 DEF ServeLogout, LoseLogout, ServeForget
  <2>2. leaving' \in [Clients -> Leaving] /\ Named'
    BY <1>1, <1>2, <2>1 DEF Set, SessionsInv, Named, Staying
  <2> QED BY <2>2, <1>5, LogoutFades, ClearingKept
<1> QED BY <1>3, <1>4, <1>5

\* The answer of a refresh, or the end of the wait for it.
LEMMA ReceivingKept ==
  ASSUME SessionsInv, NEW c \in Clients, ReceiveRefresh(c)
  PROVE  Kept
<1>1. /\ rotation \in [Clients -> Rotation] /\ credential \in [Clients -> 0..made]
      /\ leaving \in [Clients -> Leaving] /\ stale \in [Clients -> BOOLEAN]
      /\ late \subseteq Clients \X Issued /\ 0 \in 0..made /\ rotation[c].got \in 0..made
      /\ NoRotation \in Rotation /\ Staying \in Leaving
  BY ShapeGrows, UnchangedFades, SessionsAssumption DEF ReceiveRefresh, sessionVars, SessionsInv,
     ClientsTypeOK, SessionsTypeOK, Rotation, NoRotation, Leaving, Staying
<1>2. /\ UNCHANGED <<account, token, made, login, late>> /\ rotation[c].phase = "answered"
      /\ rotation' = Set(rotation, c, NoRotation)
  BY DEF ReceiveRefresh, sessionVars
<1>3. PICK x : credential' = Set(credential, c, x)
  BY DEF ReceiveRefresh
<1>4. /\ x \in 0..made
      /\ x \in {credential[c], 0} \/ (rotation[c].got # 0 /\ x = rotation[c].got)
  <2>1. credential'[c] = x
    BY <1>1, <1>3 DEF Set
  <2>2. credential'[c] \in {0, credential[c], rotation[c].got}
    BY <1>1 DEF ReceiveRefresh, Set, KeptByPhone, KeptByBrowser
  <2> QED BY <1>1, <2>1, <2>2
<1>5. \/ leaving' = leaving
      \/ leaving[c].phase = "refused" /\ leaving' = Set(leaving, c, [leaving[c] EXCEPT !.phase = "again"])
      \/ leaving' = Set(leaving, c, Staying)
  BY DEF ReceiveRefresh
<1>6. leaving' \in [Clients -> Leaving] /\ Named'
  <2>1. [leaving[c] EXCEPT !.phase = "again"] = [phase |-> "again", token |-> leaving[c].token]
    BY <1>1 DEF Leaving
  <2>2. [phase |-> "again", token |-> leaving[c].token] \in Leaving
    BY <1>1 DEF Leaving
  <2>3. leaving' \in [Clients -> Leaving]
    BY <1>1, <1>5, <2>1, <2>2 DEF Set
  <2>4. Named'
    <3>1. CASE leaving' = leaving \/ leaving' = Set(leaving, c, Staying)
      BY <1>1, <3>1 DEF Set, SessionsInv, Named, Staying
    <3>2. CASE /\ leaving[c].phase = "refused"
               /\ leaving' = Set(leaving, c, [phase |-> "again", token |-> leaving[c].token])
      BY <1>1, <3>2 DEF Set, SessionsInv, Named
    <3> QED BY <1>5, <2>1, <3>1, <3>2
  <2> QED BY <2>3, <2>4
<1>7. stale' \in [Clients -> BOOLEAN]
  BY <1>1 DEF ReceiveRefresh, Set
<1>8. rotation' \in [Clients -> Rotation] /\ credential' \in [Clients -> 0..made]
  BY <1>1, <1>2, <1>3, <1>4 DEF Set
<1>9. Fading
  BY <1>2, UnchangedFades DEF SessionsInv, ServerInv
<1>10. Settling
  BY <1>1, <1>2, <1>3, <1>4, <1>9 DEF Settling, Set, Sent, Late, Issued, NoRotation
<1> QED BY <1>1, <1>2, <1>6, <1>7, <1>8, <1>10, SettlingKept

\* A request that loses its application is still one that the client sent.
LEMMA OrphanSends ==
  ASSUME SessionsInv, NEW c \in Clients, NEW b \in BOOLEAN,
         Orphan(c, rotation[c].phase = "sent" /\ b), made' = made,
         rotation' = Set(rotation, c, NoRotation)
  PROVE  /\ late' \subseteq Clients \X Issued /\ rotation' \in [Clients -> Rotation]
         /\ \A d \in Clients : /\ rotation'[d] \in {rotation[d], NoRotation}
                               /\ Sent(d)' \subseteq Sent(d)
<1>1. /\ rotation \in [Clients -> Rotation] /\ NoRotation \in Rotation /\ Issued' = Issued
      /\ late \subseteq Clients \X Issued
      /\ rotation[c].phase = "sent" => rotation[c].token \in Issued
  BY ShapeGrows, KnownAreIssued, SessionsAssumption DEF SessionsInv, Knowledge, Fresh, ClientsTypeOK,
     SessionsTypeOK, Rotation, NoRotation, Issued
<1>2. \/ late' = late
      \/ rotation[c].phase = "sent" /\ late' = late \cup {<<c, rotation[c].token>>}
  BY DEF Orphan
<1>3. late' \subseteq Clients \X Issued
  BY <1>1, <1>2
<1>4. \A d \in Clients : rotation'[d] = IF d = c THEN NoRotation ELSE rotation[d]
  BY <1>1 DEF Set
<1>5. \A d \in Clients \ {c} : Sent(d)' \subseteq Sent(d)
  BY <1>1, <1>2, <1>4 DEF Sent, Late
<1>6. Sent(c)' \subseteq Sent(c)
  BY <1>1, <1>2, <1>4 DEF Sent, Late, NoRotation
<1> QED BY <1>1, <1>3, <1>4, <1>5, <1>6 DEF Set

\* An application stops waiting for its refresh.
LEMMA GivingUpKept ==
  ASSUME SessionsInv, NEW c \in Clients, NEW b \in BOOLEAN, GiveUpRefresh(c, b)
  PROVE  Kept
<1>1. /\ credential \in [Clients -> 0..made] /\ leaving \in [Clients -> Leaving]
      /\ stale \in [Clients -> BOOLEAN] /\ 0 \in 0..made
      /\ rotation[c] \in Rotation /\ rotation[c].got \in 0..made /\ Staying \in Leaving
  BY SessionsAssumption DEF SessionsInv, ClientsTypeOK, SessionsTypeOK, Rotation, Leaving, Staying
<1>2. /\ UNCHANGED <<account, token, made, login, stale>> /\ rotation[c] # NoRotation
      /\ Orphan(c, rotation[c].phase = "sent" /\ b)
      /\ rotation' = Set(rotation, c, NoRotation)
  BY DEF GiveUpRefresh, sessionVars
<1>3. /\ late' \subseteq Clients \X Issued /\ rotation' \in [Clients -> Rotation]
      /\ \A d \in Clients : /\ rotation'[d] \in {rotation[d], NoRotation}
                            /\ Sent(d)' \subseteq Sent(d)
  BY <1>2, OrphanSends
<1>4. /\ \A d \in Clients \ {c} : credential'[d] = credential[d]
      /\ \/ credential'[c] \in {credential[c], 0}
         \/ rotation[c].phase # "sent" /\ rotation[c].got # 0 /\ credential'[c] = rotation[c].got
      /\ credential' \in [Clients -> 0..made]
  BY <1>1 DEF GiveUpRefresh, Set, KeptByBrowser
<1>5. leaving' \in [Clients -> Leaving] /\ Named'
  BY <1>1 DEF GiveUpRefresh, Set, SessionsInv, Named, Staying
<1>6. Fading
  BY <1>2, UnchangedFades DEF SessionsInv, ServerInv
<1>7. Settling
  <2>1. rotation[c].phase # "sent" => rotation[c].phase = "answered"
    BY <1>1, <1>2 DEF Rotation, SessionsInv, Knowledge, Fresh
  <2> QED BY <1>3, <1>4, <1>6, <2>1 DEF Settling
<1> QED BY <1>1, <1>2, <1>3, <1>4, <1>5, <1>7, SettlingKept

\* A process is killed.
LEMMA KillingKept ==
  ASSUME SessionsInv, NEW c \in Clients, NEW b \in BOOLEAN, Kill(c, b)
  PROVE  Kept
<1>1. /\ credential \in [Clients -> 0..made] /\ leaving \in [Clients -> Leaving]
      /\ stale \in [Clients -> BOOLEAN] /\ Staying \in Leaving
  BY SessionsAssumption DEF SessionsInv, ClientsTypeOK, SessionsTypeOK, Leaving, Staying
<1>2. /\ UNCHANGED <<account, token, made, login, credential>>
      /\ Orphan(c, rotation[c].phase = "sent" /\ b)
      /\ rotation' = Set(rotation, c, NoRotation)
      /\ leaving' = Set(leaving, c, Staying)
  BY DEF Kill, sessionVars
<1>3. /\ late' \subseteq Clients \X Issued /\ rotation' \in [Clients -> Rotation]
      /\ \A d \in Clients : /\ rotation'[d] \in {rotation[d], NoRotation}
                            /\ Sent(d)' \subseteq Sent(d)
  BY <1>2, OrphanSends
<1>4. leaving' \in [Clients -> Leaving] /\ Named'
  BY <1>1, <1>2 DEF Set, SessionsInv, Named, Staying
<1>5. stale' \in [Clients -> BOOLEAN]
  <2>1. (stale[c] \/ c \in Browsers) \in BOOLEAN
    BY <1>1
  <2> QED BY <1>1, <2>1 DEF Kill, Set
<1>6. Settling
  BY <1>2, <1>3, UnchangedFades DEF Settling, SessionsInv, ServerInv
<1> QED BY <1>1, <1>2, <1>3, <1>4, <1>5, <1>6, SettlingKept

\* A refresh reaches the server, while its application waits for it or later.
LEMMA AnsweredKept ==
  ASSUME SessionsInv, NEW c \in Clients, NEW t \in Issued, NEW g, g = Granted(t), Refresh(t),
         Answering(c, t, g), UNCHANGED leaving
  PROVE  /\ ServerKind /\ account' \in Account /\ login' \in [Clients -> Login]
         /\ Knowledge' /\ Named'
         /\ made' \in {made, made + 1} /\ g \in 0..made'
<1>1. \/ Rotating(t) /\ g = made + 1
      \/ /\ UNCHANGED <<token, made>>
         /\ g # 0 => /\ g \in Issued /\ token[g].live /\ ~token[t].live
                     /\ token[g].login = token[t].login
         /\ g \in Issued \cup {0}
  BY RefreshCases, IssuedAreTokens DEF SessionsInv, ServerInv
<1>2. account' \in Account /\ login' \in [Clients -> Login] /\ made \in Nat
  BY SessionsAssumption DEF Refresh, SessionsInv, ServerInv, SessionsTypeOK
<1>3. Named'
  BY DEF SessionsInv, Named
<1>4. CASE Rotating(t) /\ g = made + 1
  BY <1>2, <1>3, <1>4, RotatingKeepsKnowledge DEF ServerKind, Rotating
<1>5. CASE ~(Rotating(t) /\ g = made + 1)
  BY <1>1, <1>2, <1>3, <1>5, RepeatingKeepsKnowledge, UnchangedFades
     DEF ServerKind, SessionsInv, ServerInv, Issued
<1> QED BY <1>4, <1>5

\* A refresh is served while its application waits.
LEMMA ServingKept ==
  ASSUME SessionsInv, NEW c \in Clients, ServeRefresh(c)
  PROVE  Kept
<1>1. rotation[c].phase = "sent" /\ rotation[c].token \in Issued
  BY KnownAreIssued DEF ServeRefresh, SessionsInv, Knowledge, Fresh
<1>2. PICK t \in Issued : t = rotation[c].token
  BY <1>1
<1>3. PICK g : g = Granted(t)
  OBVIOUS
<1>4. /\ Refresh(t) /\ UNCHANGED <<credential, stale, leaving, late>>
      /\ rotation' = Set(rotation, c, [phase |-> "answered", token |-> t, got |-> g])
  BY <1>2, <1>3 DEF ServeRefresh
<1>5. made' \in {made, made + 1} /\ late \subseteq Clients \X Issued /\ ClientsTypeOK
  BY <1>4 DEF Refresh, SessionsInv, ClientsTypeOK
<1>6. \A d \in Clients : Late(d)' = Late(d)
  BY <1>4, <1>5, ShapeGrows DEF Late
<1>7. Answering(c, t, g)
  BY <1>1, <1>2, <1>4, <1>5, <1>6 DEF Answering, Set, ClientsTypeOK
<1>8. /\ ServerKind /\ account' \in Account /\ login' \in [Clients -> Login]
      /\ Knowledge' /\ Named' /\ g \in 0..made'
  BY <1>3, <1>4, <1>7, AnsweredKept
<1>9. [phase |-> "answered", token |-> t, got |-> g] \in Rotation'
  BY <1>5, <1>8, ShapeGrows DEF Rotation
<1>10. ClientShape'
  BY <1>4, <1>5, <1>9, ShapeGrows DEF ClientShape, ClientsTypeOK, Set
<1> QED BY <1>8, <1>10 DEF Kept

\* A refresh is served that no application waits for.
LEMMA ServingLateKept ==
  ASSUME SessionsInv, NEW c \in Clients, NEW t \in Tokens, NEW heard \in BOOLEAN,
         ServeLate(c, t, heard)
  PROVE  Kept
<1>1. /\ late \subseteq Clients \X Issued /\ ClientsTypeOK /\ <<c, t>> \in late
      /\ t \in Issued /\ t \in Late(c)
  BY DEF ServeLate, SessionsInv, ClientsTypeOK, Late
<1>2. PICK g : g = Granted(t)
  OBVIOUS
<1>3. /\ Refresh(t) /\ UNCHANGED <<stale, rotation, leaving>>
      /\ late' = late \ {<<c, t>>}
      /\ \/ credential' = credential
         \/ credential' = Set(credential, c, KeptByBrowser(c, g))
  BY <1>2 DEF ServeLate
<1>4. \/ credential' = credential
      \/ g # 0 /\ credential' = Set(credential, c, g)
  BY <1>1, <1>3 DEF KeptByBrowser, Set, ClientsTypeOK
<1>5. made' \in {made, made + 1}
  BY <1>3 DEF Refresh
<1>6. \A d \in Clients : Late(d)' \subseteq Late(d) /\ (d # c => Late(d)' = Late(d))
  BY <1>1, <1>3, <1>5, ShapeGrows DEF Late
<1>7. Answering(c, t, g)
  BY <1>1, <1>3, <1>4, <1>6 DEF Answering, Set, ClientsTypeOK
<1>8. /\ ServerKind /\ account' \in Account /\ login' \in [Clients -> Login]
      /\ Knowledge' /\ Named' /\ g \in 0..made'
  BY <1>1, <1>2, <1>3, <1>7, AnsweredKept
<1>9. credential' \in [Clients -> 0..made']
  BY <1>1, <1>4, <1>5, <1>8, ShapeGrows DEF Set
<1>10. ClientShape'
  BY <1>1, <1>3, <1>5, <1>9, ShapeGrows DEF ClientShape, ClientsTypeOK
<1> QED BY <1>8, <1>10 DEF Kept

\* Every action keeps the invariant.
LEMMA NextKept ==
  ASSUME SessionsInv, ClientsNext
  PROVE  Kept
<1>1. CASE ServerStep /\ UNCHANGED clientVars
  BY <1>1, ServerStepKept
<1>2. ASSUME NEW c \in Clients,
             \/ BeginLogin(c) \/ BeginTotp(c) \/ ExpireAccess(c) \/ BeginRefresh(c)
             \/ ServeRefresh(c) \/ ReceiveRefresh(c)
             \/ BeginLogout(c) \/ ServeLogout(c) \/ RefuseLogout(c) \/ LoseLogout(c)
      PROVE  Kept
  BY <1>2, ReadingKept, ExpiringKept, PresentingKept, ServingKept, ReceivingKept, LogoutKept
<1>3. ASSUME NEW c \in Clients, NEW heard \in BOOLEAN, NEW right \in BOOLEAN,
             \/ FinishLogin(c, heard) \/ FinishTotp(c, right, heard)
             \/ GiveUpRefresh(c, heard) \/ Kill(c, heard) \/ ServeForget(c, heard)
      PROVE  Kept
  BY <1>3, CommittingKept, GivingUpKept, KillingKept, LogoutKept
<1>4. ASSUME NEW c \in Clients, NEW heard \in BOOLEAN, NEW t \in Tokens, ServeLate(c, t, heard)
      PROVE  Kept
  BY <1>4, ServingLateKept
<1> QED BY <1>1, <1>2, <1>3, <1>4 DEF ClientsNext

\* Every step keeps the inductive invariant.
LEMMA StepKeeps ==
  ASSUME SessionsInv, [ClientsNext]_clientsVars
  PROVE  SessionsInv'
<1>1. CASE ClientsNext
  <2>1. Kept
    BY <1>1, NextKept
  <2>2. /\ Chained' /\ OneLiveTokenPerLogin'
        /\ token' \in [Tokens -> Token] /\ made' \in 0..MaxTokens
    BY <2>1, KindKeeps DEF SessionsInv, Kept
  <2>3. SessionsTypeOK'
    BY <2>1, <2>2 DEF Kept, SessionsTypeOK, Tokens, Token, Account, Statuses, Login, NoLogin, Ticket
  <2>4. ClientsTypeOK'
    BY <2>1, <2>3 DEF Kept, ClientShape, ClientsTypeOK
  <2> QED BY <2>1, <2>2, <2>3, <2>4 DEF SessionsInv, ServerInv, Kept
<1>2. CASE UNCHANGED clientsVars
  <2>1. Fading /\ UNCHANGED clientVars /\ UNCHANGED <<account, token, made, login>>
    BY <1>2, UnchangedFades DEF clientsVars, clientVars, sessionVars, SessionsInv, ServerInv
  <2>2. ClientShape' /\ Named' /\ Knowledge'
    BY <2>1, QuietKeeps
  <2>3. Chained' /\ OneLiveTokenPerLogin'
    BY <2>1, FadingKeeps DEF SessionsInv, ServerInv
  <2>4. SessionsTypeOK'
    BY <2>1 DEF SessionsInv, ServerInv, SessionsTypeOK, Tokens
  <2> QED BY <2>2, <2>3, <2>4 DEF SessionsInv, ServerInv, ClientsTypeOK, ClientShape
<1> QED BY <1>1, <1>2

\* Before the first login the invariant holds.
LEMMA StartHolds == ClientsInit => SessionsInv
<1> SUFFICES ASSUME ClientsInit PROVE SessionsInv
  OBVIOUS
<1> USE SessionsAssumption DEF ClientsInit, SessionsInit
<1>1. Issued = {} /\ 0 \in 0..MaxTokens
  BY DEF Issued
<1>2. SessionsTypeOK
  <2>1. [login |-> 0, next |-> 0, live |-> FALSE, mfa |-> FALSE] \in Token
    BY <1>1 DEF Token
  <2>2. account \in Account
    BY DEF Account, Statuses
  <2> QED BY <1>1, <2>1, <2>2 DEF SessionsTypeOK, Login
<1>3. \A t \in Tokens : ~token[t].live
  OBVIOUS
<1>4. Chained /\ OneLiveTokenPerLogin
  BY <1>1, <1>3 DEF Chained, OneLiveTokenPerLogin
<1>5. \A c \in Clients : /\ credential[c] = 0 /\ rotation[c] = NoRotation /\ leaving[c] = Staying
                         /\ Late(c) = {} /\ Sent(c) = {} /\ Known(c) = {}
  BY <1>1 DEF Late, Sent, Known, NoRotation
<1>6. ClientsTypeOK /\ Named
  BY <1>1, <1>2, <1>5 DEF ClientsTypeOK, Named, Rotation, NoRotation, Leaving, Staying
<1>7. Knowledge
  BY <1>5 DEF Knowledge, OwnLogins, Newest, SentLast, Fresh, ClientCanResume, NoRotation
<1> QED BY <1>2, <1>4, <1>6, <1>7 DEF SessionsInv, ServerInv

-----------------------------------------------------------------------------
(* The theorems.                                                           *)

\* The inductive invariant.
THEOREM SessionsInvariant == ClientsSpec => []SessionsInv
<1>1. SessionsInv /\ [ClientsNext]_clientsVars => SessionsInv'
  BY StepKeeps
<1> QED BY <1>1, StartHolds, PTL DEF ClientsSpec

\* The rows, the stores, the requests and the answers always have their shapes,
\* and no client names a token that the server did not commit.
THEOREM ClientsTypeCorrect == ClientsSpec => []ClientsTypeOK
<1>1. SessionsInv => ClientsTypeOK
  BY DEF SessionsInv
<1> QED BY <1>1, SessionsInvariant, PTL

\* refresh never forks a login, however many refreshes race or are repeated.
THEOREM OneLiveToken == ClientsSpec => []OneLiveTokenPerLogin
<1>1. SessionsInv => OneLiveTokenPerLogin
  BY DEF SessionsInv, ServerInv
<1> QED BY <1>1, SessionsInvariant, PTL

\* With the operation identifier that bureau_api_client.dart keeps beside its
\* token, no lost answer, late request or killed process strands a login.
THEOREM SessionNotLost == ClientsSpec => []ClientCanResume
<1>1. SessionsInv => ClientCanResume
  BY DEF SessionsInv, Knowledge
<1> QED BY <1>1, SessionsInvariant, PTL

\* A login that was ended is never continued by a refresh.
THEOREM EndedIsEnded == ClientsSpec => EndedStaysEnded
<1>1. ASSUME SessionsInv, [ClientsNext]_clientsVars
      PROVE  [\A l \in Issued : token[l].login = l /\ ~Alive(l) => ~Alive(l)']_sessionVars
  <2>1. CASE ClientsNext
    <3>1. \A l \in Issued : Alive(l)' => Alive(l)
      BY <1>1, <2>1, NextKept, KindKeeps DEF Kept, SessionsInv
    <3> QED BY <3>1
  <2>2. CASE UNCHANGED clientsVars
    BY <2>2 DEF clientsVars
  <2> QED BY <1>1, <2>1, <2>2
<1> QED BY <1>1, SessionsInvariant, PTL DEF ClientsSpec, EndedStaysEnded

\* The server ends no login when it serves a refresh.
LEMMA RefreshKeepsAlive ==
  ASSUME SessionsInv, NEW t \in Issued, Refresh(t)
  PROVE  \A l \in Issued : Alive(l) => Alive(l)'
<1>1. Rotating(t) \/ UNCHANGED <<token, made>>
  BY RefreshCases DEF SessionsInv, ServerInv
<1>2. CASE UNCHANGED <<token, made>>
  BY <1>2 DEF Alive, Issued
<1> QED BY <1>1, <1>2, RotatingKeeps DEF SessionsInv, ServerInv

\* No order of refreshes, of their answers and of their late requests ends a login.
THEOREM RefreshIsHarmless == ClientsSpec => RefreshEndsNoLogin
<1>1. ASSUME SessionsInv, [ClientsNext]_clientsVars
      PROVE  [(rotation' # rotation \/ late' # late)
                => \A l \in Issued : Alive(l) => Alive(l)']_clientsVars
  <2> SUFFICES ASSUME ClientsNext, ~UNCHANGED <<rotation, late>>
               PROVE  \A l \in Issued : Alive(l) => Alive(l)'
    BY <1>1
  <2>1. ASSUME UNCHANGED sessionVars
        PROVE  \A l \in Issued : Alive(l) => Alive(l)'
    BY <2>1 DEF sessionVars, Alive, Issued
  <2>2. ASSUME NEW c \in Clients, ServeRefresh(c)
        PROVE  \A l \in Issued : Alive(l) => Alive(l)'
    <3>1. rotation[c].token \in Issued
      BY <1>1, <2>2, KnownAreIssued DEF ServeRefresh, SessionsInv, Knowledge, Fresh
    <3> QED BY <1>1, <2>2, <3>1, RefreshKeepsAlive DEF ServeRefresh
  <2>3. ASSUME NEW c \in Clients, NEW t \in Tokens, NEW heard \in BOOLEAN, ServeLate(c, t, heard)
        PROVE  \A l \in Issued : Alive(l) => Alive(l)'
    <3>1. t \in Issued
      BY <1>1, <2>3 DEF ServeLate, SessionsInv, ClientsTypeOK
    <3> QED BY <1>1, <2>3, <3>1, RefreshKeepsAlive DEF ServeLate
  <2>4. ASSUME NEW c \in Clients, NEW heard \in BOOLEAN,
               \/ BeginRefresh(c) \/ ReceiveRefresh(c) \/ GiveUpRefresh(c, heard) \/ Kill(c, heard)
        PROVE  UNCHANGED sessionVars
    BY <2>4 DEF BeginRefresh, ReceiveRefresh, GiveUpRefresh, Kill
  <2>5. \E c \in Clients :
          \/ ServeRefresh(c) \/ BeginRefresh(c) \/ ReceiveRefresh(c)
          \/ \E heard \in BOOLEAN : \/ GiveUpRefresh(c, heard) \/ Kill(c, heard)
                                    \/ \E t \in Tokens : ServeLate(c, t, heard)
    BY LogoutFades, <1>1 DEF ClientsNext, clientVars, BeginLogin, BeginTotp, FinishLogin,
       FinishTotp, HearLogin, ExpireAccess
  <2> QED BY <2>1, <2>2, <2>3, <2>4, <2>5
<1> QED BY <1>1, SessionsInvariant, PTL DEF ClientsSpec, RefreshEndsNoLogin

\* The lineage that a browser's logout revokes holds the live token of the login,
\* if the cookie did not change while the logout was on the way.
THEOREM ForgetEndsSession == ClientsSpec => ForgetRevokesSession
<1>1. ASSUME SessionsInv, NEW c \in Browsers, NEW heard \in BOOLEAN, NEW l \in Issued,
             ServeForget(c, heard), credential[c] = leaving[c].token,
             token[credential[c]].login = l, Alive(l)'
      PROVE  FALSE
  <2>1. c \in Clients
    BY ClientsAssumption
  <2>2. PICK t \in Issued : t = credential[c] /\ token[t].login = l
    BY <1>1, <2>1, KnownAreIssued DEF ServeForget, SessionsInv, Named, Knowledge
  <2>3. /\ token' = Revoked(Lineage(t)) /\ made' = made /\ Issued' = Issued
        /\ Issued \subseteq Tokens
    BY <1>1, <2>2, IssuedAreTokens DEF ServeForget, Forget, Issued, SessionsInv, ServerInv
  <2>4. PICK s \in Issued : token'[s].live /\ token'[s].login = l
    BY <1>1, <2>3 DEF Alive
  <2>5. s \notin Lineage(t) /\ token[s].live /\ token[s].login = l
    BY <2>3, <2>4, RevokedFades, <1>1 DEF SessionsInv, ServerInv, Fading
  <2>6. token[t].live \/ Recoverable(t)
    BY <1>1, <2>1, <2>2, <2>5, IssuedAreTokens
       DEF Alive, SessionsInv, ServerInv, Knowledge, ClientCanResume
  <2>7. CASE token[t].live
    BY <1>1, <2>2, <2>3, <2>5, <2>7 DEF SessionsInv, ServerInv, OneLiveTokenPerLogin, Lineage
  <2>8. CASE Recoverable(t)
    <3>1. /\ token[t].next \in Issued /\ token[token[t].next].live
          /\ token[token[t].next].login = l /\ token[t].next \in Lineage(t)
      BY <1>1, <2>2, <2>8 DEF Recoverable, Lineage, SessionsInv, ServerInv, Chained
    <3> QED BY <1>1, <2>3, <2>5, <3>1 DEF SessionsInv, ServerInv, OneLiveTokenPerLogin
  <2> QED BY <2>6, <2>7, <2>8
<1>2. SessionsInv /\ [ClientsNext]_clientsVars =>
        [\A c \in Browsers, heard \in BOOLEAN, l \in Issued :
           /\ ServeForget(c, heard)
           /\ credential[c] = leaving[c].token
           /\ token[credential[c]].login = l
           => ~Alive(l)']_clientsVars
  BY <1>1
<1> QED BY <1>2, SessionsInvariant, PTL DEF ClientsSpec, ForgetRevokesSession

=============================================================================
