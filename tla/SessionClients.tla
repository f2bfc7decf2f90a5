--------------------------- MODULE SessionClients ---------------------------
(***************************************************************************)
(* Phones and browsers that keep a session of module Sessions, as          *)
(* bureau_api_client.dart does, over a network that delays or loses a      *)
(* request or its answer, on devices that may be killed at any point.      *)
(*                                                                         *)
(* A phone keeps the refresh token in its secure store and writes it       *)
(* itself.  A browser keeps it in a cookie that the server's answer sets,  *)
(* whether or not the application still waits for that answer.             *)
(***************************************************************************)
EXTENDS Sessions

CONSTANTS
  Browsers,   \* the clients that are browsers; the others are phones
  MaxLate     \* bound: requests on the way that no application waits for

ASSUME ClientsAssumption == Browsers \subseteq Clients /\ MaxLate \in Nat

VARIABLES
  credential,  \* the token each client keeps, 0 if none
  stale,       \* whether the access token of each client has expired
  rotation,    \* the single refresh each application has in flight
  leaving,     \* the logout each application has in flight
  late         \* refresh requests on the way that no application waits for

clientVars == <<credential, stale, rotation, leaving, late>>
clientsVars == <<sessionVars, clientVars>>

Phones == Clients \ Browsers

NoRotation == [phase |-> "idle", token |-> 0, got |-> 0]
Rotation   == [phase : {"idle", "sent", "answered"}, token : 0..made, got : 0..made]

\* refused: the access token had expired; again: repeated after the refresh.
Staying == [phase |-> "no", token |-> 0]
Leaving == [phase : {"no", "sent", "refused", "again"}, token : 0..made]

Set(f, c, x) == [f EXCEPT ![c] = x]

-----------------------------------------------------------------------------
ClientsInit ==
  /\ SessionsInit
  /\ credential = [c \in Clients |-> 0]
  /\ stale = [c \in Clients |-> FALSE]
  /\ rotation = [c \in Clients |-> NoRotation]
  /\ leaving = [c \in Clients |-> Staying]
  /\ late = {}

\* The application shows the login form: nothing is kept, or the cookie was
\* refused.  A refresh of the session before may still be in flight.
SignedOut(c) == /\ credential[c] # 0 => c \in Browsers /\ Granted(credential[c]) = 0
                /\ leaving[c] = Staying

BeginLogin(c) == SignedOut(c) /\ ReadCode(c) /\ UNCHANGED clientVars

BeginTotp(c) == ReadTicket(c) /\ UNCHANGED clientVars

\* The answer of a login arrives (the token is kept) or is lost.
HearLogin(c, heard) ==
  /\ credential' = IF heard /\ made' > made THEN Set(credential, c, made') ELSE credential
  /\ stale' = IF heard /\ made' > made THEN Set(stale, c, FALSE) ELSE stale
  /\ UNCHANGED <<rotation, leaving, late>>

FinishLogin(c, heard) == CommitCode(c) /\ HearLogin(c, heard)

FinishTotp(c, right, heard) == CommitTotp(c, right) /\ HearLogin(c, heard)

-----------------------------------------------------------------------------
\* Fifteen minutes pass, far more than a logout may last: an access token that
\* expires during one is taken to have expired just before.
ExpireAccess(c) ==
  /\ credential[c] # 0 /\ leaving[c] = Staying /\ login[c] = NoLogin
  /\ stale' = Set(stale, c, TRUE)
  /\ UNCHANGED <<sessionVars, credential, rotation, leaving, late>>

\* A request is answered 401: the access token expired, or the account changed.
Refused(c) == stale[c] \/ Granted(credential[c]) = 0

\* One refresh, shared by every request that was refused (a login sends none
\* that could be).
BeginRefresh(c) ==
  /\ rotation[c] = NoRotation /\ login[c] = NoLogin
  /\ credential[c] # 0 /\ Refused(c)
  /\ rotation' = Set(rotation, c, [phase |-> "sent", token |-> credential[c], got |-> 0])
  /\ UNCHANGED <<sessionVars, credential, stale, leaving, late>>

ServeRefresh(c) ==
  LET t == rotation[c].token
  IN /\ rotation[c].phase = "sent"
     /\ Refresh(t)
     /\ rotation' = Set(rotation, c, [phase |-> "answered", token |-> t, got |-> Granted(t)])
     /\ UNCHANGED <<credential, stale, leaving, late>>

\* A phone compares its store with the token it sent, then writes or clears it.
KeptByPhone(c) == IF credential[c] = rotation[c].token THEN rotation[c].got ELSE credential[c]

\* A browser stores the cookie of any answer that carries one.
KeptByBrowser(c, got) == IF got # 0 THEN got ELSE credential[c]

\* A logout that waited for this refresh repeats its request, with the token
\* it read before, or gives up and clears the store.
ReceiveRefresh(c) ==
  LET renewed == rotation[c].got # 0 /\ credential[c] = rotation[c].token
      waiting == leaving[c].phase = "refused"
      kept    == IF c \in Browsers THEN KeptByBrowser(c, rotation[c].got) ELSE KeptByPhone(c)
  IN /\ rotation[c].phase = "answered"
     /\ rotation' = Set(rotation, c, NoRotation)
     /\ stale' = IF renewed THEN Set(stale, c, FALSE) ELSE stale
     /\ credential' = Set(credential, c, IF waiting /\ ~renewed THEN 0 ELSE kept)
     /\ leaving' = IF ~waiting THEN leaving
                   ELSE Set(leaving, c, IF renewed THEN [leaving[c] EXCEPT !.phase = "again"]
                                        ELSE Staying)
     /\ UNCHANGED <<sessionVars, late>>

\* The request in flight loses the application that waits for it.
Orphan(c, arrives) ==
  IF arrives THEN Cardinality(late) < MaxLate /\ late' = late \cup {<<c, rotation[c].token>>}
  ELSE UNCHANGED late

\* Thirty seconds without an answer, or no connection: the session is kept.
\* The request may still arrive, and a browser may still store its cookie.
GiveUpRefresh(c, arrives) ==
  LET sent == rotation[c].phase = "sent"
  IN /\ rotation[c] # NoRotation
     /\ rotation' = Set(rotation, c, NoRotation)
     /\ Orphan(c, sent /\ arrives)
     /\ credential' = Set(credential, c,
          IF leaving[c].phase = "refused" THEN 0
          ELSE IF ~sent /\ arrives /\ c \in Browsers THEN KeptByBrowser(c, rotation[c].got)
          ELSE credential[c])
     /\ leaving' = IF leaving[c].phase = "refused" THEN Set(leaving, c, Staying) ELSE leaving
     /\ UNCHANGED <<sessionVars, stale>>

ServeLate(c, t, heard) ==
  /\ <<c, t>> \in late
  /\ Refresh(t)
  /\ late' = late \ {<<c, t>>}
  /\ credential' = IF heard /\ c \in Browsers THEN Set(credential, c, KeptByBrowser(c, Granted(t)))
                   ELSE credential
  /\ UNCHANGED <<stale, rotation, leaving>>

\* The process ends; the refresh it sent may arrive, what it kept is found again
\* (a browser keeps no access token).
Kill(c, arrives) ==
  /\ rotation[c] # NoRotation \/ leaving[c] # Staying
  /\ Orphan(c, rotation[c].phase = "sent" /\ arrives)
  /\ rotation' = Set(rotation, c, NoRotation)
  /\ leaving' = Set(leaving, c, Staying)
  /\ stale' = Set(stale, c, stale[c] \/ c \in Browsers)
  /\ UNCHANGED <<sessionVars, credential>>

-----------------------------------------------------------------------------
\* logout() reads the token it will name; a browser sends its cookie.
BeginLogout(c) ==
  /\ leaving[c] = Staying /\ login[c] = NoLogin
  /\ credential[c] # 0
  /\ leaving' = Set(leaving, c, [phase |-> "sent", token |-> credential[c]])
  /\ UNCHANGED <<sessionVars, credential, stale, rotation, late>>

\* Served with the access token that came with the token it names, or, when it
\* is repeated, with the renewed one.  A phone forgets its token in any case.
ServeLogout(c) ==
  /\ c \in Phones
  /\ leaving[c].phase \in {"sent", "again"} /\ ~stale[c]
  /\ leaving[c].phase = "sent" => credential[c] = leaving[c].token
  /\ Dismiss(leaving[c].token)
  /\ leaving' = Set(leaving, c, Staying)
  /\ credential' = Set(credential, c, 0)
  /\ UNCHANGED <<stale, rotation, late>>

\* 401: refresh first, unless another request has renewed the session meanwhile.
RefuseLogout(c) ==
  LET renewed == credential[c] \notin {0, leaving[c].token}
      first   == leaving[c].phase = "sent" /\ credential[c] # 0
  IN /\ c \in Phones
     /\ leaving[c].phase \in {"sent", "again"}
     /\ credential[c] # 0 => Refused(c) \/ renewed
     /\ leaving' = Set(leaving, c,
          IF first THEN [leaving[c] EXCEPT !.phase = IF renewed THEN "again" ELSE "refused"]
          ELSE Staying)
     /\ credential' = IF first THEN credential ELSE Set(credential, c, 0)
     /\ UNCHANGED <<sessionVars, stale, rotation, late>>

\* DELETE /auth/session: the answer clears the cookie, or is lost.
ServeForget(c, heard) ==
  /\ c \in Browsers
  /\ leaving[c].phase = "sent"
  /\ Forget(leaving[c].token)
  /\ leaving' = Set(leaving, c, Staying)
  /\ credential' = IF heard THEN Set(credential, c, 0) ELSE credential
  /\ UNCHANGED <<stale, rotation, late>>

\* The request was lost: a phone clears its store, a browser reports a failure.
LoseLogout(c) ==
  /\ leaving[c].phase \in {"sent", "again"}
  /\ leaving' = Set(leaving, c, Staying)
  /\ credential' = IF c \in Phones THEN Set(credential, c, 0) ELSE credential
  /\ UNCHANGED <<sessionVars, stale, rotation, late>>

-----------------------------------------------------------------------------
ClientsNext ==
  \/ ServerStep /\ UNCHANGED clientVars
  \/ \E c \in Clients :
       \/ BeginLogin(c) \/ BeginTotp(c) \/ ExpireAccess(c) \/ BeginRefresh(c) \/ ServeRefresh(c) \/ ReceiveRefresh(c)
       \/ BeginLogout(c) \/ ServeLogout(c) \/ RefuseLogout(c) \/ LoseLogout(c)
  \/ \E c \in Clients, heard \in BOOLEAN :
       \/ FinishLogin(c, heard) \/ GiveUpRefresh(c, heard) \/ Kill(c, heard)
       \/ ServeForget(c, heard)
       \/ \E right \in BOOLEAN : FinishTotp(c, right, heard)
       \/ \E t \in Tokens : ServeLate(c, t, heard)

ClientsSpec == ClientsInit /\ [][ClientsNext]_clientsVars

-----------------------------------------------------------------------------
\* Every variable has the shape of the stores, the requests and the answers, and
\* names only tokens that the server committed.
ClientsTypeOK ==
  /\ SessionsTypeOK
  /\ credential \in [Clients -> 0..made]
  /\ stale \in [Clients -> BOOLEAN]
  /\ rotation \in [Clients -> Rotation]
  /\ leaving \in [Clients -> Leaving]
  /\ late \subseteq Clients \X Issued

\* CORE_RECOVERY.md: repeating the operation restores the session.  Whatever
\* answers were lost and whenever the device was killed, a client whose login
\* goes on keeps its live token, or one that leads to it.
ClientCanResume ==
  \A c \in Clients :
    LET t == credential[c]
    IN t # 0 /\ Alive(token[t].login) => token[t].live \/ Recoverable(t)

\* A refresh never ends a login: only a logout, a change of the account or
\* thirty days do, so an unlucky order of refreshes signs nobody out.
RefreshEndsNoLogin ==
  [][(rotation' # rotation \/ late' # late) => \A l \in Issued : Alive(l) => Alive(l)']_clientsVars

\* PRODUCTION_READINESS.md: a logout also revokes the live successor.  When a
\* browser's cookie did not change while its logout was on the way, no token of
\* the login stays live, not even one whose answer never reached the browser.
ForgetRevokesSession ==
  [][\A c \in Browsers, heard \in BOOLEAN, l \in Issued :
       /\ ServeForget(c, heard)
       /\ credential[c] = leaving[c].token
       /\ token[credential[c]].login = l
       => ~Alive(l)']_clientsVars

\* The same of a phone: auth.py answers "the session is ended", so no token of
\* the login that it names is live.
LogoutEndsLogin ==
  [][\A c \in Phones, l \in Issued :
       ServeLogout(c) /\ token[leaving[c].token].login = l => ~Alive(l)']_clientsVars
=============================================================================
