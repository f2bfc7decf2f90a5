-------------------------------- MODULE Chat --------------------------------
(***************************************************************************)
(* The chat of a claim: messages are posted over HTTP, stored with their   *)
(* notifications and then relayed to the web sockets of the conversation,  *)
(* one after another, by the one process that holds them.  Another request *)
(* may be served wherever a handler awaits.                                *)
(***************************************************************************)
EXTENDS Naturals, FiniteSets, Sequences, Nothing

CONSTANTS
  Parties,      \* the claimant and the owner of the publication
  Helpers,      \* operators of its organization, and moderators
  Sockets,      \* connections of clients
  Posts,        \* requests to post that may be in progress together
  MaxPosts,     \* bound: messages of the conversation
  MaxChatMoves  \* bound: helpers who leave, connections that break

VARIABLES
  active,     \* users whose account is active
  admitted,   \* users with access to the conversation: the parties, and the
              \* helpers while they have the role
  claimOpen,  \* the claim is under review, wants more information or is approved
  stored,     \* messages: who sent each
  alerts,     \* notifications of each party
  socket,     \* the life of each connection
  conns,      \* ConnectionManager.connections of the conversation
  post,       \* requests in progress
  got,        \* history: messages each connection was sent
  owed,       \* history: connections there since the relay of a message began, none once
              \* another request has changed the set while that message was relayed
  moves       \* departures so far

chatVars == <<active, admitted, claimOpen, stored, alerts, socket, conns, post, got, owed, moves>>

NoPost == [phase |-> "idle"]
NoSocket == [phase |-> "none", user |-> None]

ChatInit ==
  /\ active = Parties \cup Helpers /\ admitted = active /\ claimOpen = TRUE
  /\ stored = <<>> /\ alerts = [p \in Parties |-> 0]
  /\ socket = [s \in Sockets |-> NoSocket] /\ conns = {}
  /\ post = [c \in Posts |-> NoPost]
  /\ got = [s \in Sockets |-> {}] /\ owed = <<>> /\ moves = 0

\* A helper loses the role, or any user the account.
LoseAccess(u) ==
  /\ moves < MaxChatMoves /\ moves' = moves + 1
  /\ \/ u \in active /\ active' = active \ {u} /\ UNCHANGED admitted
     \/ u \in admitted \cap Helpers /\ admitted' = admitted \ {u} /\ UNCHANGED active
  /\ UNCHANGED <<claimOpen, stored, alerts, socket, conns, post, got, owed>>

EndClaim ==
  /\ claimOpen /\ claimOpen' = FALSE
  /\ UNCHANGED <<active, admitted, stored, alerts, socket, conns, post, got, owed, moves>>

-----------------------------------------------------------------------------
\* From here on nobody asks whose connection it is.
SocketTo(s, phase) == socket' = [socket EXCEPT ![s] = [phase |-> phase, user |-> None]]

\* A ticket of 60 seconds; it serves once.
GiveSocketTicket(s, u) ==
  /\ socket[s].phase = "none" /\ u \in active \cap admitted
  /\ socket' = [socket EXCEPT ![s] = [phase |-> "ticket", user |-> u]]
  /\ UNCHANGED <<active, admitted, claimOpen, stored, alerts, conns, post, got, owed, moves>>

\* The ticket is spent and the access checked once more, though not whether the
\* account is still active, and never again while the connection lasts.
SpendSocketTicket(s) ==
  /\ socket[s].phase = "ticket"
  /\ SocketTo(s, IF socket[s].user \in admitted THEN "checked" ELSE "closed")
  /\ UNCHANGED <<active, admitted, claimOpen, stored, alerts, conns, post, got, owed, moves>>

LapseSocketTicket(s) ==
  /\ socket[s].phase = "ticket" /\ SocketTo(s, "closed")
  /\ UNCHANGED <<active, admitted, claimOpen, stored, alerts, conns, post, got, owed, moves>>

Relayed(c) == IF post[c].phase = "relay" THEN {post[c].message} ELSE {}
\* Connection s has gone, or posts C have their set changed.
OwedAfter(s, C) == owed' = [m \in DOMAIN owed |-> IF \E c \in C : m \in Relayed(c) THEN {} ELSE owed[m] \ {s}]

ConnectSocket(s) ==
  /\ socket[s].phase = "checked"
  /\ SocketTo(s, "live") /\ conns' = conns \cup {s} /\ OwedAfter(s, Posts)
  /\ UNCHANGED <<active, admitted, claimOpen, stored, alerts, post, got, moves>>

\* WebSocketDisconnect removes the connection; an error of another kind leaves
\* it to the next message that cannot be sent.
DisconnectSocket(s, noticed) ==
  /\ socket[s].phase = "live" /\ moves < MaxChatMoves /\ moves' = moves + 1
  /\ SocketTo(s, "closed") /\ OwedAfter(s, IF noticed THEN Posts ELSE {})
  /\ conns' = IF noticed THEN conns \ {s} ELSE conns
  /\ UNCHANGED <<active, admitted, claimOpen, stored, alerts, post, got>>

-----------------------------------------------------------------------------
\* Access, the state of the claim and the attachments are checked here.
LoadPost(c, u) ==
  /\ post[c] = NoPost /\ u \in active \cap admitted /\ claimOpen
  /\ post' = [post EXCEPT ![c] = [phase |-> "loaded", user |-> u]]
  /\ UNCHANGED <<active, admitted, claimOpen, stored, alerts, socket, conns, got, owed, moves>>

Recipients(u) == Parties \ {u}

\* One transaction.  The row is read again before anything is relayed.
CommitPost(c) ==
  /\ post[c].phase = "loaded" /\ Len(stored) < MaxPosts
  /\ stored' = Append(stored, post[c].user)
  /\ alerts' = [p \in Parties |-> IF p \in Recipients(post[c].user) THEN alerts[p] + 1 ELSE alerts[p]]
  /\ owed' = Append(owed, {})
  /\ post' = [post EXCEPT ![c] = [phase |-> "stored", message |-> Len(stored) + 1]]
  /\ UNCHANGED <<active, admitted, claimOpen, socket, conns, got, moves>>

\* The relay starts over the set of connections that is there now.
StartRelay(c) ==
  LET m == post[c].message
  IN /\ post[c].phase = "stored"
     /\ owed' = [owed EXCEPT ![m] = {s \in conns : socket[s].phase = "live"}]
     /\ post' = [post EXCEPT ![c] = [phase |-> "relay", message |-> m, size |-> Cardinality(conns),
                                     visited |-> {}, stale |-> {}]]
     /\ UNCHANGED <<active, admitted, claimOpen, stored, alerts, socket, conns, got, moves>>

\* Mutant of Fallen: a connection that fails is dropped inside the loop.
FallenNow(s)   == conns \ {s}
Fallen(s)      == conns
SetChanged(c)  == Cardinality(conns) # post[c].size

\* The next connection of the loop, while the set has the size it had.
RelayTo(c, s) ==
  LET r == post[c]
  IN /\ r.phase = "relay" /\ ~SetChanged(c) /\ s \in conns \ r.visited
     /\ IF socket[s].phase = "live"
          THEN /\ got' = [got EXCEPT ![s] = @ \cup {r.message}]
               /\ post' = [post EXCEPT ![c].visited = @ \cup {s}]
               /\ UNCHANGED conns
          ELSE /\ post' = [post EXCEPT ![c].visited = @ \cup {s}, ![c].stale = @ \cup {s}]
               /\ conns' = Fallen(s)
               /\ UNCHANGED got
     /\ UNCHANGED <<active, admitted, claimOpen, stored, alerts, socket, owed, moves>>

\* The loop has come to its end: the failed connections are dropped, and each
\* relay that is on its way meets a changed set.
EndRelay(c) ==
  LET r == post[c]
  IN /\ r.phase = "relay" /\ ~SetChanged(c) /\ conns \subseteq r.visited
     /\ conns' = conns \ r.stale
     /\ post' = [post EXCEPT ![c] = NoPost]
     /\ OwedAfter(None, IF r.stale = {} THEN {} ELSE Posts \ {c})
     /\ UNCHANGED <<active, admitted, claimOpen, stored, alerts, socket, got, moves>>

\* RuntimeError, "Set changed size during iteration": the client gets a 500 for
\* a message that is stored, and the rest of the connections nothing.
BreakRelay(c) ==
  LET r == post[c]
  IN /\ r.phase = "relay" /\ SetChanged(c)
     /\ post' = [post EXCEPT ![c] = NoPost]
     /\ UNCHANGED <<active, admitted, claimOpen, stored, alerts, socket, conns, got, owed, moves>>

ChatNext ==
  \/ \E u \in Parties \cup Helpers : LoseAccess(u) \/ \E c \in Posts : LoadPost(c, u)
  \/ EndClaim
  \/ \E s \in Sockets : \/ \E u \in Parties \cup Helpers : GiveSocketTicket(s, u)
                        \/ SpendSocketTicket(s) \/ LapseSocketTicket(s) \/ ConnectSocket(s)
                        \/ \E noticed \in BOOLEAN : DisconnectSocket(s, noticed)
  \/ \E c \in Posts : CommitPost(c) \/ StartRelay(c) \/ EndRelay(c) \/ BreakRelay(c) \/ \E s \in Sockets : RelayTo(c, s)

ChatSpec == ChatInit /\ [][ChatNext]_chatVars

-----------------------------------------------------------------------------
\* Whoever is connected when the relay of a message begins has been sent it once
\* that is over, unless the connection broke or another request changed the set on
\* the way; and each party has one notification for each message of others.
SocketsInformed ==
  /\ \A m \in DOMAIN stored :
       (\A c \in Posts : m \notin Relayed(c)) => \A s \in owed[m] : m \in got[s]
  /\ \A p \in Parties : alerts[p] = Cardinality({m \in DOMAIN stored : stored[m] # p})
=============================================================================
