------------------------------ MODULE Support ------------------------------
(***************************************************************************)
(* Support tickets: a user or a guest opens one, its owner and the staff   *)
(* write into it, the staff change its state.  A handler loads the ticket  *)
(* and commits later; a commit writes only the columns that it changed     *)
(* from what it had loaded.                                                *)
(***************************************************************************)
EXTENDS Naturals, FiniteSets, Sequences, Nothing

CONSTANTS
  Tickets, Writers,  \* tickets, and requests that may be in progress together
  PatchStatuses,     \* bound: what the staff set: some of TicketStatuses
  MaxMessages        \* bound: messages of a ticket

ASSUME TicketsAssumption ==
  None \notin [owner : {"user", "guest", "staff"}, answered : BOOLEAN, resolved : BOOLEAN,
               status : {"open", "waiting_user", "in_progress", "resolved", "closed"} \cup PatchStatuses]

VARIABLES
  filed,     \* support_tickets
  thread,    \* support_messages of each ticket, and how the ticket was when they were written
  writer,    \* requests in progress
  replies,   \* notifications that an answer has come, for each ticket
  byHand,    \* history: tickets the staff have set to waiting_user themselves
  overtaken  \* history: requests whose ticket another one has changed since

supportVars == <<filed, thread, writer, replies, byHand, overtaken>>

TicketStatuses == {"open", "waiting_user", "in_progress", "resolved", "closed"}
Message(by, internal, seen) == [by |-> by, internal |-> internal, seen |-> seen]

SupportInit ==
  /\ filed = [t \in Tickets |-> None] /\ thread = [t \in Tickets |-> <<>>]
  /\ writer = [w \in Writers |-> [op |-> "none"]]
  /\ replies = [t \in Tickets |-> 0]
  /\ byHand = {} /\ overtaken = {}

\* The owner is the staff member who answers when they wrote it themselves.
OpenTicket(t, owner) ==
  /\ filed[t] = None
  /\ filed' = [filed EXCEPT ![t] = [owner |-> owner, status |-> "open", answered |-> FALSE, resolved |-> FALSE]]
  /\ thread' = [thread EXCEPT ![t] = <<Message("user", FALSE, "taken")>>]
  /\ UNCHANGED <<writer, replies, byHand, overtaken>>

Loading(w, load) == writer[w].op = "none" /\ writer' = [writer EXCEPT ![w] = load]

\* A guest has no session: nobody could read an answer in the ticket.
TakesMessages(ticket, internal) == ticket.status # "closed" /\ (ticket.owner = "guest" => internal)

LoadMessage(w, t, by, internal) ==
  /\ filed[t] # None /\ TakesMessages(filed[t], internal)
  /\ by = "user" => ~internal /\ filed[t].owner = "user"
  /\ Loading(w, [op |-> by, ticket |-> t, internal |-> internal, seen |-> filed[t].status])
  /\ UNCHANGED <<filed, thread, replies, byHand, overtaken>>

Others(w, t) == {v \in Writers : v # w /\ writer[v].op # "none" /\ writer[v].ticket = t}
Leaves(w) == writer' = [writer EXCEPT ![w] = [op |-> "none"]]
Changing(w, t, changed) ==
  overtaken' = IF changed THEN (overtaken \cup Others(w, t)) \ {w} ELSE overtaken \ {w}

\* Mutant of StatusAfter: the answer of a user leaves the ticket waiting for them.
StatusAfterStaff(by, internal, status) ==
  IF by = "staff" /\ ~internal THEN "waiting_user" ELSE status
StatusAfter(by, internal, status) ==
  CASE by = "staff" /\ ~internal -> "waiting_user"
    [] by = "user" /\ status = "waiting_user" -> "in_progress"
    [] OTHER -> status

\* A column that is as it was loaded is not written.
Written(loaded, new, now) == IF new = loaded THEN now ELSE new

CommitMessage(w) ==
  LET r == writer[w]   t == r.ticket
      status == Written(r.seen, StatusAfter(r.op, r.internal, r.seen), filed[t].status)
  IN /\ r.op \in {"user", "staff"} /\ Len(thread[t]) < MaxMessages
     /\ filed' = [filed EXCEPT ![t].status = status,
                               ![t].answered = @ \/ r.op = "staff"]
     /\ thread' = [thread EXCEPT ![t] = Append(@, Message(r.op, r.internal,
                     CASE w \in overtaken -> "overtaken" [] r.seen = "closed" -> "closed" [] OTHER -> "taken"))]
     /\ replies' = IF r.op = "staff" /\ ~r.internal /\ filed[t].owner = "user"
                     THEN [replies EXCEPT ![t] = @ + 1] ELSE replies
     /\ byHand' = IF status = filed[t].status THEN byHand ELSE byHand \ {t}
     /\ Changing(w, t, TRUE) /\ Leaves(w)

LoadUpdate(w, t, status) ==
  /\ filed[t] # None
  /\ Loading(w, [op |-> "update", ticket |-> t, status |-> status, seen |-> filed[t].status])
  /\ UNCHANGED <<filed, thread, replies, byHand, overtaken>>

Settles(status) == status \in {"resolved", "closed"}

\* PATCH with any status; priority and assignment change nothing here.
CommitUpdate(w) ==
  LET r == writer[w]   t == r.ticket
  IN /\ r.op = "update"
     /\ filed' = [filed EXCEPT ![t].status = Written(r.seen, r.status, @),
                               ![t].resolved = @ \/ Settles(r.status)]
     /\ byHand' = IF r.status = "waiting_user" THEN byHand \cup {t} ELSE byHand
     /\ Changing(w, t, TRUE) /\ Leaves(w)
     /\ UNCHANGED <<thread, replies>>

SupportNext ==
  \/ \E t \in Tickets, owner \in {"user", "guest", "staff"} : OpenTicket(t, owner)
  \/ \E w \in Writers :
       \/ \E t \in Tickets, by \in {"user", "staff"}, i \in BOOLEAN : LoadMessage(w, t, by, i)
       \/ \E t \in Tickets, s \in PatchStatuses : LoadUpdate(w, t, s)
       \/ CommitMessage(w) \/ CommitUpdate(w)

SupportSpec == SupportInit /\ [][SupportNext]_supportVars

-----------------------------------------------------------------------------
\* The messages of a ticket that its owner reads.
Public(t) == {i \in DOMAIN thread[t] : ~thread[t][i].internal}
LastPublic(t) == CHOOSE i \in Public(t) : \A j \in Public(t) : j <= i

\* A ticket waits for its owner only while the last word is the staff's, or the
\* staff said so, or that word was written while another request changed the
\* ticket; what was resolved has its date; no message answers a ticket that its
\* writer knew to be closed; and the owner has a notification for each answer.
TicketsInOrder ==
  \A t \in Tickets : filed[t] # None =>
    LET last == thread[t][LastPublic(t)]
    IN /\ filed[t].status = "waiting_user" =>
            last.by = "staff" \/ last.seen = "overtaken" \/ t \in byHand
       /\ filed[t].status \in {"resolved", "closed"} => filed[t].resolved
       /\ \A i \in DOMAIN thread[t] : thread[t][i].seen # "closed"
       /\ filed[t].owner = "user" => replies[t] = Cardinality({i \in Public(t) : thread[t][i].by = "staff"})
=============================================================================
