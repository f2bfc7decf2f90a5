---------------------------- MODULE ReturnLedger ----------------------------
(***************************************************************************)
(* What the bureau promises about handing a found thing back, without      *)
(* tokens, locks, requests or accounts: a claim is signed by its claimant  *)
(* and by the holder, and the signature that completes the pair hands the  *)
(* thing over and takes its publication off, in the same instant.  Nothing *)
(* is signed for a thing that is not on offer, no signature is withdrawn   *)
(* and no return is undone.                                                *)
(***************************************************************************)
CONSTANTS Claims, Things, ThingOf(_)

VARIABLES
  signed,    \* for each claim, the sides that have confirmed the handover
  returned,  \* the claims whose thing has been handed over
  offered    \* the things whose publication is active

Sides == {"claimant", "holder"}

LedgerInit ==
  /\ signed = [c \in Claims |-> {}]
  /\ returned = {}
  /\ offered = {}

Sign(c, side) ==
  /\ c \notin returned
  /\ ThingOf(c) \in offered
  /\ signed' = [signed EXCEPT ![c] = @ \cup {side}]
  /\ IF signed'[c] = Sides
     THEN /\ returned' = returned \cup {c}
          /\ offered' = offered \ {ThingOf(c)}
     ELSE UNCHANGED <<returned, offered>>

\* Owners and moderators publish and withdraw things as they like.
Offer ==
  /\ offered' \subseteq Things
  /\ UNCHANGED <<signed, returned>>

LedgerNext ==
  \/ \E c \in Claims, side \in Sides : Sign(c, side)
  \/ Offer

LedgerSpec == LedgerInit /\ [][LedgerNext]_<<signed, returned, offered>>
=============================================================================
