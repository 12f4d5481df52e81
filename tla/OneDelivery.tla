----------------------------- MODULE OneDelivery -----------------------------
(***************************************************************************)
(* What the ledgers of outbound sends promise about one message, or one    *)
(* login link: one attempt at a time is under way, a new one begins only   *)
(* when the last was definitely refused, and an attempt whose outcome      *)
(* nobody knows ends in a review that no automatic or manual send leaves   *)
(* again.                                                                  *)
(***************************************************************************)

VARIABLES
    outcome,   \* what the office knows of the send
    accepted   \* whether the provider has taken it

vars == <<outcome, accepted>>

Init == outcome = "open" /\ accepted = FALSE

Begin == outcome = "open" /\ outcome' = "sending" /\ UNCHANGED accepted

\* The provider takes the message; the caller may have been given up on.
Accept ==
    /\ outcome \in {"sending", "review"}
    /\ ~accepted
    /\ accepted' = TRUE
    /\ UNCHANGED outcome

Refuse == outcome = "sending" /\ ~accepted /\ outcome' = "open" /\ UNCHANGED accepted

Confirm == outcome = "sending" /\ accepted /\ outcome' = "sent" /\ UNCHANGED accepted

Suspect == outcome = "sending" /\ outcome' = "review" /\ UNCHANGED accepted

Next == Begin \/ Accept \/ Refuse \/ Confirm \/ Suspect

Spec == Init /\ [][Next]_vars

\* A message the provider has taken is never open to another attempt, and one
\* shown as sent has been taken.
NeverTwice ==
    /\ outcome \in {"open", "sending", "sent", "review"}
    /\ accepted \in BOOLEAN
    /\ outcome = "open" => ~accepted
    /\ outcome = "sent" => accepted
=============================================================================
