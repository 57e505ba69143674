---------------------------- MODULE RentReceived ----------------------------
(***************************************************************************)
(* What banking a payment promises, whatever channel the money came by: a  *)
(* payment is banked at most once and for good, and exactly then the       *)
(* tenancy's debt shrinks, by the amount paid and never below zero.  A     *)
(* payment that was refused may still be banked later, when late proof of  *)
(* the money arrives.                                                      *)
(***************************************************************************)
EXTENDS Integers

CONSTANTS Payments, Amounts, Debt   \* Debt: what the tenancy owes at first

VARIABLES
    standing,   \* [Payments -> {"unknown", "open", "refused", "banked"}]
    credit      \* how much of Debt has been settled

Init ==
    /\ standing = [p \in Payments |-> "unknown"]
    /\ credit = 0

Open(p) ==
    /\ standing[p] = "unknown"
    /\ standing' = [standing EXCEPT ![p] = "open"]
    /\ UNCHANGED credit

(* one decision may refuse several payments *)
Refuse(P) ==
    /\ \A p \in P : standing[p] # "banked"
    /\ standing' = [p \in Payments |-> IF p \in P THEN "refused" ELSE standing[p]]
    /\ UNCHANGED credit

Bank(p, amount) ==
    /\ standing[p] # "banked"
    /\ standing' = [standing EXCEPT ![p] = "banked"]
    /\ credit' = IF credit + amount <= Debt THEN credit + amount ELSE Debt

Next ==
    \/ \E p \in Payments : Open(p)
    \/ \E P \in SUBSET Payments : Refuse(P)
    \/ \E p \in Payments, amount \in Amounts : Bank(p, amount)

Spec == Init /\ [][Next]_<<standing, credit>>
==============================================================================
