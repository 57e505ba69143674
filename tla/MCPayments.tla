----------------------------- MODULE MCPayments -----------------------------
(* Payments on small instances *)
EXTENDS Payments, TLC

TwoBills == <<1, 2>>

(* payment ids, handlers and staff are interchangeable: every one is only
   compared for equality *)
Interchangeable ==
    Permutations(Payments) \cup Permutations(Handlers) \cup Permutations(Staff)
==============================================================================
