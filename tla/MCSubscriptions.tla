--------------------------- MODULE MCSubscriptions ---------------------------
(* Subscriptions on small instances *)
EXTENDS Subscriptions, TLC

(* every period lasts a day *)
OneDay == [p \in Plans |-> 1]

(* handlers are only compared for equality, and so are plans of one length *)
Interchangeable == Permutations(Handlers) \cup Permutations(Plans)
==============================================================================
