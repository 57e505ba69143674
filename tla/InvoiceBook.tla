----------------------------- MODULE InvoiceBook -----------------------------
(***************************************************************************)
(* The arithmetic of one tenancy's invoices, without any state: the row of *)
(* models/billing.py Invoice, the status derived from it, the rows a       *)
(* payment may settle, and the loop that spreads a payment over them.      *)
(*                                                                         *)
(* Invoices are numbered in due-date order, the order in which             *)
(* open_invoices_for_tenancy returns them.  Money is counted in whole      *)
(* shillings.                                                              *)
(***************************************************************************)
EXTENDS Integers

Statuses == {"PENDING", "PARTIALLY_PAID", "PAID", "OVERDUE", "CANCELLED"}

InvoiceRow == [total : Nat, paid : Nat, status : Statuses]

(* Invoice.balance *)
Balance(row) == row.total - row.paid

(* recalculate_status, on a day when the due date has passed or not *)
Recalculated(row, pastDue) ==
    IF row.status = "CANCELLED" THEN "CANCELLED"
    ELSE IF row.paid >= row.total /\ row.total > 0 THEN "PAID"
    ELSE IF row.paid > 0 THEN "PARTIALLY_PAID"
    ELSE IF pastDue THEN "OVERDUE" ELSE "PENDING"

(* the filter of open_invoices_for_tenancy: by the status column, not by the
   balance *)
IsOpen(row) == row.status \notin {"PAID", "CANCELLED"}

Least(a, b) == IF a <= b THEN a ELSE b

AppliedUncapped(row, remaining) ==   \* mutant: the whole remainder, not min(...)
    IF IsOpen(row) /\ Balance(row) > 0 THEN remaining ELSE 0

(* what _allocate takes from `remaining` for one invoice *)
Applied(row, remaining) ==
    IF IsOpen(row) /\ Balance(row) > 0 THEN Least(Balance(row), remaining) ELSE 0

SpreadsNewestFirst(rows, amount, n) ==   \* mutant: ORDER BY due_date DESC
    {rem \in [1 .. n + 1 -> 0 .. amount] :
        /\ rem[n] = amount /\ rem[n + 1] = 0
        /\ \A i \in 2 .. n : rem[i - 1] = rem[i] - Applied(rows[i], rem[i])}

(* The values of _allocate's `remaining` before each invoice of rows and after
   the last one: rem[i] before invoice i.  Exactly one function qualifies. *)
Spreads(rows, amount, n) ==
    {rem \in [1 .. n + 1 -> 0 .. amount] :
        /\ rem[1] = amount
        /\ \A i \in 1 .. n : rem[i + 1] = rem[i] - Applied(rows[i], rem[i])}

(* the invoice as _allocate leaves it in memory *)
Credited(row, remaining, pastDue) ==
    LET applied == Applied(row, remaining)
        paid == [row EXCEPT !.paid = @ + applied]
    IN  IF applied = 0 THEN row
        ELSE [paid EXCEPT !.status = Recalculated(paid, pastDue)]

(* A flush writes a column only when the session changed it, and then writes
   the absolute value it computed from what it had read: `was` is the value
   read, `is` the value in memory, `now` the value another transaction may
   have stored in between. *)
Flushed(was, is, now) == IF is = was THEN now ELSE is

FlushedInvoice(was, is, now) ==
    [total  |-> Flushed(was.total, is.total, now.total),
     paid   |-> Flushed(was.paid, is.paid, now.paid),
     status |-> Flushed(was.status, is.status, now.status)]
==============================================================================
