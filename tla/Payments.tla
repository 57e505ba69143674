------------------------------ MODULE Payments ------------------------------
(***************************************************************************)
(* How rent money is banked (services/payment_service.py): money recorded  *)
(* by staff, cash held for a second signature, M-Pesa pushes resolved by   *)
(* Safaricom's callback, by a client that polls, or by the reconciler that *)
(* runs every fifteen minutes (tasks/scheduled.py).                        *)
(*                                                                         *)
(* A request or task is a session of READ COMMITTED PostgreSQL: it loads   *)
(* the payment, awaits Daraja, loads the open invoices, and flushes        *)
(* absolute values computed from what it loaded.  Nothing locks the rows   *)
(* before that flush, so a request is modelled by a load, a resolution and *)
(* a commit, with other requests in between.  From the first flush of      *)
(* _confirm to its commit the rows are locked by the update itself, which  *)
(* is why that part is one step.                                           *)
(***************************************************************************)
EXTENDS InvoiceBook, FiniteSets, Sums

CONSTANTS
    Payments,       \* payment ids; an STK push of p has checkout id p, and the
                    \* M-Pesa receipt number of the money it collects is p too
    Handlers,       \* web requests that can be in flight at a time
    Staff,          \* users who may record payments
    Approvers,      \* the staff who hold payment:approve
    Methods,        \* the channels of record_cash_payment
    Amounts,        \* amounts that can be paid
    CashThreshold,  \* Organization.cash_dual_approval_threshold
    Total,          \* Total[i]: what invoice i of the tenancy asks for
    PastDue,        \* the invoices whose due date has passed
    QueryLags,      \* may Daraja's status query still say "processing" (1037)
                    \* after the customer's answer was called back?
    Overlap,        \* may requests and the reconciler run at the same time?
    None

Count == Cardinality(DOMAIN Total)
Invoices == 1 .. Count

ASSUME NoneAssumption == None \notin Payments \cup Staff
ASSUME PeopleAssumption == Approvers \subseteq Staff
ASSUME MethodsAssumption == Methods \subseteq {"CASH", "MPESA", "BANK_TRANSFER"}
ASSUME AmountsAssumption == Amounts \subseteq Nat \ {0} /\ CashThreshold \in Nat
ASSUME InvoicesAssumption ==
    /\ Count \in Nat
    /\ Total \in [Invoices -> Nat \ {0}]
    /\ PastDue \subseteq Invoices
ASSUME SwitchesAssumption == QueryLags \in BOOLEAN /\ Overlap \in BOOLEAN

VARIABLES
    payment,   \* the committed rows of table payments
    receipts,  \* payments with a row in table receipts (payment_id is unique)
    invoice,   \* the committed rows of table invoices, of one tenancy
    daraja,    \* Safaricom's side of each STK push
    claimed,   \* checkout ids with a live mpesa:callback:* key in Redis
    age,       \* 0: younger than 15 minutes, 1: older, 2: older than an hour
    req,       \* the request each handler is serving
    sweep      \* the reconciler

vars == <<payment, receipts, invoice, daraja, claimed, age, req, sweep>>

-----------------------------------------------------------------------------
(* Rows and requests *)

PaymentStatus == {"PENDING", "CONFIRMED", "FAILED", "CANCELLED"}

(* "ABSENT": no row was committed under this id *)
PaymentRow ==
    [status    : PaymentStatus \cup {"ABSENT"},
     method    : {"CASH", "MPESA", "BANK_TRANSFER"},
     amount    : Nat,
     recorder  : Staff \cup {None},
     held      : BOOLEAN,            \* requires_approval
     approver  : Staff \cup {None},  \* approved_by_id
     receiptNo : Payments \cup {None},  \* mpesa_receipt
     pushed    : BOOLEAN]            \* mpesa_checkout_request_id is set

NoPayment ==
    [status |-> "ABSENT", method |-> "MPESA", amount |-> 0, recorder |-> None,
     held |-> FALSE, approver |-> None, receiptNo |-> None, pushed |-> FALSE]

Request ==
    [op    : {"none", "record", "stk", "callback", "poll", "approve", "reject"},
     at    : {"idle", "loaded", "ready"},
     pay   : Payments \cup {None},
     was   : PaymentRow,              \* the payment as loaded
     is    : PaymentRow,              \* the payment in the session
     books : [Invoices -> InvoiceRow]] \* the invoices as loaded by _allocate

(* ResultCode of query_status; "" stands for an answer without one *)
Codes == {"0", "1", "1032", "1037", ""}

OpeningBooks ==
    [i \in Invoices |->
        [total |-> Total[i], paid |-> 0,
         status |-> IF i \in PastDue THEN "OVERDUE" ELSE "PENDING"]]

Idle == [op |-> "none", at |-> "idle", pay |-> None, was |-> NoPayment,
         is |-> NoPayment, books |-> OpeningBooks]

Asleep == [at |-> "idle", due |-> {}, late |-> {},
           answer |-> [p \in Payments |-> ""]]

TypeOK ==
    /\ payment \in [Payments -> PaymentRow]
    /\ receipts \subseteq Payments
    /\ invoice \in [Invoices -> InvoiceRow]
    /\ daraja \in [Payments -> {"none", "prompted", "paid", "cancelled", "failed"}]
    /\ claimed \subseteq Payments
    /\ age \in [Payments -> 0 .. 2]
    /\ req \in [Handlers -> Request]
    /\ sweep \in [at : {"idle", "loaded", "ready"}, due : SUBSET Payments,
                  late : SUBSET Payments,
                  answer : [Payments -> Codes]]

Init ==
    /\ payment = [p \in Payments |-> NoPayment]
    /\ receipts = {}
    /\ invoice = OpeningBooks
    /\ daraja = [p \in Payments |-> "none"]
    /\ claimed = {}
    /\ age = [p \in Payments |-> 0]
    /\ req = [h \in Handlers |-> Idle]
    /\ sweep = Asleep

(* a request may start on an idle handler; when Overlap is FALSE, only when
   nothing else is running *)
MayStart(h) ==
    /\ req[h].at = "idle"
    /\ Overlap \/ (sweep.at = "idle" /\ \A g \in Handlers : req[g].at = "idle")

(* an id that no row, no request and no push has used: ids are random uuids *)
Fresh(p) ==
    /\ payment[p].status = "ABSENT"
    /\ daraja[p] = "none"
    /\ \A h \in Handlers : req[h].pay # p

Tables == <<payment, receipts, invoice>>
Outside == <<daraja, claimed, age>>

-----------------------------------------------------------------------------
(* What Daraja answers *)

Truth(p) ==
    CASE daraja[p] = "paid" -> "0"
      [] daraja[p] = "cancelled" -> "1032"
      [] daraja[p] = "failed" -> "1"
      [] OTHER -> "1037"

QueryAnswers(p) == {Truth(p), ""} \cup (IF QueryLags THEN {"1037"} ELSE {})

(* the status a refusal gives the payment *)
Refused(code) == IF code = "1032" THEN "CANCELLED" ELSE "FAILED"

-----------------------------------------------------------------------------
(* Requests: how each starts *)

(* _needs_dual_approval *)
NeedsApproval(method, amount, recorder) ==
    /\ method = "CASH"
    /\ amount > CashThreshold
    /\ Approvers \ {recorder} # {}

(* record_cash_payment: the row is inserted in the session; money that needs no
   second signature is confirmed by the same request *)
RecordBegin(h, p, method, amount, recorder, reference) ==
    LET held == NeedsApproval(method, amount, recorder)
        row == [status |-> IF held THEN "PENDING" ELSE "CONFIRMED",
                method |-> method, amount |-> amount, recorder |-> recorder,
                held |-> held, approver |-> None,
                receiptNo |-> IF method = "MPESA" THEN reference ELSE None,
                pushed |-> FALSE]
    IN  /\ MayStart(h)
        /\ Fresh(p)
        /\ req' = [req EXCEPT ![h] = [op |-> "record", at |-> "ready", pay |-> p,
                                      was |-> NoPayment, is |-> row,
                                      books |-> invoice]]
        /\ UNCHANGED <<Tables, Outside, sweep>>

(* initiate_stk_push up to Daraja's answer: the push reaches the customer
   before the row is committed, or Daraja refuses it and the row is FAILED *)
StkBegin(h, p, amount, recorder) ==
    LET row == [NoPayment EXCEPT !.status = "PENDING", !.amount = amount,
                                 !.recorder = recorder]
        send(is) == req' = [req EXCEPT ![h] =
                        [op |-> "stk", at |-> "ready", pay |-> p,
                         was |-> NoPayment, is |-> is, books |-> invoice]]
    IN  /\ MayStart(h)
        /\ Fresh(p)
        /\ \/ /\ daraja' = [daraja EXCEPT ![p] = "prompted"]
              /\ send([row EXCEPT !.pushed = TRUE])
           \/ /\ send([row EXCEPT !.status = "FAILED"])
              /\ UNCHANGED daraja
        /\ UNCHANGED <<Tables, claimed, age, sweep>>

(* the duplicate check of handle_callback, on what is committed now *)
NumberTaken(p) == \E q \in Payments \ {p} : payment[q].receiptNo = p

(* claim_callback: a delivery whose key is still live is dropped *)
Claim(p) == p \notin claimed /\ claimed' = claimed \cup {p}

NeedsOutcomeEvenIfConfirmed(row) == row.pushed   \* mutant: no early return

(* a delivery that finds no row, or a confirmed one, returns *)
NeedsOutcome(row) == row.pushed /\ row.status # "CONFIRMED"

(* handle_callback up to the first await on Daraja.  A delivery that returns
   here keeps its claim. *)
CallbackBegin(h, p) ==
    LET row == payment[p]
        refused == [row EXCEPT !.status =
                        IF daraja[p] = "cancelled" THEN "CANCELLED" ELSE "FAILED"]
        start(at, is) == [op |-> "callback", at |-> at, pay |-> p, was |-> row,
                          is |-> is, books |-> OpeningBooks]
    IN  /\ MayStart(h)
        /\ daraja[p] \in {"paid", "cancelled", "failed"}
        /\ Claim(p)
        /\ req' = [req EXCEPT ![h] =
                IF ~NeedsOutcome(row) THEN Idle
                ELSE IF daraja[p] # "paid" \/ NumberTaken(p)
                     THEN start("ready", refused)
                     ELSE start("loaded", row)]
        /\ UNCHANGED <<Tables, daraja, age, sweep>>

(* poll_status: only a pending push is asked about *)
PollBegin(h, p) ==
    /\ MayStart(h)
    /\ payment[p].status = "PENDING" /\ payment[p].pushed
    /\ req' = [req EXCEPT ![h] = [op |-> "poll", at |-> "loaded", pay |-> p,
                                  was |-> payment[p], is |-> payment[p],
                                  books |-> OpeningBooks]]
    /\ UNCHANGED <<Tables, Outside, sweep>>

ApprovableByRecorder(row, user) ==   \* mutant: anybody may sign
    row.held /\ row.status = "PENDING"

(* _assert_approvable *)
Approvable(row, user) ==
    /\ row.held
    /\ row.status = "PENDING"
    /\ row.recorder # user

(* approve_payment and reject_payment up to their next await *)
ApproveBegin(h, p, user) ==
    /\ MayStart(h)
    /\ Approvable(payment[p], user)
    /\ req' = [req EXCEPT ![h] =
            [op |-> "approve", at |-> "loaded", pay |-> p, was |-> payment[p],
             is |-> [payment[p] EXCEPT !.held = FALSE, !.approver = user],
             books |-> OpeningBooks]]
    /\ UNCHANGED <<Tables, Outside, sweep>>

RejectBegin(h, p, user) ==
    /\ MayStart(h)
    /\ Approvable(payment[p], user)
    /\ req' = [req EXCEPT ![h] =
            [op |-> "reject", at |-> "ready", pay |-> p, was |-> payment[p],
             is |-> [payment[p] EXCEPT !.held = FALSE, !.approver = user,
                                       !.status = "CANCELLED"],
             books |-> OpeningBooks]]
    /\ UNCHANGED <<Tables, Outside, sweep>>

-----------------------------------------------------------------------------
(* Requests: what they decide after their await, and the commit *)

(* The answer to the status query, then _allocate's read of the invoices.  A
   callback takes an answer without a ResultCode for success; a poll takes it,
   and "still processing", for no news and returns. *)
Resolve(h) ==
    LET p == req[h].pay
        confirmed == [req[h] EXCEPT !.at = "ready", !.books = invoice,
                                    !.is.status = "CONFIRMED"]
        refused(code) == [req[h] EXCEPT !.at = "ready", !.is.status = Refused(code)]
    IN  /\ req[h].at = "loaded"
        /\ \/ /\ req[h].op = "approve"
              /\ req' = [req EXCEPT ![h] = confirmed]
           \/ /\ req[h].op = "callback"
              /\ \E code \in QueryAnswers(p) :
                    req' = [req EXCEPT ![h] =
                        IF code \in {"0", ""}
                        THEN [confirmed EXCEPT !.is.receiptNo = p]
                        ELSE [refused(code) EXCEPT !.is.status = "FAILED"]]
           \/ /\ req[h].op = "poll"
              /\ \E code \in QueryAnswers(p) :
                    req' = [req EXCEPT ![h] =
                        CASE code = "0" -> confirmed
                          [] code \in {"1", "1032"} -> refused(code)
                          [] OTHER -> Idle]
        /\ UNCHANGED <<Tables, Outside, sweep>>

(* the row after the session's changed columns are flushed over it *)
FlushedPayment(was, is, now) ==
    [status    |-> Flushed(was.status, is.status, now.status),
     method    |-> Flushed(was.method, is.method, now.method),
     amount    |-> Flushed(was.amount, is.amount, now.amount),
     recorder  |-> Flushed(was.recorder, is.recorder, now.recorder),
     held      |-> Flushed(was.held, is.held, now.held),
     approver  |-> Flushed(was.approver, is.approver, now.approver),
     receiptNo |-> Flushed(was.receiptNo, is.receiptNo, now.receiptNo),
     pushed    |-> Flushed(was.pushed, is.pushed, now.pushed)]

(* mpesa_receipt is unique: the flush fails and the transaction rolls back *)
Collides(h) ==
    /\ req[h].is.receiptNo # req[h].was.receiptNo
    /\ \E q \in Payments \ {req[h].pay} : payment[q].receiptNo = req[h].is.receiptNo

Rollback(h) ==
    /\ req[h].at = "ready" /\ Collides(h)
    /\ req' = [req EXCEPT ![h] = Idle]
    /\ UNCHANGED <<Tables, Outside, sweep>>

(* _allocate and its flush *)
Settle(h) ==
    \E rem \in Spreads(req[h].books, req[h].is.amount, Count) :
        invoice' = [i \in Invoices |->
            FlushedInvoice(req[h].books[i],
                           Credited(req[h].books[i], rem[i], i \in PastDue),
                           invoice[i])]

(* _confirm, issue_receipt included, which returns the receipt a payment
   already has; then the request's commit *)
CommitConfirmed(h) ==
    /\ req[h].at = "ready" /\ ~Collides(h)
    /\ req[h].is.status = "CONFIRMED"
    /\ payment' = [payment EXCEPT ![req[h].pay] =
                        FlushedPayment(req[h].was, req[h].is, @)]
    /\ Settle(h)
    /\ receipts' = receipts \cup {req[h].pay}
    /\ req' = [req EXCEPT ![h] = Idle]
    /\ UNCHANGED <<Outside, sweep>>

(* a commit that banks nothing: held, pushed, refused, rejected *)
CommitOther(h) ==
    /\ req[h].at = "ready" /\ ~Collides(h)
    /\ req[h].is.status # "CONFIRMED"
    /\ payment' = [payment EXCEPT ![req[h].pay] =
                        FlushedPayment(req[h].was, req[h].is, @)]
    /\ req' = [req EXCEPT ![h] = Idle]
    /\ UNCHANGED <<receipts, invoice, Outside, sweep>>

(* The process dies, the connection drops, or Daraja cannot be reached and the
   exception ends the request: nothing was committed, a claim stays. *)
Abort(h) ==
    /\ req[h].at # "idle"
    /\ req' = [req EXCEPT ![h] = Idle]
    /\ UNCHANGED <<Tables, Outside, sweep>>

-----------------------------------------------------------------------------
(* reconcile_pending_payments *)

OverdueInAnyStatus(p) == payment[p].pushed /\ age[p] >= 1   \* mutant: no filter

(* the query: pending pushes older than fifteen minutes *)
Overdue(p) ==
    /\ payment[p].status = "PENDING" /\ payment[p].pushed
    /\ age[p] >= 1

SweepBegin ==
    /\ sweep.at = "idle"
    /\ Overlap \/ \A h \in Handlers : req[h].at = "idle"
    /\ \E p \in Payments : Overdue(p)
    /\ sweep' = [Asleep EXCEPT !.at = "loaded",
                               !.due = {p \in Payments : Overdue(p)},
                               !.late = {p \in Payments : Overdue(p) /\ age[p] = 2}]
    /\ UNCHANGED <<Tables, Outside, req>>

(* query_status for every payment of the batch *)
SweepAsk ==
    /\ sweep.at = "loaded"
    /\ \E answer \in [Payments -> Codes] :
        /\ \A p \in Payments :
                answer[p] \in (IF p \in sweep.due THEN QueryAnswers(p) ELSE {""})
        /\ sweep' = [sweep EXCEPT !.at = "ready", !.answer = answer]
    /\ UNCHANGED <<Tables, Outside, req>>

VerdictBanking(p, code) ==   \* mutant: success sets the status, without _confirm
    IF code = "0" THEN "CONFIRMED"
    ELSE IF code \in {"1", "1032"} THEN Refused(code)
    ELSE IF p \in sweep.late THEN "FAILED" ELSE "PENDING"

VerdictPatient(p, code) ==   \* mutant: nothing is written off for its age
    IF code \in {"1", "1032"} THEN Refused(code) ELSE "PENDING"

(* What an answer makes of the payment: a refusal is copied, and any other
   answer, success included, writes off what is an hour old. *)
Verdict(p, code) ==
    IF code \in {"1", "1032"} THEN Refused(code)
    ELSE IF p \in sweep.late THEN "FAILED" ELSE "PENDING"

(* one commit for the whole batch, which writes the statuses it changed *)
SweepCommit ==
    /\ sweep.at = "ready"
    /\ payment' = [p \in Payments |->
            IF p \in sweep.due
            THEN [payment[p] EXCEPT !.status =
                        Flushed("PENDING", Verdict(p, sweep.answer[p]), @)]
            ELSE payment[p]]
    /\ sweep' = Asleep
    /\ UNCHANGED <<receipts, invoice, Outside, req>>

SweepAbort ==
    /\ sweep.at # "idle"
    /\ sweep' = Asleep
    /\ UNCHANGED <<Tables, Outside, req>>

-----------------------------------------------------------------------------
(* The world outside *)

(* the customer enters the PIN, dismisses the prompt, or the push fails *)
CustomerAnswers(p) ==
    /\ daraja[p] = "prompted"
    /\ \E answer \in {"paid", "cancelled", "failed"} :
            daraja' = [daraja EXCEPT ![p] = answer]
    /\ UNCHANGED <<Tables, claimed, age, req, sweep>>

(* The claim lives 300 seconds, longer than a callback may run: its awaits on
   Daraja time out after 30. *)
ClaimExpires(p) ==
    /\ p \in claimed
    /\ \A h \in Handlers : req[h].op = "callback" => req[h].pay # p
    /\ claimed' = claimed \ {p}
    /\ UNCHANGED <<Tables, daraja, age, req, sweep>>

(* age only matters while the push is pending *)
Ages(p) ==
    /\ payment[p].status = "PENDING" /\ payment[p].pushed
    /\ age[p] < 2
    /\ age' = [age EXCEPT ![p] = @ + 1]
    /\ UNCHANGED <<Tables, daraja, claimed, req, sweep>>

-----------------------------------------------------------------------------

(* the receipt numbers a tenant can quote: those of money Daraja collected *)
QuotableNumbers == {None} \cup {p \in Payments : daraja[p] = "paid"}

Starts(h) ==
    \E p \in Payments :
        \/ \E method \in Methods, amount \in Amounts, u \in Staff,
              number \in QuotableNumbers :
                RecordBegin(h, p, method, amount, u, number)
        \/ \E amount \in Amounts, u \in Staff : StkBegin(h, p, amount, u)
        \/ CallbackBegin(h, p)
        \/ PollBegin(h, p)
        \/ \E u \in Approvers : ApproveBegin(h, p, u) \/ RejectBegin(h, p, u)

Finishes(h) == Resolve(h) \/ CommitConfirmed(h) \/ CommitOther(h) \/ Rollback(h)

Sweeps == SweepBegin \/ SweepAsk \/ SweepCommit

Next ==
    \/ \E h \in Handlers : Starts(h) \/ Finishes(h) \/ Abort(h)
    \/ Sweeps \/ SweepAbort
    \/ \E p \in Payments : CustomerAnswers(p) \/ ClaimExpires(p) \/ Ages(p)

Spec == Init /\ [][Next]_vars

(* Celery beat runs the reconciler every fifteen minutes and redelivers a task
   whose worker died (acks_late), so a sweep that keeps being due is not
   interrupted for ever; this also takes Daraja to answer a whole batch now and
   then, since one query that raises ends the sweep.  Time passes; and a request
   ends, because every await in it times out.  Nothing is assumed of customers,
   staff or callbacks. *)
Fairness ==
    /\ SF_vars(SweepBegin) /\ SF_vars(SweepAsk) /\ SF_vars(SweepCommit)
    /\ \A p \in Payments : WF_vars(Ages(p))
    /\ \A h \in Handlers : WF_vars(Finishes(h) \/ Abort(h))

FairSpec == Spec /\ Fairness

-----------------------------------------------------------------------------
(* Properties, however requests overlap *)

(* A payment the books call confirmed has the receipt the tenant was promised:
   whichever channel confirmed it went through _confirm. *)
BankedHasReceipt ==
    \A p \in Payments : payment[p].status = "CONFIRMED" => p \in receipts

(* Cash over the threshold is receipted only after somebody else who may
   approve it signed for it (models/billing.py: one person must not be able to
   both take the money and declare it banked). *)
SecondPersonSigned ==
    \A p \in receipts :
        NeedsApproval(payment[p].method, payment[p].amount, payment[p].recorder)
        => payment[p].approver \in Approvers \ {payment[p].recorder}

(* However confirmations interleave on the same invoices, an invoice is never
   credited with more than it asks for: _allocate writes the sum it computed,
   so a race loses a credit and never adds one too many. *)
NeverOverCredited == \A i \in Invoices : invoice[i].paid <= invoice[i].total

(* The Redis key keeps deliveries of one callback apart: at most one of them is
   being served at a time (mpesa_service.py: a Redis lock makes concurrent
   deliveries of the same callback a no-op). *)
OneCallbackAtATime ==
    \A g, h \in Handlers :
        req[g].op = "callback" /\ req[h].op = "callback" /\ req[g].pay = req[h].pay
        => g = h

(* A confirmed payment loses that status only to a writer that had loaded it
   before it was confirmed: nobody who sees CONFIRMED overwrites it. *)
OnlyStaleWritersUnbank ==
    [][\A p \in Payments :
        payment[p].status = "CONFIRMED" /\ payment'[p].status # "CONFIRMED" =>
            \/ \E h \in Handlers : req[h].pay = p /\ req[h].was.status # "CONFIRMED"
            \/ p \in sweep.due]_vars

-----------------------------------------------------------------------------
(* Properties of requests that do not overlap *)

TotalDebt == SumOver(Total, Invoices)

Standing(row) ==
    CASE row.status = "ABSENT" -> "unknown"
      [] row.status = "PENDING" -> "open"
      [] row.status = "CONFIRMED" -> "banked"
      [] OTHER -> "refused"

(* The promise of RentReceived: payments are banked once and for good, and the
   credit on the invoices moves with them and by their amount. *)
Promise == INSTANCE RentReceived WITH
    Debt <- TotalDebt,
    standing <- [p \in Payments |-> Standing(payment[p])],
    credit <- SumOver([i \in Invoices |-> invoice[i].paid], Invoices)

KeepsPromise == Promise!Spec

(* Rent is settled oldest debt first: an invoice with a credit has no older
   invoice still owing (invoice_service.py, open_invoices_for_tenancy). *)
OldestDebtFirst ==
    \A i, j \in Invoices : i < j /\ invoice[j].paid > 0 => Balance(invoice[i]) <= 0

(* A push does not stay pending for ever, whatever is lost on the way: the
   callback, a poll, or the reconciler ends it. *)
PendingEnds ==
    \A p \in Payments :
        payment[p].status = "PENDING" /\ payment[p].pushed
        ~> payment[p].status # "PENDING"

-----------------------------------------------------------------------------
(* Statements of the repository that the code does not keep *)

(* celery_app.py: the reconciler recovers payments whose callback never
   arrived.  So it must not write off a payment for which Safaricom has just
   answered it that the customer paid. *)
PaidIsNotWrittenOff ==
    [][\A p \in sweep.due :
        /\ sweep.at = "ready" /\ sweep.answer[p] = "0"
        /\ payment[p].status = "PENDING"
        => payment'[p].status # "FAILED"]_vars

(* models/billing.py, docs/data-model.md: the M-Pesa receipt number is unique,
   so the same money can never be banked twice.  The money collected by push p
   is banked by p itself and by whatever row carries its number. *)
SameMoneyBankedOnce ==
    \A p \in Payments :
        Cardinality({q \in Payments :
            /\ payment[q].status = "CONFIRMED"
            /\ payment[q].receiptNo = p \/ (q = p /\ payment[q].pushed)}) <= 1
==============================================================================
