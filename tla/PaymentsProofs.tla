--------------------------- MODULE PaymentsProofs ---------------------------
(***************************************************************************)
(* What Payments guarantees for every number of payments, handlers and     *)
(* invoices.  However requests overlap: the safety properties of the run   *)
(* payments_overlap, from one inductive invariant.  When they do not: that *)
(* the oldest debt is settled first, and that Payments implements          *)
(* RentReceived.                                                           *)
(*                                                                         *)
(* The second part rests on what one allocation does to the books it       *)
(* loaded, and on those books being still the committed ones when the      *)
(* request that loaded them commits.                                       *)
(***************************************************************************)
EXTENDS Payments, SumsProofs

(* The columns no handler changes once the row exists. *)
SameMoney(r, s) ==
    /\ r.method = s.method
    /\ r.amount = s.amount
    /\ r.recorder = s.recorder
    /\ r.pushed = s.pushed

Inserting(r) == r.op \in {"record", "stk"}

(* What holds of a committed row: only an STK push has a checkout id, and a
   payment still held has no signature. *)
RowOK(row) ==
    /\ row.pushed => row.method = "MPESA"
    /\ row.held => row.approver = None
    /\ row.status = "ABSENT" => row = NoPayment

(* A request that inserts works on an id nobody else uses. *)
InsertOK(h) ==
    Inserting(req[h]) =>
        /\ req[h].was = NoPayment
        /\ payment[req[h].pay] = NoPayment
        /\ \A g \in Handlers \ {h} : req[g].pay # req[h].pay
        /\ req[h].is.held => req[h].is.approver = None
        /\ req[h].is.pushed => req[h].is.method = "MPESA"
        /\ req[h].is.status = "CONFIRMED" =>
            ~NeedsApproval(req[h].is.method, req[h].is.amount, req[h].is.recorder)

(* Any other request changes neither the money nor the recorder, and loaded the
   payment before it was confirmed. *)
UpdateOK(h) ==
    req[h].op \in {"callback", "poll", "approve", "reject"} =>
        /\ payment[req[h].pay].status # "ABSENT"
        /\ SameMoney(req[h].was, req[h].is)
        /\ SameMoney(req[h].was, payment[req[h].pay])

(* Signatures are given by approvers, to money that was held, recorded by
   somebody else; callbacks and polls touch pushes only. *)
SignatureOK(h) ==
    /\ req[h].op \in {"approve", "reject"} =>
        /\ req[h].is.approver \in Approvers \ {req[h].is.recorder}
        /\ req[h].was.approver = None
        /\ req[h].was.held /\ ~req[h].is.held
    /\ req[h].op \in {"callback", "poll"} =>
        /\ req[h].was.pushed
        /\ req[h].is.approver = req[h].was.approver
        /\ req[h].is.held = req[h].was.held

RequestOK(h) ==
    /\ req[h].at = "idle" <=> req[h].op = "none"
    /\ req[h].at # "idle" =>
        /\ req[h].pay \in Payments
        /\ req[h].was.status # "CONFIRMED"
        /\ req[h].is.status # "ABSENT"
    /\ req[h].at = "loaded" => ~Inserting(req[h])
    /\ req[h].op = "callback" => req[h].pay \in claimed

(* The invoices, and every copy a request has loaded, keep their totals and are
   credited within them. *)
WithinTotals(books) ==
    \A i \in Invoices : books[i].total = Total[i] /\ books[i].paid <= Total[i]

BooksOK ==
    /\ WithinTotals(invoice)
    /\ \A h \in Handlers : WithinTotals(req[h].books)

RowsOK ==
    /\ \A p \in Payments : RowOK(payment[p])
    /\ \A p \in receipts : payment[p].status # "ABSENT"

ServedOK(h) == RequestOK(h) /\ InsertOK(h) /\ UpdateOK(h) /\ SignatureOK(h)

RequestsOK == \A h \in Handlers : ServedOK(h)

(* the reconciler only works on rows that exist *)
SweepOK == \A p \in sweep.due : payment[p].status # "ABSENT"

IInv ==
    /\ TypeOK
    /\ SweepOK
    /\ BooksOK
    /\ RowsOK
    /\ RequestsOK
    /\ BankedHasReceipt
    /\ SecondPersonSigned
    /\ OneCallbackAtATime

-----------------------------------------------------------------------------
(* Arithmetic of the books *)

(* What an allocation takes from an invoice is a natural number, at most the
   money left, and never more than the invoice still owes. *)
LEMMA AppliedBounds ==
    ASSUME NEW row \in InvoiceRow, NEW remaining \in Nat
    PROVE  /\ Applied(row, remaining) \in Nat
           /\ Applied(row, remaining) <= remaining
           /\ Applied(row, remaining) # 0 => Applied(row, remaining) <= Balance(row)
BY DEF InvoiceRow, Applied, Balance, Least

(* Crediting keeps an invoice a row with the same total, and a row credited
   within its total stays so. *)
LEMMA CreditedRow ==
    ASSUME NEW row \in InvoiceRow, NEW remaining \in Nat, NEW pastDue \in BOOLEAN
    PROVE  /\ Credited(row, remaining, pastDue) \in InvoiceRow
           /\ Credited(row, remaining, pastDue).total = row.total
           /\ row.paid <= row.total =>
                Credited(row, remaining, pastDue).paid <= row.total
<1> DEFINE applied == Applied(row, remaining)
           paid == [row EXCEPT !.paid = @ + applied]
<1>1. applied \in Nat /\ (applied # 0 => applied <= row.total - row.paid)
  BY AppliedBounds DEF Balance
<1>2. CASE applied = 0
  BY <1>2 DEF Credited
<1>3. CASE applied # 0
  <2>1. Recalculated(paid, pastDue) \in Statuses
    BY DEF Recalculated, Statuses, InvoiceRow
  <2>2. Credited(row, remaining, pastDue) =
            [paid EXCEPT !.status = Recalculated(paid, pastDue)]
    BY <1>3 DEF Credited
  <2>3. row.paid + applied \in Nat
    BY <1>1 DEF InvoiceRow
  <2>4. row.paid <= row.total => row.paid + applied <= row.total
    BY <1>1, <1>3 DEF InvoiceRow
  <2> HIDE DEF applied
  <2>5. QED
    BY <2>1, <2>2, <2>3, <2>4 DEF InvoiceRow
<1>4. QED
  BY <1>2, <1>3

(* A flush of an invoice leaves a row; with equal totals it keeps the total,
   and it credits no more than one of the two rows it chooses between. *)
LEMMA FlushedInvoiceRow ==
    ASSUME NEW was \in InvoiceRow, NEW is \in InvoiceRow, NEW now \in InvoiceRow
    PROVE  /\ FlushedInvoice(was, is, now) \in InvoiceRow
           /\ is.total = now.total => FlushedInvoice(was, is, now).total = now.total
           /\ FlushedInvoice(was, is, now).paid \in {is.paid, now.paid}
BY DEF FlushedInvoice, Flushed, InvoiceRow

(* The same for a payment row: the result is a row, column by column. *)
LEMMA FlushedPaymentRow ==
    ASSUME NEW was \in PaymentRow, NEW is \in PaymentRow, NEW now \in PaymentRow
    PROVE  LET row == FlushedPayment(was, is, now) IN
           /\ row \in PaymentRow
           /\ row.status = Flushed(was.status, is.status, now.status)
           /\ row.method = Flushed(was.method, is.method, now.method)
           /\ row.amount = Flushed(was.amount, is.amount, now.amount)
           /\ row.recorder = Flushed(was.recorder, is.recorder, now.recorder)
           /\ row.held = Flushed(was.held, is.held, now.held)
           /\ row.approver = Flushed(was.approver, is.approver, now.approver)
           /\ row.receiptNo = Flushed(was.receiptNo, is.receiptNo, now.receiptNo)
           /\ row.pushed = Flushed(was.pushed, is.pushed, now.pushed)
<1>1. \A a, b, c : Flushed(a, b, c) \in {b, c}
  BY DEF Flushed
<1>2. FlushedPayment(was, is, now) \in PaymentRow
  BY <1>1 DEF FlushedPayment, PaymentRow
<1>3. QED
  BY <1>2 DEF FlushedPayment

-----------------------------------------------------------------------------
(* Types *)

LEMMA ConstantTypes ==
    /\ NoPayment \in PaymentRow
    /\ OpeningBooks \in [Invoices -> InvoiceRow]
    /\ Idle \in Request
    /\ [p \in Payments |-> ""] \in [Payments -> Codes]
<1>1. NoPayment \in PaymentRow
  BY DEF NoPayment, PaymentRow
<1>2. OpeningBooks \in [Invoices -> InvoiceRow]
  BY InvoicesAssumption DEF OpeningBooks, InvoiceRow, Statuses
<1>3. Idle \in Request
  BY <1>1, <1>2 DEF Idle, Request
<1>4. QED
  BY <1>1, <1>2, <1>3 DEF Codes

LEMMA InitType == Init => TypeOK
<1> SUFFICES ASSUME Init PROVE TypeOK
  OBVIOUS
<1>1. sweep \in [at : {"idle", "loaded", "ready"}, due : SUBSET Payments,
                 late : SUBSET Payments, answer : [Payments -> Codes]]
  BY ConstantTypes DEF Init, Asleep
<1>2. /\ payment \in [Payments -> PaymentRow]
      /\ invoice \in [Invoices -> InvoiceRow]
      /\ req \in [Handlers -> Request]
  BY ConstantTypes DEF Init
<1>3. /\ daraja \in [Payments -> {"none", "prompted", "paid", "cancelled", "failed"}]
      /\ age \in [Payments -> 0 .. 2]
  BY DEF Init
<1>4. receipts \subseteq Payments /\ claimed \subseteq Payments
  BY DEF Init
<1>5. QED
  BY <1>1, <1>2, <1>3, <1>4 DEF TypeOK

(* a step that only replaces a request by a request *)
LEMMA ReplacedRequestType ==
    ASSUME TypeOK, NEW h \in Handlers, NEW r \in Request,
           req' = [req EXCEPT ![h] = r], UNCHANGED <<Tables, age, sweep>>,
           daraja' \in [Payments -> {"none", "prompted", "paid", "cancelled", "failed"}],
           claimed' \subseteq Payments
    PROVE  TypeOK'
BY DEF TypeOK, Tables

(* every request a handler starts is a request *)
LEMMA StartsType ==
    ASSUME TypeOK, NEW h \in Handlers, Starts(h)
    PROVE  TypeOK'
<1> USE DEF Outside
<1>0. /\ invoice \in [Invoices -> InvoiceRow]
      /\ daraja \in [Payments -> {"none", "prompted", "paid", "cancelled", "failed"}]
      /\ claimed \subseteq Payments
      /\ \A p \in Payments : payment[p] \in PaymentRow
  BY DEF TypeOK
<1>1. PICK p \in Payments :
        \/ \E method \in Methods, amount \in Amounts, u \in Staff,
              number \in QuotableNumbers :
                RecordBegin(h, p, method, amount, u, number)
        \/ \E amount \in Amounts, u \in Staff : StkBegin(h, p, amount, u)
        \/ CallbackBegin(h, p)
        \/ PollBegin(h, p)
        \/ \E u \in Approvers : ApproveBegin(h, p, u) \/ RejectBegin(h, p, u)
  BY DEF Starts
<1>2. ASSUME NEW method \in Methods, NEW amount \in Amounts, NEW u \in Staff,
             NEW number \in QuotableNumbers,
             RecordBegin(h, p, method, amount, u, number)
      PROVE  TypeOK'
  <2> DEFINE held == NeedsApproval(method, amount, u)
             row == [status |-> IF held THEN "PENDING" ELSE "CONFIRMED",
                     method |-> method, amount |-> amount, recorder |-> u,
                     held |-> held, approver |-> None,
                     receiptNo |-> IF method = "MPESA" THEN number ELSE None,
                     pushed |-> FALSE]
  <2>1. held \in BOOLEAN
    BY DEF NeedsApproval
  <2>2. row \in PaymentRow
    BY <2>1, MethodsAssumption, AmountsAssumption
    DEF PaymentRow, PaymentStatus, QuotableNumbers
  <2>3. QED
    BY <1>0, <1>2, <2>2, ConstantTypes, ReplacedRequestType DEF RecordBegin, Request
<1>3. ASSUME NEW amount \in Amounts, NEW u \in Staff, StkBegin(h, p, amount, u)
      PROVE  TypeOK'
  <2> DEFINE row == [NoPayment EXCEPT !.status = "PENDING", !.amount = amount,
                                      !.recorder = u]
  <2>1. /\ [row EXCEPT !.pushed = TRUE] \in PaymentRow
        /\ [row EXCEPT !.status = "FAILED"] \in PaymentRow
    BY AmountsAssumption DEF NoPayment, PaymentRow, PaymentStatus
  <2>2. \A is \in PaymentRow :
            [op |-> "stk", at |-> "ready", pay |-> p, was |-> NoPayment,
             is |-> is, books |-> invoice] \in Request
    BY <1>0, ConstantTypes DEF Request
  <2>3. daraja' \in [Payments -> {"none", "prompted", "paid", "cancelled", "failed"}]
    BY <1>0, <1>3 DEF StkBegin
  <2>4. \E is \in PaymentRow :
            req' = [req EXCEPT ![h] =
                        [op |-> "stk", at |-> "ready", pay |-> p, was |-> NoPayment,
                         is |-> is, books |-> invoice]]
    BY <1>3, <2>1 DEF StkBegin
  <2>5. UNCHANGED <<Tables, age, sweep>> /\ claimed' \subseteq Payments
    BY <1>0, <1>3 DEF StkBegin
  <2>6. QED
    BY <2>2, <2>3, <2>4, <2>5, ReplacedRequestType
<1>4. ASSUME CallbackBegin(h, p) PROVE TypeOK'
  <2> DEFINE refused == [payment[p] EXCEPT !.status =
                            IF daraja[p] = "cancelled" THEN "CANCELLED" ELSE "FAILED"]
  <2>1. payment[p] \in PaymentRow /\ refused \in PaymentRow
    BY <1>0 DEF PaymentRow, PaymentStatus
  <2>2. claimed' \subseteq Payments
    BY <1>0, <1>4 DEF CallbackBegin, Claim
  <2>3. \E r \in Request : req' = [req EXCEPT ![h] = r]
    BY <1>4, <2>1, ConstantTypes DEF CallbackBegin, Request
  <2>4. QED
    BY <1>0, <1>4, <2>2, <2>3, ReplacedRequestType DEF CallbackBegin
<1>5. ASSUME PollBegin(h, p) PROVE TypeOK'
  BY <1>0, <1>5, ConstantTypes, ReplacedRequestType DEF PollBegin, Request
<1>6. ASSUME NEW u \in Approvers, ApproveBegin(h, p, u) \/ RejectBegin(h, p, u)
      PROVE  TypeOK'
  <2> DEFINE signed == [payment[p] EXCEPT !.held = FALSE, !.approver = u]
             rejected == [payment[p] EXCEPT !.held = FALSE, !.approver = u,
                                            !.status = "CANCELLED"]
  <2>1. payment[p] \in PaymentRow /\ signed \in PaymentRow /\ rejected \in PaymentRow
    BY <1>0, PeopleAssumption DEF PaymentRow, PaymentStatus
  <2>2. \E r \in Request : req' = [req EXCEPT ![h] = r]
    BY <1>6, <2>1, ConstantTypes DEF ApproveBegin, RejectBegin, Request
  <2>3. QED
    BY <1>0, <1>6, <2>2, ReplacedRequestType DEF ApproveBegin, RejectBegin
<1>7. QED
  BY <1>1, <1>2, <1>3, <1>4, <1>5, <1>6

(* the commit writes a row over the payment *)
LEMMA CommittedRowType ==
    ASSUME TypeOK, NEW h \in Handlers, NEW p \in Payments
    PROVE  FlushedPayment(req[h].was, req[h].is, payment[p]) \in PaymentRow
<1>1. req[h].was \in PaymentRow /\ req[h].is \in PaymentRow /\ payment[p] \in PaymentRow
  BY DEF TypeOK, Request
<1>2. QED
  BY <1>1, FlushedPaymentRow

(* The books after an allocation: rows with the totals they had, credited
   within them when the committed rows and the loaded ones were. *)
LEMMA SettledBooks ==
    ASSUME TypeOK, NEW h \in Handlers, Settle(h)
    PROVE  /\ invoice' \in [Invoices -> InvoiceRow]
           /\ WithinTotals(invoice) /\ WithinTotals(req[h].books)
                => WithinTotals(invoice')
<1> DEFINE books == req[h].books
<1>1. books \in [Invoices -> InvoiceRow] /\ invoice \in [Invoices -> InvoiceRow]
  BY DEF TypeOK, Request
<1>2. req[h].is.amount \in Nat
  BY DEF TypeOK, Request, PaymentRow
<1>3. PICK rem \in Spreads(books, req[h].is.amount, Count) :
        invoice' = [i \in Invoices |->
            FlushedInvoice(books[i], Credited(books[i], rem[i], i \in PastDue), invoice[i])]
  BY DEF Settle
<1>4. ASSUME NEW i \in Invoices PROVE rem[i] \in Nat
  BY <1>2, <1>3, InvoicesAssumption DEF Spreads, Invoices
<1>5. ASSUME NEW i \in Invoices
      PROVE  /\ invoice'[i] \in InvoiceRow
             /\ WithinTotals(invoice) /\ WithinTotals(books) =>
                    invoice'[i].total = Total[i] /\ invoice'[i].paid <= Total[i]
  <2> DEFINE is == Credited(books[i], rem[i], i \in PastDue)
  <2>1. books[i] \in InvoiceRow /\ invoice[i] \in InvoiceRow /\ rem[i] \in Nat
    BY <1>1, <1>4
  <2>2. /\ is \in InvoiceRow
        /\ is.total = books[i].total
        /\ books[i].paid <= books[i].total => is.paid <= books[i].total
    <3> DEFINE late == i \in PastDue
               row == books[i]
               left == rem[i]
    <3>1. late \in BOOLEAN /\ row \in InvoiceRow /\ left \in Nat /\ is = Credited(row, left, late)
      BY <2>1
    <3> HIDE DEF late, row, left, is
    <3>2. /\ is \in InvoiceRow
          /\ is.total = row.total
          /\ row.paid <= row.total => is.paid <= row.total
      BY <3>1, CreditedRow
    <3>3. QED
      BY <3>2 DEF row
  <2>3. invoice'[i] = FlushedInvoice(books[i], is, invoice[i])
    BY <1>3
  <2> HIDE DEF is
  <2>4. /\ invoice'[i] \in InvoiceRow
        /\ is.total = invoice[i].total => invoice'[i].total = invoice[i].total
        /\ invoice'[i].paid \in {is.paid, invoice[i].paid}
    BY <2>1, <2>2, <2>3, FlushedInvoiceRow
  <2>5. QED
    BY <2>2, <2>4 DEF WithinTotals
<1>6. invoice' \in [Invoices -> InvoiceRow]
  BY <1>3, <1>5
<1>7. QED
  BY <1>5, <1>6 DEF WithinTotals

LEMMA ResolveType ==
    ASSUME TypeOK, NEW h \in Handlers, Resolve(h)
    PROVE  TypeOK'
<1> DEFINE is == req[h].is
           confirmed == [req[h] EXCEPT !.at = "ready", !.books = invoice,
                                       !.is.status = "CONFIRMED"]
           refused(code) == [req[h] EXCEPT !.at = "ready", !.is.status = Refused(code)]
<1>0. req[h] \in Request /\ invoice \in [Invoices -> InvoiceRow] /\ is \in PaymentRow
  BY DEF TypeOK, Request
<1>1. ASSUME NEW status \in PaymentStatus
      PROVE  [is EXCEPT !.status = status] \in PaymentRow
  BY <1>0 DEF PaymentRow
<1>2. ASSUME NEW row \in PaymentRow, NEW number \in Payments \cup {None}
      PROVE  [row EXCEPT !.receiptNo = number] \in PaymentRow
  BY DEF PaymentRow
<1>3. confirmed = [req[h] EXCEPT !.at = "ready", !.books = invoice,
                                 !.is = [is EXCEPT !.status = "CONFIRMED"]]
  BY <1>0 DEF Request
<1>4. confirmed \in Request /\ confirmed.is = [is EXCEPT !.status = "CONFIRMED"]
  BY <1>0, <1>1, <1>3 DEF Request, PaymentStatus
<1>5. [confirmed EXCEPT !.is.receiptNo = req[h].pay] \in Request
  <2>1. req[h].pay \in Payments \cup {None}
    BY <1>0 DEF Request
  <2> HIDE DEF confirmed
  <2>2. [confirmed.is EXCEPT !.receiptNo = req[h].pay] \in PaymentRow
    BY <1>2, <1>4, <2>1 DEF Request
  <2>3. QED
    BY <1>4, <2>2 DEF Request
<1>6. \A code : refused(code) \in Request /\
                [refused(code) EXCEPT !.is.status = "FAILED"] \in Request
  <2> SUFFICES ASSUME NEW code
               PROVE  /\ refused(code) \in Request
                      /\ [refused(code) EXCEPT !.is.status = "FAILED"] \in Request
    OBVIOUS
  <2>1. Refused(code) \in PaymentStatus
    BY DEF Refused, PaymentStatus
  <2> DEFINE row == [is EXCEPT !.status = Refused(code)]
  <2>2. row \in PaymentRow /\ [row EXCEPT !.status = "FAILED"] \in PaymentRow
    BY <1>1, <2>1 DEF PaymentRow, PaymentStatus
  <2>3. refused(code) = [req[h] EXCEPT !.at = "ready", !.is = row]
    BY <1>0 DEF Request
  <2> HIDE DEF row
  <2>4. refused(code) \in Request /\ refused(code).is = row
    BY <1>0, <2>2, <2>3 DEF Request
  <2> HIDE DEF refused
  <2>5. QED
    BY <2>2, <2>4 DEF Request
<1> HIDE DEF is, confirmed, refused
<1>7. \E r \in Request : req' = [req EXCEPT ![h] = r]
  <2>1. CASE req[h].op = "approve"
    BY <2>1, <1>4 DEF Resolve, confirmed
  <2>2. CASE req[h].op = "callback"
    BY <2>2, <1>5, <1>6 DEF Resolve, confirmed, refused
  <2>3. CASE req[h].op = "poll"
    BY <2>3, <1>4, <1>6, ConstantTypes DEF Resolve, confirmed, refused
  <2>4. QED
    BY <2>1, <2>2, <2>3 DEF Resolve
<1>8. QED
  BY <1>7, ReplacedRequestType DEF Resolve, Outside, TypeOK

LEMMA FinishesType ==
    ASSUME TypeOK, NEW h \in Handlers, RequestOK(h), Finishes(h) \/ Abort(h)
    PROVE  TypeOK'
<1>1. CASE Resolve(h)
  BY <1>1, ResolveType
<1>2. CASE CommitConfirmed(h) \/ CommitOther(h)
  <2>1. payment' \in [Payments -> PaymentRow]
    BY <1>2, CommittedRowType DEF CommitConfirmed, CommitOther, TypeOK
  <2>2. invoice' \in [Invoices -> InvoiceRow]
    BY <1>2, SettledBooks DEF CommitConfirmed, CommitOther, TypeOK
  <2>3. req' \in [Handlers -> Request]
    BY <1>2, ConstantTypes DEF CommitConfirmed, CommitOther, TypeOK
  <2>4. receipts' \subseteq Payments
    BY <1>2 DEF CommitConfirmed, CommitOther, RequestOK, TypeOK
  <2>5. UNCHANGED <<daraja, claimed, age, sweep>>
    BY <1>2 DEF CommitConfirmed, CommitOther, Outside
  <2>6. QED
    BY <2>1, <2>2, <2>3, <2>4, <2>5 DEF TypeOK
<1>3. CASE Rollback(h) \/ Abort(h)
  BY <1>3, ConstantTypes, ReplacedRequestType DEF Rollback, Abort, TypeOK, Outside
<1>4. QED
  BY <1>1, <1>2, <1>3 DEF Finishes

LEMMA SweepsType ==
    ASSUME TypeOK, Sweeps \/ SweepAbort
    PROVE  TypeOK'
<1>0. /\ payment \in [Payments -> PaymentRow]
      /\ sweep \in [at : {"idle", "loaded", "ready"}, due : SUBSET Payments,
                    late : SUBSET Payments, answer : [Payments -> Codes]]
  BY DEF TypeOK
<1>1. sweep' \in [at : {"idle", "loaded", "ready"}, due : SUBSET Payments,
                  late : SUBSET Payments, answer : [Payments -> Codes]]
  <2> DEFINE Type == [at : {"idle", "loaded", "ready"}, due : SUBSET Payments,
                      late : SUBSET Payments, answer : [Payments -> Codes]]
  <2>1. Asleep \in Type
    BY ConstantTypes DEF Asleep
  <2>2. CASE SweepBegin
    <3>1. \A P, Q \in SUBSET Payments :
            [Asleep EXCEPT !.at = "loaded", !.due = P, !.late = Q] \in Type
      BY <2>1
    <3>2. QED
      BY <2>2, <3>1 DEF SweepBegin
  <2>3. CASE SweepAsk
    BY <1>0, <2>3 DEF SweepAsk
  <2>4. CASE SweepCommit \/ SweepAbort
    BY <2>1, <2>4 DEF SweepCommit, SweepAbort
  <2>5. QED
    BY <2>2, <2>3, <2>4 DEF Sweeps
<1>2. payment' \in [Payments -> PaymentRow]
  <2>1. CASE SweepCommit
    <3>1. \A p \in Payments :
            Flushed("PENDING", Verdict(p, sweep.answer[p]), payment[p].status)
                \in PaymentStatus \cup {"ABSENT"}
      BY <1>0 DEF Flushed, Verdict, Refused, PaymentRow, PaymentStatus
    <3>2. \A p \in Payments : payment'[p] \in PaymentRow
      BY <1>0, <2>1, <3>1 DEF SweepCommit, PaymentRow
    <3>3. QED
      BY <2>1, <3>2 DEF SweepCommit
  <2>2. CASE ~SweepCommit
    BY <1>0, <2>2 DEF Sweeps, SweepBegin, SweepAsk, SweepAbort, Tables
  <2>3. QED
    BY <2>1, <2>2
<1>3. UNCHANGED <<receipts, invoice, daraja, claimed, age, req>>
  BY DEF Sweeps, SweepBegin, SweepAsk, SweepCommit, SweepAbort, Tables, Outside
<1>4. QED
  BY <1>1, <1>2, <1>3 DEF TypeOK

LEMMA OutsideType ==
    ASSUME TypeOK, NEW p \in Payments,
           CustomerAnswers(p) \/ ClaimExpires(p) \/ Ages(p)
    PROVE  TypeOK'
<1>1. daraja' \in [Payments -> {"none", "prompted", "paid", "cancelled", "failed"}]
  BY DEF TypeOK, CustomerAnswers, ClaimExpires, Ages
<1>2. age' \in [Payments -> 0 .. 2]
  BY DEF TypeOK, CustomerAnswers, ClaimExpires, Ages
<1>3. claimed' \subseteq Payments
  BY DEF TypeOK, CustomerAnswers, ClaimExpires, Ages
<1>4. UNCHANGED <<payment, receipts, invoice, req, sweep>>
  BY DEF CustomerAnswers, ClaimExpires, Ages, Tables
<1>5. QED
  BY <1>1, <1>2, <1>3, <1>4 DEF TypeOK

(* Every step keeps the types.  It takes the requests' own invariant: a commit
   issues a receipt to the payment its request names, so there must be one. *)
LEMMA NextType ==
    ASSUME TypeOK, \A h \in Handlers : RequestOK(h), [Next]_vars
    PROVE  TypeOK'
<1>1. CASE UNCHANGED vars
  BY <1>1 DEF TypeOK, vars
<1>2. CASE Next
  BY <1>2, StartsType, FinishesType, SweepsType, OutsideType DEF Next
<1>3. QED
  BY <1>1, <1>2
-----------------------------------------------------------------------------
(* One request changes and the others do not notice: every payment is left
   alone, or keeps its money and stays in the table, or is nobody else's. *)
LEMMA OthersServed ==
    ASSUME IInv, NEW h \in Handlers, NEW r \in Request,
           req' = [req EXCEPT ![h] = r], claimed \subseteq claimed',
           \A p \in Payments :
                \/ payment'[p] = payment[p]
                \/ /\ payment[p].status # "ABSENT" /\ payment'[p].status # "ABSENT"
                   /\ SameMoney(payment[p], payment'[p])
                \/ \A g \in Handlers \ {h} : req[g].pay # p,
           \A g \in Handlers \ {h} : Inserting(req[g]) => req[g].pay # r.pay,
           NEW g \in Handlers \ {h}
    PROVE  ServedOK(g)'
<1>1. ServedOK(g) /\ req[g] \in Request
  BY DEF IInv, RequestsOK, TypeOK
<1>2. req'[g] = req[g] /\ req'[h] = r
  BY DEF IInv, TypeOK
<1>3. RequestOK(g)'
  BY <1>1, <1>2 DEF ServedOK, RequestOK, Inserting
<1>4. req[g].op # "none" => req[g].pay \in Payments
  BY <1>1 DEF ServedOK, RequestOK
<1>5. InsertOK(g)'
  <2> SUFFICES ASSUME Inserting(req[g]) PROVE InsertOK(g)'
    BY <1>2 DEF InsertOK, Inserting
  <2>1. payment'[req[g].pay] = NoPayment
    BY <1>1, <1>4 DEF ServedOK, InsertOK, Inserting, NoPayment
  <2>2. \A k \in Handlers \ {g} : req'[k].pay # req[g].pay
    BY <1>1, <1>2 DEF ServedOK, InsertOK, IInv, TypeOK
  <2>3. QED
    BY <1>1, <1>2, <2>1, <2>2 DEF ServedOK, InsertOK, Inserting, NeedsApproval
<1>6. UpdateOK(g)'
  <2> SUFFICES ASSUME req[g].op \in {"callback", "poll", "approve", "reject"}
               PROVE  /\ payment'[req[g].pay].status # "ABSENT"
                      /\ SameMoney(req[g].was, req[g].is)
                      /\ SameMoney(req[g].was, payment'[req[g].pay])
    BY <1>2 DEF UpdateOK, SameMoney
  <2>1. req[g].pay \in Payments
    BY <1>4
  <2>2. QED
    BY <1>1, <2>1 DEF ServedOK, UpdateOK, SameMoney
<1>7. SignatureOK(g)'
  BY <1>1, <1>2 DEF ServedOK, SignatureOK
<1>8. QED
  BY <1>3, <1>5, <1>6, <1>7 DEF ServedOK

(* A step that only replaces one handler's request keeps the invariant when the
   new request is in order and no other request works against it. *)
LEMMA RequestStep ==
    ASSUME IInv, NEW h \in Handlers, NEW r \in Request,
           req' = [req EXCEPT ![h] = r], UNCHANGED <<Tables, sweep>>,
           TypeOK', claimed \subseteq claimed',
           WithinTotals(r.books), ServedOK(h)',
           \A g \in Handlers \ {h} : Inserting(req[g]) => req[g].pay # r.pay,
           r.op = "callback" =>
                \A g \in Handlers \ {h} : req[g].op = "callback" => req[g].pay # r.pay
    PROVE  IInv'
<1>0. /\ payment' = payment /\ receipts' = receipts
      /\ invoice' = invoice /\ sweep' = sweep
  BY DEF Tables
<1>1. RequestsOK'
  <2>1. \A g \in Handlers \ {h} : ServedOK(g)'
    BY <1>0, OthersServed
  <2>2. QED
    BY <2>1 DEF RequestsOK
<1>2. \A g \in Handlers : req'[g] = IF g = h THEN r ELSE req[g]
  BY DEF IInv, TypeOK
<1>3. BooksOK'
  BY <1>0, <1>2 DEF IInv, BooksOK, WithinTotals
<1>4. SweepOK' /\ RowsOK' /\ BankedHasReceipt' /\ SecondPersonSigned'
  BY <1>0 DEF IInv, SweepOK, RowsOK, RowOK, BankedHasReceipt, SecondPersonSigned,
              NeedsApproval
<1>5. OneCallbackAtATime'
  BY <1>2 DEF IInv, OneCallbackAtATime
<1>6. QED
  BY <1>1, <1>3, <1>4, <1>5 DEF IInv

(* an idle handler is in order *)
LEMMA IdleServed ==
    ASSUME NEW h \in Handlers, req'[h] = Idle
    PROVE  ServedOK(h)'
BY DEF Idle, ServedOK, RequestOK, InsertOK, UpdateOK, SignatureOK, Inserting

(* the initial rows of the books owe what the invoices ask for *)
LEMMA OpeningTotals == WithinTotals(OpeningBooks)
BY InvoicesAssumption DEF WithinTotals, OpeningBooks

(* A handler that gives its request up keeps the invariant. *)
LEMMA GivenUp ==
    ASSUME IInv, NEW h \in Handlers, req' = [req EXCEPT ![h] = Idle],
           UNCHANGED <<Tables, daraja, age, sweep>>,
           claimed \subseteq claimed', claimed' \subseteq Payments
    PROVE  IInv'
<1>1. req'[h] = Idle
  BY DEF IInv, TypeOK
<1>2. TypeOK'
  BY ConstantTypes, ReplacedRequestType DEF IInv, TypeOK
<1>3. ServedOK(h)'
  BY <1>1, IdleServed
<1>4. \A g \in Handlers \ {h} : Inserting(req[g]) => req[g].pay # None
  BY NoneAssumption DEF IInv, RequestsOK, ServedOK, RequestOK, Inserting
<1>5. QED
  BY <1>2, <1>3, <1>4, RequestStep, ConstantTypes, OpeningTotals DEF Idle
(* an id that is fresh has no row and no request *)
LEMMA FreshId ==
    ASSUME IInv, NEW p \in Payments, Fresh(p)
    PROVE  payment[p] = NoPayment /\ \A g \in Handlers : req[g].pay # p
BY DEF IInv, RowsOK, RowOK, Fresh

(* a payment with a row is not one that a request is about to insert *)
LEMMA KnownId ==
    ASSUME IInv, NEW p \in Payments, payment[p].status # "ABSENT", NEW g \in Handlers,
           Inserting(req[g])
    PROVE  req[g].pay # p
BY DEF IInv, RequestsOK, ServedOK, InsertOK, NoPayment

LEMMA RecordKeeps ==
    ASSUME IInv, TypeOK', NEW h \in Handlers, NEW p \in Payments,
           NEW method \in Methods, NEW amount \in Amounts, NEW u \in Staff,
           NEW number \in QuotableNumbers, RecordBegin(h, p, method, amount, u, number)
    PROVE  IInv'
<1> DEFINE held == NeedsApproval(method, amount, u)
           row == [status |-> IF held THEN "PENDING" ELSE "CONFIRMED",
                   method |-> method, amount |-> amount, recorder |-> u,
                   held |-> held, approver |-> None,
                   receiptNo |-> IF method = "MPESA" THEN number ELSE None,
                   pushed |-> FALSE]
           r == [op |-> "record", at |-> "ready", pay |-> p, was |-> NoPayment,
                 is |-> row, books |-> invoice]
<1>1. /\ req' = [req EXCEPT ![h] = r]
      /\ UNCHANGED <<Tables, sweep>> /\ claimed' = claimed
  BY DEF RecordBegin, Outside
<1>2. payment[p] = NoPayment /\ \A g \in Handlers : req[g].pay # p
  BY FreshId DEF RecordBegin
<1>3. /\ req'[h] = r /\ payment' = payment
      /\ \A g \in Handlers \ {h} : req'[g].pay # p
  BY <1>1, <1>2 DEF IInv, TypeOK, Tables
<1>4. r \in Request
  <2> HIDE DEF r
  <2>1. QED
    BY <1>3 DEF TypeOK
<1>5. ServedOK(h)'
  <2>1. InsertOK(h)'
    BY <1>2, <1>3 DEF InsertOK, Inserting, NeedsApproval
  <2>2. RequestOK(h)' /\ UpdateOK(h)' /\ SignatureOK(h)'
    BY <1>3 DEF RequestOK, UpdateOK, SignatureOK, NoPayment, Inserting
  <2>3. QED
    BY <2>1, <2>2 DEF ServedOK
<1>6. WithinTotals(r.books)
  BY DEF IInv, BooksOK
<1>7. QED
  BY <1>1, <1>2, <1>4, <1>5, <1>6, RequestStep

LEMMA StkKeeps ==
    ASSUME IInv, TypeOK', NEW h \in Handlers, NEW p \in Payments,
           NEW amount \in Amounts, NEW u \in Staff, StkBegin(h, p, amount, u)
    PROVE  IInv'
<1> DEFINE request(is) == [op |-> "stk", at |-> "ready", pay |-> p,
                           was |-> NoPayment, is |-> is, books |-> invoice]
           row == [NoPayment EXCEPT !.status = "PENDING", !.amount = amount,
                                    !.recorder = u]
<1>1. PICK is \in {[row EXCEPT !.pushed = TRUE], [row EXCEPT !.status = "FAILED"]} :
        req' = [req EXCEPT ![h] = request(is)]
  BY DEF StkBegin
<1>2. /\ is.status \in {"PENDING", "FAILED"} /\ is.method = "MPESA"
      /\ is.held = FALSE /\ is.approver = None
  BY DEF NoPayment
<1>3. UNCHANGED <<Tables, sweep>> /\ claimed' = claimed
  BY DEF StkBegin
<1>4. payment[p] = NoPayment /\ \A g \in Handlers : req[g].pay # p
  BY FreshId DEF StkBegin
<1> HIDE DEF row
<1>5. /\ req'[h] = request(is) /\ payment' = payment
      /\ \A g \in Handlers \ {h} : req'[g].pay # p
  BY <1>1, <1>3, <1>4 DEF IInv, TypeOK, Tables
<1>6. request(is) \in Request
  BY <1>5 DEF TypeOK
<1>7. ServedOK(h)'
  <2>1. InsertOK(h)'
    BY <1>2, <1>4, <1>5 DEF InsertOK, Inserting, NeedsApproval
  <2>2. RequestOK(h)' /\ UpdateOK(h)' /\ SignatureOK(h)'
    BY <1>2, <1>5 DEF RequestOK, UpdateOK, SignatureOK, NoPayment, Inserting
  <2>3. QED
    BY <2>1, <2>2 DEF ServedOK
<1>8. WithinTotals(request(is).books)
  BY DEF IInv, BooksOK
<1>9. request(is).op # "callback" /\ request(is).pay = p
  OBVIOUS
<1>10. QED
  <2> DEFINE r == request(is)
  <2>1. /\ r \in Request /\ req' = [req EXCEPT ![h] = r]
        /\ WithinTotals(r.books) /\ r.op # "callback" /\ r.pay = p
    BY <1>1, <1>6, <1>8, <1>9
  <2> HIDE DEF r
  <2>2. QED
    BY <1>3, <1>4, <1>7, <2>1, RequestStep

(* What a request that loads payment p is checked against: the row it loaded is
   the committed one, and no other request inserts p. *)
LEMMA LoadKeeps ==
    ASSUME IInv, TypeOK', NEW h \in Handlers, NEW p \in Payments, NEW r \in Request,
           req' = [req EXCEPT ![h] = r], UNCHANGED <<Tables, sweep>>,
           claimed \subseteq claimed',
           payment[p].status \notin {"ABSENT", "CONFIRMED"},
           r.op \in {"callback", "poll", "approve", "reject"},
           r.at \in {"loaded", "ready"}, r.pay = p, r.was = payment[p],
           r.books = OpeningBooks, r.is.status # "ABSENT",
           SameMoney(payment[p], r.is),
           r.op \in {"approve", "reject"} =>
                /\ r.is.approver \in Approvers \ {payment[p].recorder}
                /\ payment[p].held /\ ~r.is.held,
           r.op \in {"callback", "poll"} =>
                /\ payment[p].pushed
                /\ r.is.approver = payment[p].approver /\ r.is.held = payment[p].held,
           r.op = "callback" => p \in claimed' /\ p \notin claimed
    PROVE  IInv'
<1>1. req'[h] = r /\ payment' = payment
  BY DEF IInv, TypeOK, Tables
<1>2. RowOK(payment[p])
  BY DEF IInv, RowsOK
<1>3. ServedOK(h)'
  <2>1. RequestOK(h)'
    BY <1>1 DEF RequestOK, Inserting
  <2>2. InsertOK(h)'
    BY <1>1 DEF InsertOK, Inserting
  <2>3. UpdateOK(h)'
    BY <1>1 DEF UpdateOK, SameMoney
  <2>4. SignatureOK(h)'
    BY <1>1, <1>2 DEF SignatureOK, SameMoney, RowOK
  <2>5. QED
    BY <2>1, <2>2, <2>3, <2>4 DEF ServedOK
<1>4. \A g \in Handlers : Inserting(req[g]) => req[g].pay # p
  BY KnownId
<1>5. r.op = "callback" =>
        \A g \in Handlers \ {h} : req[g].op = "callback" => req[g].pay # r.pay
  BY DEF IInv, RequestsOK, ServedOK, RequestOK
<1>6. QED
  BY <1>3, <1>4, <1>5, RequestStep, OpeningTotals
LEMMA CallbackKeeps ==
    ASSUME IInv, TypeOK', NEW h \in Handlers, NEW p \in Payments, CallbackBegin(h, p)
    PROVE  IInv'
<1> DEFINE row == payment[p]
           refused == [row EXCEPT !.status =
                            IF daraja[p] = "cancelled" THEN "CANCELLED" ELSE "FAILED"]
           start(at, is) == [op |-> "callback", at |-> at, pay |-> p, was |-> row,
                             is |-> is, books |-> OpeningBooks]
<1>1. /\ p \notin claimed /\ claimed' = claimed \cup {p}
      /\ UNCHANGED <<Tables, sweep>>
  BY DEF CallbackBegin, Claim
<1>2. CASE ~NeedsOutcome(row)
  <2>1. req' = [req EXCEPT ![h] = Idle]
    BY <1>2 DEF CallbackBegin
  <2>2. UNCHANGED <<daraja, age>> /\ claimed' \subseteq Payments
    BY DEF CallbackBegin, Claim, IInv, TypeOK
  <2>3. QED
    BY <1>1, <2>1, <2>2, GivenUp
<1>3. CASE NeedsOutcome(row)
  <2>1. PICK at \in {"loaded", "ready"}, is \in {row, refused} :
            req' = [req EXCEPT ![h] = start(at, is)]
    BY <1>3 DEF CallbackBegin
  <2>2. row \in PaymentRow
    BY DEF IInv, TypeOK
  <2>3. /\ row.status \notin {"ABSENT", "CONFIRMED"} /\ row.pushed
    BY <1>3, <2>2 DEF NeedsOutcome, IInv, RowsOK, RowOK, NoPayment
  <2>4. /\ is.status # "ABSENT" /\ SameMoney(row, is)
        /\ is.approver = row.approver /\ is.held = row.held
    BY <2>2, <2>3 DEF PaymentRow, SameMoney
  <2> DEFINE r == start(at, is)
  <2>5. /\ r.op = "callback" /\ r.at \in {"loaded", "ready"} /\ r.pay = p
        /\ r.was = row /\ r.is = is /\ r.books = OpeningBooks
    OBVIOUS
  <2> HIDE DEF r, row, refused
  <2>6. r \in Request
    BY <2>1 DEF r, IInv, TypeOK
  <2>7. QED
    BY <1>1, <2>1, <2>3, <2>4, <2>5, <2>6, LoadKeeps DEF r, row
<1>4. QED
  BY <1>2, <1>3

LEMMA PollKeeps ==
    ASSUME IInv, TypeOK', NEW h \in Handlers, NEW p \in Payments, PollBegin(h, p)
    PROVE  IInv'
<1> DEFINE r == [op |-> "poll", at |-> "loaded", pay |-> p, was |-> payment[p],
                 is |-> payment[p], books |-> OpeningBooks]
<1>1. /\ req' = [req EXCEPT ![h] = r] /\ UNCHANGED <<Tables, sweep>>
      /\ claimed' = claimed
      /\ payment[p].status = "PENDING" /\ payment[p].pushed
  BY DEF PollBegin, Outside
<1>2. /\ r.op = "poll" /\ r.at = "loaded" /\ r.pay = p /\ r.was = payment[p]
      /\ r.is = payment[p] /\ r.books = OpeningBooks /\ SameMoney(payment[p], r.is)
  BY DEF SameMoney
<1> HIDE DEF r
<1>3. r \in Request
  BY <1>1 DEF IInv, TypeOK
<1>4. QED
  BY <1>1, <1>2, <1>3, LoadKeeps

LEMMA SignKeeps ==
    ASSUME IInv, TypeOK', NEW h \in Handlers, NEW p \in Payments, NEW u \in Approvers,
           ApproveBegin(h, p, u) \/ RejectBegin(h, p, u)
    PROVE  IInv'
<1> DEFINE row == payment[p]
           signed == [row EXCEPT !.held = FALSE, !.approver = u]
           rejected == [row EXCEPT !.held = FALSE, !.approver = u, !.status = "CANCELLED"]
           start(op, at, is) == [op |-> op, at |-> at, pay |-> p, was |-> row,
                                 is |-> is, books |-> OpeningBooks]
<1>1. PICK op \in {"approve", "reject"}, at \in {"loaded", "ready"}, is \in {signed, rejected} :
        req' = [req EXCEPT ![h] = start(op, at, is)]
  BY DEF ApproveBegin, RejectBegin
<1>2. UNCHANGED <<Tables, sweep>> /\ claimed' = claimed
  BY DEF ApproveBegin, RejectBegin, Outside
<1>3. row.held /\ row.status = "PENDING" /\ row.recorder # u
  BY DEF ApproveBegin, RejectBegin, Approvable
<1>4. row \in PaymentRow
  BY DEF IInv, TypeOK
<1>5. /\ is.status # "ABSENT" /\ SameMoney(row, is)
      /\ is.approver = u /\ ~is.held
  BY <1>3, <1>4 DEF PaymentRow, SameMoney
<1> DEFINE r == start(op, at, is)
<1>6. /\ r.op \in {"approve", "reject"} /\ r.at \in {"loaded", "ready"} /\ r.pay = p
      /\ r.was = row /\ r.is = is /\ r.books = OpeningBooks
  OBVIOUS
<1> HIDE DEF r, row, signed, rejected
<1>7. r \in Request
  BY <1>1 DEF r, IInv, TypeOK
<1>8. QED
  BY <1>1, <1>2, <1>3, <1>5, <1>6, <1>7, LoadKeeps DEF r, row

LEMMA StartsKeeps ==
    ASSUME IInv, NEW h \in Handlers, Starts(h)
    PROVE  IInv'
<1>1. TypeOK'
  BY StartsType DEF IInv
<1>2. QED
  BY <1>1, RecordKeeps, StkKeeps, CallbackKeeps, PollKeeps, SignKeeps DEF Starts
-----------------------------------------------------------------------------
(* Resolution and commit *)

(* What a resolution may make of the request: the row in the session keeps its
   money, approver and hold, and the books are the old ones or the committed. *)
LEMMA ResolvedKeeps ==
    ASSUME IInv, TypeOK', NEW h \in Handlers, NEW r \in Request,
           req[h].op \in {"callback", "poll", "approve"},
           req' = [req EXCEPT ![h] = r], UNCHANGED <<Tables, sweep, claimed>>,
           r.at = "ready", r.op = req[h].op, r.pay = req[h].pay, r.was = req[h].was,
           SameMoney(req[h].is, r.is), r.is.status # "ABSENT",
           r.is.approver = req[h].is.approver, r.is.held = req[h].is.held,
           r.books \in {invoice, req[h].books}
    PROVE  IInv'
<1>1. ServedOK(h) /\ req[h].pay \in Payments /\ payment[req[h].pay].status # "ABSENT"
  BY DEF IInv, RequestsOK, ServedOK, RequestOK, UpdateOK
<1>2. req'[h] = r /\ payment' = payment /\ claimed' = claimed
  BY DEF IInv, TypeOK, Tables
<1>3. ServedOK(h)'
  <2>1. RequestOK(h)'
    BY <1>1, <1>2 DEF ServedOK, RequestOK, Inserting
  <2>2. InsertOK(h)'
    BY <1>2 DEF InsertOK, Inserting
  <2>3. UpdateOK(h)'
    BY <1>1, <1>2 DEF ServedOK, UpdateOK, SameMoney
  <2>4. SignatureOK(h)'
    BY <1>1, <1>2 DEF ServedOK, SignatureOK, SameMoney
  <2>5. QED
    BY <2>1, <2>2, <2>3, <2>4 DEF ServedOK
<1>4. \A g \in Handlers : Inserting(req[g]) => req[g].pay # r.pay
  BY <1>1, KnownId
<1>5. r.op = "callback" =>
        \A g \in Handlers \ {h} : req[g].op = "callback" => req[g].pay # r.pay
  BY DEF IInv, OneCallbackAtATime
<1>6. WithinTotals(r.books)
  BY DEF IInv, BooksOK
<1>7. QED
  BY <1>2, <1>3, <1>4, <1>5, <1>6, RequestStep

LEMMA ResolveKeeps ==
    ASSUME IInv, NEW h \in Handlers, Resolve(h)
    PROVE  IInv'
<1> DEFINE is == req[h].is
           confirmed == [req[h] EXCEPT !.at = "ready", !.books = invoice,
                                       !.is.status = "CONFIRMED"]
           numbered == [confirmed EXCEPT !.is.receiptNo = req[h].pay]
           refused(code) == [req[h] EXCEPT !.at = "ready", !.is.status = Refused(code)]
           unpaid(code) == [refused(code) EXCEPT !.is.status = "FAILED"]
           Resolved(r) ==
               /\ r.at = "ready" /\ r.op = req[h].op /\ r.pay = req[h].pay
               /\ r.was = req[h].was
               /\ SameMoney(is, r.is) /\ r.is.status # "ABSENT"
               /\ r.is.approver = is.approver /\ r.is.held = is.held
               /\ r.books \in {invoice, req[h].books}
<1>1. TypeOK' /\ UNCHANGED <<Tables, sweep, claimed>>
  BY ResolveType DEF IInv, Resolve, Outside
<1>2. req[h] \in Request /\ is \in PaymentRow
  BY DEF IInv, TypeOK, Request
<1>3. Resolved(confirmed) /\ Resolved(numbered)
  BY <1>2 DEF Request, PaymentRow, SameMoney
<1>4. \A code : Resolved(refused(code)) /\ Resolved(unpaid(code))
  BY <1>2 DEF Request, PaymentRow, SameMoney, Refused
<1> HIDE DEF Resolved
<1>5. CASE \E r : req' = [req EXCEPT ![h] = r] /\ Resolved(r)
  <2>1. PICK r : req' = [req EXCEPT ![h] = r] /\ Resolved(r)
    BY <1>5
  <2>2. req'[h] = r /\ r \in Request
    BY <1>1, <2>1 DEF IInv, TypeOK
  <2>3. req[h].op \in {"callback", "poll", "approve"}
    BY DEF Resolve
  <2>4. QED
    BY <1>1, <2>1, <2>2, <2>3, ResolvedKeeps DEF Resolved
<1>6. CASE req' = [req EXCEPT ![h] = Idle]
  BY <1>6, GivenUp DEF Resolve, Outside, IInv, TypeOK
<1>7. (\E r : req' = [req EXCEPT ![h] = r] /\ Resolved(r))
        \/ req' = [req EXCEPT ![h] = Idle]
  <2> HIDE DEF is
  <2>1. CASE req[h].op = "approve"
    <3>1. req' = [req EXCEPT ![h] = confirmed]
      BY <2>1 DEF Resolve
    <3>2. QED
      BY <1>3, <3>1
  <2>2. CASE req[h].op = "callback"
    <3>1. \E code : req' = [req EXCEPT ![h] = numbered]
                   \/ req' = [req EXCEPT ![h] = unpaid(code)]
      BY <2>2 DEF Resolve
    <3>2. QED
      BY <1>3, <1>4, <3>1
  <2>3. CASE req[h].op = "poll"
    <3>1. \E code : \/ req' = [req EXCEPT ![h] = confirmed]
                   \/ req' = [req EXCEPT ![h] = refused(code)]
                   \/ req' = [req EXCEPT ![h] = Idle]
      BY <2>3 DEF Resolve
    <3>2. QED
      BY <1>3, <1>4, <3>1
  <2>4. QED
    BY <2>1, <2>2, <2>3 DEF Resolve
<1>8. QED
  BY <1>5, <1>6, <1>7
(* The row a commit leaves: it is in the table and in order; a payment that was
   there keeps its money, and one that was not is nobody else's. *)
LEMMA CommittedRow ==
    ASSUME IInv, NEW h \in Handlers, req[h].at = "ready",
           NEW p, p = req[h].pay,
           NEW row, row = FlushedPayment(req[h].was, req[h].is, payment[p])
    PROVE  /\ p \in Payments
           /\ row.status # "ABSENT"
           /\ RowOK(row)
           /\ \/ payment[p].status # "ABSENT" /\ SameMoney(payment[p], row)
              \/ /\ payment[p] = NoPayment
                 /\ \A g \in Handlers \ {h} : req[g].pay # p
<1> DEFINE was == req[h].was
           is == req[h].is
           now == payment[p]
<1>1. ServedOK(h) /\ p \in Payments
  BY DEF IInv, RequestsOK, ServedOK, RequestOK
<1>2. was \in PaymentRow /\ is \in PaymentRow /\ now \in PaymentRow /\ RowOK(now)
  BY <1>1 DEF IInv, TypeOK, Request, RowsOK
<1>3. /\ row.status \in {is.status, now.status}
      /\ is.status # was.status => row.status = is.status
      /\ row.method = Flushed(was.method, is.method, now.method)
      /\ row.amount = Flushed(was.amount, is.amount, now.amount)
      /\ row.recorder = Flushed(was.recorder, is.recorder, now.recorder)
      /\ row.held = Flushed(was.held, is.held, now.held)
      /\ row.approver = Flushed(was.approver, is.approver, now.approver)
      /\ row.pushed = Flushed(was.pushed, is.pushed, now.pushed)
  BY <1>2, FlushedPaymentRow DEF Flushed
<1>4. is.status # "ABSENT"
  BY <1>1 DEF ServedOK, RequestOK
<1>5. CASE Inserting(req[h])
  <2>1. /\ was = NoPayment /\ now = NoPayment
        /\ \A g \in Handlers \ {h} : req[g].pay # p
        /\ is.held => is.approver = None
        /\ is.pushed => is.method = "MPESA"
    BY <1>1, <1>5 DEF ServedOK, InsertOK
  <2>2. /\ row.method = is.method /\ row.held = is.held /\ row.pushed = is.pushed
        /\ row.approver = is.approver
    BY <1>3, <2>1 DEF Flushed
  <2>3. row.status = is.status
    BY <1>3, <1>4, <2>1 DEF NoPayment
  <2> HIDE DEF was, is, now
  <2>4. RowOK(row)
    BY <2>1, <2>2, <2>3, <1>4 DEF RowOK
  <2>5. QED
    BY <1>1, <1>4, <2>1, <2>3, <2>4 DEF now
<1>6. CASE ~Inserting(req[h])
  <2>1. req[h].op \in {"callback", "poll", "approve", "reject"}
    BY <1>1, <1>6 DEF ServedOK, RequestOK, Inserting, IInv, TypeOK, Request
  <2>2. /\ now.status # "ABSENT" /\ SameMoney(was, is) /\ SameMoney(was, now)
    BY <1>1, <2>1 DEF ServedOK, UpdateOK
  <2>3. SameMoney(now, row)
    BY <1>3, <2>2 DEF SameMoney, Flushed
  <2>4. row.held => now.held /\ row.approver = now.approver
    BY <1>1, <1>2, <1>3, <2>1 DEF ServedOK, SignatureOK, Flushed, PaymentRow
  <2>5. row.status # "ABSENT"
    BY <1>3, <1>4, <2>2
  <2> HIDE DEF was, is, now
  <2>6. RowOK(row)
    BY <1>2, <2>3, <2>4, <2>5 DEF RowOK, SameMoney
  <2>7. QED
    BY <1>1, <2>2, <2>3, <2>5, <2>6 DEF now
<1>7. QED
  BY <1>5, <1>6

(* The row a confirmation leaves needs no signature or has one. *)
LEMMA CommittedSignature ==
    ASSUME IInv, NEW h \in Handlers, req[h].at = "ready",
           NEW p, p = req[h].pay,
           NEW row, row = FlushedPayment(req[h].was, req[h].is, payment[p]),
           req[h].is.status = "CONFIRMED" \/ p \in receipts,
           NeedsApproval(row.method, row.amount, row.recorder)
    PROVE  row.approver \in Approvers \ {row.recorder}
<1> DEFINE was == req[h].was
           is == req[h].is
           now == payment[p]
<1>1. ServedOK(h) /\ p \in Payments
  BY DEF IInv, RequestsOK, ServedOK, RequestOK
<1>2. was \in PaymentRow /\ is \in PaymentRow /\ now \in PaymentRow /\ RowOK(now)
  BY <1>1 DEF IInv, TypeOK, Request, RowsOK
<1>3. /\ row.method = Flushed(was.method, is.method, now.method)
      /\ row.amount = Flushed(was.amount, is.amount, now.amount)
      /\ row.recorder = Flushed(was.recorder, is.recorder, now.recorder)
      /\ row.approver = Flushed(was.approver, is.approver, now.approver)
  BY <1>2, FlushedPaymentRow
<1>4. CASE Inserting(req[h])
  <2>1. was = NoPayment /\ now = NoPayment
    BY <1>1, <1>4 DEF ServedOK, InsertOK
  <2>2. is.status = "CONFIRMED"
    BY <1>1, <2>1 DEF IInv, RowsOK, NoPayment
  <2>3. ~NeedsApproval(is.method, is.amount, is.recorder)
    BY <1>1, <1>4, <2>2 DEF ServedOK, InsertOK
  <2>4. row.method = is.method /\ row.amount = is.amount /\ row.recorder = is.recorder
    BY <1>3, <2>1 DEF Flushed
  <2>5. QED
    BY <2>3, <2>4
<1>5. CASE req[h].op \in {"callback", "poll"}
  <2>1. was.pushed /\ SameMoney(was, is) /\ SameMoney(was, now)
    BY <1>1, <1>5 DEF ServedOK, UpdateOK, SignatureOK
  <2>2. row.method = "MPESA"
    BY <1>2, <1>3, <2>1 DEF SameMoney, Flushed, RowOK
  <2>3. QED
    BY <2>2 DEF NeedsApproval
<1>6. CASE req[h].op \in {"approve", "reject"}
  <2>1. /\ is.approver \in Approvers \ {is.recorder} /\ was.approver = None
        /\ SameMoney(was, is) /\ SameMoney(was, now)
    BY <1>1, <1>6 DEF ServedOK, UpdateOK, SignatureOK
  <2>2. is.approver # None
    BY <2>1, PeopleAssumption, NoneAssumption
  <2>3. row.approver = is.approver /\ row.recorder = is.recorder
    BY <1>3, <2>1, <2>2 DEF Flushed, SameMoney
  <2>4. QED
    BY <2>1, <2>3
<1>7. QED
  BY <1>1, <1>4, <1>5, <1>6
  DEF ServedOK, RequestOK, Inserting, IInv, TypeOK, Request
LEMMA CommitKeeps ==
    ASSUME IInv, NEW h \in Handlers, CommitConfirmed(h) \/ CommitOther(h)
    PROVE  IInv'
<1> DEFINE p == req[h].pay
           row == FlushedPayment(req[h].was, req[h].is, payment[p])
<1>1. /\ payment' = [payment EXCEPT ![p] = row]
      /\ req[h].at = "ready"
      /\ req' = [req EXCEPT ![h] = Idle]
      /\ sweep' = sweep /\ claimed' = claimed
      /\ receipts \subseteq receipts' /\ receipts' \subseteq receipts \cup {p}
      /\ p \in receipts' => req[h].is.status = "CONFIRMED" \/ p \in receipts
  BY DEF CommitConfirmed, CommitOther, Outside
<1>2. /\ p \in Payments /\ row.status # "ABSENT" /\ RowOK(row)
      /\ \/ payment[p].status # "ABSENT" /\ SameMoney(payment[p], row)
         \/ /\ payment[p] = NoPayment
            /\ \A g \in Handlers \ {h} : req[g].pay # p
  BY <1>1, CommittedRow
<1>3. /\ ServedOK(h) /\ req[h] \in Request
      /\ \A q \in Payments : payment[q] \in PaymentRow
      /\ \A g \in Handlers : req'[g] = IF g = h THEN Idle ELSE req[g]
  BY <1>1 DEF IInv, RequestsOK, TypeOK
<1>4. \A q \in Payments : payment'[q] = IF q = p THEN row ELSE payment[q]
  BY <1>1 DEF IInv, TypeOK
<1>5. TypeOK'
  BY <1>3, FinishesType DEF IInv, Finishes, ServedOK
<1>6. BooksOK'
  <2>1. WithinTotals(invoice) /\ WithinTotals(req[h].books)
    BY DEF IInv, BooksOK
  <2>2. WithinTotals(invoice')
    BY <2>1, SettledBooks DEF CommitConfirmed, CommitOther, IInv
  <2>3. \A g \in Handlers : WithinTotals(req'[g].books)
    BY <1>3, OpeningTotals DEF IInv, BooksOK, Idle
  <2>4. QED
    BY <2>2, <2>3 DEF BooksOK, WithinTotals
<1>7. RequestsOK'
  <2>1. ServedOK(h)'
    BY <1>3, IdleServed
  <2>2. \A g \in Handlers \ {h} : Inserting(req[g]) => req[g].pay # Idle.pay
    BY NoneAssumption DEF IInv, RequestsOK, ServedOK, RequestOK, Inserting, Idle
  <2>3. \A g \in Handlers \ {h} : ServedOK(g)'
    <3> HIDE DEF row, p
    <3>1. \A q \in Payments :
            \/ payment'[q] = payment[q]
            \/ /\ payment[q].status # "ABSENT" /\ payment'[q].status # "ABSENT"
               /\ SameMoney(payment[q], payment'[q])
            \/ \A g \in Handlers \ {h} : req[g].pay # q
      BY <1>2, <1>4
    <3>2. QED
      BY <1>1, <2>2, <3>1, ConstantTypes, OthersServed
  <2>4. QED
    BY <2>1, <2>3 DEF RequestsOK
<1>8. SweepOK' /\ RowsOK'
  <2> HIDE DEF row, p
  <2>1. \A q \in Payments : RowOK(payment'[q]) /\
            (payment[q].status # "ABSENT" => payment'[q].status # "ABSENT")
    BY <1>2, <1>4 DEF IInv, RowsOK
  <2>2. \A q \in receipts' : payment'[q].status # "ABSENT"
    BY <1>1, <1>2, <1>4, <2>1 DEF IInv, RowsOK, TypeOK
  <2>3. \A q \in sweep'.due : payment'[q].status # "ABSENT"
    BY <1>1, <2>1 DEF IInv, SweepOK, TypeOK
  <2>4. QED
    BY <2>1, <2>2, <2>3 DEF RowsOK, RowOK, SweepOK
<1>9. BankedHasReceipt'
  <2>1. ASSUME row.status = "CONFIRMED" PROVE p \in receipts'
    <3>1. CASE CommitConfirmed(h)
      BY <3>1 DEF CommitConfirmed
    <3>2. CASE CommitOther(h)
      <4>1. req[h].was \in PaymentRow /\ req[h].is \in PaymentRow
        BY <1>3 DEF Request
      <4>2. row.status = Flushed(req[h].was.status, req[h].is.status, payment[p].status)
        BY <1>2, <1>3, <4>1, FlushedPaymentRow
      <4>3. payment[p].status = "CONFIRMED"
        BY <2>1, <3>2, <4>2 DEF CommitOther, Flushed
      <4>4. QED
        BY <1>1, <1>2, <4>3 DEF IInv, BankedHasReceipt
    <3>3. QED
      BY <3>1, <3>2
  <2> HIDE DEF row, p
  <2>2. QED
    BY <1>1, <1>4, <2>1 DEF IInv, BankedHasReceipt
<1>10. SecondPersonSigned'
  <2>1. ASSUME p \in receipts', NeedsApproval(row.method, row.amount, row.recorder)
        PROVE  row.approver \in Approvers \ {row.recorder}
    BY <1>1, <2>1, CommittedSignature
  <2> HIDE DEF row, p
  <2>2. receipts' \subseteq Payments
    BY <1>5 DEF TypeOK
  <2>3. QED
    BY <1>1, <1>4, <2>1, <2>2 DEF IInv, SecondPersonSigned, NeedsApproval
<1>11. OneCallbackAtATime'
  BY <1>3 DEF IInv, OneCallbackAtATime, Idle
<1>12. QED
  BY <1>5, <1>6, <1>7, <1>8, <1>9, <1>10, <1>11 DEF IInv

LEMMA FinishesKeeps ==
    ASSUME IInv, NEW h \in Handlers, Finishes(h) \/ Abort(h)
    PROVE  IInv'
<1>1. CASE Resolve(h)
  BY <1>1, ResolveKeeps
<1>2. CASE CommitConfirmed(h) \/ CommitOther(h)
  BY <1>2, CommitKeeps
<1>3. CASE Rollback(h) \/ Abort(h)
  BY <1>3, GivenUp DEF Rollback, Abort, Outside, IInv, TypeOK
<1>4. QED
  BY <1>1, <1>2, <1>3 DEF Finishes
-----------------------------------------------------------------------------
(* The reconciler and the outside world *)

(* The batch commit changes statuses only, and none to CONFIRMED. *)
LEMMA SweepCommitKeeps ==
    ASSUME IInv, SweepCommit
    PROVE  IInv'
<1>1. TypeOK'
  BY SweepsType DEF IInv, Sweeps
<1>2. /\ receipts' = receipts /\ invoice' = invoice /\ req' = req
      /\ claimed' = claimed /\ sweep' = Asleep
  BY DEF SweepCommit, Outside
<1>3. \A p \in Payments :
        /\ SameMoney(payment[p], payment'[p])
        /\ payment'[p].held = payment[p].held
        /\ payment'[p].approver = payment[p].approver
        /\ payment[p].status = "ABSENT" => payment'[p] = payment[p]
        /\ payment[p].status # "ABSENT" => payment'[p].status # "ABSENT"
        /\ payment'[p].status = "CONFIRMED" => payment[p].status = "CONFIRMED"
  <2> SUFFICES ASSUME NEW p \in Payments
               PROVE  /\ SameMoney(payment[p], payment'[p])
                      /\ payment'[p].held = payment[p].held
                      /\ payment'[p].approver = payment[p].approver
                      /\ payment[p].status = "ABSENT" => payment'[p] = payment[p]
                      /\ payment[p].status # "ABSENT" => payment'[p].status # "ABSENT"
                      /\ payment'[p].status = "CONFIRMED"
                            => payment[p].status = "CONFIRMED"
    OBVIOUS
  <2> DEFINE verdict == Verdict(p, sweep.answer[p])
  <2>1. payment[p] \in PaymentRow
    BY DEF IInv, TypeOK
  <2>2. verdict \in {"FAILED", "CANCELLED", "PENDING"}
    BY DEF Verdict, Refused
  <2>3. CASE p \in sweep.due
    <3>1. payment'[p] = [payment[p] EXCEPT !.status =
                            Flushed("PENDING", verdict, payment[p].status)]
      BY <2>3 DEF SweepCommit
    <3>2. payment[p].status # "ABSENT"
      BY <2>3 DEF IInv, SweepOK
    <3> HIDE DEF verdict
    <3>3. QED
      BY <2>1, <2>2, <3>1, <3>2 DEF Flushed, PaymentRow, SameMoney
  <2>4. CASE p \notin sweep.due
    BY <2>4 DEF SweepCommit, SameMoney
  <2>5. QED
    BY <2>3, <2>4
<1>4. RequestsOK'
  <2> SUFFICES ASSUME NEW h \in Handlers PROVE ServedOK(h)'
    BY DEF RequestsOK
  <2>1. ServedOK(h)
    BY DEF IInv, RequestsOK
  <2>2. req[h].op # "none" => req[h].pay \in Payments
    BY <2>1 DEF ServedOK, RequestOK
  <2>3. RequestOK(h)' /\ SignatureOK(h)'
    BY <1>2, <2>1 DEF ServedOK, RequestOK, SignatureOK, Inserting
  <2>4. InsertOK(h)'
    <3>1. Inserting(req[h]) => payment'[req[h].pay] = NoPayment
      BY <1>3, <2>1, <2>2 DEF ServedOK, InsertOK, Inserting, NoPayment
    <3>2. QED
      BY <1>2, <2>1, <3>1 DEF ServedOK, InsertOK, Inserting, NeedsApproval
  <2>5. UpdateOK(h)'
    BY <1>2, <1>3, <2>1, <2>2 DEF ServedOK, UpdateOK, SameMoney
  <2>6. QED
    BY <2>3, <2>4, <2>5 DEF ServedOK
<1>5. BooksOK'
  BY <1>2 DEF IInv, BooksOK, WithinTotals
<1>6. SweepOK' /\ RowsOK'
  <2>1. \A p \in Payments : RowOK(payment'[p])
    BY <1>3 DEF IInv, RowsOK, RowOK, SameMoney
  <2>2. \A p \in receipts : payment'[p].status # "ABSENT"
    BY <1>3 DEF IInv, RowsOK, TypeOK
  <2>3. QED
    BY <1>2, <2>1, <2>2 DEF SweepOK, RowsOK, RowOK, Asleep
<1>7. BankedHasReceipt' /\ OneCallbackAtATime'
  BY <1>2, <1>3 DEF IInv, BankedHasReceipt, OneCallbackAtATime
<1>8. SecondPersonSigned'
  BY <1>2, <1>3 DEF IInv, SecondPersonSigned, NeedsApproval, SameMoney, TypeOK
<1>9. QED
  BY <1>1, <1>4, <1>5, <1>6, <1>7, <1>8 DEF IInv

(* Steps that change neither the tables nor a request, and free a claim only
   when no callback holds it. *)
LEMMA QuietStep ==
    ASSUME IInv, TypeOK', UNCHANGED <<Tables, req>>,
           \A p \in sweep'.due : payment[p].status # "ABSENT",
           \A h \in Handlers : req[h].op = "callback" => req[h].pay \in claimed'
    PROVE  IInv'
<1>1. payment' = payment /\ receipts' = receipts /\ invoice' = invoice /\ req' = req
  BY DEF Tables
<1>2. RequestsOK'
  <2> SUFFICES ASSUME NEW h \in Handlers PROVE ServedOK(h)'
    BY DEF RequestsOK
  <2>1. ServedOK(h)
    BY DEF IInv, RequestsOK
  <2>2. RequestOK(h)' /\ SignatureOK(h)'
    BY <1>1, <2>1 DEF ServedOK, RequestOK, SignatureOK, Inserting
  <2>3. InsertOK(h)' /\ UpdateOK(h)'
    BY <1>1, <2>1 DEF ServedOK, InsertOK, Inserting, NeedsApproval, UpdateOK, SameMoney
  <2>4. QED
    BY <2>2, <2>3 DEF ServedOK
<1>3. BooksOK' /\ RowsOK' /\ SweepOK'
  BY <1>1 DEF IInv, BooksOK, WithinTotals, RowsOK, RowOK, SweepOK
<1>4. BankedHasReceipt' /\ OneCallbackAtATime'
  BY <1>1 DEF IInv, BankedHasReceipt, OneCallbackAtATime
<1>5. SecondPersonSigned'
  BY <1>1 DEF IInv, SecondPersonSigned, NeedsApproval
<1>6. QED
  BY <1>2, <1>3, <1>4, <1>5 DEF IInv

LEMMA SweepsKeeps ==
    ASSUME IInv, Sweeps \/ SweepAbort
    PROVE  IInv'
<1>1. TypeOK'
  BY SweepsType DEF IInv
<1>2. CASE SweepCommit
  BY <1>2, SweepCommitKeeps
<1>3. CASE ~SweepCommit
  <2>1. UNCHANGED <<Tables, req, claimed>>
    BY <1>3 DEF Sweeps, SweepBegin, SweepAsk, SweepAbort, Outside
  <2>2. \A p \in sweep'.due : payment[p].status # "ABSENT"
    <3>1. CASE SweepBegin
      BY <3>1 DEF SweepBegin, Asleep, Overdue
    <3>2. CASE SweepAsk
      BY <3>2 DEF SweepAsk, IInv, SweepOK, TypeOK
    <3>3. CASE SweepAbort
      BY <3>3 DEF SweepAbort, Asleep
    <3>4. QED
      BY <1>3, <3>1, <3>2, <3>3 DEF Sweeps
  <2>3. \A h \in Handlers : req[h].op = "callback" => req[h].pay \in claimed'
    BY <2>1 DEF IInv, RequestsOK, ServedOK, RequestOK
  <2>4. QED
    BY <1>1, <2>1, <2>2, <2>3, QuietStep
<1>4. QED
  BY <1>2, <1>3

LEMMA OutsideKeeps ==
    ASSUME IInv, NEW p \in Payments,
           CustomerAnswers(p) \/ ClaimExpires(p) \/ Ages(p)
    PROVE  IInv'
<1>1. TypeOK'
  BY OutsideType DEF IInv
<1>2. UNCHANGED <<Tables, req, sweep>>
  BY DEF CustomerAnswers, ClaimExpires, Ages
<1>3. \A h \in Handlers : req[h].op = "callback" => req[h].pay \in claimed'
  BY DEF CustomerAnswers, ClaimExpires, Ages, IInv, RequestsOK, ServedOK, RequestOK
<1>4. \A q \in sweep'.due : payment[q].status # "ABSENT"
  BY <1>2 DEF IInv, SweepOK
<1>5. QED
  BY <1>1, <1>2, <1>3, <1>4, QuietStep

-----------------------------------------------------------------------------
(* The theorems *)

LEMMA InitInvariant == Init => IInv
<1> SUFFICES ASSUME Init PROVE IInv
  OBVIOUS
<1>1. TypeOK
  BY InitType
<1>2. RequestsOK
  BY DEF Init, Idle, RequestsOK, ServedOK, RequestOK, InsertOK, UpdateOK, SignatureOK,
         Inserting
<1>3. BooksOK
  BY OpeningTotals DEF Init, BooksOK, Idle
<1>4. RowsOK /\ SweepOK
  BY DEF Init, RowsOK, RowOK, SweepOK, Asleep, NoPayment
<1>5. BankedHasReceipt /\ SecondPersonSigned /\ OneCallbackAtATime
  BY DEF Init, BankedHasReceipt, SecondPersonSigned, OneCallbackAtATime, NoPayment, Idle
<1>6. QED
  BY <1>1, <1>2, <1>3, <1>4, <1>5 DEF IInv

LEMMA NextInvariant == IInv /\ [Next]_vars => IInv'
<1> SUFFICES ASSUME IInv, [Next]_vars PROVE IInv'
  OBVIOUS
<1>1. CASE UNCHANGED vars
  <2>1. TypeOK'
    BY <1>1 DEF IInv, TypeOK, vars
  <2>2. UNCHANGED <<Tables, req, sweep, claimed>>
    BY <1>1 DEF vars, Tables
  <2>3. \A h \in Handlers : req[h].op = "callback" => req[h].pay \in claimed'
    BY <2>2 DEF IInv, RequestsOK, ServedOK, RequestOK
  <2>4. \A q \in sweep'.due : payment[q].status # "ABSENT"
    BY <2>2 DEF IInv, SweepOK
  <2>5. QED
    BY <2>1, <2>2, <2>3, <2>4, QuietStep
<1>2. CASE Next
  BY <1>2, StartsKeeps, FinishesKeeps, SweepsKeeps, OutsideKeeps DEF Next
<1>3. QED
  BY <1>1, <1>2

(* The inductive invariant holds in every reachable state. *)
THEOREM Invariance == Spec => []IInv
BY InitInvariant, NextInvariant, PTL DEF Spec

(* Every reachable state is well typed (models/billing.py): no request writes a
   status outside the enum, and no credit falls below zero. *)
THEOREM TypeCorrect == Spec => []TypeOK
<1>1. IInv => TypeOK
  BY DEF IInv
<1>2. QED
  BY <1>1, Invariance, PTL

(* Whichever channel confirms a payment issues its receipt (_confirm). *)
THEOREM ReceiptForEveryBankedPayment == Spec => []BankedHasReceipt
<1>1. IInv => BankedHasReceipt
  BY DEF IInv
<1>2. QED
  BY <1>1, Invariance, PTL

(* Cash over the threshold is receipted only with somebody else's signature,
   whatever approvals and rejections race (_assert_approvable). *)
THEOREM TwoPeopleForCash == Spec => []SecondPersonSigned
<1>1. IInv => SecondPersonSigned
  BY DEF IInv
<1>2. QED
  BY <1>1, Invariance, PTL

(* No interleaving of confirmations credits an invoice with more than it asks
   for (_allocate). *)
THEOREM CreditWithinTotal == Spec => []NeverOverCredited
<1>1. IInv => NeverOverCredited
  BY DEF IInv, BooksOK, WithinTotals, NeverOverCredited
<1>2. QED
  BY <1>1, Invariance, PTL

(* Redis keeps the deliveries of one callback apart (claim_callback). *)
THEOREM CallbacksKeptApart == Spec => []OneCallbackAtATime
<1>1. IInv => OneCallbackAtATime
  BY DEF IInv
<1>2. QED
  BY <1>1, Invariance, PTL

(* A confirmed payment is overwritten only by a request or a sweep that loaded
   it before it was confirmed. *)
THEOREM UnbankedByStaleWriter == Spec => OnlyStaleWritersUnbank
<1> DEFINE Stale(p) ==
        payment[p].status = "CONFIRMED" /\ payment'[p].status # "CONFIRMED" =>
            \/ \E h \in Handlers : req[h].pay = p /\ req[h].was.status # "CONFIRMED"
            \/ p \in sweep.due
<1>1. IInv /\ [Next]_vars => [\A p \in Payments : Stale(p)]_vars
  <2> SUFFICES ASSUME IInv, Next, NEW p \in Payments PROVE Stale(p)
    OBVIOUS
  <2>1. CASE payment' = payment
    BY <2>1
  <2>2. ASSUME NEW h \in Handlers, CommitConfirmed(h) \/ CommitOther(h)
        PROVE  Stale(p)
    <3>1. req[h].was.status # "CONFIRMED"
      BY <2>2 DEF IInv, RequestsOK, ServedOK, RequestOK, CommitConfirmed, CommitOther
    <3>2. req[h].pay # p => payment'[p] = payment[p]
      BY <2>2 DEF CommitConfirmed, CommitOther, IInv, TypeOK
    <3>3. QED
      BY <3>1, <3>2
  <2>3. CASE SweepCommit
    BY <2>3 DEF SweepCommit
  <2>4. \/ payment' = payment
        \/ \E h \in Handlers : CommitConfirmed(h) \/ CommitOther(h)
        \/ SweepCommit
    <3>1. ASSUME NEW h \in Handlers, Starts(h) PROVE payment' = payment
      <4>1. \A q, m, a, u, n : RecordBegin(h, q, m, a, u, n) => payment' = payment
        BY DEF RecordBegin, Tables
      <4>2. \A q, a, u : StkBegin(h, q, a, u) => payment' = payment
        BY DEF StkBegin, Tables
      <4>3. \A q : CallbackBegin(h, q) \/ PollBegin(h, q) => payment' = payment
        BY DEF CallbackBegin, PollBegin, Tables
      <4>4. \A q, u : ApproveBegin(h, q, u) \/ RejectBegin(h, q, u) => payment' = payment
        BY DEF ApproveBegin, RejectBegin, Tables
      <4>5. QED
        BY <3>1, <4>1, <4>2, <4>3, <4>4 DEF Starts
    <3>2. \A h \in Handlers : Resolve(h) \/ Rollback(h) \/ Abort(h) => payment' = payment
      BY DEF Resolve, Rollback, Abort, Tables
    <3>3. SweepBegin \/ SweepAsk \/ SweepAbort => payment' = payment
      BY DEF SweepBegin, SweepAsk, SweepAbort, Tables
    <3>4. \A q \in Payments :
            CustomerAnswers(q) \/ ClaimExpires(q) \/ Ages(q) => payment' = payment
      BY DEF CustomerAnswers, ClaimExpires, Ages, Tables
    <3>5. QED
      BY <3>1, <3>2, <3>3, <3>4 DEF Next, Finishes, Sweeps
  <2>5. QED
    BY <2>1, <2>2, <2>3, <2>4
<1>2. QED
  BY <1>1, Invariance, PTL DEF Spec, OnlyStaleWritersUnbank

-----------------------------------------------------------------------------
(* One allocation, on books nobody else is writing *)

(* The status of an invoice says whether it is paid. *)
AccurateRow(row, i) ==
    /\ row.total = Total[i] /\ row.paid <= Total[i]
    /\ row.status # "CANCELLED"
    /\ row.status = "PAID" <=> row.paid = Total[i]

Accurate(books) == \A i \in Invoices : AccurateRow(books[i], i)

OldestFirst(books) ==
    \A i, j \in Invoices : i < j /\ books[j].paid > 0 => Total[i] <= books[i].paid

Credit(books) == SumOver([i \in Invoices |-> books[i].paid], Invoices)

Allocated(books, rem) ==
    [i \in Invoices |-> Credited(books[i], rem[i], i \in PastDue)]

(* An invoice takes what it owes or what is left, and stays accurate. *)
LEMMA CreditedAccurately ==
    ASSUME NEW i \in Invoices, NEW row \in InvoiceRow, AccurateRow(row, i),
           NEW remaining \in Nat, NEW pastDue \in BOOLEAN
    PROVE  LET taken == Applied(row, remaining)
               after == Credited(row, remaining, pastDue)
           IN  /\ taken \in Nat
               /\ taken = Least(Total[i] - row.paid, remaining)
               /\ after.paid = row.paid + taken
               /\ AccurateRow(after, i)
<1> DEFINE taken == Applied(row, remaining)
           paid == [row EXCEPT !.paid = @ + taken]
<1>1. Total[i] \in Nat \ {0}
  BY InvoicesAssumption
<1>2. taken \in Nat /\ taken = Least(Total[i] - row.paid, remaining)
  BY <1>1 DEF AccurateRow, InvoiceRow, Applied, Balance, IsOpen, Least
<1>3. CASE taken = 0
  BY <1>2, <1>3 DEF Credited, InvoiceRow
<1>4. CASE taken # 0
  <2> DEFINE after == [paid EXCEPT !.status = Recalculated(paid, pastDue)]
  <2>1. Credited(row, remaining, pastDue) = after
    BY <1>4 DEF Credited
  <2>2. taken <= Total[i] - row.paid
    BY <1>1, <1>2 DEF Least, InvoiceRow
  <2> HIDE DEF taken
  <2>3. /\ paid.paid = row.paid + taken /\ paid.total = row.total
        /\ paid.status = row.status
    BY DEF InvoiceRow
  <2>4. /\ after.paid = paid.paid /\ after.total = paid.total
        /\ after.status = Recalculated(paid, pastDue)
    BY DEF InvoiceRow
  <2>5. row.paid \in Nat /\ row.total = Total[i] /\ row.status # "CANCELLED"
    BY DEF InvoiceRow, AccurateRow
  <2> HIDE DEF paid, after
  <2>6. AccurateRow(after, i)
    BY <1>1, <1>2, <1>4, <2>2, <2>3, <2>4, <2>5 DEF AccurateRow, Recalculated
  <2>7. QED
    BY <1>2, <2>1, <2>3, <2>4, <2>6 DEF taken
<1>5. QED
  BY <1>3, <1>4

(* The loop over the open invoices, step by step. *)
LEMMA AllocationSteps ==
    ASSUME NEW books \in [Invoices -> InvoiceRow], Accurate(books), NEW amount \in Nat,
           NEW rem \in Spreads(books, amount, Count), NEW i \in Invoices
    PROVE  LET taken == Applied(books[i], rem[i]) IN
           /\ taken \in Nat /\ rem[i] \in Nat /\ rem[i + 1] \in Nat
           /\ taken = Least(Total[i] - books[i].paid, rem[i])
           /\ rem[i + 1] = rem[i] - taken
           /\ Allocated(books, rem)[i].paid = books[i].paid + taken
           /\ AccurateRow(Allocated(books, rem)[i], i)
<1>1. rem[i] \in Nat /\ rem[i + 1] \in Nat /\ rem[i + 1] = rem[i] - Applied(books[i], rem[i])
  BY InvoicesAssumption DEF Spreads, Invoices
<1>2. /\ books[i] \in InvoiceRow /\ AccurateRow(books[i], i)
      /\ Allocated(books, rem)[i] = Credited(books[i], rem[i], i \in PastDue)
  BY DEF Accurate, Allocated
<1> DEFINE pastDue == i \in PastDue
           row == books[i]
           remaining == rem[i]
<1>3. pastDue \in BOOLEAN /\ row \in InvoiceRow /\ AccurateRow(row, i) /\ remaining \in Nat
  BY <1>1, <1>2
<1> HIDE DEF pastDue, row, remaining
<1>4. LET taken == Applied(row, remaining)
          after == Credited(row, remaining, pastDue)
      IN  /\ taken \in Nat
          /\ taken = Least(Total[i] - row.paid, remaining)
          /\ after.paid = row.paid + taken
          /\ AccurateRow(after, i)
  BY <1>3, CreditedAccurately
<1>5. QED
  BY <1>1, <1>2, <1>4 DEF pastDue, row, remaining

(* What is left never grows on the way. *)
LEMMA RemainderFalls ==
    ASSUME NEW books \in [Invoices -> InvoiceRow], Accurate(books), NEW amount \in Nat,
           NEW rem \in Spreads(books, amount, Count),
           NEW a \in 1 .. Count + 1, NEW b \in 1 .. Count + 1, a <= b
    PROVE  rem[b] <= rem[a]
<1>1. Count \in Nat /\ \A i \in 1 .. Count + 1 : rem[i] \in Int
  BY InvoicesAssumption DEF Spreads
<1>2. ASSUME NEW i \in 1 .. Count PROVE rem[i + 1] <= rem[i]
  <2>1. i \in Invoices
    BY DEF Invoices
  <2> DEFINE taken == Applied(books[i], rem[i])
  <2>2. taken \in Nat /\ rem[i] \in Nat /\ rem[i + 1] = rem[i] - taken
    BY <2>1, AllocationSteps
  <2> HIDE DEF taken
  <2>3. QED
    BY <2>2
<1>3. QED
  BY <1>1, <1>2, Descends

(* Money reaches an invoice only when the older ones are settled. *)
LEMMA AllocationOldestFirst ==
    ASSUME NEW books \in [Invoices -> InvoiceRow], Accurate(books), OldestFirst(books),
           NEW amount \in Nat, NEW rem \in Spreads(books, amount, Count)
    PROVE  OldestFirst(Allocated(books, rem))
<1> DEFINE after == Allocated(books, rem)
<1> SUFFICES ASSUME NEW i \in Invoices, NEW j \in Invoices, i < j, after[j].paid > 0
             PROVE  Total[i] <= after[i].paid
  BY DEF OldestFirst
<1> DEFINE ti == Applied(books[i], rem[i])
           tj == Applied(books[j], rem[j])
<1>1. /\ ti \in Nat /\ rem[i] \in Nat /\ rem[i + 1] = rem[i] - ti
      /\ ti = Least(Total[i] - books[i].paid, rem[i])
      /\ after[i].paid = books[i].paid + ti
  BY AllocationSteps
<1>2. /\ tj \in Nat /\ rem[j] \in Nat
      /\ tj = Least(Total[j] - books[j].paid, rem[j])
      /\ after[j].paid = books[j].paid + tj
  BY AllocationSteps
<1>3. /\ books[i].paid \in Nat /\ books[j].paid \in Nat
      /\ Total[i] \in Nat /\ Total[j] \in Nat /\ books[j].paid <= Total[j]
  BY InvoicesAssumption DEF InvoiceRow, Accurate, AccurateRow
<1>4. i + 1 \in 1 .. Count + 1 /\ j \in 1 .. Count + 1 /\ i + 1 <= j
  BY InvoicesAssumption DEF Invoices
<1>5. rem[j] <= rem[i + 1]
  BY <1>4, RemainderFalls
<1>6. books[j].paid > 0 => Total[i] <= books[i].paid
  BY DEF OldestFirst
<1> HIDE DEF after, ti, tj
<1>7. CASE books[j].paid > 0
  BY <1>1, <1>3, <1>6, <1>7
<1>8. CASE ~(books[j].paid > 0)
  <2>1. rem[j] > 0
    BY <1>2, <1>3, <1>8 DEF Least
  <2>2. ti = Total[i] - books[i].paid
    BY <1>1, <1>2, <1>3, <1>5, <2>1 DEF Least
  <2>3. QED
    BY <1>1, <1>3, <2>2
<1>9. QED
  BY <1>7, <1>8

(* The credit grows by the amount, up to the debt. *)
LEMMA AllocationCredits ==
    ASSUME NEW books \in [Invoices -> InvoiceRow], Accurate(books),
           NEW amount \in Nat, NEW rem \in Spreads(books, amount, Count)
    PROVE  /\ Credit(books) \in Int /\ TotalDebt \in Int
           /\ Credit(Allocated(books, rem)) =
                IF Credit(books) + amount <= TotalDebt THEN Credit(books) + amount
                                                       ELSE TotalDebt
<1> DEFINE after == Allocated(books, rem)
           paid == [i \in Invoices |-> books[i].paid]
           taken == [i \in Invoices |-> Applied(books[i], rem[i])]
           paid2 == [i \in Invoices |-> after[i].paid]
           left == rem[Count + 1]
<1>1. IsFiniteSet(Invoices) /\ Count \in Nat /\ Invoices = 1 .. Count
  BY InvoicesAssumption, FS_Interval DEF Invoices
<1>2. \A i \in Invoices :
        /\ paid[i] \in Nat /\ Total[i] \in Nat /\ paid[i] <= Total[i]
        /\ taken[i] \in Nat /\ rem[i] \in Nat /\ rem[i + 1] \in Nat
        /\ taken[i] = Least(Total[i] - paid[i], rem[i])
        /\ rem[i + 1] = rem[i] - taken[i]
        /\ paid2[i] = paid[i] + taken[i]
  <2> SUFFICES ASSUME NEW i \in Invoices
               PROVE  /\ paid[i] \in Nat /\ Total[i] \in Nat /\ paid[i] <= Total[i]
                      /\ taken[i] \in Nat /\ rem[i] \in Nat /\ rem[i + 1] \in Nat
                      /\ taken[i] = Least(Total[i] - paid[i], rem[i])
                      /\ rem[i + 1] = rem[i] - taken[i]
                      /\ paid2[i] = paid[i] + taken[i]
    OBVIOUS
  <2>1. books[i].paid \in Nat /\ Total[i] \in Nat /\ books[i].paid <= Total[i]
    BY InvoicesAssumption DEF InvoiceRow, Accurate, AccurateRow
  <2>2. LET t == Applied(books[i], rem[i]) IN
        /\ t \in Nat /\ rem[i] \in Nat /\ rem[i + 1] \in Nat
        /\ t = Least(Total[i] - books[i].paid, rem[i])
        /\ rem[i + 1] = rem[i] - t
        /\ after[i].paid = books[i].paid + t
    BY AllocationSteps
  <2> HIDE DEF after
  <2>3. QED
    BY <2>1, <2>2
<1>3. /\ rem[1] = amount /\ left \in Nat
      /\ \A i \in 1 .. Count + 1 : rem[i] \in Int
  BY <1>1 DEF Spreads
<1>4. ASSUME NEW i \in Invoices PROVE left <= rem[i + 1]
  <2>1. i + 1 \in 1 .. Count + 1 /\ Count + 1 \in 1 .. Count + 1 /\ i + 1 <= Count + 1
    BY <1>1
  <2>2. QED
    BY <2>1, RemainderFalls
<1>5. Credit(books) = SumOver(paid, Invoices) /\ Credit(after) = SumOver(paid2, Invoices)
  BY DEF Credit
<1> HIDE DEF after, paid, taken, paid2, left
<1>6. SumOver(taken, Invoices) = amount - left
  <2>1. \A i \in 1 .. Count : taken[i] \in Int /\ rem[i + 1] = rem[i] - taken[i]
    BY <1>1, <1>2
  <2>2. SumOver(taken, 1 .. Count) = rem[1] - rem[Count + 1]
    BY <1>1, <1>3, <2>1, SumTelescopes
  <2>3. QED
    BY <1>1, <1>3, <2>2 DEF left
<1>7. \A i \in Invoices : /\ paid[i] \in Int /\ taken[i] \in Int /\ Total[i] \in Int
                          /\ paid2[i] \in Int /\ paid2[i] = paid[i] + taken[i]
                          /\ paid2[i] <= Total[i]
  BY <1>2 DEF Least
<1>8. /\ SumOver(paid, Invoices) \in Int /\ SumOver(Total, Invoices) \in Int
      /\ SumOver(paid2, Invoices) = SumOver(paid, Invoices) + SumOver(taken, Invoices)
      /\ SumOver(paid2, Invoices) <= SumOver(Total, Invoices)
  <2>1. SumOver(paid, Invoices) \in Int /\ SumOver(Total, Invoices) \in Int
    BY <1>1, <1>7, SumType
  <2>2. SumOver(paid2, Invoices) = SumOver(paid, Invoices) + SumOver(taken, Invoices)
    <3>1. \A x \in Invoices :
            paid[x] \in Int /\ taken[x] \in Int /\ paid2[x] = paid[x] + taken[x]
      BY <1>7
    <3>2. IsFiniteSet(Invoices)
      BY <1>1
    <3>3. QED
      BY <3>1, <3>2, SumAdds
  <2>3. SumOver(paid2, Invoices) <= SumOver(Total, Invoices)
    BY <1>1, <1>7, SumMonotone
  <2>4. QED
    BY <2>1, <2>2, <2>3
<1>9. left # 0 => SumOver(paid2, Invoices) = SumOver(Total, Invoices)
  <2> SUFFICES ASSUME left # 0 PROVE SumOver(paid2, Invoices) = SumOver(Total, Invoices)
    OBVIOUS
  <2>1. ASSUME NEW i \in Invoices PROVE paid2[i] \in Int /\ Total[i] = paid2[i]
    <3>1. /\ paid[i] \in Nat /\ Total[i] \in Nat /\ taken[i] \in Nat /\ rem[i] \in Nat
          /\ taken[i] = Least(Total[i] - paid[i], rem[i])
          /\ rem[i + 1] = rem[i] - taken[i] /\ paid2[i] = paid[i] + taken[i]
      BY <1>2
    <3>2. left <= rem[i + 1] /\ left \in Nat /\ left # 0
      BY <1>3, <1>4
    <3>3. taken[i] < rem[i]
      BY <3>1, <3>2
    <3>4. QED
      BY <3>1, <3>3 DEF Least
  <2>2. QED
    BY <1>1, <2>1, SumEqual
<1>10. Credit(Allocated(books, rem)) = SumOver(paid2, Invoices)
  BY <1>5 DEF after
<1>11. QED
  BY <1>3, <1>5, <1>6, <1>8, <1>9, <1>10 DEF TotalDebt

-----------------------------------------------------------------------------
(* Requests that do not overlap *)

(* Whoever works is alone. *)
Alone ==
    /\ \A g, h \in Handlers : req[g].at # "idle" /\ req[h].at # "idle" => g = h
    /\ sweep.at # "idle" => \A h \in Handlers : req[h].at = "idle"

(* What a request has loaded is still what is committed; what it is about to
   confirm is an amount somebody paid. *)
LoadedOK(h) ==
    req[h].at # "idle" =>
        /\ req[h].was = payment[req[h].pay]
        /\ req[h].is.amount \in Amounts
        /\ req[h].at = "ready" =>
            /\ req[h].is.status = "CONFIRMED" => req[h].books = invoice
            /\ req[h].is.status = "PENDING" => Inserting(req[h])

(* What the reconciler found pending still is. *)
BatchOK ==
    /\ sweep.at = "idle" => sweep.due = {}
    /\ \A p \in sweep.due : payment[p].status = "PENDING"

PaidAmounts ==
    \A p \in Payments : payment[p].status # "ABSENT" => payment[p].amount \in Amounts

SerialInv ==
    /\ Alone
    /\ \A h \in Handlers : LoadedOK(h)
    /\ BatchOK
    /\ PaidAmounts
    /\ Accurate(invoice)
    /\ OldestFirst(invoice)

LEMMA InitSerial == Init => SerialInv
<1> SUFFICES ASSUME Init PROVE SerialInv
  OBVIOUS
<1>1. Alone /\ BatchOK /\ PaidAmounts /\ \A h \in Handlers : LoadedOK(h)
  BY DEF Init, Alone, BatchOK, PaidAmounts, LoadedOK, Idle, Asleep, NoPayment
<1>2. Accurate(invoice) /\ OldestFirst(invoice)
  BY InvoicesAssumption
  DEF Init, OpeningBooks, Accurate, AccurateRow, OldestFirst
<1>3. QED
  BY <1>1, <1>2 DEF SerialInv

(* A step of one request, alone, that leaves the tables. *)
LEMMA ServedAlone ==
    ASSUME ~Overlap, IInv, SerialInv, NEW h \in Handlers,
           req[h].at # "idle" \/ MayStart(h),
           UNCHANGED <<payment, invoice, sweep>>,
           \A g \in Handlers \ {h} : req'[g] = req[g],
           LoadedOK(h)'
    PROVE  SerialInv'
<1>1. sweep.at = "idle" /\ \A g \in Handlers \ {h} : req[g].at = "idle"
  BY DEF MayStart, SerialInv, Alone, IInv, TypeOK
<1>2. Alone'
  BY <1>1 DEF Alone
<1>3. \A g \in Handlers : LoadedOK(g)'
  BY <1>1 DEF LoadedOK
<1>4. QED
  BY <1>2, <1>3 DEF SerialInv, BatchOK, PaidAmounts, Accurate, OldestFirst, AccurateRow

(* The requests that start with a row of their own. *)
LEMMA InsertsAlone ==
    ASSUME ~Overlap, IInv, SerialInv, NEW h \in Handlers, NEW p \in Payments,
           \/ \E method \in Methods, amount \in Amounts, u \in Staff,
                 number \in QuotableNumbers :
                   RecordBegin(h, p, method, amount, u, number)
           \/ \E amount \in Amounts, u \in Staff : StkBegin(h, p, amount, u)
    PROVE  SerialInv'
<1>1. PICK op \in {"record", "stk"}, is \in PaymentRow :
            /\ req' = [req EXCEPT ![h] =
                        [op |-> op, at |-> "ready", pay |-> p, was |-> NoPayment,
                         is |-> is, books |-> invoice]]
            /\ is.amount \in Amounts
  <2>1. ASSUME NEW method \in Methods, NEW amount \in Amounts, NEW u \in Staff,
               NEW number \in QuotableNumbers,
               RecordBegin(h, p, method, amount, u, number)
        PROVE  \E is \in PaymentRow :
                    /\ req' = [req EXCEPT ![h] =
                                [op |-> "record", at |-> "ready", pay |-> p,
                                 was |-> NoPayment, is |-> is, books |-> invoice]]
                    /\ is.amount \in Amounts
    <3> DEFINE held == NeedsApproval(method, amount, u)
               row == [status |-> IF held THEN "PENDING" ELSE "CONFIRMED",
                       method |-> method, amount |-> amount, recorder |-> u,
                       held |-> held, approver |-> None,
                       receiptNo |-> IF method = "MPESA" THEN number ELSE None,
                       pushed |-> FALSE]
    <3>1. held \in BOOLEAN
      BY DEF NeedsApproval
    <3>2. row \in PaymentRow /\ row.amount \in Amounts
      BY <3>1, MethodsAssumption, AmountsAssumption
      DEF PaymentRow, PaymentStatus, QuotableNumbers
    <3>3. QED
      BY <2>1, <3>2 DEF RecordBegin
  <2>2. ASSUME NEW amount \in Amounts, NEW u \in Staff, StkBegin(h, p, amount, u)
        PROVE  \E is \in PaymentRow :
                    /\ req' = [req EXCEPT ![h] =
                                [op |-> "stk", at |-> "ready", pay |-> p,
                                 was |-> NoPayment, is |-> is, books |-> invoice]]
                    /\ is.amount \in Amounts
    <3> DEFINE row == [NoPayment EXCEPT !.status = "PENDING", !.amount = amount,
                                        !.recorder = u]
               sent == [row EXCEPT !.pushed = TRUE]
               failed == [row EXCEPT !.status = "FAILED"]
    <3>1. /\ sent \in PaymentRow /\ sent.amount = amount
          /\ failed \in PaymentRow /\ failed.amount = amount
      BY AmountsAssumption DEF NoPayment, PaymentRow, PaymentStatus
    <3>2. \E is \in {sent, failed} :
                req' = [req EXCEPT ![h] =
                            [op |-> "stk", at |-> "ready", pay |-> p, was |-> NoPayment,
                             is |-> is, books |-> invoice]]
      BY <2>2 DEF StkBegin
    <3> HIDE DEF sent, failed
    <3>3. QED
      BY <3>1, <3>2
  <2>3. QED
    BY <2>1, <2>2
<1>2. /\ MayStart(h) /\ payment[p].status = "ABSENT"
      /\ UNCHANGED <<payment, invoice, sweep>>
  BY DEF RecordBegin, StkBegin, Tables, Fresh
<1>3. /\ req'[h] = [op |-> op, at |-> "ready", pay |-> p, was |-> NoPayment,
                    is |-> is, books |-> invoice]
      /\ \A g \in Handlers \ {h} : req'[g] = req[g]
  BY <1>1 DEF IInv, TypeOK
<1>4. payment[p] = NoPayment
  BY <1>2 DEF IInv, RowsOK, RowOK
<1>5. LoadedOK(h)'
  BY <1>1, <1>2, <1>3, <1>4 DEF LoadedOK, Inserting
<1>6. QED
  BY <1>2, <1>3, <1>5, ServedAlone

(* The requests that load the row of a payment. *)
LEMMA LoadsAlone ==
    ASSUME ~Overlap, IInv, SerialInv, NEW h \in Handlers, NEW p \in Payments,
           \/ CallbackBegin(h, p) \/ PollBegin(h, p)
           \/ \E u \in Approvers : ApproveBegin(h, p, u) \/ RejectBegin(h, p, u)
    PROVE  SerialInv'
<1> DEFINE row == payment[p]
<1>1. /\ MayStart(h) /\ UNCHANGED <<payment, invoice, sweep>>
      /\ \A g \in Handlers \ {h} : req'[g] = req[g]
  BY DEF CallbackBegin, PollBegin, ApproveBegin, RejectBegin, Tables, IInv, TypeOK
<1>2. /\ row \in PaymentRow
      /\ row.status # "ABSENT" => row.amount \in Amounts
      /\ row.pushed => row.status # "ABSENT"
  <2>1. NoPayment.pushed = FALSE
    BY DEF NoPayment
  <2>2. QED
    BY <2>1 DEF IInv, TypeOK, SerialInv, PaidAmounts, RowsOK, RowOK
<1>3. \/ req'[h] = Idle
      \/ \E is : /\ req'[h].was = row /\ req'[h].pay = p /\ req'[h].is = is
                 /\ row.status # "ABSENT"
                 /\ is.amount = row.amount
                 /\ \/ req'[h].at = "loaded"
                    \/ is.status \in {"CANCELLED", "FAILED"}
  <2>1. CASE CallbackBegin(h, p)
    <3> DEFINE refused == [row EXCEPT !.status =
                            IF daraja[p] = "cancelled" THEN "CANCELLED" ELSE "FAILED"]
    <3>1. refused.status \in {"CANCELLED", "FAILED"} /\ refused.amount = row.amount
      BY <1>2 DEF PaymentRow
    <3>2. NeedsOutcome(row) => row.status # "ABSENT"
      BY <1>2 DEF NeedsOutcome
    <3>3. \/ req'[h] = Idle
          \/ /\ NeedsOutcome(row)
             /\ \/ req'[h] = [op |-> "callback", at |-> "ready", pay |-> p, was |-> row,
                              is |-> refused, books |-> OpeningBooks]
                \/ req'[h] = [op |-> "callback", at |-> "loaded", pay |-> p, was |-> row,
                              is |-> row, books |-> OpeningBooks]
      BY <2>1 DEF CallbackBegin, IInv, TypeOK
    <3> HIDE DEF refused
    <3>4. QED
      BY <3>1, <3>2, <3>3
  <2>2. CASE PollBegin(h, p)
    BY <2>2, <1>2 DEF PollBegin, IInv, TypeOK
  <2>3. ASSUME NEW u \in Approvers, ApproveBegin(h, p, u) \/ RejectBegin(h, p, u)
        PROVE  \E is : /\ req'[h].was = row /\ req'[h].pay = p /\ req'[h].is = is
                       /\ row.status # "ABSENT"
                       /\ is.amount = row.amount
                       /\ \/ req'[h].at = "loaded"
                          \/ is.status \in {"CANCELLED", "FAILED"}
    <3> DEFINE signed == [row EXCEPT !.held = FALSE, !.approver = u]
               rejected == [row EXCEPT !.held = FALSE, !.approver = u,
                                       !.status = "CANCELLED"]
    <3>1. /\ signed.amount = row.amount /\ rejected.amount = row.amount
          /\ rejected.status = "CANCELLED"
      BY <1>2 DEF PaymentRow
    <3>2. row.status # "ABSENT"
      BY <2>3 DEF ApproveBegin, RejectBegin, Approvable
    <3>3. \/ req'[h] = [op |-> "approve", at |-> "loaded", pay |-> p, was |-> row,
                        is |-> signed, books |-> OpeningBooks]
          \/ req'[h] = [op |-> "reject", at |-> "ready", pay |-> p, was |-> row,
                        is |-> rejected, books |-> OpeningBooks]
      BY <2>3 DEF ApproveBegin, RejectBegin, IInv, TypeOK
    <3> HIDE DEF signed, rejected
    <3>4. QED
      BY <3>1, <3>2, <3>3
  <2>4. QED
    BY <2>1, <2>2, <2>3
<1>4. LoadedOK(h)'
  <2>1. CASE req'[h] = Idle
    BY <2>1 DEF LoadedOK, Idle
  <2>2. CASE req'[h] # Idle
    BY <1>1, <1>2, <1>3, <2>2 DEF LoadedOK
  <2>3. QED
    BY <2>1, <2>2
<1>5. QED
  BY <1>1, <1>4, ServedAlone

LEMMA StartsAlone ==
    ASSUME ~Overlap, IInv, SerialInv, NEW h \in Handlers, Starts(h)
    PROVE  SerialInv'
BY InsertsAlone, LoadsAlone DEF Starts

(* The answer of Daraja, or the invoices, and nothing else. *)
LEMMA ResolveAlone ==
    ASSUME ~Overlap, IInv, SerialInv, NEW h \in Handlers, Resolve(h)
    PROVE  SerialInv'
<1> DEFINE r == req[h]
<1>1. /\ r \in Request /\ r.at = "loaded" /\ LoadedOK(h)
      /\ UNCHANGED <<payment, invoice, sweep>>
      /\ \A g \in Handlers \ {h} : req'[g] = req[g]
  BY DEF Resolve, Tables, IInv, TypeOK, SerialInv
<1>2. \/ req'[h] = Idle
      \/ /\ req'[h].was = r.was /\ req'[h].pay = r.pay
         /\ req'[h].is.amount = r.is.amount
         /\ \/ req'[h].is.status = "CONFIRMED" /\ req'[h].books = invoice
            \/ req'[h].is.status \in {"CANCELLED", "FAILED"}
  <2> DEFINE confirmed == [r EXCEPT !.at = "ready", !.books = invoice,
                                    !.is.status = "CONFIRMED"]
             numbered == [confirmed EXCEPT !.is.receiptNo = r.pay]
             refused(code) == [r EXCEPT !.at = "ready", !.is.status = Refused(code)]
             failed(code) == [refused(code) EXCEPT !.is.status = "FAILED"]
             Answer(n) == /\ n.was = r.was /\ n.pay = r.pay /\ n.is.amount = r.is.amount
                          /\ \/ n.is.status = "CONFIRMED" /\ n.books = invoice
                             \/ n.is.status \in {"CANCELLED", "FAILED"}
  <2>1. Answer(confirmed)
    BY <1>1 DEF Request, PaymentRow
  <2>2. Answer(numbered)
    BY <1>1 DEF Request, PaymentRow
  <2>3. \A code : Answer(refused(code)) /\ Answer(failed(code))
    BY <1>1 DEF Request, PaymentRow, Refused
  <2>4. \/ req'[h] \in {Idle, confirmed, numbered}
        \/ \E code : req'[h] \in {refused(code), failed(code)}
    BY DEF Resolve, IInv, TypeOK
  <2> HIDE DEF confirmed, numbered, refused, failed
  <2>5. QED
    BY <2>1, <2>2, <2>3, <2>4
<1>3. LoadedOK(h)'
  <2>1. CASE req'[h] = Idle
    BY <2>1 DEF LoadedOK, Idle
  <2>2. CASE req'[h] # Idle
    BY <1>1, <1>2, <2>2 DEF LoadedOK
  <2>3. QED
    BY <2>1, <2>2
<1>4. QED
  BY <1>1, <1>3, ServedAlone

(* A commit nobody interfered with writes the session's row and its books. *)
LEMMA CommittedAlone ==
    ASSUME IInv, SerialInv, NEW h \in Handlers, req[h].at = "ready"
    PROVE  FlushedPayment(req[h].was, req[h].is, payment[req[h].pay]) = req[h].is
<1> DEFINE was == req[h].was
           is == req[h].is
<1>1. payment[req[h].pay] = was /\ is \in PaymentRow
  BY DEF SerialInv, LoadedOK, IInv, TypeOK, Request
<1>2. FlushedPayment(was, is, was) =
        [status |-> is.status, method |-> is.method, amount |-> is.amount,
         recorder |-> is.recorder, held |-> is.held, approver |-> is.approver,
         receiptNo |-> is.receiptNo, pushed |-> is.pushed]
  BY DEF FlushedPayment, Flushed
<1> HIDE DEF was, is
<1>3. is = [status |-> is.status, method |-> is.method, amount |-> is.amount,
            recorder |-> is.recorder, held |-> is.held, approver |-> is.approver,
            receiptNo |-> is.receiptNo, pushed |-> is.pushed]
  BY <1>1 DEF PaymentRow
<1>4. FlushedPayment(was, is, was) = is
  BY <1>2, <1>3
<1>5. QED
  BY <1>1, <1>4 DEF was, is

LEMMA SettledAlone ==
    ASSUME IInv, SerialInv, NEW h \in Handlers, CommitConfirmed(h)
    PROVE  /\ invoice \in [Invoices -> InvoiceRow] /\ Accurate(invoice)
           /\ req[h].is.amount \in Nat
           /\ \E rem \in Spreads(invoice, req[h].is.amount, Count) :
                invoice' = Allocated(invoice, rem)
<1>1. /\ invoice \in [Invoices -> InvoiceRow] /\ req[h].is.amount \in Nat
      /\ Accurate(invoice) /\ req[h].books = invoice
  BY DEF CommitConfirmed, SerialInv, LoadedOK, IInv, TypeOK, Request, PaymentRow
<1>2. PICK rem \in Spreads(invoice, req[h].is.amount, Count) :
        invoice' = [i \in Invoices |->
            FlushedInvoice(invoice[i], Credited(invoice[i], rem[i], i \in PastDue),
                           invoice[i])]
  BY <1>1 DEF CommitConfirmed, Settle
<1>3. ASSUME NEW i \in Invoices
      PROVE  FlushedInvoice(invoice[i], Credited(invoice[i], rem[i], i \in PastDue),
                            invoice[i]) = Credited(invoice[i], rem[i], i \in PastDue)
  <2> DEFINE pastDue == i \in PastDue
             is == Credited(invoice[i], rem[i], pastDue)
  <2>1. rem[i] \in Nat /\ invoice[i] \in InvoiceRow /\ pastDue \in BOOLEAN
    BY <1>1, <1>2, InvoicesAssumption DEF Spreads, Invoices
  <2>2. is \in InvoiceRow
    <3> HIDE DEF pastDue
    <3>1. QED
      BY <2>1, CreditedRow
  <2> HIDE DEF is
  <2>3. is = [total |-> is.total, paid |-> is.paid, status |-> is.status]
    BY <2>2 DEF InvoiceRow
  <2>4. FlushedInvoice(invoice[i], is, invoice[i]) =
            [total |-> is.total, paid |-> is.paid, status |-> is.status]
    BY DEF FlushedInvoice, Flushed
  <2>5. FlushedInvoice(invoice[i], is, invoice[i]) = is
    BY <2>3, <2>4
  <2>6. QED
    BY <2>5 DEF is
<1>4. invoice' = Allocated(invoice, rem)
  BY <1>2, <1>3 DEF Allocated
<1>5. QED
  BY <1>1, <1>2, <1>4

LEMMA CommitAlone ==
    ASSUME IInv, SerialInv, NEW h \in Handlers, CommitConfirmed(h) \/ CommitOther(h)
    PROVE  SerialInv'
<1> DEFINE p == req[h].pay
           is == req[h].is
<1>1. /\ req[h].at = "ready" /\ sweep' = sweep /\ is.amount \in Amounts
      /\ req' = [req EXCEPT ![h] = Idle]
      /\ payment' = [payment EXCEPT ![p] = is]
  <2>1. req[h].at = "ready"
    BY DEF CommitConfirmed, CommitOther
  <2>2. QED
    BY <2>1, CommittedAlone DEF CommitConfirmed, CommitOther, SerialInv, LoadedOK
<1>2. sweep.at = "idle" /\ \A g \in Handlers \ {h} : req[g].at = "idle"
  BY <1>1 DEF SerialInv, Alone, IInv, TypeOK
<1>3. \A g \in Handlers : req'[g].at = "idle"
  BY <1>1, <1>2 DEF IInv, TypeOK, Idle
<1>4. Alone' /\ BatchOK' /\ \A g \in Handlers : LoadedOK(g)'
  BY <1>1, <1>2, <1>3 DEF SerialInv, Alone, BatchOK, LoadedOK
<1>5. PaidAmounts'
  <2> HIDE DEF p, is
  <2>1. QED
    BY <1>1 DEF SerialInv, PaidAmounts, IInv, TypeOK
<1>6. Accurate(invoice') /\ OldestFirst(invoice')
  <2>1. CASE CommitConfirmed(h)
    <3>1. /\ invoice \in [Invoices -> InvoiceRow] /\ Accurate(invoice)
          /\ OldestFirst(invoice) /\ is.amount \in Nat
      BY <2>1, SettledAlone DEF SerialInv
    <3>2. PICK rem \in Spreads(invoice, is.amount, Count) :
                invoice' = Allocated(invoice, rem)
      BY <2>1, SettledAlone
    <3> HIDE DEF is
    <3>3. Accurate(Allocated(invoice, rem))
      BY <3>1, AllocationSteps DEF Accurate
    <3>4. OldestFirst(Allocated(invoice, rem))
      BY <3>1, AllocationOldestFirst
    <3>5. QED
      BY <3>2, <3>3, <3>4
  <2>2. CASE CommitOther(h)
    BY <2>2 DEF CommitOther, SerialInv
  <2>3. QED
    BY <2>1, <2>2
<1>7. QED
  BY <1>4, <1>5, <1>6 DEF SerialInv, Accurate, AccurateRow, OldestFirst

LEMMA GivenUpAlone ==
    ASSUME ~Overlap, IInv, SerialInv, NEW h \in Handlers, Rollback(h) \/ Abort(h)
    PROVE  SerialInv'
<1>1. /\ req[h].at # "idle" /\ UNCHANGED <<payment, invoice, sweep>>
      /\ req'[h] = Idle /\ \A g \in Handlers \ {h} : req'[g] = req[g]
  BY DEF Rollback, Abort, Tables, IInv, TypeOK
<1>2. LoadedOK(h)'
  BY <1>1 DEF LoadedOK, Idle
<1>3. QED
  BY <1>1, <1>2, ServedAlone

(* The reconciler works alone, on what is still pending. *)
LEMMA SweepsAlone ==
    ASSUME ~Overlap, IInv, SerialInv, Sweeps \/ SweepAbort
    PROVE  SerialInv'
<1>1. UNCHANGED <<invoice, req>>
  BY DEF Sweeps, SweepBegin, SweepAsk, SweepCommit, SweepAbort, Tables
<1>2. \A h \in Handlers : req[h].at = "idle"
  BY DEF Sweeps, SweepBegin, SweepAsk, SweepCommit, SweepAbort, SerialInv, Alone
<1>3. Alone' /\ \A h \in Handlers : LoadedOK(h)'
  BY <1>1, <1>2 DEF Alone, LoadedOK
<1>4. BatchOK' /\ PaidAmounts'
  <2>1. CASE SweepBegin
    BY <2>1 DEF SweepBegin, Tables, BatchOK, PaidAmounts, SerialInv, Asleep, Overdue
  <2>2. CASE SweepAsk
    BY <2>2 DEF SweepAsk, Tables, BatchOK, PaidAmounts, SerialInv, IInv, TypeOK
  <2>3. CASE SweepCommit
    <3>1. ASSUME NEW p \in Payments
          PROVE  payment'[p].amount = payment[p].amount
                 /\ (payment[p].status = "ABSENT" => payment'[p].status = "ABSENT")
      BY <2>3, <3>1 DEF SweepCommit, IInv, TypeOK, PaymentRow, SerialInv, BatchOK
    <3>2. sweep'.due = {}
      BY <2>3 DEF SweepCommit, Asleep
    <3>3. QED
      BY <3>1, <3>2 DEF BatchOK, PaidAmounts, SerialInv
  <2>4. CASE SweepAbort
    BY <2>4 DEF SweepAbort, Tables, BatchOK, PaidAmounts, SerialInv, Asleep
  <2>5. QED
    BY <2>1, <2>2, <2>3, <2>4 DEF Sweeps
<1>5. QED
  BY <1>1, <1>3, <1>4 DEF SerialInv, Accurate, AccurateRow, OldestFirst

LEMMA NextSerial ==
    ASSUME ~Overlap, IInv, SerialInv, [Next]_vars
    PROVE  SerialInv'
<1>1. ASSUME UNCHANGED <<payment, invoice, req, sweep>> PROVE SerialInv'
  BY <1>1 DEF SerialInv, Alone, LoadedOK, BatchOK, PaidAmounts, Inserting,
              Accurate, AccurateRow, OldestFirst
<1>2. ASSUME NEW h \in Handlers, Starts(h) \/ Finishes(h) \/ Abort(h) PROVE SerialInv'
  BY <1>2, StartsAlone, ResolveAlone, CommitAlone, GivenUpAlone DEF Finishes
<1>3. ASSUME NEW p \in Payments, CustomerAnswers(p) \/ ClaimExpires(p) \/ Ages(p)
      PROVE  SerialInv'
  BY <1>1, <1>3 DEF CustomerAnswers, ClaimExpires, Ages, Tables
<1>4. CASE UNCHANGED vars
  BY <1>1, <1>4 DEF vars
<1>5. QED
  BY <1>2, <1>3, <1>4, SweepsAlone DEF Next

(* When requests do not overlap, rent is settled oldest debt first, through any
   sequence of payments, callbacks, polls, signatures, sweeps and failures
   (_allocate, open_invoices_for_tenancy). *)
THEOREM OldestFirstAlways == ~Overlap => (Spec => []OldestDebtFirst)
<1> SUFFICES ASSUME ~Overlap PROVE Spec => []OldestDebtFirst
  OBVIOUS
<1> DEFINE Both == IInv /\ SerialInv
<1>1. Init => Both
  BY InitInvariant, InitSerial
<1>2. Both /\ [Next]_vars => Both'
  BY NextInvariant, NextSerial
<1>3. Both => OldestDebtFirst
  <2> SUFFICES ASSUME Both, NEW i \in Invoices, NEW j \in Invoices,
                      i < j, invoice[j].paid > 0
               PROVE  Balance(invoice[i]) <= 0
    BY DEF OldestDebtFirst
  <2>1. Total[i] <= invoice[i].paid /\ invoice[i].total = Total[i]
    BY DEF SerialInv, OldestFirst, Accurate, AccurateRow
  <2>2. invoice[i].paid \in Nat /\ Total[i] \in Nat
    BY InvoicesAssumption DEF IInv, TypeOK, InvoiceRow
  <2>3. QED
    BY <2>1, <2>2 DEF Balance
<1>4. QED
  BY <1>1, <1>2, <1>3, PTL DEF Spec

-----------------------------------------------------------------------------
(* The promise of RentReceived *)

(* every step of requests that do not overlap is a step of the promise *)
LEMMA InitPromise == Init => Promise!Init
<1> SUFFICES ASSUME Init PROVE Promise!Init
  OBVIOUS
<1>1. [p \in Payments |-> Standing(payment[p])] = [p \in Payments |-> "unknown"]
  BY DEF Init, Standing, NoPayment
<1>2. SumOver([i \in Invoices |-> invoice[i].paid], Invoices) = 0
  <2> DEFINE paid == [i \in Invoices |-> invoice[i].paid]
             zero == [i \in Invoices |-> 0]
  <2>1. IsFiniteSet(Invoices) /\ \A i \in Invoices : paid[i] = 0 /\ paid[i] \in Int
    BY InvoicesAssumption, FS_Interval DEF Init, OpeningBooks, Invoices
  <2>2. SumOver(paid, Invoices) = 0
    <3> HIDE DEF paid
    <3>1. QED
      BY <2>1, SumOfZeros
  <2>3. QED
    BY <2>2
<1>3. QED
  BY <1>1, <1>2 DEF Promise!Init

standings == [p \in Payments |-> Standing(payment[p])]

(* Steps that leave statuses and invoices are steps the promise does not see. *)
LEMMA PromiseStutters ==
    ASSUME \A p \in Payments : payment'[p].status = payment[p].status,
           UNCHANGED invoice
    PROVE  UNCHANGED <<standings, Credit(invoice)>>
<1>1. standings' = standings
  BY DEF standings, Standing
<1>2. Credit(invoice)' = Credit(invoice)
  BY DEF Credit
<1>3. QED
  BY <1>1, <1>2

(* A confirmation banks the payment, and credits its amount up to the debt. *)
LEMMA CommitBanks ==
    ASSUME IInv, SerialInv, NEW h \in Handlers, CommitConfirmed(h)
    PROVE  \E p \in Payments, amount \in Amounts :
            /\ standings[p] # "banked"
            /\ standings' = [standings EXCEPT ![p] = "banked"]
            /\ Credit(invoice)' = IF Credit(invoice) + amount <= TotalDebt
                                  THEN Credit(invoice) + amount ELSE TotalDebt
<1> DEFINE p == req[h].pay
           is == req[h].is
           amount == is.amount
<1>1. /\ p \in Payments /\ amount \in Amounts /\ is.status = "CONFIRMED"
      /\ payment[p].status # "CONFIRMED"
  BY DEF CommitConfirmed, IInv, RequestsOK, ServedOK, RequestOK, SerialInv, LoadedOK
<1>2. payment' = [payment EXCEPT ![p] = is]
  BY CommittedAlone DEF CommitConfirmed
<1>3. standings' = [standings EXCEPT ![p] = "banked"] /\ standings[p] # "banked"
  <2> HIDE DEF p, is
  <2>1. \A q \in Payments : payment'[q] = IF q = p THEN is ELSE payment[q]
    BY <1>2 DEF IInv, TypeOK
  <2>2. QED
    BY <1>1, <2>1 DEF standings, Standing
<1>4. Credit(invoice') = IF Credit(invoice) + amount <= TotalDebt
                         THEN Credit(invoice) + amount ELSE TotalDebt
  <2>1. /\ invoice \in [Invoices -> InvoiceRow] /\ Accurate(invoice) /\ amount \in Nat
    BY SettledAlone
  <2>2. PICK rem \in Spreads(invoice, amount, Count) : invoice' = Allocated(invoice, rem)
    BY SettledAlone
  <2> HIDE DEF amount
  <2>3. Credit(Allocated(invoice, rem)) =
            IF Credit(invoice) + amount <= TotalDebt THEN Credit(invoice) + amount
                                                     ELSE TotalDebt
    BY <2>1, AllocationCredits
  <2>4. QED
    BY <2>2, <2>3
<1>5. Credit(invoice)' = Credit(invoice')
  BY DEF Credit
<1> HIDE DEF p, amount
<1>6. QED
  BY <1>1, <1>3, <1>4, <1>5

(* Any other commit opens a payment, or refuses one that is not banked. *)
LEMMA CommitOpensOrRefuses ==
    ASSUME IInv, SerialInv, NEW h \in Handlers, CommitOther(h)
    PROVE  /\ Credit(invoice)' = Credit(invoice)
           /\ \/ \E p \in Payments : /\ standings[p] = "unknown"
                                     /\ standings' = [standings EXCEPT ![p] = "open"]
              \/ \E P \in SUBSET Payments :
                    /\ \A p \in P : standings[p] # "banked"
                    /\ standings' = [p \in Payments |->
                            IF p \in P THEN "refused" ELSE standings[p]]
<1> DEFINE p == req[h].pay
           is == req[h].is
<1>1. /\ p \in Payments /\ req[h].at = "ready" /\ ServedOK(h)
      /\ is.status \in {"PENDING", "FAILED", "CANCELLED"}
      /\ payment[p].status # "CONFIRMED"
      /\ is.status = "PENDING" => payment[p].status = "ABSENT"
  <2>1. ServedOK(h) /\ LoadedOK(h) /\ req[h].at = "ready" /\ is.status # "CONFIRMED"
    BY DEF CommitOther, IInv, RequestsOK, SerialInv
  <2>2. is \in PaymentRow
    BY DEF IInv, TypeOK, Request
  <2>3. is.status \in {"PENDING", "FAILED", "CANCELLED"}
    BY <2>1, <2>2 DEF ServedOK, RequestOK, PaymentRow, PaymentStatus
  <2>4. is.status = "PENDING" => payment[p].status = "ABSENT"
    BY <2>1 DEF LoadedOK, ServedOK, InsertOK, NoPayment
  <2>5. QED
    BY <2>1, <2>3, <2>4 DEF ServedOK, RequestOK, LoadedOK
<1>2. payment' = [payment EXCEPT ![p] = is]
  BY CommittedAlone DEF CommitOther
<1>3. Credit(invoice)' = Credit(invoice)
  BY DEF CommitOther, Credit
<1>4. \A q \in Payments : payment'[q] = IF q = p THEN is ELSE payment[q]
  BY <1>2 DEF IInv, TypeOK
<1> HIDE DEF p, is
<1>5. CASE is.status = "PENDING"
  <2>1. standings[p] = "unknown" /\ standings' = [standings EXCEPT ![p] = "open"]
    BY <1>1, <1>4, <1>5 DEF standings, Standing
  <2>2. QED
    BY <1>1, <1>3, <2>1
<1>6. CASE is.status # "PENDING"
  <2> DEFINE P == {p}
  <2>1. /\ P \in SUBSET Payments /\ \A q \in P : standings[q] # "banked"
        /\ standings' = [q \in Payments |-> IF q \in P THEN "refused" ELSE standings[q]]
    BY <1>1, <1>4, <1>6 DEF standings, Standing
  <2> HIDE DEF P
  <2>2. QED
    BY <1>3, <2>1
<1>7. QED
  BY <1>5, <1>6

(* The reconciler refuses some of the payments it found pending. *)
LEMMA SweepRefuses ==
    ASSUME IInv, SerialInv, SweepCommit
    PROVE  /\ Credit(invoice)' = Credit(invoice)
           /\ \E P \in SUBSET Payments :
                /\ \A p \in P : standings[p] # "banked"
                /\ standings' = [p \in Payments |->
                        IF p \in P THEN "refused" ELSE standings[p]]
<1> DEFINE P == {p \in sweep.due : Verdict(p, sweep.answer[p]) # "PENDING"}
<1>1. P \in SUBSET Payments /\ \A p \in sweep.due : payment[p].status = "PENDING"
  BY DEF SerialInv, BatchOK, IInv, TypeOK
<1>2. \A p \in P : standings[p] # "banked"
  BY <1>1 DEF standings, Standing
<1>3. ASSUME NEW p \in Payments
      PROVE  Standing(payment'[p]) =
                IF p \in P THEN "refused" ELSE Standing(payment[p])
  <2> DEFINE verdict == Verdict(p, sweep.answer[p])
  <2>1. verdict \in {"FAILED", "CANCELLED", "PENDING"}
    BY DEF Verdict, Refused
  <2>2. CASE p \in sweep.due
    <3>1. payment'[p] = [payment[p] EXCEPT !.status =
                            Flushed("PENDING", verdict, payment[p].status)]
      BY <2>2 DEF SweepCommit
    <3>2. payment[p].status = "PENDING" /\ payment[p] \in PaymentRow
      BY <1>1, <2>2 DEF IInv, TypeOK
    <3>3. p \in P <=> verdict # "PENDING"
      BY <2>2
    <3> HIDE DEF verdict, P
    <3>4. payment'[p].status = verdict
      BY <3>1, <3>2 DEF Flushed, PaymentRow
    <3>5. QED
      BY <2>1, <3>2, <3>3, <3>4 DEF Standing
  <2>3. CASE p \notin sweep.due
    BY <2>3 DEF SweepCommit
  <2>4. QED
    BY <2>2, <2>3
<1>4. standings' = [p \in Payments |-> IF p \in P THEN "refused" ELSE standings[p]]
  <2> HIDE DEF P
  <2>1. QED
    BY <1>3 DEF standings
<1>5. Credit(invoice)' = Credit(invoice)
  BY DEF SweepCommit, Credit
<1> HIDE DEF P
<1>6. QED
  BY <1>1, <1>2, <1>4, <1>5

(* Every other step leaves what the promise is about. *)
LEMMA OtherStepsStutter ==
    ASSUME IInv, [Next]_vars, ~SweepCommit,
           \A h \in Handlers : ~CommitConfirmed(h) /\ ~CommitOther(h)
    PROVE  UNCHANGED <<payment, invoice>>
<1>1. ASSUME NEW h \in Handlers, Starts(h) PROVE UNCHANGED <<payment, invoice>>
  <2>1. \A q, m, a, u, n : RecordBegin(h, q, m, a, u, n) => UNCHANGED <<payment, invoice>>
    BY DEF RecordBegin, Tables
  <2>2. \A q, a, u : StkBegin(h, q, a, u) => UNCHANGED <<payment, invoice>>
    BY DEF StkBegin, Tables
  <2>3. \A q : CallbackBegin(h, q) \/ PollBegin(h, q) => UNCHANGED <<payment, invoice>>
    BY DEF CallbackBegin, PollBegin, Tables
  <2>4. \A q, u : ApproveBegin(h, q, u) \/ RejectBegin(h, q, u)
                    => UNCHANGED <<payment, invoice>>
    BY DEF ApproveBegin, RejectBegin, Tables
  <2>5. QED
    BY <1>1, <2>1, <2>2, <2>3, <2>4 DEF Starts
<1>2. \A h \in Handlers : Resolve(h) \/ Rollback(h) \/ Abort(h)
                            => UNCHANGED <<payment, invoice>>
  BY DEF Resolve, Rollback, Abort, Tables
<1>3. SweepBegin \/ SweepAsk \/ SweepAbort => UNCHANGED <<payment, invoice>>
  BY DEF SweepBegin, SweepAsk, SweepAbort, Tables
<1>4. \A q \in Payments : CustomerAnswers(q) \/ ClaimExpires(q) \/ Ages(q)
                            => UNCHANGED <<payment, invoice>>
  BY DEF CustomerAnswers, ClaimExpires, Ages, Tables
<1>5. UNCHANGED vars => UNCHANGED <<payment, invoice>>
  BY DEF vars
<1>6. QED
  BY <1>1, <1>2, <1>3, <1>4, <1>5 DEF Next, Finishes, Sweeps

LEMMA StepPromise ==
    ASSUME IInv, SerialInv, [Next]_vars
    PROVE  [Promise!Next]_<<[p \in Payments |-> Standing(payment[p])],
                            SumOver([i \in Invoices |-> invoice[i].paid], Invoices)>>
<1>1. CASE \E h \in Handlers : CommitConfirmed(h)
  BY <1>1, CommitBanks DEF Promise!Next, Promise!Bank, standings, Credit
<1>2. CASE \E h \in Handlers : CommitOther(h)
  BY <1>2, CommitOpensOrRefuses
  DEF Promise!Next, Promise!Open, Promise!Refuse, standings, Credit
<1>3. CASE SweepCommit
  BY <1>3, SweepRefuses DEF Promise!Next, Promise!Refuse, standings, Credit
<1>4. CASE ~SweepCommit /\ \A h \in Handlers : ~CommitConfirmed(h) /\ ~CommitOther(h)
  BY <1>4, OtherStepsStutter, PromiseStutters DEF standings, Credit
<1>5. QED
  BY <1>1, <1>2, <1>3, <1>4

(* Payments, with all its channels, retries and failures, implements the promise
   of RentReceived when requests do not overlap: every step banks one payment for
   good and credits exactly its amount, up to the debt, or opens or refuses
   payments that are not banked, or changes neither. *)
THEOREM PaymentsKeepThePromise == ~Overlap => (Spec => KeepsPromise)
<1> SUFFICES ASSUME ~Overlap PROVE Spec => KeepsPromise
  OBVIOUS
<1> DEFINE Both == IInv /\ SerialInv
<1>1. Init => Both /\ Promise!Init
  BY InitInvariant, InitSerial, InitPromise
<1>2. Both /\ [Next]_vars => Both'
  BY NextInvariant, NextSerial
<1>3. Both /\ [Next]_vars =>
        [Promise!Next]_<<[p \in Payments |-> Standing(payment[p])],
                         SumOver([i \in Invoices |-> invoice[i].paid], Invoices)>>
  BY StepPromise
<1>4. QED
  BY <1>1, <1>2, <1>3, PTL DEF Spec, KeepsPromise, Promise!Spec
=============================================================================
