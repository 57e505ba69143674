----------------------------- MODULE RentLedger -----------------------------
(***************************************************************************)
(* How a tenancy's invoices come to be and change: the monthly run and the *)
(* "generate now" button (services/invoice_service.py), the service charge *)
(* and its reserve (service_charge_service.py), the daily late-fee run     *)
(* (late_fee_service.py), and money entered by a clerk, by a spreadsheet   *)
(* (import_service.py) or from a bank statement                            *)
(* (bank_transfer_service.py).                                             *)
(*                                                                         *)
(* Dates are counted in half months: month m is billed on date 2m - 1 and  *)
(* its grace period is over on date 2m.  A request reads, computes and     *)
(* flushes absolute values later; the unique key (tenancy, period_start)   *)
(* is what stops a month from being invoiced twice.                        *)
(***************************************************************************)
EXTENDS InvoiceBook, Sums, Sequences, FiniteSets, SequencesExt

CONSTANTS
    Tenancies,      \* the billable tenancies of one building
    Clerks,         \* requests and tasks that can be in flight at a time
    Months,         \* how many months are looked at
    Rent,           \* monthly_rent
    MeterCharge,    \* the amount of one meter reading
    MonthlyPool,    \* the pool of the service charge, split by occupied unit
    ReservePercent, \* sinking_fund_percent
    FeeRule,        \* late_fee_type, late_fee_amount, late_fee_cap
    Amounts,        \* what a tenant may pay at once
    MaxRequests     \* bound: how many requests and task runs are looked at

Month == 1 .. Months
LedgerDates == 1 .. 2 * Months
MonthOf(d) == (d + 1) \div 2

ASSUME LedgerAssumption ==
    /\ IsFiniteSet(Tenancies) /\ Tenancies # {} /\ Months \in Nat \ {0}
    /\ {Rent, MeterCharge, MonthlyPool, MaxRequests} \subseteq Nat /\ Rent > 0
    /\ ReservePercent \in 0 .. 100 /\ Amounts \subseteq Nat \ {0}
    /\ FeeRule.type \in {"FIXED", "PERCENT", "DAILY"}
    /\ FeeRule.cap \in Nat /\ FeeRule.amount \in Nat

VARIABLES
    today,    \* the date
    books,   \* the committed rows, as a record of tables (see Ledger)
    clerk,    \* the request each clerk's session is serving
    begun     \* how many requests have begun

ledgerVars == <<today, books, clerk, begun>>

(* A share of the service charge that bears the drift of rounding, and the
   arrears of an invoice whose total a stale late-fee run wrote back below what
   was paid, are negative. *)
Lines == [rent : Nat, meter : Nat, service : Int, arrears : Int]

LedgerRow == [total : Int, paid : Nat, status : Statuses]

Ledger ==
    [invoice  : [Tenancies -> [Month -> LedgerRow]],
     lines    : [Tenancies -> [Month -> Lines]],   \* invoice_line_items
     fees     : [Tenancies -> [Month -> Seq(Nat)]],  \* its LATE_FEE rows
     reading  : [Tenancies -> [Month -> BOOLEAN]],   \* taken in that month
     billedOn : [Tenancies -> [Month -> {0} \cup Month]], \* billed_invoice_id
     reserve  : [Month -> Int],   \* CONTRIBUTION rows, one per billing period
     drawn    : Nat,              \* WITHDRAWAL rows
     received : [Tenancies -> Nat]]  \* CONFIRMED payments

NoLines == [rent |-> 0, meter |-> 0, service |-> 0, arrears |-> 0]
Unraised == [total |-> 0, paid |-> 0, status |-> "PENDING"]

PerMonth(x) == [t \in Tenancies |-> [m \in Month |-> x]]

NewLedger ==
    [invoice |-> PerMonth(Unraised), lines |-> PerMonth(NoLines),
     fees |-> PerMonth(<<>>), reading |-> PerMonth(FALSE),
     billedOn |-> PerMonth(0), reserve |-> [m \in Month |-> 0], drawn |-> 0,
     received |-> [t \in Tenancies |-> 0]]

(* left: the rows of a bank statement still to be recorded *)
AtRest == [at |-> "idle", was |-> NewLedger, is |-> NewLedger, left |-> {}]

LedgerTypeOK ==
    /\ today \in LedgerDates /\ begun \in 0 .. MaxRequests
    /\ books \in Ledger
    /\ \A c \in Clerks :
        /\ clerk[c].at \in {"idle", "ready", "between"}
        /\ clerk[c].was \in Ledger /\ clerk[c].is \in Ledger
        /\ clerk[c].left \subseteq Tenancies \X Amounts

LedgerInit ==
    /\ today = 1
    /\ books = NewLedger
    /\ clerk = [c \in Clerks |-> AtRest]
    /\ begun = 0

Begins(c) ==
    /\ clerk[c].at = "idle"
    /\ begun < MaxRequests
    /\ begun' = begun + 1

(* what the session of c will flush when it commits *)
Undertakes(c, new) ==
    /\ Begins(c)
    /\ new # books
    /\ clerk' = [clerk EXCEPT ![c] = [AtRest EXCEPT !.at = "ready", !.was = books,
                                                  !.is = new]]
    /\ UNCHANGED <<today, books>>

-----------------------------------------------------------------------------
(* Raising an invoice *)

Raised(book, t, m) == book.lines[t][m].rent > 0

(* Decimal.quantize: to the nearest, a half to the even one *)
Quantized(n, d) ==
    LET q == n \div d
        r == n % d
    IN  IF 2 * r > d \/ (2 * r = d /\ q % 2 = 1) THEN q + 1 ELSE q

(* apportion, BY_OCCUPIED_UNIT: equal shares, and what rounding lost or gained
   goes to one of the largest *)
Apportioned(pool, occupied) ==
    LET share == Quantized(pool, Cardinality(occupied))
        drift == pool - share * Cardinality(occupied)
        first == CHOOSE u \in occupied : TRUE
    IN  [u \in occupied |-> IF u = first THEN share + drift ELSE share]

(* outstanding_balance(before=period_start) *)
Outstanding(book, t, before) ==
    SumOver([m \in Month |->
                IF m < before /\ Raised(book, t, m) /\ IsOpen(book.invoice[t][m])
                THEN Balance(book.invoice[t][m]) ELSE 0], Month)

(* the months of the readings that _unbilled_utilities returns on date d; a
   reading is taken in the second half of its month *)
Unbilled(book, t, d) ==
    {k \in Month : book.reading[t][k] /\ book.billedOn[t][k] = 0 /\ 2 * k <= d}

ReserveSlice(charged) == Quantized(charged * ReservePercent, 100)

Bill(book, t, d) ==
    [rent |-> Rent, meter |-> MeterCharge * Cardinality(Unbilled(book, t, d)),
     service |-> Apportioned(MonthlyPool, Tenancies)[t],
     arrears |-> Outstanding(book, t, MonthOf(d))]

(* generate_invoice_for_tenancy, for each of the tenancies ts that has no
   invoice for the month yet: none looks at the rows of another *)
Invoiced(book, ts, d) ==
    LET m == MonthOf(d)
        new == {t \in ts : ~Raised(book, t, m)}
        bill == [t \in new |-> Bill(book, t, d)]
    IN  [book EXCEPT
            !.lines = [t \in Tenancies |-> [k \in Month |->
                IF t \in new /\ k = m THEN bill[t] ELSE @[t][k]]],
            !.invoice = [t \in Tenancies |-> [k \in Month |->
                IF t \in new /\ k = m
                THEN [Unraised EXCEPT !.total = bill[t].rent + bill[t].meter
                                                + bill[t].service + bill[t].arrears]
                ELSE @[t][k]]],
            !.billedOn = [t \in Tenancies |-> [k \in Month |->
                IF t \in new /\ k \in Unbilled(book, t, d) THEN m ELSE @[t][k]]],
            !.reserve[m] = @ + SumOver([t \in new |-> ReserveSlice(bill[t].service)], new)]

(* POST /invoices/generate; the operator chooses the issue date *)
GenerateInvoice(c, t, d) ==
    /\ ~Raised(books, t, MonthOf(d))
    /\ Undertakes(c, Invoiced(books, {t}, d))

(* the daily task, on the billing day: every tenancy in one transaction *)
GenerateDueInvoices(c) ==
    /\ today % 2 = 1
    /\ Undertakes(c, Invoiced(books, Tenancies, today))

RecordMeterReading(t) ==
    LET m == MonthOf(today) IN
    /\ today = 2 * m
    /\ ~books.reading[t][m]
    /\ books' = [books EXCEPT !.reading[t][m] = TRUE]
    /\ UNCHANGED <<today, clerk, begun>>

-----------------------------------------------------------------------------
(* Late fees *)

CalculatedFee(balance, daysPastGrace) ==
    LET fee == CASE FeeRule.type = "FIXED"   -> FeeRule.amount
                 [] FeeRule.type = "PERCENT" -> Quantized(balance * FeeRule.amount, 100)
                 [] FeeRule.type = "DAILY"   -> FeeRule.amount * daysPastGrace
    IN  Least(Least(fee, FeeRule.cap), balance)

FeeAgain(book, t, m) ==   \* mutant: `already_applied` is not looked up
    LET row == book.invoice[t][m]
        fee == CalculatedFee(Balance(row), today - 2 * m + 1)
    IN  IF Raised(book, t, m) /\ IsOpen(row) /\ today >= 2 * m /\ fee > 0
        THEN fee ELSE 0

(* what apply_late_fees charges on one invoice *)
FeeOn(book, t, m) ==
    LET row == book.invoice[t][m]
        fee == CalculatedFee(Balance(row), today - 2 * m + 1)
    IN  IF /\ Raised(book, t, m) /\ IsOpen(row)
           /\ today >= 2 * m
           /\ book.fees[t][m] = <<>>
           /\ fee > 0
        THEN fee ELSE 0

Charged(book) ==
    [book EXCEPT
        !.fees = [t \in Tenancies |-> [m \in Month |->
            IF FeeOn(book, t, m) = 0 THEN @[t][m] ELSE Append(@[t][m], FeeOn(book, t, m))]],
        !.invoice = [t \in Tenancies |-> [m \in Month |->
            LET row == @[t][m]
                fee == FeeOn(book, t, m)
            IN  IF fee = 0 THEN row
                ELSE [row EXCEPT !.total = row.total + fee, !.status = "OVERDUE"]]]]

(* the daily run over every overdue invoice *)
ApplyLateFees(c) ==
    Undertakes(c, Charged(books))

-----------------------------------------------------------------------------
(* Money *)

CreditedInFullEach(book, sheet) ==   \* mutant: `remaining` is never reduced
    [book EXCEPT
        !.received = [t \in Tenancies |-> IF t \in DOMAIN sheet THEN @[t] + sheet[t] ELSE @[t]],
        !.invoice = [t \in Tenancies |-> [m \in Month |->
            IF t \in DOMAIN sheet THEN Credited(@[t][m], sheet[t], today >= 2 * m)
            ELSE @[t][m]]]]

(* _allocate's `remaining` before each of one tenancy's invoices, oldest first *)
Remaining(book, t, amount) == CHOOSE rem \in Spreads(book.invoice[t], amount, Months) : TRUE

(* _allocate for each payment of the sheet, at most one a tenant *)
Credit(book, sheet) ==
    [book EXCEPT
        !.received = [t \in Tenancies |-> IF t \in DOMAIN sheet THEN @[t] + sheet[t] ELSE @[t]],
        !.invoice = [t \in Tenancies |->
            IF t \notin DOMAIN sheet THEN @[t]
            ELSE LET rem == Remaining(book, t, sheet[t])
                 IN  [m \in Month |-> Credited(@[t][m], rem[m], today >= 2 * m)]]]

OnePayment(t, amount) == [x \in {t} |-> amount]

(* record_cash_payment of money that needs no second signature *)
RecordPayment(c, t, amount) ==
    Undertakes(c, Credit(books, OnePayment(t, amount)))

(* _commit_payments: the rows that pass their savepoint, in one transaction *)
ImportPayments(c, sheet) ==
    Undertakes(c, Credit(books, sheet))

(* commit_statement: each row is recorded, and committed, by
   record_cash_payment before the next is read *)
BeginStatement(c, rows) ==
    /\ Begins(c)
    /\ clerk' = [clerk EXCEPT ![c] = [AtRest EXCEPT !.at = "between", !.left = rows]]
    /\ UNCHANGED <<today, books>>

RecordStatementRow(c) ==
    /\ clerk[c].at = "between"
    /\ \E r \in clerk[c].left :
        clerk' = [clerk EXCEPT ![c].at = "ready", ![c].was = books,
                                  ![c].is = Credit(books, OnePayment(r[1], r[2])),
                                  ![c].left = @ \ {r}]
    /\ UNCHANGED <<today, books, begun>>

ReserveBalance(book) == SumOver(book.reserve, Month) - book.drawn

(* record_sinking_fund_movement, a withdrawal *)
DrawReserve(c, amount) ==
    /\ amount <= ReserveBalance(books)
    /\ Undertakes(c, [books EXCEPT !.drawn = @ + amount])

-----------------------------------------------------------------------------
(* Commits *)

(* uq_invoice_period_per_tenancy: an invoice of this session exists already *)
Clashes(c) ==
    \E t \in Tenancies, m \in Month :
        /\ Raised(clerk[c].is, t, m) /\ ~Raised(clerk[c].was, t, m)
        /\ Raised(books, t, m)

(* updates write the columns the session changed; new rows are added *)
Merged(was, is, now) ==
    [invoice  |-> [t \in Tenancies |-> [m \in Month |->
                    FlushedInvoice(was.invoice[t][m], is.invoice[t][m],
                                   now.invoice[t][m])]],
     lines    |-> [t \in Tenancies |-> [m \in Month |->
                    Flushed(was.lines[t][m], is.lines[t][m], now.lines[t][m])]],
     fees     |-> [t \in Tenancies |-> [m \in Month |->
                    now.fees[t][m] \o SubSeq(is.fees[t][m], Len(was.fees[t][m]) + 1,
                                             Len(is.fees[t][m]))]],
     reading  |-> now.reading,
     billedOn |-> [t \in Tenancies |-> [m \in Month |->
                    Flushed(was.billedOn[t][m], is.billedOn[t][m], now.billedOn[t][m])]],
     reserve  |-> [m \in Month |-> IF was.reserve[m] = 0
                                   THEN now.reserve[m] + is.reserve[m]
                                   ELSE Flushed(was.reserve[m], is.reserve[m], now.reserve[m])],
     drawn    |-> now.drawn + is.drawn - was.drawn,
     received |-> [t \in Tenancies |-> now.received[t] + is.received[t] - was.received[t]]]

CommitLedger(c) ==
    /\ clerk[c].at = "ready"
    /\ ~Clashes(c)
    /\ books' = Merged(clerk[c].was, clerk[c].is, books)
    /\ clerk' = [clerk EXCEPT ![c] = IF clerk[c].left = {} THEN AtRest
                                     ELSE [AtRest EXCEPT !.at = "between", !.left = clerk[c].left]]
    /\ UNCHANGED <<today, begun>>

(* a crash, or the unique violation, which loses the whole transaction *)
AbortLedger(c) ==
    /\ clerk[c].at # "idle"
    /\ clerk' = [clerk EXCEPT ![c] = AtRest]
    /\ UNCHANGED <<today, books, begun>>

NextDay ==
    /\ today < 2 * Months
    /\ today' = today + 1
    /\ UNCHANGED <<books, clerk, begun>>

Sheets == UNION {[T -> Amounts] : T \in SUBSET Tenancies \ {{}}}
RowsOf(sheet) == {<<t, sheet[t]>> : t \in DOMAIN sheet}

LedgerNext ==
    \/ NextDay
    \/ \E t \in Tenancies : RecordMeterReading(t)
    \/ \E c \in Clerks :
        \/ GenerateDueInvoices(c) \/ ApplyLateFees(c)
        \/ \E t \in Tenancies, d \in LedgerDates : GenerateInvoice(c, t, d)
        \/ \E t \in Tenancies, a \in Amounts : RecordPayment(c, t, a)
        \/ \E sheet \in Sheets :
            ImportPayments(c, sheet) \/ BeginStatement(c, RowsOf(sheet))
        \/ RecordStatementRow(c)
        \/ \E a \in {ReserveSlice(MonthlyPool)} \ {0} : DrawReserve(c, a)
        \/ CommitLedger(c) \/ AbortLedger(c)

LedgerSpec == LedgerInit /\ [][LedgerNext]_ledgerVars

-----------------------------------------------------------------------------
(* Properties *)

(* Invoice m of tenancy t balances: its total is the sum of its lines, it
   bears at most one late fee, and it counts as paid exactly when nothing is
   owed on it. *)
Balanced(book, t, m) ==
    LET row == book.invoice[t][m]
        bill == book.lines[t][m]
    IN  /\ row.total = bill.rent + bill.meter + bill.service + bill.arrears
                       + FoldSeq(+, 0, book.fees[t][m])
        /\ Len(book.fees[t][m]) <= 1
        /\ row.status = "PAID" <=> (row.total > 0 /\ Balance(row) = 0)

(* every reading on a bill was charged by one bill, and the reserve holds the
   slice of every service charge billed *)
ChargedOnce(book, t) ==
    MeterCharge * Cardinality({k \in Month : book.billedOn[t][k] # 0})
        = SumOver([m \in Month |-> book.lines[t][m].meter], Month)

ReserveFed(book) ==
    \A m \in Month :
        book.reserve[m] = SumOver([t \in Tenancies |->
                                    ReserveSlice(book.lines[t][m].service)], Tenancies)

Sound(book) ==
    /\ \A t \in Tenancies, m \in Month : Balanced(book, t, m)
    /\ \A t \in Tenancies : ChargedOnce(book, t)
    /\ ReserveFed(book) /\ ReserveBalance(book) >= 0

(* Books that are sound (totals are the sums of their lines, one late fee an
   invoice, PAID means settled, a reading is charged once, the reserve is fed
   and never overdrawn) are made unsound only by a session that commits over
   rows that changed after it read them: run one after the other, billing, the
   late-fee run, imports and statements keep the books. *)
OnlyStaleWritersUnbalance ==
    [][Sound(books) /\ ~Sound(books') =>
        \E c \in Clerks : CommitLedger(c) /\ clerk[c].was # books]_ledgerVars

(* Whatever overlaps, invoices are never credited with more money than the
   tenant paid: stale allocations lose credit, they do not create it. *)
CreditIsBacked ==
    \A t \in Tenancies :
        SumOver([m \in Month |-> books.invoice[t][m].paid], Month)
            <= books.received[t]
==============================================================================
