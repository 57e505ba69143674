---------------------------- MODULE LedgerProofs ----------------------------
(***************************************************************************)
(* What RentLedger promises for every set of tenancies and requests.       *)
(*                                                                         *)
(* That credit is backed by money holds whatever overlaps, and the books   *)
(* alone do not say why: a commit writes absolute amounts over rows it may *)
(* have read long ago.  What carries from step to step is a bound on every *)
(* mixture of the amounts still in sight, each row's from the books or     *)
(* from what some session read: their sum is within the money received.  A *)
(* session adds to what it read no more than it received.                  *)
(***************************************************************************)
EXTENDS RentLedger, SumsProofs, SequenceTheorems

LEMMA MonthsAreNumbers ==
    /\ IsFiniteSet(Month) /\ Months \in Nat \ {0} /\ Month = 1 .. Months
    /\ \A m \in Month : m \in Nat
<1>1. Months \in Nat \ {0}
  BY LedgerAssumption
<1>2. IsFiniteSet(1 .. Months)
  BY <1>1, FS_Interval
<1>3. QED
  BY <1>1, <1>2 DEF Month

LEMMA MonthOfDate == ASSUME NEW d \in LedgerDates PROVE MonthOf(d) \in Month
BY LedgerAssumption DEF LedgerDates, MonthOf, Month

LEMMA QuantizedType ==
    ASSUME NEW n \in Int, NEW d \in Nat \ {0}
    PROVE  Quantized(n, d) \in Int
<1>1. n \div d \in Int
  OBVIOUS
<1>2. QED
  BY <1>1 DEF Quantized

LEMMA SliceType == ASSUME NEW n \in Int PROVE ReserveSlice(n) \in Int
<1>1. n * ReservePercent \in Int /\ 100 \in Nat \ {0}
  BY LedgerAssumption
<1>2. QED
  BY <1>1, QuantizedType DEF ReserveSlice

LEMMA SliceOfPool == ReserveSlice(MonthlyPool) \in Nat
<1>1. MonthlyPool * ReservePercent \in Nat
  BY LedgerAssumption
<1> DEFINE n == MonthlyPool * ReservePercent
<1> HIDE DEF n
<1>2. n \in Nat /\ n \div 100 \in Nat
  BY <1>1 DEF n
<1>3. QED
  BY <1>2 DEF ReserveSlice, Quantized, n

LEMMA ApportionedType ==
    ASSUME NEW t \in Tenancies
    PROVE  Apportioned(MonthlyPool, Tenancies)[t] \in Int
<1> DEFINE share == Quantized(MonthlyPool, Cardinality(Tenancies))
<1>1. Cardinality(Tenancies) \in Nat \ {0}
  BY LedgerAssumption, FS_CardinalityType, FS_EmptySet
<1>2. MonthlyPool \in Int
  BY LedgerAssumption
<1>3. share \in Int
  BY <1>1, <1>2, QuantizedType
<1> HIDE DEF share
<1>4. share * Cardinality(Tenancies) \in Int
  BY <1>1, <1>3
<1>5. QED
  BY <1>2, <1>3, <1>4 DEF Apportioned, share

LEMMA RowsOfABook ==
    ASSUME NEW b \in Ledger, NEW t \in Tenancies, NEW m \in Month
    PROVE  /\ b.invoice[t][m] \in LedgerRow /\ b.lines[t][m] \in Lines
           /\ b.fees[t][m] \in Seq(Nat) /\ b.billedOn[t][m] \in {0} \cup Month
           /\ b.reserve[m] \in Int /\ b.received[t] \in Nat /\ b.drawn \in Nat
           /\ Balance(b.invoice[t][m]) \in Int /\ b.invoice[t][m].paid \in Nat
BY DEF Ledger, LedgerRow, Balance

LEMMA OutstandingType ==
    ASSUME NEW b \in Ledger, NEW t \in Tenancies, NEW m \in Month
    PROVE  Outstanding(b, t, m) \in Int
<1> DEFINE owed == [k \in Month |->
                IF k < m /\ Raised(b, t, k) /\ IsOpen(b.invoice[t][k])
                THEN Balance(b.invoice[t][k]) ELSE 0]
<1>1. IsFiniteSet(Month) /\ \A k \in Month : owed[k] \in Int
  BY MonthsAreNumbers, RowsOfABook
<1>2. Outstanding(b, t, m) = SumOver(owed, Month)
  BY DEF Outstanding
<1> HIDE DEF owed
<1>3. QED
  BY <1>1, <1>2, SumType

LEMMA BillType ==
    ASSUME NEW b \in Ledger, NEW t \in Tenancies, NEW d \in LedgerDates
    PROVE  Bill(b, t, d) \in Lines
<1>1. MeterCharge * Cardinality(Unbilled(b, t, d)) \in Nat
  <2>1. Unbilled(b, t, d) \subseteq Month
    BY DEF Unbilled
  <2>2. Cardinality(Unbilled(b, t, d)) \in Nat
    BY <2>1, MonthsAreNumbers, FS_Subset, FS_CardinalityType
  <2>3. QED
    BY <2>2, LedgerAssumption
<1>2. Apportioned(MonthlyPool, Tenancies)[t] \in Int
  BY ApportionedType
<1>3. Outstanding(b, t, MonthOf(d)) \in Int
  BY MonthOfDate, OutstandingType
<1>4. QED
  BY <1>1, <1>2, <1>3, LedgerAssumption DEF Bill, Lines

-----------------------------------------------------------------------------
(* What one session adds to the books it read *)

Rise(a, b) == IF b > a THEN b - a ELSE 0

Rises(was, is, t) ==
    [m \in Month |-> Rise(was.invoice[t][m].paid, is.invoice[t][m].paid)]

(* Invoices are credited with no more than the session received. *)
Earned(was, is) ==
    /\ \A t \in Tenancies :
        /\ was.received[t] <= is.received[t]
        /\ SumOver(Rises(was, is, t), Month) <= is.received[t] - was.received[t]
    /\ was.drawn <= is.drawn

(* A session that credits nothing earns what it credits. *)
LEMMA NothingCredited ==
    ASSUME NEW was \in Ledger, NEW is \in Ledger,
           is.received = was.received, was.drawn <= is.drawn,
           \A t \in Tenancies, m \in Month :
               is.invoice[t][m].paid <= was.invoice[t][m].paid
    PROVE  Earned(was, is)
<1> SUFFICES ASSUME NEW t \in Tenancies
             PROVE  SumOver(Rises(was, is, t), Month) <= is.received[t] - was.received[t]
  BY DEF Earned, Ledger
<1> DEFINE f == Rises(was, is, t)
           none == [m \in Month |-> 0]
<1>1. ASSUME NEW m \in Month PROVE f[m] = 0
  BY RowsOfABook DEF Rises, Rise
<1>2. \A m \in Month : none[m] \in Int /\ f[m] = none[m]
  BY <1>1
<1>3. \A m \in Month : none[m] = 0
  OBVIOUS
<1>4. is.received[t] - was.received[t] = 0
  <2>1. was.received[t] \in Nat
    BY DEF Ledger
  <2>2. QED
    BY <2>1
<1> HIDE DEF f, none
<1>5. SumOver(f, Month) = SumOver(none, Month)
  BY <1>2, MonthsAreNumbers, SumEqual
<1>6. SumOver(none, Month) = 0
  BY <1>3, MonthsAreNumbers, SumOfZeros
<1>7. QED
  BY <1>4, <1>5, <1>6 DEF f

LEMMA InvoicedOK ==
    ASSUME NEW b \in Ledger, NEW ts \in SUBSET Tenancies, NEW d \in LedgerDates
    PROVE  Invoiced(b, ts, d) \in Ledger /\ Earned(b, Invoiced(b, ts, d))
<1> DEFINE month == MonthOf(d)
           new == {t \in ts : ~Raised(b, t, month)}
           bill == [t \in new |-> Bill(b, t, d)]
           slices == [t \in new |-> ReserveSlice(bill[t].service)]
           lines == [t \in Tenancies |-> [k \in Month |->
                IF t \in new /\ k = month THEN bill[t] ELSE b.lines[t][k]]]
           raised(t) == [Unraised EXCEPT !.total = bill[t].rent + bill[t].meter
                                                + bill[t].service + bill[t].arrears]
           invoice == [t \in Tenancies |-> [k \in Month |->
                IF t \in new /\ k = month THEN raised(t) ELSE b.invoice[t][k]]]
           billedOn == [t \in Tenancies |-> [k \in Month |->
                IF t \in new /\ k \in Unbilled(b, t, d) THEN month ELSE b.billedOn[t][k]]]
           reserve == [b.reserve EXCEPT ![month] = @ + SumOver(slices, new)]
           is == [b EXCEPT !.lines = lines, !.invoice = invoice, !.billedOn = billedOn,
                           !.reserve = reserve]
<1>1. Invoiced(b, ts, d) = is
  <2>1. [b EXCEPT !.lines = lines, !.invoice = invoice, !.billedOn = billedOn,
                  !.reserve[month] = @ + SumOver(slices, new)] = is
    BY DEF Ledger
  <2>2. QED
    BY <2>1 DEF Invoiced, Ledger
<1>2. month \in Month /\ new \subseteq Tenancies
  BY MonthOfDate
<1>3. ASSUME NEW t \in new PROVE bill[t] \in Lines
  <2>1. t \in Tenancies
    BY <1>2
  <2>2. QED
    BY <2>1, BillType
<1>4. ASSUME NEW t \in new PROVE raised(t) \in LedgerRow /\ raised(t).paid = 0
  BY <1>3 DEF Unraised, LedgerRow, Lines, Statuses
<1>5. SumOver(slices, new) \in Int
  <2>1. ASSUME NEW t \in new PROVE slices[t] \in Int
    BY <1>3, SliceType DEF Lines
  <2>2. IsFiniteSet(new)
    BY <1>2, LedgerAssumption, FS_Subset
  <2> HIDE DEF slices, new
  <2>3. QED
    BY <2>1, <2>2, SumType
<1> HIDE DEF month, new, bill, slices, raised
<1>6. lines \in [Tenancies -> [Month -> Lines]]
  BY <1>3, RowsOfABook
<1>7. invoice \in [Tenancies -> [Month -> LedgerRow]]
  BY <1>4, RowsOfABook
<1>8. billedOn \in [Tenancies -> [Month -> {0} \cup Month]]
  BY <1>2, RowsOfABook
<1>9. reserve \in [Month -> Int]
  BY <1>2, <1>5 DEF Ledger
<1>10. \A t \in Tenancies, m \in Month : invoice[t][m].paid <= b.invoice[t][m].paid
  BY <1>4, RowsOfABook
<1> HIDE DEF lines, invoice, billedOn, reserve
<1>11. is \in Ledger
  BY <1>6, <1>7, <1>8, <1>9 DEF Ledger
<1>12. is.received = b.received /\ is.drawn = b.drawn /\ b.drawn \in Nat /\ is.invoice = invoice
  BY DEF Ledger
<1> HIDE DEF is
<1>13. Earned(b, is)
  BY <1>10, <1>11, <1>12, NothingCredited
<1>14. QED
  BY <1>1, <1>11, <1>13

LEMMA FeeType ==
    ASSUME NEW b \in Ledger, NEW t \in Tenancies, NEW m \in Month, today \in LedgerDates
    PROVE  FeeOn(b, t, m) \in Nat
<1> DEFINE balance == Balance(b.invoice[t][m])
           days == today - 2 * m + 1
           fee == CalculatedFee(balance, days)
<1>1. balance \in Int /\ days \in Int
  BY RowsOfABook, MonthsAreNumbers DEF LedgerDates
<1> HIDE DEF balance, days
<1>2. fee \in Int
  <2>1. FeeRule.amount \in Nat /\ FeeRule.cap \in Nat /\ FeeRule.type \in {"FIXED", "PERCENT", "DAILY"}
    BY LedgerAssumption
  <2>2. balance * FeeRule.amount \in Int /\ FeeRule.amount * days \in Int /\ 100 \in Nat \ {0}
    BY <1>1, <2>1
  <2>3. Quantized(balance * FeeRule.amount, 100) \in Int
    BY <2>2, QuantizedType
  <2>4. QED
    BY <1>1, <2>1, <2>2, <2>3 DEF CalculatedFee, Least
<1>3. FeeOn(b, t, m) = fee \/ FeeOn(b, t, m) = 0
  BY DEF FeeOn, balance, days
<1>4. fee > 0 \/ FeeOn(b, t, m) = 0
  BY DEF FeeOn, balance, days
<1>5. QED
  BY <1>2, <1>3, <1>4

WithFee(row, extra) == [row EXCEPT !.total = row.total + extra, !.status = "OVERDUE"]

LEMMA OverdueRow ==
    ASSUME NEW row \in LedgerRow, NEW extra \in Int
    PROVE  WithFee(row, extra) \in LedgerRow /\ WithFee(row, extra).paid = row.paid
<1> DEFINE paid == [row EXCEPT !.total = row.total + extra]
           after == [paid EXCEPT !.status = "OVERDUE"]
<1>1. paid \in LedgerRow /\ paid.paid = row.paid
  BY DEF LedgerRow
<1> HIDE DEF paid
<1>2. after \in LedgerRow /\ after.paid = paid.paid
  BY <1>1 DEF LedgerRow, Statuses
<1>3. QED
  BY <1>1, <1>2 DEF paid, WithFee

LEMMA ChargedOK ==
    ASSUME NEW b \in Ledger, today \in LedgerDates
    PROVE  Charged(b) \in Ledger /\ Earned(b, Charged(b))
<1> DEFINE fee(t, m) == FeeOn(b, t, m)
           fees == [t \in Tenancies |-> [m \in Month |->
                IF fee(t, m) = 0 THEN b.fees[t][m] ELSE Append(b.fees[t][m], fee(t, m))]]
           row(t, m) == [b.invoice[t][m] EXCEPT !.total = b.invoice[t][m].total + fee(t, m),
                                                !.status = "OVERDUE"]
           invoice == [t \in Tenancies |-> [m \in Month |->
                IF fee(t, m) = 0 THEN b.invoice[t][m] ELSE row(t, m)]]
           is == [b EXCEPT !.fees = fees, !.invoice = invoice]
<1>1. Charged(b) = is
  BY DEF Charged
<1>2. \A t \in Tenancies, m \in Month : fee(t, m) \in Nat
  BY FeeType
<1> HIDE DEF fee
<1>3. \A t \in Tenancies, m \in Month :
        row(t, m) \in LedgerRow /\ row(t, m).paid = b.invoice[t][m].paid
  <2> SUFFICES ASSUME NEW t \in Tenancies, NEW m \in Month
               PROVE  row(t, m) \in LedgerRow /\ row(t, m).paid = b.invoice[t][m].paid
    OBVIOUS
  <2> DEFINE before == b.invoice[t][m]
             extra == fee(t, m)
  <2>1. before \in LedgerRow /\ extra \in Int
    BY <1>2, RowsOfABook
  <2>2. row(t, m) = WithFee(before, extra)
    BY DEF WithFee
  <2> HIDE DEF before, extra, row
  <2>3. row(t, m) \in LedgerRow /\ row(t, m).paid = before.paid
    BY <2>1, <2>2, OverdueRow
  <2>4. QED
    BY <2>3 DEF before
<1> HIDE DEF row
<1>4. fees \in [Tenancies -> [Month -> Seq(Nat)]]
  <2>1. ASSUME NEW t \in Tenancies, NEW m \in Month
        PROVE  Append(b.fees[t][m], fee(t, m)) \in Seq(Nat) /\ b.fees[t][m] \in Seq(Nat)
    BY <1>2, RowsOfABook
  <2>2. QED
    BY <2>1
<1>5. invoice \in [Tenancies -> [Month -> LedgerRow]]
  BY <1>3, RowsOfABook
<1>6. \A t \in Tenancies, m \in Month : invoice[t][m].paid <= b.invoice[t][m].paid
  BY <1>3, RowsOfABook
<1> HIDE DEF fees, invoice
<1>7. is \in Ledger
  BY <1>4, <1>5 DEF Ledger
<1>8. is.received = b.received /\ is.drawn = b.drawn /\ b.drawn \in Nat /\ is.invoice = invoice
  BY DEF Ledger
<1> HIDE DEF is
<1>9. Earned(b, is)
  BY <1>6, <1>7, <1>8, NothingCredited
<1>10. QED
  BY <1>1, <1>7, <1>9

-----------------------------------------------------------------------------
(* Allocating a payment *)

(* There is always a way to spread an amount over the invoices. *)
LEMMA SpreadExists ==
    ASSUME NEW rows, \A m \in Month : Balance(rows[m]) \in Int, NEW amount \in Nat
    PROVE  \E rem : rem \in Spreads(rows, amount, Months)
<1> DEFINE Upto(k) == {rem \in [1 .. k + 1 -> 0 .. amount] :
                        /\ rem[1] = amount
                        /\ \A i \in 1 .. k : rem[i + 1] = rem[i] - Applied(rows[i], rem[i])}
           S == {k \in Nat : k <= Months => Upto(k) # {}}
<1>1. 0 \in S
  <2> DEFINE rem == [i \in 1 .. 0 + 1 |-> amount]
  <2>1. rem \in [1 .. 0 + 1 -> 0 .. amount] /\ rem[1] = amount
    OBVIOUS
  <2>2. \A i \in 1 .. 0 : FALSE
    OBVIOUS
  <2> HIDE DEF rem
  <2>3. rem \in Upto(0)
    BY <2>1, <2>2
  <2>4. QED
    BY <2>3
<1>2. ASSUME NEW k \in Nat, k \in S PROVE k + 1 \in S
  <2> SUFFICES ASSUME k + 1 <= Months PROVE Upto(k + 1) # {}
    OBVIOUS
  <2>0. Upto(k) # {}
    <3>1. k <= Months
      BY MonthsAreNumbers
    <3> HIDE DEF Upto
    <3>2. QED
      BY <1>2, <3>1
  <2>1. PICK rem : rem \in Upto(k)
    <3> HIDE DEF Upto
    <3>1. QED
      BY <2>0
  <2> DEFINE taken == Applied(rows[k + 1], rem[k + 1])
             next == [i \in 1 .. k + 1 + 1 |-> IF i <= k + 1 THEN rem[i] ELSE rem[k + 1] - taken]
  <2>2. rem[k + 1] \in 0 .. amount
    BY <2>1
  <2>3. taken \in Nat /\ taken <= rem[k + 1]
    <3>1. k + 1 \in Month
      BY MonthsAreNumbers
    <3>2. Balance(rows[k + 1]) \in Int
      BY <3>1
    <3>3. QED
      BY <2>2, <3>2 DEF Applied, Least
  <2> HIDE DEF taken
  <2>4. \A i \in 1 .. k + 1 : rem[i] \in 0 .. amount
    BY <2>1
  <2>5. next \in [1 .. k + 1 + 1 -> 0 .. amount]
    BY <2>2, <2>3, <2>4
  <2>6. next[1] = amount
    BY <2>1
  <2>7. ASSUME NEW i \in 1 .. k + 1
        PROVE  next[i + 1] = next[i] - Applied(rows[i], next[i])
    <3>1. next[i] = rem[i]
      OBVIOUS
    <3>2. CASE i = k + 1
      <4>1. next[i + 1] = rem[i] - taken /\ taken = Applied(rows[i], rem[i])
        BY <3>2 DEF taken
      <4>2. QED
        BY <3>1, <4>1
    <3>3. CASE i # k + 1
      <4>1. i \in 1 .. k /\ next[i + 1] = rem[i + 1]
        BY <3>3
      <4>2. rem[i + 1] = rem[i] - Applied(rows[i], rem[i])
        BY <2>1, <4>1
      <4>3. QED
        BY <3>1, <4>1, <4>2
    <3>4. QED
      BY <3>2, <3>3
  <2> HIDE DEF next
  <2>8. next \in Upto(k + 1)
    BY <2>5, <2>6, <2>7
  <2>9. QED
    BY <2>8
<1>3. Months \in S
  <2> HIDE DEF S
  <2>1. QED
    BY <1>1, <1>2, CountingUp, MonthsAreNumbers
<1>4. PICK rem : rem \in Upto(Months)
  <2> HIDE DEF Upto
  <2>1. Upto(Months) # {}
    BY <1>3, MonthsAreNumbers
  <2>2. QED
    BY <2>1
<1>5. rem \in Spreads(rows, amount, Months)
  BY <1>4 DEF Spreads
<1>6. QED
  BY <1>5

LEMMA CreditedRow ==
    ASSUME NEW row \in LedgerRow, NEW remaining \in Nat, NEW pastDue \in BOOLEAN
    PROVE  LET taken == Applied(row, remaining)
               after == Credited(row, remaining, pastDue)
           IN  taken \in Nat /\ after \in LedgerRow /\ after.paid = row.paid + taken
<1> DEFINE taken == Applied(row, remaining)
           paid == [row EXCEPT !.paid = @ + taken]
           after == [paid EXCEPT !.status = Recalculated(paid, pastDue)]
<1>1. taken \in Nat /\ row.paid \in Nat
  BY DEF LedgerRow, Applied, Balance, Least
<1>2. Credited(row, remaining, pastDue) = IF taken = 0 THEN row ELSE after
  BY DEF Credited
<1> HIDE DEF taken
<1>3. paid \in LedgerRow /\ paid.paid = row.paid + taken
  BY <1>1 DEF LedgerRow
<1> HIDE DEF paid
<1>4. Recalculated(paid, pastDue) \in Statuses
  BY <1>3 DEF Recalculated, LedgerRow, Statuses
<1>5. after \in LedgerRow /\ after.paid = paid.paid
  BY <1>3, <1>4 DEF LedgerRow
<1> HIDE DEF after
<1>6. QED
  BY <1>1, <1>2, <1>3, <1>5 DEF taken

LEMMA CreditOK ==
    ASSUME NEW b \in Ledger, today \in LedgerDates,
           NEW T \in SUBSET Tenancies, NEW sheet \in [T -> Amounts]
    PROVE  Credit(b, sheet) \in Ledger /\ Earned(b, Credit(b, sheet))
<1> DEFINE rem(t) == Remaining(b, t, sheet[t])
           after(t, m) == Credited(b.invoice[t][m], rem(t)[m], today >= 2 * m)
           received == [t \in Tenancies |-> IF t \in T THEN b.received[t] + sheet[t]
                                                       ELSE b.received[t]]
           invoice == [t \in Tenancies |-> IF t \notin T THEN b.invoice[t]
                                           ELSE [m \in Month |-> after(t, m)]]
           is == [b EXCEPT !.received = received, !.invoice = invoice]
<1>1. Credit(b, sheet) = is
  <2>1. DOMAIN sheet = T
    OBVIOUS
  <2>2. QED
    BY <2>1 DEF Credit
<1>2. \A t \in T : t \in Tenancies /\ sheet[t] \in Nat
  BY LedgerAssumption
<1>3. ASSUME NEW t \in T PROVE rem(t) \in Spreads(b.invoice[t], sheet[t], Months)
  <2>1. \A m \in Month : Balance(b.invoice[t][m]) \in Int
    BY <1>2, RowsOfABook
  <2>2. \E r : r \in Spreads(b.invoice[t], sheet[t], Months)
    BY <1>2, <2>1, SpreadExists
  <2>3. QED
    BY <2>2 DEF Remaining
<1> HIDE DEF rem
<1>4. ASSUME NEW t \in T, NEW m \in Month
      PROVE  LET taken == Applied(b.invoice[t][m], rem(t)[m]) IN
             /\ taken \in Nat /\ rem(t)[m] \in Nat /\ rem(t)[m + 1] \in Nat
             /\ rem(t)[m + 1] = rem(t)[m] - taken
             /\ after(t, m) \in LedgerRow
             /\ after(t, m).paid = b.invoice[t][m].paid + taken
  <2> DEFINE row == b.invoice[t][m]
             remaining == rem(t)[m]
             pastDue == today >= 2 * m
  <2>1. /\ remaining \in Nat /\ rem(t)[m + 1] \in Nat
        /\ rem(t)[m + 1] = remaining - Applied(row, remaining)
    BY <1>2, <1>3, MonthsAreNumbers DEF Spreads
  <2>2. row \in LedgerRow /\ pastDue \in BOOLEAN
    BY <1>2, RowsOfABook
  <2>3. after(t, m) = Credited(row, remaining, pastDue)
    OBVIOUS
  <2> HIDE DEF row, remaining, pastDue, after
  <2>4. /\ Applied(row, remaining) \in Nat
        /\ Credited(row, remaining, pastDue) \in LedgerRow
        /\ Credited(row, remaining, pastDue).paid = row.paid + Applied(row, remaining)
    BY <2>1, <2>2, CreditedRow
  <2>5. QED
    BY <2>1, <2>3, <2>4 DEF row, remaining
<1> HIDE DEF after
<1>5. invoice \in [Tenancies -> [Month -> LedgerRow]]
  <2>1. ASSUME NEW t \in Tenancies PROVE b.invoice[t] \in [Month -> LedgerRow]
    BY DEF Ledger
  <2>2. QED
    BY <1>4, <2>1
<1>6. received \in [Tenancies -> Nat]
  BY <1>2 DEF Ledger
<1>7. ASSUME NEW t \in Tenancies
      PROVE  SumOver(Rises(b, is, t), Month) <= received[t] - b.received[t]
  <2>1. b.received[t] \in Nat /\ is.invoice = invoice
    BY DEF Ledger
  <2>2. CASE t \notin T
    <3> DEFINE f == Rises(b, is, t)
    <3>1. ASSUME NEW m \in Month PROVE f[m] = 0
      <4>1. invoice[t][m] = b.invoice[t][m] /\ b.invoice[t][m].paid \in Nat
        BY <2>2, RowsOfABook
      <4> HIDE DEF is, invoice
      <4>2. QED
        BY <2>1, <4>1 DEF Rises, Rise
    <3>2. received[t] - b.received[t] = 0
      BY <2>1, <2>2
    <3> HIDE DEF f
    <3>3. SumOver(f, Month) = 0
      BY <3>1, MonthsAreNumbers, SumOfZeros
    <3>4. QED
      BY <3>2, <3>3 DEF f
  <2>3. CASE t \in T
    <3> DEFINE f == Rises(b, is, t)
               g == rem(t)
               taken == [m \in Month |-> Applied(b.invoice[t][m], g[m])]
    <3>1. ASSUME NEW m \in Month
          PROVE  /\ taken[m] \in Nat /\ g[m] \in Nat /\ g[m + 1] \in Nat
                 /\ g[m + 1] = g[m] - taken[m] /\ f[m] = taken[m]
      <4>1. /\ invoice[t][m] = after(t, m) /\ b.invoice[t][m].paid \in Nat
        BY <2>3, RowsOfABook
      <4>2. LET x == Applied(b.invoice[t][m], rem(t)[m]) IN
            /\ x \in Nat /\ rem(t)[m] \in Nat /\ rem(t)[m + 1] \in Nat
            /\ rem(t)[m + 1] = rem(t)[m] - x
            /\ after(t, m).paid = b.invoice[t][m].paid + x
        BY <1>4, <2>3
      <4> HIDE DEF is, invoice
      <4>3. f[m] = taken[m]
        BY <2>1, <4>1, <4>2 DEF Rises, Rise
      <4>4. QED
        BY <4>2, <4>3
    <3>2. g[1] = sheet[t] /\ g[Months + 1] \in Nat /\ \A i \in 1 .. Months + 1 : g[i] \in Int
      <4>1. g \in [1 .. Months + 1 -> 0 .. sheet[t]] /\ g[1] = sheet[t]
        BY <1>3, <2>3 DEF Spreads
      <4>2. QED
        BY <1>2, <2>3, <4>1, MonthsAreNumbers
    <3>3. received[t] - b.received[t] = sheet[t] /\ sheet[t] \in Nat
      BY <1>2, <2>1, <2>3
    <3> HIDE DEF f, g, taken, received, is
    <3>4. SumOver(taken, 1 .. Months) = g[1] - g[Months + 1]
      <4>1. \A i \in 1 .. Months : taken[i] \in Int /\ g[i + 1] = g[i] - taken[i]
        BY <3>1, MonthsAreNumbers
      <4>2. Months \in Nat
        BY MonthsAreNumbers
      <4>3. \A i \in 1 .. Months + 1 : g[i] \in Int
        BY <3>2
      <4>4. QED
        BY <4>1, <4>2, <4>3, SumTelescopes
    <3>5. SumOver(f, Month) = SumOver(taken, Month)
      <4>1. \A m \in Month : taken[m] \in Int /\ f[m] = taken[m]
        BY <3>1
      <4>2. QED
        BY <4>1, MonthsAreNumbers, SumEqual
    <3>6. QED
      BY <3>2, <3>3, <3>4, <3>5, MonthsAreNumbers DEF f
  <2>4. QED
    BY <2>2, <2>3
<1> HIDE DEF received, invoice
<1>8. is \in Ledger
  BY <1>5, <1>6 DEF Ledger
<1>9. is.received = received /\ is.drawn = b.drawn /\ b.drawn \in Nat
  BY DEF Ledger
<1>10. \A t \in Tenancies : b.received[t] <= received[t]
  BY <1>2 DEF Ledger, received
<1> HIDE DEF is
<1>11. Earned(b, is)
  BY <1>7, <1>9, <1>10 DEF Earned
<1>12. QED
  BY <1>1, <1>8, <1>11

-----------------------------------------------------------------------------
(* What a commit leaves *)

LEMMA MergedFees ==
    ASSUME NEW a \in Seq(Nat), NEW b \in Seq(Nat), NEW c \in Seq(Nat)
    PROVE  c \o SubSeq(b, Len(a) + 1, Len(b)) \in Seq(Nat)
<1>1. SubSeq(b, Len(a) + 1, Len(b)) \in Seq(Nat)
  <2>1. CASE Len(a) <= Len(b)
    BY <2>1, SubSeqProperties
  <2>2. CASE ~(Len(a) <= Len(b))
    BY <2>2
  <2>3. QED
    BY <2>1, <2>2
<1>2. QED
  BY <1>1

LEMMA MergedOK ==
    ASSUME NEW was \in Ledger, NEW is \in Ledger, NEW now \in Ledger, Earned(was, is)
    PROVE  LET after == Merged(was, is, now) IN
           /\ after \in Ledger
           /\ \A t \in Tenancies :
                after.received[t] = now.received[t] + is.received[t] - was.received[t]
           /\ \A t \in Tenancies, m \in Month :
                after.invoice[t][m].paid =
                    Flushed(was.invoice[t][m].paid, is.invoice[t][m].paid,
                            now.invoice[t][m].paid)
<1> DEFINE after == Merged(was, is, now)
<1>1. \A t \in Tenancies, m \in Month :
        /\ FlushedInvoice(was.invoice[t][m], is.invoice[t][m], now.invoice[t][m]) \in LedgerRow
        /\ Flushed(was.lines[t][m], is.lines[t][m], now.lines[t][m]) \in Lines
        /\ Flushed(was.billedOn[t][m], is.billedOn[t][m], now.billedOn[t][m]) \in {0} \cup Month
  <2> SUFFICES ASSUME NEW t \in Tenancies, NEW m \in Month
               PROVE  /\ FlushedInvoice(was.invoice[t][m], is.invoice[t][m], now.invoice[t][m])
                            \in LedgerRow
                      /\ Flushed(was.lines[t][m], is.lines[t][m], now.lines[t][m]) \in Lines
                      /\ Flushed(was.billedOn[t][m], is.billedOn[t][m], now.billedOn[t][m])
                            \in {0} \cup Month
    OBVIOUS
  <2>1. \A b \in {is, now} :
            /\ b.invoice[t][m] \in LedgerRow /\ b.lines[t][m] \in Lines
            /\ b.billedOn[t][m] \in {0} \cup Month
    BY RowsOfABook
  <2>2. FlushedInvoice(was.invoice[t][m], is.invoice[t][m], now.invoice[t][m]) \in LedgerRow
    BY <2>1 DEF FlushedInvoice, Flushed, LedgerRow
  <2>3. QED
    BY <2>1, <2>2 DEF Flushed
<1>2. \A t \in Tenancies, m \in Month :
        now.fees[t][m] \o SubSeq(is.fees[t][m], Len(was.fees[t][m]) + 1, Len(is.fees[t][m]))
            \in Seq(Nat)
  BY MergedFees, RowsOfABook
<1>3. \A t \in Tenancies : now.received[t] + is.received[t] - was.received[t] \in Nat
  BY DEF Earned, Ledger
<1>4. now.drawn + is.drawn - was.drawn \in Nat
  <2>1. was.drawn \in Nat /\ is.drawn \in Nat /\ now.drawn \in Nat
    BY DEF Ledger
  <2>2. was.drawn <= is.drawn
    BY DEF Earned
  <2>3. QED
    BY <2>1, <2>2
<1>5. after \in Ledger
  <2> DEFINE reserve == [m \in Month |->
                            IF was.reserve[m] = 0 THEN now.reserve[m] + is.reserve[m]
                            ELSE Flushed(was.reserve[m], is.reserve[m], now.reserve[m])]
  <2>1. after.invoice \in [Tenancies -> [Month -> LedgerRow]]
    BY <1>1 DEF Merged
  <2>2. after.lines \in [Tenancies -> [Month -> Lines]]
    BY <1>1 DEF Merged
  <2>3. after.fees \in [Tenancies -> [Month -> Seq(Nat)]]
    BY <1>2 DEF Merged
  <2>4. after.billedOn \in [Tenancies -> [Month -> {0} \cup Month]]
    BY <1>1 DEF Merged
  <2>5. after.reserve \in [Month -> Int]
    <3>1. reserve \in [Month -> Int]
      BY DEF Flushed, Ledger
    <3>2. QED
      BY <3>1 DEF Merged
  <2>6. after.received \in [Tenancies -> Nat] /\ after.drawn \in Nat
    BY <1>3, <1>4 DEF Merged
  <2>7. after.reading \in [Tenancies -> [Month -> BOOLEAN]]
    BY DEF Merged, Ledger
  <2>8. after = [invoice |-> after.invoice, lines |-> after.lines, fees |-> after.fees,
                 reading |-> after.reading, billedOn |-> after.billedOn,
                 reserve |-> after.reserve, drawn |-> after.drawn,
                 received |-> after.received]
    BY DEF Merged
  <2> HIDE DEF after
  <2>9. QED
    BY <2>1, <2>2, <2>3, <2>4, <2>5, <2>6, <2>7, <2>8 DEF Ledger
<1>6. \A t \in Tenancies :
        after.received[t] = now.received[t] + is.received[t] - was.received[t]
  BY DEF Merged
<1>7. \A t \in Tenancies, m \in Month :
        after.invoice[t][m].paid = Flushed(was.invoice[t][m].paid, is.invoice[t][m].paid,
                                           now.invoice[t][m].paid)
  BY DEF Merged, FlushedInvoice
<1>8. QED
  BY <1>5, <1>6, <1>7

-----------------------------------------------------------------------------
(* Sessions *)

ClerkRow == [at : {"idle", "ready", "between"}, was : Ledger, is : Ledger,
             left : SUBSET (Tenancies \X Amounts)]

SessionsOK ==
    /\ clerk \in [Clerks -> ClerkRow]
    /\ \A c \in Clerks : Earned(clerk[c].was, clerk[c].is)

(* the amounts still in sight that invoice m of t was or is paid with *)
SeenIn(now, sessions, t, m) ==
    {0, now.invoice[t][m].paid} \cup {sessions[c].was.invoice[t][m].paid : c \in Clerks}

(* However the amounts in sight are mixed, the tenant paid for them. *)
Covered(now, sessions, t) ==
    \A p \in [Month -> Nat] :
        (\A m \in Month : p[m] \in SeenIn(now, sessions, t, m))
            => SumOver(p, Month) <= now.received[t]

(* the inductive invariant *)
LedgerIInv ==
    /\ today \in LedgerDates /\ begun \in 0 .. MaxRequests
    /\ books \in Ledger /\ SessionsOK
    /\ \A t \in Tenancies : Covered(books, clerk, t)

LEMMA NewLedgerOK == NewLedger \in Ledger /\ Earned(NewLedger, NewLedger)
<1>1. NewLedger \in Ledger
  BY LedgerAssumption DEF NewLedger, Ledger, PerMonth, Unraised, NoLines, Lines, LedgerRow, Statuses
<1>2. NewLedger.drawn \in Nat
  BY <1>1 DEF Ledger
<1>3. \A t \in Tenancies, m \in Month : NewLedger.invoice[t][m].paid \in Nat
  BY <1>1, RowsOfABook
<1> DEFINE b == NewLedger
<1> HIDE DEF b
<1>4. QED
  BY <1>1, <1>2, <1>3, NothingCredited DEF b

LEMMA AtRestOK == AtRest \in ClerkRow /\ Earned(AtRest.was, AtRest.is)
BY NewLedgerOK DEF AtRest, ClerkRow

LEMMA InitLedgerIInv == LedgerInit => LedgerIInv
<1> SUFFICES ASSUME LedgerInit PROVE LedgerIInv
  OBVIOUS
<1>1. today \in LedgerDates /\ begun \in 0 .. MaxRequests
  BY LedgerAssumption DEF LedgerInit, LedgerDates
<1>2. books \in Ledger
  BY NewLedgerOK DEF LedgerInit
<1>3. SessionsOK
  BY AtRestOK DEF LedgerInit, SessionsOK
<1>4. ASSUME NEW t \in Tenancies, NEW p \in [Month -> Nat],
             \A m \in Month : p[m] \in SeenIn(books, clerk, t, m)
      PROVE  SumOver(p, Month) <= books.received[t]
  <2>1. ASSUME NEW m \in Month PROVE p[m] = 0
    <3>1. p[m] \in SeenIn(books, clerk, t, m)
      BY <1>4
    <3>2. books.invoice[t][m].paid = 0
      BY DEF LedgerInit, NewLedger, PerMonth, Unraised
    <3>3. \A c \in Clerks : clerk[c].was.invoice[t][m].paid = 0
      BY DEF LedgerInit, AtRest, NewLedger, PerMonth, Unraised
    <3>4. QED
      BY <3>1, <3>2, <3>3 DEF SeenIn
  <2>2. SumOver(p, Month) = 0
    BY <2>1, MonthsAreNumbers, SumOfZeros
  <2>3. QED
    BY <1>2, <2>2 DEF Ledger
<1>5. QED
  BY <1>1, <1>2, <1>3, <1>4 DEF LedgerIInv, Covered

(* Steps that put no new amount in sight and lose no money. *)
LEMMA NothingNewInSight ==
    ASSUME NEW now \in Ledger, NEW then \in Ledger, NEW ss, NEW ss2, NEW t \in Tenancies,
           Covered(now, ss, t), now.received[t] <= then.received[t],
           \A m \in Month : SeenIn(then, ss2, t, m) \subseteq SeenIn(now, ss, t, m)
    PROVE  Covered(then, ss2, t)
<1> SUFFICES ASSUME NEW p \in [Month -> Nat],
                    \A m \in Month : p[m] \in SeenIn(then, ss2, t, m)
             PROVE  SumOver(p, Month) <= then.received[t]
  BY DEF Covered
<1>1. \A m \in Month : p[m] \in SeenIn(now, ss, t, m)
  OBVIOUS
<1>2. SumOver(p, Month) <= now.received[t]
  BY <1>1 DEF Covered
<1>3. SumOver(p, Month) \in Int
  <2>1. \A m \in Month : p[m] \in Int
    OBVIOUS
  <2>2. QED
    BY <2>1, MonthsAreNumbers, SumType
<1>4. now.received[t] \in Nat /\ then.received[t] \in Nat
  BY DEF Ledger
<1>5. QED
  BY <1>2, <1>3, <1>4

(* A request that begins reads the books, and earns what it credits. *)
LEMMA UndertakesKeeps ==
    ASSUME LedgerIInv, NEW c \in Clerks, NEW new \in Ledger, Earned(books, new),
           Undertakes(c, new)
    PROVE  LedgerIInv'
<1> DEFINE row == [AtRest EXCEPT !.at = "ready", !.was = books, !.is = new]
<1>1. /\ books' = books /\ today' = today /\ begun' \in 0 .. MaxRequests
      /\ clerk' = [clerk EXCEPT ![c] = row]
  BY LedgerAssumption DEF Undertakes, Begins, LedgerIInv
<1>2. row \in ClerkRow /\ row.was = books /\ row.is = new
  <2>1. books \in Ledger
    BY DEF LedgerIInv
  <2>2. QED
    BY <2>1, AtRestOK DEF ClerkRow
<1> HIDE DEF row
<1>3. SessionsOK'
  BY <1>1, <1>2 DEF SessionsOK, LedgerIInv
<1>4. ASSUME NEW t \in Tenancies PROVE Covered(books', clerk', t)
  <2>1. \A m \in Month : SeenIn(books', clerk', t, m) \subseteq SeenIn(books, clerk, t, m)
    BY <1>1, <1>2 DEF SeenIn, LedgerIInv, SessionsOK
  <2>2. books \in Ledger /\ books' = books /\ books.received[t] <= books.received[t]
    BY <1>1 DEF LedgerIInv, Ledger
  <2>3. Covered(books, clerk, t)
    BY DEF LedgerIInv
  <2>4. QED
    BY <2>1, <2>2, <2>3, NothingNewInSight
<1>5. QED
  BY <1>1, <1>3, <1>4 DEF LedgerIInv

-----------------------------------------------------------------------------
(* Every step *)

CommittedRow(c) ==
    IF clerk[c].left = {} THEN AtRest
    ELSE [AtRest EXCEPT !.at = "between", !.left = clerk[c].left]

(* What a commit adds to any mixture of amounts in sight, it received. *)
LEMMA CommitCovers ==
    ASSUME LedgerIInv, NEW c \in Clerks, CommitLedger(c), NEW t \in Tenancies
    PROVE  Covered(books', clerk', t)
<1> DEFINE was == clerk[c].was
           is == clerk[c].is
<1>1. /\ was \in Ledger /\ is \in Ledger /\ books \in Ledger /\ Earned(was, is)
      /\ Covered(books, clerk, t)
  BY DEF LedgerIInv, SessionsOK, ClerkRow
<1>2. /\ books' = Merged(was, is, books)
      /\ clerk' = [clerk EXCEPT ![c] = CommittedRow(c)]
      /\ clerk \in [Clerks -> ClerkRow]
  BY DEF CommitLedger, CommittedRow, LedgerIInv, SessionsOK
<1>3. /\ books'.received[t] = books.received[t] + is.received[t] - was.received[t]
      /\ \A m \in Month :
            books'.invoice[t][m].paid =
                Flushed(was.invoice[t][m].paid, is.invoice[t][m].paid,
                        books.invoice[t][m].paid)
  <2> HIDE DEF was, is
  <2>1. QED
    BY <1>1, <1>2, MergedOK
<1>4. ASSUME NEW m \in Month PROVE CommittedRow(c).was.invoice[t][m].paid = 0
  <2>1. CommittedRow(c).was = NewLedger
    BY DEF CommittedRow, AtRest
  <2>2. QED
    BY <2>1 DEF NewLedger, PerMonth, Unraised
<1>5. ASSUME NEW m \in Month
      PROVE  /\ was.invoice[t][m].paid \in Nat /\ is.invoice[t][m].paid \in Nat
             /\ was.invoice[t][m].paid \in SeenIn(books, clerk, t, m)
             /\ SeenIn(books', clerk', t, m) \subseteq
                    SeenIn(books, clerk, t, m) \cup {books'.invoice[t][m].paid}
  <2>1. was.invoice[t][m].paid \in Nat /\ is.invoice[t][m].paid \in Nat
    BY <1>1, RowsOfABook
  <2>2. was.invoice[t][m].paid \in SeenIn(books, clerk, t, m)
    BY DEF SeenIn
  <2>3. ASSUME NEW d \in Clerks
        PROVE  clerk'[d].was.invoice[t][m].paid \in SeenIn(books, clerk, t, m)
    <3>1. CASE d = c
      <4>1. clerk'[d] = CommittedRow(c)
        BY <1>2, <3>1
      <4>2. QED
        BY <1>4, <4>1 DEF SeenIn
    <3>2. CASE d # c
      <4>1. clerk'[d] = clerk[d]
        BY <1>2, <3>2
      <4>2. QED
        BY <4>1 DEF SeenIn
    <3>3. QED
      BY <3>1, <3>2
  <2>4. SeenIn(books', clerk', t, m) \subseteq
            SeenIn(books, clerk, t, m) \cup {books'.invoice[t][m].paid}
    <3> HIDE DEF was, is
    <3>1. 0 \in SeenIn(books, clerk, t, m)
      BY DEF SeenIn
    <3>2. QED
      BY <2>3, <3>1 DEF SeenIn
  <2>5. QED
    BY <2>1, <2>2, <2>4
<1> DEFINE rises == Rises(was, is, t)
<1>6. /\ \A m \in Month : rises[m] \in Nat /\ rises[m] = Rise(was.invoice[t][m].paid, is.invoice[t][m].paid)
      /\ SumOver(rises, Month) <= is.received[t] - was.received[t]
      /\ is.received[t] \in Nat /\ was.received[t] \in Nat /\ books.received[t] \in Nat
  <2>1. \A m \in Month : rises[m] = Rise(was.invoice[t][m].paid, is.invoice[t][m].paid)
    BY DEF Rises
  <2>2. is.received[t] \in Nat /\ was.received[t] \in Nat /\ books.received[t] \in Nat
    BY <1>1 DEF Ledger
  <2>3. SumOver(rises, Month) <= is.received[t] - was.received[t]
    <3> HIDE DEF was, is
    <3>1. QED
      BY <1>1 DEF Earned
  <2>4. \A m \in Month : rises[m] \in Nat
    <3> HIDE DEF was, is, rises
    <3>1. QED
      BY <1>5, <2>1 DEF Rise
  <2>5. QED
    BY <2>1, <2>2, <2>3, <2>4
<1> SUFFICES ASSUME NEW p \in [Month -> Nat],
                    \A m \in Month : p[m] \in SeenIn(books', clerk', t, m)
             PROVE  SumOver(p, Month) <= books'.received[t]
  BY DEF Covered
<1> DEFINE q == [m \in Month |-> IF p[m] \in SeenIn(books, clerk, t, m) THEN p[m]
                                 ELSE was.invoice[t][m].paid]
           qr == [m \in Month |-> q[m] + rises[m]]
<1>7. q \in [Month -> Nat] /\ \A m \in Month : q[m] \in SeenIn(books, clerk, t, m)
  BY <1>5
<1>8. ASSUME NEW m \in Month PROVE p[m] <= qr[m]
  <2>1. p[m] \in Nat /\ q[m] \in Nat /\ rises[m] \in Nat
    BY <1>6, <1>7
  <2>2. CASE p[m] \in SeenIn(books, clerk, t, m)
    <3>1. q[m] = p[m]
      BY <2>2
    <3> HIDE DEF q, rises
    <3>2. QED
      BY <2>1, <3>1
  <2>3. CASE p[m] \notin SeenIn(books, clerk, t, m)
    <3>1. p[m] = books'.invoice[t][m].paid
      BY <1>5, <2>3
    <3>2. books.invoice[t][m].paid \in SeenIn(books, clerk, t, m)
      BY DEF SeenIn
    <3>3. p[m] = is.invoice[t][m].paid
      BY <1>3, <2>3, <3>1, <3>2 DEF Flushed
    <3>4. q[m] = was.invoice[t][m].paid
      BY <2>3
    <3>5. rises[m] = Rise(was.invoice[t][m].paid, is.invoice[t][m].paid)
      BY <1>6
    <3>6. was.invoice[t][m].paid \in Nat /\ is.invoice[t][m].paid \in Nat
      BY <1>5
    <3> HIDE DEF q, rises, was, is
    <3>7. QED
      BY <3>3, <3>4, <3>5, <3>6 DEF Rise
  <2>4. QED
    BY <2>2, <2>3
<1> HIDE DEF q, rises, was, is
<1>9. \A m \in Month : q[m] \in Int /\ rises[m] \in Int /\ qr[m] = q[m] + rises[m]
  BY <1>6, <1>7
<1>10. \A m \in Month : p[m] \in Int /\ qr[m] \in Int /\ p[m] <= qr[m]
  BY <1>8, <1>9
<1> HIDE DEF qr
<1>11. SumOver(p, Month) <= SumOver(qr, Month)
  BY <1>10, MonthsAreNumbers, SumMonotone
<1>12. SumOver(qr, Month) = SumOver(q, Month) + SumOver(rises, Month)
  BY <1>9, MonthsAreNumbers, SumAdds
<1>13. SumOver(q, Month) <= books.received[t]
  BY <1>1, <1>7 DEF Covered
<1>14. SumOver(p, Month) \in Int /\ SumOver(q, Month) \in Int /\ SumOver(rises, Month) \in Int
  <2>1. SumOver(p, Month) \in Int
    BY <1>10, MonthsAreNumbers, SumType
  <2>2. SumOver(q, Month) \in Int
    BY <1>9, MonthsAreNumbers, SumType
  <2>3. SumOver(rises, Month) \in Int
    BY <1>9, MonthsAreNumbers, SumType
  <2>4. QED
    BY <2>1, <2>2, <2>3
<1>15. QED
  BY <1>3, <1>6, <1>11, <1>12, <1>13, <1>14

LEMMA CommitKeeps ==
    ASSUME LedgerIInv, NEW c \in Clerks, CommitLedger(c)
    PROVE  LedgerIInv'
<1> DEFINE was == clerk[c].was
           is == clerk[c].is
           row == CommittedRow(c)
<1>1. /\ books' = Merged(was, is, books) /\ clerk' = [clerk EXCEPT ![c] = row]
      /\ today' = today /\ begun' = begun
  BY DEF CommitLedger, CommittedRow
<1>2. was \in Ledger /\ is \in Ledger /\ books \in Ledger /\ Earned(was, is)
  BY DEF LedgerIInv, SessionsOK, ClerkRow
<1>3. row \in ClerkRow /\ row.was = AtRest.was /\ row.is = AtRest.is
  <2>1. clerk[c] \in ClerkRow
    BY DEF LedgerIInv, SessionsOK
  <2>2. QED
    BY <2>1, AtRestOK DEF CommittedRow, ClerkRow
<1> HIDE DEF was, is, row
<1>4. books' \in Ledger
  BY <1>1, <1>2, MergedOK
<1>5. SessionsOK'
  BY <1>1, <1>3, AtRestOK DEF SessionsOK, LedgerIInv
<1>6. QED
  BY <1>1, <1>4, <1>5, CommitCovers DEF LedgerIInv

LEMMA AbortKeeps ==
    ASSUME LedgerIInv, NEW c \in Clerks, AbortLedger(c)
    PROVE  LedgerIInv'
<1>1. clerk' = [clerk EXCEPT ![c] = AtRest] /\ UNCHANGED <<today, books, begun>>
  BY DEF AbortLedger
<1>2. SessionsOK'
  BY <1>1, AtRestOK DEF SessionsOK, LedgerIInv
<1>3. ASSUME NEW t \in Tenancies PROVE Covered(books', clerk', t)
  <2>1. \A m \in Month : AtRest.was.invoice[t][m].paid = 0
    BY DEF AtRest, NewLedger, PerMonth, Unraised
  <2>2. \A m \in Month : SeenIn(books', clerk', t, m) \subseteq SeenIn(books, clerk, t, m)
    BY <1>1, <2>1 DEF SeenIn, LedgerIInv, SessionsOK
  <2>3. books \in Ledger /\ books' = books /\ books.received[t] <= books.received[t]
    BY <1>1 DEF LedgerIInv, Ledger
  <2>4. Covered(books, clerk, t)
    BY DEF LedgerIInv
  <2>5. QED
    BY <2>2, <2>3, <2>4, NothingNewInSight
<1>4. QED
  BY <1>1, <1>2, <1>3 DEF LedgerIInv

(* the list of a statement *)
LEMMA BeginStatementKeeps ==
    ASSUME LedgerIInv, NEW c \in Clerks, NEW rows \in SUBSET (Tenancies \X Amounts),
           BeginStatement(c, rows)
    PROVE  LedgerIInv'
<1> DEFINE row == [AtRest EXCEPT !.at = "between", !.left = rows]
<1>1. /\ clerk' = [clerk EXCEPT ![c] = row] /\ books' = books /\ today' = today
      /\ begun' \in 0 .. MaxRequests
  BY LedgerAssumption DEF BeginStatement, Begins, LedgerIInv
<1>2. row \in ClerkRow /\ row.was = AtRest.was /\ row.is = AtRest.is
  BY AtRestOK DEF ClerkRow
<1> HIDE DEF row
<1>3. SessionsOK'
  BY <1>1, <1>2, AtRestOK DEF SessionsOK, LedgerIInv
<1>4. ASSUME NEW t \in Tenancies PROVE Covered(books', clerk', t)
  <2>1. \A m \in Month : row.was.invoice[t][m].paid = 0
    BY <1>2 DEF AtRest, NewLedger, PerMonth, Unraised
  <2>2. \A m \in Month : SeenIn(books', clerk', t, m) \subseteq SeenIn(books, clerk, t, m)
    BY <1>1, <2>1 DEF SeenIn, LedgerIInv, SessionsOK
  <2>3. books \in Ledger /\ books' = books /\ books.received[t] <= books.received[t]
    BY <1>1 DEF LedgerIInv, Ledger
  <2>4. Covered(books, clerk, t)
    BY DEF LedgerIInv
  <2>5. QED
    BY <2>2, <2>3, <2>4, NothingNewInSight
<1>5. QED
  BY <1>1, <1>3, <1>4 DEF LedgerIInv

LEMMA StatementRowKeeps ==
    ASSUME LedgerIInv, NEW c \in Clerks, RecordStatementRow(c)
    PROVE  LedgerIInv'
<1>1. PICK r \in clerk[c].left :
        clerk' = [clerk EXCEPT ![c].at = "ready", ![c].was = books,
                               ![c].is = Credit(books, OnePayment(r[1], r[2])),
                               ![c].left = @ \ {r}]
  BY DEF RecordStatementRow
<1> DEFINE sheet == OnePayment(r[1], r[2])
           row == [at |-> "ready", was |-> books, is |-> Credit(books, sheet),
                   left |-> clerk[c].left \ {r}]
<1>2. clerk[c] \in ClerkRow /\ books \in Ledger /\ today \in LedgerDates
  BY DEF LedgerIInv, SessionsOK
<1>3. r[1] \in Tenancies /\ r[2] \in Amounts
  BY <1>2 DEF ClerkRow
<1>4. sheet \in [{r[1]} -> Amounts] /\ {r[1]} \in SUBSET Tenancies
  BY <1>3 DEF OnePayment
<1>5. UNCHANGED <<today, books, begun>> /\ clerk' = [clerk EXCEPT ![c] = row]
  BY <1>1, <1>2 DEF RecordStatementRow, ClerkRow, LedgerIInv, SessionsOK
<1>6. Credit(books, sheet) \in Ledger /\ Earned(books, Credit(books, sheet))
  <2> HIDE DEF sheet
  <2>1. QED
    BY <1>2, <1>4, CreditOK
<1> HIDE DEF sheet
<1>7. /\ row \in ClerkRow /\ row.was = books /\ row.is = Credit(books, sheet)
  BY <1>2, <1>6 DEF ClerkRow
<1> HIDE DEF row
<1>8. SessionsOK'
  BY <1>5, <1>6, <1>7 DEF SessionsOK, LedgerIInv
<1>9. ASSUME NEW t \in Tenancies PROVE Covered(books', clerk', t)
  <2>1. \A m \in Month : SeenIn(books', clerk', t, m) \subseteq SeenIn(books, clerk, t, m)
    BY <1>5, <1>7 DEF SeenIn, LedgerIInv, SessionsOK
  <2>2. books' = books /\ books.received[t] <= books.received[t]
    BY <1>2, <1>5 DEF Ledger
  <2>3. Covered(books, clerk, t)
    BY DEF LedgerIInv
  <2>4. QED
    BY <1>2, <2>1, <2>2, <2>3, NothingNewInSight
<1>10. QED
  BY <1>5, <1>8, <1>9 DEF LedgerIInv

LEMMA ReadingKeeps ==
    ASSUME LedgerIInv, NEW t \in Tenancies, RecordMeterReading(t)
    PROVE  LedgerIInv'
<1> DEFINE m == MonthOf(today)
<1>1. /\ books' = [books EXCEPT !.reading[t][m] = TRUE] /\ UNCHANGED <<today, clerk, begun>>
      /\ m \in Month /\ books \in Ledger
  BY MonthOfDate DEF RecordMeterReading, LedgerIInv
<1> HIDE DEF m
<1>2. books' \in Ledger /\ books'.invoice = books.invoice /\ books'.received = books.received
  <2> DEFINE reading == [books.reading EXCEPT ![t] = [@ EXCEPT ![m] = TRUE]]
  <2>1. reading \in [Tenancies -> [Month -> BOOLEAN]]
    BY <1>1 DEF Ledger
  <2>2. books' = [books EXCEPT !.reading = reading]
    BY <1>1 DEF Ledger
  <2> HIDE DEF reading
  <2>3. QED
    BY <1>1, <2>1, <2>2 DEF Ledger
<1>3. ASSUME NEW u \in Tenancies PROVE Covered(books', clerk', u)
  <2>1. \A k \in Month : SeenIn(books', clerk', u, k) \subseteq SeenIn(books, clerk, u, k)
    BY <1>1, <1>2 DEF SeenIn
  <2>2. books.received[u] <= books'.received[u]
    BY <1>1, <1>2 DEF Ledger
  <2>3. Covered(books, clerk, u)
    BY DEF LedgerIInv
  <2>4. QED
    BY <1>1, <1>2, <2>1, <2>2, <2>3, NothingNewInSight
<1>4. QED
  BY <1>1, <1>2, <1>3 DEF LedgerIInv, SessionsOK

LEMMA DrawKeeps ==
    ASSUME LedgerIInv, NEW c \in Clerks, NEW amount \in Nat, DrawReserve(c, amount)
    PROVE  LedgerIInv'
<1> DEFINE new == [books EXCEPT !.drawn = @ + amount]
<1>1. books \in Ledger /\ Undertakes(c, new)
  BY DEF DrawReserve, LedgerIInv
<1>2. /\ new \in Ledger /\ new.received = books.received /\ books.drawn <= new.drawn
      /\ new.invoice = books.invoice
  <2>1. books.drawn \in Nat /\ books.drawn + amount \in Nat /\ books.drawn <= books.drawn + amount
    BY <1>1 DEF Ledger
  <2> DEFINE drawn == books.drawn + amount
  <2> HIDE DEF drawn
  <2>2. new = [books EXCEPT !.drawn = drawn]
    BY DEF drawn
  <2> HIDE DEF new
  <2>3. new \in Ledger
    BY <1>1, <2>1, <2>2 DEF drawn, Ledger
  <2>4. new.received = books.received /\ new.drawn = drawn /\ new.invoice = books.invoice
    BY <1>1, <2>2 DEF Ledger
  <2>5. QED
    BY <2>1, <2>3, <2>4 DEF drawn
<1>3. \A t \in Tenancies, m \in Month : new.invoice[t][m].paid <= books.invoice[t][m].paid
  BY <1>1, <1>2, RowsOfABook
<1> HIDE DEF new
<1>4. Earned(books, new)
  BY <1>1, <1>2, <1>3, NothingCredited
<1>5. QED
  BY <1>1, <1>2, <1>4, UndertakesKeeps

LEMMA NextDayKeeps == LedgerIInv /\ NextDay => LedgerIInv'
<1> SUFFICES ASSUME LedgerIInv, NextDay PROVE LedgerIInv'
  OBVIOUS
<1>1. today' \in LedgerDates /\ UNCHANGED <<books, clerk, begun>>
  BY LedgerAssumption DEF NextDay, LedgerIInv, LedgerDates
<1>2. SessionsOK'
  BY <1>1 DEF SessionsOK, LedgerIInv
<1>3. \A t \in Tenancies : Covered(books', clerk', t)
  BY <1>1 DEF LedgerIInv
<1>4. QED
  BY <1>1, <1>2, <1>3 DEF LedgerIInv

LEMMA PaymentKeeps ==
    ASSUME LedgerIInv, NEW c \in Clerks, NEW T \in SUBSET Tenancies, NEW sheet \in [T -> Amounts],
           Undertakes(c, Credit(books, sheet))
    PROVE  LedgerIInv'
<1>1. books \in Ledger /\ today \in LedgerDates
  BY DEF LedgerIInv
<1>2. Credit(books, sheet) \in Ledger /\ Earned(books, Credit(books, sheet))
  BY <1>1, CreditOK
<1> DEFINE new == Credit(books, sheet)
<1> HIDE DEF new
<1>3. new \in Ledger /\ Earned(books, new) /\ Undertakes(c, new)
  BY <1>2 DEF new
<1>4. QED
  BY <1>3, UndertakesKeeps

LEMMA InvoicingKeeps ==
    ASSUME LedgerIInv, NEW c \in Clerks, NEW ts \in SUBSET Tenancies, NEW d \in LedgerDates,
           Undertakes(c, Invoiced(books, ts, d))
    PROVE  LedgerIInv'
<1>1. books \in Ledger
  BY DEF LedgerIInv
<1>2. Invoiced(books, ts, d) \in Ledger /\ Earned(books, Invoiced(books, ts, d))
  BY <1>1, InvoicedOK
<1> DEFINE new == Invoiced(books, ts, d)
<1> HIDE DEF new
<1>3. new \in Ledger /\ Earned(books, new) /\ Undertakes(c, new)
  BY <1>2 DEF new
<1>4. QED
  BY <1>3, UndertakesKeeps

LEMMA LateFeesKeep ==
    ASSUME LedgerIInv, NEW c \in Clerks, ApplyLateFees(c)
    PROVE  LedgerIInv'
<1>1. books \in Ledger /\ today \in LedgerDates
  BY DEF LedgerIInv
<1>2. Charged(books) \in Ledger /\ Earned(books, Charged(books))
  BY <1>1, ChargedOK
<1> DEFINE new == Charged(books)
<1> HIDE DEF new
<1>3. new \in Ledger /\ Earned(books, new) /\ Undertakes(c, new)
  BY <1>2 DEF new, ApplyLateFees
<1>4. QED
  BY <1>3, UndertakesKeeps

LEMMA NextLedgerIInv == LedgerIInv /\ [LedgerNext]_ledgerVars => LedgerIInv'
<1> SUFFICES ASSUME LedgerIInv, [LedgerNext]_ledgerVars PROVE LedgerIInv'
  OBVIOUS
<1>1. CASE NextDay
  BY <1>1, NextDayKeeps
<1>2. CASE \E t \in Tenancies : RecordMeterReading(t)
  BY <1>2, ReadingKeeps
<1>3. ASSUME NEW c \in Clerks, GenerateDueInvoices(c) PROVE LedgerIInv'
  <2>1. Undertakes(c, Invoiced(books, Tenancies, today)) /\ today \in LedgerDates
    BY <1>3 DEF GenerateDueInvoices, LedgerIInv
  <2>2. Tenancies \in SUBSET Tenancies
    OBVIOUS
  <2>3. QED
    BY <2>1, <2>2, InvoicingKeeps
<1>4. ASSUME NEW c \in Clerks, ApplyLateFees(c) PROVE LedgerIInv'
  BY <1>4, LateFeesKeep
<1>5. ASSUME NEW c \in Clerks, NEW t \in Tenancies, NEW d \in LedgerDates,
             GenerateInvoice(c, t, d)
      PROVE  LedgerIInv'
  <2> DEFINE ts == {t}
  <2>1. Undertakes(c, Invoiced(books, ts, d)) /\ ts \in SUBSET Tenancies
    BY <1>5 DEF GenerateInvoice
  <2> HIDE DEF ts
  <2>2. QED
    BY <2>1, InvoicingKeeps
<1>6. ASSUME NEW c \in Clerks, NEW t \in Tenancies, NEW a \in Amounts, RecordPayment(c, t, a)
      PROVE  LedgerIInv'
  <2> DEFINE T == {t}
             sheet == OnePayment(t, a)
  <2>1. /\ T \in SUBSET Tenancies /\ sheet \in [T -> Amounts]
        /\ Undertakes(c, Credit(books, sheet))
    BY <1>6 DEF RecordPayment, OnePayment
  <2> HIDE DEF T, sheet
  <2>2. QED
    BY <2>1, PaymentKeeps
<1>7. ASSUME NEW c \in Clerks, NEW sheet \in Sheets, ImportPayments(c, sheet) PROVE LedgerIInv'
  <2>1. PICK T \in SUBSET Tenancies : sheet \in [T -> Amounts]
    BY DEF Sheets
  <2>2. Undertakes(c, Credit(books, sheet))
    BY <1>7 DEF ImportPayments
  <2>3. QED
    BY <2>1, <2>2, PaymentKeeps
<1>8. ASSUME NEW c \in Clerks, NEW sheet \in Sheets, BeginStatement(c, RowsOf(sheet))
      PROVE  LedgerIInv'
  <2>1. PICK T \in SUBSET Tenancies : sheet \in [T -> Amounts]
    BY DEF Sheets
  <2> DEFINE rows == RowsOf(sheet)
  <2>2. rows \in SUBSET (Tenancies \X Amounts)
    BY <2>1 DEF RowsOf
  <2> HIDE DEF rows
  <2>3. BeginStatement(c, rows)
    BY <1>8 DEF rows
  <2>4. QED
    BY <2>2, <2>3, BeginStatementKeeps
<1>9. ASSUME NEW c \in Clerks, RecordStatementRow(c) PROVE LedgerIInv'
  BY <1>9, StatementRowKeeps
<1>10. ASSUME NEW c \in Clerks, NEW a \in {ReserveSlice(MonthlyPool)} \ {0}, DrawReserve(c, a)
       PROVE  LedgerIInv'
  <2>1. a \in Nat
    BY SliceOfPool
  <2>2. QED
    BY <1>10, <2>1, DrawKeeps
<1>11. ASSUME NEW c \in Clerks, CommitLedger(c) PROVE LedgerIInv'
  BY <1>11, CommitKeeps
<1>12. ASSUME NEW c \in Clerks, AbortLedger(c) PROVE LedgerIInv'
  BY <1>12, AbortKeeps
<1>13. CASE UNCHANGED ledgerVars
  <2>1. today' = today /\ books' = books /\ clerk' = clerk /\ begun' = begun
    BY <1>13 DEF ledgerVars
  <2>2. SessionsOK'
    BY <2>1 DEF LedgerIInv, SessionsOK
  <2>3. QED
    BY <2>1, <2>2 DEF LedgerIInv
<1>14. QED
  BY <1>1, <1>2, <1>3, <1>4, <1>5, <1>6, <1>7, <1>8, <1>9, <1>10, <1>11, <1>12, <1>13
     DEF LedgerNext

LEMMA LedgerIInvAlways == LedgerSpec => []LedgerIInv
BY InitLedgerIInv, NextLedgerIInv, PTL DEF LedgerSpec

(* The books, and what every session read and will write, keep their types:
   no count of money received or paid goes below zero, whatever overlaps. *)
THEOREM LedgerIsWellTyped == LedgerSpec => []LedgerTypeOK
<1>1. LedgerIInv => LedgerTypeOK
  BY DEF LedgerIInv, SessionsOK, ClerkRow, LedgerTypeOK
<1>2. QED
  BY <1>1, LedgerIInvAlways, PTL

(* Invoices are never credited with more than the tenant paid: a stale
   allocation loses credit (_allocate, record_cash_payment, _commit_payments
   and commit_statement, interleaved in any way), it does not create any. *)
THEOREM CreditIsAlwaysBacked == LedgerSpec => []CreditIsBacked
<1>1. LedgerIInv => CreditIsBacked
  <2> SUFFICES ASSUME LedgerIInv, NEW t \in Tenancies
               PROVE  SumOver([m \in Month |-> books.invoice[t][m].paid], Month)
                        <= books.received[t]
    BY DEF CreditIsBacked
  <2> DEFINE p == [m \in Month |-> books.invoice[t][m].paid]
  <2>1. books \in Ledger /\ Covered(books, clerk, t)
    BY DEF LedgerIInv
  <2>2. p \in [Month -> Nat] /\ \A m \in Month : p[m] \in SeenIn(books, clerk, t, m)
    BY <2>1, RowsOfABook DEF SeenIn
  <2> HIDE DEF p
  <2>3. SumOver(p, Month) <= books.received[t]
    BY <2>1, <2>2 DEF Covered
  <2>4. QED
    BY <2>3 DEF p
<1>2. QED
  BY <1>1, LedgerIInvAlways, PTL

-----------------------------------------------------------------------------
(* Sound books *)

(* Nothing is recorded on an invoice before it is raised. *)
Bare(book) ==
    \A t \in Tenancies, m \in Month :
        ~Raised(book, t, m) => /\ book.lines[t][m] = NoLines
                               /\ book.invoice[t][m] = Unraised
                               /\ book.fees[t][m] = <<>>

(* What was raised stays raised. *)
Onward(was, is) ==
    \A t \in Tenancies, m \in Month : Raised(was, t, m) => Raised(is, t, m)

(* What a session makes of the books it read: committed over those same books
   it leaves just what it had in memory, and it keeps sound books sound. *)
Stems(was, is) ==
    /\ Merged(was, is, was) = is
    /\ Bare(is)
    /\ \A t \in Tenancies, m \in Month :
            is.lines[t][m] = was.lines[t][m] \/ Raised(is, t, m)
    /\ Sound(was) => Sound(is)

(* apportion gives the drift of rounding to one tenant; a pool of a few units
   split among many can leave that tenant a negative share *)
NoNegativeShare == \A t \in Tenancies : Apportioned(MonthlyPool, Tenancies)[t] >= 0

(* A fee row that the session added is the only one that a flush appends. *)
LEMMA FlushedFees ==
    ASSUME NEW a \in Seq(Nat), NEW b \in Seq(Nat),
           b = a \/ \E x \in Nat : b = Append(a, x)
    PROVE  a \o SubSeq(b, Len(a) + 1, Len(b)) = b
<1>1. CASE b = a
  <2>1. SubSeq(b, Len(a) + 1, Len(b)) = <<>>
    BY <1>1
  <2>2. QED
    BY <1>1, <2>1
<1>2. ASSUME NEW x \in Nat, b = Append(a, x)
      PROVE  a \o SubSeq(b, Len(a) + 1, Len(b)) = b
  <2>1. Len(b) = Len(a) + 1 /\ b[Len(a) + 1] = x
    BY <1>2
  <2> DEFINE tail == SubSeq(b, Len(a) + 1, Len(b))
  <2>2. tail = <<x>>
    <3>1. tail \in Seq(Nat) /\ Len(tail) = 1 /\ tail[1] = x
      BY <2>1, SubSeqProperties
    <3> HIDE DEF tail
    <3>2. QED
      BY <3>1
  <2> HIDE DEF tail
  <2>3. a \o tail = Append(a, x)
    BY <2>2
  <2>4. QED
    BY <1>2, <2>3 DEF tail
<1>3. QED
  BY <1>1, <1>2

LEMMA MergedUnread ==
    ASSUME NEW was \in Ledger, NEW is \in Ledger, is.reading = was.reading,
           \A t \in Tenancies, m \in Month :
               \/ is.fees[t][m] = was.fees[t][m]
               \/ \E x \in Nat : is.fees[t][m] = Append(was.fees[t][m], x)
    PROVE  Merged(was, is, was) = is
<1> DEFINE after == Merged(was, is, was)
<1>1. after.invoice = is.invoice
  <2>1. \A t \in Tenancies, m \in Month :
            FlushedInvoice(was.invoice[t][m], is.invoice[t][m], was.invoice[t][m])
                = is.invoice[t][m]
    BY RowsOfABook DEF FlushedInvoice, Flushed, LedgerRow
  <2>2. after.invoice = [t \in Tenancies |-> [m \in Month |-> is.invoice[t][m]]]
    BY <2>1 DEF Merged
  <2>3. is.invoice \in [Tenancies -> [Month -> LedgerRow]]
    BY DEF Ledger
  <2>4. QED
    BY <2>2, <2>3
<1>2. after.lines = is.lines
  <2>1. after.lines = [t \in Tenancies |-> [m \in Month |-> is.lines[t][m]]]
    BY DEF Merged, Flushed
  <2>2. is.lines \in [Tenancies -> [Month -> Lines]]
    BY DEF Ledger
  <2>3. QED
    BY <2>1, <2>2
<1>3. after.fees = is.fees
  <2>1. \A t \in Tenancies, m \in Month :
            was.fees[t][m] \o SubSeq(is.fees[t][m], Len(was.fees[t][m]) + 1,
                                     Len(is.fees[t][m])) = is.fees[t][m]
    <3> SUFFICES ASSUME NEW t \in Tenancies, NEW m \in Month
                 PROVE  was.fees[t][m] \o SubSeq(is.fees[t][m], Len(was.fees[t][m]) + 1,
                                                Len(is.fees[t][m])) = is.fees[t][m]
      OBVIOUS
    <3> DEFINE before == was.fees[t][m]
               later == is.fees[t][m]
    <3>1. before \in Seq(Nat) /\ later \in Seq(Nat)
      BY RowsOfABook
    <3>2. later = before \/ \E x \in Nat : later = Append(before, x)
      OBVIOUS
    <3> HIDE DEF before, later
    <3>3. before \o SubSeq(later, Len(before) + 1, Len(later)) = later
      BY <3>1, <3>2, FlushedFees
    <3>4. QED
      BY <3>3 DEF before, later
  <2>2. after.fees = [t \in Tenancies |-> [m \in Month |-> is.fees[t][m]]]
    BY <2>1 DEF Merged
  <2>3. is.fees \in [Tenancies -> [Month -> Seq(Nat)]]
    BY DEF Ledger
  <2>4. QED
    BY <2>2, <2>3
<1>4. after.billedOn = is.billedOn
  <2>1. after.billedOn = [t \in Tenancies |-> [m \in Month |-> is.billedOn[t][m]]]
    BY DEF Merged, Flushed
  <2>2. is.billedOn \in [Tenancies -> [Month -> {0} \cup Month]]
    BY DEF Ledger
  <2>3. QED
    BY <2>1, <2>2
<1>5. after.reserve = is.reserve
  <2>1. \A m \in Month : was.reserve[m] \in Int /\ is.reserve[m] \in Int
    BY RowsOfABook DEF Ledger
  <2>2. after.reserve = [m \in Month |-> is.reserve[m]]
    BY <2>1 DEF Merged, Flushed
  <2>3. is.reserve \in [Month -> Int]
    BY DEF Ledger
  <2>4. QED
    BY <2>2, <2>3
<1>6. after.drawn = is.drawn
  <2>1. was.drawn \in Nat /\ is.drawn \in Nat
    BY DEF Ledger
  <2>2. QED
    BY <2>1 DEF Merged
<1>7. after.received = is.received
  <2>1. was.received \in [Tenancies -> Nat] /\ is.received \in [Tenancies -> Nat]
    BY DEF Ledger
  <2>2. after.received = [t \in Tenancies |-> is.received[t]]
    BY <2>1 DEF Merged
  <2>3. QED
    BY <2>1, <2>2
<1>8. after.reading = is.reading
  BY DEF Merged
<1>9. after = [invoice |-> after.invoice, lines |-> after.lines, fees |-> after.fees,
               reading |-> after.reading, billedOn |-> after.billedOn,
               reserve |-> after.reserve, drawn |-> after.drawn,
               received |-> after.received]
  BY DEF Merged
<1>10. is = [invoice |-> is.invoice, lines |-> is.lines, fees |-> is.fees,
             reading |-> is.reading, billedOn |-> is.billedOn,
             reserve |-> is.reserve, drawn |-> is.drawn, received |-> is.received]
  BY DEF Ledger
<1> HIDE DEF after
<1>11. after = is
  BY <1>1, <1>2, <1>3, <1>4, <1>5, <1>6, <1>7, <1>8, <1>9, <1>10
<1>12. QED
  BY <1>11 DEF after

-----------------------------------------------------------------------------
(* Sums *)

IsFeeSum(g, s) ==
    g = [u \in SUBSET DOMAIN s |->
            IF u = {} THEN 0 ELSE s[Picked(u)] + g[u \ {Picked(u)}]]

LEMMA FeesAreSummed ==
    ASSUME NEW s
    PROVE  FoldSeq(+, 0, s) = (CHOOSE g : IsFeeSum(g, s))[DOMAIN s]
BY DEF FoldSeq, FoldFunction, FoldFunctionOnSet, MapThenFoldSet, IsFeeSum, Picked

LEMMA NoFeeIsNothing == FoldSeq(+, 0, <<>>) = 0
<1> DEFINE s == <<>>
           zero == [u \in SUBSET DOMAIN s |-> 0]
           g == CHOOSE h : IsFeeSum(h, s)
<1>1. DOMAIN s = {}
  OBVIOUS
<1> HIDE DEF s
<1>2. IsFeeSum(zero, s)
  BY <1>1 DEF IsFeeSum
<1>3. IsFeeSum(g, s)
  BY <1>2
<1> HIDE DEF g
<1>4. g[{}] = 0
  BY <1>1, <1>3 DEF IsFeeSum
<1>5. QED
  BY <1>1, <1>4, FeesAreSummed DEF g, s

LEMMA OneFeeIsItself == ASSUME NEW x \in Nat PROVE FoldSeq(+, 0, <<x>>) = x
<1> DEFINE s == <<x>>
           one == [u \in SUBSET DOMAIN s |-> IF u = {} THEN 0 ELSE x]
           g == CHOOSE h : IsFeeSum(h, s)
<1>1. DOMAIN s = {1} /\ s[1] = x
  OBVIOUS
<1> HIDE DEF s
<1>2. \A u \in SUBSET DOMAIN s : u = {} \/ u = {1}
  BY <1>1
<1>3. Picked({1}) = 1 /\ {1} \ {1} = {} /\ {} \in SUBSET DOMAIN s /\ {1} \in SUBSET DOMAIN s
  BY <1>1 DEF Picked
<1>4. IsFeeSum(one, s)
  <2>1. ASSUME NEW u \in SUBSET DOMAIN s
        PROVE  one[u] = IF u = {} THEN 0 ELSE s[Picked(u)] + one[u \ {Picked(u)}]
    <3>1. CASE u = {}
      BY <3>1
    <3>2. CASE u = {1}
      <4>1. one[u] = x /\ one[{}] = 0
        BY <1>3, <3>2
      <4>2. s[Picked(u)] = x /\ u \ {Picked(u)} = {} /\ u # {}
        BY <1>1, <1>3, <3>2
      <4> HIDE DEF one
      <4>3. QED
        BY <4>1, <4>2
    <3>3. QED
      BY <1>2, <3>1, <3>2
  <2> DEFINE unfolded == [u \in SUBSET DOMAIN s |->
                            IF u = {} THEN 0 ELSE s[Picked(u)] + one[u \ {Picked(u)}]]
  <2>2. one = unfolded
    BY <2>1
  <2> HIDE DEF one
  <2>3. QED
    BY <2>2 DEF IsFeeSum
<1>5. IsFeeSum(g, s)
  BY <1>4
<1> HIDE DEF g
<1>6. g[{}] = 0
  BY <1>3, <1>5 DEF IsFeeSum
<1>7. g[{1}] = s[1] + g[{}]
  BY <1>3, <1>5 DEF IsFeeSum
<1>8. g[DOMAIN s] = x
  BY <1>1, <1>6, <1>7
<1>9. QED
  BY <1>8, FeesAreSummed DEF g, s

LEMMA SliceNotNegative ==
    /\ \A n \in Nat : ReserveSlice(n) \in Nat
    /\ ReserveSlice(0) = 0
<1>1. ReservePercent \in Nat
  BY LedgerAssumption
<1>2. ASSUME NEW n \in Nat PROVE ReserveSlice(n) \in Nat
  <2> DEFINE part == n * ReservePercent
  <2>1. part \in Nat
    BY <1>1
  <2> HIDE DEF part
  <2>2. part \div 100 \in Nat
    BY <2>1
  <2>3. QED
    BY <2>2 DEF ReserveSlice, Quantized, part
<1>3. ReserveSlice(0) = 0
  <2>1. 0 * ReservePercent = 0
    BY <1>1
  <2>2. QED
    BY <2>1 DEF ReserveSlice, Quantized
<1>4. QED
  BY <1>2, <1>3

LEMMA MoreReadings ==
    ASSUME NEW k \in Nat, NEW a \in Nat, NEW b \in Nat
    PROVE  k * (a + b) = k * a + k * b /\ k * a \in Nat /\ k * b \in Nat
OBVIOUS

-----------------------------------------------------------------------------
(* Billing keeps the books *)

Lacking(b, ts, d) == {t \in ts : ~Raised(b, t, MonthOf(d))}

AsBilled(bill) ==
    [total |-> bill.rent + bill.meter + bill.service + bill.arrears,
     paid |-> 0, status |-> "PENDING"]

SlicesOf(b, ts, d) == [t \in Lacking(b, ts, d) |-> ReserveSlice(Bill(b, t, d).service)]

LEMMA InvoicedRows ==
    ASSUME NEW b \in Ledger, NEW ts \in SUBSET Tenancies, NEW d \in LedgerDates
    PROVE  LET is == Invoiced(b, ts, d)
               new == Lacking(b, ts, d)
               m == MonthOf(d)
           IN  /\ is.fees = b.fees /\ is.reading = b.reading
               /\ is.drawn = b.drawn /\ is.received = b.received
               /\ is.reserve = [b.reserve EXCEPT ![m] = @ + SumOver(SlicesOf(b, ts, d), new)]
               /\ \A t \in Tenancies, k \in Month :
                    /\ is.lines[t][k] = IF t \in new /\ k = m THEN Bill(b, t, d)
                                        ELSE b.lines[t][k]
                    /\ is.invoice[t][k] = IF t \in new /\ k = m THEN AsBilled(Bill(b, t, d))
                                          ELSE b.invoice[t][k]
                    /\ is.billedOn[t][k] = IF t \in new /\ k \in Unbilled(b, t, d) THEN m
                                           ELSE b.billedOn[t][k]
<1> DEFINE m == MonthOf(d)
           new == {t \in ts : ~Raised(b, t, m)}
           bill == [t \in new |-> Bill(b, t, d)]
           slices == [t \in new |-> ReserveSlice(bill[t].service)]
           lines == [t \in Tenancies |-> [k \in Month |->
                IF t \in new /\ k = m THEN bill[t] ELSE b.lines[t][k]]]
           raised(t) == [Unraised EXCEPT !.total = bill[t].rent + bill[t].meter
                                                + bill[t].service + bill[t].arrears]
           invoice == [t \in Tenancies |-> [k \in Month |->
                IF t \in new /\ k = m THEN raised(t) ELSE b.invoice[t][k]]]
           billedOn == [t \in Tenancies |-> [k \in Month |->
                IF t \in new /\ k \in Unbilled(b, t, d) THEN m ELSE b.billedOn[t][k]]]
           reserve == [b.reserve EXCEPT ![m] = @ + SumOver(slices, new)]
           is == [b EXCEPT !.lines = lines, !.invoice = invoice, !.billedOn = billedOn,
                           !.reserve = reserve]
<1>1. Invoiced(b, ts, d) = is
  <2>1. [b EXCEPT !.lines = lines, !.invoice = invoice, !.billedOn = billedOn,
                  !.reserve[m] = @ + SumOver(slices, new)] = is
    BY DEF Ledger
  <2>2. QED
    BY <2>1 DEF Invoiced, Ledger
<1>2. new = Lacking(b, ts, d)
  BY DEF Lacking
<1>3. slices = SlicesOf(b, ts, d)
  BY <1>2 DEF SlicesOf
<1>4. ASSUME NEW t \in new PROVE bill[t] = Bill(b, t, d) /\ raised(t) = AsBilled(Bill(b, t, d))
  BY DEF Unraised, AsBilled
<1> HIDE DEF m, new, bill, slices, raised
<1>5. ASSUME NEW t \in Tenancies, NEW k \in Month
      PROVE  /\ lines[t][k] = IF t \in new /\ k = m THEN Bill(b, t, d) ELSE b.lines[t][k]
             /\ invoice[t][k] = IF t \in new /\ k = m THEN AsBilled(Bill(b, t, d))
                                ELSE b.invoice[t][k]
             /\ billedOn[t][k] = IF t \in new /\ k \in Unbilled(b, t, d) THEN m
                                 ELSE b.billedOn[t][k]
  BY <1>4
<1> HIDE DEF lines, invoice, billedOn
<1>6. /\ is.lines = lines /\ is.invoice = invoice /\ is.billedOn = billedOn
      /\ is.reserve = reserve /\ is.fees = b.fees /\ is.reading = b.reading
      /\ is.drawn = b.drawn /\ is.received = b.received
  BY DEF Ledger
<1> HIDE DEF is
<1>7. QED
  BY <1>1, <1>2, <1>3, <1>5, <1>6 DEF m

LEMMA InvoicedCell ==
    ASSUME NEW b \in Ledger, NEW ts \in SUBSET Tenancies, NEW d \in LedgerDates,
           NEW t \in Tenancies, NEW k \in Month
    PROVE  LET is == Invoiced(b, ts, d)
               new == Lacking(b, ts, d)
               m == MonthOf(d)
               read == Unbilled(b, t, d)
           IN  /\ t \in new /\ k = m => /\ is.lines[t][k] = Bill(b, t, d)
                                         /\ is.invoice[t][k] = AsBilled(Bill(b, t, d))
               /\ ~(t \in new /\ k = m) => /\ is.lines[t][k] = b.lines[t][k]
                                            /\ is.invoice[t][k] = b.invoice[t][k]
               /\ t \in new /\ k \in read => is.billedOn[t][k] = m
               /\ ~(t \in new /\ k \in read) => is.billedOn[t][k] = b.billedOn[t][k]
<1> DEFINE is == Invoiced(b, ts, d)
           new == Lacking(b, ts, d)
           m == MonthOf(d)
           bill(u) == Bill(b, u, d)
           raised(u) == AsBilled(Bill(b, u, d))
           unread(u) == Unbilled(b, u, d)
<1>1. \A u \in Tenancies, l \in Month :
        /\ is.lines[u][l] = IF u \in new /\ l = m THEN bill(u) ELSE b.lines[u][l]
        /\ is.invoice[u][l] = IF u \in new /\ l = m THEN raised(u) ELSE b.invoice[u][l]
        /\ is.billedOn[u][l] = IF u \in new /\ l \in unread(u) THEN m ELSE b.billedOn[u][l]
  BY InvoicedRows
<1> HIDE DEF is, new, m, bill, raised, unread
<1>2. /\ t \in new /\ k = m => is.lines[t][k] = bill(t) /\ is.invoice[t][k] = raised(t)
      /\ ~(t \in new /\ k = m) => /\ is.lines[t][k] = b.lines[t][k]
                                   /\ is.invoice[t][k] = b.invoice[t][k]
      /\ t \in new /\ k \in unread(t) => is.billedOn[t][k] = m
      /\ ~(t \in new /\ k \in unread(t)) => is.billedOn[t][k] = b.billedOn[t][k]
  BY <1>1
<1>3. QED
  BY <1>2 DEF is, new, m, bill, raised, unread

LEMMA BillNumbers ==
    ASSUME NEW b \in Ledger, NEW t \in Tenancies, NEW d \in LedgerDates, NoNegativeShare
    PROVE  LET bill == Bill(b, t, d) IN
           /\ bill \in Lines /\ bill.rent > 0 /\ bill.service \in Nat
           /\ bill.meter = MeterCharge * Cardinality(Unbilled(b, t, d))
<1>1. Apportioned(MonthlyPool, Tenancies)[t] \in Nat
  BY ApportionedType DEF NoNegativeShare
<1>2. Bill(b, t, d).service = Apportioned(MonthlyPool, Tenancies)[t]
  BY DEF Bill
<1>3. Bill(b, t, d).rent > 0
  BY LedgerAssumption DEF Bill
<1>4. Bill(b, t, d).meter = MeterCharge * Cardinality(Unbilled(b, t, d))
  BY DEF Bill
<1>5. QED
  BY <1>1, <1>2, <1>3, <1>4, BillType

FeeTotal(fees) == FoldSeq(+, 0, fees)

(* Balanced, said of an invoice, its lines and its fees *)
Adds(row, bill, fees) ==
    /\ row.total = bill.rent + bill.meter + bill.service + bill.arrears + FeeTotal(fees)
    /\ Len(fees) <= 1
    /\ row.status = "PAID" <=> (row.total > 0 /\ Balance(row) = 0)

LEMMA BalancedAdds ==
    ASSUME NEW b, NEW t, NEW m
    PROVE  Balanced(b, t, m) <=> Adds(b.invoice[t][m], b.lines[t][m], b.fees[t][m])
BY DEF Balanced, Adds, FeeTotal

LEMMA FeeTotals ==
    /\ FeeTotal(<<>>) = 0
    /\ \A x \in Nat : FeeTotal(<<x>>) = x
BY NoFeeIsNothing, OneFeeIsItself DEF FeeTotal

LEMMA InvoicedBalances ==
    ASSUME NEW b \in Ledger, NEW ts \in SUBSET Tenancies, NEW d \in LedgerDates, Bare(b),
           NoNegativeShare, NEW t \in Tenancies, NEW k \in Month, Balanced(b, t, k)
    PROVE  Balanced(Invoiced(b, ts, d), t, k)
<1> DEFINE is == Invoiced(b, ts, d)
           new == Lacking(b, ts, d)
           bill == Bill(b, t, d)
<1> SUFFICES Adds(is.invoice[t][k], is.lines[t][k], is.fees[t][k])
  BY BalancedAdds
<1>1. is.fees = b.fees
  BY InvoicedRows
<1>2. /\ t \in new /\ k = MonthOf(d) => /\ is.lines[t][k] = bill
                                       /\ is.invoice[t][k] = AsBilled(bill)
      /\ ~(t \in new /\ k = MonthOf(d)) => /\ is.lines[t][k] = b.lines[t][k]
                                          /\ is.invoice[t][k] = b.invoice[t][k]
  BY InvoicedCell
<1> HIDE DEF is
<1>3. CASE t \in new /\ k = MonthOf(d)
  <2>1. ~Raised(b, t, k)
    BY <1>3 DEF Lacking
  <2>2. b.fees[t][k] = <<>>
    BY <2>1 DEF Bare
  <2>3. is.lines[t][k] = bill /\ is.invoice[t][k] = AsBilled(bill) /\ is.fees[t][k] = <<>>
    BY <1>1, <1>2, <1>3, <2>2
  <2>4. bill \in Lines
    BY BillNumbers
  <2> HIDE DEF bill
  <2> DEFINE row == AsBilled(bill)
  <2>5. row.total \in Int /\ row.paid = 0 /\ row.status = "PENDING"
        /\ row.total = bill.rent + bill.meter + bill.service + bill.arrears + 0
    BY <2>4 DEF AsBilled, Lines
  <2> HIDE DEF row
  <2>6. /\ Len(<<>>) <= 1
        /\ row.status = "PAID" <=> (row.total > 0 /\ Balance(row) = 0)
    BY <2>5 DEF Balance
  <2>7. row.total = bill.rent + bill.meter + bill.service + bill.arrears + FeeTotal(<<>>)
    BY <2>5, FeeTotals
  <2>8. Adds(row, bill, <<>>)
    BY <2>6, <2>7 DEF Adds
  <2>9. QED
    BY <2>3, <2>8 DEF row
<1>4. CASE ~(t \in new /\ k = MonthOf(d))
  <2>1. is.lines[t][k] = b.lines[t][k] /\ is.invoice[t][k] = b.invoice[t][k]
    BY <1>2, <1>4
  <2>2. QED
    BY <1>1, <2>1, BalancedAdds
<1>5. QED
  BY <1>3, <1>4

LEMMA InvoicedCharges ==
    ASSUME NEW b \in Ledger, NEW ts \in SUBSET Tenancies, NEW d \in LedgerDates, Bare(b),
           NoNegativeShare, NEW t \in Tenancies, ChargedOnce(b, t)
    PROVE  ChargedOnce(Invoiced(b, ts, d), t)
<1> DEFINE is == Invoiced(b, ts, d)
           new == Lacking(b, ts, d)
           bill == Bill(b, t, d)
           m == MonthOf(d)
           read == Unbilled(b, t, d)
           f == [k \in Month |-> b.lines[t][k].meter]
           g == [k \in Month |-> is.lines[t][k].meter]
           A == {k \in Month : b.billedOn[t][k] # 0}
           B == {k \in Month : is.billedOn[t][k] # 0}
<1>1. ASSUME NEW k \in Month
      PROVE  /\ t \in new /\ k = m => is.lines[t][k] = bill
             /\ ~(t \in new /\ k = m) => is.lines[t][k] = b.lines[t][k]
             /\ t \in new /\ k \in read => is.billedOn[t][k] = m
             /\ ~(t \in new /\ k \in read) => is.billedOn[t][k] = b.billedOn[t][k]
  BY InvoicedCell
<1>2. is \in Ledger /\ m \in Month
  BY InvoicedOK, MonthOfDate
<1>3. m # 0 /\ IsFiniteSet(Month)
  BY <1>2, MonthsAreNumbers
<1>4. \A k \in Month : f[k] \in Nat /\ g[k] \in Nat
  <2>1. \A k \in Month : b.lines[t][k] \in Lines /\ is.lines[t][k] \in Lines
    <3> HIDE DEF is
    <3>1. QED
      BY <1>2, RowsOfABook
  <2> HIDE DEF is
  <2>2. QED
    BY <2>1 DEF Lines
<1>5. MeterCharge * Cardinality(A) = SumOver(f, Month)
  BY DEF ChargedOnce
<1>6. CASE t \notin new
  <2>1. B = A /\ \A k \in Month : g[k] = f[k]
    <3> HIDE DEF is
    <3>1. QED
      BY <1>1, <1>6
  <2>2. \A k \in Month : f[k] \in Int /\ g[k] = f[k]
    <3> HIDE DEF f, g
    <3>1. QED
      BY <1>4, <2>1
  <2> HIDE DEF f, g, A, B, is
  <2>3. SumOver(f, Month) = SumOver(g, Month)
    BY <1>3, <2>2, SumEqual
  <2>4. MeterCharge * Cardinality(B) = SumOver(g, Month)
    BY <1>5, <2>1, <2>3
  <2>5. QED
    BY <2>4 DEF ChargedOnce, B, g, is
<1>7. CASE t \in new
  <2>1. B = A \cup read /\ A \cap read = {} /\ read \subseteq Month /\ A \subseteq Month
    <3>1. read \subseteq Month /\ \A k \in read : b.billedOn[t][k] = 0
      BY DEF Unbilled
    <3> HIDE DEF is, read
    <3>2. \A k \in Month : is.billedOn[t][k] # 0 <=> (k \in read \/ b.billedOn[t][k] # 0)
      BY <1>1, <1>3, <1>7
    <3>3. QED
      BY <3>1, <3>2
  <2>2. \A k \in Month \ {m} : g[k] = f[k]
    <3> HIDE DEF is
    <3>1. QED
      BY <1>1
  <2>3. f[m] = 0
    <3>1. ~Raised(b, t, m)
      BY <1>7 DEF Lacking
    <3>2. b.lines[t][m] = NoLines
      BY <1>2, <3>1 DEF Bare
    <3>3. QED
      BY <1>2, <3>2 DEF NoLines
  <2>4. g[m] = MeterCharge * Cardinality(read)
    <3>1. is.lines[t][m] = bill
      BY <1>1, <1>2, <1>7
    <3>2. bill.meter = MeterCharge * Cardinality(read)
      BY BillNumbers
    <3> HIDE DEF is, bill, read
    <3>3. QED
      BY <1>2, <3>1, <3>2
  <2> HIDE DEF f, g, A, B, is, read, new
  <2>5. /\ Cardinality(B) = Cardinality(A) + Cardinality(read)
        /\ Cardinality(A) \in Nat /\ Cardinality(read) \in Nat
    <3>1. IsFiniteSet(A) /\ IsFiniteSet(read)
      BY <1>3, <2>1, FS_Subset
    <3>2. Cardinality(A \cup read) = Cardinality(A) + Cardinality(read) - Cardinality(A \cap read)
      BY <3>1, FS_Union
    <3>3. Cardinality(A \cap read) = 0
      BY <2>1, FS_EmptySet
    <3>4. Cardinality(A) \in Nat /\ Cardinality(read) \in Nat
      BY <3>1, FS_CardinalityType
    <3>5. QED
      BY <2>1, <3>2, <3>3, <3>4
  <2>6. SumOver(g, Month) = SumOver(f, Month) + g[m] - f[m]
    <3>1. \A k \in Month : f[k] \in Int /\ g[k] \in Int
      BY <1>4
    <3> HIDE DEF m
    <3>2. QED
      BY <1>2, <1>3, <2>2, <3>1, SumChanges
  <2>7. MeterCharge \in Nat
    BY LedgerAssumption
  <2> DEFINE a == Cardinality(A)
             c == Cardinality(read)
  <2> HIDE DEF a, c, m
  <2>8. MeterCharge * (a + c) = MeterCharge * a + MeterCharge * c
        /\ MeterCharge * a \in Nat /\ MeterCharge * c \in Nat
    BY <2>5, <2>7, MoreReadings DEF a, c
  <2>9. MeterCharge * Cardinality(B) = SumOver(g, Month)
    BY <1>5, <2>3, <2>4, <2>5, <2>6, <2>8 DEF a, c
  <2>10. QED
    BY <2>9 DEF ChargedOnce, B, g, is
<1>8. QED
  BY <1>6, <1>7

(* what the slices of one month add up to *)
LEMMA InvoicedSlices ==
    ASSUME NEW b \in Ledger, NEW ts \in SUBSET Tenancies, NEW d \in LedgerDates, NoNegativeShare
    PROVE  LET new == Lacking(b, ts, d)
               slices == SlicesOf(b, ts, d)
           IN  /\ IsFiniteSet(new) /\ new \subseteq Tenancies
               /\ \A t \in new : slices[t] \in Nat /\ slices[t] = ReserveSlice(Bill(b, t, d).service)
               /\ SumOver(slices, new) \in Nat
<1> DEFINE new == Lacking(b, ts, d)
           slices == SlicesOf(b, ts, d)
<1>1. new \subseteq Tenancies /\ IsFiniteSet(new)
  <2>1. new \subseteq Tenancies
    BY DEF Lacking
  <2> HIDE DEF new
  <2>2. QED
    BY <2>1, LedgerAssumption, FS_Subset
<1>2. ASSUME NEW t \in new
      PROVE  slices[t] \in Nat /\ slices[t] = ReserveSlice(Bill(b, t, d).service)
  <2>1. slices[t] = ReserveSlice(Bill(b, t, d).service)
    BY DEF SlicesOf
  <2>2. t \in Tenancies
    BY <1>1
  <2>3. Bill(b, t, d).service \in Nat
    BY <2>2, BillNumbers
  <2> HIDE DEF slices
  <2>4. QED
    BY <2>1, <2>3, SliceNotNegative
<1> HIDE DEF new, slices
<1>3. SumOver(slices, new) \in Nat
  BY <1>1, <1>2, SumNotNegative
<1>4. QED
  BY <1>1, <1>2, <1>3 DEF new, slices

LEMMA InvoicedFeeds ==
    ASSUME NEW b \in Ledger, NEW ts \in SUBSET Tenancies, NEW d \in LedgerDates, Bare(b),
           NoNegativeShare, ReserveFed(b), NEW k \in Month
    PROVE  Invoiced(b, ts, d).reserve[k] =
               SumOver([t \in Tenancies |->
                            ReserveSlice(Invoiced(b, ts, d).lines[t][k].service)], Tenancies)
<1> DEFINE is == Invoiced(b, ts, d)
           new == Lacking(b, ts, d)
           m == MonthOf(d)
           slices == SlicesOf(b, ts, d)
           f == [t \in Tenancies |-> ReserveSlice(b.lines[t][k].service)]
           g == [t \in Tenancies |-> IF t \in new THEN slices[t] ELSE 0]
           h == [t \in Tenancies |-> ReserveSlice(is.lines[t][k].service)]
<1> SUFFICES is.reserve[k] = SumOver(h, Tenancies)
  OBVIOUS
<1>1. b.reserve[k] = SumOver(f, Tenancies) /\ b.reserve[k] \in Int /\ IsFiniteSet(Tenancies)
  BY RowsOfABook, LedgerAssumption DEF ReserveFed, Ledger
<1>2. is.reserve = [b.reserve EXCEPT ![m] = @ + SumOver(slices, new)]
  BY InvoicedRows
<1>3. is \in Ledger /\ m \in Month /\ b.reserve \in [Month -> Int]
  BY InvoicedOK, MonthOfDate DEF Ledger
<1>4. ASSUME NEW t \in Tenancies PROVE f[t] \in Int /\ h[t] \in Int
  <2>1. b.lines[t][k] \in Lines /\ is.lines[t][k] \in Lines
    <3> HIDE DEF is
    <3>1. QED
      BY <1>3, RowsOfABook
  <2>2. b.lines[t][k].service \in Int /\ is.lines[t][k].service \in Int
    <3> HIDE DEF is
    <3>1. QED
      BY <2>1 DEF Lines
  <2> HIDE DEF is
  <2>3. QED
    BY <2>2, SliceType
<1>5. CASE k # m
  <2>1. ASSUME NEW t \in Tenancies PROVE h[t] = f[t]
    <3>1. is.lines[t][k] = b.lines[t][k]
      BY <1>5, InvoicedCell
    <3> HIDE DEF is
    <3>2. QED
      BY <3>1
  <2>2. is.reserve[k] = b.reserve[k]
    <3> HIDE DEF is, m, slices, new
    <3>1. QED
      BY <1>2, <1>3, <1>5
  <2> HIDE DEF f, h, is
  <2>3. SumOver(f, Tenancies) = SumOver(h, Tenancies)
    BY <1>1, <1>4, <2>1, SumEqual
  <2>4. QED
    BY <1>1, <2>2, <2>3
<1>6. CASE k = m
  <2>1. /\ new \subseteq Tenancies /\ SumOver(slices, new) \in Nat
        /\ \A t \in new : slices[t] \in Nat /\ slices[t] = ReserveSlice(Bill(b, t, d).service)
    BY InvoicedSlices
  <2>2. ASSUME NEW t \in Tenancies PROVE g[t] \in Int /\ h[t] = f[t] + g[t]
    <3>1. CASE t \in new
      <4>1. is.lines[t][k] = Bill(b, t, d)
        BY <1>6, <3>1, InvoicedCell
      <4>2. ~Raised(b, t, k)
        BY <1>6, <3>1 DEF Lacking
      <4>3. b.lines[t][k] = NoLines
        BY <4>2 DEF Bare
      <4>4. f[t] = 0
        BY <4>3, SliceNotNegative DEF NoLines
      <4>5. slices[t] \in Nat /\ slices[t] = ReserveSlice(Bill(b, t, d).service)
        BY <2>1, <3>1
      <4> HIDE DEF is, slices, new, f
      <4>6. g[t] = slices[t] /\ h[t] = slices[t]
        BY <3>1, <4>1, <4>5
      <4> HIDE DEF g, h
      <4>7. QED
        BY <4>4, <4>5, <4>6
    <3>2. CASE t \notin new
      <4>1. is.lines[t][k] = b.lines[t][k]
        BY <3>2, InvoicedCell
      <4>2. f[t] \in Int
        BY <1>4
      <4> HIDE DEF is, slices, new
      <4>3. h[t] = f[t] /\ g[t] = 0
        BY <3>2, <4>1
      <4> HIDE DEF f, g, h
      <4>4. QED
        BY <4>2, <4>3
    <3>3. QED
      BY <3>1, <3>2
  <2>3. is.reserve[k] = b.reserve[k] + SumOver(slices, new)
    <3> HIDE DEF is, m, slices, new
    <3>1. QED
      BY <1>2, <1>3, <1>6
  <2>4. \A t \in new : g[t] = slices[t] /\ slices[t] \in Int
    <3> HIDE DEF slices, new
    <3>1. QED
      BY <2>1
  <2>5. \A t \in Tenancies \ new : g[t] = 0
    OBVIOUS
  <2> HIDE DEF f, g, h, is, new, slices
  <2>6. SumOver(h, Tenancies) = SumOver(f, Tenancies) + SumOver(g, Tenancies)
    BY <1>1, <1>4, <2>2, SumAdds
  <2>7. SumOver(g, Tenancies) = SumOver(g, new)
    BY <1>1, <2>1, <2>2, <2>5, SumIgnoresZeros
  <2>8. SumOver(slices, new) = SumOver(g, new)
    <3>1. IsFiniteSet(new)
      BY <1>1, <2>1, FS_Subset
    <3>2. QED
      BY <2>4, <3>1, SumEqual
  <2>9. QED
    BY <1>1, <2>3, <2>6, <2>7, <2>8
<1>7. QED
  BY <1>5, <1>6

LEMMA ReserveRow ==
    ASSUME NEW b \in Ledger, NEW ts \in SUBSET Tenancies, NEW d \in LedgerDates
    PROVE  Invoiced(b, ts, d).reserve =
               [b.reserve EXCEPT ![MonthOf(d)] =
                    @ + SumOver(SlicesOf(b, ts, d), Lacking(b, ts, d))]
BY InvoicedRows

LEMMA InvoicedReserve ==
    ASSUME NEW b \in Ledger, NEW ts \in SUBSET Tenancies, NEW d \in LedgerDates, NoNegativeShare,
           ReserveBalance(b) >= 0
    PROVE  ReserveBalance(Invoiced(b, ts, d)) >= 0
<1> DEFINE is == Invoiced(b, ts, d)
           m == MonthOf(d)
           x == SumOver(SlicesOf(b, ts, d), Lacking(b, ts, d))
           f == b.reserve
           g == is.reserve
<1>1. g = [f EXCEPT ![m] = @ + x] /\ is.drawn = b.drawn
  <2>1. g = [f EXCEPT ![m] = @ + x]
    BY ReserveRow
  <2>2. is.drawn = b.drawn
    BY InvoicedRows
  <2>3. QED
    BY <2>1, <2>2
<1>2. x \in Nat
  BY InvoicedSlices
<1>3. m \in Month /\ f \in [Month -> Int] /\ b.drawn \in Nat
  BY MonthOfDate DEF Ledger
<1> SUFFICES SumOver(g, Month) - b.drawn >= 0
  BY <1>1 DEF ReserveBalance
<1>4. SumOver(f, Month) - b.drawn >= 0
  BY DEF ReserveBalance
<1> HIDE DEF is, x, f, g, m
<1>5. \A k \in Month : f[k] \in Int /\ g[k] \in Int /\ f[k] <= g[k]
  BY <1>1, <1>2, <1>3
<1>6. SumOver(f, Month) <= SumOver(g, Month)
  BY <1>5, MonthsAreNumbers, SumMonotone
<1>7. SumOver(f, Month) \in Int /\ SumOver(g, Month) \in Int
  BY <1>5, MonthsAreNumbers, SumType
<1>8. QED
  BY <1>3, <1>4, <1>6, <1>7

LEMMA InvoicedStems ==
    ASSUME NEW b \in Ledger, NEW ts \in SUBSET Tenancies, NEW d \in LedgerDates, Bare(b),
           NoNegativeShare
    PROVE  Stems(b, Invoiced(b, ts, d))
<1> DEFINE is == Invoiced(b, ts, d)
           new == Lacking(b, ts, d)
           m == MonthOf(d)
<1>1. is \in Ledger /\ is.fees = b.fees /\ is.reading = b.reading
  BY InvoicedOK, InvoicedRows
<1>2. Merged(b, is, b) = is
  <2> HIDE DEF is
  <2>1. QED
    BY <1>1, MergedUnread
<1>3. ASSUME NEW t \in Tenancies, NEW k \in Month
      PROVE  \/ is.lines[t][k] = b.lines[t][k] /\ is.invoice[t][k] = b.invoice[t][k]
             \/ Raised(is, t, k)
  <2>1. CASE t \in new /\ k = m
    <3>1. is.lines[t][k] = Bill(b, t, d)
      BY <2>1, InvoicedCell
    <3>2. Bill(b, t, d).rent > 0
      BY BillNumbers
    <3> HIDE DEF is
    <3>3. QED
      BY <3>1, <3>2 DEF Raised
  <2>2. CASE ~(t \in new /\ k = m)
    BY <2>2, InvoicedCell
  <2>3. QED
    BY <2>1, <2>2
<1>4. Bare(is)
  <2> SUFFICES ASSUME NEW t \in Tenancies, NEW k \in Month, ~Raised(is, t, k)
               PROVE  is.lines[t][k] = NoLines /\ is.invoice[t][k] = Unraised
                      /\ is.fees[t][k] = <<>>
    BY DEF Bare
  <2> HIDE DEF is
  <2>1. is.lines[t][k] = b.lines[t][k] /\ is.invoice[t][k] = b.invoice[t][k]
    BY <1>3
  <2>2. ~Raised(b, t, k)
    BY <2>1 DEF Raised
  <2>3. QED
    BY <1>1, <2>1, <2>2 DEF Bare
<1>5. ASSUME Sound(b) PROVE Sound(is)
  <2>1. \A t \in Tenancies, k \in Month : Balanced(is, t, k)
    <3>1. \A t \in Tenancies, k \in Month : Balanced(b, t, k)
      BY <1>5 DEF Sound
    <3>2. QED
      BY <3>1, InvoicedBalances
  <2>2. \A t \in Tenancies : ChargedOnce(is, t)
    <3>1. \A t \in Tenancies : ChargedOnce(b, t)
      BY <1>5 DEF Sound
    <3>2. QED
      BY <3>1, InvoicedCharges
  <2>3. ReserveFed(is)
    <3>1. ReserveFed(b)
      BY <1>5 DEF Sound
    <3>2. \A k \in Month :
            is.reserve[k] = SumOver([t \in Tenancies |-> ReserveSlice(is.lines[t][k].service)],
                                    Tenancies)
      BY <3>1, InvoicedFeeds
    <3> HIDE DEF is
    <3>3. QED
      BY <3>2 DEF ReserveFed
  <2>4. ReserveBalance(is) >= 0
    BY <1>5, InvoicedReserve DEF Sound
  <2> HIDE DEF is
  <2>5. QED
    BY <2>1, <2>2, <2>3, <2>4 DEF Sound
<1> HIDE DEF is
<1>6. \A t \in Tenancies, k \in Month : is.lines[t][k] = b.lines[t][k] \/ Raised(is, t, k)
  BY <1>3
<1>7. Stems(b, is)
  BY <1>2, <1>4, <1>5, <1>6 DEF Stems
<1>8. QED
  BY <1>7 DEF is

-----------------------------------------------------------------------------
(* Fees, payments and withdrawals keep the books *)

ChargedIn(lines, billedOn, t) ==
    MeterCharge * Cardinality({k \in Month : billedOn[t][k] # 0})
        = SumOver([m \in Month |-> lines[t][m].meter], Month)

FedIn(lines, reserve) ==
    \A m \in Month :
        reserve[m] = SumOver([t \in Tenancies |-> ReserveSlice(lines[t][m].service)], Tenancies)

LEMMA BillingSays ==
    ASSUME NEW b
    PROVE  /\ \A t \in Tenancies : ChargedOnce(b, t) <=> ChargedIn(b.lines, b.billedOn, t)
           /\ ReserveFed(b) <=> FedIn(b.lines, b.reserve)
BY DEF ChargedOnce, ChargedIn, ReserveFed, FedIn

(* Whoever touches only invoices, fees and receipts keeps the readings and the
   reserve as they were. *)
LEMMA BillsUntouched ==
    ASSUME NEW was, NEW is, Sound(was),
           is.lines = was.lines, is.billedOn = was.billedOn, is.reserve = was.reserve,
           ReserveBalance(is) >= 0,
           \A t \in Tenancies, m \in Month : Balanced(is, t, m)
    PROVE  Sound(is)
<1>1. ASSUME NEW t \in Tenancies PROVE ChargedOnce(is, t)
  <2>1. ChargedIn(was.lines, was.billedOn, t)
    BY BillingSays DEF Sound
  <2>2. ChargedIn(is.lines, is.billedOn, t)
    BY <2>1
  <2>3. QED
    BY <2>2, BillingSays
<1>2. ReserveFed(is)
  <2>1. FedIn(was.lines, was.reserve)
    BY BillingSays DEF Sound
  <2>2. FedIn(is.lines, is.reserve)
    BY <2>1
  <2>3. QED
    BY <2>2, BillingSays
<1>3. QED
  BY <1>1, <1>2 DEF Sound

LEMMA SameReserve ==
    ASSUME NEW was, NEW is, is.reserve = was.reserve, is.drawn = was.drawn
    PROVE  ReserveBalance(is) = ReserveBalance(was)
BY DEF ReserveBalance

LEMMA FeeWithinBalance ==
    ASSUME NEW b \in Ledger, NEW t \in Tenancies, NEW m \in Month, today \in LedgerDates,
           FeeOn(b, t, m) # 0
    PROVE  /\ FeeOn(b, t, m) <= Balance(b.invoice[t][m]) /\ FeeOn(b, t, m) > 0
           /\ Raised(b, t, m) /\ b.fees[t][m] = <<>>
<1> DEFINE balance == Balance(b.invoice[t][m])
           days == today - 2 * m + 1
           fee == CalculatedFee(balance, days)
<1>1. balance \in Int /\ FeeOn(b, t, m) \in Nat
  BY RowsOfABook, FeeType
<1>2. FeeOn(b, t, m) = fee /\ Raised(b, t, m) /\ b.fees[t][m] = <<>>
  BY DEF FeeOn, balance, days
<1> HIDE DEF balance, days
<1>3. fee <= balance
  <2>1. PICK x : fee = Least(x, balance)
    BY DEF CalculatedFee
  <2>2. fee = x \/ fee = balance
    BY <2>1 DEF Least
  <2>3. fee \in Int
    BY <1>1, <1>2
  <2>4. QED
    BY <1>1, <2>1, <2>2, <2>3 DEF Least
<1>4. QED
  BY <1>1, <1>2, <1>3 DEF balance

LEMMA ChargedCell ==
    ASSUME NEW b \in Ledger, NEW t \in Tenancies, NEW m \in Month
    PROVE  LET is == Charged(b)
               fee == FeeOn(b, t, m)
           IN  /\ fee = 0 => /\ is.fees[t][m] = b.fees[t][m]
                             /\ is.invoice[t][m] = b.invoice[t][m]
               /\ fee # 0 => /\ is.fees[t][m] = Append(b.fees[t][m], fee)
                             /\ is.invoice[t][m] = WithFee(b.invoice[t][m], fee)
<1> DEFINE fee(u, k) == FeeOn(b, u, k)
           fees == [u \in Tenancies |-> [k \in Month |->
                IF fee(u, k) = 0 THEN b.fees[u][k] ELSE Append(b.fees[u][k], fee(u, k))]]
           row(u, k) == [b.invoice[u][k] EXCEPT !.total = b.invoice[u][k].total + fee(u, k),
                                                !.status = "OVERDUE"]
           invoice == [u \in Tenancies |-> [k \in Month |->
                IF fee(u, k) = 0 THEN b.invoice[u][k] ELSE row(u, k)]]
           is == [b EXCEPT !.fees = fees, !.invoice = invoice]
<1>1. Charged(b) = is
  BY DEF Charged
<1>2. row(t, m) = WithFee(b.invoice[t][m], fee(t, m))
  BY DEF WithFee
<1> HIDE DEF fee, row
<1>3. /\ fees[t][m] = IF fee(t, m) = 0 THEN b.fees[t][m] ELSE Append(b.fees[t][m], fee(t, m))
      /\ invoice[t][m] = IF fee(t, m) = 0 THEN b.invoice[t][m] ELSE row(t, m)
  OBVIOUS
<1> HIDE DEF fees, invoice
<1>4. is.fees = fees /\ is.invoice = invoice
  BY DEF Ledger
<1> HIDE DEF is
<1>5. QED
  BY <1>1, <1>2, <1>3, <1>4 DEF fee

LEMMA ChargedRest ==
    ASSUME NEW b \in Ledger
    PROVE  LET is == Charged(b) IN
           /\ is.lines = b.lines /\ is.billedOn = b.billedOn /\ is.reserve = b.reserve
           /\ is.reading = b.reading /\ is.drawn = b.drawn
BY DEF Charged, Ledger

LEMMA FeeAdds ==
    ASSUME NEW row \in LedgerRow, NEW bill \in Lines, NEW fee \in Nat, fee > 0,
           fee <= Balance(row), Adds(row, bill, <<>>)
    PROVE  Adds(WithFee(row, fee), bill, <<fee>>)
<1> DEFINE after == WithFee(row, fee)
           base == bill.rent + bill.meter + bill.service + bill.arrears
<1>1. after \in LedgerRow /\ after.paid = row.paid
  BY OverdueRow
<1>2. after.total = row.total + fee /\ after.status = "OVERDUE"
  BY DEF WithFee, LedgerRow
<1>3. base \in Int /\ row.total \in Int /\ row.paid \in Nat
  BY DEF Lines, LedgerRow
<1>4. row.total = base + FeeTotal(<<>>)
  BY DEF Adds
<1> HIDE DEF after, base
<1>5. after.total = base + fee
  BY <1>2, <1>3, <1>4, FeeTotals
<1>6. Len(<<fee>>) <= 1 /\ FeeTotal(<<fee>>) = fee
  BY FeeTotals
<1>7. Balance(after) # 0
  BY <1>1, <1>2, <1>3 DEF Balance
<1>8. QED
  BY <1>2, <1>5, <1>6, <1>7 DEF Adds, after, base

LEMMA ChargedStems ==
    ASSUME NEW b \in Ledger, today \in LedgerDates, Bare(b)
    PROVE  Stems(b, Charged(b))
<1> DEFINE is == Charged(b)
<1>1. is \in Ledger
  BY ChargedOK
<1>2. /\ is.lines = b.lines /\ is.billedOn = b.billedOn /\ is.reserve = b.reserve
      /\ is.reading = b.reading /\ is.drawn = b.drawn
  BY ChargedRest
<1>3. ASSUME NEW t \in Tenancies, NEW m \in Month
      PROVE  \/ is.fees[t][m] = b.fees[t][m] /\ is.invoice[t][m] = b.invoice[t][m]
             \/ \E x \in Nat : /\ is.fees[t][m] = Append(b.fees[t][m], x)
                               /\ is.invoice[t][m] = WithFee(b.invoice[t][m], x)
                               /\ x <= Balance(b.invoice[t][m]) /\ x > 0
                               /\ Raised(b, t, m) /\ b.fees[t][m] = <<>>
  <2>1. FeeOn(b, t, m) \in Nat
    BY FeeType
  <2>2. CASE FeeOn(b, t, m) = 0
    BY <2>2, ChargedCell
  <2>3. CASE FeeOn(b, t, m) # 0
    <3> DEFINE x == FeeOn(b, t, m)
    <3>1. is.fees[t][m] = Append(b.fees[t][m], x) /\ is.invoice[t][m] = WithFee(b.invoice[t][m], x)
      BY <2>3, ChargedCell
    <3>2. x <= Balance(b.invoice[t][m]) /\ x > 0 /\ Raised(b, t, m) /\ b.fees[t][m] = <<>>
      BY <2>3, FeeWithinBalance
    <3> HIDE DEF x, is
    <3>3. x \in Nat
      BY <2>1 DEF x
    <3>4. QED
      BY <3>1, <3>2, <3>3
  <2>4. QED
    BY <2>2, <2>3
<1> HIDE DEF is
<1>4. Merged(b, is, b) = is
  <2>1. \A t \in Tenancies, m \in Month :
            \/ is.fees[t][m] = b.fees[t][m]
            \/ \E x \in Nat : is.fees[t][m] = Append(b.fees[t][m], x)
    BY <1>3
  <2>2. QED
    BY <1>1, <1>2, <2>1, MergedUnread
<1>5. Bare(is)
  <2> SUFFICES ASSUME NEW t \in Tenancies, NEW m \in Month, ~Raised(is, t, m)
               PROVE  is.lines[t][m] = NoLines /\ is.invoice[t][m] = Unraised
                      /\ is.fees[t][m] = <<>>
    BY DEF Bare
  <2>1. ~Raised(b, t, m)
    BY <1>2 DEF Raised
  <2>2. is.fees[t][m] = b.fees[t][m] /\ is.invoice[t][m] = b.invoice[t][m]
    BY <1>3, <2>1
  <2>3. QED
    BY <1>2, <2>1, <2>2 DEF Bare
<1>6. ASSUME Sound(b) PROVE Sound(is)
  <2>1. ASSUME NEW t \in Tenancies, NEW m \in Month PROVE Balanced(is, t, m)
    <3>1. Adds(b.invoice[t][m], b.lines[t][m], b.fees[t][m])
      BY <1>6, BalancedAdds DEF Sound
    <3> SUFFICES Adds(is.invoice[t][m], is.lines[t][m], is.fees[t][m])
      BY BalancedAdds
    <3>2. CASE is.fees[t][m] = b.fees[t][m] /\ is.invoice[t][m] = b.invoice[t][m]
      BY <1>2, <3>1, <3>2
    <3>3. ASSUME NEW x \in Nat,
                 /\ is.fees[t][m] = Append(b.fees[t][m], x)
                 /\ is.invoice[t][m] = WithFee(b.invoice[t][m], x)
                 /\ x <= Balance(b.invoice[t][m]) /\ x > 0
                 /\ Raised(b, t, m) /\ b.fees[t][m] = <<>>
          PROVE  Adds(is.invoice[t][m], is.lines[t][m], is.fees[t][m])
      <4>1. is.fees[t][m] = <<x>>
        BY <3>3
      <4>2. b.invoice[t][m] \in LedgerRow /\ b.lines[t][m] \in Lines
        BY RowsOfABook
      <4>3. Adds(b.invoice[t][m], b.lines[t][m], <<>>)
        BY <3>1, <3>3
      <4>4. Adds(WithFee(b.invoice[t][m], x), b.lines[t][m], <<x>>)
        BY <3>3, <4>2, <4>3, FeeAdds
      <4>5. QED
        BY <1>2, <3>3, <4>1, <4>4
    <3>4. QED
      BY <1>3, <3>2, <3>3
  <2>2. ReserveBalance(is) >= 0
    BY <1>2, <1>6, SameReserve DEF Sound
  <2>3. QED
    BY <1>2, <1>6, <2>1, <2>2, BillsUntouched
<1>7. Stems(b, is)
  BY <1>2, <1>4, <1>5, <1>6 DEF Stems
<1>8. QED
  BY <1>7 DEF is

LEMMA PaymentAdds ==
    ASSUME NEW row \in LedgerRow, NEW remaining \in Nat, NEW pastDue \in BOOLEAN,
           NEW bill, NEW fees, Adds(row, bill, fees)
    PROVE  Adds(Credited(row, remaining, pastDue), bill, fees)
<1> DEFINE taken == Applied(row, remaining)
           paid == [row EXCEPT !.paid = @ + taken]
           after == [paid EXCEPT !.status = Recalculated(paid, pastDue)]
<1>1. CASE taken = 0
  BY <1>1 DEF Credited
<1>2. CASE taken # 0
  <2>1. Credited(row, remaining, pastDue) = after
    BY <1>2 DEF Credited
  <2>2. /\ taken \in Nat /\ taken <= Balance(row) /\ IsOpen(row) /\ Balance(row) > 0
        /\ row.paid \in Nat /\ row.total \in Int /\ row.status \in Statuses
    BY <1>2 DEF Applied, Least, LedgerRow, Balance
  <2> HIDE DEF taken
  <2>3. /\ paid \in LedgerRow /\ paid.total = row.total /\ paid.paid = row.paid + taken
        /\ paid.status = row.status
    BY <2>2 DEF LedgerRow
  <2> HIDE DEF paid
  <2>4. after.total = paid.total /\ after.paid = paid.paid
        /\ after.status = Recalculated(paid, pastDue)
    BY <2>3 DEF LedgerRow
  <2> HIDE DEF after
  <2>5. row.total > 0 /\ paid.paid > 0
    BY <1>2, <2>2, <2>3 DEF Balance
  <2>6. after.status = "PAID" <=> paid.paid >= paid.total
    BY <2>2, <2>3, <2>4, <2>5 DEF Recalculated, IsOpen
  <2>7. Balance(after) = Balance(row) - taken /\ Balance(after) = paid.total - paid.paid
    BY <2>2, <2>3, <2>4 DEF Balance
  <2>8. after.status = "PAID" <=> (after.total > 0 /\ Balance(after) = 0)
    BY <2>2, <2>3, <2>4, <2>5, <2>6, <2>7 DEF Balance
  <2>9. QED
    BY <2>1, <2>3, <2>4, <2>8 DEF Adds
<1>3. QED
  BY <1>1, <1>2

LEMMA NothingOwedNothingTaken ==
    ASSUME NEW remaining, NEW pastDue
    PROVE  Credited(Unraised, remaining, pastDue) = Unraised
BY DEF Credited, Applied, Balance, Unraised, IsOpen

LEMMA CreditCell ==
    ASSUME NEW b \in Ledger, NEW T \in SUBSET Tenancies, NEW sheet \in [T -> Amounts],
           NEW t \in Tenancies, NEW m \in Month
    PROVE  \/ Credit(b, sheet).invoice[t][m] = b.invoice[t][m]
           \/ \E x \in Nat : Credit(b, sheet).invoice[t][m]
                                = Credited(b.invoice[t][m], x, today >= 2 * m)
<1> DEFINE rem(u) == Remaining(b, u, sheet[u])
           after(u, k) == Credited(b.invoice[u][k], rem(u)[k], today >= 2 * k)
           received == [u \in Tenancies |-> IF u \in T THEN b.received[u] + sheet[u]
                                                       ELSE b.received[u]]
           invoice == [u \in Tenancies |-> IF u \notin T THEN b.invoice[u]
                                           ELSE [k \in Month |-> after(u, k)]]
           is == [b EXCEPT !.received = received, !.invoice = invoice]
<1>1. Credit(b, sheet) = is
  <2>1. DOMAIN sheet = T
    OBVIOUS
  <2>2. QED
    BY <2>1 DEF Credit
<1>2. ASSUME t \in T PROVE rem(t)[m] \in Nat
  <2>1. sheet[t] \in Nat
    BY <1>2, LedgerAssumption
  <2>2. \A k \in Month : Balance(b.invoice[t][k]) \in Int
    BY RowsOfABook
  <2>3. \E r : r \in Spreads(b.invoice[t], sheet[t], Months)
    BY <2>1, <2>2, SpreadExists
  <2>4. rem(t) \in Spreads(b.invoice[t], sheet[t], Months)
    BY <2>3 DEF Remaining
  <2> HIDE DEF rem
  <2>5. QED
    BY <2>1, <2>4, MonthsAreNumbers DEF Spreads
<1> HIDE DEF rem
<1>3. is.invoice = invoice
  BY DEF Ledger
<1>4. CASE t \notin T
  <2>1. invoice[t][m] = b.invoice[t][m]
    BY <1>4
  <2> HIDE DEF is, invoice
  <2>2. QED
    BY <1>1, <1>3, <2>1
<1>5. CASE t \in T
  <2>1. invoice[t][m] = Credited(b.invoice[t][m], rem(t)[m], today >= 2 * m)
    BY <1>5
  <2> HIDE DEF is, invoice
  <2>2. QED
    BY <1>1, <1>2, <1>3, <1>5, <2>1
<1>6. QED
  BY <1>4, <1>5

LEMMA CreditRest ==
    ASSUME NEW b \in Ledger, NEW sheet
    PROVE  LET is == Credit(b, sheet) IN
           /\ is.lines = b.lines /\ is.billedOn = b.billedOn /\ is.reserve = b.reserve
           /\ is.reading = b.reading /\ is.drawn = b.drawn /\ is.fees = b.fees
BY DEF Credit, Ledger

LEMMA CreditStems ==
    ASSUME NEW b \in Ledger, today \in LedgerDates, Bare(b),
           NEW T \in SUBSET Tenancies, NEW sheet \in [T -> Amounts]
    PROVE  Stems(b, Credit(b, sheet))
<1> DEFINE is == Credit(b, sheet)
<1>1. is \in Ledger
  BY CreditOK
<1>2. /\ is.lines = b.lines /\ is.billedOn = b.billedOn /\ is.reserve = b.reserve
      /\ is.reading = b.reading /\ is.drawn = b.drawn /\ is.fees = b.fees
  BY CreditRest
<1>3. ASSUME NEW t \in Tenancies, NEW m \in Month
      PROVE  \/ is.invoice[t][m] = b.invoice[t][m]
             \/ \E x \in Nat :
                    is.invoice[t][m] = Credited(b.invoice[t][m], x, today >= 2 * m)
  BY CreditCell
<1> HIDE DEF is
<1>4. Merged(b, is, b) = is
  BY <1>1, <1>2, MergedUnread
<1>5. Bare(is)
  <2> SUFFICES ASSUME NEW t \in Tenancies, NEW m \in Month, ~Raised(is, t, m)
               PROVE  is.lines[t][m] = NoLines /\ is.invoice[t][m] = Unraised
                      /\ is.fees[t][m] = <<>>
    BY DEF Bare
  <2>1. ~Raised(b, t, m)
    BY <1>2 DEF Raised
  <2>2. b.lines[t][m] = NoLines /\ b.invoice[t][m] = Unraised /\ b.fees[t][m] = <<>>
    BY <2>1 DEF Bare
  <2>3. is.invoice[t][m] = Unraised
    BY <1>3, <2>2, NothingOwedNothingTaken
  <2>4. QED
    BY <1>2, <2>2, <2>3
<1>6. ASSUME Sound(b) PROVE Sound(is)
  <2>1. ASSUME NEW t \in Tenancies, NEW m \in Month PROVE Balanced(is, t, m)
    <3>1. Adds(b.invoice[t][m], b.lines[t][m], b.fees[t][m])
      BY <1>6, BalancedAdds DEF Sound
    <3>2. b.invoice[t][m] \in LedgerRow /\ (today >= 2 * m) \in BOOLEAN
      BY RowsOfABook
    <3>3. \A x \in Nat : Adds(Credited(b.invoice[t][m], x, today >= 2 * m),
                              b.lines[t][m], b.fees[t][m])
      BY <3>1, <3>2, PaymentAdds
    <3>4. Adds(is.invoice[t][m], is.lines[t][m], is.fees[t][m])
      BY <1>2, <1>3, <3>1, <3>3
    <3>5. QED
      BY <3>4, BalancedAdds
  <2>2. ReserveBalance(is) >= 0
    BY <1>2, <1>6, SameReserve DEF Sound
  <2>3. QED
    BY <1>2, <1>6, <2>1, <2>2, BillsUntouched
<1>7. Stems(b, is)
  BY <1>2, <1>4, <1>5, <1>6 DEF Stems
<1>8. QED
  BY <1>7 DEF is

LEMMA DrawStems ==
    ASSUME NEW b \in Ledger, NEW amount \in Nat, Bare(b), amount <= ReserveBalance(b)
    PROVE  Stems(b, [b EXCEPT !.drawn = @ + amount])
<1> DEFINE is == [b EXCEPT !.drawn = @ + amount]
           drawn == b.drawn + amount
<1>1. b.drawn \in Nat /\ drawn \in Nat
  BY DEF Ledger
<1>2. is = [b EXCEPT !.drawn = drawn]
  OBVIOUS
<1> HIDE DEF is, drawn
<1>3. is \in Ledger
  BY <1>1, <1>2 DEF Ledger
<1>4. /\ is.lines = b.lines /\ is.billedOn = b.billedOn /\ is.reserve = b.reserve
      /\ is.reading = b.reading /\ is.drawn = drawn /\ is.fees = b.fees
      /\ is.invoice = b.invoice
  BY <1>2 DEF Ledger
<1>5. Merged(b, is, b) = is
  BY <1>3, <1>4, MergedUnread
<1>6. Bare(is)
  BY <1>4 DEF Bare, Raised
<1>7. ASSUME Sound(b) PROVE Sound(is)
  <2>1. ASSUME NEW t \in Tenancies, NEW m \in Month PROVE Balanced(is, t, m)
    BY <1>4, <1>7, BalancedAdds DEF Sound
  <2>2. ReserveBalance(is) >= 0
    <3> DEFINE total == SumOver(b.reserve, Month)
    <3>1. total \in Int
      <4>1. \A k \in Month : b.reserve[k] \in Int
        BY RowsOfABook DEF Ledger
      <4>2. QED
        BY <4>1, MonthsAreNumbers, SumType
    <3>2. ReserveBalance(is) = total - drawn /\ ReserveBalance(b) = total - b.drawn
      BY <1>4 DEF ReserveBalance
    <3> HIDE DEF total
    <3>3. QED
      BY <1>1, <3>1, <3>2 DEF drawn
  <2>3. QED
    BY <1>4, <1>7, <2>1, <2>2, BillsUntouched
<1>8. Stems(b, is)
  BY <1>4, <1>5, <1>6, <1>7 DEF Stems
<1>9. QED
  BY <1>8 DEF is

-----------------------------------------------------------------------------
(* Only stale sessions unbalance the books *)

(* what is in flight was made from what was read, and what was raised then is
   raised still *)
SteadyIInv ==
    /\ LedgerIInv /\ NoNegativeShare
    /\ Bare(books)
    /\ \A c \in Clerks : clerk[c].at = "ready" =>
            /\ Bare(clerk[c].was) /\ Onward(clerk[c].was, books)
            /\ Stems(clerk[c].was, clerk[c].is)

(* A commit over changed rows still raises no invoice without its lines. *)
LEMMA MergedBare ==
    ASSUME NEW was \in Ledger, NEW is \in Ledger, NEW now \in Ledger,
           Bare(was), Bare(now), Onward(was, now), Stems(was, is)
    PROVE  Bare(Merged(was, is, now)) /\ Onward(now, Merged(was, is, now))
<1> DEFINE after == Merged(was, is, now)
<1>1. ASSUME NEW t \in Tenancies, NEW m \in Month
      PROVE  /\ after.lines[t][m] = Flushed(was.lines[t][m], is.lines[t][m], now.lines[t][m])
             /\ after.invoice[t][m] = FlushedInvoice(was.invoice[t][m], is.invoice[t][m],
                                                     now.invoice[t][m])
             /\ after.fees[t][m] = now.fees[t][m] \o
                    SubSeq(is.fees[t][m], Len(was.fees[t][m]) + 1, Len(is.fees[t][m]))
  BY DEF Merged
<1> HIDE DEF after
<1>2. ASSUME NEW t \in Tenancies, NEW m \in Month, is.lines[t][m] # was.lines[t][m]
      PROVE  Raised(after, t, m)
  <2>1. Raised(is, t, m)
    BY <1>2 DEF Stems
  <2>2. after.lines[t][m] = is.lines[t][m]
    BY <1>1, <1>2 DEF Flushed
  <2>3. QED
    BY <2>1, <2>2 DEF Raised
<1>3. ASSUME NEW t \in Tenancies, NEW m \in Month, is.lines[t][m] = was.lines[t][m]
      PROVE  after.lines[t][m] = now.lines[t][m]
  BY <1>1, <1>3 DEF Flushed
<1>4. Onward(now, after)
  BY <1>2, <1>3 DEF Onward, Raised
<1>5. Bare(after)
  <2> SUFFICES ASSUME NEW t \in Tenancies, NEW m \in Month, ~Raised(after, t, m)
               PROVE  after.lines[t][m] = NoLines /\ after.invoice[t][m] = Unraised
                      /\ after.fees[t][m] = <<>>
    BY DEF Bare
  <2>1. is.lines[t][m] = was.lines[t][m] /\ after.lines[t][m] = now.lines[t][m]
    BY <1>2, <1>3
  <2>2. ~Raised(now, t, m)
    BY <2>1 DEF Raised
  <2>3. ~Raised(was, t, m)
    BY <2>2 DEF Onward
  <2>4. ~Raised(is, t, m)
    BY <2>1, <2>3 DEF Raised
  <2>5. /\ was.invoice[t][m] = Unraised /\ was.fees[t][m] = <<>>
        /\ now.invoice[t][m] = Unraised /\ now.fees[t][m] = <<>> /\ now.lines[t][m] = NoLines
    BY <2>2, <2>3 DEF Bare
  <2>6. is.invoice[t][m] = Unraised /\ is.fees[t][m] = <<>>
    BY <2>4 DEF Bare, Stems
  <2>7. after.invoice[t][m] = Unraised
    <3>1. after.invoice[t][m] = FlushedInvoice(Unraised, Unraised, Unraised)
      BY <1>1, <2>5, <2>6
    <3>2. QED
      BY <3>1 DEF FlushedInvoice, Flushed, Unraised
  <2>8. after.fees[t][m] = <<>>
    <3>1. SubSeq(<<>>, Len(<<>>) + 1, Len(<<>>)) = <<>>
      OBVIOUS
    <3>2. after.fees[t][m] = <<>> \o <<>>
      BY <1>1, <2>5, <2>6, <3>1
    <3>3. QED
      BY <3>2
  <2>9. QED
    BY <2>1, <2>5, <2>7, <2>8
<1>6. QED
  BY <1>4, <1>5 DEF after

LEMMA InitSteadyIInv == LedgerInit /\ NoNegativeShare => SteadyIInv
<1> SUFFICES ASSUME LedgerInit, NoNegativeShare PROVE SteadyIInv
  OBVIOUS
<1>1. Bare(books)
  BY DEF LedgerInit, NewLedger, PerMonth, Bare
<1>2. \A c \in Clerks : clerk[c].at # "ready"
  BY DEF LedgerInit, AtRest
<1>3. QED
  BY <1>1, <1>2, InitLedgerIInv DEF SteadyIInv

(* A request that begins on the books as they are. *)
LEMMA UndertakesSteadily ==
    ASSUME SteadyIInv, LedgerIInv', NEW c \in Clerks, NEW new, Stems(books, new),
           Undertakes(c, new)
    PROVE  SteadyIInv'
<1> DEFINE row == [AtRest EXCEPT !.at = "ready", !.was = books, !.is = new]
<1>1. books' = books /\ clerk' = [clerk EXCEPT ![c] = row] /\ clerk \in [Clerks -> ClerkRow]
  BY DEF Undertakes, SteadyIInv, LedgerIInv, SessionsOK
<1>2. row.was = books /\ row.is = new
  BY DEF AtRest
<1> HIDE DEF row
<1>3. Bare(books) /\ NoNegativeShare
  BY DEF SteadyIInv
<1>4. ASSUME NEW d \in Clerks, clerk'[d].at = "ready"
      PROVE  Bare(clerk'[d].was) /\ Onward(clerk'[d].was, books)
             /\ Stems(clerk'[d].was, clerk'[d].is)
  <2>1. CASE d = c
    <3>1. clerk'[d].was = books /\ clerk'[d].is = new
      BY <1>1, <1>2, <2>1
    <3>2. Onward(books, books)
      BY DEF Onward
    <3>3. QED
      BY <1>3, <3>1, <3>2
  <2>2. CASE d # c
    <3>1. clerk'[d] = clerk[d]
      BY <1>1, <2>2
    <3>2. QED
      BY <1>4, <3>1 DEF SteadyIInv
  <2>3. QED
    BY <2>1, <2>2
<1>5. Bare(books)' /\ NoNegativeShare'
  BY <1>1, <1>3 DEF Bare, Raised, NoNegativeShare
<1>6. QED
  BY <1>1, <1>4, <1>5 DEF SteadyIInv

LEMMA RestSteadily ==
    ASSUME SteadyIInv, LedgerIInv', NEW c \in Clerks, UNCHANGED books,
           NEW row, row.at # "ready", clerk' = [clerk EXCEPT ![c] = row]
    PROVE  SteadyIInv'
<1>1. clerk \in [Clerks -> ClerkRow]
  BY DEF SteadyIInv, LedgerIInv, SessionsOK
<1>2. ASSUME NEW d \in Clerks, clerk'[d].at = "ready"
      PROVE  Bare(clerk'[d].was) /\ Onward(clerk'[d].was, books)
             /\ Stems(clerk'[d].was, clerk'[d].is)
  <2>1. clerk'[d] = clerk[d]
    BY <1>1, <1>2
  <2>2. QED
    BY <1>2, <2>1 DEF SteadyIInv
<1>3. Bare(books)' /\ NoNegativeShare'
  BY DEF Bare, Raised, NoNegativeShare, SteadyIInv
<1>4. QED
  BY <1>2, <1>3 DEF SteadyIInv

LEMMA CommitSteadily ==
    ASSUME SteadyIInv, LedgerIInv', NEW c \in Clerks, CommitLedger(c)
    PROVE  SteadyIInv'
<1> DEFINE was == clerk[c].was
           is == clerk[c].is
           row == CommittedRow(c)
<1>1. /\ books' = Merged(was, is, books) /\ clerk' = [clerk EXCEPT ![c] = row]
      /\ clerk[c].at = "ready"
  BY DEF CommitLedger, CommittedRow
<1>2. clerk \in [Clerks -> ClerkRow] /\ was \in Ledger /\ is \in Ledger /\ books \in Ledger
  BY DEF SteadyIInv, LedgerIInv, SessionsOK, ClerkRow
<1>3. Bare(was) /\ Bare(books) /\ Onward(was, books) /\ Stems(was, is)
  BY <1>1 DEF SteadyIInv
<1>4. row.at # "ready"
  BY DEF CommittedRow, AtRest
<1> HIDE DEF was, is, row
<1>5. Bare(books') /\ Onward(books, books')
  BY <1>1, <1>2, <1>3, MergedBare
<1>6. ASSUME NEW d \in Clerks, clerk'[d].at = "ready"
      PROVE  Bare(clerk'[d].was) /\ Onward(clerk'[d].was, books')
             /\ Stems(clerk'[d].was, clerk'[d].is)
  <2>1. clerk'[d] = clerk[d]
    BY <1>1, <1>2, <1>4, <1>6
  <2>2. Bare(clerk[d].was) /\ Onward(clerk[d].was, books) /\ Stems(clerk[d].was, clerk[d].is)
    BY <1>6, <2>1 DEF SteadyIInv
  <2>3. Onward(clerk[d].was, books')
    BY <1>5, <2>2 DEF Onward
  <2>4. QED
    BY <2>1, <2>2, <2>3
<1>7. NoNegativeShare' /\ Bare(books)'
  BY <1>5 DEF NoNegativeShare, SteadyIInv, Bare, Raised
<1>8. QED
  BY <1>6, <1>7 DEF SteadyIInv

LEMMA StatementRowSteadily ==
    ASSUME SteadyIInv, LedgerIInv', NEW c \in Clerks, RecordStatementRow(c)
    PROVE  SteadyIInv'
<1>1. PICK r \in clerk[c].left :
        clerk' = [clerk EXCEPT ![c].at = "ready", ![c].was = books,
                               ![c].is = Credit(books, OnePayment(r[1], r[2])),
                               ![c].left = @ \ {r}]
  BY DEF RecordStatementRow
<1> DEFINE sheet == OnePayment(r[1], r[2])
           T == {r[1]}
           new == Credit(books, sheet)
<1>2. /\ clerk \in [Clerks -> ClerkRow] /\ books \in Ledger /\ today \in LedgerDates
      /\ books' = books /\ Bare(books) /\ NoNegativeShare
  BY DEF RecordStatementRow, SteadyIInv, LedgerIInv, SessionsOK
<1>3. r[1] \in Tenancies /\ r[2] \in Amounts
  BY <1>2 DEF ClerkRow
<1>4. sheet \in [T -> Amounts] /\ T \in SUBSET Tenancies
  BY <1>3 DEF OnePayment
<1>5. Stems(books, new)
  <2> HIDE DEF sheet, T
  <2>1. QED
    BY <1>2, <1>4, CreditStems
<1>6. clerk'[c].was = books /\ clerk'[c].is = new
      /\ \A d \in Clerks \ {c} : clerk'[d] = clerk[d]
  BY <1>1, <1>2 DEF ClerkRow
<1> HIDE DEF new, sheet, T
<1>7. ASSUME NEW d \in Clerks, clerk'[d].at = "ready"
      PROVE  Bare(clerk'[d].was) /\ Onward(clerk'[d].was, books)
             /\ Stems(clerk'[d].was, clerk'[d].is)
  <2>1. CASE d = c
    <3>1. Onward(books, books)
      BY DEF Onward
    <3>2. QED
      BY <1>2, <1>5, <1>6, <2>1, <3>1
  <2>2. CASE d # c
    <3>1. clerk'[d] = clerk[d]
      BY <1>6, <2>2
    <3>2. QED
      BY <1>7, <3>1 DEF SteadyIInv
  <2>3. QED
    BY <2>1, <2>2
<1>8. NoNegativeShare' /\ Bare(books)'
  BY <1>2 DEF NoNegativeShare, Bare, Raised
<1>9. QED
  BY <1>2, <1>7, <1>8 DEF SteadyIInv

LEMMA ReadingSteadily ==
    ASSUME SteadyIInv, LedgerIInv', NEW t \in Tenancies, RecordMeterReading(t)
    PROVE  /\ SteadyIInv'
           /\ Sound(books) => Sound(books')
<1> DEFINE reading == [books.reading EXCEPT ![t] = [@ EXCEPT ![MonthOf(today)] = TRUE]]
<1>1. books' = [books EXCEPT !.reading = reading] /\ clerk' = clerk /\ books \in Ledger
  BY DEF RecordMeterReading, SteadyIInv, LedgerIInv, Ledger
<1> HIDE DEF reading
<1>2. /\ books'.lines = books.lines /\ books'.billedOn = books.billedOn
      /\ books'.reserve = books.reserve /\ books'.drawn = books.drawn
      /\ books'.fees = books.fees /\ books'.invoice = books.invoice
  BY <1>1 DEF Ledger
<1>3. Bare(books') /\ NoNegativeShare'
  BY <1>2 DEF SteadyIInv, Bare, Raised, NoNegativeShare
<1>4. ASSUME NEW d \in Clerks, clerk[d].at = "ready"
      PROVE  Bare(clerk[d].was) /\ Onward(clerk[d].was, books')
             /\ Stems(clerk[d].was, clerk[d].is)
  BY <1>2, <1>4 DEF SteadyIInv, Onward, Raised
<1>5. SteadyIInv'
  BY <1>1, <1>3, <1>4 DEF SteadyIInv
<1>6. ASSUME Sound(books) PROVE Sound(books')
  <2>1. ASSUME NEW u \in Tenancies, NEW m \in Month PROVE Balanced(books', u, m)
    BY <1>2, <1>6, BalancedAdds DEF Sound
  <2>2. ReserveBalance(books') >= 0
    BY <1>2, <1>6, SameReserve DEF Sound
  <2>3. QED
    BY <1>2, <1>6, <2>1, <2>2, BillsUntouched
<1>7. QED
  BY <1>5, <1>6

(* only a commit, and a reading, changes the books *)
LEMMA NextSteadyIInv == SteadyIInv /\ [LedgerNext]_ledgerVars => SteadyIInv'
<1> SUFFICES ASSUME SteadyIInv, [LedgerNext]_ledgerVars PROVE SteadyIInv'
  OBVIOUS
<1>0. LedgerIInv /\ LedgerIInv' /\ Bare(books) /\ NoNegativeShare
      /\ books \in Ledger /\ today \in LedgerDates
  BY NextLedgerIInv DEF SteadyIInv, LedgerIInv
<1>1. CASE NextDay \/ UNCHANGED ledgerVars
  <2>1. books' = books /\ clerk' = clerk
    BY <1>1 DEF NextDay, ledgerVars
  <2>2. QED
    BY <1>0, <2>1 DEF SteadyIInv, NoNegativeShare
<1>2. CASE \E t \in Tenancies : RecordMeterReading(t)
  BY <1>0, <1>2, ReadingSteadily
<1>3. ASSUME NEW c \in Clerks, GenerateDueInvoices(c) PROVE SteadyIInv'
  <2>1. Undertakes(c, Invoiced(books, Tenancies, today)) /\ Tenancies \in SUBSET Tenancies
    BY <1>3 DEF GenerateDueInvoices
  <2>2. Stems(books, Invoiced(books, Tenancies, today))
    BY <1>0, <2>1, InvoicedStems
  <2>3. QED
    BY <1>0, <2>1, <2>2, UndertakesSteadily
<1>4. ASSUME NEW c \in Clerks, ApplyLateFees(c) PROVE SteadyIInv'
  <2>1. Undertakes(c, Charged(books)) /\ Stems(books, Charged(books))
    BY <1>0, <1>4, ChargedStems DEF ApplyLateFees
  <2>2. QED
    BY <1>0, <2>1, UndertakesSteadily
<1>5. ASSUME NEW c \in Clerks, NEW t \in Tenancies, NEW d \in LedgerDates,
             GenerateInvoice(c, t, d)
      PROVE  SteadyIInv'
  <2> DEFINE ts == {t}
  <2>1. Undertakes(c, Invoiced(books, ts, d)) /\ ts \in SUBSET Tenancies
    BY <1>5 DEF GenerateInvoice
  <2> HIDE DEF ts
  <2>2. Stems(books, Invoiced(books, ts, d))
    BY <1>0, <2>1, InvoicedStems
  <2>3. QED
    BY <1>0, <2>1, <2>2, UndertakesSteadily
<1>6. ASSUME NEW c \in Clerks, NEW T \in SUBSET Tenancies, NEW sheet \in [T -> Amounts],
             Undertakes(c, Credit(books, sheet))
      PROVE  SteadyIInv'
  <2>1. Stems(books, Credit(books, sheet))
    BY <1>0, CreditStems
  <2>2. QED
    BY <1>0, <1>6, <2>1, UndertakesSteadily
<1>7. ASSUME NEW c \in Clerks, NEW t \in Tenancies, NEW a \in Amounts, RecordPayment(c, t, a)
      PROVE  SteadyIInv'
  <2> DEFINE T == {t}
             sheet == OnePayment(t, a)
  <2>1. /\ T \in SUBSET Tenancies /\ sheet \in [T -> Amounts]
        /\ Undertakes(c, Credit(books, sheet))
    BY <1>7 DEF RecordPayment, OnePayment
  <2> HIDE DEF T, sheet
  <2>2. QED
    BY <1>6, <2>1
<1>8. ASSUME NEW c \in Clerks, NEW sheet \in Sheets, ImportPayments(c, sheet) PROVE SteadyIInv'
  <2>1. PICK T \in SUBSET Tenancies : sheet \in [T -> Amounts]
    BY DEF Sheets
  <2>2. Undertakes(c, Credit(books, sheet))
    BY <1>8 DEF ImportPayments
  <2>3. QED
    BY <1>6, <2>1, <2>2
<1>9. ASSUME NEW c \in Clerks, NEW rows, BeginStatement(c, rows) PROVE SteadyIInv'
  <2> DEFINE row == [AtRest EXCEPT !.at = "between", !.left = rows]
  <2>1. clerk' = [clerk EXCEPT ![c] = row] /\ books' = books /\ row.at # "ready"
    BY <1>9 DEF BeginStatement, AtRest
  <2> HIDE DEF row
  <2>2. QED
    BY <1>0, <2>1, RestSteadily
<1>10. ASSUME NEW c \in Clerks, RecordStatementRow(c) PROVE SteadyIInv'
  BY <1>0, <1>10, StatementRowSteadily
<1>11. ASSUME NEW c \in Clerks, NEW a \in {ReserveSlice(MonthlyPool)} \ {0}, DrawReserve(c, a)
       PROVE  SteadyIInv'
  <2> DEFINE new == [books EXCEPT !.drawn = @ + a]
  <2>1. a \in Nat /\ a <= ReserveBalance(books) /\ Undertakes(c, new)
    BY <1>11, SliceOfPool DEF DrawReserve
  <2>2. Stems(books, new)
    BY <1>0, <2>1, DrawStems
  <2> HIDE DEF new
  <2>3. QED
    BY <1>0, <2>1, <2>2, UndertakesSteadily
<1>12. ASSUME NEW c \in Clerks, CommitLedger(c) PROVE SteadyIInv'
  BY <1>0, <1>12, CommitSteadily
<1>13. ASSUME NEW c \in Clerks, AbortLedger(c) PROVE SteadyIInv'
  <2>1. clerk' = [clerk EXCEPT ![c] = AtRest] /\ books' = books /\ AtRest.at # "ready"
    BY <1>13 DEF AbortLedger, AtRest
  <2>2. QED
    BY <1>0, <2>1, RestSteadily
<1>14. QED
  BY <1>1, <1>2, <1>3, <1>4, <1>5, <1>7, <1>8, <1>9, <1>10, <1>11, <1>12, <1>13 DEF LedgerNext

(* The books are unbalanced only by a session that commits over rows that
   changed after it read them (invoice_service.py, late_fee_service.py,
   import_service.py, bank_transfer_service.py), when no tenant's share of the
   service charge is negative: a negative share is a credit, and its slice is
   taken from a reserve that may have been drawn already. *)
THEOREM BooksStaySoundWithoutOverlap ==
    LedgerSpec /\ NoNegativeShare => OnlyStaleWritersUnbalance
<1> DEFINE Unbalances ==
        Sound(books) /\ ~Sound(books') =>
            \E c \in Clerks : CommitLedger(c) /\ clerk[c].was # books
<1>1. SteadyIInv /\ [LedgerNext]_ledgerVars => [Unbalances]_ledgerVars
  <2> SUFFICES ASSUME SteadyIInv, LedgerNext, Sound(books), ~Sound(books')
               PROVE  \E c \in Clerks : CommitLedger(c) /\ clerk[c].was # books
    OBVIOUS
  <2>1. LedgerIInv'
    BY NextLedgerIInv DEF SteadyIInv
  <2>2. ~(\E t \in Tenancies : RecordMeterReading(t))
    BY <2>1, ReadingSteadily
  <2>3. books' # books
    OBVIOUS
  <2>4. PICK c \in Clerks : CommitLedger(c)
    <3>1. ~NextDay
      BY <2>3 DEF NextDay
    <3>2. \A c \in Clerks : \A new : ~Undertakes(c, new)
      BY <2>3 DEF Undertakes
    <3>3. \A c \in Clerks : ~RecordStatementRow(c) /\ ~AbortLedger(c)
                            /\ \A rows : ~BeginStatement(c, rows)
      BY <2>3 DEF RecordStatementRow, AbortLedger, BeginStatement
    <3>4. \A c \in Clerks : ~GenerateDueInvoices(c) /\ ~ApplyLateFees(c)
      BY <3>2 DEF GenerateDueInvoices, ApplyLateFees
    <3>5. \A c \in Clerks : \A t, d : ~GenerateInvoice(c, t, d)
      BY <3>2 DEF GenerateInvoice
    <3>6. \A c \in Clerks : \A t, a : ~RecordPayment(c, t, a)
      BY <3>2 DEF RecordPayment
    <3>7. \A c \in Clerks : \A sheet : ~ImportPayments(c, sheet)
      BY <3>2 DEF ImportPayments
    <3>8. \A c \in Clerks : \A a : ~DrawReserve(c, a)
      BY <3>2 DEF DrawReserve
    <3>9. QED
      BY <2>2, <3>1, <3>3, <3>4, <3>5, <3>6, <3>7, <3>8 DEF LedgerNext
  <2>5. CASE clerk[c].was = books
    <3> DEFINE was == clerk[c].was
               is == clerk[c].is
    <3>1. Stems(was, is) /\ books' = Merged(was, is, books)
      BY <2>4 DEF CommitLedger, SteadyIInv
    <3> HIDE DEF was, is
    <3>2. was = books
      BY <2>5 DEF was
    <3>3. books' = is
      BY <3>1, <3>2 DEF Stems
    <3>4. Sound(is)
      BY <3>1, <3>2 DEF Stems
    <3>5. QED
      BY <3>3, <3>4
  <2>6. QED
    BY <2>4, <2>5
<1>2. QED
  BY <1>1, InitSteadyIInv, NextSteadyIInv, PTL DEF LedgerSpec, OnlyStaleWritersUnbalance
=============================================================================
