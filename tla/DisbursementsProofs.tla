-------------------------- MODULE DisbursementsProofs --------------------------
(***************************************************************************)
(* What Disbursements guarantees for every number of disbursements,        *)
(* payouts and requests: the safety properties of disbursements_overlap    *)
(* however requests overlap; that a disbursement is paid once when they do *)
(* not; and that the daily run settles every day once and sends the owner  *)
(* the rent of the day; and the types.                                     *)
(*                                                                         *)
(* What an owner earned is a sum over days.  Only the last two results     *)
(* depend on the amount, so until then the shape of a row leaves it open.  *)
(***************************************************************************)
EXTENDS Disbursements, SumsProofs

(* a row, whatever its way, period and amount *)
IsRow(r) ==
    r \in [status   : DisbursementStatus \cup {"ABSENT"},
          way      : {r.way}, from : {r.from}, to : {r.to}, net : {r.net},
          reviewed : BOOLEAN,
          conv     : Conversations \cup {None}]

Operations == {"insert", "approve", "reject", "mark_paid", "pay", "result", "timeout"}

IsRequest(r) ==
    /\ r \in [op : Operations \cup {"none"}, at : {"idle", "loaded", "ready"},
             dsb : Disbursements \cup {None}, was : {r.was}, is : {r.is}]
    /\ IsRow(r.was) /\ IsRow(r.is)

ShapeOK ==
    /\ row = [i \in Disbursements |-> row[i]]
    /\ \A i \in Disbursements : IsRow(row[i])
    /\ req = [h \in Handlers |-> req[h]]
    /\ \A h \in Handlers : IsRequest(req[h])
    /\ daraja \in [Conversations -> Payout]
    /\ byHand \subseteq Disbursements

(* the standings in which the money may be on its way, or was *)
Released == {"APPROVED", "PROCESSING", "COMPLETED", "FAILED"}

(* Safaricom carried out a payout of disbursement i *)
CarriedOut(i) ==
    \E c \in Conversations : daraja[c].of = i /\ daraja[c].state = "paid"

(* a row no commit has written is empty; a stored conversation is its own *)
RowOK(i) ==
    /\ row[i].status = "ABSENT" => row[i] = NoRow
    /\ row[i].conv # None => daraja[row[i].conv].of = i

(* A payout for a row that does not exist was sent by the daily run that is
   about to insert it. *)
PayoutOK(c) ==
    /\ daraja[c].state = "unused" => daraja[c].of = None
    /\ \A i \in Disbursements :
        daraja[c].of = i /\ row[i].status = "ABSENT" =>
            \E h \in Handlers : /\ req[h].op = "insert" /\ req[h].dsb = i
                                /\ req[h].is.conv = c /\ req[h].is.reviewed

(* What a request has in its session: a release is reviewed, a completion has
   been paid for, a conversation is its disbursement's. *)
SessionOK(h) ==
    /\ req[h].at = "idle" => req[h] = Idle
    /\ req[h].at # "idle" =>
        /\ req[h].op # "none"
        /\ req[h].dsb \in Disbursements
        /\ req[h].was.status # "COMPLETED"
        /\ req[h].is.status # "ABSENT"
        /\ req[h].was.reviewed => req[h].is.reviewed
        /\ req[h].is.status \in Released => req[h].is.reviewed
        /\ req[h].is.conv # None => daraja[req[h].is.conv].of = req[h].dsb
        /\ req[h].is.status = "COMPLETED" =>
            req[h].op = "mark_paid" \/ CarriedOut(req[h].dsb)
    /\ req[h].at = "loaded" => /\ req[h].op \in {"insert", "pay"}
                               /\ req[h].is.reviewed

(* A request that inserts is alone on its id; any other works on a row that
   exists and that stays reviewed. *)
InsertOK(h) ==
    req[h].op = "insert" =>
        /\ req[h].was = NoRow
        /\ row[req[h].dsb] = NoRow
        /\ \A g \in Handlers \ {h} : req[g].dsb # req[h].dsb
        /\ req[h].at = "loaded" => req[h].is.conv = None

UpdateOK(h) ==
    req[h].op \notin {"insert", "none"} =>
        /\ row[req[h].dsb].status # "ABSENT"
        /\ req[h].was.reviewed => row[req[h].dsb].reviewed
        /\ req[h].op = "pay" => req[h].was.reviewed

ServedOK(h) == SessionOK(h) /\ InsertOK(h) /\ UpdateOK(h)

IInv ==
    /\ ShapeOK
    /\ \A i \in Disbursements : RowOK(i)
    /\ \A c \in Conversations : PayoutOK(c)
    /\ \A h \in Handlers : ServedOK(h)
    /\ MoneyLeavesAfterReview
    /\ CompletedMeansMoneyMoved

(* Requests one at a time: what a request loaded is still there. *)
Serial ==
    /\ \A g, h \in Handlers : req[g].at # "idle" /\ req[h].at # "idle" => g = h
    /\ \A h \in Handlers : req[h].at # "idle" => req[h].was = row[req[h].dsb]

(* the payouts of i that a commit has heard of *)
Known(i) == {c \in Conversations : daraja[c].of = i /\ daraja[c].known}

(* no payout of i that is known can still bring the owner money *)
Spent(i) == \A c \in Known(i) : daraja[c].state \in {"failed", "dropped"}

(* A payout that is neither spent nor lost is the one stored in the row, and only
   while the row is in progress or completed by it. *)
HistoryOK(i) ==
    /\ row[i].conv # None => daraja[row[i].conv].known
    /\ \A c \in Known(i) :
            c # row[i].conv => daraja[c].state \in {"failed", "dropped"}
    /\ row[i].status \notin {"PROCESSING", "COMPLETED"} => Spent(i)
    /\ i \in byHand => row[i].status = "COMPLETED" /\ Spent(i)

(* what each operation requires of the row it loads and makes of it *)
OperationOK(h) ==
    /\ req[h].op \in {"pay", "mark_paid"} => req[h].was.status \in Payable
    /\ req[h].op \in {"approve", "reject"} => req[h].was.status = "PENDING"
    /\ req[h].op \notin {"insert", "pay"} => req[h].is.conv = req[h].was.conv
    /\ req[h].at = "loaded" => req[h].is.conv = req[h].was.conv
    /\ req[h].op = "mark_paid" => req[h].is.status = "COMPLETED"
    /\ req[h].op \in {"result", "timeout"} =>
        /\ req[h].was.conv # None
        /\ \/ req[h].op = "result" /\ req[h].is.status = "COMPLETED"
           \/ daraja[req[h].was.conv].state \in {"failed", "dropped"}
    /\ req[h].op \in {"insert", "pay"} =>
        \/ req[h].is.conv = req[h].was.conv /\ req[h].is.status # "COMPLETED"
        \/ /\ req[h].is.status = "PROCESSING" /\ req[h].is.conv # None
           /\ ~daraja[req[h].is.conv].known

PaidOnceInv ==
    /\ Serial
    /\ \A c \in Conversations : daraja[c].state = "unused" => ~daraja[c].known
    /\ \A i \in Disbursements : HistoryOK(i)
    /\ \A h \in Handlers : OperationOK(h)

-----------------------------------------------------------------------------
(* Shapes *)

LEMMA NoRowShape == IsRow(NoRow)
BY DEF IsRow, NoRow, DisbursementStatus

LEMMA IdleShape == IsRequest(Idle)
<1> DEFINE r == Idle
<1>1. IsRow(r.was) /\ IsRow(r.is)
  BY NoRowShape DEF Idle
<1>2. QED
  BY <1>1 DEF IsRequest, Idle, Operations

(* A change of columns leaves a row. *)
LEMMA ChangedRow ==
    ASSUME NEW r, IsRow(r), NEW s \in DisbursementStatus,
           NEW b \in BOOLEAN, NEW c \in Conversations \cup {None}
    PROVE  /\ IsRow([r EXCEPT !.status = s])
           /\ IsRow([r EXCEPT !.status = s, !.reviewed = b])
           /\ IsRow([r EXCEPT !.status = s, !.conv = c])
BY DEF IsRow

(* A commit leaves a row, in which every column is the session's when the
   session changed it, and the committed one otherwise. *)
LEMMA FlushedRowShape ==
    ASSUME NEW was, NEW is, NEW now, IsRow(was), IsRow(is), IsRow(now)
    PROVE  LET f == FlushedRow(was, is, now) IN
           /\ IsRow(f)
           /\ f.status = IF is.status = was.status THEN now.status ELSE is.status
           /\ f.reviewed = IF is.reviewed = was.reviewed THEN now.reviewed
                                                         ELSE is.reviewed
           /\ f.conv = IF is.conv = was.conv THEN now.conv ELSE is.conv
<1> DEFINE f == FlushedRow(was, is, now)
<1>1. IsRow(f)
  BY DEF IsRow, FlushedRow
<1>2. QED
  BY <1>1 DEF IsRow, FlushedRow

-----------------------------------------------------------------------------
(* The first state *)

LEMMA InitInvariant == Init => IInv
<1> SUFFICES ASSUME Init PROVE IInv
  OBVIOUS
<1>1. ShapeOK
  BY NoRowShape, IdleShape DEF Init, ShapeOK, Payout
<1>2. \A i \in Disbursements : RowOK(i)
  BY DEF Init, RowOK, NoRow
<1>3. \A c \in Conversations : PayoutOK(c)
  BY IdsAssumption DEF Init, PayoutOK
<1>4. \A h \in Handlers : ServedOK(h)
  BY DEF Init, ServedOK, SessionOK, InsertOK, UpdateOK, Idle
<1>5. MoneyLeavesAfterReview /\ CompletedMeansMoneyMoved
  BY DEF Init, MoneyLeavesAfterReview, CompletedMeansMoneyMoved, NoRow
<1>6. QED
  BY <1>1, <1>2, <1>3, <1>4, <1>5 DEF IInv

-----------------------------------------------------------------------------
(* Requests of the other handlers *)

(* A request stays in order while another one works: on other disbursements,
   on the same one without taking back its review, and on payouts that are not
   its own. *)
LEMMA OthersServed ==
    ASSUME IInv, NEW h \in Handlers, NEW g \in Handlers \ {h},
           \A k \in Handlers \ {h} : req'[k] = req[k],
           req[g].op = "insert" => req'[h].dsb # req[g].dsb,
           \A i \in Disbursements : i = req[g].dsb =>
                \/ row'[i] = row[i]
                \/ /\ row[i].status # "ABSENT" /\ row'[i].status # "ABSENT"
                   /\ row[i].reviewed => row'[i].reviewed,
           \A c \in Conversations : daraja[c].of = req[g].dsb /\ daraja[c].of # None =>
                /\ daraja'[c].of = daraja[c].of
                /\ daraja[c].state = "paid" => daraja'[c].state = "paid"
    PROVE  ServedOK(g)'
<1>1. /\ ServedOK(g) /\ req'[g] = req[g] /\ IsRow(req[g].is)
      /\ req[g].op # "none" => req[g].dsb \in Disbursements
  BY DEF IInv, ShapeOK, IsRequest, ServedOK, SessionOK, Idle
<1>2. req[g].dsb \in Disbursements => req[g].dsb # None
  BY IdsAssumption
<1>3. SessionOK(g)'
  <2>1. req[g].at # "idle" /\ CarriedOut(req[g].dsb) => CarriedOut(req[g].dsb)'
    BY <1>1, <1>2 DEF CarriedOut, ServedOK, SessionOK
  <2>2. req[g].at # "idle" /\ req[g].is.conv # None =>
            daraja'[req[g].is.conv].of = req[g].dsb
    BY <1>1, <1>2 DEF ServedOK, SessionOK, IsRow
  <2>3. QED
    BY <1>1, <2>1, <2>2 DEF ServedOK, SessionOK, CarriedOut
<1>4. InsertOK(g)'
  BY <1>1 DEF ServedOK, InsertOK, NoRow
<1>5. UpdateOK(g)'
  BY <1>1 DEF ServedOK, UpdateOK
<1>6. QED
  BY <1>3, <1>4, <1>5 DEF ServedOK

(* an idle handler is in order *)
LEMMA IdleServed ==
    ASSUME NEW h \in Handlers, req'[h] = Idle
    PROVE  ServedOK(h)'
BY DEF ServedOK, SessionOK, InsertOK, UpdateOK, Idle

(* The tables and payouts stay as they are: what IInv says of them stays, if no
   insert is forgotten whose payout was sent. *)
LEMMA TablesKept ==
    ASSUME IInv, UNCHANGED <<row, byHand, daraja>>,
           \A g \in Handlers : req[g].op = "insert" /\ req[g].is.conv # None =>
                req'[g] = req[g]
    PROVE  /\ \A i \in Disbursements : RowOK(i)'
           /\ \A c \in Conversations : PayoutOK(c)'
           /\ MoneyLeavesAfterReview' /\ CompletedMeansMoneyMoved'
<1>1. \A i \in Disbursements : RowOK(i)'
  BY DEF IInv, RowOK
<1>2. \A c \in Conversations : PayoutOK(c)'
  BY IdsAssumption DEF IInv, PayoutOK
<1>3. QED
  BY <1>1, <1>2 DEF IInv, MoneyLeavesAfterReview, CompletedMeansMoneyMoved

-----------------------------------------------------------------------------
(* The beginning of a request *)

LEMMA LoadKeeps ==
    ASSUME IInv, NEW h \in Handlers, NEW i \in Disbursements,
           NEW op \in Operations \ {"insert"}, NEW at \in {"loaded", "ready"}, NEW is,
           Load(h, i, op, at, is), IsRow(is),
           row[i].status \notin {"ABSENT", "COMPLETED"}, is.status # "ABSENT",
           row[i].reviewed => is.reviewed,
           is.status \in Released => is.reviewed,
           is.conv = row[i].conv,
           is.status = "COMPLETED" => op = "mark_paid" \/ CarriedOut(i),
           at = "loaded" => op = "pay" /\ is.reviewed,
           op = "pay" => row[i].reviewed
    PROVE  IInv'
<1> DEFINE r == [op |-> op, at |-> at, dsb |-> i, was |-> row[i], is |-> is]
<1>1. /\ req'[h] = r /\ \A k \in Handlers \ {h} : req'[k] = req[k]
      /\ req' = [k \in Handlers |-> req'[k]]
  BY DEF Load, IInv, ShapeOK
<1>2. UNCHANGED <<row, byHand, daraja>> /\ req[h] = Idle
  BY DEF Load, MayStart, Rows, IInv, ServedOK, SessionOK
<1>3. ShapeOK'
  <2>1. IsRequest(r)
    BY DEF IInv, ShapeOK, IsRequest
  <2>2. QED
    BY <1>1, <1>2, <2>1 DEF IInv, ShapeOK
<1>4. ServedOK(h)'
  <2>1. SessionOK(h)'
    BY <1>1, <1>2 DEF SessionOK, CarriedOut, Operations, IInv, RowOK
  <2>2. InsertOK(h)' /\ UpdateOK(h)'
    BY <1>1, <1>2 DEF InsertOK, UpdateOK
  <2>3. QED
    BY <2>1, <2>2 DEF ServedOK
<1>5. \A g \in Handlers \ {h} : ServedOK(g)'
  <2>1. \A g \in Handlers : req[g].op = "insert" => req[g].dsb # i
    BY DEF IInv, ServedOK, InsertOK, NoRow
  <2>2. QED
    BY <1>1, <1>2, <2>1, OthersServed
<1>6. \A g \in Handlers : req[g].op = "insert" => req'[g] = req[g]
  BY <1>1, <1>2 DEF Idle
<1>7. QED
  BY <1>2, <1>3, <1>4, <1>5, <1>6, TablesKept DEF IInv

(* the requests of users, callbacks and time-outs *)
LEMMA LoadsKeep ==
    ASSUME IInv, NEW h \in Handlers, NEW i \in Disbursements,
           \/ ApproveBegin(h, i) \/ RejectBegin(h, i)
           \/ MarkPaidBegin(h, i) \/ PayBegin(h, i)
    PROVE  IInv'
<1> DEFINE approved == [row[i] EXCEPT !.status = "APPROVED", !.reviewed = TRUE]
           rejected == [row[i] EXCEPT !.status = "REJECTED", !.reviewed = TRUE]
           completed == [row[i] EXCEPT !.status = "COMPLETED"]
<1>1. IsRow(row[i]) /\ (row[i].status \in Released => row[i].reviewed)
  BY DEF IInv, ShapeOK, MoneyLeavesAfterReview, Released
<1>2. IsRow(approved) /\ IsRow(rejected) /\ IsRow(completed)
  BY <1>1, ChangedRow DEF DisbursementStatus
<1>3. CASE ApproveBegin(h, i)
  <2>1. Load(h, i, "approve", "ready", approved)
    BY <1>3 DEF ApproveBegin
  <2>2. row[i].status = "PENDING" /\ "approve" \in Operations
    BY <1>3 DEF ApproveBegin, Operations
  <2>3. /\ approved.status = "APPROVED" /\ approved.reviewed
        /\ approved.conv = row[i].conv
    BY <1>1 DEF IsRow
  <2> HIDE DEF approved
  <2>4. QED
    BY <1>2, <2>1, <2>2, <2>3, LoadKeeps
<1>4. CASE RejectBegin(h, i)
  <2>1. Load(h, i, "reject", "ready", rejected)
    BY <1>4 DEF RejectBegin
  <2>2. row[i].status = "PENDING" /\ "reject" \in Operations
    BY <1>4 DEF RejectBegin, Operations
  <2>3. /\ rejected.status = "REJECTED" /\ rejected.reviewed
        /\ rejected.conv = row[i].conv
    BY <1>1 DEF IsRow
  <2> HIDE DEF rejected
  <2>4. QED
    BY <1>2, <2>1, <2>2, <2>3, LoadKeeps
<1>5. CASE MarkPaidBegin(h, i)
  <2>1. Load(h, i, "mark_paid", "ready", completed)
    BY <1>5 DEF MarkPaidBegin
  <2>2. row[i].status \in Payable /\ "mark_paid" \in Operations /\ row[i].reviewed
    BY <1>1, <1>5 DEF MarkPaidBegin, Operations, Payable, Released
  <2>3. /\ completed.status = "COMPLETED" /\ completed.reviewed = row[i].reviewed
        /\ completed.conv = row[i].conv
    BY <1>1 DEF IsRow
  <2> HIDE DEF completed
  <2>4. QED
    BY <1>2, <2>1, <2>2, <2>3, LoadKeeps DEF Payable
<1>6. CASE PayBegin(h, i)
  <2>1. Load(h, i, "pay", "loaded", row[i])
    BY <1>6 DEF PayBegin
  <2>2. row[i].status \in Payable /\ "pay" \in Operations /\ row[i].reviewed
    BY <1>1, <1>6 DEF PayBegin, Operations, Payable, Released
  <2>3. QED
    BY <1>1, <2>1, <2>2, LoadKeeps DEF Payable
<1>7. QED
  BY <1>3, <1>4, <1>5, <1>6

(* A stored conversation is its disbursement's, so a payout has been sent for it
   and it was reviewed. *)
LEMMA ResultKeeps ==
    ASSUME IInv, NEW h \in Handlers, NEW c \in Conversations, ResultBegin(h, c)
    PROVE  IInv'
<1>1. CASE UNCHANGED <<Books, Rows, daraja, req>>
  <2>1. UNCHANGED <<row, byHand, daraja, req>>
    BY <1>1 DEF Rows
  <2>2. ShapeOK' /\ \A g \in Handlers : ServedOK(g)'
    BY <2>1 DEF IInv, ShapeOK, ServedOK, SessionOK, InsertOK, UpdateOK, CarriedOut
  <2>3. QED
    BY <2>1, <2>2, TablesKept DEF IInv
<1>2. ASSUME NEW i \in RowsOf(c), AwaitsResult(i),
             Load(h, i, "result", "ready", [row[i] EXCEPT !.status = Outcome(c)])
      PROVE  IInv'
  <2> DEFINE is == [row[i] EXCEPT !.status = Outcome(c)]
  <2>1. /\ i \in Disbursements /\ row[i].status \notin {"ABSENT", "COMPLETED"}
        /\ row[i].conv = c /\ IsRow(row[i])
    BY <1>2 DEF RowsOf, AwaitsResult, IInv, ShapeOK
  <2>2. daraja[c].of = i
    BY <2>1, IdsAssumption DEF IInv, RowOK
  <2>3. row[i].reviewed
    BY <2>1, <2>2 DEF IInv, MoneyLeavesAfterReview
  <2>4. Outcome(c) \in DisbursementStatus
    BY DEF Outcome, DisbursementStatus
  <2>5. IsRow(is)
    BY <2>1, <2>4, ChangedRow
  <2>6. is.status = Outcome(c) /\ is.reviewed = row[i].reviewed /\ is.conv = row[i].conv
    BY <2>1 DEF IsRow
  <2>7. is.status = "COMPLETED" => CarriedOut(i)
    BY <2>2, <2>6 DEF Outcome, CarriedOut
  <2>8. Load(h, i, "result", "ready", is) /\ "result" \in Operations \ {"insert"}
    BY <1>2 DEF Operations
  <2>9. is.status # "ABSENT"
    BY <2>4, <2>6 DEF DisbursementStatus
  <2> HIDE DEF is
  <2>10. QED
    BY <2>1, <2>3, <2>5, <2>6, <2>7, <2>8, <2>9, LoadKeeps
<1>3. QED
  BY <1>1, <1>2 DEF ResultBegin

LEMMA TimeoutKeeps ==
    ASSUME IInv, NEW h \in Handlers, NEW c \in Conversations, TimeoutBegin(h, c)
    PROVE  IInv'
<1>1. PICK i \in RowsOf(c) :
        /\ row[i].status = "PROCESSING"
        /\ Load(h, i, "timeout", "ready", [row[i] EXCEPT !.status = "FAILED"])
  BY DEF TimeoutBegin
<1> DEFINE is == [row[i] EXCEPT !.status = "FAILED"]
<1>2. i \in Disbursements /\ IsRow(row[i]) /\ row[i].reviewed
  BY <1>1 DEF RowsOf, IInv, ShapeOK, MoneyLeavesAfterReview
<1>3. IsRow(is)
  BY <1>2, ChangedRow DEF DisbursementStatus
<1>4. is.status = "FAILED" /\ is.reviewed = row[i].reviewed /\ is.conv = row[i].conv
  BY <1>2 DEF IsRow
<1>5. "timeout" \in Operations \ {"insert"} /\ Load(h, i, "timeout", "ready", is)
  BY <1>1 DEF Operations
<1> HIDE DEF is
<1>6. QED
  BY <1>1, <1>2, <1>3, <1>4, <1>5, LoadKeeps

(* A row about to be inserted is of a new id, and approved only by the daily run. *)
LEMMA InsertKeeps ==
    ASSUME IInv, NEW h \in Handlers, NEW i \in Disbursements,
           NEW at \in {"loaded", "ready"}, NEW way \in {"user", "monthly", "daily"},
           NEW from, NEW to, Insert(h, i, at, NewRow(way, from, to)),
           at = "loaded" => way = "daily"
    PROVE  IInv'
<1> DEFINE new == NewRow(way, from, to)
           r == [op |-> "insert", at |-> at, dsb |-> i, was |-> NoRow, is |-> new]
<1>1. /\ req'[h] = r /\ \A k \in Handlers \ {h} : req'[k] = req[k]
      /\ req' = [k \in Handlers |-> req'[k]]
  BY DEF Insert, IInv, ShapeOK
<1>2. UNCHANGED <<row, byHand, daraja>> /\ req[h] = Idle
  BY DEF Insert, MayStart, Rows, IInv, ServedOK, SessionOK
<1>3. /\ IsRow(new) /\ new.conv = None
      /\ new.status = IF way = "daily" THEN "APPROVED" ELSE "PENDING"
      /\ new.reviewed = (way = "daily")
  BY DEF NewRow, NoRow, IsRow, DisbursementStatus
<1>4. row[i] = NoRow /\ \A k \in Handlers : req[k].dsb # i
  BY DEF Insert, Fresh, Unused, IInv, RowOK
<1>5. ShapeOK'
  <2>1. IsRequest(r)
    BY <1>3, NoRowShape DEF IsRequest, Operations
  <2>2. QED
    BY <1>1, <1>2, <2>1 DEF IInv, ShapeOK
<1>6. ServedOK(h)'
  <2>1. /\ req'[h].op = "insert" /\ req'[h].at = at /\ req'[h].dsb = i
        /\ req'[h].was = NoRow /\ req'[h].is = new
    BY <1>1
  <2>2. SessionOK(h)'
    <3> HIDE DEF new
    <3>1. NoRow.status = "ABSENT" /\ NoRow.reviewed = FALSE
      BY DEF NoRow
    <3>2. QED
      BY <1>3, <2>1, <3>1 DEF SessionOK, Released
  <2>3. InsertOK(h)' /\ UpdateOK(h)'
    BY <1>1, <1>2, <1>3, <1>4 DEF InsertOK, UpdateOK
  <2>4. QED
    BY <2>2, <2>3 DEF ServedOK
<1>7. \A g \in Handlers \ {h} : ServedOK(g)'
  BY <1>1, <1>2, <1>4, OthersServed
<1>8. \A g \in Handlers : req[g].op = "insert" => req'[g] = req[g]
  BY <1>1, <1>2 DEF Idle
<1>9. QED
  BY <1>2, <1>5, <1>6, <1>7, <1>8, TablesKept DEF IInv

LEMMA InsertsKeep ==
    ASSUME IInv, NEW h \in Handlers, NEW i \in Disbursements,
           CreateBegin(h, i) \/ MonthlyBegin(h, i) \/ DailyBegin(h, i)
    PROVE  IInv'
<1>1. CASE CreateBegin(h, i)
  BY <1>1, InsertKeeps DEF CreateBegin
<1>2. CASE MonthlyBegin(h, i)
  BY <1>2, InsertKeeps DEF MonthlyBegin
<1>3. CASE DailyBegin(h, i)
  BY <1>3, InsertKeeps DEF DailyBegin
<1>4. QED
  BY <1>1, <1>2, <1>3

-----------------------------------------------------------------------------
(* The call to Daraja *)

LEMMA SendKeeps ==
    ASSUME IInv, NEW h \in Handlers, Send(h)
    PROVE  IInv'
<1> DEFINE i == req[h].dsb
           was == req[h].was
           is == req[h].is
           new == req'[h].is
<1>1. /\ ServedOK(h) /\ IsRequest(req[h]) /\ IsRow(is) /\ IsRow(was)
      /\ req[h].at = "loaded" /\ i \in Disbursements /\ req[h].op \in {"insert", "pay"}
      /\ is.reviewed
  BY DEF Send, IInv, ShapeOK, IsRequest, ServedOK, SessionOK, Idle
<1>2. UNCHANGED <<row, byHand>>
  BY DEF Send, Rows
<1>3. \A k \in Handlers \ {h} : req'[k] = req[k]
  BY DEF Send, IInv, ShapeOK
<1>4. req' = [k \in Handlers |-> req'[k]]
  BY DEF Send, IInv, ShapeOK
<1>5. row[i].status # "ABSENT" => row[i].reviewed
  BY <1>1 DEF ServedOK, InsertOK, UpdateOK, NoRow
<1>6. ASSUME NEW c \in Conversations, daraja[c].state = "unused", is.net > 0,
             daraja' = [daraja EXCEPT ![c].state = "sent", ![c].of = i],
             req' = [req EXCEPT ![h] =
                        [[req[h] EXCEPT !.at = "ready", !.is.status = "PROCESSING"]
                            EXCEPT !.is.conv = c]]
      PROVE  IInv'
  <2>1. /\ daraja' \in [Conversations -> Payout]
        /\ \A e \in Conversations : e # c => daraja'[e] = daraja[e]
        /\ daraja'[c].of = i /\ daraja'[c].state = "sent"
    BY <1>1, <1>6 DEF IInv, ShapeOK, Payout
  <2>2. /\ new = [is EXCEPT !.status = "PROCESSING", !.conv = c]
        /\ req'[h].at = "ready" /\ req'[h].op = req[h].op
        /\ req'[h].dsb = i /\ req'[h].was = was
        /\ IsRequest(req'[h])
    <3>1. IsRow([is EXCEPT !.status = "PROCESSING", !.conv = c])
      BY <1>1, ChangedRow DEF DisbursementStatus
    <3>2. req'[h] = [[req[h] EXCEPT !.at = "ready", !.is.status = "PROCESSING"]
                        EXCEPT !.is.conv = c]
      BY <1>6 DEF IInv, ShapeOK
    <3>3. /\ req'[h].is = [is EXCEPT !.status = "PROCESSING", !.conv = c]
          /\ req'[h].at = "ready" /\ req'[h].op = req[h].op
          /\ req'[h].dsb = i /\ req'[h].was = was
          /\ req'[h] = [op |-> req'[h].op, at |-> req'[h].at, dsb |-> req'[h].dsb,
                        was |-> req'[h].was, is |-> req'[h].is]
      BY <1>1, <3>2 DEF IsRequest
    <3>4. QED
      BY <1>1, <3>1, <3>3 DEF IsRequest
  <2>3. new.status = "PROCESSING" /\ new.conv = c /\ new.reviewed
    BY <1>1, <2>2 DEF IsRow
  <2>4. daraja[c].of = None /\ None \notin Disbursements
    BY <1>6, IdsAssumption DEF IInv, PayoutOK
  <2>5. ShapeOK'
    BY <1>2, <1>3, <1>4, <2>1, <2>2 DEF IInv, ShapeOK
  <2>6. \A j \in Disbursements : RowOK(j)'
    BY <1>2, <2>1, <2>4 DEF IInv, RowOK, ShapeOK, IsRow
  <2>7. ASSUME NEW e \in Conversations PROVE PayoutOK(e)'
    <3>1. CASE e = c
      <4>1. row[i].status = "ABSENT" => req[h].op = "insert"
        BY <1>1 DEF ServedOK, UpdateOK
      <4> HIDE DEF new
      <4>2. \A j \in Disbursements : daraja'[e].of = j => j = i
        BY <2>1, <3>1
      <4>3. req'[h].is.conv = e /\ req'[h].is.reviewed
        BY <2>3, <3>1 DEF new
      <4>4. QED
        BY <1>2, <2>1, <2>2, <3>1, <4>1, <4>2, <4>3 DEF PayoutOK
    <3>2. CASE e # c
      <4> SUFFICES ASSUME NEW j \in Disbursements,
                          daraja[e].of = j, row[j].status = "ABSENT"
                   PROVE  \E g \in Handlers : /\ req'[g].op = "insert" /\ req'[g].dsb = j
                                              /\ req'[g].is.conv = e
                                              /\ req'[g].is.reviewed
        BY <1>2, <2>1, <3>2 DEF IInv, PayoutOK
      <4>1. PICK g \in Handlers : /\ req[g].op = "insert" /\ req[g].dsb = j
                                  /\ req[g].is.conv = e /\ req[g].is.reviewed
        BY DEF IInv, PayoutOK
      <4>2. g # h
        BY <1>1, <4>1, <2>4, IdsAssumption DEF ServedOK, InsertOK
      <4>3. QED
        BY <1>3, <4>1, <4>2
    <3>3. QED
      BY <3>1, <3>2
  <2>8. SessionOK(h)'
    BY <1>1, <2>1, <2>2, <2>3 DEF ServedOK, SessionOK, Released
  <2>9. InsertOK(h)' /\ UpdateOK(h)'
    BY <1>1, <1>2, <1>3, <2>2 DEF ServedOK, InsertOK, UpdateOK
  <2>10. \A g \in Handlers \ {h} : ServedOK(g)'
    BY <1>1, <1>2, <1>3, <2>1, <2>2, <2>4, OthersServed DEF IInv, ServedOK, InsertOK
  <2>11. MoneyLeavesAfterReview'
    BY <1>2, <1>5, <2>1, <2>4 DEF IInv, MoneyLeavesAfterReview
  <2>12. CompletedMeansMoneyMoved'
    BY <1>2, <2>1, <2>4 DEF IInv, CompletedMeansMoneyMoved
  <2>13. QED
    BY <2>5, <2>6, <2>7, <2>8, <2>9, <2>10, <2>11, <2>12 DEF IInv, ServedOK
<1>7. ASSUME req' = [req EXCEPT ![h] = [req[h] EXCEPT !.at = "ready",
                                                     !.is.status = "FAILED"]],
             UNCHANGED daraja
      PROVE  IInv'
  <2>1. req'[h] = [req[h] EXCEPT !.at = "ready", !.is.status = "FAILED"]
    BY <1>7 DEF IInv, ShapeOK
  <2>2. /\ new = [is EXCEPT !.status = "FAILED"]
        /\ req'[h].at = "ready" /\ req'[h].op = req[h].op
        /\ req'[h].dsb = i /\ req'[h].was = was
        /\ req'[h] = [op |-> req'[h].op, at |-> req'[h].at, dsb |-> req'[h].dsb,
                      was |-> req'[h].was, is |-> req'[h].is]
    BY <1>1, <2>1 DEF IsRequest
  <2>3. IsRow(new)
    <3>1. "FAILED" \in DisbursementStatus
      BY DEF DisbursementStatus
    <3>2. IsRow([is EXCEPT !.status = "FAILED"])
      BY <1>1, <3>1, ChangedRow
    <3>3. QED
      BY <2>2, <3>2
  <2>4. new.status = "FAILED" /\ new.conv = is.conv /\ new.reviewed
    BY <1>1, <2>2 DEF IsRow
  <2>5. ShapeOK'
    <3>1. IsRequest(req'[h])
      BY <1>1, <2>2, <2>3 DEF IsRequest
    <3>2. QED
      BY <1>2, <1>3, <1>4, <1>7, <3>1 DEF IInv, ShapeOK
  <2>6. SessionOK(h)'
    BY <1>1, <1>7, <2>2, <2>4 DEF ServedOK, SessionOK, Released
  <2>7. InsertOK(h)' /\ UpdateOK(h)'
    BY <1>1, <1>2, <1>3, <2>2 DEF ServedOK, InsertOK, UpdateOK
  <2>8. \A g \in Handlers \ {h} : ServedOK(g)'
    BY <1>1, <1>2, <1>3, <1>7, <2>2, OthersServed DEF IInv, ServedOK, InsertOK
  <2>9. req[h].op = "insert" => is.conv = None
    BY <1>1 DEF ServedOK, InsertOK
  <2>10. \A g \in Handlers : req[g].op = "insert" /\ req[g].is.conv # None =>
                req'[g] = req[g]
    BY <1>3, <2>9
  <2>11. QED
    BY <1>2, <1>7, <2>5, <2>6, <2>7, <2>8, <2>10, TablesKept DEF IInv, ServedOK
<1>8. QED
  BY <1>6, <1>7 DEF Send

-----------------------------------------------------------------------------
(* The end of a request *)

(* The row a commit writes exists, stays reviewed, is reviewed when it is
   released, and keeps or stores a conversation of its own. *)
LEMMA CommittedRow ==
    ASSUME IInv, NEW h \in Handlers, req[h].at # "idle"
    PROVE  LET now == row[req[h].dsb]
               f == FlushedRow(req[h].was, req[h].is, now)
           IN  /\ IsRow(f)
               /\ f.status \in {now.status, req[h].is.status} \ {"ABSENT"}
               /\ f.status = now.status \/ f.status = req[h].is.status
               /\ now.reviewed => f.reviewed
               /\ f.status \in Released => f.reviewed
               /\ req[h].op = "insert" => f.reviewed = req[h].is.reviewed
               /\ f.conv # None => daraja[f.conv].of = req[h].dsb
<1> DEFINE i == req[h].dsb
           was == req[h].was
           is == req[h].is
           now == row[i]
           f == FlushedRow(was, is, now)
<1>1. /\ ServedOK(h) /\ IsRow(is) /\ IsRow(was) /\ IsRow(now) /\ i \in Disbursements
      /\ RowOK(i) /\ (now.status \in Released => now.reviewed)
  BY DEF IInv, ShapeOK, IsRequest, ServedOK, SessionOK, MoneyLeavesAfterReview, Released
<1>2. /\ IsRow(f)
      /\ f.status = IF is.status = was.status THEN now.status ELSE is.status
      /\ f.reviewed = IF is.reviewed = was.reviewed THEN now.reviewed ELSE is.reviewed
      /\ f.conv = IF is.conv = was.conv THEN now.conv ELSE is.conv
  BY <1>1, FlushedRowShape
<1>3. CASE req[h].op = "insert"
  <2>1. was = NoRow /\ now = NoRow
    BY <1>1, <1>3 DEF ServedOK, InsertOK
  <2>2. f.status = is.status /\ f.reviewed = is.reviewed /\ f.conv = is.conv
    BY <1>2, <2>1
  <2>3. QED
    BY <1>1, <1>2, <1>3, <2>1, <2>2 DEF ServedOK, SessionOK, NoRow
<1>4. CASE req[h].op # "insert"
  <2>1. /\ now.status # "ABSENT" /\ is.status # "ABSENT"
        /\ was.reviewed => now.reviewed /\ is.reviewed
        /\ is.status \in Released => is.reviewed
        /\ is.conv # None => daraja[is.conv].of = i
        /\ now.conv # None => daraja[now.conv].of = i
    BY <1>1, <1>4 DEF ServedOK, SessionOK, UpdateOK, RowOK
  <2>2. was.reviewed \in BOOLEAN /\ is.reviewed \in BOOLEAN /\ now.reviewed \in BOOLEAN
    BY <1>1 DEF IsRow
  <2>3. now.reviewed => f.reviewed
    BY <1>2, <2>1, <2>2
  <2>4. f.status \in Released => f.reviewed
    BY <1>1, <1>2, <2>1, <2>2
  <2>5. f.conv # None => daraja[f.conv].of = i
    BY <1>2, <2>1
  <2> HIDE DEF f, now, is, was, i
  <2>6. f.status \in {now.status, is.status} \ {"ABSENT"}
    BY <1>2, <2>1
  <2>7. QED
    BY <1>2, <1>4, <2>3, <2>4, <2>5, <2>6 DEF f, now, is, was, i
<1>5. QED
  BY <1>3, <1>4

LEMMA CommitKeeps ==
    ASSUME IInv, NEW h \in Handlers, Commit(h)
    PROVE  IInv'
<1> DEFINE i == req[h].dsb
           is == req[h].is
           f == FlushedRow(req[h].was, is, row[i])
<1>1. /\ ServedOK(h) /\ IsRow(is) /\ i \in Disbursements /\ req[h].at = "ready"
      /\ IsRow(row[i])
  BY DEF Commit, IInv, ShapeOK, IsRequest, ServedOK, SessionOK, Idle
<1>2. /\ IsRow(f)
      /\ f.status # "ABSENT"
      /\ f.status = row[i].status \/ f.status = is.status
      /\ row[i].reviewed => f.reviewed
      /\ f.status \in Released => f.reviewed
      /\ req[h].op = "insert" => f.reviewed = is.reviewed
      /\ f.conv # None => daraja[f.conv].of = i
  BY <1>1, CommittedRow
<1>3. /\ row' = [j \in Disbursements |-> row'[j]] /\ row'[i] = f
      /\ \A j \in Disbursements : j # i => row'[j] = row[j]
  <2> HIDE DEF f
  <2>1. row' = [row EXCEPT ![i] = f]
    BY DEF Commit, f
  <2>2. QED
    BY <1>1, <2>1 DEF IInv, ShapeOK
<1>4. /\ daraja' \in [Conversations -> Payout]
      /\ \A c \in Conversations : /\ daraja'[c].of = daraja[c].of
                                  /\ daraja'[c].state = daraja[c].state
  <2>1. daraja \in [Conversations -> Payout]
    BY DEF IInv, ShapeOK
  <2>2. \/ daraja' = daraja
        \/ \E c \in Conversations : daraja' = [daraja EXCEPT ![c].known = TRUE]
    BY <1>1 DEF Commit, IsRow
  <2>3. ASSUME NEW c \in Conversations, daraja' = [daraja EXCEPT ![c].known = TRUE]
        PROVE  /\ daraja' \in [Conversations -> Payout]
               /\ \A e \in Conversations : /\ daraja'[e].of = daraja[e].of
                                           /\ daraja'[e].state = daraja[e].state
    BY <2>1, <2>3 DEF Payout
  <2>4. QED
    BY <2>1, <2>2, <2>3
<1>5. /\ req' = [k \in Handlers |-> req'[k]] /\ req'[h] = Idle
      /\ \A k \in Handlers \ {h} : req'[k] = req[k]
  BY DEF Commit, IInv, ShapeOK
<1>6. byHand \subseteq byHand' /\ byHand' \subseteq Disbursements
      /\ (req[h].op = "mark_paid" => i \in byHand')
  BY <1>1 DEF Commit, IInv, ShapeOK
<1> HIDE DEF f
<1>7. ShapeOK'
  BY <1>1, <1>2, <1>3, <1>4, <1>5, <1>6, IdleShape DEF IInv, ShapeOK
<1>8. \A j \in Disbursements : RowOK(j)'
  BY <1>2, <1>3, <1>4 DEF IInv, RowOK, ShapeOK, IsRow
<1>9. ASSUME NEW c \in Conversations PROVE PayoutOK(c)'
  <2> SUFFICES ASSUME NEW j \in Disbursements,
                      daraja[c].of = j, row'[j].status = "ABSENT"
               PROVE  \E g \in Handlers : /\ req'[g].op = "insert" /\ req'[g].dsb = j
                                          /\ req'[g].is.conv = c /\ req'[g].is.reviewed
    BY <1>4 DEF IInv, PayoutOK
  <2>1. j # i /\ row[j].status = "ABSENT"
    BY <1>2, <1>3
  <2>2. PICK g \in Handlers : /\ req[g].op = "insert" /\ req[g].dsb = j
                              /\ req[g].is.conv = c /\ req[g].is.reviewed
    BY <2>1 DEF IInv, PayoutOK
  <2>3. QED
    BY <1>5, <2>1, <2>2
<1>10. \A g \in Handlers \ {h} : ServedOK(g)'
  <2> SUFFICES ASSUME NEW g \in Handlers \ {h} PROVE ServedOK(g)'
    OBVIOUS
  <2>1. req[g].op = "insert" => req[g].dsb \in Disbursements /\ req[g].dsb # i
    BY DEF IInv, ServedOK, InsertOK, SessionOK, Idle
  <2>2. req[g].op = "insert" => req'[h].dsb # req[g].dsb
    BY <1>5, <2>1, IdsAssumption DEF Idle
  <2>3. req[h].op = "insert" => i # req[g].dsb
    BY <1>1 DEF ServedOK, InsertOK
  <2>4. req[h].op # "insert" => row[i].status # "ABSENT"
    BY <1>1 DEF ServedOK, SessionOK, UpdateOK
  <2>5. QED
    BY <1>2, <1>3, <1>4, <1>5, <2>2, <2>3, <2>4, OthersServed
<1>11. MoneyLeavesAfterReview'
  <2> SUFFICES ASSUME NEW j \in Disbursements, row'[j].status # "ABSENT",
                      \/ row'[j].status \in Released
                      \/ \E c \in Conversations : daraja'[c].of = j
               PROVE  row'[j].reviewed
    BY DEF MoneyLeavesAfterReview, Released
  <2>1. CASE j # i
    BY <1>3, <1>4, <2>1 DEF IInv, MoneyLeavesAfterReview, Released
  <2>2. CASE j = i /\ row'[j].status \in Released
    BY <1>2, <1>3, <2>2
  <2>3. ASSUME j = i, NEW c \in Conversations, daraja'[c].of = i PROVE row'[j].reviewed
    <3>1. CASE row[i].status # "ABSENT"
      BY <1>1, <1>2, <1>3, <1>4, <2>3, <3>1 DEF IInv, MoneyLeavesAfterReview
    <3>2. CASE row[i].status = "ABSENT"
      <4>1. req[h].op = "insert"
        BY <1>1, <3>2 DEF ServedOK, SessionOK, UpdateOK
      <4>2. PICK g \in Handlers : req[g].dsb = i /\ req[g].is.reviewed
        BY <1>1, <1>4, <2>3, <3>2 DEF IInv, PayoutOK
      <4>3. g = h
        BY <1>1, <4>1, <4>2 DEF ServedOK, InsertOK
      <4>4. QED
        BY <1>2, <1>3, <2>3, <4>1, <4>2, <4>3
    <3>3. QED
      BY <3>1, <3>2
  <2>4. QED
    BY <2>1, <2>2, <2>3
<1>12. CompletedMeansMoneyMoved'
  <2>1. f.status = "COMPLETED" => i \in byHand' \/ CarriedOut(i)
    BY <1>1, <1>2, <1>6
    DEF IInv, CompletedMeansMoneyMoved, ServedOK, SessionOK, CarriedOut
  <2>2. QED
    BY <1>3, <1>4, <1>6, <2>1 DEF IInv, CompletedMeansMoneyMoved, CarriedOut
<1>13. QED
  BY <1>5, <1>7, <1>8, <1>9, <1>10, <1>11, <1>12, IdleServed DEF IInv

LEMMA AbortKeeps ==
    ASSUME IInv, NEW h \in Handlers, Abort(h)
    PROVE  IInv'
<1> DEFINE i == req[h].dsb
           c == req[h].is.conv
<1>1. /\ ServedOK(h) /\ IsRow(req[h].is) /\ i \in Disbursements /\ req[h].at # "idle"
  BY DEF Abort, IInv, ShapeOK, IsRequest, ServedOK, SessionOK
<1>2. UNCHANGED <<row, byHand>>
  BY DEF Abort, Rows
<1>3. /\ req' = [k \in Handlers |-> req'[k]] /\ req'[h] = Idle
      /\ \A k \in Handlers \ {h} : req'[k] = req[k]
  BY DEF Abort, IInv, ShapeOK
<1>4. /\ daraja' \in [Conversations -> Payout]
      /\ \A e \in Conversations :
            /\ daraja'[e].state = daraja[e].state
            /\ daraja'[e].of = IF req[h].op = "insert" /\ e = c THEN None
                               ELSE daraja[e].of
  <2>1. daraja \in [Conversations -> Payout]
    BY DEF IInv, ShapeOK
  <2>2. CASE req[h].op = "insert" /\ c # None
    <3>1. daraja' = [daraja EXCEPT ![c].of = None] /\ c \in Conversations
      BY <1>1, <2>2 DEF Abort, IsRow
    <3>2. QED
      BY <2>1, <2>2, <3>1 DEF Payout
  <2>3. CASE ~(req[h].op = "insert" /\ c # None)
    <3>1. daraja' = daraja
      BY <2>3 DEF Abort
    <3>2. QED
      BY <2>1, <2>3, <3>1, IdsAssumption
  <2>4. QED
    BY <2>2, <2>3
<1>5. req[h].op = "insert" =>
        /\ row[i] = NoRow
        /\ \A g \in Handlers \ {h} : req[g].dsb # i
        /\ c # None => daraja[c].of = i
  BY <1>1 DEF ServedOK, InsertOK, SessionOK
<1>6. ShapeOK'
  BY <1>2, <1>3, <1>4, IdleShape DEF IInv, ShapeOK
<1>7. \A j \in Disbursements : RowOK(j)'
  <2> SUFFICES ASSUME NEW j \in Disbursements, row[j].conv # None
               PROVE  daraja'[row[j].conv].of = j
    BY <1>2 DEF IInv, RowOK
  <2>1. daraja[row[j].conv].of = j /\ row[j].conv \in Conversations
    BY DEF IInv, RowOK, ShapeOK, IsRow
  <2>2. req[h].op = "insert" => row[j].conv # c
    <3>1. NoRow.conv = None
      BY DEF NoRow
    <3>2. QED
      BY <1>5, <2>1, <3>1
  <2>3. QED
    BY <1>4, <2>1, <2>2
<1>8. ASSUME NEW e \in Conversations PROVE PayoutOK(e)'
  <2> SUFFICES ASSUME NEW j \in Disbursements,
                      daraja'[e].of = j, row[j].status = "ABSENT"
               PROVE  \E g \in Handlers : /\ req'[g].op = "insert" /\ req'[g].dsb = j
                                          /\ req'[g].is.conv = e /\ req'[g].is.reviewed
    BY <1>2, <1>4 DEF IInv, PayoutOK
  <2>1. daraja[e].of = j /\ (req[h].op = "insert" => e # c)
    BY <1>4, IdsAssumption
  <2>2. PICK g \in Handlers : /\ req[g].op = "insert" /\ req[g].dsb = j
                              /\ req[g].is.conv = e /\ req[g].is.reviewed
    BY <2>1 DEF IInv, PayoutOK
  <2>3. g # h
    BY <2>1, <2>2
  <2>4. QED
    BY <1>3, <2>2, <2>3
<1>9. \A g \in Handlers \ {h} : ServedOK(g)'
  <2> SUFFICES ASSUME NEW g \in Handlers \ {h} PROVE ServedOK(g)'
    OBVIOUS
  <2>1. req[g].op = "insert" => req'[h].dsb # req[g].dsb
    <3>1. req[g].op = "insert" => req[g].dsb \in Disbursements
      BY DEF IInv, ServedOK, SessionOK, Idle
    <3>2. QED
      BY <1>3, <3>1, IdsAssumption DEF Idle
  <2>2. ASSUME NEW e \in Conversations, daraja[e].of = req[g].dsb, daraja[e].of # None
        PROVE  /\ daraja'[e].of = daraja[e].of
               /\ daraja[e].state = "paid" => daraja'[e].state = "paid"
    BY <1>4, <1>5, <2>2, IdsAssumption
  <2>3. QED
    BY <1>2, <1>3, <2>1, <2>2, OthersServed
<1>10. MoneyLeavesAfterReview'
  <2> SUFFICES ASSUME NEW j \in Disbursements, row[j].status # "ABSENT",
                      \/ row[j].status \in Released
                      \/ \E e \in Conversations : daraja'[e].of = j
               PROVE  row[j].reviewed
    BY <1>2, Zenon DEF MoneyLeavesAfterReview, Released
  <2>1. \A e \in Conversations : daraja'[e].of = j => daraja[e].of = j
    BY <1>4, IdsAssumption
  <2>2. MoneyLeavesAfterReview
    BY DEF IInv
  <2>3. QED
    BY <2>1, <2>2 DEF MoneyLeavesAfterReview, Released
<1>11. CompletedMeansMoneyMoved'
  <2> SUFFICES ASSUME NEW j \in Disbursements,
                      row[j].status = "COMPLETED", j \notin byHand
               PROVE  \E e \in Conversations :
                        daraja'[e].of = j /\ daraja'[e].state = "paid"
    BY <1>2 DEF CompletedMeansMoneyMoved
  <2>1. PICK e \in Conversations : daraja[e].of = j /\ daraja[e].state = "paid"
    BY DEF IInv, CompletedMeansMoneyMoved
  <2>2. req[h].op = "insert" => j # i
    BY <1>5 DEF NoRow
  <2>3. req[h].op = "insert" => e # c
    BY <1>5, <2>1, <2>2, IdsAssumption
  <2>4. QED
    BY <1>4, <2>1, <2>3
<1>12. QED
  BY <1>3, <1>6, <1>7, <1>8, <1>9, <1>10, <1>11, IdleServed DEF IInv

-----------------------------------------------------------------------------
(* The world outside *)

LEMMA SettlesKeeps ==
    ASSUME IInv, NEW c \in Conversations, DarajaSettles(c)
    PROVE  IInv'
<1>1. UNCHANGED <<row, byHand, req>>
  BY DEF DarajaSettles, Rows
<1>2. /\ daraja' \in [Conversations -> Payout]
      /\ \A e \in Conversations :
            /\ daraja'[e].of = daraja[e].of
            /\ daraja[e].state = "paid" => daraja'[e].state = "paid"
            /\ daraja'[e].state = "unused" => daraja[e].state = "unused"
  BY DEF DarajaSettles, IInv, ShapeOK, Payout
<1>3. ShapeOK'
  BY <1>1, <1>2 DEF IInv, ShapeOK
<1>4. \A i \in Disbursements : RowOK(i)'
  BY <1>1, <1>2 DEF IInv, RowOK, ShapeOK, IsRow
<1>5. \A e \in Conversations : PayoutOK(e)'
  BY <1>1, <1>2 DEF IInv, PayoutOK
<1>6. ASSUME NEW g \in Handlers PROVE ServedOK(g)'
  <2>1. ServedOK(g) /\ IsRow(req[g].is)
    BY DEF IInv, ShapeOK, IsRequest
  <2>2. CarriedOut(req[g].dsb) => CarriedOut(req[g].dsb)'
    BY <1>1, <1>2 DEF CarriedOut
  <2>3. SessionOK(g)'
    BY <1>1, <1>2, <2>1, <2>2 DEF ServedOK, SessionOK, IsRow, CarriedOut
  <2>4. QED
    BY <1>1, <2>1, <2>3 DEF ServedOK, InsertOK, UpdateOK
<1>7. MoneyLeavesAfterReview' /\ CompletedMeansMoneyMoved'
  BY <1>1, <1>2 DEF IInv, MoneyLeavesAfterReview, CompletedMeansMoneyMoved
<1>8. QED
  BY <1>3, <1>4, <1>5, <1>6, <1>7 DEF IInv

(* Days, rent and the claims of callbacks are not what IInv is about. *)
LEMMA QuietKeeps ==
    ASSUME IInv, UNCHANGED <<row, byHand, daraja, req>>
    PROVE  IInv'
<1>1. ShapeOK' /\ \A g \in Handlers : ServedOK(g)'
  BY DEF IInv, ShapeOK, ServedOK, SessionOK, InsertOK, UpdateOK, CarriedOut
<1>2. QED
  BY <1>1, TablesKept DEF IInv

LEMMA NextInvariant == IInv /\ [Next]_vars => IInv'
<1> SUFFICES ASSUME IInv, [Next]_vars PROVE IInv'
  OBVIOUS
<1>1. CASE UNCHANGED vars
  BY <1>1, QuietKeeps DEF vars
<1>2. ASSUME NEW h \in Handlers, NEW i \in Disbursements,
             \/ CreateBegin(h, i) \/ MonthlyBegin(h, i) \/ DailyBegin(h, i)
             \/ ApproveBegin(h, i) \/ RejectBegin(h, i)
             \/ MarkPaidBegin(h, i) \/ PayBegin(h, i)
      PROVE  IInv'
  BY <1>2, InsertsKeep, LoadsKeep
<1>3. ASSUME NEW h \in Handlers, NEW c \in Conversations,
             ResultBegin(h, c) \/ TimeoutBegin(h, c)
      PROVE  IInv'
  BY <1>3, ResultKeeps, TimeoutKeeps
<1>4. ASSUME NEW h \in Handlers, Send(h) \/ Commit(h) \/ Abort(h) PROVE IInv'
  BY <1>4, SendKeeps, CommitKeeps, AbortKeeps
<1>5. ASSUME NEW d \in Days, NEW amount \in Takings, Earn(d, amount) PROVE IInv'
  BY <1>5, QuietKeeps DEF Earn, Rows
<1>6. CASE NextDay
  BY <1>6, QuietKeeps DEF NextDay, Rows
<1>7. ASSUME NEW c \in Conversations, DarajaSettles(c) \/ ClaimExpires(c) PROVE IInv'
  BY <1>7, SettlesKeeps, QuietKeeps DEF ClaimExpires, Rows
<1>8. QED
  BY <1>1, <1>2, <1>3, <1>4, <1>5, <1>6, <1>7 DEF Next

-----------------------------------------------------------------------------
(* What holds however requests overlap *)

(* The inductive invariant holds in every behaviour of the specification. *)
THEOREM Invariance == Spec => []IInv
BY InitInvariant, NextInvariant, PTL DEF Spec

(* No interleaving releases money that nobody reviewed (approve_disbursement,
   auto_settle_owner). *)
THEOREM ReviewBeforeMoney == Spec => []MoneyLeavesAfterReview
<1>1. IInv => MoneyLeavesAfterReview
  BY DEF IInv
<1>2. QED
  BY <1>1, Invariance, PTL

(* No interleaving completes a disbursement that was paid neither by hand nor by
   Safaricom (mark_disbursement_paid, handle_b2c_result). *)
THEOREM CompletedWithMoney == Spec => []CompletedMeansMoneyMoved
<1>1. IInv => CompletedMeansMoneyMoved
  BY DEF IInv
<1>2. QED
  BY <1>1, Invariance, PTL

(* A completed disbursement is reopened only by a request that had loaded it
   before it was completed. *)
THEOREM ReopenedByStaleWriter == Spec => OnlyStaleWritersReopen
<1> DEFINE Stale(i) ==
        row[i].status = "COMPLETED" /\ row'[i].status # "COMPLETED" =>
            \E h \in Handlers : req[h].dsb = i /\ req[h].was.status # "COMPLETED"
<1>1. IInv /\ [Next]_vars => [\A i \in Disbursements : Stale(i)]_vars
  <2> SUFFICES ASSUME IInv, Next, NEW i \in Disbursements PROVE Stale(i)
    OBVIOUS
  <2>1. CASE row' = row
    BY <2>1
  <2>2. ASSUME NEW h \in Handlers, Commit(h) PROVE Stale(i)
    <3>1. req[h].was.status # "COMPLETED"
      BY <2>2 DEF IInv, ServedOK, SessionOK, Commit
    <3>2. req[h].dsb # i => row'[i] = row[i]
      BY <2>2 DEF Commit, IInv, ShapeOK
    <3>3. QED
      BY <3>1, <3>2
  <2>3. row' = row \/ \E h \in Handlers : Commit(h)
    <3>1. ASSUME NEW h \in Handlers, NEW j \in Disbursements,
                 \/ CreateBegin(h, j) \/ MonthlyBegin(h, j) \/ DailyBegin(h, j)
          PROVE  row' = row
      BY <3>1 DEF CreateBegin, MonthlyBegin, DailyBegin, Insert, Rows
    <3>2. ASSUME NEW h \in Handlers, NEW j \in Disbursements,
                 \/ ApproveBegin(h, j) \/ RejectBegin(h, j)
                 \/ MarkPaidBegin(h, j) \/ PayBegin(h, j)
          PROVE  row' = row
      BY <3>2 DEF ApproveBegin, RejectBegin, MarkPaidBegin, PayBegin, Load, Rows
    <3>3. ASSUME NEW h \in Handlers, NEW c \in Conversations,
                 ResultBegin(h, c) \/ TimeoutBegin(h, c)
          PROVE  row' = row
      BY <3>3 DEF ResultBegin, TimeoutBegin, Load, Rows
    <3>4. ASSUME NEW h \in Handlers, Send(h) \/ Abort(h) PROVE row' = row
      BY <3>4 DEF Send, Abort, Rows
    <3>5. ASSUME NEW d \in Days, NEW amount \in Takings, Earn(d, amount)
          PROVE  row' = row
      BY <3>5 DEF Earn, Rows
    <3>6. NextDay => row' = row
      BY DEF NextDay, Rows
    <3>7. ASSUME NEW c \in Conversations, DarajaSettles(c) \/ ClaimExpires(c)
          PROVE  row' = row
      BY <3>7 DEF DarajaSettles, ClaimExpires, Rows
    <3>8. QED
      BY <3>1, <3>2, <3>3, <3>4, <3>5, <3>6, <3>7 DEF Next
  <2>4. QED
    BY <2>1, <2>2, <2>3
<1>2. QED
  BY <1>1, Invariance, PTL DEF Spec, OnlyStaleWritersReopen

-----------------------------------------------------------------------------
(* What holds of requests one at a time *)

LEMMA InitPaidOnce == Init => PaidOnceInv
<1> SUFFICES ASSUME Init PROVE PaidOnceInv
  OBVIOUS
<1>1. Serial /\ \A h \in Handlers : OperationOK(h)
  BY DEF Init, Serial, OperationOK, Idle
<1>2. \A i \in Disbursements : HistoryOK(i)
  BY DEF Init, HistoryOK, Known, Spent, NoRow
<1>3. QED
  BY <1>1, <1>2 DEF Init, PaidOnceInv

(* While one handler is busy the others are idle. *)
LEMMA BusyAlone ==
    ASSUME IInv, PaidOnceInv, NEW h \in Handlers, req[h].at # "idle",
           NEW g \in Handlers \ {h}
    PROVE  req[g] = Idle
BY DEF IInv, PaidOnceInv, Serial, ServedOK, SessionOK

LEMMA IdleOperation ==
    ASSUME NEW h \in Handlers, req'[h] = Idle
    PROVE  OperationOK(h)'
BY DEF OperationOK, Idle

(* A handler that begins finds the others idle. *)
LEMMA SerialBegin ==
    ASSUME IInv, PaidOnceInv, ~Overlap, NEW h \in Handlers, MayStart(h),
           UNCHANGED <<row, byHand, daraja>>,
           \A k \in Handlers \ {h} : req'[k] = req[k],
           req'[h].dsb \in Disbursements, req'[h].was = row[req'[h].dsb],
           OperationOK(h)'
    PROVE  PaidOnceInv'
<1>1. \A g \in Handlers : req[g] = Idle
  BY DEF MayStart, IInv, ServedOK, SessionOK
<1>2. \A g \in Handlers \ {h} : req'[g] = Idle /\ req'[g].at = "idle"
  BY <1>1 DEF Idle
<1>3. Serial'
  BY <1>2 DEF Serial
<1>4. \A g \in Handlers : OperationOK(g)'
  BY <1>2, IdleOperation
<1>5. \A i \in Disbursements : HistoryOK(i)'
  BY DEF PaidOnceInv, HistoryOK, Known, Spent
<1>6. QED
  BY <1>3, <1>4, <1>5 DEF PaidOnceInv

LEMMA LoadsSerial ==
    ASSUME IInv, PaidOnceInv, ~Overlap, NEW h \in Handlers, NEW i \in Disbursements,
           \/ ApproveBegin(h, i) \/ RejectBegin(h, i)
           \/ MarkPaidBegin(h, i) \/ PayBegin(h, i)
    PROVE  PaidOnceInv'
<1>1. PICK op \in {"approve", "reject", "mark_paid", "pay"},
           at \in {"loaded", "ready"},
           is \in {[row[i] EXCEPT !.status = "APPROVED", !.reviewed = TRUE],
                  [row[i] EXCEPT !.status = "REJECTED", !.reviewed = TRUE],
                  [row[i] EXCEPT !.status = "COMPLETED"], row[i]} :
        /\ Load(h, i, op, at, is)
        /\ op \in {"approve", "reject"} => row[i].status = "PENDING"
        /\ op \in {"mark_paid", "pay"} => row[i].status \in Payable
        /\ op = "mark_paid" => is = [row[i] EXCEPT !.status = "COMPLETED"]
        /\ op = "pay" => is = row[i]
  BY DEF ApproveBegin, RejectBegin, MarkPaidBegin, PayBegin
<1>2. /\ req'[h] = [op |-> op, at |-> at, dsb |-> i, was |-> row[i], is |-> is]
      /\ \A k \in Handlers \ {h} : req'[k] = req[k]
      /\ MayStart(h) /\ UNCHANGED <<row, byHand, daraja>>
  BY <1>1 DEF Load, Rows, IInv, ShapeOK
<1>3. is.conv = row[i].conv /\ (op = "mark_paid" => is.status = "COMPLETED")
  BY <1>1 DEF IInv, ShapeOK, IsRow
<1>4. OperationOK(h)'
  BY <1>1, <1>2, <1>3 DEF OperationOK, Payable
<1>5. QED
  BY <1>2, <1>4, SerialBegin

LEMMA CallbacksSerial ==
    ASSUME IInv, PaidOnceInv, ~Overlap, NEW h \in Handlers, NEW c \in Conversations,
           ResultBegin(h, c) \/ TimeoutBegin(h, c)
    PROVE  PaidOnceInv'
<1>1. CASE UNCHANGED <<Books, Rows, daraja, req>>
  BY <1>1 DEF Rows, PaidOnceInv, Serial, HistoryOK, OperationOK, Known, Spent
<1>2. ASSUME NEW i \in RowsOf(c), NEW op \in {"result", "timeout"},
             NEW status \in {"COMPLETED", "FAILED"},
             Load(h, i, op, "ready", [row[i] EXCEPT !.status = status]),
             \/ op = "result" /\ status = "COMPLETED"
             \/ daraja[c].state \in {"failed", "dropped"}
      PROVE  PaidOnceInv'
  <2> DEFINE is == [row[i] EXCEPT !.status = status]
  <2>1. /\ req'[h] = [op |-> op, at |-> "ready", dsb |-> i, was |-> row[i], is |-> is]
        /\ \A k \in Handlers \ {h} : req'[k] = req[k]
        /\ MayStart(h) /\ UNCHANGED <<row, byHand, daraja>>
    BY <1>2 DEF Load, Rows, IInv, ShapeOK
  <2>2. i \in Disbursements /\ row[i].conv = c /\ c # None
    BY <1>2, IdsAssumption DEF RowsOf
  <2>3. is.conv = c /\ is.status = status
    BY <2>2 DEF IInv, ShapeOK, IsRow
  <2> HIDE DEF is
  <2>4. OperationOK(h)'
    BY <1>2, <2>1, <2>2, <2>3 DEF OperationOK
  <2>5. QED
    BY <2>1, <2>2, <2>4, SerialBegin
<1>3. CASE ResultBegin(h, c)
  <2>1. daraja[c].state = "paid" \/ daraja[c].state = "failed"
    BY <1>3 DEF ResultBegin
  <2>2. CASE daraja[c].state = "paid"
    <3>1. Outcome(c) = "COMPLETED"
      BY <2>2 DEF Outcome
    <3>2. QED
      BY <1>1, <1>2, <1>3, <3>1 DEF ResultBegin
  <2>3. CASE daraja[c].state = "failed"
    <3>1. Outcome(c) = "FAILED"
      BY <2>3 DEF Outcome
    <3>2. QED
      BY <1>1, <1>2, <1>3, <2>3, <3>1 DEF ResultBegin
  <2>4. QED
    BY <2>1, <2>2, <2>3
<1>4. CASE TimeoutBegin(h, c)
  BY <1>2, <1>4 DEF TimeoutBegin
<1>5. QED
  BY <1>3, <1>4

LEMMA InsertsSerial ==
    ASSUME IInv, PaidOnceInv, ~Overlap, NEW h \in Handlers, NEW i \in Disbursements,
           CreateBegin(h, i) \/ MonthlyBegin(h, i) \/ DailyBegin(h, i)
    PROVE  PaidOnceInv'
<1>1. PICK at \in {"loaded", "ready"}, way \in {"user", "monthly", "daily"} :
        \E from, to : Insert(h, i, at, NewRow(way, from, to))
  BY DEF CreateBegin, MonthlyBegin, DailyBegin
<1>2. PICK from, to : Insert(h, i, at, NewRow(way, from, to))
  BY <1>1
<1> DEFINE new == NewRow(way, from, to)
<1>3. new.conv = None /\ new.status # "COMPLETED"
  BY DEF NewRow, NoRow
<1>4. /\ req'[h] = [op |-> "insert", at |-> at, dsb |-> i, was |-> NoRow, is |-> new]
      /\ \A k \in Handlers \ {h} : req'[k] = req[k]
      /\ MayStart(h) /\ UNCHANGED <<row, byHand, daraja>>
  BY <1>2 DEF Insert, Rows, IInv, ShapeOK
<1>5. row[i] = NoRow
  BY <1>2 DEF Insert, Fresh, Unused, IInv, RowOK
<1> HIDE DEF new
<1>6. OperationOK(h)'
  BY <1>3, <1>4 DEF OperationOK, NoRow
<1>7. QED
  BY <1>4, <1>5, <1>6, SerialBegin

(* A payout that has just been sent is known to nobody. *)
LEMMA SendSerial ==
    ASSUME IInv, PaidOnceInv, NEW h \in Handlers, Send(h)
    PROVE  PaidOnceInv'
<1> DEFINE i == req[h].dsb
           is == req[h].is
<1>1. /\ IsRequest(req[h]) /\ IsRow(is) /\ req[h].at = "loaded" /\ i \in Disbursements
      /\ req[h].op \in {"insert", "pay"} /\ OperationOK(h)
      /\ daraja \in [Conversations -> Payout]
  BY DEF Send, IInv, ShapeOK, IsRequest, ServedOK, SessionOK, Idle, PaidOnceInv
<1>2. UNCHANGED <<row, byHand>> /\ \A k \in Handlers \ {h} : req'[k] = req[k]
  BY DEF Send, Rows, IInv, ShapeOK
<1>3. \A g \in Handlers \ {h} : req'[g] = Idle
  BY <1>1, <1>2, BusyAlone
<1>4. \A g \in Handlers \ {h} : OperationOK(g)'
  BY <1>3, IdleOperation
<1>5. ASSUME NEW r, req'[h] = r, r.dsb = i, r.was = req[h].was PROVE Serial'
  BY <1>1, <1>2, <1>3, <1>5 DEF PaidOnceInv, Serial, Idle
<1>6. ASSUME NEW c \in Conversations, daraja[c].state = "unused",
             daraja' = [daraja EXCEPT ![c].state = "sent", ![c].of = i],
             req' = [req EXCEPT ![h] =
                        [[req[h] EXCEPT !.at = "ready", !.is.status = "PROCESSING"]
                            EXCEPT !.is.conv = c]]
      PROVE  PaidOnceInv'
  <2>1. /\ ~daraja[c].known
        /\ \A e \in Conversations : daraja'[e].known = daraja[e].known
        /\ \A e \in Conversations : e # c => daraja'[e] = daraja[e]
        /\ daraja'[c].state = "sent"
    BY <1>1, <1>6 DEF PaidOnceInv, Payout
  <2>2. /\ req'[h].op = req[h].op /\ req'[h].was = req[h].was /\ req'[h].dsb = i
        /\ req'[h].is = [is EXCEPT !.status = "PROCESSING", !.conv = c]
        /\ req'[h].at = "ready"
    <3>1. req'[h] = [[req[h] EXCEPT !.at = "ready", !.is.status = "PROCESSING"]
                        EXCEPT !.is.conv = c]
      BY <1>6 DEF IInv, ShapeOK
    <3>2. QED
      BY <1>1, <3>1 DEF IsRequest
  <2>3. req'[h].is.status = "PROCESSING" /\ req'[h].is.conv = c
    BY <1>1, <2>2 DEF IsRow
  <2>4. OperationOK(h)'
    BY <1>1, <2>1, <2>2, <2>3, IdsAssumption DEF OperationOK
  <2>5. ASSUME NEW j \in Disbursements PROVE Known(j)' = Known(j) /\ c \notin Known(j)
    BY <2>1, <2>5 DEF Known
  <2>6. \A j \in Disbursements : HistoryOK(j)'
    <3> SUFFICES ASSUME NEW j \in Disbursements PROVE HistoryOK(j)'
      OBVIOUS
    <3>1. HistoryOK(j) /\ row' = row /\ byHand' = byHand
      BY <1>2 DEF PaidOnceInv
    <3>2. row[j].conv \in Conversations \cup {None}
      BY DEF IInv, ShapeOK, IsRow
    <3>3. Known(j)' = Known(j) /\ \A e \in Known(j) : daraja'[e] = daraja[e]
      BY <2>1, <2>5 DEF Known
    <3>4. Spent(j) => Spent(j)'
      BY <3>3 DEF Spent
    <3>5. row[j].conv # None => daraja'[row[j].conv].known
      BY <2>1, <3>1, <3>2 DEF HistoryOK
    <3>6. \A e \in Known(j)' :
            e # row[j].conv => daraja'[e].state \in {"failed", "dropped"}
      BY <3>1, <3>3 DEF HistoryOK
    <3>7. QED
      BY <3>1, <3>4, <3>5, <3>6 DEF HistoryOK
  <2>7. QED
    BY <1>4, <1>5, <2>1, <2>2, <2>4, <2>6 DEF PaidOnceInv
<1>7. ASSUME req' = [req EXCEPT ![h] = [req[h] EXCEPT !.at = "ready",
                                                     !.is.status = "FAILED"]],
             UNCHANGED daraja
      PROVE  PaidOnceInv'
  <2>1. /\ req'[h].op = req[h].op /\ req'[h].was = req[h].was /\ req'[h].dsb = i
        /\ req'[h].is = [is EXCEPT !.status = "FAILED"]
    <3>1. req'[h] = [req[h] EXCEPT !.at = "ready", !.is.status = "FAILED"]
      BY <1>7 DEF IInv, ShapeOK
    <3>2. QED
      BY <1>1, <3>1 DEF IsRequest
  <2>2. req'[h].is.status = "FAILED" /\ req'[h].is.conv = is.conv
    BY <1>1, <2>1 DEF IsRow
  <2>3. is.conv = req[h].was.conv
    BY <1>1 DEF OperationOK
  <2>4. OperationOK(h)'
    BY <1>1, <1>7, <2>1, <2>2, <2>3 DEF OperationOK
  <2>5. \A j \in Disbursements : HistoryOK(j)'
    BY <1>2, <1>7 DEF PaidOnceInv, HistoryOK, Known, Spent
  <2>6. QED
    BY <1>4, <1>5, <1>7, <2>1, <2>4, <2>5 DEF PaidOnceInv
<1>8. QED
  BY <1>6, <1>7 DEF Send

(* A commit writes what is in the session: nobody has written since the load. *)
LEMMA CommitSerial ==
    ASSUME IInv, PaidOnceInv, NEW h \in Handlers, Commit(h)
    PROVE  PaidOnceInv'
<1>0. PICK i \in Disbursements : i = req[h].dsb
  BY DEF Commit, IInv, ServedOK, SessionOK
<1> DEFINE was == req[h].was
           is == req[h].is
           f == FlushedRow(was, is, row[i])
<1>1. /\ IsRow(is) /\ IsRow(was) /\ req[h].at = "ready" /\ i = req[h].dsb
      /\ SessionOK(h) /\ InsertOK(h) /\ OperationOK(h) /\ HistoryOK(i)
      /\ was = row[i] /\ req[h].op \in Operations
      /\ daraja \in [Conversations -> Payout]
  BY <1>0 DEF Commit, IInv, ShapeOK, IsRequest, ServedOK, SessionOK, Idle, PaidOnceInv,
              Serial
<1>2. /\ req'[h] = Idle /\ \A g \in Handlers \ {h} : req'[g] = Idle
  <2>1. \A g \in Handlers \ {h} : req[g] = Idle
    BY <1>1, BusyAlone
  <2>2. QED
    BY <2>1 DEF Commit, IInv, ShapeOK
<1>3. Serial' /\ \A g \in Handlers : OperationOK(g)'
  BY <1>2, IdleOperation DEF Serial, Idle
<1>4. f.status = is.status /\ f.conv = is.conv
  BY <1>1, FlushedRowShape
<1>5. /\ row'[i] = f
      /\ \A j \in Disbursements : j # i => row'[j] = row[j]
  <2> HIDE DEF f
  <2>1. row' = [row EXCEPT ![i] = f]
    BY <1>1 DEF Commit, f
  <2>2. QED
    BY <1>1, <2>1 DEF IInv, ShapeOK
<1>6. byHand' = IF req[h].op = "mark_paid" THEN byHand \cup {i} ELSE byHand
  BY <1>1 DEF Commit
<1>7. \A c \in Conversations : /\ daraja'[c].of = daraja[c].of
                               /\ daraja'[c].state = daraja[c].state
                               /\ c # is.conv => daraja'[c] = daraja[c]
                               /\ c = is.conv => daraja'[c].known
  <2>1. CASE is.conv = None
    <3>1. daraja' = daraja /\ is.conv \notin Conversations
      BY <2>1, IdsAssumption DEF Commit
    <3>2. QED
      BY <1>1, <3>1 DEF Payout
  <2>2. CASE is.conv # None
    <3>1. daraja' = [daraja EXCEPT ![is.conv].known = TRUE] /\ is.conv \in Conversations
      BY <1>1, <2>2 DEF Commit, IsRow
    <3>2. QED
      BY <1>1, <3>1 DEF Payout
  <2>3. QED
    BY <2>1, <2>2
<1>8. is.conv # None => is.conv \in Conversations /\ daraja[is.conv].of = i
  BY <1>1 DEF SessionOK, IsRow
<1>9. ASSUME NEW c \in Conversations, daraja'[c].state = "unused"
      PROVE  ~daraja'[c].known
  <2>1. daraja[c].of = None /\ ~daraja[c].known
    BY <1>7, <1>9 DEF PaidOnceInv, IInv, PayoutOK
  <2>2. c # is.conv
    BY <1>8, <2>1, IdsAssumption
  <2>3. QED
    BY <1>7, <2>1, <2>2
<1> HIDE DEF f
<1>10. ASSUME NEW j \in Disbursements, j # i PROVE HistoryOK(j)'
  <2>1. Known(j)' = Known(j)
    <3>1. \A c \in Conversations : daraja[c].of = j => c # is.conv
      BY <1>8, <1>10, IdsAssumption
    <3>2. QED
      BY <1>7, <3>1 DEF Known
  <2>2. row[j].conv # None => row[j].conv \in Conversations
    BY DEF IInv, ShapeOK, IsRow
  <2>3. HistoryOK(j) /\ row'[j] = row[j] /\ (j \in byHand' => j \in byHand)
    BY <1>5, <1>6, <1>10 DEF PaidOnceInv
  <2>4. QED
    BY <1>7, <2>1, <2>2, <2>3 DEF HistoryOK, Spent, Known
<1>11. HistoryOK(i)'
  <2>1. i \notin byHand /\ was.status # "COMPLETED"
    BY <1>1 DEF SessionOK, HistoryOK
  <2>2. row'[i].conv # None => daraja'[row'[i].conv].known
    BY <1>4, <1>5, <1>7, <1>8
  <2>3. Known(i)' \subseteq Known(i) \cup {is.conv}
    BY <1>7 DEF Known
  <2>4. is.conv = was.conv => Known(i)' = Known(i)
    <3>1. SUFFICES ASSUME is.conv = was.conv PROVE Known(i)' = Known(i)
      OBVIOUS
    <3>2. \A c \in Conversations : c = is.conv => daraja[c].known
      BY <1>1, <3>1, IdsAssumption DEF HistoryOK
    <3>3. ASSUME NEW c \in Conversations
          PROVE  daraja'[c].known <=> daraja[c].known
      BY <1>7, <3>2
    <3>4. QED
      BY <1>7, <3>3 DEF Known
  <2>5. CASE req[h].op \in {"approve", "reject", "mark_paid", "insert", "pay"}
    <3>1. Spent(i)
      <4>1. was.status \notin {"PROCESSING", "COMPLETED"}
        BY <1>1, <2>5 DEF OperationOK, InsertOK, Payable, NoRow
      <4>2. QED
        BY <1>1, <4>1 DEF HistoryOK
    <3>2. \A c \in Known(i) : daraja'[c].state \in {"failed", "dropped"}
      BY <1>7, <3>1 DEF Spent, Known
    <3>3. \A c \in Known(i)' :
            c # row'[i].conv => daraja'[c].state \in {"failed", "dropped"}
      BY <1>4, <1>5, <2>3, <3>2
    <3>4. CASE is.conv = was.conv
      <4>1. Known(i)' = Known(i)
        BY <2>4, <3>4
      <4>2. Spent(i)'
        BY <3>2, <4>1 DEF Spent
      <4>3. i \in byHand' => is.status = "COMPLETED"
        BY <1>1, <1>6, <2>1 DEF OperationOK
      <4>4. QED
        BY <1>4, <1>5, <2>2, <3>3, <4>2, <4>3 DEF HistoryOK
    <3>5. CASE is.conv # was.conv
      <4>1. req[h].op \in {"insert", "pay"} /\ is.status = "PROCESSING"
        BY <1>1, <2>5, <3>5 DEF OperationOK
      <4>2. i \notin byHand'
        BY <1>6, <2>1, <4>1
      <4>3. QED
        BY <1>4, <1>5, <2>2, <3>3, <4>1, <4>2 DEF HistoryOK
    <3>6. QED
      BY <3>4, <3>5
  <2>6. CASE req[h].op \in {"result", "timeout"}
    <3>1. /\ is.conv = was.conv /\ was.conv # None /\ i \notin byHand'
          /\ is.status = "COMPLETED" \/ daraja[was.conv].state \in {"failed", "dropped"}
      BY <1>1, <1>6, <2>1, <2>6 DEF OperationOK
    <3>2. Known(i)' = Known(i)
      BY <2>4, <3>1
    <3>3. \A c \in Known(i)' :
            c # row'[i].conv => daraja'[c].state \in {"failed", "dropped"}
      <4>1. \A c \in Known(i) :
                c # row[i].conv => daraja[c].state \in {"failed", "dropped"}
        BY <1>1 DEF HistoryOK
      <4>2. row'[i].conv = row[i].conv
        BY <1>1, <1>4, <1>5, <3>1
      <4>3. QED
        BY <1>7, <3>2, <4>1, <4>2 DEF Known
    <3>4. is.status # "COMPLETED" => Spent(i)'
      BY <1>4, <1>5, <1>7, <1>8, <3>1, <3>2, <3>3 DEF Spent, Known
    <3>5. QED
      BY <1>4, <1>5, <2>2, <3>1, <3>3, <3>4 DEF HistoryOK
  <2>7. QED
    BY <1>1, <2>5, <2>6 DEF Operations
<1>12. QED
  BY <1>3, <1>9, <1>10, <1>11 DEF PaidOnceInv

(* A payout whose answer is lost was never known. *)
LEMMA AbortSerial ==
    ASSUME IInv, PaidOnceInv, NEW h \in Handlers, Abort(h)
    PROVE  PaidOnceInv'
<1> DEFINE c == req[h].is.conv
<1>1. IsRow(req[h].is) /\ req[h].at # "idle" /\ daraja \in [Conversations -> Payout]
  BY DEF Abort, IInv, ShapeOK, IsRequest
<1>2. UNCHANGED <<row, byHand>> /\ \A g \in Handlers : req'[g] = Idle
  <2>1. \A g \in Handlers \ {h} : req[g] = Idle
    BY <1>1, BusyAlone
  <2>2. QED
    BY <2>1 DEF Abort, IInv, ShapeOK, Rows
<1>3. Serial' /\ \A g \in Handlers : OperationOK(g)'
  BY <1>2, IdleOperation DEF Serial, Idle
<1>4. \A e \in Conversations : /\ daraja'[e].of \in {daraja[e].of, None}
                               /\ daraja'[e].state = daraja[e].state
                               /\ daraja'[e].known = daraja[e].known
  <2>1. CASE req[h].op = "insert" /\ c # None
    <3>1. daraja' = [daraja EXCEPT ![c].of = None] /\ c \in Conversations
      BY <1>1, <2>1 DEF Abort, IsRow
    <3>2. QED
      BY <1>1, <3>1 DEF Payout
  <2>2. CASE ~(req[h].op = "insert" /\ c # None)
    BY <2>2 DEF Abort
  <2>3. QED
    BY <2>1, <2>2
<1>5. ASSUME NEW j \in Disbursements PROVE HistoryOK(j)'
  <2>1. Known(j)' \subseteq Known(j)
    BY <1>4, IdsAssumption DEF Known
  <2>2. row[j].conv # None => row[j].conv \in Conversations
    BY DEF IInv, ShapeOK, IsRow
  <2>3. HistoryOK(j)
    BY DEF PaidOnceInv
  <2>4. QED
    BY <1>2, <1>4, <2>1, <2>2, <2>3 DEF HistoryOK, Spent, Known
<1>6. QED
  BY <1>3, <1>4, <1>5 DEF PaidOnceInv

(* What has failed or been dropped does not come back. *)
LEMMA SettlesSerial ==
    ASSUME IInv, PaidOnceInv, NEW c \in Conversations, DarajaSettles(c)
    PROVE  PaidOnceInv'
<1>1. UNCHANGED <<row, byHand, req>>
  BY DEF DarajaSettles, Rows
<1>2. \A e \in Conversations :
        /\ daraja'[e].of = daraja[e].of
        /\ daraja'[e].known = daraja[e].known
        /\ daraja[e].state \in {"failed", "dropped"} => daraja'[e].state = daraja[e].state
        /\ daraja'[e].state = "unused" => daraja[e].state = "unused"
  BY DEF DarajaSettles, IInv, ShapeOK, Payout
<1>3. Serial'
  BY <1>1 DEF PaidOnceInv, Serial
<1>4. ASSUME NEW j \in Disbursements PROVE HistoryOK(j)'
  <2>1. Known(j)' = Known(j)
    BY <1>2 DEF Known
  <2>2. HistoryOK(j) /\ (row[j].conv # None => row[j].conv \in Conversations)
    BY DEF PaidOnceInv, IInv, ShapeOK, IsRow
  <2>3. QED
    BY <1>1, <1>2, <2>1, <2>2 DEF HistoryOK, Spent, Known
<1>5. ASSUME NEW g \in Handlers PROVE OperationOK(g)'
  <2>1. OperationOK(g) /\ IsRow(req[g].was) /\ IsRow(req[g].is)
    BY DEF PaidOnceInv, IInv, ShapeOK, IsRequest
  <2>2. QED
    BY <1>1, <1>2, <2>1 DEF OperationOK, IsRow
<1>6. QED
  BY <1>2, <1>3, <1>4, <1>5 DEF PaidOnceInv

LEMMA NextPaidOnce ==
    ASSUME IInv, PaidOnceInv, ~Overlap, [Next]_vars
    PROVE  PaidOnceInv'
<1> DEFINE quiet == UNCHANGED <<row, byHand, daraja, req>>
<1>1. CASE quiet
  BY <1>1 DEF PaidOnceInv, Serial, HistoryOK, OperationOK, Known, Spent
<1>2. ASSUME NEW h \in Handlers, NEW i \in Disbursements,
             \/ CreateBegin(h, i) \/ MonthlyBegin(h, i) \/ DailyBegin(h, i)
             \/ ApproveBegin(h, i) \/ RejectBegin(h, i)
             \/ MarkPaidBegin(h, i) \/ PayBegin(h, i)
      PROVE  PaidOnceInv'
  BY <1>2, InsertsSerial, LoadsSerial
<1>3. ASSUME NEW h \in Handlers, NEW c \in Conversations,
             ResultBegin(h, c) \/ TimeoutBegin(h, c)
      PROVE  PaidOnceInv'
  BY <1>3, CallbacksSerial
<1>4. ASSUME NEW h \in Handlers, Send(h) \/ Commit(h) \/ Abort(h) PROVE PaidOnceInv'
  BY <1>4, SendSerial, CommitSerial, AbortSerial
<1>5. ASSUME NEW d \in Days, NEW amount \in Takings, Earn(d, amount) PROVE quiet
  BY <1>5 DEF Earn, Rows
<1>6. NextDay \/ UNCHANGED vars => quiet
  BY DEF NextDay, Rows, vars
<1>7. ASSUME NEW c \in Conversations, DarajaSettles(c) PROVE PaidOnceInv'
  BY <1>7, SettlesSerial
<1>8. ASSUME NEW c \in Conversations, ClaimExpires(c) PROVE quiet
  BY <1>8 DEF ClaimExpires, Rows
<1> HIDE DEF quiet
<1>9. QED
  BY <1>1, <1>2, <1>3, <1>4, <1>5, <1>6, <1>7, <1>8 DEF Next

LEMMA PaidOnceFollows == IInv /\ PaidOnceInv => PaidOnceUnlessLost
<1> SUFFICES ASSUME IInv, PaidOnceInv, NEW i \in Disbursements
             PROVE  LET paid == {c \in Conversations : /\ daraja[c].of = i
                                                       /\ daraja[c].known
                                                       /\ daraja[c].state = "paid"}
                    IN  Cardinality(paid) + (IF i \in byHand THEN 1 ELSE 0) <= 1
  BY DEF PaidOnceUnlessLost
<1> DEFINE paid == {c \in Conversations : /\ daraja[c].of = i
                                          /\ daraja[c].known
                                          /\ daraja[c].state = "paid"}
<1>1. paid \subseteq {row[i].conv} /\ (i \in byHand => paid = {})
  BY DEF PaidOnceInv, HistoryOK, Known, Spent
<1>2. Cardinality({}) = 0 /\ Cardinality({row[i].conv}) = 1
  BY FS_EmptySet, FS_Singleton
<1> HIDE DEF paid
<1>3. paid = {} \/ paid = {row[i].conv}
  BY <1>1
<1>4. Cardinality(paid) + (IF i \in byHand THEN 1 ELSE 0) <= 1
  <2>1. CASE paid = {}
    BY <1>2, <2>1
  <2>2. CASE paid = {row[i].conv}
    BY <1>1, <1>2, <2>2
  <2>3. QED
    BY <1>3, <2>1, <2>2
<1>5. QED
  BY <1>4 DEF paid

(* When requests do not overlap, an owner is paid once for a disbursement,
   through failures, time-outs, retries, payments by hand and repeated results,
   except by payouts whose answer was lost (initiate_mpesa_payout,
   handle_b2c_result, fail_pending_payout). *)
THEOREM PaidOnce == ~Overlap => (Spec => []PaidOnceUnlessLost)
<1> SUFFICES ASSUME ~Overlap PROVE Spec => []PaidOnceUnlessLost
  OBVIOUS
<1> DEFINE Both == IInv /\ PaidOnceInv
<1>1. Init => Both
  BY InitInvariant, InitPaidOnce
<1>2. Both /\ [Next]_vars => Both'
  BY NextInvariant, NextPaidOnce
<1>3. Both => PaidOnceUnlessLost
  BY PaidOnceFollows
<1>4. QED
  BY <1>1, <1>2, <1>3, PTL DEF Spec

-----------------------------------------------------------------------------
(* Every day is settled once, when the daily run alone makes disbursements *)

(* What is settled is approved and lies in the past. *)
PeriodOK(i) ==
    i \in Standing =>
        /\ row[i].status # "PENDING"
        /\ row[i].from \in Nat /\ row[i].to \in Nat
        /\ row[i].from <= row[i].to /\ row[i].to < today

(* one disbursement ends last *)
LastEnds ==
    Standing = {} \/ \E k \in Standing : \A i \in Standing : row[i].to <= row[k].to

(* A request keeps the period it loaded and rejects nothing; one that inserts
   takes up on the day after the last one settled. *)
ContinuesOK(h) ==
    /\ req[h].at # "idle" => req[h].is.status \notin {"PENDING", "REJECTED"}
    /\ req[h].op # "insert" =>
        req[h].is.from = req[h].was.from /\ req[h].is.to = req[h].was.to
    /\ req[h].op = "insert" =>
        /\ req[h].is.from \in Nat /\ req[h].is.to \in Nat
        /\ req[h].is.from <= req[h].is.to /\ req[h].is.to < today
        /\ \A i \in Standing : row[i].to < req[h].is.from
        /\ Standing = {} \/ \E k \in Standing : row[k].to + 1 = req[h].is.from

(* nothing was rejected, so what exists stands *)
SettledInv ==
    /\ today \in Nat
    /\ \A i \in Disbursements : row[i].status # "REJECTED" /\ PeriodOK(i)
    /\ LastEnds
    /\ \A h \in Handlers : ContinuesOK(h)
    /\ EveryDaySettledOnce

LEMMA InitSettled == Init => SettledInv
<1> SUFFICES ASSUME Init PROVE SettledInv
  OBVIOUS
<1>1. Standing = {} /\ \A i \in Disbursements : row[i].status = "ABSENT"
  BY DEF Init, Standing, NoRow
<1>2. \A i \in Disbursements : PeriodOK(i)
  BY <1>1 DEF PeriodOK
<1>3. \A h \in Handlers : ContinuesOK(h)
  BY DEF Init, ContinuesOK, Idle, NoRow
<1>4. EveryDaySettledOnce /\ LastEnds
  BY <1>1 DEF EveryDaySettledOnce, LastEnds
<1>5. QED
  BY <1>1, <1>2, <1>3, <1>4 DEF SettledInv, Init

(* While the rows stay and days pass, all that was settled stays settled. *)
LEMMA SettledKept ==
    ASSUME SettledInv, UNCHANGED row, today' \in Nat, today <= today',
           \A h \in Handlers : req'[h] = req[h] \/ ContinuesOK(h)'
    PROVE  SettledInv'
<1>1. Standing' = Standing
  BY DEF Standing
<1>2. \A i \in Disbursements : row'[i].status # "REJECTED" /\ PeriodOK(i)'
  BY <1>1 DEF SettledInv, PeriodOK
<1>3. LastEnds' /\ EveryDaySettledOnce'
  BY <1>1 DEF SettledInv, LastEnds, EveryDaySettledOnce
<1>4. ASSUME NEW h \in Handlers, req'[h] = req[h] PROVE ContinuesOK(h)'
  BY <1>1, <1>4 DEF SettledInv, ContinuesOK
<1>5. QED
  BY <1>2, <1>3, <1>4 DEF SettledInv

(* The window of a daily run starts the day after the last one settled. *)
LEMMA WindowContinues ==
    ASSUME SettledInv, Window.from \in 1 .. Window.to
    PROVE  /\ Window.from \in Nat /\ Window.to \in Nat
           /\ Window.from <= Window.to /\ Window.to < today
           /\ \A i \in Standing : row[i].to < Window.from
           /\ Standing = {} \/ \E k \in Standing : row[k].to + 1 = Window.from
<1>1. Window.to = today - 1 /\ today \in Nat
  BY DEF Window, SettledInv
<1>2. Window.from \in Nat /\ Window.to \in Nat /\ Window.from <= Window.to
  <2> DEFINE a == Window.from
             b == Window.to
  <2>1. a \in 1 .. b /\ b = today - 1 /\ today \in Nat
    BY <1>1
  <2> HIDE DEF a, b
  <2>2. a \in Nat /\ b \in Nat /\ a <= b
    BY <2>1
  <2>3. QED
    BY <2>2 DEF a, b
<1>3. ASSUME Standing # {}
      PROVE  /\ \A i \in Standing : row[i].to < Window.from
             /\ \E k \in Standing : row[k].to + 1 = Window.from
  <2>1. \A i \in Standing : i \in Disbursements /\ row[i].to \in Nat
    BY DEF Standing, SettledInv, PeriodOK
  <2>2. SettledEnds = {row[i].to : i \in Standing}
    BY DEF SettledEnds, Standing
  <2>3. PICK k \in Standing : \A i \in Standing : row[i].to <= row[k].to
    BY <1>3 DEF SettledInv, LastEnds
  <2>4. row[k].to \in SettledEnds /\ \A e \in SettledEnds : row[k].to >= e
    BY <2>1, <2>2, <2>3
  <2>5. Max(SettledEnds) \in SettledEnds /\ \A e \in SettledEnds : Max(SettledEnds) >= e
    BY <2>4 DEF Max
  <2>6. Window.from = Max(SettledEnds) + 1
    BY <2>4 DEF Window
  <2>7. PICK m \in Standing : row[m].to = Max(SettledEnds)
    BY <2>2, <2>5
  <2>8. \A i \in Standing : row[i].to <= row[m].to
    BY <2>2, <2>5, <2>7
  <2>9. \A i \in Standing : row[i].to < row[m].to + 1
    BY <2>1, <2>8
  <2>10. QED
    BY <2>6, <2>7, <2>9
<1>4. Window.to < today
  BY <1>1, <1>2
<1>5. QED
  BY <1>2, <1>3, <1>4

LEMMA DailySettled ==
    ASSUME IInv, SettledInv, NEW h \in Handlers, NEW i \in Disbursements,
           DailyBegin(h, i)
    PROVE  SettledInv'
<1> DEFINE new == NewRow("daily", Window.from, Window.to)
<1>1. /\ req'[h] = [op |-> "insert", at |-> "loaded", dsb |-> i,
                    was |-> NoRow, is |-> new]
      /\ \A k \in Handlers \ {h} : req'[k] = req[k]
      /\ UNCHANGED <<row, today>>
  BY DEF DailyBegin, Insert, Rows, Books, IInv, ShapeOK
<1>2. new.from = Window.from /\ new.to = Window.to /\ new.status = "APPROVED"
  BY DEF NewRow, NoRow
<1>3. Window.from \in 1 .. Window.to
  BY DEF DailyBegin
<1> HIDE DEF new
<1>4. /\ req'[h].op = "insert" /\ req'[h].is = new /\ Standing' = Standing
      /\ today' = today /\ row' = row
  BY <1>1 DEF Standing
<1>5. ContinuesOK(h)'
  BY <1>2, <1>3, <1>4, WindowContinues DEF ContinuesOK
<1>6. today \in Nat
  BY DEF SettledInv
<1>7. QED
  BY <1>1, <1>5, <1>6, SettledKept

(* A request that loads a row keeps its period. *)
LEMMA LoadSettled ==
    ASSUME IInv, SettledInv, NEW h \in Handlers, NEW i \in Disbursements,
           NEW op \in Operations \ {"insert"}, NEW at, NEW is,
           Load(h, i, op, at, is),
           is.status \notin {"PENDING", "REJECTED"},
           is.from = row[i].from, is.to = row[i].to
    PROVE  SettledInv'
<1>1. /\ req'[h] = [op |-> op, at |-> at, dsb |-> i, was |-> row[i], is |-> is]
      /\ \A k \in Handlers \ {h} : req'[k] = req[k]
      /\ UNCHANGED <<row, today>>
  BY DEF Load, Rows, Books, IInv, ShapeOK
<1>2. ContinuesOK(h)'
  BY <1>1 DEF ContinuesOK
<1>3. today \in Nat
  BY DEF SettledInv
<1>4. QED
  BY <1>1, <1>2, <1>3, SettledKept

LEMMA ChangedStatus ==
    ASSUME NEW r, IsRow(r), NEW s \in DisbursementStatus
    PROVE  LET n == [r EXCEPT !.status = s] IN
           n.status = s /\ n.from = r.from /\ n.to = r.to
BY DEF IsRow

LEMMA LoadsSettled ==
    ASSUME IInv, SettledInv, NEW h \in Handlers, NEW i \in Disbursements,
           \/ ApproveBegin(h, i) \/ RejectBegin(h, i)
           \/ MarkPaidBegin(h, i) \/ PayBegin(h, i)
    PROVE  SettledInv'
<1> DEFINE completed == [row[i] EXCEPT !.status = "COMPLETED"]
<1>1. IsRow(row[i]) /\ row[i].status \notin {"PENDING", "REJECTED"}
  BY DEF IInv, ShapeOK, SettledInv, PeriodOK, Standing
<1>2. MarkPaidBegin(h, i) \/ PayBegin(h, i)
  BY <1>1 DEF ApproveBegin, RejectBegin
<1>3. CASE MarkPaidBegin(h, i)
  <2>1. /\ completed.status = "COMPLETED"
        /\ completed.from = row[i].from /\ completed.to = row[i].to
    BY <1>1, ChangedStatus DEF DisbursementStatus
  <2>2. Load(h, i, "mark_paid", "ready", completed)
    BY <1>3 DEF MarkPaidBegin
  <2> HIDE DEF completed
  <2>3. QED
    BY <2>1, <2>2, LoadSettled DEF Operations
<1>4. CASE PayBegin(h, i)
  BY <1>1, <1>4, LoadSettled DEF PayBegin, Operations
<1>5. QED
  BY <1>2, <1>3, <1>4

LEMMA CallbacksSettled ==
    ASSUME IInv, SettledInv, NEW h \in Handlers, NEW c \in Conversations,
           ResultBegin(h, c) \/ TimeoutBegin(h, c)
    PROVE  SettledInv'
<1>1. ASSUME NEW i \in Disbursements, NEW op \in {"result", "timeout"},
             NEW s \in {"COMPLETED", "FAILED"},
             Load(h, i, op, "ready", [row[i] EXCEPT !.status = s])
      PROVE  SettledInv'
  <2> DEFINE is == [row[i] EXCEPT !.status = s]
  <2>1. is.status = s /\ is.from = row[i].from /\ is.to = row[i].to
    BY ChangedStatus DEF DisbursementStatus, IInv, ShapeOK
  <2>2. Load(h, i, op, "ready", is)
    BY <1>1
  <2> HIDE DEF is
  <2>3. QED
    BY <2>1, <2>2, LoadSettled DEF Operations
<1>2. ASSUME UNCHANGED <<row, today, req>> PROVE SettledInv'
  BY <1>2, SettledKept DEF SettledInv
<1>3. CASE ResultBegin(h, c)
  <2>1. Outcome(c) \in {"COMPLETED", "FAILED"} /\ \A i \in RowsOf(c) : i \in Disbursements
    BY DEF Outcome, RowsOf
  <2>2. \/ \E i \in RowsOf(c) :
                Load(h, i, "result", "ready", [row[i] EXCEPT !.status = Outcome(c)])
        \/ UNCHANGED <<row, today, req>>
    BY <1>3 DEF ResultBegin, Rows, Books
  <2>3. QED
    BY <1>1, <1>2, <2>1, <2>2
<1>4. CASE TimeoutBegin(h, c)
  <2>1. PICK i \in RowsOf(c) :
            Load(h, i, "timeout", "ready", [row[i] EXCEPT !.status = "FAILED"])
    BY <1>4 DEF TimeoutBegin
  <2>2. i \in Disbursements
    BY DEF RowsOf
  <2>3. QED
    BY <1>1, <2>1, <2>2
<1>5. QED
  BY <1>3, <1>4

(* the request after Daraja's answer, and after one with a conversation *)
Answered(r, s) == [r EXCEPT !.at = "ready", !.is.status = s]
Accepted(r, s, c) == [Answered(r, s) EXCEPT !.is.conv = c]

SamePeriod(r, n, s) ==
    /\ n.op = r.op /\ n.was = r.was /\ n.is.status = s
    /\ n.is.from = r.is.from /\ n.is.to = r.is.to

LEMMA AnswerKeepsPeriod ==
    ASSUME NEW r, IsRequest(r), NEW s, NEW c
    PROVE  SamePeriod(r, Answered(r, s), s) /\ SamePeriod(r, Accepted(r, s, c), s)
<1> DEFINE o == Answered(r, s)
           n == Accepted(r, s, c)
           is == [r.is EXCEPT !.status = s]
<1>1. o.op = r.op /\ o.was = r.was /\ o.is = is
  BY DEF IsRequest, Answered
<1>2. n.op = r.op /\ n.was = r.was /\ n.is = [is EXCEPT !.conv = c]
  BY DEF IsRequest, Answered, Accepted
<1>3. /\ is.status = s /\ is.from = r.is.from /\ is.to = r.is.to
      /\ [is EXCEPT !.conv = c].status = s
      /\ [is EXCEPT !.conv = c].from = r.is.from
      /\ [is EXCEPT !.conv = c].to = r.is.to
  BY DEF IsRequest, IsRow
<1> HIDE DEF o, n, is
<1>4. SamePeriod(r, o, s) /\ SamePeriod(r, n, s)
  BY <1>1, <1>2, <1>3 DEF SamePeriod
<1>5. QED
  BY <1>4 DEF o, n

LEMMA SendSettled ==
    ASSUME IInv, SettledInv, NEW h \in Handlers, Send(h)
    PROVE  SettledInv'
<1> DEFINE is == req[h].is
<1>1. /\ req[h].at = "loaded" /\ IsRequest(req[h]) /\ IsRow(is)
      /\ UNCHANGED <<row, today>> /\ today \in Nat
  BY DEF Send, Rows, Books, IInv, ShapeOK, IsRequest, SettledInv
<1>2. \A k \in Handlers \ {h} : req'[k] = req[k]
  BY DEF Send, IInv, ShapeOK
<1>3. PICK s \in {"PROCESSING", "FAILED"} :
            /\ req'[h].op = req[h].op /\ req'[h].was = req[h].was
            /\ req'[h].is.status = s
            /\ req'[h].is.from = is.from /\ req'[h].is.to = is.to
  <2>1. \/ \E c \in Conversations : req'[h] = Accepted(req[h], "PROCESSING", c)
        \/ req'[h] = Answered(req[h], "FAILED")
    BY DEF Send, Answered, Accepted, IInv, ShapeOK
  <2>2. \E s \in {"PROCESSING", "FAILED"} : SamePeriod(req[h], req'[h], s)
    BY <1>1, <2>1, AnswerKeepsPeriod
  <2>3. QED
    BY <2>2 DEF SamePeriod
<1>4. ContinuesOK(h)'
  <2>1. Standing' = Standing
    BY <1>1 DEF Standing
  <2>2. ContinuesOK(h)
    BY DEF SettledInv
  <2>3. QED
    BY <1>1, <1>3, <2>1, <2>2 DEF ContinuesOK
<1>5. QED
  BY <1>1, <1>2, <1>4, SettledKept

(* The commit of an insert settles the days after the last one; any other commit
   leaves the periods. *)
LEMMA CommitSettled ==
    ASSUME IInv, Serial, SettledInv, NEW h \in Handlers, Commit(h)
    PROVE  SettledInv'
<1> DEFINE i == req[h].dsb
           was == req[h].was
           is == req[h].is
           now == row[i]
           f == FlushedRow(was, is, now)
<1>1. /\ ServedOK(h) /\ IsRow(is) /\ IsRow(was) /\ IsRow(now) /\ i \in Disbursements
      /\ req[h].at = "ready" /\ req[h].op # "none" /\ ContinuesOK(h)
  BY DEF Commit, IInv, ShapeOK, IsRequest, ServedOK, SessionOK, Idle, SettledInv
<1>2. /\ row'[i] = f /\ \A j \in Disbursements : j # i => row'[j] = row[j]
      /\ \A k \in Handlers : req'[k] = Idle
      /\ today' = today /\ today \in Nat
  <2> HIDE DEF f
  <2>1. row' = [row EXCEPT ![i] = f] /\ req' = [req EXCEPT ![h] = Idle] /\ today' = today
    BY DEF Commit, f, Books
  <2>2. \A k \in Handlers \ {h} : req[k] = Idle
    BY <1>1 DEF Serial, IInv, ServedOK, SessionOK
  <2>3. QED
    BY <1>1, <2>1, <2>2 DEF IInv, ShapeOK, SettledInv
<1>3. /\ f.status \in {now.status, is.status} \ {"ABSENT"}
      /\ f.from = IF is.from = was.from THEN now.from ELSE is.from
      /\ f.to = IF is.to = was.to THEN now.to ELSE is.to
  <2>1. f.status \in {now.status, is.status} \ {"ABSENT"}
    BY <1>1, CommittedRow
  <2>2. QED
    BY <1>1, <2>1 DEF FlushedRow, IsRow
<1>4. now.status # "REJECTED" /\ (i \in Standing => now.status # "PENDING")
  BY <1>1 DEF SettledInv, PeriodOK
<1>5. is.status \notin {"PENDING", "REJECTED"}
  BY <1>1 DEF ContinuesOK
<1>6. Standing' = Standing \cup {i}
  BY <1>1, <1>2, <1>3, <1>4, <1>5 DEF Standing
<1>7. \A k \in Handlers : ContinuesOK(k)'
  BY <1>2 DEF ContinuesOK, Idle
<1>8. \A j \in Standing : /\ j \in Disbursements /\ row[j].from \in Nat
                          /\ row[j].to \in Nat /\ row[j].from <= row[j].to
                          /\ row[j].to < today /\ row[j].status # "PENDING"
  BY DEF SettledInv, PeriodOK, Standing
<1>9. CASE req[h].op # "insert"
  <2>1. i \in Standing
    BY <1>1, <1>4, <1>9 DEF ServedOK, UpdateOK, Standing
  <2>2. f.from = now.from /\ f.to = now.to
    BY <1>1, <1>3, <1>9 DEF ContinuesOK
  <2> HIDE DEF f, now
  <2>3. Standing' = Standing
    BY <1>6, <2>1
  <2>4. \A j \in Standing : row'[j].from = row[j].from /\ row'[j].to = row[j].to
    BY <1>2, <1>8, <2>2 DEF now
  <2>5. \A j \in Disbursements : row'[j].status # "REJECTED" /\ PeriodOK(j)'
    <3>1. \A j \in Standing : row'[j].status \notin {"PENDING", "REJECTED"}
      BY <1>2, <1>3, <1>4, <1>5, <1>8, <2>1 DEF SettledInv, now
    <3>2. \A j \in Disbursements : row'[j].status # "REJECTED"
      BY <1>2, <2>1, <3>1 DEF SettledInv
    <3>3. QED
      BY <1>2, <1>8, <2>3, <2>4, <3>1, <3>2 DEF PeriodOK
  <2>6. LastEnds' /\ EveryDaySettledOnce'
    BY <2>3, <2>4 DEF SettledInv, LastEnds, EveryDaySettledOnce
  <2>7. QED
    BY <1>2, <1>7, <2>5, <2>6 DEF SettledInv
<1>10. CASE req[h].op = "insert"
  <2> DEFINE a == is.from
             b == is.to
  <2>1. was = NoRow /\ now = NoRow /\ i \notin Standing
    BY <1>1, <1>10 DEF ServedOK, InsertOK, Standing, NoRow
  <2>2. f.from = a /\ f.to = b /\ f.status \notin {"PENDING", "REJECTED"}
    BY <1>3, <1>5, <2>1 DEF NoRow
  <2>3. /\ a \in Nat /\ b \in Nat /\ a <= b /\ b < today
        /\ \A j \in Standing : row[j].to < a
        /\ Standing = {} \/ \E k \in Standing : row[k].to + 1 = a
    BY <1>1, <1>10 DEF ContinuesOK
  <2> HIDE DEF f, now, was, is, a, b, i
  <2>4. row'[i].from = a /\ row'[i].to = b /\ row'[i].status \notin {"PENDING", "REJECTED"}
    BY <1>2, <2>2
  <2>5. \A j \in Standing : row'[j] = row[j] /\ j # i
    BY <1>2, <1>8, <2>1
  <2>6. \A j \in Disbursements : row'[j].status # "REJECTED" /\ PeriodOK(j)'
    <3>1. \A j \in Disbursements : row'[j].status # "REJECTED"
      BY <1>2, <2>4 DEF SettledInv
    <3>2. ASSUME NEW j \in Disbursements, j = i PROVE PeriodOK(j)'
      BY <1>2, <2>3, <2>4, <3>2 DEF PeriodOK
    <3>3. \A j \in Standing : PeriodOK(j)'
      BY <1>2, <1>8, <2>5 DEF PeriodOK
    <3>4. QED
      BY <1>6, <3>1, <3>2, <3>3 DEF PeriodOK
  <2>7. LastEnds'
    <3>1. \A j \in Standing' : row'[j].to <= row'[i].to
      BY <1>6, <1>8, <2>3, <2>4, <2>5
    <3>2. QED
      BY <1>6, <3>1 DEF LastEnds
  <2>8. \A j, k \in Standing' :
            j # k => row'[j].to < row'[k].from \/ row'[k].to < row'[j].from
    <3>1. \A j, k \in Standing :
            j # k => row[j].to < row[k].from \/ row[k].to < row[j].from
      BY DEF SettledInv, EveryDaySettledOnce
    <3>2. \A j \in Standing : row'[j].to < row'[i].from
      BY <2>3, <2>4, <2>5
    <3>3. QED
      BY <1>6, <2>5, <3>1, <3>2
  <2>9. ASSUME NEW j \in Standing', NEW k \in Standing',
               NEW d \in row'[j].from .. row'[k].to
        PROVE  \E m \in Standing' : d \in row'[m].from .. row'[m].to
    <3>1. CASE j = i /\ k = i
      BY <2>9, <3>1
    <3>2. CASE j = i /\ k # i
      <4>1. row'[k].to < a /\ k \in Standing /\ row'[k].to \in Nat
        BY <1>6, <1>8, <2>3, <2>5, <3>2
      <4>2. d \in a .. row'[k].to
        BY <2>4, <2>9, <3>2
      <4>3. FALSE
        BY <2>3, <4>1, <4>2
      <4>4. QED
        BY <4>3
    <3>3. ASSUME NEW n \in Standing, j \in Standing, d \in row[j].from .. row[n].to
          PROVE  \E m \in Standing' : d \in row'[m].from .. row'[m].to
      <4>1. PICK m \in Standing : d \in row[m].from .. row[m].to
        BY <3>3 DEF SettledInv, EveryDaySettledOnce
      <4>2. m \in Standing' /\ row'[m] = row[m]
        BY <1>6, <2>5
      <4>3. QED
        BY <4>1, <4>2
    <3>4. CASE j # i /\ k # i
      BY <1>6, <2>5, <2>9, <3>3, <3>4
    <3>5. CASE j # i /\ k = i
      <4>1. j \in Standing /\ row'[j] = row[j] /\ row[j].from \in Nat
        BY <1>6, <1>8, <2>5, <3>5
      <4>2. d \in row[j].from .. b
        BY <2>4, <2>9, <3>5, <4>1
      <4>3. PICK n \in Standing : row[n].to + 1 = a
        BY <2>3, <4>1
      <4>4. row[n].to \in Nat
        BY <1>8
      <4>5. d \in a .. b \/ d \in row[j].from .. row[n].to
        BY <2>3, <4>1, <4>2, <4>3, <4>4
      <4>6. CASE d \in a .. b
        <5>1. i \in Standing' /\ d \in row'[i].from .. row'[i].to
          BY <1>6, <2>4, <4>6
        <5>2. QED
          BY <5>1
      <4>7. CASE d \in row[j].from .. row[n].to
        BY <3>3, <4>1, <4>7
      <4>8. QED
        BY <4>5, <4>6, <4>7
    <3>6. QED
      BY <3>1, <3>2, <3>4, <3>5
  <2>10. EveryDaySettledOnce'
    BY <2>8, <2>9 DEF EveryDaySettledOnce
  <2>11. QED
    BY <1>2, <1>7, <2>6, <2>7, <2>10 DEF SettledInv
<1>11. QED
  BY <1>9, <1>10

LEMMA AbortSettled ==
    ASSUME IInv, SettledInv, NEW h \in Handlers, Abort(h)
    PROVE  SettledInv'
<1>1. /\ req'[h] = Idle /\ \A k \in Handlers \ {h} : req'[k] = req[k]
      /\ UNCHANGED <<row, today>> /\ today \in Nat
  BY DEF Abort, Rows, Books, IInv, ShapeOK, SettledInv
<1>2. ContinuesOK(h)'
  BY <1>1 DEF ContinuesOK, Idle
<1>3. QED
  BY <1>1, <1>2, SettledKept

LEMMA NextSettled ==
    ASSUME Ways \subseteq {"daily"}, IInv, PaidOnceInv, SettledInv, [Next]_vars
    PROVE  SettledInv'
<1> DEFINE quiet == /\ UNCHANGED <<row, req>>
                    /\ today' = today \/ today' = today + 1
<1>1. CASE quiet
  BY <1>1, SettledKept DEF SettledInv
<1>2. ASSUME NEW h \in Handlers, NEW i \in Disbursements,
             \/ CreateBegin(h, i) \/ MonthlyBegin(h, i) \/ DailyBegin(h, i)
             \/ ApproveBegin(h, i) \/ RejectBegin(h, i)
             \/ MarkPaidBegin(h, i) \/ PayBegin(h, i)
      PROVE  SettledInv'
  <2>1. ~CreateBegin(h, i) /\ ~MonthlyBegin(h, i)
    BY DEF CreateBegin, MonthlyBegin
  <2>2. QED
    BY <1>2, <2>1, DailySettled, LoadsSettled
<1>3. ASSUME NEW h \in Handlers, NEW c \in Conversations,
             ResultBegin(h, c) \/ TimeoutBegin(h, c)
      PROVE  SettledInv'
  BY <1>3, CallbacksSettled
<1>4. ASSUME NEW h \in Handlers, Send(h) \/ Commit(h) \/ Abort(h) PROVE SettledInv'
  BY <1>4, SendSettled, CommitSettled, AbortSettled DEF PaidOnceInv
<1>5. ASSUME NEW d \in Days, NEW amount \in Takings, Earn(d, amount) PROVE quiet
  BY <1>5 DEF Earn, Rows
<1>6. NextDay \/ UNCHANGED vars => quiet
  BY DEF NextDay, Rows, vars
<1>7. ASSUME NEW c \in Conversations, DarajaSettles(c) \/ ClaimExpires(c) PROVE quiet
  BY <1>7 DEF DarajaSettles, ClaimExpires, Rows, Books
<1> HIDE DEF quiet
<1>8. QED
  BY <1>1, <1>2, <1>3, <1>4, <1>5, <1>6, <1>7 DEF Next

(* When an owner is settled by the daily run alone, and requests do not overlap,
   no day is settled twice and none is skipped, whatever failed or died in
   between and whatever became of the payouts (next_auto_period,
   auto_settle_owner, process_daily_disbursements). *)
THEOREM DailyRunSettlesEveryDayOnce ==
    Ways \subseteq {"daily"} /\ ~Overlap => (Spec => []EveryDaySettledOnce)
<1> SUFFICES ASSUME Ways \subseteq {"daily"}, ~Overlap PROVE Spec => []EveryDaySettledOnce
  OBVIOUS
<1> DEFINE All == IInv /\ PaidOnceInv /\ SettledInv
<1>1. Init => All
  BY InitInvariant, InitPaidOnce, InitSettled
<1>2. All /\ [Next]_vars => All'
  BY NextInvariant, NextPaidOnce, NextSettled
<1>3. All => EveryDaySettledOnce
  BY DEF SettledInv
<1>4. QED
  BY <1>1, <1>2, <1>3, PTL DEF Spec

-----------------------------------------------------------------------------
(* What a daily run sends is what the owner earned *)

DaysOf(r) == Days \cap r.from .. r.to

EarnedBy(on, extra) == [d \in Days |-> on[d] + extra[d]]

(* The days of a daily row lie before today; its amount is at least what was
   confirmed on those days, and at most what has been confirmed since. *)
AmountOK(r, now, on, extra) ==
    r.way = "daily" =>
        /\ \A d \in DaysOf(r) : d < now
        /\ r.net \in Int
        /\ SumOver(on, DaysOf(r)) <= r.net
        /\ r.net <= SumOver(EarnedBy(on, extra), DaysOf(r))

SamePayment(r, s) ==
    r.way = s.way /\ r.from = s.from /\ r.to = s.to /\ r.net = s.net

(* A request inserts such an amount, or keeps the one it loaded. *)
CarriesOK(r, now, on, extra) ==
    /\ r.op = "insert" => AmountOK(r.is, now, on, extra)
    /\ r.op # "insert" => SamePayment(r.is, r.was)

SentInv ==
    /\ today \in Nat /\ onTime \in [Days -> Nat] /\ late \in [Days -> Nat]
    /\ \A i \in Disbursements : AmountOK(row[i], today, onTime, late)
    /\ \A h \in Handlers : CarriesOK(req[h], today, onTime, late)

LEMMA DaysFinite == ASSUME NEW r PROVE IsFiniteSet(DaysOf(r))
<1>1. IsFiniteSet(Days) /\ DaysOf(r) \subseteq Days
  BY FS_Interval, DaysAssumption DEF Days, DaysOf
<1>2. QED
  BY <1>1, FS_Subset

LEMMA InitSent == Init => SentInv
<1> SUFFICES ASSUME Init PROVE SentInv
  OBVIOUS
<1>1. today \in Nat /\ onTime \in [Days -> Nat] /\ late \in [Days -> Nat]
  BY DEF Init
<1>2. \A i \in Disbursements : AmountOK(row[i], today, onTime, late)
  BY DEF Init, AmountOK, NoRow
<1>3. \A h \in Handlers : CarriesOK(req[h], today, onTime, late)
  BY DEF Init, CarriesOK, SamePayment, Idle, NoRow
<1>4. QED
  BY <1>1, <1>2, <1>3 DEF SentInv

(* An amount stays right while days pass, what is confirmed on the day is of
   today, and what is confirmed late only grows. *)
LEMMA AmountLater ==
    ASSUME NEW r, NEW now \in Nat, NEW later \in Nat, now <= later,
           NEW on \in [Days -> Nat], NEW on2 \in [Days -> Nat],
           NEW extra \in [Days -> Nat], NEW extra2 \in [Days -> Nat],
           \A d \in Days : d < now => on2[d] = on[d],
           \A d \in Days : extra[d] <= extra2[d],
           AmountOK(r, now, on, extra)
    PROVE  AmountOK(r, later, on2, extra2)
<1> SUFFICES ASSUME r.way = "daily" PROVE AmountOK(r, later, on2, extra2)
  BY DEF AmountOK
<1> DEFINE D == DaysOf(r)
           f == EarnedBy(on, extra)
           g == EarnedBy(on2, extra2)
<1>1. /\ \A d \in D : d < now /\ d \in Days /\ d \in Int
      /\ r.net \in Int /\ SumOver(on, D) <= r.net /\ r.net <= SumOver(f, D)
  BY DEF AmountOK, DaysOf, Days
<1>2. IsFiniteSet(D)
  BY DaysFinite
<1>3. SumOver(on, D) = SumOver(on2, D)
  <2>1. \A d \in D : on[d] \in Int /\ on2[d] = on[d]
    BY <1>1
  <2> HIDE DEF D
  <2>2. QED
    BY <1>2, <2>1, SumEqual
<1>4. \A d \in D : f[d] \in Int /\ g[d] \in Int /\ f[d] <= g[d]
  BY <1>1 DEF EarnedBy
<1>5. SumOver(f, D) <= SumOver(g, D) /\ SumOver(f, D) \in Int /\ SumOver(g, D) \in Int
  <2> HIDE DEF D, f, g
  <2>1. QED
    BY <1>2, <1>4, SumMonotone, SumType
<1>6. \A d \in D : d < later
  BY <1>1
<1>7. r.net <= SumOver(g, D) /\ SumOver(on2, D) <= r.net
  <2> HIDE DEF D, f, g
  <2>1. QED
    BY <1>1, <1>3, <1>5
<1>8. QED
  BY <1>1, <1>6, <1>7 DEF AmountOK

(* Days pass and rent is confirmed, while rows and requests stay. *)
LEMMA BooksKeep ==
    ASSUME SentInv, UNCHANGED <<row, req>>, today' \in Nat, today <= today',
           onTime' \in [Days -> Nat], late' \in [Days -> Nat],
           \A d \in Days : d < today => onTime'[d] = onTime[d],
           \A d \in Days : late[d] <= late'[d]
    PROVE  SentInv'
<1> DEFINE Later(r) == AmountOK(r, today, onTime, late) =>
                            AmountOK(r, today', onTime', late')
<1>1. today \in Nat /\ onTime \in [Days -> Nat] /\ late \in [Days -> Nat]
  BY DEF SentInv
<1>2. \A i \in Disbursements : Later(row[i])
  BY <1>1, AmountLater
<1>3. \A h \in Handlers : Later(req[h].is)
  BY <1>1, AmountLater
<1>4. \A i \in Disbursements : AmountOK(row'[i], today', onTime', late')
  BY <1>2 DEF SentInv
<1>5. \A h \in Handlers : CarriesOK(req'[h], today', onTime', late')
  BY <1>3 DEF SentInv, CarriesOK
<1>6. QED
  BY <1>4, <1>5 DEF SentInv

(* Rows and books stay, and one request moves. *)
LEMMA RequestKeeps ==
    ASSUME SentInv, UNCHANGED <<today, onTime, late, row>>, NEW h \in Handlers,
           \A k \in Handlers \ {h} : req'[k] = req[k],
           CarriesOK(req'[h], today, onTime, late)
    PROVE  SentInv'
BY DEF SentInv

(* A daily run adds up its days as they are; nobody else inserts a daily row. *)
LEMMA InsertsSent ==
    ASSUME IInv, SentInv, NEW h \in Handlers, NEW i \in Disbursements,
           CreateBegin(h, i) \/ MonthlyBegin(h, i) \/ DailyBegin(h, i)
    PROVE  SentInv'
<1>1. PICK way, from, to, at :
            /\ Insert(h, i, at, NewRow(way, from, to))
            /\ way = "daily" => to = today - 1
  BY DEF CreateBegin, MonthlyBegin, DailyBegin, Window
<1> DEFINE new == NewRow(way, from, to)
<1>2. /\ req'[h] = [op |-> "insert", at |-> at, dsb |-> i, was |-> NoRow, is |-> new]
      /\ \A k \in Handlers \ {h} : req'[k] = req[k]
      /\ UNCHANGED <<today, onTime, late, row>>
  BY <1>1 DEF Insert, Rows, Books, IInv, ShapeOK
<1>3. new.way = way /\ new.from = from /\ new.to = to /\ new.net = Net(from, to)
  BY DEF NewRow, NoRow
<1>4. today \in Nat /\ onTime \in [Days -> Nat] /\ late \in [Days -> Nat]
  BY DEF SentInv
<1>5. AmountOK(new, today, onTime, late)
  <2> SUFFICES ASSUME way = "daily" PROVE AmountOK(new, today, onTime, late)
    BY <1>3 DEF AmountOK
  <2> DEFINE D == DaysOf(new)
             f == EarnedBy(onTime, late)
  <2> HIDE DEF new
  <2>1. D = Days \cap from .. to /\ to = today - 1
    BY <1>1, <1>3 DEF DaysOf
  <2>2. new.net = SumOver(f, D)
    BY <1>3, <2>1 DEF Net, EarnedBy
  <2>3. \A d \in D : d < today /\ d \in Days
    BY <1>4, <2>1 DEF Days
  <2>4. IsFiniteSet(D)
    BY DaysFinite
  <2>5. \A d \in D : onTime[d] \in Int /\ f[d] \in Int /\ onTime[d] <= f[d]
    BY <1>4, <2>3 DEF EarnedBy
  <2> HIDE DEF D, f
  <2>6. SumOver(onTime, D) <= SumOver(f, D) /\ SumOver(f, D) \in Int
    BY <2>4, <2>5, SumMonotone, SumType
  <2>7. QED
    BY <2>2, <2>3, <2>6 DEF AmountOK, D, f
<1> HIDE DEF new
<1>6. CarriesOK(req'[h], today, onTime, late)
  BY <1>2, <1>5 DEF CarriesOK
<1>7. QED
  BY <1>2, <1>6, RequestKeeps

(* A request that loads a row keeps its payment. *)
LEMMA LoadSent ==
    ASSUME IInv, SentInv, NEW h \in Handlers, NEW i \in Disbursements,
           NEW op \in Operations \ {"insert"}, NEW at, NEW is,
           Load(h, i, op, at, is), SamePayment(is, row[i])
    PROVE  SentInv'
<1>1. /\ req'[h] = [op |-> op, at |-> at, dsb |-> i, was |-> row[i], is |-> is]
      /\ \A k \in Handlers \ {h} : req'[k] = req[k]
      /\ UNCHANGED <<today, onTime, late, row>>
  BY DEF Load, Rows, Books, IInv, ShapeOK
<1>2. CarriesOK(req'[h], today, onTime, late)
  BY <1>1 DEF CarriesOK
<1>3. QED
  BY <1>1, <1>2, RequestKeeps

LEMMA ChangedPayment ==
    ASSUME NEW r, IsRow(r), NEW s, NEW b, NEW c
    PROVE  /\ SamePayment(r, r)
           /\ SamePayment([r EXCEPT !.status = s], r)
           /\ SamePayment([r EXCEPT !.status = s, !.reviewed = b], r)
           /\ SamePayment([[r EXCEPT !.status = s] EXCEPT !.conv = c], r)
BY DEF IsRow, SamePayment

LEMMA LoadsSent ==
    ASSUME IInv, SentInv, NEW h \in Handlers, NEW i \in Disbursements,
           \/ ApproveBegin(h, i) \/ RejectBegin(h, i)
           \/ MarkPaidBegin(h, i) \/ PayBegin(h, i)
    PROVE  SentInv'
<1>1. IsRow(row[i])
  BY DEF IInv, ShapeOK
<1>2. CASE PayBegin(h, i)
  BY <1>1, <1>2, ChangedPayment, LoadSent DEF PayBegin, Operations
<1>3. CASE MarkPaidBegin(h, i)
  <2> DEFINE is == [row[i] EXCEPT !.status = "COMPLETED"]
  <2>1. Load(h, i, "mark_paid", "ready", is) /\ SamePayment(is, row[i])
    BY <1>1, <1>3, ChangedPayment DEF MarkPaidBegin
  <2> HIDE DEF is
  <2>2. QED
    BY <2>1, LoadSent DEF Operations
<1>4. ASSUME NEW op \in {"approve", "reject"}, NEW s,
             Load(h, i, op, "ready", [row[i] EXCEPT !.status = s, !.reviewed = TRUE])
      PROVE  SentInv'
  <2> DEFINE is == [row[i] EXCEPT !.status = s, !.reviewed = TRUE]
  <2>1. Load(h, i, op, "ready", is) /\ SamePayment(is, row[i])
    BY <1>1, <1>4, ChangedPayment
  <2> HIDE DEF is
  <2>2. QED
    BY <2>1, LoadSent DEF Operations
<1>5. QED
  BY <1>2, <1>3, <1>4 DEF ApproveBegin, RejectBegin

LEMMA CallbacksSent ==
    ASSUME IInv, SentInv, NEW h \in Handlers, NEW c \in Conversations,
           ResultBegin(h, c) \/ TimeoutBegin(h, c)
    PROVE  SentInv'
<1>1. ASSUME NEW i \in Disbursements, NEW op \in {"result", "timeout"}, NEW s,
             Load(h, i, op, "ready", [row[i] EXCEPT !.status = s])
      PROVE  SentInv'
  <2> DEFINE is == [row[i] EXCEPT !.status = s]
  <2>1. SamePayment(is, row[i])
    BY ChangedPayment DEF IInv, ShapeOK
  <2>2. Load(h, i, op, "ready", is)
    BY <1>1
  <2> HIDE DEF is
  <2>3. QED
    BY <2>1, <2>2, LoadSent DEF Operations
<1>2. CASE ResultBegin(h, c)
  <2>1. \A i \in RowsOf(c) : i \in Disbursements
    BY DEF RowsOf
  <2>2. \/ \E i \in RowsOf(c) :
                Load(h, i, "result", "ready", [row[i] EXCEPT !.status = Outcome(c)])
        \/ UNCHANGED <<today, onTime, late, row, req>>
    BY <1>2 DEF ResultBegin, Rows, Books
  <2>3. UNCHANGED <<today, onTime, late, row, req>> => SentInv'
    BY DEF SentInv
  <2>4. QED
    BY <1>1, <2>1, <2>2, <2>3
<1>3. CASE TimeoutBegin(h, c)
  <2>1. PICK i \in RowsOf(c) :
            Load(h, i, "timeout", "ready", [row[i] EXCEPT !.status = "FAILED"])
    BY <1>3 DEF TimeoutBegin
  <2>2. i \in Disbursements
    BY DEF RowsOf
  <2>3. QED
    BY <1>1, <2>1, <2>2
<1>4. QED
  BY <1>2, <1>3

(* Daraja's answer is about the standing and the conversation. *)
SameWork(n, r) == n.op = r.op /\ n.was = r.was /\ SamePayment(n.is, r.is)

LEMMA AnswerKeepsPayment ==
    ASSUME NEW r, IsRequest(r), NEW s, NEW c
    PROVE  SameWork(Answered(r, s), r) /\ SameWork(Accepted(r, s, c), r)
<1> DEFINE o == Answered(r, s)
           n == Accepted(r, s, c)
           is == [r.is EXCEPT !.status = s]
<1>1. o.op = r.op /\ o.was = r.was /\ o.is = is
  BY DEF IsRequest, Answered
<1>2. n.op = r.op /\ n.was = r.was /\ n.is = [is EXCEPT !.conv = c]
  BY DEF IsRequest, Answered, Accepted
<1>3. SamePayment(is, r.is) /\ SamePayment([is EXCEPT !.conv = c], r.is)
  BY ChangedPayment DEF IsRequest
<1> HIDE DEF o, n, is
<1>4. SameWork(o, r) /\ SameWork(n, r)
  BY <1>1, <1>2, <1>3 DEF SameWork
<1>5. QED
  BY <1>4 DEF o, n

LEMMA SendSent ==
    ASSUME IInv, SentInv, NEW h \in Handlers, Send(h)
    PROVE  SentInv'
<1> DEFINE r == req[h]
<1>1. IsRequest(r) /\ IsRow(r.is) /\ CarriesOK(r, today, onTime, late)
  BY DEF IInv, ShapeOK, IsRequest, SentInv
<1>2. /\ \A k \in Handlers \ {h} : req'[k] = req[k]
      /\ UNCHANGED <<today, onTime, late, row>>
  BY DEF Send, Rows, Books, IInv, ShapeOK
<1>3. /\ req'[h].op = r.op /\ req'[h].was = r.was
      /\ SamePayment(req'[h].is, r.is)
  <2>1. \/ \E c \in Conversations : req'[h] = Accepted(r, "PROCESSING", c)
        \/ req'[h] = Answered(r, "FAILED")
    BY DEF Send, Answered, Accepted, IInv, ShapeOK
  <2> HIDE DEF r
  <2>2. QED
    BY <1>1, <2>1, AnswerKeepsPayment DEF SameWork
<1>4. CarriesOK(req'[h], today, onTime, late)
  BY <1>1, <1>3 DEF CarriesOK, SamePayment, AmountOK, DaysOf
<1>5. QED
  BY <1>2, <1>4, RequestKeeps

(* What a request keeps it does not write; what it inserts is committed whole. *)
LEMMA FlushedPayment ==
    ASSUME NEW was, NEW is, NEW now, IsRow(was), IsRow(is), IsRow(now)
    PROVE  LET f == FlushedRow(was, is, now) IN
           /\ SamePayment(is, was) => SamePayment(f, now)
           /\ was = now => SamePayment(f, is)
<1> DEFINE f == FlushedRow(was, is, now)
<1>1. \A k \in {"way", "from", "to", "net"} :
            f[k] = IF is[k] = was[k] THEN now[k] ELSE is[k]
  BY DEF IsRow, FlushedRow
<1>2. /\ f.way = IF is.way = was.way THEN now.way ELSE is.way
      /\ f.from = IF is.from = was.from THEN now.from ELSE is.from
      /\ f.to = IF is.to = was.to THEN now.to ELSE is.to
      /\ f.net = IF is.net = was.net THEN now.net ELSE is.net
  BY <1>1
<1> HIDE DEF f
<1>3. QED
  BY <1>2 DEF SamePayment, f

LEMMA CommitSent ==
    ASSUME IInv, SentInv, NEW h \in Handlers, Commit(h)
    PROVE  SentInv'
<1> DEFINE i == req[h].dsb
           was == req[h].was
           is == req[h].is
           now == row[i]
           f == FlushedRow(was, is, now)
           OK(r) == AmountOK(r, today, onTime, late)
<1>1. /\ ServedOK(h) /\ IsRow(is) /\ IsRow(was) /\ IsRow(now) /\ i \in Disbursements
      /\ CarriesOK(req[h], today, onTime, late)
  BY DEF Commit, IInv, ShapeOK, IsRequest, ServedOK, SessionOK, SentInv
<1>2. /\ row'[i] = f /\ \A j \in Disbursements : j # i => row'[j] = row[j]
      /\ req'[h] = Idle /\ \A k \in Handlers \ {h} : req'[k] = req[k]
      /\ UNCHANGED <<today, onTime, late>>
  <2> HIDE DEF f
  <2>1. /\ row' = [row EXCEPT ![i] = f] /\ req' = [req EXCEPT ![h] = Idle]
        /\ UNCHANGED <<today, onTime, late>>
    BY DEF Commit, f, Books
  <2>2. QED
    BY <1>1, <2>1 DEF IInv, ShapeOK
<1>3. /\ SamePayment(is, was) => SamePayment(f, now)
      /\ was = now => SamePayment(f, is)
  <2> HIDE DEF was, is, now
  <2>1. QED
    BY <1>1, FlushedPayment
<1>4. OK(f)
  <2>1. CASE req[h].op = "insert"
    <3>1. was = now /\ OK(is)
      BY <1>1, <2>1 DEF ServedOK, InsertOK, CarriesOK
    <3> HIDE DEF f, was, is, now
    <3>2. QED
      BY <1>3, <3>1 DEF SamePayment, AmountOK, DaysOf
  <2>2. CASE req[h].op # "insert"
    <3>1. SamePayment(is, was) /\ OK(now)
      BY <1>1, <2>2 DEF SentInv, CarriesOK
    <3> HIDE DEF f, was, is, now
    <3>2. QED
      BY <1>3, <3>1 DEF SamePayment, AmountOK, DaysOf
  <2>3. QED
    BY <2>1, <2>2
<1>5. CarriesOK(req'[h], today, onTime, late)
  BY <1>2 DEF CarriesOK, Idle, SamePayment
<1> HIDE DEF f
<1>6. \A j \in Disbursements : OK(row'[j])
  BY <1>2, <1>4 DEF SentInv
<1>7. \A k \in Handlers : CarriesOK(req'[k], today, onTime, late)
  BY <1>2, <1>5 DEF SentInv
<1>8. QED
  BY <1>2, <1>6, <1>7 DEF SentInv

LEMMA AbortSent ==
    ASSUME IInv, SentInv, NEW h \in Handlers, Abort(h)
    PROVE  SentInv'
<1>1. /\ req'[h] = Idle /\ \A k \in Handlers \ {h} : req'[k] = req[k]
      /\ UNCHANGED <<today, onTime, late, row>>
  BY DEF Abort, Rows, Books, IInv, ShapeOK
<1>2. CarriesOK(req'[h], today, onTime, late)
  BY <1>1 DEF CarriesOK, Idle, SamePayment
<1>3. QED
  BY <1>1, <1>2, RequestKeeps

(* Rent dated today is confirmed on time, and no daily row covers today yet. *)
LEMMA EarnSent ==
    ASSUME SentInv, NEW d \in Days, NEW amount \in Takings, Earn(d, amount)
    PROVE  SentInv'
<1>1. /\ UNCHANGED <<today, row, req>> /\ amount \in Nat
      /\ today \in Nat /\ onTime \in [Days -> Nat] /\ late \in [Days -> Nat]
  BY MoneyAssumption DEF Earn, Rows, SentInv
<1>2. CASE d = today
  <2>1. onTime' = [onTime EXCEPT ![d] = amount] /\ late' = late
    BY <1>2 DEF Earn
  <2>2. /\ onTime' \in [Days -> Nat]
        /\ \A e \in Days : e < today => onTime'[e] = onTime[e]
    BY <1>1, <1>2, <2>1
  <2>3. \A e \in Days : late[e] <= late'[e]
    BY <1>1, <2>1
  <2>4. QED
    BY <1>1, <2>1, <2>2, <2>3, BooksKeep
<1>3. CASE d # today
  <2>1. late[d] = 0 /\ late' = [late EXCEPT ![d] = amount] /\ onTime' = onTime
    BY <1>3 DEF Earn
  <2>2. late' \in [Days -> Nat] /\ \A e \in Days : late[e] <= late'[e]
    BY <1>1, <2>1
  <2>3. QED
    BY <1>1, <2>1, <2>2, BooksKeep
<1>4. QED
  BY <1>2, <1>3

LEMMA NextSent ==
    ASSUME IInv, SentInv, [Next]_vars
    PROVE  SentInv'
<1> DEFINE quiet == UNCHANGED <<today, onTime, late, row, req>>
<1>1. CASE quiet
  BY <1>1 DEF SentInv
<1>2. ASSUME NEW h \in Handlers, NEW i \in Disbursements,
             \/ CreateBegin(h, i) \/ MonthlyBegin(h, i) \/ DailyBegin(h, i)
             \/ ApproveBegin(h, i) \/ RejectBegin(h, i)
             \/ MarkPaidBegin(h, i) \/ PayBegin(h, i)
      PROVE  SentInv'
  BY <1>2, InsertsSent, LoadsSent
<1>3. ASSUME NEW h \in Handlers, NEW c \in Conversations,
             ResultBegin(h, c) \/ TimeoutBegin(h, c)
      PROVE  SentInv'
  BY <1>3, CallbacksSent
<1>4. ASSUME NEW h \in Handlers, Send(h) \/ Commit(h) \/ Abort(h) PROVE SentInv'
  BY <1>4, SendSent, CommitSent, AbortSent
<1>5. ASSUME NEW d \in Days, NEW amount \in Takings, Earn(d, amount) PROVE SentInv'
  BY <1>5, EarnSent
<1>6. CASE NextDay
  <2>1. today' = today + 1 /\ UNCHANGED <<onTime, late, row, req>>
    BY <1>6 DEF NextDay, Rows
  <2>2. today \in Nat /\ onTime \in [Days -> Nat] /\ late \in [Days -> Nat]
    BY DEF SentInv
  <2>3. \A d \in Days : late[d] <= late[d]
    BY <2>2
  <2>4. QED
    BY <2>1, <2>2, <2>3, BooksKeep
<1>7. ASSUME NEW c \in Conversations, DarajaSettles(c) \/ ClaimExpires(c) PROVE quiet
  BY <1>7 DEF DarajaSettles, ClaimExpires, Rows, Books
<1>8. UNCHANGED vars => quiet
  BY DEF vars
<1> HIDE DEF quiet
<1>9. QED
  BY <1>1, <1>2, <1>3, <1>4, <1>5, <1>6, <1>7, <1>8 DEF Next

(* However requests overlap and however disbursements come into being, a daily
   one contains all the rent of its days that was confirmed on the day, and
   nothing the owner did not earn (calculate_for_profile, auto_settle_owner):
   its days are over when it is made, so rent dated today is never in it, and
   rent confirmed late only adds to what was earned. *)
THEOREM DailyRunSendsTheRent == Spec => []OnTimeRentIsSent
<1> DEFINE Both == IInv /\ SentInv
<1>1. Init => Both
  BY InitInvariant, InitSent
<1>2. Both /\ [Next]_vars => Both'
  BY NextInvariant, NextSent
<1>3. Both => OnTimeRentIsSent
  <2> SUFFICES ASSUME Both, NEW i \in Standing, row[i].way = "daily"
               PROVE  /\ row[i].net >= SumOver(onTime, Days \cap row[i].from .. row[i].to)
                      /\ row[i].net <= Net(row[i].from, row[i].to)
    BY DEF OnTimeRentIsSent
  <2>1. AmountOK(row[i], today, onTime, late)
    BY DEF Standing, SentInv
  <2>2. QED
    BY <2>1 DEF AmountOK, DaysOf, EarnedBy, Net
<1>4. QED
  BY <1>1, <1>2, <1>3, PTL DEF Spec

-----------------------------------------------------------------------------
(* The types.  The shape of a row leaves its way, its period and its amount open:
   they are chosen when the row is inserted, and kept. *)

PaymentOK(r) ==
    r.way \in {"user", "monthly", "daily"} /\ r.from \in Days /\ r.to \in Days /\ r.net \in Nat

TypesInv ==
    /\ today \in 1 .. LastDay + 1
    /\ onTime \in [Days -> Nat] /\ late \in [Days -> Nat]
    /\ claimed \subseteq Conversations
    /\ \A i \in Disbursements : PaymentOK(row[i])
    /\ \A h \in Handlers : PaymentOK(req[h].was) /\ PaymentOK(req[h].is)

LEMMA SamePaymentOK ==
    ASSUME NEW r, NEW s, SamePayment(r, s), PaymentOK(s)
    PROVE  PaymentOK(r)
BY DEF SamePayment, PaymentOK

LEMMA NoPayment == PaymentOK(NoRow)
BY DaysAssumption DEF PaymentOK, NoRow, Days

LEMMA NetIsNatural ==
    ASSUME onTime \in [Days -> Nat], late \in [Days -> Nat], NEW from, NEW to
    PROVE  Net(from, to) \in Nat
<1> DEFINE f == [d \in Days |-> onTime[d] + late[d]]
           z == [d \in Days |-> 0]
           D == Days \cap from .. to
<1>1. IsFiniteSet(D) /\ D \subseteq Days
  <2>1. IsFiniteSet(Days)
    BY FS_Interval, DaysAssumption DEF Days
  <2>2. QED
    BY <2>1, FS_Subset
<1>2. \A d \in D : f[d] \in Int /\ z[d] \in Int /\ z[d] = 0 /\ z[d] <= f[d]
  BY <1>1
<1> HIDE DEF f, z, D
<1>3. SumOver(f, D) \in Int /\ SumOver(z, D) = 0 /\ SumOver(z, D) <= SumOver(f, D)
  BY <1>1, <1>2, SumType, SumOfZeros, SumMonotone
<1>4. Net(from, to) = SumOver(f, D)
  BY DEF Net, f, D
<1>5. QED
  BY <1>3, <1>4

(* one request moves, and has such rows in its session *)
LEMMA RequestTypes ==
    ASSUME TypesInv, UNCHANGED <<today, onTime, late, row>>, NEW h \in Handlers,
           \A k \in Handlers \ {h} : req'[k] = req[k], claimed' \subseteq Conversations,
           PaymentOK(req'[h].was), PaymentOK(req'[h].is)
    PROVE  TypesInv'
BY DEF TypesInv, PaymentOK

LEMMA InitTypes == Init => TypesInv
<1> SUFFICES ASSUME Init PROVE TypesInv
  OBVIOUS
<1>1. today \in 1 .. LastDay + 1 /\ onTime \in [Days -> Nat] /\ late \in [Days -> Nat]
  BY DaysAssumption DEF Init
<1>2. QED
  BY <1>1, NoPayment DEF Init, Idle, TypesInv

(* A period that is settled has begun and is over before the days under study are. *)
LEMMA InsertsTypes ==
    ASSUME IInv, TypesInv, NEW h \in Handlers, NEW i \in Disbursements,
           CreateBegin(h, i) \/ MonthlyBegin(h, i) \/ DailyBegin(h, i)
    PROVE  TypesInv'
<1>1. today \in Nat /\ today - 1 <= LastDay /\ LastDay \in Nat
  BY DaysAssumption DEF TypesInv
<1>2. PICK way \in {"user", "monthly", "daily"}, from \in Days, to \in Days,
           at \in {"loaded", "ready"} :
            Insert(h, i, at, NewRow(way, from, to))
  <2>1. CASE CreateBegin(h, i)
    BY <2>1 DEF CreateBegin
  <2>2. CASE MonthlyBegin(h, i)
    <3>1. today - MonthLength \in Days /\ today - 1 \in Days
      BY <1>1, <2>2, DaysAssumption DEF MonthlyBegin, Days
    <3>2. QED
      BY <2>2, <3>1 DEF MonthlyBegin
  <2>3. CASE DailyBegin(h, i)
    <3> DEFINE a == Window.from
               b == Window.to
    <3>1. a \in 1 .. b /\ b = today - 1
      BY <2>3 DEF DailyBegin, Window
    <3>2. Insert(h, i, "loaded", NewRow("daily", a, b))
      BY <2>3 DEF DailyBegin
    <3> HIDE DEF a, b
    <3>3. a \in Days /\ b \in Days
      BY <1>1, <3>1 DEF Days
    <3>4. QED
      BY <3>2, <3>3
  <2>4. QED
    BY <2>1, <2>2, <2>3
<1> DEFINE new == NewRow(way, from, to)
<1>3. /\ req'[h] = [op |-> "insert", at |-> at, dsb |-> i, was |-> NoRow, is |-> new]
      /\ \A k \in Handlers \ {h} : req'[k] = req[k]
      /\ UNCHANGED <<today, onTime, late, row, claimed>>
  BY <1>2 DEF Insert, Rows, Books, IInv, ShapeOK
<1>4. new.way = way /\ new.from = from /\ new.to = to /\ new.net = Net(from, to)
  BY DEF NewRow, NoRow
<1>5. Net(from, to) \in Nat
  BY NetIsNatural DEF TypesInv
<1> HIDE DEF new
<1>6. PaymentOK(new)
  BY <1>4, <1>5 DEF PaymentOK
<1>7. claimed' \subseteq Conversations
  BY <1>3 DEF TypesInv
<1>8. QED
  BY <1>3, <1>6, <1>7, NoPayment, RequestTypes

LEMMA LoadTypes ==
    ASSUME IInv, TypesInv, NEW h \in Handlers, NEW i \in Disbursements,
           NEW op, NEW at, NEW is,
           Load(h, i, op, at, is), SamePayment(is, row[i]), claimed' \subseteq Conversations
    PROVE  TypesInv'
<1>1. /\ req'[h] = [op |-> op, at |-> at, dsb |-> i, was |-> row[i], is |-> is]
      /\ \A k \in Handlers \ {h} : req'[k] = req[k]
      /\ UNCHANGED <<today, onTime, late, row>>
  BY DEF Load, Rows, Books, IInv, ShapeOK
<1>2. PaymentOK(row[i]) /\ PaymentOK(is)
  BY SamePaymentOK DEF TypesInv
<1>3. QED
  BY <1>1, <1>2, RequestTypes

LEMMA LoadsTypes ==
    ASSUME IInv, TypesInv, NEW h \in Handlers, NEW i \in Disbursements,
           \/ ApproveBegin(h, i) \/ RejectBegin(h, i)
           \/ MarkPaidBegin(h, i) \/ PayBegin(h, i)
    PROVE  TypesInv'
<1>1. PICK op, at, s :
            /\ \/ Load(h, i, op, at, [row[i] EXCEPT !.status = s, !.reviewed = TRUE])
               \/ Load(h, i, op, at, [row[i] EXCEPT !.status = s])
               \/ Load(h, i, op, at, row[i])
            /\ UNCHANGED claimed
  BY DEF ApproveBegin, RejectBegin, MarkPaidBegin, PayBegin
<1>2. PICK is : Load(h, i, op, at, is) /\ SamePayment(is, row[i])
  BY <1>1, ChangedPayment DEF IInv, ShapeOK
<1>3. claimed' \subseteq Conversations
  BY <1>1 DEF TypesInv
<1>4. QED
  BY <1>2, <1>3, LoadTypes

LEMMA CallbacksTypes ==
    ASSUME IInv, TypesInv, NEW h \in Handlers, NEW c \in Conversations,
           ResultBegin(h, c) \/ TimeoutBegin(h, c)
    PROVE  TypesInv'
<1>1. claimed' \subseteq Conversations
  BY DEF ResultBegin, TimeoutBegin, TypesInv
<1>2. \/ \E i \in Disbursements, op \in Operations, s \in DisbursementStatus :
            Load(h, i, op, "ready", [row[i] EXCEPT !.status = s])
      \/ UNCHANGED <<today, onTime, late, row, req>>
  <2>1. /\ "result" \in Operations /\ "timeout" \in Operations /\ "FAILED" \in DisbursementStatus
        /\ Outcome(c) \in DisbursementStatus /\ RowsOf(c) \subseteq Disbursements
    BY DEF Operations, DisbursementStatus, Outcome, RowsOf
  <2>2. QED
    BY <2>1 DEF ResultBegin, TimeoutBegin, Rows, Books
<1>3. CASE UNCHANGED <<today, onTime, late, row, req>>
  BY <1>1, <1>3 DEF TypesInv
<1>4. ASSUME NEW i \in Disbursements, NEW op, NEW s,
             Load(h, i, op, "ready", [row[i] EXCEPT !.status = s])
      PROVE  TypesInv'
  <2> DEFINE is == [row[i] EXCEPT !.status = s]
  <2>1. Load(h, i, op, "ready", is) /\ SamePayment(is, row[i])
    BY <1>4, ChangedPayment DEF IInv, ShapeOK
  <2> HIDE DEF is
  <2>2. QED
    BY <1>1, <2>1, LoadTypes
<1>5. QED
  BY <1>2, <1>3, <1>4

LEMMA SendTypes ==
    ASSUME IInv, TypesInv, NEW h \in Handlers, Send(h)
    PROVE  TypesInv'
<1> DEFINE r == req[h]
<1>1. IsRequest(r) /\ PaymentOK(r.was) /\ PaymentOK(r.is)
  BY DEF IInv, ShapeOK, TypesInv
<1>2. /\ \A k \in Handlers \ {h} : req'[k] = req[k]
      /\ UNCHANGED <<today, onTime, late, row, claimed>>
  BY DEF Send, Rows, Books, IInv, ShapeOK
<1>3. req'[h].was = r.was /\ SamePayment(req'[h].is, r.is)
  <2>1. \/ \E c \in Conversations : req'[h] = Accepted(r, "PROCESSING", c)
        \/ req'[h] = Answered(r, "FAILED")
    BY DEF Send, Answered, Accepted, IInv, ShapeOK
  <2> HIDE DEF r
  <2>2. QED
    BY <1>1, <2>1, AnswerKeepsPayment DEF SameWork
<1>4. PaymentOK(req'[h].was) /\ PaymentOK(req'[h].is) /\ claimed' \subseteq Conversations
  BY <1>1, <1>2, <1>3, SamePaymentOK DEF TypesInv
<1>5. QED
  BY <1>2, <1>4, RequestTypes

LEMMA CommitTypes ==
    ASSUME IInv, TypesInv, NEW h \in Handlers, Commit(h)
    PROVE  TypesInv'
<1> DEFINE i == req[h].dsb
           was == req[h].was
           is == req[h].is
           now == row[i]
           f == FlushedRow(was, is, now)
<1>1. IsRow(is) /\ IsRow(was) /\ IsRow(now) /\ i \in Disbursements
  BY DEF Commit, IInv, ShapeOK, IsRequest, ServedOK, SessionOK
<1>2. PaymentOK(is) /\ PaymentOK(now)
  BY <1>1 DEF TypesInv
<1>3. PaymentOK(f)
  <2>1. \A k \in {"way", "from", "to", "net"} :
            f[k] = IF is[k] = was[k] THEN now[k] ELSE is[k]
    BY <1>1 DEF IsRow, FlushedRow
  <2>2. /\ f.way \in {is.way, now.way} /\ f.from \in {is.from, now.from}
        /\ f.to \in {is.to, now.to} /\ f.net \in {is.net, now.net}
    BY <2>1
  <2> HIDE DEF f, was, is, now
  <2>3. QED
    BY <1>2, <2>2 DEF PaymentOK
<1> HIDE DEF f
<1>4. /\ row' = [row EXCEPT ![i] = f] /\ req' = [req EXCEPT ![h] = Idle]
      /\ UNCHANGED <<today, onTime, late, claimed>>
  BY DEF Commit, Books, f
<1>5. /\ row'[i] = f /\ \A j \in Disbursements : j # i => row'[j] = row[j]
      /\ req'[h] = Idle /\ \A k \in Handlers \ {h} : req'[k] = req[k]
  BY <1>1, <1>4 DEF IInv, ShapeOK
<1>6. \A j \in Disbursements : PaymentOK(row'[j])
  BY <1>3, <1>5 DEF TypesInv
<1>7. \A k \in Handlers : PaymentOK(req'[k].was) /\ PaymentOK(req'[k].is)
  BY <1>5, NoPayment DEF TypesInv, Idle
<1>8. QED
  BY <1>4, <1>6, <1>7 DEF TypesInv, PaymentOK

LEMMA AbortTypes ==
    ASSUME IInv, TypesInv, NEW h \in Handlers, Abort(h)
    PROVE  TypesInv'
<1>1. /\ req'[h] = Idle /\ \A k \in Handlers \ {h} : req'[k] = req[k]
      /\ UNCHANGED <<today, onTime, late, row, claimed>>
  BY DEF Abort, Rows, Books, IInv, ShapeOK
<1>2. PaymentOK(req'[h].was) /\ PaymentOK(req'[h].is) /\ claimed' \subseteq Conversations
  BY <1>1, NoPayment DEF Idle, TypesInv
<1>3. QED
  BY <1>1, <1>2, RequestTypes

(* The books and the claims change while rows and requests stay. *)
LEMMA BooksTypes ==
    ASSUME TypesInv, UNCHANGED <<row, req>>,
           today' \in 1 .. LastDay + 1, claimed' \subseteq Conversations,
           onTime' \in [Days -> Nat], late' \in [Days -> Nat]
    PROVE  TypesInv'
BY DEF TypesInv, PaymentOK

LEMMA NextTypes ==
    ASSUME IInv, TypesInv, [Next]_vars
    PROVE  TypesInv'
<1>1. ASSUME NEW h \in Handlers, NEW i \in Disbursements,
             \/ CreateBegin(h, i) \/ MonthlyBegin(h, i) \/ DailyBegin(h, i)
             \/ ApproveBegin(h, i) \/ RejectBegin(h, i)
             \/ MarkPaidBegin(h, i) \/ PayBegin(h, i)
      PROVE  TypesInv'
  BY <1>1, InsertsTypes, LoadsTypes
<1>2. ASSUME NEW h \in Handlers, NEW c \in Conversations,
             ResultBegin(h, c) \/ TimeoutBegin(h, c)
      PROVE  TypesInv'
  BY <1>2, CallbacksTypes
<1>3. ASSUME NEW h \in Handlers, Send(h) \/ Commit(h) \/ Abort(h) PROVE TypesInv'
  BY <1>3, SendTypes, CommitTypes, AbortTypes
<1>4. ASSUME NEW d \in Days, NEW amount \in Takings, Earn(d, amount) PROVE TypesInv'
  <2>1. amount \in Nat /\ UNCHANGED <<row, req, today, claimed>>
    BY <1>4, MoneyAssumption DEF Earn, Rows
  <2>2. onTime' \in [Days -> Nat] /\ late' \in [Days -> Nat]
    BY <1>4, <2>1 DEF Earn, TypesInv
  <2>3. today' \in 1 .. LastDay + 1 /\ claimed' \subseteq Conversations
    BY <2>1 DEF TypesInv
  <2>4. QED
    BY <2>1, <2>2, <2>3, BooksTypes
<1>5. CASE NextDay
  <2>1. today' \in 1 .. LastDay + 1 /\ UNCHANGED <<row, req, onTime, late, claimed>>
    BY <1>5, DaysAssumption DEF NextDay, Rows, TypesInv
  <2>2. QED
    BY <2>1, BooksTypes DEF TypesInv
<1>6. ASSUME NEW c \in Conversations, DarajaSettles(c) \/ ClaimExpires(c) PROVE TypesInv'
  <2>1. claimed' \subseteq claimed /\ UNCHANGED <<row, req, today, onTime, late>>
    BY <1>6 DEF DarajaSettles, ClaimExpires, Rows, Books
  <2>2. QED
    BY <2>1, BooksTypes DEF TypesInv
<1>7. CASE UNCHANGED vars
  BY <1>7, BooksTypes DEF vars, TypesInv
<1>8. QED
  BY <1>1, <1>2, <1>3, <1>4, <1>5, <1>6, <1>7 DEF Next

LEMMA TypesFollow == IInv /\ TypesInv => TypeOK
<1> SUFFICES ASSUME IInv, TypesInv PROVE TypeOK
  OBVIOUS
<1>1. ASSUME NEW r, IsRow(r), PaymentOK(r) PROVE r \in DisbursementRow
  BY <1>1 DEF IsRow, PaymentOK, DisbursementRow
<1>2. row \in [Disbursements -> DisbursementRow]
  BY <1>1 DEF IInv, ShapeOK, TypesInv
<1>3. ASSUME NEW h \in Handlers PROVE req[h] \in Request
  <2>1. IsRequest(req[h]) /\ PaymentOK(req[h].was) /\ PaymentOK(req[h].is)
    BY DEF IInv, ShapeOK, TypesInv
  <2>2. req[h].was \in DisbursementRow /\ req[h].is \in DisbursementRow
    BY <1>1, <2>1 DEF IsRequest
  <2>3. QED
    BY <2>1, <2>2 DEF IsRequest, Request, Operations
<1>4. req \in [Handlers -> Request]
  BY <1>3 DEF IInv, ShapeOK
<1>5. QED
  BY <1>2, <1>4 DEF IInv, ShapeOK, TypesInv, TypeOK

(* disbursement_service.py: the days, the books, the rows, the requests and the payouts
   have their types, whatever overlaps: every row is for days under study and for an
   amount that is not negative. *)
THEOREM DisbursementsAreWellTyped == Spec => []TypeOK
<1> DEFINE Both == IInv /\ TypesInv
<1>1. Init => Both
  BY InitInvariant, InitTypes
<1>2. Both /\ [Next]_vars => Both'
  BY NextInvariant, NextTypes
<1>3. Both => TypeOK
  BY TypesFollow
<1>4. QED
  BY <1>1, <1>2, <1>3, PTL DEF Spec
==============================================================================
