---------------------------- MODULE Disbursements ----------------------------
(***************************************************************************)
(* How an agency pays a landlord (services/agency_service.py): a           *)
(* disbursement adds up what an owner earned over a period of days, is     *)
(* reviewed, and is paid over M-Pesa B2C or outside the platform.  It is   *)
(* created by an agency user, by the monthly run that prepares last        *)
(* month's for review, or by the daily run that settles the days since the *)
(* last one without a review (tasks/scheduled.py).                         *)
(*                                                                         *)
(* One owner with a phone number, in an agency with B2C credentials.  Days *)
(* are numbered from 1; the earnings of a day stand for the rent dated     *)
(* that day less fee and maintenance.  Requests are READ COMMITTED         *)
(* sessions, as in module Payments: load, await, flush and commit.         *)
(***************************************************************************)
EXTENDS Integers, FiniteSets, FiniteSetsExt, Sums

CONSTANTS
    Disbursements,  \* ids
    Conversations,  \* conversation ids Daraja can hand out
    Handlers,       \* requests and tasks that can run at a time
    Ways,           \* how disbursements come into being:
                    \* a subset of {"user", "monthly", "daily"}
    LastDay,        \* the days under study are 1 .. LastDay
    MonthLength,    \* days in a month
    Minimum,        \* OwnerProfile.auto_disburse_minimum
    Takings,        \* what a payment can add to a day's earnings
    Overlap,        \* may requests and tasks run at the same time?
    None

ASSUME IdsAssumption ==
    /\ Disbursements \subseteq Nat /\ Conversations \subseteq Nat
    /\ None \notin Disbursements \cup Conversations
ASSUME WaysAssumption == Ways \subseteq {"user", "monthly", "daily"}
ASSUME DaysAssumption == LastDay \in Nat \ {0} /\ MonthLength \in Nat \ {0}
ASSUME MoneyAssumption == Minimum \in Nat /\ Takings \subseteq Nat \ {0}
ASSUME OverlapAssumption == Overlap \in BOOLEAN

VARIABLES
    today,
    onTime,   \* onTime[d]: earnings dated d that were confirmed by the end of d
    late,     \* late[d]: earnings dated d that were confirmed later
    row,      \* the committed rows of table disbursements
    byHand,   \* the disbursements a user has declared paid by other means
    daraja,   \* Safaricom's side of each payout
    claimed,  \* conversations with a live mpesa:b2c:* key in Redis
    req       \* the request or task each handler is serving

vars == <<today, onTime, late, row, byHand, daraja, claimed, req>>

Days == 1 .. LastDay

-----------------------------------------------------------------------------
(* Rows and requests *)

DisbursementStatus ==
    {"PENDING", "APPROVED", "REJECTED", "PROCESSING", "COMPLETED", "FAILED"}

(* "ABSENT": no row was committed under this id *)
DisbursementRow ==
    [status   : DisbursementStatus \cup {"ABSENT"},
     way      : {"user", "monthly", "daily"},
     from     : Days,
     to       : Days,
     net      : Nat,
     reviewed : BOOLEAN,                      \* approved_at is set
     conv     : Conversations \cup {None}]    \* payout_conversation_id

NoRow == [status |-> "ABSENT", way |-> "user", from |-> 1, to |-> 1, net |-> 0,
          reviewed |-> FALSE, conv |-> None]

Request ==
    [op  : {"none", "insert", "approve", "reject", "mark_paid", "pay", "result",
            "timeout"},
     at  : {"idle", "loaded", "ready"},
     dsb : Disbursements \cup {None},
     was : DisbursementRow,    \* the row as loaded
     is  : DisbursementRow]    \* the row in the session

Idle == [op |-> "none", at |-> "idle", dsb |-> None, was |-> NoRow, is |-> NoRow]

(* of: the disbursement the payout was sent for; known: a commit stored the
   conversation id in its row *)
Payout == [state : {"unused", "sent", "paid", "failed", "dropped"},
           of : Disbursements \cup {None}, known : BOOLEAN]

(* The types: proved of every state (DisbursementsAreWellTyped in
   DisbursementsProofs). *)
TypeOK ==
    /\ today \in 1 .. LastDay + 1
    /\ onTime \in [Days -> Nat] /\ late \in [Days -> Nat]
    /\ row \in [Disbursements -> DisbursementRow]
    /\ byHand \subseteq Disbursements
    /\ daraja \in [Conversations -> Payout]
    /\ claimed \subseteq Conversations
    /\ req \in [Handlers -> Request]

Init ==
    /\ today = 1
    /\ onTime = [d \in Days |-> 0] /\ late = [d \in Days |-> 0]
    /\ row = [i \in Disbursements |-> NoRow]
    /\ byHand = {}
    /\ daraja = [c \in Conversations |->
                    [state |-> "unused", of |-> None, known |-> FALSE]]
    /\ claimed = {}
    /\ req = [h \in Handlers |-> Idle]

MayStart(h) ==
    /\ req[h].at = "idle"
    /\ Overlap \/ \A g \in Handlers : req[g].at = "idle"

(* Ids are random and only compared for equality, so the model hands out the
   least one that no row and no request has. *)
Unused(i) == row[i].status = "ABSENT" /\ \A h \in Handlers : req[h].dsb # i

Fresh(i) == Unused(i) /\ \A j \in Disbursements : Unused(j) => i <= j

Books == <<today, onTime, late>>
Rows == <<row, byHand>>

-----------------------------------------------------------------------------
(* What an owner earned *)

(* calculate_for_profile, over the payments confirmed so far *)
Net(from, to) ==
    SumOver([d \in Days |-> onTime[d] + late[d]], Days \cap from .. to)

(* the day of the owner's first confirmed rent, or yesterday *)
EarliestRent(yesterday) ==
    LET dated == {d \in Days : onTime[d] + late[d] > 0}
    IN  IF dated = {} THEN yesterday ELSE Min(dated)

LastEndOfCompleted ==   \* mutant: only what was paid counts as settled
    {row[i].to : i \in {j \in Disbursements : row[j].status = "COMPLETED"}}

(* the period ends of everything not rejected, whatever became of the payout *)
SettledEnds ==
    {row[i].to :
        i \in {j \in Disbursements : row[j].status \notin {"ABSENT", "REJECTED"}}}

WindowOfOneDay ==   \* mutant: without a prior disbursement, yesterday alone
    [from |-> IF SettledEnds # {} THEN Max(SettledEnds) + 1 ELSE today - 1,
     to   |-> today - 1]

WindowToToday ==   \* mutant: the window includes today
    [from |-> IF SettledEnds # {} THEN Max(SettledEnds) + 1 ELSE EarliestRent(today),
     to   |-> today]

(* next_auto_period *)
Window ==
    [from |-> IF SettledEnds # {} THEN Max(SettledEnds) + 1 ELSE EarliestRent(today - 1),
     to   |-> today - 1]

-----------------------------------------------------------------------------
(* New disbursements *)

NewRow(way, from, to) ==
    [NoRow EXCEPT !.way = way, !.from = from, !.to = to, !.net = Net(from, to),
                  !.status = IF way = "daily" THEN "APPROVED" ELSE "PENDING",
                  !.reviewed = way = "daily"]

Insert(h, i, at, new) ==
    /\ MayStart(h)
    /\ Fresh(i)
    /\ req' = [req EXCEPT ![h] = [op |-> "insert", at |-> at, dsb |-> i,
                                  was |-> NoRow, is |-> new]]
    /\ UNCHANGED <<Books, Rows, daraja, claimed>>

(* create_disbursement: any period the user asks for *)
CreateBegin(h, i) ==
    /\ "user" \in Ways
    /\ \E from, to \in Days : from <= to /\ Insert(h, i, "ready", NewRow("user", from, to))

(* process_scheduled_disbursements, once a month: the whole month before, unless
   a disbursement starts on its first day *)
MonthlyBegin(h, i) ==
    LET start == today - MonthLength
    IN  /\ "monthly" \in Ways
        /\ start > 0 /\ (today - 1) % MonthLength = 0
        /\ \A j \in Disbursements : row[j].status # "ABSENT" => row[j].from # start
        /\ Insert(h, i, "ready", NewRow("monthly", start, today - 1))

(* process_daily_disbursements, auto_settle_owner: approved as it is inserted
   and paid in the same session.  What lies before day 1 is settled. *)
DailyBegin(h, i) ==
    /\ "daily" \in Ways
    /\ Window.from \in 1 .. Window.to
    /\ Net(Window.from, Window.to) >= Minimum
    /\ Insert(h, i, "loaded", NewRow("daily", Window.from, Window.to))

-----------------------------------------------------------------------------
(* Review and payment *)

(* a request that loads row i and has is(row) in its session *)
Load(h, i, op, at, is) ==
    /\ MayStart(h)
    /\ req' = [req EXCEPT ![h] = [op |-> op, at |-> at, dsb |-> i,
                                  was |-> row[i], is |-> is]]
    /\ UNCHANGED <<Books, Rows, daraja>>

ApproveBegin(h, i) ==
    /\ row[i].status = "PENDING"
    /\ row[i].net > 0
    /\ Load(h, i, "approve", "ready",
            [row[i] EXCEPT !.status = "APPROVED", !.reviewed = TRUE])
    /\ UNCHANGED claimed

RejectBegin(h, i) ==
    /\ row[i].status = "PENDING"
    /\ Load(h, i, "reject", "ready",
            [row[i] EXCEPT !.status = "REJECTED", !.reviewed = TRUE])
    /\ UNCHANGED claimed

PayableUnreviewed == {"PENDING", "APPROVED", "FAILED"}    \* mutant
PayableInFlight == {"APPROVED", "PROCESSING", "FAILED"}   \* mutant

(* _PAYABLE *)
Payable == {"APPROVED", "FAILED"}

(* mark_disbursement_paid: the money has been paid outside the platform *)
MarkPaidBegin(h, i) ==
    /\ row[i].status \in Payable
    /\ Load(h, i, "mark_paid", "ready",
            [row[i] EXCEPT !.status = "COMPLETED"])
    /\ UNCHANGED claimed

(* initiate_mpesa_payout up to the call to Daraja *)
PayBegin(h, i) ==
    /\ row[i].status \in Payable
    /\ Load(h, i, "pay", "loaded", row[i])
    /\ UNCHANGED claimed

(* dispatch_mpesa_payout, the call to Daraja: it accepts the payout, or refuses
   it, as it does one of nothing *)
Send(h) ==
    LET i == req[h].dsb
        outcome(status) == [req[h] EXCEPT !.at = "ready", !.is.status = status]
    IN  /\ req[h].at = "loaded"
        /\ \/ \E c \in Conversations :
                /\ req[h].is.net > 0
                /\ daraja[c].state = "unused"
                /\ \A e \in Conversations : daraja[e].state = "unused" => c <= e
                /\ daraja' = [daraja EXCEPT ![c].state = "sent", ![c].of = i]
                /\ req' = [req EXCEPT ![h] = [outcome("PROCESSING") EXCEPT !.is.conv = c]]
           \/ /\ req' = [req EXCEPT ![h] = outcome("FAILED")]
              /\ UNCHANGED daraja
        /\ UNCHANGED <<Books, Rows, claimed>>

(* the row a callback about conversation c finds *)
RowsOf(c) == {i \in Disbursements : row[i].status # "ABSENT" /\ row[i].conv = c}

OutcomeIgnored(c) == "COMPLETED"    \* mutant: the result code is not looked at

(* _settle_payout, for a B2C result *)
Outcome(c) == IF daraja[c].state = "paid" THEN "COMPLETED" ELSE "FAILED"

AwaitsEvenIfCompleted(i) == TRUE   \* mutant: no early return

AwaitsResult(i) == row[i].status # "COMPLETED"

(* claim_b2c_result and handle_b2c_result.  A delivery that finds no row, or a
   completed one, returns and keeps its claim. *)
ResultBegin(h, c) ==
    /\ daraja[c].state \in {"paid", "failed"}
    /\ c \notin claimed
    /\ claimed' = claimed \cup {c}
    /\ \/ \E i \in RowsOf(c) :
            /\ AwaitsResult(i)
            /\ Load(h, i, "result", "ready",
                    [row[i] EXCEPT !.status = Outcome(c)])
       \/ /\ \A i \in RowsOf(c) : ~AwaitsResult(i)
          /\ MayStart(h)
          /\ UNCHANGED <<Books, Rows, daraja, req>>

(* fail_pending_payout: the payout never reached the payment engine *)
TimeoutBegin(h, c) ==
    /\ daraja[c].state = "dropped"
    /\ \E i \in RowsOf(c) :
        /\ row[i].status = "PROCESSING"
        /\ Load(h, i, "timeout", "ready", [row[i] EXCEPT !.status = "FAILED"])
    /\ UNCHANGED claimed

-----------------------------------------------------------------------------
(* The commit of a request, or its end without one *)

(* the columns the session changed are written over the row as it is now *)
FlushedRow(was, is, now) ==
    [k \in DOMAIN now |-> IF is[k] = was[k] THEN now[k] ELSE is[k]]

Commit(h) ==
    LET i == req[h].dsb
        c == req[h].is.conv
    IN  /\ req[h].at = "ready"
        /\ row' = [row EXCEPT ![i] = FlushedRow(req[h].was, req[h].is, @)]
        /\ daraja' = IF c = None THEN daraja ELSE [daraja EXCEPT ![c].known = TRUE]
        /\ byHand' = IF req[h].op = "mark_paid" THEN byHand \cup {i} ELSE byHand
        /\ req' = [req EXCEPT ![h] = Idle]
        /\ UNCHANGED <<Books, claimed>>

(* The process dies, or Daraja's answer is lost: nothing is committed.  A payout
   that was sent stays sent; with a daily run, the disbursement it was sent for
   is gone. *)
Abort(h) ==
    LET c == req[h].is.conv
    IN  /\ req[h].at # "idle"
        /\ req' = [req EXCEPT ![h] = Idle]
        /\ daraja' = IF req[h].op = "insert" /\ c # None
                     THEN [daraja EXCEPT ![c].of = None] ELSE daraja
        /\ UNCHANGED <<Books, Rows, claimed>>

-----------------------------------------------------------------------------
(* The world outside *)

(* Rent is confirmed today, for today or, when it was held for approval or
   recorded late, for an earlier day.  At most once a day each. *)
Earn(d, amount) ==
    /\ today <= LastDay /\ d <= today
    /\ IF d = today
       THEN /\ onTime[d] = 0
            /\ onTime' = [onTime EXCEPT ![d] = amount] /\ UNCHANGED late
       ELSE /\ late[d] = 0
            /\ late' = [late EXCEPT ![d] = amount] /\ UNCHANGED onTime
    /\ UNCHANGED <<today, Rows, daraja, claimed, req>>

NextDay ==
    /\ today <= LastDay
    /\ today' = today + 1
    /\ UNCHANGED <<onTime, late, Rows, daraja, claimed, req>>

(* Safaricom moves the money, cannot, or drops the request from its queue *)
DarajaSettles(c) ==
    /\ daraja[c].state = "sent"
    /\ \E outcome \in {"paid", "failed", "dropped"} :
            daraja' = [daraja EXCEPT ![c].state = outcome]
    /\ UNCHANGED <<Books, Rows, claimed, req>>

(* the claim lives 300 seconds *)
ClaimExpires(c) ==
    /\ c \in claimed
    /\ \A h \in Handlers : req[h].op = "result" => req[h].is.conv # c
    /\ claimed' = claimed \ {c}
    /\ UNCHANGED <<Books, Rows, daraja, req>>

-----------------------------------------------------------------------------

Next ==
    \/ \E h \in Handlers :
        \/ \E i \in Disbursements :
            \/ CreateBegin(h, i) \/ MonthlyBegin(h, i) \/ DailyBegin(h, i)
            \/ ApproveBegin(h, i) \/ RejectBegin(h, i)
            \/ MarkPaidBegin(h, i) \/ PayBegin(h, i)
        \/ \E c \in Conversations : ResultBegin(h, c) \/ TimeoutBegin(h, c)
        \/ Send(h) \/ Commit(h) \/ Abort(h)
    \/ \E d \in Days, amount \in Takings : Earn(d, amount)
    \/ NextDay
    \/ \E c \in Conversations : DarajaSettles(c) \/ ClaimExpires(c)

Spec == Init /\ [][Next]_vars

(* Days pass, every request ends, and the daily run is started every morning; now
   and then it gets through without dying.  Nothing is assumed of users, of rent
   or of what Safaricom makes of a payout. *)
Fairness ==
    /\ WF_vars(NextDay)
    /\ SF_vars(\E h \in Handlers, i \in Disbursements : DailyBegin(h, i))
    /\ \A h \in Handlers :
        /\ SF_vars(req[h].op = "insert" /\ Send(h))
        /\ SF_vars(req[h].op = "insert" /\ Commit(h))
        /\ WF_vars(Send(h) \/ Commit(h) \/ Abort(h))

FairSpec == Spec /\ Fairness

-----------------------------------------------------------------------------
(* Properties, however requests overlap *)

(* Money leaves for a disbursement only after somebody reviewed it, or under the
   standing approval of the daily run (agency_service.py: nothing can be paid
   until the numbers are signed off). *)
MoneyLeavesAfterReview ==
    \A i \in Disbursements :
        /\ row[i].status # "ABSENT"
        /\ \/ row[i].status \in {"APPROVED", "PROCESSING", "COMPLETED", "FAILED"}
           \/ \E c \in Conversations : daraja[c].of = i
        => row[i].reviewed

(* A disbursement the owner has a statement for was paid: by hand, or by a
   payout that Safaricom did carry out. *)
CompletedMeansMoneyMoved ==
    \A i \in Disbursements :
        row[i].status = "COMPLETED" =>
            \/ i \in byHand
            \/ \E c \in Conversations : daraja[c].of = i /\ daraja[c].state = "paid"

(* A completed disbursement is reopened only by a request that had loaded it
   before it was completed: late and repeated callbacks leave it alone. *)
OnlyStaleWritersReopen ==
    [][\A i \in Disbursements :
        row[i].status = "COMPLETED" /\ row'[i].status # "COMPLETED" =>
            \E h \in Handlers : req[h].dsb = i /\ req[h].was.status # "COMPLETED"]_vars

-----------------------------------------------------------------------------
(* Properties of requests that do not overlap *)

(* A disbursement is paid once: through failures, time-outs, retries, payments by
   hand and repeated results, unless a payout was sent whose answer was lost
   before its conversation id was stored. *)
PaidOnceUnlessLost ==
    \A i \in Disbursements :
        LET paid == {c \in Conversations : /\ daraja[c].of = i
                                           /\ daraja[c].known
                                           /\ daraja[c].state = "paid"}
        IN  Cardinality(paid) + (IF i \in byHand THEN 1 ELSE 0) <= 1

Standing == {i \in Disbursements : row[i].status \notin {"ABSENT", "REJECTED"}}

(* Under daily settlement no day is settled twice and no day is skipped
   (next_auto_period; tests/test_daily_disbursement.py). *)
EveryDaySettledOnce ==
    /\ \A i, j \in Standing : i # j => row[i].to < row[j].from \/ row[j].to < row[i].from
    /\ \A i, j \in Standing : \A d \in row[i].from .. row[j].to :
            \E k \in Standing : d \in row[k].from .. row[k].to

(* What a daily settlement sends contains all the rent of its days that was
   confirmed on the day, and nothing the owner did not earn. *)
OnTimeRentIsSent ==
    \A i \in Standing :
        row[i].way = "daily" =>
            /\ row[i].net >= SumOver(onTime, Days \cap row[i].from .. row[i].to)
            /\ row[i].net <= Net(row[i].from, row[i].to)

(* A day on which an owner earned enough is settled in the end, whatever runs
   failed or died in between. *)
EarningsAreSettled ==
    \A d \in Days :
        onTime[d] > 0 /\ onTime[d] >= Minimum
        ~> \E i \in Standing : d \in row[i].from .. row[i].to

-----------------------------------------------------------------------------
(* A statement of the repository that the code does not keep *)

(* tasks/scheduled.py, process_daily_disbursements: a failure leaves a FAILED
   disbursement behind whose period is retried by tomorrow's pass rather than
   being lost.  So a pass that starts while one is FAILED covers its period. *)
FailedPeriodIsRetried ==
    [][\A h \in Handlers, j \in Disbursements :
        /\ req[h].at = "idle" /\ req'[h].op = "insert" /\ req'[h].is.way = "daily"
        /\ row[j].way = "daily" /\ row[j].status = "FAILED"
        => req'[h].is.from <= row[j].from]_vars
=============================================================================
