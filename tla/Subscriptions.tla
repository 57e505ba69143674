---------------------------- MODULE Subscriptions ----------------------------
(***************************************************************************)
(* How an organisation pays for RentFlow (services/subscription_service.py *)
(* and paystack_service.py).  A checkout raises an invoice and opens a     *)
(* page at Paystack, where the customer pays and leaves a card behind; the *)
(* nightly biller charges that card when a period is over; Paystack        *)
(* reports charges to a webhook.  Failed charges start dunning, at the end *)
(* of which the organisation becomes read-only.                            *)
(*                                                                         *)
(* One organisation.  A plan stands for a plan with its billing interval,  *)
(* which fix the price.  Requests are READ COMMITTED sessions, as in       *)
(* module Payments; a session can hold the subscription, one invoice and   *)
(* the organisation.                                                       *)
(***************************************************************************)
EXTENDS Integers, FiniteSets

CONSTANTS
    Plans,        \* the plans that can be bought
    Length,       \* Length[p]: days in a period of plan p
    Pages,        \* ids of the invoices raised by checkouts
    Renewals,     \* ids of the invoices raised by the biller
    MaxTries,     \* bound on the charges of an invoice after its page
    MaxRefusals,  \* bound on the failures that webhooks count on an invoice
    Handlers,     \* requests and tasks that can run at a time
    GraceDays,    \* GRACE_DAYS
    MaxAttempts,  \* MAX_ATTEMPTS
    LastDay,      \* the days under study are 1 .. LastDay
    Overlap,      \* may requests and tasks run at the same time?
    None

ASSUME IdsAssumption ==
    /\ Pages \subseteq Nat /\ Renewals \subseteq Nat /\ Pages \cap Renewals = {}
    /\ None \notin Pages \cup Renewals \cup Plans \cup 0 .. MaxTries
ASSUME PlansAssumption == Length \in [Plans -> Nat \ {0}]
ASSUME BoundsAssumption ==
    {MaxTries, MaxRefusals, GraceDays, MaxAttempts, LastDay} \subseteq Nat /\ LastDay > 0
ASSUME OverlapAssumption == Overlap \in BOOLEAN

VARIABLES
    today,
    sub,       \* the committed row of table subscriptions
    inv,       \* the committed rows of table subscription_invoices
    org,       \* what the organisation's row says of its subscription
    paystack,  \* Paystack's side: paystack[i][k] is the charge with reference k of i
    req        \* the request or task each handler is serving

vars == <<today, sub, inv, org, paystack, req>>
Rows == <<sub, inv, org>>

Invoices == Pages \cup Renewals

(* rentflow-sub-<invoice> is reference 0, the page; rentflow-sub-<invoice>-<k>
   is reference k, an attempt of the biller *)
References == 0 .. MaxTries

-----------------------------------------------------------------------------
(* Rows and requests *)

SubscriptionStatus == {"ACTIVE", "PAST_DUE", "LAPSED", "CANCELLED"}

(* "ABSENT": no row was committed.  The current period is the one before next. *)
SubRow ==
    [status : SubscriptionStatus \cup {"ABSENT"},
     plan   : Plans \cup {None},
     next   : Nat,       \* next_billing_date
     card   : BOOLEAN,   \* has_saved_card
     failed : Nat,       \* failed_attempts
     grace  : Nat]       \* grace_ends_at; 0 is NULL

NoSub == [status |-> "ABSENT", plan |-> None, next |-> 0, card |-> FALSE,
          failed |-> 0, grace |-> 0]

(* the amount is the price of plan, period_end follows from period_start *)
InvRow ==
    [status   : {"ABSENT", "PENDING", "PAID", "FAILED"},
     plan     : Plans \cup {None},
     start    : Nat,                        \* period_start
     ref      : References \cup {None},     \* paystack_reference
     attempts : Nat]

NoInv == [status |-> "ABSENT", plan |-> None, start |-> 0, ref |-> None, attempts |-> 0]

(* plan None: on trial; locked: subscription_lapsed_at is set *)
OrgRow == [plan : Plans \cup {None}, locked : BOOLEAN]

OnTrial == [plan |-> None, locked |-> FALSE]

Session == [sub : SubRow, inv : InvRow, org : OrgRow]

Empty == [sub |-> NoSub, inv |-> NoInv, org |-> OnTrial]

Request ==
    [op  : {"none", "checkout", "cancel", "bill", "webhook"},
     at  : {"idle", "loaded", "asked", "refused", "ready"},
     inv : Invoices \cup {None},
     was : Session,    \* the rows as loaded
     is  : Session]    \* the rows in the session

Idle == [op |-> "none", at |-> "idle", inv |-> None, was |-> Empty, is |-> Empty]

TypeOK ==
    /\ today \in 1 .. LastDay
    /\ sub \in SubRow /\ sub.grace <= LastDay + GraceDays
    /\ inv \in [Invoices -> InvRow]
    /\ org \in OrgRow
    /\ paystack \in [Invoices -> [References -> {"unused", "open", "success", "failed"}]]
    /\ req \in [Handlers -> Request]

Init ==
    /\ today = 1
    /\ sub = NoSub
    /\ inv = [i \in Invoices |-> NoInv]
    /\ org = OnTrial
    /\ paystack = [i \in Invoices |-> [k \in References |-> "unused"]]
    /\ req = [h \in Handlers |-> Idle]

MayStart(h) ==
    /\ req[h].at = "idle"
    /\ Overlap \/ \A g \in Handlers : req[g].at = "idle"

(* a request with these rows in its session *)
Starts(h, op, at, i, was, is) ==
    /\ MayStart(h)
    /\ req' = [req EXCEPT ![h] =
                 [op |-> op, at |-> at, inv |-> i, was |-> was, is |-> is]]
    /\ UNCHANGED <<today, Rows, paystack>>

(* Ids are random and only compared for equality, so the model hands out the
   least one of its kind that no row and no request has. *)
Fresh(i, ids) ==
    LET unused == {j \in ids : /\ inv[j].status = "ABSENT"
                               /\ \A h \in Handlers : req[h].inv # j}
    IN  i \in unused /\ \A j \in unused : i <= j

-----------------------------------------------------------------------------
(* What a charge does to the rows of a session *)

PeriodFromToday(row) == today + Length[row.plan]   \* mutant: paying starts the period

(* the day after period_end *)
PeriodEnd(row) == row.start + Length[row.plan]

(* mark_paid; keeps: the webhook carried a card that can be charged again *)
MarkedPaid(rows, keeps) ==
    [sub |-> [rows.sub EXCEPT !.status = "ACTIVE", !.failed = 0, !.grace = 0,
                              !.next = PeriodEnd(rows.inv), !.card = @ \/ keeps],
     inv |-> [rows.inv EXCEPT !.status = "PAID"],
     org |-> [plan |-> rows.sub.plan, locked |-> FALSE]]

OutOfRoadAtOnce(failed, grace) ==   \* mutant: grace is not waited for
    failed >= MaxAttempts \/ today >= grace - GraceDays

(* out_of_road *)
OutOfRoad(failed, grace) == failed >= MaxAttempts \/ today > grace

GraceEnd(row) == IF row.grace = 0 THEN today + GraceDays ELSE row.grace

DunnedForgetsLock(rows) ==   \* mutant: a lapse without _lock_account
    LET failed == rows.sub.failed + 1
        grace == GraceEnd(rows.sub)
        lapses == OutOfRoad(failed, grace)
    IN  [rows EXCEPT
            !.sub.failed = failed, !.sub.grace = grace,
            !.sub.status = IF lapses THEN "LAPSED" ELSE "PAST_DUE"]

(* mark_failed_without_invoice *)
Dunned(rows) ==
    LET failed == rows.sub.failed + 1
        grace == GraceEnd(rows.sub)
        lapses == OutOfRoad(failed, grace)
    IN  [rows EXCEPT
            !.sub.failed = failed, !.sub.grace = grace,
            !.sub.status = IF lapses THEN "LAPSED" ELSE "PAST_DUE",
            !.org.locked = @ \/ lapses]

(* mark_failed *)
MarkedFailed(rows) ==
    [Dunned(rows) EXCEPT !.inv.status = "FAILED", !.inv.attempts = @ + 1]

(* the rows in h's session when it has loaded the organisation, which it does when
   Paystack has answered *)
Loaded(h) == [req[h].is EXCEPT !.org = org]

Answered(h, rows) ==
    /\ req' = [req EXCEPT ![h].at = "ready", ![h].was.org = org, ![h].is = rows]
    /\ UNCHANGED <<today, Rows, paystack>>

-----------------------------------------------------------------------------
(* The customer: checkout and cancel *)

(* start_checkout up to its first flush *)
CheckoutBegin(h, i, plan) ==
    /\ Fresh(i, Pages)
    /\ Starts(h, "checkout", "loaded", i,
              [Empty EXCEPT !.sub = sub],
              [sub |-> IF sub.status = "ABSENT"
                       THEN [NoSub EXCEPT !.status = "PAST_DUE", !.plan = plan,
                                          !.next = today]
                       ELSE [sub EXCEPT !.plan = plan],
               inv |-> [NoInv EXCEPT !.status = "PENDING", !.plan = plan,
                                     !.start = today],
               org |-> OnTrial])

(* g has flushed a change of the subscription and holds the lock on its row *)
Holds(g) ==
    req[g].op = "checkout" /\ req[g].at = "ready" /\ req[g].was.sub # req[g].is.sub

MayFlush(h) ==
    req[h].was.sub # req[h].is.sub => \A g \in Handlers \ {h} : ~Holds(g)

(* uq_subscription_per_org *)
InsertsFirst(h) == req[h].was.sub.status = "ABSENT" => sub.status = "ABSENT"

(* start_checkout: the flush, then the call to Paystack, which opens a page or
   fails; either way the rows are committed *)
CheckoutAsk(h) ==
    LET i == req[h].inv
    IN  /\ req[h].op = "checkout" /\ req[h].at = "loaded"
        /\ MayFlush(h) /\ InsertsFirst(h)
        /\ \/ /\ paystack' = [paystack EXCEPT ![i][0] = "open"]
              /\ req' = [req EXCEPT ![h].at = "ready", ![h].is.inv.ref = 0]
           \/ /\ req' = [req EXCEPT ![h].at = "ready", ![h].is.inv.status = "FAILED"]
              /\ UNCHANGED paystack
        /\ UNCHANGED <<today, Rows>>

(* cancel *)
CancelBegin(h) ==
    /\ sub.status # "ABSENT"
    /\ Starts(h, "cancel", "ready", None, [Empty EXCEPT !.sub = sub],
              [Empty EXCEPT !.sub = [sub EXCEPT !.status = "CANCELLED"]])

-----------------------------------------------------------------------------
(* The nightly biller *)

DueOnlyOnce == sub.status = "ACTIVE" /\ sub.next <= today   \* mutant: no retry

(* the scan of charge_due_subscriptions *)
Due == sub.status \in {"ACTIVE", "PAST_DUE"} /\ sub.next <= today

BillBegin(h) ==
    /\ Due
    /\ Starts(h, "bill", "loaded", None,
              [Empty EXCEPT !.sub = sub], [Empty EXCEPT !.sub = sub])

(* charge_due_subscription without a card to charge *)
BillNoCard(h) ==
    /\ req[h].op = "bill" /\ req[h].at = "loaded" /\ ~req[h].is.sub.card
    /\ Answered(h, Dunned(Loaded(h)))

ReusableWhilePending(start) ==   \* mutant: a failed invoice is not found again
    {i \in Invoices : inv[i].status = "PENDING" /\ inv[i].start = start}

ReusableEvenIfPaid(start) ==     \* mutant: the period's invoice, paid or not
    {i \in Invoices : inv[i].status # "ABSENT" /\ inv[i].start = start}

(* the unpaid invoices of the period that starts then *)
Reusable(start) ==
    {i \in Invoices : inv[i].status \in {"PENDING", "FAILED"} /\ inv[i].start = start}

(* charge_due_subscription: the invoice to charge, under a new reference.  The
   charge succeeds, fails or stays open at Paystack, or it is not made: Paystack
   cannot be reached, or has seen the reference before. *)
BillCharge(h) ==
    LET row == req[h].is.sub
        found == Reusable(row.next)
        raised == [NoInv EXCEPT !.status = "PENDING", !.plan = row.plan,
                                !.start = row.next]
    IN  /\ req[h].op = "bill" /\ req[h].at = "loaded" /\ row.card
        /\ \E i \in Invoices :
            LET now == IF found = {} THEN raised ELSE inv[i]
                k == now.attempts + 1
                charges(at) ==
                    req' = [req EXCEPT ![h].at = at, ![h].inv = i,
                                       ![h].was.inv = inv[i],
                                       ![h].is.inv = [now EXCEPT !.ref = k]]
            IN  /\ IF found = {} THEN Fresh(i, Renewals) ELSE i \in found
                /\ k <= MaxTries
                /\ \/ /\ paystack[i][k] = "unused"
                      /\ \E outcome \in {"success", "failed", "open"} :
                            paystack' = [paystack EXCEPT ![i][k] = outcome]
                      /\ charges("asked")
                   \/ charges("refused") /\ UNCHANGED paystack
        /\ UNCHANGED <<today, Rows>>

SucceededOpen(i, k) == paystack[i][k] # "failed"   \* mutant: anything but a failure

(* ChargeResult.success *)
Succeeded(i, k) == paystack[i][k] = "success"

(* The answer to the charge; it may also be lost, which counts as a failure. *)
BillAnswer(h) ==
    LET i == req[h].inv
        k == req[h].is.inv.ref
    IN  /\ req[h].op = "bill"
        /\ \/ req[h].at = "asked" /\ Succeeded(i, k) /\ Answered(h, MarkedPaid(Loaded(h), FALSE))
           \/ req[h].at \in {"asked", "refused"} /\ Answered(h, MarkedFailed(Loaded(h)))

-----------------------------------------------------------------------------
(* The webhook *)

(* claim_webhook: one delivery per reference at a time.  The claim lives 300
   seconds, longer than any request. *)
Claimed(i, k) ==
    \E h \in Handlers :
        req[h].op = "webhook" /\ req[h].inv = i /\ req[h].was.inv.ref = k

AwaitsEvenIfPaid(i) == inv[i].status # "ABSENT"   \* mutant: no early return

Awaits(i) == inv[i].status \in {"PENDING", "FAILED"}

(* paystack_webhook and handle_charge up to the call to Paystack.  A delivery
   for a reference no invoice has any more, or for a paid invoice, changes
   nothing. *)
WebhookBegin(h, i, k) ==
    /\ inv[i].ref = k /\ paystack[i][k] \in {"success", "failed"}
    /\ ~Claimed(i, k)
    /\ Awaits(i)
    /\ paystack[i][k] = "failed" => inv[i].attempts < MaxRefusals
    /\ LET rows == [Empty EXCEPT !.sub = sub, !.inv = inv[i]]
       IN  Starts(h, "webhook", "loaded", i, rows, rows)

(* handle_charge: what verify_transaction says decides, not the delivery.  A
   call to Paystack that fails ends the request (Abort). *)
WebhookVerify(h) ==
    LET i == req[h].inv
        k == req[h].is.inv.ref
    IN  /\ req[h].op = "webhook" /\ req[h].at = "loaded"
        /\ IF Succeeded(i, k)
           THEN \E keeps \in BOOLEAN : Answered(h, MarkedPaid(Loaded(h), keeps))
           ELSE Answered(h, MarkedFailed(Loaded(h)))

-----------------------------------------------------------------------------
(* The commit of a request, or its end without one *)

(* the columns the session changed are written over the row as it is now *)
Flushed(was, is, now) ==
    [c \in DOMAIN now |-> IF is[c] = was[c] THEN now[c] ELSE is[c]]

Commit(h) ==
    LET r == req[h]
    IN  /\ r.at = "ready"
        /\ MayFlush(h)
        /\ sub' = Flushed(r.was.sub, r.is.sub, sub)
        /\ inv' = IF r.inv = None THEN inv
                  ELSE [inv EXCEPT ![r.inv] = Flushed(r.was.inv, r.is.inv, @)]
        /\ org' = Flushed(r.was.org, r.is.org, org)
        /\ req' = [req EXCEPT ![h] = Idle]
        /\ UNCHANGED <<today, paystack>>

(* The process dies, or an exception ends the request: nothing is committed.  A
   charge for an invoice that was never committed is of no more concern to the
   program: no webhook will find it. *)
Abort(h) ==
    LET r == req[h]
    IN  /\ r.at # "idle"
        /\ req' = [req EXCEPT ![h] = Idle]
        /\ paystack' = IF r.inv # None /\ r.was.inv.status = "ABSENT"
                       THEN [paystack EXCEPT ![r.inv] = [k \in References |-> "unused"]]
                       ELSE paystack
        /\ UNCHANGED <<today, Rows>>

-----------------------------------------------------------------------------
(* The world outside *)

(* A charge that is open ends; on a page, the customer can try another card. *)
PaystackSettles(i, k) ==
    /\ paystack[i][k] = "open" \/ (paystack[i][k] = "failed" /\ k = 0)
    /\ \E outcome \in {"success", "failed"} \ {paystack[i][k]} :
            paystack' = [paystack EXCEPT ![i][k] = outcome]
    /\ UNCHANGED <<today, Rows, req>>

NextDay ==
    /\ today < LastDay
    /\ today' = today + 1
    /\ UNCHANGED <<Rows, paystack, req>>

-----------------------------------------------------------------------------

Next ==
    \/ \E h \in Handlers :
        \/ \E i \in Pages, plan \in Plans : CheckoutBegin(h, i, plan)
        \/ CheckoutAsk(h) \/ CancelBegin(h)
        \/ BillBegin(h) \/ BillNoCard(h) \/ BillCharge(h) \/ BillAnswer(h)
        \/ \E i \in Invoices, k \in References : WebhookBegin(h, i, k)
        \/ WebhookVerify(h)
        \/ Commit(h) \/ Abort(h)
    \/ \E i \in Invoices, k \in References : PaystackSettles(i, k)
    \/ NextDay

Spec == Init /\ [][Next]_vars

(* Every request ends; the biller is started every morning, and now and then it
   gets through without dying.  Nothing is assumed of the customer, of Paystack or
   of its deliveries. *)
Fairness ==
    \A h \in Handlers :
        /\ WF_vars(req[h].at # "idle" /\ (CheckoutAsk(h) \/ Commit(h) \/ Abort(h)))
        /\ SF_vars(BillBegin(h))
        /\ SF_vars(BillNoCard(h) \/ BillCharge(h))
        /\ SF_vars(BillAnswer(h))
        /\ SF_vars(req[h].op = "bill" /\ Commit(h))

FairSpec == Spec /\ Fairness

-----------------------------------------------------------------------------
(* Properties, however requests overlap *)

HasSuccess(i) == \E k \in References : paystack[i][k] = "success"

(* An invoice is PAID, and an organisation on a plan with a card to charge, only
   after Paystack collected money for it: what banks the money is the charge, not
   a delivery that says so (handle_charge, charge_due_subscription). *)
PaidMeansCharged ==
    /\ \A i \in Invoices : inv[i].status = "PAID" => HasSuccess(i)
    /\ org.plan # None \/ sub.card => \E i \in Invoices : HasSuccess(i)

(* A paid invoice is called unpaid again only by a request that had loaded it
   before it was paid: neither the biller nor a repeated webhook takes up an
   invoice it finds paid. *)
OnlyStaleWritersUnpay ==
    [][\A i \in Invoices :
        inv[i].status = "PAID" /\ inv'[i].status # "PAID" =>
            \E h \in Handlers : req[h].inv = i /\ req[h].was.inv.status # "PAID"]_vars

-----------------------------------------------------------------------------
(* Properties of requests that do not overlap *)

(* The lock on the organisation follows the subscription: lapsing sets it, in the
   same commit, and only a subscription that lapsed, and may have been cancelled
   since, is behind it.  A payment restores writing in the same breath.  And a
   subscription lapses after all its attempts have failed or its grace is over:
   no checkout, cancellation or late delivery makes it look otherwise. *)
LockFollowsLapse ==
    /\ sub.status = "LAPSED" => org.locked
    /\ org.locked => sub.status \in {"LAPSED", "CANCELLED"}
    /\ sub.status = "LAPSED" => sub.failed >= MaxAttempts \/ today > sub.grace

(* Retries bill one month, not three: the biller never has two unpaid invoices of
   its own for the same period, and the next billing date is the day after a
   period that was paid for. *)
PeriodsFollowOn ==
    /\ \A i, j \in Renewals :
        i # j /\ {inv[i].status, inv[j].status} \subseteq {"PENDING", "FAILED"}
            => inv[i].start # inv[j].start
    /\ org.plan # None =>
        \E i \in Invoices : /\ inv[i].status = "PAID"
                            /\ sub.next = inv[i].start + Length[inv[i].plan]

(* The billing date moves only when an unpaid invoice is paid: a repeated delivery
   about an old invoice takes the subscription nowhere. *)
OldMoneyMovesNothing ==
    [][sub.status # "ABSENT" /\ sub'.next # sub.next =>
        \E i \in Invoices : inv[i].status # "PAID" /\ inv'[i].status = "PAID"]_vars

(* A renewal that is due is settled: the card is charged, or dunning ends in a
   lapse. *)
DueIsDecided ==
    LET due == sub.status \in {"ACTIVE", "PAST_DUE"} /\ sub.next <= today
    IN  due ~> ~due

-----------------------------------------------------------------------------
(* A statement of the repository that the code does not keep *)

(* subscription_service.py, start_checkout: a plan change takes effect when its
   charge succeeds, not before.  So the plan of the organisation is one that an
   invoice was paid for. *)
PlanIsPaidFor ==
    org.plan # None =>
        \E i \in Invoices : inv[i].status = "PAID" /\ inv[i].plan = org.plan
==============================================================================
