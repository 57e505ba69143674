-------------------------- MODULE SubscriptionsProofs --------------------------
(***************************************************************************)
(* What Subscriptions guarantees for every number of pages, renewals,      *)
(* plans, attempts and requests: its types and that nothing is paid or     *)
(* granted without a charge, however requests overlap; and, when they do   *)
(* not, how the lock, the periods and the billing date move.               *)
(***************************************************************************)
EXTENDS Subscriptions, TLAPS

GraceLimit == LastDay + GraceDays

(* a committed invoice that Paystack collected money for *)
SomeCharged == \E i \in Invoices : inv[i].status # "ABSENT" /\ HasSuccess(i)

(* The committed rows: what exists is of a plan, and nothing is paid, granted or
   remembered of a card without a charge. *)
RowsOK ==
    /\ sub.status = "ABSENT" => sub = NoSub
    /\ sub.status # "ABSENT" => sub.plan \in Plans
    /\ \A i \in Invoices : /\ inv[i].status = "ABSENT" => inv[i] = NoInv
                           /\ inv[i].status # "ABSENT" => /\ inv[i].plan \in Plans
                                                         /\ sub.status # "ABSENT"
                           /\ inv[i].status = "PAID" => HasSuccess(i)
    /\ org.plan # None \/ sub.card => SomeCharged

(* the subscription in a session *)
SubOK(h) ==
    /\ req[h].was.sub.status = "ABSENT" => req[h].was.sub = NoSub
    /\ req[h].was.sub.status # "ABSENT" => sub.status # "ABSENT"
    /\ req[h].is.sub.status # "ABSENT" /\ req[h].is.sub.plan \in Plans
    /\ req[h].is.sub.grace <= GraceLimit
    /\ req[h].is.sub.card \/ req[h].is.org.plan # None =>
        SomeCharged \/ req[h].is.inv.status = "PAID"

(* the invoice in a session: a new one is nobody else's *)
InvOK(h) ==
    /\ req[h].inv = None => req[h].is.inv = NoInv /\ req[h].was.inv = NoInv
    /\ req[h].inv # None =>
        /\ req[h].is.inv.status # "ABSENT" /\ req[h].is.inv.plan \in Plans
        /\ req[h].is.inv.status = "PAID" => HasSuccess(req[h].inv)
        /\ req[h].was.inv.status # "PAID"
        /\ req[h].was.inv.status = "ABSENT" =>
            /\ req[h].was.inv = NoInv
            /\ inv[req[h].inv].status = "ABSENT"
            /\ \A g \in Handlers \ {h} : req[g].inv # req[h].inv
        /\ req[h].was.inv.status # "ABSENT" => inv[req[h].inv].status # "ABSENT"

(* where each operation has got to *)
StageOK(h) ==
    /\ req[h].op \in {"checkout", "webhook"} \/ req[h].at \in {"asked", "refused"} =>
        req[h].inv # None
    /\ req[h].op = "webhook" \/ req[h].at = "asked" => req[h].is.inv.ref \in References
    /\ req[h].op = "checkout" => req[h].was.inv.status = "ABSENT"
    /\ req[h].op = "bill" /\ req[h].at = "loaded" => req[h].inv = None
    /\ req[h].at # "ready" => req[h].is.inv.status # "PAID"

ServedOK(h) ==
    /\ req[h].at = "idle" => req[h] = Idle
    /\ req[h].at # "idle" => req[h].op # "none" /\ SubOK(h) /\ InvOK(h) /\ StageOK(h)

IInv == TypeOK /\ RowsOK /\ \A h \in Handlers : ServedOK(h)

-----------------------------------------------------------------------------
(* Rows and sessions *)

LEMMA ConstantTypes ==
    /\ NoSub \in SubRow /\ NoInv \in InvRow /\ OnTrial \in OrgRow
    /\ Empty \in Session /\ Idle \in Request
<1>1. NoSub \in SubRow /\ NoInv \in InvRow /\ OnTrial \in OrgRow
  BY DEF NoSub, SubRow, NoInv, InvRow, OnTrial, OrgRow
<1>2. Empty \in Session
  BY <1>1 DEF Empty, Session
<1>3. QED
  BY <1>1, <1>2 DEF Idle, Request

(* Dunning counts the failure, keeps the plan and the card, and locks the
   organisation exactly when the subscription lapses. *)
LEMMA DunnedRows ==
    ASSUME NEW rows \in Session, today \in 1 .. LastDay
    PROVE  LET out == OutOfRoad(rows.sub.failed + 1, GraceEnd(rows.sub))
               d == Dunned(rows)
           IN  /\ d \in Session
               /\ d.sub.status = IF out THEN "LAPSED" ELSE "PAST_DUE"
               /\ d.sub.failed = rows.sub.failed + 1 /\ d.sub.grace = GraceEnd(rows.sub)
               /\ d.sub.plan = rows.sub.plan /\ d.sub.card = rows.sub.card
               /\ d.sub.next = rows.sub.next
               /\ d.inv = rows.inv
               /\ d.org.plan = rows.org.plan
               /\ d.org.locked <=> rows.org.locked \/ out
               /\ rows.sub.grace <= GraceLimit => d.sub.grace <= GraceLimit
<1> DEFINE out == OutOfRoad(rows.sub.failed + 1, GraceEnd(rows.sub))
           d == Dunned(rows)
           s == [rows.sub EXCEPT !.failed = rows.sub.failed + 1,
                                 !.grace = GraceEnd(rows.sub),
                                 !.status = IF out THEN "LAPSED" ELSE "PAST_DUE"]
<1>1. /\ rows.sub \in SubRow /\ rows.inv \in InvRow /\ rows.org \in OrgRow
      /\ GraceDays \in Nat /\ LastDay \in Nat
  BY BoundsAssumption DEF Session
<1>2. /\ GraceEnd(rows.sub) \in Nat
      /\ rows.sub.grace <= GraceLimit => GraceEnd(rows.sub) <= GraceLimit
  BY <1>1 DEF GraceEnd, GraceLimit, SubRow
<1>3. out \in BOOLEAN
  BY DEF OutOfRoad
<1>4. d = [rows EXCEPT !.sub = s, !.org = [rows.org EXCEPT !.locked = @ \/ out]]
  BY <1>1 DEF Dunned, Session, SubRow, OrgRow
<1> HIDE DEF out, d
<1>5. /\ s \in SubRow /\ s.grace = GraceEnd(rows.sub) /\ s.failed = rows.sub.failed + 1
      /\ s.status = (IF out THEN "LAPSED" ELSE "PAST_DUE") /\ s.plan = rows.sub.plan
      /\ s.card = rows.sub.card /\ s.next = rows.sub.next
  <2>1. /\ rows.sub.failed + 1 \in Nat
        /\ (IF out THEN "LAPSED" ELSE "PAST_DUE") \in SubscriptionStatus
    BY <1>1 DEF SubRow, SubscriptionStatus
  <2>2. QED
    BY <1>1, <1>2, <2>1 DEF SubRow
<1>6. /\ [rows.org EXCEPT !.locked = @ \/ out] \in OrgRow
      /\ [rows.org EXCEPT !.locked = @ \/ out].plan = rows.org.plan
      /\ [rows.org EXCEPT !.locked = @ \/ out].locked <=> rows.org.locked \/ out
  BY <1>1, <1>3 DEF OrgRow
<1> HIDE DEF s
<1>7. /\ d \in Session /\ d.sub = s /\ d.inv = rows.inv
      /\ d.org = [rows.org EXCEPT !.locked = @ \/ out]
  BY <1>4, <1>5, <1>6 DEF Session
<1>8. QED
  BY <1>2, <1>5, <1>6, <1>7 DEF d, out

(* the same, of an invoice that was charged in vain *)
LEMMA FailedRows ==
    ASSUME NEW rows \in Session, today \in 1 .. LastDay
    PROVE  LET d == Dunned(rows)
               m == MarkedFailed(rows)
           IN  /\ m \in Session
               /\ m.sub = d.sub /\ m.org = d.org
               /\ m.inv.status = "FAILED" /\ m.inv.attempts = rows.inv.attempts + 1
               /\ m.inv.plan = rows.inv.plan /\ m.inv.start = rows.inv.start
               /\ m.inv.ref = rows.inv.ref
<1> DEFINE d == Dunned(rows)
           i == [rows.inv EXCEPT !.status = "FAILED", !.attempts = rows.inv.attempts + 1]
<1>1. d \in Session /\ d.inv = rows.inv /\ rows.inv \in InvRow
  BY DunnedRows DEF Session
<1> HIDE DEF d
<1>2. MarkedFailed(rows) = [d EXCEPT !.inv = i]
  BY <1>1 DEF MarkedFailed, d, Session, InvRow
<1>3. /\ i \in InvRow /\ i.status = "FAILED" /\ i.attempts = rows.inv.attempts + 1
      /\ i.plan = rows.inv.plan /\ i.start = rows.inv.start /\ i.ref = rows.inv.ref
  <2>1. rows.inv.attempts + 1 \in Nat
    BY <1>1 DEF InvRow
  <2>2. QED
    BY <1>1, <2>1 DEF InvRow
<1> HIDE DEF i
<1>4. /\ [d EXCEPT !.inv = i] \in Session
      /\ [d EXCEPT !.inv = i].sub = d.sub /\ [d EXCEPT !.inv = i].org = d.org
      /\ [d EXCEPT !.inv = i].inv = i
  BY <1>1, <1>3 DEF Session
<1>5. QED
  BY <1>2, <1>3, <1>4 DEF d

(* A payment of an invoice of a plan activates the subscription, ends its dunning
   and restores writing. *)
LEMMA PaidRows ==
    ASSUME NEW rows \in Session, NEW keeps \in BOOLEAN, rows.inv.plan \in Plans
    PROVE  LET m == MarkedPaid(rows, keeps)
           IN  /\ m \in Session
               /\ m.sub.status = "ACTIVE" /\ m.sub.plan = rows.sub.plan
               /\ m.sub.next = rows.inv.start + Length[rows.inv.plan]
               /\ m.sub.failed = 0 /\ m.sub.grace = 0
               /\ m.inv.status = "PAID" /\ m.inv.plan = rows.inv.plan
               /\ m.inv.start = rows.inv.start /\ m.inv.ref = rows.inv.ref
               /\ m.org.plan = rows.sub.plan /\ m.org.locked = FALSE
<1> DEFINE s == [rows.sub EXCEPT !.status = "ACTIVE", !.failed = 0, !.grace = 0,
                                 !.next = PeriodEnd(rows.inv), !.card = @ \/ keeps]
           o == [plan |-> rows.sub.plan, locked |-> FALSE]
           i == [rows.inv EXCEPT !.status = "PAID"]
<1>1. rows.sub \in SubRow /\ rows.inv \in InvRow /\ rows.org \in OrgRow
  BY DEF Session
<1>2. PeriodEnd(rows.inv) \in Nat
  BY <1>1, PlansAssumption DEF PeriodEnd, InvRow
<1>3. s \in SubRow /\ o \in OrgRow /\ i \in InvRow
  BY <1>1, <1>2 DEF SubRow, SubscriptionStatus, OrgRow, InvRow
<1>4. /\ s.status = "ACTIVE" /\ s.plan = rows.sub.plan /\ s.failed = 0 /\ s.grace = 0
      /\ s.next = PeriodEnd(rows.inv)
      /\ i.status = "PAID" /\ i.plan = rows.inv.plan /\ i.start = rows.inv.start
      /\ i.ref = rows.inv.ref
  BY <1>1 DEF SubRow
<1> HIDE DEF s, i
<1>5. MarkedPaid(rows, keeps) = [sub |-> s, inv |-> i, org |-> o]
  BY DEF MarkedPaid, s, i
<1>6. QED
  BY <1>3, <1>4, <1>5 DEF Session, PeriodEnd

(* A commit leaves rows: every column is the session's when the session changed
   it, and the committed one otherwise. *)
LEMMA FlushedSub ==
    ASSUME NEW was \in SubRow, NEW is \in SubRow, NEW now \in SubRow
    PROVE  LET f == Flushed(was, is, now) IN
           /\ f \in SubRow
           /\ f.status = IF is.status = was.status THEN now.status ELSE is.status
           /\ f.plan = IF is.plan = was.plan THEN now.plan ELSE is.plan
           /\ f.next = IF is.next = was.next THEN now.next ELSE is.next
           /\ f.card = IF is.card = was.card THEN now.card ELSE is.card
           /\ f.failed = IF is.failed = was.failed THEN now.failed ELSE is.failed
           /\ f.grace = IF is.grace = was.grace THEN now.grace ELSE is.grace
<1>1. Flushed(was, is, now) \in SubRow
  BY DEF Flushed, SubRow
<1>2. QED
  BY <1>1 DEF Flushed, SubRow

LEMMA FlushedInv ==
    ASSUME NEW was \in InvRow, NEW is \in InvRow, NEW now \in InvRow
    PROVE  LET f == Flushed(was, is, now) IN
           /\ f \in InvRow
           /\ f.status = IF is.status = was.status THEN now.status ELSE is.status
           /\ f.plan = IF is.plan = was.plan THEN now.plan ELSE is.plan
           /\ f.start = IF is.start = was.start THEN now.start ELSE is.start
<1>1. Flushed(was, is, now) \in InvRow
  BY DEF Flushed, InvRow
<1>2. QED
  BY <1>1 DEF Flushed, InvRow

LEMMA FlushedOrg ==
    ASSUME NEW was \in OrgRow, NEW is \in OrgRow, NEW now \in OrgRow
    PROVE  LET f == Flushed(was, is, now) IN
           /\ f \in OrgRow
           /\ f.plan = IF is.plan = was.plan THEN now.plan ELSE is.plan
           /\ f.locked = IF is.locked = was.locked THEN now.locked ELSE is.locked
<1>1. Flushed(was, is, now) \in OrgRow
  BY DEF Flushed, OrgRow
<1>2. QED
  BY <1>1 DEF Flushed, OrgRow

(* Without a change, a commit writes nothing; over what was loaded it writes the
   session's row. *)
LEMMA FlushedSame ==
    ASSUME NEW was, NEW is, NEW now,
           \/ now \in SubRow /\ was \in SubRow /\ is \in SubRow
           \/ now \in InvRow /\ was \in InvRow /\ is \in InvRow
           \/ now \in OrgRow /\ was \in OrgRow /\ is \in OrgRow
    PROVE  /\ is = was => Flushed(was, is, now) = now
           /\ now = was => Flushed(was, is, now) = is
<1>1. CASE now \in SubRow /\ was \in SubRow /\ is \in SubRow
  BY <1>1 DEF Flushed, SubRow
<1>2. CASE now \in InvRow /\ was \in InvRow /\ is \in InvRow
  BY <1>2 DEF Flushed, InvRow
<1>3. CASE now \in OrgRow /\ was \in OrgRow /\ is \in OrgRow
  BY <1>3 DEF Flushed, OrgRow
<1>4. QED
  BY <1>1, <1>2, <1>3

-----------------------------------------------------------------------------
(* The first state *)

LEMMA InitInvariant == Init => IInv
<1> SUFFICES ASSUME Init PROVE IInv
  OBVIOUS
<1>1. TypeOK
  <2>1. today \in 1 .. LastDay
    BY BoundsAssumption DEF Init
  <2>2. QED
    BY <2>1, ConstantTypes, BoundsAssumption DEF Init, TypeOK, NoSub
<1>2. RowsOK
  BY DEF Init, RowsOK, NoSub, NoInv, OnTrial
<1>3. \A h \in Handlers : ServedOK(h)
  BY DEF Init, ServedOK, Idle
<1>4. QED
  BY <1>1, <1>2, <1>3 DEF IInv

-----------------------------------------------------------------------------
(* Requests of the other handlers *)

(* A request stays in order while another one works on other invoices, or on the
   same one without removing it or taking back a charge. *)
LEMMA OthersServed ==
    ASSUME IInv, NEW h \in Handlers, NEW g \in Handlers \ {h},
           req'[g] = req[g], \A k \in Handlers : k # h => req'[k] = req[k],
           sub.status # "ABSENT" => sub'.status # "ABSENT",
           req[g].inv # None =>
                /\ \/ inv'[req[g].inv].status = inv[req[g].inv].status
                   \/ /\ inv[req[g].inv].status # "ABSENT"
                      /\ inv'[req[g].inv].status # "ABSENT"
                   \/ req[g].was.inv.status # "ABSENT" /\ inv'[req[g].inv].status # "ABSENT"
                /\ HasSuccess(req[g].inv) /\ req[g].is.inv.status = "PAID" =>
                        HasSuccess(req[g].inv)'
                /\ req[g].was.inv.status = "ABSENT" => req'[h].inv # req[g].inv,
           SomeCharged => SomeCharged'
    PROVE  ServedOK(g)'
<1>1. CASE req[g].at = "idle"
  BY <1>1 DEF IInv, ServedOK
<1>2. CASE req[g].at # "idle"
  <2>1. req[g].op # "none" /\ SubOK(g) /\ InvOK(g) /\ StageOK(g)
    BY <1>2 DEF IInv, ServedOK
  <2>2. SubOK(g)'
    BY <2>1 DEF SubOK
  <2>3. InvOK(g)'
    BY <2>1 DEF InvOK, HasSuccess
  <2>4. StageOK(g)'
    BY <2>1 DEF StageOK
  <2>5. QED
    BY <1>2, <2>1, <2>2, <2>3, <2>4 DEF ServedOK
<1>3. QED
  BY <1>1, <1>2

(* an idle handler is in order *)
LEMMA IdleServed ==
    ASSUME NEW h \in Handlers, req'[h] = Idle
    PROVE  ServedOK(h)'
BY DEF ServedOK, Idle

(* A step that only replaces h's request by one in order, and takes no charge
   back, keeps the invariant. *)
LEMMA RequestStep ==
    ASSUME IInv, NEW h \in Handlers, NEW r \in Request,
           req' = [req EXCEPT ![h] = r], UNCHANGED <<today, Rows>>,
           paystack' \in [Invoices -> [References -> {"unused", "open", "success", "failed"}]],
           \A i \in Invoices : HasSuccess(i) => HasSuccess(i)' \/ inv[i].status = "ABSENT",
           \A g \in Handlers \ {h} : req[g].inv # None /\ req[g].is.inv.status = "PAID" =>
                HasSuccess(req[g].inv)',
           \A g \in Handlers \ {h} :
                req[g].inv # None /\ req[g].was.inv.status = "ABSENT" => r.inv # req[g].inv,
           ServedOK(h)'
    PROVE  IInv'
<1>1. \A g \in Handlers : req'[g] = IF g = h THEN r ELSE req[g]
  BY DEF IInv, TypeOK
<1>2. TypeOK'
  BY DEF IInv, TypeOK, Rows
<1>3. SomeCharged => SomeCharged'
  BY DEF SomeCharged, Rows
<1>4. RowsOK'
  <2>1. \A i \in Invoices : inv'[i].status = "PAID" => HasSuccess(i)'
    BY DEF IInv, RowsOK, Rows
  <2>2. QED
    BY <1>3, <2>1 DEF IInv, RowsOK, Rows
<1>5. \A g \in Handlers \ {h} : ServedOK(g)'
  BY <1>1, <1>3, OthersServed DEF Rows
<1>6. QED
  BY <1>2, <1>4, <1>5 DEF IInv

-----------------------------------------------------------------------------
(* The beginning of a request *)

(* A request that loads the subscription, and an invoice that is not paid. *)
LEMMA StartsKeep ==
    ASSUME IInv, NEW h \in Handlers, NEW op \in {"checkout", "cancel", "bill", "webhook"},
           NEW at \in {"loaded", "ready"}, NEW i \in Invoices \cup {None},
           NEW was \in Session, NEW is \in Session,
           Starts(h, op, at, i, was, is),
           was.sub = sub, is.sub.status # "ABSENT", is.sub.plan \in Plans,
           is.sub.grace <= GraceLimit, is.sub.card => sub.card, is.org.plan = None,
           is.inv.status # "PAID",
           i = None => was.inv = NoInv /\ is.inv = NoInv /\ op \in {"cancel", "bill"},
           i # None => /\ op \in {"checkout", "webhook"}
                       /\ is.inv.status # "ABSENT" /\ is.inv.plan \in Plans
                       /\ was.inv.status # "PAID"
                       /\ was.inv.status = "ABSENT" =>
                            /\ was.inv = NoInv /\ inv[i].status = "ABSENT"
                            /\ \A g \in Handlers : req[g].inv # i
                       /\ was.inv.status # "ABSENT" => inv[i].status # "ABSENT",
           op = "webhook" => is.inv.ref \in References,
           op = "checkout" => was.inv.status = "ABSENT"
    PROVE  IInv'
<1> DEFINE r == [op |-> op, at |-> at, inv |-> i, was |-> was, is |-> is]
<1>1. r \in Request /\ req' = [req EXCEPT ![h] = r]
  BY DEF Starts, Request
<1>2. UNCHANGED <<today, sub, inv, org, paystack>>
  BY DEF Starts, Rows
<1>3. /\ req'[h].op = op /\ req'[h].at = at /\ req'[h].inv = i
      /\ req'[h].was = was /\ req'[h].is = is
      /\ \A g \in Handlers \ {h} : req'[g] = req[g]
  BY <1>1 DEF IInv, TypeOK
<1>4. ServedOK(h)'
  <2>1. SubOK(h)'
    BY <1>2, <1>3 DEF SubOK, IInv, RowsOK, SomeCharged, HasSuccess
  <2>2. InvOK(h)'
    BY <1>2, <1>3 DEF InvOK
  <2>3. StageOK(h)'
    BY <1>3 DEF StageOK
  <2>4. QED
    BY <1>3, <2>1, <2>2, <2>3 DEF ServedOK
<1>5. ASSUME NEW g \in Handlers \ {h}, req[g].inv # None, req[g].was.inv.status = "ABSENT"
      PROVE  req[g].inv # i
  <2>1. inv[req[g].inv].status = "ABSENT"
    BY <1>5 DEF IInv, ServedOK, InvOK, Idle
  <2>2. QED
    BY <1>5, <2>1
<1>6. \A g \in Handlers \ {h} : req[g].inv # None /\ req[g].is.inv.status = "PAID" =>
            HasSuccess(req[g].inv)
  BY DEF IInv, ServedOK, InvOK, Idle
<1>7. \A j : HasSuccess(j)' <=> HasSuccess(j)
  BY <1>2 DEF HasSuccess
<1>8. QED
  BY <1>1, <1>2, <1>4, <1>5, <1>6, <1>7, RequestStep DEF IInv, TypeOK, Rows

LEMMA CheckoutKeeps ==
    ASSUME IInv, NEW h \in Handlers, NEW i \in Pages, NEW plan \in Plans,
           CheckoutBegin(h, i, plan)
    PROVE  IInv'
<1> DEFINE new == [NoSub EXCEPT !.status = "PAST_DUE", !.plan = plan, !.next = today]
           raised == [NoInv EXCEPT !.status = "PENDING", !.plan = plan, !.start = today]
           s == IF sub.status = "ABSENT" THEN new ELSE [sub EXCEPT !.plan = plan]
           was == [Empty EXCEPT !.sub = sub]
           is == [sub |-> s, inv |-> raised, org |-> OnTrial]
<1>1. sub \in SubRow /\ sub.grace <= GraceLimit /\ today \in Nat /\ GraceLimit \in Nat
  BY BoundsAssumption DEF IInv, TypeOK, GraceLimit
<1>2. /\ s \in SubRow /\ s.status # "ABSENT" /\ s.plan \in Plans /\ s.grace <= GraceLimit
      /\ s.card => sub.card
  <2>1. CASE sub.status = "ABSENT"
    <3>1. s = new
      BY <2>1
    <3>2. /\ new \in SubRow /\ new.status = "PAST_DUE" /\ new.plan = plan
          /\ new.grace = 0 /\ new.card = FALSE
      BY <1>1 DEF NoSub, SubRow, SubscriptionStatus
    <3>3. 0 <= GraceLimit
      BY <1>1
    <3> HIDE DEF new, s
    <3>4. QED
      BY <3>1, <3>2, <3>3
  <2>2. CASE sub.status # "ABSENT"
    BY <1>1, <2>2 DEF SubRow
  <2>3. QED
    BY <2>1, <2>2
<1>3. /\ raised \in InvRow /\ raised.status = "PENDING" /\ raised.plan \in Plans
  BY <1>1, ConstantTypes DEF NoInv, InvRow
<1> HIDE DEF s, raised
<1>4. is \in Session /\ is.sub = s /\ is.inv = raised /\ is.org = OnTrial
  BY <1>2, <1>3, ConstantTypes DEF Session
<1>5. was \in Session /\ was.sub = sub /\ was.inv = NoInv
  BY <1>1, ConstantTypes DEF Empty, Session
<1>6. Starts(h, "checkout", "loaded", i, was, is)
  BY DEF CheckoutBegin, s, raised
<1>7. /\ i \in Invoices /\ i # None /\ inv[i].status = "ABSENT"
      /\ \A g \in Handlers : req[g].inv # i
  BY IdsAssumption DEF CheckoutBegin, Fresh, Invoices
<1>8. OnTrial.plan = None /\ NoInv.status = "ABSENT"
  BY DEF OnTrial, NoInv
<1> HIDE DEF was, is
<1>9. QED
  BY <1>2, <1>3, <1>4, <1>5, <1>6, <1>7, <1>8, StartsKeep

(* cancel, and the scan of the biller *)
LEMMA LoadsKeep ==
    ASSUME IInv, NEW h \in Handlers, CancelBegin(h) \/ BillBegin(h)
    PROVE  IInv'
<1> DEFINE was == [Empty EXCEPT !.sub = sub]
           cancelled == [sub EXCEPT !.status = "CANCELLED"]
<1>1. /\ sub \in SubRow /\ sub.grace <= GraceLimit /\ was \in Session
      /\ was.sub = sub /\ was.inv = NoInv /\ was.org = OnTrial
  BY ConstantTypes DEF IInv, TypeOK, GraceLimit, Empty, Session
<1>2. OnTrial.plan = None /\ NoInv.status = "ABSENT" /\ None \in Invoices \cup {None}
  BY DEF OnTrial, NoInv
<1> HIDE DEF was
<1>3. CASE CancelBegin(h)
  <2> DEFINE is == [Empty EXCEPT !.sub = cancelled]
  <2>1. sub.status # "ABSENT" /\ sub.plan \in Plans
    BY <1>3 DEF CancelBegin, IInv, RowsOK
  <2>2. /\ cancelled \in SubRow /\ cancelled.status = "CANCELLED"
        /\ cancelled.plan = sub.plan /\ cancelled.grace = sub.grace
        /\ cancelled.card = sub.card
    BY <1>1 DEF SubRow, SubscriptionStatus
  <2> HIDE DEF cancelled
  <2>3. is \in Session /\ is.sub = cancelled /\ is.inv = NoInv /\ is.org = OnTrial
    BY <2>2, ConstantTypes DEF Empty, Session
  <2>4. Starts(h, "cancel", "ready", None, was, is)
    BY <1>3 DEF CancelBegin, was, cancelled
  <2> HIDE DEF is
  <2>5. QED
    BY <1>1, <1>2, <2>1, <2>2, <2>3, <2>4, StartsKeep
<1>4. CASE BillBegin(h)
  <2>1. sub.status # "ABSENT" /\ sub.plan \in Plans
    BY <1>4 DEF BillBegin, Due, IInv, RowsOK
  <2>2. Starts(h, "bill", "loaded", None, was, was)
    BY <1>4 DEF BillBegin, was
  <2>3. QED
    BY <1>1, <1>2, <2>1, <2>2, StartsKeep
<1>5. QED
  BY <1>3, <1>4

LEMMA WebhookKeeps ==
    ASSUME IInv, NEW h \in Handlers, NEW i \in Invoices, NEW k \in References,
           WebhookBegin(h, i, k)
    PROVE  IInv'
<1> DEFINE rows == [Empty EXCEPT !.sub = sub, !.inv = inv[i]]
<1>1. /\ sub \in SubRow /\ sub.grace <= GraceLimit /\ inv[i] \in InvRow
      /\ rows \in Session /\ rows.sub = sub /\ rows.inv = inv[i] /\ rows.org = OnTrial
  BY ConstantTypes DEF IInv, TypeOK, GraceLimit, Empty, Session
<1>2. inv[i].status \in {"PENDING", "FAILED"} /\ inv[i].ref = k
  BY DEF WebhookBegin, Awaits
<1>3. inv[i].plan \in Plans /\ sub.status # "ABSENT" /\ sub.plan \in Plans
  BY <1>2 DEF IInv, RowsOK
<1>4. OnTrial.plan = None /\ i # None
  BY IdsAssumption DEF OnTrial, Invoices
<1>5. Starts(h, "webhook", "loaded", i, rows, rows)
  BY DEF WebhookBegin
<1> HIDE DEF rows
<1>6. QED
  BY <1>1, <1>2, <1>3, <1>4, <1>5, StartsKeep

-----------------------------------------------------------------------------
(* What Paystack answered *)

(* The answer puts the rows of a charge, or of a failure, into the session. *)
LEMMA AnsweredKeeps ==
    ASSUME IInv, NEW h \in Handlers, req[h].at # "idle", NEW rows \in Session,
           Answered(h, rows), req[h].op # "checkout",
           rows.sub.status # "ABSENT", rows.sub.plan \in Plans,
           rows.sub.grace <= GraceLimit,
           rows.sub.card \/ rows.org.plan # None =>
                SomeCharged \/ rows.inv.status = "PAID",
           req[h].inv = None => rows.inv = NoInv,
           req[h].inv # None => /\ rows.inv.status # "ABSENT"
                                /\ rows.inv.plan = req[h].is.inv.plan
                                /\ rows.inv.ref = req[h].is.inv.ref
                                /\ rows.inv.status = "PAID" => HasSuccess(req[h].inv)
    PROVE  IInv'
<1> DEFINE r == [req[h] EXCEPT !.at = "ready", !.was.org = org, !.is = rows]
<1>1. /\ req[h] \in Request /\ req[h].was \in Session /\ org \in OrgRow
      /\ ServedOK(h) /\ SubOK(h) /\ InvOK(h) /\ StageOK(h) /\ req[h].op # "none"
  BY DEF IInv, TypeOK, Request, ServedOK
<1>2. /\ r \in Request /\ r.op = req[h].op /\ r.at = "ready" /\ r.inv = req[h].inv
      /\ r.is = rows /\ r.was.sub = req[h].was.sub /\ r.was.inv = req[h].was.inv
  BY <1>1 DEF Request, Session
<1> HIDE DEF r
<1>3. req' = [req EXCEPT ![h] = r] /\ UNCHANGED <<today, sub, inv, org, paystack>>
  <2>1. req' = [req EXCEPT ![h].at = "ready", ![h].was.org = org, ![h].is = rows]
    BY DEF Answered
  <2>2. QED
    BY <2>1 DEF Answered, Rows, r, IInv, TypeOK
<1>4. req'[h] = r /\ \A g \in Handlers \ {h} : req'[g] = req[g]
  BY <1>3 DEF IInv, TypeOK
<1>5. ServedOK(h)'
  <2>1. SubOK(h)'
    BY <1>1, <1>2, <1>3, <1>4 DEF SubOK, SomeCharged, HasSuccess
  <2>2. InvOK(h)'
    BY <1>1, <1>2, <1>3, <1>4 DEF InvOK, HasSuccess
  <2>3. StageOK(h)'
    BY <1>1, <1>2, <1>4 DEF StageOK
  <2>4. QED
    BY <1>1, <1>2, <1>4, <2>1, <2>2, <2>3 DEF ServedOK
<1>6. \A g \in Handlers \ {h} :
        /\ req[g].inv # None /\ req[g].was.inv.status = "ABSENT" => r.inv # req[g].inv
        /\ req[g].inv # None /\ req[g].is.inv.status = "PAID" => HasSuccess(req[g].inv)
  BY <1>2 DEF IInv, ServedOK, InvOK, Idle
<1>7. \A j : HasSuccess(j)' <=> HasSuccess(j)
  BY <1>3 DEF HasSuccess
<1>8. QED
  BY <1>2, <1>3, <1>5, <1>6, <1>7, RequestStep DEF IInv, TypeOK, Rows

(* the rows with the organisation as it is when Paystack has answered *)
LEMMA LoadedRows ==
    ASSUME IInv, NEW h \in Handlers, req[h].at # "idle"
    PROVE  /\ Loaded(h) \in Session /\ Loaded(h).org = org
           /\ Loaded(h).sub = req[h].is.sub /\ Loaded(h).inv = req[h].is.inv
           /\ SubOK(h) /\ InvOK(h) /\ StageOK(h) /\ today \in 1 .. LastDay
           /\ org.plan # None => SomeCharged
BY DEF IInv, TypeOK, RowsOK, Request, Session, Loaded, ServedOK

LEMMA FailureKeeps ==
    ASSUME IInv, NEW h \in Handlers, req[h].at \notin {"idle", "ready"},
           req[h].op # "checkout",
           \/ req[h].inv = None /\ Answered(h, Dunned(Loaded(h)))
           \/ req[h].inv # None /\ Answered(h, MarkedFailed(Loaded(h)))
    PROVE  IInv'
<1> DEFINE rows == Loaded(h)
           d == Dunned(rows)
           m == MarkedFailed(rows)
<1>1. /\ rows \in Session /\ rows.org = org /\ rows.sub = req[h].is.sub
      /\ rows.inv = req[h].is.inv /\ SubOK(h) /\ InvOK(h) /\ StageOK(h)
      /\ today \in 1 .. LastDay
      /\ org.plan # None => SomeCharged
  BY LoadedRows
<1>2. /\ rows.sub \in SubRow /\ rows.inv \in InvRow
  BY <1>1 DEF Session
<1> HIDE DEF rows
<1>3. /\ d \in Session /\ d.inv = rows.inv /\ d.org.plan = org.plan
      /\ d.sub.grace <= GraceLimit
  BY <1>1, DunnedRows DEF SubOK
<1>4. /\ d.sub.status # "ABSENT" /\ d.sub.plan = rows.sub.plan
      /\ d.sub.card = rows.sub.card
  BY <1>1, DunnedRows
<1>5. m \in Session /\ m.sub = d.sub /\ m.org = d.org
  BY <1>1, FailedRows
<1>6. m.inv.status = "FAILED" /\ m.inv.plan = rows.inv.plan /\ m.inv.ref = rows.inv.ref
  BY <1>1, FailedRows
<1> HIDE DEF d, m
<1>7. CASE req[h].inv = None /\ Answered(h, Dunned(Loaded(h)))
  <2>1. Answered(h, d) /\ NoInv.status # "PAID" /\ req[h].is.inv = NoInv
    BY <1>1, <1>7 DEF d, rows, NoInv, InvOK
  <2>2. d.sub.plan \in Plans
    BY <1>1, <1>4 DEF SubOK
  <2>3. d.sub.card \/ d.org.plan # None => SomeCharged
    BY <1>1, <1>3, <1>4, <2>1 DEF SubOK
  <2>4. QED
    BY <1>1, <1>3, <1>4, <1>7, <2>1, <2>2, <2>3, AnsweredKeeps
<1>8. CASE req[h].inv # None /\ Answered(h, MarkedFailed(Loaded(h)))
  <2>1. Answered(h, m)
    BY <1>8 DEF m, rows
  <2>2. m.sub.plan \in Plans /\ m.sub.status # "ABSENT" /\ m.sub.grace <= GraceLimit
    BY <1>1, <1>3, <1>4, <1>5 DEF SubOK
  <2>3. m.sub.card \/ m.org.plan # None => SomeCharged
    BY <1>1, <1>3, <1>4, <1>5 DEF SubOK, StageOK
  <2>4. QED
    BY <1>1, <1>5, <1>6, <1>8, <2>1, <2>2, <2>3, AnsweredKeeps
<1>9. QED
  BY <1>7, <1>8

LEMMA PaidKeeps ==
    ASSUME IInv, NEW h \in Handlers, NEW keeps \in BOOLEAN,
           req[h].at # "idle", req[h].op # "checkout", req[h].inv # None,
           req[h].is.inv.ref \in References,
           Succeeded(req[h].inv, req[h].is.inv.ref),
           Answered(h, MarkedPaid(Loaded(h), keeps))
    PROVE  IInv'
<1> DEFINE rows == Loaded(h)
           m == MarkedPaid(rows, keeps)
<1>1. /\ rows \in Session /\ rows.sub = req[h].is.sub
      /\ rows.inv = req[h].is.inv /\ SubOK(h) /\ InvOK(h)
  BY LoadedRows
<1>2. rows.inv.plan \in Plans /\ rows.sub.plan \in Plans
  BY <1>1 DEF InvOK, SubOK
<1> HIDE DEF rows
<1>3. /\ m \in Session /\ m.sub.status = "ACTIVE" /\ m.sub.plan = rows.sub.plan
      /\ m.sub.grace = 0 /\ m.inv.status = "PAID" /\ m.inv.plan = rows.inv.plan
      /\ m.inv.ref = rows.inv.ref
  BY <1>1, <1>2, PaidRows
<1>4. HasSuccess(req[h].inv) /\ 0 <= GraceLimit
  BY BoundsAssumption DEF Succeeded, HasSuccess, GraceLimit
<1>5. Answered(h, m)
  BY DEF m, rows
<1> HIDE DEF m
<1>6. QED
  BY <1>1, <1>2, <1>3, <1>4, <1>5, AnsweredKeeps

(* the answers to the biller, and to the webhook *)
LEMMA VerifyKeeps ==
    ASSUME IInv, NEW h \in Handlers, BillNoCard(h) \/ BillAnswer(h) \/ WebhookVerify(h)
    PROVE  IInv'
<1>1. CASE BillNoCard(h)
  <2>1. req[h].inv = None
    BY <1>1, LoadedRows DEF BillNoCard, StageOK
  <2>2. QED
    BY <1>1, <2>1, FailureKeeps DEF BillNoCard
<1>2. CASE BillAnswer(h)
  <2>1. req[h].inv # None /\ (req[h].at = "asked" => req[h].is.inv.ref \in References)
    BY <1>2, LoadedRows DEF BillAnswer, StageOK
  <2>2. CASE /\ req[h].at = "asked" /\ Succeeded(req[h].inv, req[h].is.inv.ref)
             /\ Answered(h, MarkedPaid(Loaded(h), FALSE))
    BY <1>2, <2>1, <2>2, PaidKeeps DEF BillAnswer
  <2>3. CASE req[h].at \in {"asked", "refused"} /\ Answered(h, MarkedFailed(Loaded(h)))
    BY <1>2, <2>1, <2>3, FailureKeeps DEF BillAnswer
  <2>4. QED
    BY <1>2, <2>2, <2>3 DEF BillAnswer
<1>3. CASE WebhookVerify(h)
  <2>1. req[h].inv # None /\ req[h].is.inv.ref \in References
    BY <1>3, LoadedRows DEF WebhookVerify, StageOK
  <2>2. CASE Succeeded(req[h].inv, req[h].is.inv.ref)
    BY <1>3, <2>1, <2>2, PaidKeeps DEF WebhookVerify
  <2>3. CASE ~Succeeded(req[h].inv, req[h].is.inv.ref)
    BY <1>3, <2>1, <2>3, FailureKeeps DEF WebhookVerify
  <2>4. QED
    BY <2>2, <2>3
<1>4. QED
  BY <1>1, <1>2, <1>3

-----------------------------------------------------------------------------
(* The calls to Paystack *)

(* A charge that did not succeed can change; no other one does. *)
LEMMA ChargeMoves ==
    ASSUME IInv, NEW i \in Invoices, NEW k \in References,
           NEW outcome \in {"open", "success", "failed"},
           paystack' = [paystack EXCEPT ![i][k] = outcome]
    PROVE  /\ paystack' \in [Invoices -> [References -> {"unused", "open", "success", "failed"}]]
           /\ \A j \in Invoices \ {i} : HasSuccess(j)' <=> HasSuccess(j)
           /\ paystack[i][k] # "success" => (HasSuccess(i) => HasSuccess(i)')
<1>1. /\ paystack \in [Invoices -> [References -> {"unused", "open", "success", "failed"}]]
  BY DEF IInv, TypeOK
<1>2. /\ paystack' \in [Invoices -> [References -> {"unused", "open", "success", "failed"}]]
      /\ \A j \in Invoices, l \in References :
            paystack'[j][l] = IF j = i /\ l = k THEN outcome ELSE paystack[j][l]
  BY <1>1
<1>3. \A j \in Invoices \ {i} : HasSuccess(j)' <=> HasSuccess(j)
  BY <1>2 DEF HasSuccess
<1>4. ASSUME paystack[i][k] # "success", HasSuccess(i) PROVE HasSuccess(i)'
  BY <1>2, <1>4 DEF HasSuccess
<1>5. QED
  BY <1>2, <1>3, <1>4

LEMMA CheckoutAskKeeps ==
    ASSUME IInv, NEW h \in Handlers, CheckoutAsk(h)
    PROVE  IInv'
<1>1. PICK i \in Invoices : i = req[h].inv
  BY IdsAssumption, LoadedRows DEF CheckoutAsk, StageOK, IInv, TypeOK, Request
<1>2. /\ req[h] \in Request /\ req[h].is \in Session /\ req[h].is.inv \in InvRow
      /\ SubOK(h) /\ InvOK(h) /\ StageOK(h) /\ req[h].inv = i /\ i # None
  BY <1>1, LoadedRows DEF CheckoutAsk, IInv, TypeOK, Request, Session, StageOK
<1>3. /\ inv[i].status = "ABSENT" /\ req[h].was.inv = NoInv /\ req[h].is.inv.status # "PAID"
      /\ \A g \in Handlers \ {h} : req[g].inv # i
  BY <1>2 DEF CheckoutAsk, InvOK, StageOK
<1>4. 0 \in References
  BY BoundsAssumption DEF References
<1> DEFINE opened == [req[h] EXCEPT !.at = "ready", !.is.inv.ref = 0]
           refused == [req[h] EXCEPT !.at = "ready", !.is.inv.status = "FAILED"]
<1>5. /\ opened \in Request /\ opened.at = "ready" /\ opened.op = req[h].op
      /\ opened.inv = i /\ opened.was = req[h].was /\ opened.is.sub = req[h].is.sub
      /\ opened.is.org = req[h].is.org /\ opened.is.inv.plan = req[h].is.inv.plan
      /\ opened.is.inv.status = req[h].is.inv.status
  BY <1>2, <1>4 DEF Request, Session, InvRow
<1>6. /\ refused \in Request /\ refused.at = "ready" /\ refused.op = req[h].op
      /\ refused.inv = i /\ refused.was = req[h].was /\ refused.is.sub = req[h].is.sub
      /\ refused.is.org = req[h].is.org /\ refused.is.inv.plan = req[h].is.inv.plan
      /\ refused.is.inv.status = "FAILED"
  BY <1>2 DEF Request, Session, InvRow
<1>7. /\ req' \in {[req EXCEPT ![h] = opened], [req EXCEPT ![h] = refused]}
      /\ \/ paystack' = [paystack EXCEPT ![i][0] = "open"]
         \/ paystack' = paystack
      /\ UNCHANGED <<today, sub, inv, org>>
  BY <1>1 DEF CheckoutAsk, Rows, IInv, TypeOK
<1> HIDE DEF opened, refused
<1>8. PICK r \in Request :
        /\ req' = [req EXCEPT ![h] = r]
        /\ r.at = "ready" /\ r.op = req[h].op /\ r.inv = i /\ r.was = req[h].was
        /\ r.is.sub = req[h].is.sub /\ r.is.org = req[h].is.org
        /\ r.is.inv.plan = req[h].is.inv.plan
        /\ r.is.inv.status \in {req[h].is.inv.status, "FAILED"}
  BY <1>5, <1>6, <1>7
<1>9. req'[h] = r
  BY <1>8 DEF IInv, TypeOK
<1>10. /\ paystack' \in [Invoices -> [References -> {"unused", "open", "success", "failed"}]]
       /\ \A j \in Invoices \ {i} : HasSuccess(j)' <=> HasSuccess(j)
  <2>1. CASE paystack' = [paystack EXCEPT ![i][0] = "open"]
    BY <2>1, <1>4, ChargeMoves
  <2>2. CASE paystack' = paystack
    BY <2>2 DEF HasSuccess, IInv, TypeOK
  <2>3. QED
    BY <1>7, <2>1, <2>2
<1>11. SomeCharged => SomeCharged'
  BY <1>3, <1>7, <1>10 DEF SomeCharged
<1>12. ServedOK(h)'
  <2>1. SubOK(h)'
    BY <1>2, <1>3, <1>7, <1>8, <1>9, <1>11 DEF SubOK
  <2>2. InvOK(h)'
    <3>1. \A g \in Handlers \ {h} : req'[g] = req[g]
      BY <1>8 DEF IInv, TypeOK
    <3>2. QED
      BY <1>2, <1>3, <1>7, <1>8, <1>9, <3>1 DEF InvOK, NoInv
  <2>3. StageOK(h)'
    BY <1>2, <1>3, <1>8, <1>9 DEF StageOK, CheckoutAsk, NoInv
  <2>4. QED
    BY <1>8, <1>9, <2>1, <2>2, <2>3 DEF ServedOK, CheckoutAsk
<1>13. ASSUME NEW g \in Handlers \ {h}, req[g].inv # None, req[g].is.inv.status = "PAID"
       PROVE  HasSuccess(req[g].inv)'
  <2>1. HasSuccess(req[g].inv) /\ req[g].inv \in Invoices \ {i} /\ req'[g] = req[g]
    BY <1>3, <1>8, <1>13 DEF IInv, TypeOK, Request, ServedOK, InvOK, Idle
  <2>2. PICK j \in Invoices \ {i} : j = req[g].inv
    BY <2>1
  <2>3. QED
    BY <1>10, <2>1, <2>2
<1>14. QED
  BY <1>3, <1>7, <1>8, <1>10, <1>12, <1>13, RequestStep DEF Rows

(* The biller charges an unpaid invoice of the period, or a new one that nobody
   else has, under a reference that was not charged before. *)
LEMMA BillChargeKeeps ==
    ASSUME IInv, NEW h \in Handlers, BillCharge(h)
    PROVE  IInv'
<1> DEFINE found == Reusable(req[h].is.sub.next)
           raised == [NoInv EXCEPT !.status = "PENDING", !.plan = req[h].is.sub.plan,
                                   !.start = req[h].is.sub.next]
           due(i) == IF found = {} THEN raised ELSE inv[i]
           charged(i) == [due(i) EXCEPT !.ref = due(i).attempts + 1]
           asking(i, at) == [req[h] EXCEPT !.at = at, !.inv = i, !.was.inv = inv[i],
                                           !.is.inv = charged(i)]
<1>1. /\ req[h] \in Request /\ req[h].was \in Session /\ req[h].is \in Session
      /\ req[h].is.sub \in SubRow /\ SubOK(h) /\ StageOK(h)
      /\ req[h].op = "bill" /\ req[h].inv = None /\ req[h].is.inv = NoInv
      /\ \A i \in Invoices : inv[i] \in InvRow
  BY LoadedRows DEF BillCharge, IInv, TypeOK, Request, Session, StageOK, InvOK
<1>2. /\ raised \in InvRow /\ raised.status = "PENDING" /\ raised.plan \in Plans
      /\ raised.attempts = 0
  BY <1>1, ConstantTypes DEF NoInv, InvRow, SubRow, SubOK
<1> HIDE DEF raised
<1>3. PICK i \in Invoices, at \in {"asked", "refused"} :
        /\ IF found = {} THEN Fresh(i, Renewals) ELSE i \in found
        /\ due(i).attempts + 1 <= MaxTries
        /\ req' = [req EXCEPT ![h].at = at, ![h].inv = i, ![h].was.inv = inv[i],
                              ![h].is.inv = charged(i)]
        /\ \/ /\ paystack[i][due(i).attempts + 1] = "unused"
              /\ \E outcome \in {"success", "failed", "open"} :
                    paystack' = [paystack EXCEPT ![i][due(i).attempts + 1] = outcome]
           \/ paystack' = paystack
        /\ UNCHANGED <<today, sub, inv, org>>
  BY DEF BillCharge, raised, Rows
<1>4. /\ due(i) \in InvRow /\ due(i).plan \in Plans
      /\ due(i).status \in {"PENDING", "FAILED"}
      /\ inv[i].status = "ABSENT" => \A g \in Handlers : req[g].inv # i
      /\ inv[i].status \in {"ABSENT", "PENDING", "FAILED"}
  <2>1. CASE found = {}
    BY <1>1, <1>2, <1>3, <2>1 DEF Fresh
  <2>2. CASE found # {}
    BY <1>1, <1>3, <2>2 DEF Reusable, IInv, RowsOK
  <2>3. QED
    BY <2>1, <2>2
<1> HIDE DEF due
<1>5. PICK k \in References : k = due(i).attempts + 1
  BY <1>3, <1>4, BoundsAssumption DEF References, InvRow
<1>6. /\ charged(i) \in InvRow /\ charged(i).plan \in Plans /\ charged(i).ref = k
      /\ charged(i).status \in {"PENDING", "FAILED"}
  BY <1>4, <1>5 DEF InvRow
<1> HIDE DEF charged, found
<1>7. PICK r \in Request : r = asking(i, at)
  BY <1>1, <1>6 DEF Request, Session
<1>8. /\ req' = [req EXCEPT ![h] = r]
      /\ r.at = at /\ r.op = "bill" /\ r.inv = i /\ r.was.inv = inv[i]
      /\ r.was.sub = req[h].was.sub /\ r.is.sub = req[h].is.sub
      /\ r.is.org = req[h].is.org /\ r.is.inv = charged(i)
  <2>1. req' = [req EXCEPT ![h] = asking(i, at)]
    <3>1. req \in [Handlers -> Request]
      BY DEF IInv, TypeOK
    <3>2. /\ req' = [g \in Handlers |-> req'[g]]
          /\ \A g \in Handlers \ {h} : req'[g] = req[g]
      BY <1>3, <3>1
    <3>3. req'[h] = asking(i, at)
      BY <1>3, <3>1 DEF Request, Session
    <3> HIDE DEF asking
    <3>4. QED
      BY <3>1, <3>2, <3>3
  <2>2. /\ asking(i, at).at = at /\ asking(i, at).op = req[h].op /\ asking(i, at).inv = i
        /\ asking(i, at).was = [req[h].was EXCEPT !.inv = inv[i]]
        /\ asking(i, at).is = [req[h].is EXCEPT !.inv = charged(i)]
    BY <1>1 DEF Request
  <2> HIDE DEF asking
  <2>3. QED
    BY <1>1, <1>7, <2>1, <2>2 DEF Session
<1> HIDE DEF asking
<1>9. /\ paystack' \in [Invoices -> [References -> {"unused", "open", "success", "failed"}]]
      /\ \A j \in Invoices : HasSuccess(j) => HasSuccess(j)'
  <2>1. CASE \E outcome \in {"success", "failed", "open"} :
                /\ paystack[i][k] = "unused"
                /\ paystack' = [paystack EXCEPT ![i][k] = outcome]
    BY <2>1, ChargeMoves
  <2>2. CASE paystack' = paystack
    BY <2>2 DEF HasSuccess, IInv, TypeOK
  <2>3. QED
    BY <1>3, <1>5, <2>1, <2>2
<1>10. SomeCharged => SomeCharged'
  BY <1>3, <1>9 DEF SomeCharged
<1>11. req'[h] = r /\ \A g \in Handlers \ {h} : req'[g] = req[g]
  BY <1>8 DEF IInv, TypeOK
<1>12. i # None
  BY IdsAssumption DEF Invoices
<1>13. ServedOK(h)'
  <2>1. SubOK(h)'
    <3>1. /\ req'[h].was.sub = req[h].was.sub /\ req'[h].is.sub = req[h].is.sub
          /\ req'[h].is.org = req[h].is.org /\ sub' = sub
      BY <1>3, <1>8, <1>11
    <3>2. req[h].is.inv.status # "PAID"
      BY <1>1 DEF NoInv
    <3>3. QED
      BY <1>1, <1>10, <3>1, <3>2 DEF SubOK
  <2>2. InvOK(h)'
    <3>1. inv[i].status = "ABSENT" => inv[i] = NoInv
      BY DEF IInv, RowsOK
    <3>2. /\ req'[h].inv = i /\ req'[h].was.inv = inv[i] /\ inv' = inv
          /\ req'[h].is.inv.status \in {"PENDING", "FAILED"} /\ req'[h].is.inv.plan \in Plans
      BY <1>3, <1>6, <1>8, <1>11
    <3>3. inv[i].status = "ABSENT" => \A g \in Handlers \ {h} : req'[g].inv # i
      BY <1>4, <1>11
    <3>4. inv[i].status # "PAID"
      BY <1>4
    <3>5. QED
      BY <1>12, <3>1, <3>2, <3>3, <3>4 DEF InvOK
  <2>3. StageOK(h)'
    BY <1>3, <1>6, <1>8, <1>11, <1>12 DEF StageOK
  <2>4. QED
    BY <1>8, <1>11, <2>1, <2>2, <2>3 DEF ServedOK
<1>14. ASSUME NEW g \in Handlers \ {h}, req[g].inv # None, req[g].is.inv.status = "PAID"
       PROVE  HasSuccess(req[g].inv)'
  <2>1. HasSuccess(req[g].inv) /\ req[g].inv \in Invoices /\ req'[g] = req[g]
    BY <1>11, <1>14 DEF IInv, TypeOK, Request, ServedOK, InvOK, Idle
  <2>2. PICK j \in Invoices : j = req[g].inv
    BY <2>1
  <2>3. QED
    BY <1>9, <2>1, <2>2
<1>15. ASSUME NEW g \in Handlers \ {h}, req[g].inv # None, req[g].was.inv.status = "ABSENT"
       PROVE  r.inv # req[g].inv
  <2>1. inv[req[g].inv].status = "ABSENT"
    BY <1>15 DEF IInv, ServedOK, InvOK, Idle
  <2>2. QED
    BY <1>4, <1>8, <1>15, <2>1
<1>16. QED
  BY <1>3, <1>8, <1>9, <1>13, <1>14, <1>15, RequestStep DEF Rows

-----------------------------------------------------------------------------
(* The end of a request *)

(* The rows a commit leaves: the subscription exists and keeps a plan, an invoice
   that existed still does, and one that is paid was charged. *)
LEMMA CommittedRows ==
    ASSUME IInv, NEW h \in Handlers, Commit(h)
    PROVE  /\ sub' \in SubRow /\ sub'.grace <= GraceLimit
           /\ sub'.status # "ABSENT" /\ sub'.plan \in Plans
           /\ inv' \in [Invoices -> InvRow] /\ org' \in OrgRow
           /\ \A i \in Invoices : i # req[h].inv => inv'[i] = inv[i]
           /\ \A i \in Invoices : i = req[h].inv => /\ inv'[i].status # "ABSENT"
                                                    /\ inv'[i].plan \in Plans
           /\ \A i \in Invoices : inv'[i].status = "PAID" => HasSuccess(i)
           /\ req[h].is.inv.status = "PAID" =>
                \E i \in Invoices : inv'[i].status # "ABSENT" /\ HasSuccess(i)
           /\ req[h].is.inv.status = "PAID" => req[h].inv # None
<1>1. /\ req[h] \in Request /\ req[h].was \in Session /\ req[h].is \in Session
      /\ req[h].at # "idle" /\ SubOK(h) /\ InvOK(h) /\ sub.grace <= GraceLimit
      /\ sub \in SubRow /\ inv \in [Invoices -> InvRow] /\ org \in OrgRow
  BY LoadedRows DEF Commit, IInv, TypeOK, Request, Session, GraceLimit
<1>2. /\ req[h].was.sub \in SubRow /\ req[h].is.sub \in SubRow
      /\ req[h].was.inv \in InvRow /\ req[h].is.inv \in InvRow
      /\ req[h].was.org \in OrgRow /\ req[h].is.org \in OrgRow
  BY <1>1 DEF Session
<1>3. /\ sub' = Flushed(req[h].was.sub, req[h].is.sub, sub)
      /\ org' = Flushed(req[h].was.org, req[h].is.org, org)
      /\ inv' = IF req[h].inv = None THEN inv
                ELSE [inv EXCEPT ![req[h].inv] =
                        Flushed(req[h].was.inv, req[h].is.inv, inv[req[h].inv])]
  BY DEF Commit
<1>4. /\ sub' \in SubRow /\ sub'.grace <= GraceLimit
      /\ sub'.status # "ABSENT" /\ sub'.plan \in Plans
  <2>1. /\ sub' \in SubRow
        /\ sub'.status = IF req[h].is.sub.status = req[h].was.sub.status
                         THEN sub.status ELSE req[h].is.sub.status
        /\ sub'.plan \in {sub.plan, req[h].is.sub.plan}
        /\ sub'.plan = sub.plan \/ sub'.plan = req[h].is.sub.plan
        /\ req[h].is.sub.plan # req[h].was.sub.plan => sub'.plan = req[h].is.sub.plan
        /\ sub'.grace = sub.grace \/ sub'.grace = req[h].is.sub.grace
    BY <1>1, <1>2, <1>3, FlushedSub
  <2>2. sub'.grace <= GraceLimit
    BY <1>1, <2>1 DEF SubOK
  <2>3. sub'.status # "ABSENT"
    BY <1>1, <2>1 DEF SubOK
  <2>4. CASE req[h].was.sub.status = "ABSENT"
    <3>1. req[h].was.sub.plan = None /\ req[h].is.sub.plan \in Plans
      BY <1>1, <2>4 DEF SubOK, NoSub
    <3>2. req[h].is.sub.plan # req[h].was.sub.plan
      BY <3>1, IdsAssumption
    <3>3. QED
      BY <2>1, <2>2, <2>3, <3>1, <3>2
  <2>5. CASE req[h].was.sub.status # "ABSENT"
    <3>1. sub.plan \in Plans /\ req[h].is.sub.plan \in Plans
      BY <1>1, <2>5 DEF SubOK, IInv, RowsOK
    <3>2. QED
      BY <2>1, <2>2, <2>3, <3>1
  <2>6. QED
    BY <2>4, <2>5
<1>5. org' \in OrgRow
  BY <1>1, <1>2, <1>3, FlushedOrg
<1>6. CASE req[h].inv = None
  <2>1. inv' = inv /\ req[h].is.inv.status # "PAID"
    BY <1>1, <1>3, <1>6 DEF InvOK, NoInv
  <2>2. \A i \in Invoices : i # None
    BY IdsAssumption DEF Invoices
  <2>3. QED
    BY <1>1, <1>4, <1>5, <1>6, <2>1, <2>2 DEF IInv, RowsOK
<1>7. CASE req[h].inv # None
  <2>1. PICK i \in Invoices : i = req[h].inv
    BY <1>1, <1>7 DEF Request
  <2> DEFINE row == Flushed(req[h].was.inv, req[h].is.inv, inv[i])
  <2>2. /\ inv' = [inv EXCEPT ![i] = row] /\ inv[i] \in InvRow
    BY <1>1, <1>3, <1>7, <2>1
  <2>3. /\ row \in InvRow
        /\ row.status = IF req[h].is.inv.status = req[h].was.inv.status
                        THEN inv[i].status ELSE req[h].is.inv.status
        /\ row.plan = IF req[h].is.inv.plan = req[h].was.inv.plan
                      THEN inv[i].plan ELSE req[h].is.inv.plan
    BY <1>2, <2>2, FlushedInv
  <2> HIDE DEF row
  <2>4. /\ inv' \in [Invoices -> InvRow] /\ inv'[i] = row
        /\ \A j \in Invoices \ {i} : inv'[j] = inv[j]
    BY <1>1, <2>2, <2>3
  <2>5. /\ req[h].is.inv.status # "ABSENT" /\ req[h].is.inv.plan \in Plans
        /\ req[h].is.inv.status = "PAID" => HasSuccess(i)
        /\ req[h].was.inv.status # "PAID"
        /\ req[h].was.inv.status = "ABSENT" => req[h].was.inv = NoInv
        /\ req[h].was.inv.status # "ABSENT" => inv[i].status # "ABSENT"
    BY <1>1, <1>7, <2>1 DEF InvOK
  <2>6. row.status # "ABSENT"
    BY <2>3, <2>5
  <2>7. row.plan \in Plans
    <3>1. CASE req[h].was.inv.status = "ABSENT"
      BY <2>3, <2>5, <3>1, IdsAssumption DEF NoInv
    <3>2. CASE req[h].was.inv.status # "ABSENT"
      BY <2>3, <2>5, <3>2 DEF IInv, RowsOK
    <3>3. QED
      BY <3>1, <3>2
  <2>8. row.status = "PAID" => HasSuccess(i)
    BY <2>3, <2>5 DEF IInv, RowsOK
  <2>9. \A j \in Invoices : inv'[j].status = "PAID" => HasSuccess(j)
    BY <2>4, <2>8 DEF IInv, RowsOK
  <2>10. QED
    BY <1>4, <1>5, <1>7, <2>1, <2>4, <2>5, <2>6, <2>7, <2>9
<1>8. QED
  BY <1>6, <1>7

LEMMA CommitKeeps ==
    ASSUME IInv, NEW h \in Handlers, Commit(h)
    PROVE  IInv'
<1>1. /\ sub' \in SubRow /\ sub'.grace <= GraceLimit
      /\ sub'.status # "ABSENT" /\ sub'.plan \in Plans
      /\ inv' \in [Invoices -> InvRow] /\ org' \in OrgRow
      /\ \A i \in Invoices : i # req[h].inv => inv'[i] = inv[i]
      /\ \A i \in Invoices : i = req[h].inv => /\ inv'[i].status # "ABSENT"
                                               /\ inv'[i].plan \in Plans
      /\ \A i \in Invoices : inv'[i].status = "PAID" => HasSuccess(i)
      /\ req[h].is.inv.status = "PAID" =>
            \E i \in Invoices : inv'[i].status # "ABSENT" /\ HasSuccess(i)
  BY CommittedRows
<1>2. /\ req' = [req EXCEPT ![h] = Idle] /\ UNCHANGED <<today, paystack>>
      /\ req[h].at # "idle"
  BY DEF Commit
<1>3. /\ req'[h] = Idle /\ \A g \in Handlers \ {h} : req'[g] = req[g]
      /\ req' \in [Handlers -> Request]
  BY <1>2, ConstantTypes DEF IInv, TypeOK
<1>4. TypeOK'
  BY <1>1, <1>2, <1>3 DEF IInv, TypeOK, GraceLimit
<1>5. \A i \in Invoices : HasSuccess(i)' <=> HasSuccess(i)
  BY <1>2 DEF HasSuccess
<1>6. SomeCharged => SomeCharged'
  BY <1>1, <1>5 DEF SomeCharged
<1>7. RowsOK'
  <2>1. ASSUME org'.plan # None \/ sub'.card PROVE SomeCharged'
    <3>1. /\ req[h] \in Request /\ req[h].was \in Session /\ req[h].is \in Session
          /\ SubOK(h) /\ sub \in SubRow /\ org \in OrgRow
      BY <1>2, LoadedRows DEF IInv, TypeOK, Request
    <3>2. /\ sub'.card = sub.card \/ sub'.card = req[h].is.sub.card
          /\ org'.plan = org.plan \/ org'.plan = req[h].is.org.plan
      BY <3>1, FlushedSub, FlushedOrg DEF Commit, Session
    <3>3. SomeCharged \/ req[h].is.inv.status = "PAID"
      BY <2>1, <3>1, <3>2 DEF SubOK, IInv, RowsOK
    <3>4. QED
      BY <1>1, <1>5, <1>6, <3>3 DEF SomeCharged
  <2>2. \A i \in Invoices : /\ inv'[i].status = "ABSENT" => inv'[i] = NoInv
                            /\ inv'[i].status # "ABSENT" => inv'[i].plan \in Plans
    BY <1>1 DEF IInv, RowsOK
  <2>3. QED
    BY <1>1, <1>5, <2>1, <2>2 DEF RowsOK
<1>8. ASSUME NEW g \in Handlers \ {h} PROVE ServedOK(g)'
  <2>1. ASSUME req[g].inv # None
        PROVE  /\ \/ inv'[req[g].inv].status = inv[req[g].inv].status
                  \/ req[g].was.inv.status # "ABSENT" /\ inv'[req[g].inv].status # "ABSENT"
               /\ HasSuccess(req[g].inv) => HasSuccess(req[g].inv)'
    <3>1. PICK j \in Invoices : j = req[g].inv
      BY <2>1 DEF IInv, TypeOK, Request
    <3>2. CASE j # req[h].inv
      BY <1>1, <1>3, <1>5, <3>1, <3>2
    <3>3. CASE j = req[h].inv
      <4>1. req[g].was.inv.status # "ABSENT"
        <5>1. req[g].at # "idle" /\ h \in Handlers \ {g}
          BY <2>1 DEF IInv, ServedOK, Idle
        <5>2. InvOK(g)
          BY <5>1 DEF IInv, ServedOK
        <5>3. QED
          BY <2>1, <3>1, <3>3, <5>1, <5>2 DEF InvOK
      <4>2. QED
        BY <1>1, <1>3, <1>5, <3>1, <3>3, <4>1
    <3>4. QED
      BY <3>2, <3>3
  <2>2. Idle.inv = None
    BY DEF Idle
  <2>3. QED
    BY <1>1, <1>3, <1>6, <2>1, <2>2, OthersServed
<1>9. QED
  BY <1>3, <1>4, <1>7, <1>8, IdleServed DEF IInv

(* A request that ends without a commit; what is forgotten at Paystack was for an
   invoice that nobody else has and no row is of. *)
LEMMA AbortKeeps ==
    ASSUME IInv, NEW h \in Handlers, Abort(h)
    PROVE  IInv'
<1> DEFINE forgets == req[h].inv # None /\ req[h].was.inv.status = "ABSENT"
           states == {"unused", "open", "success", "failed"}
<1>1. /\ req' = [req EXCEPT ![h] = Idle] /\ UNCHANGED <<today, sub, inv, org>>
      /\ req[h].at # "idle" /\ Idle \in Request /\ Idle.inv = None
  BY ConstantTypes DEF Abort, Rows, Idle
<1>2. req'[h] = Idle /\ \A g \in Handlers \ {h} : req'[g] = req[g]
  BY <1>1, ConstantTypes DEF IInv, TypeOK
<1>3. /\ paystack' \in [Invoices -> [References -> states]]
      /\ \A j \in Invoices : j # req[h].inv \/ ~forgets => paystack'[j] = paystack[j]
  <2>1. CASE forgets
    <3>1. PICK i \in Invoices : i = req[h].inv
      BY <2>1 DEF IInv, TypeOK, Request
    <3>2. paystack' = [paystack EXCEPT ![i] = [k \in References |-> "unused"]]
      BY <2>1, <3>1 DEF Abort
    <3>3. [k \in References |-> "unused"] \in [References -> states]
      OBVIOUS
    <3>4. paystack \in [Invoices -> [References -> states]]
      BY DEF IInv, TypeOK
    <3>5. QED
      BY <2>1, <3>1, <3>2, <3>3, <3>4
  <2>2. CASE ~forgets
    BY <2>2 DEF Abort, IInv, TypeOK
  <2>3. QED
    BY <2>1, <2>2
<1>4. forgets => /\ inv[req[h].inv].status = "ABSENT"
                 /\ \A g \in Handlers \ {h} : req[g].inv # req[h].inv
  BY <1>1 DEF IInv, ServedOK, InvOK
<1>5. \A j \in Invoices : HasSuccess(j) => HasSuccess(j)' \/ inv[j].status = "ABSENT"
  BY <1>3, <1>4 DEF HasSuccess
<1>6. ASSUME NEW g \in Handlers \ {h}, req[g].inv # None, req[g].is.inv.status = "PAID"
      PROVE  HasSuccess(req[g].inv)'
  <2>1. HasSuccess(req[g].inv) /\ req[g].inv \in Invoices /\ req'[g] = req[g]
    BY <1>2, <1>6 DEF IInv, TypeOK, Request, ServedOK, InvOK, Idle
  <2>2. paystack'[req[g].inv] = paystack[req[g].inv]
    BY <1>3, <1>4, <2>1
  <2>3. QED
    BY <2>1, <2>2 DEF HasSuccess
<1> HIDE DEF forgets
<1>7. QED
  BY <1>1, <1>2, <1>3, <1>5, <1>6, IdleServed, RequestStep DEF Rows

-----------------------------------------------------------------------------
(* The world outside *)

LEMMA WorldKeeps ==
    ASSUME IInv,
           \/ \E i \in Invoices, k \in References : PaystackSettles(i, k)
           \/ NextDay
           \/ UNCHANGED vars
    PROVE  IInv'
<1>1. UNCHANGED <<sub, inv, org, req>> /\ today' \in 1 .. LastDay
  <2>1. CASE \E i \in Invoices, k \in References : PaystackSettles(i, k)
    BY <2>1 DEF PaystackSettles, Rows, IInv, TypeOK
  <2>2. CASE NextDay
    BY <2>2, BoundsAssumption DEF NextDay, Rows, IInv, TypeOK
  <2>3. CASE UNCHANGED vars
    BY <2>3 DEF vars, IInv, TypeOK
  <2>4. QED
    BY <2>1, <2>2, <2>3
<1>2. /\ paystack' \in [Invoices -> [References -> {"unused", "open", "success", "failed"}]]
      /\ \A j \in Invoices : HasSuccess(j) => HasSuccess(j)'
  <2>1. CASE \E i \in Invoices, k \in References : PaystackSettles(i, k)
    <3>1. PICK i \in Invoices, k \in References, outcome \in {"open", "success", "failed"} :
            /\ paystack[i][k] # "success"
            /\ paystack' = [paystack EXCEPT ![i][k] = outcome]
      BY <2>1 DEF PaystackSettles
    <3>2. QED
      BY <3>1, ChargeMoves
  <2>2. CASE NextDay \/ UNCHANGED vars
    BY <2>2 DEF NextDay, vars, HasSuccess, IInv, TypeOK
  <2>3. QED
    BY <2>1, <2>2
<1>3. TypeOK'
  BY <1>1, <1>2 DEF IInv, TypeOK
<1>4. SomeCharged => SomeCharged'
  BY <1>1, <1>2 DEF SomeCharged
<1>5. RowsOK'
  BY <1>1, <1>2, <1>4 DEF IInv, RowsOK
<1>6. ASSUME NEW h \in Handlers PROVE ServedOK(h)'
  <2>1. CASE req[h].at = "idle"
    BY <1>1, <2>1 DEF IInv, ServedOK
  <2>2. CASE req[h].at # "idle"
    <3>1. SubOK(h) /\ InvOK(h) /\ StageOK(h) /\ req[h].op # "none"
      BY <2>2 DEF IInv, ServedOK
    <3>2. SubOK(h)' /\ StageOK(h)'
      BY <1>1, <1>4, <3>1 DEF SubOK, StageOK
    <3>3. req[h].inv # None /\ HasSuccess(req[h].inv) => HasSuccess(req[h].inv)'
      <4>1. req' = req /\ (req[h].inv # None => req[h].inv \in Invoices)
        BY <1>1 DEF IInv, TypeOK, Request
      <4>2. ASSUME NEW j \in Invoices, j = req[h].inv, HasSuccess(j)
            PROVE  HasSuccess(req[h].inv)'
        BY <1>2, <4>1, <4>2
      <4>3. QED
        BY <4>1, <4>2
    <3>4. InvOK(h)'
      BY <1>1, <3>1, <3>3 DEF InvOK
    <3>5. QED
      BY <1>1, <2>2, <3>1, <3>2, <3>4 DEF ServedOK
  <2>3. QED
    BY <2>1, <2>2
<1>7. QED
  BY <1>3, <1>5, <1>6 DEF IInv

LEMMA NextInvariant == IInv /\ [Next]_vars => IInv'
<1> SUFFICES ASSUME IInv, [Next]_vars PROVE IInv'
  OBVIOUS
<1>1. ASSUME NEW h \in Handlers, NEW i \in Pages, NEW plan \in Plans,
             CheckoutBegin(h, i, plan)
      PROVE  IInv'
  BY <1>1, CheckoutKeeps
<1>2. ASSUME NEW h \in Handlers, CheckoutAsk(h) PROVE IInv'
  BY <1>2, CheckoutAskKeeps
<1>3. ASSUME NEW h \in Handlers, CancelBegin(h) \/ BillBegin(h) PROVE IInv'
  BY <1>3, LoadsKeep
<1>4. ASSUME NEW h \in Handlers, BillCharge(h) PROVE IInv'
  BY <1>4, BillChargeKeeps
<1>5. ASSUME NEW h \in Handlers, BillNoCard(h) \/ BillAnswer(h) \/ WebhookVerify(h)
      PROVE  IInv'
  BY <1>5, VerifyKeeps
<1>6. ASSUME NEW h \in Handlers, NEW i \in Invoices, NEW k \in References,
             WebhookBegin(h, i, k)
      PROVE  IInv'
  BY <1>6, WebhookKeeps
<1>7. ASSUME NEW h \in Handlers, Commit(h) PROVE IInv'
  BY <1>7, CommitKeeps
<1>8. ASSUME NEW h \in Handlers, Abort(h) PROVE IInv'
  BY <1>8, AbortKeeps
<1>9. CASE \/ \E i \in Invoices, k \in References : PaystackSettles(i, k)
           \/ NextDay
           \/ UNCHANGED vars
  BY <1>9, WorldKeeps
<1>10. QED
  BY <1>1, <1>2, <1>3, <1>4, <1>5, <1>6, <1>7, <1>8, <1>9 DEF Next

(* rows change only by commits *)
LEMMA OnlyCommitsWrite ==
    ASSUME Next, Rows' # Rows
    PROVE  \E h \in Handlers : Commit(h)
<1>1. ASSUME NEW h \in Handlers, ~Commit(h),
             \/ \E i \in Pages, plan \in Plans : CheckoutBegin(h, i, plan)
             \/ CheckoutAsk(h) \/ CancelBegin(h)
             \/ BillBegin(h) \/ BillNoCard(h) \/ BillCharge(h) \/ BillAnswer(h)
             \/ \E i \in Invoices, k \in References : WebhookBegin(h, i, k)
             \/ WebhookVerify(h) \/ Abort(h)
      PROVE  UNCHANGED Rows
  BY <1>1 DEF CheckoutBegin, CheckoutAsk, CancelBegin, BillBegin, BillNoCard, BillCharge,
              BillAnswer, WebhookBegin, WebhookVerify, Answered, Starts, Abort, Rows
<1>2. ASSUME (\E i \in Invoices, k \in References : PaystackSettles(i, k)) \/ NextDay
      PROVE  UNCHANGED Rows
  BY <1>2 DEF PaystackSettles, NextDay, Rows
<1>3. QED
  BY <1>1, <1>2 DEF Next

(* However requests overlap and whatever Paystack answers, the invariant holds. *)
THEOREM Invariance == Spec => []IInv
<1>1. Init => IInv
  BY InitInvariant
<1>2. QED
  BY <1>1, NextInvariant, PTL DEF Spec

(* Rows, charges and requests keep their types: no request commits a column out of
   its range, whatever it had loaded. *)
THEOREM TypeCorrect == Spec => []TypeOK
<1>1. IInv => TypeOK
  BY DEF IInv
<1>2. QED
  BY <1>1, Invariance, PTL

(* Nothing is paid, granted or remembered of a card before Paystack collected
   money: mark_paid runs only on a charge that verify_transaction confirms. *)
THEOREM PaidWithCharge == Spec => []PaidMeansCharged
<1>1. IInv => PaidMeansCharged
  BY DEF IInv, RowsOK, SomeCharged, PaidMeansCharged
<1>2. QED
  BY <1>1, Invariance, PTL

(* A paid invoice is called unpaid again only by a request that had loaded it
   before it was paid. *)
THEOREM UnpaidByStaleWriter == Spec => OnlyStaleWritersUnpay
<1>1. IInv /\ [Next]_vars =>
        [\A i \in Invoices :
            inv[i].status = "PAID" /\ inv'[i].status # "PAID" =>
                \E h \in Handlers : req[h].inv = i /\ req[h].was.inv.status # "PAID"]_vars
  <2> SUFFICES ASSUME IInv, Next, NEW i \in Invoices,
                      inv[i].status = "PAID", inv'[i].status # "PAID"
               PROVE  \E h \in Handlers : req[h].inv = i /\ req[h].was.inv.status # "PAID"
    OBVIOUS
  <2>1. PICK h \in Handlers : Commit(h)
    BY OnlyCommitsWrite DEF Rows
  <2>2. req[h].at # "idle" /\ req[h].inv # None /\ InvOK(h)
    BY <2>1, LoadedRows DEF Commit
  <2>3. req[h].inv = i
    BY <2>1, CommittedRows
  <2>4. QED
    BY <2>2, <2>3 DEF InvOK
<1>2. QED
  BY <1>1, Invariance, PTL DEF Spec, OnlyStaleWritersUnpay

-----------------------------------------------------------------------------
(* Requests one at a time.  A request then commits over the rows it loaded, so
   what it will leave is known before it commits: its subscription, its invoice,
   and the organisation as it is or as the session has it. *)

OrgAfter(h) == IF req[h].is.org = req[h].was.org THEN org ELSE req[h].is.org

(* a lock has a lapse behind it, and stays due to be one: a failure that a webhook
   reports of a subscription that was cancelled lapses it again *)
LockOf(s, o) ==
    /\ s.status = "LAPSED" => o.locked
    /\ o.locked => /\ s.status \in {"LAPSED", "CANCELLED"}
                   /\ s.failed >= MaxAttempts \/ (s.grace # 0 /\ today > s.grace)

(* no unpaid invoice of the biller but i is of the period that starts then *)
OnlyRenewal(i, start) ==
    \A j \in Renewals \ {i} : inv[j].status \in {"PENDING", "FAILED"} => inv[j].start # start

(* the subscription that h's request will leave *)
SubAfterOK(h) ==
    /\ req[h].was.sub = sub
    /\ req[h].op # "checkout" /\ req[h].at # "ready" => req[h].is.sub = sub
    /\ LockOf(req[h].is.sub, OrgAfter(h))
    /\ req[h].was.org \in {req[h].is.org, org}

(* the period that the billing date will follow *)
PeriodAfterOK(h) ==
    /\ req[h].is.inv.status = "PAID" =>
        req[h].is.sub.next = req[h].is.inv.start + Length[req[h].is.inv.plan]
    /\ req[h].is.inv.status # "PAID" =>
        /\ sub.status # "ABSENT" => req[h].is.sub.next = sub.next
        /\ OrgAfter(h).plan = org.plan

(* the invoice it will leave *)
InvAfterOK(h) ==
    req[h].inv # None =>
        /\ req[h].was.inv = inv[req[h].inv]
        /\ req[h].was.inv.status # "ABSENT" => req[h].is.inv.start = req[h].was.inv.start
        /\ req[h].was.inv.status = "ABSENT" /\ req[h].inv \in Renewals =>
            OnlyRenewal(req[h].inv, req[h].is.inv.start)

AloneOK(h) ==
    req[h].at # "idle" =>
        /\ \A g \in Handlers \ {h} : req[g].at = "idle"
        /\ SubAfterOK(h) /\ PeriodAfterOK(h) /\ InvAfterOK(h)

SerialInv ==
    /\ IInv /\ LockOf(sub, org) /\ PeriodsFollowOn
    /\ \A h \in Handlers : AloneOK(h)

LEMMA InitSerial == Init => SerialInv
<1> SUFFICES ASSUME Init PROVE SerialInv
  OBVIOUS
<1>1. LockOf(sub, org)
  BY DEF Init, LockOf, NoSub, OnTrial
<1>2. PeriodsFollowOn
  BY DEF Init, PeriodsFollowOn, NoInv, OnTrial, Invoices
<1>3. \A h \in Handlers : AloneOK(h)
  BY DEF Init, AloneOK, Idle
<1>4. QED
  BY <1>1, <1>2, <1>3, InitInvariant DEF SerialInv

(* what h's request is made of, when it is alone *)
LEMMA AloneRows ==
    ASSUME SerialInv, NEW h \in Handlers, req[h].at # "idle"
    PROVE  /\ req[h] \in Request /\ req[h].was \in Session /\ req[h].is \in Session
           /\ req[h].is.sub \in SubRow /\ req[h].is.inv \in InvRow /\ req[h].is.org \in OrgRow
           /\ sub \in SubRow /\ org \in OrgRow /\ inv \in [Invoices -> InvRow]
           /\ today \in 1 .. LastDay
           /\ SubOK(h) /\ InvOK(h) /\ StageOK(h)
           /\ SubAfterOK(h) /\ PeriodAfterOK(h) /\ InvAfterOK(h)
           /\ \A g \in Handlers \ {h} : req[g].at = "idle"
BY LoadedRows DEF SerialInv, AloneOK, IInv, TypeOK, Request, Session

(* A step of h's request that leaves the rows alone only has to leave the request
   in order. *)
LEMMA ServingKeeps ==
    ASSUME SerialInv, IInv', NEW h \in Handlers, UNCHANGED <<today, sub, inv, org>>,
           \A g \in Handlers \ {h} : req[g].at = "idle" /\ req'[g] = req[g],
           AloneOK(h)'
    PROVE  SerialInv'
<1>1. LockOf(sub, org)' /\ PeriodsFollowOn'
  BY DEF SerialInv, LockOf, PeriodsFollowOn
<1>2. \A g \in Handlers : AloneOK(g)'
  BY DEF AloneOK
<1>3. QED
  BY <1>1, <1>2 DEF SerialInv

(* A request that has just started holds the subscription as it is, but for what a
   checkout or a cancellation changes in it. *)
LEMMA StartsAlone ==
    ASSUME SerialInv, IInv', ~Overlap, NEW h \in Handlers,
           NEW op \in {"checkout", "cancel", "bill", "webhook"},
           NEW at \in {"loaded", "ready"}, NEW i \in Invoices \cup {None},
           NEW was \in Session, NEW is \in Session,
           Starts(h, op, at, i, was, is),
           was.sub = sub, was.org = is.org, LockOf(is.sub, org),
           op # "checkout" /\ at # "ready" => is.sub = sub,
           is.inv.status # "PAID", sub.status # "ABSENT" => is.sub.next = sub.next,
           i # None => /\ was.inv = inv[i]
                       /\ i \in Renewals => op = "webhook"
                       /\ was.inv.status # "ABSENT" => is.inv = was.inv,
           op = "webhook" => was.inv.status # "ABSENT"
    PROVE  SerialInv'
<1>1. /\ req'[h].op = op /\ req'[h].at = at /\ req'[h].inv = i
      /\ req'[h].was = was /\ req'[h].is = is
      /\ \A g \in Handlers \ {h} : req[g].at = "idle" /\ req'[g] = req[g]
      /\ UNCHANGED <<today, sub, inv, org>>
  BY DEF Starts, MayStart, Rows, SerialInv, IInv, TypeOK
<1>2. OrgAfter(h)' = org
  BY <1>1 DEF OrgAfter
<1>3. SubAfterOK(h)'
  BY <1>1, <1>2 DEF SubAfterOK, LockOf
<1>4. PeriodAfterOK(h)'
  BY <1>1, <1>2 DEF PeriodAfterOK
<1>5. InvAfterOK(h)'
  BY <1>1 DEF InvAfterOK
<1>6. QED
  BY <1>1, <1>3, <1>4, <1>5, ServingKeeps DEF AloneOK

LEMMA StartsSerial ==
    ASSUME SerialInv, IInv', ~Overlap, NEW h \in Handlers,
           \/ \E i \in Pages, plan \in Plans : CheckoutBegin(h, i, plan)
           \/ CancelBegin(h) \/ BillBegin(h)
           \/ \E i \in Invoices, k \in References : WebhookBegin(h, i, k)
    PROVE  SerialInv'
<1>1. /\ sub \in SubRow /\ org \in OrgRow /\ inv \in [Invoices -> InvRow] /\ today \in Nat
      /\ LockOf(sub, org)
  BY BoundsAssumption DEF SerialInv, IInv, TypeOK
<1>2. NoInv \in InvRow /\ NoInv.status = "ABSENT" /\ Empty \in Session /\ OnTrial \in OrgRow
  BY ConstantTypes DEF NoInv
<1> DEFINE loaded == [Empty EXCEPT !.sub = sub]
<1>3. /\ loaded \in Session /\ loaded.sub = sub /\ loaded.inv = NoInv
      /\ loaded.org = OnTrial
  BY <1>1, <1>2 DEF Empty, Session
<1>4. CASE \E i \in Pages, plan \in Plans : CheckoutBegin(h, i, plan)
  <2>1. PICK i \in Pages, plan \in Plans : CheckoutBegin(h, i, plan)
    BY <1>4
  <2> DEFINE new == [NoSub EXCEPT !.status = "PAST_DUE", !.plan = plan, !.next = today]
             changed == [sub EXCEPT !.plan = plan]
             s == IF sub.status = "ABSENT" THEN new ELSE changed
             raised == [NoInv EXCEPT !.status = "PENDING", !.plan = plan, !.start = today]
             is == [sub |-> s, inv |-> raised, org |-> OnTrial]
  <2>2. s \in SubRow /\ LockOf(s, org) /\ (sub.status # "ABSENT" => s.next = sub.next)
    <3>1. CASE sub.status = "ABSENT"
      <4>1. new \in SubRow /\ new.status = "PAST_DUE"
        BY <1>1 DEF NoSub, SubRow, SubscriptionStatus
      <4>2. ~org.locked
        BY <1>1, <3>1 DEF LockOf
      <4> HIDE DEF new
      <4>3. QED
        BY <3>1, <4>1, <4>2 DEF LockOf
    <3>2. CASE sub.status # "ABSENT"
      <4>1. /\ changed \in SubRow /\ changed.status = sub.status /\ changed.next = sub.next
            /\ changed.failed = sub.failed /\ changed.grace = sub.grace
        BY <1>1 DEF SubRow
      <4> HIDE DEF changed
      <4>2. QED
        BY <1>1, <3>2, <4>1 DEF LockOf
    <3>3. QED
      BY <3>1, <3>2
  <2>3. raised \in InvRow /\ raised.status = "PENDING"
    BY <1>1, <1>2 DEF NoInv, InvRow
  <2>4. Starts(h, "checkout", "loaded", i, loaded, is)
    BY <2>1 DEF CheckoutBegin
  <2>5. /\ i \in Invoices /\ i \notin Renewals /\ inv[i] = NoInv
    BY <2>1, IdsAssumption DEF CheckoutBegin, Fresh, Invoices, SerialInv, IInv, RowsOK
  <2> HIDE DEF s, raised
  <2>6. is \in Session /\ is.sub = s /\ is.inv = raised /\ is.org = OnTrial
    BY <1>2, <2>2, <2>3 DEF Session
  <2> HIDE DEF is
  <2>7. QED
    BY <1>2, <1>3, <2>2, <2>3, <2>4, <2>5, <2>6, StartsAlone
<1>5. CASE CancelBegin(h)
  <2> DEFINE cancelled == [sub EXCEPT !.status = "CANCELLED"]
             is == [Empty EXCEPT !.sub = cancelled]
  <2>1. /\ cancelled \in SubRow /\ cancelled.status = "CANCELLED"
        /\ cancelled.next = sub.next /\ cancelled.failed = sub.failed
        /\ cancelled.grace = sub.grace
    BY <1>1 DEF SubRow, SubscriptionStatus
  <2>2. Starts(h, "cancel", "ready", None, loaded, is)
    BY <1>5 DEF CancelBegin
  <2> HIDE DEF cancelled, loaded
  <2>3. LockOf(cancelled, org)
    BY <1>1, <2>1 DEF LockOf
  <2>4. is \in Session /\ is.sub = cancelled /\ is.inv = NoInv /\ is.org = OnTrial
    BY <1>2, <2>1 DEF Empty, Session
  <2> HIDE DEF is
  <2>5. QED
    BY <1>2, <1>3, <2>1, <2>2, <2>3, <2>4, StartsAlone
<1>6. CASE BillBegin(h)
  <2>1. Starts(h, "bill", "loaded", None, loaded, loaded)
    BY <1>6 DEF BillBegin
  <2> HIDE DEF loaded
  <2>2. QED
    BY <1>1, <1>2, <1>3, <2>1, StartsAlone
<1>7. CASE \E i \in Invoices, k \in References : WebhookBegin(h, i, k)
  <2>1. PICK i \in Invoices, k \in References : WebhookBegin(h, i, k)
    BY <1>7
  <2> DEFINE rows == [Empty EXCEPT !.sub = sub, !.inv = inv[i]]
  <2>2. /\ rows \in Session /\ rows.sub = sub /\ rows.inv = inv[i] /\ rows.org = OnTrial
    BY <1>1, <1>2 DEF Empty, Session
  <2>3. inv[i].status \in {"PENDING", "FAILED"}
    BY <2>1 DEF WebhookBegin, Awaits
  <2>4. Starts(h, "webhook", "loaded", i, rows, rows)
    BY <2>1 DEF WebhookBegin
  <2> HIDE DEF rows
  <2>5. QED
    BY <1>1, <2>2, <2>3, <2>4, StartsAlone
<1>8. QED
  BY <1>4, <1>5, <1>6, <1>7

(* the rows of a request that Paystack has answered *)
LEMMA AnsweredAlone ==
    ASSUME SerialInv, IInv', NEW h \in Handlers, req[h].at # "idle", NEW rows \in Session,
           Answered(h, rows), LockOf(rows.sub, rows.org),
           rows.inv.status = "PAID" =>
                rows.sub.next = rows.inv.start + Length[rows.inv.plan],
           rows.inv.status # "PAID" =>
                rows.sub.next = req[h].is.sub.next /\ rows.org.plan = org.plan,
           rows.inv.start = req[h].is.inv.start,
           req[h].is.inv.status # "PAID"
    PROVE  SerialInv'
<1>1. /\ req[h] \in Request /\ req[h].was \in Session /\ SubAfterOK(h)
      /\ PeriodAfterOK(h) /\ InvAfterOK(h) /\ \A g \in Handlers \ {h} : req[g].at = "idle"
  BY AloneRows
<1>2. /\ req'[h].op = req[h].op /\ req'[h].at = "ready" /\ req'[h].inv = req[h].inv
      /\ req'[h].is = rows /\ req'[h].was.org = org
      /\ req'[h].was.sub = req[h].was.sub /\ req'[h].was.inv = req[h].was.inv
      /\ \A g \in Handlers \ {h} : req'[g] = req[g]
      /\ UNCHANGED <<today, sub, inv, org>>
  BY <1>1 DEF Answered, Rows, SerialInv, IInv, TypeOK, Request, Session
<1>3. OrgAfter(h)' = rows.org
  BY <1>2 DEF OrgAfter
<1>4. SubAfterOK(h)'
  BY <1>1, <1>2, <1>3 DEF SubAfterOK, LockOf
<1>5. PeriodAfterOK(h)'
  BY <1>1, <1>2, <1>3 DEF PeriodAfterOK
<1>6. InvAfterOK(h)'
  BY <1>1, <1>2 DEF InvAfterOK, OnlyRenewal
<1>7. QED
  BY <1>1, <1>2, <1>4, <1>5, <1>6, ServingKeeps DEF AloneOK

(* A failure locks the organisation in the same breath as it lapses the
   subscription, and lapses it again when it was locked before. *)
LEMMA DunnedLock ==
    ASSUME NEW rows \in Session, today \in 1 .. LastDay, LockOf(rows.sub, rows.org)
    PROVE  LockOf(Dunned(rows).sub, Dunned(rows).org)
<1> DEFINE out == OutOfRoad(rows.sub.failed + 1, GraceEnd(rows.sub))
           d == Dunned(rows)
<1>1. /\ rows.sub \in SubRow /\ GraceDays \in Nat /\ MaxAttempts \in Nat /\ today \in Nat
      /\ today >= 1 /\ rows.sub.failed \in Nat /\ rows.sub.grace \in Nat
  BY BoundsAssumption DEF Session, SubRow
<1>2. /\ d.sub.status = IF out THEN "LAPSED" ELSE "PAST_DUE"
      /\ d.sub.failed = rows.sub.failed + 1 /\ d.sub.grace = GraceEnd(rows.sub)
      /\ d.org.locked <=> rows.org.locked \/ out
  BY DunnedRows
<1> HIDE DEF d
<1>3. rows.org.locked => out
  BY <1>1 DEF LockOf, OutOfRoad, GraceEnd
<1>4. out => d.sub.failed >= MaxAttempts \/ (d.sub.grace # 0 /\ today > d.sub.grace)
  BY <1>1, <1>2 DEF OutOfRoad, GraceEnd
<1> HIDE DEF out
<1>5. QED
  BY <1>2, <1>3, <1>4 DEF LockOf, d

LEMMA AnswersSerial ==
    ASSUME SerialInv, IInv', NEW h \in Handlers,
           BillNoCard(h) \/ BillAnswer(h) \/ WebhookVerify(h)
    PROVE  SerialInv'
<1> DEFINE rows == Loaded(h)
<1>1. /\ req[h].at \notin {"idle", "ready"} /\ req[h].op # "checkout"
      /\ \/ Answered(h, Dunned(rows)) \/ Answered(h, MarkedFailed(rows))
         \/ req[h].inv # None /\ \E keeps \in BOOLEAN : Answered(h, MarkedPaid(rows, keeps))
  <2>1. req[h].at \notin {"idle", "ready"} /\ req[h].op # "checkout"
    BY DEF BillNoCard, BillAnswer, WebhookVerify
  <2>2. \/ Answered(h, Dunned(rows)) \/ Answered(h, MarkedFailed(rows))
        \/ /\ req[h].op = "webhook" \/ req[h].at = "asked"
           /\ \E keeps \in BOOLEAN : Answered(h, MarkedPaid(rows, keeps))
    BY DEF BillNoCard, BillAnswer, WebhookVerify
  <2>3. req[h].op = "webhook" \/ req[h].at = "asked" => req[h].inv # None
    BY <2>1, AloneRows DEF StageOK
  <2>4. QED
    BY <2>1, <2>2, <2>3
<1>2. /\ rows \in Session /\ rows.org = org /\ rows.sub = req[h].is.sub
      /\ rows.inv = req[h].is.inv /\ today \in 1 .. LastDay /\ rows.sub = sub
      /\ SubOK(h) /\ InvOK(h) /\ rows.inv.status # "PAID"
  BY <1>1, LoadedRows, AloneRows DEF SerialInv, SubAfterOK, StageOK
<1>3. LockOf(rows.sub, rows.org)
  BY <1>2 DEF SerialInv
<1> HIDE DEF rows
<1>4. CASE Answered(h, Dunned(rows))
  <2> DEFINE d == Dunned(rows)
  <2>1. /\ d \in Session /\ d.inv = rows.inv /\ d.org.plan = rows.org.plan
        /\ d.sub.next = rows.sub.next
    BY <1>2, DunnedRows
  <2>2. LockOf(d.sub, d.org)
    BY <1>2, <1>3, DunnedLock
  <2>3. Answered(h, d)
    BY <1>4
  <2> HIDE DEF d
  <2>4. QED
    BY <1>1, <1>2, <2>1, <2>2, <2>3, AnsweredAlone
<1>5. CASE Answered(h, MarkedFailed(rows))
  <2> DEFINE d == Dunned(rows)
             m == MarkedFailed(rows)
  <2>1. /\ m \in Session /\ m.sub = d.sub /\ m.org = d.org
        /\ m.inv.status = "FAILED" /\ m.inv.start = rows.inv.start
    BY <1>2, FailedRows
  <2>2. d.org.plan = rows.org.plan /\ d.sub.next = rows.sub.next
    BY <1>2, DunnedRows
  <2>3. LockOf(d.sub, d.org)
    BY <1>2, <1>3, DunnedLock
  <2>4. Answered(h, m)
    BY <1>5
  <2> HIDE DEF d, m
  <2>5. QED
    BY <1>1, <1>2, <2>1, <2>2, <2>3, <2>4, AnsweredAlone
<1>6. CASE req[h].inv # None /\ \E keeps \in BOOLEAN : Answered(h, MarkedPaid(rows, keeps))
  <2>1. PICK keeps \in BOOLEAN : Answered(h, MarkedPaid(rows, keeps))
    BY <1>6
  <2> DEFINE m == MarkedPaid(rows, keeps)
  <2>2. rows.inv.plan \in Plans
    BY <1>2, <1>6 DEF InvOK
  <2>3. /\ m \in Session /\ m.sub.status = "ACTIVE" /\ m.org.locked = FALSE
        /\ m.sub.next = rows.inv.start + Length[rows.inv.plan]
        /\ m.inv.status = "PAID" /\ m.inv.plan = rows.inv.plan
        /\ m.inv.start = rows.inv.start
    BY <1>2, <2>2, PaidRows
  <2>4. Answered(h, m)
    BY <2>1
  <2> HIDE DEF m
  <2>5. LockOf(m.sub, m.org)
    BY <2>3 DEF LockOf
  <2>6. QED
    BY <1>1, <1>2, <2>3, <2>4, <2>5, AnsweredAlone
<1>7. QED
  BY <1>1, <1>4, <1>5, <1>6

LEMMA AsksSerial ==
    ASSUME SerialInv, IInv', NEW h \in Handlers, CheckoutAsk(h) \/ BillCharge(h)
    PROVE  SerialInv'
<1>1. /\ req[h] \in Request /\ req[h].was \in Session /\ req[h].is \in Session
      /\ req[h].is.inv \in InvRow /\ SubAfterOK(h) /\ PeriodAfterOK(h) /\ InvAfterOK(h)
      /\ StageOK(h) /\ InvOK(h) /\ \A g \in Handlers \ {h} : req[g].at = "idle"
      /\ req[h].at = "loaded"
  BY AloneRows DEF CheckoutAsk, BillCharge
<1>2. /\ \A g \in Handlers \ {h} : req'[g] = req[g]
      /\ UNCHANGED <<today, sub, inv, org>>
  BY DEF CheckoutAsk, BillCharge, Rows, SerialInv, IInv, TypeOK
<1>3. CASE CheckoutAsk(h)
  <2>1. /\ req'[h].at = "ready" /\ req'[h].op = "checkout" /\ req'[h].inv = req[h].inv
        /\ req'[h].was = req[h].was /\ req'[h].is.sub = req[h].is.sub
        /\ req'[h].is.org = req[h].is.org /\ req'[h].is.inv.start = req[h].is.inv.start
        /\ req'[h].is.inv.status \in {req[h].is.inv.status, "FAILED"}
    BY <1>1, <1>3 DEF CheckoutAsk, SerialInv, IInv, TypeOK, Request, Session, InvRow
  <2>2. OrgAfter(h)' = OrgAfter(h)
    BY <1>2, <2>1 DEF OrgAfter
  <2>3. SubAfterOK(h)'
    BY <1>1, <1>2, <2>1, <2>2 DEF SubAfterOK, LockOf
  <2>4. PeriodAfterOK(h)'
    BY <1>1, <1>2, <2>1, <2>2 DEF PeriodAfterOK, StageOK
  <2>5. InvAfterOK(h)'
    BY <1>1, <1>2, <2>1 DEF InvAfterOK, OnlyRenewal
  <2>6. QED
    BY <1>1, <1>2, <2>3, <2>4, <2>5, ServingKeeps DEF AloneOK
<1>4. CASE BillCharge(h)
  <2> DEFINE found == Reusable(req[h].is.sub.next)
             raised == [NoInv EXCEPT !.status = "PENDING", !.plan = req[h].is.sub.plan,
                                     !.start = req[h].is.sub.next]
             due(i) == IF found = {} THEN raised ELSE inv[i]
             charged(i) == [due(i) EXCEPT !.ref = due(i).attempts + 1]
  <2>1. PICK i \in Invoices, at \in {"asked", "refused"} :
          /\ IF found = {} THEN Fresh(i, Renewals) ELSE i \in found
          /\ req' = [req EXCEPT ![h].at = at, ![h].inv = i, ![h].was.inv = inv[i],
                                ![h].is.inv = charged(i)]
    BY <1>4 DEF BillCharge
  <2>2. /\ req'[h].at = at /\ req'[h].op = req[h].op /\ req'[h].inv = i
        /\ req'[h].was.inv = inv[i] /\ req'[h].was.sub = req[h].was.sub
        /\ req'[h].was.org = req[h].was.org
        /\ req'[h].is.sub = req[h].is.sub /\ req'[h].is.org = req[h].is.org
        /\ req'[h].is.inv = charged(i)
    BY <1>1, <2>1 DEF SerialInv, IInv, TypeOK, Request, Session
  <2>3. /\ raised.status = "PENDING" /\ raised.start = req[h].is.sub.next
        /\ raised \in InvRow
    BY <1>1, ConstantTypes DEF NoInv, InvRow, Session, SubRow
  <2>4. \A j \in Invoices : inv[j] \in InvRow
    BY DEF SerialInv, IInv, TypeOK
  <2> HIDE DEF raised
  <2>5. /\ charged(i).status = due(i).status /\ charged(i).start = due(i).start
        /\ due(i).status # "PAID"
    BY <2>1, <2>3, <2>4 DEF InvRow, Reusable
  <2>6. /\ found = {} => due(i).start = req[h].is.sub.next
        /\ found # {} => due(i) = inv[i] /\ inv[i].status # "ABSENT"
    BY <2>1, <2>3 DEF Reusable
  <2> HIDE DEF charged, due
  <2>7. OrgAfter(h)' = OrgAfter(h)
    BY <1>2, <2>2 DEF OrgAfter
  <2>8. SubAfterOK(h)'
    BY <1>1, <1>2, <2>2, <2>7 DEF SubAfterOK, LockOf
  <2>9. PeriodAfterOK(h)'
    BY <1>1, <1>2, <2>2, <2>5, <2>7 DEF PeriodAfterOK, StageOK
  <2>10. InvAfterOK(h)'
    <3>1. found = {} => OnlyRenewal(i, req[h].is.sub.next)
      BY DEF Reusable, OnlyRenewal, Invoices
    <3> HIDE DEF found
    <3>2. CASE found = {}
      <4>1. OnlyRenewal(i, req'[h].is.inv.start)
        BY <2>2, <2>5, <2>6, <3>1, <3>2
      <4>2. QED
        BY <1>2, <2>1, <2>2, <3>2, <4>1 DEF InvAfterOK, OnlyRenewal, Fresh
    <3>3. CASE found # {}
      BY <1>2, <2>2, <2>5, <2>6, <3>3 DEF InvAfterOK
    <3>4. QED
      BY <3>2, <3>3
  <2>11. QED
    BY <1>1, <1>2, <2>8, <2>9, <2>10, ServingKeeps DEF AloneOK
<1>5. QED
  BY <1>3, <1>4

(* A request that is alone leaves the rows of its session, over the rows that it
   loaded. *)
LEMMA AloneCommits ==
    ASSUME SerialInv, NEW h \in Handlers, Commit(h)
    PROVE  /\ sub' = req[h].is.sub /\ org' = OrgAfter(h)
           /\ \A i \in Invoices : inv'[i] = IF i = req[h].inv THEN req[h].is.inv ELSE inv[i]
<1>1. /\ req[h] \in Request /\ req[h].was \in Session /\ req[h].is \in Session
      /\ req[h].is.sub \in SubRow /\ req[h].is.inv \in InvRow /\ req[h].is.org \in OrgRow
      /\ req[h].was.sub \in SubRow /\ req[h].was.inv \in InvRow /\ req[h].was.org \in OrgRow
      /\ sub \in SubRow /\ org \in OrgRow /\ inv \in [Invoices -> InvRow]
      /\ SubAfterOK(h) /\ InvAfterOK(h)
  BY AloneRows DEF Commit, Session
<1>2. sub' = req[h].is.sub
  BY <1>1, FlushedSame DEF Commit, SubAfterOK
<1>3. org' = OrgAfter(h)
  <2>1. req[h].was.org = req[h].is.org \/ req[h].was.org = org
    BY <1>1 DEF SubAfterOK
  <2>2. org' = Flushed(req[h].was.org, req[h].is.org, org)
    BY DEF Commit
  <2>3. QED
    BY <1>1, <2>1, <2>2, FlushedSame DEF OrgAfter
<1>4. \A i \in Invoices : inv'[i] = IF i = req[h].inv THEN req[h].is.inv ELSE inv[i]
  <2>1. CASE req[h].inv = None
    BY <1>1, <2>1, IdsAssumption DEF Commit, Invoices
  <2>2. CASE req[h].inv # None
    <3>1. PICK i \in Invoices : i = req[h].inv
      BY <1>1, <2>2 DEF Request
    <3>2. inv' = [inv EXCEPT ![i] = Flushed(req[h].was.inv, req[h].is.inv, inv[i])]
      BY <1>1, <2>2, <3>1 DEF Commit
    <3>3. Flushed(req[h].was.inv, req[h].is.inv, inv[i]) = req[h].is.inv
      BY <1>1, <2>2, <3>1, FlushedSame DEF InvAfterOK
    <3>4. QED
      BY <1>1, <3>1, <3>2, <3>3
  <2>3. QED
    BY <2>1, <2>2
<1>5. QED
  BY <1>2, <1>3, <1>4

LEMMA CommitSerial ==
    ASSUME SerialInv, IInv', NEW h \in Handlers, Commit(h)
    PROVE  SerialInv'
<1>1. /\ sub' = req[h].is.sub /\ org' = OrgAfter(h)
      /\ \A i \in Invoices : inv'[i] = IF i = req[h].inv THEN req[h].is.inv ELSE inv[i]
  BY AloneCommits
<1>2. /\ SubAfterOK(h) /\ PeriodAfterOK(h) /\ InvAfterOK(h) /\ InvOK(h)
      /\ req[h] \in Request /\ \A g \in Handlers \ {h} : req[g].at = "idle"
  BY AloneRows DEF Commit
<1>3. /\ today' = today /\ \A g \in Handlers : req'[g].at = "idle"
  BY <1>2 DEF Commit, Idle, SerialInv, IInv, TypeOK
<1>4. LockOf(sub, org)'
  BY <1>1, <1>2, <1>3 DEF SubAfterOK, LockOf
<1>5. ASSUME NEW i \in Renewals, NEW j \in Renewals, i # j,
             {inv'[i].status, inv'[j].status} \subseteq {"PENDING", "FAILED"},
             j # req[h].inv
      PROVE  inv'[i].start # inv'[j].start
  <2>1. i \in Invoices /\ j \in Invoices /\ inv'[j] = inv[j]
    BY <1>1, <1>5 DEF Invoices
  <2>2. CASE i # req[h].inv
    BY <1>1, <1>5, <2>1, <2>2 DEF SerialInv, PeriodsFollowOn
  <2>3. CASE i = req[h].inv
    <3>1. /\ req[h].inv # None /\ inv'[i] = req[h].is.inv /\ req[h].was.inv = inv[i]
      BY <1>1, <1>2, <2>1, <2>3, IdsAssumption DEF InvAfterOK, Invoices
    <3>2. CASE inv[i].status = "ABSENT"
      BY <1>2, <1>5, <2>1, <2>3, <3>1, <3>2 DEF InvAfterOK, OnlyRenewal
    <3>3. CASE inv[i].status # "ABSENT"
      <4>1. inv[i].status \in {"PENDING", "FAILED"} /\ req[h].is.inv.start = inv[i].start
        BY <1>2, <2>1, <2>3, <3>1, <3>3 DEF InvAfterOK, InvOK, SerialInv, IInv, TypeOK, InvRow
      <4>2. QED
        BY <1>5, <2>1, <3>1, <4>1 DEF SerialInv, PeriodsFollowOn
    <3>4. QED
      BY <3>2, <3>3
  <2>4. QED
    BY <2>2, <2>3
<1>6. ASSUME org'.plan # None
      PROVE  \E i \in Invoices : /\ inv'[i].status = "PAID"
                                 /\ sub'.next = inv'[i].start + Length[inv'[i].plan]
  <2>1. CASE req[h].is.inv.status = "PAID"
    <3>1. req[h].inv \in Invoices
      BY <1>2, <2>1, CommittedRows DEF SerialInv, Request
    <3>2. QED
      BY <1>1, <1>2, <2>1, <3>1 DEF PeriodAfterOK
  <2>2. CASE req[h].is.inv.status # "PAID"
    <3>1. org.plan # None
      BY <1>1, <1>2, <1>6, <2>2 DEF PeriodAfterOK
    <3>2. sub.status # "ABSENT"
      BY <3>1 DEF SerialInv, IInv, RowsOK, SomeCharged
    <3>3. sub'.next = sub.next
      BY <1>1, <1>2, <2>2, <3>2 DEF PeriodAfterOK
    <3>4. PICK i \in Invoices : /\ inv[i].status = "PAID"
                                /\ sub.next = inv[i].start + Length[inv[i].plan]
      BY <3>1 DEF SerialInv, PeriodsFollowOn
    <3>5. i # req[h].inv
      BY <1>2, <3>4, IdsAssumption DEF InvAfterOK, InvOK, Invoices
    <3>6. QED
      BY <1>1, <3>3, <3>4, <3>5
  <2>3. QED
    BY <2>1, <2>2
<1>7. PeriodsFollowOn'
  <2>1. ASSUME NEW i \in Renewals, NEW j \in Renewals, i # j,
               {inv'[i].status, inv'[j].status} \subseteq {"PENDING", "FAILED"}
        PROVE  inv'[i].start # inv'[j].start
    <3>1. CASE j # req[h].inv
      BY <1>5, <2>1, <3>1
    <3>2. CASE i # req[h].inv
      BY <1>5, <2>1, <3>2
    <3>3. QED
      BY <2>1, <3>1, <3>2
  <2>2. QED
    BY <1>6, <2>1 DEF PeriodsFollowOn
<1>8. QED
  BY <1>3, <1>4, <1>7 DEF SerialInv, AloneOK

(* a step that ends a request without a commit, or that is none of a request's *)
LEMMA RestSerial ==
    ASSUME SerialInv, IInv',
           \/ \E h \in Handlers : Abort(h)
           \/ \E i \in Invoices, k \in References : PaystackSettles(i, k)
           \/ NextDay
           \/ UNCHANGED vars
    PROVE  SerialInv'
<1>1. /\ UNCHANGED <<sub, inv, org>> /\ today' \in Nat /\ today \in Nat /\ today' >= today
      /\ \A g \in Handlers : req'[g].at = "idle" \/ req'[g] = req[g]
  <2>1. today \in Nat
    BY BoundsAssumption DEF SerialInv, IInv, TypeOK
  <2>2. CASE \E h \in Handlers : Abort(h)
    BY <2>1, <2>2 DEF Abort, Rows, Idle, SerialInv, IInv, TypeOK
  <2>3. CASE \E i \in Invoices, k \in References : PaystackSettles(i, k)
    BY <2>1, <2>3 DEF PaystackSettles, Rows
  <2>4. CASE NextDay \/ UNCHANGED vars
    BY <2>1, <2>4 DEF NextDay, Rows, vars
  <2>5. QED
    BY <2>2, <2>3, <2>4
<1>2. /\ sub \in SubRow
      /\ \A h \in Handlers : req[h].at # "idle" => req[h].is.sub \in SubRow
  BY DEF SerialInv, IInv, TypeOK, Request, Session
<1>3. LockOf(sub, org)'
  BY <1>1, <1>2 DEF SerialInv, LockOf, SubRow
<1>4. PeriodsFollowOn'
  BY <1>1 DEF SerialInv, PeriodsFollowOn
<1>5. ASSUME NEW h \in Handlers, req'[h].at # "idle"
      PROVE  /\ \A g \in Handlers \ {h} : req'[g].at = "idle"
             /\ SubAfterOK(h)' /\ PeriodAfterOK(h)' /\ InvAfterOK(h)'
  <2>1. /\ req'[h] = req[h] /\ req[h].at # "idle"
        /\ \A g \in Handlers \ {h} : req[g].at = "idle"
        /\ SubAfterOK(h) /\ PeriodAfterOK(h) /\ InvAfterOK(h)
        /\ req[h].is.sub \in SubRow
    BY <1>1, <1>2, <1>5, AloneRows
  <2>2. OrgAfter(h)' = OrgAfter(h)
    BY <1>1, <2>1 DEF OrgAfter
  <2>3. SubAfterOK(h)'
    BY <1>1, <2>1, <2>2 DEF SubAfterOK, LockOf, SubRow
  <2>4. PeriodAfterOK(h)' /\ InvAfterOK(h)'
    BY <1>1, <2>1, <2>2 DEF PeriodAfterOK, InvAfterOK, OnlyRenewal
  <2>5. QED
    BY <1>1, <2>1, <2>3, <2>4
<1>6. QED
  BY <1>3, <1>4, <1>5 DEF SerialInv, AloneOK

(* One at a time, requests keep the lock behind a lapse, the periods apart and the
   billing date behind a period that was paid. *)
THEOREM SerialInvariance == ~Overlap => (Spec => []SerialInv)
<1> SUFFICES ASSUME ~Overlap PROVE Spec => []SerialInv
  OBVIOUS
<1>1. Init => SerialInv
  BY InitSerial
<1>2. SerialInv /\ [Next]_vars => SerialInv'
  <2> SUFFICES ASSUME SerialInv, [Next]_vars PROVE SerialInv'
    OBVIOUS
  <2>1. IInv'
    BY NextInvariant DEF SerialInv
  <2>2. ASSUME NEW h \in Handlers,
               \/ \E i \in Pages, plan \in Plans : CheckoutBegin(h, i, plan)
               \/ CancelBegin(h) \/ BillBegin(h)
               \/ \E i \in Invoices, k \in References : WebhookBegin(h, i, k)
        PROVE  SerialInv'
    BY <2>1, <2>2, StartsSerial
  <2>3. ASSUME NEW h \in Handlers, CheckoutAsk(h) \/ BillCharge(h) PROVE SerialInv'
    BY <2>1, <2>3, AsksSerial
  <2>4. ASSUME NEW h \in Handlers, BillNoCard(h) \/ BillAnswer(h) \/ WebhookVerify(h)
        PROVE  SerialInv'
    BY <2>1, <2>4, AnswersSerial
  <2>5. ASSUME NEW h \in Handlers, Commit(h) PROVE SerialInv'
    BY <2>1, <2>5, CommitSerial
  <2>6. CASE \/ \E h \in Handlers : Abort(h)
             \/ \E i \in Invoices, k \in References : PaystackSettles(i, k)
             \/ NextDay
             \/ UNCHANGED vars
    BY <2>1, <2>6, RestSerial
  <2>7. QED
    BY <2>2, <2>3, <2>4, <2>5, <2>6 DEF Next
<1>3. QED
  BY <1>1, <1>2, PTL DEF Spec

(* The lock on the organisation follows the lapse of its subscription. *)
THEOREM LockWithLapse == ~Overlap => (Spec => []LockFollowsLapse)
<1>1. SerialInv => LockFollowsLapse
  BY DEF SerialInv, LockOf, LockFollowsLapse
<1>2. QED
  BY <1>1, SerialInvariance, PTL

(* Retries bill one period, and the next one starts where a paid one ended. *)
THEOREM OneInvoiceAPeriod == ~Overlap => (Spec => []PeriodsFollowOn)
<1>1. SerialInv => PeriodsFollowOn
  BY DEF SerialInv
<1>2. QED
  BY <1>1, SerialInvariance, PTL

(* The billing date moves only with the payment of an invoice that was unpaid. *)
THEOREM NewMoneyMovesTheDate == ~Overlap => (Spec => OldMoneyMovesNothing)
<1>1. SerialInv /\ [Next]_vars =>
        [sub.status # "ABSENT" /\ sub'.next # sub.next =>
            \E i \in Invoices : inv[i].status # "PAID" /\ inv'[i].status = "PAID"]_vars
  <2> SUFFICES ASSUME SerialInv, Next, sub.status # "ABSENT", sub'.next # sub.next
               PROVE  \E i \in Invoices : inv[i].status # "PAID" /\ inv'[i].status = "PAID"
    OBVIOUS
  <2>1. PICK h \in Handlers : Commit(h)
    BY OnlyCommitsWrite DEF Rows
  <2>2. /\ PeriodAfterOK(h) /\ InvAfterOK(h) /\ InvOK(h) /\ req[h] \in Request
    BY <2>1, AloneRows DEF Commit
  <2>3. req[h].is.inv.status = "PAID"
    BY <2>1, <2>2, AloneCommits DEF PeriodAfterOK
  <2>4. req[h].inv \in Invoices /\ req[h].inv # None
    BY <2>1, <2>2, <2>3, CommittedRows DEF SerialInv, Request
  <2>5. inv[req[h].inv].status # "PAID" /\ inv'[req[h].inv] = req[h].is.inv
    BY <2>1, <2>2, <2>4, AloneCommits DEF InvAfterOK, InvOK
  <2>6. QED
    BY <2>3, <2>4, <2>5
<1>2. QED
  BY <1>1, SerialInvariance, PTL DEF Spec, OldMoneyMovesNothing
==============================================================================
