-------------------------------- MODULE Bulk --------------------------------
(***************************************************************************)
(* What many tenants are sent at once: bulk operations, previewed and then *)
(* executed (services/bulk_service.py), and the formal demands of the      *)
(* nightly sweep or of a manager (services/demand_letter_service.py).      *)
(*                                                                         *)
(* A run is one transaction, unless a webhook commits in the middle of it; *)
(* its messages leave before the commit and cannot be taken back.  A       *)
(* telling is a pair of what is told (the key of the operation, or the     *)
(* label of a demand) and the tenancy.  A message that fails in delivery   *)
(* is no exception, and nobody looks at how it went.                       *)
(*                                                                         *)
(* Left out: renewal notices (their offers are in Tenancies), the          *)
(* distribution of a document (it runs as an announcement does), who is in *)
(* scope, the advertised rent of the unit, and the wording.                *)
(***************************************************************************)
EXTENDS Naturals

CONSTANTS
    Lets,          \* the live tenancies, keys of tenancies
    Operations,    \* keys of bulk_operations
    Officers,      \* requests and tasks that can be in flight at a time
    FirstRent,     \* monthly_rent of everybody at first
    HighestRent,   \* bound: a rent never goes above it
    LastPeriod,    \* the last month looked at
    MaxRuns        \* bound: how many requests are looked at

ASSUME BulkAssumption ==
    /\ {FirstRent, HighestRent, LastPeriod, MaxRuns} \subseteq Nat
    /\ FirstRent \in 1 .. HighestRent /\ LastPeriod > 0
    /\ Operations \cap {"demands", "first demand", "final demand"} = {}
    /\ "flush" \notin Lets

VARIABLES
    period,   \* the month it is
    roll,     \* the committed rows
    officer,  \* the request each session is serving
    ordered,  \* how many requests have begun
    told,     \* how often the provider took each telling
    heard,    \* the rent that an operation told a tenant of, or 0
    undelivered   \* the tellings of operations whose last message failed or was skipped

bulkVars == <<period, roll, officer, ordered, told, heard, undelivered>>

Run == INSTANCE Sessions WITH Workers <- Officers, MaxRequests <- MaxRuns,
           db <- roll, work <- officer, begun <- ordered

Kinds == {"RENT_INCREASE", "PAYMENT_REMINDER", "ANNOUNCEMENT", "GENERATE_INVOICES"}
Finished == {"COMPLETED", "PARTIAL", "FAILED"}
Labels == {"first demand", "final demand"}
Periods == 1 .. LastPeriod
Rents == 1 .. HighestRent

(* billed: the last month invoiced; since: the month of the oldest open
   invoice, or 0; filed: the demands in the tenant's vault *)
NewLet == [rent |-> FirstRent, billed |-> 0, since |-> 0, filed |-> {}]

Unplanned == [kind |-> "none", status |-> "none", targets |-> {},
              newRent |-> [t \in Lets |-> 0], failed |-> {}]

IsRoll(rows) ==
    /\ rows.let \in [Lets -> [rent : Rents, billed : 0 .. LastPeriod,
                              since : 0 .. LastPeriod, filed : SUBSET Labels]]
    /\ rows.op \in [Operations ->
            [kind : Kinds \cup {"none"}, targets : SUBSET Lets,
             newRent : [Lets -> 0 .. HighestRent], failed : SUBSET Lets,
             status : Finished \cup {"none", "PREVIEWED", "RUNNING", "CANCELLED"}]]

Tellings == (Operations \cup Labels) \X Lets

(* rest: the targets that a run has not come to, and its first flush; or the
   tenancies that the sweep has still to look at *)
Flush == "flush"
Rests == (Operations \X (Lets \cup {Flush})) \cup ({"demands"} \X Lets)

BulkTypeOK ==
    /\ period \in Periods /\ ordered \in 0 .. MaxRuns
    /\ IsRoll(roll)
    /\ \A c \in Officers : Run!IsWork(officer[c], IsRoll, Rests)
    /\ told \in [Tellings -> Nat] /\ heard \in [Operations \X Lets -> 0 .. HighestRent]
    /\ undelivered \subseteq Operations \X Lets

BulkInit ==
    /\ period = 1
    /\ roll = [let |-> [t \in Lets |-> NewLet], op |-> [o \in Operations |-> Unplanned]]
    /\ officer = [c \in Officers |-> Run!Idle]
    /\ ordered = 0
    /\ told = [x \in Tellings |-> 0]
    /\ heard = [x \in Operations \X Lets |-> 0]
    /\ undelivered = {}

Unsaid == UNCHANGED <<told, heard, undelivered>>

NothingSaid == UNCHANGED period /\ Unsaid

Delivers(x) ==
    /\ told' = [told EXCEPT ![x] = @ + 1]
    /\ undelivered' = undelivered \ {x}

FailsToDeliver(x) ==
    /\ undelivered' = undelivered \cup {x}
    /\ UNCHANGED <<told, heard>>

(* notification_service.send: the provider refuses the message, cannot be
   reached, or has no number to send it to, and send returns all the same *)
Says(x) ==
    \/ Delivers(x) /\ UNCHANGED heard
    \/ FailsToDeliver(x)

SaysRent(x, rent) ==
    \/ Delivers(x) /\ heard' = [heard EXCEPT ![x] = rent]
    \/ FailsToDeliver(x)

(* a demand that fails in delivery is on file like any other *)
SaysDemand(x) ==
    \/ Delivers(x) /\ UNCHANGED heard
    \/ Unsaid

-----------------------------------------------------------------------------
(* Bulk operations *)

Owing(t) == roll.let[t].since # 0

(* preview: the targets are written into the row *)
Preview(c, o, kind) ==
    LET targets == {t \in Lets : kind = "PAYMENT_REMINDER" => Owing(t)}
    IN  /\ Run!Fresh("op", o, Unplanned)
        /\ kind = "RENT_INCREASE" => \A t \in Lets : roll.let[t].rent < HighestRent
        /\ Run!Prepares(c, [roll EXCEPT !.op[o] =
                [kind |-> kind, status |-> "PREVIEWED", targets |-> targets, failed |-> {},
                 newRent |-> [t \in Lets |->
                    IF kind = "RENT_INCREASE" THEN roll.let[t].rent + 1 ELSE 0]]])
        /\ NothingSaid

(* cancel *)
Cancel(c, o) ==
    /\ roll.op[o].status = "PREVIEWED"
    /\ Run!Prepares(c, [roll EXCEPT !.op[o].status = "CANCELLED"])
    /\ NothingSaid

Runnable(o) == roll.op[o].status = "PREVIEWED"

(* execute, up to its first flush *)
Execute(c, o) ==
    /\ Runnable(o)
    /\ Run!PreparesOne(c, [roll EXCEPT !.op[o].status = "COMPLETED", !.op[o].failed = {}],
                       {<<o, t>> : t \in roll.op[o].targets \cup {Flush}})
    /\ NothingSaid

Runs(c, o) ==
    officer[c].at = "ready" /\ officer[c].is.op[o].status \in Finished
        /\ officer[c].is.op[o] # officer[c].was.op[o]

(* the first flush locks the operation's row until the transaction ends *)
Flushed(c, o) == Runs(c, o) /\ <<o, Flush>> \notin officer[c].rest

Locks(c, o) == Flushed(c, o) /\ officer[c].was.op[o].status # "RUNNING"

Locked(c, o) == \E d \in Officers \ {c} : Locks(d, o)

(* db.flush in execute *)
FlushRun(c, o) ==
    /\ officer[c].at = "ready" /\ <<o, Flush>> \in officer[c].rest
    /\ ~Locked(c, o)
    /\ officer' = [officer EXCEPT ![c].rest = @ \ {<<o, Flush>>}]
    /\ UNCHANGED <<roll, ordered>> /\ NothingSaid

Outcome(op, failed) ==
    [op EXCEPT !.failed = failed,
               !.status = IF failed = {} THEN "COMPLETED"
                          ELSE IF failed # op.targets THEN "PARTIAL" ELSE "FAILED"]

(* the loop of execute comes to target t, whose row it reads only now; ok is
   FALSE when the handler raised *)
Comes(c, o, t, row, ok) ==
    LET mine == officer[c]
        failed == mine.is.op[o].failed \cup (IF ok THEN {} ELSE {t})
    IN  /\ Flushed(c, o) /\ <<o, t>> \in mine.rest
        /\ officer' = [officer EXCEPT ![c] =
                [at |-> "ready", seen |-> mine.seen, was |-> [mine.was EXCEPT !.let[t] = roll.let[t]],
                 is |-> [mine.is EXCEPT !.let[t] = row, !.op[o] = Outcome(@, failed)],
                 rest |-> mine.rest \ {<<o, t>>}]]
        /\ UNCHANGED <<roll, ordered, period>>

RaiseRecomputed(c, o, t) ==   \* mutant: raises the rent of today, not the previewed one
    /\ roll.op[o].kind = "RENT_INCREASE"
    /\ \/ /\ Comes(c, o, t, [roll.let[t] EXCEPT !.rent =
                        IF @ < HighestRent THEN @ + 1 ELSE @], TRUE)
          /\ SaysRent(<<o, t>>, roll.op[o].newRent[t])
       \/ /\ Comes(c, o, t, [roll.let[t] EXCEPT !.rent = roll.op[o].newRent[t]], FALSE)
          /\ Unsaid

(* _run_rent_increase; when the store does not take the written notice, the
   exception comes after the rent was set and before the message *)
RaiseRent(c, o, t) ==
    /\ roll.op[o].kind = "RENT_INCREASE"
    /\ \/ /\ Comes(c, o, t, [roll.let[t] EXCEPT !.rent = roll.op[o].newRent[t]], TRUE)
          /\ SaysRent(<<o, t>>, roll.op[o].newRent[t])
       \/ /\ Comes(c, o, t, [roll.let[t] EXCEPT !.rent = roll.op[o].newRent[t]], FALSE)
          /\ Unsaid

(* _run_payment_reminders: who has paid meanwhile is told nothing *)
Remind(c, o, t) ==
    /\ roll.op[o].kind = "PAYMENT_REMINDER"
    /\ Comes(c, o, t, roll.let[t], TRUE)
    /\ IF Owing(t) THEN Says(<<o, t>>) ELSE Unsaid

(* _run_announcement *)
Announce(c, o, t) ==
    /\ roll.op[o].kind = "ANNOUNCEMENT"
    /\ Comes(c, o, t, roll.let[t], TRUE)
    /\ Says(<<o, t>>)

Billed(row) ==
    [row EXCEPT !.billed = period, !.since = IF row.since = 0 THEN period ELSE row.since]

(* the unique key (tenancy, period_start) makes a second INSERT wait *)
Inserting(c, t) ==
    \E d \in Officers \ {c} : officer[d].at = "ready"
        /\ officer[d].is.let[t].billed # officer[d].was.let[t].billed

(* somebody has subscribed to the event: what the run has done so far is
   committed with the announcement of the invoice, and it goes on in a
   transaction of its own *)
Dispatches(c, o, t, row) ==
    LET mine == officer[c]
        now == Run!Merged([mine.was EXCEPT !.let[t] = roll.let[t]],
                          [mine.is EXCEPT !.let[t] = row,
                              !.op[o] = [mine.was.op[o] EXCEPT !.status = "RUNNING"]], roll)
        after == [now EXCEPT !.op[o] = Outcome(now.op[o], mine.is.op[o].failed)]
    IN  /\ Flushed(c, o) /\ <<o, t>> \in mine.rest
        /\ roll' = now
        /\ officer' = [officer EXCEPT ![c] =
                [at |-> "ready", seen |-> IF mine.seen = roll THEN now ELSE mine.seen,
                 was |-> now, is |-> after, rest |-> mine.rest \ {<<o, t>>}]]
        /\ UNCHANGED <<ordered, period>>

(* _run_generate_invoices; as with a notice, an invoice whose PDF cannot be
   stored has been flushed and stays *)
InvoiceNow(c, o, t) ==
    /\ roll.op[o].kind = "GENERATE_INVOICES"
    /\ ~Inserting(c, t)
    /\ \/ /\ roll.let[t].billed = period
          /\ Comes(c, o, t, roll.let[t], TRUE) /\ Unsaid
       \/ /\ roll.let[t].billed # period
          /\ Comes(c, o, t, Billed(roll.let[t]), FALSE) /\ Unsaid
       \/ /\ roll.let[t].billed # period
          /\ Comes(c, o, t, Billed(roll.let[t]), TRUE) \/ Dispatches(c, o, t, Billed(roll.let[t]))
          /\ Says(<<o, t>>)

-----------------------------------------------------------------------------
(* Formal demands *)

Overdue(t) == IF Owing(t) THEN period - roll.let[t].since ELSE 0

(* escalation_for, with months for its 30 days; a demand by hand is a first demand before it is due *)
Label(t) == IF Overdue(t) >= 3 THEN "final demand" ELSE "first demand"

DemandDue(t) == Overdue(t) >= 2

(* _already_issued *)
Filed(t) == Label(t) \in roll.let[t].filed

WithDemand(t) == [roll EXCEPT !.let[t].filed = @ \cup {Label(t)}]

(* issue_for_tenancy, which does not look for an earlier demand *)
DemandByHand(c, t) ==
    /\ Overdue(t) >= 1
    /\ Run!Begins(c)
    /\ officer' = [officer EXCEPT ![c] = Run!Ready(roll, WithDemand(t), {})]
    /\ SaysDemand(<<Label(t), t>>)
    /\ UNCHANGED <<roll, period>>

(* issue_due_letters: the tenancies are listed at the start *)
StartDemands(c) ==
    /\ Run!Starts(c, {<<"demands", t>> : t \in {x \in Lets : DemandDue(x)}})
    /\ NothingSaid

(* issue, rendered, filed, sent and then committed for each tenancy *)
SendDemand(c, t) ==
    /\ officer[c].at = "between" /\ <<"demands", t>> \in officer[c].rest
    /\ DemandDue(t) /\ ~Filed(t)
    /\ Run!Continues(c, WithDemand(t), officer[c].rest \ {<<"demands", t>>})
    /\ SaysDemand(<<Label(t), t>>)
    /\ UNCHANGED period

(* the commit of a letter fails, and the sweep goes on to the next one *)
LoseDemand(c) ==
    /\ officer[c].at = "ready" /\ officer[c].rest # {}
    /\ officer[c].rest \subseteq {"demands"} \X Lets
    /\ officer' = [officer EXCEPT ![c] = Run!Between(@.seen, @.rest)]
    /\ UNCHANGED <<roll, ordered>> /\ NothingSaid

(* on file already, paid meanwhile, or an exception that is logged *)
SkipDemand(c, t) ==
    /\ officer[c].at = "between" /\ <<"demands", t>> \in officer[c].rest
    /\ Run!Steps(c, roll, officer[c].rest \ {<<"demands", t>>})
    /\ NothingSaid

-----------------------------------------------------------------------------
(* update_tenancy: a rent set by hand *)
SetRent(c, t, rent) ==
    /\ Run!Prepares(c, [roll EXCEPT !.let[t].rent = rent]) /\ NothingSaid

(* generate_due_invoices *)
DailyInvoices(c) ==
    /\ \A t \in Lets : ~Inserting(c, t)
    /\ Run!Prepares(c, [roll EXCEPT !.let = [t \in Lets |->
            IF roll.let[t].billed = period THEN roll.let[t] ELSE Billed(roll.let[t])]])
    /\ NothingSaid

(* the tenant pays what is open *)
Pay(c, t) ==
    Run!Prepares(c, [roll EXCEPT !.let[t].since = 0]) /\ NothingSaid

Doubles(c, t) ==
    /\ officer[c].is.let[t].billed # officer[c].was.let[t].billed
    /\ officer[c].is.let[t].billed = roll.let[t].billed

SaveBulk(c) ==
    /\ officer[c].at = "ready"
    /\ officer[c].rest \subseteq {"demands"} \X Lets
    /\ \A o \in Operations : officer[c].is.op[o] # officer[c].was.op[o] => ~Locked(c, o)
    /\ \A t \in Lets : ~Doubles(c, t)
    /\ Run!Saves(c) /\ NothingSaid

DropBulk(c) == Run!Drops(c) /\ NothingSaid

NextPeriod ==
    /\ period < LastPeriod
    /\ period' = period + 1
    /\ UNCHANGED <<roll, officer, ordered>> /\ Unsaid

Comings(c) ==
    \E o \in Operations :
        \/ Execute(c, o) \/ FlushRun(c, o) \/ Cancel(c, o)
        \/ \E kind \in Kinds : Preview(c, o, kind)
        \/ \E t \in Lets :
            RaiseRent(c, o, t) \/ Remind(c, o, t) \/ Announce(c, o, t) \/ InvoiceNow(c, o, t)

RentsByHand(c) == \E t \in Lets, rent \in Rents : SetRent(c, t, rent)

Demands(c) ==
    \/ StartDemands(c) \/ LoseDemand(c)
    \/ \E t \in Lets : DemandByHand(c, t) \/ SendDemand(c, t) \/ SkipDemand(c, t)

Others(c) ==
    \/ SaveBulk(c) \/ DropBulk(c) \/ DailyInvoices(c)
    \/ \E t \in Lets : Pay(c, t)

(* operations and demands share only what is owed, so that they can be looked
   at one by one *)
OperationsNext == NextPeriod \/ \E c \in Officers : Comings(c) \/ RentsByHand(c) \/ Others(c)
DemandsNext == NextPeriod \/ \E c \in Officers : Demands(c) \/ Others(c)

BulkNext == OperationsNext \/ DemandsNext

BulkSpec == BulkInit /\ [][BulkNext]_bulkVars

-----------------------------------------------------------------------------
(* Properties *)

(* what was told and is on record as told *)
OnRecord(k, t) ==
    \/ k \in Operations /\ roll.op[k].status \in Finished
    \/ k \in Labels /\ k \in roll.let[t].filed

Underway(o) == roll.op[o].status \in {"PREVIEWED", "RUNNING"}

(* this step is of a session that goes by rows which have changed since it read
   them, or which had changed by the time it came to them *)
Outdated(c) ==
    /\ officer[c].at # "idle" /\ officer'[c] # officer[c]
    /\ \/ officer[c].seen # roll
       \/ officer[c].at = "ready" /\ officer[c].seen # officer[c].was

(* told before and now again: the first telling was lost with its transaction,
   or a manager issues a demand by hand *)
ToldAgainForAReason ==
    \A k \in Operations \cup Labels, t \in Lets :
        told[<<k, t>>] > 0 /\ told'[<<k, t>>] # told[<<k, t>>] =>
            ~OnRecord(k, t) \/ (k \in Labels /\ ordered' # ordered)

(* told of an operation that has been previewed and not cancelled *)
ToldWhileUnderway ==
    \A o \in Operations, t \in Lets : told'[<<o, t>>] # told[<<o, t>>] => Underway(o)

(* the operations whose run is committed by this step *)
Concludes(o) == Underway(o) /\ roll'.op[o].status \in Finished

(* everybody not named among the failures heard what was done, or the message
   to him failed in delivery *)
HeardOfIt(o) ==
    \A t \in roll.op[o].targets \ roll'.op[o].failed : <<o, t>> \notin undelivered =>
        /\ roll.op[o].kind \in {"RENT_INCREASE", "ANNOUNCEMENT"} => told[<<o, t>>] > 0
        /\ roll.op[o].kind = "RENT_INCREASE" => heard[<<o, t>>] = roll'.let[t].rent

(* bulk_service.py:3-7, demand_letter_service.py:12-13.  Unless two
   sessions overlap, nobody is told of an operation that was cancelled, but
   by a run whose transaction was lost; nobody is told a second time of one that
   is on record, except by a demand issued by hand; and when a run is committed,
   every target that it does not report as failed was told, and of the rent
   that is now in force, unless his last message failed in delivery. *)
TenantsHearOnceWhatIsDone ==
    [][ \/ \E c \in Officers : Outdated(c)
        \/ /\ ToldAgainForAReason
           /\ ToldWhileUnderway
           /\ \A o \in Operations : Concludes(o) => HeardOfIt(o)]_bulkVars
=============================================================================
