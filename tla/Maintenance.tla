----------------------------- MODULE Maintenance -----------------------------
(***************************************************************************)
(* Repairs: the life of a maintenance request, the vendors who do the work *)
(* and what a finished job costs them and the owner                        *)
(* (services/maintenance_service.py, vendor_service.py, the deductions of  *)
(* agency_service.py).                                                     *)
(*                                                                         *)
(* Every change of status is announced by webhook_service.dispatch, which  *)
(* commits when somebody subscribes to it: what the handler still has to   *)
(* write then goes into a second transaction.                              *)
(*                                                                         *)
(* A month stands for whatever unit periods are counted in: a disbursement *)
(* covers any stretch of them.                                             *)
(***************************************************************************)
EXTENDS Naturals, FiniteSets

CONSTANTS
    Tickets,        \* keys of the maintenance_requests table
    Vendors,
    Crew,        \* requests that can be in flight at a time
    LastMonth,   \* the last month looked at
    MaxErrands   \* bound: how many requests are looked at

ASSUME MaintenanceAssumption ==
    /\ IsFiniteSet(Tickets) /\ "none" \notin Vendors
    /\ LastMonth \in Nat \ {0} /\ MaxErrands \in Nat

VARIABLES
    hooked,   \* whether an endpoint subscribes to the changes of status
    period,   \* the month
    repairs,  \* the committed rows
    errand,   \* the request each session is serving
    errands,  \* how many requests have begun
    charged,  \* the periods of the disbursements that deducted the job from the owner
    raced,    \* history: a request committed over rows that had changed
    redone,   \* history: a finished job was completed again
    cut       \* history: the jobs whose completion ended between its two transactions

maintenanceVars == <<hooked, period, repairs, errand, errands, charged, raced, redone, cut>>

Site == INSTANCE Sessions WITH Workers <- Crew, MaxRequests <- MaxErrands,
            db <- repairs, work <- errand, begun <- errands

NoVendor == "none"

(* ALLOWED_TRANSITIONS *)
Leaves ==
    [SUBMITTED    |-> {"UNDER_REVIEW", "APPROVED", "REJECTED", "CANCELLED"},
     UNDER_REVIEW |-> {"APPROVED", "REJECTED", "CANCELLED"},
     APPROVED     |-> {"ASSIGNED", "IN_PROGRESS", "COMPLETED", "CANCELLED"},
     ASSIGNED     |-> {"IN_PROGRESS", "COMPLETED", "CANCELLED"},
     IN_PROGRESS  |-> {"COMPLETED", "CANCELLED"},
     COMPLETED    |-> {"CLOSED"},
     REJECTED |-> {}, CLOSED |-> {}, CANCELLED |-> {}]

Billable == {"COMPLETED", "CLOSED"}

(* cost: the actual cost is recorded; done: the month of completed_at *)
Unreported == [status |-> "none", vendor |-> NoVendor, cost |-> FALSE, done |-> 0]

IsRepairs(rows) ==
    /\ rows.job \in [Tickets -> [status : DOMAIN Leaves \cup {"none"}, cost : BOOLEAN,
                              vendor : Vendors \cup {NoVendor}, done : 0 .. LastMonth]]
    /\ rows.vendor \in [Vendors -> [active : BOOLEAN, jobs : 0 .. MaxErrands]]

MaintenanceTypeOK ==
    /\ hooked \in BOOLEAN /\ period \in 1 .. LastMonth /\ errands \in 0 .. MaxErrands
    /\ IsRepairs(repairs)
    /\ \A c \in Crew : Site!IsWork(errand[c], IsRepairs,
            {"assign", "vendor", "complete"} \X Tickets \X (Vendors \cup {NoVendor}))
    /\ charged \in [Tickets -> SUBSET ((1 .. LastMonth) \X (1 .. LastMonth))]
    /\ raced \in BOOLEAN /\ redone \in BOOLEAN /\ cut \subseteq Tickets

MaintenanceInit ==
    /\ hooked \in BOOLEAN /\ period = 1
    /\ repairs = [job    |-> [j \in Tickets |-> Unreported],
                  vendor |-> [v \in Vendors |-> [active |-> TRUE, jobs |-> 0]]]
    /\ errand = [c \in Crew |-> Site!Idle]
    /\ errands = 0
    /\ charged = [j \in Tickets |-> {}]
    /\ raced = FALSE /\ redone = FALSE /\ cut = {}

-----------------------------------------------------------------------------
(* The requests *)

Ticket(j) == repairs.job[j]

(* assert_transition: a job may become what it is *)
MayTurn(j, target) ==
    Ticket(j).status # "none" /\ target \in Leaves[Ticket(j).status] \cup {Ticket(j).status}

Turned(rows, j, target) == [rows EXCEPT !.job[j].status = target]

Unmoved == UNCHANGED <<hooked, period, charged, raced, cut>>

(* create_maintenance_request *)
ReportJob(c, j) ==
    /\ Site!Fresh("job", j, Unreported)
    /\ Site!Prepares(c, Turned(repairs, j, "SUBMITTED"))
    /\ Unmoved /\ UNCHANGED redone

(* start_review, request_more_info, reject, start_work, cancel, close *)
Turn(c, j, target) ==
    /\ MayTurn(j, target)
    /\ target = "CLOSED" => Ticket(j).cost
    /\ Site!Prepares(c, Turned(repairs, j, target))
    /\ Unmoved /\ UNCHANGED redone

Given(rows, j, v) == [Turned(rows, j, "ASSIGNED") EXCEPT !.job[j].vendor = v]

(* approve, with the vendor or without *)
ApproveJob(c, j, v) ==
    /\ MayTurn(j, "APPROVED")
    /\ IF hooked
       THEN Site!PreparesOne(c, Turned(repairs, j, "APPROVED"),
                IF v = NoVendor THEN {} ELSE {<<"assign", j, v>>})
       ELSE IF v = NoVendor THEN Site!Prepares(c, Turned(repairs, j, "APPROVED"))
            ELSE repairs.vendor[v].active /\ Site!Prepares(c, Given(repairs, j, v))
    /\ Unmoved /\ UNCHANGED redone

(* assign_vendor *)
AssignVendor(c, j, v) ==
    /\ MayTurn(j, "ASSIGNED") /\ repairs.vendor[v].active
    /\ IF hooked
       THEN Site!PreparesOne(c, Turned(repairs, j, "ASSIGNED"), {<<"vendor", j, v>>})
       ELSE Site!Prepares(c, Given(repairs, j, v))
    /\ Unmoved /\ UNCHANGED redone

FinishedUncounted(rows, j, v, counters) ==   \* mutant: record_job_result is not called
    [rows EXCEPT !.job[j] = [@ EXCEPT !.status = "COMPLETED", !.cost = TRUE, !.done = period]]

(* what complete writes, and record_job_result on the counters it has loaded *)
Finished(rows, j, v, counters) ==
    [rows EXCEPT
        !.job[j] = [@ EXCEPT !.status = "COMPLETED", !.cost = TRUE, !.done = period],
        !.vendor = [x \in Vendors |->
            IF x = v THEN [@[x] EXCEPT !.jobs = counters[x].jobs + 1] ELSE @[x]]]

(* complete *)
CompleteJob(c, j) ==
    LET v == Ticket(j).vendor
    IN  /\ MayTurn(j, "COMPLETED")
        /\ IF hooked
           THEN Site!PreparesOne(c, Turned(repairs, j, "COMPLETED"), {<<"complete", j, v>>})
           ELSE Site!Prepares(c, Finished(repairs, j, v, repairs.vendor))
        /\ redone' = (redone \/ Ticket(j).cost)
        /\ Unmoved

-----------------------------------------------------------------------------
(* The second transaction of a handler *)

GoOnAssigning(c, j, v) ==
    /\ errand[c].rest = {<<"assign", j, v>>} /\ repairs.vendor[v].active
    /\ Site!Steps(c, Turned(repairs, j, "ASSIGNED"), {<<"vendor", j, v>>})

GoOnWithVendor(c, j, v) ==
    /\ errand[c].rest = {<<"vendor", j, v>>}
    /\ Site!Steps(c, [repairs EXCEPT !.job[j].vendor = v], {})

GoOnCompleting(c, j, v) ==
    /\ errand[c].rest = {<<"complete", j, v>>}
    /\ Site!Steps(c, Finished(repairs, j, v, errand[c].seen.vendor), {})

GoOn(c) ==
    /\ errand[c].at = "between"
    /\ \E j \in Tickets :
        \/ \E v \in Vendors : GoOnAssigning(c, j, v) \/ GoOnWithVendor(c, j, v)
        \/ \E v \in Vendors \cup {NoVendor} : GoOnCompleting(c, j, v)
    /\ raced' = (raced \/ errand[c].seen # repairs)
    /\ UNCHANGED <<hooked, period, charged, redone, cut>>

SaveRepair(c) ==
    /\ Site!Saves(c)
    /\ raced' = (raced \/ errand[c].seen # repairs)
    /\ UNCHANGED <<hooked, period, charged, redone, cut>>

(* complete has committed the status, and neither the cost nor the counters *)
Completing(c, j) ==
    errand[c].at = "between" /\ \E v \in Vendors \cup {NoVendor} : <<"complete", j, v>> \in errand[c].rest

(* an error, a crash, or a vendor who is no longer active *)
DropRepair(c) ==
    /\ Site!Drops(c)
    /\ cut' = cut \cup {j \in Tickets : Completing(c, j)}
    /\ UNCHANGED <<hooked, period, charged, raced, redone>>

-----------------------------------------------------------------------------
(* update_vendor; deactivate_vendor *)
SetVendor(c, v, active) ==
    /\ active \/ \A j \in Tickets : Ticket(j).vendor = v =>
            Ticket(j).status \notin {"ASSIGNED", "IN_PROGRESS"}
    /\ Site!Prepares(c, [repairs EXCEPT !.vendor[v].active = active])
    /\ Unmoved /\ UNCHANGED redone

(* calculate_for_profile *)
Deductible(j, from, to) ==
    Ticket(j).status \in Billable /\ Ticket(j).cost /\ Ticket(j).done \in from .. to

(* create_disbursement, by hand for any period, or by the monthly or daily task;
   nothing marks the jobs that it deducts *)
Disburse(from, to) ==
    /\ charged' = [j \in Tickets |->
            IF Deductible(j, from, to) THEN charged[j] \cup {<<from, to>>} ELSE charged[j]]
    /\ UNCHANGED <<hooked, period, repairs, errand, errands, raced, redone, cut>>

NextMonth ==
    /\ period < LastMonth
    /\ period' = period + 1
    /\ UNCHANGED <<hooked, repairs, errand, errands, charged, raced, redone, cut>>

MaintenanceNext ==
    \/ NextMonth
    \/ \E from, to \in 1 .. LastMonth : Disburse(from, to)
    \/ \E c \in Crew :
        \/ GoOn(c) \/ SaveRepair(c) \/ DropRepair(c)
        \/ \E v \in Vendors, active \in BOOLEAN : SetVendor(c, v, active)
        \/ \E j \in Tickets :
            \/ ReportJob(c, j) \/ CompleteJob(c, j)
            \/ \E target \in {"UNDER_REVIEW", "REJECTED", "IN_PROGRESS", "CANCELLED", "CLOSED"} :
                Turn(c, j, target)
            \/ \E v \in Vendors : AssignVendor(c, j, v)
            \/ \E v \in Vendors \cup {NoVendor} : ApproveJob(c, j, v)

MaintenanceSpec == MaintenanceInit /\ [][MaintenanceNext]_maintenanceVars

-----------------------------------------------------------------------------
(* Properties *)

JobsFinished(v) ==
    {j \in Tickets : Ticket(j).vendor = v /\ Ticket(j).status \in Billable}

(* completed, but without its cost, by a request that is still at it or that was
   cut off there *)
Unrecorded(j) ==
    ~Ticket(j).cost /\ (j \in cut \/ \E c \in Crew : Completing(c, j))

Overlapping(p, q) == p[1] <= q[2] /\ q[1] <= p[2]

(* maintenance_service.py:494 and vendor_service.py:217, as far as they hold, and
   agency_service.py:300-316.  Every finished job is counted once in the
   counters of its vendor, unless the request that finished it is still at it
   or was cut off between its two transactions; and disbursements for disjoint
   periods do not charge the owner for the same job.  Besides that only requests
   that overlap, or completing a job that was finished already, which the code
   allows, count it wrongly. *)
FinishedJobsCountOnce ==
    ~raced /\ ~redone =>
        /\ \A v \in Vendors : repairs.vendor[v].jobs =
                Cardinality({j \in JobsFinished(v) : ~Unrecorded(j)})
        /\ \A j \in Tickets : \A p, q \in charged[j] : Overlapping(p, q)
=============================================================================
