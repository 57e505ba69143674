------------------------------ MODULE Breaches ------------------------------
(***************************************************************************)
(* The register of data breaches and its 72-hour clock                     *)
(* (services/breach_service.py): reports, by hand and by the two           *)
(* detectors, the steps of the platform's staff, and the hourly sweep that *)
(* chases what has not been notified.                                      *)
(*                                                                         *)
(* A day is 24 hours, so the sweep chases after two days and after three.  *)
(* Alerts leave before the commit and cannot be taken back; nobody looks   *)
(* whether they arrive.                                                    *)
(*                                                                         *)
(* Left out: the evidence beside the decision (references, notes, times),  *)
(* the messages to customers, and whose audit trail is written.            *)
(***************************************************************************)
EXTENDS Naturals

CONSTANTS
    Breaches,      \* keys of security_breaches
    Patterns,      \* pattern_key: what a detector can find
    Watches,       \* requests and tasks that can be in flight at a time
    LastDay,       \* bound: the last day looked at
    MaxSteps       \* bound: how many requests of the staff are looked at

ASSUME BreachesAssumption == LastDay \in Nat /\ MaxSteps \in Nat /\ "none" \notin Patterns

VARIABLES
    day,       \* the time
    register,  \* the committed rows
    watch,     \* the request each session is serving
    steps,     \* how many requests of the staff have begun
    tried      \* the thresholds at which alerts of each breach were sent, heard or not

breachesVars == <<day, register, watch, steps, tried>>

Watch == INSTANCE Sessions WITH Workers <- Watches, MaxRequests <- MaxSteps,
             db <- register, work <- watch, begun <- steps

Days == 0 .. LastDay
Thresholds == {2, 3}   \* ESCALATION_HOURS

(* INVESTIGATING stands for CONTAINED too: nothing tells them apart *)
Steppable == {"INVESTIGATING", "NOTIFIED", "CLOSED", "DISMISSED"}

Unknown == [status |-> "none", high |-> FALSE, since |-> 0, key |-> "none",
            notified |-> FALSE, chased |-> 0]

IsRegister(rows) ==
    rows.breach \in [Breaches ->
        [status : Steppable \cup {"none", "DETECTED"}, high : BOOLEAN, since : Days,
         key : Patterns \cup {"none"}, notified : BOOLEAN, chased : Thresholds \cup {0}]]

BreachesTypeOK ==
    /\ day \in Days /\ steps \in 0 .. MaxSteps
    /\ IsRegister(register)
    /\ \A c \in Watches : Watch!IsWork(watch[c], IsRegister, {})
    /\ tried \in [Breaches -> SUBSET Thresholds]

BreachesInit ==
    /\ day = 0
    /\ register = [breach |-> [b \in Breaches |-> Unknown]]
    /\ watch = [c \in Watches |-> Watch!Idle]
    /\ steps = 0
    /\ tried = [b \in Breaches |-> {}]

Silent == UNCHANGED <<day, tried>>

Open(b) == register.breach[b].status \notin {"none", "CLOSED", "DISMISSED"}

-----------------------------------------------------------------------------
Recording(c) ==
    watch[c].at = "ready" /\ \E b \in Breaches :
        watch[c].was.breach[b].status = "none" /\ watch[c].is.breach[b].status # "none"

(* report.  The unique reference code makes a second INSERT wait for the first
   and then fail; an incident that the detector has raised already is returned
   as it is *)
Report(c, b, since, high, key) ==
    /\ Watch!Fresh("breach", b, Unknown)
    /\ \A d \in Watches : ~Recording(d)
    /\ key # "none" => since = day /\ \A x \in Breaches : register.breach[x].key # key
    /\ Watch!Prepares(c, [register EXCEPT !.breach[b] =
            [Unknown EXCEPT !.status = "DETECTED", !.high = high, !.since = since,
                            !.key = key]])
    /\ Silent

(* advance, from whatever status; a notification and a dismissal need their
   evidence, which is there *)
Advance(c, b, status) ==
    /\ register.breach[b].status # "none"
    /\ status = "CLOSED" => register.breach[b].notified \/ ~register.breach[b].high
    /\ Watch!Prepares(c, [register EXCEPT
            !.breach[b].status = status,
            !.breach[b].notified = @ \/ status = "NOTIFIED"])
    /\ Silent

Elapsed(b) == day - register.breach[b].since

Reached(b) == IF Elapsed(b) >= 3 THEN 3 ELSE IF Elapsed(b) >= 2 THEN 2 ELSE 0

ChasableOnce(b) ==   \* mutant: whoever was chased is not chased again
    /\ Open(b) /\ ~register.breach[b].notified
    /\ Reached(b) # 0 /\ register.breach[b].chased = 0

Chasable(b) ==
    /\ Open(b) /\ ~register.breach[b].notified
    /\ register.breach[b].chased < Reached(b)

(* escalate_due_notifications: the staff are written to, and then the threshold
   is committed, whatever became of the alerts: one may have failed, its type be
   muted, an address missing, or there be no platform staff *)
Escalate(c) ==
    LET due == {b \in Breaches : Chasable(b)}
    IN  /\ watch[c].at = "idle" /\ due # {}
        /\ watch' = [watch EXCEPT ![c] = Watch!Ready(register,
                [register EXCEPT !.breach = [b \in Breaches |->
                    [register.breach[b] EXCEPT !.chased = IF b \in due THEN Reached(b) ELSE @]]],
                {})]
        /\ tried' = [b \in Breaches |->
                IF b \in due THEN tried[b] \cup {Reached(b)} ELSE tried[b]]
        /\ UNCHANGED <<day, register, steps>>

Scan(c) ==
    \E b \in Breaches, high \in BOOLEAN, key \in Patterns : Report(c, b, day, high, key)

SaveBreach(c) == Watch!Saves(c) /\ Silent

LoseBreach(c) == Watch!Drops(c) /\ Silent

NextDay ==
    /\ day < LastDay
    /\ day' = day + 1
    /\ UNCHANGED <<register, watch, steps, tried>>

BreachesNext ==
    \/ NextDay
    \/ \E c \in Watches :
        \/ Scan(c) \/ Escalate(c) \/ SaveBreach(c) \/ LoseBreach(c)
        \/ \E b \in Breaches :
            \/ \E since \in 0 .. day, high \in BOOLEAN : Report(c, b, since, high, "none")
            \/ \E status \in Steppable : Advance(c, b, status)

(* celery beat starts the sweep every hour until a run of it commits; a session
   that can save again and again does so in the end *)
BreachesFairness ==
    \A c \in Watches :
        WF_breachesVars(Escalate(c)) /\ SF_breachesVars(SaveBreach(c))

BreachesSpec == BreachesInit /\ [][BreachesNext]_breachesVars /\ BreachesFairness

-----------------------------------------------------------------------------
(* Properties *)

Pending(b) == Open(b) /\ ~register.breach[b].notified

(* breach_service.py:13-15, as far as it holds.  However breaches are advanced,
   reopened and reported late, and whatever transactions overlap or are lost,
   once the deadline of one that is open and not notified has passed, the sweep
   that chases it is eventually on record, or it is closed or notified.  The
   record says that the staff were written to, and not that anybody heard. *)
DeadlineIsChased ==
    \A b \in Breaches :
        Pending(b) /\ Elapsed(b) >= 3 ~> register.breach[b].chased = 3 \/ ~Pending(b)
=============================================================================
