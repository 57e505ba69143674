------------------------------ MODULE Deliveries ------------------------------
(***************************************************************************)
(* What the system tells other systems: receipts declared to the tax       *)
(* authority (services/etims_service.py, the retry task of                 *)
(* tasks/scheduled.py) and webhooks posted to a customer's endpoint        *)
(* (services/webhook_service.py, tasks/webhooks.py).  In both the call is  *)
(* made first and its outcome committed afterwards, so a lost answer or a  *)
(* crash in between makes a later attempt tell it again.                   *)
(***************************************************************************)
EXTENDS Naturals, FiniteSets

CONSTANTS
    Receipts,     \* receipts that may be issued, and so declared
    Posts,        \* keys of the webhook_deliveries table
    Couriers,     \* requests and tasks that can be in flight at a time
    MaxAttempts,  \* MAX_ATTEMPTS: the failures after which a declaration is given up
    MaxTries,     \* how often a post is tried: 1 + len(_RETRY_BACKOFF_SECONDS)
    MaxRounds     \* bound: how many requests and tasks are looked at

ASSUME DeliveriesAssumption ==
    /\ Receipts \cap Posts = {}
    /\ MaxAttempts \in Nat \ {0} /\ MaxTries \in Nat \ {0} /\ MaxRounds \in Nat

VARIABLES
    filing,     \* the organisation has an active eTIMS credential
    listening,  \* its webhook endpoint is active
    outbox,     \* the committed rows: declarations and posts
    round,      \* the request or task each session is serving
    rounds,     \* how many have begun
    mail,       \* the deliver_webhook messages at the broker: <<post, try>>
    told,       \* how often the other side has accepted it
    unrecorded,    \* history: an acceptance that no commit recorded
    insisted    \* history: retried while or after another did, unseen, or by hand

deliveriesVars ==
    <<filing, listening, outbox, round, rounds, mail, told, unrecorded, insisted>>

Desk == INSTANCE Sessions WITH Workers <- Couriers, MaxRequests <- MaxRounds,
            db <- outbox, work <- round, begun <- rounds

Things == Receipts \cup Posts
Untold == [status |-> "none", attempts |-> 0]
Outcomes == {"accepted", "failed"}
Tasks == ({"declare", "redeclare", "post"} \cup Outcomes) \X Things
            \X (0 .. MaxTries + MaxAttempts + MaxRounds)

IsLedger(rows) == rows \in
    [declaration : [Receipts -> [status : {"none", "PENDING", "SUBMITTED", "FAILED", "ABANDONED"},
                                 attempts : 0 .. MaxAttempts + MaxRounds]],
     post : [Posts -> [status : {"none", "PENDING", "SUCCESS", "FAILED"},
                       attempts : 0 .. MaxRounds]]]

DeliveriesTypeOK ==
    /\ filing \in BOOLEAN /\ listening \in BOOLEAN
    /\ IsLedger(outbox)
    /\ \A c \in Couriers : Desk!IsWork(round[c], IsLedger, Tasks)
    /\ rounds \in 0 .. MaxRounds
    /\ mail \subseteq Posts \X (1 .. MaxTries)
    /\ told \in [Things -> Nat] /\ unrecorded \subseteq Things /\ insisted \subseteq Things

DeliveriesInit ==
    /\ filing = FALSE /\ listening = FALSE
    /\ outbox = [declaration |-> [r \in Receipts |-> Untold], post |-> [p \in Posts |-> Untold]]
    /\ round = [c \in Couriers |-> Desk!Idle]
    /\ rounds = 0
    /\ mail = {}
    /\ told = [x \in Things |-> 0]
    /\ unrecorded = {} /\ insisted = {}

-----------------------------------------------------------------------------
(* Declarations *)

Declaration(r) == outbox.declaration[r]

Quiet == UNCHANGED <<filing, listening, mail, told, unrecorded>>

InHand(x) == {c \in Couriers : round[c].at # "idle" /\ \E t \in round[c].rest : t[2] = x}

(* issue_receipt: queue_receipt and submit in the transaction of the payment,
   so that until submit has committed there is no row *)
IssueReceipt(c, r) ==
    /\ filing /\ Declaration(r) = Untold /\ InHand(r) = {}
    /\ Desk!Starts(c, {<<"declare", r, 0>>})
    /\ Quiet /\ UNCHANGED insisted

DueWhateverHappened ==   \* mutant: no status is asked
    {r \in Receipts : Declaration(r).status # "none"}

(* due_submissions; the backoff of a failed one has elapsed *)
Due == {r \in Receipts : Declaration(r).status \in {"PENDING", "FAILED"}}

(* retry_etims_submissions reads them all, then submits them one by one *)
RetryDue(c) ==
    /\ Desk!Starts(c, {<<"declare", r, 0>> : r \in Due})
    /\ Quiet /\ UNCHANGED insisted

(* endpoints/etims.py retry_submission: whatever its status *)
RetryByHand(c, r) ==
    /\ Declaration(r) # Untold
    /\ Desk!Starts(c, {<<"redeclare", r, 0>>})
    /\ insisted' = IF Declaration(r).status = "SUBMITTED" THEN insisted \cup {r} ELSE insisted
    /\ Quiet

(* the row as the session holds it; a retry by hand starts its budget again *)
Held(c, how, r) ==
    LET row == round[c].seen.declaration[r]
    IN  IF how = "redeclare" THEN [row EXCEPT !.attempts = 0] ELSE row

Unladen(c) == round[c].at = "between" /\ \A t \in round[c].rest : t[1] \notin Outcomes

Insists(c, r) ==
    insisted' = IF round[c].seen.declaration[r] # Declaration(r) \/ InHand(r) # {c}
                THEN insisted \cup {r} ELSE insisted

(* submit without a credential gives up at once *)
GiveUp(c, t) ==
    /\ Unladen(c) /\ t \in round[c].rest /\ t[1] \in {"declare", "redeclare"} /\ ~filing
    /\ LET row == Held(c, t[1], t[2])
           new == [status |-> "ABANDONED", attempts |-> row.attempts + 1]
       IN  Desk!Steps(c, [outbox EXCEPT !.declaration[t[2]] =
                Desk!MergedRow(round[c].seen.declaration[t[2]], new, @)], round[c].rest \ {t})
    /\ Insists(c, t[2])
    /\ Quiet

(* the call: accepted and heard, accepted and not heard, or not accepted.  The
   number left in the task is the attempts this call makes *)
Declare(c, t, accepted, heard) ==
    /\ Unladen(c) /\ t \in round[c].rest /\ t[1] \in {"declare", "redeclare"} /\ filing
    /\ heard => accepted
    /\ Insists(c, t[2])
    /\ LET r == t[2]
       IN  /\ round' = [round EXCEPT ![c].rest = (@ \ {t}) \cup
                    {<<IF heard THEN "accepted" ELSE "failed", r, Held(c, t[1], r).attempts + 1>>}]
           /\ told' = [told EXCEPT ![r] = IF accepted THEN @ + 1 ELSE @]
           /\ unrecorded' = IF accepted /\ ~heard THEN unrecorded \cup {r} ELSE unrecorded
    /\ UNCHANGED <<filing, listening, outbox, rounds, mail>>

(* what submit commits after the call *)
RecordDeclaration(c, t) ==
    /\ round[c].at = "between" /\ t \in round[c].rest /\ t[1] \in Outcomes /\ t[2] \in Receipts
    /\ LET r == t[2]
           new == [status   |-> CASE t[1] = "accepted" -> "SUBMITTED"
                                  [] t[1] = "failed" /\ t[3] >= MaxAttempts -> "ABANDONED"
                                  [] OTHER -> "FAILED",
                   attempts |-> t[3]]
       IN  Desk!Steps(c, [outbox EXCEPT !.declaration[r] =
                Desk!MergedRow(round[c].seen.declaration[r], new, @)], round[c].rest \ {t})
    /\ Quiet /\ UNCHANGED insisted

-----------------------------------------------------------------------------
(* Webhooks *)

(* webhook_service.dispatch commits the row and then queues the task, unless
   the broker cannot be reached *)
Dispatch(p, queued) ==
    /\ listening /\ outbox.post[p] = Untold
    /\ outbox' = [outbox EXCEPT !.post[p].status = "PENDING"]
    /\ mail' = IF queued THEN mail \cup {<<p, 1>>} ELSE mail
    /\ UNCHANGED <<filing, listening, round, rounds, told, unrecorded, insisted>>

(* deliver_webhook takes a message, which stays at the broker until it ends *)
TakePost(c, m) ==
    /\ m \in mail /\ InHand(m[1]) = {}
    /\ Desk!Starts(c, {<<"post", m[1], m[2]>>})
    /\ Quiet /\ UNCHANGED insisted

(* already delivered, or the endpoint was switched off *)
SkipPost(c, t) ==
    /\ round[c].at = "between" /\ t \in round[c].rest /\ t[1] = "post"
    /\ outbox.post[t[2]].status = "SUCCESS" \/ ~listening
    /\ Desk!Steps(c, IF outbox.post[t[2]].status = "SUCCESS" THEN outbox
                     ELSE [outbox EXCEPT !.post[t[2]].status = "FAILED"], {})
    /\ mail' = mail \ {<<t[2], t[3]>>}
    /\ UNCHANGED <<filing, listening, told, unrecorded, insisted>>

(* the call *)
SendPost(c, t, accepted, heard) ==
    /\ round[c].at = "between" /\ t \in round[c].rest /\ t[1] = "post"
    /\ outbox.post[t[2]].status # "SUCCESS" /\ listening
    /\ heard => accepted
    /\ round' = [round EXCEPT ![c].rest = {<<IF heard THEN "accepted" ELSE "failed", t[2], t[3]>>}]
    /\ told' = [told EXCEPT ![t[2]] = IF accepted THEN @ + 1 ELSE @]
    /\ unrecorded' = IF accepted /\ ~heard THEN unrecorded \cup {t[2]} ELSE unrecorded
    /\ UNCHANGED <<filing, listening, outbox, rounds, mail, insisted>>

(* its outcome is committed and, unless it was the last try, the next one is
   queued; a crash between the two leaves the message to be taken again *)
RecordPost(c, t, ended) ==
    /\ round[c].at = "between" /\ t \in round[c].rest /\ t[1] \in Outcomes /\ t[2] \in Posts
    /\ Desk!Steps(c, [outbox EXCEPT !.post[t[2]] =
            [status   |-> CASE t[1] = "accepted" -> "SUCCESS"
                            [] t[1] = "failed" /\ t[3] = MaxTries -> "FAILED"
                            [] OTHER -> @.status,
             attempts |-> @.attempts + 1]], {})
    /\ mail' = IF ~ended THEN mail
               ELSE (mail \ {<<t[2], t[3]>>}) \cup
                    {<<t[2], k>> : k \in {n \in 2 .. MaxTries : t[1] = "failed" /\ n = t[3] + 1}}
    /\ UNCHANGED <<filing, listening, told, unrecorded, insisted>>

-----------------------------------------------------------------------------
(* a crash: what was accepted and not committed yet is not known; a message
   that was being worked on is taken again, or is lost with its process *)
Crash(c, lost) ==
    /\ Desk!Drops(c)
    /\ unrecorded' = unrecorded \cup {t[2] : t \in {u \in round[c].rest : u[1] = "accepted"}}
    /\ mail' = IF lost THEN {m \in mail : \A t \in round[c].rest : t[2] # m[1]} ELSE mail
    /\ UNCHANGED <<filing, listening, told, insisted>>

(* save_credential, delete_credential *)
SetFiling ==
    /\ filing' = ~filing
    /\ UNCHANGED <<listening, outbox, round, rounds, mail, told, unrecorded, insisted>>

(* update_endpoint; archive_endpoint *)
SetListening ==
    /\ listening' = ~listening
    /\ UNCHANGED <<filing, outbox, round, rounds, mail, told, unrecorded, insisted>>

DeliveriesNext ==
    \/ SetFiling \/ SetListening
    \/ \E p \in Posts, queued \in BOOLEAN : Dispatch(p, queued)
    \/ \E c \in Couriers :
        \/ RetryDue(c)
        \/ \E lost \in BOOLEAN : Crash(c, lost)
        \/ \E r \in Receipts : IssueReceipt(c, r) \/ RetryByHand(c, r)
        \/ \E m \in mail : TakePost(c, m)
        \/ round[c].at = "between" /\ \E t \in round[c].rest :
            \/ GiveUp(c, t) \/ RecordDeclaration(c, t) \/ SkipPost(c, t)
            \/ \E ended \in BOOLEAN : RecordPost(c, t, ended)
            \/ \E accepted, heard \in BOOLEAN :
                Declare(c, t, accepted, heard) \/ SendPost(c, t, accepted, heard)

DeliveriesSpec == DeliveriesInit /\ [][DeliveriesNext]_deliveriesVars

-----------------------------------------------------------------------------
(* Properties *)

(* etims_service.py:240 ("recording the outcome either way"), tasks/webhooks.py:35.
   A receipt is declared, and a webhook accepted, once: only when an acceptance
   was never recorded (its answer or the process was lost), or when a retry
   works on rows another one has changed, or is asked for by hand after it
   succeeded, is it told again. *)
ToldTwiceOnlyByLossOrInsistence ==
    \A x \in Things : told[x] > 1 => x \in unrecorded \cup insisted
=============================================================================
