---------------------------- MODULE Applications ----------------------------
(***************************************************************************)
(* Finding the next tenant of a unit: the advert and its leads             *)
(* (services/vacancy_service.py), the applications and their decisions     *)
(* (application_service.py), and the screening score that guarantors and   *)
(* previous landlords move (screening_service.py).                         *)
(*                                                                         *)
(* An applicant is known by phone number, applies once, and may have been  *)
(* a lead before.  Guarantors and landlords answer by public links, each   *)
(* in a request of its own, and every answer rewrites the stored score.    *)
(***************************************************************************)
EXTENDS Integers, FiniteSets

CONSTANTS
    Applicants,  \* people interested in the one unit
    Backers,     \* the guarantors an applicant may name
    Readers,     \* requests that can be in flight at a time
    OwnScore,    \* completeness and affordability of a complete form
    MaxPosts     \* bound: how many requests are looked at

WeightGuarantor == 20
WeightReference == 20

ASSUME ApplicationsAssumption == OwnScore \in 0 .. 60 /\ MaxPosts \in Nat

VARIABLES
    files,   \* the committed rows
    reader,  \* the request each session is serving
    posted   \* how many requests have begun

applicationsVars == <<files, reader, posted>>

OpenApplication == {"SUBMITTED", "UNDER_REVIEW", "INTERVIEW_SCHEDULED"}
Decided == {"APPROVED", "REJECTED", "WITHDRAWN"}
OpenLead == {"INQUIRED", "APPLIED", "UNDER_REVIEW"}

NewFiles ==
    [unit        |-> [u \in {"unit"} |-> [status |-> "VACANT", let |-> FALSE,
                                          listing |-> "none"]],
     lead        |-> [p \in Applicants |-> [stage |-> "none", joined |-> FALSE]],
     application |-> [p \in Applicants |-> [status |-> "none", score |-> 0]],
     guarantor   |-> [g \in Applicants \X Backers |-> [status |-> "none", deed |-> FALSE]],
     reference   |-> [p \in Applicants |-> [status |-> "none"]]]

Post == INSTANCE Sessions WITH Workers <- Readers, MaxRequests <- MaxPosts,
            db <- files, work <- reader, begun <- posted

IsFiles(rows) ==
    /\ rows.unit \in [{"unit"} -> [status : {"VACANT", "RESERVED", "OCCUPIED"}, let : BOOLEAN,
                                   listing : {"none", "DRAFT", "PUBLISHED", "CLOSED"}]]
    /\ rows.lead \in [Applicants -> [joined : BOOLEAN,
            stage : OpenLead \cup {"none", "APPROVED", "REJECTED", "LOST"}]]
    /\ rows.application \in [Applicants -> [score : 0 .. 100,
            status : OpenApplication \cup Decided \cup {"none"}]]
    /\ rows.guarantor \in [Applicants \X Backers -> [deed : BOOLEAN,
            status : {"none", "PENDING", "ACKNOWLEDGED", "DECLINED"}]]
    /\ rows.reference \in [Applicants -> [status :
            {"none", "SENT", "POSITIVE", "NEGATIVE", "NO_RESPONSE"}]]

ApplicationsTypeOK ==
    /\ posted \in 0 .. MaxPosts
    /\ IsFiles(files)
    /\ \A r \in Readers : Post!IsWork(reader[r], IsFiles, {})

ApplicationsInit ==
    /\ files = NewFiles
    /\ reader = [r \in Readers |-> Post!Idle]
    /\ posted = 0

-----------------------------------------------------------------------------
(* The score *)

(* _guarantor_points; a deed sent for signing counts as signed *)
GuarantorPoints(rows, p) ==
    LET named == {rows.guarantor[<<p, b>>] : b \in Backers}
        in(s) == {g \in named : g.status = s}
    IN  CASE in("ACKNOWLEDGED") # {} ->
                IF \E g \in in("ACKNOWLEDGED") : g.deed THEN WeightGuarantor
                ELSE WeightGuarantor - 4
          [] in("ACKNOWLEDGED") = {} /\ in("DECLINED") = {} /\ in("PENDING") # {} ->
                WeightGuarantor \div 2
          [] OTHER -> 0

(* _reference_points *)
ReferencePoints(rows, p) ==
    CASE rows.reference[p].status = "POSITIVE" -> WeightReference
      [] rows.reference[p].status = "SENT"     -> WeightReference \div 2
      [] OTHER -> 0

(* calculate_score *)
Score(rows, p) == OwnScore + GuarantorPoints(rows, p) + ReferencePoints(rows, p)

RescoredOnTop(rows, p) ==   \* mutant: the points are added to the old score
    [rows EXCEPT !.application[p].score = @ + Score(rows, p)]

(* rescore *)
Rescored(rows, p) == [rows EXCEPT !.application[p].score = Score(rows, p)]

-----------------------------------------------------------------------------
(* The advert and the leads *)

Unit == files.unit["unit"]

(* get_listing_for_unit: the listing is made, and published, when first asked for *)
AskForListing(r) ==
    /\ Unit.status # "OCCUPIED" /\ Unit.listing = "none"
    /\ Post!Prepares(r, [files EXCEPT !.unit["unit"].listing = "PUBLISHED"])

(* update_listing, its status *)
UpdateListing(r, s) ==
    /\ Unit.listing # "none"
    /\ Post!Prepares(r, [files EXCEPT !.unit["unit"].listing = s])

(* capture_inquiry; a lead that is open already is only refreshed *)
CaptureInquiry(r, p) ==
    /\ Unit.listing = "PUBLISHED"
    /\ files.lead[p].stage = "none"
    /\ Post!Prepares(r, [files EXCEPT !.lead[p].stage = "INQUIRED"])

(* update_inquiry: the stage is set by hand, to anything *)
UpdateInquiry(r, p, s) ==
    /\ files.lead[p].stage # "none"
    /\ Post!Prepares(r, [files EXCEPT !.lead[p].stage = s])

(* link_application_to_inquiry *)
Linked(lead) ==
    IF lead.stage \in OpenLead THEN [stage |-> "APPLIED", joined |-> TRUE] ELSE lead

(* sync_stage_from_application *)
Synced(rows, p) ==
    LET stage == CASE rows.application[p].status \in {"UNDER_REVIEW", "INTERVIEW_SCHEDULED"}
                                                     -> "UNDER_REVIEW"
                   [] rows.application[p].status = "WITHDRAWN" -> "LOST"
                   [] OTHER -> rows.application[p].status
    IN  IF rows.lead[p].joined THEN [rows EXCEPT !.lead[p].stage = stage] ELSE rows

-----------------------------------------------------------------------------
(* Applications *)

(* create_application, with the guarantors and the landlord on the form *)
CreateApplication(r, p, backers, landlord) ==
    /\ Unit.status # "OCCUPIED"
    /\ files.application[p].status = "none"
    /\ LET new == [files EXCEPT
                !.application[p].status = "SUBMITTED",
                !.guarantor = [g \in Applicants \X Backers |->
                    IF g[1] = p /\ g[2] \in backers THEN [@[g] EXCEPT !.status = "PENDING"]
                    ELSE @[g]],
                !.reference[p].status = IF landlord THEN "SENT" ELSE "none",
                !.lead[p] = Linked(@)]
       IN  Post!Prepares(r, Rescored(new, p))

(* assert_transition; an application may be moved to where it is *)
MayBecome(p, target) ==
    \/ files.application[p].status = target
    \/ /\ files.application[p].status \in OpenApplication
       /\ target \in Decided \cup {"INTERVIEW_SCHEDULED"}
    \/ files.application[p].status = "SUBMITTED" /\ target = "UNDER_REVIEW"

(* _move *)
Moved(rows, p, target) ==
    Synced([rows EXCEPT !.application[p].status = target], p)

StartReview(r, p) ==
    /\ MayBecome(p, "UNDER_REVIEW")
    /\ Post!Prepares(r, Rescored(Moved(files, p, "UNDER_REVIEW"), p))

ScheduleInterview(r, p) ==
    /\ MayBecome(p, "INTERVIEW_SCHEDULED")
    /\ Post!Prepares(r, Moved(files, p, "INTERVIEW_SCHEDULED"))

(* _reject_remaining; their leads are left as they were *)
OthersRejected(rows, p) ==
    [rows EXCEPT !.application = [q \in Applicants |->
        IF q # p /\ rows.application[q].status \in OpenApplication
        THEN [rows.application[q] EXCEPT !.status = "REJECTED"] ELSE rows.application[q]]]

(* approve *)
Approve(r, p, rejectOthers) ==
    /\ ~Unit.let
    /\ MayBecome(p, "APPROVED")
    /\ LET new == [Moved(files, p, "APPROVED") EXCEPT !.unit["unit"].status = "RESERVED"]
       IN  Post!Prepares(r, IF rejectOthers THEN OthersRejected(new, p) ELSE new)

Reject(r, p) ==
    /\ MayBecome(p, "REJECTED")
    /\ Post!Prepares(r, Moved(files, p, "REJECTED"))

Withdraw(r, p) ==
    /\ MayBecome(p, "WITHDRAWN")
    /\ Post!Prepares(r, Moved(files, p, "WITHDRAWN"))

(* update_application: the form is corrected and scored again *)
UpdateApplication(r, p) ==
    /\ files.application[p].status # "none"
    /\ Post!Prepares(r, Rescored(files, p))

-----------------------------------------------------------------------------
(* Guarantors and references *)

(* POST /applications/{id}/guarantors *)
AddGuarantor(r, p, b) ==
    /\ files.application[p].status # "none"
    /\ files.guarantor[<<p, b>>].status = "none"
    /\ Post!Prepares(r, Rescored([files EXCEPT !.guarantor[<<p, b>>].status = "PENDING"], p))

AnsweredUnscored(r, p, b, answer) ==   \* mutant: rescore is not called
    /\ files.guarantor[<<p, b>>].status = "PENDING"
    /\ Post!Prepares(r, [files EXCEPT !.guarantor[<<p, b>>].status = answer])

(* respond_as_guarantor *)
RespondAsGuarantor(r, p, b, answer) ==
    /\ files.guarantor[<<p, b>>].status = "PENDING"
    /\ Post!Prepares(r, Rescored([files EXCEPT !.guarantor[<<p, b>>].status = answer], p))

(* send_guarantee_for_signing *)
SendGuarantee(r, p, b) ==
    /\ files.guarantor[<<p, b>>] = [status |-> "ACKNOWLEDGED", deed |-> FALSE]
    /\ Post!Prepares(r, Rescored([files EXCEPT !.guarantor[<<p, b>>].deed = TRUE], p))

(* POST /applications/{id}/references; one landlord an applicant is looked at *)
RequestReference(r, p) ==
    /\ files.application[p].status # "none"
    /\ files.reference[p].status = "none"
    /\ Post!Prepares(r, Rescored([files EXCEPT !.reference[p].status = "SENT"], p))

(* record_reference_response *)
RecordReference(r, p, answer) ==
    /\ files.reference[p].status = "SENT"
    /\ Post!Prepares(r, Rescored([files EXCEPT !.reference[p].status = answer], p))

(* sweep_stale_references; decided applications keep their score *)
SweepReferences(r) ==
    LET swept == [files EXCEPT !.reference = [p \in Applicants |->
                    IF @[p].status = "SENT" THEN [status |-> "NO_RESPONSE"] ELSE @[p]]]
    IN  Post!Prepares(r, [swept EXCEPT !.application = [p \in Applicants |->
            IF @[p].status \in OpenApplication /\ files.reference[p].status = "SENT"
            THEN [@[p] EXCEPT !.score = Score(swept, p)] ELSE @[p]]])

-----------------------------------------------------------------------------
(* a tenancy begins on the unit, which closes its listing, or ends
   (tenant_service.py) *)
LetUnit(r) ==
    /\ ~Unit.let
    /\ Post!Prepares(r, [files EXCEPT
            !.unit["unit"] = [status |-> "OCCUPIED", let |-> TRUE,
                              listing |-> IF @.listing = "none" THEN "none" ELSE "CLOSED"]])

VacateUnit(r) ==
    /\ Unit.let
    /\ Post!Prepares(r, [files EXCEPT
            !.unit["unit"].status = "VACANT", !.unit["unit"].let = FALSE])

SaveFile(r) == Post!Saves(r)

DropFile(r) == Post!Drops(r)

ApplicationsNext ==
    \E r \in Readers :
        \/ AskForListing(r) \/ SweepReferences(r) \/ LetUnit(r) \/ VacateUnit(r)
        \/ SaveFile(r) \/ DropFile(r)
        \/ \E s \in {"DRAFT", "PUBLISHED", "CLOSED"} : UpdateListing(r, s)
        \/ \E p \in Applicants :
            \/ CaptureInquiry(r, p) \/ UpdateInquiry(r, p, "LOST")
            \/ \E backers \in SUBSET Backers, landlord \in BOOLEAN :
                CreateApplication(r, p, backers, landlord)
            \/ StartReview(r, p) \/ ScheduleInterview(r, p)
            \/ \E rejectOthers \in BOOLEAN : Approve(r, p, rejectOthers)
            \/ Reject(r, p) \/ Withdraw(r, p) \/ UpdateApplication(r, p)
            \/ \E b \in Backers :
                \/ AddGuarantor(r, p, b) \/ SendGuarantee(r, p, b)
                \/ \E a \in {"ACKNOWLEDGED", "DECLINED"} : RespondAsGuarantor(r, p, b, a)
            \/ RequestReference(r, p)
            \/ \E a \in {"POSITIVE", "NEGATIVE"} : RecordReference(r, p, a)

ApplicationsSpec == ApplicationsInit /\ [][ApplicationsNext]_applicationsVars

-----------------------------------------------------------------------------
(* Properties *)

ScoreIsCurrent(rows) ==
    \A p \in Applicants :
        rows.application[p].status \in OpenApplication =>
            rows.application[p].score = Score(rows, p)

(* screening_service.py:214 ("Called after anything that could move it").  The
   stored score of an open application, which ranks the waiting list, is what
   the answers give; only two answers that overlap can leave it behind. *)
OnlyOverlapMisscores ==
    [][ScoreIsCurrent(files) /\ ~ScoreIsCurrent(files') =>
        \E r \in Readers : Post!StaleSave(r)]_applicationsVars
=============================================================================
