----------------------------- MODULE Tenancies ------------------------------
(***************************************************************************)
(* Units and the tenancies on them: letting, the status that is derived    *)
(* from dates, renewal offers, notices to vacate and the spreadsheet       *)
(* import (services/tenant_service.py, renewal_service.py,                 *)
(* property_service.py, operations_service.py, import_service.py).         *)
(*                                                                         *)
(* Dates are counted in months, so the 60 days of "expiring soon" are 2,   *)
(* an offer goes out 1 before the end, and 0 stands for no date at all.    *)
(***************************************************************************)
EXTENDS Integers, FiniteSets

CONSTANTS
    Units,
    Leases,      \* keys of the tenancies table
    Offers,      \* keys of the lease_renewals table
    Desks,       \* requests that can be in flight at a time
    Horizon,     \* the last date looked at
    Term,        \* renewal_term_months
    Ends,        \* the end dates that are agreed on; 0 is open-ended
    Standing,    \* the tenancies that stand already, on units of their own
    SetByHand,   \* the statuses a manager may set on a unit
    MaxLettings  \* bound: how many requests are looked at

SoonMonths == 2
OfferMonths == 1
LinkMonths == 1

TenanciesAssumption ==
    /\ Horizon \in Nat \ {0} /\ Term \in Nat \ {0} /\ MaxLettings \in Nat
    /\ Ends \subseteq 0 .. Horizon /\ Standing \subseteq Leases
    /\ IsFiniteSet(Leases) /\ IsFiniteSet(Offers) /\ "none" \notin Units
    /\ SetByHand \subseteq
        {"VACANT", "OCCUPIED", "UNDER_MAINTENANCE", "RESERVED", "VACATING"}

ASSUME TenanciesAssumption

VARIABLES
    month,     \* the date
    lettings,  \* the committed rows
    desk,      \* the request each session is serving
    asked      \* how many requests have begun

UnitStatus == {"VACANT", "OCCUPIED", "UNDER_MAINTENANCE", "RESERVED", "VACATING"}
TenancyStatus == {"ACTIVE", "EXPIRING_SOON", "EXPIRED", "NOTICE_GIVEN", "VACATED"}
Live == {"ACTIVE", "EXPIRING_SOON", "NOTICE_GIVEN"}

Unlet == [unit |-> "none", end |-> 0, notice |-> FALSE, vacated |-> FALSE,
          status |-> "ACTIVE", paper |-> "none"]
Unoffered == [of |-> "none", newEnd |-> 0, expires |-> 0, status |-> "none",
              escalated |-> FALSE]

NewLettings ==
    [unit    |-> [u \in Units |-> [status |-> "VACANT", advertised |-> FALSE]],
     tenancy |-> [t \in Leases |-> Unlet],
     offer   |-> [o \in Offers |-> Unoffered]]

Session == INSTANCE Sessions WITH Workers <- Desks, MaxRequests <- MaxLettings,
                db <- lettings, work <- desk, begun <- asked

tenanciesVars == <<month, lettings, desk, asked>>

Dates == 0 .. 2 * Horizon + Term + 1

IsLettings(rows) ==
    /\ rows.unit \in [Units -> [status : UnitStatus, advertised : BOOLEAN]]
    /\ rows.tenancy \in [Leases -> [unit : Units \cup {"none"}, end : Dates,
                                    notice : BOOLEAN, vacated : BOOLEAN,
                                    status : TenancyStatus,
                                    paper : {"none", "SUBMITTED", "ACKNOWLEDGED"}]]
    /\ rows.offer \in [Offers -> [of : Leases \cup {"none"}, newEnd : Dates,
                                  expires : Dates, escalated : BOOLEAN,
                                  status : {"none", "OFFERED", "ACCEPTED", "DECLINED", "LAPSED"}]]

Rows == Leases \X Units \X Dates

TenanciesTypeOK ==
    /\ month \in 1 .. Horizon /\ asked \in 0 .. MaxLettings
    /\ IsLettings(lettings)
    /\ \A c \in Desks : Session!IsWork(desk[c], IsLettings, Rows)

-----------------------------------------------------------------------------
(* Letting *)

Exists(rows, t) == rows.tenancy[t].unit # "none"

LiveOn(rows, u) ==
    {t \in Leases : rows.tenancy[t].unit = u /\ rows.tenancy[t].status \in Live}

(* _derive_status *)
DerivedStatus(row) ==
    CASE row.vacated                -> "VACATED"
      [] ~row.vacated /\ row.notice -> "NOTICE_GIVEN"
      [] ~row.vacated /\ ~row.notice ->
            IF row.end = 0 \/ row.end > month + SoonMonths THEN "ACTIVE"
            ELSE IF row.end < month THEN "EXPIRED" ELSE "EXPIRING_SOON"

Rederived(row) == [row EXCEPT !.status = DerivedStatus(row)]

Prepares(c, new) == Session!Prepares(c, new) /\ UNCHANGED month

CreateTenancyUnchecked(c, t, u, end) ==   \* mutant: `occupied_by` is not looked up
    /\ Session!Fresh("tenancy", t, Unlet)
    /\ Prepares(c, [lettings EXCEPT
            !.tenancy[t] = Rederived([Unlet EXCEPT !.unit = u, !.end = end]),
            !.unit[u] = [status |-> "OCCUPIED", advertised |-> FALSE]])

(* create_tenancy; end = 0 is an open-ended tenancy *)
CreateTenancy(c, t, u, end) ==
    /\ Session!Fresh("tenancy", t, Unlet)
    /\ LiveOn(lettings, u) = {}
    /\ Prepares(c, [lettings EXCEPT
            !.tenancy[t] = Rederived([Unlet EXCEPT !.unit = u, !.end = end]),
            !.unit[u] = [status |-> "OCCUPIED", advertised |-> FALSE]])

(* update_tenancy: a new end date, or no end date *)
UpdateTenancy(c, t, end) ==
    /\ Exists(lettings, t)
    /\ Prepares(c, [lettings EXCEPT
            !.tenancy[t] = Rederived([@ EXCEPT !.end = end])])

VacateUnitLikewise(c, t) ==   \* mutant: the unit gets the status of the tenancy
    /\ Exists(lettings, t)
    /\ lettings.tenancy[t].status # "VACATED"
    /\ Prepares(c, [lettings EXCEPT
            !.tenancy[t] = [@ EXCEPT !.status = "VACATED", !.vacated = TRUE],
            !.unit[lettings.tenancy[t].unit].status = "VACATED"])

(* vacate_tenancy *)
VacateTenancy(c, t) ==
    /\ Exists(lettings, t)
    /\ lettings.tenancy[t].status # "VACATED"
    /\ Prepares(c, [lettings EXCEPT
            !.tenancy[t] = [@ EXCEPT !.status = "VACATED", !.vacated = TRUE],
            !.unit[lettings.tenancy[t].unit].status = "VACANT"])

(* submit_vacate_notice *)
SubmitVacateNotice(c, t) ==
    /\ Exists(lettings, t)
    /\ lettings.tenancy[t].status # "VACATED"
    /\ lettings.tenancy[t].paper = "none"
    /\ Prepares(c, [lettings EXCEPT
            !.tenancy[t] = [@ EXCEPT !.notice = TRUE, !.status = "NOTICE_GIVEN",
                                     !.paper = "SUBMITTED"],
            !.unit[lettings.tenancy[t].unit].status = "VACATING"])

(* acknowledge_vacate_notice *)
AcknowledgeVacateNotice(c, t) ==
    /\ lettings.tenancy[t].paper = "SUBMITTED"
    /\ Prepares(c, [lettings EXCEPT !.tenancy[t].paper = "ACKNOWLEDGED"])

(* update_unit_status *)
UpdateUnitStatus(c, u, s) ==
    /\ s # lettings.unit[u].status
    /\ (s \in {"OCCUPIED", "VACATING"} /\ lettings.unit[u].status = "VACANT")
            => LiveOn(lettings, u) # {}
    /\ Prepares(c, [lettings EXCEPT !.unit[u].status = s])

(* get_listing_for_unit and update_listing: the unit is advertised *)
Advertise(c, u) ==
    /\ ~lettings.unit[u].advertised
    /\ lettings.unit[u].status # "OCCUPIED"
    /\ Prepares(c, [lettings EXCEPT !.unit[u].advertised = TRUE])

RefreshedLive(rows) ==   \* mutant: only live tenancies are looked at
    [rows EXCEPT !.tenancy = [t \in Leases |->
        IF rows.tenancy[t].status \in Live /\ Exists(rows, t)
        THEN Rederived(rows.tenancy[t]) ELSE rows.tenancy[t]]]

(* refresh_tenancy_statuses, when a list is read and every night; it commits
   only when a status changed *)
Refreshed(rows) ==
    [rows EXCEPT !.tenancy = [t \in Leases |->
        IF rows.tenancy[t].status # "VACATED" /\ Exists(rows, t)
        THEN Rederived(rows.tenancy[t]) ELSE rows.tenancy[t]]]

RefreshStatuses(c) ==
    /\ desk[c].at = "idle"
    /\ Refreshed(lettings) # lettings
    /\ desk' = [desk EXCEPT ![c] = Session!Ready(lettings, Refreshed(lettings), {})]
    /\ UNCHANGED <<month, lettings, asked>>

-----------------------------------------------------------------------------
(* Renewals *)

OpenOffers(rows, t) == {o \in Offers : rows.offer[o].of = t /\ rows.offer[o].status = "OFFERED"}

Offered(rows, o, t) ==
    [rows EXCEPT !.offer[o] = [of |-> t, newEnd |-> rows.tenancy[t].end + Term,
                               expires |-> month + LinkMonths, status |-> "OFFERED",
                               escalated |-> FALSE]]

(* create_offer, from offer_for_tenancy: whatever the tenancy's status, unless
   an offer is open *)
OfferRenewal(c, o, t) ==
    /\ Exists(lettings, t) /\ lettings.tenancy[t].end \in 1 .. Horizon
    /\ OpenOffers(lettings, t) = {}
    /\ Session!Fresh("offer", o, Unoffered)
    /\ Prepares(c, Offered(lettings, o, t))

DueForOffer(t) ==
    /\ Exists(lettings, t)
    /\ lettings.tenancy[t].end = month + OfferMonths
    /\ lettings.tenancy[t].status \in {"ACTIVE", "EXPIRING_SOON"}
    /\ OpenOffers(lettings, t) = {}

(* offer_due_renewals on one tenancy that is due, and the escalation of the
   unanswered in the same transaction *)
OfferDueRenewals(c, o, t) ==
    /\ DueForOffer(t) /\ Session!Fresh("offer", o, Unoffered)
    /\ LET new == Offered(lettings, o, t)
       IN  Prepares(c, [new EXCEPT !.offer = [x \in Offers |->
                IF /\ new.offer[x].status = "OFFERED"
                   /\ new.tenancy[new.offer[x].of].end <= month
                THEN [new.offer[x] EXCEPT !.escalated = TRUE] ELSE new.offer[x]]])

AnswerableAgain(o) ==   \* mutant: the status of the offer is not looked at
    lettings.offer[o].of # "none" /\ month <= lettings.offer[o].expires

(* get_by_token *)
Answerable(o) ==
    /\ lettings.offer[o].status = "OFFERED"
    /\ month <= lettings.offer[o].expires

(* accept; the tenancy may have ended, or been given notice on, meanwhile *)
AcceptRenewal(c, o) ==
    /\ Answerable(o)
    /\ Prepares(c, [lettings EXCEPT
            !.offer[o].status = "ACCEPTED",
            !.tenancy[lettings.offer[o].of] =
                [@ EXCEPT !.end = lettings.offer[o].newEnd, !.status = "ACTIVE"]])

(* decline *)
DeclineRenewal(c, o) ==
    /\ Answerable(o)
    /\ Prepares(c, [lettings EXCEPT
            !.offer[o].status = "DECLINED",
            !.tenancy[lettings.offer[o].of] =
                [@ EXCEPT !.notice = TRUE, !.status = "NOTICE_GIVEN"]])

(* lapse_expired_offers *)
LapseOffers(c) ==
    Prepares(c, [lettings EXCEPT !.offer = [o \in Offers |->
        IF /\ lettings.offer[o].status = "OFFERED"
           /\ lettings.tenancy[lettings.offer[o].of].end \in 1 .. month - 1
        THEN [lettings.offer[o] EXCEPT !.status = "LAPSED"] ELSE lettings.offer[o]]])

-----------------------------------------------------------------------------
(* The spreadsheet import *)

(* _validate_tenants, for the preview; rows are <<tenancy, unit, end>> *)
PreviewImport(c, rows) ==
    /\ \A r \in rows : LiveOn(lettings, r[2]) = {} /\ Session!Fresh("tenancy", r[1], Unlet)
    /\ Session!Starts(c, rows)
    /\ UNCHANGED month

(* _commit_tenants, in a later request; the preview is not repeated *)
CommitImport(c) ==
    LET rows == desk[c].rest
        named == {r[1] : r \in rows}
        endOf(t) == (CHOOSE r \in rows : r[1] = t)[3]
        unitOf(t) == (CHOOSE r \in rows : r[1] = t)[2]
    IN  /\ desk[c].at = "between"
        /\ \A t \in named : Session!Fresh("tenancy", t, Unlet)
        /\ Session!Continues(c, [lettings EXCEPT
                !.tenancy = [t \in Leases |->
                    IF t \in named
                    THEN [Unlet EXCEPT !.unit = unitOf(t), !.end = endOf(t)] ELSE @[t]],
                !.unit = [u \in Units |->
                    IF \E r \in rows : r[2] = u
                    THEN [@[u] EXCEPT !.status = "OCCUPIED"] ELSE @[u]]], {})
        /\ UNCHANGED month

-----------------------------------------------------------------------------
TenanciesInit ==
    /\ month = 1
    /\ \E home \in [Standing -> Units], end \in [Standing -> Ends \ {0, 1}] :
        /\ \A s, t \in Standing : home[s] = home[t] => s = t
        /\ lettings = [NewLettings EXCEPT
            !.tenancy = [t \in Leases |->
                IF t \in Standing THEN Rederived([Unlet EXCEPT !.unit = home[t], !.end = end[t]])
                ELSE Unlet],
            !.unit = [u \in Units |->
                IF \E t \in Standing : home[t] = u
                THEN [status |-> "OCCUPIED", advertised |-> FALSE] ELSE @[u]]]
    /\ desk = [c \in Desks |-> Session!Idle]
    /\ asked = 0

SaveLetting(c) == Session!Saves(c) /\ UNCHANGED month

DropLetting(c) == Session!Drops(c) /\ UNCHANGED month

NextMonth ==
    /\ month < Horizon
    /\ month' = month + 1
    /\ UNCHANGED <<lettings, desk, asked>>

EndDates == {e \in Ends : e = 0 \/ e > month}

TenanciesNext ==
    \/ NextMonth
    \/ \E c \in Desks :
        \/ RefreshStatuses(c) \/ LapseOffers(c)
        \/ SaveLetting(c) \/ DropLetting(c) \/ CommitImport(c)
        \/ \E t \in Leases :
            \/ \E u \in Units, e \in EndDates : CreateTenancy(c, t, u, e)
            \/ \E e \in EndDates : UpdateTenancy(c, t, e)
            \/ VacateTenancy(c, t) \/ SubmitVacateNotice(c, t)
            \/ AcknowledgeVacateNotice(c, t)
            \/ \E o \in Offers : OfferRenewal(c, o, t) \/ OfferDueRenewals(c, o, t)
        \/ \E o \in Offers : AcceptRenewal(c, o) \/ DeclineRenewal(c, o)
        \/ \E u \in Units :
            Advertise(c, u) \/ \E s \in SetByHand : UpdateUnitStatus(c, u, s)
        \/ \E sheet \in [Leases \ Standing -> Units \X Ends] :
            PreviewImport(c, {<<t, sheet[t][1], sheet[t][2]>> : t \in Leases \ Standing})

(* celery beat starts the refresh every night until a run of it commits, and a
   preview is confirmed or given up: it keeps no session busy *)
TenanciesFairness ==
    \A c \in Desks :
        /\ WF_tenanciesVars(RefreshStatuses(c)) /\ SF_tenanciesVars(SaveLetting(c))
        /\ WF_tenanciesVars(desk[c].at = "between" /\ (CommitImport(c) \/ DropLetting(c)))

TenanciesSpec == TenanciesInit /\ [][TenanciesNext]_tenanciesVars /\ TenanciesFairness

-----------------------------------------------------------------------------
(* Properties *)

(* tenant_service.py:434, import_service.py:461.  Two live tenancies come to
   stand on one unit only when a session commits over rows that changed after
   it read them, when a tenancy that had stopped being live is brought back (by
   an accepted renewal, a new end date, a notice or the refresh), or when one
   spreadsheet names the unit twice. *)
LetTwiceOnlyByOverlapOrRevival ==
    [][\A u \in Units :
        Cardinality(LiveOn(lettings', u)) > 1 /\ Cardinality(LiveOn(lettings, u)) <= 1 =>
            \/ \E c \in Desks : Session!StaleSave(c)
            \/ \E t \in LiveOn(lettings', u) :
                Exists(lettings, t) /\ lettings.tenancy[t].status \notin Live
            \/ \E s, t \in LiveOn(lettings', u) :
                s # t /\ ~Exists(lettings, s) /\ ~Exists(lettings, t)]_tenanciesVars

(* renewal_service.py:108, :290.  A tenancy has one open offer and an answer,
   once given or lapsed, is final, unless two sessions overlap. *)
OnlyOverlapReopensAnOffer ==
    [][ (\E c \in Desks : Session!StaleSave(c)) \/
        /\ \A t \in Leases :
            Cardinality(OpenOffers(lettings, t)) <= 1 => Cardinality(OpenOffers(lettings', t)) <= 1
        /\ \A o \in Offers :
            lettings.offer[o].status \in {"ACCEPTED", "DECLINED", "LAPSED"} =>
                lettings'.offer[o].status = lettings.offer[o].status]_tenanciesVars

(* tenant_service.py:511.  Whatever was written over it (a stale refresh, an
   accepted renewal of an ended tenancy, an import), the status column comes
   back to what the dates say. *)
StatusFollowsDates ==
    \A t \in Leases : []<>(Exists(lettings, t) =>
                            lettings.tenancy[t].status = DerivedStatus(lettings.tenancy[t]))
=============================================================================
