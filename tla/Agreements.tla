----------------------------- MODULE Agreements -----------------------------
(***************************************************************************)
(* The agreement between the agency and an owner: drafted, sent to both    *)
(* parties, in force once both have signed, and ended by notice or by its  *)
(* term (services/management_agreement_service.py), with the public        *)
(* signing links it goes out on (services/signature_service.py).           *)
(*                                                                         *)
(* Sending commits up to five times: each link is committed before the     *)
(* agreement points to it.  A signature activates the agreement in its own *)
(* transaction, which sees of itself only what was flushed.                *)
(***************************************************************************)
EXTENDS Integers, FiniteSets

CONSTANTS
    Contracts,    \* keys of the management_agreements table, of one owner
    Links,        \* keys of the digital_signatures table, by agreement and party
    Staff,        \* requests that can be in flight at a time
    LastDay,      \* the last day looked at
    LinkDays,     \* SIGNING_LINK_EXPIRY_HOURS, in days
    TermDays,     \* the term of an agreement; 0 is open-ended
    NoticeDays,   \* notice_period_days
    MaxDealings   \* bound: how many requests are looked at

ASSUME AgreementsAssumption ==
    /\ Links \subseteq Contracts \X {"owner", "agency"} \X (Nat \ {0})
    /\ Contracts \X {"owner", "agency"} \X {1} \subseteq Links
    /\ {LastDay, LinkDays, NoticeDays} \subseteq Nat \ {0}
    /\ {TermDays, MaxDealings} \subseteq Nat

VARIABLES
    day,      \* the date
    deeds,    \* the committed rows
    staff,    \* the request each session is serving
    dealt     \* how many requests have begun

agreementsVars == <<day, deeds, staff, dealt>>

Parties == {"owner", "agency"}
Tries == {l[3] : l \in Links} \cup {0}
InForce == {"ACTIVE", "TERMINATION_NOTICE"}
Days == 0 .. LastDay + LinkDays + TermDays + NoticeDays

Undrafted == [status |-> "none", owner |-> 0, agency |-> 0, effective |-> 0, end |-> 0]
Unsent == [status |-> "none", until |-> 0, copy |-> FALSE]

NewDeeds ==
    [profile   |-> [o \in {"owner"} |-> [active |-> TRUE]],
     agreement |-> [a \in Contracts |-> Undrafted],
     signature |-> [l \in Links |-> Unsent]]

Deal == INSTANCE Sessions WITH Workers <- Staff, MaxRequests <- MaxDealings,
            db <- deeds, work <- staff, begun <- dealt

(* owner and agency: which link owner_signature_id and agency_signature_id
   point to; copy: signed_document_id is set *)
IsDeeds(rows) ==
    /\ rows.profile \in [{"owner"} -> [active : BOOLEAN]]
    /\ rows.agreement \in [Contracts -> [owner : Tries, agency : Tries,
            effective : Days, end : Days,
            status : InForce \cup {"none", "DRAFT", "PENDING_SIGNATURES",
                                   "TERMINATED", "EXPIRED"}]]
    /\ rows.signature \in [Links -> [until : Days, copy : BOOLEAN,
            status : {"none", "PENDING", "SIGNED", "EXPIRED"}]]

(* what send_for_signature still has to do: the next step, and the agreement
   as it was loaded *)
Sendings == [of : Contracts, step : Parties \cup {"file", "pending"}, draft : BOOLEAN,
             owner : Tries, agency : Tries, filing : Links \cup {"none"}]

AgreementsTypeOK ==
    /\ day \in 1 .. LastDay /\ dealt \in 0 .. MaxDealings
    /\ IsDeeds(deeds)
    /\ \A w \in Staff : Deal!IsWork(staff[w], IsDeeds, Sendings)

(* nothing yet, a draft, or an agreement in force that ends today *)
Drafted ==
    [NewDeeds EXCEPT !.agreement = [a \in Contracts |-> [Undrafted EXCEPT !.status = "DRAFT"]]]

Running ==
    [NewDeeds EXCEPT
        !.agreement = [a \in Contracts |->
            [status |-> "ACTIVE", owner |-> 1, agency |-> 1, effective |-> 0, end |-> 1]],
        !.signature = [l \in Links |->
            IF l[3] = 1 THEN [status |-> "SIGNED", until |-> 1, copy |-> TRUE] ELSE Unsent]]

AgreementsInit ==
    /\ day = 1 /\ dealt = 0
    /\ deeds \in {NewDeeds, Drafted, Running}
    /\ staff = [w \in Staff |-> Deal!Idle]

Deals(w, new) == Deal!Prepares(w, new) /\ UNCHANGED day

-----------------------------------------------------------------------------
(* create; drafts do not stand in each other's way *)
CreateAgreement(w, a) ==
    /\ \A b \in Contracts : deeds.agreement[b].status \notin InForce
    /\ Deal!Fresh("agreement", a, Undrafted)
    /\ Deals(w, [deeds EXCEPT !.agreement[a] =
            [@ EXCEPT !.status = "DRAFT", !.end = IF TermDays = 0 THEN 0 ELSE day + TermDays]])

NextStep(s) ==
    CASE s.owner = 0 -> "owner"
      [] s.owner # 0 /\ s.agency = 0 -> "agency"
      [] s.owner # 0 /\ s.agency # 0 -> "pending"

(* send_for_signature: the agreement is loaded *)
SendForSignature(w, a) ==
    LET row == deeds.agreement[a]
        s == [of |-> a, step |-> "owner", draft |-> row.status = "DRAFT",
              owner |-> row.owner, agency |-> row.agency, filing |-> "none"]
    IN  /\ row.status \in {"DRAFT", "PENDING_SIGNATURES"}
        /\ Deal!Starts(w, {[s EXCEPT !.step = NextStep(s)]})
        /\ UNCHANGED day

(* create_signing_request for the party whose turn it is; it commits *)
RaiseLink(w, s, l) ==
    /\ s.step = l[2] /\ s.of = l[1]
    /\ Deal!Fresh("signature", l, Unsent)
    /\ Deal!Steps(w, [deeds EXCEPT !.signature[l] =
                        [Unsent EXCEPT !.status = "PENDING", !.until = day + LinkDays]],
                  {[s EXCEPT !.step = "file", !.filing = l]})

(* owner_signature_id or agency_signature_id, in a second commit *)
FileLink(w, s) ==
    LET l == s.filing
        filed == [s EXCEPT ![l[2]] = l[3], !.filing = "none"]
    IN  /\ s.step = "file"
        /\ Deal!Steps(w, [deeds EXCEPT !.agreement[l[1]][l[2]] = l[3]],
                      {[filed EXCEPT !.step = NextStep(filed)]})

(* the status; what was loaded as a draft is written over, whatever it is now *)
MarkPending(w, s) ==
    /\ s.step = "pending"
    /\ Deal!Steps(w, IF s.draft THEN [deeds EXCEPT !.agreement[s.of].status = "PENDING_SIGNATURES"]
                     ELSE deeds, {})

ContinueSending(w) ==
    /\ staff[w].at = "between"
    /\ \E s \in staff[w].rest :
        (\E l \in Links : RaiseLink(w, s, l)) \/ FileLink(w, s) \/ MarkPending(w, s)
    /\ UNCHANGED day

-----------------------------------------------------------------------------
(* The public signing page *)

(* get_by_token *)
Signable(l) == deeds.signature[l].status = "PENDING" /\ day < deeds.signature[l].until

(* get_by_token on a link that is out of date *)
ExpireLink(w, l) ==
    /\ deeds.signature[l].status = "PENDING" /\ day >= deeds.signature[l].until
    /\ Deals(w, [deeds EXCEPT !.signature[l].status = "EXPIRED"])

BothSigned(rows, a) ==
    \A p \in Parties :
        /\ rows.agreement[a][p] # 0
        /\ rows.signature[<<a, p, rows.agreement[a][p]>>].status = "SIGNED"

ActivatedByTheOther(rows, seen, a) ==   \* mutant: its own signature is not counted
    IF rows.agreement[a].status = "PENDING_SIGNATURES" /\ BothSigned(deeds, a)
    THEN [rows EXCEPT !.agreement[a].status = "ACTIVE"] ELSE rows

(* activate_if_fully_signed; seen: the rows its SELECT finds *)
Activated(rows, seen, a) ==
    IF rows.agreement[a].status = "PENDING_SIGNATURES" /\ BothSigned(seen, a)
    THEN [rows EXCEPT !.agreement[a].status = "ACTIVE"] ELSE rows

(* verify_otp_and_sign, once the code is accepted.  Storing the signed copy
   flushes the signature; when the overlay fails, nothing has flushed it. *)
Sign(w, l, copy) ==
    LET signed == [deeds EXCEPT !.signature[l] = [@ EXCEPT !.status = "SIGNED", !.copy = copy]]
    IN  /\ Signable(l)
        /\ Deals(w, Activated(signed, IF copy THEN signed ELSE deeds, l[1]))

-----------------------------------------------------------------------------
(* Ending *)

(* request_termination; the parties may shorten the notice *)
RequestTermination(w, a, effective) ==
    /\ deeds.agreement[a].status = "ACTIVE"
    /\ effective >= day
    /\ Deals(w, [deeds EXCEPT !.agreement[a] =
            [@ EXCEPT !.status = "TERMINATION_NOTICE", !.effective = effective]])

(* withdraw_termination *)
WithdrawTermination(w, a) ==
    /\ deeds.agreement[a].status = "TERMINATION_NOTICE"
    /\ Deals(w, [deeds EXCEPT !.agreement[a] =
            [@ EXCEPT !.status = "ACTIVE", !.effective = 0]])

(* complete_due_terminations *)
CompleteDueTerminations(w) ==
    LET rows == deeds.agreement
        due == {a \in Contracts : rows[a].status = "TERMINATION_NOTICE"
                                    /\ rows[a].effective \in 1 .. day}
        expired == {a \in Contracts : rows[a].status = "ACTIVE" /\ rows[a].end \in 1 .. day - 1}
    IN  Deals(w, [deeds EXCEPT
            !.profile["owner"].active = @ /\ due = {},
            !.agreement = [a \in Contracts |->
                CASE a \in due     -> [rows[a] EXCEPT !.status = "TERMINATED"]
                  [] a \in expired -> [rows[a] EXCEPT !.status = "EXPIRED"]
                  [] OTHER         -> rows[a]]])

-----------------------------------------------------------------------------
SaveDeed(w) == Deal!Saves(w) /\ UNCHANGED day
DropDeed(w) == Deal!Drops(w) /\ UNCHANGED day

NextDate ==
    /\ day < LastDay
    /\ day' = day + 1
    /\ UNCHANGED <<deeds, staff, dealt>>

AgreementsNext ==
    \/ NextDate
    \/ \E w \in Staff :
        \/ ContinueSending(w) \/ CompleteDueTerminations(w) \/ SaveDeed(w) \/ DropDeed(w)
        \/ \E l \in Links :
            ExpireLink(w, l) \/ \E copy \in BOOLEAN : Sign(w, l, copy)
        \/ \E a \in Contracts :
            \/ CreateAgreement(w, a) \/ SendForSignature(w, a) \/ WithdrawTermination(w, a)
            \/ \E e \in {day, day + NoticeDays} : RequestTermination(w, a, e)

AgreementsSpec == AgreementsInit /\ [][AgreementsNext]_agreementsVars

-----------------------------------------------------------------------------
(* Properties *)

Stranded(rows, a) == rows.agreement[a].status = "PENDING_SIGNATURES" /\ BothSigned(rows, a)

(* management_agreement_service.py:410 ("activates once both are in"), :427.
   An agreement that both have signed stays pending, for good, only when two
   signings, or a signing and the sending, overlap, when both signed before a
   sending that was cut short was done again, or when a signed copy could not
   be made. *)
OnlyOverlapOrLostCopyStrands ==
    [][\A a \in Contracts :
        Stranded(deeds', a) /\ ~Stranded(deeds, a) =>
            \/ \E w \in Staff : Deal!StaleSave(w) \/ Deal!StaleStep(w)
            \/ deeds.agreement[a].status = "DRAFT" /\ BothSigned(deeds, a)
            \/ \E p \in Parties : ~deeds'.signature[<<a, p, deeds'.agreement[a][p]>>].copy
       ]_agreementsVars
=============================================================================
