----------------------------- MODULE OfficeProofs -----------------------------
(***************************************************************************)
(* What four components of the office guarantee for every number of rows   *)
(* and of requests in flight: Agreements, Deliveries, Maintenance and      *)
(* Logins.  They share no state; each has an inductive invariant of its    *)
(* own, and no theorem about one uses another.  The theorems about the     *)
(* other four components are in LedgerProofs and BookingsProofs.           *)
(*                                                                         *)
(* At the end the office itself: each of its behaviours is one of every    *)
(* component, which is why the components may be proved one by one.        *)
(***************************************************************************)
EXTENDS MCOffice, LedgerProofs, BookingsProofs

-----------------------------------------------------------------------------
(* Agreements.  What a request prepares strands no agreement but by the loss
   of a signed copy, as it read the rows; and a sending holds a draft, and a
   link that nobody has signed, as it saw them. *)

OwnerRow == [active : BOOLEAN]

AgreementRow ==
    [owner : Tries, agency : Tries, effective : Days, end : Days,
     status : InForce \cup {"none", "DRAFT", "PENDING_SIGNATURES", "TERMINATED", "EXPIRED"}]

LinkRow == [until : Days, copy : BOOLEAN, status : {"none", "PENDING", "SIGNED", "EXPIRED"}]

DeedTables ==
    [profile : [{"owner"} -> OwnerRow], agreement : [Contracts -> AgreementRow],
     signature : [Links -> LinkRow]]

(* an agreement points to links of its own *)
PointsToItsLinks(rows) ==
    \A a \in Contracts, p \in Parties :
        rows.agreement[a][p] # 0 => <<a, p, rows.agreement[a][p]>> \in Links

DeedRows == {rows \in DeedTables : PointsToItsLinks(rows)}

(* what was sent stays sent *)
SentStays(was, is) ==
    \A l \in Links : was.signature[l].status # "none" => is.signature[l].status # "none"

CopyLost(rows, a) == \E p \in Parties : ~rows.signature[<<a, p, rows.agreement[a][p]>>].copy

StrandsNobody(was, is) ==
    \A a \in Contracts : Stranded(is, a) /\ ~Stranded(was, a) => CopyLost(is, a)

SendingOK(s, seen) ==
    /\ s \in Sendings
    /\ s.draft => seen.agreement[s.of].status = "DRAFT"
    /\ s.step = "file" =>
        s.filing \in Links /\ s.filing[1] = s.of /\ seen.signature[s.filing].status # "SIGNED"

StaffOK(w, now) ==
    \/ w.at = "idle"
    \/ /\ w.at = "ready" /\ w.rest = {} /\ w.seen = w.was
       /\ w.was \in DeedRows /\ w.is \in DeedRows
       /\ SentStays(w.was, w.is) /\ StrandsNobody(w.was, w.is)
    \/ /\ w.at = "between" /\ w.seen \in DeedRows /\ SentStays(w.seen, now)
       /\ \E s \in Sendings : w.rest = {s} /\ SendingOK(s, w.seen)

AgreementsIInv ==
    /\ day \in 1 .. LastDay /\ dealt \in 0 .. MaxDealings
    /\ staff = [w \in Staff |-> staff[w]]
    /\ deeds \in DeedRows
    /\ \A w \in Staff : StaffOK(staff[w], deeds)

(* the numbers of the links *)
LEMMA LinkNumbers ==
    /\ \A l \in Links : /\ l = <<l[1], l[2], l[3]>> /\ l[1] \in Contracts /\ l[2] \in Parties
                        /\ l[3] \in Nat \ {0} /\ l[3] \in Tries
    /\ Tries \subseteq Nat /\ 0 \in Tries
    /\ \A a \in Contracts, p \in Parties : <<a, p, 1>> \in Links
<1>1. \A l \in Links : /\ l = <<l[1], l[2], l[3]>> /\ l[1] \in Contracts /\ l[2] \in Parties
                       /\ l[3] \in Nat \ {0}
  BY AgreementsAssumption DEF Parties
<1>2. \A a \in Contracts, p \in Parties : <<a, p, 1>> \in Links
  BY AgreementsAssumption DEF Parties
<1>3. QED
  BY <1>1, <1>2 DEF Tries

LEMMA DeedColumns ==
    ASSUME NEW rows \in DeedRows
    PROVE  /\ DOMAIN rows = {"profile", "agreement", "signature"}
           /\ rows.profile \in [{"owner"} -> OwnerRow]
           /\ rows.agreement \in [Contracts -> AgreementRow]
           /\ rows.signature \in [Links -> LinkRow]
           /\ PointsToItsLinks(rows)
           /\ \A t \in DOMAIN rows : \A k \in DOMAIN rows[t] :
                rows[t][k] = [c \in DOMAIN rows[t][k] |-> rows[t][k][c]]
           /\ \A o \in {"owner"} : DOMAIN rows.profile[o] = {"active"}
           /\ \A a \in Contracts :
                DOMAIN rows.agreement[a] = {"owner", "agency", "effective", "end", "status"}
           /\ \A l \in Links : DOMAIN rows.signature[l] = {"until", "copy", "status"}
BY DEF DeedRows, DeedTables, OwnerRow, AgreementRow, LinkRow

LEMMA MergedLandlord ==
    ASSUME NEW was, NEW is \in OwnerRow, NEW now \in OwnerRow
    PROVE  Deal!MergedRow(was, is, now) \in OwnerRow
<1>1. Deal!MergedRow(was, is, now) =
        [active |-> IF is.active = was.active THEN now.active ELSE is.active]
  BY DEF OwnerRow, Deal!MergedRow
<1>2. QED
  BY <1>1 DEF OwnerRow

LEMMA MergedAgreement ==
    ASSUME NEW was, NEW is \in AgreementRow, NEW now \in AgreementRow
    PROVE  LET r == Deal!MergedRow(was, is, now)
           IN  /\ r \in AgreementRow
               /\ \A p \in Parties : r[p] \in {now[p], is[p]}
<1>1. Deal!MergedRow(was, is, now) =
        [owner |-> IF is.owner = was.owner THEN now.owner ELSE is.owner,
         agency |-> IF is.agency = was.agency THEN now.agency ELSE is.agency,
         effective |-> IF is.effective = was.effective THEN now.effective ELSE is.effective,
         end |-> IF is.end = was.end THEN now.end ELSE is.end,
         status |-> IF is.status = was.status THEN now.status ELSE is.status]
  BY DEF AgreementRow, Deal!MergedRow
<1>2. QED
  BY <1>1 DEF AgreementRow, Parties

LEMMA MergedLink ==
    ASSUME NEW was, NEW is \in LinkRow, NEW now \in LinkRow
    PROVE  LET r == Deal!MergedRow(was, is, now)
           IN  /\ r \in LinkRow
               /\ r.status = IF is.status = was.status THEN now.status ELSE is.status
<1>1. Deal!MergedRow(was, is, now) =
        [until |-> IF is.until = was.until THEN now.until ELSE is.until,
         copy |-> IF is.copy = was.copy THEN now.copy ELSE is.copy,
         status |-> IF is.status = was.status THEN now.status ELSE is.status]
  BY DEF LinkRow, Deal!MergedRow
<1>2. QED
  BY <1>1 DEF LinkRow

LEMMA MergedDeeds ==
    ASSUME NEW was \in DeedRows, NEW is \in DeedRows, NEW now \in DeedRows, SentStays(was, is)
    PROVE  Deal!Merged(was, is, now) \in DeedRows /\ SentStays(now, Deal!Merged(was, is, now))
<1> DEFINE m == Deal!Merged(was, is, now)
           Row(t, k) == Deal!MergedRow(was[t][k], is[t][k], now[t][k])
<1>1. m = [t \in {"profile", "agreement", "signature"} |-> [k \in DOMAIN now[t] |-> Row(t, k)]]
  BY DeedColumns DEF Deal!Merged
<1>2. /\ m.profile = [o \in {"owner"} |-> Row("profile", o)]
      /\ m.agreement = [a \in Contracts |-> Row("agreement", a)]
      /\ m.signature = [l \in Links |-> Row("signature", l)]
      /\ m = [profile |-> m.profile, agreement |-> m.agreement, signature |-> m.signature]
  BY <1>1, DeedColumns
<1>3. \A o \in {"owner"} : Row("profile", o) \in OwnerRow
  BY MergedLandlord, DeedColumns
<1>4. \A a \in Contracts :
        /\ Row("agreement", a) \in AgreementRow
        /\ \A p \in Parties :
            Row("agreement", a)[p] \in {now.agreement[a][p], is.agreement[a][p]}
  BY MergedAgreement, DeedColumns
<1>5. \A l \in Links :
        /\ Row("signature", l) \in LinkRow
        /\ Row("signature", l).status = IF is.signature[l].status = was.signature[l].status
                                        THEN now.signature[l].status ELSE is.signature[l].status
  BY MergedLink, DeedColumns
<1> HIDE DEF m, Row
<1>6. m \in DeedTables
  BY <1>2, <1>3, <1>4, <1>5 DEF DeedTables
<1>7. PointsToItsLinks(m)
  BY <1>2, <1>4, DeedColumns DEF PointsToItsLinks
<1>8. SentStays(now, m)
  BY <1>2, <1>5 DEF SentStays
<1>9. QED
  BY <1>6, <1>7, <1>8 DEF DeedRows, m

LEMMA SavesThePreparedDeeds ==
    ASSUME NEW was \in DeedRows, NEW is \in DeedRows
    PROVE  Deal!Merged(was, is, was) = is
<1>1. \A t \in DOMAIN was : DOMAIN is[t] = DOMAIN was[t]
  BY DeedColumns
<1>2. \A t \in DOMAIN was : \A k \in DOMAIN was[t] : DOMAIN is[t][k] = DOMAIN was[t][k]
  BY DeedColumns
<1>3. \A t \in DOMAIN was : \A k \in DOMAIN was[t] :
        Deal!MergedRow(was[t][k], is[t][k], was[t][k]) = is[t][k]
  BY <1>1, <1>2, DeedColumns DEF Deal!MergedRow
<1>4. \A t \in DOMAIN is : is[t] = [k \in DOMAIN is[t] |-> is[t][k]]
  BY DeedColumns
<1>5. is = [t \in DOMAIN is |-> is[t]]
  BY DEF DeedRows, DeedTables
<1>6. QED
  BY <1>1, <1>3, <1>4, <1>5, DeedColumns DEF Deal!Merged

-----------------------------------------------------------------------------
(* What the handlers prepare *)

(* Fine rows to prepare: a request reads and writes all it has to in one go. *)
FineDeeds(new) == new \in DeedRows /\ SentStays(deeds, new) /\ StrandsNobody(deeds, new)

(* Rows that differ in the agreements alone, and leave none of them pending that
   was not. *)
LEMMA OtherAgreements ==
    ASSUME deeds \in DeedRows, NEW profile \in [{"owner"} -> OwnerRow],
           NEW agreement \in [Contracts -> AgreementRow], NEW new,
           new = [deeds EXCEPT !.profile = profile, !.agreement = agreement],
           \A a \in Contracts :
                /\ \A p \in Parties : agreement[a][p] = deeds.agreement[a][p]
                /\ agreement[a].status = "PENDING_SIGNATURES" =>
                        deeds.agreement[a].status = "PENDING_SIGNATURES"
    PROVE  FineDeeds(new)
<1>1. /\ new \in DeedTables /\ new.agreement = agreement /\ new.signature = deeds.signature
  BY DEF DeedRows, DeedTables
<1>2. PointsToItsLinks(new)
  BY <1>1, DeedColumns DEF PointsToItsLinks
<1>3. \A a \in Contracts : Stranded(new, a) => Stranded(deeds, a)
  BY <1>1 DEF Stranded, BothSigned
<1>4. QED
  BY <1>1, <1>2, <1>3 DEF FineDeeds, DeedRows, SentStays, StrandsNobody

(* One agreement that gets another status or other dates. *)
LEMMA OneAgreement ==
    ASSUME deeds \in DeedRows, NEW a \in Contracts, NEW row \in AgreementRow,
           row.owner = deeds.agreement[a].owner, row.agency = deeds.agreement[a].agency,
           row.status # "PENDING_SIGNATURES"
    PROVE  FineDeeds([deeds EXCEPT !.agreement[a] = row])
<1> DEFINE agreement == [deeds.agreement EXCEPT ![a] = row]
           new == [deeds EXCEPT !.agreement[a] = row]
<1>1. agreement \in [Contracts -> AgreementRow] /\ deeds.profile \in [{"owner"} -> OwnerRow]
  BY DeedColumns
<1>2. new = [deeds EXCEPT !.profile = deeds.profile, !.agreement = agreement]
  BY DEF DeedRows, DeedTables
<1>3. \A b \in Contracts :
        /\ \A p \in Parties : agreement[b][p] = deeds.agreement[b][p]
        /\ agreement[b].status = "PENDING_SIGNATURES" =>
                deeds.agreement[b].status = "PENDING_SIGNATURES"
  BY <1>1, DeedColumns DEF Parties
<1> HIDE DEF agreement, new
<1>4. QED
  BY <1>1, <1>2, <1>3, OtherAgreements DEF new

LEMMA Drafts ==
    ASSUME AgreementsIInv, NEW a \in Contracts
    PROVE  FineDeeds([deeds EXCEPT !.agreement[a] =
            [@ EXCEPT !.status = "DRAFT", !.end = IF TermDays = 0 THEN 0 ELSE day + TermDays]])
<1> DEFINE e == IF TermDays = 0 THEN 0 ELSE day + TermDays
           row == [deeds.agreement[a] EXCEPT !.status = "DRAFT", !.end = e]
<1>1. deeds \in DeedRows /\ deeds.agreement[a] \in AgreementRow
  BY DeedColumns DEF AgreementsIInv
<1>2. e \in Days
  BY AgreementsAssumption DEF Days, AgreementsIInv
<1>3. /\ row \in AgreementRow /\ row.status = "DRAFT"
      /\ row.owner = deeds.agreement[a].owner /\ row.agency = deeds.agreement[a].agency
  BY <1>1, <1>2 DEF AgreementRow
<1> HIDE DEF e, row
<1>4. FineDeeds([deeds EXCEPT !.agreement[a] = row])
  BY <1>1, <1>3, OneAgreement
<1>5. QED
  BY <1>4 DEF row, e

LEMMA Notices ==
    ASSUME AgreementsIInv, NEW a \in Contracts, NEW when \in Days,
           NEW status \in {"ACTIVE", "TERMINATION_NOTICE"}
    PROVE  FineDeeds([deeds EXCEPT !.agreement[a] =
                        [@ EXCEPT !.status = status, !.effective = when]])
<1> DEFINE row == [deeds.agreement[a] EXCEPT !.status = status, !.effective = when]
<1>1. deeds \in DeedRows /\ deeds.agreement[a] \in AgreementRow
  BY DeedColumns DEF AgreementsIInv
<1>2. /\ row \in AgreementRow /\ row.status # "PENDING_SIGNATURES"
      /\ row.owner = deeds.agreement[a].owner /\ row.agency = deeds.agreement[a].agency
  BY <1>1 DEF AgreementRow, InForce
<1> HIDE DEF row
<1>3. FineDeeds([deeds EXCEPT !.agreement[a] = row])
  BY <1>1, <1>2, OneAgreement
<1>4. QED
  BY <1>3 DEF row

(* complete_due_terminations *)
LEMMA Endings ==
    ASSUME AgreementsIInv, NEW due \in SUBSET Contracts, NEW expired \in SUBSET Contracts
    PROVE  FineDeeds([deeds EXCEPT
            !.profile["owner"].active = @ /\ due = {},
            !.agreement = [a \in Contracts |->
                CASE a \in due     -> [deeds.agreement[a] EXCEPT !.status = "TERMINATED"]
                  [] a \in expired -> [deeds.agreement[a] EXCEPT !.status = "EXPIRED"]
                  [] OTHER         -> deeds.agreement[a]]])
<1> DEFINE Row(a) ==
                CASE a \in due     -> [deeds.agreement[a] EXCEPT !.status = "TERMINATED"]
                  [] a \in expired -> [deeds.agreement[a] EXCEPT !.status = "EXPIRED"]
                  [] OTHER         -> deeds.agreement[a]
           agreement == [a \in Contracts |-> Row(a)]
           profile == [deeds.profile EXCEPT !["owner"].active = @ /\ due = {}]
           new == [deeds EXCEPT !.profile["owner"].active = @ /\ due = {},
                                !.agreement = agreement]
<1>1. deeds \in DeedRows /\ \A a \in Contracts : deeds.agreement[a] \in AgreementRow
  BY DeedColumns DEF AgreementsIInv
<1>2. \A a \in Contracts :
        /\ Row(a) \in AgreementRow
        /\ Row(a).owner = deeds.agreement[a].owner /\ Row(a).agency = deeds.agreement[a].agency
        /\ Row(a).status \in {"TERMINATED", "EXPIRED", deeds.agreement[a].status}
  BY <1>1 DEF AgreementRow
<1>3. profile \in [{"owner"} -> OwnerRow]
  <2>1. deeds.profile \in [{"owner"} -> OwnerRow] /\ deeds.profile["owner"].active \in BOOLEAN
    BY <1>1, DeedColumns DEF OwnerRow
  <2>2. (deeds.profile["owner"].active /\ due = {}) \in BOOLEAN
    OBVIOUS
  <2>3. QED
    BY <2>1, <2>2 DEF OwnerRow
<1> HIDE DEF Row
<1>4. /\ agreement \in [Contracts -> AgreementRow]
      /\ \A a \in Contracts :
            /\ \A p \in Parties : agreement[a][p] = deeds.agreement[a][p]
            /\ agreement[a].status = "PENDING_SIGNATURES" =>
                    deeds.agreement[a].status = "PENDING_SIGNATURES"
  BY <1>2 DEF Parties
<1>5. new = [deeds EXCEPT !.profile = profile, !.agreement = agreement]
  BY <1>1 DEF DeedRows, DeedTables
<1> HIDE DEF agreement, profile, new
<1>6. FineDeeds(new)
  BY <1>1, <1>3, <1>4, <1>5, OtherAgreements
<1>7. QED
  BY <1>6 DEF new, agreement, Row

(* Rows with one other link: no agreement but its own sees the difference, and
   that one only if it is signed now. *)
LEMMA OneLink ==
    ASSUME deeds \in DeedRows, NEW l \in Links, NEW row \in LinkRow, row.status # "none"
    PROVE  LET new == [deeds EXCEPT !.signature[l] = row]
           IN  /\ new \in DeedRows /\ SentStays(deeds, new)
               /\ new.agreement = deeds.agreement
               /\ new.signature = [deeds.signature EXCEPT ![l] = row]
               /\ \A a \in Contracts :
                    Stranded(new, a) /\ ~Stranded(deeds, a) =>
                        /\ row.status = "SIGNED" /\ a = l[1]
                        /\ \E p \in Parties : <<a, p, deeds.agreement[a][p]>> = l
<1> DEFINE new == [deeds EXCEPT !.signature[l] = row]
<1>1. /\ new \in DeedTables /\ new.agreement = deeds.agreement
      /\ new.signature = [deeds.signature EXCEPT ![l] = row]
  BY DEF DeedRows, DeedTables
<1> HIDE DEF new
<1>2. deeds.signature \in [Links -> LinkRow] /\ PointsToItsLinks(deeds)
  BY DeedColumns
<1>3. new \in DeedRows /\ SentStays(deeds, new)
  BY <1>1, <1>2 DEF DeedRows, PointsToItsLinks, SentStays
<1>4. ASSUME NEW a \in Contracts, Stranded(new, a), ~Stranded(deeds, a)
      PROVE  /\ row.status = "SIGNED" /\ a = l[1]
             /\ \E p \in Parties : <<a, p, deeds.agreement[a][p]>> = l
  <2>1. PICK p \in Parties : /\ deeds.agreement[a][p] # 0
                             /\ new.signature[<<a, p, deeds.agreement[a][p]>>].status = "SIGNED"
                             /\ deeds.signature[<<a, p, deeds.agreement[a][p]>>].status # "SIGNED"
    BY <1>1, <1>4 DEF Stranded, BothSigned
  <2>2. <<a, p, deeds.agreement[a][p]>> \in Links
    BY <1>2, <2>1 DEF PointsToItsLinks
  <2>3. <<a, p, deeds.agreement[a][p]>> = l /\ row.status = "SIGNED"
    BY <1>1, <1>2, <2>1, <2>2
  <2>4. QED
    BY <2>3
<1>5. QED
  BY <1>1, <1>3, <1>4 DEF new

(* get_by_token on a link that is out of date *)
LEMMA Expires ==
    ASSUME AgreementsIInv, NEW l \in Links
    PROVE  FineDeeds([deeds EXCEPT !.signature[l].status = "EXPIRED"])
<1> DEFINE row == [deeds.signature[l] EXCEPT !.status = "EXPIRED"]
<1>1. deeds \in DeedRows /\ deeds.signature[l] \in LinkRow
  BY DeedColumns DEF AgreementsIInv
<1>2. row \in LinkRow /\ row.status = "EXPIRED"
  BY <1>1 DEF LinkRow
<1>3. [deeds EXCEPT !.signature[l].status = "EXPIRED"] = [deeds EXCEPT !.signature[l] = row]
  OBVIOUS
<1> HIDE DEF row
<1>4. FineDeeds([deeds EXCEPT !.signature[l] = row])
  BY <1>1, <1>2, OneLink DEF FineDeeds, StrandsNobody
<1>5. QED
  BY <1>3, <1>4

(* verify_otp_and_sign: its own agreement becomes active, or its copy is lost *)
LEMMA Signs ==
    ASSUME AgreementsIInv, NEW l \in Links, NEW copy \in BOOLEAN
    PROVE  LET signed == [deeds EXCEPT !.signature[l] =
                            [@ EXCEPT !.status = "SIGNED", !.copy = copy]]
           IN  FineDeeds(Activated(signed, IF copy THEN signed ELSE deeds, l[1]))
<1> DEFINE row == [deeds.signature[l] EXCEPT !.status = "SIGNED", !.copy = copy]
           signed == [deeds EXCEPT !.signature[l] = row]
           seen == IF copy THEN signed ELSE deeds
           active == [signed EXCEPT !.agreement[l[1]].status = "ACTIVE"]
           new == Activated(signed, seen, l[1])
<1>1. deeds \in DeedRows /\ deeds.signature[l] \in LinkRow /\ l[1] \in Contracts
      /\ deeds.agreement \in [Contracts -> AgreementRow] /\ deeds.signature \in [Links -> LinkRow]
  BY DeedColumns, LinkNumbers DEF AgreementsIInv
<1>2. row \in LinkRow /\ row.status = "SIGNED" /\ row.copy = copy
  BY <1>1 DEF LinkRow
<1> HIDE DEF row
<1>3. /\ signed \in DeedRows /\ SentStays(deeds, signed)
      /\ signed.agreement = deeds.agreement
      /\ signed.signature = [deeds.signature EXCEPT ![l] = row]
      /\ \A a \in Contracts :
            Stranded(signed, a) /\ ~Stranded(deeds, a) =>
                a = l[1] /\ \E p \in Parties : <<a, p, deeds.agreement[a][p]>> = l
  BY <1>1, <1>2, OneLink
<1> HIDE DEF signed
<1>4. /\ active \in DeedRows /\ active.signature = signed.signature
      /\ \A a \in Contracts :
            /\ a # l[1] => active.agreement[a] = signed.agreement[a]
            /\ a = l[1] => active.agreement[a].status = "ACTIVE"
  <2>1. \A a \in Contracts, p \in Parties : active.agreement[a][p] = signed.agreement[a][p]
    BY <1>1, <1>3 DEF DeedRows, DeedTables, AgreementRow, Parties
  <2>2. /\ active \in DeedTables /\ active.signature = signed.signature
        /\ \A a \in Contracts :
            /\ a # l[1] => active.agreement[a] = signed.agreement[a]
            /\ a = l[1] => active.agreement[a].status = "ACTIVE"
    BY <1>1, <1>3 DEF DeedRows, DeedTables, AgreementRow, InForce
  <2> HIDE DEF active
  <2>3. PointsToItsLinks(active)
    BY <1>3, <2>1 DEF DeedRows, PointsToItsLinks
  <2>4. QED
    BY <2>2, <2>3 DEF DeedRows
<1> HIDE DEF active
<1>5. /\ new \in DeedRows /\ new.signature = signed.signature
      /\ \A a \in Contracts : Stranded(new, a) => Stranded(signed, a)
  <2>1. CASE new = signed
    BY <1>3, <2>1
  <2>2. CASE new = active
    BY <1>4, <2>2 DEF Stranded, BothSigned
  <2>3. QED
    BY <2>1, <2>2 DEF Activated, active
<1>6. SentStays(deeds, new)
  BY <1>3, <1>5 DEF SentStays
<1>7. ASSUME NEW a \in Contracts, Stranded(new, a), ~Stranded(deeds, a) PROVE CopyLost(new, a)
  <2>1. PICK p \in Parties : <<a, p, deeds.agreement[a][p]>> = l
    BY <1>3, <1>5, <1>7
  <2>2. a = l[1] /\ Stranded(signed, a)
    BY <1>3, <1>5, <1>7
  <2>3. ~copy /\ new = signed
    BY <1>4, <1>7, <2>2 DEF Activated, Stranded, active
  <2>4. new.signature[<<a, p, new.agreement[a][p]>>] = row
    BY <1>1, <1>3, <2>1, <2>3
  <2>5. QED
    BY <1>2, <2>3, <2>4 DEF CopyLost
<1> HIDE DEF seen, new
<1>8. FineDeeds(new)
  BY <1>5, <1>6, <1>7 DEF FineDeeds, StrandsNobody
<1>9. QED
  BY <1>8 DEF new, seen, signed, row

-----------------------------------------------------------------------------
(* The inductive invariant of Agreements *)

LEMMA AgreementsInitIInv == AgreementsInit => AgreementsIInv
<1> SUFFICES ASSUME AgreementsInit PROVE AgreementsIInv
  OBVIOUS
<1>1. day \in 1 .. LastDay /\ dealt \in 0 .. MaxDealings
  BY AgreementsAssumption DEF AgreementsInit
<1>2. 0 \in Days /\ 1 \in Days /\ 0 \in Tries /\ Undrafted \in AgreementRow /\ Unsent \in LinkRow
  BY AgreementsAssumption, LinkNumbers DEF Days, Undrafted, Unsent, AgreementRow, LinkRow
<1>3. [Undrafted EXCEPT !.status = "DRAFT"] \in AgreementRow
  BY <1>2 DEF Undrafted, AgreementRow
<1>4. NewDeeds \in DeedRows
  BY <1>2 DEF NewDeeds, DeedRows, DeedTables, OwnerRow, PointsToItsLinks, Undrafted, Parties
<1>5. ASSUME NEW agreement \in [Contracts -> AgreementRow], NEW signature \in [Links -> LinkRow],
             \A a \in Contracts, p \in Parties : agreement[a][p] \in {0, 1}
      PROVE  [NewDeeds EXCEPT !.agreement = agreement, !.signature = signature] \in DeedRows
  <2> DEFINE rows == [NewDeeds EXCEPT !.agreement = agreement, !.signature = signature]
  <2>1. NewDeeds \in DeedTables
    BY <1>4 DEF DeedRows
  <2>2. rows \in DeedTables /\ rows.agreement = agreement
    BY <2>1 DEF DeedTables
  <2> HIDE DEF rows
  <2>3. PointsToItsLinks(rows)
    BY <1>5, <2>2, LinkNumbers DEF PointsToItsLinks
  <2>4. QED
    BY <2>2, <2>3 DEF DeedRows, rows
<1>6. Drafted \in DeedRows /\ Running \in DeedRows
  <2> DEFINE draft == [a \in Contracts |-> [Undrafted EXCEPT !.status = "DRAFT"]]
             active == [a \in Contracts |->
                [status |-> "ACTIVE", owner |-> 1, agency |-> 1, effective |-> 0, end |-> 1]]
             links == [l \in Links |->
                IF l[3] = 1 THEN [status |-> "SIGNED", until |-> 1, copy |-> TRUE] ELSE Unsent]
  <2>1. /\ draft \in [Contracts -> AgreementRow]
        /\ \A a \in Contracts, p \in Parties : draft[a][p] \in {0, 1}
    BY <1>3 DEF Undrafted, Parties
  <2>2. \A a \in Contracts : 1 \in Tries
    BY LinkNumbers DEF Tries, Parties
  <2>3. /\ active \in [Contracts -> AgreementRow]
        /\ \A a \in Contracts, p \in Parties : active[a][p] \in {0, 1}
    BY <1>2, <2>2 DEF AgreementRow, InForce, Parties
  <2>4. links \in [Links -> LinkRow] /\ NewDeeds.signature \in [Links -> LinkRow]
    BY <1>2 DEF LinkRow, NewDeeds
  <2>5. Drafted = [NewDeeds EXCEPT !.agreement = draft, !.signature = NewDeeds.signature]
    BY DEF Drafted, NewDeeds
  <2>6. Running = [NewDeeds EXCEPT !.agreement = active, !.signature = links]
    BY DEF Running
  <2> HIDE DEF draft, active, links
  <2>7. QED
    BY <1>5, <2>1, <2>3, <2>4, <2>5, <2>6
<1>7. deeds \in DeedRows
  BY <1>4, <1>6 DEF AgreementsInit
<1>8. staff = [w \in Staff |-> staff[w]] /\ \A w \in Staff : StaffOK(staff[w], deeds)
  BY DEF AgreementsInit, StaffOK, Deal!Idle
<1>9. QED
  BY <1>1, <1>7, <1>8 DEF AgreementsIInv

(* One session goes on, and what was sent stays sent. *)
LEMMA StaffStep ==
    ASSUME AgreementsIInv, NEW w \in Staff, NEW x, staff' = [staff EXCEPT ![w] = x],
           deeds' \in DeedRows, SentStays(deeds, deeds'), StaffOK(x, deeds'),
           dealt' \in 0 .. MaxDealings, UNCHANGED day
    PROVE  AgreementsIInv'
<1>1. \A v \in Staff : StaffOK(staff[v], deeds')
  BY DEF AgreementsIInv, StaffOK, SentStays
<1>2. /\ staff' = [v \in Staff |-> staff'[v]]
      /\ \A v \in Staff : StaffOK(staff'[v], deeds')
  BY <1>1 DEF AgreementsIInv
<1>3. QED
  BY <1>2 DEF AgreementsIInv

LEMMA DealsIInv ==
    ASSUME AgreementsIInv, NEW w \in Staff, NEW new, Deals(w, new), FineDeeds(new)
    PROVE  AgreementsIInv' /\ UNCHANGED deeds
<1> DEFINE x == Deal!Ready(deeds, new, {})
<1>1. /\ staff' = [staff EXCEPT ![w] = x] /\ dealt' = dealt + 1
      /\ dealt < MaxDealings /\ UNCHANGED <<day, deeds>>
  BY DEF Deals, Deal!Prepares, Deal!PreparesOne, Deal!Begins
<1>2. StaffOK(x, deeds')
  BY <1>1 DEF AgreementsIInv, StaffOK, Deal!Ready, FineDeeds
<1>3. dealt' \in 0 .. MaxDealings /\ SentStays(deeds, deeds') /\ deeds' \in DeedRows
  BY <1>1, AgreementsAssumption DEF AgreementsIInv, SentStays
<1> HIDE DEF x
<1>4. QED
  BY <1>1, <1>2, <1>3, StaffStep

LEMMA SaveDeedIInv ==
    ASSUME AgreementsIInv, NEW w \in Staff, SaveDeed(w)
    PROVE  AgreementsIInv'
<1>1. /\ staff[w].at = "ready" /\ deeds' = Deal!Merged(staff[w].was, staff[w].is, deeds)
      /\ UNCHANGED <<day, dealt>>
  BY DEF SaveDeed, Deal!Saves
<1>2. /\ staff[w].rest = {} /\ staff[w].was \in DeedRows /\ staff[w].is \in DeedRows
      /\ deeds \in DeedRows /\ SentStays(staff[w].was, staff[w].is)
  BY <1>1 DEF AgreementsIInv, StaffOK
<1>3. staff' = [staff EXCEPT ![w] = Deal!Idle]
  BY <1>2 DEF SaveDeed, Deal!Saves
<1>4. deeds' \in DeedRows /\ SentStays(deeds, deeds')
  BY <1>1, <1>2, MergedDeeds
<1>5. StaffOK(Deal!Idle, deeds') /\ dealt' \in 0 .. MaxDealings
  BY <1>1 DEF StaffOK, Deal!Idle, AgreementsIInv
<1>6. QED
  BY <1>1, <1>3, <1>4, <1>5, StaffStep

LEMMA DropDeedIInv ==
    ASSUME AgreementsIInv, NEW w \in Staff, DropDeed(w)
    PROVE  AgreementsIInv' /\ UNCHANGED deeds
<1>1. staff' = [staff EXCEPT ![w] = Deal!Idle] /\ UNCHANGED <<day, deeds, dealt>>
  BY DEF DropDeed, Deal!Drops
<1>2. /\ StaffOK(Deal!Idle, deeds') /\ dealt' \in 0 .. MaxDealings
      /\ deeds' \in DeedRows /\ SentStays(deeds, deeds')
  BY <1>1 DEF StaffOK, Deal!Idle, AgreementsIInv, SentStays
<1>3. QED
  BY <1>1, <1>2, StaffStep

LEMMA NextDateIInv ==
    ASSUME AgreementsIInv, NextDate
    PROVE  AgreementsIInv' /\ UNCHANGED deeds
<1>1. day' = day + 1 /\ day < LastDay /\ UNCHANGED <<deeds, staff, dealt>>
  BY DEF NextDate
<1>2. day' \in 1 .. LastDay
  BY <1>1, AgreementsAssumption DEF AgreementsIInv
<1>3. QED
  BY <1>1, <1>2 DEF AgreementsIInv

(* one commit of a sending, which knows the rows it writes *)
LEMMA SendingStep ==
    ASSUME AgreementsIInv, NEW w \in Staff, NEW s \in Sendings, NEW new \in DeedRows,
           Deal!Steps(w, new, {s}), UNCHANGED day,
           SentStays(deeds, new), SendingOK(s, staff[w].seen),
           staff[w].seen = deeds => SendingOK(s, new)
    PROVE  AgreementsIInv'
<1> DEFINE seen == IF staff[w].seen = deeds THEN new ELSE staff[w].seen
           x == Deal!Between(seen, {s})
<1>1. /\ staff[w].at = "between" /\ deeds' = new /\ UNCHANGED dealt
      /\ staff' = [staff EXCEPT ![w] = x]
  BY DEF Deal!Steps
<1>2. staff[w].seen \in DeedRows /\ SentStays(staff[w].seen, deeds)
  BY <1>1 DEF AgreementsIInv, StaffOK
<1>3. seen \in DeedRows /\ SentStays(seen, new) /\ SendingOK(s, seen)
  BY <1>2 DEF SentStays
<1> HIDE DEF seen
<1>4. StaffOK(x, new)
  BY <1>3 DEF StaffOK, Deal!Between
<1>5. dealt' \in 0 .. MaxDealings
  BY <1>1 DEF AgreementsIInv
<1> HIDE DEF x
<1>6. QED
  BY <1>1, <1>4, <1>5, StaffStep

(* create_signing_request: a link nobody has signed yet *)
LEMMA RaiseLinkIInv ==
    ASSUME AgreementsIInv, NEW w \in Staff, staff[w].at = "between", NEW s \in staff[w].rest,
           NEW l \in Links, RaiseLink(w, s, l), UNCHANGED day
    PROVE  AgreementsIInv' /\ \A a \in Contracts : Stranded(deeds', a) => Stranded(deeds, a)
<1> DEFINE row == [Unsent EXCEPT !.status = "PENDING", !.until = day + LinkDays]
           new == [deeds EXCEPT !.signature[l] = row]
           next == [s EXCEPT !.step = "file", !.filing = l]
<1>1. /\ s.of = l[1] /\ deeds.signature[l] = Unsent /\ Deal!Steps(w, new, {next})
      /\ deeds' = new
  BY DEF RaiseLink, Deal!Fresh, Deal!Steps
<1>2. /\ s \in Sendings /\ SendingOK(s, staff[w].seen) /\ SentStays(staff[w].seen, deeds)
      /\ deeds \in DeedRows /\ staff[w].seen \in DeedRows
  BY DEF AgreementsIInv, StaffOK
<1>3. row \in LinkRow /\ row.status = "PENDING"
  <2>1. day + LinkDays \in Days
    BY AgreementsAssumption DEF AgreementsIInv, Days
  <2>2. QED
    BY <2>1 DEF Unsent, LinkRow
<1> HIDE DEF row
<1>4. /\ new \in DeedRows /\ SentStays(deeds, new) /\ new.agreement = deeds.agreement
      /\ new.signature = [deeds.signature EXCEPT ![l] = row]
      /\ \A a \in Contracts : Stranded(new, a) => Stranded(deeds, a)
  BY <1>2, <1>3, OneLink
<1>5. /\ next \in Sendings /\ next.draft = s.draft /\ next.of = s.of
      /\ next.step = "file" /\ next.filing = l
  BY <1>2 DEF Sendings
<1> HIDE DEF next, new
<1>6. SendingOK(next, staff[w].seen)
  <2>1. staff[w].seen.signature[l].status = "none"
    BY <1>1, <1>2 DEF SentStays, Unsent
  <2>2. QED
    BY <1>1, <1>2, <1>5, <2>1 DEF SendingOK
<1>7. staff[w].seen = deeds => SendingOK(next, new)
  BY <1>1, <1>2, <1>3, <1>4, <1>5, DeedColumns DEF SendingOK
<1>8. QED
  BY <1>1, <1>2, <1>4, <1>5, <1>6, <1>7, SendingStep

(* owner_signature_id or agency_signature_id: only a link that was signed since
   the rows were seen can complete the signatures *)
LEMMA FileLinkIInv ==
    ASSUME AgreementsIInv, NEW w \in Staff, staff[w].at = "between", NEW s \in staff[w].rest,
           FileLink(w, s), UNCHANGED day
    PROVE  /\ AgreementsIInv' /\ staff'[w] # staff[w]
           /\ staff[w].seen = deeds =>
                \A a \in Contracts : Stranded(deeds', a) => Stranded(deeds, a)
<1> DEFINE l == s.filing
           linked == [s EXCEPT ![l[2]] = l[3], !.filing = "none"]
           new == [deeds EXCEPT !.agreement[l[1]][l[2]] = l[3]]
           next == [linked EXCEPT !.step = NextStep(linked)]
<1>1. s.step = "file" /\ Deal!Steps(w, new, {next}) /\ deeds' = new
  BY DEF FileLink, Deal!Steps
<1>2. /\ s \in Sendings /\ SendingOK(s, staff[w].seen) /\ SentStays(staff[w].seen, deeds)
      /\ deeds \in DeedRows /\ staff[w].seen \in DeedRows
  BY DEF AgreementsIInv, StaffOK
<1>3. /\ l \in Links /\ l[1] = s.of /\ l = <<l[1], l[2], l[3]>>
      /\ l[1] \in Contracts /\ l[2] \in Parties /\ l[3] \in Tries /\ l[3] # 0
      /\ staff[w].seen.signature[l].status # "SIGNED"
  BY <1>1, <1>2, LinkNumbers DEF SendingOK
<1>4. /\ linked \in Sendings /\ linked.draft = s.draft /\ linked.of = s.of
  BY <1>2, <1>3 DEF Sendings, Parties
<1>5. /\ new.signature = deeds.signature
      /\ \A a \in Contracts :
            /\ new.agreement[a].status = deeds.agreement[a].status
            /\ \A p \in Parties : new.agreement[a][p] =
                    IF a = l[1] /\ p = l[2] THEN l[3] ELSE deeds.agreement[a][p]
      /\ new \in DeedTables
  <2> DEFINE row == [deeds.agreement[l[1]] EXCEPT ![l[2]] = l[3]]
             agreement == [deeds.agreement EXCEPT ![l[1]] = row]
  <2>1. deeds.agreement \in [Contracts -> AgreementRow] /\ deeds.agreement[l[1]] \in AgreementRow
    BY <1>2, <1>3, DeedColumns
  <2>2. /\ row \in AgreementRow /\ row.status = deeds.agreement[l[1]].status
        /\ \A p \in Parties : row[p] = IF p = l[2] THEN l[3] ELSE deeds.agreement[l[1]][p]
    BY <1>3, <2>1 DEF AgreementRow, Parties
  <2>3. new = [deeds EXCEPT !.agreement = agreement]
    BY <1>2 DEF DeedRows, DeedTables
  <2> HIDE DEF row, new
  <2>4. /\ agreement \in [Contracts -> AgreementRow] /\ agreement[l[1]] = row
        /\ \A a \in Contracts : a # l[1] => agreement[a] = deeds.agreement[a]
    BY <1>3, <2>1, <2>2
  <2> HIDE DEF agreement
  <2>5. new \in DeedTables /\ new.signature = deeds.signature /\ new.agreement = agreement
    BY <1>2, <2>3, <2>4 DEF DeedRows, DeedTables
  <2>6. QED
    BY <2>2, <2>4, <2>5
<1> HIDE DEF new, linked
<1>6. new \in DeedRows
  <2>1. ASSUME NEW a \in Contracts, NEW p \in Parties, new.agreement[a][p] # 0
        PROVE  <<a, p, new.agreement[a][p]>> \in Links
    <3>1. CASE a = l[1] /\ p = l[2]
      <4>1. <<a, p, new.agreement[a][p]>> = l
        BY <1>3, <1>5, <3>1
      <4>2. QED
        BY <1>3, <4>1
    <3>2. CASE ~(a = l[1] /\ p = l[2])
      BY <1>2, <1>5, <2>1, <3>2, DeedColumns DEF PointsToItsLinks
    <3>3. QED
      BY <3>1, <3>2
  <2>2. QED
    BY <1>5, <2>1 DEF DeedRows, PointsToItsLinks
<1>7. /\ next \in Sendings /\ next.draft = s.draft /\ next.of = s.of /\ next.step # "file"
  <2>1. NextStep(linked) \in Parties \cup {"pending"}
    BY <1>4 DEF NextStep, Parties
  <2>2. QED
    BY <1>4, <2>1 DEF Sendings, Parties
<1>8. /\ SendingOK(next, staff[w].seen)
      /\ staff[w].seen = deeds => SendingOK(next, new)
  BY <1>2, <1>5, <1>7 DEF SendingOK, Sendings
<1>9. SentStays(deeds, new)
  BY <1>5 DEF SentStays
<1> HIDE DEF next
<1>10. AgreementsIInv'
  BY <1>1, <1>6, <1>7, <1>8, <1>9, SendingStep
<1>11. ASSUME staff[w].seen = deeds, NEW a \in Contracts, Stranded(new, a)
       PROVE  Stranded(deeds, a)
  <2>1. ASSUME a = l[1] PROVE FALSE
    <3>1. new.agreement[a][l[2]] = l[3]
      BY <1>3, <1>5, <2>1
    <3>2. <<a, l[2], new.agreement[a][l[2]]>> = l
      BY <1>3, <2>1, <3>1
    <3>3. new.signature[<<a, l[2], new.agreement[a][l[2]]>>].status = "SIGNED"
      BY <1>3, <1>11 DEF Stranded, BothSigned
    <3>4. QED
      BY <1>3, <1>5, <1>11, <3>2, <3>3
  <2>2. QED
    BY <1>3, <1>5, <1>11, <2>1 DEF Stranded, BothSigned
<1>12. staff'[w] # staff[w]
  <2>1. PICK seen : staff' = [staff EXCEPT ![w] = Deal!Between(seen, {next})]
    BY <1>1 DEF Deal!Steps
  <2>2. staff'[w].rest = {next}
    BY <2>1 DEF AgreementsIInv, Deal!Between
  <2>3. s \in staff[w].rest /\ s # next
    BY <1>1, <1>7
  <2>4. QED
    BY <2>2, <2>3
<1>13. QED
  BY <1>1, <1>10, <1>11, <1>12

(* the status, at the end; a draft that both have signed by then stays pending *)
LEMMA MarkPendingIInv ==
    ASSUME AgreementsIInv, NEW w \in Staff, staff[w].at = "between", NEW s \in staff[w].rest,
           MarkPending(w, s), UNCHANGED day
    PROVE  /\ AgreementsIInv' /\ staff'[w] # staff[w]
           /\ staff[w].seen = deeds =>
                \A a \in Contracts : Stranded(deeds', a) /\ ~Stranded(deeds, a) =>
                    deeds.agreement[a].status = "DRAFT" /\ BothSigned(deeds, a)
<1> DEFINE new == IF s.draft THEN [deeds EXCEPT !.agreement[s.of].status = "PENDING_SIGNATURES"]
                  ELSE deeds
<1>1. /\ deeds' = new /\ staff' = [staff EXCEPT ![w] = Deal!Idle] /\ UNCHANGED dealt
  BY DEF MarkPending, Deal!Steps
<1>2. /\ s \in Sendings /\ SendingOK(s, staff[w].seen) /\ deeds \in DeedRows
      /\ s.of \in Contracts
  BY DEF AgreementsIInv, StaffOK, Sendings
<1>3. /\ new \in DeedTables /\ new.signature = deeds.signature
      /\ \A a \in Contracts :
            /\ \A p \in Parties : new.agreement[a][p] = deeds.agreement[a][p]
            /\ new.agreement[a].status # deeds.agreement[a].status => s.draft /\ a = s.of
  BY <1>2 DEF DeedRows, DeedTables, AgreementRow, Parties
<1> HIDE DEF new
<1>4. new \in DeedRows /\ SentStays(deeds, new)
  BY <1>2, <1>3 DEF DeedRows, PointsToItsLinks, SentStays
<1>5. StaffOK(Deal!Idle, new) /\ dealt' \in 0 .. MaxDealings
  BY <1>1 DEF StaffOK, Deal!Idle, AgreementsIInv
<1>6. ASSUME staff[w].seen = deeds, NEW a \in Contracts, Stranded(new, a), ~Stranded(deeds, a)
      PROVE  deeds.agreement[a].status = "DRAFT" /\ BothSigned(deeds, a)
  BY <1>2, <1>3, <1>6 DEF Stranded, BothSigned, SendingOK
<1>7. staff'[w] # staff[w]
  BY <1>1 DEF AgreementsIInv, Deal!Idle
<1>8. QED
  BY <1>1, <1>4, <1>5, <1>6, <1>7, StaffStep

(* The requests that only prepare. *)
AgreementHandler(w) ==
    \/ CompleteDueTerminations(w)
    \/ \E l \in Links : ExpireLink(w, l) \/ \E copy \in BOOLEAN : Sign(w, l, copy)
    \/ \E a \in Contracts :
        \/ CreateAgreement(w, a) \/ WithdrawTermination(w, a)
        \/ \E e \in {day, day + NoticeDays} : RequestTermination(w, a, e)

LEMMA AgreementHandlerIInv ==
    ASSUME AgreementsIInv, NEW w \in Staff, AgreementHandler(w)
    PROVE  AgreementsIInv' /\ UNCHANGED deeds
<1> DEFINE Fine(new) == Deals(w, new) /\ FineDeeds(new)
<1>1. ASSUME CompleteDueTerminations(w)
      PROVE  \E new : Fine(new)
  <2> DEFINE due == {a \in Contracts : deeds.agreement[a].status = "TERMINATION_NOTICE"
                                        /\ deeds.agreement[a].effective \in 1 .. day}
             expired == {a \in Contracts : deeds.agreement[a].status = "ACTIVE"
                                            /\ deeds.agreement[a].end \in 1 .. day - 1}
             ended == [deeds EXCEPT
                !.profile["owner"].active = @ /\ due = {},
                !.agreement = [a \in Contracts |->
                    CASE a \in due     -> [deeds.agreement[a] EXCEPT !.status = "TERMINATED"]
                      [] a \in expired -> [deeds.agreement[a] EXCEPT !.status = "EXPIRED"]
                      [] OTHER         -> deeds.agreement[a]]]
  <2>1. Deals(w, ended)
    BY <1>1 DEF CompleteDueTerminations
  <2>2. due \in SUBSET Contracts /\ expired \in SUBSET Contracts
    OBVIOUS
  <2> HIDE DEF due, expired
  <2>3. FineDeeds(ended)
    BY <2>2, Endings
  <2> HIDE DEF ended
  <2>4. QED
    BY <2>1, <2>3
<1>2. ASSUME NEW l \in Links, ExpireLink(w, l)
      PROVE  \E new : Fine(new)
  BY <1>2, Expires DEF ExpireLink
<1>3. ASSUME NEW l \in Links, NEW copy \in BOOLEAN, Sign(w, l, copy)
      PROVE  \E new : Fine(new)
  BY <1>3, Signs DEF Sign
<1>4. ASSUME NEW a \in Contracts, CreateAgreement(w, a)
      PROVE  \E new : Fine(new)
  BY <1>4, Drafts DEF CreateAgreement
<1>5. ASSUME NEW a \in Contracts, WithdrawTermination(w, a)
      PROVE  \E new : Fine(new)
  <2>1. 0 \in Days
    BY AgreementsAssumption DEF Days
  <2>2. QED
    BY <1>5, <2>1, Notices DEF WithdrawTermination
<1>6. ASSUME NEW a \in Contracts, NEW e \in {day, day + NoticeDays}, RequestTermination(w, a, e)
      PROVE  \E new : Fine(new)
  <2>1. e \in Days
    BY AgreementsAssumption DEF Days, AgreementsIInv
  <2>2. QED
    BY <1>6, <2>1, Notices DEF RequestTermination
<1>7. PICK new : Fine(new)
  BY <1>1, <1>2, <1>3, <1>4, <1>5, <1>6 DEF AgreementHandler
<1>8. QED
  BY <1>7, DealsIInv

(* send_for_signature, up to its first link *)
LEMMA SendIInv ==
    ASSUME AgreementsIInv, NEW w \in Staff, NEW a \in Contracts, SendForSignature(w, a)
    PROVE  AgreementsIInv' /\ UNCHANGED deeds
<1> DEFINE row == deeds.agreement[a]
           s == [of |-> a, step |-> "owner", draft |-> row.status = "DRAFT",
                 owner |-> row.owner, agency |-> row.agency, filing |-> "none"]
           first == [s EXCEPT !.step = NextStep(s)]
           x == Deal!Between(deeds, {first})
<1>1. /\ staff' = [staff EXCEPT ![w] = x] /\ dealt' = dealt + 1 /\ dealt < MaxDealings
      /\ UNCHANGED <<day, deeds>>
  BY DEF SendForSignature, Deal!Starts, Deal!Begins
<1>2. deeds \in DeedRows /\ row \in AgreementRow
  BY DeedColumns DEF AgreementsIInv
<1>3. NextStep(s) \in Parties \cup {"pending"}
  BY <1>2, LinkNumbers DEF NextStep, AgreementRow, Parties
<1>4. /\ first \in Sendings /\ first.of = a /\ first.step # "file"
      /\ first.draft => row.status = "DRAFT"
  BY <1>2, <1>3 DEF Sendings, AgreementRow, Parties
<1> HIDE DEF first
<1>5. SendingOK(first, deeds)
  BY <1>4 DEF SendingOK
<1>6. StaffOK(x, deeds') /\ SentStays(deeds, deeds')
  BY <1>1, <1>2, <1>4, <1>5 DEF StaffOK, Deal!Between, SentStays
<1>7. dealt' \in 0 .. MaxDealings
  BY <1>1, AgreementsAssumption DEF AgreementsIInv
<1> HIDE DEF x
<1>8. QED
  BY <1>1, <1>2, <1>6, <1>7, StaffStep

NewlyStranded(a) == Stranded(deeds', a) /\ ~Stranded(deeds, a)

Excused(a) ==
    \/ \E w \in Staff : Deal!StaleSave(w) \/ Deal!StaleStep(w)
    \/ deeds.agreement[a].status = "DRAFT" /\ BothSigned(deeds, a)
    \/ \E p \in Parties : ~deeds'.signature[<<a, p, deeds'.agreement[a][p]>>].copy

LEMMA SendingStepExcused ==
    ASSUME AgreementsIInv, NEW w \in Staff, ContinueSending(w)
    PROVE  AgreementsIInv' /\ \A a \in Contracts : NewlyStranded(a) => Excused(a)
<1>1. PICK s \in staff[w].rest :
        (\E l \in Links : RaiseLink(w, s, l)) \/ FileLink(w, s) \/ MarkPending(w, s)
  BY DEF ContinueSending
<1>2. staff[w].at = "between" /\ UNCHANGED day
  BY DEF ContinueSending
<1>3. CASE \E l \in Links : RaiseLink(w, s, l)
  BY <1>2, <1>3, RaiseLinkIInv DEF NewlyStranded
<1>4. CASE FileLink(w, s)
  <2>1. /\ AgreementsIInv' /\ staff'[w] # staff[w]
        /\ staff[w].seen = deeds => \A a \in Contracts : Stranded(deeds', a) => Stranded(deeds, a)
    BY <1>2, <1>4, FileLinkIInv
  <2>2. QED
    BY <1>2, <2>1 DEF NewlyStranded, Excused, Deal!StaleStep
<1>5. CASE MarkPending(w, s)
  <2>1. /\ AgreementsIInv' /\ staff'[w] # staff[w]
        /\ staff[w].seen = deeds =>
            \A a \in Contracts : Stranded(deeds', a) /\ ~Stranded(deeds, a) =>
                deeds.agreement[a].status = "DRAFT" /\ BothSigned(deeds, a)
    BY <1>2, <1>5, MarkPendingIInv
  <2>2. QED
    BY <1>2, <2>1 DEF NewlyStranded, Excused, Deal!StaleStep
<1>6. QED
  BY <1>1, <1>3, <1>4, <1>5

LEMMA SaveDeedExcused ==
    ASSUME AgreementsIInv, NEW w \in Staff, SaveDeed(w), NEW a \in Contracts, NewlyStranded(a)
    PROVE  Excused(a)
<1>1. /\ staff[w].at = "ready" /\ deeds' = Deal!Merged(staff[w].was, staff[w].is, deeds)
      /\ Deal!Saves(w)
  BY DEF SaveDeed, Deal!Saves
<1>2. CASE staff[w].seen # deeds
  BY <1>1, <1>2 DEF Excused, Deal!StaleSave
<1>3. CASE staff[w].seen = deeds
  <2>1. /\ staff[w].was = deeds /\ deeds \in DeedRows /\ staff[w].is \in DeedRows
        /\ StrandsNobody(deeds, staff[w].is)
    BY <1>1, <1>3 DEF AgreementsIInv, StaffOK
  <2>2. deeds' = staff[w].is
    BY <1>1, <2>1, SavesThePreparedDeeds
  <2>3. QED
    BY <2>1, <2>2 DEF StrandsNobody, NewlyStranded, CopyLost, Excused
<1>4. QED
  BY <1>2, <1>3

(* The steps of AgreementsNext. *)
LEMMA AgreementsSteps ==
    ASSUME AgreementsNext
    PROVE  \/ NextDate
           \/ \E w \in Staff :
                \/ SaveDeed(w) \/ DropDeed(w) \/ ContinueSending(w) \/ AgreementHandler(w)
                \/ \E a \in Contracts : SendForSignature(w, a)
BY DEF AgreementsNext, AgreementHandler

LEMMA AgreementsNextIInv ==
    ASSUME AgreementsIInv, [AgreementsNext]_agreementsVars
    PROVE  AgreementsIInv' /\ \A a \in Contracts : NewlyStranded(a) => Excused(a)
<1>1. ASSUME UNCHANGED deeds
      PROVE  \A a \in Contracts : ~NewlyStranded(a)
  BY <1>1 DEF NewlyStranded
<1>2. CASE UNCHANGED agreementsVars
  BY <1>1, <1>2 DEF agreementsVars, AgreementsIInv
<1>3. CASE AgreementsNext
  BY <1>1, <1>3, AgreementsSteps, NextDateIInv, SaveDeedIInv, SaveDeedExcused, DropDeedIInv,
     SendingStepExcused, AgreementHandlerIInv, SendIInv
<1>4. QED
  BY <1>2, <1>3

LEMMA AgreementsInvariance == AgreementsSpec => []AgreementsIInv
<1>1. AgreementsIInv /\ [AgreementsNext]_agreementsVars => AgreementsIInv'
  BY AgreementsNextIInv
<1>2. QED
  BY <1>1, AgreementsInitIInv, PTL DEF AgreementsSpec

(* The agreements, the signing links and the requests of
   management_agreement_service.py and signature_service.py have their types,
   whatever order commits come in. *)
THEOREM AgreementsAreWellTyped == AgreementsSpec => []AgreementsTypeOK
<1>1. ASSUME NEW rows \in DeedRows PROVE IsDeeds(rows)
  BY DEF DeedRows, DeedTables, IsDeeds, OwnerRow, AgreementRow, LinkRow
<1>2. ASSUME NEW w, NEW now, StaffOK(w, now) PROVE Deal!IsWork(w, IsDeeds, Sendings)
  BY <1>1, <1>2 DEF StaffOK, Deal!IsWork
<1>3. AgreementsIInv => AgreementsTypeOK
  BY <1>1, <1>2 DEF AgreementsIInv, AgreementsTypeOK
<1>4. QED
  BY <1>3, AgreementsInvariance, PTL

(* management_agreement_service.py's "activates once both are in" holds of an
   agreement that both have signed, except by requests that overlap, by a
   sending that was cut short after both had signed, or by a signed copy that
   could not be made. *)
THEOREM OverlapOrLostCopyAloneStrands == AgreementsSpec => OnlyOverlapOrLostCopyStrands
<1>1. AgreementsIInv /\ [AgreementsNext]_agreementsVars =>
        [\A a \in Contracts :
            Stranded(deeds', a) /\ ~Stranded(deeds, a) =>
                \/ \E w \in Staff : Deal!StaleSave(w) \/ Deal!StaleStep(w)
                \/ deeds.agreement[a].status = "DRAFT" /\ BothSigned(deeds, a)
                \/ \E p \in Parties : ~deeds'.signature[<<a, p, deeds'.agreement[a][p]>>].copy
        ]_agreementsVars
  BY AgreementsNextIInv DEF NewlyStranded, Excused
<1>2. QED
  BY <1>1, AgreementsInvariance, PTL DEF AgreementsSpec, OnlyOverlapOrLostCopyStrands

-----------------------------------------------------------------------------
(* Deliveries.  While a call about a receipt has an outcome to record, nobody
   has changed its row since the session read it, unless somebody insisted; a
   post is in one session's hands at a time. *)

DeclarationRow ==
    [status : {"none", "PENDING", "SUBMITTED", "FAILED", "ABANDONED"}, attempts : Nat]

PostRow == [status : {"none", "PENDING", "SUCCESS", "FAILED"}, attempts : Nat]

LedgerRows == [declaration : [Receipts -> DeclarationRow], post : [Posts -> PostRow]]

Duties ==
    {t \in ({"declare", "redeclare", "post"} \cup Outcomes) \X Things \X Nat :
        /\ t[1] \in {"declare", "redeclare"} => t[2] \in Receipts
        /\ t[1] = "post" => t[2] \in Posts}

HoldsIn(w, x) == w.at # "idle" /\ \E t \in w.rest : t[2] = x
BearsIn(w, x) == w.at # "idle" /\ \E t \in w.rest : t[2] = x /\ t[1] \in Outcomes
AcceptedIn(w, x) == w.at # "idle" /\ \E t \in w.rest : t[2] = x /\ t[1] = "accepted"

RoundOK(w) ==
    \/ w.at = "idle"
    \/ /\ w.at = "between" /\ w = Desk!Between(w.seen, w.rest)
       /\ w.seen \in LedgerRows /\ w.rest \subseteq Duties
       /\ \A t, u \in w.rest : t[2] = u[2] => t = u
       /\ \A t \in w.rest : t[2] \in Posts => w.rest = {t}

(* told once at the most; it is known, or will be, from the rows *)
ToldOnce(x, recorded) ==
    x \notin unrecorded =>
        \/ told[x] = 0
        \/ told[x] = 1 /\ (recorded \/ \E c \in Couriers : AcceptedIn(round[c], x))

ReceiptOK(r) ==
    r \notin insisted =>
        /\ \A c, d \in Couriers : BearsIn(round[c], r) /\ BearsIn(round[d], r) => c = d
        /\ \A c \in Couriers : HoldsIn(round[c], r) =>
                round[c].seen.declaration[r].status # "SUBMITTED"
        /\ \A c \in Couriers : BearsIn(round[c], r) =>
                round[c].seen.declaration[r] = outbox.declaration[r]
        /\ ToldOnce(r, outbox.declaration[r].status = "SUBMITTED")

PostOK(p) ==
    /\ \A c, d \in Couriers : HoldsIn(round[c], p) /\ HoldsIn(round[d], p) => c = d
    /\ \A c \in Couriers : BearsIn(round[c], p) => outbox.post[p].status # "SUCCESS"
    /\ ToldOnce(p, outbox.post[p].status = "SUCCESS")

DeliveryTypes ==
    /\ outbox \in LedgerRows
    /\ round = [c \in Couriers |-> round[c]] /\ \A c \in Couriers : RoundOK(round[c])
    /\ told \in [Things -> Nat]

DeliveriesIInv ==
    /\ DeliveryTypes
    /\ \A r \in Receipts : ReceiptOK(r)
    /\ \A p \in Posts : PostOK(p)

LEMMA DeliveriesInitIInv == DeliveriesInit => DeliveriesIInv
<1> SUFFICES ASSUME DeliveriesInit PROVE DeliveriesIInv
  OBVIOUS
<1>1. outbox \in LedgerRows
  BY DEF DeliveriesInit, LedgerRows, DeclarationRow, PostRow, Untold
<1>2. /\ round = [c \in Couriers |-> Desk!Idle] /\ told = [x \in Things |-> 0]
  BY DEF DeliveriesInit
<1>3. \A c \in Couriers, x \in Things :
        ~HoldsIn(round[c], x) /\ ~BearsIn(round[c], x) /\ RoundOK(round[c])
  BY <1>2 DEF HoldsIn, BearsIn, RoundOK, Desk!Idle
<1>4. DeliveryTypes
  BY <1>1, <1>2 DEF DeliveryTypes, RoundOK, Desk!Idle
<1>5. \A x \in Things : told[x] = 0 /\ (x \in Receipts \/ x \in Posts)
  BY <1>2 DEF Things
<1>6. QED
  BY <1>3, <1>4, <1>5 DEF DeliveriesIInv, ReceiptOK, PostOK, ToldOnce, Things

(* What a step of one session does not touch stays as it should be. *)
LEMMA Untouched ==
    ASSUME DeliveriesIInv, NEW x \in Things, NEW c \in Couriers, NEW w,
           round' = [round EXCEPT ![c] = w],
           x \in Receipts => outbox'.declaration[x] = outbox.declaration[x],
           x \in Posts => outbox'.post[x] = outbox.post[x],
           told'[x] = told[x], x \in unrecorded => x \in unrecorded',
           x \in insisted => x \in insisted',
           HoldsIn(w, x) =>
                /\ HoldsIn(round[c], x)
                /\ x \in Receipts => w.seen.declaration[x] = round[c].seen.declaration[x],
           BearsIn(w, x) => BearsIn(round[c], x),
           AcceptedIn(round[c], x) => AcceptedIn(w, x) \/ x \in unrecorded'
    PROVE  (x \in Receipts => ReceiptOK(x)') /\ (x \in Posts => PostOK(x)')
<1>1. \A d \in Couriers : round'[d] = IF d = c THEN w ELSE round[d]
  BY DEF DeliveriesIInv, DeliveryTypes
<1>2. \A d \in Couriers :
        /\ HoldsIn(round'[d], x) =>
            /\ HoldsIn(round[d], x)
            /\ x \in Receipts => round'[d].seen.declaration[x] = round[d].seen.declaration[x]
        /\ BearsIn(round'[d], x) => BearsIn(round[d], x)
        /\ AcceptedIn(round[d], x) => AcceptedIn(round'[d], x) \/ x \in unrecorded'
  BY <1>1
<1>3. ASSUME x \in Receipts PROVE ReceiptOK(x)'
  <2>1. BearsIn(w, x) => HoldsIn(w, x)
    BY DEF BearsIn, HoldsIn
  <2>2. \A d \in Couriers : BearsIn(round'[d], x) => HoldsIn(round'[d], x)
    BY DEF BearsIn, HoldsIn
  <2>3. ReceiptOK(x)
    BY <1>3 DEF DeliveriesIInv
  <2>4. QED
    BY <1>2, <1>3, <2>2, <2>3 DEF ReceiptOK, ToldOnce
<1>4. ASSUME x \in Posts PROVE PostOK(x)'
  <2>1. PostOK(x)
    BY <1>4 DEF DeliveriesIInv
  <2>2. QED
    BY <1>2, <1>4, <2>1 DEF PostOK, ToldOnce
<1>5. QED
  BY <1>3, <1>4

(* Steps of nobody in particular: the credential, the endpoint, a dispatch. *)
LEMMA NothingInHandMoves ==
    ASSUME DeliveriesIInv, UNCHANGED <<round, told, unrecorded, insisted>>,
           outbox' \in LedgerRows, outbox'.declaration = outbox.declaration,
           \A p \in Posts : outbox'.post[p].status = "SUCCESS" <=> outbox.post[p].status = "SUCCESS"
    PROVE  DeliveriesIInv'
<1>1. DeliveryTypes'
  BY DEF DeliveriesIInv, DeliveryTypes
<1>2. \A r \in Receipts : ReceiptOK(r)'
  BY DEF DeliveriesIInv, ReceiptOK, ToldOnce
<1>3. \A p \in Posts : PostOK(p)'
  BY DEF DeliveriesIInv, PostOK, ToldOnce
<1>4. QED
  BY <1>1, <1>2, <1>3 DEF DeliveriesIInv

LEMMA DispatchIInv ==
    ASSUME DeliveriesIInv, NEW p \in Posts, NEW queued, Dispatch(p, queued)
    PROVE  DeliveriesIInv'
<1> DEFINE row == [outbox.post[p] EXCEPT !.status = "PENDING"]
<1>1. /\ outbox \in LedgerRows /\ outbox.post[p] \in PostRow /\ outbox.post[p].status = "none"
      /\ outbox' = [outbox EXCEPT !.post[p] = row]
      /\ UNCHANGED <<round, told, unrecorded, insisted>>
  BY DEF Dispatch, DeliveriesIInv, DeliveryTypes, LedgerRows, Untold
<1>2. row \in PostRow /\ row.status = "PENDING"
  BY <1>1 DEF PostRow
<1> HIDE DEF row
<1>3. /\ outbox' \in LedgerRows /\ outbox'.declaration = outbox.declaration
      /\ outbox'.post = [outbox.post EXCEPT ![p] = row]
  BY <1>1, <1>2 DEF LedgerRows
<1>4. QED
  BY <1>1, <1>2, <1>3, NothingInHandMoves DEF LedgerRows

LEMMA SwitchesIInv ==
    ASSUME DeliveriesIInv, SetFiling \/ SetListening
    PROVE  DeliveriesIInv'
<1>1. UNCHANGED <<outbox, round, told, unrecorded, insisted>>
  BY DEF SetFiling, SetListening
<1>2. outbox' \in LedgerRows
  BY <1>1 DEF DeliveriesIInv, DeliveryTypes
<1>3. QED
  BY <1>1, <1>2, NothingInHandMoves

(* A session takes on what it has to do: receipts that are not declared yet, or
   a post that nobody has in hand. *)
LEMMA StartsIInv ==
    ASSUME DeliveriesIInv, NEW c \in Couriers, NEW rest \in SUBSET Duties, Desk!Starts(c, rest),
           \A t \in rest : t[1] \notin Outcomes,
           \A t, u \in rest : t[2] = u[2] => t = u,
           \A t \in rest : t[2] \in Posts => rest = {t} /\ InHand(t[2]) = {},
           \A t \in rest : t[2] \in Receipts =>
                Declaration(t[2]).status # "SUBMITTED" \/ t[2] \in insisted',
           insisted \subseteq insisted', UNCHANGED <<told, unrecorded>>
    PROVE  DeliveriesIInv'
<1> DEFINE w == Desk!Between(outbox, rest)
<1>1. /\ round' = [round EXCEPT ![c] = w] /\ round[c].at = "idle" /\ UNCHANGED outbox
  BY DEF Desk!Starts, Desk!Begins
<1>2. outbox \in LedgerRows
  BY DEF DeliveriesIInv, DeliveryTypes
<1>3. RoundOK(w) /\ w.seen = outbox /\ w.rest = rest /\ w.at = "between"
  BY <1>2 DEF RoundOK, Desk!Between
<1> HIDE DEF w
<1>4. DeliveryTypes'
  BY <1>1, <1>3 DEF DeliveriesIInv, DeliveryTypes
<1>5. \A d \in Couriers : round'[d] = IF d = c THEN w ELSE round[d]
  BY <1>1 DEF DeliveriesIInv, DeliveryTypes
<1>6. \A x \in Things :
        /\ ~BearsIn(w, x) /\ ~AcceptedIn(w, x) /\ ~BearsIn(round[c], x)
        /\ ~AcceptedIn(round[c], x) /\ ~HoldsIn(round[c], x)
        /\ HoldsIn(w, x) <=> \E t \in rest : t[2] = x
  BY <1>1, <1>3 DEF BearsIn, AcceptedIn, HoldsIn, Outcomes
<1>7. ASSUME NEW r \in Receipts PROVE ReceiptOK(r)'
  <2>1. ReceiptOK(r) /\ r \in Things
    BY DEF DeliveriesIInv, Things
  <2>2. HoldsIn(w, r) => outbox.declaration[r].status # "SUBMITTED" \/ r \in insisted'
    BY <1>6, <2>1 DEF Declaration
  <2>3. QED
    BY <1>1, <1>3, <1>5, <1>6, <2>1, <2>2 DEF ReceiptOK, ToldOnce
<1>8. ASSUME NEW p \in Posts PROVE PostOK(p)'
  <2>1. PostOK(p) /\ p \in Things
    BY DEF DeliveriesIInv, Things
  <2>2. HoldsIn(w, p) => \A d \in Couriers : ~HoldsIn(round[d], p)
    BY <1>6, <2>1 DEF InHand, HoldsIn
  <2>3. QED
    BY <1>1, <1>5, <1>6, <2>1, <2>2 DEF PostOK, ToldOnce
<1>9. QED
  BY <1>4, <1>7, <1>8 DEF DeliveriesIInv

(* What a session of one courier knows about the task it is at. *)
LEMMA TaskInHand ==
    ASSUME DeliveriesIInv, NEW c \in Couriers, round[c].at = "between", NEW t \in round[c].rest
    PROVE  /\ round[c].seen \in LedgerRows /\ round[c].rest \subseteq Duties
           /\ t \in Duties /\ t[2] \in Things /\ t[3] \in Nat /\ t = <<t[1], t[2], t[3]>>
           /\ \A u \in round[c].rest : u[2] = t[2] => u = t
           /\ t[2] \in Posts => round[c].rest = {t}
           /\ HoldsIn(round[c], t[2])
           /\ BearsIn(round[c], t[2]) <=> t[1] \in Outcomes
           /\ AcceptedIn(round[c], t[2]) <=> t[1] = "accepted"
<1>1. RoundOK(round[c])
  BY DEF DeliveriesIInv, DeliveryTypes
<1>2. /\ round[c].seen \in LedgerRows /\ round[c].rest \subseteq Duties
      /\ \A u \in round[c].rest : u[2] = t[2] => u = t
      /\ t[2] \in Posts => round[c].rest = {t}
  BY <1>1 DEF RoundOK
<1>3. t \in Duties /\ t[2] \in Things /\ t[3] \in Nat /\ t = <<t[1], t[2], t[3]>>
  BY <1>2 DEF Duties
<1>4. QED
  BY <1>2, <1>3 DEF HoldsIn, BearsIn, AcceptedIn

(* A session that acts on t ends with w: what it does about the other things
   stays as it is. *)
LEMMA OthersInHand ==
    ASSUME DeliveriesIInv, NEW c \in Couriers, round[c].at = "between", NEW t \in round[c].rest,
           NEW w, RoundOK(w), round' = [round EXCEPT ![c] = w],
           w.at = "idle" => round[c].rest = {t},
           w.at # "idle" =>
                /\ round[c].rest \ {t} \subseteq w.rest
                /\ \A u \in w.rest : u \in round[c].rest \/ u[2] = t[2],
           outbox' \in LedgerRows, told' \in [Things -> Nat],
           \A x \in Things : x # t[2] =>
                /\ x \in Receipts => outbox'.declaration[x] = outbox.declaration[x]
                /\ x \in Posts => outbox'.post[x] = outbox.post[x]
                /\ told'[x] = told[x],
           w.at # "idle" => \A r \in Receipts : r # t[2] =>
                w.seen.declaration[r] = round[c].seen.declaration[r],
           unrecorded \subseteq unrecorded', insisted \subseteq insisted',
           t[2] \in Receipts => ReceiptOK(t[2])', t[2] \in Posts => PostOK(t[2])'
    PROVE  DeliveriesIInv'
<1>1. DeliveryTypes'
  BY DEF DeliveriesIInv, DeliveryTypes
<1>4. ASSUME NEW x \in Things, x # t[2]
      PROVE  /\ HoldsIn(w, x) => HoldsIn(round[c], x)
             /\ BearsIn(w, x) => BearsIn(round[c], x)
             /\ AcceptedIn(round[c], x) => AcceptedIn(w, x)
  BY <1>4 DEF HoldsIn, BearsIn, AcceptedIn
<1>5. ASSUME NEW x \in Things, x # t[2]
      PROVE  (x \in Receipts => ReceiptOK(x)') /\ (x \in Posts => PostOK(x)')
  <2>1. HoldsIn(w, x) =>
            /\ HoldsIn(round[c], x)
            /\ x \in Receipts => w.seen.declaration[x] = round[c].seen.declaration[x]
    BY <1>4, <1>5 DEF HoldsIn
  <2>2. QED
    BY <1>4, <1>5, <2>1, Untouched
<1>6. QED
  BY <1>1, <1>5 DEF DeliveriesIInv, Things

(* A commit of submit writes the row it has made up, when nobody has changed it. *)
LEMMA MergedDeclaration ==
    ASSUME NEW was \in DeclarationRow, NEW is \in DeclarationRow, NEW now \in DeclarationRow
    PROVE  LET r == Desk!MergedRow(was, is, now)
           IN  /\ r \in DeclarationRow
               /\ was = now => r = is
<1>1. Desk!MergedRow(was, is, now) =
        [status |-> IF is.status = was.status THEN now.status ELSE is.status,
         attempts |-> IF is.attempts = was.attempts THEN now.attempts ELSE is.attempts]
  BY DEF DeclarationRow, Desk!MergedRow
<1>2. QED
  BY <1>1 DEF DeclarationRow

(* One commit about a receipt: its session is done with it. *)
LEMMA DeclarationCommits ==
    ASSUME DeliveriesIInv, NEW c \in Couriers, round[c].at = "between", NEW t \in round[c].rest,
           t[2] \in Receipts, NEW new \in DeclarationRow,
           Desk!Steps(c, [outbox EXCEPT !.declaration[t[2]] =
                Desk!MergedRow(round[c].seen.declaration[t[2]], new, @)], round[c].rest \ {t}),
           UNCHANGED <<told, unrecorded>>, insisted \subseteq insisted',
           t[2] \notin insisted' =>
                /\ round[c].seen.declaration[t[2]] = outbox.declaration[t[2]]
                /\ \A d \in Couriers : BearsIn(round[d], t[2]) => d = c
                /\ t[2] \notin unrecorded /\ told[t[2]] # 0 => new.status = "SUBMITTED"
    PROVE  DeliveriesIInv'
<1> DEFINE r == t[2]
           row == Desk!MergedRow(round[c].seen.declaration[r], new, outbox.declaration[r])
           rows == [outbox EXCEPT !.declaration[r] = row]
           rest == round[c].rest \ {t}
           w == IF rest = {} THEN Desk!Idle
                ELSE Desk!Between(IF round[c].seen = outbox THEN rows ELSE round[c].seen, rest)
<1>1. round' = [round EXCEPT ![c] = w] /\ outbox' = rows
  BY DEF Desk!Steps
<1>2. /\ outbox \in LedgerRows /\ round[c].seen \in LedgerRows /\ told \in [Things -> Nat]
      /\ rest \subseteq Duties /\ \A u \in rest : u[2] # r
      /\ \A u, v \in rest : u[2] = v[2] => u = v
      /\ \A u \in rest : u[2] \in Posts => rest = {u}
  <2>1. RoundOK(round[c]) /\ outbox \in LedgerRows /\ told \in [Things -> Nat]
    BY DEF DeliveriesIInv, DeliveryTypes
  <2>2. QED
    BY <2>1 DEF RoundOK
<1>3. /\ row \in DeclarationRow
      /\ round[c].seen.declaration[r] = outbox.declaration[r] => row = new
  BY <1>2, MergedDeclaration DEF LedgerRows
<1> HIDE DEF row
<1>4. /\ rows \in LedgerRows /\ rows.post = outbox.post
      /\ rows.declaration = [outbox.declaration EXCEPT ![r] = row]
  BY <1>2, <1>3 DEF LedgerRows
<1> HIDE DEF rows
<1>5. RoundOK(w) /\ ~HoldsIn(w, r) /\ ~BearsIn(w, r) /\ ~AcceptedIn(w, r)
  BY <1>2, <1>4 DEF RoundOK, HoldsIn, BearsIn, AcceptedIn, Desk!Idle, Desk!Between
<1>6. /\ w.at # "idle" => w.rest = rest
      /\ w.at = "idle" => round[c].rest = {t}
      /\ w.at # "idle" => \A x \in Receipts : x # r =>
            w.seen.declaration[x] = round[c].seen.declaration[x]
  BY <1>2, <1>4 DEF Desk!Idle, Desk!Between, LedgerRows
<1>7. /\ outbox'.declaration[r] = row
      /\ \A x \in Things : x # r =>
            /\ x \in Receipts => outbox'.declaration[x] = outbox.declaration[x]
            /\ x \in Posts => outbox'.post[x] = outbox.post[x]
  BY <1>1, <1>2, <1>4 DEF LedgerRows
<1> HIDE DEF w
<1>8. ReceiptOK(r)'
  <2>1. \A d \in Couriers : round'[d] = IF d = c THEN w ELSE round[d]
    BY <1>1 DEF DeliveriesIInv, DeliveryTypes
  <2>2. ReceiptOK(r) /\ r \in Things /\ told[r] \in Nat
    BY <1>2 DEF DeliveriesIInv, Things
  <2>3. ASSUME r \notin insisted' PROVE ToldOnce(r, outbox.declaration[r].status = "SUBMITTED")'
    <3>1. row = new
      BY <1>3, <2>3
    <3>2. r \notin unrecorded => told[r] \in {0, 1}
      BY <2>2, <2>3 DEF ReceiptOK, ToldOnce
    <3>3. QED
      BY <1>7, <2>3, <3>1, <3>2 DEF ToldOnce
  <2>4. QED
    BY <1>5, <2>1, <2>2, <2>3 DEF ReceiptOK
<1>9. /\ t[2] \notin Posts
      /\ w.at # "idle" =>
            /\ round[c].rest \ {t} \subseteq w.rest
            /\ \A u \in w.rest : u \in round[c].rest \/ u[2] = t[2]
  BY <1>6, DeliveriesAssumption
<1> HIDE DEF rest
<1>10. /\ outbox' \in LedgerRows /\ told' \in [Things -> Nat]
       /\ unrecorded \subseteq unrecorded'
       /\ \A x \in Things : x # t[2] =>
            /\ x \in Receipts => outbox'.declaration[x] = outbox.declaration[x]
            /\ x \in Posts => outbox'.post[x] = outbox.post[x]
            /\ told'[x] = told[x]
       /\ w.at # "idle" => \A x \in Receipts : x # t[2] =>
            w.seen.declaration[x] = round[c].seen.declaration[x]
       /\ t[2] \in Receipts => ReceiptOK(t[2])'
       /\ t[2] \in Posts => PostOK(t[2])'
  BY <1>1, <1>2, <1>4, <1>6, <1>7, <1>8, <1>9
<1>11. QED
  BY <1>1, <1>5, <1>6, <1>9, <1>10, OthersInHand

(* A session that acts on a receipt and insists on nothing is alone with it, and
   the receipt has not been declared. *)
LEMMA AloneWithIt ==
    ASSUME DeliveriesIInv, NEW c \in Couriers, round[c].at = "between", NEW t \in round[c].rest,
           t[1] \in {"declare", "redeclare"}, Insists(c, t[2])
    PROVE  /\ t[2] \in Receipts /\ insisted \subseteq insisted'
           /\ t[2] \notin insisted' =>
                /\ t[2] \notin insisted
                /\ round[c].seen.declaration[t[2]] = outbox.declaration[t[2]]
                /\ outbox.declaration[t[2]].status # "SUBMITTED"
                /\ \A d \in Couriers : HoldsIn(round[d], t[2]) => d = c
                /\ \A d \in Couriers : ~BearsIn(round[d], t[2]) /\ ~AcceptedIn(round[d], t[2])
                /\ t[2] \notin unrecorded => told[t[2]] = 0
<1> DEFINE r == t[2]
<1>1. /\ t \in Duties /\ r \in Receipts
      /\ HoldsIn(round[c], r) /\ ~BearsIn(round[c], r)
  BY TaskInHand DEF Duties, Outcomes
<1>2. insisted \subseteq insisted'
  BY DEF Insists
<1>3. ASSUME r \notin insisted'
      PROVE  /\ r \notin insisted
             /\ round[c].seen.declaration[r] = outbox.declaration[r]
             /\ outbox.declaration[r].status # "SUBMITTED"
             /\ \A d \in Couriers : HoldsIn(round[d], r) => d = c
             /\ \A d \in Couriers : ~BearsIn(round[d], r) /\ ~AcceptedIn(round[d], r)
             /\ r \notin unrecorded => told[r] = 0
  <2>1. round[c].seen.declaration[r] = outbox.declaration[r] /\ InHand(r) = {c}
    BY <1>3 DEF Insists, Declaration
  <2>2. \A d \in Couriers : HoldsIn(round[d], r) => d = c
    BY <2>1 DEF InHand, HoldsIn
  <2>3. \A d \in Couriers : ~BearsIn(round[d], r) /\ ~AcceptedIn(round[d], r)
    BY <1>1, <2>2 DEF BearsIn, AcceptedIn, HoldsIn, Outcomes
  <2>4. ReceiptOK(r) /\ r \notin insisted
    BY <1>1, <1>2, <1>3 DEF DeliveriesIInv
  <2>5. outbox.declaration[r].status # "SUBMITTED"
    BY <1>1, <2>1, <2>4 DEF ReceiptOK
  <2>6. QED
    BY <2>1, <2>2, <2>3, <2>4, <2>5 DEF ReceiptOK, ToldOnce
<1>4. QED
  BY <1>1, <1>2, <1>3

LEMMA GiveUpIInv ==
    ASSUME DeliveriesIInv, NEW c \in Couriers, NEW t \in round[c].rest, GiveUp(c, t)
    PROVE  DeliveriesIInv'
<1> DEFINE row == Held(c, t[1], t[2])
           new == [status |-> "ABANDONED", attempts |-> row.attempts + 1]
<1>1. /\ round[c].at = "between" /\ t[1] \in {"declare", "redeclare"}
      /\ Desk!Steps(c, [outbox EXCEPT !.declaration[t[2]] =
                Desk!MergedRow(round[c].seen.declaration[t[2]], new, @)], round[c].rest \ {t})
      /\ Insists(c, t[2]) /\ UNCHANGED <<told, unrecorded>>
  BY DEF GiveUp, Unladen, Quiet
<1>2. round[c].seen \in LedgerRows
  BY <1>1, TaskInHand
<1>3. new \in DeclarationRow
  BY <1>1, <1>2, AloneWithIt DEF Held, LedgerRows, DeclarationRow
<1> HIDE DEF new
<1>4. QED
  BY <1>1, <1>3, AloneWithIt, DeclarationCommits

(* the call to the tax authority *)
LEMMA DeclareIInv ==
    ASSUME DeliveriesIInv, NEW c \in Couriers, NEW t \in round[c].rest,
           NEW accepted \in BOOLEAN, NEW heard \in BOOLEAN, Declare(c, t, accepted, heard)
    PROVE  DeliveriesIInv'
<1> DEFINE r == t[2]
           u == <<IF heard THEN "accepted" ELSE "failed", r, Held(c, t[1], r).attempts + 1>>
           rest == (round[c].rest \ {t}) \cup {u}
           w == [round[c] EXCEPT !.rest = rest]
<1>1. /\ round[c].at = "between" /\ t[1] \in {"declare", "redeclare"}
      /\ heard => accepted
      /\ Insists(c, r) /\ UNCHANGED outbox
      /\ round' = [round EXCEPT ![c] = w]
      /\ told' = [told EXCEPT ![r] = IF accepted THEN @ + 1 ELSE @]
      /\ unrecorded' = IF accepted /\ ~heard THEN unrecorded \cup {r} ELSE unrecorded
  BY DEF Declare, Unladen
<1>2. /\ round[c].seen \in LedgerRows /\ round[c].rest \subseteq Duties
      /\ \A v \in round[c].rest : v[2] = r => v = t
      /\ r \in Receipts /\ r \in Things /\ insisted \subseteq insisted'
  BY <1>1, TaskInHand, AloneWithIt DEF Things
<1>3. RoundOK(round[c]) /\ round[c] = Desk!Between(round[c].seen, round[c].rest)
  BY <1>1 DEF DeliveriesIInv, DeliveryTypes, RoundOK
<1>4. u \in Duties /\ u[2] = r /\ u[1] \in Outcomes /\ (heard => u[1] = "accepted")
  BY <1>2 DEF Duties, Outcomes, Held, LedgerRows, DeclarationRow
<1> HIDE DEF u
<1>5. w.at = "between" /\ w.seen = round[c].seen /\ w.rest = rest
      /\ w = Desk!Between(w.seen, w.rest)
  BY <1>3 DEF Desk!Between
<1> HIDE DEF w
<1>6. RoundOK(w)
  <2>1. \A v \in round[c].rest : v[2] \notin Posts
    BY <1>1, <1>2, TaskInHand, DeliveriesAssumption
  <2>2. \A x, y \in round[c].rest : x[2] = y[2] => x = y
    BY <1>1, <1>3 DEF RoundOK
  <2>3. r \notin Posts
    BY <1>2, DeliveriesAssumption
  <2>4. QED
    BY <1>2, <1>4, <1>5, <2>1, <2>2, <2>3 DEF RoundOK
<1>7. ReceiptOK(r)'
  <2>1. \A d \in Couriers : round'[d] = IF d = c THEN w ELSE round[d]
    BY <1>1 DEF DeliveriesIInv, DeliveryTypes
  <2>2. /\ told[r] \in Nat /\ told'[r] = IF accepted THEN told[r] + 1 ELSE told[r]
    BY <1>1, <1>2 DEF DeliveriesIInv, DeliveryTypes
  <2>3. heard => AcceptedIn(w, r)
    BY <1>4, <1>5 DEF AcceptedIn
  <2>4. ASSUME r \notin insisted'
        PROVE  /\ round[c].seen.declaration[r] = outbox.declaration[r]
               /\ outbox.declaration[r].status # "SUBMITTED"
               /\ \A d \in Couriers : HoldsIn(round[d], r) => d = c
               /\ r \notin unrecorded => told[r] = 0
    BY <1>1, <2>4, AloneWithIt
  <2>5. \A d \in Couriers : BearsIn(round[d], r) => HoldsIn(round[d], r)
    BY DEF BearsIn, HoldsIn
  <2>6. ASSUME r \notin insisted' PROVE ToldOnce(r, outbox.declaration[r].status = "SUBMITTED")'
    BY <1>1, <2>1, <2>2, <2>3, <2>4, <2>6 DEF ToldOnce
  <2>7. ASSUME r \notin insisted', NEW d \in Couriers
        PROVE  /\ HoldsIn(round'[d], r) =>
                    /\ d = c
                    /\ round'[d].seen.declaration[r] = outbox'.declaration[r]
                    /\ outbox'.declaration[r].status # "SUBMITTED"
               /\ BearsIn(round'[d], r) => HoldsIn(round'[d], r)
    <3>1. BearsIn(round'[d], r) => HoldsIn(round'[d], r)
      BY DEF BearsIn, HoldsIn
    <3>2. HoldsIn(round'[d], r) => d = c
      BY <2>1, <2>4, <2>7
    <3>3. QED
      BY <1>1, <1>5, <2>1, <2>4, <2>7, <3>1, <3>2
  <2>8. QED
    BY <2>6, <2>7 DEF ReceiptOK
<1>8. /\ outbox' \in LedgerRows /\ told' \in [Things -> Nat] /\ unrecorded \subseteq unrecorded'
      /\ \A x \in Things : x # r => told'[x] = told[x]
  BY <1>1, <1>2 DEF DeliveriesIInv, DeliveryTypes
<1>9. /\ w.at = "idle" => round[c].rest = {t}
      /\ round[c].rest \ {t} \subseteq w.rest
      /\ \A v \in w.rest : v \in round[c].rest \/ v[2] = r
      /\ r \notin Posts
  BY <1>2, <1>4, <1>5, DeliveriesAssumption
<1>10. QED
  BY <1>1, <1>2, <1>5, <1>6, <1>7, <1>8, <1>9, OthersInHand

LEMMA RecordDeclarationIInv ==
    ASSUME DeliveriesIInv, NEW c \in Couriers, NEW t \in round[c].rest, RecordDeclaration(c, t)
    PROVE  DeliveriesIInv'
<1> DEFINE r == t[2]
           new == [status   |-> CASE t[1] = "accepted" -> "SUBMITTED"
                                  [] t[1] = "failed" /\ t[3] >= MaxAttempts -> "ABANDONED"
                                  [] OTHER -> "FAILED",
                   attempts |-> t[3]]
<1>1. /\ round[c].at = "between" /\ t[1] \in Outcomes /\ r \in Receipts
      /\ Desk!Steps(c, [outbox EXCEPT !.declaration[r] =
                Desk!MergedRow(round[c].seen.declaration[r], new, @)], round[c].rest \ {t})
      /\ UNCHANGED <<told, unrecorded, insisted>>
  BY DEF RecordDeclaration, Quiet
<1>2. t[3] \in Nat /\ BearsIn(round[c], r)
      /\ (AcceptedIn(round[c], r) => t[1] = "accepted")
  BY <1>1, TaskInHand
<1>3. new \in DeclarationRow /\ (t[1] = "accepted" => new.status = "SUBMITTED")
  BY <1>2 DEF DeclarationRow
<1>4. ASSUME r \notin insisted
      PROVE  /\ round[c].seen.declaration[r] = outbox.declaration[r]
             /\ \A d \in Couriers : BearsIn(round[d], r) => d = c
             /\ r \notin unrecorded /\ told[r] # 0 => new.status = "SUBMITTED"
  <2>1. ReceiptOK(r)
    BY <1>1 DEF DeliveriesIInv
  <2>2. /\ round[c].seen.declaration[r] = outbox.declaration[r]
        /\ outbox.declaration[r].status # "SUBMITTED"
        /\ \A d \in Couriers : BearsIn(round[d], r) => d = c
    BY <1>2, <1>4, <2>1 DEF ReceiptOK, BearsIn, HoldsIn
  <2>3. \A d \in Couriers : AcceptedIn(round[d], r) => BearsIn(round[d], r)
    BY DEF AcceptedIn, BearsIn, Outcomes
  <2>4. r \notin unrecorded /\ told[r] # 0 => AcceptedIn(round[c], r)
    BY <1>4, <2>1, <2>2, <2>3 DEF ReceiptOK, ToldOnce
  <2>5. QED
    BY <1>2, <1>3, <2>2, <2>4
<1> HIDE DEF new
<1>5. QED
  BY <1>1, <1>3, <1>4, DeclarationCommits

(* A step of the session that has a post in hand, as no other has. *)
LEMMA PostStep ==
    ASSUME DeliveriesIInv, NEW c \in Couriers, round[c].at = "between", NEW t \in round[c].rest,
           t[2] \in Posts, NEW w, RoundOK(w), round' = [round EXCEPT ![c] = w],
           w.at # "idle" => w.seen = round[c].seen /\ \A u \in w.rest : u[2] = t[2],
           outbox' \in LedgerRows, outbox'.declaration = outbox.declaration,
           \A p \in Posts : p # t[2] => outbox'.post[p] = outbox.post[p],
           BearsIn(w, t[2]) => outbox'.post[t[2]].status # "SUCCESS",
           told' \in [Things -> Nat], \A x \in Things : x # t[2] => told'[x] = told[x],
           unrecorded \subseteq unrecorded', UNCHANGED insisted,
           told[t[2]] = 0 \/ t[2] \in unrecorded \/ outbox.post[t[2]].status = "SUCCESS"
                \/ AcceptedIn(round[c], t[2]) =>
                    ToldOnce(t[2], outbox.post[t[2]].status = "SUCCESS")'
    PROVE  DeliveriesIInv'
<1> DEFINE p == t[2]
<1>1. /\ round[c].rest = {t} /\ p \in Things /\ HoldsIn(round[c], p) /\ p \notin Receipts
  BY TaskInHand, DeliveriesAssumption
<1>2. \A d \in Couriers : round'[d] = IF d = c THEN w ELSE round[d]
  BY DEF DeliveriesIInv, DeliveryTypes
<1>3. PostOK(p) /\ \A d \in Couriers : HoldsIn(round[d], p) => d = c
  BY <1>1 DEF DeliveriesIInv, PostOK
<1>4. \A d \in Couriers : d # c => ~BearsIn(round[d], p) /\ ~AcceptedIn(round[d], p)
  BY <1>3 DEF BearsIn, AcceptedIn, HoldsIn
<1>5. told[p] = 0 \/ p \in unrecorded \/ outbox.post[p].status = "SUCCESS" \/ AcceptedIn(round[c], p)
  BY <1>3, <1>4 DEF PostOK, ToldOnce
<1>6. PostOK(p)'
  BY <1>2, <1>3, <1>4, <1>5 DEF PostOK
<1>7. \A x \in Things : x # p =>
        /\ x \in Receipts => outbox'.declaration[x] = outbox.declaration[x]
        /\ x \in Posts => outbox'.post[x] = outbox.post[x]
        /\ told'[x] = told[x]
  OBVIOUS
<1>8. /\ w.at = "idle" => round[c].rest = {t}
      /\ w.at # "idle" =>
            /\ round[c].rest \ {t} \subseteq w.rest
            /\ \A u \in w.rest : u \in round[c].rest \/ u[2] = p
  BY <1>1
<1>9. QED
  BY <1>1, <1>6, <1>7, <1>8, OthersInHand

LEMMA SkipPostIInv ==
    ASSUME DeliveriesIInv, NEW c \in Couriers, NEW t \in round[c].rest, SkipPost(c, t)
    PROVE  DeliveriesIInv'
<1> DEFINE p == t[2]
           rows == IF outbox.post[p].status = "SUCCESS" THEN outbox
                   ELSE [outbox EXCEPT !.post[p].status = "FAILED"]
<1>1. /\ round[c].at = "between" /\ t[1] = "post" /\ outbox' = rows
      /\ round' = [round EXCEPT ![c] = Desk!Idle]
      /\ UNCHANGED <<told, unrecorded, insisted>>
  BY DEF SkipPost, Desk!Steps
<1>2. /\ p \in Posts /\ p \in Things /\ ~AcceptedIn(round[c], p)
  BY <1>1, TaskInHand DEF Duties
<1>3. outbox \in LedgerRows /\ told \in [Things -> Nat]
  BY DEF DeliveriesIInv, DeliveryTypes
<1>4. /\ rows \in LedgerRows /\ rows.declaration = outbox.declaration
      /\ rows.post[p].status = "SUCCESS" <=> outbox.post[p].status = "SUCCESS"
      /\ \A q \in Posts : q # p => rows.post[q] = outbox.post[q]
  BY <1>2, <1>3 DEF LedgerRows, PostRow
<1> HIDE DEF rows
<1>5. /\ RoundOK(Desk!Idle) /\ Desk!Idle.at = "idle" /\ ~BearsIn(Desk!Idle, p)
  BY DEF RoundOK, Desk!Idle, BearsIn
<1>6. told[p] = 0 \/ p \in unrecorded \/ outbox.post[p].status = "SUCCESS" =>
        ToldOnce(p, outbox.post[p].status = "SUCCESS")'
  <2>1. PostOK(p)
    BY <1>2 DEF DeliveriesIInv
  <2>2. told[p] \in {0, 1} \/ p \in unrecorded
    BY <2>1 DEF PostOK, ToldOnce
  <2>3. QED
    BY <1>1, <1>4, <2>2 DEF ToldOnce
<1>7. QED
  BY <1>1, <1>2, <1>3, <1>4, <1>5, <1>6, PostStep

(* the call to the customer's endpoint *)
LEMMA SendPostIInv ==
    ASSUME DeliveriesIInv, NEW c \in Couriers, NEW t \in round[c].rest,
           NEW accepted \in BOOLEAN, NEW heard \in BOOLEAN, SendPost(c, t, accepted, heard)
    PROVE  DeliveriesIInv'
<1> DEFINE p == t[2]
           u == <<IF heard THEN "accepted" ELSE "failed", p, t[3]>>
           w == [round[c] EXCEPT !.rest = {u}]
<1>1. /\ round[c].at = "between" /\ t[1] = "post" /\ outbox.post[p].status # "SUCCESS"
      /\ heard => accepted
      /\ round' = [round EXCEPT ![c] = w]
      /\ told' = [told EXCEPT ![p] = IF accepted THEN @ + 1 ELSE @]
      /\ unrecorded' = IF accepted /\ ~heard THEN unrecorded \cup {p} ELSE unrecorded
      /\ UNCHANGED <<outbox, insisted>>
  BY DEF SendPost
<1>2. /\ p \in Posts /\ p \in Things /\ t[3] \in Nat /\ ~AcceptedIn(round[c], p)
  BY <1>1, TaskInHand DEF Duties
<1>3. /\ outbox \in LedgerRows /\ told \in [Things -> Nat] /\ RoundOK(round[c])
  BY DEF DeliveriesIInv, DeliveryTypes
<1>4. u \in Duties /\ u[2] = p /\ (heard => u[1] = "accepted")
  BY <1>2 DEF Duties, Outcomes
<1> HIDE DEF u
<1>5. /\ w.at = "between" /\ w.seen = round[c].seen /\ w.rest = {u} /\ w.seen \in LedgerRows
      /\ w = Desk!Between(w.seen, w.rest)
  <2>1. round[c].seen \in LedgerRows /\ round[c] = Desk!Between(round[c].seen, round[c].rest)
    BY <1>1, <1>3 DEF RoundOK
  <2>2. QED
    BY <2>1 DEF Desk!Between
<1> HIDE DEF w
<1>6. RoundOK(w) /\ (heard => AcceptedIn(w, p))
  BY <1>4, <1>5 DEF RoundOK, AcceptedIn
<1>7. /\ told' \in [Things -> Nat] /\ \A x \in Things : x # p => told'[x] = told[x]
      /\ told'[p] = IF accepted THEN told[p] + 1 ELSE told[p]
      /\ unrecorded \subseteq unrecorded'
  BY <1>1, <1>2, <1>3
<1>8. round'[c] = w
  BY <1>1 DEF DeliveriesIInv, DeliveryTypes
<1>9. told[p] = 0 \/ p \in unrecorded => ToldOnce(p, outbox.post[p].status = "SUCCESS")'
  BY <1>1, <1>6, <1>7, <1>8 DEF ToldOnce
<1>10. /\ w.at # "idle" => w.seen = round[c].seen /\ \A v \in w.rest : v[2] = p
       /\ outbox' \in LedgerRows /\ outbox'.declaration = outbox.declaration
       /\ \A q \in Posts : q # p => outbox'.post[q] = outbox.post[q]
       /\ outbox'.post[p].status # "SUCCESS"
       /\ told[p] = 0 \/ p \in unrecorded \/ outbox.post[p].status = "SUCCESS"
                \/ AcceptedIn(round[c], p) =>
            ToldOnce(p, outbox.post[p].status = "SUCCESS")'
  BY <1>1, <1>2, <1>3, <1>4, <1>5, <1>9
<1>11. QED
  BY <1>1, <1>2, <1>6, <1>7, <1>10, PostStep

LEMMA RecordPostIInv ==
    ASSUME DeliveriesIInv, NEW c \in Couriers, NEW t \in round[c].rest, NEW ended,
           RecordPost(c, t, ended)
    PROVE  DeliveriesIInv'
<1> DEFINE p == t[2]
           status == CASE t[1] = "accepted" -> "SUCCESS"
                       [] t[1] = "failed" /\ t[3] = MaxTries -> "FAILED"
                       [] OTHER -> outbox.post[p].status
           row == [status |-> status, attempts |-> outbox.post[p].attempts + 1]
           rows == [outbox EXCEPT !.post[p] = row]
<1>1. /\ round[c].at = "between" /\ t[1] \in Outcomes /\ p \in Posts /\ outbox' = rows
      /\ round' = [round EXCEPT ![c] = Desk!Idle]
      /\ UNCHANGED <<told, unrecorded, insisted>>
  BY DEF RecordPost, Desk!Steps
<1>2. /\ p \in Things /\ BearsIn(round[c], p) /\ (AcceptedIn(round[c], p) => t[1] = "accepted")
  BY <1>1, TaskInHand
<1>3. outbox \in LedgerRows /\ told \in [Things -> Nat] /\ outbox.post[p] \in PostRow
  BY <1>1 DEF DeliveriesIInv, DeliveryTypes, LedgerRows
<1>4. row \in PostRow /\ (t[1] = "accepted" => row.status = "SUCCESS")
  BY <1>3 DEF PostRow
<1> HIDE DEF row
<1>5. /\ rows \in LedgerRows /\ rows.declaration = outbox.declaration /\ rows.post[p] = row
      /\ \A q \in Posts : q # p => rows.post[q] = outbox.post[q]
  BY <1>1, <1>3, <1>4 DEF LedgerRows
<1> HIDE DEF rows
<1>6. RoundOK(Desk!Idle) /\ Desk!Idle.at = "idle" /\ ~BearsIn(Desk!Idle, p)
  BY DEF RoundOK, Desk!Idle, BearsIn
<1>7. PostOK(p) /\ outbox.post[p].status # "SUCCESS"
  BY <1>1, <1>2 DEF DeliveriesIInv, PostOK
<1>8. told[p] \in {0, 1} \/ p \in unrecorded
  BY <1>7 DEF PostOK, ToldOnce
<1>9. told[p] = 0 \/ p \in unrecorded \/ AcceptedIn(round[c], p) =>
        ToldOnce(p, outbox.post[p].status = "SUCCESS")'
  BY <1>1, <1>2, <1>4, <1>5, <1>8 DEF ToldOnce
<1>10. QED
  BY <1>1, <1>2, <1>3, <1>5, <1>6, <1>7, <1>9, PostStep

LEMMA CrashIInv ==
    ASSUME DeliveriesIInv, NEW c \in Couriers, NEW lost, Crash(c, lost)
    PROVE  DeliveriesIInv'
<1>1. /\ round[c].at # "idle" /\ round' = [round EXCEPT ![c] = Desk!Idle]
      /\ unrecorded' = unrecorded \cup {t[2] : t \in {u \in round[c].rest : u[1] = "accepted"}}
      /\ UNCHANGED <<outbox, told, insisted>>
  BY DEF Crash, Desk!Drops
<1>2. \A x \in Things :
        /\ ~HoldsIn(Desk!Idle, x) /\ ~BearsIn(Desk!Idle, x)
        /\ AcceptedIn(round[c], x) => x \in unrecorded'
  BY <1>1 DEF HoldsIn, BearsIn, AcceptedIn, Desk!Idle
<1>3. DeliveryTypes'
  BY <1>1 DEF DeliveriesIInv, DeliveryTypes, RoundOK, Desk!Idle
<1>4. \A x \in Things : (x \in Receipts => ReceiptOK(x)') /\ (x \in Posts => PostOK(x)')
  BY <1>1, <1>2, Untouched
<1>5. QED
  BY <1>3, <1>4 DEF DeliveriesIInv, Things

(* the requests and tasks that begin *)
LEMMA BeginsIInv ==
    ASSUME DeliveriesIInv, NEW c \in Couriers,
           \/ RetryDue(c)
           \/ \E r \in Receipts : IssueReceipt(c, r) \/ RetryByHand(c, r)
           \/ \E m \in mail : m \in Posts \X Nat /\ TakePost(c, m)
    PROVE  DeliveriesIInv'
<1>1. CASE RetryDue(c)
  <2> DEFINE rest == {<<"declare", r, 0>> : r \in Due}
  <2>1. Desk!Starts(c, rest) /\ UNCHANGED <<told, unrecorded, insisted>>
    BY <1>1 DEF RetryDue, Quiet
  <2>2. \A t \in rest : /\ t \in Duties /\ t[1] \notin Outcomes /\ t[2] \notin Posts
                        /\ Declaration(t[2]).status # "SUBMITTED"
    BY DeliveriesAssumption DEF Due, Duties, Outcomes, Things
  <2>3. rest \in SUBSET Duties /\ \A t, u \in rest : t[2] = u[2] => t = u
    BY <2>2
  <2> HIDE DEF rest
  <2>4. QED
    BY <2>1, <2>2, <2>3, StartsIInv
<1>2. ASSUME NEW r \in Receipts, IssueReceipt(c, r) \/ RetryByHand(c, r)
      PROVE  DeliveriesIInv'
  <2>1. PICK how \in {"declare", "redeclare"} : Desk!Starts(c, {<<how, r, 0>>})
    BY <1>2 DEF IssueReceipt, RetryByHand
  <2>2. /\ Declaration(r).status # "SUBMITTED" \/ r \in insisted'
        /\ insisted \subseteq insisted' /\ UNCHANGED <<told, unrecorded>>
    BY <1>2 DEF IssueReceipt, RetryByHand, Quiet, Untold
  <2> DEFINE t == <<how, r, 0>>
  <2>3. {t} \in SUBSET Duties /\ t[1] \notin Outcomes /\ t[2] = r /\ r \notin Posts
    BY DeliveriesAssumption DEF Duties, Outcomes, Things
  <2> HIDE DEF t
  <2>4. QED
    BY <2>1, <2>2, <2>3, StartsIInv DEF t
<1>3. ASSUME NEW m \in Posts \X Nat, TakePost(c, m)
      PROVE  DeliveriesIInv'
  <2> DEFINE t == <<"post", m[1], m[2]>>
  <2>1. /\ Desk!Starts(c, {t}) /\ InHand(t[2]) = {} /\ insisted \subseteq insisted'
        /\ UNCHANGED <<told, unrecorded>>
    BY <1>3 DEF TakePost, Quiet
  <2>2. {t} \in SUBSET Duties /\ t[1] \notin Outcomes /\ t[2] \in Posts /\ t[2] \notin Receipts
    BY DeliveriesAssumption DEF Duties, Outcomes, Things
  <2> HIDE DEF t
  <2>3. QED
    BY <2>1, <2>2, StartsIInv
<1>4. QED
  BY <1>1, <1>2, <1>3

(* The messages at the broker are about posts. *)
MailOK == mail \subseteq Posts \X (1 .. MaxTries)

(* The steps of DeliveriesNext. *)
LEMMA DeliverySteps ==
    ASSUME DeliveriesNext, MailOK
    PROVE  \/ SetFiling \/ SetListening
           \/ \E p \in Posts, queued \in BOOLEAN : Dispatch(p, queued)
           \/ \E c \in Couriers :
                \/ \E lost \in BOOLEAN : Crash(c, lost)
                \/ \/ RetryDue(c)
                   \/ \E r \in Receipts : IssueReceipt(c, r) \/ RetryByHand(c, r)
                   \/ \E m \in mail : m \in Posts \X Nat /\ TakePost(c, m)
                \/ \E t \in round[c].rest :
                    \/ GiveUp(c, t) \/ RecordDeclaration(c, t) \/ SkipPost(c, t)
                    \/ \E ended \in BOOLEAN : RecordPost(c, t, ended)
                    \/ \E accepted, heard \in BOOLEAN :
                        Declare(c, t, accepted, heard) \/ SendPost(c, t, accepted, heard)
<1>1. \A m \in mail : m \in Posts \X Nat
  BY DeliveriesAssumption DEF MailOK
<1>2. QED
  BY <1>1 DEF DeliveriesNext

LEMMA DeliveriesNextIInv ==
    DeliveriesIInv /\ MailOK /\ [DeliveriesNext]_deliveriesVars => DeliveriesIInv'
<1> SUFFICES ASSUME DeliveriesIInv, MailOK, [DeliveriesNext]_deliveriesVars
             PROVE  DeliveriesIInv'
  OBVIOUS
<1>1. CASE UNCHANGED deliveriesVars
  BY <1>1, NothingInHandMoves DEF deliveriesVars, DeliveriesIInv, DeliveryTypes
<1>2. CASE DeliveriesNext
  <2>1. CASE SetFiling \/ SetListening
    BY <2>1, SwitchesIInv
  <2>2. CASE \E p \in Posts, queued \in BOOLEAN : Dispatch(p, queued)
    BY <2>2, DispatchIInv
  <2>3. ASSUME NEW c \in Couriers, NEW lost \in BOOLEAN, Crash(c, lost) PROVE DeliveriesIInv'
    BY <2>3, CrashIInv
  <2>4. ASSUME NEW c \in Couriers,
               \/ RetryDue(c)
               \/ \E r \in Receipts : IssueReceipt(c, r) \/ RetryByHand(c, r)
               \/ \E m \in mail : m \in Posts \X Nat /\ TakePost(c, m)
        PROVE  DeliveriesIInv'
    BY <2>4, BeginsIInv
  <2>5. ASSUME NEW c \in Couriers, NEW t \in round[c].rest,
               \/ GiveUp(c, t) \/ RecordDeclaration(c, t) \/ SkipPost(c, t)
               \/ \E ended \in BOOLEAN : RecordPost(c, t, ended)
               \/ \E accepted, heard \in BOOLEAN :
                    Declare(c, t, accepted, heard) \/ SendPost(c, t, accepted, heard)
        PROVE  DeliveriesIInv'
    BY <2>5, GiveUpIInv, RecordDeclarationIInv, SkipPostIInv, RecordPostIInv, DeclareIInv,
       SendPostIInv
  <2>6. QED
    BY <1>2, <2>1, <2>2, <2>3, <2>4, <2>5, DeliverySteps
<1>3. QED
  BY <1>1, <1>2

LEMMA MailIInv == MailOK /\ [DeliveriesNext]_deliveriesVars => MailOK'
<1> SUFFICES ASSUME MailOK, [DeliveriesNext]_deliveriesVars PROVE MailOK'
  OBVIOUS
<1>1. CASE UNCHANGED mail
  BY <1>1 DEF MailOK
<1>2. ASSUME NEW p \in Posts, NEW queued, Dispatch(p, queued) PROVE MailOK'
  BY <1>2, DeliveriesAssumption DEF Dispatch, MailOK
<1>3. ASSUME NEW c \in Couriers, NEW lost, Crash(c, lost) PROVE MailOK'
  BY <1>3 DEF Crash, MailOK
<1>4. ASSUME NEW c \in Couriers, NEW t, NEW ended, SkipPost(c, t) \/ RecordPost(c, t, ended)
      PROVE  MailOK'
  BY <1>4, DeliveriesAssumption DEF SkipPost, RecordPost, MailOK
<1>5. ASSUME NEW c, NEW t, NEW accepted, NEW heard,
             GiveUp(c, t) \/ RecordDeclaration(c, t) \/ Declare(c, t, accepted, heard)
             \/ SendPost(c, t, accepted, heard)
      PROVE  UNCHANGED mail
  BY <1>5 DEF GiveUp, RecordDeclaration, Declare, SendPost, Quiet
<1>6. ASSUME NEW c, NEW r, NEW m, RetryDue(c) \/ IssueReceipt(c, r) \/ RetryByHand(c, r)
                                  \/ TakePost(c, m)
      PROVE  UNCHANGED mail
  BY <1>6 DEF RetryDue, IssueReceipt, RetryByHand, TakePost, Quiet
<1>7. SetFiling \/ SetListening \/ UNCHANGED deliveriesVars => UNCHANGED mail
  BY DEF SetFiling, SetListening, deliveriesVars
<1>8. QED
  BY <1>1, <1>2, <1>3, <1>4, <1>5, <1>6, <1>7, DeliverySteps

LEMMA DeliveriesInvariance == DeliveriesSpec => [](DeliveriesIInv /\ MailOK)
<1>1. DeliveriesInit => MailOK
  BY DEF DeliveriesInit, MailOK
<1>2. QED
  BY <1>1, DeliveriesInitIInv, DeliveriesNextIInv, MailIInv, PTL DEF DeliveriesSpec

(* etims_service.py and tasks/webhooks.py make their calls first and commit the
   outcome afterwards, and yet nothing is told twice unless an acceptance was
   lost before it was recorded, or a retry works on rows that have changed or
   was asked for after it had succeeded. *)
THEOREM ToldOnceButForLossOrInsistence == DeliveriesSpec => []ToldTwiceOnlyByLossOrInsistence
<1>1. DeliveriesIInv => ToldTwiceOnlyByLossOrInsistence
  <2> SUFFICES ASSUME DeliveriesIInv, NEW x \in Things, told[x] > 1,
                      x \notin unrecorded, x \notin insisted
               PROVE  FALSE
    BY DEF ToldTwiceOnlyByLossOrInsistence
  <2>1. ~(told[x] = 0 \/ told[x] = 1)
    OBVIOUS
  <2>2. \A recorded \in BOOLEAN : ~ToldOnce(x, recorded)
    BY <2>1 DEF ToldOnce
  <2>3. QED
    BY <2>2 DEF DeliveriesIInv, ReceiptOK, PostOK, Things
<1>2. QED
  BY <1>1, DeliveriesInvariance, PTL

-----------------------------------------------------------------------------
(* The types.  Each request or task that is begun adds one attempt at most to a
   receipt or a post, when it records what became of its call: what it saw of a
   receipt counts fewer attempts than there were requests, and so does a post that
   it has in hand. *)

AttemptsUpTo(rows, n) ==
    /\ \A r \in Receipts : rows.declaration[r].attempts <= n
    /\ \A p \in Posts : rows.post[p].attempts <= n

RoundBound(w, rows, n) ==
    w.at # "idle" =>
        /\ AttemptsUpTo(w.seen, n)
        /\ \A t \in w.rest :
            /\ t[2] \in Receipts => w.seen.declaration[t[2]].attempts < n /\ t[3] <= n
            /\ t[2] \in Posts => rows.post[t[2]].attempts < n /\ t[3] <= MaxTries

DeliveriesBounds ==
    /\ filing \in BOOLEAN /\ listening \in BOOLEAN
    /\ rounds \in 0 .. MaxRounds
    /\ AttemptsUpTo(outbox, rounds)
    /\ \A c \in Couriers : RoundBound(round[c], outbox, rounds)
    /\ unrecorded \subseteq Things /\ insisted \subseteq Things

LEMMA AttemptsAreNumbers ==
    ASSUME NEW rows \in LedgerRows
    PROVE  /\ \A r \in Receipts : rows.declaration[r].attempts \in Nat
           /\ \A p \in Posts : rows.post[p].attempts \in Nat
BY DEF LedgerRows, DeclarationRow, PostRow

LEMMA DeliveriesStartBounded == DeliveriesInit => DeliveriesBounds
<1> SUFFICES ASSUME DeliveriesInit PROVE DeliveriesBounds
  OBVIOUS
<1>1. rounds \in 0 .. MaxRounds
  BY DeliveriesAssumption DEF DeliveriesInit
<1>2. AttemptsUpTo(outbox, rounds)
  BY DEF DeliveriesInit, AttemptsUpTo, Untold
<1>3. \A c \in Couriers : RoundBound(round[c], outbox, rounds)
  BY DEF DeliveriesInit, RoundBound, Desk!Idle
<1>4. QED
  BY <1>1, <1>2, <1>3 DEF DeliveriesInit, DeliveriesBounds

(* A step of one session that goes on with w; a post that another has in hand is not
   touched. *)
LEMMA RoundStepBounded ==
    ASSUME DeliveriesIInv, DeliveriesBounds, NEW c \in Couriers, NEW w,
           round' = [round EXCEPT ![c] = w], outbox' \in LedgerRows,
           rounds' \in rounds .. MaxRounds, UNCHANGED <<filing, listening>>,
           AttemptsUpTo(outbox', rounds'), RoundBound(w, outbox', rounds'),
           \A p \in Posts : outbox'.post[p].attempts = outbox.post[p].attempts
                \/ \A d \in Couriers : HoldsIn(round[d], p) => d = c,
           unrecorded' \subseteq Things, insisted' \subseteq Things
    PROVE  DeliveriesBounds'
<1>1. rounds \in Nat /\ rounds' \in Nat /\ rounds <= rounds' /\ rounds' \in 0 .. MaxRounds
  BY DeliveriesAssumption DEF DeliveriesBounds
<1>2. ASSUME NEW d \in Couriers PROVE RoundBound(round'[d], outbox', rounds')
  <2>1. CASE d = c
    <3>1. round'[d] = w
      BY <2>1 DEF DeliveriesIInv, DeliveryTypes
    <3>2. QED
      BY <3>1
  <2>2. CASE d # c
    <3>1. round'[d] = round[d] /\ RoundOK(round[d]) /\ RoundBound(round[d], outbox, rounds)
      BY <2>2 DEF DeliveriesIInv, DeliveryTypes, DeliveriesBounds
    <3>2. SUFFICES ASSUME round[d].at # "idle" PROVE RoundBound(round[d], outbox', rounds')
      BY <3>1 DEF RoundBound
    <3>3. round[d].seen \in LedgerRows /\ round[d].rest \subseteq Duties
      BY <3>1, <3>2 DEF RoundOK
    <3>4. AttemptsUpTo(round[d].seen, rounds')
      BY <1>1, <3>1, <3>2, <3>3, AttemptsAreNumbers DEF RoundBound, AttemptsUpTo
    <3>5. ASSUME NEW t \in round[d].rest, t[2] \in Receipts
          PROVE  round[d].seen.declaration[t[2]].attempts < rounds' /\ t[3] <= rounds'
      <4>1. t[3] \in Nat /\ round[d].seen.declaration[t[2]].attempts \in Nat
        BY <3>3, <3>5, AttemptsAreNumbers DEF Duties
      <4>2. round[d].seen.declaration[t[2]].attempts < rounds /\ t[3] <= rounds
        BY <3>1, <3>2, <3>5 DEF RoundBound
      <4>3. QED
        BY <1>1, <4>1, <4>2
    <3>6. ASSUME NEW t \in round[d].rest, t[2] \in Posts
          PROVE  outbox'.post[t[2]].attempts < rounds' /\ t[3] <= MaxTries
      <4>1. HoldsIn(round[d], t[2])
        BY <3>2 DEF HoldsIn
      <4>2. outbox'.post[t[2]].attempts = outbox.post[t[2]].attempts
        BY <2>2, <3>6, <4>1
      <4>3. outbox.post[t[2]].attempts < rounds /\ t[3] <= MaxTries
        BY <3>1, <3>2, <3>6 DEF RoundBound
      <4>4. outbox'.post[t[2]].attempts \in Nat
        BY <3>6, AttemptsAreNumbers
      <4>5. QED
        BY <1>1, <4>2, <4>3, <4>4
    <3>7. QED
      BY <3>4, <3>5, <3>6 DEF RoundBound
  <2>3. QED
    BY <2>1, <2>2
<1>3. QED
  BY <1>1, <1>2 DEF DeliveriesBounds

(* Steps of nobody in particular. *)
LEMMA NobodysStepBounded ==
    ASSUME DeliveriesBounds, UNCHANGED <<round, rounds, unrecorded, insisted>>,
           filing' \in BOOLEAN, listening' \in BOOLEAN,
           outbox'.declaration = outbox.declaration,
           \A p \in Posts : outbox'.post[p].attempts = outbox.post[p].attempts
    PROVE  DeliveriesBounds'
<1>1. AttemptsUpTo(outbox', rounds)
  BY DEF DeliveriesBounds, AttemptsUpTo
<1>2. \A c \in Couriers : RoundBound(round[c], outbox', rounds)
  BY DEF DeliveriesBounds, RoundBound
<1>3. QED
  BY <1>1, <1>2 DEF DeliveriesBounds

LEMMA SwitchesBounded ==
    ASSUME DeliveriesIInv, DeliveriesBounds,
           SetFiling \/ SetListening \/ \E p \in Posts, queued \in BOOLEAN : Dispatch(p, queued)
    PROVE  DeliveriesBounds'
<1>1. CASE SetFiling \/ SetListening
  <2>1. /\ UNCHANGED <<outbox, round, rounds, unrecorded, insisted>>
        /\ filing' \in BOOLEAN /\ listening' \in BOOLEAN
    BY <1>1 DEF SetFiling, SetListening, DeliveriesBounds
  <2>2. QED
    BY <2>1, NobodysStepBounded
<1>2. ASSUME NEW p \in Posts, NEW queued, Dispatch(p, queued) PROVE DeliveriesBounds'
  <2>1. /\ outbox' = [outbox EXCEPT !.post[p].status = "PENDING"]
        /\ UNCHANGED <<filing, listening, round, rounds, unrecorded, insisted>>
        /\ outbox \in LedgerRows
    BY <1>2 DEF Dispatch, DeliveriesIInv, DeliveryTypes
  <2>2. /\ outbox'.declaration = outbox.declaration
        /\ \A q \in Posts : outbox'.post[q].attempts = outbox.post[q].attempts
    BY <2>1 DEF LedgerRows, PostRow
  <2>3. QED
    BY <2>1, <2>2, NobodysStepBounded DEF DeliveriesBounds
<1>3. QED
  BY <1>1, <1>2

(* A session takes on what it has to do. *)
LEMMA StartsBounded ==
    ASSUME DeliveriesIInv, DeliveriesBounds, NEW c \in Couriers, NEW rest \in SUBSET Duties,
           Desk!Starts(c, rest), UNCHANGED <<filing, listening, unrecorded>>,
           insisted' \subseteq Things,
           \A t \in rest : /\ t[2] \in Receipts => t[3] = 0
                           /\ t[2] \in Posts => t[3] <= MaxTries
    PROVE  DeliveriesBounds'
<1> DEFINE w == Desk!Between(outbox, rest)
<1>1. /\ round' = [round EXCEPT ![c] = w] /\ UNCHANGED outbox
      /\ rounds < MaxRounds /\ rounds' = rounds + 1
  BY DEF Desk!Starts, Desk!Begins
<1>2. outbox \in LedgerRows /\ AttemptsUpTo(outbox, rounds) /\ rounds \in Nat
  BY DEF DeliveriesIInv, DeliveryTypes, DeliveriesBounds
<1>3. w.seen = outbox /\ w.rest = rest
  BY DEF Desk!Between
<1> HIDE DEF w
<1>4. AttemptsUpTo(outbox, rounds')
  BY <1>1, <1>2, AttemptsAreNumbers DEF AttemptsUpTo
<1>5. ASSUME NEW t \in rest
      PROVE  /\ t[2] \in Receipts => outbox.declaration[t[2]].attempts < rounds' /\ t[3] <= rounds'
             /\ t[2] \in Posts => outbox.post[t[2]].attempts < rounds' /\ t[3] <= MaxTries
  BY <1>1, <1>2, AttemptsAreNumbers DEF AttemptsUpTo
<1>6. RoundBound(w, outbox', rounds')
  BY <1>1, <1>3, <1>4, <1>5 DEF RoundBound
<1>7. rounds' \in rounds .. MaxRounds
  BY <1>1, <1>2, DeliveriesAssumption
<1>8. QED
  BY <1>1, <1>2, <1>4, <1>6, <1>7, RoundStepBounded DEF DeliveriesBounds

LEMMA BeginsBounded ==
    ASSUME DeliveriesIInv, DeliveriesBounds, MailOK, NEW c \in Couriers,
           \/ RetryDue(c)
           \/ \E r \in Receipts : IssueReceipt(c, r) \/ RetryByHand(c, r)
           \/ \E m \in mail : TakePost(c, m)
    PROVE  DeliveriesBounds'
<1>1. UNCHANGED <<filing, listening, unrecorded>>
  BY DEF RetryDue, IssueReceipt, RetryByHand, TakePost, Quiet
<1>2. CASE RetryDue(c)
  <2> DEFINE rest == {<<"declare", r, 0>> : r \in Due}
  <2>1. Desk!Starts(c, rest) /\ UNCHANGED insisted
    BY <1>2 DEF RetryDue
  <2>2. \A t \in rest : t \in Duties /\ t[2] \notin Posts /\ t[3] = 0
    BY DeliveriesAssumption DEF Due, Duties, Outcomes, Things
  <2> HIDE DEF rest
  <2>3. QED
    BY <1>1, <2>1, <2>2, StartsBounded DEF DeliveriesBounds
<1>3. ASSUME NEW r \in Receipts, IssueReceipt(c, r) \/ RetryByHand(c, r)
      PROVE  DeliveriesBounds'
  <2>1. PICK how \in {"declare", "redeclare"} : Desk!Starts(c, {<<how, r, 0>>})
    BY <1>3 DEF IssueReceipt, RetryByHand
  <2>2. insisted' \subseteq Things
    BY <1>3 DEF IssueReceipt, RetryByHand, DeliveriesBounds, Things
  <2> DEFINE t == <<how, r, 0>>
  <2>3. {t} \in SUBSET Duties /\ t[2] \notin Posts /\ t[3] = 0
    BY DeliveriesAssumption DEF Duties, Outcomes, Things
  <2>4. Desk!Starts(c, {t})
    BY <2>1
  <2> HIDE DEF t
  <2>5. QED
    BY <1>1, <2>2, <2>3, <2>4, StartsBounded
<1>4. ASSUME NEW m \in mail, TakePost(c, m)
      PROVE  DeliveriesBounds'
  <2> DEFINE t == <<"post", m[1], m[2]>>
  <2>1. Desk!Starts(c, {t}) /\ UNCHANGED insisted
    BY <1>4 DEF TakePost
  <2>2. m[1] \in Posts /\ m[2] \in Nat /\ m[2] <= MaxTries
    BY DeliveriesAssumption DEF MailOK
  <2>3. {t} \in SUBSET Duties /\ t[2] \notin Receipts /\ t[3] <= MaxTries
    BY <2>2, DeliveriesAssumption DEF Duties, Outcomes, Things
  <2> HIDE DEF t
  <2>4. QED
    BY <1>1, <2>1, <2>3, StartsBounded DEF DeliveriesBounds
<1>5. QED
  BY <1>2, <1>3, <1>4

(* One commit about a receipt adds one attempt at most to what its session saw. *)
LEMMA DeclarationBounded ==
    ASSUME DeliveriesIInv, DeliveriesBounds, NEW c \in Couriers, round[c].at = "between",
           NEW t \in round[c].rest, t[2] \in Receipts, NEW new \in DeclarationRow,
           new.attempts <= rounds,
           Desk!Steps(c, [outbox EXCEPT !.declaration[t[2]] =
                Desk!MergedRow(round[c].seen.declaration[t[2]], new, @)], round[c].rest \ {t}),
           UNCHANGED <<filing, listening, unrecorded>>, insisted' \subseteq Things
    PROVE  DeliveriesBounds'
<1> DEFINE r == t[2]
           row == Desk!MergedRow(round[c].seen.declaration[r], new, outbox.declaration[r])
           rows == [outbox EXCEPT !.declaration[r] = row]
           rest == round[c].rest \ {t}
           seen == IF round[c].seen = outbox THEN rows ELSE round[c].seen
           w == IF rest = {} THEN Desk!Idle ELSE Desk!Between(seen, rest)
<1>1. round' = [round EXCEPT ![c] = w] /\ outbox' = rows /\ UNCHANGED rounds
  BY DEF Desk!Steps
<1>2. /\ outbox \in LedgerRows /\ round[c].seen \in LedgerRows /\ rounds \in Nat
      /\ AttemptsUpTo(outbox, rounds) /\ AttemptsUpTo(round[c].seen, rounds)
      /\ RoundBound(round[c], outbox, rounds) /\ \A u \in rest : u[2] # r
  BY TaskInHand DEF DeliveriesIInv, DeliveryTypes, DeliveriesBounds, RoundBound
<1>3. row \in DeclarationRow /\ row.attempts <= rounds
  <2>1. /\ outbox.declaration[r] \in DeclarationRow
        /\ round[c].seen.declaration[r] \in DeclarationRow
    BY <1>2 DEF LedgerRows
  <2>2. row.attempts \in {new.attempts, outbox.declaration[r].attempts}
    BY <2>1 DEF Desk!MergedRow, DeclarationRow
  <2>3. row \in DeclarationRow
    BY <2>1, MergedDeclaration
  <2> HIDE DEF row
  <2>4. QED
    BY <1>2, <2>2, <2>3 DEF AttemptsUpTo
<1> HIDE DEF row
<1>4. /\ rows \in LedgerRows /\ rows.post = outbox.post
      /\ rows.declaration = [outbox.declaration EXCEPT ![r] = row]
  BY <1>2, <1>3 DEF LedgerRows
<1> HIDE DEF rows
<1>5. /\ \A x \in Receipts : rows.declaration[x].attempts <= rounds
      /\ \A x \in Receipts : x # r => rows.declaration[x] = outbox.declaration[x]
  BY <1>2, <1>3, <1>4 DEF AttemptsUpTo, LedgerRows
<1>6. AttemptsUpTo(rows, rounds)
  BY <1>2, <1>4, <1>5 DEF AttemptsUpTo
<1>7. /\ AttemptsUpTo(seen, rounds)
      /\ \A x \in Receipts : x # r => seen.declaration[x] = round[c].seen.declaration[x]
  BY <1>2, <1>5, <1>6
<1> HIDE DEF seen
<1>8. ASSUME NEW u \in rest
      PROVE  /\ u[2] \in Receipts => seen.declaration[u[2]].attempts < rounds /\ u[3] <= rounds
             /\ u[2] \in Posts => outbox'.post[u[2]].attempts < rounds /\ u[3] <= MaxTries
  BY <1>1, <1>2, <1>4, <1>7 DEF RoundBound
<1> HIDE DEF rest
<1>9. RoundBound(w, outbox', rounds)
  BY <1>7, <1>8 DEF RoundBound, Desk!Idle, Desk!Between
<1> HIDE DEF w
<1>10. rounds' \in rounds .. MaxRounds
  BY <1>1, <1>2, DeliveriesAssumption DEF DeliveriesBounds
<1>11. QED
  BY <1>1, <1>4, <1>6, <1>9, <1>10, RoundStepBounded DEF DeliveriesBounds

LEMMA ReceiptStepBounded ==
    ASSUME DeliveriesIInv, DeliveriesBounds, NEW c \in Couriers, NEW t \in round[c].rest,
           GiveUp(c, t) \/ RecordDeclaration(c, t)
    PROVE  DeliveriesBounds'
<1>1. round[c].at = "between" /\ UNCHANGED <<filing, listening, unrecorded>>
  BY DEF GiveUp, RecordDeclaration, Unladen, Quiet
<1>2. /\ t \in Duties /\ t[3] \in Nat /\ round[c].seen \in LedgerRows /\ rounds \in Nat
      /\ RoundBound(round[c], outbox, rounds)
  BY <1>1, TaskInHand DEF DeliveriesBounds
<1>3. ASSUME GiveUp(c, t) PROVE DeliveriesBounds'
  <2> DEFINE row == Held(c, t[1], t[2])
             new == [status |-> "ABANDONED", attempts |-> row.attempts + 1]
  <2>1. /\ t[1] \in {"declare", "redeclare"} /\ Insists(c, t[2])
        /\ Desk!Steps(c, [outbox EXCEPT !.declaration[t[2]] =
                Desk!MergedRow(round[c].seen.declaration[t[2]], new, @)], round[c].rest \ {t})
    BY <1>3 DEF GiveUp
  <2>2. /\ t[2] \in Receipts /\ round[c].seen.declaration[t[2]] \in DeclarationRow
        /\ round[c].seen.declaration[t[2]].attempts < rounds
    BY <1>1, <1>2, <2>1 DEF Duties, LedgerRows, RoundBound
  <2>3. row.attempts \in Nat /\ row.attempts < rounds
    BY <1>2, <2>2 DEF Held, DeclarationRow
  <2> HIDE DEF row
  <2>4. new \in DeclarationRow /\ new.attempts <= rounds
    BY <1>2, <2>3 DEF DeclarationRow
  <2> HIDE DEF new
  <2>5. insisted' \subseteq Things
    BY <2>1, <2>2 DEF Insists, DeliveriesBounds, Things
  <2>6. QED
    BY <1>1, <2>1, <2>2, <2>4, <2>5, DeclarationBounded
<1>4. ASSUME RecordDeclaration(c, t) PROVE DeliveriesBounds'
  <2> DEFINE new == [status   |-> CASE t[1] = "accepted" -> "SUBMITTED"
                                    [] t[1] = "failed" /\ t[3] >= MaxAttempts -> "ABANDONED"
                                    [] OTHER -> "FAILED",
                     attempts |-> t[3]]
  <2>1. /\ t[2] \in Receipts /\ UNCHANGED insisted
        /\ Desk!Steps(c, [outbox EXCEPT !.declaration[t[2]] =
                Desk!MergedRow(round[c].seen.declaration[t[2]], new, @)], round[c].rest \ {t})
    BY <1>4 DEF RecordDeclaration
  <2>2. new \in DeclarationRow /\ new.attempts <= rounds
    BY <1>1, <1>2, <2>1 DEF DeclarationRow, RoundBound
  <2> HIDE DEF new
  <2>3. QED
    BY <1>1, <2>1, <2>2, DeclarationBounded DEF DeliveriesBounds
<1>5. QED
  BY <1>3, <1>4

(* the call to the tax authority; the attempt it makes is noted in the task *)
LEMMA DeclareBounded ==
    ASSUME DeliveriesIInv, DeliveriesBounds, NEW c \in Couriers, NEW t \in round[c].rest,
           NEW accepted \in BOOLEAN, NEW heard \in BOOLEAN, Declare(c, t, accepted, heard)
    PROVE  DeliveriesBounds'
<1> DEFINE r == t[2]
           u == <<IF heard THEN "accepted" ELSE "failed", r, Held(c, t[1], r).attempts + 1>>
           w == [round[c] EXCEPT !.rest = (round[c].rest \ {t}) \cup {u}]
<1>1. /\ round[c].at = "between" /\ t[1] \in {"declare", "redeclare"} /\ Insists(c, r)
      /\ round' = [round EXCEPT ![c] = w] /\ UNCHANGED <<filing, listening, outbox, rounds>>
      /\ unrecorded' = IF accepted /\ ~heard THEN unrecorded \cup {r} ELSE unrecorded
  BY DEF Declare, Unladen
<1>2. /\ t \in Duties /\ round[c].seen \in LedgerRows /\ rounds \in Nat
      /\ RoundBound(round[c], outbox, rounds)
      /\ round[c] = Desk!Between(round[c].seen, round[c].rest)
      /\ outbox \in LedgerRows /\ AttemptsUpTo(outbox, rounds)
  BY <1>1, TaskInHand DEF DeliveriesIInv, DeliveryTypes, DeliveriesBounds, RoundOK
<1>3. r \in Receipts /\ r \in Things /\ r \notin Posts
  BY <1>1, <1>2, DeliveriesAssumption DEF Duties
<1>4. /\ round[c].seen.declaration[r] \in DeclarationRow
      /\ round[c].seen.declaration[r].attempts < rounds
  BY <1>1, <1>2, <1>3 DEF LedgerRows, RoundBound
<1>5. u[2] = r /\ u[3] <= rounds
  BY <1>2, <1>4 DEF Held, DeclarationRow
<1> HIDE DEF u
<1>6. w.at = "between" /\ w.seen = round[c].seen /\ w.rest = (round[c].rest \ {t}) \cup {u}
  BY <1>2 DEF Desk!Between
<1> HIDE DEF w
<1>7. RoundBound(w, outbox, rounds)
  BY <1>1, <1>2, <1>3, <1>4, <1>5, <1>6 DEF RoundBound
<1>8. unrecorded' \subseteq Things /\ insisted' \subseteq Things
  BY <1>1, <1>3 DEF Insists, DeliveriesBounds
<1>9. rounds' \in rounds .. MaxRounds
  BY <1>1, <1>2, DeliveriesAssumption DEF DeliveriesBounds
<1>10. QED
  BY <1>1, <1>2, <1>7, <1>8, <1>9, RoundStepBounded

(* the webhooks; a session that has a post in hand has it alone *)
LEMMA PostStepBounded ==
    ASSUME DeliveriesIInv, DeliveriesBounds, NEW c \in Couriers, NEW t \in round[c].rest,
           \/ SkipPost(c, t)
           \/ \E ended \in BOOLEAN : RecordPost(c, t, ended)
           \/ \E accepted, heard \in BOOLEAN : SendPost(c, t, accepted, heard)
    PROVE  DeliveriesBounds'
<1> DEFINE p == t[2]
<1>1. /\ round[c].at = "between" /\ UNCHANGED <<filing, listening, rounds, insisted>>
  BY DEF SkipPost, RecordPost, SendPost, Desk!Steps
<1>2. /\ t \in Duties /\ round[c].seen \in LedgerRows /\ rounds \in Nat
      /\ RoundBound(round[c], outbox, rounds)
      /\ round[c] = Desk!Between(round[c].seen, round[c].rest)
      /\ outbox \in LedgerRows /\ AttemptsUpTo(outbox, rounds)
      /\ HoldsIn(round[c], p) /\ rounds \in rounds .. MaxRounds
  BY <1>1, TaskInHand, DeliveriesAssumption
     DEF DeliveriesIInv, DeliveryTypes, DeliveriesBounds, RoundOK
<1>3. p \in Posts /\ p \in Things /\ p \notin Receipts
  BY <1>2, DeliveriesAssumption DEF SkipPost, RecordPost, SendPost, Duties, Things
<1>4. outbox.post[p] \in PostRow /\ outbox.post[p].attempts < rounds /\ t[3] <= MaxTries
  BY <1>1, <1>2, <1>3 DEF LedgerRows, RoundBound
<1>5. \A d \in Couriers : HoldsIn(round[d], p) => d = c
  BY <1>2, <1>3 DEF DeliveriesIInv, PostOK
<1>6. RoundBound(Desk!Idle, outbox', rounds)
  BY DEF RoundBound, Desk!Idle
<1>7. ASSUME NEW row \in PostRow, row.attempts \in {outbox.post[p].attempts, outbox.post[p].attempts + 1},
             outbox' = [outbox EXCEPT !.post[p] = row]
      PROVE  /\ outbox' \in LedgerRows /\ AttemptsUpTo(outbox', rounds)
             /\ \A q \in Posts : outbox'.post[q].attempts = outbox.post[q].attempts
                    \/ \A d \in Couriers : HoldsIn(round[d], q) => d = c
  <2>1. /\ outbox' \in LedgerRows /\ outbox'.declaration = outbox.declaration
        /\ outbox'.post = [outbox.post EXCEPT ![p] = row]
    BY <1>2, <1>3, <1>7 DEF LedgerRows
  <2>2. row.attempts <= rounds
    BY <1>2, <1>4, <1>7 DEF PostRow
  <2>3. /\ outbox'.post[p] = row
        /\ \A q \in Posts : q # p => outbox'.post[q] = outbox.post[q]
    BY <1>2, <1>3, <2>1 DEF LedgerRows
  <2>4. \A q \in Posts : outbox'.post[q].attempts <= rounds
    BY <1>2, <2>2, <2>3 DEF AttemptsUpTo
  <2>5. QED
    BY <1>2, <1>5, <2>1, <2>3, <2>4 DEF AttemptsUpTo
<1>8. CASE SkipPost(c, t)
  <2>1. /\ round' = [round EXCEPT ![c] = Desk!Idle] /\ UNCHANGED unrecorded
        /\ outbox' = IF outbox.post[p].status = "SUCCESS" THEN outbox
                     ELSE [outbox EXCEPT !.post[p].status = "FAILED"]
    BY <1>8 DEF SkipPost, Desk!Steps
  <2> DEFINE row == IF outbox.post[p].status = "SUCCESS" THEN outbox.post[p]
                    ELSE [outbox.post[p] EXCEPT !.status = "FAILED"]
  <2>2. row \in PostRow /\ row.attempts = outbox.post[p].attempts
    BY <1>4 DEF PostRow
  <2>3. outbox' = [outbox EXCEPT !.post[p] = row]
    BY <1>2, <1>3, <2>1 DEF LedgerRows
  <2> HIDE DEF row
  <2>4. QED
    BY <1>1, <1>2, <1>6, <1>7, <2>1, <2>2, <2>3, RoundStepBounded DEF DeliveriesBounds
<1>9. ASSUME NEW ended, RecordPost(c, t, ended) PROVE DeliveriesBounds'
  <2> DEFINE status == CASE t[1] = "accepted" -> "SUCCESS"
                         [] t[1] = "failed" /\ t[3] = MaxTries -> "FAILED"
                         [] OTHER -> outbox.post[p].status
             row == [status |-> status, attempts |-> outbox.post[p].attempts + 1]
  <2>1. /\ round' = [round EXCEPT ![c] = Desk!Idle] /\ UNCHANGED unrecorded
        /\ outbox' = [outbox EXCEPT !.post[p] = row]
    BY <1>9 DEF RecordPost, Desk!Steps
  <2>2. row \in PostRow /\ row.attempts = outbox.post[p].attempts + 1
    BY <1>4 DEF PostRow
  <2> HIDE DEF row
  <2>3. QED
    BY <1>1, <1>2, <1>6, <1>7, <2>1, <2>2, RoundStepBounded DEF DeliveriesBounds
<1>10. ASSUME NEW accepted \in BOOLEAN, NEW heard \in BOOLEAN, SendPost(c, t, accepted, heard)
       PROVE  DeliveriesBounds'
  <2> DEFINE u == <<IF heard THEN "accepted" ELSE "failed", p, t[3]>>
             w == [round[c] EXCEPT !.rest = {u}]
  <2>1. /\ round' = [round EXCEPT ![c] = w] /\ UNCHANGED outbox
        /\ unrecorded' = IF accepted /\ ~heard THEN unrecorded \cup {p} ELSE unrecorded
    BY <1>10 DEF SendPost
  <2>2. u[2] = p /\ u[3] = t[3]
    OBVIOUS
  <2> HIDE DEF u
  <2>3. w.at = "between" /\ w.seen = round[c].seen /\ w.rest = {u}
    BY <1>2 DEF Desk!Between
  <2> HIDE DEF w
  <2>4. RoundBound(w, outbox, rounds)
    BY <1>1, <1>2, <1>3, <1>4, <2>2, <2>3 DEF RoundBound
  <2>5. unrecorded' \subseteq Things
    BY <1>3, <2>1 DEF DeliveriesBounds
  <2>6. QED
    BY <1>1, <1>2, <2>1, <2>4, <2>5, RoundStepBounded DEF DeliveriesBounds
<1>11. QED
  BY <1>8, <1>9, <1>10

LEMMA CrashBounded ==
    ASSUME DeliveriesIInv, DeliveriesBounds, NEW c \in Couriers, NEW lost, Crash(c, lost)
    PROVE  DeliveriesBounds'
<1>1. /\ round[c].at # "idle" /\ round' = [round EXCEPT ![c] = Desk!Idle]
      /\ unrecorded' = unrecorded \cup {t[2] : t \in {u \in round[c].rest : u[1] = "accepted"}}
      /\ UNCHANGED <<filing, listening, outbox, rounds, insisted>>
  BY DEF Crash, Desk!Drops
<1>2. round[c].rest \subseteq Duties /\ outbox \in LedgerRows
  BY <1>1 DEF DeliveriesIInv, DeliveryTypes, RoundOK
<1>3. unrecorded' \subseteq Things
  BY <1>1, <1>2 DEF Duties, DeliveriesBounds
<1>4. RoundBound(Desk!Idle, outbox', rounds)
  BY DEF RoundBound, Desk!Idle
<1>5. rounds \in rounds .. MaxRounds
  BY DeliveriesAssumption DEF DeliveriesBounds
<1>6. QED
  BY <1>1, <1>2, <1>3, <1>4, <1>5, RoundStepBounded DEF DeliveriesBounds

LEMMA DeliveriesStayBounded ==
    DeliveriesIInv /\ MailOK /\ DeliveriesBounds /\ [DeliveriesNext]_deliveriesVars =>
        DeliveriesBounds'
<1> SUFFICES ASSUME DeliveriesIInv, MailOK, DeliveriesBounds, [DeliveriesNext]_deliveriesVars
             PROVE  DeliveriesBounds'
  OBVIOUS
<1>1. CASE UNCHANGED deliveriesVars
  BY <1>1, NobodysStepBounded DEF deliveriesVars, DeliveriesBounds
<1>2. ASSUME NEW c \in Couriers,
             \/ RetryDue(c)
             \/ \E r \in Receipts : IssueReceipt(c, r) \/ RetryByHand(c, r)
             \/ \E m \in mail : TakePost(c, m)
      PROVE  DeliveriesBounds'
  BY <1>2, BeginsBounded
<1>3. ASSUME NEW c \in Couriers, NEW t \in round[c].rest,
             \/ GiveUp(c, t) \/ RecordDeclaration(c, t) \/ SkipPost(c, t)
             \/ \E ended \in BOOLEAN : RecordPost(c, t, ended)
             \/ \E accepted, heard \in BOOLEAN :
                  Declare(c, t, accepted, heard) \/ SendPost(c, t, accepted, heard)
      PROVE  DeliveriesBounds'
  BY <1>3, ReceiptStepBounded, DeclareBounded, PostStepBounded
<1>4. ASSUME NEW c \in Couriers, NEW lost \in BOOLEAN, Crash(c, lost) PROVE DeliveriesBounds'
  BY <1>4, CrashBounded
<1>5. QED
  BY <1>1, <1>2, <1>3, <1>4, SwitchesBounded, DeliverySteps

(* The declarations and posts, the requests and tasks in flight, the messages at the
   broker and what is remembered of the calls (etims_service.py, webhook_service.py,
   tasks/webhooks.py) keep their types; a request adds no more than one attempt to
   anything it tells. *)
THEOREM DeliveriesAreWellTyped == DeliveriesSpec => []DeliveriesTypeOK
<1>1. ASSUME NEW rows \in LedgerRows, NEW n \in 0 .. MaxRounds, AttemptsUpTo(rows, n)
      PROVE  IsLedger(rows)
  <2>1. /\ \A r \in Receipts : /\ rows.declaration[r] \in DeclarationRow
                               /\ rows.declaration[r].attempts \in 0 .. MaxAttempts + MaxRounds
        /\ \A p \in Posts : /\ rows.post[p] \in PostRow
                            /\ rows.post[p].attempts \in 0 .. MaxRounds
    BY <1>1, AttemptsAreNumbers, DeliveriesAssumption DEF LedgerRows, AttemptsUpTo
  <2>2. /\ rows = [declaration |-> rows.declaration, post |-> rows.post]
        /\ rows.declaration = [r \in Receipts |-> rows.declaration[r]]
        /\ rows.post = [p \in Posts |-> rows.post[p]]
    BY DEF LedgerRows
  <2>3. /\ rows.declaration \in
            [Receipts -> [status : {"none", "PENDING", "SUBMITTED", "FAILED", "ABANDONED"},
                          attempts : 0 .. MaxAttempts + MaxRounds]]
        /\ rows.post \in [Posts -> [status : {"none", "PENDING", "SUCCESS", "FAILED"},
                                    attempts : 0 .. MaxRounds]]
    BY <2>1, <2>2 DEF DeclarationRow, PostRow
  <2>4. QED
    BY <2>2, <2>3 DEF IsLedger
<1>2. ASSUME DeliveriesIInv, DeliveriesBounds, NEW c \in Couriers
      PROVE  Desk!IsWork(round[c], IsLedger, Tasks)
  <2>1. /\ RoundOK(round[c]) /\ RoundBound(round[c], outbox, rounds) /\ rounds \in 0 .. MaxRounds
    BY <1>2 DEF DeliveriesIInv, DeliveryTypes, DeliveriesBounds
  <2>2. CASE round[c].at = "between"
    <3>1. /\ round[c].seen \in LedgerRows /\ AttemptsUpTo(round[c].seen, rounds)
          /\ round[c].rest \subseteq Duties
      BY <2>1, <2>2 DEF RoundOK, RoundBound
    <3>2. ASSUME NEW t \in round[c].rest PROVE t \in Tasks
      <4>1. t \in Duties
        BY <3>1
      <4>2. t[3] \in Nat /\ (t[3] <= rounds \/ t[3] <= MaxTries)
        BY <2>1, <2>2, <4>1 DEF Duties, RoundBound, Things
      <4>3. t[3] \in 0 .. (MaxTries + MaxAttempts + MaxRounds)
        BY <2>1, <4>2, DeliveriesAssumption
      <4>4. QED
        BY <4>1, <4>3 DEF Duties, Tasks
    <3>3. IsLedger(round[c].seen)
      BY <1>1, <2>1, <3>1
    <3>4. QED
      BY <2>2, <3>2, <3>3 DEF Desk!IsWork
  <2>3. CASE round[c].at = "idle"
    BY <2>3 DEF Desk!IsWork
  <2>4. QED
    BY <2>1, <2>2, <2>3 DEF RoundOK
<1>3. DeliveriesIInv /\ MailOK /\ DeliveriesBounds => DeliveriesTypeOK
  BY <1>1, <1>2 DEF DeliveriesIInv, DeliveryTypes, DeliveriesBounds, MailOK, DeliveriesTypeOK
<1>4. DeliveriesSpec => []DeliveriesBounds
  BY DeliveriesInvariance, DeliveriesStartBounded, DeliveriesStayBounded, PTL
     DEF DeliveriesSpec
<1>5. QED
  BY <1>3, <1>4, DeliveriesInvariance, PTL

-----------------------------------------------------------------------------
(* Maintenance.  As long as nobody raced and no finished job was completed
   again, the rows count every job whose cost is recorded once, as they were read
   and as they are prepared; what a second transaction still has to do concerns a
   job without its cost; and a job that is completed without its cost is left to a
   second transaction, or was cut off from it. *)

JobRow ==
    [status : DOMAIN Leaves \cup {"none"}, cost : BOOLEAN,
     vendor : Vendors \cup {NoVendor}, done : 0 .. LastMonth]

VendorRow == [active : BOOLEAN, jobs : Nat]

RepairRows == [job : [Tickets -> JobRow], vendor : [Vendors -> VendorRow]]

Chores == {"assign", "vendor", "complete"} \X Tickets \X (Vendors \cup {NoVendor})

FinishedBy(rows, v) == {j \in Tickets : rows.job[j].vendor = v /\ rows.job[j].cost}

Counted(rows) ==
    /\ \A v \in Vendors : rows.vendor[v].jobs = Cardinality(FinishedBy(rows, v))
    /\ \A j \in Tickets : rows.job[j].cost => rows.job[j].status \in Billable

(* completed, and its cost not recorded *)
Uncosted(rows, j) == rows.job[j].status \in Billable /\ ~rows.job[j].cost

(* the second transaction of complete is still to come *)
ToRecord(rest, j) == \E v \in Vendors \cup {NoVendor} : <<"complete", j, v>> \in rest

(* rows that complete no job without leaving its cost to a second transaction *)
LeavesCosts(rest, was, is) ==
    \A j \in Tickets : Uncosted(is, j) => Uncosted(was, j) \/ ToRecord(rest, j)

Recording(w, j) == w.at = "between" /\ ToRecord(w.rest, j)

CostsFollow ==
    \A j \in Tickets : Uncosted(repairs, j) => j \in cut \/ \E c \in Crew : Recording(errand[c], j)

(* what becomes of the costs that session w had to record, when it goes on as x *)
HandsOver(w, x) ==
    \A j \in Tickets : Uncosted(repairs', j) =>
        \/ Uncosted(repairs, j) /\ ~Recording(w, j)
        \/ j \in cut' \/ Recording(x, j)

(* a finished job stays finished in its month *)
KeepsFinished(was, is) ==
    \A j \in Tickets : was.job[j].cost => is.job[j].cost /\ is.job[j].done = was.job[j].done

(* what is left to do, after a commit of the rows *)
LeftOver(rest, rows) ==
    \A t \in rest :
        /\ t[1] = "assign" => rows.job[t[2]].status = "APPROVED"
        /\ t[1] = "vendor" => rows.job[t[2]].status = "ASSIGNED"
        /\ t[1] = "complete" => rows.job[t[2]].vendor = t[3] /\ ~rows.job[t[2]].cost

ErrandTypes(w) ==
    \/ w.at = "idle"
    \/ /\ w.at = "ready" /\ w.seen = w.was /\ w.rest \subseteq Chores
       /\ w.was \in RepairRows /\ w.is \in RepairRows
    \/ w.at = "between" /\ w.seen \in RepairRows /\ w.rest \subseteq Chores

ErrandOK(w) ==
    /\ w.at = "ready" =>
        /\ Counted(w.is) /\ KeepsFinished(w.was, w.is) /\ LeftOver(w.rest, w.is)
        /\ LeavesCosts(w.rest, w.was, w.is)
    /\ w.at = "between" => LeftOver(w.rest, w.seen)

Calm == ~raced /\ ~redone

MaintenanceTypes ==
    /\ period \in 1 .. LastMonth
    /\ repairs \in RepairRows
    /\ errand = [c \in Crew |-> errand[c]] /\ \A c \in Crew : ErrandTypes(errand[c])
    /\ charged \in [Tickets -> SUBSET ((1 .. LastMonth) \X (1 .. LastMonth))]
    /\ cut \subseteq Tickets

(* a disbursement deducts a job of its own period *)
ChargedWhenDone ==
    \A j \in Tickets : \A p \in charged[j] :
        /\ repairs.job[j].cost
        /\ p[1] <= repairs.job[j].done /\ repairs.job[j].done <= p[2]

MaintenanceIInv ==
    /\ MaintenanceTypes
    /\ Calm =>
        /\ Counted(repairs) /\ ChargedWhenDone /\ CostsFollow
        /\ \A c \in Crew : ErrandOK(errand[c])

LEMMA RepairColumns ==
    ASSUME NEW rows \in RepairRows
    PROVE  /\ DOMAIN rows = {"job", "vendor"}
           /\ rows.job \in [Tickets -> JobRow] /\ rows.vendor \in [Vendors -> VendorRow]
           /\ \A t \in DOMAIN rows : \A k \in DOMAIN rows[t] :
                rows[t][k] = [c \in DOMAIN rows[t][k] |-> rows[t][k][c]]
           /\ \A j \in Tickets : DOMAIN rows.job[j] = {"status", "cost", "vendor", "done"}
           /\ \A v \in Vendors : DOMAIN rows.vendor[v] = {"active", "jobs"}
BY DEF RepairRows, JobRow, VendorRow

LEMMA MergedJob ==
    ASSUME NEW was, NEW is \in JobRow, NEW now \in JobRow
    PROVE  Site!MergedRow(was, is, now) \in JobRow
<1>1. Site!MergedRow(was, is, now) =
        [status |-> IF is.status = was.status THEN now.status ELSE is.status,
         cost |-> IF is.cost = was.cost THEN now.cost ELSE is.cost,
         vendor |-> IF is.vendor = was.vendor THEN now.vendor ELSE is.vendor,
         done |-> IF is.done = was.done THEN now.done ELSE is.done]
  BY DEF JobRow, Site!MergedRow
<1>2. QED
  BY <1>1 DEF JobRow

LEMMA MergedVendor ==
    ASSUME NEW was, NEW is \in VendorRow, NEW now \in VendorRow
    PROVE  Site!MergedRow(was, is, now) \in VendorRow
<1>1. Site!MergedRow(was, is, now) =
        [active |-> IF is.active = was.active THEN now.active ELSE is.active,
         jobs |-> IF is.jobs = was.jobs THEN now.jobs ELSE is.jobs]
  BY DEF VendorRow, Site!MergedRow
<1>2. QED
  BY <1>1 DEF VendorRow

LEMMA MergedRepairs ==
    ASSUME NEW was, NEW is \in RepairRows, NEW now \in RepairRows
    PROVE  Site!Merged(was, is, now) \in RepairRows
<1> DEFINE m == Site!Merged(was, is, now)
           Row(t, k) == Site!MergedRow(was[t][k], is[t][k], now[t][k])
<1>1. m = [t \in {"job", "vendor"} |-> [k \in DOMAIN now[t] |-> Row(t, k)]]
  BY RepairColumns DEF Site!Merged
<1>2. /\ m.job = [j \in Tickets |-> Row("job", j)]
      /\ m.vendor = [v \in Vendors |-> Row("vendor", v)]
      /\ m = [job |-> m.job, vendor |-> m.vendor]
  BY <1>1, RepairColumns
<1>3. \A j \in Tickets : Row("job", j) \in JobRow
  BY MergedJob, RepairColumns
<1>4. \A v \in Vendors : Row("vendor", v) \in VendorRow
  BY MergedVendor, RepairColumns
<1> HIDE DEF m, Row
<1>5. QED
  BY <1>2, <1>3, <1>4 DEF RepairRows, m

LEMMA SavesThePreparedRepairs ==
    ASSUME NEW was \in RepairRows, NEW is \in RepairRows
    PROVE  Site!Merged(was, is, was) = is
<1>1. \A t \in DOMAIN was : DOMAIN is[t] = DOMAIN was[t]
  BY RepairColumns
<1>2. \A t \in DOMAIN was : \A k \in DOMAIN was[t] : DOMAIN is[t][k] = DOMAIN was[t][k]
  BY RepairColumns
<1>3. \A t \in DOMAIN was : \A k \in DOMAIN was[t] :
        Site!MergedRow(was[t][k], is[t][k], was[t][k]) = is[t][k]
  BY <1>1, <1>2, RepairColumns DEF Site!MergedRow
<1>4. \A t \in DOMAIN is : is[t] = [k \in DOMAIN is[t] |-> is[t][k]]
  BY RepairColumns
<1>5. is = [t \in DOMAIN is |-> is[t]]
  BY DEF RepairRows
<1>6. QED
  BY <1>1, <1>3, <1>4, <1>5, RepairColumns DEF Site!Merged

(* Rows with another job, which is not finished by that. *)
LEMMA OneJob ==
    ASSUME NEW rows \in RepairRows, NEW j \in Tickets, NEW row \in JobRow
    PROVE  LET new == [rows EXCEPT !.job[j] = row]
           IN  /\ new \in RepairRows /\ new.vendor = rows.vendor
               /\ new.job = [rows.job EXCEPT ![j] = row]
               /\ /\ Counted(rows) /\ row.cost = rows.job[j].cost
                  /\ row.cost =>
                        /\ row.status \in Billable
                        /\ row.vendor = rows.job[j].vendor /\ row.done = rows.job[j].done
                  => Counted(new) /\ KeepsFinished(rows, new)
<1> DEFINE new == [rows EXCEPT !.job[j] = row]
<1>1. /\ new \in RepairRows /\ new.vendor = rows.vendor
      /\ new.job = [rows.job EXCEPT ![j] = row]
  BY DEF RepairRows
<1> HIDE DEF new
<1>2. rows.job \in [Tickets -> JobRow]
  BY RepairColumns
<1>3. ASSUME Counted(rows), row.cost = rows.job[j].cost,
             row.cost => /\ row.status \in Billable
                         /\ row.vendor = rows.job[j].vendor /\ row.done = rows.job[j].done
      PROVE  Counted(new) /\ KeepsFinished(rows, new)
  <2>1. \A v : FinishedBy(new, v) = FinishedBy(rows, v)
    BY <1>1, <1>2, <1>3 DEF FinishedBy
  <2>2. QED
    BY <1>1, <1>2, <1>3, <2>1 DEF Counted, KeepsFinished
<1>4. QED
  BY <1>1, <1>3 DEF new

(* assert_transition lets no finished job become unfinished. *)
LEMMA Turns ==
    ASSUME repairs \in RepairRows, NEW j \in Tickets, NEW target \in DOMAIN Leaves
    PROVE  LET new == Turned(repairs, j, target)
           IN  /\ new \in RepairRows /\ new.vendor = repairs.vendor
               /\ new.job[j] = [repairs.job[j] EXCEPT !.status = target]
               /\ \A i \in Tickets : i # j => new.job[i] = repairs.job[i]
               /\ Counted(repairs) /\ (MayTurn(j, target) \/ ~repairs.job[j].cost) =>
                    Counted(new) /\ KeepsFinished(repairs, new)
               /\ \A rest : target \notin Billable \/ repairs.job[j].cost \/ ToRecord(rest, j) =>
                    LeavesCosts(rest, repairs, new)
<1> DEFINE row == [repairs.job[j] EXCEPT !.status = target]
           new == Turned(repairs, j, target)
<1>1. repairs.job[j] \in JobRow /\ repairs.job \in [Tickets -> JobRow]
  BY RepairColumns
<1>2. /\ row \in JobRow /\ row.status = target /\ row.cost = repairs.job[j].cost
      /\ row.vendor = repairs.job[j].vendor /\ row.done = repairs.job[j].done
  BY <1>1 DEF JobRow
<1>3. Counted(repairs) /\ MayTurn(j, target) /\ row.cost => target \in Billable
  <2>1. Leaves["COMPLETED"] = {"CLOSED"} /\ Leaves["CLOSED"] = {}
    BY DEF Leaves
  <2>2. QED
    BY <1>2, <2>1 DEF Counted, MayTurn, Ticket, Billable
<1>4. new = [repairs EXCEPT !.job[j] = row]
  BY DEF Turned
<1> HIDE DEF row, new
<1>5. /\ new \in RepairRows /\ new.vendor = repairs.vendor
      /\ new.job = [repairs.job EXCEPT ![j] = row]
      /\ Counted(repairs) /\ (row.cost => target \in Billable) =>
            Counted(new) /\ KeepsFinished(repairs, new)
  BY <1>1, <1>2, <1>4, OneJob
<1>6. /\ new.job[j] = row
      /\ \A i \in Tickets : i # j => new.job[i] = repairs.job[i]
  BY <1>1, <1>5
<1>7. Counted(repairs) /\ (MayTurn(j, target) \/ ~repairs.job[j].cost) =>
        Counted(new) /\ KeepsFinished(repairs, new)
  BY <1>2, <1>3, <1>5
<1>8. ASSUME NEW rest, target \notin Billable \/ repairs.job[j].cost \/ ToRecord(rest, j)
      PROVE  LeavesCosts(rest, repairs, new)
  BY <1>2, <1>6, <1>8 DEF LeavesCosts, Uncosted
<1>9. QED
  BY <1>5, <1>6, <1>7, <1>8 DEF new, row

(* complete and record_job_result: one more finished job, one more on the
   counter of its vendor *)
LEMMA Finishes ==
    ASSUME repairs \in RepairRows, period \in 1 .. LastMonth, NEW j \in Tickets,
           NEW v, NEW counters \in [Vendors -> VendorRow]
    PROVE  LET new == Finished(repairs, j, v, counters)
           IN  /\ new \in RepairRows /\ new.job[j].cost
               /\ \A i \in Tickets : i # j => new.job[i] = repairs.job[i]
               /\ Counted(repairs) /\ ~repairs.job[j].cost /\ repairs.job[j].vendor = v
                  /\ counters = repairs.vendor =>
                    Counted(new) /\ KeepsFinished(repairs, new)
<1> DEFINE row == [repairs.job[j] EXCEPT !.status = "COMPLETED", !.cost = TRUE, !.done = period]
           vendor == [x \in Vendors |->
                IF x = v THEN [repairs.vendor[x] EXCEPT !.jobs = counters[x].jobs + 1]
                ELSE repairs.vendor[x]]
           new == Finished(repairs, j, v, counters)
<1>1. /\ repairs.job[j] \in JobRow /\ repairs.job \in [Tickets -> JobRow]
      /\ repairs.vendor \in [Vendors -> VendorRow]
  BY RepairColumns
<1>2. /\ row \in JobRow /\ row.status = "COMPLETED" /\ row.cost
      /\ row.vendor = repairs.job[j].vendor
  <2>1. "COMPLETED" \in DOMAIN Leaves /\ period \in 0 .. LastMonth
    BY MaintenanceAssumption DEF Leaves
  <2>2. QED
    BY <1>1, <2>1 DEF JobRow
<1>3. vendor \in [Vendors -> VendorRow]
  BY <1>1 DEF VendorRow
<1>4. new = [repairs EXCEPT !.job[j] = row, !.vendor = vendor]
  BY DEF Finished
<1> HIDE DEF row, new
<1>5. /\ new \in RepairRows /\ new.job = [repairs.job EXCEPT ![j] = row] /\ new.vendor = vendor
  BY <1>2, <1>3, <1>4 DEF RepairRows
<1>6. new.job[j] = row /\ \A i \in Tickets : i # j => new.job[i] = repairs.job[i]
  BY <1>1, <1>5
<1>7. ASSUME Counted(repairs), ~repairs.job[j].cost, repairs.job[j].vendor = v,
             counters = repairs.vendor
      PROVE  Counted(new) /\ KeepsFinished(repairs, new)
  <2>1. \A x \in Vendors : x # v => FinishedBy(new, x) = FinishedBy(repairs, x)
    BY <1>1, <1>2, <1>5, <1>7 DEF FinishedBy
  <2>2. FinishedBy(new, v) = FinishedBy(repairs, v) \cup {j} /\ j \notin FinishedBy(repairs, v)
    BY <1>1, <1>2, <1>5, <1>7 DEF FinishedBy
  <2>3. IsFiniteSet(FinishedBy(repairs, v))
    <3>1. FinishedBy(repairs, v) \subseteq Tickets /\ IsFiniteSet(Tickets)
      BY MaintenanceAssumption DEF FinishedBy
    <3>2. QED
      BY <3>1, FS_Subset
  <2>4. Cardinality(FinishedBy(new, v)) = Cardinality(FinishedBy(repairs, v)) + 1
    BY <2>2, <2>3, FS_AddElement
  <2>5. \A x \in Vendors : vendor[x].jobs =
            IF x = v THEN repairs.vendor[x].jobs + 1 ELSE repairs.vendor[x].jobs
    BY <1>1, <1>7 DEF VendorRow
  <2> HIDE DEF vendor
  <2>6. \A x \in Vendors : new.vendor[x].jobs = Cardinality(FinishedBy(new, x))
    BY <1>5, <1>7, <2>1, <2>4, <2>5 DEF Counted
  <2>7. QED
    BY <1>2, <1>6, <1>7, <2>6 DEF Counted, KeepsFinished, Billable
<1>8. QED
  BY <1>2, <1>5, <1>6, <1>7 DEF new

-----------------------------------------------------------------------------
(* The inductive invariant of Maintenance *)

LEMMA MaintenanceInitIInv == MaintenanceInit => MaintenanceIInv
<1> SUFFICES ASSUME MaintenanceInit PROVE MaintenanceIInv
  OBVIOUS
<1>1. Unreported \in JobRow /\ [active |-> TRUE, jobs |-> 0] \in VendorRow
  BY MaintenanceAssumption DEF Unreported, JobRow, VendorRow
<1>2. /\ repairs \in RepairRows
      /\ \A j \in Tickets : repairs.job[j] = Unreported
      /\ \A v \in Vendors : repairs.vendor[v].jobs = 0
  BY <1>1 DEF MaintenanceInit, RepairRows
<1>3. MaintenanceTypes
  BY <1>2, MaintenanceAssumption DEF MaintenanceInit, MaintenanceTypes, ErrandTypes, Site!Idle
<1>4. Counted(repairs)
  <2>1. \A v \in Vendors : FinishedBy(repairs, v) = {}
    BY <1>2 DEF FinishedBy, Unreported
  <2>2. QED
    BY <1>2, <2>1, FS_EmptySet DEF Counted, Unreported
<1>5. ChargedWhenDone /\ CostsFollow /\ \A c \in Crew : ErrandOK(errand[c])
  BY <1>2 DEF MaintenanceInit, ChargedWhenDone, ErrandOK, Site!Idle, CostsFollow, Uncosted, Billable,
              Unreported
<1>6. QED
  BY <1>3, <1>4, <1>5 DEF MaintenanceIInv

(* What was charged stays charged right over rows that keep what is finished. *)
LEMMA StaysCharged ==
    ASSUME ChargedWhenDone, KeepsFinished(repairs, repairs'), UNCHANGED charged
    PROVE  ChargedWhenDone'
BY DEF ChargedWhenDone, KeepsFinished

(* A handler reads, and prepares its first commit. *)
LEMMA ErrandBegins ==
    ASSUME MaintenanceIInv, NEW c \in Crew, NEW new \in RepairRows, NEW rest \in SUBSET Chores,
           Site!PreparesOne(c, new, rest), UNCHANGED <<period, charged, raced, cut>>, redone => redone',
           LeavesCosts(rest, repairs, new),
           Calm' /\ Counted(repairs) =>
                Counted(new) /\ KeepsFinished(repairs, new) /\ LeftOver(rest, new)
    PROVE  MaintenanceIInv'
<1> DEFINE w == Site!Ready(repairs, new, rest)
<1>1. errand' = [errand EXCEPT ![c] = w] /\ UNCHANGED repairs /\ errand[c].at = "idle"
  BY DEF Site!PreparesOne, Site!Begins
<1>2. /\ w.at = "ready" /\ w.seen = repairs /\ w.was = repairs /\ w.is = new /\ w.rest = rest
  BY DEF Site!Ready
<1> HIDE DEF w
<1>3. MaintenanceTypes'
  BY <1>1, <1>2 DEF MaintenanceIInv, MaintenanceTypes, ErrandTypes
<1>4. ASSUME Calm'
      PROVE  /\ Counted(repairs') /\ ChargedWhenDone' /\ CostsFollow'
             /\ \A d \in Crew : ErrandOK(errand'[d])
  <2>1. /\ Counted(repairs) /\ ChargedWhenDone /\ CostsFollow
        /\ \A d \in Crew : ErrandOK(errand[d])
    BY <1>4 DEF MaintenanceIInv, Calm
  <2>2. ErrandOK(w)
    BY <1>2, <1>4, <2>1 DEF ErrandOK
  <2>3. ChargedWhenDone'
    BY <1>1, <2>1 DEF ChargedWhenDone
  <2>4. CostsFollow'
    <3>1. \A d \in Crew, j \in Tickets : Recording(errand[d], j) => Recording(errand'[d], j)
      BY <1>1 DEF Recording, MaintenanceIInv, MaintenanceTypes
    <3>2. QED
      BY <1>1, <2>1, <3>1 DEF CostsFollow, Uncosted
  <2>5. QED
    BY <1>1, <2>1, <2>2, <2>3, <2>4 DEF MaintenanceIInv, MaintenanceTypes
<1>5. QED
  BY <1>3, <1>4 DEF MaintenanceIInv

(* One session commits, or is done. *)
LEMMA ErrandGoesOn ==
    ASSUME MaintenanceIInv, NEW c \in Crew, NEW w, ErrandTypes(w),
           errand' = [errand EXCEPT ![c] = w], repairs' \in RepairRows,
           UNCHANGED <<period, charged>>, raced => raced', redone => redone',
           cut \subseteq cut', cut' \subseteq Tickets,
           Calm' /\ Counted(repairs) /\ ErrandOK(errand[c]) =>
                /\ Counted(repairs') /\ KeepsFinished(repairs, repairs') /\ ErrandOK(w)
                /\ HandsOver(errand[c], w)
    PROVE  MaintenanceIInv'
<1>1. MaintenanceTypes'
  BY DEF MaintenanceIInv, MaintenanceTypes
<1>2. ASSUME Calm'
      PROVE  /\ Counted(repairs') /\ ChargedWhenDone' /\ CostsFollow'
             /\ \A d \in Crew : ErrandOK(errand'[d])
  <2>1. /\ Counted(repairs) /\ ChargedWhenDone /\ CostsFollow
        /\ \A d \in Crew : ErrandOK(errand[d])
    BY <1>2 DEF MaintenanceIInv, Calm
  <2>2. /\ Counted(repairs') /\ KeepsFinished(repairs, repairs') /\ ErrandOK(w)
        /\ HandsOver(errand[c], w)
    BY <1>2, <2>1
  <2>3. ChargedWhenDone'
    BY <2>1, <2>2, StaysCharged
  <2>4. CostsFollow'
    <3>1. errand'[c] = w /\ \A d \in Crew \ {c} : errand'[d] = errand[d]
      BY DEF MaintenanceIInv, MaintenanceTypes
    <3>2. ASSUME NEW j \in Tickets, Uncosted(repairs', j)
          PROVE  j \in cut' \/ \E d \in Crew : Recording(errand'[d], j)
      <4>1. CASE Uncosted(repairs, j) /\ ~Recording(errand[c], j)
        BY <2>1, <3>1, <4>1 DEF CostsFollow
      <4>2. CASE j \in cut' \/ Recording(w, j)
        BY <3>1, <4>2
      <4>3. QED
        BY <2>2, <3>2, <4>1, <4>2 DEF HandsOver
    <3>3. QED
      BY <3>2 DEF CostsFollow, Uncosted, Recording
  <2>5. QED
    BY <2>1, <2>2, <2>3, <2>4 DEF MaintenanceIInv, MaintenanceTypes
<1>3. QED
  BY <1>1, <1>2 DEF MaintenanceIInv

LEMMA SaveRepairIInv ==
    ASSUME MaintenanceIInv, NEW c \in Crew, SaveRepair(c)
    PROVE  MaintenanceIInv'
<1> DEFINE w == IF errand[c].rest = {} THEN Site!Idle
                ELSE Site!Between(IF errand[c].seen = repairs THEN repairs' ELSE errand[c].seen,
                                  errand[c].rest)
<1>1. /\ errand[c].at = "ready" /\ repairs' = Site!Merged(errand[c].was, errand[c].is, repairs)
      /\ errand' = [errand EXCEPT ![c] = w]
      /\ raced' = (raced \/ errand[c].seen # repairs)
      /\ UNCHANGED <<period, charged, redone, cut>> /\ cut \subseteq Tickets
  BY DEF SaveRepair, Site!Saves, MaintenanceIInv, MaintenanceTypes
<1>2. /\ errand[c].was \in RepairRows /\ errand[c].is \in RepairRows /\ repairs \in RepairRows
      /\ errand[c].seen = errand[c].was /\ errand[c].rest \subseteq Chores
  BY <1>1 DEF MaintenanceIInv, MaintenanceTypes, ErrandTypes
<1>3. repairs' \in RepairRows
  BY <1>1, <1>2, MergedRepairs
<1>4. ErrandTypes(w)
  BY <1>2, <1>3 DEF ErrandTypes, Site!Idle, Site!Between
<1>5. ASSUME Calm', ErrandOK(errand[c])
      PROVE  /\ Counted(repairs') /\ KeepsFinished(repairs, repairs') /\ ErrandOK(w)
             /\ HandsOver(errand[c], w)
  <2>1. errand[c].seen = repairs
    BY <1>1, <1>5 DEF Calm
  <2>2. repairs' = errand[c].is
    BY <1>1, <1>2, <2>1, SavesThePreparedRepairs
  <2>3. Counted(repairs') /\ KeepsFinished(repairs, repairs') /\ ErrandOK(w)
    BY <1>1, <1>2, <1>5, <2>1, <2>2 DEF ErrandOK, Site!Idle, Site!Between
  <2>4. LeavesCosts(errand[c].rest, repairs, repairs')
    BY <1>1, <1>2, <1>5, <2>1, <2>2 DEF ErrandOK
  <2>5. \A j : ToRecord(errand[c].rest, j) => Recording(w, j)
    BY DEF ToRecord, Recording, Site!Between
  <2>6. HandsOver(errand[c], w)
    BY <1>1, <2>4, <2>5 DEF HandsOver, LeavesCosts, Recording
  <2>7. QED
    BY <2>3, <2>6
<1> HIDE DEF w
<1>6. QED
  BY <1>1, <1>3, <1>4, <1>5, ErrandGoesOn

LEMMA DropRepairIInv ==
    ASSUME MaintenanceIInv, NEW c \in Crew, DropRepair(c)
    PROVE  MaintenanceIInv'
<1>1. /\ errand' = [errand EXCEPT ![c] = Site!Idle]
      /\ UNCHANGED <<repairs, period, charged, raced, redone>>
      /\ cut' = cut \cup {j \in Tickets : Completing(c, j)} /\ cut \subseteq Tickets
  BY DEF DropRepair, Site!Drops, MaintenanceIInv, MaintenanceTypes
<1>2. /\ ErrandTypes(Site!Idle) /\ ErrandOK(Site!Idle) /\ KeepsFinished(repairs, repairs)
      /\ repairs \in RepairRows
  BY DEF ErrandTypes, ErrandOK, Site!Idle, KeepsFinished, MaintenanceIInv, MaintenanceTypes
<1>3. HandsOver(errand[c], Site!Idle)
  <2>1. \A j \in Tickets : Recording(errand[c], j) => j \in cut'
    BY <1>1 DEF Recording, ToRecord, Completing
  <2>2. QED
    BY <1>1, <2>1 DEF HandsOver, Uncosted
<1>4. cut \subseteq cut' /\ cut' \subseteq Tickets
  BY <1>1
<1>5. Counted(repairs) => Counted(repairs')
  BY <1>1 DEF Counted, FinishedBy
<1>6. KeepsFinished(repairs, repairs') /\ repairs' \in RepairRows
  BY <1>1, <1>2
<1>7. QED
  BY <1>1, <1>2, <1>3, <1>4, <1>5, <1>6, ErrandGoesOn

(* the second transaction of a handler *)
LEMMA GoOnIInv ==
    ASSUME MaintenanceIInv, NEW c \in Crew, GoOn(c)
    PROVE  MaintenanceIInv'
<1>1. /\ errand[c].at = "between" /\ raced' = (raced \/ errand[c].seen # repairs)
      /\ UNCHANGED <<period, charged, redone, cut>> /\ cut \subseteq Tickets
  BY DEF GoOn, MaintenanceIInv, MaintenanceTypes
<1>2. /\ repairs \in RepairRows /\ errand[c].seen \in RepairRows /\ period \in 1 .. LastMonth
      /\ repairs.job \in [Tickets -> JobRow]
      /\ errand[c].seen.vendor \in [Vendors -> VendorRow]
  BY <1>1 DEF MaintenanceIInv, MaintenanceTypes, ErrandTypes, RepairRows
<1>3. Calm' => errand[c].seen = repairs
  BY <1>1 DEF Calm
<1>4. ErrandOK(errand[c]) => LeftOver(errand[c].rest, errand[c].seen)
  BY <1>1 DEF ErrandOK
<1>5. ErrandTypes(Site!Idle) /\ ErrandOK(Site!Idle)
  BY DEF ErrandTypes, ErrandOK, Site!Idle
<1>6. ASSUME NEW j \in Tickets, NEW v \in Vendors, GoOnAssigning(c, j, v)
      PROVE  MaintenanceIInv'
  <2> DEFINE new == Turned(repairs, j, "ASSIGNED")
             rest == {<<"vendor", j, v>>}
             w == Site!Between(IF errand[c].seen = repairs THEN new ELSE errand[c].seen, rest)
  <2>1. /\ errand[c].rest = {<<"assign", j, v>>}
        /\ repairs' = new /\ errand' = [errand EXCEPT ![c] = w]
    BY <1>6 DEF GoOnAssigning, Site!Steps
  <2>2. /\ new \in RepairRows /\ new.job[j] = [repairs.job[j] EXCEPT !.status = "ASSIGNED"]
        /\ Counted(repairs) /\ ~repairs.job[j].cost => Counted(new) /\ KeepsFinished(repairs, new)
        /\ LeavesCosts({}, repairs, new)
    <3>1. "ASSIGNED" \in DOMAIN Leaves /\ "ASSIGNED" \notin Billable
      BY DEF Leaves, Billable
    <3>2. QED
      BY <1>2, <3>1, Turns
  <2>3. new.job[j].status = "ASSIGNED"
    BY <1>2, <2>2 DEF JobRow
  <2> HIDE DEF new
  <2>4. ErrandTypes(w)
    BY <1>2, <2>2 DEF ErrandTypes, Site!Between, Chores
  <2>5. ASSUME Calm', Counted(repairs), ErrandOK(errand[c])
        PROVE  Counted(new) /\ KeepsFinished(repairs, new) /\ ErrandOK(w)
    <3>0. <<"assign", j, v>> \in errand[c].rest
      BY <2>1
    <3>1. repairs.job[j].status = "APPROVED"
      BY <3>0, <1>3, <1>4, <2>1, <2>5 DEF LeftOver
    <3>2. ~repairs.job[j].cost
      BY <2>5, <3>1 DEF Counted, Billable
    <3>3. LeftOver(rest, new)
      BY <2>3 DEF LeftOver
    <3>4. QED
      BY <1>3, <2>2, <2>5, <3>2, <3>3 DEF ErrandOK, Site!Between
  <2>6. HandsOver(errand[c], w)
    <3>1. \A i : ~ToRecord(errand[c].rest, i) /\ ~ToRecord({}, i)
      BY <2>1 DEF ToRecord
    <3>2. QED
      BY <2>1, <2>2, <3>1 DEF HandsOver, LeavesCosts, Recording
  <2> HIDE DEF w
  <2>7. QED
    BY <1>1, <2>1, <2>2, <2>4, <2>5, <2>6, ErrandGoesOn
<1>7. ASSUME NEW j \in Tickets, NEW v \in Vendors, GoOnWithVendor(c, j, v)
      PROVE  MaintenanceIInv'
  <2> DEFINE row == [repairs.job[j] EXCEPT !.vendor = v]
             new == [repairs EXCEPT !.job[j] = row]
  <2>1. /\ errand[c].rest = {<<"vendor", j, v>>}
        /\ repairs' = new /\ errand' = [errand EXCEPT ![c] = Site!Idle]
    BY <1>7 DEF GoOnWithVendor, Site!Steps
  <2>2. row \in JobRow /\ row.cost = repairs.job[j].cost /\ row.status = repairs.job[j].status
    BY <1>2 DEF JobRow
  <2> HIDE DEF row
  <2>3. /\ new \in RepairRows /\ new.job = [repairs.job EXCEPT ![j] = row]
        /\ Counted(repairs) /\ ~repairs.job[j].cost => Counted(new) /\ KeepsFinished(repairs, new)
    BY <1>2, <2>2, OneJob
  <2> HIDE DEF new
  <2>4. ASSUME Calm', Counted(repairs), ErrandOK(errand[c])
        PROVE  Counted(new) /\ KeepsFinished(repairs, new)
    <3>0. <<"vendor", j, v>> \in errand[c].rest
      BY <2>1
    <3>1. repairs.job[j].status = "ASSIGNED"
      BY <3>0, <1>3, <1>4, <2>1, <2>4 DEF LeftOver
    <3>2. QED
      BY <2>3, <2>4, <3>1 DEF Counted, Billable
  <2>5. HandsOver(errand[c], Site!Idle)
    <3>1. \A i : ~ToRecord(errand[c].rest, i)
      BY <2>1 DEF ToRecord
    <3>2. \A i \in Tickets : Uncosted(new, i) => Uncosted(repairs, i)
      BY <1>2, <2>2, <2>3 DEF Uncosted
    <3>3. QED
      BY <2>1, <3>1, <3>2 DEF HandsOver, Recording
  <2>6. QED
    BY <1>1, <1>5, <2>1, <2>3, <2>4, <2>5, ErrandGoesOn
<1>8. ASSUME NEW j \in Tickets, NEW v \in Vendors \cup {NoVendor}, GoOnCompleting(c, j, v)
      PROVE  MaintenanceIInv'
  <2> DEFINE new == Finished(repairs, j, v, errand[c].seen.vendor)
  <2>1. /\ errand[c].rest = {<<"complete", j, v>>}
        /\ repairs' = new /\ errand' = [errand EXCEPT ![c] = Site!Idle]
    BY <1>8 DEF GoOnCompleting, Site!Steps
  <2>2. /\ new \in RepairRows /\ new.job[j].cost
        /\ \A i \in Tickets : i # j => new.job[i] = repairs.job[i]
        /\ Counted(repairs) /\ ~repairs.job[j].cost /\ repairs.job[j].vendor = v
           /\ errand[c].seen.vendor = repairs.vendor =>
                Counted(new) /\ KeepsFinished(repairs, new)
    BY <1>2, Finishes
  <2> HIDE DEF new
  <2>3. ASSUME Calm', Counted(repairs), ErrandOK(errand[c])
        PROVE  Counted(new) /\ KeepsFinished(repairs, new)
    <3>0. <<"complete", j, v>> \in errand[c].rest
      BY <2>1
    <3>1. repairs.job[j].vendor = v /\ ~repairs.job[j].cost
      BY <3>0, <1>3, <1>4, <2>1, <2>3 DEF LeftOver
    <3>2. QED
      BY <1>3, <2>2, <2>3, <3>1
  <2>4. HandsOver(errand[c], Site!Idle)
    <3>1. \A i : ToRecord(errand[c].rest, i) => i = j
      BY <2>1 DEF ToRecord
    <3>2. \A i \in Tickets : Uncosted(new, i) => Uncosted(repairs, i) /\ i # j
      BY <2>2 DEF Uncosted
    <3>3. QED
      BY <2>1, <3>1, <3>2 DEF HandsOver, Recording
  <2>5. QED
    BY <1>1, <1>5, <2>1, <2>2, <2>3, <2>4, ErrandGoesOn
<1>9. QED
  BY <1>6, <1>7, <1>8 DEF GoOn

(* A finished job turns to nothing but finished. *)
LEMMA MayTurnUnfinished ==
    ASSUME Counted(repairs), NEW j \in Tickets,
           MayTurn(j, "APPROVED") \/ MayTurn(j, "ASSIGNED")
    PROVE  ~repairs.job[j].cost
<1>1. Leaves["COMPLETED"] = {"CLOSED"} /\ Leaves["CLOSED"] = {}
  BY DEF Leaves
<1>2. QED
  BY <1>1 DEF Counted, MayTurn, Ticket, Billable

(* A vendor is put on a job that is not finished. *)
LEMMA Gives ==
    ASSUME repairs \in RepairRows, NEW j \in Tickets, NEW v \in Vendors
    PROVE  /\ Given(repairs, j, v) \in RepairRows
           /\ Counted(repairs) /\ ~repairs.job[j].cost =>
                Counted(Given(repairs, j, v)) /\ KeepsFinished(repairs, Given(repairs, j, v))
           /\ LeavesCosts({}, repairs, Given(repairs, j, v))
<1> DEFINE turned == Turned(repairs, j, "ASSIGNED")
           row == [turned.job[j] EXCEPT !.vendor = v]
           new == [turned EXCEPT !.job[j] = row]
<1>1. "ASSIGNED" \in DOMAIN Leaves /\ "ASSIGNED" \notin Billable
  BY DEF Leaves, Billable
<1>2. /\ turned \in RepairRows /\ turned.job[j] = [repairs.job[j] EXCEPT !.status = "ASSIGNED"]
      /\ Counted(repairs) /\ ~repairs.job[j].cost =>
            Counted(turned) /\ KeepsFinished(repairs, turned)
      /\ LeavesCosts({}, repairs, turned)
  BY <1>1, Turns
<1>3. Given(repairs, j, v) = new
  BY DEF Given
<1> HIDE DEF turned
<1>4. turned.job[j] \in JobRow /\ repairs.job[j] \in JobRow
  BY <1>2, RepairColumns
<1>5. /\ row \in JobRow /\ row.cost = turned.job[j].cost /\ row.cost = repairs.job[j].cost
      /\ row.status = turned.job[j].status
  BY <1>2, <1>4 DEF JobRow
<1> HIDE DEF row
<1>6. /\ new \in RepairRows
      /\ Counted(turned) /\ ~row.cost => Counted(new) /\ KeepsFinished(turned, new)
  BY <1>2, <1>5, OneJob
<1>9. new.job = [turned.job EXCEPT ![j] = row]
  BY <1>2, <1>5 DEF RepairRows
<1> HIDE DEF new
<1>7. KeepsFinished(repairs, turned) /\ KeepsFinished(turned, new) => KeepsFinished(repairs, new)
  BY DEF KeepsFinished
<1>8. LeavesCosts({}, repairs, new)
  <2>1. turned.job \in [Tickets -> JobRow]
    BY <1>2, RepairColumns
  <2>2. \A i \in Tickets : Uncosted(new, i) => Uncosted(turned, i)
    BY <1>5, <1>9, <2>1 DEF Uncosted
  <2>3. QED
    BY <1>2, <2>2 DEF LeavesCosts
<1>10. QED
  BY <1>2, <1>3, <1>5, <1>6, <1>7, <1>8

LEMMA ReportJobIInv ==
    ASSUME MaintenanceIInv, NEW c \in Crew, NEW j \in Tickets, ReportJob(c, j)
    PROVE  MaintenanceIInv'
<1> DEFINE new == Turned(repairs, j, "SUBMITTED")
<1>1. /\ repairs.job[j] = Unreported /\ Site!PreparesOne(c, new, {})
      /\ UNCHANGED <<period, charged, raced, redone, cut>> /\ repairs \in RepairRows
  BY DEF ReportJob, Site!Fresh, Site!Prepares, Unmoved, MaintenanceIInv, MaintenanceTypes
<1>2. "SUBMITTED" \in DOMAIN Leaves /\ "SUBMITTED" \notin Billable /\ ~repairs.job[j].cost
  BY <1>1 DEF Leaves, Billable, Unreported
<1>3. /\ new \in RepairRows /\ LeavesCosts({}, repairs, new)
      /\ Counted(repairs) => Counted(new) /\ KeepsFinished(repairs, new)
  BY <1>1, <1>2, Turns
<1> HIDE DEF new
<1>4. {} \in SUBSET Chores /\ LeftOver({}, new)
  BY DEF LeftOver
<1>5. QED
  BY <1>1, <1>3, <1>4, ErrandBegins

LEMMA TurnIInv ==
    ASSUME MaintenanceIInv, NEW c \in Crew, NEW j \in Tickets, NEW target \in DOMAIN Leaves,
           Turn(c, j, target), target # "COMPLETED"
    PROVE  MaintenanceIInv'
<1> DEFINE new == Turned(repairs, j, target)
<1>1. /\ MayTurn(j, target) /\ Site!PreparesOne(c, new, {})
      /\ UNCHANGED <<period, charged, raced, redone, cut>> /\ repairs \in RepairRows
      /\ target \notin Billable \/ repairs.job[j].cost
  BY DEF Turn, Ticket, Billable, Site!Prepares, Unmoved, MaintenanceIInv, MaintenanceTypes
<1>2. /\ new \in RepairRows /\ LeavesCosts({}, repairs, new)
      /\ Counted(repairs) => Counted(new) /\ KeepsFinished(repairs, new)
  BY <1>1, Turns
<1> HIDE DEF new
<1>3. {} \in SUBSET Chores /\ LeftOver({}, new)
  BY DEF LeftOver
<1>4. QED
  BY <1>1, <1>2, <1>3, ErrandBegins

LEMMA ApproveJobIInv ==
    ASSUME MaintenanceIInv, NEW c \in Crew, NEW j \in Tickets, NEW v \in Vendors \cup {NoVendor},
           ApproveJob(c, j, v)
    PROVE  MaintenanceIInv'
<1> DEFINE approved == Turned(repairs, j, "APPROVED")
           rest == IF v = NoVendor THEN {} ELSE {<<"assign", j, v>>}
<1>1. /\ MayTurn(j, "APPROVED") /\ repairs \in RepairRows
      /\ UNCHANGED <<period, charged, raced, redone, cut>>
      /\ \/ Site!PreparesOne(c, approved, rest)
         \/ Site!PreparesOne(c, approved, {})
         \/ v # NoVendor /\ Site!PreparesOne(c, Given(repairs, j, v), {})
  BY DEF ApproveJob, Site!Prepares, Unmoved, MaintenanceIInv, MaintenanceTypes
<1>2. /\ approved \in RepairRows
      /\ approved.job[j] = [repairs.job[j] EXCEPT !.status = "APPROVED"]
      /\ Counted(repairs) => Counted(approved) /\ KeepsFinished(repairs, approved)
      /\ \A y : LeavesCosts(y, repairs, approved)
  <2>1. "APPROVED" \in DOMAIN Leaves /\ "APPROVED" \notin Billable
    BY DEF Leaves, Billable
  <2>2. QED
    BY <1>1, <2>1, Turns
<1>3. repairs.job[j] \in JobRow
  BY <1>1, RepairColumns
<1>4. approved.job[j].status = "APPROVED"
  BY <1>2, <1>3 DEF JobRow
<1> HIDE DEF approved
<1>5. /\ {} \in SUBSET Chores /\ rest \in SUBSET Chores
      /\ \A rows : LeftOver({}, rows)
      /\ LeftOver(rest, approved)
  BY <1>4 DEF LeftOver, Chores
<1> HIDE DEF rest
<1>6. CASE Site!PreparesOne(c, approved, rest)
  BY <1>1, <1>2, <1>5, <1>6, ErrandBegins
<1>7. CASE Site!PreparesOne(c, approved, {})
  BY <1>1, <1>2, <1>5, <1>7, ErrandBegins
<1>8. CASE v # NoVendor /\ Site!PreparesOne(c, Given(repairs, j, v), {})
  <2> DEFINE new == Given(repairs, j, v)
  <2>1. /\ new \in RepairRows /\ LeavesCosts({}, repairs, new)
        /\ Counted(repairs) => Counted(new) /\ KeepsFinished(repairs, new)
    BY <1>1, <1>8, Gives, MayTurnUnfinished
  <2>2. Site!PreparesOne(c, new, {})
    BY <1>8
  <2> HIDE DEF new
  <2>3. QED
    BY <1>1, <1>5, <2>1, <2>2, ErrandBegins
<1>9. QED
  BY <1>1, <1>6, <1>7, <1>8

LEMMA AssignVendorIInv ==
    ASSUME MaintenanceIInv, NEW c \in Crew, NEW j \in Tickets, NEW v \in Vendors,
           AssignVendor(c, j, v)
    PROVE  MaintenanceIInv'
<1> DEFINE assigned == Turned(repairs, j, "ASSIGNED")
           given == Given(repairs, j, v)
           rest == {<<"vendor", j, v>>}
<1>1. /\ MayTurn(j, "ASSIGNED") /\ repairs \in RepairRows
      /\ UNCHANGED <<period, charged, raced, redone, cut>>
      /\ Site!PreparesOne(c, assigned, rest) \/ Site!PreparesOne(c, given, {})
  BY DEF AssignVendor, Site!Prepares, Unmoved, MaintenanceIInv, MaintenanceTypes
<1>2. /\ assigned \in RepairRows
      /\ assigned.job[j] = [repairs.job[j] EXCEPT !.status = "ASSIGNED"]
      /\ Counted(repairs) => Counted(assigned) /\ KeepsFinished(repairs, assigned)
      /\ \A y : LeavesCosts(y, repairs, assigned)
  <2>1. "ASSIGNED" \in DOMAIN Leaves /\ "ASSIGNED" \notin Billable
    BY DEF Leaves, Billable
  <2>2. QED
    BY <1>1, <2>1, Turns
<1>3. repairs.job[j] \in JobRow
  BY <1>1, RepairColumns
<1>4. assigned.job[j].status = "ASSIGNED"
  BY <1>2, <1>3 DEF JobRow
<1>5. /\ given \in RepairRows /\ LeavesCosts({}, repairs, given)
      /\ Counted(repairs) => Counted(given) /\ KeepsFinished(repairs, given)
  BY <1>1, Gives, MayTurnUnfinished
<1> HIDE DEF assigned, given
<1>6. /\ {} \in SUBSET Chores /\ rest \in SUBSET Chores
      /\ LeftOver({}, given) /\ LeftOver(rest, assigned)
  BY <1>4 DEF LeftOver, Chores
<1> HIDE DEF rest
<1>7. CASE Site!PreparesOne(c, assigned, rest)
  BY <1>1, <1>2, <1>6, <1>7, ErrandBegins
<1>8. CASE Site!PreparesOne(c, given, {})
  BY <1>1, <1>5, <1>6, <1>8, ErrandBegins
<1>9. QED
  BY <1>1, <1>7, <1>8

LEMMA CompleteJobIInv ==
    ASSUME MaintenanceIInv, NEW c \in Crew, NEW j \in Tickets, CompleteJob(c, j)
    PROVE  MaintenanceIInv'
<1> DEFINE v == repairs.job[j].vendor
           turned == Turned(repairs, j, "COMPLETED")
           finished == Finished(repairs, j, v, repairs.vendor)
           rest == {<<"complete", j, v>>}
<1>1. /\ MayTurn(j, "COMPLETED") /\ repairs \in RepairRows /\ period \in 1 .. LastMonth
      /\ UNCHANGED <<period, charged, raced, cut>> /\ redone' = (redone \/ repairs.job[j].cost)
      /\ Site!PreparesOne(c, turned, rest) \/ Site!PreparesOne(c, finished, {})
  BY DEF CompleteJob, Site!Prepares, Unmoved, Ticket, MaintenanceIInv, MaintenanceTypes
<1>2. /\ turned \in RepairRows
      /\ turned.job[j] = [repairs.job[j] EXCEPT !.status = "COMPLETED"]
      /\ Counted(repairs) => Counted(turned) /\ KeepsFinished(repairs, turned)
      /\ \A y : ToRecord(y, j) => LeavesCosts(y, repairs, turned)
  <2>1. "COMPLETED" \in DOMAIN Leaves
    BY DEF Leaves
  <2>2. QED
    BY <1>1, <2>1, Turns
<1>3. repairs.job[j] \in JobRow /\ repairs.vendor \in [Vendors -> VendorRow]
  BY <1>1, RepairColumns
<1>4. v \in Vendors \cup {NoVendor}
  BY <1>3 DEF JobRow
<1>5. turned.job[j].vendor = v /\ turned.job[j].cost = repairs.job[j].cost
  BY <1>2, <1>3 DEF JobRow
<1>6. /\ finished \in RepairRows /\ finished.job[j].cost
      /\ \A i \in Tickets : i # j => finished.job[i] = repairs.job[i]
      /\ Counted(repairs) /\ ~repairs.job[j].cost =>
            Counted(finished) /\ KeepsFinished(repairs, finished)
  BY <1>1, <1>3, Finishes
<1> HIDE DEF turned, finished, v
<1>13. LeavesCosts({}, repairs, finished)
  BY <1>6 DEF LeavesCosts, Uncosted
<1>14. LeavesCosts(rest, repairs, turned)
  <2>1. ToRecord(rest, j)
    BY <1>4 DEF ToRecord
  <2>2. QED
    BY <1>2, <2>1
<1>7. /\ {} \in SUBSET Chores /\ rest \in SUBSET Chores
      /\ LeftOver({}, finished)
      /\ ~repairs.job[j].cost => LeftOver(rest, turned)
  BY <1>4, <1>5 DEF LeftOver, Chores
<1>8. (redone => redone') /\ (Calm' => ~repairs.job[j].cost)
  BY <1>1 DEF Calm
<1> HIDE DEF rest
<1>9. /\ Calm' /\ Counted(repairs) =>
            Counted(turned) /\ KeepsFinished(repairs, turned) /\ LeftOver(rest, turned)
      /\ Calm' /\ Counted(repairs) =>
            Counted(finished) /\ KeepsFinished(repairs, finished) /\ LeftOver({}, finished)
  BY <1>2, <1>6, <1>7, <1>8
<1>10. CASE Site!PreparesOne(c, turned, rest)
  BY <1>1, <1>2, <1>7, <1>8, <1>9, <1>10, <1>14, ErrandBegins
<1>11. CASE Site!PreparesOne(c, finished, {})
  BY <1>1, <1>6, <1>7, <1>8, <1>9, <1>11, <1>13, ErrandBegins
<1>12. QED
  BY <1>1, <1>10, <1>11

LEMMA SetVendorIInv ==
    ASSUME MaintenanceIInv, NEW c \in Crew, NEW v \in Vendors, NEW active \in BOOLEAN,
           SetVendor(c, v, active)
    PROVE  MaintenanceIInv'
<1> DEFINE new == [repairs EXCEPT !.vendor[v].active = active]
<1>1. /\ Site!PreparesOne(c, new, {}) /\ repairs \in RepairRows
      /\ UNCHANGED <<period, charged, raced, redone, cut>>
  BY DEF SetVendor, Site!Prepares, Unmoved, MaintenanceIInv, MaintenanceTypes
<1>2. repairs.vendor \in [Vendors -> VendorRow]
  BY <1>1, RepairColumns
<1>3. /\ new \in RepairRows /\ new.job = repairs.job
      /\ \A x \in Vendors : new.vendor[x].jobs = repairs.vendor[x].jobs
  BY <1>1, <1>2 DEF RepairRows, VendorRow
<1> HIDE DEF new
<1>4. Counted(repairs) => Counted(new) /\ KeepsFinished(repairs, new)
  <2>1. \A x : FinishedBy(new, x) = FinishedBy(repairs, x)
    BY <1>3 DEF FinishedBy
  <2>2. QED
    BY <1>3, <2>1 DEF Counted, KeepsFinished
<1>5. {} \in SUBSET Chores /\ LeftOver({}, new) /\ LeavesCosts({}, repairs, new)
  BY <1>3 DEF LeftOver, LeavesCosts, Uncosted
<1>6. QED
  BY <1>1, <1>3, <1>4, <1>5, ErrandBegins

LEMMA NextMonthIInv == MaintenanceIInv /\ NextMonth => MaintenanceIInv'
<1> SUFFICES ASSUME MaintenanceIInv, NextMonth PROVE MaintenanceIInv'
  OBVIOUS
<1>1. /\ period < LastMonth /\ period' = period + 1
      /\ UNCHANGED <<repairs, errand, charged, raced, redone, cut>>
  BY DEF NextMonth
<1>2. MaintenanceTypes'
  BY <1>1, MaintenanceAssumption DEF MaintenanceIInv, MaintenanceTypes
<1>3. (ChargedWhenDone => ChargedWhenDone') /\ (CostsFollow => CostsFollow')
  BY <1>1 DEF ChargedWhenDone, CostsFollow, Recording
<1>4. QED
  BY <1>1, <1>2, <1>3 DEF MaintenanceIInv, Calm

(* A disbursement deducts jobs of its own period, and they stay what they are. *)
LEMMA DisburseIInv ==
    ASSUME MaintenanceIInv, NEW from \in 1 .. LastMonth, NEW to \in 1 .. LastMonth,
           Disburse(from, to)
    PROVE  MaintenanceIInv'
<1>1. /\ UNCHANGED <<period, repairs, errand, raced, redone, cut>>
      /\ charged' = [j \in Tickets |->
            IF Deductible(j, from, to) THEN charged[j] \cup {<<from, to>>} ELSE charged[j]]
  BY DEF Disburse
<1>2. MaintenanceTypes'
  BY <1>1 DEF MaintenanceIInv, MaintenanceTypes
<1>3. ASSUME ChargedWhenDone PROVE ChargedWhenDone'
  <2> SUFFICES ASSUME NEW j \in Tickets, NEW p \in charged'[j]
               PROVE  /\ repairs.job[j].cost
                      /\ p[1] <= repairs.job[j].done /\ repairs.job[j].done <= p[2]
    BY <1>1 DEF ChargedWhenDone
  <2>1. CASE p \in charged[j]
    BY <1>3, <2>1 DEF ChargedWhenDone
  <2>2. CASE p = <<from, to>> /\ Deductible(j, from, to)
    <3>1. repairs.job[j].cost /\ repairs.job[j].done \in from .. to
      BY <2>2 DEF Deductible, Ticket
    <3>2. QED
      BY <2>2, <3>1
  <2>3. QED
    BY <1>1, <2>1, <2>2
<1>4. CostsFollow => CostsFollow'
  BY <1>1 DEF CostsFollow, Recording
<1>5. QED
  BY <1>1, <1>2, <1>3, <1>4 DEF MaintenanceIInv, Calm

LEMMA MaintenanceNextIInv ==
    MaintenanceIInv /\ [MaintenanceNext]_maintenanceVars => MaintenanceIInv'
<1>1. ASSUME MaintenanceIInv, MaintenanceNext PROVE MaintenanceIInv'
  <2>1. CASE NextMonth \/ \E from, to \in 1 .. LastMonth : Disburse(from, to)
    BY <1>1, <2>1, NextMonthIInv, DisburseIInv
  <2>2. ASSUME NEW c \in Crew, GoOn(c) \/ SaveRepair(c) \/ DropRepair(c)
        PROVE  MaintenanceIInv'
    BY <1>1, <2>2, GoOnIInv, SaveRepairIInv, DropRepairIInv
  <2>3. ASSUME NEW c \in Crew, NEW v \in Vendors, NEW active \in BOOLEAN, SetVendor(c, v, active)
        PROVE  MaintenanceIInv'
    BY <1>1, <2>3, SetVendorIInv
  <2>4. ASSUME NEW c \in Crew, NEW j \in Tickets, ReportJob(c, j) \/ CompleteJob(c, j)
        PROVE  MaintenanceIInv'
    BY <1>1, <2>4, ReportJobIInv, CompleteJobIInv
  <2>5. ASSUME NEW c \in Crew, NEW j \in Tickets,
               NEW target \in {"UNDER_REVIEW", "REJECTED", "IN_PROGRESS", "CANCELLED", "CLOSED"},
               Turn(c, j, target)
        PROVE  MaintenanceIInv'
    <3>1. target \in DOMAIN Leaves /\ target # "COMPLETED"
      BY DEF Leaves
    <3>2. QED
      BY <1>1, <2>5, <3>1, TurnIInv
  <2>6. ASSUME NEW c \in Crew, NEW j \in Tickets, NEW v \in Vendors, AssignVendor(c, j, v)
        PROVE  MaintenanceIInv'
    BY <1>1, <2>6, AssignVendorIInv
  <2>7. ASSUME NEW c \in Crew, NEW j \in Tickets, NEW v \in Vendors \cup {NoVendor},
               ApproveJob(c, j, v)
        PROVE  MaintenanceIInv'
    BY <1>1, <2>7, ApproveJobIInv
  <2>8. QED
    BY <1>1, <2>1, <2>2, <2>3, <2>4, <2>5, <2>6, <2>7 DEF MaintenanceNext
<1>2. ASSUME MaintenanceIInv, UNCHANGED maintenanceVars PROVE MaintenanceIInv'
  <2>1. UNCHANGED <<period, repairs, errand, charged, raced, redone, cut>>
    BY <1>2 DEF maintenanceVars
  <2>2. MaintenanceTypes' /\ ChargedWhenDone' = ChargedWhenDone
    BY <1>2, <2>1 DEF MaintenanceIInv, MaintenanceTypes, ChargedWhenDone
  <2>3. CostsFollow => CostsFollow'
    BY <2>1 DEF CostsFollow, Recording
  <2>4. QED
    BY <1>2, <2>1, <2>2, <2>3 DEF MaintenanceIInv, Calm
<1>3. QED
  BY <1>1, <1>2

LEMMA MaintenanceInvariance == MaintenanceSpec => []MaintenanceIInv
BY MaintenanceInitIInv, MaintenanceNextIInv, PTL DEF MaintenanceSpec

(* maintenance_service.py:494 and agency_service.py:300-316.  The counter of a
   vendor is the number of the jobs he finished, but for those whose completion is
   between its two transactions or ended there; and the owner pays for a job on
   disbursements whose periods overlap only: for every number of jobs, vendors
   and requests in flight, as long as no request committed over rows that had
   changed and no finished job was completed again. *)
THEOREM FinishedJobsAreCountedOnce == MaintenanceSpec => []FinishedJobsCountOnce
<1>1. MaintenanceIInv => FinishedJobsCountOnce
  <2> SUFFICES ASSUME MaintenanceIInv, Calm
               PROVE  /\ \A v \in Vendors : repairs.vendor[v].jobs =
                            Cardinality({j \in JobsFinished(v) : ~Unrecorded(j)})
                      /\ \A j \in Tickets : \A p, q \in charged[j] : Overlapping(p, q)
    BY DEF FinishedJobsCountOnce, Calm
  <2>1. Counted(repairs) /\ ChargedWhenDone /\ CostsFollow
    BY DEF MaintenanceIInv
  <2>2. \A j \in Tickets : Uncosted(repairs, j) => Unrecorded(j)
    BY <2>1 DEF CostsFollow, Uncosted, Unrecorded, Recording, ToRecord, Completing, Ticket
  <2>3. ASSUME NEW v \in Vendors
        PROVE  {j \in JobsFinished(v) : ~Unrecorded(j)} = FinishedBy(repairs, v)
    <3>1. \A j \in Tickets : repairs.job[j].cost => repairs.job[j].status \in Billable /\ ~Unrecorded(j)
      BY <2>1 DEF Counted, Unrecorded, Ticket
    <3>2. \A j \in Tickets : repairs.job[j].status \in Billable /\ ~Unrecorded(j) => repairs.job[j].cost
      BY <2>2 DEF Uncosted
    <3>3. QED
      BY <3>1, <3>2 DEF JobsFinished, FinishedBy, Ticket
  <2>4. \A v \in Vendors : repairs.vendor[v].jobs =
            Cardinality({j \in JobsFinished(v) : ~Unrecorded(j)})
    BY <2>1, <2>3 DEF Counted
  <2>5. ASSUME NEW j \in Tickets, NEW p \in charged[j], NEW q \in charged[j]
        PROVE  Overlapping(p, q)
    <3>1. /\ p[1] \in Int /\ p[2] \in Int /\ q[1] \in Int /\ q[2] \in Int
          /\ repairs.job[j].done \in Int
      BY RepairColumns, MaintenanceAssumption DEF MaintenanceIInv, MaintenanceTypes, JobRow
    <3>2. QED
      BY <2>1, <3>1 DEF ChargedWhenDone, Overlapping
  <2>6. QED
    BY <2>4, <2>5
<1>2. QED
  BY <1>1, MaintenanceInvariance, PTL

-----------------------------------------------------------------------------
(* The types.  The counter of a vendor is at most the number of requests that have
   begun, and lower in the rows that a request still has to complete a job over. *)

JobsUpTo(rows, n) == \A v \in Vendors : rows.vendor[v].jobs <= n

(* what the rows of a session with this left to do may count, after n requests *)
Allowance(rest, n) == IF \E t \in rest : t[1] = "complete" THEN n - 1 ELSE n

ErrandBound(w, n) ==
    /\ w.at = "ready" =>
        JobsUpTo(w.was, Allowance(w.rest, n)) /\ JobsUpTo(w.is, Allowance(w.rest, n))
    /\ w.at = "between" => JobsUpTo(w.seen, Allowance(w.rest, n))

MaintenanceBounds ==
    /\ hooked \in BOOLEAN /\ raced \in BOOLEAN /\ redone \in BOOLEAN
    /\ errands \in 0 .. MaxErrands
    /\ JobsUpTo(repairs, errands)
    /\ \A c \in Crew : ErrandBound(errand[c], errands)

LEMMA MaintenanceStartsBounded == MaintenanceInit => MaintenanceBounds
<1> SUFFICES ASSUME MaintenanceInit PROVE MaintenanceBounds
  OBVIOUS
<1>1. errands \in 0 .. MaxErrands
  BY MaintenanceAssumption DEF MaintenanceInit
<1>2. JobsUpTo(repairs, errands)
  BY DEF MaintenanceInit, JobsUpTo
<1>3. \A c \in Crew : ErrandBound(errand[c], errands)
  BY DEF MaintenanceInit, ErrandBound, Site!Idle
<1>4. QED
  BY <1>1, <1>2, <1>3 DEF MaintenanceInit, MaintenanceBounds

(* More requests allow for more. *)
LEMMA MoreErrands ==
    ASSUME MaintenanceIInv, NEW c \in Crew, NEW n \in Nat, NEW m \in Nat, n <= m,
           ErrandBound(errand[c], n)
    PROVE  ErrandBound(errand[c], m)
<1>1. ASSUME NEW rows \in RepairRows, NEW rest, JobsUpTo(rows, Allowance(rest, n))
      PROVE  JobsUpTo(rows, Allowance(rest, m))
  <2>1. \A v \in Vendors : rows.vendor[v].jobs \in Nat
    BY RepairColumns DEF VendorRow
  <2>2. QED
    BY <1>1, <2>1 DEF JobsUpTo, Allowance
<1>2. ErrandTypes(errand[c])
  BY DEF MaintenanceIInv, MaintenanceTypes
<1>3. QED
  BY <1>1, <1>2 DEF ErrandBound, ErrandTypes

(* A handler reads, and prepares its first commit; when it completes a job, it counts
   it now or has still to count it. *)
LEMMA ErrandBeginsBounded ==
    ASSUME MaintenanceIInv, MaintenanceBounds, NEW c \in Crew, NEW new \in RepairRows,
           NEW rest \in SUBSET Chores, Site!PreparesOne(c, new, rest),
           UNCHANGED <<hooked, raced>>, redone' \in BOOLEAN,
           \A v \in Vendors :
                \/ new.vendor[v].jobs = repairs.vendor[v].jobs
                \/ rest = {} /\ new.vendor[v].jobs = repairs.vendor[v].jobs + 1
    PROVE  MaintenanceBounds'
<1> DEFINE w == Site!Ready(repairs, new, rest)
<1>1. /\ errand' = [errand EXCEPT ![c] = w] /\ UNCHANGED repairs
      /\ errands < MaxErrands /\ errands' = errands + 1
  BY DEF Site!PreparesOne, Site!Begins
<1>2. w.at = "ready" /\ w.was = repairs /\ w.is = new /\ w.rest = rest
  BY DEF Site!Ready
<1> HIDE DEF w
<1>3. errands \in Nat /\ errands' \in Nat /\ errands' \in 0 .. MaxErrands
  BY <1>1, MaintenanceAssumption DEF MaintenanceBounds
<1>4. \A v \in Vendors : repairs.vendor[v].jobs \in Nat /\ repairs.vendor[v].jobs <= errands
  BY RepairColumns DEF MaintenanceIInv, MaintenanceTypes, MaintenanceBounds, JobsUpTo, VendorRow
<1>5. ErrandBound(w, errands')
  BY <1>1, <1>2, <1>3, <1>4 DEF ErrandBound, JobsUpTo, Allowance
<1>6. \A d \in Crew : ErrandBound(errand[d], errands')
  BY <1>1, <1>3, MoreErrands DEF MaintenanceBounds
<1>7. \A d \in Crew : ErrandBound(errand'[d], errands')
  BY <1>1, <1>5, <1>6 DEF MaintenanceIInv, MaintenanceTypes
<1>8. JobsUpTo(repairs', errands')
  BY <1>1, <1>3, <1>4 DEF JobsUpTo
<1>9. QED
  BY <1>3, <1>7, <1>8 DEF MaintenanceBounds

LEMMA ErrandGoesOnBounded ==
    ASSUME MaintenanceIInv, MaintenanceBounds, NEW c \in Crew, NEW w,
           errand' = [errand EXCEPT ![c] = w], ErrandBound(w, errands),
           JobsUpTo(repairs', errands),
           UNCHANGED <<hooked, errands, redone>>, raced' \in BOOLEAN
    PROVE  MaintenanceBounds'
<1>1. \A d \in Crew : ErrandBound(errand'[d], errands)
  BY DEF MaintenanceIInv, MaintenanceTypes, MaintenanceBounds
<1>2. QED
  BY <1>1 DEF MaintenanceBounds

LEMMA MergedCounter ==
    ASSUME NEW was \in RepairRows, NEW is \in RepairRows, NEW now \in RepairRows,
           NEW v \in Vendors
    PROVE  Site!Merged(was, is, now).vendor[v].jobs \in {is.vendor[v].jobs, now.vendor[v].jobs}
<1>1. Site!Merged(was, is, now).vendor[v] =
        Site!MergedRow(was.vendor[v], is.vendor[v], now.vendor[v])
  BY RepairColumns DEF Site!Merged
<1>2. now.vendor[v] \in VendorRow
  BY RepairColumns
<1>3. QED
  BY <1>1, <1>2 DEF Site!MergedRow, VendorRow

LEMMA SaveRepairBounded ==
    ASSUME MaintenanceIInv, MaintenanceBounds, NEW c \in Crew, SaveRepair(c)
    PROVE  MaintenanceBounds'
<1> DEFINE w == IF errand[c].rest = {} THEN Site!Idle
                ELSE Site!Between(IF errand[c].seen = repairs THEN repairs' ELSE errand[c].seen,
                                  errand[c].rest)
           limit == Allowance(errand[c].rest, errands)
<1>1. /\ errand[c].at = "ready" /\ repairs' = Site!Merged(errand[c].was, errand[c].is, repairs)
      /\ errand' = [errand EXCEPT ![c] = w]
      /\ raced' = (raced \/ errand[c].seen # repairs)
      /\ UNCHANGED <<hooked, errands, redone>>
  BY DEF SaveRepair, Site!Saves
<1>2. /\ errand[c].was \in RepairRows /\ errand[c].is \in RepairRows /\ repairs \in RepairRows
      /\ errand[c].seen = errand[c].was
  BY <1>1 DEF MaintenanceIInv, MaintenanceTypes, ErrandTypes
<1>3. JobsUpTo(errand[c].was, limit) /\ JobsUpTo(errand[c].is, limit)
  BY <1>1 DEF MaintenanceBounds, ErrandBound
<1>4. JobsUpTo(repairs', errands)
  <2>1. limit \in {errands, errands - 1} /\ errands \in Nat
    BY DEF Allowance, MaintenanceBounds
  <2>2. \A v \in Vendors : errand[c].is.vendor[v].jobs \in Nat
    BY <1>2, RepairColumns DEF VendorRow
  <2> HIDE DEF limit
  <2>3. \A v \in Vendors : errand[c].is.vendor[v].jobs <= errands
    BY <1>3, <2>1, <2>2 DEF JobsUpTo
  <2>4. \A v \in Vendors : repairs.vendor[v].jobs <= errands
    BY DEF MaintenanceBounds, JobsUpTo
  <2>5. \A v \in Vendors :
            repairs'.vendor[v].jobs \in {errand[c].is.vendor[v].jobs, repairs.vendor[v].jobs}
    BY <1>1, <1>2, MergedCounter
  <2>6. \A v \in Vendors : repairs'.vendor[v].jobs <= errands
    BY <2>3, <2>4, <2>5
  <2>7. QED
    BY <2>6 DEF JobsUpTo
<1>5. errand[c].seen = repairs => repairs' = errand[c].is
  BY <1>1, <1>2, SavesThePreparedRepairs
<1>6. ErrandBound(w, errands)
  BY <1>2, <1>3, <1>5 DEF ErrandBound, Site!Idle, Site!Between
<1>7. raced' \in BOOLEAN
  BY <1>1 DEF MaintenanceBounds
<1> HIDE DEF w
<1>8. QED
  BY <1>1, <1>4, <1>6, <1>7, ErrandGoesOnBounded

LEMMA DropRepairBounded ==
    ASSUME MaintenanceIInv, MaintenanceBounds, NEW c \in Crew, DropRepair(c)
    PROVE  MaintenanceBounds'
<1>1. /\ errand' = [errand EXCEPT ![c] = Site!Idle]
      /\ UNCHANGED <<repairs, errands, hooked, raced, redone>>
  BY DEF DropRepair, Site!Drops
<1>2. ErrandBound(Site!Idle, errands) /\ raced' \in BOOLEAN /\ JobsUpTo(repairs', errands)
  BY <1>1 DEF ErrandBound, Site!Idle, MaintenanceBounds
<1>3. QED
  BY <1>1, <1>2, ErrandGoesOnBounded

LEMMA GoOnBounded ==
    ASSUME MaintenanceIInv, MaintenanceBounds, NEW c \in Crew, GoOn(c)
    PROVE  MaintenanceBounds'
<1>1. /\ errand[c].at = "between" /\ raced' = (raced \/ errand[c].seen # repairs)
      /\ UNCHANGED <<hooked, redone>>
  BY DEF GoOn
<1>2. /\ repairs \in RepairRows /\ errand[c].seen \in RepairRows
      /\ JobsUpTo(repairs, errands) /\ errands \in Nat
      /\ JobsUpTo(errand[c].seen, Allowance(errand[c].rest, errands))
  BY <1>1 DEF MaintenanceIInv, MaintenanceTypes, ErrandTypes, MaintenanceBounds, ErrandBound
<1>3. /\ \A v \in Vendors : repairs.vendor[v].jobs \in Nat /\ repairs.vendor[v].jobs <= errands
      /\ \A v \in Vendors : errand[c].seen.vendor[v].jobs \in Nat
      /\ repairs.vendor \in [Vendors -> VendorRow]
  BY <1>2, RepairColumns DEF JobsUpTo, VendorRow
<1>4. raced' \in BOOLEAN
  BY <1>1 DEF MaintenanceBounds
<1>5. ErrandBound(Site!Idle, errands)
  BY DEF ErrandBound, Site!Idle
<1>6. ASSUME NEW j \in Tickets, NEW v \in Vendors, GoOnAssigning(c, j, v)
      PROVE  MaintenanceBounds'
  <2> DEFINE new == Turned(repairs, j, "ASSIGNED")
             rest == {<<"vendor", j, v>>}
             seen == IF errand[c].seen = repairs THEN new ELSE errand[c].seen
             w == Site!Between(seen, rest)
  <2>1. /\ errand[c].rest = {<<"assign", j, v>>}
        /\ repairs' = new /\ errand' = [errand EXCEPT ![c] = w] /\ UNCHANGED errands
    BY <1>6 DEF GoOnAssigning, Site!Steps
  <2>2. new.vendor = repairs.vendor
    BY <1>2 DEF Turned, RepairRows
  <2> HIDE DEF new
  <2>3. JobsUpTo(new, errands)
    BY <1>2, <2>2 DEF JobsUpTo
  <2>4. Allowance(errand[c].rest, errands) = errands /\ Allowance(rest, errands) = errands
    BY <2>1 DEF Allowance
  <2>5. w.at = "between" /\ w.seen = seen /\ w.rest = rest
    BY DEF Site!Between
  <2> HIDE DEF w, rest
  <2>6. ErrandBound(w, errands)
    BY <1>2, <2>3, <2>4, <2>5 DEF ErrandBound
  <2>7. QED
    BY <1>1, <1>4, <2>1, <2>3, <2>6, ErrandGoesOnBounded
<1>7. ASSUME NEW j \in Tickets, NEW v \in Vendors, GoOnWithVendor(c, j, v)
      PROVE  MaintenanceBounds'
  <2>1. /\ repairs' = [repairs EXCEPT !.job[j].vendor = v]
        /\ errand' = [errand EXCEPT ![c] = Site!Idle] /\ UNCHANGED errands
    BY <1>7 DEF GoOnWithVendor, Site!Steps
  <2>2. repairs'.vendor = repairs.vendor
    BY <1>2, <2>1 DEF RepairRows
  <2>3. JobsUpTo(repairs', errands)
    BY <1>2, <2>2 DEF JobsUpTo
  <2>4. QED
    BY <1>1, <1>4, <1>5, <2>1, <2>3, ErrandGoesOnBounded
<1>8. ASSUME NEW j \in Tickets, NEW v \in Vendors \cup {NoVendor}, GoOnCompleting(c, j, v)
      PROVE  MaintenanceBounds'
  <2>1. /\ errand[c].rest = {<<"complete", j, v>>}
        /\ repairs' = Finished(repairs, j, v, errand[c].seen.vendor)
        /\ errand' = [errand EXCEPT ![c] = Site!Idle] /\ UNCHANGED errands
    BY <1>8 DEF GoOnCompleting, Site!Steps
  <2>2. Allowance(errand[c].rest, errands) = errands - 1
    <3>1. \E t \in errand[c].rest : t[1] = "complete"
      BY <2>1
    <3>2. QED
      BY <3>1 DEF Allowance
  <2>3. \A x \in Vendors : errand[c].seen.vendor[x].jobs + 1 <= errands
    BY <1>2, <1>3, <2>2 DEF JobsUpTo
  <2>4. \A x \in Vendors : repairs'.vendor[x].jobs \in
            {repairs.vendor[x].jobs, errand[c].seen.vendor[x].jobs + 1}
    <3>1. repairs'.vendor = [x \in Vendors |->
            IF x = v THEN [repairs.vendor[x] EXCEPT !.jobs = errand[c].seen.vendor[x].jobs + 1]
            ELSE repairs.vendor[x]]
      BY <1>2, <2>1 DEF Finished, RepairRows
    <3>2. \A x \in Vendors : repairs.vendor[x] \in VendorRow
      BY <1>3
    <3>3. QED
      BY <3>1, <3>2 DEF VendorRow
  <2>5. JobsUpTo(repairs', errands)
    BY <1>3, <2>3, <2>4 DEF JobsUpTo
  <2>6. QED
    BY <1>1, <1>4, <1>5, <2>1, <2>5, ErrandGoesOnBounded
<1>9. QED
  BY <1>6, <1>7, <1>8 DEF GoOn

(* The requests. *)
LEMMA RequestsBounded ==
    ASSUME MaintenanceIInv, MaintenanceBounds, NEW c \in Crew,
           \/ \E v \in Vendors, active \in BOOLEAN : SetVendor(c, v, active)
           \/ \E j \in Tickets :
                \/ ReportJob(c, j) \/ CompleteJob(c, j)
                \/ \E target \in DOMAIN Leaves : Turn(c, j, target)
                \/ \E v \in Vendors : AssignVendor(c, j, v)
                \/ \E v \in Vendors \cup {NoVendor} : ApproveJob(c, j, v)
    PROVE  MaintenanceBounds'
<1> DEFINE Fine(new, rest) ==
             /\ new \in RepairRows /\ rest \in SUBSET Chores /\ Site!PreparesOne(c, new, rest)
             /\ \A v \in Vendors :
                  \/ new.vendor[v].jobs = repairs.vendor[v].jobs
                  \/ rest = {} /\ new.vendor[v].jobs = repairs.vendor[v].jobs + 1
<1>1. /\ repairs \in RepairRows /\ repairs.vendor \in [Vendors -> VendorRow]
      /\ period \in 1 .. LastMonth /\ \A j \in Tickets : repairs.job[j] \in JobRow
  BY RepairColumns DEF MaintenanceIInv, MaintenanceTypes
<1>2. {"SUBMITTED", "APPROVED", "ASSIGNED", "COMPLETED"} \subseteq DOMAIN Leaves
  BY DEF Leaves
<1>3. \A j \in Tickets, target \in DOMAIN Leaves :
        Turned(repairs, j, target) \in RepairRows
        /\ Turned(repairs, j, target).vendor = repairs.vendor
  BY <1>1, Turns
<1>4. \A j \in Tickets, v \in Vendors :
        Given(repairs, j, v) \in RepairRows /\ Given(repairs, j, v).vendor = repairs.vendor
  <2> SUFFICES ASSUME NEW j \in Tickets, NEW v \in Vendors
               PROVE  Given(repairs, j, v).vendor = repairs.vendor
    BY <1>1, Gives
  <2>1. Turned(repairs, j, "ASSIGNED") \in RepairRows
        /\ Turned(repairs, j, "ASSIGNED").vendor = repairs.vendor
    BY <1>2, <1>3
  <2>2. QED
    BY <2>1 DEF Given, RepairRows
<1>5. ASSUME NEW v \in Vendors, NEW active \in BOOLEAN, SetVendor(c, v, active)
      PROVE  \E new, rest : Fine(new, rest)
  <2> DEFINE new == [repairs EXCEPT !.vendor[v].active = active]
  <2>1. /\ new \in RepairRows
        /\ \A x \in Vendors : new.vendor[x].jobs = repairs.vendor[x].jobs
    BY <1>1 DEF RepairRows, VendorRow
  <2>2. Site!PreparesOne(c, new, {})
    BY <1>5 DEF SetVendor, Site!Prepares
  <2> HIDE DEF new
  <2>3. Fine(new, {})
    BY <2>1, <2>2
  <2>4. QED
    BY <2>3
<1>6. ASSUME NEW j \in Tickets,
             ReportJob(c, j) \/ \E target \in DOMAIN Leaves : Turn(c, j, target)
      PROVE  \E new, rest : Fine(new, rest)
  <2>1. PICK target \in DOMAIN Leaves : Site!PreparesOne(c, Turned(repairs, j, target), {})
    BY <1>2, <1>6 DEF ReportJob, Turn, Site!Prepares
  <2>2. Fine(Turned(repairs, j, target), {})
    BY <1>3, <2>1
  <2>3. QED
    BY <2>2
<1>7. ASSUME NEW j \in Tickets, NEW v \in Vendors, AssignVendor(c, j, v)
      PROVE  \E new, rest : Fine(new, rest)
  <2> DEFINE rest == {<<"vendor", j, v>>}
  <2>1. rest \in SUBSET Chores
    BY DEF Chores
  <2>2. \/ Site!PreparesOne(c, Turned(repairs, j, "ASSIGNED"), rest)
        \/ Site!PreparesOne(c, Given(repairs, j, v), {})
    BY <1>7 DEF AssignVendor, Site!Prepares
  <2> HIDE DEF rest
  <2>3. Fine(Turned(repairs, j, "ASSIGNED"), rest) \/ Fine(Given(repairs, j, v), {})
    BY <1>2, <1>3, <1>4, <2>1, <2>2
  <2>4. QED
    BY <2>3
<1>8. ASSUME NEW j \in Tickets, NEW v \in Vendors \cup {NoVendor}, ApproveJob(c, j, v)
      PROVE  \E new, rest : Fine(new, rest)
  <2> DEFINE rest == IF v = NoVendor THEN {} ELSE {<<"assign", j, v>>}
  <2>1. rest \in SUBSET Chores /\ {} \in SUBSET Chores
    BY DEF Chores
  <2>2. \/ Site!PreparesOne(c, Turned(repairs, j, "APPROVED"), rest)
        \/ Site!PreparesOne(c, Turned(repairs, j, "APPROVED"), {})
        \/ v # NoVendor /\ Site!PreparesOne(c, Given(repairs, j, v), {})
    BY <1>8 DEF ApproveJob, Site!Prepares
  <2> HIDE DEF rest
  <2>3. \/ Fine(Turned(repairs, j, "APPROVED"), rest)
        \/ Fine(Turned(repairs, j, "APPROVED"), {})
        \/ Fine(Given(repairs, j, v), {})
    BY <1>2, <1>3, <1>4, <2>1, <2>2
  <2>4. QED
    BY <2>3
<1>9. ASSUME NEW j \in Tickets, CompleteJob(c, j)
      PROVE  \E new, rest : Fine(new, rest)
  <2> DEFINE v == repairs.job[j].vendor
             rest == {<<"complete", j, v>>}
             done == Finished(repairs, j, v, repairs.vendor)
  <2>1. rest \in SUBSET Chores
    BY <1>1 DEF Chores, JobRow
  <2>2. \/ Site!PreparesOne(c, Turned(repairs, j, "COMPLETED"), rest)
        \/ Site!PreparesOne(c, done, {})
    BY <1>9 DEF CompleteJob, Ticket, Site!Prepares
  <2>3. done \in RepairRows
    BY <1>1, Finishes
  <2>4. done.vendor = [x \in Vendors |->
            IF x = v THEN [repairs.vendor[x] EXCEPT !.jobs = repairs.vendor[x].jobs + 1]
            ELSE repairs.vendor[x]]
    BY <1>1 DEF Finished, RepairRows
  <2> HIDE DEF rest, done, v
  <2>5. \A x \in Vendors : \/ done.vendor[x].jobs = repairs.vendor[x].jobs
                           \/ done.vendor[x].jobs = repairs.vendor[x].jobs + 1
    <3>1. \A x \in Vendors : repairs.vendor[x] \in VendorRow
      BY <1>1
    <3>2. QED
      BY <2>4, <3>1 DEF VendorRow
  <2>6. Fine(Turned(repairs, j, "COMPLETED"), rest) \/ Fine(done, {})
    BY <1>2, <1>3, <2>1, <2>2, <2>3, <2>5
  <2>7. QED
    BY <2>6
<1>10. PICK new, rest : Fine(new, rest)
  BY <1>5, <1>6, <1>7, <1>8, <1>9
<1>11. UNCHANGED <<hooked, raced>> /\ redone' \in BOOLEAN
  <2>1. UNCHANGED <<hooked, raced>>
    BY DEF SetVendor, ReportJob, CompleteJob, Turn, AssignVendor, ApproveJob, Unmoved
  <2>2. redone' = redone \/ \E j \in Tickets : redone' = (redone \/ Ticket(j).cost)
    BY DEF SetVendor, ReportJob, CompleteJob, Turn, AssignVendor, ApproveJob
  <2>3. QED
    BY <2>1, <2>2 DEF MaintenanceBounds
<1>12. QED
  BY <1>10, <1>11, ErrandBeginsBounded

LEMMA MaintenanceStaysBounded ==
    MaintenanceIInv /\ MaintenanceBounds /\ [MaintenanceNext]_maintenanceVars =>
        MaintenanceBounds'
<1> SUFFICES ASSUME MaintenanceIInv, MaintenanceBounds, [MaintenanceNext]_maintenanceVars
             PROVE  MaintenanceBounds'
  OBVIOUS
<1>1. CASE UNCHANGED maintenanceVars
  BY <1>1 DEF maintenanceVars, MaintenanceBounds
<1>2. CASE NextMonth \/ \E from, to \in 1 .. LastMonth : Disburse(from, to)
  <2>1. UNCHANGED <<hooked, repairs, errand, errands, raced, redone>>
    BY <1>2 DEF NextMonth, Disburse
  <2>2. QED
    BY <2>1 DEF MaintenanceBounds
<1>3. ASSUME NEW c \in Crew, GoOn(c) \/ SaveRepair(c) \/ DropRepair(c)
      PROVE  MaintenanceBounds'
  BY <1>3, GoOnBounded, SaveRepairBounded, DropRepairBounded
<1>4. {"UNDER_REVIEW", "REJECTED", "IN_PROGRESS", "CANCELLED", "CLOSED"} \subseteq DOMAIN Leaves
  BY DEF Leaves
<1>5. QED
  BY <1>1, <1>2, <1>3, <1>4, RequestsBounded DEF MaintenanceNext

(* The jobs, the vendors and their counters, the requests in flight and the owner's
   statements (maintenance_service.py, vendor_service.py) keep their types, and no
   counter exceeds the number of requests, however they overlap. *)
THEOREM RepairsAreWellTyped == MaintenanceSpec => []MaintenanceTypeOK
<1>1. ASSUME NEW rows \in RepairRows, NEW n \in 0 .. MaxErrands, JobsUpTo(rows, n)
      PROVE  IsRepairs(rows)
  <2>1. \A v \in Vendors : rows.vendor[v] \in VendorRow /\ rows.vendor[v].jobs \in 0 .. MaxErrands
    BY <1>1, RepairColumns, MaintenanceAssumption DEF JobsUpTo, VendorRow
  <2>2. rows.vendor \in [Vendors -> [active : BOOLEAN, jobs : 0 .. MaxErrands]]
    BY <2>1, RepairColumns DEF VendorRow
  <2>3. QED
    BY <2>2, RepairColumns DEF IsRepairs, JobRow
<1>2. ASSUME MaintenanceIInv, MaintenanceBounds, NEW c \in Crew
      PROVE  Site!IsWork(errand[c], IsRepairs, Chores)
  <2> DEFINE w == errand[c]
             limit == Allowance(w.rest, errands)
  <2>1. ErrandTypes(w) /\ ErrandBound(w, errands) /\ errands \in 0 .. MaxErrands
    BY <1>2 DEF MaintenanceIInv, MaintenanceTypes, MaintenanceBounds
  <2>2. ASSUME NEW rows \in RepairRows, JobsUpTo(rows, limit) PROVE IsRepairs(rows)
    <3>1. \A v \in Vendors : rows.vendor[v].jobs \in Nat
      BY RepairColumns DEF VendorRow
    <3>2. JobsUpTo(rows, errands)
      BY <2>1, <2>2, <3>1 DEF JobsUpTo, Allowance
    <3>3. QED
      BY <1>1, <2>1, <3>2
  <2>3. CASE w.at = "ready"
    <3>1. /\ w.was \in RepairRows /\ w.is \in RepairRows /\ w.seen = w.was /\ w.rest \subseteq Chores
          /\ JobsUpTo(w.was, limit) /\ JobsUpTo(w.is, limit)
      BY <2>1, <2>3 DEF ErrandTypes, ErrandBound
    <3>2. IsRepairs(w.was) /\ IsRepairs(w.is) /\ IsRepairs(w.seen)
      BY <2>2, <3>1
    <3>3. QED
      BY <2>3, <3>1, <3>2 DEF Site!IsWork
  <2>4. CASE w.at = "between"
    <3>1. w.seen \in RepairRows /\ w.rest \subseteq Chores /\ JobsUpTo(w.seen, limit)
      BY <2>1, <2>4 DEF ErrandTypes, ErrandBound
    <3>2. IsRepairs(w.seen)
      BY <2>2, <3>1
    <3>3. QED
      BY <2>4, <3>1, <3>2 DEF Site!IsWork
  <2>5. CASE w.at = "idle"
    BY <2>5 DEF Site!IsWork
  <2>6. QED
    BY <2>1, <2>3, <2>4, <2>5 DEF ErrandTypes
<1>3. MaintenanceIInv /\ MaintenanceBounds => MaintenanceTypeOK
  BY <1>1, <1>2 DEF MaintenanceIInv, MaintenanceTypes, MaintenanceBounds, MaintenanceTypeOK, Chores
<1>4. MaintenanceSpec => []MaintenanceBounds
  BY MaintenanceInvariance, MaintenanceStartsBounded, MaintenanceStaysBounded, PTL
     DEF MaintenanceSpec
<1>5. QED
  BY <1>3, <1>4, MaintenanceInvariance, PTL

-----------------------------------------------------------------------------
(* Logins.  Whoever else is signed in or out, a key that the browser holds is
   the one its seat was given last, or the reply with that one has arrived; and
   no two pages, calls or copies of the browser hold a key of the same seat
   unless the history says so. *)

TokenRow == [state : {"none", "live", "revoked"}, token : 0 .. MaxCalls]

TokenRows == [session : [Seats -> TokenRow]]

TrueKeys == {Nothing} \cup [seat : Seats, token : 0 .. MaxCalls]

ServiceTypes(w) ==
    \/ w.at = "idle"
    \/ /\ w.at = "ready" /\ w.rest = {}
       /\ w.seen \in TokenRows /\ w.was \in TokenRows /\ w.is \in TokenRows

CallTypes ==
    [key : TrueKeys, heard : BOOLEAN,
     what : {"none", "signin", "refresh", "signout", "granted", "refused"}]

LoginsTypes ==
    /\ auth \in TokenRows
    /\ serving = [c \in Callers |-> serving[c]] /\ \A c \in Callers : ServiceTypes(serving[c])
    /\ calls \in 0 .. MaxCalls /\ minted \in 0 .. calls
    /\ page \in [Windows -> [open : BOOLEAN, held : TrueKeys]] /\ stored \in TrueKeys
    /\ call \in [PageCallers -> CallTypes]
    /\ atOnce \in BOOLEAN /\ left \in BOOLEAN /\ shared \in BOOLEAN

Used(rows, s) == rows.session[s].state # "none"

(* the seats a request takes, and those it gives another token *)
Opens(w) == {s \in Seats : ~Used(w.was, s) /\ Used(w.is, s)}

SeatsWritten(w) == {s \in Seats : w.is.session[s].token # w.was.session[s].token}

Busy(c) == serving[c].at = "ready"

Refreshes(c) == c \in PageCallers /\ call[c].what = "refresh"

(* no seat is taken twice, and only a refresh gives another token to a seat
   that was taken before *)
ServiceOK(c) ==
    Busy(c) =>
        /\ \A s \in Seats : Used(serving[c].was, s) => Used(serving[c].is, s)
        /\ \A s \in Opens(serving[c]) :
            /\ ~Used(auth, s)
            /\ \A d \in Callers : d # c /\ Busy(d) => ~Used(serving[d].is, s)
        /\ SeatsWritten(serving[c]) \subseteq
                IF Refreshes(c) THEN {call[c].key.seat} ELSE Opens(serving[c])
        /\ c \in PageCallers => call[c].what \in {"signin", "refresh", "signout"}

Known(rows, k) == k # Nothing => Used(rows, k.seat)

KeysKnown ==
    /\ \A t \in Windows : Known(auth, page[t].held)
    /\ Known(auth, stored)
    /\ \A c \in PageCallers :
        /\ Known(auth, call[c].key)
        /\ call[c].what \in {"refresh", "granted"} => call[c].key # Nothing
        /\ call[c].what = "refused" => call[c].key = Nothing
        /\ call[c].what = "granted" => call[c].heard

Bears(c) == call[c].what \in {"refresh", "granted"}

Current(rows, k) == rows.session[k.seat].token = k.token

RefreshLives(c) ==
    Busy(c) /\ call[c].what = "refresh" =>
        serving[c].is.session[call[c].key.seat].state = "live"

KeysCurrent ==
    /\ \A c \in PageCallers : Bears(c) => Current(auth, call[c].key)
    /\ \A t \in Windows :
        \/ page[t].held = Nothing
        \/ Current(auth, page[t].held)
        \/ \E c \in PageCallers : /\ c[1] = t /\ call[c].what = "granted"
                                  /\ call[c].key.seat = page[t].held.seat
    /\ \/ stored = Nothing
       \/ Current(auth, stored)
       \/ \E t \in Windows : page[t].held = stored

KeysApart ==
    /\ \A t, u \in Windows :
        t # u /\ page[t].held # Nothing => page[t].held.seat # page[u].held.seat
    /\ \A c, d \in PageCallers :
        c # d /\ Bears(c) /\ Bears(d) => call[c].key.seat # call[d].key.seat
    /\ \A c \in PageCallers, t \in Windows :
        Bears(c) /\ t # c[1] => page[t].held.seat # call[c].key.seat
    /\ \A c \in PageCallers :
        Bears(c) /\ stored.seat = call[c].key.seat => page[c[1]].held.seat = stored.seat
    /\ \A t \in Windows : page[t].held.seat = stored.seat => page[t].held = stored
    /\ \A c \in PageCallers :
        call[c].what = "refresh" /\ ~call[c].heard =>
            /\ stored.seat # call[c].key.seat
            /\ \A t \in Windows : page[t].held.seat # call[c].key.seat

Careful == ~atOnce /\ ~left /\ ~shared

LoginsIInv ==
    /\ LoginsTypes /\ KeysKnown
    /\ \A c \in Callers : ServiceOK(c)
    /\ Careful => KeysCurrent /\ KeysApart /\ \A c \in PageCallers : RefreshLives(c)

LEMMA Callings ==
    /\ \A c \in PageCallers : c[1] \in Windows /\ c \in Callers /\ c # Elsewhere
    /\ \A t \in Windows : <<t, "interceptor">> \in PageCallers
BY LoginsAssumption DEF Callers, Elsewhere

LEMMA RealKeys ==
    /\ Nothing \in TrueKeys /\ Nothing.seat \notin Seats
    /\ \A k \in TrueKeys : k # Nothing => k.seat \in Seats
    /\ \A s \in Seats, n \in 0 .. MaxCalls : [seat |-> s, token |-> n] \in TrueKeys \ {Nothing}
BY LoginsAssumption DEF TrueKeys, Nothing

LEMMA SilentCalls ==
    ASSUME NEW a \in {Silent, [Silent EXCEPT !.what = "refused"]}
    PROVE  a \in CallTypes /\ a.what \in {"none", "refused"} /\ a.key = Nothing
<1>1. Nothing \in TrueKeys
  BY RealKeys
<1>2. CASE a = Silent
  BY <1>1, <1>2 DEF Silent, CallTypes
<1>3. CASE a = [Silent EXCEPT !.what = "refused"]
  <2>1. a = [what |-> "refused", key |-> Nothing, heard |-> TRUE]
    BY <1>3 DEF Silent
  <2>2. QED
    BY <1>1, <2>1 DEF CallTypes
<1>4. QED
  BY <1>2, <1>3

LEMMA TokenColumns ==
    ASSUME NEW rows \in TokenRows
    PROVE  /\ DOMAIN rows = {"session"} /\ rows.session \in [Seats -> TokenRow]
           /\ DOMAIN rows.session = Seats
           /\ \A s \in Seats : DOMAIN rows.session[s] = {"state", "token"}
           /\ rows = [session |-> rows.session]
           /\ IsAuth(rows)
BY DEF TokenRows, TokenRow, IsAuth

(* what a commit leaves of each seat *)
LEMMA MergedTokens ==
    ASSUME NEW was \in TokenRows, NEW is \in TokenRows, NEW now \in TokenRows
    PROVE  LET m == Server!Merged(was, is, now)
           IN  /\ m \in TokenRows
               /\ \A s \in Seats :
                    /\ m.session[s].token =
                        IF is.session[s].token = was.session[s].token
                        THEN now.session[s].token ELSE is.session[s].token
                    /\ m.session[s].state =
                        IF is.session[s].state = was.session[s].state
                        THEN now.session[s].state ELSE is.session[s].state
<1> DEFINE m == Server!Merged(was, is, now)
           Row(s) == Server!MergedRow(was.session[s], is.session[s], now.session[s])
<1>1. m.session = [s \in Seats |-> Row(s)] /\ m = [session |-> m.session]
  BY TokenColumns DEF Server!Merged
<1>2. \A s \in Seats :
        Row(s) = [state |-> IF is.session[s].state = was.session[s].state
                            THEN now.session[s].state ELSE is.session[s].state,
                  token |-> IF is.session[s].token = was.session[s].token
                            THEN now.session[s].token ELSE is.session[s].token]
  BY TokenColumns DEF Server!MergedRow, TokenRow
<1> HIDE DEF m, Row
<1>3. \A s \in Seats : Row(s) \in TokenRow
  BY <1>2, TokenColumns DEF TokenRow
<1>4. m \in TokenRows
  BY <1>1, <1>3 DEF TokenRows
<1>5. QED
  BY <1>1, <1>2, <1>4 DEF m

LEMMA RevokedTokens ==
    ASSUME NEW rows \in TokenRows, NEW gone
    PROVE  /\ Revoked(rows, gone) \in TokenRows
           /\ \A s \in Seats :
                /\ Revoked(rows, gone).session[s].token = rows.session[s].token
                /\ Revoked(rows, gone).session[s].state =
                    IF s \in gone THEN "revoked" ELSE rows.session[s].state
<1> DEFINE session == [s \in Seats |->
                IF s \in gone THEN [rows.session[s] EXCEPT !.state = "revoked"]
                ELSE rows.session[s]]
<1>1. Revoked(rows, gone) = [session |-> session]
  BY TokenColumns DEF Revoked
<1>2. session \in [Seats -> TokenRow]
  BY TokenColumns DEF TokenRow
<1>3. \A s \in Seats :
        /\ session[s].token = rows.session[s].token
        /\ session[s].state = IF s \in gone THEN "revoked" ELSE rows.session[s].state
  BY TokenColumns DEF TokenRow
<1> HIDE DEF session
<1>4. QED
  BY <1>1, <1>2, <1>3 DEF TokenRows

LEMMA LoginsInitIInv == LoginsInit => LoginsIInv
<1> SUFFICES ASSUME LoginsInit PROVE LoginsIInv
  OBVIOUS
<1>1. auth \in TokenRows
  <2>1. Unused \in TokenRow /\ [Unused EXCEPT !.state = "live"] \in TokenRow
    BY LoginsAssumption DEF Unused, TokenRow
  <2>2. QED
    BY <2>1 DEF LoginsInit, TokenRows
<1>2. /\ \A c \in Callers : ServiceTypes(serving[c]) /\ ~Busy(c)
      /\ serving = [c \in Callers |-> serving[c]]
  BY DEF LoginsInit, ServiceTypes, Busy, Server!Idle
<1>3. /\ stored = Nothing
      /\ page \in [Windows -> [open : BOOLEAN, held : TrueKeys]]
      /\ \A t \in Windows : page[t].held = Nothing
  BY RealKeys DEF LoginsInit, Shut
<1>4. /\ call \in [PageCallers -> CallTypes]
      /\ \A c \in PageCallers : call[c].what = "none" /\ call[c].key = Nothing
  BY RealKeys DEF LoginsInit, Silent, CallTypes
<1>5. LoginsTypes
  <2>1. calls \in 0 .. MaxCalls /\ minted \in 0 .. calls
    BY LoginsAssumption DEF LoginsInit
  <2>2. atOnce \in BOOLEAN /\ left \in BOOLEAN /\ shared \in BOOLEAN
    BY DEF LoginsInit
  <2>3. QED
    BY <1>1, <1>2, <1>3, <1>4, <2>1, <2>2, RealKeys DEF LoginsTypes
<1>6. KeysKnown /\ \A c \in Callers : ServiceOK(c)
  BY <1>2, <1>3, <1>4 DEF KeysKnown, Known, ServiceOK
<1>7. KeysCurrent /\ KeysApart /\ \A c \in PageCallers : RefreshLives(c)
  BY <1>3, <1>4 DEF KeysCurrent, KeysApart, RefreshLives, Bears
<1>8. QED
  BY <1>5, <1>6, <1>7 DEF LoginsIInv

-----------------------------------------------------------------------------
(* The server: a request reads the sessions and prepares their change. *)

TokensGiven(rows) == {s \in Seats : rows.session[s].token # auth.session[s].token}

SeatsTaken(rows) == {s \in Seats : ~Used(auth, s) /\ Used(rows, s)}

LEMMA ServerPrepares ==
    ASSUME LoginsIInv, NEW c \in Callers, NEW new \in TokenRows, Server!Prepares(c, new),
           UNCHANGED <<page, stored, call, atOnce, left, shared>>, minted' \in 0 .. calls',
           \A s \in Seats : Used(auth, s) => Used(new, s),
           \A s \in SeatsTaken(new) : \A d \in Callers : Busy(d) => ~Used(serving[d].is, s),
           TokensGiven(new) \subseteq
                IF Refreshes(c) THEN {call[c].key.seat} ELSE SeatsTaken(new),
           c \in PageCallers => call[c].what \in {"signin", "refresh", "signout"},
           Careful /\ Refreshes(c) => new.session[call[c].key.seat].state = "live"
    PROVE  LoginsIInv'
<1> DEFINE w == Server!Ready(auth, new, {})
<1>1. /\ serving[c].at = "idle" /\ calls < MaxCalls /\ calls' = calls + 1
      /\ serving' = [serving EXCEPT ![c] = w] /\ UNCHANGED auth
  BY DEF Server!Prepares, Server!PreparesOne, Server!Begins
<1>2. /\ w.at = "ready" /\ w.rest = {} /\ w.seen = auth /\ w.was = auth /\ w.is = new
  BY DEF Server!Ready
<1> HIDE DEF w
<1>3. LoginsTypes /\ KeysKnown /\ \A d \in Callers : ServiceOK(d)
  BY DEF LoginsIInv
<1>4. /\ serving'[c] = w /\ \A d \in Callers : d # c => serving'[d] = serving[d]
      /\ \A d \in Callers : Busy(d)' <=> (d = c \/ Busy(d))
  BY <1>1, <1>2, <1>3 DEF LoginsTypes, Busy
<1>5. LoginsTypes'
  <2>1. calls' \in 0 .. MaxCalls
    BY <1>1, <1>3, LoginsAssumption DEF LoginsTypes
  <2>2. ServiceTypes(w)
    BY <1>2, <1>3 DEF ServiceTypes, LoginsTypes
  <2>3. QED
    BY <1>1, <1>3, <1>4, <2>1, <2>2 DEF LoginsTypes
<1>6. KeysKnown'
  BY <1>1, <1>3 DEF KeysKnown, Known
<1>7. Opens(w) = SeatsTaken(new) /\ SeatsWritten(w) = TokensGiven(new)
  BY <1>2 DEF Opens, SeatsTaken, SeatsWritten, TokensGiven
<1>8. ServiceOK(c)'
  <2>1. \A s \in Opens(w) :
            /\ ~Used(auth, s)
            /\ \A d \in Callers : d # c /\ Busy(d) => ~Used(serving[d].is, s)
    BY <1>7 DEF SeatsTaken
  <2>2. Refreshes(c)' = Refreshes(c)
    BY DEF Refreshes
  <2>3. QED
    BY <1>1, <1>2, <1>4, <1>7, <2>1, <2>2 DEF ServiceOK
<1>9. ASSUME NEW d \in Callers, d # c PROVE ServiceOK(d)'
  <2>1. /\ serving'[d] = serving[d] /\ Busy(d)' = Busy(d) /\ ServiceOK(d)
        /\ Refreshes(d)' = Refreshes(d)
    BY <1>3, <1>4, <1>9 DEF Refreshes, Busy
  <2>2. ASSUME Busy(d), NEW s \in Opens(serving[d])
        PROVE  ~Used(new, s)
    <3>1. s \in Seats /\ ~Used(auth, s) /\ Used(serving[d].is, s)
      BY <2>1, <2>2 DEF ServiceOK, Opens
    <3>2. QED
      BY <2>2, <3>1 DEF SeatsTaken
  <2>3. ASSUME Busy(d), NEW s \in Opens(serving[d]), NEW e \in Callers, e # d, Busy(e)'
        PROVE  ~Used(serving'[e].is, s)
    <3>1. CASE e = c
      BY <1>2, <1>4, <2>2, <2>3, <3>1
    <3>2. CASE e # c
      BY <1>4, <2>1, <2>3, <3>2 DEF ServiceOK
    <3>3. QED
      BY <3>1, <3>2
  <2>4. QED
    BY <1>1, <2>1, <2>3 DEF ServiceOK
<1>10. ASSUME Careful' PROVE KeysCurrent' /\ KeysApart' /\ \A d \in PageCallers : RefreshLives(d)'
  <2>1. Careful /\ KeysCurrent /\ KeysApart /\ \A d \in PageCallers : RefreshLives(d)
    BY <1>10 DEF Careful, LoginsIInv
  <2>2. KeysCurrent' /\ KeysApart'
    BY <1>1, <2>1 DEF KeysCurrent, KeysApart, Current, Bears
  <2>3. ASSUME NEW d \in PageCallers PROVE RefreshLives(d)'
    <3>1. CASE d = c
      BY <1>2, <1>4, <2>1, <3>1 DEF RefreshLives, Refreshes
    <3>2. CASE d # c
      BY <1>4, <2>1, <3>2, Callings DEF RefreshLives, Busy
    <3>3. QED
      BY <3>1, <3>2
  <2>4. QED
    BY <2>2, <2>3
<1>11. QED
  BY <1>5, <1>6, <1>8, <1>9, <1>10 DEF LoginsIInv

(* create_session: the seat is nobody's yet; the cap signs others out *)
LEMMA CreateSessionIInv ==
    ASSUME LoginsIInv, NEW c \in Callers, NEW s \in Seats, CreateSession(c, s),
           UNCHANGED <<page, stored, call, atOnce, left, shared>>,
           c \in PageCallers => call[c].what = "signin"
    PROVE  LoginsIInv'
<1> DEFINE row == [state |-> "live", token |-> minted + 1]
           opened == [auth EXCEPT !.session[s] = row]
           new == Revoked(opened, Surplus(opened, s))
<1>1. /\ auth.session[s] = Unused
      /\ \A d \in Callers : Busy(d) => serving[d].is.session[s] = Unused
      /\ Server!Prepares(c, new) /\ minted' = minted + 1
  BY DEF CreateSession, Server!Fresh, Busy
<1>2. /\ auth \in TokenRows /\ calls \in 0 .. MaxCalls /\ minted \in 0 .. calls
      /\ calls < MaxCalls /\ calls' = calls + 1
  BY <1>1 DEF LoginsIInv, LoginsTypes, Server!Prepares, Server!PreparesOne, Server!Begins
<1>3. /\ ~Used(auth, s)
      /\ \A d \in Callers : Busy(d) => ~Used(serving[d].is, s)
  BY <1>1 DEF Used, Unused
<1>4. minted' \in 0 .. calls' /\ minted + 1 \in 0 .. MaxCalls
  BY <1>1, <1>2, LoginsAssumption
<1>5. row \in TokenRow /\ row.state = "live"
  BY <1>4 DEF TokenRow
<1> HIDE DEF row
<1>6. /\ opened \in TokenRows /\ opened.session[s] = row
      /\ \A r \in Seats : r # s => opened.session[r] = auth.session[r]
  BY <1>2, <1>5 DEF TokenRows
<1> HIDE DEF opened
<1>7. s \notin Surplus(opened, s) /\ Surplus(opened, s) \subseteq LiveSeats(opened)
  BY DEF Surplus
<1>8. /\ new \in TokenRows
      /\ \A r \in Seats :
            /\ new.session[r].token = opened.session[r].token
            /\ new.session[r].state =
                IF r \in Surplus(opened, s) THEN "revoked" ELSE opened.session[r].state
  BY <1>6, RevokedTokens
<1> HIDE DEF new
<1>9. \A r \in Seats : Used(new, r) <=> r = s \/ Used(auth, r)
  BY <1>3, <1>5, <1>6, <1>7, <1>8 DEF Used, LiveSeats
<1>10. SeatsTaken(new) = {s} /\ TokensGiven(new) \subseteq {s}
  BY <1>3, <1>6, <1>8, <1>9 DEF SeatsTaken, TokensGiven
<1>11. ~Refreshes(c)
  BY DEF Refreshes
<1>12. QED
  BY <1>1, <1>3, <1>4, <1>8, <1>9, <1>10, <1>11, ServerPrepares

(* some seats are revoked that were live *)
LEMMA RevokeIInv ==
    ASSUME LoginsIInv, NEW c \in Callers, NEW gone,
           \A s \in gone \cap Seats : Used(auth, s),
           Server!Prepares(c, Revoked(auth, gone)),
           UNCHANGED <<minted, page, stored, call, atOnce, left, shared>>,
           c \in PageCallers => call[c].what \in {"signin", "refresh", "signout"},
           ~(Careful /\ Refreshes(c))
    PROVE  LoginsIInv'
<1> DEFINE new == Revoked(auth, gone)
<1>1. /\ auth \in TokenRows /\ calls \in 0 .. MaxCalls /\ minted \in 0 .. calls
      /\ calls < MaxCalls /\ calls' = calls + 1
  BY DEF LoginsIInv, LoginsTypes, Server!Prepares, Server!PreparesOne, Server!Begins
<1>2. minted' \in 0 .. calls'
  BY <1>1, LoginsAssumption
<1>3. /\ new \in TokenRows
      /\ \A r \in Seats :
            /\ new.session[r].token = auth.session[r].token
            /\ new.session[r].state = IF r \in gone THEN "revoked" ELSE auth.session[r].state
  BY <1>1, RevokedTokens
<1>4. Server!Prepares(c, new)
  OBVIOUS
<1> HIDE DEF new
<1>5. \A r \in Seats : Used(new, r) <=> Used(auth, r)
  BY <1>3 DEF Used
<1>6. SeatsTaken(new) = {} /\ TokensGiven(new) = {}
  BY <1>3, <1>5 DEF SeatsTaken, TokensGiven
<1>7. QED
  BY <1>2, <1>3, <1>4, <1>5, <1>6, ServerPrepares

(* rotate: as long as the browser is careful, the token it presents is the one
   its seat was given last *)
LEMMA RotateIInv ==
    ASSUME LoginsIInv, NEW c \in PageCallers, call[c].what = "refresh", Rotate(c, call[c].key),
           UNCHANGED <<page, stored, call, atOnce, left, shared>>
    PROVE  LoginsIInv'
<1> DEFINE s == call[c].key.seat
<1>1. /\ c \in Callers /\ Refreshes(c) /\ s \in Seats
  <2>1. call[c].key # Nothing /\ call[c].key \in TrueKeys
    BY DEF LoginsIInv, KeysKnown, LoginsTypes, CallTypes
  <2>2. QED
    BY <2>1, RealKeys, Callings DEF Refreshes
<1>2. auth \in TokenRows /\ auth.session[s].state = "live"
  BY DEF Rotate, Accepts, LoginsIInv, LoginsTypes
<1>3. CASE /\ auth.session[s].token # call[c].key.token
           /\ Server!Prepares(c, Revoked(auth, LiveSeats(auth))) /\ UNCHANGED minted
  <2>1. \A r \in LiveSeats(auth) \cap Seats : Used(auth, r)
    BY DEF LiveSeats, Used
  <2>2. ~Careful
    BY <1>3 DEF LoginsIInv, KeysCurrent, Bears, Current
  <2>3. QED
    BY <1>1, <1>3, <2>1, <2>2, RevokeIInv
<1>4. CASE /\ Server!Prepares(c, [auth EXCEPT !.session[s].token = minted + 1])
           /\ minted' = minted + 1
  <2> DEFINE new == [auth EXCEPT !.session[s].token = minted + 1]
  <2>1. /\ calls \in 0 .. MaxCalls /\ minted \in 0 .. calls
        /\ calls < MaxCalls /\ calls' = calls + 1
    BY <1>4 DEF LoginsIInv, LoginsTypes, Server!Prepares, Server!PreparesOne, Server!Begins
  <2>2. minted' \in 0 .. calls' /\ minted + 1 \in 0 .. MaxCalls
    BY <1>4, <2>1, LoginsAssumption
  <2>3. /\ new \in TokenRows
        /\ \A r \in Seats : new.session[r].state = auth.session[r].state
        /\ \A r \in Seats : r # s => new.session[r] = auth.session[r]
    BY <1>1, <1>2, <2>2 DEF TokenRows, TokenRow
  <2>4. Server!Prepares(c, new)
    BY <1>4
  <2> HIDE DEF new
  <2>5. /\ \A r \in Seats : Used(auth, r) => Used(new, r)
        /\ SeatsTaken(new) = {} /\ TokensGiven(new) \subseteq {s}
    BY <2>3 DEF Used, SeatsTaken, TokensGiven
  <2>6. new.session[call[c].key.seat].state = "live"
    BY <1>1, <1>2, <2>3
  <2>7. QED
    BY <1>1, <2>2, <2>3, <2>4, <2>5, <2>6, ServerPrepares
<1>5. QED
  BY <1>3, <1>4 DEF Rotate

LEMMA ServeIInv ==
    ASSUME LoginsIInv, NEW c \in PageCallers, Serve(c)
    PROVE  LoginsIInv'
<1>1. c \in Callers /\ UNCHANGED <<page, stored, call, atOnce, left, shared>>
  BY Callings DEF Serve
<1>2. ASSUME call[c].what = "signin", NEW s \in Seats, CreateSession(c, s) PROVE LoginsIInv'
  BY <1>1, <1>2, CreateSessionIInv
<1>3. ASSUME call[c].what = "refresh", Rotate(c, call[c].key) PROVE LoginsIInv'
  BY <1>1, <1>3, RotateIInv
<1>4. ASSUME call[c].what = "signout", Accepts(call[c].key), UNCHANGED minted,
             Server!Prepares(c, Revoked(auth, {call[c].key.seat}))
      PROVE  LoginsIInv'
  <2>1. \A s \in {call[c].key.seat} \cap Seats : Used(auth, s)
    BY <1>4 DEF Accepts, Used
  <2>2. ~Refreshes(c)
    BY <1>4 DEF Refreshes
  <2>3. QED
    BY <1>1, <1>4, <2>1, <2>2, RevokeIInv
<1>5. QED
  BY <1>2, <1>3, <1>4 DEF Serve

LEMMA ElsewhereIInv ==
    ASSUME LoginsIInv
    PROVE  /\ \A s \in Seats : SignInElsewhere(s) => LoginsIInv'
           /\ \A gone \in SUBSET Seats : SignOutElsewhere(gone) => LoginsIInv'
<1>1. Elsewhere \in Callers /\ Elsewhere \notin PageCallers /\ ~Refreshes(Elsewhere)
  BY Callings DEF Callers, Refreshes
<1>2. ASSUME NEW s \in Seats, SignInElsewhere(s) PROVE LoginsIInv'
  BY <1>1, <1>2, CreateSessionIInv DEF SignInElsewhere, clientVars
<1>3. ASSUME NEW gone \in SUBSET Seats, SignOutElsewhere(gone) PROVE LoginsIInv'
  <2>1. \A s \in gone \cap Seats : Used(auth, s)
    BY <1>3 DEF SignOutElsewhere, LiveSeats, Used
  <2>2. QED
    BY <1>1, <1>3, <2>1, RevokeIInv DEF SignOutElsewhere, clientVars
<1>4. QED
  BY <1>2, <1>3

-----------------------------------------------------------------------------
(* The server: a request commits, and its reply sets out. *)

LEMMA CommitOfTokens ==
    ASSUME LoginsIInv, NEW c \in Callers, Server!Saves(c)
    PROVE  /\ auth' \in TokenRows /\ Busy(c) /\ serving' = [serving EXCEPT ![c] = Server!Idle]
           /\ UNCHANGED calls
           /\ serving[c].was \in TokenRows /\ serving[c].is \in TokenRows
           /\ \A s \in Seats : Used(auth, s) => Used(auth', s)
           /\ \A s \in Opens(serving[c]) : Used(auth', s)
           /\ \A s \in Seats : Used(auth', s) => Used(auth, s) \/ Used(serving[c].is, s)
           /\ \A s \in Seats : auth'.session[s].token =
                IF s \in SeatsWritten(serving[c]) THEN serving[c].is.session[s].token
                ELSE auth.session[s].token
<1> DEFINE w == serving[c]
<1>1. /\ w.at = "ready" /\ auth' = Server!Merged(w.was, w.is, auth) /\ UNCHANGED calls
      /\ serving' = [serving EXCEPT ![c] =
            IF w.rest = {} THEN Server!Idle
            ELSE Server!Between(IF w.seen = auth THEN auth' ELSE w.seen, w.rest)]
  BY DEF Server!Saves
<1>2. w.rest = {} /\ w.was \in TokenRows /\ w.is \in TokenRows /\ auth \in TokenRows
  BY <1>1 DEF LoginsIInv, LoginsTypes, ServiceTypes
<1> HIDE DEF w
<1>3. /\ auth' \in TokenRows
      /\ \A s \in Seats :
            /\ auth'.session[s].token =
                IF w.is.session[s].token = w.was.session[s].token
                THEN auth.session[s].token ELSE w.is.session[s].token
            /\ auth'.session[s].state =
                IF w.is.session[s].state = w.was.session[s].state
                THEN auth.session[s].state ELSE w.is.session[s].state
  BY <1>1, <1>2, MergedTokens
<1>4. \A s \in Seats : Used(w.was, s) => Used(w.is, s)
  BY <1>1 DEF LoginsIInv, ServiceOK, Busy, w
<1>5. /\ \A s \in Seats : Used(auth, s) => Used(auth', s)
      /\ \A s \in Opens(w) : Used(auth', s)
      /\ \A s \in Seats : Used(auth', s) => Used(auth, s) \/ Used(w.is, s)
  BY <1>3, <1>4 DEF Used, Opens
<1>6. \A s \in Seats : auth'.session[s].token =
        IF s \in SeatsWritten(w) THEN w.is.session[s].token ELSE auth.session[s].token
  BY <1>3 DEF SeatsWritten
<1>7. QED
  BY <1>1, <1>2, <1>3, <1>5, <1>6 DEF w, Busy

(* the keys that were known before are written by no commit but a refresh's *)
LEMMA KnownSeats ==
    ASSUME LoginsIInv, NEW c \in Callers, Busy(c), NEW k \in TrueKeys, k # Nothing, Known(auth, k)
    PROVE  /\ k.seat \in Seats
           /\ k.seat \in SeatsWritten(serving[c]) => Refreshes(c) /\ k.seat = call[c].key.seat
<1>1. k.seat \in Seats /\ Used(auth, k.seat)
  BY RealKeys DEF Known
<1>2. ServiceOK(c)
  BY DEF LoginsIInv
<1>3. k.seat \notin Opens(serving[c])
  BY <1>1, <1>2 DEF ServiceOK
<1>4. QED
  BY <1>1, <1>2, <1>3 DEF ServiceOK

LEMMA CommitService ==
    ASSUME LoginsIInv, NEW c \in Callers, Server!Saves(c),
           \A d \in PageCallers : d # c => call'[d] = call[d]
    PROVE  /\ \A d \in Callers : ServiceOK(d)'
           /\ \A d \in PageCallers : RefreshLives(d) => RefreshLives(d)'
<1>1. /\ serving' = [serving EXCEPT ![c] = Server!Idle] /\ Busy(c)
      /\ \A s \in Seats : Used(auth', s) => Used(auth, s) \/ Used(serving[c].is, s)
  BY CommitOfTokens
<1>2. serving = [d \in Callers |-> serving[d]] /\ \A d \in Callers : ServiceOK(d)
  BY DEF LoginsIInv, LoginsTypes
<1>3. /\ ~Busy(c)' /\ \A d \in Callers : d # c => serving'[d] = serving[d]
  BY <1>1, <1>2 DEF Busy, Server!Idle
<1>4. ASSUME NEW d \in Callers, d # c PROVE ServiceOK(d)'
  <2>1. serving'[d] = serving[d] /\ Refreshes(d)' = Refreshes(d) /\ Busy(d)' = Busy(d)
    BY <1>3, <1>4 DEF Refreshes, Busy
  <2>2. ASSUME Busy(d), NEW s \in Opens(serving[d]) PROVE ~Used(auth', s)
    <3>1. s \in Seats
      BY DEF Opens
    <3>2. ~Used(auth, s) /\ ~Used(serving[c].is, s)
      BY <1>1, <1>2, <1>4, <2>2 DEF ServiceOK
    <3>3. QED
      BY <1>1, <3>1, <3>2
  <2>3. ASSUME Busy(d), NEW s \in Opens(serving[d]), NEW e \in Callers, e # d, Busy(e)'
        PROVE  ~Used(serving'[e].is, s)
    <3>1. e # c
      BY <1>3, <2>3
    <3>2. serving'[e] = serving[e] /\ Busy(e)
      BY <1>3, <2>3, <3>1 DEF Busy
    <3>3. QED
      BY <1>2, <2>3, <3>2 DEF ServiceOK
  <2>4. /\ d \in PageCallers => call'[d] = call[d]
        /\ Refreshes(d) => d \in PageCallers
    BY <1>4 DEF Refreshes
  <2>5. QED
    BY <1>2, <2>1, <2>2, <2>3, <2>4 DEF ServiceOK
<1>5. ServiceOK(c)'
  BY <1>3 DEF ServiceOK
<1>6. ASSUME NEW d \in PageCallers, RefreshLives(d) PROVE RefreshLives(d)'
  <2>1. CASE d = c
    BY <1>3, <2>1 DEF RefreshLives
  <2>2. CASE d # c
    BY <1>3, <1>6, <2>2, Callings DEF RefreshLives, Busy
  <2>3. QED
    BY <2>1, <2>2
<1>7. QED
  BY <1>4, <1>5, <1>6

(* The reply: the page is told of the key that was given, or of none *)
Granted(c) ==
    /\ call'[c].what = "granted" /\ call'[c].heard
    /\ call'[c].key.seat \in SeatsWritten(serving[c])
    /\ call'[c].key.token = serving[c].is.session[call'[c].key.seat].token

Denied(c) == call'[c].what \in {"none", "refused"} /\ call'[c].key = Nothing

LEMMA CommitIInv ==
    ASSUME LoginsIInv, NEW c \in Callers, Server!Saves(c),
           UNCHANGED <<minted, page, stored, atOnce, left, shared>>,
           call' \in [PageCallers -> CallTypes],
           \A d \in PageCallers : d # c => call'[d] = call[d],
           c \in PageCallers => Granted(c) \/ Denied(c),
           Careful /\ Refreshes(c) /\ call[c].heard /\ Denied(c) => SeatsWritten(serving[c]) = {}
    PROVE  LoginsIInv'
<1>1. /\ auth' \in TokenRows /\ Busy(c) /\ serving' = [serving EXCEPT ![c] = Server!Idle]
      /\ UNCHANGED calls
      /\ \A s \in Seats : Used(auth, s) => Used(auth', s)
      /\ \A s \in Opens(serving[c]) : Used(auth', s)
      /\ \A s \in Seats : auth'.session[s].token =
            IF s \in SeatsWritten(serving[c]) THEN serving[c].is.session[s].token
            ELSE auth.session[s].token
  BY CommitOfTokens
<1>2. LoginsTypes /\ KeysKnown /\ ServiceOK(c)
  BY DEF LoginsIInv
<1>3. SeatsWritten(serving[c]) \subseteq Seats /\ Opens(serving[c]) \subseteq Seats
  BY DEF SeatsWritten, Opens
<1>4. LoginsTypes'
  <2>1. ServiceTypes(Server!Idle)
    BY DEF ServiceTypes, Server!Idle
  <2>2. QED
    BY <1>1, <1>2, <2>1 DEF LoginsTypes
<1>5. \A k \in TrueKeys : Known(auth, k) => Known(auth', k)
  BY <1>1, RealKeys DEF Known
<1>6. ASSUME c \in PageCallers, Granted(c)
      PROVE  /\ call'[c].key # Nothing /\ Known(auth', call'[c].key) /\ Current(auth', call'[c].key)
             /\ \/ Refreshes(c) /\ call'[c].key.seat = call[c].key.seat
                \/ ~Used(auth, call'[c].key.seat)
  <2> DEFINE s == call'[c].key.seat
  <2>1. s \in SeatsWritten(serving[c]) /\ s \in Seats
    BY <1>3, <1>6 DEF Granted
  <2>2. call'[c].key # Nothing
    BY <2>1, RealKeys
  <2>3. Current(auth', call'[c].key)
    BY <1>1, <1>6, <2>1 DEF Current, Granted
  <2>4. CASE Refreshes(c)
    <3>1. s = call[c].key.seat
      BY <1>1, <1>2, <2>1, <2>4 DEF ServiceOK
    <3>2. Used(auth, s)
      BY <1>2, <2>4, <3>1 DEF KeysKnown, Known, Refreshes
    <3>3. QED
      BY <1>1, <2>1, <2>2, <2>3, <2>4, <3>1, <3>2 DEF Known
  <2>5. CASE ~Refreshes(c)
    <3>1. s \in Opens(serving[c])
      BY <1>1, <1>2, <2>1, <2>5 DEF ServiceOK
    <3>2. ~Used(auth, s)
      BY <1>1, <1>2, <3>1 DEF ServiceOK
    <3>3. QED
      BY <1>1, <2>2, <2>3, <3>1, <3>2 DEF Known
  <2>6. QED
    BY <2>4, <2>5
<1>7. KeysKnown'
  <2>1. /\ \A t \in Windows : page[t].held \in TrueKeys
        /\ stored \in TrueKeys /\ \A d \in PageCallers : call[d].key \in TrueKeys
    BY <1>2 DEF LoginsTypes, CallTypes
  <2>2. (\A t \in Windows : Known(auth', page'[t].held)) /\ Known(auth', stored')
    BY <1>2, <1>5, <2>1 DEF KeysKnown
  <2>3. ASSUME NEW d \in PageCallers, d # c
        PROVE  /\ Known(auth', call'[d].key)
               /\ call'[d].what \in {"refresh", "granted"} => call'[d].key # Nothing
               /\ call'[d].what = "refused" => call'[d].key = Nothing
               /\ call'[d].what = "granted" => call'[d].heard
    BY <1>2, <1>5, <2>1, <2>3 DEF KeysKnown
  <2>4. ASSUME c \in PageCallers
        PROVE  /\ Known(auth', call'[c].key)
               /\ call'[c].what \in {"refresh", "granted"} => call'[c].key # Nothing
               /\ call'[c].what = "refused" => call'[c].key = Nothing
               /\ call'[c].what = "granted" => call'[c].heard
    BY <1>6, <2>4 DEF Granted, Denied, Known
  <2>5. QED
    BY <2>2, <2>3, <2>4 DEF KeysKnown
<1>8. ASSUME Careful' PROVE KeysCurrent' /\ KeysApart'
  <2>1. Careful /\ KeysCurrent /\ KeysApart
    BY <1>8 DEF Careful, LoginsIInv
  <2>2. ASSUME NEW d \in PageCallers, Bears(d)'
        PROVE  \/ d # c /\ Bears(d) /\ call'[d] = call[d]
               \/ /\ d = c /\ Granted(c)
                  /\ \/ Bears(c) /\ call'[c].key.seat = call[c].key.seat
                     \/ ~Used(auth, call'[c].key.seat)
    BY <1>6, <2>2 DEF Bears, Granted, Denied, Refreshes
  <2>3. /\ \A t \in Windows : page[t].held \in TrueKeys /\ Known(auth, page[t].held)
        /\ stored \in TrueKeys /\ Known(auth, stored)
        /\ \A d \in PageCallers : call[d].key \in TrueKeys /\ Known(auth, call[d].key)
        /\ \A d \in PageCallers : Bears(d) => call[d].key # Nothing
    BY <1>2 DEF LoginsTypes, CallTypes, KeysKnown, Bears
  <2>4. \A k \in TrueKeys : k # Nothing /\ Known(auth, k) =>
            /\ k.seat \in Seats
            /\ k.seat \in SeatsWritten(serving[c]) => Refreshes(c) /\ k.seat = call[c].key.seat
    BY <1>1, KnownSeats
  <2>5. \A k \in TrueKeys : k # Nothing /\ Known(auth, k) /\ Current(auth, k) =>
            Current(auth', k) \/ (Refreshes(c) /\ k.seat = call[c].key.seat /\ SeatsWritten(serving[c]) # {})
    BY <1>1, <2>4 DEF Current
  <2>6. KeysCurrent'
    <3>1. ASSUME NEW d \in PageCallers, Bears(d)' PROVE Current(auth', call'[d].key)
      <4>1. CASE d = c
        BY <1>6, <2>2, <3>1, <4>1
      <4>2. CASE d # c
        <5>1. Bears(d) /\ call'[d] = call[d] /\ Current(auth, call[d].key)
          BY <2>1, <2>2, <3>1, <4>2 DEF KeysCurrent
        <5>2. ~(Refreshes(c) /\ call[d].key.seat = call[c].key.seat)
          BY <2>1, <4>2, <5>1 DEF KeysApart, Bears, Refreshes
        <5>3. QED
          BY <2>3, <2>5, <5>1, <5>2
      <4>3. QED
        BY <4>1, <4>2
    <3>2. ASSUME NEW t \in Windows, page[t].held # Nothing, ~Current(auth', page[t].held)
          PROVE  \E d \in PageCallers : /\ d[1] = t /\ call'[d].what = "granted"
                                        /\ call'[d].key.seat = page[t].held.seat
      <4>1. CASE Current(auth, page[t].held)
        <5>1. Refreshes(c) /\ page[t].held.seat = call[c].key.seat /\ SeatsWritten(serving[c]) # {}
          BY <2>3, <2>5, <3>2, <4>1
        <5>2. c \in PageCallers /\ Bears(c) /\ call[c].what = "refresh"
          BY <5>1 DEF Refreshes, Bears
        <5>3. c[1] = t /\ call[c].heard
          BY <2>1, <5>1, <5>2 DEF KeysApart
        <5>4. Granted(c)
          BY <2>1, <5>1, <5>2, <5>3
        <5>5. call'[c].key.seat = call[c].key.seat
          BY <1>1, <1>2, <5>1, <5>4 DEF ServiceOK, Granted
        <5>6. QED
          BY <5>1, <5>2, <5>3, <5>4, <5>5 DEF Granted
      <4>2. CASE ~Current(auth, page[t].held)
        <5>1. PICK d \in PageCallers : /\ d[1] = t /\ call[d].what = "granted"
                                       /\ call[d].key.seat = page[t].held.seat
          BY <2>1, <3>2, <4>2 DEF KeysCurrent
        <5>2. d # c
          BY <1>1, <1>2, <5>1 DEF ServiceOK
        <5>3. QED
          BY <5>1, <5>2
      <4>3. QED
        BY <4>1, <4>2
    <3>3. ASSUME stored # Nothing, ~Current(auth', stored) PROVE \E t \in Windows : page[t].held = stored
      <4>1. CASE Current(auth, stored)
        <5>1. Refreshes(c) /\ stored.seat = call[c].key.seat
          BY <2>3, <2>5, <3>3, <4>1
        <5>2. c \in PageCallers /\ Bears(c) /\ c[1] \in Windows
          BY <5>1, Callings DEF Refreshes, Bears
        <5>3. page[c[1]].held = stored
          BY <2>1, <5>1, <5>2 DEF KeysApart
        <5>4. QED
          BY <5>2, <5>3
      <4>2. CASE ~Current(auth, stored)
        BY <2>1, <3>3, <4>2 DEF KeysCurrent
      <4>3. QED
        BY <4>1, <4>2
    <3>4. QED
      BY <3>1, <3>2, <3>3 DEF KeysCurrent
  <2>7. \A k \in TrueKeys :
            Known(auth, k) /\ ~Used(auth, call'[c].key.seat) /\ Granted(c)
                => k.seat # call'[c].key.seat
    BY <1>3, RealKeys DEF Known, Granted
  <2>8. ASSUME NEW d \in PageCallers, Bears(d)'
        PROVE  \/ Bears(d) /\ call'[d].key.seat = call[d].key.seat
               \/ d = c /\ \A k \in TrueKeys : Known(auth, k) => k.seat # call'[c].key.seat
    BY <2>2, <2>7, <2>8
  <2>9. KeysApart'
    <3>1. ASSUME NEW d \in PageCallers, NEW e \in PageCallers, d # e, Bears(d)', Bears(e)'
          PROVE  call'[d].key.seat # call'[e].key.seat
      <4>1. CASE d # c /\ e # c
        BY <2>1, <2>2, <3>1, <4>1 DEF KeysApart
      <4>2. CASE d = c
        BY <2>1, <2>2, <2>3, <2>8, <3>1, <4>2 DEF KeysApart
      <4>3. CASE e = c
        BY <2>1, <2>2, <2>3, <2>8, <3>1, <4>3 DEF KeysApart
      <4>4. QED
        BY <4>1, <4>2, <4>3
    <3>2. ASSUME NEW d \in PageCallers, NEW t \in Windows, Bears(d)', t # d[1]
          PROVE  page[t].held.seat # call'[d].key.seat
      BY <2>1, <2>3, <2>8, <3>2 DEF KeysApart
    <3>3. ASSUME NEW d \in PageCallers, Bears(d)', stored.seat = call'[d].key.seat
          PROVE  page[d[1]].held.seat = stored.seat
      BY <2>1, <2>3, <2>8, <3>3 DEF KeysApart
    <3>4. ASSUME NEW d \in PageCallers, call'[d].what = "refresh", ~call'[d].heard
          PROVE  /\ stored.seat # call'[d].key.seat
                 /\ \A t \in Windows : page[t].held.seat # call'[d].key.seat
      <4>1. d # c
        BY <3>4 DEF Granted, Denied
      <4>2. QED
        BY <2>1, <3>4, <4>1 DEF KeysApart
    <3>5. QED
      BY <2>1, <3>1, <3>2, <3>3, <3>4 DEF KeysApart
  <2>10. QED
    BY <2>6, <2>9
<1>9. /\ \A d \in Callers : ServiceOK(d)'
      /\ \A d \in PageCallers : RefreshLives(d) => RefreshLives(d)'
  BY CommitService
<1>10. QED
  BY <1>4, <1>7, <1>8, <1>9 DEF LoginsIInv, Careful

LEMMA CompleteIInv ==
    ASSUME LoginsIInv, NEW c \in PageCallers, Complete(c)
    PROVE  LoginsIInv'
<1> DEFINE w == serving[c]
           new == NewKeys(w.was, w.is)
<1>1. /\ Server!Saves(c) /\ UNCHANGED <<minted, page, stored, atOnce, left, shared>>
      /\ \/ new = {} /\ Refused(c)
         \/ \E key \in new : Tells(c, [what |-> "granted", key |-> key, heard |-> TRUE])
  BY DEF Complete
<1>2. c \in Callers /\ call \in [PageCallers -> CallTypes]
  BY Callings DEF LoginsIInv, LoginsTypes
<1>3. Busy(c) /\ w.was \in TokenRows /\ w.is \in TokenRows
  BY <1>1, <1>2, CommitOfTokens
<1>4. \A key : key \in new <=>
        \E s \in Seats : /\ s \in SeatsWritten(w) /\ w.is.session[s].state = "live"
                         /\ key = [seat |-> s, token |-> w.is.session[s].token]
  BY DEF NewKeys, LiveSeats, SeatsWritten
<1>5. CASE new = {} /\ Refused(c)
  <2>1. PICK a \in {Silent, [Silent EXCEPT !.what = "refused"]} : call' = [call EXCEPT ![c] = a]
    BY <1>5 DEF Refused, Tells
  <2>2. a \in CallTypes /\ a.what \in {"none", "refused"} /\ a.key = Nothing
    BY SilentCalls
  <2>3. /\ call' \in [PageCallers -> CallTypes]
        /\ \A d \in PageCallers : d # c => call'[d] = call[d]
    BY <1>2, <2>1, <2>2
  <2>4. Denied(c)
    BY <1>2, <2>1, <2>2 DEF Denied
  <2>5. Careful /\ Refreshes(c) => SeatsWritten(w) = {}
    <3> SUFFICES ASSUME Careful, Refreshes(c), NEW s \in SeatsWritten(w) PROVE FALSE
      OBVIOUS
    <3>1. RefreshLives(c) /\ ServiceOK(c)
      BY <1>2 DEF LoginsIInv
    <3>2. s = call[c].key.seat
      BY <1>3, <3>1 DEF ServiceOK
    <3>3. w.is.session[s].state = "live"
      BY <1>3, <3>1, <3>2 DEF RefreshLives, Refreshes
    <3>4. s \in Seats
      BY DEF SeatsWritten
    <3>5. QED
      BY <1>4, <1>5, <3>3, <3>4
  <2> HIDE DEF w
  <2>6. QED
    BY <1>1, <1>2, <2>3, <2>4, <2>5, CommitIInv DEF w
<1>6. ASSUME NEW key \in new, Tells(c, [what |-> "granted", key |-> key, heard |-> TRUE])
      PROVE  LoginsIInv'
  <2>1. PICK s \in Seats : /\ s \in SeatsWritten(w)
                           /\ key = [seat |-> s, token |-> w.is.session[s].token]
    BY <1>4, <1>6
  <2>2. key \in TrueKeys /\ key.seat = s /\ key.token = w.is.session[s].token
    <3>1. w.is.session[s].token \in 0 .. MaxCalls
      BY <1>3, TokenColumns DEF TokenRow
    <3>2. QED
      BY <2>1, <3>1, RealKeys
  <2> DEFINE a == [what |-> "granted", key |-> key, heard |-> TRUE]
             b == IF call[c].heard THEN a ELSE Silent
  <2>3. /\ a \in CallTypes /\ a.what = "granted" /\ a.heard /\ a.key = key
    BY <2>2 DEF CallTypes
  <2>4. /\ Silent \in CallTypes /\ Silent.what \in {"none", "refused"} /\ Silent.key = Nothing
    BY SilentCalls
  <2>5. call' = [call EXCEPT ![c] = b]
    BY <1>6 DEF Tells
  <2> HIDE DEF a
  <2>6. /\ call' \in [PageCallers -> CallTypes]
        /\ \A d \in PageCallers : d # c => call'[d] = call[d]
        /\ call'[c] = b
    BY <1>2, <2>3, <2>4, <2>5
  <2>7. /\ call[c].heard => Granted(c)
        /\ ~call[c].heard => Denied(c)
    BY <2>1, <2>2, <2>3, <2>4, <2>6 DEF Granted, Denied
  <2>8. call[c].heard => ~Denied(c)
    BY <2>7 DEF Granted, Denied
  <2>9. QED
    BY <1>1, <1>2, <2>6, <2>7, <2>8, CommitIInv
<1>7. QED
  BY <1>1, <1>5, <1>6

(* A session ends without a commit. *)
LEMMA ServerStops ==
    ASSUME LoginsIInv, NEW c \in Callers, UNCHANGED <<auth, calls, minted>>,
           \/ serving' = [serving EXCEPT ![c] = Server!Idle]
           \/ serving' = serving /\ serving[c] = Server!Idle,
           \A d \in PageCallers : d # c => call'[d] = call[d]
    PROVE  /\ serving' = [d \in Callers |-> serving'[d]]
           /\ \A d \in Callers : ServiceTypes(serving'[d]) /\ ServiceOK(d)'
           /\ \A d \in PageCallers : RefreshLives(d) => RefreshLives(d)'
<1>1. /\ serving = [d \in Callers |-> serving[d]]
      /\ \A d \in Callers : ServiceTypes(serving[d]) /\ ServiceOK(d)
  BY DEF LoginsIInv, LoginsTypes
<1>2. /\ serving' = [d \in Callers |-> serving'[d]]
      /\ serving'[c] = Server!Idle /\ \A d \in Callers : d # c => serving'[d] = serving[d]
  BY <1>1
<1>3. ServiceTypes(Server!Idle) /\ Server!Idle.at # "ready"
  BY DEF ServiceTypes, Server!Idle
<1>4. \A d \in Callers : ServiceTypes(serving'[d]) /\ (Busy(d)' => d # c /\ Busy(d))
  BY <1>1, <1>2, <1>3 DEF Busy
<1>5. ASSUME NEW d \in Callers PROVE ServiceOK(d)'
  <2>1. CASE d = c
    BY <1>4, <2>1 DEF ServiceOK
  <2>2. CASE d # c
    <3>1. /\ serving'[d] = serving[d] /\ ServiceOK(d) /\ Refreshes(d)' = Refreshes(d)
          /\ d \in PageCallers => call'[d] = call[d]
          /\ Refreshes(d) => d \in PageCallers
      BY <1>1, <1>2, <2>2 DEF Refreshes
    <3>2. \A e \in Callers : Busy(e)' => Busy(e) /\ serving'[e] = serving[e]
      BY <1>2, <1>4
    <3>3. Busy(d)' = Busy(d)
      BY <3>1 DEF Busy
    <3>4. QED
      BY <3>1, <3>2, <3>3 DEF ServiceOK
  <2>3. QED
    BY <2>1, <2>2
<1>6. ASSUME NEW d \in PageCallers, RefreshLives(d) PROVE RefreshLives(d)'
  BY <1>2, <1>4, <1>6, Callings DEF RefreshLives, Busy
<1>7. QED
  BY <1>2, <1>4, <1>5, <1>6

(* One call, and no more, is given up. *)
LEMMA CallEnds ==
    ASSUME LoginsIInv, NEW c \in PageCallers, UNCHANGED <<auth, page, stored>>,
           NEW a \in {Silent, [Silent EXCEPT !.what = "refused"]}, call[c].what # "granted",
           call' = [call EXCEPT ![c] = a]
    PROVE  /\ call' \in [PageCallers -> CallTypes] /\ KeysKnown'
           /\ \A d \in PageCallers : d # c => call'[d] = call[d]
           /\ KeysCurrent /\ KeysApart => KeysCurrent' /\ KeysApart'
<1>1. a \in CallTypes /\ a.what \in {"none", "refused"} /\ a.key = Nothing
  BY SilentCalls
<1>2. call \in [PageCallers -> CallTypes] /\ KeysKnown
  BY DEF LoginsIInv, LoginsTypes
<1>3. /\ call' \in [PageCallers -> CallTypes] /\ call'[c] = a
      /\ \A d \in PageCallers : d # c => call'[d] = call[d]
  BY <1>1, <1>2
<1>4. KeysKnown'
  BY <1>1, <1>2, <1>3 DEF KeysKnown, Known
<1>5. \A d \in PageCallers : d = c \/ call'[d] = call[d]
  BY <1>3
<1>6. ~Bears(c)' /\ \A d \in PageCallers : Bears(d)' => Bears(d) /\ d # c /\ call'[d] = call[d]
  BY <1>1, <1>3 DEF Bears
<1>7. KeysCurrent => KeysCurrent'
  <2> SUFFICES ASSUME KeysCurrent PROVE KeysCurrent'
    OBVIOUS
  <2>1. \A d \in PageCallers : Bears(d)' => Current(auth, call'[d].key)
    BY <1>6 DEF KeysCurrent
  <2>2. \A d \in PageCallers : call[d].what = "granted" => call'[d] = call[d]
    BY <1>5
  <2>3. QED
    BY <2>1, <2>2 DEF KeysCurrent
<1>8. KeysApart => KeysApart'
  <2> SUFFICES ASSUME KeysApart PROVE KeysApart'
    OBVIOUS
  <2>1. \A d \in PageCallers : call'[d].what = "refresh" => d # c /\ call'[d] = call[d]
    BY <1>1, <1>3
  <2>2. QED
    BY <1>6, <2>1 DEF KeysApart
<1>9. QED
  BY <1>3, <1>4, <1>7, <1>8

LEMMA TurnAwayIInv ==
    ASSUME LoginsIInv, NEW c \in PageCallers, TurnAway(c)
    PROVE  LoginsIInv'
<1>1. /\ UNCHANGED <<auth, calls, minted, page, stored, atOnce, left, shared>>
      /\ \/ serving' = [serving EXCEPT ![c] = Server!Idle]
         \/ serving' = serving /\ serving[c] = Server!Idle
      /\ call[c].what # "granted"
  BY DEF TurnAway, Server!Drops
<1>2. PICK a \in {Silent, [Silent EXCEPT !.what = "refused"]} : call' = [call EXCEPT ![c] = a]
  BY DEF TurnAway, Refused, Tells
<1>3. /\ call' \in [PageCallers -> CallTypes] /\ KeysKnown'
      /\ \A d \in PageCallers : d # c => call'[d] = call[d]
      /\ KeysCurrent /\ KeysApart => KeysCurrent' /\ KeysApart'
  BY <1>1, <1>2, CallEnds
<1>4. c \in Callers
  BY Callings
<1>5. /\ serving' = [d \in Callers |-> serving'[d]]
      /\ \A d \in Callers : ServiceTypes(serving'[d]) /\ ServiceOK(d)'
      /\ \A d \in PageCallers : RefreshLives(d) => RefreshLives(d)'
  BY <1>1, <1>3, <1>4, ServerStops
<1>6. LoginsTypes'
  BY <1>1, <1>3, <1>5 DEF LoginsIInv, LoginsTypes
<1>7. QED
  BY <1>1, <1>3, <1>5, <1>6 DEF LoginsIInv, Careful

LEMMA CommitElsewhereIInv ==
    ASSUME LoginsIInv, CommitElsewhere
    PROVE  LoginsIInv'
<1>1. Elsewhere \in Callers /\ Elsewhere \notin PageCallers /\ ~Refreshes(Elsewhere)
  BY Callings DEF Callers, Refreshes
<1>2. /\ UNCHANGED <<minted, page, stored, call, atOnce, left, shared>>
      /\ call' \in [PageCallers -> CallTypes]
  BY DEF CommitElsewhere, clientVars, LoginsIInv, LoginsTypes
<1>3. CASE Server!Saves(Elsewhere)
  BY <1>1, <1>2, <1>3, CommitIInv
<1>4. CASE Server!Drops(Elsewhere)
  <2>1. serving' = [serving EXCEPT ![Elsewhere] = Server!Idle] /\ UNCHANGED <<auth, calls>>
    BY <1>4 DEF Server!Drops
  <2>2. /\ serving' = [d \in Callers |-> serving'[d]]
        /\ \A d \in Callers : ServiceTypes(serving'[d]) /\ ServiceOK(d)'
        /\ \A d \in PageCallers : RefreshLives(d) => RefreshLives(d)'
    BY <1>1, <1>2, <2>1, ServerStops
  <2>3. LoginsTypes'
    BY <1>2, <2>1, <2>2 DEF LoginsIInv, LoginsTypes
  <2>4. /\ KeysKnown' = KeysKnown /\ KeysCurrent' = KeysCurrent /\ KeysApart' = KeysApart
    BY <1>2, <2>1 DEF KeysKnown, KeysCurrent, KeysApart, Bears
  <2>5. QED
    BY <1>2, <2>2, <2>3, <2>4 DEF LoginsIInv, Careful
<1>5. QED
  BY <1>3, <1>4 DEF CommitElsewhere

-----------------------------------------------------------------------------
(* The browser *)

LEMMA ServerRests ==
    ASSUME LoginsIInv, UNCHANGED <<auth, serving>>,
           \A c \in PageCallers : call[c].what \in {"signin", "refresh", "signout"} =>
                call'[c].what = call[c].what /\ call'[c].key = call[c].key
    PROVE  /\ \A c \in Callers : ServiceOK(c)'
           /\ \A c \in PageCallers : RefreshLives(c) => RefreshLives(c)'
<1>1. \A c \in Callers : Busy(c)' = Busy(c) /\ ServiceOK(c)
  BY DEF Busy, LoginsIInv
<1>2. ASSUME NEW c \in PageCallers, Busy(c)
      PROVE  call'[c].what = call[c].what /\ call'[c].key = call[c].key
  BY <1>1, <1>2, Callings DEF ServiceOK
<1>3. ASSUME NEW c \in Callers PROVE ServiceOK(c)'
  <2>1. CASE Busy(c)
    <3>1. /\ c \in PageCallers => call'[c].what = call[c].what /\ call'[c].key = call[c].key
          /\ Refreshes(c) => c \in PageCallers /\ call'[c].key = call[c].key
          /\ Refreshes(c)' <=> Refreshes(c)
      BY <1>2, <2>1 DEF Refreshes
    <3>2. \A d \in Callers : Busy(d)' <=> Busy(d)
      BY <1>1
    <3>3. CASE Refreshes(c)
      BY <1>1, <3>1, <3>2, <3>3 DEF ServiceOK
    <3>4. CASE ~Refreshes(c)
      BY <1>1, <3>1, <3>2, <3>4 DEF ServiceOK
    <3>5. QED
      BY <3>3, <3>4
  <2>2. CASE ~Busy(c)
    BY <1>1, <2>2 DEF ServiceOK
  <2>3. QED
    BY <2>1, <2>2
<1>4. ASSUME NEW c \in PageCallers, RefreshLives(c) PROVE RefreshLives(c)'
  BY <1>1, <1>2, <1>4, Callings DEF RefreshLives
<1>5. QED
  BY <1>3, <1>4

LEMMA OpenPageIInv ==
    ASSUME LoginsIInv, NEW t \in Windows, OpenPage(t)
    PROVE  LoginsIInv'
<1>1. /\ page' = [page EXCEPT ![t] = [open |-> TRUE, held |-> stored]]
      /\ UNCHANGED <<auth, serving, calls, minted, stored, call, atOnce, left>>
      /\ shared' = (shared \/ \E u \in Windows : SignedIn(u) /\ page[u].held.seat = stored.seat)
  BY DEF OpenPage
<1>2. /\ LoginsTypes /\ KeysKnown
      /\ page \in [Windows -> [open : BOOLEAN, held : TrueKeys]] /\ stored \in TrueKeys
  BY DEF LoginsIInv, LoginsTypes
<1>3. page'[t].held = stored /\ \A u \in Windows : u # t => page'[u] = page[u]
  BY <1>1, <1>2
<1>4. LoginsTypes'
  <2>1. shared' \in BOOLEAN
    BY <1>1
  <2>2. page' \in [Windows -> [open : BOOLEAN, held : TrueKeys]]
    BY <1>1, <1>2
  <2>3. QED
    BY <1>1, <1>2, <2>1, <2>2 DEF LoginsTypes
<1>5. KeysKnown'
  BY <1>1, <1>2, <1>3 DEF KeysKnown
<1>6. ASSUME Careful' PROVE Careful /\ (KeysCurrent /\ KeysApart => KeysCurrent' /\ KeysApart')
  <2>1. Careful /\ \A u \in Windows : page[u].held # Nothing => page[u].held.seat # stored.seat
    BY <1>1, <1>6 DEF Careful, SignedIn
  <2> SUFFICES ASSUME KeysCurrent, KeysApart PROVE KeysCurrent' /\ KeysApart'
    BY <2>1
  <2>2. \A d \in PageCallers : Bears(d)' = Bears(d)
    BY <1>1 DEF Bears
  <2>3. stored = Nothing \/ Current(auth, stored)
    BY <2>1 DEF KeysCurrent
  <2>4. KeysCurrent'
    <3>1. \A u \in Windows : page[u].held = stored => page'[u].held = stored
      BY <1>3
    <3>2. QED
      BY <1>1, <1>3, <2>2, <2>3, <3>1 DEF KeysCurrent
  <2>5. stored = Nothing \/ stored.seat \in Seats
    BY <1>2, RealKeys
  <2>6. \A d \in PageCallers : Bears(d) => call[d].key.seat \in Seats
    BY <1>2, RealKeys DEF KeysKnown, LoginsTypes, CallTypes, Bears
  <2>7. ASSUME NEW d \in PageCallers, Bears(d) PROVE stored.seat # call[d].key.seat
    <3> SUFFICES ASSUME stored.seat = call[d].key.seat PROVE FALSE
      OBVIOUS
    <3>1. page[d[1]].held.seat = stored.seat /\ d[1] \in Windows
      BY <2>7, Callings DEF KeysApart
    <3>2. page[d[1]].held = Nothing
      BY <2>1, <3>1
    <3>3. QED
      BY <2>6, <2>7, <3>1, <3>2, RealKeys
  <2>8. KeysApart'
    <3>1. ASSUME NEW u \in Windows, NEW v \in Windows, u # v, page'[u].held # Nothing
          PROVE  page'[u].held.seat # page'[v].held.seat
      <4>1. CASE u = t
        <5>1. page'[v].held = page[v].held /\ page'[u].held = stored
          BY <1>3, <3>1, <4>1
        <5>2. QED
          BY <2>1, <2>5, <3>1, <5>1, RealKeys
      <4>2. CASE v = t
        BY <1>3, <2>1, <3>1, <4>2
      <4>3. CASE u # t /\ v # t
        BY <1>3, <3>1, <4>3 DEF KeysApart
      <4>4. QED
        BY <4>1, <4>2, <4>3
    <3>2. ASSUME NEW d \in PageCallers, NEW u \in Windows, Bears(d), u # d[1]
          PROVE  page'[u].held.seat # call[d].key.seat
      BY <1>3, <2>7, <3>2 DEF KeysApart
    <3>3. ASSUME NEW d \in PageCallers, call[d].what = "refresh", ~call[d].heard, NEW u \in Windows
          PROVE  page'[u].held.seat # call[d].key.seat
      BY <1>3, <3>3 DEF KeysApart
    <3>4. \A u \in Windows : page'[u].held.seat = stored.seat => page'[u].held = stored
      BY <1>3 DEF KeysApart
    <3>5. \A d \in PageCallers : Bears(d) => stored.seat # call[d].key.seat
      BY <2>7
    <3>6. UNCHANGED <<call, stored>>
      BY <1>1
    <3>7. QED
      BY <2>2, <3>1, <3>2, <3>3, <3>4, <3>5, <3>6 DEF KeysApart
  <2>9. QED
    BY <2>4, <2>8
<1>7. /\ \A c \in Callers : ServiceOK(c)'
      /\ \A c \in PageCallers : RefreshLives(c) => RefreshLives(c)'
  BY <1>1, ServerRests
<1>8. QED
  BY <1>4, <1>5, <1>6, <1>7 DEF LoginsIInv

LEMMA ClosePageIInv ==
    ASSUME LoginsIInv, NEW t \in Windows, ClosePage(t)
    PROVE  LoginsIInv'
<1>1. /\ page' = [page EXCEPT ![t] = Shut]
      /\ UNCHANGED <<auth, serving, calls, minted, stored, atOnce, shared>>
      /\ left' = (left \/ \E c \in PageCallers :
                            c[1] = t /\ call[c].what \in {"refresh", "granted"})
      /\ call' = [c \in PageCallers |->
            IF c[1] # t THEN call[c]
            ELSE IF call[c].what \in {"signin", "refresh", "signout"}
                 THEN [call[c] EXCEPT !.heard = FALSE] ELSE Silent]
  BY DEF ClosePage
<1>2. /\ LoginsTypes /\ KeysKnown
      /\ page \in [Windows -> [open : BOOLEAN, held : TrueKeys]] /\ stored \in TrueKeys
      /\ call \in [PageCallers -> CallTypes]
  BY DEF LoginsIInv, LoginsTypes
<1>3. Shut \in [open : BOOLEAN, held : TrueKeys] /\ Shut.held = Nothing
  BY RealKeys DEF Shut
<1>4. Silent \in CallTypes /\ Silent.what \in {"none", "refused"} /\ Silent.key = Nothing
  BY SilentCalls
<1>5. /\ \A u \in Windows : page'[u] = IF u = t THEN Shut ELSE page[u]
      /\ page' \in [Windows -> [open : BOOLEAN, held : TrueKeys]]
  BY <1>1, <1>2, <1>3
<1>6. ASSUME NEW c \in PageCallers
      PROVE  /\ call'[c] \in CallTypes
             /\ c[1] # t => call'[c] = call[c]
             /\ c[1] = t /\ call[c].what \in {"signin", "refresh", "signout"} =>
                    call'[c].what = call[c].what /\ call'[c].key = call[c].key
             /\ c[1] = t /\ call[c].what \notin {"signin", "refresh", "signout"} =>
                    call'[c] = Silent
  <2>1. call[c] \in CallTypes
    BY <1>2
  <2>2. QED
    BY <1>1, <1>4, <2>1 DEF CallTypes
<1>7. LoginsTypes'
  <2>1. left' \in BOOLEAN
    BY <1>1
  <2>2. call' \in [PageCallers -> CallTypes]
    BY <1>1, <1>6
  <2>3. QED
    BY <1>1, <1>2, <1>5, <2>1, <2>2 DEF LoginsTypes
<1>8. KeysKnown'
  <2>1. \A u \in Windows : Known(auth, page'[u].held)
    BY <1>2, <1>3, <1>5 DEF KeysKnown, Known
  <2>2. ASSUME NEW c \in PageCallers
        PROVE  /\ Known(auth, call'[c].key)
               /\ call'[c].what \in {"refresh", "granted"} => call'[c].key # Nothing
               /\ call'[c].what = "refused" => call'[c].key = Nothing
               /\ call'[c].what = "granted" => call'[c].heard
    <3>1. CASE c[1] # t
      BY <1>2, <1>6, <3>1 DEF KeysKnown
    <3>2. CASE c[1] = t /\ call[c].what \in {"signin", "refresh", "signout"}
      BY <1>2, <1>6, <3>2 DEF KeysKnown
    <3>3. CASE c[1] = t /\ call[c].what \notin {"signin", "refresh", "signout"}
      <4>1. call'[c] = Silent /\ Silent.what # "granted"
        BY <1>4, <1>6, <3>3
      <4>2. QED
        BY <1>4, <4>1 DEF Known
    <3>4. QED
      BY <3>1, <3>2, <3>3
  <2>3. QED
    BY <1>1, <1>2, <2>1, <2>2 DEF KeysKnown
<1>9. ASSUME Careful' PROVE Careful /\ (KeysCurrent /\ KeysApart => KeysCurrent' /\ KeysApart')
  <2>1. Careful /\ \A c \in PageCallers : Bears(c) => c[1] # t
    BY <1>1, <1>9 DEF Careful, Bears
  <2>2. \A c \in PageCallers : Bears(c)' => c[1] # t /\ Bears(c) /\ call'[c] = call[c]
    <3> SUFFICES ASSUME NEW c \in PageCallers, Bears(c)'
                 PROVE  c[1] # t /\ Bears(c) /\ call'[c] = call[c]
      OBVIOUS
    <3>1. CASE c[1] # t
      BY <1>6, <3>1 DEF Bears
    <3>2. CASE c[1] = t
      <4>1. call[c].what \in {"signin", "refresh", "signout"}
        BY <1>4, <1>6, <3>2 DEF Bears
      <4>2. Bears(c)
        BY <1>6, <3>2, <4>1 DEF Bears
      <4>3. QED
        BY <2>1, <3>2, <4>2
    <3>3. QED
      BY <3>1, <3>2
  <2> SUFFICES ASSUME KeysCurrent, KeysApart PROVE KeysCurrent' /\ KeysApart'
    BY <2>1
  <2>3. ASSUME NEW c \in PageCallers, call[c].what = "granted" PROVE call'[c] = call[c] /\ c[1] # t
    BY <1>6, <2>1, <2>3 DEF Bears
  <2>4. \A u \in Windows : page'[u].held = Nothing \/ (u # t /\ page'[u] = page[u])
    BY <1>3, <1>5
  <2>5. KeysCurrent'
    <3>1. \A c \in PageCallers : Bears(c)' => Current(auth, call'[c].key)
      BY <2>2 DEF KeysCurrent
    <3>2. ASSUME NEW u \in Windows, page'[u].held # Nothing, ~Current(auth, page'[u].held)
          PROVE  \E c \in PageCallers : /\ c[1] = u /\ call'[c].what = "granted"
                                        /\ call'[c].key.seat = page'[u].held.seat
      <4>1. u # t /\ page'[u] = page[u]
        BY <2>4, <3>2
      <4>2. PICK c \in PageCallers : /\ c[1] = u /\ call[c].what = "granted"
                                     /\ call[c].key.seat = page[u].held.seat
        BY <3>2, <4>1 DEF KeysCurrent
      <4>3. QED
        BY <2>3, <4>1, <4>2
    <3>3. ASSUME stored # Nothing, ~Current(auth, stored)
          PROVE  \E u \in Windows : page'[u].held = stored
      <4>1. PICK u \in Windows : page[u].held = stored
        BY <3>3 DEF KeysCurrent
      <4>2. PICK c \in PageCallers : c[1] = u /\ call[c].what = "granted"
        BY <3>3, <4>1 DEF KeysCurrent
      <4>3. u # t
        BY <2>3, <4>2
      <4>4. QED
        BY <1>5, <4>1, <4>3
    <3>4. QED
      BY <1>1, <3>1, <3>2, <3>3 DEF KeysCurrent
  <2>6. KeysApart'
    <3>1. ASSUME NEW u \in Windows, NEW v \in Windows, u # v, page'[u].held # Nothing
          PROVE  page'[u].held.seat # page'[v].held.seat
      <4>1. u # t /\ page'[u] = page[u]
        BY <2>4, <3>1
      <4>2. CASE v = t
        <5>1. page'[v].held = Nothing /\ page[u].held.seat \in Seats
          BY <1>2, <1>3, <1>5, <3>1, <4>1, <4>2, RealKeys
        <5>2. QED
          BY <4>1, <5>1, RealKeys
      <4>3. CASE v # t
        BY <1>5, <3>1, <4>1, <4>3 DEF KeysApart
      <4>4. QED
        BY <4>2, <4>3
    <3>2. \A c, d \in PageCallers :
            c # d /\ Bears(c)' /\ Bears(d)' => call'[c].key.seat # call'[d].key.seat
      BY <2>2 DEF KeysApart
    <3>3. \A c \in PageCallers : Bears(c)' => call'[c].key.seat \in Seats
      BY <1>2, <2>2, RealKeys DEF KeysKnown, LoginsTypes, CallTypes, Bears
    <3>4. ASSUME NEW c \in PageCallers, NEW u \in Windows, Bears(c)', u # c[1]
          PROVE  page'[u].held.seat # call'[c].key.seat
      BY <2>2, <2>4, <3>3, <3>4, RealKeys DEF KeysApart
    <3>5. ASSUME NEW c \in PageCallers, Bears(c)', stored.seat = call'[c].key.seat
          PROVE  page'[c[1]].held.seat = stored.seat
      BY <1>5, <2>2, <3>5, Callings DEF KeysApart
    <3>6. ASSUME NEW u \in Windows, page'[u].held.seat = stored.seat PROVE page'[u].held = stored
      BY <1>2, <2>4, <3>6, RealKeys DEF KeysApart
    <3>7. ASSUME NEW c \in PageCallers, call'[c].what = "refresh", ~call'[c].heard
          PROVE  /\ stored.seat # call'[c].key.seat
                 /\ \A u \in Windows : page'[u].held.seat # call'[c].key.seat
      <4>1. Bears(c)'
        BY <3>7 DEF Bears
      <4>2. call'[c] = call[c] /\ call'[c].key.seat \in Seats
        BY <2>2, <3>3, <4>1
      <4>3. QED
        BY <2>4, <3>7, <4>2, RealKeys DEF KeysApart
    <3>8. QED
      BY <1>1, <3>1, <3>2, <3>4, <3>5, <3>6, <3>7 DEF KeysApart
  <2>7. QED
    BY <2>5, <2>6
<1>10. /\ \A c \in Callers : ServiceOK(c)'
       /\ \A c \in PageCallers : RefreshLives(c) => RefreshLives(c)'
  BY <1>1, <1>6, ServerRests
<1>11. QED
  BY <1>7, <1>8, <1>9, <1>10 DEF LoginsIInv

LEMMA AsksIInv ==
    ASSUME LoginsIInv, NEW c \in PageCallers, NEW what \in {"signin", "refresh", "signout"},
           Asks(c, what), UNCHANGED shared, atOnce' \in BOOLEAN, atOnce => atOnce',
           what = "refresh" => SignedIn(c[1]),
           Careful' /\ what = "refresh" => \A d \in PageCallers : d[1] = c[1] => ~Bears(d)
    PROVE  LoginsIInv'
<1> DEFINE a == [what |-> what, key |-> page[c[1]].held, heard |-> TRUE]
<1>1. /\ call[c].what = "none" /\ call' = [call EXCEPT ![c] = a]
      /\ UNCHANGED <<auth, serving, calls, minted, page, stored, left>>
  BY DEF Asks, Waits
<1>2. /\ LoginsTypes /\ KeysKnown /\ call \in [PageCallers -> CallTypes] /\ c[1] \in Windows
      /\ \A t \in Windows : page[t].held \in TrueKeys /\ Known(auth, page[t].held)
  BY Callings DEF LoginsIInv, LoginsTypes, KeysKnown
<1>3. a \in CallTypes /\ a.what = what /\ a.key = page[c[1]].held /\ a.heard
  BY <1>2 DEF CallTypes
<1> HIDE DEF a
<1>4. /\ call' \in [PageCallers -> CallTypes] /\ call'[c] = a
      /\ \A d \in PageCallers : d # c => call'[d] = call[d]
  BY <1>1, <1>2, <1>3
<1>5. LoginsTypes'
  BY <1>1, <1>2, <1>4 DEF LoginsTypes
<1>6. KeysKnown'
  <2>1. a.what # "granted" /\ a.what # "refused" /\ Known(auth, a.key)
    BY <1>2, <1>3
  <2>2. a.what = "refresh" => a.key # Nothing
    BY <1>3 DEF SignedIn
  <2>3. ASSUME NEW d \in PageCallers
        PROVE  /\ Known(auth, call'[d].key)
               /\ call'[d].what \in {"refresh", "granted"} => call'[d].key # Nothing
               /\ call'[d].what = "refused" => call'[d].key = Nothing
               /\ call'[d].what = "granted" => call'[d].heard
    <3>1. CASE d = c
      BY <1>4, <2>1, <2>2, <3>1
    <3>2. CASE d # c
      BY <1>2, <1>4, <3>2 DEF KeysKnown
    <3>3. QED
      BY <3>1, <3>2
  <2>4. QED
    BY <1>1, <1>2, <2>3 DEF KeysKnown
<1>7. ASSUME Careful' PROVE Careful /\ (KeysCurrent /\ KeysApart => KeysCurrent' /\ KeysApart')
  <2>1. Careful
    BY <1>1, <1>7 DEF Careful
  <2> SUFFICES ASSUME KeysCurrent, KeysApart PROVE KeysCurrent' /\ KeysApart'
    BY <2>1
  <2>2. ASSUME NEW d \in PageCallers, Bears(d)'
        PROVE  \/ d # c /\ Bears(d) /\ call'[d] = call[d]
               \/ /\ d = c /\ what = "refresh" /\ call'[c].key = page[c[1]].held
                  /\ page[c[1]].held # Nothing
    <3>1. CASE d = c
      <4>1. what = "refresh"
        BY <1>3, <1>4, <2>2, <3>1 DEF Bears
      <4>2. QED
        BY <1>3, <1>4, <3>1, <4>1 DEF SignedIn
    <3>2. CASE d # c
      BY <1>4, <2>2, <3>2 DEF Bears
    <3>3. QED
      BY <3>1, <3>2
  <2>3. what = "refresh" => \A d \in PageCallers : d[1] = c[1] => ~Bears(d)
    BY <1>7
  <2>4. \A d \in PageCallers : call[d].what = "granted" => d # c /\ call'[d] = call[d]
    BY <1>1, <1>4
  <2>5. KeysCurrent'
    <3>1. ASSUME NEW d \in PageCallers, Bears(d)' PROVE Current(auth, call'[d].key)
      <4>1. CASE d # c /\ Bears(d) /\ call'[d] = call[d]
        BY <4>1 DEF KeysCurrent
      <4>2. CASE /\ d = c /\ what = "refresh" /\ call'[c].key = page[c[1]].held
                 /\ page[c[1]].held # Nothing
        BY <1>2, <2>3, <4>2 DEF KeysCurrent, Bears
      <4>3. QED
        BY <2>2, <3>1, <4>1, <4>2
    <3>2. QED
      BY <1>1, <2>4, <3>1 DEF KeysCurrent
  <2>6. KeysApart'
    <3>1. ASSUME NEW d \in PageCallers, NEW e \in PageCallers, d # e, Bears(d)', Bears(e)'
          PROVE  call'[d].key.seat # call'[e].key.seat
      <4>1. CASE d # c /\ e # c
        BY <2>2, <3>1, <4>1 DEF KeysApart
      <4>2. ASSUME NEW f \in PageCallers, f # c, Bears(f)', Bears(c)'
            PROVE  call'[f].key.seat # call'[c].key.seat
        <5>1. /\ Bears(f) /\ call'[f] = call[f] /\ what = "refresh"
              /\ call'[c].key = page[c[1]].held
          BY <2>2, <4>2
        <5>2. f[1] # c[1]
          BY <2>3, <5>1
        <5>3. QED
          BY <1>2, <5>1, <5>2 DEF KeysApart
      <4>3. QED
        BY <3>1, <4>1, <4>2
    <3>2. ASSUME NEW d \in PageCallers, NEW t \in Windows, Bears(d)', t # d[1]
          PROVE  page[t].held.seat # call'[d].key.seat
      <4>1. CASE d # c /\ Bears(d) /\ call'[d] = call[d]
        BY <3>2, <4>1 DEF KeysApart
      <4>2. CASE d = c /\ call'[c].key = page[c[1]].held /\ page[c[1]].held # Nothing
        BY <1>2, <3>2, <4>2 DEF KeysApart
      <4>3. QED
        BY <2>2, <3>2, <4>1, <4>2
    <3>3. ASSUME NEW d \in PageCallers, Bears(d)', stored.seat = call'[d].key.seat
          PROVE  page[d[1]].held.seat = stored.seat
      BY <2>2, <3>3 DEF KeysApart
    <3>4. ASSUME NEW d \in PageCallers, call'[d].what = "refresh", ~call'[d].heard
          PROVE  /\ stored.seat # call'[d].key.seat
                 /\ \A t \in Windows : page[t].held.seat # call'[d].key.seat
      <4>1. d # c
        BY <1>3, <1>4, <3>4
      <4>2. QED
        BY <1>4, <3>4, <4>1 DEF KeysApart
    <3>5. UNCHANGED <<page, stored>>
      BY <1>1
    <3>6. QED
      BY <3>1, <3>2, <3>3, <3>4, <3>5 DEF KeysApart
  <2>7. QED
    BY <2>5, <2>6
<1>8. /\ \A d \in Callers : ServiceOK(d)'
      /\ \A d \in PageCallers : RefreshLives(d) => RefreshLives(d)'
  <2>1. ASSUME NEW d \in PageCallers, call[d].what \in {"signin", "refresh", "signout"}
        PROVE  call'[d].what = call[d].what /\ call'[d].key = call[d].key
    BY <1>1, <1>4, <2>1
  <2>2. QED
    BY <1>1, <2>1, ServerRests
<1>9. QED
  BY <1>5, <1>6, <1>7, <1>8 DEF LoginsIInv

(* A page and the localStorage take a key, or none, and a call is over or goes
   on unheard. *)
LEMMA KeepsIInv ==
    ASSUME LoginsIInv, NEW c \in PageCallers, NEW key \in TrueKeys, NEW a \in CallTypes,
           Keeps(c[1], key), call' = [call EXCEPT ![c] = a],
           UNCHANGED <<auth, serving, calls, minted, atOnce, left, shared>>,
           key = Nothing \/ (call[c].what = "granted" /\ key = call[c].key),
           \/ a.what = "none" /\ a.key = Nothing /\ call[c].what \in {"granted", "refused"}
           \/ /\ a.what = call[c].what /\ a.key = call[c].key
              /\ a.what \in {"refresh", "signout"} /\ key = Nothing
    PROVE  LoginsIInv'
<1> DEFINE t == c[1]
<1>1. page' = [page EXCEPT ![t].held = key] /\ stored' = key
  BY DEF Keeps
<1>2. /\ LoginsTypes /\ KeysKnown /\ call \in [PageCallers -> CallTypes] /\ t \in Windows
      /\ page \in [Windows -> [open : BOOLEAN, held : TrueKeys]]
  BY Callings DEF LoginsIInv, LoginsTypes
<1>3. /\ page' \in [Windows -> [open : BOOLEAN, held : TrueKeys]] /\ page'[t].held = key
      /\ \A u \in Windows : u # t => page'[u] = page[u]
  BY <1>1, <1>2
<1>4. /\ call' \in [PageCallers -> CallTypes] /\ call'[c] = a
      /\ \A d \in PageCallers : d # c => call'[d] = call[d]
  BY <1>2
<1> HIDE DEF t
<1>5. LoginsTypes'
  BY <1>1, <1>2, <1>3, <1>4 DEF LoginsTypes
<1>6. Known(auth, key)
  BY <1>2 DEF KeysKnown, Known
<1>7. KeysKnown'
  <2>1. \A u \in Windows : Known(auth, page'[u].held)
    BY <1>2, <1>3, <1>6 DEF KeysKnown
  <2>2. ASSUME NEW d \in PageCallers
        PROVE  /\ Known(auth, call'[d].key)
               /\ call'[d].what \in {"refresh", "granted"} => call'[d].key # Nothing
               /\ call'[d].what = "refused" => call'[d].key = Nothing
               /\ call'[d].what = "granted" => call'[d].heard
    <3>1. CASE d = c
      <4>1. CASE a.what = "none" /\ a.key = Nothing
        BY <1>4, <3>1, <4>1 DEF Known
      <4>2. CASE a.what = call[c].what /\ a.key = call[c].key /\ a.what \in {"refresh", "signout"}
        BY <1>2, <1>4, <3>1, <4>2 DEF KeysKnown
      <4>3. QED
        BY <4>1, <4>2
    <3>2. CASE d # c
      BY <1>2, <1>4, <3>2 DEF KeysKnown
    <3>3. QED
      BY <3>1, <3>2
  <2>3. QED
    BY <1>1, <1>6, <2>1, <2>2 DEF KeysKnown
<1>8. ASSUME KeysCurrent, KeysApart PROVE KeysCurrent' /\ KeysApart'
  <2>1. \A d \in PageCallers : Bears(d)' => Bears(d) /\ call'[d].key = call[d].key
    <3>1. CASE a.what = "none"
      BY <1>4, <3>1 DEF Bears
    <3>2. CASE a.what = call[c].what /\ a.key = call[c].key
      BY <1>4, <3>2 DEF Bears
    <3>3. QED
      BY <3>1, <3>2
  <2>2. key = Nothing \/ (Bears(c) /\ ~Bears(c)' /\ key = call[c].key)
    <3>1. CASE key # Nothing
      BY <1>4, <3>1 DEF Bears
    <3>2. QED
      BY <3>1
  <2>3. /\ key = Nothing \/ (key.seat \in Seats /\ Current(auth, key))
        /\ \A d \in PageCallers : Bears(d)' => call'[d].key.seat \in Seats
        /\ \A u \in Windows : u # t => page[u].held = Nothing \/ page[u].held.seat \in Seats
    <3>1. key = Nothing \/ (key.seat \in Seats /\ Current(auth, key))
      BY <1>8, <2>2, RealKeys DEF KeysCurrent
    <3>2. \A d \in PageCallers : Bears(d)' => call'[d].key.seat \in Seats
      BY <1>2, <2>1, RealKeys DEF KeysKnown, CallTypes, Bears
    <3>3. QED
      BY <1>2, <3>1, <3>2, RealKeys
  <2>4. \A d \in PageCallers : Bears(d)' => call'[d].key.seat # key.seat
    BY <1>8, <2>1, <2>2, <2>3, RealKeys DEF KeysApart
  <2>5. KeysCurrent'
    <3>1. ASSUME NEW d \in PageCallers, Bears(d)' PROVE Current(auth, call'[d].key)
      BY <1>8, <2>1, <3>1 DEF KeysCurrent
    <3>2. ASSUME NEW u \in Windows, page'[u].held # Nothing, ~Current(auth, page'[u].held)
          PROVE  \E d \in PageCallers : /\ d[1] = u /\ call'[d].what = "granted"
                                        /\ call'[d].key.seat = page'[u].held.seat
      <4>1. u # t /\ page'[u] = page[u]
        BY <1>3, <2>3, <3>2
      <4>2. PICK d \in PageCallers : /\ d[1] = u /\ call[d].what = "granted"
                                     /\ call[d].key.seat = page[u].held.seat
        BY <1>8, <3>2, <4>1 DEF KeysCurrent
      <4>3. d # c
        BY <4>1, <4>2 DEF t
      <4>4. QED
        BY <1>4, <4>1, <4>2, <4>3
    <3>3. stored' = Nothing \/ Current(auth, stored')
      BY <1>1, <2>3
    <3>4. UNCHANGED auth
      OBVIOUS
    <3>5. QED
      BY <3>1, <3>2, <3>3, <3>4 DEF KeysCurrent
  <2>6. KeysApart'
    <3>1. ASSUME NEW u \in Windows, u # t PROVE page[u].held = Nothing \/ page[u].held.seat # key.seat
      <4>1. CASE key = Nothing
        BY <2>3, <3>1, <4>1, RealKeys
      <4>2. CASE key # Nothing
        BY <1>8, <2>2, <3>1, <4>2 DEF KeysApart, t
      <4>3. QED
        BY <4>1, <4>2
    <3>2. ASSUME NEW u \in Windows, NEW v \in Windows, u # v, page'[u].held # Nothing
          PROVE  page'[u].held.seat # page'[v].held.seat
      <4>1. CASE u # t /\ v # t
        BY <1>3, <1>8, <3>2, <4>1 DEF KeysApart
      <4>2. CASE u = t
        <5>1. page'[u].held = key /\ page'[v].held = page[v].held /\ key.seat \in Seats
          BY <1>3, <2>3, <3>2, <4>2
        <5>2. QED
          BY <3>1, <3>2, <4>2, <5>1, RealKeys
      <4>3. CASE v = t
        BY <1>3, <3>1, <3>2, <4>3
      <4>4. QED
        BY <4>1, <4>2, <4>3
    <3>3. \A d, e \in PageCallers :
            d # e /\ Bears(d)' /\ Bears(e)' => call'[d].key.seat # call'[e].key.seat
      BY <1>8, <2>1 DEF KeysApart
    <3>4. ASSUME NEW d \in PageCallers, NEW u \in Windows, Bears(d)', u # d[1]
          PROVE  page'[u].held.seat # call'[d].key.seat
      <4>1. CASE u = t
        BY <1>3, <2>4, <3>4, <4>1
      <4>2. CASE u # t
        BY <1>3, <1>8, <2>1, <3>4, <4>2 DEF KeysApart
      <4>3. QED
        BY <4>1, <4>2
    <3>5. \A d \in PageCallers : Bears(d)' => stored'.seat # call'[d].key.seat
      BY <1>1, <2>4
    <3>6. ASSUME NEW u \in Windows, page'[u].held.seat = stored'.seat PROVE page'[u].held = stored'
      <4>1. CASE u = t
        BY <1>1, <1>3, <4>1
      <4>2. CASE u # t
        <5>1. page[u].held.seat = key.seat
          BY <1>1, <1>3, <3>6, <4>2
        <5>2. page[u].held = Nothing
          BY <3>1, <4>2, <5>1
        <5>3. key = Nothing
          BY <2>3, <5>1, <5>2, RealKeys
        <5>4. QED
          BY <1>1, <1>3, <4>2, <5>2, <5>3
      <4>3. QED
        BY <4>1, <4>2
    <3>7. ASSUME NEW d \in PageCallers, call'[d].what = "refresh", ~call'[d].heard
          PROVE  \A u \in Windows : page'[u].held.seat # call'[d].key.seat
      <4>1. Bears(d)' /\ Bears(d) /\ call'[d].key = call[d].key
        BY <2>1, <3>7 DEF Bears
      <4>2. page'[t].held.seat # call'[d].key.seat
        BY <1>3, <2>4, <4>1
      <4>3. CASE d = c
        BY <3>4, <4>1, <4>2, <4>3 DEF t
      <4>4. CASE d # c
        <5>1. call[d].what = "refresh" /\ ~call[d].heard
          BY <1>4, <3>7, <4>4
        <5>2. QED
          BY <1>3, <1>8, <4>1, <4>2, <5>1 DEF KeysApart
      <4>5. QED
        BY <4>3, <4>4
    <3>8. \A d \in PageCallers : call'[d].what = "refresh" => Bears(d)'
      BY DEF Bears
    <3>9. QED
      BY <3>2, <3>3, <3>4, <3>5, <3>6, <3>7, <3>8 DEF KeysApart
  <2>7. QED
    BY <2>5, <2>6
<1>9. /\ \A d \in Callers : ServiceOK(d)'
      /\ \A d \in PageCallers : RefreshLives(d) => RefreshLives(d)'
  <2>1. ASSUME NEW d \in PageCallers, call[d].what \in {"signin", "refresh", "signout"}
        PROVE  call'[d].what = call[d].what /\ call'[d].key = call[d].key
    <3>1. CASE d = c
      BY <1>4, <2>1, <3>1
    <3>2. CASE d # c
      BY <1>4, <3>2
    <3>3. QED
      BY <3>1, <3>2
  <2>2. QED
    BY <2>1, ServerRests
<1>10. QED
  BY <1>5, <1>7, <1>8, <1>9 DEF LoginsIInv, Careful

LEMMA HearIInv ==
    ASSUME LoginsIInv, NEW c \in PageCallers, Hear(c)
    PROVE  LoginsIInv'
<1>1. /\ call[c].what \in {"granted", "refused"} /\ Keeps(c[1], call[c].key)
      /\ call' = [call EXCEPT ![c] = Silent]
      /\ UNCHANGED <<auth, serving, calls, minted, atOnce, left, shared>>
  BY DEF Hear
<1>2. call[c].key \in TrueKeys /\ (call[c].what = "refused" => call[c].key = Nothing)
  BY DEF LoginsIInv, LoginsTypes, KeysKnown, CallTypes
<1>3. Silent \in CallTypes /\ Silent.what = "none" /\ Silent.key = Nothing
  BY SilentCalls DEF Silent
<1>4. QED
  BY <1>1, <1>2, <1>3, KeepsIInv

LEMMA CutOffIInv ==
    ASSUME LoginsIInv, NEW c \in PageCallers, CutOff(c)
    PROVE  LoginsIInv'
<1> DEFINE unheard == [call[c] EXCEPT !.heard = FALSE]
<1>1. /\ call[c].what # "none"
      /\ IF call[c].what = "signin" THEN UNCHANGED <<page, stored>> ELSE Keeps(c[1], Nothing)
      /\ call' = [call EXCEPT ![c] =
            IF call[c].what \in {"granted", "refused"} THEN Silent ELSE unheard]
      /\ UNCHANGED <<auth, serving, calls, minted, atOnce, left, shared>>
  BY DEF CutOff, Waits
<1>2. call \in [PageCallers -> CallTypes] /\ call[c] \in CallTypes
  BY DEF LoginsIInv, LoginsTypes
<1>3. /\ unheard \in CallTypes /\ unheard.what = call[c].what /\ unheard.key = call[c].key
  BY <1>2 DEF CallTypes
<1>4. /\ Silent \in CallTypes /\ Silent.what = "none" /\ Silent.key = Nothing
      /\ Nothing \in TrueKeys
  BY SilentCalls, RealKeys DEF Silent
<1> HIDE DEF unheard
<1>5. CASE call[c].what \in {"granted", "refused"}
  <2>1. Keeps(c[1], Nothing) /\ call' = [call EXCEPT ![c] = Silent]
    BY <1>1, <1>5
  <2>2. QED
    BY <1>1, <1>4, <1>5, <2>1, KeepsIInv
<1>6. CASE call[c].what \in {"refresh", "signout"}
  <2>1. Keeps(c[1], Nothing) /\ call' = [call EXCEPT ![c] = unheard]
    BY <1>1, <1>6
  <2>2. QED
    BY <1>1, <1>3, <1>4, <1>6, <2>1, KeepsIInv
<1>7. CASE call[c].what = "signin"
  <2>1. UNCHANGED <<page, stored>> /\ call' = [call EXCEPT ![c] = unheard]
    BY <1>1, <1>7
  <2>2. /\ call' \in [PageCallers -> CallTypes] /\ call'[c] = unheard
        /\ \A d \in PageCallers : d # c => call'[d] = call[d]
    BY <1>2, <1>3, <2>1
  <2>3. \A d \in PageCallers : call'[d].what = call[d].what /\ call'[d].key = call[d].key
    BY <1>3, <2>2
  <2>4. \A d \in PageCallers : call[d].what \in {"refresh", "granted"} => call'[d] = call[d]
    BY <1>7, <2>2
  <2>5. LoginsTypes'
    BY <1>1, <2>1, <2>2 DEF LoginsIInv, LoginsTypes
  <2>6. KeysKnown'
    BY <1>1, <2>1, <2>3, <2>4 DEF LoginsIInv, KeysKnown
  <2>7. KeysCurrent => KeysCurrent'
    BY <1>1, <2>1, <2>3 DEF KeysCurrent, Bears
  <2>8. KeysApart => KeysApart'
    BY <1>1, <2>1, <2>3, <2>4 DEF KeysApart, Bears
  <2>9. /\ \A d \in Callers : ServiceOK(d)'
        /\ \A d \in PageCallers : RefreshLives(d) => RefreshLives(d)'
    BY <1>1, <2>3, ServerRests
  <2>10. QED
    BY <1>1, <2>5, <2>6, <2>7, <2>8, <2>9 DEF LoginsIInv, Careful
<1>8. QED
  BY <1>1, <1>2, <1>5, <1>6, <1>7 DEF CallTypes

LEMMA LoginsNextIInv == LoginsIInv /\ [LoginsNext]_loginsVars => LoginsIInv'
<1>1. ASSUME LoginsIInv, LoginsNext PROVE LoginsIInv'
  <2>1. ASSUME NEW t \in Windows, OpenPage(t) \/ ClosePage(t) PROVE LoginsIInv'
    BY <1>1, <2>1, OpenPageIInv, ClosePageIInv
  <2>2. ASSUME NEW t \in Windows, SignIn(t) PROVE LoginsIInv'
    <3>1. <<t, "interceptor">> \in PageCallers /\ atOnce \in BOOLEAN
      BY <1>1, Callings DEF LoginsIInv, LoginsTypes
    <3>2. Asks(<<t, "interceptor">>, "signin") /\ UNCHANGED <<atOnce, shared>>
      BY <2>2 DEF SignIn
    <3>3. QED
      BY <1>1, <3>1, <3>2, AsksIInv
  <2>3. ASSUME NEW t \in Windows, SignOut(t) PROVE LoginsIInv'
    <3>1. <<t, "interceptor">> \in PageCallers /\ atOnce \in BOOLEAN
      BY <1>1, Callings DEF LoginsIInv, LoginsTypes
    <3>2. Asks(<<t, "interceptor">>, "signout") /\ UNCHANGED <<atOnce, shared>>
      BY <2>3 DEF SignOut
    <3>3. QED
      BY <1>1, <3>1, <3>2, AsksIInv
  <2>4. ASSUME NEW c \in PageCallers, Refresh(c) PROVE LoginsIInv'
    <3>1. /\ SignedIn(c[1]) /\ Asks(c, "refresh") /\ UNCHANGED shared
          /\ atOnce' = (atOnce \/ \E d \in PageCallers :
                d[1] = c[1] /\ call[d].what \in {"refresh", "granted"})
      BY <2>4 DEF Refresh
    <3>2. atOnce' \in BOOLEAN /\ (atOnce => atOnce')
      BY <3>1
    <3>3. Careful' => \A d \in PageCallers : d[1] = c[1] => ~Bears(d)
      BY <3>1 DEF Careful, Bears
    <3>4. QED
      BY <1>1, <3>1, <3>2, <3>3, AsksIInv
  <2>5. ASSUME NEW c \in PageCallers,
               Serve(c) \/ Complete(c) \/ TurnAway(c) \/ Hear(c) \/ CutOff(c)
        PROVE  LoginsIInv'
    BY <1>1, <2>5, ServeIInv, CompleteIInv, TurnAwayIInv, HearIInv, CutOffIInv
  <2>6. ASSUME NEW s \in Seats, SignInElsewhere(s) PROVE LoginsIInv'
    BY <1>1, <2>6, ElsewhereIInv
  <2>7. ASSUME NEW gone \in SUBSET Seats, SignOutElsewhere(gone) PROVE LoginsIInv'
    BY <1>1, <2>7, ElsewhereIInv
  <2>8. CASE CommitElsewhere
    BY <1>1, <2>8, CommitElsewhereIInv
  <2>9. QED
    BY <1>1, <2>1, <2>2, <2>3, <2>4, <2>5, <2>6, <2>7, <2>8 DEF LoginsNext
<1>2. ASSUME LoginsIInv, UNCHANGED loginsVars PROVE LoginsIInv'
  <2>1. UNCHANGED <<auth, serving, calls, minted, page, stored, call, atOnce, left, shared>>
    BY <1>2 DEF loginsVars
  <2>2. /\ LoginsTypes' = LoginsTypes /\ KeysKnown' = KeysKnown
        /\ KeysCurrent' = KeysCurrent /\ KeysApart' = KeysApart
    BY <2>1 DEF LoginsTypes, KeysKnown, KeysCurrent, KeysApart, Bears
  <2>3. /\ \A c \in Callers : ServiceOK(c)'
        /\ \A c \in PageCallers : RefreshLives(c) => RefreshLives(c)'
    BY <1>2, <2>1, ServerRests
  <2>4. QED
    BY <1>2, <2>1, <2>2, <2>3 DEF LoginsIInv, Careful
<1>3. QED
  BY <1>1, <1>2

LEMMA LoginsInvariance == LoginsSpec => []LoginsIInv
BY LoginsInitIInv, LoginsNextIInv, PTL DEF LoginsSpec

(* The sessions, the tokens, the pages and their calls are what the code can
   produce: session_service.py, auth-store.ts, api-client.ts. *)
THEOREM LoginsAreWellTyped == LoginsSpec => []LoginsTypeOK
<1>1. LoginsIInv => LoginsTypeOK
  <2> SUFFICES ASSUME LoginsTypes PROVE LoginsTypeOK
    BY DEF LoginsIInv
  <2>1. TrueKeys \subseteq Keys
    BY LoginsAssumption DEF TrueKeys, Keys, Nothing
  <2>2. IsAuth(auth) /\ \A c \in Callers : Server!IsWork(serving[c], IsAuth, {})
    <3>1. ASSUME NEW c \in Callers PROVE Server!IsWork(serving[c], IsAuth, {})
      BY TokenColumns DEF LoginsTypes, ServiceTypes, Server!IsWork
    <3>2. QED
      BY <3>1, TokenColumns DEF LoginsTypes
  <2>3. calls \in 0 .. MaxCalls /\ minted \in 0 .. MaxCalls
    BY LoginsAssumption DEF LoginsTypes
  <2>4. /\ page \in [Windows -> [open : BOOLEAN, held : Keys]] /\ stored \in Keys
        /\ call \in [PageCallers -> [key : Keys, heard : BOOLEAN,
                what : {"none", "signin", "refresh", "signout", "granted", "refused"}]]
    BY <2>1 DEF LoginsTypes, CallTypes
  <2>5. QED
    BY <2>2, <2>3, <2>4 DEF LoginsTypes, LoginsTypeOK
<1>2. QED
  BY <1>1, LoginsInvariance, PTL

(* session_service.py:183, api-client.ts:40.  With any number of seats, pages,
   callers and other devices, a refresh prepares to sign the user out
   everywhere only after two refreshes of one page were under way at once, a
   page was closed before it heard the reply, or a second page held a copy of
   the token. *)
THEOREM CarefulPageKeepsItsSession == LoginsSpec => []OneCarefulPageStaysSignedIn
<1>1. LoginsIInv => OneCarefulPageStaysSignedIn
  <2> SUFFICES ASSUME LoginsIInv, Careful, NEW c \in PageCallers, Busy(c),
                      call[c].what = "refresh",
                      serving[c].is.session[call[c].key.seat].state = "revoked"
               PROVE  FALSE
    BY DEF OneCarefulPageStaysSignedIn, Careful, Busy
  <2>1. serving[c].is.session[call[c].key.seat].state = "live"
    BY DEF LoginsIInv, RefreshLives
  <2>2. QED
    BY <2>1
<1>2. QED
  BY <1>1, LoginsInvariance, PTL

-----------------------------------------------------------------------------
LEMMA OfficeStepsAreComponentSteps ==
    ASSUME [OfficeNext]_OfficeVars
    PROVE  /\ [LedgerNext]_ledgerVars /\ [ApplicationsNext]_applicationsVars
           /\ [AgreementsNext]_agreementsVars /\ [LoginsNext]_loginsVars
           /\ [MaintenanceNext]_maintenanceVars /\ [DeliveriesNext]_deliveriesVars
           /\ [BookingsNext]_bookingsVars /\ [EvidenceNext]_evidenceVars
BY DEF OfficeNext, OfficeVars, OnlyLedger, OnlyApplications, OnlyAgreements, OnlyLogins,
       OnlyMaintenance, OnlyDeliveries, OnlyBookings, OnlyEvidence, BookingsNext,
       EvidenceNext

(* MCOffice: whichever scene is looked at, a step of the office is a step of its
   component and changes nothing of another's, so that a behaviour of the office is one
   of every component, and whatever is proved of a component holds of the office. *)
THEOREM OfficeImplementsItsComponents ==
    OfficeSpec => /\ LedgerSpec /\ ApplicationsSpec /\ AgreementsSpec /\ LoginsSpec
                  /\ MaintenanceSpec /\ DeliveriesSpec /\ BookingsSpec /\ EvidenceSpec
<1>1. OfficeInit => /\ LedgerInit /\ ApplicationsInit /\ AgreementsInit /\ LoginsInit
                    /\ MaintenanceInit /\ DeliveriesInit /\ BookingsInit /\ EvidenceInit
  BY DEF OfficeInit
<1>2. OfficeSpec => LedgerSpec
  BY <1>1, OfficeStepsAreComponentSteps, PTL DEF OfficeSpec, LedgerSpec
<1>3. OfficeSpec => ApplicationsSpec
  BY <1>1, OfficeStepsAreComponentSteps, PTL DEF OfficeSpec, ApplicationsSpec
<1>4. OfficeSpec => AgreementsSpec
  BY <1>1, OfficeStepsAreComponentSteps, PTL DEF OfficeSpec, AgreementsSpec
<1>5. OfficeSpec => LoginsSpec
  BY <1>1, OfficeStepsAreComponentSteps, PTL DEF OfficeSpec, LoginsSpec
<1>6. OfficeSpec => MaintenanceSpec
  BY <1>1, OfficeStepsAreComponentSteps, PTL DEF OfficeSpec, MaintenanceSpec
<1>7. OfficeSpec => DeliveriesSpec
  BY <1>1, OfficeStepsAreComponentSteps, PTL DEF OfficeSpec, DeliveriesSpec
<1>8. OfficeSpec => BookingsSpec
  BY <1>1, OfficeStepsAreComponentSteps, PTL DEF OfficeSpec, BookingsSpec
<1>9. OfficeSpec => EvidenceSpec
  BY <1>1, OfficeStepsAreComponentSteps, PTL DEF OfficeSpec, EvidenceSpec
<1>10. QED
  BY <1>2, <1>3, <1>4, <1>5, <1>6, <1>7, <1>8, <1>9

(* MCOffice: in every scene the tables, the requests in flight and the counters of the
   component that is looked at have their types. *)
THEOREM OfficeIsWellTyped == OfficeSpec => []OfficeTypeOK
<1>1. /\ LedgerTypeOK /\ ApplicationsTypeOK /\ AgreementsTypeOK /\ LoginsTypeOK
      /\ MaintenanceTypeOK /\ DeliveriesTypeOK /\ BookingsTypeOK /\ EvidenceTypeOK
      => OfficeTypeOK
  BY DEF OfficeTypeOK
<1>2. QED
  BY <1>1, OfficeImplementsItsComponents, LedgerIsWellTyped, ApplicationsAreWellTyped,
     AgreementsAreWellTyped, LoginsAreWellTyped, RepairsAreWellTyped,
     DeliveriesAreWellTyped, LendingIsWellTyped, EvidenceIsWellTyped, PTL
=============================================================================
