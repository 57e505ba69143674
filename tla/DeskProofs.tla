------------------------------ MODULE DeskProofs ------------------------------
(***************************************************************************)
(* What the five components of the desk guarantee for every number of      *)
(* rows, of jobs, of tabs and of requests in flight, and however they      *)
(* overlap: Tenancies, Team, OfflineQueue, Bulk and Breaches.  They share  *)
(* no state; each has an inductive invariant of its own, and no theorem    *)
(* about one uses another.                                                 *)
(*                                                                         *)
(* Tenancies: its types, and that only requests that overlap, or a tenancy *)
(* that is brought back to life, let a unit twice or give a renewal offer a *)
(* second answer.  A request looks at the rows it reads, so what it will   *)
(* write lets nothing twice that those rows did not; when they are still   *)
(* the committed rows at its commit, the commit writes what it prepared.   *)
(* An import looks in its preview and reads again before it writes, so for *)
(* it the rows that were previewed are carried along.                      *)
(*                                                                         *)
(* OfflineQueue: its types, and that a job is carried out twice only after *)
(* an answer was missed or when two tabs flush at a time.  As long as      *)
(* neither happened to it, one message at most carries the job, and once   *)
(* it is carried out its answer is on the way or its row is gone for good. *)
(*                                                                         *)
(* Bulk: its types, and what tenants hear of a bulk operation and of a     *)
(* demand.  The plan of an operation never changes once it is on record,   *)
(* so a run still knows what it told whom when it commits; and a run that  *)
(* goes by current rows goes by an operation that waits for it.            *)
(*                                                                         *)
(* Breaches: its types, and that the alerts of a chase on record went out. *)
(* The task writes to the staff and then commits, so it is the rows a      *)
(* request will write, as well as the committed ones, whose chases were    *)
(* all tried.                                                              *)
(*                                                                         *)
(* At the end the desk itself: each of its behaviours is one of every      *)
(* component, its fairness included.                                       *)
(***************************************************************************)
EXTENDS MCDesk, SumsProofs, SequenceTheorems

UnitRow == [status : UnitStatus, advertised : BOOLEAN]

TenancyRow ==
    [unit : Units \cup {"none"}, end : Dates, notice : BOOLEAN, vacated : BOOLEAN,
     status : TenancyStatus, paper : {"none", "SUBMITTED", "ACKNOWLEDGED"}]

OfferRow ==
    [of : Leases \cup {"none"}, newEnd : Dates, expires : Dates, escalated : BOOLEAN,
     status : {"none", "OFFERED", "ACCEPTED", "DECLINED", "LAPSED"}]

LettingRows ==
    [unit : [Units -> UnitRow], tenancy : [Leases -> TenancyRow],
     offer : [Offers -> OfferRow]]

(* From rows `was` to rows `is`, a unit gets a live tenancy more only when it
   gets its only one, when one comes back to life, or when two are new. *)
LetsOnce(was, is) ==
    \A u \in Units :
        \/ LiveOn(is, u) \subseteq LiveOn(was, u)
        \/ \E t \in Leases : LiveOn(is, u) \subseteq {t}
        \/ \E t \in LiveOn(is, u) :
            Exists(was, t) /\ was.tenancy[t].status \notin Live
        \/ \E s, t \in LiveOn(is, u) : s # t /\ ~Exists(was, s) /\ ~Exists(was, t)

(* A tenancy gets an open offer more only when it gets its only one, and an
   answer stays. *)
OfferAnswers == {"ACCEPTED", "DECLINED", "LAPSED"}

OffersOnce(was, is) ==
    /\ \A t \in Leases : \/ OpenOffers(is, t) \subseteq OpenOffers(was, t)
                         \/ \E o \in Offers : OpenOffers(is, t) \subseteq {o}
    /\ \A o \in Offers : was.offer[o].status \in OfferAnswers =>
                            is.offer[o].status = was.offer[o].status

Sound(was, is) == LetsOnce(was, is) /\ OffersOnce(was, is)

(* the rows of a spreadsheet, none of which clashes with what is let *)
Unclaimed(rows, sheet) == \A r \in sheet : rows.tenancy[r[1]] = Unlet

Previewed(rows, sheet) ==
    Unclaimed(rows, sheet) /\ \A r \in sheet : LiveOn(rows, r[2]) = {}

Named(sheet) == {r[1] : r \in sheet}
SheetRow(sheet, t) == CHOOSE r \in sheet : r[1] = t

(* what _commit_tenants makes of the rows *)
Imported(rows, sheet) ==
    [rows EXCEPT
        !.tenancy = [t \in Leases |->
            IF t \in Named(sheet)
            THEN [Unlet EXCEPT !.unit = SheetRow(sheet, t)[2], !.end = SheetRow(sheet, t)[3]]
            ELSE @[t]],
        !.unit = [u \in Units |->
            IF \E r \in sheet : r[2] = u THEN [@[u] EXCEPT !.status = "OCCUPIED"] ELSE @[u]]]

(* A request in flight made up its mind on the rows it will write over, or is an
   import that previewed its spreadsheet. *)
ServingOK(w) ==
    \/ w.at = "idle"
    \/ /\ w.at = "between" /\ w.seen \in LettingRows
       /\ w.rest \subseteq Rows /\ Previewed(w.seen, w.rest)
    \/ /\ w.at = "ready" /\ w.rest = {}
       /\ w.seen \in LettingRows /\ w.was \in LettingRows /\ w.is \in LettingRows
       /\ \/ w.seen = w.was /\ Sound(w.was, w.is)
          \/ \E sheet \in SUBSET Rows :
                /\ Previewed(w.seen, sheet) /\ Unclaimed(w.was, sheet)
                /\ w.is = Imported(w.was, sheet)

TenanciesIInv ==
    /\ month \in 1 .. Horizon /\ asked \in 0 .. MaxLettings
    /\ lettings \in LettingRows
    /\ desk = [c \in Desks |-> desk[c]]
    /\ \A c \in Desks : ServingOK(desk[c])

-----------------------------------------------------------------------------
(* Rows and sessions *)

LEMMA Columns ==
    ASSUME NEW rows \in LettingRows
    PROVE  /\ DOMAIN rows = {"unit", "tenancy", "offer"}
           /\ rows.unit \in [Units -> UnitRow] /\ rows.tenancy \in [Leases -> TenancyRow]
           /\ rows.offer \in [Offers -> OfferRow]
           /\ \A t \in DOMAIN rows : \A k \in DOMAIN rows[t] :
                rows[t][k] = [c \in DOMAIN rows[t][k] |-> rows[t][k][c]]
           /\ \A u \in Units : DOMAIN rows.unit[u] = {"status", "advertised"}
           /\ \A t \in Leases : DOMAIN rows.tenancy[t] =
                {"unit", "end", "notice", "vacated", "status", "paper"}
           /\ \A o \in Offers : DOMAIN rows.offer[o] =
                {"of", "newEnd", "expires", "escalated", "status"}
BY DEF LettingRows, UnitRow, TenancyRow, OfferRow

LEMMA MergedUnit ==
    ASSUME NEW was, NEW is \in UnitRow, NEW now \in UnitRow
    PROVE  Session!MergedRow(was, is, now) \in UnitRow
<1> DEFINE r == Session!MergedRow(was, is, now)
<1>1. r = [status |-> IF is.status = was.status THEN now.status ELSE is.status,
           advertised |-> IF is.advertised = was.advertised THEN now.advertised
                          ELSE is.advertised]
  BY DEF UnitRow, Session!MergedRow
<1>2. QED
  BY <1>1 DEF UnitRow

LEMMA MergedTenancy ==
    ASSUME NEW was, NEW is \in TenancyRow, NEW now \in TenancyRow
    PROVE  Session!MergedRow(was, is, now) \in TenancyRow
<1> DEFINE r == Session!MergedRow(was, is, now)
<1>1. r = [unit |-> IF is.unit = was.unit THEN now.unit ELSE is.unit,
           end |-> IF is.end = was.end THEN now.end ELSE is.end,
           notice |-> IF is.notice = was.notice THEN now.notice ELSE is.notice,
           vacated |-> IF is.vacated = was.vacated THEN now.vacated ELSE is.vacated,
           status |-> IF is.status = was.status THEN now.status ELSE is.status,
           paper |-> IF is.paper = was.paper THEN now.paper ELSE is.paper]
  BY DEF TenancyRow, Session!MergedRow
<1>2. QED
  BY <1>1 DEF TenancyRow

LEMMA MergedOffer ==
    ASSUME NEW was, NEW is \in OfferRow, NEW now \in OfferRow
    PROVE  Session!MergedRow(was, is, now) \in OfferRow
<1> DEFINE r == Session!MergedRow(was, is, now)
<1>1. r = [of |-> IF is.of = was.of THEN now.of ELSE is.of,
           newEnd |-> IF is.newEnd = was.newEnd THEN now.newEnd ELSE is.newEnd,
           expires |-> IF is.expires = was.expires THEN now.expires ELSE is.expires,
           escalated |-> IF is.escalated = was.escalated THEN now.escalated
                         ELSE is.escalated,
           status |-> IF is.status = was.status THEN now.status ELSE is.status]
  BY DEF OfferRow, Session!MergedRow
<1>2. QED
  BY <1>1 DEF OfferRow

(* A commit leaves rows, table by table and row by row. *)
LEMMA MergedRows ==
    ASSUME NEW was, NEW is \in LettingRows, NEW now \in LettingRows
    PROVE  LET m == Session!Merged(was, is, now)
               Row(t, k) == Session!MergedRow(was[t][k], is[t][k], now[t][k])
           IN  /\ m \in LettingRows
               /\ m.tenancy = [t \in Leases |-> Row("tenancy", t)]
               /\ m.offer = [o \in Offers |-> Row("offer", o)]
<1> DEFINE m == Session!Merged(was, is, now)
           Row(t, k) == Session!MergedRow(was[t][k], is[t][k], now[t][k])
<1>1. m = [t \in {"unit", "tenancy", "offer"} |-> [k \in DOMAIN now[t] |-> Row(t, k)]]
  BY Columns DEF Session!Merged
<1>2. /\ m.unit = [u \in Units |-> Row("unit", u)]
      /\ m.tenancy = [t \in Leases |-> Row("tenancy", t)]
      /\ m.offer = [o \in Offers |-> Row("offer", o)]
      /\ m = [unit |-> m.unit, tenancy |-> m.tenancy, offer |-> m.offer]
  BY <1>1, Columns
<1>3. \A u \in Units : Row("unit", u) \in UnitRow
  BY MergedUnit, Columns
<1>4. \A t \in Leases : Row("tenancy", t) \in TenancyRow
  BY MergedTenancy, Columns
<1>5. \A o \in Offers : Row("offer", o) \in OfferRow
  BY MergedOffer, Columns
<1> HIDE DEF m, Row
<1>6. m \in LettingRows
  BY <1>2, <1>3, <1>4, <1>5 DEF LettingRows
<1>7. QED
  BY <1>2, <1>6 DEF m, Row

(* A commit over the rows that were read writes what was prepared. *)
LEMMA SavesWhatItPrepared ==
    ASSUME NEW was \in LettingRows, NEW is \in LettingRows
    PROVE  Session!Merged(was, is, was) = is
<1>1. \A t \in DOMAIN was : DOMAIN is[t] = DOMAIN was[t]
  BY Columns
<1>2. \A t \in DOMAIN was : \A k \in DOMAIN was[t] : DOMAIN is[t][k] = DOMAIN was[t][k]
  BY Columns
<1>3. \A t \in DOMAIN was : \A k \in DOMAIN was[t] :
        Session!MergedRow(was[t][k], is[t][k], was[t][k]) = is[t][k]
  BY <1>1, <1>2, Columns DEF Session!MergedRow
<1>4. \A t \in DOMAIN is : is[t] = [k \in DOMAIN is[t] |-> is[t][k]]
  BY Columns
<1>5. is = [t \in DOMAIN is |-> is[t]]
  BY DEF LettingRows
<1>6. QED
  BY <1>1, <1>3, <1>4, <1>5, Columns DEF Session!Merged

-----------------------------------------------------------------------------
(* What the handlers prepare *)

(* Tenancies that stay on their units are let no more than once, unless one of
   them comes back to life. *)
LEMMA HomesKept ==
    ASSUME NEW was, NEW is,
           \A t \in Leases : is.tenancy[t].unit = was.tenancy[t].unit
    PROVE  LetsOnce(was, is)
<1> SUFFICES ASSUME NEW u \in Units, NEW t \in LiveOn(is, u), t \notin LiveOn(was, u)
             PROVE  Exists(was, t) /\ was.tenancy[t].status \notin Live
  BY DEF LetsOnce
<1>1. t \in Leases /\ was.tenancy[t].unit = u
  BY DEF LiveOn
<1>2. u # "none"
  BY TenanciesAssumption DEF TenanciesAssumption
<1>3. QED
  BY <1>1, <1>2 DEF LiveOn, Exists

LEMMA OffersKept ==
    ASSUME NEW was, NEW is, is.offer = was.offer
    PROVE  OffersOnce(was, is)
BY DEF OffersOnce, OpenOffers

(* Offers that keep their tenancy, and are open or answered only if they were. *)
LEMMA OffersAnswered ==
    ASSUME NEW was, NEW is,
           \A o \in Offers :
                /\ is.offer[o].of = was.offer[o].of
                /\ is.offer[o].status = "OFFERED" => was.offer[o].status = "OFFERED"
                /\ was.offer[o].status # "OFFERED" =>
                    is.offer[o].status = was.offer[o].status
    PROVE  OffersOnce(was, is)
BY DEF OffersOnce, OpenOffers, OfferAnswers

(* rows that consist of given tables *)
Consists(rows, unit, tenancy, offer) ==
    rows \in [unit : {unit}, tenancy : {tenancy}, offer : {offer}]

LEMMA RowsTogether ==
    ASSUME NEW unit \in [Units -> UnitRow], NEW tenancy \in [Leases -> TenancyRow],
           NEW offer \in [Offers -> OfferRow], NEW n, Consists(n, unit, tenancy, offer)
    PROVE  /\ n \in LettingRows
           /\ n.unit = unit /\ n.tenancy = tenancy /\ n.offer = offer
BY DEF LettingRows, Consists

(* Rows with other units, tenancies and offers: the tenancies stay on their
   units, and the offers are sound by themselves. *)
LEMMA Reworked ==
    ASSUME NEW rows \in LettingRows,
           NEW unit \in [Units -> UnitRow], NEW tenancy \in [Leases -> TenancyRow],
           NEW offer \in [Offers -> OfferRow], NEW n, Consists(n, unit, tenancy, offer),
           \A t \in Leases : tenancy[t].unit = rows.tenancy[t].unit,
           \/ offer = rows.offer
           \/ \A o \in Offers :
                /\ offer[o].of = rows.offer[o].of
                /\ offer[o].status = "OFFERED" => rows.offer[o].status = "OFFERED"
                /\ rows.offer[o].status # "OFFERED" =>
                    offer[o].status = rows.offer[o].status
    PROVE  n \in LettingRows /\ Sound(rows, n)
<1>1. n \in LettingRows /\ n.tenancy = tenancy /\ n.offer = offer
  BY RowsTogether
<1>2. LetsOnce(rows, n)
  BY <1>1, HomesKept
<1>3. OffersOnce(rows, n)
  BY <1>1, OffersKept, OffersAnswered
<1>4. QED
  BY <1>1, <1>2, <1>3 DEF Sound

LEMMA RederivedRow ==
    ASSUME NEW row \in TenancyRow
    PROVE  Rederived(row) \in TenancyRow /\ Rederived(row).unit = row.unit
<1>1. DerivedStatus(row) \in TenancyStatus
  BY DEF TenancyRow, DerivedStatus, TenancyStatus
<1>2. QED
  BY <1>1 DEF TenancyRow, Rederived

LEMMA SomeDates ==
    ASSUME month \in 1 .. Horizon
    PROVE  /\ Ends \subseteq Dates /\ EndDates \subseteq Dates /\ 0 \in Dates
           /\ month + LinkMonths \in Dates
           /\ \A e \in 1 .. Horizon : e + Term \in Dates
           /\ month + OfferMonths + Term \in Dates
<1>1. month \in Nat /\ month >= 1 /\ month <= Horizon /\ Horizon \in Nat /\ Term \in Nat
  BY TenanciesAssumption DEF TenanciesAssumption
<1>2. Ends \subseteq Dates
  BY <1>1, TenanciesAssumption DEF TenanciesAssumption, Dates
<1>3. 0 \in Dates /\ month + 1 \in Dates /\ month + 1 + Term \in Dates
  BY <1>1 DEF Dates
<1>4. \A e \in 1 .. Horizon : e + Term \in Dates
  BY <1>1 DEF Dates
<1>5. QED
  BY <1>2, <1>3, <1>4 DEF EndDates, LinkMonths, OfferMonths

(* A tenancy that moves into a free unit is its only live one. *)
LEMMA Created ==
    ASSUME lettings \in LettingRows, month \in 1 .. Horizon,
           NEW t \in Leases, NEW u \in Units, NEW end \in EndDates,
           lettings.tenancy[t] = Unlet, LiveOn(lettings, u) = {}
    PROVE  LET n == [lettings EXCEPT
                        !.tenancy[t] = Rederived([Unlet EXCEPT !.unit = u, !.end = end]),
                        !.unit[u] = [status |-> "OCCUPIED", advertised |-> FALSE]]
           IN  n \in LettingRows /\ Sound(lettings, n)
<1> DEFINE row == Rederived([Unlet EXCEPT !.unit = u, !.end = end])
           let == [status |-> "OCCUPIED", advertised |-> FALSE]
           tenancy == [lettings.tenancy EXCEPT ![t] = row]
           unit == [lettings.unit EXCEPT ![u] = let]
           n == [lettings EXCEPT !.tenancy[t] = row, !.unit[u] = let]
<1>1. [Unlet EXCEPT !.unit = u, !.end = end] \in TenancyRow
  BY SomeDates DEF Unlet, TenancyRow, TenancyStatus
<1>2. row \in TenancyRow /\ row.unit = u
  BY <1>1, RederivedRow DEF Unlet
<1> HIDE DEF row
<1>3. /\ tenancy \in [Leases -> TenancyRow] /\ tenancy[t] = row
      /\ \A s \in Leases \ {t} : tenancy[s] = lettings.tenancy[s]
  BY <1>2, Columns
<1>4. let \in UnitRow
  BY DEF UnitRow, UnitStatus
<1> HIDE DEF let
<1>5. unit \in [Units -> UnitRow] /\ lettings.offer \in [Offers -> OfferRow]
  BY <1>4, Columns
<1>6. Consists(n, unit, tenancy, lettings.offer)
  BY DEF LettingRows, Consists
<1> HIDE DEF n, tenancy, unit
<1>7. n \in LettingRows /\ n.tenancy = tenancy /\ n.offer = lettings.offer
  BY <1>3, <1>5, <1>6, RowsTogether
<1>8. LiveOn(n, u) \subseteq {t}
  BY <1>3, <1>7 DEF LiveOn
<1>9. \A v \in Units \ {u} : LiveOn(n, v) \subseteq LiveOn(lettings, v)
  BY <1>2, <1>3, <1>7 DEF LiveOn
<1>10. LetsOnce(lettings, n) /\ OffersOnce(lettings, n)
  BY <1>7, <1>8, <1>9, OffersKept DEF LetsOnce
<1>11. n \in LettingRows /\ Sound(lettings, n)
  BY <1>7, <1>10 DEF Sound
<1>12. QED
  BY <1>11 DEF n, row, let

(* A tenancy edited in place, with its unit's row and the answer to its offer. *)
LEMMA Edited ==
    ASSUME lettings \in LettingRows, NEW t, NEW row,
           t \in Leases => row \in TenancyRow /\ row.unit = lettings.tenancy[t].unit,
           NEW unit \in [Units -> UnitRow], NEW offer \in [Offers -> OfferRow],
           \/ offer = lettings.offer
           \/ \A o \in Offers :
                /\ offer[o].of = lettings.offer[o].of
                /\ offer[o].status = "OFFERED" => lettings.offer[o].status = "OFFERED"
                /\ lettings.offer[o].status # "OFFERED" =>
                    offer[o].status = lettings.offer[o].status,
           NEW n, Consists(n, unit, [lettings.tenancy EXCEPT ![t] = row], offer)
    PROVE  n \in LettingRows /\ Sound(lettings, n)
<1> DEFINE tenancy == [lettings.tenancy EXCEPT ![t] = row]
<1>1. /\ tenancy \in [Leases -> TenancyRow]
      /\ \A s \in Leases : tenancy[s].unit = lettings.tenancy[s].unit
  <2>1. lettings.tenancy \in [Leases -> TenancyRow]
    BY Columns
  <2>2. QED
    BY <2>1
<1> HIDE DEF tenancy
<1>2. Consists(n, unit, tenancy, offer)
  BY DEF tenancy
<1>3. QED
  BY <1>1, <1>2, Reworked

(* update_tenancy and acknowledge_vacate_notice *)
LEMMA TenancyEdited ==
    ASSUME lettings \in LettingRows, NEW t \in Leases, NEW row \in TenancyRow,
           row.unit = lettings.tenancy[t].unit
    PROVE  LET n == [lettings EXCEPT !.tenancy[t] = row]
           IN  n \in LettingRows /\ Sound(lettings, n)
<1> DEFINE n == [lettings EXCEPT !.tenancy[t] = row]
<1>1. Consists(n, lettings.unit, [lettings.tenancy EXCEPT ![t] = row], lettings.offer)
  BY DEF LettingRows, Consists
<1>2. lettings.unit \in [Units -> UnitRow] /\ lettings.offer \in [Offers -> OfferRow]
  BY Columns
<1> HIDE DEF n
<1>3. n \in LettingRows /\ Sound(lettings, n)
  BY <1>1, <1>2, Edited
<1>4. QED
  BY <1>3 DEF n

(* vacate_tenancy and submit_vacate_notice *)
LEMMA TenancyLeaves ==
    ASSUME lettings \in LettingRows, NEW t \in Leases, NEW row \in TenancyRow,
           row.unit = lettings.tenancy[t].unit, NEW u, NEW s \in UnitStatus
    PROVE  LET n == [lettings EXCEPT !.tenancy[t] = row, !.unit[u].status = s]
           IN  n \in LettingRows /\ Sound(lettings, n)
<1> DEFINE unit == [lettings.unit EXCEPT ![u].status = s]
           n == [lettings EXCEPT !.tenancy[t] = row, !.unit[u].status = s]
<1>1. Consists(n, unit, [lettings.tenancy EXCEPT ![t] = row], lettings.offer)
  BY DEF LettingRows, Consists
<1>2. lettings.unit \in [Units -> UnitRow] /\ lettings.offer \in [Offers -> OfferRow]
  BY Columns
<1>3. unit \in [Units -> UnitRow]
  BY <1>2 DEF UnitRow
<1> HIDE DEF n, unit
<1>4. n \in LettingRows /\ Sound(lettings, n)
  BY <1>1, <1>2, <1>3, Edited
<1>5. QED
  BY <1>4 DEF n

(* update_unit_status and the listings *)
LEMMA UnitEdited ==
    ASSUME lettings \in LettingRows, NEW unit \in [Units -> UnitRow],
           NEW n, Consists(n, unit, lettings.tenancy, lettings.offer)
    PROVE  n \in LettingRows /\ Sound(lettings, n)
<1>1. lettings.tenancy \in [Leases -> TenancyRow] /\ lettings.offer \in [Offers -> OfferRow]
  BY Columns
<1>2. QED
  BY <1>1, Reworked

(* An offer to a tenancy that has none open is its only one. *)
LEMMA NewOffer ==
    ASSUME NEW was, NEW is, NEW o \in Offers, NEW t \in Leases,
           was.offer[o].status \notin OfferAnswers, OpenOffers(was, t) = {},
           is.offer[o].of = t,
           \A x \in Offers \ {o} : /\ is.offer[x].of = was.offer[x].of
                                   /\ is.offer[x].status = was.offer[x].status
    PROVE  OffersOnce(was, is)
<1>1. OpenOffers(is, t) \subseteq {o}
  BY DEF OpenOffers
<1>2. \A s \in Leases \ {t} : OpenOffers(is, s) \subseteq OpenOffers(was, s)
  BY DEF OpenOffers
<1>3. QED
  BY <1>1, <1>2 DEF OffersOnce

LEMMA OfferMade ==
    ASSUME lettings \in LettingRows, NEW o \in Offers, NEW t \in Leases,
           lettings.offer[o] = Unoffered, OpenOffers(lettings, t) = {},
           NEW offer \in [Offers -> OfferRow], offer[o].of = t,
           \A x \in Offers \ {o} : /\ offer[x].of = lettings.offer[x].of
                                   /\ offer[x].status = lettings.offer[x].status,
           NEW n, Consists(n, lettings.unit, lettings.tenancy, offer)
    PROVE  n \in LettingRows /\ Sound(lettings, n)
<1>1. lettings.unit \in [Units -> UnitRow] /\ lettings.tenancy \in [Leases -> TenancyRow]
  BY Columns
<1>2. n \in LettingRows /\ n.tenancy = lettings.tenancy /\ n.offer = offer
  BY <1>1, RowsTogether
<1>3. LetsOnce(lettings, n)
  BY <1>2, HomesKept
<1>4. lettings.offer[o].status \notin OfferAnswers
  BY DEF Unoffered, OfferAnswers
<1>5. OffersOnce(lettings, n)
  BY <1>2, <1>4, NewOffer
<1>6. QED
  BY <1>2, <1>3, <1>5 DEF Sound

-----------------------------------------------------------------------------
(* The spreadsheet import *)

LEMMA ImportedRows ==
    ASSUME NEW rows \in LettingRows, NEW sheet \in SUBSET Rows
    PROVE  LET n == Imported(rows, sheet)
           IN  /\ n \in LettingRows /\ n.offer = rows.offer
               /\ \A t \in Leases \ Named(sheet) : n.tenancy[t] = rows.tenancy[t]
               /\ \A t \in Named(sheet) :
                    \E r \in sheet : r[1] = t /\ n.tenancy[t].unit = r[2]
<1> DEFINE New(t) == [Unlet EXCEPT !.unit = SheetRow(sheet, t)[2],
                                   !.end = SheetRow(sheet, t)[3]]
           tenancy == [t \in Leases |-> IF t \in Named(sheet) THEN New(t)
                                        ELSE rows.tenancy[t]]
           unit == [u \in Units |-> IF \E r \in sheet : r[2] = u
                                    THEN [rows.unit[u] EXCEPT !.status = "OCCUPIED"]
                                    ELSE rows.unit[u]]
           n == Imported(rows, sheet)
<1>1. \A t \in Named(sheet) : /\ SheetRow(sheet, t) \in sheet
                              /\ SheetRow(sheet, t)[1] = t /\ t \in Leases
  BY DEF Named, SheetRow, Rows
<1>2. \A r \in sheet : r[2] \in Units /\ r[3] \in Dates
  BY DEF Rows
<1>3. \A t \in Named(sheet) : New(t) \in TenancyRow /\ New(t).unit = SheetRow(sheet, t)[2]
  BY <1>1, <1>2 DEF Unlet, TenancyRow, TenancyStatus
<1>4. tenancy \in [Leases -> TenancyRow] /\ unit \in [Units -> UnitRow]
  <2>1. rows.tenancy \in [Leases -> TenancyRow] /\ rows.unit \in [Units -> UnitRow]
    BY Columns
  <2> HIDE DEF New
  <2>2. QED
    BY <1>3, <2>1 DEF UnitRow, UnitStatus
<1>5. Consists(n, unit, tenancy, rows.offer)
  BY DEF LettingRows, Consists, Imported
<1>6. rows.offer \in [Offers -> OfferRow]
  BY Columns
<1>7. \A t \in Leases : tenancy[t] = IF t \in Named(sheet) THEN New(t) ELSE rows.tenancy[t]
  OBVIOUS
<1> HIDE DEF n, tenancy, unit
<1>8. n \in LettingRows /\ n.tenancy = tenancy /\ n.offer = rows.offer
  BY <1>4, <1>5, <1>6, RowsTogether
<1> HIDE DEF New
<1>9. /\ \A t \in Leases \ Named(sheet) : n.tenancy[t] = rows.tenancy[t]
      /\ \A t \in Named(sheet) : \E r \in sheet : r[1] = t /\ n.tenancy[t].unit = r[2]
  BY <1>1, <1>3, <1>7, <1>8
<1>10. QED
  BY <1>8, <1>9 DEF n

(* An import that commits over the rows of its preview lets every unit once,
   unless its spreadsheet names the unit twice. *)
LEMMA SavedImport ==
    ASSUME NEW seen \in LettingRows, NEW was \in LettingRows, NEW sheet \in SUBSET Rows,
           Previewed(seen, sheet), Unclaimed(was, sheet)
    PROVE  Sound(seen, Session!Merged(was, Imported(was, sheet), seen))
<1> DEFINE is == Imported(was, sheet)
           m == Session!Merged(was, is, seen)
<1>1. /\ is \in LettingRows /\ is.offer = was.offer
      /\ \A t \in Leases \ Named(sheet) : is.tenancy[t] = was.tenancy[t]
      /\ \A t \in Named(sheet) : \E r \in sheet : r[1] = t /\ is.tenancy[t].unit = r[2]
  BY ImportedRows
<1> HIDE DEF is
<1>2. /\ \A t \in Leases :
            m.tenancy[t] = Session!MergedRow(was.tenancy[t], is.tenancy[t], seen.tenancy[t])
      /\ \A o \in Offers :
            m.offer[o] = Session!MergedRow(was.offer[o], is.offer[o], seen.offer[o])
  <2> DEFINE Row(t, k) == Session!MergedRow(was[t][k], is[t][k], seen[t][k])
  <2>1. /\ m.tenancy = [t \in Leases |-> Row("tenancy", t)]
        /\ m.offer = [o \in Offers |-> Row("offer", o)]
    BY <1>1, MergedRows
  <2> HIDE DEF m
  <2>2. QED
    BY <2>1
<1> HIDE DEF m
<1>3. \A t \in Leases \ Named(sheet) : /\ m.tenancy[t].unit = seen.tenancy[t].unit
                                       /\ m.tenancy[t].status = seen.tenancy[t].status
  BY <1>1, <1>2, Columns DEF Session!MergedRow
<1>4. \A o \in Offers : /\ m.offer[o].of = seen.offer[o].of
                        /\ m.offer[o].status = seen.offer[o].status
  BY <1>1, <1>2, Columns DEF Session!MergedRow
<1>5. \A t \in Named(sheet) : t \in Leases /\ ~Exists(seen, t)
  BY DEF Named, Rows, Previewed, Unclaimed, Exists, Unlet
<1>6. \A t \in Named(sheet) : \E r \in sheet : r[1] = t /\ m.tenancy[t].unit = r[2]
  <2> SUFFICES ASSUME NEW t \in Named(sheet)
               PROVE  m.tenancy[t].unit = is.tenancy[t].unit
    BY <1>1
  <2>1. seen.tenancy[t] = Unlet /\ was.tenancy[t] = Unlet /\ t \in Leases
    BY DEF Named, Rows, Previewed, Unclaimed
  <2>2. m.tenancy[t] = Session!MergedRow(Unlet, is.tenancy[t], Unlet)
    BY <1>2, <2>1
  <2>3. QED
    BY <2>2 DEF Session!MergedRow, Unlet
<1>7. LetsOnce(seen, m)
  <2> SUFFICES ASSUME NEW u \in Units, ~(LiveOn(m, u) \subseteq LiveOn(seen, u)),
                      ~\E t \in Leases : LiveOn(m, u) \subseteq {t}
               PROVE  \E s, t \in LiveOn(m, u) : s # t /\ ~Exists(seen, s) /\ ~Exists(seen, t)
    BY DEF LetsOnce
  <2>1. LiveOn(m, u) \subseteq Leases
    BY DEF LiveOn
  <2>2. PICK s \in LiveOn(m, u) : s \notin LiveOn(seen, u)
    OBVIOUS
  <2>3. s \in Named(sheet)
    BY <1>3, <2>1, <2>2 DEF LiveOn
  <2>4. PICK t \in LiveOn(m, u) : t # s
    BY <2>1, <2>2
  <2>5. LiveOn(seen, u) = {}
    <3>1. PICK r \in sheet : r[1] = s /\ m.tenancy[s].unit = r[2]
      BY <1>6, <2>3
    <3>2. m.tenancy[s].unit = u
      BY <2>2 DEF LiveOn
    <3>3. QED
      BY <3>1, <3>2 DEF Previewed
  <2>6. t \in Named(sheet)
    BY <1>3, <2>1, <2>4, <2>5 DEF LiveOn
  <2>7. QED
    BY <1>5, <2>2, <2>3, <2>4, <2>6
<1>8. OffersOnce(seen, m)
  BY <1>4, OffersAnswered
<1>9. Sound(seen, m)
  BY <1>7, <1>8 DEF Sound
<1>10. QED
  BY <1>9 DEF m, is

-----------------------------------------------------------------------------
(* The steps *)

LEMMA DeskStep ==
    ASSUME TenanciesIInv, NEW c \in Desks, NEW w, ServingOK(w),
           desk' = [desk EXCEPT ![c] = w], lettings' \in LettingRows,
           month' \in 1 .. Horizon, asked' \in 0 .. MaxLettings
    PROVE  TenanciesIInv'
<1>1. desk' = [k \in Desks |-> desk'[k]] /\ \A k \in Desks : desk'[k] = IF k = c THEN w ELSE desk[k]
  BY DEF TenanciesIInv
<1>2. \A k \in Desks : ServingOK(desk'[k])
  BY <1>1 DEF TenanciesIInv
<1>3. QED
  BY <1>1, <1>2 DEF TenanciesIInv

LEMMA Counted ==
    ASSUME TenanciesIInv, NEW c \in Desks, Session!Begins(c)
    PROVE  asked' \in 0 .. MaxLettings
BY TenanciesAssumption DEF TenanciesAssumption, TenanciesIInv, Session!Begins

LEMMA ReadyServing ==
    ASSUME TenanciesIInv, NEW new \in LettingRows, Sound(lettings, new)
    PROVE  ServingOK(Session!Ready(lettings, new, {}))
BY DEF TenanciesIInv, ServingOK, Session!Ready

LEMMA Prepared ==
    ASSUME TenanciesIInv, NEW c \in Desks, NEW new, Prepares(c, new),
           new \in LettingRows /\ Sound(lettings, new)
    PROVE  TenanciesIInv'
<1>1. /\ desk' = [desk EXCEPT ![c] = Session!Ready(lettings, new, {})]
      /\ UNCHANGED <<lettings, month>> /\ Session!Begins(c)
  BY DEF Prepares, Session!Prepares, Session!PreparesOne
<1>2. asked' \in 0 .. MaxLettings
  BY <1>1, Counted
<1>3. ServingOK(Session!Ready(lettings, new, {}))
  BY ReadyServing
<1>4. QED
  BY <1>1, <1>2, <1>3, DeskStep DEF TenanciesIInv

LEMMA PreviewKeeps ==
    ASSUME TenanciesIInv, NEW c \in Desks, NEW sheet \in [Leases \ Standing -> Units \X Ends],
           PreviewImport(c, {<<t, sheet[t][1], sheet[t][2]>> : t \in Leases \ Standing})
    PROVE  TenanciesIInv'
<1> DEFINE rows == {<<t, sheet[t][1], sheet[t][2]>> : t \in Leases \ Standing}
           w == Session!Between(lettings, rows)
<1>1. rows \subseteq Rows
  BY SomeDates DEF Rows, TenanciesIInv
<1> HIDE DEF rows
<1>2. /\ \A r \in rows : LiveOn(lettings, r[2]) = {} /\ Session!Fresh("tenancy", r[1], Unlet)
      /\ Session!Starts(c, rows) /\ month' = month
  BY DEF PreviewImport, rows
<1>3. Previewed(lettings, rows)
  BY <1>2 DEF Previewed, Unclaimed, Session!Fresh
<1>4. ServingOK(w)
  BY <1>1, <1>3 DEF ServingOK, Session!Between, TenanciesIInv
<1>5. desk' = [desk EXCEPT ![c] = w] /\ lettings' = lettings /\ Session!Begins(c)
  BY <1>2 DEF Session!Starts
<1>6. asked' \in 0 .. MaxLettings
  BY <1>5, Counted
<1> HIDE DEF w
<1>7. QED
  BY <1>2, <1>4, <1>5, <1>6, DeskStep DEF TenanciesIInv

LEMMA CommitImportKeeps ==
    ASSUME TenanciesIInv, NEW c \in Desks, CommitImport(c)
    PROVE  TenanciesIInv'
<1> DEFINE sheet == desk[c].rest
           w == Session!Ready(desk[c].seen, Imported(lettings, sheet), {})
<1>1. /\ desk[c].at = "between" /\ \A t \in Named(sheet) : Session!Fresh("tenancy", t, Unlet)
      /\ desk' = [desk EXCEPT ![c] = w]
      /\ UNCHANGED <<lettings, asked, month>>
  BY DEF CommitImport, Session!Continues, Imported, Named, SheetRow
<1>2. /\ desk[c].seen \in LettingRows /\ sheet \in SUBSET Rows
      /\ Previewed(desk[c].seen, sheet)
  BY <1>1 DEF TenanciesIInv, ServingOK
<1>3. Unclaimed(lettings, sheet)
  BY <1>1 DEF Unclaimed, Named, Session!Fresh
<1>4. Imported(lettings, sheet) \in LettingRows
  BY <1>2, ImportedRows DEF TenanciesIInv
<1>5. ServingOK(w)
  <2>1. /\ w.at = "ready" /\ w.rest = {} /\ w.seen = desk[c].seen /\ w.was = lettings
        /\ w.is = Imported(lettings, sheet)
    BY DEF Session!Ready
  <2> HIDE DEF w
  <2>2. QED
    BY <1>2, <1>3, <1>4, <2>1 DEF ServingOK, TenanciesIInv
<1> HIDE DEF w
<1>6. QED
  BY <1>1, <1>5, DeskStep DEF TenanciesIInv

(* A commit writes rows; over the rows the request made up its mind on, it lets
   nothing twice. *)
LEMMA SaveKeeps ==
    ASSUME TenanciesIInv, NEW c \in Desks, SaveLetting(c)
    PROVE  TenanciesIInv' /\ (Session!StaleSave(c) \/ Sound(lettings, lettings'))
<1> DEFINE w == desk[c]
<1>1. /\ w.at = "ready" /\ lettings' = Session!Merged(w.was, w.is, lettings)
      /\ Session!Saves(c) /\ UNCHANGED <<asked, month>>
  BY DEF SaveLetting, Session!Saves
<1>2. /\ w.rest = {} /\ w.was \in LettingRows /\ w.is \in LettingRows
      /\ \/ w.seen = w.was /\ Sound(w.was, w.is)
         \/ \E sheet \in SUBSET Rows :
                /\ Previewed(w.seen, sheet) /\ Unclaimed(w.was, sheet)
                /\ w.is = Imported(w.was, sheet)
  BY <1>1 DEF TenanciesIInv, ServingOK
<1>3. desk' = [desk EXCEPT ![c] = Session!Idle] /\ ServingOK(Session!Idle)
  BY <1>1, <1>2 DEF Session!Saves, ServingOK, Session!Idle
<1>4. lettings' \in LettingRows
  BY <1>1, <1>2, MergedRows DEF TenanciesIInv
<1>5. TenanciesIInv'
  BY <1>1, <1>3, <1>4, DeskStep DEF TenanciesIInv
<1>6. ASSUME ~Session!StaleSave(c) PROVE Sound(lettings, lettings')
  <2>1. w.seen = lettings
    BY <1>1, <1>6 DEF Session!StaleSave
  <2>2. CASE w.seen = w.was /\ Sound(w.was, w.is)
    BY <1>1, <1>2, <2>1, <2>2, SavesWhatItPrepared DEF TenanciesIInv
  <2>3. ASSUME NEW sheet \in SUBSET Rows, Previewed(w.seen, sheet),
               Unclaimed(w.was, sheet), w.is = Imported(w.was, sheet)
        PROVE  Sound(lettings, lettings')
    BY <1>1, <1>2, <2>1, <2>3, SavedImport DEF TenanciesIInv
  <2>4. QED
    BY <1>2, <2>2, <2>3
<1>7. QED
  BY <1>5, <1>6

LEMMA DropKeeps ==
    ASSUME TenanciesIInv, NEW c \in Desks, DropLetting(c)
    PROVE  TenanciesIInv'
<1>1. desk' = [desk EXCEPT ![c] = Session!Idle] /\ UNCHANGED <<lettings, asked, month>>
  BY DEF DropLetting, Session!Drops
<1>2. ServingOK(Session!Idle)
  BY DEF ServingOK, Session!Idle
<1>3. QED
  BY <1>1, <1>2, DeskStep DEF TenanciesIInv

LEMMA LettingKeeps ==
    ASSUME TenanciesIInv, NEW c \in Desks, NEW t \in Leases,
           \/ \E u \in Units, e \in EndDates : CreateTenancy(c, t, u, e)
           \/ \E e \in EndDates : UpdateTenancy(c, t, e)
           \/ VacateTenancy(c, t) \/ SubmitVacateNotice(c, t)
           \/ AcknowledgeVacateNotice(c, t)
    PROVE  TenanciesIInv'
<1> DEFINE row == lettings.tenancy[t]
<1>1. lettings \in LettingRows /\ month \in 1 .. Horizon /\ row \in TenancyRow
  BY Columns DEF TenanciesIInv
<1>2. ASSUME NEW u \in Units, NEW e \in EndDates, CreateTenancy(c, t, u, e)
      PROVE  TenanciesIInv'
  <2>1. row = Unlet /\ LiveOn(lettings, u) = {}
    BY <1>2 DEF CreateTenancy, Session!Fresh
  <2>2. Prepares(c, [lettings EXCEPT
            !.tenancy[t] = Rederived([Unlet EXCEPT !.unit = u, !.end = e]),
            !.unit[u] = [status |-> "OCCUPIED", advertised |-> FALSE]])
    BY <1>2 DEF CreateTenancy
  <2>3. QED
    BY <1>1, <2>1, <2>2, Created, Prepared
<1>3. ASSUME NEW e \in EndDates, UpdateTenancy(c, t, e) PROVE TenanciesIInv'
  <2> DEFINE new == Rederived([row EXCEPT !.end = e])
  <2>1. [row EXCEPT !.end = e] \in TenancyRow /\ [row EXCEPT !.end = e].unit = row.unit
    BY <1>1, SomeDates DEF TenancyRow
  <2>2. new \in TenancyRow /\ new.unit = row.unit
    BY <2>1, RederivedRow
  <2>3. Prepares(c, [lettings EXCEPT !.tenancy[t] = new])
    BY <1>3 DEF UpdateTenancy
  <2> HIDE DEF new
  <2>4. QED
    BY <1>1, <2>2, <2>3, TenancyEdited, Prepared
<1>4. CASE VacateTenancy(c, t)
  <2> DEFINE new == [row EXCEPT !.status = "VACATED", !.vacated = TRUE]
  <2>1. new \in TenancyRow /\ new.unit = row.unit
    BY <1>1 DEF TenancyRow, TenancyStatus
  <2>2. Prepares(c, [lettings EXCEPT !.tenancy[t] = new, !.unit[row.unit].status = "VACANT"])
    BY <1>4 DEF VacateTenancy
  <2> HIDE DEF new
  <2>3. QED
    BY <1>1, <2>1, <2>2, TenancyLeaves, Prepared DEF UnitStatus
<1>5. CASE SubmitVacateNotice(c, t)
  <2> DEFINE new == [row EXCEPT !.notice = TRUE, !.status = "NOTICE_GIVEN",
                                !.paper = "SUBMITTED"]
  <2>1. new \in TenancyRow /\ new.unit = row.unit
    BY <1>1 DEF TenancyRow, TenancyStatus
  <2>2. Prepares(c, [lettings EXCEPT !.tenancy[t] = new, !.unit[row.unit].status = "VACATING"])
    BY <1>5 DEF SubmitVacateNotice
  <2> HIDE DEF new
  <2>3. QED
    BY <1>1, <2>1, <2>2, TenancyLeaves, Prepared DEF UnitStatus
<1>6. CASE AcknowledgeVacateNotice(c, t)
  <2> DEFINE new == [row EXCEPT !.paper = "ACKNOWLEDGED"]
  <2>1. new \in TenancyRow /\ new.unit = row.unit
    BY <1>1 DEF TenancyRow
  <2>2. [lettings EXCEPT !.tenancy[t].paper = "ACKNOWLEDGED"]
            = [lettings EXCEPT !.tenancy[t] = new]
    BY <1>1 DEF LettingRows
  <2>3. Prepares(c, [lettings EXCEPT !.tenancy[t] = new])
    BY <1>6, <2>2 DEF AcknowledgeVacateNotice
  <2> HIDE DEF new
  <2>4. QED
    BY <1>1, <2>1, <2>3, TenancyEdited, Prepared
<1>7. QED
  BY <1>2, <1>3, <1>4, <1>5, <1>6

LEMMA UnitKeeps ==
    ASSUME TenanciesIInv, NEW c \in Desks, NEW u \in Units,
           Advertise(c, u) \/ \E s \in SetByHand : UpdateUnitStatus(c, u, s)
    PROVE  TenanciesIInv'
<1>1. lettings \in LettingRows /\ lettings.unit \in [Units -> UnitRow]
  BY Columns DEF TenanciesIInv
<1>2. CASE Advertise(c, u)
  <2> DEFINE n == [lettings EXCEPT !.unit[u].advertised = TRUE]
             unit == [lettings.unit EXCEPT ![u].advertised = TRUE]
  <2>1. unit \in [Units -> UnitRow]
    BY <1>1 DEF UnitRow
  <2>2. Consists(n, unit, lettings.tenancy, lettings.offer)
    BY <1>1 DEF LettingRows, Consists
  <2>3. Prepares(c, n)
    BY <1>2 DEF Advertise
  <2> HIDE DEF n, unit
  <2>4. QED
    BY <1>1, <2>1, <2>2, <2>3, UnitEdited, Prepared
<1>3. ASSUME NEW s \in SetByHand, UpdateUnitStatus(c, u, s) PROVE TenanciesIInv'
  <2> DEFINE n == [lettings EXCEPT !.unit[u].status = s]
             unit == [lettings.unit EXCEPT ![u].status = s]
  <2>1. unit \in [Units -> UnitRow]
    BY <1>1, TenanciesAssumption DEF UnitRow, UnitStatus, TenanciesAssumption
  <2>2. Consists(n, unit, lettings.tenancy, lettings.offer)
    BY <1>1 DEF LettingRows, Consists
  <2>3. Prepares(c, n)
    BY <1>3 DEF UpdateUnitStatus
  <2> HIDE DEF n, unit
  <2>4. QED
    BY <1>1, <2>1, <2>2, <2>3, UnitEdited, Prepared
<1>4. QED
  BY <1>2, <1>3

LEMMA RefreshKeeps ==
    ASSUME TenanciesIInv, NEW c \in Desks, RefreshStatuses(c)
    PROVE  TenanciesIInv'
<1> DEFINE tenancy == [t \in Leases |->
                IF lettings.tenancy[t].status # "VACATED" /\ Exists(lettings, t)
                THEN Rederived(lettings.tenancy[t]) ELSE lettings.tenancy[t]]
           n == Refreshed(lettings)
<1>1. /\ lettings \in LettingRows /\ lettings.unit \in [Units -> UnitRow]
      /\ lettings.tenancy \in [Leases -> TenancyRow]
      /\ lettings.offer \in [Offers -> OfferRow]
  BY Columns DEF TenanciesIInv
<1>2. /\ tenancy \in [Leases -> TenancyRow]
      /\ \A t \in Leases : tenancy[t].unit = lettings.tenancy[t].unit
  BY <1>1, RederivedRow
<1>3. Consists(n, lettings.unit, tenancy, lettings.offer)
  BY <1>1 DEF LettingRows, Consists, Refreshed
<1>4. /\ desk' = [desk EXCEPT ![c] = Session!Ready(lettings, n, {})]
      /\ UNCHANGED <<month, lettings, asked>>
  BY DEF RefreshStatuses
<1> HIDE DEF n, tenancy
<1>5. n \in LettingRows /\ Sound(lettings, n)
  BY <1>1, <1>2, <1>3, Reworked
<1>6. ServingOK(Session!Ready(lettings, n, {}))
  BY <1>5, ReadyServing
<1>7. QED
  BY <1>4, <1>6, DeskStep DEF TenanciesIInv

(* Offers are made to tenancies that have none open. *)
LEMMA OffersKeep ==
    ASSUME TenanciesIInv, NEW c \in Desks, NEW t \in Leases, NEW o \in Offers,
           OfferRenewal(c, o, t) \/ OfferDueRenewals(c, o, t)
    PROVE  TenanciesIInv'
<1> DEFINE row == [of |-> t, newEnd |-> lettings.tenancy[t].end + Term,
                   expires |-> month + LinkMonths, status |-> "OFFERED",
                   escalated |-> FALSE]
           offered == [lettings.offer EXCEPT ![o] = row]
           new == Offered(lettings, o, t)
<1>1. /\ lettings \in LettingRows /\ month \in 1 .. Horizon
      /\ lettings.offer \in [Offers -> OfferRow]
  BY Columns DEF TenanciesIInv
<1>2. lettings.offer[o] = Unoffered /\ OpenOffers(lettings, t) = {}
  BY DEF OfferRenewal, OfferDueRenewals, DueForOffer, Session!Fresh
<1>3. lettings.tenancy[t].end + Term \in Dates
  BY <1>1, SomeDates DEF OfferRenewal, OfferDueRenewals, DueForOffer
<1>4. row \in OfferRow
  BY <1>1, <1>3, SomeDates DEF OfferRow
<1>5. /\ offered \in [Offers -> OfferRow] /\ offered[o].of = t
      /\ \A x \in Offers \ {o} : offered[x] = lettings.offer[x]
  BY <1>1, <1>4
<1>6. Consists(new, lettings.unit, lettings.tenancy, offered)
  BY <1>1 DEF LettingRows, Consists, Offered
<1> HIDE DEF offered, new
<1>7. CASE OfferRenewal(c, o, t)
  <2>1. Prepares(c, new)
    BY <1>7 DEF OfferRenewal, new
  <2>2. QED
    BY <1>1, <1>2, <1>5, <1>6, <2>1, OfferMade, Prepared
<1>8. CASE OfferDueRenewals(c, o, t)
  <2> DEFINE offer == [x \in Offers |->
                        IF new.offer[x].status = "OFFERED"
                            /\ new.tenancy[new.offer[x].of].end <= month
                        THEN [new.offer[x] EXCEPT !.escalated = TRUE] ELSE new.offer[x]]
             n == [new EXCEPT !.offer = offer]
  <2>1. /\ new.offer = offered /\ new.unit = lettings.unit
        /\ new.tenancy = lettings.tenancy
    BY <1>6 DEF Consists
  <2>2. Prepares(c, n)
    BY <1>8 DEF OfferDueRenewals, new
  <2>3. /\ offer \in [Offers -> OfferRow]
        /\ \A x \in Offers : offer[x].of = offered[x].of /\ offer[x].status = offered[x].status
    <3>1. \A x \in Offers : offer[x] \in {offered[x], [offered[x] EXCEPT !.escalated = TRUE]}
      BY <2>1
    <3>2. \A x \in Offers : LET e == [offered[x] EXCEPT !.escalated = TRUE]
                            IN  e \in OfferRow /\ e.of = offered[x].of /\ e.status = offered[x].status
      BY <1>5 DEF OfferRow
    <3>3. offer = [x \in Offers |-> offer[x]]
      OBVIOUS
    <3> HIDE DEF offer
    <3>4. QED
      BY <1>5, <3>1, <3>2, <3>3
  <2>4. Consists(n, lettings.unit, lettings.tenancy, offer)
    BY <1>6 DEF Consists
  <2> HIDE DEF n, offer
  <2>5. /\ offer[o].of = t
        /\ \A x \in Offers \ {o} : /\ offer[x].of = lettings.offer[x].of
                                   /\ offer[x].status = lettings.offer[x].status
    BY <1>5, <2>3
  <2>6. QED
    BY <1>1, <1>2, <2>2, <2>3, <2>4, <2>5, OfferMade, Prepared
<1>9. QED
  BY <1>7, <1>8

AnsweredWith(o, s) == [lettings.offer EXCEPT ![o].status = s]

LEMMA OfferAnswered ==
    ASSUME lettings \in LettingRows, NEW o \in Offers, lettings.offer[o].status = "OFFERED",
           NEW s \in {"ACCEPTED", "DECLINED"}
    PROVE  /\ AnsweredWith(o, s) \in [Offers -> OfferRow]
           /\ \A x \in Offers :
                LET new == AnsweredWith(o, s)[x]
                    old == lettings.offer[x]
                IN  /\ new.of = old.of
                    /\ new.status = "OFFERED" => old.status = "OFFERED"
                    /\ old.status # "OFFERED" => new.status = old.status
<1>1. lettings.offer \in [Offers -> OfferRow]
  BY Columns
<1>2. QED
  BY <1>1 DEF OfferRow, AnsweredWith

LEMMA AnswersKeep ==
    ASSUME TenanciesIInv, NEW c \in Desks, NEW o \in Offers,
           AcceptRenewal(c, o) \/ DeclineRenewal(c, o)
    PROVE  TenanciesIInv'
<1> DEFINE t == lettings.offer[o].of
           accepted == [lettings.tenancy[t] EXCEPT !.end = lettings.offer[o].newEnd,
                                                   !.status = "ACTIVE"]
           declined == [lettings.tenancy[t] EXCEPT !.notice = TRUE,
                                                   !.status = "NOTICE_GIVEN"]
<1>1. /\ lettings \in LettingRows /\ lettings.unit \in [Units -> UnitRow]
      /\ lettings.offer[o].newEnd \in Dates /\ lettings.offer[o].status = "OFFERED"
      /\ t \in Leases => lettings.tenancy[t] \in TenancyRow
  BY Columns DEF TenanciesIInv, OfferRow, AcceptRenewal, DeclineRenewal, Answerable
<1>2. t \in Leases => /\ accepted \in TenancyRow /\ accepted.unit = lettings.tenancy[t].unit
                      /\ declined \in TenancyRow /\ declined.unit = lettings.tenancy[t].unit
  BY <1>1 DEF TenancyRow, TenancyStatus
<1>3. CASE AcceptRenewal(c, o)
  <2> DEFINE n == [lettings EXCEPT !.offer[o].status = "ACCEPTED", !.tenancy[t] = accepted]
             offer == AnsweredWith(o, "ACCEPTED")
  <2>1. Prepares(c, n)
    BY <1>3 DEF AcceptRenewal
  <2>2. Consists(n, lettings.unit, [lettings.tenancy EXCEPT ![t] = accepted], offer)
    BY <1>1 DEF LettingRows, Consists, AnsweredWith
  <2>3. /\ offer \in [Offers -> OfferRow]
        /\ \A x \in Offers :
            /\ offer[x].of = lettings.offer[x].of
            /\ offer[x].status = "OFFERED" => lettings.offer[x].status = "OFFERED"
            /\ lettings.offer[x].status # "OFFERED" =>
                offer[x].status = lettings.offer[x].status
    BY <1>1, OfferAnswered
  <2> HIDE DEF n, offer, accepted, t
  <2>4. n \in LettingRows /\ Sound(lettings, n)
    BY <1>1, <1>2, <2>2, <2>3, Edited
  <2>5. QED
    BY <2>1, <2>4, Prepared
<1>4. CASE DeclineRenewal(c, o)
  <2> DEFINE n == [lettings EXCEPT !.offer[o].status = "DECLINED", !.tenancy[t] = declined]
             offer == AnsweredWith(o, "DECLINED")
  <2>1. Prepares(c, n)
    BY <1>4 DEF DeclineRenewal
  <2>2. Consists(n, lettings.unit, [lettings.tenancy EXCEPT ![t] = declined], offer)
    BY <1>1 DEF LettingRows, Consists, AnsweredWith
  <2>3. /\ offer \in [Offers -> OfferRow]
        /\ \A x \in Offers :
            /\ offer[x].of = lettings.offer[x].of
            /\ offer[x].status = "OFFERED" => lettings.offer[x].status = "OFFERED"
            /\ lettings.offer[x].status # "OFFERED" =>
                offer[x].status = lettings.offer[x].status
    BY <1>1, OfferAnswered
  <2> HIDE DEF n, offer, declined, t
  <2>4. n \in LettingRows /\ Sound(lettings, n)
    BY <1>1, <1>2, <2>2, <2>3, Edited
  <2>5. QED
    BY <2>1, <2>4, Prepared
<1>5. QED
  BY <1>3, <1>4

LEMMA LapseKeeps ==
    ASSUME TenanciesIInv, NEW c \in Desks, LapseOffers(c)
    PROVE  TenanciesIInv'
<1> DEFINE offer == [o \in Offers |->
                IF lettings.offer[o].status = "OFFERED"
                    /\ lettings.tenancy[lettings.offer[o].of].end \in 1 .. month - 1
                THEN [lettings.offer[o] EXCEPT !.status = "LAPSED"] ELSE lettings.offer[o]]
           n == [lettings EXCEPT !.offer = offer]
<1>1. /\ lettings \in LettingRows /\ lettings.unit \in [Units -> UnitRow]
      /\ lettings.tenancy \in [Leases -> TenancyRow]
      /\ lettings.offer \in [Offers -> OfferRow]
  BY Columns DEF TenanciesIInv
<1>2. /\ offer \in [Offers -> OfferRow]
      /\ \A o \in Offers :
            /\ offer[o].of = lettings.offer[o].of
            /\ offer[o].status = "OFFERED" => lettings.offer[o].status = "OFFERED"
            /\ lettings.offer[o].status # "OFFERED" =>
                offer[o].status = lettings.offer[o].status
  BY <1>1 DEF OfferRow
<1>3. Prepares(c, n)
  BY DEF LapseOffers
<1>4. Consists(n, lettings.unit, lettings.tenancy, offer)
  BY <1>1 DEF LettingRows, Consists
<1> HIDE DEF n, offer
<1>5. n \in LettingRows /\ Sound(lettings, n)
  BY <1>1, <1>2, <1>4, Reworked
<1>6. QED
  BY <1>3, <1>5, Prepared

-----------------------------------------------------------------------------
(* The theorems *)

LEMMA InitTenancies == TenanciesInit => TenanciesIInv
<1> SUFFICES ASSUME TenanciesInit PROVE TenanciesIInv
  OBVIOUS
<1>1. PICK home \in [Standing -> Units], end \in [Standing -> Ends \ {0, 1}] :
        lettings = [NewLettings EXCEPT
            !.tenancy = [t \in Leases |->
                IF t \in Standing THEN Rederived([Unlet EXCEPT !.unit = home[t], !.end = end[t]])
                ELSE Unlet],
            !.unit = [u \in Units |->
                IF \E t \in Standing : home[t] = u
                THEN [status |-> "OCCUPIED", advertised |-> FALSE] ELSE @[u]]]
  BY DEF TenanciesInit
<1>2. month \in 1 .. Horizon /\ asked \in 0 .. MaxLettings
  BY TenanciesAssumption DEF TenanciesInit, TenanciesAssumption
<1>3. lettings \in LettingRows
  <2> DEFINE New(t) == [Unlet EXCEPT !.unit = home[t], !.end = end[t]]
             tenancy == [t \in Leases |-> IF t \in Standing THEN Rederived(New(t)) ELSE Unlet]
             unit == [u \in Units |-> IF \E t \in Standing : home[t] = u
                                      THEN [status |-> "OCCUPIED", advertised |-> FALSE]
                                      ELSE [status |-> "VACANT", advertised |-> FALSE]]
             offer == [o \in Offers |-> Unoffered]
  <2>1. \A t \in Standing : New(t) \in TenancyRow
    BY <1>2, SomeDates DEF Unlet, TenancyRow, TenancyStatus
  <2>2. Unlet \in TenancyRow /\ Unoffered \in OfferRow
    BY <1>2, SomeDates DEF Unlet, Unoffered, TenancyRow, OfferRow, TenancyStatus
  <2>3. unit \in [Units -> UnitRow]
    BY DEF UnitRow, UnitStatus
  <2>4. Consists(lettings, unit, tenancy, offer)
    BY <1>1 DEF Consists, NewLettings
  <2> HIDE DEF New
  <2>5. tenancy \in [Leases -> TenancyRow] /\ offer \in [Offers -> OfferRow]
    BY <2>1, <2>2, RederivedRow
  <2> HIDE DEF tenancy, unit, offer
  <2>6. QED
    BY <2>3, <2>4, <2>5, RowsTogether
<1>4. desk = [c \in Desks |-> desk[c]] /\ \A c \in Desks : ServingOK(desk[c])
  BY DEF TenanciesInit, ServingOK, Session!Idle
<1>5. QED
  BY <1>2, <1>3, <1>4 DEF TenanciesIInv

(* A step is the commit of a request that others overlapped, or lets and offers
   nothing twice. *)
LEMMA TenanciesSteps ==
    ASSUME TenanciesIInv, [TenanciesNext]_tenanciesVars
    PROVE  /\ TenanciesIInv'
           /\ \/ \E c \in Desks : Session!StaleSave(c)
              \/ UNCHANGED lettings
              \/ Sound(lettings, lettings')
<1> DEFINE Quiet == UNCHANGED lettings
<1>1. CASE NextMonth
  <2>1. month' \in 1 .. Horizon
    BY <1>1, TenanciesAssumption DEF NextMonth, TenanciesIInv, TenanciesAssumption
  <2>2. QED
    BY <1>1, <2>1 DEF NextMonth, TenanciesIInv
<1>2. CASE UNCHANGED tenanciesVars
  BY <1>2 DEF tenanciesVars, TenanciesIInv
<1>3. ASSUME NEW c \in Desks, SaveLetting(c)
      PROVE  TenanciesIInv' /\ (Session!StaleSave(c) \/ Sound(lettings, lettings'))
  BY <1>3, SaveKeeps
<1>4. ASSUME NEW c \in Desks, RefreshStatuses(c) \/ LapseOffers(c) \/ DropLetting(c)
                                \/ CommitImport(c)
      PROVE  TenanciesIInv' /\ Quiet
  <2>1. TenanciesIInv'
    BY <1>4, RefreshKeeps, LapseKeeps, DropKeeps, CommitImportKeeps
  <2>2. Quiet
    BY <1>4 DEF RefreshStatuses, LapseOffers, DropLetting, CommitImport, Prepares,
                Session!Prepares, Session!PreparesOne, Session!Drops, Session!Continues
  <2>3. QED
    BY <2>1, <2>2
<1>5. ASSUME NEW c \in Desks, NEW t \in Leases,
             \/ \E u \in Units, e \in EndDates : CreateTenancy(c, t, u, e)
             \/ \E e \in EndDates : UpdateTenancy(c, t, e)
             \/ VacateTenancy(c, t) \/ SubmitVacateNotice(c, t)
             \/ AcknowledgeVacateNotice(c, t)
      PROVE  TenanciesIInv' /\ Quiet
  <2>1. Quiet
    BY <1>5 DEF CreateTenancy, UpdateTenancy, VacateTenancy, SubmitVacateNotice,
                AcknowledgeVacateNotice, Prepares, Session!Prepares, Session!PreparesOne
  <2>2. QED
    BY <1>5, <2>1, LettingKeeps
<1>6. ASSUME NEW c \in Desks, NEW t \in Leases, NEW o \in Offers,
             OfferRenewal(c, o, t) \/ OfferDueRenewals(c, o, t)
      PROVE  TenanciesIInv' /\ Quiet
  <2>1. Quiet
    BY <1>6 DEF OfferRenewal, OfferDueRenewals, Prepares, Session!Prepares,
                Session!PreparesOne
  <2>2. QED
    BY <1>6, <2>1, OffersKeep
<1>7. ASSUME NEW c \in Desks, NEW o \in Offers, AcceptRenewal(c, o) \/ DeclineRenewal(c, o)
      PROVE  TenanciesIInv' /\ Quiet
  <2>1. Quiet
    BY <1>7 DEF AcceptRenewal, DeclineRenewal, Prepares, Session!Prepares,
                Session!PreparesOne
  <2>2. QED
    BY <1>7, <2>1, AnswersKeep
<1>8. ASSUME NEW c \in Desks, NEW u \in Units,
             Advertise(c, u) \/ \E s \in SetByHand : UpdateUnitStatus(c, u, s)
      PROVE  TenanciesIInv' /\ Quiet
  <2>1. Quiet
    BY <1>8 DEF Advertise, UpdateUnitStatus, Prepares, Session!Prepares,
                Session!PreparesOne
  <2>2. QED
    BY <1>8, <2>1, UnitKeeps
<1>9. ASSUME NEW c \in Desks, NEW sheet \in [Leases \ Standing -> Units \X Ends],
             PreviewImport(c, {<<t, sheet[t][1], sheet[t][2]>> : t \in Leases \ Standing})
      PROVE  TenanciesIInv' /\ Quiet
  <2>1. Quiet
    BY <1>9 DEF PreviewImport, Session!Starts
  <2>2. QED
    BY <1>9, <2>1, PreviewKeeps
<1> HIDE DEF Quiet
<1>10. CASE TenanciesNext
  BY <1>1, <1>3, <1>4, <1>5, <1>6, <1>7, <1>8, <1>9, <1>10 DEF TenanciesNext, Quiet
<1>11. QED
  BY <1>2, <1>10

LEMMA TenanciesTypes == TenanciesIInv => TenanciesTypeOK
<1> SUFFICES ASSUME TenanciesIInv PROVE TenanciesTypeOK
  OBVIOUS
<1>1. \A rows \in LettingRows : IsLettings(rows)
  BY DEF LettingRows, IsLettings, UnitRow, TenancyRow, OfferRow
<1>2. \A c \in Desks : Session!IsWork(desk[c], IsLettings, Rows)
  BY <1>1 DEF TenanciesIInv, ServingOK, Session!IsWork
<1>3. QED
  BY <1>1, <1>2 DEF TenanciesTypeOK, TenanciesIInv

(* Units, tenancies, offers and requests in flight keep their types: a unit
   never gets a status of a tenancy, and every date stays in range. *)
THEOREM TenanciesAreWellTyped == TenanciesSpec => []TenanciesTypeOK
<1>1. TenanciesIInv /\ [TenanciesNext]_tenanciesVars => TenanciesIInv'
  BY TenanciesSteps
<1>2. QED
  BY InitTenancies, <1>1, TenanciesTypes, PTL DEF TenanciesSpec

(* A unit that was let to one comes to be let to more only by requests that
   overlap, by a tenancy that is brought back to life, or by a spreadsheet that
   names it twice (tenant_service.py create_tenancy, import_service.py
   _validate_tenants and _commit_tenants). *)
THEOREM OverlapOrRevivalAloneLetsTwice ==
    TenanciesSpec => LetTwiceOnlyByOverlapOrRevival
<1> DEFINE Step ==
        \A u \in Units :
            Cardinality(LiveOn(lettings', u)) > 1 /\ Cardinality(LiveOn(lettings, u)) <= 1 =>
                \/ \E c \in Desks : Session!StaleSave(c)
                \/ \E t \in LiveOn(lettings', u) :
                    Exists(lettings, t) /\ lettings.tenancy[t].status \notin Live
                \/ \E s, t \in LiveOn(lettings', u) :
                    s # t /\ ~Exists(lettings, s) /\ ~Exists(lettings, t)
<1>1. TenanciesIInv /\ [TenanciesNext]_tenanciesVars => TenanciesIInv'
  BY TenanciesSteps
<1>2. TenanciesIInv /\ [TenanciesNext]_tenanciesVars => Step
  <2> SUFFICES ASSUME TenanciesIInv, [TenanciesNext]_tenanciesVars,
                      ~\E c \in Desks : Session!StaleSave(c),
                      NEW u \in Units,
                      Cardinality(LiveOn(lettings', u)) > 1,
                      Cardinality(LiveOn(lettings, u)) <= 1
               PROVE  \/ \E t \in LiveOn(lettings', u) :
                            Exists(lettings, t) /\ lettings.tenancy[t].status \notin Live
                      \/ \E s, t \in LiveOn(lettings', u) :
                            s # t /\ ~Exists(lettings, s) /\ ~Exists(lettings, t)
    OBVIOUS
  <2>1. IsFiniteSet(LiveOn(lettings, u))
    BY FS_Subset, TenanciesAssumption DEF LiveOn, TenanciesAssumption
  <2>2. Cardinality(LiveOn(lettings, u)) \in Nat
    BY <2>1, FS_CardinalityType
  <2>3. ASSUME LiveOn(lettings', u) \subseteq LiveOn(lettings, u) PROVE FALSE
    <3>1. Cardinality(LiveOn(lettings', u)) <= Cardinality(LiveOn(lettings, u))
      BY <2>1, <2>3, FS_Subset
    <3>2. Cardinality(LiveOn(lettings', u)) \in Nat
      BY <2>1, <2>3, FS_Subset, FS_CardinalityType
    <3>3. QED
      BY <2>2, <3>1, <3>2
  <2>4. ASSUME NEW t \in Leases, LiveOn(lettings', u) \subseteq {t} PROVE FALSE
    <3>1. LiveOn(lettings', u) = {} \/ LiveOn(lettings', u) = {t}
      BY <2>4
    <3>2. Cardinality({}) = 0 /\ Cardinality({t}) = 1
      BY FS_EmptySet, FS_Singleton
    <3>3. QED
      BY <3>1, <3>2
  <2>5. Sound(lettings, lettings')
    BY <2>3, TenanciesSteps
  <2>6. QED
    BY <2>3, <2>4, <2>5 DEF Sound, LetsOnce
<1>3. QED
  BY InitTenancies, <1>1, <1>2, PTL DEF TenanciesSpec, LetTwiceOnlyByOverlapOrRevival

(* A tenancy has one open offer, and an answer, once given or lapsed, is final,
   unless two sessions overlap (renewal_service.py offer_for_tenancy, accept,
   decline, lapse_expired_offers). *)
THEOREM OverlapAloneReopensAnOffer == TenanciesSpec => OnlyOverlapReopensAnOffer
<1> DEFINE Step ==
        \/ \E c \in Desks : Session!StaleSave(c)
        \/ /\ \A t \in Leases :
                Cardinality(OpenOffers(lettings, t)) <= 1 =>
                    Cardinality(OpenOffers(lettings', t)) <= 1
           /\ \A o \in Offers :
                lettings.offer[o].status \in {"ACCEPTED", "DECLINED", "LAPSED"} =>
                    lettings'.offer[o].status = lettings.offer[o].status
<1>1. TenanciesIInv /\ [TenanciesNext]_tenanciesVars => TenanciesIInv'
  BY TenanciesSteps
<1>2. TenanciesIInv /\ [TenanciesNext]_tenanciesVars => Step
  <2> SUFFICES ASSUME TenanciesIInv, [TenanciesNext]_tenanciesVars,
                      ~\E c \in Desks : Session!StaleSave(c)
               PROVE  /\ \A t \in Leases :
                            Cardinality(OpenOffers(lettings, t)) <= 1 =>
                                Cardinality(OpenOffers(lettings', t)) <= 1
                      /\ \A o \in Offers : lettings.offer[o].status \in OfferAnswers =>
                            lettings'.offer[o].status = lettings.offer[o].status
    BY DEF OfferAnswers
  <2>1. OffersOnce(lettings, lettings')
    BY TenanciesSteps, OffersKept DEF Sound
  <2>2. ASSUME NEW t \in Leases, Cardinality(OpenOffers(lettings, t)) <= 1
        PROVE  Cardinality(OpenOffers(lettings', t)) <= 1
    <3>1. IsFiniteSet(OpenOffers(lettings, t)) /\ IsFiniteSet(OpenOffers(lettings', t))
      BY FS_Subset, TenanciesAssumption DEF OpenOffers, TenanciesAssumption
    <3>2. /\ Cardinality(OpenOffers(lettings, t)) \in Nat
          /\ Cardinality(OpenOffers(lettings', t)) \in Nat
      BY <3>1, FS_CardinalityType
    <3>3. CASE OpenOffers(lettings', t) \subseteq OpenOffers(lettings, t)
      <4>1. Cardinality(OpenOffers(lettings', t)) <= Cardinality(OpenOffers(lettings, t))
        BY <3>1, <3>3, FS_Subset
      <4>2. QED
        BY <2>2, <3>2, <4>1
    <3>4. ASSUME NEW o \in Offers, OpenOffers(lettings', t) \subseteq {o}
          PROVE  Cardinality(OpenOffers(lettings', t)) <= 1
      <4>1. OpenOffers(lettings', t) = {} \/ OpenOffers(lettings', t) = {o}
        BY <3>4
      <4>2. Cardinality({}) = 0 /\ Cardinality({o}) = 1
        BY FS_EmptySet, FS_Singleton
      <4>3. QED
        BY <4>1, <4>2
    <3>5. QED
      BY <2>1, <3>3, <3>4 DEF OffersOnce
  <2>3. QED
    BY <2>1, <2>2 DEF OffersOnce
<1>3. QED
  BY InitTenancies, <1>1, <1>2, PTL DEF TenanciesSpec, OnlyOverlapReopensAnOffer

-----------------------------------------------------------------------------
(* Team.  Its types, and that an organisation is not left without a manager by
   requests that do not overlap, unless the managers wished to be erased.  A
   request by a manager leaves that manager, as it read the rows; and who could
   be erased when the purge looked can still be when it commits. *)

UserRow ==
    [status : {"none", "active", "inactive"}, manager : BOOLEAN, asked : 0 .. LastHour, nth : Nat]

InviteRow ==
    [status : {"none", "PENDING", "ACCEPTED", "REVOKED", "EXPIRED"},
     who : People \cup {"nobody"}, manager : BOOLEAN,
     link : 0 .. MaxLinks, until : 0 .. LastHour + LinkHours]

StaffRows == [user : [People -> UserRow], invite : [Invitations -> InviteRow]]

ManagersIn(rows) == {p \in People : rows.user[p].status = "active" /\ rows.user[p].manager}

ErasableIn(rows, p, now) ==
    /\ rows.user[p].status # "none" /\ rows.user[p].asked # 0
    /\ rows.user[p].asked + GraceHours <= now

(* The rows in memory keep somebody who manages, or drop those alone whose grace
   period is over. *)
KeepsAManager(was, is, now) ==
    ManagersIn(was) # {} /\ ManagersIn(is) = {} =>
        \A p \in ManagersIn(was) : ErasableIn(was, p, now)

(* a request in flight read what it looks at in one go *)
PanelOK(w, now) ==
    \/ w.at = "idle"
    \/ /\ w.at = "ready" /\ w.rest = {} /\ w.seen = w.was
       /\ w.was \in StaffRows /\ w.is \in StaffRows /\ KeepsAManager(w.was, w.is, now)

TeamIInv ==
    /\ hour \in Hours /\ acts \in 0 .. MaxActs
    /\ panel = [c \in Panels |-> panel[c]]
    /\ staff \in StaffRows
    /\ \A c \in Panels : PanelOK(panel[c], hour)

-----------------------------------------------------------------------------
(* Rows and sessions *)

LEMMA StaffColumns ==
    ASSUME NEW rows \in StaffRows
    PROVE  /\ DOMAIN rows = {"user", "invite"}
           /\ rows.user \in [People -> UserRow] /\ rows.invite \in [Invitations -> InviteRow]
           /\ \A t \in DOMAIN rows : \A k \in DOMAIN rows[t] :
                rows[t][k] = [c \in DOMAIN rows[t][k] |-> rows[t][k][c]]
           /\ \A p \in People : DOMAIN rows.user[p] = {"status", "manager", "asked", "nth"}
           /\ \A i \in Invitations :
                DOMAIN rows.invite[i] = {"status", "who", "manager", "link", "until"}
BY DEF StaffRows, UserRow, InviteRow

(* A commit leaves every column as the session or as the other sessions have it. *)
LEMMA MergedUser ==
    ASSUME NEW was, NEW is \in UserRow, NEW now \in UserRow
    PROVE  Panel!MergedRow(was, is, now) \in UserRow
<1> DEFINE r == Panel!MergedRow(was, is, now)
<1>1. r = [status |-> IF is.status = was.status THEN now.status ELSE is.status,
           manager |-> IF is.manager = was.manager THEN now.manager ELSE is.manager,
           asked |-> IF is.asked = was.asked THEN now.asked ELSE is.asked,
           nth |-> IF is.nth = was.nth THEN now.nth ELSE is.nth]
  BY DEF UserRow, Panel!MergedRow
<1>2. QED
  BY <1>1 DEF UserRow

LEMMA MergedInvite ==
    ASSUME NEW was, NEW is \in InviteRow, NEW now \in InviteRow
    PROVE  Panel!MergedRow(was, is, now) \in InviteRow
<1> DEFINE r == Panel!MergedRow(was, is, now)
<1>1. r = [status |-> IF is.status = was.status THEN now.status ELSE is.status,
           who |-> IF is.who = was.who THEN now.who ELSE is.who,
           manager |-> IF is.manager = was.manager THEN now.manager ELSE is.manager,
           link |-> IF is.link = was.link THEN now.link ELSE is.link,
           until |-> IF is.until = was.until THEN now.until ELSE is.until]
  BY DEF InviteRow, Panel!MergedRow
<1>2. QED
  BY <1>1 DEF InviteRow

LEMMA MergedStaff ==
    ASSUME NEW was, NEW is \in StaffRows, NEW now \in StaffRows
    PROVE  Panel!Merged(was, is, now) \in StaffRows
<1> DEFINE m == Panel!Merged(was, is, now)
           Row(t, k) == Panel!MergedRow(was[t][k], is[t][k], now[t][k])
<1>1. m = [t \in {"user", "invite"} |-> [k \in DOMAIN now[t] |-> Row(t, k)]]
  BY StaffColumns DEF Panel!Merged
<1>2. /\ m.user = [p \in People |-> Row("user", p)]
      /\ m.invite = [i \in Invitations |-> Row("invite", i)]
      /\ m = [user |-> m.user, invite |-> m.invite]
  BY <1>1, StaffColumns
<1>3. \A p \in People : Row("user", p) \in UserRow
  BY MergedUser, StaffColumns
<1>4. \A i \in Invitations : Row("invite", i) \in InviteRow
  BY MergedInvite, StaffColumns
<1> HIDE DEF m, Row
<1>5. QED
  BY <1>2, <1>3, <1>4 DEF StaffRows, m

(* A commit over the rows that were read writes what was prepared. *)
LEMMA PanelSavesWhatItPrepared ==
    ASSUME NEW was \in StaffRows, NEW is \in StaffRows
    PROVE  Panel!Merged(was, is, was) = is
<1>1. \A t \in DOMAIN was : DOMAIN is[t] = DOMAIN was[t]
  BY StaffColumns
<1>2. \A t \in DOMAIN was : \A k \in DOMAIN was[t] : DOMAIN is[t][k] = DOMAIN was[t][k]
  BY StaffColumns
<1>3. \A t \in DOMAIN was : \A k \in DOMAIN was[t] :
        Panel!MergedRow(was[t][k], is[t][k], was[t][k]) = is[t][k]
  BY <1>1, <1>2, StaffColumns DEF Panel!MergedRow
<1>4. \A t \in DOMAIN is : is[t] = [k \in DOMAIN is[t] |-> is[t][k]]
  BY StaffColumns
<1>5. is = [t \in DOMAIN is |-> is[t]]
  BY DEF StaffRows
<1>6. QED
  BY <1>1, <1>3, <1>4, <1>5, StaffColumns DEF Panel!Merged

-----------------------------------------------------------------------------
(* What the handlers prepare *)

(* Rows with another table of invitations or of users. *)
LEMMA OtherInvites ==
    ASSUME staff \in StaffRows, NEW invite \in [Invitations -> InviteRow], NEW new,
           new = [staff EXCEPT !.invite = invite]
    PROVE  new \in StaffRows /\ KeepsAManager(staff, new, hour)
<1>1. new \in StaffRows /\ new.user = staff.user
  BY DEF StaffRows
<1>2. QED
  BY <1>1 DEF KeepsAManager, ManagersIn

LEMMA OtherUsers ==
    ASSUME staff \in StaffRows, NEW user \in [People -> UserRow], NEW new,
           new = [staff EXCEPT !.user = user]
    PROVE  new \in StaffRows /\ new.user = user
BY DEF StaffRows

LEMMA Invited ==
    ASSUME staff \in StaffRows, hour \in Hours, NEW i \in Invitations, NEW p \in People,
           NEW manager \in BOOLEAN
    PROVE  LET new == [staff EXCEPT !.invite[i] =
                        [status |-> "PENDING", who |-> p, manager |-> manager, link |-> 1,
                         until |-> hour + LinkHours]]
           IN  new \in StaffRows /\ KeepsAManager(staff, new, hour)
<1> DEFINE row == [status |-> "PENDING", who |-> p, manager |-> manager, link |-> 1,
                   until |-> hour + LinkHours]
           invite == [staff.invite EXCEPT ![i] = row]
           new == [staff EXCEPT !.invite[i] = row]
<1>1. row \in InviteRow
  BY TeamAssumption DEF InviteRow, Hours
<1> HIDE DEF row
<1>2. invite \in [Invitations -> InviteRow]
  BY <1>1, StaffColumns
<1>3. new = [staff EXCEPT !.invite = invite]
  BY DEF StaffRows
<1> HIDE DEF invite, new
<1>4. new \in StaffRows /\ KeepsAManager(staff, new, hour)
  BY <1>2, <1>3, OtherInvites
<1>5. QED
  BY <1>4 DEF new, row

(* An invitation that expires or is revoked. *)
LEMMA InviteEnds ==
    ASSUME staff \in StaffRows, NEW i \in Invitations, NEW status \in {"EXPIRED", "REVOKED"}
    PROVE  LET new == [staff EXCEPT !.invite[i].status = status]
           IN  new \in StaffRows /\ KeepsAManager(staff, new, hour)
<1> DEFINE invite == [staff.invite EXCEPT ![i].status = status]
           new == [staff EXCEPT !.invite[i].status = status]
<1>1. invite \in [Invitations -> InviteRow]
  BY StaffColumns DEF InviteRow
<1>2. new = [staff EXCEPT !.invite = invite]
  BY DEF StaffRows
<1> HIDE DEF invite, new
<1>3. QED
  BY <1>1, <1>2, OtherInvites DEF new

LEMMA InviteResent ==
    ASSUME staff \in StaffRows, hour \in Hours, NEW i \in Invitations,
           staff.invite[i].link < MaxLinks
    PROVE  LET new == [staff EXCEPT !.invite[i].link = @ + 1,
                                    !.invite[i].until = hour + LinkHours]
           IN  new \in StaffRows /\ KeepsAManager(staff, new, hour)
<1> DEFINE row == [staff.invite[i] EXCEPT !.link = staff.invite[i].link + 1,
                                          !.until = hour + LinkHours]
           invite == [staff.invite EXCEPT ![i] = row]
           new == [staff EXCEPT !.invite[i].link = @ + 1, !.invite[i].until = hour + LinkHours]
<1>1. staff.invite[i] \in InviteRow /\ staff.invite \in [Invitations -> InviteRow]
  BY StaffColumns
<1>2. staff.invite[i].link + 1 \in 0 .. MaxLinks /\ hour + LinkHours \in 0 .. LastHour + LinkHours
  BY <1>1, TeamAssumption DEF InviteRow, Hours
<1>3. row \in InviteRow
  BY <1>1, <1>2 DEF InviteRow
<1>4. new = [staff EXCEPT !.invite = invite]
  BY <1>1 DEF StaffRows, InviteRow
<1> HIDE DEF row, new
<1>5. invite \in [Invitations -> InviteRow]
  BY <1>1, <1>3
<1> HIDE DEF invite
<1>6. QED
  BY <1>4, <1>5, OtherInvites DEF new

(* Who accepts an invitation was not a member, so no manager is lost. *)
LEMMA Accepted ==
    ASSUME staff \in StaffRows, NEW i \in Invitations, NEW p \in People \cup {"nobody"},
           NEW manager \in BOOLEAN, ~Belongs(p)
    PROVE  LET new == [staff EXCEPT !.user[p] = Member(manager, @.nth + 1),
                                    !.invite[i].status = "ACCEPTED"]
           IN  new \in StaffRows /\ KeepsAManager(staff, new, hour)
<1> DEFINE user == [staff.user EXCEPT ![p] = Member(manager, staff.user[p].nth + 1)]
           invite == [staff.invite EXCEPT ![i].status = "ACCEPTED"]
           new == [staff EXCEPT !.user[p] = Member(manager, @.nth + 1),
                                !.invite[i].status = "ACCEPTED"]
<1>1. staff.user \in [People -> UserRow] /\ staff.invite \in [Invitations -> InviteRow]
  BY StaffColumns
<1>2. p \in People => Member(manager, staff.user[p].nth + 1) \in UserRow
  BY <1>1, TeamAssumption DEF UserRow, Member
<1>3. user \in [People -> UserRow]
  BY <1>1, <1>2
<1>4. invite \in [Invitations -> InviteRow]
  BY <1>1 DEF InviteRow
<1>5. new = [staff EXCEPT !.user = user, !.invite = invite]
  BY DEF StaffRows
<1>6. \A q \in People : q # p => user[q] = staff.user[q]
  BY <1>1
<1> HIDE DEF user, invite, new
<1>7. new \in StaffRows /\ new.user = user
  BY <1>3, <1>4, <1>5 DEF StaffRows
<1>8. ManagersIn(staff) \subseteq ManagersIn(new)
  BY <1>6, <1>7 DEF ManagersIn, Belongs
<1>9. QED
  BY <1>7, <1>8 DEF KeepsAManager, new

(* A user row that somebody else's request writes leaves that manager. *)
LEMMA ManagerStays ==
    ASSUME staff \in StaffRows, NEW by \in Managers, NEW p \in People, NEW row \in UserRow,
           p = by => row.status = "active" /\ row.manager
    PROVE  LET new == [staff EXCEPT !.user[p] = row]
           IN  new \in StaffRows /\ KeepsAManager(staff, new, hour)
<1> DEFINE user == [staff.user EXCEPT ![p] = row]
           new == [staff EXCEPT !.user[p] = row]
<1>1. user \in [People -> UserRow] /\ user[p] = row
      /\ \A q \in People : q # p => user[q] = staff.user[q]
  BY StaffColumns
<1>2. new = [staff EXCEPT !.user = user]
  BY DEF StaffRows
<1> HIDE DEF user, new
<1>3. new \in StaffRows /\ new.user = user
  BY <1>1, <1>2, OtherUsers
<1>4. by \in ManagersIn(new)
  BY <1>1, <1>3 DEF ManagersIn, Managers
<1>5. QED
  BY <1>3, <1>4 DEF KeepsAManager, new

(* remove_member of somebody else *)
LEMMA Removed ==
    ASSUME staff \in StaffRows, NEW by \in Managers, NEW p \in People, p # by
    PROVE  LET new == [staff EXCEPT !.user[p] = Stranger(@.nth)]
           IN  new \in StaffRows /\ KeepsAManager(staff, new, hour)
<1>1. Stranger(staff.user[p].nth) \in UserRow
  BY StaffColumns, TeamAssumption DEF Stranger, UserRow
<1>2. [staff EXCEPT !.user[p] = Stranger(@.nth)] = [staff EXCEPT !.user[p] = Stranger(staff.user[p].nth)]
  BY DEF StaffRows
<1>3. QED
  BY <1>1, <1>2, ManagerStays

(* set_user_access *)
LEMMA AccessSet ==
    ASSUME staff \in StaffRows, NEW by \in Managers, NEW p \in People,
           NEW status \in {"active", "inactive"}, p = by => status = "active"
    PROVE  LET new == [staff EXCEPT !.user[p].status = status]
           IN  new \in StaffRows /\ KeepsAManager(staff, new, hour)
<1> DEFINE row == [staff.user[p] EXCEPT !.status = status]
<1>1. staff.user[p] \in UserRow
  BY StaffColumns
<1>2. row \in UserRow /\ row.status = status /\ row.manager = staff.user[p].manager
  BY <1>1 DEF UserRow
<1>3. p = by => row.status = "active" /\ row.manager
  BY <1>2 DEF Managers
<1>4. [staff EXCEPT !.user[p].status = status] = [staff EXCEPT !.user[p] = row]
  OBVIOUS
<1> HIDE DEF row
<1>5. QED
  BY <1>2, <1>3, <1>4, ManagerStays

(* request_account_deletion, cancel_account_deletion *)
LEMMA DeletionAsked ==
    ASSUME staff \in StaffRows, NEW p \in People, NEW when \in 0 .. LastHour
    PROVE  LET new == [staff EXCEPT !.user[p].asked = when]
           IN  new \in StaffRows /\ KeepsAManager(staff, new, hour)
<1> DEFINE user == [staff.user EXCEPT ![p].asked = when]
           new == [staff EXCEPT !.user[p].asked = when]
<1>1. /\ user \in [People -> UserRow]
      /\ \A q \in People : user[q].status = staff.user[q].status
                           /\ user[q].manager = staff.user[q].manager
  BY StaffColumns DEF UserRow
<1>2. new = [staff EXCEPT !.user = user]
  BY DEF StaffRows
<1> HIDE DEF user, new
<1>3. new \in StaffRows /\ new.user = user
  BY <1>1, <1>2, OtherUsers
<1>4. ManagersIn(new) = ManagersIn(staff)
  BY <1>1, <1>3 DEF ManagersIn
<1>5. QED
  BY <1>3, <1>4 DEF KeepsAManager, new

(* purge_deleted_accounts *)
LEMMA Purged ==
    ASSUME staff \in StaffRows
    PROVE  LET new == [staff EXCEPT !.user = [p \in People |->
                        IF Erasable(p) THEN Stranger(staff.user[p].nth) ELSE staff.user[p]]]
           IN  new \in StaffRows /\ KeepsAManager(staff, new, hour)
<1> DEFINE user == [p \in People |->
                IF Erasable(p) THEN Stranger(staff.user[p].nth) ELSE staff.user[p]]
           new == [staff EXCEPT !.user = user]
<1>1. \A p \in People : Stranger(staff.user[p].nth) \in UserRow
  BY StaffColumns, TeamAssumption DEF Stranger, UserRow
<1>2. user \in [People -> UserRow]
  BY <1>1, StaffColumns
<1>3. \A p \in People : ~Erasable(p) => user[p] = staff.user[p]
  OBVIOUS
<1>4. \A p \in People : Erasable(p) <=> ErasableIn(staff, p, hour)
  BY DEF Erasable, ErasableIn, Belongs
<1> HIDE DEF user
<1>5. new \in StaffRows /\ new.user = user
  BY <1>2, OtherUsers
<1> HIDE DEF new
<1>6. \A p \in ManagersIn(staff) : ErasableIn(staff, p, hour) \/ p \in ManagersIn(new)
  BY <1>3, <1>4, <1>5 DEF ManagersIn
<1>7. new \in StaffRows /\ KeepsAManager(staff, new, hour)
  BY <1>5, <1>6 DEF KeepsAManager
<1>8. QED
  BY <1>7 DEF new, user

-----------------------------------------------------------------------------
(* The inductive invariant *)

LEMMA InitIInv == TeamInit => TeamIInv
<1> SUFFICES ASSUME TeamInit PROVE TeamIInv
  OBVIOUS
<1>1. hour \in Hours /\ acts \in 0 .. MaxActs
  BY TeamAssumption DEF TeamInit, Hours
<1>2. Member(TRUE, 1) \in UserRow /\ Stranger(0) \in UserRow /\ Unsent \in InviteRow
  BY TeamAssumption DEF Member, Stranger, Unsent, UserRow, InviteRow
<1>3. staff \in StaffRows
  BY <1>2 DEF TeamInit, StaffRows
<1>4. panel = [c \in Panels |-> panel[c]] /\ \A c \in Panels : PanelOK(panel[c], hour)
  BY DEF TeamInit, PanelOK, Panel!Idle
<1>5. QED
  BY <1>1, <1>3, <1>4 DEF TeamIInv

(* a handler *)
LEMMA PreparesIInv ==
    ASSUME TeamIInv, NEW c \in Panels, NEW new, Prepare(c, new),
           new \in StaffRows, KeepsAManager(staff, new, hour)
    PROVE  TeamIInv' /\ UNCHANGED staff
<1> DEFINE w == Panel!Ready(staff, new, {})
<1>1. /\ panel' = [panel EXCEPT ![c] = w] /\ acts' = acts + 1
      /\ acts < MaxActs /\ UNCHANGED <<hour, staff>>
  BY DEF Prepare, Panel!Prepares, Panel!PreparesOne, Panel!Begins
<1>2. PanelOK(w, hour)
  BY DEF TeamIInv, PanelOK, Panel!Ready
<1> HIDE DEF w
<1>3. acts' \in 0 .. MaxActs
  BY <1>1, TeamAssumption DEF TeamIInv
<1>4. /\ panel' = [d \in Panels |-> panel'[d]]
      /\ \A d \in Panels : PanelOK(panel'[d], hour)
  BY <1>1, <1>2 DEF TeamIInv
<1>5. QED
  BY <1>1, <1>3, <1>4 DEF TeamIInv

LEMMA SaveIInv ==
    ASSUME TeamIInv, NEW c \in Panels, SaveTeam(c)
    PROVE  TeamIInv'
<1>1. /\ panel[c].at = "ready" /\ staff' = Panel!Merged(panel[c].was, panel[c].is, staff)
      /\ UNCHANGED <<hour, acts>>
  BY DEF SaveTeam, Panel!Saves
<1>2. panel[c].rest = {} /\ panel[c].is \in StaffRows /\ staff \in StaffRows
  BY <1>1 DEF TeamIInv, PanelOK
<1>3. panel' = [panel EXCEPT ![c] = Panel!Idle]
  BY <1>2 DEF SaveTeam, Panel!Saves
<1>4. staff' \in StaffRows
  BY <1>1, <1>2, MergedStaff
<1>5. PanelOK(Panel!Idle, hour)
  BY DEF PanelOK, Panel!Idle
<1>6. /\ panel' = [d \in Panels |-> panel'[d]]
      /\ \A d \in Panels : PanelOK(panel'[d], hour)
  BY <1>3, <1>5 DEF TeamIInv
<1>7. QED
  BY <1>1, <1>4, <1>6 DEF TeamIInv

LEMMA DropIInv ==
    ASSUME TeamIInv, NEW c \in Panels, DropTeam(c)
    PROVE  TeamIInv' /\ UNCHANGED staff
<1>1. panel' = [panel EXCEPT ![c] = Panel!Idle] /\ UNCHANGED <<hour, staff, acts>>
  BY DEF DropTeam, Panel!Drops
<1>2. PanelOK(Panel!Idle, hour)
  BY DEF PanelOK, Panel!Idle
<1>3. /\ panel' = [d \in Panels |-> panel'[d]]
      /\ \A d \in Panels : PanelOK(panel'[d], hour)
  BY <1>1, <1>2 DEF TeamIInv
<1>4. QED
  BY <1>1, <1>3 DEF TeamIInv

(* A grace period that is over stays over. *)
LEMMA HourIInv ==
    ASSUME TeamIInv, NextHour
    PROVE  TeamIInv' /\ UNCHANGED staff
<1>1. /\ hour' = hour + 1 /\ hour' \in Hours /\ hour \in Nat /\ GraceHours \in Nat
      /\ UNCHANGED <<staff, panel, acts>>
  BY TeamAssumption DEF NextHour, TeamIInv, Hours
<1>2. ASSUME NEW was \in StaffRows, NEW is, KeepsAManager(was, is, hour)
      PROVE  KeepsAManager(was, is, hour')
  <2>1. \A p \in People : was.user[p].asked \in Nat
    BY StaffColumns, TeamAssumption DEF UserRow
  <2>2. \A p \in People : ErasableIn(was, p, hour) => ErasableIn(was, p, hour')
    BY <1>1, <2>1 DEF ErasableIn
  <2>3. QED
    BY <1>2, <2>2 DEF KeepsAManager, ManagersIn
<1>3. \A c \in Panels : PanelOK(panel[c], hour')
  BY <1>2 DEF TeamIInv, PanelOK
<1>4. QED
  BY <1>1, <1>3 DEF TeamIInv

(* A request of c that only prepares: everything but its commit and roll-back. *)
Handler(c) ==
    \/ PurgeDeletedAccounts(c)
    \/ \E i \in Invitations :
        \/ \E p \in People, manager \in BOOLEAN : Invite(c, i, p, manager)
        \/ \E link \in 1 .. MaxLinks : PreviewInvitation(c, i, link) \/ AcceptInvitation(c, i, link)
        \/ RevokeInvitation(c, i) \/ ResendInvitation(c, i)
    \/ \E by, p \in People :
        \/ RemoveMember(c, by, p)
        \/ \E status \in {"active", "inactive"} : SetUserAccess(c, by, p, status)
    \/ \E p \in People : RequestDeletion(c, p) \/ CancelDeletion(c, p)

LEMMA HandlerIInv ==
    ASSUME TeamIInv, NEW c \in Panels, Handler(c)
    PROVE  TeamIInv' /\ UNCHANGED staff
<1>1. staff \in StaffRows /\ hour \in Hours
  BY DEF TeamIInv
<1> DEFINE Fine(new) ==
             new \in StaffRows /\ KeepsAManager(staff, new, hour) /\ Prepare(c, new)
<1>2. ASSUME PurgeDeletedAccounts(c)
      PROVE  \E new : Fine(new)
  BY <1>1, <1>2, Purged DEF PurgeDeletedAccounts
<1>3. ASSUME NEW i \in Invitations, NEW p \in People, NEW manager \in BOOLEAN,
             Invite(c, i, p, manager)
      PROVE  \E new : Fine(new)
  BY <1>1, <1>3, Invited DEF Invite
<1>4. ASSUME NEW i \in Invitations, NEW link, PreviewInvitation(c, i, link)
      PROVE  \E new : Fine(new)
  BY <1>1, <1>4, InviteEnds DEF PreviewInvitation
<1>5. ASSUME NEW i \in Invitations, NEW link, AcceptInvitation(c, i, link)
      PROVE  \E new : Fine(new)
  <2>1. /\ staff.invite[i].who \in People \cup {"nobody"} /\ staff.invite[i].manager \in BOOLEAN
    BY <1>1, StaffColumns DEF InviteRow
  <2>2. QED
    BY <1>1, <1>5, <2>1, Accepted DEF AcceptInvitation
<1>6. ASSUME NEW i \in Invitations, RevokeInvitation(c, i)
      PROVE  \E new : Fine(new)
  BY <1>1, <1>6, InviteEnds DEF RevokeInvitation
<1>7. ASSUME NEW i \in Invitations, ResendInvitation(c, i)
      PROVE  \E new : Fine(new)
  BY <1>1, <1>7, InviteResent DEF ResendInvitation
<1>8. ASSUME NEW by \in People, NEW p \in People, RemoveMember(c, by, p)
      PROVE  \E new : Fine(new)
  BY <1>1, <1>8, Removed DEF RemoveMember
<1>9. ASSUME NEW by \in People, NEW p \in People, NEW status \in {"active", "inactive"},
             SetUserAccess(c, by, p, status)
      PROVE  \E new : Fine(new)
  BY <1>1, <1>9, AccessSet DEF SetUserAccess
<1>10. ASSUME NEW p \in People, RequestDeletion(c, p)
       PROVE  \E new : Fine(new)
  <2>1. hour \in 0 .. LastHour
    BY <1>1, TeamAssumption DEF Hours
  <2>2. QED
    BY <1>1, <1>10, <2>1, DeletionAsked DEF RequestDeletion
<1>11. ASSUME NEW p \in People, CancelDeletion(c, p)
       PROVE  \E new : Fine(new)
  <2>1. 0 \in 0 .. LastHour
    BY TeamAssumption
  <2>2. QED
    BY <1>1, <1>11, <2>1, DeletionAsked DEF CancelDeletion
<1>12. PICK new : Fine(new)
  BY <1>2, <1>3, <1>4, <1>5, <1>6, <1>7, <1>8, <1>9, <1>10, <1>11 DEF Handler
<1>13. QED
  BY <1>12, PreparesIInv

(* The steps of TeamNext. *)
LEMMA Steps ==
    ASSUME TeamNext
    PROVE  \/ NextHour
           \/ \E c \in Panels : SaveTeam(c) \/ DropTeam(c) \/ Handler(c)
BY DEF TeamNext, Handler

LEMMA NextIInv == TeamIInv /\ [TeamNext]_teamVars => TeamIInv'
<1> SUFFICES ASSUME TeamIInv, [TeamNext]_teamVars PROVE TeamIInv'
  OBVIOUS
<1>1. CASE UNCHANGED teamVars
  BY <1>1 DEF teamVars, TeamIInv
<1>2. CASE TeamNext
  BY <1>2, Steps, HourIInv, SaveIInv, DropIInv, HandlerIInv
<1>3. QED
  BY <1>1, <1>2

LEMMA Invariance == TeamSpec => []TeamIInv
BY InitIInv, NextIInv, PTL DEF TeamSpec

(* The accounts, the invitations and the requests of user_service.py have their
   types, whatever order commits come in. *)
THEOREM TeamIsWellTyped == TeamSpec => []TeamTypeOK
<1>1. ASSUME NEW rows \in StaffRows PROVE IsStaff(rows)
  BY StaffColumns DEF IsStaff, UserRow, InviteRow
<1>2. ASSUME NEW w, NEW now, PanelOK(w, now) PROVE Panel!IsWork(w, IsStaff, {})
  BY <1>1, <1>2 DEF PanelOK, Panel!IsWork
<1>3. TeamIInv => TeamTypeOK
  BY <1>1, <1>2 DEF TeamIInv, TeamTypeOK
<1>4. QED
  BY <1>3, Invariance, PTL

-----------------------------------------------------------------------------
(* Nobody is locked out *)

NobodyLockedOut ==
    Managers # {} /\ Managers' = {} => \A p \in Managers : Erasable(p)

LEMMA ManagersOfRows ==
    /\ Managers = ManagersIn(staff) /\ Managers' = ManagersIn(staff')
    /\ \A p \in People : Erasable(p) <=> ErasableIn(staff, p, hour)
BY DEF Managers, ManagersIn, Erasable, ErasableIn, Belongs

LEMMA SameRowsLockNobodyOut ==
    ASSUME UNCHANGED staff
    PROVE  NobodyLockedOut
BY ManagersOfRows DEF NobodyLockedOut

LEMMA TimelySaveLocksNobodyOut ==
    ASSUME TeamIInv, NEW c \in Panels, SaveTeam(c), ~Panel!StaleSave(c)
    PROVE  NobodyLockedOut
<1>1. /\ panel[c].at = "ready" /\ staff' = Panel!Merged(panel[c].was, panel[c].is, staff)
      /\ panel[c].seen = staff
  BY DEF SaveTeam, Panel!Saves, Panel!StaleSave
<1>2. /\ panel[c].was = staff /\ staff \in StaffRows /\ panel[c].is \in StaffRows
      /\ KeepsAManager(staff, panel[c].is, hour)
  BY <1>1 DEF TeamIInv, PanelOK
<1>3. KeepsAManager(staff, staff', hour)
  BY <1>1, <1>2, PanelSavesWhatItPrepared
<1>4. ManagersIn(staff) \subseteq People
  BY DEF ManagersIn
<1>5. QED
  BY <1>3, <1>4, ManagersOfRows DEF KeepsAManager, NobodyLockedOut

(* user_service.py's "you can't remove yourself" and "you can't deactivate
   yourself" keep a manager in the organisation: the last one goes only in the
   commit of a request whose rows another request changed after it read them, or
   when every manager asked to be erased and the grace period is over. *)
THEOREM OverlapOrOwnWishAloneLocksOut == TeamSpec => OnlyOverlapOrOwnWishLocksOut
<1>1. ASSUME TeamIInv, [TeamNext]_teamVars
      PROVE  (\E c \in Panels : Panel!StaleSave(c)) \/ NobodyLockedOut
  <2>1. CASE UNCHANGED teamVars
    BY <2>1, SameRowsLockNobodyOut DEF teamVars
  <2>2. CASE TeamNext
    BY <1>1, <2>2, Steps, HourIInv, DropIInv, HandlerIInv, SameRowsLockNobodyOut,
       TimelySaveLocksNobodyOut
  <2>3. QED
    BY <1>1, <2>1, <2>2
<1>2. TeamIInv /\ [TeamNext]_teamVars =>
        [(\E c \in Panels : Panel!StaleSave(c)) \/ NobodyLockedOut]_teamVars
  BY <1>1
<1>3. QED
  BY <1>2, Invariance, PTL DEF TeamSpec, OnlyOverlapOrOwnWishLocksOut, NobodyLockedOut
-----------------------------------------------------------------------------
(* Jobs submitted without a signal: OfflineQueue *)

QueueRow == [job : Jobs, status : Queued]

Statuses == Queued \cup {"new", "direct", "gone"}

(* in order of createdAt, and each job once *)
OnceEach(q) == \A k, l \in DOMAIN q : q[k].job = q[l].job => k = l

TabOK(w) ==
    \/ w = Resting
    \/ /\ w = [at |-> w.at, todo |-> w.todo]
       /\ w.at \in {"flushing", "waiting"}
       /\ w.todo \in Seq(QueueRow) /\ w.todo # <<>> /\ OnceEach(w.todo)

InTodo(w, j) == \E k \in DOMAIN w.todo : w.todo[k].job = j

(* a request of the page is that of its job, and a request of a tab is about the
   job that its flush has come to *)
MessageOK(m) ==
    /\ m.from = "page" => store[m.job] = "direct"
    /\ m.from \in Tabs => tab[m.from].at = "waiting" /\ Job(m.from) = m.job

(* Nobody else carries the job: one message at most, and once it is carried out
   either its answer is on the way or its row is gone for good. *)
CarriedOnce(j) ==
    /\ \A m, n \in wire : m.job = j /\ n.job = j => m = n
    /\ \A m \in wire : m.job = j => m.from # "nobody"
    /\ j \in landed =>
        \/ \E m \in wire : m.job = j /\ m.answer = "ok"
        \/ store[j] = "gone" /\ \A t \in Tabs : ~InTodo(tab[t], j)

QueueTypes ==
    /\ store \in [Jobs -> Statuses] /\ made \in Seq(Jobs)
    /\ landed \subseteq Jobs /\ again \subseteq Jobs /\ unheard \subseteq Jobs
    /\ together \in BOOLEAN /\ faults \in 0 .. MaxFaults
    /\ wire \subseteq Messages
    /\ tab = [t \in Tabs |-> tab[t]] /\ \A t \in Tabs : TabOK(tab[t])

(* what was submitted with a connection, or not at all, is in no list *)
RowsApart ==
    /\ \A k, l \in DOMAIN made : made[k] = made[l] => k = l
    /\ \A k \in DOMAIN made : store[made[k]] \notin {"new", "direct"}
    /\ \A t \in Tabs : \A j \in Jobs : InTodo(tab[t], j) => store[j] \notin {"new", "direct"}

MessagesApart ==
    /\ \A m \in wire : MessageOK(m)
    /\ \A m, n \in wire : m.from = "page" /\ n.from = "page" /\ m.job = n.job => m = n
    /\ \A m, n \in wire : m.from \in Tabs /\ n.from = m.from => m = n

OneFlush == \A t, u \in Tabs : tab[t] # Resting /\ tab[u] # Resting => t = u

QueueIInv ==
    /\ QueueTypes /\ RowsApart /\ MessagesApart
    /\ ~together => OneFlush
    /\ \A j \in Jobs : ~together /\ j \notin unheard => CarriedOnce(j)

-----------------------------------------------------------------------------
(* The list *)

(* the list of the first n rows of made *)
IsListed(f, n) ==
    f = [i \in 0 .. n |->
            IF i = 0 THEN <<>>
            ELSE IF store[made[i]] \in Queued
                 THEN Append(f[i - 1], [job |-> made[i], status |-> store[made[i]]])
                 ELSE f[i - 1]]

LEMMA ListedExists ==
    ASSUME NEW n \in Nat
    PROVE  \E f : IsListed(f, n)
<1> DEFINE S == {k \in Nat : \E f : IsListed(f, k)}
<1>1. 0 \in S
  <2> DEFINE f == [i \in 0 .. 0 |-> <<>>]
  <2>1. IsListed(f, 0)
    BY DEF IsListed
  <2>2. QED
    BY <2>1
<1>2. ASSUME NEW k \in Nat, k \in S PROVE k + 1 \in S
  <2>1. PICK f : IsListed(f, k)
    BY <1>2
  <2> DEFINE last == IF store[made[k + 1]] \in Queued
                     THEN Append(f[k], [job |-> made[k + 1], status |-> store[made[k + 1]]])
                     ELSE f[k]
             g == [i \in 0 .. k + 1 |-> IF i = k + 1 THEN last ELSE f[i]]
             Value(h, i) ==
                IF i = 0 THEN <<>>
                ELSE IF store[made[i]] \in Queued
                     THEN Append(h[i - 1], [job |-> made[i], status |-> store[made[i]]])
                     ELSE h[i - 1]
  <2>2. g[k + 1] = last /\ \A i \in 0 .. k : g[i] = f[i]
    OBVIOUS
  <2>3. \A i \in 0 .. k : f[i] = Value(f, i)
    BY <2>1 DEF IsListed
  <2>4. last = Value(g, k + 1)
    <3>1. k + 1 # 0 /\ (k + 1) - 1 = k /\ g[k] = f[k]
      BY <2>2
    <3> HIDE DEF g
    <3>2. QED
      BY <3>1
  <2>5. \A i \in 0 .. k : f[i] = Value(g, i)
    <3>1. \A i \in 1 .. k : g[i - 1] = f[i - 1]
      BY <2>2
    <3> HIDE DEF g
    <3>2. QED
      BY <2>3, <3>1
  <2>6. g = [i \in 0 .. k + 1 |-> Value(g, i)]
    <3>1. \A i \in 0 .. k + 1 : g[i] = Value(g, i)
      <4> HIDE DEF Value, last, g
      <4>1. QED
        BY <2>2, <2>4, <2>5
    <3>2. g = [i \in 0 .. k + 1 |-> g[i]]
      OBVIOUS
    <3> HIDE DEF g, Value
    <3>3. QED
      BY <3>1, <3>2
  <2> HIDE DEF g
  <2>7. IsListed(g, k + 1)
    BY <2>6 DEF IsListed
  <2>8. QED
    BY <2>7
<1>3. \A k \in Nat : k \in S
  <2> HIDE DEF S
  <2>1. QED
    BY <1>1, <1>2, CountingUp
<1>4. QED
  BY <1>3

LEMMA ListedIs ==
    ASSUME made \in Seq(Jobs)
    PROVE  IsListed(Listed, Len(made))
<1>1. \E f : IsListed(f, Len(made))
  BY ListedExists
<1>2. Listed = CHOOSE f : IsListed(f, Len(made))
  BY DEF Listed, IsListed
<1>3. QED
  BY <1>1, <1>2

(* The list holds rows that wait, each once. *)
LEMMA ListOfRows ==
    ASSUME QueueTypes, RowsApart
    PROVE  /\ List \in Seq(QueueRow) /\ OnceEach(List)
           /\ \A k \in DOMAIN List : store[List[k].job] \in Queued
<1> DEFINE f == Listed
           From(n) == \A k \in DOMAIN f[n] : \E i \in 1 .. n : f[n][k].job = made[i]
           Good(n) == /\ f[n] \in Seq(QueueRow) /\ OnceEach(f[n]) /\ From(n)
                      /\ \A k \in DOMAIN f[n] : store[f[n][k].job] \in Queued
           S == {n \in Nat : n <= Len(made) => Good(n)}
<1>1. /\ made \in Seq(Jobs) /\ Len(made) \in Nat /\ DOMAIN made = 1 .. Len(made)
      /\ \A i \in 1 .. Len(made) : made[i] \in Jobs
  BY DEF QueueTypes
<1>2. IsListed(f, Len(made))
  BY <1>1, ListedIs
<1> HIDE DEF f
<1>3. f[0] = <<>>
  BY <1>1, <1>2 DEF IsListed
<1>4. 0 \in S
  <2>1. f[0] \in Seq(QueueRow) /\ DOMAIN f[0] = {}
    BY <1>3
  <2>2. QED
    BY <2>1 DEF OnceEach
<1>5. ASSUME NEW n \in Nat, n \in S PROVE n + 1 \in S
  <2> SUFFICES ASSUME n + 1 <= Len(made) PROVE Good(n + 1)
    OBVIOUS
  <2>1. Good(n)
    BY <1>1, <1>5
  <2> DEFINE j == made[n + 1]
             x == [job |-> j, status |-> store[j]]
  <2>2. j \in Jobs /\ n + 1 \in 1 .. Len(made)
    BY <1>1
  <2>3. f[n + 1] = IF store[j] \in Queued THEN Append(f[n], x) ELSE f[n]
    <3>1. n + 1 \in 0 .. Len(made) /\ n + 1 # 0 /\ (n + 1) - 1 = n
      BY <1>1
    <3>2. f[n + 1] = IF store[made[n + 1]] \in Queued
                     THEN Append(f[(n + 1) - 1],
                                 [job |-> made[n + 1], status |-> store[made[n + 1]]])
                     ELSE f[(n + 1) - 1]
      BY <1>2, <3>1, Zenon DEF IsListed
    <3>3. QED
      BY <3>1, <3>2
  <2>4. CASE store[j] \notin Queued
    <3>1. f[n + 1] = f[n] /\ From(n + 1)
      BY <2>1, <2>3, <2>4
    <3> HIDE DEF From
    <3>2. QED
      BY <2>1, <3>1
  <2>5. CASE store[j] \in Queued
    <3>1. x \in QueueRow /\ x.job = j
      BY <2>2, <2>5 DEF QueueRow
    <3>2. \A k \in DOMAIN f[n] : f[n][k].job # j
      <4>1. \A i \in 1 .. n : made[i] # j
        BY <1>1, <2>2 DEF RowsApart
      <4>2. QED
        BY <2>1, <4>1
    <3> DEFINE s == f[n]
               q == Append(s, x)
    <3>3. s \in Seq(QueueRow) /\ Len(s) \in Nat /\ DOMAIN s = 1 .. Len(s)
      BY <2>1
    <3>4. f[n + 1] = q
      BY <2>3, <2>5
    <3> HIDE DEF s, x
    <3>5. /\ q \in Seq(QueueRow) /\ DOMAIN q = 1 .. Len(s) + 1
          /\ \A k \in 1 .. Len(s) : q[k] = s[k]
          /\ q[Len(s) + 1] = x
      BY <3>1, <3>3
    <3> HIDE DEF q
    <3>6. OnceEach(q)
      <4>1. \A k, l \in 1 .. Len(s) : q[k].job = q[l].job => k = l
        BY <2>1, <3>3, <3>5 DEF OnceEach, s
      <4>2. \A k \in 1 .. Len(s) : q[k].job # q[Len(s) + 1].job
        BY <3>1, <3>2, <3>3, <3>5 DEF s
      <4>3. QED
        BY <3>3, <3>5, <4>1, <4>2 DEF OnceEach
    <3>7. \A k \in DOMAIN q : \E i \in 1 .. n + 1 : q[k].job = made[i]
      <4>1. \A k \in 1 .. Len(s) : \E i \in 1 .. n + 1 : q[k].job = made[i]
        <5>1. \A i \in 1 .. n : i \in 1 .. n + 1
          OBVIOUS
        <5>2. \A k \in 1 .. Len(s) : \E i \in 1 .. n : s[k].job = made[i]
          BY <2>1, <3>3 DEF s
        <5>3. QED
          BY <3>5, <5>1, <5>2
      <4>2. q[Len(s) + 1].job = made[n + 1]
        BY <3>1, <3>5
      <4>3. n + 1 \in 1 .. n + 1
        OBVIOUS
      <4>4. QED
        BY <3>3, <3>5, <4>1, <4>2, <4>3
    <3>8. \A k \in DOMAIN q : store[q[k].job] \in Queued
      <4>1. \A k \in 1 .. Len(s) : store[q[k].job] \in Queued
        BY <2>1, <3>3, <3>5 DEF s
      <4>2. QED
        BY <2>5, <3>1, <3>3, <3>5, <4>1
    <3>9. QED
      BY <3>4, <3>5, <3>6, <3>7, <3>8
  <2>6. QED
    BY <2>4, <2>5
<1>6. \A n \in Nat : n \in S
  <2> HIDE DEF S
  <2>1. QED
    BY <1>4, <1>5, CountingUp
<1>7. Good(Len(made))
  BY <1>1, <1>6
<1>8. QED
  BY <1>7 DEF List, f
-----------------------------------------------------------------------------
(* The steps *)

LEMMA QueueInitIInv == QueueInit => QueueIInv
<1> SUFFICES ASSUME QueueInit PROVE QueueIInv
  OBVIOUS
<1>1. QueueTypes
  <2>1. made \in Seq(Jobs)
    BY DEF QueueInit
  <2>2. tab = [t \in Tabs |-> tab[t]] /\ \A t \in Tabs : TabOK(tab[t])
    BY DEF QueueInit, TabOK
  <2>3. wire \subseteq Messages /\ store \in [Jobs -> Statuses] /\ faults \in 0 .. MaxFaults
    BY QueueAssumption DEF QueueInit, Statuses
  <2>4. QED
    BY <2>1, <2>2, <2>3 DEF QueueInit, QueueTypes
<1>2. RowsApart
  BY DEF QueueInit, RowsApart, InTodo, Resting
<1>3. MessagesApart
  BY DEF QueueInit, MessagesApart
<1>4. OneFlush /\ \A j \in Jobs : CarriedOnce(j)
  BY DEF QueueInit, OneFlush, CarriedOnce, Resting
<1>5. QED
  BY <1>1, <1>2, <1>3, <1>4 DEF QueueIInv

(* A flush that is busy has a first job left, which waits in a list. *)
LEMMA HeadOfTodo ==
    ASSUME QueueTypes, NEW t \in Tabs, tab[t].at # "resting" \/ tab[t] # Resting
    PROVE  /\ tab[t] # Resting /\ tab[t].at \in {"flushing", "waiting"}
           /\ tab[t] = [at |-> tab[t].at, todo |-> tab[t].todo]
           /\ tab[t].todo \in Seq(QueueRow) /\ tab[t].todo # <<>> /\ OnceEach(tab[t].todo)
           /\ 1 \in DOMAIN tab[t].todo /\ Job(t) = tab[t].todo[1].job
           /\ Job(t) \in Jobs /\ InTodo(tab[t], Job(t))
           /\ Head(tab[t].todo).status \in Queued
<1>1. tab[t] # Resting /\ TabOK(tab[t])
  BY DEF QueueTypes, Resting
<1> DEFINE q == tab[t].todo
<1>2. q \in Seq(QueueRow) /\ q # <<>>
  BY <1>1 DEF TabOK
<1>3. 1 \in DOMAIN q /\ Head(q) = q[1] /\ q[1] \in QueueRow
  BY <1>2
<1>4. q[1].job \in Jobs /\ q[1].status \in Queued
  BY <1>3 DEF QueueRow
<1>5. QED
  BY <1>1, <1>3, <1>4 DEF TabOK, Job, InTodo

(* A job on record as carried out, whose answer was not missed, is in no other
   message than its answer. *)
LEMMA LandedAnswered ==
    ASSUME QueueIInv, ~together, NEW m \in wire, m.job \notin unheard, m.job \in landed
    PROVE  m.answer = "ok"
<1>1. CarriedOnce(m.job) /\ m \in Messages /\ m.job \in Jobs
  BY DEF QueueIInv, QueueTypes, Messages
<1>2. MessageOK(m) /\ m.from # "nobody"
  BY <1>1 DEF QueueIInv, MessagesApart, CarriedOnce
<1>3. CASE m.from = "page"
  BY <1>1, <1>2, <1>3 DEF CarriedOnce, MessageOK
<1>4. CASE m.from \in Tabs
  <2>1. InTodo(tab[m.from], m.job)
    BY <1>2, <1>4, HeadOfTodo DEF MessageOK, QueueIInv
  <2>2. QED
    BY <1>1, <1>4, <2>1 DEF CarriedOnce
<1>5. QED
  BY <1>1, <1>2, <1>3, <1>4 DEF Messages

(* A job that a flush is about to send, or that is new, is not under way. *)
LEMMA NothingUnderWay ==
    ASSUME QueueIInv, ~together, NEW j \in Jobs, j \notin unheard,
           \/ store[j] = "new"
           \/ \E t \in Tabs : tab[t].at = "flushing" /\ Job(t) = j
    PROVE  j \notin landed /\ \A m \in wire : m.job # j
<1>1. CarriedOnce(j) /\ OneFlush /\ QueueTypes /\ RowsApart
  BY DEF QueueIInv
<1>2. ASSUME NEW m \in wire, m.job = j PROVE FALSE
  <2>1. MessageOK(m) /\ m.from # "nobody" /\ m \in Messages
    BY <1>1, <1>2 DEF QueueIInv, QueueTypes, MessagesApart, CarriedOnce
  <2>2. CASE m.from = "page"
    <3>1. store[j] = "direct"
      BY <1>2, <2>1, <2>2 DEF MessageOK
    <3>2. PICK t \in Tabs : tab[t].at = "flushing" /\ Job(t) = j
      BY <3>1
    <3>3. InTodo(tab[t], j)
      BY <1>1, <3>2, HeadOfTodo
    <3>4. QED
      BY <1>1, <3>1, <3>3 DEF RowsApart
  <2>3. CASE m.from \in Tabs
    <3>1. tab[m.from].at = "waiting" /\ Job(m.from) = j
      BY <1>2, <2>1, <2>3 DEF MessageOK
    <3>2. tab[m.from] # Resting /\ InTodo(tab[m.from], j)
      BY <1>1, <2>3, <3>1, HeadOfTodo
    <3>3. PICK t \in Tabs : tab[t].at = "flushing" /\ Job(t) = j
      BY <1>1, <2>3, <3>2 DEF RowsApart
    <3>4. tab[t] # Resting
      BY <1>1, <3>3, HeadOfTodo
    <3>5. QED
      BY <1>1, <2>3, <3>1, <3>2, <3>3, <3>4 DEF OneFlush
  <2>4. QED
    BY <2>1, <2>2, <2>3 DEF Messages
<1>3. ASSUME j \in landed PROVE FALSE
  <2>1. store[j] = "gone" /\ \A t \in Tabs : ~InTodo(tab[t], j)
    BY <1>1, <1>2, <1>3 DEF CarriedOnce
  <2>2. PICK t \in Tabs : tab[t].at = "flushing" /\ Job(t) = j
    BY <2>1
  <2>3. InTodo(tab[t], j)
    BY <1>1, <2>2, HeadOfTodo
  <2>4. QED
    BY <2>1, <2>3
<1>4. QED
  BY <1>2, <1>3
(* After its head, a flush goes on with other jobs. *)
LEMMA GoneOn ==
    ASSUME QueueTypes, NEW t \in Tabs, tab[t] # Resting, GoesOn(t)
    PROVE  /\ tab' = [u \in Tabs |-> tab'[u]] /\ \A u \in Tabs : TabOK(tab'[u])
           /\ \A u \in Tabs \ {t} : tab'[u] = tab[u]
           /\ tab'[t].at # "waiting"
           /\ \A x : InTodo(tab'[t], x) => InTodo(tab[t], x) /\ x # Job(t)
<1> DEFINE q == tab[t].todo
           rest == [at |-> "flushing", todo |-> Tail(q)]
<1>1. /\ q \in Seq(QueueRow) /\ q # <<>> /\ OnceEach(q) /\ Job(t) = q[1].job
      /\ tab = [u \in Tabs |-> tab[u]]
  BY HeadOfTodo DEF QueueTypes
<1>2. tab'[t] = IF Len(q) = 1 THEN Resting ELSE rest
  BY <1>1 DEF GoesOn
<1>3. \A u \in Tabs \ {t} : tab'[u] = tab[u]
  BY <1>1 DEF GoesOn
<1>4. tab' = [u \in Tabs |-> tab'[u]]
  BY <1>1 DEF GoesOn
<1> HIDE DEF q
<1>5. /\ Len(q) \in Nat /\ Len(q) # 0 /\ DOMAIN q = 1 .. Len(q)
      /\ Tail(q) \in Seq(QueueRow) /\ DOMAIN Tail(q) = 1 .. Len(q) - 1
      /\ \A k \in 1 .. Len(q) - 1 : Tail(q)[k] = q[k + 1]
  BY <1>1
<1>6. \A k \in 1 .. Len(q) - 1 : k + 1 \in DOMAIN q /\ k + 1 # 1
  BY <1>5
<1>7. TabOK(tab'[t])
  <2>1. CASE Len(q) = 1
    BY <1>2, <2>1 DEF TabOK
  <2>2. CASE Len(q) # 1
    <3>1. 1 \in DOMAIN Tail(q)
      BY <1>5, <2>2
    <3>2. OnceEach(Tail(q))
      BY <1>1, <1>5, <1>6 DEF OnceEach
    <3>3. Tail(q) # <<>>
      <4>1. Len(Tail(q)) = Len(q) - 1
        BY <1>5
      <4>2. Len(<<>>) = 0
        OBVIOUS
      <4>3. Len(Tail(q)) # 0
        BY <1>5, <2>2, <4>1
      <4> HIDE DEF q
      <4>4. QED
        BY <4>2, <4>3
    <3>4. tab'[t] = rest
      BY <1>2, <2>2
    <3>5. QED
      BY <1>5, <3>2, <3>3, <3>4 DEF TabOK
  <2>3. QED
    BY <2>1, <2>2
<1>8. ASSUME NEW x, InTodo(tab'[t], x) PROVE InTodo(tab[t], x) /\ x # Job(t)
  <2>1. tab'[t] = rest
    BY <1>2, <1>8 DEF InTodo, Resting
  <2>2. PICK k \in 1 .. Len(q) - 1 : Tail(q)[k].job = x
    BY <1>5, <1>8, <2>1 DEF InTodo
  <2>3. k + 1 \in DOMAIN q /\ k + 1 # 1 /\ q[k + 1].job = x /\ 1 \in DOMAIN q
    BY <1>5, <1>6, <2>2
  <2>4. x # Job(t)
    BY <1>1, <2>3 DEF OnceEach
  <2>5. QED
    BY <2>3, <2>4 DEF InTodo, q
<1>9. \A u \in Tabs : TabOK(tab'[u])
  BY <1>3, <1>7 DEF QueueTypes
<1>10. tab'[t].at # "waiting"
  BY <1>2 DEF Resting
<1>11. QED
  BY <1>3, <1>4, <1>8, <1>9, <1>10

(* A flush that ends. *)
LEMMA Rested ==
    ASSUME QueueTypes, NEW t \in Tabs, tab' = [tab EXCEPT ![t] = Resting]
    PROVE  /\ tab' = [u \in Tabs |-> tab'[u]] /\ \A u \in Tabs : TabOK(tab'[u])
           /\ \A u \in Tabs \ {t} : tab'[u] = tab[u]
           /\ tab'[t] = Resting /\ tab'[t].at # "waiting"
           /\ \A x : ~InTodo(tab'[t], x)
BY DEF QueueTypes, TabOK, Resting, InTodo

(* A step that leaves a job alone: its messages, its row and its record. *)
LEMMA LeftAlone ==
    ASSUME NEW j \in Jobs, CarriedOnce(j),
           \A m \in wire' : m.job = j => m \in wire,
           \A m \in wire : m.job = j => m \in wire',
           j \in landed' => j \in landed, store'[j] = store[j] \/ store'[j] = "gone",
           \A t \in Tabs : InTodo(tab'[t], j) => InTodo(tab[t], j)
    PROVE  CarriedOnce(j)'
BY DEF CarriedOnce

(* the server *)
LEMMA ServerKeeps ==
    ASSUME QueueIInv, NEW m \in wire, NEW answer \in Answers, ServerAnswers(m, answer)
    PROVE  QueueIInv' /\ \A j \in again' \ again : j \in unheard \/ together
<1> DEFINE reply == [m EXCEPT !.answer = answer]
<1>1. /\ m.answer = "none" /\ m \in Messages
      /\ wire' = (wire \ {m}) \cup (IF m.from = "nobody" THEN {} ELSE {reply})
      /\ landed' = IF answer = "ok" THEN landed \cup {m.job} ELSE landed
      /\ again' = IF answer = "ok" /\ m.job \in landed THEN again \cup {m.job} ELSE again
      /\ UNCHANGED <<store, made, tab, unheard, together>>
  BY DEF ServerAnswers, QueueIInv, QueueTypes
<1>2. /\ reply \in Messages /\ reply.job = m.job /\ reply.from = m.from
      /\ reply.answer = answer /\ answer # "none" /\ m.job \in Jobs
  BY <1>1 DEF Messages, Answers
<1>3. faults' \in 0 .. MaxFaults
  BY QueueAssumption DEF ServerAnswers, Fails, QueueIInv, QueueTypes
<1> HIDE DEF reply
<1>4. QueueTypes'
  BY <1>1, <1>2, <1>3 DEF QueueIInv, QueueTypes
<1>5. RowsApart'
  BY <1>1 DEF QueueIInv, RowsApart
<1>6. MessagesApart'
  <2>1. \A n \in wire' : MessageOK(n)'
    BY <1>1, <1>2 DEF QueueIInv, MessagesApart, MessageOK, Job
  <2>2. QED
    BY <1>1, <1>2, <2>1 DEF QueueIInv, MessagesApart
<1>7. ~together' => OneFlush'
  BY <1>1 DEF QueueIInv, OneFlush
<1>8. ASSUME NEW j \in Jobs, ~together', j \notin unheard' PROVE CarriedOnce(j)'
  <2>1. ~together /\ j \notin unheard /\ CarriedOnce(j)
    BY <1>1, <1>8 DEF QueueIInv
  <2>2. CASE j # m.job
    <3>1. /\ \A n \in wire' : n.job = j => n \in wire
          /\ \A n \in wire : n.job = j => n \in wire'
          /\ j \in landed' => j \in landed
      BY <1>1, <1>2, <2>2
    <3>2. QED
      BY <1>1, <2>1, <3>1, LeftAlone
  <2>3. CASE j = m.job
    <3>1. m.from # "nobody" /\ wire' = (wire \ {m}) \cup {reply}
      BY <1>1, <2>1, <2>3 DEF CarriedOnce
    <3>2. \A n \in wire' : n.job = j => n = reply
      BY <1>1, <2>1, <2>3, <3>1 DEF CarriedOnce
    <3>3. j \in landed' => answer = "ok"
      BY <1>1, <2>1, <2>3, LandedAnswered
    <3>4. QED
      BY <1>2, <2>3, <3>1, <3>2, <3>3 DEF CarriedOnce
  <2>4. QED
    BY <2>2, <2>3
<1>9. \A j \in again' \ again : j \in unheard \/ together
  BY <1>1, LandedAnswered
<1>10. QED
  BY <1>4, <1>5, <1>6, <1>7, <1>8, <1>9 DEF QueueIInv

(* a job that is put at the end of the list *)
LEMMA Enqueued ==
    ASSUME QueueIInv, NEW j \in Jobs, store[j] \in {"new", "direct"}, Enqueue(j), tab' = tab
    PROVE  /\ store' \in [Jobs -> Statuses] /\ made' \in Seq(Jobs) /\ RowsApart'
           /\ \A i \in Jobs \ {j} : store'[i] = store[i]
           /\ store'[j] = "pending"
<1>1. /\ store \in [Jobs -> Statuses] /\ made \in Seq(Jobs) /\ Len(made) \in Nat
      /\ DOMAIN made = 1 .. Len(made) /\ \A k \in 1 .. Len(made) : made[k] \in Jobs
  BY DEF QueueIInv, QueueTypes
<1>2. store' = [store EXCEPT ![j] = "pending"] /\ made' = Append(made, j)
  BY DEF Enqueue
<1>3. /\ store' \in [Jobs -> Statuses] /\ store'[j] = "pending"
      /\ \A i \in Jobs \ {j} : store'[i] = store[i]
  BY <1>1, <1>2 DEF Statuses, Queued
<1>4. /\ made' \in Seq(Jobs) /\ DOMAIN made' = 1 .. Len(made) + 1
      /\ \A k \in 1 .. Len(made) : made'[k] = made[k]
      /\ made'[Len(made) + 1] = j
  BY <1>1, <1>2
<1>5. \A k \in 1 .. Len(made) : made[k] # j
  BY <1>1 DEF QueueIInv, RowsApart
<1>6. \A k, l \in DOMAIN made' : made'[k] = made'[l] => k = l
  <2>1. \A k, l \in 1 .. Len(made) : made'[k] = made'[l] => k = l
    BY <1>1, <1>4 DEF QueueIInv, RowsApart
  <2>2. QED
    BY <1>1, <1>4, <1>5, <2>1
<1>7. \A k \in DOMAIN made' : store'[made'[k]] \notin {"new", "direct"}
  <2>1. \A k \in 1 .. Len(made) : store[made[k]] \notin {"new", "direct"}
    BY <1>1 DEF QueueIInv, RowsApart
  <2>2. \A k \in 1 .. Len(made) : store'[made'[k]] \notin {"new", "direct"}
    BY <1>1, <1>3, <1>4, <1>5, <2>1
  <2>3. QED
    BY <1>1, <1>3, <1>4, <2>2
<1>8. \A t \in Tabs : \A i \in Jobs : InTodo(tab'[t], i) => store'[i] \notin {"new", "direct"}
  BY <1>3 DEF QueueIInv, RowsApart
<1>9. QED
  BY <1>3, <1>4, <1>6, <1>7, <1>8 DEF RowsApart

LEMMA SubmitKeeps ==
    ASSUME QueueIInv, NEW j \in Jobs, SubmitOffline(j) \/ SubmitOnline(j)
    PROVE  QueueIInv' /\ again' = again
<1>1. ASSUME SubmitOffline(j) PROVE QueueIInv'
  <2>1. /\ store[j] = "new" /\ Enqueue(j)
        /\ UNCHANGED <<tab, wire, landed, faults, again, unheard, together>>
    BY <1>1 DEF SubmitOffline
  <2>2. /\ store' \in [Jobs -> Statuses] /\ made' \in Seq(Jobs) /\ RowsApart'
        /\ \A i \in Jobs \ {j} : store'[i] = store[i]
    BY <2>1, Enqueued
  <2>3. QueueTypes'
    BY <2>1, <2>2 DEF QueueIInv, QueueTypes
  <2>4. MessagesApart'
    <3>1. \A m \in wire : m.job \in Jobs /\ (m.from = "page" => m.job # j)
      BY <2>1 DEF QueueIInv, QueueTypes, Messages, MessagesApart, MessageOK
    <3>2. \A m \in wire : MessageOK(m)'
      BY <2>1, <2>2, <3>1 DEF QueueIInv, MessagesApart, MessageOK, Job
    <3>3. QED
      BY <2>1, <3>2 DEF QueueIInv, MessagesApart
  <2>5. ~together' => OneFlush'
    BY <2>1 DEF QueueIInv, OneFlush
  <2>6. ASSUME NEW i \in Jobs, ~together', i \notin unheard' PROVE CarriedOnce(i)'
    <3>1. ~together /\ i \notin unheard /\ CarriedOnce(i)
      BY <2>1, <2>6 DEF QueueIInv
    <3>2. CASE i # j
      BY <2>1, <2>2, <3>1, <3>2, LeftAlone
    <3>3. CASE i = j
      BY <2>1, <3>1, <3>3, NothingUnderWay DEF CarriedOnce
    <3>4. QED
      BY <3>2, <3>3
  <2>7. QED
    BY <2>2, <2>3, <2>4, <2>5, <2>6 DEF QueueIInv
<1>2. ASSUME SubmitOnline(j) PROVE QueueIInv'
  <2> DEFINE r == Request(j, "page")
  <2>1. /\ store[j] = "new" /\ store' = [store EXCEPT ![j] = "direct"]
        /\ wire' = wire \cup {r}
        /\ UNCHANGED <<made, tab, landed, faults, again, unheard, together>>
    BY <1>2 DEF SubmitOnline
  <2>2. r \in Messages /\ r.job = j /\ r.from = "page" /\ r.answer = "none"
    BY DEF Request, Messages
  <2> HIDE DEF r
  <2>3. /\ store \in [Jobs -> Statuses] /\ store' \in [Jobs -> Statuses]
        /\ store'[j] = "direct" /\ \A i \in Jobs \ {j} : store'[i] = store[i]
    BY <2>1 DEF QueueIInv, QueueTypes, Statuses
  <2>4. QueueTypes'
    BY <2>1, <2>2, <2>3 DEF QueueIInv, QueueTypes
  <2>5. RowsApart'
    <3>1. \A k \in DOMAIN made : made[k] \in Jobs \ {j}
      BY <2>1 DEF QueueIInv, QueueTypes, RowsApart
    <3>2. \A t \in Tabs : ~InTodo(tab[t], j)
      BY <2>1 DEF QueueIInv, RowsApart
    <3>3. QED
      BY <2>1, <2>3, <3>1, <3>2 DEF QueueIInv, RowsApart
  <2>6. MessagesApart'
    <3>1. \A m \in wire : m.job \in Jobs /\ (m.from = "page" => m.job # j)
      BY <2>1 DEF QueueIInv, QueueTypes, Messages, MessagesApart, MessageOK
    <3>2. "page" \notin Tabs
      BY QueueAssumption
    <3>3. \A m \in wire' : MessageOK(m)'
      BY <2>1, <2>2, <2>3, <3>1, <3>2 DEF QueueIInv, MessagesApart, MessageOK, Job
    <3>4. QED
      BY <2>1, <2>2, <3>1, <3>2, <3>3 DEF QueueIInv, MessagesApart
  <2>7. ~together' => OneFlush'
    BY <2>1 DEF QueueIInv, OneFlush
  <2>8. ASSUME NEW i \in Jobs, ~together', i \notin unheard' PROVE CarriedOnce(i)'
    <3>1. ~together /\ i \notin unheard /\ CarriedOnce(i)
      BY <2>1, <2>8 DEF QueueIInv
    <3>2. CASE i # j
      <4>1. /\ \A m \in wire' : m.job = i => m \in wire
            /\ \A m \in wire : m.job = i => m \in wire'
        BY <2>1, <2>2, <3>2
      <4>2. QED
        BY <2>1, <2>3, <3>1, <3>2, <4>1, LeftAlone
    <3>3. CASE i = j
      <4>1. j \notin landed /\ \A m \in wire : m.job # j
        BY <2>1, <3>1, <3>3, NothingUnderWay
      <4>2. QED
        BY <2>1, <2>2, <3>3, <4>1 DEF CarriedOnce
    <3>4. QED
      BY <3>2, <3>3
  <2>9. QED
    BY <2>4, <2>5, <2>6, <2>7, <2>8 DEF QueueIInv
<1>3. QED
  BY <1>1, <1>2 DEF SubmitOffline, SubmitOnline
(* What a step leaves of rows and lists that were apart. *)
LEMMA RowsKept ==
    ASSUME QueueTypes, RowsApart, made' = made,
           \A i \in Jobs : store'[i] = store[i] \/ store'[i] \notin {"new", "direct"},
           \A u \in Tabs : \A i \in Jobs : InTodo(tab'[u], i) => InTodo(tab[u], i)
    PROVE  RowsApart'
<1>1. \A k \in DOMAIN made : made[k] \in Jobs
  BY DEF QueueTypes
<1>2. QED
  BY <1>1 DEF RowsApart

(* Messages stay apart when some leave, or are left to themselves. *)
LEMMA FewerMessages ==
    ASSUME MessagesApart,
           \A n \in wire' : n \in wire \/ n.from = "nobody",
           \A n \in wire' : n \in wire => MessageOK(n)'
    PROVE  MessagesApart'
<1>1. "nobody" \notin Tabs
  BY QueueAssumption
<1>2. \A n \in wire' : MessageOK(n)'
  BY <1>1 DEF MessageOK
<1>3. QED
  BY <1>1, <1>2 DEF MessagesApart

(* What a tab does with the jobs of its flush is nothing to other messages. *)
LEMMA OthersOK ==
    ASSUME QueueIInv, NEW t \in Tabs,
           \A u \in Tabs \ {t} : tab'[u] = tab[u],
           \A i \in Jobs : store'[i] # store[i] => InTodo(tab[t], i),
           NEW n \in wire, n.from # t
    PROVE  MessageOK(n)'
<1>1. n.job \in Jobs /\ MessageOK(n) /\ RowsApart
  BY DEF QueueIInv, QueueTypes, Messages, MessagesApart
<1>2. n.from = "page" => store'[n.job] = "direct"
  BY <1>1 DEF MessageOK, RowsApart
<1>3. n.from \in Tabs => tab'[n.from] = tab[n.from]
  OBVIOUS
<1>4. QED
  BY <1>1, <1>2, <1>3 DEF MessageOK, Job

(* A sender that stops waiting. *)
LEMMA MissedMessage ==
    ASSUME QueueIInv, NEW m \in wire, NEW arrives, Missed(m, arrives)
    PROVE  /\ faults' \in 0 .. MaxFaults /\ wire' \subseteq Messages
           /\ \A n \in wire' : n \in wire \ {m} \/ (n.from = "nobody" /\ n.job = m.job)
           /\ \A n \in wire : n # m => n \in wire'
           /\ unheard' \subseteq Jobs /\ unheard \subseteq unheard'
           /\ m.job \notin unheard' => m.answer = "none" /\ wire' = wire \ {m}
<1>1. m \in Messages /\ m.job \in Jobs /\ wire \subseteq Messages /\ unheard \subseteq Jobs
  BY DEF QueueIInv, QueueTypes, Messages
<1>2. faults' \in 0 .. MaxFaults
  BY QueueAssumption DEF Missed, Fails, QueueIInv, QueueTypes
<1> DEFINE r == Request(m.job, "nobody")
<1>3. r \in Messages /\ r.from = "nobody" /\ r.job = m.job
  BY <1>1 DEF Request, Messages
<1>4. /\ wire' = (wire \ {m}) \cup (IF m.answer = "none" /\ arrives THEN {r} ELSE {})
      /\ unheard' = IF m.answer # "none" \/ arrives THEN unheard \cup {m.job} ELSE unheard
  BY DEF Missed
<1> HIDE DEF r
<1>5. QED
  BY <1>1, <1>2, <1>3, <1>4

(* the page *)
LEMMA PageHearsKeeps ==
    ASSUME QueueIInv, NEW m \in wire, PageHears(m)
    PROVE  QueueIInv' /\ again' = again
<1>1. /\ m.from = "page" /\ m.answer # "none" /\ wire' = wire \ {m}
      /\ store' = [store EXCEPT ![m.job] = "gone"]
      /\ UNCHANGED <<made, tab, landed, faults, again, unheard, together>>
  BY DEF PageHears
<1>2. /\ m.job \in Jobs /\ MessageOK(m) /\ store[m.job] = "direct"
      /\ store \in [Jobs -> Statuses] /\ RowsApart /\ QueueTypes
  BY <1>1 DEF QueueIInv, QueueTypes, Messages, MessagesApart, MessageOK
<1>3. /\ store' \in [Jobs -> Statuses] /\ store'[m.job] = "gone"
      /\ \A i \in Jobs \ {m.job} : store'[i] = store[i]
  BY <1>1, <1>2 DEF Statuses
<1>4. QueueTypes'
  BY <1>1, <1>3 DEF QueueIInv, QueueTypes
<1>5. RowsApart'
  <2>1. \A i \in Jobs : store'[i] = store[i] \/ store'[i] \notin {"new", "direct"}
    BY <1>3
  <2>2. QED
    BY <1>1, <1>2, <2>1, RowsKept
<1>6. MessagesApart'
  <2>1. \A n \in wire' : n.job \in Jobs /\ (n.from = "page" => n.job # m.job)
    BY <1>1 DEF QueueIInv, QueueTypes, Messages, MessagesApart
  <2>2. \A n \in wire' : MessageOK(n)'
    BY <1>1, <1>3, <2>1 DEF QueueIInv, MessagesApart, MessageOK, Job
  <2>3. QED
    BY <1>1, <2>2, FewerMessages DEF QueueIInv
<1>7. ~together' => OneFlush'
  BY <1>1 DEF QueueIInv, OneFlush
<1>8. ASSUME NEW j \in Jobs, ~together', j \notin unheard' PROVE CarriedOnce(j)'
  <2>1. ~together /\ j \notin unheard /\ CarriedOnce(j)
    BY <1>1, <1>8 DEF QueueIInv
  <2>2. CASE j # m.job
    BY <1>1, <1>3, <2>1, <2>2, LeftAlone
  <2>3. CASE j = m.job
    <3>1. \A n \in wire' : n.job # j
      BY <1>1, <2>1, <2>3 DEF CarriedOnce
    <3>2. \A t \in Tabs : ~InTodo(tab[t], j)
      BY <1>2, <2>3 DEF RowsApart
    <3>3. QED
      BY <1>1, <1>3, <2>3, <3>1, <3>2 DEF CarriedOnce
  <2>4. QED
    BY <2>2, <2>3
<1>9. QED
  BY <1>1, <1>4, <1>5, <1>6, <1>7, <1>8 DEF QueueIInv

LEMMA PageMissesKeeps ==
    ASSUME QueueIInv, NEW m \in wire, NEW arrives \in BOOLEAN, PageMisses(m, arrives)
    PROVE  QueueIInv' /\ again' = again
<1>1. /\ m.from = "page" /\ Missed(m, arrives) /\ Enqueue(m.job)
      /\ UNCHANGED <<tab, landed, again, together>>
  BY DEF PageMisses
<1>2. m.job \in Jobs /\ MessageOK(m) /\ store[m.job] = "direct" /\ RowsApart
  BY <1>1 DEF QueueIInv, QueueTypes, Messages, MessagesApart, MessageOK
<1>3. /\ faults' \in 0 .. MaxFaults /\ wire' \subseteq Messages
      /\ \A n \in wire' : n \in wire \ {m} \/ (n.from = "nobody" /\ n.job = m.job)
      /\ \A n \in wire : n # m => n \in wire'
      /\ unheard' \subseteq Jobs /\ unheard \subseteq unheard'
      /\ m.job \notin unheard' => m.answer = "none" /\ wire' = wire \ {m}
  BY <1>1, MissedMessage
<1>4. /\ store' \in [Jobs -> Statuses] /\ made' \in Seq(Jobs) /\ RowsApart'
      /\ \A i \in Jobs \ {m.job} : store'[i] = store[i]
  BY <1>1, <1>2, Enqueued
<1>5. QueueTypes'
  BY <1>1, <1>3, <1>4 DEF QueueIInv, QueueTypes
<1>6. MessagesApart'
  <2>1. \A n \in wire' : n \in wire => n.job \in Jobs /\ (n.from = "page" => n.job # m.job)
    BY <1>1, <1>3 DEF QueueIInv, QueueTypes, Messages, MessagesApart
  <2>2. \A n \in wire' : n \in wire => MessageOK(n)'
    BY <1>1, <1>4, <2>1 DEF QueueIInv, MessagesApart, MessageOK, Job
  <2>3. QED
    BY <1>3, <2>2, FewerMessages DEF QueueIInv
<1>7. ~together' => OneFlush'
  BY <1>1 DEF QueueIInv, OneFlush
<1>8. ASSUME NEW j \in Jobs, ~together', j \notin unheard' PROVE CarriedOnce(j)'
  <2>1. ~together /\ j \notin unheard /\ CarriedOnce(j)
    BY <1>1, <1>3, <1>8 DEF QueueIInv
  <2>2. CASE j # m.job
    <3>1. /\ \A n \in wire' : n.job = j => n \in wire
          /\ \A n \in wire : n.job = j => n \in wire'
      BY <1>3, <2>2
    <3>2. QED
      BY <1>1, <1>4, <2>1, <2>2, <3>1, LeftAlone
  <2>3. CASE j = m.job
    <3>1. \A n \in wire' : n.job # j
      BY <1>3, <1>8, <2>1, <2>3 DEF CarriedOnce
    <3>2. j \notin landed
      BY <1>3, <1>8, <2>1, <2>3, LandedAnswered
    <3>3. QED
      BY <1>1, <3>1, <3>2 DEF CarriedOnce
  <2>4. QED
    BY <2>2, <2>3
<1>9. QED
  BY <1>1, <1>4, <1>5, <1>6, <1>7, <1>8 DEF QueueIInv

(* a flush begins *)
LEMMA StartFlushKeeps ==
    ASSUME QueueIInv, NEW t \in Tabs, StartFlush(t)
    PROVE  QueueIInv' /\ again' = again
<1> DEFINE w == [at |-> "flushing", todo |-> List]
<1>1. /\ tab[t] = Resting /\ List # <<>> /\ tab' = [tab EXCEPT ![t] = w]
      /\ together' = (together \/ \E u \in Tabs : tab[u] # Resting)
      /\ UNCHANGED <<store, made, wire, landed, faults, again, unheard>>
  BY DEF StartFlush
<1>2. QueueTypes /\ RowsApart
  BY DEF QueueIInv
<1>3. /\ List \in Seq(QueueRow) /\ OnceEach(List)
      /\ \A k \in DOMAIN List : store[List[k].job] \in Queued
  BY <1>2, ListOfRows
<1>4. TabOK(w) /\ w # Resting /\ \A x : InTodo(w, x) => store[x] \in Queued
  BY <1>1, <1>3 DEF TabOK, InTodo, Resting
<1> HIDE DEF w
<1>5. /\ tab = [u \in Tabs |-> tab[u]] /\ \A u \in Tabs : TabOK(tab[u])
      /\ tab' = [u \in Tabs |-> tab'[u]]
      /\ tab'[t] = w /\ \A u \in Tabs \ {t} : tab'[u] = tab[u]
  BY <1>1, <1>2 DEF QueueTypes
<1>6. QueueTypes'
  <2>1. \A u \in Tabs : TabOK(tab'[u])
    BY <1>4, <1>5
  <2>2. together' \in BOOLEAN
    BY <1>1
  <2>3. QED
    BY <1>1, <1>2, <1>5, <2>1, <2>2 DEF QueueTypes
<1>7. RowsApart'
  <2>1. \A u \in Tabs : \A j \in Jobs : InTodo(tab'[u], j) => store[j] \notin {"new", "direct"}
    BY <1>2, <1>4, <1>5 DEF RowsApart, Queued
  <2>2. QED
    BY <1>1, <1>2, <2>1 DEF RowsApart
<1>8. MessagesApart'
  <2>1. \A m \in wire : m.from # t
    BY <1>1 DEF QueueIInv, MessagesApart, MessageOK, Resting
  <2>2. \A m \in wire : MessageOK(m)'
    BY <1>1, <1>5, <2>1, OthersOK
  <2>3. QED
    BY <1>1, <2>2 DEF QueueIInv, MessagesApart
<1>9. ~together' => OneFlush'
  BY <1>1, <1>5 DEF OneFlush
<1>10. ASSUME NEW j \in Jobs, ~together', j \notin unheard' PROVE CarriedOnce(j)'
  <2>1. ~together /\ CarriedOnce(j)
    BY <1>1, <1>10 DEF QueueIInv
  <2>2. store[j] = "gone" => ~InTodo(w, j)
    BY <1>4 DEF Queued
  <2>3. QED
    BY <1>1, <1>5, <2>1, <2>2 DEF CarriedOnce
<1>11. QED
  BY <1>1, <1>6, <1>7, <1>8, <1>9, <1>10 DEF QueueIInv
(* flush sends the first job it has left, or passes over it *)
LEMMA SendKeeps ==
    ASSUME QueueIInv, NEW t \in Tabs, Send(t)
    PROVE  QueueIInv' /\ again' = again
<1>1. /\ tab[t].at = "flushing"
      /\ UNCHANGED <<made, landed, faults, again, unheard, together>>
  BY DEF Send
<1>2. QueueTypes /\ RowsApart /\ MessagesApart
  BY DEF QueueIInv
<1>3. /\ tab[t] # Resting /\ Job(t) \in Jobs /\ InTodo(tab[t], Job(t))
      /\ tab[t] = [at |-> tab[t].at, todo |-> tab[t].todo]
      /\ tab[t].todo \in Seq(QueueRow) /\ tab[t].todo # <<>> /\ OnceEach(tab[t].todo)
  BY <1>1, <1>2, HeadOfTodo
<1>4. \A m \in wire : m.from # t
  BY <1>1, <1>2 DEF MessagesApart, MessageOK
<1>5. CASE GoesOn(t) /\ UNCHANGED <<store, wire>>
  <2>1. /\ tab' = [u \in Tabs |-> tab'[u]] /\ \A u \in Tabs : TabOK(tab'[u])
        /\ \A u \in Tabs \ {t} : tab'[u] = tab[u]
        /\ \A x : InTodo(tab'[t], x) => InTodo(tab[t], x) /\ x # Job(t)
    BY <1>2, <1>3, <1>5, GoneOn
  <2>2. \A u \in Tabs : \A x : InTodo(tab'[u], x) => InTodo(tab[u], x)
    BY <2>1
  <2>3. QueueTypes'
    BY <1>1, <1>2, <1>5, <2>1 DEF QueueTypes
  <2>4. RowsApart'
    BY <1>1, <1>2, <1>5, <2>2, RowsKept
  <2>5. MessagesApart'
    <3>1. \A m \in wire : MessageOK(m)'
      BY <1>4, <1>5, <2>1, OthersOK
    <3>2. QED
      BY <1>2, <1>5, <3>1, FewerMessages
  <2>6. ~together' => OneFlush'
    BY <1>1, <1>3, <2>1 DEF QueueIInv, OneFlush
  <2>7. ASSUME NEW j \in Jobs, ~together', j \notin unheard' PROVE CarriedOnce(j)'
    <3>1. CarriedOnce(j)
      BY <1>1, <2>7 DEF QueueIInv
    <3>2. QED
      BY <1>1, <1>5, <2>2, <3>1, LeftAlone
  <2>8. QED
    BY <1>1, <2>3, <2>4, <2>5, <2>6, <2>7 DEF QueueIInv
<1>6. CASE /\ store' = [store EXCEPT ![Job(t)] = "syncing"]
           /\ wire' = wire \cup {Request(Job(t), t)}
           /\ tab' = [tab EXCEPT ![t].at = "waiting"]
  <2> DEFINE r == Request(Job(t), t)
             w == [at |-> "waiting", todo |-> tab[t].todo]
  <2>1. r \in Messages /\ r.job = Job(t) /\ r.from = t /\ r.answer = "none"
    BY <1>3 DEF Request, Messages
  <2>2. /\ tab' = [u \in Tabs |-> tab'[u]] /\ tab'[t] = w
        /\ \A u \in Tabs \ {t} : tab'[u] = tab[u]
    BY <1>2, <1>3, <1>6 DEF QueueTypes
  <2>3. /\ TabOK(w) /\ w # Resting /\ w.at = "waiting"
        /\ \A x : InTodo(w, x) <=> InTodo(tab[t], x)
    BY <1>3 DEF TabOK, Resting, InTodo
  <2>4. Job(t)' = Job(t)
    BY <2>2 DEF Job
  <2> HIDE DEF r, w
  <2>5. wire' = wire \cup {r}
    BY <1>6 DEF r
  <2>6. /\ store' \in [Jobs -> Statuses] /\ store'[Job(t)] = "syncing"
        /\ \A i \in Jobs : i # Job(t) => store'[i] = store[i]
    BY <1>2, <1>3, <1>6 DEF QueueTypes, Statuses, Queued
  <2>7. \A u \in Tabs : \A x : InTodo(tab'[u], x) => InTodo(tab[u], x)
    BY <2>2, <2>3
  <2>8. QueueTypes'
    <3>1. \A u \in Tabs : TabOK(tab'[u])
      BY <1>2, <2>2, <2>3 DEF QueueTypes
    <3>2. QED
      BY <1>1, <1>2, <2>1, <2>2, <2>5, <2>6, <3>1 DEF QueueTypes
  <2>9. RowsApart'
    <3>1. \A i \in Jobs : store'[i] = store[i] \/ store'[i] \notin {"new", "direct"}
      BY <2>6
    <3>2. QED
      BY <1>1, <1>2, <2>7, <3>1, RowsKept
  <2>10. MessagesApart'
    <3>1. \A i \in Jobs : store'[i] # store[i] => InTodo(tab[t], i)
      BY <1>3, <2>6
    <3>2. \A m \in wire : MessageOK(m)'
      BY <1>4, <2>2, <3>1, OthersOK
    <3>3. t # "page"
      BY QueueAssumption
    <3>4. ASSUME NEW m \in wire', m \notin wire PROVE MessageOK(m)'
      <4>1. m.job = Job(t) /\ m.from = t
        BY <2>1, <2>5, <3>4
      <4>2. tab'[t].at = "waiting"
        BY <2>2, <2>3
      <4>3. QED
        BY <2>4, <3>3, <4>1, <4>2 DEF MessageOK
    <3>5. \A m \in wire' : MessageOK(m)'
      BY <3>2, <3>4
    <3>6. \A m \in wire' : m \in wire \/ (m.from = t /\ m = r)
      BY <2>1, <2>5
    <3>7. QED
      BY <1>2, <1>4, <3>3, <3>5, <3>6 DEF MessagesApart
  <2>11. ~together' => OneFlush'
    BY <1>1, <1>3, <2>2 DEF QueueIInv, OneFlush
  <2>12. ASSUME NEW j \in Jobs, ~together', j \notin unheard' PROVE CarriedOnce(j)'
    <3>1. ~together /\ j \notin unheard /\ CarriedOnce(j)
      BY <1>1, <2>12 DEF QueueIInv
    <3>2. CASE j # Job(t)
      <4>1. /\ \A m \in wire' : m.job = j => m \in wire
            /\ \A m \in wire : m.job = j => m \in wire'
        BY <2>1, <2>5, <3>2
      <4>2. QED
        BY <1>1, <2>6, <2>7, <3>1, <3>2, <4>1, LeftAlone
    <3>3. CASE j = Job(t)
      <4>1. j \notin landed /\ \A m \in wire : m.job # j
        BY <1>1, <3>1, <3>3, NothingUnderWay
      <4>2. t # "nobody"
        BY QueueAssumption
      <4>3. QED
        BY <1>1, <2>1, <2>5, <3>3, <4>1, <4>2 DEF CarriedOnce
    <3>4. QED
      BY <3>2, <3>3
  <2>13. QED
    BY <1>1, <2>8, <2>9, <2>10, <2>11, <2>12 DEF QueueIInv
<1>7. QED
  BY <1>5, <1>6 DEF Send

(* What the sender of a message knows of it. *)
LEMMA SenderWaits ==
    ASSUME QueueIInv, NEW t \in Tabs, NEW m \in wire, m.from = t
    PROVE  /\ tab[t] # Resting /\ m.job = Job(t) /\ m.job \in Jobs /\ InTodo(tab[t], m.job)
           /\ \A n \in wire : n # m => n.from # t
<1>1. MessageOK(m) /\ tab[t].at = "waiting" /\ Job(t) = m.job
  BY DEF QueueIInv, MessagesApart, MessageOK
<1>2. QED
  BY <1>1, HeadOfTodo DEF QueueIInv, MessagesApart

(* the answer, and the flush goes on *)
LEMMA HearsKeeps ==
    ASSUME QueueIInv, NEW t \in Tabs, NEW m \in wire, Hears(t, m)
    PROVE  QueueIInv' /\ again' = again
<1> DEFINE now == CASE m.answer = "ok"       -> "gone"
                    [] m.answer = "conflict" -> "conflict"
                    [] m.answer = "rejected" -> "failed"
<1>1. /\ m.from = t /\ m.answer \in {"ok", "conflict", "rejected"}
      /\ store' = [store EXCEPT ![m.job] = now]
      /\ wire' = wire \ {m} /\ GoesOn(t)
      /\ UNCHANGED <<made, landed, faults, again, unheard, together>>
  BY DEF Hears
<1>2. /\ now \in {"gone", "conflict", "failed"}
      /\ m.answer = "ok" => now = "gone"
  BY <1>1
<1> HIDE DEF now
<1>3. QueueTypes /\ RowsApart /\ MessagesApart
  BY DEF QueueIInv
<1>4. /\ tab[t] # Resting /\ m.job = Job(t) /\ m.job \in Jobs /\ InTodo(tab[t], m.job)
      /\ \A n \in wire : n # m => n.from # t
  BY <1>1, SenderWaits
<1>5. /\ tab' = [u \in Tabs |-> tab'[u]] /\ \A u \in Tabs : TabOK(tab'[u])
      /\ \A u \in Tabs \ {t} : tab'[u] = tab[u]
      /\ \A x : InTodo(tab'[t], x) => InTodo(tab[t], x) /\ x # Job(t)
  BY <1>1, <1>3, <1>4, GoneOn
<1>6. \A u \in Tabs : \A x : InTodo(tab'[u], x) => InTodo(tab[u], x)
  BY <1>5
<1>7. /\ store' \in [Jobs -> Statuses] /\ store'[m.job] = now
      /\ \A i \in Jobs : i # m.job => store'[i] = store[i]
  BY <1>1, <1>2, <1>3, <1>4 DEF QueueTypes, Statuses, Queued
<1>8. QueueTypes'
  BY <1>1, <1>3, <1>5, <1>7 DEF QueueTypes
<1>9. RowsApart'
  <2>1. \A i \in Jobs : store'[i] = store[i] \/ store'[i] \notin {"new", "direct"}
    BY <1>2, <1>7
  <2>2. QED
    BY <1>1, <1>3, <1>6, <2>1, RowsKept
<1>10. MessagesApart'
  <2>1. \A i \in Jobs : store'[i] # store[i] => InTodo(tab[t], i)
    BY <1>4, <1>7
  <2>2. \A n \in wire : n # m => MessageOK(n)'
    BY <1>4, <1>5, <2>1, OthersOK
  <2>3. QED
    BY <1>1, <1>3, <2>2, FewerMessages
<1>11. ~together' => OneFlush'
  BY <1>1, <1>4, <1>5 DEF QueueIInv, OneFlush
<1>12. ASSUME NEW j \in Jobs, ~together', j \notin unheard' PROVE CarriedOnce(j)'
  <2>1. ~together /\ j \notin unheard /\ CarriedOnce(j) /\ OneFlush
    BY <1>1, <1>12 DEF QueueIInv
  <2>2. CASE j # m.job
    BY <1>1, <1>6, <1>7, <2>1, <2>2, LeftAlone
  <2>3. CASE j = m.job
    <3>1. \A n \in wire' : n.job # j
      BY <1>1, <2>1, <2>3 DEF CarriedOnce
    <3>2. j \in landed => m.answer = "ok"
      BY <2>1, <2>3, LandedAnswered
    <3>3. \A u \in Tabs : ~InTodo(tab'[u], j)
      <4>1. \A u \in Tabs \ {t} : tab'[u] = Resting
        BY <1>4, <1>5, <2>1 DEF OneFlush
      <4>2. ~InTodo(Resting, j)
        BY DEF InTodo, Resting
      <4>3. ~InTodo(tab'[t], j)
        BY <1>4, <1>5, <2>3
      <4>4. QED
        BY <4>1, <4>2, <4>3
    <3>4. QED
      BY <1>1, <1>2, <1>7, <2>3, <3>1, <3>2, <3>3 DEF CarriedOnce
  <2>4. QED
    BY <2>2, <2>3
<1>13. QED
  BY <1>1, <1>8, <1>9, <1>10, <1>11, <1>12 DEF QueueIInv

(* A flush that ends, with or without the message it was waiting for. *)
LEMMA EndsKeeps ==
    ASSUME QueueIInv, NEW t \in Tabs, tab[t] # Resting, tab' = [tab EXCEPT ![t] = Resting],
           UNCHANGED <<made, landed, again, together>>,
           faults' \in 0 .. MaxFaults, unheard' \subseteq Jobs, unheard \subseteq unheard',
           wire' \subseteq Messages, store' \in [Jobs -> Statuses],
           \A i \in Jobs : store'[i] = store[i] \/ (i = Job(t) /\ store'[i] = "pending"),
           \A n \in wire' : n \in wire \/ n.from = "nobody",
           \A n \in wire' : n.from # t,
           \A j \in Jobs \ unheard' : \A n \in wire' : n.job = j => n \in wire,
           \A j \in Jobs \ unheard' : \A n \in wire : n.job = j =>
                n \in wire' \/ (n.from = t /\ (~together => j \notin landed)),
           ~together => \A j \in Jobs \ unheard' : store'[j] # store[j] => j \notin landed
    PROVE  QueueIInv' /\ again' = again
<1>1. QueueTypes /\ RowsApart /\ MessagesApart
  BY DEF QueueIInv
<1>2. /\ tab' = [u \in Tabs |-> tab'[u]] /\ \A u \in Tabs : TabOK(tab'[u])
      /\ \A u \in Tabs \ {t} : tab'[u] = tab[u]
      /\ tab'[t] = Resting
      /\ \A x : ~InTodo(tab'[t], x)
  BY <1>1, Rested
<1>3. \A u \in Tabs : \A x : InTodo(tab'[u], x) => InTodo(tab[u], x)
  BY <1>2
<1>4. Job(t) \in Jobs /\ InTodo(tab[t], Job(t))
  BY <1>1, HeadOfTodo
<1>5. QueueTypes'
  BY <1>1, <1>2 DEF QueueTypes
<1>6. RowsApart'
  <2>1. \A i \in Jobs : store'[i] = store[i] \/ store'[i] \notin {"new", "direct"}
    OBVIOUS
  <2>2. QED
    BY <1>1, <1>3, <2>1, RowsKept
<1>7. MessagesApart'
  <2>1. \A i \in Jobs : store'[i] # store[i] => InTodo(tab[t], i)
    BY <1>4
  <2>2. \A n \in wire : n.from # t => MessageOK(n)'
    BY <1>2, <2>1, OthersOK
  <2>3. QED
    BY <1>1, <2>2, FewerMessages
<1>8. ~together' => OneFlush'
  BY <1>2 DEF QueueIInv, OneFlush
<1>9. ASSUME NEW j \in Jobs, ~together', j \notin unheard' PROVE CarriedOnce(j)'
  <2>1. ~together /\ j \notin unheard /\ CarriedOnce(j)
    BY <1>9 DEF QueueIInv
  <2>2. \A n \in wire' : n.job = j => n \in wire
    BY <1>9
  <2>3. j \in landed => store'[j] = store[j] /\ \A n \in wire : n.job = j => n \in wire'
    BY <1>9, <2>1
  <2>4. QED
    BY <1>3, <2>1, <2>2, <2>3 DEF CarriedOnce
<1>10. QED
  BY <1>5, <1>6, <1>7, <1>8, <1>9 DEF QueueIInv
LEMMA StopsKeeps ==
    ASSUME QueueIInv, NEW t \in Tabs, NEW m \in wire, NEW arrives \in BOOLEAN, Stops(t, m, arrives)
    PROVE  QueueIInv' /\ again' = again
<1>1. /\ m.from = t /\ store' = [store EXCEPT ![m.job] = "pending"]
      /\ tab' = [tab EXCEPT ![t] = Resting]
      /\ UNCHANGED <<made, landed, again, together>>
      /\ \/ m.answer = "error" /\ wire' = wire \ {m} /\ UNCHANGED <<faults, unheard>>
         \/ Missed(m, arrives)
  BY DEF Stops
<1>2. /\ tab[t] # Resting /\ m.job = Job(t) /\ m.job \in Jobs
      /\ \A n \in wire : n # m => n.from # t
  BY <1>1, SenderWaits
<1>3. store \in [Jobs -> Statuses] /\ wire \subseteq Messages /\ unheard \subseteq Jobs
      /\ faults \in 0 .. MaxFaults
  BY DEF QueueIInv, QueueTypes
<1>4. /\ store' \in [Jobs -> Statuses]
      /\ \A i \in Jobs : store'[i] = store[i] \/ (i = Job(t) /\ store'[i] = "pending")
      /\ \A i \in Jobs : store'[i] # store[i] => i = m.job
  BY <1>1, <1>2, <1>3 DEF Statuses, Queued
<1>5. /\ faults' \in 0 .. MaxFaults /\ wire' \subseteq Messages
      /\ unheard' \subseteq Jobs /\ unheard \subseteq unheard'
      /\ \A n \in wire' : n \in wire \ {m} \/ (n.from = "nobody" /\ n.job = m.job)
      /\ \A n \in wire : n # m => n \in wire'
      /\ m.job \notin unheard' => m.answer # "ok" /\ wire' = wire \ {m}
  <2>1. CASE m.answer = "error" /\ wire' = wire \ {m} /\ UNCHANGED <<faults, unheard>>
    BY <1>3, <2>1
  <2>2. CASE Missed(m, arrives)
    BY <2>2, MissedMessage
  <2>3. QED
    BY <1>1, <2>1, <2>2
<1>6. ~together /\ m.job \notin unheard' => m.job \notin landed
  BY <1>5, LandedAnswered
<1>7. t # "nobody"
  BY QueueAssumption
<1>8. /\ \A n \in wire' : n \in wire \/ n.from = "nobody"
      /\ \A n \in wire' : n.from # t
      /\ \A j \in Jobs \ unheard' : \A n \in wire' : n.job = j => n \in wire
      /\ \A j \in Jobs \ unheard' : \A n \in wire : n.job = j =>
              n \in wire' \/ (n.from = t /\ (~together => j \notin landed))
      /\ ~together => \A j \in Jobs \ unheard' : store'[j] # store[j] => j \notin landed
  BY <1>1, <1>2, <1>4, <1>5, <1>6, <1>7
<1>9. QED
  BY <1>1, <1>2, <1>4, <1>5, <1>8, EndsKeeps

LEMMA CloseTabKeeps ==
    ASSUME QueueIInv, NEW t \in Tabs, NEW arrives \in BOOLEAN, CloseTab(t, arrives)
    PROVE  QueueIInv' /\ again' = again
<1>1. /\ tab[t].at # "resting" /\ tab' = [tab EXCEPT ![t] = Resting]
      /\ UNCHANGED <<store, made, landed, again, together>>
      /\ \/ tab[t].at = "flushing" /\ Fails /\ UNCHANGED <<wire, unheard>>
         \/ \E m \in wire : m.from = t /\ Missed(m, arrives)
  BY DEF CloseTab
<1>2. tab[t] # Resting
  BY <1>1 DEF Resting
<1>3. store' \in [Jobs -> Statuses] /\ wire \subseteq Messages /\ unheard \subseteq Jobs
  BY <1>1 DEF QueueIInv, QueueTypes
<1>4. CASE tab[t].at = "flushing" /\ Fails /\ UNCHANGED <<wire, unheard>>
  <2>1. faults' \in 0 .. MaxFaults
    BY <1>4, QueueAssumption DEF Fails, QueueIInv, QueueTypes
  <2>2. \A n \in wire : n.from # t
    BY <1>4 DEF QueueIInv, MessagesApart, MessageOK
  <2>3. QED
    BY <1>1, <1>2, <1>3, <1>4, <2>1, <2>2, EndsKeeps
<1>5. ASSUME NEW m \in wire, m.from = t, Missed(m, arrives) PROVE QueueIInv' /\ again' = again
  <2>1. /\ m.job \in Jobs /\ \A n \in wire : n # m => n.from # t
    BY <1>5, SenderWaits
  <2>2. /\ faults' \in 0 .. MaxFaults /\ wire' \subseteq Messages
        /\ unheard' \subseteq Jobs /\ unheard \subseteq unheard'
        /\ \A n \in wire' : n \in wire \ {m} \/ (n.from = "nobody" /\ n.job = m.job)
        /\ \A n \in wire : n # m => n \in wire'
        /\ m.job \notin unheard' => m.answer = "none" /\ wire' = wire \ {m}
    BY <1>5, MissedMessage
  <2>3. ~together /\ m.job \notin unheard' => m.job \notin landed
    BY <2>2, LandedAnswered
  <2>4. t # "nobody"
    BY QueueAssumption
  <2>5. /\ \A n \in wire' : n \in wire \/ n.from = "nobody"
        /\ \A n \in wire' : n.from # t
        /\ \A j \in Jobs \ unheard' : \A n \in wire' : n.job = j => n \in wire
        /\ \A j \in Jobs \ unheard' : \A n \in wire : n.job = j =>
                n \in wire' \/ (n.from = t /\ (~together => j \notin landed))
    BY <1>5, <2>1, <2>2, <2>3, <2>4
  <2>6. QED
    BY <1>1, <1>2, <1>3, <2>2, <2>5, EndsKeeps
<1>6. QED
  BY <1>1, <1>4, <1>5

(* the user discards jobs that wait *)
LEMMA DiscardKeeps ==
    ASSUME QueueIInv, NEW J \in SUBSET Jobs, Discard(J)
    PROVE  QueueIInv' /\ again' = again
<1>1. /\ \A j \in J : store[j] \in Queued
      /\ store' = [j \in Jobs |-> IF j \in J THEN "gone" ELSE store[j]]
      /\ UNCHANGED <<made, tab, wire, landed, again, unheard, together>>
  BY DEF Discard
<1>2. faults' \in 0 .. MaxFaults
  BY QueueAssumption DEF Discard, Fails, QueueIInv, QueueTypes
<1>3. \A j \in Jobs : store'[j] = store[j] \/ (store'[j] = "gone" /\ store[j] \in Queued)
  BY <1>1
<1>4. QueueTypes'
  <2>1. store' \in [Jobs -> Statuses]
    BY <1>1 DEF QueueIInv, QueueTypes, Statuses
  <2>2. QED
    BY <1>1, <1>2, <2>1 DEF QueueIInv, QueueTypes
<1>5. RowsApart'
  <2>1. \A i \in Jobs : store'[i] = store[i] \/ store'[i] \notin {"new", "direct"}
    BY <1>3
  <2>2. QED
    BY <1>1, <2>1, RowsKept DEF QueueIInv
<1>6. MessagesApart'
  <2>1. \A m \in wire : m.job \in Jobs
    BY DEF QueueIInv, QueueTypes, Messages
  <2>2. \A m \in wire : MessageOK(m)'
    BY <1>1, <1>3, <2>1 DEF QueueIInv, MessagesApart, MessageOK, Job, Queued
  <2>3. QED
    BY <1>1, <2>2 DEF QueueIInv, MessagesApart
<1>7. ~together' => OneFlush'
  BY <1>1 DEF QueueIInv, OneFlush
<1>8. ASSUME NEW j \in Jobs, ~together', j \notin unheard' PROVE CarriedOnce(j)'
  <2>1. CarriedOnce(j)
    BY <1>1, <1>8 DEF QueueIInv
  <2>2. QED
    BY <1>1, <1>3, <2>1, LeftAlone
<1>9. QED
  BY <1>1, <1>4, <1>5, <1>6, <1>7, <1>8 DEF QueueIInv

-----------------------------------------------------------------------------
(* The specification *)

LEMMA QueueStepKeeps ==
    ASSUME QueueIInv, [QueueNext]_queueVars
    PROVE  QueueIInv' /\ \A j \in again' \ again : j \in unheard \/ together
<1>1. CASE Answered
  BY <1>1, ServerKeeps DEF Answered
<1>2. CASE \E j \in Jobs : SubmitOffline(j) \/ SubmitOnline(j)
  BY <1>2, SubmitKeeps
<1>3. CASE \E m \in wire : PageHears(m) \/ \E arrives \in BOOLEAN : PageMisses(m, arrives)
  BY <1>3, PageHearsKeeps, PageMissesKeeps
<1>4. ASSUME NEW t \in Tabs,
             \/ StartFlush(t) \/ FlushStep(t)
             \/ \E arrives \in BOOLEAN :
                  CloseTab(t, arrives) \/ \E m \in wire : Stops(t, m, arrives)
      PROVE  QueueIInv' /\ again' = again
  <2>1. CASE StartFlush(t)
    BY <2>1, StartFlushKeeps
  <2>2. CASE FlushStep(t)
    BY <2>2, SendKeeps, HearsKeeps DEF FlushStep
  <2>3. CASE \E arrives \in BOOLEAN :
                CloseTab(t, arrives) \/ \E m \in wire : Stops(t, m, arrives)
    BY <2>3, CloseTabKeeps, StopsKeeps
  <2>4. QED
    BY <1>4, <2>1, <2>2, <2>3
<1>5. CASE \E J \in SUBSET Jobs : Discard(J)
  BY <1>5, DiscardKeeps
<1>6. CASE UNCHANGED queueVars
  <2>1. \A w, j : InTodo(w, j)' = InTodo(w, j)
    BY DEF InTodo
  <2>2. UNCHANGED <<QueueTypes, RowsApart, MessagesApart, OneFlush>>
    BY <1>6 DEF queueVars, QueueTypes, RowsApart, MessagesApart, OneFlush, MessageOK, Job
  <2>3. \A j \in Jobs : CarriedOnce(j)' = CarriedOnce(j)
    BY <1>6 DEF queueVars, CarriedOnce
  <2>4. QED
    BY <1>6, <2>2, <2>3 DEF QueueIInv, queueVars
<1>7. QED
  BY <1>1, <1>2, <1>3, <1>4, <1>5, <1>6 DEF QueueNext

LEMMA QueueInvariance == QueueSpec => []QueueIInv
<1>1. QueueIInv /\ [QueueNext]_queueVars => QueueIInv'
  BY QueueStepKeeps
<1>2. QED
  BY <1>1, QueueInitIInv, PTL DEF QueueSpec

(* The outbox table, the flushes of the tabs and the messages between them and
   the server (offline-queue.ts) keep their types. *)
THEOREM QueueIsWellTyped == QueueSpec => []QueueTypeOK
<1>1. QueueIInv => QueueTypeOK
  <2> SUFFICES ASSUME QueueIInv PROVE QueueTypeOK
    OBVIOUS
  <2> DEFINE W == [at : {"resting", "flushing", "waiting"},
                   todo : Seq([job : Jobs, status : Queued])]
  <2>1. \A w : TabOK(w) => w \in W
    <3>1. Resting \in W
      BY DEF Resting
    <3>2. QED
      BY <3>1 DEF TabOK, QueueRow
  <2>2. tab \in [Tabs -> W]
    BY <2>1 DEF QueueIInv, QueueTypes
  <2>3. QED
    BY <2>2 DEF QueueIInv, QueueTypes, QueueTypeOK, Statuses
<1>2. QED
  BY <1>1, QueueInvariance, PTL

(* offline-queue.ts:113-171: a job is carried out a second time only after one of
   its answers was missed, or by a second tab that flushes at the same time. *)
THEOREM NothingIsDoneTwiceUnheard == QueueSpec => OnlyMissedAnswerOrTwoTabsRepeat
<1>1. QueueIInv /\ [QueueNext]_queueVars
        => [\A j \in again' \ again : j \in unheard \/ together]_queueVars
  BY QueueStepKeeps
<1>2. QED
  BY <1>1, QueueInvariance, PTL DEF QueueSpec, OnlyMissedAnswerOrTwoTabsRepeat

-----------------------------------------------------------------------------
LetRow ==
    [rent : Rents, billed : 0 .. LastPeriod, since : 0 .. LastPeriod, filed : SUBSET Labels]

OpRow ==
    [kind : Kinds \cup {"none"}, targets : SUBSET Lets,
     newRent : [Lets -> 0 .. HighestRent], failed : SUBSET Lets,
     status : Finished \cup {"none", "PREVIEWED", "RUNNING", "CANCELLED"}]

RollRows == [let : [Lets -> LetRow], op : [Operations -> OpRow]]

(* what a preview fixes *)
SamePlan(p, q) == p.kind = q.kind /\ p.targets = q.targets /\ p.newRent = q.newRent

(* a raise is to a rent *)
Raises(op) == op.kind = "RENT_INCREASE" => op.newRent \in [Lets -> Rents]

(* a session that is about to insert operation o *)
Previews(w, o) ==
    w.at = "ready" /\ w.was.op[o].kind = "none" /\ w.is.op[o].kind # "none"

(* A session goes by the plans on record, and touches one operation at most. *)
PlansOK(w, now) ==
    /\ \A o \in Operations :
        /\ w.was.op[o].kind # "none" => SamePlan(w.was.op[o], now.op[o])
        /\ w.was.op[o].kind = "none" => w.was.op[o] = Unplanned
        /\ w.is.op[o] # w.was.op[o] => w.is.op[o].kind # "none"
        /\ Raises(w.is.op[o])
        /\ \/ SamePlan(w.is.op[o], w.was.op[o])
           \/ /\ w.was.op[o].kind = "none" /\ now.op[o].kind = "none"
              /\ w.is.op[o].status = "PREVIEWED"
    /\ \A o, p \in Operations :
        w.is.op[o] # w.was.op[o] /\ w.is.op[p] # w.was.op[p] => o = p

(* Target t of the run in w was told what o has to tell, and of the rent that the
   run will write, or his last message failed in delivery. *)
HasHeard(w, o, t, said, about, lost) ==
    /\ w.is.op[o].kind = "RENT_INCREASE" => w.is.let[t].rent = w.is.op[o].newRent[t]
    /\ <<o, t>> \notin lost =>
        /\ w.is.op[o].kind \in {"RENT_INCREASE", "ANNOUNCEMENT"} => said[<<o, t>>] > 0
        /\ w.is.op[o].kind = "RENT_INCREASE" => about[<<o, t>>] = w.is.op[o].newRent[t]

(* A run began with an operation that waited for it; of every target it has come to
   it has a failure on record, or the target heard or could not be reached. *)
RunOK(w, o, said, about, lost) ==
    w.is.op[o].status \in Finished /\ w.is.op[o] # w.was.op[o] =>
        /\ w.seen.op[o].status \in {"PREVIEWED", "RUNNING"}
        /\ \A t \in w.is.op[o].targets :
            <<o, t>> \in w.rest \/ t \in w.is.op[o].failed \/ HasHeard(w, o, t, said, about, lost)

OfficerOK(w, now, said, about, lost) ==
    \/ w.at = "idle"
    \/ w.at = "between" /\ w.seen \in RollRows /\ w.rest \subseteq Rests
    \/ /\ w = [at |-> "ready", seen |-> w.seen, was |-> w.was, is |-> w.is, rest |-> w.rest]
       /\ {w.seen, w.was, w.is} \subseteq RollRows /\ w.rest \subseteq Rests
       /\ PlansOK(w, now)
       /\ \A o \in Operations : RunOK(w, o, said, about, lost)

BulkIInv ==
    /\ period \in Periods /\ ordered \in 0 .. MaxRuns
    /\ roll \in RollRows
    /\ \A o \in Operations :
        /\ roll.op[o].kind = "none" => roll.op[o] = Unplanned
        /\ Raises(roll.op[o])
    /\ officer = [c \in Officers |-> officer[c]]
    /\ told \in [Tellings -> Nat] /\ heard \in [Operations \X Lets -> 0 .. HighestRent]
    /\ undelivered \subseteq Operations \X Lets
    /\ \A c \in Officers : OfficerOK(officer[c], roll, told, heard, undelivered)
    /\ \A c, d \in Officers, o \in Operations :
        Previews(officer[c], o) /\ Previews(officer[d], o) => c = d

-----------------------------------------------------------------------------
(* Rows *)

LEMMA RollColumns ==
    ASSUME NEW rows \in RollRows
    PROVE  /\ rows = [let |-> rows.let, op |-> rows.op] /\ DOMAIN rows = {"let", "op"}
           /\ rows.let \in [Lets -> LetRow] /\ rows.op \in [Operations -> OpRow]
           /\ \A t \in Lets : rows.let[t] \in LetRow
                /\ DOMAIN rows.let[t] = {"rent", "billed", "since", "filed"}
           /\ \A o \in Operations : rows.op[o] \in OpRow
                /\ DOMAIN rows.op[o] = {"kind", "targets", "newRent", "failed", "status"}
<1>1. /\ rows = [let |-> rows.let, op |-> rows.op] /\ DOMAIN rows = {"let", "op"}
      /\ rows.let \in [Lets -> LetRow] /\ rows.op \in [Operations -> OpRow]
  BY DEF RollRows
<1>2. \A t \in Lets : rows.let[t] \in LetRow
                /\ DOMAIN rows.let[t] = {"rent", "billed", "since", "filed"}
  BY <1>1 DEF LetRow
<1>3. \A o \in Operations : rows.op[o] \in OpRow
                /\ DOMAIN rows.op[o] = {"kind", "targets", "newRent", "failed", "status"}
  BY <1>1 DEF OpRow
<1>4. QED
  BY <1>1, <1>2, <1>3

LEMMA RollOf ==
    ASSUME NEW let \in [Lets -> LetRow], NEW op \in [Operations -> OpRow]
    PROVE  [let |-> let, op |-> op] \in RollRows
BY DEF RollRows

(* What a commit leaves of one tenancy and of one operation. *)
LEMMA MergedLet ==
    ASSUME NEW a, NEW x \in LetRow, NEW y \in LetRow
    PROVE  Run!MergedRow(a, x, y) \in LetRow
<1>1. Run!MergedRow(a, x, y) =
        [rent |-> IF x.rent = a.rent THEN y.rent ELSE x.rent,
         billed |-> IF x.billed = a.billed THEN y.billed ELSE x.billed,
         since |-> IF x.since = a.since THEN y.since ELSE x.since,
         filed |-> IF x.filed = a.filed THEN y.filed ELSE x.filed]
  BY DEF Run!MergedRow, LetRow
<1>2. QED
  BY <1>1 DEF LetRow

LEMMA MergedOp ==
    ASSUME NEW a, NEW x \in OpRow, NEW y \in OpRow
    PROVE  Run!MergedRow(a, x, y) \in OpRow
<1>1. Run!MergedRow(a, x, y) =
        [kind |-> IF x.kind = a.kind THEN y.kind ELSE x.kind,
         targets |-> IF x.targets = a.targets THEN y.targets ELSE x.targets,
         newRent |-> IF x.newRent = a.newRent THEN y.newRent ELSE x.newRent,
         failed |-> IF x.failed = a.failed THEN y.failed ELSE x.failed,
         status |-> IF x.status = a.status THEN y.status ELSE x.status]
  BY DEF Run!MergedRow, OpRow
<1>2. QED
  BY <1>1 DEF OpRow

LEMMA MergedRoll ==
    ASSUME NEW was, NEW is \in RollRows, NEW now \in RollRows
    PROVE  /\ Run!Merged(was, is, now) \in RollRows
           /\ \A t \in Lets : Run!Merged(was, is, now).let[t] =
                Run!MergedRow(was.let[t], is.let[t], now.let[t])
           /\ \A o \in Operations : Run!Merged(was, is, now).op[o] =
                Run!MergedRow(was.op[o], is.op[o], now.op[o])
<1> DEFINE m == Run!Merged(was, is, now)
           let == [t \in Lets |-> Run!MergedRow(was.let[t], is.let[t], now.let[t])]
           op == [o \in Operations |-> Run!MergedRow(was.op[o], is.op[o], now.op[o])]
<1>1. m = [let |-> let, op |-> op]
  <2>1. /\ DOMAIN now = {"let", "op"} /\ DOMAIN now.let = Lets /\ DOMAIN now.op = Operations
    BY RollColumns
  <2>2. m = [k \in {"let", "op"} |->
                [x \in DOMAIN now[k] |-> Run!MergedRow(was[k][x], is[k][x], now[k][x])]]
    BY <2>1 DEF Run!Merged
  <2>3. m.let = let /\ m.op = op
    BY <2>1, <2>2
  <2> HIDE DEF let, op
  <2>4. QED
    BY <2>2, <2>3
<1>2. let \in [Lets -> LetRow]
  BY RollColumns, MergedLet
<1>3. op \in [Operations -> OpRow]
  BY RollColumns, MergedOp
<1>4. /\ \A t \in Lets : let[t] = Run!MergedRow(was.let[t], is.let[t], now.let[t])
      /\ \A o \in Operations : op[o] = Run!MergedRow(was.op[o], is.op[o], now.op[o])
  OBVIOUS
<1> HIDE DEF m, let, op
<1>5. m \in RollRows
  <2>1. [let |-> let, op |-> op] \in RollRows
    BY <1>2, <1>3, RollOf
  <2>2. QED
    BY <1>1, <2>1
<1>6. QED
  BY <1>1, <1>4, <1>5 DEF m

(* A commit over the rows that were read writes what was prepared. *)
LEMMA RunSavesWhatItPrepared ==
    ASSUME NEW was \in RollRows, NEW is \in RollRows
    PROVE  Run!Merged(was, is, was) = is
<1>1. ASSUME NEW t \in Lets PROVE Run!MergedRow(was.let[t], is.let[t], was.let[t]) = is.let[t]
  BY RollColumns DEF Run!MergedRow, LetRow
<1>2. ASSUME NEW o \in Operations PROVE Run!MergedRow(was.op[o], is.op[o], was.op[o]) = is.op[o]
  BY RollColumns DEF Run!MergedRow, OpRow
<1> DEFINE m == Run!Merged(was, is, was)
<1>3. /\ m \in RollRows
      /\ \A t \in Lets : m.let[t] = is.let[t]
      /\ \A o \in Operations : m.op[o] = is.op[o]
  BY <1>1, <1>2, MergedRoll
<1> HIDE DEF m
<1>4. m.let = is.let /\ m.op = is.op
  BY <1>3, RollColumns
<1>5. m = is
  BY <1>3, <1>4, RollColumns
<1>6. QED
  BY <1>5 DEF m

(* What a commit does to a plan. *)
LEMMA PlanKept ==
    ASSUME NEW a \in OpRow, NEW x \in OpRow, NEW y \in OpRow,
           a.kind # "none" => SamePlan(a, y),
           a.kind = "none" => a = Unplanned,
           x # a => x.kind # "none",
           SamePlan(x, a) \/ (a.kind = "none" /\ y.kind = "none"),
           y.kind = "none" => y = Unplanned,
           Raises(x), Raises(y)
    PROVE  LET new == Run!MergedRow(a, x, y)
           IN  /\ y.kind # "none" => SamePlan(new, y)
               /\ new.kind # y.kind => a.kind = "none" /\ x.kind # "none"
               /\ new.kind = "none" => new = Unplanned
               /\ Raises(new)
<1> DEFINE new == Run!MergedRow(a, x, y)
<1>1. /\ new.kind = IF x.kind = a.kind THEN y.kind ELSE x.kind
      /\ new.targets = IF x.targets = a.targets THEN y.targets ELSE x.targets
      /\ new.newRent = IF x.newRent = a.newRent THEN y.newRent ELSE x.newRent
  BY DEF Run!MergedRow, OpRow
<1>2. CASE y.kind # "none"
  <2>1. SamePlan(new, y)
    BY <1>1, <1>2 DEF SamePlan
  <2>2. Raises(new) /\ new.kind # "none" /\ new.kind = y.kind
    BY <1>2, <2>1 DEF SamePlan, Raises
  <2>3. QED
    BY <1>2, <2>1, <2>2
<1>3. CASE y.kind = "none"
  <2>1. a = Unplanned /\ y = a
    BY <1>3 DEF SamePlan
  <2>2. new = x
    BY <2>1 DEF Run!MergedRow, OpRow
  <2>3. x.kind = "none" => x = Unplanned
    BY <2>1
  <2>4. QED
    BY <1>3, <2>1, <2>2, <2>3
<1>4. QED
  BY <1>2, <1>3

LEMMA MergedPlan ==
    ASSUME NEW was \in RollRows, NEW is \in RollRows, NEW now \in RollRows, NEW o \in Operations
    PROVE  Run!Merged(was, is, now).op[o] = Run!MergedRow(was.op[o], is.op[o], now.op[o])
<1>1. \A p \in Operations :
        Run!Merged(was, is, now).op[p] = Run!MergedRow(was.op[p], is.op[p], now.op[p])
  BY MergedRoll
<1>2. QED
  BY <1>1

LEMMA PlansKept ==
    ASSUME NEW was \in RollRows, NEW is \in RollRows, NEW now \in RollRows, NEW o \in Operations,
           was.op[o].kind # "none" => SamePlan(was.op[o], now.op[o]),
           was.op[o].kind = "none" => was.op[o] = Unplanned,
           is.op[o] # was.op[o] => is.op[o].kind # "none",
           \/ SamePlan(is.op[o], was.op[o])
           \/ was.op[o].kind = "none" /\ now.op[o].kind = "none",
           now.op[o].kind = "none" => now.op[o] = Unplanned,
           Raises(is.op[o]), Raises(now.op[o])
    PROVE  LET new == Run!Merged(was, is, now).op[o]
           IN  /\ now.op[o].kind # "none" => SamePlan(new, now.op[o])
               /\ new.kind # now.op[o].kind => was.op[o].kind = "none" /\ is.op[o].kind # "none"
               /\ new.kind = "none" => new = Unplanned
               /\ Raises(new)
<1>1. Run!Merged(was, is, now).op[o] = Run!MergedRow(was.op[o], is.op[o], now.op[o])
  BY MergedPlan
<1>2. was.op[o] \in OpRow /\ is.op[o] \in OpRow /\ now.op[o] \in OpRow
  BY RollColumns
<1>3. QED
  BY <1>1, <1>2, PlanKept

-----------------------------------------------------------------------------
(* One session at a time *)

(* Tenancy t is told of o now, and of the rents that o was previewed with. *)
Reaches(o, t) ==
    /\ told'[<<o, t>>] > 0
    /\ roll.op[o].kind = "RENT_INCREASE" => heard'[<<o, t>>] = roll.op[o].newRent[t]

(* What was said can only become more, an operation speaks of the rents it was
   previewed with, and who could not be reached is reached by a later message only. *)
SaysMore ==
    /\ told' \in [Tellings -> Nat] /\ heard' \in [Operations \X Lets -> 0 .. HighestRent]
    /\ undelivered' \subseteq Operations \X Lets
    /\ \A o \in Operations, t \in Lets :
        /\ told[<<o, t>>] > 0 => told'[<<o, t>>] > 0
        /\ \/ heard'[<<o, t>>] = heard[<<o, t>>]
           \/ heard'[<<o, t>>] = roll.op[o].newRent[t]
        /\ <<o, t>> \in undelivered => <<o, t>> \in undelivered' \/ Reaches(o, t)

LEMMA SilenceSaysMore ==
    ASSUME BulkIInv, UNCHANGED <<told, heard, undelivered>>
    PROVE  SaysMore
BY DEF BulkIInv, SaysMore

(* what the others hold stays in order when one session commits or speaks *)
LEMMA OthersKeep ==
    ASSUME BulkIInv, NEW w, OfficerOK(w, roll, told, heard, undelivered), SaysMore,
           \A o \in Operations :
                /\ roll.op[o].kind # "none" => SamePlan(roll'.op[o], roll.op[o])
                /\ roll'.op[o].kind # roll.op[o].kind => ~Previews(w, o)
    PROVE  OfficerOK(w, roll', told', heard', undelivered')
<1>1. CASE w.at # "ready"
  BY <1>1 DEF OfficerOK
<1>2. CASE w.at = "ready"
  <2>1. /\ w = [at |-> "ready", seen |-> w.seen, was |-> w.was, is |-> w.is, rest |-> w.rest]
        /\ {w.seen, w.was, w.is} \subseteq RollRows /\ w.rest \subseteq Rests
        /\ PlansOK(w, roll)
        /\ \A o \in Operations : RunOK(w, o, told, heard, undelivered)
    BY <1>2 DEF OfficerOK
  <2>2. PlansOK(w, roll')
    <3>1. ASSUME NEW o \in Operations, w.was.op[o].kind # "none"
          PROVE  SamePlan(w.was.op[o], roll'.op[o])
      BY <2>1, <3>1 DEF PlansOK, SamePlan
    <3>2. ASSUME NEW o \in Operations
          PROVE  \/ SamePlan(w.is.op[o], w.was.op[o])
                 \/ /\ w.was.op[o].kind = "none" /\ roll'.op[o].kind = "none"
                    /\ w.is.op[o].status = "PREVIEWED"
      <4>1. CASE SamePlan(w.is.op[o], w.was.op[o])
        BY <4>1
      <4>2. CASE /\ ~SamePlan(w.is.op[o], w.was.op[o])
                 /\ w.was.op[o].kind = "none" /\ roll.op[o].kind = "none"
                 /\ w.is.op[o].status = "PREVIEWED"
        <5>1. w.is.op[o] # w.was.op[o]
          BY <4>2 DEF SamePlan
        <5>2. w.is.op[o].kind # "none"
          BY <2>1, <5>1 DEF PlansOK
        <5>3. Previews(w, o)
          BY <1>2, <4>2, <5>2 DEF Previews
        <5>4. QED
          BY <4>2, <5>3
      <4>3. QED
        BY <2>1, <4>1, <4>2 DEF PlansOK
    <3>3. QED
      BY <2>1, <3>1, <3>2 DEF PlansOK
  <2>3. ASSUME NEW o \in Operations PROVE RunOK(w, o, told', heard', undelivered')
    <3> SUFFICES ASSUME w.is.op[o].status \in Finished, w.is.op[o] # w.was.op[o],
                        NEW t \in w.is.op[o].targets, HasHeard(w, o, t, told, heard, undelivered)
                 PROVE  HasHeard(w, o, t, told', heard', undelivered')
      BY <2>1 DEF RunOK
    <3>1. SamePlan(w.is.op[o], w.was.op[o]) /\ w.is.op[o].kind # "none"
      BY <2>1 DEF PlansOK, Finished
    <3>2. roll.op[o].newRent = w.is.op[o].newRent /\ roll.op[o].kind = w.is.op[o].kind
      BY <2>1, <3>1 DEF PlansOK, SamePlan
    <3>3. t \in Lets
      BY <2>1, RollColumns DEF OpRow
    <3>4. QED
      BY <3>2, <3>3 DEF HasHeard, SaysMore, Reaches
  <2>4. QED
    BY <2>1, <2>2, <2>3 DEF OfficerOK
<1>3. QED
  BY <1>1, <1>2

LEMMA OneSession ==
    ASSUME BulkIInv, NEW c \in Officers, NEW w,
           officer' = [officer EXCEPT ![c] = w],
           period' \in Periods, ordered' \in 0 .. MaxRuns, roll' \in RollRows, SaysMore,
           \A o \in Operations :
                /\ roll.op[o].kind # "none" => SamePlan(roll'.op[o], roll.op[o])
                /\ roll'.op[o].kind # roll.op[o].kind => Previews(officer[c], o)
                /\ roll'.op[o].kind = "none" => roll'.op[o] = Unplanned
                /\ Raises(roll'.op[o])
                /\ Previews(w, o) =>
                    Previews(officer[c], o) \/ \A d \in Officers : ~Previews(officer[d], o),
           OfficerOK(w, roll', told', heard', undelivered')
    PROVE  BulkIInv'
<1>1. officer' = [d \in Officers |-> officer'[d]]
      /\ officer'[c] = w /\ \A d \in Officers \ {c} : officer'[d] = officer[d]
  BY DEF BulkIInv
<1>2. ASSUME NEW d \in Officers \ {c} PROVE OfficerOK(officer[d], roll', told', heard', undelivered')
  <2>1. OfficerOK(officer[d], roll, told, heard, undelivered)
    BY DEF BulkIInv
  <2>2. \A o \in Operations : roll'.op[o].kind # roll.op[o].kind => ~Previews(officer[d], o)
    BY DEF BulkIInv
  <2>3. QED
    BY <2>1, <2>2, OthersKeep
<1>3. \A d \in Officers : OfficerOK(officer'[d], roll', told', heard', undelivered')
  BY <1>1, <1>2
<1>4. ASSUME NEW d \in Officers, NEW e \in Officers, NEW o \in Operations,
             Previews(officer'[d], o), Previews(officer'[e], o)
      PROVE  d = e
  BY <1>1, <1>4 DEF BulkIInv
<1>5. /\ told' \in [Tellings -> Nat] /\ heard' \in [Operations \X Lets -> 0 .. HighestRent]
      /\ undelivered' \subseteq Operations \X Lets
  BY DEF SaysMore
<1>6. \A o \in Operations :
        /\ roll'.op[o].kind = "none" => roll'.op[o] = Unplanned
        /\ Raises(roll'.op[o])
  OBVIOUS
<1>7. \A d, e \in Officers, o \in Operations :
        Previews(officer'[d], o) /\ Previews(officer'[e], o) => d = e
  BY <1>4
<1>8. QED
  BY <1>1, <1>3, <1>5, <1>6, <1>7 DEF BulkIInv, Previews, Raises, Unplanned

(* the same for a step that commits nothing *)
LEMMA NoCommit ==
    ASSUME BulkIInv, NEW c \in Officers, NEW w,
           officer' = [officer EXCEPT ![c] = w], roll' = roll,
           period' \in Periods, ordered' \in 0 .. MaxRuns, SaysMore,
           \A o \in Operations : Previews(w, o) =>
                Previews(officer[c], o) \/ \A d \in Officers : ~Previews(officer[d], o),
           OfficerOK(w, roll, told', heard', undelivered')
    PROVE  BulkIInv'
<1>1. \A o \in Operations :
        /\ SamePlan(roll'.op[o], roll.op[o])
        /\ roll'.op[o].kind = roll.op[o].kind
        /\ roll'.op[o].kind = "none" => roll'.op[o] = Unplanned
        /\ Raises(roll'.op[o])
  BY DEF BulkIInv, SamePlan, Raises
<1>2. roll' \in RollRows
  BY DEF BulkIInv
<1>3. OfficerOK(w, roll', told', heard', undelivered')
  OBVIOUS
<1>4. QED
  BY <1>1, <1>2, <1>3, OneSession
-----------------------------------------------------------------------------
(* What the handlers prepare *)

LEMMA BulkBounds ==
    MaxRuns \in Nat /\ HighestRent \in Nat /\ LastPeriod \in Nat /\ 1 \in Rents /\ FirstRent \in Rents
<1>1. {FirstRent, HighestRent, LastPeriod, MaxRuns} \subseteq Nat /\ FirstRent \in 1 .. HighestRent
  BY BulkAssumption
<1>2. FirstRent \in Nat /\ MaxRuns \in Nat /\ HighestRent \in Nat /\ LastPeriod \in Nat
  BY <1>1
<1>3. QED
  BY <1>1, <1>2 DEF Rents

LEMMA RunsCounted ==
    ASSUME BulkIInv, NEW c \in Officers, Run!Begins(c), period' = period
    PROVE  period' \in Periods /\ ordered' \in 0 .. MaxRuns
<1>1. period \in Periods /\ ordered \in 0 .. MaxRuns
  BY DEF BulkIInv
<1>2. ordered < MaxRuns /\ ordered' = ordered + 1
  BY DEF Run!Begins
<1>3. MaxRuns \in Nat
  BY BulkBounds
<1>4. QED
  BY <1>1, <1>2, <1>3

(* a session that changes no operation *)
LEMMA ReadyForLets ==
    ASSUME BulkIInv, NEW seen \in RollRows, NEW new \in RollRows, new.op = roll.op,
           NEW rest \in SUBSET Rests, NEW said, NEW about, NEW lost
    PROVE  /\ OfficerOK(Run!Ready(seen, new, rest), roll, said, about, lost)
           /\ \A o \in Operations : ~Previews(Run!Ready(seen, new, rest), o)
<1> DEFINE w == Run!Ready(seen, new, rest)
<1>1. /\ w = [at |-> "ready", seen |-> w.seen, was |-> w.was, is |-> w.is, rest |-> w.rest]
      /\ w.at = "ready" /\ w.seen = seen /\ w.was = roll /\ w.is = new /\ w.rest = rest
  BY DEF Run!Ready
<1>2. roll \in RollRows
  BY DEF BulkIInv
<1> HIDE DEF w
<1>3. PlansOK(w, roll)
  BY <1>1 DEF PlansOK, SamePlan, BulkIInv
<1>4. \A o \in Operations : RunOK(w, o, said, about, lost) /\ ~Previews(w, o)
  BY <1>1 DEF RunOK, Previews
<1>5. OfficerOK(w, roll, said, about, lost)
  BY <1>1, <1>2, <1>3, <1>4 DEF OfficerOK
<1>6. QED
  BY <1>4, <1>5 DEF w

(* a request that changes tenancies only *)
LEMMA LetHandlerKeeps ==
    ASSUME BulkIInv, NEW c \in Officers, NEW new \in RollRows, new.op = roll.op,
           Run!Begins(c), officer' = [officer EXCEPT ![c] = Run!Ready(roll, new, {})],
           UNCHANGED <<roll, period>>, SaysMore
    PROVE  BulkIInv'
<1> DEFINE w == Run!Ready(roll, new, {})
<1>1. roll \in RollRows /\ {} \in SUBSET Rests
  BY DEF BulkIInv
<1>2. OfficerOK(w, roll, told', heard', undelivered') /\ \A o \in Operations : ~Previews(w, o)
  BY <1>1, ReadyForLets
<1>3. period' \in Periods /\ ordered' \in 0 .. MaxRuns
  BY RunsCounted
<1>4. officer' = [officer EXCEPT ![c] = w]
  OBVIOUS
<1> HIDE DEF w
<1>5. QED
  BY <1>2, <1>3, <1>4, NoCommit

LEMMA OtherLet ==
    ASSUME NEW rows \in RollRows, NEW t \in Lets, NEW row \in LetRow
    PROVE  LET new == [rows EXCEPT !.let[t] = row]
           IN  /\ new \in RollRows /\ new.op = rows.op /\ new.let[t] = row
               /\ \A x \in Lets : x # t => new.let[x] = rows.let[x]
<1> DEFINE let == [rows.let EXCEPT ![t] = row]
           new == [rows EXCEPT !.let[t] = row]
<1>1. rows = [let |-> rows.let, op |-> rows.op] /\ rows.let \in [Lets -> LetRow]
      /\ rows.op \in [Operations -> OpRow]
  BY RollColumns
<1>2. let \in [Lets -> LetRow] /\ let[t] = row /\ \A x \in Lets : x # t => let[x] = rows.let[x]
  BY <1>1
<1>3. new = [let |-> let, op |-> rows.op]
  BY <1>1
<1> HIDE DEF let, new
<1>4. new \in RollRows
  <2>1. [let |-> let, op |-> rows.op] \in RollRows
    BY <1>1, <1>2, RollOf
  <2>2. QED
    BY <1>3, <2>1
<1>5. QED
  BY <1>2, <1>3, <1>4 DEF new

LEMMA OtherOp ==
    ASSUME NEW rows \in RollRows, NEW o \in Operations, NEW row \in OpRow
    PROVE  LET new == [rows EXCEPT !.op[o] = row]
           IN  /\ new \in RollRows /\ new.let = rows.let /\ new.op[o] = row
               /\ \A p \in Operations : p # o => new.op[p] = rows.op[p]
<1> DEFINE op == [rows.op EXCEPT ![o] = row]
           new == [rows EXCEPT !.op[o] = row]
<1>1. rows = [let |-> rows.let, op |-> rows.op] /\ rows.let \in [Lets -> LetRow]
      /\ rows.op \in [Operations -> OpRow]
  BY RollColumns
<1>2. op \in [Operations -> OpRow] /\ op[o] = row
      /\ \A p \in Operations : p # o => op[p] = rows.op[p]
  BY <1>1
<1>3. new = [let |-> rows.let, op |-> op]
  BY <1>1
<1> HIDE DEF op, new
<1>4. new \in RollRows
  <2>1. [let |-> rows.let, op |-> op] \in RollRows
    BY <1>1, <1>2, RollOf
  <2>2. QED
    BY <1>3, <2>1
<1>5. QED
  BY <1>2, <1>3, <1>4 DEF new

(* a request that changes one operation *)
LEMMA OpHandlerKeeps ==
    ASSUME BulkIInv, NEW c \in Officers, NEW o \in Operations, NEW row \in OpRow,
           NEW rest \in SUBSET Rests,
           Run!PreparesOne(c, [roll EXCEPT !.op[o] = row], rest), NothingSaid,
           row.kind # "none", Raises(row),
           \/ SamePlan(row, roll.op[o])
           \/ /\ roll.op[o] = Unplanned /\ row.status = "PREVIEWED"
              /\ \A d \in Officers : officer[d].at = "ready" => officer[d].is.op[o] = Unplanned,
           row.status \in Finished =>
              /\ roll.op[o].status = "PREVIEWED"
              /\ \A t \in row.targets : <<o, t>> \in rest
    PROVE  BulkIInv'
<1> DEFINE new == [roll EXCEPT !.op[o] = row]
           w == Run!Ready(roll, new, rest)
<1>1. /\ officer' = [officer EXCEPT ![c] = w] /\ UNCHANGED <<roll, period, told, heard, undelivered>>
      /\ ordered < MaxRuns /\ ordered' = ordered + 1
  BY DEF Run!PreparesOne, Run!Begins, NothingSaid, Unsaid
<1>2. /\ new \in RollRows /\ new.op[o] = row
      /\ \A p \in Operations : p # o => new.op[p] = roll.op[p]
  <2>1. roll \in RollRows
    BY DEF BulkIInv
  <2>2. QED
    BY <2>1, OtherOp
<1> HIDE DEF new
<1>3. /\ w = [at |-> "ready", seen |-> w.seen, was |-> w.was, is |-> w.is, rest |-> w.rest]
      /\ w.at = "ready" /\ w.seen = roll /\ w.was = roll /\ w.is = new /\ w.rest = rest
  BY DEF Run!Ready
<1> HIDE DEF w
<1>4. roll \in RollRows /\ period' \in Periods /\ ordered' \in 0 .. MaxRuns
  <2>1. Run!Begins(c)
    BY DEF Run!PreparesOne
  <2>2. QED
    BY <1>1, <2>1, RunsCounted DEF BulkIInv
<1>5. PlansOK(w, roll)
  <2>1. ASSUME NEW p \in Operations
        PROVE  /\ w.was.op[p].kind # "none" => SamePlan(w.was.op[p], roll.op[p])
               /\ w.was.op[p].kind = "none" => w.was.op[p] = Unplanned
               /\ w.is.op[p] # w.was.op[p] => w.is.op[p].kind # "none"
               /\ Raises(w.is.op[p])
               /\ \/ SamePlan(w.is.op[p], w.was.op[p])
                  \/ /\ w.was.op[p].kind = "none" /\ roll.op[p].kind = "none"
                     /\ w.is.op[p].status = "PREVIEWED"
    <3>1. roll.op[p].kind = "none" => roll.op[p] = Unplanned
      BY DEF BulkIInv
    <3>2. Raises(roll.op[p])
      BY DEF BulkIInv
    <3>3. roll.op[p] = Unplanned => roll.op[p].kind = "none"
      BY DEF Unplanned
    <3>4. CASE p = o
      BY <1>2, <1>3, <3>1, <3>3, <3>4 DEF SamePlan
    <3>5. CASE p # o
      BY <1>2, <1>3, <3>1, <3>2, <3>5 DEF SamePlan
    <3>6. QED
      BY <3>4, <3>5
  <2>2. \A p, q \in Operations :
            w.is.op[p] # w.was.op[p] /\ w.is.op[q] # w.was.op[q] => p = q
    BY <1>2, <1>3
  <2>3. QED
    BY <2>1, <2>2 DEF PlansOK
<1>6. ASSUME NEW p \in Operations PROVE RunOK(w, p, told', heard', undelivered')
  BY <1>2, <1>3 DEF RunOK
<1>7. OfficerOK(w, roll, told', heard', undelivered')
  BY <1>2, <1>3, <1>4, <1>5, <1>6 DEF OfficerOK
<1>8. ASSUME NEW p \in Operations, Previews(w, p), NEW d \in Officers PROVE ~Previews(officer[d], p)
  <2>1. p = o /\ roll.op[o].kind = "none"
    BY <1>2, <1>3, <1>8 DEF Previews
  <2>2. officer[d].at = "ready" => officer[d].is.op[o] = Unplanned
    BY <2>1 DEF SamePlan
  <2>3. QED
    BY <2>1, <2>2 DEF Previews, Unplanned
<1>9. SaysMore
  BY <1>1, SilenceSaysMore
<1>10. QED
  BY <1>1, <1>4, <1>7, <1>8, <1>9, NoCommit

LEMMA PreviewBulkKeeps ==
    ASSUME BulkIInv, NEW c \in Officers, NEW o \in Operations, NEW kind \in Kinds, Preview(c, o, kind)
    PROVE  BulkIInv'
<1> DEFINE targets == {t \in Lets : kind = "PAYMENT_REMINDER" => Owing(t)}
           newRent == [t \in Lets |-> IF kind = "RENT_INCREASE" THEN roll.let[t].rent + 1 ELSE 0]
           row == [kind |-> kind, status |-> "PREVIEWED", targets |-> targets, failed |-> {},
                   newRent |-> newRent]
<1>1. /\ Run!Fresh("op", o, Unplanned)
      /\ kind = "RENT_INCREASE" => \A t \in Lets : roll.let[t].rent < HighestRent
      /\ Run!PreparesOne(c, [roll EXCEPT !.op[o] = row], {}) /\ NothingSaid
  BY DEF Preview, Run!Prepares
<1>2. targets \in SUBSET Lets
  OBVIOUS
<1>3. newRent \in [Lets -> 0 .. HighestRent]
  <2>1. \A t \in Lets : roll.let[t].rent \in Rents
    BY RollColumns DEF BulkIInv, LetRow
  <2>2. QED
    BY <1>1, <2>1, BulkBounds DEF Rents
<1>10. kind = "RENT_INCREASE" => newRent \in [Lets -> Rents]
  <2>1. \A t \in Lets : roll.let[t].rent \in Rents
    BY RollColumns DEF BulkIInv, LetRow
  <2>2. QED
    BY <1>1, <2>1, BulkBounds DEF Rents
<1> HIDE DEF targets, newRent
<1>4. row = [kind |-> kind, status |-> "PREVIEWED", targets |-> targets, failed |-> {},
             newRent |-> newRent]
  OBVIOUS
<1>5. row \in OpRow /\ row.kind # "none" /\ row.status = "PREVIEWED" /\ Raises(row)
  BY <1>2, <1>3, <1>4, <1>10 DEF OpRow, Kinds, Raises
<1> HIDE DEF row
<1>6. /\ roll.op[o] = Unplanned
      /\ \A d \in Officers : officer[d].at = "ready" => officer[d].is.op[o] = Unplanned
  BY <1>1 DEF Run!Fresh
<1>7. row.status \notin Finished
  BY <1>5 DEF Finished
<1>8. {} \in SUBSET Rests
  OBVIOUS
<1>9. QED
  BY <1>1, <1>5, <1>6, <1>7, <1>8, OpHandlerKeeps

LEMMA CancelKeeps ==
    ASSUME BulkIInv, NEW c \in Officers, NEW o \in Operations, Cancel(c, o)
    PROVE  BulkIInv'
<1> DEFINE row == [roll.op[o] EXCEPT !.status = "CANCELLED"]
<1>1. roll.op[o] \in OpRow /\ roll = [let |-> roll.let, op |-> roll.op] /\ DOMAIN roll.op = Operations
  BY RollColumns DEF BulkIInv
<1>2. [roll EXCEPT !.op[o].status = "CANCELLED"] = [roll EXCEPT !.op[o] = row]
  BY <1>1
<1>3. Run!PreparesOne(c, [roll EXCEPT !.op[o] = row], {}) /\ NothingSaid
      /\ roll.op[o].status = "PREVIEWED"
  BY <1>2 DEF Cancel, Run!Prepares
<1>4. row \in OpRow /\ SamePlan(row, roll.op[o]) /\ row.status = "CANCELLED"
  BY <1>1 DEF OpRow, SamePlan
<1>5. row.kind # "none" /\ Raises(row)
  BY <1>3, <1>4 DEF BulkIInv, SamePlan, Unplanned, Raises
<1> HIDE DEF row
<1>6. row.status \notin Finished /\ {} \in SUBSET Rests
  BY <1>4 DEF Finished
<1>7. QED
  BY <1>3, <1>4, <1>5, <1>6, OpHandlerKeeps

LEMMA ExecuteKeeps ==
    ASSUME BulkIInv, NEW c \in Officers, NEW o \in Operations, Execute(c, o)
    PROVE  BulkIInv'
<1> DEFINE row == [roll.op[o] EXCEPT !.status = "COMPLETED", !.failed = {}]
           rest == {<<o, t>> : t \in roll.op[o].targets \cup {Flush}}
<1>1. roll.op[o] \in OpRow /\ roll = [let |-> roll.let, op |-> roll.op] /\ DOMAIN roll.op = Operations
  BY RollColumns DEF BulkIInv
<1>2. [roll EXCEPT !.op[o].status = "COMPLETED", !.op[o].failed = {}] = [roll EXCEPT !.op[o] = row]
  BY <1>1
<1>3. Run!PreparesOne(c, [roll EXCEPT !.op[o] = row], rest) /\ NothingSaid
      /\ roll.op[o].status = "PREVIEWED"
  BY <1>2 DEF Execute, Runnable
<1>4. row \in OpRow /\ SamePlan(row, roll.op[o])
  BY <1>1 DEF OpRow, SamePlan, Finished
<1>5. row.kind # "none" /\ Raises(row)
  BY <1>3, <1>4 DEF BulkIInv, SamePlan, Unplanned, Raises
<1>6. rest \in SUBSET Rests /\ \A t \in row.targets : <<o, t>> \in rest
  BY <1>1, <1>4 DEF Rests, OpRow, SamePlan
<1> HIDE DEF row, rest
<1>7. QED
  BY <1>3, <1>4, <1>5, <1>6, OpHandlerKeeps

(* a request that changes one tenancy *)
LEMMA TenancyHandlerKeeps ==
    ASSUME BulkIInv, NEW c \in Officers, NEW t \in Lets, NEW row \in LetRow, SaysMore,
           Run!Begins(c), officer' = [officer EXCEPT ![c] = Run!Ready(roll, [roll EXCEPT !.let[t] = row], {})],
           UNCHANGED <<roll, period>>
    PROVE  BulkIInv'
<1> DEFINE new == [roll EXCEPT !.let[t] = row]
<1>1. roll \in RollRows
  BY DEF BulkIInv
<1>2. new \in RollRows /\ new.op = roll.op
  BY <1>1, OtherLet
<1>3. officer' = [officer EXCEPT ![c] = Run!Ready(roll, new, {})]
  OBVIOUS
<1> HIDE DEF new
<1>4. QED
  BY <1>2, <1>3, LetHandlerKeeps

LEMMA LetOfRoll ==
    ASSUME BulkIInv, NEW t \in Lets
    PROVE  /\ roll \in RollRows /\ roll = [let |-> roll.let, op |-> roll.op]
           /\ roll.let \in [Lets -> LetRow] /\ roll.let[t] \in LetRow
BY RollColumns DEF BulkIInv

LEMMA SetRentKeeps ==
    ASSUME BulkIInv, NEW c \in Officers, NEW t \in Lets, NEW rent \in Rents, SetRent(c, t, rent)
    PROVE  BulkIInv'
<1> DEFINE row == [roll.let[t] EXCEPT !.rent = rent]
<1>1. row \in LetRow
  BY LetOfRoll DEF LetRow
<1>2. [roll EXCEPT !.let[t].rent = rent] = [roll EXCEPT !.let[t] = row]
  BY LetOfRoll
<1>3. /\ Run!Begins(c) /\ UNCHANGED <<roll, period, told, heard, undelivered>>
      /\ officer' = [officer EXCEPT ![c] = Run!Ready(roll, [roll EXCEPT !.let[t] = row], {})]
  BY <1>2 DEF SetRent, Run!Prepares, Run!PreparesOne, NothingSaid, Unsaid
<1>4. SaysMore
  BY <1>3, SilenceSaysMore
<1> HIDE DEF row
<1>5. QED
  BY <1>1, <1>3, <1>4, TenancyHandlerKeeps

LEMMA PayKeeps ==
    ASSUME BulkIInv, NEW c \in Officers, NEW t \in Lets, Pay(c, t)
    PROVE  BulkIInv'
<1> DEFINE row == [roll.let[t] EXCEPT !.since = 0]
<1>1. row \in LetRow
  <2>1. 0 \in 0 .. LastPeriod
    BY BulkBounds
  <2>2. QED
    BY <2>1, LetOfRoll DEF LetRow
<1>2. [roll EXCEPT !.let[t].since = 0] = [roll EXCEPT !.let[t] = row]
  BY LetOfRoll
<1>3. /\ Run!Begins(c) /\ UNCHANGED <<roll, period, told, heard, undelivered>>
      /\ officer' = [officer EXCEPT ![c] = Run!Ready(roll, [roll EXCEPT !.let[t] = row], {})]
  BY <1>2 DEF Pay, Run!Prepares, Run!PreparesOne, NothingSaid, Unsaid
<1>4. SaysMore
  BY <1>3, SilenceSaysMore
<1> HIDE DEF row
<1>5. QED
  BY <1>1, <1>3, <1>4, TenancyHandlerKeeps

LEMMA BilledRow ==
    ASSUME BulkIInv, NEW row \in LetRow
    PROVE  Billed(row) \in LetRow /\ Billed(row).rent = row.rent
<1>1. period \in 0 .. LastPeriod
  BY BulkBounds DEF BulkIInv, Periods
<1>2. QED
  BY <1>1 DEF LetRow, Billed

LEMMA DailyInvoicesKeep ==
    ASSUME BulkIInv, NEW c \in Officers, DailyInvoices(c)
    PROVE  BulkIInv'
<1> DEFINE let == [t \in Lets |->
                IF roll.let[t].billed = period THEN roll.let[t] ELSE Billed(roll.let[t])]
           new == [roll EXCEPT !.let = let]
<1>1. roll \in RollRows /\ roll = [let |-> roll.let, op |-> roll.op] /\ roll.op \in [Operations -> OpRow]
  BY RollColumns DEF BulkIInv
<1>2. let \in [Lets -> LetRow]
  BY LetOfRoll, BilledRow
<1> HIDE DEF let
<1>3. new = [let |-> let, op |-> roll.op]
  BY <1>1
<1>4. new \in RollRows /\ new.op = roll.op
  BY <1>1, <1>2, <1>3, RollOf
<1>5. /\ Run!Begins(c) /\ UNCHANGED <<roll, period, told, heard, undelivered>>
      /\ officer' = [officer EXCEPT ![c] = Run!Ready(roll, new, {})]
  BY DEF DailyInvoices, Run!Prepares, Run!PreparesOne, NothingSaid, Unsaid, let
<1>6. SaysMore
  BY <1>5, SilenceSaysMore
<1> HIDE DEF new
<1>7. QED
  BY <1>4, <1>5, <1>6, LetHandlerKeeps

-----------------------------------------------------------------------------
(* Demands *)

(* a message that the provider takes *)
LEMMA DeliveryCounts ==
    ASSUME BulkIInv, NEW x \in Tellings, Delivers(x)
    PROVE  /\ told' \in [Tellings -> Nat] /\ told'[x] > 0
           /\ \A y \in Tellings : told[y] > 0 => told'[y] > 0
           /\ undelivered' \subseteq Operations \X Lets
           /\ \A y \in undelivered : y # x => y \in undelivered'
<1>1. /\ told \in [Tellings -> Nat] /\ told' = [told EXCEPT ![x] = @ + 1]
      /\ undelivered \subseteq Operations \X Lets /\ undelivered' = undelivered \ {x}
  BY DEF BulkIInv, Delivers
<1>2. told' \in [Tellings -> Nat] /\ told'[x] > 0 /\ \A y \in Tellings : told[y] > 0 => told'[y] > 0
  BY <1>1
<1>3. QED
  BY <1>1, <1>2

LEMMA OfAnOperation ==
    ASSUME NEW o \in Operations, NEW t \in Lets
    PROVE  <<o, t>> \in Tellings /\ <<o, t>> \in Operations \X Lets
BY DEF Tellings

(* a message that does not arrive *)
LEMMA LossSaysMore ==
    ASSUME BulkIInv, NEW o \in Operations, NEW t \in Lets, FailsToDeliver(<<o, t>>)
    PROVE  SaysMore /\ <<o, t>> \in undelivered'
<1>1. /\ undelivered' = undelivered \cup {<<o, t>>} /\ UNCHANGED <<told, heard>>
      /\ undelivered \subseteq Operations \X Lets
      /\ told \in [Tellings -> Nat] /\ heard \in [Operations \X Lets -> 0 .. HighestRent]
  BY DEF FailsToDeliver, BulkIInv
<1>2. <<o, t>> \in Operations \X Lets
  BY OfAnOperation
<1>3. QED
  BY <1>1, <1>2 DEF SaysMore

(* a message of an operation that raises no rent *)
LEMMA SayingSaysMore ==
    ASSUME BulkIInv, NEW o \in Operations, NEW t \in Lets, Says(<<o, t>>),
           roll.op[o].kind # "RENT_INCREASE"
    PROVE  SaysMore /\ (told'[<<o, t>>] > 0 \/ <<o, t>> \in undelivered')
<1>1. CASE FailsToDeliver(<<o, t>>)
  BY <1>1, LossSaysMore
<1>2. CASE Delivers(<<o, t>>) /\ UNCHANGED heard
  <2> DEFINE x == <<o, t>>
  <2>1. x \in Tellings
    BY OfAnOperation
  <2>2. /\ told' \in [Tellings -> Nat] /\ told'[x] > 0
        /\ \A y \in Tellings : told[y] > 0 => told'[y] > 0
        /\ undelivered' \subseteq Operations \X Lets
        /\ \A y \in undelivered : y # x => y \in undelivered'
    BY <1>2, <2>1, DeliveryCounts
  <2>3. heard' = heard /\ heard \in [Operations \X Lets -> 0 .. HighestRent]
    BY <1>2 DEF BulkIInv
  <2>4. ASSUME NEW p \in Operations, NEW y \in Lets, <<p, y>> \in undelivered
        PROVE  <<p, y>> \in undelivered' \/ Reaches(p, y)
    <3>1. CASE <<p, y>> = x
      BY <2>2, <3>1 DEF Reaches
    <3>2. CASE <<p, y>> # x
      BY <2>2, <2>4, <3>2
    <3>3. QED
      BY <3>1, <3>2
  <2>5. \A p \in Operations, y \in Lets : <<p, y>> \in Tellings
    BY OfAnOperation
  <2>6. SaysMore
    BY <2>2, <2>3, <2>4, <2>5 DEF SaysMore
  <2>7. QED
    BY <2>2, <2>6
<1>3. QED
  BY <1>1, <1>2 DEF Says

(* a demand, which is no telling of an operation *)
LEMMA DemandSaysMore ==
    ASSUME BulkIInv, NEW label \in Labels, NEW t \in Lets, SaysDemand(<<label, t>>)
    PROVE  SaysMore
<1>1. CASE Unsaid
  BY <1>1, SilenceSaysMore DEF Unsaid
<1>2. CASE Delivers(<<label, t>>) /\ UNCHANGED heard
  <2> DEFINE x == <<label, t>>
  <2>1. x \in Tellings
    BY DEF Tellings
  <2>2. /\ told' \in [Tellings -> Nat]
        /\ \A y \in Tellings : told[y] > 0 => told'[y] > 0
        /\ undelivered' \subseteq Operations \X Lets
        /\ \A y \in undelivered : y # x => y \in undelivered'
    BY <1>2, <2>1, DeliveryCounts
  <2>3. heard' = heard /\ heard \in [Operations \X Lets -> 0 .. HighestRent]
    BY <1>2 DEF BulkIInv
  <2>4. \A p \in Operations : p # label
    BY BulkAssumption DEF Labels
  <2>5. \A p \in Operations, y \in Lets : <<p, y>> # x /\ <<p, y>> \in Tellings
    BY <2>4, OfAnOperation
  <2>6. QED
    BY <2>2, <2>3, <2>5 DEF SaysMore
<1>3. QED
  BY <1>1, <1>2 DEF SaysDemand

LEMMA DemandRow ==
    ASSUME BulkIInv, NEW t \in Lets
    PROVE  /\ WithDemand(t) \in RollRows /\ WithDemand(t).op = roll.op
           /\ Label(t) \in Labels
<1> DEFINE row == [roll.let[t] EXCEPT !.filed = @ \cup {Label(t)}]
<1>1. Label(t) \in Labels
  BY DEF Label, Labels
<1>2. row \in LetRow
  BY <1>1, LetOfRoll DEF LetRow
<1>3. WithDemand(t) = [roll EXCEPT !.let[t] = row]
  BY LetOfRoll DEF WithDemand
<1> HIDE DEF row
<1>4. [roll EXCEPT !.let[t] = row] \in RollRows /\ [roll EXCEPT !.let[t] = row].op = roll.op
  BY <1>2, LetOfRoll, OtherLet
<1>5. QED
  BY <1>1, <1>3, <1>4

LEMMA DemandByHandKeeps ==
    ASSUME BulkIInv, NEW c \in Officers, NEW t \in Lets, DemandByHand(c, t)
    PROVE  BulkIInv'
<1>1. /\ Run!Begins(c) /\ SaysDemand(<<Label(t), t>>) /\ UNCHANGED <<roll, period>>
      /\ officer' = [officer EXCEPT ![c] = Run!Ready(roll, WithDemand(t), {})]
  BY DEF DemandByHand
<1>2. WithDemand(t) \in RollRows /\ WithDemand(t).op = roll.op /\ Label(t) \in Labels
  BY DemandRow
<1>3. SaysMore
  BY <1>1, <1>2, DemandSaysMore
<1>4. QED
  BY <1>1, <1>2, <1>3, LetHandlerKeeps

(* a session between two of its commits, or done *)
LEMMA BetweenKeeps ==
    ASSUME BulkIInv, NEW seen \in RollRows, NEW rest \in SUBSET Rests, NEW now, NEW said, NEW about, NEW lost
    PROVE  /\ OfficerOK(Run!Between(seen, rest), now, said, about, lost)
           /\ OfficerOK(Run!Idle, now, said, about, lost)
           /\ \A o \in Operations : ~Previews(Run!Between(seen, rest), o) /\ ~Previews(Run!Idle, o)
BY DEF OfficerOK, Previews, Run!Between, Run!Idle

LEMMA StartDemandsKeeps ==
    ASSUME BulkIInv, NEW c \in Officers, StartDemands(c)
    PROVE  BulkIInv'
<1> DEFINE rest == {<<"demands", t>> : t \in {x \in Lets : DemandDue(x)}}
           w == Run!Between(roll, rest)
<1>1. /\ Run!Begins(c) /\ officer' = [officer EXCEPT ![c] = w]
      /\ UNCHANGED <<roll, period, told, heard, undelivered>>
  BY DEF StartDemands, Run!Starts, NothingSaid, Unsaid
<1>2. rest \in SUBSET Rests /\ roll \in RollRows
  BY DEF Rests, BulkIInv
<1> HIDE DEF rest
<1>3. OfficerOK(w, roll, told', heard', undelivered') /\ \A o \in Operations : ~Previews(w, o)
  BY <1>2, BetweenKeeps
<1>4. SaysMore /\ period' \in Periods /\ ordered' \in 0 .. MaxRuns
  BY <1>1, SilenceSaysMore, RunsCounted
<1> HIDE DEF w
<1>5. QED
  BY <1>1, <1>3, <1>4, NoCommit

LEMMA OfficerRows ==
    ASSUME BulkIInv, NEW c \in Officers, officer[c].at # "idle"
    PROVE  /\ officer[c].seen \in RollRows /\ officer[c].rest \in SUBSET Rests
           /\ officer[c].at = "ready" =>
                /\ officer[c] = [at |-> "ready", seen |-> officer[c].seen, was |-> officer[c].was,
                                 is |-> officer[c].is, rest |-> officer[c].rest]
                /\ officer[c].was \in RollRows /\ officer[c].is \in RollRows
                /\ PlansOK(officer[c], roll)
                /\ \A o \in Operations : RunOK(officer[c], o, told, heard, undelivered)
<1>1. OfficerOK(officer[c], roll, told, heard, undelivered)
  BY DEF BulkIInv
<1>2. QED
  BY <1>1 DEF OfficerOK

LEMMA SendDemandKeeps ==
    ASSUME BulkIInv, NEW c \in Officers, NEW t \in Lets, SendDemand(c, t)
    PROVE  BulkIInv'
<1> DEFINE rest == officer[c].rest \ {<<"demands", t>>}
           w == Run!Ready(officer[c].seen, WithDemand(t), rest)
<1>1. /\ officer[c].at = "between" /\ officer' = [officer EXCEPT ![c] = w]
      /\ SaysDemand(<<Label(t), t>>) /\ UNCHANGED <<roll, ordered, period>>
  BY DEF SendDemand, Run!Continues
<1>2. officer[c].seen \in RollRows /\ rest \in SUBSET Rests
  BY <1>1, OfficerRows
<1>3. WithDemand(t) \in RollRows /\ WithDemand(t).op = roll.op /\ Label(t) \in Labels
  BY DemandRow
<1>4. SaysMore
  BY <1>1, <1>3, DemandSaysMore
<1> HIDE DEF rest
<1>5. OfficerOK(w, roll, told', heard', undelivered') /\ \A o \in Operations : ~Previews(w, o)
  BY <1>2, <1>3, ReadyForLets
<1> HIDE DEF w
<1>6. period' \in Periods /\ ordered' \in 0 .. MaxRuns
  BY <1>1 DEF BulkIInv
<1>7. QED
  BY <1>1, <1>4, <1>5, <1>6, NoCommit

LEMMA LoseDemandKeeps ==
    ASSUME BulkIInv, NEW c \in Officers, LoseDemand(c)
    PROVE  BulkIInv'
<1> DEFINE w == Run!Between(officer[c].seen, officer[c].rest)
<1>1. /\ officer[c].at = "ready" /\ UNCHANGED <<roll, ordered, period, told, heard, undelivered>>
      /\ officer' = [officer EXCEPT ![c] = w]
  BY DEF LoseDemand, NothingSaid, Unsaid
<1>2. officer[c].seen \in RollRows /\ officer[c].rest \in SUBSET Rests
  BY <1>1, OfficerRows
<1>3. OfficerOK(w, roll, told', heard', undelivered') /\ \A o \in Operations : ~Previews(w, o)
  BY <1>2, BetweenKeeps
<1>4. SaysMore /\ period' \in Periods /\ ordered' \in 0 .. MaxRuns
  BY <1>1, SilenceSaysMore DEF BulkIInv
<1> HIDE DEF w
<1>5. QED
  BY <1>1, <1>3, <1>4, NoCommit

LEMMA SkipDemandKeeps ==
    ASSUME BulkIInv, NEW c \in Officers, NEW t \in Lets, SkipDemand(c, t)
    PROVE  BulkIInv'
<1> DEFINE rest == officer[c].rest \ {<<"demands", t>>}
           seen == IF officer[c].seen = roll THEN roll ELSE officer[c].seen
           w == IF rest = {} THEN Run!Idle ELSE Run!Between(seen, rest)
<1>1. /\ officer[c].at = "between" /\ UNCHANGED <<roll, ordered, period, told, heard, undelivered>>
      /\ officer' = [officer EXCEPT ![c] = w]
  BY DEF SkipDemand, Run!Steps, NothingSaid, Unsaid
<1>2. seen \in RollRows /\ rest \in SUBSET Rests
  BY <1>1, OfficerRows
<1> HIDE DEF rest, seen
<1>3. OfficerOK(w, roll, told', heard', undelivered') /\ \A o \in Operations : ~Previews(w, o)
  BY <1>2, BetweenKeeps
<1>4. SaysMore /\ period' \in Periods /\ ordered' \in 0 .. MaxRuns
  BY <1>1, SilenceSaysMore DEF BulkIInv
<1> HIDE DEF w
<1>5. QED
  BY <1>1, <1>3, <1>4, NoCommit

-----------------------------------------------------------------------------
(* A run on its way through its targets *)

LEMMA OutcomeKeepsThePlan ==
    ASSUME NEW op \in OpRow, NEW failed \in SUBSET Lets
    PROVE  /\ Outcome(op, failed) \in OpRow /\ SamePlan(Outcome(op, failed), op)
           /\ Outcome(op, failed).status \in Finished /\ Outcome(op, failed).failed = failed
<1>1. PICK status \in Finished : Outcome(op, failed) = [op EXCEPT !.failed = failed, !.status = status]
  BY DEF Outcome, Finished
<1>2. QED
  BY <1>1 DEF OpRow, SamePlan

(* what is known of a session in the middle of a run of o *)
LEMMA InTheRun ==
    ASSUME BulkIInv, NEW c \in Officers, NEW o \in Operations, Runs(c, o)
    PROVE  LET mine == officer[c]
           IN  /\ mine.seen \in RollRows /\ mine.was \in RollRows /\ mine.is \in RollRows
               /\ mine.rest \in SUBSET Rests
               /\ mine = [at |-> "ready", seen |-> mine.seen, was |-> mine.was, is |-> mine.is,
                          rest |-> mine.rest]
               /\ mine.is.op[o].kind # "none" /\ SamePlan(mine.is.op[o], mine.was.op[o])
               /\ SamePlan(mine.was.op[o], roll.op[o])
               /\ \A p \in Operations : p # o => mine.is.op[p] = mine.was.op[p]
               /\ mine.seen.op[o].status \in {"PREVIEWED", "RUNNING"}
               /\ \A t \in mine.is.op[o].targets :
                    \/ <<o, t>> \in mine.rest \/ t \in mine.is.op[o].failed
                    \/ HasHeard(mine, o, t, told, heard, undelivered)
<1> DEFINE mine == officer[c]
<1>1. /\ mine.at = "ready" /\ mine.is.op[o].status \in Finished
      /\ mine.is.op[o] # mine.was.op[o]
  BY DEF Runs
<1>2. /\ mine.seen \in RollRows /\ mine.was \in RollRows /\ mine.is \in RollRows
      /\ mine.rest \in SUBSET Rests
      /\ mine = [at |-> "ready", seen |-> mine.seen, was |-> mine.was, is |-> mine.is,
                 rest |-> mine.rest]
      /\ PlansOK(mine, roll) /\ RunOK(mine, o, told, heard, undelivered)
  BY <1>1, OfficerRows
<1> HIDE DEF mine
<1>3. mine.is.op[o].kind # "none" /\ SamePlan(mine.is.op[o], mine.was.op[o])
  BY <1>1, <1>2 DEF PlansOK, Finished
<1>4. SamePlan(mine.was.op[o], roll.op[o])
  BY <1>2, <1>3 DEF PlansOK, SamePlan
<1>5. \A p \in Operations : p # o => mine.is.op[p] = mine.was.op[p]
  BY <1>1, <1>2 DEF PlansOK
<1>6. /\ mine.seen.op[o].status \in {"PREVIEWED", "RUNNING"}
      /\ \A t \in mine.is.op[o].targets :
            \/ <<o, t>> \in mine.rest \/ t \in mine.is.op[o].failed
            \/ HasHeard(mine, o, t, told, heard, undelivered)
  BY <1>1, <1>2 DEF RunOK
<1>7. QED
  BY <1>2, <1>3, <1>4, <1>5, <1>6 DEF mine

LEMMA FlushRunKeeps ==
    ASSUME BulkIInv, NEW c \in Officers, NEW o \in Operations, FlushRun(c, o)
    PROVE  BulkIInv'
<1> DEFINE mine == officer[c]
           rest == mine.rest \ {<<o, Flush>>}
           w == [mine EXCEPT !.rest = rest]
<1>1. /\ mine.at = "ready" /\ UNCHANGED <<roll, ordered, period, told, heard, undelivered>>
      /\ officer' = [officer EXCEPT ![c] = w]
  BY DEF FlushRun, NothingSaid, Unsaid
<1>2. /\ mine = [at |-> "ready", seen |-> mine.seen, was |-> mine.was, is |-> mine.is,
                 rest |-> mine.rest]
      /\ {mine.seen, mine.was, mine.is} \subseteq RollRows /\ mine.rest \subseteq Rests
      /\ PlansOK(mine, roll) /\ \A p \in Operations : RunOK(mine, p, told, heard, undelivered)
  BY <1>1, OfficerRows
<1>3. /\ rest \subseteq Rests
      /\ \A p \in Operations, t \in Lets : <<p, t>> \in mine.rest => <<p, t>> \in rest
  BY <1>2, BulkAssumption DEF Flush
<1> HIDE DEF mine, rest
<1>4. w = [at |-> "ready", seen |-> mine.seen, was |-> mine.was, is |-> mine.is, rest |-> rest]
  BY <1>2
<1> HIDE DEF w
<1>5. PlansOK(w, roll) /\ \A p \in Operations : Previews(w, p) => Previews(mine, p)
  BY <1>2, <1>4 DEF PlansOK, Previews
<1>6. ASSUME NEW p \in Operations PROVE RunOK(w, p, told, heard, undelivered)
  <2> SUFFICES ASSUME w.is.op[p].status \in Finished, w.is.op[p] # w.was.op[p]
               PROVE  /\ w.seen.op[p].status \in {"PREVIEWED", "RUNNING"}
                      /\ \A t \in w.is.op[p].targets :
                            \/ <<p, t>> \in w.rest \/ t \in w.is.op[p].failed
                            \/ HasHeard(w, p, t, told, heard, undelivered)
    BY DEF RunOK
  <2>1. RunOK(mine, p, told, heard, undelivered)
    BY <1>2
  <2>2. w.seen.op[p].status \in {"PREVIEWED", "RUNNING"}
    BY <1>4, <2>1 DEF RunOK
  <2>3. ASSUME NEW t \in w.is.op[p].targets
        PROVE  \/ <<p, t>> \in w.rest \/ t \in w.is.op[p].failed
               \/ HasHeard(w, p, t, told, heard, undelivered)
    <3>1. \/ <<p, t>> \in mine.rest \/ t \in mine.is.op[p].failed
          \/ HasHeard(mine, p, t, told, heard, undelivered)
      BY <1>4, <2>1 DEF RunOK
    <3>2. t \in Lets
      BY <1>2, <1>4, RollColumns DEF OpRow
    <3>3. HasHeard(mine, p, t, told, heard, undelivered) => HasHeard(w, p, t, told, heard, undelivered)
      BY <1>4 DEF HasHeard
    <3>4. QED
      BY <1>3, <1>4, <3>1, <3>2, <3>3
  <2>4. QED
    BY <2>2, <2>3
<1>7. OfficerOK(w, roll, told, heard, undelivered)
  BY <1>2, <1>3, <1>4, <1>5, <1>6 DEF OfficerOK
<1>8. SaysMore /\ period' \in Periods /\ ordered' \in 0 .. MaxRuns
  BY <1>1, SilenceSaysMore DEF BulkIInv
<1>9. \A p \in Operations : Previews(w, p) => Previews(officer[c], p)
  BY <1>5 DEF mine
<1>10. OfficerOK(w, roll, told', heard', undelivered') /\ roll' = roll
  BY <1>1, <1>7
<1>11. QED
  BY <1>1, <1>8, <1>9, <1>10, NoCommit

LEMMA ComesKeeps ==
    ASSUME BulkIInv, NEW c \in Officers, NEW o \in Operations, NEW t \in Lets,
           NEW row \in LetRow, NEW ok \in BOOLEAN, Comes(c, o, t, row, ok), SaysMore,
           ok => /\ roll.op[o].kind = "RENT_INCREASE" => row.rent = roll.op[o].newRent[t]
                 /\ \/ roll.op[o].kind \notin {"RENT_INCREASE", "ANNOUNCEMENT"}
                    \/ <<o, t>> \in undelivered' \/ Reaches(o, t)
    PROVE  BulkIInv'
<1> DEFINE mine == officer[c]
           failed == mine.is.op[o].failed \cup (IF ok THEN {} ELSE {t})
           out == Outcome(mine.is.op[o], failed)
           before == [mine.was EXCEPT !.let[t] = roll.let[t]]
           between == [mine.is EXCEPT !.let[t] = row]
           after == [between EXCEPT !.op[o] = out]
           rest == mine.rest \ {<<o, t>>}
           w == [at |-> "ready", seen |-> mine.seen, was |-> before, is |-> after, rest |-> rest]
<1>1. /\ Runs(c, o) /\ <<o, t>> \in mine.rest /\ UNCHANGED <<roll, ordered, period>>
      /\ officer' = [officer EXCEPT ![c] = w]
  <2>1. [mine.is EXCEPT !.let[t] = row, !.op[o] = Outcome(@, failed)] = after
    BY InTheRun, RollColumns DEF Comes, Flushed
  <2>2. QED
    BY <2>1 DEF Comes, Flushed
<1>2. /\ mine.seen \in RollRows /\ mine.was \in RollRows /\ mine.is \in RollRows
      /\ mine.rest \in SUBSET Rests
      /\ mine = [at |-> "ready", seen |-> mine.seen, was |-> mine.was, is |-> mine.is,
                 rest |-> mine.rest]
      /\ mine.is.op[o].kind # "none" /\ SamePlan(mine.is.op[o], mine.was.op[o])
      /\ SamePlan(mine.was.op[o], roll.op[o])
      /\ \A p \in Operations : p # o => mine.is.op[p] = mine.was.op[p]
      /\ mine.seen.op[o].status \in {"PREVIEWED", "RUNNING"}
      /\ \A x \in mine.is.op[o].targets :
            \/ <<o, x>> \in mine.rest \/ x \in mine.is.op[o].failed
            \/ HasHeard(mine, o, x, told, heard, undelivered)
  BY <1>1, InTheRun
<1>3. /\ mine.is.op[o] \in OpRow /\ failed \in SUBSET Lets /\ mine.is.op[o].targets \subseteq Lets
      /\ roll \in RollRows /\ roll.let[t] \in LetRow
  <2>1. mine.is.op[o] \in OpRow
    BY <1>2, RollColumns
  <2>2. QED
    BY <2>1, LetOfRoll DEF OpRow
<1> HIDE DEF mine, failed
<1>4. /\ out \in OpRow /\ SamePlan(out, mine.is.op[o])
      /\ out.status \in Finished /\ out.failed = failed
  BY <1>3, OutcomeKeepsThePlan
<1> HIDE DEF out
<1>5. before \in RollRows /\ before.op = mine.was.op
  BY <1>2, <1>3, OtherLet
<1>6. /\ between \in RollRows /\ between.op = mine.is.op /\ between.let[t] = row
      /\ \A x \in Lets : x # t => between.let[x] = mine.is.let[x]
  BY <1>2, OtherLet
<1> HIDE DEF before, between
<1>7. /\ after \in RollRows /\ after.op[o] = out /\ after.let = between.let
      /\ \A p \in Operations : p # o => after.op[p] = between.op[p]
  BY <1>4, <1>6, OtherOp
<1>8. rest \subseteq Rests /\ \A x : x # t /\ <<o, x>> \in mine.rest => <<o, x>> \in rest
  BY <1>2
<1> HIDE DEF after, rest
<1>9. /\ w.at = "ready" /\ w.seen = mine.seen /\ w.was = before /\ w.is = after /\ w.rest = rest
      /\ w = [at |-> "ready", seen |-> w.seen, was |-> w.was, is |-> w.is, rest |-> w.rest]
  OBVIOUS
<1> HIDE DEF w
<1>10. \A p \in Operations : p # o => w.is.op[p] = w.was.op[p]
  BY <1>2, <1>5, <1>6, <1>7, <1>9
<1>11. SamePlan(w.is.op[o], w.was.op[o]) /\ SamePlan(w.was.op[o], roll.op[o]) /\ w.is.op[o].kind # "none"
  BY <1>2, <1>4, <1>5, <1>7, <1>9 DEF SamePlan
<1>12. PlansOK(w, roll)
  <2>1. mine.at = "ready" /\ PlansOK(mine, roll)
    BY <1>1, OfficerRows DEF mine, Runs
  <2>2. ASSUME NEW p \in Operations, w.was.op[p].kind # "none"
        PROVE  SamePlan(w.was.op[p], roll.op[p])
    BY <1>5, <1>9, <2>1, <2>2 DEF PlansOK
  <2>3. ASSUME NEW p \in Operations
        PROVE  /\ w.was.op[p].kind = "none" => w.was.op[p] = Unplanned
               /\ w.is.op[p] # w.was.op[p] => w.is.op[p].kind # "none"
               /\ SamePlan(w.is.op[p], w.was.op[p])
    BY <1>5, <1>9, <1>10, <1>11, <2>1 DEF SamePlan, PlansOK
  <2>4. ASSUME NEW p \in Operations PROVE Raises(w.is.op[p])
    <3>1. CASE p = o
      BY <1>11, <3>1 DEF SamePlan, Raises, BulkIInv
    <3>2. CASE p # o
      <4>1. w.is.op[p] = mine.is.op[p]
        BY <1>6, <1>7, <1>9, <3>2
      <4>2. QED
        BY <2>1, <4>1 DEF PlansOK
    <3>3. QED
      BY <3>1, <3>2
  <2>5. QED
    BY <1>10, <2>2, <2>3, <2>4 DEF PlansOK
<1>13. ASSUME NEW x \in w.is.op[o].targets
       PROVE  \/ <<o, x>> \in w.rest \/ x \in w.is.op[o].failed
              \/ HasHeard(w, o, x, told', heard', undelivered')
  <2>1. x \in Lets /\ x \in mine.is.op[o].targets
    BY <1>3, <1>4, <1>7, <1>9 DEF SamePlan
  <2>2. /\ w.is.op[o].kind = roll.op[o].kind /\ w.is.op[o].newRent = roll.op[o].newRent
        /\ mine.is.op[o].kind = roll.op[o].kind /\ mine.is.op[o].newRent = roll.op[o].newRent
    BY <1>2, <1>11 DEF SamePlan
  <2>3. CASE x # t
    <3>1. CASE <<o, x>> \in mine.rest
      BY <1>8, <1>9, <2>3, <3>1
    <3>2. CASE x \in mine.is.op[o].failed
      BY <1>4, <1>7, <1>9, <3>2 DEF failed
    <3>3. CASE HasHeard(mine, o, x, told, heard, undelivered)
      <4>1. w.is.let[x] = mine.is.let[x]
        BY <1>6, <1>7, <1>9, <2>1, <2>3
      <4>2. /\ told[<<o, x>>] > 0 => told'[<<o, x>>] > 0
            /\ \/ heard'[<<o, x>>] = heard[<<o, x>>]
               \/ heard'[<<o, x>>] = roll.op[o].newRent[x]
            /\ <<o, x>> \in undelivered => <<o, x>> \in undelivered' \/ Reaches(o, x)
        BY <2>1 DEF SaysMore
      <4>3. HasHeard(w, o, x, told', heard', undelivered')
        BY <2>2, <3>3, <4>1, <4>2 DEF HasHeard, Reaches
      <4>4. QED
        BY <4>3
    <3>4. QED
      BY <1>2, <2>1, <3>1, <3>2, <3>3
  <2>4. CASE x = t /\ ok
    <3>1. w.is.let[x] = row
      BY <1>6, <1>7, <1>9, <2>4
    <3>2. HasHeard(w, o, x, told', heard', undelivered')
      BY <2>2, <2>4, <3>1 DEF HasHeard, Reaches
    <3>3. QED
      BY <3>2
  <2>5. CASE x = t /\ ~ok
    BY <1>4, <1>7, <1>9, <2>5 DEF failed
  <2>6. QED
    BY <2>3, <2>4, <2>5
<1>14. ASSUME NEW p \in Operations PROVE RunOK(w, p, told', heard', undelivered')
  <2>1. CASE p = o
    BY <1>2, <1>9, <1>13, <2>1 DEF RunOK
  <2>2. CASE p # o
    BY <1>10, <2>2 DEF RunOK
  <2>3. QED
    BY <2>1, <2>2
<1>15. OfficerOK(w, roll, told', heard', undelivered')
  BY <1>2, <1>5, <1>7, <1>8, <1>9, <1>12, <1>14 DEF OfficerOK
<1>16. \A p \in Operations : ~Previews(w, p)
  BY <1>10, <1>11 DEF Previews, SamePlan
<1>17. period' \in Periods /\ ordered' \in 0 .. MaxRuns /\ roll' = roll
  BY <1>1 DEF BulkIInv
<1>18. QED
  BY <1>1, <1>15, <1>16, <1>17, NoCommit

(* a message of a rent *)
LEMMA HeardNow ==
    ASSUME BulkIInv, NEW o \in Operations, NEW t \in Lets, SaysRent(<<o, t>>, roll.op[o].newRent[t])
    PROVE  SaysMore /\ (<<o, t>> \in undelivered' \/ Reaches(o, t))
<1>1. CASE FailsToDeliver(<<o, t>>)
  BY <1>1, LossSaysMore
<1>2. CASE /\ Delivers(<<o, t>>)
           /\ heard' = [heard EXCEPT ![<<o, t>>] = roll.op[o].newRent[t]]
  <2> DEFINE x == <<o, t>>
             rent == roll.op[o].newRent[t]
  <2>1. x \in Tellings /\ x \in Operations \X Lets
    BY OfAnOperation
  <2>2. /\ told' \in [Tellings -> Nat] /\ told'[x] > 0
        /\ \A y \in Tellings : told[y] > 0 => told'[y] > 0
        /\ undelivered' \subseteq Operations \X Lets
        /\ \A y \in undelivered : y # x => y \in undelivered'
    BY <1>2, <2>1, DeliveryCounts
  <2>3. heard \in [Operations \X Lets -> 0 .. HighestRent] /\ rent \in 0 .. HighestRent
    <3>1. roll.op[o] \in OpRow
      BY RollColumns DEF BulkIInv
    <3>2. QED
      BY <3>1 DEF BulkIInv, OpRow
  <2>4. /\ heard' \in [Operations \X Lets -> 0 .. HighestRent] /\ heard'[x] = rent
        /\ \A p \in Operations, y \in Lets : <<p, y>> # x => heard'[<<p, y>>] = heard[<<p, y>>]
    BY <1>2, <2>1, <2>3
  <2>5. Reaches(o, t)
    BY <2>2, <2>4 DEF Reaches
  <2>6. ASSUME NEW p \in Operations, NEW y \in Lets
        PROVE  /\ told[<<p, y>>] > 0 => told'[<<p, y>>] > 0
               /\ \/ heard'[<<p, y>>] = heard[<<p, y>>]
                  \/ heard'[<<p, y>>] = roll.op[p].newRent[y]
               /\ <<p, y>> \in undelivered => <<p, y>> \in undelivered' \/ Reaches(p, y)
    <3>1. <<p, y>> \in Tellings
      BY OfAnOperation
    <3>2. CASE <<p, y>> = x
      BY <2>2, <2>4, <2>5, <3>2
    <3>3. CASE <<p, y>> # x
      BY <2>2, <2>4, <3>1, <3>3
    <3>4. QED
      BY <3>2, <3>3
  <2>7. QED
    BY <2>2, <2>4, <2>5, <2>6 DEF SaysMore
<1>3. QED
  BY <1>1, <1>2 DEF SaysRent

LEMMA RaiseRentKeeps ==
    ASSUME BulkIInv, NEW c \in Officers, NEW o \in Operations, NEW t \in Lets, RaiseRent(c, o, t)
    PROVE  BulkIInv'
<1> DEFINE row == [roll.let[t] EXCEPT !.rent = roll.op[o].newRent[t]]
<1>1. roll.op[o].kind = "RENT_INCREASE"
  BY DEF RaiseRent
<1>2. row \in LetRow /\ row.rent = roll.op[o].newRent[t]
  <2>1. roll.op[o].newRent[t] \in Rents
    BY <1>1 DEF BulkIInv, Raises
  <2>2. QED
    BY <2>1, LetOfRoll DEF LetRow
<1>3. CASE Comes(c, o, t, row, TRUE) /\ SaysRent(<<o, t>>, roll.op[o].newRent[t])
  <2>1. SaysMore /\ (<<o, t>> \in undelivered' \/ Reaches(o, t))
    BY <1>3, HeardNow
  <2> HIDE DEF row
  <2>2. QED
    BY <1>2, <1>3, <2>1, ComesKeeps
<1>4. CASE Comes(c, o, t, row, FALSE) /\ Unsaid
  <2>1. SaysMore
    BY <1>4, SilenceSaysMore DEF Unsaid
  <2> HIDE DEF row
  <2>2. QED
    BY <1>2, <1>4, <2>1, ComesKeeps
<1>5. QED
  BY <1>3, <1>4 DEF RaiseRent

LEMMA RemindKeeps ==
    ASSUME BulkIInv, NEW c \in Officers, NEW o \in Operations, NEW t \in Lets, Remind(c, o, t)
    PROVE  BulkIInv'
<1>1. /\ roll.op[o].kind = "PAYMENT_REMINDER" /\ Comes(c, o, t, roll.let[t], TRUE)
      /\ Says(<<o, t>>) \/ Unsaid
  BY DEF Remind
<1>2. SaysMore
  BY <1>1, SilenceSaysMore, SayingSaysMore DEF Unsaid
<1>3. roll.let[t] \in LetRow
  BY LetOfRoll
<1>4. QED
  BY <1>1, <1>2, <1>3, ComesKeeps

LEMMA AnnounceKeeps ==
    ASSUME BulkIInv, NEW c \in Officers, NEW o \in Operations, NEW t \in Lets, Announce(c, o, t)
    PROVE  BulkIInv'
<1>1. /\ roll.op[o].kind = "ANNOUNCEMENT" /\ Comes(c, o, t, roll.let[t], TRUE)
      /\ Says(<<o, t>>)
  BY DEF Announce
<1>2. SaysMore /\ (<<o, t>> \in undelivered' \/ Reaches(o, t))
  BY <1>1, SayingSaysMore DEF Reaches
<1>3. roll.let[t] \in LetRow
  BY LetOfRoll
<1>4. QED
  BY <1>1, <1>2, <1>3, ComesKeeps

(* what a run in progress writes with the announcement of an invoice *)
LEMMA DispatchesStep ==
    ASSUME BulkIInv, NEW c \in Officers, NEW o \in Operations, NEW t \in Lets,
           NEW row \in LetRow, Dispatches(c, o, t, row), roll.op[o].kind = "GENERATE_INVOICES"
    PROVE  /\ roll' \in RollRows
           /\ \A p \in Operations :
                /\ roll.op[p].kind # "none" => SamePlan(roll'.op[p], roll.op[p])
                /\ roll'.op[p].kind = roll.op[p].kind
                /\ roll'.op[p].kind = "none" => roll'.op[p] = Unplanned
                /\ Raises(roll'.op[p])
                /\ roll'.op[p].status \in {roll.op[p].status, "RUNNING"}
           /\ officer[c].seen.op[o].status \in {"PREVIEWED", "RUNNING"}
           /\ officer[c].seen = roll => roll'.op[o].status \in {"PREVIEWED", "RUNNING"}
<1> DEFINE mine == officer[c]
           running == [mine.was.op[o] EXCEPT !.status = "RUNNING"]
           before == [mine.was EXCEPT !.let[t] = roll.let[t]]
           between == [mine.is EXCEPT !.let[t] = row]
           after == [between EXCEPT !.op[o] = running]
           now == Run!Merged(before, after, roll)
<1>1. /\ Runs(c, o)
      /\ roll' = Run!Merged(before, [mine.is EXCEPT !.let[t] = row, !.op[o] = running], roll)
  BY DEF Dispatches, Flushed
<1>2. /\ mine.seen \in RollRows /\ mine.was \in RollRows /\ mine.is \in RollRows
      /\ SamePlan(mine.was.op[o], roll.op[o])
      /\ \A p \in Operations : p # o => mine.is.op[p] = mine.was.op[p]
      /\ mine.seen.op[o].status \in {"PREVIEWED", "RUNNING"}
  BY <1>1, InTheRun
<1>3. roll' = now
  BY <1>1, <1>2, RollColumns
<1>4. roll \in RollRows /\ roll.let[t] \in LetRow
  BY LetOfRoll
<1>5. running \in OpRow /\ SamePlan(running, mine.was.op[o]) /\ running.status = "RUNNING"
  <2>1. mine.was.op[o] \in OpRow
    BY <1>2, RollColumns
  <2>2. QED
    BY <2>1 DEF OpRow, SamePlan
<1>6. PlansOK(mine, roll)
  <2>1. mine.at = "ready"
    BY <1>1 DEF Runs
  <2>2. QED
    BY <2>1, OfficerRows
<1> HIDE DEF mine, running
<1>7. before \in RollRows /\ before.op = mine.was.op
  BY <1>2, <1>4, OtherLet
<1>8. between \in RollRows /\ between.op = mine.is.op
  BY <1>2, OtherLet
<1> HIDE DEF before, between
<1>9. /\ after \in RollRows /\ after.op[o] = running
      /\ \A p \in Operations : p # o => after.op[p] = between.op[p]
  BY <1>5, <1>8, OtherOp
<1> HIDE DEF after
<1>10. now \in RollRows
  BY <1>4, <1>7, <1>9, MergedRoll
<1>11. ASSUME NEW p \in Operations
       PROVE  /\ SamePlan(after.op[p], before.op[p])
              /\ before.op[p].kind # "none" => SamePlan(before.op[p], roll.op[p])
              /\ before.op[p].kind = "none" => before.op[p] = Unplanned
              /\ after.op[p] # before.op[p] => after.op[p].kind # "none"
              /\ roll.op[p].kind = "none" => roll.op[p] = Unplanned
              /\ Raises(after.op[p]) /\ Raises(roll.op[p])
  <2>1. /\ before.op[p].kind # "none" => SamePlan(before.op[p], roll.op[p])
        /\ before.op[p].kind = "none" => before.op[p] = Unplanned
    BY <1>6, <1>7 DEF PlansOK
  <2>2. /\ roll.op[p].kind = "none" => roll.op[p] = Unplanned
        /\ Raises(roll.op[p])
    BY DEF BulkIInv
  <2>3. CASE p = o
    <3>1. SamePlan(after.op[p], roll.op[p]) /\ SamePlan(after.op[p], before.op[p])
      BY <1>2, <1>5, <1>7, <1>9, <2>3 DEF SamePlan
    <3>2. after.op[p].kind # "none" /\ Raises(after.op[p])
      BY <2>2, <2>3, <3>1 DEF SamePlan, Raises
    <3>3. QED
      BY <2>1, <2>2, <3>1, <3>2
  <2>4. CASE p # o
    <3>1. after.op[p] = before.op[p] /\ after.op[p] = mine.is.op[p]
      BY <1>2, <1>7, <1>8, <1>9, <2>4
    <3>2. Raises(after.op[p])
      BY <1>6, <3>1 DEF PlansOK
    <3>3. QED
      BY <2>1, <2>2, <3>1, <3>2 DEF SamePlan
  <2>5. QED
    BY <2>3, <2>4
<1>12. ASSUME NEW p \in Operations
       PROVE  /\ roll.op[p].kind # "none" => SamePlan(now.op[p], roll.op[p])
              /\ now.op[p].kind = roll.op[p].kind
              /\ now.op[p].kind = "none" => now.op[p] = Unplanned
              /\ Raises(now.op[p])
  <2>1. /\ roll.op[p].kind # "none" => SamePlan(now.op[p], roll.op[p])
        /\ now.op[p].kind # roll.op[p].kind => before.op[p].kind = "none" /\ after.op[p].kind # "none"
        /\ now.op[p].kind = "none" => now.op[p] = Unplanned
        /\ Raises(now.op[p])
    BY <1>4, <1>7, <1>9, <1>11, PlansKept
  <2>2. QED
    BY <1>11, <2>1 DEF SamePlan
<1>13. ASSUME NEW p \in Operations
       PROVE  now.op[p].status =
                IF after.op[p].status = before.op[p].status THEN roll.op[p].status ELSE after.op[p].status
  <2>1. now.op[p] = Run!MergedRow(before.op[p], after.op[p], roll.op[p])
    BY <1>4, <1>7, <1>9, MergedPlan
  <2>2. DOMAIN roll.op[p] = {"kind", "targets", "newRent", "failed", "status"}
    BY <1>4, RollColumns
  <2>3. QED
    BY <2>1, <2>2 DEF Run!MergedRow
<1>14. ASSUME NEW p \in Operations PROVE now.op[p].status \in {roll.op[p].status, "RUNNING"}
  BY <1>2, <1>5, <1>7, <1>8, <1>9, <1>13
<1>15. ASSUME mine.seen = roll PROVE now.op[o].status \in {"PREVIEWED", "RUNNING"}
  BY <1>2, <1>14, <1>15
<1>16. QED
  BY <1>2, <1>3, <1>10, <1>12, <1>14, <1>15 DEF mine

LEMMA DispatchesKeeps ==
    ASSUME BulkIInv, NEW c \in Officers, NEW o \in Operations, NEW t \in Lets,
           NEW row \in LetRow, Dispatches(c, o, t, row), roll.op[o].kind = "GENERATE_INVOICES", SaysMore
    PROVE  BulkIInv'
<1> DEFINE mine == officer[c]
           failed == mine.is.op[o].failed
           rest == mine.rest \ {<<o, t>>}
<1>1. PICK now, seen :
        /\ now = roll' /\ seen \in {mine.seen, now} /\ (mine.seen # roll => seen = mine.seen)
        /\ officer' = [officer EXCEPT ![c] =
                [at |-> "ready", seen |-> seen, was |-> now,
                 is |-> [now EXCEPT !.op[o] = Outcome(now.op[o], failed)], rest |-> rest]]
  BY DEF Dispatches
<1>2. /\ now \in RollRows
      /\ \A p \in Operations :
            /\ roll.op[p].kind # "none" => SamePlan(now.op[p], roll.op[p])
            /\ now.op[p].kind = roll.op[p].kind
            /\ now.op[p].kind = "none" => now.op[p] = Unplanned
            /\ Raises(now.op[p])
      /\ mine.seen.op[o].status \in {"PREVIEWED", "RUNNING"}
      /\ mine.seen = roll => now.op[o].status \in {"PREVIEWED", "RUNNING"}
  BY <1>1, DispatchesStep
<1>3. mine.seen \in RollRows /\ mine.is.op[o] \in OpRow /\ rest \subseteq Rests
  <2>1. Runs(c, o)
    BY DEF Dispatches, Flushed
  <2>2. mine.seen \in RollRows /\ mine.is \in RollRows /\ mine.rest \in SUBSET Rests
    BY <2>1, InTheRun
  <2>3. QED
    BY <2>2, RollColumns
<1>4. failed \in SUBSET Lets
  BY <1>3 DEF OpRow
<1>5. seen \in RollRows /\ seen.op[o].status \in {"PREVIEWED", "RUNNING"}
  BY <1>1, <1>2, <1>3
<1>6. UNCHANGED <<ordered, period>>
  BY DEF Dispatches
<1> HIDE DEF mine, failed, rest
<1> DEFINE out == Outcome(now.op[o], failed)
           after == [now EXCEPT !.op[o] = out]
           w == [at |-> "ready", seen |-> seen, was |-> now, is |-> after, rest |-> rest]
<1>7. officer' = [officer EXCEPT ![c] = w]
  BY <1>1
<1>8. /\ out \in OpRow /\ SamePlan(out, now.op[o])
      /\ out.status \in Finished /\ out.failed = failed
  <2>1. now.op[o] \in OpRow
    BY <1>2, RollColumns
  <2>2. QED
    BY <1>4, <2>1, OutcomeKeepsThePlan
<1> HIDE DEF out
<1>9. after \in RollRows /\ after.op[o] = out /\ \A p \in Operations : p # o => after.op[p] = now.op[p]
  BY <1>2, <1>8, OtherOp
<1> HIDE DEF after
<1>10. /\ w.at = "ready" /\ w.seen = seen /\ w.was = now /\ w.is = after /\ w.rest = rest
       /\ w = [at |-> "ready", seen |-> w.seen, was |-> w.was, is |-> w.is, rest |-> w.rest]
  OBVIOUS
<1> HIDE DEF w
<1>11. /\ \A p \in Operations : SamePlan(w.is.op[p], w.was.op[p]) /\ Raises(w.is.op[p])
       /\ \A p \in Operations : p # o => w.is.op[p] = w.was.op[p]
       /\ w.is.op[o].kind = "GENERATE_INVOICES"
  <2>1. w.is.op[o].kind = "GENERATE_INVOICES"
    BY <1>2, <1>8, <1>9, <1>10 DEF SamePlan
  <2>2. \A p \in Operations : p # o => w.is.op[p] = w.was.op[p]
    BY <1>9, <1>10
  <2>3. \A p \in Operations : SamePlan(w.is.op[p], w.was.op[p])
    BY <1>8, <1>9, <1>10 DEF SamePlan
  <2>4. \A p \in Operations : Raises(w.is.op[p])
    BY <1>2, <1>10, <2>1, <2>2 DEF Raises
  <2>5. QED
    BY <2>1, <2>2, <2>3, <2>4
<1>12. PlansOK(w, now)
  <2>1. \A p \in Operations :
            /\ SamePlan(w.was.op[p], now.op[p])
            /\ w.was.op[p].kind = "none" => w.was.op[p] = Unplanned
    BY <1>2, <1>10 DEF SamePlan
  <2>2. \A p \in Operations : w.is.op[p] # w.was.op[p] => w.is.op[p].kind # "none"
    BY <1>11
  <2>3. QED
    BY <1>11, <2>1, <2>2 DEF PlansOK
<1>13. \A p \in Operations : RunOK(w, p, told', heard', undelivered')
  BY <1>5, <1>10, <1>11 DEF RunOK, HasHeard
<1>14. OfficerOK(w, roll', told', heard', undelivered')
  BY <1>1, <1>2, <1>3, <1>5, <1>9, <1>10, <1>12, <1>13 DEF OfficerOK
<1>15. \A p \in Operations : ~Previews(w, p)
  BY <1>11 DEF Previews, SamePlan
<1>16. period' \in Periods /\ ordered' \in 0 .. MaxRuns
  BY <1>6 DEF BulkIInv
<1>17. /\ roll' \in RollRows
       /\ \A p \in Operations :
            /\ roll.op[p].kind # "none" => SamePlan(roll'.op[p], roll.op[p])
            /\ roll'.op[p].kind = roll.op[p].kind
            /\ roll'.op[p].kind = "none" => roll'.op[p] = Unplanned
            /\ Raises(roll'.op[p])
  BY <1>1, <1>2
<1>18. \A p \in Operations :
        /\ roll.op[p].kind # "none" => SamePlan(roll'.op[p], roll.op[p])
        /\ roll'.op[p].kind # roll.op[p].kind => Previews(officer[c], p)
        /\ roll'.op[p].kind = "none" => roll'.op[p] = Unplanned
        /\ Raises(roll'.op[p])
        /\ Previews(w, p) => Previews(officer[c], p) \/ \A d \in Officers : ~Previews(officer[d], p)
  BY <1>15, <1>17
<1>19. roll' \in RollRows
  BY <1>17
<1>20. QED
  BY <1>7, <1>14, <1>16, <1>18, <1>19, OneSession

LEMMA InvoiceNowKeeps ==
    ASSUME BulkIInv, NEW c \in Officers, NEW o \in Operations, NEW t \in Lets, InvoiceNow(c, o, t)
    PROVE  BulkIInv'
<1>1. /\ roll.op[o].kind = "GENERATE_INVOICES"
      /\ Says(<<o, t>>) \/ Unsaid
      /\ \/ Comes(c, o, t, roll.let[t], TRUE)
         \/ Comes(c, o, t, Billed(roll.let[t]), FALSE)
         \/ Comes(c, o, t, Billed(roll.let[t]), TRUE)
         \/ Dispatches(c, o, t, Billed(roll.let[t]))
  BY DEF InvoiceNow
<1>2. SaysMore
  BY <1>1, SilenceSaysMore, SayingSaysMore DEF Unsaid
<1>3. roll.let[t] \in LetRow /\ Billed(roll.let[t]) \in LetRow
  BY LetOfRoll, BilledRow
<1>4. CASE Comes(c, o, t, roll.let[t], TRUE)
  BY <1>1, <1>2, <1>3, <1>4, ComesKeeps
<1>5. CASE Comes(c, o, t, Billed(roll.let[t]), FALSE)
  BY <1>1, <1>2, <1>3, <1>5, ComesKeeps
<1>6. CASE Comes(c, o, t, Billed(roll.let[t]), TRUE)
  BY <1>1, <1>2, <1>3, <1>6, ComesKeeps
<1>7. CASE Dispatches(c, o, t, Billed(roll.let[t]))
  BY <1>1, <1>2, <1>3, <1>7, DispatchesKeeps
<1>8. QED
  BY <1>1, <1>4, <1>5, <1>6, <1>7

-----------------------------------------------------------------------------
(* Commits and the rest *)

LEMMA SaveBulkKeeps ==
    ASSUME BulkIInv, NEW c \in Officers, SaveBulk(c)
    PROVE  BulkIInv'
<1> DEFINE mine == officer[c]
           w == IF mine.rest = {} THEN Run!Idle
                ELSE Run!Between(IF mine.seen = roll THEN roll' ELSE mine.seen, mine.rest)
<1>1. /\ mine.at = "ready" /\ roll' = Run!Merged(mine.was, mine.is, roll)
      /\ officer' = [officer EXCEPT ![c] = w]
      /\ UNCHANGED <<ordered, period, told, heard, undelivered>>
  BY DEF SaveBulk, Run!Saves, NothingSaid, Unsaid
<1>2. /\ mine.seen \in RollRows /\ mine.was \in RollRows /\ mine.is \in RollRows
      /\ mine.rest \in SUBSET Rests
      /\ PlansOK(mine, roll)
  BY <1>1, OfficerRows
<1>3. roll \in RollRows
  BY DEF BulkIInv
<1>4. roll' \in RollRows
  BY <1>1, <1>2, <1>3, MergedRoll
<1>5. ASSUME NEW o \in Operations
      PROVE  /\ roll.op[o].kind # "none" => SamePlan(roll'.op[o], roll.op[o])
             /\ roll'.op[o].kind # roll.op[o].kind => Previews(mine, o)
             /\ roll'.op[o].kind = "none" => roll'.op[o] = Unplanned
             /\ Raises(roll'.op[o])
  <2>1. /\ mine.was.op[o].kind # "none" => SamePlan(mine.was.op[o], roll.op[o])
        /\ mine.was.op[o].kind = "none" => mine.was.op[o] = Unplanned
        /\ mine.is.op[o] # mine.was.op[o] => mine.is.op[o].kind # "none"
        /\ Raises(mine.is.op[o])
        /\ \/ SamePlan(mine.is.op[o], mine.was.op[o])
           \/ mine.was.op[o].kind = "none" /\ roll.op[o].kind = "none"
    BY <1>2 DEF PlansOK
  <2>2. Raises(roll.op[o]) /\ (roll.op[o].kind = "none" => roll.op[o] = Unplanned)
    BY DEF BulkIInv
  <2> HIDE DEF mine
  <2>3. /\ roll.op[o].kind # "none" => SamePlan(Run!Merged(mine.was, mine.is, roll).op[o], roll.op[o])
        /\ Run!Merged(mine.was, mine.is, roll).op[o].kind # roll.op[o].kind =>
                mine.was.op[o].kind = "none" /\ mine.is.op[o].kind # "none"
        /\ Run!Merged(mine.was, mine.is, roll).op[o].kind = "none" =>
                Run!Merged(mine.was, mine.is, roll).op[o] = Unplanned
        /\ Raises(Run!Merged(mine.was, mine.is, roll).op[o])
    BY <1>2, <1>3, <2>1, <2>2, PlansKept
  <2>4. QED
    BY <1>1, <2>3 DEF Previews
<1>6. OfficerOK(w, roll', told', heard', undelivered') /\ \A o \in Operations : ~Previews(w, o)
  BY <1>2, <1>4, BetweenKeeps
<1>7. SaysMore /\ period' \in Periods /\ ordered' \in 0 .. MaxRuns
  BY <1>1, SilenceSaysMore DEF BulkIInv
<1> HIDE DEF w
<1>8. \A o \in Operations :
        /\ roll.op[o].kind # "none" => SamePlan(roll'.op[o], roll.op[o])
        /\ roll'.op[o].kind # roll.op[o].kind => Previews(officer[c], o)
        /\ roll'.op[o].kind = "none" => roll'.op[o] = Unplanned
        /\ Raises(roll'.op[o])
        /\ Previews(w, o) => Previews(officer[c], o) \/ \A d \in Officers : ~Previews(officer[d], o)
  BY <1>5, <1>6
<1> HIDE DEF mine
<1>9. QED
  BY <1>1, <1>4, <1>6, <1>7, <1>8, OneSession

LEMMA DropBulkKeeps ==
    ASSUME BulkIInv, NEW c \in Officers, DropBulk(c)
    PROVE  BulkIInv'
<1>1. /\ officer' = [officer EXCEPT ![c] = Run!Idle]
      /\ UNCHANGED <<roll, ordered, period, told, heard, undelivered>>
  BY DEF DropBulk, Run!Drops, NothingSaid, Unsaid
<1>2. OfficerOK(Run!Idle, roll, told', heard', undelivered') /\ \A o \in Operations : ~Previews(Run!Idle, o)
  BY DEF OfficerOK, Previews, Run!Idle
<1>3. SaysMore /\ period' \in Periods /\ ordered' \in 0 .. MaxRuns
  BY <1>1, SilenceSaysMore DEF BulkIInv
<1>4. QED
  BY <1>1, <1>2, <1>3, NoCommit

LEMMA BulkUnchanged ==
    ASSUME BulkIInv, period' \in Periods, UNCHANGED <<roll, officer, ordered, told, heard, undelivered>>
    PROVE  BulkIInv'
<1>1. /\ ordered' \in 0 .. MaxRuns /\ roll' \in RollRows /\ officer' = [c \in Officers |-> officer'[c]]
      /\ told' \in [Tellings -> Nat] /\ heard' \in [Operations \X Lets -> 0 .. HighestRent]
      /\ undelivered' \subseteq Operations \X Lets
  BY DEF BulkIInv
<1>2. \A o \in Operations :
        /\ roll'.op[o].kind = "none" => roll'.op[o] = Unplanned
        /\ Raises(roll'.op[o])
  BY DEF BulkIInv
<1>3. \A c \in Officers : OfficerOK(officer'[c], roll', told', heard', undelivered')
  BY DEF BulkIInv
<1>4. \A c, d \in Officers, o \in Operations :
        Previews(officer'[c], o) /\ Previews(officer'[d], o) => c = d
  BY DEF BulkIInv
<1>5. QED
  BY <1>1, <1>2, <1>3, <1>4 DEF BulkIInv, Previews, Raises, Unplanned

LEMMA BulkInitially ==
    ASSUME BulkInit
    PROVE  BulkIInv
<1> DEFINE row == Unplanned
<1>1. NewLet \in LetRow
  <2>1. 0 \in 0 .. LastPeriod
    BY BulkBounds
  <2>2. QED
    BY <2>1, BulkBounds DEF NewLet, LetRow
<1>2. Unplanned \in OpRow /\ Unplanned.kind = "none"
  <2>1. 0 \in 0 .. HighestRent
    BY BulkBounds
  <2>2. QED
    BY <2>1 DEF Unplanned, OpRow
<1>3. /\ roll \in RollRows
      /\ \A o \in Operations : roll.op[o] = Unplanned
  BY <1>1, <1>2 DEF BulkInit, RollRows
<1>4. \A o \in Operations :
        /\ roll.op[o].kind = "none" => roll.op[o] = Unplanned
        /\ Raises(roll.op[o])
  BY <1>2, <1>3 DEF Raises
<1>5. /\ officer = [c \in Officers |-> officer[c]]
      /\ \A c \in Officers : officer[c].at = "idle"
  BY DEF BulkInit, Run!Idle
<1>6. period \in Periods /\ ordered \in 0 .. MaxRuns
  <2>1. LastPeriod > 0
    BY BulkAssumption
  <2>2. QED
    BY <2>1, BulkBounds DEF BulkInit, Periods
<1>7. /\ told \in [Tellings -> Nat] /\ heard \in [Operations \X Lets -> 0 .. HighestRent]
      /\ undelivered \subseteq Operations \X Lets
  BY BulkBounds DEF BulkInit
<1>8. \A c \in Officers : OfficerOK(officer[c], roll, told, heard, undelivered)
  BY <1>5 DEF OfficerOK
<1>9. \A c, d \in Officers, o \in Operations :
        Previews(officer[c], o) /\ Previews(officer[d], o) => c = d
  BY <1>5 DEF Previews
<1>10. QED
  BY <1>3, <1>4, <1>5, <1>6, <1>7, <1>8, <1>9 DEF BulkIInv

LEMMA ComingsKeep ==
    ASSUME BulkIInv, NEW c \in Officers, Comings(c)
    PROVE  BulkIInv'
BY ExecuteKeeps, FlushRunKeeps, CancelKeeps, PreviewBulkKeeps, RaiseRentKeeps, RemindKeeps, AnnounceKeeps,
   InvoiceNowKeeps DEF Comings

LEMMA DemandsKeep ==
    ASSUME BulkIInv, NEW c \in Officers, Demands(c)
    PROVE  BulkIInv'
BY StartDemandsKeeps, LoseDemandKeeps, DemandByHandKeeps, SendDemandKeeps, SkipDemandKeeps DEF Demands

LEMMA OthersKeepBulk ==
    ASSUME BulkIInv, NEW c \in Officers, Others(c)
    PROVE  BulkIInv'
BY SaveBulkKeeps, DropBulkKeeps, DailyInvoicesKeep, PayKeeps DEF Others

LEMMA RentsByHandKeep ==
    ASSUME BulkIInv, NEW c \in Officers, RentsByHand(c)
    PROVE  BulkIInv'
BY SetRentKeeps DEF RentsByHand

LEMMA BulkInvariance == BulkSpec => []BulkIInv
<1>1. BulkInit => BulkIInv
  BY BulkInitially
<1>2. BulkIInv /\ [BulkNext]_bulkVars => BulkIInv'
  <2> SUFFICES ASSUME BulkIInv, [BulkNext]_bulkVars PROVE BulkIInv'
    OBVIOUS
  <2>1. CASE NextPeriod
    <3>1. period' \in Periods
      <4>1. period \in Periods /\ period < LastPeriod /\ period' = period + 1
        BY <2>1 DEF NextPeriod, BulkIInv
      <4>2. QED
        BY <4>1, BulkBounds DEF Periods
    <3>2. UNCHANGED <<roll, officer, ordered, told, heard, undelivered>>
      BY <2>1 DEF NextPeriod, Unsaid
    <3>3. QED
      BY <3>1, <3>2, BulkUnchanged
  <2>2. CASE \E c \in Officers : Comings(c) \/ RentsByHand(c) \/ Demands(c) \/ Others(c)
    BY <2>2, ComingsKeep, RentsByHandKeep, DemandsKeep, OthersKeepBulk
  <2>3. CASE UNCHANGED bulkVars
    <3>1. period' \in Periods /\ UNCHANGED <<roll, officer, ordered, told, heard, undelivered>>
      BY <2>3 DEF bulkVars, BulkIInv
    <3>2. QED
      BY <3>1, BulkUnchanged
  <2>4. QED
    BY <2>1, <2>2, <2>3 DEF BulkNext, OperationsNext, DemandsNext
<1>3. QED
  BY <1>1, <1>2, PTL DEF BulkSpec

LEMMA RollRowsAreRolls ==
    ASSUME NEW rows \in RollRows
    PROVE  IsRoll(rows)
BY DEF RollRows, LetRow, OpRow, IsRoll

(* The rows and sessions of bulk_service.py and demand_letter_service.py keep
   their types, however requests and tasks overlap. *)
THEOREM BulkIsWellTyped == BulkSpec => []BulkTypeOK
<1>1. ASSUME BulkIInv PROVE BulkTypeOK
  <2>1. ASSUME NEW c \in Officers PROVE Run!IsWork(officer[c], IsRoll, Rests)
    <3>1. OfficerOK(officer[c], roll, told, heard, undelivered)
      BY <1>1 DEF BulkIInv
    <3>2. CASE officer[c].at = "idle"
      BY <3>2 DEF Run!IsWork
    <3>3. CASE officer[c].at = "between" /\ officer[c].seen \in RollRows /\ officer[c].rest \subseteq Rests
      <4>1. IsRoll(officer[c].seen)
        BY <3>3, RollRowsAreRolls
      <4>2. QED
        BY <3>3, <4>1 DEF Run!IsWork
    <3>4. CASE /\ officer[c].at = "ready" /\ officer[c].rest \subseteq Rests
               /\ {officer[c].seen, officer[c].was, officer[c].is} \subseteq RollRows
      <4>1. IsRoll(officer[c].seen) /\ IsRoll(officer[c].was) /\ IsRoll(officer[c].is)
        BY <3>4, RollRowsAreRolls
      <4>2. QED
        BY <3>4, <4>1 DEF Run!IsWork
    <3>5. QED
      BY <3>1, <3>2, <3>3, <3>4 DEF OfficerOK
  <2>2. IsRoll(roll)
    BY <1>1, RollRowsAreRolls DEF BulkIInv
  <2>3. QED
    BY <1>1, <2>1, <2>2 DEF BulkTypeOK, BulkIInv
<1>2. QED
  BY <1>1, BulkInvariance, PTL

-----------------------------------------------------------------------------
(* What tenants hear *)

(* a run that is not outdated goes by an operation that waits for it *)
LEMMA RunIsUnderway ==
    ASSUME BulkIInv, NEW c \in Officers, NEW o \in Operations, Runs(c, o),
           officer'[c] # officer[c], ~Outdated(c)
    PROVE  Underway(o)
<1>1. officer[c].at = "ready"
  BY DEF Runs
<1>2. officer[c].seen = roll
  BY <1>1 DEF Outdated
<1>3. officer[c].seen.op[o].status \in {"PREVIEWED", "RUNNING"}
  BY InTheRun
<1>4. QED
  BY <1>2, <1>3 DEF Underway

(* Who is told: by a run, or by a demand that is issued by hand or not on file. *)
Speaks ==
    \/ UNCHANGED told
    \/ \E c \in Officers, o \in Operations, t \in Lets :
            /\ Runs(c, o) /\ officer'[c] # officer[c]
            /\ Delivers(<<o, t>>)
    \/ \E t \in Lets, label \in Labels :
            /\ Delivers(<<label, t>>)
            /\ label \in roll.let[t].filed => ordered' # ordered

(* a run that comes to a target has one target less to come to *)
LEMMA ComingMoves ==
    ASSUME BulkIInv, NEW c \in Officers, NEW o \in Operations, NEW t \in Lets, NEW row, NEW ok,
           Comes(c, o, t, row, ok) \/ Dispatches(c, o, t, row)
    PROVE  Runs(c, o) /\ officer'[c] # officer[c]
<1>1. Runs(c, o) /\ <<o, t>> \in officer[c].rest /\ officer'[c].rest = officer[c].rest \ {<<o, t>>}
  <2>1. officer = [d \in Officers |-> officer[d]]
    BY DEF BulkIInv
  <2>2. \E seen, was, is : officer' = [officer EXCEPT ![c] =
                [at |-> "ready", seen |-> seen, was |-> was, is |-> is,
                 rest |-> officer[c].rest \ {<<o, t>>}]]
    BY Zenon DEF Comes, Dispatches
  <2>3. Runs(c, o) /\ <<o, t>> \in officer[c].rest
    BY DEF Comes, Dispatches, Flushed
  <2>4. officer'[c].rest = officer[c].rest \ {<<o, t>>}
    BY <2>1, <2>2
  <2>5. QED
    BY <2>3, <2>4
<1>2. QED
  BY <1>1

LEMMA BulkSpeaks ==
    ASSUME BulkIInv, [BulkNext]_bulkVars
    PROVE  Speaks
<1>1. CASE UNCHANGED told
  BY <1>1 DEF Speaks
<1>2. ASSUME NEW c \in Officers, NEW o \in Operations, NEW t \in Lets,
             RaiseRent(c, o, t) \/ Remind(c, o, t) \/ Announce(c, o, t) \/ InvoiceNow(c, o, t)
      PROVE  Speaks
  <2>1. UNCHANGED told \/ Delivers(<<o, t>>)
    BY <1>2 DEF RaiseRent, Remind, Announce, InvoiceNow, Says, SaysRent, FailsToDeliver, Unsaid
  <2>2. \E row, ok : Comes(c, o, t, row, ok) \/ Dispatches(c, o, t, row)
    BY <1>2 DEF RaiseRent, Remind, Announce, InvoiceNow
  <2>3. Runs(c, o) /\ officer'[c] # officer[c]
    BY <2>2, ComingMoves
  <2>4. QED
    BY <2>1, <2>3 DEF Speaks
<1>3. ASSUME NEW c \in Officers, NEW t \in Lets, DemandByHand(c, t) \/ SendDemand(c, t)
      PROVE  Speaks
  <2>1. Label(t) \in Labels /\ (UNCHANGED told \/ Delivers(<<Label(t), t>>))
    BY <1>3 DEF DemandByHand, SendDemand, SaysDemand, Unsaid, Label, Labels
  <2>2. Label(t) \in roll.let[t].filed => ordered' # ordered
    <3>1. CASE DemandByHand(c, t)
      <4>1. ordered' = ordered + 1 /\ ordered \in 0 .. MaxRuns
        BY <3>1 DEF DemandByHand, Run!Begins, BulkIInv
      <4>2. QED
        BY <4>1
    <3>2. CASE SendDemand(c, t)
      BY <3>2 DEF SendDemand, Filed
    <3>3. QED
      BY <1>3, <3>1, <3>2
  <2>3. QED
    BY <2>1, <2>2 DEF Speaks
<1>4. ASSUME NEW c \in Officers, Comings(c) PROVE Speaks
  BY <1>1, <1>2, <1>4 DEF Comings, Execute, FlushRun, Cancel, Preview, NothingSaid, Unsaid
<1>5. ASSUME NEW c \in Officers, Demands(c) PROVE Speaks
  BY <1>1, <1>3, <1>5 DEF Demands, StartDemands, LoseDemand, SkipDemand, NothingSaid, Unsaid
<1>6. ASSUME NEW c \in Officers, Others(c) \/ RentsByHand(c) PROVE Speaks
  BY <1>1, <1>6 DEF Others, RentsByHand, SaveBulk, DropBulk, DailyInvoices, Pay, SetRent, NothingSaid, Unsaid
<1>7. CASE NextPeriod \/ UNCHANGED bulkVars
  BY <1>1, <1>7 DEF NextPeriod, Unsaid, bulkVars
<1>8. QED
  BY <1>4, <1>5, <1>6, <1>7 DEF BulkNext, OperationsNext, DemandsNext

(* only a commit of its run concludes an operation *)
LEMMA OnlySavesConclude ==
    ASSUME BulkIInv, [BulkNext]_bulkVars, NEW o \in Operations, Concludes(o)
    PROVE  \E c \in Officers : SaveBulk(c)
<1> SUFFICES ASSUME \A c \in Officers : ~SaveBulk(c) PROVE FALSE
  OBVIOUS
<1>1. /\ roll.op[o].status \in {"PREVIEWED", "RUNNING"} /\ roll'.op[o].status \in Finished
      /\ roll' # roll
  BY DEF Concludes, Underway, Finished
<1>2. ASSUME NEW c \in Officers, NEW p \in Operations, NEW t \in Lets, InvoiceNow(c, p, t)
      PROVE  FALSE
  <2>1. CASE Dispatches(c, p, t, Billed(roll.let[t]))
    <3>1. roll.op[p].kind = "GENERATE_INVOICES" /\ Billed(roll.let[t]) \in LetRow
      BY <1>2, LetOfRoll, BilledRow DEF InvoiceNow
    <3>2. roll'.op[o].status \in {roll.op[o].status, "RUNNING"}
      BY <2>1, <3>1, DispatchesStep
    <3>3. QED
      BY <1>1, <3>2 DEF Finished
  <2>2. CASE roll' = roll
    BY <1>1, <2>2
  <2>3. QED
    BY <1>2, <2>1, <2>2 DEF InvoiceNow, Comes
<1>3. ASSUME NEW c \in Officers, Comings(c) PROVE FALSE
  <2>1. CASE \E p \in Operations, t \in Lets : InvoiceNow(c, p, t)
    BY <1>2, <2>1
  <2>2. CASE \E p \in Operations, t \in Lets : RaiseRent(c, p, t) \/ Remind(c, p, t) \/ Announce(c, p, t)
    BY <1>1, <2>2 DEF RaiseRent, Remind, Announce, Comes
  <2>3. CASE \E p \in Operations : Execute(c, p) \/ FlushRun(c, p) \/ Cancel(c, p)
                \/ \E kind \in Kinds : Preview(c, p, kind)
    BY <1>1, <2>3 DEF Execute, FlushRun, Cancel, Preview, Run!Prepares, Run!PreparesOne
  <2>4. QED
    BY <1>3, <2>1, <2>2, <2>3 DEF Comings
<1>4. ASSUME NEW c \in Officers, Demands(c) PROVE FALSE
  BY <1>1, <1>4 DEF Demands, StartDemands, LoseDemand, SkipDemand, DemandByHand, SendDemand,
                    Run!Starts, Run!Steps, Run!Continues
<1>5. ASSUME NEW c \in Officers, Others(c) \/ RentsByHand(c) PROVE FALSE
  BY <1>1, <1>5 DEF Others, RentsByHand, DropBulk, DailyInvoices, Pay, SetRent, Run!Drops,
                    Run!Prepares, Run!PreparesOne
<1>6. CASE NextPeriod \/ UNCHANGED bulkVars
  BY <1>1, <1>6 DEF NextPeriod, bulkVars
<1>7. QED
  BY <1>3, <1>4, <1>5, <1>6 DEF BulkNext, OperationsNext, DemandsNext

LEMMA ConcludedRunWasHeard ==
    ASSUME BulkIInv, NEW c \in Officers, SaveBulk(c), ~Outdated(c), NEW o \in Operations, Concludes(o)
    PROVE  HeardOfIt(o)
<1> DEFINE mine == officer[c]
<1>1. /\ mine.at = "ready" /\ roll' = Run!Merged(mine.was, mine.is, roll)
      /\ mine.rest \subseteq {"demands"} \X Lets
      /\ officer'[c].at # "ready"
  BY DEF SaveBulk, Run!Saves, Run!Idle, Run!Between, BulkIInv
<1>2. mine.seen = roll /\ mine.was = roll
  BY <1>1 DEF Outdated
<1>3. mine.was \in RollRows /\ mine.is \in RollRows
  BY <1>1, OfficerRows
<1>4. roll' = mine.is
  BY <1>1, <1>2, <1>3, RunSavesWhatItPrepared
<1>5. Runs(c, o)
  BY <1>1, <1>2, <1>4 DEF Runs, Concludes, Underway, Finished
<1>6. /\ SamePlan(mine.is.op[o], mine.was.op[o])
      /\ \A t \in mine.is.op[o].targets :
            \/ <<o, t>> \in mine.rest \/ t \in mine.is.op[o].failed
            \/ HasHeard(mine, o, t, told, heard, undelivered)
  BY <1>5, InTheRun
<1>7. o # "demands"
  BY BulkAssumption
<1>8. ASSUME NEW t \in roll.op[o].targets \ roll'.op[o].failed
      PROVE  HasHeard(mine, o, t, told, heard, undelivered)
  BY <1>1, <1>2, <1>4, <1>6, <1>7 DEF SamePlan
<1> HIDE DEF mine
<1>9. QED
  BY <1>2, <1>4, <1>6, <1>8 DEF HeardOfIt, HasHeard, SamePlan

(* bulk_service.py:3-7 and :11-13, demand_letter_service.py:12-13.  Unless a
   session goes by rows that have changed, nobody is told of an operation that
   was cancelled or twice of one that is on record, except by a demand issued by
   hand, and every target of a committed run that is not among its failures was
   told, and of the rent that is now in force, unless his last message failed in
   delivery. *)
THEOREM BulkRunsAreHeardOnce == BulkSpec => TenantsHearOnceWhatIsDone
<1> DEFINE Step == \/ \E c \in Officers : Outdated(c)
                   \/ /\ ToldAgainForAReason
                      /\ ToldWhileUnderway
                      /\ \A o \in Operations : Concludes(o) => HeardOfIt(o)
<1>1. ASSUME BulkIInv, [BulkNext]_bulkVars PROVE Step
  <2> SUFFICES ASSUME \A c \in Officers : ~Outdated(c)
               PROVE  /\ ToldAgainForAReason
                      /\ ToldWhileUnderway
                      /\ \A o \in Operations : Concludes(o) => HeardOfIt(o)
    OBVIOUS
  <2>1. Speaks
    BY <1>1, BulkSpeaks
  <2>2. told \in [Tellings -> Nat]
    BY <1>1 DEF BulkIInv
  <2>3. Operations \cap Labels = {}
    BY BulkAssumption DEF Labels
  <2>4. ASSUME NEW k \in Operations \cup Labels, NEW t \in Lets, told'[<<k, t>>] # told[<<k, t>>]
        PROVE  \/ k \in Operations /\ Underway(k)
               \/ k \in Labels /\ (k \in roll.let[t].filed => ordered' # ordered)
    <3>1. ASSUME NEW x \in Tellings, Delivers(x) PROVE x = <<k, t>>
      BY <2>2, <2>4, <3>1 DEF Delivers
    <3>2. CASE \E c \in Officers, o \in Operations, x \in Lets :
                    Runs(c, o) /\ officer'[c] # officer[c] /\ Delivers(<<o, x>>)
      <4>1. PICK c \in Officers, o \in Operations, x \in Lets :
                    Runs(c, o) /\ officer'[c] # officer[c] /\ Delivers(<<o, x>>)
        BY <3>2
      <4>2. <<o, x>> \in Tellings
        BY DEF Tellings
      <4>3. <<o, x>> = <<k, t>>
        BY <3>1, <4>1, <4>2
      <4>4. Underway(o)
        BY <1>1, <4>1, RunIsUnderway
      <4>5. QED
        BY <4>3, <4>4
    <3>3. CASE \E x \in Lets, label \in Labels :
                    Delivers(<<label, x>>) /\ (label \in roll.let[x].filed => ordered' # ordered)
      <4>1. PICK x \in Lets, label \in Labels :
                    Delivers(<<label, x>>) /\ (label \in roll.let[x].filed => ordered' # ordered)
        BY <3>3
      <4>2. <<label, x>> \in Tellings
        BY DEF Tellings
      <4>3. <<label, x>> = <<k, t>>
        BY <3>1, <4>1, <4>2
      <4>4. QED
        BY <4>1, <4>3
    <3>4. QED
      BY <2>1, <2>4, <3>2, <3>3 DEF Speaks
  <2>5. ToldAgainForAReason
    BY <2>3, <2>4 DEF ToldAgainForAReason, OnRecord, Underway, Finished
  <2>6. ToldWhileUnderway
    BY <2>3, <2>4 DEF ToldWhileUnderway
  <2>7. ASSUME NEW o \in Operations, Concludes(o) PROVE HeardOfIt(o)
    <3>1. PICK c \in Officers : SaveBulk(c)
      BY <1>1, <2>7, OnlySavesConclude
    <3>2. QED
      BY <1>1, <2>7, <3>1, ConcludedRunWasHeard
  <2>8. QED
    BY <2>5, <2>6, <2>7
<1>2. BulkIInv /\ [BulkNext]_bulkVars => [Step]_bulkVars
  BY <1>1
<1>3. QED
  BY <1>2, BulkInvariance, PTL DEF BulkSpec, TenantsHearOnceWhatIsDone

-----------------------------------------------------------------------------
(* Breaches.  Its types, and that the alerts of a chase on record went out. *)

BreachRow ==
    [status : Steppable \cup {"none", "DETECTED"}, high : BOOLEAN, since : Days,
     key : Patterns \cup {"none"}, notified : BOOLEAN, chased : Thresholds \cup {0}]

RegisterRows == [breach : [Breaches -> BreachRow]]

(* the alerts of every chase on record went out *)
Tried(rows, chases) == \A b \in Breaches : rows.breach[b].chased \in chases[b] \cup {0}

(* what a request in flight holds in memory; more alerts may have gone out *)
WatchOK(w, chases) ==
    \/ w.at = "idle"
    \/ /\ w.at = "ready" /\ w.rest = {}
       /\ w.seen \in RegisterRows /\ w.was \in RegisterRows /\ w.is \in RegisterRows
       /\ Tried(w.is, chases)

BreachesIInv ==
    /\ day \in Days /\ steps \in 0 .. MaxSteps
    /\ register \in RegisterRows /\ Tried(register, tried)
    /\ watch = [c \in Watches |-> watch[c]]
    /\ \A c \in Watches : WatchOK(watch[c], tried)
    /\ tried \in [Breaches -> SUBSET Thresholds]

-----------------------------------------------------------------------------
LEMMA RegisterColumns ==
    ASSUME NEW rows \in RegisterRows
    PROVE  /\ DOMAIN rows = {"breach"} /\ rows.breach \in [Breaches -> BreachRow]
           /\ rows = [breach |-> rows.breach]
           /\ \A b \in Breaches : rows.breach[b] \in BreachRow
BY DEF RegisterRows

(* A commit leaves every column as the session or as the other sessions have it. *)
LEMMA MergedBreach ==
    ASSUME NEW was, NEW is \in BreachRow, NEW now \in BreachRow
    PROVE  LET row == Watch!MergedRow(was, is, now)
           IN  row \in BreachRow /\ row.chased \in {is.chased, now.chased}
<1> DEFINE r == Watch!MergedRow(was, is, now)
<1>1. r = [status |-> IF is.status = was.status THEN now.status ELSE is.status,
           high |-> IF is.high = was.high THEN now.high ELSE is.high,
           since |-> IF is.since = was.since THEN now.since ELSE is.since,
           key |-> IF is.key = was.key THEN now.key ELSE is.key,
           notified |-> IF is.notified = was.notified THEN now.notified ELSE is.notified,
           chased |-> IF is.chased = was.chased THEN now.chased ELSE is.chased]
  BY DEF BreachRow, Watch!MergedRow
<1>2. QED
  BY <1>1 DEF BreachRow

LEMMA MergedRegister ==
    ASSUME NEW was, NEW is \in RegisterRows, NEW now \in RegisterRows, NEW chases,
           Tried(is, chases), Tried(now, chases)
    PROVE  /\ Watch!Merged(was, is, now) \in RegisterRows
           /\ Tried(Watch!Merged(was, is, now), chases)
<1> DEFINE m == Watch!Merged(was, is, now)
           Row(b) == Watch!MergedRow(was.breach[b], is.breach[b], now.breach[b])
<1>1. m = [t \in {"breach"} |-> [b \in DOMAIN now[t] |->
                Watch!MergedRow(was[t][b], is[t][b], now[t][b])]]
  BY RegisterColumns DEF Watch!Merged
<1>2. m = [breach |-> [b \in Breaches |-> Row(b)]]
  BY <1>1, RegisterColumns
<1>3. ASSUME NEW b \in Breaches
      PROVE  Row(b) \in BreachRow /\ Row(b).chased \in chases[b] \cup {0}
  BY MergedBreach, RegisterColumns DEF Tried
<1> HIDE DEF m, Row
<1>4. QED
  BY <1>2, <1>3 DEF RegisterRows, Tried, m

-----------------------------------------------------------------------------
LEMMA BreachesStart == BreachesInit => BreachesIInv
<1> SUFFICES ASSUME BreachesInit PROVE BreachesIInv
  OBVIOUS
<1>1. day \in Days /\ steps \in 0 .. MaxSteps /\ Unknown \in BreachRow
  BY BreachesAssumption DEF BreachesInit, Days, Unknown, BreachRow
<1>2. register \in RegisterRows /\ Tried(register, tried)
  BY <1>1 DEF BreachesInit, RegisterRows, Tried, Unknown
<1>3. watch = [c \in Watches |-> watch[c]] /\ \A c \in Watches : WatchOK(watch[c], tried)
  BY DEF BreachesInit, WatchOK, Watch!Idle
<1>4. QED
  BY <1>1, <1>2, <1>3 DEF BreachesInit, BreachesIInv

(* A request that is prepared, after which more alerts may have gone out. *)
LEMMA WatchReadied ==
    ASSUME BreachesIInv, NEW c \in Watches, NEW new \in RegisterRows,
           watch' = [watch EXCEPT ![c] = Watch!Ready(register, new, {})],
           UNCHANGED <<day, register>>, steps' \in 0 .. MaxSteps,
           tried' \in [Breaches -> SUBSET Thresholds],
           \A b \in Breaches : tried[b] \subseteq tried'[b],
           Tried(new, tried')
    PROVE  BreachesIInv'
<1> DEFINE w == Watch!Ready(register, new, {})
<1>1. WatchOK(w, tried')
  BY DEF BreachesIInv, WatchOK, Watch!Ready
<1> HIDE DEF w
<1>2. ASSUME NEW rows, Tried(rows, tried) PROVE Tried(rows, tried')
  BY <1>2 DEF Tried
<1>3. \A d \in Watches : WatchOK(watch[d], tried')
  BY <1>2 DEF BreachesIInv, WatchOK
<1>4. watch' = [d \in Watches |-> watch'[d]] /\ \A d \in Watches : WatchOK(watch'[d], tried')
  BY <1>1, <1>3 DEF BreachesIInv, w
<1>5. register' \in RegisterRows /\ Tried(register', tried')
  BY <1>2 DEF BreachesIInv
<1>6. QED
  BY <1>4, <1>5 DEF BreachesIInv

LEMMA WatchPrepares ==
    ASSUME BreachesIInv, NEW c \in Watches, NEW row \in [Breaches -> BreachRow],
           Watch!Prepares(c, [register EXCEPT !.breach = row]), Silent,
           \A b \in Breaches : row[b].chased \in tried[b] \cup {0}
    PROVE  BreachesIInv'
<1> DEFINE new == [register EXCEPT !.breach = row]
<1>1. new = [breach |-> row]
  BY RegisterColumns DEF BreachesIInv
<1>2. new \in RegisterRows /\ Tried(new, tried)
  BY <1>1 DEF RegisterRows, Tried
<1>3. /\ watch' = [watch EXCEPT ![c] = Watch!Ready(register, new, {})]
      /\ steps < MaxSteps /\ steps' = steps + 1 /\ UNCHANGED <<day, register, tried>>
  BY DEF Watch!Prepares, Watch!PreparesOne, Watch!Begins, Silent
<1> HIDE DEF new
<1>4. steps' \in 0 .. MaxSteps
  BY <1>3, BreachesAssumption DEF BreachesIInv
<1>5. Tried(new, tried')
  BY <1>2, <1>3
<1>6. QED
  BY <1>2, <1>3, <1>4, <1>5, WatchReadied DEF BreachesIInv

LEMMA ReportKeeps ==
    ASSUME BreachesIInv, NEW c \in Watches, NEW b \in Breaches, NEW since \in 0 .. day,
           NEW high \in BOOLEAN, NEW key \in Patterns \cup {"none"},
           Report(c, b, since, high, key)
    PROVE  BreachesIInv'
<1> DEFINE new == [Unknown EXCEPT !.status = "DETECTED", !.high = high, !.since = since,
                                  !.key = key]
           row == [register.breach EXCEPT ![b] = new]
<1>1. since \in Days
  BY BreachesAssumption DEF BreachesIInv, Days
<1>2. new \in BreachRow /\ new.chased = 0
  BY <1>1 DEF Unknown, BreachRow
<1>3. [register EXCEPT !.breach[b] = new] = [register EXCEPT !.breach = row]
  BY DEF BreachesIInv, RegisterRows
<1>4. Watch!Prepares(c, [register EXCEPT !.breach[b] = new]) /\ Silent
  BY DEF Report
<1> HIDE DEF new
<1>5. row \in [Breaches -> BreachRow] /\ \A x \in Breaches : row[x].chased \in tried[x] \cup {0}
  BY <1>2, RegisterColumns DEF BreachesIInv, Tried
<1> HIDE DEF row
<1>6. Watch!Prepares(c, [register EXCEPT !.breach = row])
  BY <1>3, <1>4
<1>7. QED
  BY <1>4, <1>5, <1>6, WatchPrepares

LEMMA AdvanceKeeps ==
    ASSUME BreachesIInv, NEW c \in Watches, NEW b \in Breaches, NEW status \in Steppable,
           Advance(c, b, status)
    PROVE  BreachesIInv'
<1> DEFINE old == register.breach[b]
           new == [old EXCEPT !.status = status, !.notified = @ \/ status = "NOTIFIED"]
           row == [register.breach EXCEPT ![b] = new]
<1>1. old \in BreachRow /\ register.breach \in [Breaches -> BreachRow]
  BY RegisterColumns DEF BreachesIInv
<1>2. new \in BreachRow /\ new.chased = old.chased
  BY <1>1 DEF BreachRow
<1>3. [register EXCEPT !.breach[b].status = status,
                       !.breach[b].notified = @ \/ status = "NOTIFIED"] =
      [register EXCEPT !.breach = row]
  BY <1>1, RegisterColumns DEF BreachesIInv, BreachRow
<1>4. Watch!Prepares(c, [register EXCEPT !.breach[b].status = status,
                       !.breach[b].notified = @ \/ status = "NOTIFIED"]) /\ Silent
  BY DEF Advance
<1> HIDE DEF new
<1>5. row \in [Breaches -> BreachRow] /\ \A x \in Breaches : row[x].chased \in tried[x] \cup {0}
  BY <1>1, <1>2 DEF BreachesIInv, Tried
<1> HIDE DEF row
<1>6. Watch!Prepares(c, [register EXCEPT !.breach = row])
  BY <1>3, <1>4
<1>7. QED
  BY <1>4, <1>5, <1>6, WatchPrepares

LEMMA EscalateKeeps ==
    ASSUME BreachesIInv, NEW c \in Watches, Escalate(c)
    PROVE  BreachesIInv'
<1> DEFINE due == {b \in Breaches : Chasable(b)}
           row == [b \in Breaches |->
                [register.breach[b] EXCEPT !.chased = IF b \in due THEN Reached(b) ELSE @]]
           new == [register EXCEPT !.breach = row]
<1>1. /\ watch' = [watch EXCEPT ![c] = Watch!Ready(register, new, {})]
      /\ tried' = [b \in Breaches |->
                IF b \in due THEN tried[b] \cup {Reached(b)} ELSE tried[b]]
      /\ UNCHANGED <<day, register, steps>>
  BY DEF Escalate
<1>2. \A b \in due : Reached(b) \in Thresholds
  <2>1. SUFFICES ASSUME NEW b \in due PROVE Reached(b) \in Thresholds
    OBVIOUS
  <2>2. register.breach[b].chased \in {0, 2, 3} /\ register.breach[b].chased < Reached(b)
    BY RegisterColumns DEF BreachesIInv, BreachRow, Thresholds, Chasable
  <2>3. QED
    BY <2>2 DEF Reached, Thresholds
<1> HIDE DEF due
<1>3. /\ tried' \in [Breaches -> SUBSET Thresholds]
      /\ \A b \in Breaches : tried[b] \subseteq tried'[b]
  BY <1>1, <1>2 DEF BreachesIInv
<1>4. ASSUME NEW b \in Breaches
      PROVE  row[b] \in BreachRow /\ row[b].chased \in tried'[b] \cup {0}
  <2>1. register.breach[b] \in BreachRow /\ register.breach[b].chased \in tried[b] \cup {0}
    BY RegisterColumns DEF BreachesIInv, Tried
  <2>2. b \in due => Reached(b) \in Thresholds /\ Reached(b) \in tried'[b]
    BY <1>1, <1>2
  <2>3. row[b] = [register.breach[b] EXCEPT !.chased = IF b \in due THEN Reached(b) ELSE @]
    OBVIOUS
  <2> HIDE DEF row
  <2>4. QED
    BY <1>3, <2>1, <2>2, <2>3 DEF BreachRow
<1>5. row = [b \in Breaches |-> row[b]]
  OBVIOUS
<1> HIDE DEF row
<1>6. new = [breach |-> row]
  BY RegisterColumns DEF BreachesIInv
<1>7. new \in RegisterRows /\ Tried(new, tried')
  BY <1>4, <1>5, <1>6 DEF RegisterRows, Tried
<1> HIDE DEF new
<1>8. steps' \in 0 .. MaxSteps
  BY <1>1 DEF BreachesIInv
<1>9. QED
  BY <1>1, <1>3, <1>7, <1>8, WatchReadied

LEMMA SaveBreachKeeps ==
    ASSUME BreachesIInv, NEW c \in Watches, SaveBreach(c)
    PROVE  BreachesIInv'
<1>1. /\ watch[c].at = "ready" /\ register' = Watch!Merged(watch[c].was, watch[c].is, register)
      /\ UNCHANGED <<day, tried, steps>>
  BY DEF SaveBreach, Silent, Watch!Saves
<1>2. /\ watch[c].rest = {} /\ watch[c].is \in RegisterRows /\ Tried(watch[c].is, tried)
      /\ register \in RegisterRows /\ Tried(register, tried)
  BY <1>1 DEF BreachesIInv, WatchOK
<1>3. watch' = [watch EXCEPT ![c] = Watch!Idle]
  BY <1>2 DEF SaveBreach, Watch!Saves
<1>4. register' \in RegisterRows /\ Tried(register', tried)
  BY <1>1, <1>2, MergedRegister
<1>5. WatchOK(Watch!Idle, tried)
  BY DEF WatchOK, Watch!Idle
<1>6. watch' = [d \in Watches |-> watch'[d]] /\ \A d \in Watches : WatchOK(watch'[d], tried)
  BY <1>3, <1>5 DEF BreachesIInv
<1>7. QED
  BY <1>1, <1>4, <1>6 DEF BreachesIInv

LEMMA LoseBreachKeeps ==
    ASSUME BreachesIInv, NEW c \in Watches, LoseBreach(c)
    PROVE  BreachesIInv'
<1>1. watch' = [watch EXCEPT ![c] = Watch!Idle] /\ UNCHANGED <<day, register, steps, tried>>
  BY DEF LoseBreach, Silent, Watch!Drops
<1>2. WatchOK(Watch!Idle, tried)
  BY DEF WatchOK, Watch!Idle
<1>3. watch' = [d \in Watches |-> watch'[d]] /\ \A d \in Watches : WatchOK(watch'[d], tried)
  BY <1>1, <1>2 DEF BreachesIInv
<1>4. QED
  BY <1>1, <1>3 DEF BreachesIInv

LEMMA BreachesKeep == BreachesIInv /\ [BreachesNext]_breachesVars => BreachesIInv'
<1> SUFFICES ASSUME BreachesIInv, [BreachesNext]_breachesVars PROVE BreachesIInv'
  OBVIOUS
<1>1. CASE UNCHANGED breachesVars
  BY <1>1 DEF breachesVars, BreachesIInv
<1>2. CASE NextDay
  <2>1. day' \in Days /\ UNCHANGED <<register, watch, steps, tried>>
    BY <1>2, BreachesAssumption DEF NextDay, BreachesIInv, Days
  <2>2. QED
    BY <2>1 DEF BreachesIInv
<1>3. ASSUME NEW c \in Watches, Scan(c) PROVE BreachesIInv'
  <2>1. day \in 0 .. day
    BY BreachesAssumption DEF BreachesIInv, Days
  <2>2. QED
    BY <1>3, <2>1, ReportKeeps DEF Scan
<1>4. ASSUME NEW c \in Watches, NEW b \in Breaches, NEW since \in 0 .. day, NEW high \in BOOLEAN,
             Report(c, b, since, high, "none")
      PROVE  BreachesIInv'
  BY <1>4, ReportKeeps
<1>5. QED
  BY <1>1, <1>2, <1>3, <1>4, AdvanceKeeps, EscalateKeeps, SaveBreachKeeps, LoseBreachKeeps
     DEF BreachesNext

LEMMA BreachesAlways == BreachesSpec => []BreachesIInv
BY BreachesStart, BreachesKeep, PTL DEF BreachesSpec

(* breach_service.py: the register, the requests in flight and the chases have
   their types, whatever order commits come in. *)
THEOREM BreachesAreWellTyped == BreachesSpec => []BreachesTypeOK
<1>1. ASSUME NEW rows \in RegisterRows PROVE IsRegister(rows)
  BY DEF IsRegister, RegisterRows, BreachRow
<1>2. ASSUME NEW w, NEW chases, WatchOK(w, chases) PROVE Watch!IsWork(w, IsRegister, {})
  BY <1>1, <1>2 DEF WatchOK, Watch!IsWork
<1>3. BreachesIInv => BreachesTypeOK
  BY <1>1, <1>2 DEF BreachesIInv, BreachesTypeOK
<1>4. QED
  BY <1>3, BreachesAlways, PTL

(* the alerts of the threshold on record were sent, whatever became of them *)
ChasesOnRecordWereTried ==
    \A b \in Breaches : register.breach[b].chased # 0 =>
        register.breach[b].chased \in tried[b]

(* escalate_due_notifications writes to the staff before it commits: whatever
   transactions overlap or are rolled back, no breach is passed over for a chase
   whose alerts were never sent.  That they reached somebody is not said. *)
THEOREM RecordedChasesWereTried == BreachesSpec => []ChasesOnRecordWereTried
<1>1. BreachesIInv => ChasesOnRecordWereTried
  BY DEF BreachesIInv, Tried, ChasesOnRecordWereTried
<1>2. QED
  BY <1>1, BreachesAlways, PTL

-----------------------------------------------------------------------------
(* MCDesk: whichever scene is looked at, a step of the desk is a step of its component
   and changes nothing of another's, so that a behaviour of the desk is one of every
   component, its fairness included, and whatever is proved of a component holds of
   the desk. *)
THEOREM DeskImplementsItsComponents ==
    DeskSpec => TenanciesSpec /\ QueueSpec /\ BulkSpec /\ BreachesSpec /\ TeamSpec
<1> USE DEF DeskNext, DeskVars, OnlyTenancies, OnlyQueue, OnlyOperations, OnlyDemands,
            OnlyBreaches, OnlyTeam
<1>1. DeskInit => /\ TenanciesInit /\ QueueInit /\ BulkInit /\ BreachesInit
                  /\ TeamInit
  BY DEF DeskInit
<1>2. [DeskNext]_DeskVars => [TenanciesNext]_tenanciesVars
  OBVIOUS
<1>3. [DeskNext]_DeskVars => [QueueNext]_queueVars
  OBVIOUS
<1>4. [DeskNext]_DeskVars => [BulkNext]_bulkVars
  BY DEF BulkNext
<1>5. [DeskNext]_DeskVars => [BreachesNext]_breachesVars
  OBVIOUS
<1>6. [DeskNext]_DeskVars => [TeamNext]_teamVars
  OBVIOUS
<1>7. QED
  BY <1>1, <1>2, <1>3, <1>4, <1>5, <1>6, PTL
     DEF DeskSpec, TenanciesSpec, QueueSpec, BulkSpec, BreachesSpec, TeamSpec

(* MCDesk: in every scene the tables, the requests in flight, the messages and the
   counters of the component that is looked at have their types. *)
THEOREM DeskIsWellTyped == DeskSpec => []DeskTypeOK
<1>1. TenanciesTypeOK /\ QueueTypeOK /\ BulkTypeOK /\ BreachesTypeOK /\ TeamTypeOK => DeskTypeOK
  BY DEF DeskTypeOK
<1>2. QED
  BY <1>1, DeskImplementsItsComponents, TenanciesAreWellTyped, QueueIsWellTyped,
     BulkIsWellTyped, BreachesAreWellTyped, TeamIsWellTyped, PTL
=============================================================================
