---------------------------- MODULE BookingsProofs ----------------------------
(***************************************************************************)
(* What Bookings, Evidence and Applications guarantee for every number of  *)
(* things lent, of records, of applicants and of requests in flight, and   *)
(* however they overlap.                                                   *)
(*                                                                         *)
(* Bookings: its types, and that only a request which overlaps another     *)
(* lends a thing twice.  A request looks for a clash in the rows it reads, *)
(* so what it will write promises nothing twice that those rows did not;   *)
(* when they are still the committed rows at its commit, the commit writes *)
(* exactly what it prepared.                                               *)
(*                                                                         *)
(* Evidence: a held tenant or application is erased only by a request or a *)
(* sweep that looked before the hold was committed, and a record in use    *)
(* only by a sweep that listed it before.  The rows in memory erase no     *)
(* record of which the rows read in the same transaction show a hold, and  *)
(* a commit erases what the rows in memory erase and nothing else.         *)
(* The chain of hashes breaks only by a commit over rows that changed, the *)
(* removal of an author, or a row that is older than one chained before:   *)
(* a run carries the hash of the last row chained, in the rows it read and *)
(* then in its own loop, and rows, authors and members only move forward.  *)
(*                                                                         *)
(* Applications: its types, and that only requests that overlap leave the  *)
(* stored score of an open application behind its answers.  Every handler  *)
(* that moves an answer, or opens an application, scores it in the same    *)
(* rows, one applicant at a time; the sweep scores all it closes.          *)
(***************************************************************************)
EXTENDS Bookings, Evidence, Applications, SumsProofs, TLAPS

AssetRow == [status : {"AVAILABLE", "ON_HIRE", "MAINTENANCE", "RETIRED"}]

HireRow ==
    [asset : Assets \cup {NoKey}, from : 0 .. LastDate, to : 0 .. LastDate,
     status : {"none", "BOOKED", "OUT", "RETURNED", "CANCELLED"}]

StayRow ==
    [bay : Bays \cup {NoKey}, from : 0 .. LastDate, to : 0 .. LastDate,
     made : 0 .. LastDate, freed : BOOLEAN]

SlotRow ==
    [room : Rooms \cup {NoKey}, from : 0 .. LastDate, to : 0 .. LastDate,
     status : {"none", "CONFIRMED", "BLOCKED", "CANCELLED"}]

LentRows ==
    [asset : [Assets -> AssetRow], hire : [Hires -> HireRow],
     stay : [Stays -> StayRow], slot : [Evenings -> SlotRow]]

(* What is promised twice by given rows, on a given day. *)
HiredTwice(rows, g, h) ==
    /\ g # h /\ rows.hire[h].status \in Blocking
    /\ HiresClash(rows.hire[g], rows.hire[h].asset, rows.hire[h].from, rows.hire[h].to)

BookedTwice(rows, e, f) ==
    /\ e # f /\ rows.slot[f].status \in {"CONFIRMED", "BLOCKED"}
    /\ SlotsClash(rows.slot[e], rows.slot[f].room, rows.slot[f].from, rows.slot[f].to)

HoldsOn(s, b, day) == s.bay = b /\ ~s.freed /\ s.from <= day /\ day <= s.to

(* a holder of the bay on the day who was not given it ahead of the day *)
Parked(s, b, day) == s.bay # NoKey /\ HoldsOn(s, b, day) /\ s.from <= s.made

ParkedTwice(rows, s, t, day) ==
    /\ s # t
    /\ Parked(rows.stay[s], rows.stay[s].bay, day)
    /\ Parked(rows.stay[t], rows.stay[s].bay, day)

CalledFreeIn(rows, a) == rows.asset[a].status = "AVAILABLE" /\ OutNow(rows, a) # {}

(* What was read promises twice, at least, all that the rows in memory do, today
   and later; an asset they call free that is out had two hires out. *)
HiresNothingTwice(was, is) ==
    \A g, h \in Hires : HiredTwice(is, g, h) => HiredTwice(was, g, h)

BooksNothingTwice(was, is) ==
    \A e, f \in Evenings : BookedTwice(is, e, f) => BookedTwice(was, e, f)

ParksNobodyTwice(was, is, today) ==
    \A s, t \in Stays, day \in Dates :
        today <= day /\ ParkedTwice(is, s, t, day) => ParkedTwice(was, s, t, day)

CallsNothingFree(was, is) ==
    \A a \in Assets : CalledFreeIn(is, a) /\ ~CalledFreeIn(was, a) =>
        \E g, h \in OutNow(was, a) : g # h

LendsNothingTwice(was, is, today) ==
    /\ HiresNothingTwice(was, is) /\ BooksNothingTwice(was, is)
    /\ ParksNobodyTwice(was, is, today) /\ CallsNothingFree(was, is)

(* no allocation was made on a day to come *)
MadeBy(rows, today) == \A s \in Stays : rows.stay[s].made <= today

RowsOK(rows, today) == rows \in LentRows /\ MadeBy(rows, today)

(* a request in flight read what it looks at in one go *)
ServingOK(w, today) ==
    \/ w.at = "idle"
    \/ /\ w.at = "ready" /\ w.rest = {} /\ w.seen = w.was
       /\ RowsOK(w.was, today) /\ RowsOK(w.is, today)
       /\ LendsNothingTwice(w.was, w.is, today)

BookingsIInv ==
    /\ date \in Dates /\ served \in 0 .. MaxBookings
    /\ counter = [c \in Counters |-> counter[c]]
    /\ RowsOK(lent, date)
    /\ \A c \in Counters : ServingOK(counter[c], date)

-----------------------------------------------------------------------------
(* Rows and sessions *)

(* The tables, keys and columns of rows. *)
LEMMA Columns ==
    ASSUME NEW rows \in LentRows
    PROVE  /\ DOMAIN rows = {"asset", "hire", "stay", "slot"}
           /\ rows.asset \in [Assets -> AssetRow] /\ rows.hire \in [Hires -> HireRow]
           /\ rows.stay \in [Stays -> StayRow] /\ rows.slot \in [Evenings -> SlotRow]
           /\ \A t \in DOMAIN rows : \A k \in DOMAIN rows[t] :
                rows[t][k] = [c \in DOMAIN rows[t][k] |-> rows[t][k][c]]
           /\ \A a \in Assets : DOMAIN rows.asset[a] = {"status"}
           /\ \A h \in Hires : DOMAIN rows.hire[h] = {"asset", "from", "to", "status"}
           /\ \A s \in Stays : DOMAIN rows.stay[s] = {"bay", "from", "to", "made", "freed"}
           /\ \A e \in Evenings : DOMAIN rows.slot[e] = {"room", "from", "to", "status"}
BY DEF LentRows, AssetRow, HireRow, StayRow, SlotRow

(* A commit leaves every column as the session or as the other sessions have it. *)
LEMMA MergedHire ==
    ASSUME NEW was, NEW is \in HireRow, NEW now \in HireRow
    PROVE  Till!MergedRow(was, is, now) \in HireRow
<1> DEFINE r == Till!MergedRow(was, is, now)
<1>1. r = [asset |-> IF is.asset = was.asset THEN now.asset ELSE is.asset,
           from |-> IF is.from = was.from THEN now.from ELSE is.from,
           to |-> IF is.to = was.to THEN now.to ELSE is.to,
           status |-> IF is.status = was.status THEN now.status ELSE is.status]
  BY DEF HireRow, Till!MergedRow
<1>2. QED
  BY <1>1 DEF HireRow

LEMMA MergedStay ==
    ASSUME NEW was, NEW is \in StayRow, NEW now \in StayRow
    PROVE  /\ Till!MergedRow(was, is, now) \in StayRow
           /\ Till!MergedRow(was, is, now).made \in {is.made, now.made}
<1> DEFINE r == Till!MergedRow(was, is, now)
<1>1. r = [bay |-> IF is.bay = was.bay THEN now.bay ELSE is.bay,
           from |-> IF is.from = was.from THEN now.from ELSE is.from,
           to |-> IF is.to = was.to THEN now.to ELSE is.to,
           made |-> IF is.made = was.made THEN now.made ELSE is.made,
           freed |-> IF is.freed = was.freed THEN now.freed ELSE is.freed]
  BY DEF StayRow, Till!MergedRow
<1>2. QED
  BY <1>1 DEF StayRow

LEMMA MergedSlot ==
    ASSUME NEW was, NEW is \in SlotRow, NEW now \in SlotRow
    PROVE  Till!MergedRow(was, is, now) \in SlotRow
<1> DEFINE r == Till!MergedRow(was, is, now)
<1>1. r = [room |-> IF is.room = was.room THEN now.room ELSE is.room,
           from |-> IF is.from = was.from THEN now.from ELSE is.from,
           to |-> IF is.to = was.to THEN now.to ELSE is.to,
           status |-> IF is.status = was.status THEN now.status ELSE is.status]
  BY DEF SlotRow, Till!MergedRow
<1>2. QED
  BY <1>1 DEF SlotRow

LEMMA MergedColumns ==
    ASSUME NEW was, NEW is \in LentRows, NEW now \in LentRows
    PROVE  /\ Till!Merged(was, is, now) \in LentRows
           /\ \A s \in Stays :
                Till!Merged(was, is, now).stay[s].made \in {is.stay[s].made, now.stay[s].made}
<1> DEFINE m == Till!Merged(was, is, now)
           Row(t, k) == Till!MergedRow(was[t][k], is[t][k], now[t][k])
<1>1. m = [t \in {"asset", "hire", "stay", "slot"} |-> [k \in DOMAIN now[t] |-> Row(t, k)]]
  BY Columns DEF Till!Merged
<1>2. /\ m.asset = [a \in Assets |-> Row("asset", a)] /\ m.hire = [h \in Hires |-> Row("hire", h)]
      /\ m.stay = [s \in Stays |-> Row("stay", s)] /\ m.slot = [e \in Evenings |-> Row("slot", e)]
      /\ m = [asset |-> m.asset, hire |-> m.hire, stay |-> m.stay, slot |-> m.slot]
  BY <1>1, Columns
<1>3. \A a \in Assets : Row("asset", a) \in AssetRow
  BY Columns DEF AssetRow, Till!MergedRow
<1>4. \A h \in Hires : Row("hire", h) \in HireRow
  BY MergedHire, Columns
<1>5. \A s \in Stays : /\ Row("stay", s) \in StayRow
                       /\ Row("stay", s).made \in {is.stay[s].made, now.stay[s].made}
  BY MergedStay, Columns
<1>6. \A e \in Evenings : Row("slot", e) \in SlotRow
  BY MergedSlot, Columns
<1> HIDE DEF m, Row
<1>7. QED
  BY <1>2, <1>3, <1>4, <1>5, <1>6 DEF LentRows, m

(* A commit over the rows that were read writes what was prepared. *)
LEMMA SavesWhatItPrepared ==
    ASSUME NEW was \in LentRows, NEW is \in LentRows
    PROVE  Till!Merged(was, is, was) = is
<1>1. \A t \in DOMAIN was : DOMAIN is[t] = DOMAIN was[t]
  BY Columns
<1>2. \A t \in DOMAIN was : \A k \in DOMAIN was[t] : DOMAIN is[t][k] = DOMAIN was[t][k]
  BY Columns
<1>3. \A t \in DOMAIN was : \A k \in DOMAIN was[t] :
        Till!MergedRow(was[t][k], is[t][k], was[t][k]) = is[t][k]
  BY <1>1, <1>2, Columns DEF Till!MergedRow
<1>4. \A t \in DOMAIN is : is[t] = [k \in DOMAIN is[t] |-> is[t][k]]
  BY Columns
<1>5. is = [t \in DOMAIN is |-> is[t]]
  BY DEF LentRows
<1>6. QED
  BY <1>1, <1>3, <1>4, <1>5, Columns DEF Till!Merged

-----------------------------------------------------------------------------
(* What the handlers prepare *)

LEMMA UntouchedTables ==
    ASSUME NEW was, NEW is, NEW today
    PROVE  /\ is.hire = was.hire => HiresNothingTwice(was, is)
           /\ is.hire = was.hire /\ is.asset = was.asset => CallsNothingFree(was, is)
           /\ is.slot = was.slot => BooksNothingTwice(was, is)
           /\ is.stay = was.stay => ParksNobodyTwice(was, is, today)
<1>1. is.hire = was.hire => HiresNothingTwice(was, is)
  BY DEF HiresNothingTwice, HiredTwice
<1>2. is.hire = was.hire /\ is.asset = was.asset => CallsNothingFree(was, is)
  BY DEF CallsNothingFree, CalledFreeIn, OutNow
<1>3. is.slot = was.slot => BooksNothingTwice(was, is)
  BY DEF BooksNothingTwice, BookedTwice
<1>4. is.stay = was.stay => ParksNobodyTwice(was, is, today)
  BY DEF ParksNobodyTwice, ParkedTwice
<1>5. QED
  BY <1>1, <1>2, <1>3, <1>4

(* A hire that is booked after a look at the calendar overlaps no other. *)
LEMMA BookedHire ==
    ASSUME RowsOK(lent, date), NEW h \in Hires, NEW a \in Assets,
           NEW from \in Dates, NEW to \in from .. LastDate, FreeToHire(a, from, to)
    PROVE  LET new == [lent EXCEPT !.hire[h] =
                        [asset |-> a, from |-> from, to |-> to, status |-> "BOOKED"]]
           IN  RowsOK(new, date) /\ LendsNothingTwice(lent, new, date)
<1> DEFINE row == [asset |-> a, from |-> from, to |-> to, status |-> "BOOKED"]
           hire == [lent.hire EXCEPT ![h] = row]
           new == [lent EXCEPT !.hire = hire]
<1>1. row \in HireRow
  BY BookingsAssumption DEF HireRow, Dates
<1>2. /\ hire \in [Hires -> HireRow] /\ hire[h] = row
      /\ \A g \in Hires \ {h} : hire[g] = lent.hire[g]
  BY <1>1, Columns DEF RowsOK
<1>4. /\ new \in LentRows /\ new.hire = hire /\ new.asset = lent.asset
      /\ new.stay = lent.stay /\ new.slot = lent.slot
  <2>1. lent \in LentRows
    BY DEF RowsOK
  <2> HIDE DEF hire
  <2>2. QED
    BY <1>2, <2>1 DEF LentRows
<1> HIDE DEF hire
<1> HIDE DEF new
<1>5. HiresNothingTwice(lent, new)
  <2> SUFFICES ASSUME NEW g \in Hires, NEW k \in Hires, HiredTwice(new, g, k)
               PROVE  HiredTwice(lent, g, k)
    BY DEF HiresNothingTwice
  <2>1. k # h
    BY <1>2, <1>4 DEF FreeToHire, HiredTwice
  <2>2. g # h
    <3> SUFFICES ASSUME g = h PROVE FALSE
      OBVIOUS
    <3>1. /\ lent.hire[k].asset = a /\ lent.hire[k].status \in Blocking
          /\ from <= lent.hire[k].to /\ to >= lent.hire[k].from
      BY <1>2, <1>4, <2>1 DEF HiredTwice, HiresClash
    <3>2. /\ lent.hire[k].from \in Nat /\ lent.hire[k].to \in Nat
          /\ from \in Nat /\ to \in Nat
      BY Columns, BookingsAssumption DEF RowsOK, HireRow, Dates
    <3>3. HiresClash(lent.hire[k], a, from, to)
      BY <3>1, <3>2 DEF HiresClash
    <3>4. QED
      BY <3>3 DEF FreeToHire
  <2>3. QED
    BY <1>2, <1>4, <2>1, <2>2 DEF HiredTwice
<1>6. CallsNothingFree(lent, new)
  <2>1. \A x \in Assets : OutNow(new, x) \subseteq OutNow(lent, x)
    BY <1>2, <1>4 DEF OutNow
  <2>2. QED
    BY <1>4, <2>1 DEF CallsNothingFree, CalledFreeIn
<1>7. RowsOK(new, date) /\ LendsNothingTwice(lent, new, date)
  BY <1>4, <1>5, <1>6, UntouchedTables DEF RowsOK, MadeBy, LendsNothingTwice
<1>8. QED
  BY <1>7 DEF new, hire

MovedHire(h, status, asset) == [lent EXCEPT !.hire[h].status = status, !.asset = asset]

(* A hire that goes out, comes back or is cancelled promises nothing new. *)
LEMMA HireThatMoves ==
    ASSUME RowsOK(lent, date), NEW h \in Hires, NEW status \in {"OUT", "RETURNED", "CANCELLED"},
           status = "OUT" => lent.hire[h].status = "BOOKED",
           NEW asset \in [Assets -> AssetRow]
    PROVE  LET new == MovedHire(h, status, asset) IN
           /\ RowsOK(new, date) /\ new.asset = asset
           /\ HiresNothingTwice(lent, new) /\ BooksNothingTwice(lent, new)
           /\ ParksNobodyTwice(lent, new, date)
           /\ \A a \in Assets :
                OutNow(new, a) = IF status = "OUT" /\ lent.hire[h].asset = a
                                 THEN OutNow(lent, a) \cup {h} ELSE OutNow(lent, a) \ {h}
<1> DEFINE hire == [lent.hire EXCEPT ![h].status = status]
           new == MovedHire(h, status, asset)
<1>1. lent \in LentRows /\ lent.hire \in [Hires -> HireRow]
  BY Columns DEF RowsOK
<1>2. /\ hire \in [Hires -> HireRow] /\ hire[h].status = status
      /\ \A g \in Hires : /\ hire[g].asset = lent.hire[g].asset
                          /\ hire[g].from = lent.hire[g].from
                          /\ hire[g].to = lent.hire[g].to
                          /\ g # h => hire[g].status = lent.hire[g].status
  BY <1>1 DEF HireRow
<1>3. new = [lent EXCEPT !.hire = hire, !.asset = asset]
  BY <1>1 DEF LentRows, MovedHire
<1> HIDE DEF hire, new
<1>4. /\ new \in LentRows /\ new.hire = hire /\ new.asset = asset
      /\ new.stay = lent.stay /\ new.slot = lent.slot
  BY <1>1, <1>2, <1>3 DEF LentRows
<1>5. \A g \in Hires : hire[g].status \in Blocking => lent.hire[g].status \in Blocking
  BY <1>2 DEF Blocking
<1>6. HiresNothingTwice(lent, new)
  BY <1>2, <1>4, <1>5 DEF HiresNothingTwice, HiredTwice, HiresClash
<1>7. \A a \in Assets :
        OutNow(new, a) = IF status = "OUT" /\ lent.hire[h].asset = a
                         THEN OutNow(lent, a) \cup {h} ELSE OutNow(lent, a) \ {h}
  BY <1>2, <1>4 DEF OutNow
<1>8. QED
  BY <1>4, <1>6, <1>7, UntouchedTables DEF RowsOK, MadeBy, new

(* check_out calls the asset on hire. *)
LEMMA CheckedOut ==
    ASSUME RowsOK(lent, date), NEW h \in Hires, lent.hire[h].status = "BOOKED"
    PROVE  LET new == HireMoved(h, "OUT", "ON_HIRE")
           IN  RowsOK(new, date) /\ LendsNothingTwice(lent, new, date)
<1> DEFINE asset == [lent.asset EXCEPT ![lent.hire[h].asset].status = "ON_HIRE"]
           new == HireMoved(h, "OUT", "ON_HIRE")
<1>1. lent \in LentRows /\ lent.asset \in [Assets -> AssetRow]
  BY Columns DEF RowsOK
<1>2. /\ asset \in [Assets -> AssetRow]
      /\ \A a \in Assets : asset[a].status = IF a = lent.hire[h].asset THEN "ON_HIRE"
                                             ELSE lent.asset[a].status
  BY <1>1 DEF AssetRow
<1>3. new = MovedHire(h, "OUT", asset)
  BY <1>1 DEF LentRows, HireMoved, MovedHire
<1> HIDE DEF asset, new
<1>4. /\ RowsOK(new, date) /\ new.asset = asset
      /\ HiresNothingTwice(lent, new) /\ BooksNothingTwice(lent, new)
      /\ ParksNobodyTwice(lent, new, date)
      /\ \A a \in Assets :
            OutNow(new, a) = IF lent.hire[h].asset = a
                             THEN OutNow(lent, a) \cup {h} ELSE OutNow(lent, a) \ {h}
  BY <1>2, <1>3, HireThatMoves
<1>5. CallsNothingFree(lent, new)
  BY <1>2, <1>4 DEF CallsNothingFree, CalledFreeIn
<1>6. QED
  BY <1>4, <1>5 DEF LendsNothingTwice, new

(* check_in calls the asset free: when another hire of it is still out, two were. *)
LEMMA CheckedIn ==
    ASSUME RowsOK(lent, date), NEW h \in Hires, lent.hire[h].status = "OUT"
    PROVE  LET new == HireMoved(h, "RETURNED", "AVAILABLE")
           IN  RowsOK(new, date) /\ LendsNothingTwice(lent, new, date)
<1> DEFINE asset == [lent.asset EXCEPT ![lent.hire[h].asset].status = "AVAILABLE"]
           new == HireMoved(h, "RETURNED", "AVAILABLE")
<1>1. lent \in LentRows /\ lent.asset \in [Assets -> AssetRow]
  BY Columns DEF RowsOK
<1>2. /\ asset \in [Assets -> AssetRow]
      /\ \A a \in Assets : asset[a].status = IF a = lent.hire[h].asset THEN "AVAILABLE"
                                             ELSE lent.asset[a].status
  BY <1>1 DEF AssetRow
<1>3. new = MovedHire(h, "RETURNED", asset)
  BY <1>1 DEF LentRows, HireMoved, MovedHire
<1> HIDE DEF asset, new
<1>4. /\ RowsOK(new, date) /\ new.asset = asset
      /\ HiresNothingTwice(lent, new) /\ BooksNothingTwice(lent, new)
      /\ ParksNobodyTwice(lent, new, date)
      /\ \A a \in Assets : OutNow(new, a) = OutNow(lent, a) \ {h}
  BY <1>2, <1>3, HireThatMoves
<1>5. CallsNothingFree(lent, new)
  <2> SUFFICES ASSUME NEW a \in Assets, CalledFreeIn(new, a), ~CalledFreeIn(lent, a)
               PROVE  \E g, k \in OutNow(lent, a) : g # k
    BY DEF CallsNothingFree
  <2>1. PICK g \in OutNow(lent, a) : g # h
    BY <1>4 DEF CalledFreeIn
  <2>2. a = lent.hire[h].asset
    BY <1>2, <1>4, <2>1 DEF CalledFreeIn
  <2>3. h \in OutNow(lent, a)
    BY <2>2 DEF OutNow
  <2>4. QED
    BY <2>1, <2>3
<1>6. QED
  BY <1>4, <1>5 DEF LendsNothingTwice, new

LEMMA CancelledHire ==
    ASSUME RowsOK(lent, date), NEW h \in Hires
    PROVE  LET new == [lent EXCEPT !.hire[h].status = "CANCELLED"]
           IN  RowsOK(new, date) /\ LendsNothingTwice(lent, new, date)
<1> DEFINE new == [lent EXCEPT !.hire[h].status = "CANCELLED"]
           asset == lent.asset
<1>1. lent \in LentRows /\ asset \in [Assets -> AssetRow]
  BY Columns DEF RowsOK
<1>2. new = MovedHire(h, "CANCELLED", asset)
  BY <1>1 DEF LentRows, MovedHire
<1> HIDE DEF asset, new
<1>3. /\ RowsOK(new, date) /\ new.asset = asset
      /\ HiresNothingTwice(lent, new) /\ BooksNothingTwice(lent, new)
      /\ ParksNobodyTwice(lent, new, date)
      /\ \A a \in Assets : OutNow(new, a) = OutNow(lent, a) \ {h}
  BY <1>1, <1>2, HireThatMoves
<1>4. CallsNothingFree(lent, new)
  BY <1>3 DEF CallsNothingFree, CalledFreeIn, asset
<1>5. QED
  BY <1>3, <1>4 DEF LendsNothingTwice, new

(* update_asset calls no asset free that is out. *)
LEMMA SetAssetStatus ==
    ASSUME RowsOK(lent, date), NEW a \in Assets,
           NEW status \in {"AVAILABLE", "ON_HIRE", "MAINTENANCE", "RETIRED"},
           status = "AVAILABLE" => OutNow(lent, a) = {}
    PROVE  LET new == [lent EXCEPT !.asset[a].status = status]
           IN  RowsOK(new, date) /\ LendsNothingTwice(lent, new, date)
<1> DEFINE asset == [lent.asset EXCEPT ![a].status = status]
           new == [lent EXCEPT !.asset[a].status = status]
<1>1. lent \in LentRows /\ lent.asset \in [Assets -> AssetRow]
  BY Columns DEF RowsOK
<1>2. /\ asset \in [Assets -> AssetRow] /\ asset[a].status = status
      /\ \A b \in Assets \ {a} : asset[b] = lent.asset[b]
  BY <1>1 DEF AssetRow
<1>3. new = [lent EXCEPT !.asset = asset]
  BY <1>1 DEF LentRows
<1> HIDE DEF asset, new
<1>4. /\ new \in LentRows /\ new.hire = lent.hire /\ new.asset = asset
      /\ new.stay = lent.stay /\ new.slot = lent.slot
  BY <1>1, <1>2, <1>3 DEF LentRows
<1>5. \A b \in Assets : OutNow(new, b) = OutNow(lent, b)
  BY <1>4 DEF OutNow
<1>6. CallsNothingFree(lent, new)
  BY <1>2, <1>4, <1>5 DEF CallsNothingFree, CalledFreeIn
<1>7. QED
  BY <1>4, <1>6, UntouchedTables DEF RowsOK, MadeBy, LendsNothingTwice, new

(* Rows with another table of allocations, or of bookings. *)
LEMMA OtherStays ==
    ASSUME RowsOK(lent, date), NEW stay \in [Stays -> StayRow], NEW new,
           new = [lent EXCEPT !.stay = stay], \A s \in Stays : stay[s].made <= date,
           ParksNobodyTwice(lent, new, date)
    PROVE  RowsOK(new, date) /\ LendsNothingTwice(lent, new, date)
<1>1. lent \in LentRows
  BY DEF RowsOK
<1>2. /\ new \in LentRows /\ new.hire = lent.hire /\ new.asset = lent.asset
      /\ new.stay = stay /\ new.slot = lent.slot
  BY <1>1 DEF LentRows
<1>3. QED
  BY <1>2, UntouchedTables DEF RowsOK, MadeBy, LendsNothingTwice

LEMMA OtherSlots ==
    ASSUME RowsOK(lent, date), NEW slot \in [Evenings -> SlotRow], NEW new,
           new = [lent EXCEPT !.slot = slot], BooksNothingTwice(lent, new)
    PROVE  RowsOK(new, date) /\ LendsNothingTwice(lent, new, date)
<1>1. lent \in LentRows
  BY DEF RowsOK
<1>2. /\ new \in LentRows /\ new.hire = lent.hire /\ new.asset = lent.asset
      /\ new.stay = lent.stay /\ new.slot = slot
  BY <1>1 DEF LentRows
<1>3. QED
  BY <1>2, UntouchedTables DEF RowsOK, MadeBy, LendsNothingTwice

(* A bay that nobody holds today is held by nobody, today or later, who was not
   given it ahead of the day. *)
LEMMA AllocatedBay ==
    ASSUME RowsOK(lent, date), date \in Dates, NEW s \in Stays, NEW b \in Bays,
           NEW from \in Dates, NEW to \in from .. LastDate,
           \A other \in Stays : ~Holds(lent.stay[other], b)
    PROVE  LET new == [lent EXCEPT !.stay[s] =
                [bay |-> b, from |-> from, to |-> to, made |-> date, freed |-> FALSE]]
           IN  RowsOK(new, date) /\ LendsNothingTwice(lent, new, date)
<1> DEFINE row == [bay |-> b, from |-> from, to |-> to, made |-> date, freed |-> FALSE]
           stay == [lent.stay EXCEPT ![s] = row]
           new == [lent EXCEPT !.stay = stay]
<1>1. lent \in LentRows /\ lent.stay \in [Stays -> StayRow] /\ MadeBy(lent, date)
  BY Columns DEF RowsOK
<1>2. row \in StayRow
  BY BookingsAssumption DEF StayRow, Dates
<1>3. /\ stay \in [Stays -> StayRow] /\ stay[s] = row
      /\ \A t \in Stays \ {s} : stay[t] = lent.stay[t]
  BY <1>1, <1>2
<1> HIDE DEF stay
<1>4. new.stay = stay
  BY <1>1 DEF LentRows
<1>5. \A t \in Stays : stay[t].made <= date
  BY <1>1, <1>3, BookingsAssumption DEF MadeBy, Dates
<1> HIDE DEF new
<1>6. ASSUME NEW t \in Stays \ {s}, NEW day \in Dates, date <= day, Parked(stay[t], b, day)
      PROVE  FALSE
  <2>1. /\ lent.stay[t].bay = b /\ ~lent.stay[t].freed /\ lent.stay[t].from <= day
        /\ day <= lent.stay[t].to /\ lent.stay[t].from <= lent.stay[t].made
    BY <1>3, <1>6 DEF Parked, HoldsOn
  <2>2. lent.stay[t].made <= date
    BY <1>1 DEF MadeBy
  <2>3. /\ lent.stay[t].from \in Nat /\ lent.stay[t].to \in Nat /\ lent.stay[t].made \in Nat
        /\ date \in Nat /\ day \in Nat
    BY <1>1, BookingsAssumption DEF StayRow, Dates
  <2>4. Holds(lent.stay[t], b)
    BY <1>6, <2>1, <2>2, <2>3 DEF Holds
  <2>5. QED
    BY <2>4
<1>7. ParksNobodyTwice(lent, new, date)
  <2> SUFFICES ASSUME NEW t \in Stays, NEW u \in Stays, NEW day \in Dates, date <= day,
                      ParkedTwice(new, t, u, day)
               PROVE  ParkedTwice(lent, t, u, day)
    BY DEF ParksNobodyTwice
  <2>1. /\ t # u /\ Parked(stay[t], stay[t].bay, day) /\ Parked(stay[u], stay[t].bay, day)
    BY <1>4 DEF ParkedTwice
  <2>2. t # s
    BY <1>3, <1>6, <2>1
  <2>3. u # s
    <3> SUFFICES ASSUME u = s PROVE FALSE
      OBVIOUS
    <3>1. stay[t].bay = b
      BY <1>3, <2>1 DEF Parked, HoldsOn
    <3>2. QED
      BY <1>6, <2>1, <2>2, <3>1
  <2>4. QED
    BY <1>3, <2>1, <2>2, <2>3 DEF ParkedTwice
<1>8. new = [lent EXCEPT !.stay = stay]
  BY DEF new
<1>9. RowsOK(new, date) /\ LendsNothingTwice(lent, new, date)
  BY <1>3, <1>5, <1>7, <1>8, OtherStays
<1>10. QED
  BY <1>9 DEF new, stay

LEMMA ReleasedBay ==
    ASSUME RowsOK(lent, date), NEW s \in Stays
    PROVE  LET new == [lent EXCEPT !.stay[s].freed = TRUE]
           IN  RowsOK(new, date) /\ LendsNothingTwice(lent, new, date)
<1> DEFINE stay == [lent.stay EXCEPT ![s].freed = TRUE]
           new == [lent EXCEPT !.stay[s].freed = TRUE]
<1>1. lent \in LentRows /\ lent.stay \in [Stays -> StayRow] /\ MadeBy(lent, date)
  BY Columns DEF RowsOK
<1>2. /\ stay \in [Stays -> StayRow] /\ stay[s].freed /\ stay[s].made = lent.stay[s].made
      /\ \A t \in Stays \ {s} : stay[t] = lent.stay[t]
  BY <1>1 DEF StayRow
<1>3. new = [lent EXCEPT !.stay = stay]
  BY <1>1 DEF LentRows
<1> HIDE DEF stay, new
<1>4. new.stay = stay
  BY <1>1, <1>3 DEF LentRows
<1>5. \A t \in Stays : stay[t].made <= date
  BY <1>1, <1>2 DEF MadeBy
<1>6. ParksNobodyTwice(lent, new, date)
  BY <1>2, <1>4 DEF ParksNobodyTwice, ParkedTwice, Parked, HoldsOn
<1>7. QED
  BY <1>2, <1>3, <1>5, <1>6, OtherStays DEF new

(* A booking that is made after a look at the calendar overlaps no other. *)
LEMMA BookedRoom ==
    ASSUME RowsOK(lent, date), NEW e \in Evenings, NEW r \in Rooms,
           NEW from \in 0 .. LastDate, NEW to \in 0 .. LastDate,
           NEW status \in {"CONFIRMED", "BLOCKED"},
           \A other \in Evenings : ~SlotsClash(lent.slot[other], r, from, to)
    PROVE  LET new == [lent EXCEPT !.slot[e] =
                        [room |-> r, from |-> from, to |-> to, status |-> status]]
           IN  RowsOK(new, date) /\ LendsNothingTwice(lent, new, date)
<1> DEFINE row == [room |-> r, from |-> from, to |-> to, status |-> status]
           slot == [lent.slot EXCEPT ![e] = row]
           new == [lent EXCEPT !.slot = slot]
<1>1. lent \in LentRows /\ lent.slot \in [Evenings -> SlotRow]
  BY Columns DEF RowsOK
<1>2. row \in SlotRow
  BY DEF SlotRow
<1>3. /\ slot \in [Evenings -> SlotRow] /\ slot[e] = row
      /\ \A f \in Evenings \ {e} : slot[f] = lent.slot[f]
  BY <1>1, <1>2
<1> HIDE DEF slot
<1>4. new.slot = slot
  BY <1>1 DEF LentRows
<1> HIDE DEF new
<1>5. BooksNothingTwice(lent, new)
  <2> SUFFICES ASSUME NEW f \in Evenings, NEW g \in Evenings, BookedTwice(new, f, g)
               PROVE  BookedTwice(lent, f, g)
    BY DEF BooksNothingTwice
  <2>1. /\ f # g /\ slot[g].status \in {"CONFIRMED", "BLOCKED"}
        /\ SlotsClash(slot[f], slot[g].room, slot[g].from, slot[g].to)
    BY <1>4 DEF BookedTwice
  <2>2. g # e
    BY <1>3, <2>1
  <2>3. f # e
    <3> SUFFICES ASSUME f = e PROVE FALSE
      OBVIOUS
    <3>1. /\ lent.slot[g].room = r /\ lent.slot[g].status # "CANCELLED"
          /\ from < lent.slot[g].to /\ to > lent.slot[g].from
      BY <1>3, <2>1, <2>2 DEF SlotsClash
    <3>2. /\ lent.slot[g].from \in Nat /\ lent.slot[g].to \in Nat
          /\ from \in Nat /\ to \in Nat
      BY <1>1, BookingsAssumption DEF SlotRow
    <3>3. SlotsClash(lent.slot[g], r, from, to)
      BY <3>1, <3>2 DEF SlotsClash
    <3>4. QED
      BY <3>3
  <2>4. QED
    BY <1>3, <2>1, <2>2, <2>3 DEF BookedTwice
<1>6. new = [lent EXCEPT !.slot = slot]
  BY DEF new
<1>7. RowsOK(new, date) /\ LendsNothingTwice(lent, new, date)
  BY <1>3, <1>5, <1>6, OtherSlots
<1>8. QED
  BY <1>7 DEF new, slot

LEMMA CancelledRoom ==
    ASSUME RowsOK(lent, date), NEW e \in Evenings
    PROVE  LET new == [lent EXCEPT !.slot[e].status = "CANCELLED"]
           IN  RowsOK(new, date) /\ LendsNothingTwice(lent, new, date)
<1> DEFINE slot == [lent.slot EXCEPT ![e].status = "CANCELLED"]
           new == [lent EXCEPT !.slot[e].status = "CANCELLED"]
<1>1. lent \in LentRows /\ lent.slot \in [Evenings -> SlotRow]
  BY Columns DEF RowsOK
<1>2. /\ slot \in [Evenings -> SlotRow] /\ slot[e].status = "CANCELLED"
      /\ \A f \in Evenings \ {e} : slot[f] = lent.slot[f]
  BY <1>1 DEF SlotRow
<1>3. new = [lent EXCEPT !.slot = slot]
  BY <1>1 DEF LentRows
<1> HIDE DEF slot, new
<1>4. new.slot = slot
  BY <1>1, <1>3 DEF LentRows
<1>5. BooksNothingTwice(lent, new)
  BY <1>2, <1>4 DEF BooksNothingTwice, BookedTwice, SlotsClash
<1>6. QED
  BY <1>2, <1>3, <1>5, OtherSlots DEF new

-----------------------------------------------------------------------------
(* The inductive invariant *)

LEMMA InitBookingsIInv == BookingsInit => BookingsIInv
<1> SUFFICES ASSUME BookingsInit PROVE BookingsIInv
  OBVIOUS
<1>1. date \in Dates /\ served \in 0 .. MaxBookings
  BY BookingsAssumption DEF BookingsInit, Dates
<1>2. Unhired \in HireRow /\ Unparked \in StayRow /\ Unbooked \in SlotRow
  BY BookingsAssumption DEF HireRow, StayRow, SlotRow, Unhired, Unparked, Unbooked
<1>3. lent \in LentRows
  BY <1>2 DEF BookingsInit, LentRows, AssetRow
<1>4. MadeBy(lent, date)
  BY DEF BookingsInit, MadeBy, Unparked
<1>5. /\ counter = [c \in Counters |-> counter[c]]
      /\ \A c \in Counters : ServingOK(counter[c], date)
  BY DEF BookingsInit, ServingOK, Till!Idle
<1>6. QED
  BY <1>1, <1>3, <1>4, <1>5 DEF BookingsIInv, RowsOK

(* a handler *)
LEMMA PreparesIInv ==
    ASSUME BookingsIInv, NEW c \in Counters, NEW new, Till!Prepares(c, new), UNCHANGED date,
           RowsOK(new, date), LendsNothingTwice(lent, new, date)
    PROVE  BookingsIInv'
<1> DEFINE w == Till!Ready(lent, new, {})
<1>1. /\ counter' = [counter EXCEPT ![c] = w] /\ served' = served + 1
      /\ served < MaxBookings /\ UNCHANGED <<date, lent>>
  BY DEF Till!Prepares, Till!PreparesOne, Till!Begins
<1>2. ServingOK(w, date)
  BY DEF BookingsIInv, ServingOK, Till!Ready
<1> HIDE DEF w
<1>3. served' \in 0 .. MaxBookings
  BY <1>1, BookingsAssumption DEF BookingsIInv
<1>4. /\ counter' = [d \in Counters |-> counter'[d]]
      /\ \A d \in Counters : ServingOK(counter'[d], date)
  BY <1>1, <1>2 DEF BookingsIInv
<1>5. QED
  BY <1>1, <1>3, <1>4 DEF BookingsIInv

LEMMA SaveIInv ==
    ASSUME BookingsIInv, NEW c \in Counters, SaveBooking(c)
    PROVE  BookingsIInv'
<1>1. /\ counter[c].at = "ready" /\ lent' = Till!Merged(counter[c].was, counter[c].is, lent)
      /\ UNCHANGED <<date, served>>
  BY DEF SaveBooking, Till!Saves
<1>2. counter[c].rest = {} /\ RowsOK(counter[c].is, date) /\ RowsOK(lent, date)
  BY <1>1 DEF BookingsIInv, ServingOK
<1>3. counter' = [counter EXCEPT ![c] = Till!Idle]
  BY <1>2 DEF SaveBooking, Till!Saves
<1>4. RowsOK(lent', date)
  <2>1. lent' \in LentRows
    BY <1>1, <1>2, MergedColumns DEF RowsOK
  <2>2. \A s \in Stays : lent'.stay[s].made \in {counter[c].is.stay[s].made, lent.stay[s].made}
    BY <1>1, <1>2, MergedColumns DEF RowsOK
  <2>3. QED
    BY <1>2, <2>1, <2>2 DEF RowsOK, MadeBy
<1>5. ServingOK(Till!Idle, date)
  BY DEF ServingOK, Till!Idle
<1>6. /\ counter' = [d \in Counters |-> counter'[d]]
      /\ \A d \in Counters : ServingOK(counter'[d], date)
  BY <1>3, <1>5 DEF BookingsIInv
<1>7. QED
  BY <1>1, <1>4, <1>6 DEF BookingsIInv

LEMMA DropIInv ==
    ASSUME BookingsIInv, NEW c \in Counters, DropBooking(c)
    PROVE  BookingsIInv' /\ UNCHANGED <<date, lent>>
<1>1. counter' = [counter EXCEPT ![c] = Till!Idle] /\ UNCHANGED <<date, lent, served>>
  BY DEF DropBooking, Till!Drops
<1>2. ServingOK(Till!Idle, date)
  BY DEF ServingOK, Till!Idle
<1>3. /\ counter' = [d \in Counters |-> counter'[d]]
      /\ \A d \in Counters : ServingOK(counter'[d], date)
  BY <1>1, <1>2 DEF BookingsIInv
<1>4. QED
  BY <1>1, <1>3 DEF BookingsIInv

(* What held today of allocations that were made by then holds tomorrow. *)
LEMMA DayIInv ==
    ASSUME BookingsIInv, NextLendingDay
    PROVE  BookingsIInv'
<1>1. date' = date + 1 /\ date' \in Dates /\ date \in Nat /\ UNCHANGED <<lent, counter, served>>
  BY BookingsAssumption DEF NextLendingDay, BookingsIInv, Dates
<1>2. ASSUME NEW rows, RowsOK(rows, date)
      PROVE  RowsOK(rows, date')
  <2>1. \A s \in Stays : rows.stay[s].made \in Nat
    BY <1>2, Columns, BookingsAssumption DEF RowsOK, StayRow
  <2>2. QED
    BY <1>1, <1>2, <2>1 DEF RowsOK, MadeBy
<1>3. ASSUME NEW was, NEW is, ParksNobodyTwice(was, is, date)
      PROVE  ParksNobodyTwice(was, is, date')
  <2>1. \A day \in Dates : date' <= day => date <= day
    BY <1>1 DEF Dates
  <2>2. QED
    BY <1>3, <2>1 DEF ParksNobodyTwice
<1>4. \A c \in Counters : ServingOK(counter[c], date')
  BY <1>2, <1>3 DEF BookingsIInv, ServingOK, LendsNothingTwice
<1>5. QED
  BY <1>1, <1>2, <1>4 DEF BookingsIInv

(* Every handler only prepares, and promises nothing twice that it did not read. *)
LEMMA HandlerIInv ==
    ASSUME BookingsIInv, NEW c \in Counters, HireStep(c) \/ ParkingStep(c) \/ RoomStep(c)
    PROVE  BookingsIInv' /\ UNCHANGED <<date, lent>>
<1>1. RowsOK(lent, date) /\ date \in Dates /\ UNCHANGED date
  BY DEF BookingsIInv, HireStep, ParkingStep, RoomStep
<1> DEFINE Fine(new) ==
             RowsOK(new, date) /\ LendsNothingTwice(lent, new, date) /\ Till!Prepares(c, new)
<1>2. ASSUME NEW h \in Hires, NEW a \in Assets, NEW from \in Dates, NEW to \in from .. LastDate,
             BookHire(c, h, a, from, to)
      PROVE  \E new : Fine(new)
  BY <1>1, <1>2, BookedHire DEF BookHire
<1>3. ASSUME NEW h \in Hires, CheckOut(c, h)
      PROVE  \E new : Fine(new)
  BY <1>1, <1>3, CheckedOut DEF CheckOut
<1>4. ASSUME NEW h \in Hires, CheckIn(c, h)
      PROVE  \E new : Fine(new)
  BY <1>1, <1>4, CheckedIn DEF CheckIn
<1>5. ASSUME NEW h \in Hires, CancelHire(c, h)
      PROVE  \E new : Fine(new)
  BY <1>1, <1>5, CancelledHire DEF CancelHire
<1>6. ASSUME NEW a \in Assets, NEW status \in {"AVAILABLE", "ON_HIRE", "MAINTENANCE", "RETIRED"},
             SetAsset(c, a, status)
      PROVE  \E new : Fine(new)
  BY <1>1, <1>6, SetAssetStatus DEF SetAsset
<1>7. ASSUME NEW s \in Stays, NEW b \in Bays, NEW from \in Dates, NEW to \in from .. LastDate,
             AllocateBay(c, s, b, from, to)
      PROVE  \E new : Fine(new)
  BY <1>1, <1>7, AllocatedBay DEF AllocateBay
<1>8. ASSUME NEW s \in Stays, ReleaseBay(c, s)
      PROVE  \E new : Fine(new)
  BY <1>1, <1>8, ReleasedBay DEF ReleaseBay
<1>9. ASSUME NEW e \in Evenings, NEW r \in Rooms, NEW from \in 0 .. LastDate,
             NEW to \in 0 .. LastDate, NEW status \in {"CONFIRMED", "BLOCKED"},
             BookRoom(c, e, r, from, to, status)
      PROVE  \E new : Fine(new)
  BY <1>1, <1>9, BookedRoom DEF BookRoom
<1>10. ASSUME NEW e \in Evenings, CancelRoom(c, e)
       PROVE  \E new : Fine(new)
  BY <1>1, <1>10, CancelledRoom DEF CancelRoom
<1>11. PICK new : Fine(new)
  <2>1. CASE HireStep(c)
    BY <2>1, <1>2, <1>3, <1>4, <1>5, <1>6 DEF HireStep
  <2>2. CASE ParkingStep(c)
    BY <2>2, <1>7, <1>8 DEF ParkingStep
  <2>3. CASE RoomStep(c)
    BY <2>3, <1>9, <1>10 DEF RoomStep
  <2>4. QED
    BY <2>1, <2>2, <2>3
<1>12. UNCHANGED lent
  BY <1>11 DEF Till!Prepares, Till!PreparesOne
<1>13. QED
  BY <1>1, <1>11, <1>12, PreparesIInv

LEMMA NextBookingsIInv == BookingsIInv /\ [BookingsNext]_bookingsVars => BookingsIInv'
<1> SUFFICES ASSUME BookingsIInv, [BookingsNext]_bookingsVars PROVE BookingsIInv'
  OBVIOUS
<1>1. CASE NextLendingDay
  BY <1>1, DayIInv
<1>2. ASSUME NEW c \in Counters, SaveBooking(c) PROVE BookingsIInv'
  BY <1>2, SaveIInv
<1>3. ASSUME NEW c \in Counters, DropBooking(c) PROVE BookingsIInv'
  BY <1>3, DropIInv
<1>4. ASSUME NEW c \in Counters, HireStep(c) \/ ParkingStep(c) \/ RoomStep(c) PROVE BookingsIInv'
  BY <1>4, HandlerIInv
<1>5. CASE UNCHANGED bookingsVars
  BY <1>5 DEF bookingsVars, BookingsIInv
<1>6. QED
  BY <1>1, <1>2, <1>3, <1>4, <1>5
  DEF BookingsNext, HireNext, ParkingNext, RoomNext, Passes

LEMMA BookingsAlways == BookingsSpec => []BookingsIInv
BY InitBookingsIInv, NextBookingsIInv, PTL DEF BookingsSpec

(* The rows and the requests of the lending desk have the types of
   rental_service.py and facilities_service.py: a hire, an allocation or a booking
   is of something there is, on a day that is looked at, in a status the code
   writes, whatever order commits come in. *)
THEOREM LendingIsWellTyped == BookingsSpec => []BookingsTypeOK
<1>1. ASSUME NEW rows \in LentRows PROVE IsLent(rows)
  BY Columns DEF IsLent, AssetRow, HireRow, StayRow, SlotRow
<1>2. ASSUME NEW w, NEW today, ServingOK(w, today) PROVE Till!IsWork(w, IsLent, {})
  BY <1>1, <1>2 DEF ServingOK, RowsOK, Till!IsWork
<1>3. BookingsIInv => BookingsTypeOK
  BY <1>1, <1>2 DEF BookingsIInv, BookingsTypeOK, RowsOK
<1>4. QED
  BY <1>3, BookingsAlways, PTL

-----------------------------------------------------------------------------
(* Only overlap lends twice *)

(* The sets the property speaks of, before and after a step, in terms of the rows. *)
LEMMA PromisedTwice ==
    /\ TwiceHired = {p \in Hires \X Hires : HiredTwice(lent, p[1], p[2])}
    /\ TwiceHired' = {p \in Hires \X Hires : HiredTwice(lent', p[1], p[2])}
    /\ TwiceBooked = {p \in Evenings \X Evenings : BookedTwice(lent, p[1], p[2])}
    /\ TwiceBooked' = {p \in Evenings \X Evenings : BookedTwice(lent', p[1], p[2])}
    /\ TwiceParked = {p \in Stays \X Stays : ParkedTwice(lent, p[1], p[2], date)}
    /\ TwiceParked' = {p \in Stays \X Stays : ParkedTwice(lent', p[1], p[2], date')}
    /\ CalledFree = {a \in Assets : CalledFreeIn(lent, a)}
    /\ CalledFree' = {a \in Assets : CalledFreeIn(lent', a)}
<1>1. /\ TwiceHired = {p \in Hires \X Hires : HiredTwice(lent, p[1], p[2])}
      /\ TwiceHired' = {p \in Hires \X Hires : HiredTwice(lent', p[1], p[2])}
  BY DEF TwiceHired, HiredTwice
<1>2. /\ TwiceBooked = {p \in Evenings \X Evenings : BookedTwice(lent, p[1], p[2])}
      /\ TwiceBooked' = {p \in Evenings \X Evenings : BookedTwice(lent', p[1], p[2])}
  BY DEF TwiceBooked, BookedTwice
<1>3. /\ TwiceParked = {p \in Stays \X Stays : ParkedTwice(lent, p[1], p[2], date)}
      /\ TwiceParked' = {p \in Stays \X Stays : ParkedTwice(lent', p[1], p[2], date')}
  BY DEF TwiceParked, ParkedTwice, Parked, Holds, HoldsOn
<1>4. /\ CalledFree = {a \in Assets : CalledFreeIn(lent, a)}
      /\ CalledFree' = {a \in Assets : CalledFreeIn(lent', a)}
  BY DEF CalledFree, CalledFreeIn
<1>5. QED
  BY <1>1, <1>2, <1>3, <1>4

NothingMoreLentTwice ==
    /\ TwiceHired' \subseteq TwiceHired
    /\ TwiceBooked' \subseteq TwiceBooked
    /\ TwiceParked' \subseteq TwiceParked
    /\ \A a \in CalledFree' \ CalledFree : \E g, h \in OutNow(lent, a) : g # h

LEMMA SameRowsLendNothingTwice ==
    ASSUME UNCHANGED <<date, lent>>
    PROVE  NothingMoreLentTwice
<1>1. UNCHANGED <<TwiceHired, TwiceBooked, TwiceParked, CalledFree>>
  BY PromisedTwice
<1>2. QED
  BY <1>1 DEF NothingMoreLentTwice

(* whoever holds a bay tomorrow, and was not given it ahead of the day, does so
   today *)
LEMMA NextDayLendsNothingTwice ==
    ASSUME BookingsIInv, NextLendingDay
    PROVE  NothingMoreLentTwice
<1>1. date' = date + 1 /\ UNCHANGED lent
  BY DEF NextLendingDay
<1>2. ASSUME NEW s \in Stays, NEW b, Parked(lent.stay[s], b, date') PROVE Parked(lent.stay[s], b, date)
  <2>1. /\ lent.stay[s].from \in Nat /\ lent.stay[s].to \in Nat /\ lent.stay[s].made \in Nat
        /\ date \in Nat /\ lent.stay[s].made <= date
    BY Columns, BookingsAssumption DEF BookingsIInv, RowsOK, MadeBy, StayRow, Dates
  <2>2. QED
    BY <1>1, <1>2, <2>1 DEF Parked, HoldsOn
<1>3. TwiceParked' \subseteq TwiceParked
  BY <1>1, <1>2, PromisedTwice DEF ParkedTwice
<1>4. UNCHANGED <<TwiceHired, TwiceBooked, CalledFree>>
  BY <1>1, PromisedTwice
<1>5. QED
  BY <1>3, <1>4 DEF NothingMoreLentTwice

LEMMA TimelySaveLendsNothingTwice ==
    ASSUME BookingsIInv, NEW c \in Counters, SaveBooking(c), ~Till!StaleSave(c)
    PROVE  NothingMoreLentTwice
<1>1. /\ counter[c].at = "ready" /\ lent' = Till!Merged(counter[c].was, counter[c].is, lent)
      /\ counter[c].seen = lent /\ date' = date
  BY DEF SaveBooking, Till!Saves, Till!StaleSave
<1>2. /\ counter[c].was = lent /\ lent \in LentRows /\ counter[c].is \in LentRows
      /\ LendsNothingTwice(lent, counter[c].is, date)
  BY <1>1 DEF BookingsIInv, ServingOK, RowsOK
<1>3. lent' = counter[c].is
  BY <1>1, <1>2, SavesWhatItPrepared
<1>4. LendsNothingTwice(lent, lent', date) /\ date' = date /\ date \in Dates
  BY <1>1, <1>2, <1>3 DEF BookingsIInv
<1>5. TwiceHired' \subseteq TwiceHired
  BY <1>4, PromisedTwice DEF LendsNothingTwice, HiresNothingTwice
<1>6. TwiceBooked' \subseteq TwiceBooked
  BY <1>4, PromisedTwice DEF LendsNothingTwice, BooksNothingTwice
<1>7. TwiceParked' \subseteq TwiceParked
  <2>1. date <= date
    BY <1>4, BookingsAssumption DEF Dates
  <2>2. QED
    BY <1>4, <2>1, PromisedTwice DEF LendsNothingTwice, ParksNobodyTwice
<1>8. \A a \in CalledFree' \ CalledFree : \E g, h \in OutNow(lent, a) : g # h
  BY <1>4, PromisedTwice DEF LendsNothingTwice, CallsNothingFree
<1>9. QED
  BY <1>5, <1>6, <1>7, <1>8 DEF NothingMoreLentTwice

(* rental_service.py's "an asset cannot be in two places at once", and the same of
   bays and rooms: whatever handlers, commits, roll-backs and days come, a step
   that promises an asset, a room or a bay twice, or calls an asset free that is
   out (unless two hires of it were out), is the commit of a request whose rows
   another request changed after it read them. *)
THEOREM OverlapAloneLendsTwice == BookingsSpec => OnlyOverlapLendsTwice
<1>1. ASSUME BookingsIInv, [BookingsNext]_bookingsVars
      PROVE  (\E c \in Counters : Till!StaleSave(c)) \/ NothingMoreLentTwice
  <2>1. CASE NextLendingDay
    BY <1>1, <2>1, NextDayLendsNothingTwice
  <2>2. ASSUME NEW c \in Counters, SaveBooking(c)
        PROVE  Till!StaleSave(c) \/ NothingMoreLentTwice
    BY <1>1, <2>2, TimelySaveLendsNothingTwice
  <2>3. ASSUME NEW c \in Counters, DropBooking(c)
        PROVE  NothingMoreLentTwice
    BY <1>1, <2>3, DropIInv, SameRowsLendNothingTwice
  <2>4. ASSUME NEW c \in Counters, HireStep(c) \/ ParkingStep(c) \/ RoomStep(c)
        PROVE  NothingMoreLentTwice
    BY <1>1, <2>4, HandlerIInv, SameRowsLendNothingTwice
  <2>5. CASE UNCHANGED bookingsVars
    BY <2>5, SameRowsLendNothingTwice DEF bookingsVars
  <2>6. QED
    BY <1>1, <2>1, <2>2, <2>3, <2>4, <2>5
    DEF BookingsNext, HireNext, ParkingNext, RoomNext, Passes
<1>2. BookingsIInv /\ [BookingsNext]_bookingsVars =>
        [\/ \E c \in Counters : Till!StaleSave(c)
         \/ NothingMoreLentTwice]_bookingsVars
  BY <1>1
<1>3. QED
  BY <1>2, BookingsAlways, PTL DEF BookingsSpec, OnlyOverlapLendsTwice, NothingMoreLentTwice

-----------------------------------------------------------------------------
(* Records, holds and erasure: Evidence *)

FileRow == [ripe : BOOLEAN, gone : {"no", "swept", "asked"}]

(* the records are files of the four tables *)
Filed(rows) ==
    /\ DOMAIN rows = {"log", "member", "hold", "file"}
    /\ rows.file \in [Records -> FileRow]

NotHeld(rows, r) == \A h \in HoldIds : ~Covers(rows.hold[h], r)

(* What is erased in memory was not held, or is of a kind no hold keeps, when the
   transaction read it, and is past its retention or asked for. *)
ErasesFairly(seen, was, is) ==
    \A r \in Records :
        is.file[r].gone # was.file[r].gone =>
            /\ KindOf[r] \in {"event", "demo"} \/ NotHeld(was, r)
            /\ is.file[r].gone = "asked" \/ seen.file[r].ripe

ArchivistOK(w) ==
    \/ w.at = "idle"
    \/ w.at = "between" /\ w.rest \in {{"chain"}, {"sweep"}}
    \/ /\ w.at = "ready" /\ w.rest = {} /\ Filed(w.is)
       /\ ErasesFairly(w.seen, w.was, w.is)

EvidenceIInv ==
    /\ filed \in 0 .. MaxFilings
    /\ archivist = [c \in Archivists |-> archivist[c]]
    /\ Filed(vault)
    /\ \A c \in Archivists : ArchivistOK(archivist[c])

-----------------------------------------------------------------------------
(* Rows and sessions *)

LEMMA FileColumns ==
    ASSUME NEW rows, Filed(rows)
    PROVE  /\ DOMAIN rows.file = Records
           /\ \A r \in Records :
                /\ rows.file[r] \in FileRow /\ DOMAIN rows.file[r] = {"ripe", "gone"}
                /\ rows.file[r].ripe \in BOOLEAN /\ rows.file[r].gone \in {"no", "swept", "asked"}
BY DEF Filed, FileRow

(* A commit erases what the session erased, and leaves the rest as it is by then. *)
LEMMA MergedFiles ==
    ASSUME NEW was, NEW is, NEW now, Filed(is), Filed(now)
    PROVE  /\ Filed(Room!Merged(was, is, now))
           /\ \A r \in Records :
                Room!Merged(was, is, now).file[r].gone =
                    IF is.file[r].gone = was.file[r].gone THEN now.file[r].gone
                    ELSE is.file[r].gone
<1> DEFINE m == Room!Merged(was, is, now)
           Row(r) == Room!MergedRow(was.file[r], is.file[r], now.file[r])
<1>1. /\ DOMAIN m = {"log", "member", "hold", "file"}
      /\ m.file = [r \in Records |-> Row(r)]
  BY FileColumns DEF Filed, Room!Merged
<1>2. ASSUME NEW r \in Records
      PROVE  Row(r) = [ripe |-> IF is.file[r].ripe = was.file[r].ripe THEN now.file[r].ripe
                                ELSE is.file[r].ripe,
                       gone |-> IF is.file[r].gone = was.file[r].gone THEN now.file[r].gone
                                ELSE is.file[r].gone]
  BY FileColumns DEF Room!MergedRow, FileRow
<1> HIDE DEF m, Row
<1>3. \A r \in Records : Row(r) \in FileRow
  BY <1>2, FileColumns DEF FileRow
<1>4. QED
  BY <1>1, <1>2, <1>3 DEF Filed, m

(* Rows with the same files, and rows with others. *)
LEMMA SameFiles ==
    ASSUME NEW rows, Filed(rows), NEW new, DOMAIN new = DOMAIN rows, new.file = rows.file
    PROVE  Filed(new) /\ \A seen : ErasesFairly(seen, rows, new)
BY DEF Filed, ErasesFairly

LEMMA OtherFiles ==
    ASSUME NEW rows, Filed(rows), NEW file \in [Records -> FileRow]
    PROVE  /\ Filed([rows EXCEPT !.file = file])
           /\ [rows EXCEPT !.file = file].file = file
BY DEF Filed

(* The files of a sweep, or of the removal of the sample data. *)
LEMMA WithoutFiles ==
    ASSUME NEW rows, Filed(rows), NEW gone, NEW how \in {"swept", "asked"}
    PROVE  /\ Filed(Without(rows, gone, how))
           /\ \A r \in Records :
                Without(rows, gone, how).file[r].gone =
                    IF r \in gone THEN how ELSE rows.file[r].gone
<1> DEFINE file == [r \in Records |-> IF r \in gone THEN [rows.file[r] EXCEPT !.gone = how]
                                      ELSE rows.file[r]]
<1>1. /\ file \in [Records -> FileRow]
      /\ \A r \in Records : file[r].gone = IF r \in gone THEN how ELSE rows.file[r].gone
  BY FileColumns DEF FileRow
<1>2. Without(rows, gone, how) = [rows EXCEPT !.file = file]
  BY DEF Without, Filed
<1> HIDE DEF file
<1>3. QED
  BY <1>1, <1>2, OtherFiles

-----------------------------------------------------------------------------
(* The inductive invariant *)

LEMMA InitEvidenceIInv == EvidenceInit => EvidenceIInv
<1> SUFFICES ASSUME EvidenceInit PROVE EvidenceIInv
  OBVIOUS
<1>1. filed \in 0 .. MaxFilings
  BY EvidenceAssumption DEF EvidenceInit
<1>2. Filed(vault)
  BY DEF EvidenceInit, Filed, FileRow
<1>3. /\ archivist = [c \in Archivists |-> archivist[c]]
      /\ \A c \in Archivists : ArchivistOK(archivist[c])
  BY DEF EvidenceInit, ArchivistOK, Room!Idle
<1>4. QED
  BY <1>1, <1>2, <1>3 DEF EvidenceIInv

(* a handler that commits once *)
LEMMA EvidencePreparesKeeps ==
    ASSUME EvidenceIInv, NEW c \in Archivists, NEW new, Room!Prepares(c, new),
           Filed(new), ErasesFairly(vault, vault, new)
    PROVE  EvidenceIInv' /\ UNCHANGED vault
<1> DEFINE w == Room!Ready(vault, new, {})
<1>1. /\ archivist' = [archivist EXCEPT ![c] = w] /\ filed' = filed + 1
      /\ filed < MaxFilings /\ UNCHANGED vault
  BY DEF Room!Prepares, Room!PreparesOne, Room!Begins
<1>2. ArchivistOK(w)
  BY DEF ArchivistOK, Room!Ready
<1> HIDE DEF w
<1>3. filed' \in 0 .. MaxFilings
  BY <1>1, EvidenceAssumption DEF EvidenceIInv
<1>4. /\ archivist' = [d \in Archivists |-> archivist'[d]]
      /\ \A d \in Archivists : ArchivistOK(archivist'[d])
  BY <1>1, <1>2 DEF EvidenceIInv
<1>5. QED
  BY <1>1, <1>3, <1>4 DEF EvidenceIInv

(* a run of a task *)
LEMMA EvidenceStartsKeeps ==
    ASSUME EvidenceIInv, NEW c \in Archivists, NEW rest \in {{"chain"}, {"sweep"}}, Room!Starts(c, rest)
    PROVE  EvidenceIInv' /\ UNCHANGED vault
<1> DEFINE w == Room!Between(vault, rest)
<1>1. /\ archivist' = [archivist EXCEPT ![c] = w] /\ filed' = filed + 1
      /\ filed < MaxFilings /\ UNCHANGED vault
  BY DEF Room!Starts, Room!Begins
<1>2. ArchivistOK(w)
  BY DEF ArchivistOK, Room!Between
<1> HIDE DEF w
<1>3. filed' \in 0 .. MaxFilings
  BY <1>1, EvidenceAssumption DEF EvidenceIInv
<1>4. /\ archivist' = [d \in Archivists |-> archivist'[d]]
      /\ \A d \in Archivists : ArchivistOK(archivist'[d])
  BY <1>1, <1>2 DEF EvidenceIInv
<1>5. QED
  BY <1>1, <1>3, <1>4 DEF EvidenceIInv

LEMMA EvidenceContinuesKeeps ==
    ASSUME EvidenceIInv, NEW c \in Archivists, NEW new, Room!Continues(c, new, {}),
           Filed(new), ErasesFairly(archivist[c].seen, vault, new)
    PROVE  EvidenceIInv' /\ UNCHANGED vault
<1> DEFINE w == Room!Ready(archivist[c].seen, new, {})
<1>1. archivist' = [archivist EXCEPT ![c] = w] /\ UNCHANGED <<vault, filed>>
  BY DEF Room!Continues
<1>2. ArchivistOK(w)
  BY DEF ArchivistOK, Room!Ready
<1> HIDE DEF w
<1>3. /\ archivist' = [d \in Archivists |-> archivist'[d]]
      /\ \A d \in Archivists : ArchivistOK(archivist'[d])
  BY <1>1, <1>2 DEF EvidenceIInv
<1>4. QED
  BY <1>1, <1>3 DEF EvidenceIInv

LEMMA EvidenceSaveKeeps ==
    ASSUME EvidenceIInv, NEW c \in Archivists, SaveEvidence(c)
    PROVE  EvidenceIInv'
<1>1. /\ archivist[c].at = "ready"
      /\ vault' = Room!Merged(archivist[c].was, archivist[c].is, vault)
      /\ UNCHANGED filed
  BY DEF SaveEvidence, Room!Saves
<1>2. archivist[c].rest = {} /\ Filed(archivist[c].is) /\ Filed(vault)
  BY <1>1 DEF EvidenceIInv, ArchivistOK
<1>3. archivist' = [archivist EXCEPT ![c] = Room!Idle]
  BY <1>2 DEF SaveEvidence, Room!Saves
<1>4. Filed(vault')
  BY <1>1, <1>2, MergedFiles
<1>5. ArchivistOK(Room!Idle)
  BY DEF ArchivistOK, Room!Idle
<1>6. /\ archivist' = [d \in Archivists |-> archivist'[d]]
      /\ \A d \in Archivists : ArchivistOK(archivist'[d])
  BY <1>3, <1>5 DEF EvidenceIInv
<1>7. QED
  BY <1>1, <1>4, <1>6 DEF EvidenceIInv

LEMMA EvidenceDropKeeps ==
    ASSUME EvidenceIInv, NEW c \in Archivists, DropEvidence(c)
    PROVE  EvidenceIInv' /\ UNCHANGED vault
<1>1. archivist' = [archivist EXCEPT ![c] = Room!Idle] /\ UNCHANGED <<vault, filed>>
  BY DEF DropEvidence, Room!Drops
<1>2. ArchivistOK(Room!Idle)
  BY DEF ArchivistOK, Room!Idle
<1>3. /\ archivist' = [d \in Archivists |-> archivist'[d]]
      /\ \A d \in Archivists : ArchivistOK(archivist'[d])
  BY <1>1, <1>2 DEF EvidenceIInv
<1>4. QED
  BY <1>1, <1>3 DEF EvidenceIInv

(* Time, and a tenant who comes back, erase nothing. *)
LEMMA EvidenceOutsideKeeps ==
    ASSUME EvidenceIInv, YearsPass \/ \E r \in Records : ComesBack(r)
    PROVE  EvidenceIInv' /\ \A r \in Records : vault'.file[r].gone = vault.file[r].gone
<1>1. UNCHANGED <<archivist, filed>> /\ Filed(vault)
  BY DEF YearsPass, ComesBack, EvidenceIInv
<1>2. ASSUME YearsPass
      PROVE  Filed(vault') /\ \A r \in Records : vault'.file[r].gone = vault.file[r].gone
  <2> DEFINE file == [r \in Records |->
                        [vault.file[r] EXCEPT !.ripe = @ \/ vault.file[r].gone = "no"]]
  <2>1. \A r \in Records : (vault.file[r].ripe \/ vault.file[r].gone = "no") \in BOOLEAN
    OBVIOUS
  <2>2. /\ file \in [Records -> FileRow]
        /\ \A r \in Records : file[r].gone = vault.file[r].gone
    BY <1>1, <2>1, FileColumns DEF FileRow
  <2>3. vault' = [vault EXCEPT !.file = file]
    BY <1>1, <1>2 DEF YearsPass, Filed
  <2> HIDE DEF file
  <2>4. QED
    BY <1>1, <2>2, <2>3, OtherFiles
<1>3. ASSUME NEW k \in Records, ComesBack(k)
      PROVE  Filed(vault') /\ \A r \in Records : vault'.file[r].gone = vault.file[r].gone
  <2> DEFINE row == [vault.file[k] EXCEPT !.ripe = FALSE]
             file == [vault.file EXCEPT ![k] = row]
  <2>1. vault.file \in [Records -> FileRow] /\ vault.file[k] \in FileRow
    BY <1>1, FileColumns DEF Filed
  <2>2. row \in FileRow /\ row.gone = vault.file[k].gone
    BY <2>1 DEF FileRow
  <2>3. vault' = [vault EXCEPT !.file = file]
    BY <1>3 DEF ComesBack
  <2> HIDE DEF row
  <2>4. /\ file \in [Records -> FileRow]
        /\ \A r \in Records : file[r].gone = vault.file[r].gone
    BY <2>1, <2>2
  <2> HIDE DEF file
  <2>5. QED
    BY <1>1, <2>3, <2>4, OtherFiles
<1>4. Filed(vault') /\ \A r \in Records : vault'.file[r].gone = vault.file[r].gone
  BY <1>2, <1>3
<1>5. QED
  BY <1>1, <1>4 DEF EvidenceIInv

(* What the handlers prepare: the files are changed by the sweep, by the removal of
   the sample data and by the erasure of a tenant, and by nothing else. *)
LEMMA LoggedFiles ==
    ASSUME Filed(vault), NEW by
    PROVE  DOMAIN Logged(by) = DOMAIN vault /\ Logged(by).file = vault.file
BY DEF Filed, Logged

LEMMA ErasedTenant ==
    ASSUME Filed(vault), NEW r \in Records, NotHeld(vault, r)
    PROVE  LET new == [vault EXCEPT !.file[r].gone = "asked"]
           IN  Filed(new) /\ ErasesFairly(vault, vault, new)
<1> DEFINE row == [vault.file[r] EXCEPT !.gone = "asked"]
           file == [vault.file EXCEPT ![r] = row]
           new == [vault EXCEPT !.file = file]
<1>1. vault.file \in [Records -> FileRow] /\ vault.file[r] \in FileRow
  BY FileColumns DEF Filed
<1>2. row \in FileRow /\ row.gone = "asked"
  BY <1>1 DEF FileRow
<1> HIDE DEF row
<1>3. /\ file \in [Records -> FileRow] /\ file[r].gone = "asked"
      /\ \A k \in Records : k # r => file[k] = vault.file[k]
  BY <1>1, <1>2
<1> HIDE DEF file
<1>4. Filed(new) /\ new.file = file
  BY <1>3, OtherFiles
<1> HIDE DEF new
<1>5. Filed(new) /\ ErasesFairly(vault, vault, new)
  BY <1>3, <1>4 DEF ErasesFairly
<1>6. QED
  BY <1>5 DEF new, file, row

LEMMA RemovedDemo ==
    ASSUME Filed(vault), NEW gone, \A r \in gone : KindOf[r] = "demo"
    PROVE  LET new == Without(vault, gone, "asked")
           IN  Filed(new) /\ ErasesFairly(vault, vault, new)
<1>1. \A r \in Records : Without(vault, gone, "asked").file[r].gone =
                            IF r \in gone THEN "asked" ELSE vault.file[r].gone
  BY WithoutFiles
<1>2. Filed(Without(vault, gone, "asked"))
  BY WithoutFiles
<1>3. QED
  BY <1>1, <1>2 DEF ErasesFairly

LEMMA Swept ==
    ASSUME Filed(vault), NEW seen, NEW gone,
           \A r \in gone : /\ r \in Records /\ seen.file[r].ripe
                           /\ KindOf[r] \in {"tenant", "application"} => ~ActiveHold(vault, r)
    PROVE  LET new == Without(vault, gone, "swept")
           IN  Filed(new) /\ ErasesFairly(seen, vault, new)
<1>1. \A r \in Records : Without(vault, gone, "swept").file[r].gone =
                            IF r \in gone THEN "swept" ELSE vault.file[r].gone
  BY WithoutFiles
<1>2. Filed(Without(vault, gone, "swept"))
  BY WithoutFiles
<1>3. \A r \in Records : KindOf[r] \in Kinds
  BY EvidenceAssumption
<1>4. \A r \in gone : KindOf[r] \in {"event", "demo"} \/ NotHeld(vault, r)
  BY <1>3 DEF Kinds, ActiveHold, NotHeld
<1>5. QED
  BY <1>1, <1>2, <1>4 DEF ErasesFairly

(* A step of c that is neither a commit nor a roll-back. *)
EvidenceHandler(c) ==
    \/ StartChain(c) \/ ChainNewEntries(c) \/ StartSweep(c) \/ Sweep(c) \/ RemoveDemo(c)
    \/ \E by \in Members \cup {Nobody} : Record(c, by)
    \/ \E m, by \in Members : RemoveMember(c, m, by)
    \/ \E h \in HoldIds, on \in Records \cup {"organization"} : PlaceHold(c, h, on)
    \/ \E h \in HoldIds : ReleaseHold(c, h)
    \/ \E r \in Records : EraseTenantData(c, r)

LEMMA EvidenceHandlerKeeps ==
    ASSUME EvidenceIInv, NEW c \in Archivists, EvidenceHandler(c)
    PROVE  EvidenceIInv' /\ UNCHANGED vault
<1>1. Filed(vault)
  BY DEF EvidenceIInv
<1> DEFINE Goal == EvidenceIInv' /\ UNCHANGED vault
<1>2. ASSUME NEW new, Room!Prepares(c, new), DOMAIN new = DOMAIN vault, new.file = vault.file
      PROVE  Goal
  BY <1>1, <1>2, SameFiles, EvidencePreparesKeeps
<1>3. ASSUME StartChain(c) \/ StartSweep(c)
      PROVE  Goal
  BY <1>3, EvidenceStartsKeeps DEF StartChain, StartSweep
<1>4. ASSUME ChainNewEntries(c)
      PROVE  Goal
  <2>1. PICK log : Room!Continues(c, [vault EXCEPT !.log = log], {})
    BY <1>4 DEF ChainNewEntries
  <2>2. /\ DOMAIN [vault EXCEPT !.log = log] = DOMAIN vault
        /\ [vault EXCEPT !.log = log].file = vault.file
    BY <1>1 DEF Filed
  <2>3. QED
    BY <1>1, <2>1, <2>2, SameFiles, EvidenceContinuesKeeps
<1>5. ASSUME Sweep(c)
      PROVE  Goal
  <2> DEFINE gone == {r \in PastRetention(archivist[c].seen) :
                        KindOf[r] \in {"tenant", "application"} => ~ActiveHold(vault, r)}
  <2>1. Room!Continues(c, Without(vault, gone, "swept"), {})
    BY <1>5 DEF Sweep
  <2>2. \A r \in gone : /\ r \in Records /\ archivist[c].seen.file[r].ripe
                        /\ KindOf[r] \in {"tenant", "application"} => ~ActiveHold(vault, r)
    BY DEF PastRetention
  <2> HIDE DEF gone
  <2>3. QED
    BY <1>1, <2>1, <2>2, Swept, EvidenceContinuesKeeps
<1>6. ASSUME RemoveDemo(c)
      PROVE  Goal
  <2> DEFINE gone == {r \in Records : KindOf[r] = "demo" /\ vault.file[r].gone = "no"}
  <2>1. Room!Prepares(c, Without(vault, gone, "asked")) /\ \A r \in gone : KindOf[r] = "demo"
    BY <1>6 DEF RemoveDemo
  <2> HIDE DEF gone
  <2>2. QED
    BY <1>1, <2>1, RemovedDemo, EvidencePreparesKeeps
<1>7. ASSUME NEW by, Record(c, by)
      PROVE  Goal
  BY <1>1, <1>2, <1>7, LoggedFiles DEF Record
<1>8. ASSUME NEW m, NEW by, RemoveMember(c, m, by)
      PROVE  Goal
  <2>1. /\ DOMAIN [Logged(by) EXCEPT !.member[m].here = FALSE] = DOMAIN vault
        /\ [Logged(by) EXCEPT !.member[m].here = FALSE].file = vault.file
    BY <1>1, LoggedFiles DEF Filed
  <2>2. QED
    BY <1>2, <1>8, <2>1 DEF RemoveMember
<1>9. ASSUME NEW h, NEW on, PlaceHold(c, h, on)
      PROVE  Goal
  <2> DEFINE new == [vault EXCEPT !.hold[h] = [on |-> on, open |-> TRUE]]
  <2>1. DOMAIN new = DOMAIN vault /\ new.file = vault.file
    BY <1>1 DEF Filed
  <2>2. Room!Prepares(c, new)
    BY <1>9 DEF PlaceHold
  <2> HIDE DEF new
  <2>3. QED
    BY <1>2, <2>1, <2>2
<1>10. ASSUME NEW h, ReleaseHold(c, h)
       PROVE  Goal
  <2> DEFINE new == [vault EXCEPT !.hold[h].open = FALSE]
  <2>1. DOMAIN new = DOMAIN vault /\ new.file = vault.file
    BY <1>1 DEF Filed
  <2>2. Room!Prepares(c, new)
    BY <1>10 DEF ReleaseHold
  <2> HIDE DEF new
  <2>3. QED
    BY <1>2, <2>1, <2>2
<1>11. ASSUME NEW r \in Records, EraseTenantData(c, r)
       PROVE  Goal
  <2>1. NotHeld(vault, r)
    BY <1>11 DEF EraseTenantData, ActiveHold, NotHeld
  <2>2. QED
    BY <1>1, <1>11, <2>1, ErasedTenant, EvidencePreparesKeeps DEF EraseTenantData
<1> HIDE DEF Goal
<1>12. Goal
  BY <1>3, <1>4, <1>5, <1>6, <1>7, <1>8, <1>9, <1>10, <1>11 DEF EvidenceHandler
<1>13. QED
  BY <1>12 DEF Goal

(* The steps of EvidenceNext. *)
LEMMA StepsOfEvidence ==
    ASSUME EvidenceNext
    PROVE  \/ YearsPass \/ \E r \in Records : ComesBack(r)
           \/ \E c \in Archivists : SaveEvidence(c) \/ DropEvidence(c) \/ EvidenceHandler(c)
BY DEF EvidenceNext, ChainNext, HoldNext, EvidenceHandler

LEMMA EvidenceNextKeeps == EvidenceIInv /\ [EvidenceNext]_evidenceVars => EvidenceIInv'
<1> SUFFICES ASSUME EvidenceIInv, [EvidenceNext]_evidenceVars PROVE EvidenceIInv'
  OBVIOUS
<1>1. CASE UNCHANGED evidenceVars
  BY <1>1 DEF evidenceVars, EvidenceIInv
<1>2. CASE EvidenceNext
  BY <1>2, StepsOfEvidence, EvidenceOutsideKeeps, EvidenceSaveKeeps, EvidenceDropKeeps, EvidenceHandlerKeeps
<1>3. QED
  BY <1>1, <1>2

LEMMA EvidenceInvariance == EvidenceSpec => []EvidenceIInv
BY InitEvidenceIInv, EvidenceNextKeeps, PTL DEF EvidenceSpec

-----------------------------------------------------------------------------
(* Holds *)

(* what the property asks of a record that a step erases *)
FairlyErased(r) ==
    /\ \/ KindOf[r] \in {"event", "demo"}
       \/ \A h \in HoldIds : ~Covers(vault.hold[h], r)
       \/ \E c \in Archivists : /\ Room!Saves(c)
                                /\ \A h \in HoldIds : ~Covers(archivist[c].was.hold[h], r)
    /\ \/ vault'.file[r].gone = "asked" \/ vault.file[r].ripe
       \/ \E c \in Archivists : Room!StaleSave(c)

LEMMA SaveErasesFairly ==
    ASSUME EvidenceIInv, NEW c \in Archivists, SaveEvidence(c),
           NEW r \in Records, vault.file[r].gone = "no", vault'.file[r].gone # "no"
    PROVE  FairlyErased(r)
<1> DEFINE w == archivist[c]
<1>1. /\ w.at = "ready" /\ vault' = Room!Merged(w.was, w.is, vault) /\ Room!Saves(c)
  BY DEF SaveEvidence, Room!Saves
<1>2. Filed(w.is) /\ Filed(vault) /\ ErasesFairly(w.seen, w.was, w.is)
  BY <1>1 DEF EvidenceIInv, ArchivistOK
<1>3. vault'.file[r].gone = w.is.file[r].gone /\ w.is.file[r].gone # w.was.file[r].gone
  BY <1>1, <1>2, MergedFiles
<1>4. /\ KindOf[r] \in {"event", "demo"} \/ NotHeld(w.was, r)
      /\ w.is.file[r].gone = "asked" \/ w.seen.file[r].ripe
  BY <1>2, <1>3 DEF ErasesFairly
<1>5. w.seen = vault \/ Room!StaleSave(c)
  BY <1>1 DEF Room!StaleSave
<1>6. QED
  BY <1>1, <1>3, <1>4, <1>5 DEF FairlyErased, NotHeld

(* The retention policy's "both the retention sweep and tenant-initiated erasure
   refuse to act on anything the hold covers": whatever requests, sweeps and runs
   overlap, a tenant or an application under a hold is erased only by the commit
   of a transaction in which no hold on it could be read, and a record is swept
   while it is in use only by a commit whose list is older than the rows. *)
THEOREM EarlierLookAloneErasesTooMuch == EvidenceSpec => OnlyAnEarlierLookErasesTooMuch
<1>1. ASSUME EvidenceIInv, [EvidenceNext]_evidenceVars,
             NEW r \in Records, vault.file[r].gone = "no", vault'.file[r].gone # "no"
      PROVE  FairlyErased(r)
  <2>1. ~(UNCHANGED vault)
    BY <1>1
  <2>2. EvidenceNext
    BY <1>1, <2>1 DEF evidenceVars
  <2>3. PICK c \in Archivists : SaveEvidence(c)
    BY <1>1, <2>1, <2>2, StepsOfEvidence, EvidenceOutsideKeeps, EvidenceDropKeeps, EvidenceHandlerKeeps
  <2>4. QED
    BY <1>1, <2>3, SaveErasesFairly
<1>2. EvidenceIInv /\ [EvidenceNext]_evidenceVars =>
        [\A r \in Records :
            vault.file[r].gone = "no" /\ vault'.file[r].gone # "no" => FairlyErased(r)]_evidenceVars
  BY <1>1
<1>3. QED
  BY <1>2, EvidenceInvariance, PTL DEF EvidenceSpec, OnlyAnEarlierLookErasesTooMuch, FairlyErased

-----------------------------------------------------------------------------
(* The audit trail *)

Link == (1 .. MaxFilings) \X (Members \cup {Nobody})

LogRow == [state : {"none", "open", "chained"}, by : Members \cup {Nobody}, hash : Seq(Link)]

HoldRow == [on : Records \cup {"nothing", "organization"}, open : BOOLEAN]

(* nothing is known of a row before it is written, and it has no hash before it is
   chained *)
RowOK(row) ==
    /\ row.state # "chained" => row.hash = <<>>
    /\ row.state = "none" => row.by = Nobody

Trail(rows) ==
    /\ rows.log \in [1 .. MaxFilings -> LogRow]
    /\ \A n \in 1 .. MaxFilings : RowOK(rows.log[n])
    /\ rows.member \in [Members -> [here : BOOLEAN]]
    /\ rows.hold \in [HoldIds -> HoldRow]

Vaulted(rows) == Filed(rows) /\ Trail(rows)

(* A row is written, then chained, and keeps its author's key; who is removed does
   not come back. *)
LaterRow(old, new) ==
    /\ old.state = "open" => new.state \in {"open", "chained"}
    /\ old.state = "chained" => new.state = "chained"
    /\ old.state # "none" => new.by = old.by

Later(old, new) ==
    /\ \A n \in 1 .. MaxFilings : LaterRow(old.log[n], new.log[n])
    /\ \A m \in Members : new.member[m].here => old.member[m].here

(* what a transaction does to a row that it read as `was` and that is `now` in the
   books: it leaves it alone, writes it, or chains it *)
Writes(was, is) == was = Unlogged /\ is.state = "open"

Advances(was, is, now) ==
    \/ is = was
    \/ Writes(was, is) /\ now = Unlogged
    \/ was.state = "open" /\ is.state = "chained" /\ is.by = was.by

Grows(was, is, now) ==
    /\ \A n \in 1 .. MaxFilings : Advances(was.log[n], is.log[n], now.log[n])
    /\ \A m \in Members : is.member[m].here => was.member[m].here

FilingOK(w, now, last) ==
    /\ Vaulted(w.was) /\ Vaulted(w.is) /\ Later(w.seen, w.was) /\ Later(w.was, now)
    /\ Grows(w.was, w.is, now)
    /\ \A n \in 1 .. MaxFilings : Writes(w.was.log[n], w.is.log[n]) => n <= last
    /\ \/ w.is.log = ChainedLog(w.was, TailHash(w.seen)) /\ w.is.member = w.was.member
       \/ \A n \in 1 .. MaxFilings :
            w.is.log[n] = w.was.log[n] \/ Writes(w.was.log[n], w.is.log[n])

ArchivingOK(w, now, last) ==
    \/ w.at = "idle"
    \/ /\ w.at \in {"between", "ready"}
       /\ Vaulted(w.seen) /\ Later(w.seen, now)
       /\ w.at = "ready" => FilingOK(w, now, last)

(* no two transactions write the same row *)
RowsApart ==
    \A c, d \in Archivists :
        c # d /\ archivist[c].at = "ready" /\ archivist[d].at = "ready" =>
            \A n \in 1 .. MaxFilings :
                ~(/\ Writes(archivist[c].was.log[n], archivist[c].is.log[n])
                  /\ Writes(archivist[d].was.log[n], archivist[d].is.log[n]))

ChainIInv ==
    /\ EvidenceIInv
    /\ Vaulted(vault)
    /\ \A n \in 1 .. MaxFilings : n > filed => vault.log[n] = Unlogged
    /\ \A c \in Archivists : ArchivingOK(archivist[c], vault, filed)
    /\ RowsApart

(* Sets of places, and the last of them. *)
LEMMA LastOf ==
    ASSUME NEW n \in Nat, NEW S, S \subseteq 1 .. n, S # {}
    PROVE  Max(S) \in S /\ \A k \in S : k <= Max(S)
<1> DEFINE C == {k \in Nat : n - k \in S}
<1>1. C # {}
  <2>1. PICK x \in S : TRUE
    OBVIOUS
  <2>2. n - x \in Nat /\ n - (n - x) = x
    OBVIOUS
  <2>3. QED
    BY <2>1, <2>2
<1>2. PICK m \in C : \A k \in C : m <= k
  <2> HIDE DEF C
  <2>1. C \subseteq Nat
    BY DEF C
  <2>2. QED
    BY <1>1, <2>1, LeastNumber
<1>3. \A x \in S : x <= n - m
  <2> TAKE x \in S
  <2>1. n - x \in Nat /\ n - (n - x) = x
    OBVIOUS
  <2>2. n - x \in C
    BY <2>1
  <2>3. m <= n - x
    BY <1>2, <2>2
  <2>4. QED
    BY <2>1, <2>3
<1>4. n - m \in S /\ \A y \in S : n - m >= y
  BY <1>2, <1>3
<1>5. Max(S) \in S /\ \A y \in S : Max(S) >= y
  BY <1>4 DEF Max
<1>6. QED
  BY <1>5

LEMMA LastIs ==
    ASSUME NEW n \in Nat, NEW S, S \subseteq 1 .. n, NEW x \in S, \A k \in S : k <= x
    PROVE  Max(S) = x
<1>1. Max(S) \in S /\ \A k \in S : k <= Max(S)
  BY LastOf
<1>2. \A k \in S : k \in Int
  OBVIOUS
<1> DEFINE m == Max(S)
<1>3. m \in S /\ x <= m /\ m <= x
  BY <1>1
<1> HIDE DEF m
<1>4. m = x
  BY <1>2, <1>3
<1>5. QED
  BY <1>4 DEF m

(* The loop over the rows: it exists, it passes on hashes, and past a row it holds
   the hash of the last pending row up to there, or the tail. *)
Carries(f, rows, tail, n) ==
    f = [i \in 0 .. n |->
            IF i = 0 THEN tail
            ELSE IF i \in Pending(rows) THEN HashEntry(rows, i, f[i - 1]) ELSE f[i - 1]]

LEMMA LoopExists ==
    ASSUME NEW rows, NEW tail, NEW n \in Nat
    PROVE  \E f : Carries(f, rows, tail, n)
<1> DEFINE S == {k \in Nat : \E f : Carries(f, rows, tail, k)}
<1>1. 0 \in S
  <2> DEFINE f == [i \in 0 .. 0 |-> tail]
  <2>1. Carries(f, rows, tail, 0)
    BY DEF Carries
  <2>2. QED
    BY <2>1
<1>2. ASSUME NEW k \in Nat, k \in S PROVE k + 1 \in S
  <2>1. PICK f : Carries(f, rows, tail, k)
    BY <1>2
  <2> DEFINE Value(h, i) ==
                IF i = 0 THEN tail
                ELSE IF i \in Pending(rows) THEN HashEntry(rows, i, h[i - 1]) ELSE h[i - 1]
             last == Value(f, k + 1)
             g == [i \in 0 .. k + 1 |-> IF i = k + 1 THEN last ELSE f[i]]
  <2>2. g[k + 1] = last /\ \A i \in 0 .. k : g[i] = f[i]
    <3> HIDE DEF last
    <3>1. QED
      OBVIOUS
  <2>3. \A i \in 0 .. k : f[i] = Value(f, i)
    BY <2>1 DEF Carries
  <2>4. last = Value(g, k + 1)
    <3>1. k + 1 # 0 /\ (k + 1) - 1 = k /\ g[k] = f[k]
      BY <2>2
    <3> HIDE DEF g
    <3>2. QED
      BY <3>1
  <2>5. \A i \in 0 .. k : f[i] = Value(g, i)
    <3>1. \A i \in 1 .. k : g[i - 1] = f[i - 1]
      BY <2>2
    <3> HIDE DEF g
    <3>2. QED
      BY <2>3, <3>1
  <2>6. g = [i \in 0 .. k + 1 |-> Value(g, i)]
    <3>1. \A i \in 0 .. k + 1 : g[i] = Value(g, i)
      <4> HIDE DEF Value, last, g
      <4>1. QED
        BY <2>2, <2>4, <2>5
    <3>2. g = [i \in 0 .. k + 1 |-> g[i]]
      OBVIOUS
    <3> HIDE DEF g, Value
    <3>3. QED
      BY <3>1, <3>2
  <2> HIDE DEF g
  <2>7. Carries(g, rows, tail, k + 1)
    BY <2>6 DEF Carries
  <2>8. QED
    BY <2>7
<1>3. \A k \in Nat : k \in S
  <2> HIDE DEF S
  <2>1. QED
    BY <1>1, <1>2, CountingUp
<1>4. QED
  BY <1>3

LEMMA LoopIs ==
    ASSUME NEW rows, NEW tail
    PROVE  Carries(HashesFrom(rows, tail), rows, tail, MaxFilings)
<1>1. \E f : Carries(f, rows, tail, MaxFilings)
  BY LoopExists, EvidenceAssumption
<1>2. HashesFrom(rows, tail) = CHOOSE f : Carries(f, rows, tail, MaxFilings)
  BY DEF Carries, HashesFrom
<1>3. QED
  BY <1>1, <1>2

LEMMA LoopAt ==
    ASSUME NEW rows, NEW tail, NEW hash, hash = HashesFrom(rows, tail)
    PROVE  /\ hash[0] = tail
           /\ \A i \in 1 .. MaxFilings :
                hash[i] = IF i \in Pending(rows) THEN HashEntry(rows, i, hash[i - 1])
                          ELSE hash[i - 1]
<1>1. Carries(hash, rows, tail, MaxFilings)
  BY LoopIs
<1>2. 0 \in 0 .. MaxFilings /\ \A i \in 1 .. MaxFilings : i \in 0 .. MaxFilings /\ i # 0
  BY EvidenceAssumption
<1>3. hash[0] = tail
  BY <1>1, <1>2, Zenon DEF Carries
<1>4. \A i \in 0 .. MaxFilings :
        hash[i] = IF i = 0 THEN tail
                  ELSE IF i \in Pending(rows) THEN HashEntry(rows, i, hash[i - 1])
                  ELSE hash[i - 1]
  BY <1>1, Zenon DEF Carries
<1>5. QED
  BY <1>2, <1>3, <1>4

UpTo(S, i) == {k \in S : k <= i}

LEMMA LoopHolds ==
    ASSUME NEW rows, NEW tail, NEW hash, hash = HashesFrom(rows, tail),
           NEW n \in 0 .. MaxFilings
    PROVE  hash[n] = IF UpTo(Pending(rows), n) = {} THEN tail
                     ELSE hash[Max(UpTo(Pending(rows), n))]
<1> DEFINE P == Pending(rows)
           S == {i \in Nat : i <= MaxFilings =>
                    hash[i] = IF UpTo(P, i) = {} THEN tail ELSE hash[Max(UpTo(P, i))]}
<1>1. /\ P \subseteq 1 .. MaxFilings /\ MaxFilings \in Nat
      /\ \A k \in P : k \in Nat /\ 1 <= k
  BY EvidenceAssumption DEF Pending, OpenRows
<1>2. /\ hash[0] = tail
      /\ \A i \in 1 .. MaxFilings : i \notin P => hash[i] = hash[i - 1]
  BY LoopAt
<1> HIDE DEF P
<1>3. 0 \in S
  <2>1. \A k \in P : ~(k <= 0)
    BY <1>1
  <2>2. UpTo(P, 0) = {}
    BY <2>1, Zenon DEF UpTo
  <2>3. QED
    BY <1>2, <2>2
<1>4. ASSUME NEW i \in Nat, i \in S PROVE i + 1 \in S
  <2> SUFFICES ASSUME i + 1 <= MaxFilings
               PROVE  hash[i + 1] = IF UpTo(P, i + 1) = {} THEN tail ELSE hash[Max(UpTo(P, i + 1))]
    OBVIOUS
  <2>1. i + 1 \in 1 .. MaxFilings /\ (i + 1) - 1 = i
    BY EvidenceAssumption
  <2>2. CASE i + 1 \in P
    <3>1. \A k \in P : k <= i + 1 => k \in 1 .. i + 1
      BY <1>1
    <3>2. i + 1 \in Nat /\ i + 1 <= i + 1
      OBVIOUS
    <3>3. /\ UpTo(P, i + 1) \subseteq 1 .. i + 1 /\ i + 1 \in UpTo(P, i + 1)
          /\ \A k \in UpTo(P, i + 1) : k <= i + 1
      BY <2>2, <3>1, <3>2, Zenon DEF UpTo
    <3>4. Max(UpTo(P, i + 1)) = i + 1
      BY <3>2, <3>3, LastIs
    <3>5. QED
      BY <3>3, <3>4
  <2>3. CASE i + 1 \notin P
    <3>1. \A k \in P : k <= i + 1 <=> k <= i
      <4>1. \A k \in P : k \in Nat /\ k # i + 1
        BY <1>1, <2>3
      <4>2. QED
        BY <4>1
    <3>2. UpTo(P, i + 1) = UpTo(P, i)
      BY <3>1, Zenon DEF UpTo
    <3>3. hash[i + 1] = hash[i]
      BY <1>2, <2>1, <2>3
    <3>4. hash[i] = IF UpTo(P, i) = {} THEN tail ELSE hash[Max(UpTo(P, i))]
      BY <1>1, <1>4
    <3>5. QED
      BY <3>2, <3>3, <3>4
  <2>4. QED
    BY <2>2, <2>3
<1>5. \A i \in Nat : i \in S
  <2> HIDE DEF S
  <2>1. QED
    BY <1>3, <1>4, CountingUp
<1>6. n \in Nat /\ n <= MaxFilings
  BY EvidenceAssumption
<1>7. QED
  BY <1>5, <1>6 DEF P

LEMMA LogCells ==
    ASSUME NEW rows, Vaulted(rows)
    PROVE  /\ DOMAIN rows.log = 1 .. MaxFilings /\ DOMAIN rows.member = Members
           /\ DOMAIN rows.hold = HoldIds
           /\ \A n \in 1 .. MaxFilings : rows.log[n] \in LogRow /\ RowOK(rows.log[n])
           /\ \A m \in Members : rows.member[m] \in [here : BOOLEAN]
           /\ \A h \in HoldIds : rows.hold[h] \in HoldRow
BY DEF Vaulted, Trail

LEMMA LogFields ==
    ASSUME NEW row \in LogRow
    PROVE  /\ row = [state |-> row.state, by |-> row.by, hash |-> row.hash]
           /\ DOMAIN row = {"state", "by", "hash"}
           /\ row.state \in {"none", "open", "chained"} /\ row.by \in Members \cup {Nobody}
           /\ row.hash \in Seq(Link)
BY DEF LogRow

(* What a run hands on is a hash. *)
LEMMA TailType ==
    ASSUME NEW rows, Vaulted(rows)
    PROVE  TailHash(rows) \in Seq(Link)
<1>1. CASE Chained(rows) = {}
  BY <1>1 DEF TailHash
<1>2. CASE Chained(rows) # {}
  <2>1. Chained(rows) \subseteq 1 .. MaxFilings /\ MaxFilings \in Nat
    BY EvidenceAssumption DEF Chained
  <2>2. Max(Chained(rows)) \in 1 .. MaxFilings
    BY <1>2, <2>1, LastOf
  <2>3. rows.log[Max(Chained(rows))].hash \in Seq(Link)
    BY <2>2, LogCells, LogFields
  <2>4. QED
    BY <1>2, <2>3 DEF TailHash
<1>3. QED
  BY <1>1, <1>2

LEMMA HashType ==
    ASSUME NEW rows, NEW n \in 1 .. MaxFilings, NEW prev \in Seq(Link)
    PROVE  HashEntry(rows, n, prev) \in Seq(Link)
<1>1. Author(rows, n) \in Members \cup {Nobody}
  BY DEF Author, Here
<1>2. <<n, Author(rows, n)>> \in Link
  BY <1>1 DEF Link
<1>3. QED
  BY <1>2 DEF HashEntry

LEMMA LoopType ==
    ASSUME NEW rows, NEW tail \in Seq(Link), NEW n \in 0 .. MaxFilings
    PROVE  HashesFrom(rows, tail)[n] \in Seq(Link)
<1> DEFINE hash == HashesFrom(rows, tail)
           S == {i \in Nat : i <= MaxFilings => hash[i] \in Seq(Link)}
<1>1. /\ hash[0] = tail
      /\ \A i \in 1 .. MaxFilings :
            hash[i] = IF i \in Pending(rows) THEN HashEntry(rows, i, hash[i - 1])
                      ELSE hash[i - 1]
  BY LoopAt
<1> HIDE DEF hash
<1>2. 0 \in S
  BY <1>1
<1>3. ASSUME NEW i \in Nat, i \in S PROVE i + 1 \in S
  <2> SUFFICES ASSUME i + 1 <= MaxFilings PROVE hash[i + 1] \in Seq(Link)
    OBVIOUS
  <2>1. i + 1 \in 1 .. MaxFilings /\ (i + 1) - 1 = i /\ hash[i] \in Seq(Link)
    BY <1>3, EvidenceAssumption
  <2>2. HashEntry(rows, i + 1, hash[i]) \in Seq(Link)
    BY <2>1, HashType
  <2>3. hash[i + 1] = IF i + 1 \in Pending(rows) THEN HashEntry(rows, i + 1, hash[i]) ELSE hash[i]
    BY <1>1, <2>1
  <2>4. QED
    BY <2>1, <2>2, <2>3
<1>4. \A i \in Nat : i \in S
  <2> HIDE DEF S
  <2>1. QED
    BY <1>2, <1>3, CountingUp
<1>5. n \in Nat /\ n <= MaxFilings
  BY EvidenceAssumption
<1>6. QED
  BY <1>4, <1>5 DEF hash

(* A run chains what is pending and leaves the other rows alone. *)
LEMMA LinkedRows ==
    ASSUME NEW rows, Vaulted(rows), NEW tail \in Seq(Link), NEW log, log = ChainedLog(rows, tail)
    PROVE  /\ log \in [1 .. MaxFilings -> LogRow]
           /\ \A n \in 1 .. MaxFilings :
                /\ RowOK(log[n])
                /\ n \notin Pending(rows) => log[n] = rows.log[n]
                /\ n \in Pending(rows) =>
                        /\ rows.log[n].state = "open" /\ log[n].state = "chained"
                        /\ log[n].by = rows.log[n].by
                        /\ log[n].hash = HashesFrom(rows, tail)[n]
<1> DEFINE hash == HashesFrom(rows, tail)
           Row(n) == IF n \in Pending(rows)
                     THEN [rows.log[n] EXCEPT !.state = "chained", !.hash = hash[n]]
                     ELSE rows.log[n]
<1>1. log = [n \in 1 .. MaxFilings |-> Row(n)]
  BY DEF ChainedLog
<1>2. \A n \in 1 .. MaxFilings : hash[n] \in Seq(Link)
  <2>1. \A n \in 1 .. MaxFilings : n \in 0 .. MaxFilings
    BY EvidenceAssumption
  <2>2. QED
    BY <2>1, LoopType
<1> HIDE DEF hash
<1>3. ASSUME NEW n \in 1 .. MaxFilings
      PROVE  /\ Row(n) \in LogRow /\ RowOK(Row(n))
             /\ n \notin Pending(rows) => Row(n) = rows.log[n]
             /\ n \in Pending(rows) =>
                    /\ rows.log[n].state = "open" /\ Row(n).state = "chained"
                    /\ Row(n).by = rows.log[n].by
                    /\ Row(n).hash = hash[n]
  <2>1. rows.log[n] \in LogRow /\ RowOK(rows.log[n])
    BY LogCells
  <2>2. CASE n \notin Pending(rows)
    BY <2>1, <2>2
  <2>3. CASE n \in Pending(rows)
    <3>1. rows.log[n].state = "open"
      BY <2>3 DEF Pending, OpenRows
    <3>2. Row(n) = [state |-> "chained", by |-> rows.log[n].by, hash |-> hash[n]]
      BY <2>1, <2>3 DEF LogRow
    <3>3. rows.log[n].by \in Members \cup {Nobody}
      BY <2>1, LogFields
    <3> HIDE DEF Row
    <3>4. Row(n) \in LogRow
      BY <1>2, <3>2, <3>3 DEF LogRow
    <3>5. QED
      BY <2>3, <3>1, <3>2, <3>4 DEF RowOK
  <2>4. QED
    BY <2>2, <2>3
<1> HIDE DEF Row
<1>4. QED
  BY <1>1, <1>3 DEF hash

(* One row of the log under a commit. *)
LEMMA MergedLogRow ==
    ASSUME NEW was \in LogRow, NEW is \in LogRow, NEW now \in LogRow,
           RowOK(was), RowOK(is), RowOK(now), LaterRow(was, now), Advances(was, is, now),
           NEW row, row = Room!MergedRow(was, is, now)
    PROVE  /\ row \in LogRow /\ RowOK(row) /\ LaterRow(now, row)
           /\ is = was => row = now
           /\ Writes(was, is) => row = is
           /\ was.state = "open" /\ is.state = "chained" =>
                /\ row.state = "chained" /\ row.by = now.by
                /\ row.hash = IF is.hash = was.hash THEN now.hash ELSE is.hash
<1>1. /\ DOMAIN now = {"state", "by", "hash"}
      /\ was.state \in {"none", "open", "chained"} /\ is.state \in {"none", "open", "chained"}
      /\ now.state \in {"none", "open", "chained"}
      /\ is.by \in Members \cup {Nobody} /\ now.by \in Members \cup {Nobody}
      /\ is.hash \in Seq(Link) /\ now.hash \in Seq(Link)
  BY LogFields
<1>2. row = [state |-> IF is.state = was.state THEN now.state ELSE is.state,
             by |-> IF is.by = was.by THEN now.by ELSE is.by,
             hash |-> IF is.hash = was.hash THEN now.hash ELSE is.hash]
  BY <1>1 DEF Room!MergedRow
<1>3. /\ row.state = IF is.state = was.state THEN now.state ELSE is.state
      /\ row.by = IF is.by = was.by THEN now.by ELSE is.by
      /\ row.hash = IF is.hash = was.hash THEN now.hash ELSE is.hash
      /\ row = [state |-> row.state, by |-> row.by, hash |-> row.hash]
  BY <1>2
<1>4. row \in LogRow
  BY <1>1, <1>3 DEF LogRow
<1>5. now = [state |-> now.state, by |-> now.by, hash |-> now.hash]
      /\ is = [state |-> is.state, by |-> is.by, hash |-> is.hash]
  BY LogFields
<1>6. is = was => row = now
  BY <1>3, <1>5
<1>7. CASE is = was
  BY <1>4, <1>6, <1>7 DEF LaterRow, Writes, Unlogged, RowOK
<1>8. CASE Writes(was, is) /\ now = Unlogged
  <2>1. /\ was.state = "none" /\ was.by = Nobody /\ was.hash = <<>> /\ now.state = "none"
        /\ now.by = Nobody /\ now.hash = <<>> /\ is.state = "open"
    BY <1>8 DEF Writes, Unlogged
  <2>2. is.hash = <<>>
    BY <2>1 DEF RowOK
  <2>3. row = is
    BY <1>3, <1>5, <2>1, <2>2
  <2>4. QED
    BY <1>4, <2>1, <2>3 DEF LaterRow
<1>9. CASE was.state = "open" /\ is.state = "chained" /\ is.by = was.by
  <2>1. row.state = "chained" /\ row.by = now.by
    BY <1>3, <1>9
  <2>2. now.state # "none"
    BY <1>9 DEF LaterRow
  <2>3. ~Writes(was, is) /\ is # was
    BY <1>9 DEF Writes
  <2>4. QED
    BY <1>3, <1>4, <2>1, <2>2, <2>3 DEF LaterRow, RowOK
<1>10. QED
  BY <1>7, <1>8, <1>9 DEF Advances

LEMMA MergedMember ==
    ASSUME NEW was \in [here : BOOLEAN], NEW is \in [here : BOOLEAN], NEW now \in [here : BOOLEAN],
           is.here => was.here, NEW row, row = Room!MergedRow(was, is, now)
    PROVE  /\ row \in [here : BOOLEAN]
           /\ row.here => now.here
           /\ is = was => row = now
<1>1. row = [here |-> IF is.here = was.here THEN now.here ELSE is.here]
  BY DEF Room!MergedRow
<1>2. now = [here |-> now.here]
  OBVIOUS
<1>3. is.here \in BOOLEAN /\ was.here \in BOOLEAN /\ now.here \in BOOLEAN
  OBVIOUS
<1>4. QED
  BY <1>1, <1>2, <1>3

LEMMA MergedHold ==
    ASSUME NEW was \in HoldRow, NEW is \in HoldRow, NEW now \in HoldRow
    PROVE  Room!MergedRow(was, is, now) \in HoldRow
<1> DEFINE on == IF is.on = was.on THEN now.on ELSE is.on
           open == IF is.open = was.open THEN now.open ELSE is.open
<1>1. Room!MergedRow(was, is, now) = [on |-> on, open |-> open]
  BY DEF Room!MergedRow, HoldRow
<1>2. on \in Records \cup {"nothing", "organization"} /\ open \in BOOLEAN
  BY DEF HoldRow
<1> HIDE DEF on, open
<1>3. QED
  BY <1>1, <1>2 DEF HoldRow

(* What a commit leaves of rows that moved on since they were read. *)
LEMMA MergedVault ==
    ASSUME NEW was, NEW is, NEW now, Vaulted(was), Vaulted(is), Vaulted(now),
           Later(was, now), Grows(was, is, now), NEW new, new = Room!Merged(was, is, now)
    PROVE  /\ Vaulted(new) /\ Later(now, new)
           /\ \A n \in 1 .. MaxFilings :
                /\ is.log[n] = was.log[n] => new.log[n] = now.log[n]
                /\ Writes(was.log[n], is.log[n]) => new.log[n] = is.log[n]
                /\ was.log[n].state = "open" /\ is.log[n].state = "chained" =>
                    /\ new.log[n].state = "chained" /\ new.log[n].by = now.log[n].by
                    /\ new.log[n].hash = IF is.log[n].hash = was.log[n].hash
                                         THEN now.log[n].hash ELSE is.log[n].hash
           /\ is.member = was.member => new.member = now.member
<1> DEFINE LogAt(n) == Room!MergedRow(was.log[n], is.log[n], now.log[n])
           MemberAt(m) == Room!MergedRow(was.member[m], is.member[m], now.member[m])
           HoldAt(h) == Room!MergedRow(was.hold[h], is.hold[h], now.hold[h])
<1>1. Filed(is) /\ Filed(now) /\ DOMAIN now = {"log", "member", "hold", "file"}
  BY DEF Vaulted, Filed
<1>2. Filed(new)
  BY <1>1, MergedFiles
<1>3. /\ new.log = [n \in 1 .. MaxFilings |-> LogAt(n)]
      /\ new.member = [m \in Members |-> MemberAt(m)]
      /\ new.hold = [h \in HoldIds |-> HoldAt(h)]
  BY <1>1, LogCells DEF Room!Merged
<1>4. \A n \in 1 .. MaxFilings :
        /\ LogAt(n) \in LogRow /\ RowOK(LogAt(n)) /\ LaterRow(now.log[n], LogAt(n))
        /\ is.log[n] = was.log[n] => LogAt(n) = now.log[n]
        /\ Writes(was.log[n], is.log[n]) => LogAt(n) = is.log[n]
        /\ was.log[n].state = "open" /\ is.log[n].state = "chained" =>
            /\ LogAt(n).state = "chained" /\ LogAt(n).by = now.log[n].by
            /\ LogAt(n).hash = IF is.log[n].hash = was.log[n].hash
                               THEN now.log[n].hash ELSE is.log[n].hash
  <2> TAKE n \in 1 .. MaxFilings
  <2>1. /\ was.log[n] \in LogRow /\ is.log[n] \in LogRow /\ now.log[n] \in LogRow
        /\ RowOK(was.log[n]) /\ RowOK(is.log[n]) /\ RowOK(now.log[n])
    BY LogCells
  <2>2. LaterRow(was.log[n], now.log[n]) /\ Advances(was.log[n], is.log[n], now.log[n])
    BY DEF Later, Grows
  <2>3. QED
    BY <2>1, <2>2, MergedLogRow
<1>5. \A m \in Members :
        /\ MemberAt(m) \in [here : BOOLEAN]
        /\ MemberAt(m).here => now.member[m].here
        /\ is.member[m] = was.member[m] => MemberAt(m) = now.member[m]
  <2> TAKE m \in Members
  <2>1. /\ was.member[m] \in [here : BOOLEAN] /\ is.member[m] \in [here : BOOLEAN]
        /\ now.member[m] \in [here : BOOLEAN]
        /\ is.member[m].here => was.member[m].here
    BY LogCells DEF Grows
  <2>2. QED
    BY <2>1, MergedMember
<1>6. \A h \in HoldIds : HoldAt(h) \in HoldRow
  BY LogCells, MergedHold
<1> HIDE DEF LogAt, MemberAt, HoldAt
<1>7. Vaulted(new)
  BY <1>2, <1>3, <1>4, <1>5, <1>6 DEF Vaulted, Trail
<1>8. Later(now, new)
  BY <1>3, <1>4, <1>5 DEF Later
<1>9. is.member = was.member => new.member = now.member
  <2>1. now.member = [m \in Members |-> now.member[m]]
    BY LogCells DEF Vaulted, Trail
  <2>2. QED
    BY <1>3, <1>5, <2>1
<1>10. \A n \in 1 .. MaxFilings : new.log[n] = LogAt(n)
  BY <1>3
<1> HIDE DEF Vaulted, Later, Room!Merged
<1>11. QED
  BY <1>4, <1>7, <1>8, <1>9, <1>10

LEMMA LaterRows ==
    ASSUME NEW old, NEW mid, NEW new, Vaulted(old), Later(old, mid), Later(mid, new)
    PROVE  Later(old, new)
<1>1. \A n \in 1 .. MaxFilings : LaterRow(old.log[n], new.log[n])
  <2> TAKE n \in 1 .. MaxFilings
  <2>1. LaterRow(old.log[n], mid.log[n]) /\ LaterRow(mid.log[n], new.log[n])
    BY DEF Later
  <2>2. old.log[n].state \in {"none", "open", "chained"}
    BY LogCells, LogFields
  <2>3. QED
    BY <2>1, <2>2 DEF LaterRow
<1>2. QED
  BY <1>1 DEF Later

LEMMA SameRowsAreLater == ASSUME NEW rows PROVE Later(rows, rows)
BY DEF Later, LaterRow

-----------------------------------------------------------------------------
(* The steps *)

LEMMA InitChainIInv == EvidenceInit => ChainIInv
<1> SUFFICES ASSUME EvidenceInit PROVE ChainIInv
  OBVIOUS
<1>1. EvidenceIInv
  BY InitEvidenceIInv
<1>2. Unlogged \in LogRow /\ RowOK(Unlogged)
  BY DEF Unlogged, LogRow, RowOK
<1>3. /\ vault.log \in [1 .. MaxFilings -> LogRow]
      /\ \A n \in 1 .. MaxFilings : vault.log[n] = Unlogged
  BY <1>2 DEF EvidenceInit
<1>4. /\ vault.member \in [Members -> [here : BOOLEAN]]
      /\ vault.hold \in [HoldIds -> HoldRow]
  BY DEF EvidenceInit, HoldRow, Unheld
<1>5. Vaulted(vault)
  BY <1>1, <1>2, <1>3, <1>4 DEF Vaulted, Trail, EvidenceIInv
<1>6. \A c \in Archivists : archivist[c].at = "idle"
  BY DEF EvidenceInit, Room!Idle
<1>7. (\A c \in Archivists : ArchivingOK(archivist[c], vault, filed)) /\ RowsApart
  BY <1>6 DEF ArchivingOK, RowsApart
<1>8. QED
  BY <1>1, <1>3, <1>5, <1>7 DEF ChainIInv

(* a session takes up a request, or goes on with it *)
LEMMA WorkKeepsChain ==
    ASSUME ChainIInv, EvidenceIInv', NEW c \in Archivists, NEW w,
           archivist' = [archivist EXCEPT ![c] = w], vault' = vault, filed' \in {filed, filed + 1},
           ArchivingOK(w, vault, filed'),
           w.at = "ready" =>
                \A n \in 1 .. MaxFilings : Writes(w.was.log[n], w.is.log[n]) => n > filed
    PROVE  ChainIInv'
<1>1. /\ filed \in Int /\ filed <= filed' /\ filed' \in Int
      /\ \A n \in 1 .. MaxFilings : n \in Int
  BY EvidenceAssumption DEF ChainIInv, EvidenceIInv
<1>2. archivist'[c] = w /\ \A d \in Archivists : d # c => archivist'[d] = archivist[d]
  BY DEF ChainIInv, EvidenceIInv
<1>3. ASSUME NEW d \in Archivists
      PROVE  ArchivingOK(archivist'[d], vault, filed')
  <2>1. CASE d = c
    BY <1>2, <2>1
  <2>2. CASE d # c
    <3>1. ArchivingOK(archivist[d], vault, filed)
      BY DEF ChainIInv
    <3>2. \A n \in 1 .. MaxFilings : n <= filed => n <= filed'
      BY <1>1
    <3>3. ArchivingOK(archivist[d], vault, filed')
      BY <3>1, <3>2 DEF ArchivingOK, FilingOK
    <3>4. QED
      BY <1>2, <2>2, <3>3
  <2>3. QED
    BY <2>1, <2>2
<1>4. ASSUME NEW d \in Archivists, d # c, archivist'[d].at = "ready", w.at = "ready",
             NEW n \in 1 .. MaxFilings, Writes(archivist'[d].was.log[n], archivist'[d].is.log[n]),
             Writes(w.was.log[n], w.is.log[n])
      PROVE  FALSE
  <2>1. FilingOK(archivist[d], vault, filed) /\ archivist'[d] = archivist[d]
    BY <1>2, <1>4 DEF ChainIInv, ArchivingOK
  <2>2. n <= filed /\ n > filed
    BY <1>4, <2>1 DEF FilingOK
  <2>3. QED
    BY <1>1, <2>2
<1>5. RowsApart'
  <2>1. ASSUME NEW d \in Archivists, NEW e \in Archivists, d # e,
               archivist'[d].at = "ready", archivist'[e].at = "ready",
               NEW n \in 1 .. MaxFilings,
               Writes(archivist'[d].was.log[n], archivist'[d].is.log[n]),
               Writes(archivist'[e].was.log[n], archivist'[e].is.log[n])
        PROVE  FALSE
    <3>1. CASE d = c
      BY <1>2, <1>4, <2>1, <3>1
    <3>2. CASE e = c
      BY <1>2, <1>4, <2>1, <3>2
    <3>3. CASE d # c /\ e # c
      <4>1. archivist'[d] = archivist[d] /\ archivist'[e] = archivist[e]
        BY <1>2, <3>3
      <4>2. RowsApart
        BY DEF ChainIInv
      <4>3. QED
        BY <2>1, <4>1, <4>2 DEF RowsApart
    <3>4. QED
      BY <3>1, <3>2, <3>3
  <2>2. QED
    BY <2>1 DEF RowsApart
<1>6. \A n \in 1 .. MaxFilings : n > filed' => vault'.log[n] = Unlogged
  <2>1. \A n \in 1 .. MaxFilings : n > filed' => n > filed
    BY <1>1
  <2>2. QED
    BY <2>1 DEF ChainIInv
<1>7. \A d \in Archivists : ArchivingOK(archivist'[d], vault', filed')
  BY <1>3
<1>8. Vaulted(vault')
  BY DEF ChainIInv
<1>9. QED
  BY <1>5, <1>6, <1>7, <1>8 DEF ChainIInv

(* a handler that commits once writes at most the row of its own number *)
WritesNext(new) ==
    /\ Trail(new)
    /\ \A n \in 1 .. MaxFilings :
        \/ new.log[n] = vault.log[n]
        \/ n = filed + 1 /\ Writes(vault.log[n], new.log[n])
    /\ \A m \in Members : new.member[m].here => vault.member[m].here

LEMMA PreparesKeepsChain ==
    ASSUME ChainIInv, EvidenceIInv', NEW c \in Archivists, NEW new, Room!Prepares(c, new),
           WritesNext(new)
    PROVE  ChainIInv'
<1> DEFINE w == Room!Ready(vault, new, {})
<1>1. /\ archivist' = [archivist EXCEPT ![c] = w] /\ filed' = filed + 1 /\ vault' = vault
      /\ w.at = "ready" /\ w.seen = vault /\ w.was = vault /\ w.is = new
  BY DEF Room!Prepares, Room!PreparesOne, Room!Begins, Room!Ready
<1> HIDE DEF w
<1>2. archivist'[c] = w /\ filed \in Int
  BY <1>1, EvidenceAssumption DEF ChainIInv, EvidenceIInv
<1>3. Vaulted(vault) /\ Vaulted(new)
  <2>1. Filed(new)
    BY <1>1, <1>2 DEF EvidenceIInv, ArchivistOK
  <2>2. QED
    BY <2>1 DEF ChainIInv, Vaulted, WritesNext
<1>4. Later(vault, vault)
  BY SameRowsAreLater
<1>5. /\ Grows(vault, new, vault)
      /\ \A n \in 1 .. MaxFilings : new.log[n] = vault.log[n] \/ Writes(vault.log[n], new.log[n])
      /\ \A n \in 1 .. MaxFilings : Writes(vault.log[n], new.log[n]) => n = filed + 1
  BY DEF WritesNext, Grows, Advances, Writes, Unlogged
<1>6. \A n \in 1 .. MaxFilings :
        Writes(vault.log[n], new.log[n]) => n <= filed' /\ n > filed
  BY <1>1, <1>2, <1>5
<1>7. ArchivingOK(w, vault, filed')
  BY <1>1, <1>3, <1>4, <1>5, <1>6 DEF ArchivingOK, FilingOK
<1>8. filed' \in {filed, filed + 1} /\ \A n \in 1 .. MaxFilings :
            Writes(w.was.log[n], w.is.log[n]) => n > filed
  BY <1>1, <1>6
<1>9. QED
  BY <1>1, <1>7, <1>8, WorkKeepsChain

LEMMA StartsKeepsChain ==
    ASSUME ChainIInv, EvidenceIInv', NEW c \in Archivists, NEW rest, Room!Starts(c, rest)
    PROVE  ChainIInv'
<1> DEFINE w == Room!Between(vault, rest)
<1>1. /\ archivist' = [archivist EXCEPT ![c] = w] /\ filed' = filed + 1 /\ vault' = vault
      /\ w.at = "between" /\ w.seen = vault
  BY DEF Room!Starts, Room!Begins, Room!Between
<1> HIDE DEF w
<1>2. Later(vault, vault) /\ Vaulted(vault)
  BY SameRowsAreLater DEF ChainIInv
<1>3. ArchivingOK(w, vault, filed') /\ w.at # "ready" /\ filed' \in {filed, filed + 1}
  BY <1>1, <1>2 DEF ArchivingOK
<1>4. QED
  BY <1>1, <1>3, WorkKeepsChain

(* the second transaction of a task, which writes no row *)
LEMMA ContinuesKeepsChain ==
    ASSUME ChainIInv, EvidenceIInv', NEW c \in Archivists, NEW new, Room!Continues(c, new, {}),
           Trail(new), new.member = vault.member,
           \/ new.log = vault.log
           \/ new.log = ChainedLog(vault, TailHash(archivist[c].seen))
    PROVE  ChainIInv'
<1> DEFINE w == Room!Ready(archivist[c].seen, new, {})
           seen == archivist[c].seen
<1>1. /\ archivist' = [archivist EXCEPT ![c] = w] /\ filed' = filed /\ vault' = vault
      /\ w.at = "ready" /\ w.seen = seen /\ w.was = vault /\ w.is = new
      /\ archivist[c].at = "between"
  BY DEF Room!Continues, Room!Ready
<1> HIDE DEF w
<1>2. archivist'[c] = w
  BY <1>1 DEF ChainIInv, EvidenceIInv
<1>3. Vaulted(vault) /\ Vaulted(new)
  <2>1. Filed(new)
    BY <1>1, <1>2 DEF EvidenceIInv, ArchivistOK
  <2>2. QED
    BY <2>1 DEF ChainIInv, Vaulted
<1>4. Vaulted(seen) /\ Later(seen, vault)
  BY <1>1 DEF ChainIInv, ArchivingOK
<1>5. Later(vault, vault)
  BY SameRowsAreLater
<1> HIDE DEF seen
<1>6. /\ \A n \in 1 .. MaxFilings :
            \/ new.log[n] = vault.log[n]
            \/ /\ vault.log[n].state = "open" /\ new.log[n].state = "chained"
               /\ new.log[n].by = vault.log[n].by
      /\ \/ new.log = ChainedLog(vault, TailHash(seen))
         \/ \A n \in 1 .. MaxFilings : new.log[n] = vault.log[n]
  <2>1. CASE new.log = vault.log
    BY <2>1
  <2>2. CASE new.log = ChainedLog(vault, TailHash(seen))
    <3>1. TailHash(seen) \in Seq(Link)
      BY <1>4, TailType
    <3>2. QED
      BY <1>3, <2>2, <3>1, LinkedRows
  <2>3. QED
    BY <2>1, <2>2 DEF seen
<1>7. \A n \in 1 .. MaxFilings : ~Writes(vault.log[n], new.log[n])
  BY <1>6 DEF Writes, Unlogged
<1>8. Grows(vault, new, vault)
  BY <1>6 DEF Grows, Advances
<1>9. ArchivingOK(w, vault, filed')
  BY <1>1, <1>3, <1>4, <1>5, <1>6, <1>7, <1>8 DEF ArchivingOK, FilingOK
<1>10. filed' \in {filed, filed + 1} /\ \A n \in 1 .. MaxFilings :
            Writes(w.was.log[n], w.is.log[n]) => n > filed
  BY <1>1, <1>7
<1>11. QED
  BY <1>1, <1>9, <1>10, WorkKeepsChain

(* what c commits over rows that others may have moved on meanwhile *)
LEMMA SavedRows ==
    ASSUME ChainIInv, NEW c \in Archivists, SaveEvidence(c)
    PROVE  LET w == archivist[c]
           IN  /\ vault' = Room!Merged(w.was, w.is, vault) /\ w.at = "ready"
               /\ FilingOK(w, vault, filed) /\ Vaulted(w.seen) /\ Vaulted(vault)
               /\ Vaulted(vault') /\ Later(vault, vault')
<1> DEFINE w == archivist[c]
<1>1. w.at = "ready" /\ vault' = Room!Merged(w.was, w.is, vault)
  BY DEF SaveEvidence, Room!Saves
<1>2. FilingOK(w, vault, filed) /\ Vaulted(w.seen) /\ Vaulted(vault)
  BY <1>1 DEF ChainIInv, ArchivingOK
<1> HIDE DEF w
<1>3. /\ Vaulted(w.was) /\ Vaulted(w.is) /\ Later(w.was, vault) /\ Grows(w.was, w.is, vault)
  BY <1>2 DEF FilingOK
<1>4. Vaulted(vault') /\ Later(vault, vault')
  BY <1>1, <1>2, <1>3, MergedVault
<1>5. QED
  BY <1>1, <1>2, <1>4 DEF w

LEMMA SaveKeepsChain ==
    ASSUME ChainIInv, EvidenceIInv', NEW c \in Archivists, SaveEvidence(c)
    PROVE  ChainIInv'
<1> DEFINE w == archivist[c]
<1>1. /\ w.at = "ready" /\ vault' = Room!Merged(w.was, w.is, vault)
      /\ FilingOK(w, vault, filed) /\ Vaulted(vault)
      /\ Vaulted(vault') /\ Later(vault, vault')
  BY SavedRows
<1>2. /\ Vaulted(w.was) /\ Vaulted(w.is) /\ Later(w.was, vault) /\ Grows(w.was, w.is, vault)
      /\ \A n \in 1 .. MaxFilings : Writes(w.was.log[n], w.is.log[n]) => n <= filed
  BY <1>1 DEF FilingOK
<1>3. filed' = filed /\ filed \in Int /\ w.rest = {}
  BY <1>1, EvidenceAssumption DEF SaveEvidence, Room!Saves, ChainIInv, EvidenceIInv, ArchivistOK
<1>4. archivist' = [archivist EXCEPT ![c] = Room!Idle]
  BY <1>3 DEF SaveEvidence, Room!Saves
<1>5. archivist'[c].at = "idle" /\ \A d \in Archivists : d # c => archivist'[d] = archivist[d]
  BY <1>4 DEF ChainIInv, EvidenceIInv, Room!Idle
<1>6. ASSUME NEW n \in 1 .. MaxFilings, vault.log[n] = Unlogged,
             ~Writes(w.was.log[n], w.is.log[n])
      PROVE  vault'.log[n] = Unlogged
  <2>1. Advances(w.was.log[n], w.is.log[n], vault.log[n]) /\ LaterRow(w.was.log[n], vault.log[n])
    BY <1>2 DEF Grows, Later
  <2>2. w.is.log[n] = w.was.log[n]
    BY <1>6, <2>1 DEF Advances, LaterRow, Unlogged
  <2> HIDE DEF w
  <2>3. vault'.log[n] = vault.log[n]
    BY <1>1, <1>2, <2>2, MergedVault
  <2>4. QED
    BY <1>6, <2>3
<1>7. ASSUME NEW n \in 1 .. MaxFilings, n > filed
      PROVE  vault'.log[n] = Unlogged
  <2>1. ~(n <= filed)
    BY <1>3, <1>7
  <2>2. QED
    BY <1>2, <1>6, <1>7, <2>1 DEF ChainIInv
<1>8. ASSUME NEW d \in Archivists
      PROVE  ArchivingOK(archivist'[d], vault', filed')
  <2>1. CASE d = c
    BY <1>5, <2>1 DEF ArchivingOK
  <2>2. CASE d # c
    <3> DEFINE v == archivist[d]
    <3>1. ArchivingOK(v, vault, filed)
      BY DEF ChainIInv
    <3>2. v.at = "ready" => \A n \in 1 .. MaxFilings :
            ~(Writes(v.was.log[n], v.is.log[n]) /\ Writes(w.was.log[n], w.is.log[n]))
      BY <1>1, <2>2 DEF ChainIInv, RowsApart
    <3> HIDE DEF v, w
    <3>3. ASSUME v.at = "idle" PROVE ArchivingOK(v, vault', filed)
      BY <3>3 DEF ArchivingOK
    <3>4. ASSUME v.at \in {"between", "ready"} PROVE ArchivingOK(v, vault', filed)
      <4>1. Vaulted(v.seen) /\ Later(v.seen, vault)
        BY <3>1, <3>4 DEF ArchivingOK
      <4>2. Later(v.seen, vault')
        BY <1>1, <4>1, LaterRows
      <4>3. ASSUME v.at = "ready" PROVE FilingOK(v, vault', filed)
        <5>1. FilingOK(v, vault, filed)
          BY <3>1, <4>3 DEF ArchivingOK
        <5>2. Later(v.was, vault')
          BY <1>1, <5>1, LaterRows DEF FilingOK
        <5>3. ASSUME NEW n \in 1 .. MaxFilings
              PROVE  Advances(v.was.log[n], v.is.log[n], vault'.log[n])
          <6>1. Advances(v.was.log[n], v.is.log[n], vault.log[n])
            BY <5>1 DEF FilingOK, Grows
          <6>2. CASE Writes(v.was.log[n], v.is.log[n]) /\ vault.log[n] = Unlogged
            <7>1. ~Writes(w.was.log[n], w.is.log[n])
              BY <3>2, <4>3, <6>2
            <7>2. vault'.log[n] = Unlogged
              BY <1>6, <6>2, <7>1
            <7>3. QED
              BY <6>2, <7>2 DEF Advances
          <6>3. QED
            BY <6>1, <6>2 DEF Advances
        <5>4. Grows(v.was, v.is, vault')
          BY <5>1, <5>3 DEF Grows, FilingOK
        <5>5. QED
          BY <5>1, <5>2, <5>4 DEF FilingOK
      <4>4. QED
        BY <3>4, <4>1, <4>2, <4>3 DEF ArchivingOK
    <3>5. ArchivingOK(v, vault', filed)
      BY <3>1, <3>3, <3>4 DEF ArchivingOK
    <3>6. QED
      BY <1>3, <1>5, <2>2, <3>5 DEF v
  <2>3. QED
    BY <2>1, <2>2
<1>9. RowsApart'
  <2>1. \A d \in Archivists : archivist'[d].at = "ready" => archivist'[d] = archivist[d]
    BY <1>5
  <2>2. RowsApart
    BY DEF ChainIInv
  <2>3. QED
    BY <2>1, <2>2 DEF RowsApart
<1>10. \A n \in 1 .. MaxFilings : n > filed' => vault'.log[n] = Unlogged
  BY <1>3, <1>7
<1>11. QED
  BY <1>1, <1>8, <1>9, <1>10 DEF ChainIInv

LEMMA DropKeepsChain ==
    ASSUME ChainIInv, EvidenceIInv', NEW c \in Archivists, DropEvidence(c)
    PROVE  ChainIInv'
<1>1. /\ archivist' = [archivist EXCEPT ![c] = Room!Idle] /\ vault' = vault
      /\ filed' \in {filed, filed + 1}
  BY DEF DropEvidence, Room!Drops
<1>2. Room!Idle.at = "idle" /\ ArchivingOK(Room!Idle, vault, filed')
  BY DEF Room!Idle, ArchivingOK
<1>3. QED
  BY <1>1, <1>2, WorkKeepsChain

(* time, and a tenant who comes back, touch the files only *)
LEMMA OutsideLeavesTrail ==
    ASSUME ChainIInv, YearsPass \/ \E r \in Records : ComesBack(r)
    PROVE  /\ vault'.log = vault.log /\ vault'.member = vault.member /\ vault'.hold = vault.hold
           /\ UNCHANGED <<archivist, filed>>
<1>1. DOMAIN vault = {"log", "member", "hold", "file"}
  BY DEF ChainIInv, Vaulted, Filed
<1>2. QED
  BY <1>1 DEF YearsPass, ComesBack

LEMMA OutsideKeepsChain ==
    ASSUME ChainIInv, EvidenceIInv', YearsPass \/ \E r \in Records : ComesBack(r)
    PROVE  ChainIInv'
<1>1. /\ vault'.log = vault.log /\ vault'.member = vault.member /\ vault'.hold = vault.hold
      /\ archivist' = archivist /\ filed' = filed
  BY OutsideLeavesTrail
<1>2. Vaulted(vault')
  BY <1>1 DEF ChainIInv, EvidenceIInv, Vaulted, Trail
<1>3. \A n \in 1 .. MaxFilings : n > filed' => vault'.log[n] = Unlogged
  BY <1>1 DEF ChainIInv
<1>4. ASSUME NEW c \in Archivists PROVE ArchivingOK(archivist'[c], vault', filed')
  <2>1. ArchivingOK(archivist[c], vault, filed)
    BY DEF ChainIInv
  <2>2. \A rows : Later(rows, vault) => Later(rows, vault')
    BY <1>1 DEF Later
  <2>3. \A was, is : Grows(was, is, vault) => Grows(was, is, vault')
    BY <1>1 DEF Grows
  <2>4. QED
    BY <1>1, <2>1, <2>2, <2>3 DEF ArchivingOK, FilingOK
<1>5. RowsApart'
  BY <1>1 DEF ChainIInv, RowsApart
<1>6. QED
  BY <1>2, <1>3, <1>4, <1>5 DEF ChainIInv

(* What the handlers write. *)
LEMMA LoggedTrail ==
    ASSUME ChainIInv, filed < MaxFilings, NEW by \in Members \cup {Nobody},
           NEW new, new = Logged(by)
    PROVE  /\ WritesNext(new) /\ DOMAIN new = {"log", "member", "hold", "file"}
           /\ new.member = vault.member /\ new.hold = vault.hold
<1> DEFINE row == [state |-> "open", by |-> by, hash |-> <<>>]
<1>1. /\ filed + 1 \in 1 .. MaxFilings /\ filed + 1 > filed
      /\ Vaulted(vault) /\ DOMAIN vault = {"log", "member", "hold", "file"}
  BY EvidenceAssumption DEF ChainIInv, EvidenceIInv, Vaulted, Filed
<1>2. vault.log[filed + 1] = Unlogged
  BY <1>1 DEF ChainIInv
<1>3. row \in LogRow /\ RowOK(row) /\ Writes(Unlogged, row)
  BY DEF LogRow, RowOK, Writes
<1>4. /\ new.log = [vault.log EXCEPT ![filed + 1] = row]
      /\ DOMAIN new = {"log", "member", "hold", "file"}
      /\ new.member = vault.member /\ new.hold = vault.hold
  BY <1>1 DEF Logged
<1> HIDE DEF row
<1>5. /\ new.log \in [1 .. MaxFilings -> LogRow] /\ new.log[filed + 1] = row
      /\ \A n \in 1 .. MaxFilings : n # filed + 1 => new.log[n] = vault.log[n]
  BY <1>1, <1>3, <1>4 DEF Vaulted, Trail
<1>6. Trail(new)
  BY <1>1, <1>3, <1>4, <1>5 DEF Vaulted, Trail
<1>7. \A m \in Members : new.member[m].here => vault.member[m].here
  BY <1>4
<1>8. \A n \in 1 .. MaxFilings :
        new.log[n] = vault.log[n] \/ (n = filed + 1 /\ Writes(vault.log[n], new.log[n]))
  BY <1>2, <1>3, <1>5
<1>9. QED
  BY <1>4, <1>6, <1>7, <1>8 DEF WritesNext

LEMMA LoggedAndRemoved ==
    ASSUME ChainIInv, filed < MaxFilings, NEW by \in Members \cup {Nobody}, NEW m \in Members
    PROVE  WritesNext([Logged(by) EXCEPT !.member[m].here = FALSE])
<1> DEFINE new == [Logged(by) EXCEPT !.member[m].here = FALSE]
           old == Logged(by)
           row == [old.member[m] EXCEPT !.here = FALSE]
<1>1. /\ WritesNext(old) /\ DOMAIN old = {"log", "member", "hold", "file"}
      /\ old.member = vault.member
  BY LoggedTrail
<1>2. /\ new.log = old.log /\ new.hold = old.hold
      /\ new.member = [vault.member EXCEPT ![m] = row]
  BY <1>1
<1>3. vault.member \in [Members -> [here : BOOLEAN]]
  BY DEF ChainIInv, Vaulted, Trail
<1>4. row \in [here : BOOLEAN] /\ row.here = FALSE
  BY <1>1, <1>3
<1> HIDE DEF new, old, row
<1>5. /\ new.member \in [Members -> [here : BOOLEAN]]
      /\ new.member[m] = row /\ \A k \in Members : k # m => new.member[k] = vault.member[k]
  BY <1>2, <1>3, <1>4
<1>6. \A k \in Members : new.member[k].here => vault.member[k].here
  BY <1>4, <1>5
<1>7. WritesNext(new)
  BY <1>1, <1>2, <1>5, <1>6 DEF WritesNext, Trail
<1>8. QED
  BY <1>7 DEF new

(* rows with the trail of the books *)
LEMMA SameTrail ==
    ASSUME ChainIInv, NEW new, new.log = vault.log, new.member = vault.member,
           new.hold \in [HoldIds -> HoldRow]
    PROVE  WritesNext(new) /\ Trail(new)
BY DEF ChainIInv, Vaulted, Trail, WritesNext

LEMMA WithoutTrail ==
    ASSUME ChainIInv, NEW gone, NEW how, NEW new, new = Without(vault, gone, how)
    PROVE  /\ new.log = vault.log /\ new.member = vault.member
           /\ new.hold \in [HoldIds -> HoldRow]
<1>1. DOMAIN vault = {"log", "member", "hold", "file"} /\ vault.hold \in [HoldIds -> HoldRow]
  BY DEF ChainIInv, Vaulted, Filed, Trail
<1>2. QED
  BY <1>1 DEF Without

LEMMA HandlerKeepsChain ==
    ASSUME ChainIInv, EvidenceIInv', NEW c \in Archivists, EvidenceHandler(c)
    PROVE  ChainIInv'
<1>1. /\ DOMAIN vault = {"log", "member", "hold", "file"} /\ Trail(vault)
      /\ vault.hold \in [HoldIds -> HoldRow]
  BY DEF ChainIInv, Vaulted, Filed, Trail
<1>2. ASSUME NEW new, Room!Prepares(c, new) PROVE filed < MaxFilings
  BY <1>2 DEF Room!Prepares, Room!PreparesOne, Room!Begins
<1>3. ASSUME StartChain(c) \/ StartSweep(c) PROVE ChainIInv'
  BY <1>3, StartsKeepsChain DEF StartChain, StartSweep
<1>4. ASSUME ChainNewEntries(c) PROVE ChainIInv'
  <2> DEFINE seen == archivist[c].seen
             log == ChainedLog(vault, TailHash(seen))
             new == [vault EXCEPT !.log = log]
  <2>1. Room!Continues(c, new, {}) /\ archivist[c].at = "between"
    BY <1>4 DEF ChainNewEntries
  <2>2. Vaulted(seen) /\ Vaulted(vault)
    BY <2>1 DEF ChainIInv, ArchivingOK
  <2>3. TailHash(seen) \in Seq(Link)
    BY <2>2, TailType
  <2>4. log \in [1 .. MaxFilings -> LogRow] /\ \A n \in 1 .. MaxFilings : RowOK(log[n])
    BY <2>2, <2>3, LinkedRows
  <2>5. new.log = log /\ new.member = vault.member /\ new.hold = vault.hold
    BY <1>1
  <2>6. log = ChainedLog(vault, TailHash(archivist[c].seen))
    OBVIOUS
  <2> HIDE DEF new, log, seen
  <2>7. Trail(new)
    BY <1>1, <2>4, <2>5 DEF Trail
  <2>8. QED
    BY <2>1, <2>5, <2>6, <2>7, ContinuesKeepsChain
<1>5. ASSUME Sweep(c) PROVE ChainIInv'
  <2> DEFINE gone == {r \in PastRetention(archivist[c].seen) :
                        KindOf[r] \in {"tenant", "application"} => ~ActiveHold(vault, r)}
             new == Without(vault, gone, "swept")
  <2>1. Room!Continues(c, new, {})
    BY <1>5 DEF Sweep
  <2>2. new.log = vault.log /\ new.member = vault.member /\ new.hold \in [HoldIds -> HoldRow]
    BY WithoutTrail
  <2> HIDE DEF new
  <2>3. Trail(new)
    BY <2>2, SameTrail
  <2>4. QED
    BY <2>1, <2>2, <2>3, ContinuesKeepsChain
<1>6. ASSUME RemoveDemo(c) PROVE ChainIInv'
  <2> DEFINE gone == {r \in Records : KindOf[r] = "demo" /\ vault.file[r].gone = "no"}
             new == Without(vault, gone, "asked")
  <2>1. Room!Prepares(c, new)
    BY <1>6 DEF RemoveDemo
  <2>2. new.log = vault.log /\ new.member = vault.member /\ new.hold \in [HoldIds -> HoldRow]
    BY WithoutTrail
  <2> HIDE DEF new
  <2>3. WritesNext(new)
    BY <2>2, SameTrail
  <2>4. QED
    BY <2>1, <2>3, PreparesKeepsChain
<1>7. ASSUME NEW by \in Members \cup {Nobody}, Record(c, by) PROVE ChainIInv'
  <2>1. Room!Prepares(c, Logged(by))
    BY <1>7 DEF Record
  <2>2. WritesNext(Logged(by))
    BY <1>2, <2>1, LoggedTrail
  <2>3. QED
    BY <2>1, <2>2, PreparesKeepsChain
<1>8. ASSUME NEW m \in Members, NEW by \in Members, RemoveMember(c, m, by) PROVE ChainIInv'
  <2> DEFINE new == [Logged(by) EXCEPT !.member[m].here = FALSE]
  <2>1. Room!Prepares(c, new)
    BY <1>8 DEF RemoveMember
  <2>2. filed < MaxFilings
    BY <1>2, <2>1
  <2>3. WritesNext(new)
    BY <2>2, LoggedAndRemoved
  <2> HIDE DEF new
  <2>4. QED
    BY <2>1, <2>3, PreparesKeepsChain
<1>9. ASSUME NEW h \in HoldIds, NEW on \in Records \cup {"organization"}, PlaceHold(c, h, on)
      PROVE  ChainIInv'
  <2> DEFINE row == [on |-> on, open |-> TRUE]
             new == [vault EXCEPT !.hold[h] = row]
  <2>1. Room!Prepares(c, new)
    BY <1>9 DEF PlaceHold
  <2>2. row \in HoldRow
    BY DEF HoldRow
  <2> HIDE DEF row
  <2>3. /\ new.log = vault.log /\ new.member = vault.member
        /\ new.hold = [vault.hold EXCEPT ![h] = row]
    BY <1>1
  <2> HIDE DEF new
  <2>4. WritesNext(new)
    BY <1>1, <2>2, <2>3, SameTrail
  <2>5. QED
    BY <2>1, <2>4, PreparesKeepsChain
<1>10. ASSUME NEW h \in HoldIds, ReleaseHold(c, h) PROVE ChainIInv'
  <2> DEFINE row == [vault.hold[h] EXCEPT !.open = FALSE]
             new == [vault EXCEPT !.hold[h].open = FALSE]
  <2>1. Room!Prepares(c, new)
    BY <1>10 DEF ReleaseHold
  <2>2. row \in HoldRow
    BY <1>1 DEF HoldRow
  <2>3. /\ new.log = vault.log /\ new.member = vault.member
        /\ new.hold = [vault.hold EXCEPT ![h] = row]
    BY <1>1
  <2> HIDE DEF row, new
  <2>4. WritesNext(new)
    BY <1>1, <2>2, <2>3, SameTrail
  <2>5. QED
    BY <2>1, <2>4, PreparesKeepsChain
<1>11. ASSUME NEW r \in Records, EraseTenantData(c, r) PROVE ChainIInv'
  <2> DEFINE new == [vault EXCEPT !.file[r].gone = "asked"]
  <2>1. Room!Prepares(c, new)
    BY <1>11 DEF EraseTenantData
  <2>2. new.log = vault.log /\ new.member = vault.member /\ new.hold = vault.hold
    BY <1>1
  <2> HIDE DEF new
  <2>3. WritesNext(new)
    BY <1>1, <2>2, SameTrail
  <2>4. QED
    BY <2>1, <2>3, PreparesKeepsChain
<1> HIDE DEF ChainIInv
<1>12. QED
  BY <1>3, <1>4, <1>5, <1>6, <1>7, <1>8, <1>9, <1>10, <1>11 DEF EvidenceHandler

LEMMA NextChainIInv == ChainIInv /\ [EvidenceNext]_evidenceVars => ChainIInv'
<1> SUFFICES ASSUME ChainIInv, [EvidenceNext]_evidenceVars PROVE ChainIInv'
  OBVIOUS
<1>1. EvidenceIInv'
  BY EvidenceNextKeeps DEF ChainIInv
<1>2. CASE UNCHANGED evidenceVars
  <2>1. vault' = vault /\ archivist' = archivist /\ filed' = filed
    BY <1>2 DEF evidenceVars
  <2>2. RowsApart'
    BY <2>1 DEF RowsApart, ChainIInv
  <2>3. QED
    BY <1>1, <2>1, <2>2 DEF ChainIInv
<1>3. CASE EvidenceNext
  BY <1>1, <1>3, StepsOfEvidence, OutsideKeepsChain, SaveKeepsChain, DropKeepsChain, HandlerKeepsChain
<1>4. QED
  BY <1>2, <1>3

LEMMA ChainInvariance == EvidenceSpec => []ChainIInv
BY InitChainIInv, NextChainIInv, PTL DEF EvidenceSpec

(* The trail, the files and the requests in flight keep their types, in whatever
   order commits come. *)
THEOREM EvidenceIsWellTyped == EvidenceSpec => []EvidenceTypeOK
<1>1. ASSUME NEW rows, Vaulted(rows) PROVE IsVault(rows)
  <2>1. \A n \in 1 .. MaxFilings :
            /\ rows.log[n].state \in {"none", "open", "chained"}
            /\ rows.log[n].by \in Members \cup {Nobody}
            /\ rows.log[n].hash \in Seq((1 .. MaxFilings) \X (Members \cup {Nobody}))
    BY <1>1, LogCells, LogFields DEF Link
  <2>2. /\ rows.member \in [Members -> [here : BOOLEAN]]
        /\ rows.hold \in [HoldIds -> [on : Records \cup {"nothing", "organization"}, open : BOOLEAN]]
        /\ rows.file \in [Records -> [ripe : BOOLEAN, gone : {"no", "swept", "asked"}]]
    BY <1>1 DEF Vaulted, Trail, HoldRow, Filed, FileRow
  <2>3. QED
    BY <2>1, <2>2 DEF IsVault
<1>2. ChainIInv => EvidenceTypeOK
  <2> SUFFICES ASSUME ChainIInv PROVE EvidenceTypeOK
    OBVIOUS
  <2>1. IsVault(vault) /\ filed \in 0 .. MaxFilings
    BY <1>1 DEF ChainIInv, EvidenceIInv
  <2>2. ASSUME NEW c \in Archivists
        PROVE  Room!IsWork(archivist[c], IsVault, {"chain", "sweep"})
    <3>1. ArchivistOK(archivist[c]) /\ ArchivingOK(archivist[c], vault, filed)
      BY DEF ChainIInv, EvidenceIInv
    <3>2. archivist[c].at # "idle" => archivist[c].rest \subseteq {"chain", "sweep"}
      BY <3>1 DEF ArchivistOK
    <3>3. archivist[c].at # "idle" => IsVault(archivist[c].seen)
      BY <1>1, <3>1 DEF ArchivingOK
    <3>4. archivist[c].at = "ready" => IsVault(archivist[c].was) /\ IsVault(archivist[c].is)
      BY <1>1, <3>1 DEF ArchivingOK, FilingOK
    <3> HIDE DEF IsVault
    <3>5. archivist[c].at \in {"idle", "between", "ready"}
      BY <3>1 DEF ArchivingOK
    <3>6. QED
      BY <3>2, <3>3, <3>4, <3>5 DEF Room!IsWork
  <2>3. QED
    BY <2>1, <2>2 DEF EvidenceTypeOK
<1>3. QED
  BY <1>2, ChainInvariance, PTL

-----------------------------------------------------------------------------
(* The chain *)

(* Rows that are chained alike, with the same hashes, break at the same places. *)
LEMMA SameLinks ==
    ASSUME NEW old, NEW new, NEW n, Chained(new) = Chained(old),
           \A k \in Chained(old) : new.log[k].hash = old.log[k].hash,
           n \in BrokenLinks(new), n \notin BrokenLinks(old)
    PROVE  Author(old, n) # Author(new, n)
<1> DEFINE before == {k \in Chained(old) : k < n}
<1>1. n \in Chained(old) /\ new.log[n].hash = old.log[n].hash
  BY DEF BrokenLinks
<1>2. HashBefore(new, n) = HashBefore(old, n)
  <2>1. CASE before = {}
    BY <2>1 DEF HashBefore
  <2>2. CASE before # {}
    <3>1. Chained(old) \subseteq 1 .. MaxFilings /\ MaxFilings \in Nat
      BY EvidenceAssumption DEF Chained
    <3>2. before \subseteq 1 .. MaxFilings
      BY <3>1
    <3>3. Max(before) \in before
      BY <2>2, <3>1, <3>2, LastOf
    <3>4. new.log[Max(before)].hash = old.log[Max(before)].hash
      BY <3>3
    <3>5. QED
      BY <2>2, <3>4 DEF HashBefore
  <2>3. QED
    BY <2>1, <2>2
<1>3. /\ old.log[n].hash = HashEntry(old, n, HashBefore(old, n))
      /\ new.log[n].hash # HashEntry(new, n, HashBefore(new, n))
  BY <1>1 DEF BrokenLinks
<1>4. QED
  BY <1>1, <1>2, <1>3 DEF HashEntry

(* What a run leaves, when the rows it pends on are still as it read them: the rows
   chained before keep their hashes, and one of its own breaks only when it is older
   than a row that was chained before. *)
LEMMA LinksFollow ==
    ASSUME NEW old, NEW new, NEW was, Pending(was) = Pending(old),
           \A k \in Pending(old) : Author(was, k) = Author(old, k),
           NEW hash, hash = HashesFrom(was, TailHash(old)),
           Chained(new) = Chained(old) \cup Pending(old),
           \A k \in Chained(old) : new.log[k].hash = old.log[k].hash,
           \A k \in Pending(old) : new.log[k].hash = hash[k],
           \A k \in Pending(old), d \in Chained(old) : ~(k < d),
           NEW n, n \in BrokenLinks(new), n \notin BrokenLinks(old)
    PROVE  Author(old, n) # Author(new, n)
<1> DEFINE C == Chained(old)
           P == Pending(old)
           before == {k \in C \cup P : k < n}
<1>1. /\ C \subseteq 1 .. MaxFilings /\ P \subseteq 1 .. MaxFilings /\ MaxFilings \in Nat
      /\ C \cap P = {}
  BY EvidenceAssumption DEF Chained, Pending, OpenRows
<1>2. /\ n \in C \cup P
      /\ new.log[n].hash # HashEntry(new, n, HashBefore(new, n))
      /\ HashBefore(new, n) = IF before = {} THEN <<>> ELSE new.log[Max(before)].hash
  BY DEF BrokenLinks, HashBefore
<1>3. \A k \in P, d \in C : k \in 1 .. MaxFilings /\ d \in 1 .. MaxFilings /\ d < k
  <2> TAKE k \in P, d \in C
  <2>1. k # d /\ ~(k < d) /\ k \in 1 .. MaxFilings /\ d \in 1 .. MaxFilings
    BY <1>1
  <2>2. QED
    BY <2>1
<1>4. n \in 1 .. MaxFilings
  BY <1>1, <1>2
<1> HIDE DEF C, P
<1>5. CASE n \in C
  <2>1. before = {k \in C : k < n}
    <3>1. \A k \in P : ~(k < n)
      BY <1>3, <1>5
    <3>2. QED
      BY <3>1
  <2>2. before # {} => Max(before) \in C
    <3>1. before \subseteq 1 .. MaxFilings
      BY <1>1, <2>1
    <3>2. before # {} => Max(before) \in before
      BY <1>1, <3>1, LastOf
    <3>3. QED
      BY <2>1, <3>2
  <2>3. HashBefore(new, n) = HashBefore(old, n)
    <3>1. HashBefore(old, n) = IF before = {} THEN <<>> ELSE old.log[Max(before)].hash
      BY <2>1 DEF HashBefore, C
    <3>2. before # {} => new.log[Max(before)].hash = old.log[Max(before)].hash
      BY <2>2 DEF C
    <3>3. QED
      BY <1>2, <3>1, <3>2
  <2>4. /\ old.log[n].hash = HashEntry(old, n, HashBefore(old, n))
        /\ new.log[n].hash = old.log[n].hash
    BY <1>5 DEF BrokenLinks, C
  <2>5. QED
    BY <1>2, <2>3, <2>4 DEF HashEntry
<1>6. CASE n \in P
  <2> DEFINE S == UpTo(P, n - 1)
             Sbar == {k \in P : k < n}
  <2>1. n - 1 \in 0 .. MaxFilings
    BY <1>1, <1>4
  <2>2. hash[n] = HashEntry(old, n, hash[n - 1])
    <3>1. hash[n] = HashEntry(was, n, hash[n - 1])
      BY <1>4, <1>6, LoopAt DEF P
    <3>2. Author(was, n) = Author(old, n)
      BY <1>6 DEF P
    <3>3. QED
      BY <3>1, <3>2 DEF HashEntry
  <2>3. hash[n - 1] = IF S = {} THEN TailHash(old) ELSE hash[Max(S)]
    BY <2>1, LoopHolds DEF P
  <2>4. S = Sbar
    <3>1. \A k \in P : k <= n - 1 <=> k < n
      <4>1. \A k \in P : k \in Int
        BY <1>1
      <4>2. QED
        BY <1>4, <4>1
    <3>2. QED
      BY <3>1, Zenon DEF UpTo
  <2>5. before = C \cup S
    <3>1. \A d \in C : d < n
      BY <1>3, <1>6
    <3>2. QED
      BY <2>4, <3>1
  <2>6. S \subseteq P /\ S \subseteq 1 .. MaxFilings
    BY <1>1, <2>4
  <2>7. HashBefore(new, n) = hash[n - 1]
    <3> HIDE DEF S, before
    <3>1. CASE S = {}
      <4>1. before = C
        BY <2>5, <3>1
      <4>2. C # {} => Max(C) \in C
        BY <1>1, LastOf
      <4>3. C # {} => new.log[Max(C)].hash = old.log[Max(C)].hash
        BY <4>2 DEF C
      <4>4. TailHash(old) = IF C = {} THEN <<>> ELSE old.log[Max(C)].hash
        BY DEF TailHash, C
      <4>5. QED
        BY <1>2, <2>3, <3>1, <4>1, <4>3, <4>4
    <3>2. CASE S # {}
      <4> DEFINE m == Max(S)
      <4>1. m \in S /\ \A k \in S : k <= m
        BY <1>1, <2>6, <3>2, LastOf
      <4> HIDE DEF m
      <4>2. m \in P /\ \A d \in C : d <= m
        <5>1. m \in P
          BY <2>6, <4>1
        <5>2. \A d \in C : d < m /\ d \in Int /\ m \in Int
          BY <1>3, <5>1
        <5>3. QED
          BY <5>1, <5>2
      <4>3. /\ m \in before /\ \A k \in before : k <= m
            /\ before \subseteq 1 .. MaxFilings /\ before # {}
        BY <1>1, <2>5, <2>6, <4>1, <4>2
      <4>4. Max(before) = m
        BY <1>1, <4>3, LastIs
      <4>5. new.log[m].hash = hash[m]
        BY <4>2 DEF P
      <4>6. QED
        BY <1>2, <2>3, <3>2, <4>3, <4>4, <4>5 DEF m
    <3>3. QED
      BY <3>1, <3>2
  <2>8. new.log[n].hash = hash[n]
    BY <1>6 DEF P
  <2>9. QED
    BY <1>2, <2>2, <2>7, <2>8 DEF HashEntry
<1>7. QED
  BY <1>2, <1>5, <1>6

(* what the property asks of a step that follows from rows that did not change *)
ChainMovesOn ==
    /\ \A n \in Chained(vault) : vault'.log[n].hash = vault.log[n].hash
    /\ \A n \in BrokenLinks(vault)' \ BrokenLinks(vault) :
          \/ Author(vault, n) # Author(vault, n)'
          \/ \E k \in Chained(vault)' \ Chained(vault) : \E d \in Chained(vault) : k < d

LEMMA SameTrailMovesOn ==
    ASSUME Chained(vault)' = Chained(vault),
           \A n \in Chained(vault) : vault'.log[n].hash = vault.log[n].hash
    PROVE  ChainMovesOn
<1>1. /\ Chained(vault') = Chained(vault) /\ BrokenLinks(vault)' = BrokenLinks(vault')
      /\ \A n : Author(vault, n)' = Author(vault', n)
  OBVIOUS
<1>2. \A n \in BrokenLinks(vault') \ BrokenLinks(vault) : Author(vault, n) # Author(vault', n)
  BY <1>1, SameLinks
<1> HIDE DEF BrokenLinks, Author, Chained
<1>3. QED
  BY <1>1, <1>2 DEF ChainMovesOn

(* Rows that are later than others, and earlier, have the same trail but for hashes. *)
LEMMA SameTrailOfRows ==
    ASSUME NEW was, NEW now, Vaulted(was), Vaulted(now), Later(was, now), Later(now, was)
    PROVE  /\ \A n \in 1 .. MaxFilings : was.log[n].state = now.log[n].state
           /\ Pending(was) = Pending(now)
           /\ \A n \in 1 .. MaxFilings : Author(was, n) = Author(now, n)
<1>1. ASSUME NEW n \in 1 .. MaxFilings
      PROVE  was.log[n].state = now.log[n].state /\ was.log[n].by = now.log[n].by
  <2>1. /\ LaterRow(was.log[n], now.log[n]) /\ LaterRow(now.log[n], was.log[n])
        /\ RowOK(was.log[n]) /\ RowOK(now.log[n])
        /\ was.log[n].state \in {"none", "open", "chained"}
        /\ now.log[n].state \in {"none", "open", "chained"}
    BY LogCells, LogFields DEF Later
  <2>2. QED
    BY <2>1 DEF LaterRow, RowOK
<1>2. \A m \in Members : was.member[m].here <=> now.member[m].here
  BY DEF Later
<1>3. OpenRows(was) = OpenRows(now)
  BY <1>1, Zenon DEF OpenRows
<1>4. Here(was) = Here(now)
  BY <1>2, Zenon DEF Here
<1>5. Pending(was) = Pending(now)
  BY <1>3 DEF Pending
<1>6. QED
  BY <1>1, <1>4, <1>5 DEF Author

LEMMA SaveMovesOn ==
    ASSUME ChainIInv, NEW c \in Archivists, SaveEvidence(c), archivist[c].seen = vault
    PROVE  ChainMovesOn
<1> DEFINE w == archivist[c]
<1>1. /\ w.at = "ready" /\ vault' = Room!Merged(w.was, w.is, vault)
      /\ FilingOK(w, vault, filed) /\ Vaulted(vault)
  BY SavedRows
<1>2. /\ Vaulted(w.was) /\ Vaulted(w.is) /\ Later(w.was, vault) /\ Later(vault, w.was)
      /\ Grows(w.was, w.is, vault)
      /\ \/ w.is.log = ChainedLog(w.was, TailHash(vault))
         \/ \A n \in 1 .. MaxFilings :
                w.is.log[n] = w.was.log[n] \/ Writes(w.was.log[n], w.is.log[n])
  BY <1>1 DEF FilingOK
<1> DEFINE was == w.was
           is == w.is
           new == vault'
<1>3. \A n \in 1 .. MaxFilings :
        /\ is.log[n] = was.log[n] => new.log[n] = vault.log[n]
        /\ Writes(was.log[n], is.log[n]) => new.log[n] = is.log[n]
        /\ was.log[n].state = "open" /\ is.log[n].state = "chained" =>
            /\ new.log[n].state = "chained"
            /\ new.log[n].hash = IF is.log[n].hash = was.log[n].hash
                                 THEN vault.log[n].hash ELSE is.log[n].hash
  BY <1>1, <1>2, MergedVault
<1>4. \A n : n \in Chained(vault)' <=> n \in 1 .. MaxFilings /\ new.log[n].state = "chained"
  BY DEF Chained
<1>5. \A n : n \in Chained(vault) <=> n \in 1 .. MaxFilings /\ vault.log[n].state = "chained"
  BY DEF Chained
<1>6. ASSUME \A n \in 1 .. MaxFilings : is.log[n] = was.log[n] \/ Writes(was.log[n], is.log[n])
      PROVE  ChainMovesOn
  <2>1. ASSUME NEW n \in 1 .. MaxFilings
        PROVE  /\ new.log[n].state = "chained" <=> vault.log[n].state = "chained"
               /\ vault.log[n].state = "chained" => new.log[n].hash = vault.log[n].hash
    <3>1. CASE is.log[n] = was.log[n]
      BY <1>3, <3>1
    <3>2. CASE Writes(was.log[n], is.log[n])
      <4>1. Advances(was.log[n], is.log[n], vault.log[n])
        BY <1>2 DEF Grows
      <4>2. vault.log[n] = Unlogged
        BY <3>2, <4>1 DEF Advances, Writes, Unlogged
      <4>3. new.log[n].state = "open" /\ vault.log[n].state = "none"
        BY <1>3, <3>2, <4>2 DEF Writes, Unlogged
      <4>4. QED
        BY <4>3
    <3>3. QED
      BY <1>6, <3>1, <3>2
  <2> HIDE DEF new, is, was
  <2>2. Chained(vault)' = Chained(vault)
    BY <1>4, <1>5, <2>1
  <2>3. \A n \in Chained(vault) : new.log[n].hash = vault.log[n].hash
    BY <1>5, <2>1
  <2>4. QED
    BY <2>2, <2>3, SameTrailMovesOn DEF new
<1>7. ASSUME is.log = ChainedLog(was, TailHash(vault))
      PROVE  ChainMovesOn
  <2> DEFINE hash == HashesFrom(was, TailHash(vault))
             P == Pending(vault)
  <2>1. /\ \A n \in 1 .. MaxFilings : was.log[n].state = vault.log[n].state
        /\ Pending(was) = P
        /\ \A n \in 1 .. MaxFilings : Author(was, n) = Author(vault, n)
    BY <1>1, <1>2, SameTrailOfRows
  <2>2. TailHash(vault) \in Seq(Link)
    BY <1>1, TailType
  <2>3. \A n \in 1 .. MaxFilings :
            /\ n \notin P => is.log[n] = was.log[n]
            /\ n \in P => /\ was.log[n].state = "open" /\ is.log[n].state = "chained"
                          /\ is.log[n].hash = hash[n]
    BY <1>2, <1>7, <2>1, <2>2, LinkedRows
  <2>4. P \subseteq 1 .. MaxFilings
    BY DEF Pending, OpenRows
  <2>5. \A n \in 1 .. MaxFilings : RowOK(was.log[n]) /\ RowOK(vault.log[n])
    BY <1>1, <1>2, LogCells
  <2>6. HashesFrom(was, TailHash(vault)) = hash
    OBVIOUS
  <2> HIDE DEF P, hash, is, was, new, w
  <2>7. \A n \in P : new.log[n].state = "chained" /\ new.log[n].hash = hash[n]
    <3> TAKE n \in P
    <3>1. n \in 1 .. MaxFilings /\ was.log[n].state = "open" /\ vault.log[n].state = "open"
      BY <2>1, <2>3, <2>4
    <3>2. was.log[n].hash = <<>> /\ vault.log[n].hash = <<>>
      BY <2>5, <3>1 DEF RowOK
    <3>3. QED
      BY <1>3, <2>3, <3>1, <3>2
  <2>8. \A n \in 1 .. MaxFilings : n \notin P => new.log[n] = vault.log[n]
    BY <1>3, <2>3
  <2>9. \A n \in P : vault.log[n].state = "open"
    BY <2>1, <2>3, <2>4
  <2>10. Chained(vault)' = Chained(vault) \cup P /\ Chained(vault) \cap P = {}
    <3>1. \A n : n \in Chained(vault)' <=> n \in Chained(vault) \/ n \in P
      <4>1. ASSUME NEW n, n \in P
            PROVE  n \in Chained(vault)'
        BY <1>4, <2>4, <2>7, <4>1
      <4>2. ASSUME NEW n, n \notin P
            PROVE  n \in Chained(vault)' <=> n \in Chained(vault)
        BY <1>4, <1>5, <2>8, <4>2
      <4>3. QED
        BY <4>1, <4>2
    <3>2. \A n \in P : n \notin Chained(vault)
      BY <1>5, <2>9
    <3>3. QED
      BY <3>1, <3>2, Zenon
  <2>11. \A n \in Chained(vault) : new.log[n].hash = vault.log[n].hash
    BY <1>5, <2>8, <2>10
  <2>12. CASE \E k \in P, d \in Chained(vault) : k < d
    <3>1. PICK k \in P : \E d \in Chained(vault) : k < d
      BY <2>12
    <3>2. k \in Chained(vault)' \ Chained(vault)
      BY <2>10
    <3>3. QED
      BY <2>11, <3>1, <3>2 DEF ChainMovesOn, new
  <2>13. CASE \A k \in P, d \in Chained(vault) : ~(k < d)
    <3>1. /\ Chained(new) = Chained(vault) \cup Pending(vault)
          /\ Pending(was) = Pending(vault)
          /\ \A k \in Pending(vault) : Author(was, k) = Author(vault, k)
          /\ \A k \in Pending(vault) : new.log[k].hash = hash[k]
          /\ \A k \in Pending(vault), d \in Chained(vault) : ~(k < d)
      BY <2>1, <2>4, <2>7, <2>10, <2>13 DEF P, new
    <3>2. \A n \in BrokenLinks(new) \ BrokenLinks(vault) : Author(vault, n) # Author(new, n)
      BY <2>6, <2>11, <3>1, LinksFollow
    <3>3. BrokenLinks(vault)' = BrokenLinks(new) /\ \A n : Author(vault, n)' = Author(new, n)
      BY DEF new
    <3> HIDE DEF BrokenLinks, Author, Chained
    <3>4. QED
      BY <2>11, <3>2, <3>3 DEF ChainMovesOn, new
  <2>14. QED
    BY <2>12, <2>13
<1>8. QED
  BY <1>2, <1>6, <1>7

(* audit_chain_service.py:15-18: whatever requests, chain runs and sweeps overlap, a
   hash that is set stays as it is and verify_chain stops nowhere new, unless a
   commit follows from rows that changed, an author is removed, or a run chains a
   row that is older than one chained before. *)
THEOREM LateOrTwofoldWorkAloneBreaksTheChain ==
    EvidenceSpec => OnlyLateOrTwofoldWorkBreaksTheChain
<1>1. ASSUME ChainIInv, [EvidenceNext]_evidenceVars
      PROVE  (\E c \in Archivists : Room!StaleSave(c)) \/ ChainMovesOn
  <2>1. ASSUME vault'.log = vault.log PROVE ChainMovesOn
    <3>1. Chained(vault)' = Chained(vault)
      BY <2>1 DEF Chained
    <3>2. QED
      BY <2>1, <3>1, SameTrailMovesOn
  <2>2. CASE UNCHANGED vault
    BY <2>1, <2>2
  <2>3. CASE EvidenceNext
    <3>1. CASE YearsPass \/ \E r \in Records : ComesBack(r)
      BY <1>1, <2>1, <3>1, OutsideLeavesTrail
    <3>2. ASSUME NEW c \in Archivists, DropEvidence(c) \/ EvidenceHandler(c)
          PROVE  ChainMovesOn
      <4>1. EvidenceIInv
        BY <1>1 DEF ChainIInv
      <4>2. UNCHANGED vault
        BY <3>2, <4>1, EvidenceDropKeeps, EvidenceHandlerKeeps
      <4>3. QED
        BY <2>1, <4>2
    <3>3. ASSUME NEW c \in Archivists, SaveEvidence(c)
          PROVE  Room!StaleSave(c) \/ ChainMovesOn
      <4>1. CASE archivist[c].seen = vault
        BY <1>1, <3>3, <4>1, SaveMovesOn
      <4>2. CASE archivist[c].seen # vault
        BY <3>3, <4>2 DEF SaveEvidence, Room!StaleSave
      <4>3. QED
        BY <4>1, <4>2
    <3>4. QED
      BY <2>3, <3>1, <3>2, <3>3, StepsOfEvidence
  <2>4. QED
    BY <1>1, <2>2, <2>3 DEF evidenceVars
<1>2. ChainIInv /\ [EvidenceNext]_evidenceVars =>
        [(\E c \in Archivists : Room!StaleSave(c)) \/ ChainMovesOn]_evidenceVars
  BY <1>1
<1>3. QED
  BY <1>2, ChainInvariance, PTL DEF EvidenceSpec, OnlyLateOrTwofoldWorkBreaksTheChain, ChainMovesOn
-----------------------------------------------------------------------------
(* The next tenant of a unit: Applications *)

PlaceRow ==
    [status : {"VACANT", "RESERVED", "OCCUPIED"}, let : BOOLEAN,
     listing : {"none", "DRAFT", "PUBLISHED", "CLOSED"}]

LeadRow ==
    [stage : OpenLead \cup {"none", "APPROVED", "REJECTED", "LOST"}, joined : BOOLEAN]

FormRow == [status : OpenApplication \cup Decided \cup {"none"}, score : 0 .. 100]

BackerRow == [status : {"none", "PENDING", "ACKNOWLEDGED", "DECLINED"}, deed : BOOLEAN]

LandlordRow == [status : {"none", "SENT", "POSITIVE", "NEGATIVE", "NO_RESPONSE"}]

Tables(unit, lead, application, guarantor, reference) ==
    [unit |-> unit, lead |-> lead, application |-> application,
     guarantor |-> guarantor, reference |-> reference]

FormRows ==
    [unit : [{"unit"} -> PlaceRow], lead : [Applicants -> LeadRow],
     application : [Applicants -> FormRow],
     guarantor : [Applicants \X Backers -> BackerRow],
     reference : [Applicants -> LandlordRow]]

(* the score of one application is what its answers give, once it is open *)
ScoredAs(rows, p) ==
    rows.application[p].status \in OpenApplication =>
        rows.application[p].score = Score(rows, p)

(* what decides the points of an applicant is the same in both *)
SamePoints(was, is, p) ==
    /\ \A b \in Backers : is.guarantor[<<p, b>>] = was.guarantor[<<p, b>>]
    /\ is.reference[p] = was.reference[p]

(* A handler moves no answer of an applicant without scoring the application, and
   opens none with another score. *)
KeepsScore(was, is, p) == ScoredAs(was, p) => ScoredAs(is, p)

KeepsScores(was, is) == \A p \in Applicants : KeepsScore(was, is, p)

(* a request in flight read what it looks at in one go *)
ReaderOK(w) ==
    \/ w.at = "idle"
    \/ /\ w.at = "ready" /\ w.rest = {} /\ w.seen = w.was
       /\ w.was \in FormRows /\ w.is \in FormRows /\ KeepsScores(w.was, w.is)

ApplicationsIInv ==
    /\ posted \in 0 .. MaxPosts
    /\ reader = [r \in Readers |-> reader[r]]
    /\ files \in FormRows
    /\ \A r \in Readers : ReaderOK(reader[r])

-----------------------------------------------------------------------------
(* Rows and scores *)

LEMMA FormColumns ==
    ASSUME NEW rows \in FormRows
    PROVE  /\ DOMAIN rows = {"unit", "lead", "application", "guarantor", "reference"}
           /\ rows.unit \in [{"unit"} -> PlaceRow] /\ rows.lead \in [Applicants -> LeadRow]
           /\ rows.application \in [Applicants -> FormRow]
           /\ rows.guarantor \in [Applicants \X Backers -> BackerRow]
           /\ rows.reference \in [Applicants -> LandlordRow]
           /\ \A t \in DOMAIN rows : rows[t] = [k \in DOMAIN rows[t] |-> rows[t][k]]
           /\ \A t \in DOMAIN rows : \A k \in DOMAIN rows[t] :
                rows[t][k] = [c \in DOMAIN rows[t][k] |-> rows[t][k][c]]
<1>1. /\ DOMAIN rows = {"unit", "lead", "application", "guarantor", "reference"}
      /\ rows.unit \in [{"unit"} -> PlaceRow] /\ rows.lead \in [Applicants -> LeadRow]
      /\ rows.application \in [Applicants -> FormRow]
      /\ rows.guarantor \in [Applicants \X Backers -> BackerRow]
      /\ rows.reference \in [Applicants -> LandlordRow]
  BY DEF FormRows
<1>2. \A t \in DOMAIN rows : rows[t] = [k \in DOMAIN rows[t] |-> rows[t][k]]
  BY <1>1
<1>3. \A t \in DOMAIN rows : \A k \in DOMAIN rows[t] :
                rows[t][k] = [c \in DOMAIN rows[t][k] |-> rows[t][k][c]]
  BY <1>1 DEF PlaceRow, LeadRow, FormRow, BackerRow, LandlordRow
<1>4. QED
  BY <1>1, <1>2, <1>3

LEMMA FormCells ==
    ASSUME NEW rows \in FormRows
    PROVE  /\ DOMAIN rows.unit["unit"] = {"status", "let", "listing"}
           /\ \A p \in Applicants :
                /\ rows.lead[p] \in LeadRow /\ DOMAIN rows.lead[p] = {"stage", "joined"}
                /\ rows.application[p] \in FormRow
                /\ DOMAIN rows.application[p] = {"status", "score"}
                /\ rows.reference[p] \in LandlordRow /\ DOMAIN rows.reference[p] = {"status"}
           /\ \A g \in Applicants \X Backers :
                rows.guarantor[g] \in BackerRow /\ DOMAIN rows.guarantor[g] = {"status", "deed"}
BY DEF FormRows, PlaceRow, LeadRow, FormRow, BackerRow, LandlordRow

(* Tables of their types are rows; a handler replaces some of the tables. *)
LEMMA FormTables ==
    ASSUME NEW unit \in [{"unit"} -> PlaceRow], NEW lead \in [Applicants -> LeadRow],
           NEW application \in [Applicants -> FormRow],
           NEW guarantor \in [Applicants \X Backers -> BackerRow],
           NEW reference \in [Applicants -> LandlordRow]
    PROVE  Tables(unit, lead, application, guarantor, reference) \in FormRows
BY DEF FormRows, Tables

LEMMA FormTypes ==
    ASSUME NEW rows \in FormRows
    PROVE  /\ rows.unit \in [{"unit"} -> PlaceRow] /\ rows.lead \in [Applicants -> LeadRow]
           /\ rows.application \in [Applicants -> FormRow]
           /\ rows.guarantor \in [Applicants \X Backers -> BackerRow]
           /\ rows.reference \in [Applicants -> LandlordRow]
           /\ rows = Tables(rows.unit, rows.lead, rows.application, rows.guarantor,
                            rows.reference)
BY DEF FormRows, Tables

(* A commit leaves every column as the session or as the other sessions have it. *)
LEMMA MergedForms ==
    ASSUME NEW was, NEW is \in FormRows, NEW now \in FormRows
    PROVE  Post!Merged(was, is, now) \in FormRows
<1> DEFINE m == Post!Merged(was, is, now)
           Row(t, k) == Post!MergedRow(was[t][k], is[t][k], now[t][k])
<1>1. m = [t \in {"unit", "lead", "application", "guarantor", "reference"} |->
                [k \in DOMAIN now[t] |-> Row(t, k)]]
  BY FormColumns DEF Post!Merged
<1>2. /\ m.unit = [k \in {"unit"} |-> Row("unit", k)]
      /\ m.lead = [p \in Applicants |-> Row("lead", p)]
      /\ m.application = [p \in Applicants |-> Row("application", p)]
      /\ m.guarantor = [g \in Applicants \X Backers |-> Row("guarantor", g)]
      /\ m.reference = [p \in Applicants |-> Row("reference", p)]
      /\ m = Tables(m.unit, m.lead, m.application, m.guarantor, m.reference)
  BY <1>1, FormColumns DEF Tables
<1>3. ASSUME NEW a, NEW x \in PlaceRow, NEW y \in PlaceRow PROVE Post!MergedRow(a, x, y) \in PlaceRow
  <2>1. Post!MergedRow(a, x, y) =
          [status |-> IF x.status = a.status THEN y.status ELSE x.status,
           let |-> IF x.let = a.let THEN y.let ELSE x.let,
           listing |-> IF x.listing = a.listing THEN y.listing ELSE x.listing]
    BY DEF Post!MergedRow, PlaceRow
  <2>2. QED
    BY <2>1 DEF PlaceRow
<1>4. ASSUME NEW a, NEW x \in LeadRow, NEW y \in LeadRow PROVE Post!MergedRow(a, x, y) \in LeadRow
  <2>1. Post!MergedRow(a, x, y) =
          [stage |-> IF x.stage = a.stage THEN y.stage ELSE x.stage,
           joined |-> IF x.joined = a.joined THEN y.joined ELSE x.joined]
    BY DEF Post!MergedRow, LeadRow
  <2>2. QED
    BY <2>1 DEF LeadRow
<1>5. ASSUME NEW a, NEW x \in FormRow, NEW y \in FormRow PROVE Post!MergedRow(a, x, y) \in FormRow
  <2>1. Post!MergedRow(a, x, y) =
          [status |-> IF x.status = a.status THEN y.status ELSE x.status,
           score |-> IF x.score = a.score THEN y.score ELSE x.score]
    BY DEF Post!MergedRow, FormRow
  <2>2. QED
    BY <2>1 DEF FormRow
<1>6. ASSUME NEW a, NEW x \in BackerRow, NEW y \in BackerRow
      PROVE  Post!MergedRow(a, x, y) \in BackerRow
  <2>1. Post!MergedRow(a, x, y) =
          [status |-> IF x.status = a.status THEN y.status ELSE x.status,
           deed |-> IF x.deed = a.deed THEN y.deed ELSE x.deed]
    BY DEF Post!MergedRow, BackerRow
  <2>2. QED
    BY <2>1 DEF BackerRow
<1>7. ASSUME NEW a, NEW x \in LandlordRow, NEW y \in LandlordRow
      PROVE  Post!MergedRow(a, x, y) \in LandlordRow
  <2>1. Post!MergedRow(a, x, y) =
          [status |-> IF x.status = a.status THEN y.status ELSE x.status]
    BY DEF Post!MergedRow, LandlordRow
  <2>2. QED
    BY <2>1 DEF LandlordRow
<1>8. /\ \A k \in {"unit"} : Row("unit", k) \in PlaceRow
      /\ \A p \in Applicants : Row("lead", p) \in LeadRow
      /\ \A p \in Applicants : Row("application", p) \in FormRow
      /\ \A g \in Applicants \X Backers : Row("guarantor", g) \in BackerRow
      /\ \A p \in Applicants : Row("reference", p) \in LandlordRow
  BY <1>3, <1>4, <1>5, <1>6, <1>7, FormColumns
<1> HIDE DEF m, Row
<1>9. /\ m.unit \in [{"unit"} -> PlaceRow] /\ m.lead \in [Applicants -> LeadRow]
      /\ m.application \in [Applicants -> FormRow]
      /\ m.guarantor \in [Applicants \X Backers -> BackerRow]
      /\ m.reference \in [Applicants -> LandlordRow]
  BY <1>2, <1>8
<1>10. m \in FormRows
  BY <1>2, <1>9, FormTables
<1>11. QED
  BY <1>10 DEF m

(* A commit over the rows that were read writes what was prepared. *)
LEMMA PostSavesWhatItPrepared ==
    ASSUME NEW was \in FormRows, NEW is \in FormRows
    PROVE  Post!Merged(was, is, was) = is
<1>1. \A t \in DOMAIN was : DOMAIN is[t] = DOMAIN was[t]
  BY FormColumns
<1>2. \A t \in DOMAIN was : \A k \in DOMAIN was[t] : DOMAIN is[t][k] = DOMAIN was[t][k]
  <2>1. \A k \in DOMAIN was.unit : DOMAIN is.unit[k] = DOMAIN was.unit[k]
    BY FormColumns, FormCells
  <2>2. \A k \in DOMAIN was.lead : DOMAIN is.lead[k] = DOMAIN was.lead[k]
    BY FormColumns, FormCells
  <2>3. \A k \in DOMAIN was.application : DOMAIN is.application[k] = DOMAIN was.application[k]
    BY FormColumns, FormCells
  <2>4. \A k \in DOMAIN was.guarantor : DOMAIN is.guarantor[k] = DOMAIN was.guarantor[k]
    BY FormColumns, FormCells
  <2>5. \A k \in DOMAIN was.reference : DOMAIN is.reference[k] = DOMAIN was.reference[k]
    BY FormColumns, FormCells
  <2>6. DOMAIN was = {"unit", "lead", "application", "guarantor", "reference"}
    BY FormColumns
  <2>7. QED
    BY <2>1, <2>2, <2>3, <2>4, <2>5, <2>6
<1>3. \A t \in DOMAIN was : \A k \in DOMAIN was[t] :
        Post!MergedRow(was[t][k], is[t][k], was[t][k]) = is[t][k]
  BY <1>1, <1>2, FormColumns DEF Post!MergedRow
<1>4. \A t \in DOMAIN is : is[t] = [k \in DOMAIN is[t] |-> is[t][k]]
  BY FormColumns
<1>5. is = [t \in DOMAIN is |-> is[t]]
  BY DEF FormRows
<1>6. QED
  BY <1>1, <1>3, <1>4, <1>5, FormColumns DEF Post!Merged

(* A score lies between 0 and 100. *)
LEMMA ScoreRange ==
    ASSUME NEW rows, NEW p
    PROVE  Score(rows, p) \in 0 .. 100
<1>1. GuarantorPoints(rows, p) \in 0 .. 20
  BY DEF GuarantorPoints, WeightGuarantor
<1>2. ReferencePoints(rows, p) \in 0 .. 20
  BY DEF ReferencePoints, WeightReference
<1>3. QED
  BY <1>1, <1>2, ApplicationsAssumption DEF Score

(* The same answers give the same score. *)
LEMMA SameScore ==
    ASSUME NEW was, NEW is, NEW p, SamePoints(was, is, p)
    PROVE  Score(is, p) = Score(was, p)
<1>1. {is.guarantor[<<p, b>>] : b \in Backers} = {was.guarantor[<<p, b>>] : b \in Backers}
  BY DEF SamePoints
<1>2. GuarantorPoints(is, p) = GuarantorPoints(was, p)
  BY <1>1, Zenon DEF GuarantorPoints
<1>3. ReferencePoints(is, p) = ReferencePoints(was, p)
  BY DEF ReferencePoints, SamePoints
<1>4. QED
  BY <1>2, <1>3 DEF Score

(* An application keeps its score while nothing of its points moves. *)
LEMMA SamePointsKeepScore ==
    ASSUME NEW was, NEW is, NEW p, SamePoints(was, is, p),
           is.application[p].status \in OpenApplication =>
                /\ was.application[p].status \in OpenApplication
                /\ is.application[p].score = was.application[p].score
    PROVE  KeepsScore(was, is, p)
BY SameScore DEF KeepsScore, ScoredAs

(* rescore stores what the answers give, and touches nothing else. *)
LEMMA RescoredRows ==
    ASSUME NEW rows \in FormRows, NEW p \in Applicants
    PROVE  /\ Rescored(rows, p) \in FormRows
           /\ ScoredAs(Rescored(rows, p), p)
           /\ \A q \in Applicants : SamePoints(rows, Rescored(rows, p), q)
           /\ \A q \in Applicants \ {p} :
                Rescored(rows, p).application[q] = rows.application[q]
<1> DEFINE application == [rows.application EXCEPT ![p].score = Score(rows, p)]
           new == Tables(rows.unit, rows.lead, application, rows.guarantor, rows.reference)
<1>1. Rescored(rows, p) = new
  BY DEF Rescored, Tables, FormRows
<1>2. application \in [Applicants -> FormRow]
  BY ScoreRange, FormColumns DEF FormRow
<1>3. application[p].score = Score(rows, p)
  BY FormColumns DEF FormRow
<1>4. \A q \in Applicants \ {p} : application[q] = rows.application[q]
  BY FormColumns
<1> HIDE DEF application
<1>5. new \in FormRows
  BY <1>2, FormTables, FormTypes
<1>6. /\ new.guarantor = rows.guarantor /\ new.reference = rows.reference
      /\ new.application = application
  BY DEF Tables
<1> HIDE DEF new
<1>7. \A q \in Applicants : SamePoints(rows, new, q)
  BY <1>6 DEF SamePoints
<1>8. Score(new, p) = Score(rows, p)
  BY <1>7, SameScore
<1>9. QED
  BY <1>1, <1>3, <1>4, <1>5, <1>6, <1>7, <1>8 DEF ScoredAs

-----------------------------------------------------------------------------
(* What the handlers prepare *)

(* Rows with another advert, or with other leads. *)
LEMMA OtherPlace ==
    ASSUME files \in FormRows, NEW place \in PlaceRow, NEW new,
           new = [files EXCEPT !.unit["unit"] = place]
    PROVE  new \in FormRows /\ KeepsScores(files, new)
<1> DEFINE unit == [files.unit EXCEPT !["unit"] = place]
<1>1. unit \in [{"unit"} -> PlaceRow]
  BY FormColumns
<1>2. new = Tables(unit, files.lead, files.application, files.guarantor, files.reference)
  BY DEF FormRows, Tables
<1> HIDE DEF unit
<1>3. new \in FormRows
  <2>1. Tables(unit, files.lead, files.application, files.guarantor, files.reference)
            \in FormRows
    BY <1>1, FormTables, FormTypes
  <2>2. QED
    BY <1>2, <2>1
<1>4. \A p \in Applicants : SamePoints(files, new, p) /\ new.application[p] = files.application[p]
  BY <1>2 DEF Tables, SamePoints
<1>5. QED
  BY <1>3, <1>4, SamePointsKeepScore DEF KeepsScores

LEMMA OtherLead ==
    ASSUME NEW rows \in FormRows, NEW p \in Applicants, NEW stage, NEW new,
           stage \in OpenLead \cup {"none", "APPROVED", "REJECTED", "LOST"},
           new = [rows EXCEPT !.lead[p].stage = stage]
    PROVE  /\ new \in FormRows
           /\ new.application = rows.application /\ new.unit = rows.unit
           /\ new.guarantor = rows.guarantor /\ new.reference = rows.reference
<1> DEFINE lead == [rows.lead EXCEPT ![p].stage = stage]
<1>1. lead \in [Applicants -> LeadRow]
  BY FormColumns DEF LeadRow
<1>2. new = Tables(rows.unit, lead, rows.application, rows.guarantor, rows.reference)
  BY DEF FormRows, Tables
<1> HIDE DEF lead
<1>3. new \in FormRows
  <2>1. Tables(rows.unit, lead, rows.application, rows.guarantor, rows.reference) \in FormRows
    BY <1>1, FormTables, FormTypes
  <2>2. QED
    BY <1>2, <2>1
<1>4. QED
  BY <1>2, <1>3 DEF Tables

(* _move: the status of one application, and the stage of its lead. *)
LEMMA MovedRows ==
    ASSUME NEW rows \in FormRows, NEW p \in Applicants,
           NEW target \in {"UNDER_REVIEW", "INTERVIEW_SCHEDULED"} \cup Decided
    PROVE  LET new == Moved(rows, p, target)
           IN  /\ new \in FormRows /\ new.unit = rows.unit
               /\ new.guarantor = rows.guarantor /\ new.reference = rows.reference
               /\ new.application = [rows.application EXCEPT ![p].status = target]
<1> DEFINE application == [rows.application EXCEPT ![p].status = target]
           old == [rows EXCEPT !.application[p].status = target]
           stage == CASE old.application[p].status \in {"UNDER_REVIEW", "INTERVIEW_SCHEDULED"}
                                                     -> "UNDER_REVIEW"
                      [] old.application[p].status = "WITHDRAWN" -> "LOST"
                      [] OTHER -> old.application[p].status
<1>1. application \in [Applicants -> FormRow]
  BY FormColumns DEF FormRow, OpenApplication, Decided
<1>2. old = Tables(rows.unit, rows.lead, application, rows.guarantor, rows.reference)
  BY DEF FormRows, Tables
<1>3. application[p].status = target
  BY FormColumns DEF FormRow
<1>4. old.application = application /\ old.application[p].status = target
  BY <1>2, <1>3 DEF Tables
<1>5. stage \in OpenLead \cup {"none", "APPROVED", "REJECTED", "LOST"}
  BY <1>4 DEF OpenLead, Decided
<1>6. Moved(rows, p, target) =
        IF old.lead[p].joined THEN [old EXCEPT !.lead[p].stage = stage] ELSE old
  BY DEF Moved, Synced
<1> HIDE DEF application, stage
<1>7. /\ old \in FormRows /\ old.unit = rows.unit /\ old.application = application
      /\ old.guarantor = rows.guarantor /\ old.reference = rows.reference
  <2>1. Tables(rows.unit, rows.lead, application, rows.guarantor, rows.reference) \in FormRows
    BY <1>1, FormTables, FormTypes
  <2>2. QED
    BY <1>2, <2>1 DEF Tables
<1> HIDE DEF old
<1>8. CASE ~old.lead[p].joined
  BY <1>6, <1>7, <1>8 DEF application
<1>9. CASE old.lead[p].joined
  <2> DEFINE new == [old EXCEPT !.lead[p].stage = stage]
  <2>1. /\ new \in FormRows
        /\ new.application = old.application /\ new.unit = old.unit
        /\ new.guarantor = old.guarantor /\ new.reference = old.reference
    <3> HIDE DEF new
    <3>1. new = [old EXCEPT !.lead[p].stage = stage]
      BY DEF new
    <3>2. QED
      BY <1>5, <1>7, <3>1, OtherLead
  <2>2. Moved(rows, p, target) = new
    BY <1>6, <1>9
  <2> HIDE DEF new
  <2>3. QED
    BY <1>7, <2>1, <2>2 DEF application
<1>10. QED
  BY <1>8, <1>9
(* An application whose points stay, and which is not opened, keeps its score. *)
LEMMA MovedKeeps ==
    ASSUME files \in FormRows, NEW p \in Applicants,
           NEW target \in {"UNDER_REVIEW", "INTERVIEW_SCHEDULED"} \cup Decided,
           target \in OpenApplication => files.application[p].status \in OpenApplication
    PROVE  LET new == Moved(files, p, target)
           IN  new \in FormRows /\ KeepsScores(files, new)
<1> DEFINE new == Moved(files, p, target)
<1>1. /\ new \in FormRows
      /\ new.guarantor = files.guarantor /\ new.reference = files.reference
      /\ new.application = [files.application EXCEPT ![p].status = target]
  BY MovedRows
<1> HIDE DEF new
<1>2. \A q \in Applicants : SamePoints(files, new, q)
  BY <1>1 DEF SamePoints
<1>3. \A q \in Applicants :
        /\ new.application[q].score = files.application[q].score
        /\ new.application[q].status \in OpenApplication =>
                files.application[q].status \in OpenApplication
  BY <1>1, FormTypes DEF FormRow
<1>4. KeepsScores(files, new)
  BY <1>2, <1>3, SamePointsKeepScore DEF KeepsScores
<1>5. QED
  BY <1>1, <1>4 DEF new

(* Whoever may be moved to an open status is open. *)
LEMMA OpenToOpen ==
    ASSUME NEW p \in Applicants, NEW target \in OpenApplication, MayBecome(p, target)
    PROVE  files.application[p].status \in OpenApplication
BY DEF MayBecome, OpenApplication, Decided

(* A handler that changes what is known of p, and scores it at the end. *)
LEMMA ScoredKeeps ==
    ASSUME files \in FormRows, NEW rows \in FormRows, NEW p \in Applicants,
           \A q \in Applicants \ {p} :
                SamePoints(files, rows, q) /\ rows.application[q] = files.application[q]
    PROVE  Rescored(rows, p) \in FormRows /\ KeepsScores(files, Rescored(rows, p))
<1> DEFINE new == Rescored(rows, p)
<1>1. /\ new \in FormRows /\ ScoredAs(new, p)
      /\ \A q \in Applicants : SamePoints(rows, new, q)
      /\ \A q \in Applicants \ {p} : new.application[q] = rows.application[q]
  BY RescoredRows
<1> HIDE DEF new
<1>2. ASSUME NEW q \in Applicants \ {p}
      PROVE  KeepsScore(files, new, q)
  <2>1. SamePoints(files, new, q) /\ new.application[q] = files.application[q]
    BY <1>1 DEF SamePoints
  <2>2. QED
    BY <2>1, SamePointsKeepScore
<1>3. KeepsScore(files, new, p)
  BY <1>1 DEF KeepsScore
<1>4. QED
  BY <1>1, <1>2, <1>3 DEF KeepsScores, new

LEMMA ReviewStarted ==
    ASSUME files \in FormRows, NEW p \in Applicants
    PROVE  LET new == Rescored(Moved(files, p, "UNDER_REVIEW"), p)
           IN  new \in FormRows /\ KeepsScores(files, new)
<1> DEFINE rows == Moved(files, p, "UNDER_REVIEW")
<1>1. /\ rows \in FormRows
      /\ rows.guarantor = files.guarantor /\ rows.reference = files.reference
      /\ rows.application = [files.application EXCEPT ![p].status = "UNDER_REVIEW"]
  BY MovedRows
<1> HIDE DEF rows
<1>2. \A q \in Applicants \ {p} :
        SamePoints(files, rows, q) /\ rows.application[q] = files.application[q]
  BY <1>1, FormTypes DEF SamePoints
<1>3. Rescored(rows, p) \in FormRows /\ KeepsScores(files, Rescored(rows, p))
  BY <1>1, <1>2, ScoredKeeps
<1>4. QED
  BY <1>3 DEF rows

(* approve, with the unit reserved and the other candidates rejected or not *)
LEMMA Approved ==
    ASSUME files \in FormRows, NEW p \in Applicants, NEW rejectOthers \in BOOLEAN
    PROVE  LET rows == [Moved(files, p, "APPROVED") EXCEPT !.unit["unit"].status = "RESERVED"]
               new == IF rejectOthers THEN OthersRejected(rows, p) ELSE rows
           IN  new \in FormRows /\ KeepsScores(files, new)
<1> DEFINE moved == Moved(files, p, "APPROVED")
           unit == [moved.unit EXCEPT !["unit"].status = "RESERVED"]
           rows == [moved EXCEPT !.unit["unit"].status = "RESERVED"]
           application == [q \in Applicants |->
                IF q # p /\ rows.application[q].status \in OpenApplication
                THEN [rows.application[q] EXCEPT !.status = "REJECTED"]
                ELSE rows.application[q]]
           others == OthersRejected(rows, p)
<1>1. /\ moved \in FormRows
      /\ moved.guarantor = files.guarantor /\ moved.reference = files.reference
      /\ moved.application = [files.application EXCEPT ![p].status = "APPROVED"]
  <2>1. "APPROVED" \in {"UNDER_REVIEW", "INTERVIEW_SCHEDULED"} \cup Decided
    BY DEF Decided
  <2>2. QED
    BY <2>1, MovedRows
<1> HIDE DEF moved
<1>2. unit \in [{"unit"} -> PlaceRow]
  BY <1>1, FormTypes DEF PlaceRow
<1>3. rows = Tables(unit, moved.lead, moved.application, moved.guarantor, moved.reference)
  BY <1>1 DEF FormRows, Tables
<1> HIDE DEF unit
<1>4. rows \in FormRows
  <2>1. Tables(unit, moved.lead, moved.application, moved.guarantor, moved.reference)
            \in FormRows
    BY <1>1, <1>2, FormTables, FormTypes
  <2>2. QED
    BY <1>3, <2>1
<1>5. /\ rows.guarantor = files.guarantor /\ rows.reference = files.reference
      /\ rows.application = [files.application EXCEPT ![p].status = "APPROVED"]
  BY <1>1, <1>3 DEF Tables
<1> HIDE DEF rows
<1>6. application \in [Applicants -> FormRow]
  BY <1>4, FormTypes DEF FormRow, Decided
<1>7. others = Tables(rows.unit, rows.lead, application, rows.guarantor, rows.reference)
  <2>1. others = [rows EXCEPT !.application = application]
    BY DEF OthersRejected
  <2> HIDE DEF application
  <2>2. QED
    BY <1>4, <2>1 DEF FormRows, Tables
<1>8. \A q \in Applicants :
        /\ application[q].score = files.application[q].score
        /\ application[q].status \in OpenApplication =>
                files.application[q].status \in OpenApplication
  <2>1. \A q \in Applicants :
        /\ rows.application[q].score = files.application[q].score
        /\ rows.application[q].status \in OpenApplication =>
                files.application[q].status \in OpenApplication
    BY <1>5, FormTypes DEF FormRow, OpenApplication
  <2>2. QED
    BY <1>4, <2>1, FormTypes DEF FormRow, OpenApplication
<1> HIDE DEF application
<1>9. others \in FormRows
  <2>1. Tables(rows.unit, rows.lead, application, rows.guarantor, rows.reference) \in FormRows
    BY <1>4, <1>6, FormTables, FormTypes
  <2>2. QED
    BY <1>7, <2>1
<1>10. /\ others.guarantor = files.guarantor /\ others.reference = files.reference
       /\ others.application = application
  BY <1>5, <1>7 DEF Tables
<1> HIDE DEF others
<1>11. KeepsScores(files, others)
  <2>1. \A q \in Applicants : SamePoints(files, others, q)
    BY <1>10 DEF SamePoints
  <2>2. QED
    BY <1>8, <1>10, <2>1, SamePointsKeepScore DEF KeepsScores
<1>12. KeepsScores(files, rows)
  <2>1. \A q \in Applicants : SamePoints(files, rows, q)
    BY <1>5 DEF SamePoints
  <2>2. \A q \in Applicants :
        /\ rows.application[q].score = files.application[q].score
        /\ rows.application[q].status \in OpenApplication =>
                files.application[q].status \in OpenApplication
    BY <1>5, FormTypes DEF FormRow, OpenApplication
  <2>3. QED
    BY <2>1, <2>2, SamePointsKeepScore DEF KeepsScores
<1>13. QED
  BY <1>4, <1>9, <1>11, <1>12 DEF others, rows, moved
(* create_application: a form with its guarantors, landlord and lead *)
LEMMA Created ==
    ASSUME files \in FormRows, NEW p \in Applicants, NEW backers, NEW landlord \in BOOLEAN
    PROVE  LET new == Rescored(
                [files EXCEPT
                    !.application[p].status = "SUBMITTED",
                    !.guarantor = [g \in Applicants \X Backers |->
                        IF g[1] = p /\ g[2] \in backers THEN [@[g] EXCEPT !.status = "PENDING"]
                        ELSE @[g]],
                    !.reference[p].status = IF landlord THEN "SENT" ELSE "none",
                    !.lead[p] = Linked(@)], p)
           IN  new \in FormRows /\ KeepsScores(files, new)
<1> DEFINE application == [files.application EXCEPT ![p].status = "SUBMITTED"]
           guarantor == [g \in Applicants \X Backers |->
                IF g[1] = p /\ g[2] \in backers
                THEN [files.guarantor[g] EXCEPT !.status = "PENDING"] ELSE files.guarantor[g]]
           landlords == [files.reference EXCEPT
                ![p].status = IF landlord THEN "SENT" ELSE "none"]
           lead == [files.lead EXCEPT ![p] = Linked(@)]
           rows == Tables(files.unit, lead, application, guarantor, landlords)
           new == [files EXCEPT
                !.application[p].status = "SUBMITTED",
                !.guarantor = [g \in Applicants \X Backers |->
                    IF g[1] = p /\ g[2] \in backers THEN [@[g] EXCEPT !.status = "PENDING"]
                    ELSE @[g]],
                !.reference[p].status = IF landlord THEN "SENT" ELSE "none",
                !.lead[p] = Linked(@)]
<1>1. application \in [Applicants -> FormRow]
  BY FormTypes DEF FormRow, OpenApplication
<1>2. guarantor \in [Applicants \X Backers -> BackerRow]
  BY FormTypes DEF BackerRow
<1>3. landlords \in [Applicants -> LandlordRow]
  BY FormTypes DEF LandlordRow
<1>4. lead \in [Applicants -> LeadRow]
  BY FormTypes DEF LeadRow, Linked, OpenLead
<1>5. \A q \in Applicants \ {p} :
        /\ application[q] = files.application[q] /\ landlords[q] = files.reference[q]
        /\ \A b \in Backers : guarantor[<<q, b>>] = files.guarantor[<<q, b>>]
  BY FormTypes
<1>6. new = [files EXCEPT !.application = application, !.guarantor = guarantor,
                          !.reference = landlords, !.lead = lead]
  OBVIOUS
<1> HIDE DEF application, guarantor, landlords, lead, new
<1>7. new = rows
  BY <1>6 DEF Tables, FormRows
<1>8. rows \in FormRows
  BY <1>1, <1>2, <1>3, <1>4, FormTables, FormTypes
<1>9. \A q \in Applicants \ {p} :
        SamePoints(files, rows, q) /\ rows.application[q] = files.application[q]
  BY <1>5 DEF SamePoints, Tables
<1> HIDE DEF rows
<1>10. Rescored(rows, p) \in FormRows /\ KeepsScores(files, Rescored(rows, p))
  BY <1>8, <1>9, ScoredKeeps
<1>11. QED
  BY <1>7, <1>10 DEF new

(* A guarantor or a landlord of p is asked or answers. *)
LEMMA BackerMoves ==
    ASSUME files \in FormRows, NEW p \in Applicants, NEW b \in Backers,
           NEW row \in BackerRow, NEW rows, rows = [files EXCEPT !.guarantor[<<p, b>>] = row]
    PROVE  Rescored(rows, p) \in FormRows /\ KeepsScores(files, Rescored(rows, p))
<1> DEFINE guarantor == [files.guarantor EXCEPT ![<<p, b>>] = row]
<1>1. guarantor \in [Applicants \X Backers -> BackerRow]
  BY FormTypes
<1>2. \A q \in Applicants \ {p} :
        \A c \in Backers : guarantor[<<q, c>>] = files.guarantor[<<q, c>>]
  BY FormTypes
<1> HIDE DEF guarantor
<1>3. rows = Tables(files.unit, files.lead, files.application, guarantor, files.reference)
  BY DEF FormRows, Tables, guarantor
<1>4. Tables(files.unit, files.lead, files.application, guarantor, files.reference) \in FormRows
  BY <1>1, FormTables, FormTypes
<1>5. \A q \in Applicants \ {p} :
        SamePoints(files, rows, q) /\ rows.application[q] = files.application[q]
  BY <1>2, <1>3 DEF SamePoints, Tables
<1>6. QED
  BY <1>3, <1>4, <1>5, ScoredKeeps

LEMMA LandlordMoves ==
    ASSUME files \in FormRows, NEW p \in Applicants,
           NEW status \in {"SENT", "POSITIVE", "NEGATIVE"}, NEW rows,
           rows = [files EXCEPT !.reference[p].status = status]
    PROVE  Rescored(rows, p) \in FormRows /\ KeepsScores(files, Rescored(rows, p))
<1> DEFINE landlords == [files.reference EXCEPT ![p].status = status]
<1>1. landlords \in [Applicants -> LandlordRow]
  BY FormTypes DEF LandlordRow
<1>2. \A q \in Applicants \ {p} : landlords[q] = files.reference[q]
  BY FormTypes
<1>3. rows = Tables(files.unit, files.lead, files.application, files.guarantor, landlords)
  BY DEF FormRows, Tables
<1> HIDE DEF landlords
<1>4. Tables(files.unit, files.lead, files.application, files.guarantor, landlords) \in FormRows
  BY <1>1, FormTables, FormTypes
<1>5. \A q \in Applicants \ {p} :
        SamePoints(files, rows, q) /\ rows.application[q] = files.application[q]
  BY <1>2, <1>3 DEF SamePoints, Tables
<1>6. QED
  BY <1>3, <1>4, <1>5, ScoredKeeps

(* sweep_stale_references: references that were not answered are closed, and the
   open applications they belong to scored again. *)
LEMMA SweptReferences ==
    ASSUME files \in FormRows
    PROVE  LET swept == [files EXCEPT !.reference = [p \in Applicants |->
                    IF @[p].status = "SENT" THEN [status |-> "NO_RESPONSE"] ELSE @[p]]]
               new == [swept EXCEPT !.application = [p \in Applicants |->
                    IF @[p].status \in OpenApplication /\ files.reference[p].status = "SENT"
                    THEN [@[p] EXCEPT !.score = Score(swept, p)] ELSE @[p]]]
           IN  new \in FormRows /\ KeepsScores(files, new)
<1> DEFINE landlords == [p \in Applicants |->
                IF files.reference[p].status = "SENT" THEN [status |-> "NO_RESPONSE"]
                ELSE files.reference[p]]
           swept == [files EXCEPT !.reference = [p \in Applicants |->
                IF @[p].status = "SENT" THEN [status |-> "NO_RESPONSE"] ELSE @[p]]]
           Again(p) == /\ files.application[p].status \in OpenApplication
                       /\ files.reference[p].status = "SENT"
           application == [p \in Applicants |->
                IF Again(p) THEN [files.application[p] EXCEPT !.score = Score(swept, p)]
                ELSE files.application[p]]
           new == [swept EXCEPT !.application = [p \in Applicants |->
                IF @[p].status \in OpenApplication /\ files.reference[p].status = "SENT"
                THEN [@[p] EXCEPT !.score = Score(swept, p)] ELSE @[p]]]
<1>1. landlords \in [Applicants -> LandlordRow]
  BY FormTypes DEF LandlordRow
<1>2. \A p \in Applicants :
        files.reference[p].status # "SENT" => landlords[p] = files.reference[p]
  OBVIOUS
<1>3. swept = [files EXCEPT !.reference = landlords]
  OBVIOUS
<1> HIDE DEF landlords
<1>4. swept = Tables(files.unit, files.lead, files.application, files.guarantor, landlords)
  BY <1>3 DEF FormRows, Tables
<1>5. new = [swept EXCEPT !.application = application]
  <2>1. swept.application = files.application
    BY <1>4 DEF Tables
  <2> HIDE DEF swept
  <2>2. QED
    BY <2>1
<1> HIDE DEF swept
<1>6. /\ application \in [Applicants -> FormRow]
      /\ \A p \in Applicants : application[p].status = files.application[p].status
      /\ \A p \in Applicants : Again(p) => application[p].score = Score(swept, p)
      /\ \A p \in Applicants : ~Again(p) => application[p] = files.application[p]
  BY ScoreRange, FormTypes DEF FormRow
<1> HIDE DEF application, new
<1>7. new = Tables(files.unit, files.lead, application, files.guarantor, landlords)
  BY <1>4, <1>5 DEF Tables
<1>8. Tables(files.unit, files.lead, application, files.guarantor, landlords) \in FormRows
  BY <1>1, <1>6, FormTables, FormTypes
<1>9. ASSUME NEW p \in Applicants PROVE KeepsScore(files, new, p)
  <2>1. CASE Again(p)
    <3>1. SamePoints(swept, new, p)
      BY <1>4, <1>7 DEF SamePoints, Tables
    <3>2. Score(new, p) = Score(swept, p) /\ new.application[p].score = Score(swept, p)
      BY <1>6, <1>7, <2>1, <3>1, SameScore DEF Tables
    <3>3. QED
      BY <3>2 DEF KeepsScore, ScoredAs
  <2>2. CASE ~Again(p) /\ files.reference[p].status # "SENT"
    <3>1. SamePoints(files, new, p) /\ new.application[p] = files.application[p]
      BY <1>2, <1>6, <1>7, <2>2 DEF SamePoints, Tables
    <3>2. QED
      BY <3>1, SamePointsKeepScore
  <2>3. CASE files.application[p].status \notin OpenApplication
    <3>1. new.application[p].status \notin OpenApplication
      BY <1>6, <1>7, <2>3 DEF Tables
    <3>2. QED
      BY <3>1 DEF KeepsScore, ScoredAs
  <2>4. QED
    BY <2>1, <2>2, <2>3
<1>10. new \in FormRows /\ KeepsScores(files, new)
  BY <1>7, <1>8, <1>9 DEF KeepsScores
<1>11. QED
  BY <1>10 DEF new, swept
-----------------------------------------------------------------------------
(* The inductive invariant *)

LEMMA ApplicationsInitIInv == ApplicationsInit => ApplicationsIInv
<1> SUFFICES ASSUME ApplicationsInit PROVE ApplicationsIInv
  OBVIOUS
<1>1. NewFiles \in FormRows
  BY DEF NewFiles, FormRows, PlaceRow, LeadRow, FormRow, BackerRow, LandlordRow
<1>2. posted \in 0 .. MaxPosts
  BY ApplicationsAssumption DEF ApplicationsInit
<1>3. reader = [r \in Readers |-> reader[r]] /\ \A r \in Readers : ReaderOK(reader[r])
  BY DEF ApplicationsInit, ReaderOK, Post!Idle
<1>4. QED
  BY <1>1, <1>2, <1>3 DEF ApplicationsInit, ApplicationsIInv

(* a handler *)
LEMMA PostPreparesKeeps ==
    ASSUME ApplicationsIInv, NEW r \in Readers, NEW new, Post!Prepares(r, new),
           new \in FormRows, KeepsScores(files, new)
    PROVE  ApplicationsIInv' /\ UNCHANGED files
<1> DEFINE w == Post!Ready(files, new, {})
<1>1. /\ reader' = [reader EXCEPT ![r] = w] /\ posted' = posted + 1
      /\ posted < MaxPosts /\ UNCHANGED files
  BY DEF Post!Prepares, Post!PreparesOne, Post!Begins
<1>2. ReaderOK(w)
  BY DEF ApplicationsIInv, ReaderOK, Post!Ready
<1> HIDE DEF w
<1>3. posted' \in 0 .. MaxPosts
  BY <1>1, ApplicationsAssumption DEF ApplicationsIInv
<1>4. reader' = [q \in Readers |-> reader'[q]] /\ \A q \in Readers : ReaderOK(reader'[q])
  BY <1>1, <1>2 DEF ApplicationsIInv
<1>5. QED
  BY <1>1, <1>3, <1>4 DEF ApplicationsIInv

LEMMA PostSaveKeeps ==
    ASSUME ApplicationsIInv, NEW r \in Readers, SaveFile(r)
    PROVE  ApplicationsIInv'
<1>1. /\ reader[r].at = "ready" /\ posted' = posted
      /\ files' = Post!Merged(reader[r].was, reader[r].is, files)
  BY DEF SaveFile, Post!Saves
<1>2. reader[r].rest = {} /\ reader[r].is \in FormRows /\ files \in FormRows
  BY <1>1 DEF ApplicationsIInv, ReaderOK
<1>3. reader' = [reader EXCEPT ![r] = Post!Idle]
  BY <1>2 DEF SaveFile, Post!Saves
<1>4. files' \in FormRows
  BY <1>1, <1>2, MergedForms
<1>5. ReaderOK(Post!Idle)
  BY DEF ReaderOK, Post!Idle
<1>6. reader' = [q \in Readers |-> reader'[q]] /\ \A q \in Readers : ReaderOK(reader'[q])
  BY <1>3, <1>5 DEF ApplicationsIInv
<1>7. QED
  BY <1>1, <1>4, <1>6 DEF ApplicationsIInv

LEMMA PostDropKeeps ==
    ASSUME ApplicationsIInv, NEW r \in Readers, DropFile(r)
    PROVE  ApplicationsIInv' /\ UNCHANGED files
<1>1. reader' = [reader EXCEPT ![r] = Post!Idle] /\ UNCHANGED <<files, posted>>
  BY DEF DropFile, Post!Drops
<1>2. ReaderOK(Post!Idle)
  BY DEF ReaderOK, Post!Idle
<1>3. reader' = [q \in Readers |-> reader'[q]] /\ \A q \in Readers : ReaderOK(reader'[q])
  BY <1>1, <1>2 DEF ApplicationsIInv
<1>4. QED
  BY <1>1, <1>3 DEF ApplicationsIInv

(* The requests of r, in two groups. *)
AdvertHandler(r) ==
    \/ AskForListing(r) \/ SweepReferences(r) \/ LetUnit(r) \/ VacateUnit(r)
    \/ \E s \in {"DRAFT", "PUBLISHED", "CLOSED"} : UpdateListing(r, s)

ApplicantHandler(r, p) ==
    \/ CaptureInquiry(r, p) \/ UpdateInquiry(r, p, "LOST")
    \/ \E backers \in SUBSET Backers, landlord \in BOOLEAN :
        CreateApplication(r, p, backers, landlord)
    \/ StartReview(r, p) \/ ScheduleInterview(r, p)
    \/ \E rejectOthers \in BOOLEAN : Approve(r, p, rejectOthers)
    \/ Reject(r, p) \/ Withdraw(r, p) \/ UpdateApplication(r, p)
    \/ \E b \in Backers :
        \/ AddGuarantor(r, p, b) \/ SendGuarantee(r, p, b)
        \/ \E a \in {"ACKNOWLEDGED", "DECLINED"} : RespondAsGuarantor(r, p, b, a)
    \/ RequestReference(r, p)
    \/ \E a \in {"POSITIVE", "NEGATIVE"} : RecordReference(r, p, a)

(* the request prepares rows that keep the scores *)
PreparesScores(r) ==
    \E new : new \in FormRows /\ KeepsScores(files, new) /\ Post!Prepares(r, new)

LEMMA AdvertHandlerKeeps ==
    ASSUME files \in FormRows, NEW r \in Readers, AdvertHandler(r)
    PROVE  PreparesScores(r)
<1>1. /\ files.unit["unit"] \in PlaceRow /\ Unit = files.unit["unit"]
  BY FormTypes DEF Unit
<1>2. ASSUME AskForListing(r) PROVE PreparesScores(r)
  <2>1. PICK place \in PlaceRow : place = [files.unit["unit"] EXCEPT !.listing = "PUBLISHED"]
    BY <1>1 DEF PlaceRow
  <2>2. [files EXCEPT !.unit["unit"].listing = "PUBLISHED"] = [files EXCEPT !.unit["unit"] = place]
    BY <2>1
  <2>3. QED
    BY <1>2, <2>2, OtherPlace DEF AskForListing, PreparesScores
<1>3. ASSUME NEW s \in {"DRAFT", "PUBLISHED", "CLOSED"}, UpdateListing(r, s)
      PROVE  PreparesScores(r)
  <2>1. PICK place \in PlaceRow : place = [files.unit["unit"] EXCEPT !.listing = s]
    BY <1>1 DEF PlaceRow
  <2>2. [files EXCEPT !.unit["unit"].listing = s] = [files EXCEPT !.unit["unit"] = place]
    BY <2>1
  <2>3. QED
    BY <1>3, <2>2, OtherPlace DEF UpdateListing, PreparesScores
<1>4. ASSUME LetUnit(r) PROVE PreparesScores(r)
  <2>1. PICK place \in PlaceRow :
            place = [status |-> "OCCUPIED", let |-> TRUE,
                     listing |-> IF files.unit["unit"].listing = "none" THEN "none" ELSE "CLOSED"]
    BY <1>1 DEF PlaceRow
  <2>2. [files EXCEPT
            !.unit["unit"] = [status |-> "OCCUPIED", let |-> TRUE,
                              listing |-> IF @.listing = "none" THEN "none" ELSE "CLOSED"]]
         = [files EXCEPT !.unit["unit"] = place]
    BY <2>1
  <2>3. QED
    BY <1>4, <2>2, OtherPlace DEF LetUnit, PreparesScores
<1>5. ASSUME VacateUnit(r) PROVE PreparesScores(r)
  <2>1. PICK place \in PlaceRow :
            place = [files.unit["unit"] EXCEPT !.status = "VACANT", !.let = FALSE]
    BY <1>1 DEF PlaceRow
  <2>2. [files EXCEPT !.unit["unit"].status = "VACANT", !.unit["unit"].let = FALSE]
         = [files EXCEPT !.unit["unit"] = place]
    <3> DEFINE half == [files.unit EXCEPT !["unit"].status = "VACANT"]
               whole == [half EXCEPT !["unit"].let = FALSE]
               rows == [files EXCEPT !.unit["unit"].status = "VACANT"]
    <3>1. whole = [files.unit EXCEPT !["unit"] = place]
      BY <1>1, <2>1, FormTypes DEF PlaceRow
    <3>2. rows = [files EXCEPT !.unit = half] /\ rows.unit = half
      BY DEF FormRows
    <3> HIDE DEF half, rows
    <3>3. [rows EXCEPT !.unit["unit"].let = FALSE] = [files EXCEPT !.unit = whole]
      BY <3>2 DEF FormRows
    <3>4. [files EXCEPT !.unit = whole] = [files EXCEPT !.unit["unit"] = place]
      BY <3>1
    <3>5. QED
      BY <3>3, <3>4 DEF rows
  <2>3. QED
    BY <1>5, <2>2, OtherPlace DEF VacateUnit, PreparesScores
<1>6. ASSUME SweepReferences(r) PROVE PreparesScores(r)
  BY <1>6, SweptReferences DEF SweepReferences, PreparesScores
<1>7. QED
  BY <1>2, <1>3, <1>4, <1>5, <1>6 DEF AdvertHandler

LEMMA ApplicantHandlerKeeps ==
    ASSUME files \in FormRows, NEW r \in Readers, NEW p \in Applicants, ApplicantHandler(r, p)
    PROVE  PreparesScores(r)
<1>1. \A b \in Backers : files.guarantor[<<p, b>>] \in BackerRow
  BY FormTypes
<1>2. ASSUME NEW stage \in {"INQUIRED", "LOST"},
             Post!Prepares(r, [files EXCEPT !.lead[p].stage = stage])
      PROVE  PreparesScores(r)
  <2>1. PICK new : new = [files EXCEPT !.lead[p].stage = stage]
    OBVIOUS
  <2>2. stage \in OpenLead \cup {"none", "APPROVED", "REJECTED", "LOST"}
    BY DEF OpenLead
  <2>3. /\ new \in FormRows /\ new.application = files.application
        /\ new.guarantor = files.guarantor /\ new.reference = files.reference
    BY <2>1, <2>2, OtherLead
  <2>4. KeepsScores(files, new)
    BY <2>3, SamePointsKeepScore DEF SamePoints, KeepsScores
  <2>5. QED
    BY <1>2, <2>1, <2>3, <2>4 DEF PreparesScores
<1>3. ASSUME NEW backers, NEW landlord \in BOOLEAN, CreateApplication(r, p, backers, landlord)
      PROVE  PreparesScores(r)
  BY <1>3, Created DEF CreateApplication, PreparesScores
<1>4. ASSUME StartReview(r, p) PROVE PreparesScores(r)
  BY <1>4, ReviewStarted DEF StartReview, PreparesScores
<1>5. ASSUME NEW target \in {"INTERVIEW_SCHEDULED"} \cup Decided, MayBecome(p, target),
             Post!Prepares(r, Moved(files, p, target))
      PROVE  PreparesScores(r)
  <2>1. target \in OpenApplication => files.application[p].status \in OpenApplication
    BY <1>5, OpenToOpen
  <2>2. Moved(files, p, target) \in FormRows /\ KeepsScores(files, Moved(files, p, target))
    BY <2>1, MovedKeeps
  <2>3. QED
    BY <1>5, <2>2 DEF PreparesScores
<1>6. ASSUME NEW rejectOthers \in BOOLEAN, Approve(r, p, rejectOthers) PROVE PreparesScores(r)
  BY <1>6, Approved DEF Approve, PreparesScores
<1>7. ASSUME UpdateApplication(r, p) PROVE PreparesScores(r)
  <2>1. Rescored(files, p) \in FormRows /\ KeepsScores(files, Rescored(files, p))
    BY ScoredKeeps DEF SamePoints
  <2>2. QED
    BY <1>7, <2>1 DEF UpdateApplication, PreparesScores
<1>8. ASSUME NEW b \in Backers, NEW row \in BackerRow,
             Post!Prepares(r, Rescored([files EXCEPT !.guarantor[<<p, b>>] = row], p))
      PROVE  PreparesScores(r)
  BY <1>8, BackerMoves DEF PreparesScores
<1>9. ASSUME NEW b \in Backers,
             \/ AddGuarantor(r, p, b) \/ SendGuarantee(r, p, b)
             \/ \E a \in {"ACKNOWLEDGED", "DECLINED"} : RespondAsGuarantor(r, p, b, a)
      PROVE  PreparesScores(r)
  <2>1. ASSUME NEW s \in {"PENDING", "ACKNOWLEDGED", "DECLINED"},
               Post!Prepares(r, Rescored([files EXCEPT !.guarantor[<<p, b>>].status = s], p))
        PROVE  PreparesScores(r)
    <3>1. [files.guarantor[<<p, b>>] EXCEPT !.status = s] \in BackerRow
      BY <1>1 DEF BackerRow
    <3>2. QED
      BY <1>8, <2>1, <3>1
  <2>2. ASSUME SendGuarantee(r, p, b) PROVE PreparesScores(r)
    <3>1. [files.guarantor[<<p, b>>] EXCEPT !.deed = TRUE] \in BackerRow
      BY <1>1 DEF BackerRow
    <3>2. QED
      BY <1>8, <2>2, <3>1 DEF SendGuarantee
  <2>3. QED
    BY <1>9, <2>1, <2>2 DEF AddGuarantor, RespondAsGuarantor
<1>10. ASSUME NEW s \in {"SENT", "POSITIVE", "NEGATIVE"},
              Post!Prepares(r, Rescored([files EXCEPT !.reference[p].status = s], p))
       PROVE  PreparesScores(r)
  BY <1>10, LandlordMoves DEF PreparesScores
<1>11. ASSUME \/ RequestReference(r, p)
              \/ \E a \in {"POSITIVE", "NEGATIVE"} : RecordReference(r, p, a)
       PROVE  PreparesScores(r)
  BY <1>10, <1>11 DEF RequestReference, RecordReference
<1>12. ASSUME CaptureInquiry(r, p) \/ UpdateInquiry(r, p, "LOST") PROVE PreparesScores(r)
  BY <1>2, <1>12 DEF CaptureInquiry, UpdateInquiry
<1>13. ASSUME ScheduleInterview(r, p) \/ Reject(r, p) \/ Withdraw(r, p) PROVE PreparesScores(r)
  <2>1. {"INTERVIEW_SCHEDULED", "REJECTED", "WITHDRAWN"}
            \subseteq {"INTERVIEW_SCHEDULED"} \cup Decided
    BY DEF Decided
  <2>2. QED
    BY <1>5, <1>13, <2>1 DEF ScheduleInterview, Reject, Withdraw
<1>14. QED
  BY <1>3, <1>4, <1>6, <1>7, <1>9, <1>11, <1>12, <1>13 DEF ApplicantHandler

(* The steps of ApplicationsNext. *)
LEMMA StepsOfApplications ==
    ASSUME ApplicationsNext
    PROVE  \E r \in Readers :
            \/ SaveFile(r) \/ DropFile(r) \/ AdvertHandler(r)
            \/ \E p \in Applicants : ApplicantHandler(r, p)
BY DEF ApplicationsNext, AdvertHandler, ApplicantHandler

LEMMA PostHandlerKeeps ==
    ASSUME ApplicationsIInv, NEW r \in Readers,
           AdvertHandler(r) \/ \E p \in Applicants : ApplicantHandler(r, p)
    PROVE  ApplicationsIInv' /\ UNCHANGED files
<1>1. files \in FormRows
  BY DEF ApplicationsIInv
<1>2. PreparesScores(r)
  BY <1>1, AdvertHandlerKeeps, ApplicantHandlerKeeps
<1>3. PICK new : new \in FormRows /\ KeepsScores(files, new) /\ Post!Prepares(r, new)
  BY <1>2 DEF PreparesScores
<1>4. QED
  BY <1>3, PostPreparesKeeps

LEMMA ApplicationsNextKeeps ==
    ApplicationsIInv /\ [ApplicationsNext]_applicationsVars => ApplicationsIInv'
<1> SUFFICES ASSUME ApplicationsIInv, [ApplicationsNext]_applicationsVars
             PROVE  ApplicationsIInv'
  OBVIOUS
<1>1. CASE UNCHANGED applicationsVars
  BY <1>1 DEF applicationsVars, ApplicationsIInv
<1>2. CASE ApplicationsNext
  BY <1>2, StepsOfApplications, PostSaveKeeps, PostDropKeeps, PostHandlerKeeps
<1>3. QED
  BY <1>1, <1>2

LEMMA ApplicationsInvariance == ApplicationsSpec => []ApplicationsIInv
BY ApplicationsInitIInv, ApplicationsNextKeeps, PTL DEF ApplicationsSpec

(* Adverts, leads, applications, answers and scores have their types, whatever
   order commits come in: in particular a score lies between 0 and 100. *)
THEOREM ApplicationsAreWellTyped == ApplicationsSpec => []ApplicationsTypeOK
<1>1. ASSUME NEW rows \in FormRows PROVE IsFiles(rows)
  <2>1. /\ PlaceRow = [status : {"VACANT", "RESERVED", "OCCUPIED"}, let : BOOLEAN,
                        listing : {"none", "DRAFT", "PUBLISHED", "CLOSED"}]
        /\ LeadRow = [joined : BOOLEAN,
                       stage : OpenLead \cup {"none", "APPROVED", "REJECTED", "LOST"}]
        /\ FormRow = [score : 0 .. 100, status : OpenApplication \cup Decided \cup {"none"}]
    BY DEF PlaceRow, LeadRow, FormRow
  <2>2. /\ BackerRow = [deed : BOOLEAN,
                         status : {"none", "PENDING", "ACKNOWLEDGED", "DECLINED"}]
        /\ LandlordRow = [status : {"none", "SENT", "POSITIVE", "NEGATIVE", "NO_RESPONSE"}]
    BY DEF BackerRow, LandlordRow
  <2>3. QED
    BY <2>1, <2>2, FormTypes, Zenon DEF IsFiles
<1>2. ASSUME NEW w, ReaderOK(w) PROVE Post!IsWork(w, IsFiles, {})
  BY <1>1, <1>2 DEF ReaderOK, Post!IsWork
<1>3. ApplicationsIInv => ApplicationsTypeOK
  BY <1>1, <1>2 DEF ApplicationsIInv, ApplicationsTypeOK
<1>4. QED
  BY <1>3, ApplicationsInvariance, PTL

(* screening_service.py's "Called after anything that could move it": an open
   application's stored score comes to differ from what its answers give only in
   the commit of a request whose rows another request changed after it read them. *)
THEOREM OverlapAloneMisscores == ApplicationsSpec => OnlyOverlapMisscores
<1>1. ASSUME ApplicationsIInv, [ApplicationsNext]_applicationsVars,
             ScoreIsCurrent(files), ~ScoreIsCurrent(files')
      PROVE  \E r \in Readers : Post!StaleSave(r)
  <2>1. ~(UNCHANGED files)
    BY <1>1
  <2>2. ApplicationsNext
    BY <1>1, <2>1 DEF applicationsVars
  <2>3. PICK r \in Readers : SaveFile(r)
    BY <1>1, <2>1, <2>2, StepsOfApplications, PostDropKeeps, PostHandlerKeeps
  <2>4. ASSUME ~Post!StaleSave(r) PROVE FALSE
    <3>1. /\ reader[r].at = "ready" /\ reader[r].seen = files
          /\ files' = Post!Merged(reader[r].was, reader[r].is, files)
      BY <2>3, <2>4 DEF SaveFile, Post!Saves, Post!StaleSave
    <3>2. /\ reader[r].was = files /\ files \in FormRows /\ reader[r].is \in FormRows
          /\ KeepsScores(files, reader[r].is)
      BY <1>1, <3>1 DEF ApplicationsIInv, ReaderOK
    <3>3. files' = reader[r].is
      BY <3>1, <3>2, PostSavesWhatItPrepared
    <3>4. \A p \in Applicants : ScoredAs(files, p)
      BY <1>1 DEF ScoreIsCurrent, ScoredAs
    <3>5. \A p \in Applicants : ScoredAs(reader[r].is, p)
      BY <3>2, <3>4 DEF KeepsScores, KeepsScore
    <3>6. \A p \in Applicants : ScoredAs(files', p)
      BY <3>3, <3>5
    <3>7. ScoreIsCurrent(files')
      BY <3>6 DEF ScoreIsCurrent, ScoredAs
    <3>8. QED
      BY <1>1, <3>7
  <2>5. QED
    BY <2>4
<1>2. ApplicationsIInv /\ [ApplicationsNext]_applicationsVars =>
        [ScoreIsCurrent(files) /\ ~ScoreIsCurrent(files') =>
            \E r \in Readers : Post!StaleSave(r)]_applicationsVars
  BY <1>1
<1>3. QED
  BY <1>2, ApplicationsInvariance, PTL DEF ApplicationsSpec, OnlyOverlapMisscores
=============================================================================
