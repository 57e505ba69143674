------------------------------ MODULE Bookings ------------------------------
(***************************************************************************)
(* What is lent by the day or by the hour: assets on hire                  *)
(* (services/rental_service.py), parking bays and amenities                *)
(* (services/facilities_service.py).  NoKey in the database forbids to   *)
(* lend a thing twice: each handler looks for a clash, and inserts.        *)
(*                                                                         *)
(* Rules that only turn a request away (opening hours, notice, the weekly  *)
(* quota, a bay out of service, a lapsed insurance, a smaller odometer     *)
(* reading) are requests that never come; charges are left out.            *)
(***************************************************************************)
EXTENDS Naturals

CONSTANTS
    Assets, Hires,     \* keys of rental_assets, rental_agreements
    Bays, Stays,       \* of parking_bays, parking_allocations
    Rooms, Evenings,   \* of amenities, amenity_bookings
    Counters,          \* requests that can be in flight at a time
    LastDate,          \* the last day looked at
    MaxBookings        \* bound: how many requests are looked at

ASSUME BookingsAssumption ==
    LastDate \in Nat \ {0} /\ MaxBookings \in Nat

VARIABLES
    date,     \* today
    lent,     \* the committed rows
    counter,  \* the request each session is serving
    served    \* how many requests have begun

bookingsVars == <<date, lent, counter, served>>

Till == INSTANCE Sessions WITH Workers <- Counters, MaxRequests <- MaxBookings,
            db <- lent, work <- counter, begun <- served

NoKey == "none"
Dates == 1 .. LastDate

Unhired == [asset |-> NoKey, from |-> 0, to |-> 0, status |-> "none"]
Unparked == [bay |-> NoKey, from |-> 0, to |-> 0, made |-> 0, freed |-> FALSE]
Unbooked == [room |-> NoKey, from |-> 0, to |-> 0, status |-> "none"]

IsLent(rows) ==
    /\ rows.asset \in [Assets -> [status : {"AVAILABLE", "ON_HIRE", "MAINTENANCE", "RETIRED"}]]
    /\ rows.hire \in [Hires ->
            [asset : Assets \cup {NoKey}, from : 0 .. LastDate, to : 0 .. LastDate,
             status : {"none", "BOOKED", "OUT", "RETURNED", "CANCELLED"}]]
    /\ rows.stay \in [Stays ->
            [bay : Bays \cup {NoKey}, from : 0 .. LastDate, to : 0 .. LastDate,
             made : 0 .. LastDate, freed : BOOLEAN]]
    /\ rows.slot \in [Evenings ->
            [room : Rooms \cup {NoKey}, from : 0 .. LastDate, to : 0 .. LastDate,
             status : {"none", "CONFIRMED", "BLOCKED", "CANCELLED"}]]

BookingsTypeOK ==
    /\ date \in Dates /\ served \in 0 .. MaxBookings
    /\ IsLent(lent)
    /\ \A c \in Counters : Till!IsWork(counter[c], IsLent, {})

BookingsInit ==
    /\ date = 1
    /\ lent = [asset |-> [a \in Assets |-> [status |-> "AVAILABLE"]],
               hire  |-> [h \in Hires |-> Unhired],
               stay  |-> [s \in Stays |-> Unparked],
               slot  |-> [e \in Evenings |-> Unbooked]]
    /\ counter = [c \in Counters |-> Till!Idle]
    /\ served = 0

-----------------------------------------------------------------------------
(* Hires: dates are inclusive *)

Blocking == {"BOOKED", "OUT"}

HiresClash(h, a, from, to) ==
    /\ h.asset = a /\ h.status \in Blocking
    /\ h.from <= to /\ h.to >= from

FreeToHireByTheDay(a, from, to) ==   \* mutant: h.to > from
    \A h \in Hires : lent.hire[h].to = from \/ ~HiresClash(lent.hire[h], a, from, to)

(* _overlapping_agreement *)
FreeToHire(a, from, to) == \A h \in Hires : ~HiresClash(lent.hire[h], a, from, to)

(* book *)
BookHire(c, h, a, from, to) ==
    /\ Till!Fresh("hire", h, Unhired)
    /\ lent.asset[a].status \notin {"RETIRED", "MAINTENANCE"}
    /\ FreeToHire(a, from, to)
    /\ Till!Prepares(c, [lent EXCEPT !.hire[h] =
            [asset |-> a, from |-> from, to |-> to, status |-> "BOOKED"]])

HireMoved(h, status, asset) ==
    [lent EXCEPT !.hire[h].status = status, !.asset[lent.hire[h].asset].status = asset]

(* check_out, on whatever day the hirer comes; check_in *)
CheckOut(c, h) ==
    lent.hire[h].status = "BOOKED" /\ Till!Prepares(c, HireMoved(h, "OUT", "ON_HIRE"))

CheckIn(c, h) ==
    lent.hire[h].status = "OUT" /\ Till!Prepares(c, HireMoved(h, "RETURNED", "AVAILABLE"))

(* cancel *)
CancelHire(c, h) ==
    /\ lent.hire[h].status = "BOOKED"
    /\ Till!Prepares(c, [lent EXCEPT !.hire[h].status = "CANCELLED"])

OutNow(rows, a) == {h \in Hires : rows.hire[h].asset = a /\ rows.hire[h].status = "OUT"}

(* update_asset *)
SetAsset(c, a, status) ==
    /\ status = "AVAILABLE" => OutNow(lent, a) = {}
    /\ Till!Prepares(c, [lent EXCEPT !.asset[a].status = status])

-----------------------------------------------------------------------------
(* Parking: one bay, one holder.  An allocation without an end lasts to the
   last day looked at. *)

(* current_allocation *)
Holds(s, b) == s.bay = b /\ ~s.freed /\ s.from <= date /\ date <= s.to

(* allocate_bay *)
AllocateBay(c, s, b, from, to) ==
    /\ Till!Fresh("stay", s, Unparked)
    /\ \A other \in Stays : ~Holds(lent.stay[other], b)
    /\ Till!Prepares(c, [lent EXCEPT !.stay[s] =
            [bay |-> b, from |-> from, to |-> to, made |-> date, freed |-> FALSE]])

(* release_bay *)
ReleaseBay(c, s) ==
    /\ lent.stay[s].bay # NoKey /\ ~lent.stay[s].freed
    /\ Till!Prepares(c, [lent EXCEPT !.stay[s].freed = TRUE])

-----------------------------------------------------------------------------
(* Amenities: a booking ends as the next one begins *)

(* _overlapping_booking *)
SlotsClash(e, r, from, to) ==
    /\ e.room = r /\ e.status # "CANCELLED"
    /\ e.from < to /\ e.to > from

(* book_amenity; block_amenity *)
BookRoom(c, e, r, from, to, status) ==
    /\ Till!Fresh("slot", e, Unbooked)
    /\ from < to
    /\ \A other \in Evenings : ~SlotsClash(lent.slot[other], r, from, to)
    /\ Till!Prepares(c, [lent EXCEPT !.slot[e] =
            [room |-> r, from |-> from, to |-> to, status |-> status]])

(* cancel_booking *)
CancelRoom(c, e) ==
    /\ lent.slot[e].status \in {"CONFIRMED", "BLOCKED"}
    /\ Till!Prepares(c, [lent EXCEPT !.slot[e].status = "CANCELLED"])

-----------------------------------------------------------------------------
NextLendingDay ==
    /\ date < LastDate
    /\ date' = date + 1
    /\ UNCHANGED <<lent, counter, served>>

SaveBooking(c) == Till!Saves(c) /\ UNCHANGED date

DropBooking(c) == Till!Drops(c) /\ UNCHANGED date

HireStep(c) ==
    /\ \/ \E h \in Hires : CheckOut(c, h) \/ CheckIn(c, h) \/ CancelHire(c, h)
       \/ \E a \in Assets, status \in {"AVAILABLE", "ON_HIRE", "MAINTENANCE", "RETIRED"} :
            SetAsset(c, a, status)
       \/ \E h \in Hires, a \in Assets, from \in Dates : \E to \in from .. LastDate :
            BookHire(c, h, a, from, to)
    /\ UNCHANGED date

ParkingStep(c) ==
    /\ \E s \in Stays :
        \/ ReleaseBay(c, s)
        \/ \E b \in Bays, from \in Dates : \E to \in from .. LastDate :
            AllocateBay(c, s, b, from, to)
    /\ UNCHANGED date

RoomStep(c) ==
    /\ \E e \in Evenings :
        \/ CancelRoom(c, e)
        \/ \E r \in Rooms, from, to \in 0 .. LastDate, status \in {"CONFIRMED", "BLOCKED"} :
            BookRoom(c, e, r, from, to, status)
    /\ UNCHANGED date

(* the three share no rows, so that they can be looked at one by one *)
Passes == NextLendingDay \/ \E c \in Counters : SaveBooking(c) \/ DropBooking(c)
HireNext == Passes \/ \E c \in Counters : HireStep(c)
ParkingNext == Passes \/ \E c \in Counters : ParkingStep(c)
RoomNext == Passes \/ \E c \in Counters : RoomStep(c)

BookingsNext == HireNext \/ ParkingNext \/ RoomNext

BookingsSpec == BookingsInit /\ [][BookingsNext]_bookingsVars

-----------------------------------------------------------------------------
(* Properties *)

(* what is promised to two people for the same time: two hires of an asset or
   two bookings of an amenity that overlap, and two holders of a bay today,
   neither of whom was given it ahead of the day *)
TwiceHired ==
    {p \in Hires \X Hires :
        LET h == lent.hire[p[2]]
        IN  /\ p[1] # p[2] /\ h.status \in Blocking
            /\ HiresClash(lent.hire[p[1]], h.asset, h.from, h.to)}

TwiceBooked ==
    {p \in Evenings \X Evenings :
        LET e == lent.slot[p[2]]
        IN  /\ p[1] # p[2] /\ e.status \in {"CONFIRMED", "BLOCKED"}
            /\ SlotsClash(lent.slot[p[1]], e.room, e.from, e.to)}

TwiceParked ==
    {p \in Stays \X Stays : p[1] # p[2] /\ \A i \in {1, 2} :
        LET s == lent.stay[p[i]]
        IN  s.bay # NoKey /\ Holds(s, lent.stay[p[1]].bay) /\ s.from <= s.made}

(* an asset that is called free and is out *)
CalledFree == {a \in Assets : lent.asset[a].status = "AVAILABLE" /\ OutNow(lent, a) # {}}

(* rental_service.py:3-5 ("an asset cannot be in two places at once, so every
   booking checks the calendar"), facilities_service.py:300 ("One bay, one
   holder").  Only a request that overlaps another lends a thing twice, and calls
   an asset free that is out, except that the return of one of two hires that
   were both out does so too: an asset goes out again before its late hirer is
   back. *)
OnlyOverlapLendsTwice ==
    [][\/ \E c \in Counters : Till!StaleSave(c)
       \/ /\ TwiceHired' \subseteq TwiceHired
          /\ TwiceBooked' \subseteq TwiceBooked
          /\ TwiceParked' \subseteq TwiceParked
          /\ \A a \in CalledFree' \ CalledFree : \E g, h \in OutNow(lent, a) : g # h]_bookingsVars
=============================================================================
