------------------------------ MODULE Evidence ------------------------------
(***************************************************************************)
(* What the office must be able to show later: the audit trail and its     *)
(* chain of hashes (services/audit_service.py, audit_chain_service.py),    *)
(* and personal records, which a legal hold keeps from being erased        *)
(* (legal_hold_service.py, retention_service.py, privacy_service.py).      *)
(* One organisation.                                                       *)
(***************************************************************************)
EXTENDS Naturals, FiniteSets, FiniteSetsExt, Sequences

CONSTANTS
    Members,      \* users of the organisation
    Records,      \* personal records
    KindOf,       \* "tenant", "application", "event" or "demo"
    HoldIds,      \* keys of legal_holds
    Archivists,   \* requests and tasks that can be in flight at a time
    BatchSize,    \* CHAIN_BATCH_SIZE
    MaxFilings    \* bound: how many requests and tasks are looked at

Kinds == {"tenant", "application", "event", "demo"}

ASSUME EvidenceAssumption ==
    /\ KindOf \in [Records -> Kinds]
    /\ BatchSize \in Nat \ {0} /\ MaxFilings \in Nat

VARIABLES
    vault,       \* the committed rows
    archivist,   \* the request or task each session is serving
    filed        \* how many have begun

evidenceVars == <<vault, archivist, filed>>

Room == INSTANCE Sessions WITH Workers <- Archivists, MaxRequests <- MaxFilings,
            db <- vault, work <- archivist, begun <- filed

Nobody == "nobody"

Unlogged == [state |-> "none", by |-> Nobody, hash |-> <<>>]
Unheld == [on |-> "nothing", open |-> FALSE]

(* created_at of an audit row is the start of its transaction (func.now()), so
   the key of a row, the number of the request that writes it, is its place in
   time.  A request writes one row. *)
EvidenceInit ==
    /\ vault = [log    |-> [n \in 1 .. MaxFilings |-> Unlogged],
                member |-> [m \in Members |-> [here |-> TRUE]],
                hold   |-> [h \in HoldIds |-> Unheld],
                file   |-> [r \in Records |-> [ripe |-> FALSE, gone |-> "no"]]]
    /\ archivist = [c \in Archivists |-> Room!Idle]
    /\ filed = 0

IsVault(rows) ==
    /\ \A n \in 1 .. MaxFilings :
        LET row == rows.log[n]
        IN  /\ row.state \in {"none", "open", "chained"} /\ row.by \in Members \cup {Nobody}
            /\ row.hash \in Seq((1 .. MaxFilings) \X (Members \cup {Nobody}))
    /\ rows.member \in [Members -> [here : BOOLEAN]]
    /\ rows.hold \in [HoldIds -> [on : Records \cup {"nothing", "organization"}, open : BOOLEAN]]
    /\ rows.file \in [Records -> [ripe : BOOLEAN, gone : {"no", "swept", "asked"}]]

EvidenceTypeOK ==
    /\ IsVault(vault)
    /\ \A c \in Archivists : Room!IsWork(archivist[c], IsVault, {"chain", "sweep"})
    /\ filed \in 0 .. MaxFilings

-----------------------------------------------------------------------------
(* The audit trail *)

Here(rows) == {m \in Members : rows.member[m].here} \cup {Nobody}

(* user_id as the row shows it: ON DELETE SET NULL *)
Author(rows, n) == IF rows.log[n].by \in Here(rows) THEN rows.log[n].by ELSE Nobody

Logged(by) == [vault EXCEPT !.log[filed + 1] = [state |-> "open", by |-> by, hash |-> <<>>]]

(* record, in any handler; a task records for nobody *)
Record(c, by) ==
    by \in Here(vault) /\ Room!Prepares(c, Logged(by))

(* remove_member *)
RemoveMember(c, m, by) ==
    /\ by \in Here(vault) \ {Nobody, m} /\ vault.member[m].here
    /\ Room!Prepares(c, [Logged(by) EXCEPT !.member[m].here = FALSE])

OpenRows(rows) == {n \in 1 .. MaxFilings : rows.log[n].state = "open"}
Chained(rows) == {n \in 1 .. MaxFilings : rows.log[n].state = "chained"}

(* _hash_entry: the hash stands for all that went into it *)
HashEntry(rows, n, prev) == Append(prev, <<n, Author(rows, n)>>)

NewestHash(rows) ==   \* mutant: entry_hash.isnot(None) forgotten
    LET written == OpenRows(rows) \cup Chained(rows)
    IN  IF written = {} THEN <<>> ELSE rows.log[Max(written)].hash

(* _tail_hash *)
TailHash(rows) == IF Chained(rows) = {} THEN <<>> ELSE rows.log[Max(Chained(rows))].hash

(* the rows a run chains *)
Pending(rows) ==
    {n \in OpenRows(rows) : Cardinality({k \in OpenRows(rows) : k < n}) < BatchSize}

(* prev_hash as the loop over them leaves it when it is past row n *)
HashesFrom(rows, tail) ==
    LET hash[n \in 0 .. MaxFilings] ==
            IF n = 0 THEN tail
            ELSE IF n \in Pending(rows) THEN HashEntry(rows, n, hash[n - 1]) ELSE hash[n - 1]
    IN  hash

ChainedLog(rows, tail) ==
    LET hash == HashesFrom(rows, tail)
    IN  [n \in 1 .. MaxFilings |->
            IF n \in Pending(rows)
            THEN [rows.log[n] EXCEPT !.state = "chained", !.hash = hash[n]]
            ELSE rows.log[n]]

(* chain_audit_log_entries: chain_new_entries reads the tail, then the rows *)
StartChain(c) == Room!Starts(c, {"chain"})

ChainNewEntries(c) ==
    /\ archivist[c].at = "between" /\ archivist[c].rest = {"chain"}
    /\ Pending(vault) # {}
    /\ Room!Continues(c, [vault EXCEPT !.log = ChainedLog(vault, TailHash(archivist[c].seen))], {})

(* the hash that verify_chain carries to row n *)
HashBefore(rows, n) ==
    LET before == {k \in Chained(rows) : k < n}
    IN  IF before = {} THEN <<>> ELSE rows.log[Max(before)].hash

(* verify_chain: the rows at which it can stop *)
BrokenLinks(rows) ==
    {n \in Chained(rows) : rows.log[n].hash # HashEntry(rows, n, HashBefore(rows, n))}

-----------------------------------------------------------------------------
(* Records and holds *)

Covers(h, r) == h.open /\ h.on \in {r, "organization"}

ActiveHoldOnItself(rows, r) ==   \* mutant: a hold on the organisation is not looked for
    \E h \in HoldIds : rows.hold[h].open /\ rows.hold[h].on = r

(* active_hold *)
ActiveHold(rows, r) == \E h \in HoldIds : Covers(rows.hold[h], r)

(* place_hold *)
PlaceHold(c, h, on) ==
    /\ Room!Fresh("hold", h, Unheld)
    /\ Room!Prepares(c, [vault EXCEPT !.hold[h] = [on |-> on, open |-> TRUE]])

(* release_hold *)
ReleaseHold(c, h) ==
    vault.hold[h].open /\ Room!Prepares(c, [vault EXCEPT !.hold[h].open = FALSE])

(* erase_tenant_data, from the portal or by an operator *)
EraseTenantData(c, r) ==
    /\ KindOf[r] = "tenant" /\ vault.file[r].gone = "no"
    /\ ~ActiveHold(vault, r)
    /\ Room!Prepares(c, [vault EXCEPT !.file[r].gone = "asked"])

Without(rows, gone, how) ==
    [rows EXCEPT !.file =
        [r \in Records |-> IF r \in gone THEN [@[r] EXCEPT !.gone = how] ELSE @[r]]]

(* remove, of the sample data *)
RemoveDemo(c) ==
    Room!Prepares(c, Without(vault, {r \in Records :
            KindOf[r] = "demo" /\ vault.file[r].gone = "no"}, "asked"))

(* sweep: lists what is past its retention, looks for holds on tenants and
   applications, and commits once *)
PastRetention(rows) == {r \in Records : rows.file[r].ripe /\ rows.file[r].gone = "no"}

StartSweep(c) == PastRetention(vault) # {} /\ Room!Starts(c, {"sweep"})

Sweep(c) ==
    /\ archivist[c].at = "between" /\ archivist[c].rest = {"sweep"}
    /\ Room!Continues(c, Without(vault, {r \in PastRetention(archivist[c].seen) :
            KindOf[r] \in {"tenant", "application"} => ~ActiveHold(vault, r)}, "swept"), {})

(* the retention periods of what is left run out; a tenant comes back for
   another tenancy (create_tenancy) *)
YearsPass ==
    /\ \E r \in Records : vault.file[r] = [ripe |-> FALSE, gone |-> "no"]
    /\ vault' = [vault EXCEPT !.file =
            [r \in Records |-> [vault.file[r] EXCEPT !.ripe = @ \/ vault.file[r].gone = "no"]]]
    /\ UNCHANGED <<archivist, filed>>

ComesBack(r) ==
    /\ KindOf[r] = "tenant" /\ vault.file[r].ripe /\ vault.file[r].gone = "no"
    /\ vault' = [vault EXCEPT !.file[r].ripe = FALSE]
    /\ UNCHANGED <<archivist, filed>>

-----------------------------------------------------------------------------
(* the row of a user who was removed meanwhile is refused by its foreign key *)
SaveEvidence(c) ==
    /\ Room!Saves(c)
    /\ \A n \in OpenRows(vault') \ OpenRows(vault) : vault'.log[n].by \in Here(vault)

DropEvidence(c) == Room!Drops(c)

ChainNext ==
    \E c \in Archivists :
        \/ SaveEvidence(c) \/ DropEvidence(c) \/ StartChain(c) \/ ChainNewEntries(c)
        \/ \E by \in Members \cup {Nobody} : Record(c, by)
        \/ \E m, by \in Members : RemoveMember(c, m, by)

HoldNext ==
    \/ YearsPass
    \/ \E r \in Records : ComesBack(r)
    \/ \E c \in Archivists :
        \/ SaveEvidence(c) \/ DropEvidence(c) \/ StartSweep(c) \/ Sweep(c) \/ RemoveDemo(c)
        \/ \E h \in HoldIds, on \in Records \cup {"organization"} : PlaceHold(c, h, on)
        \/ \E h \in HoldIds : ReleaseHold(c, h)
        \/ \E r \in Records : EraseTenantData(c, r)

EvidenceNext == ChainNext \/ HoldNext

EvidenceSpec == EvidenceInit /\ [][EvidenceNext]_evidenceVars

-----------------------------------------------------------------------------
(* Properties *)

(* audit_chain_service.py:15-18 ("stops being ambiguous about ordering",
   "entry_hash is never recomputed once set").  verify_chain reports a row, or a
   hash changes, only when its author is removed, when the run's rows changed
   under it (another run, a removal), or when a row that began before a chained
   one is chained after it. *)
OnlyLateOrTwofoldWorkBreaksTheChain ==
    [][\/ \E c \in Archivists : Room!StaleSave(c)
       \/ /\ \A n \in Chained(vault) : vault'.log[n].hash = vault.log[n].hash
          /\ \A n \in BrokenLinks(vault)' \ BrokenLinks(vault) :
                \/ Author(vault, n) # Author(vault, n)'
                \/ \E k \in Chained(vault)' \ Chained(vault) :
                        \E d \in Chained(vault) : k < d]_evidenceVars

(* docs/legal/data-retention-policy.md ("both the retention sweep and
   tenant-initiated erasure refuse to act on anything the hold covers").  A held
   tenant or application is erased only by a request or sweep that looked before
   the hold was committed, and a record in use is swept only by a sweep that
   listed it before.  Security events and sample data are erased held or not. *)
OnlyAnEarlierLookErasesTooMuch ==
    [][\A r \in Records :
        vault.file[r].gone = "no" /\ vault'.file[r].gone # "no" =>
            /\ \/ KindOf[r] \in {"event", "demo"}
               \/ \A h \in HoldIds : ~Covers(vault.hold[h], r)
               \/ \E c \in Archivists : /\ Room!Saves(c)
                                        /\ \A h \in HoldIds : ~Covers(archivist[c].was.hold[h], r)
            /\ \/ vault'.file[r].gone = "asked" \/ vault.file[r].ripe
               \/ \E c \in Archivists : Room!StaleSave(c)]_evidenceVars
=============================================================================
