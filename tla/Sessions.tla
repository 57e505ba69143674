------------------------------ MODULE Sessions ------------------------------
(***************************************************************************)
(* The database session of one request or task (core/database.py), shared  *)
(* by the office modules.  A handler reads committed rows, changes them in *)
(* memory, and what it changed is written by its commit; nothing locks     *)
(* what it read, so other sessions may commit in between.                  *)
(*                                                                         *)
(* `db` is a record of tables, a table a function from keys to rows, a row *)
(* a record of columns.  Every key exists from the start; a row that has   *)
(* not been inserted yet holds its table's empty row.                      *)
(***************************************************************************)
EXTENDS Naturals

CONSTANTS
    Workers,      \* the sessions that can be open at a time
    MaxRequests   \* bound: how many requests are looked at

VARIABLES
    db,     \* the committed rows
    work,   \* the request each session is serving
    begun   \* how many requests have begun

(* seen: the rows on which the handler, or the preview it carries out, made up
   its mind; was: the rows as the transaction read them; is: the rows in
   memory; rest: what the handler still has to do after this commit *)
Idle == [at |-> "idle"]

IsWork(w, Rows(_), Rests) ==
    \/ w.at = "idle"
    \/ w.at \in {"ready", "between"} /\ Rows(w.seen) /\ w.rest \subseteq Rests
       /\ w.at = "ready" => Rows(w.was) /\ Rows(w.is)

Begins(w) ==
    /\ work[w].at = "idle"
    /\ begun < MaxRequests
    /\ begun' = begun + 1

Ready(seen, new, rest) ==
    [at |-> "ready", seen |-> seen, was |-> db, is |-> new, rest |-> rest]

Between(rows, rest) == [at |-> "between", seen |-> rows, rest |-> rest]

(* a handler up to its first commit *)
PreparesOne(w, new, rest) ==
    /\ Begins(w)
    /\ new # db \/ rest # {}
    /\ work' = [work EXCEPT ![w] = Ready(db, new, rest)]
    /\ UNCHANGED db

(* the whole of a handler, when it commits once *)
Prepares(w, new) == PreparesOne(w, new, {})

(* a handler that will commit once for each member of rest *)
Starts(w, rest) ==
    /\ Begins(w)
    /\ rest # {}
    /\ work' = [work EXCEPT ![w] = Between(db, rest)]
    /\ UNCHANGED db

Continues(w, new, rest) ==
    /\ work[w].at = "between"
    /\ work' = [work EXCEPT ![w] = Ready(work[w].seen, new, rest)]
    /\ UNCHANGED <<db, begun>>

(* the flush writes the columns that the session changed, and no others *)
MergedRow(was, is, now) == [c \in DOMAIN now |-> IF is[c] = was[c] THEN now[c] ELSE is[c]]

Merged(was, is, now) ==
    [t \in DOMAIN now |->
        [k \in DOMAIN now[t] |-> MergedRow(was[t][k], is[t][k], now[t][k])]]

Saves(w) ==
    /\ work[w].at = "ready"
    /\ db' = Merged(work[w].was, work[w].is, db)
    /\ work' = [work EXCEPT ![w] =
            IF work[w].rest = {} THEN Idle
            ELSE Between(IF work[w].seen = db THEN db' ELSE work[w].seen, work[w].rest)]
    /\ UNCHANGED begun

(* one commit of a handler that holds on to what it read at its start; it
   writes without looking again, so reading and writing are one step *)
Steps(w, new, rest) ==
    /\ work[w].at = "between"
    /\ db' = new
    /\ work' = [work EXCEPT ![w] =
            IF rest = {} THEN Idle
            ELSE Between(IF work[w].seen = db THEN new ELSE work[w].seen, rest)]
    /\ UNCHANGED begun

(* an exception, a unique violation or a crash: the transaction is rolled
   back and the handler does not go on *)
Drops(w) ==
    /\ work[w].at # "idle"
    /\ work' = [work EXCEPT ![w] = Idle]
    /\ UNCHANGED <<db, begun>>

(* this commit follows from rows that changed after they were read *)
StaleSave(w) == Saves(w) /\ work[w].seen # db

(* and so does this step of a handler with several commits *)
StaleStep(w) ==
    /\ work[w].at = "between" /\ work[w].seen # db
    /\ db' # db /\ work'[w] # work[w]

(* nobody has claimed the key for a row of its own *)
Fresh(table, key, empty) ==
    /\ db[table][key] = empty
    /\ \A w \in Workers : work[w].at = "ready" => work[w].is[table][key] = empty
=============================================================================
