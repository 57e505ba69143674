---------------------------- MODULE OfflineQueue ----------------------------
(***************************************************************************)
(* What a caretaker does without a signal (frontend/src/lib/               *)
(* offline-queue.ts, hooks/use-offline-queue.ts): payments, meter readings *)
(* and requests are put into IndexedDB and replayed, in order, when the    *)
(* connection is back.  The store is one for all the tabs of the browser;  *)
(* `syncing`, which keeps flush() from running twice, is one for each tab. *)
(*                                                                         *)
(* The backend does not look at X-Idempotency-Key: every request that      *)
(* arrives is carried out, unless it is refused.                           *)
(***************************************************************************)
EXTENDS Naturals, Sequences

CONSTANTS
    Jobs,      \* what the caretaker submits, one call of submitOrQueue each
    Tabs,      \* tabs open on the device
    MaxFaults  \* bound: failures of network and server, closed tabs, discards

ASSUME QueueAssumption ==
    {"page", "nobody"} \cap Tabs = {} /\ MaxFaults \in Nat

VARIABLES
    store,    \* what became of each job, and its row in IndexedDB
    made,     \* the jobs that were queued, by createdAt
    tab,      \* flush(), in each tab
    wire,     \* requests and answers in transit
    landed,   \* the jobs the server has carried out
    faults,   \* how many failures there were
    again,    \* history: carried out a second time
    unheard,  \* history: sent, and the answer may have been missed
    together  \* history: two tabs were flushing at the same time

queueVars == <<store, made, tab, wire, landed, faults, again, unheard, together>>

Queued == {"pending", "syncing", "failed", "conflict"}
Answers == {"ok", "conflict", "rejected", "error"}
Messages == [job : Jobs, from : Tabs \cup {"page", "nobody"}, answer : Answers \cup {"none"}]

(* todo: the list() that flush walks, as it was at the start *)
Resting == [at |-> "resting", todo |-> <<>>]

QueueTypeOK ==
    /\ store \in [Jobs -> Queued \cup {"new", "direct", "gone"}]
    /\ made \in Seq(Jobs) /\ landed \subseteq Jobs
    /\ tab \in [Tabs -> [at : {"resting", "flushing", "waiting"},
                         todo : Seq([job : Jobs, status : Queued])]]
    /\ wire \subseteq Messages
    /\ faults \in 0 .. MaxFaults
    /\ again \subseteq Jobs /\ unheard \subseteq Jobs /\ together \in BOOLEAN

QueueInit ==
    /\ store = [j \in Jobs |-> "new"]
    /\ made = <<>> /\ wire = {} /\ landed = {} /\ faults = 0
    /\ tab = [t \in Tabs |-> Resting]
    /\ again = {} /\ unheard = {} /\ together = FALSE

Request(j, from) == [job |-> j, from |-> from, answer |-> "none"]

Fails == faults < MaxFaults /\ faults' = faults + 1

-----------------------------------------------------------------------------
(* The network and the server *)

(* the request is carried out, or refused, or fails on the server *)
ServerAnswers(m, answer) ==
    /\ m.answer = "none"
    /\ IF answer = "error" THEN Fails ELSE UNCHANGED faults
    /\ wire' = (wire \ {m}) \cup
               (IF m.from = "nobody" THEN {} ELSE {[m EXCEPT !.answer = answer]})
    /\ landed' = IF answer = "ok" THEN landed \cup {m.job} ELSE landed
    /\ again' = IF answer = "ok" /\ m.job \in landed THEN again \cup {m.job} ELSE again
    /\ UNCHANGED <<store, made, tab, unheard, together>>

(* the sender stops waiting for m, a request that still arrives if `arrives` *)
Missed(m, arrives) ==
    /\ Fails
    /\ wire' = (wire \ {m}) \cup (IF m.answer = "none" /\ arrives THEN {Request(m.job, "nobody")}
                                  ELSE {})
    /\ unheard' = IF m.answer # "none" \/ arrives THEN unheard \cup {m.job} ELSE unheard

-----------------------------------------------------------------------------
(* submitOrQueue *)

Enqueue(j) == store' = [store EXCEPT ![j] = "pending"] /\ made' = Append(made, j)

SubmitOffline(j) ==
    /\ store[j] = "new"
    /\ Enqueue(j)
    /\ UNCHANGED <<tab, wire, landed, faults, again, unheard, together>>

SubmitOnline(j) ==
    /\ store[j] = "new"
    /\ store' = [store EXCEPT ![j] = "direct"]
    /\ wire' = wire \cup {Request(j, "page")}
    /\ UNCHANGED <<made, tab, landed, faults, again, unheard, together>>

(* an answer with a status, good or bad, is shown to the user *)
PageHears(m) ==
    /\ m.from = "page" /\ m.answer # "none"
    /\ store' = [store EXCEPT ![m.job] = "gone"]
    /\ wire' = wire \ {m}
    /\ UNCHANGED <<made, tab, landed, faults, again, unheard, together>>

(* no response at all: the job is queued *)
PageMisses(m, arrives) ==
    /\ m.from = "page"
    /\ Missed(m, arrives)
    /\ Enqueue(m.job)
    /\ UNCHANGED <<tab, landed, again, together>>

-----------------------------------------------------------------------------
(* flush *)

(* list(): the rows that wait, by createdAt; Listed[n] comes from the first n *)
Listed[n \in 0 .. Len(made)] ==
    IF n = 0 THEN <<>>
    ELSE IF store[made[n]] \in Queued
         THEN Append(Listed[n - 1], [job |-> made[n], status |-> store[made[n]]])
         ELSE Listed[n - 1]

List == Listed[Len(made)]

StartFlush(t) ==
    /\ tab[t] = Resting
    /\ List # <<>>
    /\ tab' = [tab EXCEPT ![t] = [at |-> "flushing", todo |-> List]]
    /\ together' = (together \/ \E u \in Tabs : tab[u] # Resting)
    /\ UNCHANGED <<store, made, wire, landed, faults, again, unheard>>

Job(t) == Head(tab[t].todo).job

GoesOn(t) ==
    tab' = [tab EXCEPT ![t] = IF Len(@.todo) = 1 THEN Resting
                              ELSE [at |-> "flushing", todo |-> Tail(@.todo)]]

(* update() puts the row back, were it gone by now *)
Send(t) ==
    /\ tab[t].at = "flushing"
    /\ IF Head(tab[t].todo).status = "conflict"
       THEN GoesOn(t) /\ UNCHANGED <<store, wire>>
       ELSE /\ store' = [store EXCEPT ![Job(t)] = "syncing"]
            /\ wire' = wire \cup {Request(Job(t), t)}
            /\ tab' = [tab EXCEPT ![t].at = "waiting"]
    /\ UNCHANGED <<made, landed, faults, again, unheard, together>>

HearsAndKeeps(t, m) ==   \* mutant: the row is not removed
    /\ m.from = t /\ m.answer \in {"ok", "conflict", "rejected"}
    /\ store' = [store EXCEPT ![m.job] =
            CASE m.answer = "ok"       -> "pending"
              [] m.answer = "conflict" -> "conflict"
              [] m.answer = "rejected" -> "failed"]
    /\ wire' = wire \ {m}
    /\ GoesOn(t)
    /\ UNCHANGED <<made, landed, faults, again, unheard, together>>

Hears(t, m) ==
    /\ m.from = t /\ m.answer \in {"ok", "conflict", "rejected"}
    /\ store' = [store EXCEPT ![m.job] =
            CASE m.answer = "ok"       -> "gone"
              [] m.answer = "conflict" -> "conflict"
              [] m.answer = "rejected" -> "failed"]
    /\ wire' = wire \ {m}
    /\ GoesOn(t)
    /\ UNCHANGED <<made, landed, faults, again, unheard, together>>

StopsHolding(t, m, arrives) ==   \* mutant: no `finally`, `syncing` stays set
    /\ m.from = t
    /\ \/ m.answer = "error" /\ wire' = wire \ {m} /\ UNCHANGED <<faults, unheard>>
       \/ Missed(m, arrives)
    /\ store' = [store EXCEPT ![m.job] = "pending"]
    /\ tab' = [tab EXCEPT ![t].at = "resting"]
    /\ UNCHANGED <<made, landed, again, together>>

(* a server error, or no answer: the rest is left for the next flush *)
Stops(t, m, arrives) ==
    /\ m.from = t
    /\ \/ m.answer = "error" /\ wire' = wire \ {m} /\ UNCHANGED <<faults, unheard>>
       \/ Missed(m, arrives)
    /\ store' = [store EXCEPT ![m.job] = "pending"]
    /\ tab' = [tab EXCEPT ![t] = Resting]
    /\ UNCHANGED <<made, landed, again, together>>

(* the tab is closed, or loaded again, in the middle of a flush *)
CloseTab(t, arrives) ==
    /\ tab[t].at # "resting"
    /\ tab' = [tab EXCEPT ![t] = Resting]
    /\ \/ tab[t].at = "flushing" /\ Fails /\ UNCHANGED <<wire, unheard>>
       \/ \E m \in wire : m.from = t /\ Missed(m, arrives)
    /\ UNCHANGED <<store, made, landed, again, together>>

(* remove and clearAll, from the list of what waits *)
Discard(J) ==
    /\ J # {} /\ \A j \in J : store[j] \in Queued
    /\ Fails
    /\ store' = [j \in Jobs |-> IF j \in J THEN "gone" ELSE store[j]]
    /\ UNCHANGED <<made, tab, wire, landed, again, unheard, together>>

-----------------------------------------------------------------------------
FlushStep(t) == Send(t) \/ \E m \in wire : Hears(t, m)

Answered == \E m \in wire, answer \in Answers : ServerAnswers(m, answer)

QueueNext ==
    \/ Answered
    \/ \E j \in Jobs : SubmitOffline(j) \/ SubmitOnline(j)
    \/ \E m \in wire : PageHears(m) \/ \E arrives \in BOOLEAN : PageMisses(m, arrives)
    \/ \E t \in Tabs :
        \/ StartFlush(t) \/ FlushStep(t)
        \/ \E arrives \in BOOLEAN :
            CloseTab(t, arrives) \/ \E m \in wire : Stops(t, m, arrives)
    \/ \E J \in SUBSET Jobs : Discard(J)

(* startAutoSync tries every 30 seconds; the network fails only so often *)
QueueFairness ==
    /\ WF_queueVars(Answered)
    /\ \A t \in Tabs : WF_queueVars(StartFlush(t)) /\ WF_queueVars(FlushStep(t))
                       /\ WF_queueVars(\E m \in wire : m.answer = "error" /\ Stops(t, m, TRUE))

QueueSpec == QueueInit /\ [][QueueNext]_queueVars /\ QueueFairness

-----------------------------------------------------------------------------
(* Properties *)

(* offline-queue.ts:13 ("No double-submission").  What the caretaker did once
   is carried out twice only if an answer was missed (the connection broke, or
   the tab closed, after the request had gone) or two tabs flush at a time. *)
OnlyMissedAnswerOrTwoTabsRepeat ==
    [][\A j \in again' \ again : j \in unheard \/ together]_queueVars

(* offline-queue.ts:8.  Once the network stops failing, everything queued is
   carried out, refused, parked for the user or discarded by him. *)
QueuedJobsSettle ==
    \A j \in Jobs : store[j] \in {"pending", "syncing"}
                        ~> store[j] \in {"gone", "failed", "conflict"}
=============================================================================
