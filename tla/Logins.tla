------------------------------- MODULE Logins -------------------------------
(***************************************************************************)
(* Staying signed in: the user_sessions rows and the refresh token that is *)
(* replaced on every use (services/session_service.py, endpoints/auth.py), *)
(* and the browser that keeps it (frontend store/auth-store.ts,            *)
(* lib/api-client.ts, components/ProtectedRoute.tsx).  One user and one    *)
(* browser; the user's other devices sign in and sign this one out.        *)
(*                                                                         *)
(* Tokens are numbered in the order they are minted, which is also the     *)
(* order of last_active_at.  A token that is presented twice makes the     *)
(* server sign the user out everywhere.                                    *)
(***************************************************************************)
EXTENDS Naturals, FiniteSets

CONSTANTS
    Seats,    \* keys of the user_sessions table
    Others,   \* the sessions of the user's other devices at the start
    Windows,     \* pages of the browser, which share its localStorage
    PageCallers,  \* who can call in them: <<tab, "interceptor">> or <<tab, "route">>
    Cap,      \* max_concurrent_sessions
    MaxCalls  \* bound: how many requests are looked at

ASSUME LoginsAssumption ==
    /\ Others \subseteq Seats /\ "none" \notin Seats
    /\ PageCallers \subseteq Windows \X {"interceptor", "route"}
    /\ Windows \X {"interceptor"} \subseteq PageCallers
    /\ Cap \in Nat \ {0} /\ MaxCalls \in Nat

(* who calls: in a page the axios interceptor (all its 401s share one refresh)
   and the guard of the routes, which does not use the interceptor; and the
   user's other devices *)
Elsewhere == <<"elsewhere", "device">>
Callers == PageCallers \cup {Elsewhere}

VARIABLES
    auth,      \* the committed rows
    serving,   \* the request the server is working on, by caller
    calls,     \* how many requests have begun
    minted,    \* tokens issued so far
    page,      \* what each page holds in memory
    stored,    \* localStorage
    call,      \* the call each caller waits for
    atOnce,  \* history: the browser had two refreshes under way
    left,      \* history: a page was closed while its refresh was under way
    shared     \* history: a second page was opened on a token that another held

loginsVars == <<auth, serving, calls, minted, page, stored, call,
                atOnce, left, shared>>

Server == INSTANCE Sessions WITH Workers <- Callers, MaxRequests <- MaxCalls,
            db <- auth, work <- serving, begun <- calls

Unused == [state |-> "none", token |-> 0]
Nothing == [seat |-> "none", token |-> 0]
Silent == [what |-> "none", key |-> Nothing, heard |-> TRUE]
Shut == [open |-> FALSE, held |-> Nothing]

Keys == [seat : Seats \cup {"none"}, token : 0 .. MaxCalls]

IsAuth(rows) == rows.session \in
    [Seats -> [state : {"none", "live", "revoked"}, token : 0 .. MaxCalls]]

LoginsTypeOK ==
    /\ IsAuth(auth) /\ \A c \in Callers : Server!IsWork(serving[c], IsAuth, {})
    /\ calls \in 0 .. MaxCalls /\ minted \in 0 .. MaxCalls
    /\ page \in [Windows -> [open : BOOLEAN, held : Keys]] /\ stored \in Keys
    /\ call \in [PageCallers -> [key : Keys, heard : BOOLEAN,
            what : {"none", "signin", "refresh", "signout", "granted", "refused"}]]
    /\ atOnce \in BOOLEAN /\ left \in BOOLEAN /\ shared \in BOOLEAN

LoginsInit ==
    /\ auth = [session |-> [s \in Seats |->
            IF s \in Others THEN [Unused EXCEPT !.state = "live"] ELSE Unused]]
    /\ serving = [c \in Callers |-> Server!Idle]
    /\ calls = 0 /\ minted = 0
    /\ page = [t \in Windows |-> Shut] /\ stored = Nothing
    /\ call = [c \in PageCallers |-> Silent]
    /\ atOnce = FALSE /\ left = FALSE /\ shared = FALSE

clientVars == <<page, stored, call, atOnce, left, shared>>

-----------------------------------------------------------------------------
(* The server *)

LiveSeats(rows) == {s \in Seats : rows.session[s].state = "live"}

(* enforce_session_cap: all but the most recently active Cap - 1 of the others *)
Surplus(rows, new) ==
    LET others == LiveSeats(rows) \ {new}
        later(s) == {r \in others : rows.session[r].token > rows.session[s].token}
    IN  {s \in others : Cardinality(later(s)) >= Cap - 1}

(* revoke, revoke_all *)
Revoked(rows, gone) ==
    [rows EXCEPT !.session = [s \in Seats |->
        IF s \in gone THEN [@[s] EXCEPT !.state = "revoked"] ELSE @[s]]]

(* create_session, at the end of every way of signing in *)
CreateSession(c, s) ==
    /\ Server!Fresh("session", s, Unused)
    /\ LET opened == [auth EXCEPT !.session[s] = [state |-> "live", token |-> minted + 1]]
       IN  Server!Prepares(c, Revoked(opened, Surplus(opened, s)))
    /\ minted' = minted + 1

Accepts(key) == auth.session[key.seat].state = "live"

(* rotate; a token that has been replaced ends all the sessions *)
Rotate(c, key) ==
    /\ Accepts(key)
    /\ \/ /\ auth.session[key.seat].token # key.token
          /\ Server!Prepares(c, Revoked(auth, LiveSeats(auth)))
          /\ UNCHANGED minted
       \/ /\ auth.session[key.seat].token = key.token
          /\ Server!Prepares(c, [auth EXCEPT !.session[key.seat].token = minted + 1])
          /\ minted' = minted + 1

(* POST /auth/login and the second step, /auth/refresh, /auth/logout *)
Serve(c) ==
    /\ \/ call[c].what = "signin" /\ \E s \in Seats : CreateSession(c, s)
       \/ call[c].what = "refresh" /\ Rotate(c, call[c].key)
       \/ /\ call[c].what = "signout" /\ Accepts(call[c].key)
          /\ Server!Prepares(c, Revoked(auth, {call[c].key.seat}))
          /\ UNCHANGED minted
    /\ UNCHANGED <<page, stored, call, atOnce, left, shared>>

-----------------------------------------------------------------------------
(* The replies *)

Tells(c, answer) == call' = [call EXCEPT ![c] = IF call[c].heard THEN answer ELSE Silent]

(* the page signs itself out; a failed sign-in leaves it as it is *)
Refused(c) ==
    Tells(c, IF call[c].what = "signin" THEN Silent ELSE [Silent EXCEPT !.what = "refused"])

(* _mint *)
NewKeys(was, is) ==
    {[seat |-> s, token |-> is.session[s].token] :
        s \in {r \in LiveSeats(is) : is.session[r].token # was.session[r].token}}

(* the handler commits and its reply sets out *)
Complete(c) ==
    /\ Server!Saves(c)
    /\ LET new == NewKeys(serving[c].was, serving[c].is)
       IN  \/ new = {} /\ Refused(c)
           \/ \E key \in new :
                Tells(c, [what |-> "granted", key |-> key, heard |-> TRUE])
    /\ UNCHANGED <<minted, page, stored, atOnce, left, shared>>

(* 401 without a look at the token, or an error on the way *)
TurnAway(c) ==
    /\ call[c].what \in {"signin", "refresh", "signout"}
    /\ \/ /\ serving[c] = Server!Idle
          /\ call[c].what # "signin" => ~Accepts(call[c].key)
          /\ UNCHANGED <<auth, serving, calls>>
       \/ Server!Drops(c)
    /\ Refused(c)
    /\ UNCHANGED <<minted, page, stored, atOnce, left, shared>>

-----------------------------------------------------------------------------
(* The browser *)

SignedIn(t) == page[t].held # Nothing
Waits(c) == call[c].what # "none"

(* setTokens and logout of the store: the whole of it is written to localStorage *)
Keeps(t, key) ==
    /\ page' = [page EXCEPT ![t].held = key]
    /\ stored' = key

(* a page is opened: the store starts from localStorage *)
OpenPage(t) ==
    /\ ~page[t].open
    /\ page' = [page EXCEPT ![t] = [open |-> TRUE, held |-> stored]]
    /\ shared' = (shared \/ \E u \in Windows : SignedIn(u) /\ page[u].held.seat = stored.seat)
    /\ UNCHANGED <<auth, serving, calls, minted, stored, call, atOnce, left>>

(* closed or reloaded: nobody hears the reply to what it asked *)
ClosePage(t) ==
    /\ page[t].open
    /\ page' = [page EXCEPT ![t] = Shut]
    /\ call' = [c \in PageCallers |->
            IF c[1] # t THEN call[c]
            ELSE IF call[c].what \in {"signin", "refresh", "signout"}
                 THEN [call[c] EXCEPT !.heard = FALSE] ELSE Silent]
    /\ left' = (left \/ \E c \in PageCallers : c[1] = t /\ call[c].what \in {"refresh", "granted"})
    /\ UNCHANGED <<auth, serving, calls, minted, stored, atOnce, shared>>

Asks(c, what) ==
    /\ ~Waits(c) /\ page[c[1]].open /\ calls < MaxCalls
    /\ call' = [call EXCEPT ![c] = [what |-> what, key |-> page[c[1]].held, heard |-> TRUE]]
    /\ UNCHANGED <<auth, serving, calls, minted, page, stored, left>>

SignIn(t) ==
    /\ ~SignedIn(t)
    /\ Asks(<<t, "interceptor">>, "signin")
    /\ UNCHANGED <<atOnce, shared>>

SignOut(t) ==
    /\ SignedIn(t)
    /\ Asks(<<t, "interceptor">>, "signout")
    /\ UNCHANGED <<atOnce, shared>>

(* refreshAccessToken, and the effect of ProtectedRoute *)
Refresh(c) ==
    /\ SignedIn(c[1])
    /\ Asks(c, "refresh")
    /\ atOnce' = (atOnce \/ \E d \in PageCallers :
            d[1] = c[1] /\ call[d].what \in {"refresh", "granted"})
    /\ UNCHANGED shared

HearInMemory(c) ==   \* mutant: setTokens does not persist
    /\ call[c].what \in {"granted", "refused"}
    /\ page' = [page EXCEPT ![c[1]].held = call[c].key]
    /\ stored' = IF SignedIn(c[1]) /\ call[c].what = "granted" THEN stored ELSE call[c].key
    /\ call' = [call EXCEPT ![c] = Silent]
    /\ UNCHANGED <<auth, serving, calls, minted, atOnce, left, shared>>

(* the page takes the new tokens, or is signed out *)
Hear(c) ==
    /\ call[c].what \in {"granted", "refused"}
    /\ Keeps(c[1], call[c].key)
    /\ call' = [call EXCEPT ![c] = Silent]
    /\ UNCHANGED <<auth, serving, calls, minted, atOnce, left, shared>>

(* a call is cut off on its way, or its reply is: the page is signed out *)
CutOff(c) ==
    /\ Waits(c) /\ call[c].heard
    /\ IF call[c].what = "signin" THEN UNCHANGED <<page, stored>> ELSE Keeps(c[1], Nothing)
    /\ call' = [call EXCEPT ![c] =
            IF call[c].what \in {"granted", "refused"} THEN Silent ELSE [@ EXCEPT !.heard = FALSE]]
    /\ UNCHANGED <<auth, serving, calls, minted, atOnce, left, shared>>

-----------------------------------------------------------------------------
(* The user's other devices: create_session; revoke, and revoke_all after a
   new password, with or without the session that asked *)
SignInElsewhere(s) ==
    CreateSession(Elsewhere, s) /\ UNCHANGED <<clientVars>>

SignOutElsewhere(gone) ==
    /\ gone \subseteq LiveSeats(auth)
    /\ Server!Prepares(Elsewhere, Revoked(auth, gone))
    /\ UNCHANGED <<minted, clientVars>>

CommitElsewhere ==
    (Server!Saves(Elsewhere) \/ Server!Drops(Elsewhere)) /\ UNCHANGED <<minted, clientVars>>

LoginsNext ==
    \/ \E t \in Windows : OpenPage(t) \/ ClosePage(t) \/ SignIn(t) \/ SignOut(t)
    \/ \E c \in PageCallers :
        Refresh(c) \/ Serve(c) \/ Complete(c) \/ TurnAway(c) \/ Hear(c) \/ CutOff(c)
    \/ \E s \in Seats : SignInElsewhere(s)
    \/ \E gone \in SUBSET Seats : SignOutElsewhere(gone)
    \/ CommitElsewhere

LoginsSpec == LoginsInit /\ [][LoginsNext]_loginsVars

-----------------------------------------------------------------------------
(* Properties *)

(* session_service.py:183, api-client.ts:40 ("two concurrent 401s must not both
   call /auth/refresh").  The user is signed out everywhere for presenting an
   old token only when two refreshes of one page were under way at once, when a
   page was closed before it heard the reply, or when a second page held a copy
   of the token: one page that refreshes, is reloaded, loses a reply, signs out
   and signs in again never does it to itself. *)
OneCarefulPageStaysSignedIn ==
    \A c \in PageCallers :
        /\ serving[c].at = "ready" /\ call[c].what = "refresh"
        /\ serving[c].is.session[call[c].key.seat].state = "revoked"
        => atOnce \/ left \/ shared
=============================================================================
