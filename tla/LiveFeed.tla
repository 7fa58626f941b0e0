------------------------------- MODULE LiveFeed -------------------------------
(***************************************************************************)
(* The live feed of a tab (hooks/useWebSocket.ts) on top of its session:   *)
(* an effect keyed by the token and the viewed tenant keeps one socket,    *)
(* reconnects it when it closes, and gives it up when its keys change.     *)
(*                                                                         *)
(* React renders a change of the store, and runs its effects, before the   *)
(* browser takes up another event, once Layout is on display; Layout comes *)
(* up some time after a login.  The server takes a handshake whose token   *)
(* it still takes and never looks at the token again.  While the socket is *)
(* not open, the notification bell polls: that request, rejected for an    *)
(* expired token, is what refreshes the token the next handshake needs.    *)
(* The delay of the back-off, pings and what events carry are left out.    *)
(***************************************************************************)
EXTENDS WebSession

CONSTANT MaxDrops    \* bound: sockets the network closes

ASSUME MaxDropsAssumption == MaxDrops \in Nat

VARIABLES feed,      \* the closure of the running effect: its keys, its socket, its timer
          live,      \* what the live data has seen of the events since it was loaded
          drops      \* sockets closed so far

feedVars == <<feed, live, drops>>
vars == <<sessionVars, feedVars>>

\* keys are those the effect ran for; pair and viewing are what the socket was
\* opened with; opened is the closure's everOpened.
FeedState == [keys    : [pair : 0..MaxPairs, viewing : Tenants \cup {Own}],
              socket  : {"none", "connecting", "open"},
              pair    : 0..MaxPairs,
              viewing : Tenants \cup {Own},
              timer   : BOOLEAN,
              opened  : BOOLEAN]

TypeOK ==
    /\ SessionTypeOK
    /\ feed \in FeedState
    /\ live \in {"loaded", "followed", "behind"}
    /\ drops \in 0..MaxDrops
    /\ feed.socket # "none" => feed.pair \in 1..Len(issued) /\ ~feed.timer

Init ==
    /\ SessionInit
    /\ feed = [keys |-> Cleared, socket |-> "none", pair |-> 0, viewing |-> Own, timer |-> FALSE, opened |-> FALSE]
    /\ live = "loaded"
    /\ drops = 0

Open == feed.socket = "open"

\* Faulty variant: the tenant is missing from the effect's dependencies.
FaultyKeys == [pair |-> store.pair, viewing |-> feed.keys.viewing]

\* The dependencies of the effect, as the store has them.
Keys == [pair |-> store.pair, viewing |-> store.viewing]

Settled == feed.keys = Keys

\* Layout is on display and about to run the effect: nothing comes before.
Due == ~Settled /\ feed.keys.pair # 0

\* The clean-up closes the socket and the timer of the last run; the new run
\* connects at once, unless there is no token.  Its closure has not opened yet.
RunEffect ==
    /\ ~Settled
    /\ feed' = [keys    |-> Keys,
                socket  |-> IF LoggedIn THEN "connecting" ELSE "none",
                pair    |-> store.pair,
                viewing |-> store.viewing,
                timer   |-> FALSE,
                opened  |-> FALSE]
    /\ UNCHANGED <<sessionVars, live, drops>>

\* onopen: a closure that was open before loads what it may have missed.
Opened ==
    /\ feed.socket = "connecting" /\ issued[feed.pair].access = "live"
    /\ feed' = [feed EXCEPT !.socket = "open", !.opened = TRUE]
    /\ live' = IF live = "behind" /\ ~feed.opened THEN live ELSE "followed"
    /\ UNCHANGED <<sessionVars, drops>>

\* Faulty variant: the closed socket is kept.
FaultyClosed == feed' = [feed EXCEPT !.timer = TRUE]

\* onclose: the socket is forgotten and a reconnect scheduled.
Closed == feed' = [feed EXCEPT !.socket = "none", !.timer = TRUE]

\* The server refuses the token of the handshake.
Refused ==
    /\ feed.socket = "connecting" /\ issued[feed.pair].access # "live"
    /\ Closed
    /\ UNCHANGED <<sessionVars, live, drops>>

\* The network closes the socket, open or not.
Drop ==
    /\ feed.socket # "none" /\ drops < MaxDrops
    /\ Closed
    /\ drops' = drops + 1
    /\ UNCHANGED <<sessionVars, live>>

\* The timer fires: connect with the token of now, or return if there is none.
Reconnect ==
    /\ feed.timer
    /\ feed' = IF LoggedIn THEN [feed EXCEPT !.timer = FALSE, !.socket = "connecting",
                                             !.pair = store.pair, !.viewing = store.viewing]
                           ELSE [feed EXCEPT !.timer = FALSE]
    /\ UNCHANGED <<sessionVars, live, drops>>

\* Faulty variant: the bell leaves everything to the feed.
FaultyBellPolls(c) == FALSE

\* NotificationBell: polls while the socket is not open.
BellPolls(c) == Send(c) /\ ~Open

Poll(c) == BellPolls(c) /\ UNCHANGED feedVars

\* The feed was open since the data was loaded, is not now, and the server
\* publishes an event of the viewed tenant.
Miss ==
    /\ LoggedIn /\ ~Open /\ live = "followed"
    /\ live' = "behind"
    /\ UNCHANGED <<sessionVars, feed, drops>>

\* Pages load their data anew on login, and when all queries are reset for
\* another tenant.
Loaded == live' = IF LoggedIn /\ store'.pair # 0 /\ store'.viewing = store.viewing THEN live ELSE "loaded"

Beside == Loaded /\ ~Due /\ UNCHANGED <<feed, drops>>

SessionMoves == SessionNext /\ Beside

SocketStep == ~Due /\ (Opened \/ Refused \/ Drop \/ Reconnect \/ Miss)

Next == SessionMoves \/ RunEffect \/ SocketStep \/ \E c \in Calls : Poll(c) /\ ~Due

Spec == Init /\ [][Next]_vars

\* A request gets an answer or a network error, which axios hands on; a denied
\* one is handled; and the bell's interval comes round, which it does as long as
\* the tab is on display (React Query pauses it in a hidden one).
CallFairness(c) ==
    /\ WF_vars(Answer(c) /\ Beside)
    /\ WF_vars((StartRefresh(c) \/ AwaitRefresh(c) \/ GiveUp(c)) /\ Beside)
    /\ WF_vars(Poll(c) /\ ~Due)

\* The refresh and the logout get an answer or a network error; React runs
\* effects, handshakes get an answer and timers fire.
TabFairness ==
    /\ WF_vars(RefreshStep /\ Beside)
    /\ WF_vars((ServeLogout \/ LeaveLocally) /\ Beside)
    /\ WF_vars(RunEffect)
    /\ WF_vars((Opened \/ Refused) /\ ~Due)
    /\ WF_vars(Reconnect /\ ~Due)

FairSpec == Spec /\ TabFairness /\ \A c \in Calls : CallFairness(c)

\* Whenever Layout is settled the tab listens with the token and to the tenant
\* of its session, whatever logins, refreshes, switches and reconnects came
\* before; while somebody is logged in it has a socket or a reconnect ahead,
\* and without a session neither (useWebSocket, dependencies and clean-up of
\* the effect).
FeedSpeaksForSession ==
    Settled =>
        /\ feed.socket # "none" => feed.pair = store.pair /\ feed.viewing = store.viewing
        /\ LoggedIn <=> feed.socket # "none" \/ feed.timer

\* As long as somebody is logged in the feed opens again, closed sockets and
\* expired tokens notwithstanding: only the bell's poll refreshes the token of
\* an idle page (NotificationBell, refetchInterval; useWebSocket, scheduleReconnect).
FeedComesBack == []<>(Open \/ ~LoggedIn)

\* What the comment in useWebSocket.ts:215 says: events may be missed while
\* disconnected, so live status and unread count are loaded again; a feed that
\* is open again is not behind.
OpenIsUpToDate == Open => live # "behind"
===============================================================================
