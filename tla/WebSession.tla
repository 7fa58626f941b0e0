------------------------------ MODULE WebSession ------------------------------
(***************************************************************************)
(* The session of one browser tab: the token pair in the auth store, the   *)
(* requests of the API client, the refresh that answers a 401, login,      *)
(* logout and the tenant a platform administrator looks at.                *)
(*                                                                         *)
(* An access token expires; the first request the server rejects for it    *)
(* starts a refresh, the others wait for the same promise, and all are     *)
(* sent once more with the new token.  A refresh token works once: the     *)
(* server deletes it before it issues the next pair.  Answers may be lost; *)
(* the client then reports a network error, which ends a refresh as a      *)
(* refusal does.                                                           *)
(*                                                                         *)
(* A pair is the number of its issue.  Users, permissions, payloads and    *)
(* what requests ask for are left out.                                     *)
(***************************************************************************)
EXTENDS Naturals, FiniteSets, Sequences

CONSTANTS Calls,       \* requests a page may have under way at a time
          Tenants,     \* tenants to look at, besides one's own
          Own,         \* no tenant chosen
          MaxPairs,    \* bound: pairs issued in a behaviour
          MaxLosses,   \* bound: answers, or logouts, the network loses
          MaxSwitches  \* bound: switches of the viewed tenant

ASSUME OwnAssumption == Own \notin Tenants
ASSUME BoundsAssumption == MaxPairs \in Nat \ {0} /\ MaxLosses \in Nat /\ MaxSwitches \in Nat

VARIABLES store,       \* store/auth.ts: the pair held (0 for none) and the tenant viewed
          issued,      \* the server's view of the pairs it issued
          calls,       \* requests of pages
          refreshing,  \* client.ts: the refresh under way
          entering,    \* whether a login is under way
          leaving,     \* the logout under way
          losses,      \* answers, or logouts, lost so far
          switches     \* switches made so far

sessionVars == <<store, issued, calls, refreshing, entering, leaving, losses, switches>>

Pairs == 1..MaxPairs

StoreState == [pair : 0..MaxPairs, viewing : Tenants \cup {Own}]

\* uses counts how often doRefresh sent the refresh token.
IssuedPair == [access : {"live", "expired", "denied"}, refresh : {"live", "used"}, uses : Nat]

\* A call of stage "denied" has a 401 to handle, one that is "waiting" awaits
\* the refresh; pair is the token it was sent with.
CallState == [stage : {"idle", "sent", "denied", "waiting"}, pair : 0..MaxPairs, retried : BOOLEAN]

\* pair is the one whose refresh token was sent, got the one in the answer.
RefreshState == [stage : {"no", "sent", "granted", "refused"}, pair : 0..MaxPairs, got : 0..MaxPairs]

LeaveState == [stage : {"no", "sent", "answered"}, pair : 0..MaxPairs]

IdleCall == [stage |-> "idle", pair |-> 0, retried |-> FALSE]
NoRefresh == [stage |-> "no", pair |-> 0, got |-> 0]
NotLeaving == [stage |-> "no", pair |-> 0]
Cleared == [pair |-> 0, viewing |-> Own]
FreshPair == [access |-> "live", refresh |-> "live", uses |-> 0]

SessionTypeOK ==
    /\ store \in StoreState
    /\ issued \in Seq(IssuedPair) /\ Len(issued) <= MaxPairs
    /\ store.pair <= Len(issued)
    /\ calls \in [Calls -> CallState]
    /\ refreshing \in RefreshState
    /\ entering \in BOOLEAN
    /\ leaving \in LeaveState
    /\ losses \in 0..MaxLosses
    /\ switches \in 0..MaxSwitches
    /\ \A c \in Calls : calls[c].stage # "idle" => calls[c].pair \in 1..Len(issued)
    /\ refreshing.stage # "no" => refreshing.pair \in 1..Len(issued)
    /\ refreshing.stage = "granted" => refreshing.got \in 1..Len(issued)
    /\ leaving.stage # "no" => leaving.pair \in 1..Len(issued)

SessionInit ==
    /\ store = Cleared
    /\ issued = <<>>
    /\ calls = [c \in Calls |-> IdleCall]
    /\ refreshing = NoRefresh
    /\ entering = FALSE
    /\ leaving = NotLeaving
    /\ losses = 0
    /\ switches = 0

LoggedIn == store.pair # 0
CanIssue == Len(issued) < MaxPairs
NextPair == Len(issued) + 1

\* The login page, shown while there is no token, sends its request.
Enter ==
    /\ ~LoggedIn /\ ~entering
    /\ entering' = TRUE
    /\ UNCHANGED <<store, issued, calls, refreshing, leaving, losses, switches>>

\* The server issues a pair, and what was viewed before is forgotten.  Nothing
\* looks whether a refresh begun before has put another pair into the store.
Login ==
    /\ entering /\ CanIssue
    /\ issued' = Append(issued, FreshPair)
    /\ store' = [pair |-> NextPair, viewing |-> Own]
    /\ entering' = FALSE
    /\ UNCHANGED <<calls, refreshing, leaving, losses, switches>>

\* The login is refused, or does not come through.
LoginFails ==
    /\ entering
    /\ entering' = FALSE
    /\ UNCHANGED <<store, issued, calls, refreshing, leaving, losses, switches>>

\* TenantSwitcher and the tenant page: later requests carry another X-Tenant-ID.
SwitchTenant(t) ==
    /\ LoggedIn /\ t # store.viewing /\ switches < MaxSwitches
    /\ store' = [store EXCEPT !.viewing = t]
    /\ switches' = switches + 1
    /\ UNCHANGED <<issued, calls, refreshing, leaving, losses, entering>>

\* Time passes: the server no longer takes an access token it issued.
Expire(n) ==
    /\ issued[n].access = "live" /\ CanIssue
    /\ issued' = [issued EXCEPT ![n].access = "expired"]
    /\ UNCHANGED <<store, calls, refreshing, leaving, losses, switches, entering>>

SetCall(c, stage) == calls' = [calls EXCEPT ![c].stage = stage]

\* A page sends a request with the token the store holds.
Send(c) ==
    /\ LoggedIn /\ calls[c].stage = "idle"
    /\ calls' = [calls EXCEPT ![c] = [stage |-> "sent", pair |-> store.pair, retried |-> FALSE]]
    /\ UNCHANGED <<store, issued, refreshing, leaving, losses, switches, entering>>

\* The server takes the request, or rejects its token.
Answer(c) ==
    /\ calls[c].stage = "sent"
    /\ IF issued[calls[c].pair].access = "live"
          THEN calls' = [calls EXCEPT ![c] = IdleCall]
          ELSE SetCall(c, "denied")
    /\ UNCHANGED <<store, issued, refreshing, leaving, losses, switches, entering>>

\* No answer arrives: a network error, passed on to the page.
LoseAnswer(c) ==
    /\ calls[c].stage = "sent" /\ losses < MaxLosses
    /\ calls' = [calls EXCEPT ![c] = IdleCall]
    /\ losses' = losses + 1
    /\ UNCHANGED <<store, issued, refreshing, leaving, switches, entering>>

\* Faulty variant: every rejected request refreshes on its own.
FaultyMustRefresh == TRUE

\* refreshAccessToken: the first rejected request starts the refresh.
MustRefresh == refreshing.stage = "no"

\* doRefresh: sends the refresh token the store holds.
StartRefresh(c) ==
    /\ calls[c].stage = "denied" /\ ~calls[c].retried
    /\ MustRefresh /\ LoggedIn
    /\ refreshing' = [stage |-> "sent", pair |-> store.pair, got |-> 0]
    /\ issued' = [issued EXCEPT ![store.pair].uses = @ + 1]
    /\ SetCall(c, "waiting")
    /\ UNCHANGED <<store, leaving, losses, switches, entering>>

\* A refresh is under way: the request awaits its promise.
AwaitRefresh(c) ==
    /\ calls[c].stage = "denied" /\ ~calls[c].retried
    /\ refreshing.stage # "no"
    /\ SetCall(c, "waiting")
    /\ UNCHANGED <<store, issued, refreshing, leaving, losses, switches, entering>>

\* The interceptor gives up: it was sent twice, or there is nothing to refresh
\* with, in which case doRefresh clears the store.
GiveUp(c) ==
    /\ calls[c].stage = "denied"
    /\ \/ calls[c].retried /\ UNCHANGED store
       \/ ~calls[c].retried /\ refreshing.stage = "no" /\ ~LoggedIn /\ store' = Cleared
    /\ calls' = [calls EXCEPT ![c] = IdleCall]
    /\ UNCHANGED <<issued, refreshing, leaving, losses, switches, entering>>

\* The server consumes the refresh token and issues the next pair, or refuses:
\* the token was used before or revoked (as a change of password does with all
\* of a user's), or the account may no longer log in.
ServeRefresh ==
    /\ refreshing.stage = "sent"
    /\ \/ /\ issued[refreshing.pair].refresh = "live" /\ CanIssue
          /\ issued' = Append([issued EXCEPT ![refreshing.pair].refresh = "used"], FreshPair)
          /\ refreshing' = [refreshing EXCEPT !.stage = "granted", !.got = NextPair]
       \/ /\ issued' = [issued EXCEPT ![refreshing.pair].refresh = "used"]
          /\ refreshing' = [refreshing EXCEPT !.stage = "refused"]
    /\ UNCHANGED <<store, calls, leaving, losses, switches, entering>>

\* The answer of the refresh is lost, whatever the server did.
LoseRefresh ==
    /\ refreshing.stage \in {"sent", "granted"} /\ losses < MaxLosses
    /\ refreshing' = [refreshing EXCEPT !.stage = "refused", !.got = 0]
    /\ losses' = losses + 1
    /\ UNCHANGED <<store, issued, calls, leaving, switches, entering>>

\* Faulty variant: a refused refresh leaves its promise unsettled.
FaultyWaiting == {c \in Calls : calls[c].stage = "waiting" /\ refreshing.stage = "granted"}

\* The requests that await the promise of the refresh.
Waiting == {c \in Calls : calls[c].stage = "waiting"}

\* setTokens: the new pair replaces whatever the store holds by now, and the
\* waiting requests are sent again, with the mark that they were.
RefreshGranted ==
    /\ refreshing.stage = "granted"
    /\ store' = [store EXCEPT !.pair = refreshing.got]
    /\ refreshing' = NoRefresh
    /\ calls' = [c \in Calls |-> IF c \in Waiting
                                   THEN [stage |-> "sent", pair |-> refreshing.got, retried |-> TRUE]
                                   ELSE calls[c]]
    /\ UNCHANGED <<issued, leaving, losses, switches, entering>>

\* The store is cleared, which leads to the login page, and the waiting
\* requests fail.
RefreshRefused ==
    /\ refreshing.stage = "refused"
    /\ store' = Cleared
    /\ refreshing' = NoRefresh
    /\ calls' = [c \in Calls |-> IF c \in Waiting THEN IdleCall ELSE calls[c]]
    /\ UNCHANGED <<issued, leaving, losses, switches, entering>>

\* Layout: the logout mutation sends the refresh token to be revoked.
Logout ==
    /\ LoggedIn /\ leaving.stage = "no"
    /\ leaving' = [stage |-> "sent", pair |-> store.pair]
    /\ UNCHANGED <<store, issued, calls, refreshing, losses, switches, entering>>

\* The server denies the access token and consumes the refresh token; it
\* rejects a logout whose access token it no longer takes.
ServeLogout ==
    /\ leaving.stage = "sent"
    /\ leaving' = [leaving EXCEPT !.stage = "answered"]
    /\ issued' = IF issued[leaving.pair].access = "live"
                    THEN [issued EXCEPT ![leaving.pair] = [access |-> "denied", refresh |-> "used", uses |-> @.uses]]
                    ELSE issued
    /\ UNCHANGED <<store, calls, refreshing, losses, switches, entering>>

\* The logout never reaches the server, which revokes nothing.
LoseLogout ==
    /\ leaving.stage = "sent" /\ losses < MaxLosses
    /\ leaving' = [leaving EXCEPT !.stage = "answered"]
    /\ losses' = losses + 1
    /\ UNCHANGED <<store, issued, calls, refreshing, switches, entering>>

\* onSettled: whatever the server said, the store is cleared.
LeaveLocally ==
    /\ leaving.stage = "answered"
    /\ leaving' = NotLeaving
    /\ store' = Cleared
    /\ UNCHANGED <<issued, calls, refreshing, losses, switches, entering>>

CallStep(c) == Send(c) \/ Answer(c) \/ LoseAnswer(c) \/ StartRefresh(c) \/ AwaitRefresh(c) \/ GiveUp(c)
RefreshStep == ServeRefresh \/ LoseRefresh \/ RefreshGranted \/ RefreshRefused
LeaveStep == Logout \/ ServeLogout \/ LoseLogout \/ LeaveLocally

EntryStep == Enter \/ LoginFails

SessionNext ==
    \/ EntryStep
    \/ Login
    \/ \E t \in Tenants \cup {Own} : SwitchTenant(t)
    \/ \E n \in 1..Len(issued) : Expire(n)
    \/ \E c \in Calls : CallStep(c)
    \/ RefreshStep
    \/ LeaveStep

\* A refresh token is sent by at most one refresh: the server takes it once,
\* and a second one would be refused and log the user out
\* (refreshAccessToken in client.ts, consumeRefresh in auth/tokens.go).
RefreshTokenUsedOnce == \A n \in 1..Len(issued) : issued[n].uses <= 1

\* Every request a page sends comes to an end, rejected tokens, refused
\* refreshes, lost answers and a logout in between included: nothing waits
\* for a refresh that waits for nothing (client.ts, response interceptor).
CallsComeToAnEnd == \A c \in Calls : calls[c].stage # "idle" ~> calls[c].stage = "idle"
=============================================================================
