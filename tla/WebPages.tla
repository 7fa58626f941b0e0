------------------------------- MODULE WebPages -------------------------------
(***************************************************************************)
(* One query of one page beside one button, in a tab: the cache entry of   *)
(* the query (React Query), the dialog of the button, its call, and the    *)
(* events of the live feed, while the same data changes elsewhere.  The    *)
(* pages themselves are in FleetPages, MoneyPages, AssetPages and          *)
(* SystemPages; what the server does is in ServerApi.                      *)
(*                                                                         *)
(* The data a query shows is the number of changes it has seen, plus the   *)
(* state of the one row the button is about.  The button may also be on    *)
(* another page than the query.  Filters and the retry of failed reads are *)
(* left out, entries are not collected, and one call is under way at a     *)
(* time.                                                                   *)
(***************************************************************************)
EXTENDS Naturals, SystemPages

CONSTANT MaxChanges    \* bound: changes of the query's data

ASSUME MaxChangesAssumption == MaxChanges \in Nat

VARIABLES scene,      \* which query and which button; never changes
          row,        \* the server's state of the button's row
          rev,        \* the number of changes of the query's data so far
          view,       \* what the entry holds
          cache,      \* whether the entry is invalidated, and its request
          onDisplay,  \* the query's page is on display
          dialog,     \* what is open on the button's page
          call,       \* the call behind the button
          feedOpen,   \* the socket is open
          news,       \* events under way to the tab
          missed      \* the tab was not told of a change, or could not take it

serverVars == <<row, rev>>
entryVars == <<view, cache>>
feedVars == <<feedOpen, news>>
vars == <<scene, serverVars, entryVars, onDisplay, dialog, call, feedVars, missed>>

---------------------------------------------------------------------------
\* The scenes.

\* The data that shows the rows of a kind.
RowData(kind) == IF kind = "connectors" THEN "pileLive" ELSE kind

Touches(op, query) == op.changes \cap query.reads # {}

\* What the feed does to a query when an operation is done: handleEvent
\* invalidates it, or applyVehicleStatus puts in all that has changed.
Told(op, query) ==
    CASE \E e \in op.tells : Covers(EventKeys(e), query.key) -> "again"
      [] /\ \E e \in op.tells : query.key \in PatchedKeys(e)
         /\ op.changes \cap query.reads \subseteq {"live"}  -> "patch"
      [] OTHER                                               -> "not"

\* An operation as a scene sees it.
Effect(op, query, kind) ==
    [from    |-> IF op.on = kind THEN op.from ELSE {},
     to      |-> op.to,
     touches |-> Touches(op, query),
     told    |-> IF Touches(op, query) THEN Told(op, query) ELSE "not"]

Concerns(op, query, kind) == Touches(op, query) \/ (op.on = kind /\ op.to # {})

\* For queries whose page has no button that concerns them.
NoButton == Button(Direct(Op("none", "nothing", {"none"}, {}, {}), {}), "none", {})

\* What is not refreshed by the answer to the button that changed it, and told
\* by the feed at most.  A new request, and the status of a vehicle whose trip
\* starts from its request, are left to the feed.  Of the rest nobody tells: the
\* vehicles on offer to a request or a booking when something else keeps them
\* away, the status beside a vehicle in a filter and the count of its trips, the
\* members, holders and sizes that are counted beside departments, roles and
\* tenants, the departments and members in the tree of accounts, the piles in
\* the charging page, the device of a vehicle deleted, and trips billed late.
\* They wait for their staleTime.
Headcounts == {UserOps.create, UserOps.import, UserOps.delete}

KnownGap(op, key) ==
    \/ op = ApprovalOps.create
       /\ key \in {approvalKeys.list.key, approvalKeys.detail.key, approvalKeys.availableVehicles.key}
    \/ op = TripOps.start /\ key \in {vehicleKeys.status.key, vehicleKeys.options.key, vehicleKeys.detail.key}
    \/ op \in {BookingOps.depart, BookingOps.complete}
       /\ key \in {vehicleKeys.options.key, approvalKeys.availableVehicles.key}
    \/ op \in Members(VehicleOps) /\ key \in {approvalKeys.availableVehicles.key, bookingKeys.availableVehicles.key}
    \/ op \in Members(ApprovalOps) \cup Members(TripOps) /\ key = bookingKeys.availableVehicles.key
    \/ op \in Headcounts \cup {UserOps.update} /\ key \in {deptKeys.tree.key, roleKeys.list.key, billingKeys.accountTree.key}
    \/ op = UserOps.assign /\ key = roleKeys.list.key
    \/ op \in Headcounts \cup {DeptOps.create, DeptOps.delete} /\ key = tenantKeys.list.key
    \/ op \in Members(DeptOps) /\ key = billingKeys.accountTree.key
    \/ op \in Members(PileOps) /\ key = chargingKeys.pilesLive.key
    \/ op = VehicleOps.delete /\ key = deviceKeys.list.key
    \/ op = SettlementOps.generate /\ key = tripKeys.list.key

\* A tenant is disabled with the permission to update it, and the page asks
\* for the one to delete it.
PermissionGap(button) == button.op = TenantOps.disable

\* What the machine needs to know of a query and a button: scenes that look
\* alike are one.  The user has the permission the page asks for and no other.
Scene(query, button, away) ==
    [polled    |-> query.polled,
     resynced  |-> Covers(ResyncKeys, query.key),
     rows      |-> RowStates[button.op.on],
     showsRow  |-> ~away /\ RowData(button.op.on) \in query.reads,
     away      |-> away,
     dialog    |-> button.dialog,
     offered   |-> button.offered,
     warned    |-> button.warned,
     permitted |-> button.op.perm \in {"none", button.perm},
     may       |-> button.op.may,
     refreshed |-> Covers(button.refresh, query.key),
     put       |-> query.key \in button.puts,
     own       |-> Effect(button.op, query, button.op.on),
     others    |-> {Effect(op, query, button.op.on) : op \in {o \in AllOps : Concerns(o, query, button.op.on)}},
     known     |-> KnownGap(button.op, query.key) /\ ~Covers(button.refresh, query.key),
     forbidden |-> PermissionGap(button)]

AllQueries == UNION {s.shows : s \in Screens}

QuietScenes == {Scene(q, NoButton, FALSE) : q \in AllQueries}

\* A page's query and one of its buttons that changes it or needs its rows.
ScenesOf(s) ==
    UNION {{Scene(q, b, FALSE) : q \in {x \in s.shows : Touches(b.op, x) \/ RowData(b.op.on) \in x.reads}} : b \in s.does}

\* A query and a button of another page that changes it.
CrossScenes(s) ==
    UNION {{Scene(q, b, TRUE) : q \in {x \in AllQueries \ s.shows : Touches(b.op, x)}} : b \in s.does}

Scenes == QuietScenes \cup UNION {ScenesOf(s) \cup CrossScenes(s) : s \in Screens}

Rows == (UNION {RowStates[kind] : kind \in DOMAIN RowStates}) \cup {Gone}

Effects == [from : SUBSET Rows, to : SUBSET Rows, touches : BOOLEAN, told : {"again", "patch", "not"}]

SceneState ==
    [polled : BOOLEAN, resynced : BOOLEAN, rows : SUBSET Rows, showsRow : BOOLEAN, away : BOOLEAN,
     dialog : {"held", "loose", "stays", "none"}, offered : SUBSET Rows, warned : SUBSET Rows,
     permitted : BOOLEAN, may : BOOLEAN, refreshed : BOOLEAN, put : BOOLEAN,
     own : Effects, others : SUBSET Effects, known : BOOLEAN, forbidden : BOOLEAN]

---------------------------------------------------------------------------

NoView == [has |-> FALSE, rev |-> 0, row |-> Gone]
NoFetch == [stale |-> FALSE, fetch |-> "no", rev |-> 0, row |-> Gone]
NoCall == [stage |-> "no", seen |-> Gone, met |-> Gone, rev |-> 0, home |-> FALSE]

\* call.seen is the row's state when the button was pressed, met the one the
\* server decided on; home says that the page it came from is still mounted.
TypeOK ==
    /\ scene \in SceneState
    /\ row \in Rows
    /\ rev \in 0..MaxChanges
    /\ view \in [has : BOOLEAN, rev : 0..rev, row : Rows]
    /\ cache \in [stale : BOOLEAN, fetch : {"no", "asked", "answered"}, rev : 0..rev, row : Rows]
    /\ onDisplay \in BOOLEAN
    /\ dialog \in {"none", "own", "other"}
    /\ call \in [stage : {"no", "open", "sent", "served", "declined", "refused"},
                 seen : Rows, met : Rows, rev : 0..rev, home : BOOLEAN]
    /\ feedOpen \in BOOLEAN
    /\ news \in Seq([kind : {"again", "patch"}, rev : 1..rev])
    /\ missed \in BOOLEAN
    /\ ~feedOpen => news = <<>>
    /\ call.stage = "open" => dialog = "own"

Init ==
    /\ scene \in Scenes
    /\ row \in scene.rows
    /\ rev = 0
    /\ view = NoView
    /\ cache = NoFetch
    /\ onDisplay = FALSE
    /\ dialog = "none"
    /\ call = NoCall
    /\ feedOpen = TRUE
    /\ news = <<>>
    /\ missed = FALSE

---------------------------------------------------------------------------
\* The cache entry.

Ask(entry) == [stale |-> entry.stale, fetch |-> "asked", rev |-> 0, row |-> Gone]

\* Faulty variant: a form not yet submitted outlives its page.
FaultyUnmounted(c) == [c EXCEPT !.home = FALSE]

\* The page of the button goes: its form is lost, a call under way goes on.
Unmounted(c) == IF c.stage = "open" THEN NoCall ELSE [c EXCEPT !.home = FALSE]

\* The page is opened: a request under way is joined; data that is missing or
\* invalidated is asked for, and data older than its staleTime.  Another page
\* was left.
Load ==
    /\ ~onDisplay
    /\ onDisplay' = TRUE
    /\ \/ cache.fetch = "no" /\ cache' = Ask(cache)
       \/ (cache.fetch # "no" \/ (view.has /\ ~cache.stale)) /\ UNCHANGED cache
    /\ dialog' = "none"
    /\ call' = Unmounted(call)
    /\ UNCHANGED <<scene, serverVars, view, feedVars, missed>>

Leave ==
    /\ onDisplay
    /\ onDisplay' = FALSE
    /\ dialog' = "none"
    /\ call' = Unmounted(call)
    /\ UNCHANGED <<scene, serverVars, entryVars, feedVars, missed>>

\* The refetchInterval of the query comes round.
Poll ==
    /\ onDisplay /\ scene.polled /\ cache.fetch = "no"
    /\ cache' = Ask(cache)
    /\ UNCHANGED <<scene, serverVars, view, onDisplay, dialog, call, feedVars, missed>>

\* The server reads what the request asks for.
Read ==
    /\ cache.fetch = "asked"
    /\ cache' = [cache EXCEPT !.fetch = "answered", !.rev = rev, !.row = row]
    /\ UNCHANGED <<scene, serverVars, view, onDisplay, dialog, call, feedVars, missed>>

\* The answer replaces the data, and the entry counts as valid again.
Arrive ==
    /\ cache.fetch = "answered"
    /\ view' = [has |-> TRUE, rev |-> cache.rev, row |-> cache.row]
    /\ cache' = NoFetch
    /\ missed' = (missed /\ cache.rev # rev)
    /\ UNCHANGED <<scene, serverVars, onDisplay, dialog, call, feedVars>>

\* The request fails: the page says so, and keeps its data.
FailRead ==
    /\ cache.fetch # "no"
    /\ cache' = [NoFetch EXCEPT !.stale = cache.stale]
    /\ missed' = TRUE
    /\ UNCHANGED <<scene, serverVars, view, onDisplay, dialog, call, feedVars>>

\* invalidateQueries: the entry is marked; on display it is asked for again,
\* which cancels a request under way, unless that is the first one.
Invalidated ==
    LET marked == [cache EXCEPT !.stale = TRUE]
    IN  IF onDisplay /\ (view.has \/ cache.fetch = "no") THEN Ask(marked) ELSE marked

\* A request that goes on takes the mark away with an answer that is older.
InvalidationLost == cache.fetch = "answered" /\ cache.rev # rev /\ ~(onDisplay /\ view.has)

Invalidate ==
    /\ cache' = Invalidated
    /\ missed' = (missed \/ InvalidationLost)
    /\ UNCHANGED view

\* setQueryData with a change of the data: it clears the mark of the entry and
\* leaves a request under way alone, whose older answer will replace it.
PutIn(changed, number) ==
    /\ view' = changed
    /\ cache' = [cache EXCEPT !.stale = FALSE]
    /\ missed' = \/ missed
                 \/ cache.fetch = "answered" /\ cache.rev < number
                 \/ cache.fetch = "no" /\ cache.stale /\ changed.rev # rev
                 \/ cache.fetch = "no" /\ changed.rev < view.rev

---------------------------------------------------------------------------
\* The feed, and what happens elsewhere.

Publish(told) == news' = IF feedOpen /\ told # "not" THEN Append(news, [kind |-> told, rev |-> rev + 1]) ELSE news

\* Another tab, another user, a device or a pile changes something.
Elsewhere(e) ==
    /\ row' \in {row} \cup (IF row \in e.from THEN e.to ELSE {})
    /\ IF e.touches
          THEN /\ rev < MaxChanges
               /\ rev' = rev + 1
               /\ Publish(e.told)
               /\ missed' = (missed \/ e.told = "not" \/ ~feedOpen)
          ELSE row' # row /\ UNCHANGED <<rev, news, missed>>
    /\ UNCHANGED <<scene, entryVars, onDisplay, dialog, call, feedOpen>>

\* The tab takes up the next event.
Hear ==
    /\ news # <<>>
    /\ LET n == Head(news)
       IN  IF n.kind = "again" THEN Invalidate
           ELSE IF view.has THEN PutIn([view EXCEPT !.rev = IF @ + 1 = n.rev THEN n.rev ELSE @], n.rev)
           ELSE /\ missed' = (missed \/ (cache.fetch = "answered" /\ cache.rev < n.rev))
                /\ UNCHANGED entryVars
    /\ news' = Tail(news)
    /\ UNCHANGED <<scene, serverVars, onDisplay, dialog, call, feedOpen>>

\* The socket closes: events under way to it are lost.
FeedCloses ==
    /\ feedOpen
    /\ feedOpen' = FALSE
    /\ news' = <<>>
    /\ missed' = (missed \/ news # <<>>)
    /\ UNCHANGED <<scene, serverVars, entryVars, onDisplay, dialog, call>>

\* onopen: some keys are invalidated, if this closure was open before.
FeedOpens ==
    /\ ~feedOpen
    /\ feedOpen' = TRUE
    /\ \/ scene.resynced /\ Invalidate
       \/ UNCHANGED <<entryVars, missed>>
    /\ UNCHANGED <<scene, serverVars, onDisplay, dialog, call, news>>

---------------------------------------------------------------------------
\* The button, its dialog and its call.

\* The page of the button is on display.
Here == onDisplay # scene.away

\* The row's state the page decides on.
Seen == IF scene.showsRow THEN view.row ELSE row

\* A dialog opens, or the call is made at once.
Press ==
    /\ Here /\ dialog = "none" /\ call.stage = "no"
    /\ scene.showsRow => view.has
    /\ Seen \in scene.offered
    /\ IF scene.dialog = "none"
          THEN call' = [NoCall EXCEPT !.stage = "sent", !.seen = Seen, !.home = TRUE] /\ UNCHANGED dialog
          ELSE call' = [NoCall EXCEPT !.stage = "open", !.seen = Seen, !.home = TRUE] /\ dialog' = "own"
    /\ UNCHANGED <<scene, serverVars, entryVars, onDisplay, feedVars, missed>>

\* The same dialog for another row, or another dialog of the page.
PressOther ==
    /\ Here /\ dialog = "none" /\ scene.dialog # "none"
    /\ dialog' = "other"
    /\ UNCHANGED <<scene, serverVars, entryVars, onDisplay, call, feedVars, missed>>

\* Faulty variant: a dialog may be closed whatever its call does.
FaultyMayDismiss == TRUE

\* onClose: held dialogs ignore it while their call is under way.
MayDismiss == call.stage = "open" \/ scene.dialog # "held"

Dismiss ==
    /\ dialog = "other" \/ (dialog = "own" /\ MayDismiss)
    /\ dialog' = "none"
    /\ call' = IF call.stage = "open" THEN NoCall ELSE call
    /\ UNCHANGED <<scene, serverVars, entryVars, onDisplay, feedVars, missed>>

Submit ==
    /\ call.stage = "open"
    /\ call' = [call EXCEPT !.stage = "sent"]
    /\ UNCHANGED <<scene, serverVars, entryVars, onDisplay, dialog, feedVars, missed>>

Accepts == scene.permitted /\ row \in scene.own.from

\* The operation is done.  What its answer will not refresh only the feed can
\* tell: on another page by design, on this page where the gap is known.
Serve ==
    /\ call.stage = "sent" /\ Accepts
    /\ row' \in IF scene.own.to = {} THEN {row} ELSE scene.own.to
    /\ IF scene.own.touches
          THEN /\ rev < MaxChanges
               /\ rev' = rev + 1
               /\ Publish(scene.own.told)
               /\ missed' = \/ missed
                            \/ scene.away /\ ~scene.refreshed /\ scene.own.told # "not" /\ ~feedOpen
                            \/ scene.known /\ (scene.own.told = "not" \/ ~feedOpen)
          ELSE UNCHANGED <<rev, news, missed>>
    /\ call' = [call EXCEPT !.stage = "served", !.met = row, !.rev = rev']
    /\ UNCHANGED <<scene, entryVars, onDisplay, dialog, feedOpen>>

\* The server refuses what the row does not allow, or what the row does not show.
Refuse ==
    /\ call.stage = "sent"
    /\ \/ ~Accepts /\ call' = [call EXCEPT !.stage = "refused", !.met = row]
       \/ Accepts /\ scene.may /\ call' = [call EXCEPT !.stage = "declined", !.met = row]
    /\ UNCHANGED <<scene, serverVars, entryVars, onDisplay, dialog, feedVars, missed>>

\* onSuccess: the page refreshes what it says, and its state for what is open
\* is cleared, whatever is open by now.
Succeed ==
    /\ call.stage = "served"
    /\ CASE scene.refreshed         -> Invalidate
         [] scene.put /\ ~scene.refreshed -> PutIn([view EXCEPT !.rev = call.rev], call.rev)
         [] OTHER             -> UNCHANGED <<entryVars, missed>>
    /\ dialog' = IF call.home /\ scene.dialog \in {"held", "loose"} THEN "none" ELSE dialog
    /\ call' = NoCall
    /\ UNCHANGED <<scene, serverVars, onDisplay, feedVars>>

\* onError, also when the answer is lost: the dialog stays open.
Complain ==
    /\ call.stage \in {"declined", "refused", "served"}
    /\ missed' = (missed \/ (call.stage = "served" /\ scene.own.touches))
    /\ call' = IF dialog = "own" THEN [call EXCEPT !.stage = "open", !.rev = 0] ELSE NoCall
    /\ UNCHANGED <<scene, serverVars, entryVars, onDisplay, dialog, feedVars>>

EntryStep == Load \/ Leave \/ Poll \/ Read \/ Arrive \/ FailRead
FeedStep == (\E e \in scene.others : Elsewhere(e)) \/ Hear \/ FeedCloses \/ FeedOpens
ButtonStep == Press \/ PressOther \/ Dismiss \/ Submit \/ Serve \/ Refuse \/ Succeed \/ Complain

Next == EntryStep \/ FeedStep \/ ButtonStep

Spec == Init /\ [][Next]_vars

---------------------------------------------------------------------------

\* The answer to the button refreshes what its operation changes on its own
\* page, and on another page at least the feed tells of it, but for the known
\* gaps.  An answer put into the cache replaces all that the query shows, so the
\* query must not be one that events are put into, whose order with the answer
\* is open.
Refreshes(s) ==
    /\ s.own.touches /\ ~s.polled => s.refreshed \/ s.put \/ (s.away /\ s.own.told # "not") \/ s.known
    /\ s.put /\ ~s.refreshed => \A e \in s.others \cup {s.own} : e.told # "patch"

\* The button is offered to who may press it, for rows the server accepts.
Offers(s) == (s.permitted \/ s.forbidden) /\ s.offered \subseteq s.own.from \cup s.warned

\* Every button of every page keeps the two rules, but for the gaps listed in
\* KnownGap and PermissionGap.  The code states them nowhere: each page repeats
\* query keys, permissions and row states by hand.  That they are enough for the
\* three properties below, whatever happens in which order, is a theorem
\* (WebPages_proofs).
PageIsSound == Refreshes(scene) /\ Offers(scene)

\* Nothing is on its way to the tab.
Quiet == cache.fetch = "no" /\ news = <<>> /\ call.stage \in {"no", "open"}

\* A query on display that is not polled shows the latest data once nothing is
\* under way, unless the tab was not told of a change made elsewhere, a read or
\* an answer failed, or a late read took the mark of an invalidation away.  A
\* change made by a button of the page itself, answered with success, is never
\* among the excuses unless the button is a known gap for the query, and then
\* only if the feed was closed or has no event for it.  (The invalidate helpers
\* of the pages, the query keys, handleEvent and onopen of useWebSocket.)
QuietMeansFresh == Quiet /\ onDisplay /\ view.has /\ ~scene.polled => view.rev = rev \/ missed

\* The server refuses a button for the row's state, or for want of permission,
\* only when the row had changed since the page showed it: buttons are offered
\* in the states the handler accepts, to users who have what the route asks.
\* (The row actions of the pages against the guards of the handlers.)
RefusedOnlyByRace ==
    call.stage = "refused" => \/ call.met # call.seen
                              \/ call.seen \in scene.warned
                              \/ scene.forbidden

\* The success of the call of a dialog that is held open never closes a dialog
\* that was opened for another row or another purpose since.  (onSuccess of the
\* pages clears the state for what is open; ConfirmDialog and Modal stay while
\* their mutation is pending.)
AnswerClosesOwnDialog ==
    [][Succeed /\ scene.dialog = "held" => dialog # "other" \/ dialog' = dialog]_vars
===============================================================================
