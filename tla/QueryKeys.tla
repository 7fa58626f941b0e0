------------------------------ MODULE QueryKeys ------------------------------
(***************************************************************************)
(* The queries of the front end, one record per file of api/: the key each *)
(* is cached under and the server's data it shows: what its SQL selects    *)
(* the rows by, what it counts, and the figures the pages show of it.      *)
(* What only names something joined in (the plate of a trip's vehicle, the *)
(* leader of a department) is left out.  Parameters of a key (filters,     *)
(* identifiers) are left out too; an invalidation takes every key it is a  *)
(* prefix of.                                                              *)
(*                                                                         *)
(* Counts and figures kept with other rows have names of their own:        *)
(*   members      the users of each department                             *)
(*   roleHolders  the users of each role                                   *)
(*   tenantSize   the users and departments of each tenant                 *)
(*   gateways     the device that each vehicle is bound to                 *)
(*   bills        the cost of each trip and whether it was billed          *)
(*   meter        the meter values of each charging transaction            *)
(*   periods      the months with a completed trip or settled charging     *)
(* The query of the signed-in user, in router/guards.tsx, belongs to the   *)
(* session and is not here.                                                *)
(***************************************************************************)
EXTENDS Sequences, SequencesExt

Query(key, reads) == [key |-> key, reads |-> reads, polled |-> FALSE]

\* A page that gives the query a refetchInterval.
Polled(query) == [query EXCEPT !.polled = TRUE]

\* A request shows the trip that came of it, and the vehicles on offer are those
\* that no request, and no status of theirs, keeps away.
approvalKeys ==
    [all               |-> <<"approvals">>,
     list              |-> Query(<<"approvals", "list">>, {"approvals"}),
     detail            |-> Query(<<"approvals", "detail">>, {"approvals", "trips"}),
     todoCount         |-> Query(<<"approvals", "todo-count">>, {"approvals"}),
     availableVehicles |-> Query(<<"approvals", "available-vehicles">>, {"approvals", "vehicles", "live"}),
     rules             |-> Query(<<"approvals", "rules">>, {"approvalRules"})]

tripKeys ==
    [all     |-> <<"trips">>,
     list    |-> Query(<<"trips", "list">>, {"trips", "bills"}),
     detail  |-> Query(<<"trips", "detail">>, {"trips", "bills", "tripEvents"}),
     track   |-> Query(<<"trips", "track">>, {"track"}),
     summary |-> Query(<<"trips", "summary">>, {"trips", "tripEvents"})]

\* The vehicles on offer are those with no booking and no request in the way.
bookingKeys ==
    [all               |-> <<"bookings">>,
     list              |-> Query(<<"bookings", "list">>, {"bookings"}),
     availableVehicles |-> Query(<<"bookings", "available-vehicles">>, {"bookings", "approvals", "vehicles", "live"})]

\* Options are labelled with the status; the details count the trips.
vehicleKeys ==
    [all       |-> <<"vehicles">>,
     list      |-> Query(<<"vehicles", "list">>, {"vehicles", "live", "gateways"}),
     status    |-> Query(<<"vehicles", "status">>, {"vehicles", "live"}),
     options   |-> Query(<<"vehicles", "options">>, {"vehicles", "live"}),
     detail    |-> Query(<<"vehicles", "detail">>, {"vehicles", "live", "gateways", "trips"}),
     live      |-> Query(<<"vehicles", "live">>, {"vehicles", "live"}),
     telemetry |-> Query(<<"vehicles", "telemetry">>, {"track"})]

chargingKeys ==
    [all         |-> <<"charging">>,
     pilesLive   |-> Query(<<"charging", "piles", "live">>, {"piles", "pileLive", "transactions"}),
     txList      |-> Query(<<"charging", "transactions", "list">>, {"transactions", "meter"}),
     txDetail    |-> Query(<<"charging", "transactions", "detail">>, {"transactions", "meter"}),
     meterValues |-> Query(<<"charging", "transactions", "meter-values">>, {"meter"}),
     summary     |-> Query(<<"charging", "summary">>, {"transactions", "piles"})]

\* The tree of accounts follows the departments and their members.  The periods
\* that may be settled are those with trips or charging, settled before or not.
billingKeys ==
    [all                 |-> <<"billing">>,
     rules               |-> Query(<<"billing", "rules", "list">>, {"rules"}),
     ruleTemplate        |-> Query(<<"billing", "rules", "template">>, {}),
     accountTree         |-> Query(<<"billing", "accounts", "tree">>, {"accounts", "postings", "depts", "members"}),
     account             |-> Query(<<"billing", "accounts", "detail">>, {"accounts", "postings"}),
     myAccount           |-> Query(<<"billing", "accounts", "me">>, {"accounts", "postings"}),
     accountTransactions |-> Query(<<"billing", "accounts", "transactions">>, {"postings"}),
     transactions        |-> Query(<<"billing", "transactions">>, {"postings"}),
     allSettlements      |-> <<"billing", "settlements">>,
     settlements         |-> Query(<<"billing", "settlements", "list">>, {"settlements"}),
     settlementPeriods   |-> Query(<<"billing", "settlements", "periods">>, {"periods", "settlements"}),
     settlement          |-> Query(<<"billing", "settlements", "detail">>, {"settlements"})]

deviceKeys ==
    [all |-> <<"devices">>, list |-> Query(<<"devices", "list">>, {"devices"})]

cardKeys ==
    [all |-> <<"cards">>, list |-> Query(<<"cards", "list">>, {"cards"})]

pileKeys ==
    [all |-> <<"piles">>, list |-> Query(<<"piles", "list">>, {"piles"}), map |-> Query(<<"piles", "map">>, {"piles"})]

userKeys ==
    [all     |-> <<"users">>,
     list    |-> Query(<<"users", "list">>, {"users"}),
     options |-> Query(<<"users", "options">>, {"users"}),
     leaders |-> Query(<<"users", "leader-options">>, {"users"})]

deptKeys ==
    [all |-> <<"depts">>, tree |-> Query(<<"depts", "tree">>, {"depts", "members"})]

\* The tree of permission codes never changes.
roleKeys ==
    [all            |-> <<"roles">>,
     options        |-> Query(<<"roles", "options">>, {"roles"}),
     list           |-> Query(<<"roles", "list">>, {"roles", "roleHolders"}),
     permissionTree |-> Query(<<"permissions", "tree">>, {})]

tenantKeys ==
    [all     |-> <<"tenants">>,
     list    |-> Query(<<"tenants", "list">>, {"tenants", "tenantSize"}),
     options |-> Query(<<"tenants", "options">>, {"tenants"})]

dictKeys ==
    [all    |-> <<"dicts">>,
     list   |-> Query(<<"dicts", "list">>, {"dicts"}),
     detail |-> Query(<<"dicts", "detail">>, {"dicts"}),
     byCode |-> Query(<<"dicts", "code">>, {"dicts"})]

paramKeys ==
    [all |-> <<"params">>, list |-> Query(<<"params", "list">>, {"params"})]

templateKeys ==
    [all |-> <<"templates">>, list |-> Query(<<"templates", "list">>, {"templates"})]

notificationKeys ==
    [all    |-> <<"notifications">>,
     list   |-> Query(<<"notifications", "list">>, {"notifications"}),
     unread |-> Query(<<"notifications", "unread">>, {"notifications"})]

\* The audit log grows with every change; nothing refreshes it.
auditLogKeys ==
    [list |-> Query(<<"audit-logs", "list">>, {}), detail |-> Query(<<"audit-logs", "detail">>, {})]

dashboardKeys ==
    [all      |-> <<"dashboard">>,
     overview |-> Query(<<"dashboard", "overview">>, {"approvals", "trips", "tripEvents", "vehicles", "live", "devices"})]

Covers(prefixes, key) == \E p \in prefixes : IsPrefix(p, key)

\* handleEvent: the keys an event invalidates.
EventKeys(event) ==
    CASE event = "notification.new"                              -> {notificationKeys.all}
      [] event = "approval.updated"                              -> {approvalKeys.all, dashboardKeys.all}
      [] event \in {"trip.started", "trip.ended", "trip.event"}  -> {tripKeys.all, dashboardKeys.all}
      [] event = "charging.updated"                              -> {chargingKeys.all, dashboardKeys.all}
      [] event = "account.updated"                               -> {billingKeys.all}
      [] event = "device.online"                                 -> {deviceKeys.all, dashboardKeys.all}
      [] OTHER                                                   -> {}

\* applyVehicleStatus: the keys whose data an event changes in place.
PatchedKeys(event) ==
    IF event \in {"vehicle.status", "device.online"}
       THEN {vehicleKeys.status.key, vehicleKeys.live.key, vehicleKeys.detail.key, vehicleKeys.list.key}
       ELSE {}

\* onopen: what is invalidated when the feed is back.
ResyncKeys == {vehicleKeys.status.key, notificationKeys.all}
===============================================================================
