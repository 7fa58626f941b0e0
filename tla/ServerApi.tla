------------------------------ MODULE ServerApi ------------------------------
(***************************************************************************)
(* What the server does for the front end, seen from outside: for every    *)
(* operation the permission its route asks, the row it is about, the       *)
(* states of the row it accepts and the ones it leaves, what else of the   *)
(* server's data it changes and which events it publishes for it.          *)
(*                                                                         *)
(* A row's state is what the handlers and the pages' buttons tell apart.   *)
(* An operation that creates a row is about no row.  An operation that may *)
(* be refused for something its row does not show (a name taken, a vehicle *)
(* on a trip, children, a balance) is marked.                              *)
(***************************************************************************)

Gone == "gone"

\* The states of a row of each kind, besides gone.
RowStates == [nothing       |-> {"none"},
              approvals     |-> {"pending", "approved", "in_use", "closed"},
              trips         |-> {"ongoing", "completed", "cancelled"},
              bookings      |-> {"reserved", "departed", "completed", "cancelled"},
              vehicles      |-> {"free", "on_trip"},
              transactions  |-> {"charging", "pending", "settled"},
              connectors    |-> {"free", "charging", "unusable"},
              accounts      |-> {"present"},
              rules         |-> {"default", "enabled", "disabled"},
              settlements   |-> {"none", "draft", "confirmed"},
              devices       |-> {"unbound", "bound"},
              cards         |-> {"unbound", "bound", "lost"},
              piles         |-> {"present"},
              users         |-> {"self", "other"},
              depts         |-> {"present"},
              roles         |-> {"builtin", "custom"},
              tenants       |-> {"active", "disabled", "platform"},
              dicts         |-> {"system", "own"},
              params        |-> {"global", "tenant"},
              templates     |-> {"enabled", "disabled"},
              notifications |-> {"unread", "read"}]

\* perm: asked by the route.  on: the kind of the row.  from: the states
\* accepted.  to: the states left, none for "as it was".  changes: the data
\* changed.  tells: the events published.  may: refused for other reasons too.
Op(perm, on, from, to, changes) ==
    [perm |-> perm, on |-> on, from |-> from, to |-> to, changes |-> changes, tells |-> {}, may |-> FALSE]

Creates(perm, changes) == [Op(perm, "nothing", {"none"}, {}, changes) EXCEPT !.may = TRUE]
Telling(op, events) == [op EXCEPT !.tells = events]
Conditional(op) == [op EXCEPT !.may = TRUE]
AnyRow(perm, kind, to, changes) == Op(perm, kind, RowStates[kind], to, changes)

ApprovalTells == {"approval.updated", "notification.new"}

ApprovalOps ==
    [create  |-> Telling(Creates("approval:create", {"approvals", "notifications"}), ApprovalTells),
     approve |-> Conditional(Telling(Op("approval:approve", "approvals", {"pending"}, {"pending", "approved"},
                                        {"approvals", "notifications"}), ApprovalTells)),
     reject  |-> Telling(Op("approval:approve", "approvals", {"pending"}, {"closed"},
                            {"approvals", "notifications"}), ApprovalTells),
     cancel  |-> Telling(Op("approval:view", "approvals", {"pending", "approved"}, {"closed"},
                            {"approvals", "notifications"}), ApprovalTells)]

\* A read expires what is overdue, and publishes nothing for it.
ExpireApprovals == Op("approval:view", "approvals", {"pending", "approved"}, {"closed"}, {"approvals"})

\* The rules of a tenant are no row of a list.
SaveApprovalRules == Op("approval:rule", "nothing", {"none"}, {}, {"approvalRules"})

TripTells == {"vehicle.status", "trip.event", "approval.updated"}

\* Ending a trip answers only after its bill was posted.
TripOps ==
    [start  |-> Conditional(Telling(Op("trip:manage", "approvals", {"approved"}, {"in_use"},
                                       {"approvals", "trips", "tripEvents", "live", "notifications"}),
                                    TripTells \cup {"trip.started", "notification.new"})),
     end    |-> Conditional(Telling(Op("trip:manage", "trips", {"ongoing"}, {"completed"},
                                       {"trips", "bills", "periods", "tripEvents", "approvals", "live", "accounts",
                                        "postings", "notifications"}),
                                    TripTells \cup {"trip.ended", "account.updated", "notification.new"})),
     cancel |-> Conditional(Telling(Op("trip:manage", "trips", {"ongoing"}, {"cancelled"},
                                       {"trips", "tripEvents", "approvals", "live"}),
                                    TripTells \cup {"trip.ended"}))]

\* What a vehicle reports on its trip: speeding, a low battery, a way off the route.
ReportTrip == Telling(Op("none", "nothing", {"none"}, {}, {"trips", "tripEvents", "notifications"}),
                      {"trip.event", "notification.new"})

\* The bill of a trip that a device ended follows the event that it ended.
BillTrip == Telling(Op("none", "trips", {"completed"}, {}, {"bills", "accounts", "postings", "notifications"}),
                    {"account.updated", "notification.new"})

\* A booking publishes nothing itself: the status of its vehicle does.
BookingOps ==
    [create   |-> Creates("booking:create", {"bookings"}),
     update   |-> Conditional(Op("booking:update", "bookings", {"reserved"}, {}, {"bookings"})),
     depart   |-> Conditional(Telling(Op("booking:update", "bookings", {"reserved"}, {"departed"}, {"bookings", "live"}),
                                      {"vehicle.status"})),
     complete |-> Telling(Op("booking:update", "bookings", {"departed"}, {"completed"}, {"bookings", "live"}),
                          {"vehicle.status"}),
     cancel   |-> Op("booking:cancel", "bookings", {"reserved"}, {"cancelled"}, {"bookings"})]

VehicleOps ==
    [create |-> Creates("asset:vehicle:create", {"vehicles", "live"}),
     update |-> Conditional(Telling(AnyRow("asset:vehicle:update", "vehicles", {}, {"vehicles", "live"}), {"vehicle.status"})),
     delete |-> Conditional(Op("asset:vehicle:delete", "vehicles", {"free"}, {Gone}, {"vehicles", "live", "devices"}))]

\* A device reports: the live row of its vehicle, and when it comes online.
Telemetry == Telling(Op("none", "nothing", {"none"}, {}, {"live", "devices", "track"}), {"vehicle.status", "device.online"})

\* A remote start or stop is passed on to the pile, which may refuse; the
\* transaction starts or ends when the pile says so.
ChargingOps ==
    [remoteStart |-> Conditional(Op("charging:manage", "connectors", {"free"}, {}, {})),
     remoteStop  |-> Conditional(Op("charging:manage", "transactions", {"charging"}, {}, {})),
     review      |-> Conditional(Telling(Op("charging:review", "transactions", {"pending"}, {"settled"},
                                            {"transactions", "periods", "accounts", "postings", "notifications"}),
                                         {"account.updated", "notification.new"}))]

PileTells == {"charging.updated", "vehicle.status", "notification.new"}

\* What the piles report: connectors come and go, charging starts, is metered
\* and ends.
PileReports ==
    {Telling(Op("none", "connectors", {"free"}, {"charging", "unusable"}, {"piles", "pileLive"}), {"charging.updated"}),
     Telling(Op("none", "connectors", {"charging", "unusable"}, {"free"}, {"piles", "pileLive"}), {"charging.updated"}),
     Telling(Op("none", "connectors", {"free"}, {"charging"}, {"transactions", "pileLive", "live", "notifications"}), PileTells),
     Telling(Op("none", "nothing", {"none"}, {}, {"meter"}), {"charging.updated"}),
     Telling(Op("none", "transactions", {"charging"}, {"pending", "settled"},
                {"transactions", "periods", "pileLive", "live", "accounts", "postings", "notifications"}),
             PileTells \cup {"account.updated"})}

RuleOps ==
    [create   |-> Creates("billing:rule:update", {"rules"}),
     update   |-> Conditional(AnyRow("billing:rule:update", "rules", {}, {"rules"})),
     activate |-> Op("billing:rule:update", "rules", {"enabled", "default"}, {"default"}, {"rules"}),
     delete   |-> Op("billing:rule:update", "rules", {"enabled", "disabled"}, {Gone}, {"rules"})]

AccountOps ==
    [recharge |-> Telling(Creates("billing:account:recharge", {"accounts", "postings"}), {"account.updated"}),
     allocate |-> Conditional(Telling(AnyRow("billing:account:allocate", "accounts", {}, {"accounts", "postings"}), {"account.updated"})),
     adjust   |-> Conditional(Telling(AnyRow("billing:account:adjust", "accounts", {}, {"accounts", "postings", "notifications"}),
                                     {"account.updated", "notification.new"})),
     update   |-> Conditional(AnyRow("billing:account:adjust", "accounts", {}, {"accounts"}))]

\* Generating bills the trips that were not, then replaces the drafts of the
\* period, if it has any; confirming twice is no error.
SettlementOps ==
    [generate |-> Telling(Op("billing:settlement:generate", "settlements", {"none", "draft"}, {"draft"},
                             {"settlements", "bills", "accounts", "postings", "notifications"}),
                          {"account.updated", "notification.new"}),
     confirm  |-> Op("billing:settlement:confirm", "settlements", {"draft", "confirmed"}, {"confirmed"}, {"settlements"})]

DeviceOps ==
    [create |-> Creates("asset:device:create", {"devices", "gateways"}),
     update |-> AnyRow("asset:device:update", "devices", {}, {"devices"}),
     bind   |-> Conditional(AnyRow("asset:device:update", "devices", {"bound"}, {"devices", "gateways"})),
     unbind |-> Conditional(Op("asset:device:update", "devices", {"bound"}, {"unbound"}, {"devices", "gateways"})),
     rotate |-> AnyRow("asset:device:update", "devices", {}, {"devices"}),
     delete |-> Conditional(AnyRow("asset:device:delete", "devices", {Gone}, {"devices", "gateways"}))]

CardOps ==
    [create |-> Creates("asset:card:create", {"cards"}),
     update |-> AnyRow("asset:card:update", "cards", {}, {"cards"}),
     bind   |-> Conditional(AnyRow("asset:card:update", "cards", {"bound"}, {"cards"})),
     unbind |-> AnyRow("asset:card:update", "cards", {"unbound"}, {"cards"}),
     loss   |-> AnyRow("asset:card:update", "cards", {"lost"}, {"cards"}),
     delete |-> AnyRow("asset:card:delete", "cards", {Gone}, {"cards"})]

PileOps ==
    [create |-> Creates("asset:pile:create", {"piles", "pileLive"}),
     update |-> Conditional(AnyRow("asset:pile:update", "piles", {}, {"piles", "pileLive"})),
     delete |-> AnyRow("asset:pile:delete", "piles", {Gone}, {"piles", "pileLive"})]

UserOps ==
    [create |-> Creates("system:user:create", {"users", "members", "roleHolders", "tenantSize"}),
     update |-> Conditional(AnyRow("system:user:update", "users", {}, {"users", "members", "roleHolders"})),
     delete |-> Conditional(Op("system:user:delete", "users", {"other"}, {Gone},
                               {"users", "members", "roleHolders", "tenantSize"})),
     reset  |-> Conditional(AnyRow("system:user:reset-password", "users", {}, {})),
     assign |-> Conditional(AnyRow("system:user:assign-roles", "users", {}, {"users", "roleHolders"})),
     import |-> Creates("system:user:import", {"users", "members", "roleHolders", "tenantSize"})]

DeptOps ==
    [create |-> Creates("system:dept:create", {"depts", "tenantSize"}),
     update |-> Conditional(AnyRow("system:dept:update", "depts", {}, {"depts"})),
     delete |-> Conditional(AnyRow("system:dept:delete", "depts", {Gone}, {"depts", "tenantSize"}))]

RoleOps ==
    [create |-> Creates("system:role:create", {"roles"}),
     update |-> AnyRow("system:role:update", "roles", {}, {"roles", "users"}),
     delete |-> Conditional(Op("system:role:delete", "roles", {"custom"}, {Gone}, {"roles"})),
     grant  |-> Conditional(AnyRow("system:role:assign-perms", "roles", {}, {"roles"}))]

\* The platform's own tenant is never disabled; asking for the status a tenant
\* has is no error.
TenantOps ==
    [create  |-> Creates("system:tenant:create", {"tenants"}),
     update  |-> AnyRow("system:tenant:update", "tenants", {}, {"tenants"}),
     disable |-> Op("system:tenant:update", "tenants", {"active", "disabled"}, {"disabled"}, {"tenants"}),
     enable  |-> Op("system:tenant:update", "tenants", {"active", "disabled"}, {"active"}, {"tenants"})]

DictOps ==
    [create     |-> Creates("system:dict:create", {"dicts"}),
     update     |-> AnyRow("system:dict:update", "dicts", {}, {"dicts"}),
     delete     |-> Op("system:dict:delete", "dicts", {"own"}, {Gone}, {"dicts"}),
     saveItem   |-> Conditional(AnyRow("system:dict:update", "dicts", {}, {"dicts"})),
     deleteItem |-> AnyRow("system:dict:update", "dicts", {}, {"dicts"})]

ParamOps ==
    [set   |-> Conditional(AnyRow("system:param:update", "params", {"tenant"}, {"params"})),
     reset |-> Op("system:param:update", "params", {"tenant"}, {"global"}, {"params"})]

TemplateOps ==
    [create |-> Creates("system:template:create", {"templates"}),
     update |-> AnyRow("system:template:update", "templates", {}, {"templates"}),
     toggle |-> AnyRow("system:template:update", "templates", {"enabled", "disabled"}, {"templates"}),
     delete |-> AnyRow("system:template:delete", "templates", {Gone}, {"templates"})]

NotificationOps ==
    [markRead    |-> AnyRow("none", "notifications", {"read"}, {"notifications"}),
     markAllRead |-> Creates("none", {"notifications"})]

Members(ops) == {ops[o] : o \in DOMAIN ops}

\* Everything that changes the server's data, from this tab or from elsewhere.
AllOps ==
    UNION {Members(ApprovalOps), Members(TripOps), Members(BookingOps), Members(VehicleOps), Members(ChargingOps),
           Members(RuleOps), Members(AccountOps), Members(SettlementOps), Members(DeviceOps), Members(CardOps),
           Members(PileOps), Members(UserOps), Members(DeptOps), Members(RoleOps), Members(TenantOps),
           Members(DictOps), Members(ParamOps), Members(TemplateOps), PileReports,
           {ExpireApprovals, SaveApprovalRules, ReportTrip, BillTrip, Telemetry}}
===============================================================================
