----------------------------- MODULE FleetPages -----------------------------
(***************************************************************************)
(* The pages about using the fleet: trips, approvals, bookings, the        *)
(* dashboard and notifications.  One definition per component, or per part *)
(* of a page; a screen joins what one page mounts.                         *)
(***************************************************************************)
EXTENDS PageParts

---------------------------------------------------------------------------
\* Hooks and pickers that pages share.

useDeptTree == {deptKeys.tree}
useVehicleOptions == {vehicleKeys.options}
useRoleOptions == {roleKeys.options}
UserPicker == {userKeys.options}

---------------------------------------------------------------------------
\* pages/trips

useInvalidateTrip == {tripKeys.all, approvalKeys.all, vehicleKeys.all, dashboardKeys.all}

EndTripForm == Held(TripOps.end, useInvalidateTrip)
CancelTripForm == Held(TripOps.cancel, useInvalidateTrip)

TripDetailQueries == {Polled(tripKeys.detail), Polled(tripKeys.track)}
TripDetailActions == {Button(EndTripForm, "trip:manage", {"ongoing"}), Button(CancelTripForm, "trip:manage", {"ongoing"})}

TripSummaryBar == Shows({Polled(tripKeys.summary)})
TripTable == Shows({tripKeys.list})
TripFilters == Shows(useVehicleOptions \cup UserPicker \cup useDeptTree)

TripScreen == Screen({TripSummaryBar, TripTable, TripFilters, Part(TripDetailQueries, TripDetailActions)})

---------------------------------------------------------------------------
\* pages/approval

useInvalidateApproval == {approvalKeys.all, dashboardKeys.all}

ApproveForm == Held(ApprovalOps.approve, useInvalidateApproval)
ApproveChoices == Shows({approvalKeys.availableVehicles})
RejectModal == Held(ApprovalOps.reject, useInvalidateApproval)
CancelModal == Held(ApprovalOps.cancel, useInvalidateApproval)
StartTripForm == Held(TripOps.start, {tripKeys.all, approvalKeys.all, dashboardKeys.all})

\* can_approve and can_cancel come with the row: its status is part of them.
ApprovalDetailActions ==
    {Button(ApproveForm, "approval:approve", {"pending"}),
     Button(RejectModal, "approval:approve", {"pending"}),
     Button(CancelModal, "approval:view", {"pending", "approved"}),
     Button(StartTripForm, "trip:manage", {"approved"})}
ApprovalDetailBody == Part({approvalKeys.detail}, ApprovalDetailActions)

ApprovalList == Shows({approvalKeys.list, Polled(approvalKeys.todoCount)})
ApprovalRowActions ==
    Part(useVehicleOptions \cup useDeptTree,
         {Button(ApproveForm, "approval:approve", {"pending"}), Button(RejectModal, "approval:approve", {"pending"})})

\* The drawer to apply with: its precheck must have answered for what is about
\* to be submitted; its success opens the new request and invalidates nothing.
CreateApprovalChoices == Shows({dictKeys.byCode, approvalKeys.availableVehicles, vehicleKeys.status})
CreateForm == Loose(ApprovalOps.create, {})
CreateApprovalDrawer == Part(UserPicker, {Always(CreateForm, "approval:create")})

ApprovalScreen ==
    Screen({ApprovalList, ApprovalRowActions, ApprovalDetailBody, ApproveChoices, CreateApprovalChoices, CreateApprovalDrawer})

\* The rules are saved in place: the answer is the new data of the query.
RulesForm == Putting(Direct(SaveApprovalRules, {}), {approvalKeys.rules.key})
ApprovalRulesPage == Part({approvalKeys.rules} \cup useRoleOptions \cup UserPicker, {Always(RulesForm, "approval:rule")})
ApprovalRulesScreen == Screen({ApprovalRulesPage})

---------------------------------------------------------------------------
\* pages/booking

\* Faulty variant: only the choice of vehicles is invalidated.
FaultyInvalidateBooking == {bookingKeys.availableVehicles.key}

\* The page's invalidate.
InvalidateBooking == {bookingKeys.all}

\* Faulty variant: a booking that has departed may be edited as well.
FaultyEditable == {"reserved", "departed"}

\* The states in which the page offers to edit a row.
Editable == {"reserved"}

BookingMutations ==
    [depart   |-> Direct(BookingOps.depart, InvalidateBooking),
     complete |-> Direct(BookingOps.complete, InvalidateBooking),
     cancel   |-> Held(BookingOps.cancel, InvalidateBooking)]

BookingList == Shows({bookingKeys.list} \cup useVehicleOptions \cup useDeptTree)
BookingForm == [create |-> Loose(BookingOps.create, InvalidateBooking), edit |-> Loose(BookingOps.update, InvalidateBooking)]
BookingDrawer == Shows({bookingKeys.availableVehicles} \cup useDeptTree \cup UserPicker)

BookingRowActions ==
    {Button(BookingForm.edit, "booking:update", Editable),
     Button(BookingMutations.depart, "booking:update", {"reserved"}),
     Button(BookingMutations.complete, "booking:update", {"departed"}),
     Button(BookingMutations.cancel, "booking:cancel", {"reserved"})}
BookingHeader == {Always(BookingForm.create, "booking:create")}

BookingScreen == Screen({BookingList, BookingDrawer, Part({}, BookingRowActions \cup BookingHeader)})

---------------------------------------------------------------------------
\* pages/Dashboard.tsx, pages/notifications, components/NotificationBell.tsx

DashboardFigures == Shows({Polled(dashboardKeys.overview)})
DashboardFleet == Shows({Polled(vehicleKeys.status)})
ChargingCard == Shows({Polled(chargingKeys.summary)})
DashboardScreen == Screen({DashboardFigures, DashboardFleet, ChargingCard})

InvalidateNotifications == {notificationKeys.all}

MarkRead == Direct(NotificationOps.markRead, InvalidateNotifications)
MarkAllRead == Direct(NotificationOps.markAllRead, InvalidateNotifications)

NotificationsPage == Part({notificationKeys.list}, {Button(MarkRead, "none", {"unread"}), Always(MarkAllRead, "none")})
NotificationBell ==
    Part({notificationKeys.unread, notificationKeys.list}, {Button(MarkRead, "none", {"unread"}), Always(MarkAllRead, "none")})
NotificationScreen == Screen({NotificationsPage, NotificationBell})

FleetScreens ==
    {TripScreen, ApprovalScreen, ApprovalRulesScreen, BookingScreen, DashboardScreen, NotificationScreen}
=============================================================================
