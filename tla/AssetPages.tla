----------------------------- MODULE AssetPages -----------------------------
(***************************************************************************)
(* The pages about what the fleet is made of: vehicles, devices, cards and *)
(* charging piles.  One definition per component, or per part of a page.   *)
(***************************************************************************)
EXTENDS MoneyPages

---------------------------------------------------------------------------
\* pages/assets/vehicles

InvalidateVehicles == {vehicleKeys.all}

VehicleForm == [create |-> Loose(VehicleOps.create, InvalidateVehicles), edit |-> Loose(VehicleOps.update, InvalidateVehicles)]
RemoveVehicle == Held(VehicleOps.delete, InvalidateVehicles)

VehicleTable == Shows({vehicleKeys.list} \cup useDeptTree)
\* The dialog says that vehicles on a trip cannot be deleted.
VehicleActions ==
    Part({}, {Always(VehicleForm.create, "asset:vehicle:create"), Always(VehicleForm.edit, "asset:vehicle:update"),
              Warning(RemoveVehicle, "asset:vehicle:delete", {"free", "on_trip"}, {"on_trip"})})
VehicleDetailBody == Shows({vehicleKeys.detail, vehicleKeys.telemetry})

VehicleScreen == Screen({VehicleTable, VehicleActions, VehicleDetailBody})

---------------------------------------------------------------------------
\* pages/assets/devices

InvalidateDevices == {deviceKeys.all, vehicleKeys.all}

DeviceMutations ==
    [unbind |-> Held(DeviceOps.unbind, InvalidateDevices),
     rotate |-> Held(DeviceOps.rotate, InvalidateDevices),
     remove |-> Held(DeviceOps.delete, InvalidateDevices)]
DeviceCreateForm == Loose(DeviceOps.create, InvalidateDevices)
DeviceEditForm == Loose(DeviceOps.update, InvalidateDevices)
BindVehicleModal == Loose(DeviceOps.bind, InvalidateDevices)

DeviceTable == Shows({deviceKeys.list} \cup useVehicleOptions)
DeviceActions ==
    Part({}, {Always(DeviceCreateForm, "asset:device:create"), Always(DeviceEditForm, "asset:device:update"),
              Button(DeviceMutations.unbind, "asset:device:update", {"bound"}),
              Button(BindVehicleModal, "asset:device:update", {"unbound"}),
              Always(DeviceMutations.rotate, "asset:device:update"),
              Always(DeviceMutations.remove, "asset:device:delete")})

DeviceScreen == Screen({DeviceTable, DeviceActions})

---------------------------------------------------------------------------
\* pages/assets/cards

InvalidateCards == {cardKeys.all}

CardMutations ==
    [unbind |-> Held(CardOps.unbind, InvalidateCards),
     loss   |-> Held(CardOps.loss, InvalidateCards),
     remove |-> Held(CardOps.delete, InvalidateCards)]
CardIssueForm == Loose(CardOps.create, InvalidateCards)
CardEditForm == Loose(CardOps.update, InvalidateCards)
BindUserModal == Loose(CardOps.bind, InvalidateCards)
CardUserPicker == {userKeys.list}

CardTable == Shows({cardKeys.list} \cup CardUserPicker)
CardActions ==
    Part({}, {Always(CardIssueForm, "asset:card:create"), Always(CardEditForm, "asset:card:update"),
              Button(CardMutations.unbind, "asset:card:update", {"bound"}),
              Button(BindUserModal, "asset:card:update", {"unbound"}),
              Button(CardMutations.loss, "asset:card:update", {"bound", "unbound"}),
              Always(CardMutations.remove, "asset:card:delete")})

CardScreen == Screen({CardTable, CardActions})

---------------------------------------------------------------------------
\* pages/assets/piles

InvalidatePiles == {pileKeys.all}

PileForm == [create |-> Loose(PileOps.create, InvalidatePiles), edit |-> Loose(PileOps.update, InvalidatePiles)]
RemovePile == Held(PileOps.delete, InvalidatePiles)

PilesMap == Shows({pileKeys.map})
PileTable == Shows({pileKeys.list})
PileActions ==
    Part({}, {Always(PileForm.create, "asset:pile:create"), Always(PileForm.edit, "asset:pile:update"),
              Always(RemovePile, "asset:pile:delete")})

PileScreen == Screen({PilesMap, PileTable, PileActions})

AssetScreens == {VehicleScreen, DeviceScreen, CardScreen, PileScreen}
=============================================================================
