--------------------------- MODULE WebScenes_proofs ---------------------------
(***************************************************************************)
(* The two rules of PageIsSound, page by page: which queries show a kind   *)
(* of data and under which prefix they are kept, what each operation asks  *)
(* and changes, and for each button that it is offered where its operation *)
(* is accepted and refreshes what its page shows of the operation's        *)
(* changes, but for the gaps that KnownGap lists.                          *)
(***************************************************************************)
EXTENDS WebPages, SequenceTheorems, TLAPS

\* The keys of the queries on some page that show a kind of data, but for those
\* that are only shown polled.
Shown ==
    [approvals     |-> {approvalKeys.list.key, approvalKeys.detail.key, approvalKeys.availableVehicles.key,
                        bookingKeys.availableVehicles.key},
     approvalRules |-> {approvalKeys.rules.key},
     trips         |-> {approvalKeys.detail.key, tripKeys.list.key, vehicleKeys.detail.key},
     bills         |-> {tripKeys.list.key},
     tripEvents    |-> {},
     bookings      |-> {bookingKeys.list.key, bookingKeys.availableVehicles.key},
     vehicles      |-> {approvalKeys.availableVehicles.key, bookingKeys.availableVehicles.key, vehicleKeys.list.key,
                        vehicleKeys.status.key, vehicleKeys.options.key, vehicleKeys.detail.key},
     live          |-> {approvalKeys.availableVehicles.key, bookingKeys.availableVehicles.key, vehicleKeys.list.key,
                        vehicleKeys.status.key, vehicleKeys.options.key, vehicleKeys.detail.key},
     gateways      |-> {vehicleKeys.list.key, vehicleKeys.detail.key},
     track         |-> {vehicleKeys.telemetry.key},
     transactions  |-> {chargingKeys.pilesLive.key, chargingKeys.txList.key},
     pileLive      |-> {chargingKeys.pilesLive.key},
     meter         |-> {chargingKeys.txList.key},
     accounts      |-> {billingKeys.accountTree.key, billingKeys.account.key, billingKeys.myAccount.key},
     postings      |-> {billingKeys.accountTree.key, billingKeys.account.key, billingKeys.myAccount.key,
                        billingKeys.accountTransactions.key, billingKeys.transactions.key},
     rules         |-> {billingKeys.rules.key},
     settlements   |-> {billingKeys.settlements.key, billingKeys.settlementPeriods.key, billingKeys.settlement.key},
     periods       |-> {billingKeys.settlementPeriods.key},
     devices       |-> {deviceKeys.list.key},
     cards         |-> {cardKeys.list.key},
     piles         |-> {chargingKeys.pilesLive.key, pileKeys.list.key, pileKeys.map.key},
     users         |-> {userKeys.list.key, userKeys.options.key, userKeys.leaders.key},
     members       |-> {billingKeys.accountTree.key, deptKeys.tree.key},
     depts         |-> {billingKeys.accountTree.key, deptKeys.tree.key},
     roles         |-> {roleKeys.options.key, roleKeys.list.key},
     roleHolders   |-> {roleKeys.list.key},
     tenants       |-> {tenantKeys.list.key, tenantKeys.options.key},
     tenantSize    |-> {tenantKeys.list.key},
     dicts         |-> {dictKeys.list.key, dictKeys.detail.key, dictKeys.byCode.key},
     params        |-> {paramKeys.list.key},
     templates     |-> {templateKeys.list.key},
     notifications |-> {notificationKeys.list.key, notificationKeys.unread.key}]

\* The prefix under which all of them are kept, for data that only the queries of
\* one file of api/ show.
Home ==
    [approvalRules |-> approvalKeys.all,
     bills         |-> tripKeys.all,
     bookings      |-> bookingKeys.all,
     gateways      |-> vehicleKeys.all,
     track         |-> vehicleKeys.all,
     transactions  |-> chargingKeys.all,
     pileLive      |-> chargingKeys.all,
     meter         |-> chargingKeys.all,
     accounts      |-> billingKeys.all,
     postings      |-> billingKeys.all,
     rules         |-> billingKeys.all,
     settlements   |-> billingKeys.allSettlements,
     periods       |-> billingKeys.all,
     devices       |-> deviceKeys.all,
     cards         |-> cardKeys.all,
     users         |-> userKeys.all,
     roles         |-> roleKeys.all,
     roleHolders   |-> roleKeys.all,
     tenants       |-> tenantKeys.all,
     tenantSize    |-> tenantKeys.all,
     dicts         |-> dictKeys.all,
     params        |-> paramKeys.all,
     templates     |-> templateKeys.all,
     notifications |-> notificationKeys.all]

\* A key begins with the parts of a shorter one.
LEMMA PrefixOf ==
    ASSUME NEW S, NEW s \in Seq(S), NEW t \in Seq(S), Len(s) <= Len(t), \A i \in 1..Len(s) : s[i] = t[i]
    PROVE  IsPrefix(s, t)
<1>1. /\ SubSeq(s, 1, Len(s)) \in Seq(S) /\ SubSeq(t, 1, Len(s)) \in Seq(S)
      /\ Len(SubSeq(s, 1, Len(s))) = Len(s) /\ Len(SubSeq(t, 1, Len(s))) = Len(s)
      /\ \A i \in 1..Len(s) : SubSeq(s, 1, Len(s))[i] = s[i] /\ SubSeq(t, 1, Len(s))[i] = t[i]
  BY SMT
<1>2. SubSeq(s, 1, Len(s)) = SubSeq(t, 1, Len(s))
  BY <1>1, SeqEqual
<1>. QED  BY <1>2 DEF IsPrefix

LEMMA KeyPrefixes ==
    ASSUME NEW a, NEW b, NEW c
    PROVE  IsPrefix(<<a>>, <<a, b>>) /\ IsPrefix(<<a>>, <<a, b, c>>) /\ IsPrefix(<<a, b>>, <<a, b, c>>)
<1>. DEFINE S == {a, b, c}
<1>1. <<a>> \in Seq(S) /\ <<a, b>> \in Seq(S) /\ <<a, b, c>> \in Seq(S)
  OBVIOUS
<1>2. /\ Len(<<a>>) = 1 /\ Len(<<a, b>>) = 2 /\ Len(<<a, b, c>>) = 3
      /\ <<a>>[1] = a /\ <<a, b>>[1] = a /\ <<a, b, c>>[1] = a
      /\ <<a, b>>[2] = b /\ <<a, b, c>>[2] = b
  OBVIOUS
<1>l. Len(<<a>>) <= Len(<<a, b>>) /\ Len(<<a>>) <= Len(<<a, b, c>>) /\ Len(<<a, b>>) <= Len(<<a, b, c>>)
  BY <1>2
<1>. HIDE DEF S
<1>3. IsPrefix(<<a>>, <<a, b>>)
  <2>1. \A i \in 1..Len(<<a>>) : <<a>>[i] = <<a, b>>[i]
    BY <1>2
  <2>. QED  BY <2>1, <1>1, <1>l, PrefixOf, Zenon
<1>4. IsPrefix(<<a>>, <<a, b, c>>)
  <2>1. \A i \in 1..Len(<<a>>) : <<a>>[i] = <<a, b, c>>[i]
    BY <1>2
  <2>. QED  BY <2>1, <1>1, <1>l, PrefixOf, Zenon
<1>5. IsPrefix(<<a, b>>, <<a, b, c>>)
  <2>1. \A i \in 1..Len(<<a, b>>) : <<a, b>>[i] = <<a, b, c>>[i]
    <3>1. \A i \in 1..Len(<<a, b>>) : i = 1 \/ i = 2
      BY <1>2
    <3>. QED  BY <3>1, <1>2
  <2>. QED  BY <2>1, <1>1, <1>l, PrefixOf, Zenon
<1>. QED  BY <1>3, <1>4, <1>5

LEMMA Homes ==
    /\ Home["approvalRules"] = approvalKeys.all /\ Home["bills"] = tripKeys.all
    /\ Home["bookings"] = bookingKeys.all /\ Home["gateways"] = vehicleKeys.all
    /\ Home["track"] = vehicleKeys.all /\ Home["transactions"] = chargingKeys.all
    /\ Home["pileLive"] = chargingKeys.all /\ Home["meter"] = chargingKeys.all
    /\ Home["accounts"] = billingKeys.all /\ Home["postings"] = billingKeys.all
    /\ Home["rules"] = billingKeys.all /\ Home["settlements"] = billingKeys.allSettlements
    /\ Home["periods"] = billingKeys.all /\ Home["devices"] = deviceKeys.all /\ Home["cards"] = cardKeys.all
    /\ Home["users"] = userKeys.all /\ Home["roles"] = roleKeys.all /\ Home["roleHolders"] = roleKeys.all
    /\ Home["tenants"] = tenantKeys.all /\ Home["tenantSize"] = tenantKeys.all /\ Home["dicts"] = dictKeys.all
    /\ Home["params"] = paramKeys.all /\ Home["templates"] = templateKeys.all
    /\ Home["notifications"] = notificationKeys.all
    /\ {"approvalRules", "bills", "bookings", "gateways", "track", "transactions", "pileLive", "meter", "accounts",
        "postings", "rules", "settlements", "periods", "devices", "cards", "users", "roles", "roleHolders",
        "tenants", "tenantSize", "dicts", "params", "templates", "notifications"}
       \subseteq DOMAIN Home
  BY DEF Home

LEMMA ShownFacts ==
    /\ Shown["approvals"] = {approvalKeys.list.key, approvalKeys.detail.key, approvalKeys.availableVehicles.key,
                             bookingKeys.availableVehicles.key}
    /\ Shown["approvalRules"] = {approvalKeys.rules.key}
    /\ Shown["trips"] = {approvalKeys.detail.key, tripKeys.list.key, vehicleKeys.detail.key}
    /\ Shown["bills"] = {tripKeys.list.key}
    /\ Shown["tripEvents"] = {}
    /\ Shown["bookings"] = {bookingKeys.list.key, bookingKeys.availableVehicles.key}
    /\ Shown["vehicles"] = {approvalKeys.availableVehicles.key, bookingKeys.availableVehicles.key,
                            vehicleKeys.list.key, vehicleKeys.status.key, vehicleKeys.options.key,
                            vehicleKeys.detail.key}
    /\ Shown["live"] = {approvalKeys.availableVehicles.key, bookingKeys.availableVehicles.key,
                        vehicleKeys.list.key, vehicleKeys.status.key, vehicleKeys.options.key,
                        vehicleKeys.detail.key}
    /\ Shown["gateways"] = {vehicleKeys.list.key, vehicleKeys.detail.key}
    /\ Shown["track"] = {vehicleKeys.telemetry.key}
    /\ Shown["transactions"] = {chargingKeys.pilesLive.key, chargingKeys.txList.key}
    /\ Shown["pileLive"] = {chargingKeys.pilesLive.key}
    /\ Shown["meter"] = {chargingKeys.txList.key}
    /\ Shown["accounts"] = {billingKeys.accountTree.key, billingKeys.account.key, billingKeys.myAccount.key}
    /\ Shown["postings"] = {billingKeys.accountTree.key, billingKeys.account.key, billingKeys.myAccount.key,
                            billingKeys.accountTransactions.key, billingKeys.transactions.key}
    /\ Shown["rules"] = {billingKeys.rules.key}
    /\ Shown["settlements"] = {billingKeys.settlements.key, billingKeys.settlementPeriods.key,
                               billingKeys.settlement.key}
    /\ Shown["periods"] = {billingKeys.settlementPeriods.key}
    /\ Shown["devices"] = {deviceKeys.list.key}
    /\ Shown["cards"] = {cardKeys.list.key}
    /\ Shown["piles"] = {chargingKeys.pilesLive.key, pileKeys.list.key, pileKeys.map.key}
    /\ Shown["users"] = {userKeys.list.key, userKeys.options.key, userKeys.leaders.key}
    /\ Shown["members"] = {billingKeys.accountTree.key, deptKeys.tree.key}
    /\ Shown["depts"] = {billingKeys.accountTree.key, deptKeys.tree.key}
    /\ Shown["roles"] = {roleKeys.options.key, roleKeys.list.key}
    /\ Shown["roleHolders"] = {roleKeys.list.key}
    /\ Shown["tenants"] = {tenantKeys.list.key, tenantKeys.options.key}
    /\ Shown["tenantSize"] = {tenantKeys.list.key}
    /\ Shown["dicts"] = {dictKeys.list.key, dictKeys.detail.key, dictKeys.byCode.key}
    /\ Shown["params"] = {paramKeys.list.key}
    /\ Shown["templates"] = {templateKeys.list.key}
    /\ Shown["notifications"] = {notificationKeys.list.key, notificationKeys.unread.key}
  BY DEF Shown

\* A query that is not polled, and shows these data.
ShowsOnly(q, reads) == ~q.polled /\ q.polled \in BOOLEAN /\ q.reads = reads /\ \A d \in reads : q.key \in Shown[d]

\* No event is put into the data of a key.
OffBoards(key) == key \notin PatchedKeys("vehicle.status")

LEMMA ApprovalPrefixes ==
    /\ IsPrefix(approvalKeys.all, approvalKeys.list.key)
    /\ IsPrefix(approvalKeys.all, approvalKeys.detail.key)
    /\ IsPrefix(approvalKeys.all, approvalKeys.availableVehicles.key)
    /\ IsPrefix(approvalKeys.all, approvalKeys.rules.key)
  BY KeyPrefixes, Zenon DEF approvalKeys, Query

LEMMA ApprovalShown ==
    /\ ShowsOnly(approvalKeys.list, {"approvals"})
    /\ ShowsOnly(approvalKeys.detail, {"approvals", "trips"})
    /\ ShowsOnly(approvalKeys.availableVehicles, {"approvals", "vehicles", "live"})
    /\ ShowsOnly(approvalKeys.rules, {"approvalRules"})
    /\ OffBoards(approvalKeys.list.key)
    /\ OffBoards(approvalKeys.detail.key)
    /\ OffBoards(approvalKeys.availableVehicles.key)
    /\ OffBoards(approvalKeys.rules.key)
<1>1. /\ approvalKeys.list.polled = FALSE
      /\ approvalKeys.list.reads = {"approvals"}
      /\ approvalKeys.detail.polled = FALSE
      /\ approvalKeys.detail.reads = {"approvals", "trips"}
      /\ approvalKeys.availableVehicles.polled = FALSE
      /\ approvalKeys.availableVehicles.reads = {"approvals", "vehicles", "live"}
      /\ approvalKeys.rules.polled = FALSE
      /\ approvalKeys.rules.reads = {"approvalRules"}
  BY DEF approvalKeys, Query
<1>2. /\ OffBoards(approvalKeys.list.key)
      /\ OffBoards(approvalKeys.detail.key)
      /\ OffBoards(approvalKeys.availableVehicles.key)
      /\ OffBoards(approvalKeys.rules.key)
  BY DEF OffBoards, PatchedKeys, Query, vehicleKeys, approvalKeys
<1>. QED  BY <1>1, <1>2, ShownFacts DEF ShowsOnly

LEMMA TripPrefixes ==
    /\ IsPrefix(tripKeys.all, tripKeys.list.key)
  BY KeyPrefixes, Zenon DEF tripKeys, Query

LEMMA TripShown ==
    /\ ShowsOnly(tripKeys.list, {"trips", "bills"})
    /\ OffBoards(tripKeys.list.key)
<1>1. /\ tripKeys.list.polled = FALSE
      /\ tripKeys.list.reads = {"trips", "bills"}
  BY DEF tripKeys, Query
<1>2. /\ OffBoards(tripKeys.list.key)
  BY DEF OffBoards, PatchedKeys, Query, vehicleKeys, tripKeys
<1>. QED  BY <1>1, <1>2, ShownFacts DEF ShowsOnly

LEMMA BookingPrefixes ==
    /\ IsPrefix(bookingKeys.all, bookingKeys.list.key)
    /\ IsPrefix(bookingKeys.all, bookingKeys.availableVehicles.key)
  BY KeyPrefixes, Zenon DEF bookingKeys, Query

LEMMA BookingShown ==
    /\ ShowsOnly(bookingKeys.list, {"bookings"})
    /\ ShowsOnly(bookingKeys.availableVehicles, {"bookings", "approvals", "vehicles", "live"})
    /\ OffBoards(bookingKeys.list.key)
    /\ OffBoards(bookingKeys.availableVehicles.key)
<1>1. /\ bookingKeys.list.polled = FALSE
      /\ bookingKeys.list.reads = {"bookings"}
      /\ bookingKeys.availableVehicles.polled = FALSE
      /\ bookingKeys.availableVehicles.reads = {"bookings", "approvals", "vehicles", "live"}
  BY DEF bookingKeys, Query
<1>2. /\ OffBoards(bookingKeys.list.key)
      /\ OffBoards(bookingKeys.availableVehicles.key)
  BY DEF OffBoards, PatchedKeys, Query, vehicleKeys, bookingKeys
<1>. QED  BY <1>1, <1>2, ShownFacts DEF ShowsOnly

LEMMA VehiclePrefixes ==
    /\ IsPrefix(vehicleKeys.all, vehicleKeys.list.key)
    /\ IsPrefix(vehicleKeys.all, vehicleKeys.status.key)
    /\ IsPrefix(vehicleKeys.all, vehicleKeys.options.key)
    /\ IsPrefix(vehicleKeys.all, vehicleKeys.detail.key)
    /\ IsPrefix(vehicleKeys.all, vehicleKeys.telemetry.key)
  BY KeyPrefixes, Zenon DEF vehicleKeys, Query

LEMMA VehicleShown ==
    /\ ShowsOnly(vehicleKeys.list, {"vehicles", "live", "gateways"})
    /\ ShowsOnly(vehicleKeys.status, {"vehicles", "live"})
    /\ ShowsOnly(vehicleKeys.options, {"vehicles", "live"})
    /\ ShowsOnly(vehicleKeys.detail, {"vehicles", "live", "gateways", "trips"})
    /\ ShowsOnly(vehicleKeys.telemetry, {"track"})
    /\ OffBoards(vehicleKeys.options.key)
    /\ OffBoards(vehicleKeys.telemetry.key)
<1>1. /\ vehicleKeys.list.polled = FALSE
      /\ vehicleKeys.list.reads = {"vehicles", "live", "gateways"}
      /\ vehicleKeys.status.polled = FALSE
      /\ vehicleKeys.status.reads = {"vehicles", "live"}
      /\ vehicleKeys.options.polled = FALSE
      /\ vehicleKeys.options.reads = {"vehicles", "live"}
      /\ vehicleKeys.detail.polled = FALSE
      /\ vehicleKeys.detail.reads = {"vehicles", "live", "gateways", "trips"}
      /\ vehicleKeys.telemetry.polled = FALSE
      /\ vehicleKeys.telemetry.reads = {"track"}
  BY DEF vehicleKeys, Query
<1>2. /\ OffBoards(vehicleKeys.options.key)
      /\ OffBoards(vehicleKeys.telemetry.key)
  BY DEF OffBoards, PatchedKeys, Query, vehicleKeys
<1>. QED  BY <1>1, <1>2, ShownFacts DEF ShowsOnly

LEMMA ChargingPrefixes ==
    /\ IsPrefix(chargingKeys.all, chargingKeys.pilesLive.key)
    /\ IsPrefix(chargingKeys.all, chargingKeys.txList.key)
  BY KeyPrefixes, Zenon DEF chargingKeys, Query

LEMMA ChargingShown ==
    /\ ShowsOnly(chargingKeys.pilesLive, {"piles", "pileLive", "transactions"})
    /\ ShowsOnly(chargingKeys.txList, {"transactions", "meter"})
    /\ OffBoards(chargingKeys.pilesLive.key)
    /\ OffBoards(chargingKeys.txList.key)
<1>1. /\ chargingKeys.pilesLive.polled = FALSE
      /\ chargingKeys.pilesLive.reads = {"piles", "pileLive", "transactions"}
      /\ chargingKeys.txList.polled = FALSE
      /\ chargingKeys.txList.reads = {"transactions", "meter"}
  BY DEF chargingKeys, Query
<1>2. /\ OffBoards(chargingKeys.pilesLive.key)
      /\ OffBoards(chargingKeys.txList.key)
  BY DEF OffBoards, PatchedKeys, Query, vehicleKeys, chargingKeys
<1>. QED  BY <1>1, <1>2, ShownFacts DEF ShowsOnly

LEMMA BillingPrefixes ==
    /\ IsPrefix(billingKeys.all, billingKeys.rules.key)
    /\ IsPrefix(billingKeys.all, billingKeys.accountTree.key)
    /\ IsPrefix(billingKeys.all, billingKeys.account.key)
    /\ IsPrefix(billingKeys.all, billingKeys.myAccount.key)
    /\ IsPrefix(billingKeys.all, billingKeys.accountTransactions.key)
    /\ IsPrefix(billingKeys.all, billingKeys.transactions.key)
    /\ IsPrefix(billingKeys.allSettlements, billingKeys.settlements.key)
    /\ IsPrefix(billingKeys.allSettlements, billingKeys.settlementPeriods.key)
    /\ IsPrefix(billingKeys.all, billingKeys.settlementPeriods.key)
    /\ IsPrefix(billingKeys.allSettlements, billingKeys.settlement.key)
  BY KeyPrefixes, Zenon DEF billingKeys, Query

LEMMA BillingShown ==
    /\ ShowsOnly(billingKeys.rules, {"rules"})
    /\ ShowsOnly(billingKeys.ruleTemplate, {})
    /\ ShowsOnly(billingKeys.accountTree, {"accounts", "postings", "depts", "members"})
    /\ ShowsOnly(billingKeys.account, {"accounts", "postings"})
    /\ ShowsOnly(billingKeys.myAccount, {"accounts", "postings"})
    /\ ShowsOnly(billingKeys.accountTransactions, {"postings"})
    /\ ShowsOnly(billingKeys.transactions, {"postings"})
    /\ ShowsOnly(billingKeys.settlements, {"settlements"})
    /\ ShowsOnly(billingKeys.settlementPeriods, {"periods", "settlements"})
    /\ ShowsOnly(billingKeys.settlement, {"settlements"})
    /\ OffBoards(billingKeys.rules.key)
    /\ OffBoards(billingKeys.ruleTemplate.key)
    /\ OffBoards(billingKeys.accountTree.key)
    /\ OffBoards(billingKeys.account.key)
    /\ OffBoards(billingKeys.myAccount.key)
    /\ OffBoards(billingKeys.accountTransactions.key)
    /\ OffBoards(billingKeys.transactions.key)
    /\ OffBoards(billingKeys.settlements.key)
    /\ OffBoards(billingKeys.settlementPeriods.key)
    /\ OffBoards(billingKeys.settlement.key)
<1>1. /\ billingKeys.rules.polled = FALSE
      /\ billingKeys.rules.reads = {"rules"}
      /\ billingKeys.ruleTemplate.polled = FALSE
      /\ billingKeys.ruleTemplate.reads = {}
      /\ billingKeys.accountTree.polled = FALSE
      /\ billingKeys.accountTree.reads = {"accounts", "postings", "depts", "members"}
      /\ billingKeys.account.polled = FALSE
      /\ billingKeys.account.reads = {"accounts", "postings"}
      /\ billingKeys.myAccount.polled = FALSE
      /\ billingKeys.myAccount.reads = {"accounts", "postings"}
      /\ billingKeys.accountTransactions.polled = FALSE
      /\ billingKeys.accountTransactions.reads = {"postings"}
      /\ billingKeys.transactions.polled = FALSE
      /\ billingKeys.transactions.reads = {"postings"}
      /\ billingKeys.settlements.polled = FALSE
      /\ billingKeys.settlements.reads = {"settlements"}
      /\ billingKeys.settlementPeriods.polled = FALSE
      /\ billingKeys.settlementPeriods.reads = {"periods", "settlements"}
      /\ billingKeys.settlement.polled = FALSE
      /\ billingKeys.settlement.reads = {"settlements"}
  BY DEF billingKeys, Query
<1>2. /\ OffBoards(billingKeys.rules.key)
      /\ OffBoards(billingKeys.ruleTemplate.key)
      /\ OffBoards(billingKeys.accountTree.key)
      /\ OffBoards(billingKeys.account.key)
      /\ OffBoards(billingKeys.myAccount.key)
      /\ OffBoards(billingKeys.accountTransactions.key)
      /\ OffBoards(billingKeys.transactions.key)
      /\ OffBoards(billingKeys.settlements.key)
      /\ OffBoards(billingKeys.settlementPeriods.key)
      /\ OffBoards(billingKeys.settlement.key)
  BY DEF OffBoards, PatchedKeys, Query, vehicleKeys, billingKeys
<1>. QED  BY <1>1, <1>2, ShownFacts DEF ShowsOnly

LEMMA DevicePrefixes ==
    /\ IsPrefix(deviceKeys.all, deviceKeys.list.key)
  BY KeyPrefixes, Zenon DEF deviceKeys, Query

LEMMA DeviceShown ==
    /\ ShowsOnly(deviceKeys.list, {"devices"})
    /\ OffBoards(deviceKeys.list.key)
<1>1. /\ deviceKeys.list.polled = FALSE
      /\ deviceKeys.list.reads = {"devices"}
  BY DEF deviceKeys, Query
<1>2. /\ OffBoards(deviceKeys.list.key)
  BY DEF OffBoards, PatchedKeys, Query, vehicleKeys, deviceKeys
<1>. QED  BY <1>1, <1>2, ShownFacts DEF ShowsOnly

LEMMA CardPrefixes ==
    /\ IsPrefix(cardKeys.all, cardKeys.list.key)
  BY KeyPrefixes, Zenon DEF cardKeys, Query

LEMMA CardShown ==
    /\ ShowsOnly(cardKeys.list, {"cards"})
    /\ OffBoards(cardKeys.list.key)
<1>1. /\ cardKeys.list.polled = FALSE
      /\ cardKeys.list.reads = {"cards"}
  BY DEF cardKeys, Query
<1>2. /\ OffBoards(cardKeys.list.key)
  BY DEF OffBoards, PatchedKeys, Query, vehicleKeys, cardKeys
<1>. QED  BY <1>1, <1>2, ShownFacts DEF ShowsOnly

LEMMA PilePrefixes ==
    /\ IsPrefix(pileKeys.all, pileKeys.list.key)
    /\ IsPrefix(pileKeys.all, pileKeys.map.key)
  BY KeyPrefixes, Zenon DEF pileKeys, Query

LEMMA PileShown ==
    /\ ShowsOnly(pileKeys.list, {"piles"})
    /\ ShowsOnly(pileKeys.map, {"piles"})
    /\ OffBoards(pileKeys.list.key)
    /\ OffBoards(pileKeys.map.key)
<1>1. /\ pileKeys.list.polled = FALSE
      /\ pileKeys.list.reads = {"piles"}
      /\ pileKeys.map.polled = FALSE
      /\ pileKeys.map.reads = {"piles"}
  BY DEF pileKeys, Query
<1>2. /\ OffBoards(pileKeys.list.key)
      /\ OffBoards(pileKeys.map.key)
  BY DEF OffBoards, PatchedKeys, Query, vehicleKeys, pileKeys
<1>. QED  BY <1>1, <1>2, ShownFacts DEF ShowsOnly

LEMMA UserPrefixes ==
    /\ IsPrefix(userKeys.all, userKeys.list.key)
    /\ IsPrefix(userKeys.all, userKeys.options.key)
    /\ IsPrefix(userKeys.all, userKeys.leaders.key)
  BY KeyPrefixes, Zenon DEF userKeys, Query

LEMMA UserShown ==
    /\ ShowsOnly(userKeys.list, {"users"})
    /\ ShowsOnly(userKeys.options, {"users"})
    /\ ShowsOnly(userKeys.leaders, {"users"})
    /\ OffBoards(userKeys.list.key)
    /\ OffBoards(userKeys.options.key)
    /\ OffBoards(userKeys.leaders.key)
<1>1. /\ userKeys.list.polled = FALSE
      /\ userKeys.list.reads = {"users"}
      /\ userKeys.options.polled = FALSE
      /\ userKeys.options.reads = {"users"}
      /\ userKeys.leaders.polled = FALSE
      /\ userKeys.leaders.reads = {"users"}
  BY DEF userKeys, Query
<1>2. /\ OffBoards(userKeys.list.key)
      /\ OffBoards(userKeys.options.key)
      /\ OffBoards(userKeys.leaders.key)
  BY DEF OffBoards, PatchedKeys, Query, vehicleKeys, userKeys
<1>. QED  BY <1>1, <1>2, ShownFacts DEF ShowsOnly

LEMMA DeptPrefixes ==
    /\ IsPrefix(deptKeys.all, deptKeys.tree.key)
  BY KeyPrefixes, Zenon DEF deptKeys, Query

LEMMA DeptShown ==
    /\ ShowsOnly(deptKeys.tree, {"depts", "members"})
    /\ OffBoards(deptKeys.tree.key)
<1>1. /\ deptKeys.tree.polled = FALSE
      /\ deptKeys.tree.reads = {"depts", "members"}
  BY DEF deptKeys, Query
<1>2. /\ OffBoards(deptKeys.tree.key)
  BY DEF OffBoards, PatchedKeys, Query, vehicleKeys, deptKeys
<1>. QED  BY <1>1, <1>2, ShownFacts DEF ShowsOnly

LEMMA RolePrefixes ==
    /\ IsPrefix(roleKeys.all, roleKeys.options.key)
    /\ IsPrefix(roleKeys.all, roleKeys.list.key)
  BY KeyPrefixes, Zenon DEF roleKeys, Query

LEMMA RoleShown ==
    /\ ShowsOnly(roleKeys.options, {"roles"})
    /\ ShowsOnly(roleKeys.list, {"roles", "roleHolders"})
    /\ ShowsOnly(roleKeys.permissionTree, {})
    /\ OffBoards(roleKeys.options.key)
    /\ OffBoards(roleKeys.list.key)
    /\ OffBoards(roleKeys.permissionTree.key)
<1>1. /\ roleKeys.options.polled = FALSE
      /\ roleKeys.options.reads = {"roles"}
      /\ roleKeys.list.polled = FALSE
      /\ roleKeys.list.reads = {"roles", "roleHolders"}
      /\ roleKeys.permissionTree.polled = FALSE
      /\ roleKeys.permissionTree.reads = {}
  BY DEF roleKeys, Query
<1>2. /\ OffBoards(roleKeys.options.key)
      /\ OffBoards(roleKeys.list.key)
      /\ OffBoards(roleKeys.permissionTree.key)
  BY DEF OffBoards, PatchedKeys, Query, vehicleKeys, roleKeys
<1>. QED  BY <1>1, <1>2, ShownFacts DEF ShowsOnly

LEMMA TenantPrefixes ==
    /\ IsPrefix(tenantKeys.all, tenantKeys.list.key)
    /\ IsPrefix(tenantKeys.all, tenantKeys.options.key)
  BY KeyPrefixes, Zenon DEF tenantKeys, Query

LEMMA TenantShown ==
    /\ ShowsOnly(tenantKeys.list, {"tenants", "tenantSize"})
    /\ ShowsOnly(tenantKeys.options, {"tenants"})
    /\ OffBoards(tenantKeys.list.key)
    /\ OffBoards(tenantKeys.options.key)
<1>1. /\ tenantKeys.list.polled = FALSE
      /\ tenantKeys.list.reads = {"tenants", "tenantSize"}
      /\ tenantKeys.options.polled = FALSE
      /\ tenantKeys.options.reads = {"tenants"}
  BY DEF tenantKeys, Query
<1>2. /\ OffBoards(tenantKeys.list.key)
      /\ OffBoards(tenantKeys.options.key)
  BY DEF OffBoards, PatchedKeys, Query, vehicleKeys, tenantKeys
<1>. QED  BY <1>1, <1>2, ShownFacts DEF ShowsOnly

LEMMA DictPrefixes ==
    /\ IsPrefix(dictKeys.all, dictKeys.list.key)
    /\ IsPrefix(dictKeys.all, dictKeys.detail.key)
    /\ IsPrefix(dictKeys.all, dictKeys.byCode.key)
  BY KeyPrefixes, Zenon DEF dictKeys, Query

LEMMA DictShown ==
    /\ ShowsOnly(dictKeys.list, {"dicts"})
    /\ ShowsOnly(dictKeys.detail, {"dicts"})
    /\ ShowsOnly(dictKeys.byCode, {"dicts"})
    /\ OffBoards(dictKeys.list.key)
    /\ OffBoards(dictKeys.detail.key)
    /\ OffBoards(dictKeys.byCode.key)
<1>1. /\ dictKeys.list.polled = FALSE
      /\ dictKeys.list.reads = {"dicts"}
      /\ dictKeys.detail.polled = FALSE
      /\ dictKeys.detail.reads = {"dicts"}
      /\ dictKeys.byCode.polled = FALSE
      /\ dictKeys.byCode.reads = {"dicts"}
  BY DEF dictKeys, Query
<1>2. /\ OffBoards(dictKeys.list.key)
      /\ OffBoards(dictKeys.detail.key)
      /\ OffBoards(dictKeys.byCode.key)
  BY DEF OffBoards, PatchedKeys, Query, vehicleKeys, dictKeys
<1>. QED  BY <1>1, <1>2, ShownFacts DEF ShowsOnly

LEMMA ParamPrefixes ==
    /\ IsPrefix(paramKeys.all, paramKeys.list.key)
  BY KeyPrefixes, Zenon DEF paramKeys, Query

LEMMA ParamShown ==
    /\ ShowsOnly(paramKeys.list, {"params"})
    /\ OffBoards(paramKeys.list.key)
<1>1. /\ paramKeys.list.polled = FALSE
      /\ paramKeys.list.reads = {"params"}
  BY DEF paramKeys, Query
<1>2. /\ OffBoards(paramKeys.list.key)
  BY DEF OffBoards, PatchedKeys, Query, vehicleKeys, paramKeys
<1>. QED  BY <1>1, <1>2, ShownFacts DEF ShowsOnly

LEMMA TemplatePrefixes ==
    /\ IsPrefix(templateKeys.all, templateKeys.list.key)
  BY KeyPrefixes, Zenon DEF templateKeys, Query

LEMMA TemplateShown ==
    /\ ShowsOnly(templateKeys.list, {"templates"})
    /\ OffBoards(templateKeys.list.key)
<1>1. /\ templateKeys.list.polled = FALSE
      /\ templateKeys.list.reads = {"templates"}
  BY DEF templateKeys, Query
<1>2. /\ OffBoards(templateKeys.list.key)
  BY DEF OffBoards, PatchedKeys, Query, vehicleKeys, templateKeys
<1>. QED  BY <1>1, <1>2, ShownFacts DEF ShowsOnly

LEMMA NotificationPrefixes ==
    /\ IsPrefix(notificationKeys.all, notificationKeys.list.key)
    /\ IsPrefix(notificationKeys.all, notificationKeys.unread.key)
  BY KeyPrefixes, Zenon DEF notificationKeys, Query

LEMMA NotificationShown ==
    /\ ShowsOnly(notificationKeys.list, {"notifications"})
    /\ ShowsOnly(notificationKeys.unread, {"notifications"})
    /\ OffBoards(notificationKeys.list.key)
    /\ OffBoards(notificationKeys.unread.key)
<1>1. /\ notificationKeys.list.polled = FALSE
      /\ notificationKeys.list.reads = {"notifications"}
      /\ notificationKeys.unread.polled = FALSE
      /\ notificationKeys.unread.reads = {"notifications"}
  BY DEF notificationKeys, Query
<1>2. /\ OffBoards(notificationKeys.list.key)
      /\ OffBoards(notificationKeys.unread.key)
  BY DEF OffBoards, PatchedKeys, Query, vehicleKeys, notificationKeys
<1>. QED  BY <1>1, <1>2, ShownFacts DEF ShowsOnly

LEMMA AuditLogShown ==
    /\ ShowsOnly(auditLogKeys.list, {})
    /\ ShowsOnly(auditLogKeys.detail, {})
    /\ OffBoards(auditLogKeys.list.key)
    /\ OffBoards(auditLogKeys.detail.key)
<1>1. /\ auditLogKeys.list.polled = FALSE
      /\ auditLogKeys.list.reads = {}
      /\ auditLogKeys.detail.polled = FALSE
      /\ auditLogKeys.detail.reads = {}
  BY DEF auditLogKeys, Query
<1>2. /\ OffBoards(auditLogKeys.list.key)
      /\ OffBoards(auditLogKeys.detail.key)
  BY DEF OffBoards, PatchedKeys, Query, vehicleKeys, auditLogKeys
<1>. QED  BY <1>1, <1>2, ShownFacts DEF ShowsOnly

\* The data that have a home are shown by queries under it.
LEMMA Homed == \A d \in DOMAIN Home : \A k \in Shown[d] : IsPrefix(Home[d], k)
<1>1. DOMAIN Home =
        {"approvalRules", "bills", "bookings", "gateways", "track", "transactions", "pileLive", "meter",
         "accounts", "postings", "rules", "settlements", "periods", "devices", "cards", "users", "roles",
         "roleHolders", "tenants", "tenantSize", "dicts", "params", "templates", "notifications"}
  BY DEF Home
<1>2. \A d \in {"approvalRules", "bills", "bookings", "gateways", "track", "transactions", "pileLive"} :
        \A k \in Shown[d] : IsPrefix(Home[d], k)
  BY Homes, ShownFacts, ApprovalPrefixes, TripPrefixes, BookingPrefixes, VehiclePrefixes, ChargingPrefixes
<1>3. \A d \in {"meter", "accounts", "postings", "rules", "settlements", "periods", "devices"} :
        \A k \in Shown[d] : IsPrefix(Home[d], k)
  BY Homes, ShownFacts, ChargingPrefixes, BillingPrefixes, DevicePrefixes
<1>4. \A d \in {"cards", "users", "roles", "roleHolders", "tenants", "tenantSize", "dicts"} :
        \A k \in Shown[d] : IsPrefix(Home[d], k)
  BY Homes, ShownFacts, CardPrefixes, UserPrefixes, RolePrefixes, TenantPrefixes, DictPrefixes
<1>5. \A d \in {"params", "templates", "notifications"} :
        \A k \in Shown[d] : IsPrefix(Home[d], k)
  BY Homes, ShownFacts, ParamPrefixes, TemplatePrefixes, NotificationPrefixes
<1>. QED  BY <1>1, <1>2, <1>3, <1>4, <1>5

LEMMA PolledQueries ==
    \A q \in {tripKeys.detail, tripKeys.track, tripKeys.summary, approvalKeys.todoCount, dashboardKeys.overview,
              vehicleKeys.status, chargingKeys.summary, chargingKeys.pilesLive, chargingKeys.txList,
              chargingKeys.txDetail, chargingKeys.meterValues} : Polled(q).polled /\ Polled(q).polled \in BOOLEAN
  BY DEF Polled, Query, tripKeys, approvalKeys, dashboardKeys, vehicleKeys, chargingKeys

\* A query of a page that shows no data but these, and no board but these, unless
\* it is polled.  A board is a query that events are put into.
Fits(q, data, boards) ==
    /\ q.polled \in BOOLEAN
    /\ ~q.polled => /\ q.reads \subseteq data /\ \A d \in q.reads : q.key \in Shown[d]
                    /\ OffBoards(q.key) \/ q.key \in boards

---------------------------------------------------------------------------

(***************************************************************************)
(* Operations: rows and states that exist.                                 *)
(***************************************************************************)
OpTyped(op) ==
    /\ {"may", "tells"} \subseteq DOMAIN op
    /\ op.on \in DOMAIN RowStates
    /\ op.from \subseteq RowStates[op.on] /\ op.to \subseteq RowStates[op.on] \cup {Gone}
    /\ op.may \in BOOLEAN

LEMMA OpTypes ==
    ASSUME NEW p, NEW on \in DOMAIN RowStates, NEW from \in SUBSET RowStates[on],
           NEW to \in SUBSET (RowStates[on] \cup {Gone}), NEW c
    PROVE  OpTyped(Op(p, on, from, to, c))
  BY DEF OpTyped, Op

LEMMA ConditionalTypes == ASSUME NEW o, OpTyped(o) PROVE OpTyped(Conditional(o))
<1>1. DOMAIN Conditional(o) = DOMAIN o /\ Conditional(o).may
  BY DEF OpTyped, Conditional
<1>2. Conditional(o).on = o.on /\ Conditional(o).from = o.from /\ Conditional(o).to = o.to
  BY DEF OpTyped, Conditional
<1>. QED  BY <1>1, <1>2 DEF OpTyped

LEMMA TellingTypes == ASSUME NEW o, OpTyped(o), NEW e PROVE OpTyped(Telling(o, e))
  BY DEF OpTyped, Telling

LEMMA CreatesTypes == ASSUME NEW p, NEW c PROVE OpTyped(Creates(p, c))
<1>1. "nothing" \in DOMAIN RowStates /\ RowStates["nothing"] = {"none"}
  BY DEF RowStates
<1>2. OpTyped(Op(p, "nothing", {"none"}, {}, c))
  BY <1>1, OpTypes
<1>. QED  BY <1>2, ConditionalTypes DEF Creates, Conditional

LEMMA AnyRowTypes ==
    ASSUME NEW p, NEW on \in DOMAIN RowStates, NEW to \in SUBSET (RowStates[on] \cup {Gone}), NEW c
    PROVE  OpTyped(AnyRow(p, on, to, c))
  BY OpTypes DEF AnyRow

LEMMA Kinds ==
    /\ "nothing" \in DOMAIN RowStates /\ RowStates["nothing"] = {"none"}
    /\ "approvals" \in DOMAIN RowStates /\ RowStates["approvals"] = {"pending", "approved", "in_use", "closed"}
    /\ "trips" \in DOMAIN RowStates /\ RowStates["trips"] = {"ongoing", "completed", "cancelled"}
    /\ "bookings" \in DOMAIN RowStates /\ RowStates["bookings"] = {"reserved", "departed", "completed", "cancelled"}
    /\ "vehicles" \in DOMAIN RowStates /\ RowStates["vehicles"] = {"free", "on_trip"}
    /\ "transactions" \in DOMAIN RowStates /\ RowStates["transactions"] = {"charging", "pending", "settled"}
    /\ "connectors" \in DOMAIN RowStates /\ RowStates["connectors"] = {"free", "charging", "unusable"}
    /\ "accounts" \in DOMAIN RowStates /\ RowStates["accounts"] = {"present"}
    /\ "rules" \in DOMAIN RowStates /\ RowStates["rules"] = {"default", "enabled", "disabled"}
    /\ "settlements" \in DOMAIN RowStates /\ RowStates["settlements"] = {"none", "draft", "confirmed"}
    /\ "devices" \in DOMAIN RowStates /\ RowStates["devices"] = {"unbound", "bound"}
    /\ "cards" \in DOMAIN RowStates /\ RowStates["cards"] = {"unbound", "bound", "lost"}
    /\ "piles" \in DOMAIN RowStates /\ RowStates["piles"] = {"present"}
    /\ "users" \in DOMAIN RowStates /\ RowStates["users"] = {"self", "other"}
    /\ "depts" \in DOMAIN RowStates /\ RowStates["depts"] = {"present"}
    /\ "roles" \in DOMAIN RowStates /\ RowStates["roles"] = {"builtin", "custom"}
    /\ "tenants" \in DOMAIN RowStates /\ RowStates["tenants"] = {"active", "disabled", "platform"}
    /\ "dicts" \in DOMAIN RowStates /\ RowStates["dicts"] = {"system", "own"}
    /\ "params" \in DOMAIN RowStates /\ RowStates["params"] = {"global", "tenant"}
    /\ "templates" \in DOMAIN RowStates /\ RowStates["templates"] = {"enabled", "disabled"}
    /\ "notifications" \in DOMAIN RowStates /\ RowStates["notifications"] = {"unread", "read"}
  BY DEF RowStates

LEMMA ApprovalOpTypes ==
    /\ Members(ApprovalOps) = {ApprovalOps.create, ApprovalOps.cancel, ApprovalOps.approve, ApprovalOps.reject}
    /\ \A o \in Members(ApprovalOps) : OpTyped(o)
<1>1. \A o \in Members(ApprovalOps) : OpTyped(o)
  BY Kinds, OpTypes, ConditionalTypes, TellingTypes, CreatesTypes, AnyRowTypes DEF ApprovalOps, Members
<1>. QED  BY <1>1 DEF ApprovalOps, Members

LEMMA TripOpTypes ==
    /\ Members(TripOps) = {TripOps.end, TripOps.cancel, TripOps.start}
    /\ \A o \in Members(TripOps) : OpTyped(o)
<1>1. \A o \in Members(TripOps) : OpTyped(o)
  BY Kinds, OpTypes, ConditionalTypes, TellingTypes, CreatesTypes, AnyRowTypes DEF TripOps, Members
<1>. QED  BY <1>1 DEF TripOps, Members

LEMMA BookingOpTypes ==
    /\ Members(BookingOps) = {BookingOps.create, BookingOps.update, BookingOps.cancel, BookingOps.depart,
                  BookingOps.complete}
    /\ \A o \in Members(BookingOps) : OpTyped(o)
<1>1. \A o \in Members(BookingOps) : OpTyped(o)
  BY Kinds, OpTypes, ConditionalTypes, TellingTypes, CreatesTypes, AnyRowTypes DEF BookingOps, Members
<1>. QED  BY <1>1 DEF BookingOps, Members

LEMMA VehicleOpTypes ==
    /\ Members(VehicleOps) = {VehicleOps.create, VehicleOps.update, VehicleOps.delete}
    /\ \A o \in Members(VehicleOps) : OpTyped(o)
<1>1. \A o \in Members(VehicleOps) : OpTyped(o)
  BY Kinds, OpTypes, ConditionalTypes, TellingTypes, CreatesTypes, AnyRowTypes DEF VehicleOps, Members
<1>. QED  BY <1>1 DEF VehicleOps, Members

LEMMA ChargingOpTypes ==
    /\ Members(ChargingOps) = {ChargingOps.remoteStart, ChargingOps.remoteStop, ChargingOps.review}
    /\ \A o \in Members(ChargingOps) : OpTyped(o)
<1>1. \A o \in Members(ChargingOps) : OpTyped(o)
  BY Kinds, OpTypes, ConditionalTypes, TellingTypes, CreatesTypes, AnyRowTypes DEF ChargingOps, Members
<1>. QED  BY <1>1 DEF ChargingOps, Members

LEMMA RuleOpTypes ==
    /\ Members(RuleOps) = {RuleOps.create, RuleOps.update, RuleOps.delete, RuleOps.activate}
    /\ \A o \in Members(RuleOps) : OpTyped(o)
<1>1. \A o \in Members(RuleOps) : OpTyped(o)
  BY Kinds, OpTypes, ConditionalTypes, TellingTypes, CreatesTypes, AnyRowTypes DEF RuleOps, Members
<1>. QED  BY <1>1 DEF RuleOps, Members

LEMMA AccountOpTypes ==
    /\ Members(AccountOps) = {AccountOps.update, AccountOps.recharge, AccountOps.allocate, AccountOps.adjust}
    /\ \A o \in Members(AccountOps) : OpTyped(o)
<1>1. \A o \in Members(AccountOps) : OpTyped(o)
  BY Kinds, OpTypes, ConditionalTypes, TellingTypes, CreatesTypes, AnyRowTypes DEF AccountOps, Members
<1>. QED  BY <1>1 DEF AccountOps, Members

LEMMA SettlementOpTypes ==
    /\ Members(SettlementOps) = {SettlementOps.generate, SettlementOps.confirm}
    /\ \A o \in Members(SettlementOps) : OpTyped(o)
<1>1. \A o \in Members(SettlementOps) : OpTyped(o)
  BY Kinds, OpTypes, ConditionalTypes, TellingTypes, CreatesTypes, AnyRowTypes DEF SettlementOps, Members
<1>. QED  BY <1>1 DEF SettlementOps, Members

LEMMA DeviceOpTypes ==
    /\ Members(DeviceOps) = {DeviceOps.create, DeviceOps.update, DeviceOps.delete, DeviceOps.unbind,
                  DeviceOps.rotate, DeviceOps.bind}
    /\ \A o \in Members(DeviceOps) : OpTyped(o)
<1>1. \A o \in Members(DeviceOps) : OpTyped(o)
  BY Kinds, OpTypes, ConditionalTypes, TellingTypes, CreatesTypes, AnyRowTypes DEF DeviceOps, Members
<1>. QED  BY <1>1 DEF DeviceOps, Members

LEMMA CardOpTypes ==
    /\ Members(CardOps) = {CardOps.create, CardOps.update, CardOps.delete, CardOps.unbind, CardOps.bind, CardOps.loss}
    /\ \A o \in Members(CardOps) : OpTyped(o)
<1>1. \A o \in Members(CardOps) : OpTyped(o)
  BY Kinds, OpTypes, ConditionalTypes, TellingTypes, CreatesTypes, AnyRowTypes DEF CardOps, Members
<1>. QED  BY <1>1 DEF CardOps, Members

LEMMA PileOpTypes ==
    /\ Members(PileOps) = {PileOps.create, PileOps.update, PileOps.delete}
    /\ \A o \in Members(PileOps) : OpTyped(o)
<1>1. \A o \in Members(PileOps) : OpTyped(o)
  BY Kinds, OpTypes, ConditionalTypes, TellingTypes, CreatesTypes, AnyRowTypes DEF PileOps, Members
<1>. QED  BY <1>1 DEF PileOps, Members

LEMMA UserOpTypes ==
    /\ Members(UserOps) = {UserOps.create, UserOps.update, UserOps.assign, UserOps.reset, UserOps.import,
                  UserOps.delete}
    /\ \A o \in Members(UserOps) : OpTyped(o)
<1>1. \A o \in Members(UserOps) : OpTyped(o)
  BY Kinds, OpTypes, ConditionalTypes, TellingTypes, CreatesTypes, AnyRowTypes DEF UserOps, Members
<1>. QED  BY <1>1 DEF UserOps, Members

LEMMA DeptOpTypes ==
    /\ Members(DeptOps) = {DeptOps.create, DeptOps.update, DeptOps.delete}
    /\ \A o \in Members(DeptOps) : OpTyped(o)
<1>1. \A o \in Members(DeptOps) : OpTyped(o)
  BY Kinds, OpTypes, ConditionalTypes, TellingTypes, CreatesTypes, AnyRowTypes DEF DeptOps, Members
<1>. QED  BY <1>1 DEF DeptOps, Members

LEMMA RoleOpTypes ==
    /\ Members(RoleOps) = {RoleOps.create, RoleOps.update, RoleOps.delete, RoleOps.grant}
    /\ \A o \in Members(RoleOps) : OpTyped(o)
<1>1. \A o \in Members(RoleOps) : OpTyped(o)
  BY Kinds, OpTypes, ConditionalTypes, TellingTypes, CreatesTypes, AnyRowTypes DEF RoleOps, Members
<1>. QED  BY <1>1 DEF RoleOps, Members

LEMMA TenantOpTypes ==
    /\ Members(TenantOps) = {TenantOps.create, TenantOps.update, TenantOps.disable, TenantOps.enable}
    /\ \A o \in Members(TenantOps) : OpTyped(o)
<1>1. \A o \in Members(TenantOps) : OpTyped(o)
  BY Kinds, OpTypes, ConditionalTypes, TellingTypes, CreatesTypes, AnyRowTypes DEF TenantOps, Members
<1>. QED  BY <1>1 DEF TenantOps, Members

LEMMA DictOpTypes ==
    /\ Members(DictOps) = {DictOps.create, DictOps.update, DictOps.delete, DictOps.saveItem, DictOps.deleteItem}
    /\ \A o \in Members(DictOps) : OpTyped(o)
<1>1. \A o \in Members(DictOps) : OpTyped(o)
  BY Kinds, OpTypes, ConditionalTypes, TellingTypes, CreatesTypes, AnyRowTypes DEF DictOps, Members
<1>. QED  BY <1>1 DEF DictOps, Members

LEMMA ParamOpTypes ==
    /\ Members(ParamOps) = {ParamOps.reset, ParamOps.set}
    /\ \A o \in Members(ParamOps) : OpTyped(o)
<1>1. \A o \in Members(ParamOps) : OpTyped(o)
  BY Kinds, OpTypes, ConditionalTypes, TellingTypes, CreatesTypes, AnyRowTypes DEF ParamOps, Members
<1>. QED  BY <1>1 DEF ParamOps, Members

LEMMA TemplateOpTypes ==
    /\ Members(TemplateOps) = {TemplateOps.create, TemplateOps.update, TemplateOps.delete, TemplateOps.toggle}
    /\ \A o \in Members(TemplateOps) : OpTyped(o)
<1>1. \A o \in Members(TemplateOps) : OpTyped(o)
  BY Kinds, OpTypes, ConditionalTypes, TellingTypes, CreatesTypes, AnyRowTypes DEF TemplateOps, Members
<1>. QED  BY <1>1 DEF TemplateOps, Members

LEMMA NotificationOpTypes ==
    /\ Members(NotificationOps) = {NotificationOps.markRead, NotificationOps.markAllRead}
    /\ \A o \in Members(NotificationOps) : OpTyped(o)
<1>1. \A o \in Members(NotificationOps) : OpTyped(o)
  BY Kinds, OpTypes, ConditionalTypes, TellingTypes, CreatesTypes, AnyRowTypes DEF NotificationOps, Members
<1>. QED  BY <1>1 DEF NotificationOps, Members

LEMMA LooseOpTypes ==
    \A o \in PileReports \cup {ExpireApprovals, SaveApprovalRules, ReportTrip, BillTrip, Telemetry} : OpTyped(o)
<1>1. OpTyped(ExpireApprovals)
  BY Kinds, OpTypes DEF ExpireApprovals
<1>2. OpTyped(SaveApprovalRules)
  BY Kinds, OpTypes DEF SaveApprovalRules
<1>3. OpTyped(BillTrip)
  BY Kinds, OpTypes, TellingTypes DEF BillTrip
<1>4. OpTyped(Telemetry)
  BY Kinds, OpTypes, TellingTypes DEF Telemetry
<1>5. \A o \in PileReports : OpTyped(o)
  BY Kinds, OpTypes, TellingTypes DEF PileReports
<1>6. OpTyped(ReportTrip)
  BY Kinds, OpTypes, TellingTypes DEF ReportTrip
<1>. QED  BY <1>1, <1>2, <1>3, <1>4, <1>5, <1>6

LEMMA AllOpTypes == \A o \in AllOps : OpTyped(o)
  BY ApprovalOpTypes, TripOpTypes, BookingOpTypes, VehicleOpTypes, ChargingOpTypes, RuleOpTypes, AccountOpTypes,
     SettlementOpTypes, DeviceOpTypes, CardOpTypes, PileOpTypes, UserOpTypes, DeptOpTypes, RoleOpTypes,
     TenantOpTypes, DictOpTypes, ParamOpTypes, TemplateOpTypes, LooseOpTypes
  DEF AllOps
---------------------------------------------------------------------------

(***************************************************************************)
(* Buttons.  A button is sound beside queries that show these data: it is  *)
(* offered only where its operation is accepted, and of what its operation *)
(* changes it refreshes all that its page shows; the rest the feed tells.  *)
(***************************************************************************)
OpIs(op, perm, on, from, changes, tells) ==
    /\ OpTyped(op)
    /\ op.perm = perm /\ op.on = on /\ op.from = from /\ op.changes = changes /\ op.tells = tells

LEMMA ApprovalOpFacts ==
    /\ OpIs(ApprovalOps.create, "approval:create", "nothing", RowStates["nothing"],
            {"approvals", "notifications"}, {"approval.updated", "notification.new"})
    /\ OpIs(ApprovalOps.cancel, "approval:view", "approvals", {"pending", "approved"},
            {"approvals", "notifications"}, {"approval.updated", "notification.new"})
    /\ OpIs(ApprovalOps.approve, "approval:approve", "approvals", {"pending"},
            {"approvals", "notifications"}, {"approval.updated", "notification.new"})
    /\ OpIs(ApprovalOps.reject, "approval:approve", "approvals", {"pending"},
            {"approvals", "notifications"}, {"approval.updated", "notification.new"})
  BY Kinds, ApprovalOpTypes DEF ApprovalOps, OpIs, Op, AnyRow, Creates, Conditional, Telling, ApprovalTells

LEMMA TripOpFacts ==
    /\ OpIs(TripOps.end, "trip:manage", "trips", {"ongoing"},
            {"trips", "bills", "periods", "tripEvents", "approvals", "live", "accounts", "postings", "notifications"},
            {"approval.updated", "notification.new", "vehicle.status", "trip.event", "trip.ended", "account.updated"})
    /\ OpIs(TripOps.cancel, "trip:manage", "trips", {"ongoing"}, {"trips", "tripEvents", "approvals", "live"},
            {"approval.updated", "vehicle.status", "trip.event", "trip.ended"})
    /\ OpIs(TripOps.start, "trip:manage", "approvals", {"approved"},
            {"approvals", "trips", "tripEvents", "live", "notifications"},
            {"approval.updated", "vehicle.status", "trip.event", "trip.started", "notification.new"})
<1>1. /\ OpTyped(TripOps.end) /\ OpTyped(TripOps.cancel) /\ OpTyped(TripOps.start)
  BY TripOpTypes
<1>. QED  BY <1>1, Kinds DEF TripOps, OpIs, Op, AnyRow, Creates, Conditional, Telling, TripTells

LEMMA BookingOpFacts ==
    /\ OpIs(BookingOps.create, "booking:create", "nothing", RowStates["nothing"], {"bookings"}, {})
    /\ OpIs(BookingOps.update, "booking:update", "bookings", {"reserved"}, {"bookings"}, {})
    /\ OpIs(BookingOps.cancel, "booking:cancel", "bookings", {"reserved"}, {"bookings"}, {})
    /\ OpIs(BookingOps.depart, "booking:update", "bookings", {"reserved"}, {"bookings", "live"}, {"vehicle.status"})
    /\ OpIs(BookingOps.complete, "booking:update", "bookings", {"departed"}, {"bookings", "live"}, {"vehicle.status"})
  BY Kinds, BookingOpTypes DEF BookingOps, OpIs, Op, AnyRow, Creates, Conditional, Telling

LEMMA VehicleOpFacts ==
    /\ OpIs(VehicleOps.create, "asset:vehicle:create", "nothing", RowStates["nothing"], {"vehicles", "live"}, {})
    /\ OpIs(VehicleOps.update, "asset:vehicle:update", "vehicles", RowStates["vehicles"],
            {"vehicles", "live"}, {"vehicle.status"})
    /\ OpIs(VehicleOps.delete, "asset:vehicle:delete", "vehicles", {"free"}, {"vehicles", "devices", "live"}, {})
  BY Kinds, VehicleOpTypes DEF VehicleOps, OpIs, Op, AnyRow, Creates, Conditional, Telling

LEMMA ChargingOpFacts ==
    /\ OpIs(ChargingOps.remoteStart, "charging:manage", "connectors", {"free"}, {}, {})
    /\ OpIs(ChargingOps.remoteStop, "charging:manage", "transactions", {"charging"}, {}, {})
    /\ OpIs(ChargingOps.review, "charging:review", "transactions", {"pending"},
            {"transactions", "periods", "accounts", "postings", "notifications"},
            {"account.updated", "notification.new"})
  BY Kinds, ChargingOpTypes DEF ChargingOps, OpIs, Op, AnyRow, Creates, Conditional, Telling

LEMMA RuleOpFacts ==
    /\ OpIs(RuleOps.create, "billing:rule:update", "nothing", RowStates["nothing"], {"rules"}, {})
    /\ OpIs(RuleOps.update, "billing:rule:update", "rules", RowStates["rules"], {"rules"}, {})
    /\ OpIs(RuleOps.delete, "billing:rule:update", "rules", {"enabled", "disabled"}, {"rules"}, {})
    /\ OpIs(RuleOps.activate, "billing:rule:update", "rules", {"default", "enabled"}, {"rules"}, {})
  BY Kinds, RuleOpTypes DEF RuleOps, OpIs, Op, AnyRow, Creates, Conditional, Telling

LEMMA AccountOpFacts ==
    /\ OpIs(AccountOps.update, "billing:account:adjust", "accounts", RowStates["accounts"], {"accounts"}, {})
    /\ OpIs(AccountOps.recharge, "billing:account:recharge", "nothing", RowStates["nothing"],
            {"accounts", "postings"}, {"account.updated"})
    /\ OpIs(AccountOps.allocate, "billing:account:allocate", "accounts", RowStates["accounts"],
            {"accounts", "postings"}, {"account.updated"})
    /\ OpIs(AccountOps.adjust, "billing:account:adjust", "accounts", RowStates["accounts"],
            {"accounts", "postings", "notifications"}, {"account.updated", "notification.new"})
  BY Kinds, AccountOpTypes DEF AccountOps, OpIs, Op, AnyRow, Creates, Conditional, Telling

LEMMA SettlementOpFacts ==
    /\ OpIs(SettlementOps.generate, "billing:settlement:generate", "settlements", {"none", "draft"},
            {"settlements", "bills", "accounts", "postings", "notifications"},
            {"account.updated", "notification.new"})
    /\ OpIs(SettlementOps.confirm, "billing:settlement:confirm", "settlements", {"draft", "confirmed"},
            {"settlements"}, {})
  BY Kinds, SettlementOpTypes DEF SettlementOps, OpIs, Op, AnyRow, Creates, Conditional, Telling

LEMMA DeviceOpFacts ==
    /\ OpIs(DeviceOps.create, "asset:device:create", "nothing", RowStates["nothing"], {"devices", "gateways"}, {})
    /\ OpIs(DeviceOps.update, "asset:device:update", "devices", RowStates["devices"], {"devices"}, {})
    /\ OpIs(DeviceOps.delete, "asset:device:delete", "devices", RowStates["devices"], {"devices", "gateways"}, {})
    /\ OpIs(DeviceOps.unbind, "asset:device:update", "devices", {"bound"}, {"devices", "gateways"}, {})
    /\ OpIs(DeviceOps.rotate, "asset:device:update", "devices", RowStates["devices"], {"devices"}, {})
    /\ OpIs(DeviceOps.bind, "asset:device:update", "devices", RowStates["devices"], {"devices", "gateways"}, {})
<1>1. /\ OpTyped(DeviceOps.create) /\ OpTyped(DeviceOps.update) /\ OpTyped(DeviceOps.delete)
      /\ OpTyped(DeviceOps.unbind) /\ OpTyped(DeviceOps.rotate) /\ OpTyped(DeviceOps.bind)
  BY DeviceOpTypes
<1>. QED  BY <1>1, Kinds DEF DeviceOps, OpIs, Op, AnyRow, Creates, Conditional, Telling

LEMMA CardOpFacts ==
    /\ OpIs(CardOps.create, "asset:card:create", "nothing", RowStates["nothing"], {"cards"}, {})
    /\ OpIs(CardOps.update, "asset:card:update", "cards", RowStates["cards"], {"cards"}, {})
    /\ OpIs(CardOps.delete, "asset:card:delete", "cards", RowStates["cards"], {"cards"}, {})
    /\ OpIs(CardOps.unbind, "asset:card:update", "cards", RowStates["cards"], {"cards"}, {})
    /\ OpIs(CardOps.bind, "asset:card:update", "cards", RowStates["cards"], {"cards"}, {})
    /\ OpIs(CardOps.loss, "asset:card:update", "cards", RowStates["cards"], {"cards"}, {})
  BY Kinds, CardOpTypes DEF CardOps, OpIs, Op, AnyRow, Creates, Conditional, Telling

LEMMA PileOpFacts ==
    /\ OpIs(PileOps.create, "asset:pile:create", "nothing", RowStates["nothing"], {"piles", "pileLive"}, {})
    /\ OpIs(PileOps.update, "asset:pile:update", "piles", RowStates["piles"], {"piles", "pileLive"}, {})
    /\ OpIs(PileOps.delete, "asset:pile:delete", "piles", RowStates["piles"], {"piles", "pileLive"}, {})
  BY Kinds, PileOpTypes DEF PileOps, OpIs, Op, AnyRow, Creates, Conditional, Telling

LEMMA UserOpFacts ==
    /\ OpIs(UserOps.create, "system:user:create", "nothing", RowStates["nothing"],
            {"users", "members", "roleHolders", "tenantSize"}, {})
    /\ OpIs(UserOps.update, "system:user:update", "users", RowStates["users"],
            {"users", "members", "roleHolders"}, {})
    /\ OpIs(UserOps.assign, "system:user:assign-roles", "users", RowStates["users"], {"users", "roleHolders"}, {})
    /\ OpIs(UserOps.reset, "system:user:reset-password", "users", RowStates["users"], {}, {})
    /\ OpIs(UserOps.import, "system:user:import", "nothing", RowStates["nothing"],
            {"users", "members", "roleHolders", "tenantSize"}, {})
    /\ OpIs(UserOps.delete, "system:user:delete", "users", {"other"},
            {"users", "members", "roleHolders", "tenantSize"}, {})
<1>1. /\ OpTyped(UserOps.create) /\ OpTyped(UserOps.update) /\ OpTyped(UserOps.assign)
      /\ OpTyped(UserOps.reset) /\ OpTyped(UserOps.import) /\ OpTyped(UserOps.delete)
  BY UserOpTypes
<1>. QED  BY <1>1, Kinds DEF UserOps, OpIs, Op, AnyRow, Creates, Conditional, Telling

LEMMA DeptOpFacts ==
    /\ OpIs(DeptOps.create, "system:dept:create", "nothing", RowStates["nothing"], {"depts", "tenantSize"}, {})
    /\ OpIs(DeptOps.update, "system:dept:update", "depts", RowStates["depts"], {"depts"}, {})
    /\ OpIs(DeptOps.delete, "system:dept:delete", "depts", RowStates["depts"], {"depts", "tenantSize"}, {})
  BY Kinds, DeptOpTypes DEF DeptOps, OpIs, Op, AnyRow, Creates, Conditional, Telling

LEMMA RoleOpFacts ==
    /\ OpIs(RoleOps.create, "system:role:create", "nothing", RowStates["nothing"], {"roles"}, {})
    /\ OpIs(RoleOps.update, "system:role:update", "roles", RowStates["roles"], {"users", "roles"}, {})
    /\ OpIs(RoleOps.delete, "system:role:delete", "roles", {"custom"}, {"roles"}, {})
    /\ OpIs(RoleOps.grant, "system:role:assign-perms", "roles", RowStates["roles"], {"roles"}, {})
  BY Kinds, RoleOpTypes DEF RoleOps, OpIs, Op, AnyRow, Creates, Conditional, Telling

LEMMA TenantOpFacts ==
    /\ OpIs(TenantOps.create, "system:tenant:create", "nothing", RowStates["nothing"], {"tenants"}, {})
    /\ OpIs(TenantOps.update, "system:tenant:update", "tenants", RowStates["tenants"], {"tenants"}, {})
    /\ OpIs(TenantOps.disable, "system:tenant:update", "tenants", {"disabled", "active"}, {"tenants"}, {})
    /\ OpIs(TenantOps.enable, "system:tenant:update", "tenants", {"disabled", "active"}, {"tenants"}, {})
  BY Kinds, TenantOpTypes DEF TenantOps, OpIs, Op, AnyRow, Creates, Conditional, Telling

LEMMA DictOpFacts ==
    /\ OpIs(DictOps.create, "system:dict:create", "nothing", RowStates["nothing"], {"dicts"}, {})
    /\ OpIs(DictOps.update, "system:dict:update", "dicts", RowStates["dicts"], {"dicts"}, {})
    /\ OpIs(DictOps.delete, "system:dict:delete", "dicts", {"own"}, {"dicts"}, {})
    /\ OpIs(DictOps.saveItem, "system:dict:update", "dicts", RowStates["dicts"], {"dicts"}, {})
    /\ OpIs(DictOps.deleteItem, "system:dict:update", "dicts", RowStates["dicts"], {"dicts"}, {})
  BY Kinds, DictOpTypes DEF DictOps, OpIs, Op, AnyRow, Creates, Conditional, Telling

LEMMA ParamOpFacts ==
    /\ OpIs(ParamOps.reset, "system:param:update", "params", {"tenant"}, {"params"}, {})
    /\ OpIs(ParamOps.set, "system:param:update", "params", RowStates["params"], {"params"}, {})
  BY Kinds, ParamOpTypes DEF ParamOps, OpIs, Op, AnyRow, Creates, Conditional, Telling

LEMMA TemplateOpFacts ==
    /\ OpIs(TemplateOps.create, "system:template:create", "nothing", RowStates["nothing"], {"templates"}, {})
    /\ OpIs(TemplateOps.update, "system:template:update", "templates", RowStates["templates"], {"templates"}, {})
    /\ OpIs(TemplateOps.delete, "system:template:delete", "templates", RowStates["templates"], {"templates"}, {})
    /\ OpIs(TemplateOps.toggle, "system:template:update", "templates", RowStates["templates"], {"templates"}, {})
  BY Kinds, TemplateOpTypes DEF TemplateOps, OpIs, Op, AnyRow, Creates, Conditional, Telling

LEMMA NotificationOpFacts ==
    /\ OpIs(NotificationOps.markRead, "none", "notifications", RowStates["notifications"], {"notifications"}, {})
    /\ OpIs(NotificationOps.markAllRead, "none", "nothing", RowStates["nothing"], {"notifications"}, {})
  BY Kinds, NotificationOpTypes DEF NotificationOps, OpIs, Op, AnyRow, Creates, Conditional, Telling

\* For operations that any row allows.
AnyRowIs(op, perm, on, changes, tells) == OpIs(op, perm, on, RowStates[on], changes, tells)

\* What becomes of a key of data that an operation changes: it is refreshed or
\* written, it is a known gap, or the page does not show it and the feed tells.
Reached(op, refresh, puts, data, boards, d) ==
    \A k \in Shown[d] :
       \/ Covers(refresh, k) \/ k \in puts \/ KnownGap(op, k)
       \/ d \notin data /\ \E e \in op.tells : Covers(EventKeys(e), k)
       \/ /\ "vehicle.status" \in op.tells /\ ~OffBoards(k) /\ k \notin boards
          /\ \A c \in op.changes : k \in Shown[c] => c = "live"

Attends(b, data, boards) == \A d \in b.op.changes : Reached(b.op, b.refresh, b.puts, data, boards, d)

Dialogs == {"held", "loose", "stays", "none"}

Offered(b) ==
    /\ OpTyped(b.op) /\ b.dialog \in Dialogs
    /\ b.offered \subseteq RowStates[b.op.on] /\ b.warned \subseteq RowStates[b.op.on]
    /\ b.offered \subseteq b.op.from \cup b.warned
    /\ b.op.perm \in {"none", b.perm} \/ PermissionGap(b)
    /\ b.puts \subseteq {approvalKeys.rules.key, billingKeys.rules.key}

ButtonSound(b, data, boards) == Offered(b) /\ Attends(b, data, boards)

\* Data whose home is refreshed, or told of by an event and not shown here.
LEMMA HomeReached ==
    ASSUME NEW d \in DOMAIN Home, NEW op, NEW refresh, NEW puts, NEW data, NEW boards,
           Home[d] \in refresh \/ (d \notin data /\ \E e \in op.tells : Home[d] \in EventKeys(e))
    PROVE  Reached(op, refresh, puts, data, boards, d)
<1>1. \A k \in Shown[d] : IsPrefix(Home[d], k)
  BY Homed
<1>2. CASE Home[d] \in refresh
  BY <1>1, <1>2 DEF Reached, Covers
<1>3. CASE d \notin data /\ \E e \in op.tells : Home[d] \in EventKeys(e)
  <2>1. \A k \in Shown[d] : \E e \in op.tells : Covers(EventKeys(e), k)
    BY <1>1, <1>3 DEF Covers
  <2>. QED  BY <1>3, <2>1 DEF Reached
<1>. QED  BY <1>2, <1>3

\* Data of which all keys are known gaps.
LEMMA GapReached ==
    ASSUME NEW d, NEW op, NEW refresh, NEW puts, NEW data, NEW boards, \A k \in Shown[d] : KnownGap(op, k)
    PROVE  Reached(op, refresh, puts, data, boards, d)
  BY DEF Reached

LEMMA WarningSound ==
    ASSUME NEW op, NEW refresh, NEW closing \in Dialogs, NEW p, NEW offered, NEW warned, NEW data, NEW boards,
           NEW perm, NEW on, NEW from, NEW changes, NEW tells, OpIs(op, perm, on, from, changes, tells),
           perm \in {"none", p} \/ op = TenantOps.disable,
           offered \subseteq RowStates[on], warned \subseteq RowStates[on], offered \subseteq from \cup warned,
           \A d \in changes : Reached(op, refresh, {}, data, boards, d)
    PROVE  ButtonSound(Warning(Form(op, refresh, closing), p, offered, warned), data, boards)
<1>. DEFINE b == Warning(Form(op, refresh, closing), p, offered, warned)
<1>1. /\ b.op = op /\ b.refresh = refresh /\ b.puts = {} /\ b.dialog = closing /\ b.perm = p
      /\ b.offered = offered /\ b.warned = warned
  BY DEF Warning, Form
<1>. HIDE DEF b
<1>2. Offered(b)
  BY <1>1 DEF Offered, OpIs, PermissionGap
<1>3. op.changes = changes
  BY DEF OpIs
<1>4. Attends(b, data, boards)
  BY <1>1, <1>3 DEF Attends
<1>. QED  BY <1>2, <1>4 DEF ButtonSound, b

LEMMA ButtonIsSound ==
    ASSUME NEW op, NEW refresh, NEW closing \in Dialogs, NEW p, NEW offered, NEW data, NEW boards,
           NEW perm, NEW on, NEW from, NEW changes, NEW tells, OpIs(op, perm, on, from, changes, tells),
           perm \in {"none", p} \/ op = TenantOps.disable, offered \subseteq from,
           \A d \in changes : Reached(op, refresh, {}, data, boards, d)
    PROVE  ButtonSound(Button(Form(op, refresh, closing), p, offered), data, boards)
<1>1. offered \subseteq RowStates[on] /\ {} \subseteq RowStates[on] /\ offered \subseteq from \cup {}
  BY DEF OpTyped, OpIs
<1>. QED  BY <1>1, WarningSound DEF Button

LEMMA AlwaysSound ==
    ASSUME NEW op, NEW refresh, NEW closing \in Dialogs, NEW p, NEW data, NEW boards,
           NEW perm, NEW on, NEW changes, NEW tells, AnyRowIs(op, perm, on, changes, tells),
           perm = "none" \/ perm = p,
           \A d \in changes : Reached(op, refresh, {}, data, boards, d)
    PROVE  ButtonSound(Always(Form(op, refresh, closing), p), data, boards)
<1>1. Always(Form(op, refresh, closing), p) = Button(Form(op, refresh, closing), p, RowStates[on])
  BY DEF Always, Form, OpIs, AnyRowIs
<1>. QED  BY <1>1, ButtonIsSound DEF AnyRowIs

LEMMA PuttingSound ==
    ASSUME NEW op, NEW refresh, NEW closing \in Dialogs, NEW p, NEW keys, NEW data, NEW boards,
           NEW perm, NEW on, NEW changes, NEW tells, AnyRowIs(op, perm, on, changes, tells),
           perm = "none" \/ perm = p, keys \subseteq {approvalKeys.rules.key, billingKeys.rules.key},
           \A d \in changes : Reached(op, refresh, keys, data, boards, d)
    PROVE  ButtonSound(Always(Putting(Form(op, refresh, closing), keys), p), data, boards)
<1>. DEFINE b == Always(Putting(Form(op, refresh, closing), keys), p)
<1>1. /\ b.op = op /\ b.refresh = refresh /\ b.puts = keys /\ b.dialog = closing /\ b.perm = p
      /\ b.offered = RowStates[on] /\ b.warned = {}
  BY DEF Always, Button, Warning, Putting, Form, OpIs, AnyRowIs
<1>. HIDE DEF b
<1>2. Offered(b)
  BY <1>1 DEF Offered, OpIs, AnyRowIs
<1>3. op.changes = changes
  BY DEF OpIs, AnyRowIs
<1>4. Attends(b, data, boards)
  BY <1>1, <1>3 DEF Attends
<1>. QED  BY <1>2, <1>4 DEF ButtonSound, b

\* What the feed tells, and what it never puts in place.
LEMMA FeedFacts ==
    /\ notificationKeys.all \in EventKeys("notification.new") /\ billingKeys.all \in EventKeys("account.updated")
    /\ \A k \in {approvalKeys.rules.key, billingKeys.rules.key} : \A e : k \notin PatchedKeys(e)
    /\ \A k, e : k \in PatchedKeys(e) => ~OffBoards(k)
<1>1. notificationKeys.all \in EventKeys("notification.new") /\ billingKeys.all \in EventKeys("account.updated")
  BY DEF EventKeys
<1>2. \A k, e : k \in PatchedKeys(e) => ~OffBoards(k)
  BY DEF PatchedKeys, OffBoards
<1>. QED  BY <1>1, <1>2, ApprovalShown, BillingShown

---------------------------------------------------------------------------

\* Data that the queries of several files show: for each operation that changes
\* them, which of their keys it refreshes and which are known gaps.
LEMMA Gaps ==
    /\ \A k \in {approvalKeys.list.key, approvalKeys.detail.key, approvalKeys.availableVehicles.key} :
          KnownGap(ApprovalOps.create, k)
    /\ \A k \in {vehicleKeys.status.key, vehicleKeys.options.key, vehicleKeys.detail.key} : KnownGap(TripOps.start, k)
    /\ \A op \in {BookingOps.depart, BookingOps.complete} :
          KnownGap(op, vehicleKeys.options.key) /\ KnownGap(op, approvalKeys.availableVehicles.key)
    /\ \A op \in Members(VehicleOps) :
          KnownGap(op, approvalKeys.availableVehicles.key) /\ KnownGap(op, bookingKeys.availableVehicles.key)
    /\ \A op \in Members(ApprovalOps) \cup Members(TripOps) : KnownGap(op, bookingKeys.availableVehicles.key)
    /\ \A op \in Headcounts \cup {UserOps.update} :
          /\ KnownGap(op, deptKeys.tree.key)
          /\ KnownGap(op, roleKeys.list.key)
          /\ KnownGap(op, billingKeys.accountTree.key)
    /\ KnownGap(UserOps.assign, roleKeys.list.key)
    /\ \A op \in Headcounts \cup {DeptOps.create, DeptOps.delete} : KnownGap(op, tenantKeys.list.key)
    /\ \A op \in Members(DeptOps) : KnownGap(op, billingKeys.accountTree.key)
    /\ \A op \in Members(PileOps) : KnownGap(op, chargingKeys.pilesLive.key)
    /\ KnownGap(VehicleOps.delete, deviceKeys.list.key)
    /\ KnownGap(SettlementOps.generate, tripKeys.list.key)
  BY DEF KnownGap

LEMMA ApprovalsReached ==
    ASSUME NEW data, NEW boards, NEW refresh, approvalKeys.all \in refresh
    PROVE  \A op \in Members(ApprovalOps) \cup Members(TripOps) : Reached(op, refresh, {}, data, boards, "approvals")
<1>1. \A k \in Shown["approvals"] : Covers(refresh, k) \/ k = bookingKeys.availableVehicles.key
  BY ApprovalPrefixes, ShownFacts DEF Covers
<1>. QED  BY <1>1, Gaps DEF Reached

LEMMA NewApprovalReached ==
    ASSUME NEW data, NEW boards
    PROVE  Reached(ApprovalOps.create, {}, {}, data, boards, "approvals")
<1>1. \A k \in Shown["approvals"] : KnownGap(ApprovalOps.create, k)
  BY ApprovalOpTypes, ShownFacts, Gaps
<1>. QED  BY <1>1, GapReached

\* The trip pages refresh vehicles too, the form to start a trip does not.
LEMMA TripsReached ==
    ASSUME NEW data, NEW boards, NEW refresh, {tripKeys.all, approvalKeys.all} \subseteq refresh,
           NEW op, vehicleKeys.all \in refresh \/ op = TripOps.start
    PROVE  Reached(op, refresh, {}, data, boards, "trips")
<1>1. \A k \in Shown["trips"] : Covers(refresh, k) \/ (k = vehicleKeys.detail.key /\ op = TripOps.start)
  BY ApprovalPrefixes, TripPrefixes, VehiclePrefixes, ShownFacts DEF Covers
<1>. QED  BY <1>1, Gaps DEF Reached

LEMMA TripLiveReached ==
    ASSUME NEW data, NEW boards, NEW refresh, {approvalKeys.all, vehicleKeys.all} \subseteq refresh
    PROVE  \A op \in Members(TripOps) : Reached(op, refresh, {}, data, boards, "live")
<1>1. \A k \in Shown["live"] : Covers(refresh, k) \/ k = bookingKeys.availableVehicles.key
  BY ApprovalPrefixes, VehiclePrefixes, ShownFacts DEF Covers
<1>. QED  BY <1>1, Gaps DEF Reached

\* What is told of vehicles is put into the list of vehicles.
LEMMA BoardKeys ==
    /\ \A k \in {vehicleKeys.list.key, vehicleKeys.status.key, vehicleKeys.detail.key} : ~OffBoards(k)
    /\ vehicleKeys.list.key # vehicleKeys.status.key
    /\ \A d \in {"approvals", "trips", "tripEvents", "notifications", "bookings"} :
          vehicleKeys.list.key \notin Shown[d] /\ vehicleKeys.status.key \notin Shown[d]
    /\ vehicleKeys.detail.key \notin Shown["bookings"]
<1>1. \A k \in {vehicleKeys.list.key, vehicleKeys.status.key, vehicleKeys.detail.key} : ~OffBoards(k)
  BY DEF OffBoards, PatchedKeys
<1>2. vehicleKeys.list.key # vehicleKeys.status.key /\ vehicleKeys.list.key # vehicleKeys.detail.key
      /\ vehicleKeys.status.key # vehicleKeys.detail.key
  BY DEF vehicleKeys, Query
<1>. QED  BY <1>1, <1>2, ShownFacts, ApprovalShown, TripShown, NotificationShown, BookingShown

LEMMA StartLiveReached ==
    ASSUME NEW data, NEW refresh, approvalKeys.all \in refresh,
           "vehicle.status" \in TripOps.start.tells,
           TripOps.start.changes = {"approvals", "trips", "tripEvents", "live", "notifications"}
    PROVE  Reached(TripOps.start, refresh, {}, data, {vehicleKeys.status.key}, "live")
<1>1. \A k \in Shown["live"] :
         \/ Covers(refresh, k) \/ k = vehicleKeys.list.key \/ k = bookingKeys.availableVehicles.key
         \/ k \in {vehicleKeys.status.key, vehicleKeys.options.key, vehicleKeys.detail.key}
  BY ApprovalPrefixes, ShownFacts DEF Covers
<1>2. \A c \in TripOps.start.changes : vehicleKeys.list.key \in Shown[c] => c = "live"
  BY BoardKeys
<1>3. vehicleKeys.list.key \notin {vehicleKeys.status.key} /\ TripOps.start \in Members(TripOps)
  BY BoardKeys, TripOpTypes
<1>. QED  BY <1>1, <1>2, <1>3, Gaps, BoardKeys DEF Reached

LEMMA BookingLiveReached ==
    ASSUME NEW data, NEW refresh, bookingKeys.all \in refresh, NEW op \in {BookingOps.depart, BookingOps.complete},
           "vehicle.status" \in op.tells, op.changes = {"bookings", "live"}
    PROVE  Reached(op, refresh, {}, data, {}, "live")
<1>1. \A k \in Shown["live"] :
         \/ Covers(refresh, k) \/ k = vehicleKeys.options.key \/ k = approvalKeys.availableVehicles.key
         \/ k \in {vehicleKeys.status.key, vehicleKeys.list.key, vehicleKeys.detail.key}
  BY BookingPrefixes, ShownFacts DEF Covers
<1>2. \A k \in {vehicleKeys.status.key, vehicleKeys.list.key, vehicleKeys.detail.key} :
         \A c \in op.changes : k \in Shown[c] => c = "live"
  BY BoardKeys
<1>. QED  BY <1>1, <1>2, Gaps, BoardKeys DEF Reached

LEMMA VehiclesReached ==
    ASSUME NEW data, NEW boards, NEW refresh, vehicleKeys.all \in refresh
    PROVE  \A op \in Members(VehicleOps) : \A d \in {"vehicles", "live"} : Reached(op, refresh, {}, data, boards, d)
<1>1. \A d \in {"vehicles", "live"} : \A k \in Shown[d] :
         Covers(refresh, k) \/ k = approvalKeys.availableVehicles.key \/ k = bookingKeys.availableVehicles.key
  BY VehiclePrefixes, ShownFacts DEF Covers
<1>. QED  BY <1>1, Gaps DEF Reached

LEMMA PilesReached ==
    ASSUME NEW data, NEW boards, NEW refresh, pileKeys.all \in refresh
    PROVE  \A op \in Members(PileOps) : \A d \in {"piles", "pileLive"} : Reached(op, refresh, {}, data, boards, d)
<1>1. \A d \in {"piles", "pileLive"} : \A k \in Shown[d] : Covers(refresh, k) \/ k = chargingKeys.pilesLive.key
  BY PilePrefixes, ShownFacts DEF Covers
<1>. QED  BY <1>1, Gaps DEF Reached

LEMMA DeptsReached ==
    ASSUME NEW data, NEW boards, NEW refresh, deptKeys.all \in refresh
    PROVE  \A op \in Members(DeptOps) : Reached(op, refresh, {}, data, boards, "depts")
<1>1. \A k \in Shown["depts"] : Covers(refresh, k) \/ k = billingKeys.accountTree.key
  BY DeptPrefixes, ShownFacts DEF Covers
<1>. QED  BY <1>1, Gaps DEF Reached

\* Counts of users and departments are refreshed by nothing.
LEMMA CountsReached ==
    ASSUME NEW data, NEW boards, NEW refresh
    PROVE  /\ \A op \in Headcounts \cup {UserOps.update} : \A d \in {"members", "roleHolders"} :
                 Reached(op, refresh, {}, data, boards, d)
           /\ Reached(UserOps.assign, refresh, {}, data, boards, "roleHolders")
           /\ \A op \in Headcounts \cup {DeptOps.create, DeptOps.delete} :
                 Reached(op, refresh, {}, data, boards, "tenantSize")
<1>1. \A op \in Headcounts \cup {UserOps.update} : \A d \in {"members", "roleHolders"} :
         \A k \in Shown[d] : KnownGap(op, k)
  BY ShownFacts, Gaps
<1>2. \A k \in Shown["roleHolders"] : KnownGap(UserOps.assign, k)
  BY ShownFacts, Gaps
<1>3. \A op \in Headcounts \cup {DeptOps.create, DeptOps.delete} : \A k \in Shown["tenantSize"] : KnownGap(op, k)
  BY ShownFacts, Gaps
<1>. QED  BY <1>1, <1>2, <1>3, GapReached

\* Trips billed late, and the device of a vehicle deleted, are refreshed by nothing.
LEMMA LoneGapsReached ==
    ASSUME NEW data, NEW boards, NEW refresh
    PROVE  /\ Reached(SettlementOps.generate, refresh, {}, data, boards, "bills")
           /\ Reached(VehicleOps.delete, refresh, {}, data, boards, "devices")
<1>1. \A k \in Shown["bills"] : KnownGap(SettlementOps.generate, k)
  BY ShownFacts, Gaps
<1>2. \A k \in Shown["devices"] : KnownGap(VehicleOps.delete, k)
  BY ShownFacts, Gaps
<1>. QED  BY <1>1, <1>2, GapReached

---------------------------------------------------------------------------

\* The pages.  For each: what its queries show, and that its buttons are sound
\* beside it.

TripData == {"trips", "bills", "vehicles", "live", "users", "depts", "members"}

LEMMA TripShows == \A q \in TripScreen.shows : Fits(q, TripData, {})
<1>1. ASSUME NEW q \in TripScreen.shows
      PROVE  q \in {Polled(tripKeys.summary), tripKeys.list, vehicleKeys.options, userKeys.options, deptKeys.tree,
                    Polled(tripKeys.detail), Polled(tripKeys.track)}
  BY DEF TripScreen, Screen, TripSummaryBar, TripTable, TripFilters, useVehicleOptions, UserPicker, useDeptTree,
         TripDetailQueries, Part, Shows
<1>. QED  BY <1>1, TripShown, VehicleShown, UserShown, DeptShown, PolledQueries
             DEF ShowsOnly, Fits, TripData

LEMMA TripDoes == \A b \in TripScreen.does : ButtonSound(b, TripData, {})
<1>1. ButtonSound(Button(EndTripForm, "trip:manage", {"ongoing"}), TripData, {})
  <2>1. OpIs(TripOps.end, "trip:manage", "trips", {"ongoing"},
            {"trips", "bills", "periods", "tripEvents", "approvals", "live", "accounts", "postings", "notifications"},
            {"approval.updated", "notification.new", "vehicle.status", "trip.event", "trip.ended", "account.updated"})
    BY TripOpFacts
  <2>2. \A d \in {"bills", "periods", "accounts", "postings", "notifications"} :
           Reached(TripOps.end, useInvalidateTrip, {}, TripData, {}, d)
    BY <2>1, HomeReached, Homes, FeedFacts DEF useInvalidateTrip, OpIs, TripData
  <2>3. Reached(TripOps.end, useInvalidateTrip, {}, TripData, {}, "trips")
    BY TripsReached DEF useInvalidateTrip
  <2>4. Reached(TripOps.end, useInvalidateTrip, {}, TripData, {}, "tripEvents")
    BY GapReached, ShownFacts DEF useInvalidateTrip
  <2>5. Reached(TripOps.end, useInvalidateTrip, {}, TripData, {}, "approvals")
    BY ApprovalsReached, TripOpTypes DEF useInvalidateTrip
  <2>6. Reached(TripOps.end, useInvalidateTrip, {}, TripData, {}, "live")
    BY TripLiveReached, TripOpTypes DEF useInvalidateTrip
  <2>. QED  BY <2>1, <2>2, <2>3, <2>4, <2>5, <2>6, Kinds, ButtonIsSound DEF EndTripForm, Held, Dialogs
<1>2. ButtonSound(Button(CancelTripForm, "trip:manage", {"ongoing"}), TripData, {})
  <2>1. OpIs(TripOps.cancel, "trip:manage", "trips", {"ongoing"},
            {"trips", "tripEvents", "approvals", "live"},
            {"approval.updated", "vehicle.status", "trip.event", "trip.ended"})
    BY TripOpFacts
  <2>2. Reached(TripOps.cancel, useInvalidateTrip, {}, TripData, {}, "trips")
    BY TripsReached DEF useInvalidateTrip
  <2>3. Reached(TripOps.cancel, useInvalidateTrip, {}, TripData, {}, "tripEvents")
    BY GapReached, ShownFacts DEF useInvalidateTrip
  <2>4. Reached(TripOps.cancel, useInvalidateTrip, {}, TripData, {}, "approvals")
    BY ApprovalsReached, TripOpTypes DEF useInvalidateTrip
  <2>5. Reached(TripOps.cancel, useInvalidateTrip, {}, TripData, {}, "live")
    BY TripLiveReached, TripOpTypes DEF useInvalidateTrip
  <2>. QED  BY <2>1, <2>2, <2>3, <2>4, <2>5, Kinds, ButtonIsSound DEF CancelTripForm, Held, Dialogs
<1>. QED  BY <1>1, <1>2
         DEF TripScreen, Screen, TripSummaryBar, TripTable, TripFilters, TripDetailQueries,
         TripDetailActions, Part, Shows

ApprovalData == {"approvals", "trips", "vehicles", "live", "dicts", "users", "depts", "members"}

LEMMA ApprovalShows == \A q \in ApprovalScreen.shows : Fits(q, ApprovalData, {vehicleKeys.status.key})
<1>1. ASSUME NEW q \in ApprovalScreen.shows
      PROVE  q \in {approvalKeys.list, Polled(approvalKeys.todoCount), approvalKeys.detail,
                    approvalKeys.availableVehicles, dictKeys.byCode, vehicleKeys.status, vehicleKeys.options,
                    userKeys.options, deptKeys.tree}
  BY DEF ApprovalScreen, Screen, ApprovalList, ApprovalRowActions, ApprovalDetailBody, ApproveChoices,
         CreateApprovalChoices, CreateApprovalDrawer, useVehicleOptions, UserPicker, useDeptTree, Part, Shows
<1>. QED  BY <1>1, ApprovalShown, DictShown, VehicleShown, UserShown, DeptShown, PolledQueries
             DEF ShowsOnly, Fits, ApprovalData

LEMMA ApprovalDoes == \A b \in ApprovalScreen.does : ButtonSound(b, ApprovalData, {vehicleKeys.status.key})
<1>1. ButtonSound(Button(ApproveForm, "approval:approve", {"pending"}), ApprovalData, {vehicleKeys.status.key})
  <2>1. OpIs(ApprovalOps.approve, "approval:approve", "approvals", {"pending"},
            {"approvals", "notifications"}, {"approval.updated", "notification.new"})
    BY ApprovalOpFacts
  <2>2. Reached(ApprovalOps.approve, useInvalidateApproval,
                {}, ApprovalData, {vehicleKeys.status.key}, "notifications")
    BY <2>1, HomeReached, Homes, FeedFacts DEF useInvalidateApproval, OpIs, ApprovalData
  <2>3. Reached(ApprovalOps.approve, useInvalidateApproval,
                {}, ApprovalData, {vehicleKeys.status.key}, "approvals")
    BY ApprovalsReached, ApprovalOpTypes DEF useInvalidateApproval
  <2>. QED  BY <2>1, <2>2, <2>3, Kinds, ButtonIsSound DEF ApproveForm, Held, Dialogs
<1>2. ButtonSound(Button(RejectModal, "approval:approve", {"pending"}), ApprovalData, {vehicleKeys.status.key})
  <2>1. OpIs(ApprovalOps.reject, "approval:approve", "approvals", {"pending"},
            {"approvals", "notifications"}, {"approval.updated", "notification.new"})
    BY ApprovalOpFacts
  <2>2. Reached(ApprovalOps.reject, useInvalidateApproval,
                {}, ApprovalData, {vehicleKeys.status.key}, "notifications")
    BY <2>1, HomeReached, Homes, FeedFacts DEF useInvalidateApproval, OpIs, ApprovalData
  <2>3. Reached(ApprovalOps.reject, useInvalidateApproval,
                {}, ApprovalData, {vehicleKeys.status.key}, "approvals")
    BY ApprovalsReached, ApprovalOpTypes DEF useInvalidateApproval
  <2>. QED  BY <2>1, <2>2, <2>3, Kinds, ButtonIsSound DEF RejectModal, Held, Dialogs
<1>3. ButtonSound(Button(CancelModal, "approval:view", {"pending", "approved"}),
                  ApprovalData, {vehicleKeys.status.key})
  <2>1. OpIs(ApprovalOps.cancel, "approval:view", "approvals", {"pending", "approved"},
            {"approvals", "notifications"}, {"approval.updated", "notification.new"})
    BY ApprovalOpFacts
  <2>2. Reached(ApprovalOps.cancel, useInvalidateApproval,
                {}, ApprovalData, {vehicleKeys.status.key}, "notifications")
    BY <2>1, HomeReached, Homes, FeedFacts DEF useInvalidateApproval, OpIs, ApprovalData
  <2>3. Reached(ApprovalOps.cancel, useInvalidateApproval,
                {}, ApprovalData, {vehicleKeys.status.key}, "approvals")
    BY ApprovalsReached, ApprovalOpTypes DEF useInvalidateApproval
  <2>. QED  BY <2>1, <2>2, <2>3, Kinds, ButtonIsSound DEF CancelModal, Held, Dialogs
<1>4. ButtonSound(Button(StartTripForm, "trip:manage", {"approved"}), ApprovalData, {vehicleKeys.status.key})
  <2>1. OpIs(TripOps.start, "trip:manage", "approvals", {"approved"},
            {"approvals", "trips", "tripEvents", "live", "notifications"},
            {"approval.updated", "vehicle.status", "trip.event", "trip.started", "notification.new"})
    BY TripOpFacts
  <2>2. Reached(TripOps.start, {tripKeys.all, approvalKeys.all, dashboardKeys.all},
                {}, ApprovalData, {vehicleKeys.status.key}, "notifications")
    BY <2>1, HomeReached, Homes, FeedFacts DEF OpIs, ApprovalData
  <2>3. Reached(TripOps.start, {tripKeys.all, approvalKeys.all, dashboardKeys.all},
                {}, ApprovalData, {vehicleKeys.status.key}, "approvals")
    BY ApprovalsReached, TripOpTypes
  <2>4. Reached(TripOps.start, {tripKeys.all, approvalKeys.all, dashboardKeys.all},
                {}, ApprovalData, {vehicleKeys.status.key}, "trips")
    BY TripsReached
  <2>5. Reached(TripOps.start, {tripKeys.all, approvalKeys.all, dashboardKeys.all},
                {}, ApprovalData, {vehicleKeys.status.key}, "tripEvents")
    BY GapReached, ShownFacts
  <2>6. Reached(TripOps.start, {tripKeys.all, approvalKeys.all, dashboardKeys.all},
                {}, ApprovalData, {vehicleKeys.status.key}, "live")
    BY <2>1, StartLiveReached DEF OpIs
  <2>. QED  BY <2>1, <2>2, <2>3, <2>4, <2>5, <2>6, Kinds, ButtonIsSound DEF StartTripForm, Held, Dialogs
<1>5. ButtonSound(Always(CreateForm, "approval:create"), ApprovalData, {vehicleKeys.status.key})
  <2>1. AnyRowIs(ApprovalOps.create, "approval:create", "nothing",
            {"approvals", "notifications"}, {"approval.updated", "notification.new"})
    BY ApprovalOpFacts DEF AnyRowIs
  <2>2. Reached(ApprovalOps.create, {}, {}, ApprovalData, {vehicleKeys.status.key}, "notifications")
    BY <2>1, HomeReached, Homes, FeedFacts DEF OpIs, ApprovalData, AnyRowIs
  <2>3. Reached(ApprovalOps.create, {}, {}, ApprovalData, {vehicleKeys.status.key}, "approvals")
    BY NewApprovalReached
  <2>. QED  BY <2>1, <2>2, <2>3, AlwaysSound DEF CreateForm, Loose, Dialogs
<1>. QED  BY <1>1, <1>2, <1>3, <1>4, <1>5
         DEF ApprovalScreen, Screen, ApprovalList, ApprovalRowActions,
         ApprovalDetailBody, ApproveChoices, CreateApprovalChoices, CreateApprovalDrawer, ApprovalDetailActions,
         Part, Shows

ApprovalRulesData == {"approvalRules", "roles", "users"}

LEMMA ApprovalRulesShows == \A q \in ApprovalRulesScreen.shows : Fits(q, ApprovalRulesData, {})
<1>1. ASSUME NEW q \in ApprovalRulesScreen.shows
      PROVE  q \in {approvalKeys.rules, roleKeys.options, userKeys.options}
  BY DEF ApprovalRulesScreen, Screen, ApprovalRulesPage, useRoleOptions, UserPicker, Part, Shows
<1>. QED  BY <1>1, ApprovalShown, RoleShown, UserShown
             DEF ShowsOnly, Fits, ApprovalRulesData

LEMMA ApprovalRulesDoes == \A b \in ApprovalRulesScreen.does : ButtonSound(b, ApprovalRulesData, {})
<1>1. ButtonSound(Always(RulesForm, "approval:rule"), ApprovalRulesData, {})
  <2>1. AnyRowIs(SaveApprovalRules, "approval:rule", "nothing", {"approvalRules"}, {})
    BY Kinds, LooseOpTypes DEF SaveApprovalRules, OpIs, Op, AnyRowIs
  <2>2. Reached(SaveApprovalRules, {}, {approvalKeys.rules.key}, ApprovalRulesData, {}, "approvalRules")
    BY ShownFacts DEF Reached
  <2>. QED  BY <2>1, <2>2, PuttingSound DEF RulesForm, Direct, Dialogs
<1>. QED  BY <1>1
         DEF ApprovalRulesScreen, Screen, ApprovalRulesPage, Part, Shows

BookingData == {"bookings", "approvals", "vehicles", "live", "users", "depts", "members"}

LEMMA BookingShows == \A q \in BookingScreen.shows : Fits(q, BookingData, {})
<1>1. ASSUME NEW q \in BookingScreen.shows
      PROVE  q \in {bookingKeys.list, bookingKeys.availableVehicles, vehicleKeys.options, userKeys.options,
                    deptKeys.tree}
  BY DEF BookingScreen, Screen, BookingList, BookingDrawer, useVehicleOptions, UserPicker, useDeptTree, Part, Shows
<1>. QED  BY <1>1, BookingShown, VehicleShown, UserShown, DeptShown
             DEF ShowsOnly, Fits, BookingData

LEMMA BookingDoes == \A b \in BookingScreen.does : ButtonSound(b, BookingData, {})
<1>1. ButtonSound(Button(BookingForm.edit, "booking:update", Editable), BookingData, {})
  <2>1. OpIs(BookingOps.update, "booking:update", "bookings", {"reserved"}, {"bookings"}, {})
    BY BookingOpFacts
  <2>. QED  BY <2>1, HomeReached, Homes, Kinds, ButtonIsSound
               DEF BookingForm, Loose, Editable, InvalidateBooking, Dialogs
<1>2. ButtonSound(Button(BookingMutations.depart, "booking:update", {"reserved"}), BookingData, {})
  <2>1. OpIs(BookingOps.depart, "booking:update", "bookings", {"reserved"},
            {"bookings", "live"}, {"vehicle.status"})
    BY BookingOpFacts
  <2>2. Reached(BookingOps.depart, InvalidateBooking, {}, BookingData, {}, "bookings")
    BY HomeReached, Homes DEF InvalidateBooking
  <2>3. Reached(BookingOps.depart, InvalidateBooking, {}, BookingData, {}, "live")
    BY <2>1, BookingLiveReached DEF InvalidateBooking, OpIs
  <2>. QED  BY <2>1, <2>2, <2>3, Kinds, ButtonIsSound DEF BookingMutations, Direct, Dialogs
<1>3. ButtonSound(Button(BookingMutations.complete, "booking:update", {"departed"}), BookingData, {})
  <2>1. OpIs(BookingOps.complete, "booking:update", "bookings", {"departed"},
            {"bookings", "live"}, {"vehicle.status"})
    BY BookingOpFacts
  <2>2. Reached(BookingOps.complete, InvalidateBooking, {}, BookingData, {}, "bookings")
    BY HomeReached, Homes DEF InvalidateBooking
  <2>3. Reached(BookingOps.complete, InvalidateBooking, {}, BookingData, {}, "live")
    BY <2>1, BookingLiveReached DEF InvalidateBooking, OpIs
  <2>. QED  BY <2>1, <2>2, <2>3, Kinds, ButtonIsSound DEF BookingMutations, Direct, Dialogs
<1>4. ButtonSound(Button(BookingMutations.cancel, "booking:cancel", {"reserved"}), BookingData, {})
  <2>1. OpIs(BookingOps.cancel, "booking:cancel", "bookings", {"reserved"}, {"bookings"}, {})
    BY BookingOpFacts
  <2>. QED  BY <2>1, HomeReached, Homes, Kinds, ButtonIsSound DEF BookingMutations, Held, InvalidateBooking, Dialogs
<1>5. ButtonSound(Always(BookingForm.create, "booking:create"), BookingData, {})
  <2>1. AnyRowIs(BookingOps.create, "booking:create", "nothing", {"bookings"}, {})
    BY BookingOpFacts DEF AnyRowIs
  <2>. QED  BY <2>1, HomeReached, Homes, AlwaysSound DEF BookingForm, Loose, InvalidateBooking, Dialogs
<1>. QED  BY <1>1, <1>2, <1>3, <1>4, <1>5
         DEF BookingScreen, Screen, BookingList, BookingDrawer,
         BookingRowActions, BookingHeader, Part, Shows

DashboardData == {}

LEMMA DashboardShows == \A q \in DashboardScreen.shows : Fits(q, DashboardData, {})
<1>1. ASSUME NEW q \in DashboardScreen.shows
      PROVE  q \in {Polled(dashboardKeys.overview), Polled(vehicleKeys.status), Polled(chargingKeys.summary)}
  BY DEF DashboardScreen, Screen, DashboardFigures, DashboardFleet, ChargingCard, Part, Shows
<1>. QED  BY <1>1, PolledQueries
             DEF ShowsOnly, Fits, DashboardData

LEMMA DashboardDoes == DashboardScreen.does = {}
  BY DEF DashboardScreen, Screen, DashboardFigures, DashboardFleet, ChargingCard, Part, Shows

NotificationData == {"notifications"}

LEMMA NotificationShows == \A q \in NotificationScreen.shows : Fits(q, NotificationData, {})
<1>1. ASSUME NEW q \in NotificationScreen.shows
      PROVE  q \in {notificationKeys.list, notificationKeys.unread}
  BY DEF NotificationScreen, Screen, NotificationsPage, NotificationBell, Part, Shows
<1>. QED  BY <1>1, NotificationShown
             DEF ShowsOnly, Fits, NotificationData

LEMMA NotificationDoes == \A b \in NotificationScreen.does : ButtonSound(b, NotificationData, {})
<1>1. ButtonSound(Button(MarkRead, "none", {"unread"}), NotificationData, {})
  <2>1. OpIs(NotificationOps.markRead, "none", "notifications", RowStates["notifications"], {"notifications"}, {})
    BY NotificationOpFacts
  <2>. QED  BY <2>1, HomeReached, Homes, Kinds, ButtonIsSound DEF MarkRead, Direct, InvalidateNotifications, Dialogs
<1>2. ButtonSound(Always(MarkAllRead, "none"), NotificationData, {})
  <2>1. AnyRowIs(NotificationOps.markAllRead, "none", "nothing", {"notifications"}, {})
    BY NotificationOpFacts DEF AnyRowIs
  <2>. QED  BY <2>1, HomeReached, Homes, AlwaysSound DEF MarkAllRead, Direct, InvalidateNotifications, Dialogs
<1>. QED  BY <1>1, <1>2
         DEF NotificationScreen, Screen, NotificationsPage, NotificationBell, Part, Shows

ChargingData == {"vehicles", "live", "users", "transactions", "meter", "piles", "pileLive", "depts", "members"}

LEMMA ChargingShows == \A q \in ChargingScreen.shows : Fits(q, ChargingData, {})
<1>1. ASSUME NEW q \in ChargingScreen.shows
      PROVE  q \in {Polled(chargingKeys.pilesLive), Polled(chargingKeys.txList), vehicleKeys.options,
                    userKeys.options, chargingKeys.txList, chargingKeys.pilesLive, deptKeys.tree,
                    Polled(chargingKeys.txDetail), Polled(chargingKeys.meterValues), Polled(chargingKeys.summary)}
  BY DEF ChargingScreen, Screen, PilesLiveMap, PilesLiveTab, ReviewTab, ReviewChoices, ChargeTransactionTable,
         ChargeTransactionFilters, TransactionDetailQueries, TransactionDetailActions, ChargingSummaryBar,
         usePileOptions, useVehicleOptions, UserPicker, useDeptTree, Part, Shows
<1>. QED  BY <1>1, VehicleShown, UserShown, ChargingShown, DeptShown, PolledQueries
             DEF ShowsOnly, Fits, ChargingData

LEMMA ChargingDoes == \A b \in ChargingScreen.does : ButtonSound(b, ChargingData, {})
<1>1. ButtonSound(Button(RemoteStartForm, "charging:manage", {"free"}), ChargingData, {})
  <2>1. OpIs(ChargingOps.remoteStart, "charging:manage", "connectors", {"free"}, {}, {})
    BY ChargingOpFacts
  <2>. QED  BY <2>1, Kinds, ButtonIsSound DEF RemoteStartForm, Held, Dialogs
<1>2. ButtonSound(Button(RemoteStopDialog, "charging:manage", {"charging"}), ChargingData, {})
  <2>1. OpIs(ChargingOps.remoteStop, "charging:manage", "transactions", {"charging"}, {}, {})
    BY ChargingOpFacts
  <2>. QED  BY <2>1, Kinds, ButtonIsSound DEF RemoteStopDialog, Held, Dialogs
<1>3. ButtonSound(Button(ReviewForm, "charging:review", {"pending"}), ChargingData, {})
  <2>1. OpIs(ChargingOps.review, "charging:review", "transactions", {"pending"},
            {"transactions", "periods", "accounts", "postings", "notifications"},
            {"account.updated", "notification.new"})
    BY ChargingOpFacts
  <2>2. \A d \in {"transactions", "periods", "accounts", "postings", "notifications"} :
           Reached(ChargingOps.review, useInvalidateCharging, {}, ChargingData, {}, d)
    BY <2>1, HomeReached, Homes, FeedFacts DEF useInvalidateCharging, OpIs, ChargingData
  <2>. QED  BY <2>1, <2>2, Kinds, ButtonIsSound DEF ReviewForm, Held, Dialogs
<1>. QED  BY <1>1, <1>2, <1>3
         DEF ChargingScreen, Screen, PilesLiveMap, PilesLiveTab, ReviewTab,
         ReviewChoices, ChargeTransactionTable, ChargeTransactionFilters, TransactionDetailQueries,
         TransactionDetailActions, ChargingSummaryBar, ConnectorRow, OngoingTransaction, Part, Shows

AccountData == {"accounts", "postings", "depts", "members", "users"}

LEMMA AccountShows == \A q \in AccountScreen.shows : Fits(q, AccountData, {})
<1>1. ASSUME NEW q \in AccountScreen.shows
      PROVE  q \in {billingKeys.accountTree, deptKeys.tree, userKeys.options, billingKeys.account,
                    billingKeys.accountTransactions, billingKeys.transactions}
  BY DEF AccountScreen, Screen, BillingAccountsPage, AllocateChoices, AccountDetailBody, AccountTransactionsTab,
         UserPicker, useDeptTree, Part, Shows
<1>. QED  BY <1>1, BillingShown, DeptShown, UserShown
             DEF ShowsOnly, Fits, AccountData

LEMMA AccountDoes == \A b \in AccountScreen.does : ButtonSound(b, AccountData, {})
<1>1. ButtonSound(Always(RechargeForm, "billing:account:recharge"), AccountData, {})
  <2>1. AnyRowIs(AccountOps.recharge, "billing:account:recharge", "nothing",
            {"accounts", "postings"}, {"account.updated"})
    BY AccountOpFacts DEF AnyRowIs
  <2>. QED  BY <2>1, HomeReached, Homes, AlwaysSound DEF RechargeForm, Loose, InvalidateBilling, Dialogs
<1>2. ButtonSound(Always(AllocateForm, "billing:account:allocate"), AccountData, {})
  <2>1. AnyRowIs(AccountOps.allocate, "billing:account:allocate", "accounts",
            {"accounts", "postings"}, {"account.updated"})
    BY AccountOpFacts DEF AnyRowIs
  <2>. QED  BY <2>1, HomeReached, Homes, AlwaysSound DEF AllocateForm, Loose, InvalidateBilling, Dialogs
<1>3. ButtonSound(Always(AdjustForm, "billing:account:adjust"), AccountData, {})
  <2>1. AnyRowIs(AccountOps.adjust, "billing:account:adjust", "accounts",
            {"accounts", "postings", "notifications"}, {"account.updated", "notification.new"})
    BY AccountOpFacts DEF AnyRowIs
  <2>2. \A d \in {"accounts", "postings", "notifications"} :
           Reached(AccountOps.adjust, InvalidateBilling, {}, AccountData, {}, d)
    BY <2>1, HomeReached, Homes, FeedFacts DEF InvalidateBilling, OpIs, AccountData, AnyRowIs
  <2>. QED  BY <2>1, <2>2, AlwaysSound DEF AdjustForm, Loose, Dialogs
<1>4. ButtonSound(Always(EditForm, "billing:account:adjust"), AccountData, {})
  <2>1. AnyRowIs(AccountOps.update, "billing:account:adjust", "accounts", {"accounts"}, {})
    BY AccountOpFacts DEF AnyRowIs
  <2>. QED  BY <2>1, HomeReached, Homes, AlwaysSound DEF EditForm, Loose, InvalidateBilling, Dialogs
<1>. QED  BY <1>1, <1>2, <1>3, <1>4
         DEF AccountScreen, Screen, BillingAccountsPage, AllocateChoices,
         AccountDetailBody, AccountTransactionsTab, AccountTree, Part, Shows

MyAccountData == {"accounts", "postings"}

LEMMA MyAccountShows == \A q \in MyAccountScreen.shows : Fits(q, MyAccountData, {})
<1>1. ASSUME NEW q \in MyAccountScreen.shows
      PROVE  q \in {billingKeys.myAccount}
  BY DEF MyAccountScreen, Screen, MyAccountPage, Part, Shows
<1>. QED  BY <1>1, BillingShown
             DEF ShowsOnly, Fits, MyAccountData

LEMMA MyAccountDoes == MyAccountScreen.does = {}
  BY DEF MyAccountScreen, Screen, MyAccountPage, Part, Shows

BillingRuleData == {"rules"}

LEMMA BillingRuleShows == \A q \in BillingRuleScreen.shows : Fits(q, BillingRuleData, {})
<1>1. ASSUME NEW q \in BillingRuleScreen.shows
      PROVE  q \in {billingKeys.rules, billingKeys.ruleTemplate}
  BY DEF BillingRuleScreen, Screen, BillingRuleList, BillingRuleActions, SimulatePanel, Part, Shows
<1>. QED  BY <1>1, BillingShown
             DEF ShowsOnly, Fits, BillingRuleData

LEMMA BillingRuleDoes == \A b \in BillingRuleScreen.does : ButtonSound(b, BillingRuleData, {})
<1>1. ButtonSound(Always(RuleEditor.create, "billing:rule:update"), BillingRuleData, {})
  <2>1. AnyRowIs(RuleOps.create, "billing:rule:update", "nothing", {"rules"}, {})
    BY RuleOpFacts DEF AnyRowIs
  <2>. QED  BY <2>1, HomeReached, Homes, PuttingSound DEF RuleEditor, Direct, InvalidateBilling, Dialogs
<1>2. ButtonSound(Always(RuleEditor.edit, "billing:rule:update"), BillingRuleData, {})
  <2>1. AnyRowIs(RuleOps.update, "billing:rule:update", "rules", {"rules"}, {})
    BY RuleOpFacts DEF AnyRowIs
  <2>. QED  BY <2>1, HomeReached, Homes, PuttingSound DEF RuleEditor, Direct, InvalidateBilling, Dialogs
<1>3. ButtonSound(Button(ActivateRule, "billing:rule:update", {"enabled"}), BillingRuleData, {})
  <2>1. OpIs(RuleOps.activate, "billing:rule:update", "rules", {"default", "enabled"}, {"rules"}, {})
    BY RuleOpFacts
  <2>. QED  BY <2>1, HomeReached, Homes, Kinds, ButtonIsSound DEF ActivateRule, Held, InvalidateBilling, Dialogs
<1>4. ButtonSound(Button(RemoveRule, "billing:rule:update", {"enabled", "disabled"}), BillingRuleData, {})
  <2>1. OpIs(RuleOps.delete, "billing:rule:update", "rules", {"enabled", "disabled"}, {"rules"}, {})
    BY RuleOpFacts
  <2>. QED  BY <2>1, HomeReached, Homes, Kinds, ButtonIsSound DEF RemoveRule, Held, InvalidateBilling, Dialogs
<1>. QED  BY <1>1, <1>2, <1>3, <1>4
         DEF BillingRuleScreen, Screen, BillingRuleList, BillingRuleActions,
         SimulatePanel, RuleEditorFields, Part, Shows

SettlementData == {"periods", "settlements"}

LEMMA SettlementShows == \A q \in SettlementScreen.shows : Fits(q, SettlementData, {})
<1>1. ASSUME NEW q \in SettlementScreen.shows
      PROVE  q \in {billingKeys.settlementPeriods, billingKeys.settlements, billingKeys.settlement}
  BY DEF SettlementScreen, Screen, SettlementQueries, SettlementActions, SettlementDetailBody, Part, Shows
<1>. QED  BY <1>1, BillingShown
             DEF ShowsOnly, Fits, SettlementData

LEMMA SettlementDoes == \A b \in SettlementScreen.does : ButtonSound(b, SettlementData, {})
<1>1. ButtonSound(Button(GenerateSettlement, "billing:settlement:generate", {"none", "draft"}), SettlementData, {})
  <2>1. OpIs(SettlementOps.generate, "billing:settlement:generate", "settlements", {"none", "draft"},
            {"settlements", "bills", "accounts", "postings", "notifications"},
            {"account.updated", "notification.new"})
    BY SettlementOpFacts
  <2>2. \A d \in {"settlements", "accounts", "postings", "notifications"} :
           Reached(SettlementOps.generate, InvalidateSettlements, {}, SettlementData, {}, d)
    BY <2>1, HomeReached, Homes, FeedFacts DEF InvalidateSettlements, OpIs, SettlementData
  <2>3. Reached(SettlementOps.generate, InvalidateSettlements, {}, SettlementData, {}, "bills")
    BY LoneGapsReached DEF InvalidateSettlements
  <2>. QED  BY <2>1, <2>2, <2>3, Kinds, ButtonIsSound DEF GenerateSettlement, Held, Dialogs
<1>2. ButtonSound(Button(ConfirmSettlement, "billing:settlement:confirm", {"draft"}), SettlementData, {})
  <2>1. OpIs(SettlementOps.confirm, "billing:settlement:confirm", "settlements", {"draft", "confirmed"},
            {"settlements"}, {})
    BY SettlementOpFacts
  <2>. QED  BY <2>1, HomeReached, Homes, Kinds, ButtonIsSound
               DEF ConfirmSettlement, Held, InvalidateSettlements, Dialogs
<1>. QED  BY <1>1, <1>2
         DEF SettlementScreen, Screen, SettlementQueries, SettlementActions,
         SettlementDetailBody, Part, Shows

VehicleData == {"vehicles", "live", "gateways", "depts", "members", "trips", "track"}

LEMMA VehicleShows ==
    \A q \in VehicleScreen.shows : Fits(q, VehicleData, {vehicleKeys.list.key, vehicleKeys.detail.key})
<1>1. ASSUME NEW q \in VehicleScreen.shows
      PROVE  q \in {vehicleKeys.list, deptKeys.tree, vehicleKeys.detail, vehicleKeys.telemetry}
  BY DEF VehicleScreen, Screen, VehicleTable, VehicleActions, VehicleDetailBody, useDeptTree, Part, Shows
<1>. QED  BY <1>1, VehicleShown, DeptShown
             DEF ShowsOnly, Fits, VehicleData

LEMMA VehicleDoes ==
    \A b \in VehicleScreen.does : ButtonSound(b, VehicleData, {vehicleKeys.list.key, vehicleKeys.detail.key})
<1>1. ButtonSound(Always(VehicleForm.create, "asset:vehicle:create"),
                  VehicleData, {vehicleKeys.list.key, vehicleKeys.detail.key})
  <2>1. AnyRowIs(VehicleOps.create, "asset:vehicle:create", "nothing", {"vehicles", "live"}, {})
    BY VehicleOpFacts DEF AnyRowIs
  <2>2. \A d \in {"vehicles", "live"} :
           Reached(VehicleOps.create, InvalidateVehicles,
                   {}, VehicleData, {vehicleKeys.list.key, vehicleKeys.detail.key}, d)
    BY VehiclesReached, VehicleOpTypes DEF InvalidateVehicles
  <2>. QED  BY <2>1, <2>2, AlwaysSound DEF VehicleForm, Loose, Dialogs
<1>2. ButtonSound(Always(VehicleForm.edit, "asset:vehicle:update"),
                  VehicleData, {vehicleKeys.list.key, vehicleKeys.detail.key})
  <2>1. AnyRowIs(VehicleOps.update, "asset:vehicle:update", "vehicles", {"vehicles", "live"}, {"vehicle.status"})
    BY VehicleOpFacts DEF AnyRowIs
  <2>2. \A d \in {"vehicles", "live"} :
           Reached(VehicleOps.update, InvalidateVehicles,
                   {}, VehicleData, {vehicleKeys.list.key, vehicleKeys.detail.key}, d)
    BY VehiclesReached, VehicleOpTypes DEF InvalidateVehicles
  <2>. QED  BY <2>1, <2>2, AlwaysSound DEF VehicleForm, Loose, Dialogs
<1>3. ButtonSound(Warning(RemoveVehicle, "asset:vehicle:delete", {"free", "on_trip"}, {"on_trip"}),
                  VehicleData, {vehicleKeys.list.key, vehicleKeys.detail.key})
  <2>1. OpIs(VehicleOps.delete, "asset:vehicle:delete", "vehicles", {"free"}, {"vehicles", "devices", "live"}, {})
    BY VehicleOpFacts
  <2>2. \A d \in {"vehicles", "live"} :
           Reached(VehicleOps.delete, InvalidateVehicles,
                   {}, VehicleData, {vehicleKeys.list.key, vehicleKeys.detail.key}, d)
    BY VehiclesReached, VehicleOpTypes DEF InvalidateVehicles
  <2>3. Reached(VehicleOps.delete, InvalidateVehicles,
                {}, VehicleData, {vehicleKeys.list.key, vehicleKeys.detail.key}, "devices")
    BY LoneGapsReached DEF InvalidateVehicles
  <2>. QED  BY <2>1, <2>2, <2>3, Kinds, WarningSound DEF RemoveVehicle, Held, Dialogs
<1>. QED  BY <1>1, <1>2, <1>3
         DEF VehicleScreen, Screen, VehicleTable, VehicleActions, VehicleDetailBody,
         Part, Shows

DeviceData == {"devices", "vehicles", "live"}

LEMMA DeviceShows == \A q \in DeviceScreen.shows : Fits(q, DeviceData, {})
<1>1. ASSUME NEW q \in DeviceScreen.shows
      PROVE  q \in {deviceKeys.list, vehicleKeys.options}
  BY DEF DeviceScreen, Screen, DeviceTable, DeviceActions, useVehicleOptions, Part, Shows
<1>. QED  BY <1>1, DeviceShown, VehicleShown
             DEF ShowsOnly, Fits, DeviceData

LEMMA DeviceDoes == \A b \in DeviceScreen.does : ButtonSound(b, DeviceData, {})
<1>1. ButtonSound(Always(DeviceCreateForm, "asset:device:create"), DeviceData, {})
  <2>1. AnyRowIs(DeviceOps.create, "asset:device:create", "nothing", {"devices", "gateways"}, {})
    BY DeviceOpFacts DEF AnyRowIs
  <2>. QED  BY <2>1, HomeReached, Homes, AlwaysSound DEF DeviceCreateForm, Loose, InvalidateDevices, Dialogs
<1>2. ButtonSound(Always(DeviceEditForm, "asset:device:update"), DeviceData, {})
  <2>1. AnyRowIs(DeviceOps.update, "asset:device:update", "devices", {"devices"}, {})
    BY DeviceOpFacts DEF AnyRowIs
  <2>. QED  BY <2>1, HomeReached, Homes, AlwaysSound DEF DeviceEditForm, Loose, InvalidateDevices, Dialogs
<1>3. ButtonSound(Button(DeviceMutations.unbind, "asset:device:update", {"bound"}), DeviceData, {})
  <2>1. OpIs(DeviceOps.unbind, "asset:device:update", "devices", {"bound"}, {"devices", "gateways"}, {})
    BY DeviceOpFacts
  <2>. QED  BY <2>1, HomeReached, Homes, Kinds, ButtonIsSound DEF DeviceMutations, Held, InvalidateDevices, Dialogs
<1>4. ButtonSound(Button(BindVehicleModal, "asset:device:update", {"unbound"}), DeviceData, {})
  <2>1. OpIs(DeviceOps.bind, "asset:device:update", "devices", RowStates["devices"], {"devices", "gateways"}, {})
    BY DeviceOpFacts
  <2>. QED  BY <2>1, HomeReached, Homes, Kinds, ButtonIsSound DEF BindVehicleModal, Loose, InvalidateDevices, Dialogs
<1>5. ButtonSound(Always(DeviceMutations.rotate, "asset:device:update"), DeviceData, {})
  <2>1. AnyRowIs(DeviceOps.rotate, "asset:device:update", "devices", {"devices"}, {})
    BY DeviceOpFacts DEF AnyRowIs
  <2>. QED  BY <2>1, HomeReached, Homes, AlwaysSound DEF DeviceMutations, Held, InvalidateDevices, Dialogs
<1>6. ButtonSound(Always(DeviceMutations.remove, "asset:device:delete"), DeviceData, {})
  <2>1. AnyRowIs(DeviceOps.delete, "asset:device:delete", "devices", {"devices", "gateways"}, {})
    BY DeviceOpFacts DEF AnyRowIs
  <2>. QED  BY <2>1, HomeReached, Homes, AlwaysSound DEF DeviceMutations, Held, InvalidateDevices, Dialogs
<1>. QED  BY <1>1, <1>2, <1>3, <1>4, <1>5, <1>6
         DEF DeviceScreen, Screen, DeviceTable, DeviceActions,
         Part, Shows

CardData == {"cards", "users"}

LEMMA CardShows == \A q \in CardScreen.shows : Fits(q, CardData, {})
<1>1. ASSUME NEW q \in CardScreen.shows
      PROVE  q \in {cardKeys.list, userKeys.list}
  BY DEF CardScreen, Screen, CardTable, CardActions, CardUserPicker, Part, Shows
<1>. QED  BY <1>1, CardShown, UserShown
             DEF ShowsOnly, Fits, CardData

LEMMA CardDoes == \A b \in CardScreen.does : ButtonSound(b, CardData, {})
<1>1. ButtonSound(Always(CardIssueForm, "asset:card:create"), CardData, {})
  <2>1. AnyRowIs(CardOps.create, "asset:card:create", "nothing", {"cards"}, {})
    BY CardOpFacts DEF AnyRowIs
  <2>. QED  BY <2>1, HomeReached, Homes, AlwaysSound DEF CardIssueForm, Loose, InvalidateCards, Dialogs
<1>2. ButtonSound(Always(CardEditForm, "asset:card:update"), CardData, {})
  <2>1. AnyRowIs(CardOps.update, "asset:card:update", "cards", {"cards"}, {})
    BY CardOpFacts DEF AnyRowIs
  <2>. QED  BY <2>1, HomeReached, Homes, AlwaysSound DEF CardEditForm, Loose, InvalidateCards, Dialogs
<1>3. ButtonSound(Button(CardMutations.unbind, "asset:card:update", {"bound"}), CardData, {})
  <2>1. OpIs(CardOps.unbind, "asset:card:update", "cards", RowStates["cards"], {"cards"}, {})
    BY CardOpFacts
  <2>. QED  BY <2>1, HomeReached, Homes, Kinds, ButtonIsSound DEF CardMutations, Held, InvalidateCards, Dialogs
<1>4. ButtonSound(Button(BindUserModal, "asset:card:update", {"unbound"}), CardData, {})
  <2>1. OpIs(CardOps.bind, "asset:card:update", "cards", RowStates["cards"], {"cards"}, {})
    BY CardOpFacts
  <2>. QED  BY <2>1, HomeReached, Homes, Kinds, ButtonIsSound DEF BindUserModal, Loose, InvalidateCards, Dialogs
<1>5. ButtonSound(Button(CardMutations.loss, "asset:card:update", {"bound", "unbound"}), CardData, {})
  <2>1. OpIs(CardOps.loss, "asset:card:update", "cards", RowStates["cards"], {"cards"}, {})
    BY CardOpFacts
  <2>. QED  BY <2>1, HomeReached, Homes, Kinds, ButtonIsSound DEF CardMutations, Held, InvalidateCards, Dialogs
<1>6. ButtonSound(Always(CardMutations.remove, "asset:card:delete"), CardData, {})
  <2>1. AnyRowIs(CardOps.delete, "asset:card:delete", "cards", {"cards"}, {})
    BY CardOpFacts DEF AnyRowIs
  <2>. QED  BY <2>1, HomeReached, Homes, AlwaysSound DEF CardMutations, Held, InvalidateCards, Dialogs
<1>. QED  BY <1>1, <1>2, <1>3, <1>4, <1>5, <1>6
         DEF CardScreen, Screen, CardTable, CardActions, Part,
         Shows

PileData == {"piles"}

LEMMA PileShows == \A q \in PileScreen.shows : Fits(q, PileData, {})
<1>1. ASSUME NEW q \in PileScreen.shows
      PROVE  q \in {pileKeys.map, pileKeys.list}
  BY DEF PileScreen, Screen, PilesMap, PileTable, PileActions, Part, Shows
<1>. QED  BY <1>1, PileShown
             DEF ShowsOnly, Fits, PileData

LEMMA PileDoes == \A b \in PileScreen.does : ButtonSound(b, PileData, {})
<1>1. ButtonSound(Always(PileForm.create, "asset:pile:create"), PileData, {})
  <2>1. AnyRowIs(PileOps.create, "asset:pile:create", "nothing", {"piles", "pileLive"}, {})
    BY PileOpFacts DEF AnyRowIs
  <2>2. \A d \in {"piles", "pileLive"} : Reached(PileOps.create, InvalidatePiles, {}, PileData, {}, d)
    BY PilesReached, PileOpTypes DEF InvalidatePiles
  <2>. QED  BY <2>1, <2>2, AlwaysSound DEF PileForm, Loose, Dialogs
<1>2. ButtonSound(Always(PileForm.edit, "asset:pile:update"), PileData, {})
  <2>1. AnyRowIs(PileOps.update, "asset:pile:update", "piles", {"piles", "pileLive"}, {})
    BY PileOpFacts DEF AnyRowIs
  <2>2. \A d \in {"piles", "pileLive"} : Reached(PileOps.update, InvalidatePiles, {}, PileData, {}, d)
    BY PilesReached, PileOpTypes DEF InvalidatePiles
  <2>. QED  BY <2>1, <2>2, AlwaysSound DEF PileForm, Loose, Dialogs
<1>3. ButtonSound(Always(RemovePile, "asset:pile:delete"), PileData, {})
  <2>1. AnyRowIs(PileOps.delete, "asset:pile:delete", "piles", {"piles", "pileLive"}, {})
    BY PileOpFacts DEF AnyRowIs
  <2>2. \A d \in {"piles", "pileLive"} : Reached(PileOps.delete, InvalidatePiles, {}, PileData, {}, d)
    BY PilesReached, PileOpTypes DEF InvalidatePiles
  <2>. QED  BY <2>1, <2>2, AlwaysSound DEF RemovePile, Held, Dialogs
<1>. QED  BY <1>1, <1>2, <1>3
         DEF PileScreen, Screen, PilesMap, PileTable, PileActions, Part, Shows

UserData == {"users", "depts", "members", "roles"}

LEMMA UserShows == \A q \in UserScreen.shows : Fits(q, UserData, {})
<1>1. ASSUME NEW q \in UserScreen.shows
      PROVE  q \in {userKeys.list, deptKeys.tree, roleKeys.options}
  BY DEF UserScreen, Screen, UserTable, UserActions, useDeptTree, useRoleOptions, Part, Shows
<1>. QED  BY <1>1, UserShown, DeptShown, RoleShown
             DEF ShowsOnly, Fits, UserData

LEMMA UserDoes == \A b \in UserScreen.does : ButtonSound(b, UserData, {})
<1>1. ButtonSound(Always(UserForm.create, "system:user:create"), UserData, {})
  <2>1. AnyRowIs(UserOps.create, "system:user:create", "nothing",
            {"users", "members", "roleHolders", "tenantSize"}, {})
    BY UserOpFacts DEF AnyRowIs
  <2>2. Reached(UserOps.create, InvalidateUsers, {}, UserData, {}, "users")
    BY HomeReached, Homes DEF InvalidateUsers
  <2>3. \A d \in {"members", "roleHolders", "tenantSize"} :
           Reached(UserOps.create, InvalidateUsers, {}, UserData, {}, d)
    BY CountsReached DEF Headcounts, InvalidateUsers
  <2>. QED  BY <2>1, <2>2, <2>3, AlwaysSound DEF UserForm, Loose, Dialogs
<1>2. ButtonSound(Always(UserForm.edit, "system:user:update"), UserData, {})
  <2>1. AnyRowIs(UserOps.update, "system:user:update", "users", {"users", "members", "roleHolders"}, {})
    BY UserOpFacts DEF AnyRowIs
  <2>2. Reached(UserOps.update, InvalidateUsers, {}, UserData, {}, "users")
    BY HomeReached, Homes DEF InvalidateUsers
  <2>3. \A d \in {"members", "roleHolders"} : Reached(UserOps.update, InvalidateUsers, {}, UserData, {}, d)
    BY CountsReached DEF Headcounts, InvalidateUsers
  <2>. QED  BY <2>1, <2>2, <2>3, AlwaysSound DEF UserForm, Loose, Dialogs
<1>3. ButtonSound(Always(AssignRolesModal, "system:user:assign-roles"), UserData, {})
  <2>1. AnyRowIs(UserOps.assign, "system:user:assign-roles", "users", {"users", "roleHolders"}, {})
    BY UserOpFacts DEF AnyRowIs
  <2>2. Reached(UserOps.assign, InvalidateUsers, {}, UserData, {}, "users")
    BY HomeReached, Homes DEF InvalidateUsers
  <2>3. Reached(UserOps.assign, InvalidateUsers, {}, UserData, {}, "roleHolders")
    BY CountsReached DEF Headcounts, InvalidateUsers
  <2>. QED  BY <2>1, <2>2, <2>3, AlwaysSound DEF AssignRolesModal, Loose, Dialogs
<1>4. ButtonSound(Always(ResetPasswordModal, "system:user:reset-password"), UserData, {})
  <2>1. AnyRowIs(UserOps.reset, "system:user:reset-password", "users", {}, {})
    BY UserOpFacts DEF AnyRowIs
  <2>. QED  BY <2>1, AlwaysSound DEF ResetPasswordModal, Dialogs
<1>5. ButtonSound(Always(ImportModal, "system:user:import"), UserData, {})
  <2>1. AnyRowIs(UserOps.import, "system:user:import", "nothing",
            {"users", "members", "roleHolders", "tenantSize"}, {})
    BY UserOpFacts DEF AnyRowIs
  <2>2. Reached(UserOps.import, InvalidateUsers, {}, UserData, {}, "users")
    BY HomeReached, Homes DEF InvalidateUsers
  <2>3. \A d \in {"members", "roleHolders", "tenantSize"} :
           Reached(UserOps.import, InvalidateUsers, {}, UserData, {}, d)
    BY CountsReached DEF Headcounts, InvalidateUsers
  <2>. QED  BY <2>1, <2>2, <2>3, AlwaysSound DEF ImportModal, Dialogs
<1>6. ButtonSound(Button(RemoveUser, "system:user:delete", {"other"}), UserData, {})
  <2>1. OpIs(UserOps.delete, "system:user:delete", "users", {"other"},
            {"users", "members", "roleHolders", "tenantSize"}, {})
    BY UserOpFacts
  <2>2. Reached(UserOps.delete, InvalidateUsers, {}, UserData, {}, "users")
    BY HomeReached, Homes DEF InvalidateUsers
  <2>3. \A d \in {"members", "roleHolders", "tenantSize"} :
           Reached(UserOps.delete, InvalidateUsers, {}, UserData, {}, d)
    BY CountsReached DEF Headcounts, InvalidateUsers
  <2>. QED  BY <2>1, <2>2, <2>3, Kinds, ButtonIsSound DEF RemoveUser, Held, Dialogs
<1>. QED  BY <1>1, <1>2, <1>3, <1>4, <1>5, <1>6
         DEF UserScreen, Screen, UserTable, UserActions, Part,
         Shows

DeptData == {"depts", "members", "users"}

LEMMA DeptShows == \A q \in DeptScreen.shows : Fits(q, DeptData, {})
<1>1. ASSUME NEW q \in DeptScreen.shows
      PROVE  q \in {deptKeys.tree, userKeys.leaders}
  BY DEF DeptScreen, Screen, DeptTreePane, DeptPanel, DeptFormChoices, useDeptTree, Part, Shows
<1>. QED  BY <1>1, DeptShown, UserShown
             DEF ShowsOnly, Fits, DeptData

LEMMA DeptDoes == \A b \in DeptScreen.does : ButtonSound(b, DeptData, {})
<1>1. ButtonSound(Always(RemoveDept, "system:dept:delete"), DeptData, {})
  <2>1. AnyRowIs(DeptOps.delete, "system:dept:delete", "depts", {"depts", "tenantSize"}, {})
    BY DeptOpFacts DEF AnyRowIs
  <2>2. Reached(DeptOps.delete, InvalidateDepts, {}, DeptData, {}, "depts")
    BY DeptsReached, DeptOpTypes DEF InvalidateDepts
  <2>3. Reached(DeptOps.delete, InvalidateDepts, {}, DeptData, {}, "tenantSize")
    BY CountsReached DEF Headcounts, InvalidateDepts
  <2>. QED  BY <2>1, <2>2, <2>3, AlwaysSound DEF RemoveDept, Held, Dialogs
<1>2. ButtonSound(Always(DeptForm.create, "system:dept:create"), DeptData, {})
  <2>1. AnyRowIs(DeptOps.create, "system:dept:create", "nothing", {"depts", "tenantSize"}, {})
    BY DeptOpFacts DEF AnyRowIs
  <2>2. Reached(DeptOps.create, InvalidateDepts, {}, DeptData, {}, "depts")
    BY DeptsReached, DeptOpTypes DEF InvalidateDepts
  <2>3. Reached(DeptOps.create, InvalidateDepts, {}, DeptData, {}, "tenantSize")
    BY CountsReached DEF Headcounts, InvalidateDepts
  <2>. QED  BY <2>1, <2>2, <2>3, AlwaysSound DEF DeptForm, Loose, Dialogs
<1>3. ButtonSound(Always(DeptForm.edit, "system:dept:update"), DeptData, {})
  <2>1. AnyRowIs(DeptOps.update, "system:dept:update", "depts", {"depts"}, {})
    BY DeptOpFacts DEF AnyRowIs
  <2>2. Reached(DeptOps.update, InvalidateDepts, {}, DeptData, {}, "depts")
    BY DeptsReached, DeptOpTypes DEF InvalidateDepts
  <2>. QED  BY <2>1, <2>2, AlwaysSound DEF DeptForm, Direct, Dialogs
<1>. QED  BY <1>1, <1>2, <1>3
         DEF DeptScreen, Screen, DeptTreePane, DeptPanel, DeptFormChoices, Part,
         Shows

RoleData == {"roles", "roleHolders"}

LEMMA RoleShows == \A q \in RoleScreen.shows : Fits(q, RoleData, {})
<1>1. ASSUME NEW q \in RoleScreen.shows
      PROVE  q \in {roleKeys.list, roleKeys.permissionTree}
  BY DEF RoleScreen, Screen, RoleTable, RoleActions, PermissionsPage, usePermissionTree, Part, Shows
<1>. QED  BY <1>1, RoleShown
             DEF ShowsOnly, Fits, RoleData

LEMMA RoleDoes == \A b \in RoleScreen.does : ButtonSound(b, RoleData, {})
<1>1. ButtonSound(Always(RoleForm.create, "system:role:create"), RoleData, {})
  <2>1. AnyRowIs(RoleOps.create, "system:role:create", "nothing", {"roles"}, {})
    BY RoleOpFacts DEF AnyRowIs
  <2>. QED  BY <2>1, HomeReached, Homes, AlwaysSound DEF RoleForm, Loose, InvalidateRoles, Dialogs
<1>2. ButtonSound(Always(RoleForm.edit, "system:role:update"), RoleData, {})
  <2>1. AnyRowIs(RoleOps.update, "system:role:update", "roles", {"users", "roles"}, {})
    BY RoleOpFacts DEF AnyRowIs
  <2>. QED  BY <2>1, HomeReached, Homes, AlwaysSound DEF RoleForm, Loose, InvalidateRoles, Dialogs
<1>3. ButtonSound(Always(PermissionsModal, "system:role:assign-perms"), RoleData, {})
  <2>1. AnyRowIs(RoleOps.grant, "system:role:assign-perms", "roles", {"roles"}, {})
    BY RoleOpFacts DEF AnyRowIs
  <2>. QED  BY <2>1, HomeReached, Homes, AlwaysSound DEF PermissionsModal, Loose, InvalidateRoles, Dialogs
<1>4. ButtonSound(Warning(RemoveRole, "system:role:delete", {"builtin", "custom"}, {"builtin"}), RoleData, {})
  <2>1. OpIs(RoleOps.delete, "system:role:delete", "roles", {"custom"}, {"roles"}, {})
    BY RoleOpFacts
  <2>. QED  BY <2>1, HomeReached, Homes, Kinds, WarningSound DEF RemoveRole, Held, InvalidateRoles, Dialogs
<1>. QED  BY <1>1, <1>2, <1>3, <1>4
         DEF RoleScreen, Screen, RoleTable, RoleActions, PermissionsPage, Part,
         Shows

TenantData == {"tenants", "tenantSize"}

LEMMA TenantShows == \A q \in TenantScreen.shows : Fits(q, TenantData, {})
<1>1. ASSUME NEW q \in TenantScreen.shows
      PROVE  q \in {tenantKeys.list, tenantKeys.options}
  BY DEF TenantScreen, Screen, TenantTable, TenantActions, TenantSwitcher, Part, Shows
<1>. QED  BY <1>1, TenantShown
             DEF ShowsOnly, Fits, TenantData

LEMMA TenantDoes == \A b \in TenantScreen.does : ButtonSound(b, TenantData, {})
<1>1. ButtonSound(Always(TenantCreateForm, "system:tenant:create"), TenantData, {})
  <2>1. AnyRowIs(TenantOps.create, "system:tenant:create", "nothing", {"tenants"}, {})
    BY TenantOpFacts DEF AnyRowIs
  <2>. QED  BY <2>1, HomeReached, Homes, AlwaysSound DEF TenantCreateForm, Loose, InvalidateTenants, Dialogs
<1>2. ButtonSound(Always(TenantEditForm, "system:tenant:update"), TenantData, {})
  <2>1. AnyRowIs(TenantOps.update, "system:tenant:update", "tenants", {"tenants"}, {})
    BY TenantOpFacts DEF AnyRowIs
  <2>. QED  BY <2>1, HomeReached, Homes, AlwaysSound DEF TenantEditForm, Loose, InvalidateTenants, Dialogs
<1>3. ButtonSound(Button(ToggleTenant.disable, "system:tenant:delete", {"active"}), TenantData, {})
  <2>1. OpIs(TenantOps.disable, "system:tenant:update", "tenants", {"disabled", "active"}, {"tenants"}, {})
    BY TenantOpFacts
  <2>. QED  BY <2>1, HomeReached, Homes, Kinds, ButtonIsSound DEF ToggleTenant, Held, InvalidateTenants, Dialogs
<1>4. ButtonSound(Button(ToggleTenant.enable, "system:tenant:update", {"disabled"}), TenantData, {})
  <2>1. OpIs(TenantOps.enable, "system:tenant:update", "tenants", {"disabled", "active"}, {"tenants"}, {})
    BY TenantOpFacts
  <2>. QED  BY <2>1, HomeReached, Homes, Kinds, ButtonIsSound DEF ToggleTenant, Held, InvalidateTenants, Dialogs
<1>. QED  BY <1>1, <1>2, <1>3, <1>4
         DEF TenantScreen, Screen, TenantTable, TenantActions, Part, Shows

DictData == {"dicts"}

LEMMA DictShows == \A q \in DictScreen.shows : Fits(q, DictData, {})
<1>1. ASSUME NEW q \in DictScreen.shows
      PROVE  q \in {dictKeys.list, dictKeys.detail}
  BY DEF DictScreen, Screen, DictQueries, DictTypeActions, DictItemActions, Part, Shows
<1>. QED  BY <1>1, DictShown
             DEF ShowsOnly, Fits, DictData

LEMMA DictDoes == \A b \in DictScreen.does : ButtonSound(b, DictData, {})
<1>1. ButtonSound(Always(DictTypeForm.create, "system:dict:create"), DictData, {})
  <2>1. AnyRowIs(DictOps.create, "system:dict:create", "nothing", {"dicts"}, {})
    BY DictOpFacts DEF AnyRowIs
  <2>. QED  BY <2>1, HomeReached, Homes, AlwaysSound DEF DictTypeForm, Loose, InvalidateDicts, Dialogs
<1>2. ButtonSound(Always(DictTypeForm.edit, "system:dict:update"), DictData, {})
  <2>1. AnyRowIs(DictOps.update, "system:dict:update", "dicts", {"dicts"}, {})
    BY DictOpFacts DEF AnyRowIs
  <2>. QED  BY <2>1, HomeReached, Homes, AlwaysSound DEF DictTypeForm, Loose, InvalidateDicts, Dialogs
<1>3. ButtonSound(Warning(RemoveDictType, "system:dict:delete", {"system", "own"}, {"system"}), DictData, {})
  <2>1. OpIs(DictOps.delete, "system:dict:delete", "dicts", {"own"}, {"dicts"}, {})
    BY DictOpFacts
  <2>. QED  BY <2>1, HomeReached, Homes, Kinds, WarningSound DEF RemoveDictType, Held, InvalidateDicts, Dialogs
<1>4. ButtonSound(Always(DictItemForm, "system:dict:update"), DictData, {})
  <2>1. AnyRowIs(DictOps.saveItem, "system:dict:update", "dicts", {"dicts"}, {})
    BY DictOpFacts DEF AnyRowIs
  <2>. QED  BY <2>1, HomeReached, Homes, AlwaysSound DEF DictItemForm, Loose, InvalidateDicts, Dialogs
<1>5. ButtonSound(Always(RemoveDictItem, "system:dict:update"), DictData, {})
  <2>1. AnyRowIs(DictOps.deleteItem, "system:dict:update", "dicts", {"dicts"}, {})
    BY DictOpFacts DEF AnyRowIs
  <2>. QED  BY <2>1, HomeReached, Homes, AlwaysSound DEF RemoveDictItem, Held, InvalidateDicts, Dialogs
<1>. QED  BY <1>1, <1>2, <1>3, <1>4, <1>5
         DEF DictScreen, Screen, DictQueries, DictTypeActions,
         DictItemActions, Part, Shows

ParamData == {"params"}

LEMMA ParamShows == \A q \in ParamScreen.shows : Fits(q, ParamData, {})
<1>1. ASSUME NEW q \in ParamScreen.shows
      PROVE  q \in {paramKeys.list}
  BY DEF ParamScreen, Screen, ParamsPage, Part, Shows
<1>. QED  BY <1>1, ParamShown
             DEF ShowsOnly, Fits, ParamData

LEMMA ParamDoes == \A b \in ParamScreen.does : ButtonSound(b, ParamData, {})
<1>1. ButtonSound(Always(ParamForm, "system:param:update"), ParamData, {})
  <2>1. AnyRowIs(ParamOps.set, "system:param:update", "params", {"params"}, {})
    BY ParamOpFacts DEF AnyRowIs
  <2>. QED  BY <2>1, HomeReached, Homes, AlwaysSound DEF ParamForm, Loose, InvalidateParams, Dialogs
<1>2. ButtonSound(Button(ResetParam, "system:param:update", {"tenant"}), ParamData, {})
  <2>1. OpIs(ParamOps.reset, "system:param:update", "params", {"tenant"}, {"params"}, {})
    BY ParamOpFacts
  <2>. QED  BY <2>1, HomeReached, Homes, Kinds, ButtonIsSound DEF ResetParam, Held, InvalidateParams, Dialogs
<1>. QED  BY <1>1, <1>2
         DEF ParamScreen, Screen, ParamsPage, Part, Shows

TemplateData == {"templates"}

LEMMA TemplateShows == \A q \in TemplateScreen.shows : Fits(q, TemplateData, {})
<1>1. ASSUME NEW q \in TemplateScreen.shows
      PROVE  q \in {templateKeys.list}
  BY DEF TemplateScreen, Screen, TemplateTable, TemplateActions, Part, Shows
<1>. QED  BY <1>1, TemplateShown
             DEF ShowsOnly, Fits, TemplateData

LEMMA TemplateDoes == \A b \in TemplateScreen.does : ButtonSound(b, TemplateData, {})
<1>1. ButtonSound(Always(ToggleTemplate, "system:template:update"), TemplateData, {})
  <2>1. AnyRowIs(TemplateOps.toggle, "system:template:update", "templates", {"templates"}, {})
    BY TemplateOpFacts DEF AnyRowIs
  <2>. QED  BY <2>1, HomeReached, Homes, AlwaysSound DEF ToggleTemplate, Direct, InvalidateTemplates, Dialogs
<1>2. ButtonSound(Always(TemplateForm.create, "system:template:create"), TemplateData, {})
  <2>1. AnyRowIs(TemplateOps.create, "system:template:create", "nothing", {"templates"}, {})
    BY TemplateOpFacts DEF AnyRowIs
  <2>. QED  BY <2>1, HomeReached, Homes, AlwaysSound DEF TemplateForm, Loose, InvalidateTemplates, Dialogs
<1>3. ButtonSound(Always(TemplateForm.edit, "system:template:update"), TemplateData, {})
  <2>1. AnyRowIs(TemplateOps.update, "system:template:update", "templates", {"templates"}, {})
    BY TemplateOpFacts DEF AnyRowIs
  <2>. QED  BY <2>1, HomeReached, Homes, AlwaysSound DEF TemplateForm, Loose, InvalidateTemplates, Dialogs
<1>4. ButtonSound(Always(RemoveTemplate, "system:template:delete"), TemplateData, {})
  <2>1. AnyRowIs(TemplateOps.delete, "system:template:delete", "templates", {"templates"}, {})
    BY TemplateOpFacts DEF AnyRowIs
  <2>. QED  BY <2>1, HomeReached, Homes, AlwaysSound DEF RemoveTemplate, Held, InvalidateTemplates, Dialogs
<1>. QED  BY <1>1, <1>2, <1>3, <1>4
         DEF TemplateScreen, Screen, TemplateTable, TemplateActions, Part,
         Shows

AuditLogData == {}

LEMMA AuditLogShows == \A q \in AuditLogScreen.shows : Fits(q, AuditLogData, {})
<1>1. ASSUME NEW q \in AuditLogScreen.shows
      PROVE  q \in {auditLogKeys.list, auditLogKeys.detail}
  BY DEF AuditLogScreen, Screen, AuditLogsPage, AuditLogDetail, Part, Shows
<1>. QED  BY <1>1, AuditLogShown
             DEF ShowsOnly, Fits, AuditLogData

LEMMA AuditLogDoes == AuditLogScreen.does = {}
  BY DEF AuditLogScreen, Screen, AuditLogsPage, AuditLogDetail, Part, Shows

---------------------------------------------------------------------------

\* All pages together.
PageSound(s) ==
    \E data, boards : (\A q \in s.shows : Fits(q, data, boards)) /\ (\A b \in s.does : ButtonSound(b, data, boards))

LEMMA FleetPagesSound == \A s \in FleetScreens : PageSound(s)
<1>1. PageSound(TripScreen)
  BY TripShows, TripDoes DEF PageSound
<1>2. PageSound(ApprovalScreen)
  BY ApprovalShows, ApprovalDoes DEF PageSound
<1>3. PageSound(ApprovalRulesScreen)
  BY ApprovalRulesShows, ApprovalRulesDoes DEF PageSound
<1>4. PageSound(BookingScreen)
  BY BookingShows, BookingDoes DEF PageSound
<1>5. PageSound(DashboardScreen)
  BY DashboardShows, DashboardDoes DEF PageSound
<1>6. PageSound(NotificationScreen)
  BY NotificationShows, NotificationDoes DEF PageSound
<1>. QED  BY <1>1, <1>2, <1>3, <1>4, <1>5, <1>6 DEF FleetScreens

LEMMA MoneyPagesSound == \A s \in MoneyScreens : PageSound(s)
<1>1. PageSound(ChargingScreen)
  BY ChargingShows, ChargingDoes DEF PageSound
<1>2. PageSound(AccountScreen)
  BY AccountShows, AccountDoes DEF PageSound
<1>3. PageSound(MyAccountScreen)
  BY MyAccountShows, MyAccountDoes DEF PageSound
<1>4. PageSound(BillingRuleScreen)
  BY BillingRuleShows, BillingRuleDoes DEF PageSound
<1>5. PageSound(SettlementScreen)
  BY SettlementShows, SettlementDoes DEF PageSound
<1>. QED  BY <1>1, <1>2, <1>3, <1>4, <1>5 DEF MoneyScreens

LEMMA AssetPagesSound == \A s \in AssetScreens : PageSound(s)
<1>1. PageSound(VehicleScreen)
  BY VehicleShows, VehicleDoes DEF PageSound
<1>2. PageSound(DeviceScreen)
  BY DeviceShows, DeviceDoes DEF PageSound
<1>3. PageSound(CardScreen)
  BY CardShows, CardDoes DEF PageSound
<1>4. PageSound(PileScreen)
  BY PileShows, PileDoes DEF PageSound
<1>. QED  BY <1>1, <1>2, <1>3, <1>4 DEF AssetScreens

LEMMA SystemPagesSound == \A s \in SystemScreens : PageSound(s)
<1>1. PageSound(UserScreen)
  BY UserShows, UserDoes DEF PageSound
<1>2. PageSound(DeptScreen)
  BY DeptShows, DeptDoes DEF PageSound
<1>3. PageSound(RoleScreen)
  BY RoleShows, RoleDoes DEF PageSound
<1>4. PageSound(TenantScreen)
  BY TenantShows, TenantDoes DEF PageSound
<1>5. PageSound(DictScreen)
  BY DictShows, DictDoes DEF PageSound
<1>6. PageSound(ParamScreen)
  BY ParamShows, ParamDoes DEF PageSound
<1>7. PageSound(TemplateScreen)
  BY TemplateShows, TemplateDoes DEF PageSound
<1>8. PageSound(AuditLogScreen)
  BY AuditLogShows, AuditLogDoes DEF PageSound
<1>. QED  BY <1>1, <1>2, <1>3, <1>4, <1>5, <1>6, <1>7, <1>8 DEF SystemScreens

LEMMA PagesSound == \A s \in Screens : PageSound(s)
  BY FleetPagesSound, MoneyPagesSound, AssetPagesSound, SystemPagesSound DEF Screens

---------------------------------------------------------------------------

\* A query that some page shows.
Known(q) == q.polled \in BOOLEAN /\ (~q.polled => \A d \in q.reads : q.key \in Shown[d])

LEMMA QueriesKnown == \A q \in AllQueries : Known(q)
  BY PagesSound DEF AllQueries, PageSound, Fits, Known

LEMMA EffectTypes ==
    ASSUME NEW op, OpTyped(op), NEW q, NEW kind
    PROVE  Effect(op, q, kind) \in Effects
<1>1. op.from \subseteq Rows /\ op.to \subseteq Rows /\ {} \subseteq Rows
  BY DEF OpTyped, Rows
<1>2. Told(op, q) \in {"again", "patch", "not"}
  BY DEF Told
<1>3. Touches(op, q) \in BOOLEAN
  BY DEF Touches
<1>. QED  BY <1>1, <1>2, <1>3 DEF Effect, Effects

LEMMA SceneTypes ==
    ASSUME NEW q, Known(q), NEW b, Offered(b), NEW away \in BOOLEAN
    PROVE  Scene(q, b, away) \in SceneState
<1>1. /\ RowStates[b.op.on] \subseteq Rows /\ b.offered \subseteq Rows /\ b.warned \subseteq Rows
      /\ b.dialog \in {"held", "loose", "stays", "none"} /\ b.op.may \in BOOLEAN
  BY DEF Offered, OpTyped, Rows, Dialogs
<1>2. Effect(b.op, q, b.op.on) \in Effects
  BY EffectTypes DEF Offered
<1>3. {Effect(op, q, b.op.on) : op \in {o \in AllOps : Concerns(o, q, b.op.on)}} \subseteq Effects
  BY AllOpTypes, EffectTypes
<1>4. /\ Covers(ResyncKeys, q.key) \in BOOLEAN /\ Covers(b.refresh, q.key) \in BOOLEAN
      /\ (KnownGap(b.op, q.key) /\ ~Covers(b.refresh, q.key)) \in BOOLEAN
      /\ PermissionGap(b) \in BOOLEAN /\ q.polled \in BOOLEAN
  BY DEF Covers, PermissionGap, Known
<1>. QED  BY <1>1, <1>2, <1>3, <1>4 DEF Scene, SceneState

LEMMA SceneOffers ==
    ASSUME NEW q, NEW b, Offered(b), NEW away
    PROVE  Offers(Scene(q, b, away))
  BY DEF Offers, Scene, Offered, Effect

\* A change that a query shows is told, if the answer does not refresh the query.
LEMMA ChangeAttended ==
    ASSUME NEW q, Known(q), NEW b, NEW data, NEW boards, Attends(b, data, boards), NEW away \in BOOLEAN,
           ~away => Fits(q, data, boards), Touches(b.op, q), ~q.polled
    PROVE  \/ Covers(b.refresh, q.key) \/ q.key \in b.puts \/ KnownGap(b.op, q.key)
           \/ away /\ Told(b.op, q) # "not"
<1>. DEFINE k == q.key
<1>1. PICK d \in q.reads : d \in b.op.changes
  BY DEF Touches
<1>2. \A c \in q.reads : k \in Shown[c]
  BY DEF Known
<1>3. Reached(b.op, b.refresh, b.puts, data, boards, d)
  BY <1>1 DEF Attends
<1>4. CASE d \notin data /\ \E e \in b.op.tells : Covers(EventKeys(e), k)
  <2>1. Told(b.op, q) # "not"
    BY <1>4 DEF Told
  <2>. QED  BY <1>1, <1>4, <2>1 DEF Fits
<1>5. CASE /\ "vehicle.status" \in b.op.tells /\ ~OffBoards(k) /\ k \notin boards
           /\ \A c \in b.op.changes : k \in Shown[c] => c = "live"
  <2>1. b.op.changes \cap q.reads \subseteq {"live"} /\ k \in PatchedKeys("vehicle.status")
    BY <1>2, <1>5 DEF OffBoards
  <2>2. Told(b.op, q) # "not"
    BY <1>5, <2>1 DEF Told
  <2>. QED  BY <1>5, <2>2 DEF Fits
<1>. QED  BY <1>1, <1>2, <1>3, <1>4, <1>5 DEF Reached

LEMMA SceneRefreshes ==
    ASSUME NEW q, Known(q), NEW b, NEW data, NEW boards, ButtonSound(b, data, boards), NEW away \in BOOLEAN,
           ~away => Fits(q, data, boards)
    PROVE  Refreshes(Scene(q, b, away))
<1>. DEFINE s == Scene(q, b, away)
<1>1. /\ s.polled = q.polled /\ s.refreshed = Covers(b.refresh, q.key) /\ s.put = (q.key \in b.puts) /\ s.away = away
      /\ s.known = (KnownGap(b.op, q.key) /\ ~Covers(b.refresh, q.key)) /\ s.own = Effect(b.op, q, b.op.on)
      /\ s.others = {Effect(op, q, b.op.on) : op \in {o \in AllOps : Concerns(o, q, b.op.on)}}
  BY DEF Scene
<1>. HIDE DEF s
<1>2. s.own.touches /\ ~s.polled => s.refreshed \/ s.put \/ (s.away /\ s.own.told # "not") \/ s.known
  <2> SUFFICES ASSUME s.own.touches, ~s.polled
               PROVE  s.refreshed \/ s.put \/ (s.away /\ s.own.told # "not") \/ s.known
    OBVIOUS
  <2>1. Touches(b.op, q) /\ ~q.polled /\ s.own.told = Told(b.op, q)
    BY <1>1 DEF Effect
  <2>2. \/ Covers(b.refresh, q.key) \/ q.key \in b.puts \/ KnownGap(b.op, q.key)
        \/ away /\ Told(b.op, q) # "not"
    BY <2>1, ChangeAttended DEF ButtonSound
  <2>. QED  BY <1>1, <2>1, <2>2
<1>3. s.put /\ ~s.refreshed => \A e \in s.others \cup {s.own} : e.told # "patch"
  <2> SUFFICES ASSUME s.put PROVE \A e \in s.others \cup {s.own} : e.told # "patch"
    OBVIOUS
  <2>1. \A e : q.key \notin PatchedKeys(e)
    BY <1>1, FeedFacts DEF ButtonSound, Offered
  <2>2. \A op : Told(op, q) # "patch"
    BY <2>1 DEF Told
  <2>3. \A op, kind : Effect(op, q, kind).told # "patch"
    BY <2>2 DEF Effect
  <2>. QED  BY <1>1, <2>3
<1>. QED  BY <1>2, <1>3 DEF Refreshes, s

LEMMA NoButtonSound == ButtonSound(NoButton, {}, {})
<1>1. /\ NoButton.op = Op("none", "nothing", {"none"}, {}, {}) /\ NoButton.refresh = {} /\ NoButton.puts = {}
      /\ NoButton.dialog = "none" /\ NoButton.perm = "none" /\ NoButton.offered = {} /\ NoButton.warned = {}
  BY DEF NoButton, Button, Warning, Direct, Form
<1>2. OpTyped(Op("none", "nothing", {"none"}, {}, {}))
  BY Kinds, OpTypes
<1>3. Op("none", "nothing", {"none"}, {}, {}).perm = "none" /\ Op("none", "nothing", {"none"}, {}, {}).changes = {}
  BY DEF Op
<1>4. Offered(NoButton)
  BY <1>1, <1>2, <1>3 DEF Offered, Dialogs
<1>5. Attends(NoButton, {}, {})
  BY <1>1, <1>3 DEF Attends
<1>. QED  BY <1>4, <1>5 DEF ButtonSound

LEMMA NoButtonRefreshes == ASSUME NEW q, Known(q) PROVE Refreshes(Scene(q, NoButton, FALSE))
<1>1. NoButton.op.changes = {} /\ NoButton.puts = {}
  BY DEF NoButton, Button, Warning, Direct, Form, Op
<1>2. ~Touches(NoButton.op, q)
  BY <1>1 DEF Touches
<1>3. ~Scene(q, NoButton, FALSE).own.touches /\ ~Scene(q, NoButton, FALSE).put
  BY <1>1, <1>2 DEF Scene, Effect
<1>. QED  BY <1>3 DEF Refreshes

SceneSound(s) == s \in SceneState /\ Refreshes(s) /\ Offers(s)

\* Every scene there is keeps the two rules.
LEMMA ScenesSound == \A s \in Scenes : SceneSound(s)
<1>1. ASSUME NEW q \in AllQueries PROVE SceneSound(Scene(q, NoButton, FALSE))
  BY <1>1, QueriesKnown, NoButtonSound, NoButtonRefreshes, SceneTypes, SceneOffers DEF ButtonSound, SceneSound
<1>2. ASSUME NEW s \in Screens, NEW q \in s.shows, NEW b \in s.does PROVE SceneSound(Scene(q, b, FALSE))
  <2>1. PICK data, boards : Fits(q, data, boards) /\ ButtonSound(b, data, boards)
    BY PagesSound DEF PageSound
  <2>2. Known(q)
    BY QueriesKnown DEF AllQueries
  <2>. QED  BY <2>1, <2>2, SceneTypes, SceneOffers, SceneRefreshes DEF ButtonSound, SceneSound
<1>3. ASSUME NEW s \in Screens, NEW q \in AllQueries, NEW b \in s.does PROVE SceneSound(Scene(q, b, TRUE))
  <2>1. PICK data, boards : ButtonSound(b, data, boards)
    BY PagesSound DEF PageSound
  <2>. QED  BY <2>1, QueriesKnown, SceneTypes, SceneOffers, SceneRefreshes DEF ButtonSound, SceneSound
<1>4. \A s \in QuietScenes : SceneSound(s)
  BY <1>1 DEF QuietScenes
<1>5. ASSUME NEW s \in Screens PROVE \A x \in ScenesOf(s) : SceneSound(x)
  BY <1>2 DEF ScenesOf
<1>6. ASSUME NEW s \in Screens PROVE \A x \in CrossScenes(s) : SceneSound(x)
  BY <1>3 DEF CrossScenes
<1>. QED  BY <1>4, <1>5, <1>6 DEF Scenes
=============================================================================
