----------------------------- MODULE MoneyPages -----------------------------
(***************************************************************************)
(* The pages about charging and billing.  One definition per component, or *)
(* per part of a page; a screen joins what one page mounts.                *)
(***************************************************************************)
EXTENDS FleetPages

---------------------------------------------------------------------------
\* pages/charging

usePileOptions == {chargingKeys.pilesLive}
useInvalidateCharging == {chargingKeys.all, pileKeys.all, vehicleKeys.all, dashboardKeys.all}

\* A pile that rejects leaves the dialog open, see WebPages.
RemoteStartForm == Held(ChargingOps.remoteStart, useInvalidateCharging)
RemoteStopDialog == Held(ChargingOps.remoteStop, useInvalidateCharging)
ReviewForm == Held(ChargingOps.review, useInvalidateCharging)
ReviewChoices == Shows(useVehicleOptions \cup UserPicker)

\* A pile that is offline or disabled offers nothing.
ConnectorRow == {Button(RemoteStartForm, "charging:manage", {"free"})}
OngoingTransaction == {Button(RemoteStopDialog, "charging:manage", {"charging"})}
PilesLiveMap == Shows({Polled(chargingKeys.pilesLive)})
PilesLiveTab == Part({Polled(chargingKeys.pilesLive)}, ConnectorRow \cup OngoingTransaction)

\* The queue lists pending sessions, and charging ones whose button is disabled.
ReviewTab == Part({Polled(chargingKeys.txList)}, {Button(ReviewForm, "charging:review", {"pending"})})

ChargeTransactionTable == Shows({chargingKeys.txList})
ChargeTransactionFilters == Shows(usePileOptions \cup useVehicleOptions \cup UserPicker \cup useDeptTree)

TransactionDetailQueries == Shows({Polled(chargingKeys.txDetail), Polled(chargingKeys.meterValues)})
TransactionDetailActions ==
    Part({}, {Button(ReviewForm, "charging:review", {"pending"}), Button(RemoteStopDialog, "charging:manage", {"charging"})})

ChargingSummaryBar == Shows({Polled(chargingKeys.summary)})

ChargingScreen ==
    Screen({PilesLiveMap, PilesLiveTab, ReviewTab, ReviewChoices, ChargeTransactionTable, ChargeTransactionFilters,
            TransactionDetailQueries, TransactionDetailActions, ChargingSummaryBar})

---------------------------------------------------------------------------
\* pages/billing/accounts, pages/account

InvalidateBilling == {billingKeys.all}

RechargeForm == Loose(AccountOps.recharge, InvalidateBilling)
AllocateForm == Loose(AccountOps.allocate, InvalidateBilling)
AllocateChoices == Shows(useDeptTree \cup UserPicker)
AdjustForm == Loose(AccountOps.adjust, InvalidateBilling)
EditForm == Loose(AccountOps.update, InvalidateBilling)

AccountTree ==
    {Always(RechargeForm, "billing:account:recharge"), Always(AllocateForm, "billing:account:allocate"),
     Always(AdjustForm, "billing:account:adjust"), Always(EditForm, "billing:account:adjust")}

AccountDetailBody == Shows({billingKeys.account, billingKeys.accountTransactions})
AccountTransactionsTab == Shows({billingKeys.transactions})
BillingAccountsPage == Part({billingKeys.accountTree}, AccountTree)
MyAccountPage == Shows({billingKeys.myAccount})

AccountScreen == Screen({BillingAccountsPage, AllocateChoices, AccountDetailBody, AccountTransactionsTab})
MyAccountScreen == Screen({MyAccountPage})

---------------------------------------------------------------------------
\* pages/billing/rules

ActivateRule == Held(RuleOps.activate, InvalidateBilling)
RemoveRule == Held(RuleOps.delete, InvalidateBilling)

\* The editor is part of the page: saved rules are written into the list, which
\* is then invalidated too.
RuleEditor ==
    [create |-> Putting(Direct(RuleOps.create, InvalidateBilling), {billingKeys.rules.key}),
     edit   |-> Putting(Direct(RuleOps.update, InvalidateBilling), {billingKeys.rules.key})]
RuleEditorFields == {Always(RuleEditor.create, "billing:rule:update"), Always(RuleEditor.edit, "billing:rule:update")}

BillingRuleList == Part({billingKeys.rules, billingKeys.ruleTemplate}, RuleEditorFields)
BillingRuleActions ==
    Part({}, {Button(ActivateRule, "billing:rule:update", {"enabled"}),
              Button(RemoveRule, "billing:rule:update", {"enabled", "disabled"})})

\* Trying a rule out changes nothing.
SimulatePanel == Shows({})

BillingRuleScreen == Screen({BillingRuleList, BillingRuleActions, SimulatePanel})

---------------------------------------------------------------------------
\* pages/billing/settlements

InvalidateSettlements == {billingKeys.allSettlements}

GenerateSettlement == Held(SettlementOps.generate, InvalidateSettlements)
ConfirmSettlement == Held(SettlementOps.confirm, InvalidateSettlements)

SettlementQueries == Shows({billingKeys.settlementPeriods, billingKeys.settlements})
\* Any period on offer that is not confirmed, settled before or not.
SettlementActions ==
    Part({}, {Button(GenerateSettlement, "billing:settlement:generate", {"none", "draft"}),
              Button(ConfirmSettlement, "billing:settlement:confirm", {"draft"})})
SettlementDetailBody ==
    Part({billingKeys.settlement}, {Button(ConfirmSettlement, "billing:settlement:confirm", {"draft"})})

SettlementScreen == Screen({SettlementQueries, SettlementActions, SettlementDetailBody})

MoneyScreens == {ChargingScreen, AccountScreen, MyAccountScreen, BillingRuleScreen, SettlementScreen}
=============================================================================
