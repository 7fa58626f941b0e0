---------------------------- MODULE LiveFeed_proofs ----------------------------
(***************************************************************************)
(* A refresh token is sent once, and the feed listens with the token and   *)
(* to the tenant of the session, for any number of requests, tenants,      *)
(* pairs, lost answers, switches and closed sockets; then what must happen *)
(* in a tab, under fairness.                                               *)
(***************************************************************************)
EXTENDS LiveFeed, SequenceTheorems, TLAPS

(***************************************************************************)
(* The pairs issued.  What a step may do to them.                          *)
(***************************************************************************)
IssuedOK == issued \in Seq(IssuedPair) /\ Len(issued) \in 0..MaxPairs

\* Pairs are added, never taken away, and a new one was not used.
Grown ==
    /\ IssuedOK'
    /\ Len(issued) <= Len(issued')
    /\ \A n \in 1..Len(issued') : n > Len(issued) => issued'[n].uses = 0

UsesKept == \A n \in 1..Len(issued) : issued'[n].uses = issued[n].uses

LEMMA IssuedParts == SessionTypeOK => IssuedOK
<1>. SUFFICES ASSUME SessionTypeOK PROVE IssuedOK
  OBVIOUS
<1>1. Len(issued) \in Nat /\ Len(issued) <= MaxPairs /\ issued \in Seq(IssuedPair)
  BY LenProperties DEF SessionTypeOK
<1>. QED  BY <1>1, BoundsAssumption DEF IssuedOK

LEMMA FreshOK == FreshPair \in IssuedPair /\ FreshPair.uses = 0
  BY DEF FreshPair, IssuedPair

LEMMA AppendGrows ==
    ASSUME IssuedOK, CanIssue, issued' = Append(issued, FreshPair)
    PROVE  Grown /\ UsesKept /\ Len(issued') = NextPair
<1>1. /\ issued' \in Seq(IssuedPair) /\ Len(issued') = Len(issued) + 1
      /\ \A i \in 1..Len(issued) : issued'[i] = issued[i]
      /\ issued'[Len(issued) + 1] = FreshPair
  BY FreshOK, AppendProperties DEF IssuedOK
<1>2. Len(issued') \in 0..MaxPairs
  BY <1>1, BoundsAssumption DEF IssuedOK, CanIssue
<1>3. IssuedOK'
  BY <1>1, <1>2 DEF IssuedOK
<1>4. \A n \in 1..Len(issued') : n > Len(issued) => n = Len(issued) + 1
  BY <1>1 DEF IssuedOK
<1>. QED  BY <1>1, <1>3, <1>4, FreshOK DEF Grown, UsesKept, NextPair, IssuedOK

LEMMA RewriteGrows ==
    ASSUME IssuedOK, NEW n \in 1..Len(issued), NEW r \in IssuedPair, issued' = [issued EXCEPT ![n] = r]
    PROVE  /\ Grown /\ Len(issued') = Len(issued)
           /\ \A i \in 1..Len(issued) : issued'[i] = IF i = n THEN r ELSE issued[i]
<1>1. /\ issued' \in Seq(IssuedPair) /\ Len(issued') = Len(issued)
      /\ \A i \in 1..Len(issued) : issued'[i] = IF i = n THEN r ELSE issued[i]
  BY ExceptSeq DEF IssuedOK
<1>2. IssuedOK'
  BY <1>1 DEF IssuedOK
<1>. QED  BY <1>1, <1>2 DEF Grown, IssuedOK

LEMMA SameGrows == ASSUME IssuedOK, issued' = issued PROVE Grown /\ UsesKept /\ Len(issued') = Len(issued)
  BY DEF Grown, UsesKept, IssuedOK

LEMMA ServedGrows ==
    ASSUME IssuedOK, NEW n \in 1..Len(issued), CanIssue,
           issued' = Append([issued EXCEPT ![n].refresh = "used"], FreshPair)
    PROVE  Grown /\ UsesKept /\ Len(issued') = NextPair
<1>. DEFINE r == [issued[n] EXCEPT !.refresh = "used"]
            s == [issued EXCEPT ![n] = r]
<1>1. issued[n] \in IssuedPair
  BY ElementOfSeq DEF IssuedOK
<1>2. r \in IssuedPair /\ r.uses = issued[n].uses
  BY <1>1 DEF IssuedPair
<1>3. issued' = Append(s, FreshPair)
  OBVIOUS
<1>. HIDE DEF r
<1>4. /\ s \in Seq(IssuedPair) /\ Len(s) = Len(issued)
      /\ \A i \in 1..Len(issued) : s[i] = IF i = n THEN r ELSE issued[i]
  BY <1>2, ExceptSeq DEF IssuedOK
<1>. HIDE DEF s
<1>p. /\ Append(s, FreshPair) \in Seq(IssuedPair) /\ Len(Append(s, FreshPair)) = Len(s) + 1
      /\ \A i \in 1..Len(s) : Append(s, FreshPair)[i] = s[i]
      /\ Append(s, FreshPair)[Len(s) + 1] = FreshPair
  BY <1>4, FreshOK, AppendProperties
<1>5. /\ issued' \in Seq(IssuedPair) /\ Len(issued') = Len(issued) + 1
      /\ \A i \in 1..Len(issued) : issued'[i] = s[i]
      /\ issued'[Len(issued) + 1] = FreshPair
  BY <1>3, <1>4, <1>p, Zenon
<1>6. Len(issued') \in 0..MaxPairs
  BY <1>5, BoundsAssumption DEF IssuedOK, CanIssue
<1>7. IssuedOK'
  BY <1>5, <1>6 DEF IssuedOK
<1>8. \A i \in 1..Len(issued') : i > Len(issued) => i = Len(issued) + 1
  BY <1>5 DEF IssuedOK
<1>9. \A i \in 1..Len(issued) : issued'[i].uses = issued[i].uses
  BY <1>2, <1>4, <1>5
<1>. QED  BY <1>5, <1>7, <1>8, <1>9, FreshOK DEF Grown, UsesKept, NextPair, IssuedOK

LEMMA UseKeptByRewrite ==
    ASSUME IssuedOK, NEW n \in 1..Len(issued), NEW r \in IssuedPair, r.uses = issued[n].uses,
           issued' = [issued EXCEPT ![n] = r]
    PROVE  Grown /\ UsesKept
<1>1. Grown /\ \A i \in 1..Len(issued) : issued'[i] = IF i = n THEN r ELSE issued[i]
  BY RewriteGrows, Zenon
<1>. QED  BY <1>1 DEF UsesKept

\* A step of the session adds pairs and keeps the uses, except that of the
\* pair a refresh is started with.
LEMMA PairsStep ==
    ASSUME SessionTypeOK, SessionNext
    PROVE  Grown /\ (UsesKept \/ \E c \in Calls : StartRefresh(c))
<1>. IssuedOK
  BY IssuedParts
<1>a. \A n \in 1..Len(issued) : issued[n] \in IssuedPair
  BY ElementOfSeq DEF IssuedOK
<1>1. CASE Login
  BY <1>1, AppendGrows DEF Login
<1>2. ASSUME NEW t \in Tenants \cup {Own}, SwitchTenant(t) PROVE Grown /\ UsesKept
  BY <1>2, SameGrows DEF SwitchTenant
<1>3. ASSUME NEW n \in 1..Len(issued), Expire(n) PROVE Grown /\ UsesKept
  <2>. DEFINE r == [issued[n] EXCEPT !.access = "expired"]
  <2>1. r \in IssuedPair /\ r.uses = issued[n].uses
    BY <1>a DEF IssuedPair
  <2>2. issued' = [issued EXCEPT ![n] = r]
    BY <1>3 DEF Expire
  <2>. HIDE DEF r
  <2>. QED  BY <2>1, <2>2, UseKeptByRewrite
<1>4. ASSUME NEW c \in Calls, CallStep(c) PROVE Grown /\ (UsesKept \/ StartRefresh(c))
  <2>1. CASE Send(c) \/ Answer(c) \/ LoseAnswer(c) \/ AwaitRefresh(c) \/ GiveUp(c)
    <3>1. issued' = issued
      BY <2>1 DEF Send, Answer, LoseAnswer, AwaitRefresh, GiveUp
    <3>. QED  BY <3>1, SameGrows
  <2>2. CASE StartRefresh(c)
    <3>. DEFINE n == store.pair
                r == [issued[n] EXCEPT !.uses = @ + 1]
    <3>1. n \in 1..Len(issued)
      BY <2>2 DEF StartRefresh, LoggedIn, SessionTypeOK, StoreState, IssuedOK
    <3>2. r \in IssuedPair
      BY <1>a, <3>1 DEF IssuedPair
    <3>3. issued' = [issued EXCEPT ![n] = r]
      BY <2>2 DEF StartRefresh
    <3>. HIDE DEF n, r
    <3>. QED  BY <2>2, <3>1, <3>2, <3>3, RewriteGrows
  <2>. QED  BY <1>4, <2>1, <2>2 DEF CallStep
<1>5. CASE RefreshStep
  <2>1. CASE ServeRefresh
    <3>. DEFINE n == refreshing.pair
                r == [issued[n] EXCEPT !.refresh = "used"]
    <3>1. n \in 1..Len(issued)
      BY <2>1 DEF ServeRefresh, SessionTypeOK
    <3>2. r \in IssuedPair /\ r.uses = issued[n].uses
      BY <1>a, <3>1 DEF IssuedPair
    <3>3. \/ issued' = [issued EXCEPT ![n] = r]
          \/ CanIssue /\ issued' = Append([issued EXCEPT ![n].refresh = "used"], FreshPair)
      BY <2>1 DEF ServeRefresh
    <3>. HIDE DEF n, r
    <3>. QED  BY <3>1, <3>2, <3>3, UseKeptByRewrite, ServedGrows
  <2>2. CASE LoseRefresh \/ RefreshGranted \/ RefreshRefused
    <3>1. issued' = issued
      BY <2>2 DEF LoseRefresh, RefreshGranted, RefreshRefused
    <3>. QED  BY <3>1, SameGrows
  <2>. QED  BY <1>5, <2>1, <2>2 DEF RefreshStep
<1>6. CASE LeaveStep
  <2>1. CASE Logout \/ LoseLogout \/ LeaveLocally
    <3>1. issued' = issued
      BY <2>1 DEF Logout, LoseLogout, LeaveLocally
    <3>. QED  BY <3>1, SameGrows
  <2>2. CASE ServeLogout
    <3>. DEFINE n == leaving.pair
                r == [access |-> "denied", refresh |-> "used", uses |-> issued[n].uses]
    <3>1. n \in 1..Len(issued)
      BY <2>2 DEF ServeLogout, SessionTypeOK
    <3>2. r \in IssuedPair /\ r.uses = issued[n].uses
      BY <1>a, <3>1 DEF IssuedPair
    <3>3. issued' = [issued EXCEPT ![n] = r] \/ issued' = issued
      BY <2>2 DEF ServeLogout
    <3>. HIDE DEF n, r
    <3>. QED  BY <3>1, <3>2, <3>3, UseKeptByRewrite, SameGrows
  <2>. QED  BY <1>6, <2>1, <2>2 DEF LeaveStep
<1>7. CASE EntryStep
  BY <1>7, SameGrows DEF EntryStep, Enter, LoginFails
<1>. QED  BY <1>1, <1>2, <1>3, <1>4, <1>5, <1>6, <1>7 DEF SessionNext

(***************************************************************************)
(* Types, one part of the state at a time.                                 *)
(***************************************************************************)
Known == 1..Len(issued)

StoreOK == store \in StoreState /\ (store.pair # 0 => store.pair \in Known)

CallOK(r) == r \in CallState /\ (r.stage # "idle" => r.pair \in Known)

CallsOK == calls \in [Calls -> CallState] /\ \A c \in Calls : CallOK(calls[c])

RefreshOK ==
    /\ refreshing \in RefreshState
    /\ refreshing.stage # "no" => refreshing.pair \in Known
    /\ refreshing.stage = "granted" => refreshing.got \in Known

LeaveOK == leaving \in LeaveState /\ (leaving.stage # "no" => leaving.pair \in Known)

CountsOK == losses \in 0..MaxLosses /\ switches \in 0..MaxSwitches /\ entering \in BOOLEAN

LEMMA SessionParts ==
    SessionTypeOK <=> IssuedOK /\ StoreOK /\ CallsOK /\ RefreshOK /\ LeaveOK /\ CountsOK
<1>1. issued \in Seq(IssuedPair) => (IssuedOK <=> Len(issued) <= MaxPairs) /\ Len(issued) \in Nat
  BY LenProperties, BoundsAssumption DEF IssuedOK
<1>2. ASSUME IssuedOK, store \in StoreState
      PROVE  store.pair <= Len(issued) <=> (store.pair # 0 => store.pair \in Known)
  BY <1>2, BoundsAssumption DEF IssuedOK, StoreState, Known
<1>3. IssuedOK => issued \in Seq(IssuedPair)
  BY DEF IssuedOK
<1>4. ASSUME IssuedOK PROVE StoreOK <=> store \in StoreState /\ store.pair <= Len(issued)
  BY <1>2, <1>4 DEF StoreOK
<1>5. CallsOK <=> calls \in [Calls -> CallState]
                  /\ \A c \in Calls : calls[c].stage # "idle" => calls[c].pair \in 1..Len(issued)
  BY DEF CallsOK, CallOK, Known
<1>. QED  BY <1>1, <1>3, <1>4, <1>5, Zenon DEF SessionTypeOK, RefreshOK, LeaveOK, CountsOK, Known

\* What a step leaves alone keeps its type while pairs are added.
LEMMA KnownGrows == ASSUME IssuedOK, Grown PROVE Known \subseteq Known'
  BY DEF IssuedOK, Grown, Known

LEMMA StoreKept == ASSUME IssuedOK, Grown, StoreOK, UNCHANGED store PROVE StoreOK'
  BY KnownGrows DEF StoreOK

LEMMA CallsKept == ASSUME IssuedOK, Grown, CallsOK, UNCHANGED calls PROVE CallsOK'
  BY KnownGrows DEF CallsOK, CallOK

LEMMA RefreshKept == ASSUME IssuedOK, Grown, RefreshOK, UNCHANGED refreshing PROVE RefreshOK'
  BY KnownGrows DEF RefreshOK

LEMMA LeaveKept == ASSUME IssuedOK, Grown, LeaveOK, UNCHANGED leaving PROVE LeaveOK'
  BY KnownGrows DEF LeaveOK

LEMMA IdleOK == CallOK(IdleCall) /\ Cleared \in StoreState /\ Cleared.pair = 0
                /\ NoRefresh \in RefreshState /\ NoRefresh.stage = "no"
                /\ NotLeaving \in LeaveState /\ NotLeaving.stage = "no"
  BY BoundsAssumption DEF CallOK, IdleCall, CallState, Cleared, StoreState, NoRefresh, RefreshState, NotLeaving, LeaveState

\* One request moves on with the pair it has.
LEMMA StageSet ==
    ASSUME IssuedOK, Grown, CallsOK, NEW c \in Calls, calls[c].stage # "idle",
           NEW stage \in {"denied", "waiting"}, SetCall(c, stage)
    PROVE  CallsOK'
<1>. DEFINE r == [calls[c] EXCEPT !.stage = stage]
<1>1. calls[c] \in CallState /\ calls[c].pair \in Known
  BY DEF CallsOK, CallOK
<1>2. r \in CallState /\ r.pair = calls[c].pair
  BY <1>1 DEF CallState
<1>3. calls' = [calls EXCEPT ![c] = r]
  BY DEF SetCall
<1>. HIDE DEF r
<1>4. \A d \in Calls : calls'[d] = IF d = c THEN r ELSE calls[d]
  BY <1>3 DEF CallsOK
<1>5. calls' \in [Calls -> CallState]
  BY <1>2, <1>3 DEF CallsOK
<1>. QED  BY <1>1, <1>2, <1>4, <1>5, KnownGrows DEF CallsOK, CallOK

\* One request starts over, or ends.
LEMMA CallReplaced ==
    ASSUME IssuedOK, Grown, CallsOK, NEW c \in Calls, NEW r, r \in CallState, r.stage # "idle" => r.pair \in Known,
           calls' = [calls EXCEPT ![c] = r]
    PROVE  CallsOK'
<1>1. \A d \in Calls : calls'[d] = IF d = c THEN r ELSE calls[d]
  BY DEF CallsOK
<1>2. calls' \in [Calls -> CallState]
  BY DEF CallsOK
<1>. QED  BY <1>1, <1>2, KnownGrows DEF CallsOK, CallOK

LEMMA CallEnded ==
    ASSUME IssuedOK, Grown, CallsOK, NEW c \in Calls, calls' = [calls EXCEPT ![c] = IdleCall]
    PROVE  CallsOK'
<1>1. IdleCall \in CallState /\ IdleCall.stage = "idle"
  BY IdleOK DEF CallOK, IdleCall
<1>. QED  BY <1>1, CallReplaced

Parts == IssuedOK /\ StoreOK /\ CallsOK /\ RefreshOK /\ LeaveOK /\ CountsOK

LEMMA CountsKept == ASSUME CountsOK, UNCHANGED <<losses, switches, entering>> PROVE CountsOK'
  BY DEF CountsOK

\* A request sent with the pair of now, or again with the new one.
LEMMA SentOK ==
    ASSUME NEW n \in 0..MaxPairs, NEW b \in BOOLEAN
    PROVE  [stage |-> "sent", pair |-> n, retried |-> b] \in CallState
  BY DEF CallState

LEMMA KnownIsPair == ASSUME IssuedOK PROVE Known \subseteq 0..MaxPairs
  BY BoundsAssumption DEF IssuedOK, Known

LEMMA CallStepTypes ==
    ASSUME Parts, Grown, NEW c \in Calls, CallStep(c)
    PROVE  Parts'
<1>p. IssuedOK /\ StoreOK /\ CallsOK /\ RefreshOK /\ LeaveOK /\ CountsOK /\ IssuedOK'
  BY DEF Parts, Grown
<1>1. CASE Send(c)
  <2>. DEFINE r == [stage |-> "sent", pair |-> store.pair, retried |-> FALSE]
  <2>1. store.pair \in Known
    BY <1>1, <1>p DEF Send, LoggedIn, StoreOK
  <2>2. r \in CallState /\ r.pair \in Known
    BY <1>p, <2>1, KnownIsPair DEF CallState
  <2>3. calls' = [calls EXCEPT ![c] = r]
    BY <1>1 DEF Send
  <2>. HIDE DEF r
  <2>4. CallsOK'
    BY <1>p, <2>2, <2>3, CallReplaced
  <2>. QED  BY <1>1, <1>p, <2>4, StoreKept, RefreshKept, LeaveKept, CountsKept DEF Send, Parts
<1>2. CASE Answer(c)
  <2>1. CallsOK'
    BY <1>2, <1>p, CallEnded, StageSet DEF Answer
  <2>. QED  BY <1>2, <1>p, <2>1, StoreKept, RefreshKept, LeaveKept, CountsKept DEF Answer, Parts
<1>3. CASE LoseAnswer(c)
  <2>1. CallsOK'
    BY <1>3, <1>p, CallEnded DEF LoseAnswer
  <2>2. CountsOK'
    BY <1>3, <1>p, BoundsAssumption DEF LoseAnswer, CountsOK
  <2>. QED  BY <1>3, <1>p, <2>1, <2>2, StoreKept, RefreshKept, LeaveKept DEF LoseAnswer, Parts
<1>4. CASE StartRefresh(c)
  <2>1. CallsOK'
    BY <1>4, <1>p, StageSet DEF StartRefresh
  <2>2. store.pair \in Known
    BY <1>4, <1>p DEF StartRefresh, LoggedIn, StoreOK
  <2>3. RefreshOK'
    BY <1>4, <1>p, <2>2, KnownGrows, KnownIsPair, BoundsAssumption DEF StartRefresh, RefreshOK, RefreshState
  <2>. QED  BY <1>4, <1>p, <2>1, <2>3, StoreKept, LeaveKept, CountsKept DEF StartRefresh, Parts
<1>5. CASE AwaitRefresh(c)
  <2>1. CallsOK'
    BY <1>5, <1>p, StageSet DEF AwaitRefresh
  <2>. QED  BY <1>5, <1>p, <2>1, StoreKept, RefreshKept, LeaveKept, CountsKept DEF AwaitRefresh, Parts
<1>6. CASE GiveUp(c)
  <2>1. CallsOK'
    BY <1>6, <1>p, CallEnded DEF GiveUp
  <2>2. store' = store \/ store' = Cleared
    BY <1>6 DEF GiveUp
  <2>3. StoreOK'
    BY <1>p, <2>2, StoreKept, IdleOK DEF StoreOK
  <2>. QED  BY <1>6, <1>p, <2>1, <2>3, RefreshKept, LeaveKept, CountsKept DEF GiveUp, Parts
<1>. QED  BY <1>1, <1>2, <1>3, <1>4, <1>5, <1>6 DEF CallStep

LEMMA RefreshStepTypes ==
    ASSUME Parts, Grown, RefreshStep
    PROVE  Parts'
<1>p. IssuedOK /\ StoreOK /\ CallsOK /\ RefreshOK /\ LeaveOK /\ CountsOK /\ IssuedOK'
  BY DEF Parts, Grown
<1>1. CASE ServeRefresh
  <2>1. refreshing.pair \in Known' /\ refreshing \in RefreshState
    BY <1>1, <1>p, KnownGrows DEF ServeRefresh, RefreshOK
  <2>2. ASSUME CanIssue, refreshing' = [refreshing EXCEPT !.stage = "granted", !.got = NextPair],
               issued' = Append([issued EXCEPT ![refreshing.pair].refresh = "used"], FreshPair)
        PROVE  RefreshOK'
    <3>1. refreshing.pair \in 1..Len(issued)
      BY <1>1, <1>p DEF ServeRefresh, RefreshOK, Known
    <3>2. Len(issued') = NextPair
      BY <1>p, <2>2, <3>1, ServedGrows
    <3>3. NextPair \in Known' /\ NextPair \in 0..MaxPairs
      BY <1>p, <3>2 DEF IssuedOK, Known, NextPair
    <3>4. /\ refreshing' \in RefreshState /\ refreshing'.pair = refreshing.pair
          /\ refreshing'.got = NextPair
      BY <2>1, <2>2, <3>3 DEF RefreshState
    <3>. QED  BY <2>1, <3>3, <3>4 DEF RefreshOK
  <2>3. ASSUME refreshing' = [refreshing EXCEPT !.stage = "refused"] PROVE RefreshOK'
    <3>1. refreshing' \in RefreshState /\ refreshing'.pair = refreshing.pair /\ refreshing'.stage = "refused"
      BY <2>1, <2>3 DEF RefreshState
    <3>. QED  BY <2>1, <3>1 DEF RefreshOK
  <2>4. RefreshOK'
    BY <1>1, <2>2, <2>3, Zenon DEF ServeRefresh
  <2>. QED  BY <1>1, <1>p, <2>4, StoreKept, CallsKept, LeaveKept, CountsKept DEF ServeRefresh, Parts
<1>2. CASE LoseRefresh
  <2>1. refreshing.pair \in Known' /\ refreshing \in RefreshState
    BY <1>2, <1>p, KnownGrows DEF LoseRefresh, RefreshOK
  <2>2. refreshing' = [refreshing EXCEPT !.stage = "refused", !.got = 0]
    BY <1>2 DEF LoseRefresh
  <2>3. refreshing' \in RefreshState /\ refreshing'.pair = refreshing.pair /\ refreshing'.stage = "refused"
    <3>1. 0 \in 0..MaxPairs
      BY BoundsAssumption
    <3>. QED  BY <2>1, <2>2, <3>1 DEF RefreshState
  <2>5. RefreshOK'
    BY <2>1, <2>3 DEF RefreshOK
  <2>4. CountsOK'
    BY <1>2, <1>p, BoundsAssumption DEF LoseRefresh, CountsOK
  <2>. QED  BY <1>2, <1>p, <2>4, <2>5, StoreKept, CallsKept, LeaveKept DEF LoseRefresh, Parts
<1>3. CASE RefreshGranted
  <2>1. refreshing.got \in Known' /\ refreshing.got \in 0..MaxPairs
    BY <1>3, <1>p, KnownGrows DEF RefreshGranted, RefreshOK, RefreshState
  <2>2. StoreOK'
    BY <1>3, <1>p, <2>1 DEF RefreshGranted, StoreOK, StoreState
  <2>. DEFINE r == [stage |-> "sent", pair |-> refreshing.got, retried |-> TRUE]
  <2>3. r \in CallState /\ r.pair = refreshing.got
    BY <2>1 DEF CallState
  <2>4. calls' = [c \in Calls |-> IF c \in Waiting THEN r ELSE calls[c]]
    BY <1>3 DEF RefreshGranted
  <2>. HIDE DEF r
  <2>5. CallsOK'
    BY <1>p, <2>1, <2>3, <2>4, KnownGrows DEF CallsOK, CallOK
  <2>6. RefreshOK'
    BY <1>3, IdleOK DEF RefreshGranted, RefreshOK
  <2>. QED  BY <1>3, <1>p, <2>2, <2>5, <2>6, LeaveKept, CountsKept DEF RefreshGranted, Parts
<1>4. CASE RefreshRefused
  <2>1. StoreOK'
    BY <1>4, IdleOK DEF RefreshRefused, StoreOK
  <2>2. IdleCall \in CallState /\ IdleCall.stage = "idle"
    BY IdleOK DEF CallOK, IdleCall
  <2>3. calls' = [c \in Calls |-> IF c \in Waiting THEN IdleCall ELSE calls[c]]
    BY <1>4 DEF RefreshRefused
  <2>4. CallsOK'
    BY <1>p, <2>2, <2>3, KnownGrows DEF CallsOK, CallOK
  <2>5. RefreshOK'
    BY <1>4, IdleOK DEF RefreshRefused, RefreshOK
  <2>. QED  BY <1>4, <1>p, <2>1, <2>4, <2>5, LeaveKept, CountsKept DEF RefreshRefused, Parts
<1>. QED  BY <1>1, <1>2, <1>3, <1>4 DEF RefreshStep

LEMMA LeaveStepTypes ==
    ASSUME Parts, Grown, LeaveStep
    PROVE  Parts'
<1>p. IssuedOK /\ StoreOK /\ CallsOK /\ RefreshOK /\ LeaveOK /\ CountsOK /\ IssuedOK'
  BY DEF Parts, Grown
<1>1. CASE Logout
  <2>1. store.pair \in Known' /\ store.pair \in 0..MaxPairs
    BY <1>1, <1>p, KnownGrows DEF Logout, LoggedIn, StoreOK, StoreState
  <2>2. LeaveOK'
    BY <1>1, <2>1 DEF Logout, LeaveOK, LeaveState
  <2>. QED  BY <1>1, <1>p, <2>2, StoreKept, CallsKept, RefreshKept, CountsKept DEF Logout, Parts
<1>2. CASE ServeLogout
  <2>1. leaving.pair \in Known' /\ leaving \in LeaveState
    BY <1>2, <1>p, KnownGrows DEF ServeLogout, LeaveOK
  <2>2. LeaveOK'
    BY <1>2, <2>1 DEF ServeLogout, LeaveOK, LeaveState
  <2>. QED  BY <1>2, <1>p, <2>2, StoreKept, CallsKept, RefreshKept, CountsKept DEF ServeLogout, Parts
<1>3. CASE LeaveLocally
  <2>1. StoreOK' /\ LeaveOK'
    BY <1>3, IdleOK DEF LeaveLocally, StoreOK, LeaveOK
  <2>. QED  BY <1>3, <1>p, <2>1, CallsKept, RefreshKept, CountsKept DEF LeaveLocally, Parts
<1>4. CASE LoseLogout
  <2>1. leaving.pair \in Known' /\ leaving \in LeaveState
    BY <1>4, <1>p, KnownGrows DEF LoseLogout, LeaveOK
  <2>2. LeaveOK'
    BY <1>4, <2>1 DEF LoseLogout, LeaveOK, LeaveState
  <2>3. CountsOK'
    BY <1>4, <1>p, BoundsAssumption DEF LoseLogout, CountsOK
  <2>. QED  BY <1>4, <1>p, <2>2, <2>3, StoreKept, CallsKept, RefreshKept DEF LoseLogout, Parts
<1>. QED  BY <1>1, <1>2, <1>3, <1>4 DEF LeaveStep

LEMMA SessionTypes ==
    ASSUME SessionTypeOK, SessionNext
    PROVE  SessionTypeOK'
<1>g. Grown
  BY PairsStep
<1>p. Parts /\ IssuedOK /\ StoreOK /\ CallsOK /\ RefreshOK /\ LeaveOK /\ CountsOK /\ IssuedOK'
  BY <1>g, SessionParts DEF Parts, Grown
<1>1. ASSUME Login PROVE Parts'
  <2>1. Len(issued') = NextPair
    BY <1>1, <1>p, AppendGrows DEF Login
  <2>2. NextPair \in Known' /\ NextPair \in 0..MaxPairs
    BY <1>p, <2>1 DEF IssuedOK, Known, NextPair
  <2>3. StoreOK'
    BY <1>1, <2>2 DEF Login, StoreOK, StoreState
  <2>4. CountsOK'
    BY <1>1, <1>p DEF Login, CountsOK
  <2>. QED  BY <1>1, <1>g, <1>p, <2>3, <2>4, CallsKept, RefreshKept, LeaveKept DEF Login, Parts
<1>2. ASSUME NEW t \in Tenants \cup {Own}, SwitchTenant(t) PROVE Parts'
  <2>1. store' = [store EXCEPT !.viewing = t] /\ Known \subseteq Known'
    BY <1>2, <1>g, <1>p, KnownGrows DEF SwitchTenant
  <2>2. StoreOK'
    BY <1>p, <2>1 DEF StoreOK, StoreState
  <2>3. CountsOK'
    BY <1>2, <1>p, BoundsAssumption DEF SwitchTenant, CountsOK
  <2>. QED  BY <1>2, <1>g, <1>p, <2>2, <2>3, CallsKept, RefreshKept, LeaveKept DEF SwitchTenant, Parts
<1>3. ASSUME NEW n \in 1..Len(issued), Expire(n) PROVE Parts'
  BY <1>3, <1>g, <1>p, StoreKept, CallsKept, RefreshKept, LeaveKept, CountsKept DEF Expire, Parts
<1>6. ASSUME EntryStep PROVE Parts'
  <2>1. CountsOK' /\ UNCHANGED <<store, calls, refreshing, leaving>>
    BY <1>6, <1>p DEF EntryStep, Enter, LoginFails, CountsOK
  <2>. QED  BY <1>g, <1>p, <2>1, StoreKept, CallsKept, RefreshKept, LeaveKept DEF Parts
<1>4. Parts'
  <2>1. ASSUME NEW c \in Calls, CallStep(c) PROVE Parts'
    BY <2>1, <1>g, <1>p, CallStepTypes
  <2>2. ASSUME RefreshStep PROVE Parts'
    BY <2>2, <1>g, <1>p, RefreshStepTypes
  <2>3. ASSUME LeaveStep PROVE Parts'
    BY <2>3, <1>g, <1>p, LeaveStepTypes
  <2>. QED  BY <1>1, <1>2, <1>3, <1>6, <2>1, <2>2, <2>3, Zenon DEF SessionNext
<1>5. (SessionTypeOK <=> IssuedOK /\ StoreOK /\ CallsOK /\ RefreshOK /\ LeaveOK /\ CountsOK)'
  BY SessionParts, PTL
<1>. QED  BY <1>4, <1>5, Zenon DEF Parts

(***************************************************************************)
(* The feed: its type, and that its socket was opened with the keys of the *)
(* effect that runs.                                                       *)
(***************************************************************************)
FeedOK ==
    /\ feed \in FeedState
    /\ feed.socket # "none" => feed.pair \in Known /\ ~feed.timer

SeenOK == live \in {"loaded", "followed", "behind"} /\ drops \in 0..MaxDrops

\* A closure with a token has a socket or a timer, and one without has none.
FeedFollowsKeys ==
    /\ feed.socket # "none" => feed.pair = feed.keys.pair /\ feed.viewing = feed.keys.viewing
    /\ feed.socket # "none" \/ feed.timer <=> feed.keys.pair # 0

FeedInv == SessionTypeOK /\ FeedOK /\ SeenOK /\ FeedFollowsKeys

LEMMA TypeParts == TypeOK <=> SessionTypeOK /\ FeedOK /\ SeenOK
  BY DEF TypeOK, FeedOK, SeenOK, Known

LEMMA InitTypes == ASSUME Init PROVE FeedInv
<1>1. 0 \in 0..MaxPairs /\ 0 \in 0..MaxLosses /\ 0 \in 0..MaxSwitches /\ 0 \in 0..MaxDrops
  BY BoundsAssumption, MaxDropsAssumption
<1>2. store = Cleared /\ calls = [c \in Calls |-> IdleCall] /\ refreshing = NoRefresh /\ leaving = NotLeaving
  BY DEF Init, SessionInit
<1>3. issued \in Seq(IssuedPair) /\ Len(issued) = 0
  BY EmptySeq DEF Init, SessionInit
<1>4. IssuedOK /\ StoreOK /\ RefreshOK /\ LeaveOK
  BY <1>1, <1>2, <1>3, IdleOK DEF IssuedOK, StoreOK, RefreshOK, LeaveOK
<1>5. CallsOK
  BY <1>2, IdleOK DEF CallsOK, CallOK
<1>6. CountsOK /\ SeenOK
  BY <1>1 DEF Init, SessionInit, CountsOK, SeenOK
<1>7. FeedOK /\ FeedFollowsKeys
  BY <1>1, IdleOK DEF Init, FeedOK, FeedFollowsKeys, FeedState, Cleared
<1>. QED  BY <1>4, <1>5, <1>6, <1>7, SessionParts DEF FeedInv

LEMMA SessionTypesKept == ASSUME SessionTypeOK, UNCHANGED sessionVars PROVE SessionTypeOK'
  BY DEF SessionTypeOK, sessionVars

\* A session step leaves the feed alone, which still names a pair issued.
LEMMA BesideTypes ==
    ASSUME FeedInv, SessionNext, UNCHANGED <<feed, drops>>, live' \in {live, "loaded"}
    PROVE  FeedInv'
<1>1. SessionTypeOK' /\ Grown /\ IssuedOK
  BY SessionTypes, PairsStep, IssuedParts DEF FeedInv
<1>2. FeedOK' /\ SeenOK' /\ FeedFollowsKeys'
  BY <1>1, KnownGrows DEF FeedInv, FeedOK, SeenOK, FeedFollowsKeys
<1>. QED  BY <1>1, <1>2 DEF FeedInv

LEMMA ClosedKeeps ==
    ASSUME FeedInv, feed.socket # "none", Closed, UNCHANGED sessionVars
    PROVE  FeedOK' /\ FeedFollowsKeys'
<1>1. /\ feed' \in FeedState /\ feed'.socket = "none" /\ feed'.keys = feed.keys
      /\ feed'.timer /\ feed.keys.pair # 0
  BY DEF FeedInv, FeedOK, FeedFollowsKeys, Closed, FeedState
<1>. QED  BY <1>1 DEF FeedOK, FeedFollowsKeys

LEMMA FeedStepTypes ==
    ASSUME FeedInv, RunEffect \/ SocketStep
    PROVE  FeedInv'
<1>p. SessionTypeOK /\ IssuedOK /\ StoreOK /\ FeedOK /\ SeenOK /\ FeedFollowsKeys
  BY SessionParts DEF FeedInv
<1>u. UNCHANGED sessionVars /\ SessionTypeOK'
  <2>1. UNCHANGED sessionVars
    BY DEF RunEffect, SocketStep, Opened, Refused, Drop, Reconnect, Miss
  <2>. QED  BY <2>1, <1>p, SessionTypesKept
<1>k. Known' = Known
  BY <1>u DEF sessionVars, Known
<1>s. /\ store.pair \in 0..MaxPairs /\ store.viewing \in Tenants \cup {Own}
      /\ LoggedIn => store.pair \in Known
  BY <1>p DEF StoreOK, StoreState, LoggedIn
<1>1. ASSUME RunEffect PROVE FeedInv'
  <2>1. feed' = [keys |-> Keys, socket |-> IF LoggedIn THEN "connecting" ELSE "none", pair |-> store.pair,
                 viewing |-> store.viewing, timer |-> FALSE, opened |-> FALSE]
    BY <1>1 DEF RunEffect
  <2>2. /\ feed' \in FeedState /\ feed'.timer = FALSE /\ feed'.pair = store.pair
        /\ feed'.viewing = store.viewing /\ feed'.keys.pair = store.pair /\ feed'.keys.viewing = store.viewing
        /\ feed'.socket # "none" <=> LoggedIn
    BY <1>s, <2>1 DEF FeedState, Keys
  <2>3. FeedOK' /\ FeedFollowsKeys'
    BY <1>s, <1>k, <2>2 DEF FeedOK, FeedFollowsKeys, LoggedIn
  <2>. QED  BY <1>1, <1>p, <1>u, <2>3 DEF RunEffect, FeedInv, SeenOK
<1>2. ASSUME Opened PROVE FeedInv'
  <2>1. /\ feed' \in FeedState /\ feed'.timer = feed.timer /\ feed'.pair = feed.pair
        /\ feed'.viewing = feed.viewing /\ feed'.keys = feed.keys /\ feed.socket # "none" /\ feed'.socket # "none"
    BY <1>2, <1>p DEF Opened, FeedOK, FeedState
  <2>2. FeedOK' /\ FeedFollowsKeys'
    BY <1>p, <1>k, <2>1 DEF FeedOK, FeedFollowsKeys
  <2>3. SeenOK'
    BY <1>2, <1>p DEF Opened, SeenOK
  <2>. QED  BY <1>u, <2>2, <2>3 DEF FeedInv
<1>3. ASSUME Refused PROVE FeedInv'
  BY <1>3, <1>p, <1>u, ClosedKeeps DEF Refused, FeedInv, SeenOK
<1>4. ASSUME Drop PROVE FeedInv'
  <2>1. SeenOK'
    BY <1>4, <1>p, MaxDropsAssumption DEF Drop, SeenOK
  <2>. QED  BY <1>4, <1>u, <2>1, ClosedKeeps DEF Drop, FeedInv
<1>5. ASSUME Reconnect, ~Due PROVE FeedInv'
  <2>1. feed.timer /\ feed.keys.pair # 0 /\ feed.keys = Keys
    BY <1>5, <1>p DEF Reconnect, FeedFollowsKeys, Due, Settled
  <2>2. LoggedIn
    BY <2>1 DEF Keys, LoggedIn
  <2>3. feed' = [feed EXCEPT !.timer = FALSE, !.socket = "connecting", !.pair = store.pair, !.viewing = store.viewing]
    BY <1>5, <2>2 DEF Reconnect
  <2>4. /\ feed' \in FeedState /\ feed'.timer = FALSE /\ feed'.pair = store.pair
        /\ feed'.viewing = store.viewing /\ feed'.keys = feed.keys /\ feed'.socket = "connecting"
    BY <1>p, <1>s, <2>3 DEF FeedOK, FeedState
  <2>5. FeedOK' /\ FeedFollowsKeys'
    BY <1>s, <1>k, <2>1, <2>2, <2>4 DEF FeedOK, FeedFollowsKeys, Keys
  <2>. QED  BY <1>5, <1>p, <1>u, <2>5 DEF Reconnect, FeedInv, SeenOK
<1>6. ASSUME Miss PROVE FeedInv'
  BY <1>6, <1>p, <1>u, <1>k DEF Miss, FeedInv, FeedOK, SeenOK, FeedFollowsKeys
<1>. QED  BY <1>1, <1>2, <1>3, <1>4, <1>5, <1>6 DEF SocketStep

LEMMA FeedInvNext == FeedInv /\ [Next]_vars => FeedInv'
<1>. SUFFICES ASSUME FeedInv, [Next]_vars PROVE FeedInv'
  OBVIOUS
<1>1. ASSUME SessionMoves PROVE FeedInv'
  BY <1>1, BesideTypes DEF SessionMoves, Beside, Loaded
<1>2. ASSUME NEW c \in Calls, Poll(c) PROVE FeedInv'
  <2>1. SessionNext /\ UNCHANGED <<feed, live, drops>>
    BY <1>2 DEF Poll, BellPolls, SessionNext, CallStep, feedVars
  <2>. QED  BY <2>1, BesideTypes
<1>3. ASSUME UNCHANGED vars PROVE FeedInv'
  BY <1>3, SessionTypesKept DEF vars, feedVars, sessionVars, FeedInv, FeedOK, SeenOK, FeedFollowsKeys, Known
<1>. QED  BY <1>1, <1>2, <1>3, FeedStepTypes DEF Next

\* The store, the pairs issued, requests, the refresh, the logout and the feed
\* keep their types, and no socket carries a token that was never issued
\* (store/auth.ts, api/client.ts, hooks/useWebSocket.ts).
THEOREM TypeCorrect == Spec => []TypeOK
<1>1. FeedInv => TypeOK
  BY TypeParts DEF FeedInv
<1>. QED  BY <1>1, InitTypes, FeedInvNext, PTL DEF Spec

\* Whenever the effect has run for the keys of now, the tab listens with the
\* token and to the tenant of its session, or will as soon as its timer fires,
\* and not at all without a session: no close, refusal or switch leaves it
\* without a next step, which is what FeedComesBack takes for granted.
THEOREM FeedFollowsSession == Spec => []FeedSpeaksForSession
<1>1. FeedInv => FeedSpeaksForSession
  BY DEF FeedInv, FeedOK, FeedFollowsKeys, FeedSpeaksForSession, Settled, Keys, LoggedIn
<1>. QED  BY <1>1, InitTypes, FeedInvNext, PTL DEF Spec

(***************************************************************************)
(* Refresh tokens.  Between refreshes the pair held was not used, and the  *)
(* pair a refresh has got was not used either: it is a pair just issued,   *)
(* and nothing is sent before the promise of the refresh is settled.       *)
(***************************************************************************)
HeldUnused ==
    /\ refreshing.stage = "no" /\ LoggedIn => issued[store.pair].uses = 0
    /\ refreshing.stage = "granted" => issued[refreshing.got].uses = 0

TokenInv == FeedInv /\ RefreshTokenUsedOnce /\ HeldUnused

LEMMA OnceKept ==
    ASSUME SessionTypeOK, RefreshTokenUsedOnce, Grown, UsesKept
    PROVE  /\ RefreshTokenUsedOnce'
           /\ \A n \in Known : n \in Known' /\ issued'[n].uses = issued[n].uses
<1>1. IssuedOK /\ Len(issued') \in Nat
  BY IssuedParts DEF Grown, IssuedOK
<1>2. \A n \in 1..Len(issued') : n \in 1..Len(issued) \/ n > Len(issued)
  BY <1>1 DEF IssuedOK
<1>3. RefreshTokenUsedOnce'
  BY <1>2 DEF RefreshTokenUsedOnce, Grown, UsesKept
<1>. QED  BY <1>1, <1>3, KnownGrows DEF UsesKept, Known

\* A refresh is started only between refreshes, with a pair that was not used.
LEMMA StartUses ==
    ASSUME TokenInv, NEW c \in Calls, StartRefresh(c), Grown
    PROVE  RefreshTokenUsedOnce' /\ HeldUnused'
<1>. DEFINE n == store.pair
            r == [issued[n] EXCEPT !.uses = @ + 1]
<1>p. IssuedOK /\ StoreOK
  BY SessionParts DEF TokenInv, FeedInv
<1>1. n \in 1..Len(issued) /\ refreshing.stage = "no"
  BY <1>p DEF StartRefresh, MustRefresh, LoggedIn, StoreOK, Known
<1>2. issued[n] \in IssuedPair /\ issued[n].uses = 0
  BY <1>1, <1>p, ElementOfSeq DEF IssuedOK, TokenInv, HeldUnused, StartRefresh
<1>3. r \in IssuedPair /\ r.uses = 1
  BY <1>2 DEF IssuedPair
<1>4. issued' = [issued EXCEPT ![n] = r]
  BY DEF StartRefresh
<1>5. refreshing'.stage = "sent"
  BY DEF StartRefresh
<1>. HIDE DEF n, r
<1>6. Len(issued') = Len(issued) /\ \A i \in 1..Len(issued) : issued'[i] = IF i = n THEN r ELSE issued[i]
  BY <1>p, <1>1, <1>3, <1>4, RewriteGrows
<1>7. RefreshTokenUsedOnce'
  BY <1>3, <1>6 DEF TokenInv, RefreshTokenUsedOnce
<1>. QED  BY <1>5, <1>7 DEF HeldUnused

LEMMA TokenSessionStep ==
    ASSUME TokenInv, SessionNext
    PROVE  RefreshTokenUsedOnce' /\ HeldUnused'
<1>p. /\ SessionTypeOK /\ RefreshTokenUsedOnce /\ HeldUnused /\ IssuedOK /\ StoreOK /\ RefreshOK
      /\ Grown /\ (UsesKept \/ \E c \in Calls : StartRefresh(c))
  BY PairsStep, SessionParts DEF TokenInv, FeedInv
<1>1. ASSUME NEW c \in Calls, StartRefresh(c) PROVE RefreshTokenUsedOnce' /\ HeldUnused'
  BY <1>1, <1>p, StartUses
<1>2. ASSUME UsesKept, \A c \in Calls : ~StartRefresh(c) PROVE RefreshTokenUsedOnce' /\ HeldUnused'
  <2>1. /\ RefreshTokenUsedOnce'
        /\ \A n \in Known : n \in Known' /\ issued'[n].uses = issued[n].uses
    BY <1>2, <1>p, OnceKept
  <2>k. /\ LoggedIn => store.pair \in Known
        /\ refreshing.stage = "granted" => refreshing.got \in Known
    BY <1>p DEF StoreOK, RefreshOK, LoggedIn
  <2>2. ASSUME UNCHANGED refreshing, store'.pair = store.pair PROVE HeldUnused'
    BY <1>p, <2>1, <2>k, <2>2 DEF HeldUnused, LoggedIn
  <2>3. ASSUME UNCHANGED refreshing, store' = Cleared PROVE HeldUnused'
    BY <1>p, <2>1, <2>k, <2>3, IdleOK DEF HeldUnused, LoggedIn
  <2>4. ASSUME Login PROVE HeldUnused'
    <3>1. Len(issued') = NextPair
      BY <1>p, <2>4, AppendGrows DEF Login
    <3>2. NextPair \in 1..Len(issued') /\ NextPair > Len(issued)
      BY <1>p, <3>1 DEF IssuedOK, NextPair
    <3>3. issued'[NextPair].uses = 0
      BY <1>p, <3>2 DEF Grown
    <3>4. store'.pair = NextPair /\ UNCHANGED refreshing
      BY <2>4 DEF Login
    <3>. QED  BY <1>p, <2>1, <2>k, <3>3, <3>4 DEF HeldUnused
  <2>5. ASSUME ServeRefresh PROVE HeldUnused'
    <3>. DEFINE n == refreshing.pair
    <3>1. n \in 1..Len(issued) /\ refreshing \in RefreshState
      BY <1>p, <2>5 DEF ServeRefresh, RefreshOK, Known
    <3>2. ASSUME refreshing' = [refreshing EXCEPT !.stage = "refused"] PROVE HeldUnused'
      <4>1. refreshing'.stage = "refused"
        BY <3>1, <3>2 DEF RefreshState
      <4>. QED  BY <4>1 DEF HeldUnused
    <3>3. ASSUME CanIssue, issued' = Append([issued EXCEPT ![n].refresh = "used"], FreshPair),
                 refreshing' = [refreshing EXCEPT !.stage = "granted", !.got = NextPair]
          PROVE  HeldUnused'
      <4>1. Len(issued') = NextPair
        BY <1>p, <3>1, <3>3, ServedGrows
      <4>2. NextPair \in 1..Len(issued') /\ NextPair > Len(issued)
        BY <1>p, <4>1 DEF IssuedOK, NextPair
      <4>3. issued'[NextPair].uses = 0
        BY <1>p, <4>2 DEF Grown
      <4>4. refreshing'.stage = "granted" /\ refreshing'.got = NextPair
        BY <3>1, <3>3 DEF RefreshState
      <4>. QED  BY <4>3, <4>4 DEF HeldUnused
    <3>. QED  BY <2>5, <3>2, <3>3, Zenon DEF ServeRefresh
  <2>6. ASSUME LoseRefresh PROVE HeldUnused'
    <3>1. refreshing'.stage = "refused"
      BY <1>p, <2>6 DEF LoseRefresh, RefreshOK, RefreshState
    <3>. QED  BY <3>1 DEF HeldUnused
  <2>7. ASSUME RefreshGranted PROVE HeldUnused'
    <3>1. store'.pair = refreshing.got /\ refreshing'.stage = "no" /\ refreshing.stage = "granted"
      BY <1>p, <2>7, IdleOK DEF RefreshGranted, StoreOK, StoreState
    <3>. QED  BY <1>p, <2>1, <2>k, <3>1 DEF HeldUnused
  <2>8. ASSUME RefreshRefused PROVE HeldUnused'
    BY <2>8, IdleOK DEF RefreshRefused, HeldUnused, LoggedIn
  <2>9. ASSUME NEW t \in Tenants \cup {Own}, SwitchTenant(t) PROVE HeldUnused'
    <3>1. store'.pair = store.pair
      BY <1>p, <2>9 DEF SwitchTenant, StoreOK, StoreState
    <3>. QED  BY <2>2, <2>9, <3>1 DEF SwitchTenant
  <2>10. ASSUME NEW n \in 1..Len(issued), Expire(n) PROVE HeldUnused'
    BY <2>2, <2>10 DEF Expire
  <2>11. ASSUME NEW c \in Calls, CallStep(c) PROVE HeldUnused'
    <3>1. Send(c) \/ Answer(c) \/ LoseAnswer(c) \/ AwaitRefresh(c) \/ GiveUp(c)
      BY <1>2, <2>11 DEF CallStep
    <3>2. UNCHANGED refreshing /\ (UNCHANGED store \/ store' = Cleared)
      BY <3>1 DEF Send, Answer, LoseAnswer, AwaitRefresh, GiveUp
    <3>. QED  BY <2>2, <2>3, <3>2
  <2>12. ASSUME LeaveStep PROVE HeldUnused'
    <3>1. UNCHANGED refreshing /\ (UNCHANGED store \/ store' = Cleared)
      BY <2>12 DEF LeaveStep, Logout, ServeLogout, LoseLogout, LeaveLocally
    <3>. QED  BY <2>2, <2>3, <3>1
  <2>13. ASSUME EntryStep PROVE HeldUnused'
    BY <2>2, <2>13 DEF EntryStep, Enter, LoginFails
  <2>. QED  BY <2>1, <2>4, <2>5, <2>6, <2>7, <2>8, <2>9, <2>10, <2>11, <2>12, <2>13 DEF SessionNext, RefreshStep
<1>. QED  BY <1>1, <1>2, <1>p

LEMMA TokenInit == ASSUME Init PROVE TokenInv
<1>1. FeedInv /\ Len(issued) = 0 /\ store = Cleared /\ refreshing = NoRefresh
  BY InitTypes, EmptySeq DEF Init, SessionInit
<1>2. RefreshTokenUsedOnce /\ HeldUnused
  BY <1>1, IdleOK DEF RefreshTokenUsedOnce, HeldUnused, LoggedIn
<1>. QED  BY <1>1, <1>2 DEF TokenInv

LEMMA TokenInvNext == TokenInv /\ [Next]_vars => TokenInv'
<1>. SUFFICES ASSUME TokenInv, [Next]_vars PROVE TokenInv'
  OBVIOUS
<1>1. FeedInv'
  BY FeedInvNext DEF TokenInv
<1>2. SessionNext \/ UNCHANGED sessionVars
  BY DEF Next, SessionMoves, RunEffect, SocketStep, Opened, Refused, Drop, Reconnect, Miss, Poll, BellPolls,
         SessionNext, CallStep, vars
<1>3. ASSUME UNCHANGED sessionVars PROVE RefreshTokenUsedOnce' /\ HeldUnused'
  BY <1>3 DEF sessionVars, TokenInv, RefreshTokenUsedOnce, HeldUnused, LoggedIn
<1>. QED  BY <1>1, <1>2, <1>3, TokenSessionStep DEF TokenInv

\* A request that waits has a refresh to wait for: the promise is created
\* before the first of them awaits it, and settling it releases them all.
RefreshAwaited == \A c \in Calls : calls[c].stage = "waiting" => refreshing.stage # "no"

LEMMA AwaitedStep ==
    ASSUME SessionTypeOK, RefreshAwaited, SessionNext
    PROVE  RefreshAwaited'
<1>p. CallsOK /\ RefreshOK /\ calls \in [Calls -> CallState]
  BY SessionParts DEF CallsOK
<1>1. ASSUME UNCHANGED <<calls, refreshing>> PROVE RefreshAwaited'
  BY <1>1 DEF RefreshAwaited
<1>2. ASSUME NEW c \in Calls, NEW r, r.stage # "waiting", calls' = [calls EXCEPT ![c] = r], UNCHANGED refreshing
      PROVE  RefreshAwaited'
  BY <1>2, <1>p DEF RefreshAwaited
<1>3. ASSUME refreshing' # refreshing => refreshing'.stage # "no", UNCHANGED calls PROVE RefreshAwaited'
  BY <1>3 DEF RefreshAwaited
<1>4. ASSUME NEW c \in Calls, CallStep(c) PROVE RefreshAwaited'
  <2>1. CASE Send(c)
    <3>1. \A n, b : [stage |-> "sent", pair |-> n, retried |-> b].stage # "waiting"
      OBVIOUS
    <3>. QED  BY <2>1, <3>1, <1>2 DEF Send
  <2>2. CASE Answer(c) \/ LoseAnswer(c) \/ GiveUp(c)
    <3>1. IdleCall.stage # "waiting" /\ [calls[c] EXCEPT !.stage = "denied"].stage # "waiting"
      BY <1>p DEF IdleCall, CallState
    <3>2. \/ calls' = [calls EXCEPT ![c] = IdleCall]
          \/ calls' = [calls EXCEPT ![c] = [calls[c] EXCEPT !.stage = "denied"]]
      BY <2>2 DEF Answer, LoseAnswer, GiveUp, SetCall
    <3>. QED  BY <2>2, <3>1, <3>2, <1>2 DEF Answer, LoseAnswer, GiveUp
  <2>3. CASE StartRefresh(c) \/ AwaitRefresh(c)
    <3>1. refreshing'.stage # "no"
      BY <2>3 DEF StartRefresh, AwaitRefresh
    <3>. QED  BY <3>1 DEF RefreshAwaited
  <2>. QED  BY <1>4, <2>1, <2>2, <2>3 DEF CallStep
<1>5. CASE ServeRefresh \/ LoseRefresh
  <2>1. refreshing'.stage # "no" /\ UNCHANGED calls
    BY <1>5, <1>p DEF ServeRefresh, LoseRefresh, RefreshOK, RefreshState
  <2>. QED  BY <2>1, <1>3
<1>6. CASE RefreshGranted \/ RefreshRefused
  <2>1. \A c \in Calls : calls'[c].stage # "waiting"
    BY <1>6 DEF RefreshGranted, RefreshRefused, Waiting, IdleCall
  <2>. QED  BY <2>1 DEF RefreshAwaited
<1>7. CASE LeaveStep \/ EntryStep \/ Login \/ (\E t \in Tenants \cup {Own} : SwitchTenant(t)) \/ \E n \in 1..Len(issued) : Expire(n)
  BY <1>7, <1>1 DEF LeaveStep, Logout, ServeLogout, LoseLogout, LeaveLocally, EntryStep, Enter, LoginFails, Login, SwitchTenant, Expire
<1>. QED  BY <1>4, <1>5, <1>6, <1>7 DEF SessionNext, RefreshStep

\* No request waits for a refresh that waits for nothing: as long as one waits,
\* a refresh has an answer, a refusal or a network error to come, and settling
\* it is the step that CallsComeToAnEnd asks of fairness (refreshAccessToken
\* and the response interceptor in api/client.ts).
THEOREM NobodyWaitsInVain == Spec => []RefreshAwaited
<1>1. Init => RefreshAwaited
  BY DEF Init, SessionInit, RefreshAwaited, IdleCall
<1>2. FeedInv /\ RefreshAwaited /\ [Next]_vars => RefreshAwaited'
  <2>. SUFFICES ASSUME FeedInv, RefreshAwaited, [Next]_vars PROVE RefreshAwaited'
    OBVIOUS
  <2>1. SessionNext \/ UNCHANGED sessionVars
    BY DEF Next, SessionMoves, RunEffect, SocketStep, Opened, Refused, Drop, Reconnect, Miss, Poll, BellPolls,
           SessionNext, CallStep, vars
  <2>2. ASSUME UNCHANGED sessionVars PROVE RefreshAwaited'
    BY <2>2 DEF sessionVars, RefreshAwaited
  <2>. QED  BY <2>1, <2>2, AwaitedStep DEF FeedInv
<1>. QED  BY <1>1, <1>2, InitTypes, FeedInvNext, PTL DEF Spec

\* A refresh token is sent by at most one refresh, however many requests are
\* rejected at once and whatever answers are lost, for any number of requests
\* (refreshAccessToken in api/client.ts, consumeRefresh in auth/tokens.go).
THEOREM RefreshTokensUsedOnce == Spec => []RefreshTokenUsedOnce
<1>1. TokenInv => RefreshTokenUsedOnce
  BY DEF TokenInv
<1>. QED  BY <1>1, TokenInit, TokenInvNext, PTL DEF Spec

---------------------------------------------------------------------------

(***************************************************************************)
(* What must happen in a tab: every request comes to an end, for any       *)
(* number of requests, pairs, lost answers and switches.                   *)
(*                                                                         *)
(* The bounds of an instance leave a session finitely many changes of its  *)
(* keys, which is why weak fairness is enough there.  Without them the     *)
(* effect may be due over and over, so fairness is strong here: what a     *)
(* page waits for happens unless, from some time on, it is never possible. *)
(* A browser takes up the events of a tab one after the other.             *)
(***************************************************************************)
\* A step of the session, or one that leaves it alone.
LEMMA SessionOrNot == [Next]_vars => SessionNext \/ UNCHANGED sessionVars
  BY DEF Next, SessionMoves, RunEffect, SocketStep, Opened, Refused, Drop, Reconnect, Miss, Poll, BellPolls,
         SessionNext, CallStep, vars

CallInv == FeedInv /\ RefreshAwaited

LEMMA CallInvariance == Spec => []CallInv
<1>1. Init => FeedInv
  BY InitTypes
<1>2. Spec => []FeedInv
  BY <1>1, FeedInvNext, PTL DEF Spec
<1>. QED  BY <1>2, NobodyWaitsInVain, PTL DEF CallInv

(***************************************************************************)
(* How a request moves on, whoever takes the step.                         *)
(***************************************************************************)
Ended(c) == calls[c].stage = "idle"

SentGoes(c) ==
    \/ calls'[c] = calls[c]
    \/ Ended(c)'
    \/ calls'[c].stage = "denied" /\ calls'[c].retried = calls[c].retried

DeniedGoes(c) ==
    \/ calls'[c] = calls[c]
    \/ Ended(c)'
    \/ calls'[c].stage = "waiting" /\ ~calls[c].retried

WaitingGoes(c) ==
    \/ calls'[c] = calls[c] /\ refreshing'.stage \in CASE refreshing.stage = "sent"    -> {"sent", "granted", "refused"}
                                                       [] refreshing.stage = "granted" -> {"granted", "refused"}
                                                       [] OTHER                        -> {"refused"}
    \/ Ended(c)'
    \/ refreshing.stage = "granted" /\ calls'[c].stage = "sent" /\ calls'[c].retried

Goes(c) ==
    /\ calls[c].stage = "sent" => SentGoes(c)
    /\ calls[c].stage = "denied" => DeniedGoes(c)
    /\ calls[c].stage = "waiting" => WaitingGoes(c)

LEMMA CallGoes ==
    ASSUME CallInv, SessionNext \/ UNCHANGED sessionVars, NEW c \in Calls
    PROVE  Goes(c)
<1>t. /\ calls \in [Calls -> CallState] /\ refreshing \in RefreshState
      /\ calls[c].stage = "waiting" => refreshing.stage \in {"sent", "granted", "refused"}
  BY SessionParts DEF CallInv, FeedInv, CallsOK, RefreshOK, RefreshAwaited, RefreshState
<1>0. ASSUME UNCHANGED <<calls, refreshing>> PROVE Goes(c)
  BY <1>0, <1>t DEF Goes, SentGoes, DeniedGoes, WaitingGoes
<1>1. ASSUME NEW d \in Calls, d # c, CallStep(d) PROVE Goes(c)
  <2>1. calls'[c] = calls[c]
    BY <1>1, <1>t DEF CallStep, Send, Answer, LoseAnswer, StartRefresh, AwaitRefresh, GiveUp, SetCall
  <2>2. calls[c].stage = "waiting" => refreshing' = refreshing
    BY <1>1, <1>t DEF CallStep, Send, Answer, LoseAnswer, StartRefresh, AwaitRefresh, GiveUp, MustRefresh
  <2>. QED  BY <1>t, <2>1, <2>2 DEF Goes, SentGoes, DeniedGoes, WaitingGoes
<1>2. ASSUME Send(c) PROVE Goes(c)
  BY <1>2 DEF Send, Goes
<1>3. ASSUME Answer(c) \/ LoseAnswer(c) PROVE Goes(c)
  <2>1. calls[c].stage = "sent"
    BY <1>3 DEF Answer, LoseAnswer
  <2>2. calls'[c].stage = "idle" \/ (calls'[c].stage = "denied" /\ calls'[c].retried = calls[c].retried)
    BY <1>3, <1>t DEF Answer, LoseAnswer, SetCall, IdleCall, CallState
  <2>. QED  BY <2>1, <2>2 DEF Goes, SentGoes, Ended
<1>4. ASSUME StartRefresh(c) \/ AwaitRefresh(c) PROVE Goes(c)
  <2>1. calls[c].stage = "denied" /\ ~calls[c].retried
    BY <1>4 DEF StartRefresh, AwaitRefresh
  <2>2. calls'[c].stage = "waiting"
    BY <1>4, <1>t DEF StartRefresh, AwaitRefresh, SetCall, CallState
  <2>. QED  BY <2>1, <2>2 DEF Goes, DeniedGoes
<1>5. ASSUME GiveUp(c) PROVE Goes(c)
  <2>1. calls[c].stage = "denied" /\ calls'[c].stage = "idle"
    BY <1>5, <1>t DEF GiveUp, IdleCall
  <2>. QED  BY <2>1 DEF Goes, DeniedGoes, Ended
<1>6. ASSUME ServeRefresh \/ LoseRefresh PROVE Goes(c)
  <2>1. UNCHANGED calls /\ refreshing.stage \in {"sent", "granted"}
    BY <1>6 DEF ServeRefresh, LoseRefresh
  <2>2. refreshing'.stage \in {"granted", "refused"} /\ (refreshing.stage = "granted" => refreshing'.stage = "refused")
    BY <1>6, <1>t DEF ServeRefresh, LoseRefresh, RefreshState
  <2>. QED  BY <2>1, <2>2 DEF Goes, SentGoes, DeniedGoes, WaitingGoes
<1>7. ASSUME RefreshGranted PROVE Goes(c)
  <2>1. refreshing.stage = "granted"
    BY <1>7 DEF RefreshGranted
  <2>2. IF calls[c].stage = "waiting" THEN calls'[c].stage = "sent" /\ calls'[c].retried ELSE calls'[c] = calls[c]
    BY <1>7 DEF RefreshGranted, Waiting
  <2>. QED  BY <2>1, <2>2 DEF Goes, SentGoes, DeniedGoes, WaitingGoes
<1>8. ASSUME RefreshRefused PROVE Goes(c)
  <2>1. IF calls[c].stage = "waiting" THEN calls'[c].stage = "idle" ELSE calls'[c] = calls[c]
    BY <1>8 DEF RefreshRefused, Waiting, IdleCall
  <2>. QED  BY <2>1 DEF Goes, SentGoes, DeniedGoes, WaitingGoes, Ended
<1>9. ASSUME LeaveStep \/ EntryStep \/ Login \/ (\E t \in Tenants \cup {Own} : SwitchTenant(t)) \/ \E n \in 1..Len(issued) : Expire(n)
      PROVE  Goes(c)
  BY <1>0, <1>9 DEF LeaveStep, Logout, ServeLogout, LoseLogout, LeaveLocally, EntryStep, Enter, LoginFails, Login, SwitchTenant, Expire
<1>. QED  BY <1>0, <1>1, <1>2, <1>3, <1>4, <1>5, <1>6, <1>7, <1>8, <1>9
          DEF SessionNext, CallStep, RefreshStep, sessionVars

\* The steps that fairness asks for move the request out of its stage.
Handled(c) == StartRefresh(c) \/ AwaitRefresh(c) \/ GiveUp(c)

LEMMA AnswerMoves ==
    ASSUME CallInv, NEW c \in Calls, Answer(c)
    PROVE  Ended(c)' \/ (calls'[c].stage = "denied" /\ calls'[c].retried = calls[c].retried)
<1>1. calls \in [Calls -> CallState]
  BY SessionParts DEF CallInv, FeedInv, CallsOK
<1>. QED  BY <1>1 DEF Answer, SetCall, IdleCall, CallState, Ended

LEMMA HandledMoves ==
    ASSUME CallInv, NEW c \in Calls, Handled(c)
    PROVE  Ended(c)' \/ (calls'[c].stage = "waiting" /\ ~calls[c].retried)
<1>1. calls \in [Calls -> CallState]
  BY SessionParts DEF CallInv, FeedInv, CallsOK
<1>. QED  BY <1>1 DEF Handled, StartRefresh, AwaitRefresh, GiveUp, SetCall, IdleCall, CallState, Ended

\* A waiting request has at most two more steps of the refresh to wait for.
LEMMA RefreshMoves ==
    ASSUME CallInv, NEW c \in Calls, calls[c].stage = "waiting", RefreshStep
    PROVE  /\ refreshing.stage = "sent" => calls'[c] = calls[c] /\ refreshing'.stage \in {"granted", "refused"}
           /\ refreshing.stage = "granted" =>
                  \/ calls'[c] = calls[c] /\ refreshing'.stage = "refused"
                  \/ calls'[c].stage = "sent" /\ calls'[c].retried
           /\ refreshing.stage = "refused" => Ended(c)'
<1>t. calls \in [Calls -> CallState] /\ refreshing \in RefreshState
  BY SessionParts DEF CallInv, FeedInv, CallsOK, RefreshOK
<1>1. CASE ServeRefresh \/ LoseRefresh
  BY <1>1, <1>t DEF ServeRefresh, LoseRefresh, RefreshState
<1>2. CASE RefreshGranted
  BY <1>2, <1>t DEF RefreshGranted, Waiting
<1>3. CASE RefreshRefused
  BY <1>3, <1>t DEF RefreshRefused, Waiting, IdleCall, Ended
<1>. QED  BY <1>1, <1>2, <1>3 DEF RefreshStep
(***************************************************************************)
(* The stages of a request, in the order it can go through them: sent,     *)
(* denied, waiting while the refresh is sent, granted or refused, sent     *)
(* and denied once more, ended.                                            *)
(***************************************************************************)
Sent(c, again) == calls[c].stage = "sent" /\ calls[c].retried = again
Denied(c, again) == calls[c].stage = "denied" /\ calls[c].retried = again
Awaits(c, stage) == calls[c].stage = "waiting" /\ refreshing.stage = stage

LEMMA EveryStage ==
    ASSUME CallInv, NEW c \in Calls
    PROVE  \/ Ended(c) \/ Sent(c, FALSE) \/ Sent(c, TRUE) \/ Denied(c, FALSE) \/ Denied(c, TRUE)
           \/ Awaits(c, "sent") \/ Awaits(c, "granted") \/ Awaits(c, "refused")
<1>1. calls \in [Calls -> CallState] /\ refreshing \in RefreshState
  BY SessionParts DEF CallInv, FeedInv, CallsOK, RefreshOK
<1>. QED  BY <1>1 DEF CallInv, RefreshAwaited, CallState, RefreshState, Ended, Sent, Denied, Awaits

LEMMA SentStep ==
    ASSUME CallInv, [Next]_vars, NEW c \in Calls, NEW again \in BOOLEAN, Sent(c, again)
    PROVE  /\ Sent(c, again)' \/ Denied(c, again)' \/ Ended(c)'
           /\ Answer(c) => Denied(c, again)' \/ Ended(c)'
<1>1. Goes(c)
  BY SessionOrNot, CallGoes
<1>. QED  BY <1>1, AnswerMoves DEF Goes, SentGoes, Sent, Denied

LEMMA DeniedStep ==
    ASSUME CallInv, CallInv', [Next]_vars, NEW c \in Calls, NEW again \in BOOLEAN, Denied(c, again)
    PROVE  LET Waits == ~again /\ (Awaits(c, "sent")' \/ Awaits(c, "granted")' \/ Awaits(c, "refused")')
           IN  /\ Denied(c, again)' \/ Waits \/ Ended(c)'
               /\ Handled(c) => Waits \/ Ended(c)'
<1>1. Goes(c)
  BY SessionOrNot, CallGoes
<1>2. refreshing' \in RefreshState /\ (calls'[c].stage = "waiting" => refreshing'.stage # "no")
  BY DEF CallInv, FeedInv, SessionTypeOK, RefreshAwaited
<1>. QED  BY <1>1, <1>2, HandledMoves DEF Goes, DeniedGoes, Denied, Awaits, RefreshState

LEMMA AwaitsStep ==
    ASSUME CallInv, [Next]_vars, NEW c \in Calls
    PROVE  /\ Awaits(c, "sent") =>
                  \/ Awaits(c, "sent")' /\ ~RefreshStep
                  \/ Awaits(c, "granted")' \/ Awaits(c, "refused")' \/ Ended(c)'
           /\ Awaits(c, "granted") =>
                  \/ Awaits(c, "granted")' /\ ~RefreshStep
                  \/ Awaits(c, "refused")' \/ Sent(c, TRUE)' \/ Ended(c)'
           /\ Awaits(c, "refused") => (Awaits(c, "refused")' /\ ~RefreshStep) \/ Ended(c)'
<1>1. Goes(c)
  BY SessionOrNot, CallGoes
<1>2. ASSUME calls[c].stage = "waiting", RefreshStep
      PROVE  /\ refreshing.stage = "sent" => calls'[c] = calls[c] /\ refreshing'.stage \in {"granted", "refused"}
             /\ refreshing.stage = "granted" =>
                    \/ calls'[c] = calls[c] /\ refreshing'.stage = "refused"
                    \/ calls'[c].stage = "sent" /\ calls'[c].retried
             /\ refreshing.stage = "refused" => Ended(c)'
  BY <1>2, RefreshMoves
<1>. QED  BY <1>1, <1>2 DEF Goes, WaitingGoes, Awaits, Sent

-----------------------------------------------------------------------------
(***************************************************************************)
(* What a browser and its network owe a request: an answer, a handled      *)
(* rejection, an end of the refresh.  None of it happens while the feed's  *)
(* effect is due.                                                          *)
(***************************************************************************)
GetsAnswer(c) == []<>(calls[c].stage # "sent") \/ []<><<Answer(c) /\ Beside>>_vars
GetsHandled(c) == []<>(calls[c].stage # "denied") \/ []<><<Handled(c) /\ Beside>>_vars
RefreshEnds == []<>(refreshing.stage = "no") \/ []<><<RefreshStep /\ Beside>>_vars

Served(c) == GetsAnswer(c) /\ GetsHandled(c) /\ RefreshEnds

\* A denied request that was sent twice has ended before long.
LEMMA DeniedTwiceEnds ==
    ASSUME NEW c \in Calls
    PROVE  []CallInv /\ [][Next]_vars /\ GetsHandled(c) => (Denied(c, TRUE) ~> Ended(c))
<1>1. CallInv /\ CallInv' /\ [Next]_vars /\ Denied(c, TRUE) =>
          /\ Denied(c, TRUE)' \/ Ended(c)'
          /\ <<Handled(c) /\ Beside>>_vars => Ended(c)'
  BY DeniedStep
<1>2. Denied(c, TRUE) => ~(calls[c].stage # "denied")
  BY DEF Denied
<1>. QED  BY <1>1, <1>2, PTL DEF GetsHandled

LEMMA SentTwiceEnds ==
    ASSUME NEW c \in Calls
    PROVE  []CallInv /\ [][Next]_vars /\ GetsAnswer(c) /\ GetsHandled(c) => (Sent(c, TRUE) ~> Ended(c))
<1>1. CallInv /\ [Next]_vars /\ Sent(c, TRUE) =>
          /\ Sent(c, TRUE)' \/ Denied(c, TRUE)' \/ Ended(c)'
          /\ <<Answer(c) /\ Beside>>_vars => Denied(c, TRUE)' \/ Ended(c)'
  BY SentStep
<1>2. Sent(c, TRUE) => ~(calls[c].stage # "sent")
  BY DEF Sent
<1>. QED  BY <1>1, <1>2, DeniedTwiceEnds, PTL DEF GetsAnswer

\* The promise of the refresh settles, and nobody who waits for it is forgotten.
LEMMA WaitingEnds ==
    ASSUME NEW c \in Calls
    PROVE  []CallInv /\ [][Next]_vars /\ Served(c) =>
               ((Awaits(c, "sent") \/ Awaits(c, "granted") \/ Awaits(c, "refused")) ~> Ended(c))
<1>1. \A stage \in {"sent", "granted", "refused"} : Awaits(c, stage) => ~(refreshing.stage = "no")
  BY DEF Awaits
<1>2. CallInv /\ [Next]_vars /\ Awaits(c, "refused") =>
          /\ Awaits(c, "refused")' \/ Ended(c)'
          /\ <<RefreshStep /\ Beside>>_vars => Ended(c)'
  BY AwaitsStep
<1>3. CallInv /\ [Next]_vars /\ Awaits(c, "granted") =>
          /\ Awaits(c, "granted")' \/ Awaits(c, "refused")' \/ Sent(c, TRUE)' \/ Ended(c)'
          /\ <<RefreshStep /\ Beside>>_vars => Awaits(c, "refused")' \/ Sent(c, TRUE)' \/ Ended(c)'
  BY AwaitsStep
<1>4. CallInv /\ [Next]_vars /\ Awaits(c, "sent") =>
          /\ Awaits(c, "sent")' \/ Awaits(c, "granted")' \/ Awaits(c, "refused")' \/ Ended(c)'
          /\ <<RefreshStep /\ Beside>>_vars => Awaits(c, "granted")' \/ Awaits(c, "refused")' \/ Ended(c)'
  BY AwaitsStep
<1>. DEFINE H == []CallInv /\ [][Next]_vars /\ Served(c)
<1>5. H => (Awaits(c, "refused") ~> Ended(c))
  <2>1. Awaits(c, "refused") => ~(refreshing.stage = "no")
    BY <1>1
  <2>. QED  BY <2>1, <1>2, PTL DEF Served, RefreshEnds
<1>6. H => (Awaits(c, "granted") ~> Ended(c))
  <2>1. Awaits(c, "granted") => ~(refreshing.stage = "no")
    BY <1>1
  <2>. QED  BY <2>1, <1>3, <1>5, SentTwiceEnds, PTL DEF Served, RefreshEnds
<1>7. H => (Awaits(c, "sent") ~> Ended(c))
  <2>1. Awaits(c, "sent") => ~(refreshing.stage = "no")
    BY <1>1
  <2>. QED  BY <2>1, <1>4, <1>5, <1>6, PTL DEF Served, RefreshEnds
<1>. QED  BY <1>5, <1>6, <1>7, PTL

LEMMA RequestEnds ==
    ASSUME NEW c \in Calls
    PROVE  []CallInv /\ [][Next]_vars /\ Served(c) => (~Ended(c) ~> Ended(c))
<1>. DEFINE H       == []CallInv /\ [][Next]_vars /\ Served(c)
            Waits   == Awaits(c, "sent") \/ Awaits(c, "granted") \/ Awaits(c, "refused")
<1>1. H => (Denied(c, FALSE) ~> Ended(c))
  <2>1. CallInv /\ CallInv' /\ [Next]_vars /\ Denied(c, FALSE) =>
            /\ Denied(c, FALSE)' \/ Waits' \/ Ended(c)'
            /\ <<Handled(c) /\ Beside>>_vars => Waits' \/ Ended(c)'
    BY DeniedStep
  <2>2. Denied(c, FALSE) => ~(calls[c].stage # "denied")
    BY DEF Denied
  <2>3. H => (Waits ~> Ended(c))
    BY WaitingEnds
  <2>. HIDE DEF Waits
  <2>. QED  BY <2>1, <2>2, <2>3, PTL DEF Served, GetsHandled
<1>2. H => (Sent(c, FALSE) ~> Ended(c))
  <2>1. CallInv /\ [Next]_vars /\ Sent(c, FALSE) =>
            /\ Sent(c, FALSE)' \/ Denied(c, FALSE)' \/ Ended(c)'
            /\ <<Answer(c) /\ Beside>>_vars => Denied(c, FALSE)' \/ Ended(c)'
    BY SentStep
  <2>2. Sent(c, FALSE) => ~(calls[c].stage # "sent")
    BY DEF Sent
  <2>. QED  BY <1>1, <2>1, <2>2, PTL DEF Served, GetsAnswer
<1>3. CallInv => Ended(c) \/ Sent(c, FALSE) \/ Sent(c, TRUE) \/ Denied(c, FALSE) \/ Denied(c, TRUE) \/ Waits
  BY EveryStage
<1>. HIDE DEF Waits
<1>4. H => (Waits ~> Ended(c))
  BY WaitingEnds DEF Waits
<1>. QED  BY <1>1, <1>2, <1>3, <1>4, SentTwiceEnds, DeniedTwiceEnds, PTL DEF Served

\* Every request a page sends comes to an end, for any number of requests,
\* pairs, lost answers and switches, when what it waits for is not withheld
\* (client.ts, response interceptor).
THEOREM CallsEnd == Spec /\ (\A c \in Calls : Served(c)) => CallsComeToAnEnd
<1>1. []CallInv /\ [][Next]_vars /\ (\A c \in Calls : Served(c)) => CallsComeToAnEnd
  <2>1. ASSUME NEW c \in Calls
        PROVE  []CallInv /\ [][Next]_vars /\ Served(c) => (calls[c].stage # "idle" ~> calls[c].stage = "idle")
    <3>1. (calls[c].stage # "idle" <=> ~Ended(c)) /\ (calls[c].stage = "idle" <=> Ended(c))
      BY DEF Ended
    <3>. QED  BY <3>1, RequestEnds, PTL
  <2>. QED  BY <2>1 DEF CallsComeToAnEnd
<1>. QED  BY <1>1, CallInvariance, PTL DEF Spec

(***************************************************************************)
(* Where Served comes from.  The steps that end a stage are possible in it *)
(* whenever the effect is not due; that is what ENABLED says below, which  *)
(* the proofs take as it stands.  Strong fairness is enough then.          *)
(***************************************************************************)
AnswerPossible(c) == calls[c].stage = "sent" /\ ~Due => ENABLED <<Answer(c) /\ Beside>>_vars
HandlingPossible(c) == calls[c].stage = "denied" /\ ~Due => ENABLED <<Handled(c) /\ Beside>>_vars
RefreshPossible == refreshing.stage # "no" /\ ~Due => ENABLED <<RefreshStep /\ Beside>>_vars
EffectPossible == ~Settled => ENABLED <<RunEffect>>_vars

\* The effect never stays due: it ends by its own run.
LEMMA EffectSettles == WF_vars(RunEffect) /\ []EffectPossible => []<>Settled
<1>1. RunEffect => Settled'
  BY DEF RunEffect, Settled, Keys, sessionVars
<1>. QED  BY <1>1, PTL DEF EffectPossible

LEMMA StrongFairnessServes ==
    ASSUME NEW c \in Calls
    PROVE  /\ SF_vars(Answer(c) /\ Beside) /\ SF_vars(Handled(c) /\ Beside) /\ SF_vars(RefreshStep /\ Beside)
           /\ WF_vars(RunEffect)
           /\ [](AnswerPossible(c) /\ HandlingPossible(c) /\ RefreshPossible /\ EffectPossible)
           => Served(c)
<1>1. /\ ~(calls[c].stage # "sent") <=> calls[c].stage = "sent"
      /\ ~(calls[c].stage # "denied") <=> calls[c].stage = "denied"
      /\ ~(refreshing.stage = "no") <=> refreshing.stage # "no"
  OBVIOUS
<1>2. Settled => ~Due
  BY DEF Due
<1>. QED  BY <1>1, <1>2, EffectSettles, PTL
          DEF Served, GetsAnswer, GetsHandled, RefreshEnds, AnswerPossible, HandlingPossible, RefreshPossible

-----------------------------------------------------------------------------
(***************************************************************************)
(* The feed comes back.  Suppose it does not: from some time on somebody   *)
(* is logged in, no socket is open, and the session's keys are at rest.    *)
(* Then the token held is dead, or the next handshake would be taken; the  *)
(* bell polls with it, is denied, and what handles that starts a refresh,  *)
(* whose end changes the token or logs out.                                *)
(***************************************************************************)
\* A pair once dead stays dead.
LEMMA DeadStaysDead ==
    ASSUME SessionTypeOK, SessionNext \/ UNCHANGED sessionVars,
           NEW n \in 1..Len(issued), issued[n].access # "live"
    PROVE  issued'[n].access # "live"
<1>p. IssuedOK /\ (refreshing.stage # "no" => refreshing.pair \in 1..Len(issued))
      /\ (leaving.stage # "no" => leaving.pair \in 1..Len(issued))
      /\ (LoggedIn => store.pair \in 1..Len(issued))
  BY SessionParts DEF RefreshOK, LeaveOK, StoreOK, Known, LoggedIn
<1>a. \A i \in 1..Len(issued) : issued[i] \in IssuedPair
  BY <1>p, ElementOfSeq DEF IssuedOK
<1>1. ASSUME NEW i \in 1..Len(issued), NEW r \in IssuedPair, issued' = [issued EXCEPT ![i] = r],
             r.access = issued[i].access \/ r.access # "live"
      PROVE  issued'[n].access # "live"
  BY <1>1, <1>p, RewriteGrows
<1>2. ASSUME issued' = Append(issued, FreshPair) PROVE issued'[n].access # "live"
  BY <1>2, <1>p, FreshOK, AppendProperties DEF IssuedOK
<1>3. CASE Login
  BY <1>2, <1>3 DEF Login
<1>4. ASSUME NEW i \in 1..Len(issued), Expire(i) PROVE issued'[n].access # "live"
  <2>. DEFINE r == [issued[i] EXCEPT !.access = "expired"]
  <2>1. r \in IssuedPair /\ r.access # "live"
    BY <1>a DEF IssuedPair
  <2>2. issued' = [issued EXCEPT ![i] = r]
    BY <1>4 DEF Expire
  <2>. HIDE DEF r
  <2>. QED  BY <1>1, <2>1, <2>2
<1>5. ASSUME NEW c \in Calls, StartRefresh(c) PROVE issued'[n].access # "live"
  <2>. DEFINE i == store.pair
              r == [issued[i] EXCEPT !.uses = @ + 1]
  <2>1. i \in 1..Len(issued)
    BY <1>p, <1>5 DEF StartRefresh
  <2>2. r \in IssuedPair /\ r.access = issued[i].access
    BY <1>a, <2>1 DEF IssuedPair
  <2>3. issued' = [issued EXCEPT ![i] = r]
    BY <1>5 DEF StartRefresh
  <2>. HIDE DEF i, r
  <2>. QED  BY <1>1, <2>1, <2>2, <2>3
<1>6. ASSUME ServeRefresh PROVE issued'[n].access # "live"
  <2>. DEFINE i == refreshing.pair
              r == [issued[i] EXCEPT !.refresh = "used"]
              s == [issued EXCEPT ![i] = r]
  <2>1. i \in 1..Len(issued)
    BY <1>p, <1>6 DEF ServeRefresh
  <2>2. r \in IssuedPair /\ r.access = issued[i].access
    BY <1>a, <2>1 DEF IssuedPair
  <2>3. issued' = s \/ issued' = Append(s, FreshPair)
    BY <1>6 DEF ServeRefresh
  <2>. HIDE DEF i, r
  <2>4. /\ s \in Seq(IssuedPair) /\ Len(s) = Len(issued)
        /\ \A j \in 1..Len(issued) : s[j] = IF j = i THEN r ELSE issued[j]
    BY <1>p, <2>1, <2>2, ExceptSeq DEF IssuedOK
  <2>. HIDE DEF s
  <2>5. Append(s, FreshPair)[n] = s[n]
    BY <2>4, FreshOK, AppendProperties
  <2>6. s[n].access # "live"
    BY <2>2, <2>4
  <2>. QED  BY <2>3, <2>5, <2>6
<1>7. ASSUME ServeLogout PROVE issued'[n].access # "live"
  <2>. DEFINE i == leaving.pair
              r == [access |-> "denied", refresh |-> "used", uses |-> issued[i].uses]
  <2>1. i \in 1..Len(issued)
    BY <1>p, <1>7 DEF ServeLogout
  <2>2. r \in IssuedPair /\ r.access # "live"
    BY <1>a, <2>1 DEF IssuedPair
  <2>3. issued' = [issued EXCEPT ![i] = r] \/ issued' = issued
    BY <1>7 DEF ServeLogout
  <2>. HIDE DEF i, r
  <2>. QED  BY <1>1, <2>1, <2>2, <2>3
<1>8. (\E t \in Tenants \cup {Own} : SwitchTenant(t)) => issued' = issued
  BY DEF SwitchTenant
<1>9. ASSUME NEW c \in Calls PROVE CallStep(c) => StartRefresh(c) \/ issued' = issued
  BY DEF CallStep, Send, Answer, LoseAnswer, AwaitRefresh, GiveUp
<1>10. RefreshStep => ServeRefresh \/ issued' = issued
  BY DEF RefreshStep, LoseRefresh, RefreshGranted, RefreshRefused
<1>11. LeaveStep => ServeLogout \/ issued' = issued
  BY DEF LeaveStep, Logout, LoseLogout, LeaveLocally
<1>12. EntryStep => issued' = issued
  BY DEF EntryStep, Enter, LoginFails
<1>. QED  BY <1>3, <1>4, <1>5, <1>6, <1>7, <1>8, <1>9, <1>10, <1>11, <1>12 DEF SessionNext, sessionVars

\* The pair a refresh has got is not the one the store holds.
GotIsNew == refreshing.stage = "granted" => refreshing.got # store.pair

LEMMA GotIsNewStep == CallInv /\ GotIsNew /\ [Next]_vars => GotIsNew'
<1>. SUFFICES ASSUME CallInv, GotIsNew, SessionNext \/ UNCHANGED sessionVars PROVE GotIsNew'
  BY SessionOrNot
<1>p. /\ Len(issued) \in Nat /\ refreshing \in RefreshState /\ store \in StoreState
      /\ (store.pair # 0 => store.pair \in 1..Len(issued))
      /\ (refreshing.stage = "granted" => refreshing.got \in 1..Len(issued))
  BY SessionParts DEF CallInv, FeedInv, IssuedOK, RefreshOK, StoreOK, Known
<1>1. CASE UNCHANGED refreshing /\ store'.pair \in {store.pair, 0, NextPair}
  BY <1>1, <1>p DEF GotIsNew, NextPair
<1>2. CASE ServeRefresh
  <2>1. \/ refreshing'.stage = "granted" /\ refreshing'.got = NextPair
        \/ refreshing'.stage = "refused"
    BY <1>2, <1>p DEF ServeRefresh, RefreshState
  <2>2. store' = store /\ store.pair # NextPair
    BY <1>2, <1>p DEF ServeRefresh, NextPair
  <2>. QED  BY <2>1, <2>2 DEF GotIsNew
<1>3. CASE refreshing'.stage # "granted"
  BY <1>3 DEF GotIsNew
<1>4. CASE LeaveStep \/ EntryStep \/ Login \/ \E t \in Tenants \cup {Own} : SwitchTenant(t)
  BY <1>1, <1>4, <1>p DEF LeaveStep, Logout, ServeLogout, LoseLogout, LeaveLocally, EntryStep, Enter, LoginFails, Login, SwitchTenant, Cleared, StoreState
<1>5. CASE \E n \in 1..Len(issued) : Expire(n)
  BY <1>1, <1>5 DEF Expire
<1>6. ASSUME NEW c \in Calls, CallStep(c) PROVE GotIsNew'
  BY <1>1, <1>3, <1>6 DEF CallStep, Send, Answer, LoseAnswer, StartRefresh, AwaitRefresh, GiveUp, Cleared
<1>7. LoseRefresh \/ RefreshGranted \/ RefreshRefused => refreshing'.stage # "granted"
  <2>1. LoseRefresh => refreshing'.stage = "refused"
    BY <1>p DEF LoseRefresh, RefreshState
  <2>2. RefreshGranted \/ RefreshRefused => refreshing'.stage = "no"
    BY DEF RefreshGranted, RefreshRefused, NoRefresh
  <2>. QED  BY <2>1, <2>2
<1>. QED  BY <1>1, <1>2, <1>3, <1>4, <1>5, <1>6, <1>7 DEF SessionNext, RefreshStep, sessionVars

ReturnInv == CallInv /\ GotIsNew

LEMMA ReturnInvariance == Spec => []ReturnInv
<1>1. Init => GotIsNew
  BY DEF Init, SessionInit, NoRefresh, GotIsNew
<1>. QED  BY <1>1, CallInvariance, GotIsNewStep, PTL DEF Spec, ReturnInv

\* Somebody is logged in, the effect has run, and no socket is open.
Dark == ReturnInv /\ Settled /\ LoggedIn /\ ~Open

\* The network closes no socket and loses no answer, and the session stays.
Calm == UNCHANGED <<store, drops, losses>>

Connecting == feed.socket = "connecting"
TokenTaken == issued[store.pair].access = "live"

LEMMA DarkParts ==
    ASSUME Dark
    PROVE  /\ feed \in FeedState /\ drops \in Nat /\ losses \in Nat
           /\ feed.timer \/ Connecting
           /\ feed.timer => feed.socket = "none"
           /\ Connecting => feed.pair = store.pair
           /\ store.pair \in 1..Len(issued) /\ store \in StoreState
<1>1. FeedInv /\ Settled /\ LoggedIn /\ feed.socket # "open"
  BY DEF Dark, ReturnInv, CallInv, Open
<1>2. feed \in FeedState /\ drops \in Nat /\ losses \in Nat
  BY <1>1, BoundsAssumption, MaxDropsAssumption DEF FeedInv, FeedOK, SeenOK, SessionTypeOK
<1>3. feed.keys.pair = store.pair /\ store.pair # 0
  BY <1>1 DEF Settled, Keys, LoggedIn
<1>4. feed.socket \in {"none", "connecting"}
  BY <1>1, <1>2 DEF FeedState
<1>5. store.pair \in 1..Len(issued) /\ store \in StoreState
  BY <1>1, <1>3, SessionParts DEF FeedInv, StoreOK, Known
<1>. QED  BY <1>1, <1>2, <1>3, <1>4, <1>5 DEF FeedInv, FeedOK, FeedFollowsKeys, Connecting

\* What may happen to the feed then: a timer fires into a handshake, and a
\* handshake with a token that is taken can only succeed.
LEMMA DarkFeed ==
    ASSUME Dark, Dark', [Next]_vars, Calm
    PROVE  /\ ~TokenTaken => ~TokenTaken'
           /\ Connecting /\ TokenTaken => Connecting' /\ ~Opened /\ ~Refused
           /\ feed.timer => (feed'.timer /\ ~Reconnect) \/ Connecting'
<1>d. /\ feed \in FeedState /\ drops \in Nat /\ SessionTypeOK /\ Settled /\ LoggedIn
      /\ feed.timer \/ Connecting
      /\ feed.timer => feed.socket = "none"
      /\ Connecting => feed.pair = store.pair
      /\ store.pair \in 1..Len(issued)
      /\ feed'.socket # "open"
  BY DarkParts DEF Dark, ReturnInv, CallInv, FeedInv, Open
<1>1. ~TokenTaken => ~TokenTaken'
  BY <1>d, SessionOrNot, DeadStaysDead DEF TokenTaken, Calm
<1>2. ~Opened
  BY <1>d DEF Opened, FeedState
<1>3. Refused => ~TokenTaken
  BY <1>d DEF Refused, TokenTaken, Connecting
<1>4. ~Drop
  BY <1>d DEF Drop, Calm
<1>5. Reconnect => feed.timer /\ Connecting'
  BY <1>d DEF Reconnect, Connecting, FeedState
<1>6. \/ Refused \/ Reconnect \/ feed' = feed
  BY <1>2, <1>4, <1>d DEF Next, SessionMoves, Beside, RunEffect, SocketStep, Miss, Poll, feedVars, vars
<1>7. Refused => feed.socket = "connecting"
  BY DEF Refused
<1>. QED  BY <1>1, <1>2, <1>3, <1>5, <1>6, <1>7, <1>d DEF Connecting

\* A refresh under way cannot end: it would change the token or log out.
LEMMA DarkRefresh ==
    ASSUME Dark, Dark', [Next]_vars, Calm
    PROVE  /\ refreshing.stage \in {"no", "sent", "granted", "refused"}
           /\ refreshing.stage = "sent" => (refreshing'.stage = "sent" /\ ~RefreshStep) \/ refreshing'.stage \in {"granted", "refused"}
           /\ refreshing.stage = "granted" => (refreshing'.stage = "granted" /\ ~RefreshStep) \/ refreshing'.stage = "refused"
           /\ refreshing.stage = "refused" => refreshing'.stage = "refused" /\ ~RefreshStep
<1>t. refreshing \in RefreshState /\ store \in StoreState
  BY SessionParts DEF Dark, ReturnInv, CallInv, FeedInv, RefreshOK, StoreOK
<1>1. ~RefreshGranted
  BY <1>t DEF RefreshGranted, Calm, Dark, ReturnInv, GotIsNew, StoreState
<1>2. ~RefreshRefused
  BY DEF RefreshRefused, Dark, LoggedIn, Cleared
<1>3. ServeRefresh => refreshing.stage = "sent" /\ refreshing'.stage \in {"granted", "refused"}
  BY <1>t DEF ServeRefresh, RefreshState
<1>4. LoseRefresh => refreshing.stage \in {"sent", "granted"} /\ refreshing'.stage = "refused"
  BY <1>t DEF LoseRefresh, RefreshState
<1>5. ASSUME NEW c \in Calls, CallStep(c) PROVE refreshing.stage = "no" \/ refreshing' = refreshing
  BY <1>5 DEF CallStep, Send, Answer, LoseAnswer, StartRefresh, AwaitRefresh, GiveUp, MustRefresh
<1>6. LeaveStep \/ EntryStep \/ Login \/ (\E t \in Tenants \cup {Own} : SwitchTenant(t)) \/ (\E n \in 1..Len(issued) : Expire(n))
          => refreshing' = refreshing
  BY DEF LeaveStep, Logout, ServeLogout, LoseLogout, LeaveLocally, EntryStep, Enter, LoginFails, Login, SwitchTenant, Expire
<1>7. RefreshStep \/ refreshing.stage = "no" \/ refreshing' = refreshing
  BY <1>5, <1>6, SessionOrNot DEF SessionNext, sessionVars
<1>. QED  BY <1>t, <1>1, <1>2, <1>3, <1>4, <1>7 DEF RefreshStep, RefreshState

Asked(c) == Sent(c, FALSE) /\ calls[c].pair = store.pair

\* The bell's request with a dead token: sent, denied, and not to be handled
\* without a refresh.
LEMMA DarkCall ==
    ASSUME Dark, [Next]_vars, Calm, ~TokenTaken, refreshing.stage = "no", refreshing'.stage = "no",
           NEW c \in Calls
    PROVE  /\ Ended(c) => (Ended(c)' /\ ~Poll(c)) \/ Asked(c)'
           /\ Asked(c) => (Asked(c)' /\ ~Answer(c)) \/ Denied(c, FALSE)'
           /\ Denied(c, FALSE) => Denied(c, FALSE)' /\ ~Handled(c)
<1>t. /\ calls \in [Calls -> CallState] /\ losses \in Nat /\ LoggedIn /\ store' = store /\ losses' = losses
      /\ issued[store.pair].access # "live"
  BY DarkParts, SessionParts DEF Dark, ReturnInv, CallInv, FeedInv, CallsOK, Calm, TokenTaken
<1>1. ~RefreshStep
  BY DEF RefreshStep, ServeRefresh, LoseRefresh, RefreshGranted, RefreshRefused
<1>2. ASSUME NEW d \in Calls, StartRefresh(d) \/ AwaitRefresh(d) PROVE FALSE
  BY <1>2 DEF StartRefresh, AwaitRefresh
<1>3. ASSUME NEW d \in Calls, LoseAnswer(d) PROVE FALSE
  BY <1>3, <1>t DEF LoseAnswer
<1>4. GiveUp(c) => calls[c].stage = "denied" /\ calls[c].retried
  BY <1>t DEF GiveUp
<1>5. ASSUME Send(c) PROVE Ended(c) /\ Asked(c)'
  BY <1>5, <1>t DEF Send, Ended, Asked, Sent
<1>6. ASSUME Answer(c) PROVE calls[c].stage = "sent" /\ (Asked(c) => Denied(c, FALSE)')
  <2>1. Asked(c) => calls' = [calls EXCEPT ![c].stage = "denied"]
    BY <1>6, <1>t DEF Answer, Asked, SetCall
  <2>. QED  BY <1>6, <1>t, <2>1 DEF Answer, Asked, Sent, Denied, CallState
<1>7. ASSUME NEW d \in Calls, d # c, CallStep(d) PROVE calls'[c] = calls[c]
  BY <1>7, <1>t DEF CallStep, Send, Answer, LoseAnswer, StartRefresh, AwaitRefresh, GiveUp, SetCall
<1>8. LeaveStep \/ EntryStep \/ Login \/ (\E t \in Tenants \cup {Own} : SwitchTenant(t)) \/ (\E n \in 1..Len(issued) : Expire(n))
          => calls' = calls
  BY DEF LeaveStep, Logout, ServeLogout, LoseLogout, LeaveLocally, EntryStep, Enter, LoginFails, Login, SwitchTenant, Expire
<1>9. Send(c) \/ Answer(c) \/ GiveUp(c) \/ calls'[c] = calls[c]
  BY <1>1, <1>2, <1>3, <1>7, <1>8, SessionOrNot DEF SessionNext, CallStep, sessionVars
<1>10. Poll(c) => Send(c)
  BY DEF Poll, BellPolls
<1>11. calls'[c] = calls[c] => (Ended(c) => Ended(c)') /\ (Asked(c) => Asked(c)') /\ (Denied(c, FALSE) => Denied(c, FALSE)')
  BY <1>t DEF Ended, Asked, Sent, Denied
<1>12. Handled(c) => GiveUp(c)
  BY <1>2 DEF Handled
<1>. QED  BY <1>4, <1>5, <1>6, <1>9, <1>10, <1>11, <1>12 DEF Ended, Asked, Sent, Denied

(***************************************************************************)
(* What a browser and its network owe the feed, besides what they owe the  *)
(* requests: the effect runs, a handshake is answered, a timer fires, and  *)
(* the bell's interval comes round.                                        *)
(***************************************************************************)
EffectRuns == []<>Settled
HandshakeAnswered == []<>~Connecting \/ []<><<(Opened \/ Refused) /\ ~Due>>_vars
TimerFires == []<>~feed.timer \/ []<><<Reconnect /\ ~Due>>_vars
BellRings(c) == []<>~(LoggedIn /\ Ended(c) /\ ~Open) \/ []<><<Poll(c) /\ ~Due>>_vars

FeedServed(c) == Served(c) /\ HandshakeAnswered /\ TimerFires /\ BellRings(c)

\* From some time on the network is calm and the session stays as it is.
CalmsDown == <>[][Calm]_vars

LEMMA CalmStep == [Calm]_vars => Calm
  BY DEF Calm, vars, sessionVars, feedVars

\* With a token that is taken the dark ends.
LEMMA TakenTokenOpens ==
    []Dark /\ [][Next]_vars /\ [][Calm]_vars /\ HandshakeAnswered /\ TimerFires => []<>~TokenTaken
<1>1. Dark => feed.timer \/ Connecting
  BY DarkParts
<1>2. Dark /\ Dark' /\ [Next]_vars /\ [Calm]_vars /\ TokenTaken /\ Connecting =>
          Connecting' /\ ~<<(Opened \/ Refused) /\ ~Due>>_vars
  BY DarkFeed, CalmStep
<1>3. Dark /\ Dark' /\ [Next]_vars /\ [Calm]_vars /\ feed.timer =>
          Connecting' \/ (feed'.timer /\ ~<<Reconnect /\ ~Due>>_vars)
  BY DarkFeed, CalmStep
<1>. QED  BY <1>1, <1>2, <1>3, PTL DEF HandshakeAnswered, TimerFires

\* In the dark no refresh is under way.
LEMMA NoRefreshInTheDark ==
    []Dark /\ [][Next]_vars /\ [][Calm]_vars /\ RefreshEnds => [](refreshing.stage = "no")
<1>. DEFINE At(stage) == refreshing.stage = stage
<1>1. Dark /\ Dark' /\ [Next]_vars /\ [Calm]_vars =>
          /\ At("no") \/ At("sent") \/ At("granted") \/ At("refused")
          /\ At("sent") => (At("sent")' /\ ~<<RefreshStep /\ Beside>>_vars) \/ At("granted")' \/ At("refused")'
          /\ At("granted") => (At("granted")' /\ ~<<RefreshStep /\ Beside>>_vars) \/ At("refused")'
          /\ At("refused") => At("refused")' /\ ~<<RefreshStep /\ Beside>>_vars
  BY DarkRefresh, CalmStep
<1>2. /\ At("no") => ~At("sent") /\ ~At("granted") /\ ~At("refused")
      /\ refreshing.stage = "no" <=> At("no")
  OBVIOUS
<1>. HIDE DEF At
<1>. QED  BY <1>1, <1>2, PTL DEF RefreshEnds

\* With a dead token and nobody to refresh it the bell's request is stuck,
\* which no request ever is.
LEMMA DeadTokenAsks ==
    ASSUME NEW c \in Calls
    PROVE  []Dark /\ [][Next]_vars /\ [][Calm]_vars /\ Served(c) /\ BellRings(c) => []<>TokenTaken
<1>1. []Dark /\ [][Next]_vars /\ [][Calm]_vars /\ Served(c) => [](refreshing.stage = "no")
  BY NoRefreshInTheDark, PTL DEF Served
<1>2. []Dark /\ [][Next]_vars /\ Served(c) => []<>Ended(c)
  <2>1. Dark => CallInv
    BY DEF Dark, ReturnInv
  <2>. QED  BY <2>1, RequestEnds, PTL
<1>. DEFINE NoRefreshing == refreshing.stage = "no"
<1>3. Dark /\ NoRefreshing /\ NoRefreshing' /\ [Next]_vars /\ [Calm]_vars /\ ~TokenTaken =>
          /\ Ended(c) => (Ended(c)' /\ ~<<Poll(c) /\ ~Due>>_vars) \/ Asked(c)'
          /\ Asked(c) => (Asked(c)' /\ ~<<Answer(c) /\ Beside>>_vars) \/ Denied(c, FALSE)'
          /\ Denied(c, FALSE) => Denied(c, FALSE)' /\ ~<<Handled(c) /\ Beside>>_vars
  BY DarkCall, CalmStep
<1>4. Dark => LoggedIn /\ ~Open
  BY DEF Dark
<1>5. /\ Asked(c) => ~(calls[c].stage # "sent")
      /\ Denied(c, FALSE) => ~(calls[c].stage # "denied") /\ ~Ended(c)
  BY DEF Asked, Sent, Denied, Ended
<1>6. refreshing.stage = "no" <=> NoRefreshing
  OBVIOUS
<1>. HIDE DEF NoRefreshing
<1>. QED  BY <1>1, <1>2, <1>3, <1>4, <1>5, <1>6, PTL DEF Served, GetsAnswer, GetsHandled, BellRings

LEMMA SettledStays == ReturnInv /\ Settled /\ [Next]_vars /\ [Calm]_vars => Settled'
<1>. SUFFICES ASSUME ReturnInv, Settled, [Next]_vars, Calm PROVE Settled'
  BY CalmStep
<1>1. feed \in FeedState
  BY DEF ReturnInv, CallInv, FeedInv, FeedOK
<1>2. feed'.keys = feed.keys
  BY <1>1 DEF Next, SessionMoves, Beside, RunEffect, SocketStep, Opened, Refused, Closed, Drop, Reconnect, Miss,
              Poll, FeedState, feedVars, vars
<1>. QED  BY <1>2 DEF Calm, Settled, Keys

\* As long as somebody is logged in the feed opens again, once the network is
\* calm and the session stays, with whatever token it was left: the bell gets
\* a dead one refreshed (NotificationBell, refetchInterval; useWebSocket,
\* scheduleReconnect).
THEOREM FeedOpensAgain ==
    ASSUME NEW c \in Calls
    PROVE  Spec /\ CalmsDown /\ EffectRuns /\ FeedServed(c) => FeedComesBack
<1>1. []Dark /\ [][Next]_vars /\ [][Calm]_vars /\ FeedServed(c) => FALSE
  <2>1. Dark /\ Dark' /\ [Next]_vars /\ [Calm]_vars => (~TokenTaken => ~TokenTaken')
    BY DarkFeed, CalmStep
  <2>. QED  BY <2>1, TakenTokenOpens, DeadTokenAsks, PTL DEF FeedServed
<1>2. ReturnInv /\ Settled /\ LoggedIn /\ ~Open => Dark
  BY DEF Dark
<1>3. FeedServed(c) => []FeedServed(c)
  BY PTL DEF FeedServed, Served, GetsAnswer, GetsHandled, RefreshEnds, HandshakeAnswered, TimerFires, BellRings
<1>. QED  BY <1>1, <1>2, <1>3, SettledStays, ReturnInvariance, PTL DEF Spec, CalmsDown, EffectRuns, FeedComesBack

-----------------------------------------------------------------------------
(***************************************************************************)
(* FairSpec, which the run checks, gives all of this: its bounds let the   *)
(* session and the network change finitely often, so that they calm down,  *)
(* and then weak fairness is enough.  That a bound is reached at all is an *)
(* induction over it, and left to the run.                                 *)
(***************************************************************************)
HandshakePossible == Connecting /\ ~Due => ENABLED <<(Opened \/ Refused) /\ ~Due>>_vars
TimerPossible == feed.timer /\ ~Due => ENABLED <<Reconnect /\ ~Due>>_vars
PollPossible(c) == LoggedIn /\ Ended(c) /\ ~Open /\ ~Due => ENABLED <<Poll(c) /\ ~Due>>_vars

Possible ==
    /\ \A c \in Calls : AnswerPossible(c) /\ HandlingPossible(c) /\ PollPossible(c)
    /\ RefreshPossible /\ EffectPossible /\ HandshakePossible /\ TimerPossible

LEMMA FairlyServed ==
    ASSUME NEW c \in Calls
    PROVE  FairSpec /\ CalmsDown /\ []Possible => EffectRuns /\ FeedServed(c)
<1>1. FairSpec => Spec /\ TabFairness /\ CallFairness(c)
  BY DEF FairSpec
<1>2. Possible => AnswerPossible(c) /\ HandlingPossible(c) /\ PollPossible(c)
  BY DEF Possible
<1>3. Settled => ~Due
  BY DEF Due
<1>4. FairSpec /\ []Possible => EffectRuns
  BY <1>1, EffectSettles, PTL DEF EffectRuns, Possible, TabFairness
<1>5. FairSpec /\ CalmsDown /\ []Possible => <>[]~Due
  BY <1>1, <1>3, <1>4, SettledStays, ReturnInvariance, PTL DEF Spec, CalmsDown, EffectRuns
<1>6. /\ ~(calls[c].stage # "sent") <=> calls[c].stage = "sent"
      /\ ~(calls[c].stage # "denied") <=> calls[c].stage = "denied"
      /\ ~(refreshing.stage = "no") <=> refreshing.stage # "no"
  OBVIOUS
<1>7. FairSpec /\ CalmsDown /\ []Possible => Served(c)
  BY <1>1, <1>2, <1>5, <1>6, PTL
     DEF Served, GetsAnswer, GetsHandled, RefreshEnds, Possible, AnswerPossible, HandlingPossible, RefreshPossible, Handled,
         TabFairness, CallFairness
<1>8. FairSpec /\ CalmsDown /\ []Possible => HandshakeAnswered /\ TimerFires /\ BellRings(c)
  BY <1>1, <1>2, <1>5, PTL
     DEF HandshakeAnswered, TimerFires, BellRings, Possible, HandshakePossible, TimerPossible, PollPossible,
         TabFairness, CallFairness
<1>. QED  BY <1>4, <1>7, <1>8 DEF FeedServed

\* Once the network is calm and the session stays, every request ends and the
\* feed opens again, under the weak fairness of FairSpec.
THEOREM FairTabsComeBack ==
    ASSUME Calls # {}
    PROVE  FairSpec /\ CalmsDown /\ []Possible => CallsComeToAnEnd /\ FeedComesBack
<1>1. FairSpec => Spec
  BY DEF FairSpec
<1>2. FairSpec /\ CalmsDown /\ []Possible => \A c \in Calls : Served(c)
  BY FairlyServed DEF FeedServed
<1>3. PICK c \in Calls : TRUE
  OBVIOUS
<1>4. FairSpec /\ CalmsDown /\ []Possible => EffectRuns /\ FeedServed(c)
  BY FairlyServed
<1>5. Spec /\ CalmsDown /\ EffectRuns /\ FeedServed(c) => FeedComesBack
  BY FeedOpensAgain
<1>. QED  BY <1>1, <1>2, <1>4, <1>5, CallsEnd
================================================================================
