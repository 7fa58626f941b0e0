--------------------------- MODULE WebPages_proofs ---------------------------
(***************************************************************************)
(* Theorems about WebPages, for any number of changes.  That each button   *)
(* of each page keeps the two rules of PageIsSound is in WebScenes_proofs; *)
(* what follows from them looks at a scene through these rules only, and   *)
(* holds of any pages that keep them.                                      *)
(***************************************************************************)
EXTENDS WebScenes_proofs

Stages == {"no", "open", "sent", "served", "declined", "refused"}
Event(n) == [kind : {"again", "patch"}, rev : 1..n]

\* The types of one part of the state each.
ViewOK == view \in [has : BOOLEAN, rev : 0..rev, row : Rows]
CacheOK == cache \in [stale : BOOLEAN, fetch : {"no", "asked", "answered"}, rev : 0..rev, row : Rows]
CallOK == call \in [stage : Stages, seen : Rows, met : Rows, rev : 0..rev, home : BOOLEAN]
PageOK == /\ onDisplay \in BOOLEAN /\ dialog \in {"none", "own", "other"}
          /\ call.stage = "open" => dialog = "own"
FeedOK == feedOpen \in BOOLEAN /\ news \in Seq(Event(rev)) /\ (~feedOpen => news = <<>>)
WorldOK == scene \in SceneState /\ row \in Rows /\ rev \in 0..MaxChanges /\ missed \in BOOLEAN

Typed == ViewOK /\ CacheOK /\ CallOK /\ PageOK /\ FeedOK /\ WorldOK

LEMMA TypeParts == Typed => TypeOK
  BY DEF Typed, TypeOK, ViewOK, CacheOK, CallOK, PageOK, FeedOK, WorldOK, Stages, Event

LEMMA GoneIsRow == Gone \in Rows
  BY DEF Rows

LEMMA NothingOK == ASSUME rev \in Nat
                   PROVE  /\ NoView \in [has : BOOLEAN, rev : 0..rev, row : Rows]
                          /\ NoFetch \in [stale : BOOLEAN, fetch : {"no", "asked", "answered"}, rev : 0..rev, row : Rows]
                          /\ NoCall \in [stage : Stages, seen : Rows, met : Rows, rev : 0..rev, home : BOOLEAN]
  BY GoneIsRow DEF NoView, NoFetch, NoCall, Stages

LEMMA InitTypes == ASSUME Init PROVE Typed
<1>1. rev \in Nat /\ rev = 0 /\ scene \in SceneState
  BY ScenesSound DEF Init, SceneSound
<1>s. scene.rows \subseteq Rows
  BY <1>1 DEF SceneState
<1>2. WorldOK
  <2>1. row \in Rows
    BY <1>s DEF Init
  <2>2. rev \in 0..MaxChanges
    BY <1>1, MaxChangesAssumption
  <2>3. missed \in BOOLEAN
    BY DEF Init
  <2>. QED  BY <1>1, <2>1, <2>2, <2>3 DEF WorldOK
<1>3. ViewOK /\ CacheOK /\ CallOK /\ PageOK
  BY <1>1, NothingOK DEF Init, ViewOK, CacheOK, CallOK, PageOK, NoCall
<1>4. FeedOK
  BY EmptySeq DEF Init, FeedOK
<1>. QED  BY <1>2, <1>3, <1>4 DEF Typed

\* What does not change keeps its type, also when the data changes once more.
LEMMA SeenKept ==
    ASSUME WorldOK, rev' \in {rev, rev + 1}
    PROVE  /\ ViewOK /\ UNCHANGED view => ViewOK'
           /\ CacheOK /\ UNCHANGED cache => CacheOK'
           /\ CallOK /\ UNCHANGED call => CallOK'
  BY MaxChangesAssumption DEF WorldOK, ViewOK, CacheOK, CallOK

LEMMA NewsKept == ASSUME WorldOK, rev' \in {rev, rev + 1}, NEW s \in Seq(Event(rev)) PROVE s \in Seq(Event(rev'))
<1>1. Event(rev) \subseteq Event(rev')
  BY MaxChangesAssumption DEF WorldOK, Event
<1>. QED  BY <1>1, SeqMonotonic

LEMMA AskOK == ASSUME CacheOK, rev \in Nat PROVE Ask(cache) \in [stale : BOOLEAN, fetch : {"asked"}, rev : 0..rev, row : Rows]
<1>1. cache.stale \in BOOLEAN
  BY DEF CacheOK
<1>. QED  BY <1>1, GoneIsRow DEF Ask

LEMMA EntryStepTypes == ASSUME Typed, EntryStep PROVE Typed'
<1>t. /\ ViewOK /\ CacheOK /\ CallOK /\ PageOK /\ FeedOK /\ WorldOK /\ rev \in Nat
      /\ rev' = rev
  BY MaxChangesAssumption DEF Typed, WorldOK, EntryStep, Load, Leave, Poll, Read, Arrive, FailRead, serverVars
<1>n. NoCall \in [stage : Stages, seen : Rows, met : Rows, rev : 0..rev, home : BOOLEAN] /\ NoCall.stage # "open"
  BY <1>t, NothingOK DEF NoCall
<1>w. WorldOK' /\ FeedOK'
  <2>1. UNCHANGED <<scene, row, feedOpen, news>> /\ missed' \in BOOLEAN
    BY <1>t DEF EntryStep, Load, Leave, Poll, Read, Arrive, FailRead, serverVars, feedVars, WorldOK
  <2>. QED  BY <1>t, <2>1 DEF WorldOK, FeedOK
<1>c. Unmounted(call) \in [stage : Stages, seen : Rows, met : Rows, rev : 0..rev, home : BOOLEAN] /\ Unmounted(call).stage # "open"
  BY <1>t, <1>n DEF Unmounted, CallOK
<1>1. CASE Load
  <2>1. CacheOK'
    BY <1>1, <1>t, AskOK DEF Load, CacheOK
  <2>. QED  BY <1>1, <1>t, <1>w, <1>c, <2>1 DEF Typed, Load, ViewOK, CallOK, PageOK
<1>2. CASE Leave
  BY <1>2, <1>t, <1>w, <1>c DEF Typed, Leave, entryVars, ViewOK, CacheOK, CallOK, PageOK
<1>3. CASE Poll
  <2>1. CacheOK'
    BY <1>3, <1>t, AskOK DEF Poll, CacheOK
  <2>. QED  BY <1>3, <1>t, <1>w, <2>1 DEF Typed, Poll, ViewOK, CallOK, PageOK
<1>4. CASE Read
  <2>1. cache' = [stale |-> cache.stale, fetch |-> "answered", rev |-> rev, row |-> row] /\ cache.stale \in BOOLEAN
    BY <1>4, <1>t DEF Read, CacheOK
  <2>2. row \in Rows /\ rev \in 0..rev
    BY <1>t DEF WorldOK
  <2>3. CacheOK'
    BY <1>t, <2>1, <2>2 DEF CacheOK
  <2>. QED  BY <1>4, <1>t, <1>w, <2>3 DEF Typed, Read, ViewOK, CallOK, PageOK
<1>5. CASE Arrive
  <2>1. ViewOK' /\ CacheOK'
    BY <1>5, <1>t, NothingOK DEF Arrive, ViewOK, CacheOK
  <2>. QED  BY <1>5, <1>t, <1>w, <2>1 DEF Typed, Arrive, CallOK, PageOK
<1>6. CASE FailRead
  <2>1. CacheOK'
    BY <1>6, <1>t, NothingOK DEF FailRead, CacheOK
  <2>. QED  BY <1>6, <1>t, <1>w, <2>1 DEF Typed, FailRead, ViewOK, CallOK, PageOK
<1>. QED  BY <1>1, <1>2, <1>3, <1>4, <1>5, <1>6 DEF EntryStep

LEMMA MarkOK ==
    ASSUME CacheOK
    PROVE  LET m == [cache EXCEPT !.stale = TRUE] IN
           /\ m \in [stale : BOOLEAN, fetch : {"no", "asked", "answered"}, rev : 0..rev, row : Rows]
           /\ m.fetch = cache.fetch /\ m.rev = cache.rev /\ m.stale
  BY DEF CacheOK

LEMMA InvalidatedOK ==
    ASSUME CacheOK, rev \in Nat
    PROVE  Invalidated \in [stale : BOOLEAN, fetch : {"no", "asked", "answered"}, rev : 0..rev, row : Rows]
<1>. DEFINE m == [cache EXCEPT !.stale = TRUE]
<1>1. m \in [stale : BOOLEAN, fetch : {"no", "asked", "answered"}, rev : 0..rev, row : Rows]
  BY MarkOK
<1>2. Invalidated \in {Ask(m), m}
  BY DEF Invalidated
<1>. HIDE DEF m
<1>3. m.stale \in BOOLEAN
  BY <1>1
<1>4. Ask(m) \in [stale : BOOLEAN, fetch : {"no", "asked", "answered"}, rev : 0..rev, row : Rows]
  BY <1>3, GoneIsRow DEF Ask
<1>. QED  BY <1>1, <1>2, <1>4

LEMMA InvalidateTypes ==
    ASSUME ViewOK, CacheOK, WorldOK, Invalidate, rev' = rev
    PROVE  ViewOK' /\ CacheOK' /\ missed' \in BOOLEAN
<1>1. rev \in Nat
  BY MaxChangesAssumption DEF WorldOK
<1>2. CacheOK'
  BY <1>1, InvalidatedOK DEF Invalidate, CacheOK
<1>. QED  BY <1>2 DEF Invalidate, ViewOK, WorldOK

LEMMA PutInTypes ==
    ASSUME CacheOK, WorldOK, rev' = rev, NEW n \in Nat,
           NEW changed \in [has : BOOLEAN, rev : 0..rev, row : Rows], PutIn(changed, n)
    PROVE  ViewOK' /\ CacheOK' /\ missed' \in BOOLEAN
<1>1. CacheOK'
  BY DEF PutIn, CacheOK
<1>. QED  BY <1>1 DEF PutIn, ViewOK, WorldOK

LEMMA PublishTypes ==
    ASSUME FeedOK, WorldOK, rev' = rev + 1, feedOpen' = feedOpen,
           NEW told \in {"again", "patch", "not"}, Publish(told)
    PROVE  FeedOK'
<1>1. news \in Seq(Event(rev'))
  BY NewsKept DEF FeedOK
<1>2. rev' \in 1..rev'
  BY MaxChangesAssumption DEF WorldOK
<1>3. CASE feedOpen /\ told # "not"
  <2>1. [kind |-> told, rev |-> rev + 1] \in Event(rev')
    BY <1>2, <1>3 DEF Event
  <2>. QED  BY <1>1, <1>3, <2>1, AppendProperties DEF Publish, FeedOK
<1>4. CASE ~(feedOpen /\ told # "not")
  BY <1>1, <1>4 DEF Publish, FeedOK
<1>. QED  BY <1>3, <1>4

LEMMA OthersOK ==
    ASSUME WorldOK
    PROVE  /\ \A e \in scene.others \cup {scene.own} : e.to \subseteq Rows /\ e.told \in {"again", "patch", "not"}
           /\ scene.offered \subseteq Rows
<1>1. scene.own \in Effects /\ scene.others \subseteq Effects /\ scene.offered \subseteq Rows
  BY DEF WorldOK, SceneState
<1>. QED  BY <1>1 DEF Effects

LEMMA HeadEvent ==
    ASSUME FeedOK, WorldOK, news # <<>>
    PROVE  /\ Head(news) \in Event(rev) /\ Head(news).rev \in 1..rev /\ Head(news).kind \in {"again", "patch"}
           /\ Tail(news) \in Seq(Event(rev))
<1>1. Head(news) \in Event(rev) /\ Tail(news) \in Seq(Event(rev))
  BY HeadTailProperties DEF FeedOK
<1>. QED  BY <1>1 DEF Event

LEMMA FeedStepTypes == ASSUME Typed, FeedStep PROVE Typed'
<1>t. /\ ViewOK /\ CacheOK /\ CallOK /\ PageOK /\ FeedOK /\ WorldOK /\ rev \in Nat
  BY MaxChangesAssumption DEF WorldOK, Typed
<1>1. ASSUME NEW e \in scene.others, Elsewhere(e) PROVE Typed'
  <2>1. rev' \in {rev, rev + 1} /\ rev' \in 0..MaxChanges /\ UNCHANGED <<scene, view, cache, call, onDisplay, dialog, feedOpen>>
    BY <1>1, <1>t, MaxChangesAssumption DEF Elsewhere, entryVars, WorldOK
  <2>2. e.to \subseteq Rows /\ e.told \in {"again", "patch", "not"}
    BY <1>t, OthersOK
  <2>3. row' \in Rows
    BY <1>1, <1>t, <2>2 DEF Elsewhere, WorldOK
  <2>4. missed' \in BOOLEAN
    BY <1>1, <1>t DEF Elsewhere, WorldOK
  <2>5. WorldOK'
    BY <1>t, <2>1, <2>3, <2>4 DEF WorldOK
  <2>6. FeedOK'
    <3>1. CASE rev' = rev + 1 /\ Publish(e.told)
      BY <1>t, <2>1, <2>2, <3>1, PublishTypes
    <3>2. CASE UNCHANGED <<rev, news>>
      BY <1>t, <2>1, <3>2 DEF FeedOK
    <3>. QED  BY <1>1, <3>1, <3>2 DEF Elsewhere
  <2>. QED  BY <1>t, <2>1, <2>5, <2>6, SeenKept DEF Typed, PageOK
<1>2. CASE Hear
  <2>1. UNCHANGED <<scene, row, rev, call, onDisplay, dialog, feedOpen>> /\ news # <<>> /\ news' = Tail(news)
    BY <1>2 DEF Hear, serverVars
  <2>2. FeedOK'
    BY <1>t, <2>1, HeadEvent DEF FeedOK
  <2>3. ViewOK' /\ CacheOK' /\ missed' \in BOOLEAN
    <3>1. CASE Invalidate
      BY <1>t, <2>1, <3>1, InvalidateTypes
    <3>2. CASE UNCHANGED <<view, cache>> /\ missed' \in BOOLEAN
      BY <1>t, <2>1, <3>2 DEF ViewOK, CacheOK
    <3>3. ASSUME NEW n, n = Head(news), PutIn([view EXCEPT !.rev = IF @ + 1 = n.rev THEN n.rev ELSE @], n.rev)
          PROVE  ViewOK' /\ CacheOK' /\ missed' \in BOOLEAN
      <4>1. n.rev \in 1..rev
        BY <1>t, <2>1, <3>3, HeadEvent
      <4>2. [view EXCEPT !.rev = IF @ + 1 = n.rev THEN n.rev ELSE @] \in [has : BOOLEAN, rev : 0..rev, row : Rows]
        BY <1>t, <4>1 DEF ViewOK
      <4>. QED  BY <1>t, <2>1, <3>3, <4>1, <4>2, PutInTypes
    <3>. QED  BY <1>2, <1>t, <3>1, <3>2, <3>3 DEF Hear, entryVars, WorldOK
  <2>. QED  BY <1>t, <2>1, <2>2, <2>3 DEF Typed, CallOK, PageOK, WorldOK
<1>3. CASE FeedCloses
  <2>1. FeedOK'
    BY <1>3, <1>t, EmptySeq DEF FeedCloses, FeedOK, serverVars
  <2>. QED  BY <1>3, <1>t, <2>1 DEF FeedCloses, Typed, serverVars, entryVars, ViewOK, CacheOK, CallOK, PageOK, WorldOK
<1>4. CASE FeedOpens
  <2>1. UNCHANGED <<scene, row, rev, call, onDisplay, dialog, news>> /\ feedOpen'
    BY <1>4 DEF FeedOpens, serverVars
  <2>2. FeedOK'
    BY <1>4, <1>t, <2>1 DEF FeedOK, FeedOpens
  <2>3. ViewOK' /\ CacheOK' /\ missed' \in BOOLEAN
    BY <1>4, <1>t, <2>1, InvalidateTypes DEF FeedOpens, entryVars, ViewOK, CacheOK, WorldOK
  <2>. QED  BY <1>t, <2>1, <2>2, <2>3 DEF Typed, CallOK, PageOK, WorldOK
<1>. QED  BY <1>1, <1>2, <1>3, <1>4 DEF FeedStep

LEMMA SeenOK == ASSUME ViewOK, WorldOK PROVE Seen \in Rows
  BY DEF Seen, ViewOK, WorldOK

LEMMA ButtonStepTypes == ASSUME Typed, ButtonStep PROVE Typed'
<1>t. /\ ViewOK /\ CacheOK /\ CallOK /\ PageOK /\ FeedOK /\ WorldOK /\ rev \in Nat
  BY MaxChangesAssumption DEF WorldOK, Typed
<1>n. NoCall \in [stage : Stages, seen : Rows, met : Rows, rev : 0..rev, home : BOOLEAN] /\ NoCall.stage = "no"
  BY <1>t, NothingOK DEF NoCall
<1>f. ASSUME UNCHANGED <<scene, serverVars, entryVars, onDisplay, feedVars, missed>>, CallOK', PageOK' PROVE Typed'
  BY <1>f, <1>t DEF Typed, serverVars, entryVars, feedVars, ViewOK, CacheOK, FeedOK, WorldOK
<1>1. CASE Press
  <2>1. CallOK' /\ PageOK'
    <3>1. Seen \in Rows /\ rev' = rev /\ onDisplay' = onDisplay
      BY <1>1, <1>t, SeenOK DEF Press, serverVars
    <3>2. CASE scene.dialog = "none"
      BY <1>1, <1>t, <1>n, <3>1, <3>2 DEF Press, CallOK, PageOK, Stages
    <3>3. CASE scene.dialog # "none"
      BY <1>1, <1>t, <1>n, <3>1, <3>3 DEF Press, CallOK, PageOK, Stages
    <3>. QED  BY <3>2, <3>3
  <2>. QED  BY <1>1, <1>f, <2>1 DEF Press
<1>2. CASE PressOther
  BY <1>2, <1>f, <1>t DEF PressOther, CallOK, PageOK, serverVars
<1>3. CASE Dismiss
  BY <1>3, <1>f, <1>t, <1>n DEF Dismiss, CallOK, PageOK, serverVars
<1>4. CASE Submit
  BY <1>4, <1>f, <1>t DEF Submit, CallOK, PageOK, Stages, serverVars
<1>5. CASE Serve
  <2>a. \/ rev < MaxChanges /\ rev' = rev + 1
        \/ rev' = rev
    BY <1>5 DEF Serve
  <2>1. /\ rev' \in {rev, rev + 1} /\ rev' \in 0..MaxChanges
        /\ UNCHANGED <<scene, view, cache, onDisplay, dialog, feedOpen>>
    <3>1. UNCHANGED <<scene, view, cache, onDisplay, dialog, feedOpen>>
      BY <1>5 DEF Serve, entryVars
    <3>. QED  BY <1>t, <2>a, <3>1, MaxChangesAssumption DEF WorldOK
  <2>2. row' \in Rows /\ scene.own.told \in {"again", "patch", "not"}
    BY <1>5, <1>t, OthersOK DEF Serve, WorldOK
  <2>3. missed' \in BOOLEAN
    BY <1>5, <1>t DEF Serve, WorldOK
  <2>4. WorldOK'
    BY <1>t, <2>1, <2>2, <2>3 DEF WorldOK
  <2>5. FeedOK'
    <3>1. CASE rev' = rev + 1 /\ Publish(scene.own.told)
      BY <1>t, <2>1, <2>2, <3>1, PublishTypes
    <3>2. CASE UNCHANGED <<rev, news>>
      BY <1>t, <2>1, <3>2 DEF FeedOK
    <3>. QED  BY <1>5, <3>1, <3>2 DEF Serve
  <2>6. CallOK' /\ PageOK'
    <3>1. call' = [call EXCEPT !.stage = "served", !.met = row, !.rev = rev'] /\ rev' \in 0..rev' /\ row \in Rows
      BY <1>5, <1>t, <2>1 DEF Serve, WorldOK
    <3>. QED  BY <1>t, <2>1, <3>1 DEF CallOK, PageOK, Stages
  <2>. QED  BY <1>t, <2>1, <2>4, <2>5, <2>6, SeenKept DEF Typed
<1>6. CASE Refuse
  <2>1. CallOK' /\ PageOK'
    BY <1>6, <1>t DEF Refuse, CallOK, PageOK, Stages, serverVars, WorldOK
  <2>. QED  BY <1>6, <1>f, <2>1 DEF Refuse
<1>7. CASE Succeed
  <2>1. UNCHANGED <<scene, row, rev, onDisplay, feedOpen, news>> /\ call' = NoCall
    BY <1>7 DEF Succeed, serverVars, feedVars
  <2>2. CallOK' /\ PageOK'
    BY <1>7, <1>t, <1>n, <2>1 DEF Succeed, CallOK, PageOK
  <2>3. ViewOK' /\ CacheOK' /\ missed' \in BOOLEAN
    <3>1. CASE Invalidate
      BY <1>t, <2>1, <3>1, InvalidateTypes
    <3>2. CASE UNCHANGED <<entryVars, missed>>
      BY <1>t, <2>1, <3>2 DEF entryVars, ViewOK, CacheOK, WorldOK
    <3>3. CASE PutIn([view EXCEPT !.rev = call.rev], call.rev)
      <4>1. call.rev \in 0..rev
        BY <1>t DEF CallOK
      <4>2. [view EXCEPT !.rev = call.rev] \in [has : BOOLEAN, rev : 0..rev, row : Rows]
        BY <1>t, <4>1 DEF ViewOK
      <4>. QED  BY <1>t, <2>1, <3>3, <4>1, <4>2, PutInTypes
    <3>. QED  BY <1>7, <3>1, <3>2, <3>3 DEF Succeed
  <2>. QED  BY <1>t, <2>1, <2>2, <2>3 DEF Typed, FeedOK, WorldOK
<1>8. CASE Complain
  <2>1. UNCHANGED <<scene, row, rev, view, cache, onDisplay, dialog, feedOpen, news>> /\ missed' \in BOOLEAN
    BY <1>8, <1>t DEF Complain, serverVars, entryVars, feedVars, WorldOK
  <2>2. CallOK' /\ PageOK'
    <3>1. CASE dialog = "own"
      <4>1. call' = [call EXCEPT !.stage = "open", !.rev = 0]
        BY <1>8, <3>1 DEF Complain
      <4>2. call' \in [stage : Stages, seen : Rows, met : Rows, rev : 0..rev, home : BOOLEAN]
        <5>1. 0 \in 0..rev /\ "open" \in Stages
          BY <1>t DEF Stages
        <5>2. CallOK
          BY <1>t
        <5>. QED  BY <4>1, <5>1, <5>2 DEF CallOK
      <4>. QED  BY <1>t, <2>1, <3>1, <4>2 DEF CallOK, PageOK
    <3>2. CASE dialog # "own"
      BY <1>8, <1>t, <1>n, <2>1, <3>2 DEF Complain, CallOK, PageOK
    <3>. QED  BY <3>1, <3>2
  <2>. QED  BY <1>t, <2>1, <2>2 DEF Typed, ViewOK, CacheOK, FeedOK, WorldOK
<1>. QED  BY <1>1, <1>2, <1>3, <1>4, <1>5, <1>6, <1>7, <1>8 DEF ButtonStep

LEMMA TypesKept == ASSUME Typed, UNCHANGED vars PROVE Typed'
  BY DEF vars, serverVars, entryVars, feedVars, Typed, ViewOK, CacheOK, CallOK, PageOK, FeedOK, WorldOK

LEMMA TypedNext == Typed /\ [Next]_vars => Typed'
  BY EntryStepTypes, FeedStepTypes, ButtonStepTypes, TypesKept DEF Next

\* Every variable keeps its type: in particular no dialog of the button is open
\* for a form that is gone, and no event waits for a tab whose feed is closed.
THEOREM TypeCorrect == Spec => []TypeOK
<1>1. Init => Typed
  BY InitTypes
<1>. QED  BY <1>1, TypedNext, TypeParts, PTL DEF Spec

---------------------------------------------------------------------------

LEMMA SceneStays == [Next]_vars => scene' = scene
  BY DEF Next, vars, EntryStep, Load, Leave, Poll, Read, Arrive, FailRead, FeedStep, Elsewhere, Hear, FeedCloses, FeedOpens,
         ButtonStep, Press, PressOther, Dismiss, Submit, Serve, Refuse, Succeed, Complain

\* Every button of every page refreshes what its operation changes and its page
\* shows, and on other pages at least the feed tells of it, except where
\* KnownGap lists the operation and the query: the counts of users and
\* departments, the lists of available vehicles and the others there.  It is
\* offered only to users and for rows that the server accepts, except for the
\* buttons of PermissionGap.  (The invalidate helpers, the query keys and the row
\* actions of the pages, against the routes, the guards and the events of the
\* handlers and the tables their SQL reads.)
THEOREM PagesAreSound == Spec => []PageIsSound
<1>1. Init => PageIsSound
  BY ScenesSound DEF Init, SceneSound, PageIsSound
<1>2. PageIsSound /\ [Next]_vars => PageIsSound'
  BY SceneStays DEF PageIsSound, Refreshes, Offers
<1>. QED  BY <1>1, <1>2, PTL DEF Spec

---------------------------------------------------------------------------

(***************************************************************************)
(* Refusals.  What was pressed was on offer for the state the page showed. *)
(***************************************************************************)
PressedOnOffer == call.stage # "no" => call.seen \in scene.offered

OfferInv == Typed /\ PressedOnOffer /\ (Offers(scene) => RefusedOnlyByRace)

LEMMA OfferNext == OfferInv /\ [Next]_vars => OfferInv'
<1> SUFFICES ASSUME OfferInv, [Next]_vars PROVE OfferInv'
  OBVIOUS
<1>t. Typed /\ Typed' /\ scene' = scene
  BY TypedNext, SceneStays DEF OfferInv
<1>c. CallOK
  BY <1>t DEF Typed
<1>n. NoCall.stage = "no"
  BY DEF NoCall
<1>e. ASSUME call' = NoCall PROVE OfferInv'
  BY <1>t, <1>n, <1>e DEF OfferInv, PressedOnOffer, RefusedOnlyByRace
<1>s. ASSUME call'.seen = call.seen, call'.met = call.met, call.stage # "no",
             call'.stage \in {call.stage, "open", "sent", "served", "declined"}
      PROVE  OfferInv'
  BY <1>t, <1>s DEF OfferInv, PressedOnOffer, RefusedOnlyByRace
<1>u. ASSUME call' = call PROVE OfferInv'
  BY <1>t, <1>u DEF OfferInv, PressedOnOffer, RefusedOnlyByRace
<1>m. call.stage = "no" \/ call.stage = "open" \/ (Unmounted(call).seen = call.seen /\ Unmounted(call).met = call.met
                                                  /\ Unmounted(call).stage = call.stage)
  BY <1>c DEF Unmounted, CallOK
<1>1. CASE Load \/ Leave
  <2>1. call' = Unmounted(call)
    BY <1>1 DEF Load, Leave
  <2>2. CASE call.stage = "open"
    BY <1>e, <2>1, <2>2 DEF Unmounted
  <2>3. CASE call.stage = "no"
    <3>1. call'.stage = "no"
      BY <1>c, <2>1, <2>3 DEF Unmounted, CallOK
    <3>. QED  BY <1>t, <3>1 DEF OfferInv, PressedOnOffer, RefusedOnlyByRace
  <2>. QED  BY <1>m, <1>s, <2>1, <2>2, <2>3
<1>2. CASE Poll \/ Read \/ Arrive \/ FailRead \/ FeedStep \/ PressOther \/ UNCHANGED vars
  BY <1>2, <1>u DEF Poll, Read, Arrive, FailRead, FeedStep, Elsewhere, Hear, FeedCloses, FeedOpens, PressOther, vars
<1>3. CASE Press
  <2>1. call'.seen = Seen /\ Seen \in scene.offered /\ call'.stage \in {"sent", "open"}
    BY <1>3 DEF Press, NoCall
  <2>. QED  BY <1>t, <2>1 DEF OfferInv, PressedOnOffer, RefusedOnlyByRace
<1>4. CASE Dismiss \/ Submit
  <2>1. CASE Dismiss
    BY <1>e, <1>u, <2>1 DEF Dismiss
  <2>2. CASE Submit
    <3>1. call'.seen = call.seen /\ call'.met = call.met /\ call.stage # "no" /\ call'.stage = "sent"
      BY <1>c, <2>2 DEF Submit, CallOK
    <3>. QED  BY <1>s, <3>1
  <2>. QED  BY <1>4, <2>1, <2>2
<1>5. CASE Serve
  BY <1>5, <1>t, <1>c DEF Serve, OfferInv, PressedOnOffer, RefusedOnlyByRace, CallOK
<1>6. CASE Refuse
  <2>1. call'.seen = call.seen /\ call'.met = row /\ call.seen \in scene.offered
    BY <1>6, <1>c DEF Refuse, CallOK, OfferInv, PressedOnOffer
  <2>2. CASE ~Accepts /\ call' = [call EXCEPT !.stage = "refused", !.met = row]
    <3>1. Offers(scene) => \/ row # call.seen
                           \/ call.seen \in scene.warned
                           \/ scene.forbidden
      BY <2>1, <2>2 DEF Offers, Accepts
    <3>. QED  BY <1>t, <2>1, <3>1 DEF OfferInv, PressedOnOffer, RefusedOnlyByRace
  <2>3. CASE call' = [call EXCEPT !.stage = "declined", !.met = row]
    <3>1. call'.stage = "declined"
      BY <1>c, <2>3 DEF CallOK
    <3>. QED  BY <1>t, <2>1, <3>1 DEF OfferInv, PressedOnOffer, RefusedOnlyByRace
  <2>. QED  BY <1>6, <2>2, <2>3 DEF Refuse
<1>7. CASE Succeed \/ Complain
  <2>1. CASE call' = NoCall
    BY <1>e, <2>1
  <2>2. CASE Complain /\ call' = [call EXCEPT !.stage = "open", !.rev = 0]
    <3>1. call'.seen = call.seen /\ call'.met = call.met /\ call'.stage = "open"
      BY <1>c, <2>2 DEF CallOK
    <3>. QED  BY <1>s, <2>2, <3>1 DEF Complain
  <2>. QED  BY <1>7, <2>1, <2>2 DEF Succeed, Complain
<1>. QED  BY <1>1, <1>2, <1>3, <1>4, <1>5, <1>6, <1>7 DEF Next, EntryStep, ButtonStep

\* By the second rule, a button is refused only for a row that changed since the
\* page showed it, or with a warning: however late the page learns of
\* changes, and for any number of them.  (The row actions of the pages.)
THEOREM RefusalsAreRaces == Spec => []RefusedOnlyByRace
<1>1. Init => OfferInv /\ Offers(scene)
  <2>1. ASSUME Init PROVE Typed /\ scene \in Scenes /\ call.stage = "no"
    BY <2>1, InitTypes DEF Init, NoCall
  <2>. QED  BY <2>1, ScenesSound DEF OfferInv, PressedOnOffer, RefusedOnlyByRace, SceneSound
<1>2. OfferInv /\ Offers(scene) /\ [Next]_vars => (OfferInv /\ Offers(scene))'
  BY OfferNext, SceneStays DEF Offers
<1>3. OfferInv /\ Offers(scene) => RefusedOnlyByRace
  BY DEF OfferInv
<1>. QED  BY <1>1, <1>2, <1>3, PTL DEF Spec

---------------------------------------------------------------------------

(***************************************************************************)
(* Late answers.  A held dialog stays open as long as its call is under    *)
(* way and its page is mounted, so that nothing else opens meanwhile.      *)
(***************************************************************************)
HeldOpen == scene.dialog = "held" /\ call.stage # "no" /\ call.home => dialog = "own"

HeldInv == Typed /\ HeldOpen

LEMMA HeldNext == HeldInv /\ [Next]_vars => HeldInv'
<1> SUFFICES ASSUME HeldInv, [Next]_vars PROVE HeldInv'
  OBVIOUS
<1>t. Typed /\ Typed' /\ scene' = scene
  BY TypedNext, SceneStays DEF HeldInv
<1>c. CallOK
  BY <1>t DEF Typed
<1>n. NoCall.stage = "no"
  BY DEF NoCall
<1>1. CASE Load \/ Leave
  <2>1. call' = Unmounted(call)
    BY <1>1 DEF Load, Leave
  <2>2. call'.stage = "no" \/ ~call'.home
    BY <1>c, <1>n, <2>1 DEF Unmounted, CallOK
  <2>. QED  BY <1>t, <2>2 DEF HeldInv, HeldOpen
<1>2. CASE Poll \/ Read \/ Arrive \/ FailRead \/ FeedStep \/ UNCHANGED vars
  <2>1. UNCHANGED <<call, dialog>>
    BY <1>2 DEF Poll, Read, Arrive, FailRead, FeedStep, Elsewhere, Hear, FeedCloses, FeedOpens, vars
  <2>. QED  BY <1>t, <2>1 DEF HeldInv, HeldOpen
<1>3. CASE Press
  BY <1>3, <1>t DEF Press, HeldInv, HeldOpen
<1>4. CASE PressOther
  BY <1>4, <1>t DEF PressOther, HeldInv, HeldOpen
<1>5. CASE Dismiss
  BY <1>5, <1>t, <1>n DEF Dismiss, MayDismiss, HeldInv, HeldOpen
<1>6. CASE Submit \/ Refuse \/ Serve
  <2>1. call'.home = call.home /\ call.stage # "no" /\ dialog' = dialog
    BY <1>6, <1>c DEF Submit, Refuse, Serve, CallOK
  <2>. QED  BY <1>t, <2>1 DEF HeldInv, HeldOpen
<1>7. CASE Succeed
  BY <1>7, <1>t, <1>n DEF Succeed, HeldInv, HeldOpen
<1>8. CASE Complain
  BY <1>8, <1>t, <1>n DEF Complain, HeldInv, HeldOpen
<1>. QED  BY <1>1, <1>2, <1>3, <1>4, <1>5, <1>6, <1>7, <1>8 DEF Next, EntryStep, ButtonStep

\* The success of a call closes no dialog but its own, if its dialog is held
\* open while the call is under way: also when the page was left and opened
\* again in between.  (ConfirmDialog, Modal; onSuccess of the pages.)
THEOREM LateAnswersHarmless == Spec => AnswerClosesOwnDialog
<1>1. Init => HeldInv
  <2>1. ASSUME Init PROVE Typed /\ call.stage = "no"
    BY <2>1, InitTypes DEF Init, NoCall
  <2>. QED  BY <2>1 DEF HeldInv, HeldOpen
<1>2. HeldInv /\ [Next]_vars => [Succeed /\ scene.dialog = "held" => dialog # "other" \/ dialog' = dialog]_vars
  <2>1. HeldInv /\ Succeed /\ scene.dialog = "held" => dialog # "other" \/ dialog' = dialog
    BY DEF HeldInv, HeldOpen, Succeed
  <2>. QED  BY <2>1
<1>. QED  BY <1>1, <1>2, HeldNext, PTL DEF Spec, AnswerClosesOwnDialog

---------------------------------------------------------------------------

(***************************************************************************)
(* Freshness.  Data of version d is covered if each later change will      *)
(* still be brought to it: an event under way invalidates, the answer of   *)
(* the button will, or each change it lacks is itself under way, as an     *)
(* event or as the answer to put in; or else the change was missed.        *)
(***************************************************************************)
AgainDue(n) == \E i \in 1..Len(n) : n[i].kind = "again"
EventDue(n, k) == \E i \in 1..Len(n) : n[i].rev = k
RefreshDue(s, c) == c.stage = "served" /\ s.own.touches /\ s.refreshed
PutDue(s, c, k) == c.stage = "served" /\ s.own.touches /\ s.put /\ c.rev = k

Covered(s, c, n, m, r, d) ==
    m \/ AgainDue(n) \/ RefreshDue(s, c) \/ \A k \in (d + 1)..r : EventDue(n, k) \/ PutDue(s, c, k)

InOrder(n) == \A i, j \in 1..Len(n) : i < j => n[i].rev < n[j].rev
PatchesTold(s, n) == (\E i \in 1..Len(n) : n[i].kind = "patch") => \E e \in s.others \cup {s.own} : e.told = "patch"

\* Data at rest, a mark on display, and an answer that has not arrived.
EntryCovered ==
    /\ cache.fetch = "no" /\ view.has /\ ~cache.stale => Covered(scene, call, news, missed, rev, view.rev)
    /\ cache.fetch = "no" /\ cache.stale /\ onDisplay => missed
    /\ cache.fetch = "answered" => Covered(scene, call, news, missed, rev, cache.rev)

Watched == ~scene.polled /\ Refreshes(scene)

\* A call that has been answered stays so, or a change is missed.
LEMMA CoverKept ==
    ASSUME NEW s, NEW c, NEW c2, NEW n, NEW m \in BOOLEAN, NEW m2 \in BOOLEAN, NEW r \in Nat, NEW d \in Nat,
           Covered(s, c, n, m, r, d), m => m2,
           c.stage = "served" /\ s.own.touches => m2 \/ (c2.stage = "served" /\ c2.rev = c.rev)
    PROVE  Covered(s, c2, n, m2, r, d)
  BY DEF Covered, RefreshDue, PutDue

\* The newest version is covered, and so is everything once a change is missed.
LEMMA CoverNewest == ASSUME NEW s, NEW c, NEW n, NEW m, NEW r \in Nat PROVE Covered(s, c, n, m, r, r)
  BY DEF Covered

LEMMA CoverMissed == ASSUME NEW s, NEW c, NEW n, NEW r, NEW d PROVE Covered(s, c, n, TRUE, r, d)
  BY DEF Covered

\* The answer was put in, or does nothing.
LEMMA CoverAnswered ==
    ASSUME NEW s, NEW c, NEW c2, NEW n, NEW m \in BOOLEAN, NEW m2 \in BOOLEAN, NEW r \in Nat, NEW d \in Nat, NEW d2 \in Nat,
           Covered(s, c, n, m, r, d), m => m2, ~s.refreshed, d <= d2, s.put => c.rev \in Nat /\ c.rev <= d2
    PROVE  Covered(s, c2, n, m2, r, d2)
<1>1. RefreshDue(s, c) = FALSE
  BY DEF RefreshDue
<1>2. \A k \in (d2 + 1)..r : ~PutDue(s, c, k) /\ k \in (d + 1)..r
  BY DEF PutDue
<1>. QED  BY <1>1, <1>2 DEF Covered

\* One change more.
LEMMA CoverGrows ==
    ASSUME NEW s, NEW c, NEW c2, NEW r \in Nat, NEW n \in Seq(Event(r)), NEW n2, NEW m \in BOOLEAN, NEW m2 \in BOOLEAN,
           NEW d \in Nat, NEW told \in {"again", "patch"},
           Covered(s, c, n, m, r, d), m => m2,
           c.stage = "served" => c2 = c,
           n2 = n \/ n2 = Append(n, [kind |-> told, rev |-> r + 1]),
           m2 \/ n2 # n \/ RefreshDue(s, c2) \/ PutDue(s, c2, r + 1)
    PROVE  Covered(s, c2, n2, m2, r + 1, d)
<1>1. Len(n) \in Nat /\ \A i \in 1..Len(n) : n[i] \in Event(r)
  BY LenProperties, ElementOfSeq
<1>2. \A i \in 1..Len(n) : i \in 1..Len(n2) /\ n2[i] = n[i]
  BY <1>1, AppendProperties
<1>3. AgainDue(n) => AgainDue(n2)
  BY <1>2 DEF AgainDue
<1>4. \A k : EventDue(n, k) => EventDue(n2, k)
  BY <1>2 DEF EventDue
<1>5. RefreshDue(s, c) => RefreshDue(s, c2)
  BY DEF RefreshDue
<1>6. \A k : PutDue(s, c, k) => PutDue(s, c2, k)
  BY DEF PutDue
<1>7. m2 \/ RefreshDue(s, c2) \/ EventDue(n2, r + 1) \/ PutDue(s, c2, r + 1)
  <2>1. CASE n2 = Append(n, [kind |-> told, rev |-> r + 1])
    <3>1. Len(n) + 1 \in 1..Len(n2) /\ n2[Len(n) + 1].rev = r + 1
      BY <1>1, <2>1, AppendProperties
    <3>. QED  BY <3>1 DEF EventDue
  <2>. QED  BY <2>1
<1>8. \A k \in (d + 1)..(r + 1) : k \in (d + 1)..r \/ k = r + 1
  OBVIOUS
<1>. QED  BY <1>3, <1>4, <1>5, <1>6, <1>7, <1>8 DEF Covered

LEMMA AgainStays ==
    ASSUME NEW r, NEW n \in Seq(Event(r)), n # <<>>, Head(n).kind = "patch", AgainDue(n)
    PROVE  AgainDue(Tail(n))
<1>1. PICK i \in 1..Len(n) : n[i].kind = "again"
  BY DEF AgainDue
<1>2. Len(n) \in Nat \ {0} /\ i # 1
  BY <1>1, EmptySeq
<1>3. i - 1 \in 1..Len(Tail(n)) /\ Tail(n)[i - 1] = n[i]
  BY <1>2, HeadTailProperties
<1>. QED  BY <1>1, <1>3 DEF AgainDue

\* The tab takes up an event that was put into the data, or is older than it.
LEMMA CoverHeard ==
    ASSUME NEW s, NEW c, NEW r \in Nat, NEW n \in Seq(Event(r)), n # <<>>, NEW m \in BOOLEAN, NEW m2 \in BOOLEAN,
           NEW d \in Nat, NEW d2 \in Nat,
           Covered(s, c, n, m, r, d), m => m2, d <= d2, Head(n).kind = "patch", Head(n).rev <= d2
    PROVE  Covered(s, c, Tail(n), m2, r, d2)
<1>1. Len(n) \in Nat \ {0} /\ Head(n) = n[1] /\ Head(n).rev \in Nat
  <2>1. Head(n) \in Event(r) /\ Len(n) \in Nat \ {0} /\ Head(n) = n[1]
    BY HeadTailProperties, EmptySeq
  <2>. QED  BY <2>1 DEF Event
<1>2. \A i \in 2..Len(n) : i - 1 \in 1..Len(Tail(n)) /\ Tail(n)[i - 1] = n[i]
  BY <1>1, HeadTailProperties
<1>3. AgainDue(n) => AgainDue(Tail(n))
  BY AgainStays
<1>4. ASSUME NEW k \in (d2 + 1)..r, EventDue(n, k) PROVE EventDue(Tail(n), k)
  <2>1. PICK i \in 1..Len(n) : n[i].rev = k
    BY <1>4 DEF EventDue
  <2>2. i \in 2..Len(n)
    BY <1>1, <2>1
  <2>. QED  BY <1>2, <2>1, <2>2 DEF EventDue
<1>5. \A k \in (d2 + 1)..r : k \in (d + 1)..r
  OBVIOUS
<1>. QED  BY <1>3, <1>4, <1>5 DEF Covered

\* An event that cannot be put in, since an earlier one has not come, does not occur.
LEMMA NoEventSkipped ==
    ASSUME NEW s, NEW c, NEW r \in Nat, NEW n \in Seq(Event(r)), n # <<>>, NEW d \in Nat,
           InOrder(n), PatchesTold(s, n), Refreshes(s), s.put \in BOOLEAN, s.refreshed \in BOOLEAN,
           Head(n).kind = "patch", Head(n).rev > d + 1,
           Covered(s, c, n, FALSE, r, d), ~AgainDue(n)
    PROVE  RefreshDue(s, c)
<1>1. Len(n) \in Nat \ {0} /\ Head(n) = n[1] /\ Head(n).rev \in 1..r
  <2>1. Head(n) \in Event(r) /\ Len(n) \in Nat \ {0} /\ Head(n) = n[1]
    BY HeadTailProperties, EmptySeq
  <2>. QED  BY <2>1 DEF Event
<1>2. \A i \in 1..Len(n) : n[i].rev \in Nat /\ (i # 1 => n[1].rev < n[i].rev)
  <2>1. \A i \in 1..Len(n) : n[i] \in Event(r)
    BY ElementOfSeq
  <2>. QED  BY <1>1, <2>1 DEF InOrder, Event
<1>3. ~EventDue(n, d + 1)
  BY <1>1, <1>2 DEF EventDue
<1>4. \E e \in s.others \cup {s.own} : e.told = "patch"
  BY <1>1 DEF PatchesTold
<1>5. s.put => s.refreshed
  BY <1>4 DEF Refreshes
<1>6. d + 1 \in (d + 1)..r
  BY <1>1
<1>. QED  BY <1>3, <1>5, <1>6 DEF Covered, PutDue, RefreshDue

\* The types the steps below rely on.
LEMMA FreshTypes ==
    ASSUME Typed
    PROVE  /\ rev \in Nat /\ view.rev \in 0..rev /\ cache.rev \in 0..rev /\ call.rev \in 0..rev
           /\ view.has \in BOOLEAN /\ cache.stale \in BOOLEAN /\ missed \in BOOLEAN /\ onDisplay \in BOOLEAN
           /\ cache.fetch \in {"no", "asked", "answered"} /\ news \in Seq(Event(rev))
           /\ scene.put \in BOOLEAN /\ scene.refreshed \in BOOLEAN
<1>1. scene.put \in BOOLEAN /\ scene.refreshed \in BOOLEAN
  BY DEF Typed, WorldOK, SceneState
<1>2. rev \in Nat
  BY MaxChangesAssumption DEF Typed, WorldOK
<1>. QED  BY <1>1, <1>2 DEF Typed, WorldOK, ViewOK, CacheOK, CallOK, FeedOK, PageOK

\* An invalidation leaves nothing uncovered, whatever was.
LEMMA InvalidateCovers ==
    ASSUME Typed, Invalidate, UNCHANGED <<rev, onDisplay>>
    PROVE  EntryCovered'
<1>. DEFINE marked == [cache EXCEPT !.stale = TRUE]
<1>t. rev \in Nat /\ view' = view /\ cache.rev \in 0..rev /\ CacheOK
  BY FreshTypes DEF Invalidate, Typed
<1>1. CASE onDisplay /\ (view.has \/ cache.fetch = "no")
  <2>1. cache'.fetch = "asked"
    BY <1>1 DEF Invalidate, Invalidated, Ask
  <2>. QED  BY <2>1 DEF EntryCovered
<1>2. CASE ~(onDisplay /\ (view.has \/ cache.fetch = "no"))
  <2>1. cache'.stale /\ cache'.fetch = cache.fetch /\ cache'.rev = cache.rev
    <3>1. cache' = marked
      BY <1>2 DEF Invalidate, Invalidated
    <3>. QED  BY <1>t, <3>1, MarkOK
  <2>2. cache.fetch = "no" => ~onDisplay
    BY <1>2
  <2>3. ASSUME cache.fetch = "answered" PROVE Covered(scene, call, news, missed, rev, cache.rev)'
    <3>1. cache.rev # rev => missed'
      BY <1>2, <2>3 DEF Invalidate, InvalidationLost
    <3>2. Covered(scene', call', news', missed', rev, cache.rev)
      <4>1. CASE cache.rev = rev
        BY <1>t, <4>1, CoverNewest
      <4>2. CASE cache.rev # rev
        BY <3>1, <4>2 DEF Covered
      <4>. QED  BY <4>1, <4>2
    <3>. QED  BY <2>1, <3>2
  <2>. QED  BY <2>1, <2>2, <2>3 DEF EntryCovered
<1>. QED  BY <1>1, <1>2

\* A change put into the data covers what the data covered, if what covered the
\* data then covers the changed data now.
LEMMA PutInCovers ==
    ASSUME Typed, NEW changed, NEW n \in Nat, PutIn(changed, n), UNCHANGED rev,
           changed.has = view.has, changed.rev \in 0..rev, missed' \in BOOLEAN,
           view.has /\ Covered(scene, call, news, missed, rev, view.rev) /\ changed.rev >= view.rev
               => Covered(scene', call', news', missed', rev, changed.rev),
           Covered(scene, call, news, missed, rev, cache.rev) /\ cache.rev >= n
               => Covered(scene', call', news', missed', rev, cache.rev),
           EntryCovered
    PROVE  EntryCovered'
<1>t. rev \in Nat /\ view.rev \in 0..rev /\ cache.rev \in 0..rev
  BY FreshTypes
<1>c. cache'.stale = FALSE /\ cache'.fetch = cache.fetch /\ cache'.rev = cache.rev /\ view' = changed
  BY DEF PutIn, Typed, CacheOK
<1>m. missed' => \A d : Covered(scene', call', news', missed', rev, d)
  BY DEF Covered
<1>1. ASSUME cache.fetch = "no", view.has PROVE Covered(scene', call', news', missed', rev, changed.rev)
  <2>1. CASE cache.stale /\ changed.rev # rev
    BY <1>1, <1>m, <2>1 DEF PutIn
  <2>2. CASE changed.rev = rev
    BY <1>t, <2>2, CoverNewest
  <2>3. CASE ~cache.stale
    <3>1. CASE changed.rev < view.rev
      BY <1>1, <1>m, <3>1 DEF PutIn
    <3>2. CASE changed.rev >= view.rev
      BY <1>1, <2>3, <3>2 DEF EntryCovered
    <3>. QED  BY <1>t, <3>1, <3>2
  <2>. QED  BY <2>1, <2>2, <2>3
<1>2. ASSUME cache.fetch = "answered" PROVE Covered(scene', call', news', missed', rev, cache.rev)
  <2>1. CASE cache.rev < n
    BY <1>2, <1>m, <2>1 DEF PutIn
  <2>2. CASE cache.rev >= n
    BY <1>2, <2>2 DEF EntryCovered
  <2>. QED  BY <1>t, <2>1, <2>2
<1>. QED  BY <1>c, <1>1, <1>2 DEF EntryCovered

\* The steps that leave entry, data and events alone, and drop no answer.
LEMMA EntryAlone ==
    ASSUME Typed, Typed', EntryCovered, UNCHANGED <<scene, rev, view, cache, news>>,
           missed => missed', cache.fetch = "no" /\ cache.stale /\ onDisplay' => onDisplay \/ missed',
           call.stage = "served" /\ scene.own.touches => missed' \/ (call'.stage = "served" /\ call'.rev = call.rev)
    PROVE  EntryCovered'
<1>t. rev \in Nat /\ view.rev \in Nat /\ cache.rev \in Nat /\ missed \in BOOLEAN /\ missed' \in BOOLEAN
  BY FreshTypes DEF Typed, WorldOK
<1>1. \A d \in Nat : Covered(scene, call, news, missed, rev, d) => Covered(scene', call', news', missed', rev', d)
  BY <1>t, CoverKept
<1>. QED  BY <1>t, <1>1 DEF EntryCovered

LEMMA EntryStepFresh ==
    ASSUME Typed, Typed', EntryCovered, EntryStep
    PROVE  EntryCovered' /\ UNCHANGED <<scene, news>>
<1>t. rev \in Nat /\ view.rev \in Nat /\ cache.rev \in Nat /\ missed \in BOOLEAN /\ missed' \in BOOLEAN /\ CallOK
  BY FreshTypes DEF Typed, WorldOK
<1>u. UNCHANGED <<scene, rev, news>>
  BY DEF EntryStep, Load, Leave, Poll, Read, Arrive, FailRead, serverVars, feedVars
<1>m. call.stage = "served" => Unmounted(call).stage = "served" /\ Unmounted(call).rev = call.rev
  BY <1>t DEF Unmounted, CallOK
<1>1. CASE Load
  <2>1. CASE cache' = Ask(cache)
    <3>1. cache'.fetch = "asked"
      BY <2>1 DEF Ask
    <3>. QED  BY <1>u, <3>1 DEF EntryCovered
  <2>2. CASE (cache.fetch # "no" \/ (view.has /\ ~cache.stale)) /\ UNCHANGED cache
    BY <1>1, <1>u, <1>m, <2>2, EntryAlone DEF Load
  <2>. QED  BY <1>1, <2>1, <2>2 DEF Load
<1>2. CASE Leave
  BY <1>2, <1>u, <1>m, EntryAlone DEF Leave, entryVars
<1>3. CASE Poll
  <2>1. cache'.fetch = "asked"
    BY <1>3 DEF Poll, Ask
  <2>. QED  BY <1>u, <2>1 DEF EntryCovered
<1>4. CASE Read
  <2>1. cache'.fetch = "answered" /\ cache'.rev = rev
    BY <1>4 DEF Read, Typed, CacheOK
  <2>2. Covered(scene', call', news', missed', rev', cache'.rev)
    BY <1>t, <1>u, <2>1, CoverNewest
  <2>. QED  BY <1>u, <2>1, <2>2 DEF EntryCovered
<1>5. CASE Arrive
  <2>1. /\ cache.fetch = "answered" /\ view'.rev = cache.rev /\ call' = call
        /\ cache'.fetch = "no" /\ ~cache'.stale /\ missed' = (missed /\ cache.rev # rev)
    BY <1>5 DEF Arrive, NoFetch
  <2>2. Covered(scene', call', news', missed', rev', cache.rev)
    <3>1. CASE cache.rev = rev
      BY <1>t, <1>u, <3>1, CoverNewest
    <3>2. CASE cache.rev # rev
      BY <1>t, <1>u, <2>1, <3>2, CoverKept DEF EntryCovered
    <3>. QED  BY <3>1, <3>2
  <2>. QED  BY <1>u, <2>1, <2>2 DEF EntryCovered
<1>6. CASE FailRead
  BY <1>6, <1>u DEF FailRead, EntryCovered, Covered
<1>. QED  BY <1>u, <1>1, <1>2, <1>3, <1>4, <1>5, <1>6 DEF EntryStep

\* Events are appended in the order of the changes, patches only where told.
LEMMA OrderGrows ==
    ASSUME NEW s, NEW r \in Nat, NEW n \in Seq(Event(r)), InOrder(n), PatchesTold(s, n),
           NEW e \in s.others \cup {s.own}, e.told \in {"again", "patch"}
    PROVE  LET n2 == Append(n, [kind |-> e.told, rev |-> r + 1]) IN InOrder(n2) /\ PatchesTold(s, n2)
<1>. DEFINE n2 == Append(n, [kind |-> e.told, rev |-> r + 1])
<1>1. Len(n) \in Nat /\ \A i \in 1..Len(n) : n[i] \in Event(r)
  BY LenProperties, ElementOfSeq
<1>2. /\ Len(n2) = Len(n) + 1 /\ n2[Len(n) + 1] = [kind |-> e.told, rev |-> r + 1]
      /\ \A i \in 1..Len(n) : n2[i] = n[i]
  BY <1>1, AppendProperties
<1>3. \A i \in 1..Len(n) : n[i].rev \in Nat /\ n[i].rev < r + 1
  BY <1>1 DEF Event
<1>. HIDE DEF n2
<1>4. \A i \in 1..Len(n2) : i \in 1..Len(n) \/ i = Len(n) + 1
  BY <1>1, <1>2
<1>5. InOrder(n2)
  BY <1>1, <1>2, <1>3, <1>4 DEF InOrder
<1>6. PatchesTold(s, n2)
  BY <1>1, <1>2, <1>4 DEF PatchesTold
<1>. QED  BY <1>5, <1>6 DEF n2

LEMMA OrderHeard ==
    ASSUME NEW s, NEW r \in Nat, NEW n \in Seq(Event(r)), n # <<>>, InOrder(n), PatchesTold(s, n)
    PROVE  InOrder(Tail(n)) /\ PatchesTold(s, Tail(n))
<1>1. Len(n) \in Nat \ {0} /\ Len(Tail(n)) = Len(n) - 1 /\ \A i \in 1..Len(Tail(n)) : Tail(n)[i] = n[i + 1]
  BY HeadTailProperties, EmptySeq
<1>2. \A i \in 1..Len(Tail(n)) : i + 1 \in 1..Len(n)
  BY <1>1
<1>3. \A i, j \in 1..Len(Tail(n)) : i < j => i + 1 < j + 1
  BY <1>1
<1>. QED  BY <1>1, <1>2, <1>3 DEF InOrder, PatchesTold

LEMMA PublishOrder ==
    ASSUME FeedOK, rev \in Nat, InOrder(news), PatchesTold(scene, news), NEW e \in scene.others \cup {scene.own}, Publish(e.told),
           e.told \in {"again", "patch", "not"}
    PROVE  InOrder(news') /\ PatchesTold(scene, news')
<1>1. CASE news' = news
  BY <1>1
<1>2. CASE e.told # "not" /\ news' = Append(news, [kind |-> e.told, rev |-> rev + 1])
  BY <1>2, OrderGrows DEF FeedOK
<1>. QED  BY <1>1, <1>2 DEF Publish

OrderInv == Typed /\ InOrder(news) /\ PatchesTold(scene, news)

LEMMA OrderNext == OrderInv /\ [Next]_vars => OrderInv'
<1> SUFFICES ASSUME OrderInv, [Next]_vars PROVE OrderInv'
  OBVIOUS
<1>t. Typed /\ Typed' /\ scene' = scene /\ FeedOK /\ rev \in Nat /\ news \in Seq(Event(rev))
  BY TypedNext, SceneStays, FreshTypes DEF OrderInv, Typed
<1>o. \A e \in scene.others \cup {scene.own} : e.told \in {"again", "patch", "not"}
  BY <1>t, OthersOK DEF Typed
<1>u. ASSUME UNCHANGED news PROVE OrderInv'
  BY <1>t, <1>u DEF OrderInv
<1>1. ASSUME NEW e \in scene.others, Elsewhere(e) PROVE OrderInv'
  <2>1. CASE Publish(e.told)
    BY <1>t, <1>o, <2>1, PublishOrder DEF OrderInv
  <2>. QED  BY <1>1, <1>u, <2>1 DEF Elsewhere
<1>2. CASE Hear
  BY <1>2, <1>t, OrderHeard DEF Hear, OrderInv
<1>3. CASE FeedCloses
  <2>1. news' = <<>>
    BY <1>3 DEF FeedCloses
  <2>2. InOrder(<<>>) /\ PatchesTold(scene, <<>>)
    BY DEF InOrder, PatchesTold
  <2>. QED  BY <1>t, <2>1, <2>2 DEF OrderInv
<1>4. CASE Serve
  <2>1. CASE Publish(scene.own.told)
    BY <1>t, <1>o, <2>1, PublishOrder DEF OrderInv
  <2>. QED  BY <1>4, <1>u, <2>1 DEF Serve
<1>5. CASE EntryStep \/ FeedOpens \/ Press \/ PressOther \/ Dismiss \/ Submit \/ Refuse \/ Succeed \/ Complain \/ UNCHANGED vars
  BY <1>5, <1>u DEF EntryStep, Load, Leave, Poll, Read, Arrive, FailRead, FeedOpens, Press, PressOther, Dismiss, Submit,
                    Refuse, Succeed, Complain, vars, feedVars
<1>. QED  BY <1>1, <1>2, <1>3, <1>4, <1>5 DEF Next, FeedStep, ButtonStep

LEMMA HearFresh ==
    ASSUME OrderInv, Typed', EntryCovered, Watched, Hear
    PROVE  EntryCovered'
<1>. DEFINE n == Head(news)
            patched == [view EXCEPT !.rev = IF @ + 1 = n.rev THEN n.rev ELSE @]
<1>t. /\ rev \in Nat /\ view.rev \in 0..rev /\ cache.rev \in 0..rev /\ missed \in BOOLEAN /\ missed' \in BOOLEAN
      /\ view.has \in BOOLEAN /\ news \in Seq(Event(rev)) /\ scene.put \in BOOLEAN /\ scene.refreshed \in BOOLEAN /\ ViewOK
  BY FreshTypes DEF OrderInv, Typed, WorldOK
<1>u. UNCHANGED <<scene, rev, call, onDisplay>> /\ news # <<>> /\ news' = Tail(news)
  BY DEF Hear, serverVars
<1>n. n.rev \in 1..rev /\ n.kind \in {"again", "patch"}
  BY <1>u, HeadEvent DEF OrderInv, Typed
<1>m. missed => missed'
  BY DEF Hear, Invalidate, PutIn
<1>. HIDE DEF n
<1>h. ASSUME n.kind = "patch", NEW d \in Nat, NEW d2 \in Nat, Covered(scene, call, news, missed, rev, d), d <= d2, n.rev <= d2
      PROVE  Covered(scene', call', news', missed', rev, d2)
  BY <1>t, <1>u, <1>m, <1>h, CoverHeard DEF n
<1>1. CASE n.kind = "again"
  BY <1>1, <1>u, InvalidateCovers DEF Hear, OrderInv, n
<1>2. CASE n.kind = "patch" /\ view.has
  <2>1. PutIn(patched, n.rev)
    BY <1>2 DEF Hear, n
  <2>2. patched.has = view.has /\ patched.rev = IF view.rev + 1 = n.rev THEN n.rev ELSE view.rev
    BY <1>t DEF ViewOK
  <2>3. ASSUME Covered(scene, call, news, missed, rev, view.rev)
        PROVE  Covered(scene', call', news', missed', rev, patched.rev)
    <3>1. CASE n.rev <= view.rev + 1
      BY <1>t, <1>n, <1>2, <1>h, <2>2, <2>3, <3>1
    <3>2. CASE n.rev > view.rev + 1
      <4>1. CASE missed
        BY <1>m, <4>1 DEF Covered
      <4>2. CASE AgainDue(news)
        <5>1. AgainDue(news')
          BY <1>t, <1>u, <1>2, <4>2, AgainStays DEF n
        <5>. QED  BY <5>1 DEF Covered
      <4>3. CASE ~missed /\ ~AgainDue(news)
        <5>1. RefreshDue(scene, call)
          <6>1. Covered(scene, call, news, FALSE, rev, view.rev)
            BY <2>3, <4>3 DEF Covered
          <6>2. InOrder(news) /\ PatchesTold(scene, news) /\ Refreshes(scene)
            BY DEF OrderInv, Watched
          <6>3. Head(news).kind = "patch" /\ Head(news).rev > view.rev + 1 /\ view.rev \in Nat
            BY <1>t, <1>2, <3>2 DEF n
          <6>. QED  BY ONLY <1>t, <1>u, <4>3, <6>1, <6>2, <6>3, NoEventSkipped
        <5>. QED  BY <1>u, <5>1 DEF Covered
      <4>. QED  BY <4>1, <4>2, <4>3
    <3>. QED  BY <1>t, <1>n, <3>1, <3>2
  <2>4. patched.rev \in 0..rev
    BY <1>t, <1>n, <2>2
  <2>5. Covered(scene, call, news, missed, rev, cache.rev) /\ cache.rev >= n.rev
            => Covered(scene', call', news', missed', rev, cache.rev)
    BY <1>t, <1>n, <1>2, <1>h
  <2>. HIDE DEF patched
  <2>. QED  BY <1>t, <1>n, <1>u, <2>1, <2>2, <2>3, <2>4, <2>5, PutInCovers DEF OrderInv
<1>3. CASE n.kind = "patch" /\ ~view.has
  <2>1. UNCHANGED <<view, cache>> /\ missed' = (missed \/ (cache.fetch = "answered" /\ cache.rev < n.rev))
    BY <1>3 DEF Hear, entryVars, n
  <2>2. ASSUME cache.fetch = "answered" PROVE Covered(scene', call', news', missed', rev, cache.rev)
    <3>1. CASE cache.rev < n.rev
      BY <2>1, <2>2, <3>1 DEF Covered
    <3>2. CASE cache.rev >= n.rev
      BY <1>t, <1>n, <1>3, <1>h, <2>2, <3>2 DEF EntryCovered
    <3>. QED  BY <1>t, <1>n, <3>1, <3>2
  <2>. QED  BY <1>u, <1>3, <2>1, <2>2 DEF EntryCovered
<1>. QED  BY <1>t, <1>n, <1>1, <1>2, <1>3

\* A change is published or missed, or the answer of the button will bring it.
LEMMA ChangeFresh ==
    ASSUME Typed, Typed', EntryCovered, rev' = rev + 1, UNCHANGED <<scene, view, cache, onDisplay, feedOpen>>,
           NEW told \in {"again", "patch", "not"}, Publish(told), missed => missed',
           call.stage = "served" => call' = call,
           missed' \/ (feedOpen /\ told # "not") \/ RefreshDue(scene, call') \/ PutDue(scene, call', rev + 1)
    PROVE  EntryCovered'
<1>t. /\ rev \in Nat /\ view.rev \in Nat /\ cache.rev \in Nat /\ missed \in BOOLEAN /\ missed' \in BOOLEAN
      /\ news \in Seq(Event(rev))
  BY FreshTypes DEF Typed, WorldOK
<1>1. ASSUME NEW d \in Nat, Covered(scene, call, news, missed, rev, d)
      PROVE  Covered(scene, call', news', missed', rev + 1, d)
  <2>1. CASE feedOpen /\ told # "not"
    <3>1. told \in {"again", "patch"} /\ news' = Append(news, [kind |-> told, rev |-> rev + 1])
      BY <2>1 DEF Publish
    <3>2. Len(news') = Len(news) + 1 /\ Len(news) \in Nat
      BY <1>t, <3>1, AppendProperties, LenProperties
    <3>3. news' # news
      BY <3>2
    <3>. QED  BY ONLY <1>t, <1>1, <3>1, <3>3, CoverGrows, missed => missed', call.stage = "served" => call' = call
  <2>2. CASE ~(feedOpen /\ told # "not")
    <3>1. news' = news
      BY <2>2 DEF Publish
    <3>2. "again" \in {"again", "patch"}
      OBVIOUS
    <3>. QED  BY <1>t, <1>1, <2>2, <3>1, <3>2, CoverGrows
  <2>. QED  BY <2>1, <2>2
<1>. QED  BY <1>t, <1>1 DEF EntryCovered

LEMMA FeedStepFresh ==
    ASSUME OrderInv, Typed', EntryCovered, Watched, FeedStep
    PROVE  EntryCovered'
<1>t. Typed /\ rev \in Nat /\ WorldOK
  BY FreshTypes DEF OrderInv, Typed
<1>1. ASSUME NEW e \in scene.others, Elsewhere(e) PROVE EntryCovered'
  <2>1. UNCHANGED <<scene, view, cache, onDisplay, call, feedOpen>> /\ e.told \in {"again", "patch", "not"}
    BY <1>1, <1>t, OthersOK DEF Elsewhere, entryVars
  <2>2. CASE e.touches
    <3>1. rev' = rev + 1 /\ Publish(e.told) /\ missed' = (missed \/ e.told = "not" \/ ~feedOpen)
      BY <1>1, <2>2 DEF Elsewhere
    <3>. QED  BY <1>t, <2>1, <3>1, ChangeFresh
  <2>3. CASE ~e.touches
    <3>1. UNCHANGED <<rev, news, missed>>
      BY <1>1, <2>3 DEF Elsewhere
    <3>. QED  BY <1>t, <2>1, <3>1, EntryAlone
  <2>. QED  BY <2>2, <2>3
<1>2. CASE Hear
  BY <1>2, HearFresh
<1>3. CASE FeedCloses
  <2>1. UNCHANGED <<scene, rev, view, cache, onDisplay, call>> /\ news' = <<>> /\ missed' = (missed \/ news # <<>>)
    BY <1>3 DEF FeedCloses, serverVars, entryVars
  <2>2. CASE missed'
    BY <2>1, <2>2 DEF EntryCovered, Covered
  <2>3. CASE ~missed'
    <3>1. UNCHANGED <<news, missed>>
      BY <1>t, <2>1, <2>3 DEF WorldOK
    <3>. QED  BY <1>t, <2>1, <3>1, EntryAlone
  <2>. QED  BY <2>2, <2>3
<1>4. CASE FeedOpens
  <2>1. CASE Invalidate
    BY <1>4, <1>t, <2>1, InvalidateCovers DEF FeedOpens, serverVars
  <2>2. CASE UNCHANGED <<entryVars, missed>>
    BY <1>4, <1>t, <2>2, EntryAlone DEF FeedOpens, serverVars, entryVars
  <2>. QED  BY <1>4, <2>1, <2>2 DEF FeedOpens
<1>. QED  BY <1>1, <1>2, <1>3, <1>4 DEF FeedStep

LEMMA ButtonStepFresh ==
    ASSUME OrderInv, Typed', EntryCovered, Watched, ButtonStep
    PROVE  EntryCovered'
<1>t. /\ rev \in Nat /\ view.rev \in 0..rev /\ cache.rev \in 0..rev /\ call.rev \in 0..rev
      /\ missed \in BOOLEAN /\ missed' \in BOOLEAN
      /\ scene.put \in BOOLEAN /\ scene.refreshed \in BOOLEAN /\ Typed /\ CallOK /\ ViewOK
  BY FreshTypes DEF OrderInv, Typed, WorldOK
<1>1. CASE Press \/ PressOther \/ Dismiss \/ Submit \/ Refuse
  <2>1. UNCHANGED <<scene, rev, view, cache, onDisplay, news, missed>>
    BY <1>1 DEF Press, PressOther, Dismiss, Submit, Refuse, serverVars, entryVars, feedVars
  <2>2. call.stage = "served" => call' = call
    BY <1>1 DEF Press, PressOther, Dismiss, Submit, Refuse
  <2>. QED  BY <1>t, <2>1, <2>2, EntryAlone
<1>2. CASE Serve
  <2>1. /\ UNCHANGED <<scene, view, cache, onDisplay, feedOpen>> /\ call.stage = "sent"
        /\ scene.own.told \in {"again", "patch", "not"}
    BY <1>2, <1>t, OthersOK DEF Serve, entryVars, Typed
  <2>2. call'.stage = "served" /\ call'.rev = rev'
    BY <1>2, <1>t DEF Serve, CallOK
  <2>3. CASE scene.own.touches
    <3>1. /\ rev' = rev + 1 /\ Publish(scene.own.told)
          /\ missed' = \/ missed
                       \/ scene.away /\ ~scene.refreshed /\ scene.own.told # "not" /\ ~feedOpen
                       \/ scene.known /\ (scene.own.told = "not" \/ ~feedOpen)
      BY <1>2, <2>3 DEF Serve
    <3>2. scene.refreshed \/ scene.put \/ (scene.away /\ scene.own.told # "not") \/ scene.known
      BY <2>3 DEF Watched, Refreshes
    <3>3. missed' \/ (feedOpen /\ scene.own.told # "not") \/ RefreshDue(scene, call') \/ PutDue(scene, call', rev + 1)
      BY <2>2, <2>3, <3>1, <3>2 DEF RefreshDue, PutDue
    <3>. QED  BY <1>t, <2>1, <3>1, <3>3, ChangeFresh
  <2>4. CASE ~scene.own.touches
    <3>1. UNCHANGED <<rev, news, missed>>
      BY <1>2, <2>4 DEF Serve
    <3>. QED  BY <1>t, <2>1, <3>1, EntryAlone
  <2>. QED  BY <2>3, <2>4
<1>3. CASE Succeed
  <2>1. UNCHANGED <<scene, rev, onDisplay, news>>
    BY <1>3 DEF Succeed, serverVars, feedVars
  <2>2. CASE scene.refreshed
    BY <1>3, <1>t, <2>1, <2>2, InvalidateCovers DEF Succeed
  <2>a. ASSUME ~scene.refreshed, missed => missed', NEW d \in Nat, NEW d2 \in Nat, d <= d2, scene.put => call.rev <= d2,
               Covered(scene, call, news, missed, rev, d)
        PROVE  Covered(scene', call', news', missed', rev, d2)
    BY <1>t, <2>1, <2>a, CoverAnswered
  <2>3. CASE ~scene.refreshed /\ scene.put
    <3>. DEFINE answer == [view EXCEPT !.rev = call.rev]
    <3>1. PutIn(answer, call.rev) /\ (missed => missed')
      BY <1>3, <2>3 DEF Succeed, PutIn
    <3>2. answer.has = view.has /\ answer.rev = call.rev
      BY <1>t DEF ViewOK
    <3>3. /\ Covered(scene, call, news, missed, rev, view.rev) /\ answer.rev >= view.rev
                => Covered(scene', call', news', missed', rev, answer.rev)
          /\ Covered(scene, call, news, missed, rev, cache.rev) /\ cache.rev >= call.rev
                => Covered(scene', call', news', missed', rev, cache.rev)
      BY <1>t, <2>a, <2>3, <3>1, <3>2
    <3>. HIDE DEF answer
    <3>. QED  BY <1>t, <2>1, <3>1, <3>2, <3>3, PutInCovers
  <2>4. CASE ~scene.refreshed /\ ~scene.put
    <3>1. UNCHANGED <<view, cache, missed>>
      BY <1>3, <2>4 DEF Succeed, entryVars
    <3>2. \A d \in Nat : Covered(scene, call, news, missed, rev, d) => Covered(scene', call', news', missed', rev, d)
      BY <2>a, <2>4, <3>1
    <3>. QED  BY <1>t, <2>1, <3>1, <3>2 DEF EntryCovered
  <2>. QED  BY <1>t, <2>2, <2>3, <2>4
<1>4. CASE Complain
  <2>1. UNCHANGED <<scene, rev, view, cache, onDisplay, news>> /\ missed' = (missed \/ (call.stage = "served" /\ scene.own.touches))
    BY <1>4 DEF Complain, serverVars, entryVars, feedVars
  <2>. QED  BY <1>t, <2>1, EntryAlone
<1>. QED  BY <1>1, <1>2, <1>3, <1>4 DEF ButtonStep

FreshInv == OrderInv /\ Watched /\ EntryCovered

LEMMA FreshNext == FreshInv /\ [Next]_vars => FreshInv'
<1> SUFFICES ASSUME FreshInv, [Next]_vars PROVE FreshInv'
  OBVIOUS
<1>1. OrderInv /\ OrderInv' /\ Typed /\ Typed' /\ Watched /\ Watched'
  BY OrderNext, SceneStays DEF FreshInv, OrderInv, Watched, Refreshes
<1>2. CASE UNCHANGED vars
  BY <1>1, <1>2, EntryAlone DEF vars, serverVars, entryVars, feedVars, FreshInv
<1>. QED  BY <1>1, <1>2, EntryStepFresh, FeedStepFresh, ButtonStepFresh DEF Next, FreshInv

\* By the first rule, a query on display shows the latest data once nothing is
\* under way: whatever changes are made here and elsewhere, in whatever order
\* answers, events and invalidations come, and however often the page is left.
\* A query that KnownGap lists for the button of the scene is excused for that
\* button only while no event comes of its change.  (The invalidations of the
\* pages, setQueryData, useWebSocket.)
THEOREM QuietPagesAreFresh == Spec => []QuietMeansFresh
<1>1. Init /\ ~scene.polled => FreshInv
  <2> SUFFICES ASSUME Init, ~scene.polled PROVE FreshInv
    OBVIOUS
  <2>1. Typed /\ Refreshes(scene) /\ news = <<>> /\ cache.fetch = "no" /\ ~cache.stale /\ ~view.has
    BY InitTypes, ScenesSound DEF Init, SceneSound, NoFetch, NoView
  <2>2. InOrder(news) /\ PatchesTold(scene, news)
    BY <2>1 DEF InOrder, PatchesTold
  <2>. QED  BY <2>1, <2>2 DEF FreshInv, OrderInv, Watched, EntryCovered
<1>2. FreshInv => QuietMeansFresh
  <2> SUFFICES ASSUME FreshInv, Quiet, onDisplay, view.has, ~missed PROVE view.rev = rev
    BY DEF QuietMeansFresh
  <2>t. rev \in Nat /\ view.rev \in 0..rev /\ cache.stale \in BOOLEAN
    BY FreshTypes DEF FreshInv, OrderInv
  <2>1. Covered(scene, call, news, missed, rev, view.rev)
    BY <2>t DEF FreshInv, EntryCovered, Quiet
  <2>2. Len(news) = 0 /\ ~AgainDue(news) /\ \A k : ~EventDue(news, k)
    BY DEF Quiet, AgainDue, EventDue
  <2>3. call.stage # "served"
    BY DEF Quiet
  <2>4. \A k \in (view.rev + 1)..rev : FALSE
    BY <2>1, <2>2, <2>3 DEF Covered, RefreshDue, PutDue
  <2>. QED  BY <2>t, <2>4
<1>3. scene.polled => QuietMeansFresh
  BY DEF QuietMeansFresh
<1>4. scene.polled /\ [Next]_vars => scene.polled'
  BY SceneStays
<1>. QED  BY <1>1, <1>2, <1>3, <1>4, FreshNext, PTL DEF Spec
=============================================================================
