------------------------- MODULE ChargeSession_proofs -------------------------
(***************************************************************************)
(* A connector runs one session at a time, whatever races for it; and with *)
(* one reviewer at work, a session is debited once and settled for good,   *)
(* for any sessions, connectors and piles, whatever fails or dies: the     *)
(* contract.  If the calls of piles survive and the marks for review do    *)
(* not fail, no session is forgotten either.                               *)
(***************************************************************************)
EXTENDS ChargeSession, TLAPS

(***************************************************************************)
(* Types.  What a call must be, and what a step by one worker changes.     *)
(***************************************************************************)
CallOK(c) ==
    /\ c \in CallRow
    /\ c.stage = "rest" <=> c = AtRest
    /\ c.stage = "insert" => c.connector # NoConnector
    /\ c.stage \notin {"rest", "insert"} => c.session # NoSession

RowOK(r) == r \in SessionRow /\ (r.status = "absent" <=> r.connector = NoConnector)

LEMMA TypeParts ==
    TypeOK <=> /\ sessions \in [Sessions -> SessionRow] /\ debits \in [Sessions -> Nat]
               /\ calls \in [Workers -> CallRow]
               /\ \A s \in Sessions : RowOK(sessions[s])
               /\ \A w \in Workers : CallOK(calls[w])
  BY DEF TypeOK, CallOK, RowOK

LEMMA RestOK == CallOK(AtRest) /\ AtRest.stage = "rest" /\ AtRest.connector = NoConnector
  BY DEF AtRest, Call, CallOK, CallRow

\* The same call at a later stage.
At(c, stage) == [c EXCEPT !.stage = stage]

LEMMA AtOK ==
    ASSUME NEW c, CallOK(c), c.stage \notin {"rest", "insert"},
           NEW stage \in {"lookup", "debit", "settle", "queue"}
    PROVE  /\ CallOK(At(c, stage)) /\ At(c, stage).stage = stage
           /\ At(c, stage).session = c.session /\ At(c, stage).connector = c.connector
<1>1. c \in CallRow /\ c.session # NoSession
  BY DEF CallOK
<1>2. /\ At(c, stage) \in CallRow /\ At(c, stage).stage = stage
      /\ At(c, stage).session = c.session /\ At(c, stage).connector = c.connector
  BY <1>1 DEF At, CallRow
<1>3. At(c, stage) # AtRest
  BY <1>2, RestOK
<1>. QED  BY <1>1, <1>2, <1>3 DEF CallOK

\* What is left of a call once its session is closed.
Returned(c) == IF c.connector = NoConnector THEN AtRest
               ELSE Call("insert", NoSession, c.connector, c.again, c.verdict)

LEMMA ReturnedOK ==
    ASSUME NEW c, CallOK(c)
    PROVE  /\ CallOK(Returned(c)) /\ Returned(c).stage \in {"rest", "insert"}
           /\ c.connector = NoConnector => Returned(c) = AtRest
<1>1. CASE c.connector = NoConnector
  BY <1>1, RestOK DEF Returned
<1>2. CASE c.connector # NoConnector
  <2>. DEFINE r == Call("insert", NoSession, c.connector, c.again, c.verdict)
  <2>1. r.stage = "insert" /\ r.connector # NoConnector /\ r \in CallRow
    BY <1>2 DEF CallOK, CallRow, Call
  <2>2. Returned(c) = r
    BY <1>2 DEF Returned
  <2>. HIDE DEF r
  <2>3. r # AtRest
    BY <2>1, RestOK
  <2>. QED  BY <1>2, <2>1, <2>2, <2>3 DEF CallOK
<1>. QED  BY <1>1, <1>2

LEMMA NewCallOK ==
    ASSUME NEW stage \in {"close", "attribute", "reject"}, NEW s \in Sessions, NEW c \in Connectors \cup {NoConnector},
           NEW again \in BOOLEAN, NEW verdict \in {"none", "approved"}
    PROVE  CallOK(Call(stage, s, c, again, verdict)) /\ Call(stage, s, c, again, verdict).stage = stage
<1>. DEFINE r == Call(stage, s, c, again, verdict)
<1>1. r.stage = stage /\ r \in CallRow /\ r.session # NoSession
  BY NoSessionAssumption DEF CallRow, Call
<1>. HIDE DEF r
<1>2. r # AtRest
  BY <1>1, RestOK
<1>3. CallOK(r)
  BY <1>1, <1>2 DEF CallOK
<1>. QED  BY <1>1, <1>3 DEF r

LEMMA InsertCallOK ==
    ASSUME NEW c \in Connectors
    PROVE  /\ CallOK(Call("insert", NoSession, c, FALSE, "none"))
           /\ Call("insert", NoSession, c, FALSE, "none").stage = "insert"
<1>. DEFINE r == Call("insert", NoSession, c, FALSE, "none")
<1>1. r.stage = "insert" /\ r \in CallRow /\ r.connector # NoConnector
  BY NoConnectorAssumption DEF CallRow, Call
<1>. HIDE DEF r
<1>2. r # AtRest
  BY <1>1, RestOK
<1>3. CallOK(r)
  BY <1>1, <1>2 DEF CallOK
<1>. QED  BY <1>1, <1>3 DEF r

\* Goto and Return write one call.
LEMMA CallSteps ==
    ASSUME TypeOK, NEW w \in Workers
    PROVE  /\ \A stage : Goto(w, stage) => calls' = [calls EXCEPT ![w] = At(calls[w], stage)]
           /\ Return(w) => calls' = [calls EXCEPT ![w] = Returned(calls[w])]
  BY DEF TypeOK, Goto, Return, At, Returned

-----------------------------------------------------------------------------
(***************************************************************************)
(* The inductive invariant.  PriceAndCharge looks for a debit in one       *)
(* statement and posts one in a later transaction, so DebitedOnce rests on *)
(* one call at a time billing a session: the pile's handler owns it from   *)
(* the moment it closed it with no review due, and the reviewer from the   *)
(* moment it was found pending.                                            *)
(***************************************************************************)
Bills(w, c) == IF w \in Reviewers THEN c.stage # "rest"
               ELSE c.stage \in {"lookup", "debit", "settle", "queue"}

RoleOK(w, c) == IF w \in Reviewers THEN c.stage \notin {"insert", "close"} /\ c.connector = NoConnector
                ELSE c.stage \notin {"attribute", "reject"}

\* What a call that bills relies on, of the row and the debits of its session.
Standing(w, c, r, d) ==
    /\ r.status = "ended"
    /\ r.review = IF w \in Reviewers THEN "pending" ELSE "none"
    /\ c.stage = "debit" => d = 0
    /\ c.stage = "settle" => d = 1

RowFacts(r, d) ==
    /\ d \in {0, 1}
    /\ r.status \in {"absent", "charging"} => d = 0
    /\ r.status = "absent" => r.review = "none"
    /\ r.status = "settled" => d = 1 /\ r.billed /\ r.review \in {"none", "approved"}

BilledByOne ==
    \A w, x \in Workers :
        Bills(w, calls[w]) /\ Bills(x, calls[x]) /\ calls[w].session = calls[x].session => w = x

ChargeInv ==
    /\ TypeOK
    /\ \A s \in Sessions : RowFacts(sessions[s], debits[s])
    /\ \A w \in Workers :
           /\ RoleOK(w, calls[w])
           /\ Bills(w, calls[w]) => Standing(w, calls[w], sessions[calls[w].session], debits[calls[w].session])
    /\ BilledByOne

LEMMA BillsSession ==
    ASSUME NEW w \in Workers, NEW c, CallOK(c), RoleOK(w, c), Bills(w, c)
    PROVE  c.session \in Sessions
  BY DEF CallOK, CallRow, RoleOK, Bills

LEMMA InvInit == Init => ChargeInv
<1>. SUFFICES ASSUME Init PROVE ChargeInv
  OBVIOUS
<1>1. \A w \in Workers : calls[w] = AtRest
  BY DEF Init
<1>2. TypeOK
  <2>1. \A s \in Sessions : RowOK(sessions[s])
    BY DEF Init, RowOK, SessionRow
  <2>2. sessions \in [Sessions -> SessionRow] /\ debits \in [Sessions -> Nat]
    BY DEF Init, SessionRow
  <2>3. calls \in [Workers -> CallRow]
    BY RestOK DEF Init, CallOK
  <2>. QED  BY <1>1, <2>1, <2>2, <2>3, RestOK, TypeParts
<1>3. \A s \in Sessions : RowFacts(sessions[s], debits[s])
  BY DEF Init, RowFacts
<1>4. \A w \in Workers : RoleOK(w, calls[w]) /\ ~Bills(w, calls[w])
  BY <1>1, RestOK DEF RoleOK, Bills
<1>. QED  BY <1>2, <1>3, <1>4 DEF ChargeInv, BilledByOne

\* A step that writes a session no other call bills.
LEMMA RowAndCall ==
    ASSUME ChargeInv, NEW w \in Workers, NEW s \in Sessions, NEW r, NEW d \in Nat, NEW c,
           sessions' = [sessions EXCEPT ![s] = r], debits' = [debits EXCEPT ![s] = d],
           calls' = [calls EXCEPT ![w] = c],
           RowOK(r), RowFacts(r, d), CallOK(c), RoleOK(w, c),
           Bills(w, c) => c.session = s /\ Standing(w, c, r, d),
           \A x \in Workers \ {w} : Bills(x, calls[x]) => calls[x].session # s
    PROVE  ChargeInv'
<1>t. /\ sessions \in [Sessions -> SessionRow] /\ debits \in [Sessions -> Nat] /\ calls \in [Workers -> CallRow]
      /\ \A u \in Sessions : RowOK(sessions[u])
      /\ \A x \in Workers : CallOK(calls[x]) /\ RoleOK(x, calls[x])
  BY TypeParts DEF ChargeInv
<1>w. /\ \A u \in Sessions : /\ sessions'[u] = IF u = s THEN r ELSE sessions[u]
                             /\ debits'[u] = IF u = s THEN d ELSE debits[u]
      /\ \A x \in Workers : calls'[x] = IF x = w THEN c ELSE calls[x]
  BY <1>t
<1>1. TypeOK'
  <2>1. sessions' \in [Sessions -> SessionRow] /\ debits' \in [Sessions -> Nat] /\ calls' \in [Workers -> CallRow]
    BY <1>t DEF RowOK, CallOK
  <2>2. (\A u \in Sessions : RowOK(sessions'[u])) /\ (\A x \in Workers : CallOK(calls'[x]))
    BY <1>t, <1>w
  <2>. QED  BY <2>1, <2>2 DEF TypeOK, RowOK, CallOK
<1>2. \A u \in Sessions : RowFacts(sessions'[u], debits'[u])
  BY <1>w DEF ChargeInv
<1>3. ASSUME NEW x \in Workers
      PROVE  /\ RoleOK(x, calls'[x])
             /\ Bills(x, calls'[x]) =>
                    Standing(x, calls'[x], sessions'[calls'[x].session], debits'[calls'[x].session])
  <2>1. CASE x = w
    BY <1>w, <2>1
  <2>2. CASE x # w
    <3>1. Bills(x, calls[x]) => calls[x].session \in Sessions \ {s}
      BY <1>t, <2>2, BillsSession
    <3>. QED  BY <1>t, <1>w, <2>2, <3>1 DEF ChargeInv
  <2>. QED  BY <2>1, <2>2
<1>4. ASSUME NEW x \in Workers, NEW y \in Workers, Bills(x, calls'[x]), Bills(y, calls'[y]),
             calls'[x].session = calls'[y].session
      PROVE  x = y
  <2>1. CASE x # w /\ y # w
    BY <1>4, <1>w, <2>1 DEF ChargeInv, BilledByOne
  <2>2. CASE x = w \/ y = w
    BY <1>4, <1>w, <2>2
  <2>. QED  BY <2>1, <2>2
<1>5. BilledByOne'
  BY <1>4 DEF BilledByOne, Bills
<1>6. (\A u \in Sessions : RowFacts(sessions[u], debits[u]))'
  BY <1>2 DEF RowFacts
<1>7. (\A x \in Workers :
          /\ RoleOK(x, calls[x])
          /\ Bills(x, calls[x]) => Standing(x, calls[x], sessions[calls[x].session], debits[calls[x].session]))'
  BY <1>3 DEF RoleOK, Bills, Standing
<1>. QED  BY <1>1, <1>5, <1>6, <1>7 DEF ChargeInv

\* A step that only writes a call, which may go on billing its session.
LEMMA OneCall ==
    ASSUME ChargeInv, NEW w \in Workers, NEW c,
           UNCHANGED <<sessions, debits>>, calls' = [calls EXCEPT ![w] = c],
           CallOK(c), RoleOK(w, c),
           Bills(w, c) =>
               /\ Standing(w, c, sessions[c.session], debits[c.session])
               /\ \A x \in Workers \ {w} : Bills(x, calls[x]) => calls[x].session # c.session
    PROVE  ChargeInv'
<1>t. /\ sessions \in [Sessions -> SessionRow] /\ debits \in [Sessions -> Nat] /\ calls \in [Workers -> CallRow]
      /\ \A u \in Sessions : RowOK(sessions[u])
      /\ \A x \in Workers : CallOK(calls[x]) /\ RoleOK(x, calls[x])
  BY TypeParts DEF ChargeInv
<1>w. \A x \in Workers : calls'[x] = IF x = w THEN c ELSE calls[x]
  BY <1>t
<1>1. TypeOK'
  <2>1. sessions' \in [Sessions -> SessionRow] /\ debits' \in [Sessions -> Nat] /\ calls' \in [Workers -> CallRow]
    BY <1>t DEF CallOK
  <2>2. (\A u \in Sessions : RowOK(sessions'[u])) /\ (\A x \in Workers : CallOK(calls'[x]))
    BY <1>t, <1>w
  <2>. QED  BY <2>1, <2>2 DEF TypeOK, RowOK, CallOK
<1>2. (\A u \in Sessions : RowFacts(sessions[u], debits[u]))'
  BY DEF ChargeInv, RowFacts
<1>3. ASSUME NEW x \in Workers
      PROVE  /\ RoleOK(x, calls'[x])
             /\ Bills(x, calls'[x]) =>
                    Standing(x, calls'[x], sessions'[calls'[x].session], debits'[calls'[x].session])
  BY <1>t, <1>w DEF ChargeInv
<1>4. ASSUME NEW x \in Workers, NEW y \in Workers, Bills(x, calls'[x]), Bills(y, calls'[y]),
             calls'[x].session = calls'[y].session
      PROVE  x = y
  <2>1. CASE x # w /\ y # w
    BY <1>4, <1>w, <2>1 DEF ChargeInv, BilledByOne
  <2>2. CASE x = w \/ y = w
    BY <1>4, <1>w, <2>2
  <2>. QED  BY <2>1, <2>2
<1>5. BilledByOne'
  BY <1>4 DEF BilledByOne, Bills
<1>7. (\A x \in Workers :
          /\ RoleOK(x, calls[x])
          /\ Bills(x, calls[x]) => Standing(x, calls[x], sessions[calls[x].session], debits[calls[x].session]))'
  BY <1>3 DEF RoleOK, Bills, Standing
<1>. QED  BY <1>1, <1>2, <1>5, <1>7 DEF ChargeInv

-----------------------------------------------------------------------------
(***************************************************************************)
(* Every action.  Two reviewers could approve one session at a time: the   *)
(* review is read before the context of the request may end, and nothing   *)
(* is locked.                                                              *)
(***************************************************************************)
OneReviewer == \A w, x \in Reviewers : w = x

\* What the invariant says of one worker's call.
LEMMA CallFacts ==
    ASSUME ChargeInv, NEW w \in Workers
    PROVE  /\ CallOK(calls[w]) /\ RoleOK(w, calls[w])
           /\ calls[w].session \in Sessions \cup {NoSession}
           /\ calls[w].stage \notin {"rest", "insert"} =>
                  calls[w].session \in Sessions /\ RowOK(sessions[calls[w].session])
           /\ Bills(w, calls[w]) =>
                  /\ Standing(w, calls[w], sessions[calls[w].session], debits[calls[w].session])
                  /\ \A x \in Workers \ {w} : Bills(x, calls[x]) => calls[x].session # calls[w].session
  BY TypeParts DEF ChargeInv, BilledByOne, CallOK, CallRow

\* Letting a call go, or going back to the insert of a start, is always safe.
LEMMA LetGo ==
    ASSUME ChargeInv, NEW w \in Workers, UNCHANGED <<sessions, debits>>,
           \/ calls' = [calls EXCEPT ![w] = AtRest]
           \/ Return(w)
    PROVE  ChargeInv'
<1>1. CallOK(calls[w]) /\ RoleOK(w, calls[w])
  BY CallFacts
<1>2. CASE calls' = [calls EXCEPT ![w] = AtRest]
  <2>1. RoleOK(w, AtRest) /\ ~Bills(w, AtRest)
    BY RestOK DEF RoleOK, Bills
  <2>. QED  BY <1>2, <2>1, RestOK, OneCall
<1>3. CASE Return(w)
  <2>1. calls' = [calls EXCEPT ![w] = Returned(calls[w])]
    BY <1>3, CallSteps DEF ChargeInv
  <2>2. RoleOK(w, Returned(calls[w])) /\ ~Bills(w, Returned(calls[w]))
    BY <1>1, ReturnedOK, RestOK DEF RoleOK, Bills
  <2>. QED  BY <1>1, <2>1, <2>2, ReturnedOK, OneCall
<1>. QED  BY <1>2, <1>3

\* A start, a stop or a refused insert: the call does not bill anything yet.
LEMMA PileCall ==
    ASSUME ChargeInv, NEW w \in Workers \ Reviewers, UNCHANGED <<sessions, debits>>,
           NEW c, CallOK(c), c.stage \in {"insert", "close"}, calls' = [calls EXCEPT ![w] = c]
    PROVE  ChargeInv'
<1>1. RoleOK(w, c) /\ ~Bills(w, c)
  BY DEF RoleOK, Bills
<1>. QED  BY <1>1, OneCall

LEMMA BeginInv ==
    ASSUME ChargeInv, OneReviewer, NEW w \in Workers, Begin(w)
    PROVE  ChargeInv'
<1>1. ASSUME w \notin Reviewers, NEW c \in Connectors, StartRead(w, c)
      PROVE  ChargeInv'
  <2>1. CASE calls' = [calls EXCEPT ![w] = Call("insert", NoSession, c, FALSE, "none")]
    BY <1>1, <2>1, InsertCallOK, PileCall DEF StartRead
  <2>2. ASSUME NEW old \in ActiveOn(c), calls' = [calls EXCEPT ![w] = Call("close", old, c, FALSE, "none")]
        PROVE  ChargeInv'
    <3>1. old \in Sessions
      BY DEF ActiveOn
    <3>. QED  BY <1>1, <2>2, <3>1, NewCallOK, PileCall DEF StartRead
  <2>. QED  BY <1>1, <2>1, <2>2 DEF StartRead
<1>2. ASSUME w \notin Reviewers, NEW s \in Sessions, StopRead(w, s)
      PROVE  ChargeInv'
  BY <1>2, NewCallOK, PileCall DEF StopRead
<1>3. ASSUME w \in Reviewers, NEW s \in Sessions, NEW stage \in {"attribute", "reject"}, ReviewRead(w, s, stage)
      PROVE  ChargeInv'
  <2>. DEFINE c == Call(stage, s, NoConnector, FALSE, "approved")
  <2>1. c.stage = stage /\ c.session = s /\ c.connector = NoConnector
    BY DEF Call
  <2>2. CallOK(c)
    BY NewCallOK
  <2>3. UNCHANGED <<sessions, debits>> /\ calls' = [calls EXCEPT ![w] = c]
    BY <1>3 DEF ReviewRead
  <2>. HIDE DEF c
  <2>4. RoleOK(w, c)
    BY <1>3, <2>1 DEF RoleOK
  <2>5. sessions[s].status = "ended" /\ sessions[s].review = "pending"
    <3>1. sessions[s].review = "pending" /\ sessions[s].status # "charging"
      BY <1>3 DEF ReviewRead, Reviewable, Charging
    <3>2. sessions[s] \in SessionRow /\ RowFacts(sessions[s], debits[s])
      BY TypeParts DEF ChargeInv
    <3>. QED  BY <3>1, <3>2 DEF RowFacts, SessionRow
  <2>6. Standing(w, c, sessions[s], debits[s])
    BY <1>3, <2>1, <2>5 DEF Standing
  <2>7. ASSUME NEW x \in Workers \ {w}, Bills(x, calls[x]) PROVE calls[x].session # s
    <3>1. x \notin Reviewers
      BY <1>3 DEF OneReviewer
    <3>. QED  BY <2>5, <2>7, <3>1, CallFacts DEF Standing
  <2>. QED  BY <2>1, <2>2, <2>3, <2>4, <2>6, <2>7, OneCall
<1>. QED  BY <1>1, <1>2, <1>3 DEF Begin

LEMMA StartInv ==
    ASSUME ChargeInv, NEW w \in Workers,
           \/ \E s \in Sessions, bound \in BOOLEAN : Insert(w, s, bound)
           \/ InsertRefused(w)
           \/ CloseRefused(w)
           \/ FailUnnoticed(w)
    PROVE  ChargeInv'
<1>c. /\ CallOK(calls[w]) /\ RoleOK(w, calls[w]) /\ calls[w] \in CallRow
  BY CallFacts DEF CallOK
<1>1. ASSUME NEW s \in Sessions, NEW bound \in BOOLEAN, Insert(w, s, bound)
      PROVE  ChargeInv'
  <2>. DEFINE r == [status |-> "charging", review |-> IF bound THEN "none" ELSE "pending",
                    connector |-> calls[w].connector, bound |-> bound, billed |-> FALSE]
  <2>1. /\ calls[w].stage = "insert" /\ sessions[s].status = "absent"
        /\ sessions' = [sessions EXCEPT ![s] = r] /\ debits' = debits
        /\ calls' = [calls EXCEPT ![w] = AtRest]
    BY <1>1 DEF Insert
  <2>2. RowOK(r)
    BY <1>c, <2>1 DEF RowOK, SessionRow, CallOK, CallRow
  <2>3. debits[s] = 0
    BY <2>1 DEF ChargeInv, RowFacts
  <2>4. RowFacts(r, 0)
    BY DEF RowFacts
  <2>5. debits' = [debits EXCEPT ![s] = 0]
    BY <2>1, <2>3 DEF ChargeInv, TypeOK
  <2>6. RoleOK(w, AtRest) /\ ~Bills(w, AtRest)
    BY RestOK DEF RoleOK, Bills
  <2>7. \A x \in Workers \ {w} : Bills(x, calls[x]) => calls[x].session # s
    BY <2>1, CallFacts DEF Standing
  <2>. HIDE DEF r
  <2>. QED  BY <2>1, <2>2, <2>4, <2>5, <2>6, <2>7, RestOK, RowAndCall
<1>2. CASE InsertRefused(w)
  <2>1. w \notin Reviewers
    BY <1>2, <1>c DEF InsertRefused, RoleOK
  <2>2. ASSUME NEW old \in ActiveOn(calls[w].connector),
               calls' = [calls EXCEPT ![w] = Call("close", old, calls[w].connector, TRUE, "none")]
        PROVE  ChargeInv'
    <3>1. old \in Sessions /\ calls[w].connector \in Connectors \cup {NoConnector}
      BY <1>c DEF ActiveOn, CallRow
    <3>2. UNCHANGED <<sessions, debits>>
      BY <1>2 DEF InsertRefused
    <3>. QED  BY <2>1, <2>2, <3>1, <3>2, NewCallOK, PileCall
  <2>3. CASE calls' = [calls EXCEPT ![w] = AtRest]
    BY <1>2, <2>3, LetGo DEF InsertRefused
  <2>4. \/ \E old \in ActiveOn(calls[w].connector) :
               calls' = [calls EXCEPT ![w] = Call("close", old, calls[w].connector, TRUE, "none")]
        \/ calls' = [calls EXCEPT ![w] = AtRest]
    BY <1>2, <1>c DEF InsertRefused, ChargeInv, TypeOK
  <2>. QED  BY <2>2, <2>3, <2>4
<1>3. CASE CloseRefused(w) \/ FailUnnoticed(w)
  BY <1>3, LetGo DEF CloseRefused, FailUnnoticed
<1>. QED  BY <1>1, <1>2, <1>3

\* A call that bills writes its row and returns.
LEMMA WritesAndReturns ==
    ASSUME ChargeInv, NEW w \in Workers, Bills(w, calls[w]), NEW r,
           sessions' = [sessions EXCEPT ![calls[w].session] = r], debits' = debits, Return(w),
           RowOK(r), RowFacts(r, debits[calls[w].session])
    PROVE  ChargeInv'
<1>1. /\ CallOK(calls[w]) /\ RoleOK(w, calls[w]) /\ calls[w].session \in Sessions
      /\ \A x \in Workers \ {w} : Bills(x, calls[x]) => calls[x].session # calls[w].session
  BY CallFacts, BillsSession
<1>2. calls' = [calls EXCEPT ![w] = Returned(calls[w])]
  BY CallSteps DEF ChargeInv
<1>3. /\ CallOK(Returned(calls[w])) /\ RoleOK(w, Returned(calls[w])) /\ ~Bills(w, Returned(calls[w]))
  BY <1>1, ReturnedOK, RestOK DEF RoleOK, Bills
<1>4. /\ debits[calls[w].session] \in Nat
      /\ debits' = [debits EXCEPT ![calls[w].session] = debits[calls[w].session]]
  BY <1>1 DEF ChargeInv, TypeOK
<1>. QED  BY <1>1, <1>2, <1>3, <1>4, RowAndCall

\* A call that bills goes on to its next stage.
LEMMA GoesOn ==
    ASSUME ChargeInv, NEW w \in Workers, Bills(w, calls[w]), UNCHANGED <<sessions, debits>>,
           NEW stage \in {"lookup", "debit", "settle", "queue"}, Goto(w, stage),
           stage = "debit" => debits[calls[w].session] = 0,
           stage = "settle" => debits[calls[w].session] = 1
    PROVE  ChargeInv'
<1>. DEFINE c == At(calls[w], stage)
<1>1. /\ CallOK(calls[w]) /\ RoleOK(w, calls[w]) /\ calls[w].stage \notin {"rest", "insert"}
      /\ Standing(w, calls[w], sessions[calls[w].session], debits[calls[w].session])
      /\ \A x \in Workers \ {w} : Bills(x, calls[x]) => calls[x].session # calls[w].session
  BY CallFacts DEF Bills, RoleOK
<1>2. calls' = [calls EXCEPT ![w] = c]
  BY CallSteps DEF ChargeInv
<1>3. CallOK(c) /\ c.stage = stage /\ c.session = calls[w].session /\ c.connector = calls[w].connector
  BY <1>1, AtOK
<1>. HIDE DEF c
<1>4. RoleOK(w, c)
  BY <1>1, <1>3 DEF RoleOK
<1>5. Standing(w, c, sessions[c.session], debits[c.session])
  BY <1>1, <1>3 DEF Standing
<1>. QED  BY <1>1, <1>2, <1>3, <1>4, <1>5, OneCall

LEMMA BillInv ==
    ASSUME ChargeInv, NEW w \in Workers,
           \/ \E deviates \in BOOLEAN : Close(w, deviates)
           \/ Lookup(w)
           \/ Debit(w)
           \/ Settle(w)
           \/ Fail(w)
           \/ Queue(w)
    PROVE  ChargeInv'
<1>. DEFINE s == calls[w].session
<1>c. /\ CallOK(calls[w]) /\ RoleOK(w, calls[w]) /\ calls[w] \in CallRow
      /\ calls[w].stage \notin {"rest", "insert"} => s \in Sessions /\ RowOK(sessions[s]) /\ sessions[s] \in SessionRow
      /\ s \in Sessions => RowFacts(sessions[s], debits[s]) /\ debits[s] \in Nat
  BY CallFacts DEF CallOK, RowOK, ChargeInv, TypeOK
<1>b. ASSUME calls[w].stage \in {"lookup", "debit", "settle", "queue"}
      PROVE  /\ Bills(w, calls[w]) /\ s \in Sessions /\ RowOK(sessions[s]) /\ sessions[s] \in SessionRow
             /\ RowFacts(sessions[s], debits[s]) /\ Standing(w, calls[w], sessions[s], debits[s])
             /\ \A x \in Workers \ {w} : Bills(x, calls[x]) => calls[x].session # s
  <2>1. Bills(w, calls[w])
    BY <1>b DEF Bills
  <2>. QED  BY <1>b, <1>c, <2>1, CallFacts
<1>1. ASSUME NEW deviates \in BOOLEAN, Close(w, deviates)
      PROVE  ChargeInv'
  <2>. DEFINE needsReview == deviates \/ ~sessions[s].bound
              r == [sessions[s] EXCEPT !.status = "ended", !.review = IF needsReview THEN "pending" ELSE "none"]
  <2>1. calls[w].stage = "close" /\ sessions[s].status = "charging" /\ s \in Sessions /\ w \notin Reviewers
    BY <1>1, <1>c DEF Close, Closable, Charging, RoleOK
  <2>2. sessions' = [sessions EXCEPT ![s] = r] /\ debits' = [debits EXCEPT ![s] = debits[s]]
    BY <1>1, <2>1 DEF Close, ChargeInv, TypeOK
  <2>3. /\ RowOK(r) /\ r.status = "ended" /\ r.review = IF needsReview THEN "pending" ELSE "none"
    BY <1>c, <2>1 DEF RowOK, SessionRow
  <2>4. debits[s] = 0
    BY <1>c, <2>1 DEF RowFacts
  <2>5. RowFacts(r, debits[s])
    BY <2>3, <2>4 DEF RowFacts
  <2>6. ASSUME NEW x \in Workers \ {w}, Bills(x, calls[x]) PROVE calls[x].session # s
    BY <2>1, <2>6, CallFacts DEF Standing
  <2>7. CASE needsReview
    <3>1. calls' = [calls EXCEPT ![w] = Returned(calls[w])]
      BY <1>1, <2>7, CallSteps DEF Close, ChargeInv
    <3>2. CallOK(Returned(calls[w])) /\ RoleOK(w, Returned(calls[w])) /\ ~Bills(w, Returned(calls[w]))
      BY <1>c, <2>1, ReturnedOK DEF RoleOK, Bills
    <3>. HIDE DEF r
    <3>. QED  BY <1>c, <2>1, <2>2, <2>3, <2>5, <2>6, <3>1, <3>2, RowAndCall
  <2>8. CASE ~needsReview
    <3>. DEFINE c == At(calls[w], "lookup")
    <3>1. calls' = [calls EXCEPT ![w] = c]
      BY <1>1, <2>8, CallSteps DEF Close, ChargeInv
    <3>2. CallOK(c) /\ c.stage = "lookup" /\ c.session = s
      BY <1>c, <2>1, AtOK
    <3>. HIDE DEF c
    <3>3. RoleOK(w, c)
      BY <2>1, <3>2 DEF RoleOK
    <3>4. Standing(w, c, r, debits[s])
      BY <2>1, <2>3, <2>8, <3>2 DEF Standing
    <3>. HIDE DEF r
    <3>. QED  BY <1>c, <2>1, <2>2, <2>3, <2>5, <2>6, <3>1, <3>2, <3>3, <3>4, RowAndCall
  <2>. QED  BY <2>7, <2>8
<1>2. CASE Lookup(w)
  <2>1. calls[w].stage = "lookup" /\ UNCHANGED <<sessions, debits>>
    BY <1>2 DEF Lookup
  <2>2. debits[s] \in {0, 1}
    BY <1>b, <2>1 DEF RowFacts
  <2>3. \/ debits[s] = 1 /\ Goto(w, "settle")
        \/ debits[s] = 0 /\ Goto(w, "debit")
    BY <1>2, <2>2 DEF Lookup, AlreadyDebited
  <2>. QED  BY <1>b, <2>1, <2>3, GoesOn
<1>3. CASE Debit(w)
  <2>. DEFINE c == At(calls[w], "settle")
  <2>1. calls[w].stage = "debit" /\ sessions' = sessions /\ Goto(w, "settle")
    BY <1>3 DEF Debit
  <2>2. debits[s] = 0 /\ sessions[s].status = "ended"
    BY <1>b, <2>1 DEF Standing
  <2>3. debits' = [debits EXCEPT ![s] = 1] /\ sessions' = [sessions EXCEPT ![s] = sessions[s]]
    BY <1>3, <1>b, <2>1, <2>2 DEF Debit, ChargeInv, TypeOK
  <2>4. calls' = [calls EXCEPT ![w] = c]
    BY <2>1, CallSteps DEF ChargeInv
  <2>5. CallOK(c) /\ c.stage = "settle" /\ c.session = s /\ c.connector = calls[w].connector
    BY <1>c, <2>1, AtOK
  <2>. HIDE DEF c
  <2>6. RoleOK(w, c)
    BY <1>c, <2>5 DEF RoleOK
  <2>7. RowFacts(sessions[s], 1)
    BY <1>b, <2>1, <2>2 DEF RowFacts
  <2>8. Standing(w, c, sessions[s], 1)
    BY <1>b, <2>1, <2>5 DEF Standing
  <2>. QED  BY <1>b, <2>1, <2>3, <2>4, <2>5, <2>6, <2>7, <2>8, RowAndCall
<1>4. CASE Settle(w)
  <2>. DEFINE r == [sessions[s] EXCEPT !.status = "settled", !.review = calls[w].verdict, !.billed = TRUE]
  <2>1. calls[w].stage = "settle" /\ debits' = debits /\ Return(w)
    BY <1>4 DEF Settle
  <2>2. sessions' = [sessions EXCEPT ![s] = r]
    BY <1>4, <1>b, <2>1 DEF Settle, ChargeInv, TypeOK
  <2>3. debits[s] = 1 /\ sessions[s].status = "ended"
    BY <1>b, <2>1 DEF Standing
  <2>4. calls[w].verdict \in {"none", "approved"}
    BY <1>c DEF CallRow
  <2>5. RowOK(r) /\ r.status = "settled" /\ r.billed /\ r.review = calls[w].verdict
    BY <1>b, <2>1, <2>3, <2>4 DEF RowOK, SessionRow
  <2>6. RowFacts(r, debits[s])
    BY <2>3, <2>4, <2>5 DEF RowFacts
  <2>. HIDE DEF r
  <2>. QED  BY <1>b, <2>1, <2>2, <2>5, <2>6, WritesAndReturns
<1>5. CASE Fail(w)
  <2>1. calls[w].stage \in {"lookup", "debit", "settle"} /\ Goto(w, "queue") /\ UNCHANGED <<sessions, debits>>
    BY <1>5, FailAtAssumption DEF Fail
  <2>. QED  BY <1>b, <2>1, GoesOn
<1>6. CASE Queue(w)
  <2>. DEFINE r == Queued(sessions[s])
  <2>1. calls[w].stage = "queue" /\ debits' = debits /\ Return(w)
    BY <1>6 DEF Queue
  <2>2. sessions' = [sessions EXCEPT ![s] = r]
    BY <1>6, <1>b, <2>1 DEF Queue, ChargeInv, TypeOK
  <2>3. sessions[s].status = "ended"
    BY <1>b, <2>1 DEF Standing
  <2>4. RowOK(r) /\ r.status = "ended"
    BY <1>b, <2>1, <2>3 DEF Queued, RowOK, SessionRow
  <2>. HIDE DEF r
  <2>5. RowFacts(r, debits[s])
    BY <1>b, <2>1, <2>4 DEF RowFacts
  <2>. QED  BY <1>b, <2>1, <2>2, <2>4, <2>5, WritesAndReturns
<1>. QED  BY <1>1, <1>2, <1>3, <1>4, <1>5, <1>6

LEMMA ReviewInv ==
    ASSUME ChargeInv, NEW w \in Workers,
           (\E bound \in BOOLEAN : Attribute(w, bound)) \/ Reject(w)
    PROVE  ChargeInv'
<1>. DEFINE s == calls[w].session
<1>b. /\ w \in Reviewers /\ Bills(w, calls[w]) /\ CallOK(calls[w]) /\ RoleOK(w, calls[w])
      /\ calls[w].stage \notin {"rest", "insert"}
      /\ s \in Sessions /\ RowOK(sessions[s]) /\ sessions[s] \in SessionRow
      /\ RowFacts(sessions[s], debits[s]) /\ Standing(w, calls[w], sessions[s], debits[s]) /\ debits[s] \in Nat
      /\ \A x \in Workers \ {w} : Bills(x, calls[x]) => calls[x].session # s
  <2>1. calls[w].stage \in {"attribute", "reject"}
    BY DEF Attribute, Reject
  <2>2. w \in Reviewers /\ Bills(w, calls[w])
    BY <2>1, CallFacts DEF RoleOK, Bills
  <2>. QED  BY <2>1, <2>2, CallFacts DEF RowOK, ChargeInv, TypeOK
<1>1. ASSUME NEW bound \in BOOLEAN, Attribute(w, bound)
      PROVE  ChargeInv'
  <2>. DEFINE r == [sessions[s] EXCEPT !.bound = bound \/ sessions[s].bound]
              c == At(calls[w], "lookup")
  <2>1. sessions' = [sessions EXCEPT ![s] = r] /\ debits' = [debits EXCEPT ![s] = debits[s]]
    BY <1>1, <1>b DEF Attribute, ChargeInv, TypeOK
  <2>2. calls' = [calls EXCEPT ![w] = c]
    BY <1>1, CallSteps DEF Attribute, ChargeInv
  <2>3. /\ RowOK(r) /\ r.status = sessions[s].status /\ r.review = sessions[s].review
        /\ r.billed = sessions[s].billed
    BY <1>b DEF RowOK, SessionRow
  <2>4. CallOK(c) /\ c.stage = "lookup" /\ c.session = s /\ c.connector = calls[w].connector
    BY <1>b, AtOK
  <2>. HIDE DEF r, c
  <2>5. RoleOK(w, c)
    BY <1>b, <2>4 DEF RoleOK
  <2>6. RowFacts(r, debits[s]) /\ Standing(w, c, r, debits[s])
    BY <1>b, <2>3, <2>4 DEF RowFacts, Standing
  <2>. QED  BY <1>b, <2>1, <2>2, <2>3, <2>4, <2>5, <2>6, RowAndCall
<1>2. CASE Reject(w)
  <2>. DEFINE r == [sessions[s] EXCEPT !.status = "ended", !.review = "rejected", !.billed = FALSE]
  <2>1. sessions' = [sessions EXCEPT ![s] = r] /\ debits' = debits /\ Return(w)
    BY <1>2, <1>b DEF Reject, ChargeInv, TypeOK
  <2>2. sessions[s].status = "ended"
    BY <1>b DEF Standing
  <2>3. RowOK(r) /\ r.status = "ended"
    BY <1>b, <2>2 DEF RowOK, SessionRow
  <2>. HIDE DEF r
  <2>4. RowFacts(r, debits[s])
    BY <1>b, <2>3 DEF RowFacts
  <2>. QED  BY <1>b, <2>1, <2>3, <2>4, WritesAndReturns
<1>. QED  BY <1>1, <1>2

LEMMA InvStep == OneReviewer /\ ChargeInv /\ [Next]_vars => ChargeInv'
<1>. SUFFICES ASSUME OneReviewer, ChargeInv, [Next]_vars PROVE ChargeInv'
  OBVIOUS
<1>1. ASSUME NEW w \in Workers, Proceed(w) PROVE ChargeInv'
  BY <1>1, StartInv, BillInv, ReviewInv DEF Proceed
<1>2. ASSUME NEW w \in Workers, Crash(w) PROVE ChargeInv'
  BY <1>2, LetGo DEF Crash
<1>3. CASE UNCHANGED vars
  <2>1. TypeOK'
    BY <1>3 DEF vars, ChargeInv, TypeOK
  <2>2. (\A s \in Sessions : RowFacts(sessions[s], debits[s]))' /\ BilledByOne'
    BY <1>3 DEF vars, ChargeInv, RowFacts, Bills, BilledByOne
  <2>3. (\A w \in Workers :
            /\ RoleOK(w, calls[w])
            /\ Bills(w, calls[w]) => Standing(w, calls[w], sessions[calls[w].session], debits[calls[w].session]))'
    BY <1>3 DEF vars, ChargeInv, RoleOK, Bills, Standing
  <2>. QED  BY <2>1, <2>2, <2>3 DEF ChargeInv
<1>. QED  BY <1>1, <1>2, <1>3, BeginInv DEF Next

-----------------------------------------------------------------------------
(***************************************************************************)
(* What follows with one reviewer at work.                                 *)
(***************************************************************************)
\* With one reviewer, every session being billed is billed by one call.
THEOREM ChargeInvariance == ASSUME OneReviewer PROVE Spec => []ChargeInv
<1>1. ChargeInv /\ [Next]_vars => ChargeInv'
  BY InvStep
<1>. QED  BY <1>1, InvInit, PTL DEF Spec

\* A session is paid for once, whatever fails between debit and settlement
\* and however often it is billed again.
THEOREM SessionsDebitedOnce == ASSUME OneReviewer PROVE Spec => []DebitedOnce
<1>1. ChargeInv => DebitedOnce
  <2>1. ASSUME ChargeInv, NEW s \in Sessions PROVE debits[s] <= 1
    <3>1. debits[s] = 0 \/ debits[s] = 1
      BY <2>1 DEF ChargeInv, RowFacts
    <3>. QED  BY <3>1
  <2>. QED  BY <2>1 DEF DebitedOnce
<1>. QED  BY <1>1, ChargeInvariance, PTL

\* Who writes a session found it charging, absent or ended.
LEMMA SettledRowStays ==
    ASSUME ChargeInv, Next, NEW s \in Sessions, sessions[s].status = "settled"
    PROVE  sessions'[s] = sessions[s]
<1>t. sessions \in [Sessions -> SessionRow]
  BY DEF ChargeInv, TypeOK
<1>1. PICK w \in Workers : Begin(w) \/ Proceed(w) \/ Crash(w)
  BY DEF Next
<1>2. Bills(w, calls[w]) => calls[w].session # s
  BY CallFacts DEF Standing
<1>3. calls[w].stage \in {"settle", "queue", "attribute", "reject"} => Bills(w, calls[w])
  BY CallFacts DEF Bills, RoleOK
<1>4. CASE \/ \E u \in Sessions, bound \in BOOLEAN : Insert(w, u, bound)
           \/ \E deviates \in BOOLEAN : Close(w, deviates)
  BY <1>4, <1>t DEF Insert, Close, Closable, Charging
<1>5. CASE Settle(w) \/ Queue(w) \/ (\E bound \in BOOLEAN : Attribute(w, bound)) \/ Reject(w)
  BY <1>5, <1>t, <1>2, <1>3 DEF Settle, Queue, Attribute, Reject
<1>6. CASE \/ Begin(w) \/ InsertRefused(w) \/ CloseRefused(w) \/ Lookup(w) \/ Debit(w)
           \/ Fail(w) \/ FailUnnoticed(w) \/ Crash(w)
  BY <1>6 DEF Begin, StartRead, StopRead, ReviewRead, InsertRefused, CloseRefused, Lookup, Debit, Fail,
     FailUnnoticed, Crash
<1>. QED  BY <1>1, <1>4, <1>5, <1>6 DEF Proceed

\* A settled session has been paid for, and no late close, queueing or review
\* takes that back.
THEOREM SettledStays == ASSUME OneReviewer PROVE Spec => SettledForGood
<1>1. ChargeInv /\ [Next]_vars =>
          [\A s \in Sessions : sessions[s].status = "settled" =>
               debits[s] > 0 /\ sessions'[s].status = "settled" /\ sessions'[s].billed]_vars
  <2>. SUFFICES ASSUME ChargeInv, Next, NEW s \in Sessions, sessions[s].status = "settled"
                PROVE  debits[s] > 0 /\ sessions'[s].status = "settled" /\ sessions'[s].billed
    OBVIOUS
  <2>1. debits[s] = 1 /\ sessions[s].billed
    BY DEF ChargeInv, RowFacts
  <2>. QED  BY <2>1, SettledRowStays
<1>. QED  BY <1>1, ChargeInvariance, PTL DEF Spec, SettledForGood

-----------------------------------------------------------------------------
(***************************************************************************)
(* The handlers implement the contract, with one reviewer: a session that  *)
(* has ended with no review due is held by the call that ended it, until   *)
(* that call settled or queued it, or could do neither.                    *)
(***************************************************************************)
BillStages == {"lookup", "debit", "settle", "queue"}

PhaseOf(r, billed) ==
    IF r.status # "ended" THEN r.status
    ELSE IF r.review = "pending" THEN "review"
    ELSE IF r.review = "rejected" THEN "rejected"
    ELSE IF billed THEN "due" ELSE "forgotten"

Phases == [s \in Sessions |-> Phase(s)]

LEMMA PhaseParts ==
    /\ \A s \in Sessions : Phases[s] = PhaseOf(sessions[s], BeingBilled(s))
    /\ \A s \in Sessions : Phases'[s] = PhaseOf(sessions'[s], BeingBilled(s)')
    /\ DOMAIN Phases = Sessions /\ DOMAIN Phases' = Sessions
    /\ Phases = [s \in Sessions |-> Phases[s]] /\ Phases' = [s \in Sessions |-> Phases'[s]]
  BY DEF Phases, Phase, PhaseOf

\* A step concerns the session its call bills, before or after, and no other.
LEMMA OthersStay ==
    ASSUME TypeOK, NEW w \in Workers, NEW c, calls' = [calls EXCEPT ![w] = c], NEW s,
           calls[w].stage \in BillStages => calls[w].session = s,
           c.stage \in BillStages => c.session = s
    PROVE  \A u \in Sessions : u # s => BeingBilled(u)' = BeingBilled(u)
<1>1. \A x \in Workers : calls'[x] = IF x = w THEN c ELSE calls[x]
  BY DEF TypeOK
<1>. SUFFICES ASSUME NEW u \in Sessions, u # s PROVE BeingBilled(u)' <=> BeingBilled(u)
  BY DEF BeingBilled
<1>2. ASSUME NEW x \in Workers
      PROVE  calls'[x].session = u /\ calls'[x].stage \in BillStages <=>
                 calls[x].session = u /\ calls[x].stage \in BillStages
  BY <1>1
<1>. QED  BY <1>2 DEF BeingBilled, BillStages

\* What may become of one session.
Moves(from, d, to, e) ==
    \/ to = from /\ e = d
    \/ from = "absent" /\ to = "charging" /\ e = d
    \/ from = "charging" /\ to \in {"due", "review"} /\ e = d
    \/ from \in {"due", "review"} /\ to = from /\ d = 0 /\ e = 1
    \/ from \in {"due", "review"} /\ d = 1 /\ to = "settled" /\ e = d
    \/ from = "due" /\ to = "review" /\ e = d
    \/ from = "review" /\ to = "rejected" /\ e = d
    \/ MayForget /\ from = "due" /\ to = "forgotten" /\ e = d

LEMMA OneSessionMoves ==
    ASSUME TypeOK, NEW w \in Workers, NEW c, calls' = [calls EXCEPT ![w] = c],
           NEW s \in Sessions, NEW r, sessions' = [sessions EXCEPT ![s] = r],
           NEW d, debits' = [debits EXCEPT ![s] = d],
           calls[w].stage \in BillStages => calls[w].session = s,
           c.stage \in BillStages => c.session = s,
           Moves(Phases[s], debits[s], PhaseOf(r, BeingBilled(s)'), d)
    PROVE  [Contract!Next]_<<Phases, debits>>
<1>. DEFINE p == PhaseOf(r, BeingBilled(s)')
<1>r. \A u \in Sessions : sessions'[u] = IF u = s THEN r ELSE sessions[u]
  BY DEF TypeOK
<1>b. \A u \in Sessions : u # s => BeingBilled(u)' = BeingBilled(u)
  BY OthersStay
<1>1. ASSUME NEW u \in Sessions PROVE Phases'[u] = IF u = s THEN p ELSE Phases[u]
  <2>1. Phases'[u] = PhaseOf(sessions'[u], BeingBilled(u)') /\ Phases[u] = PhaseOf(sessions[u], BeingBilled(u))
    BY PhaseParts
  <2>. QED  BY <1>r, <1>b, <2>1
<1>2. Phases' = [Phases EXCEPT ![s] = p]
  BY <1>1, PhaseParts
<1>3. debits \in [Sessions -> Nat]
  BY DEF TypeOK
<1>. HIDE DEF p
<1>4. CASE p = Phases[s] /\ d = debits[s]
  BY <1>2, <1>3, <1>4, PhaseParts
<1>5. CASE d = debits[s] /\ p # Phases[s]
  <2>1. debits' = debits
    BY <1>3, <1>5
  <2>2. \/ Contract!Start(s) \/ Contract!End(s) \/ Contract!Settle(s) \/ Contract!Queue(s) \/ Contract!Reject(s)
        \/ Contract!Forget(s)
    BY <1>2, <1>5, <2>1 DEF Moves, p, Phases, Contract!Start, Contract!End, Contract!Settle, Contract!Queue,
       Contract!Reject, Contract!Forget, Contract!Goes, Contract!Open
  <2>. QED  BY <2>2 DEF Contract!Next
<1>6. CASE d # debits[s]
  <2>1. Phases[s] \in {"due", "review"} /\ p = Phases[s] /\ debits[s] = 0 /\ d = 1
    BY <1>6 DEF Moves, p
  <2>2. Phases' = Phases
    BY <1>2, <2>1, PhaseParts
  <2>3. Contract!Pay(s)
    BY <2>1, <2>2 DEF Contract!Pay, Contract!Open, Phases
  <2>. QED  BY <2>3 DEF Contract!Next
<1>. QED  BY <1>4, <1>5, <1>6

\* The same of the session a call names, which is a fixed one for the step:
\* unless the call goes on to bill it, it must not need a bill any more.
LEMMA ItsSessionMoves ==
    ASSUME TypeOK, NEW w \in Workers, NEW c, calls' = [calls EXCEPT ![w] = c], calls[w].session \in Sessions,
           NEW r, sessions' = [sessions EXCEPT ![calls[w].session] = r],
           NEW d, debits' = [debits EXCEPT ![calls[w].session] = d],
           c.stage \in BillStages => c.session = calls[w].session,
           PhaseOf(r, FALSE) = "forgotten" => c.stage \in BillStages,
           Moves(Phases[calls[w].session], debits[calls[w].session], PhaseOf(r, TRUE), d)
    PROVE  [Contract!Next]_<<Phases, debits>>
<1>1. PICK s \in Sessions : s = calls[w].session
  OBVIOUS
<1>2. c.stage \in BillStages => BeingBilled(s)'
  <2>1. calls'[w] = c
    BY DEF TypeOK
  <2>. QED  BY <1>1, <2>1 DEF BeingBilled, BillStages
<1>3. PhaseOf(r, BeingBilled(s)') = PhaseOf(r, TRUE)
  <2>1. BeingBilled(s)' \in BOOLEAN
    BY DEF BeingBilled
  <2>. QED  BY <1>2, <2>1 DEF PhaseOf
<1>. QED  BY <1>1, <1>3, OneSessionMoves

\* A step that writes no session and bills none, before or after.
LEMMA NothingMoves ==
    ASSUME TypeOK, NEW w \in Workers, NEW c, calls' = [calls EXCEPT ![w] = c], UNCHANGED <<sessions, debits>>,
           calls[w].stage \notin BillStages, c.stage \notin BillStages
    PROVE  UNCHANGED <<Phases, debits>>
<1>1. \A u \in Sessions : BeingBilled(u)' = BeingBilled(u)
  <2>1. \A u \in Sessions : u # NoSession => BeingBilled(u)' = BeingBilled(u)
    BY OthersStay
  <2>. QED  BY <2>1, NoSessionAssumption
<1>. QED  BY <1>1, PhaseParts

\* The session a call bills is due or in review.
LEMMA BilledIsOpen ==
    ASSUME ChargeInv, NEW w \in Workers, Bills(w, calls[w]), calls[w].stage \notin {"insert", "rest"}
    PROVE  LET s == calls[w].session IN
           /\ s \in Sessions /\ sessions[s].status = "ended"
           /\ w \in Reviewers => sessions[s].review = "pending" /\ Phases[s] = "review"
           /\ w \notin Reviewers => sessions[s].review = "none" /\ BeingBilled(s) /\ Phases[s] = "due"
<1>. DEFINE s == calls[w].session
<1>1. s \in Sessions /\ Standing(w, calls[w], sessions[s], debits[s])
  BY CallFacts
<1>2. w \notin Reviewers => BeingBilled(s)
  BY DEF Bills, BeingBilled
<1>. QED  BY <1>1, <1>2, PhaseParts DEF Standing, PhaseOf

LEMMA BeginMovesNothing ==
    ASSUME ChargeInv, NEW w \in Workers, Begin(w)
    PROVE  UNCHANGED <<Phases, debits>>
<1>1. TypeOK /\ calls[w].stage \notin BillStages /\ UNCHANGED <<sessions, debits>>
  BY DEF ChargeInv, Begin, StartRead, StopRead, ReviewRead, BillStages
<1>2. PICK c : calls' = [calls EXCEPT ![w] = c] /\ c.stage \notin BillStages
  <2>1. \A stage \in {"insert", "close", "attribute", "reject"} : \A s, c, again, verdict :
            Call(stage, s, c, again, verdict).stage \notin BillStages
    BY DEF Call, BillStages
  <2>. QED  BY <2>1 DEF Begin, StartRead, StopRead, ReviewRead
<1>. QED  BY <1>1, <1>2, NothingMoves

\* What ends a call, or sends it back to the insert, lets its session go.
LEMMA LetGoCall ==
    ASSUME ChargeInv, NEW w \in Workers, Return(w) \/ calls' = [calls EXCEPT ![w] = AtRest]
    PROVE  \E c : calls' = [calls EXCEPT ![w] = c] /\ c.stage \notin BillStages
<1>1. Returned(calls[w]).stage \notin BillStages /\ AtRest.stage \notin BillStages
  BY CallFacts, ReturnedOK, RestOK DEF BillStages
<1>. QED  BY <1>1, CallSteps DEF ChargeInv

LEMMA StartMoves ==
    ASSUME ChargeInv, NEW w \in Workers,
           \/ \E s \in Sessions, bound \in BOOLEAN : Insert(w, s, bound)
           \/ InsertRefused(w)
           \/ CloseRefused(w)
    PROVE  [Contract!Next]_<<Phases, debits>>
<1>t. TypeOK
  BY DEF ChargeInv
<1>1. ASSUME NEW s \in Sessions, NEW bound \in BOOLEAN, Insert(w, s, bound)
      PROVE  [Contract!Next]_<<Phases, debits>>
  <2>. DEFINE r == [status |-> "charging", review |-> IF bound THEN "none" ELSE "pending",
                    connector |-> calls[w].connector, bound |-> bound, billed |-> FALSE]
  <2>1. /\ calls[w].stage = "insert" /\ sessions[s].status = "absent"
        /\ sessions' = [sessions EXCEPT ![s] = r] /\ debits' = [debits EXCEPT ![s] = debits[s]]
        /\ calls' = [calls EXCEPT ![w] = AtRest]
    BY <1>1, <1>t DEF Insert, TypeOK
  <2>2. r.status = "charging"
    OBVIOUS
  <2>. HIDE DEF r
  <2>3. Phases[s] = "absent" /\ PhaseOf(r, BeingBilled(s)') = "charging"
    BY <2>1, <2>2, PhaseParts DEF PhaseOf
  <2>4. calls[w].stage \notin BillStages /\ AtRest.stage \notin BillStages
    BY <2>1, RestOK DEF BillStages
  <2>5. Moves(Phases[s], debits[s], PhaseOf(r, BeingBilled(s)'), debits[s])
    BY <2>3 DEF Moves
  <2>. QED  BY <1>t, <2>1, <2>4, <2>5, OneSessionMoves
<1>2. CASE InsertRefused(w)
  <2>1. calls[w].stage \notin BillStages /\ UNCHANGED <<sessions, debits>>
    BY <1>2 DEF InsertRefused, BillStages
  <2>2. PICK c : calls' = [calls EXCEPT ![w] = c] /\ c.stage \notin BillStages
    <3>1. AtRest.stage \notin BillStages /\ \A s, k, again, verdict :
              Call("close", s, k, again, verdict).stage \notin BillStages
      BY RestOK DEF Call, BillStages
    <3>2. \/ \E old \in ActiveOn(calls[w].connector) :
                 calls' = [calls EXCEPT ![w] = Call("close", old, calls[w].connector, TRUE, "none")]
          \/ calls' = [calls EXCEPT ![w] = AtRest]
      BY <1>2, <1>t DEF InsertRefused, TypeOK
    <3>. QED  BY <3>1, <3>2
  <2>. QED  BY <1>t, <2>1, <2>2, NothingMoves
<1>3. CASE CloseRefused(w)
  <2>1. calls[w].stage \notin BillStages /\ UNCHANGED <<sessions, debits>>
    BY <1>3 DEF CloseRefused, BillStages
  <2>2. PICK c : calls' = [calls EXCEPT ![w] = c] /\ c.stage \notin BillStages
    BY <1>3, LetGoCall DEF CloseRefused
  <2>. QED  BY <1>t, <2>1, <2>2, NothingMoves
<1>. QED  BY <1>1, <1>2, <1>3

LEMMA CloseMoves ==
    ASSUME ChargeInv, NEW w \in Workers, NEW deviates \in BOOLEAN, Close(w, deviates)
    PROVE  [Contract!Next]_<<Phases, debits>>
<1>. DEFINE s == calls[w].session
            needsReview == deviates \/ ~sessions[s].bound
            r == [sessions[s] EXCEPT !.status = "ended", !.review = IF needsReview THEN "pending" ELSE "none"]
<1>t. TypeOK /\ CallOK(calls[w]) /\ calls[w].stage = "close" /\ sessions[s].status = "charging" /\ s \in Sessions
  BY CallFacts DEF ChargeInv, Close, Closable, Charging
<1>1. sessions' = [sessions EXCEPT ![s] = r] /\ debits' = [debits EXCEPT ![s] = debits[s]]
  BY <1>t DEF Close, TypeOK
<1>2. r.status = "ended" /\ r.review = IF needsReview THEN "pending" ELSE "none"
  BY <1>t DEF TypeOK, SessionRow
<1>3. Phases[s] = "charging"
  BY <1>t, PhaseParts DEF PhaseOf
<1>4. CASE needsReview
  <2>1. PICK c : calls' = [calls EXCEPT ![w] = c] /\ c.stage \notin BillStages
    BY <1>4, LetGoCall DEF Close
  <2>. HIDE DEF r
  <2>2. PhaseOf(r, FALSE) # "forgotten" /\ Moves(Phases[s], debits[s], PhaseOf(r, TRUE), debits[s])
    BY <1>2, <1>3, <1>4 DEF PhaseOf, Moves
  <2>. QED  BY <1>t, <1>1, <2>1, <2>2, ItsSessionMoves
<1>5. CASE ~needsReview
  <2>. DEFINE c == At(calls[w], "lookup")
  <2>1. calls' = [calls EXCEPT ![w] = c] /\ c.stage = "lookup" /\ c.session = s
    BY <1>5, <1>t, CallSteps, AtOK DEF Close
  <2>. HIDE DEF c, r
  <2>2. c.stage \in BillStages /\ Moves(Phases[s], debits[s], PhaseOf(r, TRUE), debits[s])
    BY <1>2, <1>3, <1>5, <2>1 DEF BillStages, PhaseOf, Moves
  <2>. QED  BY <1>t, <1>1, <2>1, <2>2, ItsSessionMoves
<1>. QED  BY <1>4, <1>5

\* A step by a call that bills its session and goes on doing so.
LEMMA BillingMoves ==
    ASSUME ChargeInv, NEW w \in Workers, Bills(w, calls[w]), calls[w].stage \notin {"insert", "rest"},
           NEW stage \in BillStages, Goto(w, stage), NEW r, NEW d,
           sessions' = [sessions EXCEPT ![calls[w].session] = r],
           debits' = [debits EXCEPT ![calls[w].session] = d],
           r.status = sessions[calls[w].session].status, r.review = sessions[calls[w].session].review,
           d = debits[calls[w].session] \/ (debits[calls[w].session] = 0 /\ d = 1)
    PROVE  [Contract!Next]_<<Phases, debits>>
<1>. DEFINE s == calls[w].session
            c == At(calls[w], stage)
<1>t. TypeOK /\ CallOK(calls[w]) /\ s \in Sessions
  BY CallFacts, BilledIsOpen DEF ChargeInv
<1>1. calls' = [calls EXCEPT ![w] = c] /\ c.stage = stage /\ c.session = s
  BY <1>t, CallSteps, AtOK DEF BillStages
<1>2. PhaseOf(r, TRUE) = Phases[s] /\ Phases[s] \in {"due", "review"}
  BY BilledIsOpen DEF PhaseOf
<1>3. Moves(Phases[s], debits[s], PhaseOf(r, TRUE), d)
  BY <1>2 DEF Moves
<1>. HIDE DEF c
<1>. QED  BY <1>t, <1>1, <1>3, ItsSessionMoves

\* A step by a call that bills its session and lets it go.
LEMMA DoneMoves ==
    ASSUME ChargeInv, NEW w \in Workers, Bills(w, calls[w]), calls[w].stage \notin {"insert", "rest"},
           Return(w) \/ calls' = [calls EXCEPT ![w] = AtRest], NEW r,
           sessions' = [sessions EXCEPT ![calls[w].session] = r], debits' = debits,
           \/ r.status = "settled" /\ debits[calls[w].session] = 1
           \/ r.status = "ended" /\ r.review = "pending"
           \/ r.status = "ended" /\ r.review = "rejected" /\ w \in Reviewers
    PROVE  [Contract!Next]_<<Phases, debits>>
<1>. DEFINE s == calls[w].session
<1>t. TypeOK /\ s \in Sessions
  BY BilledIsOpen DEF ChargeInv
<1>1. PICK c : calls' = [calls EXCEPT ![w] = c] /\ c.stage \notin BillStages
  BY LetGoCall
<1>2. PICK d : d = debits[s]
  OBVIOUS
<1>3. debits' = [debits EXCEPT ![s] = d]
  BY <1>t, <1>2 DEF TypeOK
<1>4. PhaseOf(r, FALSE) # "forgotten" /\ Moves(Phases[s], debits[s], PhaseOf(r, TRUE), d)
  BY <1>2, BilledIsOpen DEF PhaseOf, Moves
<1>5. calls[w].session \in Sessions /\ sessions' = [sessions EXCEPT ![calls[w].session] = r]
  BY <1>t
<1>. QED  BY ONLY <1>t, <1>1, <1>3, <1>4, <1>5, w \in Workers, ItsSessionMoves

\* A call that lets its session go as it is: one in review stays there, one
\* that is due may be forgotten.
LEMMA ForgetMoves ==
    ASSUME ChargeInv, NEW w \in Workers, UNCHANGED <<sessions, debits>>,
           Return(w) \/ calls' = [calls EXCEPT ![w] = AtRest],
           calls[w].stage \in BillStages => MayForget \/ w \in Reviewers
    PROVE  [Contract!Next]_<<Phases, debits>>
<1>t. TypeOK /\ RoleOK(w, calls[w])
  BY CallFacts DEF ChargeInv
<1>1. PICK c : calls' = [calls EXCEPT ![w] = c] /\ c.stage \notin BillStages
  BY LetGoCall
<1>2. CASE calls[w].stage \notin BillStages
  BY <1>t, <1>1, <1>2, NothingMoves
<1>3. CASE calls[w].stage \in BillStages
  <2>1. PICK s \in Sessions : s = calls[w].session
    BY <1>t, <1>3, CallFacts DEF BillStages
  <2>2. Bills(w, calls[w]) /\ calls[w].stage \notin {"insert", "rest"}
    BY <1>t, <1>3 DEF Bills, BillStages
  <2>3. PICK r, d : r = sessions[s] /\ d = debits[s]
    OBVIOUS
  <2>4. sessions' = [sessions EXCEPT ![s] = r] /\ debits' = [debits EXCEPT ![s] = d]
    BY <1>t, <2>3 DEF TypeOK
  <2>5. BeingBilled(s)' \in BOOLEAN
    BY DEF BeingBilled
  <2>6. /\ r.status = "ended"
        /\ w \in Reviewers => r.review = "pending" /\ Phases[s] = "review"
        /\ w \notin Reviewers => r.review = "none" /\ Phases[s] = "due"
    BY <2>1, <2>2, <2>3, BilledIsOpen
  <2>7. Moves(Phases[s], debits[s], PhaseOf(r, BeingBilled(s)'), d)
    BY <1>3, <2>3, <2>5, <2>6 DEF Moves, PhaseOf
  <2>8. /\ calls[w].stage \in BillStages => calls[w].session = s
        /\ c.stage \in BillStages => c.session = s
    BY <1>1, <2>1
  <2>. QED  BY ONLY w \in Workers, s \in Sessions, <1>t, <1>1, <2>4, <2>7, <2>8, OneSessionMoves
<1>. QED  BY <1>2, <1>3

LEMMA BillMoves ==
    ASSUME ChargeInv, NEW w \in Workers,
           \/ Lookup(w)
           \/ Debit(w)
           \/ Settle(w)
           \/ Fail(w)
           \/ FailUnnoticed(w)
           \/ Queue(w)
           \/ \E bound \in BOOLEAN : Attribute(w, bound)
           \/ Reject(w)
           \/ Crash(w)
    PROVE  [Contract!Next]_<<Phases, debits>>
<1>. DEFINE s == calls[w].session
<1>t. TypeOK /\ CallOK(calls[w]) /\ RoleOK(w, calls[w])
  BY CallFacts DEF ChargeInv
<1>b. ASSUME calls[w].stage \in {"lookup", "debit", "settle", "queue", "attribute", "reject"}
      PROVE  /\ Bills(w, calls[w]) /\ calls[w].stage \notin {"insert", "rest"} /\ s \in Sessions
             /\ sessions[s] \in SessionRow /\ debits[s] \in Nat /\ Standing(w, calls[w], sessions[s], debits[s])
  <2>1. Bills(w, calls[w]) /\ calls[w].stage \notin {"insert", "rest"}
    BY <1>b, <1>t DEF Bills, RoleOK
  <2>. QED  BY <1>t, <2>1, CallFacts, BilledIsOpen DEF TypeOK
<1>u. s \in Sessions /\ UNCHANGED <<sessions, debits>> =>
          sessions' = [sessions EXCEPT ![s] = sessions[s]] /\ debits' = [debits EXCEPT ![s] = debits[s]]
  BY <1>t DEF TypeOK
<1>1. CASE Lookup(w) \/ Fail(w)
  <2>1. calls[w].stage \in {"lookup", "debit", "settle"} /\ UNCHANGED <<sessions, debits>>
    BY <1>1, FailAtAssumption DEF Lookup, Fail
  <2>2. PICK stage \in BillStages : Goto(w, stage)
    BY <1>1 DEF Lookup, Fail, BillStages
  <2>3. PICK d : d = debits[s]
    OBVIOUS
  <2>4. /\ sessions' = [sessions EXCEPT ![s] = sessions[s]] /\ debits' = [debits EXCEPT ![s] = d]
        /\ d = debits[s] \/ (debits[s] = 0 /\ d = 1)
    BY <1>b, <1>u, <2>1, <2>3
  <2>. QED  BY <1>b, <2>1, <2>2, <2>4, BillingMoves
<1>2. CASE Debit(w)
  <2>1. calls[w].stage = "debit" /\ sessions' = sessions /\ Goto(w, "settle")
    BY <1>2 DEF Debit
  <2>2. debits[s] = 0
    BY <1>b, <2>1 DEF Standing
  <2>3. debits' = [debits EXCEPT ![s] = 1] /\ sessions' = [sessions EXCEPT ![s] = sessions[s]]
    BY <1>2, <1>b, <1>t, <2>1, <2>2 DEF Debit, TypeOK
  <2>4. "settle" \in BillStages
    BY DEF BillStages
  <2>. QED  BY <1>b, <2>1, <2>2, <2>3, <2>4, BillingMoves
<1>3. CASE Settle(w)
  <2>. DEFINE r == [sessions[s] EXCEPT !.status = "settled", !.review = calls[w].verdict, !.billed = TRUE]
  <2>1. calls[w].stage = "settle" /\ debits' = debits /\ Return(w) /\ sessions' = [sessions EXCEPT ![s] = r]
    BY <1>3, <1>t DEF Settle, TypeOK
  <2>2. debits[s] = 1 /\ r.status = "settled"
    BY <1>b, <2>1 DEF Standing, SessionRow
  <2>. HIDE DEF r
  <2>. QED  BY <1>b, <2>1, <2>2, DoneMoves
<1>4. CASE Queue(w)
  <2>. DEFINE r == [sessions[s] EXCEPT !.review = "pending"]
  <2>1. calls[w].stage = "queue" /\ debits' = debits /\ Return(w)
    BY <1>4 DEF Queue
  <2>2. sessions[s].status = "ended"
    BY <1>b, <2>1 DEF Standing
  <2>3. sessions' = [sessions EXCEPT ![s] = r] /\ r.status = "ended" /\ r.review = "pending"
    BY <1>4, <1>b, <1>t, <2>1, <2>2 DEF Queue, Queued, TypeOK, SessionRow
  <2>. HIDE DEF r
  <2>. QED  BY <1>b, <2>1, <2>3, DoneMoves
<1>5. ASSUME NEW bound \in BOOLEAN, Attribute(w, bound)
      PROVE  [Contract!Next]_<<Phases, debits>>
  <2>. DEFINE r == [sessions[s] EXCEPT !.bound = bound \/ sessions[s].bound]
  <2>1. calls[w].stage = "attribute" /\ Goto(w, "lookup") /\ "lookup" \in BillStages
    BY <1>5 DEF Attribute, BillStages
  <2>2. sessions' = [sessions EXCEPT ![s] = r] /\ debits' = [debits EXCEPT ![s] = debits[s]]
    BY <1>5, <1>b, <1>t, <2>1 DEF Attribute, TypeOK
  <2>3. r.status = sessions[s].status /\ r.review = sessions[s].review
    BY <1>b, <2>1 DEF SessionRow
  <2>4. PICK d : d = debits[s]
    OBVIOUS
  <2>. HIDE DEF r
  <2>. QED  BY <1>b, <2>1, <2>2, <2>3, <2>4, BillingMoves
<1>6. CASE Reject(w)
  <2>. DEFINE r == [sessions[s] EXCEPT !.status = "ended", !.review = "rejected", !.billed = FALSE]
  <2>1. calls[w].stage = "reject" /\ debits' = debits /\ Return(w) /\ sessions' = [sessions EXCEPT ![s] = r]
    BY <1>6, <1>t DEF Reject, TypeOK
  <2>2. w \in Reviewers /\ r.status = "ended" /\ r.review = "rejected"
    BY <1>b, <1>t, <2>1 DEF RoleOK, SessionRow
  <2>. HIDE DEF r
  <2>. QED  BY <1>b, <2>1, <2>2, DoneMoves
<1>7. CASE Crash(w)
  <2>1. UNCHANGED <<sessions, debits>> /\ calls' = [calls EXCEPT ![w] = AtRest]
    BY <1>7 DEF Crash
  <2>2. MayForget \/ w \in Reviewers
    BY <1>7 DEF Crash, MayForget
  <2>. QED  BY <2>1, <2>2, ForgetMoves
<1>8. CASE FailUnnoticed(w)
  <2>1. UNCHANGED <<sessions, debits>> /\ Return(w) /\ calls[w].stage \in FailAt \cap {"close", "queue"}
    BY <1>8 DEF FailUnnoticed
  <2>2. calls[w].stage \in BillStages => MayForget
    BY <2>1 DEF BillStages, MayForget
  <2>. QED  BY <2>1, <2>2, ForgetMoves
<1>. QED  BY <1>1, <1>2, <1>3, <1>4, <1>5, <1>6, <1>7, <1>8

\* Statement by statement the handlers of piles and reviewers keep the
\* contract, whatever fails or dies: a session is paid for once and before it is
\* settled, a settled or rejected one stays so, and one that ended is forgotten
\* only where a mark for review may fail or the handler of a pile may die, and
\* then for good (charging/service.go finish, bill and Review; billing/hooks.go
\* PriceAndCharge).
THEOREM SessionsFollowContract == ASSUME OneReviewer PROVE Spec => FollowsContract
<1>1. Init => Contract!Init
  <2>. SUFFICES ASSUME Init PROVE Contract!Init
    OBVIOUS
  <2>. QED  BY DEF Init, Contract!Init, Phase
<1>2. ChargeInv /\ [Next]_vars => [Contract!Next]_<<[s \in Sessions |-> Phase(s)], debits>>
  <2>. SUFFICES ASSUME ChargeInv, [Next]_vars PROVE [Contract!Next]_<<Phases, debits>>
    BY DEF Phases
  <2>1. ASSUME NEW w \in Workers, Begin(w) \/ Proceed(w) \/ Crash(w)
        PROVE  [Contract!Next]_<<Phases, debits>>
    BY <2>1, BeginMovesNothing, StartMoves, CloseMoves, BillMoves DEF Proceed
  <2>2. CASE UNCHANGED vars
    BY <2>2 DEF vars, Phases, Phase, BeingBilled
  <2>. QED  BY <2>1, <2>2 DEF Next
<1>. QED  BY <1>1, <1>2, ChargeInvariance, PTL DEF Spec, FollowsContract, Contract!Spec

-----------------------------------------------------------------------------
(***************************************************************************)
(* What holds for any number of reviewers: the index keeps a connector to  *)
(* one session, because no session that was closed charges again.          *)
(***************************************************************************)
Known(c) == c.stage \notin {"rest", "insert"} => sessions[c.session].status # "absent"

ConnectorInv ==
    /\ TypeOK
    /\ OneSessionPerConnector
    /\ \A s \in Sessions : sessions[s].status = "absent" => sessions[s].review = "none"
    /\ \A w \in Workers : Known(calls[w])

\* A session may start to charge only where none does, and is never unknown
\* again.
LEMMA ConnectorStep ==
    ASSUME ConnectorInv, NEW w \in Workers, NEW c, CallOK(c), calls' = [calls EXCEPT ![w] = c],
           debits' \in [Sessions -> Nat],
           c.stage \notin {"rest", "insert"} => sessions[c.session].status # "absent",
           \/ sessions' = sessions
           \/ \E s \in Sessions : \E r :
                  /\ sessions' = [sessions EXCEPT ![s] = r] /\ RowOK(r) /\ r.status # "absent"
                  /\ r.status = "charging" =>
                         \/ Charging(s) /\ r.connector = sessions[s].connector
                         \/ ConnectorFree(r.connector)
    PROVE  ConnectorInv'
<1>t. /\ sessions \in [Sessions -> SessionRow] /\ calls \in [Workers -> CallRow]
      /\ \A u \in Sessions : RowOK(sessions[u])
      /\ \A x \in Workers : CallOK(calls[x])
  BY TypeParts DEF ConnectorInv
<1>w. \A x \in Workers : calls'[x] = IF x = w THEN c ELSE calls[x]
  BY <1>t
<1>s. \A x \in Workers : calls'[x].stage \notin {"rest", "insert"} =>
          calls'[x].session \in Sessions /\ sessions[calls'[x].session].status # "absent"
  BY <1>t, <1>w DEF ConnectorInv, Known, CallOK, CallRow
<1>1. CASE sessions' = sessions
  <2>1. TypeOK'
    BY <1>1, <1>t, <1>w DEF TypeOK, RowOK, CallOK
  <2>2. OneSessionPerConnector' /\ \A x \in Workers : Known(calls[x])'
    BY <1>1, <1>s DEF ConnectorInv, OneSessionPerConnector, Charging, Known
  <2>3. \A u \in Sessions : sessions'[u].status = "absent" => sessions'[u].review = "none"
    BY <1>1 DEF ConnectorInv
  <2>. QED  BY <2>1, <2>2, <2>3 DEF ConnectorInv
<1>2. ASSUME NEW s \in Sessions, NEW r,
             sessions' = [sessions EXCEPT ![s] = r], RowOK(r), r.status # "absent",
             r.status = "charging" =>
                 \/ Charging(s) /\ r.connector = sessions[s].connector
                 \/ ConnectorFree(r.connector)
      PROVE  ConnectorInv'
  <2>1. \A u \in Sessions : sessions'[u] = IF u = s THEN r ELSE sessions[u]
    BY <1>2, <1>t
  <2>2. TypeOK'
    <3>1. sessions' \in [Sessions -> SessionRow] /\ calls' \in [Workers -> CallRow]
      BY <1>2, <1>t DEF RowOK, CallOK
    <3>2. (\A u \in Sessions : RowOK(sessions'[u])) /\ (\A x \in Workers : CallOK(calls'[x]))
      BY <1>2, <1>t, <1>w, <2>1
    <3>. QED  BY <3>1, <3>2 DEF TypeOK, RowOK, CallOK
  <2>3. \A x \in Workers : Known(calls[x])'
    BY <1>2, <1>s, <2>1 DEF Known
  <2>4. OneSessionPerConnector'
    <3>1. ASSUME NEW u \in Sessions \ {s}, sessions[u].status = "charging", sessions[u].connector = r.connector,
                 r.status = "charging"
          PROVE  FALSE
      BY <1>2, <3>1 DEF ConnectorFree, ActiveOn, ConnectorInv, OneSessionPerConnector, Charging
    <3>. SUFFICES ASSUME NEW u \in Sessions, NEW v \in Sessions, u # v,
                         sessions'[u].status = "charging", sessions'[v].status = "charging",
                         sessions'[u].connector = sessions'[v].connector
                  PROVE  FALSE
      BY DEF OneSessionPerConnector, Charging
    <3>2. CASE u = s \/ v = s
      BY <2>1, <3>1, <3>2
    <3>3. CASE u # s /\ v # s
      BY <2>1, <3>3 DEF ConnectorInv, OneSessionPerConnector, Charging
    <3>. QED  BY <3>2, <3>3
  <2>5. \A u \in Sessions : sessions'[u].status = "absent" => sessions'[u].review = "none"
    BY <1>2, <2>1 DEF ConnectorInv
  <2>. QED  BY <2>2, <2>3, <2>4, <2>5 DEF ConnectorInv
<1>. QED  BY <1>1, <1>2

LEMMA ConnectorInit == Init => ConnectorInv
<1>. SUFFICES ASSUME Init PROVE ConnectorInv
  OBVIOUS
<1>1. TypeOK
  BY InvInit DEF ChargeInv
<1>2. /\ OneSessionPerConnector
      /\ \A s \in Sessions : sessions[s].status = "absent" => sessions[s].review = "none"
  BY DEF Init, OneSessionPerConnector, Charging
<1>3. \A w \in Workers : Known(calls[w])
  BY RestOK DEF Init, Known
<1>. QED  BY <1>1, <1>2, <1>3 DEF ConnectorInv

LEMMA ConnectorNext == ConnectorInv /\ [Next]_vars => ConnectorInv'
<1>. SUFFICES ASSUME ConnectorInv, [Next]_vars PROVE ConnectorInv'
  OBVIOUS
<1>u. CASE UNCHANGED vars
  BY <1>u DEF vars, ConnectorInv, TypeOK, OneSessionPerConnector, Charging, Known
<1>n. ASSUME NEW w \in Workers, Begin(w) \/ Proceed(w) \/ Crash(w) PROVE ConnectorInv'
  <2>. DEFINE s == calls[w].session
  <2>t. /\ CallOK(calls[w]) /\ calls[w] \in CallRow /\ debits \in [Sessions -> Nat] /\ Known(calls[w])
        /\ sessions \in [Sessions -> SessionRow]
        /\ \A u \in Sessions : sessions[u] \in SessionRow /\ RowOK(sessions[u])
    BY TypeParts DEF ConnectorInv, CallOK
  <2>s. calls[w].stage \notin {"rest", "insert"} =>
            s \in Sessions /\ sessions[s].status # "absent" /\ debits[s] \in Nat
    BY <2>t DEF CallOK, CallRow, Known
  \* The calls a step may leave behind.
  <2>r. ASSUME calls' = [calls EXCEPT ![w] = AtRest] \/ Return(w)
        PROVE  \E c : CallOK(c) /\ calls' = [calls EXCEPT ![w] = c] /\ c.stage \in {"rest", "insert"}
    BY <2>t, <2>r, RestOK, CallSteps, ReturnedOK DEF ConnectorInv
  <2>g. ASSUME NEW stage \in {"lookup", "debit", "settle", "queue"}, Goto(w, stage),
               calls[w].stage \notin {"rest", "insert"}
        PROVE  \E c : CallOK(c) /\ calls' = [calls EXCEPT ![w] = c] /\ c.session = s
    BY <2>t, <2>g, CallSteps, AtOK DEF ConnectorInv
  \* Steps that leave the sessions alone.
  <2>1. ASSUME w \notin Reviewers, NEW c \in Connectors, StartRead(w, c)
        PROVE  ConnectorInv'
    <3>1. CASE calls' = [calls EXCEPT ![w] = Call("insert", NoSession, c, FALSE, "none")]
      BY <2>1, <2>t, <3>1, InsertCallOK, ConnectorStep DEF StartRead
    <3>2. ASSUME NEW old \in ActiveOn(c), calls' = [calls EXCEPT ![w] = Call("close", old, c, FALSE, "none")]
          PROVE  ConnectorInv'
      <4>1. old \in Sessions /\ sessions[old].status # "absent"
        BY DEF ActiveOn, Charging
      <4>2. /\ CallOK(Call("close", old, c, FALSE, "none"))
            /\ Call("close", old, c, FALSE, "none").session = old
        BY <4>1, NewCallOK DEF Call
      <4>. QED  BY <2>1, <2>t, <3>2, <4>1, <4>2, ConnectorStep DEF StartRead
    <3>. QED  BY <2>1, <3>1, <3>2 DEF StartRead
  <2>2. ASSUME NEW u \in Sessions, StopRead(w, u)
        PROVE  ConnectorInv'
    <3>1. /\ CallOK(Call("close", u, NoConnector, FALSE, "none"))
          /\ Call("close", u, NoConnector, FALSE, "none").session = u
      BY NewCallOK DEF Call
    <3>. QED  BY <2>2, <2>t, <3>1, ConnectorStep DEF StopRead, Charging
  <2>3. ASSUME NEW u \in Sessions, NEW stage \in {"attribute", "reject"}, ReviewRead(w, u, stage)
        PROVE  ConnectorInv'
    <3>0. sessions[u].status # "absent"
      BY <2>3 DEF ReviewRead, Reviewable, ConnectorInv
    <3>1. /\ CallOK(Call(stage, u, NoConnector, FALSE, "approved"))
          /\ Call(stage, u, NoConnector, FALSE, "approved").session = u
      BY NewCallOK DEF Call
    <3>. QED  BY <2>3, <2>t, <3>0, <3>1, ConnectorStep DEF ReviewRead
  <2>4. CASE CloseRefused(w) \/ FailUnnoticed(w) \/ Crash(w)
    <3>1. UNCHANGED <<sessions, debits>> /\ (calls' = [calls EXCEPT ![w] = AtRest] \/ Return(w))
      BY <2>4 DEF CloseRefused, FailUnnoticed, Crash
    <3>. QED  BY <2>t, <2>r, <3>1, ConnectorStep
  <2>5. CASE InsertRefused(w)
    <3>1. UNCHANGED <<sessions, debits>>
      BY <2>5 DEF InsertRefused
    <3>2. ASSUME NEW old \in ActiveOn(calls[w].connector),
                 calls' = [calls EXCEPT ![w] = Call("close", old, calls[w].connector, TRUE, "none")]
          PROVE  ConnectorInv'
      <4>1. old \in Sessions /\ sessions[old].status # "absent" /\ calls[w].connector \in Connectors \cup {NoConnector}
        BY <2>t DEF ActiveOn, Charging, CallRow
      <4>2. /\ CallOK(Call("close", old, calls[w].connector, TRUE, "none"))
            /\ Call("close", old, calls[w].connector, TRUE, "none").session = old
        BY <4>1, NewCallOK DEF Call
      <4>. QED  BY <2>t, <3>1, <3>2, <4>1, <4>2, ConnectorStep
    <3>3. CASE calls' = [calls EXCEPT ![w] = AtRest]
      BY <2>t, <2>r, <3>1, <3>3, ConnectorStep
    <3>4. \/ \E old \in ActiveOn(calls[w].connector) :
                 calls' = [calls EXCEPT ![w] = Call("close", old, calls[w].connector, TRUE, "none")]
          \/ calls' = [calls EXCEPT ![w] = AtRest]
      BY <2>5, <2>t DEF InsertRefused, ConnectorInv, TypeOK
    <3>. QED  BY <3>2, <3>3, <3>4
  <2>6. CASE Lookup(w) \/ Fail(w)
    <3>1. UNCHANGED <<sessions, debits>> /\ calls[w].stage \notin {"rest", "insert"}
      BY <2>6, FailAtAssumption DEF Lookup, Fail
    <3>2. \E stage \in {"debit", "settle", "queue"} : Goto(w, stage)
      BY <2>6 DEF Lookup, Fail
    <3>. QED  BY <2>t, <2>s, <2>g, <3>1, <3>2, ConnectorStep
  <2>7. CASE Debit(w)
    <3>1. calls[w].stage = "debit" /\ sessions' = sessions /\ Goto(w, "settle") /\ debits' \in [Sessions -> Nat]
      BY <2>7, <2>t, <2>s DEF Debit
    <3>. QED  BY <2>t, <2>s, <2>g, <3>1, ConnectorStep
  \* Steps that write a session.
  <2>8. ASSUME NEW u \in Sessions, NEW bound \in BOOLEAN, Insert(w, u, bound)
        PROVE  ConnectorInv'
    <3>. DEFINE r == [status |-> "charging", review |-> IF bound THEN "none" ELSE "pending",
                      connector |-> calls[w].connector, bound |-> bound, billed |-> FALSE]
    <3>1. /\ calls[w].stage = "insert" /\ ConnectorFree(r.connector) /\ debits' = debits
          /\ sessions' = [sessions EXCEPT ![u] = r] /\ calls' = [calls EXCEPT ![w] = AtRest]
      BY <2>8 DEF Insert
    <3>2. RowOK(r) /\ r.status = "charging"
      BY <2>t, <3>1 DEF RowOK, SessionRow, CallOK, CallRow
    <3>. HIDE DEF r
    <3>. QED  BY <2>t, <3>1, <3>2, RestOK, ConnectorStep
  \* All others leave the session as it is or take it out of charging.
  <2>9. ASSUME NEW r, sessions' = [sessions EXCEPT ![s] = r], calls[w].stage \notin {"rest", "insert"},
               debits' = debits, RowOK(r), r.status # "absent",
               r.status = "charging" => Charging(s) /\ r.connector = sessions[s].connector,
               Return(w) \/ Goto(w, "lookup")
        PROVE  ConnectorInv'
    <3>1. PICK c : /\ CallOK(c) /\ calls' = [calls EXCEPT ![w] = c]
                   /\ c.stage \in {"rest", "insert"} \/ c.session = s
      BY <2>9, <2>r, <2>g
    <3>. QED  BY <2>9, <2>t, <2>s, <3>1, ConnectorStep
  <2>10. ASSUME NEW deviates \in BOOLEAN, Close(w, deviates)
         PROVE  ConnectorInv'
    <3>. DEFINE r == [sessions[s] EXCEPT !.status = "ended",
                          !.review = IF deviates \/ ~sessions[s].bound THEN "pending" ELSE "none"]
    <3>1. calls[w].stage = "close" /\ debits' = debits /\ (Return(w) \/ Goto(w, "lookup"))
      BY <2>10 DEF Close
    <3>2. sessions' = [sessions EXCEPT ![s] = r]
      BY <2>10, <2>t, <2>s, <3>1 DEF Close
    <3>c. sessions[s].connector # NoConnector /\ sessions[s] \in SessionRow
      BY <2>t, <2>s, <3>1 DEF RowOK
    <3>r. r \in SessionRow /\ r.status = "ended" /\ r.connector = sessions[s].connector
      <4>. DEFINE review == IF deviates \/ ~sessions[s].bound THEN "pending" ELSE "none"
      <4>1. review \in {"none", "pending"}
        OBVIOUS
      <4>. HIDE DEF review
      <4>2. /\ [sessions[s] EXCEPT !.status = "ended", !.review = review] \in SessionRow
            /\ [sessions[s] EXCEPT !.status = "ended", !.review = review].status = "ended"
            /\ [sessions[s] EXCEPT !.status = "ended", !.review = review].connector = sessions[s].connector
        BY <3>c, <4>1 DEF SessionRow
      <4>. QED  BY <4>2 DEF review
    <3>. HIDE DEF r
    <3>3. RowOK(r) /\ r.status = "ended"
      BY <3>c, <3>r DEF RowOK
    <3>. QED  BY <2>9, <3>1, <3>2, <3>3
  <2>11. CASE Settle(w)
    <3>. DEFINE r == [sessions[s] EXCEPT !.status = "settled", !.review = calls[w].verdict, !.billed = TRUE]
    <3>1. calls[w].stage = "settle" /\ debits' = debits /\ Return(w) /\ sessions' = [sessions EXCEPT ![s] = r]
      BY <2>11, <2>t DEF Settle
    <3>v. calls[w].verdict \in {"none", "approved"}
      BY <2>t DEF CallRow
    <3>c. sessions[s].connector \in Connectors \cup {NoConnector} /\ sessions[s].connector # NoConnector
      BY <2>t, <2>s, <3>1 DEF RowOK, SessionRow
    <3>r. r \in SessionRow /\ r.status = "settled" /\ r.connector = sessions[s].connector
      BY <2>t, <2>s, <3>1, <3>v DEF SessionRow
    <3>. HIDE DEF r
    <3>2. RowOK(r) /\ r.status = "settled"
      BY <3>c, <3>r DEF RowOK
    <3>. QED  BY <2>9, <3>1, <3>2
  <2>12. CASE Queue(w)
    <3>. DEFINE r == Queued(sessions[s])
    <3>1. calls[w].stage = "queue" /\ debits' = debits /\ Return(w) /\ sessions' = [sessions EXCEPT ![s] = r]
      BY <2>12, <2>t DEF Queue
    <3>2. RowOK(r) /\ r.status = sessions[s].status /\ r.connector = sessions[s].connector
      BY <2>t, <2>s, <3>1 DEF Queued, RowOK, SessionRow
    <3>. HIDE DEF r
    <3>. QED  BY <2>9, <2>s, <3>1, <3>2 DEF Charging
  <2>13. ASSUME NEW bound \in BOOLEAN, Attribute(w, bound)
         PROVE  ConnectorInv'
    <3>. DEFINE r == [sessions[s] EXCEPT !.bound = bound \/ sessions[s].bound]
    <3>1. /\ calls[w].stage = "attribute" /\ debits' = debits /\ Goto(w, "lookup")
          /\ sessions' = [sessions EXCEPT ![s] = r]
      BY <2>13, <2>t DEF Attribute
    <3>2. RowOK(r) /\ r.status = sessions[s].status /\ r.connector = sessions[s].connector
      BY <2>t, <2>s, <3>1 DEF RowOK, SessionRow
    <3>. HIDE DEF r
    <3>. QED  BY <2>9, <2>s, <3>1, <3>2 DEF Charging
  <2>14. CASE Reject(w)
    <3>. DEFINE r == [sessions[s] EXCEPT !.status = "ended", !.review = "rejected", !.billed = FALSE]
    <3>1. calls[w].stage = "reject" /\ debits' = debits /\ Return(w) /\ sessions' = [sessions EXCEPT ![s] = r]
      BY <2>14, <2>t DEF Reject
    <3>c. sessions[s].connector \in Connectors \cup {NoConnector} /\ sessions[s].connector # NoConnector
      BY <2>t, <2>s, <3>1 DEF RowOK, SessionRow
    <3>r. r \in SessionRow /\ r.status = "ended" /\ r.connector = sessions[s].connector
      BY <2>t, <2>s, <3>1 DEF SessionRow
    <3>. HIDE DEF r
    <3>2. RowOK(r) /\ r.status = "ended"
      BY <3>c, <3>r DEF RowOK
    <3>. QED  BY <2>9, <3>1, <3>2
  <2>. HIDE DEF s
  <2>. QED  BY <1>n, <2>1, <2>2, <2>3, <2>4, <2>5, <2>6, <2>7, <2>8, <2>10, <2>11, <2>12, <2>13, <2>14
            DEF Begin, Proceed
<1>. QED  BY <1>u, <1>n DEF Next

\* Sessions, debits and calls keep their types, for any number of reviewers.
THEOREM TypeCorrect == Spec => []TypeOK
<1>1. ConnectorInv => TypeOK
  BY DEF ConnectorInv
<1>. QED  BY <1>1, ConnectorInit, ConnectorNext, PTL DEF Spec

\* A connector runs one session at a time, whatever starts and stops race.
THEOREM ConnectorsRunOneSession == Spec => []OneSessionPerConnector
<1>1. ConnectorInv => OneSessionPerConnector
  BY DEF ConnectorInv
<1>. QED  BY <1>1, ConnectorInit, ConnectorNext, PTL DEF Spec

-----------------------------------------------------------------------------
(***************************************************************************)
(* No session is forgotten, for any number of reviewers.  A session that   *)
(* has ended and shows no review is owned by the pile's handler that       *)
(* closed it; that handler only moves towards the queue, and whichever of  *)
(* its statements is the last one accounts for the session: unless the     *)
(* handler dies before it, or it is the mark for review and fails too.     *)
(***************************************************************************)
PilesSurvive == Mortal \subseteq Reviewers

MarksSucceed == "queue" \notin FailAt

\* The stages a call that bills may still go through.
After == [stage \in BillStages |->
              CASE stage = "lookup" -> {"debit", "settle", "queue"}
                [] stage = "debit"  -> {"settle", "queue"}
                [] stage = "settle" -> {"queue"}
                [] stage = "queue"  -> {}]

Unaccounted(s) == sessions[s].status = "ended" /\ sessions[s].review \notin {"pending", "rejected"}

BilledBy(w, s) == calls[w].session = s /\ calls[w].stage \in BillStages

Roles == \A w \in Workers : RoleOK(w, calls[w])

Owned == \A s \in Sessions : Unaccounted(s) => \E w \in Workers \ Reviewers : BilledBy(w, s)

\* What a step by w, which leaves it at c, does to an unaccounted session: it
\* leaves it to another's call, or w's own call carries on with it.
Cares(w, c) ==
    \A s \in Sessions : Unaccounted(s)' =>
        \/ Unaccounted(s) /\ (w \in Reviewers \/ ~BilledBy(w, s))
        \/ /\ w \notin Reviewers /\ c.session = s /\ c.stage \in BillStages
           /\ Unaccounted(s) => BilledBy(w, s) /\ c.stage \in After[calls[w].stage]

LEMMA OneStepCares ==
    ASSUME PilesSurvive, MarksSucceed, TypeOK, Roles, NEW w \in Workers, Begin(w) \/ Proceed(w) \/ Crash(w)
    PROVE  \E c : calls' = [calls EXCEPT ![w] = c] /\ RoleOK(w, c) /\ Cares(w, c)
<1>. DEFINE s == calls[w].session
<1>t. /\ CallOK(calls[w]) /\ RoleOK(w, calls[w]) /\ calls[w] \in CallRow
      /\ sessions \in [Sessions -> SessionRow] /\ \A u \in Sessions : sessions[u] \in SessionRow
  BY TypeParts DEF Roles, CallOK
<1>s. calls[w].stage \notin {"rest", "insert"} => s \in Sessions
  BY <1>t DEF CallOK, CallRow
\* The calls a step may leave behind.
<1>r. ASSUME calls' = [calls EXCEPT ![w] = AtRest] \/ Return(w)
      PROVE  \E c : calls' = [calls EXCEPT ![w] = c] /\ RoleOK(w, c)
  <2>1. RoleOK(w, AtRest) /\ RoleOK(w, Returned(calls[w]))
    BY <1>t, RestOK, ReturnedOK DEF RoleOK
  <2>. QED  BY <1>r, <2>1, CallSteps
<1>g. ASSUME NEW stage \in BillStages, Goto(w, stage), calls[w].stage \notin {"rest", "insert"}
      PROVE  \E c : calls' = [calls EXCEPT ![w] = c] /\ RoleOK(w, c) /\ c.session = s /\ c.stage = stage
  <2>1. /\ At(calls[w], stage).stage = stage /\ At(calls[w], stage).session = s
        /\ At(calls[w], stage).connector = calls[w].connector
    BY <1>t, <1>g, AtOK DEF BillStages
  <2>2. RoleOK(w, At(calls[w], stage))
    BY <1>t, <2>1 DEF RoleOK, BillStages
  <2>. QED  BY <1>g, <2>1, <2>2, CallSteps
\* Steps of a call that bills nothing, or is a reviewer's, on sessions as they are.
<1>i. ASSUME sessions' = sessions, w \in Reviewers \/ calls[w].stage \notin BillStages
      PROVE  \A c : Cares(w, c)
  BY <1>i DEF Cares, Unaccounted, BilledBy
\* Steps that account for the session, or leave it as accounted for as it was.
<1>a. ASSUME NEW r, sessions' = [sessions EXCEPT ![s] = r], s \in Sessions,
             ~(r.status = "ended" /\ r.review \notin {"pending", "rejected"})
      PROVE  \A c : Cares(w, c)
  BY <1>t, <1>a DEF Cares, Unaccounted, BilledBy
<1>1. ASSUME Begin(w)
      PROVE  \E c : calls' = [calls EXCEPT ![w] = c] /\ RoleOK(w, c) /\ Cares(w, c)
  <2>1. sessions' = sessions /\ calls[w].stage = "rest"
    BY <1>1 DEF Begin, StartRead, StopRead, ReviewRead
  <2>2. \A c : Cares(w, c)
    BY <1>i, <2>1 DEF BillStages
  <2>3. ASSUME w \notin Reviewers, NEW c \in Connectors, StartRead(w, c)
        PROVE  \E d : calls' = [calls EXCEPT ![w] = d] /\ RoleOK(w, d)
    BY <2>3 DEF StartRead, RoleOK, Call
  <2>4. ASSUME w \notin Reviewers, NEW u \in Sessions, StopRead(w, u)
        PROVE  \E d : calls' = [calls EXCEPT ![w] = d] /\ RoleOK(w, d)
    <3>1. RoleOK(w, Call("close", u, NoConnector, FALSE, "none"))
      BY <2>4 DEF RoleOK, Call
    <3>. QED  BY <2>4, <3>1 DEF StopRead
  <2>5. ASSUME w \in Reviewers, NEW u \in Sessions, NEW stage \in {"attribute", "reject"}, ReviewRead(w, u, stage)
        PROVE  \E d : calls' = [calls EXCEPT ![w] = d] /\ RoleOK(w, d)
    <3>1. RoleOK(w, Call(stage, u, NoConnector, FALSE, "approved"))
      BY <2>5 DEF RoleOK, Call
    <3>. QED  BY <2>5, <3>1 DEF ReviewRead
  <2>. QED  BY <1>1, <2>2, <2>3, <2>4, <2>5 DEF Begin
<1>2. ASSUME NEW u \in Sessions, NEW bound \in BOOLEAN, Insert(w, u, bound)
      PROVE  \E c : calls' = [calls EXCEPT ![w] = c] /\ RoleOK(w, c) /\ Cares(w, c)
  <2>1. \A c : Cares(w, c)
    BY <1>t, <1>2 DEF Insert, Cares, Unaccounted, BilledBy, BillStages
  <2>. QED  BY <1>2, <1>r, <2>1 DEF Insert
<1>3. ASSUME InsertRefused(w)
      PROVE  \E c : calls' = [calls EXCEPT ![w] = c] /\ RoleOK(w, c) /\ Cares(w, c)
  <2>1. sessions' = sessions /\ calls[w].stage = "insert" /\ w \notin Reviewers
    BY <1>3, <1>t DEF InsertRefused, RoleOK
  <2>2. \A c : Cares(w, c)
    BY <1>i, <2>1 DEF BillStages
  <2>3. \/ calls' = [calls EXCEPT ![w] = AtRest]
        \/ \E old \in ActiveOn(calls[w].connector) :
               calls' = [calls EXCEPT ![w] = Call("close", old, calls[w].connector, TRUE, "none")]
    BY <1>3, TypeParts DEF InsertRefused
  <2>4. \A old : RoleOK(w, Call("close", old, calls[w].connector, TRUE, "none"))
    BY <2>1 DEF RoleOK, Call
  <2>. QED  BY <1>r, <2>2, <2>3, <2>4
<1>4. ASSUME NEW deviates \in BOOLEAN, Close(w, deviates)
      PROVE  \E c : calls' = [calls EXCEPT ![w] = c] /\ RoleOK(w, c) /\ Cares(w, c)
  <2>1. calls[w].stage = "close" /\ s \in Sessions /\ w \notin Reviewers /\ sessions[s].status = "charging"
    BY <1>4, <1>s, <1>t DEF Close, Closable, Charging, RoleOK
  <2>2. CASE deviates \/ ~sessions[s].bound
    <3>1. PICK r : sessions' = [sessions EXCEPT ![s] = r] /\ r.review = "pending"
      <4>1. sessions' = [sessions EXCEPT ![s] = [sessions[s] EXCEPT !.status = "ended", !.review = "pending"]]
        BY <1>4, <1>t, <2>1, <2>2 DEF Close
      <4>2. [sessions[s] EXCEPT !.status = "ended", !.review = "pending"].review = "pending"
        BY <1>t, <2>1 DEF SessionRow
      <4>. QED  BY <4>1, <4>2
    <3>2. Return(w)
      BY <1>4, <2>2 DEF Close
    <3>. QED  BY <1>a, <1>r, <2>1, <3>1, <3>2
  <2>3. CASE ~(deviates \/ ~sessions[s].bound)
    <3>1. Goto(w, "lookup")
      BY <1>4, <2>3 DEF Close
    <3>2. PICK c : calls' = [calls EXCEPT ![w] = c] /\ RoleOK(w, c) /\ c.session = s /\ c.stage = "lookup"
      BY <1>g, <2>1, <3>1 DEF BillStages
    <3>3. \A u \in Sessions \ {s} : sessions'[u] = sessions[u]
      BY <1>4, <1>t, <2>1 DEF Close
    <3>4. Cares(w, c)
      BY <2>1, <3>2, <3>3 DEF Cares, Unaccounted, BilledBy, BillStages
    <3>. QED  BY <3>2, <3>4
  <2>. QED  BY <2>2, <2>3
<1>5. ASSUME CloseRefused(w) \/ FailUnnoticed(w)
      PROVE  \E c : calls' = [calls EXCEPT ![w] = c] /\ RoleOK(w, c) /\ Cares(w, c)
  <2>1. calls[w].stage = "close" /\ sessions' = sessions /\ Return(w)
    BY <1>5 DEF CloseRefused, FailUnnoticed, MarksSucceed
  <2>2. \A c : Cares(w, c)
    BY <1>i, <2>1 DEF BillStages
  <2>. QED  BY <1>r, <2>1, <2>2
\* A handler that bills goes on, and the session is still its own.
<1>6. ASSUME Lookup(w) \/ Debit(w) \/ Fail(w)
      PROVE  \E c : calls' = [calls EXCEPT ![w] = c] /\ RoleOK(w, c) /\ Cares(w, c)
  <2>1. PICK stage \in BillStages : Goto(w, stage) /\ calls[w].stage \in BillStages /\ stage \in After[calls[w].stage]
    BY <1>6, FailAtAssumption DEF Lookup, Debit, Fail, BillStages, After
  <2>2. sessions' = sessions /\ s \in Sessions
    BY <1>6, <1>s, <2>1 DEF Lookup, Debit, Fail, BillStages
  <2>3. PICK c : calls' = [calls EXCEPT ![w] = c] /\ RoleOK(w, c) /\ c.session = s /\ c.stage = stage
    BY <1>g, <2>1 DEF BillStages
  <2>4. Cares(w, c)
    BY <2>1, <2>2, <2>3 DEF Cares, Unaccounted, BilledBy
  <2>. QED  BY <2>3, <2>4
\* The last statement accounts for it.
<1>7. ASSUME Settle(w) \/ Queue(w) \/ Reject(w)
      PROVE  \E c : calls' = [calls EXCEPT ![w] = c] /\ RoleOK(w, c) /\ Cares(w, c)
  <2>1. Return(w) /\ s \in Sessions
    BY <1>7, <1>s DEF Settle, Queue, Reject
  <2>2. PICK r : sessions' = [sessions EXCEPT ![s] = r] /\ ~(r.status = "ended" /\ r.review \notin {"pending", "rejected"})
    <3>1. CASE Settle(w)
      <4>1. [sessions[s] EXCEPT !.status = "settled", !.review = calls[w].verdict, !.billed = TRUE].status = "settled"
        BY <1>t, <2>1 DEF SessionRow
      <4>2. sessions' = [sessions EXCEPT ![s] =
                            [sessions[s] EXCEPT !.status = "settled", !.review = calls[w].verdict, !.billed = TRUE]]
        BY <1>t, <2>1, <3>1 DEF Settle
      <4>. QED  BY <4>1, <4>2
    <3>2. CASE Queue(w)
      <4>1. sessions' = [sessions EXCEPT ![s] = Queued(sessions[s])]
        BY <1>t, <2>1, <3>2 DEF Queue
      <4>2. ~(Queued(sessions[s]).status = "ended" /\ Queued(sessions[s]).review \notin {"pending", "rejected"})
        BY <1>t, <2>1 DEF Queued, SessionRow
      <4>. QED  BY <4>1, <4>2
    <3>3. CASE Reject(w)
      <4>1. [sessions[s] EXCEPT !.status = "ended", !.review = "rejected", !.billed = FALSE].review = "rejected"
        BY <1>t, <2>1 DEF SessionRow
      <4>2. sessions' = [sessions EXCEPT ![s] = [sessions[s] EXCEPT !.status = "ended", !.review = "rejected", !.billed = FALSE]]
        BY <1>t, <2>1, <3>3 DEF Reject
      <4>. QED  BY <4>1, <4>2
    <3>. QED  BY <1>7, <3>1, <3>2, <3>3
  <2>. QED  BY <1>a, <1>r, <2>1, <2>2
<1>8. ASSUME NEW bound \in BOOLEAN, Attribute(w, bound)
      PROVE  \E c : calls' = [calls EXCEPT ![w] = c] /\ RoleOK(w, c) /\ Cares(w, c)
  <2>1. calls[w].stage = "attribute" /\ s \in Sessions /\ w \in Reviewers
    BY <1>8, <1>s, <1>t DEF Attribute, RoleOK
  <2>2. sessions' = [sessions EXCEPT ![s] = [sessions[s] EXCEPT !.bound = bound \/ sessions[s].bound]]
    BY <1>8, <1>t, <2>1 DEF Attribute
  <2>3. \A u \in Sessions : sessions'[u].status = sessions[u].status /\ sessions'[u].review = sessions[u].review
    BY <1>t, <2>1, <2>2 DEF SessionRow
  <2>4. \A c : Cares(w, c)
    BY <2>1, <2>3 DEF Cares, Unaccounted
  <2>. QED  BY <1>8, <1>g, <2>1, <2>4 DEF Attribute, BillStages
<1>9. ASSUME Crash(w)
      PROVE  \E c : calls' = [calls EXCEPT ![w] = c] /\ RoleOK(w, c) /\ Cares(w, c)
  <2>1. \A c : Cares(w, c)
    BY <1>i, <1>9 DEF Crash, PilesSurvive
  <2>. QED  BY <1>9, <1>r, <2>1 DEF Crash
<1>. HIDE DEF s
<1>. QED  BY <1>1, <1>2, <1>3, <1>4, <1>5, <1>6, <1>7, <1>8, <1>9 DEF Proceed

OwnerInv == TypeOK /\ Roles /\ Owned

LEMMA OwnerInit == Init => OwnerInv
<1>. SUFFICES ASSUME Init PROVE OwnerInv
  OBVIOUS
<1>1. Roles
  BY RestOK DEF Init, Roles, RoleOK
<1>2. Owned
  BY DEF Init, Owned, Unaccounted
<1>. QED  BY <1>1, <1>2, InvInit DEF OwnerInv, ChargeInv

LEMMA OwnerNext == ASSUME PilesSurvive, MarksSucceed PROVE OwnerInv /\ TypeOK' /\ [Next]_vars => OwnerInv'
<1>. SUFFICES ASSUME OwnerInv, TypeOK', [Next]_vars PROVE Roles' /\ Owned'
  BY DEF OwnerInv
<1>t. calls \in [Workers -> CallRow]
  BY DEF OwnerInv, TypeOK
<1>1. ASSUME NEW w \in Workers, Begin(w) \/ Proceed(w) \/ Crash(w)
      PROVE  Roles' /\ Owned'
  <2>1. PICK c : calls' = [calls EXCEPT ![w] = c] /\ RoleOK(w, c) /\ Cares(w, c)
    BY <1>1, OneStepCares DEF OwnerInv
  <2>2. \A x \in Workers : calls'[x] = IF x = w THEN c ELSE calls[x]
    BY <1>t, <2>1
  <2>3. Roles'
    <3>1. \A x \in Workers : RoleOK(x, calls'[x])
      BY <2>1, <2>2 DEF OwnerInv, Roles
    <3>. QED  BY <3>1 DEF Roles, RoleOK
  <2>4. ASSUME NEW s \in Sessions, Unaccounted(s)'
        PROVE  \E x \in Workers \ Reviewers : BilledBy(x, s)'
    <3>1. CASE Unaccounted(s) /\ (w \in Reviewers \/ ~BilledBy(w, s))
      <4>1. PICK x \in Workers \ Reviewers : BilledBy(x, s)
        BY <3>1 DEF OwnerInv, Owned
      <4>. QED  BY <2>2, <3>1, <4>1 DEF BilledBy
    <3>2. CASE w \notin Reviewers /\ c.session = s /\ c.stage \in BillStages
      BY <2>2, <3>2 DEF BilledBy
    <3>. QED  BY <2>1, <2>4, <3>1, <3>2 DEF Cares
  <2>. QED  BY <2>3, <2>4 DEF Owned
<1>2. CASE UNCHANGED vars
  BY <1>2 DEF vars, OwnerInv, Roles, RoleOK, Owned, Unaccounted, BilledBy
<1>. QED  BY <1>1, <1>2 DEF Next

\* A session that has ended and shows no review has a handler billing it.
LEMMA OwnerInvariance == ASSUME PilesSurvive, MarksSucceed PROVE Spec => []OwnerInv
  BY OwnerInit, OwnerNext, TypeCorrect, PTL DEF Spec

\* What a server that carries on its handlers does for a call that bills.
CarriesOn(w) == []<>(calls[w].stage \notin BillStages) \/ []<><<Proceed(w)>>_vars

\* It is what FairSpec's weak fairness says of such a call: Lookup, Debit,
\* Settle and Queue have no guard but their stage, so one of them is enabled.
LEMMA WeakFairnessCarriesOn ==
    ASSUME NEW w \in Workers
    PROVE  WF_vars(Proceed(w)) /\ [](calls[w].stage \in BillStages => ENABLED <<Proceed(w)>>_vars) => CarriesOn(w)
<1>1. ~(calls[w].stage \notin BillStages) <=> calls[w].stage \in BillStages
  OBVIOUS
<1>. QED  BY <1>1, PTL DEF CarriesOn

\* The call of w that bills s is at this stage, and s is not accounted for.
Bills_s(w, s, stage) == Unaccounted(s) /\ calls[w].session = s /\ calls[w].stage = stage

\* One step of the session: the call of its pile keeps it, and only moves on.
LEMMA BillMovesOn ==
    ASSUME PilesSurvive, MarksSucceed, NEW w \in Workers \ Reviewers, NEW s \in Sessions, NEW stage \in BillStages,
           OwnerInv, [Next]_vars, Bills_s(w, s, stage), Unaccounted(s)'
    PROVE  /\ Bills_s(w, s, stage)' \/ \E later \in After[stage] : Bills_s(w, s, later)'
           /\ Proceed(w) /\ vars' # vars => \E later \in After[stage] : Bills_s(w, s, later)'
<1>t. calls \in [Workers -> CallRow]
  BY DEF OwnerInv, TypeOK
<1>p. ASSUME NEW x \in Workers, Begin(x) \/ Proceed(x) \/ Crash(x)
      PROVE  IF x = w THEN \E later \in After[stage] : Bills_s(w, s, later)' ELSE Bills_s(w, s, stage)'
  <2>1. PICK c : calls' = [calls EXCEPT ![x] = c] /\ RoleOK(x, c) /\ Cares(x, c)
    BY <1>p, OneStepCares DEF OwnerInv
  <2>2. CASE x = w
    <3>1. c.session = s /\ c.stage \in After[stage]
      BY <2>1, <2>2 DEF Cares, Bills_s, BilledBy
    <3>. QED  BY <1>t, <2>1, <2>2, <3>1 DEF Bills_s
  <2>3. CASE x # w
    BY <1>t, <2>1, <2>3 DEF Bills_s
  <2>. QED  BY <2>2, <2>3
<1>1. CASE UNCHANGED vars
  BY <1>1 DEF vars, Bills_s, Unaccounted
<1>2. CASE Next
  BY <1>2, <1>p DEF Next
<1>3. Proceed(w) => \E later \in After[stage] : Bills_s(w, s, later)'
  BY <1>p
<1>. QED  BY <1>1, <1>2, <1>3

\* Stage by stage, the call of a fair pile accounts for its session.
LEMMA OneCallAccounts ==
    ASSUME PilesSurvive, MarksSucceed, NEW w \in Workers \ Reviewers, NEW s \in Sessions
    PROVE  []OwnerInv /\ [][Next]_vars /\ CarriesOn(w)
               => (Unaccounted(s) /\ BilledBy(w, s) ~> ~Unaccounted(s))
<1>. DEFINE Lookup_s == Bills_s(w, s, "lookup")
            Debit_s  == Bills_s(w, s, "debit")
            Settle_s == Bills_s(w, s, "settle")
            Queue_s  == Bills_s(w, s, "queue")
            Step     == Proceed(w) /\ vars' # vars
<1>1. OwnerInv /\ [Next]_vars /\ Lookup_s =>
          /\ Lookup_s' \/ Debit_s' \/ Settle_s' \/ Queue_s' \/ ~Unaccounted(s)'
          /\ Step => Debit_s' \/ Settle_s' \/ Queue_s' \/ ~Unaccounted(s)'
  BY BillMovesOn DEF BillStages, After
<1>2. OwnerInv /\ [Next]_vars /\ Debit_s =>
          /\ Debit_s' \/ Settle_s' \/ Queue_s' \/ ~Unaccounted(s)'
          /\ Step => Settle_s' \/ Queue_s' \/ ~Unaccounted(s)'
  BY BillMovesOn DEF BillStages, After
<1>3. OwnerInv /\ [Next]_vars /\ Settle_s =>
          /\ Settle_s' \/ Queue_s' \/ ~Unaccounted(s)'
          /\ Step => Queue_s' \/ ~Unaccounted(s)'
  BY BillMovesOn DEF BillStages, After
<1>4. OwnerInv /\ [Next]_vars /\ Queue_s =>
          /\ Queue_s' \/ ~Unaccounted(s)'
          /\ Step => ~Unaccounted(s)'
  BY BillMovesOn DEF BillStages, After
<1>5. Unaccounted(s) /\ BilledBy(w, s) => Lookup_s \/ Debit_s \/ Settle_s \/ Queue_s
  BY DEF BilledBy, BillStages, Bills_s
<1>6. Lookup_s \/ Debit_s \/ Settle_s \/ Queue_s => ~(calls[w].stage \notin BillStages)
  BY DEF BillStages, Bills_s
<1>7. <<Proceed(w)>>_vars => Step
  OBVIOUS
<1>. HIDE DEF Lookup_s, Debit_s, Settle_s, Queue_s, Step
<1>. QED  BY <1>1, <1>2, <1>3, <1>4, <1>5, <1>6, <1>7, PTL DEF CarriesOn

\* A session that has ended does not charge again.
LEMMA EndedStaysClosed ==
    ASSUME TypeOK, NEW s \in Sessions, sessions[s].status = "ended", [Next]_vars
    PROVE  sessions'[s].status \in {"ended", "settled"}
<1>t. /\ sessions \in [Sessions -> SessionRow] /\ sessions[s] \in SessionRow
      /\ \A u : sessions[u].status # "ended" => u # s
  BY DEF TypeOK
<1>1. ASSUME NEW w \in Workers, Begin(w) PROVE sessions' = sessions
  BY <1>1 DEF Begin, StartRead, StopRead, ReviewRead
<1>2. ASSUME NEW w \in Workers, NEW u \in Sessions, NEW bound \in BOOLEAN, Insert(w, u, bound)
      PROVE  sessions'[s].status \in {"ended", "settled"}
  BY <1>2, <1>t DEF Insert
<1>3. ASSUME NEW w \in Workers, NEW deviates \in BOOLEAN, Close(w, deviates)
      PROVE  sessions'[s].status \in {"ended", "settled"}
  BY <1>3, <1>t DEF Close, Closable, Charging
<1>4. ASSUME NEW w \in Workers,
             \/ InsertRefused(w) \/ CloseRefused(w) \/ Lookup(w) \/ Debit(w)
             \/ Fail(w) \/ FailUnnoticed(w) \/ Crash(w)
      PROVE  sessions' = sessions
  BY <1>4 DEF InsertRefused, CloseRefused, Lookup, Debit, Fail, FailUnnoticed, Crash
<1>5. ASSUME NEW w \in Workers, Settle(w) \/ Queue(w) \/ Reject(w)
      PROVE  sessions'[s].status \in {"ended", "settled"}
  <2>1. CASE calls[w].session # s
    BY <1>5, <1>t, <2>1 DEF Settle, Queue, Reject
  <2>2. CASE calls[w].session = s
    <3>1. \A verdict : [sessions[s] EXCEPT !.status = "settled", !.review = verdict, !.billed = TRUE].status = "settled"
      BY <1>t DEF SessionRow
    <3>2. [sessions[s] EXCEPT !.status = "ended", !.review = "rejected", !.billed = FALSE].status = "ended"
      BY <1>t DEF SessionRow
    <3>3. Queued(sessions[s]).status = "ended"
      BY <1>t DEF SessionRow, Queued
    <3>4. CASE Settle(w)
      <4>1. sessions' = [sessions EXCEPT ![s] =
                            [sessions[s] EXCEPT !.status = "settled", !.review = calls[w].verdict, !.billed = TRUE]]
        BY <1>t, <2>2, <3>4 DEF Settle
      <4>. QED  BY <1>t, <3>1, <4>1
    <3>5. CASE Queue(w)
      <4>1. sessions' = [sessions EXCEPT ![s] = Queued(sessions[s])]
        BY <1>t, <2>2, <3>5 DEF Queue
      <4>. QED  BY <1>t, <3>3, <4>1
    <3>6. CASE Reject(w)
      <4>1. sessions' = [sessions EXCEPT ![s] = [sessions[s] EXCEPT !.status = "ended", !.review = "rejected", !.billed = FALSE]]
        BY <1>t, <2>2, <3>6 DEF Reject
      <4>. QED  BY <1>t, <3>2, <4>1
    <3>. QED  BY <1>5, <3>4, <3>5, <3>6
  <2>. QED  BY <2>1, <2>2
<1>6. ASSUME NEW w \in Workers, NEW bound \in BOOLEAN, Attribute(w, bound)
      PROVE  sessions'[s].status \in {"ended", "settled"}
  BY <1>6, <1>t DEF Attribute, SessionRow
<1>7. CASE UNCHANGED vars
  BY <1>7 DEF vars
<1>. QED  BY <1>1, <1>2, <1>3, <1>4, <1>5, <1>6, <1>7 DEF Next, Proceed

\* Energy taken is energy accounted for: with piles whose handlers survive and
\* carry on, and whose marks for review do not fail, a session that has ended is
\* settled, comes up for review or was rejected there, for any number of
\* reviewers, whichever other statements fail.  The box is what weak fairness is
\* worth at every point of a behaviour.
THEOREM EndedSessionsAccountedFor ==
    ASSUME PilesSurvive, MarksSucceed
    PROVE  Spec /\ [](\A w \in Workers : CarriesOn(w)) => EndedIsAccountedFor
<1>. DEFINE Fair == \A w \in Workers : CarriesOn(w)
            H    == []OwnerInv /\ [][Next]_vars /\ []Fair
<1>1. ASSUME NEW s \in Sessions
      PROVE  H => (sessions[s].status = "ended" ~>
                       (sessions[s].status = "settled" \/ sessions[s].review \in {"pending", "rejected"}))
  <2>. DEFINE Accounted == sessions[s].status = "settled" \/ sessions[s].review \in {"pending", "rejected"}
  <2>1. ASSUME NEW w \in Workers \ Reviewers
        PROVE  H => (Unaccounted(s) /\ BilledBy(w, s) => <>~Unaccounted(s))
    <3>1. Fair => CarriesOn(w)
      OBVIOUS
    <3>. QED  BY <3>1, OneCallAccounts, PTL
  <2>2. H => \A w \in Workers \ Reviewers : (Unaccounted(s) /\ BilledBy(w, s) => <>~Unaccounted(s))
    BY <2>1
  <2>3. OwnerInv => (Unaccounted(s) => \E w \in Workers \ Reviewers : Unaccounted(s) /\ BilledBy(w, s))
    BY DEF OwnerInv, Owned
  <2>4. H /\ OwnerInv => (Unaccounted(s) => <>~Unaccounted(s))
    BY <2>2, <2>3
  <2>5. OwnerInv /\ [Next]_vars => (Unaccounted(s) => Unaccounted(s)' \/ Accounted')
    BY EndedStaysClosed DEF OwnerInv, Unaccounted
  <2>6. sessions[s].status = "ended" => Unaccounted(s) \/ Accounted
    BY DEF Unaccounted
  <2>. HIDE DEF Accounted
  <2>7. H => (sessions[s].status = "ended" ~> Accounted)
    BY <2>4, <2>5, <2>6, PTL
  <2>. QED  BY <2>7 DEF Accounted
<1>2. H => EndedIsAccountedFor
  BY <1>1 DEF EndedIsAccountedFor
<1>. QED  BY <1>2, OwnerInvariance, PTL DEF Spec
=============================================================================
