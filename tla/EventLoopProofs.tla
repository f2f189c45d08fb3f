--------------------------- MODULE EventLoopProofs ---------------------------
(***************************************************************************)
(* Proofs about EventLoop for every value of its constants: any number of  *)
(* orders, any capacities, any fees, crashes at any point of the loop.     *)
(*                                                                         *)
(* Invariant, the conjunction of two properties, is inductive.  The mirror  *)
(* of the book needs TypeOK for its indices.  That two orders of the book  *)
(* never share a slot follows from the mirror, and is what lets a write to *)
(* one slot leave the other orders' copies alone.                          *)
(***************************************************************************)
EXTENDS EventLoop, Functions, FiniteSetTheorems, WellFoundedInduction, TLAPS

Invariant == TypeOK /\ SlotMirrorsBook

-----------------------------------------------------------------------------
(* Arithmetic and sequences.                                               *)

\* Products and sums of natural numbers are natural numbers (order values).
LEMMA NatProduct == ASSUME NEW a \in Nat, NEW b \in Nat PROVE a * b \in Nat
  OBVIOUS

\* A queue of slot indices stays one when the pool grows.
LEMMA SeqMonotone ==
  ASSUME NEW S, NEW T, S \subseteq T, NEW s \in Seq(S)
  PROVE  s \in Seq(T)
  OBVIOUS

\* The head and the tail of a queue that is not empty (try_pop).
LEMMA HeadTail ==
  ASSUME NEW S, NEW s \in Seq(S), s # <<>>
  PROVE  Head(s) \in S /\ Tail(s) \in Seq(S)
  OBVIOUS

\* An element of a sequence (a slot).
LEMMA ElementType ==
  ASSUME NEW S, NEW s \in Seq(S), NEW i \in DOMAIN s
  PROVE  s[i] \in S
  OBVIOUS

\* Replacing one element keeps a sequence's type and domain (a slot update).
LEMMA UpdateElement ==
  ASSUME NEW S, NEW s \in Seq(S), NEW i \in DOMAIN s, NEW v \in S
  PROVE  /\ [s EXCEPT ![i] = v] \in Seq(S)
         /\ DOMAIN [s EXCEPT ![i] = v] = DOMAIN s
  OBVIOUS

\* Appending keeps the elements there were (orders_shm_append).
LEMMA AppendKeeps ==
  ASSUME NEW S, NEW s \in Seq(S), NEW v \in S
  PROVE  /\ Append(s, v) \in Seq(S)
         /\ DOMAIN s \subseteq DOMAIN Append(s, v)
         /\ \A i \in DOMAIN s : Append(s, v)[i] = s[i]
         /\ Len(s) + 1 \in DOMAIN Append(s, v)
  OBVIOUS

-----------------------------------------------------------------------------
(* The fund row: every operation keeps its type.                           *)

\* freeze_fund keeps the row legal.
LEMMA FreezeFundSafe ==
  ASSUME NEW f \in Fund, NEW amount \in Nat, CanFreezeFund(f, amount)
  PROVE  FreezeFund(f, amount) \in Fund
  BY MaxDValueAssumption DEF Fund, DValue, CanFreezeFund, FreezeFund, Row

\* So does unfreeze_fund.
LEMMA UnfreezeFundSafe ==
  ASSUME NEW f \in Fund, NEW amount \in Nat, CanUnfreezeFund(f, amount)
  PROVE  UnfreezeFund(f, amount) \in Fund
  BY MaxDValueAssumption DEF Fund, DValue, CanUnfreezeFund, UnfreezeFund, Row

\* So does deduct_fund: the cost turns into market value, the fee leaves the assets.
LEMMA DeductFundSafe ==
  ASSUME NEW f \in Fund, NEW amount \in Nat, NEW fee \in Nat, CanDeductFund(f, amount, fee)
  PROVE  DeductFund(f, amount, fee) \in Fund
  BY MaxDValueAssumption DEF Fund, DValue, CanDeductFund, DeductFund, Row, Less

\* So does apply_buy_trade_fund.
LEMMA ApplyBuyTradeFundSafe ==
  ASSUME NEW f \in Fund, NEW amount \in Nat, NEW fee \in Nat, CanApplyBuyTradeFund(f, amount, fee)
  PROVE  ApplyBuyTradeFund(f, amount, fee) \in Fund
  BY MaxDValueAssumption DEF Fund, DValue, CanApplyBuyTradeFund, ApplyBuyTradeFund, Row, Less

\* So does apply_sell_trade_fund, although a sale above the market value only clears it.
LEMMA ApplySellTradeFundSafe ==
  ASSUME NEW f \in Fund, NEW amount \in Nat, NEW fee \in Nat, CanApplySellTradeFund(f, amount, fee)
  PROVE  ApplySellTradeFund(f, amount, fee) \in Fund
  BY MaxDValueAssumption DEF Fund, DValue, CanApplySellTradeFund, ApplySellTradeFund, Row, Less

-----------------------------------------------------------------------------
(* The order book beside the fund row.                                     *)

\* A service state with the orders of D, in a legal state.
Account(a, D) ==
  /\ a.book \in [D -> Entry]
  /\ a.fund \in Fund
 

\* Same orders in the same slots; only money may differ.
SameOrders(a, b, D) ==
  \A id \in D : a.book[id].request = b.book[id].request /\ a.book[id].index = b.book[id].index

\* release_order_resources moves money only.
LEMMA ReleaseOrderResourcesSafe ==
  ASSUME NEW a, NEW D, Account(a, D), NEW id \in D
  PROVE  /\ Account(ReleaseOrderResources(a, id), D)
         /\ SameOrders(ReleaseOrderResources(a, id), a, D)
<1> DEFINE e == a.book[id]
<1>1. e \in Entry /\ e.fund_frozen \in Nat
  BY MaxDValueAssumption DEF Account, Entry, DValue
<1>2. CASE IsNewBuy(e.request) /\ e.fund_frozen # 0 /\ CanUnfreezeFund(a.fund, e.fund_frozen)
  <2> DEFINE b == [a.book EXCEPT ![id].fund_frozen = 0]
  <2>1. ReleaseOrderResources(a, id) = [book |-> b, fund |-> UnfreezeFund(a.fund, e.fund_frozen)]
    BY <1>2 DEF ReleaseOrderResources
  <2>2. b \in [D -> Entry] /\ \A i \in D : b[i].request = a.book[i].request /\ b[i].index = a.book[i].index
    BY <1>1, MaxDValueAssumption DEF Account, Entry, DValue
  <2>3. UnfreezeFund(a.fund, e.fund_frozen) \in Fund
    BY <1>1, <1>2, UnfreezeFundSafe DEF Account
  <2> QED BY <2>1, <2>2, <2>3 DEF Account, SameOrders
<1>3. CASE ~ (IsNewBuy(e.request) /\ e.fund_frozen # 0 /\ CanUnfreezeFund(a.fund, e.fund_frozen))
  BY <1>3 DEF ReleaseOrderResources, SameOrders
<1> QED BY <1>2, <1>3

\* A trade of a known order is settled without touching orders or slots.
LEMMA SettleTradeFundSafe ==
  ASSUME NEW a, NEW D, Account(a, D), NEW r \in TradeResponse, r.internal_order_id \in D
  PROVE  /\ Account(SettleTradeFund(a, r), D)
         /\ SameOrders(SettleTradeFund(a, r), a, D)
<1> DEFINE id == r.internal_order_id
           amount == r.dvalue_traded
           fee == r.dfee
           frozen == a.book[id].fund_frozen
<1>1. amount \in Nat /\ fee \in Nat /\ frozen \in DValue /\ a.book \in [D -> Entry]
  BY DEF TradeResponse, Account, Entry
<1>2. Account(a, D) /\ SameOrders(a, a, D)
  BY DEF SameOrders
<1>3. Account(SettleBuyTradeFund(a, r), D) /\ SameOrders(SettleBuyTradeFund(a, r), a, D)
  <2>1. CASE frozen = 0 /\ CanApplyBuyTradeFund(a.fund, amount, fee)
    <3>1. SettleBuyTradeFund(a, r) = [book |-> a.book, fund |-> ApplyBuyTradeFund(a.fund, amount, fee)]
      BY <2>1 DEF SettleBuyTradeFund
    <3>2. ApplyBuyTradeFund(a.fund, amount, fee) \in Fund
      BY <1>1, <2>1, ApplyBuyTradeFundSafe DEF Account
    <3> QED BY <1>1, <3>1, <3>2 DEF Account, SameOrders
  <2>2. CASE frozen # 0 /\ CanDeductFund(a.fund, amount, fee)
    <3> DEFINE left == Less(frozen, amount + fee)
               b == [a.book EXCEPT ![id].fund_frozen = left]
    <3>1. SettleBuyTradeFund(a, r) = [book |-> b, fund |-> DeductFund(a.fund, amount, fee)]
      BY <2>2 DEF SettleBuyTradeFund
    <3>2. DeductFund(a.fund, amount, fee) \in Fund
      BY <1>1, <2>2, DeductFundSafe DEF Account
    <3>3. left \in DValue
      BY <1>1, MaxDValueAssumption DEF DValue, Less
    <3> HIDE DEF left
    <3>4. b \in [D -> Entry] /\ \A i \in D : b[i].request = a.book[i].request /\ b[i].index = a.book[i].index
      BY <1>1, <3>3 DEF Entry
    <3> QED BY <3>1, <3>2, <3>4 DEF Account, SameOrders
  <2>3. CASE /\ ~ (frozen = 0 /\ CanApplyBuyTradeFund(a.fund, amount, fee))
             /\ ~ (frozen # 0 /\ CanDeductFund(a.fund, amount, fee))
    <3>1. SettleBuyTradeFund(a, r) = a
      BY <2>3 DEF SettleBuyTradeFund
    <3> QED BY <1>2, <3>1
  <2> QED BY <2>1, <2>2, <2>3
<1>4. Account(SettleSellTradeFund(a, r), D) /\ SameOrders(SettleSellTradeFund(a, r), a, D)
  <2>1. CASE CanApplySellTradeFund(a.fund, amount, fee)
    <3>1. SettleSellTradeFund(a, r) = [book |-> a.book, fund |-> ApplySellTradeFund(a.fund, amount, fee)]
      BY <2>1 DEF SettleSellTradeFund
    <3>2. ApplySellTradeFund(a.fund, amount, fee) \in Fund
      BY <1>1, <2>1, ApplySellTradeFundSafe DEF Account
    <3> QED BY <1>1, <3>1, <3>2 DEF Account, SameOrders
  <2>2. CASE ~ CanApplySellTradeFund(a.fund, amount, fee)
    BY <1>2, <2>2 DEF SettleSellTradeFund
  <2> QED BY <2>1, <2>2
<1> QED BY <1>2, <1>3, <1>4 DEF SettleTradeFund

\* The end of an order, or of a cancel, moves money only.
LEMMA ReleaseFinishedSafe ==
  ASSUME NEW a, Account(a, DOMAIN book), NEW id \in DOMAIN book
  PROVE  /\ Account(ReleaseFinished(a, id), DOMAIN book)
         /\ SameOrders(ReleaseFinished(a, id), a, DOMAIN book)
<1> DEFINE q == a.book[id].request
           own == ReleaseOrderResources(a, id)
           both == ReleaseOrderResources(own, q.orig_internal_order_id)
<1>1. Account(own, DOMAIN book) /\ SameOrders(own, a, DOMAIN book)
  BY ReleaseOrderResourcesSafe
<1> HIDE DEF own
<1>2. ASSUME q.orig_internal_order_id \in DOMAIN book
      PROVE  Account(both, DOMAIN book) /\ SameOrders(both, a, DOMAIN book)
  <2>1. Account(both, DOMAIN book) /\ SameOrders(both, own, DOMAIN book)
    BY <1>1, <1>2, ReleaseOrderResourcesSafe
  <2> HIDE DEF both
  <2> QED BY <1>1, <2>1 DEF SameOrders
<1> HIDE DEF both
<1>3. SameOrders(a, a, DOMAIN book)
  BY DEF SameOrders
<1>4. ReleaseFinished(a, id) \in {a, own} \/ (ReleaseFinished(a, id) = both /\ q.orig_internal_order_id \in DOMAIN book)
  BY DEF ReleaseFinished, own, both
<1> QED BY <1>1, <1>2, <1>3, <1>4

\* A state change keeps a request well formed and under its id.
LEMMA UpdateStateType ==
  ASSUME NEW q \in Request, NEW state \in OrderState
  PROVE  /\ UpdateState(q, state) \in Request
         /\ UpdateState(q, state).internal_order_id = q.internal_order_id
         /\ UpdateState(q, state).order_type = q.order_type
         /\ UpdateState(q, state).order_state = state
  BY DEF UpdateState, Request

\* So does the fee estimate.
LEMMA PrepareOrderEstimateType ==
  ASSUME NEW q \in Request
  PROVE  /\ PrepareOrderEstimate(q) \in Request
         /\ PrepareOrderEstimate(q).internal_order_id = q.internal_order_id
<1>1. CASE OrderValue(q) \in DValue
  <2>1. q.trade_side \in TradeSide
    BY DEF Request
  <2>2. CalculateFee(q.trade_side, OrderValue(q)) \in Nat
    BY <1>1, <2>1, AccountAssumption
  <2> QED BY <2>2 DEF PrepareOrderEstimate, Request
<1>2. CASE OrderValue(q) \notin DValue
  BY <1>2 DEF PrepareOrderEstimate
<1> QED BY <1>1, <1>2

\* And a response, with or without a trade.
LEMMA ReportedType ==
  ASSUME NEW q \in Request, NEW r \in TradeResponse
  PROVE  /\ Reported(q, r) \in Request
         /\ Reported(q, r).internal_order_id = q.internal_order_id
<1> DEFINE u == UpdateState(q, r.new_state)
           t == CountTraded(u, r.volume_traded)
           c == CountRemaining(t, r.volume_traded)
           f == UpdateState(c, "Finished")
<1>1. r.new_state \in OrderState /\ r.volume_traded \in Nat /\ "Finished" \in OrderState
  BY DEF TradeResponse, OrderState
<1>2. u \in Request /\ u.internal_order_id = q.internal_order_id
  BY <1>1, UpdateStateType
<1> HIDE DEF u
<1>3. t \in Request /\ t.internal_order_id = q.internal_order_id
  BY <1>1, <1>2 DEF CountTraded, Request
<1> HIDE DEF t
<1>4. c \in Request /\ c.internal_order_id = q.internal_order_id
  BY <1>1, <1>3 DEF CountRemaining, Request, Less
<1> HIDE DEF c
<1>5. f \in Request /\ f.internal_order_id = q.internal_order_id
  BY <1>1, <1>4, UpdateStateType
<1> HIDE DEF f
<1>6. Reported(q, r) \in {u, c, f}
  BY DEF Reported, UpdateTrade, u, t, c, f
<1> QED BY <1>2, <1>4, <1>5, <1>6

\* What recovery rebuilds keeps its id, and rebuilding twice changes nothing more.
LEMMA RecoveredRequestType ==
  ASSUME NEW q \in Request
  PROVE  /\ RecoveredRequest(q) \in Request
         /\ RecoveredRequest(q).internal_order_id = q.internal_order_id
         /\ RecoveredRequest(RecoveredRequest(q)) = RecoveredRequest(q)
<1> DEFINE w == [q EXCEPT !.volume_remain = q.volume_entrust - q.volume_traded]
<1>1. CASE q.order_type = "New" /\ q.volume_remain = 0 /\ q.volume_entrust >= q.volume_traded
  <2>1. RecoveredRequest(q) = w
    BY <1>1 DEF RecoveredRequest
  <2>2. /\ w \in Request /\ w.internal_order_id = q.internal_order_id
        /\ w.volume_entrust = q.volume_entrust /\ w.volume_traded = q.volume_traded
        /\ w.volume_remain = q.volume_entrust - q.volume_traded
    BY <1>1 DEF Request
  <2>3. [w EXCEPT !.volume_remain = w.volume_entrust - w.volume_traded] = w
    <3> HIDE DEF w
    <3> QED BY <2>2 DEF Request
  <2>4. RecoveredRequest(w) = w
    <3> HIDE DEF w
    <3> QED BY <2>3 DEF RecoveredRequest
  <2> QED BY <2>1, <2>2, <2>4
<1>2. CASE ~ (q.order_type = "New" /\ q.volume_remain = 0 /\ q.volume_entrust >= q.volume_traded)
  BY <1>2 DEF RecoveredRequest
<1> QED BY <1>1, <1>2

\* handle_trade_response on the book and the fund row: the response's order is
\* updated, every other order keeps its request and its slot.
LEMMA SettledSafe ==
  ASSUME Invariant, NEW r \in TradeResponse, r.internal_order_id \in DOMAIN book
  PROVE  LET id == r.internal_order_id
             a == Settled(r)
         IN /\ Account(a, DOMAIN book)
            /\ a.book[id].request = Reported(book[id].request, r)
            /\ \A i \in DOMAIN book : a.book[i].index = book[i].index
            /\ \A i \in DOMAIN book \ {id} : a.book[i].request = book[i].request
<1> DEFINE id == r.internal_order_id
           q == Reported(book[id].request, r)
           b == [book EXCEPT ![id].request = q]
           a0 == [book |-> b, fund |-> fund]
           a1 == SettleTradeFund(a0, r)
           a2 == ReleaseFinished(a1, id)
<1>1. book \in [DOMAIN book -> Entry] /\ fund \in Fund
  BY DEF Invariant, TypeOK
<1>2. q \in Request
  BY <1>1, ReportedType DEF Entry
<1> HIDE DEF q
<1>3. /\ b \in [DOMAIN book -> Entry]
      /\ b[id].request = q
      /\ \A i \in DOMAIN book : b[i].index = book[i].index
      /\ \A i \in DOMAIN book \ {id} : b[i].request = book[i].request
  BY <1>1, <1>2 DEF Entry
<1> HIDE DEF b
<1>4. Account(a0, DOMAIN book) /\ a0.book = b
  BY <1>1, <1>3 DEF Account
<1> HIDE DEF a0
<1>5. Account(a1, DOMAIN book) /\ SameOrders(a1, a0, DOMAIN book)
  BY <1>4, SettleTradeFundSafe
<1> HIDE DEF a1
<1>6. Account(a2, DOMAIN book) /\ SameOrders(a2, a1, DOMAIN book)
  BY <1>5, ReleaseFinishedSafe
<1> HIDE DEF a2
<1>7. Settled(r) = a2
  BY DEF Settled, a2, a1, a0, b, q
<1> QED BY <1>3, <1>4, <1>5, <1>6, <1>7 DEF SameOrders, q

-----------------------------------------------------------------------------
(* Slots.                                                                  *)

\* The slot an entry points to carries that entry's id, so two orders of the book
\* never share a slot.
LEMMA SlotOwner ==
  ASSUME Invariant, NEW id \in DOMAIN book
  PROVE  slots[book[id].index].request.internal_order_id = id
<1>1. book[id].index \in DOMAIN slots /\ slots \in Seq(Slot) /\ book[id].request \in Request
  BY DEF Invariant, TypeOK, Entry
<1>2. slots[book[id].index] \in Slot
  BY <1>1, ElementType
<1>3. slots[book[id].index].request \in Request
  BY <1>2 DEF Slot
<1> QED BY <1>1, <1>3, RecoveredRequestType DEF Invariant, SlotMirrorsBook

\* Writing one slot.
LEMMA SlotWrite ==
  ASSUME Invariant, NEW i \in DOMAIN slots, NEW v \in Slot, slots' = [slots EXCEPT ![i] = v]
  PROVE  /\ slots' \in Seq(Slot)
         /\ DOMAIN slots' = DOMAIN slots
         /\ slots'[i] = v
         /\ \A j \in DOMAIN slots \ {i} : slots'[j] = slots[j]
  BY UpdateElement DEF Invariant, TypeOK

\* orders_shm_update_stage leaves every request alone.
LEMMA StageWrite ==
  ASSUME Invariant, NEW i \in DOMAIN slots, NEW stage \in OrderSlotState,
         slots' = [slots EXCEPT ![i].stage = stage]
  PROVE  /\ slots' \in Seq(Slot)
         /\ DOMAIN slots' = DOMAIN slots
         /\ \A j \in DOMAIN slots : slots'[j].request = slots[j].request
<1> DEFINE v == [slots[i] EXCEPT !.stage = stage]
<1>1. slots \in Seq(Slot) /\ slots[i] \in Slot
  BY DEF Invariant, TypeOK
<1>2. v \in Slot /\ v.request = slots[i].request
  BY <1>1 DEF Slot
<1>3. slots' = [slots EXCEPT ![i] = v]
  OBVIOUS
<1> HIDE DEF v
<1> QED BY <1>2, <1>3, SlotWrite

-----------------------------------------------------------------------------
(* The initial state and the steps.                                        *)

\* The first start of the day.
LEMMA InitInvariant == Init => Invariant
<1> SUFFICES ASSUME Init PROVE Invariant
  OBVIOUS
<1>1. TypeOK
  <2>1. latched \in BOOLEAN
    BY DEF Init
  <2>2. loop \in [pc : {"idle", "route", "sent", "staged", "settling", "stopped"}, id : Nat] /\ loop.pc = "idle"
    BY DEF Init, Idle
  <2> QED BY <2>1, <2>2, AccountAssumption, BoundsAssumption, MaxDValueAssumption
             DEF Init, TypeOK, Fund, DValue
<1>3. SlotMirrorsBook
  BY DEF Init, SlotMirrorsBook
<1> QED BY <1>1, <1>3 DEF Invariant

\* The API: a new slot, and perhaps its index upstream.
LEMMA EnqueueOrderStep ==
  ASSUME Invariant, NEW request \in Request, EnqueueOrder(request)
  PROVE  Invariant'
<1>1. next_order_id' \in 1 .. MaxOrders + 1
  <2>1. next_order_id <= MaxOrders /\ next_order_id' = next_order_id + 1
    BY DEF EnqueueOrder
  <2>2. next_order_id \in 1 .. MaxOrders + 1
    BY DEF Invariant, TypeOK
  <2> QED BY <2>1, <2>2, BoundsAssumption
<1>2. CASE UNCHANGED <<slots, upstream>>
  BY <1>1, <1>2 DEF Invariant, TypeOK, SlotMirrorsBook, EnqueueOrder, service, external
<1>3. ASSUME NEW stage \in OrderSlotState,
             slots' = Append(slots, [stage |-> stage, request |-> request]),
             upstream' \in {upstream, Append(upstream, Len(slots) + 1)}
      PROVE  Invariant'
  <2>1. [stage |-> stage, request |-> request] \in Slot
    BY DEF Slot
  <2>2. /\ slots' \in Seq(Slot) /\ DOMAIN slots \subseteq DOMAIN slots'
        /\ \A i \in DOMAIN slots : slots'[i] = slots[i]
        /\ Len(slots) + 1 \in DOMAIN slots'
    BY <1>3, <2>1, AppendKeeps, SMTT(120) DEF Invariant, TypeOK
  <2>3. upstream \in Seq(DOMAIN slots') /\ downstream \in Seq(DOMAIN slots')
    BY <2>2, SeqMonotone DEF Invariant, TypeOK
  <2>4. upstream' \in Seq(DOMAIN slots')
    <3>1. Append(upstream, Len(slots) + 1) \in Seq(DOMAIN slots')
      BY <2>2, <2>3, AppendKeeps
    <3> QED BY <1>3, <2>3, <3>1
  <2>5. TypeOK'
    BY <1>1, <2>2, <2>3, <2>4 DEF Invariant, TypeOK, EnqueueOrder, service, external
  <2>6. SlotMirrorsBook'
    BY <2>2 DEF Invariant, TypeOK, SlotMirrorsBook, EnqueueOrder, service
  <2> QED BY <2>5, <2>6 DEF Invariant, EnqueueOrder
<1>4. "UpstreamQueued" \in OrderSlotState /\ "QueuePushFailed" \in OrderSlotState
  BY DEF OrderSlotState
<1> QED BY <1>2, <1>3, <1>4 DEF EnqueueOrder

\* The slot an upstream index names, and the request the loop makes of it.
LEMMA IncomingType ==
  ASSUME Invariant, upstream # <<>>
  PROVE  /\ Head(upstream) \in DOMAIN slots
         /\ Tail(upstream) \in Seq(DOMAIN slots)
         /\ Incoming \in Request
         /\ Incoming.internal_order_id = slots[Head(upstream)].request.internal_order_id
<1>1. Head(upstream) \in DOMAIN slots /\ Tail(upstream) \in Seq(DOMAIN slots)
  BY HeadTail DEF Invariant, TypeOK
<1>2. slots[Head(upstream)] \in Slot
  BY <1>1, ElementType DEF Invariant, TypeOK
<1>3. slots[Head(upstream)].request \in Request
  BY <1>2 DEF Slot
<1> QED BY <1>1, <1>3, PrepareOrderEstimateType DEF Incoming

\* A refused add_order writes a stage and nothing else.
LEMMA AddRefusedStep ==
  ASSUME Invariant, AddRefused
  PROVE  Invariant'
<1>1. upstream # <<>> /\ upstream' = Tail(upstream)
  BY DEF AddRefused, TakeUpstream
<1>2. Head(upstream) \in DOMAIN slots /\ upstream' \in Seq(DOMAIN slots)
  BY <1>1, IncomingType
<1>3. "QueuePushFailed" \in OrderSlotState
  BY DEF OrderSlotState
<1>4. slots' = [slots EXCEPT ![Head(upstream)].stage = "QueuePushFailed"]
  BY DEF AddRefused
<1>5. /\ slots' \in Seq(Slot)
      /\ DOMAIN slots' = DOMAIN slots
      /\ \A j \in DOMAIN slots : slots'[j].request = slots[j].request
  BY <1>2, <1>3, <1>4, StageWrite
<1>6. TypeOK'
  BY <1>2, <1>5 DEF Invariant, TypeOK, AddRefused, service, external
<1>7. SlotMirrorsBook'
  BY <1>5 DEF Invariant, TypeOK, SlotMirrorsBook, AddRefused, service
<1> QED BY <1>6, <1>7 DEF Invariant, AddRefused

\* A request enters the book under an id that was free, and its slot follows.
LEMMA EnterBook ==
  ASSUME Invariant, NEW i \in DOMAIN slots, NEW q \in Request,
         q.internal_order_id = slots[i].request.internal_order_id,
         q.internal_order_id \notin DOMAIN book,
         NEW stage \in OrderSlotState, NEW frozen \in DValue,
         book' = Put(book, q.internal_order_id, [request |-> q, fund_frozen |-> frozen, index |-> i]),
         slots' = [slots EXCEPT ![i] = [stage |-> stage, request |-> q]]
  PROVE  /\ slots' \in Seq(Slot)
         /\ DOMAIN slots' = DOMAIN slots
         /\ DOMAIN book' = DOMAIN book \cup {q.internal_order_id}
         /\ DOMAIN book' \subseteq OrderIds
         /\ book' \in [DOMAIN book' -> Entry]
         /\ \A id \in DOMAIN book' : book'[id].index \in DOMAIN slots'
         /\ SlotMirrorsBook'
<1> DEFINE id == q.internal_order_id
           e == [request |-> q, fund_frozen |-> frozen, index |-> i]
           v == [stage |-> stage, request |-> q]
<1>1. v \in Slot /\ v.request = q
  BY DEF Slot
<1>2. /\ slots' \in Seq(Slot) /\ DOMAIN slots' = DOMAIN slots /\ slots'[i] = v
      /\ \A j \in DOMAIN slots \ {i} : slots'[j] = slots[j]
  BY <1>1, SlotWrite
<1>3. slots \in Seq(Slot) /\ i \in Nat \ {0}
  <2>1. slots \in Seq(Slot)
    BY ONLY Invariant DEF Invariant, TypeOK
  <2> QED BY ONLY <2>1, i \in DOMAIN slots
<1>4. e \in Entry /\ e.request = q /\ e.index = i
  BY <1>3 DEF Entry
<1>5. id \in OrderIds
  BY DEF Request
<1> HIDE DEF e, v, id
<1>6. /\ DOMAIN book' = DOMAIN book \cup {id}
      /\ book'[id] = e
      /\ \A j \in DOMAIN book : book'[j] = book[j]
  BY DEF Put, id, e
<1>7. /\ DOMAIN book' \subseteq OrderIds
      /\ book' \in [DOMAIN book' -> Entry]
      /\ \A j \in DOMAIN book' : book'[j].index \in DOMAIN slots'
  <2>1. book' = [j \in DOMAIN book \cup {id} |-> IF j = id THEN e ELSE book[j]]
    BY DEF Put, id, e
  <2>2. /\ DOMAIN book \subseteq OrderIds /\ book \in [DOMAIN book -> Entry]
        /\ \A j \in DOMAIN book : book[j].index \in DOMAIN slots
    BY DEF Invariant, TypeOK
  <2>3. book' \in [DOMAIN book' -> Entry]
    BY <1>4, <2>1, <2>2
  <2>4. DOMAIN book' \subseteq OrderIds
    BY <1>5, <1>6, <2>2
  <2> QED BY <1>2, <1>4, <1>6, <2>2, <2>3, <2>4
<1>8. ASSUME NEW j \in DOMAIN book
      PROVE  book[j].index \in DOMAIN slots \ {i}
  <2>1. book[j].index \in DOMAIN slots
    BY DEF Invariant, TypeOK
  <2>2. slots[book[j].index].request.internal_order_id = j
    BY SlotOwner
  <2> QED BY <2>1, <2>2 DEF id
<1>9. SlotMirrorsBook'
  <2>1. \A j \in DOMAIN book : /\ book'[j].request.internal_order_id = j
                               /\ RecoveredRequest(slots'[book'[j].index].request) = RecoveredRequest(book'[j].request)
    BY <1>2, <1>6, <1>8 DEF Invariant, SlotMirrorsBook
  <2>2. /\ book'[id].request.internal_order_id = id
        /\ RecoveredRequest(slots'[book'[id].index].request) = RecoveredRequest(book'[id].request)
    BY <1>1, <1>2, <1>4, <1>6 DEF id
  <2> QED BY <1>6, <2>1, <2>2 DEF SlotMirrorsBook
<1> QED BY <1>2, <1>6, <1>7, <1>9 DEF id

\* A rejected order enters the book and its slot, without money.
LEMMA RiskRejectStep ==
  ASSUME Invariant, RiskReject
  PROVE  Invariant'
<1> DEFINE i == Head(upstream)
           q == UpdateState(Incoming, "RiskControllerRejected")
<1>1. upstream # <<>> /\ upstream' = Tail(upstream) /\ Incoming.internal_order_id \notin DOMAIN book
  BY DEF RiskReject, TakeUpstream, BookHasRoom
<1>2. /\ i \in DOMAIN slots /\ upstream' \in Seq(DOMAIN slots) /\ Incoming \in Request
      /\ Incoming.internal_order_id = slots[i].request.internal_order_id
  BY <1>1, IncomingType
<1>3. "RiskControllerRejected" \in OrderState /\ "RiskRejected" \in OrderSlotState /\ 0 \in DValue
  BY MaxDValueAssumption DEF OrderState, OrderSlotState, DValue
<1>4. q \in Request /\ q.internal_order_id = Incoming.internal_order_id
  BY <1>2, <1>3, UpdateStateType
<1>5. /\ book' = Put(book, q.internal_order_id, [request |-> q, fund_frozen |-> 0, index |-> i])
      /\ slots' = [slots EXCEPT ![i] = [stage |-> "RiskRejected", request |-> q]]
  BY DEF RiskReject
<1> HIDE DEF q, i
<1>6. /\ slots' \in Seq(Slot) /\ DOMAIN slots' = DOMAIN slots
      /\ DOMAIN book' \subseteq OrderIds
      /\ book' \in [DOMAIN book' -> Entry]
      /\ \A id \in DOMAIN book' : book'[id].index \in DOMAIN slots'
      /\ DOMAIN book \subseteq DOMAIN book'
      /\ SlotMirrorsBook'
  BY <1>1, <1>2, <1>3, <1>4, <1>5, EnterBook
<1>7. TypeOK'
  BY <1>2, <1>6 DEF Invariant, TypeOK, RiskReject, external
<1> QED BY <1>6, <1>7 DEF Invariant, RiskReject

\* An admitted order enters the book and its slot, and its funds are frozen.
LEMMA AdmitStep ==
  ASSUME Invariant, Admit
  PROVE  Invariant'
<1> DEFINE i == Head(upstream)
           q == UpdateState(Incoming, "RiskControllerAccepted")
           frozen == IF IsNewBuy(q) THEN ReservedTotal(q) ELSE 0
<1>1. /\ upstream # <<>> /\ upstream' = Tail(upstream) /\ Incoming.internal_order_id \notin DOMAIN book
      /\ CanReserve(Incoming)
  BY DEF Admit, TakeUpstream, BookHasRoom
<1>2. /\ i \in DOMAIN slots /\ upstream' \in Seq(DOMAIN slots) /\ Incoming \in Request
      /\ Incoming.internal_order_id = slots[i].request.internal_order_id
  BY <1>1, IncomingType
<1>3. "RiskControllerAccepted" \in OrderState /\ "UpstreamDequeued" \in OrderSlotState
  BY DEF OrderState, OrderSlotState
<1>4. q \in Request /\ q.internal_order_id = Incoming.internal_order_id
  BY <1>2, <1>3, UpdateStateType
<1>5. /\ book' = Put(book, q.internal_order_id, [request |-> q, fund_frozen |-> frozen, index |-> i])
      /\ slots' = [slots EXCEPT ![i] = [stage |-> "UpstreamDequeued", request |-> q]]
      /\ fund' = FreezeFund(fund, frozen)
      /\ loop' = [pc |-> "route", id |-> q.internal_order_id]
  BY DEF Admit
<1>6. IsNewBuy(q) = IsNewBuy(Incoming) /\ ReservedTotal(q) = ReservedTotal(Incoming) /\ ReservedTotal(q) \in Nat
  <2>1. /\ q.order_type = Incoming.order_type /\ q.trade_side = Incoming.trade_side
        /\ q.volume_entrust = Incoming.volume_entrust /\ q.dprice_entrust = Incoming.dprice_entrust
        /\ q.dfee_estimate = Incoming.dfee_estimate
    <3> HIDE DEF Incoming
    <3> QED BY <1>2 DEF UpdateState, Request
  <2>2. q.volume_entrust \in Nat /\ q.dprice_entrust \in Nat /\ q.dfee_estimate \in Nat
    BY <1>4 DEF Request
  <2> HIDE DEF q
  <2>3. q.volume_entrust * q.dprice_entrust \in Nat
    BY <2>2, NatProduct
  <2> QED BY <2>1, <2>2, <2>3 DEF IsNewBuy, ReservedTotal, OrderValue
<1>7. frozen \in DValue /\ CanFreezeFund(fund, frozen)
  <2>1. CASE IsNewBuy(q)
    BY <1>1, <1>6, <2>1, MaxDValueAssumption DEF CanReserve, DValue
  <2>2. CASE ~ IsNewBuy(q)
    <3>1. fund \in Fund /\ frozen = 0
      BY <2>2 DEF Invariant, TypeOK
    <3> QED BY <3>1, MaxDValueAssumption DEF CanFreezeFund, Fund, DValue
  <2> QED BY <2>1, <2>2
<1>8. q.internal_order_id \in OrderIds
  BY <1>4 DEF Request
<1> HIDE DEF q, i, frozen
<1>9. /\ slots' \in Seq(Slot) /\ DOMAIN slots' = DOMAIN slots
      /\ DOMAIN book' = DOMAIN book \cup {q.internal_order_id}
      /\ DOMAIN book' \subseteq OrderIds
      /\ book' \in [DOMAIN book' -> Entry]
      /\ \A id \in DOMAIN book' : book'[id].index \in DOMAIN slots'
      /\ SlotMirrorsBook'
  BY <1>1, <1>2, <1>3, <1>4, <1>5, <1>7, EnterBook
<1>10. fund' \in Fund
  <2>1. fund \in Fund /\ frozen \in Nat
    BY <1>7, MaxDValueAssumption DEF Invariant, TypeOK, DValue
  <2>2. FreezeFund(fund, frozen) \in Fund
    BY <1>7, <2>1, FreezeFundSafe
  <2> QED BY <1>5, <2>2
<1>11. loop' \in [pc : {"idle", "route", "sent", "staged", "settling", "stopped"}, id : Nat] /\ loop'.id \in DOMAIN book'
  BY <1>5, <1>8, <1>9, BoundsAssumption DEF OrderIds
<1>12. TypeOK'
  BY <1>2, <1>9, <1>10, <1>11 DEF Invariant, TypeOK, Admit, external
<1> QED BY <1>9, <1>10, <1>12 DEF Invariant

\* An order of the book changes and its slot follows; orders may leave the book.
\* s is the pool before the write, with slots perhaps added to it.
LEMMA UpdateBook ==
  ASSUME Invariant, NEW id \in DOMAIN book, NEW q, q.internal_order_id = id,
         DOMAIN book' \subseteq DOMAIN book,
         \A i \in DOMAIN book' : book'[i].index = book[i].index,
         \A i \in DOMAIN book' \ {id} : book'[i].request = book[i].request,
         id \in DOMAIN book' => book'[id].request = q,
         NEW s \in Seq(Slot), DOMAIN slots \subseteq DOMAIN s,
         \A i \in DOMAIN slots : s[i] = slots[i],
         NEW v \in Slot, v.request = q,
         slots' = [s EXCEPT ![book[id].index] = v]
  PROVE  /\ slots' \in Seq(Slot)
         /\ DOMAIN slots' = DOMAIN s
         /\ DOMAIN book' \subseteq OrderIds
         /\ \A i \in DOMAIN book' : book'[i].index \in DOMAIN slots'
         /\ upstream \in Seq(DOMAIN slots')
         /\ downstream \in Seq(DOMAIN slots')
         /\ SlotMirrorsBook'
<1> DEFINE k == book[id].index
<1>1. /\ DOMAIN book \subseteq OrderIds
      /\ \A i \in DOMAIN book : book[i].index \in DOMAIN slots
      /\ upstream \in Seq(DOMAIN slots) /\ downstream \in Seq(DOMAIN slots)
  BY DEF Invariant, TypeOK
<1>2. k \in DOMAIN s
  BY <1>1
<1>3. /\ slots' \in Seq(Slot) /\ DOMAIN slots' = DOMAIN s
  BY <1>2, UpdateElement
<1>4. slots'[k] = v /\ \A j \in DOMAIN s \ {k} : slots'[j] = s[j]
  BY <1>2
<1>5. upstream \in Seq(DOMAIN slots') /\ downstream \in Seq(DOMAIN slots')
  BY <1>1, <1>3, SeqMonotone
<1>6. \A i \in DOMAIN book' : book'[i].index \in DOMAIN slots'
  BY <1>1, <1>3
<1>7. ASSUME NEW j \in DOMAIN book, j # id
      PROVE  book[j].index \in DOMAIN slots \ {k}
  <2>1. book[j].index \in DOMAIN slots
    BY <1>1
  <2>2. /\ slots[book[j].index].request.internal_order_id = j
        /\ slots[book[id].index].request.internal_order_id = id
    BY SlotOwner
  <2> QED BY <1>7, <2>1, <2>2
<1>8. ASSUME NEW j \in DOMAIN book'
      PROVE  /\ book'[j].request.internal_order_id = j
             /\ RecoveredRequest(slots'[book'[j].index].request) = RecoveredRequest(book'[j].request)
  <2>1. CASE j = id
    <3>1. book'[j].index = k /\ book'[j].request = q
      BY <2>1
    <3> QED BY <1>4, <2>1, <3>1
  <2>2. CASE j # id
    <3>1. book'[j].index = book[j].index /\ book'[j].request = book[j].request /\ j \in DOMAIN book
      BY <2>2
    <3>2. slots'[book[j].index] = slots[book[j].index]
      BY <1>1, <1>4, <1>7, <2>2, <3>1
    <3>3. /\ book[j].request.internal_order_id = j
          /\ RecoveredRequest(slots[book[j].index].request) = RecoveredRequest(book[j].request)
      BY <3>1 DEF Invariant, SlotMirrorsBook
    <3> QED BY <3>1, <3>2, <3>3
  <2> QED BY <2>1, <2>2
<1>9. SlotMirrorsBook'
  BY <1>8 DEF SlotMirrorsBook
<1> QED BY <1>1, <1>3, <1>5, <1>6, <1>9

\* The gateway sees the index; the service's memory keeps its place.
LEMMA PushDownstreamStep ==
  ASSUME Invariant, PushDownstream
  PROVE  Invariant'
<1>1. loop.pc = "route" /\ loop.id \in DOMAIN book /\ book[loop.id].index \in DOMAIN slots
  BY DEF Invariant, TypeOK, PushDownstream
<1>2. downstream' \in Seq(DOMAIN slots)
  BY <1>1, AppendKeeps DEF Invariant, TypeOK, PushDownstream
<1>3. loop' \in [pc : {"idle", "route", "sent", "staged", "settling", "stopped"}, id : Nat] /\ loop'.id = loop.id
  BY DEF Invariant, TypeOK, PushDownstream
<1>4. TypeOK'
  BY <1>1, <1>2, <1>3 DEF Invariant, TypeOK, PushDownstream, external
<1>5. SlotMirrorsBook'
  BY DEF Invariant, SlotMirrorsBook, PushDownstream
<1> QED BY <1>4, <1>5 DEF Invariant, PushDownstream

\* The stage follows the push; no request changes.
LEMMA StagePushedStep ==
  ASSUME Invariant, StagePushed
  PROVE  Invariant'
<1>1. /\ loop.pc = "sent" /\ loop.id \in DOMAIN book /\ book[loop.id].index \in DOMAIN slots
      /\ "DownstreamQueued" \in OrderSlotState
      /\ slots' = [slots EXCEPT ![book[loop.id].index].stage = "DownstreamQueued"]
  BY DEF Invariant, TypeOK, StagePushed, StageStore, OrderSlotState
<1>2. /\ slots' \in Seq(Slot) /\ DOMAIN slots' = DOMAIN slots
      /\ \A j \in DOMAIN slots : slots'[j].request = slots[j].request
  BY <1>1, StageWrite
<1>3. loop' \in [pc : {"idle", "route", "sent", "staged", "settling", "stopped"}, id : Nat] /\ loop'.id = loop.id
  BY DEF Invariant, TypeOK, StagePushed, StageStore
<1>4. UNCHANGED <<next_order_id, upstream, downstream, responses, fund, position, book, pending, latched,
                  broker, market, restarts, lost>>
  BY DEF StagePushed, StageStore, external
<1>5. TypeOK'
  BY <1>1, <1>2, <1>3, <1>4 DEF Invariant, TypeOK
<1>6. SlotMirrorsBook'
  BY <1>2, <1>4 DEF Invariant, TypeOK, SlotMirrorsBook
<1> QED BY <1>5, <1>6 DEF Invariant

\* A mirrored slot is a slot, and carries the request it was given.
LEMMA MirrorType ==
  ASSUME NEW slot \in Slot, NEW q \in Request
  PROVE  Mirror(slot, q) \in Slot /\ Mirror(slot, q).request = q
  BY DEF Mirror, Slot, OrderSlotState

\* The order becomes TraderSubmitted in the book and in its slot.
LEMMA PublishSubmittedStep ==
  ASSUME Invariant, PublishSubmitted
  PROVE  Invariant'
<1> DEFINE id == loop.id
           q == UpdateState(book[id].request, "TraderSubmitted")
           nb == [book EXCEPT ![id].request = q]
           k == book[id].index
           v == Mirror(slots[k], q)
<1>1. /\ id \in DOMAIN book /\ book \in [DOMAIN book -> Entry] /\ slots \in Seq(Slot)
      /\ book[id].request.internal_order_id = id
  BY DEF Invariant, TypeOK, SlotMirrorsBook, PublishSubmitted, Publish
<1>2. "TraderSubmitted" \in OrderState
  BY DEF OrderState
<1>3. q \in Request /\ q.internal_order_id = id
  BY <1>1, <1>2, UpdateStateType DEF Entry
<1>4. book' = nb /\ slots' = [slots EXCEPT ![k] = v] /\ loop' = Idle
  BY DEF PublishSubmitted, Publish
<1> HIDE DEF q
<1>5. v \in Slot /\ v.request = q
  <2>1. slots[k] \in Slot
    BY <1>1, ElementType DEF Invariant, TypeOK
  <2> QED BY <1>3, <2>1, MirrorType
<1> HIDE DEF v
<1>6. /\ nb \in [DOMAIN book -> Entry] /\ nb[id].request = q
      /\ \A i \in DOMAIN book : nb[i].index = book[i].index
      /\ \A i \in DOMAIN book \ {id} : nb[i].request = book[i].request
      /\ DOMAIN nb = DOMAIN book
  BY <1>1, <1>3 DEF Entry
<1> HIDE DEF nb, id
<1>7. /\ slots' \in Seq(Slot)
      /\ DOMAIN slots' = DOMAIN slots
      /\ DOMAIN book' \subseteq OrderIds
      /\ \A i \in DOMAIN book' : book'[i].index \in DOMAIN slots'
      /\ SlotMirrorsBook'
  BY <1>1, <1>3, <1>4, <1>5, <1>6, UpdateBook
<1>8. UNCHANGED <<next_order_id, upstream, downstream, responses, fund, position, pending, latched, broker, market, restarts, lost>>
  BY DEF PublishSubmitted, Publish, external
<1>9. book' \in [DOMAIN book' -> Entry] /\ loop'.pc = "idle" /\ loop' \in [pc : {"idle", "route", "sent", "staged", "settling", "stopped"}, id : Nat]
  BY <1>4, <1>6 DEF Idle
<1>10. TypeOK'
  BY <1>7, <1>8, <1>9 DEF Invariant, TypeOK
<1> QED BY <1>7, <1>8, <1>10 DEF Invariant

\* route_order returned false: the funds go back and the slot says so, whether or
\* not the router had added a slot to the pool.
LEMMA RouteFailedStep ==
  ASSUME Invariant, loop.id \in DOMAIN book,
         NEW s \in Seq(Slot), DOMAIN slots \subseteq DOMAIN s,
         \A i \in DOMAIN slots : s[i] = slots[i],
         RouteFailed(s)
  PROVE  Invariant'
<1> DEFINE id == loop.id
           a0 == [book |-> book, fund |-> fund]
           a == ReleaseOrderResources(a0, id)
           q == UpdateState(a.book[id].request, "TraderError")
           nb == [a.book EXCEPT ![id].request = q]
           v == [stage |-> "QueuePushFailed", request |-> q]
<1>1. book \in [DOMAIN book -> Entry] /\ fund \in Fund /\ book[id].request.internal_order_id = id
  BY DEF Invariant, TypeOK, SlotMirrorsBook
<1>2. Account(a0, DOMAIN book) /\ a0.book = book
  BY <1>1 DEF Account
<1>3. book' = nb /\ fund' = a.fund /\ slots' = [s EXCEPT ![a.book[id].index] = v] /\ loop' = Idle
  BY DEF RouteFailed
<1> HIDE DEF a0
<1>4. Account(a, DOMAIN book) /\ SameOrders(a, a0, DOMAIN book)
  BY <1>2, ReleaseOrderResourcesSafe
<1> HIDE DEF a
<1>5. /\ a.book \in [DOMAIN book -> Entry] /\ a.fund \in Fund
      /\ \A i \in DOMAIN book : a.book[i].request = book[i].request /\ a.book[i].index = book[i].index
  BY <1>2, <1>4 DEF Account, SameOrders
<1>6. "TraderError" \in OrderState /\ "QueuePushFailed" \in OrderSlotState
  BY DEF OrderState, OrderSlotState
<1>7. a.book[id].request \in Request
  BY <1>5 DEF Entry
<1>8. q \in Request /\ q.internal_order_id = id
  BY <1>1, <1>5, <1>6, <1>7, UpdateStateType
<1> HIDE DEF q
<1>9. v \in Slot /\ v.request = q
  BY <1>6, <1>8 DEF Slot
<1> HIDE DEF v
<1>10. /\ nb \in [DOMAIN book -> Entry] /\ nb[id].request = q
       /\ \A i \in DOMAIN book : nb[i].index = a.book[i].index
       /\ \A i \in DOMAIN book \ {id} : nb[i].request = a.book[i].request
       /\ DOMAIN nb = DOMAIN book
  BY <1>5, <1>8 DEF Entry
<1> HIDE DEF nb
<1>11. /\ slots' \in Seq(Slot)
       /\ DOMAIN slots' = DOMAIN s
       /\ DOMAIN book' \subseteq OrderIds
       /\ \A i \in DOMAIN book' : book'[i].index \in DOMAIN slots'
       /\ upstream \in Seq(DOMAIN slots')
       /\ downstream \in Seq(DOMAIN slots')
       /\ SlotMirrorsBook'
  <2>1. slots' = [s EXCEPT ![book[id].index] = v]
    BY <1>3, <1>5
  <2>2. id \in DOMAIN book
    OBVIOUS
  <2>3. /\ DOMAIN book' = DOMAIN book
        /\ book'[id].request = q
        /\ \A i \in DOMAIN book' : book'[i].index = book[i].index
        /\ \A i \in DOMAIN book' \ {id} : book'[i].request = book[i].request
    BY <1>3, <1>5, <1>10
  <2> HIDE DEF id
  <2> QED BY <1>8, <1>9, <2>1, <2>2, <2>3, UpdateBook
<1>12. TypeOK'
  <2>1. UNCHANGED <<next_order_id, upstream, downstream, responses, position, pending, latched, broker, market, restarts, lost>>
    BY DEF RouteFailed, external
  <2>2. book' \in [DOMAIN book' -> Entry] /\ loop'.pc = "idle" /\ loop' \in [pc : {"idle", "route", "sent", "staged", "settling", "stopped"}, id : Nat]
    BY <1>3, <1>10 DEF Idle
  <2> QED BY <1>3, <1>5, <1>11, <2>1, <2>2 DEF Invariant, TypeOK
<1> QED BY <1>11, <1>12 DEF Invariant

\* The downstream queue is full.
LEMMA RouteOrderRefusedStep ==
  ASSUME Invariant, RouteOrderRefused
  PROVE  Invariant'
<1>1. loop.id \in DOMAIN book /\ slots \in Seq(Slot) /\ RouteFailed(slots)
  BY DEF Invariant, TypeOK, RouteOrderRefused
<1> QED BY <1>1, RouteFailedStep

\* A cancel request is well formed.
LEMMA CancelRequestType ==
  ASSUME NEW id \in OrderIds, NEW orig \in Nat
  PROVE  CancelRequest(id, orig) \in Request
  BY DEF CancelRequest, Request, OrderType, TradeSide, OrderState

\* The router's second slot for a cancel, if the pool has room for it.
LEMMA RouteCancelStep ==
  ASSUME Invariant, RouteCancel
  PROVE  Invariant'
<1> DEFINE c == CancelRequest(loop.id, book[loop.id].request.orig_internal_order_id)
           q == UpdateState(c, "TraderPending")
           v == [stage |-> "QueuePushFailed", request |-> q]
<1>1. loop.id \in DOMAIN book /\ slots \in Seq(Slot)
  BY DEF Invariant, TypeOK, RouteCancel
<1>2. loop.id \in OrderIds /\ book[loop.id] \in Entry
  BY <1>1 DEF Invariant, TypeOK
<1>3. book[loop.id].request.orig_internal_order_id \in Nat
  BY <1>2 DEF Entry, Request
<1>4. RouteFailed(IF Len(slots) < PoolCapacity THEN Append(slots, v) ELSE slots)
  BY DEF RouteCancel
<1>5. c \in Request
  BY <1>2, <1>3, CancelRequestType
<1> HIDE DEF c
<1>6. q \in Request
  <2>1. "TraderPending" \in OrderState
    BY DEF OrderState
  <2> QED BY <1>5, <2>1, UpdateStateType
<1> HIDE DEF q
<1>7. v \in Slot
  BY <1>6 DEF Slot, OrderSlotState
<1> HIDE DEF v
<1>8. CASE Len(slots) < PoolCapacity
  <2> DEFINE s == Append(slots, v)
  <2>1. s \in Seq(Slot) /\ DOMAIN slots \subseteq DOMAIN s /\ \A i \in DOMAIN slots : s[i] = slots[i]
    BY <1>1, <1>7, AppendKeeps
  <2>2. RouteFailed(s)
    BY <1>4, <1>8
  <2> HIDE DEF s
  <2> QED BY <1>1, <2>1, <2>2, RouteFailedStep
<1>9. CASE ~ (Len(slots) < PoolCapacity)
  <2>1. RouteFailed(slots)
    BY <1>4, <1>9
  <2> QED BY <1>1, <2>1, RouteFailedStep
<1> QED BY <1>8, <1>9

\* Positions stay natural numbers, and a failed deduction goes no further than
\* clearing the counter of volume in sale.
LEMMA SettlePositionType ==
  ASSUME NEW p \in [available_t0 : Nat, available_t1 : Nat, sell : Nat],
         NEW order_type, NEW r \in TradeResponse
  PROVE  SettlePosition(p, order_type, r) \in [available_t0 : Nat, available_t1 : Nat, sell : Nat]
<1> DEFINE P == [available_t0 : Nat, available_t1 : Nat, sell : Nat]
<1>1. r.volume_traded \in Nat
  BY DEF TradeResponse
<1>2. AddPosition(p, r.volume_traded) \in P
  BY <1>1 DEF AddPosition
<1>3. DeductPosition(p, r.volume_traded) \in P
  BY <1>1 DEF DeductPosition, Less
<1> QED BY <1>2, <1>3 DEF SettlePosition

\* The ids in pending stay order ids.
LEMMA ArchivePendingType ==
  ASSUME Invariant, NEW r \in TradeResponse
  PROVE  ArchivePending(r) \subseteq OrderIds
<1>1. pending \subseteq OrderIds /\ r.internal_order_id \in OrderIds
  BY DEF Invariant, TypeOK, TradeResponse
<1> QED BY <1>1 DEF ArchivePending

\* The ghost of what did not move keeps its type.
LEMMA MissedType ==
  ASSUME Invariant, NEW r \in TradeResponse, NEW paid, NEW moved
  PROVE  /\ Missed(r, paid, moved) \in [cash : Int, bought : Nat, sold : Nat, ids : SUBSET OrderIds]
         /\ Missed(r, paid, moved).cash = lost.cash + (IF paid THEN 0 ELSE CashMoved(r))
         /\ Missed(r, paid, moved).bought = lost.bought + (IF moved THEN 0 ELSE VolumeMoved(r, "Buy"))
         /\ Missed(r, paid, moved).sold = lost.sold + (IF moved THEN 0 ELSE VolumeMoved(r, "Sell"))
         /\ Missed(r, paid, moved).ids = lost.ids
<1>1. lost \in [cash : Int, bought : Nat, sold : Nat, ids : SUBSET OrderIds]
  BY DEF Invariant, TypeOK
<1>2. /\ (IF paid THEN 0 ELSE CashMoved(r)) \in Int
      /\ (IF moved THEN 0 ELSE VolumeMoved(r, "Buy")) \in Nat
      /\ (IF moved THEN 0 ELSE VolumeMoved(r, "Sell")) \in Nat
  BY DEF TradeResponse, CashMoved, VolumeMoved
<1> DEFINE c == IF paid THEN 0 ELSE CashMoved(r)
           x == IF moved THEN 0 ELSE VolumeMoved(r, "Buy")
           y == IF moved THEN 0 ELSE VolumeMoved(r, "Sell")
<1>4. c \in Int /\ x \in Nat /\ y \in Nat
  BY <1>2
<1> HIDE DEF c, x, y
<1>5. Missed(r, paid, moved) = [cash |-> lost.cash + c, bought |-> lost.bought + x,
                                sold |-> lost.sold + y, ids |-> lost.ids]
  BY DEF Missed, c, x, y
<1>6. lost.cash + c \in Int /\ lost.bought + x \in Nat /\ lost.sold + y \in Nat /\ lost.ids \in SUBSET OrderIds
  BY <1>1, <1>4
<1>7. Missed(r, paid, moved) \in [cash : Int, bought : Nat, sold : Nat, ids : SUBSET OrderIds]
  BY <1>5, <1>6
<1>8. /\ Missed(r, paid, moved).cash = lost.cash + c
      /\ Missed(r, paid, moved).bought = lost.bought + x
      /\ Missed(r, paid, moved).sold = lost.sold + y
      /\ Missed(r, paid, moved).ids = lost.ids
  BY <1>5
<1> QED BY <1>7, <1>8 DEF c, x, y

\* A trade response: book, fund row, position row and slot move together.
LEMMA HandleTradeResponseStep ==
  ASSUME Invariant, HandleTradeResponse
  PROVE  Invariant'
<1> DEFINE r == Head(responses)
           id == r.internal_order_id
           a == Settled(r)
           q == a.book[id].request
           k == book[id].index
           v == Mirror(slots[k], q)
<1>1. /\ responses # <<>> /\ id \in DOMAIN book /\ loop.pc = "idle"
      /\ responses' = Tail(responses) /\ fund' = a.fund
      /\ position' = SettlePosition(position, book[id].request.order_type, r)
      /\ slots' = [slots EXCEPT ![k] = v]
      /\ book' \in {a.book, Restrict(a.book, DOMAIN book \ {id})}
      /\ pending' = ArchivePending(r)
      /\ UNCHANGED <<next_order_id, upstream, downstream, loop, broker, market, restarts>>
      /\ latched' = (latched \/ SettlementRefused(book[id], r))
      /\ lost' = Missed(r, ~ FundRefused(book[id], r), ~ PositionRefused(r))
  BY DEF HandleTradeResponse, ApplyTradeResponse, external
<1>2. r \in TradeResponse /\ responses' \in Seq(TradeResponse)
  BY <1>1, HeadTail DEF Invariant, TypeOK
<1> HIDE DEF r
<1>3. /\ book \in [DOMAIN book -> Entry] /\ k \in DOMAIN slots /\ slots \in Seq(Slot)
      /\ position \in [available_t0 : Nat, available_t1 : Nat, sell : Nat]
      /\ book[id].request.internal_order_id = id
  BY <1>1 DEF Invariant, TypeOK, SlotMirrorsBook
<1>4. /\ Account(a, DOMAIN book)
      /\ q = Reported(book[id].request, r)
      /\ \A i \in DOMAIN book : a.book[i].index = book[i].index
      /\ \A i \in DOMAIN book \ {id} : a.book[i].request = book[i].request
  BY <1>1, <1>2, SettledSafe
<1> HIDE DEF a
<1>5. a.book \in [DOMAIN book -> Entry] /\ a.fund \in Fund
  BY <1>4 DEF Account
<1>6. q \in Request /\ q.internal_order_id = id
  <2>1. book[id].request \in Request
    BY <1>1, <1>3 DEF Entry
  <2> QED BY <1>2, <1>3, <1>4, <2>1, ReportedType
<1>7. v \in Slot /\ v.request = q
  <2>1. slots[k] \in Slot
    BY <1>3, ElementType
  <2> QED BY <1>6, <2>1, MirrorType
<1>8. /\ DOMAIN book' \subseteq DOMAIN book
      /\ book' \in [DOMAIN book' -> Entry]
      /\ \A i \in DOMAIN book' : book'[i] = a.book[i]
  <2>1. CASE book' = a.book
    BY <1>5, <2>1
  <2>2. CASE book' = Restrict(a.book, DOMAIN book \ {id})
    <3>1. book' = [i \in DOMAIN book \ {id} |-> a.book[i]]
      BY <2>2 DEF Restrict
    <3> QED BY <1>5, <3>1
  <2> QED BY <1>1, <2>1, <2>2
<1>9. /\ slots' \in Seq(Slot)
      /\ DOMAIN slots' = DOMAIN slots
      /\ DOMAIN book' \subseteq OrderIds
      /\ \A i \in DOMAIN book' : book'[i].index \in DOMAIN slots'
      /\ SlotMirrorsBook'
  <2>1. /\ \A i \in DOMAIN book' : book'[i].index = book[i].index
        /\ \A i \in DOMAIN book' \ {id} : book'[i].request = book[i].request
        /\ id \in DOMAIN book' => book'[id].request = q
    BY <1>4, <1>8
  <2> HIDE DEF q, v, id
  <2> QED BY <1>1, <1>3, <1>6, <1>7, <1>8, <2>1, UpdateBook
<1>10. position' \in [available_t0 : Nat, available_t1 : Nat, sell : Nat] /\ pending' \subseteq OrderIds
  BY <1>1, <1>2, <1>3, SettlePositionType, ArchivePendingType
<1>11. TypeOK'
  <2>1. latched' \in BOOLEAN
    BY <1>1
  <2>2. UNCHANGED <<next_order_id, upstream, downstream, loop, broker, market, restarts>> /\ loop.pc = "idle"
    BY <1>1
  <2>3. fund' = a.fund
    BY <1>1
  <2>4. lost' \in [cash : Int, bought : Nat, sold : Nat, ids : SUBSET OrderIds]
    BY <1>1, <1>2, MissedType
  <2> HIDE DEF q, v, k, id
  <2> QED BY <1>2, <1>5, <1>8, <1>9, <1>10, <2>1, <2>2, <2>3, <2>4 DEF Invariant, TypeOK
<1> QED BY <1>9, <1>11 DEF Invariant

\* A request at any place of the handler is well formed and keeps its id.
LEMMA RequestAtType ==
  ASSUME NEW q \in Request, NEW r \in TradeResponse, NEW done
  PROVE  /\ RequestAt(done, q, r) \in Request
         /\ RequestAt(done, q, r).internal_order_id = q.internal_order_id
<1>1. r.new_state \in OrderState
  BY DEF TradeResponse
<1>2. RequestAt(done, q, r) \in {q, UpdateState(q, r.new_state), Reported(q, r)}
  BY DEF RequestAt
<1> QED BY <1>1, <1>2, UpdateStateType, ReportedType

\* A response that dies with the service: the order and its slot move together, the
\* rows each by a whole operation or not at all.
LEMMA DieSettlingStep ==
  ASSUME Invariant, NEW done, DieSettling(done)
  PROVE  Invariant'
<1> DEFINE r == Head(responses)
           id == r.internal_order_id
           q == RequestAt(done, book[id].request, r)
           k == book[id].index
           nb == [book EXCEPT ![id].request = q]
           c == [book |-> nb, fund |-> fund]
           a == SettleTradeFund(c, r)
           v == Mirror(slots[k], q)
<1>1. /\ responses # <<>> /\ id \in DOMAIN book
      /\ responses' = Tail(responses) /\ fund' \in {fund, a.fund}
      /\ position' \in {position, SettlePosition(position, q.order_type, r)}
      /\ book' = nb
      /\ slots' = IF done = "popped" THEN slots ELSE [slots EXCEPT ![k] = v]
      /\ loop' = [pc |-> "settling", id |-> id]
      /\ UNCHANGED <<next_order_id, upstream, downstream, pending, latched, broker, market, restarts>>
  BY DEF DieSettling
<1>2. r \in TradeResponse /\ responses' \in Seq(TradeResponse)
  BY <1>1, HeadTail DEF Invariant, TypeOK
<1>l. lost' \in [cash : Int, bought : Nat, sold : Nat, ids : SUBSET OrderIds]
  <2>1. \E paid, moved \in BOOLEAN : lost' = [Missed(r, paid, moved) EXCEPT
                   !.ids = IF done = "popped" /\ r.new_state \in TerminalState THEN @ \cup {id} ELSE @]
    BY DEF DieSettling
  <2>2. PICK paid, moved \in BOOLEAN : lost' = [Missed(r, paid, moved) EXCEPT
                   !.ids = IF done = "popped" /\ r.new_state \in TerminalState THEN @ \cup {id} ELSE @]
    BY <2>1
  <2>3. Missed(r, paid, moved) \in [cash : Int, bought : Nat, sold : Nat, ids : SUBSET OrderIds]
    BY <1>2, MissedType
  <2>4. id \in OrderIds
    BY <1>2 DEF TradeResponse
  <2> QED BY <2>2, <2>3, <2>4
<1> HIDE DEF r
<1>3. /\ book \in [DOMAIN book -> Entry] /\ k \in DOMAIN slots /\ slots \in Seq(Slot) /\ fund \in Fund
      /\ position \in [available_t0 : Nat, available_t1 : Nat, sell : Nat]
      /\ book[id].request.internal_order_id = id /\ book[id].request \in Request
  BY <1>1 DEF Invariant, TypeOK, SlotMirrorsBook, Entry
<1>4. q \in Request /\ q.internal_order_id = id
  BY <1>2, <1>3, RequestAtType
<1>5. done = "popped" => nb = book
  BY <1>1, <1>3 DEF RequestAt, Entry
<1> HIDE DEF q
<1>6. /\ nb \in [DOMAIN book -> Entry] /\ nb[id].request = q /\ DOMAIN nb = DOMAIN book
      /\ \A i \in DOMAIN book : nb[i].index = book[i].index
      /\ \A i \in DOMAIN book \ {id} : nb[i].request = book[i].request
  BY <1>1, <1>3, <1>4 DEF Entry
<1> HIDE DEF nb
<1>7. fund' \in Fund
  <2>1. Account(c, DOMAIN book)
    BY <1>3, <1>6 DEF Account
  <2> HIDE DEF c
  <2>2. Account(a, DOMAIN book)
    BY <1>1, <1>2, <2>1, SettleTradeFundSafe
  <2> HIDE DEF a
  <2> QED BY <1>1, <1>3, <2>2 DEF Account
<1> HIDE DEF a
<1>8. position' \in [available_t0 : Nat, available_t1 : Nat, sell : Nat]
  BY <1>1, <1>2, <1>3, SettlePositionType
<1>9. /\ slots' \in Seq(Slot)
      /\ DOMAIN slots' = DOMAIN slots
      /\ DOMAIN book' \subseteq OrderIds
      /\ \A i \in DOMAIN book' : book'[i].index \in DOMAIN slots'
      /\ SlotMirrorsBook'
  <2>1. CASE done = "popped"
    BY <1>1, <1>5, <2>1 DEF Invariant, TypeOK, SlotMirrorsBook
  <2>2. CASE done # "popped"
    <3>1. v \in Slot /\ v.request = q
      BY <1>3, <1>4, ElementType, MirrorType
    <3>2. slots' = [slots EXCEPT ![k] = v]
      BY <1>1, <2>2
    <3>3. /\ DOMAIN book' \subseteq DOMAIN book /\ id \in DOMAIN book
          /\ \A i \in DOMAIN book' : book'[i].index = book[i].index
          /\ \A i \in DOMAIN book' \ {id} : book'[i].request = book[i].request
          /\ book'[id].request = q
      BY <1>1, <1>6
    <3> HIDE DEF v, id
    <3> QED BY <1>3, <1>4, <3>1, <3>2, <3>3, UpdateBook
  <2> QED BY <2>1, <2>2
<1>10. id \in Nat
  BY <1>2, BoundsAssumption DEF TradeResponse, OrderIds
<1>11. loop' \in [pc : {"idle", "route", "sent", "staged", "settling", "stopped"}, id : Nat] /\ loop'.pc = "settling"
  <2> HIDE DEF id
  <2> QED BY <1>1, <1>10
<1>12. TypeOK'
  <2>1. UNCHANGED <<next_order_id, upstream, downstream, pending, latched, broker, market, restarts>>
    BY <1>1
  <2>2. book' \in [DOMAIN book' -> Entry]
    BY <1>1, <1>6
  <2> HIDE DEF v, k, id
  <2> QED BY <1>2, <1>l, <1>7, <1>8, <1>9, <1>11, <2>1, <2>2 DEF Invariant, TypeOK
<1> QED BY <1>9, <1>12 DEF Invariant

\* A response nobody waits for.
LEMMA IgnoreTradeResponseStep ==
  ASSUME Invariant, IgnoreTradeResponse
  PROVE  Invariant'
<1> DEFINE r == Head(responses)
<1>1. /\ responses # <<>> /\ responses' = Tail(responses) /\ pending' = ArchivePending(r)
      /\ UNCHANGED <<next_order_id, slots, upstream, downstream, fund, position, book, loop, latched, broker, market, restarts, lost>>
  BY DEF IgnoreTradeResponse, external
<1>2. r \in TradeResponse /\ responses' \in Seq(TradeResponse)
  BY <1>1, HeadTail DEF Invariant, TypeOK
<1>3. pending' \subseteq OrderIds
  BY <1>1, <1>2, ArchivePendingType
<1> QED BY <1>1, <1>2, <1>3 DEF Invariant, TypeOK, SlotMirrorsBook

\* Orders leave the book; their slots keep the request.
LEMMA ProcessPendingArchivesStep ==
  ASSUME Invariant, NEW due, ProcessPendingArchives(due)
  PROVE  Invariant'
<1> DEFINE archived == {id \in due \cap DOMAIN book : book[id].request.order_state \in TerminalState}
           mark(i) == IF \E id \in archived : book[id].index = i
                      THEN [slots[i] EXCEPT !.stage = "Terminal"] ELSE slots[i]
<1>1. /\ book' = Restrict(book, DOMAIN book \ archived)
      /\ slots' = [i \in DOMAIN slots |-> mark(i)]
      /\ pending' = pending \ due
      /\ loop.pc = "idle"
      /\ UNCHANGED <<next_order_id, upstream, downstream, responses, fund, position, loop, latched, broker, market, restarts, lost>>
  BY DEF ProcessPendingArchives, external
<1>2. slots \in Seq(Slot) /\ book \in [DOMAIN book -> Entry]
  BY DEF Invariant, TypeOK
<1>3. ASSUME NEW i \in DOMAIN slots
      PROVE  mark(i) \in Slot /\ mark(i).request = slots[i].request
  <2>1. slots[i] \in Slot
    BY <1>2, ElementType
  <2>2. [slots[i] EXCEPT !.stage = "Terminal"] \in Slot
    BY <2>1 DEF Slot, OrderSlotState
  <2>3. [slots[i] EXCEPT !.stage = "Terminal"].request = slots[i].request
    BY <2>1 DEF Slot
  <2> HIDE DEF archived
  <2> QED BY <2>1, <2>2, <2>3
<1> HIDE DEF archived, mark
<1>4. /\ slots' \in Seq(Slot) /\ DOMAIN slots' = DOMAIN slots
      /\ \A i \in DOMAIN slots : slots'[i].request = slots[i].request
  <2>1. DOMAIN slots = 1 .. Len(slots) /\ Len(slots) \in Nat
    BY <1>2
  <2> QED BY <1>1, <1>3, <2>1
<1>5. /\ DOMAIN book' \subseteq DOMAIN book
      /\ book' \in [DOMAIN book' -> Entry]
      /\ \A i \in DOMAIN book' : book'[i] = book[i]
  <2>1. book' = [i \in DOMAIN book \ archived |-> book[i]]
    BY <1>1 DEF Restrict
  <2> QED BY <1>2, <2>1
<1>6. TypeOK'
  BY <1>1, <1>4, <1>5 DEF Invariant, TypeOK
<1>7. SlotMirrorsBook'
  BY <1>4, <1>5, ZenonT(120) DEF Invariant, TypeOK, SlotMirrorsBook
<1> QED BY <1>1, <1>6, <1>7 DEF Invariant

\* The loop ends; everything it leaves behind stays as it is.
LEMMA HaltStep ==
  ASSUME Invariant, Halt
  PROVE  Invariant'
<1>1. UNCHANGED <<next_order_id, slots, upstream, downstream, responses, fund, position,
                  book, pending, latched, broker, market, restarts, lost>>
  BY DEF Halt, shm, external
<1>2. loop' \in [pc : {"idle", "route", "sent", "staged", "settling", "stopped"}, id : Nat] /\ loop'.pc = "stopped"
  BY DEF Halt
<1> QED BY <1>1, <1>2 DEF Invariant, TypeOK, SlotMirrorsBook

\* The book a restart builds mirrors the slots it was built from.
LEMMA RestartStep ==
  ASSUME Invariant, NEW kept, Restart(kept)
  PROVE  Invariant'
<1> DEFINE idOf(i) == slots[i].request.internal_order_id
           ids == {idOf(i) : i \in kept}
           slotOf(id) == CHOOSE j \in kept : idOf(j) = id
           entry(id) == [request |-> RecoveredRequest(slots[slotOf(id)].request),
                         fund_frozen |-> 0, index |-> slotOf(id)]
<1>1. /\ book' = [id \in ids |-> entry(id)]
      /\ pending' = {} /\ loop' = Idle /\ latched' = FALSE /\ restarts' = restarts + 1 /\ restarts < MaxRestarts
      /\ kept \subseteq DOMAIN slots
      /\ UNCHANGED <<next_order_id, slots, upstream, downstream, responses, fund, position, broker, market, lost>>
  BY DEF Restart, shm, RecoverySlots
<1>2. slots \in Seq(Slot) /\ restarts \in 0 .. MaxRestarts
  BY DEF Invariant, TypeOK
<1>3. \A i \in kept : i \in Nat \ {0} /\ slots[i] \in Slot
  BY <1>1, <1>2, ElementType
<1>4. \A i \in kept : slots[i].request \in Request /\ idOf(i) \in OrderIds
  BY <1>3 DEF Slot, Request
<1>5. \A id \in ids : slotOf(id) \in kept /\ idOf(slotOf(id)) = id
  OBVIOUS
<1> HIDE DEF slotOf
<1>6. ASSUME NEW id \in ids
      PROVE  /\ entry(id) \in Entry
             /\ entry(id).index = slotOf(id)
             /\ entry(id).request = RecoveredRequest(slots[slotOf(id)].request)
             /\ entry(id).request.internal_order_id = id
             /\ RecoveredRequest(slots[slotOf(id)].request) = RecoveredRequest(entry(id).request)
  <2>1. slotOf(id) \in kept /\ idOf(slotOf(id)) = id
    BY <1>5
  <2> DEFINE w == RecoveredRequest(slots[slotOf(id)].request)
  <2>2. w \in Request /\ w.internal_order_id = id /\ RecoveredRequest(w) = w
    BY <1>4, <2>1, RecoveredRequestType
  <2> HIDE DEF w
  <2>3. entry(id) = [request |-> w, fund_frozen |-> 0, index |-> slotOf(id)]
    BY DEF w
  <2>4. [request |-> w, fund_frozen |-> 0, index |-> slotOf(id)] \in Entry
    BY <1>3, <2>1, <2>2, MaxDValueAssumption DEF Entry, DValue
  <2>5. entry(id).request = w /\ entry(id).index = slotOf(id)
    BY <2>3
  <2> HIDE DEF entry
  <2> QED BY <2>2, <2>3, <2>4, <2>5 DEF w
<1> HIDE DEF entry
<1>7. DOMAIN book' = ids /\ \A id \in ids : book'[id] = entry(id)
  BY <1>1
<1>8. ids \subseteq OrderIds
  BY <1>4
<1> HIDE DEF ids
<1>9. /\ book' \in [DOMAIN book' -> Entry] /\ DOMAIN book' \subseteq OrderIds
      /\ \A id \in DOMAIN book' : book'[id].index \in DOMAIN slots
  <2>1. \A id \in ids : slotOf(id) \in DOMAIN slots
    BY <1>1, <1>5
  <2> QED BY <1>1, <1>6, <1>7, <1>8, <2>1
<1>10. restarts' \in 0 .. MaxRestarts
  BY <1>1, <1>2, BoundsAssumption
<1>11. loop' \in [pc : {"idle", "route", "sent", "staged", "settling", "stopped"}, id : Nat] /\ loop'.pc = "idle"
  BY <1>1 DEF Idle
<1>12. TypeOK'
  BY <1>1, <1>9, <1>10, <1>11 DEF Invariant, TypeOK
<1>13. SlotMirrorsBook'
  BY <1>1, <1>6, <1>7 DEF SlotMirrorsBook
<1> QED BY <1>1, <1>12, <1>13 DEF Invariant

\* The answers other processes queue are trade responses.
LEMMA ResponseType ==
  ASSUME NEW id \in OrderIds, NEW state \in OrderState, NEW side \in TradeSide,
         NEW volume \in Nat, NEW value \in Nat, NEW fee \in Nat
  PROVE  Response(id, state, side, volume, value, fee) \in TradeResponse
  BY DEF Response, TradeResponse

\* The slot at the head of the downstream queue, and its order.
LEMMA OutgoingType ==
  ASSUME Invariant, downstream # <<>>
  PROVE  /\ Head(downstream) \in DOMAIN slots
         /\ Tail(downstream) \in Seq(DOMAIN slots)
         /\ slots[Head(downstream)].request \in Request
<1>1. Head(downstream) \in DOMAIN slots /\ Tail(downstream) \in Seq(DOMAIN slots)
  BY HeadTail DEF Invariant, TypeOK
<1>2. slots[Head(downstream)] \in Slot
  BY <1>1, ElementType DEF Invariant, TypeOK
<1> QED BY <1>1, <1>2 DEF Slot

\* The gateway writes the stage of a slot while the account service may be writing
\* the same slot's request; the request stays the book's.
LEMMA GatewayStageStep ==
  ASSUME Invariant, NEW i \in DOMAIN slots, slots' = [slots EXCEPT ![i].stage = "DownstreamDequeued"],
         UNCHANGED book
  PROVE  /\ slots' \in Seq(Slot)
         /\ DOMAIN slots' = DOMAIN slots
         /\ SlotMirrorsBook'
<1>1. "DownstreamDequeued" \in OrderSlotState
  BY DEF OrderSlotState
<1>2. /\ slots' \in Seq(Slot) /\ DOMAIN slots' = DOMAIN slots
      /\ \A j \in DOMAIN slots : slots'[j].request = slots[j].request
  BY <1>1, StageWrite
<1>3. SlotMirrorsBook'
  BY <1>2 DEF Invariant, TypeOK, SlotMirrorsBook
<1> QED BY <1>2, <1>3

\* The broker receives an order.
LEMMA GatewaySubmitStep ==
  ASSUME Invariant, GatewaySubmit
  PROVE  Invariant'
<1> DEFINE i == Head(downstream)
           q == slots[i].request
           o == [phase |-> "received", side |-> q.trade_side, price |-> q.dprice_entrust,
                 left |-> q.volume_entrust, fee_left |-> q.dfee_estimate + FeeOverrun]
<1>1. /\ downstream # <<>> /\ downstream' = Tail(downstream)
      /\ slots' = [slots EXCEPT ![i].stage = "DownstreamDequeued"]
      /\ broker' = Put(broker, q.internal_order_id, o)
      /\ UNCHANGED <<next_order_id, upstream, responses, fund, position, market, restarts, lost, book, pending, loop, latched>>
  BY DEF GatewaySubmit, service
<1>2. i \in DOMAIN slots /\ downstream' \in Seq(DOMAIN slots) /\ q \in Request
  BY <1>1, OutgoingType
<1>3. slots' \in Seq(Slot) /\ DOMAIN slots' = DOMAIN slots /\ SlotMirrorsBook'
  BY <1>1, <1>2, GatewayStageStep
<1>4. o \in BrokerOrder /\ q.internal_order_id \in OrderIds
  <2> HIDE DEF q
  <2> QED BY <1>2, BoundsAssumption DEF Request, BrokerOrder
<1> HIDE DEF o, q, i
<1>5. DOMAIN broker' \subseteq OrderIds /\ broker' \in [DOMAIN broker' -> BrokerOrder]
  <2>1. DOMAIN broker \subseteq OrderIds /\ broker \in [DOMAIN broker -> BrokerOrder]
    BY DEF Invariant, TypeOK
  <2>2. broker' = [x \in DOMAIN broker \cup {q.internal_order_id} |->
                    IF x = q.internal_order_id THEN o ELSE broker[x]]
    BY <1>1 DEF Put
  <2> QED BY <1>4, <2>1, <2>2
<1>6. TypeOK'
  BY <1>1, <1>2, <1>3, <1>5 DEF Invariant, TypeOK
<1> QED BY <1>1, <1>3, <1>6 DEF Invariant

\* The gateway answers for the broker.
LEMMA GatewayRefuseStep ==
  ASSUME Invariant, GatewayRefuse
  PROVE  Invariant'
<1> DEFINE i == Head(downstream)
           q == slots[i].request
           r == Response(q.internal_order_id, "TraderError", q.trade_side, 0, 0, 0)
<1>1. /\ downstream # <<>> /\ downstream' = Tail(downstream)
      /\ slots' = [slots EXCEPT ![i].stage = "DownstreamDequeued"]
      /\ responses' = Append(responses, r)
      /\ UNCHANGED <<next_order_id, upstream, fund, position, market, broker, restarts, lost, book, pending, loop, latched>>
  BY DEF GatewayRefuse, service, external
<1>2. i \in DOMAIN slots /\ downstream' \in Seq(DOMAIN slots) /\ q \in Request
  BY <1>1, OutgoingType
<1>3. slots' \in Seq(Slot) /\ DOMAIN slots' = DOMAIN slots /\ SlotMirrorsBook'
  BY <1>1, <1>2, GatewayStageStep
<1>4. r \in TradeResponse
  <2>1. q.internal_order_id \in OrderIds /\ q.trade_side \in TradeSide /\ "TraderError" \in OrderState
    BY <1>2 DEF Request, OrderState
  <2> QED BY <2>1, ResponseType
<1> HIDE DEF r, q, i
<1>5. responses' \in Seq(TradeResponse)
  BY <1>1, <1>4, AppendKeeps DEF Invariant, TypeOK
<1>6. TypeOK'
  BY <1>1, <1>2, <1>3, <1>5 DEF Invariant, TypeOK
<1> QED BY <1>1, <1>3, <1>6 DEF Invariant

\* A broker's report or trade adds a response and changes what the broker knows.
LEMMA BrokerAnswerStep ==
  ASSUME Invariant, NEW id \in DOMAIN broker, NEW r \in TradeResponse, NEW o \in BrokerOrder,
         responses' = Append(responses, r),
         broker' = [broker EXCEPT ![id] = o],
         market' \in [cash : Int, bought : Nat, sold : Nat],
         UNCHANGED <<next_order_id, slots, upstream, downstream, fund, position, restarts, lost, book, pending, loop, latched>>
  PROVE  Invariant'
<1>1. responses' \in Seq(TradeResponse)
  BY AppendKeeps DEF Invariant, TypeOK
<1>2. DOMAIN broker' \subseteq OrderIds /\ broker' \in [DOMAIN broker' -> BrokerOrder]
  BY DEF Invariant, TypeOK
<1>3. TypeOK'
  BY <1>1, <1>2 DEF Invariant, TypeOK
<1> QED BY <1>3 DEF Invariant, SlotMirrorsBook

\* Reports without a trade.
LEMMA BrokerReportStep ==
  ASSUME Invariant, NEW id \in DOMAIN broker, NEW phase, NEW state \in OrderState,
         NEW next \in {"received", "working", "done"}, BrokerReport(id, phase, state, next)
  PROVE  Invariant'
<1> DEFINE r == Response(id, state, broker[id].side, 0, 0, 0)
           o == [broker[id] EXCEPT !.phase = next]
<1>1. broker[id] \in BrokerOrder /\ id \in OrderIds /\ market \in [cash : Int, bought : Nat, sold : Nat]
  BY DEF Invariant, TypeOK
<1>2. o \in BrokerOrder /\ broker[id].side \in TradeSide
  BY <1>1 DEF BrokerOrder
<1>3. r \in TradeResponse
  BY <1>1, <1>2, ResponseType
<1>4. /\ responses' = Append(responses, r)
      /\ broker' = [broker EXCEPT ![id] = o]
      /\ UNCHANGED <<next_order_id, slots, upstream, downstream, fund, position, market, restarts, lost, book, pending, loop, latched>>
  BY DEF BrokerReport, service
<1> HIDE DEF r, o
<1> QED BY <1>1, <1>2, <1>3, <1>4, BrokerAnswerStep

\* Trades.
LEMMA BrokerTradeStep ==
  ASSUME Invariant, NEW id \in DOMAIN broker, NEW volume \in Nat, NEW price \in Nat, NEW fee \in Nat,
         BrokerTrade(id, volume, price, fee)
  PROVE  Invariant'
<1> DEFINE r == Response(id, "MarketAccepted", broker[id].side, volume, volume * price, fee)
           o == [phase |-> "working", side |-> broker[id].side, price |-> broker[id].price,
                 left |-> broker[id].left - volume, fee_left |-> broker[id].fee_left - fee]
<1>1. broker[id] \in BrokerOrder /\ id \in OrderIds /\ market \in [cash : Int, bought : Nat, sold : Nat]
  BY DEF Invariant, TypeOK
<1>2. volume <= broker[id].left /\ fee <= broker[id].fee_left
  BY DEF BrokerTrade
<1>3. volume * price \in Nat
  BY NatProduct
<1>4. o \in BrokerOrder /\ broker[id].side \in TradeSide
  <2>1. broker[id].left \in Nat /\ broker[id].fee_left \in Nat /\ broker[id].side \in TradeSide /\ broker[id].price \in Nat
    BY <1>1 DEF BrokerOrder
  <2>2. broker[id].left - volume \in Nat /\ broker[id].fee_left - fee \in Nat
    BY <1>2, <2>1
  <2> QED BY <2>1, <2>2 DEF BrokerOrder
<1>5. r \in TradeResponse
  <2>1. "MarketAccepted" \in OrderState
    BY DEF OrderState
  <2> QED BY <1>1, <1>3, <1>4, <2>1, ResponseType
<1>6. market' \in [cash : Int, bought : Nat, sold : Nat]
  <2> DEFINE cost == volume * price
  <2>1. market' \in {[cash |-> market.cash - (cost + fee), bought |-> market.bought + volume, sold |-> market.sold],
                     [cash |-> market.cash + (cost - fee), bought |-> market.bought, sold |-> market.sold + volume]}
    BY DEF BrokerTrade
  <2>2. cost \in Nat
    BY <1>3
  <2> HIDE DEF cost
  <2> QED BY <1>1, <2>1, <2>2
<1>7. /\ responses' = Append(responses, r)
      /\ broker' = [broker EXCEPT ![id] = o]
      /\ UNCHANGED <<next_order_id, slots, upstream, downstream, fund, position, restarts, lost, book, pending, loop, latched>>
  BY DEF BrokerTrade, service
<1> HIDE DEF r, o
<1> QED BY <1>4, <1>5, <1>6, <1>7, BrokerAnswerStep

\* Client requests are well formed.
LEMMA ClientStep ==
  ASSUME Invariant,
         \/ \E order \in NewOrders : SubmitOrder(order)
         \/ \E orig \in CancelTargets : CancelOrder(orig)
  PROVE  Invariant'
<1>1. ASSUME NEW request, EnqueueOrder(request) PROVE next_order_id \in OrderIds
  <2>1. next_order_id \in 1 .. MaxOrders + 1 /\ next_order_id <= MaxOrders
    BY <1>1 DEF Invariant, TypeOK, EnqueueOrder
  <2> QED BY <2>1, BoundsAssumption DEF OrderIds
<1>2. ASSUME NEW order \in NewOrders, SubmitOrder(order) PROVE Invariant'
  <2> DEFINE q == [internal_order_id |-> next_order_id, order_type |-> "New",
                   trade_side |-> order.trade_side, volume_entrust |-> order.volume_entrust,
                   dprice_entrust |-> order.dprice_entrust, orig_internal_order_id |-> 0,
                   dfee_estimate |-> 0, order_state |-> "UserSubmitted",
                   volume_traded |-> 0, volume_remain |-> order.volume_entrust]
  <2>1. EnqueueOrder(q)
    BY <1>2 DEF SubmitOrder
  <2>2. next_order_id \in OrderIds
    BY <1>1, <2>1
  <2>3. order \in [trade_side : {"Buy", "Sell"}, volume_entrust : Nat \ {0}, dprice_entrust : Nat]
    BY OrdersAssumption
  <2>4. q \in Request
    BY <2>2, <2>3 DEF Request, OrderType, TradeSide, OrderState
  <2> HIDE DEF q
  <2> QED BY <2>1, <2>4, EnqueueOrderStep
<1>3. ASSUME NEW orig \in CancelTargets, CancelOrder(orig) PROVE Invariant'
  <2>1. EnqueueOrder(CancelRequest(next_order_id, orig))
    BY <1>3 DEF CancelOrder
  <2>2. next_order_id \in OrderIds /\ orig \in Nat
    BY <1>1, <2>1, OrdersAssumption
  <2>3. CancelRequest(next_order_id, orig) \in Request
    BY <2>2, CancelRequestType
  <2> QED BY <2>1, <2>3, EnqueueOrderStep
<1> QED BY <1>2, <1>3

\* The broker behind the gateway.
LEMMA BrokerStep ==
  ASSUME Invariant, NEW id \in DOMAIN broker, Broker(id)
  PROVE  Invariant'
<1>1. {"BrokerAccepted", "BrokerRejected", "MarketRejected", "Finished"} \subseteq OrderState
  BY DEF OrderState
<1>2. CASE BrokerAccept(id)
  BY <1>1, <1>2, BrokerReportStep DEF BrokerAccept
<1>3. CASE BrokerReject(id)
  BY <1>1, <1>3, BrokerReportStep DEF BrokerReject
<1>4. CASE MarketReject(id)
  BY <1>1, <1>4, BrokerReportStep DEF MarketReject
<1>5. CASE BrokerFinish(id)
  BY <1>1, <1>5, BrokerReportStep DEF BrokerFinish
<1>6. ASSUME NEW volume \in 1 .. broker[id].left, NEW price \in TradePrices, NEW fee \in 0 .. broker[id].fee_left,
             BrokerTrade(id, volume, price, fee)
      PROVE  Invariant'
  <2>1. broker[id] \in BrokerOrder
    BY DEF Invariant, TypeOK
  <2>2. volume \in Nat /\ price \in Nat /\ fee \in Nat
    BY <2>1, OrdersAssumption DEF BrokerOrder
  <2> QED BY <1>6, <2>2, BrokerTradeStep
<1> QED BY <1>2, <1>3, <1>4, <1>5, <1>6 DEF Broker

-----------------------------------------------------------------------------
\* Every step of every process keeps the invariant.
LEMMA NextInvariant == Invariant /\ [Next]_vars => Invariant'
<1> SUFFICES ASSUME Invariant, [Next]_vars PROVE Invariant'
  OBVIOUS
<1>1. CASE \/ \E order \in NewOrders : SubmitOrder(order)
           \/ \E orig \in CancelTargets : CancelOrder(orig)
  BY <1>1, ClientStep
<1>2. CASE HandleOrderRequest
  BY <1>2, AddRefusedStep, RiskRejectStep, AdmitStep, PushDownstreamStep, StagePushedStep, PublishSubmittedStep,
     RouteOrderRefusedStep, RouteCancelStep DEF HandleOrderRequest
<1>3. CASE HandleResponses
  BY <1>3, HandleTradeResponseStep, IgnoreTradeResponseStep DEF HandleResponses
<1>4. CASE Archive
  BY <1>4, ProcessPendingArchivesStep DEF Archive
<1>5. CASE Dies \/ Restarts
  BY <1>5, DieSettlingStep, RestartStep DEF Dies, Restarts
<1>6. CASE Gateway
  BY <1>6, GatewaySubmitStep, GatewayRefuseStep DEF Gateway
<1>7. CASE \E id \in DOMAIN broker : Broker(id)
  BY <1>7, BrokerStep
<1>8. CASE Halt
  BY <1>8, HaltStep
<1>9. CASE UNCHANGED vars
  BY <1>9 DEF vars, shm, service, external, Invariant, TypeOK, SlotMirrorsBook
<1> QED BY <1>1, <1>2, <1>3, <1>4, <1>5, <1>6, <1>7, <1>8, <1>9 DEF Next

\* The strengthened invariant holds for ever.
THEOREM InvariantHolds == Spec => []Invariant
  BY InitInvariant, NextInvariant, PTL DEF Spec

\* Type correctness: in particular the fund row's words never go below zero or
\* overflow, and no queue and no entry of the book names a slot that does not exist.
THEOREM TypeCorrect == Spec => []TypeOK
<1>1. Invariant => TypeOK
  BY DEF Invariant
<1> QED BY <1>1, InvariantHolds, PTL

\* The slot of every order the book holds is what a restart needs to rebuild it,
\* whatever the gateway and earlier restarts have done (on_order_book_changed,
\* recover_downstream_active_orders_from_shm).
THEOREM SlotsMirrorTheBook == Spec => []SlotMirrorsBook
<1>1. Invariant => SlotMirrorsBook
  BY DEF Invariant
<1> QED BY <1>1, InvariantHolds, PTL

-----------------------------------------------------------------------------
(***************************************************************************)
(* Proofs that follow an order of EventLoop from the API to the broker     *)
(* and its trades back to the book, for every value of the constants.      *)
(*                                                                         *)
(* OneCarrier says that an order on its way to the broker is in one place  *)
(* at a time, which is why it is submitted at most once.  Tracked says     *)
(* where the volume of an order is: what the book thinks remains is what   *)
(* the broker has left and what is queued for the loop.  It is inductive   *)
(* with Invariant and OneCarrier as long as a restart never forgets an     *)
(* order that may still trade (RecoverableCrashes), and it is what makes   *)
(* every trade find its order.  The holdings then follow as a sum.         *)
(***************************************************************************)

-----------------------------------------------------------------------------
(* SumFunctionOnSet, the sum of a function's values over a finite set, for *)
(* the invariants that add up volumes, cash and frozen funds.  The         *)
(* library's induction theorems take the statement to prove as an          *)
(* operator; here induction is the choice of a minimal counterexample      *)
(* among the subsets of a finite set, which is a set.                      *)

\* Of some subsets of a finite set, one has none of the others inside it.
LEMMA MinimalSubset ==
  ASSUME NEW T, IsFiniteSet(T), NEW bad, bad \subseteq SUBSET T, bad # {}
  PROVE  \E s \in bad : \A u \in bad : u \subseteq s => u = s
<1> DEFINE R == StrictSubsetOrdering(T)
<1>1. IsWellFoundedOn(R, SUBSET T)
  BY FS_StrictSubsetOrderingWellFounded, FS_FiniteSubsetsOfFinite
<1>2. \A u, s \in SUBSET T : u \subseteq s /\ u # s => <<u, s>> \in R
  BY DEF StrictSubsetOrdering
<1> HIDE DEF R
<1>3. PICK s \in bad : \A u \in bad : ~ (<<u, s>> \in R)
  BY <1>1, WFMin
<1> QED BY <1>2, <1>3

\* The element a sum adds first.
Chosen(s) == CHOOSE x \in s : TRUE

\* g gives the sum of f over every subset of S.
SumsOf(f, g, S) ==
  \A s \in SUBSET S : g[s] = IF s = {} THEN 0 ELSE f[Chosen(s)] + g[s \ {Chosen(s)}]

\* g is the table of these sums, and nothing else.
SumTable(f, g, S) == SumsOf(f, g, S) /\ g = [s \in SUBSET S |-> g[s]]

\* A set that is not empty has a chosen element, and is larger without it no more.
LEMMA ChosenProperty ==
  ASSUME NEW s, s # {}
  PROVE  Chosen(s) \in s /\ s \ {Chosen(s)} \subseteq s /\ s \ {Chosen(s)} # s
<1>1. Chosen(s) \in s
  BY DEF Chosen
<1> QED BY <1>1

\* Two ways to sum agree where both are defined.
LEMMA SumsUnique ==
  ASSUME NEW f, NEW T, IsFiniteSet(T), NEW S, S \subseteq T,
         NEW g, SumsOf(f, g, S), NEW h, SumsOf(f, h, T)
  PROVE  \A s \in SUBSET S : g[s] = h[s]
<1> DEFINE bad == {s \in SUBSET S : g[s] # h[s]}
<1> SUFFICES ASSUME bad # {} PROVE FALSE
  OBVIOUS
<1>1. IsFiniteSet(S)
  BY FS_Subset
<1>2. PICK s \in bad : \A u \in bad : u \subseteq s => u = s
  <2>1. bad \subseteq SUBSET S
    OBVIOUS
  <2> HIDE DEF bad
  <2> QED BY <1>1, <2>1, MinimalSubset
<1>3. s \subseteq S /\ g[s] # h[s]
  BY <1>2
<1>4. CASE s = {}
  BY <1>3, <1>4 DEF SumsOf
<1>5. CASE s # {}
  <2>1. s \ {Chosen(s)} \subseteq s /\ s \ {Chosen(s)} # s
    BY <1>5, ChosenProperty
  <2>2. g[s \ {Chosen(s)}] = h[s \ {Chosen(s)}]
    BY <1>2, <1>3, <2>1
  <2>3. /\ g[s] = f[Chosen(s)] + g[s \ {Chosen(s)}]
        /\ h[s] = f[Chosen(s)] + h[s \ {Chosen(s)}]
    BY <1>3, <1>5 DEF SumsOf
  <2> QED BY <1>3, <2>2, <2>3
<1> QED BY <1>4, <1>5

\* Every function has a sum over every finite set.
LEMMA SumsExist ==
  ASSUME NEW f, NEW T, IsFiniteSet(T)
  PROVE  \E g : SumTable(f, g, T)
<1> DEFINE bad == {s \in SUBSET T : ~ \E g : SumTable(f, g, s)}
<1> SUFFICES bad = {}
  OBVIOUS
<1> SUFFICES ASSUME bad # {} PROVE FALSE
  OBVIOUS
<1>1. PICK s \in bad : \A u \in bad : u \subseteq s => u = s
  <2>1. bad \subseteq SUBSET T
    OBVIOUS
  <2> HIDE DEF bad
  <2> QED BY <2>1, MinimalSubset
<1>2. s \subseteq T /\ ~ \E g : SumTable(f, g, s)
  BY <1>1
<1> DEFINE G(u) == CHOOSE g : SumTable(f, g, u)
<1>3. ASSUME NEW u, u \subseteq s, u # s PROVE SumsOf(f, G(u), u)
  <2>1. u \in SUBSET T /\ u \notin bad
    BY <1>1, <1>2, <1>3
  <2>2. \E g : SumTable(f, g, u)
    BY <2>1
  <2> QED BY <2>2 DEF SumTable
<1> HIDE DEF G, bad
<1> DEFINE h == [v \in SUBSET s |-> IF v = {} THEN 0
                                    ELSE f[Chosen(v)] + G(v \ {Chosen(v)})[v \ {Chosen(v)}]]
<1>4. ASSUME NEW v, v \subseteq s, v # {} PROVE h[v] = f[Chosen(v)] + h[v \ {Chosen(v)}]
  <2> DEFINE u == v \ {Chosen(v)}
             w == u \ {Chosen(u)}
  <2>1. u \subseteq s /\ u # s
    BY <1>4, ChosenProperty
  <2>2. SumsOf(f, G(u), u)
    BY <1>3, <2>1
  <2>3. h[u] = G(u)[u]
    <3>1. CASE u = {}
      <4>1. h[u] = 0
        BY <2>1, <3>1
      <4>2. G(u)[u] = 0
        BY <2>2, <3>1 DEF SumsOf
      <4> QED BY <4>1, <4>2
    <3>2. CASE u # {}
      <4>1. w \subseteq u /\ w # u
        BY <3>2, ChosenProperty
      <4>2. SumsOf(f, G(w), w)
        <5>1. w \subseteq s /\ w # s
          BY <2>1, <4>1
        <5> QED BY <1>3, <5>1
      <4>3. IsFiniteSet(u)
        BY <1>2, <2>1, FS_Subset
      <4> HIDE DEF w
      <4>4. G(w)[w] = G(u)[w]
        BY <2>2, <4>1, <4>2, <4>3, SumsUnique
      <4>5. h[u] = f[Chosen(u)] + G(w)[w]
        BY <2>1, <3>2 DEF w
      <4>6. G(u)[u] = f[Chosen(u)] + G(u)[w]
        BY <2>2, <3>2 DEF SumsOf, w
      <4> QED BY <4>4, <4>5, <4>6
    <3> QED BY <3>1, <3>2
  <2>4. h[v] = f[Chosen(v)] + G(u)[u]
    BY <1>4
  <2> QED BY <2>3, <2>4
<1>5. h[{}] = 0
  OBVIOUS
<1>6. h = [v \in SUBSET s |-> h[v]]
  OBVIOUS
<1> HIDE DEF h
<1>7. SumsOf(f, h, s)
  BY <1>4, <1>5 DEF SumsOf
<1> QED BY <1>2, <1>6, <1>7 DEF SumTable

\* What SumFunctionOnSet means: the sums over the subsets, taken at the whole set.
LEMMA SumIsSums ==
  ASSUME NEW f, NEW S, IsFiniteSet(S)
  PROVE  \E g : SumsOf(f, g, S) /\ SumFunctionOnSet(f, S) = g[S]
<1> DEFINE body(g, s) == IF s = {} THEN 0 ELSE f[Chosen(s)] + g[s \ {Chosen(s)}]
           fix(g) == g = [s \in SUBSET S |-> body(g, s)]
<1>1. \E g : fix(g)
  <2>1. PICK g : SumTable(f, g, S)
    BY SumsExist
  <2>2. g = [s \in SUBSET S |-> g[s]] /\ \A s \in SUBSET S : g[s] = body(g, s)
    BY <2>1 DEF SumTable, SumsOf
  <2>3. fix(g)
    BY <2>1, <2>2
  <2> QED BY <2>3
<1> DEFINE it == CHOOSE g : fix(g)
<1>2. fix(it)
  BY <1>1
<1>3. SumFunctionOnSet(f, S) = it[S]
  BY DEF SumFunctionOnSet, FoldFunctionOnSet, MapThenFoldSet, Chosen
<1> HIDE DEF it
<1>4. SumsOf(f, it, S)
  BY <1>2 DEF SumsOf
<1> QED BY <1>3, <1>4

-----------------------------------------------------------------------------
(* The laws of sums.                                                       *)

\* Nothing adds up to zero.
LEMMA SumEmpty == ASSUME NEW f PROVE SumFunctionOnSet(f, {}) = 0
<1>1. IsFiniteSet({})
  BY FS_EmptySet
<1>2. PICK g : SumsOf(f, g, {}) /\ SumFunctionOnSet(f, {}) = g[{}]
  BY <1>1, SumIsSums
<1> QED BY <1>2 DEF SumsOf

\* A sum is its chosen term and the sum of the rest.
LEMMA SumChosen ==
  ASSUME NEW f, NEW S, IsFiniteSet(S), S # {}
  PROVE  SumFunctionOnSet(f, S) = f[Chosen(S)] + SumFunctionOnSet(f, S \ {Chosen(S)})
<1> DEFINE R == S \ {Chosen(S)}
<1>1. R \subseteq S /\ IsFiniteSet(R)
  BY FS_Subset
<1>2. PICK g : SumsOf(f, g, S) /\ SumFunctionOnSet(f, S) = g[S]
  BY SumIsSums
<1>3. PICK h : SumsOf(f, h, R) /\ SumFunctionOnSet(f, R) = h[R]
  BY <1>1, SumIsSums
<1>4. g[S] = f[Chosen(S)] + g[R]
  BY <1>2 DEF SumsOf
<1> HIDE DEF R
<1>5. h[R] = g[R]
  <2>1. \A s \in SUBSET R : h[s] = g[s]
    BY <1>1, <1>2, <1>3, SumsUnique
  <2> QED BY <2>1
<1> QED BY <1>2, <1>3, <1>4, <1>5 DEF R

\* A sum of integers is an integer.
LEMMA SumInt ==
  ASSUME NEW f, NEW S, IsFiniteSet(S), \A x \in S : f[x] \in Int
  PROVE  SumFunctionOnSet(f, S) \in Int
<1> DEFINE bad == {s \in SUBSET S : SumFunctionOnSet(f, s) \notin Int}
<1> SUFFICES ASSUME bad # {} PROVE FALSE
  OBVIOUS
<1>1. bad \subseteq SUBSET S
  OBVIOUS
<1>2. PICK s \in bad : \A u \in bad : u \subseteq s => u = s
  <2> HIDE DEF bad
  <2> QED BY <1>1, MinimalSubset
<1>3. s \subseteq S /\ SumFunctionOnSet(f, s) \notin Int /\ IsFiniteSet(s)
  BY <1>2, FS_Subset
<1>4. s # {}
  BY <1>3, SumEmpty
<1>5. SumFunctionOnSet(f, s) = f[Chosen(s)] + SumFunctionOnSet(f, s \ {Chosen(s)})
  BY <1>3, <1>4, SumChosen
<1>6. Chosen(s) \in s /\ s \ {Chosen(s)} \subseteq s /\ s \ {Chosen(s)} # s
  BY <1>4, ChosenProperty
<1>7. SumFunctionOnSet(f, s \ {Chosen(s)}) \in Int
  BY <1>2, <1>3, <1>6
<1> QED BY <1>3, <1>5, <1>6, <1>7

\* Any term may be taken first.
LEMMA SumRemove ==
  ASSUME NEW f, NEW S, IsFiniteSet(S), \A y \in S : f[y] \in Int, NEW x \in S
  PROVE  SumFunctionOnSet(f, S) = f[x] + SumFunctionOnSet(f, S \ {x})
<1> DEFINE bad == {s \in SUBSET S : \E y \in s : SumFunctionOnSet(f, s) # f[y] + SumFunctionOnSet(f, s \ {y})}
<1> SUFFICES ASSUME bad # {} PROVE FALSE
  OBVIOUS
<1>1. bad \subseteq SUBSET S
  OBVIOUS
<1>2. PICK s \in bad : \A u \in bad : u \subseteq s => u = s
  <2> HIDE DEF bad
  <2> QED BY <1>1, MinimalSubset
<1>3. s \subseteq S /\ IsFiniteSet(s)
  BY <1>2, FS_Subset
<1>4. PICK y \in s : SumFunctionOnSet(f, s) # f[y] + SumFunctionOnSet(f, s \ {y})
  BY <1>2
<1> DEFINE c == Chosen(s)
<1>5. c \in s
  BY <1>4, ChosenProperty
<1>6. SumFunctionOnSet(f, s) = f[c] + SumFunctionOnSet(f, s \ {c})
  BY <1>3, <1>4, SumChosen
<1> HIDE DEF c
<1>7. y # c
  BY <1>4, <1>6
<1>8. /\ SumFunctionOnSet(f, s \ {c}) = f[y] + SumFunctionOnSet(f, (s \ {c}) \ {y})
      /\ SumFunctionOnSet(f, s \ {y}) = f[c] + SumFunctionOnSet(f, (s \ {y}) \ {c})
  <2>1. /\ s \ {c} \in SUBSET S /\ s \ {c} # s /\ y \in s \ {c}
        /\ s \ {y} \in SUBSET S /\ s \ {y} # s /\ c \in s \ {y}
    BY <1>3, <1>5, <1>7
  <2>2. s \ {c} \notin bad /\ s \ {y} \notin bad
    <3> HIDE DEF bad
    <3> QED BY <1>2, <2>1
  <2> QED BY <2>1, <2>2
<1>9. (s \ {c}) \ {y} = (s \ {y}) \ {c}
  OBVIOUS
<1>10. f[y] \in Int /\ f[c] \in Int /\ SumFunctionOnSet(f, (s \ {c}) \ {y}) \in Int
  <2>1. IsFiniteSet((s \ {c}) \ {y}) /\ \A z \in (s \ {c}) \ {y} : f[z] \in Int
    <3>1. (s \ {c}) \ {y} \subseteq S
      BY <1>3
    <3> QED BY <3>1, FS_Subset
  <2> QED BY <1>3, <1>5, <2>1, SumInt
<1> DEFINE rest == SumFunctionOnSet(f, (s \ {c}) \ {y})
<1>11. /\ SumFunctionOnSet(f, s) = f[c] + (f[y] + rest)
       /\ SumFunctionOnSet(f, s \ {y}) = f[c] + rest
       /\ rest \in Int
  BY <1>6, <1>8, <1>9, <1>10
<1> HIDE DEF rest, bad
<1> QED BY <1>4, <1>10, <1>11

\* A new term is added.
LEMMA SumAdd ==
  ASSUME NEW f, NEW S, IsFiniteSet(S), \A y \in S : f[y] \in Int, NEW x, x \notin S, f[x] \in Int
  PROVE  SumFunctionOnSet(f, S \cup {x}) = SumFunctionOnSet(f, S) + f[x]
<1> DEFINE T == S \cup {x}
<1>1. IsFiniteSet(T)
  BY FS_AddElement
<1>2. x \in T /\ T \ {x} = S /\ \A y \in T : f[y] \in Int
  OBVIOUS
<1>3. SumFunctionOnSet(f, S) \in Int
  BY SumInt
<1> HIDE DEF T
<1>4. SumFunctionOnSet(f, T) = f[x] + SumFunctionOnSet(f, T \ {x})
  BY <1>1, <1>2, SumRemove
<1>5. SumFunctionOnSet(f, T) = f[x] + SumFunctionOnSet(f, S)
  BY <1>2, <1>4
<1> DEFINE total == SumFunctionOnSet(f, S)
<1>6. f[x] + total = total + f[x]
  <2>1. total \in Int
    BY <1>3
  <2> HIDE DEF total
  <2> QED BY <2>1
<1> QED BY <1>5, <1>6 DEF T

\* Equal terms have equal sums.
LEMMA SumEqual ==
  ASSUME NEW f, NEW g, NEW S, IsFiniteSet(S), \A x \in S : f[x] = g[x]
  PROVE  SumFunctionOnSet(f, S) = SumFunctionOnSet(g, S)
<1> DEFINE bad == {s \in SUBSET S : SumFunctionOnSet(f, s) # SumFunctionOnSet(g, s)}
<1> SUFFICES ASSUME bad # {} PROVE FALSE
  OBVIOUS
<1>1. bad \subseteq SUBSET S
  OBVIOUS
<1>2. PICK s \in bad : \A u \in bad : u \subseteq s => u = s
  <2> HIDE DEF bad
  <2> QED BY <1>1, MinimalSubset
<1>3. s \subseteq S /\ SumFunctionOnSet(f, s) # SumFunctionOnSet(g, s) /\ IsFiniteSet(s)
  BY <1>2, FS_Subset
<1>4. s # {}
  BY <1>3, SumEmpty
<1>5. /\ SumFunctionOnSet(f, s) = f[Chosen(s)] + SumFunctionOnSet(f, s \ {Chosen(s)})
      /\ SumFunctionOnSet(g, s) = g[Chosen(s)] + SumFunctionOnSet(g, s \ {Chosen(s)})
  BY <1>3, <1>4, SumChosen
<1>6. Chosen(s) \in s /\ s \ {Chosen(s)} \subseteq s /\ s \ {Chosen(s)} # s
  BY <1>4, ChosenProperty
<1>7. SumFunctionOnSet(f, s \ {Chosen(s)}) = SumFunctionOnSet(g, s \ {Chosen(s)})
  BY <1>2, <1>3, <1>6
<1> QED BY <1>3, <1>5, <1>6, <1>7

\* One term changes.
LEMMA SumUpdate ==
  ASSUME NEW f, NEW g, NEW S, IsFiniteSet(S), \A y \in S : f[y] \in Int /\ g[y] \in Int,
         NEW x \in S, \A y \in S \ {x} : g[y] = f[y]
  PROVE  SumFunctionOnSet(g, S) = (SumFunctionOnSet(f, S) - f[x]) + g[x]
<1> DEFINE R == S \ {x}
<1>1. IsFiniteSet(R)
  BY FS_Subset
<1>2. SumFunctionOnSet(f, R) \in Int
  BY <1>1, SumInt
<1>3. SumFunctionOnSet(g, R) = SumFunctionOnSet(f, R)
  BY <1>1, SumEqual
<1>4. SumFunctionOnSet(f, S) = f[x] + SumFunctionOnSet(f, R)
  BY SumRemove
<1>5. SumFunctionOnSet(g, S) = g[x] + SumFunctionOnSet(g, R)
  BY SumRemove
<1> HIDE DEF R
<1> QED BY <1>2, <1>3, <1>4, <1>5

\* Terms that are not negative: neither is the sum.
LEMMA SumNat ==
  ASSUME NEW f, NEW S, IsFiniteSet(S), \A x \in S : f[x] \in Nat
  PROVE  SumFunctionOnSet(f, S) \in Nat
<1> DEFINE bad == {s \in SUBSET S : SumFunctionOnSet(f, s) \notin Nat}
<1> SUFFICES ASSUME bad # {} PROVE FALSE
  OBVIOUS
<1>1. bad \subseteq SUBSET S
  OBVIOUS
<1>2. PICK s \in bad : \A u \in bad : u \subseteq s => u = s
  <2> HIDE DEF bad
  <2> QED BY <1>1, MinimalSubset
<1>3. s \subseteq S /\ SumFunctionOnSet(f, s) \notin Nat /\ IsFiniteSet(s)
  BY <1>2, FS_Subset
<1>4. s # {}
  BY <1>3, SumEmpty
<1>5. SumFunctionOnSet(f, s) = f[Chosen(s)] + SumFunctionOnSet(f, s \ {Chosen(s)})
  BY <1>3, <1>4, SumChosen
<1>6. Chosen(s) \in s /\ s \ {Chosen(s)} \subseteq s /\ s \ {Chosen(s)} # s
  BY <1>4, ChosenProperty
<1>7. SumFunctionOnSet(f, s \ {Chosen(s)}) \in Nat
  BY <1>2, <1>3, <1>6
<1> QED BY <1>3, <1>5, <1>6, <1>7

\* And no term exceeds it.
LEMMA SumElement ==
  ASSUME NEW f, NEW S, IsFiniteSet(S), \A y \in S : f[y] \in Nat, NEW x \in S
  PROVE  f[x] <= SumFunctionOnSet(f, S)
<1>1. SumFunctionOnSet(f, S) = f[x] + SumFunctionOnSet(f, S \ {x})
  BY SumRemove
<1>2. IsFiniteSet(S \ {x})
  BY FS_Subset
<1>3. SumFunctionOnSet(f, S \ {x}) \in Nat
  BY <1>2, SumNat
<1> QED BY <1>1, <1>3

\* Terms that move up by one place add up to the same.
LEMMA SumShift ==
  ASSUME NEW f, NEW g, NEW n \in Nat, \A i \in 1 .. n : g[i] = f[i + 1] /\ g[i] \in Int
  PROVE  SumFunctionOnSet(g, 1 .. n) = SumFunctionOnSet(f, 2 .. n + 1)
<1> DEFINE up(s) == {i + 1 : i \in s}
           bad == {s \in SUBSET (1 .. n) : SumFunctionOnSet(g, s) # SumFunctionOnSet(f, up(s))}
<1>1. IsFiniteSet(1 .. n) /\ IsFiniteSet(2 .. n + 1)
  BY FS_Interval
<1>2. up(1 .. n) = 2 .. n + 1
  <2>1. \A i \in 2 .. n + 1 : i - 1 \in 1 .. n /\ i = (i - 1) + 1
    OBVIOUS
  <2> QED BY <2>1
<1>3. bad = {}
  <2> SUFFICES ASSUME bad # {} PROVE FALSE
    OBVIOUS
  <2>1. bad \subseteq SUBSET (1 .. n)
    OBVIOUS
  <2>2. PICK s \in bad : \A u \in bad : u \subseteq s => u = s
    <3> DEFINE N == 1 .. n
    <3>1. IsFiniteSet(N) /\ bad \subseteq SUBSET N
      BY <1>1, <2>1
    <3> HIDE DEF bad, N
    <3> QED BY <3>1, MinimalSubset
  <2>3. s \subseteq 1 .. n /\ SumFunctionOnSet(g, s) # SumFunctionOnSet(f, up(s)) /\ IsFiniteSet(s)
    BY <1>1, <2>2, FS_Subset
  <2>4. s # {}
    <3>1. up({}) = {}
      OBVIOUS
    <3> QED BY <2>3, <3>1, SumEmpty
  <2> DEFINE c == Chosen(s)
             r == s \ {c}
  <2>5. c \in s /\ r \subseteq s /\ r # s
    BY <2>4, ChosenProperty
  <2>6. SumFunctionOnSet(g, s) = g[c] + SumFunctionOnSet(g, r)
    BY <2>3, <2>4, SumChosen
  <2> HIDE DEF c
  <2>7. SumFunctionOnSet(g, r) = SumFunctionOnSet(f, up(r))
    <3>1. r \in SUBSET (1 .. n) /\ r \notin bad
      <4> HIDE DEF bad
      <4> QED BY <2>2, <2>3, <2>5
    <3> QED BY <3>1
  <2>8. up(s) \ {c + 1} = up(r) /\ c + 1 \in up(s)
    <3>1. c \in Int /\ \A i \in s : i \in Int
      BY <2>3, <2>5
    <3> QED BY <2>5, <3>1
  <2>9. up(s) \subseteq 2 .. n + 1 /\ \A i \in up(s) : f[i] \in Int
    BY <2>3
  <2>10. IsFiniteSet(up(s))
    BY <1>1, <2>9, FS_Subset
  <2> HIDE DEF up, r
  <2>11. SumFunctionOnSet(f, up(s)) = f[c + 1] + SumFunctionOnSet(f, up(r))
    BY <2>8, <2>9, <2>10, SumRemove
  <2>12. g[c] = f[c + 1]
    BY <2>3, <2>5
  <2> QED BY <2>3, <2>6, <2>7, <2>11, <2>12
<1>4. 1 .. n \notin bad /\ 1 .. n \in SUBSET (1 .. n)
  BY <1>3
<1>5. SumFunctionOnSet(g, 1 .. n) = SumFunctionOnSet(f, up(1 .. n))
  BY <1>4
<1> HIDE DEF up
<1> QED BY <1>2, <1>5

-----------------------------------------------------------------------------
(* Sums over a queue.                                                      *)

\* What the elements of a sequence weigh together, each as the function w says.
SeqSum(w, s) == SumFunction([i \in DOMAIN s |-> w[s[i]]])

\* The sum as one over an interval of positions.
LEMMA SeqSumInterval ==
  ASSUME NEW w, NEW S, NEW s \in Seq(S)
  PROVE  SeqSum(w, s) = SumFunctionOnSet([i \in 1 .. Len(s) |-> w[s[i]]], 1 .. Len(s))
<1>1. DOMAIN s = 1 .. Len(s)
  OBVIOUS
<1> QED BY <1>1 DEF SeqSum, SumFunction

\* Integers weigh an integer.
LEMMA SeqSumInt ==
  ASSUME NEW w, NEW S, NEW s \in Seq(S), \A x \in S : w[x] \in Int
  PROVE  SeqSum(w, s) \in Int
<1> DEFINE N == 1 .. Len(s)
           f == [i \in N |-> w[s[i]]]
<1>1. \A i \in N : f[i] \in Int
  OBVIOUS
<1>2. IsFiniteSet(N)
  BY FS_Interval
<1>3. SeqSum(w, s) = SumFunctionOnSet(f, N)
  BY SeqSumInterval
<1> HIDE DEF f, N
<1> QED BY <1>1, <1>2, <1>3, SumInt

\* Natural numbers weigh a natural number, and no element weighs more.
LEMMA SeqSumNat ==
  ASSUME NEW w, NEW S, NEW s \in Seq(S), \A x \in S : w[x] \in Nat
  PROVE  /\ SeqSum(w, s) \in Nat
         /\ \A i \in DOMAIN s : w[s[i]] <= SeqSum(w, s)
<1> DEFINE N == 1 .. Len(s)
           f == [i \in N |-> w[s[i]]]
<1>1. \A i \in N : f[i] \in Nat
  OBVIOUS
<1>2. IsFiniteSet(N)
  BY FS_Interval
<1>3. SeqSum(w, s) = SumFunctionOnSet(f, N)
  BY SeqSumInterval
<1>4. \A i \in DOMAIN s : i \in N /\ f[i] = w[s[i]]
  OBVIOUS
<1> HIDE DEF f, N
<1>5. SumFunctionOnSet(f, N) \in Nat
  BY <1>1, <1>2, SumNat
<1>6. \A i \in N : f[i] <= SumFunctionOnSet(f, N)
  BY <1>1, <1>2, SumElement
<1> QED BY <1>3, <1>4, <1>5, <1>6

\* Weightless elements weigh nothing together.
LEMMA SeqSumZero ==
  ASSUME NEW w, NEW S, NEW s \in Seq(S), \A i \in DOMAIN s : w[s[i]] = 0
  PROVE  SeqSum(w, s) = 0
<1> DEFINE N == 1 .. Len(s)
           f == [i \in N |-> w[s[i]]]
<1>1. \A i \in N : f[i] = 0
  OBVIOUS
<1>2. IsFiniteSet(N)
  <2>1. 1 \in Int /\ Len(s) \in Int
    OBVIOUS
  <2> QED BY <2>1, FS_Interval
<1>3. SeqSum(w, s) = SumFunctionOnSet(f, N)
  BY SeqSumInterval
<1> HIDE DEF f, N
<1> DEFINE bad == {u \in SUBSET N : SumFunctionOnSet(f, u) # 0}
<1> SUFFICES ASSUME bad # {} PROVE FALSE
  BY <1>3
<1>4. bad \subseteq SUBSET N
  OBVIOUS
<1>5. PICK u \in bad : \A v \in bad : v \subseteq u => v = u
  <2> HIDE DEF bad
  <2> QED BY <1>2, <1>4, MinimalSubset
<1>6. u \subseteq N /\ SumFunctionOnSet(f, u) # 0 /\ IsFiniteSet(u)
  BY <1>2, <1>5, FS_Subset
<1>7. u # {}
  BY <1>6, SumEmpty
<1>8. SumFunctionOnSet(f, u) = f[Chosen(u)] + SumFunctionOnSet(f, u \ {Chosen(u)})
  BY <1>6, <1>7, SumChosen
<1>9. Chosen(u) \in u /\ u \ {Chosen(u)} \subseteq u /\ u \ {Chosen(u)} # u
  BY <1>7, ChosenProperty
<1>10. SumFunctionOnSet(f, u \ {Chosen(u)}) = 0 /\ f[Chosen(u)] = 0
  BY <1>1, <1>5, <1>6, <1>9
<1> QED BY <1>6, <1>8, <1>10

\* An element queued adds its weight.
LEMMA SeqSumAppend ==
  ASSUME NEW w, NEW S, NEW s \in Seq(S), \A x \in S : w[x] \in Int, NEW r \in S
  PROVE  SeqSum(w, Append(s, r)) = SeqSum(w, s) + w[r]
<1> DEFINE n == Len(s)
           t == Append(s, r)
           f == [i \in 1 .. n |-> w[s[i]]]
           g == [i \in 1 .. n + 1 |-> w[t[i]]]
<1>1. n \in Nat /\ t \in Seq(S) /\ Len(t) = n + 1
  OBVIOUS
<1>2. SeqSum(w, s) = SumFunctionOnSet(f, 1 .. n) /\ SeqSum(w, t) = SumFunctionOnSet(g, 1 .. n + 1)
  BY <1>1, SeqSumInterval
<1>3. /\ \A i \in 1 .. n : f[i] = g[i] /\ g[i] \in Int
      /\ g[n + 1] = w[r] /\ g[n + 1] \in Int
  OBVIOUS
<1>4. IsFiniteSet(1 .. n)
  BY <1>1, FS_Interval
<1>5. 1 .. n + 1 = (1 .. n) \cup {n + 1} /\ n + 1 \notin 1 .. n
  BY <1>1
<1> HIDE DEF f, g, n, t
<1>6. SumFunctionOnSet(f, 1 .. n) = SumFunctionOnSet(g, 1 .. n)
  <2> DEFINE N == 1 .. n
  <2>1. IsFiniteSet(N) /\ \A i \in N : f[i] = g[i]
    BY <1>3, <1>4
  <2> HIDE DEF N
  <2>2. SumFunctionOnSet(f, N) = SumFunctionOnSet(g, N)
    BY <2>1, SumEqual
  <2> QED BY <2>2 DEF N
<1>7. SumFunctionOnSet(g, (1 .. n) \cup {n + 1}) = SumFunctionOnSet(g, 1 .. n) + g[n + 1]
  <2> DEFINE N == 1 .. n
             m == n + 1
  <2>1. IsFiniteSet(N) /\ m \notin N /\ g[m] \in Int /\ \A i \in N : g[i] \in Int
    BY <1>3, <1>4, <1>5
  <2> HIDE DEF N, m
  <2>2. SumFunctionOnSet(g, N \cup {m}) = SumFunctionOnSet(g, N) + g[m]
    BY <2>1, SumAdd
  <2> QED BY <2>2 DEF N, m
<1>8. SeqSum(w, t) = SeqSum(w, s) + w[r]
  BY <1>2, <1>3, <1>5, <1>6, <1>7
<1> QED BY <1>8 DEF t

\* An element taken off the front takes its weight away.
LEMMA SeqSumTail ==
  ASSUME NEW w, NEW S, NEW s \in Seq(S), \A x \in S : w[x] \in Int, s # <<>>
  PROVE  SeqSum(w, s) = w[Head(s)] + SeqSum(w, Tail(s))
<1> DEFINE n == Len(s) - 1
           t == Tail(s)
           f == [i \in 1 .. n + 1 |-> w[s[i]]]
           g == [i \in 1 .. n |-> w[t[i]]]
<1>1. n \in Nat /\ t \in Seq(S) /\ Len(t) = n /\ Len(s) = n + 1
  OBVIOUS
<1>2. SeqSum(w, s) = SumFunctionOnSet(f, 1 .. n + 1) /\ SeqSum(w, t) = SumFunctionOnSet(g, 1 .. n)
  BY <1>1, SeqSumInterval
<1>3. /\ \A i \in 1 .. n : g[i] = f[i + 1] /\ g[i] \in Int
      /\ \A i \in 1 .. n + 1 : f[i] \in Int
      /\ f[1] = w[Head(s)]
  BY <1>1
<1>4. IsFiniteSet(1 .. n + 1)
  BY <1>1, FS_Interval
<1>5. (1 .. n + 1) \ {1} = 2 .. n + 1 /\ 1 \in 1 .. n + 1
  BY <1>1
<1> HIDE DEF f, g, n, t
<1>6. SumFunctionOnSet(g, 1 .. n) = SumFunctionOnSet(f, 2 .. n + 1)
  BY <1>1, <1>3, SumShift
<1>7. SumFunctionOnSet(f, 1 .. n + 1) = f[1] + SumFunctionOnSet(f, (1 .. n + 1) \ {1})
  <2> DEFINE N == 1 .. n + 1
  <2>1. IsFiniteSet(N) /\ 1 \in N /\ \A i \in N : f[i] \in Int
    BY <1>3, <1>4, <1>5
  <2> HIDE DEF N
  <2>2. SumFunctionOnSet(f, N) = f[1] + SumFunctionOnSet(f, N \ {1})
    BY <2>1, SumRemove
  <2> QED BY <2>2 DEF N
<1>8. SeqSum(w, s) = w[Head(s)] + SeqSum(w, t)
  BY <1>2, <1>3, <1>5, <1>6, <1>7
<1> QED BY <1>8 DEF t

-----------------------------------------------------------------------------
(* An order is in one place at a time.                                     *)

\* The ids of the orders a queue of indices into the pool s names.
IdsOf(s, queue) == {s[queue[a]].request.internal_order_id : a \in DOMAIN queue}

\* No order is twice in the queue.
NoRepeat(s, queue) ==
  \A a, b \in DOMAIN queue :
    s[queue[a]].request.internal_order_id = s[queue[b]].request.internal_order_id => a = b

\* The order the router holds: admitted and not yet pushed downstream.
Routing == IF loop.pc = "route" THEN {loop.id} ELSE {}

\* On its way to the broker an order is in one place at a time: waiting upstream,
\* with the router, waiting downstream, or at the broker; and ids are not reused.
OneCarrier ==
  /\ NoRepeat(slots, upstream) /\ NoRepeat(slots, downstream)
  /\ IdsOf(slots, upstream) \cap (Routing \cup IdsOf(slots, downstream) \cup DOMAIN broker) = {}
  /\ IdsOf(slots, downstream) \cap (Routing \cup DOMAIN broker) = {}
  /\ Routing \cap DOMAIN broker = {}
  /\ \A i \in DOMAIN slots : slots[i].request.internal_order_id < next_order_id
  /\ \A id \in DOMAIN broker : id < next_order_id

\* Every slot of the pool s is in t, under the same order id.
KeepsIds(s, t) ==
  /\ DOMAIN s \subseteq DOMAIN t
  /\ \A i \in DOMAIN s : t[i].request.internal_order_id = s[i].request.internal_order_id

\* A queue names the same orders while slots keep their ids.
LEMMA QueueKept ==
  ASSUME NEW s, NEW t, KeepsIds(s, t), NEW queue \in Seq(DOMAIN s)
  PROVE  /\ IdsOf(t, queue) = IdsOf(s, queue)
         /\ NoRepeat(s, queue) => NoRepeat(t, queue)
<1>1. \A a \in DOMAIN queue : queue[a] \in DOMAIN s
  BY ElementType
<1>2. \A a \in DOMAIN queue : t[queue[a]].request.internal_order_id = s[queue[a]].request.internal_order_id
  BY <1>1 DEF KeepsIds
<1> QED BY <1>2 DEF IdsOf, NoRepeat

\* Taking the head off a queue without repetition (try_pop).
LEMMA QueuePopped ==
  ASSUME NEW s, NEW S, NEW queue \in Seq(S), queue # <<>>, NoRepeat(s, queue)
  PROVE  /\ NoRepeat(s, Tail(queue))
         /\ IdsOf(s, queue) = IdsOf(s, Tail(queue)) \cup {s[Head(queue)].request.internal_order_id}
         /\ s[Head(queue)].request.internal_order_id \notin IdsOf(s, Tail(queue))
<1>1. /\ Len(queue) \in Nat \ {0}
      /\ DOMAIN queue = 1 .. Len(queue)
      /\ DOMAIN Tail(queue) = 1 .. Len(queue) - 1
      /\ \A a \in 1 .. Len(queue) - 1 : Tail(queue)[a] = queue[a + 1]
      /\ Head(queue) = queue[1]
  OBVIOUS
<1>2. \A a \in 1 .. Len(queue) - 1 : a + 1 \in DOMAIN queue /\ a + 1 # 1
  BY <1>1
<1>3. \A a \in DOMAIN queue : a = 1 \/ (a - 1 \in 1 .. Len(queue) - 1 /\ (a - 1) + 1 = a)
  BY <1>1
<1>4. 1 \in DOMAIN queue
  BY <1>1
<1>5. NoRepeat(s, Tail(queue))
  BY <1>1, <1>2 DEF NoRepeat
<1>6. s[Head(queue)].request.internal_order_id \notin IdsOf(s, Tail(queue))
  BY <1>1, <1>2, <1>4, SMTT(120) DEF NoRepeat, IdsOf
<1>7. IdsOf(s, queue) = IdsOf(s, Tail(queue)) \cup {s[Head(queue)].request.internal_order_id}
  <2>1. ASSUME NEW x \in IdsOf(s, queue)
        PROVE  x \in IdsOf(s, Tail(queue)) \cup {s[Head(queue)].request.internal_order_id}
    <3>1. PICK a \in DOMAIN queue : x = s[queue[a]].request.internal_order_id
      BY DEF IdsOf
    <3>2. CASE a = 1
      BY <1>1, <3>1, <3>2
    <3>3. CASE a # 1
      <4>1. a - 1 \in DOMAIN Tail(queue) /\ Tail(queue)[a - 1] = queue[a]
        BY <1>1, <1>3, <3>3
      <4> QED BY <3>1, <4>1 DEF IdsOf
    <3> QED BY <3>2, <3>3
  <2>2. ASSUME NEW x \in IdsOf(s, Tail(queue)) PROVE x \in IdsOf(s, queue)
    BY <1>1, <1>2 DEF IdsOf
  <2>3. s[Head(queue)].request.internal_order_id \in IdsOf(s, queue)
    BY <1>1, <1>4 DEF IdsOf
  <2> QED BY <2>1, <2>2, <2>3
<1> QED BY <1>5, <1>6, <1>7

\* Queueing an order that the queue does not hold (try_push).
LEMMA QueuePushed ==
  ASSUME NEW s, NEW S, NEW queue \in Seq(S), NEW i \in S, NoRepeat(s, queue),
         s[i].request.internal_order_id \notin IdsOf(s, queue)
  PROVE  /\ NoRepeat(s, Append(queue, i))
         /\ IdsOf(s, Append(queue, i)) = IdsOf(s, queue) \cup {s[i].request.internal_order_id}
<1> DEFINE n == Len(queue) + 1
           q == Append(queue, i)
<1>1. /\ n \in Nat /\ DOMAIN queue = 1 .. n - 1 /\ DOMAIN q = 1 .. n
      /\ q[n] = i /\ \A a \in DOMAIN queue : q[a] = queue[a] /\ a \in DOMAIN q /\ a # n
      /\ n \in DOMAIN q
      /\ \A a \in DOMAIN q : a # n => a \in DOMAIN queue
  OBVIOUS
<1> HIDE DEF q, n
<1>2. NoRepeat(s, q)
  BY <1>1 DEF NoRepeat, IdsOf
<1>3. IdsOf(s, q) = IdsOf(s, queue) \cup {s[i].request.internal_order_id}
  <2>1. ASSUME NEW x \in IdsOf(s, q) PROVE x \in IdsOf(s, queue) \cup {s[i].request.internal_order_id}
    <3>1. PICK a \in DOMAIN q : x = s[q[a]].request.internal_order_id
      BY DEF IdsOf
    <3> QED BY <1>1, <3>1 DEF IdsOf
  <2>2. IdsOf(s, queue) \subseteq IdsOf(s, q)
    BY <1>1 DEF IdsOf
  <2>3. s[i].request.internal_order_id \in IdsOf(s, q)
    BY <1>1 DEF IdsOf
  <2> QED BY <2>1, <2>2, <2>3
<1> QED BY <1>2, <1>3 DEF q

\* A slot's new content keeps the order's id.
LEMMA WriteKeepsIds ==
  ASSUME NEW S, NEW s \in Seq(S), NEW k \in DOMAIN s, NEW v,
         v.request.internal_order_id = s[k].request.internal_order_id
  PROVE  KeepsIds(s, [s EXCEPT ![k] = v]) /\ DOMAIN [s EXCEPT ![k] = v] = DOMAIN s
  BY DEF KeepsIds

\* So does a stage update.
LEMMA StageKeepsIds ==
  ASSUME NEW s \in Seq(Slot), NEW k \in DOMAIN s, NEW stage
  PROVE  KeepsIds(s, [s EXCEPT ![k].stage = stage]) /\ DOMAIN [s EXCEPT ![k].stage = stage] = DOMAIN s
<1>1. s[k] \in Slot
  BY ElementType
<1>2. [s[k] EXCEPT !.stage = stage].request = s[k].request
  BY <1>1 DEF Slot
<1> QED BY <1>2 DEF KeepsIds

\* Steps that move no order towards the broker: slots keep their ids, and a slot
\* that is new has an old id.
LEMMA NoMoveStep ==
  ASSUME Invariant, OneCarrier, KeepsIds(slots, slots'),
         \A i \in DOMAIN slots' : slots'[i].request.internal_order_id < next_order_id,
         UNCHANGED <<next_order_id, upstream, downstream>>,
         DOMAIN broker' = DOMAIN broker, Routing' \subseteq Routing
  PROVE  OneCarrier'
<1>1. upstream \in Seq(DOMAIN slots) /\ downstream \in Seq(DOMAIN slots)
  BY DEF Invariant, TypeOK
<1>2. /\ IdsOf(slots', upstream) = IdsOf(slots, upstream)
      /\ IdsOf(slots', downstream) = IdsOf(slots, downstream)
      /\ NoRepeat(slots', upstream) /\ NoRepeat(slots', downstream)
  BY <1>1, QueueKept DEF OneCarrier
<1> QED BY <1>2 DEF OneCarrier

\* The usual case of it: no new slot.
LEMMA SamePoolStep ==
  ASSUME Invariant, OneCarrier, KeepsIds(slots, slots'), DOMAIN slots' = DOMAIN slots,
         UNCHANGED <<next_order_id, upstream, downstream>>,
         DOMAIN broker' = DOMAIN broker, Routing' \subseteq Routing
  PROVE  OneCarrier'
<1>1. \A i \in DOMAIN slots' : slots'[i].request.internal_order_id < next_order_id
  BY DEF OneCarrier, KeepsIds
<1> QED BY <1>1, NoMoveStep

\* The loop takes an order off the upstream queue, and perhaps holds it for the router.
LEMMA TakeStep ==
  ASSUME Invariant, OneCarrier, upstream # <<>>, upstream' = Tail(upstream),
         KeepsIds(slots, slots'), DOMAIN slots' = DOMAIN slots,
         UNCHANGED <<next_order_id, downstream>>, DOMAIN broker' = DOMAIN broker,
         Routing' \subseteq Routing \cup {slots[Head(upstream)].request.internal_order_id}
  PROVE  OneCarrier'
<1> DEFINE id == slots[Head(upstream)].request.internal_order_id
<1>1. upstream \in Seq(DOMAIN slots) /\ downstream \in Seq(DOMAIN slots) /\ Tail(upstream) \in Seq(DOMAIN slots)
  BY HeadTail DEF Invariant, TypeOK
<1>2. /\ NoRepeat(slots, Tail(upstream))
      /\ IdsOf(slots, upstream) = IdsOf(slots, Tail(upstream)) \cup {id}
      /\ id \notin IdsOf(slots, Tail(upstream))
  BY <1>1, QueuePopped DEF OneCarrier
<1>3. /\ IdsOf(slots', upstream') = IdsOf(slots, Tail(upstream))
      /\ IdsOf(slots', downstream') = IdsOf(slots, downstream)
      /\ NoRepeat(slots', upstream') /\ NoRepeat(slots', downstream')
  BY <1>1, <1>2, QueueKept DEF OneCarrier
<1>4. \A i \in DOMAIN slots' : slots'[i].request.internal_order_id < next_order_id
  BY DEF OneCarrier, KeepsIds
<1> HIDE DEF id
<1>5. Routing' \subseteq Routing \cup {id}
  BY DEF id
<1> QED BY <1>2, <1>3, <1>4, <1>5 DEF OneCarrier

\* The gateway takes an order off the downstream queue, and perhaps submits it.
LEMMA SendStep ==
  ASSUME Invariant, OneCarrier, downstream # <<>>, downstream' = Tail(downstream),
         KeepsIds(slots, slots'), DOMAIN slots' = DOMAIN slots,
         UNCHANGED <<next_order_id, upstream>>, Routing' = Routing,
         DOMAIN broker' \subseteq DOMAIN broker \cup {slots[Head(downstream)].request.internal_order_id}
  PROVE  OneCarrier'
<1> DEFINE id == slots[Head(downstream)].request.internal_order_id
<1>1. /\ upstream \in Seq(DOMAIN slots) /\ downstream \in Seq(DOMAIN slots) /\ Tail(downstream) \in Seq(DOMAIN slots)
      /\ Head(downstream) \in DOMAIN slots
  BY HeadTail DEF Invariant, TypeOK
<1>2. /\ NoRepeat(slots, Tail(downstream))
      /\ IdsOf(slots, downstream) = IdsOf(slots, Tail(downstream)) \cup {id}
      /\ id \notin IdsOf(slots, Tail(downstream))
  BY <1>1, QueuePopped DEF OneCarrier
<1>3. /\ IdsOf(slots', downstream') = IdsOf(slots, Tail(downstream))
      /\ IdsOf(slots', upstream') = IdsOf(slots, upstream)
      /\ NoRepeat(slots', upstream') /\ NoRepeat(slots', downstream')
  BY <1>1, <1>2, QueueKept DEF OneCarrier
<1>4. \A i \in DOMAIN slots' : slots'[i].request.internal_order_id < next_order_id
  BY DEF OneCarrier, KeepsIds
<1>5. id < next_order_id
  BY <1>1 DEF OneCarrier
<1> HIDE DEF id
<1>6. DOMAIN broker' \subseteq DOMAIN broker \cup {id}
  BY DEF id
<1> QED BY <1>2, <1>3, <1>4, <1>5, <1>6 DEF OneCarrier

\* The API uses a fresh id.
LEMMA EnqueueOnce ==
  ASSUME Invariant, OneCarrier, NEW request, request.internal_order_id = next_order_id, EnqueueOrder(request)
  PROVE  OneCarrier'
<1> DEFINE n == Len(slots) + 1
<1>1. /\ upstream \in Seq(DOMAIN slots) /\ downstream \in Seq(DOMAIN slots) /\ slots \in Seq(Slot)
      /\ next_order_id \in Nat /\ next_order_id' = next_order_id + 1
      /\ \A i \in DOMAIN slots : slots[i].request.internal_order_id \in Nat
      /\ DOMAIN broker \subseteq Nat
  <2>1. /\ slots \in Seq(Slot) /\ next_order_id \in 1 .. MaxOrders + 1 /\ DOMAIN broker \subseteq OrderIds
        /\ upstream \in Seq(DOMAIN slots) /\ downstream \in Seq(DOMAIN slots)
    BY DEF Invariant, TypeOK
  <2>2. next_order_id' = next_order_id + 1
    BY DEF EnqueueOrder
  <2>3. \A i \in DOMAIN slots : slots[i].request \in Request
    <3>1. \A i \in DOMAIN slots : slots[i] \in Slot
      BY <2>1, ElementType
    <3> QED BY <3>1 DEF Slot
  <2>4. \A i \in DOMAIN slots : slots[i].request.internal_order_id \in OrderIds
    BY <2>3 DEF Request
  <2> QED BY <2>1, <2>2, <2>4, BoundsAssumption DEF OrderIds
<1>2. /\ UNCHANGED <<downstream, loop, broker>> /\ Routing' = Routing /\ DOMAIN broker' = DOMAIN broker
  BY DEF EnqueueOrder, service, external, Routing
<1>3. /\ \A i \in DOMAIN slots : slots[i].request.internal_order_id < next_order_id'
      /\ \A id \in DOMAIN broker : id < next_order_id'
  BY <1>1 DEF OneCarrier
<1>4. CASE UNCHANGED <<slots, upstream>>
  BY <1>2, <1>3, <1>4 DEF OneCarrier
<1>5. ASSUME NEW v, v.request = request, slots' = Append(slots, v),
             upstream' \in {upstream, Append(upstream, n)}
      PROVE  OneCarrier'
  <2>1. /\ DOMAIN slots' = DOMAIN slots \cup {n} /\ slots'[n] = v
        /\ \A i \in DOMAIN slots : slots'[i] = slots[i]
    BY <1>1, <1>5
  <2>2. KeepsIds(slots, slots')
    BY <2>1 DEF KeepsIds
  <2>3. /\ IdsOf(slots', upstream) = IdsOf(slots, upstream)
        /\ IdsOf(slots', downstream) = IdsOf(slots, downstream)
        /\ NoRepeat(slots', upstream) /\ NoRepeat(slots', downstream)
    BY <1>1, <2>2, QueueKept DEF OneCarrier
  <2>4. slots'[n].request.internal_order_id = next_order_id
    BY <1>5, <2>1
  <2>5. \A x \in IdsOf(slots, upstream) \cup IdsOf(slots, downstream) \cup DOMAIN broker \cup Routing : x \in Nat /\ x < next_order_id
    <3>1. \A a \in DOMAIN upstream : upstream[a] \in DOMAIN slots
      BY <1>1, ElementType
    <3>2. \A a \in DOMAIN downstream : downstream[a] \in DOMAIN slots
      BY <1>1, ElementType
    <3>3. loop.pc = "route" => loop.id \in Nat /\ loop.id < next_order_id
      <4>1. loop.pc = "route" => /\ loop.id \in DOMAIN book
                                 /\ book[loop.id].index \in DOMAIN slots
        BY DEF Invariant, TypeOK
      <4> QED BY <1>1, <4>1, SlotOwner DEF OneCarrier
    <3> QED BY <1>1, <3>1, <3>2, <3>3 DEF OneCarrier, IdsOf, Routing
  <2>6. next_order_id \notin IdsOf(slots, upstream) \cup IdsOf(slots, downstream) \cup DOMAIN broker \cup Routing
    BY <1>1, <2>5
  <2>7. /\ NoRepeat(slots', upstream')
        /\ IdsOf(slots', upstream') \subseteq IdsOf(slots, upstream) \cup {next_order_id}
    <3>1. CASE upstream' = upstream
      BY <2>3, <3>1
    <3>2. CASE upstream' = Append(upstream, n)
      <4>1. upstream \in Seq(DOMAIN slots') /\ n \in DOMAIN slots'
        BY <1>1, <2>1, SeqMonotone
      <4> HIDE DEF n
      <4>2. /\ NoRepeat(slots', Append(upstream, n))
            /\ IdsOf(slots', Append(upstream, n)) = IdsOf(slots', upstream) \cup {slots'[n].request.internal_order_id}
        BY <2>3, <2>4, <2>6, <4>1, QueuePushed
      <4> QED BY <2>3, <2>4, <3>2, <4>2
    <3> QED BY <1>5, <3>1, <3>2
  <2>8. \A i \in DOMAIN slots' : slots'[i].request.internal_order_id < next_order_id'
    BY <1>1, <1>3, <2>1, <2>4
  <2> QED BY <1>2, <1>3, <2>3, <2>6, <2>7, <2>8 DEF OneCarrier
<1> QED BY <1>4, <1>5 DEF EnqueueOrder

\* An order that leaves the upstream queue keeps its id, whatever becomes of it.
LEMMA TakeUpstreamOnce ==
  ASSUME Invariant, OneCarrier, AddRefused \/ RiskReject \/ Admit
  PROVE  OneCarrier'
<1> DEFINE i == Head(upstream)
<1>1. /\ upstream # <<>> /\ upstream' = Tail(upstream) /\ loop.pc = "idle"
      /\ UNCHANGED <<next_order_id, downstream, broker>>
  BY DEF AddRefused, RiskReject, Admit, TakeUpstream, service, external
<1>2. /\ i \in DOMAIN slots /\ slots \in Seq(Slot) /\ Incoming \in Request
      /\ Incoming.internal_order_id = slots[i].request.internal_order_id
  BY <1>1, IncomingType DEF Invariant, TypeOK
<1> HIDE DEF Incoming
<1>3. CASE AddRefused
  <2>1. KeepsIds(slots, slots') /\ DOMAIN slots' = DOMAIN slots
    BY <1>2, <1>3, StageKeepsIds DEF AddRefused
  <2>2. Routing' = Routing
    BY <1>3 DEF AddRefused, service, Routing
  <2> QED BY <1>1, <2>1, <2>2, TakeStep
<1>4. ASSUME NEW stage, NEW state \in OrderState,
             slots' = [slots EXCEPT ![i] = [stage |-> stage, request |-> UpdateState(Incoming, state)]]
      PROVE  KeepsIds(slots, slots') /\ DOMAIN slots' = DOMAIN slots
  <2> DEFINE v == [stage |-> stage, request |-> UpdateState(Incoming, state)]
  <2>1. v.request.internal_order_id = slots[i].request.internal_order_id
    BY <1>2, UpdateStateType
  <2>2. slots' = [slots EXCEPT ![i] = v]
    BY <1>4
  <2> HIDE DEF v, i
  <2> QED BY <1>2, <2>1, <2>2, WriteKeepsIds
<1>5. CASE RiskReject
  <2>1. slots' = [slots EXCEPT ![i] = [stage |-> "RiskRejected", request |-> UpdateState(Incoming, "RiskControllerRejected")]]
    BY <1>5 DEF RiskReject
  <2>2. "RiskControllerRejected" \in OrderState
    BY DEF OrderState
  <2>3. KeepsIds(slots, slots') /\ DOMAIN slots' = DOMAIN slots
    BY <1>4, <2>1, <2>2
  <2>4. Routing' = Routing
    BY <1>5 DEF RiskReject, Routing
  <2> QED BY <1>1, <2>3, <2>4, TakeStep
<1>6. CASE Admit
  <2>1. /\ slots' = [slots EXCEPT ![i] = [stage |-> "UpstreamDequeued", request |-> UpdateState(Incoming, "RiskControllerAccepted")]]
        /\ loop' = [pc |-> "route", id |-> UpdateState(Incoming, "RiskControllerAccepted").internal_order_id]
    BY <1>6 DEF Admit
  <2>2. "RiskControllerAccepted" \in OrderState
    BY DEF OrderState
  <2>3. KeepsIds(slots, slots') /\ DOMAIN slots' = DOMAIN slots
    BY <1>4, <2>1, <2>2
  <2>4. Routing' = {slots[i].request.internal_order_id}
    BY <1>2, <2>1, <2>2, UpdateStateType DEF Routing
  <2> QED BY <1>1, <2>3, <2>4, TakeStep
<1> QED BY <1>3, <1>5, <1>6

\* The router hands the order it holds to the downstream queue and holds it no more.
LEMMA PushDownstreamOnce ==
  ASSUME Invariant, OneCarrier, PushDownstream
  PROVE  OneCarrier'
<1> DEFINE i == book[loop.id].index
<1>1. /\ loop.pc = "route" /\ loop.id \in DOMAIN book /\ i \in DOMAIN slots
      /\ upstream \in Seq(DOMAIN slots) /\ downstream \in Seq(DOMAIN slots)
  BY DEF Invariant, TypeOK, PushDownstream
<1>2. slots[i].request.internal_order_id = loop.id
  BY <1>1, SlotOwner
<1>3. /\ UNCHANGED <<next_order_id, slots, upstream, broker>>
      /\ downstream' = Append(downstream, i)
  BY DEF PushDownstream, external
<1>4. Routing' = {} /\ Routing = {loop.id}
  BY <1>1 DEF PushDownstream, Routing, Invariant, TypeOK
<1> HIDE DEF i
<1>5. /\ NoRepeat(slots, Append(downstream, i))
      /\ IdsOf(slots, Append(downstream, i)) = IdsOf(slots, downstream) \cup {loop.id}
  BY <1>1, <1>2, <1>4, QueuePushed DEF OneCarrier
<1> QED BY <1>3, <1>4, <1>5 DEF OneCarrier

\* Storing the stage changes no id.
LEMMA StagePushedOnce ==
  ASSUME Invariant, OneCarrier, StagePushed
  PROVE  OneCarrier'
<1>1. /\ loop.pc = "sent" /\ loop.id \in DOMAIN book /\ book[loop.id].index \in DOMAIN slots
      /\ slots \in Seq(Slot)
      /\ slots' = [slots EXCEPT ![book[loop.id].index].stage = "DownstreamQueued"]
      /\ UNCHANGED <<next_order_id, upstream, downstream, broker>>
  BY DEF Invariant, TypeOK, StagePushed, StageStore, external
<1>2. KeepsIds(slots, slots') /\ DOMAIN slots' = DOMAIN slots
  BY <1>1, StageKeepsIds
<1>3. Routing' = {}
  BY DEF StagePushed, StageStore, Routing, Invariant, TypeOK
<1> QED BY <1>1, <1>2, <1>3, SamePoolStep

\* Marking the order as submitted writes its own slot.
LEMMA PublishOnce ==
  ASSUME Invariant, OneCarrier, PublishSubmitted
  PROVE  OneCarrier'
<1> DEFINE k == book[loop.id].index
           v == Mirror(slots[k], UpdateState(book[loop.id].request, "TraderSubmitted"))
<1>1. /\ loop.id \in DOMAIN book /\ k \in DOMAIN slots /\ slots \in Seq(Slot)
      /\ book[loop.id].request \in Request /\ book[loop.id].request.internal_order_id = loop.id
  BY DEF Invariant, TypeOK, SlotMirrorsBook, Entry, PublishSubmitted, Publish
<1>2. slots[k].request.internal_order_id = loop.id
  BY <1>1, SlotOwner
<1>3. v.request.internal_order_id = loop.id
  <2>1. "TraderSubmitted" \in OrderState
    BY DEF OrderState
  <2> QED BY <1>1, <2>1, UpdateStateType DEF Mirror
<1>4. /\ slots' = [slots EXCEPT ![k] = v] /\ loop' = Idle
      /\ UNCHANGED <<next_order_id, upstream, downstream, broker>>
  BY DEF PublishSubmitted, Publish, external
<1> HIDE DEF v, k
<1>5. KeepsIds(slots, slots') /\ DOMAIN slots' = DOMAIN slots
  BY <1>1, <1>2, <1>3, <1>4, WriteKeepsIds
<1>6. Routing' = {}
  BY <1>4 DEF Routing, Idle
<1> QED BY <1>4, <1>5, <1>6, SamePoolStep

\* A failed route writes the order's own slot, and at most adds one for a cancel
\* that carries the same id and that no queue names.
LEMMA RouteFailedOnce ==
  ASSUME Invariant, OneCarrier, loop.id \in DOMAIN book,
         NEW s \in Seq(Slot), DOMAIN slots \subseteq DOMAIN s,
         \A i \in DOMAIN slots : s[i] = slots[i],
         \A i \in DOMAIN s \ DOMAIN slots : s[i].request.internal_order_id = loop.id,
         RouteFailed(s)
  PROVE  OneCarrier'
<1> DEFINE id == loop.id
           k == book[id].index
           a0 == [book |-> book, fund |-> fund]
           a == ReleaseOrderResources(a0, id)
           v == [stage |-> "QueuePushFailed", request |-> UpdateState(a.book[id].request, "TraderError")]
<1>1. /\ book \in [DOMAIN book -> Entry] /\ fund \in Fund /\ k \in DOMAIN slots
      /\ book[id].request \in Request /\ book[id].request.internal_order_id = id
  BY DEF Invariant, TypeOK, SlotMirrorsBook, Entry
<1>2. Account(a0, DOMAIN book) /\ a0.book = book
  BY <1>1 DEF Account
<1>3. /\ slots' = [s EXCEPT ![a.book[id].index] = v] /\ loop' = Idle
      /\ UNCHANGED <<next_order_id, upstream, downstream, broker>>
  BY DEF RouteFailed, external
<1> HIDE DEF a0
<1>4. SameOrders(a, a0, DOMAIN book)
  BY <1>2, ReleaseOrderResourcesSafe
<1> HIDE DEF a
<1>5. a.book[id].index = k /\ a.book[id].request = book[id].request
  BY <1>2, <1>4 DEF SameOrders
<1>6. v.request.internal_order_id = id
  <2>1. "TraderError" \in OrderState
    BY DEF OrderState
  <2> QED BY <1>1, <1>5, <2>1, UpdateStateType
<1>7. slots[k].request.internal_order_id = id
  BY SlotOwner
<1>8. slots' = [s EXCEPT ![k] = v]
  BY <1>3, <1>5
<1> HIDE DEF v, k, id
<1>9. k \in DOMAIN s /\ s[k].request.internal_order_id = id
  BY <1>1, <1>7
<1>10. KeepsIds(s, slots') /\ DOMAIN slots' = DOMAIN s
  BY <1>6, <1>8, <1>9, WriteKeepsIds
<1>11. KeepsIds(slots, slots')
  BY <1>10 DEF KeepsIds
<1>12. \A i \in DOMAIN slots' : slots'[i].request.internal_order_id < next_order_id
  <2>1. id < next_order_id
    BY <1>1, <1>7 DEF OneCarrier
  <2>2. \A i \in DOMAIN s : s[i].request.internal_order_id < next_order_id
    BY <2>1 DEF OneCarrier, id
  <2> QED BY <1>10, <2>2 DEF KeepsIds
<1>13. Routing' = {}
  BY <1>3 DEF Routing, Idle
<1> QED BY <1>3, <1>11, <1>12, <1>13, NoMoveStep

\* The downstream queue is full.
LEMMA RouteOrderRefusedOnce ==
  ASSUME Invariant, OneCarrier, RouteOrderRefused
  PROVE  OneCarrier'
<1>1. loop.id \in DOMAIN book /\ slots \in Seq(Slot) /\ RouteFailed(slots)
  BY DEF Invariant, TypeOK, RouteOrderRefused
<1> QED BY <1>1, RouteFailedOnce

\* The router's second slot for a cancel carries the cancel's id.
LEMMA RouteCancelOnce ==
  ASSUME Invariant, OneCarrier, RouteCancel
  PROVE  OneCarrier'
<1> DEFINE c == CancelRequest(loop.id, book[loop.id].request.orig_internal_order_id)
           q == UpdateState(c, "TraderPending")
           v == [stage |-> "QueuePushFailed", request |-> q]
<1>1. loop.id \in DOMAIN book /\ slots \in Seq(Slot)
  BY DEF Invariant, TypeOK, RouteCancel
<1>2. loop.id \in OrderIds /\ book[loop.id] \in Entry
  BY <1>1 DEF Invariant, TypeOK
<1>3. book[loop.id].request.orig_internal_order_id \in Nat
  BY <1>2 DEF Entry, Request
<1>4. RouteFailed(IF Len(slots) < PoolCapacity THEN Append(slots, v) ELSE slots)
  BY DEF RouteCancel
<1>5. c \in Request /\ c.internal_order_id = loop.id
  <2>1. c \in Request
    BY <1>2, <1>3, CancelRequestType
  <2> QED BY <2>1 DEF CancelRequest
<1> HIDE DEF c
<1>6. q \in Request /\ q.internal_order_id = loop.id
  <2>1. "TraderPending" \in OrderState
    BY DEF OrderState
  <2> QED BY <1>5, <2>1, UpdateStateType
<1> HIDE DEF q
<1>7. v \in Slot /\ v.request.internal_order_id = loop.id
  BY <1>6 DEF Slot, OrderSlotState
<1> HIDE DEF v
<1>8. CASE Len(slots) < PoolCapacity
  <2> DEFINE s == Append(slots, v)
  <2>1. /\ s \in Seq(Slot) /\ DOMAIN slots \subseteq DOMAIN s /\ \A i \in DOMAIN slots : s[i] = slots[i]
        /\ \A i \in DOMAIN s \ DOMAIN slots : s[i] = v
    BY <1>1, <1>7
  <2>2. RouteFailed(s)
    BY <1>4, <1>8
  <2> HIDE DEF s
  <2> QED BY <1>1, <1>7, <2>1, <2>2, RouteFailedOnce
<1>9. CASE ~ (Len(slots) < PoolCapacity)
  <2>1. RouteFailed(slots)
    BY <1>4, <1>9
  <2> QED BY <1>1, <2>1, RouteFailedOnce
<1> QED BY <1>8, <1>9

\* A response is mirrored into its own order's slot.
LEMMA HandleTradeResponseOnce ==
  ASSUME Invariant, OneCarrier, HandleTradeResponse
  PROVE  OneCarrier'
<1> DEFINE r == Head(responses)
           id == r.internal_order_id
           k == book[id].index
           q == Settled(r).book[id].request
           v == Mirror(slots[k], q)
<1>1. /\ responses # <<>> /\ id \in DOMAIN book /\ slots' = [slots EXCEPT ![k] = v]
      /\ UNCHANGED <<next_order_id, upstream, downstream, loop, broker>>
  BY DEF HandleTradeResponse, ApplyTradeResponse, external
<1>2. r \in TradeResponse
  BY <1>1, HeadTail DEF Invariant, TypeOK
<1>3. /\ slots \in Seq(Slot) /\ k \in DOMAIN slots
      /\ book[id].request \in Request /\ book[id].request.internal_order_id = id
  BY <1>1 DEF Invariant, TypeOK, SlotMirrorsBook, Entry
<1>4. slots[k].request.internal_order_id = id
  BY <1>1, SlotOwner
<1>5. q = Reported(book[id].request, r)
  BY <1>1, <1>2, SettledSafe
<1> HIDE DEF q
<1>6. v.request.internal_order_id = id
  BY <1>2, <1>3, <1>5, ReportedType DEF Mirror
<1> HIDE DEF v, k, id, r
<1>7. KeepsIds(slots, slots') /\ DOMAIN slots' = DOMAIN slots
  BY <1>1, <1>3, <1>4, <1>6, WriteKeepsIds
<1>8. Routing' = Routing
  BY <1>1 DEF Routing
<1> QED BY <1>1, <1>7, <1>8, SamePoolStep

\* So does a service that dies over a response.
LEMMA DieSettlingOnce ==
  ASSUME Invariant, OneCarrier, NEW done, DieSettling(done)
  PROVE  OneCarrier'
<1> DEFINE r == Head(responses)
           id == r.internal_order_id
           k == book[id].index
           q == RequestAt(done, book[id].request, r)
           v == Mirror(slots[k], q)
<1>1. /\ responses # <<>> /\ id \in DOMAIN book
      /\ slots' = slots \/ slots' = [slots EXCEPT ![k] = v]
      /\ loop' = [pc |-> "settling", id |-> id]
      /\ UNCHANGED <<next_order_id, upstream, downstream, broker>>
  BY DEF DieSettling
<1>2. r \in TradeResponse
  BY <1>1, HeadTail DEF Invariant, TypeOK
<1>3. /\ slots \in Seq(Slot) /\ k \in DOMAIN slots
      /\ book[id].request \in Request /\ book[id].request.internal_order_id = id
  BY <1>1 DEF Invariant, TypeOK, SlotMirrorsBook, Entry
<1>4. slots[k].request.internal_order_id = id
  BY <1>1, SlotOwner
<1>5. q.internal_order_id = id
  BY <1>2, <1>3, RequestAtType
<1> HIDE DEF q
<1>6. v.request.internal_order_id = id
  BY <1>5 DEF Mirror
<1>7. Routing' = {}
  BY <1>1 DEF Routing
<1> HIDE DEF v, k, id, r
<1>8. KeepsIds(slots, slots') /\ DOMAIN slots' = DOMAIN slots
  <2>1. CASE slots' = slots
    BY <2>1 DEF KeepsIds
  <2>2. CASE slots' = [slots EXCEPT ![k] = v]
    BY <1>3, <1>4, <1>6, <2>2, WriteKeepsIds
  <2> QED BY <1>1, <2>1, <2>2
<1> QED BY <1>1, <1>7, <1>8, SamePoolStep

\* Archiving marks stages only.
LEMMA ArchiveOnce ==
  ASSUME Invariant, OneCarrier, NEW due, ProcessPendingArchives(due)
  PROVE  OneCarrier'
<1> DEFINE archived == {id \in due \cap DOMAIN book : book[id].request.order_state \in TerminalState}
           hit(i) == \E id \in archived : book[id].index = i
<1>1. /\ slots' = [i \in DOMAIN slots |-> IF hit(i) THEN [slots[i] EXCEPT !.stage = "Terminal"] ELSE slots[i]]
      /\ UNCHANGED <<next_order_id, upstream, downstream, loop, broker>>
  BY DEF ProcessPendingArchives, external
<1>2. \A i \in DOMAIN slots : slots[i] \in Slot
  BY ElementType DEF Invariant, TypeOK
<1>3. \A i \in DOMAIN slots : [slots[i] EXCEPT !.stage = "Terminal"].request = slots[i].request
  BY <1>2 DEF Slot
<1> HIDE DEF hit
<1>4. KeepsIds(slots, slots') /\ DOMAIN slots' = DOMAIN slots
  BY <1>1, <1>3 DEF KeepsIds
<1>5. Routing' = Routing
  BY <1>1 DEF Routing
<1> QED BY <1>1, <1>4, <1>5, SamePoolStep

\* Steps that leave the pool, the queues and the broker's orders alone.
LEMMA ElsewhereOnce ==
  ASSUME Invariant, OneCarrier, UNCHANGED <<next_order_id, slots, upstream, downstream>>,
         DOMAIN broker' = DOMAIN broker,
         loop' = loop \/ loop'.pc \in {"idle", "stopped"}
  PROVE  OneCarrier'
<1>1. KeepsIds(slots, slots') /\ DOMAIN slots' = DOMAIN slots
  BY DEF KeepsIds
<1>2. Routing' \subseteq Routing
  BY DEF Routing
<1> QED BY <1>1, <1>2, SamePoolStep

\* The gateway submits the order at the head of its queue, or answers for it.
LEMMA GatewayOnce ==
  ASSUME Invariant, OneCarrier, Gateway
  PROVE  OneCarrier'
<1> DEFINE i == Head(downstream)
           id == slots[i].request.internal_order_id
<1>1. /\ downstream # <<>> /\ downstream' = Tail(downstream)
      /\ slots' = [slots EXCEPT ![i].stage = "DownstreamDequeued"]
      /\ UNCHANGED <<next_order_id, upstream, loop>>
  BY DEF Gateway, GatewaySubmit, GatewayRefuse, service
<1>2. i \in DOMAIN slots /\ slots \in Seq(Slot)
  BY <1>1, OutgoingType DEF Invariant, TypeOK
<1>3. KeepsIds(slots, slots') /\ DOMAIN slots' = DOMAIN slots
  BY <1>1, <1>2, StageKeepsIds
<1>4. DOMAIN broker' \subseteq DOMAIN broker \cup {id}
  BY DEF Gateway, GatewaySubmit, GatewayRefuse, external, Put
<1>5. Routing' = Routing
  BY <1>1 DEF Routing
<1> QED BY <1>1, <1>3, <1>4, <1>5, SendStep

\* Every step of every process keeps an order in one place.
LEMMA NextOnce == Invariant /\ OneCarrier /\ [Next]_vars => OneCarrier'
<1> SUFFICES ASSUME Invariant, OneCarrier, [Next]_vars PROVE OneCarrier'
  OBVIOUS
<1>1. CASE \E order \in NewOrders : SubmitOrder(order)
  BY <1>1, EnqueueOnce DEF SubmitOrder
<1>2. CASE \E orig \in CancelTargets : CancelOrder(orig)
  BY <1>2, EnqueueOnce DEF CancelOrder, CancelRequest
<1>3. CASE HandleOrderRequest
  BY <1>3, TakeUpstreamOnce, PushDownstreamOnce, StagePushedOnce, PublishOnce, RouteOrderRefusedOnce, RouteCancelOnce
     DEF HandleOrderRequest
<1>4. CASE HandleResponses
  <2>1. CASE IgnoreTradeResponse
    BY <2>1, ElsewhereOnce DEF IgnoreTradeResponse, external
  <2> QED BY <1>4, <2>1, HandleTradeResponseOnce DEF HandleResponses
<1>5. CASE Archive
  BY <1>5, ArchiveOnce DEF Archive
<1>6. CASE Halt
  BY <1>6, ElsewhereOnce DEF Halt, shm, external
<1>7. CASE Dies \/ Restarts
  <2>1. ASSUME NEW kept, Restart(kept) PROVE OneCarrier'
    BY <2>1, ElsewhereOnce DEF Restart, shm, Idle
  <2> QED BY <1>7, <2>1, DieSettlingOnce DEF Dies, Restarts
<1>8. CASE Gateway
  BY <1>8, GatewayOnce
<1>9. CASE \E id \in DOMAIN broker : Broker(id)
  <2>1. ASSUME NEW id \in DOMAIN broker, Broker(id)
        PROVE  /\ UNCHANGED <<next_order_id, slots, upstream, downstream, loop>>
               /\ DOMAIN broker' = DOMAIN broker
    BY <2>1 DEF Broker, BrokerAccept, BrokerReject, MarketReject, BrokerFinish, BrokerReport, BrokerTrade, service
  <2> QED BY <1>9, <2>1, ElsewhereOnce
<1>10. CASE UNCHANGED vars
  BY <1>10, ElsewhereOnce DEF vars, shm, service, external
<1> QED BY <1>1, <1>2, <1>3, <1>4, <1>5, <1>6, <1>7, <1>8, <1>9, <1>10 DEF Next

\* At the start of the day no order is under way.
LEMMA InitOnce == Init => OneCarrier
  BY DEF Init, OneCarrier, IdsOf, NoRepeat, Routing, Idle

\* No order goes to the broker twice, and none is queued for the gateway twice,
\* whatever queue is full, whatever is refused and wherever the service dies
\* (send_to_downstream, order_recovery.cpp: a recovered order is not sent again).
THEOREM NeverSubmittedTwice == Spec => []SubmittedOnce
<1>1. Invariant /\ OneCarrier => SubmittedOnce
  BY DEF OneCarrier, NoRepeat, IdsOf, SubmittedOnce
<1> QED BY <1>1, InitOnce, NextOnce, InvariantHolds, PTL DEF Spec
-----------------------------------------------------------------------------
(* Where an order's trades are, from the broker to the book.               *)

\* The ids of the orders on their way to the gateway.
Travelling == IdsOf(slots, upstream) \cup Routing \cup IdsOf(slots, downstream)

\* The volume of one order's trades, response by response.
VolumeFor(id) ==
  [r \in TradeResponse |-> IF r.internal_order_id = id THEN r.volume_traded ELSE 0]

\* The volume of an order's trades that the loop has not yet counted.
Uncounted(id) == SeqSum(VolumeFor(id), responses)

\* What the API writes for a new order.
Fresh(q) ==
  q.order_type = "New" =>
    /\ q.trade_side \in {"Buy", "Sell"}
    /\ q.volume_entrust \in Nat /\ q.volume_entrust > 0 /\ q.volume_remain = q.volume_entrust

\* The slot s is one that recovery restores.
Recoverable(s) == s.stage \in RecoverableStage /\ s.request.order_state \notin TerminalState

\* The book holds the new order, it has not ended, and a restart would find it again
\* unless it falls between the push and the publication of the stage.
Ready(id) ==
  /\ id \in DOMAIN book
  /\ book[id].request.order_type = "New"
  /\ Live(id)
  /\ slots[book[id].index].stage \in RecoverableStage \/ (loop.pc = "sent" /\ loop.id = id)

\* A queued slot waits for an order the book does not know yet; a recoverable slot
\* is the one of a new order in the book; an order queued for the gateway is ready.
PoolTracked ==
  /\ \A i \in Range(upstream) :
       Fresh(slots[i].request) /\ slots[i].request.internal_order_id \notin DOMAIN book
  /\ \A i \in DOMAIN slots : Recoverable(slots[i]) =>
       LET id == slots[i].request.internal_order_id
       IN id \in DOMAIN book /\ book[id].index = i /\ book[id].request.order_type = "New"
  /\ \A id \in IdsOf(slots, downstream) : Ready(id)
  /\ \A i \in Range(downstream) : book[slots[i].request.internal_order_id].index = i
  /\ loop.pc \in {"route", "sent", "staged"} => book[loop.id].request.order_state \notin TerminalState
  /\ loop.pc \in {"sent", "staged"} => book[loop.id].request.order_type = "New"

\* What remains of a new order in the book is at least what the broker has left and
\* what is still queued for the loop to count; more, when a response died uncounted.
VolumesTracked ==
  \A id \in DOMAIN book : LET q == book[id].request IN
    q.order_type = "New" =>
      /\ q.trade_side \in {"Buy", "Sell"} /\ q.volume_entrust > 0
      /\ q.volume_remain >= IF id \in DOMAIN broker THEN broker[id].left + Uncounted(id)
                           ELSE q.volume_entrust
      /\ Live(id) => q.volume_remain > 0

\* An order that may still trade is ready for its trades.
BrokerTracked ==
  \A id \in DOMAIN broker : LET o == broker[id] IN
    /\ o.side \in {"Buy", "Sell"}
    /\ o.phase = "received" => o.left > 0 /\ \A r \in Range(responses) : r.internal_order_id # id
    /\ o.phase # "done" /\ o.left > 0 => Ready(id)
    /\ id \in DOMAIN book => book[id].request.order_type = "New"

\* A queued response is about an order that has left the queues, a trade finds its
\* order ready, and an end is an end for the broker.
ResponsesTracked ==
  \A r \in Range(responses) : LET id == r.internal_order_id IN
    /\ id \notin Travelling
    /\ id < next_order_id
    /\ id \in DOMAIN book => book[id].request.order_type = "New"
    /\ r.volume_traded > 0 =>
         id \in DOMAIN broker /\ Ready(id) /\ r.trade_side = broker[id].side
    /\ r.new_state \in TerminalState =>
         r.volume_traded = 0 /\ (id \in DOMAIN broker => broker[id].phase = "done")
    /\ r.new_state \notin TerminalState /\ id \in DOMAIN book => Live(id)

\* After an order's end nothing more is reported of it, and between the first report
\* and the end only trades are.
InOrder(s) ==
  \A a, b \in DOMAIN s :
    a < b /\ s[a].internal_order_id = s[b].internal_order_id =>
      /\ s[a].new_state \notin TerminalState
      /\ s[b].volume_traded > 0 \/ s[b].new_state \in TerminalState

\* An order that waits for its archive has nothing left to be reported.
PendingTracked ==
  \A id \in pending :
    /\ id \notin Travelling
    /\ id < next_order_id
    /\ id \in DOMAIN broker => broker[id].phase = "done"
    /\ \A r \in Range(responses) : r.internal_order_id # id

\* Where every order and every trade is (the inductive invariant).
Tracked ==
  /\ PoolTracked /\ VolumesTracked /\ BrokerTracked
  /\ ResponsesTracked /\ InOrder(responses) /\ PendingTracked

-----------------------------------------------------------------------------
(* Queues: what a push and a pop change.                                   *)

\* A queue that is not empty, without its head.
LEMMA RangeTail ==
  ASSUME NEW S, NEW s \in Seq(S), s # <<>>
  PROVE  Head(s) \in Range(s) /\ Range(Tail(s)) \subseteq Range(s)
<1>1. /\ Len(s) \in Nat \ {0} /\ DOMAIN s = 1 .. Len(s) /\ DOMAIN Tail(s) = 1 .. Len(s) - 1
      /\ \A a \in 1 .. Len(s) - 1 : Tail(s)[a] = s[a + 1]
      /\ Head(s) = s[1]
  OBVIOUS
<1>2. 1 \in DOMAIN s /\ \A a \in DOMAIN Tail(s) : a + 1 \in DOMAIN s
  BY <1>1
<1> QED BY <1>1, <1>2 DEF Range

\* A queue with an element more.
LEMMA RangeAppend ==
  ASSUME NEW S, NEW s \in Seq(S), NEW x
  PROVE  Range(Append(s, x)) = Range(s) \cup {x}
<1> DEFINE t == Append(s, x)
           n == Len(s) + 1
<1>1. /\ DOMAIN t = DOMAIN s \cup {n} /\ t[n] = x /\ \A a \in DOMAIN s : t[a] = s[a]
  OBVIOUS
<1> HIDE DEF t, n
<1>2. Range(t) = Range(s) \cup {x}
  BY <1>1 DEF Range
<1> QED BY <1>2 DEF t

\* Elements of a queue have its type.
LEMMA RangeType ==
  ASSUME NEW S, NEW s \in Seq(S)
  PROVE  Range(s) \subseteq S
  BY ElementType DEF Range

\* The ids a queue of indices names.
LEMMA IdsOfRange ==
  ASSUME NEW s, NEW queue
  PROVE  IdsOf(s, queue) = {s[i].request.internal_order_id : i \in Range(queue)}
  BY DEF IdsOf, Range

\* Responses taken from the front keep their order, and the one taken came first.
LEMMA InOrderTail ==
  ASSUME NEW S, NEW s \in Seq(S), s # <<>>, InOrder(s)
  PROVE  /\ InOrder(Tail(s))
         /\ \A r \in Range(Tail(s)) : r.internal_order_id = Head(s).internal_order_id =>
              /\ Head(s).new_state \notin TerminalState
              /\ r.volume_traded > 0 \/ r.new_state \in TerminalState
<1>1. /\ Len(s) \in Nat \ {0} /\ DOMAIN s = 1 .. Len(s) /\ DOMAIN Tail(s) = 1 .. Len(s) - 1
      /\ \A a \in 1 .. Len(s) - 1 : Tail(s)[a] = s[a + 1]
      /\ Head(s) = s[1]
  OBVIOUS
<1>2. 1 \in DOMAIN s /\ \A a \in DOMAIN Tail(s) : a + 1 \in DOMAIN s /\ 1 < a + 1
  BY <1>1
<1>3. \A a, b \in DOMAIN Tail(s) : a < b => a + 1 < b + 1
  BY <1>1
<1>4. InOrder(Tail(s))
  <2> SUFFICES ASSUME NEW a \in DOMAIN Tail(s), NEW b \in DOMAIN Tail(s), a < b,
                      Tail(s)[a].internal_order_id = Tail(s)[b].internal_order_id
               PROVE  /\ Tail(s)[a].new_state \notin TerminalState
                      /\ Tail(s)[b].volume_traded > 0 \/ Tail(s)[b].new_state \in TerminalState
    BY DEF InOrder
  <2> QED BY <1>1, <1>2, <1>3 DEF InOrder
<1>5. ASSUME NEW r \in Range(Tail(s)), r.internal_order_id = Head(s).internal_order_id
      PROVE  /\ Head(s).new_state \notin TerminalState
             /\ r.volume_traded > 0 \/ r.new_state \in TerminalState
  <2>1. PICK a \in DOMAIN Tail(s) : r = Tail(s)[a]
    BY <1>5 DEF Range
  <2> QED BY <1>1, <1>2, <1>5, <2>1 DEF InOrder
<1> QED BY <1>4, <1>5

\* A response queued behind those of its order.
LEMMA InOrderAppend ==
  ASSUME NEW S, NEW s \in Seq(S), NEW x, InOrder(s),
         \A r \in Range(s) : r.internal_order_id = x.internal_order_id =>
           /\ r.new_state \notin TerminalState
           /\ x.volume_traded > 0 \/ x.new_state \in TerminalState
  PROVE  InOrder(Append(s, x))
<1> DEFINE t == Append(s, x)
           n == Len(s) + 1
<1>1. /\ DOMAIN t = DOMAIN s \cup {n} /\ t[n] = x /\ \A a \in DOMAIN s : t[a] = s[a] /\ a < n
      /\ \A a \in DOMAIN s : a \in Nat
      /\ n \in Nat
  OBVIOUS
<1>2. \A a \in DOMAIN s : s[a] \in Range(s)
  BY DEF Range
<1> HIDE DEF t, n
<1>3. ASSUME NEW a \in DOMAIN t, NEW b \in DOMAIN t, a < b, t[a].internal_order_id = t[b].internal_order_id
      PROVE  /\ t[a].new_state \notin TerminalState
             /\ t[b].volume_traded > 0 \/ t[b].new_state \in TerminalState
  <2>1. a \in DOMAIN s
    BY <1>1, <1>3
  <2>2. CASE b \in DOMAIN s
    BY <1>1, <1>3, <2>1, <2>2 DEF InOrder
  <2>3. CASE b = n
    BY <1>1, <1>2, <1>3, <2>1, <2>3
  <2> QED BY <1>1, <2>2, <2>3
<1> QED BY <1>3 DEF InOrder, t

-----------------------------------------------------------------------------
(* Uncounted volumes.                                                      *)

\* Weights are natural numbers.
LEMMA VolumeForType ==
  ASSUME NEW id
  PROVE  /\ \A r \in TradeResponse : VolumeFor(id)[r] \in Nat /\ VolumeFor(id)[r] \in Int
         /\ \A r \in TradeResponse : r.internal_order_id = id => VolumeFor(id)[r] = r.volume_traded
         /\ \A r \in TradeResponse : r.internal_order_id # id => VolumeFor(id)[r] = 0
<1>1. \A r \in TradeResponse : r.volume_traded \in Nat
  BY DEF TradeResponse
<1> QED BY <1>1 DEF VolumeFor

\* No trade in a queue is more than what the queue holds.
LEMMA VolumesQueued ==
  ASSUME NEW s \in Seq(TradeResponse), NEW id
  PROVE  /\ SeqSum(VolumeFor(id), s) \in Nat
         /\ \A r \in Range(s) : r.internal_order_id = id => r.volume_traded <= SeqSum(VolumeFor(id), s)
<1>1. /\ SeqSum(VolumeFor(id), s) \in Nat
      /\ \A a \in DOMAIN s : VolumeFor(id)[s[a]] <= SeqSum(VolumeFor(id), s)
  <2>1. \A r \in TradeResponse : VolumeFor(id)[r] \in Nat
    BY VolumeForType
  <2> QED BY <2>1, SeqSumNat
<1>2. \A a \in DOMAIN s : s[a] \in TradeResponse
  BY ElementType
<1> QED BY <1>1, <1>2, VolumeForType DEF Range

\* So it is with the responses.
LEMMA UncountedNat ==
  ASSUME responses \in Seq(TradeResponse), NEW id
  PROVE  /\ Uncounted(id) \in Nat
         /\ \A r \in Range(responses) : r.internal_order_id = id => r.volume_traded <= Uncounted(id)
  BY VolumesQueued DEF Uncounted

\* Nothing is uncounted of an order that no response names.
LEMMA UncountedZero ==
  ASSUME responses \in Seq(TradeResponse), NEW id,
         \A r \in Range(responses) : r.internal_order_id # id
  PROVE  Uncounted(id) = 0
<1>1. \A a \in DOMAIN responses : responses[a] \in TradeResponse /\ responses[a].internal_order_id # id
  BY ElementType DEF Range
<1>2. \A a \in DOMAIN responses : VolumeFor(id)[responses[a]] = 0
  BY <1>1, VolumeForType
<1> QED BY <1>2, SeqSumZero DEF Uncounted

\* A queued response adds its volume to its order's.
LEMMA UncountedAppend ==
  ASSUME responses \in Seq(TradeResponse), NEW x \in TradeResponse, responses' = Append(responses, x), NEW id
  PROVE  Uncounted(id)' = Uncounted(id) + IF x.internal_order_id = id THEN x.volume_traded ELSE 0
<1>1. \A r \in TradeResponse : VolumeFor(id)[r] \in Int
  BY VolumeForType
<1>2. SeqSum(VolumeFor(id), Append(responses, x)) = SeqSum(VolumeFor(id), responses) + VolumeFor(id)[x]
  BY <1>1, SeqSumAppend
<1>3. SeqSum(VolumeFor(id), responses') = SeqSum(VolumeFor(id), Append(responses, x))
  OBVIOUS
<1>4. SeqSum(VolumeFor(id), responses) \in Int
  BY <1>1, SeqSumInt
<1> QED BY <1>2, <1>3, <1>4, VolumeForType DEF Uncounted

\* A response taken off the queue takes its volume away.
LEMMA UncountedTail ==
  ASSUME responses \in Seq(TradeResponse), responses # <<>>, responses' = Tail(responses), NEW id
  PROVE  Uncounted(id)' = Uncounted(id)
                          - IF Head(responses).internal_order_id = id THEN Head(responses).volume_traded ELSE 0
<1>1. \A r \in TradeResponse : VolumeFor(id)[r] \in Int
  BY VolumeForType
<1>2. SeqSum(VolumeFor(id), responses) = VolumeFor(id)[Head(responses)] + SeqSum(VolumeFor(id), Tail(responses))
  BY <1>1, SeqSumTail
<1>3. Head(responses) \in TradeResponse /\ Tail(responses) \in Seq(TradeResponse)
  BY HeadTail
<1>4. SeqSum(VolumeFor(id), Tail(responses)) \in Int
  BY <1>1, <1>3, SeqSumInt
<1>5. SeqSum(VolumeFor(id), responses') = SeqSum(VolumeFor(id), Tail(responses))
  OBVIOUS
<1> QED BY <1>1, <1>2, <1>3, <1>4, <1>5, VolumeForType DEF Uncounted

-----------------------------------------------------------------------------
(* Steps that add no order and no report.                                  *)

\* A slot is a copy of its order's request, up to the remaining volume that recovery
\* would restore.
LEMMA MirrorFields ==
  ASSUME Invariant, NEW id \in DOMAIN book
  PROVE  LET s == slots[book[id].index].request
             q == book[id].request
         IN /\ s \in Request /\ q \in Request /\ q.internal_order_id = id /\ s.internal_order_id = id
            /\ s.order_state = q.order_state /\ s.order_type = q.order_type
            /\ s.trade_side = q.trade_side /\ s.volume_entrust = q.volume_entrust
            /\ s.dprice_entrust = q.dprice_entrust /\ s.dfee_estimate = q.dfee_estimate
            /\ q.volume_remain > 0 => RecoveredRequest(s) = q
<1> DEFINE s == slots[book[id].index].request
           q == book[id].request
           same(a, b) ==
             /\ a.order_state = b.order_state /\ a.order_type = b.order_type
             /\ a.trade_side = b.trade_side /\ a.volume_entrust = b.volume_entrust
             /\ a.dprice_entrust = b.dprice_entrust /\ a.dfee_estimate = b.dfee_estimate
<1>1. book[id].index \in DOMAIN slots /\ slots \in Seq(Slot) /\ q \in Request
  BY DEF Invariant, TypeOK, Entry
<1>2. slots[book[id].index] \in Slot
  BY <1>1, ElementType
<1>3. s \in Request
  BY <1>2 DEF Slot
<1>4. RecoveredRequest(s) = RecoveredRequest(q) /\ q.internal_order_id = id /\ s.internal_order_id = id
  BY SlotOwner DEF Invariant, SlotMirrorsBook
<1> HIDE DEF s, q
<1>5. \A x \in Request : same(RecoveredRequest(x), x)
  BY DEF RecoveredRequest, Request
<1>6. same(s, q)
  <2>1. same(RecoveredRequest(s), s) /\ same(RecoveredRequest(q), q)
    BY <1>1, <1>3, <1>5
  <2> QED BY <1>4, <2>1
<1>7. q.volume_remain > 0 => RecoveredRequest(q) = q
  BY <1>1 DEF RecoveredRequest, Request
<1> QED BY <1>1, <1>3, <1>4, <1>6, <1>7 DEF s, q

\* Orders leave the book, no other order changes, and nothing moves.
LEMMA ShrinkStep ==
  ASSUME Invariant, Tracked,
         DOMAIN book' \subseteq DOMAIN book,
         \A id \in DOMAIN book' : book'[id].request = book[id].request /\ book'[id].index = book[id].index,
         \A id : Ready(id) => Ready(id)',
         DOMAIN slots' = DOMAIN slots,
         \A i \in DOMAIN slots : slots'[i].request = slots[i].request,
         \A i \in DOMAIN slots : Recoverable(slots'[i]) =>
           LET id == slots[i].request.internal_order_id
           IN id \in DOMAIN book' /\ book[id].index = i /\ book[id].request.order_type = "New",
         UNCHANGED <<next_order_id, upstream, downstream, responses, broker>>,
         pending' \subseteq pending,
         loop'.pc \in {"route", "sent", "staged"} =>
           /\ loop'.id = loop.id /\ loop.id \in DOMAIN book'
           /\ loop'.pc = loop.pc \/ (loop.pc = "sent" /\ loop'.pc = "staged")
  PROVE  Tracked'
<1>1. upstream \in Seq(DOMAIN slots) /\ downstream \in Seq(DOMAIN slots)
  BY DEF Invariant, TypeOK
<1>2. Range(upstream) \subseteq DOMAIN slots /\ Range(downstream) \subseteq DOMAIN slots
  BY <1>1, RangeType
<1>3. KeepsIds(slots, slots')
  BY DEF KeepsIds
<1>4. IdsOf(slots, upstream)' = IdsOf(slots, upstream) /\ IdsOf(slots, downstream)' = IdsOf(slots, downstream)
  BY <1>1, <1>3, QueueKept
<1>5. Travelling' \subseteq Travelling
  <2>1. Routing' \subseteq Routing
    BY DEF Routing
  <2> QED BY <1>4, <2>1 DEF Travelling
<1>6. \A id : Uncounted(id)' = Uncounted(id)
  BY DEF Uncounted
<1> USE DEF Tracked
<1>7. PoolTracked'
  <2>1. \A i \in Range(upstream)' :
          Fresh(slots'[i].request) /\ slots'[i].request.internal_order_id \notin DOMAIN book'
    BY <1>2 DEF PoolTracked
  <2>2. \A i \in DOMAIN slots' : Recoverable(slots'[i]) =>
          LET id == slots'[i].request.internal_order_id
          IN id \in DOMAIN book' /\ book'[id].index = i /\ book'[id].request.order_type = "New"
    BY DEF PoolTracked
  <2>3. \A id \in IdsOf(slots, downstream)' : Ready(id)'
    BY <1>4 DEF PoolTracked
  <2>4. \A i \in Range(downstream)' : book'[slots'[i].request.internal_order_id].index = i
    <3> SUFFICES ASSUME NEW i \in Range(downstream) PROVE book'[slots[i].request.internal_order_id].index = i
      BY <1>2
    <3>1. slots[i].request.internal_order_id \in IdsOf(slots, downstream)'
      BY <1>4, IdsOfRange
    <3>2. \A id : Ready(id)' => id \in DOMAIN book'
      BY DEF Ready
    <3> QED BY <2>3, <3>1, <3>2 DEF PoolTracked
  <2>5. /\ loop'.pc \in {"route", "sent", "staged"} => book'[loop'.id].request.order_state \notin TerminalState
        /\ loop'.pc \in {"sent", "staged"} => book'[loop'.id].request.order_type = "New"
    BY DEF PoolTracked
  <2> QED BY <2>1, <2>2, <2>3, <2>4, <2>5 DEF PoolTracked
<1>8. VolumesTracked'
  BY <1>6 DEF VolumesTracked, Live
<1>9. BrokerTracked'
  BY DEF BrokerTracked
<1>10. ResponsesTracked'
  BY <1>5 DEF ResponsesTracked, Live
<1>11. PendingTracked'
  BY <1>5 DEF PendingTracked
<1> QED BY <1>7, <1>8, <1>9, <1>10, <1>11

\* The loop stops.
LEMMA HaltTracked ==
  ASSUME Invariant, Tracked, Halt
  PROVE  Tracked'
<1>1. UNCHANGED <<next_order_id, slots, upstream, downstream, responses, book, pending, broker>>
  BY DEF Halt, shm, external
<1>2. loop.pc = "idle" /\ loop'.pc = "stopped"
  BY DEF Halt
<1>3. \A id : Ready(id) => Ready(id)'
  BY <1>1, <1>2 DEF Ready, Live
<1>4. \A i \in DOMAIN slots : Recoverable(slots[i]) =>
        LET id == slots[i].request.internal_order_id
        IN id \in DOMAIN book /\ book[id].index = i /\ book[id].request.order_type = "New"
  BY DEF Tracked, PoolTracked
<1> QED BY <1>1, <1>2, <1>3, <1>4, ShrinkStep

\* Archives take orders that have ended out of the book.
LEMMA ArchiveTracked ==
  ASSUME Invariant, Tracked, NEW due, ProcessPendingArchives(due)
  PROVE  Tracked'
<1> DEFINE archived == {id \in due \cap DOMAIN book : book[id].request.order_state \in TerminalState}
           hit(i) == \E id \in archived : book[id].index = i
<1>1. /\ slots' = [i \in DOMAIN slots |-> IF hit(i) THEN [slots[i] EXCEPT !.stage = "Terminal"] ELSE slots[i]]
      /\ UNCHANGED <<next_order_id, upstream, downstream, responses, loop, broker>>
      /\ pending' = pending \ due
      /\ book' = Restrict(book, DOMAIN book \ archived)
      /\ loop.pc = "idle"
  BY DEF ProcessPendingArchives, external
<1>2. \A i \in DOMAIN slots : slots[i] \in Slot
  BY ElementType DEF Invariant, TypeOK
<1>3. \A i \in DOMAIN slots : LET v == [slots[i] EXCEPT !.stage = "Terminal"]
                              IN v.request = slots[i].request /\ v.stage = "Terminal"
  BY <1>2 DEF Slot
<1>4. /\ DOMAIN book' = DOMAIN book \ archived
      /\ \A id \in DOMAIN book' : book'[id] = book[id]
  BY <1>1 DEF Restrict
<1>5. \A id \in DOMAIN book : hit(book[id].index) => id \in archived
  <2> SUFFICES ASSUME NEW id \in DOMAIN book, NEW x \in archived, book[x].index = book[id].index PROVE id \in archived
    OBVIOUS
  <2>1. x \in DOMAIN book
    OBVIOUS
  <2> QED BY <2>1, SlotOwner
<1>6. \A id \in DOMAIN book : book[id].index \in DOMAIN slots
  BY DEF Invariant, TypeOK
<1>7. \A id \in archived : ~ Live(id)
  BY DEF Live
<1> HIDE DEF hit, archived
<1>8. /\ DOMAIN slots' = DOMAIN slots
      /\ \A i \in DOMAIN slots : slots'[i].request = slots[i].request
      /\ \A i \in DOMAIN slots : hit(i) => slots'[i].stage = "Terminal"
      /\ \A i \in DOMAIN slots : ~ hit(i) => slots'[i] = slots[i]
  BY <1>1, <1>3
<1>9. \A id : Ready(id) => Ready(id)'
  <2> SUFFICES ASSUME NEW id, Ready(id) PROVE Ready(id)'
    OBVIOUS
  <2>1. id \in DOMAIN book /\ id \notin archived
    BY <1>7 DEF Ready
  <2>2. slots'[book[id].index] = slots[book[id].index]
    BY <1>5, <1>6, <1>8, <2>1
  <2> QED BY <1>1, <1>4, <2>1, <2>2 DEF Ready, Live
<1>10. \A i \in DOMAIN slots : Recoverable(slots'[i]) =>
         LET id == slots[i].request.internal_order_id
         IN id \in DOMAIN book' /\ book[id].index = i /\ book[id].request.order_type = "New"
  <2> SUFFICES ASSUME NEW i \in DOMAIN slots, Recoverable(slots'[i])
               PROVE  LET id == slots[i].request.internal_order_id
                      IN id \in DOMAIN book' /\ book[id].index = i /\ book[id].request.order_type = "New"
    OBVIOUS
  <2>1. ~ hit(i) /\ slots'[i] = slots[i]
    BY <1>8 DEF Recoverable, RecoverableStage
  <2> DEFINE id == slots[i].request.internal_order_id
  <2>2. id \in DOMAIN book /\ book[id].index = i /\ book[id].request.order_type = "New"
    BY <2>1 DEF Tracked, PoolTracked
  <2>3. id \notin archived
    BY <2>1, <2>2 DEF hit
  <2> QED BY <1>4, <2>1, <2>2, <2>3
<1> QED BY <1>1, <1>4, <1>8, <1>9, <1>10, ShrinkStep

\* The service never dies between the push of an order and the publication of its
\* stage, and the book has room for every order of the day; or it never dies.
RecoverableCrashes ==
  MaxRestarts = 0 \/ ("sent" \notin CrashPoints /\ MaxOrders < BookCapacity)

\* The book is larger than what recovery finds, so it keeps every order found.
LEMMA RecoveryKeepsAll ==
  ASSUME Invariant, RecoverableCrashes, NEW kept \in SUBSET RecoverySlots, Restart(kept)
  PROVE  /\ loop.pc # "sent"
         /\ \A i \in RecoverySlots : \E j \in kept :
              slots[j].request.internal_order_id = slots[i].request.internal_order_id
<1> DEFINE idOf(i) == slots[i].request.internal_order_id
<1>1. /\ loop.pc \in CrashPoints /\ restarts < MaxRestarts
      /\ \A i, j \in kept : idOf(i) = idOf(j) => i = j
      /\ Cardinality(kept) = BookCapacity \/ \A i \in RecoverySlots : \E j \in kept : idOf(i) = idOf(j)
  BY DEF Restart
<1>2. MaxRestarts # 0
  <2>1. restarts \in 0 .. MaxRestarts /\ MaxRestarts \in Nat
    BY BoundsAssumption DEF Invariant, TypeOK
  <2> QED BY <1>1, <2>1
<1>3. loop.pc # "sent" /\ MaxOrders < BookCapacity
  BY <1>1, <1>2 DEF RecoverableCrashes
<1>4. IsFiniteSet(kept)
  <2>1. slots \in Seq(Slot) /\ kept \subseteq DOMAIN slots
    BY DEF Invariant, TypeOK, RecoverySlots
  <2>2. kept \subseteq 1 .. Len(slots) /\ 1 \in Int /\ Len(slots) \in Int
    BY <2>1
  <2>3. IsFiniteSet(1 .. Len(slots))
    BY <2>2, FS_Interval
  <2> QED BY <2>2, <2>3, FS_Subset
<1>5. \A i \in kept : idOf(i) \in OrderIds
  <2>1. \A i \in kept : slots[i] \in Slot
    BY ElementType DEF Invariant, TypeOK, RecoverySlots
  <2>2. \A i \in kept : slots[i].request \in Request
    BY <2>1 DEF Slot
  <2> QED BY <2>2 DEF Request
<1>6. IsFiniteSet(OrderIds) /\ Cardinality(OrderIds) = MaxOrders
  <2>1. MaxOrders \in Nat /\ 1 \in Int /\ MaxOrders \in Int
    BY BoundsAssumption
  <2>2. IsFiniteSet(OrderIds) /\ Cardinality(OrderIds) = IF 1 > MaxOrders THEN 0 ELSE MaxOrders - 1 + 1
    BY <2>1, FS_Interval DEF OrderIds
  <2> QED BY <2>1, <2>2
<1>7. Cardinality(kept) # BookCapacity
  <2> SUFFICES ASSUME Cardinality(kept) = BookCapacity PROVE FALSE
    OBVIOUS
  <2> DEFINE f == [i \in kept |-> idOf(i)]
  <2>1. f \in [kept -> OrderIds]
    BY <1>5
  <2>2. Cardinality(OrderIds) < Cardinality(kept)
    BY <1>3, <1>6
  <2> HIDE DEF f
  <2>3. \E x, y \in kept : x # y /\ f[x] = f[y]
    BY <1>4, <1>6, <2>1, <2>2, FS_PigeonHole
  <2> QED BY <1>1, <2>3 DEF f
<1> QED BY <1>1, <1>3, <1>7

\* Every order that recovery restores is one the book had, as the book had it.
LEMMA RecoveredBook ==
  ASSUME Invariant, Tracked, NEW kept \in SUBSET RecoverySlots, Restart(kept)
  PROVE  /\ DOMAIN book' = {slots[i].request.internal_order_id : i \in kept}
         /\ DOMAIN book' \subseteq DOMAIN book
         /\ \A id \in DOMAIN book' : book'[id].request = book[id].request /\ book'[id].index = book[id].index
<1> DEFINE idOf(i) == slots[i].request.internal_order_id
           slotOf(id) == CHOOSE j \in kept : idOf(j) = id
           entry(id) == [request |-> RecoveredRequest(slots[slotOf(id)].request), fund_frozen |-> 0, index |-> slotOf(id)]
<1>1. /\ UNCHANGED <<next_order_id, slots, upstream, downstream, responses, broker>>
      /\ pending' = {} /\ loop' = Idle
      /\ book' = [id \in {idOf(i) : i \in kept} |-> entry(id)]
  BY DEF Restart, shm
<1>2. \A i \in kept : /\ i \in DOMAIN slots /\ Recoverable(slots[i])
                      /\ idOf(i) \in DOMAIN book /\ book[idOf(i)].index = i
                      /\ book[idOf(i)].request.order_type = "New"
  BY DEF RecoverySlots, Recoverable, Tracked, PoolTracked
<1>3. ASSUME NEW i \in kept
      PROVE  /\ slotOf(idOf(i)) = i
             /\ RecoveredRequest(slots[i].request) = book[idOf(i)].request
  <2>1. \E j \in kept : idOf(j) = idOf(i)
    BY <1>3
  <2>2. slotOf(idOf(i)) \in kept /\ idOf(slotOf(idOf(i))) = idOf(i)
    BY <2>1
  <2>3. slotOf(idOf(i)) = i
    <3> HIDE DEF slotOf
    <3> QED BY <1>2, <1>3, <2>2
  <2> DEFINE id == idOf(i)
  <2>4. id \in DOMAIN book /\ book[id].index = i /\ Recoverable(slots[i])
    BY <1>2, <1>3
  <2>5. Live(id)
    BY <2>4, MirrorFields DEF Live, Recoverable
  <2>6. book[id].request.volume_remain > 0
    BY <1>2, <1>3, <2>4, <2>5 DEF Tracked, VolumesTracked
  <2>7. RecoveredRequest(slots[i].request) = book[id].request
    BY <2>4, <2>6, MirrorFields
  <2> QED BY <2>3, <2>7
<1> HIDE DEF slotOf
<1>4. /\ DOMAIN book' = {idOf(i) : i \in kept}
      /\ \A i \in kept : book'[idOf(i)].request = book[idOf(i)].request /\ book'[idOf(i)].index = i
  <2>1. /\ DOMAIN book' = {idOf(i) : i \in kept}
        /\ \A i \in kept : book'[idOf(i)] = entry(idOf(i))
    BY <1>1
  <2>2. \A i \in kept : entry(idOf(i)).request = book[idOf(i)].request /\ entry(idOf(i)).index = i
    BY <1>3
  <2> HIDE DEF entry
  <2> QED BY <2>1, <2>2
<1>5. /\ DOMAIN book' \subseteq DOMAIN book
      /\ \A id \in DOMAIN book' : book'[id].request = book[id].request /\ book'[id].index = book[id].index
  BY <1>2, <1>4
<1> QED BY <1>4, <1>5

\* Recovery brings every order back that can still trade.
LEMMA RestartTracked ==
  ASSUME Invariant, Tracked, RecoverableCrashes, NEW kept \in SUBSET RecoverySlots, Restart(kept)
  PROVE  Tracked'
<1> DEFINE idOf(i) == slots[i].request.internal_order_id
<1>1. /\ UNCHANGED <<next_order_id, slots, upstream, downstream, responses, broker>>
      /\ pending' = {} /\ loop' = Idle
  BY DEF Restart, shm
<1>2. /\ loop.pc # "sent"
      /\ \A i \in RecoverySlots : \E j \in kept : idOf(j) = idOf(i)
  BY RecoveryKeepsAll
<1>3. DOMAIN book' = {idOf(i) : i \in kept}
  BY RecoveredBook
<1>4. /\ DOMAIN book' \subseteq DOMAIN book
      /\ \A id \in DOMAIN book' : book'[id].request = book[id].request /\ book'[id].index = book[id].index
  BY RecoveredBook
<1>5. ASSUME NEW i \in DOMAIN slots, Recoverable(slots[i])
      PROVE  /\ idOf(i) \in DOMAIN book'
             /\ book[idOf(i)].index = i /\ book[idOf(i)].request.order_type = "New"
  <2>1. i \in RecoverySlots
    BY <1>5 DEF RecoverySlots, Recoverable
  <2>2. idOf(i) \in DOMAIN book'
    BY <1>2, <1>3, <2>1
  <2> QED BY <1>5, <2>2 DEF Tracked, PoolTracked
<1>6. ASSUME NEW id, Ready(id) PROVE Ready(id)'
  <2>1. /\ id \in DOMAIN book /\ Live(id) /\ slots[book[id].index].stage \in RecoverableStage
        /\ book[id].index \in DOMAIN slots
    BY <1>2, <1>6 DEF Ready, Invariant, TypeOK
  <2>2. Recoverable(slots[book[id].index]) /\ idOf(book[id].index) = id
    BY <2>1, MirrorFields DEF Recoverable, Live
  <2>3. id \in DOMAIN book'
    BY <1>5, <2>1, <2>2
  <2> QED BY <1>1, <1>4, <1>6, <2>1, <2>3 DEF Ready, Live
<1>7. loop'.pc = "idle"
  BY <1>1 DEF Idle
<1> QED BY <1>1, <1>4, <1>5, <1>6, <1>7, ShrinkStep

-----------------------------------------------------------------------------
(* The broker's reports.                                                   *)

\* The broker reports on an order it has not finished: x reaches the response queue
\* and o is what the broker keeps of the order.
LEMMA AnswerTracked ==
  ASSUME Invariant, OneCarrier, Tracked, NEW id \in DOMAIN broker, NEW x \in TradeResponse, NEW o \in BrokerOrder,
         x.internal_order_id = id, x.trade_side = broker[id].side,
         broker[id].phase # "done", o.phase # "received", o.side = broker[id].side,
         o.left + x.volume_traded = broker[id].left,
         x.new_state \in TerminalState => x.volume_traded = 0 /\ o.phase = "done",
         x.new_state \notin TerminalState => broker[id].left > 0,
         x.volume_traded > 0 \/ x.new_state \in TerminalState \/ broker[id].phase = "received",
         responses' = Append(responses, x), broker' = [broker EXCEPT ![id] = o],
         UNCHANGED <<next_order_id, slots, upstream, downstream, book, pending, loop>>
  PROVE  Tracked'
<1> USE DEF Tracked
<1>1. /\ responses \in Seq(TradeResponse) /\ broker \in [DOMAIN broker -> BrokerOrder]
      /\ DOMAIN broker \subseteq OrderIds
  BY DEF Invariant, TypeOK
<1>2. Range(responses)' = Range(responses) \cup {x}
  BY <1>1, RangeAppend
<1>3. /\ DOMAIN broker' = DOMAIN broker /\ broker'[id] = o
      /\ \A y \in DOMAIN broker \ {id} : broker'[y] = broker[y]
  BY <1>1
<1>4. Travelling' = Travelling /\ id \notin Travelling /\ id < next_order_id
  BY DEF Travelling, OneCarrier, IdsOf, Routing
<1>5. \A y : Ready(y)' <=> Ready(y)
  BY DEF Ready, Live
<1>6. \A y : Live(y)' <=> Live(y)
  BY DEF Live
<1>7. \A y : Uncounted(y)' = Uncounted(y) + IF id = y THEN x.volume_traded ELSE 0
  BY <1>1, UncountedAppend
<1>8. \A y : Uncounted(y) \in Nat
  BY <1>1, UncountedNat
<1>9. x.volume_traded \in Nat /\ o.left \in Nat /\ broker[id] \in BrokerOrder
  BY <1>1 DEF TradeResponse, BrokerOrder
<1>10. broker[id].left \in Nat
  BY <1>9 DEF BrokerOrder
<1>11. broker[id].left > 0 => Ready(id)
  BY DEF BrokerTracked
<1>12. \A r \in Range(responses) : r.internal_order_id = id => r.new_state \notin TerminalState
  BY DEF ResponsesTracked
<1>13. PoolTracked'
  BY <1>5 DEF PoolTracked, IdsOf, Range
<1>14. VolumesTracked'
  <2> SUFFICES ASSUME NEW y \in DOMAIN book', book'[y].request.order_type = "New"
               PROVE  LET q == book'[y].request
                      IN /\ q.trade_side \in {"Buy", "Sell"} /\ q.volume_entrust > 0
                         /\ q.volume_remain >= IF y \in DOMAIN broker' THEN broker'[y].left + Uncounted(y)'
                                              ELSE q.volume_entrust
                         /\ Live(y)' => q.volume_remain > 0
    BY DEF VolumesTracked
  <2>1. CASE y = id
    BY <1>3, <1>6, <1>7, <1>8, <1>9, <2>1 DEF VolumesTracked
  <2>2. CASE y # id
    BY <1>3, <1>6, <1>7, <1>8, <2>2 DEF VolumesTracked
  <2> QED BY <2>1, <2>2
<1>15. BrokerTracked'
  <2> SUFFICES ASSUME NEW y \in DOMAIN broker
               PROVE  LET b == broker'[y] IN
                      /\ b.side \in {"Buy", "Sell"}
                      /\ b.phase = "received" => b.left > 0 /\ \A r \in Range(responses)' : r.internal_order_id # y
                      /\ b.phase # "done" /\ b.left > 0 => Ready(y)'
                      /\ y \in DOMAIN book' => book'[y].request.order_type = "New"
    BY <1>3 DEF BrokerTracked
  <2>1. CASE y = id
    BY <1>3, <1>5, <1>9, <1>10, <1>11, <2>1 DEF BrokerTracked
  <2>2. CASE y # id
    BY <1>2, <1>3, <1>5, <2>2 DEF BrokerTracked
  <2> QED BY <2>1, <2>2
<1>16. ResponsesTracked'
  <2> SUFFICES ASSUME NEW r \in Range(responses)'
               PROVE  LET y == r.internal_order_id IN
                      /\ y \notin Travelling'
                      /\ y < next_order_id'
                      /\ y \in DOMAIN book' => book'[y].request.order_type = "New"
                      /\ r.volume_traded > 0 =>
                           y \in DOMAIN broker' /\ Ready(y)' /\ r.trade_side = broker'[y].side
                      /\ r.new_state \in TerminalState =>
                           r.volume_traded = 0 /\ (y \in DOMAIN broker' => broker'[y].phase = "done")
                      /\ r.new_state \notin TerminalState /\ y \in DOMAIN book' => Live(y)'
    BY DEF ResponsesTracked
  <2>1. CASE r = x
    <3>1. x.volume_traded > 0 => Ready(id)
      BY <1>9, <1>10, <1>11
    <3>2. x.new_state \notin TerminalState => Live(id)
      BY <1>11 DEF Ready
    <3>3. id \in DOMAIN book => book[id].request.order_type = "New"
      BY DEF BrokerTracked
    <3> QED BY <1>3, <1>4, <1>5, <1>6, <2>1, <3>1, <3>2, <3>3
  <2>2. CASE r \in Range(responses)
    BY <1>3, <1>4, <1>5, <1>6, <1>12, <2>2 DEF ResponsesTracked
  <2> QED BY <1>2, <2>1, <2>2
<1>17. InOrder(responses)'
  <2>1. \A r \in Range(responses) : r.internal_order_id = x.internal_order_id =>
           /\ r.new_state \notin TerminalState
           /\ x.volume_traded > 0 \/ x.new_state \in TerminalState
    BY <1>12 DEF BrokerTracked
  <2>2. InOrder(Append(responses, x))
    BY <1>1, <2>1, InOrderAppend
  <2> QED BY <2>2
<1>18. PendingTracked'
  BY <1>2, <1>3, <1>4 DEF PendingTracked
<1> QED BY <1>13, <1>14, <1>15, <1>16, <1>17, <1>18

\* A report without a trade: the broker accepts or rejects the order, the market
\* rejects or finishes it.
LEMMA ReportTracked ==
  ASSUME Invariant, OneCarrier, Tracked, NEW id \in DOMAIN broker,
         BrokerAccept(id) \/ BrokerReject(id) \/ MarketReject(id) \/ BrokerFinish(id)
  PROVE  Tracked'
<1>1. /\ id \in OrderIds /\ broker[id] \in BrokerOrder
      /\ broker[id].side \in TradeSide
      /\ broker[id].left \in Nat
  <2>1. id \in OrderIds /\ broker[id] \in BrokerOrder
    BY DEF Invariant, TypeOK
  <2> QED BY <2>1 DEF BrokerOrder
<1>2. ASSUME NEW phase \in {"received", "working"}, NEW state \in OrderState, NEW next \in {"working", "done"},
             BrokerReport(id, phase, state, next),
             state \in TerminalState => next = "done",
             state \notin TerminalState => phase = "received"
      PROVE  Tracked'
  <2> DEFINE x == Response(id, state, broker[id].side, 0, 0, 0)
             o == [broker[id] EXCEPT !.phase = next]
  <2>1. x \in TradeResponse
    BY <1>1 DEF Response, TradeResponse
  <2>2. /\ x.internal_order_id = id /\ x.new_state = state /\ x.trade_side = broker[id].side
        /\ x.volume_traded = 0
    BY DEF Response
  <2>3. /\ o \in BrokerOrder /\ o.phase = next /\ o.side = broker[id].side /\ o.left = broker[id].left
    BY <1>1 DEF BrokerOrder
  <2>4. /\ broker[id].phase = phase
        /\ responses' = Append(responses, x) /\ broker' = [broker EXCEPT ![id] = o]
        /\ UNCHANGED <<next_order_id, slots, upstream, downstream, book, pending, loop>>
    BY <1>2 DEF BrokerReport, service
  <2>5. phase = "received" => broker[id].left > 0
    BY <2>4 DEF Tracked, BrokerTracked
  <2> HIDE DEF x, o
  <2>6. /\ broker[id].phase # "done" /\ o.phase # "received" /\ o.left + x.volume_traded = broker[id].left
        /\ x.new_state \in TerminalState => x.volume_traded = 0 /\ o.phase = "done"
        /\ x.new_state \notin TerminalState => broker[id].left > 0
        /\ x.volume_traded > 0 \/ x.new_state \in TerminalState \/ broker[id].phase = "received"
    BY <1>1, <1>2, <2>2, <2>3, <2>4, <2>5
  <2> QED BY <2>1, <2>2, <2>3, <2>4, <2>6, AnswerTracked
<1>3. /\ {"BrokerAccepted", "BrokerRejected", "MarketRejected", "Finished"} \subseteq OrderState
      /\ {"BrokerRejected", "MarketRejected", "Finished"} \subseteq TerminalState
      /\ "BrokerAccepted" \notin TerminalState
  BY DEF OrderState, TerminalState
<1>4. CASE BrokerAccept(id)
  <2>1. BrokerReport(id, "received", "BrokerAccepted", "working")
    BY <1>4 DEF BrokerAccept
  <2> QED BY <1>2, <1>3, <2>1
<1>5. CASE BrokerReject(id)
  <2>1. BrokerReport(id, "received", "BrokerRejected", "done")
    BY <1>5 DEF BrokerReject
  <2> QED BY <1>2, <1>3, <2>1
<1>6. CASE MarketReject(id)
  <2>1. BrokerReport(id, "working", "MarketRejected", "done")
    BY <1>6 DEF MarketReject
  <2> QED BY <1>2, <1>3, <2>1
<1>7. CASE BrokerFinish(id)
  <2>1. BrokerReport(id, "working", "Finished", "done")
    BY <1>7 DEF BrokerFinish
  <2> QED BY <1>2, <1>3, <2>1
<1> QED BY <1>4, <1>5, <1>6, <1>7

\* A trade.
LEMMA TradeTracked ==
  ASSUME Invariant, OneCarrier, Tracked, NEW id \in DOMAIN broker,
         NEW volume \in 1 .. broker[id].left, NEW price \in TradePrices, NEW fee \in 0 .. broker[id].fee_left,
         BrokerTrade(id, volume, price, fee)
  PROVE  Tracked'
<1> DEFINE x == Response(id, "MarketAccepted", broker[id].side, volume, volume * price, fee)
           o == [phase |-> "working", side |-> broker[id].side, price |-> broker[id].price,
                 left |-> broker[id].left - volume, fee_left |-> broker[id].fee_left - fee]
<1>1. id \in OrderIds /\ broker[id] \in BrokerOrder
  BY DEF Invariant, TypeOK
<1>2. /\ broker[id].side \in TradeSide /\ broker[id].price \in Nat
      /\ broker[id].left \in Nat /\ broker[id].fee_left \in Nat
  BY <1>1 DEF BrokerOrder
<1>3. /\ volume \in Nat \ {0} /\ volume <= broker[id].left /\ fee \in Nat /\ fee <= broker[id].fee_left
      /\ price \in Nat
  BY <1>2, OrdersAssumption
<1>4. volume * price \in Nat
  BY <1>3, NatProduct
<1>5. "MarketAccepted" \in OrderState /\ "MarketAccepted" \notin TerminalState
  BY DEF OrderState, TerminalState
<1>6. x \in TradeResponse
  BY <1>1, <1>2, <1>3, <1>4, <1>5 DEF Response, TradeResponse
<1>7. /\ x.internal_order_id = id /\ x.new_state = "MarketAccepted" /\ x.trade_side = broker[id].side
      /\ x.volume_traded = volume
  BY DEF Response
<1>8. o \in BrokerOrder
  BY <1>2, <1>3 DEF BrokerOrder
<1>9. o.phase = "working" /\ o.side = broker[id].side /\ o.left = broker[id].left - volume
  OBVIOUS
<1>10. /\ broker[id].phase = "working"
       /\ responses' = Append(responses, x) /\ broker' = [broker EXCEPT ![id] = o]
       /\ UNCHANGED <<next_order_id, slots, upstream, downstream, book, pending, loop>>
  BY DEF BrokerTrade, service
<1> HIDE DEF x, o
<1>11. /\ broker[id].phase # "done" /\ o.phase # "received" /\ o.left + x.volume_traded = broker[id].left
       /\ x.new_state \notin TerminalState /\ broker[id].left > 0 /\ x.volume_traded > 0
  BY <1>2, <1>3, <1>5, <1>7, <1>9, <1>10
<1> QED BY <1>6, <1>7, <1>8, <1>9, <1>10, <1>11, AnswerTracked

-----------------------------------------------------------------------------
(* The gateway.                                                            *)

\* Taking an order off the downstream queue: what it changes in the pool.
LEMMA OutgoingTracked ==
  ASSUME Invariant, OneCarrier, Tracked, downstream # <<>>, downstream' = Tail(downstream),
         slots' = [slots EXCEPT ![Head(downstream)].stage = "DownstreamDequeued"],
         UNCHANGED <<next_order_id, upstream, book, pending, loop>>,
         NEW id, id = slots[Head(downstream)].request.internal_order_id
  PROVE  /\ PoolTracked'
         /\ \A y : Ready(y) => Ready(y)'
         /\ \A y : Live(y)' <=> Live(y)
         /\ Ready(id) /\ book[id].index = Head(downstream)
         /\ Travelling' \subseteq Travelling /\ id \notin Travelling' /\ id \in Travelling
         /\ id \in OrderIds /\ id < next_order_id
<1> DEFINE i == Head(downstream)
<1> USE DEF Tracked
<1>1. /\ slots \in Seq(Slot) /\ upstream \in Seq(DOMAIN slots) /\ downstream \in Seq(DOMAIN slots)
      /\ Tail(downstream) \in Seq(DOMAIN slots) /\ i \in DOMAIN slots
      /\ i \in Range(downstream) /\ Range(Tail(downstream)) \subseteq Range(downstream)
  BY HeadTail, RangeTail DEF Invariant, TypeOK
<1>2. Range(upstream) \subseteq DOMAIN slots /\ Range(downstream) \subseteq DOMAIN slots
  BY <1>1, RangeType
<1>3. slots[i] \in Slot
  BY <1>1, ElementType
<1>4. /\ DOMAIN slots' = DOMAIN slots
      /\ slots'[i].request = slots[i].request /\ slots'[i].stage = "DownstreamDequeued"
      /\ \A j \in DOMAIN slots \ {i} : slots'[j] = slots[j]
  BY <1>1, <1>3 DEF Slot
<1>5. \A j \in DOMAIN slots : slots'[j].request = slots[j].request
  BY <1>4
<1>6. KeepsIds(slots, slots')
  BY <1>4, <1>5 DEF KeepsIds
<1>7. /\ IdsOf(slots, upstream)' = IdsOf(slots, upstream)
      /\ IdsOf(slots, downstream)' = IdsOf(slots, Tail(downstream))
  <2>1. IdsOf(slots', upstream) = IdsOf(slots, upstream)
    BY <1>1, <1>6, QueueKept
  <2>2. IdsOf(slots', Tail(downstream)) = IdsOf(slots, Tail(downstream))
    BY <1>1, <1>6, QueueKept, ZenonT(120)
  <2> QED BY <2>1, <2>2
<1>8. /\ IdsOf(slots, downstream) = IdsOf(slots, Tail(downstream)) \cup {id}
      /\ id \notin IdsOf(slots, Tail(downstream))
  BY <1>1, QueuePopped DEF OneCarrier
<1>9. Ready(id) /\ book[id].index = i
  BY <1>1, <1>8 DEF PoolTracked
<1>10. /\ Travelling' \subseteq Travelling /\ id \notin Travelling' /\ id \in Travelling
  <2>1. Routing' = Routing
    BY DEF Routing
  <2> QED BY <1>7, <1>8, <2>1 DEF Travelling, OneCarrier
<1>11. \A y : Ready(y) => Ready(y)'
  <2> SUFFICES ASSUME NEW y, Ready(y) PROVE Ready(y)'
    OBVIOUS
  <2>1. book[y].index \in DOMAIN slots
    BY DEF Ready, Invariant, TypeOK
  <2>2. slots[book[y].index].stage \in RecoverableStage => slots'[book[y].index].stage \in RecoverableStage
    BY <1>4, <2>1 DEF RecoverableStage
  <2> QED BY <2>2 DEF Ready, Live
<1>12. PoolTracked'
  <2>1. \A j \in Range(upstream)' :
          Fresh(slots'[j].request) /\ slots'[j].request.internal_order_id \notin DOMAIN book'
    BY <1>2, <1>5 DEF PoolTracked
  <2>2. \A j \in DOMAIN slots' : Recoverable(slots'[j]) =>
          LET y == slots'[j].request.internal_order_id
          IN y \in DOMAIN book' /\ book'[y].index = j /\ book'[y].request.order_type = "New"
    BY <1>4, <1>9 DEF PoolTracked, Ready
  <2>3. \A y \in IdsOf(slots, downstream)' : Ready(y)'
    BY <1>7, <1>8, <1>11 DEF PoolTracked
  <2>4. \A j \in Range(downstream)' : book'[slots'[j].request.internal_order_id].index = j
    BY <1>1, <1>2, <1>5 DEF PoolTracked
  <2> QED BY <2>1, <2>2, <2>3, <2>4 DEF PoolTracked
<1>13. id \in OrderIds /\ id < next_order_id
  BY <1>1, <1>9 DEF Ready, OneCarrier, Invariant, TypeOK
<1>14. \A y : Live(y)' <=> Live(y)
  BY DEF Live
<1> QED BY <1>9, <1>10, <1>11, <1>12, <1>13, <1>14

\* The broker receives an order.
LEMMA GatewaySubmitTracked ==
  ASSUME Invariant, OneCarrier, Tracked, GatewaySubmit
  PROVE  Tracked'
<1> DEFINE i == Head(downstream)
           q == slots[i].request
           o == [phase |-> "received", side |-> q.trade_side, price |-> q.dprice_entrust,
                 left |-> q.volume_entrust, fee_left |-> q.dfee_estimate + FeeOverrun]
<1> USE DEF Tracked
<1>1. /\ downstream # <<>> /\ downstream' = Tail(downstream)
      /\ slots' = [slots EXCEPT ![i].stage = "DownstreamDequeued"]
      /\ broker' = Put(broker, q.internal_order_id, o)
      /\ UNCHANGED <<next_order_id, upstream, responses, book, pending, loop>>
  BY DEF GatewaySubmit, service
<1>2. PICK id : id = q.internal_order_id
  OBVIOUS
<1>3. /\ PoolTracked'
      /\ \A y : Ready(y) => Ready(y)'
      /\ \A y : Live(y)' <=> Live(y)
      /\ Ready(id) /\ book[id].index = i
      /\ Travelling' \subseteq Travelling /\ id \notin Travelling' /\ id \in Travelling
  BY <1>1, <1>2, OutgoingTracked
<1>4. id \notin DOMAIN broker
  <2>1. id \in IdsOf(slots, downstream)
    <3>1. Head(downstream) \in Range(downstream)
      BY <1>1, RangeTail DEF Invariant, TypeOK
    <3> QED BY <1>2, <3>1, IdsOfRange
  <2> QED BY <2>1 DEF OneCarrier
<1>5. /\ responses \in Seq(TradeResponse)
      /\ \A r \in Range(responses) : r.internal_order_id # id
  <2>1. responses \in Seq(TradeResponse)
    BY ONLY Invariant DEF Invariant, TypeOK
  <2> QED BY <1>3, <2>1 DEF ResponsesTracked
<1>6. /\ \A y : Uncounted(y)' = Uncounted(y)
      /\ Uncounted(id) = 0
  <2>1. Uncounted(id) = 0
    BY <1>5, UncountedZero
  <2> QED BY <1>1, <2>1 DEF Uncounted
<1>7. /\ book[id].request.order_type = "New" /\ id \in DOMAIN book /\ Live(id)
      /\ book[id].request.volume_remain >= book[id].request.volume_entrust
      /\ book[id].request.volume_remain > 0 /\ book[id].request.volume_entrust > 0
      /\ book[id].request.trade_side \in {"Buy", "Sell"}
  BY <1>3, <1>4 DEF Ready, VolumesTracked
<1>8. /\ q.trade_side = book[id].request.trade_side
      /\ q.volume_entrust = book[id].request.volume_entrust
      /\ q.volume_entrust \in Nat
  <2>1. q.volume_entrust \in Nat
    BY <1>3, <1>7, MirrorFields DEF Request
  <2> QED BY <1>3, <1>7, <2>1, MirrorFields
<1>9. o.phase = "received" /\ o.side = q.trade_side /\ o.left = q.volume_entrust
  OBVIOUS
<1> HIDE DEF o, q, i
<1>10. /\ DOMAIN broker' = DOMAIN broker \cup {id} /\ broker'[id] = o
       /\ \A y \in DOMAIN broker : y # id /\ broker'[y] = broker[y]
  BY <1>1, <1>2, <1>4 DEF Put
<1>11. VolumesTracked'
  <2> SUFFICES ASSUME NEW y \in DOMAIN book, book[y].request.order_type = "New"
               PROVE  LET p == book[y].request
                      IN /\ p.trade_side \in {"Buy", "Sell"} /\ p.volume_entrust > 0
                         /\ p.volume_remain >= IF y \in DOMAIN broker' THEN broker'[y].left + Uncounted(y)'
                                              ELSE p.volume_entrust
                         /\ Live(y)' => p.volume_remain > 0
    BY <1>1 DEF VolumesTracked
  <2>1. CASE y = id
    BY <1>6, <1>7, <1>8, <1>9, <1>10, <2>1
  <2>2. CASE y # id
    BY <1>3, <1>6, <1>10, <2>2 DEF VolumesTracked
  <2> QED BY <2>1, <2>2
<1>12. BrokerTracked'
  BY <1>1, <1>3, <1>5, <1>7, <1>8, <1>9, <1>10 DEF BrokerTracked
<1>13. ResponsesTracked'
  BY <1>1, <1>3, <1>5, <1>10 DEF ResponsesTracked
<1>14. PendingTracked'
  BY <1>1, <1>3, <1>10 DEF PendingTracked
<1> QED BY <1>1, <1>3, <1>11, <1>12, <1>13, <1>14

\* The gateway answers for the broker with an error.
LEMMA GatewayRefuseTracked ==
  ASSUME Invariant, OneCarrier, Tracked, GatewayRefuse
  PROVE  Tracked'
<1> DEFINE i == Head(downstream)
           q == slots[i].request
           x == Response(q.internal_order_id, "TraderError", q.trade_side, 0, 0, 0)
<1> USE DEF Tracked
<1>1. /\ downstream # <<>> /\ downstream' = Tail(downstream)
      /\ slots' = [slots EXCEPT ![i].stage = "DownstreamDequeued"]
      /\ responses' = Append(responses, x)
      /\ UNCHANGED <<next_order_id, upstream, broker, book, pending, loop>>
  BY DEF GatewayRefuse, service, external
<1>2. PICK id : id = q.internal_order_id
  OBVIOUS
<1>3. /\ PoolTracked'
      /\ \A y : Ready(y) => Ready(y)'
      /\ \A y : Live(y)' <=> Live(y)
      /\ Ready(id) /\ book[id].index = i
      /\ Travelling' \subseteq Travelling /\ id \notin Travelling' /\ id \in Travelling
      /\ id \in OrderIds /\ id < next_order_id
  BY <1>1, <1>2, OutgoingTracked
<1>4. id \notin DOMAIN broker
  <2>1. id \in IdsOf(slots, downstream)
    <3>1. Head(downstream) \in Range(downstream)
      BY <1>1, RangeTail DEF Invariant, TypeOK
    <3> QED BY <1>2, <3>1, IdsOfRange
  <2> QED BY <2>1 DEF OneCarrier
<1>5. /\ responses \in Seq(TradeResponse)
      /\ \A r \in Range(responses) : r.internal_order_id # id
  <2>1. responses \in Seq(TradeResponse)
    BY ONLY Invariant DEF Invariant, TypeOK
  <2> QED BY <1>3, <2>1 DEF ResponsesTracked
<1>6. q.trade_side \in TradeSide
  BY <1>3, MirrorFields DEF Ready, Request
<1>7. /\ x.internal_order_id = id /\ x.volume_traded = 0 /\ x.new_state = "TraderError"
      /\ x.new_state \in TerminalState
  BY <1>2 DEF Response, TerminalState
<1>8. x \in TradeResponse
  BY <1>2, <1>3, <1>6 DEF Response, TradeResponse, OrderState
<1> HIDE DEF x, q, i
<1>9. Range(responses)' = Range(responses) \cup {x}
  BY <1>1, <1>5, RangeAppend
<1>10. \A y : Uncounted(y)' = Uncounted(y)
  <2>1. \A y : Uncounted(y) \in Nat
    BY <1>5, UncountedNat
  <2>2. \A y : Uncounted(y)' = Uncounted(y) + IF x.internal_order_id = y THEN x.volume_traded ELSE 0
    BY <1>1, <1>5, <1>8, UncountedAppend
  <2> QED BY <1>7, <2>1, <2>2
<1>11. VolumesTracked'
  BY <1>1, <1>3, <1>10 DEF VolumesTracked
<1>12. BrokerTracked'
  BY <1>1, <1>3, <1>4, <1>7, <1>9 DEF BrokerTracked
<1>13. ResponsesTracked'
  <2>1. id \in DOMAIN book => book[id].request.order_type = "New"
    BY <1>3 DEF Ready
  <2> QED BY <1>1, <1>3, <1>4, <1>7, <1>9, <2>1 DEF ResponsesTracked
<1>14. InOrder(responses)'
  <2>1. InOrder(Append(responses, x))
    BY <1>5, <1>7, InOrderAppend
  <2> QED BY <1>1, <2>1
<1>15. PendingTracked'
  BY <1>1, <1>3, <1>7, <1>9 DEF PendingTracked
<1> QED BY <1>3, <1>11, <1>12, <1>13, <1>14, <1>15

-----------------------------------------------------------------------------
(* The loop takes a response.                                              *)

\* What a response makes of a request: the terms of the order stay, the remaining
\* volume goes down, and an order with nothing left has ended.
LEMMA ReportedFacts ==
  ASSUME NEW q \in Request, NEW r \in TradeResponse
  PROVE  LET p == Reported(q, r)
         IN /\ p.order_type = q.order_type /\ p.trade_side = q.trade_side
            /\ p.volume_entrust = q.volume_entrust /\ p.dprice_entrust = q.dprice_entrust
            /\ p.dfee_estimate = q.dfee_estimate
            /\ p.volume_remain = Less(q.volume_remain, r.volume_traded)
            /\ p.order_state = IF r.volume_traded > 0 /\ p.volume_remain = 0 /\ r.new_state \notin TerminalState
                               THEN "Finished" ELSE r.new_state
<1> DEFINE terms(a, b) ==
             /\ a.order_type = b.order_type /\ a.trade_side = b.trade_side
             /\ a.volume_entrust = b.volume_entrust /\ a.dprice_entrust = b.dprice_entrust
             /\ a.dfee_estimate = b.dfee_estimate
           v == r.volume_traded
           u == UpdateState(q, r.new_state)
           t == CountTraded(u, v)
           c == CountRemaining(t, v)
           f == UpdateState(c, "Finished")
<1>1. r.new_state \in OrderState /\ v \in Nat /\ q.volume_remain \in Nat
  BY DEF TradeResponse, Request
<1>2. u \in Request /\ terms(u, q) /\ u.order_state = r.new_state /\ u.volume_remain = q.volume_remain
  BY <1>1 DEF UpdateState, Request
<1> HIDE DEF u
<1>3. t \in Request /\ terms(t, u) /\ t.order_state = u.order_state /\ t.volume_remain = u.volume_remain
  BY <1>1, <1>2 DEF CountTraded, Request
<1> HIDE DEF t
<1>4. c \in Request /\ terms(c, t) /\ c.order_state = t.order_state /\ c.volume_remain = Less(t.volume_remain, v)
  BY <1>1, <1>3 DEF CountRemaining, Request, Less
<1> HIDE DEF c
<1>5. terms(f, c) /\ f.order_state = "Finished" /\ f.volume_remain = c.volume_remain
  BY <1>4 DEF UpdateState, Request, OrderState
<1> HIDE DEF f
<1>6. CASE v > 0
  <2>1. Reported(q, r) = IF c.volume_remain = 0 /\ c.order_state \notin TerminalState THEN f ELSE c
    BY <1>6 DEF Reported, UpdateTrade, u, t, c, f
  <2> QED BY <1>2, <1>3, <1>4, <1>5, <1>6, <2>1
<1>7. CASE v = 0
  <2>1. Reported(q, r) = u
    BY <1>7 DEF Reported, u
  <2>2. Less(q.volume_remain, v) = q.volume_remain
    BY <1>1, <1>7 DEF Less
  <2> QED BY <1>2, <1>7, <2>1, <2>2
<1> QED BY <1>1, <1>6, <1>7

\* Scheduling the archive of an order whose end has been taken off the queue.
LEMMA PendingPopped ==
  ASSUME Invariant, Tracked, responses # <<>>, responses' = Tail(responses),
         pending' \in {pending, ArchivePending(Head(responses))},
         Travelling' = Travelling, UNCHANGED <<next_order_id, broker>>
  PROVE  PendingTracked' /\ InOrder(responses)' /\ Range(responses)' \subseteq Range(responses)
<1> DEFINE r == Head(responses)
<1>1. responses \in Seq(TradeResponse)
  BY DEF Invariant, TypeOK
<1>2. r \in Range(responses) /\ Range(Tail(responses)) \subseteq Range(responses)
  BY <1>1, RangeTail
<1>3. /\ InOrder(Tail(responses))
      /\ \A x \in Range(Tail(responses)) : x.internal_order_id = r.internal_order_id => r.new_state \notin TerminalState
  BY <1>1, InOrderTail DEF Tracked
<1>4. Range(responses)' = Range(Tail(responses))
  OBVIOUS
<1> HIDE DEF r
<1>5. PendingTracked'
  <2> SUFFICES ASSUME NEW id \in pending'
               PROVE  /\ id \notin Travelling
                      /\ id < next_order_id
                      /\ id \in DOMAIN broker => broker[id].phase = "done"
                      /\ \A x \in Range(Tail(responses)) : x.internal_order_id # id
    BY <1>4 DEF PendingTracked
  <2>1. id \in pending \/ (id = r.internal_order_id /\ r.new_state \in TerminalState)
    BY DEF ArchivePending, r
  <2>2. CASE id \in pending
    BY <1>2, <2>2 DEF Tracked, PendingTracked
  <2>3. CASE id = r.internal_order_id /\ r.new_state \in TerminalState
    BY <1>2, <1>3, <2>3 DEF Tracked, ResponsesTracked
  <2> QED BY <2>1, <2>2, <2>3
<1> QED BY <1>2, <1>3, <1>4, <1>5

\* A response the book knows no order for carries no trade.
LEMMA IgnoreTracked ==
  ASSUME Invariant, OneCarrier, Tracked, IgnoreTradeResponse
  PROVE  Tracked'
<1> DEFINE r == Head(responses)
<1> USE DEF Tracked
<1>1. /\ responses # <<>> /\ r.internal_order_id \notin DOMAIN book
      /\ responses' = Tail(responses) /\ pending' = ArchivePending(r)
      /\ UNCHANGED <<next_order_id, slots, upstream, downstream, book, loop, broker>>
  BY DEF IgnoreTradeResponse, external
<1>2. responses \in Seq(TradeResponse)
  BY DEF Invariant, TypeOK
<1>3. r \in Range(responses) /\ r \in TradeResponse
  BY <1>1, <1>2, RangeTail, HeadTail
<1>4. r.volume_traded = 0
  <2>1. r.volume_traded \in Nat
    BY <1>3 DEF TradeResponse
  <2>2. ~ (r.volume_traded > 0)
    BY <1>1, <1>3 DEF ResponsesTracked, Ready
  <2> QED BY <2>1, <2>2
<1>5. Travelling' = Travelling
  BY <1>1 DEF Travelling, Routing, IdsOf
<1>6. PendingTracked' /\ InOrder(responses)' /\ Range(responses)' \subseteq Range(responses)
  BY <1>1, <1>5, PendingPopped
<1>7. \A y : Uncounted(y)' = Uncounted(y)
  <2>1. \A y : Uncounted(y)' = Uncounted(y) - IF r.internal_order_id = y THEN r.volume_traded ELSE 0
    BY <1>1, <1>2, UncountedTail
  <2>2. \A y : Uncounted(y) \in Nat
    BY <1>2, UncountedNat
  <2> QED BY <1>4, <2>1, <2>2
<1>8. \A y : (Ready(y)' <=> Ready(y)) /\ (Live(y)' <=> Live(y))
  BY <1>1 DEF Ready, Live
<1> HIDE DEF r
<1>9. PoolTracked'
  BY <1>1, <1>8 DEF PoolTracked, IdsOf, Range
<1>10. VolumesTracked'
  BY <1>1, <1>7, <1>8 DEF VolumesTracked
<1>11. BrokerTracked'
  BY <1>1, <1>6, <1>8 DEF BrokerTracked
<1>12. ResponsesTracked'
  BY <1>1, <1>5, <1>6, <1>8 DEF ResponsesTracked
<1> QED BY <1>6, <1>9, <1>10, <1>11, <1>12

\* What a response does to the pool and the book: its own order follows the report
\* and may leave the book with its end, every other order stays as it is.
LEMMA ResponseEffect ==
  ASSUME Invariant, HandleTradeResponse, NEW r, r = Head(responses), NEW id, id = r.internal_order_id
  PROVE  /\ responses # <<>> /\ responses' = Tail(responses) /\ pending' = ArchivePending(r) /\ loop.pc = "idle"
         /\ UNCHANGED <<next_order_id, upstream, downstream, loop, broker>>
         /\ id \in DOMAIN book /\ book[id].index \in DOMAIN slots
         /\ DOMAIN book' = IF r.new_state \in TerminalState /\ ArchiveMode = "now" THEN DOMAIN book \ {id}
                           ELSE DOMAIN book
         /\ \A y \in DOMAIN book' : book'[y].index = book[y].index
         /\ \A y \in DOMAIN book' \ {id} : book'[y].request = book[y].request
         /\ id \in DOMAIN book' => book'[id].request = Reported(book[id].request, r)
         /\ DOMAIN slots' = DOMAIN slots
         /\ slots'[book[id].index] = Mirror(slots[book[id].index], Reported(book[id].request, r))
         /\ \A i \in DOMAIN slots \ {book[id].index} : slots'[i] = slots[i]
<1> DEFINE a == Settled(r)
<1>1. /\ responses # <<>> /\ responses' = Tail(responses) /\ pending' = ArchivePending(r) /\ loop.pc = "idle"
      /\ UNCHANGED <<next_order_id, upstream, downstream, loop, broker>>
      /\ id \in DOMAIN book
      /\ slots' = [slots EXCEPT ![book[id].index] = Mirror(@, a.book[id].request)]
      /\ book' = IF r.new_state \in TerminalState /\ ArchiveMode = "now"
                 THEN Restrict(a.book, DOMAIN book \ {id}) ELSE a.book
  BY DEF HandleTradeResponse, ApplyTradeResponse, external
<1>2. r \in TradeResponse
  BY <1>1, HeadTail DEF Invariant, TypeOK
<1>3. /\ Account(a, DOMAIN book)
      /\ a.book[id].request = Reported(book[id].request, r)
      /\ \A y \in DOMAIN book : a.book[y].index = book[y].index
      /\ \A y \in DOMAIN book \ {id} : a.book[y].request = book[y].request
  BY <1>1, <1>2, SettledSafe
<1> HIDE DEF a
<1>4. DOMAIN a.book = DOMAIN book
  BY <1>3 DEF Account
<1>5. book[id].index \in DOMAIN slots /\ slots \in Seq(Slot)
  BY <1>1 DEF Invariant, TypeOK
<1>6. /\ DOMAIN slots' = DOMAIN slots
      /\ slots'[book[id].index] = Mirror(slots[book[id].index], Reported(book[id].request, r))
      /\ \A i \in DOMAIN slots \ {book[id].index} : slots'[i] = slots[i]
  BY <1>1, <1>3, <1>5
<1>7. /\ DOMAIN book' = IF r.new_state \in TerminalState /\ ArchiveMode = "now" THEN DOMAIN book \ {id}
                        ELSE DOMAIN book
      /\ \A y \in DOMAIN book' : book'[y] = a.book[y]
  BY <1>1, <1>4 DEF Restrict
<1>8. DOMAIN book' \subseteq DOMAIN book
  BY <1>7
<1>9. \A y \in DOMAIN book' : book'[y].index = book[y].index
  BY <1>3, <1>7, <1>8
<1>10. \A y \in DOMAIN book' \ {id} : book'[y].request = book[y].request
  BY <1>3, <1>7, <1>8
<1>11. id \in DOMAIN book' => book'[id].request = Reported(book[id].request, r)
  BY <1>3, <1>7
<1> QED BY <1>1, <1>5, <1>6, <1>7, <1>9, <1>10, <1>11

\* The order a response is about, before and as far as the handler got: its remaining
\* volume covers what the broker has left and what is still queued, and if it has
\* ended no trade is missed.
LEMMA ReportedOrder ==
  ASSUME Invariant, Tracked, responses # <<>>, responses' = Tail(responses),
         NEW r, r = Head(responses), NEW id, id = r.internal_order_id, id \in DOMAIN book,
         NEW done, NEW p, p = RequestAt(done, book[id].request, r)
  PROVE  /\ r \in TradeResponse /\ r \in Range(responses)
         /\ p.order_type = "New" /\ p.trade_side \in {"Buy", "Sell"} /\ p.volume_entrust > 0
         /\ p.volume_remain >= IF id \in DOMAIN broker THEN broker[id].left + Uncounted(id)' ELSE p.volume_entrust
         /\ p.order_state \notin TerminalState => p.volume_remain > 0 /\ Live(id)
         /\ done # "popped" /\ r.new_state \in TerminalState => p.order_state \in TerminalState
         /\ p.order_state \in TerminalState =>
              /\ \A x \in Range(Tail(responses)) : x.internal_order_id = id =>
                   ~ (x.volume_traded > 0) /\ x.new_state \in TerminalState
              /\ id \in DOMAIN broker => broker[id].phase = "done" \/ broker[id].left = 0
<1> DEFINE q == book[id].request
           v == r.volume_traded
           rest == SeqSum(VolumeFor(id), Tail(responses))
<1>1. /\ responses \in Seq(TradeResponse) /\ Tail(responses) \in Seq(TradeResponse)
      /\ r \in TradeResponse /\ r \in Range(responses)
  BY HeadTail, RangeTail DEF Invariant, TypeOK
<1>2. q \in Request /\ q.volume_remain \in Nat
  <2>1. q \in Request
    BY MirrorFields
  <2> QED BY <2>1 DEF Request
<1>3. v \in Nat
  BY <1>1 DEF TradeResponse
<1>4. /\ q.order_type = "New"
      /\ v > 0 => id \in DOMAIN broker
      /\ r.new_state \in TerminalState => v = 0 /\ (id \in DOMAIN broker => broker[id].phase = "done")
      /\ r.new_state \notin TerminalState => Live(id)
  BY <1>1 DEF Tracked, ResponsesTracked
<1>5. /\ q.trade_side \in {"Buy", "Sell"} /\ q.volume_entrust > 0
      /\ q.volume_remain >= IF id \in DOMAIN broker THEN broker[id].left + Uncounted(id) ELSE q.volume_entrust
      /\ Live(id) => q.volume_remain > 0
  BY <1>4 DEF Tracked, VolumesTracked
<1>6. /\ p.order_type = q.order_type /\ p.trade_side = q.trade_side /\ p.volume_entrust = q.volume_entrust
      /\ \/ done = "popped" /\ p = q
         \/ done = "reported" /\ p.volume_remain = q.volume_remain /\ p.order_state = r.new_state
         \/ /\ done # "popped"
            /\ p.volume_remain = Less(q.volume_remain, v)
            /\ p.order_state = IF v > 0 /\ p.volume_remain = 0 /\ r.new_state \notin TerminalState
                               THEN "Finished" ELSE r.new_state
  <2>1. CASE done = "popped"
    BY <2>1 DEF RequestAt
  <2>2. CASE done = "reported"
    <3>1. p = UpdateState(q, r.new_state) /\ r.new_state \in OrderState
      BY <1>1, <2>2 DEF RequestAt, TradeResponse
    <3> QED BY <1>2, <2>2, <3>1 DEF UpdateState, Request
  <2>3. CASE done \notin {"popped", "reported"}
    <3>1. p = Reported(q, r)
      BY <2>3 DEF RequestAt
    <3> HIDE DEF q
    <3> QED BY <1>1, <1>2, <2>3, <3>1, ReportedFacts
  <2> QED BY <2>1, <2>2, <2>3
<1>7. rest \in Nat /\ \A x \in Range(Tail(responses)) : x.internal_order_id = id => x.volume_traded <= rest
  BY <1>1, VolumesQueued
<1>8. Uncounted(id)' = rest /\ rest = Uncounted(id) - v /\ Uncounted(id) \in Nat
  <2>1. Uncounted(id)' = Uncounted(id) - v
    BY <1>1, UncountedTail
  <2>2. Uncounted(id)' = rest
    BY DEF Uncounted
  <2> QED BY <1>1, <2>1, <2>2, UncountedNat
<1>9. id \in DOMAIN broker => broker[id].left \in Nat
  <2>1. id \in DOMAIN broker => broker[id] \in BrokerOrder
    BY DEF Invariant, TypeOK
  <2> QED BY <2>1 DEF BrokerOrder
<1>10. \A x \in Range(Tail(responses)) : x.internal_order_id = id =>
         r.new_state \notin TerminalState /\ (x.volume_traded > 0 \/ x.new_state \in TerminalState)
  BY <1>1, InOrderTail DEF Tracked
<1>11. \A x \in Range(Tail(responses)) : x.volume_traded \in Nat
  <2>1. Range(Tail(responses)) \subseteq TradeResponse
    BY <1>1, RangeType
  <2> QED BY <2>1 DEF TradeResponse
<1>12. "Finished" \in TerminalState
  BY DEF TerminalState
<1> HIDE DEF q, v, rest
<1>13. p.volume_remain >= IF id \in DOMAIN broker THEN broker[id].left + rest ELSE p.volume_entrust
  BY <1>2, <1>3, <1>4, <1>5, <1>6, <1>7, <1>8, <1>9 DEF Less
<1>14. p.order_state \notin TerminalState => p.volume_remain > 0 /\ Live(id)
  <2> USE DEF q
  <2>3. CASE done = "popped" /\ p = q
    BY <1>5, <2>3 DEF Live
  <2>4. CASE done = "reported" /\ p.volume_remain = q.volume_remain /\ p.order_state = r.new_state
    BY <1>4, <1>5, <2>4
  <2> HIDE DEF q
  <2>5. ASSUME p.volume_remain = Less(q.volume_remain, v),
               p.order_state = IF v > 0 /\ p.volume_remain = 0 /\ r.new_state \notin TerminalState
                               THEN "Finished" ELSE r.new_state
        PROVE  p.order_state \notin TerminalState => p.volume_remain > 0 /\ Live(id)
    <3>1. CASE v = 0
      BY <1>2, <1>4, <1>5, <2>5, <3>1 DEF Less
    <3>2. CASE v > 0
      <4>1. p.volume_remain \in Nat
        BY <1>2, <1>3, <2>5 DEF Less
      <4> QED BY <1>4, <2>5, <1>12, <3>2, <4>1
    <3> QED BY <1>3, <3>1, <3>2
  <2> QED BY <1>6, <2>3, <2>4, <2>5
<1>15. done # "popped" /\ r.new_state \in TerminalState => p.order_state \in TerminalState
  BY <1>6, <1>12
<1>16. ASSUME p.order_state \in TerminalState
       PROVE  /\ \A x \in Range(Tail(responses)) : x.internal_order_id = id =>
                   ~ (x.volume_traded > 0) /\ x.new_state \in TerminalState
              /\ id \in DOMAIN broker => broker[id].phase = "done" \/ broker[id].left = 0
  <2>1. CASE r.new_state \in TerminalState
    BY <1>4, <1>10, <2>1
  <2>3. CASE done = "popped" /\ p = q
    <3>1. ~ Live(id) /\ ~ Ready(id)
      BY <1>16, <2>3 DEF Live, Ready, q
    <3>2. \A x \in Range(Tail(responses)) : x \in Range(responses)
      BY <1>1, RangeTail
    <3> QED BY <1>9, <3>1, <3>2 DEF Tracked, ResponsesTracked, BrokerTracked
  <2>2. CASE r.new_state \notin TerminalState /\ ~ (done = "popped" /\ p = q)
    <3>1. v > 0 /\ p.volume_remain = 0
      BY <1>6, <1>16, <2>2
    <3>2. id \in DOMAIN broker /\ broker[id].left = 0 /\ rest = 0
      BY <1>4, <1>7, <1>9, <1>13, <3>1
    <3>3. \A x \in Range(Tail(responses)) : x.internal_order_id = id => ~ (x.volume_traded > 0)
      BY <1>7, <1>11, <3>2
    <3> QED BY <1>10, <3>2, <3>3
  <2> QED BY <2>1, <2>2, <2>3
<1> QED BY <1>1, <1>4, <1>5, <1>6, <1>8, <1>13, <1>14, <1>15, <1>16

\* A response is taken off the queue: its order's request becomes p in the book and,
\* as far as recovery can tell, in the slot; an order that has ended may leave.
LEMMA ResponseTracked ==
  ASSUME Invariant, OneCarrier, Tracked, NEW r, r = Head(responses), NEW id, id = r.internal_order_id,
         NEW k, k = book[id].index, NEW p,
         responses # <<>>, responses' = Tail(responses), pending' \in {pending, ArchivePending(r)},
         loop.pc = "idle", loop'.pc \notin {"route", "sent", "staged"},
         UNCHANGED <<next_order_id, upstream, downstream, broker>>,
         id \in DOMAIN book, k \in DOMAIN slots,
         DOMAIN book' \in {DOMAIN book, DOMAIN book \ {id}},
         p.order_state \notin TerminalState => id \in DOMAIN book',
         \A y \in DOMAIN book' : book'[y].index = book[y].index,
         \A y \in DOMAIN book' \ {id} : book'[y].request = book[y].request,
         id \in DOMAIN book' => book'[id].request = p,
         DOMAIN slots' = DOMAIN slots,
         slots'[k].request.internal_order_id = id,
         Recoverable(slots'[k]) => p.order_state \notin TerminalState,
         p.order_state \notin TerminalState => slots'[k].stage = slots[k].stage,
         \A i \in DOMAIN slots \ {k} : slots'[i] = slots[i],
         r \in TradeResponse, r \in Range(responses),
         p.order_type = "New", p.trade_side \in {"Buy", "Sell"}, p.volume_entrust > 0,
         p.volume_remain >= IF id \in DOMAIN broker THEN broker[id].left + Uncounted(id)' ELSE p.volume_entrust,
         p.order_state \notin TerminalState => p.volume_remain > 0 /\ Live(id),
         p.order_state \in TerminalState =>
           /\ \A x \in Range(Tail(responses)) : x.internal_order_id = id =>
                ~ (x.volume_traded > 0) /\ x.new_state \in TerminalState
           /\ id \in DOMAIN broker => broker[id].phase = "done" \/ broker[id].left = 0
  PROVE  Tracked'
<1> USE DEF Tracked
<1>5. slots[k].request.internal_order_id = id
  BY SlotOwner
<1>6. /\ upstream \in Seq(DOMAIN slots) /\ downstream \in Seq(DOMAIN slots)
      /\ responses \in Seq(TradeResponse)
      /\ Range(upstream) \subseteq DOMAIN slots /\ Range(downstream) \subseteq DOMAIN slots
  BY RangeType DEF Invariant, TypeOK
<1>7. \A i \in DOMAIN slots : slots'[i].request.internal_order_id = slots[i].request.internal_order_id
  BY <1>5
<1>8. /\ IdsOf(slots, upstream)' = IdsOf(slots, upstream)
      /\ IdsOf(slots, downstream)' = IdsOf(slots, downstream)
  <2>1. KeepsIds(slots, slots')
    BY <1>7 DEF KeepsIds
  <2> QED BY <1>6, <2>1, QueueKept
<1>9. Travelling' = Travelling /\ id \notin Travelling
  <2>1. Routing' = Routing
    BY DEF Routing
  <2>2. id \notin Travelling
    BY DEF ResponsesTracked
  <2> QED BY <1>8, <2>1, <2>2 DEF Travelling
<1>10. PendingTracked' /\ InOrder(responses)' /\ Range(responses)' \subseteq Range(responses)
  BY <1>9, PendingPopped
<1>11. \A y : y # id => Uncounted(y)' = Uncounted(y)
  <2>1. \A y : Uncounted(y)' = Uncounted(y) - IF r.internal_order_id = y THEN r.volume_traded ELSE 0
    BY <1>6, UncountedTail
  <2>2. \A y : Uncounted(y) \in Nat
    BY <1>6, UncountedNat
  <2> QED BY <2>1, <2>2
<1>12. \A y : y # id /\ Ready(y) => Ready(y)'
  <2> SUFFICES ASSUME NEW y, y # id, Ready(y) PROVE Ready(y)'
    OBVIOUS
  <2>1. y \in DOMAIN book /\ y \in DOMAIN book' /\ book[y].index \in DOMAIN slots
    BY DEF Ready, Invariant, TypeOK
  <2>2. book[y].index # k
    BY <1>5, <2>1, SlotOwner
  <2> QED BY <2>1, <2>2 DEF Ready, Live
<1>13. Ready(id) /\ p.order_state \notin TerminalState => Ready(id)'
  <2>1. p.order_state \notin TerminalState => id \in DOMAIN book'
    OBVIOUS
  <2> QED BY <1>5, <2>1 DEF Ready, Live
<1>14. \A y \in DOMAIN book \ {id} : y \in DOMAIN book' /\ (Live(y)' <=> Live(y))
  BY DEF Live
<1>15. id \in DOMAIN book' => (Live(id)' <=> p.order_state \notin TerminalState)
  BY DEF Live
<1>16. DOMAIN book' \subseteq DOMAIN book
  OBVIOUS
<1>17. PoolTracked'
  <2>1. \A i \in Range(upstream)' :
          Fresh(slots'[i].request) /\ slots'[i].request.internal_order_id \notin DOMAIN book'
    <3> SUFFICES ASSUME NEW i \in Range(upstream)
                 PROVE  Fresh(slots'[i].request) /\ slots'[i].request.internal_order_id \notin DOMAIN book'
      OBVIOUS
    <3>1. i # k
      BY <1>5 DEF PoolTracked
    <3> QED BY <1>6, <1>16, <3>1 DEF PoolTracked
  <2>2. \A i \in DOMAIN slots' : Recoverable(slots'[i]) =>
          LET y == slots'[i].request.internal_order_id
          IN y \in DOMAIN book' /\ book'[y].index = i /\ book'[y].request.order_type = "New"
    <3> SUFFICES ASSUME NEW i \in DOMAIN slots, Recoverable(slots'[i])
                 PROVE  LET y == slots'[i].request.internal_order_id
                        IN y \in DOMAIN book' /\ book'[y].index = i /\ book'[y].request.order_type = "New"
      OBVIOUS
    <3>1. CASE i = k
      <4>1. p.order_state \notin TerminalState
        BY <1>5, <3>1 DEF Recoverable
      <4>2. id \in DOMAIN book'
        BY <4>1
      <4> QED BY <1>5, <3>1, <4>2
    <3>2. CASE i # k
      <4>1. slots'[i] = slots[i]
        BY <3>2
      <4> DEFINE y == slots[i].request.internal_order_id
      <4>2. y \in DOMAIN book /\ book[y].index = i /\ book[y].request.order_type = "New"
        BY <4>1 DEF PoolTracked
      <4>3. y # id
        BY <3>2, <4>2
      <4> QED BY <4>1, <4>2, <4>3
    <3> QED BY <3>1, <3>2
  <2>3. \A y \in IdsOf(slots, downstream)' : Ready(y)'
    BY <1>8, <1>9, <1>12 DEF PoolTracked, Travelling
  <2>4. \A i \in Range(downstream)' : book'[slots'[i].request.internal_order_id].index = i
    <3> SUFFICES ASSUME NEW i \in Range(downstream) PROVE book'[slots[i].request.internal_order_id].index = i
      BY <1>6, <1>7
    <3>1. slots[i].request.internal_order_id \in IdsOf(slots, downstream)
      BY IdsOfRange
    <3>2. slots[i].request.internal_order_id \in DOMAIN book'
      <4>1. \A y : Ready(y)' => y \in DOMAIN book'
        BY DEF Ready
      <4> QED BY <1>8, <2>3, <3>1, <4>1
    <3> QED BY <3>2 DEF PoolTracked
  <2> QED BY <2>1, <2>2, <2>3, <2>4 DEF PoolTracked
<1>18. VolumesTracked'
  <2> SUFFICES ASSUME NEW y \in DOMAIN book', book'[y].request.order_type = "New"
               PROVE  LET q == book'[y].request
                      IN /\ q.trade_side \in {"Buy", "Sell"} /\ q.volume_entrust > 0
                         /\ q.volume_remain >= IF y \in DOMAIN broker' THEN broker'[y].left + Uncounted(y)'
                                              ELSE q.volume_entrust
                         /\ Live(y)' => q.volume_remain > 0
    BY DEF VolumesTracked
  <2>1. CASE y = id
    BY <1>15, <2>1
  <2>2. CASE y # id
    BY <1>11, <1>14, <1>16, <2>2 DEF VolumesTracked
  <2> QED BY <2>1, <2>2
<1>19. BrokerTracked'
  <2> SUFFICES ASSUME NEW y \in DOMAIN broker
               PROVE  LET b == broker[y] IN
                      /\ b.side \in {"Buy", "Sell"}
                      /\ b.phase = "received" => b.left > 0 /\ \A x \in Range(responses)' : x.internal_order_id # y
                      /\ b.phase # "done" /\ b.left > 0 => Ready(y)'
                      /\ y \in DOMAIN book' => book'[y].request.order_type = "New"
    BY DEF BrokerTracked
  <2>1. CASE y = id
    BY <1>10, <1>13, <2>1 DEF BrokerTracked
  <2>2. CASE y # id
    BY <1>10, <1>12, <1>16, <2>2 DEF BrokerTracked
  <2> QED BY <2>1, <2>2
<1>20. ResponsesTracked'
  <2> SUFFICES ASSUME NEW x \in Range(Tail(responses))
               PROVE  LET y == x.internal_order_id IN
                      /\ y \notin Travelling
                      /\ y < next_order_id
                      /\ y \in DOMAIN book' => book'[y].request.order_type = "New"
                      /\ x.volume_traded > 0 =>
                           y \in DOMAIN broker /\ Ready(y)' /\ x.trade_side = broker[y].side
                      /\ x.new_state \in TerminalState =>
                           x.volume_traded = 0 /\ (y \in DOMAIN broker => broker[y].phase = "done")
                      /\ x.new_state \notin TerminalState /\ y \in DOMAIN book' => Live(y)'
    BY <1>9 DEF ResponsesTracked
  <2>1. x \in Range(responses)
    BY <1>10
  <2>2. CASE x.internal_order_id = id
    BY <1>13, <1>15, <2>1, <2>2 DEF ResponsesTracked
  <2>3. CASE x.internal_order_id # id
    BY <1>12, <1>14, <1>16, <2>1, <2>3 DEF ResponsesTracked
  <2> QED BY <2>2, <2>3
<1> QED BY <1>10, <1>17, <1>18, <1>19, <1>20

\* handle_trade_response follows the order's reports to its end.
LEMMA HandleTradeResponseTracked ==
  ASSUME Invariant, OneCarrier, Tracked, HandleTradeResponse
  PROVE  Tracked'
<1>1. PICK r : r = Head(responses)
  OBVIOUS
<1>2. PICK id : id = r.internal_order_id
  OBVIOUS
<1>k. PICK k : k = book[id].index
  OBVIOUS
<1> DEFINE p == Reported(book[id].request, r)
<1>3. /\ responses # <<>> /\ responses' = Tail(responses) /\ pending' = ArchivePending(r) /\ loop.pc = "idle"
      /\ UNCHANGED <<next_order_id, upstream, downstream, loop, broker>>
      /\ id \in DOMAIN book /\ k \in DOMAIN slots
      /\ DOMAIN book' = IF r.new_state \in TerminalState /\ ArchiveMode = "now" THEN DOMAIN book \ {id}
                        ELSE DOMAIN book
      /\ \A y \in DOMAIN book' : book'[y].index = book[y].index
      /\ \A y \in DOMAIN book' \ {id} : book'[y].request = book[y].request
      /\ id \in DOMAIN book' => book'[id].request = p
      /\ DOMAIN slots' = DOMAIN slots
      /\ slots'[k] = Mirror(slots[k], p)
      /\ \A i \in DOMAIN slots \ {k} : slots'[i] = slots[i]
  BY <1>1, <1>2, <1>k, ResponseEffect
<1>4. p = RequestAt("counted", book[id].request, r)
  BY DEF RequestAt
<1>5. p.internal_order_id = id
  <2>1. book[id].request \in Request /\ book[id].request.internal_order_id = id
    BY <1>3, MirrorFields
  <2>2. r \in TradeResponse
    BY <1>1, <1>3, HeadTail DEF Invariant, TypeOK
  <2> QED BY <2>1, <2>2, ReportedType
<1> HIDE DEF p
<1>6. /\ r \in TradeResponse /\ r \in Range(responses)
      /\ p.order_type = "New" /\ p.trade_side \in {"Buy", "Sell"} /\ p.volume_entrust > 0
      /\ p.volume_remain >= IF id \in DOMAIN broker THEN broker[id].left + Uncounted(id)' ELSE p.volume_entrust
      /\ p.order_state \notin TerminalState => p.volume_remain > 0 /\ Live(id)
      /\ r.new_state \in TerminalState => p.order_state \in TerminalState
      /\ p.order_state \in TerminalState =>
           /\ \A x \in Range(Tail(responses)) : x.internal_order_id = id =>
                ~ (x.volume_traded > 0) /\ x.new_state \in TerminalState
           /\ id \in DOMAIN broker => broker[id].phase = "done" \/ broker[id].left = 0
  BY <1>1, <1>2, <1>3, <1>4, ReportedOrder
<1>7. /\ slots'[k].request.internal_order_id = id
      /\ Recoverable(slots'[k]) => p.order_state \notin TerminalState
      /\ p.order_state \notin TerminalState => slots'[k].stage = slots[k].stage
  BY <1>3, <1>5 DEF Mirror, Recoverable
<1>8. /\ DOMAIN book' \in {DOMAIN book, DOMAIN book \ {id}}
      /\ p.order_state \notin TerminalState => id \in DOMAIN book'
      /\ pending' \in {pending, ArchivePending(r)}
      /\ loop'.pc \notin {"route", "sent", "staged"}
  BY <1>3, <1>6
<1> QED BY <1>1, <1>2, <1>k, <1>3, <1>6, <1>7, <1>8, ResponseTracked

\* A response that dies with the service leaves its order where it was or further on.
LEMMA DieSettlingTracked ==
  ASSUME Invariant, OneCarrier, Tracked, NEW done, DieSettling(done)
  PROVE  Tracked'
<1>1. PICK r : r = Head(responses)
  OBVIOUS
<1>2. PICK id : id = r.internal_order_id
  OBVIOUS
<1>k. PICK k : k = book[id].index
  OBVIOUS
<1> DEFINE p == RequestAt(done, book[id].request, r)
<1>3. /\ responses # <<>> /\ responses' = Tail(responses) /\ pending' = pending
      /\ loop.pc = "idle" /\ loop'.pc = "settling"
      /\ UNCHANGED <<next_order_id, upstream, downstream, broker>>
      /\ id \in DOMAIN book
      /\ book' = [book EXCEPT ![id].request = p]
      /\ slots' = IF done = "popped" THEN slots ELSE [slots EXCEPT ![k] = Mirror(@, p)]
  BY <1>1, <1>2, <1>k DEF DieSettling
<1>4. /\ k \in DOMAIN slots /\ slots \in Seq(Slot) /\ book \in [DOMAIN book -> Entry]
      /\ slots[k].request.internal_order_id = id
      /\ slots[k].request.order_state = book[id].request.order_state
  BY <1>3, <1>k, MirrorFields DEF Invariant, TypeOK
<1>5. p.internal_order_id = id
  <2>1. book[id].request \in Request /\ book[id].request.internal_order_id = id
    BY <1>3, MirrorFields
  <2>2. r \in TradeResponse
    BY <1>1, <1>3, HeadTail DEF Invariant, TypeOK
  <2> QED BY <2>1, <2>2, RequestAtType
<1>6. done = "popped" => p = book[id].request
  BY DEF RequestAt
<1>7. /\ r \in TradeResponse /\ r \in Range(responses)
      /\ p.order_type = "New" /\ p.trade_side \in {"Buy", "Sell"} /\ p.volume_entrust > 0
      /\ p.volume_remain >= IF id \in DOMAIN broker THEN broker[id].left + Uncounted(id)' ELSE p.volume_entrust
      /\ p.order_state \notin TerminalState => p.volume_remain > 0 /\ Live(id)
      /\ p.order_state \in TerminalState =>
           /\ \A x \in Range(Tail(responses)) : x.internal_order_id = id =>
                ~ (x.volume_traded > 0) /\ x.new_state \in TerminalState
           /\ id \in DOMAIN broker => broker[id].phase = "done" \/ broker[id].left = 0
  BY <1>1, <1>2, <1>3, ReportedOrder
<1> HIDE DEF p
<1>8. /\ DOMAIN book' = DOMAIN book /\ book'[id].request = p
      /\ \A y \in DOMAIN book : book'[y].index = book[y].index
      /\ \A y \in DOMAIN book \ {id} : book'[y].request = book[y].request
  BY <1>3, <1>4 DEF Entry
<1>9. /\ DOMAIN slots' = DOMAIN slots
      /\ \A i \in DOMAIN slots \ {k} : slots'[i] = slots[i]
      /\ slots'[k].request.internal_order_id = id
      /\ Recoverable(slots'[k]) => p.order_state \notin TerminalState
      /\ p.order_state \notin TerminalState => slots'[k].stage = slots[k].stage
  <2>1. CASE done = "popped"
    BY <1>3, <1>4, <1>6, <2>1 DEF Recoverable
  <2>2. CASE done # "popped"
    <3>1. slots' = [slots EXCEPT ![k] = Mirror(slots[k], p)]
      BY <1>3, <2>2
    <3> QED BY <1>4, <1>5, <3>1 DEF Mirror, Recoverable
  <2> QED BY <2>1, <2>2
<1>10. /\ DOMAIN book' \in {DOMAIN book, DOMAIN book \ {id}} /\ id \in DOMAIN book'
       /\ pending' \in {pending, ArchivePending(r)}
       /\ loop'.pc \notin {"route", "sent", "staged"}
       /\ UNCHANGED <<next_order_id, upstream, downstream, broker>>
  BY <1>3, <1>8
<1> QED BY <1>1, <1>2, <1>k, <1>3, <1>4, <1>7, <1>8, <1>9, <1>10, ResponseTracked

-----------------------------------------------------------------------------
(* The API and the loop's upstream half.                                   *)

\* Every id in use has been handed out.
LEMMA IdsHandedOut ==
  ASSUME Invariant, OneCarrier
  PROVE  /\ next_order_id \in Nat
         /\ \A id \in DOMAIN book \cup DOMAIN broker \cup Travelling : id \in Nat /\ id < next_order_id
<1>1. next_order_id \in Nat /\ \A i \in DOMAIN slots : slots[i].request.internal_order_id \in Nat
  <2>1. next_order_id \in 1 .. MaxOrders + 1
    BY DEF Invariant, TypeOK
  <2>2. \A i \in DOMAIN slots : slots[i] \in Slot
    BY ElementType DEF Invariant, TypeOK
  <2>3. \A i \in DOMAIN slots : slots[i].request \in Request
    BY <2>2 DEF Slot
  <2>4. \A i \in DOMAIN slots : slots[i].request.internal_order_id \in OrderIds
    BY <2>3 DEF Request
  <2> QED BY <2>1, <2>4, BoundsAssumption DEF OrderIds
<1>2. \A i \in DOMAIN slots : slots[i].request.internal_order_id < next_order_id
  BY DEF OneCarrier
<1>3. \A id \in DOMAIN book : id \in Nat /\ id < next_order_id
  <2>1. \A id \in DOMAIN book : book[id].index \in DOMAIN slots
    BY DEF Invariant, TypeOK
  <2> QED BY <1>1, <1>2, <2>1, SlotOwner
<1>4. \A id \in DOMAIN broker : id \in Nat /\ id < next_order_id
  <2>1. DOMAIN broker \subseteq OrderIds
    BY DEF Invariant, TypeOK
  <2> QED BY <2>1, BoundsAssumption DEF OrderIds, OneCarrier
<1>5. \A id \in IdsOf(slots, upstream) \cup IdsOf(slots, downstream) : id \in Nat /\ id < next_order_id
  <2>1. Range(upstream) \subseteq DOMAIN slots /\ Range(downstream) \subseteq DOMAIN slots
    BY RangeType DEF Invariant, TypeOK
  <2> QED BY <1>1, <1>2, <2>1, IdsOfRange
<1>6. \A id \in Routing : id \in DOMAIN book
  BY DEF Routing, Invariant, TypeOK
<1> QED BY <1>1, <1>3, <1>4, <1>5, <1>6 DEF Travelling

\* A client's request waits under a fresh id.
LEMMA EnqueueTracked ==
  ASSUME Invariant, OneCarrier, Tracked, NEW request, request.internal_order_id = next_order_id,
         Fresh(request), EnqueueOrder(request)
  PROVE  Tracked'
<1> DEFINE n == Len(slots) + 1
<1> USE DEF Tracked
<1>1. /\ next_order_id \in Nat
      /\ \A id \in DOMAIN book \cup DOMAIN broker \cup Travelling : id \in Nat /\ id < next_order_id
  BY IdsHandedOut
<1>2. /\ next_order_id' = next_order_id + 1
      /\ UNCHANGED <<downstream, responses, book, pending, loop, broker>>
  BY DEF EnqueueOrder, service, external
<1>3. /\ \A r \in Range(responses) : r.internal_order_id \in Nat /\ r.internal_order_id < next_order_id
      /\ \A id \in pending : id \in Nat /\ id < next_order_id
  <2>1. Range(responses) \subseteq TradeResponse /\ pending \subseteq OrderIds
    BY RangeType DEF Invariant, TypeOK
  <2>2. \A r \in TradeResponse : r.internal_order_id \in OrderIds
    BY DEF TradeResponse
  <2> QED BY <2>1, <2>2, BoundsAssumption DEF OrderIds, ResponsesTracked, PendingTracked
<1>4. \A x : x \in Nat /\ x < next_order_id => x < next_order_id' /\ x # next_order_id
  BY <1>1, <1>2
<1>5. ASSUME \A y : Ready(y)' <=> Ready(y),
             Travelling' \subseteq Travelling \cup {next_order_id}, PoolTracked'
      PROVE  Tracked'
  <2>1. \A y : (Live(y)' <=> Live(y)) /\ Uncounted(y)' = Uncounted(y)
    BY <1>2 DEF Live, Uncounted
  <2>2. Range(responses)' = Range(responses) /\ InOrder(responses)'
    BY <1>2
  <2>3. VolumesTracked'
    BY <1>2, <2>1 DEF VolumesTracked
  <2>4. BrokerTracked'
    BY <1>2, <1>5, <2>2 DEF BrokerTracked
  <2>5. ResponsesTracked'
    BY <1>2, <1>3, <1>4, <1>5, <2>1, <2>2 DEF ResponsesTracked
  <2>6. PendingTracked'
    BY <1>2, <1>3, <1>4, <1>5, <2>2 DEF PendingTracked
  <2> QED BY <1>5, <2>2, <2>3, <2>4, <2>5, <2>6
<1>6. CASE UNCHANGED <<slots, upstream>>
  <2>1. (\A y : Ready(y)' <=> Ready(y)) /\ Travelling' = Travelling
    BY <1>2, <1>6 DEF Ready, Live, Travelling, IdsOf, Routing
  <2>2. PoolTracked'
    BY <1>2, <1>6, <2>1 DEF PoolTracked, IdsOf, Range
  <2> QED BY <1>5, <2>1, <2>2
<1>7. ASSUME NEW v, v.request = request, v.stage \notin RecoverableStage, slots' = Append(slots, v),
             upstream' \in {upstream, Append(upstream, n)}
      PROVE  Tracked'
  <2>1. /\ slots \in Seq(Slot) /\ upstream \in Seq(DOMAIN slots) /\ downstream \in Seq(DOMAIN slots)
        /\ Range(upstream) \subseteq DOMAIN slots /\ Range(downstream) \subseteq DOMAIN slots
    BY RangeType DEF Invariant, TypeOK
  <2>2. /\ DOMAIN slots' = DOMAIN slots \cup {n} /\ slots'[n] = v
        /\ \A i \in DOMAIN slots : slots'[i] = slots[i]
    BY <1>7, <2>1
  <2>3. Range(upstream') \subseteq Range(upstream) \cup {n}
    BY <1>7, <2>1, RangeAppend
  <2> HIDE DEF n
  <2>4. KeepsIds(slots, slots')
    BY <2>2 DEF KeepsIds
  <2>5. IdsOf(slots, downstream)' = IdsOf(slots, downstream) /\ IdsOf(slots', upstream) = IdsOf(slots, upstream)
    BY <1>2, <2>1, <2>4, QueueKept
  <2>6. IdsOf(slots, upstream)' \subseteq IdsOf(slots, upstream) \cup {next_order_id}
    <3>1. /\ IdsOf(slots', upstream') = {slots'[i].request.internal_order_id : i \in Range(upstream')}
          /\ IdsOf(slots, upstream) = {slots[i].request.internal_order_id : i \in Range(upstream)}
      BY IdsOfRange
    <3>2. \A i \in Range(upstream') : slots'[i].request.internal_order_id \in IdsOf(slots, upstream) \cup {next_order_id}
      BY <1>7, <2>1, <2>2, <2>3, <3>1
    <3> QED BY <3>1, <3>2
  <2>7. Travelling' \subseteq Travelling \cup {next_order_id}
    <3>1. Routing' = Routing
      BY <1>2 DEF Routing
    <3> QED BY <2>5, <2>6, <3>1 DEF Travelling
  <2>8. \A y : Ready(y)' <=> Ready(y)
    <3>1. \A y \in DOMAIN book : slots'[book[y].index] = slots[book[y].index]
      BY <2>2 DEF Invariant, TypeOK
    <3> QED BY <1>2, <3>1 DEF Ready, Live
  <2>9. PoolTracked'
    <3>1. \A i \in Range(upstream)' :
            Fresh(slots'[i].request) /\ slots'[i].request.internal_order_id \notin DOMAIN book'
      BY <1>1, <1>2, <1>4, <1>7, <2>1, <2>2, <2>3 DEF PoolTracked
    <3>2. \A i \in DOMAIN slots' : Recoverable(slots'[i]) =>
            LET y == slots'[i].request.internal_order_id
            IN y \in DOMAIN book' /\ book'[y].index = i /\ book'[y].request.order_type = "New"
      <4>1. ~ Recoverable(v)
        BY <1>7 DEF Recoverable
      <4> QED BY <1>2, <2>2, <4>1 DEF PoolTracked
    <3>3. \A y \in IdsOf(slots, downstream)' : Ready(y)'
      BY <2>5, <2>8 DEF PoolTracked
    <3>4. \A i \in Range(downstream)' : book'[slots'[i].request.internal_order_id].index = i
      BY <1>2, <2>1, <2>2 DEF PoolTracked
    <3> QED BY <1>2, <3>1, <3>2, <3>3, <3>4 DEF PoolTracked
  <2> QED BY <1>5, <2>7, <2>8, <2>9
<1>8. "UpstreamQueued" \notin RecoverableStage /\ "QueuePushFailed" \notin RecoverableStage
  BY DEF RecoverableStage
<1> QED BY <1>6, <1>7, <1>8 DEF EnqueueOrder

\* The fee estimate changes nothing else in a request.
LEMMA IncomingFacts ==
  ASSUME Invariant, upstream # <<>>
  PROVE  LET q == slots[Head(upstream)].request
         IN /\ Incoming \in Request /\ q \in Request
            /\ Incoming.internal_order_id = q.internal_order_id /\ Incoming.order_type = q.order_type
            /\ Incoming.trade_side = q.trade_side /\ Incoming.volume_entrust = q.volume_entrust
            /\ Incoming.dprice_entrust = q.dprice_entrust /\ Incoming.volume_remain = q.volume_remain
<1> DEFINE q == slots[Head(upstream)].request
<1>1. Incoming \in Request /\ Head(upstream) \in DOMAIN slots
  BY IncomingType
<1>2. slots[Head(upstream)] \in Slot
  BY <1>1, ElementType DEF Invariant, TypeOK
<1>3. q \in Request
  BY <1>2 DEF Slot
<1>4. Incoming = PrepareOrderEstimate(q)
  BY DEF Incoming
<1> HIDE DEF q, Incoming
<1>5. /\ Incoming.internal_order_id = q.internal_order_id /\ Incoming.order_type = q.order_type
      /\ Incoming.trade_side = q.trade_side /\ Incoming.volume_entrust = q.volume_entrust
      /\ Incoming.dprice_entrust = q.dprice_entrust /\ Incoming.volume_remain = q.volume_remain
  BY <1>3, <1>4 DEF PrepareOrderEstimate, Request
<1> QED BY <1>1, <1>3, <1>5 DEF q

\* The order at the head of the upstream queue is nowhere else in it.
LEMMA UpstreamPopped ==
  ASSUME Invariant, OneCarrier, upstream # <<>>, NEW id, id = slots[Head(upstream)].request.internal_order_id
  PROVE  /\ IdsOf(slots, upstream) = IdsOf(slots, Tail(upstream)) \cup {id}
         /\ id \notin IdsOf(slots, Tail(upstream))
<1>1. upstream \in Seq(DOMAIN slots) /\ NoRepeat(slots, upstream)
  BY DEF Invariant, TypeOK, OneCarrier
<1> QED BY <1>1, QueuePopped

\* The head of the upstream queue is handled: its slot gets v, which recovery would
\* not restore, and the book perhaps an entry for it.
LEMMA TakenTracked ==
  ASSUME Invariant, OneCarrier, Tracked, upstream # <<>>, upstream' = Tail(upstream), loop.pc = "idle",
         NEW id, id = slots[Head(upstream)].request.internal_order_id,
         NEW v, slots' = [slots EXCEPT ![Head(upstream)] = v],
         v.request.internal_order_id = id, v.stage \notin RecoverableStage,
         DOMAIN book' = DOMAIN book \/ DOMAIN book' = DOMAIN book \cup {id},
         \A y \in DOMAIN book : book'[y] = book[y],
         id \in DOMAIN book' => Fresh(book'[id].request),
         loop' = loop \/ /\ loop' = [pc |-> "route", id |-> id]
                         /\ book'[id].request.order_state \notin TerminalState,
         UNCHANGED <<next_order_id, downstream, responses, pending, broker>>
  PROVE  Tracked'
<1> DEFINE i == Head(upstream)
<1> USE DEF Tracked
<1>1. /\ slots \in Seq(Slot) /\ upstream \in Seq(DOMAIN slots) /\ downstream \in Seq(DOMAIN slots)
      /\ Range(upstream) \subseteq DOMAIN slots /\ Range(downstream) \subseteq DOMAIN slots
      /\ i \in DOMAIN slots /\ i \in Range(upstream) /\ Range(Tail(upstream)) \subseteq Range(upstream)
      /\ Tail(upstream) \in Seq(DOMAIN slots)
  BY RangeType, RangeTail, HeadTail DEF Invariant, TypeOK
<1>2. /\ DOMAIN slots' = DOMAIN slots /\ slots'[i] = v /\ \A j \in DOMAIN slots \ {i} : slots'[j] = slots[j]
  BY <1>1
<1>3. KeepsIds(slots, slots')
  BY <1>2 DEF KeepsIds
<1>4. /\ IdsOf(slots, upstream) = IdsOf(slots, Tail(upstream)) \cup {id}
      /\ id \notin IdsOf(slots, Tail(upstream))
  BY UpstreamPopped
<1>5. /\ IdsOf(slots, upstream)' = IdsOf(slots, Tail(upstream))
      /\ IdsOf(slots, downstream)' = IdsOf(slots, downstream)
  <2>1. IdsOf(slots', downstream) = IdsOf(slots, downstream)
    BY <1>1, <1>3, QueueKept
  <2>2. IdsOf(slots', Tail(upstream)) = IdsOf(slots, Tail(upstream))
    BY <1>1, <1>3, QueueKept
  <2> QED BY <2>1, <2>2
<1>6. /\ id \notin DOMAIN book
      /\ id \in Travelling /\ Travelling' \subseteq Travelling
      /\ id \notin DOMAIN broker /\ id \notin IdsOf(slots, downstream)
  <2>1. Routing' \subseteq Routing \cup {id}
    BY DEF Routing
  <2>2. id \notin DOMAIN book
    BY <1>1 DEF PoolTracked
  <2> QED BY <1>4, <1>5, <2>1, <2>2 DEF Travelling, OneCarrier
<1>7. \A j \in Range(Tail(upstream)) : slots[j].request.internal_order_id # id /\ j # i
  <2>1. \A j \in Range(Tail(upstream)) : slots[j].request.internal_order_id \in IdsOf(slots, Tail(upstream))
    BY IdsOfRange
  <2> QED BY <1>4, <2>1
<1> HIDE DEF i
<1>8. \A y \in DOMAIN book : y # id /\ slots'[book[y].index] = slots[book[y].index]
  <2>1. \A y \in DOMAIN book : book[y].index \in DOMAIN slots /\ book[y].index # i
    BY <1>6, SlotOwner, SMTT(120) DEF Invariant, TypeOK, i
  <2> QED BY <1>2, <1>6, <2>1
<1>9. \A y : Ready(y) => Ready(y)'
  BY <1>8 DEF Ready, Live
<1>10. \A y \in DOMAIN book : Live(y)' <=> Live(y)
  BY DEF Live
<1>11. /\ \A y : Uncounted(y)' = Uncounted(y)
       /\ Range(responses)' = Range(responses) /\ InOrder(responses)'
  BY DEF Uncounted
<1>12. PoolTracked'
  <2>1. \A j \in Range(upstream)' :
          Fresh(slots'[j].request) /\ slots'[j].request.internal_order_id \notin DOMAIN book'
    <3> SUFFICES ASSUME NEW j \in Range(Tail(upstream))
                 PROVE  Fresh(slots'[j].request) /\ slots'[j].request.internal_order_id \notin DOMAIN book'
      OBVIOUS
    <3>1. slots'[j] = slots[j] /\ j \in Range(upstream)
      BY <1>1, <1>2, <1>7
    <3> QED BY <1>7, <3>1 DEF PoolTracked
  <2>2. \A j \in DOMAIN slots' : Recoverable(slots'[j]) =>
          LET y == slots'[j].request.internal_order_id
          IN y \in DOMAIN book' /\ book'[y].index = j /\ book'[y].request.order_type = "New"
    <3>1. ~ Recoverable(v)
      BY DEF Recoverable
    <3>2. DOMAIN book \subseteq DOMAIN book'
      OBVIOUS
    <3> QED BY <1>2, <3>1, <3>2 DEF PoolTracked
  <2>3. \A y \in IdsOf(slots, downstream)' : Ready(y)'
    BY <1>5, <1>9 DEF PoolTracked
  <2>4. \A j \in Range(downstream)' : book'[slots'[j].request.internal_order_id].index = j
    <3> SUFFICES ASSUME NEW j \in Range(downstream)
                 PROVE  book'[slots'[j].request.internal_order_id].index = j
      OBVIOUS
    <3>1. slots[j].request.internal_order_id \in IdsOf(slots, downstream)
      BY IdsOfRange
    <3>2. slots[j].request.internal_order_id \in DOMAIN book
      <4>1. \A y : Ready(y) => y \in DOMAIN book
        BY DEF Ready
      <4> QED BY <3>1, <4>1 DEF PoolTracked
    <3> QED BY <1>1, <1>3, <3>2, SMTT(120) DEF PoolTracked, KeepsIds
  <2>5. /\ loop'.pc \in {"route", "sent", "staged"} => book'[loop'.id].request.order_state \notin TerminalState
        /\ loop'.pc \notin {"sent", "staged"}
    OBVIOUS
  <2> QED BY <2>1, <2>2, <2>3, <2>4, <2>5 DEF PoolTracked
<1>13. VolumesTracked'
  <2> SUFFICES ASSUME NEW y \in DOMAIN book', book'[y].request.order_type = "New"
               PROVE  LET q == book'[y].request
                      IN /\ q.trade_side \in {"Buy", "Sell"} /\ q.volume_entrust > 0
                         /\ q.volume_remain >= IF y \in DOMAIN broker' THEN broker'[y].left + Uncounted(y)'
                                              ELSE q.volume_entrust
                         /\ Live(y)' => q.volume_remain > 0
    BY DEF VolumesTracked
  <2>1. CASE y = id
    BY <1>6, <2>1 DEF Fresh
  <2>2. CASE y \in DOMAIN book
    BY <1>10, <1>11, <2>2 DEF VolumesTracked
  <2> QED BY <2>1, <2>2
<1>14. BrokerTracked'
  BY <1>6, <1>9, <1>11 DEF BrokerTracked
<1>15. ResponsesTracked'
  BY <1>6, <1>9, <1>10, <1>11 DEF ResponsesTracked
<1>16. PendingTracked'
  BY <1>6, <1>11 DEF PendingTracked
<1> QED BY <1>11, <1>12, <1>13, <1>14, <1>15, <1>16

\* An order refused by the book, rejected by risk, or admitted.
LEMMA TakeUpstreamTracked ==
  ASSUME Invariant, OneCarrier, Tracked, AddRefused \/ RiskReject \/ Admit
  PROVE  Tracked'
<1> DEFINE i == Head(upstream)
<1>1. /\ upstream # <<>> /\ upstream' = Tail(upstream) /\ loop.pc = "idle"
      /\ UNCHANGED <<next_order_id, downstream, responses, pending, broker>>
  BY DEF AddRefused, RiskReject, Admit, TakeUpstream, service, external
<1>2. PICK id : id = slots[i].request.internal_order_id
  OBVIOUS
<1>3. /\ Incoming \in Request /\ slots[i].request \in Request
      /\ Incoming.internal_order_id = id /\ Incoming.order_type = slots[i].request.order_type
      /\ Incoming.trade_side = slots[i].request.trade_side
      /\ Incoming.volume_entrust = slots[i].request.volume_entrust
      /\ Incoming.volume_remain = slots[i].request.volume_remain
  BY <1>1, <1>2, IncomingFacts
<1>4. /\ i \in DOMAIN slots /\ slots \in Seq(Slot) /\ slots[i] \in Slot /\ i \in Range(upstream)
  BY <1>1, HeadTail, RangeTail, ElementType DEF Invariant, TypeOK
<1>5. Fresh(slots[i].request) /\ id \notin DOMAIN book
  BY <1>2, <1>4 DEF Tracked, PoolTracked
<1> HIDE DEF Incoming, i
<1>6. \A state \in OrderState :
        LET u == UpdateState(Incoming, state)
        IN Fresh(u) /\ u.internal_order_id = id /\ u.order_state = state
  <2> SUFFICES ASSUME NEW state \in OrderState
               PROVE  LET u == UpdateState(Incoming, state)
                      IN Fresh(u) /\ u.internal_order_id = id /\ u.order_state = state
    OBVIOUS
  <2> DEFINE u == UpdateState(Incoming, state)
  <2>1. /\ u.internal_order_id = Incoming.internal_order_id /\ u.order_type = Incoming.order_type
        /\ u.trade_side = Incoming.trade_side /\ u.volume_entrust = Incoming.volume_entrust
        /\ u.volume_remain = Incoming.volume_remain /\ u.order_state = state
    BY <1>3 DEF UpdateState, Request
  <2> QED BY <1>3, <1>5, <2>1 DEF Fresh
<1>7. {"QueuePushFailed", "RiskRejected", "UpstreamDequeued"} \cap RecoverableStage = {}
  BY DEF RecoverableStage
<1>8. {"RiskControllerRejected", "RiskControllerAccepted"} \subseteq OrderState /\ "RiskControllerAccepted" \notin TerminalState
  BY DEF OrderState, TerminalState
<1>9. CASE AddRefused
  <2> DEFINE v == [slots[i] EXCEPT !.stage = "QueuePushFailed"]
  <2>1. v.request = slots[i].request /\ v.stage = "QueuePushFailed"
    BY <1>4 DEF Slot
  <2>2. slots' = [slots EXCEPT ![i] = v] /\ UNCHANGED <<book, loop>>
    BY <1>9 DEF AddRefused, service, i
  <2> HIDE DEF v
  <2>3. slots' = [slots EXCEPT ![Head(upstream)] = v] /\ v.request.internal_order_id = id /\ v.stage \notin RecoverableStage
        /\ id = slots[Head(upstream)].request.internal_order_id
    BY <1>2, <1>7, <2>1, <2>2 DEF i
  <2> QED BY <1>1, <1>5, <2>2, <2>3, TakenTracked
<1>10. ASSUME NEW state \in OrderState, NEW stage, stage \notin RecoverableStage, NEW frozen,
              LET u == UpdateState(Incoming, state)
              IN /\ book' = Put(book, u.internal_order_id, [request |-> u, fund_frozen |-> frozen, index |-> i])
                 /\ slots' = [slots EXCEPT ![i] = [stage |-> stage, request |-> u]]
                 /\ loop' = loop \/ (loop' = [pc |-> "route", id |-> u.internal_order_id] /\ state \notin TerminalState)
       PROVE  Tracked'
  <2> DEFINE u == UpdateState(Incoming, state)
             e == [request |-> u, fund_frozen |-> frozen, index |-> i]
             v == [stage |-> stage, request |-> u]
  <2>1. Fresh(u) /\ u.internal_order_id = id /\ u.order_state = state
    BY <1>6
  <2>2. e.request = u /\ v.request = u /\ v.stage = stage
    OBVIOUS
  <2>3. /\ book' = Put(book, id, e) /\ slots' = [slots EXCEPT ![i] = v]
        /\ loop' = loop \/ (loop' = [pc |-> "route", id |-> id] /\ state \notin TerminalState)
    BY <1>10, <2>1
  <2> HIDE DEF u, e, v
  <2>4. /\ DOMAIN book' = DOMAIN book \cup {id} /\ book'[id] = e /\ \A y \in DOMAIN book : book'[y] = book[y]
    BY <1>5, <2>3 DEF Put
  <2>5. /\ slots' = [slots EXCEPT ![Head(upstream)] = v] /\ id = slots[Head(upstream)].request.internal_order_id
        /\ v.request.internal_order_id = id /\ v.stage \notin RecoverableStage
    BY <1>2, <1>10, <2>1, <2>2, <2>3 DEF i
  <2>6. /\ Fresh(book'[id].request)
        /\ loop' = loop \/ (loop' = [pc |-> "route", id |-> id] /\ book'[id].request.order_state \notin TerminalState)
    BY <2>1, <2>2, <2>3, <2>4
  <2> QED BY <1>1, <2>4, <2>5, <2>6, TakenTracked
<1>11. CASE RiskReject
  <2>1. LET u == UpdateState(Incoming, "RiskControllerRejected")
        IN /\ book' = Put(book, u.internal_order_id, [request |-> u, fund_frozen |-> 0, index |-> i])
           /\ slots' = [slots EXCEPT ![i] = [stage |-> "RiskRejected", request |-> u]]
           /\ loop' = loop
    BY <1>11 DEF RiskReject, i
  <2> QED BY <1>7, <1>8, <1>10, <2>1
<1>12. CASE Admit
  <2>1. PICK frozen : LET u == UpdateState(Incoming, "RiskControllerAccepted")
        IN /\ book' = Put(book, u.internal_order_id, [request |-> u, fund_frozen |-> frozen, index |-> i])
           /\ slots' = [slots EXCEPT ![i] = [stage |-> "UpstreamDequeued", request |-> u]]
           /\ loop' = [pc |-> "route", id |-> u.internal_order_id]
    BY <1>12 DEF Admit, i
  <2> QED BY <1>7, <1>8, <1>10, <2>1
<1> QED BY <1>9, <1>11, <1>12

-----------------------------------------------------------------------------
(* The router.                                                             *)

\* An order pushed downstream is ready before the gateway can see it.
LEMMA PushTracked ==
  ASSUME Invariant, OneCarrier, Tracked, PushDownstream
  PROVE  Tracked'
<1>1. PICK id : id = loop.id
  OBVIOUS
<1> DEFINE k == book[id].index
<1> USE DEF Tracked
<1>2. /\ loop.pc = "route" /\ id \in DOMAIN book /\ k \in DOMAIN slots
      /\ book[id].request.order_type = "New"
      /\ downstream' = Append(downstream, k)
      /\ loop'.pc = "sent" /\ loop'.id = id
      /\ UNCHANGED <<next_order_id, slots, upstream, responses, book, pending, broker>>
      /\ downstream \in Seq(DOMAIN slots)
  BY <1>1 DEF PushDownstream, Invariant, TypeOK, external
<1>3. slots[k].request.internal_order_id = id
  BY <1>2, SlotOwner
<1>4. Live(id)
  BY <1>1, <1>2 DEF PoolTracked, Live
<1>5. Range(downstream)' = Range(downstream) \cup {k}
  BY <1>2, RangeAppend
<1> HIDE DEF k
<1>6. IdsOf(slots, downstream)' = IdsOf(slots, downstream) \cup {id}
  <2>1. /\ IdsOf(slots', downstream') = {slots'[i].request.internal_order_id : i \in Range(downstream')}
        /\ IdsOf(slots, downstream) = {slots[i].request.internal_order_id : i \in Range(downstream)}
    BY IdsOfRange
  <2> QED BY <1>2, <1>3, <1>5, <2>1
<1>7. Travelling' = Travelling
  <2>1. Routing' = {} /\ Routing = {id}
    BY <1>1, <1>2 DEF Routing
  <2>2. IdsOf(slots, upstream)' = IdsOf(slots, upstream)
    BY <1>2 DEF IdsOf
  <2> QED BY <1>6, <2>1, <2>2 DEF Travelling
<1>8. \A y : Live(y)' <=> Live(y)
  BY <1>2 DEF Live
<1>9. (\A y : Ready(y) => Ready(y)') /\ Ready(id)'
  BY <1>2, <1>4, <1>8 DEF Ready
<1>10. \A y : Uncounted(y)' = Uncounted(y)
  BY <1>2 DEF Uncounted
<1>11. Range(responses)' = Range(responses) /\ InOrder(responses)'
  BY <1>2
<1>12. PoolTracked'
  <2>1. \A i \in Range(upstream)' :
          Fresh(slots'[i].request) /\ slots'[i].request.internal_order_id \notin DOMAIN book'
    BY <1>2 DEF PoolTracked
  <2>2. \A i \in DOMAIN slots' : Recoverable(slots'[i]) =>
          LET y == slots'[i].request.internal_order_id
          IN y \in DOMAIN book' /\ book'[y].index = i /\ book'[y].request.order_type = "New"
    BY <1>2 DEF PoolTracked
  <2>3. \A y \in IdsOf(slots, downstream)' : Ready(y)'
    BY <1>6, <1>9 DEF PoolTracked
  <2>4. \A i \in Range(downstream)' : book'[slots'[i].request.internal_order_id].index = i
    BY <1>2, <1>3, <1>5 DEF PoolTracked, k
  <2>5. book'[loop'.id].request.order_state \notin TerminalState /\ book'[loop'.id].request.order_type = "New"
    BY <1>2, <1>4 DEF Live
  <2> QED BY <2>1, <2>2, <2>3, <2>4, <2>5 DEF PoolTracked
<1>13. VolumesTracked'
  BY <1>2, <1>8, <1>10 DEF VolumesTracked
<1>14. BrokerTracked'
  BY <1>2, <1>9, <1>11 DEF BrokerTracked
<1>15. ResponsesTracked'
  BY <1>2, <1>7, <1>8, <1>9, <1>11 DEF ResponsesTracked
<1>16. PendingTracked'
  BY <1>2, <1>7, <1>11 DEF PendingTracked
<1> QED BY <1>11, <1>12, <1>13, <1>14, <1>15, <1>16

\* The router ends its work on an order: its request gets a new state in the book and
\* in the slot, nothing else of it changes, and the other orders stay as they are.
LEMMA RoutedTracked ==
  ASSUME Invariant, OneCarrier, Tracked, NEW id, id = loop.id, loop.pc \in {"route", "staged"}, loop' = Idle,
         NEW p, p.order_type = book[id].request.order_type, p.trade_side = book[id].request.trade_side,
         p.volume_entrust = book[id].request.volume_entrust, p.volume_remain = book[id].request.volume_remain,
         p.internal_order_id = id,
         DOMAIN book' = DOMAIN book,
         \A y \in DOMAIN book : book'[y].index = book[y].index,
         \A y \in DOMAIN book \ {id} : book'[y].request = book[y].request,
         book'[id].request = p,
         DOMAIN slots \subseteq DOMAIN slots',
         slots'[book[id].index].request = p,
         \A i \in DOMAIN slots \ {book[id].index} : slots'[i] = slots[i],
         \A i \in DOMAIN slots' \ DOMAIN slots : slots'[i].stage \notin RecoverableStage,
         \/ /\ loop.pc = "route"
            /\ slots'[book[id].index].stage \notin RecoverableStage
         \/ /\ loop.pc = "staged" /\ p.order_state \notin TerminalState
            /\ slots'[book[id].index].stage = slots[book[id].index].stage,
         UNCHANGED <<next_order_id, upstream, downstream, responses, pending, broker>>
  PROVE  Tracked'
<1> DEFINE k == book[id].index
<1> USE DEF Tracked
<1>1. /\ id \in DOMAIN book /\ k \in DOMAIN slots
      /\ upstream \in Seq(DOMAIN slots) /\ downstream \in Seq(DOMAIN slots)
      /\ Range(upstream) \subseteq DOMAIN slots /\ Range(downstream) \subseteq DOMAIN slots
  BY RangeType DEF Invariant, TypeOK
<1>2. slots[k].request.internal_order_id = id
  BY <1>1, SlotOwner
<1> HIDE DEF k
<1>3. KeepsIds(slots, slots')
  BY <1>2 DEF KeepsIds, k
<1>4. /\ IdsOf(slots, upstream)' = IdsOf(slots, upstream)
      /\ IdsOf(slots, downstream)' = IdsOf(slots, downstream)
  BY <1>1, <1>3, QueueKept
<1>5. Travelling' \subseteq Travelling
  <2>1. Routing' = {}
    BY DEF Routing, Idle
  <2> QED BY <1>4, <2>1 DEF Travelling
<1>6. \A y \in DOMAIN book \ {id} : /\ book[y].index \in DOMAIN slots /\ book[y].index # k
                                    /\ slots'[book[y].index] = slots[book[y].index]
  <2>1. \A y \in DOMAIN book : book[y].index \in DOMAIN slots
    BY DEF Invariant, TypeOK
  <2>2. \A y \in DOMAIN book \ {id} : book[y].index # k
    BY <1>2, SlotOwner
  <2> QED BY <2>1, <2>2 DEF k
<1>7. \A y : y # id /\ Ready(y) => Ready(y)'
  BY <1>6 DEF Ready, Live
<1>8. loop.pc = "staged" => (Ready(id) => Ready(id)') /\ Live(id)'
  <2>1. loop.pc = "staged" => book[id].request.order_type = "New"
    BY DEF PoolTracked
  <2> QED BY <1>1, <2>1 DEF Ready, Live, k
<1>9. \A y \in DOMAIN book \ {id} : Live(y)' <=> Live(y)
  BY DEF Live
<1>10. loop.pc = "route" => id \in Travelling /\ id \notin DOMAIN broker /\ id \notin IdsOf(slots, downstream)
  BY DEF Travelling, Routing, OneCarrier
<1>11. Live(id)
  BY DEF PoolTracked, Live
<1>12. /\ \A y : Uncounted(y)' = Uncounted(y)
       /\ Range(responses)' = Range(responses) /\ InOrder(responses)'
  BY DEF Uncounted
<1>13. PoolTracked'
  <2>1. \A i \in Range(upstream)' :
          Fresh(slots'[i].request) /\ slots'[i].request.internal_order_id \notin DOMAIN book'
    <3>1. \A i \in Range(upstream) : i # k
      BY <1>1, <1>2 DEF PoolTracked
    <3> QED BY <1>1, <3>1 DEF PoolTracked, k
  <2>2. \A i \in DOMAIN slots' : Recoverable(slots'[i]) =>
          LET y == slots'[i].request.internal_order_id
          IN y \in DOMAIN book' /\ book'[y].index = i /\ book'[y].request.order_type = "New"
    <3> SUFFICES ASSUME NEW i \in DOMAIN slots', Recoverable(slots'[i])
                 PROVE  LET y == slots'[i].request.internal_order_id
                        IN y \in DOMAIN book' /\ book'[y].index = i /\ book'[y].request.order_type = "New"
      OBVIOUS
    <3>1. i \in DOMAIN slots
      BY DEF Recoverable
    <3>2. CASE i = k
      <4>1. loop.pc = "staged"
        BY <3>2 DEF Recoverable, k
      <4> QED BY <1>1, <3>2, <4>1 DEF k, PoolTracked
    <3>3. CASE i # k
      <4>1. slots'[i] = slots[i]
        BY <3>1, <3>3 DEF k
      <4> DEFINE y == slots[i].request.internal_order_id
      <4>2. y \in DOMAIN book /\ book[y].index = i /\ book[y].request.order_type = "New"
        BY <3>1, <4>1 DEF PoolTracked
      <4>3. y # id
        BY <3>3, <4>2 DEF k
      <4> QED BY <4>1, <4>2, <4>3
    <3> QED BY <3>2, <3>3
  <2>3. \A y \in IdsOf(slots, downstream)' : Ready(y)'
    BY <1>4, <1>7, <1>8, <1>10 DEF PoolTracked
  <2>4. \A i \in Range(downstream)' : book'[slots'[i].request.internal_order_id].index = i
    <3> SUFFICES ASSUME NEW i \in Range(downstream) PROVE book'[slots[i].request.internal_order_id].index = i
      BY <1>1, <1>3 DEF KeepsIds
    <3>1. slots[i].request.internal_order_id \in IdsOf(slots, downstream)
      BY IdsOfRange
    <3>2. slots[i].request.internal_order_id \in DOMAIN book
      <4>1. \A y : Ready(y) => y \in DOMAIN book
        BY DEF Ready
      <4> QED BY <3>1, <4>1 DEF PoolTracked
    <3> QED BY <3>2 DEF PoolTracked
  <2>5. loop'.pc = "idle"
    BY DEF Idle
  <2> QED BY <2>1, <2>2, <2>3, <2>4, <2>5 DEF PoolTracked
<1>14. VolumesTracked'
  <2> SUFFICES ASSUME NEW y \in DOMAIN book, book'[y].request.order_type = "New"
               PROVE  LET q == book'[y].request
                      IN /\ q.trade_side \in {"Buy", "Sell"} /\ q.volume_entrust > 0
                         /\ q.volume_remain >= IF y \in DOMAIN broker THEN broker[y].left + Uncounted(y)
                                              ELSE q.volume_entrust
                         /\ Live(y)' => q.volume_remain > 0
    BY <1>12 DEF VolumesTracked
  <2>1. CASE y = id
    BY <1>11, <2>1 DEF VolumesTracked
  <2>2. CASE y # id
    BY <1>9, <2>2 DEF VolumesTracked
  <2> QED BY <2>1, <2>2
<1>15. BrokerTracked'
  <2> SUFFICES ASSUME NEW y \in DOMAIN broker
               PROVE  LET b == broker[y] IN
                      /\ b.side \in {"Buy", "Sell"}
                      /\ b.phase = "received" => b.left > 0 /\ \A x \in Range(responses) : x.internal_order_id # y
                      /\ b.phase # "done" /\ b.left > 0 => Ready(y)'
                      /\ y \in DOMAIN book' => book'[y].request.order_type = "New"
    BY <1>12 DEF BrokerTracked
  <2>1. CASE y = id
    BY <1>8, <1>10, <2>1 DEF BrokerTracked
  <2>2. CASE y # id
    BY <1>7, <2>2 DEF BrokerTracked
  <2> QED BY <2>1, <2>2
<1>16. ResponsesTracked'
  <2> SUFFICES ASSUME NEW x \in Range(responses)
               PROVE  LET y == x.internal_order_id IN
                      /\ y \notin Travelling'
                      /\ y < next_order_id
                      /\ y \in DOMAIN book' => book'[y].request.order_type = "New"
                      /\ x.volume_traded > 0 =>
                           y \in DOMAIN broker /\ Ready(y)' /\ x.trade_side = broker[y].side
                      /\ x.new_state \in TerminalState =>
                           x.volume_traded = 0 /\ (y \in DOMAIN broker => broker[y].phase = "done")
                      /\ x.new_state \notin TerminalState /\ y \in DOMAIN book' => Live(y)'
    BY <1>12 DEF ResponsesTracked
  <2>1. CASE x.internal_order_id = id
    BY <1>5, <1>8, <1>10, <2>1 DEF ResponsesTracked
  <2>2. CASE x.internal_order_id # id
    BY <1>5, <1>7, <1>9, <2>2 DEF ResponsesTracked
  <2> QED BY <2>1, <2>2
<1>17. PendingTracked'
  BY <1>5, <1>12 DEF PendingTracked
<1> QED BY <1>12, <1>13, <1>14, <1>15, <1>16, <1>17

\* The stage of an order the gateway may already have follows the push.
LEMMA StagePushedTracked ==
  ASSUME Invariant, OneCarrier, Tracked, StagePushed
  PROVE  Tracked'
<1>1. PICK id : id = loop.id
  OBVIOUS
<1> DEFINE k == book[id].index
<1>2. /\ loop.pc = "sent" /\ id \in DOMAIN book /\ k \in DOMAIN slots /\ slots \in Seq(Slot)
      /\ slots' = [slots EXCEPT ![k].stage = "DownstreamQueued"]
      /\ loop'.pc = "staged" /\ loop'.id = id
      /\ UNCHANGED <<next_order_id, upstream, downstream, responses, book, pending, broker>>
  BY <1>1 DEF StagePushed, StageStore, Invariant, TypeOK, external
<1>3. slots[k] \in Slot
  BY <1>2, ElementType
<1> HIDE DEF k
<1>4. /\ DOMAIN slots' = DOMAIN slots
      /\ \A i \in DOMAIN slots : slots'[i].request = slots[i].request
      /\ \A i \in DOMAIN slots \ {k} : slots'[i] = slots[i]
      /\ slots'[k].stage = "DownstreamQueued"
  BY <1>2, <1>3 DEF Slot
<1>5. "DownstreamQueued" \in RecoverableStage
  BY DEF RecoverableStage
<1>6. \A y \in DOMAIN book : book[y].index \in DOMAIN slots
  BY DEF Invariant, TypeOK
<1>7. \A y : Ready(y) => Ready(y)'
  BY <1>1, <1>2, <1>4, <1>5, <1>6 DEF Ready, Live, k
<1>8. slots[k].request.internal_order_id = id /\ book[id].request.order_type = "New" /\ book[id].index = k
  BY <1>1, <1>2, SlotOwner DEF Tracked, PoolTracked, k
<1>9. \A i \in DOMAIN slots : Recoverable(slots'[i]) =>
        LET y == slots[i].request.internal_order_id
        IN y \in DOMAIN book /\ book[y].index = i /\ book[y].request.order_type = "New"
  BY <1>2, <1>4, <1>8 DEF Tracked, PoolTracked, Recoverable
<1> QED BY <1>1, <1>2, <1>4, <1>7, <1>9, ShrinkStep

\* The order the gateway may already have becomes TraderSubmitted.
LEMMA PublishTracked ==
  ASSUME Invariant, OneCarrier, Tracked, PublishSubmitted
  PROVE  Tracked'
<1>1. PICK id : id = loop.id
  OBVIOUS
<1> DEFINE k == book[id].index
           p == UpdateState(book[id].request, "TraderSubmitted")
           v == Mirror(slots[k], p)
<1>2. /\ loop.pc = "staged" /\ id \in DOMAIN book /\ k \in DOMAIN slots /\ slots \in Seq(Slot)
      /\ book \in [DOMAIN book -> Entry]
      /\ book' = [book EXCEPT ![id].request = p] /\ slots' = [slots EXCEPT ![k] = v] /\ loop' = Idle
      /\ UNCHANGED <<next_order_id, upstream, downstream, responses, pending, broker>>
  BY <1>1 DEF PublishSubmitted, Publish, Invariant, TypeOK, external
<1>3. book[id].request \in Request /\ book[id].request.internal_order_id = id
  BY <1>2, MirrorFields
<1>4. /\ p.order_type = book[id].request.order_type /\ p.trade_side = book[id].request.trade_side
      /\ p.volume_entrust = book[id].request.volume_entrust /\ p.volume_remain = book[id].request.volume_remain
      /\ p.internal_order_id = id /\ p.order_state = "TraderSubmitted"
  BY <1>3 DEF UpdateState, Request, OrderState
<1>5. p.order_state \notin TerminalState
  BY <1>4 DEF TerminalState
<1> HIDE DEF p
<1>6. /\ DOMAIN book' = DOMAIN book /\ book'[id].request = p
      /\ \A y \in DOMAIN book : book'[y].index = book[y].index
      /\ \A y \in DOMAIN book \ {id} : book'[y].request = book[y].request
  BY <1>2 DEF Entry
<1>7. v.request = p /\ v.stage = slots[k].stage
  BY <1>5 DEF Mirror
<1> HIDE DEF v
<1>8. /\ DOMAIN slots' = DOMAIN slots /\ slots'[k].request = p /\ slots'[k].stage = slots[k].stage
      /\ \A i \in DOMAIN slots \ {k} : slots'[i] = slots[i]
  BY <1>2, <1>7
<1> QED BY <1>1, <1>2, <1>4, <1>5, <1>6, <1>8, RoutedTracked

\* A failed route ends an order that no one else has seen.
LEMMA RouteFailedTracked ==
  ASSUME Invariant, OneCarrier, Tracked, loop.pc = "route",
         NEW s \in Seq(Slot), DOMAIN slots \subseteq DOMAIN s,
         \A i \in DOMAIN slots : s[i] = slots[i],
         \A i \in DOMAIN s \ DOMAIN slots : s[i].stage \notin RecoverableStage,
         RouteFailed(s)
  PROVE  Tracked'
<1>1. PICK id : id = loop.id
  OBVIOUS
<1> DEFINE k == book[id].index
           a0 == [book |-> book, fund |-> fund]
           a == ReleaseOrderResources(a0, id)
           p == UpdateState(a.book[id].request, "TraderError")
           v == [stage |-> "QueuePushFailed", request |-> p]
<1>2. /\ id \in DOMAIN book /\ k \in DOMAIN slots /\ book \in [DOMAIN book -> Entry]
      /\ fund \in Fund
  BY <1>1 DEF Invariant, TypeOK
<1>3. Account(a0, DOMAIN book) /\ a0.book = book
  BY <1>2 DEF Account
<1>4. /\ book' = [a.book EXCEPT ![id].request = p] /\ loop' = Idle
      /\ slots' = [s EXCEPT ![a.book[id].index] = v]
      /\ UNCHANGED <<next_order_id, upstream, downstream, responses, pending, broker>>
  BY <1>1 DEF RouteFailed, external
<1> HIDE DEF a0
<1>5. SameOrders(a, a0, DOMAIN book) /\ Account(a, DOMAIN book)
  BY <1>2, <1>3, ReleaseOrderResourcesSafe
<1> HIDE DEF a
<1>6. /\ a.book \in [DOMAIN book -> Entry]
      /\ \A y \in DOMAIN book : a.book[y].index = book[y].index /\ a.book[y].request = book[y].request
  BY <1>3, <1>5 DEF SameOrders, Account
<1>7. book[id].request \in Request /\ book[id].request.internal_order_id = id
  BY <1>2, MirrorFields
<1>8. /\ p.order_type = book[id].request.order_type /\ p.trade_side = book[id].request.trade_side
      /\ p.volume_entrust = book[id].request.volume_entrust /\ p.volume_remain = book[id].request.volume_remain
      /\ p.internal_order_id = id
  BY <1>2, <1>6, <1>7 DEF UpdateState, Request, OrderState
<1> HIDE DEF p
<1>9. /\ DOMAIN book' = DOMAIN book /\ book'[id].request = p
      /\ \A y \in DOMAIN book : book'[y].index = book[y].index
      /\ \A y \in DOMAIN book \ {id} : book'[y].request = book[y].request
  BY <1>2, <1>4, <1>6 DEF Entry
<1>10. /\ DOMAIN slots' = DOMAIN s /\ slots'[k].request = p /\ slots'[k].stage = "QueuePushFailed"
       /\ \A i \in DOMAIN s \ {k} : slots'[i] = s[i]
  BY <1>2, <1>4, <1>6
<1>11. /\ DOMAIN slots \subseteq DOMAIN slots'
       /\ \A i \in DOMAIN slots \ {k} : slots'[i] = slots[i]
       /\ \A i \in DOMAIN slots' \ DOMAIN slots : slots'[i].stage \notin RecoverableStage
       /\ slots'[k].stage \notin RecoverableStage
  BY <1>2, <1>10 DEF RecoverableStage
<1>12. /\ loop.pc \in {"route", "staged"} /\ loop.pc = "route" /\ loop' = Idle
       /\ UNCHANGED <<next_order_id, upstream, downstream, responses, pending, broker>>
  BY <1>4
<1>13. /\ slots'[book[id].index].request = p
       /\ slots'[book[id].index].stage \notin RecoverableStage
       /\ \A i \in DOMAIN slots \ {book[id].index} : slots'[i] = slots[i]
       /\ DOMAIN slots \subseteq DOMAIN slots'
       /\ \A i \in DOMAIN slots' \ DOMAIN slots : slots'[i].stage \notin RecoverableStage
  BY <1>10, <1>11
<1> QED BY ONLY Invariant, OneCarrier, Tracked, <1>1, <1>8, <1>9, <1>12, <1>13, RoutedTracked, SMTT(120)

\* The downstream queue is full.
LEMMA RouteOrderRefusedTracked ==
  ASSUME Invariant, OneCarrier, Tracked, RouteOrderRefused
  PROVE  Tracked'
<1>1. loop.pc = "route" /\ slots \in Seq(Slot) /\ RouteFailed(slots)
  BY DEF Invariant, TypeOK, RouteOrderRefused
<1> QED BY <1>1, RouteFailedTracked

\* The router's second slot for a cancel is none that recovery restores.
LEMMA RouteCancelTracked ==
  ASSUME Invariant, OneCarrier, Tracked, RouteCancel
  PROVE  Tracked'
<1> DEFINE c == CancelRequest(loop.id, book[loop.id].request.orig_internal_order_id)
           q == UpdateState(c, "TraderPending")
           v == [stage |-> "QueuePushFailed", request |-> q]
<1>1. loop.pc = "route" /\ loop.id \in DOMAIN book /\ slots \in Seq(Slot)
  BY DEF Invariant, TypeOK, RouteCancel
<1>2. RouteFailed(IF Len(slots) < PoolCapacity THEN Append(slots, v) ELSE slots)
  BY DEF RouteCancel
<1>3. v \in Slot /\ v.stage \notin RecoverableStage
  <2>1. loop.id \in OrderIds /\ book[loop.id] \in Entry
    BY <1>1 DEF Invariant, TypeOK
  <2>2. book[loop.id].request.orig_internal_order_id \in Nat
    BY <2>1 DEF Entry, Request
  <2>3. c \in Request
    BY <2>1, <2>2, CancelRequestType
  <2> HIDE DEF c
  <2>4. q \in Request
    BY <2>3, UpdateStateType DEF OrderState
  <2> HIDE DEF q
  <2> QED BY <2>4 DEF Slot, OrderSlotState, RecoverableStage
<1> HIDE DEF v
<1>4. CASE Len(slots) < PoolCapacity
  <2> DEFINE s == Append(slots, v)
  <2>1. /\ s \in Seq(Slot) /\ DOMAIN slots \subseteq DOMAIN s /\ \A i \in DOMAIN slots : s[i] = slots[i]
        /\ \A i \in DOMAIN s \ DOMAIN slots : s[i] = v
    BY <1>1, <1>3
  <2>2. RouteFailed(s)
    BY <1>2, <1>4
  <2> HIDE DEF s
  <2> QED BY <1>1, <1>3, <2>1, <2>2, RouteFailedTracked
<1>5. CASE ~ (Len(slots) < PoolCapacity)
  <2>1. RouteFailed(slots)
    BY <1>2, <1>5
  <2> QED BY <1>1, <2>1, RouteFailedTracked
<1> QED BY <1>4, <1>5

-----------------------------------------------------------------------------
\* At the start of the day nothing is under way.
LEMMA InitTracked == Init => Tracked
<1> SUFFICES ASSUME Init PROVE Tracked
  OBVIOUS
<1>1. Range(<<>>) = {} /\ DOMAIN book = {} /\ DOMAIN broker = {} /\ pending = {} /\ loop.pc = "idle"
      /\ upstream = <<>> /\ downstream = <<>> /\ responses = <<>> /\ slots = <<>>
  BY DEF Init, Range, Idle
<1>2. IdsOf(slots, downstream) = {} /\ DOMAIN slots = {} /\ InOrder(responses)
  BY <1>1 DEF IdsOf, InOrder
<1> QED BY <1>1, <1>2 DEF Tracked, PoolTracked, VolumesTracked, BrokerTracked, ResponsesTracked, PendingTracked

\* Every step keeps every order's reports on track.
LEMMA NextTracked ==
  ASSUME RecoverableCrashes
  PROVE  Invariant /\ OneCarrier /\ Tracked /\ [Next]_vars => Tracked'
<1> SUFFICES ASSUME Invariant, OneCarrier, Tracked, [Next]_vars PROVE Tracked'
  OBVIOUS
<1>1. CASE \E order \in NewOrders : SubmitOrder(order)
  <2>1. PICK order \in NewOrders : SubmitOrder(order)
    BY <1>1
  <2> DEFINE q == [internal_order_id |-> next_order_id, order_type |-> "New",
                   trade_side |-> order.trade_side, volume_entrust |-> order.volume_entrust,
                   dprice_entrust |-> order.dprice_entrust, orig_internal_order_id |-> 0,
                   dfee_estimate |-> 0, order_state |-> "UserSubmitted",
                   volume_traded |-> 0, volume_remain |-> order.volume_entrust]
  <2>2. order \in [trade_side : {"Buy", "Sell"}, volume_entrust : Nat \ {0}, dprice_entrust : Nat]
    BY OrdersAssumption
  <2>3. Fresh(q) /\ q.internal_order_id = next_order_id
    BY <2>2 DEF Fresh
  <2>4. EnqueueOrder(q)
    BY <2>1 DEF SubmitOrder
  <2> HIDE DEF q
  <2> QED BY <2>3, <2>4, EnqueueTracked
<1>2. CASE \E orig \in CancelTargets : CancelOrder(orig)
  <2>1. PICK orig \in CancelTargets : CancelOrder(orig)
    BY <1>2
  <2> DEFINE q == CancelRequest(next_order_id, orig)
  <2>2. Fresh(q) /\ q.internal_order_id = next_order_id
    BY DEF Fresh, CancelRequest
  <2>3. EnqueueOrder(q)
    BY <2>1 DEF CancelOrder
  <2> HIDE DEF q
  <2> QED BY <2>2, <2>3, EnqueueTracked
<1>3. CASE HandleOrderRequest
  BY <1>3, TakeUpstreamTracked, PushTracked, StagePushedTracked, PublishTracked, RouteOrderRefusedTracked, RouteCancelTracked
     DEF HandleOrderRequest
<1>4. CASE HandleResponses
  BY <1>4, HandleTradeResponseTracked, IgnoreTracked DEF HandleResponses
<1>5. CASE Archive
  BY <1>5, ArchiveTracked DEF Archive
<1>6. CASE Halt
  BY <1>6, HaltTracked
<1>7. CASE Dies \/ Restarts
  BY <1>7, DieSettlingTracked, RestartTracked DEF Dies, Restarts
<1>8. CASE Gateway
  BY <1>8, GatewaySubmitTracked, GatewayRefuseTracked DEF Gateway
<1>9. CASE \E id \in DOMAIN broker : Broker(id)
  BY <1>9, ReportTracked, TradeTracked DEF Broker
<1>10. CASE UNCHANGED vars
  <2>1. UNCHANGED <<next_order_id, slots, upstream, downstream, responses, book, pending, loop, broker>>
    BY <1>10 DEF vars, shm, service, external
  <2>2. \A id : Ready(id) => Ready(id)'
    BY <2>1 DEF Ready, Live
  <2>3. \A i \in DOMAIN slots : Recoverable(slots[i]) =>
          LET id == slots[i].request.internal_order_id
          IN id \in DOMAIN book /\ book[id].index = i /\ book[id].request.order_type = "New"
    BY DEF Tracked, PoolTracked
  <2>4. loop.pc \in {"route", "sent", "staged"} => loop.id \in DOMAIN book
    BY DEF Invariant, TypeOK
  <2> QED BY <2>1, <2>2, <2>3, <2>4, ShrinkStep
<1> QED BY <1>1, <1>2, <1>3, <1>4, <1>5, <1>6, <1>7, <1>8, <1>9, <1>10 DEF Next

\* The orders' reports are on track throughout, unless the service dies where
\* recovery cannot find the order again.
LEMMA TrackedHolds == ASSUME RecoverableCrashes PROVE Spec => [](Invariant /\ OneCarrier /\ Tracked)
<1>1. Invariant /\ OneCarrier /\ Tracked /\ [Next]_vars => Tracked'
  BY NextTracked
<1> QED BY <1>1, InitTracked, InitOnce, NextOnce, InvariantHolds, PTL DEF Spec

\* No trade is lost to the book, however handlers, gateway, broker, archives and
\* recoverable restarts interleave (handle_trade_response's find_order, the archive
\* rules of process_pending_archives, order_recovery.cpp).
THEOREM TradesFindTheirOrders ==
  ASSUME RecoverableCrashes
  PROVE  Spec => []TradesReachTheBook
<1>1. Invariant /\ Tracked => TradesReachTheBook
  BY DEF Tracked, ResponsesTracked, Ready, TradesReachTheBook, Range
<1> QED BY <1>1, TrackedHolds, PTL

\* No order in the book comes back to life in a step.
EndsKept == \A id \in DOMAIN book \cap DOMAIN book' : ~ Live(id) => ~ Live(id)'

\* A response that revives nothing: only a live order can get one that is not an end.
LEMMA HandleTradeResponseKeepsEnds ==
  ASSUME Invariant, Tracked, HandleTradeResponse
  PROVE  EndsKept
<1>1. PICK r : r = Head(responses)
  OBVIOUS
<1>2. PICK id : id = r.internal_order_id
  OBVIOUS
<1> DEFINE p == Reported(book[id].request, r)
<1>3. /\ responses # <<>> /\ responses' = Tail(responses) /\ id \in DOMAIN book
      /\ \A y \in DOMAIN book' \ {id} : book'[y].request = book[y].request
      /\ id \in DOMAIN book' => book'[id].request = p
  BY <1>1, <1>2, ResponseEffect
<1>4. p.order_state \notin TerminalState => Live(id)
  <2>1. p = RequestAt("counted", book[id].request, r)
    BY DEF RequestAt
  <2> HIDE DEF p
  <2> QED BY <1>1, <1>2, <1>3, <2>1, ReportedOrder
<1> HIDE DEF p
<1> QED BY <1>3, <1>4 DEF EndsKept, Live

\* Nor does one that dies with the service.
LEMMA DieSettlingKeepsEnds ==
  ASSUME Invariant, Tracked, NEW done, DieSettling(done)
  PROVE  EndsKept
<1>1. PICK r : r = Head(responses)
  OBVIOUS
<1>2. PICK id : id = r.internal_order_id
  OBVIOUS
<1> DEFINE p == RequestAt(done, book[id].request, r)
<1>3. /\ responses # <<>> /\ responses' = Tail(responses) /\ id \in DOMAIN book
      /\ book' = [book EXCEPT ![id].request = p] /\ book \in [DOMAIN book -> Entry]
  BY <1>1, <1>2 DEF DieSettling, Invariant, TypeOK
<1>4. p.order_state \notin TerminalState => Live(id)
  BY <1>1, <1>2, <1>3, ReportedOrder
<1> HIDE DEF p
<1> QED BY <1>3, <1>4 DEF EndsKept, Live, Entry

\* The router touches a live order only.
LEMMA RouteKeepsEnds ==
  ASSUME Invariant, Tracked, PublishSubmitted \/ RouteOrderRefused \/ RouteCancel
  PROVE  EndsKept
<1> DEFINE a0 == [book |-> book, fund |-> fund]
           a == ReleaseOrderResources(a0, loop.id)
<1>1. /\ loop.pc \in {"route", "staged"} /\ loop.id \in DOMAIN book /\ book \in [DOMAIN book -> Entry]
      /\ fund \in Fund
  BY DEF PublishSubmitted, Publish, RouteOrderRefused, RouteCancel, Invariant, TypeOK
<1>2. book[loop.id].request.order_state \notin TerminalState
  BY <1>1 DEF Tracked, PoolTracked
<1>3. ASSUME \A y \in DOMAIN book \ {loop.id} : y \in DOMAIN book' => book'[y].request = book[y].request
      PROVE  EndsKept
  BY <1>2, <1>3 DEF EndsKept, Live
<1>4. CASE PublishSubmitted
  BY <1>1, <1>3, <1>4 DEF PublishSubmitted, Publish
<1>5. CASE RouteOrderRefused \/ RouteCancel
  <2>1. book' = [a.book EXCEPT ![loop.id].request = UpdateState(a.book[loop.id].request, "TraderError")]
    BY <1>5 DEF RouteOrderRefused, RouteCancel, RouteFailed
  <2>2. Account(a0, DOMAIN book) /\ a0.book = book
    BY <1>1 DEF Account
  <2> HIDE DEF a0
  <2>3. SameOrders(a, a0, DOMAIN book) /\ Account(a, DOMAIN book)
    BY <1>1, <2>2, ReleaseOrderResourcesSafe
  <2> HIDE DEF a
  <2>4. /\ a.book \in [DOMAIN book -> Entry]
        /\ \A y \in DOMAIN book : a.book[y].request = book[y].request
    BY <2>2, <2>3 DEF SameOrders, Account
  <2> QED BY <1>3, <2>1, <2>4
<1> QED BY <1>4, <1>5

\* Every step keeps the ends it finds.
LEMMA NextKeepsEnds == Invariant /\ OneCarrier /\ Tracked /\ [Next]_vars => [EndsKept]_vars
<1> SUFFICES ASSUME Invariant, OneCarrier, Tracked, Next PROVE EndsKept
  OBVIOUS
<1>1. ASSUME \A id \in DOMAIN book \cap DOMAIN book' : book'[id].request = book[id].request
      PROVE  EndsKept
  BY <1>1 DEF EndsKept, Live
<1>2. CASE UNCHANGED book
  BY <1>1, <1>2
<1>3. CASE HandleOrderRequest
  <2>1. CASE AddRefused \/ PushDownstream \/ StagePushed
    BY <1>2, <2>1 DEF AddRefused, PushDownstream, StagePushed, StageStore, service
  <2>2. CASE RiskReject \/ Admit
    <3>1. upstream # <<>> /\ Incoming.internal_order_id \notin DOMAIN book
      BY <2>2 DEF RiskReject, Admit, TakeUpstream, BookHasRoom
    <3>2. Incoming \in Request
      BY <3>1, IncomingFacts
    <3>3. \E state \in OrderState : \E e : book' = Put(book, UpdateState(Incoming, state).internal_order_id, e)
      BY <2>2 DEF RiskReject, Admit, OrderState
    <3> HIDE DEF Incoming
    <3>4. \A state \in OrderState : UpdateState(Incoming, state).internal_order_id \notin DOMAIN book
      BY <3>1, <3>2, UpdateStateType
    <3>5. \A y \in DOMAIN book : book'[y] = book[y]
      BY <3>3, <3>4 DEF Put
    <3> QED BY <1>1, <3>5
  <2> QED BY <1>3, <2>1, <2>2, RouteKeepsEnds DEF HandleOrderRequest
<1>4. CASE HandleResponses
  <2>1. CASE IgnoreTradeResponse
    BY <1>2, <2>1 DEF IgnoreTradeResponse
  <2> QED BY <1>4, <2>1, HandleTradeResponseKeepsEnds DEF HandleResponses
<1>5. CASE Archive
  BY <1>1, <1>5 DEF Archive, ProcessPendingArchives, Restrict
<1>6. CASE Dies \/ Restarts
  BY <1>1, <1>6, DieSettlingKeepsEnds, RecoveredBook DEF Dies, Restarts
<1>7. CASE (\E order \in NewOrders : SubmitOrder(order)) \/ (\E orig \in CancelTargets : CancelOrder(orig))
  BY <1>2, <1>7 DEF SubmitOrder, CancelOrder, EnqueueOrder, service
<1>8. CASE Halt
  BY <1>2, <1>8 DEF Halt
<1>9. CASE Gateway
  BY <1>2, <1>9 DEF Gateway, GatewaySubmit, GatewayRefuse, service
<1>10. CASE \E id \in DOMAIN broker : Broker(id)
  BY <1>2, <1>10 DEF Broker, BrokerAccept, BrokerReject, MarketReject, BrokerFinish, BrokerReport, BrokerTrade, service
<1> QED BY <1>3, <1>4, <1>5, <1>6, <1>7, <1>8, <1>9, <1>10 DEF Next

\* An order that has ended stays so as long as the book holds it, although
\* update_state lets any state follow any other: nothing but trades follows an
\* order's acceptance, and nothing its end (OrderBook::update_state).
THEOREM EndsAreFinal ==
  ASSUME RecoverableCrashes
  PROVE  Spec => TerminalIsFinal
<1>1. TerminalIsFinal <=> [][EndsKept]_vars
  BY DEF TerminalIsFinal, EndsKept
<1> QED BY <1>1, TrackedHolds, NextKeepsEnds, PTL DEF Spec

-----------------------------------------------------------------------------
(* Holdings.                                                               *)

\* Sums and differences of whole numbers.
LEMMA IntSum == \A m \in Int : \A n \in Int : m + n \in Int /\ m - n \in Int
  OBVIOUS

\* Sums of natural numbers.
LEMMA NatSum == \A m \in Nat : \A n \in Nat : m + n \in Nat
  OBVIOUS

\* The shares a response moves on one side, response by response.
SideVolume(side) == [r \in TradeResponse |-> VolumeMoved(r, side)]

\* The queued shares as a sum over the queue.
LEMMA QueuedVolume ==
  ASSUME NEW s \in Seq(TradeResponse), NEW side
  PROVE  SumFunction([i \in DOMAIN s |-> VolumeMoved(s[i], side)]) = SeqSum(SideVolume(side), s)
<1>1. \A i \in DOMAIN s : SideVolume(side)[s[i]] = VolumeMoved(s[i], side)
  BY ElementType DEF SideVolume
<1>2. [i \in DOMAIN s |-> VolumeMoved(s[i], side)] = [i \in DOMAIN s |-> SideVolume(side)[s[i]]]
  BY <1>1
<1> QED BY <1>2 DEF SeqSum

\* The shares the account counts, those it lost, those queued and the exchange's agree;
\* the counter deduct_position looks at first stays at zero.
HoldingsTracked ==
  /\ (position.available_t1 + lost.bought) + SeqSum(SideVolume("Buy"), responses) = market.bought
  /\ ((InitialHolding - position.available_t0) + lost.sold) + SeqSum(SideVolume("Sell"), responses)
       = market.sold
  /\ position.sell = 0

\* It is what HoldingsAgree says.
LEMMA HoldingsTrackedAgree == Invariant /\ HoldingsTracked => HoldingsAgree
<1> SUFFICES ASSUME Invariant, HoldingsTracked PROVE HoldingsAgree
  OBVIOUS
<1>1. responses \in Seq(TradeResponse)
  BY DEF Invariant, TypeOK
<1> QED BY <1>1, QueuedVolume DEF HoldingsTracked, HoldingsAgree

\* Weights are natural numbers.
LEMMA SideVolumeType ==
  ASSUME NEW side
  PROVE  /\ \A r \in TradeResponse : SideVolume(side)[r] \in Nat /\ SideVolume(side)[r] \in Int
         /\ \A r \in TradeResponse : SideVolume(side)[r] = IF r.trade_side = side THEN r.volume_traded ELSE 0
<1>1. \A r \in TradeResponse : r.volume_traded \in Nat
  BY DEF TradeResponse
<1> QED BY <1>1 DEF SideVolume, VolumeMoved

\* The values the holdings are made of.
LEMMA HoldingsTypes ==
  ASSUME Invariant
  PROVE  /\ position.available_t0 \in Nat /\ position.available_t1 \in Nat /\ position.sell \in Nat
         /\ market.bought \in Nat /\ market.sold \in Nat /\ lost.bought \in Nat /\ lost.sold \in Nat
         /\ responses \in Seq(TradeResponse) /\ InitialHolding \in Nat
         /\ SeqSum(SideVolume("Buy"), responses) \in Nat /\ SeqSum(SideVolume("Sell"), responses) \in Nat
<1>1. /\ position \in [available_t0 : Nat, available_t1 : Nat, sell : Nat]
      /\ market \in [cash : Int, bought : Nat, sold : Nat]
      /\ lost \in [cash : Int, bought : Nat, sold : Nat, ids : SUBSET OrderIds]
      /\ responses \in Seq(TradeResponse)
  BY DEF Invariant, TypeOK
<1>2. \A side : \A r \in TradeResponse : SideVolume(side)[r] \in Nat
  BY SideVolumeType
<1>3. /\ SeqSum(SideVolume("Buy"), responses) \in Nat /\ SeqSum(SideVolume("Sell"), responses) \in Nat
  BY <1>1, <1>2, SeqSumNat
<1> QED BY <1>1, <1>3, AccountAssumption

\* A response that reaches the queue.
LEMMA HoldingsQueued ==
  ASSUME Invariant, HoldingsTracked, NEW x \in TradeResponse, responses' = Append(responses, x), UNCHANGED <<position, lost>>,
         market'.bought = market.bought + IF x.trade_side = "Buy" THEN x.volume_traded ELSE 0,
         market'.sold = market.sold + IF x.trade_side = "Sell" THEN x.volume_traded ELSE 0
  PROVE  HoldingsTracked'
<1> DEFINE buys == SeqSum(SideVolume("Buy"), responses)
           sells == SeqSum(SideVolume("Sell"), responses)
<1>1. /\ position.available_t0 \in Nat /\ position.available_t1 \in Nat
      /\ market.bought \in Nat /\ market.sold \in Nat /\ lost.bought \in Nat /\ lost.sold \in Nat
      /\ responses \in Seq(TradeResponse) /\ InitialHolding \in Nat
      /\ buys \in Nat /\ sells \in Nat
  BY HoldingsTypes
<1>2. \A side : \A r \in TradeResponse : SideVolume(side)[r] \in Int
  BY SideVolumeType
<1>3. /\ SeqSum(SideVolume("Buy"), Append(responses, x)) = buys + SideVolume("Buy")[x]
      /\ SeqSum(SideVolume("Sell"), Append(responses, x)) = sells + SideVolume("Sell")[x]
  BY <1>1, <1>2, SeqSumAppend
<1>4. /\ SideVolume("Buy")[x] = IF x.trade_side = "Buy" THEN x.volume_traded ELSE 0
      /\ SideVolume("Sell")[x] = IF x.trade_side = "Sell" THEN x.volume_traded ELSE 0
      /\ x.volume_traded \in Nat
  BY SideVolumeType DEF TradeResponse
<1>5. /\ SeqSum(SideVolume("Buy"), responses') = SeqSum(SideVolume("Buy"), Append(responses, x))
      /\ SeqSum(SideVolume("Sell"), responses') = SeqSum(SideVolume("Sell"), Append(responses, x))
  OBVIOUS
<1>6. /\ (position.available_t1 + lost.bought) + buys = market.bought
      /\ ((InitialHolding - position.available_t0) + lost.sold) + sells = market.sold
  BY DEF HoldingsTracked
<1> DEFINE b == SeqSum(SideVolume("Buy"), responses')
           c == SeqSum(SideVolume("Sell"), responses')
<1>7. /\ b = buys + IF x.trade_side = "Buy" THEN x.volume_traded ELSE 0
      /\ c = sells + IF x.trade_side = "Sell" THEN x.volume_traded ELSE 0
  BY <1>3, <1>4, <1>5
<1> HIDE DEF buys, sells, b, c
<1>8. (position.available_t1 + lost.bought) + b = market'.bought
  <2> DEFINE n == position.available_t1 + lost.bought
             v == IF x.trade_side = "Buy" THEN x.volume_traded ELSE 0
  <2>1. n \in Nat
    BY <1>1, NatSum
  <2>2. v \in Nat
    BY <1>4
  <2>3. n + buys = market.bought /\ b = buys + v /\ market'.bought = market.bought + v
    BY <1>6, <1>7
  <2> HIDE DEF n, v
  <2>4. n + b = market'.bought
    BY <1>1, <2>1, <2>2, <2>3
  <2> QED BY <2>4 DEF n
<1>9. ((InitialHolding - position.available_t0) + lost.sold) + c = market'.sold
  <2> DEFINE n == (InitialHolding - position.available_t0) + lost.sold
             v == IF x.trade_side = "Sell" THEN x.volume_traded ELSE 0
  <2>1. n \in Int
    <3>1. InitialHolding - position.available_t0 \in Int /\ lost.sold \in Int
      BY <1>1, IntSum
    <3> QED BY <3>1, IntSum
  <2>2. v \in Nat
    BY <1>4
  <2>3. n + sells = market.sold /\ c = sells + v /\ market'.sold = market.sold + v
    BY <1>6, <1>7
  <2> HIDE DEF n, v
  <2>4. n + c = market'.sold
    BY <1>1, <2>1, <2>2, <2>3
  <2> QED BY <2>4 DEF n
<1> QED BY <1>8, <1>9 DEF HoldingsTracked, b, c

\* A response taken off the queue: its shares reach the position or are lost.
LEMMA HoldingsTaken ==
  ASSUME Invariant, HoldingsTracked, responses # <<>>, responses' = Tail(responses), UNCHANGED market,
         NEW r, r = Head(responses), NEW bought \in Int, NEW sold \in Int,
         position'.available_t1 + lost'.bought = (position.available_t1 + lost.bought) + bought,
         (InitialHolding - position'.available_t0) + lost'.sold
           = ((InitialHolding - position.available_t0) + lost.sold) + sold,
         bought = VolumeMoved(r, "Buy"), sold = VolumeMoved(r, "Sell"), position'.sell = 0
  PROVE  HoldingsTracked'
<1> DEFINE buys == SeqSum(SideVolume("Buy"), Tail(responses))
           sells == SeqSum(SideVolume("Sell"), Tail(responses))
           own == position.available_t1 + lost.bought
           gone == (InitialHolding - position.available_t0) + lost.sold
<1>1. /\ position.available_t0 \in Nat /\ position.available_t1 \in Nat
      /\ market.bought \in Nat /\ market.sold \in Nat /\ lost.bought \in Nat /\ lost.sold \in Nat
      /\ responses \in Seq(TradeResponse) /\ InitialHolding \in Nat
  BY HoldingsTypes
<1>2. r \in TradeResponse /\ Tail(responses) \in Seq(TradeResponse)
  BY <1>1, HeadTail
<1>3. \A side : \A x \in TradeResponse : SideVolume(side)[x] \in Int /\ SideVolume(side)[x] \in Nat
  BY SideVolumeType
<1>4. /\ SeqSum(SideVolume("Buy"), responses) = SideVolume("Buy")[r] + buys
      /\ SeqSum(SideVolume("Sell"), responses) = SideVolume("Sell")[r] + sells
  BY <1>1, <1>3, SeqSumTail
<1>5. buys \in Nat /\ sells \in Nat
  BY <1>2, <1>3, SeqSumNat
<1>6. SideVolume("Buy")[r] = bought /\ SideVolume("Sell")[r] = sold
  BY <1>2 DEF SideVolume
<1>7. own + (bought + buys) = market.bought /\ gone + (sold + sells) = market.sold
  BY <1>4, <1>6 DEF HoldingsTracked
<1>8. own \in Int /\ gone \in Int
  <2>1. \A n \in Nat : n \in Int
    OBVIOUS
  <2>2. own \in Int
    BY <1>1, <2>1, IntSum, Zenon
  <2>3. InitialHolding - position.available_t0 \in Int
    BY <1>1, <2>1, IntSum, Zenon
  <2>4. gone \in Int
    BY <1>1, <2>1, <2>3, IntSum, Zenon
  <2> QED BY <2>2, <2>4
<1>9. SeqSum(SideVolume("Buy"), responses') = buys /\ SeqSum(SideVolume("Sell"), responses') = sells
  OBVIOUS
<1>10. /\ position'.available_t1 + lost'.bought = own + bought
       /\ (InitialHolding - position'.available_t0) + lost'.sold = gone + sold
  OBVIOUS
<1> HIDE DEF buys, sells, own, gone
<1>11. (own + bought) + buys = market.bought /\ (gone + sold) + sells = market.sold
  BY <1>5, <1>7, <1>8
<1> QED BY <1>9, <1>10, <1>11 DEF HoldingsTracked

\* add_position and deduct_position move the shares of a trade, or refuse and lose them.
LEMMA SharesMoved ==
  ASSUME Invariant, HoldingsTracked, NEW r \in TradeResponse, r.volume_traded > 0 => r.trade_side \in {"Buy", "Sell"}
  PROVE  LET p == SettlePosition(position, "New", r)
             bought == lost.bought + (IF PositionRefused(r) THEN VolumeMoved(r, "Buy") ELSE 0)
             sold == lost.sold + (IF PositionRefused(r) THEN VolumeMoved(r, "Sell") ELSE 0)
         IN /\ p.available_t1 + bought = (position.available_t1 + lost.bought) + VolumeMoved(r, "Buy")
            /\ (InitialHolding - p.available_t0) + sold
                 = ((InitialHolding - position.available_t0) + lost.sold) + VolumeMoved(r, "Sell")
            /\ p.sell = 0
<1> DEFINE v == r.volume_traded
           p == SettlePosition(position, "New", r)
<1>1. /\ position.available_t0 \in Nat /\ position.available_t1 \in Nat /\ position.sell = 0
      /\ lost.bought \in Nat /\ lost.sold \in Nat /\ InitialHolding \in Nat /\ v \in Nat
      /\ position \in [available_t0 : Nat, available_t1 : Nat, sell : Nat]
  BY HoldingsTypes DEF HoldingsTracked, TradeResponse, Invariant, TypeOK
<1>2. Less(v, position.sell) = v
  BY <1>1 DEF Less
<1>3. PositionRefused(r) <=> r.trade_side = "Sell" /\ position.available_t0 < v
  BY <1>2 DEF PositionRefused
<1>4. CASE v = 0
  <2>1. p = position /\ VolumeMoved(r, "Buy") = 0 /\ VolumeMoved(r, "Sell") = 0
    BY <1>4 DEF SettlePosition, VolumeMoved
  <2> HIDE DEF p
  <2> QED BY <1>1, <2>1 DEF p
<1>5. CASE v > 0 /\ r.trade_side = "Buy"
  <2>1. p = AddPosition(position, v) /\ VolumeMoved(r, "Buy") = v /\ VolumeMoved(r, "Sell") = 0
    BY <1>5 DEF SettlePosition, VolumeMoved
  <2>2. /\ p.available_t1 = position.available_t1 + v
        /\ p.available_t0 = position.available_t0 /\ p.sell = 0
    BY <1>1, <2>1 DEF AddPosition
  <2>3. ~ PositionRefused(r)
    BY <1>3, <1>5
  <2> HIDE DEF p
  <2> QED BY <1>1, <2>1, <2>2, <2>3 DEF p
<1>6. CASE v > 0 /\ r.trade_side = "Sell" /\ position.available_t0 < v
  <2>1. p = [position EXCEPT !.sell = 0] /\ VolumeMoved(r, "Buy") = 0 /\ VolumeMoved(r, "Sell") = v
    BY <1>2, <1>6 DEF SettlePosition, DeductPosition, VolumeMoved
  <2>2. /\ p.available_t1 = position.available_t1 /\ p.available_t0 = position.available_t0 /\ p.sell = 0
    BY <1>1, <2>1
  <2>3. PositionRefused(r)
    BY <1>3, <1>6
  <2> HIDE DEF p
  <2> QED BY <1>1, <2>1, <2>2, <2>3 DEF p
<1>7. CASE v > 0 /\ r.trade_side = "Sell" /\ ~ (position.available_t0 < v)
  <2>1. VolumeMoved(r, "Buy") = 0 /\ VolumeMoved(r, "Sell") = v /\ Less(position.sell, v) = 0
    BY <1>1, <1>7 DEF VolumeMoved, Less
  <2>2. /\ p.available_t1 = position.available_t1 /\ p.available_t0 = position.available_t0 - v /\ p.sell = 0
    BY <1>2, <1>7, <2>1 DEF SettlePosition, DeductPosition
  <2>3. ~ PositionRefused(r)
    BY <1>3, <1>7
  <2> HIDE DEF p
  <2> QED BY <1>1, <2>1, <2>2, <2>3 DEF p
<1> QED BY <1>1, <1>4, <1>5, <1>6, <1>7

\* A response without a trade moves no shares.
LEMMA HoldingsReported ==
  ASSUME Invariant, HoldingsTracked, NEW x \in TradeResponse, x.volume_traded = 0,
         responses' = Append(responses, x), UNCHANGED <<position, market, lost>>
  PROVE  HoldingsTracked'
<1>1. /\ market'.bought = market.bought + IF x.trade_side = "Buy" THEN x.volume_traded ELSE 0
      /\ market'.sold = market.sold + IF x.trade_side = "Sell" THEN x.volume_traded ELSE 0
  BY HoldingsTypes
<1> QED BY <1>1, HoldingsQueued

\* What the gateway and the broker queue.
LEMMA QueueHoldings ==
  ASSUME Invariant, Tracked, HoldingsTracked,
         GatewayRefuse \/ \E id \in DOMAIN broker : Broker(id)
  PROVE  HoldingsTracked'
<1>1. CASE GatewayRefuse
  <2> DEFINE q == slots[Head(downstream)].request
             x == Response(q.internal_order_id, "TraderError", q.trade_side, 0, 0, 0)
  <2>1. responses' = Append(responses, x) /\ UNCHANGED <<position, market, lost>> /\ downstream # <<>>
    BY <1>1 DEF GatewayRefuse, external
  <2>2. Head(downstream) \in DOMAIN slots /\ slots \in Seq(Slot)
    BY <2>1, HeadTail DEF Invariant, TypeOK
  <2>3. slots[Head(downstream)] \in Slot
    BY <2>2, ElementType
  <2>4. q \in Request
    BY <2>3 DEF Slot
  <2> HIDE DEF q
  <2>5. x \in TradeResponse /\ x.volume_traded = 0
    BY <2>4 DEF Response, TradeResponse, Request, OrderState
  <2> HIDE DEF x
  <2> QED BY <2>1, <2>5, HoldingsReported
<1>2. ASSUME NEW id \in DOMAIN broker, Broker(id)
      PROVE  HoldingsTracked'
  <2>1. id \in OrderIds /\ broker[id] \in BrokerOrder
    BY DEF Invariant, TypeOK
  <2>2. /\ broker[id].side \in {"Buy", "Sell"} /\ broker[id].side \in TradeSide
        /\ broker[id].left \in Nat /\ broker[id].fee_left \in Nat
    BY <2>1 DEF BrokerOrder, Tracked, BrokerTracked
  <2>3. ASSUME NEW phase, NEW state \in OrderState, NEW next, BrokerReport(id, phase, state, next)
        PROVE  HoldingsTracked'
    <3> DEFINE x == Response(id, state, broker[id].side, 0, 0, 0)
    <3>1. x \in TradeResponse /\ x.volume_traded = 0
      BY <2>1, <2>2 DEF Response, TradeResponse
    <3>2. responses' = Append(responses, x) /\ UNCHANGED <<position, market, lost>>
      BY <2>3 DEF BrokerReport
    <3> HIDE DEF x
    <3> QED BY <3>1, <3>2, HoldingsReported
  <2>4. CASE BrokerAccept(id) \/ BrokerReject(id) \/ MarketReject(id) \/ BrokerFinish(id)
    <3>1. {"BrokerAccepted", "BrokerRejected", "MarketRejected", "Finished"} \subseteq OrderState
      BY DEF OrderState
    <3> QED BY <2>3, <2>4, <3>1 DEF BrokerAccept, BrokerReject, MarketReject, BrokerFinish
  <2>5. ASSUME NEW volume \in 1 .. broker[id].left, NEW price \in TradePrices,
               NEW fee \in 0 .. broker[id].fee_left, BrokerTrade(id, volume, price, fee)
        PROVE  HoldingsTracked'
    <3> DEFINE x == Response(id, "MarketAccepted", broker[id].side, volume, volume * price, fee)
    <3>1. volume \in Nat /\ price \in Nat /\ fee \in Nat
      BY <2>2, OrdersAssumption
    <3>2. volume * price \in Nat
      BY <3>1, NatProduct
    <3>3. /\ x \in TradeResponse /\ x.volume_traded = volume /\ x.trade_side = broker[id].side
      BY <2>1, <2>2, <3>1, <3>2 DEF Response, TradeResponse, OrderState
    <3>4. responses' = Append(responses, x) /\ UNCHANGED <<position, lost>>
      BY <2>5 DEF BrokerTrade
    <3>5. /\ market'.bought = market.bought + IF broker[id].side = "Buy" THEN volume ELSE 0
          /\ market'.sold = market.sold + IF broker[id].side = "Sell" THEN volume ELSE 0
      BY <2>2, <2>5, HoldingsTypes, SMTT(120) DEF BrokerTrade
    <3> HIDE DEF x
    <3> QED BY <3>3, <3>4, <3>5, HoldingsQueued
  <2> QED BY <1>2, <2>4, <2>5 DEF Broker
<1> QED BY <1>1, <1>2

\* What the loop takes off the queue.
LEMMA ResponseHoldings ==
  ASSUME Invariant, Tracked, HoldingsTracked, HandleResponses \/ Dies
  PROVE  HoldingsTracked'
<1>1. PICK r : r = Head(responses)
  OBVIOUS
<1>2. /\ responses # <<>> /\ responses' = Tail(responses) /\ UNCHANGED market
  BY DEF HandleResponses, HandleTradeResponse, ApplyTradeResponse, IgnoreTradeResponse, Dies, DieSettling, external
<1>3. r \in Range(responses) /\ r \in TradeResponse
  BY <1>1, <1>2, RangeTail, HeadTail DEF Invariant, TypeOK
<1>4. r.volume_traded \in Nat /\ VolumeMoved(r, "Buy") \in Nat /\ VolumeMoved(r, "Sell") \in Nat
  BY <1>3 DEF TradeResponse, VolumeMoved
<1>5. /\ r.volume_traded > 0 => r.trade_side \in {"Buy", "Sell"} /\ r.internal_order_id \in DOMAIN book
      /\ r.internal_order_id \in DOMAIN book => book[r.internal_order_id].request.order_type = "New"
  BY <1>3 DEF Tracked, ResponsesTracked, BrokerTracked, Ready
<1>6. /\ position.available_t0 \in Nat /\ position.available_t1 \in Nat /\ position.sell = 0
      /\ lost.bought \in Nat /\ lost.sold \in Nat /\ InitialHolding \in Nat
  BY HoldingsTypes DEF HoldingsTracked
<1>7. ASSUME UNCHANGED position,
             lost'.bought = lost.bought + VolumeMoved(r, "Buy"), lost'.sold = lost.sold + VolumeMoved(r, "Sell")
      PROVE  HoldingsTracked'
  <2> DEFINE bought == VolumeMoved(r, "Buy")
             sold == VolumeMoved(r, "Sell")
  <2>1. bought \in Int /\ sold \in Int /\ bought = VolumeMoved(r, "Buy") /\ sold = VolumeMoved(r, "Sell")
    BY <1>4
  <2> HIDE DEF bought, sold
  <2>2. /\ position'.available_t1 + lost'.bought = (position.available_t1 + lost.bought) + bought
        /\ (InitialHolding - position'.available_t0) + lost'.sold
             = ((InitialHolding - position.available_t0) + lost.sold) + sold
        /\ position'.sell = 0
    BY <1>6, <1>7, <2>1
  <2> QED BY <1>1, <1>2, <2>1, <2>2, HoldingsTaken
<1>8. ASSUME position' = SettlePosition(position, "New", r),
             lost'.bought = lost.bought + (IF PositionRefused(r) THEN VolumeMoved(r, "Buy") ELSE 0),
             lost'.sold = lost.sold + (IF PositionRefused(r) THEN VolumeMoved(r, "Sell") ELSE 0)
      PROVE  HoldingsTracked'
  <2> DEFINE bought == VolumeMoved(r, "Buy")
             sold == VolumeMoved(r, "Sell")
  <2>1. bought \in Int /\ sold \in Int /\ bought = VolumeMoved(r, "Buy") /\ sold = VolumeMoved(r, "Sell")
    BY <1>4
  <2>2. /\ position'.available_t1 + lost'.bought = (position.available_t1 + lost.bought) + bought
        /\ (InitialHolding - position'.available_t0) + lost'.sold
             = ((InitialHolding - position.available_t0) + lost.sold) + sold
        /\ position'.sell = 0
    BY <1>3, <1>5, <1>8, SharesMoved
  <2> HIDE DEF bought, sold
  <2> QED BY <1>1, <1>2, <2>1, <2>2, HoldingsTaken
<1>9. CASE IgnoreTradeResponse
  <2>1. r.internal_order_id \notin DOMAIN book /\ UNCHANGED <<position, lost>>
    BY <1>1, <1>9 DEF IgnoreTradeResponse, external
  <2>2. VolumeMoved(r, "Buy") = 0 /\ VolumeMoved(r, "Sell") = 0
    BY <1>4, <1>5, <2>1 DEF VolumeMoved
  <2> QED BY <1>6, <1>7, <2>1, <2>2
<1>10. CASE HandleTradeResponse
  <2>1. /\ position' = SettlePosition(position, "New", r)
        /\ lost' = Missed(r, ~ FundRefused(book[r.internal_order_id], r), ~ PositionRefused(r))
    BY <1>1, <1>5, <1>10 DEF HandleTradeResponse, ApplyTradeResponse
  <2>2. /\ lost'.bought = lost.bought + (IF PositionRefused(r) THEN VolumeMoved(r, "Buy") ELSE 0)
        /\ lost'.sold = lost.sold + (IF PositionRefused(r) THEN VolumeMoved(r, "Sell") ELSE 0)
    BY <2>1 DEF Missed
  <2> QED BY <1>8, <2>1, <2>2
<1>11. ASSUME NEW done, DieSettling(done) PROVE HoldingsTracked'
  <2> DEFINE id == r.internal_order_id
             q == RequestAt(done, book[id].request, r)
             moved == done = "moved"
             paid == done \in {"paid", "moved"} /\ ~ FundRefused(book[id], r)
             m == Missed(r, paid, moved /\ ~ PositionRefused(r))
             ended == done = "popped" /\ r.new_state \in TerminalState
  <2>1. /\ position' = IF moved THEN SettlePosition(position, q.order_type, r) ELSE position
        /\ lost' = [m EXCEPT !.ids = IF ended THEN @ \cup {id} ELSE @]
        /\ id \in DOMAIN book
    BY <1>1, <1>11 DEF DieSettling
  <2>2. q.order_type = "New"
    BY <1>1, <1>2, <2>1, ReportedOrder
  <2> HIDE DEF q
  <2>3. lost'.bought = m.bought /\ lost'.sold = m.sold
    BY <2>1 DEF Missed
  <2>4. /\ m.bought = lost.bought + (IF moved /\ ~ PositionRefused(r) THEN 0 ELSE VolumeMoved(r, "Buy"))
        /\ m.sold = lost.sold + (IF moved /\ ~ PositionRefused(r) THEN 0 ELSE VolumeMoved(r, "Sell"))
    BY DEF Missed
  <2> HIDE DEF m, paid, ended, id
  <2>5. CASE moved
    BY <1>8, <2>1, <2>2, <2>3, <2>4, <2>5
  <2>6. CASE ~ moved
    BY <1>7, <2>1, <2>3, <2>4, <2>6
  <2> QED BY <2>5, <2>6
<1> QED BY <1>9, <1>10, <1>11 DEF HandleResponses, Dies

\* Every step keeps the account of the shares.
LEMMA NextHoldings == Invariant /\ Tracked /\ HoldingsTracked /\ [Next]_vars => HoldingsTracked'
<1> SUFFICES ASSUME Invariant, Tracked, HoldingsTracked, [Next]_vars PROVE HoldingsTracked'
  OBVIOUS
<1>1. CASE UNCHANGED <<responses, position, market, lost>>
  BY <1>1 DEF HoldingsTracked
<1>2. CASE (\E order \in NewOrders : SubmitOrder(order)) \/ (\E orig \in CancelTargets : CancelOrder(orig))
  BY <1>1, <1>2 DEF SubmitOrder, CancelOrder, EnqueueOrder, external
<1>3. CASE HandleOrderRequest
  BY <1>1, <1>3 DEF HandleOrderRequest, AddRefused, RiskReject, Admit, PushDownstream, StagePushed, StageStore,
                    PublishSubmitted, Publish,
                    RouteOrderRefused, RouteCancel, RouteFailed, external
<1>4. CASE HandleResponses \/ Dies
  BY <1>4, ResponseHoldings
<1>5. CASE Archive
  BY <1>1, <1>5 DEF Archive, ProcessPendingArchives, external
<1>6. CASE Halt
  BY <1>1, <1>6 DEF Halt, shm, external
<1>7. CASE Restarts
  BY <1>1, <1>7 DEF Restarts, Restart, shm
<1>8. CASE Gateway
  <2>1. CASE GatewaySubmit
    BY <1>1, <2>1 DEF GatewaySubmit
  <2> QED BY <1>8, <2>1, QueueHoldings DEF Gateway
<1>9. CASE \E id \in DOMAIN broker : Broker(id)
  BY <1>9, QueueHoldings
<1>10. CASE UNCHANGED vars
  BY <1>1, <1>10 DEF vars, shm, external
<1> QED BY <1>2, <1>3, <1>4, <1>5, <1>6, <1>7, <1>8, <1>9, <1>10 DEF Next

\* At the start of the day nothing has been traded.
LEMMA InitHoldings == Init => HoldingsTracked
<1> SUFFICES ASSUME Init PROVE HoldingsTracked
  OBVIOUS
<1>1. /\ position = [available_t0 |-> InitialHolding, available_t1 |-> 0, sell |-> 0]
      /\ market.bought = 0 /\ market.sold = 0 /\ responses = <<>> /\ InitialHolding \in Nat
      /\ lost.bought = 0 /\ lost.sold = 0
  BY AccountAssumption DEF Init
<1>2. <<>> \in Seq(TradeResponse) /\ DOMAIN <<>> = {}
  OBVIOUS
<1>3. \A w : SeqSum(w, <<>>) = 0
  BY <1>2, SeqSumZero
<1> QED BY <1>1, <1>3 DEF HoldingsTracked

\* The shares the account counts, those still queued and those of settlements refused or
\* cut short are the exchange's, for any number of orders, any prices, any fees, any
\* shorts, and across restarts wherever recovery finds the order again
\* (add_position, deduct_position).
THEOREM HoldingsAlwaysAgree ==
  ASSUME RecoverableCrashes
  PROVE  Spec => []HoldingsAgree
<1> QED BY InitHoldings, NextHoldings, HoldingsTrackedAgree, TrackedHolds, PTL DEF Spec

-----------------------------------------------------------------------------
(***************************************************************************)
(* Proofs about the money of EventLoop, for every value of the constants.  *)
(*                                                                         *)
(* CashTracked says that the account's cash, what refused or interrupted   *)
(* settlements should have moved and what the queued responses will move   *)
(* add up to the exchange's cash; it is inductive across restarts.         *)
(* FundsTracked says what the frozen funds are for: each live buy order    *)
(* holds at least what it can still cost (Exposure: the volume the broker  *)
(* has left at the limit price, the fees still to come and the trades not  *)
(* yet settled), the frozen column is the sum of what the orders hold, and *)
(* the row's worth grows by no more than the sales bring in.  Together     *)
(* with Invariant, OneCarrier, Tracked and HoldingsTracked it is inductive *)
(* while the service does not restart and the columns stay in range.       *)
(***************************************************************************)

-----------------------------------------------------------------------------
(* What the account's money is for.                                        *)

\* The bill of one order's trades, response by response.
BillFor(id) ==
  [r \in TradeResponse |-> IF r.internal_order_id = id THEN r.dvalue_traded + r.dfee ELSE 0]

\* The bill of an order's trades that the loop has not yet settled.
Unpaid(id) == SeqSum(BillFor(id), responses)

\* The most the order can still cost.
Exposure(id) ==
  IF id \in DOMAIN broker
  THEN (broker[id].left * broker[id].price + broker[id].fee_left) + Unpaid(id)
  ELSE ReservedTotal(book[id].request)

\* The order, if it is a live buy order, holds what it can still cost, and otherwise
\* it holds nothing; the broker has it on the side the book has it on.
ReservedAt(id) ==
  /\ IsNewBuy(book[id].request) /\ Live(id) => Exposure(id) <= book[id].fund_frozen
  /\ ~ (IsNewBuy(book[id].request) /\ Live(id)) => book[id].fund_frozen = 0
  /\ id \in DOMAIN broker => broker[id].side = book[id].request.trade_side

\* Every order of the book does.
Reserved == \A id \in DOMAIN book : ReservedAt(id)

\* No trade is above the price P.
Priced(P) == \A r \in Range(responses) : r.dvalue_traded <= P * r.volume_traded

\* Only trades move money.
OnlyTradesPay ==
  \A r \in Range(responses) : r.volume_traded = 0 => r.dvalue_traded = 0 /\ r.dfee = 0

\* All the cash of a fund row.
Cash(f) == f.available + f.frozen

\* All a fund row is worth.
Worth(f) == (f.available + f.frozen) + f.market_value

\* The sold shares that the loop has settled, those the position refused included.
SharesSold == (InitialHolding - position.available_t0) + lost.sold

\* The account's worth grew by no more than the price P for every share it sold.
WorthBounded(P) == Worth(fund) <= Worth(InitialFund) + P * SharesSold

\* The broker takes no more fees than were estimated, P is the highest price, and what
\* the exchange has sold for the account, at that price, leaves it in range.
AmpleFor(P) ==
  /\ FeeOverrun = 0
  /\ \A price \in TradePrices : price <= P
  /\ Worth(InitialFund) + P * market.sold <= MaxDValue

\* What the account's money is reserved for (the inductive invariant).
FundsTracked(P) ==
  Reserved /\ Priced(P) /\ WorthBounded(P) /\ FrozenBacksLiveOrders

\* The cash a queued response will move, as a weight.
CashWeight == [r \in TradeResponse |-> CashMoved(r)]

\* The account's cash, what settlements failed to move and what is queued agree with
\* the exchange's cash.
CashTracked ==
  ((fund.available + fund.frozen) + lost.cash) + SeqSum(CashWeight, responses) = market.cash

-----------------------------------------------------------------------------
(* What the operations on the account do to its money.                     *)

\* The fund row refuses to settle r for an order that holds h.
FundRefuses(f, h, r) ==
  \/ /\ r.trade_side = "Buy"
     /\ ~ (IF h = 0 THEN CanApplyBuyTradeFund(f, r.dvalue_traded, r.dfee)
                    ELSE CanDeductFund(f, r.dvalue_traded, r.dfee))
  \/ /\ r.trade_side = "Sell"
     /\ ~ CanApplySellTradeFund(f, r.dvalue_traded, r.dfee)

\* The columns of a fund row are natural numbers.
LEMMA FundColumns ==
  ASSUME NEW f \in Fund
  PROVE  /\ f.available \in Nat /\ f.frozen \in Nat /\ f.market_value \in Nat
         /\ f.available <= MaxDValue /\ f.frozen <= MaxDValue /\ f.market_value <= MaxDValue
  BY MaxDValueAssumption DEF Fund, DValue

\* release_order_resources moves the reservation back within the cash, all of it
\* when the row has the range to hold it.
LEMMA ReleaseEffect ==
  ASSUME NEW a, NEW D, Account(a, D), NEW id \in D
  PROVE  LET b == ReleaseOrderResources(a, id)
             h == a.book[id].fund_frozen
         IN /\ Cash(b.fund) = Cash(a.fund) /\ b.fund.market_value = a.fund.market_value
            /\ \A y \in D \ {id} : b.book[y] = a.book[y]
            /\ (h <= a.fund.frozen /\ Cash(a.fund) <= MaxDValue /\ (IsNewBuy(a.book[id].request) \/ h = 0))
                 => b.fund.frozen = a.fund.frozen - h /\ b.book[id].fund_frozen = 0
<1> DEFINE e == a.book[id]
           h == e.fund_frozen
           f == a.fund
<1>1. /\ h \in Nat /\ f.available \in Nat /\ f.frozen \in Nat /\ MaxDValue \in Nat
      /\ a.book \in [D -> Entry] /\ e \in Entry
  BY FundColumns, MaxDValueAssumption DEF Account, Entry, DValue
<1>2. CASE IsNewBuy(e.request) /\ h # 0 /\ CanUnfreezeFund(f, h)
  <2> DEFINE c == [a.book EXCEPT ![id].fund_frozen = 0]
  <2>1. ReleaseOrderResources(a, id) = [book |-> c, fund |-> UnfreezeFund(f, h)]
    BY <1>2 DEF ReleaseOrderResources
  <2>2. c[id].fund_frozen = 0 /\ \A y \in D \ {id} : c[y] = a.book[y]
    BY <1>1 DEF Entry
  <2>3. /\ UnfreezeFund(f, h).available = f.available + h /\ UnfreezeFund(f, h).frozen = f.frozen - h
        /\ UnfreezeFund(f, h).market_value = f.market_value
    BY DEF UnfreezeFund, Row
  <2>4. h <= f.frozen
    BY <1>2 DEF CanUnfreezeFund
  <2> HIDE DEF c, f, h
  <2> QED BY <1>1, <2>1, <2>2, <2>3, <2>4 DEF Cash, f, h
<1>3. CASE ~ (IsNewBuy(e.request) /\ h # 0 /\ CanUnfreezeFund(f, h))
  <2>1. ReleaseOrderResources(a, id) = a
    BY <1>3 DEF ReleaseOrderResources
  <2>2. ASSUME h <= f.frozen, Cash(f) <= MaxDValue, IsNewBuy(e.request) \/ h = 0 PROVE h = 0
    BY <1>1, <1>3, <2>2 DEF Cash, CanUnfreezeFund
  <2> HIDE DEF f, h
  <2>3. ASSUME h <= f.frozen, Cash(f) <= MaxDValue, IsNewBuy(e.request) \/ h = 0 PROVE f.frozen = f.frozen - h /\ h = 0
    BY <1>1, <2>2, <2>3
  <2> QED BY <2>1, <2>3 DEF f, h
<1> QED BY <1>2, <1>3

\* A trade that the fund row does not refuse moves exactly its cash.
LEMMA SettleEffect ==
  ASSUME NEW a, NEW D, Account(a, D), NEW r \in TradeResponse, NEW id \in D, id = r.internal_order_id,
         a.book[id].request.order_type = "New"
  PROVE  LET b == SettleTradeFund(a, r)
             h == a.book[id].fund_frozen
             bill == r.dvalue_traded + r.dfee
             settles == r.volume_traded > 0 /\ ~ FundRefuses(a.fund, h, r)
         IN /\ \A y \in D \ {id} : b.book[y] = a.book[y]
            /\ ~ settles => b = a
            /\ settles /\ r.trade_side = "Buy" =>
                 /\ b.book[id].fund_frozen = Less(h, bill)
                 /\ Cash(b.fund) = Cash(a.fund) - bill
                 /\ b.fund.frozen = a.fund.frozen - (IF h = 0 THEN 0 ELSE bill)
                 /\ b.fund.market_value = a.fund.market_value + r.dvalue_traded
            /\ settles /\ r.trade_side = "Sell" =>
                 /\ b.book = a.book
                 /\ Cash(b.fund) = (Cash(a.fund) + r.dvalue_traded) - r.dfee
                 /\ b.fund.frozen = a.fund.frozen
                 /\ b.fund.market_value <= a.fund.market_value
            /\ settles /\ r.trade_side \notin {"Buy", "Sell"} => b = a
<1> DEFINE h == a.book[id].fund_frozen
           f == a.fund
           amount == r.dvalue_traded
           fee == r.dfee
           b == SettleTradeFund(a, r)
<1>1. /\ h \in Nat /\ f.available \in Nat /\ f.frozen \in Nat /\ f.market_value \in Nat
      /\ amount \in Nat /\ fee \in Nat /\ a.book \in [D -> Entry] /\ a.book[id] \in Entry
  BY FundColumns, MaxDValueAssumption DEF Account, Entry, DValue, TradeResponse
<1>2. CASE ~ (r.volume_traded > 0) \/ FundRefuses(f, h, r) \/ r.trade_side \notin {"Buy", "Sell"}
  <2>1. b = a
    BY <1>2 DEF SettleTradeFund, SettleBuyTradeFund, SettleSellTradeFund, FundRefuses
  <2> HIDE DEF b
  <2>2. ~ (r.volume_traded > 0 /\ ~ FundRefuses(f, h, r)) \/ r.trade_side \notin {"Buy", "Sell"}
    BY <1>2
  <2> QED BY <2>1, <2>2 DEF b
<1>3. CASE r.volume_traded > 0 /\ ~ FundRefuses(f, h, r) /\ r.trade_side = "Buy" /\ h = 0
  <2>1. CanApplyBuyTradeFund(f, amount, fee) /\ b = [book |-> a.book, fund |-> ApplyBuyTradeFund(f, amount, fee)]
    BY <1>3 DEF FundRefuses, SettleTradeFund, SettleBuyTradeFund
  <2> DEFINE g == ApplyBuyTradeFund(f, amount, fee)
  <2>2. /\ g.available = f.available - (amount + fee) /\ g.frozen = f.frozen
        /\ g.market_value = f.market_value + amount
    BY DEF ApplyBuyTradeFund, Row
  <2>3. b.book = a.book /\ b.fund = g
    BY <2>1
  <2> HIDE DEF b, f, amount, fee, g
  <2>4. Cash(g) = Cash(f) - (amount + fee)
    BY <1>1, <2>2 DEF Cash
  <2>5. g.frozen = f.frozen - 0 /\ Less(h, amount + fee) = 0
    BY <1>1, <1>3, <2>2 DEF Less
  <2> QED BY <1>3, <2>2, <2>3, <2>4, <2>5 DEF b, f, amount, fee
<1>4. CASE r.volume_traded > 0 /\ ~ FundRefuses(f, h, r) /\ r.trade_side = "Buy" /\ h # 0
  <2> DEFINE left == Less(h, amount + fee)
             c == [a.book EXCEPT ![id].fund_frozen = left]
             g == DeductFund(f, amount, fee)
  <2>1. b = [book |-> c, fund |-> g]
    BY <1>4 DEF FundRefuses, SettleTradeFund, SettleBuyTradeFund
  <2>2. /\ g.available = f.available /\ g.frozen = f.frozen - (amount + fee)
        /\ g.market_value = f.market_value + amount
    BY DEF DeductFund, Row
  <2>3. b.book = c /\ b.fund = g
    BY <2>1
  <2> HIDE DEF left
  <2>4. c[id].fund_frozen = left /\ \A y \in D \ {id} : c[y] = a.book[y]
    BY <1>1 DEF Entry
  <2> HIDE DEF b, c, f, amount, fee, g
  <2>5. Cash(g) = Cash(f) - (amount + fee)
    BY <1>1, <2>2 DEF Cash
  <2> QED BY <1>4, <2>2, <2>3, <2>4, <2>5 DEF b, f, amount, fee, left
<1>5. CASE r.volume_traded > 0 /\ ~ FundRefuses(f, h, r) /\ r.trade_side = "Sell"
  <2> DEFINE g == ApplySellTradeFund(f, amount, fee)
  <2>1. CanApplySellTradeFund(f, amount, fee) /\ b = [book |-> a.book, fund |-> g]
    BY <1>5 DEF FundRefuses, SettleTradeFund, SettleSellTradeFund
  <2>2. /\ g.available = (f.available + amount) - fee /\ g.frozen = f.frozen
        /\ g.market_value = Less(f.market_value, amount)
    BY DEF ApplySellTradeFund, Row
  <2>3. b.book = a.book /\ b.fund = g
    BY <2>1
  <2> HIDE DEF b, f, amount, fee, g
  <2>4. Cash(g) = (Cash(f) + amount) - fee
    BY <1>1, <2>2 DEF Cash
  <2>5. g.market_value <= f.market_value
    BY <1>1, <2>2 DEF Less
  <2> QED BY <1>5, <2>2, <2>3, <2>4, <2>5 DEF b, f, amount, fee
<1> QED BY <1>2, <1>3, <1>4, <1>5

\* The money of handle_trade_response, in its two steps: the trade of r leads to the
\* row m and the reservation k, and an order that has ended gives k back.
LEMMA SettledMoney ==
  ASSUME Invariant, NEW r \in TradeResponse, NEW id \in DOMAIN book, id = r.internal_order_id,
         book[id].request.order_type = "New"
  PROVE  LET a == Settled(r)
             q == book[id].request
             h == book[id].fund_frozen
             p == Reported(q, r)
             bill == r.dvalue_traded + r.dfee
             settles == r.volume_traded > 0 /\ ~ FundRefuses(fund, h, r)
         IN /\ \A y \in DOMAIN book \ {id} : a.book[y].fund_frozen = book[y].fund_frozen
            /\ \E m \in Fund, k \in Nat :
                 /\ ~ settles \/ r.trade_side \notin {"Buy", "Sell"} => m = fund /\ k = h
                 /\ settles /\ r.trade_side = "Buy" =>
                      /\ k = Less(h, bill)
                      /\ Cash(m) = Cash(fund) - bill
                      /\ m.frozen = fund.frozen - (IF h = 0 THEN 0 ELSE bill)
                      /\ m.market_value = fund.market_value + r.dvalue_traded
                 /\ settles /\ r.trade_side = "Sell" =>
                      /\ k = h
                      /\ Cash(m) = (Cash(fund) + r.dvalue_traded) - r.dfee
                      /\ m.frozen = fund.frozen
                      /\ m.market_value <= fund.market_value
                 /\ Cash(a.fund) = Cash(m) /\ a.fund.market_value = m.market_value
                 /\ p.order_state \notin TerminalState => a.fund = m /\ a.book[id].fund_frozen = k
                 /\ p.order_state \in TerminalState /\ k <= m.frozen /\ Cash(m) <= MaxDValue
                    /\ (IsNewBuy(q) \/ k = 0) =>
                      a.fund.frozen = m.frozen - k /\ a.book[id].fund_frozen = 0
<1> DEFINE q == book[id].request
           h == book[id].fund_frozen
           p == Reported(q, r)
           D == DOMAIN book
           b == [book EXCEPT ![id].request = p]
           a0 == [book |-> b, fund |-> fund]
           a1 == SettleTradeFund(a0, r)
           a2 == ReleaseFinished(a1, id)
           settles == r.volume_traded > 0 /\ ~ FundRefuses(fund, h, r)
<1>1. book \in [D -> Entry] /\ fund \in Fund
  BY DEF Invariant, TypeOK
<1>2. q \in Request
  BY <1>1 DEF Entry
<1>3. p \in Request /\ p.order_type = "New" /\ p.trade_side = q.trade_side
  BY <1>2, ReportedType, ReportedFacts
<1> HIDE DEF p
<1>4. /\ b \in [D -> Entry] /\ b[id].request = p /\ b[id].fund_frozen = h
      /\ \A y \in D \ {id} : b[y] = book[y]
  BY <1>1, <1>3 DEF Entry
<1> HIDE DEF b
<1>5. Account(a0, D) /\ a0.book = b /\ a0.fund = fund
  BY <1>1, <1>4 DEF Account
<1> HIDE DEF a0
<1>6. a0.book[id].request.order_type = "New" /\ a0.book[id].fund_frozen = h
  BY <1>3, <1>4, <1>5
<1>7. Account(a1, D) /\ SameOrders(a1, a0, D)
  BY <1>5, SettleTradeFundSafe
<1>8. /\ \A y \in D \ {id} : a1.book[y] = a0.book[y]
      /\ ~ settles \/ r.trade_side \notin {"Buy", "Sell"} => a1 = a0
      /\ settles /\ r.trade_side = "Buy" =>
           /\ a1.book[id].fund_frozen = Less(h, r.dvalue_traded + r.dfee)
           /\ Cash(a1.fund) = Cash(fund) - (r.dvalue_traded + r.dfee)
           /\ a1.fund.frozen = fund.frozen - (IF h = 0 THEN 0 ELSE r.dvalue_traded + r.dfee)
           /\ a1.fund.market_value = fund.market_value + r.dvalue_traded
      /\ settles /\ r.trade_side = "Sell" =>
           /\ a1.book = a0.book
           /\ Cash(a1.fund) = (Cash(fund) + r.dvalue_traded) - r.dfee
           /\ a1.fund.frozen = fund.frozen
           /\ a1.fund.market_value <= fund.market_value
  <2>1. a0.fund = fund
    BY <1>5
  <2> QED BY <1>5, <1>6, <2>1, SettleEffect
<1> HIDE DEF a1, settles
<1> DEFINE m == a1.fund
           k == a1.book[id].fund_frozen
<1>9. /\ m \in Fund /\ k \in Nat /\ a1.book[id].request = p
      /\ (IsNewBuy(a1.book[id].request) <=> IsNewBuy(q))
  BY <1>3, <1>4, <1>5, <1>7, MaxDValueAssumption DEF Account, Entry, DValue, SameOrders, IsNewBuy
<1>10. a2 = IF p.order_state \notin TerminalState THEN a1 ELSE ReleaseOrderResources(a1, id)
  BY <1>3, <1>9 DEF ReleaseFinished
<1> HIDE DEF a2
<1>11. /\ Cash(a2.fund) = Cash(m) /\ a2.fund.market_value = m.market_value
       /\ \A y \in D \ {id} : a2.book[y] = a1.book[y]
       /\ p.order_state \notin TerminalState => a2.fund = m /\ a2.book[id].fund_frozen = k
       /\ p.order_state \in TerminalState /\ k <= m.frozen /\ Cash(m) <= MaxDValue /\ (IsNewBuy(q) \/ k = 0) =>
            a2.fund.frozen = m.frozen - k /\ a2.book[id].fund_frozen = 0
  <2>1. CASE p.order_state \notin TerminalState
    BY <1>10, <2>1
  <2>2. CASE p.order_state \in TerminalState
    BY <1>7, <1>9, <1>10, <2>2, ReleaseEffect
  <2> QED BY <2>1, <2>2
<1>12. Settled(r) = a2
  BY DEF Settled, a2, a1, a0, b, p
<1>13. \A y \in D \ {id} : a2.book[y].fund_frozen = book[y].fund_frozen
  BY <1>4, <1>5, <1>8, <1>11
<1>14. ~ settles \/ r.trade_side \notin {"Buy", "Sell"} => m = fund /\ k = h
  BY <1>5, <1>6, <1>8
<1>15. settles /\ r.trade_side = "Sell" => k = h
  BY <1>6, <1>8
<1> HIDE DEF m, k
<1>16. /\ m \in Fund /\ k \in Nat
       /\ ~ settles \/ r.trade_side \notin {"Buy", "Sell"} => m = fund /\ k = h
       /\ settles /\ r.trade_side = "Buy" =>
            /\ k = Less(h, r.dvalue_traded + r.dfee)
            /\ Cash(m) = Cash(fund) - (r.dvalue_traded + r.dfee)
            /\ m.frozen = fund.frozen - (IF h = 0 THEN 0 ELSE r.dvalue_traded + r.dfee)
            /\ m.market_value = fund.market_value + r.dvalue_traded
       /\ settles /\ r.trade_side = "Sell" =>
            /\ k = h
            /\ Cash(m) = (Cash(fund) + r.dvalue_traded) - r.dfee
            /\ m.frozen = fund.frozen
            /\ m.market_value <= fund.market_value
  BY <1>8, <1>9, <1>14, <1>15 DEF m, k
<1> QED BY <1>11, <1>12, <1>13, <1>16 DEF p, settles

-----------------------------------------------------------------------------
(* Cash.                                                                   *)

\* The weights and the cash are integers.
LEMMA CashTypes ==
  ASSUME Invariant
  PROVE  /\ responses \in Seq(TradeResponse) /\ fund \in Fund /\ Cash(fund) \in Nat
         /\ market.cash \in Int /\ lost.cash \in Int /\ latched \in BOOLEAN
         /\ \A r \in TradeResponse : CashWeight[r] \in Int /\ CashWeight[r] = CashMoved(r)
         /\ SeqSum(CashWeight, responses) \in Int
<1>1. /\ responses \in Seq(TradeResponse) /\ fund \in Fund /\ latched \in BOOLEAN
      /\ market \in [cash : Int, bought : Nat, sold : Nat]
      /\ lost \in [cash : Int, bought : Nat, sold : Nat, ids : SUBSET OrderIds]
  BY DEF Invariant, TypeOK
<1>2. Cash(fund) \in Nat
  BY <1>1, FundColumns DEF Cash
<1>3. \A r \in TradeResponse : r.dvalue_traded \in Nat /\ r.dfee \in Nat
  BY DEF TradeResponse
<1>4. \A r \in TradeResponse : CashMoved(r) \in Int
  BY <1>3 DEF CashMoved
<1>5. \A r \in TradeResponse : CashWeight[r] \in Int /\ CashWeight[r] = CashMoved(r)
  BY <1>4 DEF CashWeight
<1>6. SeqSum(CashWeight, responses) \in Int
  BY <1>1, <1>5, SeqSumInt
<1> QED BY <1>1, <1>2, <1>5, <1>6

\* CashTracked is what CashAgrees says.
LEMMA CashTrackedAgrees == Invariant /\ CashTracked => CashAgrees
<1> SUFFICES ASSUME Invariant, CashTracked PROVE CashAgrees
  OBVIOUS
<1>1. responses \in Seq(TradeResponse) /\ \A r \in TradeResponse : CashWeight[r] = CashMoved(r)
  BY CashTypes
<1>2. [i \in DOMAIN responses |-> CashMoved(responses[i])] = [i \in DOMAIN responses |-> CashWeight[responses[i]]]
  BY <1>1, ElementType
<1> QED BY <1>2 DEF CashTracked, CashAgrees, SeqSum

\* A response that reaches the queue.
LEMMA CashQueued ==
  ASSUME Invariant, CashTracked, NEW x \in TradeResponse, responses' = Append(responses, x),
         UNCHANGED <<fund, lost>>, market'.cash = market.cash + CashMoved(x)
  PROVE  CashTracked'
<1> DEFINE s == SeqSum(CashWeight, responses)
           t == SeqSum(CashWeight, responses')
           own == Cash(fund) + lost.cash
<1>1. /\ responses \in Seq(TradeResponse) /\ Cash(fund) \in Nat /\ market.cash \in Int /\ s \in Int
      /\ \A r \in TradeResponse : CashWeight[r] \in Int
      /\ CashWeight[x] = CashMoved(x) /\ CashMoved(x) \in Int /\ lost.cash \in Int
  BY CashTypes
<1>2. SeqSum(CashWeight, Append(responses, x)) = s + CashWeight[x]
  BY <1>1, SeqSumAppend
<1>3. t = s + CashMoved(x)
  BY <1>1, <1>2
<1>4. own + s = market.cash
  BY DEF CashTracked, Cash
<1>5. own \in Int
  BY <1>1
<1> HIDE DEF s, t, own
<1>6. own + t = market'.cash
  BY <1>1, <1>3, <1>4, <1>5
<1> QED BY <1>6 DEF CashTracked, Cash, t, own

\* A response that the loop takes: its cash reaches the row or is counted as missed.
LEMMA CashTaken ==
  ASSUME Invariant, CashTracked, responses # <<>>, responses' = Tail(responses), UNCHANGED market,
         Cash(fund') + lost'.cash = (Cash(fund) + lost.cash) + CashMoved(Head(responses))
  PROVE  CashTracked'
<1> DEFINE s == SeqSum(CashWeight, responses)
           t == SeqSum(CashWeight, Tail(responses))
           v == CashMoved(Head(responses))
           own == Cash(fund) + lost.cash
<1>1. /\ responses \in Seq(TradeResponse) /\ Cash(fund) \in Nat /\ market.cash \in Int /\ lost.cash \in Int
      /\ \A r \in TradeResponse : CashWeight[r] \in Int /\ CashWeight[r] = CashMoved(r)
  BY CashTypes
<1>2. Head(responses) \in TradeResponse /\ Tail(responses) \in Seq(TradeResponse)
  BY <1>1, HeadTail
<1>3. s = CashWeight[Head(responses)] + t
  BY <1>1, SeqSumTail
<1>4. s = v + t /\ v \in Int
  BY <1>1, <1>2, <1>3
<1>5. t \in Int
  BY <1>1, <1>2, SeqSumInt
<1>6. own + s = market.cash
  BY DEF CashTracked, Cash
<1>7. SeqSum(CashWeight, responses') = t
  OBVIOUS
<1>8. Cash(fund') + lost'.cash = own + v
  OBVIOUS
<1>9. own \in Int
  <2>1. \A n \in Nat : n \in Int
    OBVIOUS
  <2> QED BY <1>1, <2>1, IntSum, Zenon
<1> HIDE DEF s, t, v, own
<1>10. (own + v) + t = market.cash
  BY <1>4, <1>5, <1>6, <1>9
<1> QED BY <1>7, <1>8, <1>10 DEF CashTracked, Cash

\* A step that only moves money within the cash.
LEMMA CashKept ==
  ASSUME CashTracked, UNCHANGED <<responses, market, lost>>, Cash(fund') = Cash(fund)
  PROVE  CashTracked'
<1> QED BY DEF CashTracked, Cash

\* The response the loop is about to take.
LEMMA TakenResponse ==
  ASSUME Invariant, Tracked, HandleResponses \/ Dies, NEW r, r = Head(responses)
  PROVE  /\ responses # <<>> /\ responses' = Tail(responses) /\ UNCHANGED <<market, broker>>
         /\ r \in Range(responses) /\ r \in TradeResponse /\ r.volume_traded \in Nat
         /\ r.volume_traded > 0 =>
              /\ r.trade_side \in {"Buy", "Sell"} /\ r.internal_order_id \in DOMAIN broker
              /\ r.trade_side = broker[r.internal_order_id].side /\ Ready(r.internal_order_id)
         /\ r.internal_order_id \in DOMAIN book => book[r.internal_order_id].request.order_type = "New"
<1>1. responses # <<>> /\ responses' = Tail(responses) /\ UNCHANGED <<market, broker>>
  BY DEF HandleResponses, HandleTradeResponse, ApplyTradeResponse, IgnoreTradeResponse, Dies, DieSettling, external
<1>2. r \in Range(responses) /\ r \in TradeResponse
  BY <1>1, RangeTail, HeadTail DEF Invariant, TypeOK
<1>3. r.volume_traded \in Nat
  BY <1>2 DEF TradeResponse
<1>4. r.volume_traded > 0 =>
        /\ r.trade_side \in {"Buy", "Sell"} /\ r.internal_order_id \in DOMAIN broker
        /\ r.trade_side = broker[r.internal_order_id].side /\ Ready(r.internal_order_id)
  BY <1>2 DEF Tracked, ResponsesTracked, BrokerTracked
<1>5. r.internal_order_id \in DOMAIN book => book[r.internal_order_id].request.order_type = "New"
  BY <1>2 DEF Tracked, ResponsesTracked
<1> QED BY <1>1, <1>2, <1>3, <1>4, <1>5

\* A response without value or fee moves no cash.
LEMMA NothingPaid ==
  ASSUME NEW x, x.dvalue_traded = 0, x.dfee = 0
  PROVE  CashMoved(x) = 0
<1>1. \A n \in Int : - n = 0 - n
  OBVIOUS
<1>2. - (x.dvalue_traded + x.dfee) = 0 - (x.dvalue_traded + x.dfee)
  <2> DEFINE n == x.dvalue_traded + x.dfee
  <2>1. n \in Int
    OBVIOUS
  <2> HIDE DEF n
  <2>2. - n = 0 - n
    BY <1>1, <2>1
  <2> QED BY <2>2 DEF n
<1>3. 0 - (x.dvalue_traded + x.dfee) = 0 /\ x.dvalue_traded - x.dfee = 0
  OBVIOUS
<1> QED BY <1>2, <1>3 DEF CashMoved

\* The fund row's refusal, as the loop sees it.
LEMMA RefusalIsRefusal == \A e, r : FundRefuses(fund, e.fund_frozen, r) <=> FundRefused(e, r)
  BY DEF FundRefuses, FundRefused

\* What settle_buy_trade_fund or apply_sell_trade_fund did, and what it did not.
LEMMA PaidOrMissed ==
  ASSUME Invariant, NEW r \in TradeResponse, NEW f, NEW h,
         r.volume_traded > 0 => r.trade_side \in {"Buy", "Sell"},
         r.volume_traded = 0 => r.dvalue_traded = 0 /\ r.dfee = 0,
         LET settles == r.volume_traded > 0 /\ ~ FundRefuses(fund, h, r)
         IN /\ ~ settles => Cash(f) = Cash(fund)
            /\ settles /\ r.trade_side = "Buy" => Cash(f) = Cash(fund) - (r.dvalue_traded + r.dfee)
            /\ settles /\ r.trade_side = "Sell" => Cash(f) = (Cash(fund) + r.dvalue_traded) - r.dfee
  PROVE  Cash(f) + (lost.cash + (IF FundRefuses(fund, h, r) THEN CashMoved(r) ELSE 0))
           = (Cash(fund) + lost.cash) + CashMoved(r)
<1> DEFINE c == Cash(fund)
           d == Cash(f)
           n == lost.cash
           v == CashMoved(r)
           value == r.dvalue_traded
           fee == r.dfee
<1>1. c \in Nat /\ n \in Int /\ v \in Int /\ value \in Nat /\ fee \in Nat /\ r.volume_traded \in Nat
  BY CashTypes DEF TradeResponse
<1>2. r.volume_traded = 0 => v = 0
  BY NothingPaid
<1>3. /\ r.trade_side = "Buy" => v = - (value + fee)
      /\ r.trade_side = "Sell" => v = value - fee
  BY DEF CashMoved
<1>4. CASE FundRefuses(fund, h, r)
  <2>1. d = c
    BY <1>4
  <2> HIDE DEF c, d, n, v
  <2>2. d + (n + v) = (c + n) + v
    BY <1>1, <2>1
  <2> QED BY <1>4, <2>2 DEF c, d, n, v
<1>5. CASE ~ FundRefuses(fund, h, r)
  <2>1. d = c + v
    <3>1. CASE r.volume_traded = 0
      <4>1. d = c /\ v = 0
        BY <1>2, <3>1
      <4> HIDE DEF c, d, v
      <4> QED BY <1>1, <4>1
    <3>2. CASE r.volume_traded > 0 /\ r.trade_side = "Buy"
      <4>1. d = c - (value + fee) /\ v = - (value + fee)
        BY <1>3, <1>5, <3>2
      <4> HIDE DEF c, d, v, value, fee
      <4> QED BY <1>1, <4>1
    <3>3. CASE r.volume_traded > 0 /\ r.trade_side = "Sell"
      <4>1. d = (c + value) - fee /\ v = value - fee
        BY <1>3, <1>5, <3>3
      <4> HIDE DEF c, d, v, value, fee
      <4> QED BY <1>1, <4>1
    <3> QED BY <1>1, <3>1, <3>2, <3>3
  <2> HIDE DEF c, d, n, v
  <2>2. d + (n + 0) = (c + n) + v
    BY <1>1, <2>1
  <2> QED BY <1>5, <2>2 DEF c, d, n, v
<1> QED BY <1>4, <1>5

\* What the loop takes off the queue is paid exactly once, or missed.
LEMMA ResponseCash ==
  ASSUME Invariant, Tracked, OnlyTradesPay, CashTracked, HandleResponses \/ Dies
  PROVE  CashTracked'
<1>1. PICK r : r = Head(responses)
  OBVIOUS
<1>2. PICK id : id = r.internal_order_id
  OBVIOUS
<1>3. /\ responses # <<>> /\ responses' = Tail(responses) /\ UNCHANGED market
      /\ r \in Range(responses) /\ r \in TradeResponse /\ r.volume_traded \in Nat
      /\ r.volume_traded > 0 => r.trade_side \in {"Buy", "Sell"} /\ Ready(id)
      /\ id \in DOMAIN book => book[id].request.order_type = "New"
  BY <1>1, <1>2, TakenResponse
<1>4. Cash(fund) \in Nat /\ lost.cash \in Int /\ CashMoved(r) \in Int
  BY <1>3, CashTypes
<1>5. r.volume_traded = 0 => r.dvalue_traded = 0 /\ r.dfee = 0
  BY <1>3 DEF OnlyTradesPay
<1>6. ASSUME NEW h, lost'.cash = lost.cash + (IF FundRefuses(fund, h, r) THEN CashMoved(r) ELSE 0),
             LET settles == r.volume_traded > 0 /\ ~ FundRefuses(fund, h, r)
             IN /\ ~ settles => Cash(fund') = Cash(fund)
                /\ settles /\ r.trade_side = "Buy" => Cash(fund') = Cash(fund) - (r.dvalue_traded + r.dfee)
                /\ settles /\ r.trade_side = "Sell" => Cash(fund') = (Cash(fund) + r.dvalue_traded) - r.dfee
      PROVE  CashTracked'
  <2>1. PICK f : f = fund'
    OBVIOUS
  <2>2. Cash(f) + (lost.cash + (IF FundRefuses(fund, h, r) THEN CashMoved(r) ELSE 0))
          = (Cash(fund) + lost.cash) + CashMoved(r)
    BY <1>3, <1>5, <1>6, <2>1, PaidOrMissed
  <2>3. Cash(fund') + lost'.cash = (Cash(fund) + lost.cash) + CashMoved(r)
    BY <1>6, <2>1, <2>2
  <2> QED BY <1>1, <1>3, <2>3, CashTaken
<1>7. ASSUME UNCHANGED fund, lost'.cash = lost.cash + CashMoved(r)
      PROVE  CashTracked'
  <2>1. Cash(fund') + lost'.cash = (Cash(fund) + lost.cash) + CashMoved(r)
    BY <1>4, <1>7
  <2> QED BY <1>1, <1>3, <2>1, CashTaken
<1>8. CASE IgnoreTradeResponse
  <2>1. id \notin DOMAIN book /\ UNCHANGED <<fund, lost>>
    BY <1>1, <1>2, <1>8 DEF IgnoreTradeResponse, external
  <2>2. r.volume_traded = 0
    BY <1>3, <2>1 DEF Ready
  <2>3. CashMoved(r) = 0
    BY <1>5, <2>2, NothingPaid
  <2>4. lost'.cash = lost.cash + CashMoved(r)
    BY <1>4, <2>1, <2>3
  <2> QED BY <1>7, <2>1, <2>4
<1>9. CASE HandleTradeResponse
  <2> DEFINE h == book[id].fund_frozen
             settles == r.volume_traded > 0 /\ ~ FundRefuses(fund, h, r)
             bill == r.dvalue_traded + r.dfee
  <2>1. /\ id \in DOMAIN book /\ fund' = Settled(r).fund
        /\ lost' = Missed(r, ~ FundRefused(book[id], r), ~ PositionRefused(r))
    BY <1>1, <1>2, <1>9 DEF HandleTradeResponse, ApplyTradeResponse
  <2>2. PICK m \in Fund, k \in Nat :
          /\ ~ settles \/ r.trade_side \notin {"Buy", "Sell"} => m = fund /\ k = h
          /\ settles /\ r.trade_side = "Buy" => Cash(m) = Cash(fund) - bill
          /\ settles /\ r.trade_side = "Sell" => Cash(m) = (Cash(fund) + r.dvalue_traded) - r.dfee
          /\ Cash(Settled(r).fund) = Cash(m)
    BY <1>2, <1>3, <2>1, SettledMoney
  <2>3. Cash(fund') = Cash(m)
    BY <2>1, <2>2
  <2>4. lost'.cash = lost.cash + (IF FundRefuses(fund, h, r) THEN CashMoved(r) ELSE 0)
    <3>1. FundRefuses(fund, h, r) <=> FundRefused(book[id], r)
      BY RefusalIsRefusal
    <3>2. lost'.cash = lost.cash + (IF ~ FundRefused(book[id], r) THEN 0 ELSE CashMoved(r))
      BY <2>1 DEF Missed
    <3> QED BY <3>1, <3>2
  <2>5. /\ ~ settles => Cash(fund') = Cash(fund)
        /\ settles /\ r.trade_side = "Buy" => Cash(fund') = Cash(fund) - bill
        /\ settles /\ r.trade_side = "Sell" => Cash(fund') = (Cash(fund) + r.dvalue_traded) - r.dfee
    BY <2>2, <2>3
  <2> QED BY <1>6, <2>4, <2>5
<1>10. ASSUME NEW done, DieSettling(done) PROVE CashTracked'
  <2> DEFINE h == book[id].fund_frozen
             q == RequestAt(done, book[id].request, r)
             a == [book |-> [book EXCEPT ![id].request = q], fund |-> fund]
             paid == done \in {"paid", "moved"}
             moved == done = "moved" /\ ~ PositionRefused(r)
             m == Missed(r, paid /\ ~ FundRefused(book[id], r), moved)
             ended == done = "popped" /\ r.new_state \in TerminalState
             settles == r.volume_traded > 0 /\ ~ FundRefuses(fund, h, r)
             bill == r.dvalue_traded + r.dfee
  <2>1. /\ id \in DOMAIN book
        /\ fund' = IF paid THEN SettleTradeFund(a, r).fund ELSE fund
        /\ lost' = [m EXCEPT !.ids = IF ended THEN @ \cup {id} ELSE @]
    BY <1>1, <1>2, <1>10 DEF DieSettling
  <2>2. lost'.cash = m.cash
    BY <2>1 DEF Missed
  <2>3. m.cash = lost.cash + (IF paid /\ ~ FundRefused(book[id], r) THEN 0 ELSE CashMoved(r))
    BY DEF Missed
  <2> HIDE DEF m, ended, moved
  <2>4. CASE ~ paid
    BY <1>7, <2>1, <2>2, <2>3, <2>4
  <2>5. CASE paid
    <3>1. lost'.cash = lost.cash + (IF FundRefuses(fund, h, r) THEN CashMoved(r) ELSE 0)
      <4>1. FundRefuses(fund, h, r) <=> FundRefused(book[id], r)
        BY RefusalIsRefusal
      <4> QED BY <2>2, <2>3, <2>5, <4>1
    <3>2. book \in [DOMAIN book -> Entry] /\ fund \in Fund /\ book[id].request \in Request
      BY <2>1 DEF Invariant, TypeOK, Entry
    <3>3. q \in Request /\ q.order_type = "New"
      BY <1>1, <1>2, <1>3, <2>1, <3>2, RequestAtType, ReportedOrder
    <3> HIDE DEF q
    <3>4. /\ a.book \in [DOMAIN book -> Entry] /\ a.fund = fund
          /\ a.book[id].request = q /\ a.book[id].fund_frozen = h
      BY <2>1, <3>2, <3>3 DEF Entry
    <3>5. Account(a, DOMAIN book)
      BY <3>2, <3>4 DEF Account
    <3> HIDE DEF a
    <3>6. /\ ~ settles => SettleTradeFund(a, r) = a
          /\ settles /\ r.trade_side = "Buy" => Cash(SettleTradeFund(a, r).fund) = Cash(fund) - bill
          /\ settles /\ r.trade_side = "Sell" =>
               Cash(SettleTradeFund(a, r).fund) = (Cash(fund) + r.dvalue_traded) - r.dfee
      <4>1. a.book[id].request.order_type = "New" /\ a.fund = fund /\ a.book[id].fund_frozen = h
        BY <3>3, <3>4
      <4> HIDE DEF h
      <4> QED BY <1>2, <1>3, <2>1, <3>5, <4>1, SettleEffect
    <3>7. fund' = SettleTradeFund(a, r).fund
      BY <2>1, <2>5 DEF a
    <3>8. /\ ~ settles => Cash(fund') = Cash(fund)
          /\ settles /\ r.trade_side = "Buy" => Cash(fund') = Cash(fund) - bill
          /\ settles /\ r.trade_side = "Sell" => Cash(fund') = (Cash(fund) + r.dvalue_traded) - r.dfee
      BY <3>4, <3>6, <3>7
    <3> HIDE DEF h
    <3> QED BY <1>6, <3>1, <3>8
  <2> QED BY <2>4, <2>5
<1> QED BY <1>8, <1>9, <1>10 DEF HandleResponses, Dies

\* A report without a trade moves no cash, a trade moves what the exchange moves.
LEMMA QueueCash ==
  ASSUME Invariant, Tracked, OnlyTradesPay, CashTracked,
         GatewayRefuse \/ \E id \in DOMAIN broker : Broker(id)
  PROVE  CashTracked' /\ OnlyTradesPay'
<1>1. ASSUME NEW x \in TradeResponse, responses' = Append(responses, x), UNCHANGED <<fund, lost>>,
             market'.cash = market.cash + CashMoved(x), x.volume_traded = 0 => x.dvalue_traded = 0 /\ x.dfee = 0
      PROVE  CashTracked' /\ OnlyTradesPay'
  <2>1. CashTracked'
    BY <1>1, CashQueued
  <2>2. Range(responses)' = Range(responses) \cup {x}
    BY <1>1, CashTypes, RangeAppend
  <2> QED BY <1>1, <2>1, <2>2 DEF OnlyTradesPay
<1>2. ASSUME NEW x \in TradeResponse, responses' = Append(responses, x), UNCHANGED <<fund, lost, market>>,
             x.volume_traded = 0, x.dvalue_traded = 0, x.dfee = 0
      PROVE  CashTracked' /\ OnlyTradesPay'
  <2>1. CashMoved(x) = 0
    BY <1>2, NothingPaid
  <2>2. market'.cash = market.cash + CashMoved(x)
    BY <1>2, <2>1, CashTypes
  <2> QED BY <1>1, <1>2, <2>2
<1>3. CASE GatewayRefuse
  <2> DEFINE q == slots[Head(downstream)].request
             x == Response(q.internal_order_id, "TraderError", q.trade_side, 0, 0, 0)
  <2>1. responses' = Append(responses, x) /\ UNCHANGED <<fund, lost, market>> /\ downstream # <<>>
    BY <1>3 DEF GatewayRefuse, external, service
  <2>2. Head(downstream) \in DOMAIN slots /\ slots \in Seq(Slot)
    BY <2>1, HeadTail DEF Invariant, TypeOK
  <2>3. slots[Head(downstream)] \in Slot
    BY <2>2, ElementType
  <2>4. q \in Request
    BY <2>3 DEF Slot
  <2> HIDE DEF q
  <2>5. x \in TradeResponse /\ x.volume_traded = 0 /\ x.dvalue_traded = 0 /\ x.dfee = 0
    BY <2>4 DEF Response, TradeResponse, Request, OrderState
  <2> HIDE DEF x
  <2> QED BY <1>2, <2>1, <2>5
<1>4. ASSUME NEW id \in DOMAIN broker, Broker(id)
      PROVE  CashTracked' /\ OnlyTradesPay'
  <2>1. id \in OrderIds /\ broker[id] \in BrokerOrder
    BY DEF Invariant, TypeOK
  <2>2. /\ broker[id].side \in {"Buy", "Sell"} /\ broker[id].side \in TradeSide
        /\ broker[id].left \in Nat /\ broker[id].fee_left \in Nat
    BY <2>1 DEF BrokerOrder, Tracked, BrokerTracked
  <2>3. ASSUME NEW phase, NEW state \in OrderState, NEW next, BrokerReport(id, phase, state, next)
        PROVE  CashTracked' /\ OnlyTradesPay'
    <3> DEFINE x == Response(id, state, broker[id].side, 0, 0, 0)
    <3>1. x \in TradeResponse /\ x.volume_traded = 0 /\ x.dvalue_traded = 0 /\ x.dfee = 0
      BY <2>1, <2>2 DEF Response, TradeResponse
    <3>2. responses' = Append(responses, x) /\ UNCHANGED <<fund, lost, market>>
      BY <2>3 DEF BrokerReport, service
    <3> HIDE DEF x
    <3> QED BY <1>2, <3>1, <3>2
  <2>4. CASE BrokerAccept(id) \/ BrokerReject(id) \/ MarketReject(id) \/ BrokerFinish(id)
    <3>1. {"BrokerAccepted", "BrokerRejected", "MarketRejected", "Finished"} \subseteq OrderState
      BY DEF OrderState
    <3> QED BY <2>3, <2>4, <3>1 DEF BrokerAccept, BrokerReject, MarketReject, BrokerFinish
  <2>5. ASSUME NEW volume \in 1 .. broker[id].left, NEW price \in TradePrices,
               NEW fee \in 0 .. broker[id].fee_left, BrokerTrade(id, volume, price, fee)
        PROVE  CashTracked' /\ OnlyTradesPay'
    <3> DEFINE x == Response(id, "MarketAccepted", broker[id].side, volume, volume * price, fee)
               value == volume * price
    <3>1. volume \in Nat /\ price \in Nat /\ fee \in Nat /\ volume # 0
      BY <2>2, OrdersAssumption
    <3>2. value \in Nat
      BY <3>1, NatProduct
    <3>3. /\ responses' = Append(responses, x) /\ UNCHANGED <<fund, lost>>
          /\ market'.cash = IF broker[id].side = "Buy" THEN market.cash - (value + fee)
                            ELSE market.cash + (value - fee)
      BY <2>5 DEF BrokerTrade, service
    <3>4. /\ x.trade_side = broker[id].side /\ x.dvalue_traded = value /\ x.dfee = fee
          /\ x.volume_traded = volume
      BY DEF Response
    <3> HIDE DEF value
    <3>5. x \in TradeResponse
      BY <2>1, <2>2, <3>1, <3>2 DEF Response, TradeResponse, OrderState, value
    <3> HIDE DEF x
    <3>6. market'.cash = market.cash + CashMoved(x)
      <4>1. market.cash \in Int
        BY CashTypes
      <4>2. CASE broker[id].side = "Buy"
        <5>1. CashMoved(x) = - (value + fee)
          BY <3>4, <4>2 DEF CashMoved
        <5> QED BY <3>1, <3>2, <3>3, <4>1, <4>2, <5>1
      <4>3. CASE broker[id].side = "Sell"
        <5>1. CashMoved(x) = value - fee
          BY <3>4, <4>3 DEF CashMoved
        <5> QED BY <3>1, <3>2, <3>3, <4>1, <4>3, <5>1
      <4> QED BY <2>2, <4>2, <4>3
    <3>7. x.volume_traded = 0 => x.dvalue_traded = 0 /\ x.dfee = 0
      BY <3>1, <3>4
    <3> QED BY <1>1, <3>3, <3>5, <3>6, <3>7
  <2> QED BY <1>4, <2>4, <2>5 DEF Broker
<1> QED BY <1>3, <1>4

\* Freezing and releasing keep the cash.
LEMMA RequestCash ==
  ASSUME Invariant, CashTracked, HandleOrderRequest
  PROVE  CashTracked'
<1>1. UNCHANGED <<responses, market, lost>>
  BY DEF HandleOrderRequest, AddRefused, RiskReject, Admit, PushDownstream, StagePushed, StageStore, PublishSubmitted, Publish,
         RouteOrderRefused, RouteCancel, RouteFailed, external, service
<1>2. CASE UNCHANGED fund
  BY <1>1, <1>2, CashKept
<1>3. CASE Admit
  <2> DEFINE q == UpdateState(Incoming, "RiskControllerAccepted")
             frozen == IF IsNewBuy(q) THEN ReservedTotal(q) ELSE 0
  <2>1. fund' = FreezeFund(fund, frozen) /\ upstream # <<>>
    BY <1>3 DEF Admit, TakeUpstream
  <2>2. Incoming \in Request
    BY <2>1, IncomingFacts
  <2>3. q \in Request
    BY <2>2, UpdateStateType DEF OrderState
  <2> HIDE DEF q
  <2>4. frozen \in Nat
    BY <2>3 DEF ReservedTotal, OrderValue, Request
  <2>5. fund.available \in Nat /\ fund.frozen \in Nat
    BY CashTypes, FundColumns
  <2> HIDE DEF frozen
  <2>6. fund'.available = fund.available - frozen /\ fund'.frozen = fund.frozen + frozen
    BY <2>1 DEF FreezeFund, Row
  <2>7. Cash(fund') = Cash(fund)
    BY <2>4, <2>5, <2>6 DEF Cash
  <2> QED BY <1>1, <2>7, CashKept
<1>4. CASE RouteOrderRefused \/ RouteCancel
  <2> DEFINE a0 == [book |-> book, fund |-> fund]
  <2>1. loop.pc = "route" /\ fund' = ReleaseOrderResources(a0, loop.id).fund
    BY <1>4 DEF RouteOrderRefused, RouteCancel, RouteFailed
  <2>2. loop.id \in DOMAIN book /\ Account(a0, DOMAIN book) /\ a0.fund = fund
    BY <2>1 DEF Invariant, TypeOK, Account
  <2> HIDE DEF a0
  <2>3. Cash(fund') = Cash(fund)
    BY <2>1, <2>2, ReleaseEffect
  <2> QED BY <1>1, <2>3, CashKept
<1> QED BY <1>2, <1>3, <1>4 DEF HandleOrderRequest, AddRefused, RiskReject, PushDownstream,
                                       StagePushed, StageStore, PublishSubmitted, Publish

\* Every step keeps the account of the cash, a crash and a restart included.
LEMMA NextCash ==
  Invariant /\ Tracked /\ OnlyTradesPay /\ CashTracked /\ [Next]_vars => OnlyTradesPay' /\ CashTracked'
<1> SUFFICES ASSUME Invariant, Tracked, OnlyTradesPay, CashTracked, [Next]_vars
             PROVE  OnlyTradesPay' /\ CashTracked'
  OBVIOUS
<1>1. CASE UNCHANGED <<responses, fund, market, lost>>
  BY <1>1 DEF OnlyTradesPay, CashTracked
<1>2. CASE (\E order \in NewOrders : SubmitOrder(order)) \/ (\E orig \in CancelTargets : CancelOrder(orig))
  BY <1>1, <1>2 DEF SubmitOrder, CancelOrder, EnqueueOrder, external, service
<1>3. CASE HandleOrderRequest
  <2>1. UNCHANGED responses
    BY <1>3 DEF HandleOrderRequest, AddRefused, RiskReject, Admit, PushDownstream, StagePushed, StageStore, PublishSubmitted, Publish,
                RouteOrderRefused, RouteCancel, RouteFailed
  <2> QED BY <1>3, <2>1, RequestCash DEF OnlyTradesPay
<1>4. CASE HandleResponses \/ Dies
  <2>1. responses # <<>> /\ responses' = Tail(responses) /\ responses \in Seq(TradeResponse)
    BY <1>4, TakenResponse, CashTypes
  <2>2. Range(responses)' \subseteq Range(responses)
    BY <2>1, RangeTail
  <2> QED BY <1>4, <2>2, ResponseCash DEF OnlyTradesPay
<1>5. CASE Archive
  BY <1>1, <1>5 DEF Archive, ProcessPendingArchives, external
<1>6. CASE Halt
  BY <1>1, <1>6 DEF Halt, shm, external
<1>7. CASE Restarts
  BY <1>1, <1>7 DEF Restarts, Restart, shm
<1>8. CASE Gateway
  <2>1. CASE GatewaySubmit
    BY <1>1, <2>1 DEF GatewaySubmit, service
  <2> QED BY <1>8, <2>1, QueueCash DEF Gateway
<1>9. CASE \E id \in DOMAIN broker : Broker(id)
  BY <1>9, QueueCash
<1>10. CASE UNCHANGED vars
  BY <1>1, <1>10 DEF vars, shm, external, service
<1> QED BY <1>2, <1>3, <1>4, <1>5, <1>6, <1>7, <1>8, <1>9, <1>10 DEF Next

\* At the start of the day the account's cash is the exchange's.
LEMMA InitCash == Init => OnlyTradesPay /\ CashTracked
<1> SUFFICES ASSUME Init PROVE OnlyTradesPay /\ CashTracked
  OBVIOUS
<1>1. /\ fund = InitialFund /\ responses = <<>> /\ lost.cash = 0
      /\ market.cash = InitialFund.available + InitialFund.frozen
  BY DEF Init
<1>2. InitialFund.available \in Nat /\ InitialFund.frozen \in Nat
  BY FundColumns, AccountAssumption
<1>3. <<>> \in Seq(TradeResponse) /\ DOMAIN <<>> = {}
  OBVIOUS
<1>4. SeqSum(CashWeight, <<>>) = 0
  BY <1>3, SeqSumZero
<1>5. Range(responses) = {}
  BY <1>1, <1>3 DEF Range
<1> QED BY <1>1, <1>2, <1>4, <1>5 DEF OnlyTradesPay, CashTracked

\* The cash is tracked, whatever fees the broker takes.
LEMMA CashHolds == ASSUME RecoverableCrashes PROVE Spec => [](OnlyTradesPay /\ CashTracked)
<1> QED BY InitCash, NextCash, TrackedHolds, PTL DEF Spec

\* The account's cash, corrected by the responses still queued and by what settlements
\* refused or cut short by a crash should have moved, is the exchange's: every buy and
\* every sell is paid at most once, on the right side and with its fee, for any orders,
\* prices, fees and shorts, and across restarts wherever recovery finds the order again
\* (handle_trade_response, settle_buy_trade_fund, apply_sell_trade_fund).
THEOREM CashAlwaysAgrees ==
  ASSUME RecoverableCrashes
  PROVE  Spec => []CashAgrees
<1> QED BY CashHolds, CashTrackedAgrees, TrackedHolds, PTL

-----------------------------------------------------------------------------
(* Reservations.                                                           *)

\* Bills are natural numbers.
LEMMA BillForType ==
  ASSUME NEW id
  PROVE  \A r \in TradeResponse :
           /\ BillFor(id)[r] \in Nat /\ BillFor(id)[r] \in Int
           /\ BillFor(id)[r] = IF r.internal_order_id = id THEN r.dvalue_traded + r.dfee ELSE 0
<1>1. \A r \in TradeResponse : r.dvalue_traded \in Nat /\ r.dfee \in Nat
  BY DEF TradeResponse
<1> QED BY <1>1 DEF BillFor

\* What is unpaid covers every queued bill.
LEMMA UnpaidNat ==
  ASSUME responses \in Seq(TradeResponse), NEW id
  PROVE  /\ Unpaid(id) \in Nat
         /\ \A r \in Range(responses) : r.internal_order_id = id => r.dvalue_traded + r.dfee <= Unpaid(id)
<1>1. \A r \in TradeResponse : BillFor(id)[r] \in Nat
  BY BillForType
<1>2. Unpaid(id) \in Nat /\ \A i \in DOMAIN responses : BillFor(id)[responses[i]] <= Unpaid(id)
  BY <1>1, SeqSumNat DEF Unpaid
<1>3. ASSUME NEW r \in Range(responses), r.internal_order_id = id PROVE r.dvalue_traded + r.dfee <= Unpaid(id)
  <2>1. PICK i \in DOMAIN responses : r = responses[i]
    BY DEF Range
  <2>2. r \in TradeResponse
    BY <2>1, ElementType
  <2> QED BY <1>2, <1>3, <2>1, <2>2, BillForType
<1> QED BY <1>2, <1>3

\* Nothing is unpaid of an order that no response names.
LEMMA UnpaidZero ==
  ASSUME responses \in Seq(TradeResponse), NEW id,
         \A r \in Range(responses) : r.internal_order_id # id
  PROVE  Unpaid(id) = 0
<1>1. \A a \in DOMAIN responses : responses[a] \in TradeResponse /\ responses[a].internal_order_id # id
  BY ElementType DEF Range
<1>2. \A a \in DOMAIN responses : BillFor(id)[responses[a]] = 0
  BY <1>1, BillForType
<1> QED BY <1>2, SeqSumZero DEF Unpaid

\* A queued response adds its bill to its order's.
LEMMA UnpaidAppend ==
  ASSUME responses \in Seq(TradeResponse), NEW x \in TradeResponse, responses' = Append(responses, x), NEW id
  PROVE  Unpaid(id)' = Unpaid(id) + IF x.internal_order_id = id THEN x.dvalue_traded + x.dfee ELSE 0
<1>1. \A r \in TradeResponse : BillFor(id)[r] \in Int
  BY BillForType
<1>2. SeqSum(BillFor(id), Append(responses, x)) = SeqSum(BillFor(id), responses) + BillFor(id)[x]
  BY <1>1, SeqSumAppend
<1>3. SeqSum(BillFor(id), responses') = SeqSum(BillFor(id), Append(responses, x))
  OBVIOUS
<1>4. SeqSum(BillFor(id), responses) \in Int
  BY <1>1, SeqSumInt
<1> QED BY <1>2, <1>3, <1>4, BillForType DEF Unpaid

\* A response taken off the queue takes its bill away.
LEMMA UnpaidTail ==
  ASSUME responses \in Seq(TradeResponse), responses # <<>>, responses' = Tail(responses), NEW id
  PROVE  Unpaid(id)' = Unpaid(id) - IF Head(responses).internal_order_id = id
                                    THEN Head(responses).dvalue_traded + Head(responses).dfee ELSE 0
<1>1. \A r \in TradeResponse : BillFor(id)[r] \in Int
  BY BillForType
<1>2. SeqSum(BillFor(id), responses) = BillFor(id)[Head(responses)] + SeqSum(BillFor(id), Tail(responses))
  BY <1>1, SeqSumTail
<1>3. Head(responses) \in TradeResponse /\ Tail(responses) \in Seq(TradeResponse)
  BY HeadTail
<1>4. SeqSum(BillFor(id), Tail(responses)) \in Int
  BY <1>1, <1>3, SeqSumInt
<1>5. SeqSum(BillFor(id), responses') = SeqSum(BillFor(id), Tail(responses))
  OBVIOUS
<1> QED BY <1>1, <1>2, <1>3, <1>4, <1>5, BillForType DEF Unpaid

\* What an order holds is a natural number.
LEMMA HeldType ==
  ASSUME Invariant
  PROVE  /\ \A id \in OrderIds : Held(id) \in Nat
         /\ \A id \in DOMAIN book : id \in OrderIds /\ book[id].fund_frozen \in Nat
         /\ IsFiniteSet(OrderIds) /\ fund.frozen \in Nat /\ InitialFund.frozen \in Nat
<1>1. \A id \in DOMAIN book : id \in OrderIds /\ book[id].fund_frozen \in Nat
  BY MaxDValueAssumption DEF Invariant, TypeOK, Entry, DValue
<1>2. \A id \in OrderIds : Held(id) \in Nat
  BY <1>1 DEF Held
<1>3. MaxOrders \in Int /\ 1 \in Int
  BY BoundsAssumption
<1>4. IsFiniteSet(OrderIds)
  BY <1>3, FS_Interval DEF OrderIds
<1>5. fund \in Fund /\ InitialFund \in Fund
  BY AccountAssumption DEF Invariant, TypeOK
<1>6. fund.frozen \in Nat /\ InitialFund.frozen \in Nat
  BY <1>5, FundColumns
<1> QED BY <1>1, <1>2, <1>4, <1>6

\* The account's frozen funds are at least what one live order holds.
LEMMA HeldBound ==
  ASSUME Invariant, FrozenBacksLiveOrders, NEW id \in DOMAIN book, Live(id)
  PROVE  book[id].fund_frozen <= fund.frozen
<1> DEFINE f == [y \in OrderIds |-> Held(y)]
           s == SumFunctionOnSet(f, OrderIds)
<1>1. /\ IsFiniteSet(OrderIds) /\ \A y \in OrderIds : f[y] \in Nat
      /\ id \in OrderIds /\ InitialFund.frozen \in Nat
  BY HeldType
<1>2. f[id] <= s /\ s \in Nat
  BY <1>1, SumElement, SumNat
<1>3. DOMAIN f = OrderIds /\ fund.frozen = InitialFund.frozen + SumFunction(f)
  BY DEF FrozenBacksLiveOrders
<1>4. fund.frozen = InitialFund.frozen + s
  BY <1>3 DEF SumFunction
<1>5. f[id] = book[id].fund_frozen
  BY <1>1 DEF Held
<1> HIDE DEF f, s
<1>6. f[id] \in Nat
  BY <1>1
<1> QED BY <1>1, <1>2, <1>4, <1>5, <1>6

\* One order's holding changes and the account's frozen funds with it.
LEMMA HeldStep ==
  ASSUME Invariant, Invariant', FrozenBacksLiveOrders, NEW id \in OrderIds,
         \A y \in OrderIds \ {id} : Held(y)' = Held(y),
         fund'.frozen + Held(id) = fund.frozen + Held(id)'
  PROVE  FrozenBacksLiveOrders'
<1> DEFINE f == [y \in OrderIds |-> Held(y)]
           g == [y \in OrderIds |-> Held(y)']
           s == SumFunctionOnSet(f, OrderIds)
           t == SumFunctionOnSet(g, OrderIds)
<1>1. /\ IsFiniteSet(OrderIds) /\ \A y \in OrderIds : f[y] \in Nat
      /\ fund.frozen \in Nat /\ InitialFund.frozen \in Nat
  BY HeldType
<1>2. \A y \in OrderIds : Held(y)' \in Nat
  <2>1. \A y \in DOMAIN book' : book'[y].fund_frozen \in Nat
    BY MaxDValueAssumption DEF Invariant, TypeOK, Entry, DValue
  <2> QED BY <2>1 DEF Held
<1>3. fund'.frozen \in Nat
  BY MaxDValueAssumption DEF Invariant, TypeOK, Fund, DValue
<1>4. \A y \in OrderIds : f[y] \in Int /\ g[y] \in Int
  BY <1>1, <1>2
<1>5. \A y \in OrderIds \ {id} : g[y] = f[y]
  OBVIOUS
<1>6. DOMAIN f = OrderIds /\ DOMAIN g = OrderIds /\ f[id] = Held(id) /\ g[id] = Held(id)'
  OBVIOUS
<1>7. fund.frozen = InitialFund.frozen + SumFunction(f)
  BY DEF FrozenBacksLiveOrders
<1>8. fund.frozen = InitialFund.frozen + s
  BY <1>6, <1>7 DEF SumFunction
<1> HIDE DEF f, g
<1>9. t = (s - f[id]) + g[id]
  BY <1>1, <1>4, <1>5, SumUpdate
<1>10. s \in Nat /\ t \in Nat
  BY <1>1, <1>2, <1>4, <1>6, SumNat DEF g
<1>11. f[id] \in Nat /\ g[id] \in Nat /\ fund'.frozen + f[id] = fund.frozen + g[id]
  BY <1>1, <1>2, <1>6 DEF g
<1> HIDE DEF s, t
<1>12. fund'.frozen = InitialFund.frozen + t
  BY <1>1, <1>3, <1>8, <1>9, <1>10, <1>11
<1>13. fund'.frozen = InitialFund.frozen + SumFunction(g)
  BY <1>6, <1>12 DEF SumFunction, t
<1> QED BY <1>13 DEF FrozenBacksLiveOrders, g

\* No order's holding changes.
LEMMA HeldSame ==
  ASSUME FrozenBacksLiveOrders, fund'.frozen = fund.frozen, \A y \in OrderIds : Held(y)' = Held(y)
  PROVE  FrozenBacksLiveOrders'
<1>1. [y \in OrderIds |-> Held(y)'] = [y \in OrderIds |-> Held(y)]
  OBVIOUS
<1> QED BY <1>1 DEF FrozenBacksLiveOrders

\* An order that no money moves for, and whose broker's side stays.
LEMMA ReservedKept ==
  ASSUME NEW id \in DOMAIN book, ReservedAt(id), id \in DOMAIN book',
         book'[id].fund_frozen = book[id].fund_frozen,
         book'[id].request.order_type = book[id].request.order_type,
         book'[id].request.trade_side = book[id].request.trade_side,
         ReservedTotal(book'[id].request) = ReservedTotal(book[id].request),
         Live(id)' <=> Live(id),
         id \in DOMAIN broker' <=> id \in DOMAIN broker,
         id \in DOMAIN broker => broker'[id].left = broker[id].left /\ broker'[id].price = broker[id].price
                                 /\ broker'[id].fee_left = broker[id].fee_left /\ broker'[id].side = broker[id].side,
         Unpaid(id)' = Unpaid(id)
  PROVE  ReservedAt(id)'
<1>1. IsNewBuy(book'[id].request) <=> IsNewBuy(book[id].request)
  BY DEF IsNewBuy
<1>2. Exposure(id)' = Exposure(id)
  BY DEF Exposure
<1> QED BY <1>1, <1>2 DEF ReservedAt

\* The sold shares that are settled are part of those the exchange has sold.
LEMMA SettledSales ==
  ASSUME Invariant, HoldingsTracked
  PROVE  /\ SharesSold \in Int /\ market.sold \in Nat /\ SharesSold <= market.sold
         /\ SharesSold + SeqSum(SideVolume("Sell"), responses) = market.sold
<1>1. /\ position.available_t0 \in Nat /\ market.sold \in Nat /\ lost.sold \in Nat /\ InitialHolding \in Nat
      /\ SeqSum(SideVolume("Sell"), responses) \in Nat
  BY HoldingsTypes
<1>2. SharesSold \in Int
  BY <1>1 DEF SharesSold
<1>3. SharesSold + SeqSum(SideVolume("Sell"), responses) = market.sold
  BY DEF SharesSold, HoldingsTracked
<1> QED BY <1>1, <1>2, <1>3

\* The account stays within the range of a DValue.
LEMMA WorthInRange ==
  ASSUME NEW P \in Nat, AmpleFor(P), market.sold \in Nat, NEW f \in Fund, NEW n \in Int, n <= market.sold,
         Worth(f) <= Worth(InitialFund) + P * n
  PROVE  Worth(f) <= MaxDValue /\ Cash(f) <= MaxDValue
<1> DEFINE bound == P * market.sold
           sold == P * n
<1>1. Worth(InitialFund) \in Nat /\ MaxDValue \in Nat
  BY AccountAssumption, MaxDValueAssumption, FundColumns DEF Worth
<1>2. PICK d \in Nat : d = market.sold - n
  OBVIOUS
<1>3. P * d \in Nat
  BY NatProduct
<1>4. P * (n + d) = P * n + P * d
  OBVIOUS
<1>5. n + d = market.sold
  BY <1>2
<1>6. bound \in Nat /\ sold \in Int
  BY NatProduct
<1>7. sold <= bound
  BY <1>3, <1>4, <1>5, <1>6
<1>8. Worth(InitialFund) + bound <= MaxDValue
  BY DEF AmpleFor
<1>9. f.market_value \in Nat /\ Cash(f) \in Nat /\ Worth(f) = Cash(f) + f.market_value
  BY FundColumns DEF Cash, Worth
<1>10. Worth(f) <= Worth(InitialFund) + sold
  OBVIOUS
<1> HIDE DEF bound, sold
<1> QED BY <1>1, <1>6, <1>7, <1>8, <1>9, <1>10

\* So does the fund row.
LEMMA FundInRange ==
  ASSUME Invariant, HoldingsTracked, NEW P \in Nat, AmpleFor(P), FundsTracked(P)
  PROVE  fund \in Fund /\ Worth(fund) <= MaxDValue /\ Cash(fund) <= MaxDValue
<1>1. fund \in Fund
  BY CashTypes
<1>2. PICK n : n = SharesSold
  OBVIOUS
<1>3. n \in Int /\ n <= market.sold /\ market.sold \in Nat
  BY <1>2, SettledSales
<1>4. Worth(fund) <= Worth(InitialFund) + P * n
  BY <1>2 DEF FundsTracked, WorthBounded
<1> QED BY <1>1, <1>3, <1>4, WorthInRange

\* The parts of FundsTracked that only the responses and the fund row decide.
LEMMA WorthKept ==
  ASSUME NEW P \in Nat, FundsTracked(P), UNCHANGED <<responses, position, lost>>, Worth(fund') = Worth(fund)
  PROVE  Priced(P)' /\ WorthBounded(P)'
<1> QED BY DEF FundsTracked, Priced, WorthBounded, SharesSold

\* An order joins the book: refused, or with all it can cost reserved.
LEMMA AddedFunds ==
  ASSUME Invariant, Invariant', OneCarrier, NEW P \in Nat, FundsTracked(P),
         upstream # <<>>, NEW id, id = slots[Head(upstream)].request.internal_order_id, id \notin DOMAIN book,
         NEW e, book' = Put(book, id, e), UNCHANGED <<responses, position, lost, broker>>,
         fund'.frozen = fund.frozen + e.fund_frozen, Worth(fund') = Worth(fund),
         e.fund_frozen = IF IsNewBuy(e.request) /\ e.request.order_state \notin TerminalState
                         THEN ReservedTotal(e.request) ELSE 0
  PROVE  FundsTracked(P)'
<1>1. upstream \in Seq(DOMAIN slots)
  BY DEF Invariant, TypeOK
<1>2. Head(upstream) \in Range(upstream)
  BY <1>1, RangeTail
<1>3. id \in IdsOf(slots, upstream)
  BY <1>2, IdsOfRange
<1>4. id \notin DOMAIN broker
  BY <1>3 DEF OneCarrier
<1>5. DOMAIN book' = DOMAIN book \cup {id} /\ book'[id] = e /\ \A y \in DOMAIN book : book'[y] = book[y]
  BY DEF Put
<1>6. id \in OrderIds /\ e.fund_frozen \in Nat
  <2>1. DOMAIN book' \subseteq OrderIds /\ book' \in [DOMAIN book' -> Entry] /\ id \in DOMAIN book'
    BY <1>5 DEF Invariant, TypeOK
  <2>2. e \in Entry
    BY <1>5, <2>1
  <2> QED BY <2>1, <2>2, MaxDValueAssumption DEF Entry, DValue
<1>7. \A y : Unpaid(y)' = Unpaid(y)
  BY DEF Unpaid
<1>8. Reserved'
  <2>1. ASSUME NEW y \in DOMAIN book PROVE ReservedAt(y)'
    <3>1. Live(y)' <=> Live(y)
      BY <1>5 DEF Live
    <3>2. ReservedAt(y)
      BY DEF FundsTracked, Reserved
    <3> QED BY <1>5, <1>7, <3>1, <3>2, ReservedKept
  <2>2. ReservedAt(id)'
    <3>1. Exposure(id)' = ReservedTotal(e.request)
      BY <1>4, <1>5 DEF Exposure
    <3>2. Live(id)' <=> e.request.order_state \notin TerminalState
      BY <1>5 DEF Live
    <3>3. IsNewBuy(e.request) /\ Live(id)' => ReservedTotal(e.request) \in Nat
      BY <1>6, <3>2
    <3> QED BY <1>4, <1>5, <3>1, <3>2, <3>3 DEF ReservedAt
  <2> QED BY <1>5, <2>1, <2>2 DEF Reserved
<1>9. FrozenBacksLiveOrders'
  <2>1. \A y \in OrderIds \ {id} : Held(y)' = Held(y)
    BY <1>5 DEF Held, Live
  <2>2. Held(id) = 0 /\ Held(id)' = e.fund_frozen
    BY <1>5 DEF Held, Live
  <2>3. fund'.frozen + Held(id) = fund.frozen + Held(id)'
    BY <1>6, <2>2, HeldType
  <2> QED BY <1>6, <2>1, <2>3, HeldStep DEF FundsTracked
<1> QED BY <1>8, <1>9, WorthKept DEF FundsTracked

\* An order of the book changes its state: it stays alive with what it holds, or it
\* ends and gives all of it back.
LEMMA ChangedFunds ==
  ASSUME Invariant, Invariant', NEW P \in Nat, FundsTracked(P), NEW id \in DOMAIN book, Live(id),
         DOMAIN book' = DOMAIN book, \A y \in DOMAIN book \ {id} : book'[y] = book[y],
         book'[id].request.order_type = book[id].request.order_type,
         book'[id].request.trade_side = book[id].request.trade_side,
         ReservedTotal(book'[id].request) = ReservedTotal(book[id].request),
         \/ /\ Live(id)'
            /\ fund'.frozen = fund.frozen /\ book'[id].fund_frozen = book[id].fund_frozen
         \/ /\ ~ Live(id)'
            /\ fund'.frozen = fund.frozen - book[id].fund_frozen /\ book'[id].fund_frozen = 0,
         UNCHANGED <<responses, position, lost, broker>>, Worth(fund') = Worth(fund)
  PROVE  FundsTracked(P)'
<1>1. \A y : Unpaid(y)' = Unpaid(y)
  BY DEF Unpaid
<1>2. \A y \in DOMAIN book : ReservedAt(y)
  BY DEF FundsTracked, Reserved
<1>3. id \in OrderIds /\ book[id].fund_frozen \in Nat /\ fund.frozen \in Nat
  BY HeldType
<1>4. Reserved'
  <2>1. ASSUME NEW y \in DOMAIN book \ {id} PROVE ReservedAt(y)'
    <3>1. Live(y)' <=> Live(y)
      BY DEF Live
    <3> QED BY <1>1, <1>2, <3>1, ReservedKept
  <2>2. ReservedAt(id)'
    <3>1. CASE Live(id)'
      BY <1>1, <1>2, <3>1, ReservedKept
    <3>2. CASE ~ Live(id)'
      BY <1>2, <3>2 DEF ReservedAt
    <3> QED BY <3>1, <3>2
  <2> QED BY <2>1, <2>2 DEF Reserved
<1>5. FrozenBacksLiveOrders'
  <2>1. \A y \in OrderIds \ {id} : Held(y)' = Held(y)
    BY DEF Held, Live
  <2>2. Held(id) = book[id].fund_frozen
    BY DEF Held
  <2>3. CASE Live(id)'
    <3>1. Held(id)' = book[id].fund_frozen /\ fund'.frozen = fund.frozen
      BY <2>3 DEF Held
    <3>2. fund'.frozen + Held(id) = fund.frozen + Held(id)'
      BY <2>2, <3>1
    <3> QED BY <1>3, <2>1, <3>2, HeldStep DEF FundsTracked
  <2>4. CASE ~ Live(id)'
    <3>1. Held(id)' = 0 /\ fund'.frozen = fund.frozen - book[id].fund_frozen
      BY <2>4 DEF Held
    <3>2. fund'.frozen + Held(id) = fund.frozen + Held(id)'
      BY <1>3, <2>2, <3>1
    <3> QED BY <1>3, <2>1, <3>2, HeldStep DEF FundsTracked
  <2> QED BY <2>3, <2>4
<1> QED BY <1>4, <1>5, WorthKept DEF FundsTracked

\* Ended orders leave the book.
LEMMA ArchivedFunds ==
  ASSUME Invariant, NEW P \in Nat, FundsTracked(P), DOMAIN book' \subseteq DOMAIN book,
         \A y \in DOMAIN book' : book'[y] = book[y], \A y \in DOMAIN book \ DOMAIN book' : ~ Live(y),
         UNCHANGED <<responses, position, lost, broker, fund>>
  PROVE  FundsTracked(P)'
<1>1. \A y : Unpaid(y)' = Unpaid(y)
  BY DEF Unpaid
<1>2. Reserved'
  <2>1. ASSUME NEW y \in DOMAIN book' PROVE ReservedAt(y)'
    <3>1. Live(y)' <=> Live(y)
      BY DEF Live
    <3>2. ReservedAt(y) /\ y \in DOMAIN book
      BY DEF FundsTracked, Reserved
    <3> QED BY <1>1, <3>1, <3>2, ReservedKept
  <2> QED BY <2>1 DEF Reserved
<1>3. \A y \in OrderIds : Held(y)' = Held(y)
  BY DEF Held, Live
<1>4. FrozenBacksLiveOrders'
  BY <1>3, HeldSame DEF FundsTracked
<1> QED BY <1>2, <1>4, WorthKept DEF FundsTracked

\* handle_order_request reserves what an order can cost, and returns it when the
\* order cannot be routed.
LEMMA RequestFunds ==
  ASSUME Invariant, Invariant', OneCarrier, Tracked, HoldingsTracked, NEW P \in Nat, AmpleFor(P), FundsTracked(P),
         HandleOrderRequest
  PROVE  FundsTracked(P)'
<1>1. UNCHANGED <<responses, position, lost, broker>>
  BY DEF HandleOrderRequest, AddRefused, RiskReject, Admit, PushDownstream, StagePushed, StageStore,
         PublishSubmitted, Publish,
         RouteOrderRefused, RouteCancel, RouteFailed, external
<1>2. CASE UNCHANGED <<book, fund>>
  BY <1>1, <1>2, ArchivedFunds
<1>3. CASE RiskReject
  <2> DEFINE q == UpdateState(Incoming, "RiskControllerRejected")
             e == [request |-> q, fund_frozen |-> 0, index |-> Head(upstream)]
  <2>1. /\ upstream # <<>> /\ book' = Put(book, q.internal_order_id, e) /\ UNCHANGED fund
        /\ Incoming.internal_order_id \notin DOMAIN book
    BY <1>3 DEF RiskReject, TakeUpstream, BookHasRoom
  <2>2. Incoming \in Request /\ Incoming.internal_order_id = slots[Head(upstream)].request.internal_order_id
    BY <2>1, IncomingFacts
  <2>3. q.internal_order_id = Incoming.internal_order_id /\ q.order_state \in TerminalState
    BY <2>2, UpdateStateType DEF OrderState, TerminalState
  <2>4. e.fund_frozen = 0 /\ e.request = q
    OBVIOUS
  <2>5. fund.frozen \in Nat
    BY HeldType
  <2> HIDE DEF e, q
  <2>6. PICK id : id = slots[Head(upstream)].request.internal_order_id
    OBVIOUS
  <2>7. fund'.frozen = fund.frozen + e.fund_frozen /\ Worth(fund') = Worth(fund)
    BY <2>1, <2>4, <2>5
  <2> QED BY <1>1, <2>1, <2>2, <2>3, <2>4, <2>6, <2>7, AddedFunds
<1>4. CASE Admit
  <2> DEFINE q == UpdateState(Incoming, "RiskControllerAccepted")
             frozen == IF IsNewBuy(q) THEN ReservedTotal(q) ELSE 0
             e == [request |-> q, fund_frozen |-> frozen, index |-> Head(upstream)]
  <2>1. /\ upstream # <<>> /\ book' = Put(book, q.internal_order_id, e)
        /\ fund' = FreezeFund(fund, frozen) /\ Incoming.internal_order_id \notin DOMAIN book
    BY <1>4 DEF Admit, TakeUpstream, BookHasRoom
  <2>2. Incoming \in Request /\ Incoming.internal_order_id = slots[Head(upstream)].request.internal_order_id
    BY <2>1, IncomingFacts
  <2>3. /\ q.internal_order_id = Incoming.internal_order_id /\ q.order_state \notin TerminalState
        /\ q \in Request
    BY <2>2, UpdateStateType DEF OrderState, TerminalState
  <2> HIDE DEF q
  <2>4. frozen \in Nat
    BY <2>3 DEF ReservedTotal, OrderValue, Request
  <2>5. e.fund_frozen = frozen /\ e.request = q
    OBVIOUS
  <2>6. frozen = IF IsNewBuy(q) /\ q.order_state \notin TerminalState THEN ReservedTotal(q) ELSE 0
    BY <2>3
  <2> HIDE DEF frozen, e
  <2>7. fund.frozen \in Nat /\ fund.available \in Nat /\ fund.market_value \in Nat
    BY CashTypes, FundColumns
  <2>8. /\ fund'.available = fund.available - frozen /\ fund'.frozen = fund.frozen + frozen
        /\ fund'.market_value = fund.market_value
    BY <2>1 DEF FreezeFund, Row
  <2>9. Worth(fund') = Worth(fund)
    BY <2>4, <2>7, <2>8 DEF Worth
  <2>10. PICK id : id = slots[Head(upstream)].request.internal_order_id
    OBVIOUS
  <2> QED BY <1>1, <2>1, <2>2, <2>3, <2>5, <2>6, <2>8, <2>9, <2>10, AddedFunds
<1>5. CASE PublishSubmitted
  <2>1. PICK id : id = loop.id
    OBVIOUS
  <2> DEFINE q == UpdateState(book[id].request, "TraderSubmitted")
  <2>2. /\ loop.pc = "staged" /\ book' = [book EXCEPT ![id].request = q] /\ UNCHANGED fund
    BY <1>5, <2>1 DEF PublishSubmitted, Publish
  <2>3. id \in DOMAIN book /\ Live(id) /\ book[id].request \in Request /\ book[id] \in Entry
    BY <2>1, <2>2 DEF Invariant, TypeOK, Tracked, PoolTracked, Live, Entry
  <2>4. /\ q.order_type = book[id].request.order_type /\ q.trade_side = book[id].request.trade_side
        /\ ReservedTotal(q) = ReservedTotal(book[id].request) /\ q.order_state \notin TerminalState
    BY <2>3 DEF UpdateState, Request, ReservedTotal, OrderValue, TerminalState
  <2> HIDE DEF q
  <2>5. /\ DOMAIN book' = DOMAIN book /\ \A y \in DOMAIN book \ {id} : book'[y] = book[y]
        /\ book'[id].request = q /\ book'[id].fund_frozen = book[id].fund_frozen
    BY <2>2, <2>3 DEF Entry
  <2>6. Live(id)'
    BY <2>4, <2>5 DEF Live
  <2> QED BY <1>1, <2>2, <2>3, <2>4, <2>5, <2>6, ChangedFunds
<1>6. CASE RouteOrderRefused \/ RouteCancel
  <2>1. PICK id : id = loop.id
    OBVIOUS
  <2> DEFINE a0 == [book |-> book, fund |-> fund]
             a == ReleaseOrderResources(a0, id)
             q == UpdateState(a.book[id].request, "TraderError")
             h == book[id].fund_frozen
  <2>2. loop.pc = "route" /\ fund' = a.fund /\ book' = [a.book EXCEPT ![id].request = q]
    BY <1>6, <2>1 DEF RouteOrderRefused, RouteCancel, RouteFailed
  <2>3. /\ id \in DOMAIN book /\ Live(id) /\ book[id].request \in Request
        /\ Account(a0, DOMAIN book) /\ a0.fund = fund /\ a0.book = book
    BY <2>1, <2>2 DEF Invariant, TypeOK, Tracked, PoolTracked, Live, Entry, Account
  <2> HIDE DEF a0
  <2>4. h <= fund.frozen
    BY <2>3, HeldBound DEF FundsTracked
  <2>5. IsNewBuy(book[id].request) \/ h = 0
    BY <2>3 DEF FundsTracked, Reserved, ReservedAt
  <2>6. Cash(fund) <= MaxDValue
    BY FundInRange
  <2>7. Account(a, DOMAIN book) /\ SameOrders(a, a0, DOMAIN book)
    BY <2>3, ReleaseOrderResourcesSafe
  <2>8. /\ Cash(a.fund) = Cash(fund) /\ a.fund.market_value = fund.market_value
        /\ \A y \in DOMAIN book \ {id} : a.book[y] = book[y]
        /\ a.fund.frozen = fund.frozen - h /\ a.book[id].fund_frozen = 0
    BY <2>3, <2>4, <2>5, <2>6, ReleaseEffect
  <2> HIDE DEF a
  <2>9. a.book[id].request = book[id].request /\ a.book \in [DOMAIN book -> Entry]
    BY <2>3, <2>7 DEF SameOrders, Account
  <2>10. /\ q.order_type = book[id].request.order_type /\ q.trade_side = book[id].request.trade_side
         /\ ReservedTotal(q) = ReservedTotal(book[id].request) /\ q.order_state \in TerminalState
    BY <2>3, <2>9 DEF UpdateState, Request, ReservedTotal, OrderValue, TerminalState
  <2> HIDE DEF q
  <2>11. /\ DOMAIN book' = DOMAIN book /\ \A y \in DOMAIN book \ {id} : book'[y] = book[y]
         /\ book'[id].request = q /\ book'[id].fund_frozen = 0
    BY <2>2, <2>3, <2>8, <2>9 DEF Entry
  <2>12. ~ Live(id)'
    BY <2>10, <2>11 DEF Live
  <2>13. Worth(fund') = Worth(fund)
    BY <2>2, <2>8 DEF Worth, Cash
  <2>14. fund'.frozen = fund.frozen - h
    BY <2>2, <2>8
  <2> QED BY <1>1, <2>3, <2>10, <2>11, <2>12, <2>13, <2>14, ChangedFunds
<1> QED BY <1>2, <1>3, <1>4, <1>5, <1>6 DEF HandleOrderRequest, AddRefused, PushDownstream, StagePushed, StageStore, service

\* An order leaves for the broker with exactly what was reserved for it.
LEMMA SubmitFunds ==
  ASSUME Invariant, OneCarrier, Tracked, NEW P \in Nat, AmpleFor(P), FundsTracked(P), GatewaySubmit
  PROVE  FundsTracked(P)'
<1>1. PICK i : i = Head(downstream)
  OBVIOUS
<1> DEFINE q == slots[i].request
           o == [phase |-> "received", side |-> q.trade_side, price |-> q.dprice_entrust,
                 left |-> q.volume_entrust, fee_left |-> q.dfee_estimate + FeeOverrun]
<1>2. PICK id : id = q.internal_order_id
  OBVIOUS
<1>3. /\ downstream # <<>> /\ downstream' = Tail(downstream)
      /\ slots' = [slots EXCEPT ![Head(downstream)].stage = "DownstreamDequeued"]
      /\ broker' = Put(broker, id, o)
      /\ UNCHANGED <<next_order_id, upstream, responses, fund, position, lost, book, pending, loop>>
  BY <1>1, <1>2 DEF GatewaySubmit, service
<1>4. Ready(id) /\ book[id].index = i /\ id \in Travelling
  BY <1>1, <1>2, <1>3, OutgoingTracked
<1>5. id \in DOMAIN book /\ id \notin DOMAIN broker
  <2>1. id \in IdsOf(slots, downstream)
    <3>1. downstream \in Seq(DOMAIN slots)
      BY DEF Invariant, TypeOK
    <3>2. Head(downstream) \in Range(downstream)
      BY <1>3, <3>1, RangeTail
    <3> QED BY <1>1, <1>2, <3>2, IdsOfRange
  <2> QED BY <1>4, <2>1 DEF Ready, OneCarrier
<1>6. /\ q \in Request /\ q.trade_side = book[id].request.trade_side
      /\ q.volume_entrust = book[id].request.volume_entrust
      /\ q.dprice_entrust = book[id].request.dprice_entrust
      /\ q.dfee_estimate = book[id].request.dfee_estimate
  BY <1>4, <1>5, MirrorFields
<1>7. /\ o.side = q.trade_side /\ o.price = q.dprice_entrust /\ o.left = q.volume_entrust
      /\ o.fee_left = q.dfee_estimate
  BY <1>6 DEF AmpleFor, Request
<1> HIDE DEF o, q
<1>8. DOMAIN broker' = DOMAIN broker \cup {id} /\ broker'[id] = o /\ \A y \in DOMAIN broker : broker'[y] = broker[y]
  BY <1>3, <1>5 DEF Put
<1>9. \A y : Unpaid(y)' = Unpaid(y) /\ (Live(y)' <=> Live(y))
  BY <1>3 DEF Unpaid, Live
<1>10. Unpaid(id) = 0
  <2>1. responses \in Seq(TradeResponse)
    BY DEF Invariant, TypeOK
  <2>2. \A r \in Range(responses) : r.internal_order_id # id
    BY <1>4 DEF Tracked, ResponsesTracked
  <2> QED BY <2>1, <2>2, UnpaidZero
<1>11. \A y \in DOMAIN book : ReservedAt(y)
  BY DEF FundsTracked, Reserved
<1>12. ASSUME NEW y \in DOMAIN book \ {id} PROVE ReservedAt(y)'
  BY <1>3, <1>8, <1>9, <1>11, ReservedKept
<1>13. ReservedAt(id)'
  <2>1. Exposure(id) = ReservedTotal(book[id].request)
    BY <1>5 DEF Exposure
  <2>2. Exposure(id)' = (q.volume_entrust * q.dprice_entrust + q.dfee_estimate) + 0
    BY <1>7, <1>8, <1>9, <1>10 DEF Exposure
  <2>3. ReservedTotal(book[id].request) = q.volume_entrust * q.dprice_entrust + q.dfee_estimate
    BY <1>6 DEF ReservedTotal, OrderValue
  <2>4. q.volume_entrust * q.dprice_entrust \in Nat /\ q.dfee_estimate \in Nat
    BY <1>6, NatProduct DEF Request
  <2>5. Exposure(id)' = Exposure(id)
    BY <2>1, <2>2, <2>3, <2>4
  <2> QED BY <1>3, <1>5, <1>6, <1>7, <1>8, <1>9, <1>11, <2>5 DEF ReservedAt
<1>14. Reserved'
  BY <1>3, <1>12, <1>13 DEF Reserved
<1>15. FrozenBacksLiveOrders'
  <2>1. \A y \in OrderIds : Held(y)' = Held(y)
    BY <1>3, <1>9 DEF Held
  <2> QED BY <1>3, <2>1, HeldSame DEF FundsTracked
<1> QED BY <1>3, <1>14, <1>15, WorthKept DEF FundsTracked

\* A response reaches the queue and no order can cost more than before.
LEMMA QueuedFunds ==
  ASSUME Invariant, NEW P \in Nat, FundsTracked(P), NEW x \in TradeResponse, responses' = Append(responses, x),
         x.dvalue_traded <= P * x.volume_traded, UNCHANGED <<book, fund, position, lost>>,
         DOMAIN broker' = DOMAIN broker, NEW id, id = x.internal_order_id,
         \A y \in DOMAIN broker \ {id} : broker'[y] = broker[y],
         id \in DOMAIN broker => broker'[id].side = broker[id].side,
         id \in DOMAIN book => Exposure(id)' <= Exposure(id) /\ Exposure(id) \in Nat /\ Exposure(id)' \in Nat
  PROVE  FundsTracked(P)'
<1>1. responses \in Seq(TradeResponse)
  BY DEF Invariant, TypeOK
<1>2. Priced(P)'
  <2>1. Range(responses)' = Range(responses) \cup {x}
    BY <1>1, RangeAppend
  <2> QED BY <2>1 DEF FundsTracked, Priced
<1>3. WorthBounded(P)'
  BY DEF FundsTracked, WorthBounded, SharesSold
<1>4. \A y : Live(y)' <=> Live(y)
  BY DEF Live
<1>5. FrozenBacksLiveOrders'
  <2>1. \A y \in OrderIds : Held(y)' = Held(y)
    BY <1>4 DEF Held
  <2> QED BY <2>1, HeldSame DEF FundsTracked
<1>6. \A y \in DOMAIN book : ReservedAt(y)
  BY DEF FundsTracked, Reserved
<1>7. ASSUME NEW y \in DOMAIN book \ {id} PROVE ReservedAt(y)'
  <2>1. Unpaid(y)' = Unpaid(y) + 0
    BY <1>1, UnpaidAppend
  <2>2. Unpaid(y)' = Unpaid(y)
    BY <1>1, <2>1, UnpaidNat
  <2> QED BY <1>4, <1>6, <2>2, ReservedKept
<1>8. ASSUME id \in DOMAIN book PROVE ReservedAt(id)'
  <2>1. book[id].fund_frozen \in Nat
    BY <1>8, HeldType
  <2>2. Exposure(id)' <= Exposure(id) /\ Exposure(id) \in Nat /\ Exposure(id)' \in Nat /\ ReservedAt(id)
    BY <1>6, <1>8
  <2>3. Exposure(id) <= book[id].fund_frozen => Exposure(id)' <= book[id].fund_frozen
    BY <2>1, <2>2
  <2> QED BY <1>4, <2>2, <2>3 DEF ReservedAt
<1>9. Reserved'
  BY <1>7, <1>8 DEF Reserved
<1> QED BY <1>2, <1>3, <1>5, <1>9 DEF FundsTracked

\* What an order can still cost is a natural number.
LEMMA ExposureType ==
  ASSUME Invariant, NEW id \in DOMAIN book
  PROVE  Exposure(id) \in Nat
<1>1. Unpaid(id) \in Nat
  BY UnpaidNat DEF Invariant, TypeOK
<1>2. CASE id \in DOMAIN broker
  <2>1. broker[id] \in BrokerOrder
    BY <1>2 DEF Invariant, TypeOK
  <2>2. broker[id].left * broker[id].price \in Nat /\ broker[id].fee_left \in Nat
    BY <2>1, NatProduct DEF BrokerOrder
  <2> QED BY <1>1, <1>2, <2>2 DEF Exposure
<1>3. CASE id \notin DOMAIN broker
  <2>1. book[id].request \in Request
    BY DEF Invariant, TypeOK, Entry
  <2>2. book[id].request.volume_entrust * book[id].request.dprice_entrust \in Nat /\ book[id].request.dfee_estimate \in Nat
    BY <2>1, NatProduct DEF Request
  <2> QED BY <1>3, <2>2 DEF Exposure, ReservedTotal, OrderValue
<1> QED BY <1>2, <1>3

\* A report without a trade leaves what its order can cost.
LEMMA ReportFunds ==
  ASSUME Invariant, NEW P \in Nat, FundsTracked(P), NEW x \in TradeResponse, responses' = Append(responses, x),
         x.volume_traded = 0, x.dvalue_traded = 0, x.dfee = 0, UNCHANGED <<book, fund, position, lost>>,
         DOMAIN broker' = DOMAIN broker, NEW id, id = x.internal_order_id,
         \A y \in DOMAIN broker : broker'[y].left = broker[y].left /\ broker'[y].price = broker[y].price
                                  /\ broker'[y].fee_left = broker[y].fee_left /\ broker'[y].side = broker[y].side,
         \A y \in DOMAIN broker \ {id} : broker'[y] = broker[y]
  PROVE  FundsTracked(P)'
<1>1. responses \in Seq(TradeResponse)
  BY DEF Invariant, TypeOK
<1>2. Unpaid(id)' = Unpaid(id)
  <2>1. Unpaid(id)' = Unpaid(id) + (x.dvalue_traded + x.dfee)
    BY <1>1, UnpaidAppend
  <2> QED BY <1>1, <2>1, UnpaidNat
<1>3. Exposure(id)' = Exposure(id)
  BY <1>2 DEF Exposure
<1>4. id \in DOMAIN book => Exposure(id)' <= Exposure(id) /\ Exposure(id) \in Nat /\ Exposure(id)' \in Nat
  BY <1>3, ExposureType
<1>5. x.dvalue_traded <= P * x.volume_traded
  OBVIOUS
<1> QED BY <1>4, <1>5, QueuedFunds

\* Part of an order is bought at no more than its limit.
LEMMA TradeCost ==
  ASSUME NEW left \in Nat, NEW volume \in Nat, volume <= left, NEW price \in Nat, NEW limit \in Nat, price <= limit
  PROVE  /\ (left - volume) * limit + volume * price <= left * limit
         /\ (left - volume) * limit \in Nat /\ volume * price \in Nat /\ left * limit \in Nat
<1>1. (left - volume) * limit = left * limit - volume * limit
  OBVIOUS
<1>2. volume * (limit - price) \in Nat
  BY NatProduct
<1>3. volume * (limit - price) = volume * limit - volume * price
  OBVIOUS
<1>4. left - volume \in Nat
  OBVIOUS
<1>5. (left - volume) * limit \in Nat /\ volume * price \in Nat /\ left * limit \in Nat /\ volume * limit \in Nat
  BY <1>4, NatProduct
<1> QED BY <1>1, <1>2, <1>3, <1>5

\* A trade costs no more than its part of what was reserved.
LEMMA TradeFunds ==
  ASSUME Invariant, Tracked, NEW P \in Nat, AmpleFor(P), FundsTracked(P), NEW id \in DOMAIN broker,
         NEW volume \in 1 .. broker[id].left, NEW price \in TradePrices,
         NEW fee \in 0 .. broker[id].fee_left, BrokerTrade(id, volume, price, fee)
  PROVE  FundsTracked(P)'
<1> DEFINE x == Response(id, "MarketAccepted", broker[id].side, volume, volume * price, fee)
           o == broker[id]
           value == volume * price
<1>1. id \in OrderIds /\ o \in BrokerOrder
  BY DEF Invariant, TypeOK
<1>2. /\ o.side \in {"Buy", "Sell"} /\ o.side \in TradeSide
      /\ o.left \in Nat /\ o.fee_left \in Nat /\ o.price \in Nat
  BY <1>1 DEF BrokerOrder, Tracked, BrokerTracked
<1>3. volume \in Nat /\ price \in Nat /\ fee \in Nat /\ volume # 0 /\ volume <= o.left /\ fee <= o.fee_left
  BY <1>2, OrdersAssumption
<1>4. value \in Nat
  BY <1>3, NatProduct
<1>5. /\ responses' = Append(responses, x) /\ UNCHANGED <<book, fund, position, lost>>
      /\ broker' = [broker EXCEPT ![id] = [phase |-> "working", side |-> o.side, price |-> o.price,
                                           left |-> o.left - volume, fee_left |-> o.fee_left - fee]]
      /\ o.side = "Buy" => price <= o.price
  BY DEF BrokerTrade, service
<1>6. /\ DOMAIN broker' = DOMAIN broker /\ \A y \in DOMAIN broker \ {id} : broker'[y] = broker[y]
      /\ broker'[id].side = o.side /\ broker'[id].price = o.price
      /\ broker'[id].left = o.left - volume /\ broker'[id].fee_left = o.fee_left - fee
  BY <1>5
<1>7. x.internal_order_id = id /\ x.volume_traded = volume /\ x.dvalue_traded = value /\ x.dfee = fee
  BY DEF Response
<1>8. x \in TradeResponse
  BY <1>1, <1>2, <1>3, <1>4 DEF Response, TradeResponse, OrderState
<1>9. value <= P * volume
  <2>1. price <= P
    BY DEF AmpleFor
  <2>2. volume * (P - price) \in Nat /\ volume * (P - price) = volume * P - volume * price
    BY <1>3, <2>1, NatProduct
  <2>3. volume * P \in Nat /\ volume * P = P * volume
    BY <1>3, NatProduct
  <2> QED BY <1>4, <2>2, <2>3
<1>10. responses \in Seq(TradeResponse)
  BY DEF Invariant, TypeOK
<1> HIDE DEF x
<1>11. Unpaid(id)' = Unpaid(id) + (value + fee)
  BY <1>5, <1>7, <1>8, <1>10, UnpaidAppend
<1>12. Unpaid(id) \in Nat
  BY <1>10, UnpaidNat
<1> DEFINE before == o.left * o.price
           after == (o.left - volume) * o.price
<1>13. before \in Nat /\ after \in Nat
  <2>1. o.left - volume \in Nat
    BY <1>2, <1>3
  <2> QED BY <1>2, <2>1, NatProduct
<1>14. /\ Exposure(id) = (before + o.fee_left) + Unpaid(id)
       /\ Exposure(id)' = (after + (o.fee_left - fee)) + (Unpaid(id) + (value + fee))
  BY <1>6, <1>11 DEF Exposure
<1>15. o.side = "Buy" => after + value <= before
  BY <1>2, <1>3, <1>5, TradeCost
<1> HIDE DEF before, after, o, value
<1>16. Exposure(id) \in Nat /\ Exposure(id)' \in Nat
  BY <1>2, <1>3, <1>4, <1>12, <1>13, <1>14
<1>17. CASE o.side = "Buy"
  <2>1. Exposure(id)' <= Exposure(id)
    BY <1>2, <1>3, <1>4, <1>12, <1>13, <1>14, <1>15, <1>17
  <2> QED BY <1>5, <1>6, <1>7, <1>8, <1>9, <1>16, <2>1, QueuedFunds DEF o
<1>18. CASE o.side = "Sell"
  <2>1. Priced(P)'
    <3>1. Range(responses)' = Range(responses) \cup {x}
      BY <1>5, <1>10, RangeAppend
    <3> QED BY <1>7, <1>9, <3>1 DEF FundsTracked, Priced
  <2>2. WorthBounded(P)'
    BY <1>5 DEF FundsTracked, WorthBounded, SharesSold
  <2>3. \A y : Live(y)' <=> Live(y)
    BY <1>5 DEF Live
  <2>4. FrozenBacksLiveOrders'
    <3>1. \A y \in OrderIds : Held(y)' = Held(y)
      BY <1>5, <2>3 DEF Held
    <3> QED BY <1>5, <3>1, HeldSame DEF FundsTracked
  <2>5. \A y \in DOMAIN book : ReservedAt(y)
    BY DEF FundsTracked, Reserved
  <2>6. ASSUME NEW y \in DOMAIN book \ {id} PROVE ReservedAt(y)'
    <3>1. Unpaid(y)' = Unpaid(y) + 0
      BY <1>5, <1>7, <1>8, <1>10, UnpaidAppend
    <3>2. Unpaid(y)' = Unpaid(y)
      BY <1>10, <3>1, UnpaidNat
    <3> QED BY <1>5, <1>6, <2>3, <2>5, <3>2, ReservedKept
  <2>7. ASSUME id \in DOMAIN book PROVE ReservedAt(id)'
    <3>1. ReservedAt(id)
      BY <2>5, <2>7
    <3>2. book[id].request.trade_side = "Sell"
      BY <1>18, <3>1 DEF ReservedAt, o
    <3> QED BY <1>5, <1>6, <1>18, <3>1, <3>2 DEF ReservedAt, IsNewBuy
  <2>8. Reserved'
    BY <1>5, <2>6, <2>7 DEF Reserved
  <2> QED BY <2>1, <2>2, <2>4, <2>8 DEF FundsTracked
<1> QED BY <1>2, <1>17, <1>18

\* What the gateway and the broker queue.
LEMMA QueueFunds ==
  ASSUME Invariant, Tracked, NEW P \in Nat, AmpleFor(P), FundsTracked(P),
         GatewayRefuse \/ \E id \in DOMAIN broker : Broker(id)
  PROVE  FundsTracked(P)'
<1>1. CASE GatewayRefuse
  <2> DEFINE q == slots[Head(downstream)].request
             x == Response(q.internal_order_id, "TraderError", q.trade_side, 0, 0, 0)
  <2>1. responses' = Append(responses, x) /\ UNCHANGED <<book, fund, position, lost, broker>> /\ downstream # <<>>
    BY <1>1 DEF GatewayRefuse, external, service
  <2>2. Head(downstream) \in DOMAIN slots /\ slots \in Seq(Slot)
    BY <2>1, HeadTail DEF Invariant, TypeOK
  <2>3. slots[Head(downstream)] \in Slot
    BY <2>2, ElementType
  <2>4. q \in Request
    BY <2>3 DEF Slot
  <2> HIDE DEF q
  <2>5. x \in TradeResponse /\ x.volume_traded = 0 /\ x.dvalue_traded = 0 /\ x.dfee = 0
    BY <2>4 DEF Response, TradeResponse, Request, OrderState
  <2> HIDE DEF x
  <2>6. PICK id : id = x.internal_order_id
    OBVIOUS
  <2> QED BY <2>1, <2>5, <2>6, ReportFunds
<1>2. ASSUME NEW id \in DOMAIN broker, Broker(id)
      PROVE  FundsTracked(P)'
  <2>1. id \in OrderIds /\ broker[id] \in BrokerOrder
    BY DEF Invariant, TypeOK
  <2>2. broker[id].side \in TradeSide
    BY <2>1 DEF BrokerOrder
  <2>3. ASSUME NEW phase, NEW state \in OrderState, NEW next, BrokerReport(id, phase, state, next)
        PROVE  FundsTracked(P)'
    <3> DEFINE x == Response(id, state, broker[id].side, 0, 0, 0)
    <3>1. /\ x \in TradeResponse /\ x.volume_traded = 0 /\ x.dvalue_traded = 0 /\ x.dfee = 0
          /\ x.internal_order_id = id
      BY <2>1, <2>2 DEF Response, TradeResponse
    <3>2. /\ responses' = Append(responses, x) /\ UNCHANGED <<book, fund, position, lost>>
          /\ broker' = [broker EXCEPT ![id].phase = next]
      BY <2>3 DEF BrokerReport, service
    <3>3. broker \in [DOMAIN broker -> BrokerOrder]
      BY DEF Invariant, TypeOK
    <3>4. /\ DOMAIN broker' = DOMAIN broker /\ \A y \in DOMAIN broker \ {id} : broker'[y] = broker[y]
          /\ \A y \in DOMAIN broker :
               broker'[y].left = broker[y].left /\ broker'[y].price = broker[y].price
               /\ broker'[y].fee_left = broker[y].fee_left /\ broker'[y].side = broker[y].side
      BY <3>2, <3>3 DEF BrokerOrder
    <3> HIDE DEF x
    <3> QED BY <3>1, <3>2, <3>4, ReportFunds
  <2>4. CASE BrokerAccept(id) \/ BrokerReject(id) \/ MarketReject(id) \/ BrokerFinish(id)
    <3>1. {"BrokerAccepted", "BrokerRejected", "MarketRejected", "Finished"} \subseteq OrderState
      BY DEF OrderState
    <3> QED BY <2>3, <2>4, <3>1 DEF BrokerAccept, BrokerReject, MarketReject, BrokerFinish
  <2> QED BY <1>2, <2>4, TradeFunds DEF Broker
<1> QED BY <1>1, <1>2

\* A sale is counted among the settled ones, and only a sale of more shares than the
\* account held is refused.
LEMMA SoldShares ==
  ASSUME Invariant, Tracked, HoldingsTracked, HandleTradeResponse, NEW r, r = Head(responses)
  PROVE  LET sells == r.volume_traded > 0 /\ r.trade_side = "Sell"
         IN /\ SharesSold' \in Int /\ SharesSold' <= market.sold
            /\ SharesSold' = IF sells THEN SharesSold + r.volume_traded ELSE SharesSold
            /\ sells /\ PositionRefused(r) => market.sold > InitialHolding
<1> DEFINE sells == r.volume_traded > 0 /\ r.trade_side = "Sell"
           v == VolumeMoved(r, "Sell")
           rest == SeqSum(SideVolume("Sell"), Tail(responses))
<1>1. /\ responses # <<>> /\ r \in TradeResponse /\ r.volume_traded \in Nat
      /\ r.volume_traded > 0 => r.trade_side \in {"Buy", "Sell"}
      /\ r.internal_order_id \in DOMAIN book
      /\ book[r.internal_order_id].request.order_type = "New"
  BY TakenResponse DEF HandleResponses, HandleTradeResponse, ApplyTradeResponse
<1>2. /\ position' = SettlePosition(position, "New", r)
      /\ lost' = Missed(r, ~ FundRefused(book[r.internal_order_id], r), ~ PositionRefused(r))
  BY <1>1 DEF HandleTradeResponse, ApplyTradeResponse
<1>3. lost'.sold = lost.sold + (IF PositionRefused(r) THEN v ELSE 0)
  BY <1>2 DEF Missed
<1>4. SharesSold' = SharesSold + v
  <2>1. (InitialHolding - SettlePosition(position, "New", r).available_t0)
            + (lost.sold + (IF PositionRefused(r) THEN v ELSE 0))
          = ((InitialHolding - position.available_t0) + lost.sold) + v
    BY <1>1, SharesMoved
  <2> HIDE DEF v
  <2> QED BY <1>2, <1>3, <2>1 DEF SharesSold
<1>5. v = (IF sells THEN r.volume_traded ELSE 0) /\ v \in Nat
  BY <1>1 DEF VolumeMoved
<1>6. /\ SharesSold \in Int /\ market.sold \in Nat
      /\ SharesSold + SeqSum(SideVolume("Sell"), responses) = market.sold
  BY SettledSales
<1>7. responses \in Seq(TradeResponse) /\ Tail(responses) \in Seq(TradeResponse)
  BY <1>1, HeadTail DEF Invariant, TypeOK
<1>8. \A x \in TradeResponse : SideVolume("Sell")[x] \in Int /\ SideVolume("Sell")[x] \in Nat
  BY SideVolumeType
<1>9. SeqSum(SideVolume("Sell"), responses) = SideVolume("Sell")[r] + rest /\ rest \in Nat
  BY <1>1, <1>7, <1>8, SeqSumTail, SeqSumNat
<1>10. SideVolume("Sell")[r] = v
  BY <1>1 DEF SideVolume
<1> HIDE DEF rest, v
<1>11. SharesSold + (v + rest) = market.sold
  BY <1>6, <1>9, <1>10
<1>12. SharesSold' \in Int /\ SharesSold' <= market.sold
  BY <1>4, <1>5, <1>6, <1>9, <1>11
<1>13. SharesSold' = IF sells THEN SharesSold + r.volume_traded ELSE SharesSold
  BY <1>4, <1>5, <1>6
<1>14. ASSUME sells, PositionRefused(r) PROVE market.sold > InitialHolding
  <2>1. /\ position.available_t0 \in Nat /\ lost.sold \in Nat /\ InitialHolding \in Nat /\ position.sell = 0
    BY HoldingsTypes DEF HoldingsTracked
  <2>2. position.available_t0 < r.volume_traded
    BY <1>1, <1>14, <2>1 DEF PositionRefused, Less
  <2>3. SharesSold + r.volume_traded <= market.sold
    BY <1>12, <1>13, <1>14
  <2>4. ((InitialHolding - position.available_t0) + lost.sold) + r.volume_traded <= market.sold
    BY <2>3 DEF SharesSold
  <2> QED BY <1>1, <1>6, <2>1, <2>2, <2>4
<1> QED BY <1>12, <1>13, <1>14

\* A buy is covered by what its order holds.
LEMMA BuyCovered ==
  ASSUME Invariant, Tracked, HoldingsTracked, NEW P \in Nat, AmpleFor(P), FundsTracked(P),
         NEW r, r \in Range(responses), NEW id \in DOMAIN book, id = r.internal_order_id,
         r.volume_traded > 0, r.trade_side = "Buy"
  PROVE  /\ IsNewBuy(book[id].request) /\ Live(id)
         /\ r.dvalue_traded + r.dfee <= book[id].fund_frozen
         /\ book[id].fund_frozen <= fund.frozen
         /\ ~ FundRefuses(fund, book[id].fund_frozen, r)
<1> DEFINE h == book[id].fund_frozen
           bill == r.dvalue_traded + r.dfee
<1>1. responses \in Seq(TradeResponse)
  BY DEF Invariant, TypeOK
<1>2. r \in TradeResponse
  BY <1>1, RangeType
<1>3. id \in DOMAIN broker /\ Ready(id) /\ broker[id].side = "Buy"
  BY DEF Tracked, ResponsesTracked
<1>4. ReservedAt(id)
  BY DEF FundsTracked, Reserved
<1>5. IsNewBuy(book[id].request) /\ Live(id)
  BY <1>3, <1>4 DEF ReservedAt, IsNewBuy, Ready
<1>6. bill <= Unpaid(id) /\ Unpaid(id) \in Nat
  BY <1>1, UnpaidNat
<1>7. r.dvalue_traded \in Nat /\ r.dfee \in Nat /\ h \in Nat
  BY <1>2, HeldType DEF TradeResponse
<1>8. bill <= h
  <2>1. broker[id] \in BrokerOrder
    BY <1>3 DEF Invariant, TypeOK
  <2> DEFINE rest == broker[id].left * broker[id].price + broker[id].fee_left
  <2>2. rest \in Nat
    BY <2>1, NatProduct DEF BrokerOrder
  <2>3. rest + Unpaid(id) <= h
    BY <1>3, <1>4, <1>5 DEF ReservedAt, Exposure
  <2> HIDE DEF rest, h
  <2>4. bill \in Nat
    BY <1>7
  <2> HIDE DEF bill
  <2> QED BY <1>6, <1>7, <2>2, <2>3, <2>4
<1>9. h <= fund.frozen
  BY <1>5, HeldBound DEF FundsTracked
<1>10. fund \in Fund
  BY CashTypes
<1>11. Worth(fund) <= MaxDValue
  BY FundInRange
<1>12. /\ fund.available \in Nat /\ fund.frozen \in Nat /\ fund.market_value \in Nat
       /\ fund.frozen <= MaxDValue /\ fund.market_value <= MaxDValue /\ MaxDValue \in Nat
  BY <1>10, FundColumns, MaxDValueAssumption
<1>13. (fund.available + fund.frozen) + fund.market_value <= MaxDValue
  BY <1>11 DEF Worth
<1> HIDE DEF h
<1>14. h = 0 => CanApplyBuyTradeFund(fund, r.dvalue_traded, r.dfee)
  BY <1>7, <1>8, <1>12, <1>13 DEF CanApplyBuyTradeFund
<1>15. CanDeductFund(fund, r.dvalue_traded, r.dfee)
  BY <1>7, <1>8, <1>9, <1>12, <1>13 DEF CanDeductFund
<1>16. ~ FundRefuses(fund, h, r)
  BY <1>14, <1>15 DEF FundRefuses
<1> QED BY <1>5, <1>8, <1>9, <1>16 DEF h

\* The money of one response: h is what its order held, k what it holds between the
\* settlement and the release.
LEMMA ResponseFunds ==
  ASSUME Invariant, Invariant', Tracked, HoldingsTracked, OnlyTradesPay,
         NEW P \in Nat, AmpleFor(P), FundsTracked(P), HandleTradeResponse,
         NEW r, r = Head(responses), NEW id, id = r.internal_order_id
  PROVE  LET h == book[id].fund_frozen
             g == Settled(r).book[id].fund_frozen
             p == Reported(book[id].request, r)
             k == IF r.volume_traded > 0 /\ r.trade_side = "Buy" THEN h - (r.dvalue_traded + r.dfee) ELSE h
         IN /\ id \in DOMAIN book /\ h \in Nat /\ k \in Nat
            /\ g = IF p.order_state \in TerminalState THEN 0 ELSE k
            /\ fund'.frozen + h = fund.frozen + g
            /\ WorthBounded(P)'
            /\ \A y \in DOMAIN book \ {id} : Settled(r).book[y].fund_frozen = book[y].fund_frozen
<1> DEFINE h == book[id].fund_frozen
           a == Settled(r)
           g == a.book[id].fund_frozen
           q == book[id].request
           p == Reported(q, r)
           bill == r.dvalue_traded + r.dfee
           settles == r.volume_traded > 0 /\ ~ FundRefuses(fund, h, r)
           buys == r.volume_traded > 0 /\ r.trade_side = "Buy"
           sells == r.volume_traded > 0 /\ r.trade_side = "Sell"
           n == SharesSold
           n1 == SharesSold'
<1>1. id \in DOMAIN book /\ fund' = a.fund
  BY DEF HandleTradeResponse, ApplyTradeResponse
<1>2. /\ responses # <<>> /\ r \in Range(responses) /\ r \in TradeResponse /\ r.volume_traded \in Nat
      /\ q.order_type = "New"
      /\ r.volume_traded > 0 => r.trade_side \in {"Buy", "Sell"} /\ id \in DOMAIN broker
                                /\ r.trade_side = broker[id].side /\ Ready(id)
  BY <1>1, TakenResponse DEF HandleResponses
<1>3. /\ h \in Nat /\ r.dvalue_traded \in Nat /\ r.dfee \in Nat /\ bill \in Nat
      /\ fund \in Fund /\ fund.frozen \in Nat /\ fund.market_value \in Nat /\ Cash(fund) \in Nat
  <2>1. fund \in Fund /\ Cash(fund) \in Nat
    BY CashTypes
  <2>2. fund.frozen \in Nat /\ fund.market_value \in Nat
    BY <2>1, FundColumns
  <2>3. h \in Nat
    BY <1>1, HeldType
  <2>4. r.dvalue_traded \in Nat /\ r.dfee \in Nat
    BY <1>2 DEF TradeResponse
  <2> QED BY <2>1, <2>2, <2>3, <2>4
<1>4. PICK m \in Fund, k \in Nat :
        /\ ~ settles \/ r.trade_side \notin {"Buy", "Sell"} => m = fund /\ k = h
        /\ settles /\ r.trade_side = "Buy" =>
             /\ k = Less(h, bill)
             /\ Cash(m) = Cash(fund) - bill
             /\ m.frozen = fund.frozen - (IF h = 0 THEN 0 ELSE bill)
             /\ m.market_value = fund.market_value + r.dvalue_traded
        /\ settles /\ r.trade_side = "Sell" =>
             /\ k = h
             /\ Cash(m) = (Cash(fund) + r.dvalue_traded) - r.dfee
             /\ m.frozen = fund.frozen
             /\ m.market_value <= fund.market_value
        /\ Cash(a.fund) = Cash(m) /\ a.fund.market_value = m.market_value
        /\ p.order_state \notin TerminalState => a.fund = m /\ g = k
        /\ p.order_state \in TerminalState /\ k <= m.frozen /\ Cash(m) <= MaxDValue
           /\ (IsNewBuy(q) \/ k = 0) =>
             a.fund.frozen = m.frozen - k /\ g = 0
  BY <1>1, <1>2, SettledMoney
<1>5. \A y \in DOMAIN book \ {id} : a.book[y].fund_frozen = book[y].fund_frozen
  BY <1>1, <1>2, SettledMoney
<1>6. /\ n \in Int /\ n1 \in Int /\ n1 = (IF sells THEN n + r.volume_traded ELSE n)
      /\ n1 <= market.sold /\ market.sold \in Nat
  BY SoldShares, SettledSales
<1>7. ReservedAt(id)
  BY <1>1 DEF FundsTracked, Reserved
<1>8. h <= fund.frozen
  <2>1. CASE Live(id)
    BY <1>1, <2>1, HeldBound DEF FundsTracked
  <2>2. CASE ~ Live(id)
    BY <1>3, <1>7, <2>2 DEF ReservedAt
  <2> QED BY <2>1, <2>2
<1>9. Worth(fund) <= Worth(InitialFund) + P * n
  BY DEF FundsTracked, WorthBounded
<1>10. buys => IsNewBuy(q) /\ bill <= h /\ settles
  BY <1>1, <1>2, BuyCovered
<1>11. sells => h = 0 /\ ~ IsNewBuy(q)
  BY <1>2, <1>7 DEF ReservedAt, IsNewBuy
<1>12. Worth(fund) = Cash(fund) + fund.market_value /\ Worth(m) = Cash(m) + m.market_value /\ Worth(a.fund) = Worth(m)
  BY <1>4 DEF Worth, Cash
<1>13. m.frozen \in Nat /\ m.market_value \in Nat /\ Cash(m) \in Nat
  BY FundColumns DEF Cash
<1>14. Worth(InitialFund) \in Nat
  BY AccountAssumption, FundColumns DEF Worth
<1> HIDE DEF h, a, g, q, p, bill, n, n1
\* The settlement.
<1>15. /\ k = IF buys THEN h - bill ELSE h
       /\ m.frozen = IF buys THEN fund.frozen - bill ELSE fund.frozen
       /\ IF sells THEN Worth(m) <= Worth(fund) + r.dvalue_traded ELSE Worth(m) <= Worth(fund)
  <2>1. CASE buys
    <3>1. settles /\ bill <= h /\ ~ sells
      BY <1>10, <2>1
    <3>2. k = h - bill
      BY <1>3, <1>4, <2>1, <3>1 DEF Less
    <3>3. m.frozen = fund.frozen - bill
      BY <1>3, <1>4, <2>1, <3>1
    <3>4. Cash(m) = Cash(fund) - bill /\ m.market_value = fund.market_value + r.dvalue_traded
      BY <1>4, <2>1, <3>1
    <3>5. bill = r.dvalue_traded + r.dfee
      BY DEF bill
    <3>6. Worth(m) <= Worth(fund)
      BY <1>3, <1>12, <1>13, <3>4, <3>5
    <3> QED BY <2>1, <3>1, <3>2, <3>3, <3>6
  <2>2. CASE sells /\ settles
    <3>1. k = h /\ m.frozen = fund.frozen /\ ~ buys
      BY <1>4, <2>2
    <3>2. Worth(m) <= Worth(fund) + r.dvalue_traded
      BY <1>3, <1>4, <1>12, <1>13, <2>2
    <3> QED BY <2>2, <3>1, <3>2
  <2>3. CASE ~ buys /\ ~ (sells /\ settles)
    <3>1. m = fund /\ k = h
      BY <1>2, <1>4, <2>3
    <3>2. Worth(m) <= Worth(fund) /\ Worth(m) <= Worth(fund) + r.dvalue_traded
      BY <1>3, <1>12, <3>1
    <3> QED BY <2>3, <3>1, <3>2
  <2> QED BY <2>1, <2>2, <2>3
<1>16. k <= m.frozen
  BY <1>3, <1>8, <1>10, <1>15
<1>17. Worth(m) <= Worth(InitialFund) + P * n1
  <2> DEFINE sold == P * n
  <2>1. sold \in Int
    BY <1>6
  <2>2. CASE sells
    <3>1. r.dvalue_traded <= P * r.volume_traded
      BY <1>2 DEF FundsTracked, Priced
    <3>2. n1 = n + r.volume_traded
      BY <1>6, <2>2
    <3>3. P * (n + r.volume_traded) = P * n + P * r.volume_traded
      BY <1>2, <1>6
    <3>4. P * r.volume_traded \in Nat
      BY <1>2, NatProduct
    <3>5. P * n1 = sold + P * r.volume_traded
      BY <3>2, <3>3
    <3>6. Worth(m) <= Worth(fund) + r.dvalue_traded /\ Worth(fund) <= Worth(InitialFund) + sold
      BY <1>9, <1>15, <2>2
    <3>7. Worth(m) \in Nat /\ Worth(fund) \in Nat
      BY <1>3, <1>12, <1>13
    <3> DEFINE extra == P * r.volume_traded
    <3> HIDE DEF sold, extra
    <3>8. extra \in Nat /\ r.dvalue_traded <= extra /\ P * n1 = sold + extra
      BY <3>1, <3>4, <3>5 DEF extra
    <3>9. Worth(m) <= Worth(InitialFund) + (sold + extra)
      BY <1>3, <1>14, <2>1, <3>6, <3>7, <3>8
    <3> QED BY <3>8, <3>9
  <2>3. CASE ~ sells
    <3>1. n1 = n /\ Worth(m) <= Worth(fund) /\ Worth(fund) <= Worth(InitialFund) + sold
      BY <1>6, <1>9, <1>15, <2>3
    <3>2. Worth(m) \in Nat /\ Worth(fund) \in Nat
      BY <1>3, <1>12, <1>13
    <3> HIDE DEF sold
    <3>3. Worth(m) <= Worth(InitialFund) + sold
      BY <1>14, <2>1, <3>1, <3>2
    <3> QED BY <3>1, <3>3 DEF sold
  <2> QED BY <2>2, <2>3
<1>18. Cash(m) <= MaxDValue
  BY <1>6, <1>17, WorthInRange
<1>19. IsNewBuy(q) \/ k = 0
  <2>1. ~ IsNewBuy(q) => h = 0 /\ ~ buys
    BY <1>7, <1>10 DEF ReservedAt, h, q
  <2> QED BY <1>15, <2>1
<1>20. g = (IF p.order_state \in TerminalState THEN 0 ELSE k) /\ a.fund.frozen + h = fund.frozen + g
  <2>1. CASE p.order_state \in TerminalState
    <3>1. a.fund.frozen = m.frozen - k /\ g = 0
      BY <1>4, <1>16, <1>18, <1>19, <2>1
    <3>2. CASE buys
      BY <1>3, <1>10, <1>13, <1>15, <1>16, <2>1, <3>1, <3>2
    <3>3. CASE ~ buys
      BY <1>3, <1>13, <1>15, <1>16, <2>1, <3>1, <3>3
    <3> QED BY <3>2, <3>3
  <2>2. CASE p.order_state \notin TerminalState
    <3>1. a.fund = m /\ g = k
      BY <1>4, <2>2
    <3>2. CASE buys
      BY <1>3, <1>10, <1>13, <1>15, <1>16, <2>2, <3>1, <3>2
    <3>3. CASE ~ buys
      BY <1>3, <1>13, <1>15, <1>16, <2>2, <3>1, <3>3
    <3> QED BY <3>2, <3>3
  <2> QED BY <2>1, <2>2
<1>21. WorthBounded(P)'
  <2>1. Worth(fund') = Worth(m)
    BY <1>1, <1>12
  <2> QED BY <1>17, <2>1 DEF WorthBounded, n1
<1> QED BY <1>1, <1>3, <1>5, <1>15, <1>20, <1>21 DEF h, a, g, p, q, bill

\* handle_trade_response keeps the account of the money.
LEMMA HandledFunds ==
  ASSUME Invariant, Invariant', Tracked, HoldingsTracked, OnlyTradesPay,
         NEW P \in Nat, AmpleFor(P), FundsTracked(P), HandleTradeResponse
  PROVE  FundsTracked(P)'
<1>1. PICK r : r = Head(responses)
  OBVIOUS
<1>2. PICK id : id = r.internal_order_id
  OBVIOUS
<1> DEFINE h == book[id].fund_frozen
           g == Settled(r).book[id].fund_frozen
           q == book[id].request
           p == Reported(q, r)
           bill == r.dvalue_traded + r.dfee
           k == IF r.volume_traded > 0 /\ r.trade_side = "Buy" THEN h - bill ELSE h
<1>3. /\ id \in DOMAIN book /\ h \in Nat /\ k \in Nat
      /\ g = IF p.order_state \in TerminalState THEN 0 ELSE k
      /\ fund'.frozen + h = fund.frozen + g
      /\ WorthBounded(P)'
      /\ \A y \in DOMAIN book \ {id} : Settled(r).book[y].fund_frozen = book[y].fund_frozen
  BY <1>1, <1>2, ResponseFunds
<1>4. /\ responses # <<>> /\ responses' = Tail(responses) /\ UNCHANGED broker
      /\ DOMAIN book' = IF r.new_state \in TerminalState /\ ArchiveMode = "now" THEN DOMAIN book \ {id}
                        ELSE DOMAIN book
      /\ \A y \in DOMAIN book' \ {id} : book'[y].request = book[y].request
      /\ id \in DOMAIN book' => book'[id].request = p
  BY <1>1, <1>2, ResponseEffect
<1>5. /\ r \in TradeResponse /\ r \in Range(responses) /\ p.order_type = "New"
      /\ p.order_state \notin TerminalState => Live(id)
      /\ r.new_state \in TerminalState => p.order_state \in TerminalState
  <2>1. p = RequestAt("counted", q, r)
    BY DEF RequestAt
  <2> HIDE DEF p
  <2> QED BY <1>1, <1>2, <1>3, <1>4, <2>1, ReportedOrder
<1>6. \A y \in DOMAIN book' : book'[y].fund_frozen = Settled(r).book[y].fund_frozen
  <2>1. book' = IF r.new_state \in TerminalState /\ ArchiveMode = "now"
                THEN Restrict(Settled(r).book, DOMAIN book \ {id}) ELSE Settled(r).book
    BY <1>1, <1>2 DEF HandleTradeResponse, ApplyTradeResponse
  <2> QED BY <2>1 DEF Restrict
<1>7. responses \in Seq(TradeResponse) /\ q \in Request
  BY <1>3 DEF Invariant, TypeOK, Entry
<1>8. /\ p.trade_side = q.trade_side /\ q.order_type = "New"
      /\ ReservedTotal(p) = ReservedTotal(q)
  <2>1. /\ p.order_type = q.order_type /\ p.trade_side = q.trade_side
        /\ p.volume_entrust = q.volume_entrust /\ p.dprice_entrust = q.dprice_entrust
        /\ p.dfee_estimate = q.dfee_estimate
    BY <1>5, <1>7, ReportedFacts
  <2> HIDE DEF p, q
  <2> QED BY <1>5, <2>1 DEF ReservedTotal, OrderValue
<1>9. r.dvalue_traded \in Nat /\ r.dfee \in Nat /\ r.volume_traded \in Nat
  BY <1>5 DEF TradeResponse
<1>10. \A y \in DOMAIN book : ReservedAt(y)
  BY DEF FundsTracked, Reserved
<1> HIDE DEF p, q, g, h, k
<1>11. ASSUME NEW y \in DOMAIN book' \ {id} PROVE ReservedAt(y)'
  <2>1. Unpaid(y)' = Unpaid(y) - 0
    BY <1>1, <1>2, <1>4, <1>7, UnpaidTail
  <2>2. Unpaid(y)' = Unpaid(y)
    BY <1>7, <2>1, UnpaidNat
  <2>3. y \in DOMAIN book
    BY <1>4
  <2>4. Live(y)' <=> Live(y)
    BY <1>4 DEF Live
  <2>5. book'[y].fund_frozen = book[y].fund_frozen /\ book'[y].request = book[y].request
    BY <1>3, <1>4, <1>6, <2>3
  <2> QED BY <1>4, <1>10, <2>2, <2>3, <2>4, <2>5, ReservedKept
<1>12. ASSUME id \in DOMAIN book' PROVE ReservedAt(id)'
  <2>1. /\ book'[id].request = p /\ book'[id].fund_frozen = g /\ ReservedAt(id)
        /\ (IsNewBuy(p) <=> IsNewBuy(q)) /\ (Live(id)' <=> p.order_state \notin TerminalState)
    BY <1>3, <1>4, <1>5, <1>6, <1>8, <1>10, <1>12 DEF IsNewBuy, Live, g
  <2>2. id \in DOMAIN broker' => broker'[id].side = book'[id].request.trade_side
    BY <1>4, <1>8, <2>1 DEF ReservedAt, q
  <2>3. CASE ~ Live(id)'
    BY <1>3, <2>1, <2>2, <2>3 DEF ReservedAt
  <2>4. CASE Live(id)' /\ ~ IsNewBuy(p)
    <3>1. h = 0
      BY <2>1, <2>4 DEF ReservedAt, h, q
    <3>2. g = k
      BY <1>3, <2>1, <2>4
    <3>3. k = 0
      <4>1. CASE r.volume_traded > 0 /\ r.trade_side = "Buy"
        <5>1. k = 0 - bill /\ k \in Nat /\ bill \in Nat
          BY <1>3, <1>9, <3>1, <4>1 DEF k
        <5> HIDE DEF bill
        <5> QED BY <5>1
      <4>2. CASE ~ (r.volume_traded > 0 /\ r.trade_side = "Buy")
        BY <3>1, <4>2 DEF k
      <4> QED BY <4>1, <4>2
    <3> QED BY <2>1, <2>2, <2>4, <3>2, <3>3 DEF ReservedAt
  <2>5. CASE Live(id)' /\ IsNewBuy(p)
    <3>1. g = k /\ Live(id)
      BY <1>3, <1>5, <2>1, <2>5
    <3>2. Exposure(id) <= h
      BY <2>1, <2>5, <3>1 DEF ReservedAt, h, q
    <3>3. Unpaid(id)' = Unpaid(id) - bill
      BY <1>1, <1>2, <1>4, <1>7, UnpaidTail
    <3>4. Unpaid(id) \in Nat /\ bill \in Nat /\ bill <= Unpaid(id)
      BY <1>2, <1>5, <1>7, <1>9, UnpaidNat
    <3>5. k = h - bill
      <4>1. CASE r.volume_traded > 0
        <5>1. id \in DOMAIN broker /\ r.trade_side = broker[id].side
          BY <1>2, <1>5, <4>1 DEF Tracked, ResponsesTracked
        <5>2. q.trade_side = "Buy"
          BY <2>1, <2>5 DEF IsNewBuy
        <5>3. r.trade_side = "Buy"
          BY <2>1, <5>1, <5>2 DEF ReservedAt, q
        <5> QED BY <4>1, <5>3 DEF k
      <4>2. CASE r.volume_traded = 0
        <5>1. bill = 0
          BY <1>5, <4>2 DEF OnlyTradesPay
        <5>2. k = h
          BY <4>2 DEF k
        <5> QED BY <1>3, <5>1, <5>2
      <4> QED BY <1>9, <4>1, <4>2
    <3> HIDE DEF bill
    <3>6. Exposure(id)' <= k
      <4>1. CASE id \in DOMAIN broker
        <5> DEFINE rest == broker[id].left * broker[id].price + broker[id].fee_left
        <5>1. broker[id] \in BrokerOrder
          BY <4>1 DEF Invariant, TypeOK
        <5>2. rest \in Nat
          BY <5>1, NatProduct DEF BrokerOrder
        <5>3. Exposure(id) = rest + Unpaid(id) /\ Exposure(id)' = rest + Unpaid(id)'
          BY <1>4, <4>1 DEF Exposure
        <5> HIDE DEF rest
        <5> QED BY <1>3, <3>2, <3>3, <3>4, <3>5, <5>2, <5>3
      <4>2. CASE id \notin DOMAIN broker
        <5>1. Exposure(id) = ReservedTotal(q) /\ Exposure(id)' = ReservedTotal(p)
          BY <1>4, <2>1, <4>2 DEF Exposure, q
        <5>2. r.volume_traded = 0
          BY <1>2, <1>5, <1>9, <4>2 DEF Tracked, ResponsesTracked
        <5>3. k = h
          BY <5>2 DEF k
        <5> QED BY <1>8, <3>2, <5>1, <5>3
      <4> QED BY <4>1, <4>2
    <3> QED BY <2>1, <2>2, <2>5, <3>1, <3>6 DEF ReservedAt
  <2> QED BY <2>3, <2>4, <2>5
<1>13. Reserved'
  BY <1>11, <1>12 DEF Reserved
<1>14. FrozenBacksLiveOrders'
  <2>1. \A y \in OrderIds \ {id} : Held(y)' = Held(y)
    <3>1. \A y \in OrderIds \ {id} : y \in DOMAIN book' <=> y \in DOMAIN book
      BY <1>4
    <3>2. \A y \in DOMAIN book' \ {id} : book'[y].fund_frozen = book[y].fund_frozen /\ (Live(y)' <=> Live(y))
      BY <1>3, <1>4, <1>6 DEF Live
    <3> QED BY <3>1, <3>2 DEF Held
  <2>2. Held(id) = h
    BY <1>3, <1>10 DEF Held, ReservedAt, h
  <2>3. Held(id)' = g
    <3>1. CASE id \in DOMAIN book'
      <4>1. book'[id].fund_frozen = g /\ (Live(id)' <=> p.order_state \notin TerminalState)
        BY <1>4, <1>6, <3>1 DEF Live, g
      <4> QED BY <1>3, <3>1, <4>1 DEF Held
    <3>2. CASE id \notin DOMAIN book'
      <4>1. p.order_state \in TerminalState
        BY <1>3, <1>4, <1>5, <3>2
      <4> QED BY <1>3, <3>2, <4>1 DEF Held
    <3> QED BY <3>1, <3>2
  <2>4. id \in OrderIds
    BY <1>3, HeldType
  <2> QED BY <1>3, <2>1, <2>2, <2>3, <2>4, HeldStep DEF FundsTracked
<1>15. Priced(P)'
  <2>1. Range(responses)' \subseteq Range(responses)
    BY <1>4, <1>7, RangeTail
  <2> QED BY <2>1 DEF FundsTracked, Priced
<1> QED BY <1>3, <1>13, <1>14, <1>15 DEF FundsTracked

\* A response that no order of the book waits for.
LEMMA IgnoredFunds ==
  ASSUME Invariant, NEW P \in Nat, FundsTracked(P), IgnoreTradeResponse
  PROVE  FundsTracked(P)'
<1>1. PICK r : r = Head(responses)
  OBVIOUS
<1>2. /\ responses # <<>> /\ responses' = Tail(responses) /\ r.internal_order_id \notin DOMAIN book
      /\ UNCHANGED <<fund, position, lost, book, broker>>
  BY <1>1 DEF IgnoreTradeResponse, external
<1>3. responses \in Seq(TradeResponse)
  BY DEF Invariant, TypeOK
<1>4. Priced(P)' /\ WorthBounded(P)'
  <2>1. Range(responses)' \subseteq Range(responses)
    BY <1>2, <1>3, RangeTail
  <2> QED BY <1>2, <2>1 DEF FundsTracked, Priced, WorthBounded, SharesSold
<1>5. \A y : Live(y)' <=> Live(y)
  BY <1>2 DEF Live
<1>6. Reserved'
  <2>1. ASSUME NEW y \in DOMAIN book PROVE ReservedAt(y)'
    <3>1. Unpaid(y)' = Unpaid(y) - 0
      BY <1>1, <1>2, <1>3, UnpaidTail
    <3>2. Unpaid(y)' = Unpaid(y)
      BY <1>3, <3>1, UnpaidNat
    <3>3. ReservedAt(y)
      BY DEF FundsTracked, Reserved
    <3> QED BY <1>2, <1>5, <3>2, <3>3, ReservedKept
  <2> QED BY <1>2, <2>1 DEF Reserved
<1>7. FrozenBacksLiveOrders'
  <2>1. \A y \in OrderIds : Held(y)' = Held(y)
    BY <1>2, <1>5 DEF Held
  <2> QED BY <1>2, <2>1, HeldSame DEF FundsTracked
<1> QED BY <1>4, <1>6, <1>7 DEF FundsTracked

\* With no restart allowed the service does not die.
LEMMA NoRestart ==
  ASSUME MaxRestarts = 0, Invariant
  PROVE  ~ Restarts /\ ~ Dies
<1>1. restarts \in 0 .. MaxRestarts
  BY DEF Invariant, TypeOK
<1>2. ~ (restarts < MaxRestarts)
  BY <1>1
<1> QED BY <1>2 DEF Restarts, Restart, Dies, DieSettling

\* Every step keeps the account of the money.
LEMMA NextFunds ==
  ASSUME MaxRestarts = 0, NEW P \in Nat
  PROVE  (Invariant /\ OneCarrier /\ Tracked /\ HoldingsTracked /\ OnlyTradesPay /\ FundsTracked(P))
           /\ AmpleFor(P) /\ Invariant' /\ [Next]_vars => FundsTracked(P)'
<1> SUFFICES ASSUME Invariant, OneCarrier, Tracked, HoldingsTracked, OnlyTradesPay, FundsTracked(P), AmpleFor(P),
                    Invariant', [Next]_vars
             PROVE  FundsTracked(P)'
  OBVIOUS
<1>1. CASE UNCHANGED <<book, fund, position, lost, broker, responses>>
  BY <1>1, ArchivedFunds
<1>2. CASE (\E order \in NewOrders : SubmitOrder(order)) \/ (\E orig \in CancelTargets : CancelOrder(orig))
  BY <1>1, <1>2 DEF SubmitOrder, CancelOrder, EnqueueOrder, external, service
<1>3. CASE HandleOrderRequest
  BY <1>3, RequestFunds
<1>4. CASE HandleResponses
  BY <1>4, HandledFunds, IgnoredFunds DEF HandleResponses
<1>5. CASE Archive
  <2>1. PICK due \in SUBSET pending : ProcessPendingArchives(due)
    BY <1>5 DEF Archive
  <2> DEFINE archived == {id \in due \cap DOMAIN book : book[id].request.order_state \in TerminalState}
  <2>2. book' = Restrict(book, DOMAIN book \ archived) /\ UNCHANGED <<responses, position, lost, broker, fund>>
    BY <2>1 DEF ProcessPendingArchives, external
  <2>3. DOMAIN book' = DOMAIN book \ archived /\ \A y \in DOMAIN book' : book'[y] = book[y]
    BY <2>2 DEF Restrict
  <2>4. \A y \in DOMAIN book \ DOMAIN book' : ~ Live(y)
    BY <2>3 DEF Live
  <2> HIDE DEF archived
  <2> QED BY <2>2, <2>3, <2>4, ArchivedFunds
<1>6. CASE Halt
  BY <1>1, <1>6 DEF Halt, shm, external
<1>7. CASE Restarts \/ Dies
  BY <1>7, NoRestart
<1>8. CASE Gateway
  BY <1>8, SubmitFunds, QueueFunds DEF Gateway
<1>9. CASE \E id \in DOMAIN broker : Broker(id)
  BY <1>9, QueueFunds
<1>10. CASE UNCHANGED vars
  BY <1>1, <1>10 DEF vars, shm, external, service
<1> QED BY <1>2, <1>3, <1>4, <1>5, <1>6, <1>7, <1>8, <1>9, <1>10 DEF Next

\* At the start of the day nothing is reserved for anyone.
LEMMA InitFunds == ASSUME NEW P \in Nat PROVE Init => FundsTracked(P)
<1> SUFFICES ASSUME Init PROVE FundsTracked(P)
  OBVIOUS
<1>1. /\ fund = InitialFund /\ responses = <<>> /\ DOMAIN book = {}
      /\ position.available_t0 = InitialHolding /\ lost.sold = 0
  BY DEF Init
<1>2. Range(responses) = {}
  BY <1>1 DEF Range
<1>3. InitialHolding \in Nat /\ InitialFund.frozen \in Nat /\ Worth(InitialFund) \in Nat
  BY AccountAssumption, FundColumns DEF Worth
<1>4. WorthBounded(P)
  <2>1. SharesSold = 0
    BY <1>1, <1>3 DEF SharesSold
  <2> QED BY <1>1, <1>3, <2>1 DEF WorthBounded
<1>5. FrozenBacksLiveOrders
  <2> DEFINE f == [y \in OrderIds |-> Held(y)]
             e == [y \in OrderIds |-> 0]
  <2>1. f = e
    BY <1>1 DEF Held
  <2>2. MaxOrders \in Nat
    BY BoundsAssumption
  <2>3. OrderIds = 1 .. MaxOrders /\ e \in Seq({0}) /\ DOMAIN e = OrderIds
    BY <2>2 DEF OrderIds
  <2> DEFINE w == [y \in {0} |-> 0]
  <2>4. \A i \in DOMAIN e : w[e[i]] = 0
    OBVIOUS
  <2>5. SeqSum(w, e) = 0
    BY <2>3, <2>4, SeqSumZero
  <2>6. [i \in DOMAIN e |-> w[e[i]]] = e
    BY <2>3
  <2>7. SumFunction(e) = 0
    BY <2>5, <2>6 DEF SeqSum
  <2> QED BY <1>1, <1>3, <2>1, <2>7 DEF FrozenBacksLiveOrders
<1> QED BY <1>1, <1>2, <1>4, <1>5 DEF FundsTracked, Reserved, Priced

\* Without restarts and in range the money is tracked.
LEMMA FundsHold ==
  ASSUME MaxRestarts = 0, NEW P \in Nat
  PROVE  Spec /\ []AmpleFor(P) =>
           [](Invariant /\ OneCarrier /\ Tracked /\ HoldingsTracked /\ OnlyTradesPay /\ FundsTracked(P))
<1>1. RecoverableCrashes
  BY DEF RecoverableCrashes
<1>2. Spec => []HoldingsTracked
  BY <1>1, InitHoldings, NextHoldings, TrackedHolds, PTL DEF Spec
<1> QED BY <1>1, <1>2, InitFunds, NextFunds, CashHolds, TrackedHolds, PTL DEF Spec

\* While the service does not restart, fees stay within the estimates and the account
\* stays in range, its frozen funds are exactly what its live orders hold, for any
\* number of orders, partial trades, shorts and refusals: nothing is lost to an order
\* that has ended, and no order lives on another's reservation
\* (reserve_order_resources, settle_buy_trade_fund, release_order_resources).
THEOREM ReservationsAreExact ==
  ASSUME MaxRestarts = 0, NEW P \in Nat
  PROVE  Spec /\ []AmpleFor(P) => []FrozenBacksLiveOrders
<1>1. FundsTracked(P) => FrozenBacksLiveOrders
  BY DEF FundsTracked
<1> QED BY <1>1, FundsHold, PTL

-----------------------------------------------------------------------------
(* What can stop the service.                                              *)

\* A settlement that the account refuses is one of a sale of more shares than it held,
\* or of one that does not pay its fee.
LEMMA RefusedSale ==
  ASSUME Invariant, Tracked, HoldingsTracked, NEW P \in Nat, AmpleFor(P), FundsTracked(P),
         HandleTradeResponse, NEW r, r = Head(responses), NEW id, id = r.internal_order_id,
         SettlementRefused(book[id], r)
  PROVE  /\ r.trade_side = "Sell"
         /\ market.sold > InitialHolding \/ r.dvalue_traded < r.dfee
<1>1. id \in DOMAIN book
  BY DEF HandleTradeResponse, ApplyTradeResponse
<1>2. /\ r \in Range(responses) /\ r \in TradeResponse /\ r.volume_traded \in Nat
      /\ r.volume_traded > 0 /\ r.trade_side \in {"Buy", "Sell"}
  BY TakenResponse DEF HandleResponses, SettlementRefused
<1>3. r.dvalue_traded \in Nat /\ r.dfee \in Nat
  BY <1>2 DEF TradeResponse
<1>4. r.trade_side = "Sell"
  <2>1. CASE r.trade_side = "Buy"
    <3>1. ~ FundRefuses(fund, book[id].fund_frozen, r)
      BY <1>1, <1>2, <2>1, BuyCovered
    <3>2. ~ FundRefused(book[id], r)
      BY <3>1, RefusalIsRefusal
    <3>3. ~ PositionRefused(r)
      BY <2>1 DEF PositionRefused
    <3> QED BY <3>2, <3>3 DEF SettlementRefused
  <2> QED BY <1>2, <2>1
<1>5. CASE PositionRefused(r)
  BY <1>2, <1>4, <1>5, SoldShares
<1>6. CASE ~ PositionRefused(r)
  <2>1. ~ CanApplySellTradeFund(fund, r.dvalue_traded, r.dfee)
    BY <1>4, <1>6 DEF SettlementRefused, FundRefused
  <2> DEFINE before == P * SharesSold
             extra == P * r.volume_traded
             bound == P * market.sold
  <2>2. /\ SharesSold \in Int /\ market.sold \in Nat /\ SharesSold + r.volume_traded <= market.sold
    BY <1>2, <1>4, SoldShares, SettledSales
  <2>3. before \in Int /\ extra \in Nat /\ bound \in Nat
    BY <1>2, <2>2, NatProduct
  <2>4. before + extra <= bound
    <3>1. PICK d \in Nat : d = market.sold - (SharesSold + r.volume_traded)
      BY <1>2, <2>2
    <3>2. P * d \in Nat
      BY NatProduct
    <3>3. P * ((SharesSold + r.volume_traded) + d) = P * (SharesSold + r.volume_traded) + P * d
      BY <1>2, <2>2
    <3>4. P * (SharesSold + r.volume_traded) = before + extra
      BY <1>2, <2>2
    <3>5. (SharesSold + r.volume_traded) + d = market.sold
      BY <1>2, <2>2, <3>1
    <3>6. bound = (before + extra) + P * d
      BY <3>3, <3>4, <3>5
    <3> HIDE DEF before, extra, bound
    <3> QED BY <2>3, <3>2, <3>6
  <2>5. r.dvalue_traded <= extra /\ Worth(fund) <= Worth(InitialFund) + before
    BY <1>2 DEF FundsTracked, Priced, WorthBounded
  <2>6. Worth(InitialFund) \in Nat /\ MaxDValue \in Nat
    BY AccountAssumption, FundColumns, MaxDValueAssumption DEF Worth
  <2>7. Worth(InitialFund) + bound <= MaxDValue
    BY DEF AmpleFor
  <2>8. fund \in Fund
    BY CashTypes
  <2>9. /\ fund.available \in Nat /\ fund.frozen \in Nat /\ fund.market_value \in Nat
        /\ Worth(fund) = (fund.available + fund.frozen) + fund.market_value
    BY <2>8, FundColumns DEF Worth
  <2> HIDE DEF before, extra, bound
  <2>10. fund.available + (r.dvalue_traded - r.dfee) <= MaxDValue
    BY <1>3, <2>3, <2>4, <2>5, <2>6, <2>7, <2>9
  <2>11. ~ (r.dvalue_traded >= r.dfee)
    BY <1>3, <2>1, <2>10 DEF CanApplySellTradeFund
  <2> QED BY <1>3, <1>4, <2>11
<1> QED BY <1>4, <1>5, <1>6

\* Only handle_trade_response records the fatal error.
LEMMA OnlySettlementsLatch ==
  ASSUME MaxRestarts = 0, Invariant, ~ latched, latched', Next
  PROVE  HandleTradeResponse
<1>1. CASE HandleOrderRequest
  BY <1>1 DEF HandleOrderRequest, AddRefused, RiskReject, Admit, PushDownstream, StagePushed, StageStore,
              PublishSubmitted, Publish, RouteOrderRefused, RouteCancel, RouteFailed, service
<1>2. CASE (\E order \in NewOrders : SubmitOrder(order)) \/ (\E orig \in CancelTargets : CancelOrder(orig))
  BY <1>2 DEF SubmitOrder, CancelOrder, EnqueueOrder, service
<1>3. CASE IgnoreTradeResponse \/ Archive \/ Halt
  BY <1>3 DEF IgnoreTradeResponse, Archive, ProcessPendingArchives, Halt
<1>4. CASE Gateway
  BY <1>4 DEF Gateway, GatewaySubmit, GatewayRefuse, service
<1>5. ASSUME NEW id \in DOMAIN broker, Broker(id) PROVE UNCHANGED latched
  <2>1. CASE BrokerAccept(id) \/ BrokerReject(id) \/ MarketReject(id) \/ BrokerFinish(id)
    BY <2>1 DEF BrokerAccept, BrokerReject, MarketReject, BrokerFinish, BrokerReport, service
  <2>2. ASSUME NEW volume, NEW price, NEW fee, BrokerTrade(id, volume, price, fee) PROVE UNCHANGED latched
    BY <2>2 DEF BrokerTrade, service
  <2> QED BY <1>5, <2>1, <2>2 DEF Broker
<1>6. CASE Restarts \/ Dies
  BY <1>6, NoRestart
<1> QED BY <1>1, <1>2, <1>3, <1>4, <1>5, <1>6 DEF Next, HandleResponses

\* While the service does not restart, fees stay within the estimates and the account
\* stays in range, no buy can stop the service: what was reserved covers every bill of
\* the order, whatever other orders do.  What can stop it is a sale of more shares than
\* the account held, or one whose fee exceeds its proceeds (settle_buy_trade_fund,
\* apply_sell_trade_fund, deduct_position).
THEOREM SellsAloneStopTheDay ==
  ASSUME MaxRestarts = 0, NEW P \in Nat
  PROVE  Spec /\ []AmpleFor(P) => OnlySellsStopTheDay
<1> DEFINE Ok == ~ latched /\ latched' =>
                   /\ Head(responses).trade_side = "Sell"
                   /\ \/ market.sold > InitialHolding
                      \/ Head(responses).dvalue_traded < Head(responses).dfee
<1>1. Invariant /\ Tracked /\ HoldingsTracked /\ FundsTracked(P) /\ AmpleFor(P) /\ Next => Ok
  <2> SUFFICES ASSUME Invariant, Tracked, HoldingsTracked, FundsTracked(P), AmpleFor(P), Next, ~ latched, latched'
               PROVE  /\ Head(responses).trade_side = "Sell"
                      /\ \/ market.sold > InitialHolding
                         \/ Head(responses).dvalue_traded < Head(responses).dfee
    OBVIOUS
  <2>1. HandleTradeResponse
    BY OnlySettlementsLatch
  <2>2. PICK r : r = Head(responses)
    OBVIOUS
  <2>3. PICK id : id = r.internal_order_id
    OBVIOUS
  <2>4. SettlementRefused(book[id], r)
    BY <2>1, <2>2, <2>3 DEF HandleTradeResponse, ApplyTradeResponse
  <2> QED BY <2>1, <2>2, <2>3, <2>4, RefusedSale
<1>2. OnlySellsStopTheDay <=> [][Ok]_vars
  BY PTL DEF OnlySellsStopTheDay
<1>3. Spec => [][Next]_vars
  BY DEF Spec
<1> QED BY <1>1, <1>2, <1>3, FundsHold, PTL
=============================================================================
