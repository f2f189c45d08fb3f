------------------------------ MODULE EventLoop ------------------------------
(***************************************************************************)
(* The account service's event loop and the processes around it.  Three    *)
(* processes share memory: the strategies' API puts requests into order    *)
(* slots and queues their indices upstream; the account service dequeues   *)
(* them, checks risk, reserves funds and queues the index downstream; the  *)
(* gateway submits them to the broker and queues the broker's answers as   *)
(* trade responses, which the account service settles.                     *)
(*                                                                         *)
(* The account service is one thread, so a handler is one step, except     *)
(* where another process can look in or the service can die half-way: a    *)
(* new order is handled in four steps (admit, push downstream, store the   *)
(* new stage, mark it submitted) with a crash between any two of them, and *)
(* a trade response may be lost with the service at five places.           *)
(*                                                                         *)
(* Orders here are the ones no execution session manages: the execution    *)
(* engine is absent or its should_manage() refuses them.  There is one     *)
(* security.                                                               *)
(***************************************************************************)
EXTENDS OrderVocabulary, FundRow, Integers, Sequences, FiniteSets, FiniteSetsExt, SequencesExt

CONSTANTS
  MaxOrders,            \* bound: order ids the API hands out
  NewOrders,            \* the orders clients place: side, volume and limit price
  CancelTargets,        \* the order ids clients ask to cancel
  InitialFund,          \* the fund row position_loader writes
  InitialHolding,       \* volume_available_t0 of the security at the start of the day
  CalculateFee(_, _),   \* account_info::calculate_fee(side, traded value)
  CheckFund,            \* risk configuration: fund_check_rule enabled
  CheckPosition,        \* risk configuration: position_check_rule enabled
  ArchiveMode,          \* "off", "now" (delay 0) or "delayed"
  UpstreamBound,        \* capacity() of the three rings
  DownstreamBound,
  ResponseBound,
  PoolCapacity,         \* slots of orders_shm
  BookCapacity,         \* kMaxActiveOrders
  TradePrices,          \* prices the market trades at
  FeeOverrun,           \* how far the broker's fees may exceed the estimate
  CrashPoints,          \* the places of the loop where the service may die
  MaxRestarts           \* bound: crashes and restarts of the service

OrderIds == 1 .. MaxOrders

ASSUME BoundsAssumption ==
  /\ MaxOrders \in Nat
  /\ UpstreamBound \in Nat /\ DownstreamBound \in Nat /\ ResponseBound \in Nat
  /\ PoolCapacity \in Nat /\ BookCapacity \in Nat
  /\ FeeOverrun \in Nat /\ MaxRestarts \in Nat

ASSUME OrdersAssumption ==
  /\ NewOrders \subseteq [trade_side : {"Buy", "Sell"}, volume_entrust : Nat \ {0}, dprice_entrust : Nat]
  /\ CancelTargets \subseteq Nat
  /\ TradePrices \subseteq Nat

ASSUME AccountAssumption ==
  /\ InitialFund \in Fund
  /\ InitialHolding \in Nat
  /\ \A side \in TradeSide, value \in DValue : CalculateFee(side, value) \in Nat

ASSUME ConfigAssumption ==
  /\ CheckFund \in BOOLEAN /\ CheckPosition \in BOOLEAN
  /\ ArchiveMode \in {"off", "now", "delayed"}
  /\ CrashPoints \subseteq {"idle", "route", "sent", "staged", "settling", "stopped"}

VARIABLES
  \* Shared memory; survives a restart of the account service.
  next_order_id,  \* upstream header: the next id to hand out
  slots,          \* orders_shm: each slot's stage and its copy of the request
  upstream,       \* upstream_order_queue: slot indices
  downstream,     \* order_queue: slot indices
  responses,      \* response_queue
  fund,           \* the fund row of positions_shm
  position,       \* the security's row of positions_shm
  \* Memory of the account service; lost with it.
  book,           \* OrderBook: order id -> entry
  pending,        \* pending_archive_deadlines_ns_: ids waiting for their deadline
  loop,           \* where the loop is inside handle_order_request, and for which id
  latched,        \* g_shutdown_reason: a fatal error has been recorded
  \* The broker (external).
  broker,         \* the orders it has received
  market,         \* cash, volume bought and volume sold as the exchange has them
  restarts,       \* crashes of the account service so far
  lost            \* ghost: what refused or interrupted settlements should have moved

shm == <<next_order_id, slots, upstream, downstream, responses, fund, position>>
service == <<book, pending, loop, latched>>
external == <<broker, market, restarts, lost>>
vars == <<shm, service, external>>

Idle == [pc |-> "idle", id |-> 0]

Init ==
  /\ next_order_id = 1
  /\ slots = <<>>
  /\ upstream = <<>>
  /\ downstream = <<>>
  /\ responses = <<>>
  /\ fund = InitialFund
  /\ position = [available_t0 |-> InitialHolding, available_t1 |-> 0, sell |-> 0]
  /\ book = [id \in {} |-> {}]
  /\ pending = {}
  /\ loop = Idle
  /\ latched = FALSE
  /\ broker = [id \in {} |-> {}]
  /\ market = [cash |-> InitialFund.available + InitialFund.frozen, bought |-> 0, sold |-> 0]
  /\ restarts = 0
  /\ lost = [cash |-> 0, bought |-> 0, sold |-> 0, ids |-> {}]

\* f with k mapped to v, whether or not f knew k.
Put(f, k, v) == [x \in DOMAIN f \cup {k} |-> IF x = k THEN v ELSE f[x]]

-----------------------------------------------------------------------------
(* The order API (order_api.cpp) in the strategies' processes.             *)

\* enqueue_order: append a slot, then queue its index; the id is spent either way.
EnqueueOrder(request) ==
  /\ next_order_id <= MaxOrders
  /\ next_order_id' = next_order_id + 1
  /\ \/ /\ Len(slots) >= PoolCapacity
        /\ UNCHANGED <<slots, upstream>>
     \/ /\ Len(slots) < PoolCapacity
        /\ Len(upstream) < UpstreamBound
        /\ slots' = Append(slots, [stage |-> "UpstreamQueued", request |-> request])
        /\ upstream' = Append(upstream, Len(slots) + 1)
     \/ /\ Len(slots) < PoolCapacity
        /\ Len(upstream) >= UpstreamBound
        /\ slots' = Append(slots, [stage |-> "QueuePushFailed", request |-> request])
        /\ UNCHANGED upstream
  /\ UNCHANGED <<downstream, responses, fund, position>>
  /\ UNCHANGED service
  /\ UNCHANGED external

SubmitOrder(order) ==
  EnqueueOrder([internal_order_id |-> next_order_id, order_type |-> "New",
                trade_side |-> order.trade_side, volume_entrust |-> order.volume_entrust,
                dprice_entrust |-> order.dprice_entrust, orig_internal_order_id |-> 0,
                dfee_estimate |-> 0, order_state |-> "UserSubmitted",
                volume_traded |-> 0, volume_remain |-> order.volume_entrust])

\* OrderRequest::init_cancel.
CancelRequest(id, orig) ==
  [internal_order_id |-> id, order_type |-> "Cancel", trade_side |-> "NotSet",
   volume_entrust |-> 0, dprice_entrust |-> 0, orig_internal_order_id |-> orig,
   dfee_estimate |-> 0, order_state |-> "UserSubmitted",
   volume_traded |-> 0, volume_remain |-> 0]

CancelOrder(orig) == EnqueueOrder(CancelRequest(next_order_id, orig))

-----------------------------------------------------------------------------
(* Helpers of the event loop.                                              *)

IsNewBuy(q) == q.order_type = "New" /\ q.trade_side = "Buy"

OrderValue(q) == q.volume_entrust * q.dprice_entrust

\* prepare_order_estimate: a new order's fee, unless its value overflows or is 0.
PrepareOrderEstimate(q) ==
  IF q.order_type = "New" /\ q.dfee_estimate = 0 /\ OrderValue(q) \in DValue \ {0}
  THEN [q EXCEPT !.dfee_estimate = CalculateFee(q.trade_side, OrderValue(q))]
  ELSE q

\* fund_check_rule::check; a zero fee counts as one.
FundCheckPasses(q) ==
  CheckFund /\ q.trade_side = "Buy" =>
    LET fee == IF q.dfee_estimate = 0 /\ OrderValue(q) > 0 THEN 1 ELSE q.dfee_estimate
    IN OrderValue(q) + fee <= fund.available

\* position_check_rule::check.
PositionCheckPasses(q) ==
  CheckPosition /\ q.trade_side = "Sell" => q.volume_entrust <= position.available_t0

\* Fault: the fee is not reserved.
ReservedWithoutFee(q) == OrderValue(q)

\* reserve_order_resources: what a buy order freezes, and whether it can.
ReservedTotal(q) == OrderValue(q) + q.dfee_estimate

CanReserve(q) ==
  IsNewBuy(q) => /\ ReservedTotal(q) <= MaxDValue
                 /\ CanFreezeFund(fund, ReservedTotal(q))

\* release_order_resources on a service state [book, fund]: what is still frozen
\* for the order returns to available, unless unfreeze_fund refuses.
ReleaseOrderResources(a, id) ==
  LET e == a.book[id]
  IN IF IsNewBuy(e.request) /\ e.fund_frozen # 0 /\ CanUnfreezeFund(a.fund, e.fund_frozen)
     THEN [book |-> [a.book EXCEPT ![id].fund_frozen = 0],
           fund |-> UnfreezeFund(a.fund, e.fund_frozen)]
     ELSE a

\* OrderBook::update_state on the stored request: any state may replace any other.
UpdateState(q, state) == [q EXCEPT !.order_state = state]

\* Fault: the stage is written without the request.
MirrorStageOnly(slot, q) ==
  [stage |-> IF q.order_state \in TerminalState THEN "Terminal" ELSE slot.stage,
   request |-> slot.request]

\* on_order_book_changed: the change callback copies the request into the order's
\* slot and marks the slot of a finished order Terminal.
Mirror(slot, q) ==
  [stage |-> IF q.order_state \in TerminalState THEN "Terminal" ELSE slot.stage,
   request |-> q]

-----------------------------------------------------------------------------
(* process_upstream_orders and handle_order_request.                       *)

\* The loop is between handlers and takes the next index off the upstream queue.
\* Responses come after orders in an iteration, so none follows a fatal error.
TakeUpstream ==
  /\ loop.pc = "idle"
  /\ ~ latched
  /\ upstream # <<>>
  /\ upstream' = Tail(upstream)

\* The request found in the slot, with its fee estimate filled in.
Incoming == PrepareOrderEstimate(slots[Head(upstream)].request)

\* OrderBook::add_order refuses a known id and a full book.
BookHasRoom(id) == id \notin DOMAIN book /\ Cardinality(DOMAIN book) < BookCapacity

\* add_order refuses: only the slot's stage tells.
AddRefused ==
  /\ TakeUpstream
  /\ ~ BookHasRoom(Incoming.internal_order_id)
  /\ slots' = [slots EXCEPT ![Head(upstream)].stage = "QueuePushFailed"]
  /\ UNCHANGED <<next_order_id, downstream, responses, fund, position>>
  /\ UNCHANGED service
  /\ UNCHANGED external

\* A new order that a risk rule refuses, or whose funds cannot be reserved after
\* risk has passed: the entry stays in the book as RiskControllerRejected.  The
\* rules other than fund and position (limits, duplicates, rate) may always refuse.
RiskReject ==
  /\ TakeUpstream
  /\ BookHasRoom(Incoming.internal_order_id)
  /\ Incoming.order_type = "New"
  /\ LET i == Head(upstream)
         q == UpdateState(Incoming, "RiskControllerRejected")
     IN /\ book' = Put(book, q.internal_order_id, [request |-> q, fund_frozen |-> 0, index |-> i])
        /\ slots' = [slots EXCEPT ![i] = [stage |-> "RiskRejected", request |-> q]]
  /\ UNCHANGED <<next_order_id, downstream, responses, fund, position, pending, loop, latched>>
  /\ UNCHANGED external

\* The request passes risk (a cancel is not checked), a buy order's funds are
\* frozen, and the loop goes on to the router.
Admit ==
  /\ TakeUpstream
  /\ BookHasRoom(Incoming.internal_order_id)
  /\ Incoming.order_type = "New" => FundCheckPasses(Incoming) /\ PositionCheckPasses(Incoming)
  /\ CanReserve(Incoming)
  /\ LET i == Head(upstream)
         q == UpdateState(Incoming, "RiskControllerAccepted")
         frozen == IF IsNewBuy(q) THEN ReservedTotal(q) ELSE 0
     IN /\ fund' = FreezeFund(fund, frozen)
        /\ book' = Put(book, q.internal_order_id, [request |-> q, fund_frozen |-> frozen, index |-> i])
        /\ slots' = [slots EXCEPT ![i] = [stage |-> "UpstreamDequeued", request |-> q]]
        /\ loop' = [pc |-> "route", id |-> q.internal_order_id]
  /\ UNCHANGED <<next_order_id, downstream, responses, position, pending, latched>>
  /\ UNCHANGED external

\* send_to_downstream, first half: the gateway can see the index from here on.
PushDownstream ==
  /\ loop.pc = "route"
  /\ book[loop.id].request.order_type = "New"
  /\ Len(downstream) < DownstreamBound
  /\ downstream' = Append(downstream, book[loop.id].index)
  /\ loop' = [loop EXCEPT !.pc = "sent"]
  /\ UNCHANGED <<next_order_id, slots, upstream, responses, fund, position, book, pending, latched>>
  /\ UNCHANGED external

\* The order's slot gets stage.
StageStore(stage) ==
  /\ loop.pc = "sent"
  /\ slots' = [slots EXCEPT ![book[loop.id].index].stage = stage]
  /\ loop' = [loop EXCEPT !.pc = "staged"]
  /\ UNCHANGED <<next_order_id, upstream, downstream, responses, fund, position, book, pending, latched>>
  /\ UNCHANGED external

\* Fault: the slot's stage does not follow the push.
StageNotStored == StageStore("UpstreamDequeued")

\* send_to_downstream, second half: an answer of the gateway may be here already.
StagePushed == StageStore("DownstreamQueued")

\* route_order's update: the order becomes TraderSubmitted, and the loop goes on.
Publish(next) ==
  /\ loop.pc = "staged"
  /\ LET e == book[loop.id]
         q == UpdateState(e.request, "TraderSubmitted")
     IN /\ book' = [book EXCEPT ![loop.id].request = q]
        /\ slots' = [slots EXCEPT ![e.index] = Mirror(@, q)]
  /\ loop' = next
  /\ UNCHANGED <<next_order_id, upstream, downstream, responses, fund, position, pending, latched>>
  /\ UNCHANGED external

\* Fault: the order is routed again after a successful push.
PublishAndRouteAgain == Publish([loop EXCEPT !.pc = "route"])

PublishSubmitted == Publish(Idle)

\* What handle_order_request does when route_order returns false: the funds go
\* back and the order ends as TraderError.  s holds the slots so far.
RouteFailed(s) ==
  LET a == ReleaseOrderResources([book |-> book, fund |-> fund], loop.id)
      e == a.book[loop.id]
      q == UpdateState(e.request, "TraderError")
  IN /\ book' = [a.book EXCEPT ![loop.id].request = q]
     /\ fund' = a.fund
     /\ slots' = [s EXCEPT ![e.index] = [stage |-> "QueuePushFailed", request |-> q]]
     /\ loop' = Idle
     /\ UNCHANGED <<next_order_id, upstream, downstream, responses, position, pending, latched>>
     /\ UNCHANGED external

RouteOrderRefused ==
  /\ loop.pc = "route"
  /\ book[loop.id].request.order_type = "New"
  /\ Len(downstream) >= DownstreamBound
  /\ RouteFailed(slots)

\* route_cancel for an order without children: it makes a second slot for the
\* cancel and adds the cancel's id to the book, which already holds it from
\* handle_order_request, so add_order refuses and the cancel is not sent.
RouteCancel ==
  /\ loop.pc = "route"
  /\ book[loop.id].request.order_type = "Cancel"
  /\ LET q == UpdateState(CancelRequest(loop.id, book[loop.id].request.orig_internal_order_id),
                        "TraderPending")
     IN RouteFailed(IF Len(slots) < PoolCapacity
                    THEN Append(slots, [stage |-> "QueuePushFailed", request |-> q])
                    ELSE slots)

-----------------------------------------------------------------------------
(* process_downstream_responses and handle_trade_response.                 *)

\* OrderBook::update_trade: volume counters saturate, and an order with nothing
\* left to trade is Finished whatever state the response carried.
CountTraded(q, volume) ==
  [q EXCEPT !.volume_traded = IF q.volume_entrust > 0 /\ @ + volume > q.volume_entrust
                              THEN q.volume_entrust ELSE @ + volume]

CountRemaining(q, volume) == [q EXCEPT !.volume_remain = Less(@, volume)]

UpdateTrade(q, volume) ==
  LET counted == CountRemaining(CountTraded(q, volume), volume)
  IN IF counted.volume_remain = 0 /\ counted.order_state \notin TerminalState
     THEN UpdateState(counted, "Finished")
     ELSE counted

\* update_state to the response's state, then update_trade when it carries a trade.
Reported(q, r) ==
  IF r.volume_traded > 0
  THEN UpdateTrade(UpdateState(q, r.new_state), r.volume_traded)
  ELSE UpdateState(q, r.new_state)

\* settle_buy_trade_fund on a service state: from the frozen funds when the order
\* still has some, else from available.  deduct_fund works on the account's frozen
\* total, so a bill above the order's own share is paid out of other orders' share.
SettleBuyTradeFund(a, r) ==
  LET frozen == a.book[r.internal_order_id].fund_frozen
  IN IF frozen = 0
     THEN IF CanApplyBuyTradeFund(a.fund, r.dvalue_traded, r.dfee)
          THEN [book |-> a.book, fund |-> ApplyBuyTradeFund(a.fund, r.dvalue_traded, r.dfee)]
          ELSE a
     ELSE IF CanDeductFund(a.fund, r.dvalue_traded, r.dfee)
          THEN [book |-> [a.book EXCEPT ![r.internal_order_id].fund_frozen =
                            Less(frozen, r.dvalue_traded + r.dfee)],
                fund |-> DeductFund(a.fund, r.dvalue_traded, r.dfee)]
          ELSE a

SettleSellTradeFund(a, r) ==
  IF CanApplySellTradeFund(a.fund, r.dvalue_traded, r.dfee)
  THEN [book |-> a.book, fund |-> ApplySellTradeFund(a.fund, r.dvalue_traded, r.dfee)]
  ELSE a

\* Lines 478-502: a trade of a new order moves money, unless that is refused.
SettleTradeFund(a, r) ==
  IF r.volume_traded > 0 /\ a.book[r.internal_order_id].request.order_type = "New"
  THEN IF r.trade_side = "Buy" THEN SettleBuyTradeFund(a, r)
       ELSE IF r.trade_side = "Sell" THEN SettleSellTradeFund(a, r) ELSE a
  ELSE a

\* add_position: shares bought today are sellable tomorrow.
AddPosition(p, volume) == [p EXCEPT !.available_t1 = @ + volume]

\* deduct_position: first from the frozen counter, then from the sellable volume;
\* when that is short the counter has already been cleared.
DeductPosition(p, volume) ==
  LET rest == Less(volume, p.sell)
  IN IF p.available_t0 < rest
     THEN [p EXCEPT !.sell = 0]
     ELSE [available_t0 |-> p.available_t0 - rest, available_t1 |-> p.available_t1,
           sell |-> Less(p.sell, volume)]

SettlePosition(p, order_type, r) ==
  IF r.volume_traded > 0 /\ order_type = "New"
  THEN IF r.trade_side = "Buy" THEN AddPosition(p, r.volume_traded)
       ELSE IF r.trade_side = "Sell" THEN DeductPosition(p, r.volume_traded) ELSE p
  ELSE p

\* The fund row refuses to pay for the trade r of entry e.
FundRefused(e, r) ==
  \/ /\ r.trade_side = "Buy"
     /\ ~ (IF e.fund_frozen = 0 THEN CanApplyBuyTradeFund(fund, r.dvalue_traded, r.dfee)
                               ELSE CanDeductFund(fund, r.dvalue_traded, r.dfee))
  \/ /\ r.trade_side = "Sell"
     /\ ~ CanApplySellTradeFund(fund, r.dvalue_traded, r.dfee)

\* The position row holds fewer shares than were sold: a sell freezes none.
PositionRefused(r) ==
  r.trade_side = "Sell" /\ position.available_t0 < Less(r.volume_traded, position.sell)

\* A settlement that is refused is logged, the handler goes on, and the fatal error
\* stops the service.
SettlementRefused(e, r) ==
  /\ r.volume_traded > 0
  /\ e.request.order_type = "New"
  /\ FundRefused(e, r) \/ PositionRefused(r)

\* Fault: the end of an order does not give its reservation back.
ReleaseFinishedForgotten(a, id) == a

\* A finished order gives back its own reservation, and a finished cancel the
\* reservation of the order it names.
ReleaseFinished(a, id) ==
  LET q == a.book[id].request
      own == ReleaseOrderResources(a, id)
  IN IF q.order_state \notin TerminalState THEN a
     ELSE IF q.order_type = "Cancel" /\ q.orig_internal_order_id \in DOMAIN book
          THEN ReleaseOrderResources(own, q.orig_internal_order_id)
          ELSE own

\* The order book and the fund row after response r for a known order.
Settled(r) ==
  LET q == Reported(book[r.internal_order_id].request, r)
      reported == [book |-> [book EXCEPT ![r.internal_order_id].request = q], fund |-> fund]
  IN ReleaseFinished(SettleTradeFund(reported, r), r.internal_order_id)

\* Lines 562-579: only a response in a terminal state schedules the archive.
ArchivePending(r) ==
  IF r.new_state \in TerminalState /\ ArchiveMode = "delayed"
  THEN pending \cup {r.internal_order_id}
  ELSE pending \ {r.internal_order_id}

\* The cash and the shares that a response moves when the loop settles it.
CashMoved(r) ==
  CASE r.trade_side = "Buy" -> - (r.dvalue_traded + r.dfee)
    [] r.trade_side = "Sell" -> r.dvalue_traded - r.dfee
    [] OTHER -> 0

VolumeMoved(r, side) == IF r.trade_side = side THEN r.volume_traded ELSE 0

\* Ghost: response r is gone, and its money or its shares have not moved.
Missed(r, paid, moved) ==
  [cash |-> lost.cash + (IF paid THEN 0 ELSE CashMoved(r)),
   bought |-> lost.bought + (IF moved THEN 0 ELSE VolumeMoved(r, "Buy")),
   sold |-> lost.sold + (IF moved THEN 0 ELSE VolumeMoved(r, "Sell")),
   ids |-> lost.ids]

\* handle_trade_response for an order the book holds.
ApplyTradeResponse ==
  LET r == Head(responses)
      id == r.internal_order_id
  IN
  /\ responses # <<>>
  /\ id \in DOMAIN book
  /\ responses' = Tail(responses)
  /\ fund' = Settled(r).fund
  /\ position' = SettlePosition(position, book[id].request.order_type, r)
  /\ slots' = [slots EXCEPT ![book[id].index] = Mirror(@, Settled(r).book[id].request)]
  /\ book' = IF r.new_state \in TerminalState /\ ArchiveMode = "now"
             THEN Restrict(Settled(r).book, DOMAIN book \ {id})
             ELSE Settled(r).book
  /\ pending' = ArchivePending(r)
  /\ latched' = (latched \/ SettlementRefused(book[id], r))
  /\ lost' = Missed(r, ~ FundRefused(book[id], r), ~ PositionRefused(r))
  /\ UNCHANGED <<next_order_id, upstream, downstream, loop>>
  /\ UNCHANGED <<broker, market, restarts>>

\* Fault: responses that archive nothing are handled while a send is under way.
HandleTradeResponseConcurrently ==
  ApplyTradeResponse /\ (loop.pc = "idle" \/ DOMAIN book' = DOMAIN book)

\* One thread runs both handlers, so no send is under way.
HandleTradeResponse == loop.pc = "idle" /\ ApplyTradeResponse

\* What the order's request is when handle_trade_response has come as far as done.
RequestAt(done, q, r) ==
  CASE done = "popped" -> q
    [] done = "reported" -> UpdateState(q, r.new_state)
    [] OTHER -> Reported(q, r)

\* The service dies over the response it has popped: before the order's new state,
\* after it, after the trade is counted, after it is paid, after the shares moved.
\* The rest of the handler never happens, for nobody has the response any more.
DieSettling(done) ==
  LET r == Head(responses)
      id == r.internal_order_id
      q == RequestAt(done, book[id].request, r)
      counted == [book |-> [book EXCEPT ![id].request = q], fund |-> fund]
      paid == done \in {"paid", "moved"}
      moved == done = "moved"
  IN
  /\ loop.pc = "idle" /\ "settling" \in CrashPoints /\ restarts < MaxRestarts
  /\ responses # <<>>
  /\ id \in DOMAIN book
  /\ responses' = Tail(responses)
  /\ book' = counted.book
  /\ slots' = IF done = "popped" THEN slots ELSE [slots EXCEPT ![book[id].index] = Mirror(@, q)]
  /\ fund' = IF paid THEN SettleTradeFund(counted, r).fund ELSE fund
  /\ position' = IF moved THEN SettlePosition(position, q.order_type, r) ELSE position
  /\ loop' = [pc |-> "settling", id |-> id]
  /\ lost' = [Missed(r, paid /\ ~ FundRefused(book[id], r), moved /\ ~ PositionRefused(r))
               EXCEPT !.ids = IF done = "popped" /\ r.new_state \in TerminalState
                              THEN @ \cup {id} ELSE @]
  /\ UNCHANGED <<next_order_id, upstream, downstream, pending, latched>>
  /\ UNCHANGED <<broker, market, restarts>>

\* A response for an order the book does not hold changes no account.
IgnoreTradeResponse ==
  LET r == Head(responses) IN
  /\ loop.pc = "idle"
  /\ responses # <<>>
  /\ r.internal_order_id \notin DOMAIN book
  /\ responses' = Tail(responses)
  /\ pending' = ArchivePending(r)
  /\ UNCHANGED <<next_order_id, slots, upstream, downstream, fund, position, book, loop, latched>>
  /\ UNCHANGED external

\* process_pending_archives: the deadlines in due have passed.  Time only decides
\* which ids are due, so any of them may be.
ProcessPendingArchives(due) ==
  LET archived == {id \in due \cap DOMAIN book : book[id].request.order_state \in TerminalState}
  IN
  /\ loop.pc = "idle"
  /\ due # {}
  /\ due \subseteq pending
  /\ book' = Restrict(book, DOMAIN book \ archived)
  /\ slots' = [i \in DOMAIN slots |->
                 IF \E id \in archived : book[id].index = i
                 THEN [slots[i] EXCEPT !.stage = "Terminal"] ELSE slots[i]]
  /\ pending' = pending \ due
  /\ UNCHANGED <<next_order_id, upstream, downstream, responses, fund, position, loop, latched>>
  /\ UNCHANGED external

\* EventLoop::run leaves the loop at the end of the iteration that recorded a fatal
\* error, and the process exits.
Halt ==
  /\ loop.pc = "idle"
  /\ latched
  /\ loop' = [pc |-> "stopped", id |-> 0]
  /\ UNCHANGED shm
  /\ UNCHANGED <<book, pending, latched>>
  /\ UNCHANGED external

-----------------------------------------------------------------------------
(* Restart: AccountService dies, or has stopped, and initializes again     *)
(* over the same shared memory (order_recovery.cpp).                       *)

\* The slots recovery would restore an order from.
RecoverySlots ==
  {i \in DOMAIN slots : /\ slots[i].stage \in RecoverableStage
                        /\ slots[i].request.order_state \notin TerminalState}

\* add_order on a recovered request restores a missing remaining volume.
RecoveredRequest(q) ==
  IF q.order_type = "New" /\ q.volume_remain = 0 /\ q.volume_entrust >= q.volume_traded
  THEN [q EXCEPT !.volume_remain = q.volume_entrust - q.volume_traded]
  ELSE q

\* kept: one slot per recovered order, as many as the book holds.  The map of
\* candidates is unordered, so a full book keeps any of them.  An entry starts
\* from OrderEntry{}: nothing is frozen for it any more.
Restart(kept) ==
  LET idOf(i) == slots[i].request.internal_order_id IN
  /\ loop.pc \in CrashPoints
  /\ restarts < MaxRestarts
  /\ kept \subseteq RecoverySlots
  /\ \A i, j \in kept : idOf(i) = idOf(j) => i = j
  /\ \/ Cardinality(kept) = BookCapacity
     \/ \A i \in RecoverySlots : \E j \in kept : idOf(i) = idOf(j)
  /\ book' = [id \in {idOf(i) : i \in kept} |->
                LET i == CHOOSE j \in kept : idOf(j) = id
                IN [request |-> RecoveredRequest(slots[i].request), fund_frozen |-> 0, index |-> i]]
  /\ pending' = {}
  /\ loop' = Idle
  /\ latched' = FALSE
  /\ restarts' = restarts + 1
  /\ UNCHANGED shm
  /\ UNCHANGED <<broker, market, lost>>

-----------------------------------------------------------------------------
(* The gateway process and the broker behind it, as far as the account     *)
(* service can tell: the gateway answers every order it takes, the broker  *)
(* reports each order's events in order and never trades more than was     *)
(* asked or beyond the limit price.  It does not look at the account: it   *)
(* sells shares the account may not hold.                                  *)

Response(id, state, side, volume, value, fee) ==
  [internal_order_id |-> id, new_state |-> state, trade_side |-> side,
   volume_traded |-> volume, dvalue_traded |-> value, dfee |-> fee]

\* process_orders takes an order off the queue and the broker accepts it.
GatewaySubmit ==
  /\ downstream # <<>>
  /\ LET i == Head(downstream)
         q == slots[i].request
     IN /\ q.dprice_entrust > 0
        /\ downstream' = Tail(downstream)
        /\ slots' = [slots EXCEPT ![i].stage = "DownstreamDequeued"]
        /\ broker' = Put(broker, q.internal_order_id,
                         [phase |-> "received", side |-> q.trade_side, price |-> q.dprice_entrust,
                          left |-> q.volume_entrust, fee_left |-> q.dfee_estimate + FeeOverrun])
  /\ UNCHANGED <<next_order_id, upstream, responses, fund, position, market, restarts, lost>>
  /\ UNCHANGED service

\* process_orders cannot map the order, or its submission fails for good:
\* emit_trader_error answers for the broker.
GatewayRefuse ==
  /\ downstream # <<>>
  /\ Len(responses) < ResponseBound
  /\ LET i == Head(downstream)
         q == slots[i].request
     IN /\ downstream' = Tail(downstream)
        /\ slots' = [slots EXCEPT ![i].stage = "DownstreamDequeued"]
        /\ responses' = Append(responses, Response(q.internal_order_id, "TraderError", q.trade_side, 0, 0, 0))
  /\ UNCHANGED <<next_order_id, upstream, fund, position>>
  /\ UNCHANGED service
  /\ UNCHANGED external

\* process_events forwards an event that carries no trade: the broker accepts or
\* rejects an order it received, the market rejects or finishes a working one.
BrokerReport(id, phase, state, next) ==
  /\ broker[id].phase = phase
  /\ Len(responses) < ResponseBound
  /\ responses' = Append(responses, Response(id, state, broker[id].side, 0, 0, 0))
  /\ broker' = [broker EXCEPT ![id].phase = next]
  /\ UNCHANGED <<next_order_id, slots, upstream, downstream, fund, position, market, restarts, lost>>
  /\ UNCHANGED service

BrokerAccept(id) == BrokerReport(id, "received", "BrokerAccepted", "working")
BrokerReject(id) == BrokerReport(id, "received", "BrokerRejected", "done")
MarketReject(id) == BrokerReport(id, "working", "MarketRejected", "done")
BrokerFinish(id) == BrokerReport(id, "working", "Finished", "done")

\* process_events forwards a trade.
BrokerTrade(id, volume, price, fee) ==
  LET o == broker[id]
      buys == o.side = "Buy"
  IN
  /\ o.phase = "working"
  /\ volume <= o.left
  /\ fee <= o.fee_left
  /\ buys => price <= o.price
  /\ ~ buys => price >= o.price
  /\ Len(responses) < ResponseBound
  /\ responses' = Append(responses, Response(id, "MarketAccepted", o.side, volume, volume * price, fee))
  /\ broker' = [broker EXCEPT ![id] = [phase |-> "working", side |-> o.side, price |-> o.price,
                                       left |-> o.left - volume, fee_left |-> o.fee_left - fee]]
  /\ market' = IF buys
               THEN [cash |-> market.cash - (volume * price + fee),
                     bought |-> market.bought + volume, sold |-> market.sold]
               ELSE [cash |-> market.cash + (volume * price - fee),
                     bought |-> market.bought, sold |-> market.sold + volume]
  /\ UNCHANGED <<next_order_id, slots, upstream, downstream, fund, position, restarts, lost>>
  /\ UNCHANGED service

-----------------------------------------------------------------------------
HandleOrderRequest ==
  \/ AddRefused \/ RiskReject \/ Admit
  \/ PushDownstream \/ StagePushed \/ PublishSubmitted \/ RouteOrderRefused \/ RouteCancel

HandleResponses == HandleTradeResponse \/ IgnoreTradeResponse

Dies == \E done \in {"popped", "reported", "counted", "paid", "moved"} : DieSettling(done)

Archive == \E due \in SUBSET pending : ProcessPendingArchives(due)

Restarts == \E kept \in SUBSET RecoverySlots : Restart(kept)

Gateway == GatewaySubmit \/ GatewayRefuse

Broker(id) ==
  \/ BrokerAccept(id) \/ BrokerReject(id) \/ MarketReject(id) \/ BrokerFinish(id)
  \/ \E volume \in 1 .. broker[id].left, price \in TradePrices, fee \in 0 .. broker[id].fee_left :
       BrokerTrade(id, volume, price, fee)

Next ==
  \/ \E order \in NewOrders : SubmitOrder(order)
  \/ \E orig \in CancelTargets : CancelOrder(orig)
  \/ HandleOrderRequest
  \/ HandleResponses
  \/ Archive
  \/ Halt
  \/ Dies
  \/ Restarts
  \/ Gateway
  \/ \E id \in DOMAIN broker : Broker(id)

Spec == Init /\ [][Next]_vars

\* The loop polls its queues for ever and serves archives whose deadline passed;
\* the gateway polls its queue, and the broker ends every order it received.  A
\* service that died over a response is started again.
Fairness ==
  /\ WF_vars(HandleOrderRequest)
  /\ WF_vars(HandleResponses)
  /\ WF_vars(Archive)
  /\ WF_vars(Halt)
  /\ WF_vars(loop.pc = "settling" /\ Restarts)
  /\ WF_vars(Gateway)
  /\ \A id \in OrderIds : WF_vars(id \in DOMAIN broker /\ (BrokerAccept(id) \/ BrokerReject(id)))
  /\ \A id \in OrderIds : WF_vars(id \in DOMAIN broker /\ (MarketReject(id) \/ BrokerFinish(id)))

FairSpec == Spec /\ Fairness

-----------------------------------------------------------------------------
Request ==
  [internal_order_id : OrderIds, order_type : OrderType, trade_side : TradeSide,
   volume_entrust : Nat, dprice_entrust : Nat, orig_internal_order_id : Nat,
   dfee_estimate : Nat, order_state : OrderState, volume_traded : Nat, volume_remain : Nat]

Slot == [stage : OrderSlotState, request : Request]

Entry == [request : Request, fund_frozen : DValue, index : Nat \ {0}]

TradeResponse ==
  [internal_order_id : OrderIds, new_state : OrderState, trade_side : TradeSide,
   volume_traded : Nat, dvalue_traded : Nat, dfee : Nat]

BrokerOrder ==
  [phase : {"received", "working", "done"}, side : TradeSide, price : Nat, left : Nat, fee_left : Nat]

\* The values every variable keeps.  The indices that travel through the queues
\* and those the book remembers are slots that exist.
TypeOK ==
  /\ next_order_id \in 1 .. MaxOrders + 1
  /\ slots \in Seq(Slot)
  /\ upstream \in Seq(DOMAIN slots)
  /\ downstream \in Seq(DOMAIN slots)
  /\ responses \in Seq(TradeResponse)
  /\ fund \in Fund
  /\ position \in [available_t0 : Nat, available_t1 : Nat, sell : Nat]
  /\ DOMAIN book \subseteq OrderIds
  /\ book \in [DOMAIN book -> Entry]
  /\ \A id \in DOMAIN book : book[id].index \in DOMAIN slots
  /\ pending \subseteq OrderIds
  /\ loop \in [pc : {"idle", "route", "sent", "staged", "settling", "stopped"}, id : Nat]
  /\ loop.pc \in {"route", "sent", "staged"} => loop.id \in DOMAIN book
  /\ latched \in BOOLEAN
  /\ DOMAIN broker \subseteq OrderIds
  /\ broker \in [DOMAIN broker -> BrokerOrder]
  /\ market \in [cash : Int, bought : Nat, sold : Nat]
  /\ restarts \in 0 .. MaxRestarts
  /\ lost \in [cash : Int, bought : Nat, sold : Nat, ids : SUBSET OrderIds]

\* What a restart would rebuild from an order's slot is the order as the book knows
\* it: every change of the book reaches the slot through the change callback, and
\* neither the gateway's stage updates nor a restart breaks the copy.
SlotMirrorsBook ==
  \A id \in DOMAIN book :
    /\ book[id].request.internal_order_id = id
    /\ RecoveredRequest(slots[book[id].index].request) = RecoveredRequest(book[id].request)

Live(id) == book[id].request.order_state \notin TerminalState

\* What an order that has not ended holds of the account's frozen funds.
Held(id) == IF id \in DOMAIN book /\ Live(id) THEN book[id].fund_frozen ELSE 0

\* While the service does not restart, the account's frozen funds are exactly what
\* its live orders hold: nothing is left frozen for an order that has ended
\* (reserve, settle and release in event_loop.cpp).
FrozenBacksLiveOrders ==
  fund.frozen = InitialFund.frozen + SumFunction([id \in OrderIds |-> Held(id)])

\* Every buy and sell is paid at most once and in full: the account's cash, corrected
\* by the responses still queued and by those whose payment was refused or cut short
\* by a crash, is the exchange's.  Freezing, releasing and restarting move none.
CashAgrees ==
  (fund.available + fund.frozen) + lost.cash
    + SumFunction([i \in DOMAIN responses |-> CashMoved(responses[i])])
  = market.cash

\* While fees stay within the estimate and the service does not restart, the only
\* trade that can stop the service is a sell: one of more shares than the account
\* held, or one whose fee exceeds its proceeds.  A buy is always covered by what was
\* reserved for it (settle_buy_trade_fund after reserve_order_resources).
OnlySellsStopTheDay ==
  [][~ latched /\ latched' =>
       /\ Head(responses).trade_side = "Sell"
       /\ \/ market.sold > InitialHolding
          \/ Head(responses).dvalue_traded < Head(responses).dfee]_vars

\* The shares on the position row, those still queued and those of settlements that
\* were refused or cut short by a crash are the exchange's, restarts included: no
\* trade is counted twice and none disappears in another way.
HoldingsAgree ==
  /\ position.available_t1 + lost.bought
       + SumFunction([i \in DOMAIN responses |-> VolumeMoved(responses[i], "Buy")])
       = market.bought
  /\ (InitialHolding - position.available_t0) + lost.sold
       + SumFunction([i \in DOMAIN responses |-> VolumeMoved(responses[i], "Sell")])
       = market.sold

\* A trade report always finds its order in the book, also after a restart.
TradesReachTheBook ==
  \A i \in DOMAIN responses :
    responses[i].volume_traded > 0 => responses[i].internal_order_id \in DOMAIN book

\* An order goes to the broker at most once, whatever fails or restarts between.
SubmittedOnce ==
  /\ \A i, j \in DOMAIN downstream : downstream[i] = downstream[j] => i = j
  /\ \A i \in DOMAIN downstream : slots[downstream[i]].request.internal_order_id \notin DOMAIN broker

\* An order that has ended never comes back to life while the book holds it.
TerminalIsFinal ==
  [][\A id \in DOMAIN book \cap DOMAIN book' : ~ Live(id) => ~ Live(id)']_vars

\* Unless a refused settlement stops the service for good, a request that got a slot
\* is brought to an end that its client can see there.  The exception is an order
\* whose last report was popped by a service that died before it wrote the slot.
EverySlotResolves ==
  \/ <>[](loop.pc = "stopped")
  \/ \A i \in 1 .. MaxOrders :
       i \in DOMAIN slots ~>
         /\ i \in DOMAIN slots
         /\ \/ slots[i].stage \in {"Terminal", "RiskRejected", "QueuePushFailed"}
            \/ slots[i].request.internal_order_id \in lost.ids
=============================================================================
