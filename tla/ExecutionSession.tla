--------------------------- MODULE ExecutionSession ---------------------------
(***************************************************************************)
(* Managed orders: a parent order whose passive algorithm is FixedSize,    *)
(* Iceberg or TWAP is not routed but worked off by a session of the        *)
(* execution engine, which sends child orders one clip or one time slice   *)
(* at a time, keeps a ledger of them, and mirrors their progress into the  *)
(* parent's entry of the order book.  Cancels of a parent fan out to its   *)
(* children through the router.                                            *)
(*                                                                         *)
(* One iteration of the event loop handles orders, then responses, then    *)
(* ticks every session, so a cancel never meets a child whose end the      *)
(* session has not seen.  The loop is one thread; a tick is one step       *)
(* except where it may push twice to the downstream queue, which the       *)
(* gateway empties meanwhile.  Volumes are modelled, prices and fees only  *)
(* as far as a price can be found.  Funds are those of EventLoop: a child  *)
(* has none reserved.                                                      *)
(***************************************************************************)
EXTENDS OrderVocabulary, Naturals, Sequences, FiniteSets, FiniteSetsExt, SequencesExt

CONSTANTS
  Parents,           \* the managed orders clients may place: algorithm, volume and limit price
  MaxParents,        \* bound: orders clients place
  MaxRequests,       \* bound: requests clients make, cancels included
  CancelTargets,     \* the order ids clients ask to cancel
  DefaultStrategy,   \* split_config: the strategy of orders that name none
  MinChildVolume, MaxChildVolume, MaxChildCount,
  TwapInterval,      \* split_config.interval_ms, in units of the clock
  MarketDataReady,   \* MarketDataService::is_ready, settled at start-up
  AllowOrderPriceFallback,
  ActiveStrategy,    \* an active strategy is configured
  MaxPublications,   \* bound: predictions published
  PoolCapacity, BookCapacity, DownstreamBound, ResponseBound,
  ArchiveTerminal    \* ended orders leave the book at once

PassiveExecutionAlgo == {"Default", "None", "FixedSize", "TWAP", "VWAP", "Iceberg"}

ASSUME ParentsAssumption ==
  /\ Parents \subseteq [algo : PassiveExecutionAlgo, volume : Nat \ {0}, dprice : Nat]
  /\ CancelTargets \subseteq Nat
  /\ DefaultStrategy \in PassiveExecutionAlgo \ {"Default"}

ASSUME SplitConfigAssumption ==
  /\ MinChildVolume \in Nat /\ MaxChildVolume \in Nat /\ MaxChildCount \in Nat /\ TwapInterval \in Nat
  /\ MarketDataReady \in BOOLEAN /\ AllowOrderPriceFallback \in BOOLEAN /\ ActiveStrategy \in BOOLEAN
  /\ ArchiveTerminal \in BOOLEAN

ASSUME LimitsAssumption ==
  /\ MaxParents \in Nat /\ MaxRequests \in Nat /\ MaxPublications \in Nat
  /\ PoolCapacity \in Nat /\ BookCapacity \in Nat /\ DownstreamBound \in Nat /\ ResponseBound \in Nat

VARIABLES
  publication,    \* publish_seq_no of the prediction in the snapshot
  requests,       \* client requests made so far
  next_order_id,  \* upstream header: ids for clients and children alike
  pool,           \* slots of orders_shm in use
  upstream,       \* requests waiting
  downstream,     \* ids of the orders sent to the gateway
  responses,      \* response_queue
  book,           \* OrderBook: order id -> entry
  children,       \* parent_to_children_, never pruned
  sessions,       \* ExecutionEngine::sessions_: parent id -> session
  loop,           \* the part of loop_iteration under way, the sessions it has still to
                  \* tick, and the one between its active and its passive attempt
  broker          \* the orders the broker has received

vars == <<publication, requests, next_order_id, pool, upstream, downstream, responses,
          book, children, sessions, loop, broker>>

NoOne == 0

Init ==
  /\ publication = 0
  /\ requests = 0
  /\ next_order_id = 1
  /\ pool = 0
  /\ upstream = <<>>
  /\ downstream = <<>>
  /\ responses = <<>>
  /\ book = [id \in {} |-> {}]
  /\ children = [id \in {} |-> {}]
  /\ sessions = [id \in {} |-> {}]
  /\ loop = [phase |-> "orders", todo |-> {}, fallback |-> NoOne]
  /\ broker = [id \in {} |-> {}]

\* f with k mapped to v, whether or not f knew k.
Put(f, k, v) == [x \in DOMAIN f \cup {k} |-> IF x = k THEN v ELSE f[x]]

Less(a, b) == IF a < b THEN 0 ELSE a - b

Smaller(a, b) == IF a < b THEN a ELSE b

-----------------------------------------------------------------------------
(* Algorithms and their parameters.                                        *)

\* resolve_passive_split_strategy: an order's own choice before the default.
ResolveStrategy(algo) == IF algo = "Default" THEN DefaultStrategy ELSE algo

ManagedStrategies == {"FixedSize", "TWAP", "VWAP", "Iceberg"}

SupportedStrategies == {"FixedSize", "TWAP", "Iceberg"}

ClipVolume ==
  IF MaxChildVolume # 0 THEN MaxChildVolume ELSE IF MinChildVolume # 0 THEN MinChildVolume ELSE 1

\* build_twap_slice_plan: at most MaxChildCount slices, the first ones a share larger.
\* There are never more slices than shares, so none is empty.
TwapSlicePlan(volume) ==
  LET count == Smaller((volume + ClipVolume - 1) \div ClipVolume, MaxChildCount)
  IN [i \in 1 .. count |-> volume \div count + (IF i <= volume % count THEN 1 ELSE 0)]

\* is_valid of the session the factory would create.
Splittable(strategy, volume) ==
  strategy = "TWAP" => TwapInterval # 0 /\ TwapSlicePlan(volume) # <<>>

\* is_failure_terminal_state.
FailureStates == {"TraderRejected", "TraderError", "BrokerRejected", "MarketRejected", "Unknown"}

\* status_progress_rank: the position here, 0 for every other state.
Progress ==
  <<"UserSubmitted", "RiskControllerPending", "RiskControllerAccepted", "TraderPending",
    "TraderSubmitted", "BrokerAccepted", "MarketAccepted">>

Furthest(states) ==
  LET ranks == {i \in DOMAIN Progress : Progress[i] \in states} IN Progress[Max(ranks)]

-----------------------------------------------------------------------------
(* The ledger of a session.                                                *)

\* child_execution_ledger::unresolved_volume.
Unresolved(l) == IF l.finalized THEN 0 ELSE Less(l.entrust, l.traded + l.cancelled)

ConfirmedTraded(s) == SumFunction([c \in DOMAIN s.ledgers |-> s.ledgers[c].traded])

WorkingVolume(s) == SumFunction([c \in DOMAIN s.ledgers |-> Unresolved(s.ledgers[c])])

\* What the session has sent out, whatever became of it.
SentVolume(s) == SumFunction([c \in DOMAIN s.ledgers |-> s.ledgers[c].entrust])

\* Fault: what has been traded does not reduce the target.
RemainingTargetUnreduced(s) == s.target

RemainingTarget(s) == Less(s.target, ConfirmedTraded(s))

SchedulableVolume(s) == Less(RemainingTarget(s), WorkingVolume(s))

DeriveParentState(s) ==
  IF s.failed THEN "TraderError"
  ELSE IF s.terminal THEN "Finished"
  ELSE Furthest({"TraderPending"} \cup {s.ledgers[c].state : c \in DOMAIN s.ledgers})

DeriveExecutionState(s) ==
  IF s.failed THEN "Failed"
  ELSE IF s.terminal THEN "Finished"
  ELSE IF s.cancel_requested THEN "Cancelling" ELSE "Running"

\* sync_parent_view and OrderBook::sync_managed_parent_view: parent is p's entry.
ParentView(parent, s) ==
  [parent EXCEPT !.order_state = DeriveParentState(s),
                 !.execution_state = DeriveExecutionState(s),
                 !.volume_traded = ConfirmedTraded(s),
                 !.volume_remain = RemainingTarget(s),
                 !.working_volume = WorkingVolume(s),
                 !.schedulable_volume = SchedulableVolume(s)]

-----------------------------------------------------------------------------
(* The router and the book.  A world is the part of the state a handler of *)
(* the loop changes.                                                       *)

World ==
  [next_order_id |-> next_order_id, pool |-> pool, downstream |-> downstream,
   book |-> book, children |-> children, sessions |-> sessions]

Become(next) ==
  \E w \in {next} :
    /\ next_order_id' = w.next_order_id
    /\ pool' = w.pool
    /\ downstream' = w.downstream
    /\ book' = w.book
    /\ children' = w.children
    /\ sessions' = w.sessions

Entry(type, parent, orig, volume, state) ==
  [order_type |-> type, parent_order_id |-> parent, orig_internal_order_id |-> orig,
   volume_entrust |-> volume, volume_traded |-> 0, volume_remain |-> volume, order_state |-> state,
   execution_state |-> "None", working_volume |-> 0, schedulable_volume |-> 0]

\* add_order refuses a known id and a full book, and registers a child with its parent.
CanAdd(w, id) == id \notin DOMAIN w.book /\ Cardinality(DOMAIN w.book) < BookCapacity

ChildrenOf(w, p) == IF p \in DOMAIN w.children THEN w.children[p] ELSE <<>>

AddOrder(w, id, e) ==
  [w EXCEPT !.book = Put(w.book, id, e),
            !.children = IF e.parent_order_id = NoOne THEN w.children
                         ELSE Put(w.children, e.parent_order_id,
                                  Append(ChildrenOf(w, e.parent_order_id), id))]

\* An internal order: a slot, an entry, a push.  Each may fail, and what the earlier
\* ones did stays done.  outcome.sent tells whether the order is on its way.
SendInternal(w, id, e) ==
  LET slotted == [w EXCEPT !.pool = w.pool + 1]
      added == AddOrder(slotted, id, e)
      pushed == [added EXCEPT !.downstream = Append(w.downstream, id),
                              !.book[id].order_state = "TraderSubmitted"]
  IN IF w.pool >= PoolCapacity THEN [world |-> w, sent |-> FALSE]
     ELSE IF ~ CanAdd(w, id) THEN [world |-> slotted, sent |-> FALSE]
     ELSE IF Len(w.downstream) >= DownstreamBound
          THEN [world |-> [added EXCEPT !.book[id].order_state = "TraderError"], sent |-> FALSE]
     ELSE [world |-> pushed, sent |-> TRUE]

\* route_cancel's loop body for one child of the cancelled order.  The first live
\* child takes the id of the client's cancel, the others get fresh ones.
CancelChild(f, orig, cancel, c) ==
  LET w == f.world
      live == /\ c \in DOMAIN w.book
              /\ w.book[c].order_type = "New"
              /\ w.book[c].order_state \notin TerminalState
      id == IF f.used THEN w.next_order_id ELSE cancel
      allocated == IF f.used THEN [w EXCEPT !.next_order_id = w.next_order_id + 1] ELSE w
      o == SendInternal(allocated, id, Entry("Cancel", orig, c, 0, "TraderPending"))
  IN IF live
     THEN [world |-> o.world, used |-> TRUE, sent |-> f.sent \/ o.sent, failed |-> f.failed \/ ~ o.sent]
     ELSE f

\* route_cancel, for an order with children and for one without.
RouteCancel(w, orig, cancel) ==
  LET start == [world |-> w, used |-> FALSE, sent |-> FALSE, failed |-> FALSE]
      kids == ChildrenOf(w, orig)
      fanned[n \in 0 .. Len(kids)] ==
        IF n = 0 THEN start ELSE CancelChild(fanned[n - 1], orig, cancel, kids[n])
      f == fanned[Len(kids)]
      marked == [f.world EXCEPT !.book[orig].order_state = "TraderError"]
  IN IF kids = <<>>
     THEN SendInternal(w, cancel, Entry("Cancel", NoOne, orig, 0, "TraderPending"))
     ELSE [world |-> IF f.failed /\ orig \in DOMAIN f.world.book THEN marked ELSE f.world,
           sent |-> f.sent]

\* A TWAP session whose last slice has not come up yet.
Waiting(s) == s.algo = "TWAP" /\ s.age < (Len(TwapSlicePlan(s.target)) - 1) * TwapInterval

-----------------------------------------------------------------------------
(* Clients, the clock and the market data (external to the service).       *)

MakeRequest(q) ==
  /\ requests < MaxRequests
  /\ pool < PoolCapacity
  /\ requests' = requests + 1
  /\ next_order_id' = next_order_id + 1
  /\ pool' = pool + 1
  /\ upstream' = Append(upstream, q)
  /\ UNCHANGED <<publication, downstream, responses, book, children, sessions, loop, broker>>

SubmitParent(order) ==
  /\ requests < MaxParents
  /\ MakeRequest([id |-> next_order_id, order_type |-> "New", algo |-> order.algo,
                  volume |-> order.volume, dprice |-> order.dprice, orig |-> NoOne])

CancelParent(orig) ==
  MakeRequest([id |-> next_order_id, order_type |-> "Cancel", algo |-> "None",
               volume |-> 0, dprice |-> 0, orig |-> orig])

\* Time passes for the TWAP sessions, which only compare it with the time of their slices.
TickClock ==
  /\ \E p \in DOMAIN sessions : Waiting(sessions[p])
  /\ sessions' = [p \in DOMAIN sessions |->
                    IF Waiting(sessions[p]) THEN [sessions[p] EXCEPT !.age = @ + 1] ELSE sessions[p]]
  /\ UNCHANGED <<publication, requests, next_order_id, pool, upstream, downstream, responses,
                 book, children, loop, broker>>

PublishPrediction ==
  /\ publication < MaxPublications
  /\ publication' = publication + 1
  /\ UNCHANGED <<requests, next_order_id, pool, upstream, downstream, responses,
                 book, children, sessions, loop, broker>>

-----------------------------------------------------------------------------
(* Orders: handle_order_request.                                           *)

TakeRequest ==
  /\ loop.phase = "orders"
  /\ upstream # <<>>
  /\ CanAdd(World, Head(upstream).id)
  /\ upstream' = Tail(upstream)

\* add_order refuses: the order ends in its slot, the book never knew it.
RefuseRequest ==
  /\ loop.phase = "orders"
  /\ upstream # <<>>
  /\ ~ CanAdd(World, Head(upstream).id)
  /\ upstream' = Tail(upstream)
  /\ UNCHANGED <<publication, requests, next_order_id, pool, downstream, responses,
                 book, children, sessions, loop, broker>>

\* start_session refuses VWAP, an engine without prices, and what cannot be split.
StartRefused(q) ==
  LET strategy == ResolveStrategy(q.algo) IN
  \/ strategy \notin SupportedStrategies
  \/ ~ MarketDataReady /\ ~ AllowOrderPriceFallback
  \/ ~ Splittable(strategy, q.volume)

RejectParent ==
  LET q == Head(upstream) IN
  /\ TakeRequest
  /\ q.order_type = "New"
  /\ StartRefused(q)
  /\ book' = Put(book, q.id, Entry("New", NoOne, NoOne, q.volume, "TraderRejected"))
  /\ UNCHANGED <<publication, requests, next_order_id, pool, downstream, responses,
                 children, sessions, loop, broker>>

NewSession(q) ==
  [algo |-> ResolveStrategy(q.algo), target |-> q.volume, dprice |-> q.dprice, age |-> 0,
   ledgers |-> [id \in {} |-> {}], cancel_requested |-> FALSE, failed |-> FALSE, terminal |-> FALSE,
   slice |-> 1, slice_consumed |-> FALSE, last_publication |-> 0]

\* start_session registers the session; its first tick follows at once.
StartSession ==
  LET q == Head(upstream) IN
  /\ TakeRequest
  /\ q.order_type = "New"
  /\ ~ StartRefused(q)
  /\ book' = Put(book, q.id, Entry("New", NoOne, NoOne, q.volume, "TraderPending"))
  /\ sessions' = Put(sessions, q.id, NewSession(q))
  /\ loop' = [phase |-> "start", todo |-> {q.id}, fallback |-> NoOne]
  /\ UNCHANGED <<publication, requests, next_order_id, pool, downstream, responses,
                 children, broker>>

\* The cancel gets an entry of its own, then the router runs; when nothing was sent
\* the cancel ends as TraderError.
HandleCancel ==
  LET q == Head(upstream)
      added == AddOrder(World, q.id, Entry("Cancel", NoOne, q.orig, 0, "RiskControllerAccepted"))
      o == RouteCancel(added, q.orig, q.id)
  IN
  /\ TakeRequest
  /\ q.order_type = "Cancel"
  /\ Become(IF o.sent THEN o.world ELSE [o.world EXCEPT !.book[q.id].order_state = "TraderError"])
  /\ UNCHANGED <<publication, requests, responses, loop, broker>>

\* process_upstream_orders stops at an empty queue.  It also stops after a batch, which
\* is as if the rest had arrived after the pass.
EndOrders ==
  /\ loop.phase = "orders"
  /\ upstream = <<>>
  /\ loop' = [loop EXCEPT !.phase = "responses"]
  /\ UNCHANGED <<publication, requests, next_order_id, pool, upstream, downstream, responses,
                 book, children, sessions, broker>>

-----------------------------------------------------------------------------
(* Responses: ExecutionEngine::on_trade_response, then the order book.     *)

\* finalize_finished_child: the cancelled volume the broker states, cut to what is
\* left, or all that is left when it states none.
FinishedCancelled(l, cancelled) ==
  IF cancelled > 0 THEN Smaller(cancelled, Less(l.entrust, l.traded)) ELSE Unresolved(l)

\* Fault: a slice the broker cancelled in part is never left behind.
AdvanceSliceWhenFilled(s) ==
  IF s.algo = "TWAP" /\ s.slice_consumed /\ \A c \in DOMAIN s.ledgers : s.ledgers[c].traded = s.ledgers[c].entrust
  THEN [s EXCEPT !.slice = @ + 1, !.slice_consumed = FALSE, !.last_publication = 0]
  ELSE s

\* advance_slice_if_ready.
AdvanceSlice(s) ==
  IF s.algo = "TWAP" /\ s.slice_consumed /\ WorkingVolume(s) = 0
  THEN [s EXCEPT !.slice = IF @ <= Len(TwapSlicePlan(s.target)) THEN @ + 1 ELSE @,
                 !.slice_consumed = FALSE, !.last_publication = 0]
  ELSE s

\* ExecutionSession::on_trade_response: r reports on the child c of s.
OnTradeResponse(s, r) ==
  LET c == r.internal_order_id
      l == s.ledgers[c]
      heard == [l EXCEPT !.traded = Smaller(l.entrust, @ + r.volume_traded), !.state = r.new_state]
      ended == [heard EXCEPT !.cancelled = IF r.new_state = "Finished"
                                           THEN FinishedCancelled(heard, r.cancelled_volume)
                                           ELSE Unresolved(heard),
                             !.finalized = TRUE]
  IN IF c \notin DOMAIN s.ledgers \/ l.finalized THEN s
     ELSE IF r.new_state \notin FailureStates \cup {"Finished"}
          THEN [s EXCEPT !.ledgers[c] = heard]
     ELSE AdvanceSlice([s EXCEPT !.ledgers[c] = ended, !.failed = @ \/ r.new_state \in FailureStates])

\* OrderBook::update_state and update_trade on the child's entry.
UpdateEntry(e, r) ==
  LET remain == Less(e.volume_remain, r.volume_traded) IN
  [e EXCEPT !.volume_traded = Smaller(e.volume_entrust, @ + r.volume_traded),
            !.volume_remain = remain,
            !.order_state = IF remain = 0 /\ r.volume_traded > 0 /\ r.new_state \notin TerminalState
                            THEN "Finished" ELSE r.new_state]

\* The parent child_to_parent_ names, or NoOne.
ParentOf(c) ==
  IF \E p \in DOMAIN children : c \in Range(children[p])
  THEN CHOOSE p \in DOMAIN children : c \in Range(children[p]) ELSE NoOne

HandleTradeResponse ==
  LET r == Head(responses)
      c == r.internal_order_id
      p == ParentOf(c)
      archived == r.new_state \in TerminalState /\ ArchiveTerminal
  IN
  /\ loop.phase = "responses"
  /\ responses # <<>>
  /\ responses' = Tail(responses)
  /\ sessions' = IF p \in DOMAIN sessions
                 THEN [sessions EXCEPT ![p] = OnTradeResponse(@, r)] ELSE sessions
  /\ book' = [id \in IF archived THEN DOMAIN book \ {c} ELSE DOMAIN book |->
                IF id = c THEN UpdateEntry(book[c], r) ELSE book[id]]
  /\ UNCHANGED <<publication, requests, next_order_id, pool, upstream, downstream,
                 children, loop, broker>>

EndResponses ==
  /\ loop.phase = "responses"
  /\ responses = <<>>
  /\ loop' = [phase |-> "tick", todo |-> DOMAIN sessions, fallback |-> NoOne]
  /\ UNCHANGED <<publication, requests, next_order_id, pool, upstream, downstream, responses,
                 book, children, sessions, broker>>

-----------------------------------------------------------------------------
(* Ticks of a session.                                                     *)

\* What the session finds when it reads the snapshot of its security: nothing, or the
\* best level valid or not and the prediction stale, fresh, or fresh and over the threshold.
Views ==
  {v \in [readable : BOOLEAN, level : BOOLEAN, fresh : BOOLEAN, hit : BOOLEAN] :
     /\ v.readable => MarketDataReady
     /\ v.level \/ v.fresh => v.readable
     /\ v.hit => v.fresh}

\* resolve_submit_price: the best level, else the parent's limit where allowed.
PriceFound(s, v) ==
  \/ v.readable /\ v.level
  \/ AllowOrderPriceFallback /\ s.dprice # 0

\* try_active_submit: a fresh prediction not evaluated before that hits the threshold.
Evaluates(s, v) ==
  ActiveStrategy /\ v.readable /\ v.fresh /\ publication # s.last_publication

\* refresh_parent_state: an entry of a cancel among the parent's children.
Refreshed(p) ==
  [sessions[p] EXCEPT
     !.cancel_requested = \E c \in Range(ChildrenOf(World, p)) :
                            c \in DOMAIN book /\ book[c].order_type = "Cancel"]

SlicesDone(s) == s.slice > Len(TwapSlicePlan(s.target))

\* The budget of the clip or slice at hand.
Budget(s) ==
  IF s.algo = "TWAP"
  THEN IF SlicesDone(s) THEN 0 ELSE Smaller(TwapSlicePlan(s.target)[s.slice], SchedulableVolume(s))
  ELSE Smaller(ClipVolume, SchedulableVolume(s))

\* Fault: a clip algorithm stops once everything has been sent.
EndsWhenSent(s) ==
  \/ s.failed
  \/ /\ WorkingVolume(s) = 0
     /\ \/ s.cancel_requested
        \/ IF s.algo = "TWAP" THEN SlicesDone(s)
           ELSE SentVolume(s) >= s.target

\* The tick ends the session before it gets to submit.
Ends(s) ==
  \/ s.failed
  \/ /\ WorkingVolume(s) = 0
     /\ \/ s.cancel_requested
        \/ IF s.algo = "TWAP" THEN SlicesDone(s) ELSE RemainingTarget(s) = 0

\* The tick gets as far as asking for a price.
Submits(s) ==
  /\ ~ Ends(s)
  /\ ~ s.cancel_requested
  /\ Budget(s) > 0
  /\ IF s.algo = "TWAP" THEN ~ s.slice_consumed ELSE WorkingVolume(s) = 0

\* A slice waits for its time before the passive order goes out; clips do not wait.
PassiveDue(s) == s.algo = "TWAP" => s.age >= (s.slice - 1) * TwapInterval

\* What the active strategy may decide on, and what the passive algorithm takes.
ChildVolumes(s, active) == IF active THEN 1 .. Budget(s) ELSE {Budget(s)}

\* submit_child: w is the world with the session as the tick has left it so far.
SubmitChild(w, p, volume) ==
  LET s == w.sessions[p]
      id == w.next_order_id
      o == SendInternal([w EXCEPT !.next_order_id = id + 1], id,
                        Entry("New", p, NoOne, volume, "TraderPending"))
      ledger == [entrust |-> volume, traded |-> 0, cancelled |-> 0, finalized |-> FALSE,
                 state |-> "TraderSubmitted"]
  IN [sent |-> o.sent,
      world |-> IF o.sent
                THEN [o.world EXCEPT !.sessions[p].ledgers = Put(s.ledgers, id, ledger),
                                     !.sessions[p].slice_consumed = s.algo = "TWAP"]
                ELSE [o.world EXCEPT !.sessions[p].failed = TRUE, !.sessions[p].terminal = TRUE]]

\* Fault: a tick that only waits for its child does not refresh the parent.
SyncedWhenIdle(w, p) ==
  IF WorkingVolume(w.sessions[p]) > 0 THEN w
  ELSE [w EXCEPT !.book[p] = ParentView(w.book[p], w.sessions[p])]

\* sync_parent_view at the end of a tick.
Synced(w, p) == [w EXCEPT !.book[p] = ParentView(w.book[p], w.sessions[p])]

\* The loop after the tick of p: back to the orders when p has just been started.
Ticked(p) ==
  IF loop.phase = "start" THEN [phase |-> "orders", todo |-> {}, fallback |-> NoOne]
  ELSE [loop EXCEPT !.todo = @ \ {p}, !.fallback = NoOne]

\* One tick of p's session with the market as v shows it.
Tick(p, v) ==
  \E s \in {AdvanceSlice(Refreshed(p))} :
    LET w == [World EXCEPT !.sessions[p] = s]
        asked == IF Evaluates(s, v) THEN [w EXCEPT !.sessions[p].last_publication = publication] ELSE w
        active == Evaluates(s, v) /\ v.hit
        submits == Submits(s) /\ PriceFound(s, v)
    IN
    /\ p \in loop.todo
    /\ loop.fallback = NoOne
    /\ \/ /\ Ends(s)
          /\ Become(Synced([w EXCEPT !.sessions[p].terminal = TRUE], p))
          /\ loop' = Ticked(p)
       \/ /\ ~ Ends(s)
          /\ ~ submits
          /\ Become(Synced(w, p))
          /\ loop' = Ticked(p)
       \/ /\ submits
          /\ ~ active /\ ~ PassiveDue(s)
          /\ Become(Synced(asked, p))
          /\ loop' = Ticked(p)
       \/ /\ submits
          /\ active \/ PassiveDue(s)
          /\ \E o \in {SubmitChild(asked, p, volume) : volume \in ChildVolumes(s, active)} :
               /\ Become(Synced(o.world, p))
               /\ loop' = IF active /\ ~ o.sent /\ PassiveDue(s)
                          THEN [loop EXCEPT !.fallback = p] ELSE Ticked(p)
    /\ UNCHANGED <<publication, requests, upstream, responses, broker>>

\* The active attempt could not be sent, which has ended the session, and the tick
\* goes on to the passive one.  A TWAP tick leaves the mirror of an ended session alone.
Fallback(p) ==
  /\ p = loop.fallback
  /\ LET o == SubmitChild(World, p, Budget(sessions[p]))
     IN Become(IF sessions[p].algo = "TWAP" /\ o.sent THEN o.world ELSE Synced(o.world, p))
  /\ loop' = Ticked(p)
  /\ UNCHANGED <<publication, requests, upstream, responses, broker>>

\* ExecutionEngine::tick forgets the sessions that have ended.
EndTick ==
  /\ loop.phase = "tick"
  /\ loop.todo = {}
  /\ sessions' = [p \in {q \in DOMAIN sessions : ~ sessions[q].terminal} |-> sessions[p]]
  /\ loop' = [loop EXCEPT !.phase = "orders"]
  /\ UNCHANGED <<publication, requests, next_order_id, pool, upstream, downstream, responses,
                 book, children, broker>>

-----------------------------------------------------------------------------
(* Gateway and broker, as far as the service can tell.                     *)

Response(id, state, volume, cancelled) ==
  [internal_order_id |-> id, new_state |-> state, volume_traded |-> volume, cancelled_volume |-> cancelled]

GatewaySubmit ==
  /\ downstream # <<>>
  /\ downstream' = Tail(downstream)
  /\ broker' = Put(broker, Head(downstream),
                   [phase |-> "received", entrust |-> book[Head(downstream)].volume_entrust, filled |-> 0])
  /\ UNCHANGED <<publication, requests, next_order_id, pool, upstream, responses,
                 book, children, sessions, loop>>

GatewayRefuse ==
  /\ downstream # <<>>
  /\ Len(responses) < ResponseBound
  /\ downstream' = Tail(downstream)
  /\ responses' = Append(responses, Response(Head(downstream), "TraderError", 0, 0))
  /\ UNCHANGED <<publication, requests, next_order_id, pool, upstream,
                 book, children, sessions, loop, broker>>

BrokerReport(id, r, o) ==
  /\ Len(responses) < ResponseBound
  /\ responses' = Append(responses, r)
  /\ broker' = [broker EXCEPT ![id] = o]
  /\ UNCHANGED <<publication, requests, next_order_id, pool, upstream, downstream,
                 book, children, sessions, loop>>

BrokerAccept(id) ==
  /\ broker[id].phase = "received"
  /\ BrokerReport(id, Response(id, "BrokerAccepted", 0, 0), [broker[id] EXCEPT !.phase = "working"])

BrokerReject(id) ==
  /\ broker[id].phase = "received"
  /\ BrokerReport(id, Response(id, "BrokerRejected", 0, 0), [broker[id] EXCEPT !.phase = "done"])

BrokerTrade(id, volume) ==
  /\ broker[id].phase = "working"
  /\ BrokerReport(id, Response(id, "MarketAccepted", volume, 0), [broker[id] EXCEPT !.filled = @ + volume])

\* The order ends; the broker may or may not state what it cancelled.
BrokerFinish(id, states) ==
  /\ broker[id].phase = "working"
  /\ BrokerReport(id, Response(id, "Finished", 0,
                               IF states THEN broker[id].entrust - broker[id].filled ELSE 0),
                  [broker[id] EXCEPT !.phase = "done"])

-----------------------------------------------------------------------------
HandleOrders ==
  RefuseRequest \/ RejectParent \/ StartSession \/ HandleCancel \/ EndOrders

HandleResponses == HandleTradeResponse \/ EndResponses

TickSessions ==
  \/ \E p \in loop.todo, v \in Views : Tick(p, v)
  \/ \E p \in loop.todo : Fallback(p)
  \/ EndTick

Loop == HandleOrders \/ HandleResponses \/ TickSessions

Gateway == GatewaySubmit \/ GatewayRefuse

Broker(id) ==
  \/ BrokerAccept(id) \/ BrokerReject(id)
  \/ \E volume \in 1 .. broker[id].entrust - broker[id].filled : BrokerTrade(id, volume)
  \/ \E states \in BOOLEAN : BrokerFinish(id, states)

Next ==
  \/ \E order \in Parents : SubmitParent(order)
  \/ \E orig \in CancelTargets : CancelParent(orig)
  \/ TickClock
  \/ PublishPrediction
  \/ Loop
  \/ Gateway
  \/ \E id \in DOMAIN broker : Broker(id)

Spec == Init /\ [][Next]_vars

\* The broker decides on the orders it has received.
BrokerEnds ==
  \E id \in DOMAIN broker :
    BrokerAccept(id) \/ BrokerReject(id) \/ \E states \in BOOLEAN : BrokerFinish(id, states)

\* The loop goes round for ever, the clock runs, the gateway takes what is queued, and
\* the broker does not leave an order open for ever.
Fairness ==
  /\ WF_vars(Loop)
  /\ WF_vars(TickClock)
  /\ WF_vars(Gateway)
  /\ WF_vars(BrokerEnds)

FairSpec == Spec /\ Fairness

-----------------------------------------------------------------------------
\* The loop only ticks and retries sessions that exist, a session belongs to an order
\* in the book, and its ledger knows only children the book has registered with it.
TypeOK ==
  /\ loop.phase \in {"orders", "responses", "start", "tick"}
  /\ loop.todo \subseteq DOMAIN sessions
  /\ loop.fallback \in loop.todo \cup {NoOne}
  /\ DOMAIN sessions \subseteq DOMAIN book
  /\ pool \in 0 .. PoolCapacity
  /\ Cardinality(DOMAIN book) <= BookCapacity
  /\ Len(downstream) <= DownstreamBound
  /\ \A p \in DOMAIN sessions :
       /\ DOMAIN sessions[p].ledgers \subseteq Range(ChildrenOf(World, p))
       /\ \A c \in DOMAIN sessions[p].ledgers :
            LET l == sessions[p].ledgers[c]
            IN l.traded + l.cancelled <= l.entrust

-----------------------------------------------------------------------------
NewChildren(p) ==
  {c \in Range(ChildrenOf(World, p)) : c \in DOMAIN broker \/ c \in Range(downstream)}

\* What a child may yet come to: its fills, and all of it while it is open.
Exposure(c) ==
  IF c \notin DOMAIN broker THEN book[c].volume_entrust
  ELSE IF broker[c].phase = "done" THEN broker[c].filled ELSE broker[c].entrust

Target(p) == book[p].volume_entrust

\* The managed orders the book holds.
ManagedParents == {p \in DOMAIN book : p \in DOMAIN sessions \cup DOMAIN children /\ book[p].order_type = "New"}

\* However fills, refusals, partial cancels, retries and slices interleave, the orders
\* a session has at the broker or on the way there never add up to more than the
\* client asked for (the budget of execution_engine.cpp).
NeverOverfilled ==
  \A p \in ManagedParents : SumFunction([c \in NewChildren(p) |-> Exposure(c)]) <= Target(p)

\* The fills of p's children that the loop has handled.
Handled(p) ==
  LET mine == Range(ChildrenOf(World, p)) IN
  SumFunction([c \in mine \cap DOMAIN broker |-> broker[c].filled])
  - SumFunction([i \in DOMAIN responses |->
                   IF responses[i].internal_order_id \in mine THEN responses[i].volume_traded ELSE 0])

MirrorIsExact(p) == book[p].volume_traded = Handled(p)

\* At the end of every iteration the parent of a running or finished session shows
\* exactly what its children have traded: the session's ledger, the book's entries of
\* the children and the broker agree (sync_parent_view).
ParentMirrorsChildren ==
  loop.phase = "orders" =>
    \A p \in ManagedParents : book[p].order_state # "TraderError" => MirrorIsExact(p)

\* Clips are worked off when they have filled the whole target, whatever the broker
\* cancelled on the way.  A TWAP has then sent one child for every slice of its plan; what an
\* active child left of its slice is not made up for, so it has sent its whole target for
\* sure only without an active strategy.
FullyWorked(s) ==
  IF s.algo = "TWAP"
  THEN /\ Cardinality(DOMAIN s.ledgers) = Len(TwapSlicePlan(s.target))
       /\ ActiveStrategy \/ SentVolume(s) = s.target
  ELSE ConfirmedTraded(s) = s.target

\* A session that reports Finished has been cancelled or is worked off.
FinishedMeansWorkedOff ==
  \A p \in DOMAIN sessions :
    sessions[p].terminal /\ ~ sessions[p].failed => sessions[p].cancel_requested \/ FullyWorked(sessions[p])

\* Every session comes to an end that its client can see, with prices that fall back to
\* the order's own and a broker that ends what it received.
SessionsEnd ==
  \A id \in 1 .. MaxRequests :
    id \in DOMAIN sessions ~>
      id \notin DOMAIN sessions /\ id \in DOMAIN book /\ book[id].order_state \in TerminalState

\* The state of the engine is well formed, and a session that reports Finished has
\* really been cancelled or worked off (ExecutionSession::derive_execution_state).
SessionInvariant == TypeOK /\ FinishedMeansWorkedOff

=============================================================================
