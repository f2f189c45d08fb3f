# TLA+ models of the account services

Three kinds of processes trade for one account over POSIX shared memory:

```
 strategies (order_api)          account service                    gateway
 ----------------------   --------------------------------   --------------------
 append slot, push index ->  EventLoop: book, risk, fund  ->  order queue -> broker
      (upstream queue)        reservation, router, sessions    adapter
 monitors read the slots <-  settlement, archive          <-  response queue <- events
                    orders_shm, positions_shm (shared memory)
```

This directory holds models of that system, the TLC configurations that check
them on small instances, and proofs that hold for every instance.

## Inventory

| Part | State it keeps | Operations | What makes it correct |
|---|---|---|---|
| Ring queue (`shm/spsc_queue.hpp`) | head, tail, cells | push, pop, peek by two processes | no cell is shared; every item delivered once and in order |
| Order slots (`shm/orders_shm.hpp`) | pool of slots: sequence number, stage, copy of the request; the next free index | allocate, write, sync, stage update, snapshot | a slot has one owner; no reader accepts a torn copy; a slot says where its order is |
| Order API (`api/order_api.cpp`) | next order id in the upstream header, a cache of prepared orders | open or create the segments, new, send, submit, cancel | everybody uses one memory; an id is used once; what is queued is complete |
| Event loop (`core/event_loop.cpp`) | archive deadlines | one iteration: orders, responses, archives, execution tick | reservations, settlement and release balance; nothing lost or done twice |
| Order book (`order/order_book.cpp`) | entries, children of a parent | add, update state, update trade, archive, sync a managed parent | an ended order stays ended; a parent is the sum of its children |
| Order router (`order/order_router.cpp`) | none of its own | route, cancel with and without fan-out, submit internal | each order reaches the queue once |
| Order recovery (`order/order_recovery.cpp`) | none | rebuild the book from the slots | later reports find their orders |
| Execution engine (`execution/execution_engine.cpp`) | sessions: target, slices, child ledgers | start, tick, cancel, aggregate | never more than the target in the market; sessions end |
| Position manager and loader (`portfolio/*.cpp`) | fund row, position rows, index by security | initialize, load, add a row, freeze, settle | no money appears, words do not wrap; a restart keeps what was traded |
| Risk manager (`risk/*.cpp`) | rule switches, rate window, recent orders | check an order against every rule | a refused order holds nothing |
| Gateway loop (`gateway/src/gateway_loop.cpp`) | retry queue, adapter | take orders, submit, retry, forward events | every order is answered |
| Service lifecycle (`core/account_service.cpp`, `main.cpp`, `common/error.cpp`) | service state, components, shutdown latch, error ring | initialize, run, stop, destroy, record an error | nothing is used after it is gone; the exit code is true; runs end |
| Configuration (`core/config_manager.cpp`) | one record of settings | load, command line, validate, export | only valid settings are served |
| Order event recorder (`order/order_event_recorder.cpp`) | a ring, two files, a worker | record, write, flush, shut down | the files are the accepted records in order; losses are counted |
| Log (`common/log.cpp`, `BaseCore/src/logging`) | a shared-memory ring without a reader index, a file | log, drain, reopen, fall back | the file never repeats or reorders; errors surface |
| Shared-memory manager (`shm/shm_manager.cpp`) | segments by name | create, attach, validate, unlink | a half-made segment is not used |

`PROJECT.json` lists each part with its status, and under `hazards` the places
where the code is hard to test.

Hard behaviours: processes interleave on the same slots, counters and queues; the
gateway may take and answer an order before the router has recorded that it sent
it; the service may die inside a send and inside a settlement and recovers from stages
that two processes write; an exchange may sell shares the account does not have; segments are created in several steps by whoever comes
first; rings are written by one thread and drained by another; amounts are unsigned
64-bit words; a single fatal error stops the service.

## Modules

| Module | Models |
|---|---|
| `BoundedFifo` | what a queue promises: push, pop and peek as atomic steps on a bounded sequence |
| `SpscQueue` | `spsc_queue.hpp`, one step per load of the other side's index, cell access and index store; refines `BoundedFifo` |
| `OrderVocabulary` | `OrderState`, `OrderSlotState`, the terminal and the recoverable states |
| `FundRow` | the fund operations of `PositionManager` with overflow tests and saturating subtractions |
| `EventLoop` | API, event loop, book, router, settlement, recovery, and the gateway and broker around them |
| `OrderSlot` | the sequence lock of one slot (`orders_shm.hpp`), store by store, with its writers and readers |
| `OrderEntry` | `order_api.cpp` and `shm_manager.cpp`: opening the segments, and the way of a request from a call into the queue |
| `ExecutionSession` | managed parents: engine, child orders, aggregation, fan-out cancels, one loop iteration at a time |
| `GatewayLoop` | `gateway_loop.cpp`: retries, orders, events, refused responses, stop |
| `PositionTable` | `position_manager.cpp` and `position_loader.cpp` over the positions segment, with a monitor |
| `EventRecorder` | `order_event_recorder.cpp`: the trading thread and the writer thread |
| `ShmLog` | `log.cpp` over BaseCore's log ring and its reader |
| `Configuration` | `config_manager.cpp` as functions on a record of settings |
| `ServiceLifecycle` | `account_service.cpp`, `main.cpp`, `error.cpp` and the frame of `EventLoop::run`; uses `Configuration` |
| `SpscQueueProofs`, `OrderSlotProofs`, `OrderEntryProofs`, `GatewayLoopProofs`, `PositionTableProofs` | theorems about the module of that name |
| `EventLoopProofs` | theorems about `EventLoop`, in three parts: types and mirrors; where an order and its volume are, with lemmas about sums; what the money is for |
| `ExecutionProofs` | theorems about `ExecutionSession`, with the same lemmas about sums |
| `ServiceProofs` | theorems about `ServiceLifecycle` and `Configuration` |
| `MC...` | instances for TLC; `OrderEntry`, `EventRecorder` and `ShmLog` need none |

`SpscQueue`, `OrderSlot`, `OrderEntry`, `ExecutionSession`, `PositionTable` and
`GatewayLoop` look closer at what `EventLoop` takes as one step or leaves out: a queue
operation, a slot write, a client's call, a managed order, the position rows, and the
gateway's answer to an order. `ServiceLifecycle` is the frame around all of it.

Definitions commented as a "Fault" or "Mutant" are not part of any specification:
they are plausible mistakes used to test that each property can fail.

### EventLoop

Shared memory is `next_order_id`, `slots` (a sequence of stage and request copy;
positions in it are the indices the queues carry), the three queues, `fund` and
`position`. The service's own memory is `book`, `pending` (ids with an archive
deadline), `loop` (where inside `handle_order_request` it is) and `latched`
(`g_shutdown_reason`). `broker` and `market` are the outside world.

* `SubmitOrder`, `CancelOrder`: `acct_submit_order_ex`, `acct_cancel_order`. The id is
  spent even when the pool is full; a full queue leaves a slot `QueuePushFailed`.
* `AddRefused`, `RiskReject`, `Admit`: `handle_order_request` up to the router. No
  other process looks at an order between the pop and the push downstream, so this
  is one step, with the freeze of a buy order's funds at its end.
* `PushDownstream`, `StagePushed`, `PublishSubmitted`, `RouteOrderRefused`, `RouteCancel`: the
  router. The push, the stage store and the `TraderSubmitted` update after it are three
  steps, because the gateway can run between them and the service can die between them.
* `HandleTradeResponse`, `IgnoreTradeResponse`: `handle_trade_response` with state and
  volume update, settlement, release and archive, all in the order of the code.
  Refused settlements leave the rows alone and set `latched`.
* `DieSettling`: the process ends over a response it has popped: before the order's new
  state, after it, after the trade is counted, after it is paid, or after the shares have
  moved. The response is gone, and the rest of the handler never happens.
* `ProcessPendingArchives`: any subset of the pending ids may be due.
* `Halt`: the end of `EventLoop::run` after a fatal error; `Restart`: a new process
  over the same memory, with `recover_downstream_active_orders_from_shm`.
* `GatewaySubmit`, `GatewayRefuse`, `BrokerAccept` ... `BrokerTrade`: the gateway and the
  broker as the service sees them. A sell is only checked against the holdings, never
  reserved, so two of them may pass for the same shares; the broker fills both.

`CrashPoints` names where the service may die: `idle` between two handlers, `route` before the
push downstream, `sent` after the push and before the stage, `staged` after the stage and before
`TraderSubmitted`, `settling` inside the settlement of a popped response (the five places of
`DieSettling`), `stopped` after a fatal error has ended the loop. There is no crash inside
`Admit`, whose pop, slot copies and freeze are one step, nor inside one operation on a row of the positions
segment: a process that dies there leaves the row's lock taken (`positions.h:75`), which
`PositionTable` has. The ghost `lost` adds up the cash and the shares that refused settlements
and deaths have kept from the account, and the orders whose last report died.

### OrderSlot

The slot is `seq` and `payload` (a field's value is the number of the write it is
from). A writer runs `orders_shm_mutate_slot`: `LoadSeq`, `MarkBusy`, `StoreField` for every
field its mutator assigns, `Publish`; `Die` ends its process inside. A reader runs the
loop of `orders_shm_read_snapshot` (and of the monitors' `try_read_stable_snapshot`, the
same code): `BeginAttempt`, `CopyField`, `EndAttempt`. The instance starts at the push
of an order downstream: the service still has its stage and then the request to
write, the gateway its stage. `stable` and `disturbed` record what the slot should say
and whether two writes have overlapped (or one followed an interrupted one).

### OrderEntry

A process opens `upstream` and then `orders` by name; `region` holds what was ever
created, `named` what a name denotes now, `held` what each process has mapped. `CreateRegion`,
`SizeRegion`, `MapNew`, `WriteMagic` and `FinishHeader` are the steps of a creation, `Attach` that
of an opener; `OpenFailed` with `ShouldRecreate` is the unlink and the second try of
`acct_init_ex`. A call is `NewOrder`, `SendOrder` or `Submit` (cancels too), then
`LoadNextIndex` and `Allocate` (the compare-and-swap loop of `orders_shm_try_allocate`), `WriteSlot`,
`Push` or `MarkFailed`. The service allocates slots for child orders by the same loop.
`Die` may come anywhere.

### ExecutionSession

`loop.phase` is the part of `loop_iteration` under way: orders, responses, ticks. A request of
a managed algorithm starts a session (or is rejected); every tick works on the record
`World` of book, children, pool and queue, so that a tick is one step, except
between a failed active attempt and the passive one, where the gateway may run.
`TwapSlicePlan`, `ClipVolume`, `SchedulableVolume`, `DeriveParentState` and `ParentView` are
the code's functions of the same names. A price is found or not, a signal is published
or not; an active child takes any volume from 1 to the session's budget, as the strategy
decides; the broker fills, cancels or rejects children in any order it likes. A
cancel of the parent is routed as the code does it and, as the deviations explain, never
takes effect, so `cancel_requested` is read by `Tick` and never set.

### GatewayLoop

`loop.pc` is the function the thread is in and `loop.left` how many items its pass may
still take; `outgoing` holds the responses about to be pushed, and while it is not
empty only `PushResponse`, `PushAgain` and `PushFailed` run, as `push_response` blocks the
thread. `SubmitRequest` is `submit_request` with the adapter's three answers. `RetryLater` and
`RetryNow` stand for both outcomes of the comparison with the clock. `LoseOrder` is the
`continue` after a snapshot that failed. `GiveUp` is what the two callers of
`push_response` do when it fails. The last variables only record what happened, for the
properties: among them `issued` (the broker's events), `handled` (those the loop has dealt with), `skipped` (the
positions among these of events that could not be mapped, which `SkipEvent` drops before it goes on) and `refused` (the orders whose `TraderError` was pushed).

### PositionTable

A row has the three volumes that trades move: `t0`, which sells draw on, `t1`, which buys go to,
and `sell`, frozen for sells by whoever wrote the snapshot. The region may be missing or one of
`Leftovers`, the marked region of an earlier build in the old spelling.
A start is `Start`, then one of `RefuseCorrupt`, `InitializeFresh`, `InitializeAttached`. Attaching goes
over the keys one by one: `AttachRow` spells a key anew and indexes it, or refuses the start when it
does not parse; `AttachDone` ends the loop. The fresh
path runs the loader: `LoadFund`, then for each row `LoadRow`, `PublishRow`, `LockRow`, `FillRow`,
`UnlockRow`, and `FinishLoad`, which stores the mark. `Trade` is a buy, which adds a row by the same steps
when there is none, or a sell, which takes the frozen volume first and then `t0`, and which a row with too
little of both refuses after it has taken the frozen part. A crash may come between any two. The monitor opens only a marked segment, looks at
the count and then copies a row; whatever it has mapped stays mapped when the name is removed.

### EventRecorder

`Offer`, `Fill`, `Publish`, `Notify` are `try_enqueue` of the trading thread; `Scan`, `Drain`, `Release`,
`Flush`, `Wake` and `Joined` the writer thread and its end. The stream's buffer reaches
the disk on a flush or whenever the library likes; a crash loses the rest.

### ShmLog

Each call of the logger holds `io_lock` and is one step: initialization, `Log` with its push,
its drain when logging is synchronous and its fallback, flush and shutdown. `EntryOffset` and
`Readable` are what the writer does at the end of the area and what the reader decodes. Records are
of level debug, error or fatal, against a minimum level chosen from `MinLevels`. What the system
grants a drain is a record of `IO`: whether ring and file open, how many of the lines
reach the file (the reader returns 0 whatever becomes of its writes), whether a new ring can be had.
The ghosts `damaged` and `owed` say whether a lap or a failed write has hurt this logger, and
which errors must still be somewhere.

### Configuration and ServiceLifecycle

A document gives texts for keys; a key stands for every key of its section that is
parsed and checked the same way. `Merged`, `Valid`, `Loaded`, `Exported` and `CommandLine` are
`load_from_file`, all checks of `validate`, export and `parse_command_line`; the order log is on unless a file says otherwise. `ServiceLifecycle` builds the components in the
order of `initialize`, each of which may fail, runs the loop with its `running_` flag and the
latch, and destroys in the order of `cleanup`; a controller thread calls stop at its own pace, one
atomic access a step. `Classify` grades an error by domain and code as `error.cpp` does. Errors come from
the owner thread (`initialize`, `run`, the handlers) and from order API calls in the same process (`ApiError`), which are filed
and stop nothing. The ghosts `journal` and `mark` are the errors recorded so far and how many there were
when `initialize` was last called. The refusal of `initialize` while it is already initializing or
running (`account_service.cpp:43`) needs a second owner thread, which the service's tools do not have.

### Abstractions

* One security in `EventLoop`. A missing position row and a row of zeros are the same there.
* In `EventLoop` no order is managed by an execution session; `ExecutionSession` has those, and
  no funds (a child order has none reserved).
* Risk rules other than fund and position may refuse any order at any time.
* Executed value and executed fee of a request are left out; no decision reads them.
* A handler may run whenever the loop is idle: more interleavings than the batches of
  one iteration allow. `ExecutionSession` keeps the order of an iteration.
* `Less` is the saturating subtraction, `MaxDValue` the largest amount, standing for
  2^64 - 1. Sums above it are refused by the code's wrap-around tests.
* The broker reports each order's events in order and once, trades within limit and volume
  (not within the holdings), and charges at most `FeeOverrun` more than the estimated fee.
* In `EventLoop` slot writes are atomic, the gateway can always read the slot, and it
  answers only when the response queue has room; `OrderSlot` and `GatewayLoop` show what
  happens otherwise.
* In `OrderSlot` the fences order a field's access against the number's and fields among
  themselves not at all, so fields are written and copied in any order; given that,
  steps interleave. The number does not wrap (64 bits).
* In `OrderEntry` a push is one step (the ring has one producer by contract,
  `docs/src_shm_module.md:237`, and `SpscQueue` is its detail), the compare-and-swap does not fail
  spuriously, and there is one trading day. `SerialStart` says that processes are started
  one after the other; see the deviations for what happens otherwise.
* In `GatewayLoop` an accepted order produces at most one report and then a final event,
  either of which may be one that cannot be mapped, and the adapter hands its events over in order
  and without duplicates. A gateway that has stopped is not started again.
* In `PositionTable` a row's numbers are its three volumes, written at once, and a key is a security and a spelling.
* In `EventRecorder` and `ShmLog` a record is its number and kind; every log record has the same
  size, as in the code.
* In `ServiceLifecycle` stop is not called during initialization or destruction.

## Runs

| Run | Instance | Checks |
|---|---|---|
| `ring_queue` | 4 cells (3 usable), 3 items | `NoCellRace`, `Fifo` (refinement) |
| `trading_day` | 3 requests (buys of 2 @ 2, sells of 1, cancels) with a fee of 2, cash of 7 and one share, queues of 1, immediate archive, no crash | `FrozenBacksLiveOrders`, `CashAgrees`, `TerminalIsFinal`, `OnlySellsStopTheDay` |
| `restart` | 2 requests, delayed archive, one death between handlers, before `TraderSubmitted` or inside a settlement, fairness | `CashAgrees`, `HoldingsAgree`, `TradesReachTheBook`, `EverySlotResolves` |
| `stress` | one-order book, amounts up to 10 with the account's assets at 10, fees above the estimate, risk rules off, deaths at every crash point | `TypeOK`, `SlotMirrorsBook`, `SubmittedOnce` |
| `order_slot` | service and gateway writing, one monitor, 2 attempts | `TornOnlyAfterDisturbance` |
| `order_entry` | 2 clients and the service, 3 segments, 3 ids, pool of 3, queue and cache of 1, one death | `EntryInvariant`, `OneMemory`, `IdsAndSlotsAreUnique`, `CallsReturn` (fairness) |
| `execution` | one parent of 3 (clips, TWAP by default, or an unsupported algorithm), children of 1 to 2, at most 2 slices, book of 3, queues of 1, one signal, a cancel | `SessionInvariant`, `NeverOverfilled`, `ParentMirrorsChildren`, `SessionsEnd` (fairness) |
| `gateway` | 3 orders, one unmappable, events that cannot be mapped, one retry, batches of 2, 2 push attempts, queues of 2 and 1 | `ErrorMeansNotSent`, `SubmissionsBounded`, `NoGapInEvents`, `EveryOrderAnswered` (fairness) |
| `positions` | 3 securities, 2 rows, 3 starts, 2 trades of 1 or 2 (buys and sells), 6 snapshots, 2 leftover regions, database or file | `TableInvariant`, `ServedTableIsWhole`, `MonitorsSeeNamedRows`, `RestartKeepsHoldings`, `EveryStartEnds` (fairness) |
| `event_records` | ring of 2, 4 events, 2 starts | `RecorderInvariant`, `ShutdownWritesEverything`, `EventuallyOnDisk` (fairness) |
| `log` | area of 8 with entries of 3, 4 records of 3 levels, minimum levels debug, warn and fatal, 2 initializations, 2 refusals by the system | `LogInvariant`, `ErrorsAreNotSwallowed` |
| `service` | 7 files, 8 command lines, error ring of 2, 3 calls, one error of the loop or a client call, 2 stops | `ServiceInvariant`, `ConfigurationIsSound`, `ExitCodeTellsTheTruth`, `RunsEnd` (fairness) |

`SessionInvariant`, `RecorderInvariant`, `LogInvariant`, `TableInvariant`, `ServiceInvariant` and
`EntryInvariant` are conjunctions of the module's `TypeOK` and named parts, each with its
own comment in the module.

Why the bounds are enough for the cases: three requests let two orders compete for the
cash while a cancel names one of them; capacities of one and two make every queue, the
pool, the table and the book fill up; cash of 7 pays one buy order of 4 and its fee of 2 and not two, of two
trade prices one is better than the limit, and two sells of the one share can both pass the check
before either has traded. One retry is the first repetition
and the last; two push attempts tell them apart for a full queue, and batches of two
leave a second event behind when the first cannot be pushed. A parent of 3 with children of at
most 2 needs a second child after a full and after a partial first one, and a book of 3 is full
with the parent, one child and a cancel. Three segments hold the two names and one recreation.
An area of 8 holds two entries of 3 and a rest that splits the third, and 4 records lap it.
Four events overrun a ring of two while the worker holds one. The errors of three calls and one more
wrap a ring of two. A trade of 2 against rows of 1 is the sell that is refused half way. Three starts are an interrupted load, the
refusal or reload after it, and an attach.

Deadlock checking is off where the system really stops: clients stop when the ids are spent
and the real loop idles (`EventLoop`, `OrderEntry`), the gateway stops, the recorder, the log and the service are shut down.

Fairness:

* `restart`: the loop and the gateway poll for ever, so their handlers get weak fairness;
  deadlines pass; the broker is assumed to answer and to end every order it has
  received. Clients, trades and crashes get none. The run gives the account cash
  to pay every order twice: with less, a restarted service pays a recovered order
  out of available funds (see below), may be refused, and stops.
* `gateway`: the thread runs, a retry's time comes although every pass may find it early
  (strong fairness of `RetryNow`), the adapter ends every order it accepted, and the service
  drains the responses. The property lets go of orders when the gateway has stopped,
  could not read the slot, has given up a `TraderError`, or got an event that cannot be mapped.
* `execution`: the loop, the clock and the gateway go on, and the broker ends what it received.
* `order_entry`: a process that is opening or inside a call goes on, and the service takes what is queued.
* `event_records`: both threads go on once inside their functions; the worker's wait has a
  timeout, so waking up needs no notification.
* `positions`: a start goes on until it is served or has failed.
* `service`: initialization, the loop and a stop call go on once begun.

### Known deviations from what the repository says

Modelling met these places where the code does not do what a document or a comment of
the repository says. The models contain the code's behaviour; the properties above are
stated so that they hold of it.

* A cancel of an order without children never leaves the service: `handle_order_request` puts
  the cancel's id into the book, and `route_cancel` adds the cancel it builds under the same
  id, which the book refuses (`order_router.cpp:168`; `src_order_module.md:122`). The cancel of a
  parent meets the same for the first of its live children, which reuses the id (`order_router.cpp:75`);
  as at most one child is alive (proved), the cancel never takes effect and the session goes on, where
  `plans/algo_plan.md:49` says 一旦父单收到取消请求，会话停止生成未来子单. The test of that
  (`test_execution_engine.cpp:592`) calls `route_cancel` with an id the book does not have.
* Recovery does not restore an order's frozen amount: what it had reserved stays
  frozen for ever, and its further trades are paid out of available funds
  (`order_recovery.cpp:109`; `event_loop.hpp:93`).
* The index is pushed before the slot's stage says so; a crash in between leaves an
  order at the broker that recovery skips (`order_router.cpp:274`; `order_recovery.cpp:37`).
* The slot's sequence lock is made for one writer; after the push the service and the
  gateway write it at once, and a reader may accept a mixed copy (`orders_shm.hpp:119`;
  `plans/shm_refactor.md:114`).
* A `TraderError` that finds the response queue full three times is dropped and the gateway
  goes on; the order stays open in the account service (`gateway_loop.cpp:256`; `gateway_design.md:75`).
* A child order that the book has taken and whose submission then fails is not in the
  session's ledger (`execution_engine.cpp:797`); the parent of a session that failed need not show
  what its children traded (`plans/algo_plan.md:56`).
* Log records that a lap overwrites are not all counted (`common/log.cpp:127`), and a drain whose
  writes fail counts as done and its ring is discarded (`BaseCore/src/logging/log.cpp:521`).
* A position row has a lock and no sequence number: a monitor's copy that spans a whole
  locked write mixes two states (`position_monitor_api.cpp:101`), and a service that dies
  with the lock set leaves it set (`positions.h:77`).
* Two processes that open the order segments at the same time can end up in two memories:
  the second finds a header that is not finished, unlinks the name and creates its own
  (`order_api.cpp:237`). With `SerialStart = FALSE`, `OneMemory` is violated.

Also met: sells are checked against the holdings and never reserved, so a second sell of the same
shares may trade, and its settlement then stops the service, as `plans/sell_trade_deduct_failure_plan_zh.md` describes
(`event_loop.cpp:513`); a deduction that is refused has already taken the frozen part of the row
(`position_manager.cpp:530`); a response that was popped when the service dies is not settled by the
next one; an event that cannot be mapped is dropped even when it is an order's last (`gateway_loop.cpp:168`);
with `log_level` fatal an error is neither logged nor printed (`log.cpp:319`); an archive delay of 0 archives only orders whose *response* carries a terminal
state, so risk rejects, router failures and orders completed by their last fill stay
in the book (`event_loop.cpp:562`); a fee above the estimate is deducted from the account's
frozen total and so from other orders' reservations (`event_loop.cpp:165`); managed parents
and their cancels are never archived; a TWAP session whose slices are cancelled finishes
below its target; `stop()` before the loop has marked itself running is lost
(`event_loop.cpp:183`), and so is a signal before the loop is registered; a stop that read the
state of a run that has just ended leaves `Stopping` behind (`account_service.cpp:111`); `shutdown_reason_`
is never cleared (`initialize` clears only the global latch), so a second run after a failed one returns -1; a configuration whose
validation fails stays installed, and keys a file does not mention keep the values of the
file before; the upstream segment carries no trading day, so that indices left in its
queue overnight name slots of the next day.

## Proofs

The proofs hold for every value of the constants under the named assumptions, which ask only that
bounds are natural numbers, orders have a positive volume and fees are natural numbers, that the initial
fund row is one, that a snapshot is a sequence of rows and a command line a sequence of options, and that
a leftover region fits the table and has one row for a security (`LeftoversAssumption`).

* `SpscQueueProofs`: `TypeCorrect`, `CellsAreNeverShared` and `RingImplementsFifo`. The
  index a side remembers is stale as soon as the other moves; the inductive
  invariant says in which direction it is stale: a producer that saw room still
  has room, a consumer that saw an item still has it, and the cell it copied
  still holds the head of the queue. The abstract queue is the
  sequence of cells from head to tail, as a function of positions modulo the
  ring's size.
* `EventLoopProofs`, first part: `TypeCorrect` and `SlotsMirrorTheBook`, both from
  `Invariant == TypeOK /\ SlotMirrorsBook`, proved by one lemma per
  action. The conjuncts need each other: that a queued index is a slot (`TypeOK`)
  is what lets a slot write keep the mirror. Lemmas about the fund operations
  state, once each, that a legal row stays one.
* `EventLoopProofs`, second part: `NeverSubmittedTwice`, `TradesFindTheirOrders`, `EndsAreFinal`,
  `HoldingsAlwaysAgree` and `CashAlwaysAgrees`. `OneCarrier` says that an order on its way out is in one place: upstream, with the
  router, downstream or at the broker. `Tracked` says where its volume is: what the book thinks
  remains is what the broker has left plus what is queued, in the broker's order, and an order that
  may still trade is in the book and not ended. A restart keeps that only if it rebuilds every order
  that may still trade, so all but the first assume `RecoverableCrashes`: no restart, or no
  crash between a push and its stage (`sent`) and a book larger than the number of orders. The
  assumption is needed: the deviations above show what that crash point does. Every other one
  is allowed, those inside a settlement too.
  The last two theorems are about sums over queued trades and what `lost` has taken; they hold whatever the prices,
  fees and balances, because a refused settlement, of a sell the account cannot
  cover or otherwise, moves its whole amount into `lost`. This part begins with lemmas on what such a sum
  does when a term is added, removed or changed. Induction over a finite set is there the choice of a
  minimal counterexample among its subsets, which needs no operator as a parameter.
* `EventLoopProofs`, third part: `ReservationsAreExact` and `SellsAloneStopTheDay`. `FrozenBacksLiveOrders` is
  not inductive: a settlement takes the cost of a trade
  out of the reservation and saturates at zero, so the proof must know that it never
  saturates. `Reserved` says so: a live buy order holds at least its `Exposure`, the volume the broker
  has left at the limit price, the fees still to come and the bills queued. `WorthBounded` keeps the
  overflow tests from firing: the account gains at most the top price for each share it has sold.
  Both theorems are about a day without a restart, because recovery forgets reservations, and about
  behaviours with `[]AmpleFor(P)` for some price P: fees within their estimates, no trade above P, and the initial worth plus
  P for each share the exchange has sold in range. The instance of the `trading_day` run
  satisfies this with P = 2: worth 9, and at most three shares sold, against amounts up to 30.
* `OrderSlotProofs`: `TypeCorrect` and `SnapshotsAreSafe`, for any fields, programs, writers,
  readers and attempts. The property speaks of returned snapshots, so the invariant
  must follow the slot while nothing is returned: until a disturbance at most one
  writer is inside a write, the number tells how far it is, and a field it has still to
  store holds the stable value; a reader whose first number is still the slot's number
  has copied only stable values.
* `GatewayLoopProofs`: `TypeCorrect`, `RetriesAreBounded` and `FailuresAreFinal`, for any number
  of orders, queue capacities, batch sizes and attempts. Neither property is inductive: a
  retry may only be made because nothing else knows the order. The invariant says that an
  order is in one place at a time: behind `Taken` it is still in the queue and untouched, an
  entry of the retry queue is the only one of its order and counts its submissions, an
  accepted order has no failure on the way, and a batch of events never mixes with a
  `TraderError`. `EventsHaveNoGap` needs `EventsInStep` besides: what was handled, the batch in
  hand and what the adapter still holds are together what the broker issued, in its order, or the
  loop has given up a batch and only leaves; and the skipped ones among the handled are exactly
  those that cannot be mapped.
* `PositionTableProofs`: `TypeCorrect`, `MonitorsAreSafe`, `HoldingsSurvive`,
  `ServedTablesAreWhole` and `TableAndIndexAgree`, for any securities, snapshots (`SnapshotsAssumption`: rows are a key and volumes), leftover regions and table size.
  The invariant adds that the loader is only ever at work on an unmarked region, that every
  counted row, and the row about to be counted, has its key, and that a monitor's row is a
  counted one. The restart path needs one fact about numbers, that a set of rows has a
  last one, which comes from the well-foundedness of the naturals. The last two theorems need
  `TableInStep`, which says at every step of a load, a trade or a restart where each volume comes
  from: a marked region holds its snapshot's last rows plus what was bought and
  minus what sells, refused ones included, took (`AddsUp`), also while the
  service is down and the snapshot is edited; while a restart goes over the keys, the rows behind it are
  spelled anew and indexed and the rest is not yet; an unmarked one holds what the rows read so far say,
  but for the row at work; counted rows are of different securities, and a row is indexed,
  named and empty before it is counted.
* `OrderEntryProofs`: `MemoryIsShared`, `CountersNeverRepeat` and `QueueAndPoolAgree`, for any number
  of clients, capacities and deaths. The invariant has two halves. `Memory`: whoever creates or
  recreates a region does so while nobody works with the regions, so that everybody who has opened them has
  mapped what the names denote, whatever died in the middle of an open. `Entries`, about the pool, the
  queue and the counters the names denote: an id is in one cache or in one call, a slot in
  one call or in the queue, a slot that waits or was taken is the only one of its id, and a slot marked as queued is
  queued or about to be, unless a process has died. The theorems assume `SerialStart`, processes started one after
  another; without it `OneMemory` is violated (see the deviations). `MaxRegions >= 2` is
  assumed because a start may find two regions of an earlier run.
* `ExecutionProofs`: `BudgetsHold`, `MirrorsAreExact` and `SessionsAreSound`, for any orders, split
  configuration, capacities and number of requests. None is inductive, because a session sends
  its next child on the word of its ledgers. `Inv` has three parts. `Sound` says that the ledgers are true:
  what a ledger counts as traded plus what is queued for the loop is what the broker filled; a ledger
  is closed only when its child is nowhere on its way and the broker is done with it; what
  the session still stands for is within its target, whatever part of its budget an active child takes;
  a TWAP has sent exactly its first slices. `SessionsAreSound` then says of a `Finished` session that it was
  cancelled, or that a clip algorithm has filled the target and a TWAP has sent a child for every slice.
  It also says which ids are whose, that at most one child of a parent is alive in the book, and,
  for parents whose session is gone (`Ended`), that nothing the children may yet trade exceeds
  the parent. `Turn` says where in its iteration the loop is, hence which parents' entries
  have been refreshed, and what a session looks like between its attempt at the strategy's price
  and the one at the order's own. `Counters` has the rest of the types.
  `Sound` takes the state as parameters: an action of the engine is a composition of
  operations (take the request, add the child, send it or fail, refresh the parent's entry), and
  one lemma per operation says that it leads from a sound state to a sound one.
  `RouteCancel`'s loop over the children is a recursive function; that it does at most one thing is
  shown by comparing it with the function that does so, from the first step where they could differ.
* `ServiceProofs`: `ServiceIsSound`, `ServedConfigurations` and `ExitCodeIsTrue`, for any files, command
  lines, capacity of the error history and number of calls, errors and stops. `Whole` says for each
  place of the owner thread which parts exist: a first part of `Components` while they are built, a set
  that has lost nothing it refers to and nothing out of turn while they are torn down (also when
  `initialize` failed half way), all of them with a valid configuration in `run`. `ExitCodeIsTrue` relates
  the exit code to the `journal`: `LatchKept` says that a low latch means nothing serious since `mark` and a high one
  something serious at some time, `Accounted` that `shutdown_reason_` and a failed run go back to a serious error
  or to a stop that stored its state too late, and `SuccessMeans` that once success is reported the owner only destroys. `HistoryKept` knows where the oldest error is before and after
  the ring has wrapped. `ConfigTyped`, which holds also of configurations that failed to
  validate, says that every setting has a value whose printed form is read back and prints the same; only a double
  may come back as another value. The command line is a recursive function of the number of options; that it
  exists, that an option not overridden stays in force, and that a refused list leaves only values it gives
  (`RejectionsAreWhole`), is shown from the first option where it would fail.

Only model-checked: everything under fairness (liveness and `ENABLED` are out of the prover's
reach) and, for want of a proof so far, `RecorderInvariant` and `LogInvariant`, the safety properties
of the recorder and of the log ring.

## Not modelled

* Broker adapters: the broker behind the interface is external; the simulator and the plug-in
  loader are a test double and dynamic linking.
* The risk rules with windows and counters (rate, duplicates): any of them may refuse any order.
* The gateway's own configuration reader, tools, tests, BaseCore's own sequence lock and
  configuration manager: nothing on the path of an order uses them.
* The text of rows, records, logs and messages.
* A second gateway over live queues, and a second trading day.
* How the active strategy computes a signal from forecasts, and the fee formula: inputs of
  the models.
