----------------------------- MODULE GatewayLoop -----------------------------
(***************************************************************************)
(* The gateway process: one thread that, in every iteration, submits due   *)
(* retries, takes orders off the downstream queue, and forwards the        *)
(* adapter's events as trade responses.  A step is one queue access or one *)
(* call of the adapter, so that the account service, which fills one queue *)
(* and drains the other, runs between any two of them.  The adapter and    *)
(* the broker behind it are external: a submission is accepted, refused    *)
(* for now, or refused for good, and accepted orders produce events.       *)
(***************************************************************************)
EXTENDS Naturals, Sequences, SequencesExt

CONSTANTS
  MaxOrders,          \* bound: orders the account service sends
  Unmappable,         \* the orders map_order_request_to_broker refuses
  MaxRetryAttempts,   \* max_retry_attempts of the configuration
  BatchLimit,         \* poll_batch_size of the configuration
  PushAttempts,       \* kResponsePushAttempts
  OrderBound,         \* capacity of order_queue
  ResponseBound       \* capacity of response_queue

Orders == 1 .. MaxOrders

ASSUME BoundsAssumption ==
  /\ MaxOrders \in Nat /\ MaxRetryAttempts \in Nat
  /\ BatchLimit \in Nat \ {0} /\ PushAttempts \in Nat \ {0}
  /\ OrderBound \in Nat \ {0} /\ ResponseBound \in Nat \ {0}
  /\ Unmappable \subseteq Orders

VARIABLES
  sent,            \* orders the account service has pushed so far
  order_queue,     \* shared memory: orders to take
  response_queue,  \* shared memory: responses to settle
  running,         \* running_: cleared by stop()
  loop,            \* where the thread is, and how many items its pass may still take
  retry_queue,     \* refused submissions with the attempts made
  outgoing,        \* responses the thread is about to push, in order
  tries,           \* pushes of the first of them that the full queue has refused
  live,            \* adapter: accepted orders it has not finished
  events,          \* adapter: events not yet polled
  \* What has happened; no process looks at these.
  submissions,     \* calls of submit() per order
  accepted,        \* orders the adapter has accepted
  issued,          \* every event the adapter has produced, in order
  handled,         \* every event process_events is done with, in order
  skipped,         \* the positions in handled of events that were not pushed
  refused,         \* orders whose TraderError has been pushed
  dropped,         \* orders whose TraderError was given up
  lost             \* orders whose slot could not be read

queues == <<sent, order_queue, response_queue>>
gateway == <<running, loop, retry_queue, outgoing, tries>>
adapter == <<live, events, issued>>
vars == <<queues, gateway, adapter, submissions, accepted, handled, skipped, refused, dropped, lost>>

At(pc, left) == [pc |-> pc, left |-> left]

Init ==
  /\ sent = 0
  /\ order_queue = <<>>
  /\ response_queue = <<>>
  /\ running = TRUE
  /\ loop = At("head", 0)
  /\ retry_queue = <<>>
  /\ outgoing = <<>>
  /\ tries = 0
  /\ live = {}
  /\ events = <<>>
  /\ submissions = [o \in Orders |-> 0]
  /\ accepted = {}
  /\ issued = <<>>
  /\ handled = <<>>
  /\ skipped = {}
  /\ refused = {}
  /\ dropped = {}
  /\ lost = {}

-----------------------------------------------------------------------------
(* The account service at the other ends of the queues.                    *)

SendOrder ==
  /\ sent < MaxOrders
  /\ Len(order_queue) < OrderBound
  /\ sent' = sent + 1
  /\ order_queue' = Append(order_queue, sent + 1)
  /\ UNCHANGED <<response_queue, gateway, adapter, submissions, accepted, handled, skipped, refused, dropped, lost>>

TakeResponse ==
  /\ response_queue # <<>>
  /\ response_queue' = Tail(response_queue)
  /\ UNCHANGED <<sent, order_queue, gateway, adapter, submissions, accepted, handled, skipped, refused, dropped, lost>>

-----------------------------------------------------------------------------
(* The adapter.                                                            *)

Event(order, kind) == [order |-> order, kind |-> kind]

\* An accepted order is reported at most once (a bound) and then finished.  A
\* "Garbled" event, final or not, is one without an order id, of an unknown kind or
\* with a security key that cannot be normalised.
AdapterEvent(order, kind) ==
  /\ order \in live
  /\ \/ /\ kind # "Finished"
        /\ \A i \in DOMAIN issued : issued[i].order # order
        /\ UNCHANGED live
     \/ /\ kind # "Report"
        /\ live' = live \ {order}
  /\ events' = Append(events, Event(order, kind))
  /\ issued' = Append(issued, Event(order, kind))
  /\ UNCHANGED <<queues, gateway, submissions, accepted, handled, skipped, refused, dropped, lost>>

-----------------------------------------------------------------------------
(* run, process_retry_queue and process_orders.                            *)

\* A signal handler or a failed forward calls stop().
Stop ==
  /\ running
  /\ running' = FALSE
  /\ UNCHANGED <<queues, loop, retry_queue, outgoing, tries, adapter, submissions, accepted, handled, skipped, refused, dropped, lost>>

\* The while condition; process_retry_queue looks once at each item queued now.
BeginIteration ==
  /\ loop.pc = "head"
  /\ loop' = IF running THEN At("retry", Len(retry_queue)) ELSE At("stopped", 0)
  /\ UNCHANGED <<queues, running, retry_queue, outgoing, tries, adapter, submissions, accepted, handled, skipped, refused, dropped, lost>>

\* Fault: one attempt too many.
MayRetryOnceMore(attempts) == attempts <= MaxRetryAttempts

MayRetry(attempts) == attempts < MaxRetryAttempts

\* Fault: a scheduled retry does not return, so the failure is reported as well.
SubmitRequestNoReturn(order, attempts, waiting) ==
  /\ submissions' = [submissions EXCEPT ![order] = @ + 1]
  /\ \/ /\ live' = live \cup {order}
        /\ accepted' = accepted \cup {order}
        /\ retry_queue' = waiting
        /\ outgoing' = <<>>
     \/ /\ retry_queue' = IF MayRetry(attempts)
                          THEN Append(waiting, [order |-> order, attempts |-> attempts + 1])
                          ELSE waiting
        /\ outgoing' = <<Event(order, "TraderError")>>
        /\ UNCHANGED <<live, accepted>>
  /\ UNCHANGED <<events, issued>>

\* submit_request: waiting holds the retries queued besides this order.
SubmitRequest(order, attempts, waiting) ==
  /\ submissions' = [submissions EXCEPT ![order] = @ + 1]
  /\ \/ /\ live' = live \cup {order}
        /\ accepted' = accepted \cup {order}
        /\ retry_queue' = waiting
        /\ outgoing' = <<>>
     \/ /\ MayRetry(attempts)
        /\ retry_queue' = Append(waiting, [order |-> order, attempts |-> attempts + 1])
        /\ outgoing' = <<>>
        /\ UNCHANGED <<live, accepted>>
     \/ /\ retry_queue' = waiting
        /\ outgoing' = <<Event(order, "TraderError")>>
        /\ UNCHANGED <<live, accepted>>
  /\ UNCHANGED <<events, issued>>

\* Fault: a retry whose time has not come is not put back.
RetryLaterForgotten ==
  /\ loop.pc = "retry" /\ loop.left > 0
  /\ outgoing = <<>>
  /\ retry_queue' = Tail(retry_queue)
  /\ loop' = At("retry", loop.left - 1)
  /\ UNCHANGED <<queues, running, outgoing, tries, adapter, submissions, accepted, handled, skipped, refused, dropped, lost>>

\* A retry whose time has not come goes to the back.
RetryLater ==
  /\ loop.pc = "retry" /\ loop.left > 0
  /\ outgoing = <<>>
  /\ retry_queue' = Append(Tail(retry_queue), Head(retry_queue))
  /\ loop' = At("retry", loop.left - 1)
  /\ UNCHANGED <<queues, running, outgoing, tries, adapter, submissions, accepted, handled, skipped, refused, dropped, lost>>

RetryNow ==
  /\ loop.pc = "retry" /\ loop.left > 0
  /\ outgoing = <<>>
  /\ SubmitRequest(Head(retry_queue).order, Head(retry_queue).attempts, Tail(retry_queue))
  /\ loop' = At("retry", loop.left - 1)
  /\ UNCHANGED <<queues, running, tries, handled, skipped, refused, dropped, lost>>

EndRetries ==
  /\ loop.pc = "retry" /\ loop.left = 0
  /\ outgoing = <<>>
  /\ loop' = At("orders", BatchLimit)
  /\ UNCHANGED <<queues, running, retry_queue, outgoing, tries, adapter, submissions, accepted, handled, skipped, refused, dropped, lost>>

\* process_orders takes the next order off the queue.
TakeOrder ==
  /\ loop.pc = "orders" /\ loop.left > 0
  /\ outgoing = <<>>
  /\ order_queue # <<>>
  /\ order_queue' = Tail(order_queue)
  /\ loop' = At("orders", loop.left - 1)
  /\ UNCHANGED <<sent, response_queue, running, tries, handled, skipped, refused, dropped>>

\* The slot stays under a write for all attempts of the snapshot: the order is gone.
LoseOrder ==
  /\ TakeOrder
  /\ lost' = lost \cup {Head(order_queue)}
  /\ UNCHANGED <<retry_queue, outgoing, adapter, submissions, accepted>>

\* map_order_request_to_broker: an id, a known type, and for a new order a
\* side, a market, a security, a volume and a price.
Mapped(order) == order \notin Unmappable

RefuseOrder ==
  /\ TakeOrder
  /\ ~Mapped(Head(order_queue))
  /\ outgoing' = <<Event(Head(order_queue), "TraderError")>>
  /\ UNCHANGED <<retry_queue, adapter, submissions, accepted, lost>>

SubmitOrder ==
  /\ TakeOrder
  /\ Mapped(Head(order_queue))
  /\ SubmitRequest(Head(order_queue), 0, retry_queue)
  /\ UNCHANGED lost

EndOrders ==
  /\ loop.pc = "orders"
  /\ outgoing = <<>>
  /\ loop.left = 0 \/ order_queue = <<>>
  /\ loop' = At("events", 0)
  /\ UNCHANGED <<queues, running, retry_queue, outgoing, tries, adapter, submissions, accepted, handled, skipped, refused, dropped, lost>>

-----------------------------------------------------------------------------
(* process_events and push_response.                                       *)

\* poll_events hands over a batch, in order; the rest waits in the adapter.
PollEvents ==
  /\ loop.pc = "events"
  /\ \E n \in 0 .. Len(events) :
       /\ n <= BatchLimit
       /\ n > 0 \/ events = <<>>
       /\ outgoing' = SubSeq(events, 1, n)
       /\ events' = SubSeq(events, n + 1, Len(events))
  /\ loop' = At("forward", 0)
  /\ UNCHANGED <<queues, running, retry_queue, tries, live, issued, submissions, accepted, handled, skipped, refused, dropped, lost>>

EndForward ==
  /\ loop.pc = "forward"
  /\ outgoing = <<>>
  /\ loop' = At("head", 0)
  /\ UNCHANGED <<queues, running, retry_queue, outgoing, tries, adapter, submissions, accepted, handled, skipped, refused, dropped, lost>>

\* map_broker_event_to_trade_response.
EventMapped(event) == event.kind # "Garbled"

\* An event that cannot be mapped is counted as dropped, and the batch goes on.
SkipEvent ==
  /\ loop.pc = "forward"
  /\ outgoing # <<>>
  /\ ~ EventMapped(Head(outgoing))
  /\ outgoing' = Tail(outgoing)
  /\ handled' = Append(handled, Head(outgoing))
  /\ skipped' = skipped \cup {Len(handled) + 1}
  /\ UNCHANGED <<queues, running, loop, retry_queue, tries, adapter, submissions, accepted, refused, dropped, lost>>

PushResponse ==
  /\ outgoing # <<>>
  /\ EventMapped(Head(outgoing))
  /\ Len(response_queue) < ResponseBound
  /\ response_queue' = Append(response_queue, Head(outgoing))
  /\ IF Head(outgoing).kind = "TraderError"
     THEN refused' = refused \cup {Head(outgoing).order} /\ UNCHANGED handled
     ELSE handled' = Append(handled, Head(outgoing)) /\ UNCHANGED refused
  /\ outgoing' = Tail(outgoing)
  /\ tries' = 0
  /\ UNCHANGED <<sent, order_queue, running, loop, retry_queue, adapter, submissions, accepted, skipped, dropped, lost>>

PushAgain ==
  /\ outgoing # <<>>
  /\ EventMapped(Head(outgoing))
  /\ Len(response_queue) >= ResponseBound
  /\ tries + 1 < PushAttempts
  /\ tries' = tries + 1
  /\ UNCHANGED <<queues, running, loop, retry_queue, outgoing, adapter, submissions, accepted, handled, skipped, refused, dropped, lost>>

\* Fault: only the event that could not be pushed is given up.
GiveUpOneEvent ==
  /\ outgoing' = Tail(outgoing)
  /\ UNCHANGED <<running, dropped>>

\* The last attempt fails too.  For an event: the rest of the batch is given up and
\* the gateway stops.  For a TraderError: the gateway goes on.
GiveUp ==
  IF loop.pc = "forward"
  THEN /\ outgoing' = <<>>
       /\ running' = FALSE
       /\ UNCHANGED dropped
  ELSE /\ outgoing' = <<>>
       /\ dropped' = dropped \cup {Head(outgoing).order}
       /\ UNCHANGED running

PushFailed ==
  /\ outgoing # <<>>
  /\ EventMapped(Head(outgoing))
  /\ Len(response_queue) >= ResponseBound
  /\ tries + 1 = PushAttempts
  /\ tries' = 0
  /\ GiveUp
  /\ UNCHANGED <<queues, loop, retry_queue, adapter, submissions, accepted, handled, skipped, refused, lost>>

-----------------------------------------------------------------------------
Service == SendOrder \/ TakeResponse

Adapter == \E order \in live, kind \in {"Report", "Finished", "Garbled"} : AdapterEvent(order, kind)

Loop ==
  \/ BeginIteration
  \/ RetryLater \/ RetryNow \/ EndRetries
  \/ LoseOrder \/ RefuseOrder \/ SubmitOrder \/ EndOrders
  \/ PollEvents \/ EndForward
  \/ SkipEvent \/ PushResponse \/ PushAgain \/ PushFailed

Next == Service \/ Adapter \/ Stop \/ Loop

Spec == Init /\ [][Next]_vars

\* The thread runs, retries come due, the adapter finishes its orders, and the
\* account service drains the responses.
Fairness ==
  /\ WF_vars(Loop)
  /\ SF_vars(RetryNow)
  /\ \A order \in Orders : WF_vars(AdapterEvent(order, "Finished"))
  /\ WF_vars(TakeResponse)

FairSpec == Spec /\ Fairness

-----------------------------------------------------------------------------
Response == [order : Orders, kind : {"Report", "Finished", "Garbled", "TraderError"}]

\* The values every variable keeps.  A pass over the retry queue never looks at more
\* items than there are, although submissions shorten and lengthen the queue.
TypeOK ==
  /\ sent \in 0 .. MaxOrders
  /\ order_queue \in Seq(Orders)
  /\ response_queue \in Seq(Response)
  /\ running \in BOOLEAN
  /\ loop.pc \in {"head", "retry", "orders", "events", "forward", "stopped"}
  /\ loop.left \in Nat
  /\ loop.pc = "retry" => loop.left <= Len(retry_queue)
  /\ retry_queue \in Seq([order : Orders, attempts : Nat])
  /\ outgoing \in Seq(Response)
  /\ tries \in 0 .. PushAttempts - 1
  /\ live \subseteq accepted
  /\ events \in Seq(Response)
  /\ dropped \subseteq Orders
  /\ lost \subseteq Orders
  /\ submissions \in [Orders -> Nat]
  /\ accepted \subseteq Orders
  /\ issued \in Seq(Response)
  /\ handled \in Seq(Response)
  /\ skipped \subseteq Nat
  /\ refused \subseteq Orders

\* The account service hears of a TraderError only for an order that is not, and will
\* not be, at the broker: submit_request reports the failure after its last attempt
\* and no retry of it is left behind.  Nor is an order that the gateway lost.
ErrorMeansNotSent ==
  \A order \in Orders :
    order \in refused \cup dropped \cup lost =>
      /\ order \notin accepted
      /\ \A i \in DOMAIN retry_queue : retry_queue[i].order # order

\* No order is accepted by the adapter and then submitted again, and none is
\* submitted more than max_retry_attempts times after the first.
SubmissionsBounded ==
  /\ \A order \in Orders : submissions[order] <= MaxRetryAttempts + 1
  /\ \A i \in DOMAIN retry_queue :
       /\ retry_queue[i].order \notin accepted
       /\ submissions[retry_queue[i].order] = retry_queue[i].attempts

\* process_events takes the broker's events in the order they happened, and the only
\* ones among them that the account service does not get are those that cannot be
\* mapped: when one cannot be pushed, none after it is taken.
NoGapInEvents ==
  /\ IsPrefix(handled, issued)
  /\ \A i \in DOMAIN handled : i \in skipped <=> ~ EventMapped(handled[i])

\* While the gateway runs, every order the account service sent is answered by a
\* final event, unless its slot could not be read, the queue refused its TraderError,
\* or the broker sent an event that cannot be mapped.
EveryOrderAnswered ==
  \A order \in Orders :
    sent >= order ~>
      \/ \E i \in DOMAIN handled : handled[i] \in {Event(order, "Finished"), Event(order, "Garbled")}
      \/ order \in refused
      \/ ~ running
      \/ order \in dropped \cup lost
=============================================================================
