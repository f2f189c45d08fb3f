-------------------------- MODULE GatewayLoopProofs --------------------------
(***************************************************************************)
(* Theorems about GatewayLoop, for any number of orders, any capacities of   *)
(* the two queues and any configuration: an order is submitted at most       *)
(* max_retry_attempts + 1 times and never after the adapter took it, a      *)
(* reported failure is final, and the broker's events reach the account     *)
(* service without a gap.                                                  *)
(*                                                                         *)
(* The inductive invariant says that an order is in one place at a time: in  *)
(* the queue and untouched, waiting for a retry, at the adapter, or failed.  *)
(* EventsInStep says the same of the events: those handled, those of the     *)
(* batch in hand and those still with the adapter are together the issued    *)
(* ones, in their order, until a refused response ends the loop.             *)
(***************************************************************************)
EXTENDS GatewayLoop, SequenceTheorems, TLAPS

Retry == [order : Orders, attempts : Nat]

\* The orders process_orders has taken are the first ones that were sent.
Taken == sent - Len(order_queue)

QueuedInOrder ==
  /\ Len(order_queue) <= sent
  /\ \A i \in 1 .. Len(order_queue) : order_queue[i] = Taken + i

\* A TraderError about the order is on its way or has been pushed.
Failed(order) ==
  \/ \E i \in DOMAIN outgoing : outgoing[i] = Event(order, "TraderError")
  \/ order \in refused

\* The account service will hear no more of the order than a failure, if that.
Ended(order) == order \in dropped \cup lost \/ Failed(order)

\* Nothing final has happened to the order.
Open(order) == order \notin accepted /\ ~Ended(order)

QueuedAreUntouched ==
  \A order \in Orders : order > Taken => Open(order) /\ submissions[order] = 0

\* The adapter's orders have not failed.
AcceptedIsFinal == \A order \in accepted : ~Ended(order)

\* An entry of the retry queue: an open order that was submitted as often as it says.
Waiting(retry) ==
  /\ Open(retry.order)
  /\ retry.order <= Taken
  /\ submissions[retry.order] = retry.attempts
  /\ retry.attempts <= MaxRetryAttempts

\* One entry for an order at most.
Distinct(q) ==
  \A i, j \in 1 .. Len(q) : q[i].order = q[j].order => i = j

RetriesWait ==
  /\ \A i \in 1 .. Len(retry_queue) : Waiting(retry_queue[i])
  /\ Distinct(retry_queue)

SubmittedSeldom == \A order \in Orders : submissions[order] <= MaxRetryAttempts + 1

\* A batch of events holds no TraderError, what is pushed elsewhere is one.
BatchesAreSeparate ==
  /\ \A i \in 1 .. Len(events) : events[i].kind # "TraderError"
  /\ \A i \in 1 .. Len(outgoing) : outgoing[i].kind = "TraderError" <=> loop.pc # "forward"

Inv ==
  /\ TypeOK
  /\ QueuedInOrder /\ QueuedAreUntouched
  /\ AcceptedIsFinal /\ RetriesWait
  /\ SubmittedSeldom /\ BatchesAreSeparate

\* The variables the fate of an order is written in.
fates == <<sent, order_queue, submissions, accepted, dropped, lost>>

-----------------------------------------------------------------------------
(* Sequences.                                                              *)

LEMMA RetryFields ==
  ASSUME NEW q \in Seq(Retry), NEW i \in 1 .. Len(q)
  PROVE  q[i] \in Retry /\ q[i].order \in Orders /\ q[i].attempts \in Nat
<1>1. q[i] \in Retry
  BY ElementOfSeq
<1> QED BY <1>1 DEF Retry

LEMMA DistinctTail ==
  ASSUME NEW q \in Seq(Retry), q # <<>>, Distinct(q)
  PROVE  /\ Distinct(Tail(q))
         /\ \A i \in 1 .. Len(Tail(q)) : Tail(q)[i].order # Head(q).order
<1>1. Tail(q) \in Seq(Retry) /\ Len(Tail(q)) = Len(q) - 1 /\ Len(q) \in Nat
      /\ \A i \in 1 .. Len(Tail(q)) : Tail(q)[i] = q[i + 1]
  BY HeadTailProperties, LenProperties
<1>2. Head(q) = q[1] /\ 1 \in 1 .. Len(q)
  BY EmptySeq
<1>3. \A i \in 1 .. Len(Tail(q)) : i + 1 \in 1 .. Len(q)
  BY <1>1
<1>4. Distinct(Tail(q))
  <2> SUFFICES ASSUME NEW i \in 1 .. Len(Tail(q)), NEW j \in 1 .. Len(Tail(q)),
                      Tail(q)[i].order = Tail(q)[j].order
               PROVE  i = j
    BY DEF Distinct
  <2>1. i + 1 = j + 1
    BY <1>1, <1>3 DEF Distinct
  <2> QED BY <2>1
<1>5. ASSUME NEW i \in 1 .. Len(Tail(q)) PROVE Tail(q)[i].order # Head(q).order
  <2>1. i + 1 \in 1 .. Len(q) /\ i + 1 # 1
    BY <1>1
  <2> QED BY <1>1, <1>2, <2>1 DEF Distinct
<1> QED BY <1>4, <1>5

LEMMA DistinctAppend ==
  ASSUME NEW q \in Seq(Retry), NEW e \in Retry, Distinct(q),
         \A i \in 1 .. Len(q) : q[i].order # e.order
  PROVE  Distinct(Append(q, e))
<1>1. Len(q) \in Nat /\ Len(Append(q, e)) = Len(q) + 1
      /\ \A i \in 1 .. Len(q) : Append(q, e)[i] = q[i]
      /\ Append(q, e)[Len(q) + 1] = e
  BY AppendProperties, LenProperties
<1>2. \A i \in 1 .. Len(Append(q, e)) : i \in 1 .. Len(q) \/ i = Len(q) + 1
  BY <1>1
<1> QED BY <1>1, <1>2 DEF Distinct

-----------------------------------------------------------------------------
(* Steps that leave the fates of the orders alone.                          *)

LEMMA InitInv == Init => Inv
<1> SUFFICES ASSUME Init PROVE Inv
  OBVIOUS
<1>1. /\ <<>> \in Seq(Orders) /\ <<>> \in Seq(Response) /\ <<>> \in Seq(Retry)
      /\ Len(<<>>) = 0 /\ DOMAIN <<>> = {}
  BY EmptySeq
<1>2. TypeOK
  BY <1>1, BoundsAssumption DEF Init, TypeOK, At, Retry
<1>3. \A order \in Orders : ~Failed(order)
  BY <1>1 DEF Init, Failed
<1>4. QueuedInOrder /\ RetriesWait /\ BatchesAreSeparate
  BY <1>1 DEF Init, QueuedInOrder, RetriesWait, BatchesAreSeparate, Distinct
<1>5. QueuedAreUntouched /\ AcceptedIsFinal
  BY <1>3 DEF Init, QueuedAreUntouched, AcceptedIsFinal, Open, Ended
<1>6. SubmittedSeldom
  BY BoundsAssumption DEF Init, SubmittedSeldom
<1> QED BY <1>2, <1>4, <1>5, <1>6 DEF Inv

LEMMA TakenIsNat ==
  ASSUME Inv
  PROVE  Taken \in Nat /\ Len(order_queue) \in Nat /\ sent \in Nat
BY LenProperties DEF Inv, TypeOK, QueuedInOrder, Taken

\* Orders end, or leave the queue to end; the others keep their fate.
LEMMA FateStep ==
  ASSUME Inv, TypeOK', BatchesAreSeparate', QueuedInOrder', Taken' \in Nat, Taken <= Taken',
         UNCHANGED <<submissions, accepted, retry_queue>>,
         NEW ended \in SUBSET Orders,
         \A x \in Orders : Ended(x)' => Ended(x) \/ x \in ended,
         \A x \in ended : x <= Taken' /\ x \notin accepted,
         \A i \in 1 .. Len(retry_queue) : retry_queue[i].order \notin ended
  PROVE  Inv'
<1>1. \A x \in Orders : Open(x) /\ x \notin ended => Open(x)'
  BY DEF Open
<1>2. \A x \in Orders : x \in Nat
  BY DEF Orders
<1>3. QueuedAreUntouched'
  <2> SUFFICES ASSUME NEW x \in Orders, x > Taken'
               PROVE  Open(x)' /\ submissions'[x] = 0
    BY DEF QueuedAreUntouched
  <2>1. x > Taken /\ x \notin ended
    BY <1>2, TakenIsNat
  <2> QED BY <1>1, <2>1 DEF Inv, QueuedAreUntouched
<1>4. accepted \subseteq Orders /\ retry_queue \in Seq(Retry)
  BY DEF Inv, TypeOK, Retry
<1>5. AcceptedIsFinal'
  BY <1>4 DEF Inv, AcceptedIsFinal
<1>6. RetriesWait'
  <2>1. \A i \in 1 .. Len(retry_queue) : retry_queue[i].order \in Orders
    BY <1>4, RetryFields
  <2>2. ASSUME NEW i \in 1 .. Len(retry_queue) PROVE Waiting(retry_queue[i])'
    <3>1. Waiting(retry_queue[i])
      BY DEF Inv, RetriesWait
    <3>2. retry_queue[i].order <= Taken'
      BY <1>2, <2>1, <3>1, TakenIsNat DEF Waiting
    <3> QED BY <1>1, <2>1, <3>1, <3>2 DEF Waiting
  <2> QED BY <2>2 DEF Inv, RetriesWait, Distinct
<1>7. SubmittedSeldom'
  BY DEF Inv, SubmittedSeldom
<1> QED BY <1>3, <1>5, <1>6, <1>7 DEF Inv

LEMMA FrameStep ==
  ASSUME Inv, TypeOK', BatchesAreSeparate', UNCHANGED fates, retry_queue' = retry_queue,
         \A order \in Orders : Failed(order)' => Failed(order)
  PROVE  Inv'
<1>1. Taken' = Taken /\ QueuedInOrder'
  BY DEF Inv, fates, Taken, QueuedInOrder
<1>2. Taken' \in Nat /\ Taken <= Taken'
  BY <1>1, TakenIsNat
<1>3. \A x \in Orders : Ended(x)' => Ended(x) \/ x \in {}
  BY DEF fates, Ended
<1>4. UNCHANGED <<submissions, accepted, retry_queue>>
  BY DEF fates
<1>5. {} \in SUBSET Orders /\ (\A x \in {} : x <= Taken' /\ x \notin accepted)
      /\ \A i \in 1 .. Len(retry_queue) : retry_queue[i].order \notin {}
  OBVIOUS
<1> QED BY <1>1, <1>2, <1>3, <1>4, <1>5, FateStep

\* Nothing that has to do with a TraderError changes.
LEMMA QuietStep ==
  ASSUME Inv, TypeOK', UNCHANGED <<fates, retry_queue, outgoing, handled, skipped, refused, events>>,
         loop'.pc = "forward" <=> loop.pc = "forward"
  PROVE  Inv'
<1>1. \A order \in Orders : Failed(order)' => Failed(order)
  BY DEF Failed
<1>2. BatchesAreSeparate'
  BY DEF Inv, BatchesAreSeparate
<1> QED BY <1>1, <1>2, FrameStep

LEMMA TakeResponseStep ==
  ASSUME Inv, TakeResponse
  PROVE  Inv'
<1>1. Tail(response_queue) \in Seq(Response)
  BY HeadTailProperties DEF Inv, TypeOK, TakeResponse
<1>2. TypeOK'
  BY <1>1 DEF Inv, TypeOK, TakeResponse, gateway, adapter
<1> QED BY <1>2, QuietStep DEF TakeResponse, gateway, adapter, fates

LEMMA StopStep ==
  ASSUME Inv, Stop
  PROVE  Inv'
<1>1. TypeOK'
  BY DEF Inv, TypeOK, Stop, queues, adapter
<1> QED BY <1>1, QuietStep DEF Stop, queues, adapter, fates

LEMMA BeginIterationStep ==
  ASSUME Inv, BeginIteration
  PROVE  Inv'
<1>1. Len(retry_queue) \in Nat
  BY DEF Inv, TypeOK
<1>2. /\ loop'.pc \in {"retry", "stopped"} /\ loop'.left \in Nat
      /\ loop'.pc = "retry" => loop'.left <= Len(retry_queue)
  BY <1>1 DEF BeginIteration, At
<1>3. TypeOK'
  BY <1>2 DEF Inv, TypeOK, BeginIteration, queues, adapter
<1> QED BY <1>2, <1>3, QuietStep DEF BeginIteration, queues, adapter, fates

LEMMA EndRetriesStep ==
  ASSUME Inv, EndRetries
  PROVE  Inv'
<1>1. loop'.pc = "orders" /\ loop'.left \in Nat
  BY BoundsAssumption DEF EndRetries, At
<1>2. TypeOK'
  BY <1>1 DEF Inv, TypeOK, EndRetries, queues, adapter
<1> QED BY <1>1, <1>2, QuietStep DEF EndRetries, queues, adapter, fates

LEMMA EndOrdersStep ==
  ASSUME Inv, EndOrders
  PROVE  Inv'
<1>1. loop'.pc = "events" /\ loop'.left \in Nat
  BY DEF EndOrders, At
<1>2. TypeOK'
  BY <1>1 DEF Inv, TypeOK, EndOrders, queues, adapter
<1> QED BY <1>1, <1>2, QuietStep DEF EndOrders, queues, adapter, fates

LEMMA PushAgainStep ==
  ASSUME Inv, PushAgain
  PROVE  Inv'
<1>1. tries' \in 0 .. PushAttempts - 1
  BY BoundsAssumption DEF Inv, TypeOK, PushAgain
<1>2. TypeOK'
  BY <1>1 DEF Inv, TypeOK, PushAgain, queues, adapter
<1> QED BY <1>2, QuietStep DEF PushAgain, queues, adapter, fates

LEMMA EndForwardStep ==
  ASSUME Inv, EndForward
  PROVE  Inv'
<1>1. loop'.pc = "head" /\ loop'.left \in Nat
  BY DEF EndForward, At
<1>2. TypeOK'
  BY <1>1 DEF Inv, TypeOK, EndForward, queues, adapter
<1>3. \A order \in Orders : Failed(order)' => Failed(order)
  BY DEF EndForward, Failed
<1>4. BatchesAreSeparate'
  <2>1. Len(outgoing') = 0
    BY EmptySeq DEF EndForward
  <2> QED BY <2>1 DEF Inv, EndForward, adapter, BatchesAreSeparate
<1> QED BY <1>2, <1>3, <1>4, FrameStep DEF EndForward, queues, adapter, fates

\* The adapter reports about an order it has.
LEMMA AdapterStep ==
  ASSUME Inv, Adapter
  PROVE  Inv'
<1>1. PICK order \in live, kind \in {"Report", "Finished", "Garbled"} : AdapterEvent(order, kind)
  BY DEF Adapter
<1>2. Event(order, kind) \in Response /\ Event(order, kind).kind # "TraderError"
  BY <1>1 DEF Inv, TypeOK, Event, Response
<1>3. events \in Seq(Response) /\ issued \in Seq(Response)
  BY DEF Inv, TypeOK
<1>4. events' = Append(events, Event(order, kind)) /\ issued' = Append(issued, Event(order, kind))
      /\ live' \subseteq live
  BY <1>1 DEF AdapterEvent
<1> DEFINE e == Event(order, kind)
<1> HIDE DEF e
<1>5. e \in Response /\ e.kind # "TraderError" /\ events' = Append(events, e)
      /\ issued' = Append(issued, e)
  BY <1>2, <1>4 DEF e
<1>6. /\ events' \in Seq(Response) /\ issued' \in Seq(Response)
      /\ Len(events') = Len(events) + 1 /\ Len(events) \in Nat
      /\ \A i \in 1 .. Len(events) : events'[i] = events[i]
      /\ events'[Len(events) + 1] = e
  BY <1>3, <1>5, AppendProperties, LenProperties
<1>7. TypeOK'
  BY <1>1, <1>4, <1>6 DEF Inv, TypeOK, AdapterEvent, queues, gateway
<1>8. BatchesAreSeparate'
  <2>1. \A i \in 1 .. Len(events') : i \in 1 .. Len(events) \/ i = Len(events) + 1
    BY <1>6
  <2>2. \A i \in 1 .. Len(events') : events'[i].kind # "TraderError"
    BY <1>5, <1>6, <2>1 DEF Inv, BatchesAreSeparate
  <2> QED BY <1>1, <2>2 DEF Inv, BatchesAreSeparate, AdapterEvent, gateway
<1>9. \A o \in Orders : Failed(o)' => Failed(o)
  BY <1>1 DEF AdapterEvent, gateway, Failed
<1> QED BY <1>1, <1>7, <1>8, <1>9, FrameStep DEF AdapterEvent, queues, gateway, fates

\* A batch of events is handed over; no TraderError is among them.
LEMMA PollEventsStep ==
  ASSUME Inv, PollEvents
  PROVE  Inv'
<1>1. PICK n \in 0 .. Len(events) :
         outgoing' = SubSeq(events, 1, n) /\ events' = SubSeq(events, n + 1, Len(events))
  BY DEF PollEvents
<1>2. events \in Seq(Response) /\ Len(events) \in Nat /\ n \in Nat /\ n <= Len(events)
  BY DEF Inv, TypeOK
<1>3. \A i \in 1 .. Len(events) : events[i] \in Response
  BY <1>2, ElementOfSeq
<1>4. (\A i \in 1 .. n : events[i] \in Response)
      /\ (\A i \in n + 1 .. Len(events) : events[i] \in Response)
  BY <1>2, <1>3
<1>5. /\ outgoing' \in Seq(Response) /\ Len(outgoing') = n
      /\ \A i \in 1 .. n : outgoing'[i] = events[i]
  <2>1. /\ SubSeq(events, 1, n) \in Seq(Response)
        /\ Len(SubSeq(events, 1, n)) = IF 1 <= n THEN n - 1 + 1 ELSE 0
        /\ \A i \in 1 .. n - 1 + 1 : SubSeq(events, 1, n)[i] = events[1 + i - 1]
    BY <1>2, <1>4, SubSeqProperties
  <2> QED BY <1>1, <1>2, <2>1
<1>6. /\ events' \in Seq(Response) /\ Len(events') = Len(events) - n
      /\ \A i \in 1 .. Len(events) - n : events'[i] = events[n + i]
  <2>1. /\ SubSeq(events, n + 1, Len(events)) \in Seq(Response)
        /\ Len(SubSeq(events, n + 1, Len(events)))
             = IF n + 1 <= Len(events) THEN Len(events) - (n + 1) + 1 ELSE 0
        /\ \A i \in 1 .. Len(events) - (n + 1) + 1 :
             SubSeq(events, n + 1, Len(events))[i] = events[n + 1 + i - 1]
    BY <1>2, <1>4, SubSeqProperties
  <2> QED BY <1>1, <1>2, <2>1
<1>7. loop'.pc = "forward" /\ loop'.left \in Nat
  BY DEF PollEvents, At
<1>8. TypeOK'
  BY <1>5, <1>6, <1>7 DEF Inv, TypeOK, PollEvents, queues
<1>9. \A i \in 1 .. Len(outgoing') : outgoing'[i].kind # "TraderError"
  BY <1>2, <1>5 DEF Inv, BatchesAreSeparate
<1>10. BatchesAreSeparate'
  <2>1. \A i \in 1 .. Len(events) - n : n + i \in 1 .. Len(events)
    BY <1>2
  <2>2. \A i \in 1 .. Len(events') : events'[i].kind # "TraderError"
    BY <1>6, <2>1 DEF Inv, BatchesAreSeparate
  <2> QED BY <1>7, <1>9, <2>2 DEF BatchesAreSeparate
<1>11. ASSUME NEW order \in Orders, Failed(order)' PROVE Failed(order)
  <2>1. DOMAIN outgoing' = 1 .. Len(outgoing')
    BY <1>5, LenProperties
  <2>2. ~ \E i \in DOMAIN outgoing' : outgoing'[i] = Event(order, "TraderError")
    BY <1>9, <2>1 DEF Event
  <2> QED BY <1>11, <2>2 DEF PollEvents, Failed
<1> QED BY <1>8, <1>10, <1>11, FrameStep DEF PollEvents, queues, fates

\* The first response is pushed: an event, or the TraderError that was on its way.
LEMMA PushResponseStep ==
  ASSUME Inv, PushResponse
  PROVE  Inv'
<1> DEFINE e == Head(outgoing)
<1>1. /\ outgoing \in Seq(Response) /\ outgoing # <<>>
      /\ response_queue \in Seq(Response) /\ handled \in Seq(Response) /\ refused \subseteq Orders
  BY DEF Inv, TypeOK, PushResponse
<1>2. /\ e \in Response /\ outgoing' \in Seq(Response)
      /\ Len(outgoing') = Len(outgoing) - 1 /\ Len(outgoing) \in Nat
      /\ \A i \in 1 .. Len(outgoing') : outgoing'[i] = outgoing[i + 1]
  BY <1>1, HeadTailProperties, LenProperties DEF PushResponse
<1>3. e = outgoing[1] /\ 1 \in 1 .. Len(outgoing)
  BY <1>1, EmptySeq
<1>4. /\ response_queue' = Append(response_queue, e)
      /\ handled' = handled \/ handled' = Append(handled, e)
      /\ refused' = IF e.kind = "TraderError" THEN refused \cup {e.order} ELSE refused
  BY DEF PushResponse
<1> HIDE DEF e
<1>5. response_queue' \in Seq(Response) /\ handled' \in Seq(Response)
  <2>1. Append(response_queue, e) \in Seq(Response) /\ Append(handled, e) \in Seq(Response)
    BY <1>1, <1>2, AppendProperties
  <2> QED BY <1>1, <1>4, <2>1
<1>6. refused' \subseteq Orders
  BY <1>1, <1>2, <1>4 DEF Response
<1>7. TypeOK'
  <2>1. tries' \in 0 .. PushAttempts - 1
    BY BoundsAssumption DEF PushResponse
  <2> QED BY <1>2, <1>5, <1>6, <2>1 DEF Inv, TypeOK, PushResponse, adapter
<1>8. \A i \in 1 .. Len(outgoing') : i + 1 \in 1 .. Len(outgoing)
  BY <1>2
<1>9. BatchesAreSeparate'
  BY <1>2, <1>8 DEF Inv, BatchesAreSeparate, PushResponse, adapter
<1>10. ASSUME NEW order \in Orders, Failed(order)' PROVE Failed(order)
  <2> DEFINE error == Event(order, "TraderError")
  <2>1. DOMAIN outgoing = 1 .. Len(outgoing) /\ DOMAIN outgoing' = 1 .. Len(outgoing')
    BY <1>1, <1>2, LenProperties
  <2> HIDE DEF error
  <2>2. CASE \E i \in DOMAIN outgoing' : outgoing'[i] = error
    <3>1. \E i \in DOMAIN outgoing : outgoing[i] = error
      BY <1>2, <1>8, <2>1, <2>2
    <3> QED BY <3>1 DEF Failed, error
  <2>3. CASE order \in refused' \ refused
    <3>1. e = error
      BY <1>2, <1>4, <2>3 DEF error, Event, Response
    <3> QED BY <1>3, <2>1, <3>1 DEF Failed, error
  <2> QED BY <1>10, <2>2, <2>3 DEF Failed, error
<1> QED BY <1>7, <1>9, <1>10, FrameStep DEF PushResponse, adapter, fates

\* An event that cannot be mapped is skipped.
LEMMA SkipEventStep ==
  ASSUME Inv, SkipEvent
  PROVE  Inv'
<1>1. /\ outgoing \in Seq(Response) /\ outgoing # <<>> /\ handled \in Seq(Response) /\ skipped \subseteq Nat
      /\ loop.pc = "forward"
  BY DEF Inv, TypeOK, SkipEvent
<1>2. /\ Head(outgoing) \in Response /\ outgoing' \in Seq(Response)
      /\ Len(outgoing') = Len(outgoing) - 1 /\ Len(outgoing) \in Nat
      /\ \A i \in 1 .. Len(outgoing') : outgoing'[i] = outgoing[i + 1]
  BY <1>1, HeadTailProperties, LenProperties DEF SkipEvent
<1>3. handled' \in Seq(Response)
  BY <1>1, <1>2, AppendProperties DEF SkipEvent
<1>4. skipped' \subseteq Nat
  <2>1. Len(handled) + 1 \in Nat
    BY <1>1, LenProperties
  <2>2. skipped' = skipped \cup {Len(handled) + 1}
    BY DEF SkipEvent
  <2> QED BY <1>1, <2>1, <2>2
<1>5. TypeOK'
  BY <1>2, <1>3, <1>4 DEF Inv, TypeOK, SkipEvent, queues, adapter
<1>6. \A i \in 1 .. Len(outgoing') : i + 1 \in 1 .. Len(outgoing)
  BY <1>2
<1>7. BatchesAreSeparate'
  BY <1>2, <1>6 DEF Inv, BatchesAreSeparate, SkipEvent, adapter
<1>8. ASSUME NEW order \in Orders, Failed(order)' PROVE Failed(order)
  <2> DEFINE error == Event(order, "TraderError")
  <2>1. DOMAIN outgoing = 1 .. Len(outgoing) /\ DOMAIN outgoing' = 1 .. Len(outgoing')
    BY <1>1, <1>2, LenProperties
  <2> HIDE DEF error
  <2>2. CASE \E i \in DOMAIN outgoing' : outgoing'[i] = error
    <3>1. \E i \in DOMAIN outgoing : outgoing[i] = error
      BY <1>2, <1>6, <2>1, <2>2
    <3> QED BY <3>1 DEF Failed, error
  <2> QED BY <1>8, <2>2 DEF Failed, error, SkipEvent
<1> QED BY <1>5, <1>7, <1>8, FrameStep DEF SkipEvent, queues, adapter, fates

-----------------------------------------------------------------------------
(* Steps that change the fate of an order.                                  *)

\* The last attempt to push fails: a batch is given up, or one TraderError.
LEMMA PushFailedStep ==
  ASSUME Inv, PushFailed
  PROVE  Inv'
<1> DEFINE e == Head(outgoing)
<1>1. outgoing \in Seq(Response) /\ outgoing # <<>> /\ outgoing' = <<>>
  BY DEF Inv, TypeOK, PushFailed, GiveUp
<1>2. e \in Response /\ e = outgoing[1] /\ 1 \in 1 .. Len(outgoing)
  BY <1>1, HeadTailProperties, EmptySeq
<1>3. outgoing' \in Seq(Response) /\ Len(outgoing') = 0 /\ DOMAIN outgoing' = {}
  BY <1>1, EmptySeq
<1>4. e.order \in Orders
  BY <1>2 DEF Response
<1>5. dropped' \subseteq Orders /\ running' \in BOOLEAN
  BY <1>4 DEF Inv, TypeOK, PushFailed, GiveUp
<1>6. TypeOK'
  <2>1. tries' \in 0 .. PushAttempts - 1
    BY BoundsAssumption DEF PushFailed
  <2> QED BY <1>3, <1>5, <2>1 DEF Inv, TypeOK, PushFailed, queues, adapter
<1>7. BatchesAreSeparate'
  BY <1>3 DEF Inv, BatchesAreSeparate, PushFailed, adapter
<1>8. \A order \in Orders : Failed(order)' => Failed(order)
  BY <1>3 DEF Failed, PushFailed
<1>9. CASE loop.pc = "forward"
  <2>1. UNCHANGED dropped
    BY <1>9 DEF PushFailed, GiveUp
  <2> QED BY <1>6, <1>7, <1>8, <2>1, FrameStep DEF PushFailed, queues, adapter, fates
<1>10. CASE loop.pc # "forward"
  <2>1. dropped' = dropped \cup {e.order}
    BY <1>10 DEF PushFailed, GiveUp
  <2>2. Failed(e.order)
    <3>1. e.kind = "TraderError"
      BY <1>2, <1>10 DEF Inv, BatchesAreSeparate
    <3>2. e = Event(e.order, "TraderError")
      BY <1>2, <3>1 DEF Response, Event
    <3>3. DOMAIN outgoing = 1 .. Len(outgoing)
      BY <1>1, LenProperties
    <3> HIDE DEF e
    <3> QED BY <1>2, <3>2, <3>3 DEF Failed
  <2> HIDE DEF e
  <2>3. ~Open(e.order) /\ e.order \notin accepted
    BY <2>2 DEF Inv, AcceptedIsFinal, Open, Ended
  <2>4. Taken' = Taken /\ QueuedInOrder'
    BY DEF Inv, PushFailed, queues, Taken, QueuedInOrder
  <2>5. Taken' \in Nat /\ Taken <= Taken'
    BY <2>4, TakenIsNat
  <2>6. e.order <= Taken'
    <3>1. ~(e.order > Taken)
      BY <1>4, <2>3 DEF Inv, QueuedAreUntouched
    <3> QED BY <1>4, <2>4, <3>1, TakenIsNat DEF Orders
  <2>7. \A x \in Orders : Ended(x)' => Ended(x) \/ x \in {e.order}
    BY <1>8, <2>1 DEF Ended, PushFailed
  <2>8. \A i \in 1 .. Len(retry_queue) : retry_queue[i].order \notin {e.order}
    BY <2>3 DEF Inv, RetriesWait, Waiting
  <2>9. UNCHANGED <<submissions, accepted, retry_queue>>
    BY DEF PushFailed
  <2>10. {e.order} \in SUBSET Orders /\ \A x \in {e.order} : x <= Taken' /\ x \notin accepted
    BY <1>4, <2>3, <2>6
  <2> QED BY <1>6, <1>7, <2>4, <2>5, <2>7, <2>8, <2>9, <2>10, FateStep
<1> QED BY <1>9, <1>10

\* The account service sends the next order.
LEMMA SendOrderStep ==
  ASSUME Inv, SendOrder
  PROVE  Inv'
<1>1. order_queue \in Seq(Orders) /\ sent + 1 \in Orders /\ sent + 1 \in 0 .. MaxOrders
      /\ sent \in Nat /\ Len(order_queue) \in Nat
  BY BoundsAssumption, TakenIsNat DEF Inv, TypeOK, SendOrder, Orders
<1>2. sent' = sent + 1 /\ order_queue' = Append(order_queue, sent + 1)
  BY DEF SendOrder
<1>3. /\ order_queue' \in Seq(Orders) /\ Len(order_queue') = Len(order_queue) + 1
      /\ \A i \in 1 .. Len(order_queue) : order_queue'[i] = order_queue[i]
      /\ order_queue'[Len(order_queue) + 1] = sent + 1
  BY <1>1, <1>2, AppendProperties
<1>4. TypeOK'
  BY <1>1, <1>2, <1>3 DEF Inv, TypeOK, SendOrder, gateway, adapter
<1>5. Taken' = Taken
  BY <1>1, <1>2, <1>3 DEF Taken
<1>6. QueuedInOrder'
  <2>1. Len(order_queue) <= sent /\ \A i \in 1 .. Len(order_queue) : order_queue[i] = Taken + i
    BY DEF Inv, QueuedInOrder
  <2>2. Taken + (Len(order_queue) + 1) = sent + 1
    BY <1>1 DEF Taken
  <2>3. Len(order_queue') <= sent'
    BY <1>1, <1>2, <1>3, <2>1
  <2>4. ASSUME NEW i \in 1 .. Len(order_queue') PROVE order_queue'[i] = Taken' + i
    <3>1. i \in 1 .. Len(order_queue) \/ i = Len(order_queue) + 1
      BY <1>1, <1>3
    <3> QED BY <1>3, <1>5, <2>1, <2>2, <3>1
  <2> QED BY <2>3, <2>4 DEF QueuedInOrder
<1>7. BatchesAreSeparate'
  BY DEF Inv, BatchesAreSeparate, SendOrder, gateway, adapter
<1>8. \A x \in Orders : Ended(x)' => Ended(x) \/ x \in {}
  BY DEF SendOrder, gateway, Ended, Failed
<1>9. UNCHANGED <<submissions, accepted, retry_queue>> /\ Taken' \in Nat /\ Taken <= Taken'
  BY <1>5, TakenIsNat DEF SendOrder, gateway
<1>10. {} \in SUBSET Orders /\ (\A x \in {} : x <= Taken' /\ x \notin accepted)
      /\ \A i \in 1 .. Len(retry_queue) : retry_queue[i].order \notin {}
  OBVIOUS
<1> QED BY <1>4, <1>6, <1>7, <1>8, <1>9, <1>10, FateStep

\* The order that is taken is the oldest of those nothing has happened to.
LEMMA TakeOrderFacts ==
  ASSUME Inv, TakeOrder
  PROVE  /\ Head(order_queue) \in Orders /\ Head(order_queue) = Taken + 1
         /\ Taken' = Taken + 1 /\ Taken' \in Nat /\ Taken <= Taken'
         /\ order_queue' \in Seq(Orders) /\ QueuedInOrder'
         /\ Open(Head(order_queue)) /\ submissions[Head(order_queue)] = 0
         /\ \A i \in 1 .. Len(retry_queue) : retry_queue[i].order # Head(order_queue)
         /\ loop'.pc = "orders" /\ loop'.left \in Nat
<1> DEFINE o == Head(order_queue)
<1>1. order_queue \in Seq(Orders) /\ order_queue # <<>> /\ order_queue' = Tail(order_queue)
      /\ sent' = sent
  BY DEF Inv, TypeOK, TakeOrder
<1>2. /\ order_queue' \in Seq(Orders) /\ Len(order_queue') = Len(order_queue) - 1
      /\ \A i \in 1 .. Len(order_queue') : order_queue'[i] = order_queue[i + 1]
      /\ o \in Orders
  BY <1>1, HeadTailProperties
<1>3. o = order_queue[1] /\ 1 \in 1 .. Len(order_queue)
  BY <1>1, EmptySeq
<1>4. /\ Len(order_queue) <= sent /\ Len(order_queue) \in Nat /\ sent \in Nat /\ Taken \in Nat
      /\ \A i \in 1 .. Len(order_queue) : order_queue[i] = Taken + i
  BY TakenIsNat DEF Inv, QueuedInOrder
<1>5. o = Taken + 1
  BY <1>3, <1>4
<1> HIDE DEF o
<1>6. Taken' = Taken + 1
  BY <1>1, <1>2, <1>4 DEF Taken
<1>7. QueuedInOrder'
  <2>1. Len(order_queue') <= sent'
    BY <1>1, <1>2, <1>4
  <2>2. ASSUME NEW i \in 1 .. Len(order_queue') PROVE order_queue'[i] = Taken' + i
    <3>1. i + 1 \in 1 .. Len(order_queue) /\ i \in Nat
      BY <1>2, <1>4
    <3>2. order_queue'[i] = Taken + (i + 1)
      BY <1>2, <1>4, <3>1
    <3> QED BY <1>4, <1>6, <3>1, <3>2
  <2> QED BY <2>1, <2>2 DEF QueuedInOrder
<1>8. Open(o) /\ submissions[o] = 0
  <2>1. o > Taken
    BY <1>4, <1>5
  <2> QED BY <1>2, <2>1 DEF Inv, QueuedAreUntouched
<1>9. ASSUME NEW i \in 1 .. Len(retry_queue) PROVE retry_queue[i].order # o
  <2>1. retry_queue[i].order <= Taken
    BY DEF Inv, RetriesWait, Waiting
  <2> QED BY <1>4, <1>5, <2>1
<1>10. loop'.pc = "orders" /\ loop'.left \in Nat
  BY DEF Inv, TypeOK, TakeOrder, At
<1>11. Taken' \in Nat /\ Taken <= Taken'
  BY <1>4, <1>6
<1> QED BY <1>2, <1>5, <1>6, <1>7, <1>8, <1>9, <1>10, <1>11 DEF o

\* The order that was taken ends: unread, or refused before any submission.
LEMMA TakenOrderEnds ==
  ASSUME Inv, TakeOrder, TypeOK', BatchesAreSeparate',
         UNCHANGED <<submissions, accepted, retry_queue>>,
         \A x \in Orders : Ended(x)' => Ended(x) \/ x \in {Head(order_queue)}
  PROVE  Inv'
<1> DEFINE o == Head(order_queue)
<1>1. /\ o \in Orders /\ o = Taken + 1 /\ Taken' = Taken + 1 /\ Taken' \in Nat
      /\ Taken <= Taken' /\ QueuedInOrder' /\ Open(o)
      /\ \A i \in 1 .. Len(retry_queue) : retry_queue[i].order # o
  BY TakeOrderFacts
<1>2. \A x \in Orders : Ended(x)' => Ended(x) \/ x \in {o}
  OBVIOUS
<1> HIDE DEF o
<1>3. {o} \in SUBSET Orders /\ \A x \in {o} : x <= Taken' /\ x \notin accepted
  BY <1>1 DEF Open
<1>4. \A i \in 1 .. Len(retry_queue) : retry_queue[i].order \notin {o}
  BY <1>1
<1> QED BY <1>1, <1>2, <1>3, <1>4, FateStep

LEMMA LoseOrderStep ==
  ASSUME Inv, LoseOrder
  PROVE  Inv'
<1>1. /\ TakeOrder /\ lost' = lost \cup {Head(order_queue)}
      /\ UNCHANGED <<retry_queue, outgoing, adapter, submissions, accepted>>
      /\ UNCHANGED <<sent, response_queue, running, tries, handled, skipped, refused, dropped>>
  BY DEF LoseOrder, TakeOrder
<1>2. Head(order_queue) \in Orders /\ order_queue' \in Seq(Orders)
      /\ loop'.pc = "orders" /\ loop'.left \in Nat
  BY <1>1, TakeOrderFacts
<1>3. TypeOK'
  BY <1>1, <1>2 DEF Inv, TypeOK, adapter
<1>4. loop.pc = "orders"
  BY <1>1 DEF TakeOrder
<1>5. BatchesAreSeparate'
  BY <1>1, <1>2, <1>4 DEF Inv, BatchesAreSeparate, adapter
<1>6. \A x \in Orders : Ended(x)' => Ended(x) \/ x \in {Head(order_queue)}
  BY <1>1 DEF Ended, Failed
<1> QED BY <1>1, <1>3, <1>5, <1>6, TakenOrderEnds

\* One TraderError on its way.
LEMMA OneError ==
  ASSUME NEW order \in Orders
  PROVE  LET errors == <<Event(order, "TraderError")>>
         IN /\ errors \in Seq(Response) /\ Len(errors) = 1 /\ DOMAIN errors = {1}
            /\ errors[1] = Event(order, "TraderError")
            /\ errors[1].kind = "TraderError" /\ errors[1].order = order
<1>1. Event(order, "TraderError") \in Response
  BY DEF Event, Response
<1>2. Event(order, "TraderError").kind = "TraderError" /\ Event(order, "TraderError").order = order
  BY DEF Event
<1> QED BY <1>1, <1>2

LEMMA RefuseOrderStep ==
  ASSUME Inv, RefuseOrder
  PROVE  Inv'
<1> DEFINE o == Head(order_queue)
<1>1. /\ TakeOrder /\ outgoing' = <<Event(o, "TraderError")>>
      /\ UNCHANGED <<retry_queue, adapter, submissions, accepted, lost>>
      /\ UNCHANGED <<sent, response_queue, running, tries, handled, skipped, refused, dropped>>
  BY DEF RefuseOrder, TakeOrder
<1>2. o \in Orders /\ order_queue' \in Seq(Orders) /\ loop'.pc = "orders" /\ loop'.left \in Nat
  BY <1>1, TakeOrderFacts
<1> HIDE DEF o
<1>3. /\ outgoing' \in Seq(Response) /\ Len(outgoing') = 1 /\ DOMAIN outgoing' = {1}
      /\ outgoing'[1].kind = "TraderError" /\ outgoing'[1].order = o
  BY <1>1, <1>2, OneError
<1>4. TypeOK'
  BY <1>1, <1>2, <1>3 DEF Inv, TypeOK, adapter
<1>5. BatchesAreSeparate'
  <2>1. \A i \in 1 .. Len(outgoing') : i = 1
    BY <1>3
  <2>2. \A i \in 1 .. Len(outgoing') : outgoing'[i].kind = "TraderError"
    BY <1>3, <2>1
  <2> QED BY <1>1, <1>2, <2>2 DEF Inv, BatchesAreSeparate, adapter
<1>6. ASSUME NEW x \in Orders, Ended(x)' PROVE Ended(x) \/ x \in {o}
  <2>1. CASE \E i \in DOMAIN outgoing' : outgoing'[i] = Event(x, "TraderError")
    BY <1>3, <2>1 DEF Event
  <2>2. CASE x \in (refused \cup dropped \cup lost)'
    BY <1>1, <2>2 DEF Ended, Failed
  <2> QED BY <1>6, <2>1, <2>2 DEF Ended, Failed
<1> QED BY <1>1, <1>4, <1>5, <1>6, TakenOrderEnds DEF o

\* What submit_request leaves: the order is at the adapter, waits for one more
\* attempt, or has failed; nothing else changes.
LEMMA SubmitTypes ==
  ASSUME Inv, NEW order \in Orders, NEW attempts \in Nat, NEW waiting \in Seq(Retry),
         SubmitRequest(order, attempts, waiting)
  PROVE  /\ submissions' \in [Orders -> Nat]
         /\ retry_queue' \in Seq(Retry) /\ Len(retry_queue') >= Len(waiting)
         /\ Len(retry_queue') \in Nat
         /\ outgoing' \in Seq(Response)
         /\ live' \subseteq accepted' /\ accepted' \subseteq Orders
         /\ events' = events /\ issued' = issued
<1>1. submissions' \in [Orders -> Nat] /\ events' = events /\ issued' = issued
  <2>1. submissions' = [submissions EXCEPT ![order] = submissions[order] + 1]
        /\ events' = events /\ issued' = issued
    BY DEF SubmitRequest
  <2>2. submissions \in [Orders -> Nat]
    BY DEF Inv, TypeOK
  <2>3. submissions[order] + 1 \in Nat
    BY <2>2
  <2> QED BY <2>1, <2>2, <2>3
<1>2. live' \subseteq accepted' /\ accepted' \subseteq Orders
  BY DEF Inv, TypeOK, SubmitRequest
<1>3. outgoing' \in Seq(Response)
  <2>1. outgoing' = <<>> \/ outgoing' = <<Event(order, "TraderError")>>
    BY DEF SubmitRequest
  <2> QED BY <2>1, OneError, EmptySeq
<1>4. retry_queue' \in Seq(Retry) /\ Len(retry_queue') >= Len(waiting) /\ Len(retry_queue') \in Nat
  <2>1. [order |-> order, attempts |-> attempts + 1] \in Retry
    BY DEF Retry
  <2>2. retry_queue' = waiting
        \/ retry_queue' = Append(waiting, [order |-> order, attempts |-> attempts + 1])
    BY DEF SubmitRequest
  <2>3. Len(waiting) \in Nat
    BY LenProperties
  <2> QED BY <2>1, <2>2, <2>3, AppendProperties
<1> QED BY <1>1, <1>2, <1>3, <1>4

LEMMA SubmitStep ==
  ASSUME Inv, NEW order \in Orders, NEW attempts \in Nat, NEW waiting \in Seq(Retry),
         SubmitRequest(order, attempts, waiting),
         outgoing = <<>>, Open(order),
         submissions[order] = attempts, attempts <= MaxRetryAttempts,
         TypeOK', QueuedInOrder', Taken' \in Nat, Taken <= Taken', order <= Taken',
         \A i \in 1 .. Len(waiting) : Waiting(waiting[i]) /\ waiting[i].order # order,
         Distinct(waiting),
         UNCHANGED <<handled, skipped, refused, dropped, lost>>, loop'.pc # "forward"
  PROVE  Inv'
<1> DEFINE again == [order |-> order, attempts |-> attempts + 1]
<1>1. /\ submissions' = [submissions EXCEPT ![order] = @ + 1]
      /\ \/ /\ accepted' = accepted \cup {order}
            /\ retry_queue' = waiting
            /\ outgoing' = <<>>
         \/ /\ MayRetry(attempts)
            /\ retry_queue' = Append(waiting, again)
            /\ outgoing' = <<>>
            /\ accepted' = accepted
         \/ /\ retry_queue' = waiting
            /\ outgoing' = <<Event(order, "TraderError")>>
            /\ accepted' = accepted
      /\ events' = events
  BY DEF SubmitRequest
<1>2. again \in Retry /\ again.order = order /\ again.attempts = attempts + 1
  BY DEF Retry
<1> HIDE DEF again
<1>3. /\ submissions'[order] = attempts + 1
      /\ \A x \in Orders : x # order => submissions'[x] = submissions[x]
  BY <1>1 DEF Inv, TypeOK
<1>4. DOMAIN <<>> = {} /\ Len(<<>>) = 0
  BY EmptySeq
\* No other order ends, and this one does not unless its failure is reported.
<1>5. ASSUME NEW x \in Orders, x # order \/ outgoing' = <<>>, ~Ended(x)
      PROVE  ~Ended(x)'
  <2>1. x \notin (refused \cup dropped \cup lost)'
    BY <1>5 DEF Ended, Failed
  <2>2. ~ \E i \in DOMAIN outgoing' : outgoing'[i] = Event(x, "TraderError")
    <3>1. CASE outgoing' = <<>>
      BY <1>4, <3>1
    <3>2. CASE outgoing' = <<Event(order, "TraderError")>> /\ x # order
      <4>1. DOMAIN outgoing' = {1} /\ outgoing'[1].order = order
        BY <3>2, OneError
      <4> QED BY <3>2, <4>1 DEF Event
    <3> QED BY <1>1, <1>5, <3>1, <3>2
  <2> QED BY <2>1, <2>2 DEF Ended, Failed
<1>6. \A x \in Orders : x # order /\ Open(x) => Open(x)'
  BY <1>1, <1>5 DEF Open
<1>7. \A x \in Orders : x \in Nat
  BY DEF Orders
<1>8. QueuedAreUntouched'
  <2> SUFFICES ASSUME NEW x \in Orders, x > Taken'
               PROVE  Open(x)' /\ submissions'[x] = 0
    BY DEF QueuedAreUntouched
  <2>1. x > Taken /\ x # order
    BY <1>7, TakenIsNat
  <2> QED BY <1>3, <1>6, <2>1 DEF Inv, QueuedAreUntouched
<1>9. AcceptedIsFinal'
  <2> SUFFICES ASSUME NEW x \in accepted'
               PROVE  ~Ended(x)'
    BY DEF AcceptedIsFinal
  <2>1. accepted \subseteq Orders /\ order \notin accepted /\ ~Ended(order)
    BY DEF Inv, TypeOK, Open
  <2>2. CASE x = order
    BY <1>1, <1>5, <2>1, <2>2
  <2>3. CASE x # order
    <3>1. x \in accepted /\ x \in Orders
      BY <1>1, <2>1, <2>3
    <3> QED BY <1>5, <2>3, <3>1 DEF Inv, AcceptedIsFinal
  <2> QED BY <2>2, <2>3
<1>10. ASSUME NEW i \in 1 .. Len(waiting)
       PROVE  Waiting(waiting[i])' /\ waiting[i].order # order
  <2>1. waiting[i].order \in Orders
    BY RetryFields
  <2>2. waiting[i].order <= Taken'
    BY <1>7, <2>1, TakenIsNat DEF Waiting
  <2> QED BY <1>3, <1>6, <2>1, <2>2 DEF Waiting
<1>11. RetriesWait'
  <2>1. CASE retry_queue' = waiting
    BY <1>10, <2>1 DEF RetriesWait, Distinct
  <2>2. CASE /\ MayRetry(attempts) /\ outgoing' = <<>> /\ accepted' = accepted
             /\ retry_queue' = Append(waiting, again)
    <3>1. Distinct(retry_queue')
      BY <1>2, <1>10, <2>2, DistinctAppend
    <3>2. Open(order)'
      BY <1>5, <2>2 DEF Open
    <3>3. attempts + 1 <= MaxRetryAttempts
      BY <2>2, BoundsAssumption DEF MayRetry
    <3>4. Waiting(again)'
      BY <1>2, <1>3, <3>2, <3>3 DEF Waiting
    <3>5. /\ Len(waiting) \in Nat /\ Len(retry_queue') = Len(waiting) + 1
          /\ \A i \in 1 .. Len(waiting) : retry_queue'[i] = waiting[i]
          /\ retry_queue'[Len(waiting) + 1] = again
      BY <1>2, <2>2, AppendProperties, LenProperties
    <3>6. ASSUME NEW i \in 1 .. Len(retry_queue') PROVE Waiting(retry_queue[i])'
      <4>1. i \in 1 .. Len(waiting) \/ i = Len(waiting) + 1
        BY <3>5
      <4>2. CASE i \in 1 .. Len(waiting)
        <5>1. Waiting(waiting[i])' /\ retry_queue'[i] = waiting[i]
          BY <1>10, <3>5, <4>2
        <5> QED BY <5>1 DEF Waiting
      <4>3. CASE i = Len(waiting) + 1
        <5>1. retry_queue'[i] = again
          BY <3>5, <4>3
        <5> QED BY <3>4, <5>1 DEF Waiting
      <4> QED BY <4>1, <4>2, <4>3
    <3> QED BY <3>1, <3>6 DEF RetriesWait, Distinct
  <2> QED BY <1>1, <2>1, <2>2
<1>12. SubmittedSeldom'
  <2>1. \A x \in Orders : submissions'[x] <= MaxRetryAttempts + 1
    BY <1>3, BoundsAssumption DEF Inv, SubmittedSeldom
  <2> QED BY <2>1 DEF SubmittedSeldom
<1>13. BatchesAreSeparate'
  <2>1. \A i \in 1 .. Len(outgoing') : outgoing'[i].kind = "TraderError"
    <3>1. CASE outgoing' = <<>>
      BY <1>4, <3>1
    <3>2. CASE outgoing' = <<Event(order, "TraderError")>>
      <4>1. Len(outgoing') = 1 /\ outgoing'[1].kind = "TraderError"
        BY <3>2, OneError
      <4>2. \A i \in 1 .. Len(outgoing') : i = 1
        BY <4>1
      <4> QED BY <4>1, <4>2
    <3> QED BY <1>1, <3>1, <3>2
  <2> QED BY <1>1, <2>1 DEF Inv, BatchesAreSeparate
<1> QED BY <1>8, <1>9, <1>11, <1>12, <1>13 DEF Inv

LEMMA SubmitOrderStep ==
  ASSUME Inv, SubmitOrder
  PROVE  Inv'
<1> DEFINE o == Head(order_queue)
<1>1. /\ TakeOrder /\ SubmitRequest(o, 0, retry_queue) /\ outgoing = <<>>
      /\ UNCHANGED <<sent, response_queue, running, tries, handled, skipped, refused, dropped, lost>>
  BY DEF SubmitOrder, TakeOrder
<1>2. /\ o \in Orders /\ o = Taken + 1 /\ Taken' = Taken + 1 /\ Taken' \in Nat
      /\ Taken <= Taken' /\ QueuedInOrder' /\ Open(o) /\ submissions[o] = 0
      /\ order_queue' \in Seq(Orders)
      /\ \A i \in 1 .. Len(retry_queue) : retry_queue[i].order # o
      /\ loop'.pc = "orders" /\ loop'.left \in Nat
  BY <1>1, TakeOrderFacts
<1> HIDE DEF o
<1>3. retry_queue \in Seq(Retry) /\ 0 \in Nat /\ 0 <= MaxRetryAttempts
  BY BoundsAssumption DEF Inv, TypeOK, Retry
<1>4. /\ submissions' \in [Orders -> Nat] /\ retry_queue' \in Seq(Retry)
      /\ outgoing' \in Seq(Response) /\ live' \subseteq accepted' /\ accepted' \subseteq Orders
      /\ events' = events /\ issued' = issued
  BY <1>1, <1>2, <1>3, SubmitTypes
<1>5. TypeOK'
  BY <1>1, <1>2, <1>4 DEF Inv, TypeOK, Retry
<1>6. /\ \A i \in 1 .. Len(retry_queue) : Waiting(retry_queue[i]) /\ retry_queue[i].order # o
      /\ Distinct(retry_queue)
  BY <1>2 DEF Inv, RetriesWait
<1>7. o <= Taken'
  BY <1>2
<1>8. loop'.pc # "forward"
  BY <1>2
<1> QED BY <1>1, <1>2, <1>3, <1>5, <1>6, <1>7, <1>8, SubmitStep

\* What process_retry_queue finds at the front.
LEMMA FrontRetry ==
  ASSUME Inv, loop.pc = "retry", loop.left > 0
  PROVE  /\ retry_queue \in Seq(Retry) /\ retry_queue # <<>>
         /\ Head(retry_queue) \in Retry /\ Waiting(Head(retry_queue))
         /\ Tail(retry_queue) \in Seq(Retry) /\ Len(Tail(retry_queue)) = Len(retry_queue) - 1
         /\ Len(retry_queue) \in Nat /\ Distinct(Tail(retry_queue))
         /\ \A i \in 1 .. Len(Tail(retry_queue)) :
              /\ Waiting(Tail(retry_queue)[i])
              /\ Tail(retry_queue)[i].order # Head(retry_queue).order
<1>1. retry_queue \in Seq(Retry) /\ Len(retry_queue) \in Nat /\ Len(retry_queue) > 0
  BY LenProperties DEF Inv, TypeOK, Retry
<1>2. retry_queue # <<>>
  BY <1>1, EmptySeq
<1>3. /\ Head(retry_queue) \in Retry /\ Tail(retry_queue) \in Seq(Retry)
      /\ Len(Tail(retry_queue)) = Len(retry_queue) - 1
      /\ \A i \in 1 .. Len(Tail(retry_queue)) : Tail(retry_queue)[i] = retry_queue[i + 1]
  BY <1>1, <1>2, HeadTailProperties
<1>4. Head(retry_queue) = retry_queue[1] /\ 1 \in 1 .. Len(retry_queue)
  BY <1>1
<1>5. (\A i \in 1 .. Len(retry_queue) : Waiting(retry_queue[i])) /\ Distinct(retry_queue)
  BY DEF Inv, RetriesWait
<1>6. Waiting(Head(retry_queue))
  BY <1>4, <1>5
<1>7. ASSUME NEW i \in 1 .. Len(Tail(retry_queue)) PROVE Waiting(Tail(retry_queue)[i])
  <2>1. i + 1 \in 1 .. Len(retry_queue)
    BY <1>1, <1>3
  <2>2. Tail(retry_queue)[i] = retry_queue[i + 1]
    BY <1>3
  <2> QED BY <1>5, <2>1, <2>2
<1>8. /\ Distinct(Tail(retry_queue))
      /\ \A i \in 1 .. Len(Tail(retry_queue)) :
           Tail(retry_queue)[i].order # Head(retry_queue).order
  BY <1>1, <1>2, <1>5, DistinctTail
<1> QED BY <1>1, <1>2, <1>3, <1>6, <1>7, <1>8

LEMMA RetryNowStep ==
  ASSUME Inv, RetryNow
  PROVE  Inv'
<1> DEFINE e == Head(retry_queue)
           rest == Tail(retry_queue)
<1>1. /\ loop.pc = "retry" /\ loop.left > 0 /\ outgoing = <<>>
      /\ SubmitRequest(e.order, e.attempts, rest)
      /\ UNCHANGED <<sent, order_queue, response_queue, running, tries, handled, skipped, refused, dropped, lost>>
  BY DEF RetryNow, queues
<1>2. /\ e \in Retry /\ Waiting(e) /\ rest \in Seq(Retry)
      /\ Len(rest) = Len(retry_queue) - 1 /\ Len(retry_queue) \in Nat /\ Distinct(rest)
      /\ \A i \in 1 .. Len(rest) : Waiting(rest[i]) /\ rest[i].order # e.order
  BY <1>1, FrontRetry
<1> HIDE DEF e, rest
<1>3. e.order \in Orders /\ e.attempts \in Nat
  BY <1>2 DEF Retry
<1>4. /\ submissions' \in [Orders -> Nat]
      /\ retry_queue' \in Seq(Retry) /\ Len(retry_queue') >= Len(rest)
      /\ Len(retry_queue') \in Nat
      /\ outgoing' \in Seq(Response) /\ live' \subseteq accepted' /\ accepted' \subseteq Orders
      /\ events' = events /\ issued' = issued
  BY <1>1, <1>2, <1>3, SubmitTypes
<1>5. loop'.pc = "retry" /\ loop'.left = loop.left - 1
  BY DEF RetryNow, At
<1>6. loop'.left \in Nat /\ loop'.left <= Len(retry_queue')
  <2>1. loop.left \in Nat /\ loop.left <= Len(retry_queue)
    BY <1>1 DEF Inv, TypeOK
  <2> QED BY <1>1, <1>2, <1>4, <1>5, <2>1
<1>7. TypeOK'
  BY <1>1, <1>4, <1>5, <1>6 DEF Inv, TypeOK, Retry
<1>8. Taken' = Taken /\ QueuedInOrder'
  BY <1>1 DEF Inv, Taken, QueuedInOrder
<1>9. /\ Open(e.order) /\ e.order <= Taken' /\ submissions[e.order] = e.attempts
      /\ e.attempts <= MaxRetryAttempts
  BY <1>2, <1>8 DEF Waiting
<1>10. Taken' \in Nat /\ Taken <= Taken'
  BY <1>8, TakenIsNat
<1>11. loop'.pc # "forward"
  BY <1>5
<1> QED BY <1>1, <1>2, <1>3, <1>7, <1>8, <1>9, <1>10, <1>11, SubmitStep

\* A retry that is not due goes to the back.
LEMMA RetryLaterStep ==
  ASSUME Inv, RetryLater
  PROVE  Inv'
<1> DEFINE e == Head(retry_queue)
           rest == Tail(retry_queue)
<1>1. /\ loop.pc = "retry" /\ loop.left > 0 /\ retry_queue' = Append(rest, e)
      /\ UNCHANGED <<queues, running, outgoing, tries, adapter, submissions, accepted, handled, skipped, refused,
                     dropped, lost>>
  BY DEF RetryLater
<1>2. /\ e \in Retry /\ Waiting(e) /\ rest \in Seq(Retry)
      /\ Len(rest) = Len(retry_queue) - 1 /\ Len(retry_queue) \in Nat /\ Distinct(rest)
      /\ \A i \in 1 .. Len(rest) : Waiting(rest[i]) /\ rest[i].order # e.order
  BY <1>1, FrontRetry
<1> HIDE DEF e, rest
<1>3. /\ retry_queue' \in Seq(Retry) /\ Len(retry_queue') = Len(rest) + 1
      /\ \A i \in 1 .. Len(rest) : retry_queue'[i] = rest[i]
      /\ retry_queue'[Len(rest) + 1] = e
  BY <1>1, <1>2, AppendProperties
<1>4. Distinct(retry_queue')
  BY <1>1, <1>2, DistinctAppend
<1>5. loop'.pc = "retry" /\ loop'.left = loop.left - 1
  BY DEF RetryLater, At
<1>6. loop'.left \in Nat /\ loop'.left <= Len(retry_queue')
  <2>1. loop.left \in Nat /\ loop.left <= Len(retry_queue)
    BY <1>1 DEF Inv, TypeOK
  <2> QED BY <1>1, <1>2, <1>3, <1>5, <2>1
<1>7. TypeOK'
  BY <1>1, <1>3, <1>5, <1>6 DEF Inv, TypeOK, Retry, queues, adapter
<1>8. ASSUME NEW i \in 1 .. Len(retry_queue') PROVE Waiting(retry_queue'[i])
  <2>1. i \in 1 .. Len(rest) \/ i = Len(rest) + 1
    BY <1>2, <1>3
  <2> QED BY <1>2, <1>3, <2>1
<1>9. RetriesWait'
  <2>1. \A i \in 1 .. Len(retry_queue') : Waiting(retry_queue[i])'
    BY <1>1, <1>8 DEF Waiting, Open, Ended, Failed, Taken, queues
  <2> QED BY <1>4, <2>1 DEF RetriesWait, Distinct
<1>10. QueuedInOrder' /\ QueuedAreUntouched' /\ AcceptedIsFinal' /\ SubmittedSeldom'
  BY <1>1 DEF Inv, QueuedInOrder, QueuedAreUntouched, AcceptedIsFinal, SubmittedSeldom, Open,
              Ended, Failed, Taken, queues
<1>11. BatchesAreSeparate'
  BY <1>1, <1>5 DEF Inv, BatchesAreSeparate, adapter
<1> QED BY <1>7, <1>9, <1>10, <1>11 DEF Inv

LEMMA StutterStep ==
  ASSUME Inv, UNCHANGED vars
  PROVE  Inv'
<1>1. TypeOK'
  BY DEF Inv, TypeOK, vars, queues, gateway, adapter
<1> QED BY <1>1, QuietStep DEF vars, queues, gateway, adapter, fates

LEMMA NextStep ==
  ASSUME Inv, Next
  PROVE  Inv'
<1>1. CASE Service
  BY <1>1, SendOrderStep, TakeResponseStep DEF Service
<1>2. CASE Adapter
  BY <1>2, AdapterStep
<1>3. CASE Stop
  BY <1>3, StopStep
<1>4. CASE BeginIteration \/ RetryLater \/ RetryNow \/ EndRetries
  BY <1>4, BeginIterationStep, RetryLaterStep, RetryNowStep, EndRetriesStep
<1>5. CASE LoseOrder \/ RefuseOrder \/ SubmitOrder \/ EndOrders
  BY <1>5, LoseOrderStep, RefuseOrderStep, SubmitOrderStep, EndOrdersStep
<1>6. CASE PollEvents \/ EndForward \/ SkipEvent \/ PushResponse \/ PushAgain \/ PushFailed
  BY <1>6, PollEventsStep, SkipEventStep, EndForwardStep, PushResponseStep, PushAgainStep, PushFailedStep
<1> QED BY <1>1, <1>2, <1>3, <1>4, <1>5, <1>6 DEF Next, Loop

-----------------------------------------------------------------------------
(* The theorems.                                                           *)

\* Every reachable state of the gateway satisfies the inductive invariant.
THEOREM Invariance == Spec => []Inv
<1>1. Inv /\ [Next]_vars => Inv'
  BY NextStep, StutterStep
<1> QED BY InitInv, <1>1, PTL DEF Spec

\* Every variable keeps its type; in particular process_retry_queue, which counts
\* the entries before it looks at them, never looks for one that is not there.
THEOREM TypeCorrect == Spec => []TypeOK
<1>1. Inv => TypeOK
  BY DEF Inv
<1> QED BY <1>1, Invariance, PTL

\* However retries, refusals and batches interleave, submit() is called at most
\* max_retry_attempts + 1 times for an order and never again once it accepted it.
THEOREM RetriesAreBounded == Spec => []SubmissionsBounded
<1>1. ASSUME Inv PROVE SubmissionsBounded
  <2>1. DOMAIN retry_queue = 1 .. Len(retry_queue)
    BY <1>1, LenProperties DEF Inv, TypeOK
  <2> QED BY <1>1, <2>1 DEF Inv, SubmittedSeldom, RetriesWait, Waiting, Open, SubmissionsBounded
<1> QED BY <1>1, Invariance, PTL

\* A TraderError that was pushed or given up, and an order that could not be read,
\* is about an order that is not at the broker and that no retry will send there.
THEOREM FailuresAreFinal == Spec => []ErrorMeansNotSent
<1>1. ASSUME Inv PROVE ErrorMeansNotSent
  <2>1. DOMAIN retry_queue = 1 .. Len(retry_queue)
    BY <1>1, LenProperties DEF Inv, TypeOK
  <2> SUFFICES ASSUME NEW order \in Orders, order \in refused \cup dropped \cup lost
               PROVE  /\ order \notin accepted
                      /\ \A i \in DOMAIN retry_queue : retry_queue[i].order # order
    BY DEF ErrorMeansNotSent
  <2>2. Ended(order)
    BY DEF Ended, Failed
  <2> QED BY <1>1, <2>1, <2>2 DEF Inv, AcceptedIsFinal, RetriesWait, Waiting, Open
<1> QED BY <1>1, Invariance, PTL

-----------------------------------------------------------------------------
(* Events without a gap.                                                   *)

\* The events that process_events has taken and not yet pushed.
Awaiting == IF loop.pc = "forward" THEN outgoing ELSE <<>>

\* The events that the loop is done with are the first ones.
InSequence == IsPrefix(handled, issued)

\* Every event is done with, about to be pushed, or with the adapter.
Whole == issued = (handled \o Awaiting) \o events

\* A batch has been given up: the thread is on its way out and pushes nothing more.
GivenUp ==
  /\ ~ running
  /\ outgoing = <<>>
  /\ loop.pc \in {"forward", "head", "stopped"}

\* No event is missing, or the gateway has given up (the inductive invariant).
EventsInStep == Whole \/ (GivenUp /\ InSequence)

\* A sequence is a prefix of what continues it.
LEMMA PrefixOfConcat ==
  ASSUME NEW S, NEW s \in Seq(S), NEW t \in Seq(S)
  PROVE  IsPrefix(s, s \o t)
<1>1. /\ s \o t \in Seq(S) /\ Len(s \o t) = Len(s) + Len(t)
      /\ \A i \in 1 .. Len(s) + Len(t) : (s \o t)[i] = IF i <= Len(s) THEN s[i] ELSE t[i - Len(s)]
  BY ConcatProperties
<1>2. Len(s) \in Nat /\ Len(t) \in Nat
  BY LenProperties
<1>3. SubSeq(s, 1, Len(s)) = s
  BY SubSeqFull
<1> DEFINE u == s \o t
           p == SubSeq(u, 1, Len(s))
<1> HIDE DEF u
<1>4. \A i \in 1 .. Len(s) : u[i] = s[i] /\ u[i] \in S
  BY <1>1, <1>2, ElementOfSeq DEF u
<1>5. /\ p \in Seq(S) /\ Len(p) = (IF 1 <= Len(s) THEN Len(s) - 1 + 1 ELSE 0)
      /\ \A i \in 1 .. Len(s) - 1 + 1 : p[i] = u[1 + i - 1]
  BY <1>2, <1>4, SubSeqProperties
<1> HIDE DEF p
<1>6. Len(p) = Len(s) /\ \A i \in 1 .. Len(p) : p[i] = s[i]
  BY <1>2, <1>4, <1>5
<1>7. p = s
  BY <1>5, <1>6, SeqEqual
<1> QED BY <1>1, <1>2, <1>3, <1>7 DEF IsPrefix, u, p

\* A prefix stays one when the sequence grows.
LEMMA PrefixGrows ==
  ASSUME NEW S, NEW s \in Seq(S), NEW t \in Seq(S), IsPrefix(s, t), NEW e \in S
  PROVE  IsPrefix(s, Append(t, e))
<1> DEFINE u == Append(t, e)
           p == SubSeq(t, 1, Len(s))
           q == SubSeq(u, 1, Len(s))
<1>1. Len(s) \in Nat /\ Len(t) \in Nat /\ Len(s) <= Len(t)
  BY LenProperties DEF IsPrefix
<1>2. /\ u \in Seq(S) /\ Len(u) = Len(t) + 1 /\ \A i \in 1 .. Len(t) : u[i] = t[i]
  BY AppendProperties
<1> HIDE DEF u
<1>3. \A i \in 1 .. Len(s) : u[i] = t[i] /\ u[i] \in S /\ t[i] \in S
  BY <1>1, <1>2, ElementOfSeq
<1>4. /\ p \in Seq(S) /\ Len(p) = (IF 1 <= Len(s) THEN Len(s) - 1 + 1 ELSE 0)
      /\ \A i \in 1 .. Len(s) - 1 + 1 : p[i] = t[1 + i - 1]
  BY <1>1, <1>3, SubSeqProperties
<1>5. /\ q \in Seq(S) /\ Len(q) = (IF 1 <= Len(s) THEN Len(s) - 1 + 1 ELSE 0)
      /\ \A i \in 1 .. Len(s) - 1 + 1 : q[i] = u[1 + i - 1]
  BY <1>1, <1>3, SubSeqProperties
<1>6. SubSeq(s, 1, Len(s)) = p
  BY DEF IsPrefix
<1> HIDE DEF p, q
<1>7. Len(p) = Len(q) /\ \A i \in 1 .. Len(p) : p[i] = q[i]
  BY <1>1, <1>3, <1>4, <1>5
<1>8. p = q
  BY <1>4, <1>5, <1>7, SeqEqual
<1> QED BY <1>1, <1>2, <1>6, <1>8 DEF IsPrefix, u, q

\* The events that are whole have no gap.
LEMMA WholeHasNoGap == TypeOK /\ Whole => InSequence
<1> SUFFICES ASSUME TypeOK, Whole PROVE InSequence
  OBVIOUS
<1>1. handled \in Seq(Response) /\ Awaiting \in Seq(Response) /\ events \in Seq(Response)
  BY EmptySeq DEF TypeOK, Awaiting
<1>2. Awaiting \o events \in Seq(Response)
  BY <1>1, ConcatProperties
<1>3. (handled \o Awaiting) \o events = handled \o (Awaiting \o events)
  BY ONLY <1>1, ConcatAssociative
<1>4. issued = handled \o (Awaiting \o events)
  BY <1>3 DEF Whole
<1> QED BY <1>1, <1>2, <1>4, PrefixOfConcat DEF InSequence

\* The adapter adds its event to both ends.
LEMMA AdapterInStep ==
  ASSUME Inv, EventsInStep, Adapter
  PROVE  EventsInStep'
<1>1. PICK order \in live, kind \in {"Report", "Finished", "Garbled"} : AdapterEvent(order, kind)
  BY DEF Adapter
<1> DEFINE e == Event(order, kind)
<1>2. e \in Response
  BY <1>1 DEF Inv, TypeOK, Event, Response
<1>3. events' = Append(events, e) /\ issued' = Append(issued, e) /\ UNCHANGED <<gateway, handled>>
  BY <1>1 DEF AdapterEvent
<1> HIDE DEF e
<1>4. events \in Seq(Response) /\ issued \in Seq(Response) /\ handled \in Seq(Response) /\ Awaiting \in Seq(Response)
  BY EmptySeq DEF Inv, TypeOK, Awaiting
<1>5. UNCHANGED <<running, loop, outgoing>> /\ Awaiting' = Awaiting
  BY <1>3 DEF gateway, Awaiting
<1>6. CASE Whole
  <2>1. PICK s : s = handled \o Awaiting
    OBVIOUS
  <2>2. PICK x : x = <<e>>
    OBVIOUS
  <2>3. s \in Seq(Response) /\ x \in Seq(Response)
    BY <1>2, <1>4, <2>1, <2>2, ConcatProperties
  <2>4. issued = s \o events
    BY <1>6, <2>1 DEF Whole
  <2>5. issued' = issued \o x /\ events' = events \o x
    BY <1>2, <1>3, <1>4, <2>2, AppendIsConcat
  <2>6. (s \o events) \o x = s \o (events \o x)
    <3>1. s \in Seq(Response) /\ events \in Seq(Response) /\ x \in Seq(Response)
      BY <1>4, <2>3
    <3> QED BY ONLY <3>1, ConcatAssociative
  <2>7. issued' = s \o events'
    BY <2>4, <2>5, <2>6
  <2> QED BY <1>3, <1>5, <2>1, <2>7 DEF Whole, EventsInStep
<1>7. CASE GivenUp /\ InSequence
  <2>1. InSequence'
    BY <1>2, <1>3, <1>4, <1>7, PrefixGrows DEF InSequence
  <2> QED BY <1>5, <1>7, <2>1 DEF GivenUp, EventsInStep
<1> QED BY <1>6, <1>7 DEF EventsInStep

\* A batch is handed over: its events move from the adapter's list to the thread's.
LEMMA PollInStep ==
  ASSUME Inv, EventsInStep, PollEvents
  PROVE  EventsInStep'
<1>1. PICK n \in 0 .. Len(events) :
         outgoing' = SubSeq(events, 1, n) /\ events' = SubSeq(events, n + 1, Len(events))
  BY DEF PollEvents
<1>2. /\ events \in Seq(Response) /\ Len(events) \in Nat /\ n \in Nat /\ n <= Len(events)
      /\ handled \in Seq(Response)
  BY DEF Inv, TypeOK
<1>3. loop.pc = "events" /\ loop'.pc = "forward" /\ UNCHANGED <<handled, issued>>
  BY DEF PollEvents, At
<1>4. Awaiting = <<>> /\ Awaiting' = outgoing'
  BY <1>3 DEF Awaiting
<1>5. issued = handled \o events
  <2>1. handled \o <<>> = handled
    BY <1>2, ConcatEmptySeq
  <2> QED BY <1>3, <1>4, <2>1 DEF EventsInStep, Whole, GivenUp
<1>6. outgoing' \o events' = events
  <2>1. 1 \in 1 .. Len(events) + 1 /\ n \in 1 - 1 .. Len(events) /\ Len(events) \in n .. Len(events)
    BY <1>2
  <2>2. SubSeq(events, 1, n) \o SubSeq(events, n + 1, Len(events)) = SubSeq(events, 1, Len(events))
    BY <1>2, <2>1, ConcatAdjacentSubSeq
  <2> QED BY <1>1, <1>2, <2>2, SubSeqFull
<1>7. outgoing' \in Seq(Response) /\ events' \in Seq(Response)
  BY PollEventsStep DEF Inv, TypeOK
<1>8. (handled \o outgoing') \o events' = handled \o (outgoing' \o events')
  <2>1. handled \in Seq(Response) /\ outgoing' \in Seq(Response) /\ events' \in Seq(Response)
    BY <1>2, <1>7
  <2> QED BY ONLY <2>1, ConcatAssociative, SMTT(120)
<1> QED BY <1>3, <1>4, <1>5, <1>6, <1>8 DEF Whole, EventsInStep

\* An event moves from the front of the batch to the responses; a TraderError is not
\* among the events.
LEMMA PushInStep ==
  ASSUME Inv, EventsInStep, PushResponse
  PROVE  EventsInStep'
<1> DEFINE e == Head(outgoing)
<1>1. /\ outgoing # <<>> /\ outgoing \in Seq(Response) /\ handled \in Seq(Response)
      /\ outgoing' = Tail(outgoing) /\ UNCHANGED <<loop, issued, events>>
  BY DEF PushResponse, Inv, TypeOK, adapter
<1>2. Whole
  BY <1>1 DEF EventsInStep, GivenUp
<1>3. e = outgoing[1] /\ 1 \in 1 .. Len(outgoing)
  BY <1>1, EmptySeq
<1>4. e.kind = "TraderError" <=> loop.pc # "forward"
  BY <1>3 DEF Inv, BatchesAreSeparate
<1>5. handled' = IF e.kind = "TraderError" THEN handled ELSE Append(handled, e)
  BY DEF PushResponse
<1>6. e \in Response /\ Tail(outgoing) \in Seq(Response)
  BY <1>1, HeadTailProperties
<1>7. CASE loop.pc = "forward"
  <2>1. Awaiting = outgoing /\ Awaiting' = Tail(outgoing)
    BY <1>1, <1>7 DEF Awaiting
  <2>2. Append(handled, e) \o Tail(outgoing) = handled \o outgoing
    BY <1>1
  <2> QED BY <1>1, <1>2, <1>4, <1>5, <1>7, <2>1, <2>2 DEF Whole, EventsInStep
<1>8. CASE loop.pc # "forward"
  <2>1. Awaiting = <<>> /\ Awaiting' = <<>>
    BY <1>1, <1>8 DEF Awaiting
  <2> QED BY <1>1, <1>2, <1>4, <1>5, <1>8, <2>1 DEF Whole, EventsInStep
<1> QED BY <1>7, <1>8

\* An event that cannot be mapped leaves the front of the batch as well.
LEMMA SkipInStep ==
  ASSUME Inv, EventsInStep, SkipEvent
  PROVE  EventsInStep'
<1>1. /\ outgoing # <<>> /\ outgoing \in Seq(Response) /\ handled \in Seq(Response) /\ loop.pc = "forward"
      /\ outgoing' = Tail(outgoing) /\ handled' = Append(handled, Head(outgoing)) /\ UNCHANGED <<loop, issued, events>>
  BY DEF SkipEvent, Inv, TypeOK, adapter
<1>2. Whole
  BY <1>1 DEF EventsInStep, GivenUp
<1>3. Awaiting = outgoing /\ Awaiting' = Tail(outgoing)
  BY <1>1 DEF Awaiting
<1>4. Append(handled, Head(outgoing)) \o Tail(outgoing) = handled \o outgoing
  BY <1>1
<1> QED BY <1>1, <1>2, <1>3, <1>4 DEF Whole, EventsInStep

\* Giving a batch up ends the forwarding for good.
LEMMA FailInStep ==
  ASSUME Inv, EventsInStep, PushFailed
  PROVE  EventsInStep'
<1>1. outgoing # <<>> /\ UNCHANGED <<loop, issued, events, handled>> /\ outgoing' = <<>>
  BY DEF PushFailed, GiveUp, adapter
<1>2. Whole
  BY <1>1 DEF EventsInStep, GivenUp
<1>3. CASE loop.pc = "forward"
  <2>1. InSequence'
    BY <1>1, <1>2, WholeHasNoGap DEF Inv, InSequence
  <2>2. GivenUp'
    BY <1>1, <1>3 DEF GivenUp, PushFailed, GiveUp
  <2> QED BY <2>1, <2>2 DEF EventsInStep
<1>4. CASE loop.pc # "forward"
  BY <1>1, <1>2, <1>4 DEF Awaiting, Whole, EventsInStep
<1> QED BY <1>3, <1>4

\* A step that touches neither the events nor what waits to be pushed as one, and
\* keeps a gateway that has given up on its way out.
LEMMA KeptInStep ==
  ASSUME EventsInStep, UNCHANGED <<issued, events, handled>>,
         Whole => Awaiting' = Awaiting, GivenUp => GivenUp'
  PROVE  EventsInStep'
  BY DEF EventsInStep, Whole, InSequence

\* Every step keeps the events in step.
LEMMA NextInStep == Inv /\ EventsInStep /\ [Next]_vars => EventsInStep'
<1> SUFFICES ASSUME Inv, EventsInStep, [Next]_vars PROVE EventsInStep'
  OBVIOUS
<1>1. CASE UNCHANGED <<issued, events, handled, loop, outgoing>> /\ (running' => running)
  BY <1>1, KeptInStep DEF Awaiting, GivenUp
<1>2. CASE Service
  BY <1>1, <1>2 DEF Service, SendOrder, TakeResponse, gateway, adapter
<1>3. CASE Adapter
  BY <1>3, AdapterInStep
<1>4. CASE Stop
  BY <1>1, <1>4 DEF Stop, adapter
<1>5. CASE BeginIteration
  <2>1. UNCHANGED <<issued, events, handled, outgoing, running>> /\ loop.pc = "head"
        /\ loop'.pc \in {"retry", "stopped"} /\ (~ running => loop'.pc = "stopped")
    BY <1>5 DEF BeginIteration, At, adapter
  <2> QED BY <2>1, KeptInStep DEF Awaiting, GivenUp
<1>6. CASE RetryLater \/ EndRetries \/ EndOrders \/ LoseOrder
  <2>1. /\ UNCHANGED <<issued, events, handled, running>> /\ loop.pc \in {"retry", "orders"}
        /\ loop'.pc \in {"retry", "orders", "events"}
    BY <1>6 DEF RetryLater, EndRetries, EndOrders, LoseOrder, TakeOrder, At, adapter
  <2> QED BY <2>1, KeptInStep DEF Awaiting, GivenUp
<1>7. CASE RetryNow \/ RefuseOrder \/ SubmitOrder
  <2>1. /\ UNCHANGED <<issued, events, handled, running>> /\ loop.pc \in {"retry", "orders"}
        /\ loop'.pc \in {"retry", "orders"}
    BY <1>7 DEF RetryNow, RefuseOrder, SubmitOrder, SubmitRequest, TakeOrder, At, adapter
  <2> QED BY <2>1, KeptInStep DEF Awaiting, GivenUp
<1>8. CASE PollEvents
  BY <1>8, PollInStep
<1>9. CASE EndForward
  <2>1. /\ UNCHANGED <<issued, events, handled, outgoing, running>> /\ loop.pc = "forward"
        /\ outgoing = <<>> /\ loop'.pc = "head"
    BY <1>9 DEF EndForward, At, adapter
  <2> QED BY <2>1, KeptInStep DEF Awaiting, GivenUp
<1>10. CASE PushResponse
  BY <1>10, PushInStep
<1>14. CASE SkipEvent
  BY <1>14, SkipInStep
<1>11. CASE PushAgain
  BY <1>1, <1>11 DEF PushAgain, adapter
<1>12. CASE PushFailed
  BY <1>12, FailInStep
<1>13. CASE UNCHANGED vars
  BY <1>1, <1>13 DEF vars, gateway, adapter
<1> QED BY <1>2, <1>3, <1>4, <1>5, <1>6, <1>7, <1>8, <1>9, <1>10, <1>11, <1>12, <1>13, <1>14 DEF Next, Loop

\* The positions that were skipped are those of the events that cannot be mapped.
SkipsTracked ==
  /\ skipped \subseteq DOMAIN handled
  /\ \A i \in DOMAIN handled : i \in skipped <=> ~ EventMapped(handled[i])

\* One more event is done with, skipped when it cannot be mapped.
LEMMA SkipsAppend ==
  ASSUME SkipsTracked, handled \in Seq(Response), NEW e \in Response, handled' = Append(handled, e),
         skipped' = IF EventMapped(e) THEN skipped ELSE skipped \cup {Len(handled) + 1}
  PROVE  SkipsTracked'
<1>1. /\ DOMAIN handled = 1 .. Len(handled) /\ Len(handled) \in Nat
      /\ DOMAIN handled' = 1 .. Len(handled) + 1
      /\ \A i \in 1 .. Len(handled) : handled'[i] = handled[i]
      /\ handled'[Len(handled) + 1] = e
  BY AppendProperties, LenProperties
<1>2. \A i \in DOMAIN handled' : (i \in DOMAIN handled /\ i # Len(handled) + 1) \/ (i = Len(handled) + 1 /\ i \notin DOMAIN handled)
  BY <1>1
<1>3. skipped \subseteq DOMAIN handled /\ \A i \in DOMAIN handled : i \in skipped <=> ~ EventMapped(handled[i])
  BY DEF SkipsTracked
<1>4. skipped' \subseteq DOMAIN handled'
  BY <1>1, <1>3
<1>5. ASSUME NEW i \in DOMAIN handled' PROVE i \in skipped' <=> ~ EventMapped(handled'[i])
  <2>1. CASE i \in DOMAIN handled /\ i # Len(handled) + 1
    <3>1. handled'[i] = handled[i] /\ (i \in skipped' <=> i \in skipped)
      BY <1>1, <2>1
    <3> QED BY <1>3, <2>1, <3>1
  <2>2. CASE i = Len(handled) + 1 /\ i \notin DOMAIN handled
    <3>1. handled'[i] = e /\ i \notin skipped
      BY <1>1, <1>3, <2>2
    <3> QED BY <2>2, <3>1
  <2> QED BY <1>2, <2>1, <2>2
<1> QED BY <1>4, <1>5 DEF SkipsTracked, EventMapped

\* Every step keeps the account of what was skipped.
LEMMA NextSkips == Inv /\ SkipsTracked /\ [Next]_vars => SkipsTracked'
<1> SUFFICES ASSUME Inv, SkipsTracked, [Next]_vars PROVE SkipsTracked'
  OBVIOUS
<1>1. CASE UNCHANGED <<handled, skipped>>
  BY <1>1 DEF SkipsTracked
<1>2. handled \in Seq(Response) /\ (outgoing # <<>> => Head(outgoing) \in Response)
  BY HeadTailProperties DEF Inv, TypeOK
<1>3. CASE SkipEvent
  BY <1>2, <1>3, SkipsAppend DEF SkipEvent
<1>4. CASE PushResponse
  <2>1. CASE Head(outgoing).kind = "TraderError"
    BY <1>1, <1>4, <2>1 DEF PushResponse
  <2>2. CASE Head(outgoing).kind # "TraderError"
    BY <1>2, <1>4, <2>2, SkipsAppend DEF PushResponse
  <2> QED BY <2>1, <2>2
<1>5. CASE Service \/ Adapter \/ Stop
  BY <1>1, <1>5 DEF Service, SendOrder, TakeResponse, Adapter, AdapterEvent, Stop
<1>6. CASE BeginIteration \/ RetryLater \/ RetryNow \/ EndRetries
  BY <1>1, <1>6 DEF BeginIteration, RetryLater, RetryNow, EndRetries
<1>7. CASE LoseOrder \/ RefuseOrder \/ SubmitOrder \/ EndOrders
  BY <1>1, <1>7 DEF LoseOrder, RefuseOrder, SubmitOrder, EndOrders, TakeOrder
<1>8. CASE PollEvents \/ EndForward \/ PushAgain \/ PushFailed
  BY <1>1, <1>8 DEF PollEvents, EndForward, PushAgain, PushFailed
<1>9. CASE UNCHANGED vars
  BY <1>1, <1>9 DEF vars
<1> QED BY <1>3, <1>4, <1>5, <1>6, <1>7, <1>8, <1>9 DEF Next, Loop

\* The events the account service gets are, in order, the first ones the broker sent
\* less those that cannot be mapped, for any batch size, any capacity of the response
\* queue and any schedule of the account service: when an event cannot be pushed none
\* after it ever is (process_events, push_response).
THEOREM EventsHaveNoGap == Spec => []NoGapInEvents
<1>1. Init => EventsInStep
  <2> SUFFICES ASSUME Init PROVE Whole
    BY DEF EventsInStep
  <2>1. issued = <<>> /\ handled = <<>> /\ events = <<>> /\ loop.pc = "head"
    BY DEF Init, At
  <2>2. (<<>> \o <<>>) \o <<>> = <<>>
    <3>1. <<>> \in Seq(Response) /\ <<>> \o <<>> = <<>>
      BY EmptySeq, ConcatEmptySeq
    <3> QED BY <3>1
  <2> QED BY <2>1, <2>2 DEF Whole, Awaiting
<1>2. Init => SkipsTracked
  BY DEF Init, SkipsTracked
<1>3. Inv /\ EventsInStep /\ SkipsTracked => NoGapInEvents
  BY WholeHasNoGap DEF Inv, EventsInStep, SkipsTracked, NoGapInEvents, InSequence
<1> QED BY <1>1, <1>2, <1>3, NextInStep, NextSkips, Invariance, PTL DEF Spec
=============================================================================
