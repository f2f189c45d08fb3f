----------------------------- MODULE BoundedFifo -----------------------------
(***************************************************************************)
(* What spsc_queue promises its callers: a first-in first-out queue with   *)
(* room for Bound items.  Every operation is one atomic step.  A push may  *)
(* be refused only while the queue is full and a pop or a peek only while  *)
(* it is empty: the router turns a refused push into a TraderError and the *)
(* gateway gives up a response after three refused pushes, so a spurious   *)
(* refusal would lose an order.                                            *)
(***************************************************************************)
EXTENDS Naturals, Sequences

CONSTANTS
  Items,    \* the values that travel: order indices or trade responses
  Bound,    \* spsc_queue::capacity()
  NoItem    \* the out parameter of a refused try_pop / try_peek

VARIABLES
  queue,       \* the items in flight, oldest first
  pushResult,  \* what the last try_push returned
  popResult    \* the item the last try_pop / try_peek delivered, or NoItem

vars == <<queue, pushResult, popResult>>

Init ==
  /\ queue = <<>>
  /\ pushResult = TRUE
  /\ popResult = NoItem

PushAccepted(item) ==
  /\ Len(queue) < Bound
  /\ queue' = Append(queue, item)
  /\ pushResult' = TRUE
  /\ UNCHANGED popResult

PushRefused ==
  /\ Len(queue) = Bound
  /\ pushResult' = FALSE
  /\ UNCHANGED <<queue, popResult>>

PopDelivered ==
  /\ queue # <<>>
  /\ popResult' = Head(queue)
  /\ queue' = Tail(queue)
  /\ UNCHANGED pushResult

PeekDelivered ==
  /\ queue # <<>>
  /\ popResult' = Head(queue)
  /\ UNCHANGED <<queue, pushResult>>

PopRefused ==
  /\ queue = <<>>
  /\ popResult' = NoItem
  /\ UNCHANGED <<queue, pushResult>>

Next ==
  \/ \E item \in Items : PushAccepted(item)
  \/ PushRefused
  \/ PopDelivered
  \/ PeekDelivered
  \/ PopRefused

Spec == Init /\ [][Next]_vars
=============================================================================
