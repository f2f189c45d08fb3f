------------------------------ MODULE SpscQueue ------------------------------
(***************************************************************************)
(* src/shm/spsc_queue.hpp: the lock-free ring that carries order indices   *)
(* from the API to the account service (upstream), from the account        *)
(* service to the gateway (downstream), and trade responses back.  The     *)
(* producer and the consumer are different processes: every access to a    *)
(* shared word (head_, tail_, a cell of buffer_) is a step of its own.     *)
(*                                                                         *)
(* The loads and stores are acquire/release pairs on head_ and tail_, so   *)
(* the cell accesses they order are modelled in program order.             *)
(***************************************************************************)
EXTENDS Naturals, Sequences

CONSTANTS
  Capacity,  \* the template parameter; one cell always stays free
  Items,
  NoItem

ASSUME CapacityAssumption == Capacity \in Nat /\ Capacity > 1
ASSUME NoItemAssumption == NoItem \notin Items

VARIABLES
  head,        \* head_: next cell to write, stored by the producer only
  tail,        \* tail_: next cell to read, stored by the consumer only
  buffer,      \* buffer_
  prod,        \* the producer's progress inside try_push and its locals
  cons,        \* the consumer's progress inside try_pop/try_peek and its locals
  pushResult,  \* the return value of the last finished try_push
  popResult    \* the item delivered by the last finished try_pop/try_peek

vars == <<head, tail, buffer, prod, cons, pushResult, popResult>>

Cells == 0 .. Capacity - 1

\* (i + 1) & kMask: Capacity is a power of two, so masking is the remainder.
Advance(i) == (i + 1) % Capacity

Init ==
  /\ head = 0
  /\ tail = 0
  /\ buffer = [c \in Cells |-> NoItem]
  /\ prod = [pc |-> "idle", item |-> NoItem, head |-> 0]
  /\ cons = [pc |-> "idle", item |-> NoItem, tail |-> 0, takes |-> FALSE]
  /\ pushResult = TRUE
  /\ popResult = NoItem

-----------------------------------------------------------------------------
(* try_push, the producer's side.                                          *)

\* Fault: the full test is forgotten.
PushCheckOverrun(item) ==
  /\ prod.pc = "idle"
  /\ prod' = [pc |-> "write", item |-> item, head |-> head]
  /\ UNCHANGED <<head, tail, buffer, cons, pushResult, popResult>>

\* Fault: the ring is declared full with two free cells left.
PushCheckEarlyFull(item) ==
  /\ prod.pc = "idle"
  /\ IF Advance(head) = tail \/ Advance(Advance(head)) = tail
     THEN pushResult' = FALSE /\ UNCHANGED prod
     ELSE prod' = [pc |-> "write", item |-> item, head |-> head] /\ UNCHANGED pushResult
  /\ UNCHANGED <<head, tail, buffer, cons, popResult>>

\* Lines 57-63: load both indices and return false on a full ring.
PushCheck(item) ==
  /\ prod.pc = "idle"
  /\ IF Advance(head) = tail
     THEN pushResult' = FALSE /\ UNCHANGED prod
     ELSE prod' = [pc |-> "write", item |-> item, head |-> head] /\ UNCHANGED pushResult
  /\ UNCHANGED <<head, tail, buffer, cons, popResult>>

\* Line 65: fill the cell, which the consumer must not be able to see yet.
PushWrite ==
  /\ prod.pc = "write"
  /\ buffer' = [buffer EXCEPT ![prod.head] = prod.item]
  /\ prod' = [prod EXCEPT !.pc = "publish"]
  /\ UNCHANGED <<head, tail, cons, pushResult, popResult>>

\* Line 66: hand the cell over by advancing head_.
PushPublish ==
  /\ prod.pc = "publish"
  /\ head' = Advance(prod.head)
  /\ pushResult' = TRUE
  /\ prod' = [prod EXCEPT !.pc = "idle"]
  /\ UNCHANGED <<tail, buffer, cons, popResult>>

-----------------------------------------------------------------------------
(* try_pop (takes = TRUE) and try_peek (takes = FALSE), the consumer's side. *)

\* Lines 72-78 and 87-92: load both indices and return false on an empty ring.
PopCheck(takes) ==
  /\ cons.pc = "idle"
  /\ IF tail = head
     THEN popResult' = NoItem /\ UNCHANGED cons
     ELSE cons' = [cons EXCEPT !.pc = "read", !.tail = tail, !.takes = takes] /\ UNCHANGED popResult
  /\ UNCHANGED <<head, tail, buffer, prod, pushResult>>

\* Lines 80 and 94: copy the cell out; a peek returns it at once.
PopRead ==
  /\ cons.pc = "read"
  /\ cons' = [cons EXCEPT !.item = buffer[cons.tail],
                          !.pc = IF cons.takes THEN "release" ELSE "idle"]
  /\ popResult' = IF cons.takes THEN popResult ELSE buffer[cons.tail]
  /\ UNCHANGED <<head, tail, buffer, prod, pushResult>>

\* Line 81: give the cell back by advancing tail_.
PopRelease ==
  /\ cons.pc = "release"
  /\ tail' = Advance(cons.tail)
  /\ popResult' = cons.item
  /\ cons' = [cons EXCEPT !.pc = "idle"]
  /\ UNCHANGED <<head, buffer, prod, pushResult>>

-----------------------------------------------------------------------------
Next ==
  \/ \E item \in Items : PushCheck(item)
  \/ PushWrite
  \/ PushPublish
  \/ \E takes \in BOOLEAN : PopCheck(takes)
  \/ PopRead
  \/ PopRelease

Spec == Init /\ [][Next]_vars

-----------------------------------------------------------------------------
\* The number of items handed over and not yet given back: size() read at one
\* instant.
Count == (head + Capacity - tail) % Capacity

\* The items in flight, oldest first, read off the ring.
Contents == [i \in 1 .. Count |-> buffer[(tail + (i - 1)) % Capacity]]

TypeOK ==
  /\ head \in Cells
  /\ tail \in Cells
  /\ buffer \in [Cells -> Items \cup {NoItem}]
  /\ prod \in [pc : {"idle", "write", "publish"}, item : Items \cup {NoItem}, head : Cells]
  /\ cons \in [pc : {"idle", "read", "release"}, item : Items \cup {NoItem},
               tail : Cells, takes : BOOLEAN]
  /\ pushResult \in BOOLEAN
  /\ popResult \in Items \cup {NoItem}

\* While the producer fills a cell (buffer_[head] = item) the consumer is never
\* reading that same cell, so neither side needs a lock around the copy.
NoCellRace ==
  ~ (prod.pc = "write" /\ cons.pc = "read" /\ prod.head = cons.tail)

\* The ring refines the atomic bounded queue: items leave in the order they
\* entered, none is lost, duplicated or overwritten, and try_push / try_pop
\* report full / empty only when the queue really was.
Abstract == INSTANCE BoundedFifo WITH queue <- Contents, Bound <- Capacity - 1

Fifo == Abstract!Spec
=============================================================================
