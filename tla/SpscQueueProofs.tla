--------------------------- MODULE SpscQueueProofs ---------------------------
(***************************************************************************)
(* Proofs about SpscQueue for every capacity greater than one and every    *)
(* set of items.  The inductive invariant says what each side knows while  *)
(* it is between its index loads and its index store: the index it owns    *)
(* has not moved, and the other side's index has not reached it.           *)
(***************************************************************************)
EXTENDS SpscQueue, SequenceTheorems, TLAPS

\* The producer owns head_ and, past its check, knows that the cell at head_ is
\* free; once written it holds the item to publish.
ProducerInv ==
  /\ prod.pc # "idle" => /\ prod.head = head
                         /\ prod.item \in Items
                         /\ Advance(head) # tail
  /\ prod.pc = "publish" => buffer[head] = prod.item

\* The consumer owns tail_ and, past its check, knows that the cell at tail_ has
\* been published; once copied its local holds that cell's item.
ConsumerInv ==
  /\ cons.pc # "idle" => /\ cons.tail = tail
                         /\ tail # head
  /\ cons.pc = "release" => cons.item = buffer[tail]

IndInv == TypeOK /\ ProducerInv /\ ConsumerInv

-----------------------------------------------------------------------------
(* Arithmetic of the ring.                                                 *)

\* Masking an index that is less than one turn away from a cell.
LEMMA Masking ==
  ASSUME NEW n \in Nat, n < 2 * Capacity
  PROVE  /\ n < Capacity => n % Capacity = n
         /\ n >= Capacity => n % Capacity = n - Capacity
BY CapacityAssumption

\* Advancing stays on the ring and moves by one cell.
LEMMA AdvanceCell ==
  ASSUME NEW i \in Cells
  PROVE  /\ Advance(i) \in Cells
         /\ Advance(i) # i
         /\ Advance(i) = IF i = Capacity - 1 THEN 0 ELSE i + 1
BY Masking, CapacityAssumption DEF Advance, Cells

\* Two different cells never have the same successor.
LEMMA AdvanceInjective ==
  ASSUME NEW i \in Cells, NEW j \in Cells, i # j
  PROVE  Advance(i) # Advance(j)
<1>1. Advance(i) = IF i = Capacity - 1 THEN 0 ELSE i + 1
  BY AdvanceCell
<1>2. Advance(j) = IF j = Capacity - 1 THEN 0 ELSE j + 1
  BY AdvanceCell
<1>3. QED
  BY <1>1, <1>2, CapacityAssumption DEF Cells

\* The distance between the indices, without the mask.
LEMMA Distance ==
  ASSUME NEW h \in Cells, NEW t \in Cells
  PROVE  /\ (h + Capacity - t) % Capacity \in Cells
         /\ (h + Capacity - t) % Capacity = IF h >= t THEN h - t ELSE h + Capacity - t
<1>1. h + Capacity - t \in Nat /\ h + Capacity - t < 2 * Capacity
  BY CapacityAssumption DEF Cells
<1>2. QED
  BY <1>1, Masking, CapacityAssumption DEF Cells

\* Cell number k after t, without the mask.
LEMMA CellAfter ==
  ASSUME NEW t \in Cells, NEW k \in Nat, k < Capacity
  PROVE  /\ (t + k) % Capacity \in Cells
         /\ (t + k) % Capacity = IF t + k < Capacity THEN t + k ELSE t + k - Capacity
<1>1. t + k \in Nat /\ t + k < 2 * Capacity
  BY CapacityAssumption DEF Cells
<1>2. QED
  BY <1>1, Masking, CapacityAssumption DEF Cells

-----------------------------------------------------------------------------
(* The inductive invariant.                                                *)

\* The queue starts with both indices at zero and nobody inside.
LEMMA InitIndInv == Init => IndInv
BY CapacityAssumption DEF Init, IndInv, TypeOK, ProducerInv, ConsumerInv, Cells

\* No step of the producer or the consumer breaks the inductive invariant.
LEMMA NextIndInv == IndInv /\ [Next]_vars => IndInv'
<1> SUFFICES ASSUME IndInv, [Next]_vars PROVE IndInv'
  OBVIOUS
<1> USE DEF IndInv, TypeOK, ProducerInv, ConsumerInv
<1>a. /\ Advance(head) \in Cells /\ Advance(head) # head
      /\ Advance(tail) \in Cells /\ Advance(tail) # tail
  BY AdvanceCell
<1>1. ASSUME NEW item \in Items, PushCheck(item) PROVE IndInv'
  <2>1. CASE Advance(head) = tail
    BY <1>1, <2>1 DEF PushCheck, Advance
  <2>2. CASE Advance(head) # tail
    BY <1>1, <2>2 DEF PushCheck, Advance
  <2>3. QED
    BY <2>1, <2>2
<1>2. CASE PushWrite
  <2>1. TypeOK'
    BY <1>2 DEF PushWrite
  <2>2. ProducerInv'
    BY <1>2 DEF PushWrite
  <2>3. ConsumerInv'
    BY <1>2 DEF PushWrite
  <2>4. QED
    BY <2>1, <2>2, <2>3
<1>3. CASE PushPublish
  <2>1. head' = Advance(head) /\ Advance(head) # tail
    BY <1>3 DEF PushPublish
  <2>2. QED
    BY <1>3, <1>a, <2>1 DEF PushPublish
<1>4. ASSUME NEW takes \in BOOLEAN, PopCheck(takes) PROVE IndInv'
  BY <1>4 DEF PopCheck
<1>5. CASE PopRead
  <2>1. TypeOK'
    BY <1>5 DEF PopRead
  <2>2. ProducerInv'
    BY <1>5 DEF PopRead
  <2>3. ConsumerInv'
    BY <1>5 DEF PopRead
  <2>4. QED
    BY <2>1, <2>2, <2>3
<1>6. CASE PopRelease
  <2>1. tail' = Advance(tail) /\ tail # head
    BY <1>6 DEF PopRelease
  <2>2. Advance(head) # Advance(tail)
    BY <2>1, AdvanceInjective
  <2>3. TypeOK'
    BY <1>6, <1>a, <2>1 DEF PopRelease
  <2>4. ProducerInv'
    BY <1>6, <2>1, <2>2 DEF PopRelease, Advance
  <2>5. ConsumerInv'
    BY <1>6 DEF PopRelease
  <2>6. QED
    BY <2>3, <2>4, <2>5
<1>7. CASE UNCHANGED vars
  BY <1>7 DEF vars, Advance
<1>8. QED
  BY <1>1, <1>2, <1>3, <1>4, <1>5, <1>6, <1>7 DEF Next

\* The ring's indices stay on the ring and every local of try_push / try_pop
\* keeps its type, whatever the interleaving of the two processes.
THEOREM TypeCorrect == Spec => []TypeOK
<1>1. IndInv => TypeOK
  BY DEF IndInv
<1>2. QED
  BY <1>1, InitIndInv, NextIndInv, PTL DEF Spec

\* The producer never writes the cell the consumer is copying, for any capacity.
THEOREM CellsAreNeverShared == Spec => []NoCellRace
<1>1. IndInv => NoCellRace
  BY DEF IndInv, ProducerInv, ConsumerInv, NoCellRace
<1>2. QED
  BY <1>1, InitIndInv, NextIndInv, PTL DEF Spec

-----------------------------------------------------------------------------
(* The refinement.  The abstract queue is what lies between tail_ and head_; *)
(* a push takes effect when head_ is stored, a pop when tail_ is, a peek when *)
(* the cell is copied, and a refusal when the indices are loaded.            *)

\* How long the queue is, and which cell holds its i-th item.
LEMMA ContentsShape ==
  ASSUME TypeOK
  PROVE  /\ Count \in Cells
         /\ Count = IF head >= tail THEN head - tail ELSE head + Capacity - tail
         /\ Len(Contents) = Count
         /\ Contents \in Seq(Items \cup {NoItem})
         /\ \A i \in 1 .. Count : /\ (tail + (i - 1)) % Capacity \in Cells
                                 /\ Contents[i] = buffer[(tail + (i - 1)) % Capacity]
<1>1. Count \in Cells /\ Count = IF head >= tail THEN head - tail ELSE head + Capacity - tail
  BY Distance DEF TypeOK, Count
<1>2. Count \in Nat /\ Count < Capacity
  BY <1>1, CapacityAssumption DEF Cells
<1>3. ASSUME NEW i \in 1 .. Count
      PROVE  (tail + (i - 1)) % Capacity \in Cells
  BY <1>2, CellAfter, CapacityAssumption DEF TypeOK
<1>4. \A i \in 1 .. Count : buffer[(tail + (i - 1)) % Capacity] \in Items \cup {NoItem}
  BY <1>3 DEF TypeOK
<1>5. Contents \in [1 .. Count -> Items \cup {NoItem}]
  BY <1>4 DEF Contents
<1>6. Contents \in Seq(Items \cup {NoItem}) /\ Len(Contents) = Count
  BY <1>2, <1>5
<1>7. QED
  BY <1>1, <1>3, <1>6 DEF Contents

\* Storing head_ appends the item of the cell just written.
LEMMA PublishAppends ==
  ASSUME IndInv, PushPublish
  PROVE  /\ Count < Capacity - 1
         /\ Contents' = Append(Contents, prod.item)
<1> USE DEF IndInv
<1>1. /\ head' = Advance(head) /\ Advance(head) # tail /\ tail' = tail /\ buffer' = buffer
      /\ buffer[head] = prod.item /\ head \in Cells /\ tail \in Cells
  BY DEF PushPublish, ProducerInv, TypeOK
<1>2. TypeOK'
  BY NextIndInv DEF Next
<1>3. Advance(head) = IF head = Capacity - 1 THEN 0 ELSE head + 1
  BY <1>1, AdvanceCell
<1>4. Count = IF head >= tail THEN head - tail ELSE head + Capacity - tail
  BY ContentsShape
<1>5. Count' = IF head' >= tail' THEN head' - tail' ELSE head' + Capacity - tail'
  <2>1. head' \in Cells /\ tail' \in Cells
    BY <1>2 DEF TypeOK
  <2>2. QED
    BY <2>1, Distance DEF Count
<1>6. Count \in Nat /\ Count < Capacity - 1 /\ Count' = Count + 1
  BY <1>1, <1>3, <1>4, <1>5, CapacityAssumption DEF Cells
<1>7. (tail + Count) % Capacity = head
  <2>1. (tail + Count) % Capacity = IF tail + Count < Capacity THEN tail + Count ELSE tail + Count - Capacity
    BY <1>1, <1>6, CellAfter, CapacityAssumption
  <2>2. QED
    BY <2>1, <1>1, <1>4, CapacityAssumption DEF Cells
<1>8. Contents' = [i \in 1 .. Count + 1 |-> buffer[(tail + (i - 1)) % Capacity]]
  BY <1>1, <1>6 DEF Contents
<1>9. Append(Contents, prod.item)
        = [i \in 1 .. Count + 1 |-> IF i = Count + 1 THEN prod.item ELSE Contents[i]]
  BY <1>6, ContentsShape
<1>10. ASSUME NEW i \in 1 .. Count + 1
       PROVE  buffer[(tail + (i - 1)) % Capacity] = IF i = Count + 1 THEN prod.item ELSE Contents[i]
  <2>1. CASE i = Count + 1
    <3>1. tail + (i - 1) = tail + Count
      BY <2>1, <1>1, <1>6, CapacityAssumption DEF Cells
    <3>2. QED
      BY <2>1, <3>1, <1>1, <1>7
  <2>2. CASE i # Count + 1
    <3>1. i \in 1 .. Count
      BY <2>2, <1>6
    <3>2. QED
      BY <2>2, <3>1, ContentsShape
  <2>3. QED
    BY <2>1, <2>2
<1>11. QED
  BY <1>6, <1>8, <1>9, <1>10

\* Storing tail_ removes the oldest item, which is the one the consumer copied.
LEMMA ReleaseTakesHead ==
  ASSUME IndInv, PopRelease
  PROVE  /\ Contents # <<>>
         /\ cons.item = Head(Contents)
         /\ Contents' = Tail(Contents)
<1> USE DEF IndInv
<1>1. /\ tail' = Advance(tail) /\ tail # head /\ head' = head /\ buffer' = buffer
      /\ buffer[tail] = cons.item /\ head \in Cells /\ tail \in Cells
  BY DEF PopRelease, ConsumerInv, TypeOK
<1>2. TypeOK'
  BY NextIndInv DEF Next
<1>3. Advance(tail) = IF tail = Capacity - 1 THEN 0 ELSE tail + 1
  BY <1>1, AdvanceCell
<1>4. Count = IF head >= tail THEN head - tail ELSE head + Capacity - tail
  BY ContentsShape
<1>5. Count' = IF head' >= tail' THEN head' - tail' ELSE head' + Capacity - tail'
  <2>1. head' \in Cells /\ tail' \in Cells
    BY <1>2 DEF TypeOK
  <2>2. QED
    BY <2>1, Distance DEF Count
<1>6. Count \in Nat /\ 0 < Count /\ Count < Capacity /\ Count' = Count - 1
  BY <1>1, <1>3, <1>4, <1>5, CapacityAssumption DEF Cells
<1>7. Len(Contents) = Count /\ Contents \in Seq(Items \cup {NoItem}) /\ Contents # <<>>
  BY <1>6, ContentsShape
<1>8. Head(Contents) = cons.item
  <2>1. 1 \in 1 .. Count
    BY <1>6
  <2>2. Contents[1] = buffer[(tail + (1 - 1)) % Capacity]
    BY <2>1, ContentsShape
  <2>3. (tail + (1 - 1)) % Capacity = tail
    BY <1>1, Masking, CapacityAssumption DEF Cells
  <2>4. QED
    BY <2>2, <2>3, <1>1, <1>7
<1>9. Contents' = [i \in 1 .. Count - 1 |-> buffer[(tail' + (i - 1)) % Capacity]]
  BY <1>1, <1>6 DEF Contents
<1>10. Tail(Contents) = [i \in 1 .. Count - 1 |-> Contents[i + 1]]
  <2>1. Tail(Contents) \in Seq(Items \cup {NoItem}) /\ Len(Tail(Contents)) = Count - 1
    BY <1>7, HeadTailProperties
  <2>2. \A i \in 1 .. Count - 1 : Tail(Contents)[i] = Contents[i + 1]
    BY <1>7, <2>1, HeadTailProperties
  <2>3. Tail(Contents) = [i \in 1 .. Count - 1 |-> Tail(Contents)[i]]
    <3>1. Tail(Contents) \in [1 .. Count - 1 -> Items \cup {NoItem}]
      BY <2>1, LenProperties
    <3>2. QED
      BY <3>1
  <2>4. QED
    BY <2>2, <2>3
<1>11. ASSUME NEW i \in 1 .. Count - 1
       PROVE  buffer[(tail' + (i - 1)) % Capacity] = Contents[i + 1]
  <2>1. i + 1 \in 1 .. Count /\ i \in Nat /\ i - 1 \in Nat /\ i < Capacity
    BY <1>6, CapacityAssumption
  <2>2. Contents[i + 1] = buffer[(tail + ((i + 1) - 1)) % Capacity]
    BY <2>1, ContentsShape
  <2>3. (i + 1) - 1 = i
    BY <2>1
  <2>4. (tail + i) % Capacity = IF tail + i < Capacity THEN tail + i ELSE tail + i - Capacity
    BY <2>1, <1>1, CellAfter
  <2>5. tail' \in Cells /\ i - 1 < Capacity
    BY <1>2, <2>1, CapacityAssumption DEF TypeOK
  <2>6. (tail' + (i - 1)) % Capacity
           = IF tail' + (i - 1) < Capacity THEN tail' + (i - 1) ELSE tail' + (i - 1) - Capacity
    BY <2>1, <2>5, CellAfter
  <2>7. (tail' + (i - 1)) % Capacity = (tail + i) % Capacity
    BY <2>1, <2>4, <2>6, <1>1, <1>3, CapacityAssumption DEF Cells
  <2>8. QED
    BY <2>2, <2>3, <2>7
<1>12. QED
  BY <1>7, <1>8, <1>9, <1>10, <1>11

\* A step that moves neither index and writes no cell in flight leaves the
\* abstract queue alone.
LEMMA WriteIsInvisible ==
  ASSUME IndInv, PushWrite
  PROVE  Contents' = Contents
<1> USE DEF IndInv
<1>1. /\ head' = head /\ tail' = tail /\ head \in Cells /\ tail \in Cells
      /\ buffer' = [buffer EXCEPT ![head] = prod.item] /\ buffer \in [Cells -> Items \cup {NoItem}]
  BY DEF PushWrite, ProducerInv, TypeOK
<1>2. Count' = Count
  BY <1>1 DEF Count
<1>3. /\ Count \in Nat /\ Count < Capacity
      /\ Count = IF head >= tail THEN head - tail ELSE head + Capacity - tail
  BY ContentsShape, CapacityAssumption DEF Cells
<1>4. ASSUME NEW i \in 1 .. Count
      PROVE  buffer'[(tail + (i - 1)) % Capacity] = buffer[(tail + (i - 1)) % Capacity]
  <2>1. i - 1 \in Nat /\ i - 1 < Capacity
    BY <1>3, CapacityAssumption
  <2>2. /\ (tail + (i - 1)) % Capacity \in Cells
        /\ (tail + (i - 1)) % Capacity
              = IF tail + (i - 1) < Capacity THEN tail + (i - 1) ELSE tail + (i - 1) - Capacity
    BY <1>1, <2>1, CellAfter
  <2>3. (tail + (i - 1)) % Capacity # head
    BY <1>1, <1>3, <2>1, <2>2, CapacityAssumption DEF Cells
  <2>4. QED
    BY <1>1, <2>2, <2>3
<1>5. QED
  BY <1>1, <1>2, <1>4 DEF Contents

\* Every step of the ring is a step of the abstract queue or invisible to it.
LEMMA NextRefines == IndInv /\ [Next]_vars => [Abstract!Next]_(Abstract!vars)
<1> SUFFICES ASSUME IndInv, [Next]_vars PROVE [Abstract!Next]_(Abstract!vars)
  OBVIOUS
<1> USE DEF Abstract!vars
<1>t. TypeOK
  BY DEF IndInv
<1>l. Len(Contents) = Count /\ Count \in Nat /\ Contents \in Seq(Items \cup {NoItem})
  BY <1>t, ContentsShape, CapacityAssumption DEF Cells
<1>c. Count = IF head >= tail THEN head - tail ELSE head + Capacity - tail
  BY <1>t, ContentsShape
<1>1. ASSUME NEW item \in Items, PushCheck(item) PROVE [Abstract!Next]_(Abstract!vars)
  <2>0. Contents' = Contents /\ popResult' = popResult
    BY <1>1 DEF PushCheck, Contents, Count
  <2>1. CASE Advance(head) = tail
    <3>1. Advance(head) = IF head = Capacity - 1 THEN 0 ELSE head + 1
      BY <1>t, AdvanceCell DEF TypeOK
    <3>2. Count = Capacity - 1
      BY <1>t, <1>c, <2>1, <3>1, CapacityAssumption DEF TypeOK, Cells
    <3>3. Abstract!PushRefused
      BY <1>1, <1>l, <2>0, <2>1, <3>2 DEF PushCheck, Abstract!PushRefused
    <3>4. QED
      BY <3>3 DEF Abstract!Next
  <2>2. CASE Advance(head) # tail
    BY <1>1, <2>0, <2>2 DEF PushCheck
  <2>3. QED
    BY <2>1, <2>2
<1>2. CASE PushWrite
  BY <1>2, WriteIsInvisible DEF PushWrite
<1>3. CASE PushPublish
  <2>1. prod.item \in Items
    BY <1>3 DEF IndInv, ProducerInv, PushPublish
  <2>2. Abstract!PushAccepted(prod.item)
    BY <1>3, <1>l, PublishAppends DEF PushPublish, Abstract!PushAccepted
  <2>3. QED
    BY <2>1, <2>2 DEF Abstract!Next
<1>4. ASSUME NEW takes \in BOOLEAN, PopCheck(takes) PROVE [Abstract!Next]_(Abstract!vars)
  <2>0. Contents' = Contents /\ pushResult' = pushResult
    BY <1>4 DEF PopCheck, Contents, Count
  <2>1. CASE tail = head
    <3>1. Count = 0
      BY <1>t, <1>c, <2>1, CapacityAssumption DEF TypeOK, Cells
    <3>2. Contents = <<>>
      BY <3>1, <1>l
    <3>3. Abstract!PopRefused
      BY <1>4, <2>0, <2>1, <3>2 DEF PopCheck, Abstract!PopRefused
    <3>4. QED
      BY <3>3 DEF Abstract!Next
  <2>2. CASE tail # head
    BY <1>4, <2>0, <2>2 DEF PopCheck
  <2>3. QED
    BY <2>1, <2>2
<1>5. CASE PopRead
  <2>0. Contents' = Contents /\ pushResult' = pushResult
    BY <1>5 DEF PopRead, Contents, Count
  <2>1. CASE cons.takes
    BY <1>5, <2>0, <2>1 DEF PopRead
  <2>2. CASE ~cons.takes
    <3>1. cons.tail = tail /\ tail # head /\ popResult' = buffer[tail]
      BY <1>5, <2>2 DEF PopRead, IndInv, ConsumerInv
    <3>2. Count > 0
      BY <1>t, <1>c, <3>1, CapacityAssumption DEF TypeOK, Cells
    <3>3. Contents # <<>>
      BY <1>l, <3>2
    <3>4. Contents[1] = buffer[(tail + (1 - 1)) % Capacity]
      BY <1>l, <1>t, <3>2, ContentsShape
    <3>5. (tail + (1 - 1)) % Capacity = tail
      BY <1>t, Masking, CapacityAssumption DEF TypeOK, Cells
    <3>6. popResult' = Head(Contents)
      BY <3>1, <3>3, <3>4, <3>5
    <3>7. Abstract!PeekDelivered
      BY <2>0, <3>3, <3>6 DEF Abstract!PeekDelivered
    <3>8. QED
      BY <3>7 DEF Abstract!Next
  <2>3. QED
    BY <2>1, <2>2
<1>6. CASE PopRelease
  <2>1. Abstract!PopDelivered
    BY <1>6, ReleaseTakesHead DEF PopRelease, Abstract!PopDelivered
  <2>2. QED
    BY <2>1 DEF Abstract!Next
<1>7. CASE UNCHANGED vars
  BY <1>7 DEF vars, Contents, Count
<1>8. QED
  BY <1>1, <1>2, <1>3, <1>4, <1>5, <1>6, <1>7 DEF Next

\* The empty ring is the empty queue.
LEMMA InitRefines == Init => Abstract!Init
<1> SUFFICES ASSUME Init PROVE Abstract!Init
  OBVIOUS
<1>1. TypeOK
  BY InitIndInv DEF IndInv
<1>2. Count = 0 /\ Len(Contents) = Count /\ Contents \in Seq(Items \cup {NoItem})
  BY <1>1, ContentsShape, CapacityAssumption DEF Init
<1>3. Contents = <<>>
  BY <1>2
<1>4. QED
  BY <1>3 DEF Init, Abstract!Init

\* The lock-free ring implements the atomic bounded queue for every capacity and
\* every set of items: first in first out, nothing lost or duplicated, and full
\* or empty reported only when true.
THEOREM RingImplementsFifo == Spec => Fifo
BY InitIndInv, NextIndInv, InitRefines, NextRefines, PTL DEF Spec, Fifo, Abstract!Spec
=============================================================================
