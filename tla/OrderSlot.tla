------------------------------ MODULE OrderSlot ------------------------------
(***************************************************************************)
(* The sequence lock of one order slot (orders_shm.hpp).  The writers are  *)
(* the processes that change the slot once its index is in the downstream  *)
(* queue: the account service, which still has the stage and the submitted *)
(* request to write, and the gateway, which marks the slot as dequeued.    *)
(* The readers take snapshots: monitors, the gateway, recovery.            *)
(*                                                                         *)
(* A step is one access to the sequence number or to one field.  The       *)
(* fences order the fields' accesses against those to the number and not   *)
(* against each other, so fields are written and copied in any order.      *)
(***************************************************************************)
EXTENDS Naturals, Sequences

CONSTANTS
  RequestWords,  \* the parts of the request copy that are stored one by one
  Writers,       \* the processes that write the slot
  Program,       \* what each writer still does to the slot, in order
  Readers,       \* the processes that take snapshots
  MaxAttempts    \* attempts of one snapshot (32 in the code)

\* orders_shm_write_order, orders_shm_sync_order, orders_shm_update_stage.
Kind == {"write_order", "sync_order", "update_stage"}

ASSUME ProgramAssumption == Program \in [Writers -> Seq(Kind)]

ASSUME AttemptsAssumption == MaxAttempts \in Nat \ {0}

Fields == RequestWords \cup {"stage", "source", "last_update_ns"}

\* The fields a mutator assigns.
Touched(kind) ==
  CASE kind = "write_order"  -> Fields
    [] kind = "sync_order"   -> RequestWords \cup {"last_update_ns"}
    [] kind = "update_stage" -> {"stage", "last_update_ns"}

VARIABLES
  seq,       \* the slot's sequence number: odd while a write is under way
  payload,   \* the slot's fields; a value is the number of the write it is from
  writer,    \* per writer: where it is, the number it computed, the fields left
  todo,      \* per writer: the rest of its program
  reader,    \* per reader: where its attempt is
  result,    \* per reader: what its last snapshot returned
  version,   \* the number of writes begun
  \* What the slot should say; no process looks at these.
  stable,    \* the fields as they would be if every write were one step
  disturbed  \* a write has begun before an earlier one was published

vars == <<seq, payload, writer, todo, reader, result, version, stable, disturbed>>

IsOdd(n) == n % 2 = 1

WriterIdle == [pc |-> "idle", base |-> 0, version |-> 0, left |-> {}]

\* Version 0 everywhere: the slot as the push found it.
Blank == [f \in Fields |-> 0]

ReaderIdle(attempt) ==
  [pc |-> "idle", attempt |-> attempt, seq0 |-> 0, left |-> {}, snap |-> Blank, expected |-> Blank]

NoResult == [status |-> "none", snap |-> Blank, expected |-> Blank]

Init ==
  /\ seq = 0
  /\ payload = Blank
  /\ writer = [w \in Writers |-> WriterIdle]
  /\ todo = Program
  /\ reader = [r \in Readers |-> ReaderIdle(0)]
  /\ result = [r \in Readers |-> NoResult]
  /\ version = 0
  /\ stable = Blank
  /\ disturbed = FALSE

-----------------------------------------------------------------------------
(* orders_shm_mutate_slot.                                                 *)

\* A number left odd by a writer that died counts as the next even one.
Base(n) == IF IsOdd(n) THEN n + 1 ELSE n

LoadSeq(w) ==
  /\ writer[w].pc = "idle"
  /\ todo[w] # <<>>
  /\ version' = version + 1
  /\ writer' = [writer EXCEPT ![w] = [pc |-> "loaded", base |-> Base(seq), version |-> version + 1,
                                      left |-> Touched(Head(todo[w]))]]
  /\ disturbed' = (disturbed \/ IsOdd(seq) \/ \E v \in Writers : writer[v].pc # "idle")
  /\ UNCHANGED <<seq, payload, todo, reader, result, stable>>

MarkBusy(w) ==
  /\ writer[w].pc = "loaded"
  /\ seq' = writer[w].base + 1
  /\ writer' = [writer EXCEPT ![w].pc = "writing"]
  /\ UNCHANGED <<payload, todo, reader, result, version, stable, disturbed>>

StoreField(w, f) ==
  /\ writer[w].pc = "writing"
  /\ f \in writer[w].left
  /\ payload' = [payload EXCEPT ![f] = writer[w].version]
  /\ writer' = [writer EXCEPT ![w].left = @ \ {f}]
  /\ UNCHANGED <<seq, todo, reader, result, version, stable, disturbed>>

Publish(w) ==
  /\ writer[w].pc = "writing"
  /\ writer[w].left = {}
  /\ seq' = writer[w].base + 2
  /\ stable' = [f \in Fields |-> IF f \in Touched(Head(todo[w])) THEN writer[w].version ELSE stable[f]]
  /\ writer' = [writer EXCEPT ![w] = WriterIdle]
  /\ todo' = [todo EXCEPT ![w] = Tail(@)]
  /\ UNCHANGED <<payload, reader, result, version, disturbed>>

\* The process dies inside the write; what it would have done next it does after
\* its restart, if it still has something to do to the slot.
Die(w) ==
  /\ writer[w].pc # "idle"
  /\ writer' = [writer EXCEPT ![w] = WriterIdle]
  /\ todo' = [todo EXCEPT ![w] = Tail(@)]
  /\ UNCHANGED <<seq, payload, reader, result, version, stable, disturbed>>

-----------------------------------------------------------------------------
(* orders_shm_read_snapshot and try_read_stable_snapshot.                  *)

\* The reader after an attempt that failed: the next attempt, or the end.
Retry(r) ==
  IF reader[r].attempt + 1 < MaxAttempts
  THEN /\ reader' = [reader EXCEPT ![r] = ReaderIdle(reader[r].attempt + 1)]
       /\ UNCHANGED result
  ELSE /\ reader' = [reader EXCEPT ![r] = ReaderIdle(0)]
       /\ result' = [result EXCEPT ![r] = [status |-> "unreadable", snap |-> Blank, expected |-> Blank]]

\* Load seq0.
BeginAttempt(r) ==
  /\ reader[r].pc = "idle"
  /\ IF IsOdd(seq)
     THEN Retry(r)
     ELSE /\ reader' = [reader EXCEPT ![r] = [pc |-> "copying", attempt |-> reader[r].attempt, seq0 |-> seq,
                                              left |-> Fields, snap |-> Blank, expected |-> stable]]
          /\ UNCHANGED result
  /\ UNCHANGED <<seq, payload, writer, todo, version, stable, disturbed>>

CopyField(r, f) ==
  /\ reader[r].pc = "copying"
  /\ f \in reader[r].left
  /\ reader' = [reader EXCEPT ![r] = [pc |-> "copying", attempt |-> reader[r].attempt, seq0 |-> reader[r].seq0,
                                      left |-> reader[r].left \ {f},
                                      snap |-> [reader[r].snap EXCEPT ![f] = payload[f]],
                                      expected |-> reader[r].expected]]
  /\ UNCHANGED <<seq, payload, writer, todo, result, version, stable, disturbed>>

Accept(r) ==
  /\ reader' = [reader EXCEPT ![r] = ReaderIdle(0)]
  /\ result' = [result EXCEPT ![r] = [status |-> "ok", snap |-> reader[r].snap, expected |-> reader[r].expected]]

\* Fault: the second load only looks whether a write is under way.
EndAttemptEvenOnly(r) ==
  /\ reader[r].pc = "copying"
  /\ reader[r].left = {}
  /\ IF IsOdd(seq) THEN Retry(r) ELSE Accept(r)
  /\ UNCHANGED <<seq, payload, writer, todo, version, stable, disturbed>>

\* Load seq1 and compare.
EndAttempt(r) ==
  /\ reader[r].pc = "copying"
  /\ reader[r].left = {}
  /\ IF seq = reader[r].seq0 THEN Accept(r) ELSE Retry(r)
  /\ UNCHANGED <<seq, payload, writer, todo, version, stable, disturbed>>

-----------------------------------------------------------------------------
WriterStep(w) ==
  \/ LoadSeq(w) \/ MarkBusy(w) \/ Publish(w) \/ Die(w)
  \/ \E f \in Fields : StoreField(w, f)

ReaderStep(r) ==
  \/ BeginAttempt(r) \/ EndAttempt(r)
  \/ \E f \in Fields : CopyField(r, f)

Next ==
  \/ \E w \in Writers : WriterStep(w)
  \/ \E r \in Readers : ReaderStep(r)

Spec == Init /\ [][Next]_vars

-----------------------------------------------------------------------------
Payload == [Fields -> Nat]

EvenNat == {n \in Nat : ~ IsOdd(n)}

\* The values every variable keeps.  A writer always starts from an even number,
\* so that the number it stores while it writes is odd.
TypeOK ==
  /\ seq \in Nat
  /\ payload \in Payload
  /\ writer \in [Writers -> [pc : {"idle", "loaded", "writing"}, base : EvenNat,
                             version : Nat, left : SUBSET Fields]]
  /\ todo \in [Writers -> Seq(Kind)]
  /\ \A w \in Writers : writer[w].pc # "idle" => todo[w] # <<>>
  /\ reader \in [Readers -> [pc : {"idle", "copying"}, attempt : Nat, seq0 : Nat,
                             left : SUBSET Fields, snap : Payload, expected : Payload]]
  /\ result \in [Readers -> [status : {"none", "ok", "unreadable"}, snap : Payload, expected : Payload]]
  /\ version \in Nat
  /\ stable \in Payload
  /\ disturbed \in BOOLEAN

\* orders_shm_read_snapshot, and the monitors' try_read_stable_snapshot, return the
\* fields exactly as complete writes had left them when the attempt began.  A torn
\* or outdated snapshot takes two writes at once, or a write over the remains of one
\* whose process died.
TornOnlyAfterDisturbance ==
  ~ disturbed =>
    \A r \in Readers : result[r].status = "ok" => result[r].snap = result[r].expected
=============================================================================
