--------------------------- MODULE OrderSlotProofs ---------------------------
(***************************************************************************)
(* For any number of writers and readers, any programs and any number of   *)
(* request words: a snapshot is torn only if writes overlapped.            *)
(***************************************************************************)
EXTENDS OrderSlot, TLAPS

\* The fields writer w has stored so far.
Stored(w) == Touched(Head(todo[w])) \ writer[w].left

\* One undisturbed writer: the number tells how far it is, and the fields are the
\* last complete ones except for those it has stored.
WriterInv ==
  /\ \A v, w \in Writers : writer[v].pc # "idle" /\ writer[w].pc # "idle" => v = w
  /\ \A w \in Writers : writer[w].pc = "loaded" =>
       seq = writer[w].base /\ writer[w].left = Touched(Head(todo[w]))
  /\ \A w \in Writers : writer[w].pc = "writing" =>
       /\ seq = writer[w].base + 1 /\ writer[w].left \subseteq Touched(Head(todo[w]))
       /\ \A f \in Fields : payload[f] = IF f \in Stored(w) THEN writer[w].version ELSE stable[f]
  /\ ~ IsOdd(seq) => payload = stable

\* An attempt under way has copied complete fields, unless the number has moved on.
ReaderInv ==
  \A r \in Readers : reader[r].pc = "copying" =>
    /\ ~ IsOdd(reader[r].seq0)
    /\ reader[r].seq0 <= seq
    /\ reader[r].seq0 = seq =>
         /\ reader[r].expected = stable
         /\ \A f \in Fields \ reader[r].left : reader[r].snap[f] = stable[f]

\* The inductive invariant.
Invariant == TypeOK /\ (~ disturbed => WriterInv /\ ReaderInv /\ TornOnlyAfterDisturbance)

-----------------------------------------------------------------------------
\* Parity of consecutive numbers.
LEMMA Parity ==
  ASSUME NEW n \in Nat
  PROVE  /\ ~ IsOdd(n) => IsOdd(n + 1) /\ ~ IsOdd(n + 2)
         /\ Base(n) \in Nat /\ ~ IsOdd(Base(n))
         /\ ~ IsOdd(n) => Base(n) = n
BY SMT DEF IsOdd, Base

\* A mutator assigns fields of the slot.
LEMMA TouchedFields == \A kind \in Kind : Touched(kind) \subseteq Fields
BY DEF Kind, Touched, Fields

\* What the rest of a program looks like.
LEMMA ProgramRest ==
  ASSUME NEW p \in Seq(Kind), p # <<>>
  PROVE  Head(p) \in Kind /\ Tail(p) \in Seq(Kind)
OBVIOUS

\* The type of one writer and of one reader.
WriterType == [pc : {"idle", "loaded", "writing"}, base : EvenNat,
               version : Nat, left : SUBSET Fields]
ReaderType == [pc : {"idle", "copying"}, attempt : Nat, seq0 : Nat,
               left : SUBSET Fields, snap : Payload, expected : Payload]

\* The constant values of an idle process are of its type.
LEMMA IdleTypes ==
  /\ WriterIdle \in WriterType /\ WriterIdle.pc = "idle"
  /\ \A n \in Nat : ReaderIdle(n) \in ReaderType /\ ReaderIdle(n).pc = "idle"
  /\ Blank \in Payload
<1>1. Blank \in Payload
  BY DEF Blank, Payload
<1>2. 0 \in EvenNat
  BY SMT DEF IsOdd, EvenNat
<1> QED BY <1>1, <1>2 DEF WriterIdle, WriterType, ReaderIdle, ReaderType

-----------------------------------------------------------------------------
\* The slot at the push.
LEMMA InitInvariant == Init => Invariant
<1> SUFFICES ASSUME Init PROVE Invariant
  OBVIOUS
<1>1. TypeOK
  <2>1. disturbed \in BOOLEAN
    BY DEF Init
  <2>2. /\ writer \in [Writers -> WriterType] /\ reader \in [Readers -> ReaderType]
        /\ \A w \in Writers : writer[w].pc = "idle"
    BY IdleTypes DEF Init
  <2>3. result \in [Readers -> [status : {"none", "ok", "unreadable"}, snap : Payload, expected : Payload]]
    BY IdleTypes DEF Init, NoResult
  <2> QED BY <2>1, <2>2, <2>3, IdleTypes, ProgramAssumption DEF Init, TypeOK, WriterType, ReaderType
<1>2. WriterInv
  BY DEF Init, WriterInv, WriterIdle
<1>3. ReaderInv
  BY IdleTypes DEF Init, ReaderInv
<1>4. TornOnlyAfterDisturbance
  BY DEF Init, TornOnlyAfterDisturbance, NoResult
<1> QED BY <1>1, <1>2, <1>3, <1>4 DEF Invariant

-----------------------------------------------------------------------------
(* The writers.                                                            *)

\* A write begins; if nobody else writes, the number is even.
LEMMA LoadSeqStep ==
  ASSUME Invariant, NEW w \in Writers, LoadSeq(w)
  PROVE  Invariant'
<1> DEFINE e == [pc |-> "loaded", base |-> Base(seq), version |-> version + 1, left |-> Touched(Head(todo[w]))]
<1>1. /\ writer' = [writer EXCEPT ![w] = e] /\ todo[w] # <<>> /\ version' = version + 1
      /\ UNCHANGED <<seq, payload, todo, reader, result, stable>>
  BY DEF LoadSeq
<1>2. TypeOK
  BY DEF Invariant
<1>3. e \in WriterType
  <2>1. seq \in Nat /\ version \in Nat /\ todo[w] \in Seq(Kind)
    BY <1>2 DEF TypeOK
  <2>2. Touched(Head(todo[w])) \subseteq Fields
    BY <1>1, <2>1, ProgramRest, TouchedFields
  <2>3. Base(seq) \in EvenNat
    BY <2>1, Parity DEF EvenNat
  <2> QED BY <2>1, <2>2, <2>3 DEF WriterType
<1>4. TypeOK'
  <2>1. disturbed' \in BOOLEAN
    BY DEF LoadSeq
  <2>2. /\ writer' \in [Writers -> WriterType]
        /\ \A v \in Writers : writer'[v].pc # "idle" => todo'[v] # <<>>
    <3> HIDE DEF e
    <3> QED BY <1>1, <1>2, <1>3 DEF TypeOK, WriterType
  <2>3. version' \in Nat
    BY <1>1, <1>2 DEF TypeOK
  <2> QED BY <1>1, <1>2, <2>1, <2>2, <2>3 DEF TypeOK, WriterType
<1>5. ASSUME ~ disturbed'
      PROVE  WriterInv' /\ ReaderInv' /\ TornOnlyAfterDisturbance'
  <2>1. ~ disturbed /\ ~ IsOdd(seq) /\ \A v \in Writers : writer[v].pc = "idle"
    BY <1>5 DEF LoadSeq
  <2>2. WriterInv /\ ReaderInv /\ TornOnlyAfterDisturbance
    BY <2>1 DEF Invariant
  <2>3. Base(seq) = seq
    BY <1>2, <2>1, Parity DEF TypeOK
  <2>4. /\ DOMAIN writer = Writers /\ writer'[w] = e
        /\ \A v \in Writers \ {w} : writer'[v] = writer[v]
    BY <1>1, <1>2 DEF TypeOK
  <2>5. WriterInv'
    BY <1>1, <2>1, <2>2, <2>3, <2>4 DEF WriterInv
  <2>6. ReaderInv' /\ TornOnlyAfterDisturbance'
    BY <1>1, <2>1, <2>2 DEF ReaderInv, TornOnlyAfterDisturbance
  <2> QED BY <2>5, <2>6
<1> QED BY <1>4, <1>5 DEF Invariant

\* The number becomes odd and overtakes every attempt under way.
LEMMA MarkBusyStep ==
  ASSUME Invariant, NEW w \in Writers, MarkBusy(w)
  PROVE  Invariant'
<1>1. /\ writer' = [writer EXCEPT ![w].pc = "writing"] /\ writer[w].pc = "loaded"
      /\ seq' = writer[w].base + 1
      /\ UNCHANGED <<payload, todo, reader, result, version, stable, disturbed>>
  BY DEF MarkBusy
<1>2. /\ TypeOK /\ writer[w].base \in Nat /\ ~ IsOdd(writer[w].base) /\ seq \in Nat
  BY DEF Invariant, TypeOK, EvenNat
<1>3. /\ writer'[w].pc = "writing" /\ writer'[w].base = writer[w].base /\ writer'[w].left = writer[w].left
      /\ writer'[w].version = writer[w].version
      /\ \A v \in Writers \ {w} : writer'[v] = writer[v]
      /\ writer' \in [Writers -> WriterType]
  <2>1. writer \in [Writers -> WriterType]
    BY <1>2 DEF TypeOK, WriterType
  <2> QED BY <1>1, <2>1 DEF WriterType
<1>4. TypeOK'
  <2>1. seq' \in Nat
    BY <1>1, <1>2
  <2>2. \A v \in Writers : writer'[v].pc # "idle" => todo'[v] # <<>>
    BY <1>1, <1>2, <1>3 DEF TypeOK
  <2> QED BY <1>1, <1>2, <1>3, <2>1, <2>2 DEF TypeOK, WriterType
<1>5. ASSUME ~ disturbed'
      PROVE  WriterInv' /\ ReaderInv' /\ TornOnlyAfterDisturbance'
  <2>1. WriterInv /\ ReaderInv /\ TornOnlyAfterDisturbance
    BY <1>1, <1>5 DEF Invariant
  <2>2. seq = writer[w].base /\ IsOdd(seq') /\ seq' = seq + 1 /\ payload = stable
    BY <1>1, <1>2, <2>1, Parity DEF WriterInv
  <2>3. WriterInv'
    <3>1. Stored(w)' = {}
      BY <1>1, <1>3, <2>1 DEF WriterInv, Stored
    <3> QED BY <1>1, <1>3, <2>1, <2>2, <3>1 DEF WriterInv
  <2>4. ReaderInv'
    <3>1. \A r \in Readers : reader[r].seq0 \in Nat
      BY <1>2 DEF TypeOK
    <3> QED BY <1>1, <1>2, <2>1, <2>2, <3>1 DEF ReaderInv
  <2>5. TornOnlyAfterDisturbance'
    BY <1>1, <1>5, <2>1 DEF TornOnlyAfterDisturbance
  <2> QED BY <2>3, <2>4, <2>5
<1> QED BY <1>4, <1>5 DEF Invariant

\* A field is stored; the number is odd, so no attempt still matches it.
LEMMA StoreFieldStep ==
  ASSUME Invariant, NEW w \in Writers, NEW g \in Fields, StoreField(w, g)
  PROVE  Invariant'
<1>1. /\ writer' = [writer EXCEPT ![w].left = writer[w].left \ {g}] /\ writer[w].pc = "writing"
      /\ payload' = [payload EXCEPT ![g] = writer[w].version] /\ g \in writer[w].left
      /\ UNCHANGED <<seq, todo, reader, result, version, stable, disturbed>>
  BY DEF StoreField, Invariant, TypeOK
<1>2. /\ TypeOK /\ writer[w].base \in Nat /\ ~ IsOdd(writer[w].base) /\ seq \in Nat
      /\ writer[w].version \in Nat /\ payload \in [Fields -> Nat]
  BY DEF Invariant, TypeOK, Payload, EvenNat
<1>3. /\ writer'[w].pc = "writing" /\ writer'[w].base = writer[w].base
      /\ writer'[w].left = writer[w].left \ {g} /\ writer'[w].version = writer[w].version
      /\ \A v \in Writers \ {w} : writer'[v] = writer[v]
      /\ writer' \in [Writers -> WriterType]
  <2>1. writer \in [Writers -> WriterType]
    BY <1>2 DEF TypeOK, WriterType
  <2> QED BY <1>1, <2>1 DEF WriterType
<1>4. TypeOK'
  <2>1. payload' \in Payload
    BY <1>1, <1>2 DEF Payload
  <2>2. \A v \in Writers : writer'[v].pc # "idle" => todo'[v] # <<>>
    BY <1>1, <1>2, <1>3 DEF TypeOK
  <2> QED BY <1>1, <1>2, <1>3, <2>1, <2>2 DEF TypeOK, WriterType
<1>5. ASSUME ~ disturbed'
      PROVE  WriterInv' /\ ReaderInv' /\ TornOnlyAfterDisturbance'
  <2>1. WriterInv /\ ReaderInv /\ TornOnlyAfterDisturbance
    BY <1>1, <1>5 DEF Invariant
  <2>2. seq = writer[w].base + 1 /\ IsOdd(seq) /\ \A v \in Writers \ {w} : writer[v].pc = "idle"
    BY <1>1, <1>2, <2>1, Parity DEF WriterInv
  <2>3. WriterInv'
    <3>1. \A f \in Fields : payload'[f] = IF f \in Stored(w)' THEN writer'[w].version ELSE stable'[f]
      <4>1. \A f \in Fields : payload[f] = IF f \in Stored(w) THEN writer[w].version ELSE stable[f]
        BY <1>1, <2>1 DEF WriterInv
      <4>2. \A f \in Fields \ {g} : payload'[f] = payload[f] /\ (f \in Stored(w)' <=> f \in Stored(w))
        BY <1>1, <1>2, <1>3 DEF Stored
      <4>3. payload'[g] = writer[w].version
        BY <1>1, <1>2
      <4>4. g \in Stored(w)' \/ writer[w].version = stable[g]
        <5>1. g \in Touched(Head(todo[w]))
          BY <1>1, <2>1 DEF WriterInv
        <5> QED BY <1>1, <1>3, <5>1 DEF Stored
      <4> QED BY <1>1, <1>3, <4>1, <4>2, <4>3, <4>4
    <3>2. \A v \in Writers : writer'[v].pc # "idle" => v = w
      BY <1>3, <2>2
    <3>3. writer'[w].left \subseteq Touched(Head(todo'[w]))
      BY <1>1, <1>3, <2>1 DEF WriterInv
    <3> QED BY <1>1, <1>3, <2>2, <3>1, <3>2, <3>3 DEF WriterInv
  <2>4. ReaderInv'
    <3>1. \A r \in Readers : reader[r].pc = "copying" => reader[r].seq0 # seq
      BY <2>1, <2>2 DEF ReaderInv
    <3> QED BY <1>1, <2>1, <3>1 DEF ReaderInv
  <2>5. TornOnlyAfterDisturbance'
    BY <1>1, <1>5, <2>1 DEF TornOnlyAfterDisturbance
  <2> QED BY <2>3, <2>4, <2>5
<1> QED BY <1>4, <1>5 DEF Invariant

\* The rest of a program after a write has ended, one way or the other.
LEMMA WriterRests ==
  ASSUME Invariant, NEW w \in Writers, writer[w].pc # "idle",
         writer' = [writer EXCEPT ![w] = WriterIdle],
         todo' = [todo EXCEPT ![w] = Tail(todo[w])]
  PROVE  /\ writer'[w] = WriterIdle
         /\ \A v \in Writers \ {w} : writer'[v] = writer[v] /\ todo'[v] = todo[v]
         /\ writer' \in [Writers -> WriterType]
         /\ todo' \in [Writers -> Seq(Kind)]
         /\ \A v \in Writers : writer'[v].pc # "idle" => todo'[v] # <<>>
<1>1. /\ writer \in [Writers -> WriterType] /\ todo \in [Writers -> Seq(Kind)]
      /\ \A v \in Writers : writer[v].pc # "idle" => todo[v] # <<>>
  BY DEF Invariant, TypeOK, WriterType
<1>2. Tail(todo[w]) \in Seq(Kind)
  BY <1>1, ProgramRest
<1> QED BY <1>1, <1>2, IdleTypes

\* The fields are complete and the number even again.
LEMMA PublishStep ==
  ASSUME Invariant, NEW w \in Writers, Publish(w)
  PROVE  Invariant'
<1>1. /\ writer' = [writer EXCEPT ![w] = WriterIdle] /\ todo' = [todo EXCEPT ![w] = Tail(todo[w])]
      /\ writer[w].pc = "writing" /\ writer[w].left = {} /\ seq' = writer[w].base + 2
      /\ stable' = [f \in Fields |-> IF f \in Touched(Head(todo[w])) THEN writer[w].version ELSE stable[f]]
      /\ UNCHANGED <<payload, reader, result, version, disturbed>>
  BY DEF Publish, Invariant, TypeOK
<1>2. /\ TypeOK /\ writer[w].base \in Nat /\ ~ IsOdd(writer[w].base) /\ seq \in Nat
      /\ writer[w].version \in Nat /\ payload \in [Fields -> Nat] /\ stable \in [Fields -> Nat]
  BY DEF Invariant, TypeOK, EvenNat, Payload
<1>3. /\ writer'[w] = WriterIdle
      /\ \A v \in Writers \ {w} : writer'[v] = writer[v] /\ todo'[v] = todo[v]
      /\ writer' \in [Writers -> WriterType]
      /\ todo' \in [Writers -> Seq(Kind)]
      /\ \A v \in Writers : writer'[v].pc # "idle" => todo'[v] # <<>>
  BY <1>1, WriterRests
<1>4. TypeOK'
  <2>1. seq' \in Nat /\ stable' \in Payload
    BY <1>1, <1>2 DEF Payload
  <2> QED BY <1>1, <1>2, <1>3, <2>1 DEF TypeOK, WriterType
<1>5. ASSUME ~ disturbed'
      PROVE  WriterInv' /\ ReaderInv' /\ TornOnlyAfterDisturbance'
  <2>1. WriterInv /\ ReaderInv /\ TornOnlyAfterDisturbance
    BY <1>1, <1>5 DEF Invariant
  <2>2. seq = writer[w].base + 1 /\ seq' = seq + 1 /\ \A v \in Writers \ {w} : writer[v].pc = "idle"
    BY <1>1, <1>2, <2>1 DEF WriterInv
  <2>3. WriterInv'
    <3>1. payload = stable'
      <4>1. \A f \in Fields : payload[f] = IF f \in Touched(Head(todo[w])) THEN writer[w].version ELSE stable[f]
        BY <1>1, <2>1 DEF WriterInv, Stored
      <4> QED BY <1>1, <1>2, <4>1
    <3>2. \A v \in Writers : writer'[v].pc = "idle"
      BY <1>3, <2>2, IdleTypes
    <3> QED BY <1>1, <3>1, <3>2 DEF WriterInv
  <2>4. ReaderInv'
    <3>1. \A r \in Readers : reader[r].seq0 \in Nat
      BY <1>2 DEF TypeOK
    <3> QED BY <1>1, <1>2, <2>1, <2>2, <3>1 DEF ReaderInv
  <2>5. TornOnlyAfterDisturbance'
    BY <1>1, <1>5, <2>1 DEF TornOnlyAfterDisturbance
  <2> QED BY <2>3, <2>4, <2>5
<1> QED BY <1>4, <1>5 DEF Invariant

\* A dead writer leaves the number odd, or has not touched the slot.
LEMMA DieStep ==
  ASSUME Invariant, NEW w \in Writers, Die(w)
  PROVE  Invariant'
<1>1. /\ writer' = [writer EXCEPT ![w] = WriterIdle] /\ todo' = [todo EXCEPT ![w] = Tail(todo[w])]
      /\ writer[w].pc # "idle"
      /\ UNCHANGED <<seq, payload, reader, result, version, stable, disturbed>>
  BY DEF Die, Invariant, TypeOK
<1>2. TypeOK
  BY DEF Invariant
<1>3. /\ writer'[w] = WriterIdle
      /\ \A v \in Writers \ {w} : writer'[v] = writer[v] /\ todo'[v] = todo[v]
      /\ writer' \in [Writers -> WriterType]
      /\ todo' \in [Writers -> Seq(Kind)]
      /\ \A v \in Writers : writer'[v].pc # "idle" => todo'[v] # <<>>
  BY <1>1, WriterRests
<1>4. TypeOK'
  BY <1>1, <1>2, <1>3 DEF TypeOK, WriterType
<1>5. ASSUME ~ disturbed'
      PROVE  WriterInv' /\ ReaderInv' /\ TornOnlyAfterDisturbance'
  <2>1. WriterInv /\ ReaderInv /\ TornOnlyAfterDisturbance
    BY <1>1, <1>5 DEF Invariant
  <2>2. \A v \in Writers : writer'[v].pc = "idle"
    BY <1>1, <1>3, <2>1, IdleTypes DEF WriterInv
  <2>3. WriterInv'
    BY <1>1, <2>1, <2>2 DEF WriterInv
  <2>4. ReaderInv' /\ TornOnlyAfterDisturbance'
    BY <1>1, <1>5, <2>1 DEF ReaderInv, TornOnlyAfterDisturbance
  <2> QED BY <2>3, <2>4
<1> QED BY <1>4, <1>5 DEF Invariant

-----------------------------------------------------------------------------
(* The readers.                                                            *)

\* The type of one result.
ResultType == [status : {"none", "ok", "unreadable"}, snap : Payload, expected : Payload]

\* A reader that gives up, or starts a new attempt, has nothing that could be torn.
LEMMA RetryStep ==
  ASSUME Invariant, NEW r \in Readers, Retry(r),
         UNCHANGED <<seq, payload, writer, todo, version, stable, disturbed>>
  PROVE  Invariant'
<1>1. TypeOK /\ reader \in [Readers -> ReaderType] /\ result \in [Readers -> ResultType] /\ reader[r].attempt \in Nat
  BY DEF Invariant, TypeOK, ReaderType, ResultType
<1>2. PICK n \in Nat : reader' = [reader EXCEPT ![r] = ReaderIdle(n)]
  BY <1>1 DEF Retry
<1>3. \/ UNCHANGED result
      \/ result' = [result EXCEPT ![r] = [status |-> "unreadable", snap |-> Blank, expected |-> Blank]]
  BY DEF Retry
<1>4. /\ reader' \in [Readers -> ReaderType] /\ reader'[r].pc = "idle"
      /\ \A s \in Readers \ {r} : reader'[s] = reader[s]
  <2>1. ReaderIdle(n) \in ReaderType /\ ReaderIdle(n).pc = "idle"
    BY IdleTypes
  <2> QED BY <1>1, <1>2, <2>1
<1>5. /\ result' \in [Readers -> ResultType]
      /\ \A s \in Readers : result'[s].status = "ok" => result'[s] = result[s]
  <2>1. [status |-> "unreadable", snap |-> Blank, expected |-> Blank] \in ResultType
    BY IdleTypes DEF ResultType
  <2> QED BY <1>1, <1>3, <2>1
<1>6. TypeOK'
  BY <1>1, <1>4, <1>5 DEF TypeOK, ReaderType, ResultType
<1>7. ASSUME ~ disturbed'
      PROVE  WriterInv' /\ ReaderInv' /\ TornOnlyAfterDisturbance'
  <2>1. WriterInv /\ ReaderInv /\ TornOnlyAfterDisturbance
    BY <1>7 DEF Invariant
  <2>2. WriterInv'
    BY <2>1 DEF WriterInv, Stored
  <2>3. ReaderInv'
    BY <1>4, <2>1 DEF ReaderInv
  <2>4. TornOnlyAfterDisturbance'
    BY <1>5, <1>7, <2>1 DEF TornOnlyAfterDisturbance
  <2> QED BY <2>2, <2>3, <2>4
<1> QED BY <1>6, <1>7 DEF Invariant

\* One reader moves to a state that is as good as ReaderInv asks.
LEMMA ReaderMoves ==
  ASSUME Invariant, NEW r \in Readers, NEW e \in ReaderType,
         reader' = [reader EXCEPT ![r] = e],
         UNCHANGED <<seq, payload, writer, todo, result, version, stable, disturbed>>,
         ~ disturbed /\ WriterInv /\ ReaderInv /\ e.pc = "copying" =>
           /\ ~ IsOdd(e.seq0) /\ e.seq0 <= seq
           /\ e.seq0 = seq => /\ e.expected = stable
                              /\ \A f \in Fields \ e.left : e.snap[f] = stable[f]
  PROVE  Invariant'
<1>1. TypeOK /\ reader \in [Readers -> ReaderType]
  BY DEF Invariant, TypeOK, ReaderType
<1>2. /\ reader' \in [Readers -> ReaderType] /\ reader'[r] = e
      /\ \A s \in Readers \ {r} : reader'[s] = reader[s]
  BY <1>1
<1>3. TypeOK'
  BY <1>1, <1>2 DEF TypeOK, ReaderType
<1>4. ASSUME ~ disturbed'
      PROVE  WriterInv' /\ ReaderInv' /\ TornOnlyAfterDisturbance'
  <2>1. WriterInv /\ ReaderInv /\ TornOnlyAfterDisturbance
    BY <1>4 DEF Invariant
  <2>2. WriterInv'
    BY <2>1 DEF WriterInv, Stored
  <2>3. ReaderInv'
    BY <1>2, <1>4, <2>1 DEF ReaderInv
  <2>4. TornOnlyAfterDisturbance'
    BY <1>4, <2>1 DEF TornOnlyAfterDisturbance
  <2> QED BY <2>2, <2>3, <2>4
<1> QED BY <1>3, <1>4 DEF Invariant

\* An attempt begins, or waits for the number to become even.
LEMMA BeginAttemptStep ==
  ASSUME Invariant, NEW r \in Readers, BeginAttempt(r)
  PROVE  Invariant'
<1> DEFINE e == [pc |-> "copying", attempt |-> reader[r].attempt, seq0 |-> seq,
                 left |-> Fields, snap |-> Blank, expected |-> stable]
<1>1. UNCHANGED <<seq, payload, writer, todo, version, stable, disturbed>>
  BY DEF BeginAttempt
<1>2. CASE IsOdd(seq)
  BY <1>1, <1>2, RetryStep DEF BeginAttempt
<1>3. CASE ~ IsOdd(seq)
  <2>1. reader' = [reader EXCEPT ![r] = e] /\ UNCHANGED result
    BY <1>3 DEF BeginAttempt
  <2>2. seq \in Nat /\ stable \in Payload /\ reader[r].attempt \in Nat
    BY DEF Invariant, TypeOK
  <2>3. e \in ReaderType
    BY <2>2, IdleTypes DEF ReaderType
  <2>4. e.seq0 = seq /\ e.expected = stable /\ e.left = Fields
    OBVIOUS
  <2> HIDE DEF e
  <2>5. UNCHANGED <<seq, payload, writer, todo, result, version, stable, disturbed>>
    BY <1>1, <2>1
  <2>6. /\ ~ IsOdd(e.seq0) /\ e.seq0 <= seq
        /\ e.seq0 = seq => /\ e.expected = stable
                           /\ \A f \in Fields \ e.left : e.snap[f] = stable[f]
    BY <1>3, <2>2, <2>4
  <2> QED BY <2>1, <2>3, <2>5, <2>6, ReaderMoves
<1> QED BY <1>2, <1>3

\* A field copied while the number still matches is the stable one.
LEMMA CopyFieldStep ==
  ASSUME Invariant, NEW r \in Readers, NEW g \in Fields, CopyField(r, g)
  PROVE  Invariant'
<1> DEFINE snap == [reader[r].snap EXCEPT ![g] = payload[g]]
           e == [pc |-> "copying", attempt |-> reader[r].attempt, seq0 |-> reader[r].seq0,
                 left |-> reader[r].left \ {g}, snap |-> snap, expected |-> reader[r].expected]
<1>1. /\ reader' = [reader EXCEPT ![r] = e] /\ reader[r].pc = "copying"
      /\ UNCHANGED <<seq, payload, writer, todo, result, version, stable, disturbed>>
  BY DEF CopyField
<1>2. reader[r] \in ReaderType /\ payload \in [Fields -> Nat] /\ reader[r].snap \in [Fields -> Nat]
  BY DEF Invariant, TypeOK, ReaderType, Payload
<1>3. snap \in [Fields -> Nat] /\ snap[g] = payload[g] /\ \A f \in Fields \ {g} : snap[f] = reader[r].snap[f]
  BY <1>2
<1> HIDE DEF snap
<1>4. e \in ReaderType
  BY <1>2, <1>3 DEF ReaderType, Payload
<1>5. ASSUME ~ disturbed, WriterInv, ReaderInv
      PROVE  /\ ~ IsOdd(e.seq0) /\ e.seq0 <= seq
             /\ e.seq0 = seq => /\ e.expected = stable
                                /\ \A f \in Fields \ e.left : e.snap[f] = stable[f]
  <2>1. /\ ~ IsOdd(reader[r].seq0) /\ reader[r].seq0 <= seq
        /\ reader[r].seq0 = seq => /\ reader[r].expected = stable
                                   /\ \A f \in Fields \ reader[r].left : reader[r].snap[f] = stable[f]
    BY <1>1, <1>5 DEF ReaderInv
  <2>2. reader[r].seq0 = seq => payload = stable
    BY <1>5, <2>1 DEF WriterInv
  <2>3. ASSUME reader[r].seq0 = seq, NEW f \in Fields \ e.left PROVE e.snap[f] = stable[f]
    <3>1. f = g \/ f \in Fields \ reader[r].left
      BY <2>3
    <3> QED BY <1>3, <2>1, <2>2, <2>3, <3>1
  <2> QED BY <2>1, <2>3
<1> HIDE DEF e
<1> QED BY <1>1, <1>4, <1>5, ReaderMoves

\* The number still matches: what was copied is what was stable.
LEMMA EndAttemptStep ==
  ASSUME Invariant, NEW r \in Readers, EndAttempt(r)
  PROVE  Invariant'
<1>1. /\ reader[r].pc = "copying" /\ reader[r].left = {}
      /\ UNCHANGED <<seq, payload, writer, todo, version, stable, disturbed>>
  BY DEF EndAttempt
<1>2. CASE seq # reader[r].seq0
  BY <1>1, <1>2, RetryStep DEF EndAttempt
<1>3. CASE seq = reader[r].seq0
  <2> DEFINE o == [status |-> "ok", snap |-> reader[r].snap, expected |-> reader[r].expected]
  <2>1. reader' = [reader EXCEPT ![r] = ReaderIdle(0)] /\ result' = [result EXCEPT ![r] = o]
    BY <1>3 DEF EndAttempt, Accept
  <2>2. /\ TypeOK /\ reader \in [Readers -> ReaderType] /\ result \in [Readers -> ResultType]
        /\ stable \in [Fields -> Nat] /\ reader[r].snap \in [Fields -> Nat]
    BY DEF Invariant, TypeOK, ReaderType, ResultType, Payload
  <2>3. o \in ResultType
    BY <2>2 DEF ReaderType, ResultType
  <2>4. /\ reader' \in [Readers -> ReaderType] /\ reader'[r].pc = "idle"
        /\ \A s \in Readers \ {r} : reader'[s] = reader[s]
    <3>1. ReaderIdle(0) \in ReaderType /\ ReaderIdle(0).pc = "idle"
      BY IdleTypes
    <3> QED BY <2>1, <2>2, <3>1
  <2>5. /\ result' \in [Readers -> ResultType] /\ result'[r] = o
        /\ \A s \in Readers \ {r} : result'[s] = result[s]
    <3> HIDE DEF o
    <3> QED BY <2>1, <2>2, <2>3
  <2>6. TypeOK'
    BY <1>1, <2>2, <2>4, <2>5 DEF TypeOK, ReaderType, ResultType
  <2>7. ASSUME ~ disturbed'
        PROVE  WriterInv' /\ ReaderInv' /\ TornOnlyAfterDisturbance'
    <3>1. WriterInv /\ ReaderInv /\ TornOnlyAfterDisturbance
      BY <1>1, <2>7 DEF Invariant
    <3>2. WriterInv'
      BY <1>1, <3>1 DEF WriterInv, Stored
    <3>3. ReaderInv'
      BY <1>1, <2>4, <3>1 DEF ReaderInv
    <3>4. reader[r].expected = stable /\ reader[r].snap = stable
      <4>1. reader[r].expected = stable /\ \A f \in Fields : reader[r].snap[f] = stable[f]
        BY <1>1, <1>3, <3>1 DEF ReaderInv
      <4> QED BY <2>2, <4>1
    <3>5. TornOnlyAfterDisturbance'
      BY <1>1, <2>5, <2>7, <3>1, <3>4 DEF TornOnlyAfterDisturbance
    <3> QED BY <3>2, <3>3, <3>5
  <2> QED BY <2>6, <2>7 DEF Invariant
<1> QED BY <1>2, <1>3

-----------------------------------------------------------------------------
\* Every step of every process keeps the invariant.
LEMMA NextInvariant == Invariant /\ [Next]_vars => Invariant'
<1> SUFFICES ASSUME Invariant, [Next]_vars PROVE Invariant'
  OBVIOUS
<1>1. ASSUME NEW w \in Writers, WriterStep(w) PROVE Invariant'
  BY <1>1, LoadSeqStep, MarkBusyStep, StoreFieldStep, PublishStep, DieStep DEF WriterStep
<1>2. ASSUME NEW r \in Readers, ReaderStep(r) PROVE Invariant'
  BY <1>2, BeginAttemptStep, CopyFieldStep, EndAttemptStep DEF ReaderStep
<1>3. CASE UNCHANGED vars
  BY <1>3 DEF vars, Invariant, TypeOK, WriterInv, ReaderInv, TornOnlyAfterDisturbance, Stored
<1> QED BY <1>1, <1>2, <1>3 DEF Next

\* The strengthened invariant holds for ever.
LEMMA InvariantHolds == Spec => []Invariant
<1> QED BY InitInvariant, NextInvariant, PTL DEF Spec

\* Every variable keeps its type; in particular every write starts from an even
\* number, whatever state a dead or a concurrent writer left behind.
THEOREM TypeCorrect == Spec => []TypeOK
<1>1. Invariant => TypeOK
  BY DEF Invariant
<1> QED BY <1>1, InvariantHolds, PTL

\* However many processes write and read, and however large the request: without
\* overlapping writes no snapshot is torn, and each is as fresh as its attempt.
THEOREM SnapshotsAreSafe == Spec => []TornOnlyAfterDisturbance
<1>1. Invariant => TornOnlyAfterDisturbance
  BY DEF Invariant, TornOnlyAfterDisturbance
<1> QED BY <1>1, InvariantHolds, PTL
=============================================================================
