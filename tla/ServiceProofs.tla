---------------------------- MODULE ServiceProofs ----------------------------
(***************************************************************************)
(* Theorems about ServiceLifecycle and Configuration, for any configuration *)
(* files, any command lines, any capacity of the error history and any      *)
(* number of calls, errors and stops.                                       *)
(*                                                                         *)
(* Whole says for every place of the owner thread which components exist:   *)
(* a first part of Components while they are built, a set that nothing in   *)
(* it has lost a part of while they are torn down, all or none otherwise.   *)
(* The history is kept by HistoryKept, which knows where the oldest error   *)
(* is before and after the ring has wrapped.  ConfigTyped says that every   *)
(* setting has a value its own printed form would be read back as.          *)
(* Accounted says that an attempt or a run that is failing has a serious     *)
(* error in the journal to show for it, or was overtaken by a stop.          *)
(***************************************************************************)
EXTENDS ServiceLifecycle, NaturalsInduction, WellFoundedInduction, TLAPS

-----------------------------------------------------------------------------
(* The error history.                                                      *)

\* The ring r holds the latest errors of the journal j.
HistoryKept(r, j) ==
  /\ r = [slots |-> r.slots, pos |-> r.pos, size |-> r.size]
  /\ r.slots = [i \in 0 .. HistoryCapacity - 1 |-> r.slots[i]]
  /\ r.pos \in 0 .. HistoryCapacity - 1
  /\ r.size \in 0 .. HistoryCapacity
  /\ r.size <= Len(j)
  /\ r.size < HistoryCapacity => r.pos = r.size /\ Len(j) = r.size
  /\ \A i \in 1 .. r.size :
       r.slots[((IF r.size = HistoryCapacity THEN r.pos ELSE 0) + i - 1) % HistoryCapacity]
         = j[Len(j) - r.size + i]

\* An index less than one turn away from a slot.
LEMMA Masking ==
  ASSUME NEW n \in Nat, n < 2 * HistoryCapacity
  PROVE  /\ n < HistoryCapacity => n % HistoryCapacity = n
         /\ n >= HistoryCapacity => n % HistoryCapacity = n - HistoryCapacity
BY BoundsAssumption

\* Slot number i counted from the one after p.
LEMMA NextTurn ==
  ASSUME NEW p \in 0 .. HistoryCapacity - 1, NEW i \in 1 .. HistoryCapacity, NEW u,
         u = IF p + 1 < HistoryCapacity THEN p + 1 ELSE 0
  PROVE  /\ i = HistoryCapacity => (u + i - 1) % HistoryCapacity = p
         /\ i # HistoryCapacity => /\ (u + i - 1) % HistoryCapacity = (p + i) % HistoryCapacity
                     /\ (p + i) % HistoryCapacity \in 0 .. HistoryCapacity - 1
                     /\ (p + i) % HistoryCapacity # p
<1> DEFINE a == u + i - 1
           b == p + i
<1>1. /\ a \in Nat /\ a < 2 * HistoryCapacity /\ b \in Nat /\ b < 2 * HistoryCapacity
      /\ a = b \/ (a = b - HistoryCapacity /\ p + 1 = HistoryCapacity)
  BY BoundsAssumption
<1>2. a % HistoryCapacity = (IF a < HistoryCapacity THEN a ELSE a - HistoryCapacity) /\ b % HistoryCapacity = (IF b < HistoryCapacity THEN b ELSE b - HistoryCapacity)
  <2> HIDE DEF a, b
  <2>1. HistoryCapacity \in Nat \ {0}
    BY BoundsAssumption
  <2>2. a % HistoryCapacity = IF a < HistoryCapacity THEN a ELSE a - HistoryCapacity
    BY <1>1, <2>1, Masking
  <2>3. b % HistoryCapacity = IF b < HistoryCapacity THEN b ELSE b - HistoryCapacity
    BY <1>1, <2>1, Masking
  <2> QED BY <2>2, <2>3
<1> QED BY <1>1, <1>2, BoundsAssumption

\* An error filed in the ring and appended to the journal (ErrorRegistry::record).
LEMMA FiledKeeps ==
  ASSUME NEW r, NEW S, NEW j \in Seq(S), HistoryKept(r, j), NEW e \in S
  PROVE  HistoryKept(Filed(r, e), Append(j, e))
<1> DEFINE q == Filed(r, e)
           k == Append(j, e)
<1>1. HistoryCapacity \in Nat \ {0}
  BY BoundsAssumption
<1>2. /\ r.pos \in 0 .. HistoryCapacity - 1 /\ r.size \in 0 .. HistoryCapacity /\ r.size <= Len(j) /\ Len(j) \in Nat
      /\ r.size < HistoryCapacity => r.pos = r.size /\ Len(j) = r.size
      /\ r.slots = [i \in 0 .. HistoryCapacity - 1 |-> r.slots[i]]
  BY DEF HistoryKept
<1>3. /\ q.slots = [r.slots EXCEPT ![r.pos] = e]
      /\ q.pos = (r.pos + 1) % HistoryCapacity
      /\ q.size = IF r.size < HistoryCapacity THEN r.size + 1 ELSE r.size
      /\ q = [slots |-> q.slots, pos |-> q.pos, size |-> q.size]
  BY DEF Filed
<1>4. /\ Len(k) = Len(j) + 1 /\ k[Len(j) + 1] = e
      /\ \A i \in 1 .. Len(j) : k[i] = j[i]
  OBVIOUS
<1>5. (r.pos + 1) % HistoryCapacity = IF r.pos + 1 < HistoryCapacity THEN r.pos + 1 ELSE 0
  BY <1>1, <1>2, Masking
<1>6. /\ q.slots = [i \in 0 .. HistoryCapacity - 1 |-> q.slots[i]]
      /\ q.slots[r.pos] = e
      /\ \A i \in 0 .. HistoryCapacity - 1 : i # r.pos => q.slots[i] = r.slots[i]
  BY <1>2, <1>3
<1> DEFINE s == IF r.size = HistoryCapacity THEN r.pos ELSE 0
           u == IF q.size = HistoryCapacity THEN q.pos ELSE 0
<1>7. \A i \in 1 .. r.size : r.slots[(s + i - 1) % HistoryCapacity] = j[Len(j) - r.size + i]
  BY DEF HistoryKept
<1>s. /\ s = IF r.size = HistoryCapacity THEN r.pos ELSE 0
      /\ u = IF q.size = HistoryCapacity THEN q.pos ELSE 0
  OBVIOUS
<1> HIDE DEF q, k, s, u
<1>8. \A i \in 1 .. q.size : q.slots[(u + i - 1) % HistoryCapacity] = k[Len(k) - q.size + i]
  <2> SUFFICES ASSUME NEW i \in 1 .. q.size PROVE q.slots[(u + i - 1) % HistoryCapacity] = k[Len(k) - q.size + i]
    OBVIOUS
  <2>1. CASE r.size < HistoryCapacity
    <3>1. q.size = r.size + 1 /\ u = 0 /\ s = 0
      BY <1>1, <1>2, <1>3, <1>5, <1>s, <2>1
    <3>2. (i - 1) % HistoryCapacity = i - 1 /\ i - 1 \in 0 .. HistoryCapacity - 1
      <4>1. i - 1 \in Nat /\ i - 1 < HistoryCapacity /\ i - 1 < 2 * HistoryCapacity
        BY <1>1, <1>2, <2>1, <3>1
      <4> QED BY <1>1, <4>1, Masking
    <3>3. CASE i = q.size
      <4>1. i - 1 = r.pos /\ Len(k) - q.size + i = Len(j) + 1 /\ u + i - 1 = i - 1
        BY <1>1, <1>2, <1>4, <2>1, <3>1, <3>3
      <4> QED BY <1>4, <1>6, <3>2, <4>1
    <3>4. CASE i # q.size
      <4>1. i \in 1 .. r.size /\ i - 1 # r.pos
        BY <1>1, <1>2, <2>1, <3>1, <3>4
      <4>2. r.slots[i - 1] = j[i]
        <5>1. s + i - 1 = i - 1 /\ Len(j) - r.size + i = i
          BY <1>1, <1>2, <2>1, <3>1, <4>1
        <5>2. r.slots[(s + i - 1) % HistoryCapacity] = j[Len(j) - r.size + i]
          BY <1>7, <4>1
        <5> QED BY <3>2, <5>1, <5>2
      <4>3. q.slots[i - 1] = j[i]
        BY <1>6, <3>2, <4>1, <4>2
      <4>4. Len(k) - q.size + i = i /\ k[i] = j[i]
        BY <1>1, <1>2, <1>4, <2>1, <3>1, <4>1
      <4>5. u + i - 1 = i - 1
        BY <3>1
      <4> QED BY <3>2, <4>3, <4>4, <4>5
    <3> QED BY <3>3, <3>4
  <2>2. CASE r.size = HistoryCapacity
    <3>1. q.size = HistoryCapacity /\ s = r.pos /\ u = (IF r.pos + 1 < HistoryCapacity THEN r.pos + 1 ELSE 0)
      BY <1>1, <1>2, <1>3, <1>5, <1>s, <2>2
    <3>2. CASE i = HistoryCapacity
      <4>1. (u + i - 1) % HistoryCapacity = r.pos
        BY <1>1, <1>2, <3>1, <3>2, NextTurn
      <4>2. Len(k) - q.size + i = Len(j) + 1
        BY <1>1, <1>2, <1>4, <3>1, <3>2
      <4> QED BY <1>4, <1>6, <4>1, <4>2
    <3>3. CASE i # HistoryCapacity
      <4>1. i + 1 \in 1 .. r.size
        BY <1>1, <1>2, <2>2, <3>1, <3>3
      <4>2. /\ (u + i - 1) % HistoryCapacity = (s + (i + 1) - 1) % HistoryCapacity
            /\ (s + (i + 1) - 1) % HistoryCapacity \in 0 .. HistoryCapacity - 1 /\ (s + (i + 1) - 1) % HistoryCapacity # r.pos
        <5>1. s + (i + 1) - 1 = r.pos + i /\ i \in 1 .. HistoryCapacity
          BY <1>1, <1>2, <2>2, <3>1, <3>3
        <5>2. /\ (u + i - 1) % HistoryCapacity = (r.pos + i) % HistoryCapacity
              /\ (r.pos + i) % HistoryCapacity \in 0 .. HistoryCapacity - 1 /\ (r.pos + i) % HistoryCapacity # r.pos
          BY ONLY <1>2, <3>1, <3>3, <5>1, NextTurn
        <5> QED BY <5>1, <5>2
      <4>4. r.slots[(s + (i + 1) - 1) % HistoryCapacity] = j[Len(j) - r.size + (i + 1)]
        BY <1>7, <4>1
      <4>5. Len(k) - q.size + i = Len(j) - r.size + (i + 1)
        BY <1>1, <1>2, <1>4, <2>2, <3>1
      <4>6. Len(j) - r.size + (i + 1) \in 1 .. Len(j)
        BY <1>1, <1>2, <4>1
      <4>7. k[Len(j) - r.size + (i + 1)] = j[Len(j) - r.size + (i + 1)]
        BY <1>4, <4>6
      <4>8. q.slots[(s + (i + 1) - 1) % HistoryCapacity] = r.slots[(s + (i + 1) - 1) % HistoryCapacity]
        BY <1>6, <4>2
      <4> DEFINE x == (s + (i + 1) - 1) % HistoryCapacity
                 y == Len(j) - r.size + (i + 1)
      <4>9. (u + i - 1) % HistoryCapacity = x /\ Len(k) - q.size + i = y
        BY <4>2, <4>5
      <4>10. q.slots[x] = r.slots[x] /\ r.slots[x] = j[y] /\ k[y] = j[y]
        BY <4>4, <4>7, <4>8
      <4> HIDE DEF x, y
      <4> QED BY ONLY <4>9, <4>10
    <3> QED BY <3>2, <3>3
  <2> QED BY <1>1, <1>2, <2>1, <2>2
<1>9. /\ q.pos \in 0 .. HistoryCapacity - 1 /\ q.size \in 0 .. HistoryCapacity /\ q.size <= Len(k)
      /\ q.size < HistoryCapacity => q.pos = q.size /\ Len(k) = q.size
  BY <1>1, <1>2, <1>3, <1>4, <1>5, SMTT(120)
<1>10. HistoryKept(q, k)
  BY <1>3, <1>6, <1>8, <1>9 DEF HistoryKept, u
<1> QED BY <1>10 DEF q, k

-----------------------------------------------------------------------------
(* Recording an error.                                                     *)

\* The errors the service and its parts record.
Errors ==
  [domain : {"core", "config", "shm", "portfolio", "order", "api"},
   code : {"ConfigParseFailed", "ConfigValidateFailed", "LoggerInitFailed", "ShmOpenFailed",
           "PositionUpdateFailed", "InvalidConfig", "ComponentUnavailable", "InvalidState",
           "QueuePushFailed"}]

\* The journal j holds an error that stops a service.
Blamed(j) == \E i \in 1 .. Len(j) : Serious(j[i])

\* The latch l agrees with the journal j of which m errors are older than the
\* last initialize: a low latch means that none of the later ones is serious, a
\* high one that some error is.
LatchKept(l, j, m) ==
  /\ l \in 0 .. 3 /\ m \in 0 .. Len(j)
  /\ l < 2 => \A i \in m + 1 .. Len(j) : ~Serious(j[i])
  /\ l >= 2 => Blamed(j)

\* The history, the latch and the journal they are judged by.
LogKept(r, l, j, m) == j \in Seq(Errors) /\ HistoryKept(r, j) /\ LatchKept(l, j, m)

\* The severities are numbers.
LEMMA Severities ==
  /\ Range(Severity) = 0 .. 3 /\ None = 0 /\ Critical = 2
  /\ \A e : Classify(e) \in 0 .. 3
<1>1. /\ DOMAIN Severity = {"none", "Recoverable", "Critical", "Fatal"}
      /\ Severity["none"] = 0 /\ Severity["Recoverable"] = 1 /\ Severity["Critical"] = 2 /\ Severity["Fatal"] = 3
  BY DEF Severity
<1>2. Range(Severity) = {0, 1, 2, 3}
  BY <1>1 DEF Range
<1>3. {0, 1, 2, 3} = 0 .. 3
  OBVIOUS
<1>4. None = 0 /\ Critical = 2
  BY <1>1 DEF None, Critical
<1>5. ASSUME NEW e PROVE Classify(e) \in 0 .. 3
  BY <1>1, <1>4 DEF Classify
<1> QED BY <1>2, <1>3, <1>4, <1>5

\* An error that stops the service is one outside the order API whose code is not
\* recoverable, and the latch rises to its severity.
LEMMA LatchedFacts ==
  ASSUME NEW l \in 0 .. 3, NEW e
  PROVE  /\ StopsService(e) <=> Serious(e)
         /\ Latched(l, e) \in 0 .. 3 /\ l <= Latched(l, e)
         /\ Serious(e) => 2 <= Latched(l, e)
         /\ ~Serious(e) => Latched(l, e) = l
<1>1. Critical = 2 /\ Classify(e) \in 0 .. 3
  BY Severities
<1>2. \A c : c \in RecoverableCodes => c \notin FatalCodes
  BY DEF RecoverableCodes, FatalCodes
<1>3. Severity["Recoverable"] = 1 /\ Severity["Fatal"] = 3
  BY DEF Severity
<1>4. Classify(e) >= 2 <=> e.code \notin RecoverableCodes
  BY <1>1, <1>2, <1>3 DEF Classify
<1>5. StopsService(e) <=> Serious(e)
  BY <1>1, <1>4 DEF StopsService, Serious
<1>6. Serious(e) => Classify(e) >= 2
  BY <1>4 DEF Serious
<1> QED BY <1>1, <1>5, <1>6 DEF Latched, Higher

\* One more error is recorded (record_error, request_shutdown).
LEMMA LatchFollows ==
  ASSUME NEW l, NEW j \in Seq(Errors), NEW m, LatchKept(l, j, m), NEW e \in Errors
  PROVE  /\ LatchKept(Latched(l, e), Append(j, e), m)
         /\ Blamed(j) \/ Serious(e) => Blamed(Append(j, e))
<1> DEFINE k == Append(j, e)
           h == Latched(l, e)
<1>1. /\ Len(k) = Len(j) + 1 /\ k[Len(j) + 1] = e /\ Len(j) \in Nat
      /\ \A i \in 1 .. Len(j) : k[i] = j[i]
  OBVIOUS
<1>2. /\ l \in 0 .. 3 /\ m \in 0 .. Len(j)
      /\ l < 2 => \A i \in m + 1 .. Len(j) : ~Serious(j[i])
      /\ l >= 2 => Blamed(j)
  BY DEF LatchKept
<1>3. /\ h \in 0 .. 3 /\ l <= h
      /\ Serious(e) => 2 <= h
      /\ ~Serious(e) => h = l
  BY <1>2, LatchedFacts
<1> HIDE DEF k, h
<1>4. Blamed(j) \/ Serious(e) => Blamed(k)
  <2>1. ASSUME Blamed(j) PROVE Blamed(k)
    <3>1. PICK i \in 1 .. Len(j) : Serious(j[i])
      BY <2>1 DEF Blamed
    <3>2. i \in 1 .. Len(k) /\ k[i] = j[i]
      BY <1>1
    <3>3. Serious(k[i])
      BY ONLY <3>1, <3>2
    <3> QED BY <3>2, <3>3 DEF Blamed
  <2>2. ASSUME Serious(e) PROVE Blamed(k)
    <3>1. Len(j) + 1 \in 1 .. Len(k)
      BY <1>1
    <3>2. Serious(k[Len(j) + 1])
      BY ONLY <1>1, <2>2
    <3> QED BY <3>1, <3>2 DEF Blamed
  <2> QED BY <2>1, <2>2
<1>5. ASSUME h < 2, NEW i \in m + 1 .. Len(k) PROVE ~Serious(k[i])
  <2>1. ~Serious(e) /\ l < 2
    BY <1>2, <1>3, <1>5
  <2>2. CASE i = Len(j) + 1
    BY ONLY <1>1, <2>1, <2>2
  <2>3. CASE i # Len(j) + 1
    <3>1. i \in m + 1 .. Len(j) /\ i \in 1 .. Len(j)
      BY <1>1, <1>2, <2>3
    <3>2. k[i] = j[i] /\ ~Serious(j[i])
      BY <1>1, <1>2, <2>1, <3>1
    <3> QED BY ONLY <3>2
  <2> QED BY <2>2, <2>3
<1>6. h >= 2 => Blamed(k)
  BY <1>2, <1>3, <1>4
<1>7. m \in 0 .. Len(k)
  BY <1>1, <1>2
<1>8. LatchKept(h, k, m)
  BY <1>3, <1>5, <1>6, <1>7 DEF LatchKept
<1> QED BY <1>4, <1>8 DEF k, h

\* record_error keeps the history and the latch, for one error or for two, and
\* forgets nothing serious.
LEMMA RecordKeeps ==
  ASSUME LogKept(ring, latch, journal, mark), NEW es, Record(es),
         NEW a \in Errors, NEW b \in Errors, es = <<a>> \/ es = <<a, b>>
  PROVE  /\ LogKept(ring', latch', journal', mark')
         /\ Blamed(journal) => Blamed(journal')
         /\ Serious(es[Len(es)]) => Blamed(journal')
<1>1. journal \in Seq(Errors) /\ HistoryKept(ring, journal) /\ LatchKept(latch, journal, mark)
  BY DEF LogKept
<1>2. mark' = mark
  BY DEF Record
<1>3. CASE es = <<a>>
  <2>1. Len(es) = 1 /\ es[1] = a /\ es[Len(es)] = a
    BY <1>3
  <2>2. ring' = Filed(ring, a) /\ latch' = Latched(latch, a) /\ journal' = journal \o <<a>>
    BY <1>3, <2>1 DEF Record
  <2>3. journal \o <<a>> = Append(journal, a) /\ Append(journal, a) \in Seq(Errors)
    BY <1>1
  <2>4. HistoryKept(Filed(ring, a), Append(journal, a))
    BY ONLY <1>1, a \in Errors, FiledKeeps
  <2>5. /\ LatchKept(Latched(latch, a), Append(journal, a), mark)
        /\ Blamed(journal) \/ Serious(a) => Blamed(Append(journal, a))
    BY ONLY <1>1, a \in Errors, LatchFollows
  <2> QED BY ONLY <1>2, <2>1, <2>2, <2>3, <2>4, <2>5 DEF LogKept
<1>4. CASE es = <<a, b>>
  <2>1. Len(es) = 2 /\ es[1] = a /\ es[2] = b /\ es[Len(es)] = b
    BY <1>4
  <2> DEFINE m == Latched(latch, a)
             k == Append(journal, a)
  <2>2. ring' = Filed(Filed(ring, a), b) /\ latch' = Latched(m, b) /\ journal' = journal \o <<a, b>>
    BY <1>4, <2>1 DEF Record
  <2>3. journal \o <<a, b>> = Append(k, b) /\ k \in Seq(Errors) /\ Append(k, b) \in Seq(Errors)
    BY <1>1
  <2>4. HistoryKept(Filed(ring, a), k)
    BY ONLY <1>1, a \in Errors, FiledKeeps
  <2>5. LatchKept(m, k, mark) /\ (Blamed(journal) \/ Serious(a) => Blamed(k))
    BY ONLY <1>1, a \in Errors, LatchFollows
  <2> HIDE DEF m, k
  <2>6. HistoryKept(Filed(Filed(ring, a), b), Append(k, b))
    BY ONLY <2>3, <2>4, b \in Errors, FiledKeeps
  <2>7. /\ LatchKept(Latched(m, b), Append(k, b), mark)
        /\ Blamed(k) \/ Serious(b) => Blamed(Append(k, b))
    BY ONLY <2>3, <2>5, b \in Errors, LatchFollows
  <2> QED BY ONLY <1>2, <2>1, <2>2, <2>3, <2>5, <2>6, <2>7 DEF LogKept
<1> QED BY <1>3, <1>4

\* recent_errors is the end of the journal.
LEMMA HistoryIsRead ==
  ASSUME journal \in Seq(Errors), HistoryKept(ring, journal)
  PROVE  HistoryHoldsTheLatest
<1> DEFINE n == Len(journal)
           m == Min({n, HistoryCapacity})
<1>1. n \in Nat /\ HistoryCapacity \in Nat \ {0}
  BY BoundsAssumption
<1>2. m = IF n < HistoryCapacity THEN n ELSE HistoryCapacity
  <2> HIDE DEF n
  <2> QED BY <1>1 DEF Min
<1>3. ring.size = m
  BY <1>1, <1>2 DEF HistoryKept
<1> HIDE DEF m
<1>4. SubSeq(journal, n - m + 1, n) = [i \in 1 .. m |-> journal[n - m + i]]
  <2>1. m \in Nat /\ m <= n
    BY <1>1, <1>2
  <2>2. /\ SubSeq(journal, n - m + 1, n) = [i \in 1 .. (1 + n - (n - m + 1)) |-> journal[i + (n - m + 1) - 1]]
    BY <1>1, <2>1
  <2>3. 1 + n - (n - m + 1) = m /\ \A i \in 1 .. m : i + (n - m + 1) - 1 = n - m + i
    BY <1>1, <2>1
  <2> HIDE DEF n
  <2> QED BY <2>2, <2>3
<1>5. RecentErrors(ring) = [i \in 1 .. m |-> journal[n - m + i]]
  <2>1. RecentErrors(ring) = [i \in 1 .. ring.size |->
          ring.slots[((IF ring.size = HistoryCapacity THEN ring.pos ELSE 0) + i - 1) % HistoryCapacity]]
    BY DEF RecentErrors
  <2>2. \A i \in 1 .. ring.size :
          ring.slots[((IF ring.size = HistoryCapacity THEN ring.pos ELSE 0) + i - 1) % HistoryCapacity]
            = journal[n - ring.size + i]
    BY DEF HistoryKept
  <2> HIDE DEF n
  <2> QED BY <1>3, <2>1, <2>2
<1> QED BY <1>4, <1>5 DEF HistoryHoldsTheLatest, m

-----------------------------------------------------------------------------
(* What is built and torn down, and in which order.                         *)

All == {"recorder", "shm", "positions", "risk", "book", "router", "market_data", "execution",
        "event_loop"}

\* The order of initialize, place by place.
LEMMA BuildOrder ==
  /\ Len(Components) = 9 /\ Components[1] = "recorder" /\ Components[2] = "shm"
  /\ Components[3] = "positions" /\ Components[4] = "risk" /\ Components[5] = "book"
  /\ Components[6] = "router" /\ Components[7] = "market_data" /\ Components[8] = "execution"
  /\ Components[9] = "event_loop" /\ DOMAIN Components = 1 .. 9
BY DEF Components

\* The order of cleanup, place by place.
LEMMA TeardownOrder ==
  /\ Len(Teardown) = 9 /\ Teardown[1] = "event_loop" /\ Teardown[2] = "execution"
  /\ Teardown[3] = "market_data" /\ Teardown[4] = "router" /\ Teardown[5] = "book"
  /\ Teardown[6] = "recorder" /\ Teardown[7] = "risk" /\ Teardown[8] = "positions"
  /\ Teardown[9] = "shm"
BY DEF Teardown

\* What each part holds a reference to.
LEMMA UsesOf ==
  /\ Uses["recorder"] = {} /\ Uses["shm"] = {} /\ Uses["positions"] = {"shm"}
  /\ Uses["risk"] = {"positions"} /\ Uses["book"] = {} /\ Uses["router"] = {"book", "shm"}
  /\ Uses["market_data"] = {}
  /\ Uses["execution"] = {"book", "router", "market_data", "recorder"}
  /\ Uses["event_loop"] = {"shm", "book", "router", "positions", "risk", "execution", "recorder"}
BY DEF Uses

\* The parts initialize builds are these nine.
LEMMA AllParts == Range(Components) = All
<1>1. \A c \in Range(Components) : c \in All
  <2> SUFFICES ASSUME NEW i \in 1 .. 9 PROVE Components[i] \in All
    BY BuildOrder DEF Range
  <2>1. i \in {1, 2, 3, 4, 5, 6, 7, 8, 9}
    OBVIOUS
  <2> QED BY <2>1, BuildOrder DEF All
<1>2. \A c \in All : \E i \in 1 .. 9 : Components[i] = c
  <2>1. 1 \in 1 .. 9 /\ 2 \in 1 .. 9 /\ 3 \in 1 .. 9 /\ 4 \in 1 .. 9 /\ 5 \in 1 .. 9 /\ 6 \in 1 .. 9
        /\ 7 \in 1 .. 9 /\ 8 \in 1 .. 9 /\ 9 \in 1 .. 9
    OBVIOUS
  <2> QED BY <2>1, BuildOrder DEF All
<1>3. \A c \in All : c \in Range(Components)
  BY <1>2, BuildOrder DEF Range
<1> QED BY <1>1, <1>3

\* The parts built before place n.
Before(n) == {Components[i] : i \in 1 .. n - 1}

\* A set of parts that lacks nothing any of them refers to.
Closed(b) == \A c \in b : Uses[c] \subseteq b

\* Every part is built after the ones it refers to.
LEMMA BuiltInOrder ==
  ASSUME NEW n \in 1 .. 9
  PROVE  Uses[Components[n]] \subseteq Before(n)
<1>1. \A i \in 1 .. n - 1 : Components[i] \in Before(n)
  BY DEF Before
<1>2. n \in {1, 2, 3, 4, 5, 6, 7, 8, 9}
  OBVIOUS
<1>3. CASE n \in {1, 2, 5, 7}
  BY <1>3, BuildOrder, UsesOf
<1>4. CASE n = 3
  <2>1. 2 \in 1 .. n - 1
    BY <1>4
  <2> QED BY <1>1, <1>4, <2>1, BuildOrder, UsesOf
<1>5. CASE n = 4
  <2>1. 3 \in 1 .. n - 1
    BY <1>5
  <2> QED BY <1>1, <1>5, <2>1, BuildOrder, UsesOf
<1>6. CASE n = 6
  <2>1. 5 \in 1 .. n - 1 /\ 2 \in 1 .. n - 1
    BY <1>6
  <2> QED BY <1>1, <1>6, <2>1, BuildOrder, UsesOf
<1>7. CASE n = 8
  <2>1. 5 \in 1 .. n - 1 /\ 6 \in 1 .. n - 1 /\ 7 \in 1 .. n - 1 /\ 1 \in 1 .. n - 1
    BY <1>7
  <2> QED BY <1>1, <1>7, <2>1, BuildOrder, UsesOf
<1>8. CASE n = 9
  <2>1. /\ 1 \in 1 .. n - 1 /\ 2 \in 1 .. n - 1 /\ 3 \in 1 .. n - 1 /\ 4 \in 1 .. n - 1
        /\ 5 \in 1 .. n - 1 /\ 6 \in 1 .. n - 1 /\ 8 \in 1 .. n - 1
    BY <1>8
  <2> QED BY <1>1, <1>8, <2>1, BuildOrder, UsesOf
<1> QED BY <1>2, <1>3, <1>4, <1>5, <1>6, <1>7, <1>8

\* The next part joins those before it; nine make the whole.
LEMMA OneMore ==
  /\ Before(1) = {} /\ Before(10) = All
  /\ \A n \in 1 .. 9 : Before(n + 1) = Before(n) \cup {Components[n]}
<1>1. Before(1) = {}
  BY DEF Before
<1>2. Before(10) = All
  BY AllParts, BuildOrder DEF Before, Range
<1>3. ASSUME NEW n \in 1 .. 9 PROVE Before(n + 1) = Before(n) \cup {Components[n]}
  <2>1. (n + 1) - 1 = n /\ 1 .. n = (1 .. n - 1) \cup {n}
    OBVIOUS
  <2> QED BY <2>1 DEF Before
<1> QED BY <1>1, <1>2, <1>3

\* A part and the parts before it are closed.
LEMMA ClosedGrows ==
  ASSUME NEW n \in 1 .. 9, Closed(Before(n))
  PROVE  Closed(Before(n) \cup {Components[n]})
BY BuiltInOrder DEF Closed

\* Whatever refers to the part torn down at place n was torn down before.
LEMMA UsersGoFirst ==
  ASSUME NEW n \in 1 .. 9, NEW c \in All, Teardown[n] \in Uses[c]
  PROVE  \E m \in 1 .. n - 1 : Teardown[m] = c
<1>1. n \in {1, 2, 3, 4, 5, 6, 7, 8, 9}
  OBVIOUS
<1>2. CASE c \in {"recorder", "shm", "book", "market_data"}
  BY <1>2, UsesOf
<1>3. CASE c = "event_loop"
  <2>1. n \notin {1}
    BY <1>3, TeardownOrder, UsesOf
  <2>2. 1 \in 1 .. n - 1
    BY <2>1
  <2> QED BY <1>3, <2>2, TeardownOrder
<1>4. CASE c = "execution"
  <2>1. n \notin {1, 2}
    BY <1>4, TeardownOrder, UsesOf
  <2>2. 2 \in 1 .. n - 1
    BY <2>1
  <2> QED BY <1>4, <2>2, TeardownOrder
<1>5. CASE c = "router"
  <2>1. n \notin {1, 2, 3, 4}
    BY <1>5, TeardownOrder, UsesOf
  <2>2. 4 \in 1 .. n - 1
    BY <2>1
  <2> QED BY <1>5, <2>2, TeardownOrder
<1>6. CASE c = "risk"
  <2>1. n \notin {1, 2, 3, 4, 5, 6, 7}
    BY <1>6, TeardownOrder, UsesOf
  <2>2. 7 \in 1 .. n - 1
    BY <2>1
  <2> QED BY <1>6, <2>2, TeardownOrder
<1>7. CASE c = "positions"
  <2>1. n \notin {1, 2, 3, 4, 5, 6, 7, 8}
    BY <1>7, TeardownOrder, UsesOf
  <2>2. 8 \in 1 .. n - 1
    BY <2>1
  <2> QED BY <1>7, <2>2, TeardownOrder
<1> QED BY <1>2, <1>3, <1>4, <1>5, <1>6, <1>7 DEF All

\* Parts half torn down: closed, and everything before place n is gone.
TornTo(b, n) == b \subseteq All /\ Closed(b) /\ \A i \in 1 .. n - 1 : Teardown[i] \notin b

\* The next part may go.
LEMMA OneLess ==
  ASSUME NEW n \in 1 .. 9, NEW b, TornTo(b, n)
  PROVE  TornTo(b \ {Teardown[n]}, n + 1)
<1>1. b \subseteq All /\ Closed(b) /\ \A i \in 1 .. n - 1 : Teardown[i] \notin b
  BY DEF TornTo
<1>2. \A c \in b : Teardown[n] \notin Uses[c]
  BY <1>1, UsersGoFirst
<1>3. Closed(b \ {Teardown[n]})
  BY <1>1, <1>2 DEF Closed
<1>4. \A i \in 1 .. (n + 1) - 1 : Teardown[i] \notin b \ {Teardown[n]}
  <2> SUFFICES ASSUME NEW i \in 1 .. (n + 1) - 1 PROVE Teardown[i] \notin b \ {Teardown[n]}
    OBVIOUS
  <2>1. i = n \/ i \in 1 .. n - 1
    OBVIOUS
  <2> QED BY <1>1, <2>1
<1> QED BY <1>1, <1>3, <1>4 DEF TornTo

\* After the last place nothing is left.
LEMMA NothingLeft ==
  ASSUME NEW b, TornTo(b, 10)
  PROVE  b = {}
<1>1. \A i \in 1 .. 9 : Teardown[i] \notin b
  BY DEF TornTo
<1>2. /\ Teardown[1] \notin b /\ Teardown[2] \notin b /\ Teardown[3] \notin b
      /\ Teardown[4] \notin b /\ Teardown[5] \notin b /\ Teardown[6] \notin b
      /\ Teardown[7] \notin b /\ Teardown[8] \notin b /\ Teardown[9] \notin b
  BY <1>1
<1>3. \A c \in All : c \notin b
  BY <1>2, TeardownOrder DEF All
<1> QED BY <1>3 DEF TornTo

\* All parts together, and none, are closed.
LEMMA AllClosed == Closed(All) /\ Closed({}) /\ TornTo(All, 1) /\ TornTo({}, 1)
<1>1. Closed(All)
  <2> SUFFICES ASSUME NEW c \in All PROVE Uses[c] \subseteq All
    BY DEF Closed
  <2> QED BY UsesOf DEF All
<1>2. Closed({})
  BY DEF Closed
<1> QED BY <1>1, <1>2 DEF TornTo

-----------------------------------------------------------------------------
(* Settings and their printed form.                                        *)

Kinds == {"bool", "integer", "day", "double", "split", "text"}

\* A value whose printed form is accepted and prints the same again; only a
\* double may come back as another value.
ReadsBack(kind, v) ==
  /\ Parses(kind, Printed(kind, v))
  /\ kind # "double" => Parsed(kind, Printed(kind, v)) = v
  /\ Printed(kind, Parsed(kind, Printed(kind, v))) = Printed(kind, v)

\* A configuration all of whose values read back.
ConfigTyped(c) ==
  /\ c = [k \in ConfigKeys |-> c[k]]
  /\ \A k \in ConfigKeys : ReadsBack(KeyKind[k], c[k])

\* The keys, and the kind of each.
LEMMA Keys ==
  /\ ConfigKeys = {"account_id", "trading_day", "shm_name", "poll_batch_size", "market_data",
                   "snapshot_shm_name", "price_fallback", "active_strategy", "strategy_name",
                   "signal_threshold", "split_strategy", "max_child_count", "business_log",
                   "output_dir", "queue_capacity", "flush_interval_ms"}
  /\ KeyKind["account_id"] = "integer" /\ KeyKind["trading_day"] = "day"
  /\ KeyKind["shm_name"] = "text" /\ KeyKind["poll_batch_size"] = "integer"
  /\ KeyKind["market_data"] = "bool" /\ KeyKind["snapshot_shm_name"] = "text"
  /\ KeyKind["price_fallback"] = "bool" /\ KeyKind["active_strategy"] = "bool"
  /\ KeyKind["strategy_name"] = "text" /\ KeyKind["signal_threshold"] = "double"
  /\ KeyKind["split_strategy"] = "split" /\ KeyKind["max_child_count"] = "integer"
  /\ KeyKind["business_log"] = "bool" /\ KeyKind["output_dir"] = "text"
  /\ KeyKind["queue_capacity"] = "integer" /\ KeyKind["flush_interval_ms"] = "integer"
BY DEF ConfigKeys, KeyKind

\* Every key has one of the six kinds.
LEMMA KeyKinds == \A k \in ConfigKeys : KeyKind[k] \in Kinds
BY Keys DEF Kinds

\* The numbers and their texts.
LEMMA Numbers ==
  /\ DOMAIN Number = {"0", "1", "64", "4294967295"}
  /\ Number["0"] = 0 /\ Number["1"] = 1 /\ Number["64"] = 64 /\ Number["4294967295"] = Uint32Max
BY DEF Number

\* Either truth value reads back.
LEMMA BoolReadsBack ==
  ASSUME NEW v \in BOOLEAN
  PROVE  ReadsBack("bool", v)
<1>1. CASE v = TRUE
  <2>1. Printed("bool", v) = "true"
    BY <1>1 DEF Printed
  <2>2. Parses("bool", "true") /\ Parsed("bool", "true") = TRUE
    BY DEF Parses, Parsed
  <2> QED BY <1>1, <2>1, <2>2 DEF ReadsBack
<1>2. CASE v = FALSE
  <2>1. Printed("bool", v) = "false"
    BY <1>2 DEF Printed
  <2>2. Parses("bool", "false")
    BY DEF Parses
  <2>3. Parsed("bool", "false") = FALSE
    <3>1. Parsed("bool", "false") = ("false" \in {"1", "true"})
      BY DEF Parsed
    <3>2. ("false" \in {"1", "true"}) = FALSE
      <4>1. "false" \notin {"1", "true"}
        OBVIOUS
      <4> QED BY <4>1, SMT
    <3> QED BY <3>1, <3>2, Zenon
  <2> QED BY <1>2, <2>1, <2>2, <2>3 DEF ReadsBack
<1> QED BY <1>1, <1>2

\* A number reads back.
LEMMA IntegerReadsBack ==
  ASSUME NEW v \in {0, 1, 64, Uint32Max}
  PROVE  ReadsBack("integer", v)
<1> DEFINE text == CHOOSE t \in DOMAIN Number : Number[t] = v
<1>1. text \in DOMAIN Number /\ Number[text] = v
  <2>1. \E t \in DOMAIN Number : Number[t] = v
    BY Numbers
  <2> QED BY <2>1
<1>2. Printed("integer", v) = text
  BY DEF Printed
<1> HIDE DEF text
<1>3. Parses("integer", text) /\ Parsed("integer", text) = v
  BY <1>1 DEF Parses, Parsed
<1> QED BY <1>2, <1>3 DEF ReadsBack

\* A day, a split strategy and a name are their own text.
LEMMA TextReadsBack ==
  ASSUME NEW kind \in {"day", "split", "text"}, NEW v, Parses(kind, v)
  PROVE  ReadsBack(kind, v)
<1>1. Printed(kind, v) = v /\ Parsed(kind, v) = v
  BY DEF Printed, Parsed
<1> QED BY <1>1 DEF ReadsBack

\* A double prints the same once it has been printed.
LEMMA DoubleReadsBack ==
  ASSUME NEW v \in {"0", "0.1234567", "0.123457"}
  PROVE  ReadsBack("double", v)
<1>1. /\ \A u : Printed("double", u) = IF u = "0.1234567" THEN "0.123457" ELSE u
      /\ \A u : Parsed("double", u) = u
  BY DEF Printed, Parsed
<1>2. Printed("double", v) \in {"0", "0.123457"}
  BY <1>1
<1>3. Parses("double", Printed("double", v))
  BY <1>2 DEF Parses
<1>4. Printed("double", Parsed("double", Printed("double", v))) = Printed("double", v)
  BY <1>1, <1>2
<1> QED BY <1>3, <1>4 DEF ReadsBack

\* Whatever apply_value accepts reads back.
LEMMA ParsedReadsBack ==
  ASSUME NEW kind \in Kinds, NEW text, Parses(kind, text)
  PROVE  ReadsBack(kind, Parsed(kind, text))
<1>1. CASE kind = "bool"
  <2>1. Parsed("bool", text) \in BOOLEAN
    BY DEF Parsed
  <2> QED BY <1>1, <2>1, BoolReadsBack
<1>2. CASE kind = "integer"
  <2>1. text \in DOMAIN Number
    BY <1>2 DEF Parses
  <2>2. Parsed("integer", text) = Number[text]
    BY DEF Parsed
  <2>3. Parsed("integer", text) \in {0, 1, 64, Uint32Max}
    BY <2>1, <2>2, Numbers
  <2> QED BY <1>2, <2>3, IntegerReadsBack
<1>3. CASE kind \in {"day", "split", "text"}
  <2>1. Parsed(kind, text) = text
    BY <1>3 DEF Parsed
  <2> QED BY <1>3, <2>1, TextReadsBack
<1>4. CASE kind = "double"
  <2>1. Parsed("double", text) = text /\ text \in {"0", "0.1234567", "0.123457"}
    BY <1>4 DEF Parsed, Parses
  <2> QED BY <1>4, <2>1, DoubleReadsBack
<1> QED BY <1>1, <1>2, <1>3, <1>4 DEF Kinds

\* The defaults read back.
LEMMA DefaultTyped == ConfigTyped(DefaultConfig)
<1> DEFINE c == DefaultConfig
<1>1. c = [k \in ConfigKeys |-> c[k]]
  BY Keys DEF DefaultConfig
<1>2. /\ c["account_id"] = 1 /\ c["trading_day"] = "19700101" /\ c["shm_name"] = "/shm"
      /\ c["poll_batch_size"] = 64 /\ c["market_data"] = FALSE
      /\ c["snapshot_shm_name"] = "/signal" /\ c["price_fallback"] = FALSE
      /\ c["active_strategy"] = FALSE /\ c["strategy_name"] = "none"
      /\ c["signal_threshold"] = "0" /\ c["split_strategy"] = "none"
      /\ c["max_child_count"] = 64 /\ c["business_log"] = TRUE /\ c["output_dir"] = "./logs"
      /\ c["queue_capacity"] = 64 /\ c["flush_interval_ms"] = 64
  BY DEF DefaultConfig
<1> HIDE DEF c
<1>3. ReadsBack("integer", 1) /\ ReadsBack("integer", 64)
  BY IntegerReadsBack
<1>4. ReadsBack("bool", FALSE) /\ ReadsBack("bool", TRUE)
  BY BoolReadsBack
<1>5. ReadsBack("double", "0")
  BY DoubleReadsBack
<1>6. /\ ReadsBack("day", "19700101") /\ ReadsBack("split", "none") /\ ReadsBack("text", "/shm")
      /\ ReadsBack("text", "none") /\ ReadsBack("text", "/signal") /\ ReadsBack("text", "./logs")
  <2>1. /\ Parses("day", "19700101") /\ Parses("split", "none") /\ Parses("text", "/shm")
        /\ Parses("text", "none") /\ Parses("text", "/signal") /\ Parses("text", "./logs")
    BY DEF Parses, TradingDays
  <2> QED BY <2>1, TextReadsBack
<1>7. ASSUME NEW k \in ConfigKeys PROVE ReadsBack(KeyKind[k], c[k])
  <2>1. CASE k \in {"account_id", "poll_batch_size", "max_child_count", "queue_capacity",
                     "flush_interval_ms"}
    BY ONLY <1>2, <1>3, <2>1, Keys
  <2>2. CASE k \in {"market_data", "price_fallback", "active_strategy"}
    BY ONLY <1>2, <1>4, <2>2, Keys, ZenonT(120)
  <2>5. CASE k = "business_log"
    BY ONLY <1>2, <1>4, <2>5, Keys, Zenon
  <2>3. CASE k \in {"trading_day", "split_strategy", "shm_name", "strategy_name",
                     "snapshot_shm_name", "output_dir"}
    BY ONLY <1>2, <1>6, <2>3, Keys
  <2>4. CASE k = "signal_threshold"
    BY ONLY <1>2, <1>5, <2>4, Keys
  <2> QED BY <2>1, <2>2, <2>3, <2>4, <2>5, Keys
<1>8. ConfigTyped(c)
  BY <1>1, <1>7 DEF ConfigTyped
<1> QED BY <1>8 DEF c

\* The older section name stands for one key.
LEMMA Aliases ==
  /\ DOMAIN Alias = {"event_loop_poll_batch_size"}
  /\ Alias["event_loop_poll_batch_size"] = "poll_batch_size"
  /\ "event_loop_poll_batch_size" \notin ConfigKeys
BY Keys DEF Alias

\* What a readable file leaves behind reads back.
LEMMA MergedTyped ==
  ASSUME NEW c, ConfigTyped(c), NEW doc, Readable(doc)
  PROVE  ConfigTyped(Merged(c, doc))
<1> DEFINE m == Merged(c, doc)
<1>1. m = [k \in ConfigKeys |-> m[k]]
  BY DEF Merged
<1>2. ASSUME NEW k \in ConfigKeys PROVE ReadsBack(KeyKind[k], m[k])
  <2>1. CASE k \in DOMAIN doc
    <3>1. m[k] = Parsed(KeyKind[k], doc[k])
      BY <2>1 DEF Merged
    <3>2. k \notin DOMAIN Alias
      BY Aliases
    <3>3. Parses(KeyKind[k], doc[k])
      BY <2>1, <3>2 DEF Readable
    <3> QED BY ONLY <3>1, <3>3, k \in ConfigKeys, KeyKinds, ParsedReadsBack
  <2>2. CASE k \notin DOMAIN doc /\ \E a \in DOMAIN doc \cap DOMAIN Alias : Alias[a] = k
    <3> DEFINE a == CHOOSE a \in DOMAIN doc \cap DOMAIN Alias : Alias[a] = k
    <3>1. a \in DOMAIN doc \cap DOMAIN Alias /\ Alias[a] = k
      BY <2>2
    <3>2. m[k] = Parsed(KeyKind[k], doc[a])
      BY <2>2 DEF Merged
    <3> HIDE DEF a
    <3>3. Parses(KeyKind[k], doc[a])
      BY <3>1 DEF Readable
    <3> QED BY ONLY <3>2, <3>3, k \in ConfigKeys, KeyKinds, ParsedReadsBack
  <2>3. CASE k \notin DOMAIN doc /\ ~\E a \in DOMAIN doc \cap DOMAIN Alias : Alias[a] = k
    <3>1. m[k] = c[k]
      BY <2>3 DEF Merged
    <3> QED BY <3>1 DEF ConfigTyped
  <2> QED BY <2>1, <2>2, <2>3
<1> QED BY <1>1, <1>2 DEF ConfigTyped

\* load_from_file leaves a configuration that reads back, accepted or not.
LEMMA LoadedTyped ==
  ASSUME NEW c, ConfigTyped(c), NEW doc
  PROVE  /\ ConfigTyped(Loaded(c, doc).config)
         /\ Loaded(c, doc).ok => Valid(Loaded(c, doc).config)
<1>1. CASE Readable(doc)
  <2>1. Loaded(c, doc).config = Merged(c, doc) /\ Loaded(c, doc).ok = Valid(Merged(c, doc))
    BY <1>1 DEF Loaded
  <2>2. ConfigTyped(Merged(c, doc))
    BY <1>1, MergedTyped
  <2> QED BY ONLY <2>1, <2>2
<1>2. CASE ~Readable(doc)
  <2>1. Loaded(c, doc).config = c /\ Loaded(c, doc).ok = FALSE
    BY <1>2 DEF Loaded
  <2> QED BY <2>1
<1> QED BY <1>1, <1>2

\* A valid configuration, exported and read by a manager that knows only the
\* defaults, is accepted and exports the same text (write_config_yaml).
LEMMA ExportReadsBack ==
  ASSUME NEW c, ConfigTyped(c), Valid(c)
  PROVE  /\ Loaded(DefaultConfig, Exported(c)).ok
         /\ Exported(Loaded(DefaultConfig, Exported(c)).config) = Exported(c)
<1> DEFINE doc == Exported(c)
           m == Merged(DefaultConfig, doc)
<1>1. DOMAIN doc = ConfigKeys /\ \A k \in ConfigKeys : doc[k] = Printed(KeyKind[k], c[k])
  BY DEF Exported
<1>2. /\ \A k \in ConfigKeys : Parses(KeyKind[k], doc[k])
      /\ \A k \in ConfigKeys : KeyKind[k] # "double" => Parsed(KeyKind[k], doc[k]) = c[k]
      /\ \A k \in ConfigKeys : Printed(KeyKind[k], Parsed(KeyKind[k], doc[k])) = doc[k]
  BY <1>1 DEF ConfigTyped, ReadsBack
<1>3. doc = [k \in ConfigKeys |-> doc[k]]
  BY DEF Exported
<1> HIDE DEF doc
<1>4. doc # Unreadable
  <2>1. DOMAIN Unreadable = {"unreadable"}
    BY DEF Unreadable
  <2>2. "account_id" \in DOMAIN doc
    BY <1>1, Keys
  <2> QED BY <2>1, <2>2
<1>5. Readable(doc)
  <2>1. \A k \in ConfigKeys : k \notin DOMAIN Alias /\ k \in DocumentKeys
    BY Aliases DEF DocumentKeys
  <2> QED BY <1>1, <1>2, <1>4, <2>1 DEF Readable
<1>6. \A k \in ConfigKeys : m[k] = Parsed(KeyKind[k], doc[k])
  BY <1>1 DEF Merged
<1>7. Loaded(DefaultConfig, doc).config = m /\ Loaded(DefaultConfig, doc).ok = Valid(m)
  BY <1>5 DEF Loaded
<1> HIDE DEF m
<1>8. \A k \in ConfigKeys \ {"signal_threshold"} : m[k] = c[k]
  <2>1. \A k \in ConfigKeys \ {"signal_threshold"} : KeyKind[k] # "double"
    BY Keys
  <2> QED BY <1>2, <1>6, <2>1
<1>9. Valid(m)
  <2>1. /\ m["account_id"] = c["account_id"] /\ m["shm_name"] = c["shm_name"]
        /\ m["active_strategy"] = c["active_strategy"] /\ m["market_data"] = c["market_data"]
        /\ m["split_strategy"] = c["split_strategy"] /\ m["price_fallback"] = c["price_fallback"]
        /\ m["poll_batch_size"] = c["poll_batch_size"]
        /\ m["max_child_count"] = c["max_child_count"]
        /\ m["business_log"] = c["business_log"] /\ m["queue_capacity"] = c["queue_capacity"]
        /\ m["trading_day"] = c["trading_day"] /\ m["output_dir"] = c["output_dir"]
        /\ m["snapshot_shm_name"] = c["snapshot_shm_name"]
        /\ m["flush_interval_ms"] = c["flush_interval_ms"]
    BY <1>8, Keys
  <2> QED BY <2>1 DEF Valid
<1>10. Exported(m) = doc
  <2>1. Exported(m) = [k \in ConfigKeys |-> Printed(KeyKind[k], m[k])]
    BY DEF Exported
  <2>2. \A k \in ConfigKeys : Printed(KeyKind[k], m[k]) = doc[k]
    BY <1>2, <1>6
  <2> QED BY <1>3, <2>1, <2>2
<1>11. Loaded(DefaultConfig, doc).ok /\ Exported(Loaded(DefaultConfig, doc).config) = doc
  BY ONLY <1>7, <1>9, <1>10
<1> QED BY <1>11 DEF doc

-----------------------------------------------------------------------------
(* The command line.                                                       *)

\* A set of naturals has a least element.
LEMMA LeastNatural ==
  ASSUME NEW S, S \subseteq Nat, S # {}
  PROVE  \E x \in S : \A y \in S : x <= y
<1> DEFINE less == OpToRel(<, Nat)
<1>1. IsWellFoundedOn(less, Nat)
  BY NatLessThanWellFounded
<1>2. \A x, y \in Nat : x < y => <<x, y>> \in less
  BY DEF OpToRel
<1> HIDE DEF less
<1>3. PICK x \in S : \A y \in S : ~(<<y, x>> \in less)
  BY <1>1, WFMin
<1>4. ASSUME NEW y \in S PROVE x <= y
  <2>1. x \in Nat /\ y \in Nat /\ ~(y < x)
    BY <1>2, <1>3
  <2> QED BY <2>1
<1> QED BY <1>3, <1>4

\* f gives what the first m options leave behind, one after the other.
Applies(c, options, f, m) ==
  f = [n \in 0 .. m |-> IF n = 0 THEN [config |-> c, ok |-> TRUE]
                        ELSE OptionApplied(f[n - 1], options[n])]

\* The options can be applied one after the other, however many there are.
LEMMA AppliesOnAndOn ==
  ASSUME NEW c, NEW options, NEW l \in Nat
  PROVE  \E f : Applies(c, options, f, l)
<1> DEFINE Bad == {m \in Nat : ~\E f : Applies(c, options, f, m)}
<1> SUFFICES ASSUME Bad # {} PROVE FALSE
  OBVIOUS
<1>1. PICK m \in Bad : \A y \in Bad : m <= y
  <2>1. Bad \subseteq Nat
    OBVIOUS
  <2> HIDE DEF Bad
  <2> QED BY <2>1, LeastNatural
<1>2. m \in Nat /\ ~\E f : Applies(c, options, f, m)
  BY <1>1
<1>3. CASE m = 0
  <2> DEFINE first == [config |-> c, ok |-> TRUE]
             f == [n \in 0 .. 0 |-> first]
  <2>1. \A n \in 0 .. 0 : n = 0
    OBVIOUS
  <2>2. f = [n \in 0 .. 0 |-> IF n = 0 THEN first ELSE OptionApplied(f[n - 1], options[n])]
    <3> HIDE DEF first
    <3> QED BY <2>1
  <2>3. Applies(c, options, f, 0)
    BY <2>2 DEF Applies
  <2> QED BY <1>2, <1>3, <2>3
<1>4. CASE m # 0
  <2>1. m - 1 \in Nat /\ m - 1 \notin Bad
    BY <1>1, <1>2, <1>4
  <2>2. PICK f : Applies(c, options, f, m - 1)
    BY <2>1
  <2> DEFINE first == [config |-> c, ok |-> TRUE]
             g == [n \in 0 .. m |-> IF n = m THEN OptionApplied(f[m - 1], options[m]) ELSE f[n]]
  <2>3. \A n \in 0 .. m - 1 : f[n] = IF n = 0 THEN first ELSE OptionApplied(f[n - 1], options[n])
    BY <2>2 DEF Applies
  <2> HIDE DEF first
  <2>4. ASSUME NEW n \in 0 .. m
        PROVE  g[n] = IF n = 0 THEN first ELSE OptionApplied(g[n - 1], options[n])
    <3>1. CASE n = m
      <4>1. g[n] = OptionApplied(f[m - 1], options[m])
        BY <3>1
      <4>2. n # 0 /\ n - 1 = m - 1 /\ m - 1 \in 0 .. m /\ m - 1 # m
        BY <1>2, <1>4, <3>1
      <4>3. g[n - 1] = f[m - 1]
        BY <4>2
      <4> QED BY <3>1, <4>1, <4>2, <4>3
    <3>2. CASE n # m
      <4>1. n \in 0 .. m - 1 /\ g[n] = f[n]
        BY <1>2, <3>2
      <4>2. CASE n = 0
        BY <2>3, <4>1, <4>2
      <4>3. CASE n # 0
        <5>1. n - 1 \in 0 .. m /\ n - 1 # m
          BY <1>2, <4>1, <4>3
        <5>2. g[n - 1] = f[n - 1]
          BY <5>1
        <5>3. f[n] = OptionApplied(f[n - 1], options[n])
          BY <2>3, <4>1, <4>3
        <5> QED BY <4>1, <4>3, <5>2, <5>3
      <4> QED BY <4>2, <4>3
    <3> QED BY <3>1, <3>2
  <2>5. g = [n \in 0 .. m |-> g[n]]
    OBVIOUS
  <2> HIDE DEF g
  <2>6. g = [n \in 0 .. m |-> IF n = 0 THEN first ELSE OptionApplied(g[n - 1], options[n])]
    BY <2>4, <2>5
  <2>7. Applies(c, options, g, m)
    BY <2>6 DEF Applies, first
  <2> QED BY <1>2, <2>7
<1> QED BY <1>3, <1>4

\* parse_command_line leaves what the last option left behind.
LEMMA OptionsAppliedIs ==
  ASSUME NEW c, NEW options, Len(options) \in Nat
  PROVE  \E f : Applies(c, options, f, Len(options)) /\ OptionsApplied(c, options) = f[Len(options)]
<1> DEFINE g == CHOOSE f : Applies(c, options, f, Len(options))
<1>1. Applies(c, options, g, Len(options))
  <2>1. \E f : Applies(c, options, f, Len(options))
    BY AppliesOnAndOn
  <2> QED BY <2>1
<1>2. OptionsApplied(c, options) = g[Len(options)]
  BY DEF OptionsApplied, Applies
<1> QED BY <1>1, <1>2

\* A result of the options so far: a configuration with every key, and whether
\* all of them were accepted.
Resultant(r) ==
  /\ r = [config |-> r.config, ok |-> r.ok]
  /\ r.config = [k \in ConfigKeys |-> r.config[k]]

\* A file and an option leave a result.
LEMMA OptionLeavesResult ==
  ASSUME NEW r, Resultant(r), NEW o
  PROVE  Resultant(OptionApplied(r, o))
<1>1. r = [config |-> r.config, ok |-> r.ok] /\ r.config = [k \in ConfigKeys |-> r.config[k]]
  BY DEF Resultant
<1> DEFINE x == OptionApplied(r, o)
<1>2. CASE ~r.ok
  BY <1>2 DEF OptionApplied
<1>3. CASE r.ok /\ o.name = "--config"
  <2>1. x = Loaded(r.config, o.value)
    BY <1>3 DEF OptionApplied
  <2>2. CASE Readable(o.value)
    <3> DEFINE m == Merged(r.config, o.value)
    <3>1. x = [config |-> m, ok |-> Valid(m)]
      BY <2>1, <2>2 DEF Loaded
    <3>2. m = [k \in ConfigKeys |-> m[k]]
      BY DEF Merged
    <3> HIDE DEF m, x
    <3>3. x.config = m /\ x.ok = Valid(m)
      BY ONLY <3>1
    <3>4. Resultant(x)
      BY ONLY <3>1, <3>2, <3>3 DEF Resultant
    <3> QED BY <3>4 DEF x
  <2>3. CASE ~Readable(o.value)
    <3>1. x = [config |-> r.config, ok |-> FALSE]
      BY <2>1, <2>3 DEF Loaded
    <3> HIDE DEF x
    <3>2. Resultant(x)
      BY ONLY <1>1, <3>1 DEF Resultant
    <3> QED BY <3>2 DEF x
  <2> QED BY <2>2, <2>3
<1>4. CASE r.ok /\ o.name # "--config" /\ o.name \notin ConfigKeys
  BY <1>4 DEF OptionApplied
<1>5. CASE /\ r.ok /\ o.name # "--config" /\ o.name \in ConfigKeys
           /\ o.value = "missing" \/ ~Parses(KeyKind[o.name], o.value)
  <2>1. x = [r EXCEPT !.ok = FALSE]
    BY <1>5 DEF OptionApplied
  <2>2. x = [config |-> r.config, ok |-> FALSE]
    BY <1>1, <2>1
  <2> HIDE DEF x
  <2>3. Resultant(x)
    BY ONLY <1>1, <2>2 DEF Resultant
  <2> QED BY <2>3 DEF x
<1>6. CASE /\ r.ok /\ o.name # "--config" /\ o.name \in ConfigKeys
           /\ ~(o.value = "missing" \/ ~Parses(KeyKind[o.name], o.value))
  <2> DEFINE d == [r.config EXCEPT ![o.name] = Parsed(KeyKind[o.name], o.value)]
  <2>1. x = [r EXCEPT !.config[o.name] = Parsed(KeyKind[o.name], o.value)]
    BY <1>6 DEF OptionApplied
  <2>2. x = [config |-> d, ok |-> r.ok]
    BY <1>1, <2>1
  <2>3. d = [k \in ConfigKeys |-> d[k]]
    BY <1>1
  <2> HIDE DEF d, x
  <2>4. Resultant(x)
    BY ONLY <2>2, <2>3 DEF Resultant
  <2> QED BY <2>4 DEF x
<1> QED BY <1>2, <1>3, <1>4, <1>5, <1>6

\* An accepted option is in force, and leaves the other keys alone unless it
\* loads a file.
LEMMA OptionInForce ==
  ASSUME NEW r, Resultant(r), NEW o, OptionApplied(r, o).ok
  PROVE  /\ r.ok
         /\ o.name \in ConfigKeys => OptionApplied(r, o).config[o.name] = Parsed(KeyKind[o.name], o.value)
         /\ o.name # "--config" =>
              \A k \in ConfigKeys : k # o.name => OptionApplied(r, o).config[k] = r.config[k]
<1>1. r = [config |-> r.config, ok |-> r.ok] /\ r.config = [k \in ConfigKeys |-> r.config[k]]
  BY DEF Resultant
<1> DEFINE x == OptionApplied(r, o)
<1>2. r.ok
  BY DEF OptionApplied
<1>3. "--config" \notin ConfigKeys
  BY Keys
<1>4. CASE o.name = "--config"
  BY <1>2, <1>3, <1>4
<1>5. CASE o.name # "--config" /\ o.name \notin ConfigKeys
  <2>1. x = r
    BY <1>2, <1>5 DEF OptionApplied
  <2> HIDE DEF x
  <2>2. /\ r.ok
        /\ o.name \in ConfigKeys => x.config[o.name] = Parsed(KeyKind[o.name], o.value)
        /\ o.name # "--config" => \A k \in ConfigKeys : k # o.name => x.config[k] = r.config[k]
    BY ONLY <1>2, <1>5, <2>1
  <2> QED BY <2>2 DEF x
<1>6. CASE o.name # "--config" /\ o.name \in ConfigKeys
  <2>1. ~(o.value = "missing" \/ ~Parses(KeyKind[o.name], o.value))
    <3> SUFFICES ASSUME o.value = "missing" \/ ~Parses(KeyKind[o.name], o.value) PROVE FALSE
      OBVIOUS
    <3>1. x = [r EXCEPT !.ok = FALSE]
      BY <1>2, <1>6 DEF OptionApplied
    <3>2. x.ok
      OBVIOUS
    <3> HIDE DEF x
    <3> QED BY ONLY <1>1, <3>1, <3>2
  <2> DEFINE v == Parsed(KeyKind[o.name], o.value)
  <2>2. x = [r EXCEPT !.config[o.name] = v]
    BY <1>2, <1>6, <2>1 DEF OptionApplied
  <2> HIDE DEF x, v
  <2>3. x.config[o.name] = v /\ \A k \in ConfigKeys : k # o.name => x.config[k] = r.config[k]
    BY ONLY <1>1, <1>6, <2>2
  <2> QED BY <1>2, <2>3 DEF x, v
<1> QED BY <1>4, <1>5, <1>6

\* All that the options leave behind on the way are results.
LEMMA ResultsAlongTheWay ==
  ASSUME NEW c, c = [k \in ConfigKeys |-> c[k]], NEW options, NEW l \in Nat, NEW f,
         Applies(c, options, f, l)
  PROVE  \A n \in 0 .. l : Resultant(f[n])
<1> DEFINE Bad == {n \in 0 .. l : ~Resultant(f[n])}
<1> SUFFICES ASSUME Bad # {} PROVE FALSE
  OBVIOUS
<1>1. PICK m \in Bad : \A y \in Bad : m <= y
  <2>1. Bad \subseteq Nat
    OBVIOUS
  <2> HIDE DEF Bad
  <2> QED BY <2>1, LeastNatural
<1>2. m \in 0 .. l /\ ~Resultant(f[m])
  BY <1>1
<1>3. CASE m = 0
  <2>1. f[0] = [config |-> c, ok |-> TRUE]
    BY <1>2, <1>3 DEF Applies
  <2>2. Resultant(f[0])
    BY <2>1 DEF Resultant
  <2> QED BY <1>2, <1>3, <2>2
<1>4. CASE m # 0
  <2>1. m - 1 \in 0 .. l /\ m - 1 \notin Bad
    BY <1>1, <1>2, <1>4
  <2>2. Resultant(f[m - 1])
    BY <2>1
  <2>3. f[m] = OptionApplied(f[m - 1], options[m])
    BY <1>2, <1>4 DEF Applies
  <2>4. Resultant(OptionApplied(f[m - 1], options[m]))
    BY ONLY <2>2, OptionLeavesResult
  <2> QED BY ONLY <1>2, <2>3, <2>4
<1> QED BY <1>3, <1>4

\* An option that no later one overrides is in force as long as the options
\* are accepted.
LEMMA StaysInForce ==
  ASSUME NEW c, c = [k \in ConfigKeys |-> c[k]], NEW options, NEW l \in Nat, NEW f,
         Applies(c, options, f, l), NEW i \in 1 .. l, options[i].name \in ConfigKeys,
         \A j \in i + 1 .. l : options[j].name \notin {options[i].name, "--config"}
  PROVE  f[l].ok => f[l].config[options[i].name] = Parsed(KeyKind[options[i].name], options[i].value)
<1> DEFINE k == options[i].name
           v == Parsed(KeyKind[options[i].name], options[i].value)
           Bad == {n \in i .. l : ~(f[n].ok => f[n].config[k] = v)}
<1>0. k = options[i].name /\ v = Parsed(KeyKind[options[i].name], options[i].value) /\ k \in ConfigKeys
  OBVIOUS
<1>1. SUFFICES ASSUME Bad # {} PROVE FALSE
  <2>1. l \in i .. l
    OBVIOUS
  <2>2. l \notin Bad => (f[l].ok => f[l].config[k] = v)
    BY <2>1
  <2> HIDE DEF Bad
  <2> QED BY <2>2
<1>2. PICK m \in Bad : \A y \in Bad : m <= y
  <2>1. Bad \subseteq Nat
    OBVIOUS
  <2> HIDE DEF Bad
  <2> QED BY <1>1, <2>1, LeastNatural
<1>3. m \in i .. l /\ f[m].ok /\ f[m].config[k] # v
  BY <1>2
<1>4. m \in 1 .. l /\ m - 1 \in 0 .. l
  BY <1>3
<1>5. f[m] = OptionApplied(f[m - 1], options[m])
  <2>1. m \in 0 .. l /\ m # 0
    BY <1>4
  <2>2. f = [n \in 0 .. l |-> IF n = 0 THEN [config |-> c, ok |-> TRUE] ELSE OptionApplied(f[n - 1], options[n])]
    BY DEF Applies
  <2> QED BY ONLY <2>1, <2>2
<1>6. Resultant(f[m - 1])
  BY <1>4, ResultsAlongTheWay
<1> DEFINE o == options[m]
           r == f[m - 1]
<1>7. o = options[m] /\ r = f[m - 1]
  OBVIOUS
<1>n. m # i => m - 1 \notin Bad
  BY <1>2, <1>3
<1>p. m # i => (f[m - 1].ok => f[m - 1].config[k] = v)
  <2>1. m # i => m - 1 \in i .. l
    BY <1>3
  <2> QED BY <1>n, <2>1
<1> HIDE DEF k, v, Bad, o, r
<1>8. OptionApplied(r, o).ok /\ OptionApplied(r, o).config[k] # v /\ Resultant(r)
  BY ONLY <1>3, <1>5, <1>6, <1>7
<1>9. /\ r.ok
      /\ o.name \in ConfigKeys => OptionApplied(r, o).config[o.name] = Parsed(KeyKind[o.name], o.value)
      /\ o.name # "--config" =>
           \A q \in ConfigKeys : q # o.name => OptionApplied(r, o).config[q] = r.config[q]
  BY ONLY <1>8, OptionInForce
<1>10. CASE m = i
  BY ONLY <1>0, <1>7, <1>8, <1>9, <1>10
<1>11. CASE m # i
  <2>1. m \in i + 1 .. l
    BY <1>3, <1>11
  <2>2. o.name # k /\ o.name # "--config"
    BY <1>0, <1>7, <2>1
  <2>3. OptionApplied(r, o).config[k] = r.config[k]
    BY ONLY <1>0, <1>9, <2>2
  <2>4. r.config[k] = v
    BY ONLY <1>7, <1>9, <1>11, <1>p
  <2> QED BY ONLY <1>8, <2>3, <2>4
<1> QED BY <1>10, <1>11

\* A value that key k has after options: the one it had, one that an option gives
\* it, or one that may come from a file.
Given(v, c, options, k) ==
  \/ v = c[k]
  \/ \E i \in DOMAIN options :
       \/ options[i].name = "--config"
       \/ options[i].name = k /\ v = Parsed(KeyKind[k], options[i].value)

\* Accepted or refused, an option other than --config leaves a key alone or with
\* the value it gives.
LEMMA OptionGives ==
  ASSUME NEW r, Resultant(r), NEW o, o.name # "--config", NEW k \in ConfigKeys
  PROVE  \/ OptionApplied(r, o).config[k] = r.config[k]
         \/ o.name = k /\ OptionApplied(r, o).config[k] = Parsed(KeyKind[k], o.value)
<1> DEFINE x == OptionApplied(r, o)
<1>1. r = [config |-> r.config, ok |-> r.ok] /\ r.config = [q \in ConfigKeys |-> r.config[q]]
  BY DEF Resultant
<1>2. \/ x = r \/ x = [r EXCEPT !.ok = FALSE]
      \/ o.name \in ConfigKeys /\ x = [r EXCEPT !.config[o.name] = Parsed(KeyKind[o.name], o.value)]
  BY DEF OptionApplied
<1>x. x = OptionApplied(r, o)
  OBVIOUS
<1> HIDE DEF x
<1>3. CASE x = r
  BY ONLY <1>3, <1>x
<1>4. CASE x = [r EXCEPT !.ok = FALSE]
  <2>1. x.config = r.config
    BY ONLY <1>1, <1>4
  <2> QED BY ONLY <2>1, <1>x
<1>5. CASE o.name \in ConfigKeys /\ x = [r EXCEPT !.config[o.name] = Parsed(KeyKind[o.name], o.value)]
  <2> DEFINE v == Parsed(KeyKind[o.name], o.value)
  <2>1. x = [r EXCEPT !.config[o.name] = v]
    BY <1>5
  <2>v. v = Parsed(KeyKind[o.name], o.value)
    OBVIOUS
  <2> HIDE DEF v
  <2>2. x.config[k] = IF k = o.name THEN v ELSE r.config[k]
    BY ONLY <1>1, <1>5, <2>1, k \in ConfigKeys
  <2>3. CASE k = o.name
    BY ONLY <2>2, <2>3, <2>v, <1>x
  <2>4. CASE k # o.name
    BY ONLY <2>2, <2>4, <1>x
  <2> QED BY <2>3, <2>4
<1> QED BY <1>2, <1>3, <1>4, <1>5

\* However many options are applied, every key has a value it was given.
LEMMA OptionsGive ==
  ASSUME NEW c, c = [k \in ConfigKeys |-> c[k]], NEW options, NEW l \in Nat,
         DOMAIN options = 1 .. l, NEW f, Applies(c, options, f, l), NEW k \in ConfigKeys
  PROVE  Given(f[l].config[k], c, options, k)
<1> DEFINE Bad == {n \in 0 .. l : ~Given(f[n].config[k], c, options, k)}
<1>0. SUFFICES ASSUME Bad # {} PROVE FALSE
  <2>1. l \in 0 .. l
    OBVIOUS
  <2> QED BY <2>1
<1>1. PICK m \in Bad : \A y \in Bad : m <= y
  <2>1. Bad \subseteq Nat
    OBVIOUS
  <2> HIDE DEF Bad
  <2> QED BY <1>0, <2>1, LeastNatural
<1>2. m \in 0 .. l /\ ~Given(f[m].config[k], c, options, k)
  BY <1>1
<1>3. CASE m = 0
  <2>1. f[0] = [config |-> c, ok |-> TRUE]
    BY <1>2, <1>3 DEF Applies
  <2>2. f[0].config[k] = c[k]
    BY <2>1
  <2> QED BY <1>2, <1>3, <2>2 DEF Given
<1>4. CASE m # 0
  <2>a. m \in Nat /\ m - 1 \in 0 .. l /\ m \in DOMAIN options /\ ~(m <= m - 1)
    BY <1>2, <1>4
  <2>b. m - 1 \notin Bad
    <3> HIDE DEF Bad
    <3> QED BY <1>1, <2>a
  <2>1. m - 1 \in 0 .. l /\ m - 1 \notin Bad /\ m \in DOMAIN options
    BY <2>a, <2>b
  <2>2. Given(f[m - 1].config[k], c, options, k)
    BY <2>1
  <2>3. f[m] = OptionApplied(f[m - 1], options[m])
    BY <1>2, <1>4 DEF Applies
  <2>4. Resultant(f[m - 1])
    BY <2>1, ResultsAlongTheWay
  <2> DEFINE o == options[m]
             r == f[m - 1]
  <2>5. o = options[m] /\ r = f[m - 1]
    OBVIOUS
  <2> HIDE DEF Bad, o, r
  <2>6. CASE o.name = "--config"
    BY ONLY <1>2, <2>1, <2>5, <2>6 DEF Given
  <2>7. CASE o.name # "--config"
    <3>1. \/ OptionApplied(r, o).config[k] = r.config[k]
          \/ o.name = k /\ OptionApplied(r, o).config[k] = Parsed(KeyKind[k], o.value)
      <4>1. Resultant(r)
        BY ONLY <2>4, <2>5
      <4> QED BY ONLY <2>7, <4>1, k \in ConfigKeys, OptionGives
    <3>2. CASE OptionApplied(r, o).config[k] = r.config[k]
      BY ONLY <1>2, <2>2, <2>3, <2>5, <3>2
    <3>3. CASE o.name = k /\ OptionApplied(r, o).config[k] = Parsed(KeyKind[k], o.value)
      BY ONLY <1>2, <2>1, <2>3, <2>5, <3>3 DEF Given
    <3> QED BY <3>1, <3>2, <3>3
  <2> QED BY <2>6, <2>7
<1> QED BY <1>3, <1>4

\* What parse_command_line accepts is in force, and whatever it leaves was given.
LEMMA CommandLineInForce ==
  ASSUME NEW c, c = [k \in ConfigKeys |-> c[k]], NEW options \in CommandLines
  PROVE  /\ CommandLine(c, options).ok =>
              \A i \in DOMAIN options :
                options[i].name \in ConfigKeys /\
                (\A j \in i + 1 .. Len(options) : options[j].name \notin {options[i].name, "--config"}) =>
                  CommandLine(c, options).config[options[i].name] =
                    Parsed(KeyKind[options[i].name], options[i].value)
         /\ \A k \in ConfigKeys : Given(CommandLine(c, options).config[k], c, options, k)
<1> DEFINE l == Len(options)
           r == OptionsApplied(c, options)
           x == CommandLine(c, options)
<1>1. l \in Nat /\ DOMAIN options = 1 .. l
  BY CommandLinesAssumption
<1>2. PICK f : Applies(c, options, f, l) /\ r = f[l]
  BY <1>1, OptionsAppliedIs
<1>3. Resultant(r)
  <2>1. l \in 0 .. l
    BY <1>1
  <2>2. \A n \in 0 .. l : Resultant(f[n])
    BY <1>1, <1>2, ResultsAlongTheWay
  <2>3. Resultant(f[l])
    BY ONLY <2>1, <2>2
  <2> QED BY ONLY <1>2, <2>3
<1>4. x = [r EXCEPT !.ok = @ /\ Valid(r.config)]
  BY DEF CommandLine
<1>l. l = Len(options) /\ x = CommandLine(c, options)
  OBVIOUS
<1> HIDE DEF l, r, x
<1>5. r = [config |-> r.config, ok |-> r.ok]
  BY <1>3 DEF Resultant
<1>6. x.config = r.config /\ x.ok = (r.ok /\ Valid(r.config))
  BY ONLY <1>4, <1>5
<1>8. ASSUME x.ok, NEW i \in 1 .. l, options[i].name \in ConfigKeys,
             \A j \in i + 1 .. l : options[j].name \notin {options[i].name, "--config"}
      PROVE  x.config[options[i].name] = Parsed(KeyKind[options[i].name], options[i].value)
  <2>1. f[l].ok => f[l].config[options[i].name] = Parsed(KeyKind[options[i].name], options[i].value)
    BY ONLY <1>1, <1>2, <1>8, c = [k \in ConfigKeys |-> c[k]], StaysInForce
  <2>2. r.ok
    BY ONLY <1>6, <1>8
  <2> QED BY ONLY <1>2, <1>6, <2>1, <2>2
<1>9. ASSUME NEW k \in ConfigKeys PROVE Given(x.config[k], c, options, k)
  <2>1. Given(f[l].config[k], c, options, k)
    BY ONLY <1>1, <1>2, c = [q \in ConfigKeys |-> c[q]], k \in ConfigKeys, OptionsGive
  <2> QED BY ONLY <1>2, <1>6, <2>1
<1> QED BY ONLY <1>1, <1>8, <1>9, <1>l

-----------------------------------------------------------------------------
(* The inductive invariant.                                                *)

Cleaning == {"cleanup_first", "cleanup_failed", "cleanup_last"}

Places == Looping \cup Cleaning \cup {"idle", "config", "build", "failed", "enter", "destroyed"}

\* Where the owner is says which components exist, and whether the
\* configuration is one they may work with.
Placed(p, n, b, c) ==
  /\ p \in Places /\ n \in 0 .. 10 /\ b \subseteq All /\ Closed(b)
  /\ p = "build" => n \in 1 .. 10 /\ b = Before(n) /\ Valid(c)
  /\ p \in Cleaning => n \in 1 .. 10 /\ TornTo(b, n)
  /\ p \in {"config", "failed", "destroyed"} => b = {}
  /\ p \in Looping \cup {"enter"} => b = All /\ Valid(c)
  /\ p = "idle" => b = {} \/ (b = All /\ Valid(c))

\* Ready is only said of a whole service, or of one that is destroyed unused.
ReadyMeans(s, p, b) == s = "Ready" => p = "cleanup_last" \/ (p = "idle" /\ b = All)

\* Once success is reported nothing is recorded any more.
SuccessMeans(x, p, j, m) ==
  x = "0" => /\ p \in {"idle", "cleanup_last", "destroyed"}
             /\ \A i \in m + 1 .. Len(j) : ~Serious(j[i])

Flags ==
  /\ state \in ServiceStates /\ reason \in 0 .. 3
  /\ running \in BOOLEAN /\ active \in BOOLEAN
  /\ control \in [pc : {"idle", "store", "flag"}, read : ServiceStates]
  /\ rc \in {"none", "0", "-1"} /\ exit \in {"none", "0", "1"}

Whole ==
  /\ Flags
  /\ Placed(pc, step, built, config)
  /\ ReadyMeans(state, pc, built)
  /\ SuccessMeans(exit, pc, journal, mark)
  /\ LogKept(ring, latch, journal, mark)
  /\ ConfigTyped(config)

\* The names of the places are different.
LEMMA PlaceNames ==
  /\ Looping = {"arm", "check", "iterate", "poll", "leave", "after", "result"}
  /\ Cleaning = {"cleanup_first", "cleanup_failed", "cleanup_last"}
  /\ \A p : p \in Looping => p \notin Cleaning /\ p \notin {"idle", "config", "build", "failed", "enter", "destroyed"}
BY DEF Looping, Cleaning

\* The service starts with nothing built and nothing recorded.
LEMMA StartsWhole == Init => Whole
<1> SUFFICES ASSUME Init PROVE Whole
  OBVIOUS
<1>1. Flags
  <2>1. state \in ServiceStates /\ "Created" \in ServiceStates
    BY DEF Init, ServiceStates
  <2>2. reason \in 0 .. 3
    BY Severities DEF Init
  <2>3. control \in [pc : {"idle", "store", "flag"}, read : ServiceStates]
    BY <2>1 DEF Init
  <2> QED BY <2>1, <2>2, <2>3 DEF Init, Flags
<1>2. Placed(pc, step, built, config)
  <2>1. pc = "idle" /\ step = 0 /\ built = {}
    BY DEF Init
  <2> QED BY ONLY <2>1, PlaceNames, AllClosed DEF Placed, Places
<1>3. ReadyMeans(state, pc, built) /\ SuccessMeans(exit, pc, journal, mark)
  BY DEF Init, ReadyMeans, SuccessMeans
<1>4. LogKept(ring, latch, journal, mark)
  <2>1. /\ ring = [slots |-> [i \in 0 .. HistoryCapacity - 1 |-> NoError], pos |-> 0, size |-> 0]
        /\ journal = <<>> /\ latch = 0 /\ mark = 0
    BY Severities DEF Init
  <2>2. HistoryCapacity \in Nat \ {0}
    BY BoundsAssumption
  <2>3. journal \in Seq(Errors) /\ Len(journal) = 0
    BY <2>1
  <2>4. /\ ring.slots = [i \in 0 .. HistoryCapacity - 1 |-> NoError] /\ ring.pos = 0 /\ ring.size = 0
        /\ ring = [slots |-> ring.slots, pos |-> ring.pos, size |-> ring.size]
    BY <2>1
  <2>5. HistoryKept(ring, journal)
    BY ONLY <2>2, <2>3, <2>4 DEF HistoryKept
  <2>6. LatchKept(latch, journal, mark)
    BY ONLY <2>1, <2>3 DEF LatchKept
  <2> QED BY <2>3, <2>5, <2>6 DEF LogKept
<1>5. ConfigTyped(config)
  BY DefaultTyped DEF Init
<1> QED BY <1>1, <1>2, <1>3, <1>4, <1>5 DEF Whole

\* u is s with e at its end.
Lengthened(u, s, e, S) ==
  /\ u \in Seq(S) /\ Len(u) = Len(s) + 1 /\ u[Len(s) + 1] = e
  /\ \A i \in 1 .. Len(s) : u[i] = s[i]

\* What Append does.
LEMMA AppendLengthens ==
  ASSUME NEW S, NEW s \in Seq(S), NEW e \in S
  PROVE  Lengthened(Append(s, e), s, e, S)
BY DEF Lengthened

\* One error after another.
LEMMA TwoErrors ==
  ASSUME NEW S, NEW a \in S, NEW e \in S
  PROVE  Append(<<a>>, e) = <<a, e>>
<1> DEFINE s == <<a>>
           t == <<a, e>>
           u == Append(s, e)
<1>1. /\ s \in Seq(S) /\ Len(s) = 1 /\ s[1] = a
      /\ t \in Seq(S) /\ Len(t) = 2 /\ t[1] = a /\ t[2] = e
  OBVIOUS
<1> HIDE DEF s, t
<1>2. u \in Seq(S) /\ Len(u) = Len(s) + 1 /\ u[1] = s[1] /\ u[Len(s) + 1] = e
  <2>1. s \in Seq(S) /\ e \in S
    BY <1>1
  <2>2. Lengthened(u, s, e, S)
    BY ONLY <2>1, AppendLengthens
  <2>3. 1 \in 1 .. Len(s)
    BY ONLY <1>1
  <2> HIDE DEF u
  <2> QED BY ONLY <2>2, <2>3 DEF Lengthened
<1>3. Len(s) + 1 = 2
  BY <1>1
<1> HIDE DEF u
<1>4. u = t
  <2>1. \A i \in 1 .. 2 : i = 1 \/ i = 2
    OBVIOUS
  <2>2. \A i \in 1 .. 2 : u[i] = t[i]
    BY <1>1, <1>2, <1>3, <2>1
  <2>3. u = [i \in 1 .. 2 |-> u[i]] /\ t = [i \in 1 .. 2 |-> t[i]]
    BY <1>1, <1>2
  <2> QED BY <2>2, <2>3
<1> QED BY <1>4 DEF u, s, t

\* raise_service_error keeps the log, alone or after one error of the part
\* that failed, and is itself to blame.
LEMMA RaiseKeeps ==
  ASSUME LogKept(ring, latch, journal, mark), reason \in 0 .. 3, NEW before, NEW code, Error("core", code) \in Errors,
         before = <<>> \/ \E a \in Errors : before = <<a>>, Raise(before, code)
  PROVE  LogKept(ring', latch', journal', mark') /\ reason' \in 0 .. 3
         /\ (Serious(Error("core", code)) => Blamed(journal'))
<1> DEFINE e == Error("core", code)
           es == Append(before, e)
<1>1. e \in Errors
  OBVIOUS
<1>2. Record(es) /\ reason' = Higher(reason, Classify(e))
  BY DEF Raise
<1>3. reason' \in 0 .. 3
  <2>1. Classify(e) \in 0 .. 3
    BY Severities
  <2> HIDE DEF e
  <2> QED BY <1>2, <2>1 DEF Higher
<1>4. CASE before = <<>>
  <2>1. es = <<e>> /\ es[Len(es)] = e
    BY <1>4
  <2>e. e = Error("core", code)
    OBVIOUS
  <2> HIDE DEF e, es
  <2>2. LogKept(ring', latch', journal', mark') /\ (Serious(es[Len(es)]) => Blamed(journal'))
    BY ONLY LogKept(ring, latch, journal, mark), <1>1, <1>2, <2>1, RecordKeeps
  <2> QED BY ONLY <1>3, <2>1, <2>2, <2>e
<1>5. CASE \E a \in Errors : before = <<a>>
  <2>1. PICK a \in Errors : before = <<a>>
    BY <1>5
  <2>e. e = Error("core", code)
    OBVIOUS
  <2> HIDE DEF e
  <2>2. es = <<a, e>>
    BY <1>1, <2>1, TwoErrors
  <2> HIDE DEF es
  <2>4. es[Len(es)] = e
    BY ONLY <2>2
  <2>3. LogKept(ring', latch', journal', mark') /\ (Serious(es[Len(es)]) => Blamed(journal'))
    BY ONLY LogKept(ring, latch, journal, mark), a \in Errors, <1>1, <1>2, <2>2, RecordKeeps
  <2> QED BY ONLY <1>3, <2>3, <2>4, <2>e
<1> QED BY <1>4, <1>5

\* A record of one error keeps the log.
LEMMA RecordOneKeeps ==
  ASSUME LogKept(ring, latch, journal, mark), NEW e \in Errors, Record(<<e>>)
  PROVE  LogKept(ring', latch', journal', mark') /\ (Blamed(journal) => Blamed(journal'))
<1> DEFINE es == <<e>>
<1>1. es = <<e>> /\ Record(es)
  OBVIOUS
<1> HIDE DEF es
<1> QED BY ONLY LogKept(ring, latch, journal, mark), e \in Errors, <1>1, RecordKeeps


\* initialize begins to clean up what there is.
LEMMA BeginInitializeWhole ==
  ASSUME Whole, BeginInitialize
  PROVE  Whole'
<1>0. /\ Flags /\ Placed(pc, step, built, config) /\ ReadyMeans(state, pc, built)
      /\ SuccessMeans(exit, pc, journal, mark) /\ LogKept(ring, latch, journal, mark) /\ ConfigTyped(config)
  BY DEF Whole
<1>1. Flags'
  BY <1>0 DEF BeginInitialize, Flags, ServiceStates
<1>2. Placed(pc', step', built', config')
  <2>1. pc = "idle" /\ pc' = "cleanup_first" /\ step' = 1 /\ built' = built /\ config' = config
    BY DEF BeginInitialize, OwnerFree
  <2>2. built = {} \/ built = All
    BY <1>0, <2>1 DEF Placed
  <2>3. TornTo(built, 1) /\ built \subseteq All /\ Closed(built)
    BY <2>2, AllClosed
  <2> QED BY ONLY <2>1, <2>3, PlaceNames DEF Placed, Places
<1>3. ReadyMeans(state', pc', built')
  BY <1>0, PlaceNames DEF BeginInitialize, ReadyMeans
<1>4. SuccessMeans(exit', pc', journal', mark')
  BY <1>0, PlaceNames DEF BeginInitialize, SuccessMeans, OwnerFree
<1>5. LogKept(ring', latch', journal', mark')
  <2>1. ring' = ring /\ latch' = 0 /\ journal' = journal /\ mark' = Len(journal)
    BY Severities DEF BeginInitialize
  <2>2. journal \in Seq(Errors) /\ HistoryKept(ring, journal)
    BY <1>0 DEF LogKept
  <2>3. Len(journal) \in Nat
    BY <2>2
  <2>4. LatchKept(latch', journal', mark')
    BY ONLY <2>1, <2>3 DEF LatchKept
  <2> QED BY ONLY <2>1, <2>2, <2>4 DEF LogKept
<1>6. ConfigTyped(config')
  BY <1>0 DEF BeginInitialize
<1> QED BY <1>1, <1>2, <1>3, <1>4, <1>5, <1>6 DEF Whole

\* One part is torn down.
LEMMA CleanupStepWhole ==
  ASSUME Whole, CleanupStep
  PROVE  Whole'
<1>0. /\ Flags /\ Placed(pc, step, built, config) /\ ReadyMeans(state, pc, built)
      /\ SuccessMeans(exit, pc, journal, mark) /\ LogKept(ring, latch, journal, mark) /\ ConfigTyped(config)
  BY DEF Whole
<1>1. Flags'
  BY <1>0 DEF CleanupStep, Flags, ServiceStates
<1>2. Placed(pc', step', built', config')
  <2>1. pc \in Cleaning /\ step <= 9 /\ built' = built \ {Teardown[step]} /\ step' = step + 1 /\ pc' = pc /\ config' = config
    BY TeardownOrder DEF CleanupStep, Cleaning
  <2>2. step \in 1 .. 10 /\ TornTo(built, step)
    BY <1>0, <2>1 DEF Placed
  <2>3. step \in 1 .. 9
    BY <2>1, <2>2
  <2>4. TornTo(built', step')
    BY ONLY <2>1, <2>2, <2>3, OneLess
  <2>5. step' \in 1 .. 10 /\ step' \in 0 .. 10 /\ built' \subseteq All /\ Closed(built')
    BY <2>1, <2>3, <2>4 DEF TornTo
  <2> QED BY ONLY <2>1, <2>4, <2>5, PlaceNames DEF Placed, Places
<1>3. ReadyMeans(state', pc', built')
  BY <1>0, PlaceNames DEF CleanupStep, ReadyMeans
<1>4. SuccessMeans(exit', pc', journal', mark')
  BY <1>0, PlaceNames DEF CleanupStep, SuccessMeans
<1>5. LogKept(ring', latch', journal', mark')
  BY <1>0 DEF CleanupStep
<1>6. ConfigTyped(config')
  BY <1>0 DEF CleanupStep
<1> QED BY <1>1, <1>2, <1>3, <1>4, <1>5, <1>6 DEF Whole

\* Everything is torn down.
LEMMA CleanupDoneWhole ==
  ASSUME Whole, CleanupDone
  PROVE  Whole'
<1>0. /\ Flags /\ Placed(pc, step, built, config) /\ ReadyMeans(state, pc, built)
      /\ SuccessMeans(exit, pc, journal, mark) /\ LogKept(ring, latch, journal, mark) /\ ConfigTyped(config)
  BY DEF Whole
<1>1. Flags'
  BY <1>0 DEF CleanupDone, Flags, ServiceStates
<1>2. Placed(pc', step', built', config')
  <2>1. pc \in Cleaning /\ step > 9 /\ built' = built /\ step' = 1 /\ config' = config
    BY TeardownOrder DEF CleanupDone, Cleaning
  <2>2. step \in 1 .. 10 /\ TornTo(built, step)
    BY <1>0, <2>1 DEF Placed
  <2>3. step = 10
    BY <2>1, <2>2
  <2>4. built = {}
    BY <2>2, <2>3, NothingLeft
  <2>5. pc' \in {"config", "failed", "destroyed"}
    BY DEF CleanupDone
  <2> QED BY ONLY <2>1, <2>4, <2>5, PlaceNames, AllClosed DEF Placed, Places
<1>3. ReadyMeans(state', pc', built')
  BY <1>0, PlaceNames DEF CleanupDone, ReadyMeans
<1>4. SuccessMeans(exit', pc', journal', mark')
  BY <1>0, PlaceNames DEF CleanupDone, SuccessMeans
<1>5. LogKept(ring', latch', journal', mark')
  BY <1>0 DEF CleanupDone
<1>6. ConfigTyped(config')
  BY <1>0 DEF CleanupDone
<1> QED BY <1>1, <1>2, <1>3, <1>4, <1>5, <1>6 DEF Whole

\* Every part is built.
LEMMA InitializeDoneWhole ==
  ASSUME Whole, InitializeDone
  PROVE  Whole'
<1>0. /\ Flags /\ Placed(pc, step, built, config) /\ ReadyMeans(state, pc, built)
      /\ SuccessMeans(exit, pc, journal, mark) /\ LogKept(ring, latch, journal, mark) /\ ConfigTyped(config)
  BY DEF Whole
<1>1. Flags'
  BY <1>0 DEF InitializeDone, Flags, ServiceStates
<1>2. Placed(pc', step', built', config')
  <2>1. pc = "build" /\ step > 9 /\ built' = built /\ config' = config /\ pc' = "idle" /\ step' = 0
    BY BuildOrder DEF InitializeDone
  <2>2. step \in 1 .. 10 /\ built = Before(step) /\ Valid(config)
    BY <1>0, <2>1 DEF Placed
  <2>3. step = 10
    BY <2>1, <2>2
  <2>4. built' = All /\ Valid(config')
    BY <2>1, <2>2, <2>3, OneMore
  <2> QED BY ONLY <2>1, <2>4, PlaceNames, AllClosed DEF Placed, Places
<1>3. ReadyMeans(state', pc', built')
  <2>1. pc = "build" /\ step > 9 /\ built' = built /\ pc' = "idle"
    BY BuildOrder DEF InitializeDone
  <2>2. step = 10 /\ built = Before(step)
    BY <1>0, <2>1 DEF Placed
  <2>3. built' = All
    BY <2>1, <2>2, OneMore
  <2> QED BY ONLY <2>1, <2>3 DEF ReadyMeans
<1>4. SuccessMeans(exit', pc', journal', mark')
  BY <1>0, PlaceNames DEF InitializeDone, SuccessMeans
<1>5. LogKept(ring', latch', journal', mark')
  BY <1>0 DEF InitializeDone
<1>6. ConfigTyped(config')
  BY <1>0 DEF InitializeDone
<1> QED BY <1>1, <1>2, <1>3, <1>4, <1>5, <1>6 DEF Whole

\* initialize gives up.
LEMMA InitializeFailedWhole ==
  ASSUME Whole, NEW quit \in BOOLEAN, InitializeFailed(quit)
  PROVE  Whole'
<1>0. /\ Flags /\ Placed(pc, step, built, config) /\ ReadyMeans(state, pc, built)
      /\ SuccessMeans(exit, pc, journal, mark) /\ LogKept(ring, latch, journal, mark) /\ ConfigTyped(config)
  BY DEF Whole
<1>1. Flags'
  BY <1>0 DEF InitializeFailed, Flags, ServiceStates
<1>2. Placed(pc', step', built', config')
  BY <1>0, PlaceNames DEF InitializeFailed, Placed, Places
<1>3. ReadyMeans(state', pc', built')
  BY <1>0, PlaceNames DEF InitializeFailed, ReadyMeans
<1>4. SuccessMeans(exit', pc', journal', mark')
  BY <1>0, PlaceNames DEF InitializeFailed, SuccessMeans
<1>5. LogKept(ring', latch', journal', mark')
  BY <1>0 DEF InitializeFailed
<1>6. ConfigTyped(config')
  BY <1>0 DEF InitializeFailed
<1> QED BY <1>1, <1>2, <1>3, <1>4, <1>5, <1>6 DEF Whole

\* The loop takes its flag.
LEMMA EnterLoopWhole ==
  ASSUME Whole, EnterLoop
  PROVE  Whole'
<1>0. /\ Flags /\ Placed(pc, step, built, config) /\ ReadyMeans(state, pc, built)
      /\ SuccessMeans(exit, pc, journal, mark) /\ LogKept(ring, latch, journal, mark) /\ ConfigTyped(config)
  BY DEF Whole
<1>1. Flags'
  BY <1>0 DEF EnterLoop, Flags, ServiceStates
<1>2. Placed(pc', step', built', config')
  BY <1>0, PlaceNames DEF EnterLoop, Placed, Places
<1>3. ReadyMeans(state', pc', built')
  BY <1>0, PlaceNames DEF EnterLoop, ReadyMeans
<1>4. SuccessMeans(exit', pc', journal', mark')
  BY <1>0, PlaceNames DEF EnterLoop, SuccessMeans
<1>5. LogKept(ring', latch', journal', mark')
  BY <1>0 DEF EnterLoop
<1>6. ConfigTyped(config')
  BY <1>0 DEF EnterLoop
<1> QED BY <1>1, <1>2, <1>3, <1>4, <1>5, <1>6 DEF Whole

\* The loop arms the signals.
LEMMA ArmSignalsWhole ==
  ASSUME Whole, ArmSignals
  PROVE  Whole'
<1>0. /\ Flags /\ Placed(pc, step, built, config) /\ ReadyMeans(state, pc, built)
      /\ SuccessMeans(exit, pc, journal, mark) /\ LogKept(ring, latch, journal, mark) /\ ConfigTyped(config)
  BY DEF Whole
<1>1. Flags'
  BY <1>0 DEF ArmSignals, Flags, ServiceStates
<1>2. Placed(pc', step', built', config')
  BY <1>0, PlaceNames DEF ArmSignals, Placed, Places
<1>3. ReadyMeans(state', pc', built')
  BY <1>0, PlaceNames DEF ArmSignals, ReadyMeans
<1>4. SuccessMeans(exit', pc', journal', mark')
  BY <1>0, PlaceNames DEF ArmSignals, SuccessMeans
<1>5. LogKept(ring', latch', journal', mark')
  BY <1>0 DEF ArmSignals
<1>6. ConfigTyped(config')
  BY <1>0 DEF ArmSignals
<1> QED BY <1>1, <1>2, <1>3, <1>4, <1>5, <1>6 DEF Whole

\* The loop looks at its flag.
LEMMA CheckRunningWhole ==
  ASSUME Whole, CheckRunning
  PROVE  Whole'
<1>0. /\ Flags /\ Placed(pc, step, built, config) /\ ReadyMeans(state, pc, built)
      /\ SuccessMeans(exit, pc, journal, mark) /\ LogKept(ring, latch, journal, mark) /\ ConfigTyped(config)
  BY DEF Whole
<1>1. Flags'
  BY <1>0 DEF CheckRunning, Flags, ServiceStates
<1>2. Placed(pc', step', built', config')
  BY <1>0, PlaceNames DEF CheckRunning, Placed, Places
<1>3. ReadyMeans(state', pc', built')
  BY <1>0, PlaceNames DEF CheckRunning, ReadyMeans
<1>4. SuccessMeans(exit', pc', journal', mark')
  BY <1>0, PlaceNames DEF CheckRunning, SuccessMeans
<1>5. LogKept(ring', latch', journal', mark')
  BY <1>0 DEF CheckRunning
<1>6. ConfigTyped(config')
  BY <1>0 DEF CheckRunning
<1> QED BY <1>1, <1>2, <1>3, <1>4, <1>5, <1>6 DEF Whole

\* An iteration passes.
LEMMA IterateWhole ==
  ASSUME Whole, Iterate
  PROVE  Whole'
<1>0. /\ Flags /\ Placed(pc, step, built, config) /\ ReadyMeans(state, pc, built)
      /\ SuccessMeans(exit, pc, journal, mark) /\ LogKept(ring, latch, journal, mark) /\ ConfigTyped(config)
  BY DEF Whole
<1>1. Flags'
  BY <1>0 DEF Iterate, Flags, ServiceStates
<1>2. Placed(pc', step', built', config')
  BY <1>0, PlaceNames DEF Iterate, Placed, Places
<1>3. ReadyMeans(state', pc', built')
  BY <1>0, PlaceNames DEF Iterate, ReadyMeans
<1>4. SuccessMeans(exit', pc', journal', mark')
  BY <1>0, PlaceNames DEF Iterate, SuccessMeans
<1>5. LogKept(ring', latch', journal', mark')
  BY <1>0 DEF Iterate
<1>6. ConfigTyped(config')
  BY <1>0 DEF Iterate
<1> QED BY <1>1, <1>2, <1>3, <1>4, <1>5, <1>6 DEF Whole

\* The loop asks the latch.
LEMMA PollLatchWhole ==
  ASSUME Whole, PollLatch
  PROVE  Whole'
<1>0. /\ Flags /\ Placed(pc, step, built, config) /\ ReadyMeans(state, pc, built)
      /\ SuccessMeans(exit, pc, journal, mark) /\ LogKept(ring, latch, journal, mark) /\ ConfigTyped(config)
  BY DEF Whole
<1>1. Flags'
  BY <1>0 DEF PollLatch, Flags, ServiceStates
<1>2. Placed(pc', step', built', config')
  BY <1>0, PlaceNames DEF PollLatch, Placed, Places
<1>3. ReadyMeans(state', pc', built')
  BY <1>0, PlaceNames DEF PollLatch, ReadyMeans
<1>4. SuccessMeans(exit', pc', journal', mark')
  BY <1>0, PlaceNames DEF PollLatch, SuccessMeans
<1>5. LogKept(ring', latch', journal', mark')
  BY <1>0 DEF PollLatch
<1>6. ConfigTyped(config')
  BY <1>0 DEF PollLatch
<1> QED BY <1>1, <1>2, <1>3, <1>4, <1>5, <1>6 DEF Whole

\* The loop ends.
LEMMA LeaveLoopWhole ==
  ASSUME Whole, LeaveLoop
  PROVE  Whole'
<1>0. /\ Flags /\ Placed(pc, step, built, config) /\ ReadyMeans(state, pc, built)
      /\ SuccessMeans(exit, pc, journal, mark) /\ LogKept(ring, latch, journal, mark) /\ ConfigTyped(config)
  BY DEF Whole
<1>1. Flags'
  BY <1>0 DEF LeaveLoop, Flags, ServiceStates
<1>2. Placed(pc', step', built', config')
  BY <1>0, PlaceNames DEF LeaveLoop, Placed, Places
<1>3. ReadyMeans(state', pc', built')
  BY <1>0, PlaceNames DEF LeaveLoop, ReadyMeans
<1>4. SuccessMeans(exit', pc', journal', mark')
  BY <1>0, PlaceNames DEF LeaveLoop, SuccessMeans
<1>5. LogKept(ring', latch', journal', mark')
  BY <1>0 DEF LeaveLoop
<1>6. ConfigTyped(config')
  BY <1>0 DEF LeaveLoop
<1> QED BY <1>1, <1>2, <1>3, <1>4, <1>5, <1>6 DEF Whole

\* run judges how the loop ended.
LEMMA AfterLoopWhole ==
  ASSUME Whole, AfterLoop
  PROVE  Whole'
<1>0. /\ Flags /\ Placed(pc, step, built, config) /\ ReadyMeans(state, pc, built)
      /\ SuccessMeans(exit, pc, journal, mark) /\ LogKept(ring, latch, journal, mark) /\ ConfigTyped(config)
  BY DEF Whole
<1>1. Flags'
  BY <1>0, ZenonT(120) DEF AfterLoop, Flags, ServiceStates
<1>2. Placed(pc', step', built', config')
  BY <1>0, PlaceNames DEF AfterLoop, Placed, Places
<1>3. ReadyMeans(state', pc', built')
  BY <1>0, PlaceNames DEF AfterLoop, ReadyMeans
<1>4. SuccessMeans(exit', pc', journal', mark')
  BY <1>0, PlaceNames DEF AfterLoop, SuccessMeans
<1>5. LogKept(ring', latch', journal', mark')
  BY <1>0 DEF AfterLoop
<1>6. ConfigTyped(config')
  BY <1>0 DEF AfterLoop
<1> QED BY <1>1, <1>2, <1>3, <1>4, <1>5, <1>6 DEF Whole

\* run returns.
LEMMA RunResultWhole ==
  ASSUME Whole, RunResult
  PROVE  Whole'
<1>0. /\ Flags /\ Placed(pc, step, built, config) /\ ReadyMeans(state, pc, built)
      /\ SuccessMeans(exit, pc, journal, mark) /\ LogKept(ring, latch, journal, mark) /\ ConfigTyped(config)
  BY DEF Whole
<1>1. Flags'
  BY <1>0 DEF RunResult, Flags, ServiceStates
<1>2. Placed(pc', step', built', config')
  BY <1>0, PlaceNames DEF RunResult, Placed, Places
<1>3. ReadyMeans(state', pc', built')
  BY <1>0, PlaceNames DEF RunResult, ReadyMeans
<1>4. SuccessMeans(exit', pc', journal', mark')
  BY <1>0, PlaceNames DEF RunResult, SuccessMeans
<1>5. LogKept(ring', latch', journal', mark')
  BY <1>0 DEF RunResult
<1>6. ConfigTyped(config')
  BY <1>0 DEF RunResult
<1> QED BY <1>1, <1>2, <1>3, <1>4, <1>5, <1>6 DEF Whole

\* main ends.
LEMMA ExitWhole ==
  ASSUME Whole, Exit
  PROVE  Whole'
<1>0. /\ Flags /\ Placed(pc, step, built, config) /\ ReadyMeans(state, pc, built)
      /\ SuccessMeans(exit, pc, journal, mark) /\ LogKept(ring, latch, journal, mark) /\ ConfigTyped(config)
  BY DEF Whole
<1>1. Flags'
  BY <1>0 DEF Exit, Flags, ServiceStates, ExitCode
<1>2. Placed(pc', step', built', config')
  BY <1>0, PlaceNames DEF Exit, Placed, Places
<1>3. ReadyMeans(state', pc', built')
  BY <1>0, PlaceNames DEF Exit, ReadyMeans
<1>4. SuccessMeans(exit', pc', journal', mark')
  <2>1. pc' = pc /\ mark' = mark /\ journal' = journal /\ pc = "idle" /\ exit' = ExitCode
    BY DEF Exit, OwnerFree
  <2>2. exit' = "0" => ~(latch >= Critical)
    BY <2>1 DEF ExitCode
  <2>3. ~(latch >= Critical) => \A i \in mark + 1 .. Len(journal) : ~Serious(journal[i])
    BY <1>0, Severities DEF LogKept, LatchKept
  <2> QED BY <2>1, <2>2, <2>3 DEF SuccessMeans
<1>5. LogKept(ring', latch', journal', mark')
  BY <1>0 DEF Exit
<1>6. ConfigTyped(config')
  BY <1>0 DEF Exit
<1> QED BY <1>1, <1>2, <1>3, <1>4, <1>5, <1>6 DEF Whole

\* The destructor begins.
LEMMA DestroyWhole ==
  ASSUME Whole, Destroy
  PROVE  Whole'
<1>0. /\ Flags /\ Placed(pc, step, built, config) /\ ReadyMeans(state, pc, built)
      /\ SuccessMeans(exit, pc, journal, mark) /\ LogKept(ring, latch, journal, mark) /\ ConfigTyped(config)
  BY DEF Whole
<1>1. Flags'
  BY <1>0 DEF Destroy, Flags, ServiceStates
<1>2. Placed(pc', step', built', config')
  <2>1. pc = "idle" /\ pc' = "cleanup_last" /\ step' = 1 /\ built' = built /\ config' = config
    BY DEF Destroy
  <2>2. built = {} \/ built = All
    BY <1>0, <2>1 DEF Placed
  <2>3. TornTo(built, 1) /\ built \subseteq All /\ Closed(built)
    BY <2>2, AllClosed
  <2> QED BY ONLY <2>1, <2>3, PlaceNames DEF Placed, Places
<1>3. ReadyMeans(state', pc', built')
  BY <1>0, PlaceNames DEF Destroy, ReadyMeans
<1>4. SuccessMeans(exit', pc', journal', mark')
  BY <1>0, PlaceNames DEF Destroy, SuccessMeans
<1>5. LogKept(ring', latch', journal', mark')
  BY <1>0 DEF Destroy
<1>6. ConfigTyped(config')
  BY <1>0 DEF Destroy
<1> QED BY <1>1, <1>2, <1>3, <1>4, <1>5, <1>6 DEF Whole

\* A stop reads the state.
LEMMA StopReadWhole ==
  ASSUME Whole, StopRead
  PROVE  Whole'
<1>0. /\ Flags /\ Placed(pc, step, built, config) /\ ReadyMeans(state, pc, built)
      /\ SuccessMeans(exit, pc, journal, mark) /\ LogKept(ring, latch, journal, mark) /\ ConfigTyped(config)
  BY DEF Whole
<1>1. Flags'
  BY <1>0 DEF StopRead, Flags, ServiceStates
<1>2. Placed(pc', step', built', config')
  BY <1>0, PlaceNames DEF StopRead, Placed, Places
<1>3. ReadyMeans(state', pc', built')
  BY <1>0, PlaceNames DEF StopRead, ReadyMeans
<1>4. SuccessMeans(exit', pc', journal', mark')
  BY <1>0, PlaceNames DEF StopRead, SuccessMeans
<1>5. LogKept(ring', latch', journal', mark')
  BY <1>0 DEF StopRead
<1>6. ConfigTyped(config')
  BY <1>0 DEF StopRead
<1> QED BY <1>1, <1>2, <1>3, <1>4, <1>5, <1>6 DEF Whole

\* A stop stores the state.
LEMMA StopStoreWhole ==
  ASSUME Whole, StopStore
  PROVE  Whole'
<1>0. /\ Flags /\ Placed(pc, step, built, config) /\ ReadyMeans(state, pc, built)
      /\ SuccessMeans(exit, pc, journal, mark) /\ LogKept(ring, latch, journal, mark) /\ ConfigTyped(config)
  BY DEF Whole
<1>1. Flags'
  BY <1>0 DEF StopStore, Flags, ServiceStates
<1>2. Placed(pc', step', built', config')
  BY <1>0, PlaceNames DEF StopStore, Placed, Places
<1>3. ReadyMeans(state', pc', built')
  BY <1>0, PlaceNames DEF StopStore, ReadyMeans
<1>4. SuccessMeans(exit', pc', journal', mark')
  BY <1>0, PlaceNames DEF StopStore, SuccessMeans
<1>5. LogKept(ring', latch', journal', mark')
  BY <1>0 DEF StopStore
<1>6. ConfigTyped(config')
  BY <1>0 DEF StopStore
<1> QED BY <1>1, <1>2, <1>3, <1>4, <1>5, <1>6 DEF Whole

\* A stop clears the flag.
LEMMA StopFlagWhole ==
  ASSUME Whole, StopFlag
  PROVE  Whole'
<1>0. /\ Flags /\ Placed(pc, step, built, config) /\ ReadyMeans(state, pc, built)
      /\ SuccessMeans(exit, pc, journal, mark) /\ LogKept(ring, latch, journal, mark) /\ ConfigTyped(config)
  BY DEF Whole
<1>1. Flags'
  BY <1>0 DEF StopFlag, Flags, ServiceStates
<1>2. Placed(pc', step', built', config')
  BY <1>0, PlaceNames DEF StopFlag, Placed, Places
<1>3. ReadyMeans(state', pc', built')
  BY <1>0, PlaceNames DEF StopFlag, ReadyMeans
<1>4. SuccessMeans(exit', pc', journal', mark')
  BY <1>0, PlaceNames DEF StopFlag, SuccessMeans
<1>5. LogKept(ring', latch', journal', mark')
  BY <1>0 DEF StopFlag
<1>6. ConfigTyped(config')
  BY <1>0 DEF StopFlag
<1> QED BY <1>1, <1>2, <1>3, <1>4, <1>5, <1>6 DEF Whole

\* A signal clears the flag.
LEMMA SignalWhole ==
  ASSUME Whole, Signal
  PROVE  Whole'
<1>0. /\ Flags /\ Placed(pc, step, built, config) /\ ReadyMeans(state, pc, built)
      /\ SuccessMeans(exit, pc, journal, mark) /\ LogKept(ring, latch, journal, mark) /\ ConfigTyped(config)
  BY DEF Whole
<1>1. Flags'
  BY <1>0 DEF Signal, Flags, ServiceStates
<1>2. Placed(pc', step', built', config')
  BY <1>0, PlaceNames DEF Signal, Placed, Places
<1>3. ReadyMeans(state', pc', built')
  BY <1>0, PlaceNames DEF Signal, ReadyMeans
<1>4. SuccessMeans(exit', pc', journal', mark')
  BY <1>0, PlaceNames DEF Signal, SuccessMeans
<1>5. LogKept(ring', latch', journal', mark')
  BY <1>0 DEF Signal
<1>6. ConfigTyped(config')
  BY <1>0 DEF Signal
<1> QED BY <1>1, <1>2, <1>3, <1>4, <1>5, <1>6 DEF Whole

\* An iteration records an error.
LEMMA LoopErrorWhole ==
  ASSUME Whole, NEW e \in Errors, LoopError(e)
  PROVE  Whole'
<1>0. /\ Flags /\ Placed(pc, step, built, config) /\ ReadyMeans(state, pc, built)
      /\ SuccessMeans(exit, pc, journal, mark) /\ LogKept(ring, latch, journal, mark) /\ ConfigTyped(config)
  BY DEF Whole
<1>1. Flags'
  BY <1>0 DEF LoopError, Flags, ServiceStates
<1>2. Placed(pc', step', built', config')
  BY <1>0, PlaceNames DEF LoopError, Placed, Places
<1>3. ReadyMeans(state', pc', built')
  BY <1>0, PlaceNames DEF LoopError, ReadyMeans
<1>4. SuccessMeans(exit', pc', journal', mark')
  BY <1>0, PlaceNames DEF LoopError, SuccessMeans
<1>5. LogKept(ring', latch', journal', mark')
  <2>1. Record(<<e>>)
    BY DEF LoopError
  <2> QED BY ONLY <1>0, <2>1, e \in Errors, RecordOneKeeps
<1>6. ConfigTyped(config')
  BY <1>0 DEF LoopError
<1> QED BY <1>1, <1>2, <1>3, <1>4, <1>5, <1>6 DEF Whole

\* A call of the order API fails.
LEMMA ApiErrorWhole ==
  ASSUME Whole, NEW e \in Errors, ApiError(e)
  PROVE  Whole'
<1>0. /\ Flags /\ Placed(pc, step, built, config) /\ ReadyMeans(state, pc, built)
      /\ SuccessMeans(exit, pc, journal, mark) /\ LogKept(ring, latch, journal, mark) /\ ConfigTyped(config)
  BY DEF Whole
<1>1. Flags'
  BY <1>0 DEF ApiError, Flags, ServiceStates
<1>2. Placed(pc', step', built', config')
  BY <1>0, PlaceNames DEF ApiError, Placed, Places
<1>3. ReadyMeans(state', pc', built')
  BY <1>0, PlaceNames DEF ApiError, ReadyMeans
<1>4. SuccessMeans(exit', pc', journal', mark')
  BY <1>0, PlaceNames DEF ApiError, SuccessMeans
<1>5. LogKept(ring', latch', journal', mark')
  <2>1. Record(<<e>>)
    BY DEF ApiError
  <2> QED BY ONLY <1>0, <2>1, e \in Errors, RecordOneKeeps
<1>6. ConfigTyped(config')
  BY <1>0 DEF ApiError
<1> QED BY <1>1, <1>2, <1>3, <1>4, <1>5, <1>6 DEF Whole

\* A part of initialize failed: whatever is built can be torn down.
LEMMA FailWhole ==
  ASSUME Whole, pc \in {"config", "build"}, NEW before, NEW code, Fail(before, code),
         before = <<>> \/ \E a \in Errors : before = <<a>>, Error("core", code) \in Errors,
         built' = built, ConfigTyped(config'),
         running' = running, active' = active, control' = control, rc' = rc, exit' = exit
  PROVE  Whole'
<1>0. /\ Flags /\ Placed(pc, step, built, config) /\ ReadyMeans(state, pc, built)
      /\ SuccessMeans(exit, pc, journal, mark) /\ LogKept(ring, latch, journal, mark) /\ ConfigTyped(config)
  BY DEF Whole
<1>1. Raise(before, code) /\ state' = "Error" /\ pc' = "cleanup_failed" /\ step' = 1
  BY DEF Fail
<1>2. reason \in 0 .. 3
  BY <1>0 DEF Flags
<1>3. LogKept(ring', latch', journal', mark') /\ reason' \in 0 .. 3
  BY ONLY <1>0, <1>1, <1>2, before = <<>> \/ \E a \in Errors : before = <<a>>,
          Error("core", code) \in Errors, RaiseKeeps
<1>4. Flags'
  BY <1>0, <1>1, <1>3 DEF Flags, ServiceStates
<1>5. Placed(pc', step', built', config')
  <2>1. built \subseteq All /\ Closed(built)
    BY <1>0 DEF Placed
  <2>2. TornTo(built, 1)
    BY <2>1 DEF TornTo
  <2> QED BY ONLY <1>1, <2>1, <2>2, built' = built, PlaceNames DEF Placed, Places
<1>6. ReadyMeans(state', pc', built')
  BY <1>1 DEF ReadyMeans
<1>7. SuccessMeans(exit', pc', journal', mark')
  BY <1>0 DEF SuccessMeans
<1> QED BY <1>3, <1>4, <1>5, <1>6, <1>7 DEF Whole

\* The configuration is loaded and the logger started, or initialize fails.
LEMMA InitConfigWhole ==
  ASSUME Whole, NEW doc, NEW logger \in BOOLEAN, InitConfig(doc, logger)
  PROVE  Whole'
<1>0. /\ Flags /\ Placed(pc, step, built, config) /\ ReadyMeans(state, pc, built)
      /\ SuccessMeans(exit, pc, journal, mark) /\ LogKept(ring, latch, journal, mark) /\ ConfigTyped(config)
  BY DEF Whole
<1>1. /\ pc = "config" /\ config' = Loaded(config, doc).config
      /\ built' = built /\ running' = running /\ active' = active /\ control' = control
      /\ rc' = rc /\ exit' = exit
  BY DEF InitConfig
<1>2. ConfigTyped(config') /\ (Loaded(config, doc).ok => Valid(config'))
  <2>1. ConfigTyped(Loaded(config, doc).config) /\ (Loaded(config, doc).ok => Valid(Loaded(config, doc).config))
    BY ONLY <1>0, LoadedTyped
  <2> QED BY ONLY <1>1, <2>1
<1>3. CASE ~Loaded(config, doc).ok
  <2> DEFINE e == Error("config", IF Readable(doc) THEN "ConfigValidateFailed"
                                  ELSE "ConfigParseFailed")
             before == <<e>>
  <2>1. Fail(before, "ConfigParseFailed")
    BY <1>3 DEF InitConfig
  <2>2. e \in Errors /\ Error("core", "ConfigParseFailed") \in Errors
    BY DEF Error, Errors
  <2>3. \E a \in Errors : before = <<a>>
    <3> HIDE DEF e
    <3> QED BY <2>2
  <2> HIDE DEF before
  <2> QED BY ONLY Whole, <1>1, <1>2, <2>1, <2>2, <2>3, FailWhole
<1>4. CASE Loaded(config, doc).ok /\ ~logger
  <2> DEFINE before == <<>>
  <2>1. Fail(before, "LoggerInitFailed")
    BY <1>4 DEF InitConfig
  <2>2. Error("core", "LoggerInitFailed") \in Errors
    BY DEF Error, Errors
  <2>3. before = <<>>
    OBVIOUS
  <2> HIDE DEF before
  <2> QED BY ONLY Whole, <1>1, <1>2, <2>1, <2>2, <2>3, FailWhole
<1>5. CASE Loaded(config, doc).ok /\ logger
  <2>1. /\ pc' = "build" /\ step' = 1 /\ state' = state /\ reason' = reason /\ latch' = latch
        /\ ring' = ring /\ journal' = journal /\ mark' = mark
    BY <1>5 DEF InitConfig
  <2>2. built = {} /\ Valid(config')
    BY <1>0, <1>1, <1>2, <1>5 DEF Placed
  <2>3. Placed(pc', step', built', config')
    <3>1. built' = {} /\ built' = Before(1)
      BY <1>1, <2>2, OneMore
    <3> QED BY ONLY <2>1, <2>2, <3>1, PlaceNames, AllClosed DEF Placed, Places
  <2>4. Flags'
    BY <1>0, <1>1, <2>1 DEF Flags
  <2>5. ReadyMeans(state', pc', built') /\ SuccessMeans(exit', pc', journal', mark')
    BY <1>0, <1>1, <2>1 DEF ReadyMeans, SuccessMeans
  <2>6. LogKept(ring', latch', journal', mark')
    BY ONLY <1>0, <2>1
  <2> QED BY <1>2, <2>3, <2>4, <2>5, <2>6 DEF Whole
<1> QED BY <1>3, <1>4, <1>5

\* The error of a part that failed, and the error of the service after it.
LEMMA FailureErrors ==
  ASSUME NEW c \in All
  PROVE  /\ OwnErrors(c) = <<>> \/ \E a \in Errors : OwnErrors(c) = <<a>>
         /\ Error("core", FailureCode(c)) \in Errors
<1>1. OwnErrors(c) = <<>> \/ \E a \in Errors : OwnErrors(c) = <<a>>
  <2>1. CASE c = "shm"
    <3>1. OwnErrors(c) = <<Error("shm", "ShmOpenFailed")>>
      BY <2>1 DEF OwnErrors
    <3>2. Error("shm", "ShmOpenFailed") \in Errors
      BY DEF Error, Errors
    <3> QED BY <3>1, <3>2
  <2>2. CASE c = "positions"
    <3>1. OwnErrors(c) = <<Error("portfolio", "PositionUpdateFailed")>>
      BY <2>2 DEF OwnErrors
    <3>2. Error("portfolio", "PositionUpdateFailed") \in Errors
      BY DEF Error, Errors
    <3> QED BY <3>1, <3>2
  <2>3. CASE c \notin {"shm", "positions"}
    BY <2>3 DEF OwnErrors
  <2> QED BY <2>1, <2>2, <2>3
<1>2. FailureCode(c) \in {"ShmOpenFailed", "LoggerInitFailed", "InvalidConfig", "ComponentUnavailable"}
  <2>1. c = "shm" => FailureCode(c) = "ShmOpenFailed"
    BY DEF FailureCode
  <2>2. c = "recorder" => FailureCode(c) = "LoggerInitFailed"
    BY DEF FailureCode
  <2>3. c = "execution" => FailureCode(c) = "InvalidConfig"
    BY DEF FailureCode
  <2>4. c \notin {"shm", "recorder", "execution"} => FailureCode(c) = "ComponentUnavailable"
    BY DEF FailureCode
  <2> QED BY <2>1, <2>2, <2>3, <2>4
<1>3. Error("core", FailureCode(c)) \in Errors
  BY <1>2 DEF Error, Errors
<1> QED BY <1>1, <1>3

\* One part is built after the ones it refers to, or initialize fails.
LEMMA BuildComponentWhole ==
  ASSUME Whole, NEW ok \in BOOLEAN, BuildComponent(ok)
  PROVE  Whole'
<1>0. /\ Flags /\ Placed(pc, step, built, config) /\ ReadyMeans(state, pc, built)
      /\ SuccessMeans(exit, pc, journal, mark) /\ LogKept(ring, latch, journal, mark) /\ ConfigTyped(config)
  BY DEF Whole
<1> DEFINE c == Components[step]
           bad == (MayFail(c) /\ ~ok) \/ MustFail(c)
<1>1. /\ pc = "build" /\ step <= 9 /\ config' = config
      /\ running' = running /\ active' = active /\ control' = control
      /\ rc' = rc /\ exit' = exit
  BY BuildOrder DEF BuildComponent
<1>2. step \in 1 .. 10 /\ built = Before(step) /\ Valid(config) /\ Closed(built)
  BY <1>0, <1>1 DEF Placed
<1>3. step \in 1 .. 9
  BY <1>1, <1>2
<1>4. c \in All
  BY <1>3, AllParts, BuildOrder DEF Range
<1>5. CASE bad
  <2>1. Fail(OwnErrors(c), FailureCode(c)) /\ built' = built
    BY <1>5 DEF BuildComponent
  <2>2. /\ OwnErrors(c) = <<>> \/ \E a \in Errors : OwnErrors(c) = <<a>>
        /\ Error("core", FailureCode(c)) \in Errors
    BY <1>4, FailureErrors
  <2>3. ConfigTyped(config')
    BY ONLY <1>0, <1>1
  <2> DEFINE before == OwnErrors(c)
             code == FailureCode(c)
  <2>4. /\ Fail(before, code)
        /\ before = <<>> \/ \E a \in Errors : before = <<a>>
        /\ Error("core", code) \in Errors
    BY <2>1, <2>2
  <2> HIDE DEF before, code
  <2> QED BY ONLY Whole, <1>1, <2>1, <2>3, <2>4, FailWhole
<1>6. CASE ~bad
  <2>1. /\ built' = built \cup {c} /\ step' = step + 1 /\ pc' = pc /\ state' = state
        /\ reason' = reason /\ latch' = latch /\ ring' = ring /\ journal' = journal
        /\ mark' = mark
    BY <1>6 DEF BuildComponent
  <2>2. built' = Before(step') /\ Closed(built') /\ built' \subseteq All
    <3>1. built' = Before(step) \cup {Components[step]}
      BY <1>2, <2>1
    <3>2. Before(step + 1) = Before(step) \cup {Components[step]}
      BY <1>3, OneMore
    <3>3. Closed(Before(step) \cup {Components[step]})
      BY <1>2, <1>3, ClosedGrows
    <3>4. built \subseteq All
      BY <1>0 DEF Placed
    <3> QED BY <1>4, <2>1, <3>1, <3>2, <3>3, <3>4
  <2>3. step' \in 1 .. 10 /\ step' \in 0 .. 10
    BY <1>3, <2>1
  <2> HIDE DEF c, bad
  <2>4. Placed(pc', step', built', config')
    <3>1. pc' = "build" /\ Valid(config')
      BY ONLY <1>1, <1>2, <2>1
    <3> QED BY ONLY <2>2, <2>3, <3>1, PlaceNames DEF Placed, Places
  <2>5. Flags'
    BY ONLY <1>0, <1>1, <2>1 DEF Flags
  <2>6. ReadyMeans(state', pc', built') /\ SuccessMeans(exit', pc', journal', mark')
    BY ONLY <1>0, <1>1, <2>1 DEF ReadyMeans, SuccessMeans
  <2>7. LogKept(ring', latch', journal', mark') /\ ConfigTyped(config')
    BY ONLY <1>0, <1>1, <2>1
  <2> QED BY <2>4, <2>5, <2>6, <2>7 DEF Whole
<1> QED BY <1>5, <1>6

\* run starts only a whole service, and reports every other call.
LEMMA BeginRunWhole ==
  ASSUME Whole, BeginRun
  PROVE  Whole'
<1>0. /\ Flags /\ Placed(pc, step, built, config) /\ ReadyMeans(state, pc, built)
      /\ SuccessMeans(exit, pc, journal, mark) /\ LogKept(ring, latch, journal, mark) /\ ConfigTyped(config)
  BY DEF Whole
<1>1. /\ pc = "idle" /\ exit = "none" /\ config' = config /\ built' = built
      /\ running' = running /\ active' = active /\ step' = step /\ control' = control
      /\ exit' = exit
  BY DEF BeginRun, OwnerFree
<1>c. ConfigTyped(config') /\ SuccessMeans(exit', pc', journal', mark')
  BY <1>0, <1>1 DEF SuccessMeans
<1>2. CASE "event_loop" \notin built \/ state \notin {"Ready", "Stopped"}
  <2>1. /\ rc' = "-1" /\ state' = state /\ pc' = pc
        /\ Raise(<<>>, "ComponentUnavailable") \/ Raise(<<>>, "InvalidState")
    BY <1>2 DEF BeginRun
  <2>2. LogKept(ring', latch', journal', mark') /\ reason' \in 0 .. 3
    <3>1. Error("core", "ComponentUnavailable") \in Errors /\ Error("core", "InvalidState") \in Errors
      BY DEF Error, Errors
    <3>2. reason \in 0 .. 3
      BY <1>0 DEF Flags
    <3> DEFINE before == <<>>
    <3>3. before = <<>> /\ (Raise(before, "ComponentUnavailable") \/ Raise(before, "InvalidState"))
      BY <2>1
    <3> HIDE DEF before
    <3> QED BY ONLY <1>0, <3>1, <3>2, <3>3, RaiseKeeps
  <2>3. Flags'
    BY <1>0, <1>1, <2>1, <2>2 DEF Flags
  <2>4. Placed(pc', step', built', config') /\ ReadyMeans(state', pc', built')
    BY ONLY <1>0, <1>1, <2>1
  <2> QED BY <1>c, <2>2, <2>3, <2>4 DEF Whole
<1>3. CASE "event_loop" \in built /\ state \in {"Ready", "Stopped"}
  <2>1. /\ state' = "Running" /\ pc' = "enter" /\ rc' = "none" /\ reason' = reason
        /\ latch' = latch /\ ring' = ring /\ journal' = journal /\ mark' = mark
    BY <1>3 DEF BeginRun
  <2>2. built = All /\ Valid(config) /\ step \in 0 .. 10
    BY <1>0, <1>1, <1>3 DEF Placed
  <2>3. Placed(pc', step', built', config')
    <3>1. built' = All /\ Valid(config') /\ step' \in 0 .. 10
      BY ONLY <1>1, <2>2
    <3> QED BY ONLY <2>1, <3>1, PlaceNames, AllClosed DEF Placed, Places
  <2>4. Flags'
    BY <1>0, <1>1, <2>1 DEF Flags, ServiceStates
  <2>5. ReadyMeans(state', pc', built')
    BY <2>1 DEF ReadyMeans
  <2>6. LogKept(ring', latch', journal', mark')
    BY ONLY <1>0, <2>1
  <2> QED BY <1>c, <2>3, <2>4, <2>5, <2>6 DEF Whole
<1> QED BY <1>2, <1>3

\* Every step keeps the service whole.
LEMMA StaysWhole ==
  ASSUME Whole, [Next]_vars
  PROVE  Whole'
<1>1. CASE UNCHANGED vars
  <2>1. /\ state' = state /\ reason' = reason /\ running' = running /\ active' = active
        /\ control' = control /\ rc' = rc /\ exit' = exit
    BY <1>1 DEF vars
  <2>2. /\ pc' = pc /\ step' = step /\ built' = built /\ config' = config /\ ring' = ring
        /\ latch' = latch /\ journal' = journal /\ mark' = mark
    BY <1>1 DEF vars
  <2> QED BY <2>1, <2>2 DEF Whole, Flags
<1>2. CASE BeginInitialize
  BY <1>2, BeginInitializeWhole
<1>3. CASE Initialize
  <2>1. CASE CleanupStep
    BY <2>1, CleanupStepWhole
  <2>2. CASE CleanupDone
    BY <2>2, CleanupDoneWhole
  <2>3. CASE \E doc \in Documents, logger \in BOOLEAN : InitConfig(doc, logger)
    BY <2>3, InitConfigWhole
  <2>4. CASE \E ok \in BOOLEAN : BuildComponent(ok)
    BY <2>4, BuildComponentWhole
  <2>5. CASE InitializeDone
    BY <2>5, InitializeDoneWhole
  <2>6. CASE \E quit \in BOOLEAN : InitializeFailed(quit)
    BY <2>6, InitializeFailedWhole
  <2> QED BY <1>3, <2>1, <2>2, <2>3, <2>4, <2>5, <2>6 DEF Initialize
<1>4. CASE BeginRun
  BY <1>4, BeginRunWhole
<1>5. CASE RunLoop
  BY <1>5, EnterLoopWhole, ArmSignalsWhole, CheckRunningWhole, IterateWhole, PollLatchWhole,
     LeaveLoopWhole, AfterLoopWhole, RunResultWhole DEF RunLoop
<1>6. CASE Exit
  BY <1>6, ExitWhole
<1>7. CASE Destroy
  BY <1>7, DestroyWhole
<1>8. CASE \E e \in LoopErrors : LoopError(e)
  <2>1. \A e \in LoopErrors : e \in Errors
    BY DEF LoopErrors, Error, Errors
  <2> QED BY <1>8, <2>1, LoopErrorWhole
<1>9. CASE \E e \in ApiErrors : ApiError(e)
  <2>1. \A e \in ApiErrors : e \in Errors
    BY DEF ApiErrors, Error, Errors
  <2> QED BY <1>9, <2>1, ApiErrorWhole
<1>10. CASE StopRead
  BY <1>10, StopReadWhole
<1>11. CASE StopCall
  BY <1>11, StopStoreWhole, StopFlagWhole DEF StopCall
<1>12. CASE Signal
  BY <1>12, SignalWhole
<1> QED BY <1>1, <1>2, <1>3, <1>4, <1>5, <1>6, <1>7, <1>8, <1>9, <1>10, <1>11, <1>12 DEF Next

-----------------------------------------------------------------------------
(* Who is to blame for a failure.                                          *)

\* A reason to stop, and a run that failed, go back to a serious error, or to a
\* stop that stored its state after the run was over.  An owner that is busy has
\* not left main, and has not run the service it is initialising.
Accounted ==
  /\ pc \notin {"idle", "cleanup_last", "destroyed"} => exit = "none"
  /\ pc \in {"cleanup_first", "cleanup_failed", "config", "build", "failed"} => rc = "none"
  /\ reason >= 2 => Blamed(journal)
  /\ pc \in {"enter", "arm", "check", "iterate", "poll", "leave", "after"} =>
       state \in {"Running", "Stopping"}
  /\ pc = "result" => state \in {"Stopped", "Stopping"}
  /\ pc = "idle" /\ (rc = "-1" \/ (exit = "1" /\ rc # "none")) =>
       state = "Stopping" \/ Blamed(journal)

\* Every error the service raises is serious.
LEMMA RaisedIsSerious ==
  ASSUME NEW code \in {"ConfigParseFailed", "LoggerInitFailed", "ShmOpenFailed", "InvalidConfig",
                       "ComponentUnavailable", "InvalidState"}
  PROVE  Error("core", code) \in Errors /\ Serious(Error("core", code))
<1> DEFINE e == Error("core", code)
<1>1. e.domain = "core" /\ e.code = code /\ e \in Errors
  BY DEF Error, Errors
<1> HIDE DEF e
<1>2. Serious(e)
  BY <1>1 DEF Serious, RecoverableCodes
<1> QED BY <1>1, <1>2 DEF e

\* A failure of initialize is accounted for.
LEMMA FailAccounted ==
  ASSUME Whole, NEW before, before = <<>> \/ \E a \in Errors : before = <<a>>,
         NEW code \in {"ConfigParseFailed", "LoggerInitFailed", "ShmOpenFailed", "InvalidConfig",
                       "ComponentUnavailable", "InvalidState"},
         Fail(before, code), pc \in {"config", "build"}, rc' = rc, exit' = exit, Accounted
  PROVE  Accounted'
<1>1. Raise(before, code) /\ pc' = "cleanup_failed"
  BY DEF Fail
<1>2. LogKept(ring, latch, journal, mark) /\ reason \in 0 .. 3
  BY DEF Whole, Flags
<1>3. Error("core", code) \in Errors /\ Serious(Error("core", code))
  BY RaisedIsSerious
<1>4. Blamed(journal')
  BY ONLY <1>1, <1>2, <1>3, before = <<>> \/ \E a \in Errors : before = <<a>>, RaiseKeeps
<1>5. rc' = "none" /\ exit' = "none"
  BY DEF Accounted
<1> QED BY ONLY <1>1, <1>4, <1>5 DEF Accounted

\* Every step leaves a failure accounted for.
LEMMA StaysAccounted ==
  ASSUME Whole, Accounted, [Next]_vars
  PROVE  Accounted'
<1>0. LogKept(ring, latch, journal, mark) /\ Flags /\ reason \in 0 .. 3 /\ latch \in 0 .. 3
  BY DEF Whole, Flags, LogKept, LatchKept
<1>1. CASE UNCHANGED vars
  <2>1. reason' = reason /\ journal' = journal /\ pc' = pc /\ state' = state /\ rc' = rc /\ exit' = exit
    BY <1>1 DEF vars
  <2> QED BY <2>1 DEF Accounted
<1>2. CASE BeginInitialize
  <2>1. /\ reason' = reason /\ journal' = journal /\ pc' = "cleanup_first" /\ rc' = "none"
        /\ exit = "none" /\ exit' = exit
    BY <1>2 DEF BeginInitialize, OwnerFree
  <2> QED BY <2>1 DEF Accounted
<1>3. CASE CleanupStep
  <2>1. /\ reason' = reason /\ journal' = journal /\ pc' = pc /\ rc' = rc /\ exit' = exit
        /\ pc \in {"cleanup_first", "cleanup_failed", "cleanup_last"}
    BY <1>3 DEF CleanupStep
  <2> QED BY <2>1 DEF Accounted
<1>4. CASE CleanupDone
  <2>1. /\ reason' = reason /\ journal' = journal /\ rc' = rc /\ exit' = exit
        /\ \/ pc \in {"cleanup_first", "cleanup_failed"} /\ pc' \in {"config", "failed"}
           \/ pc' = "destroyed"
    BY <1>4 DEF CleanupDone
  <2> QED BY <2>1 DEF Accounted
<1>5. ASSUME NEW doc \in Documents, NEW logger \in BOOLEAN, InitConfig(doc, logger)
      PROVE  Accounted'
  <2> DEFINE e == Error("config", IF Readable(doc) THEN "ConfigValidateFailed" ELSE "ConfigParseFailed")
             one == <<e>>
             none == <<>>
  <2>1. \/ Fail(one, "ConfigParseFailed") \/ Fail(none, "LoggerInitFailed")
        \/ pc' = "build" /\ reason' = reason /\ journal' = journal
    BY <1>5 DEF InitConfig
  <2>2. e \in Errors
    BY DEF Error, Errors
  <2>3. (\E a \in Errors : one = <<a>>) /\ none = <<>>
    <3> HIDE DEF e
    <3> QED BY <2>2
  <2>q. pc \in {"config", "build"} /\ pc = "config" /\ rc' = rc /\ exit' = exit
    BY <1>5 DEF InitConfig
  <2> HIDE DEF one, none
  <2>4. CASE Fail(one, "ConfigParseFailed")
    BY ONLY Whole, Accounted, <2>q, <2>3, <2>4, FailAccounted
  <2>5. CASE Fail(none, "LoggerInitFailed")
    BY ONLY Whole, Accounted, <2>q, <2>3, <2>5, FailAccounted
  <2>6. CASE pc' = "build" /\ reason' = reason /\ journal' = journal
    BY <2>q, <2>6 DEF Accounted
  <2> QED BY <2>1, <2>4, <2>5, <2>6
<1>6. ASSUME NEW ok \in BOOLEAN, BuildComponent(ok) PROVE Accounted'
  <2> DEFINE c == Components[step]
             before == OwnErrors(c)
             code == FailureCode(c)
  <2>1. \/ Fail(before, code)
        \/ pc' = "build" /\ reason' = reason /\ journal' = journal
    BY <1>6 DEF BuildComponent
  <2>2. c \in All
    <3>1. pc = "build" /\ step <= 9
      BY <1>6, BuildOrder DEF BuildComponent
    <3>2. step \in 1 .. 10
      BY <3>1 DEF Whole, Placed
    <3>3. step \in 1 .. 9
      BY <3>1, <3>2
    <3> QED BY <3>3, AllParts, BuildOrder DEF Range
  <2>3. before = <<>> \/ \E a \in Errors : before = <<a>>
    BY <2>2, FailureErrors
  <2>4. code \in {"ShmOpenFailed", "LoggerInitFailed", "InvalidConfig", "ComponentUnavailable"}
    <3> HIDE DEF c
    <3>1. c = "shm" => code = "ShmOpenFailed"
      BY DEF FailureCode
    <3>2. c = "recorder" => code = "LoggerInitFailed"
      BY DEF FailureCode
    <3>3. c = "execution" => code = "InvalidConfig"
      BY DEF FailureCode
    <3>4. c \notin {"shm", "recorder", "execution"} => code = "ComponentUnavailable"
      BY DEF FailureCode
    <3> QED BY <3>1, <3>2, <3>3, <3>4
  <2>q. pc \in {"config", "build"} /\ pc = "build" /\ rc' = rc /\ exit' = exit
    BY <1>6 DEF BuildComponent
  <2> HIDE DEF before, code
  <2>5. CASE Fail(before, code)
    BY ONLY Whole, Accounted, <2>q, <2>3, <2>4, <2>5, FailAccounted
  <2>6. CASE pc' = "build" /\ reason' = reason /\ journal' = journal
    BY <2>q, <2>6 DEF Accounted
  <2> QED BY <2>1, <2>5, <2>6
<1>7. CASE InitializeDone
  <2>1. /\ reason' = reason /\ journal' = journal /\ pc = "build" /\ rc' = rc /\ exit' = exit
    BY <1>7 DEF InitializeDone
  <2>2. rc' = "none" /\ pc' = "idle"
    BY <1>7, <2>1 DEF Accounted, InitializeDone
  <2> QED BY <2>1, <2>2 DEF Accounted
<1>8. ASSUME NEW quit \in BOOLEAN, InitializeFailed(quit) PROVE Accounted'
  <2>1. pc = "failed" /\ pc' = "idle" /\ reason' = reason /\ journal' = journal /\ rc' = rc
    BY <1>8 DEF InitializeFailed
  <2>2. rc' = "none"
    BY <2>1 DEF Accounted
  <2> QED BY <2>1, <2>2 DEF Accounted
<1>9. CASE BeginRun
  <2>1. /\ pc = "idle" /\ exit = "none" /\ exit' = exit
        /\ \/ Raise(<<>>, "ComponentUnavailable") \/ Raise(<<>>, "InvalidState")
           \/ pc' = "enter" /\ state' = "Running" /\ reason' = reason /\ journal' = journal
    BY <1>9 DEF BeginRun, OwnerFree
  <2>2. CASE pc' = "enter" /\ state' = "Running" /\ reason' = reason /\ journal' = journal
    BY <2>1, <2>2 DEF Accounted
  <2>3. CASE ~(pc' = "enter" /\ state' = "Running" /\ reason' = reason /\ journal' = journal)
    <3> DEFINE none == <<>>
    <3>1. none = <<>> /\ (Raise(none, "ComponentUnavailable") \/ Raise(none, "InvalidState"))
      BY <2>1, <2>3
    <3>2. pc' = pc
      BY <1>9, <2>3 DEF BeginRun
    <3> HIDE DEF none
    <3>3. /\ Error("core", "ComponentUnavailable") \in Errors /\ Serious(Error("core", "ComponentUnavailable"))
          /\ Error("core", "InvalidState") \in Errors /\ Serious(Error("core", "InvalidState"))
      BY RaisedIsSerious
    <3>4. Blamed(journal')
      BY ONLY <1>0, <3>1, <3>3, RaiseKeeps
    <3> QED BY ONLY <2>1, <3>2, <3>4 DEF Accounted
  <2> QED BY <2>2, <2>3
<1>10. CASE EnterLoop \/ ArmSignals \/ CheckRunning \/ Iterate \/ PollLatch \/ LeaveLoop
  <2>1. /\ reason' = reason /\ journal' = journal /\ state' = state
        /\ pc \in {"enter", "arm", "check", "iterate", "poll", "leave"}
        /\ pc' \in {"arm", "check", "iterate", "poll", "leave", "after"} /\ exit' = exit
    BY <1>10 DEF EnterLoop, ArmSignals, CheckRunning, Iterate, PollLatch, LeaveLoop
  <2> QED BY <2>1 DEF Accounted
<1>11. CASE AfterLoop
  <2>1. pc = "after" /\ reason' = reason /\ journal' = journal /\ exit' = exit
    BY <1>11 DEF AfterLoop
  <2>2. state \in {"Running", "Stopping"}
    BY <2>1 DEF Accounted
  <2>3. CASE reason >= Critical \/ latch >= Critical
    <3>1. Blamed(journal)
      BY <1>0, <2>3, Severities DEF Accounted, LogKept, LatchKept
    <3>2. pc' = "idle"
      BY <1>11, <2>3 DEF AfterLoop
    <3> QED BY <2>1, <3>1, <3>2 DEF Accounted
  <2>4. CASE ~(reason >= Critical \/ latch >= Critical)
    <3>1. pc' = "result" /\ state' = "Stopped"
      BY <1>11, <2>2, <2>4 DEF AfterLoop
    <3> QED BY <2>1, <3>1 DEF Accounted
  <2> QED BY <2>3, <2>4
<1>12. CASE RunResult
  <2>1. /\ pc = "result" /\ pc' = "idle" /\ reason' = reason /\ journal' = journal
        /\ state' = state /\ exit' = exit /\ rc' = IF state = "Stopped" THEN "0" ELSE "-1"
    BY <1>12 DEF RunResult
  <2>2. state \in {"Stopped", "Stopping"}
    BY <2>1 DEF Accounted
  <2>4. exit = "none"
    BY <2>1 DEF Accounted
  <2> QED BY <2>1, <2>2, <2>4 DEF Accounted
<1>13. CASE Exit
  <2>1. /\ pc = "idle" /\ reason' = reason /\ journal' = journal /\ state' = state /\ rc' = rc
        /\ pc' = pc /\ exit' = ExitCode
    BY <1>13 DEF Exit, OwnerFree
  <2>2. exit' = "1" => latch >= 2 \/ rc # "0"
    BY <2>1, Severities DEF ExitCode
  <2>3. rc \in {"none", "0", "-1"} /\ (latch >= 2 => Blamed(journal))
    BY <1>0 DEF Flags, LogKept, LatchKept
  <2> QED BY <2>1, <2>2, <2>3 DEF Accounted
<1>14. CASE Destroy
  <2>1. reason' = reason /\ journal' = journal /\ pc' = "cleanup_last"
    BY <1>14 DEF Destroy
  <2> QED BY <2>1 DEF Accounted
<1>15. ASSUME NEW e \in LoopErrors \cup ApiErrors, LoopError(e) \/ ApiError(e) PROVE Accounted'
  <2>1. e \in Errors
    BY DEF LoopErrors, ApiErrors, Error, Errors
  <2>2. /\ Record(<<e>>) /\ reason' = reason /\ state' = state /\ rc' = rc /\ exit' = exit
        /\ pc' = pc \/ (pc = "iterate" /\ pc' = "poll")
    BY <1>15 DEF LoopError, ApiError
  <2>3. Blamed(journal) => Blamed(journal')
    BY ONLY <1>0, <2>1, <2>2, RecordOneKeeps
  <2> QED BY <2>2, <2>3 DEF Accounted
<1>16. CASE StopRead \/ StopFlag \/ Signal
  <2>1. /\ reason' = reason /\ journal' = journal /\ pc' = pc /\ state' = state /\ rc' = rc
        /\ exit' = exit
    BY <1>16 DEF StopRead, StopFlag, Signal
  <2> QED BY <2>1 DEF Accounted
<1>17. CASE StopStore
  <2>1. /\ reason' = reason /\ journal' = journal /\ pc' = pc /\ rc' = rc /\ exit' = exit
        /\ state' = state \/ state' = "Stopping"
    BY <1>17 DEF StopStore
  <2> QED BY <2>1 DEF Accounted
<1> QED
  BY <1>1, <1>2, <1>3, <1>4, <1>5, <1>6, <1>7, <1>8, <1>9, <1>10, <1>11, <1>12, <1>13, <1>14,
     <1>15, <1>16, <1>17 DEF Next, Initialize, RunLoop, StopCall

-----------------------------------------------------------------------------
(* The theorems.                                                           *)

\* Whole says what the object must be in every state.
LEMMA WholeIsSound ==
  ASSUME Whole
  PROVE  ServiceInvariant
<1>0. /\ Flags /\ Placed(pc, step, built, config) /\ LogKept(ring, latch, journal, mark)
  BY DEF Whole
<1>1. TypeOK
  <2>1. built \subseteq Range(Components) /\ step \in 0 .. Len(Components) + 1
    BY <1>0, AllParts, BuildOrder DEF Placed
  <2>2. reason \in Range(Severity) /\ latch \in Range(Severity)
    BY <1>0, Severities DEF Flags, LogKept, LatchKept
  <2>3. ring.pos \in 0 .. HistoryCapacity - 1 /\ ring.size \in 0 .. HistoryCapacity
    BY <1>0 DEF LogKept, HistoryKept
  <2>4. pc \in Looping \cup {"idle", "cleanup_first", "cleanup_failed", "cleanup_last", "config",
                            "build", "failed", "enter", "destroyed"}
    BY <1>0 DEF Placed, Places, Cleaning
  <2>5. control.pc \in {"idle", "store", "flag"}
    BY <1>0 DEF Flags
  <2> QED BY <1>0, <2>1, <2>2, <2>3, <2>4, <2>5 DEF TypeOK, Flags
<1>2. DependenciesOutliveUsers
  BY <1>0 DEF Placed, Closed, DependenciesOutliveUsers
<1>3. HistoryHoldsTheLatest
  BY <1>0, HistoryIsRead DEF LogKept
<1> QED BY <1>1, <1>2, <1>3 DEF ServiceInvariant

\* Whole says what is served, what an export reads back as, and what accepted
\* options leave in force.
LEMMA WholeIsConfigured ==
  ASSUME Whole
  PROVE  ConfigurationIsSound
<1>0. /\ Placed(pc, step, built, config) /\ ReadyMeans(state, pc, built) /\ ConfigTyped(config)
  BY DEF Whole
<1>1. ASSUME (state = "Ready" /\ pc = "idle") \/ pc \in Looping PROVE Valid(config) /\ built = All
  <2>1. CASE pc \in Looping
    BY <1>0, <2>1 DEF Placed
  <2>2. CASE state = "Ready" /\ pc = "idle"
    <3>1. built = All
      BY <1>0, <2>2 DEF ReadyMeans
    <3>2. All # {}
      BY DEF All
    <3> QED BY <1>0, <2>2, <3>1, <3>2 DEF Placed
  <2> QED BY <1>1, <2>1, <2>2
<1>2. ServedConfigIsValid
  BY <1>1, AllParts DEF ServedConfigIsValid
<1>3. ExportIsStable
  <2> SUFFICES ASSUME state = "Ready", pc = "idle"
               PROVE  /\ Loaded(DefaultConfig, Exported(config)).ok
                      /\ Exported(Loaded(DefaultConfig, Exported(config)).config) = Exported(config)
    BY DEF ExportIsStable
  <2>1. Valid(config)
    BY <1>1
  <2> QED BY ONLY <1>0, <2>1, ExportReadsBack
<1>4. AcceptedOptionsAreInForce
  <2> SUFFICES ASSUME NEW options \in CommandLines, CommandLine(config, options).ok
               PROVE  \A i \in DOMAIN options :
                        options[i].name \in ConfigKeys /\
                        (\A j \in i + 1 .. Len(options) :
                           options[j].name \notin {options[i].name, "--config"}) =>
                          CommandLine(config, options).config[options[i].name] =
                            Parsed(KeyKind[options[i].name], options[i].value)
    BY DEF AcceptedOptionsAreInForce
  <2>1. config = [k \in ConfigKeys |-> config[k]]
    BY <1>0 DEF ConfigTyped
  <2> QED BY <2>1, CommandLineInForce
<1>5. RejectionsAreWhole
  <2>1. ASSUME NEW doc \in Documents
        PROVE  \/ Loaded(config, doc).ok \/ Loaded(config, doc).config = config
               \/ \A k \in DOMAIN doc \cap ConfigKeys :
                    Loaded(config, doc).config[k] = Parsed(KeyKind[k], doc[k])
    <3>1. CASE ~Readable(doc)
      <4>1. Loaded(config, doc).config = config
        BY <3>1 DEF Loaded
      <4> QED BY <4>1
    <3>2. CASE Readable(doc)
      <4>1. Loaded(config, doc).config = Merged(config, doc)
        BY <3>2 DEF Loaded
      <4>2. \A k \in DOMAIN doc \cap ConfigKeys : Merged(config, doc)[k] = Parsed(KeyKind[k], doc[k])
        BY DEF Merged
      <4> QED BY ONLY <4>1, <4>2
    <3> QED BY <3>1, <3>2
  <2>2. ASSUME NEW options \in CommandLines, NEW k \in ConfigKeys
        PROVE  LET value == CommandLine(config, options).config[k]
               IN \/ value = config[k]
                  \/ \E i \in DOMAIN options :
                       \/ options[i].name = "--config"
                       \/ options[i].name = k /\ value = Parsed(KeyKind[k], options[i].value)
    <3>1. config = [q \in ConfigKeys |-> config[q]]
      BY <1>0 DEF ConfigTyped
    <3>2. Given(CommandLine(config, options).config[k], config, options, k)
      BY ONLY <3>1, options \in CommandLines, k \in ConfigKeys, CommandLineInForce
    <3> QED BY <3>2 DEF Given
  <2> QED BY <2>1, <2>2 DEF RejectionsAreWhole
<1> QED BY <1>2, <1>3, <1>4, <1>5 DEF ConfigurationIsSound

\* The object in every state, half built or half torn down: references point to
\* living components, and the error ring holds the latest errors in order, for
\* every capacity and however often it has wrapped (account_service.cpp
\* initialize and cleanup, ErrorRegistry::record and recent_errors).
THEOREM ServiceIsSound == Spec => []ServiceInvariant
<1>1. Init => Whole
  BY StartsWhole
<1>2. Whole /\ [Next]_vars => Whole'
  BY StaysWhole
<1>3. Whole => ServiceInvariant
  BY WholeIsSound
<1> QED BY <1>1, <1>2, <1>3, PTL DEF Spec

\* What is served was validated, whatever files and failed attempts came
\* before; an accepted command line of any length is in force; a rejected file or
\* command line leaves nothing but whole values; an export reads back as itself
\* (load_from_file, validate, parse_command_line, export_to_file).
THEOREM ServedConfigurations == Spec => []ConfigurationIsSound
<1>1. Init => Whole
  BY StartsWhole
<1>2. Whole /\ [Next]_vars => Whole'
  BY StaysWhole
<1>3. Whole => ConfigurationIsSound
  BY WholeIsConfigured
<1> QED BY <1>1, <1>2, <1>3, PTL DEF Spec

\* The exit code agrees with the record of errors: success means that nothing
\* serious was recorded since initialize was last called; a failure after a run
\* goes back to a serious error or to a stop that came too late, never to the
\* errors of the order API alone (record_error, request_shutdown, stop, run, main).
THEOREM ExitCodeIsTrue == Spec => []ExitCodeTellsTheTruth
<1>1. Init => Whole /\ Accounted
  <2>1. Init => Accounted
    BY Severities DEF Init, Accounted
  <2> QED BY <2>1, StartsWhole
<1>2. Whole /\ Accounted /\ [Next]_vars => (Whole /\ Accounted)'
  BY StaysWhole, StaysAccounted
<1>3. Whole /\ Accounted => ExitCodeTellsTheTruth
  <2> SUFFICES ASSUME Whole, Accounted PROVE ExitCodeTellsTheTruth
    OBVIOUS
  <2>1. journal \in Seq(Errors)
    BY DEF Whole, LogKept
  <2>2. Blamed(journal) => \E i \in DOMAIN journal : Serious(journal[i])
    BY <2>1 DEF Blamed
  <2>3. exit = "0" => \A i \in mark + 1 .. Len(journal) : ~Serious(journal[i])
    BY DEF Whole, SuccessMeans
  <2> QED BY <2>2, <2>3 DEF Accounted, ExitCodeTellsTheTruth
<1> QED BY <1>1, <1>2, <1>3, PTL DEF Spec
=============================================================================
