------------------------------- MODULE ShmLog -------------------------------
(***************************************************************************)
(* src/common/log.cpp over BaseCore/src/logging: the technical log.  Every   *)
(* record of the service has one fixed payload, larger than a fixed slot,    *)
(* so it is written to the variable area of a shared-memory ring that has    *)
(* no reader index: the writer never waits and overwrites when it laps.      *)
(* Nothing runs in the background.  The ring is decoded into the file when   *)
(* a flush, a shutdown, or (with async_logging off) every single record      *)
(* asks for it, and a fresh ring then replaces it.                           *)
(*                                                                         *)
(* io_lock makes each call of the logger one step.  A record is its number   *)
(* in the order of the calls and its level.  The environment may refuse the  *)
(* shared-memory object or the output file at any time, and a write to an    *)
(* open file may fail, which the reader does not notice.                     *)
(***************************************************************************)
EXTENDS Naturals, Sequences, SequencesExt, FiniteSets

CONSTANTS
  VarSize,     \* kVariableBufferCapacity
  EntrySize,   \* sizeof(LogVarEntryHeader) + kRecordLogPayloadSize
  MinLevels,   \* the values of log_level that the configuration uses
  MaxRecords,  \* bound: calls of log()
  MaxInits,    \* bound: calls of init_logger
  MaxFaults    \* bound: refusals by the environment

\* 262144 bytes and records of 456: no whole number of records fills the ring.
ASSUME SizesAssumption ==
  /\ VarSize \in Nat /\ EntrySize \in Nat \ {0}
  /\ EntrySize <= VarSize /\ VarSize % EntrySize # 0
ASSUME LevelsAssumption == MinLevels \subseteq {"debug", "info", "warn", "error", "fatal"}
ASSUME BoundsAssumption == MaxRecords \in Nat /\ MaxInits \in Nat /\ MaxFaults \in Nat

VARIABLES
  impl,     \* impl_ is set
  config,   \* async_enabled and min_level of the last init
  ring,     \* the shared-memory object: open, the area, write_index_var
  pending,  \* pending_variable_bytes_
  dropped,  \* dropped of this impl
  healthy,  \* healthy
  file,     \* the records decoded into the output file
  stderr,   \* the records written by write_fallback_stderr
  calls,    \* calls of log() so far
  inits,    \* calls of init_logger so far
  faults,   \* refusals so far
  taken,    \* ghost: the records written to a ring of this impl
  damaged,  \* ghost: this impl lapped a used ring or its reader's writes failed
  opened,   \* ghost: lines of the file when this impl was created
  owed      \* ghost: the errors that the ring, the file or stderr must hold

vars == <<impl, config, ring, pending, dropped, healthy, file, stderr, calls, inits, faults,
          taken, damaged, opened, owed>>

Levels == {"debug", "error", "fatal"}
Rank == [debug |-> 0, info |-> 1, warn |-> 2, error |-> 3, fatal |-> 4]
NoRecord == [n |-> 0, level |-> "none"]
Records == [n : 1 .. MaxRecords, level : Levels]

Offsets == {o \in 0 .. VarSize - EntrySize : o % EntrySize = 0}
EmptyRing == [open |-> TRUE, area |-> [o \in Offsets |-> NoRecord], index |-> 0]
ClosedRing == [EmptyRing EXCEPT !.open = FALSE]

should_sync_fallback(level) == level \in {"error", "fatal"}

Init ==
  /\ impl = FALSE
  /\ config = [async |-> TRUE, min_level |-> "info"]
  /\ ring = ClosedRing
  /\ pending = 0 /\ dropped = 0
  /\ healthy = FALSE
  /\ file = <<>> /\ stderr = {}
  /\ calls = 0 /\ inits = 0 /\ faults = 0
  /\ taken = <<>> /\ damaged = FALSE /\ opened = 0 /\ owed = {}

-----------------------------------------------------------------------------
(* The ring.                                                               *)

\* try_push_variable: an entry never straddles the end of the area.
EntryOffset(r) ==
  LET idx == r.index % VarSize
  IN IF idx + EntrySize > VarSize THEN 0 ELSE idx

Pushed(r, rec) ==
  LET idx == EntryOffset(r)
  IN [r EXCEPT !.area[idx] = rec, !.index = (idx + EntrySize) % VarSize]

\* Fault: the entry that ends exactly at the write index is skipped.
ReadableShort(r) ==
  LET count == IF r.index = 0 THEN 0 ELSE (r.index - 1) \div EntrySize
  IN [i \in 1 .. count |-> r.area[(i - 1) * EntrySize]]

\* LogReader::run: the entries from offset 0 up to the write index, stopping at
\* one that would reach past it; an older lap behind the index is not read.
Readable(r) == [i \in 1 .. r.index \div EntrySize |-> r.area[(i - 1) * EntrySize]]

-----------------------------------------------------------------------------
(* drain_locked.  What the environment grants is a record: `decoded`, that   *)
(* the reader opens the ring and the file; `written`, how many lines reach   *)
(* the file (run() returns 0 whatever becomes of its writes); `renewed`, a   *)
(* new ring for reopen_locked, which is reached only after a drain.          *)

IO == [decoded : BOOLEAN, written : 0 .. VarSize \div EntrySize, renewed : BOOLEAN]

\* The writes fail after some of the lines.
CutShort(r, io) == r.open /\ io.decoded /\ io.written < Len(Readable(r))

Drain(r, reopen, io) ==
  IF ~r.open THEN [ok |-> TRUE, healthy |-> FALSE, ring |-> r, lines |-> <<>>, reset |-> FALSE]
  ELSE IF ~io.decoded
  THEN [ok |-> FALSE, healthy |-> FALSE, ring |-> r, lines |-> <<>>, reset |-> FALSE]
  ELSE [ok |-> reopen => io.renewed, healthy |-> reopen /\ io.renewed,
        ring |-> IF reopen /\ io.renewed THEN EmptyRing ELSE ClosedRing,
        lines |-> IF CutShort(r, io) THEN SubSeq(Readable(r), 1, io.written) ELSE Readable(r),
        reset |-> TRUE]

\* The environment refuses what a step asked of it.
Refusals(r, io) ==
  /\ faults' = faults + Cardinality({x \in {"decode", "write", "renew"} :
                                       \/ x = "decode" /\ ~io.decoded
                                       \/ x = "write" /\ CutShort(r, io)
                                       \/ x = "renew" /\ ~io.renewed})
  /\ faults' <= MaxFaults

-----------------------------------------------------------------------------
(* The logger's calls.                                                     *)

\* AsyncLogger::shutdown: a last drain whose failure is ignored; the ring is
\* unlinked either way, with what could not be read or written.
LastDrain(io) ==
  /\ file' = IF impl THEN file \o Drain(ring, FALSE, io).lines ELSE file
  /\ owed' = IF ring.open /\ (~io.decoded \/ CutShort(ring, io))
             THEN owed \ Range(Readable(ring)) ELSE owed
  /\ pending' = 0 /\ dropped' = 0
  /\ taken' = <<>> /\ damaged' = FALSE /\ opened' = Len(file')

ShutdownLogger(io) ==
  /\ impl
  /\ Refusals(ring, io)
  /\ LastDrain(io)
  /\ impl' = FALSE
  /\ healthy' = FALSE
  /\ ring' = ClosedRing
  /\ UNCHANGED <<config, stderr, calls, inits>>

\* AsyncLogger::init: the previous logger is shut down first; the directory or
\* the new ring may be refused, and then there is no logger.
InitLogger(cfg, io) ==
  /\ inits < MaxInits /\ (ring.open \/ io.decoded)
  /\ inits' = inits + 1
  /\ Refusals(ring, io)
  /\ LastDrain(io)
  /\ impl' = io.renewed
  /\ config' = IF io.renewed THEN cfg ELSE config
  /\ ring' = IF io.renewed THEN EmptyRing ELSE ClosedRing
  /\ healthy' = io.renewed
  /\ UNCHANGED <<stderr, calls>>

\* The record joins the errors that must not disappear.
Owed(rec) == IF should_sync_fallback(rec.level) THEN owed \cup {rec} ELSE owed

\* Fault: an error that could not be written is dropped in silence.
FallbackForgotten(rec) == UNCHANGED stderr

Fallback(rec) ==
  stderr' = IF should_sync_fallback(rec.level) THEN stderr \cup {rec} ELSE stderr

\* log() without a logger.
LogWithoutLogger(rec) ==
  /\ ~impl
  /\ Fallback(rec)
  /\ owed' = Owed(rec)
  /\ UNCHANGED <<impl, config, ring, pending, dropped, healthy, file, inits, faults, taken,
                 damaged, opened>>

\* A record below the configured level is dropped, an error below fatal included.
LogBelowLevel(rec) ==
  /\ impl /\ Rank[rec.level] < Rank[config.min_level]
  /\ UNCHANGED <<impl, config, ring, pending, dropped, healthy, file, stderr, inits, faults,
                 taken, damaged, opened, owed>>

\* write_record_locked finds no writer: a reopen failed earlier.
LogNoRing(rec) ==
  /\ impl /\ Rank[rec.level] >= Rank[config.min_level] /\ ~ring.open
  /\ healthy' = FALSE
  /\ dropped' = dropped + 1
  /\ Fallback(rec)
  /\ owed' = Owed(rec)
  /\ UNCHANGED <<impl, config, ring, pending, file, inits, faults, taken, damaged, opened>>

\* account_pending_payload: a record beyond one ring's worth of unread bytes
\* counts as one dropped record.
Counted(bytes) == IF bytes > VarSize THEN 1 ELSE 0

\* The record starts over at the front of a ring that nobody has read.
Laps(r) == EntryOffset(r) = 0 /\ pending > 0

\* With async_logging on the record stays in the ring.
LogToRing(rec) ==
  /\ impl /\ Rank[rec.level] >= Rank[config.min_level] /\ ring.open
  /\ config.async
  /\ ring' = Pushed(ring, rec)
  /\ pending' = pending + EntrySize
  /\ dropped' = dropped + Counted(pending')
  /\ taken' = Append(taken, rec)
  /\ damaged' = (damaged \/ Laps(ring))
  /\ owed' = Owed(rec) \ (IF Laps(ring) THEN Range(Readable(ring)) ELSE {})
  /\ UNCHANGED <<impl, config, healthy, file, stderr, inits, faults, opened>>

\* With async_logging off it is drained at once, and a failed drain counts it as
\* dropped although it stays in the ring.
LogAndDrain(rec, io) ==
  /\ impl /\ Rank[rec.level] >= Rank[config.min_level] /\ ring.open
  /\ ~config.async
  /\ LET pushed == Pushed(ring, rec)
         bytes == pending + EntrySize
         drain == Drain(pushed, TRUE, io)
     IN /\ Refusals(pushed, io)
        /\ ring' = drain.ring
        /\ pending' = IF drain.reset THEN 0 ELSE bytes
        /\ dropped' = dropped + Counted(bytes) + (IF drain.ok THEN 0 ELSE 1)
        /\ healthy' = drain.healthy
        /\ file' = file \o drain.lines
        /\ IF drain.ok THEN UNCHANGED stderr ELSE Fallback(rec)
        /\ taken' = Append(taken, rec)
        /\ damaged' = (damaged \/ Laps(ring) \/ CutShort(pushed, io))
        /\ owed' = Owed(rec) \ ((IF Laps(ring) THEN Range(Readable(ring)) ELSE {})
                                \cup (IF CutShort(pushed, io) THEN Range(Readable(pushed)) ELSE {}))
  /\ UNCHANGED <<impl, config, inits, opened>>

\* log_message: the next record, by whichever way log() takes.
Log(level) ==
  /\ calls < MaxRecords
  /\ calls' = calls + 1
  /\ LET rec == [n |-> calls + 1, level |-> level]
     IN \/ LogWithoutLogger(rec) \/ LogBelowLevel(rec) \/ LogNoRing(rec) \/ LogToRing(rec)
        \/ \E io \in IO : LogAndDrain(rec, io)

FlushLogger(io) ==
  /\ impl
  /\ Refusals(ring, io)
  /\ LET drain == Drain(ring, TRUE, io)
     IN /\ ring' = drain.ring
        /\ healthy' = drain.healthy
        /\ pending' = IF drain.reset THEN 0 ELSE pending
        /\ file' = file \o drain.lines
  /\ damaged' = (damaged \/ CutShort(ring, io))
  /\ owed' = IF CutShort(ring, io) THEN owed \ Range(Readable(ring)) ELSE owed
  /\ UNCHANGED <<impl, config, dropped, stderr, calls, inits, taken, opened>>

Configs == [async : BOOLEAN, min_level : MinLevels]

Next ==
  \/ \E cfg \in Configs, io \in IO : InitLogger(cfg, io)
  \/ \E io \in IO : ShutdownLogger(io)
  \/ \E level \in Levels : Log(level)
  \/ \E io \in IO : FlushLogger(io)

Spec == Init /\ [][Next]_vars

-----------------------------------------------------------------------------
TypeOK ==
  /\ impl \in BOOLEAN /\ healthy \in BOOLEAN /\ damaged \in BOOLEAN
  /\ config \in [async : BOOLEAN, min_level : DOMAIN Rank]
  /\ ring.open \in BOOLEAN /\ ring.index \in {o + EntrySize : o \in Offsets} \cup {0}
  /\ ring.area \in [Offsets -> Records \cup {NoRecord}]
  /\ pending \in Nat /\ dropped \in Nat
  /\ file \in Seq(Records) /\ taken \in Seq(Records)
  /\ stderr \subseteq Records
  /\ calls \in 0 .. MaxRecords /\ inits \in 0 .. MaxInits /\ faults \in 0 .. MaxFaults
  /\ opened \in 0 .. Len(file)
  /\ owed \subseteq Records

\* The file never repeats, reorders or invents a record, although a failed
\* drain leaves the ring to be decoded again and a lap mixes two generations of
\* entries in one area.
FileInOrder ==
  /\ \A i, j \in DOMAIN file : i < j => file[i].n < file[j].n
  /\ \A i \in DOMAIN file : file[i] \in Records

\* As long as the writer has not lapped an unread ring and the reader's writes do
\* not fail, every record that was written to the ring is in the file or will be
\* read by the next drain, in order: failed drains, failed reopens and level changes
\* lose nothing by themselves.
NothingLostUndamaged ==
  impl /\ ~damaged =>
    SubSeq(file, opened + 1, Len(file)) \o Readable(ring) = taken

\* However loggers come and go, rings are refused and drains fail: an error that
\* reaches the configured level, or that finds no logger, is still in the ring, in
\* the file or on stderr, unless the ring that held it was lapped, was thrown away by
\* a shutdown that could not read it, or was written to a file that failed.
ErrorsAreNotSwallowed ==
  owed \subseteq stderr \cup Range(file) \cup Range(Readable(ring))

\* healthy() is never true of a logger whose ring is gone.
HealthyMeansWritable == healthy => impl /\ ring.open

\* The log in every state: the file is in order, the ring still holds what the file
\* lacks unless it was lapped or the writes failed, and a healthy logger can be
\* written to (log.cpp's drain_locked and reopen_locked over try_push_variable).
LogInvariant ==
  TypeOK /\ FileInOrder /\ NothingLostUndamaged /\ HealthyMeansWritable
=============================================================================
