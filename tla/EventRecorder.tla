---------------------------- MODULE EventRecorder ----------------------------
(***************************************************************************)
(* src/order/order_event_recorder.cpp: the trading thread hands every       *)
(* order-book event (and, in a debug build, every step of an execution      *)
(* session) to a private ring; a background thread renders the records as   *)
(* lines of two append-only files.  The trading thread never blocks: a full *)
(* ring drops the record and counts it.                                     *)
(*                                                                         *)
(* init, shutdown and the record_* functions are called by one thread; the  *)
(* writer thread runs beside it.  Every access to a shared index or cell is *)
(* a step.  A record keeps what its line is later judged by: which event it *)
(* is and which orders it is about.  The ofstream's buffer is the sequence  *)
(* `buffered`; the library may hand a prefix of it to the system at any     *)
(* time, and a crash of the process loses the rest.                         *)
(***************************************************************************)
EXTENDS Naturals, Sequences, SequencesExt

CONSTANTS
  QueueCapacity,   \* business_log.queue_capacity
  DebugTrace,      \* ACCT_ENABLE_DEBUG_ORDER_TRACE
  Orders,          \* ids of orders; 0 is no order
  Recorded,        \* bound: the kinds of event the trading thread meets
  MaxEvents,       \* bound: events the trading thread offers
  MaxStarts        \* bound: calls of init

ASSUME QueueCapacityAssumption == QueueCapacity \in Nat /\ QueueCapacity >= 2
ASSUME DebugTraceAssumption == DebugTrace \in BOOLEAN
ASSUME OrdersAssumption == Orders \subseteq Nat \ {0}
ASSUME RecordedAssumption == Recorded \subseteq STRING
ASSUME BoundsAssumption == MaxEvents \in Nat /\ MaxStarts \in Nat

VARIABLES
  impl,      \* impl_: "none", "open", or "joining" while shutdown waits
  ring,      \* ring_
  write,     \* write_index_
  read,      \* read_index_
  dropped,   \* dropped_count_ of this impl
  stop,      \* the jthread's stop token
  prod,      \* the trading thread inside try_enqueue
  wr,        \* the writer thread
  buffered,  \* per stream: lines given to the ofstream, not yet to the system
  disk,      \* per stream: lines this impl has appended to the file
  offered,   \* ghost: every record offered to an open recorder, in order
  accepted,  \* ghost: those try_enqueue took
  starts     \* calls of init so far

vars == <<impl, ring, write, read, dropped, stop, prod, wr, buffered, disk,
          offered, accepted, starts>>

Streams == {"business", "debug"}

\* map_order_event_kind: the name a book event has in the file.
BookEvents == {"added", "status_updated", "trade_updated", "archived", "parent_refreshed"}
SessionTraces == {"session_started", "session_rejected"}
ChildTraces == {"child_submit_attempt", "child_submit_result", "child_finalized"}
Kinds == BookEvents \cup SessionTraces \cup ChildTraces

RingSize == QueueCapacity + 1
Cells == 0 .. RingSize - 1

Advance(i) == (i + 1) % RingSize

NoRecord == [kind |-> "none", stream |-> "none", order |-> 0, parent |-> 0]

\* record_order_event with fill_from_order_entry: a snapshot of the entry.
BookRecord(kind, order, parent) ==
  [kind |-> kind, stream |-> "business", order |-> order, parent |-> parent]

\* record_session_started, record_session_start_rejected: the parent is the
\* order itself.
SessionRecord(kind, order) ==
  [kind |-> kind, stream |-> "debug", order |-> order, parent |-> 0]

\* record_child_submit_attempt, _result, _finalized.
ChildRecord(kind, child, parent) ==
  [kind |-> kind, stream |-> "debug", order |-> child, parent |-> parent]

\* What a caller can record: a book event of a plain order or of a child, and
\* in a debug build the traces of the execution engine.
Records ==
  {BookRecord(k, o, p) : k \in BookEvents \cap Recorded, o \in Orders,
                         p \in Orders \cup {0}}
    \cup {SessionRecord(k, o) : k \in {x \in SessionTraces \cap Recorded : DebugTrace},
                               o \in Orders}
    \cup {ChildRecord(k, o, p) : k \in {x \in ChildTraces \cap Recorded : DebugTrace},
                                o \in Orders, p \in Orders}

\* write_business_record: the order and its parent as they were in the entry.
BusinessLine(rec) == [event |-> rec.kind, order |-> rec.order, parent |-> rec.parent]

\* write_debug_record: child_order_id only for a child trace, and the order's
\* own id stands for the parent when the record names none.
DebugLine(rec) ==
  [event |-> rec.kind,
   order |-> IF rec.kind \in ChildTraces THEN rec.order ELSE 0,
   parent |-> IF rec.parent # 0 THEN rec.parent ELSE rec.order]

Rendered(rec) == IF rec.stream = "business" THEN BusinessLine(rec) ELSE DebugLine(rec)

NoLines == [s \in Streams |-> <<>>]

IdleProducer == [pc |-> "idle", rec |-> NoRecord, write |-> 0, read |-> 0]
IdleWriter == [pc |-> "none", read |-> 0, write |-> 0, drained |-> FALSE, final |-> FALSE]

Init ==
  /\ impl = "none"
  /\ ring = [c \in Cells |-> NoRecord]
  /\ write = 0 /\ read = 0 /\ dropped = 0
  /\ stop = FALSE
  /\ prod = IdleProducer
  /\ wr = IdleWriter
  /\ buffered = NoLines /\ disk = NoLines
  /\ offered = <<>> /\ accepted = <<>>
  /\ starts = 0

-----------------------------------------------------------------------------
(* init and shutdown.                                                      *)

\* init on a recorder that is off, with a usable configuration and files that
\* open: a fresh ring, and the writer thread starts.
Start ==
  /\ impl = "none" /\ prod.pc = "idle" /\ starts < MaxStarts
  /\ impl' = "open"
  /\ ring' = [c \in Cells |-> NoRecord]
  /\ write' = 0 /\ read' = 0 /\ dropped' = 0
  /\ stop' = FALSE
  /\ wr' = [IdleWriter EXCEPT !.pc = "scan"]
  /\ starts' = starts + 1
  /\ offered' = <<>> /\ accepted' = <<>>
  /\ buffered' = NoLines /\ disk' = NoLines
  /\ UNCHANGED prod

\* init refuses its configuration, or a file cannot be opened: the recorder
\* stays off and every record_* call returns at once.
StartFails ==
  /\ impl = "none" /\ starts < MaxStarts
  /\ starts' = starts + 1
  /\ UNCHANGED <<impl, ring, write, read, dropped, stop, prod, wr, buffered, disk,
                 offered, accepted>>

\* shutdown: the stop request and notify_all; the caller then joins.
Shutdown ==
  /\ impl = "open" /\ prod.pc = "idle"
  /\ impl' = "joining"
  /\ stop' = TRUE
  /\ UNCHANGED <<ring, write, read, dropped, prod, wr, buffered, disk, offered, accepted,
                 starts>>

\* The join returns; destroying the streams closes and so flushes the files.
Joined ==
  /\ impl = "joining" /\ wr.pc = "done"
  /\ impl' = "none"
  /\ disk' = [s \in Streams |-> disk[s] \o buffered[s]]
  /\ buffered' = NoLines
  /\ wr' = IdleWriter
  /\ UNCHANGED <<ring, write, read, dropped, stop, prod, offered, accepted, starts>>

-----------------------------------------------------------------------------
(* record_* and try_enqueue, the trading thread.                           *)

\* Fault: the ring's last cell is used, so that full looks empty.
OfferOverrun(rec) ==
  /\ impl = "open" /\ prod.pc = "idle" /\ Len(offered) < MaxEvents
  /\ offered' = Append(offered, rec)
  /\ prod' = [pc |-> "fill", rec |-> rec, write |-> write, read |-> read]
  /\ UNCHANGED <<impl, ring, write, read, dropped, stop, wr, buffered, disk, accepted, starts>>

\* The indices are loaded; a full ring counts the record and drops it.
Offer(rec) ==
  /\ impl = "open" /\ prod.pc = "idle" /\ Len(offered) < MaxEvents
  /\ offered' = Append(offered, rec)
  /\ IF Advance(write) = read
     THEN dropped' = dropped + 1 /\ UNCHANGED prod
     ELSE /\ prod' = [pc |-> "fill", rec |-> rec, write |-> write, read |-> read]
          /\ UNCHANGED dropped
  /\ UNCHANGED <<impl, ring, write, read, stop, wr, buffered, disk, accepted, starts>>

Fill ==
  /\ prod.pc = "fill"
  /\ ring' = [ring EXCEPT ![prod.write] = prod.rec]
  /\ prod' = [prod EXCEPT !.pc = "publish"]
  /\ UNCHANGED <<impl, write, read, dropped, stop, wr, buffered, disk, offered, accepted,
                 starts>>

\* The release store; a ring that looked empty is followed by notify_one.
Publish ==
  /\ prod.pc = "publish"
  /\ write' = Advance(prod.write)
  /\ accepted' = Append(accepted, prod.rec)
  /\ prod' = IF prod.write = prod.read THEN [prod EXCEPT !.pc = "notify"] ELSE IdleProducer
  /\ UNCHANGED <<impl, ring, read, dropped, stop, wr, buffered, disk, offered, starts>>

\* notify_one without the mutex: it wakes a writer that waits and is lost on
\* one that does not.
Notify ==
  /\ prod.pc = "notify"
  /\ prod' = IdleProducer
  /\ wr' = IF wr.pc = "wait" THEN [wr EXCEPT !.pc = "scan"] ELSE wr
  /\ UNCHANGED <<impl, ring, write, read, dropped, stop, buffered, disk, offered, accepted,
                 starts>>

-----------------------------------------------------------------------------
(* writer_loop, the background thread.                                     *)

\* Fault: the stop request ends the thread without the final drain.
ScanNoFinalDrain ==
  /\ wr.pc = "scan"
  /\ wr' = [pc |-> IF stop THEN "done" ELSE "drain", read |-> read, write |-> write,
            drained |-> FALSE, final |-> stop]
  /\ UNCHANGED <<impl, ring, write, read, dropped, stop, prod, buffered, disk, offered,
                 accepted, starts>>

\* The loop's condition, and the two loads at the top of its body.  After a
\* stop the loop is left for the final drain.
Scan ==
  /\ wr.pc = "scan"
  /\ wr' = [pc |-> "drain", read |-> read, write |-> write, drained |-> FALSE, final |-> stop]
  /\ UNCHANGED <<impl, ring, write, read, dropped, stop, prod, buffered, disk, offered,
                 accepted, starts>>

\* The record is rendered and appended to its stream.
Drain ==
  /\ wr.pc = "drain" /\ wr.read # wr.write
  /\ LET rec == ring[wr.read]
     IN buffered' = [buffered EXCEPT ![rec.stream] = Append(@, Rendered(rec))]
  /\ wr' = [wr EXCEPT !.pc = "release", !.drained = TRUE]
  /\ UNCHANGED <<impl, ring, write, read, dropped, stop, prod, disk, offered, accepted, starts>>

\* The cell is handed back and the write index is loaded again.
Release ==
  /\ wr.pc = "release"
  /\ read' = Advance(wr.read)
  /\ wr' = [wr EXCEPT !.pc = "drain", !.read = Advance(wr.read), !.write = write]
  /\ UNCHANGED <<impl, ring, write, dropped, stop, prod, buffered, disk, offered, accepted,
                 starts>>

\* Fault: the loop goes to sleep without flushing what it drained.
FlushForgotten ==
  /\ wr.pc = "drain" /\ wr.read = wr.write
  /\ wr' = [wr EXCEPT !.pc = IF wr.final THEN "done" ELSE "wait"]
  /\ UNCHANGED <<impl, ring, write, read, dropped, stop, prod, buffered, disk, offered,
                 accepted, starts>>

\* The ring looked empty.  Lines written in this pass are flushed (the final
\* drain always flushes); then the thread ends or reaches the wait.
Flush ==
  /\ wr.pc = "drain" /\ wr.read = wr.write
  /\ IF wr.drained \/ wr.final
     THEN /\ disk' = [s \in Streams |-> disk[s] \o buffered[s]]
          /\ buffered' = NoLines
     ELSE UNCHANGED <<disk, buffered>>
  /\ wr' = [wr EXCEPT !.pc = IF wr.final THEN "done" ELSE "wait"]
  /\ UNCHANGED <<impl, ring, write, read, dropped, stop, prod, offered, accepted, starts>>

\* wait_for: the predicate holds, or flush_interval_ms has passed.  Either way
\* the loop's condition is evaluated next.
Wake ==
  /\ wr.pc = "wait"
  /\ wr' = [wr EXCEPT !.pc = "scan"]
  /\ UNCHANGED <<impl, ring, write, read, dropped, stop, prod, buffered, disk, offered,
                 accepted, starts>>

\* The stream's buffer is full: the library writes part of it.
Spill(s) ==
  /\ buffered[s] # <<>>
  /\ disk' = [disk EXCEPT ![s] = Append(@, Head(buffered[s]))]
  /\ buffered' = [buffered EXCEPT ![s] = Tail(@)]
  /\ UNCHANGED <<impl, ring, write, read, dropped, stop, prod, wr, offered, accepted, starts>>

\* The process dies: the ring and the buffers are gone.
Crash ==
  /\ impl # "none"
  /\ impl' = "none"
  /\ prod' = IdleProducer
  /\ wr' = IdleWriter
  /\ buffered' = NoLines
  /\ UNCHANGED <<ring, write, read, dropped, stop, disk, offered, accepted, starts>>

Next ==
  \/ Start \/ StartFails \/ Shutdown \/ Joined
  \/ \E rec \in Records : Offer(rec)
  \/ Fill \/ Publish \/ Notify
  \/ Scan \/ Drain \/ Release \/ Flush \/ Wake
  \/ \E s \in Streams : Spill(s)
  \/ Crash

Spec == Init /\ [][Next]_vars

\* The writer thread is scheduled, wait_for times out at the latest after
\* flush_interval_ms, and a call that has entered try_enqueue returns.
FairSpec ==
  Spec /\ WF_vars(Fill \/ Publish \/ Notify)
       /\ WF_vars(Scan \/ Drain \/ Release \/ Flush \/ Wake)
       /\ WF_vars(Joined)

-----------------------------------------------------------------------------
Lines == [event : Kinds, order : Orders \cup {0}, parent : Orders \cup {0}]
Indices == 0 .. RingSize - 1

TypeOK ==
  /\ impl \in {"none", "open", "joining"}
  /\ ring \in [Indices -> Records \cup {NoRecord}]
  /\ write \in Indices /\ read \in Indices
  /\ dropped \in 0 .. MaxEvents
  /\ stop \in BOOLEAN
  /\ prod \in [pc : {"idle", "fill", "publish", "notify"}, rec : Records \cup {NoRecord},
               write : Indices, read : Indices]
  /\ wr \in [pc : {"none", "scan", "drain", "release", "wait", "done"}, read : Indices,
             write : Indices, drained : BOOLEAN, final : BOOLEAN]
  /\ buffered \in [Streams -> Seq(Lines)]
  /\ disk \in [Streams -> Seq(Lines)]
  /\ offered \in Seq(Records) /\ accepted \in Seq(Records)
  /\ starts \in 0 .. MaxStarts

\* The records between the indices that the writer has not rendered: while it
\* is between Drain and Release the oldest one is rendered already.
Unread == (write + RingSize - read) % RingSize
Unrendered ==
  LET rendered == IF wr.pc = "release" THEN 1 ELSE 0
  IN [i \in 1 .. Unread - rendered |-> ring[(read + rendered + i - 1) % RingSize]]

LinesOf(recs, s) ==
  LET mine == SelectSeq(recs, LAMBDA rec : rec.stream = s)
  IN [i \in DOMAIN mine |-> Rendered(mine[i])]

\* Each file is, at every moment, the accepted records of its stream in the
\* order they were recorded: first the lines on disk, then those in the
\* stream's buffer, then those still in the ring, with no record torn, lost,
\* repeated or moved to the other file.  After a crash the file is a prefix.
FilesFollowTheRing ==
  \A s \in Streams :
    LET all == LinesOf(accepted, s)
    IN IF impl = "none"
       THEN IsPrefix(disk[s], all)
       ELSE disk[s] \o buffered[s] \o LinesOf(Unrendered, s) = all

\* Every event offered to an open recorder was taken, was counted by
\* dropped_count(), or is being put into the ring by try_enqueue right now.
EveryEventAccounted ==
  impl # "none" =>
    Len(offered) = Len(accepted) + dropped + (IF prod.pc \in {"fill", "publish"} THEN 1 ELSE 0)

\* When the join in shutdown returns, every record taken before it is on disk:
\* nothing the trading thread enqueued before the stop request is left behind.
ShutdownWritesEverything ==
  [][Joined => \A s \in Streams : disk'[s] = LinesOf(accepted, s)]_vars

\* A record the ring has taken reaches the file although notify_one is called
\* without the mutex and may be lost, unless the process dies first.
EventuallyOnDisk ==
  \A n \in 1 .. MaxEvents :
    (impl # "none" /\ Len(accepted) = n)
      ~> (impl = "none" \/ Len(disk["business"]) + Len(disk["debug"]) >= n)

\* Ring, stream buffers and files together hold exactly what was accepted, and
\* what was not accepted is counted (try_enqueue against the writer thread).
RecorderInvariant == TypeOK /\ FilesFollowTheRing /\ EveryEventAccounted
=============================================================================
