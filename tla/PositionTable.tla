---------------------------- MODULE PositionTable ----------------------------
(***************************************************************************)
(* portfolio/position_manager.cpp and position_loader.cpp: the life of the   *)
(* positions region.  A fresh region (init_state 0) is cleared and filled    *)
(* row by row from a snapshot, a database or a CSV file; init_state becomes  *)
(* 1 only at the end, and from then on a restart trusts the region and never *)
(* looks at the snapshot again, but goes over the keys one by one.  Trades   *)
(* change rows and add them while the service is up.                       *)
(*                                                                         *)
(* The process may die between any two steps; a key, and the numbers of a    *)
(* row, are one store each.  Of a row's numbers the three volumes that trades *)
(* move are kept.  A security key is the security and its spelling, "mic"    *)
(* for the canonical XSHE_000001, "legacy" for SZ.000001, "other" for a text *)
(* no parser accepts.  What trades do to the fund row is FundRow.            *)
(***************************************************************************)
EXTENDS Naturals, Sequences, FiniteSets

CONSTANTS
  Securities,   \* the securities that appear in snapshots and trades
  Capacity,     \* kMaxSecurityPositions
  Snapshots,    \* what db_path or the CSV file may hold
  Leftovers,    \* what the marked region of an earlier build may hold
  MaxStarts,    \* bound: starts of the service
  MaxTrades,    \* bound: trades
  MaxVolume     \* bound: the volume of one trade

ASSUME BoundsAssumption ==
  /\ Capacity \in Nat \ {0} /\ MaxStarts \in Nat
  /\ MaxTrades \in Nat /\ MaxVolume \in Nat

VARIABLES
  region,    \* the shared-memory object
  index,     \* security_to_row_
  db,        \* db_enabled_, fixed by the configuration
  snapshot,  \* the database or the CSV file
  pc,        \* where the service is
  cursor,    \* rows of the snapshot, or of the marked region, gone over so far
  job,       \* the row being written: its security, its volumes or a trade's, for whom
  starts,    \* starts so far
  trades,    \* trades so far
  seeded,    \* ghost: the snapshot the served region was filled from
  bought,    \* ghost: the volume buys have added since
  sold,      \* ghost: the volume sells have taken out since
  monitor    \* a client of position_monitor_api.cpp: where it is, the row it reads

table == <<region, index, db, snapshot, pc, cursor, job, starts, trades, seeded,
           bought, sold>>

vars == <<table, monitor>>

Spellings == {"mic", "legacy", "other"}
Keys == [sec : Securities, form : Spellings]
NoKey == [sec |-> "none", form |-> "none"]
NoRow == 0

DefaultFund == "default"     \* kDefaultInitialFund
NoFund == "missing"          \* account_info has no row for the account

\* normalize_internal_security_id.
Normalizable(key) == key.form \in {"mic", "legacy"}
Normalize(key) == [key EXCEPT !.form = "mic"]

\* volume_available_t0, which sells draw on, volume_available_t1, which buys go to,
\* and volume_sell, frozen for sells by whoever wrote the snapshot.
Volumes == [t0 : Nat, t1 : Nat, sell : Nat]
Nothing == [t0 |-> 0, t1 |-> 0, sell |-> 0]

SeedRow == [key : Keys, volume : Volumes]

\* What a file or a database may say: texts for the keys, numbers that parse.
ASSUME SnapshotsAssumption ==
  Snapshots \subseteq [rows : Seq(SeedRow), fund : STRING, readable : BOOLEAN]

\* Earlier builds too add a row only for a security that has none.
ASSUME LeftoversAssumption ==
  /\ Leftovers \subseteq Seq(SeedRow)
  /\ \A rows \in Leftovers :
       /\ Len(rows) <= Capacity
       /\ \A q, r \in 1 .. Len(rows) : rows[q].key.sec = rows[r].key.sec => q = r

EmptyRow == [key |-> NoKey, volume |-> Nothing, locked |-> FALSE]
Rows == 1 .. Capacity
NoJob == [sec |-> "none", volume |-> 0, for |-> "none"]

\* open_positions on a name that does not exist yet.
FreshRegion ==
  [exists |-> TRUE, init_state |-> 0, count |-> 0, next_id |-> 1, fund |-> "none",
   rows |-> [r \in Rows |-> EmptyRow]]
NoRegion == [FreshRegion EXCEPT !.exists = FALSE]

\* A region an earlier build left behind, its keys spelled the way that build did.
LeftRegion(rows) ==
  [FreshRegion EXCEPT
     !.init_state = 1, !.count = Len(rows), !.next_id = Len(rows) + 1, !.fund = DefaultFund,
     !.rows = [r \in Rows |-> IF r <= Len(rows)
                              THEN [key |-> rows[r].key, volume |-> rows[r].volume,
                                    locked |-> FALSE]
                              ELSE EmptyRow]]

EmptyIndex == [s \in Securities |-> NoRow]

NoneTraded == [s \in Securities |-> 0]

Init ==
  /\ \/ region = NoRegion /\ seeded = [rows |-> <<>>, fund |-> DefaultFund]
     \/ \E rows \in Leftovers :
          region = LeftRegion(rows) /\ seeded = [rows |-> rows, fund |-> DefaultFund]
  /\ index = EmptyIndex
  /\ db \in BOOLEAN
  /\ snapshot \in Snapshots
  /\ pc = "down" /\ cursor = 0 /\ job = NoJob
  /\ starts = 0 /\ trades = 0
  /\ bought = NoneTraded /\ sold = NoneTraded
  /\ monitor = [at |-> "closed", row |-> NoRow]

-----------------------------------------------------------------------------
(* Starting: open_positions, then PositionManager::initialize.               *)

Start ==
  /\ pc = "down" /\ starts < MaxStarts
  /\ starts' = starts + 1
  /\ region' = IF region.exists THEN region ELSE FreshRegion
  /\ index' = EmptyIndex
  /\ pc' = "initialize"
  /\ UNCHANGED <<db, snapshot, cursor, job, trades, seeded, bought, sold>>

\* initialize returns false, and the service gives up.
GiveUp ==
  /\ pc' = "down"
  /\ cursor' = 0 /\ job' = NoJob
  /\ index' = EmptyIndex

\* An interrupted load is recognised by rows without the final mark.
Corrupt == region.init_state # 1 /\ region.count # 0

RefuseCorrupt ==
  /\ pc = "initialize" /\ Corrupt
  /\ GiveUp
  /\ UNCHANGED <<region, db, snapshot, starts, trades, seeded, bought, sold>>

\* Fault: the fresh path is taken on a region that is in use.
InitializeFreshAlways ==
  /\ pc = "initialize" /\ ~Corrupt
  /\ region' = [FreshRegion EXCEPT !.fund = DefaultFund]
  /\ pc' = IF db THEN "fund" ELSE "rows"
  /\ UNCHANGED <<index, db, snapshot, cursor, job, starts, trades, seeded, bought, sold>>

\* The fresh path: everything is cleared before the loader runs.
InitializeFresh ==
  /\ pc = "initialize" /\ region.init_state # 1 /\ ~Corrupt
  /\ region' = [FreshRegion EXCEPT !.fund = DefaultFund]
  /\ pc' = IF db THEN "fund" ELSE "rows"
  /\ UNCHANGED <<index, db, snapshot, cursor, job, starts, trades, seeded, bought, sold>>

\* The restart path trusts the region and goes over its rows.
InitializeAttached ==
  /\ pc = "initialize" /\ region.init_state = 1
  /\ pc' = "attach"
  /\ UNCHANGED <<region, index, db, snapshot, cursor, job, starts, trades, seeded, bought, sold>>

\* Fault: a key in the old spelling goes into the index under that spelling.
RebuiltVerbatim(key, r) == IF key.form = "legacy" THEN index ELSE [index EXCEPT ![key.sec] = r]

\* The row's key as it is spelled now leads to the row.
Rebuilt(key, r) == [index EXCEPT ![key.sec] = r]

\* One counted row: without an id it is skipped, with one that does not parse it
\* ends the start, and else its key is spelled the new way and indexed.
AttachRow ==
  /\ pc = "attach" /\ cursor < region.count
  /\ LET r == cursor + 1
         key == region.rows[r].key
     IN IF key # NoKey /\ ~Normalizable(key)
        THEN GiveUp /\ UNCHANGED region
        ELSE /\ cursor' = r
             /\ IF key = NoKey
                THEN UNCHANGED <<region, index>>
                ELSE /\ region' = [region EXCEPT !.rows[r].key = Normalize(key)]
                     /\ index' = Rebuilt(key, r)
             /\ UNCHANGED <<pc, job>>
  /\ UNCHANGED <<db, snapshot, starts, trades, seeded, bought, sold>>

AttachDone ==
  /\ pc = "attach" /\ cursor = region.count
  /\ region' = [region EXCEPT !.next_id = region.count + 1]
  /\ pc' = "up" /\ cursor' = 0
  /\ UNCHANGED <<index, db, snapshot, job, starts, trades, seeded, bought, sold>>

-----------------------------------------------------------------------------
(* The loader.                                                             *)

\* open_sqlite_readonly, and prepare_statement on what it opened.
DatabaseOpens == snapshot.readable

\* load_fund_from_db: account_info has a row for the account, with four counts.
FundRowFound == snapshot.fund # NoFund

\* load_from_db: the fund row is overwritten before the securities are read.
LoadFund ==
  /\ pc = "fund"
  /\ IF DatabaseOpens /\ FundRowFound
     THEN /\ region' = [region EXCEPT !.fund = snapshot.fund]
          /\ pc' = "rows"
          /\ UNCHANGED <<cursor, job, index>>
     ELSE GiveUp /\ UNCHANGED region
  /\ UNCHANGED <<db, snapshot, starts, trades, seeded, bought, sold>>

\* A CSV file that cannot be opened is an empty snapshot.
CsvRows == IF snapshot.readable THEN snapshot.rows ELSE <<>>

\* load_positions_from_db goes over the whole table.
DbRows == snapshot.rows

RowsToLoad == IF db THEN DbRows ELSE CsvRows

\* add_security has no row left.
Full == region.count >= Capacity

\* Fault: the row is counted with its key still to be written.
InsertRowUnnamed(s) ==
  LET r == region.count + 1
  IN /\ region' = [region EXCEPT !.rows[r] = EmptyRow]
     /\ index' = [index EXCEPT ![s] = r]

\* clear_position, id and name, then the index; the row is not counted yet.
InsertRow(s) ==
  LET r == region.count + 1
  IN /\ region' = [region EXCEPT !.rows[r] =
                     [EmptyRow EXCEPT !.key = [sec |-> s, form |-> "mic"]]]
     /\ index' = [index EXCEPT ![s] = r]

\* apply_position_seed_row and apply_position_db_row up to the row lock: a row
\* of a security seen before is overwritten, a text or number that does not
\* parse and a full table fail the load.
LoadRow ==
  /\ pc = "rows" /\ cursor < Len(RowsToLoad)
  /\ LET row == RowsToLoad[cursor + 1]
         s == row.key.sec
     IN IF ~Normalizable(row.key) \/ (index[s] = NoRow /\ Full)
        THEN GiveUp /\ UNCHANGED region
        ELSE /\ cursor' = cursor + 1
             /\ job' = [sec |-> s, volume |-> row.volume, for |-> "load"]
             /\ IF index[s] = NoRow
                THEN InsertRow(s) /\ pc' = "publish"
                ELSE pc' = "lock" /\ UNCHANGED <<region, index>>
  /\ UNCHANGED <<db, snapshot, starts, trades, seeded, bought, sold>>

\* The end of initialize: the mark is the last store.
FinishLoad ==
  /\ pc = "rows" /\ cursor = Len(RowsToLoad)
  /\ region' = [region EXCEPT !.next_id = region.count + 1, !.init_state = 1]
  /\ seeded' = [rows |-> RowsToLoad, fund |-> IF db THEN snapshot.fund ELSE DefaultFund]
  /\ bought' = NoneTraded /\ sold' = NoneTraded
  /\ pc' = "up" /\ cursor' = 0
  /\ UNCHANGED <<index, db, snapshot, job, starts, trades>>

-----------------------------------------------------------------------------
(* One row: add_security's publication and the locked update that follows.   *)

PublishRow ==
  /\ pc = "publish"
  /\ region' = [region EXCEPT !.count = @ + 1, !.next_id = region.count + 2]
  /\ pc' = "lock"
  /\ UNCHANGED <<index, db, snapshot, cursor, job, starts, trades, seeded, bought, sold>>

\* position_lock spins until the row's flag is clear.
LockRow ==
  /\ pc = "lock" /\ ~region.rows[index[job.sec]].locked
  /\ region' = [region EXCEPT !.rows[index[job.sec]].locked = TRUE]
  /\ pc' = "fill"
  /\ UNCHANGED <<index, db, snapshot, cursor, job, starts, trades, seeded, bought, sold>>

\* Fault: the whole volume is taken from what can be sold, frozen volume or not.
DeductedTwice(v, n) ==
  IF v.sell >= n
  THEN [v EXCEPT !.sell = @ - n]
  ELSE [v EXCEPT !.sell = 0, !.t0 = IF @ < n THEN @ ELSE @ - n]

\* deduct_position: the frozen volume first, then what can be sold; when that is
\* not enough either the sell is refused, with the frozen part gone.
Deducted(v, n) ==
  LET rest == n - v.sell
  IN IF v.sell >= n
     THEN [v EXCEPT !.sell = @ - n]
     ELSE [v EXCEPT !.sell = 0, !.t0 = IF @ < rest THEN @ ELSE @ - rest]

\* The loader overwrites the row's numbers; add_position adds, deduct_position takes.
FilledVolume(v) ==
  IF job.for = "load" THEN job.volume
  ELSE IF job.for = "buy" THEN [v EXCEPT !.t1 = @ + job.volume]
  ELSE Deducted(v, job.volume)

\* What a sell of n takes out of a row: n, or the frozen part when it is refused.
SellTakes(v, n) == IF v.t0 + v.sell >= n THEN n ELSE v.sell

FillRow ==
  /\ pc = "fill"
  /\ LET r == index[job.sec]
         v == region.rows[r].volume
     IN /\ region' = [region EXCEPT !.rows[r].volume = FilledVolume(v)]
        /\ bought' = IF job.for = "buy" THEN [bought EXCEPT ![job.sec] = @ + job.volume] ELSE bought
        /\ sold' = IF job.for = "sell"
                   THEN [sold EXCEPT ![job.sec] = @ + SellTakes(v, job.volume)] ELSE sold
  /\ pc' = "unlock"
  /\ UNCHANGED <<index, db, snapshot, cursor, job, starts, trades, seeded>>

\* Fault: the guard outlives the row.
UnlockRowForgotten ==
  /\ pc = "unlock"
  /\ pc' = IF job.for = "load" THEN "rows" ELSE "up"
  /\ job' = NoJob
  /\ UNCHANGED <<region, index, db, snapshot, cursor, starts, trades, seeded, bought, sold>>

UnlockRow ==
  /\ pc = "unlock"
  /\ region' = [region EXCEPT !.rows[index[job.sec]].locked = FALSE]
  /\ pc' = IF job.for = "load" THEN "rows" ELSE "up"
  /\ job' = NoJob
  /\ UNCHANGED <<index, db, snapshot, cursor, starts, trades, seeded, bought, sold>>

-----------------------------------------------------------------------------
(* The service is up.                                                       *)

\* A trade of either side: a security without a row gets one first.  No room for
\* it, and a sell that is refused, is PositionUpdateFailed, a fatal error; the loop
\* finishes its pass, which may hold more trades, and stops.
Trade(s, n, side) ==
  /\ pc = "up" /\ trades < MaxTrades
  /\ trades' = trades + 1
  /\ IF index[s] = NoRow /\ Full
     THEN UNCHANGED <<region, index, pc, job>>
     ELSE /\ job' = [sec |-> s, volume |-> n, for |-> side]
          /\ IF index[s] = NoRow
             THEN InsertRow(s) /\ pc' = "publish"
             ELSE pc' = "lock" /\ UNCHANGED <<region, index>>
  /\ UNCHANGED <<db, snapshot, cursor, starts, seeded, bought, sold>>

Sides == {"buy", "sell"}

Stop ==
  /\ pc = "up"
  /\ GiveUp
  /\ UNCHANGED <<region, db, snapshot, starts, trades, seeded, bought, sold>>

-----------------------------------------------------------------------------
(* The surroundings: a crash at any point, the operator between two starts.  *)

Crash ==
  /\ pc # "down"
  /\ GiveUp
  /\ UNCHANGED <<region, db, snapshot, starts, trades, seeded, bought, sold>>

EditSnapshot ==
  /\ pc = "down"
  /\ snapshot' \in Snapshots
  /\ UNCHANGED <<region, index, db, pc, cursor, job, starts, trades, seeded, bought, sold>>

RemoveRegion ==
  /\ pc = "down" /\ region.exists
  /\ region' = NoRegion
  /\ monitor' = IF monitor.at = "closed" THEN monitor ELSE [at |-> "orphaned", row |-> NoRow]
  /\ UNCHANGED <<index, db, snapshot, pc, cursor, job, starts, trades, seeded, bought, sold>>

-----------------------------------------------------------------------------
(* A monitor.  What it mapped stays mapped: a region that is removed under it *)
(* is one that nobody changes any more.                                     *)

\* validate_header: the layout, and the mark of a finished load.
ValidHeader == region.exists /\ region.init_state = 1

\* acct_positions_mon_open fails, and may be called again, until that holds.
MonitorOpen ==
  /\ monitor.at = "closed" /\ ValidHeader
  /\ monitor' = [at |-> "open", row |-> NoRow]
  /\ UNCHANGED table

MonitorClose ==
  /\ monitor.at # "closed"
  /\ monitor' = [at |-> "closed", row |-> NoRow]
  /\ UNCHANGED table

\* acct_positions_mon_read_position: an index below position_count.
MonitorRead(r) ==
  /\ monitor.at = "open" /\ r <= region.count
  /\ monitor' = [at |-> "reading", row |-> r]
  /\ UNCHANGED table

\* try_read_stable_position_snapshot: a row that is not locked is copied; 32
\* attempts at a locked one end in ACCT_POS_MON_ERR_RETRY.
MonitorCopied ==
  /\ monitor.at = "reading"
  /\ monitor' = [at |-> "open", row |-> NoRow]
  /\ UNCHANGED table

Monitor == MonitorOpen \/ MonitorClose \/ MonitorCopied \/ \E r \in Rows : MonitorRead(r)

-----------------------------------------------------------------------------
Initialize == RefuseCorrupt \/ InitializeFresh \/ InitializeAttached \/ AttachRow \/ AttachDone

Load == LoadFund \/ LoadRow \/ FinishLoad

WriteRow == PublishRow \/ LockRow \/ FillRow \/ UnlockRow

Next ==
  \/ /\ \/ Start \/ Initialize \/ Load \/ WriteRow
        \/ \E s \in Securities, n \in 1 .. MaxVolume, side \in Sides : Trade(s, n, side)
        \/ Stop \/ Crash \/ EditSnapshot
     /\ UNCHANGED monitor
  \/ RemoveRegion
  \/ Monitor

\* The thread that started goes on; trades, crashes and the operator owe nothing.
Fairness == WF_table(Initialize) /\ WF_table(Load) /\ WF_table(WriteRow)

Spec == Init /\ [][Next]_vars /\ Fairness

-----------------------------------------------------------------------------
(* Properties.                                                             *)

TypeOK ==
  /\ region \in [exists : BOOLEAN, init_state : {0, 1}, count : 0 .. Capacity,
                 next_id : 1 .. Capacity + 1, fund : {"none", DefaultFund} \cup
                 {x.fund : x \in Snapshots},
                 rows : [Rows -> [key : Keys \cup {NoKey}, volume : Volumes, locked : BOOLEAN]]]
  /\ index \in [Securities -> 0 .. Capacity]
  /\ db \in BOOLEAN /\ snapshot \in Snapshots
  /\ pc \in {"down", "initialize", "attach", "fund", "rows", "publish", "lock", "fill",
             "unlock", "up"}
  /\ cursor \in Nat /\ starts \in 0 .. MaxStarts /\ trades \in 0 .. MaxTrades
  /\ bought \in [Securities -> Nat] /\ sold \in [Securities -> Nat]
  /\ monitor \in [at : {"closed", "open", "reading", "orphaned"}, row : 0 .. Capacity]

\* What the last row of a snapshot about a security says.
SeedVolume(rows, s) ==
  LET about == {i \in DOMAIN rows : rows[i].key.sec = s}
  IN IF about = {} THEN Nothing ELSE rows[CHOOSE i \in about : \A j \in about : j <= i].volume

HeldVolume(s) == IF index[s] = NoRow THEN Nothing ELSE region.rows[index[s]].volume

\* The volumes held of a security are the seed, b more for tomorrow and x less to sell.
AddsUp(held, seed, b, x) ==
  held.t1 = seed.t1 + b /\ held.t0 + held.sell + x = seed.t0 + seed.sell

\* A table that is served is whole: whatever crashes, failed loads, restarts
\* and edits of the snapshot came before, every security holds the volumes of
\* its last row in the one snapshot the region was filled from, plus what buys
\* added, minus what sells took, and the fund row is that snapshot's
\* (position_manager.cpp initialize, add_position and deduct_position, and
\* position_loader.cpp load: the mark is stored last).
ServedTableIsWhole ==
  pc = "up" =>
    /\ region.fund = seeded.fund
    /\ \A s \in Securities :
         AddsUp(HeldVolume(s), SeedVolume(seeded.rows, s), bought[s], sold[s])

\* A served table and its index say the same: rows 1 to count carry distinct
\* canonical keys, the index finds each of them, and the next id follows the
\* count (add_security and the rebuild of security_to_row_ after a restart).
IndexMatchesRows ==
  pc = "up" =>
    /\ region.init_state = 1 /\ region.next_id = region.count + 1
    /\ \A r \in 1 .. region.count :
         region.rows[r].key.form = "mic" /\ index[region.rows[r].key.sec] = r
    /\ Cardinality({s \in Securities : index[s] # NoRow}) = region.count

\* Once the region is marked initialised no step of the service, a crash and a
\* restart included, takes the mark, a row, or the loaded fund away, and a volume
\* changes only where a trade of that very security is settled: only the operator
\* who removes the region does more (initialize must not clear or reload what it
\* finds, and spells a key anew without losing the row).
RestartKeepsHoldings ==
  [][(region.init_state = 1 /\ region.exists /\ region'.exists) =>
       /\ region'.init_state = 1 /\ region'.fund = region.fund /\ region'.count >= region.count
       /\ \A r \in 1 .. region.count :
            /\ region'.rows[r].key.sec = region.rows[r].key.sec
            /\ \/ region'.rows[r].volume = region.rows[r].volume
               \/ pc = "fill" /\ job.for \in Sides /\ job.sec = region.rows[r].key.sec]_vars

\* Every start ends, served or given up: the loader never waits for a row lock
\* of its own, of a repeated security, or of a process that died.
EveryStartEnds == pc = "initialize" ~> pc \in {"up", "down"}

\* A monitor that is open looks at a table that is served, and a row whose
\* index it found below position_count has its key when the copy is made,
\* whatever the service does in between: load, add rows, die, start again
\* (position_manager.cpp publishes the count after the key; a row without one
\* is "not stable" for ever to position_monitor_api.cpp).
MonitorsSeeNamedRows ==
  /\ monitor.at \in {"open", "reading"} => ValidHeader
  /\ monitor.at = "reading" => region.rows[monitor.row].key # NoKey

\* The rows never outgrow the table, and rows and index agree when it is served
\* (add_security, initialize).
TableInvariant == TypeOK /\ IndexMatchesRows
=============================================================================
