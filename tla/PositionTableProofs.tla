------------------------- MODULE PositionTableProofs -------------------------
(***************************************************************************)
(* Theorems about PositionTable, for any securities, any number of rows and  *)
(* any snapshots: what a monitor sees, what a restart leaves alone, and that *)
(* a served table is whole and its index finds every row.                  *)
(*                                                                         *)
(* Inv is about keys, marks and monitors.  TableInStep adds where the       *)
(* volumes come from: in a marked region from the snapshot it was filled     *)
(* from and from trades, during a load from the rows read so far; that a     *)
(* row is indexed before it is counted; and how far a restart has got with   *)
(* the index.                                                              *)
(***************************************************************************)
EXTENDS PositionTable, FiniteSetTheorems, WellFoundedInduction, TLAPS

\* The places of the service between the choice of a row and its release.
Working == {"publish", "lock", "fill", "unlock"}

Jobs == [sec : Securities, volume : Volumes, for : {"load"}]
          \cup [sec : Securities, volume : Nat, for : Sides]

Row == [key : Keys \cup {NoKey}, volume : Volumes, locked : BOOLEAN]

\* The loader only ever works on a region that is not marked yet, the restart path on
\* one that is.
LoadsAreUnmarked ==
  /\ pc \in {"fund", "rows"} => region.init_state = 0
  /\ pc = "attach" => region.init_state = 1
  /\ pc \in Working => /\ job \in Jobs
                       /\ index[job.sec] \in Rows
                       /\ job.for = "load" => region.init_state = 0

\* Every row that is counted, or is about to be, has its key.
CountedRowsAreNamed ==
  /\ \A r \in 1 .. region.count : region.rows[r].key \in Keys
  /\ pc = "publish" => /\ region.count < Capacity
                       /\ region.rows[region.count + 1].key \in Keys

\* A monitor looks at a marked region and at a row that is counted.
MonitorsAreServed ==
  /\ monitor.at \in {"open", "reading"} => ValidHeader
  /\ monitor.at = "reading" => monitor.row \in 1 .. region.count

Inv == TypeOK /\ LoadsAreUnmarked /\ CountedRowsAreNamed /\ MonitorsAreServed

-----------------------------------------------------------------------------
(* The data.                                                               *)

Fund == {"none", DefaultFund} \cup {x.fund : x \in Snapshots}

Region == [exists : BOOLEAN, init_state : {0, 1}, count : 0 .. Capacity,
           next_id : 1 .. Capacity + 1, fund : Fund, rows : [Rows -> Row]]

\* A key that names a security is never the empty one.
LEMMA KeyFacts == NoKey \notin Keys
BY DEF NoKey, Keys, Spellings

LEMMA RowFacts == EmptyRow \in Row /\ Nothing \in Volumes
BY DEF EmptyRow, Row, Nothing, Volumes

\* What a job says, by whom it is for.
LEMMA JobFacts ==
  ASSUME NEW j \in Jobs
  PROVE  /\ j.sec \in Securities /\ j.for \in {"load", "buy", "sell"}
         /\ j.for = "load" => j.volume \in Volumes
         /\ j.for # "load" => j.volume \in Nat /\ j.for \in Sides
BY DEF Jobs, Sides

\* A region as open_positions creates it.
LEMMA FreshFacts ==
  /\ FreshRegion \in Region
  /\ FreshRegion.init_state = 0 /\ FreshRegion.count = 0 /\ FreshRegion.exists
<1>1. [r \in Rows |-> EmptyRow] \in [Rows -> Row]
  BY RowFacts
<1> QED BY <1>1, BoundsAssumption DEF FreshRegion, Region, Fund

LEMMA NoRegionFacts ==
  /\ NoRegion \in Region
  /\ NoRegion.init_state = 0 /\ NoRegion.count = 0 /\ ~NoRegion.exists
<1>1. NoRegion = [FreshRegion EXCEPT !.exists = FALSE]
  BY DEF NoRegion
<1> HIDE DEF NoRegion, FreshRegion
<1> QED BY <1>1, FreshFacts DEF Region

\* A region that an earlier build left behind.
LEMMA LeftFacts ==
  ASSUME NEW seed \in Leftovers
  PROVE  /\ LeftRegion(seed) \in Region
         /\ LeftRegion(seed).init_state = 1 /\ LeftRegion(seed).count = Len(seed)
         /\ LeftRegion(seed).fund = DefaultFund
         /\ \A r \in 1 .. Len(seed) : /\ seed[r] \in SeedRow
                                      /\ LeftRegion(seed).rows[r].key = seed[r].key
                                      /\ LeftRegion(seed).rows[r].volume = seed[r].volume
<1> DEFINE rows == [r \in Rows |-> IF r <= Len(seed)
                                   THEN [key |-> seed[r].key, volume |-> seed[r].volume,
                                         locked |-> FALSE]
                                   ELSE EmptyRow]
           old == LeftRegion(seed)
<1>1. /\ seed \in Seq(SeedRow) /\ Len(seed) \in Nat /\ Len(seed) <= Capacity
      /\ Len(seed) \in 0 .. Capacity /\ Len(seed) + 1 \in 1 .. Capacity + 1
  BY LeftoversAssumption, BoundsAssumption
<1>2. \A r \in 1 .. Len(seed) : seed[r] \in SeedRow /\ r \in Rows
  BY <1>1, BoundsAssumption DEF Rows
<1>3. ASSUME NEW r \in Rows
      PROVE  /\ rows[r] \in Row
             /\ r <= Len(seed) => rows[r].key = seed[r].key /\ rows[r].volume = seed[r].volume
  <2>1. CASE r <= Len(seed)
    <3>1. r \in 1 .. Len(seed)
      BY <1>1, <2>1 DEF Rows
    <3>2. seed[r] \in SeedRow
      BY <1>2, <3>1
    <3>3. rows[r] = [key |-> seed[r].key, volume |-> seed[r].volume, locked |-> FALSE]
      BY <2>1
    <3> HIDE DEF rows
    <3> QED BY <3>2, <3>3 DEF Row, SeedRow
  <2>2. CASE ~(r <= Len(seed))
    BY <2>2, RowFacts
  <2> QED BY <2>1, <2>2
<1>4. rows \in [Rows -> Row]
  BY <1>3
<1>5. old = [FreshRegion EXCEPT !.init_state = 1, !.count = Len(seed),
                                !.next_id = Len(seed) + 1, !.fund = DefaultFund, !.rows = rows]
  BY DEF LeftRegion
<1>6. DefaultFund \in Fund
  BY DEF Fund
<1> HIDE DEF rows, old
<1>7. old \in Region /\ old.init_state = 1 /\ old.count = Len(seed) /\ old.fund = DefaultFund
      /\ old.rows = rows
  BY <1>1, <1>4, <1>5, <1>6, FreshFacts DEF Region
<1>8. \A r \in 1 .. Len(seed) : r <= Len(seed)
  BY <1>1
<1> QED BY <1>2, <1>3, <1>7, <1>8 DEF old

\* What is loaded is a sequence of well-formed rows.
LEMMA RowsToLoadType ==
  ASSUME snapshot \in Snapshots
  PROVE  RowsToLoad \in Seq(SeedRow)
<1>1. snapshot.rows \in Seq(SeedRow)
  BY SnapshotsAssumption DEF SeedRow
<1>2. <<>> \in Seq(SeedRow)
  OBVIOUS
<1> QED BY <1>1, <1>2 DEF RowsToLoad, DbRows, CsvRows

\* A set of naturals has a least element.
LEMMA LeastNatural ==
  ASSUME NEW S, S \subseteq Nat, S # {}
  PROVE  \E x \in S : \A y \in S : x <= y
<1> DEFINE less == OpToRel(<, Nat)
<1>1. IsWellFoundedOn(less, Nat)
  BY NatLessThanWellFounded
<1>2. \A x, y \in Nat : x < y => <<x, y>> \in less
  BY DEF OpToRel
<1> HIDE DEF less
<1>3. PICK x \in S : \A y \in S : ~(<<y, x>> \in less)
  BY <1>1, WFMin
<1>4. ASSUME NEW y \in S PROVE x <= y
  <2>1. x \in Nat /\ y \in Nat /\ ~(y < x)
    BY <1>2, <1>3
  <2> QED BY <2>1
<1> QED BY <1>4

\* Of some rows one is the last.
LEMMA GreatestRow ==
  ASSUME NEW n \in Nat, NEW found, found \subseteq 1 .. n, found # {}
  PROVE  \E r \in found : \A q \in found : q <= r
<1> DEFINE gaps == {n - r : r \in found}
<1>1. \A r \in found : r \in 1 .. n
  OBVIOUS
<1>2. gaps \subseteq Nat
  BY <1>1
<1>3. gaps # {}
  OBVIOUS
<1>4. PICK g \in gaps : \A h \in gaps : g <= h
  <2> HIDE DEF gaps
  <2> QED BY <1>2, <1>3, LeastNatural
<1>5. PICK r \in found : g = n - r
  BY <1>4
<1>6. \A q \in found : n - q \in gaps
  OBVIOUS
<1>7. \A q \in found : g <= n - q
  BY <1>4, <1>6
<1>8. \A q \in found : q <= r
  BY <1>1, <1>5, <1>7
<1> QED BY <1>8

\* A store into one row of the table.
Stored(old, r, row) == [old EXCEPT !.rows[r] = row]

LEMMA RowStored ==
  ASSUME NEW old \in Region, NEW r \in Rows, NEW row \in Row
  PROVE  /\ Stored(old, r, row) \in Region
         /\ Stored(old, r, row).exists = old.exists
         /\ Stored(old, r, row).init_state = old.init_state
         /\ Stored(old, r, row).count = old.count
         /\ Stored(old, r, row).fund = old.fund
         /\ Stored(old, r, row).next_id = old.next_id
         /\ Stored(old, r, row).rows[r] = row
         /\ \A q \in Rows : q # r => Stored(old, r, row).rows[q] = old.rows[q]
<1> DEFINE new == Stored(old, r, row)
<1>1. new.rows = [old.rows EXCEPT ![r] = row]
  BY DEF Region, Stored
<1>2. old.rows \in [Rows -> Row]
  BY DEF Region
<1>3. new.rows \in [Rows -> Row]
  BY <1>1, <1>2
<1>4. new \in Region
  BY <1>3 DEF Region, Stored
<1> QED BY <1>1, <1>2, <1>4 DEF Region, Stored

-----------------------------------------------------------------------------
(* The steps.  Each keeps the invariant, and none takes a holding away.      *)

\* What RestartKeepsHoldings says of one step, with the row a trade is at for the security.
Keeps ==
  (region.init_state = 1 /\ region.exists /\ region'.exists) =>
    /\ region'.init_state = 1 /\ region'.fund = region.fund /\ region'.count >= region.count
    /\ \A r \in 1 .. region.count :
         /\ region'.rows[r].key.sec = region.rows[r].key.sec
         /\ \/ region'.rows[r].volume = region.rows[r].volume
            \/ pc = "fill" /\ job.for \in Sides /\ r = index[job.sec]

LEMMA TypeOfRegion == TypeOK <=> /\ TypeOK /\ region \in Region
BY DEF TypeOK, Region, Row, Fund

LEMMA SameRegionKeeps ==
  ASSUME Inv, region' = region
  PROVE  Keeps
<1>1. region \in Region
  BY TypeOfRegion DEF Inv
<1>2. region.count >= region.count
  BY <1>1, BoundsAssumption DEF Region
<1> QED BY <1>2 DEF Keeps

LEMMA InitInv == Init => Inv
<1> SUFFICES ASSUME Init PROVE Inv
  OBVIOUS
<1>1. CASE region = NoRegion
  <2>1. region \in Region /\ region.count = 0
    BY <1>1, NoRegionFacts
  <2>2. CountedRowsAreNamed
    BY <2>1 DEF CountedRowsAreNamed, Init
  <2> QED BY <2>1, <2>2, BoundsAssumption
       DEF Inv, Init, TypeOK, LoadsAreUnmarked, MonitorsAreServed, Working, Region, Row, Fund,
           EmptyIndex, NoneTraded, NoRow
<1>2. CASE \E seed \in Leftovers : region = LeftRegion(seed)
  <2>1. PICK seed \in Leftovers : region = LeftRegion(seed)
    BY <1>2
  <2>2. region \in Region /\ region.count = Len(seed)
        /\ \A r \in 1 .. Len(seed) : region.rows[r].key \in Keys
    BY <2>1, LeftFacts DEF SeedRow
  <2>3. CountedRowsAreNamed
    BY <2>2 DEF CountedRowsAreNamed, Init
  <2> QED BY <2>2, <2>3, BoundsAssumption
       DEF Inv, Init, TypeOK, LoadsAreUnmarked, MonitorsAreServed, Working, Region, Row, Fund,
           EmptyIndex, NoneTraded, NoRow
<1> QED BY <1>1, <1>2 DEF Init

\* A process that ends leaves the region to the next one.
LEMMA GiveUpStep ==
  ASSUME Inv, GiveUp, UNCHANGED <<region, db, snapshot, monitor>>,
         starts' \in 0 .. MaxStarts, trades' \in 0 .. MaxTrades, bought' = bought, sold' = sold
  PROVE  Inv' /\ Keeps
<1>1. TypeOK'
  BY BoundsAssumption DEF Inv, TypeOK, GiveUp, EmptyIndex, NoRow
<1>2. LoadsAreUnmarked' /\ CountedRowsAreNamed' /\ MonitorsAreServed'
  BY DEF Inv, GiveUp, LoadsAreUnmarked, CountedRowsAreNamed, MonitorsAreServed, Working,
         ValidHeader
<1> QED BY <1>1, <1>2, SameRegionKeeps DEF Inv

LEMMA StartStep ==
  ASSUME Inv, Start, monitor' = monitor
  PROVE  Inv' /\ Keeps
<1>1. region \in Region /\ FreshRegion \in Region
  BY TypeOfRegion, FreshFacts DEF Inv
<1>2. region' \in Region
  BY <1>1 DEF Start
<1>3. TypeOK'
  BY <1>2, BoundsAssumption
  DEF Inv, TypeOK, Start, EmptyIndex, NoRow, Region, Row, Fund
<1>4. CASE region.exists
  <2>1. region' = region
    BY <1>4 DEF Start
  <2>2. LoadsAreUnmarked' /\ CountedRowsAreNamed' /\ MonitorsAreServed'
    BY <2>1 DEF Inv, Start, LoadsAreUnmarked, CountedRowsAreNamed, MonitorsAreServed, Working,
                ValidHeader
  <2> QED BY <1>3, <2>1, <2>2, SameRegionKeeps DEF Inv
<1>5. CASE ~region.exists
  <2>1. region' = FreshRegion
    BY <1>5 DEF Start
  <2>2. region'.count = 0
    BY <2>1, FreshFacts
  <2>3. CountedRowsAreNamed'
    BY <2>2 DEF CountedRowsAreNamed, Start
  <2>4. LoadsAreUnmarked' /\ MonitorsAreServed'
    BY <1>5 DEF Inv, Start, LoadsAreUnmarked, MonitorsAreServed, Working, ValidHeader
  <2> QED BY <1>3, <1>5, <2>3, <2>4 DEF Inv, Keeps
<1> QED BY <1>4, <1>5

LEMMA InitializeFreshStep ==
  ASSUME Inv, InitializeFresh, monitor' = monitor
  PROVE  Inv' /\ Keeps
<1>1. FreshRegion \in Region /\ FreshRegion.init_state = 0 /\ FreshRegion.count = 0
  BY FreshFacts
<1>2. region' = [FreshRegion EXCEPT !.fund = DefaultFund] /\ DefaultFund \in Fund
  BY DEF InitializeFresh, Fund
<1>3. region' \in Region /\ region'.init_state = 0 /\ region'.count = 0
  BY <1>1, <1>2 DEF Region
<1>4. TypeOK'
  BY <1>3 DEF Inv, TypeOK, InitializeFresh, Region, Row, Fund
<1>5. LoadsAreUnmarked' /\ MonitorsAreServed'
  BY <1>3 DEF Inv, InitializeFresh, LoadsAreUnmarked, MonitorsAreServed, Working, ValidHeader
<1>6. CountedRowsAreNamed'
  BY <1>3 DEF InitializeFresh, CountedRowsAreNamed
<1>7. Keeps
  BY DEF InitializeFresh, Keeps
<1> QED BY <1>4, <1>5, <1>6, <1>7 DEF Inv

LEMMA InitializeAttachedStep ==
  ASSUME Inv, InitializeAttached, monitor' = monitor
  PROVE  Inv' /\ Keeps
<1>1. TypeOK'
  BY DEF Inv, TypeOK, InitializeAttached
<1>2. LoadsAreUnmarked' /\ CountedRowsAreNamed' /\ MonitorsAreServed' /\ region' = region
  BY DEF Inv, InitializeAttached, LoadsAreUnmarked, CountedRowsAreNamed, MonitorsAreServed,
         Working, ValidHeader
<1> QED BY <1>1, <1>2, SameRegionKeeps DEF Inv

\* A counted row of an attached region gets its key anew, the same security's.
LEMMA RespelledRow ==
  ASSUME Inv, NEW r \in 1 .. region.count,
         region' = [region EXCEPT !.rows[r].key = Normalize(region.rows[r].key)]
  PROVE  /\ r \in Rows /\ region.rows[r].key \in Keys /\ region.rows[r].key.sec \in Securities
         /\ region' \in Region
         /\ region'.exists = region.exists /\ region'.init_state = region.init_state
         /\ region'.count = region.count /\ region'.fund = region.fund
         /\ region'.rows[r].key \in Keys /\ region'.rows[r].key.form = "mic"
         /\ region'.rows[r].key.sec = region.rows[r].key.sec
         /\ region'.rows[r].volume = region.rows[r].volume
         /\ \A q \in Rows : q # r => region'.rows[q] = region.rows[q]
<1> DEFINE row == [region.rows[r] EXCEPT !.key = Normalize(region.rows[r].key)]
<1>1. region \in Region
  BY TypeOfRegion DEF Inv
<1>2. r \in Rows /\ region.rows[r].key \in Keys
  BY <1>1, BoundsAssumption DEF Inv, CountedRowsAreNamed, Region, Rows
<1>3. region.rows[r] \in Row
  BY <1>1, <1>2 DEF Region
<1>4. /\ Normalize(region.rows[r].key) \in Keys
      /\ Normalize(region.rows[r].key).sec = region.rows[r].key.sec
      /\ Normalize(region.rows[r].key).form = "mic" /\ region.rows[r].key.sec \in Securities
  BY <1>2 DEF Normalize, Keys, Spellings
<1>5. row \in Row /\ row.key = Normalize(region.rows[r].key)
      /\ row.volume = region.rows[r].volume
  BY <1>3, <1>4 DEF Row
<1>6. region' = Stored(region, r, row)
  BY <1>1, <1>2 DEF Stored, Region
<1> HIDE DEF row
<1>7. /\ region' \in Region
      /\ region'.exists = region.exists /\ region'.init_state = region.init_state
      /\ region'.count = region.count /\ region'.fund = region.fund
      /\ region'.rows[r] = row
      /\ \A q \in Rows : q # r => region'.rows[q] = region.rows[q]
  BY ONLY <1>1, <1>2, <1>5, <1>6, RowStored
<1> QED BY ONLY <1>2, <1>4, <1>5, <1>7

LEMMA AttachRowStep ==
  ASSUME Inv, AttachRow, monitor' = monitor
  PROVE  Inv' /\ Keeps
<1> DEFINE r == cursor + 1
           key == region.rows[r].key
<1>1. region \in Region /\ cursor \in Nat /\ pc = "attach" /\ region.init_state = 1
  BY TypeOfRegion DEF Inv, TypeOK, AttachRow, LoadsAreUnmarked
<1>2. r \in 1 .. region.count /\ r \in Nat /\ region.count \in Nat
  BY <1>1, BoundsAssumption DEF AttachRow, Region
<1>3. key # NoKey
  BY <1>2, KeyFacts DEF Inv, CountedRowsAreNamed
<1>4. UNCHANGED <<db, snapshot, starts, trades, bought, sold>>
      /\ starts \in 0 .. MaxStarts /\ trades \in 0 .. MaxTrades
  BY DEF AttachRow, Inv, TypeOK
<1>5. CASE ~Normalizable(key)
  <2>1. GiveUp /\ UNCHANGED region
    BY <1>3, <1>5 DEF AttachRow
  <2> QED BY <1>4, <2>1, GiveUpStep
<1>6. CASE Normalizable(key)
  <2>1. /\ cursor' = r /\ region' = [region EXCEPT !.rows[r].key = Normalize(key)]
        /\ index' = [index EXCEPT ![key.sec] = r] /\ UNCHANGED <<pc, job>>
    BY <1>3, <1>6 DEF AttachRow, Rebuilt
  <2>2. /\ r \in Rows /\ key.sec \in Securities
        /\ region' \in Region
        /\ region'.exists = region.exists /\ region'.init_state = region.init_state
        /\ region'.count = region.count /\ region'.fund = region.fund
        /\ region'.rows[r].key \in Keys
        /\ region'.rows[r].key.sec = region.rows[r].key.sec
        /\ region'.rows[r].volume = region.rows[r].volume
        /\ \A q \in Rows : q # r => region'.rows[q] = region.rows[q]
    BY <1>2, <2>1, RespelledRow
  <2> HIDE DEF r, key
  <2>3. \A q \in 1 .. region.count : q \in Rows
    BY <1>1, BoundsAssumption DEF Region, Rows
  <2>4. r \in 0 .. Capacity
    BY <2>2, BoundsAssumption DEF Rows
  <2>5. TypeOK'
    BY <1>2, <1>4, <2>1, <2>2, <2>4 DEF Inv, TypeOK, Region, Row, Fund
  <2>6. LoadsAreUnmarked' /\ MonitorsAreServed'
    BY <1>1, <2>1, <2>2 DEF Inv, LoadsAreUnmarked, MonitorsAreServed, Working, ValidHeader
  <2>7. CountedRowsAreNamed'
    BY <1>1, <2>1, <2>2, <2>3 DEF Inv, CountedRowsAreNamed
  <2>8. Keeps
    <3>1. region.count >= region.count
      BY <1>2
    <3>2. \A q \in 1 .. region.count : /\ region'.rows[q].key.sec = region.rows[q].key.sec
                                        /\ region'.rows[q].volume = region.rows[q].volume
      BY <2>2, <2>3
    <3> QED BY <2>2, <3>1, <3>2 DEF Keeps
  <2> QED BY <2>5, <2>6, <2>7, <2>8 DEF Inv
<1> QED BY <1>5, <1>6

LEMMA AttachDoneStep ==
  ASSUME Inv, AttachDone, monitor' = monitor
  PROVE  Inv' /\ Keeps
<1>1. region \in Region /\ region.count \in Nat /\ region.count + 1 \in 1 .. Capacity + 1
  BY TypeOfRegion, BoundsAssumption DEF Inv, Region
<1>2. region' = [region EXCEPT !.next_id = region.count + 1]
  BY DEF AttachDone
<1>3. /\ region' \in Region /\ region'.count = region.count /\ region'.rows = region.rows
      /\ region'.exists = region.exists /\ region'.init_state = region.init_state
      /\ region'.fund = region.fund
  BY <1>1, <1>2 DEF Region
<1>4. TypeOK'
  BY <1>3 DEF Inv, TypeOK, AttachDone, Region, Row, Fund
<1>5. LoadsAreUnmarked' /\ CountedRowsAreNamed' /\ MonitorsAreServed'
  BY <1>3 DEF Inv, AttachDone, LoadsAreUnmarked, CountedRowsAreNamed, MonitorsAreServed,
              Working, ValidHeader
<1>6. region.count >= region.count
  BY <1>1
<1>7. Keeps
  BY <1>3, <1>6 DEF Keeps
<1> QED BY <1>4, <1>5, <1>7 DEF Inv

LEMMA LoadFundStep ==
  ASSUME Inv, LoadFund, monitor' = monitor
  PROVE  Inv' /\ Keeps
<1>1. CASE DatabaseOpens /\ FundRowFound
  <2>1. region \in Region /\ region.init_state = 0 /\ snapshot.fund \in Fund
    BY TypeOfRegion DEF Inv, TypeOK, LoadFund, LoadsAreUnmarked, Fund
  <2>2. region' = [region EXCEPT !.fund = snapshot.fund]
    BY <1>1 DEF LoadFund
  <2>3. region' \in Region /\ region'.init_state = 0 /\ region'.count = region.count
        /\ region'.rows = region.rows
    BY <2>1, <2>2 DEF Region
  <2>4. TypeOK'
    BY <1>1, <2>3 DEF Inv, TypeOK, LoadFund, Region, Row, Fund
  <2>5. LoadsAreUnmarked' /\ CountedRowsAreNamed' /\ MonitorsAreServed'
    BY <1>1, <2>1, <2>3 DEF Inv, LoadFund, LoadsAreUnmarked, CountedRowsAreNamed,
                            MonitorsAreServed, Working, ValidHeader
  <2>6. Keeps
    BY <2>1 DEF Keeps
  <2> QED BY <2>4, <2>5, <2>6 DEF Inv
<1>2. CASE ~(DatabaseOpens /\ FundRowFound)
  <2>1. GiveUp /\ UNCHANGED <<region, db, snapshot, starts, trades, bought, sold>>
    BY <1>2 DEF LoadFund
  <2>2. starts' \in 0 .. MaxStarts /\ trades' \in 0 .. MaxTrades
    BY <2>1 DEF Inv, TypeOK
  <2> QED BY <2>1, <2>2, GiveUpStep
<1> QED BY <1>1, <1>2

\* A new row: written below the count's sight, so that nobody looks at it yet.
LEMMA InsertRowFacts ==
  ASSUME Inv, NEW s \in Securities, InsertRow(s), ~Full
  PROVE  /\ region' \in Region /\ index' \in [Securities -> 0 .. Capacity]
         /\ index'[s] \in Rows
         /\ region'.exists = region.exists /\ region'.init_state = region.init_state
         /\ region'.count = region.count /\ region'.count < Capacity
         /\ region'.rows[region.count + 1].key \in Keys
         /\ \A q \in 1 .. region.count : region'.rows[q] = region.rows[q]
         /\ Keeps
<1> DEFINE r == region.count + 1
           k == [sec |-> s, form |-> "mic"]
           row == [EmptyRow EXCEPT !.key = k]
<1>1. region \in Region
  BY TypeOfRegion DEF Inv
<1>2. r \in Rows /\ r \in 0 .. Capacity /\ region.count < Capacity
      /\ \A q \in 1 .. region.count : q \in Rows /\ q # r
  BY <1>1, BoundsAssumption DEF Region, Rows, Full
<1>3. k \in Keys
  BY DEF Keys, Spellings
<1>4. region' = [region EXCEPT !.rows[r] = row] /\ index' = [index EXCEPT ![s] = r]
  BY DEF InsertRow
<1> HIDE DEF r, k
<1>5. row \in Row /\ row.key = k
  BY <1>3, RowFacts DEF Row, EmptyRow
<1> HIDE DEF row
<1>6. /\ region' \in Region
      /\ region'.exists = region.exists /\ region'.init_state = region.init_state
      /\ region'.count = region.count /\ region'.fund = region.fund
      /\ region'.rows[r] = row
      /\ \A q \in Rows : q # r => region'.rows[q] = region.rows[q]
  <2>1. region' = Stored(region, r, row)
    BY <1>4 DEF Stored
  <2> QED BY <1>1, <1>2, <1>5, <2>1, RowStored
<1>7. index' \in [Securities -> 0 .. Capacity] /\ index'[s] \in Rows
  BY <1>2, <1>4 DEF Inv, TypeOK
<1>8. \A q \in 1 .. region.count : region'.rows[q] = region.rows[q]
  BY <1>2, <1>6
<1>9. Keeps
  <2>1. region.count >= region.count
    BY <1>1, BoundsAssumption DEF Region
  <2> QED BY <1>6, <1>8, <2>1 DEF Keeps
<1> QED BY <1>2, <1>3, <1>5, <1>6, <1>7, <1>8, <1>9 DEF r

\* The loader and a trade set out on a row in the same way.
LEMMA ChooseRow ==
  ASSUME Inv, NEW s \in Securities, job' \in Jobs, job'.sec = s,
         job'.for = "load" => region.init_state = 0,
         ~(index[s] = NoRow /\ Full),
         IF index[s] = NoRow
         THEN InsertRow(s) /\ pc' = "publish"
         ELSE pc' = "lock" /\ UNCHANGED <<region, index>>,
         UNCHANGED <<db, snapshot, starts, bought, sold, monitor>>,
         cursor' \in Nat, trades' \in 0 .. MaxTrades
  PROVE  Inv' /\ Keeps
<1>1. job' \in Jobs /\ job'.sec = s
  OBVIOUS
<1>2. CASE index[s] = NoRow
  <2>1. InsertRow(s) /\ pc' = "publish" /\ ~Full
    BY <1>2
  <2>2. /\ region' \in Region /\ index' \in [Securities -> 0 .. Capacity]
        /\ index'[s] \in Rows
        /\ region'.exists = region.exists /\ region'.init_state = region.init_state
        /\ region'.count = region.count /\ region'.count < Capacity
        /\ region'.rows[region.count + 1].key \in Keys
        /\ \A q \in 1 .. region.count : region'.rows[q] = region.rows[q]
        /\ Keeps
    BY <2>1, InsertRowFacts
  <2>3. TypeOK'
    BY <2>1, <2>2 DEF Inv, TypeOK, Region, Row, Fund
  <2>4. LoadsAreUnmarked'
    BY <1>1, <2>1, <2>2 DEF LoadsAreUnmarked, Working
  <2>5. CountedRowsAreNamed'
    BY <2>1, <2>2 DEF Inv, CountedRowsAreNamed
  <2>6. MonitorsAreServed'
    BY <2>2 DEF Inv, MonitorsAreServed, ValidHeader
  <2> QED BY <2>2, <2>3, <2>4, <2>5, <2>6 DEF Inv
<1>3. CASE index[s] # NoRow
  <2>1. pc' = "lock" /\ UNCHANGED <<region, index>>
    BY <1>3
  <2>2. index[s] \in Rows
    BY <1>3, BoundsAssumption DEF Inv, TypeOK, Rows, NoRow
  <2>3. TypeOK'
    BY <2>1 DEF Inv, TypeOK
  <2>4. LoadsAreUnmarked'
    BY <1>1, <2>1, <2>2 DEF LoadsAreUnmarked, Working
  <2>5. CountedRowsAreNamed' /\ MonitorsAreServed'
    BY <2>1 DEF Inv, CountedRowsAreNamed, MonitorsAreServed, ValidHeader
  <2> QED BY <2>1, <2>3, <2>4, <2>5, SameRegionKeeps DEF Inv
<1> QED BY <1>2, <1>3

LEMMA LoadRowStep ==
  ASSUME Inv, LoadRow, monitor' = monitor
  PROVE  Inv' /\ Keeps
<1> DEFINE row == RowsToLoad[cursor + 1]
           s == row.key.sec
<1>1. row \in SeedRow
  <2>1. RowsToLoad \in Seq(SeedRow)
    BY RowsToLoadType DEF Inv, TypeOK
  <2>2. cursor + 1 \in 1 .. Len(RowsToLoad)
    BY <2>1 DEF Inv, TypeOK, LoadRow
  <2> QED BY <2>1, <2>2
<1>2. s \in Securities /\ row.volume \in Volumes
  BY <1>1 DEF SeedRow, Keys
<1>3. UNCHANGED <<db, snapshot, starts, trades, bought, sold>> /\ region.init_state = 0
      /\ starts \in 0 .. MaxStarts /\ trades \in 0 .. MaxTrades /\ cursor + 1 \in Nat
  BY DEF LoadRow, Inv, TypeOK, LoadsAreUnmarked
<1>4. CASE ~Normalizable(row.key) \/ (index[s] = NoRow /\ Full)
  <2>1. GiveUp /\ UNCHANGED region
    BY <1>4 DEF LoadRow
  <2> QED BY <1>3, <2>1, GiveUpStep
<1>5. CASE ~(~Normalizable(row.key) \/ (index[s] = NoRow /\ Full))
  <2>1. /\ cursor' = cursor + 1
        /\ job' = [sec |-> s, volume |-> row.volume, for |-> "load"]
        /\ IF index[s] = NoRow
           THEN InsertRow(s) /\ pc' = "publish"
           ELSE pc' = "lock" /\ UNCHANGED <<region, index>>
    BY <1>5 DEF LoadRow
  <2> HIDE DEF row, s
  <2>2. ~(index[s] = NoRow /\ Full)
    BY <1>5
  <2>3. job' \in Jobs /\ job'.sec = s
    BY <1>2, <2>1 DEF Jobs
  <2> QED BY <1>2, <1>3, <2>1, <2>2, <2>3, ChooseRow
<1> QED BY <1>4, <1>5

LEMMA TradeStep ==
  ASSUME Inv, NEW s \in Securities, NEW n \in 1 .. MaxVolume, NEW side \in Sides,
         Trade(s, n, side), monitor' = monitor
  PROVE  Inv' /\ Keeps
<1>1. /\ UNCHANGED <<db, snapshot, starts, bought, sold>> /\ trades' \in 0 .. MaxTrades
      /\ cursor' = cursor /\ cursor' \in Nat /\ pc = "up"
  BY BoundsAssumption DEF Trade, Inv, TypeOK
<1>2. CASE index[s] = NoRow /\ Full
  <2>1. UNCHANGED <<region, index, pc, job>>
    BY <1>2 DEF Trade
  <2>2. TypeOK'
    BY <1>1, <2>1 DEF Inv, TypeOK
  <2>3. LoadsAreUnmarked' /\ CountedRowsAreNamed' /\ MonitorsAreServed'
    BY <1>1, <2>1 DEF Inv, LoadsAreUnmarked, CountedRowsAreNamed, MonitorsAreServed, Working,
                      ValidHeader
  <2> QED BY <2>1, <2>2, <2>3, SameRegionKeeps DEF Inv
<1>3. CASE ~(index[s] = NoRow /\ Full)
  <2>1. /\ job' = [sec |-> s, volume |-> n, for |-> side]
        /\ IF index[s] = NoRow
           THEN InsertRow(s) /\ pc' = "publish"
           ELSE pc' = "lock" /\ UNCHANGED <<region, index>>
    BY <1>3 DEF Trade
  <2>2. n \in Nat /\ side # "load"
    BY BoundsAssumption DEF Sides
  <2>3. job' \in Jobs /\ job'.sec = s /\ job'.for # "load"
    BY <2>1, <2>2 DEF Jobs
  <2> QED BY <1>1, <1>3, <2>1, <2>3, ChooseRow
<1> QED BY <1>2, <1>3

LEMMA FinishLoadStep ==
  ASSUME Inv, FinishLoad, monitor' = monitor
  PROVE  Inv' /\ Keeps
<1>1. region \in Region /\ region.init_state = 0
  BY TypeOfRegion DEF Inv, FinishLoad, LoadsAreUnmarked
<1>2. region.count + 1 \in 1 .. Capacity + 1
  BY <1>1, BoundsAssumption DEF Region
<1>3. region' = [region EXCEPT !.next_id = region.count + 1, !.init_state = 1]
  BY DEF FinishLoad
<1>4. region' \in Region /\ region'.count = region.count /\ region'.rows = region.rows
  BY <1>1, <1>2, <1>3 DEF Region
<1>5. TypeOK'
  BY <1>4 DEF Inv, TypeOK, FinishLoad, NoneTraded, Region, Row, Fund
<1>6. LoadsAreUnmarked' /\ CountedRowsAreNamed' /\ MonitorsAreServed'
  BY <1>1, <1>4 DEF Inv, FinishLoad, LoadsAreUnmarked, CountedRowsAreNamed, MonitorsAreServed,
                    Working, ValidHeader
<1>7. Keeps
  BY <1>1 DEF Keeps
<1> QED BY <1>5, <1>6, <1>7 DEF Inv

LEMMA PublishRowStep ==
  ASSUME Inv, PublishRow, monitor' = monitor
  PROVE  Inv' /\ Keeps
<1>1. region \in Region /\ region.count < Capacity /\ region.count \in Nat
      /\ region.rows[region.count + 1].key \in Keys
  BY TypeOfRegion DEF Inv, PublishRow, CountedRowsAreNamed, Region
<1>2. region.count + 1 \in 0 .. Capacity /\ region.count + 2 \in 1 .. Capacity + 1
  BY <1>1, BoundsAssumption DEF Region
<1>3. region' = [region EXCEPT !.count = region.count + 1, !.next_id = region.count + 2]
  BY DEF PublishRow
<1>4. region' \in Region /\ region'.count = region.count + 1 /\ region'.rows = region.rows
      /\ region'.exists = region.exists /\ region'.init_state = region.init_state
      /\ region'.fund = region.fund
  BY <1>1, <1>2, <1>3 DEF Region
<1>5. TypeOK'
  BY <1>4 DEF Inv, TypeOK, PublishRow, Region, Row, Fund
<1>6. LoadsAreUnmarked'
  BY <1>4 DEF Inv, PublishRow, LoadsAreUnmarked, Working
<1>7. CountedRowsAreNamed'
  <2>1. \A r \in 1 .. region.count + 1 : r \in 1 .. region.count \/ r = region.count + 1
    BY <1>1
  <2> QED BY <1>1, <1>4, <2>1 DEF Inv, PublishRow, CountedRowsAreNamed
<1>8. MonitorsAreServed'
  <2>1. \A r \in 1 .. region.count : r \in 1 .. region.count + 1
    BY <1>1
  <2> QED BY <1>4, <2>1 DEF Inv, MonitorsAreServed, ValidHeader
<1>9. Keeps
  <2>1. region.count + 1 >= region.count
    BY <1>1
  <2> QED BY <1>4, <2>1 DEF Keeps
<1> QED BY <1>5, <1>6, <1>7, <1>8, <1>9 DEF Inv

\* The locked update: one row gets new numbers, its key stays.
LEMMA RowUpdateStep ==
  ASSUME Inv, pc \in {"lock", "fill", "unlock"}, NEW row \in Row,
         region' = Stored(region, index[job.sec], row),
         row.key = region.rows[index[job.sec]].key,
         pc = "fill" \/ row.volume = region.rows[index[job.sec]].volume,
         UNCHANGED <<index, db, snapshot, cursor, starts, trades, monitor>>,
         bought' \in [Securities -> Nat], sold' \in [Securities -> Nat],
         \/ pc' \in {"fill", "unlock"} /\ job' = job
         \/ pc' = IF job.for = "load" THEN "rows" ELSE "up"
  PROVE  Inv' /\ Keeps
<1> DEFINE r == index[job.sec]
<1>1. region \in Region /\ pc \in Working /\ pc # "publish"
  BY TypeOfRegion DEF Inv, Working
<1>2. job \in Jobs /\ r \in Rows /\ (job.for = "load" => region.init_state = 0)
  BY <1>1 DEF Inv, LoadsAreUnmarked
<1> HIDE DEF r
<1>3. region' = Stored(region, r, row) /\ row.key = region.rows[r].key
      /\ (pc = "fill" \/ row.volume = region.rows[r].volume)
  BY DEF r
<1>4. /\ region' \in Region
      /\ region'.exists = region.exists /\ region'.init_state = region.init_state
      /\ region'.count = region.count /\ region'.fund = region.fund
      /\ region'.rows[r] = row
      /\ \A q \in Rows : q # r => region'.rows[q] = region.rows[q]
  BY <1>1, <1>2, <1>3, RowStored
<1>5. \A q \in 1 .. region.count : q \in Rows
  BY <1>1, BoundsAssumption DEF Region, Rows
<1>6. \A q \in Rows : region'.rows[q].key = region.rows[q].key
  BY <1>3, <1>4
<1>7. pc' \in {"fill", "unlock", "rows", "up"}
  OBVIOUS
<1>8. TypeOK'
  BY <1>4, <1>7 DEF Inv, TypeOK, Region, Row, Fund
<1>9. LoadsAreUnmarked'
  <2>1. CASE pc' \in {"fill", "unlock"} /\ job' = job
    BY <1>2, <1>4, <2>1 DEF LoadsAreUnmarked, Working, r
  <2>2. CASE pc' = IF job.for = "load" THEN "rows" ELSE "up"
    BY <1>2, <1>4, <2>2 DEF LoadsAreUnmarked, Working
  <2> QED BY <2>1, <2>2
<1>10. CountedRowsAreNamed'
  BY <1>4, <1>5, <1>6, <1>7 DEF Inv, CountedRowsAreNamed
<1>11. MonitorsAreServed'
  BY <1>4 DEF Inv, MonitorsAreServed, ValidHeader
<1>12. Keeps
  <2>1. region.count >= region.count
    BY <1>1, BoundsAssumption DEF Region
  <2>2. ASSUME region.init_state = 1, NEW q \in 1 .. region.count
        PROVE  \/ region'.rows[q].volume = region.rows[q].volume
               \/ pc = "fill" /\ job.for \in Sides /\ q = r
    <3>1. job.for \in Sides
      BY <1>2, <2>2, JobFacts
    <3> QED BY <1>3, <1>4, <1>5, <3>1
  <2> QED BY <1>4, <1>5, <1>6, <2>1, <2>2 DEF Keeps, r
<1> QED BY <1>8, <1>9, <1>10, <1>11, <1>12 DEF Inv

\* What LockRow, FillRow and UnlockRow find when they come to the row.
LEMMA WorkedRow ==
  ASSUME Inv, pc \in {"lock", "fill", "unlock"}
  PROVE  /\ region \in Region /\ job \in Jobs /\ index[job.sec] \in Rows
         /\ region.rows[index[job.sec]] \in Row
         /\ job.for = "load" => region.init_state = 0
<1>1. region \in Region
  BY TypeOfRegion DEF Inv
<1>2. job \in Jobs /\ index[job.sec] \in Rows /\ (job.for = "load" => region.init_state = 0)
  BY DEF Inv, LoadsAreUnmarked, Working
<1> QED BY <1>1, <1>2 DEF Region

LEMMA LockRowStep ==
  ASSUME Inv, LockRow, monitor' = monitor
  PROVE  Inv' /\ Keeps
<1> DEFINE r == index[job.sec]
           row == [region.rows[r] EXCEPT !.locked = TRUE]
<1>1. region \in Region /\ r \in Rows /\ region.rows[r] \in Row /\ pc = "lock"
  BY WorkedRow DEF LockRow
<1>2. row \in Row /\ row.key = region.rows[r].key /\ row.volume = region.rows[r].volume
  BY <1>1 DEF Row
<1>3. region' = Stored(region, r, row)
  BY <1>1 DEF LockRow, Stored, Region
<1>4. pc' = "fill" /\ job' = job /\ UNCHANGED <<index, db, snapshot, cursor, starts, trades>>
      /\ bought' \in [Securities -> Nat] /\ sold' \in [Securities -> Nat]
  BY DEF LockRow, Inv, TypeOK
<1> HIDE DEF row
<1> QED BY <1>1, <1>2, <1>3, <1>4, RowUpdateStep

\* What a row holds when the loader or a trade is done with it.
LEMMA FilledFacts ==
  ASSUME job \in Jobs, NEW v \in Volumes
  PROVE  /\ FilledVolume(v) \in Volumes
         /\ job.for = "load" => FilledVolume(v) = job.volume
         /\ job.for = "buy" =>
              /\ FilledVolume(v).t1 = v.t1 + job.volume
              /\ FilledVolume(v).t0 = v.t0 /\ FilledVolume(v).sell = v.sell
         /\ job.for = "sell" =>
              /\ FilledVolume(v).t1 = v.t1 /\ SellTakes(v, job.volume) \in Nat
              /\ FilledVolume(v).t0 + FilledVolume(v).sell + SellTakes(v, job.volume)
                   = v.t0 + v.sell
<1>1. v.t0 \in Nat /\ v.t1 \in Nat /\ v.sell \in Nat
  BY DEF Volumes
<1>2. CASE job.for = "load"
  BY <1>2, JobFacts DEF FilledVolume
<1>3. CASE job.for = "buy"
  <2>1. job.volume \in Nat /\ FilledVolume(v) = [v EXCEPT !.t1 = v.t1 + job.volume]
    BY <1>3, JobFacts DEF FilledVolume
  <2> QED BY <1>1, <1>3, <2>1 DEF Volumes
<1>4. CASE job.for = "sell"
  <2> DEFINE n == job.volume
             new == FilledVolume(v)
  <2>1. n \in Nat /\ new = Deducted(v, n)
    BY <1>4, JobFacts DEF FilledVolume
  <2> HIDE DEF n, new
  <2>2. CASE v.sell >= n
    <3>1. new = [v EXCEPT !.sell = v.sell - n] /\ v.sell - n \in Nat
      BY <1>1, <2>1, <2>2 DEF Deducted
    <3>2. new \in Volumes /\ new.t0 = v.t0 /\ new.t1 = v.t1 /\ new.sell = v.sell - n
      BY <3>1 DEF Volumes
    <3>3. SellTakes(v, n) = n
      BY <1>1, <2>1, <2>2 DEF SellTakes
    <3>4. new.t0 + new.sell + n = v.t0 + v.sell
      BY <1>1, <2>1, <3>2
    <3> QED BY <1>4, <2>1, <3>2, <3>3, <3>4 DEF n, new
  <2>3. CASE ~(v.sell >= n) /\ v.t0 < n - v.sell
    <3>1. new = [v EXCEPT !.sell = 0, !.t0 = v.t0]
      BY <1>1, <2>1, <2>3 DEF Deducted
    <3>2. new \in Volumes /\ new.t0 = v.t0 /\ new.t1 = v.t1 /\ new.sell = 0
      BY <1>1, <3>1 DEF Volumes
    <3>3. SellTakes(v, n) = v.sell
      BY <1>1, <2>1, <2>3 DEF SellTakes
    <3>4. new.t0 + new.sell + v.sell = v.t0 + v.sell
      BY <1>1, <2>1, <3>2
    <3> QED BY <1>1, <1>4, <2>1, <3>2, <3>3, <3>4 DEF n, new
  <2>4. CASE ~(v.sell >= n) /\ ~(v.t0 < n - v.sell)
    <3>1. new = [v EXCEPT !.sell = 0, !.t0 = v.t0 - (n - v.sell)]
          /\ v.t0 - (n - v.sell) \in Nat
      BY <1>1, <2>1, <2>4 DEF Deducted
    <3>2. new \in Volumes /\ new.t0 = v.t0 - (n - v.sell) /\ new.t1 = v.t1 /\ new.sell = 0
      BY <1>1, <3>1 DEF Volumes
    <3>3. SellTakes(v, n) = n
      BY <1>1, <2>1, <2>4 DEF SellTakes
    <3>4. new.t0 + new.sell + n = v.t0 + v.sell
      BY <1>1, <2>1, <3>2
    <3> QED BY <1>4, <2>1, <3>2, <3>3, <3>4 DEF n, new
  <2> QED BY <2>2, <2>3, <2>4
<1> QED BY <1>2, <1>3, <1>4, JobFacts

LEMMA FillRowStep ==
  ASSUME Inv, FillRow, monitor' = monitor
  PROVE  Inv' /\ Keeps
<1> DEFINE r == index[job.sec]
           old == region.rows[r]
           row == [old EXCEPT !.volume = FilledVolume(old.volume)]
<1>1. region \in Region /\ r \in Rows /\ old \in Row /\ pc = "fill" /\ job \in Jobs
  BY WorkedRow DEF FillRow
<1>2. old.volume \in Volumes /\ job.sec \in Securities
  BY <1>1, JobFacts DEF Row
<1>3. FilledVolume(old.volume) \in Volumes
  BY <1>1, <1>2, FilledFacts
<1>4. row \in Row /\ row.key = old.key
  BY <1>1, <1>3 DEF Row
<1>5. region' = Stored(region, r, row)
  BY <1>1 DEF FillRow, Stored, Region
<1>6. pc' = "unlock" /\ job' = job /\ UNCHANGED <<index, db, snapshot, cursor, starts, trades>>
  BY DEF FillRow
<1>7. bought' \in [Securities -> Nat] /\ sold' \in [Securities -> Nat]
  <2>1. bought \in [Securities -> Nat] /\ sold \in [Securities -> Nat]
    BY DEF Inv, TypeOK
  <2>2. job.for = "buy" => job.volume \in Nat
    BY <1>1, JobFacts
  <2>3. job.for = "sell" => SellTakes(old.volume, job.volume) \in Nat
    BY <1>1, <1>2, FilledFacts
  <2>4. bought' \in [Securities -> Nat]
    BY <1>2, <2>1, <2>2 DEF FillRow
  <2>5. sold' = IF job.for = "sell"
                THEN [sold EXCEPT ![job.sec] = @ + SellTakes(old.volume, job.volume)] ELSE sold
    BY DEF FillRow
  <2>6. sold' \in [Securities -> Nat]
    <3> HIDE DEF old
    <3> QED BY <1>2, <2>1, <2>3, <2>5
  <2> QED BY <2>4, <2>6
<1> HIDE DEF row
<1> QED BY <1>1, <1>4, <1>5, <1>6, <1>7, RowUpdateStep

LEMMA UnlockRowStep ==
  ASSUME Inv, UnlockRow, monitor' = monitor
  PROVE  Inv' /\ Keeps
<1> DEFINE r == index[job.sec]
           row == [region.rows[r] EXCEPT !.locked = FALSE]
<1>1. region \in Region /\ r \in Rows /\ region.rows[r] \in Row /\ pc = "unlock"
  BY WorkedRow DEF UnlockRow
<1>2. row \in Row /\ row.key = region.rows[r].key /\ row.volume = region.rows[r].volume
  BY <1>1 DEF Row
<1>3. region' = Stored(region, r, row)
  BY <1>1 DEF UnlockRow, Stored, Region
<1>4. pc' = (IF job.for = "load" THEN "rows" ELSE "up")
      /\ UNCHANGED <<index, db, snapshot, cursor, starts, trades>>
      /\ bought' \in [Securities -> Nat] /\ sold' \in [Securities -> Nat]
  BY DEF UnlockRow, Inv, TypeOK
<1> HIDE DEF row
<1> QED BY <1>1, <1>2, <1>3, <1>4, RowUpdateStep

LEMMA EditSnapshotStep ==
  ASSUME Inv, EditSnapshot, monitor' = monitor
  PROVE  Inv' /\ Keeps
<1>1. TypeOK'
  BY DEF Inv, TypeOK, EditSnapshot
<1>2. LoadsAreUnmarked' /\ CountedRowsAreNamed' /\ MonitorsAreServed' /\ region' = region
  BY DEF Inv, EditSnapshot, LoadsAreUnmarked, CountedRowsAreNamed, MonitorsAreServed, Working,
         ValidHeader
<1> QED BY <1>1, <1>2, SameRegionKeeps DEF Inv

\* The operator removes the region under the monitors that have it mapped.
LEMMA RemoveRegionStep ==
  ASSUME Inv, RemoveRegion
  PROVE  Inv' /\ Keeps
<1>1. region' \in Region /\ region'.count = 0 /\ ~region'.exists
  BY NoRegionFacts DEF RemoveRegion
<1>2. [at |-> "orphaned", row |-> NoRow].at = "orphaned"
      /\ [at |-> "orphaned", row |-> NoRow]
           \in [at : {"closed", "open", "reading", "orphaned"}, row : 0 .. Capacity]
  BY BoundsAssumption DEF NoRow
<1>3. monitor' \in [at : {"closed", "open", "reading", "orphaned"}, row : 0 .. Capacity]
      /\ monitor'.at \notin {"open", "reading"}
  BY <1>2 DEF Inv, TypeOK, RemoveRegion
<1>4. TypeOK'
  BY <1>1, <1>3 DEF Inv, TypeOK, RemoveRegion, Region, Row, Fund
<1>5. CountedRowsAreNamed'
  BY <1>1 DEF RemoveRegion, CountedRowsAreNamed
<1>6. LoadsAreUnmarked' /\ MonitorsAreServed'
  BY <1>3 DEF RemoveRegion, LoadsAreUnmarked, MonitorsAreServed, Working
<1>7. Keeps
  BY <1>1 DEF Keeps
<1> QED BY <1>4, <1>5, <1>6, <1>7 DEF Inv

\* A monitor changes nothing; it reads a row whose index is below the count.
LEMMA MonitorStep ==
  ASSUME Inv, Monitor
  PROVE  Inv' /\ Keeps
<1>1. UNCHANGED table
  BY DEF Monitor, MonitorOpen, MonitorClose, MonitorRead, MonitorCopied
<1>2. region \in Region
  BY TypeOfRegion DEF Inv
<1>3. monitor' \in [at : {"closed", "open", "reading", "orphaned"}, row : 0 .. Capacity]
      /\ MonitorsAreServed'
  <2>1. CASE MonitorOpen
    BY <1>1, <2>1, BoundsAssumption DEF MonitorOpen, MonitorsAreServed, ValidHeader, NoRow, table
  <2>2. CASE MonitorClose
    BY <1>1, <2>2, BoundsAssumption DEF MonitorClose, MonitorsAreServed, ValidHeader, NoRow, table
  <2>3. CASE MonitorCopied
    BY <1>1, <2>3, BoundsAssumption
    DEF Inv, MonitorCopied, MonitorsAreServed, ValidHeader, NoRow, table
  <2>4. CASE \E r \in Rows : MonitorRead(r)
    <3>1. PICK r \in Rows : MonitorRead(r)
      BY <2>4
    <3>2. r \in 1 .. region.count /\ r \in 0 .. Capacity
      BY <1>2, <3>1, BoundsAssumption DEF MonitorRead, Rows, Region
    <3> QED BY <1>1, <3>1, <3>2 DEF Inv, MonitorRead, MonitorsAreServed, ValidHeader, table
  <2> QED BY <2>1, <2>2, <2>3, <2>4 DEF Monitor
<1>4. TypeOK'
  BY <1>1, <1>3 DEF Inv, TypeOK, table
<1>5. LoadsAreUnmarked' /\ CountedRowsAreNamed' /\ region' = region
  BY <1>1 DEF Inv, LoadsAreUnmarked, CountedRowsAreNamed, Working, table
<1> QED BY <1>3, <1>4, <1>5, SameRegionKeeps DEF Inv

\* RefuseCorrupt, Stop and Crash end the process and nothing else.
LEMMA EndStep ==
  ASSUME Inv, RefuseCorrupt \/ Stop \/ Crash, monitor' = monitor
  PROVE  Inv' /\ Keeps
<1>1. GiveUp /\ UNCHANGED <<region, db, snapshot, starts, trades, bought, sold>>
  BY DEF RefuseCorrupt, Stop, Crash
<1>2. starts \in 0 .. MaxStarts /\ trades \in 0 .. MaxTrades
  BY DEF Inv, TypeOK
<1> QED BY <1>1, <1>2, GiveUpStep

LEMMA StutterStep ==
  ASSUME Inv, UNCHANGED vars
  PROVE  Inv'
BY DEF Inv, vars, table, TypeOK, LoadsAreUnmarked, CountedRowsAreNamed, MonitorsAreServed,
       Working, ValidHeader

LEMMA NextStep ==
  ASSUME Inv, Next
  PROVE  Inv' /\ Keeps
<1>1. CASE /\ \/ Start \/ Initialize \/ Load \/ WriteRow
              \/ \E s \in Securities, n \in 1 .. MaxVolume, side \in Sides : Trade(s, n, side)
              \/ Stop \/ Crash \/ EditSnapshot
           /\ UNCHANGED monitor
  <2> USE <1>1
  <2>1. CASE Start
    BY <2>1, StartStep
  <2>2. CASE Initialize
    BY <2>2, EndStep, InitializeFreshStep, InitializeAttachedStep, AttachRowStep,
       AttachDoneStep DEF Initialize
  <2>3. CASE Load
    BY <2>3, LoadFundStep, LoadRowStep, FinishLoadStep DEF Load
  <2>4. CASE WriteRow
    BY <2>4, PublishRowStep, LockRowStep, FillRowStep, UnlockRowStep DEF WriteRow
  <2>5. CASE \E s \in Securities, n \in 1 .. MaxVolume, side \in Sides : Trade(s, n, side)
    BY <2>5, TradeStep
  <2>6. CASE Stop \/ Crash
    BY <2>6, EndStep
  <2>7. CASE EditSnapshot
    BY <2>7, EditSnapshotStep
  <2> QED BY <2>1, <2>2, <2>3, <2>4, <2>5, <2>6, <2>7
<1>2. CASE RemoveRegion
  BY <1>2, RemoveRegionStep
<1>3. CASE Monitor
  BY <1>3, MonitorStep
<1> QED BY <1>1, <1>2, <1>3 DEF Next

-----------------------------------------------------------------------------
(* The theorems.                                                           *)

\* Every reachable state of the table satisfies the inductive invariant.
THEOREM Invariance == Spec => []Inv
<1>1. Inv /\ [Next]_vars => Inv'
  BY NextStep, StutterStep
<1> QED BY InitInv, <1>1, PTL DEF Spec

\* Every variable keeps its type: the rows never outgrow the table, and the index
\* never points outside it (add_security, initialize).
THEOREM TypeCorrect == Spec => []TypeOK
<1>1. Inv => TypeOK
  BY DEF Inv
<1> QED BY <1>1, Invariance, PTL

\* A monitor that is open looks at a served table, and the row it reads has its key
\* whatever the service does meanwhile: add_security stores the key before the
\* count, and no load, restart or trade takes a key or the mark away.
THEOREM MonitorsAreSafe == Spec => []MonitorsSeeNamedRows
<1>1. Inv => MonitorsSeeNamedRows
  BY KeyFacts DEF Inv, CountedRowsAreNamed, MonitorsAreServed, MonitorsSeeNamedRows
<1> QED BY <1>1, Invariance, PTL

-----------------------------------------------------------------------------
(* A served table is whole and its index finds every row.                  *)

\* The counted rows are about different securities.
RowsAreDistinct(g) ==
  \A q, r \in 1 .. g.count : g.rows[q].key.sec = g.rows[r].key.sec => q = r

\* The index x finds every counted row, under its canonical key.
RowsIndexed(g, x) ==
  \A r \in 1 .. g.count : g.rows[r].key.form = "mic" /\ x[g.rows[r].key.sec] = r

\* The index leads from a security to a row about it.
IndexLeads(g, x) ==
  \A s \in Securities : x[s] # NoRow => g.rows[x[s]].key.sec = s

\* Once initialize has built it, the index and the counted rows agree; a restart builds it
\* row by row; a row that is added is indexed, and empty, before it is counted.
Indexed ==
  /\ pc = "initialize" => index = EmptyIndex
  /\ pc = "attach" =>
       /\ cursor <= region.count
       /\ \A r \in 1 .. cursor :
            region.rows[r].key.form = "mic" /\ index[region.rows[r].key.sec] = r
       /\ IndexLeads(region, index)
       /\ \A s \in Securities : index[s] <= cursor
  /\ pc \notin {"down", "initialize", "attach"} =>
       /\ RowsIndexed(region, index)
       /\ IndexLeads(region, index)
       /\ \A s \in Securities : index[s] > region.count => pc = "publish" /\ s = job.sec
  /\ pc = "publish" =>
       /\ index[job.sec] = region.count + 1
       /\ region.rows[region.count + 1].key.form = "mic"
       /\ region.rows[region.count + 1].volume = Nothing

\* The counted rows hold v of the security s; without a row for s that is nothing.
Holds(g, s, v) ==
  /\ \A r \in 1 .. g.count : g.rows[r].key.sec = s => g.rows[r].volume = v
  /\ (\A r \in 1 .. g.count : g.rows[r].key.sec # s) => v = Nothing

\* What the last of a snapshot's first n rows about a security says.
SeedUpTo(rows, n, s) ==
  LET about == {i \in 1 .. n : rows[i].key.sec = s}
  IN IF about = {} THEN Nothing ELSE rows[CHOOSE i \in about : \A j \in about : j <= i].volume

\* The counted rows hold of a security what the rows of a snapshot say, with b bought and
\* x sold since.
Kept(g, s, rows, b, x) ==
  \E v \in Volumes : Holds(g, s, v) /\ AddsUp(v, SeedVolume(rows, s), b, x)

\* A marked region holds what it was filled with and what trades made of it.
MarkedIsWhole ==
  /\ seeded.rows \in Seq(SeedRow)
  /\ region.init_state = 1 =>
       /\ region.fund = seeded.fund
       /\ \A s \in Securities : Kept(region, s, seeded.rows, bought[s], sold[s])

\* Trades find a marked region whose next id follows the count.
TradesAreServed ==
  pc = "up" \/ (pc \in Working /\ job.for \in Sides) =>
    region.init_state = 1 /\ region.next_id = region.count + 1

\* The fund row the loader leaves behind.
FundToLoad == IF db THEN snapshot.fund ELSE DefaultFund

\* The loader has put the first rows of the snapshot into the region, but for the row it
\* is at work on.
LoadedSoFar ==
  /\ cursor <= Len(RowsToLoad)
  /\ region.fund = FundToLoad
  /\ \A s \in Securities : pc \in {"rows", "unlock"} \/ s # job.sec =>
       Holds(region, s, SeedUpTo(RowsToLoad, cursor, s))
  /\ pc \in Working => job.volume = SeedUpTo(RowsToLoad, cursor, job.sec)

\* A load starts from an empty region and goes through the rows in order.
LoadsInStep ==
  /\ pc \in {"down", "initialize", "fund"} => cursor = 0
  /\ pc = "fund" => db /\ region.count = 0
  /\ pc = "rows" \/ (pc \in Working /\ job.for = "load") => LoadedSoFar

\* The region, its index and the loader's progress agree (the inductive invariant).
TableInStep ==
  RowsAreDistinct(region) /\ Indexed /\ MarkedIsWhole /\ TradesAreServed /\ LoadsInStep

\* What the counted rows are made of.
LEMMA CountedRow ==
  ASSUME Inv
  PROVE  /\ region \in Region /\ region.count \in Nat
         /\ \A r \in 1 .. region.count :
              /\ r \in Rows /\ region.rows[r] \in Row
              /\ region.rows[r].key \in Keys /\ region.rows[r].key.sec \in Securities
              /\ region.rows[r].volume \in Volumes
<1>1. region \in Region
  BY TypeOfRegion DEF Inv
<1>2. region.count \in Nat
  BY <1>1, BoundsAssumption DEF Region
<1> SUFFICES ASSUME NEW r \in 1 .. region.count
             PROVE  /\ r \in Rows /\ region.rows[r] \in Row
                    /\ region.rows[r].key \in Keys /\ region.rows[r].key.sec \in Securities
                    /\ region.rows[r].volume \in Volumes
  BY <1>1, <1>2
<1>3. r \in Rows
  BY <1>1, BoundsAssumption DEF Region, Rows
<1>4. region.rows[r] \in Row
  BY <1>1, <1>3 DEF Region
<1>5. region.rows[r].key \in Keys
  BY DEF Inv, CountedRowsAreNamed
<1>6. region.rows[r].key.sec \in Securities
  BY <1>5 DEF Keys
<1>7. region.rows[r].volume \in Volumes
  BY <1>4 DEF Row
<1> QED BY <1>3, <1>4, <1>5, <1>6, <1>7

\* One row more: it decides for its own security and for no other.
LEMMA SeedUpToNext ==
  ASSUME NEW rows \in Seq(SeedRow), NEW n \in Nat, n < Len(rows), NEW s
  PROVE  SeedUpTo(rows, n + 1, s) =
           IF rows[n + 1].key.sec = s THEN rows[n + 1].volume ELSE SeedUpTo(rows, n, s)
<1> DEFINE about(m) == {i \in 1 .. m : rows[i].key.sec = s}
           Last(S) == CHOOSE i \in S : \A j \in S : j <= i
<1>1. \A m \in Nat : SeedUpTo(rows, m, s) = IF about(m) = {} THEN Nothing ELSE rows[Last(about(m))].volume
  BY DEF SeedUpTo
<1>2. CASE rows[n + 1].key.sec = s
  <2>1. n + 1 \in about(n + 1) /\ \A j \in about(n + 1) : j \in Nat /\ j <= n + 1
    BY <1>2
  <2> DEFINE S == about(n + 1)
  <2> HIDE DEF S
  <2>2. n + 1 \in S /\ \A j \in S : j \in Nat /\ j <= n + 1
    BY <2>1 DEF S
  <2>3. Last(S) \in S /\ \A j \in S : j <= Last(S)
    BY <2>2
  <2>4. Last(S) \in Nat /\ n + 1 <= Last(S) /\ Last(S) <= n + 1
    BY <2>2, <2>3
  <2>5. Last(S) = n + 1
    <3> HIDE DEF Last
    <3> QED BY <2>4
  <2>6. SeedUpTo(rows, n + 1, s) = rows[Last(S)].volume
    BY <1>1, <2>2 DEF S
  <2> QED BY <1>2, <2>5, <2>6
<1>3. CASE rows[n + 1].key.sec # s
  <2>1. about(n + 1) = about(n)
    BY <1>3
  <2>2. SeedUpTo(rows, n + 1, s) = SeedUpTo(rows, n, s)
    BY <1>1, <2>1, SMTT(120)
  <2> QED BY <1>3, <2>2
<1> QED BY <1>2, <1>3

\* No rows, no volume.
LEMMA SeedUpToNothing ==
  ASSUME NEW rows, NEW s
  PROVE  SeedUpTo(rows, 0, s) = Nothing
BY DEF SeedUpTo

\* All rows: the volume a whole table has.
LEMMA SeedUpToAll ==
  ASSUME NEW rows \in Seq(SeedRow), NEW s
  PROVE  SeedUpTo(rows, Len(rows), s) = SeedVolume(rows, s)
<1> DEFINE about(D) == {i \in D : rows[i].key.sec = s}
           Of(S) == IF S = {} THEN Nothing ELSE rows[CHOOSE i \in S : \A j \in S : j <= i].volume
<1>1. DOMAIN rows = 1 .. Len(rows)
  OBVIOUS
<1>2. SeedUpTo(rows, Len(rows), s) = Of(about(1 .. Len(rows)))
  BY DEF SeedUpTo
<1>3. SeedVolume(rows, s) = Of(about(DOMAIN rows))
  BY DEF SeedVolume
<1> HIDE DEF about, Of
<1> QED BY <1>1, <1>2, <1>3

\* A snapshot's volumes are numbers.
LEMMA SeedVolumeType ==
  ASSUME NEW rows \in Seq(SeedRow), NEW s
  PROVE  SeedVolume(rows, s) \in Volumes
<1> DEFINE about == {i \in DOMAIN rows : rows[i].key.sec = s}
<1>1. SeedVolume(rows, s) =
        IF about = {} THEN Nothing ELSE rows[CHOOSE i \in about : \A j \in about : j <= i].volume
  BY DEF SeedVolume
<1>2. about \subseteq 1 .. Len(rows) /\ Len(rows) \in Nat
  OBVIOUS
<1> HIDE DEF about
<1>3. CASE about = {}
  BY <1>1, <1>3, RowFacts
<1>4. CASE about # {}
  <2>1. PICK i \in about : SeedVolume(rows, s) = rows[i].volume
    BY <1>1, <1>2, <1>4, GreatestRow
  <2>2. rows[i] \in SeedRow
    BY <1>2, <2>1
  <2> QED BY <2>1, <2>2 DEF SeedRow
<1> QED BY <1>3, <1>4

\* The same securities and volumes hold the same.
LEMMA HoldsSame ==
  ASSUME NEW g, NEW h, NEW s, NEW v, Holds(g, s, v), h.count = g.count,
         \A r \in 1 .. g.count : /\ h.rows[r].key.sec = g.rows[r].key.sec
                                 /\ h.rows[r].volume = g.rows[r].volume
  PROVE  Holds(h, s, v)
BY DEF Holds

\* What two regions hold alike they keep alike.
LEMMA KeptOn ==
  ASSUME NEW g, NEW h, \A t, v : Holds(g, t, v) => Holds(h, t, v)
  PROVE  \A s, rows, b, x : Kept(g, s, rows, b, x) => Kept(h, s, rows, b, x)
BY DEF Kept

\* A process that ends leaves the region as it is.
LEMMA GiveUpTable ==
  ASSUME TableInStep, GiveUp, UNCHANGED <<region, seeded, bought, sold>>
  PROVE  TableInStep'
<1>1. RowsAreDistinct(region') /\ Indexed'
  BY DEF TableInStep, GiveUp, Indexed
<1>2. MarkedIsWhole'
  BY DEF TableInStep, MarkedIsWhole
<1>3. TradesAreServed' /\ LoadsInStep'
  BY DEF GiveUp, TradesAreServed, LoadsInStep, Working
<1> QED BY <1>1, <1>2, <1>3 DEF TableInStep
\* open_positions finds the region or creates an empty one.
LEMMA StartTable ==
  ASSUME Inv, TableInStep, Start
  PROVE  TableInStep'
<1>1. Indexed' /\ TradesAreServed' /\ LoadsInStep'
  BY DEF TableInStep, Start, Indexed, TradesAreServed, LoadsInStep, Working
<1>2. UNCHANGED <<seeded, bought, sold>>
  BY DEF Start
<1>3. CASE region.exists
  <2>1. region' = region
    BY <1>3 DEF Start
  <2>2. RowsAreDistinct(region') /\ MarkedIsWhole'
    BY <1>2, <2>1 DEF TableInStep, MarkedIsWhole
  <2> QED BY <1>1, <2>2 DEF TableInStep
<1>4. CASE ~region.exists
  <2>1. region'.count = 0 /\ region'.init_state = 0
    BY <1>4, FreshFacts DEF Start
  <2>2. RowsAreDistinct(region')
    BY <2>1 DEF RowsAreDistinct
  <2>3. MarkedIsWhole'
    BY <1>2, <2>1 DEF TableInStep, MarkedIsWhole
  <2> QED BY <1>1, <2>2, <2>3 DEF TableInStep
<1> QED BY <1>3, <1>4

\* An empty region has nothing to index and holds nothing.
LEMMA EmptyTable ==
  ASSUME NEW g, g.count = 0
  PROVE  /\ RowsAreDistinct(g) /\ RowsIndexed(g, EmptyIndex) /\ IndexLeads(g, EmptyIndex)
         /\ \A s \in Securities : Holds(g, s, Nothing)
BY DEF RowsAreDistinct, RowsIndexed, IndexLeads, Holds, EmptyIndex

\* The fresh path clears the region before the loader runs.
LEMMA InitializeFreshTable ==
  ASSUME Inv, TableInStep, InitializeFresh
  PROVE  TableInStep'
<1>1. region' = [FreshRegion EXCEPT !.fund = DefaultFund]
  BY DEF InitializeFresh
<1>2. region'.count = 0 /\ region'.init_state = 0 /\ region'.fund = DefaultFund
  BY <1>1, FreshFacts DEF Region
<1>3. pc = "initialize" /\ index = EmptyIndex /\ cursor = 0
  BY DEF TableInStep, InitializeFresh, Indexed, LoadsInStep
<1>4. /\ pc' = (IF db THEN "fund" ELSE "rows")
      /\ UNCHANGED <<index, db, snapshot, cursor, job, seeded, bought, sold>>
  BY DEF InitializeFresh
<1>5. /\ RowsAreDistinct(region') /\ RowsIndexed(region', EmptyIndex)
      /\ IndexLeads(region', EmptyIndex) /\ \A s \in Securities : Holds(region', s, Nothing)
  BY <1>2, EmptyTable
<1>6. Indexed'
  <2>1. \A s \in Securities : ~(index'[s] > region'.count)
    BY <1>2, <1>3, <1>4 DEF EmptyIndex, NoRow
  <2> QED BY <1>3, <1>4, <1>5, <2>1 DEF Indexed
<1>7. MarkedIsWhole'
  BY <1>2, <1>4 DEF TableInStep, MarkedIsWhole
<1>8. TradesAreServed'
  BY <1>4 DEF TradesAreServed, Working
<1>9. LoadsInStep'
  <2>1. CASE db
    BY <1>2, <1>3, <1>4, <2>1 DEF LoadsInStep, Working
  <2>2. CASE ~db
    <3>1. pc' = "rows" /\ ~db' /\ cursor' = 0
      BY <1>3, <1>4, <2>2
    <3>2. 0 <= Len(RowsToLoad')
      <4>1. snapshot' \in Snapshots
        BY <1>4 DEF Inv, TypeOK
      <4>2. RowsToLoad' \in Seq(SeedRow)
        BY <4>1, <1>4, RowsToLoadType DEF RowsToLoad, DbRows, CsvRows
      <4> QED BY <4>2
    <3>3. region'.fund = FundToLoad'
      BY <1>2, <3>1 DEF FundToLoad
    <3>4. \A s \in Securities : Holds(region', s, SeedUpTo(RowsToLoad', 0, s))
      BY <1>5, SeedUpToNothing
    <3>5. LoadedSoFar'
      BY <3>1, <3>2, <3>3, <3>4 DEF LoadedSoFar, Working
    <3> QED BY <3>1, <3>5 DEF LoadsInStep
  <2> QED BY <2>1, <2>2
<1> QED BY <1>5, <1>6, <1>7, <1>8, <1>9 DEF TableInStep

\* The restart path sets out with an empty index.
LEMMA InitializeAttachedTable ==
  ASSUME Inv, TableInStep, InitializeAttached
  PROVE  TableInStep'
<1>1. /\ pc = "initialize" /\ pc' = "attach"
      /\ UNCHANGED <<region, index, cursor, job, seeded, bought, sold>>
  BY DEF InitializeAttached
<1>2. index = EmptyIndex /\ cursor = 0 /\ region.count \in Nat
  BY <1>1, CountedRow DEF TableInStep, Indexed, LoadsInStep
<1>3. RowsAreDistinct(region') /\ MarkedIsWhole'
  BY <1>1 DEF TableInStep, MarkedIsWhole
<1>4. Indexed'
  BY <1>1, <1>2 DEF Indexed, IndexLeads, EmptyIndex, NoRow
<1>5. TradesAreServed' /\ LoadsInStep'
  BY <1>1 DEF TradesAreServed, LoadsInStep, Working
<1> QED BY <1>3, <1>4, <1>5 DEF TableInStep

\* The restart path spells a key anew and indexes its row; no volume changes.
LEMMA AttachRowTable ==
  ASSUME Inv, TableInStep, AttachRow
  PROVE  TableInStep'
<1> DEFINE r == cursor + 1
           key == region.rows[r].key
           sec == key.sec
<1>1. /\ pc = "attach" /\ cursor \in Nat /\ cursor < region.count
      /\ UNCHANGED <<db, snapshot, seeded, bought, sold>>
  BY DEF AttachRow, Inv, TypeOK
<1>2. /\ region.count \in Nat /\ r \in 1 .. region.count
      /\ \A q \in 1 .. region.count : q \in Rows /\ region.rows[q].key.sec \in Securities
  BY <1>1, CountedRow
<1>3. key # NoKey
  BY <1>2, KeyFacts DEF Inv, CountedRowsAreNamed
<1>4. CASE ~Normalizable(key)
  <2>1. GiveUp /\ UNCHANGED region
    BY <1>3, <1>4 DEF AttachRow
  <2> QED BY <1>1, <2>1, GiveUpTable
<1>5. CASE Normalizable(key)
  <2>1. /\ cursor' = r /\ region' = [region EXCEPT !.rows[r].key = Normalize(key)]
        /\ index' = [index EXCEPT ![sec] = r] /\ UNCHANGED <<pc, job>>
    BY <1>3, <1>5 DEF AttachRow, Rebuilt
  <2>2. /\ sec \in Securities /\ region'.init_state = region.init_state
        /\ region'.count = region.count /\ region'.fund = region.fund
        /\ region'.rows[r].key.form = "mic" /\ region'.rows[r].key.sec = sec
        /\ region'.rows[r].volume = region.rows[r].volume
        /\ \A q \in Rows : q # r => region'.rows[q] = region.rows[q]
    BY <1>2, <2>1, RespelledRow
  <2>3. /\ r \in Nat /\ r # NoRow /\ cursor < r
        /\ \A q : q \in 1 .. r <=> q \in 1 .. cursor \/ q = r
        /\ \A q \in 1 .. cursor : q # r /\ q \in 1 .. region.count
    BY <1>1, <1>2 DEF NoRow
  <2>4. region.rows[r].key.sec = sec
    OBVIOUS
  <2> HIDE DEF r, sec, key
  <2>5. \A q \in 1 .. region.count : /\ region'.rows[q].key.sec = region.rows[q].key.sec
                                      /\ region'.rows[q].volume = region.rows[q].volume
    BY <1>2, <2>2, <2>4
  <2>6. RowsAreDistinct(region')
    BY <2>2, <2>5 DEF TableInStep, RowsAreDistinct
  <2>7. /\ index'[sec] = r
        /\ \A t \in Securities : t # sec => index'[t] = index[t]
    BY <2>1, <2>2 DEF Inv, TypeOK
  <2>8. /\ \A q \in 1 .. cursor :
             region.rows[q].key.form = "mic" /\ index[region.rows[q].key.sec] = q
        /\ IndexLeads(region, index) /\ \A s \in Securities : index[s] <= cursor
    BY <1>1 DEF TableInStep, Indexed
  <2>9. Indexed'
    <3>1. cursor' <= region'.count
      BY <1>2, <2>1, <2>2
    <3>2. ASSUME NEW q \in 1 .. r
          PROVE  region'.rows[q].key.form = "mic" /\ index'[region'.rows[q].key.sec] = q
      <4>1. CASE q = r
        BY <2>2, <2>7, <4>1
      <4>2. CASE q # r
        <5>1. q \in 1 .. cursor /\ q \in 1 .. region.count /\ q \in Rows
          BY <1>2, <2>3, <4>2
        <5>2. region.rows[q].key.sec # sec
          BY <1>2, <2>4, <4>2, <5>1 DEF TableInStep, RowsAreDistinct
        <5> QED BY <1>2, <2>2, <2>7, <2>8, <4>2, <5>1, <5>2
      <4> QED BY <4>1, <4>2
    <3>3. IndexLeads(region', index')
      <4> SUFFICES ASSUME NEW t \in Securities, index'[t] # NoRow
                   PROVE  region'.rows[index'[t]].key.sec = t
        BY DEF IndexLeads
      <4>1. CASE t = sec
        BY <2>2, <2>7, <4>1
      <4>2. CASE t # sec
        <5>1. index'[t] = index[t] /\ index[t] # NoRow /\ index[t] \in Nat /\ index[t] <= cursor
          BY <2>7, <2>8, <4>2, BoundsAssumption DEF Inv, TypeOK
        <5>2. index[t] \in 1 .. region.count
          BY <1>1, <1>2, <5>1 DEF NoRow
        <5> QED BY <2>5, <2>8, <5>1, <5>2 DEF IndexLeads
      <4> QED BY <4>1, <4>2
    <3>4. \A t \in Securities : index'[t] <= r
      <4>1. \A t \in Securities : index[t] \in Nat
        BY BoundsAssumption DEF Inv, TypeOK
      <4> QED BY <1>1, <2>3, <2>7, <2>8, <4>1
    <3> QED BY <1>1, <2>1, <3>1, <3>2, <3>3, <3>4 DEF Indexed
  <2>10. \A t, v : Holds(region, t, v) => Holds(region', t, v)
    BY <2>2, <2>5, HoldsSame
  <2>11. MarkedIsWhole'
    BY <1>1, <2>2, <2>10, KeptOn DEF TableInStep, MarkedIsWhole
  <2>12. TradesAreServed' /\ LoadsInStep'
    BY <1>1, <2>1 DEF TradesAreServed, LoadsInStep, Working
  <2> QED BY <2>6, <2>9, <2>11, <2>12 DEF TableInStep
<1> QED BY <1>4, <1>5

\* The restart path has gone over every counted row.
LEMMA AttachDoneTable ==
  ASSUME Inv, TableInStep, AttachDone
  PROVE  TableInStep'
<1>1. /\ pc = "attach" /\ pc' = "up" /\ cursor = region.count /\ cursor' = 0
      /\ region' = [region EXCEPT !.next_id = region.count + 1]
      /\ UNCHANGED <<index, job, seeded, bought, sold>>
  BY DEF AttachDone
<1>2. region \in Region /\ region.count \in Nat /\ region.init_state = 1
  BY <1>1, CountedRow DEF Inv, LoadsAreUnmarked
<1>3. /\ region'.count = region.count /\ region'.rows = region.rows /\ region'.fund = region.fund
      /\ region'.init_state = 1 /\ region'.next_id = region.count + 1
  BY <1>1, <1>2 DEF Region
<1>4. RowsAreDistinct(region')
  BY <1>3 DEF TableInStep, RowsAreDistinct
<1>5. Indexed'
  <2>1. RowsIndexed(region', index') /\ IndexLeads(region', index')
    BY <1>1, <1>3 DEF TableInStep, Indexed, RowsIndexed, IndexLeads
  <2>2. \A s \in Securities : index[s] \in Nat /\ index[s] <= region.count
    BY <1>1, BoundsAssumption DEF Inv, TypeOK, TableInStep, Indexed
  <2>3. \A s \in Securities : ~(index'[s] > region'.count)
    BY <1>1, <1>2, <1>3, <2>2
  <2> QED BY <1>1, <2>1, <2>3 DEF Indexed
<1>6. \A t, v : Holds(region, t, v) => Holds(region', t, v)
  BY <1>3, HoldsSame
<1>7. MarkedIsWhole'
  BY <1>1, <1>2, <1>3, <1>6, KeptOn DEF TableInStep, MarkedIsWhole
<1>8. TradesAreServed' /\ LoadsInStep'
  BY <1>1, <1>3 DEF TradesAreServed, LoadsInStep, Working
<1> QED BY <1>4, <1>5, <1>7, <1>8 DEF TableInStep

\* load_fund_from_db succeeds or ends the start.
LEMMA LoadFundTable ==
  ASSUME Inv, TableInStep, LoadFund
  PROVE  TableInStep'
<1>1. CASE DatabaseOpens /\ FundRowFound
  <2>1. /\ region' = [region EXCEPT !.fund = snapshot.fund] /\ pc' = "rows" /\ pc = "fund"
        /\ UNCHANGED <<index, cursor, job, db, snapshot, seeded, bought, sold>>
    BY <1>1 DEF LoadFund
  <2>2. region \in Region /\ region.init_state = 0 /\ region.count = 0 /\ cursor = 0
    BY <2>1, CountedRow DEF Inv, LoadsAreUnmarked, TableInStep, LoadsInStep
  <2>3. /\ region'.count = region.count /\ region'.init_state = 0
        /\ region'.fund = snapshot.fund /\ region'.rows = region.rows
    BY <2>1, <2>2 DEF Region
  <2>4. RowsAreDistinct(region') /\ \A s \in Securities : Holds(region', s, Nothing)
    BY <2>2, <2>3, EmptyTable
  <2>5. Indexed'
    BY <2>1, <2>3 DEF TableInStep, Indexed, RowsIndexed, IndexLeads
  <2>6. MarkedIsWhole' /\ TradesAreServed'
    BY <2>1, <2>3 DEF TableInStep, MarkedIsWhole, TradesAreServed, Working
  <2>7. RowsToLoad' = RowsToLoad /\ RowsToLoad \in Seq(SeedRow)
    BY <2>1, RowsToLoadType DEF Inv, TypeOK, RowsToLoad, DbRows, CsvRows
  <2>8. region'.fund = FundToLoad'
    <3>1. db
      BY <2>1 DEF TableInStep, LoadsInStep
    <3> QED BY <2>1, <2>3, <3>1 DEF FundToLoad
  <2>9. \A s \in Securities : Holds(region', s, SeedUpTo(RowsToLoad', 0, s))
    BY <2>4, SeedUpToNothing
  <2>10. 0 <= Len(RowsToLoad')
    BY <2>7
  <2>11. LoadedSoFar'
    BY <2>1, <2>2, <2>8, <2>9, <2>10 DEF LoadedSoFar, Working
  <2>12. LoadsInStep'
    BY <2>1, <2>11 DEF LoadsInStep
  <2> QED BY <2>4, <2>5, <2>6, <2>12 DEF TableInStep
<1>2. CASE ~(DatabaseOpens /\ FundRowFound)
  <2>1. GiveUp /\ UNCHANGED <<region, seeded, bought, sold>>
    BY <1>2 DEF LoadFund
  <2> QED BY <2>1, GiveUpTable
<1> QED BY <1>1, <1>2

\* A new row is empty, indexed and not counted.
LEMMA InsertedRow ==
  ASSUME Inv, NEW s \in Securities, InsertRow(s), ~Full
  PROVE  /\ region'.count = region.count /\ region'.init_state = region.init_state
         /\ region'.fund = region.fund /\ region'.next_id = region.next_id
         /\ region'.rows[region.count + 1].key.sec = s
         /\ region'.rows[region.count + 1].key.form = "mic"
         /\ region'.rows[region.count + 1].volume = Nothing
         /\ \A q \in Rows : q # region.count + 1 => region'.rows[q] = region.rows[q]
         /\ index'[s] = region.count + 1
         /\ \A t \in Securities : t # s => index'[t] = index[t]
<1> DEFINE r == region.count + 1
           k == [sec |-> s, form |-> "mic"]
           row == [EmptyRow EXCEPT !.key = k]
<1>1. region \in Region
  BY CountedRow
<1>2. r \in Rows
  BY <1>1, BoundsAssumption DEF Region, Rows, Full
<1>3. k \in Keys /\ k.sec = s /\ k.form = "mic"
  BY DEF Keys, Spellings
<1>4. region' = Stored(region, r, row) /\ index' = [index EXCEPT ![s] = r]
  BY DEF InsertRow, Stored
<1> HIDE DEF r, k
<1>5. row \in Row /\ row.key = k /\ row.volume = Nothing
  BY <1>3, RowFacts DEF Row, EmptyRow
<1> HIDE DEF row
<1>6. /\ region'.init_state = region.init_state
      /\ region'.count = region.count /\ region'.fund = region.fund
      /\ region'.next_id = region.next_id /\ region'.rows[r] = row
      /\ \A q \in Rows : q # r => region'.rows[q] = region.rows[q]
  BY <1>1, <1>2, <1>4, <1>5, RowStored
<1>7. index'[s] = r /\ \A t \in Securities : t # s => index'[t] = index[t]
  BY <1>4 DEF Inv, TypeOK
<1> QED BY <1>3, <1>5, <1>6, <1>7 DEF r

\* The loader and a trade set out on a row in the same way: index and rows go on agreeing,
\* and what is counted stays.
LEMMA ChosenRow ==
  ASSUME Inv, TableInStep, pc \in {"rows", "up"}, NEW s \in Securities,
         job'.sec = s, ~(index[s] = NoRow /\ Full),
         IF index[s] = NoRow
         THEN InsertRow(s) /\ pc' = "publish"
         ELSE pc' = "lock" /\ UNCHANGED <<region, index>>
  PROVE  /\ RowsAreDistinct(region') /\ Indexed' /\ pc' \in {"publish", "lock"}
         /\ region'.count = region.count /\ region'.init_state = region.init_state
         /\ region'.fund = region.fund /\ region'.next_id = region.next_id
         /\ \A t, v : Holds(region, t, v) => Holds(region', t, v)
<1>1. /\ RowsIndexed(region, index) /\ IndexLeads(region, index)
      /\ \A t \in Securities : ~(index[t] > region.count)
      /\ RowsAreDistinct(region)
  BY DEF TableInStep, Indexed
<1>2. CASE index[s] # NoRow
  <2>1. pc' = "lock" /\ region' = region /\ index' = index
    BY <1>2
  <2>2. Indexed'
    BY <1>1, <2>1 DEF Indexed
  <2> QED BY <1>1, <2>1, <2>2
<1>3. CASE index[s] = NoRow
  <2>1. InsertRow(s) /\ pc' = "publish" /\ ~Full
    BY <1>3
  <2>2. /\ region'.count = region.count /\ region'.init_state = region.init_state
        /\ region'.fund = region.fund /\ region'.next_id = region.next_id
        /\ region'.rows[region.count + 1].key.sec = s
        /\ region'.rows[region.count + 1].key.form = "mic"
        /\ region'.rows[region.count + 1].volume = Nothing
        /\ \A q \in Rows : q # region.count + 1 => region'.rows[q] = region.rows[q]
        /\ index'[s] = region.count + 1
        /\ \A t \in Securities : t # s => index'[t] = index[t]
    BY <2>1, InsertedRow
  <2>3. /\ region.count \in Nat
        /\ \A r \in 1 .. region.count : r \in Rows /\ region.rows[r].key.sec \in Securities
    BY CountedRow
  <2>4. \A r \in 1 .. region.count : region'.rows[r] = region.rows[r]
    BY <2>2, <2>3
  <2>5. \A t, v : Holds(region, t, v) => Holds(region', t, v)
    BY <2>2, <2>4, HoldsSame
  <2>6. RowsAreDistinct(region')
    BY <1>1, <2>2, <2>4 DEF RowsAreDistinct
  <2>7. \A r \in 1 .. region.count : region.rows[r].key.sec # s
    BY <1>1, <1>3, <2>3 DEF RowsIndexed, NoRow
  <2>8. RowsIndexed(region', index')
    BY <1>1, <2>2, <2>3, <2>4, <2>7 DEF RowsIndexed
  <2>9. \A t \in Securities : t # s => index'[t] \in 0 .. region.count
    <3>1. \A t \in Securities : index[t] \in Nat /\ index[t] <= region.count
      BY <1>1, <2>3, BoundsAssumption DEF Inv, TypeOK
    <3> QED BY <2>2, <2>3, <3>1
  <2>10. IndexLeads(region', index')
    <3> SUFFICES ASSUME NEW t \in Securities, index'[t] # NoRow
                 PROVE  region'.rows[index'[t]].key.sec = t
      BY DEF IndexLeads
    <3>1. CASE t = s
      BY <2>2, <3>1
    <3>2. CASE t # s
      <4>1. index'[t] = index[t] /\ index[t] \in 1 .. region.count
        BY <2>2, <2>3, <2>9, <3>2 DEF NoRow
      <4>2. region.rows[index[t]].key.sec = t
        BY <1>1, <4>1 DEF IndexLeads
      <4> QED BY <2>4, <4>1, <4>2
    <3> QED BY <3>1, <3>2
  <2>11. \A t \in Securities : index'[t] > region'.count => t = s
    BY <2>2, <2>3, <2>9
  <2>12. Indexed'
    BY <2>1, <2>2, <2>8, <2>10, <2>11 DEF Indexed
  <2> QED BY <2>1, <2>2, <2>5, <2>6, <2>12
<1> QED BY <1>2, <1>3

\* The loader takes the next row of the snapshot, or gives up.
LEMMA LoadRowTable ==
  ASSUME Inv, TableInStep, LoadRow
  PROVE  TableInStep'
<1> DEFINE row == RowsToLoad[cursor + 1]
           s == row.key.sec
<1>1. /\ RowsToLoad \in Seq(SeedRow) /\ cursor \in Nat /\ cursor < Len(RowsToLoad)
      /\ pc = "rows" /\ region.init_state = 0 /\ LoadedSoFar
  BY RowsToLoadType DEF Inv, TypeOK, LoadRow, LoadsAreUnmarked, TableInStep, LoadsInStep
<1>2. row \in SeedRow
  <2>1. cursor + 1 \in 1 .. Len(RowsToLoad)
    BY <1>1
  <2> QED BY <1>1, <2>1
<1>3. s \in Securities /\ UNCHANGED <<db, snapshot, seeded, bought, sold>>
  BY <1>2 DEF SeedRow, Keys, LoadRow
<1>4. CASE ~Normalizable(row.key) \/ (index[s] = NoRow /\ Full)
  <2>1. GiveUp /\ UNCHANGED region
    BY <1>4 DEF LoadRow
  <2> QED BY <1>3, <2>1, GiveUpTable
<1>5. CASE ~(~Normalizable(row.key) \/ (index[s] = NoRow /\ Full))
  <2>1. /\ cursor' = cursor + 1
        /\ job' = [sec |-> s, volume |-> row.volume, for |-> "load"]
        /\ IF index[s] = NoRow
           THEN InsertRow(s) /\ pc' = "publish"
           ELSE pc' = "lock" /\ UNCHANGED <<region, index>>
    BY <1>5 DEF LoadRow
  <2>2. ~(index[s] = NoRow /\ Full)
    BY <1>5
  <2>3. job'.sec = s /\ job'.volume = row.volume /\ job'.for = "load"
    BY <2>1
  <2>4. \A t : SeedUpTo(RowsToLoad, cursor + 1, t) =
               IF s = t THEN row.volume ELSE SeedUpTo(RowsToLoad, cursor, t)
    BY <1>1, SeedUpToNext
  <2>5. RowsToLoad' = RowsToLoad /\ FundToLoad' = FundToLoad
    BY <1>3 DEF RowsToLoad, DbRows, CsvRows, FundToLoad
  <2> HIDE DEF row, s
  <2>6. /\ RowsAreDistinct(region') /\ Indexed' /\ pc' \in {"publish", "lock"}
        /\ region'.count = region.count /\ region'.init_state = region.init_state
        /\ region'.fund = region.fund /\ region'.next_id = region.next_id
        /\ \A t, v : Holds(region, t, v) => Holds(region', t, v)
    BY <1>1, <1>3, <2>1, <2>2, <2>3, ChosenRow
  <2>7. MarkedIsWhole' /\ TradesAreServed'
    BY <1>1, <1>3, <2>3, <2>6 DEF TableInStep, MarkedIsWhole, TradesAreServed, Sides
  <2>8. \A t \in Securities : t # s => Holds(region', t, SeedUpTo(RowsToLoad, cursor + 1, t))
    BY <1>1, <2>4, <2>6 DEF LoadedSoFar
  <2>9. LoadedSoFar'
    <3>1. cursor' <= Len(RowsToLoad') /\ region'.fund = FundToLoad'
      BY <1>1, <2>1, <2>5, <2>6 DEF LoadedSoFar
    <3>2. \A t \in Securities : t # job'.sec => Holds(region', t, SeedUpTo(RowsToLoad', cursor', t))
      BY <2>1, <2>3, <2>5, <2>8
    <3>3. job'.volume = SeedUpTo(RowsToLoad', cursor', job'.sec)
      BY <2>1, <2>3, <2>4, <2>5
    <3> QED BY <2>6, <3>1, <3>2, <3>3 DEF LoadedSoFar
  <2>10. LoadsInStep'
    BY <2>6, <2>9 DEF LoadsInStep
  <2> QED BY <2>6, <2>7, <2>10 DEF TableInStep
<1> QED BY <1>4, <1>5

\* A trade sets out on its row, or is refused.
LEMMA TradeTable ==
  ASSUME Inv, TableInStep, NEW s \in Securities, NEW n \in 1 .. MaxVolume, NEW side \in Sides,
         Trade(s, n, side)
  PROVE  TableInStep'
<1>1. UNCHANGED <<db, snapshot, seeded, bought, sold>> /\ pc = "up"
  BY DEF Trade
<1>2. CASE index[s] = NoRow /\ Full
  <2>1. UNCHANGED <<region, index, pc, job>>
    BY <1>2 DEF Trade
  <2>2. RowsAreDistinct(region') /\ Indexed' /\ MarkedIsWhole' /\ TradesAreServed'
    BY <1>1, <2>1 DEF TableInStep, Indexed, MarkedIsWhole, TradesAreServed, Working
  <2>3. LoadsInStep'
    BY <1>1, <2>1 DEF LoadsInStep, Working
  <2> QED BY <2>2, <2>3 DEF TableInStep
<1>3. CASE ~(index[s] = NoRow /\ Full)
  <2>1. /\ job' = [sec |-> s, volume |-> n, for |-> side]
        /\ IF index[s] = NoRow
           THEN InsertRow(s) /\ pc' = "publish"
           ELSE pc' = "lock" /\ UNCHANGED <<region, index>>
    BY <1>3 DEF Trade
  <2>2. job'.sec = s /\ job'.for # "load"
    BY <2>1 DEF Sides
  <2>3. /\ RowsAreDistinct(region') /\ Indexed' /\ pc' \in {"publish", "lock"}
        /\ region'.count = region.count /\ region'.init_state = region.init_state
        /\ region'.fund = region.fund /\ region'.next_id = region.next_id
        /\ \A t, v : Holds(region, t, v) => Holds(region', t, v)
    BY <1>1, <1>3, <2>1, <2>2, ChosenRow
  <2>4. MarkedIsWhole'
    BY <1>1, <2>3, KeptOn DEF TableInStep, MarkedIsWhole
  <2>5. TradesAreServed' /\ LoadsInStep'
    BY <1>1, <2>2, <2>3 DEF TableInStep, TradesAreServed, LoadsInStep
  <2> QED BY <2>3, <2>4, <2>5 DEF TableInStep
<1> QED BY <1>2, <1>3
\* The mark is stored when every row of the snapshot is in the region.
LEMMA FinishLoadTable ==
  ASSUME Inv, TableInStep, FinishLoad
  PROVE  TableInStep'
<1>1. /\ pc = "rows" /\ pc' = "up" /\ cursor = Len(RowsToLoad) /\ UNCHANGED index
      /\ region' = [region EXCEPT !.next_id = region.count + 1, !.init_state = 1]
      /\ seeded' = [rows |-> RowsToLoad, fund |-> FundToLoad]
      /\ bought' = NoneTraded /\ sold' = NoneTraded
  BY DEF FinishLoad, FundToLoad
<1>2. region \in Region /\ region.count \in Nat /\ LoadedSoFar
  BY <1>1, CountedRow DEF TableInStep, LoadsInStep
<1>3. /\ region'.count = region.count /\ region'.rows = region.rows /\ region'.fund = region.fund
      /\ region'.init_state = 1 /\ region'.next_id = region.count + 1
  BY <1>1, <1>2 DEF Region
<1>4. RowsAreDistinct(region')
  BY <1>3 DEF TableInStep, RowsAreDistinct
<1>5. Indexed'
  BY <1>1, <1>3 DEF TableInStep, Indexed, RowsIndexed, IndexLeads
<1>6. MarkedIsWhole'
  <2>1. RowsToLoad \in Seq(SeedRow)
    BY RowsToLoadType DEF Inv, TypeOK
  <2>2. seeded'.rows = RowsToLoad /\ seeded'.fund = FundToLoad
    BY <1>1
  <2>3. ASSUME NEW s \in Securities
        PROVE  Kept(region', s, seeded'.rows, bought'[s], sold'[s])
    <3> DEFINE v == SeedVolume(RowsToLoad, s)
    <3>1. Holds(region, s, SeedUpTo(RowsToLoad, Len(RowsToLoad), s))
      BY <1>1, <1>2 DEF LoadedSoFar
    <3>2. v \in Volumes /\ bought'[s] = 0 /\ sold'[s] = 0
      BY <1>1, <2>1, SeedVolumeType DEF NoneTraded
    <3>3. Holds(region, s, v)
      BY <2>1, <3>1, SeedUpToAll
    <3> HIDE DEF v
    <3>4. Holds(region', s, v)
      BY <1>3, <3>3, HoldsSame
    <3>5. AddsUp(v, v, 0, 0)
      BY <3>2 DEF AddsUp, Volumes
    <3> QED BY <2>2, <3>2, <3>4, <3>5 DEF Kept, v
  <2>4. region'.fund = seeded'.fund
    BY <1>2, <1>3, <2>2 DEF LoadedSoFar
  <2> QED BY <2>1, <2>2, <2>3, <2>4 DEF MarkedIsWhole
<1>7. TradesAreServed' /\ LoadsInStep'
  BY <1>1, <1>3 DEF TradesAreServed, LoadsInStep, Working
<1> QED BY <1>4, <1>5, <1>6, <1>7 DEF TableInStep

\* A row that is counted is new, and empty until its volume is written.
LEMMA PublishRowTable ==
  ASSUME Inv, TableInStep, PublishRow
  PROVE  TableInStep'
<1> DEFINE n == region.count + 1
<1>1. /\ pc = "publish" /\ pc' = "lock"
      /\ region' = [region EXCEPT !.count = n, !.next_id = region.count + 2]
      /\ UNCHANGED <<index, db, snapshot, cursor, job, seeded, bought, sold>>
  BY DEF PublishRow
<1>2. /\ region \in Region /\ region.count \in Nat
      /\ \A r \in 1 .. region.count : region.rows[r].key.sec \in Securities
  BY CountedRow
<1>3. /\ region'.count = n /\ region'.rows = region.rows /\ region'.fund = region.fund
      /\ region'.init_state = region.init_state /\ region'.next_id = n + 1
  BY <1>1, <1>2 DEF Region
<1>4. /\ job \in Jobs /\ job.sec \in Securities /\ index[job.sec] = n
      /\ region.rows[n].key.form = "mic" /\ region.rows[n].volume = Nothing /\ n # NoRow
      /\ RowsIndexed(region, index) /\ IndexLeads(region, index)
      /\ \A s \in Securities : index[s] > region.count => s = job.sec
  BY <1>1, <1>2, JobFacts DEF Inv, LoadsAreUnmarked, Working, TableInStep, Indexed, NoRow
<1>5. region.rows[n].key.sec = job.sec
  BY <1>4 DEF IndexLeads
<1>6. /\ n \in Nat /\ n # NoRow
      /\ \A r : r \in 1 .. n <=> r \in 1 .. region.count \/ r = n
      /\ \A r \in 1 .. region.count : r # n
  BY <1>2 DEF NoRow
<1> HIDE DEF n
<1>7. RowsIndexed(region', index')
  BY <1>1, <1>3, <1>4, <1>5, <1>6 DEF RowsIndexed
<1>8. RowsAreDistinct(region')
  <2> SUFFICES ASSUME NEW q \in 1 .. n, NEW r \in 1 .. n
               PROVE  region.rows[q].key.sec = region.rows[r].key.sec => q = r
    BY <1>3 DEF RowsAreDistinct
  <2>1. index[region.rows[q].key.sec] = q /\ index[region.rows[r].key.sec] = r
    BY <1>1, <1>3, <1>7 DEF RowsIndexed
  <2> QED BY <2>1
<1>9. Indexed'
  <2>1. IndexLeads(region', index')
    BY <1>1, <1>3, <1>4 DEF IndexLeads
  <2>2. \A s \in Securities : ~(index'[s] > region'.count)
    <3>1. \A s \in Securities : index[s] \in Nat
      BY BoundsAssumption DEF Inv, TypeOK
    <3> QED BY <1>1, <1>2, <1>3, <1>4, <1>6, <3>1 DEF n
  <2> QED BY <1>1, <1>7, <2>1, <2>2 DEF Indexed
<1>10. \A r \in 1 .. region.count : region.rows[r].key.sec # job.sec
  BY <1>4, <1>6 DEF RowsIndexed
<1>11. \A s, v : s # job.sec /\ Holds(region, s, v) => Holds(region', s, v)
  BY <1>3, <1>5, <1>6 DEF Holds
<1>12. \A v : Holds(region, job.sec, v) => Holds(region', job.sec, v)
  <2> SUFFICES ASSUME NEW v, Holds(region, job.sec, v) PROVE Holds(region', job.sec, v)
    OBVIOUS
  <2>1. v = Nothing
    BY <1>10 DEF Holds
  <2> QED BY <1>3, <1>4, <1>5, <1>6, <1>10, <2>1 DEF Holds
<1>13. MarkedIsWhole'
  <2>1. \A s, v : Holds(region, s, v) => Holds(region', s, v)
    BY <1>11, <1>12
  <2> QED BY <1>1, <1>3, <2>1, KeptOn DEF TableInStep, MarkedIsWhole
<1>14. TradesAreServed'
  BY <1>1, <1>3 DEF TableInStep, TradesAreServed, Working
<1>15. LoadsInStep'
  <2> SUFFICES ASSUME job.for = "load" PROVE LoadedSoFar'
    BY <1>1 DEF LoadsInStep, Working
  <2>1. LoadedSoFar
    BY <1>1 DEF TableInStep, LoadsInStep, Working
  <2>2. RowsToLoad' = RowsToLoad /\ FundToLoad' = FundToLoad
    BY <1>1 DEF RowsToLoad, DbRows, CsvRows, FundToLoad
  <2> QED BY <1>1, <1>3, <1>11, <2>1, <2>2 DEF LoadedSoFar, Working
<1> QED BY <1>8, <1>9, <1>13, <1>14, <1>15 DEF TableInStep

\* The locked update leaves keys, count and index; only the row at work may change.
LEMMA UpdatedRow ==
  ASSUME Inv, TableInStep, pc \in {"lock", "fill", "unlock"}, NEW row \in Row,
         region' = Stored(region, index[job.sec], row),
         row.key = region.rows[index[job.sec]].key, index' = index,
         pc' \in {"fill", "unlock", "rows", "up"}
  PROVE  /\ RowsAreDistinct(region') /\ Indexed'
         /\ region'.init_state = region.init_state /\ region'.fund = region.fund
         /\ region'.next_id = region.next_id /\ region'.count = region.count
         /\ \A s, v : s # job.sec /\ Holds(region, s, v) => Holds(region', s, v)
         /\ Holds(region', job.sec, row.volume)
         /\ row.volume = region.rows[index[job.sec]].volume =>
              \A v : Holds(region, job.sec, v) => Holds(region', job.sec, v)
         /\ \A v : Holds(region, job.sec, v) => v = region.rows[index[job.sec]].volume
<1> DEFINE r == index[job.sec]
<1>1. region \in Region /\ job \in Jobs /\ job.sec \in Securities /\ r \in Rows
  BY WorkedRow, JobFacts
<1>2. region.count \in Nat /\ r \in Nat /\ r # NoRow
      /\ \A q \in 1 .. region.count : q \in Rows
  BY <1>1, CountedRow DEF Rows, NoRow
<1>3. /\ RowsIndexed(region, index) /\ IndexLeads(region, index)
      /\ \A s \in Securities : ~(index[s] > region.count) /\ RowsAreDistinct(region)
  BY DEF TableInStep, Indexed
<1>4. r \in 1 .. region.count /\ region.rows[r].key.sec = job.sec
  BY <1>1, <1>2, <1>3 DEF IndexLeads, NoRow
<1> HIDE DEF r
<1>5. /\ region'.init_state = region.init_state /\ region'.fund = region.fund
      /\ region'.next_id = region.next_id /\ region'.count = region.count
      /\ region'.rows[r] = row /\ row.key = region.rows[r].key
      /\ \A q \in Rows : q # r => region'.rows[q] = region.rows[q]
  BY <1>1, RowStored DEF r
<1>6. \A q \in Rows : region'.rows[q].key = region.rows[q].key
  BY <1>5
<1>7. RowsAreDistinct(region')
  BY <1>1, <1>2, <1>3, <1>5, <1>6, SMTT(120) DEF RowsAreDistinct
<1>8. RowsIndexed(region', index')
  BY <1>2, <1>3, <1>5, <1>6 DEF RowsIndexed
<1>9. IndexLeads(region', index')
  <2>1. \A s \in Securities : index[s] # NoRow => index[s] \in Rows
    BY BoundsAssumption DEF Inv, TypeOK, Rows, NoRow
  <2> QED BY <1>3, <1>6, <2>1 DEF IndexLeads
<1>10. Indexed'
  BY <1>3, <1>5, <1>8, <1>9 DEF Indexed
<1>11. \A q \in 1 .. region.count : region.rows[q].key.sec = job.sec => q = r
  BY <1>3 DEF RowsIndexed, r
<1>12. \A q \in 1 .. region.count :
         /\ region'.rows[q].key.sec = region.rows[q].key.sec
         /\ q # r => region'.rows[q].volume = region.rows[q].volume
  BY <1>2, <1>5, <1>6
<1>13. \A s, v : s # job.sec /\ Holds(region, s, v) => Holds(region', s, v)
  <2> SUFFICES ASSUME NEW s, NEW v, s # job.sec, Holds(region, s, v)
               PROVE  Holds(region', s, v)
    OBVIOUS
  <2> DEFINE after == region'
  <2>1. /\ after.count = region.count
        /\ \A q \in 1 .. region.count :
             /\ after.rows[q].key.sec = region.rows[q].key.sec
             /\ region.rows[q].key.sec = s => after.rows[q].volume = region.rows[q].volume
    BY <1>4, <1>5, <1>12
  <2> HIDE DEF after
  <2>2. Holds(after, s, v)
    BY <2>1 DEF Holds
  <2> QED BY <2>2 DEF after
<1>14. Holds(region', job.sec, row.volume)
  BY <1>4, <1>5, <1>11, <1>12 DEF Holds
<1>15. \A v : Holds(region, job.sec, v) => v = region.rows[r].volume
  BY <1>4 DEF Holds
<1>16. row.volume = region.rows[r].volume =>
         \A v : Holds(region, job.sec, v) => Holds(region', job.sec, v)
  BY <1>14, <1>15
<1> QED BY <1>5, <1>7, <1>10, <1>13, <1>14, <1>15, <1>16 DEF r
\* Taking and releasing the row lock changes no volume.
LEMMA LockTable ==
  ASSUME Inv, TableInStep, LockRow \/ UnlockRow
  PROVE  TableInStep'
<1>1. PICK b \in BOOLEAN : region' = [region EXCEPT !.rows[index[job.sec]].locked = b]
  BY DEF LockRow, UnlockRow
<1> DEFINE new == [region.rows[index[job.sec]] EXCEPT !.locked = b]
<1>2. /\ pc \in {"lock", "unlock"} /\ pc' \in {"fill", "rows", "up"}
      /\ UNCHANGED <<index, db, snapshot, cursor, seeded, bought, sold>>
  BY DEF LockRow, UnlockRow
<1>3. /\ region \in Region /\ region.rows[index[job.sec]] \in Row /\ index[job.sec] \in Rows
      /\ job \in Jobs
  BY <1>2, WorkedRow
<1>4. new \in Row /\ new.key = region.rows[index[job.sec]].key
      /\ new.volume = region.rows[index[job.sec]].volume
  BY <1>3 DEF Row
<1>5. region' = Stored(region, index[job.sec], new)
  BY <1>1, <1>3 DEF Stored, Region
<1> HIDE DEF new
<1>6. /\ RowsAreDistinct(region') /\ Indexed'
      /\ region'.init_state = region.init_state /\ region'.fund = region.fund
      /\ region'.next_id = region.next_id /\ region'.count = region.count
      /\ \A s, v : s # job.sec /\ Holds(region, s, v) => Holds(region', s, v)
      /\ \A v : Holds(region, job.sec, v) => Holds(region', job.sec, v)
  BY <1>2, <1>4, <1>5, UpdatedRow
<1>7. \A s, v : Holds(region, s, v) => Holds(region', s, v)
  BY <1>6
<1>8. MarkedIsWhole'
  BY <1>2, <1>6, <1>7, KeptOn DEF TableInStep, MarkedIsWhole
<1>9. RowsToLoad' = RowsToLoad /\ FundToLoad' = FundToLoad
  BY <1>2 DEF RowsToLoad, DbRows, CsvRows, FundToLoad
<1>10. CASE LockRow
  <2>1. pc = "lock" /\ pc' = "fill" /\ job' = job
    BY <1>10 DEF LockRow
  <2>2. TradesAreServed'
    BY <1>6, <2>1 DEF TableInStep, TradesAreServed, Working
  <2>3. LoadsInStep'
    <3> SUFFICES ASSUME job.for = "load" PROVE LoadedSoFar'
      BY <2>1 DEF LoadsInStep, Working
    <3>1. LoadedSoFar
      BY <2>1 DEF TableInStep, LoadsInStep, Working
    <3> QED BY <1>2, <1>6, <1>7, <1>9, <2>1, <3>1 DEF LoadedSoFar, Working
  <2> QED BY <1>6, <1>8, <2>2, <2>3 DEF TableInStep
<1>11. CASE UnlockRow
  <2>1. pc = "unlock" /\ pc' = IF job.for = "load" THEN "rows" ELSE "up"
    BY <1>11 DEF UnlockRow
  <2>2. job.for = "load" \/ job.for \in Sides
    BY <1>3, JobFacts
  <2>3. TradesAreServed'
    BY <1>6, <2>1, <2>2 DEF TableInStep, TradesAreServed, Working
  <2>4. LoadsInStep'
    <3>1. CASE job.for = "load"
      <4>1. LoadedSoFar /\ pc' = "rows"
        BY <2>1, <3>1 DEF TableInStep, LoadsInStep, Working
      <4>2. LoadedSoFar'
        BY <1>2, <1>6, <1>7, <1>9, <2>1, <4>1 DEF LoadedSoFar, Working
      <4> QED BY <4>1, <4>2 DEF LoadsInStep
    <3>2. CASE job.for # "load"
      BY <2>1, <3>2 DEF LoadsInStep, Working
    <3> QED BY <3>1, <3>2
  <2> QED BY <1>6, <1>8, <2>3, <2>4 DEF TableInStep
<1> QED BY <1>10, <1>11

\* The loader's row gets its snapshot's volumes, a trade's row what is left after it.
LEMMA FillRowTable ==
  ASSUME Inv, TableInStep, FillRow
  PROVE  TableInStep'
<1> DEFINE old == region.rows[index[job.sec]]
           new == [old EXCEPT !.volume = FilledVolume(old.volume)]
<1>1. /\ pc = "fill" /\ pc' = "unlock"
      /\ region' = [region EXCEPT !.rows[index[job.sec]].volume = FilledVolume(old.volume)]
      /\ bought' = IF job.for = "buy" THEN [bought EXCEPT ![job.sec] = @ + job.volume] ELSE bought
      /\ sold' = IF job.for = "sell"
                 THEN [sold EXCEPT ![job.sec] = @ + SellTakes(old.volume, job.volume)] ELSE sold
      /\ UNCHANGED <<index, db, snapshot, cursor, job, seeded>>
  BY DEF FillRow
<1>2. /\ region \in Region /\ old \in Row /\ index[job.sec] \in Rows /\ job \in Jobs
      /\ (job.for = "load" => region.init_state = 0)
  BY <1>1, WorkedRow
<1>3. /\ old.volume \in Volumes /\ job.sec \in Securities
      /\ job.for = "load" \/ job.for \in Sides
  BY <1>2, JobFacts DEF Row
<1>4. FilledVolume(old.volume) \in Volumes
      /\ (job.for = "load" => FilledVolume(old.volume) = job.volume)
  BY <1>2, <1>3, FilledFacts
<1>5. new \in Row /\ new.key = old.key /\ new.volume = FilledVolume(old.volume)
  BY <1>2, <1>4 DEF Row
<1>6. region' = Stored(region, index[job.sec], new)
  BY <1>1, <1>2 DEF Stored, Region
<1> HIDE DEF new
<1>7. /\ RowsAreDistinct(region') /\ Indexed'
      /\ region'.init_state = region.init_state /\ region'.fund = region.fund
      /\ region'.next_id = region.next_id /\ region'.count = region.count
      /\ \A s, v : s # job.sec /\ Holds(region, s, v) => Holds(region', s, v)
      /\ Holds(region', job.sec, new.volume)
      /\ \A v : Holds(region, job.sec, v) => v = old.volume
  BY <1>1, <1>5, <1>6, UpdatedRow
<1>8. TradesAreServed'
  BY <1>1, <1>7 DEF TableInStep, TradesAreServed, Working
<1>9. CASE job.for = "load"
  <2>1. region'.init_state = 0 /\ LoadedSoFar /\ UNCHANGED <<bought, sold>>
    BY <1>1, <1>2, <1>7, <1>9 DEF TableInStep, LoadsInStep, Working
  <2>2. MarkedIsWhole'
    BY <1>1, <2>1 DEF TableInStep, MarkedIsWhole
  <2>3. RowsToLoad' = RowsToLoad /\ FundToLoad' = FundToLoad
    BY <1>1 DEF RowsToLoad, DbRows, CsvRows, FundToLoad
  <2>4. job.volume = SeedUpTo(RowsToLoad, cursor, job.sec) /\ new.volume = job.volume
    BY <1>1, <1>4, <1>5, <1>9, <2>1 DEF LoadedSoFar, Working
  <2>5. ASSUME NEW s \in Securities PROVE Holds(region', s, SeedUpTo(RowsToLoad, cursor, s))
    <3>1. CASE s = job.sec
      BY <1>7, <2>4, <3>1
    <3>2. CASE s # job.sec
      BY <1>7, <2>1, <3>2 DEF LoadedSoFar
    <3> QED BY <3>1, <3>2
  <2>6. LoadedSoFar'
    BY <1>1, <1>7, <2>1, <2>3, <2>4, <2>5 DEF LoadedSoFar
  <2>7. LoadsInStep'
    BY <1>1, <2>6 DEF LoadsInStep
  <2> QED BY <1>7, <1>8, <2>2, <2>7 DEF TableInStep
<1>10. CASE job.for \in Sides
  <2>1. /\ bought \in [Securities -> Nat] /\ sold \in [Securities -> Nat]
        /\ seeded.rows \in Seq(SeedRow) /\ job.volume \in Nat
    BY <1>2, <1>10, JobFacts DEF Inv, TypeOK, TableInStep, MarkedIsWhole, Sides
  <2>2. region.init_state = 1
    BY <1>1, <1>10 DEF TableInStep, TradesAreServed, Working
  <2>3. \A s \in Securities : s # job.sec => bought'[s] = bought[s] /\ sold'[s] = sold[s]
    BY <1>1, <1>3, <2>1
  <2>4. ASSUME NEW s \in Securities
        PROVE  Kept(region', s, seeded.rows, bought'[s], sold'[s])
    <3>1. PICK v \in Volumes : /\ Holds(region, s, v)
                               /\ AddsUp(v, SeedVolume(seeded.rows, s), bought[s], sold[s])
      BY <2>2 DEF TableInStep, MarkedIsWhole, Kept
    <3>2. CASE s # job.sec
      BY <1>7, <2>3, <3>1, <3>2 DEF Kept
    <3>3. CASE s = job.sec
      <4> DEFINE w == new.volume
                 seed == SeedVolume(seeded.rows, s)
                 takes == SellTakes(old.volume, job.volume)
      <4>1. seed \in Volumes /\ bought[s] \in Nat /\ sold[s] \in Nat
        BY <2>1, SeedVolumeType
      <4>2. v = old.volume
        BY <1>7, <3>1, <3>3
      <4>3. w \in Volumes /\ Holds(region', s, w) /\ w = FilledVolume(old.volume)
        BY <1>4, <1>5, <1>7, <3>3
      <4>4. /\ v.t0 \in Nat /\ v.t1 \in Nat /\ v.sell \in Nat
            /\ w.t0 \in Nat /\ w.t1 \in Nat /\ w.sell \in Nat
            /\ seed.t0 \in Nat /\ seed.t1 \in Nat /\ seed.sell \in Nat
        <5> HIDE DEF w, seed
        <5> QED BY <3>1, <4>1, <4>3 DEF Volumes
      <4>5. /\ job.for = "buy" => /\ w.t1 = v.t1 + job.volume /\ w.t0 = v.t0 /\ w.sell = v.sell
                                  /\ bought'[s] = bought[s] + job.volume /\ sold'[s] = sold[s]
            /\ job.for = "sell" => /\ w.t1 = v.t1 /\ takes \in Nat
                                   /\ w.t0 + w.sell + takes = v.t0 + v.sell
                                   /\ sold'[s] = sold[s] + takes /\ bought'[s] = bought[s]
        <5>1. /\ job.for = "buy" => /\ w.t1 = v.t1 + job.volume /\ w.t0 = v.t0 /\ w.sell = v.sell
              /\ job.for = "sell" => /\ w.t1 = v.t1 /\ takes \in Nat
                                     /\ w.t0 + w.sell + takes = v.t0 + v.sell
          BY <1>2, <1>3, <4>2, <4>3, FilledFacts
        <5> HIDE DEF w, takes
        <5>2. /\ job.for = "buy" => bought'[s] = bought[s] + job.volume /\ sold'[s] = sold[s]
              /\ job.for = "sell" => sold'[s] = sold[s] + takes /\ bought'[s] = bought[s]
          BY <1>1, <1>3, <2>1, <3>3 DEF takes
        <5> QED BY <5>1, <5>2
      <4>6. v.t1 = seed.t1 + bought[s] /\ v.t0 + v.sell + sold[s] = seed.t0 + seed.sell
        BY <3>1 DEF AddsUp
      <4>7. job.for = "buy" \/ job.for = "sell"
        BY <1>10 DEF Sides
      <4> HIDE DEF w, seed, takes
      <4>8. w.t1 = seed.t1 + bought'[s] /\ w.t0 + w.sell + sold'[s] = seed.t0 + seed.sell
        <5>1. CASE job.for = "buy"
          <6>1. /\ w.t1 = v.t1 + job.volume /\ w.t0 = v.t0 /\ w.sell = v.sell
                /\ bought'[s] = bought[s] + job.volume /\ sold'[s] = sold[s]
            BY ONLY <4>5, <5>1
          <6>2. job.volume \in Nat
            BY ONLY <2>1
          <6>3. w.t1 = seed.t1 + bought'[s]
            BY ONLY <4>1, <4>4, <4>6, <6>1, <6>2
          <6>4. w.t0 + w.sell + sold'[s] = seed.t0 + seed.sell
            BY ONLY <4>6, <6>1
          <6> QED BY ONLY <6>3, <6>4
        <5>2. CASE job.for = "sell"
          <6>1. /\ w.t1 = v.t1 /\ takes \in Nat
                /\ w.t0 + w.sell + takes = v.t0 + v.sell
                /\ sold'[s] = sold[s] + takes /\ bought'[s] = bought[s]
            BY ONLY <4>5, <5>2
          <6>2. w.t1 = seed.t1 + bought'[s]
            BY ONLY <4>6, <6>1
          <6>3. w.t0 + w.sell + sold'[s] = seed.t0 + seed.sell
            BY ONLY <4>1, <4>4, <4>6, <6>1
          <6> QED BY ONLY <6>2, <6>3
        <5> QED BY ONLY <4>7, <5>1, <5>2
      <4>9. AddsUp(w, SeedVolume(seeded.rows, s), bought'[s], sold'[s])
        BY <4>8 DEF AddsUp, seed
      <4> QED BY <4>3, <4>9 DEF Kept
    <3> QED BY <3>2, <3>3
  <2>5. MarkedIsWhole'
    BY <1>1, <1>7, <2>4 DEF TableInStep, MarkedIsWhole
  <2>6. LoadsInStep'
    BY <1>1, <1>10 DEF LoadsInStep, Working, Sides
  <2> QED BY <1>7, <1>8, <2>5, <2>6 DEF TableInStep
<1> QED BY <1>3, <1>9, <1>10

\* The operator works on a service that is down.
LEMMA OperatorTable ==
  ASSUME TableInStep, EditSnapshot \/ RemoveRegion
  PROVE  TableInStep'
<1>1. pc = "down" /\ UNCHANGED <<index, pc, cursor, job, seeded, bought, sold>>
  BY DEF EditSnapshot, RemoveRegion
<1>2. Indexed' /\ TradesAreServed' /\ LoadsInStep'
  BY <1>1 DEF TableInStep, Indexed, TradesAreServed, LoadsInStep, Working
<1>3. CASE EditSnapshot
  <2>1. region' = region
    BY <1>3 DEF EditSnapshot
  <2>2. RowsAreDistinct(region') /\ MarkedIsWhole'
    BY <1>1, <2>1 DEF TableInStep, MarkedIsWhole
  <2> QED BY <1>2, <2>2 DEF TableInStep
<1>4. CASE RemoveRegion
  <2>1. region'.count = 0 /\ region'.init_state = 0
    BY <1>4, NoRegionFacts DEF RemoveRegion
  <2>2. RowsAreDistinct(region') /\ MarkedIsWhole'
    BY <1>1, <2>1, EmptyTable DEF TableInStep, MarkedIsWhole
  <2> QED BY <1>2, <2>2 DEF TableInStep
<1> QED BY <1>3, <1>4

\* Nothing but the monitor moves.
LEMMA SameTable ==
  ASSUME TableInStep, UNCHANGED table
  PROVE  TableInStep'
<1>1. /\ UNCHANGED <<region, index, db, snapshot, pc, cursor, job, seeded, bought, sold>>
      /\ RowsToLoad' = RowsToLoad /\ FundToLoad' = FundToLoad
  BY DEF table, RowsToLoad, DbRows, CsvRows, FundToLoad
<1>2. RowsAreDistinct(region') /\ Indexed' /\ MarkedIsWhole' /\ TradesAreServed'
  BY <1>1 DEF TableInStep, Indexed, MarkedIsWhole, TradesAreServed, Working
<1>3. LoadsInStep'
  BY <1>1 DEF TableInStep, LoadsInStep, LoadedSoFar, Working
<1> QED BY <1>2, <1>3 DEF TableInStep

\* Every step keeps the table in step.
LEMMA NextTable ==
  ASSUME Inv, TableInStep, [Next]_vars
  PROVE  TableInStep'
<1>1. CASE /\ \/ Start \/ Initialize \/ Load \/ WriteRow
              \/ \E s \in Securities, n \in 1 .. MaxVolume, side \in Sides : Trade(s, n, side)
              \/ Stop \/ Crash \/ EditSnapshot
           /\ UNCHANGED monitor
  <2>1. CASE Start
    BY <2>1, StartTable
  <2>2. CASE RefuseCorrupt \/ Stop \/ Crash
    BY <2>2, GiveUpTable DEF RefuseCorrupt, Stop, Crash
  <2>3. CASE Initialize
    BY <2>2, <2>3, InitializeFreshTable, InitializeAttachedTable, AttachRowTable,
       AttachDoneTable DEF Initialize
  <2>4. CASE Load
    BY <2>4, LoadFundTable, LoadRowTable, FinishLoadTable DEF Load
  <2>5. CASE WriteRow
    BY <2>5, PublishRowTable, LockTable, FillRowTable DEF WriteRow
  <2>6. CASE \E s \in Securities, n \in 1 .. MaxVolume, side \in Sides : Trade(s, n, side)
    BY <2>6, TradeTable
  <2>7. CASE EditSnapshot
    BY <2>7, OperatorTable
  <2> QED BY <1>1, <2>1, <2>2, <2>3, <2>4, <2>5, <2>6, <2>7
<1>2. CASE RemoveRegion
  BY <1>2, OperatorTable
<1>3. CASE Monitor \/ UNCHANGED vars
  <2>1. UNCHANGED table
    BY <1>3 DEF Monitor, MonitorOpen, MonitorClose, MonitorRead, MonitorCopied, vars
  <2> QED BY <2>1, SameTable
<1> QED BY <1>1, <1>2, <1>3 DEF Next
\* No region, or one that an earlier build left behind.
LEMMA InitTable == Init => TableInStep
<1> SUFFICES ASSUME Init PROVE TableInStep
  OBVIOUS
<1>1. pc = "down" /\ cursor = 0 /\ bought = NoneTraded /\ sold = NoneTraded
  BY DEF Init
<1>2. Indexed /\ TradesAreServed /\ LoadsInStep
  BY <1>1 DEF Indexed, TradesAreServed, LoadsInStep, Working
<1>3. CASE region = NoRegion /\ seeded = [rows |-> <<>>, fund |-> DefaultFund]
  <2>1. region.count = 0 /\ region.init_state = 0
    BY <1>3, NoRegionFacts
  <2>2. seeded.rows \in Seq(SeedRow)
    BY <1>3
  <2>3. RowsAreDistinct(region) /\ MarkedIsWhole
    BY <2>1, <2>2, EmptyTable DEF MarkedIsWhole
  <2> QED BY <1>2, <2>3 DEF TableInStep
<1>4. CASE \E seed \in Leftovers :
             region = LeftRegion(seed) /\ seeded = [rows |-> seed, fund |-> DefaultFund]
  <2>1. PICK seed \in Leftovers :
          region = LeftRegion(seed) /\ seeded = [rows |-> seed, fund |-> DefaultFund]
    BY <1>4
  <2>2. /\ region.count = Len(seed) /\ region.fund = DefaultFund
        /\ \A r \in 1 .. Len(seed) : /\ region.rows[r].key = seed[r].key
                                     /\ region.rows[r].volume = seed[r].volume
    BY <2>1, LeftFacts
  <2>3. /\ seed \in Seq(SeedRow) /\ seeded.rows = seed /\ seeded.fund = DefaultFund
        /\ \A q, r \in 1 .. Len(seed) : seed[q].key.sec = seed[r].key.sec => q = r
    BY <2>1, LeftoversAssumption
  <2>4. RowsAreDistinct(region)
    BY <2>2, <2>3 DEF RowsAreDistinct
  <2>5. ASSUME NEW t \in Securities
        PROVE  Holds(region, t, SeedVolume(seed, t))
    <3> DEFINE about == {i \in DOMAIN seed : seed[i].key.sec = t}
    <3>1. SeedVolume(seed, t) =
            IF about = {} THEN Nothing
            ELSE seed[CHOOSE i \in about : \A j \in about : j <= i].volume
      BY DEF SeedVolume
    <3>2. DOMAIN seed = 1 .. Len(seed) /\ Len(seed) \in Nat
      BY <2>3
    <3>3. \A r \in 1 .. Len(seed) : region.rows[r].key.sec = t <=> r \in about
      BY <2>2, <3>2
    <3>4. about \subseteq 1 .. Len(seed) /\ \A q, r \in about : q = r
      BY <2>3, <3>2
    <3> HIDE DEF about
    <3>5. CASE about = {}
      BY <2>2, <3>1, <3>3, <3>5 DEF Holds
    <3>6. CASE about # {}
      <4>1. PICK r \in about : SeedVolume(seed, t) = seed[r].volume
        BY <3>1, <3>2, <3>4, <3>6, GreatestRow
      <4> QED BY <2>2, <3>3, <3>4, <4>1 DEF Holds
    <3> QED BY <3>5, <3>6
  <2>6. ASSUME NEW t \in Securities
        PROVE  Kept(region, t, seeded.rows, bought[t], sold[t])
    <3> DEFINE v == SeedVolume(seed, t)
    <3>1. v \in Volumes /\ bought[t] = 0 /\ sold[t] = 0
      BY <1>1, <2>3, SeedVolumeType DEF NoneTraded
    <3>2. Holds(region, t, v)
      BY <2>5
    <3> HIDE DEF v
    <3>3. AddsUp(v, v, 0, 0)
      BY <3>1 DEF AddsUp, Volumes
    <3> QED BY <2>3, <3>1, <3>2, <3>3 DEF Kept, v
  <2>7. MarkedIsWhole
    BY <2>2, <2>3, <2>6 DEF MarkedIsWhole
  <2> QED BY <1>2, <2>4, <2>7 DEF TableInStep
<1> QED BY <1>3, <1>4 DEF Init

\* The index and the counted rows are in step in every reachable state.
THEOREM TableInStepHolds == Spec => []TableInStep
BY InitTable, NextTable, Invariance, PTL DEF Spec

\* A table that is served is whole, for any snapshots, securities, table size, starts and
\* trades: every security holds what the last of its rows says in the one snapshot the
\* region was filled from, plus what was bought and minus what was sold since, and the
\* fund is that snapshot's (initialize stores the mark last, a restart adds and takes
\* nothing, add_position and deduct_position keep the volumes adding up).
THEOREM ServedTablesAreWhole == Spec => []ServedTableIsWhole
<1>1. ASSUME Inv, TableInStep PROVE ServedTableIsWhole
  <2> SUFFICES ASSUME pc = "up"
               PROVE  /\ region.fund = seeded.fund
                      /\ \A s \in Securities :
                           AddsUp(HeldVolume(s), SeedVolume(seeded.rows, s), bought[s], sold[s])
    BY DEF ServedTableIsWhole
  <2>1. /\ region.init_state = 1 /\ region.fund = seeded.fund
        /\ \A s \in Securities : Kept(region, s, seeded.rows, bought[s], sold[s])
    BY <1>1 DEF TableInStep, TradesAreServed, MarkedIsWhole
  <2>2. /\ RowsIndexed(region, index) /\ IndexLeads(region, index)
        /\ \A s \in Securities : ~(index[s] > region.count)
    BY <1>1 DEF TableInStep, Indexed
  <2>3. region.count \in Nat /\ \A s \in Securities : index[s] \in Nat
    BY <1>1, CountedRow, BoundsAssumption DEF Inv, TypeOK
  <2>4. ASSUME NEW s \in Securities
        PROVE  AddsUp(HeldVolume(s), SeedVolume(seeded.rows, s), bought[s], sold[s])
    <3>0. PICK v \in Volumes : /\ Holds(region, s, v)
                               /\ AddsUp(v, SeedVolume(seeded.rows, s), bought[s], sold[s])
      BY <2>1 DEF Kept
    <3>1. CASE index[s] = NoRow
      <4>1. \A r \in 1 .. region.count : region.rows[r].key.sec # s
        BY <2>2, <2>3, <3>1 DEF RowsIndexed, NoRow
      <4>2. HeldVolume(s) = v
        BY <3>0, <3>1, <4>1 DEF Holds, HeldVolume
      <4> QED BY <3>0, <4>2
    <3>2. CASE index[s] # NoRow
      <4>1. index[s] \in 1 .. region.count /\ region.rows[index[s]].key.sec = s
        BY <2>2, <2>3, <3>2 DEF IndexLeads, NoRow
      <4>2. HeldVolume(s) = v
        BY <3>0, <3>2, <4>1 DEF Holds, HeldVolume
      <4> QED BY <3>0, <4>2
    <3> QED BY <3>1, <3>2
  <2> QED BY <2>1, <2>4
<1> QED BY <1>1, Invariance, TableInStepHolds, PTL

\* No step of the service, a crash or a restart included, takes the mark, a row or the
\* loaded fund out of a marked region, and a volume changes only where a trade of that
\* security is settled (PositionManager::initialize attaches to it, and the loader works
\* on unmarked regions only).
THEOREM HoldingsSurvive == Spec => RestartKeepsHoldings
<1> DEFINE Survives ==
      (region.init_state = 1 /\ region.exists /\ region'.exists) =>
        /\ region'.init_state = 1 /\ region'.fund = region.fund /\ region'.count >= region.count
        /\ \A r \in 1 .. region.count :
             /\ region'.rows[r].key.sec = region.rows[r].key.sec
             /\ \/ region'.rows[r].volume = region.rows[r].volume
                \/ pc = "fill" /\ job.for \in Sides /\ job.sec = region.rows[r].key.sec
<1>1. Inv /\ TableInStep /\ [Next]_vars => [Survives]_vars
  <2> SUFFICES ASSUME Inv, TableInStep, Next PROVE Survives
    OBVIOUS
  <2>1. Keeps
    BY NextStep
  <2>2. pc = "fill" => region.rows[index[job.sec]].key.sec = job.sec
    <3> SUFFICES ASSUME pc = "fill" PROVE region.rows[index[job.sec]].key.sec = job.sec
      OBVIOUS
    <3>1. job.sec \in Securities /\ index[job.sec] # NoRow
      BY WorkedRow, JobFacts DEF Rows, NoRow
    <3> QED BY <3>1 DEF TableInStep, Indexed, IndexLeads
  <2> QED BY <2>1, <2>2 DEF Keeps
<1>2. RestartKeepsHoldings <=> [][Survives]_vars
  BY DEF RestartKeepsHoldings
<1> QED BY <1>1, <1>2, Invariance, TableInStepHolds, PTL DEF Spec

\* The securities an index knows are as many as the rows it leads to.
LEMMA IndexedAreCounted ==
  ASSUME Inv, RowsIndexed(region, index), IndexLeads(region, index),
         \A s \in Securities : ~(index[s] > region.count)
  PROVE  Cardinality({s \in Securities : index[s] # NoRow}) = region.count
<1> DEFINE known == {s \in Securities : index[s] # NoRow}
           n == region.count
           f == [r \in 1 .. n |-> region.rows[r].key.sec]
<1>1. n \in Nat /\ \A r \in 1 .. n : region.rows[r].key.sec \in Securities
  BY CountedRow
<1>2. \A s \in Securities : index[s] \in Nat
  BY BoundsAssumption DEF Inv, TypeOK
<1>3. \A r \in 1 .. n : f[r] \in known /\ index[f[r]] = r
  BY <1>1 DEF RowsIndexed, NoRow
<1>4. \A s \in known : index[s] \in 1 .. n /\ f[index[s]] = s
  BY <1>1, <1>2 DEF IndexLeads, NoRow
<1>5. f \in [1 .. n -> known]
  BY <1>3
<1> HIDE DEF f, known
<1>6. f \in Bijection(1 .. n, known)
  BY <1>3, <1>4, <1>5 DEF Bijection, Injection, Surjection, IsInjective
<1>7. IsFiniteSet(1 .. n) /\ Cardinality(1 .. n) = n
  BY <1>1, FS_Interval, SMTT(120)
<1>8. Cardinality(1 .. n) = Cardinality(known)
  BY <1>6, <1>7, FS_Bijection DEF ExistsBijection
<1> QED BY <1>7, <1>8 DEF known

\* The rows never outgrow the table, and when it is served rows 1 to count carry distinct
\* canonical keys, the index finds exactly those rows, and the next id follows the count
\* (add_security, and the index initialize rebuilds after a restart).
THEOREM TableAndIndexAgree == Spec => []TableInvariant
<1>1. ASSUME Inv, TableInStep PROVE TableInvariant
  <2>1. TypeOK
    BY <1>1 DEF Inv
  <2> SUFFICES ASSUME pc = "up"
               PROVE  /\ region.init_state = 1 /\ region.next_id = region.count + 1
                      /\ \A r \in 1 .. region.count :
                           region.rows[r].key.form = "mic" /\ index[region.rows[r].key.sec] = r
                      /\ Cardinality({s \in Securities : index[s] # NoRow}) = region.count
    BY <2>1 DEF TableInvariant, IndexMatchesRows
  <2>2. /\ RowsIndexed(region, index) /\ IndexLeads(region, index)
        /\ \A s \in Securities : ~(index[s] > region.count)
    BY <1>1 DEF TableInStep, Indexed
  <2>3. Cardinality({s \in Securities : index[s] # NoRow}) = region.count
    BY <1>1, <2>2, IndexedAreCounted
  <2>4. region.init_state = 1 /\ region.next_id = region.count + 1
    BY <1>1 DEF TableInStep, TradesAreServed
  <2> QED BY <2>2, <2>3, <2>4 DEF RowsIndexed
<1> QED BY <1>1, Invariance, TableInStepHolds, PTL
=============================================================================
