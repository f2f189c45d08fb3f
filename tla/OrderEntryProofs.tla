-------------------------- MODULE OrderEntryProofs --------------------------
(*****************************************************************************)
(* Theorems about OrderEntry, for any number of clients, any capacities and  *)
(* any number of deaths, when processes are started one after another.       *)
(*                                                                           *)
(* Memory is about opening: whoever creates or recreates a region does so    *)
(* while nobody works with the regions, so that everybody who has finished   *)
(* opening has mapped what the names denote.  Entries is about the calls:    *)
(* an id is in one cache or one call at a time, a slot in one call or in     *)
(* the queue, and a slot that waits or was taken is the only one of its id.  *)
(*****************************************************************************)
EXTENDS OrderEntry, FiniteSetTheorems, SequenceTheorems, WellFoundedInduction, TLAPS

Calls == {"load", "allocate", "write", "push", "mark"}

\* The call has a slot and is not done with it.
Holding == {"write", "push", "mark"}

Places == Opening \cup Calls \cup {"down", "ready"}

Stages == {"Empty", "UpstreamQueued", "UpstreamDequeued", "QueuePushFailed"}

\* The stages of a slot whose request has been accepted, or may yet be.
LiveStages == {"UpstreamQueued", "UpstreamDequeued"}

Errors == {"None", "ShmOpenFailed", "ShmResizeFailed", "ShmHeaderInvalid"}

Process == [at : Places, name : Names, mode : {"Open", "OpenOrCreate", "Create"}, error : Errors,
            id : 0 .. MaxIds, current : Nat]

SlotRecord == [id : 0 .. MaxIds, stage : Stages]

Region == [header : {"unsized", "blank", "magic", "ready", "stale"}, counter : Nat,
           slots : Seq(SlotRecord), queue : Seq(Nat)]

Typed ==
  /\ named \in [Names -> 0 .. MaxRegions]
  /\ region \in [Regions -> Region]
  /\ proc \in [Processes -> Process]
  /\ held \in [Processes -> [Names -> 0 .. MaxRegions]]
  /\ cached \in [Clients -> SUBSET (0 .. MaxIds)]
  /\ deaths \in Nat

\* Queue, pool and cache keep to their capacities.
Bounded ==
  /\ \A r \in Regions : /\ Len(region[r].queue) <= UpstreamBound
                        /\ Len(region[r].slots) <= PoolCapacity
  /\ \A c \in Clients : Cardinality(cached[c]) <= CacheBound

-----------------------------------------------------------------------------
(* The regions and the names.                                              *)

\* The process has opened both regions.
Active(p) == proc[p].at \in Calls \cup {"ready"}

\* The name denotes a region that attach accepts.
Sound(n) == named[n] # 0 /\ region[named[n]].header \in ValidHeaders(n)

\* Nobody works with the regions, and they have never been worked with.
Idle ==
  /\ \A p \in Processes : ~ Active(p)
  /\ \A r \in Regions : region[r].slots = <<>> /\ region[r].queue = <<>>

\* Processes open one after the other.
OneOpener == \A p, q \in Processes : proc[p].at \in Opening /\ proc[q].at \in Opening => p = q

\* What was ever worked with is what the names denote, and it is sound.
WorkIsNamed ==
  \A r \in Regions :
    /\ region[r].slots # <<>> => r = named["orders"]
    /\ region[r].queue # <<>> => r = named["upstream"]
    /\ region[r].slots # <<>> \/ region[r].queue # <<>> => Sound("upstream") /\ Sound("orders")

Creating == {"size", "map", "header", "finish"}

\* Where the process is in its open, and that it creates and recreates in idle times.
OpensInStep(p) ==
  /\ Active(p) => held[p] = named /\ Sound("upstream") /\ Sound("orders")
  /\ proc[p].at \in Creating => Idle
  /\ proc[p].at = "failed" /\ ShouldRecreate(proc[p].error) => Idle
  /\ proc[p].at = "size" => named[proc[p].name] = proc[p].current /\ named[proc[p].name] # 0
  /\ proc[p].at \in {"header", "finish"} =>
       held[p][proc[p].name] = named[proc[p].name] /\ named[proc[p].name] # 0
  /\ proc[p].at \in Opening /\ proc[p].name = "orders" =>
       held[p]["upstream"] = named["upstream"] /\ Sound("upstream")
  /\ p \in Clients /\ ~ Active(p) => cached[p] = {}

\* The two names never denote one region.
NamesDiffer == named["upstream"] = named["orders"] => named["orders"] = 0

\* next_index counts the slots.
PoolCounted ==
  Sound("orders") => region[named["orders"]].counter = Len(region[named["orders"]].slots)

\* Everybody works with the memory that the names denote.
Memory ==
  /\ OneOpener /\ WorkIsNamed /\ NamesDiffer /\ PoolCounted
  /\ \A p \in Processes : OpensInStep(p)

-----------------------------------------------------------------------------
(* The calls.                                                              *)

PoolSlots == region[named["orders"]].slots
Queue == region[named["upstream"]].queue
NextId == region[named["upstream"]].counter

\* An id in a call was handed out, to this call only, and is in no other client's cache.
IdsInHand(pr, ca, n) ==
  \A p \in Processes : pr[p].at \in Calls =>
    /\ pr[p].id < n
    /\ \A q \in Processes : pr[q].at \in Calls /\ pr[q].id = pr[p].id => q = p
    /\ \A c \in Clients : pr[p].id \in ca[c] => c = p

\* So is an id in a cache.
IdsCached(ca, n) ==
  \A c \in Clients :
    /\ \A id \in ca[c] : id < n
    /\ \A d \in Clients, id \in ca[c] : id \in ca[d] => c = d

\* A slot in a call is in no other, and says how far the call is.
SlotsInHand(pr, s) ==
  \A p \in Processes : pr[p].at \in Holding =>
    /\ pr[p].current + 1 \in 1 .. Len(s)
    /\ \A q \in Processes : pr[q].at \in Holding /\ pr[q].current = pr[p].current => q = p
    /\ pr[p].at = "write" => s[pr[p].current + 1].stage = "Empty"
    /\ pr[p].at \in {"push", "mark"} =>
         /\ p \in Clients
         /\ s[pr[p].current + 1].id = pr[p].id
         /\ s[pr[p].current + 1].stage = "UpstreamQueued"

\* The ids of slots were handed out; a live slot is the only one of its id, and the id is
\* in a call or in a cache only as long as the call that wrote the slot has not returned.
IdsSpent(s, n, pr, ca) ==
  \A k \in 1 .. Len(s) :
    /\ s[k].stage # "Empty" => s[k].id < n
    /\ s[k].stage \in LiveStages =>
         /\ \A p \in Processes : pr[p].at \in Calls /\ pr[p].id = s[k].id =>
              pr[p].at \in {"push", "mark"} /\ pr[p].current + 1 = k
         /\ \A c \in Clients : s[k].id \in ca[c] =>
              pr[c].at \in {"push", "mark"} /\ pr[c].id = s[k].id
         /\ \A j \in 1 .. Len(s) : s[j].stage \in LiveStages /\ s[j].id = s[k].id => j = k

\* A queued index names a slot that waits, is queued once, and no call has that slot.
QueuedOnce(x, s, pr) ==
  \A k \in 1 .. Len(x) :
    /\ x[k] + 1 \in 1 .. Len(s) /\ s[x[k] + 1].stage = "UpstreamQueued"
    /\ \A j \in 1 .. Len(x) : x[j] = x[k] => j = k
    /\ \A p \in Processes : pr[p].at \in Holding => pr[p].current # x[k]

\* Without a death a slot that waits is queued, or its call goes on.
Believed(x, s, pr) ==
  \A k \in 1 .. Len(s) : s[k].stage = "UpstreamQueued" =>
    \/ \E p \in Processes : pr[p].at \in Holding /\ pr[p].current + 1 = k
    \/ \E j \in 1 .. Len(x) : x[j] + 1 = k

\* Ids and slots go from hand to hand.
Entries ==
  /\ IdsInHand(proc, cached, NextId) /\ IdsCached(cached, NextId)
  /\ SlotsInHand(proc, PoolSlots)
  /\ named["orders"] # 0 /\ named["upstream"] # 0 =>
       /\ IdsSpent(PoolSlots, NextId, proc, cached)
       /\ QueuedOnce(Queue, PoolSlots, proc)
       /\ deaths = 0 => Believed(Queue, PoolSlots, proc)

Inv == Typed /\ Bounded /\ Memory /\ Entries

-----------------------------------------------------------------------------
(* Opening.                                                                *)

\* The places of a process fall apart.
LEMMA PlaceFacts ==
  ASSUME NEW at \in Places
  PROVE  /\ at \in Opening => at \notin Calls \cup {"ready", "down"}
         /\ at \in Holding => at \in Calls
         /\ at \in Calls \/ at = "ready" \/ at = "down" \/ at \in Opening
BY DEF Places, Opening, Calls, Holding

LEMMA BlankFacts ==
  /\ Blank \in Region /\ Blank.slots = <<>> /\ Blank.queue = <<>> /\ Blank.header = "unsized"
BY DEF Blank, Region

LEMMA NothingFacts ==
  /\ Nothing \in Process /\ Nothing.at = "down" /\ Nothing.id = 0 /\ Nothing.current = 0
  /\ Nothing.name = "upstream" /\ Nothing.error = "None"
BY ConstantsAssumption DEF Nothing, Process, Places, Opening, Names, Errors

\* A name that denotes nothing sound has never been worked with.
LEMMA UnsoundIsIdle ==
  ASSUME Memory, NEW n \in Names, ~ Sound(n)
  PROVE  Idle
<1>1. ~ Sound("upstream") \/ ~ Sound("orders")
  BY DEF Names
<1>2. \A p \in Processes : ~ Active(p)
  BY <1>1 DEF Memory, OpensInStep
<1>3. \A r \in Regions : region[r].slots = <<>> /\ region[r].queue = <<>>
  BY <1>1 DEF Memory, WorkIsNamed
<1> QED BY <1>2, <1>3 DEF Idle

\* Where nobody works there is nothing to keep.
LEMMA IdleEntries ==
  ASSUME Typed', \A p \in Processes : proc'[p].at \notin Calls,
         \A c \in Clients : cached'[c] = {},
         \A r \in Regions : region'[r].slots = <<>> /\ region'[r].queue = <<>>
  PROVE  Entries'
<1>1. IdsInHand(proc', cached', NextId') /\ IdsCached(cached', NextId')
  BY DEF IdsInHand, IdsCached
<1>2. \A p \in Processes : proc'[p].at \notin Holding
  BY DEF Calls, Holding
<1>3. SlotsInHand(proc', PoolSlots')
  BY <1>2 DEF SlotsInHand
<1>4. ASSUME named'["orders"] # 0, named'["upstream"] # 0
      PROVE  /\ IdsSpent(PoolSlots', NextId', proc', cached')
             /\ QueuedOnce(Queue', PoolSlots', proc')
             /\ Believed(Queue', PoolSlots', proc')
  <2>1. named'["orders"] \in Regions /\ named'["upstream"] \in Regions
    BY <1>4, ConstantsAssumption DEF Typed, Names, Regions
  <2>2. PoolSlots' = <<>> /\ Queue' = <<>>
    BY <2>1 DEF PoolSlots, Queue
  <2>3. Len(PoolSlots') = 0 /\ Len(Queue') = 0
    BY <2>2
  <2>4. \A k : k \notin 1 .. 0
    OBVIOUS
  <2> QED BY <2>3, <2>4 DEF IdsSpent, QueuedOnce, Believed
<1> QED BY <1>1, <1>3, <1>4 DEF Entries

\* One process takes a step of its open and the others wait: it changes names and regions
\* in idle times only.
LEMMA OpenerStep ==
  ASSUME Inv, NEW p \in Processes, Typed',
         ~ Active(p), \A q \in Processes \ {p} : proc[q].at \notin Opening,
         \A q \in Processes \ {p} : proc'[q] = proc[q] /\ held'[q] = held[q],
         proc'[p].at \notin Calls, UNCHANGED <<cached, deaths>>,
         \A r \in Regions : /\ region'[r].slots = region[r].slots
                            /\ region'[r].queue = region[r].queue,
         Idle \/ UNCHANGED <<named, region>>,
         Idle /\ ~ Active(p)' /\ Idle' => OpensInStep(p)',
         ~ (Idle /\ ~ Active(p)') => OpensInStep(p)',
         NamesDiffer', PoolCounted'
  PROVE  Inv'
<1>1. \A q \in Processes \ {p} : Active(q)' <=> Active(q)
  BY DEF Active
<1>2. Idle /\ ~ Active(p)' => Idle'
  BY <1>1 DEF Idle
<1>3. OpensInStep(p)'
  BY <1>2
<1>4. OneOpener'
  BY DEF OneOpener
<1>5. Bounded'
  BY DEF Inv, Bounded
<1>6. CASE Idle
  <2>1. \A r \in Regions : region'[r].slots = <<>> /\ region'[r].queue = <<>>
    BY <1>6 DEF Idle
  <2>2. \A q \in Processes \ {p} : ~ Active(q)' /\ proc'[q].at \notin Opening
    BY <1>1, <1>6 DEF Idle
  <2>3. \A c \in Clients : cached'[c] = {}
    BY <1>6 DEF Inv, Memory, OpensInStep, Idle, Processes
  <2>4. \A q \in Processes \ {p} : OpensInStep(q)'
    BY <2>2, <2>3 DEF OpensInStep, Creating, Opening
  <2>5. WorkIsNamed'
    BY <2>1 DEF WorkIsNamed
  <2>6. \A q \in Processes : proc'[q].at \notin Calls
    BY <2>2 DEF Active
  <2>7. Entries'
    BY <2>1, <2>3, <2>6, IdleEntries
  <2>8. Memory'
    BY <1>3, <1>4, <2>4, <2>5 DEF Memory
  <2> QED BY <1>5, <2>7, <2>8 DEF Inv
<1>7. CASE ~ Idle /\ UNCHANGED <<named, region>>
  <2>1. \A n : Sound(n)' <=> Sound(n)
    BY <1>7 DEF Sound
  <2>2. WorkIsNamed'
    BY <1>7, <2>1 DEF Inv, Memory, WorkIsNamed
  <2>3. ASSUME NEW q \in Processes \ {p}
        PROVE  OpensInStep(q)'
    <3>1. OpensInStep(q) /\ proc[q].at \notin Opening /\ proc'[q].at \notin Opening
      BY DEF Inv, Memory
    <3> QED BY <1>1, <1>7, <2>1, <3>1 DEF OpensInStep, Creating, Opening
  <2>4. Memory'
    BY <1>3, <1>4, <2>2, <2>3 DEF Memory
  <2>5. NextId' = NextId /\ PoolSlots' = PoolSlots /\ Queue' = Queue
    BY <1>7 DEF NextId, PoolSlots, Queue
  <2>6. \A q \in Processes : proc'[q].at \in Calls \/ proc[q].at \in Calls => proc'[q] = proc[q]
    BY DEF Active
  <2>7. \A q \in Processes : proc'[q].at \in Holding \/ proc[q].at \in Holding => proc'[q] = proc[q]
    BY <2>6 DEF Calls, Holding
  <2>8. Entries
    BY DEF Inv
  <2>9. IdsInHand(proc', cached', NextId') /\ IdsCached(cached', NextId')
    BY <2>5, <2>6, <2>8 DEF Entries, IdsInHand, IdsCached
  <2>10. SlotsInHand(proc', PoolSlots')
    BY <2>5, <2>7, <2>8 DEF Entries, SlotsInHand
  <2>11. ASSUME IdsSpent(PoolSlots, NextId, proc, cached)
         PROVE  IdsSpent(PoolSlots, NextId, proc', cached')
    <3>1. \A q \in Processes : proc[q].at \in {"push", "mark"} => proc[q].at \in Calls
      BY DEF Calls
    <3>2. \A c \in Clients : c \in Processes
      BY DEF Processes
    <3> QED BY <2>6, <2>11, <3>1, <3>2 DEF IdsSpent
  <2>12. ASSUME QueuedOnce(Queue, PoolSlots, proc)
         PROVE  QueuedOnce(Queue, PoolSlots, proc')
    BY <2>7, <2>12 DEF QueuedOnce
  <2>13. ASSUME Believed(Queue, PoolSlots, proc)
         PROVE  Believed(Queue, PoolSlots, proc')
    BY <2>7, <2>13 DEF Believed
  <2>14. Entries'
    BY <1>7, <2>5, <2>8, <2>9, <2>10, <2>11, <2>12, <2>13 DEF Entries
  <2> QED BY <1>5, <2>4, <2>14 DEF Inv
<1> QED BY <1>6, <1>7

\* A name denotes a region or nothing.
LEMMA RegionOfName ==
  ASSUME Typed, NEW n \in Names, named[n] # 0
  PROVE  named[n] \in Regions
BY ConstantsAssumption DEF Typed, Regions

\* While one process opens, no other does.
LEMMA OthersWait ==
  ASSUME Inv, NEW p \in Processes, proc[p].at \in Opening
  PROVE  /\ ~ Active(p)
         /\ \A q \in Processes \ {p} : proc[q].at \notin Opening
<1>1. ~ Active(p)
  BY DEF Active, Opening, Calls
<1>2. \A q \in Processes \ {p} : proc[q].at \notin Opening
  BY DEF Inv, Memory, OneOpener
<1> QED BY <1>1, <1>2

\* Names and pool stay right where neither is touched.
LEMMA NamesKept ==
  ASSUME Inv, UNCHANGED <<named, region>>
  PROVE  /\ NamesDiffer' /\ PoolCounted'
         /\ \A n : Sound(n)' <=> Sound(n)
         /\ \A r \in Regions : region'[r].slots = region[r].slots /\ region'[r].queue = region[r].queue
<1>1. \A n : Sound(n)' <=> Sound(n)
  BY DEF Sound
<1>2. NamesDiffer'
  BY DEF Inv, Memory, NamesDiffer
<1>3. PoolCounted'
  BY <1>1 DEF Inv, Memory, PoolCounted
<1> QED BY <1>1, <1>2, <1>3

LEMMA StartStep ==
  ASSUME Inv, SerialStart, NEW p \in Processes, NEW mode \in OpenModes, Start(p, mode)
  PROVE  Inv'
<1> DEFINE new == [Nothing EXCEPT !.at = "open", !.mode = mode]
<1>1. /\ proc[p].at = "down" /\ proc' = [proc EXCEPT ![p] = new]
      /\ UNCHANGED <<named, region, held, cached, deaths>>
  BY DEF Start
<1>2. /\ new \in Process /\ new.at = "open" /\ new.name = "upstream" /\ new.error = "None"
  BY NothingFacts, ConstantsAssumption DEF Nothing, Process, Places, Opening
<1> HIDE DEF new
<1>3. Typed'
  BY <1>1, <1>2 DEF Inv, Typed
<1>4. \A q \in Processes \ {p} : proc[q].at \notin Opening
  BY DEF Start, MayStep
<1>5. proc'[p] = new /\ \A q \in Processes \ {p} : proc'[q] = proc[q] /\ held'[q] = held[q]
  BY <1>1 DEF Inv, Typed
<1>6. ~ Active(p) /\ ~ Active(p)' /\ proc'[p].at \notin Calls
  BY <1>1, <1>2, <1>5 DEF Active, Calls
<1>7. OpensInStep(p)'
  <2>1. p \in Clients => cached'[p] = {}
    BY <1>1, <1>6 DEF Inv, Memory, OpensInStep
  <2> QED BY <1>2, <1>5, <1>6, <2>1 DEF OpensInStep, Creating
<1> QED BY <1>1, <1>3, <1>4, <1>5, <1>6, <1>7, NamesKept, OpenerStep

\* One process is written, the others are left alone.
LEMMA ProcWritten ==
  ASSUME Typed, NEW p \in Processes, NEW y \in Process, proc' = [proc EXCEPT ![p] = y]
  PROVE  /\ proc' \in [Processes -> Process] /\ proc'[p] = y
         /\ \A q \in Processes \ {p} : proc'[q] = proc[q]
BY DEF Typed

LEMMA GotoTurns ==
  ASSUME Typed, NEW p \in Processes, NEW place \in Places, Goto(p, place)
  PROVE  /\ proc' \in [Processes -> Process]
         /\ proc'[p].at = place /\ proc'[p].error = proc[p].error /\ proc'[p].name = proc[p].name
         /\ proc'[p].id = proc[p].id /\ proc'[p].current = proc[p].current
         /\ \A q \in Processes \ {p} : proc'[q] = proc[q]
<1> DEFINE x == proc[p]
           y == [x EXCEPT !.at = place]
<1>1. x \in Process /\ proc' = [proc EXCEPT ![p] = y]
  BY DEF Typed, Goto
<1> HIDE DEF x
<1>2. /\ y \in Process /\ y.at = place /\ y.error = x.error /\ y.name = x.name
      /\ y.id = x.id /\ y.current = x.current
  BY <1>1 DEF Process
<1> HIDE DEF y
<1> QED BY <1>1, <1>2, ProcWritten DEF x

LEMMA FailsTurns ==
  ASSUME Typed, NEW p \in Processes, NEW code \in Errors, Fails(p, code)
  PROVE  /\ proc' \in [Processes -> Process]
         /\ proc'[p].at = "failed" /\ proc'[p].error = code /\ proc'[p].name = proc[p].name
         /\ \A q \in Processes \ {p} : proc'[q] = proc[q]
<1> DEFINE x == proc[p]
           z == [x EXCEPT !.at = "failed"]
           y == [z EXCEPT !.error = code]
<1>1. x \in Process /\ proc' = [proc EXCEPT ![p] = y]
  BY DEF Typed, Fails
<1> HIDE DEF x
<1>2. z \in Process /\ z.at = "failed" /\ z.name = x.name
  BY <1>1 DEF Process, Places, Opening
<1> HIDE DEF z
<1>3. y \in Process /\ y.at = z.at /\ y.error = code /\ y.name = z.name
  BY <1>2 DEF Process
<1> HIDE DEF y
<1> QED BY <1>1, <1>2, <1>3, ProcWritten DEF x

\* A step of an open that touches neither names nor regions.
LEMMA OpenTurns ==
  ASSUME Inv, NEW p \in Processes, proc[p].at \in Opening,
         proc' \in [Processes -> Process], \A q \in Processes \ {p} : proc'[q] = proc[q],
         proc'[p].at \in Opening \ Creating, proc'[p].name = proc[p].name,
         UNCHANGED <<named, region, held, cached, deaths>>,
         proc'[p].at = "failed" /\ ShouldRecreate(proc'[p].error) => Idle
  PROVE  Inv'
<1>1. Typed'
  BY DEF Inv, Typed
<1>2. ~ Active(p)' /\ proc'[p].at \notin Calls
  BY DEF Active, Opening, Calls
<1>3. ASSUME Idle => Idle'
      PROVE  OpensInStep(p)'
  <2>1. OpensInStep(p) /\ ~ Active(p)
    BY OthersWait DEF Inv, Memory
  <2>2. \A n : Sound(n)' <=> Sound(n)
    BY NamesKept
  <2> QED BY <1>2, <1>3, <2>1, <2>2 DEF OpensInStep, Creating
<1>4. Idle => Idle'
  <2>1. \A q \in Processes : Active(q)' => Active(q)
    BY <1>2 DEF Active
  <2> QED BY <2>1 DEF Idle
<1> QED BY <1>1, <1>2, <1>3, <1>4, OthersWait, NamesKept, OpenerStep

\* CreateRegion takes a region nobody refers to.
LEMMA LeastFree ==
  ASSUME FreeRegions # {}
  PROVE  (CHOOSE x \in FreeRegions : \A y \in FreeRegions : x <= y) \in FreeRegions
<1> DEFINE less == OpToRel(<, Nat)
<1>1. FreeRegions \subseteq Nat
  BY ConstantsAssumption DEF FreeRegions, Regions
<1>2. IsWellFoundedOn(less, Nat)
  BY NatLessThanWellFounded
<1>3. \A x, y \in Nat : x < y => <<x, y>> \in less
  BY DEF OpToRel
<1> HIDE DEF less
<1>4. PICK x \in FreeRegions : \A y \in FreeRegions : ~ (<<y, x>> \in less)
  BY <1>1, <1>2, WFMin
<1>5. ASSUME NEW y \in FreeRegions PROVE x <= y
  <2>1. x \in Nat /\ y \in Nat /\ ~ (y < x)
    BY <1>1, <1>3, <1>4
  <2> QED BY <2>1
<1> QED BY <1>4, <1>5

\* create_region made the name.
LEMMA RegionCreated ==
  ASSUME Inv, NEW p \in Processes, proc[p].at = "open", named[proc[p].name] = 0,
         NEW r \in FreeRegions,
         named' = [named EXCEPT ![proc[p].name] = r],
         region' = [region EXCEPT ![r] = Blank],
         proc' = [proc EXCEPT ![p].at = "size", ![p].current = r],
         UNCHANGED <<held, cached, deaths>>
  PROVE  Inv'
<1>0. PICK n \in Names : n = proc[p].name
  BY DEF Inv, Typed, Process
<1>1. /\ named \in [Names -> 0 .. MaxRegions] /\ region \in [Regions -> Region]
      /\ proc \in [Processes -> Process]
  BY DEF Inv, Typed
<1>2. r \in Regions /\ r # 0 /\ r \in 0 .. MaxRegions /\ r \in Nat /\ \A m \in Names : named[m] # r
  BY ConstantsAssumption DEF FreeRegions, Regions
<1>3. Idle
  BY <1>0, UnsoundIsIdle DEF Inv, Sound
<1>4. /\ proc' \in [Processes -> Process]
      /\ proc'[p].at = "size" /\ proc'[p].current = r /\ proc'[p].name = n
      /\ \A q \in Processes \ {p} : proc'[q] = proc[q]
  <2> DEFINE x == proc[p]
             z == [x EXCEPT !.at = "size"]
             y == [z EXCEPT !.current = r]
  <2>1. x \in Process /\ proc' = [proc EXCEPT ![p] = y]
    BY <1>1
  <2> HIDE DEF x
  <2>2. z \in Process /\ z.at = "size" /\ z.name = x.name
    BY <2>1 DEF Process, Places, Opening
  <2> HIDE DEF z
  <2>3. y \in Process /\ y.at = z.at /\ y.current = r /\ y.name = z.name
    BY <1>2, <2>2 DEF Process
  <2> HIDE DEF y
  <2> QED BY <1>0, <2>1, <2>2, <2>3, ProcWritten DEF Inv, x
<1>5. Typed'
  BY <1>0, <1>1, <1>2, <1>4, BlankFacts DEF Inv, Typed
<1>6. PICK k \in Names : (n = "orders" /\ k = "upstream") \/ (n = "upstream" /\ k = "orders")
  BY DEF Names
<1>7. /\ named'[n] = r /\ named'[k] = named[k] /\ region'[r] = Blank
      /\ \A s \in Regions \ {r} : region'[s] = region[s]
  BY <1>0, <1>1, <1>2, <1>6
<1>8. \A s \in Regions : region'[s].slots = region[s].slots /\ region'[s].queue = region[s].queue
  BY <1>3, <1>7, BlankFacts DEF Idle
<1>9. (Sound(k)' <=> Sound(k)) /\ ~ Sound(n)' /\ (Sound(k) => region'[named[k]] = region[named[k]])
  <2>1. named[k] # 0 => named[k] \in Regions \ {r}
    BY <1>2, <1>6, RegionOfName DEF Inv
  <2>2. "unsized" \notin ValidHeaders(n)
    BY DEF ValidHeaders
  <2> QED BY <1>7, <2>1, <2>2, BlankFacts DEF Sound
<1>10. NamesDiffer'
  BY <1>2, <1>6, <1>7 DEF NamesDiffer
<1>11. PoolCounted'
  <2>1. CASE n = "orders"
    BY <1>9, <2>1 DEF PoolCounted
  <2>2. CASE n = "upstream"
    BY <1>6, <1>7, <1>9, <2>2 DEF PoolCounted, Inv, Memory
  <2> QED BY <1>6, <2>1, <2>2
<1>12. ~ Active(p)' /\ proc'[p].at \notin Calls
  BY <1>4 DEF Active, Calls
<1>13. proc[p].at \in Opening
  BY DEF Opening
<1>14. ASSUME Idle' PROVE OpensInStep(p)'
  <2>1. OpensInStep(p) /\ ~ Active(p)
    BY <1>13, OthersWait DEF Inv, Memory
  <2>2. n = "orders" => held'[p]["upstream"] = named'["upstream"] /\ Sound("upstream")'
    BY <1>6, <1>7, <1>9, <1>13, <1>0, <2>1 DEF OpensInStep
  <2>3. p \in Clients => cached'[p] = {}
    BY <2>1 DEF OpensInStep
  <2>4. named'[proc'[p].name] = proc'[p].current /\ named'[proc'[p].name] # 0
    BY <1>2, <1>4, <1>7
  <2> QED BY <1>4, <1>12, <1>14, <2>2, <2>3, <2>4 DEF OpensInStep
<1> QED BY <1>3, <1>4, <1>5, <1>8, <1>10, <1>11, <1>12, <1>13, <1>14, OthersWait, OpenerStep

LEMMA CreateRegionStep ==
  ASSUME Inv, NEW p \in Processes, CreateRegion(p)
  PROVE  Inv'
<1> DEFINE n == proc[p].name
           r == CHOOSE x \in FreeRegions : \A y \in FreeRegions : x <= y
<1>1. proc[p].at = "open" /\ proc[p].at \in Opening /\ UNCHANGED <<held, cached, deaths>>
  BY DEF CreateRegion, Opening
<1>2. CASE /\ named[n] = 0 /\ FreeRegions # {}
           /\ named' = [named EXCEPT ![n] = r]
           /\ region' = [region EXCEPT ![r] = Blank]
           /\ proc' = [proc EXCEPT ![p].at = "size", ![p].current = r]
  <2>1. r \in FreeRegions
    BY <1>2, LeastFree
  <2> HIDE DEF r
  <2> QED BY <1>1, <1>2, <2>1, RegionCreated
<1>3. CASE Fails(p, "ShmOpenFailed") /\ UNCHANGED <<named, region>>
  <2>1. "ShmOpenFailed" \in Errors /\ ~ ShouldRecreate("ShmOpenFailed") /\ "failed" \in Opening \ Creating
    BY DEF Errors, ShouldRecreate, Opening, Creating
  <2> QED BY <1>1, <1>3, <2>1, FailsTurns, OpenTurns DEF Inv
<1>4. CASE Goto(p, "attach") /\ UNCHANGED <<named, region>>
  <2>1. "attach" \in Places /\ "attach" \in Opening \ Creating
    BY DEF Places, Opening, Creating
  <2> QED BY <1>1, <1>4, <2>1, GotoTurns, OpenTurns DEF Inv
<1> QED BY <1>2, <1>3, <1>4 DEF CreateRegion

\* A header is written: the other name's region stays as it was.
LEMMA HeaderWritten ==
  ASSUME Inv, NEW n \in Names, NEW k \in Names, n # k, named[n] # 0, NEW y \in Region,
         y.slots = region[named[n]].slots, y.queue = region[named[n]].queue,
         region' = [region EXCEPT ![named[n]] = y], named' = named,
         n = "orders" /\ y.header = "ready" => y.counter = Len(y.slots)
  PROVE  /\ region' \in [Regions -> Region] /\ region'[named[n]] = y
         /\ NamesDiffer' /\ PoolCounted'
         /\ Sound(k)' <=> Sound(k)
         /\ Sound(n)' <=> y.header \in ValidHeaders(n)
         /\ \A r \in Regions : region'[r].slots = region[r].slots /\ region'[r].queue = region[r].queue
<1>1. named[n] \in Regions /\ region \in [Regions -> Region] /\ (named[k] # 0 => named[k] \in Regions)
  BY RegionOfName DEF Inv, Typed
<1>2. region'[named[n]] = y /\ \A r \in Regions \ {named[n]} : region'[r] = region[r]
  BY <1>1
<1>3. region' \in [Regions -> Region]
  BY <1>1
<1>4. NamesDiffer'
  BY DEF Inv, Memory, NamesDiffer
<1>5. named[k] # named[n]
  BY DEF Inv, Memory, NamesDiffer, Names
<1>6. Sound(k)' <=> Sound(k)
  BY <1>1, <1>2, <1>5 DEF Sound
<1>7. Sound(n)' <=> y.header \in ValidHeaders(n)
  BY <1>2 DEF Sound
<1>8. PoolCounted'
  <2>1. CASE n = "orders"
    BY <1>2, <1>7, <2>1 DEF PoolCounted, ValidHeaders
  <2>2. CASE k = "orders"
    BY <1>1, <1>2, <1>5, <1>6, <2>2 DEF PoolCounted, Inv, Memory, Sound
  <2> QED BY <2>1, <2>2 DEF Names
<1> QED BY <1>2, <1>3, <1>4, <1>6, <1>7, <1>8

\* A name is unlinked.
LEMMA NameDropped ==
  ASSUME Inv, NEW n \in Names, NEW k \in Names, n # k,
         named' = [named EXCEPT ![n] = 0], region' = region
  PROVE  /\ named' \in [Names -> 0 .. MaxRegions] /\ named'[n] = 0 /\ named'[k] = named[k]
         /\ NamesDiffer' /\ PoolCounted'
         /\ Sound(k)' <=> Sound(k)
<1>1. named' \in [Names -> 0 .. MaxRegions] /\ named'[n] = 0 /\ named'[k] = named[k]
  BY ConstantsAssumption DEF Inv, Typed
<1>2. NamesDiffer'
  BY <1>1 DEF NamesDiffer, Names
<1>3. Sound(k)' <=> Sound(k)
  BY <1>1 DEF Sound
<1>4. ~ Sound(n)'
  BY <1>1 DEF Sound
<1>5. PoolCounted'
  <2>1. CASE n = "orders"
    BY <1>4, <2>1 DEF PoolCounted
  <2>2. CASE k = "orders"
    BY <1>1, <1>3, <2>2 DEF PoolCounted, Inv, Memory
  <2> QED BY <2>1, <2>2 DEF Names
<1> QED BY <1>1, <1>2, <1>3, <1>5

\* The name a process opens, and the other one.
LEMMA TwoNames ==
  ASSUME Inv, NEW p \in Processes
  PROVE  \E n, k \in Names : n # k /\ n = proc[p].name
BY DEF Inv, Typed, Process, Names

\* A step of an open in idle times that does not finish it.
LEMMA IdleOpening ==
  ASSUME Inv, Idle, NEW p \in Processes, NEW n \in Names, NEW k \in Names, n # k, n = proc[p].name,
         proc[p].at \in Opening, Typed',
         proc'[p].at \in Opening, proc'[p].name = n,
         \A q \in Processes \ {p} : proc'[q] = proc[q] /\ held'[q] = held[q],
         UNCHANGED <<cached, deaths>>, NamesDiffer', PoolCounted', Sound(k)' <=> Sound(k),
         named'[k] = named[k], held'[p][k] = held[p][k],
         \A r \in Regions : region'[r].slots = region[r].slots /\ region'[r].queue = region[r].queue,
         proc'[p].at # "size",
         proc'[p].at \in {"header", "finish"} => held'[p][n] = named'[n] /\ named'[n] # 0
  PROVE  Inv'
<1>1. ~ Active(p)' /\ proc'[p].at \notin Calls
  BY DEF Active, Opening, Calls
<1>2. ASSUME Idle' PROVE OpensInStep(p)'
  <2>1. OpensInStep(p) /\ ~ Active(p)
    BY OthersWait DEF Inv, Memory
  <2>2. n = "orders" => k = "upstream"
    BY DEF Names
  <2>3. n = "orders" => held'[p]["upstream"] = named'["upstream"] /\ Sound("upstream")'
    BY <2>1, <2>2 DEF OpensInStep
  <2>4. p \in Clients => cached'[p] = {}
    BY <2>1 DEF OpensInStep
  <2> QED BY <1>1, <1>2, <2>3, <2>4 DEF OpensInStep
<1> QED BY <1>1, <1>2, OthersWait, OpenerStep

LEMMA SizeRegionStep ==
  ASSUME Inv, NEW p \in Processes, SizeRegion(p)
  PROVE  Inv'
<1>1. PICK n, k \in Names : n # k /\ n = proc[p].name
  BY TwoNames
<1>2. proc[p].at = "size" /\ proc[p].at \in Opening /\ UNCHANGED <<held, cached, deaths>>
  BY DEF SizeRegion, Opening
<1>3. Idle /\ named[n] = proc[p].current /\ named[n] # 0
  BY <1>1, <1>2 DEF Inv, Memory, OpensInStep, Creating
<1>4. CASE region' = [region EXCEPT ![proc[p].current].header = "blank"] /\ Goto(p, "map") /\ UNCHANGED named
  <2> DEFINE x == region[named[n]]
             y == [x EXCEPT !.header = "blank"]
  <2>1. x \in Region /\ region' = [region EXCEPT ![named[n]] = y]
    BY <1>3, <1>4, RegionOfName DEF Inv, Typed
  <2>0. named' = named
    BY <1>4
  <2>2. y \in Region /\ y.slots = x.slots /\ y.queue = x.queue /\ y.header = "blank"
    <3> HIDE DEF x
    <3> QED BY <2>1 DEF Region
  <2> HIDE DEF y
  <2>3. /\ region' \in [Regions -> Region] /\ NamesDiffer' /\ PoolCounted' /\ (Sound(k)' <=> Sound(k))
        /\ \A r \in Regions : region'[r].slots = region[r].slots /\ region'[r].queue = region[r].queue
    BY <1>1, <1>3, <2>0, <2>1, <2>2, HeaderWritten
  <2>4. "map" \in Places /\ "map" \in Opening
    BY DEF Places, Opening
  <2>5. /\ proc' \in [Processes -> Process] /\ proc'[p].at = "map" /\ proc'[p].name = n
        /\ \A q \in Processes \ {p} : proc'[q] = proc[q]
    BY <1>1, <1>4, <2>4, GotoTurns DEF Inv
  <2>6. Typed'
    BY <1>2, <1>4, <2>3, <2>5 DEF Inv, Typed
  <2> QED BY <1>1, <1>2, <1>3, <1>4, <2>3, <2>4, <2>5, <2>6, IdleOpening
<1>5. CASE /\ named' = [named EXCEPT ![proc[p].name] = 0]
           /\ Fails(p, "ShmOpenFailed")
           /\ UNCHANGED region
  <2>1. /\ named' \in [Names -> 0 .. MaxRegions] /\ named'[k] = named[k]
        /\ NamesDiffer' /\ PoolCounted' /\ (Sound(k)' <=> Sound(k))
    BY <1>1, <1>5, NameDropped
  <2>2. "ShmOpenFailed" \in Errors /\ "failed" \in Opening
    BY DEF Errors, Opening
  <2>3. /\ proc' \in [Processes -> Process] /\ proc'[p].at = "failed" /\ proc'[p].name = n
        /\ \A q \in Processes \ {p} : proc'[q] = proc[q]
    BY <1>1, <1>5, <2>2, FailsTurns DEF Inv
  <2>4. Typed'
    BY <1>2, <1>5, <2>1, <2>3 DEF Inv, Typed
  <2> QED BY <1>1, <1>2, <1>3, <1>5, <2>1, <2>2, <2>3, <2>4, IdleOpening
<1> QED BY <1>4, <1>5 DEF SizeRegion

LEMMA MapNewStep ==
  ASSUME Inv, NEW p \in Processes, MapNew(p)
  PROVE  Inv'
<1>1. PICK n, k \in Names : n # k /\ n = proc[p].name
  BY TwoNames
<1>2. proc[p].at = "map" /\ proc[p].at \in Opening /\ UNCHANGED <<region, cached, deaths>>
  BY DEF MapNew, Opening
<1>3. Idle
  BY <1>2 DEF Inv, Memory, OpensInStep, Creating
<1>4. CASE /\ named[n] # 0 /\ held' = [held EXCEPT ![p][n] = named[n]]
           /\ Goto(p, "header") /\ UNCHANGED named
  <2>1. /\ held' \in [Processes -> [Names -> 0 .. MaxRegions]]
        /\ held'[p][n] = named[n] /\ held'[p][k] = held[p][k]
        /\ \A q \in Processes \ {p} : held'[q] = held[q]
    BY <1>1, <1>4 DEF Inv, Typed
  <2>2. "header" \in Places /\ "header" \in Opening
    BY DEF Places, Opening
  <2>3. /\ proc' \in [Processes -> Process] /\ proc'[p].at = "header" /\ proc'[p].name = n
        /\ \A q \in Processes \ {p} : proc'[q] = proc[q]
    BY <1>1, <1>4, <2>2, GotoTurns DEF Inv
  <2>4. Typed'
    BY <1>2, <1>4, <2>1, <2>3 DEF Inv, Typed
  <2>5. /\ NamesDiffer' /\ PoolCounted' /\ (Sound(k)' <=> Sound(k))
        /\ \A r \in Regions : region'[r].slots = region[r].slots /\ region'[r].queue = region[r].queue
    BY <1>2, <1>4, NamesKept
  <2> QED BY <1>1, <1>2, <1>3, <1>4, <2>1, <2>2, <2>3, <2>4, <2>5, IdleOpening
<1>5. CASE /\ \E code \in {"ShmResizeFailed", "ShmOpenFailed"} : Fails(p, code)
           /\ named' = [named EXCEPT ![n] = 0]
           /\ UNCHANGED held
  <2>1. /\ named' \in [Names -> 0 .. MaxRegions] /\ named'[k] = named[k]
        /\ NamesDiffer' /\ PoolCounted' /\ (Sound(k)' <=> Sound(k))
    BY <1>1, <1>2, <1>5, NameDropped
  <2>2. {"ShmResizeFailed", "ShmOpenFailed"} \subseteq Errors /\ "failed" \in Opening
    BY DEF Errors, Opening
  <2>3. /\ proc' \in [Processes -> Process] /\ proc'[p].at = "failed" /\ proc'[p].name = n
        /\ \A q \in Processes \ {p} : proc'[q] = proc[q]
    <3>1. PICK code \in {"ShmResizeFailed", "ShmOpenFailed"} : Fails(p, code)
      BY <1>5
    <3> QED BY <1>1, <2>2, <3>1, FailsTurns DEF Inv
  <2>4. Typed'
    BY <1>2, <1>5, <2>1, <2>3 DEF Inv, Typed
  <2> QED BY <1>1, <1>2, <1>3, <1>5, <2>1, <2>2, <2>3, <2>4, IdleOpening
<1> QED BY <1>1, <1>4, <1>5 DEF MapNew

LEMMA WriteMagicStep ==
  ASSUME Inv, NEW p \in Processes, WriteMagic(p)
  PROVE  Inv'
<1>1. PICK n, k \in Names : n # k /\ n = proc[p].name
  BY TwoNames
<1>2. proc[p].at = "header" /\ proc[p].at \in Opening /\ UNCHANGED <<named, held, cached, deaths>>
  BY DEF WriteMagic, Opening
<1>3. Idle /\ held[p][n] = named[n] /\ named[n] # 0
  BY <1>1, <1>2 DEF Inv, Memory, OpensInStep, Creating
<1> DEFINE x == region[named[n]]
           y == [x EXCEPT !.header = "magic"]
<1>4. x \in Region /\ region' = [region EXCEPT ![named[n]] = y] /\ Goto(p, "finish")
  BY <1>1, <1>3, RegionOfName DEF Inv, Typed, WriteMagic
<1>5. y \in Region /\ y.slots = x.slots /\ y.queue = x.queue /\ y.header = "magic"
  <2> HIDE DEF x
  <2> QED BY <1>4 DEF Region
<1> HIDE DEF y
<1>6. /\ region' \in [Regions -> Region] /\ NamesDiffer' /\ PoolCounted' /\ (Sound(k)' <=> Sound(k))
      /\ \A r \in Regions : region'[r].slots = region[r].slots /\ region'[r].queue = region[r].queue
  BY <1>1, <1>2, <1>3, <1>4, <1>5, HeaderWritten
<1>7. "finish" \in Places /\ "finish" \in Opening
  BY DEF Places, Opening
<1>8. /\ proc' \in [Processes -> Process] /\ proc'[p].at = "finish" /\ proc'[p].name = n
      /\ \A q \in Processes \ {p} : proc'[q] = proc[q]
  BY <1>1, <1>4, <1>7, GotoTurns DEF Inv
<1>9. Typed'
  BY <1>2, <1>6, <1>8 DEF Inv, Typed
<1> QED BY <1>1, <1>2, <1>3, <1>6, <1>7, <1>8, <1>9, IdleOpening

LEMMA ReadyFacts ==
  LET y == [Nothing EXCEPT !.at = "ready"]
  IN  y \in Process /\ y.at = "ready" /\ y.id = 0 /\ y.current = 0
BY ConstantsAssumption DEF Nothing, Process, Places, Names, Errors

LEMMA OpenedTurns ==
  ASSUME Typed, NEW p \in Processes, Opened(p)
  PROVE  /\ proc' \in [Processes -> Process]
         /\ proc[p].name = "upstream" => proc'[p].at = "open" /\ proc'[p].name = "orders"
         /\ proc[p].name # "upstream" => proc'[p].at = "ready"
         /\ \A q \in Processes \ {p} : proc'[q] = proc[q]
<1> DEFINE x == proc[p]
<1>1. x \in Process
  BY DEF Typed
<1>2. CASE x.name = "upstream"
  <2> DEFINE a == [x EXCEPT !.at = "open"]
             b == [a EXCEPT !.name = "orders"]
             c == [b EXCEPT !.current = 0]
             y == [c EXCEPT !.mode = IF x.mode = "Create" THEN "OpenOrCreate" ELSE x.mode]
  <2>1. proc' = [proc EXCEPT ![p] = y]
    BY <1>2 DEF Opened
  <2> HIDE DEF x
  <2>2. a \in Process /\ a.at = "open"
    BY <1>1 DEF Process, Places, Opening
  <2> HIDE DEF a
  <2>3. b \in Process /\ b.at = "open" /\ b.name = "orders"
    BY <2>2 DEF Process, Names
  <2> HIDE DEF b
  <2>4. c \in Process /\ c.at = "open" /\ c.name = "orders"
    BY <2>3 DEF Process
  <2> HIDE DEF c
  <2>5. y \in Process /\ y.at = "open" /\ y.name = "orders"
    <3> DEFINE m == IF x.mode = "Create" THEN "OpenOrCreate" ELSE x.mode
    <3>1. m \in {"Open", "OpenOrCreate", "Create"} /\ y = [c EXCEPT !.mode = m]
      BY <1>1 DEF Process
    <3> HIDE DEF m, y
    <3> QED BY <2>4, <3>1 DEF Process
  <2> HIDE DEF y
  <2> QED BY <1>2, <2>1, <2>5, ProcWritten DEF x
<1>3. CASE x.name # "upstream"
  <2> DEFINE y == [Nothing EXCEPT !.at = "ready"]
  <2>1. proc' = [proc EXCEPT ![p] = y]
    BY <1>3 DEF Opened
  <2>2. y \in Process /\ y.at = "ready"
    BY ReadyFacts
  <2> HIDE DEF y
  <2> QED BY <1>3, <2>1, <2>2, ProcWritten
<1> QED BY <1>2, <1>3

\* The open of one name is done: on to the next one, or to work.
LEMMA OpenDone ==
  ASSUME Inv, NEW p \in Processes, NEW n \in Names, NEW k \in Names, n # k, n = proc[p].name,
         proc[p].at \in Opening, Opened(p), named' = named, region' \in [Regions -> Region],
         held' \in [Processes -> [Names -> 0 .. MaxRegions]],
         held'[p][n] = named[n], held'[p][k] = held[p][k],
         \A q \in Processes \ {p} : held'[q] = held[q],
         Sound(n)', Sound(k)' <=> Sound(k), Idle \/ region' = region,
         \A r \in Regions : region'[r].slots = region[r].slots /\ region'[r].queue = region[r].queue,
         NamesDiffer', PoolCounted', UNCHANGED <<cached, deaths>>
  PROVE  Inv'
<1>1. /\ proc' \in [Processes -> Process]
      /\ n = "upstream" => proc'[p].at = "open" /\ proc'[p].name = "orders"
      /\ n # "upstream" => proc'[p].at = "ready"
      /\ \A q \in Processes \ {p} : proc'[q] = proc[q]
  BY OpenedTurns DEF Inv
<1>2. Typed'
  BY <1>1 DEF Inv, Typed
<1>3. OpensInStep(p) /\ ~ Active(p)
  BY OthersWait DEF Inv, Memory
<1>4. proc'[p].at \in {"open", "ready"} /\ proc'[p].at \notin Calls
  BY <1>1 DEF Calls
<1>5. OpensInStep(p)'
  <2>1. CASE n = "upstream"
    <3>1. ~ Active(p)'
      BY <1>1, <2>1 DEF Active, Calls
    <3>2. p \in Clients => cached'[p] = {}
      BY <1>3 DEF OpensInStep
    <3> QED BY <1>1, <2>1, <3>1, <3>2 DEF OpensInStep, Creating
  <2>2. CASE n = "orders"
    <3>1. k = "upstream" /\ proc'[p].at = "ready"
      BY <1>1, <2>2 DEF Names
    <3>2. held[p]["upstream"] = named["upstream"] /\ Sound("upstream")
      BY <1>3, <2>2 DEF OpensInStep
    <3>3. \A m \in Names : held'[p][m] = named'[m]
      BY <2>2, <3>1, <3>2 DEF Names
    <3>4. held'[p] = named'
      BY <1>2, <3>3 DEF Typed
    <3>5. Sound("upstream")' /\ Sound("orders")'
      BY <2>2, <3>1, <3>2
    <3>6. Active(p)'
      BY <3>1 DEF Active
    <3> QED BY <3>1, <3>4, <3>5, <3>6 DEF OpensInStep, Creating, Opening
  <2> QED BY <2>1, <2>2 DEF Names
<1> QED BY <1>1, <1>2, <1>3, <1>4, <1>5, OthersWait, OpenerStep

LEMMA FinishHeaderStep ==
  ASSUME Inv, NEW p \in Processes, FinishHeader(p)
  PROVE  Inv'
<1>1. PICK n, k \in Names : n # k /\ n = proc[p].name
  BY TwoNames
<1>2. /\ proc[p].at = "finish" /\ proc[p].at \in Opening /\ Opened(p)
      /\ UNCHANGED <<named, held, cached, deaths>>
  BY DEF FinishHeader, Opening
<1>3. Idle /\ held[p][n] = named[n] /\ named[n] # 0
  BY <1>1, <1>2 DEF Inv, Memory, OpensInStep, Creating
<1> DEFINE x == region[named[n]]
           z == [x EXCEPT !.header = "ready"]
           y == [z EXCEPT !.counter = IF n = "upstream" THEN 1 ELSE 0]
<1>4. x \in Region /\ region' = [region EXCEPT ![named[n]] = y]
  BY <1>1, <1>3, RegionOfName DEF Inv, Typed, FinishHeader
<1>5. x.slots = <<>>
  BY <1>3, RegionOfName DEF Inv, Idle
<1> HIDE DEF x
<1>6. z \in Region /\ z.slots = x.slots /\ z.queue = x.queue /\ z.header = "ready"
  BY <1>4 DEF Region
<1> HIDE DEF z
<1>7. /\ y \in Region /\ y.slots = x.slots /\ y.queue = x.queue /\ y.header = "ready"
      /\ y.counter = IF n = "upstream" THEN 1 ELSE 0
  BY <1>6 DEF Region
<1>8. y.header \in ValidHeaders(n)
  BY <1>7 DEF ValidHeaders
<1>9. n = "orders" => y.counter = Len(y.slots)
  BY <1>5, <1>7
<1> HIDE DEF y
<1>10. /\ region' \in [Regions -> Region] /\ NamesDiffer' /\ PoolCounted' /\ (Sound(k)' <=> Sound(k))
       /\ Sound(n)'
       /\ \A r \in Regions : region'[r].slots = region[r].slots /\ region'[r].queue = region[r].queue
  BY <1>1, <1>2, <1>3, <1>4, <1>7, <1>8, <1>9, HeaderWritten DEF x
<1>11. held \in [Processes -> [Names -> 0 .. MaxRegions]]
  BY DEF Inv, Typed
<1> QED BY <1>1, <1>2, <1>3, <1>10, <1>11, OpenDone

LEMMA AttachStep ==
  ASSUME Inv, NEW p \in Processes, Attach(p)
  PROVE  Inv'
<1>1. PICK n, k \in Names : n # k /\ n = proc[p].name
  BY TwoNames
<1>2. proc[p].at = "attach" /\ proc[p].at \in Opening /\ UNCHANGED <<named, region, cached, deaths>>
  BY DEF Attach, Opening
<1>3. CASE /\ named[n] # 0 /\ region[named[n]].header \in ValidHeaders(n)
           /\ held' = [held EXCEPT ![p][n] = named[n]] /\ Opened(p)
  <2>1. Sound(n)
    BY <1>3 DEF Sound
  <2>2. /\ held' \in [Processes -> [Names -> 0 .. MaxRegions]]
        /\ held'[p][n] = named[n] /\ held'[p][k] = held[p][k]
        /\ \A q \in Processes \ {p} : held'[q] = held[q]
    BY <1>1, <1>3 DEF Inv, Typed
  <2>3. region' \in [Regions -> Region]
    BY <1>2 DEF Inv, Typed
  <2> QED BY <1>1, <1>2, <1>3, <2>1, <2>2, <2>3, NamesKept, OpenDone
<1>4. CASE /\ named[n] # 0 /\ region[named[n]].header \notin ValidHeaders(n)
           /\ \E code \in {"ShmResizeFailed", "ShmHeaderInvalid"} : Fails(p, code)
           /\ UNCHANGED held
  <2>1. Idle
    BY <1>4, UnsoundIsIdle DEF Inv, Sound
  <2>2. {"ShmResizeFailed", "ShmHeaderInvalid"} \subseteq Errors /\ "failed" \in Opening \ Creating
    BY DEF Errors, Opening, Creating
  <2>3. PICK code \in {"ShmResizeFailed", "ShmHeaderInvalid"} : Fails(p, code)
    BY <1>4
  <2> QED BY <1>2, <1>4, <2>1, <2>2, <2>3, FailsTurns, OpenTurns DEF Inv
<1>5. CASE Fails(p, "ShmOpenFailed") /\ UNCHANGED held
  <2>1. "ShmOpenFailed" \in Errors /\ ~ ShouldRecreate("ShmOpenFailed") /\ "failed" \in Opening \ Creating
    BY DEF Errors, ShouldRecreate, Opening, Creating
  <2> QED BY <1>2, <1>5, <2>1, FailsTurns, OpenTurns DEF Inv
<1>6. "unsized" \notin ValidHeaders(n)
  BY DEF ValidHeaders
<1> QED BY <1>1, <1>3, <1>4, <1>5, <1>6 DEF Attach

LEMMA OpenFailedStep ==
  ASSUME Inv, NEW p \in Processes, OpenFailed(p)
  PROVE  Inv'
<1>1. PICK n, k \in Names : n # k /\ n = proc[p].name
  BY TwoNames
<1>2. proc[p].at = "failed" /\ proc[p].at \in Opening /\ UNCHANGED <<region, cached, deaths>>
  BY DEF OpenFailed, Opening
<1>3. CASE /\ ShouldRecreate(proc[p].error)
           /\ named' \in {named, [named EXCEPT ![n] = 0]}
           /\ proc' = [proc EXCEPT ![p].at = "open", ![p].mode = "Create", ![p].error = "None"]
           /\ UNCHANGED held
  <2>1. Idle
    BY <1>2, <1>3 DEF Inv, Memory, OpensInStep
  <2> DEFINE x == proc[p]
             a == [x EXCEPT !.at = "open"]
             b == [a EXCEPT !.mode = "Create"]
             y == [b EXCEPT !.error = "None"]
  <2>2. x \in Process /\ proc' = [proc EXCEPT ![p] = y]
    BY <1>3 DEF Inv, Typed
  <2> HIDE DEF x
  <2>3. a \in Process /\ a.at = "open" /\ a.name = x.name
    BY <2>2 DEF Process, Places, Opening
  <2> HIDE DEF a
  <2>4. b \in Process /\ b.at = "open" /\ b.name = x.name
    BY <2>3 DEF Process
  <2> HIDE DEF b
  <2>5. y \in Process /\ y.at = "open" /\ y.name = x.name
    BY <2>4 DEF Process, Errors
  <2> HIDE DEF y
  <2>6. /\ proc' \in [Processes -> Process] /\ proc'[p].at = "open" /\ proc'[p].name = n
        /\ \A q \in Processes \ {p} : proc'[q] = proc[q]
    BY <1>1, <2>2, <2>5, ProcWritten DEF Inv, x
  <2>7. /\ named' \in [Names -> 0 .. MaxRegions] /\ named'[k] = named[k]
        /\ NamesDiffer' /\ PoolCounted' /\ (Sound(k)' <=> Sound(k))
    <3>1. CASE named' = named
      BY <1>2, <3>1, NamesKept DEF Inv, Typed
    <3>2. CASE named' = [named EXCEPT ![n] = 0]
      BY <1>1, <1>2, <3>2, NameDropped
    <3> QED BY <1>3, <3>1, <3>2
  <2>8. Typed'
    BY <1>2, <1>3, <2>6, <2>7 DEF Inv, Typed
  <2>9. "open" \in Opening
    BY DEF Opening
  <2> QED BY <1>1, <1>2, <1>3, <2>1, <2>6, <2>7, <2>8, <2>9, IdleOpening
<1>4. CASE /\ held' = [held EXCEPT ![p] = [m \in Names |-> 0]]
           /\ proc' = [proc EXCEPT ![p] = Nothing]
           /\ UNCHANGED named
  <2>1. /\ proc' \in [Processes -> Process] /\ proc'[p] = Nothing
        /\ \A q \in Processes \ {p} : proc'[q] = proc[q]
    BY <1>4, NothingFacts, ProcWritten DEF Inv
  <2>2. /\ held' \in [Processes -> [Names -> 0 .. MaxRegions]]
        /\ \A q \in Processes \ {p} : held'[q] = held[q]
    BY <1>4, ConstantsAssumption DEF Inv, Typed
  <2>3. Typed'
    BY <1>2, <1>4, <2>1, <2>2 DEF Inv, Typed
  <2>4. proc'[p].at = "down" /\ ~ Active(p)' /\ proc'[p].at \notin Calls
    BY <2>1, NothingFacts DEF Active, Calls
  <2>5. OpensInStep(p)'
    <3>1. p \in Clients => cached'[p] = {}
      BY <1>2, OthersWait DEF Inv, Memory, OpensInStep
    <3> QED BY <2>4, <3>1 DEF OpensInStep, Creating, Opening
  <2> QED BY <1>2, <1>4, <2>1, <2>2, <2>3, <2>4, <2>5, OthersWait, NamesKept, OpenerStep
<1> QED BY <1>1, <1>3, <1>4 DEF OpenFailed

-----------------------------------------------------------------------------
(* Deaths and calls.                                                       *)

LEMMA DieStep ==
  ASSUME Inv, NEW p \in Processes, Die(p)
  PROVE  Inv'
<1>1. /\ proc' = [proc EXCEPT ![p] = Nothing] /\ held' = [held EXCEPT ![p] = [n \in Names |-> 0]]
      /\ cached' = IF p \in Clients THEN [cached EXCEPT ![p] = {}] ELSE cached
      /\ deaths' = deaths + 1 /\ named' = named /\ region' = region
  BY DEF Die
<1>2. /\ proc' \in [Processes -> Process] /\ proc'[p] = Nothing
      /\ \A q \in Processes \ {p} : proc'[q] = proc[q]
  BY <1>1, NothingFacts, ProcWritten DEF Inv
<1>3. /\ held' \in [Processes -> [Names -> 0 .. MaxRegions]]
      /\ \A q \in Processes \ {p} : held'[q] = held[q]
  BY <1>1, ConstantsAssumption DEF Inv, Typed
<1>4. /\ cached' \in [Clients -> SUBSET (0 .. MaxIds)]
      /\ p \in Clients => cached'[p] = {}
      /\ \A c \in Clients : cached'[c] = cached[c] \/ cached'[c] = {}
      /\ \A c \in Clients : c # p => cached'[c] = cached[c]
  BY <1>1 DEF Inv, Typed
<1>5. deaths' \in Nat /\ deaths' # 0
  BY <1>1 DEF Inv, Typed
<1>6. Typed'
  BY <1>1, <1>2, <1>3, <1>4, <1>5 DEF Inv, Typed
<1>7. Bounded'
  <2>1. Cardinality({}) = 0
    BY FS_EmptySet
  <2>2. CacheBound \in Nat
    BY ConstantsAssumption
  <2> QED BY <1>1, <1>4, <2>1, <2>2 DEF Inv, Bounded
<1>8. NamesDiffer' /\ PoolCounted' /\ \A n : Sound(n)' <=> Sound(n)
  BY <1>1, NamesKept
<1>9. proc'[p].at = "down" /\ ~ Active(p)'
  BY <1>2, NothingFacts DEF Active, Calls
<1>10. \A q \in Processes : Active(q)' => Active(q)
  BY <1>2, <1>9 DEF Active
<1>11. Idle => Idle'
  BY <1>1, <1>10 DEF Idle
<1>12. OneOpener'
  BY <1>2, <1>9 DEF Inv, Memory, OneOpener, Opening
<1>13. WorkIsNamed'
  BY <1>1, <1>8 DEF Inv, Memory, WorkIsNamed
<1>14. ASSUME NEW q \in Processes PROVE OpensInStep(q)'
  <2>1. CASE q = p
    BY <1>4, <1>9, <2>1 DEF OpensInStep, Creating, Opening
  <2>2. CASE q # p
    <3>1. proc'[q] = proc[q] /\ held'[q] = held[q] /\ OpensInStep(q) /\ (q \in Clients => cached'[q] = cached[q])
      BY <1>2, <1>3, <1>4, <2>2 DEF Inv, Memory
    <3>2. Active(q)' <=> Active(q)
      BY <3>1 DEF Active
    <3> QED BY <1>1, <1>8, <1>11, <3>1, <3>2 DEF OpensInStep
  <2> QED BY <2>1, <2>2
<1>15. Memory'
  BY <1>8, <1>12, <1>13, <1>14 DEF Memory
<1>16. NextId' = NextId /\ PoolSlots' = PoolSlots /\ Queue' = Queue
  BY <1>1 DEF NextId, PoolSlots, Queue
<1>17. /\ \A q \in Processes : proc'[q].at \in Calls => proc'[q] = proc[q]
       /\ \A q \in Processes : proc'[q].at \in Holding => proc'[q] = proc[q]
       /\ \A c \in Clients : cached'[c] \subseteq cached[c]
       /\ \A c \in Clients : cached'[c] # {} => c \in Processes /\ proc'[c] = proc[c]
  BY <1>2, <1>4, <1>9 DEF Calls, Holding, Processes
<1>18. IdsInHand(proc', cached', NextId) /\ IdsCached(cached', NextId)
  <2>1. IdsInHand(proc, cached, NextId) /\ IdsCached(cached, NextId)
    BY DEF Inv, Entries
  <2>2. IdsInHand(proc', cached', NextId)
    BY <1>17, <2>1 DEF IdsInHand
  <2>3. IdsCached(cached', NextId)
    BY <1>17, <2>1 DEF IdsCached
  <2> QED BY <2>2, <2>3
<1>19. SlotsInHand(proc', PoolSlots)
  BY <1>17 DEF Inv, Entries, SlotsInHand
<1>20. ASSUME IdsSpent(PoolSlots, NextId, proc, cached)
       PROVE  IdsSpent(PoolSlots, NextId, proc', cached')
  BY <1>17, <1>20 DEF IdsSpent
<1>21. ASSUME QueuedOnce(Queue, PoolSlots, proc)
       PROVE  QueuedOnce(Queue, PoolSlots, proc')
  BY <1>17, <1>21 DEF QueuedOnce
<1>22. Entries'
  BY <1>1, <1>5, <1>16, <1>18, <1>19, <1>20, <1>21 DEF Inv, Entries
<1> QED BY <1>6, <1>7, <1>15, <1>22 DEF Inv

\* A process in a call works with the regions of the names.
LEMMA ActiveFacts ==
  ASSUME Inv, NEW p \in Processes, Active(p)
  PROVE  /\ held[p] = named /\ Sound("upstream") /\ Sound("orders")
         /\ named["upstream"] \in Regions /\ named["orders"] \in Regions
         /\ named["upstream"] # 0 /\ named["orders"] # 0
         /\ named["upstream"] # named["orders"]
         /\ PoolSlots \in Seq(SlotRecord) /\ Queue \in Seq(Nat) /\ NextId \in Nat
         /\ region[named["orders"]].counter = Len(PoolSlots)
         /\ region[named["orders"]] \in Region /\ region[named["upstream"]] \in Region
<1>1. held[p] = named /\ Sound("upstream") /\ Sound("orders")
  BY DEF Inv, Memory, OpensInStep
<1>2. named["upstream"] # 0 /\ named["orders"] # 0
  BY <1>1 DEF Sound
<1>3. named["upstream"] \in Regions /\ named["orders"] \in Regions
  BY <1>2, RegionOfName DEF Inv, Names
<1>4. named["upstream"] # named["orders"]
  BY <1>2 DEF Inv, Memory, NamesDiffer
<1>5. region[named["orders"]] \in Region /\ region[named["upstream"]] \in Region
  BY <1>3 DEF Inv, Typed
<1>6. PoolSlots \in Seq(SlotRecord) /\ Queue \in Seq(Nat) /\ NextId \in Nat
  BY <1>5 DEF Region, PoolSlots, Queue, NextId
<1>7. region[named["orders"]].counter = Len(PoolSlots)
  BY <1>1 DEF Inv, Memory, PoolCounted, PoolSlots
<1> QED BY <1>1, <1>2, <1>3, <1>4, <1>5, <1>6, <1>7

\* A call leaves names and headers alone, and works in the regions of the names.
LEMMA CallFrame ==
  ASSUME Inv, NEW p \in Processes, Active(p), Active(p)',
         named' = named, held' = held, \A q \in Processes \ {p} : proc'[q] = proc[q],
         \A c \in Clients : c # p => cached'[c] = cached[c],
         \A r \in Regions : region'[r].header = region[r].header,
         \A r \in Regions : r # named["orders"] => region'[r].slots = region[r].slots,
         \A r \in Regions : r # named["upstream"] => region'[r].queue = region[r].queue,
         region'[named["orders"]].counter = Len(region'[named["orders"]].slots)
  PROVE  Memory'
<1>1. /\ held[p] = named /\ Sound("upstream") /\ Sound("orders")
      /\ named["upstream"] \in Regions /\ named["orders"] \in Regions
  BY ActiveFacts
<1>2. Sound("upstream")' /\ Sound("orders")'
  BY <1>1 DEF Sound
<1>3. proc[p].at \notin Opening /\ proc'[p].at \notin Opening
  BY DEF Active, Opening, Calls
<1>4. OneOpener'
  BY <1>3 DEF Inv, Memory, OneOpener
<1>5. WorkIsNamed'
  BY <1>2 DEF Inv, Memory, WorkIsNamed
<1>6. NamesDiffer' /\ PoolCounted'
  BY <1>2 DEF Inv, Memory, NamesDiffer, PoolCounted
<1>7. ~ Idle
  BY DEF Idle
<1>8. ASSUME NEW q \in Processes PROVE OpensInStep(q)'
  <2>1. CASE q = p
    BY <1>1, <1>2, <1>3, <2>1 DEF OpensInStep, Creating, Opening
  <2>2. CASE q # p
    <3>1. proc'[q] = proc[q] /\ OpensInStep(q) /\ (q \in Clients => cached'[q] = cached[q])
      BY <2>2 DEF Inv, Memory
    <3>2. Active(q)' <=> Active(q)
      BY <3>1 DEF Active
    <3>3. proc[q].at \notin Creating /\ ~ (proc[q].at = "failed" /\ ShouldRecreate(proc[q].error))
      BY <1>7, <3>1 DEF OpensInStep
    <3> QED BY <1>2, <3>1, <3>2, <3>3 DEF OpensInStep, Creating
  <2> QED BY <2>1, <2>2
<1> QED BY <1>4, <1>5, <1>6, <1>8 DEF Memory

\* Entries of one pool, one queue and one counter.
HandToHand(pr, ca, n, s, x) ==
  /\ IdsInHand(pr, ca, n) /\ IdsCached(ca, n) /\ SlotsInHand(pr, s)
  /\ IdsSpent(s, n, pr, ca) /\ QueuedOnce(x, s, pr)
  /\ deaths = 0 => Believed(x, s, pr)

LEMMA EntriesOfNames ==
  ASSUME named["orders"] # 0, named["upstream"] # 0
  PROVE  Entries <=> HandToHand(proc, cached, NextId, PoolSlots, Queue)
BY DEF Entries, HandToHand

\* The places of a call, and who has a slot.
LEMMA CallFacts ==
  ASSUME NEW at
  PROVE  /\ at \in Holding => at \in Calls
         /\ at \in {"push", "mark"} => at \in Holding /\ at # "write"
         /\ at \in {"ready", "down"} => at \notin Calls
         /\ at \in {"load", "allocate"} => at \in Calls /\ at \notin Holding
BY DEF Holding, Calls

\* fetch_add: an id nobody uses, put into a cache or thrown away.
LEMMA EntriesNewOrder ==
  ASSUME NEW pr, NEW ca, NEW ca2, NEW n \in Nat, NEW s, NEW x, NEW c \in Clients,
         HandToHand(pr, ca, n, s, x), pr[c].at = "ready",
         \A p \in Processes : pr[p].id \in Nat, \A d \in Clients : ca[d] \subseteq Nat,
         \A k \in 1 .. Len(s) : s[k].id \in Nat,
         ca2[c] = ca[c] \/ ca2[c] = ca[c] \cup {n}, \A d \in Clients \ {c} : ca2[d] = ca[d]
  PROVE  HandToHand(pr, ca2, n + 1, s, x)
<1>1. \A d \in Clients : \A id \in ca2[d] : id \in ca[d] \/ (d = c /\ id = n)
  OBVIOUS
<1>2. /\ \A p \in Processes : pr[p].at \in Calls => pr[p].id < n
      /\ \A d \in Clients : \A id \in ca[d] : id < n
  BY DEF HandToHand, IdsInHand, IdsCached
<1>3. \A m \in Nat : m < n => m < n + 1 /\ m # n
  OBVIOUS
<1>4. IdsInHand(pr, ca2, n + 1)
  BY <1>1, <1>2, <1>3 DEF HandToHand, IdsInHand
<1>5. IdsCached(ca2, n + 1)
  <2>1. \A d \in Clients : \A id \in ca2[d] : id < n + 1
    BY <1>1, <1>2, <1>3
  <2>2. ASSUME NEW d \in Clients, NEW e \in Clients, NEW id \in ca2[d], id \in ca2[e]
        PROVE  d = e
    <3>1. (id \in ca[d] /\ id # n) \/ (d = c /\ id = n)
      BY <1>1, <1>2, <1>3
    <3>2. (id \in ca[e] /\ id # n) \/ (e = c /\ id = n)
      BY <1>1, <1>2, <1>3, <2>2
    <3> QED BY <3>1, <3>2 DEF HandToHand, IdsCached
  <2> QED BY <2>1, <2>2 DEF IdsCached
<1>6. IdsSpent(s, n + 1, pr, ca2)
  <2>1. ASSUME NEW k \in 1 .. Len(s), s[k].stage # "Empty"
        PROVE  s[k].id < n /\ s[k].id < n + 1 /\ s[k].id # n
    BY <1>3, <2>1 DEF HandToHand, IdsSpent
  <2>2. "Empty" \notin LiveStages
    BY DEF LiveStages
  <2> QED BY <1>1, <2>1, <2>2 DEF HandToHand, IdsSpent
<1> QED BY <1>4, <1>5, <1>6 DEF HandToHand

\* A process at rest begins a call with an id that only its own cache may have.
LEMMA EntriesEnqueue ==
  ASSUME NEW pr, NEW pr2, NEW ca, NEW n, NEW s, NEW x, NEW p \in Processes,
         HandToHand(pr, ca, n, s, x), pr[p].at = "ready",
         pr2[p].at = "load", \A q \in Processes \ {p} : pr2[q] = pr[q],
         pr2[p].id < n, \A q \in Processes : pr[q].at \in Calls => pr[q].id # pr2[p].id,
         \A c \in Clients : pr2[p].id \in ca[c] => c = p,
         \A k \in 1 .. Len(s) : s[k].stage \in LiveStages => s[k].id # pr2[p].id
  PROVE  HandToHand(pr2, ca, n, s, x)
<1>1. /\ \A q \in Processes : pr2[q].at \in Holding \/ pr[q].at \in Holding => pr2[q] = pr[q]
      /\ \A q \in Processes : pr2[q].at \in Calls /\ q # p => pr2[q] = pr[q]
      /\ pr[p].at \notin {"push", "mark"} /\ pr2[p].at \in Calls
  BY CallFacts DEF Holding, Calls
<1>2. IdsInHand(pr2, ca, n)
  BY <1>1 DEF HandToHand, IdsInHand
<1>3. SlotsInHand(pr2, s)
  BY <1>1 DEF HandToHand, SlotsInHand
<1>4. IdsSpent(s, n, pr2, ca)
  <2>1. ASSUME NEW k \in 1 .. Len(s), s[k].stage \in LiveStages
        PROVE  /\ \A q \in Processes : pr2[q].at \in Calls /\ pr2[q].id = s[k].id =>
                     pr2[q].at \in {"push", "mark"} /\ pr2[q].current + 1 = k
               /\ \A c \in Clients : s[k].id \in ca[c] =>
                     pr2[c].at \in {"push", "mark"} /\ pr2[c].id = s[k].id
    <3>1. \A q \in Processes : pr2[q].at \in Calls /\ pr2[q].id = s[k].id => q # p
      BY <2>1
    <3>2. \A c \in Clients : s[k].id \in ca[c] => c # p /\ c \in Processes
      BY <1>1, <2>1 DEF HandToHand, IdsSpent, Processes
    <3> QED BY <1>1, <2>1, <3>1, <3>2 DEF HandToHand, IdsSpent
  <2> QED BY <2>1 DEF HandToHand, IdsSpent
<1>5. QueuedOnce(x, s, pr2)
  BY <1>1 DEF HandToHand, QueuedOnce
<1>6. deaths = 0 => Believed(x, s, pr2)
  BY <1>1 DEF HandToHand, Believed
<1> QED BY <1>2, <1>3, <1>4, <1>5, <1>6 DEF HandToHand

\* A call goes on with its id, or returns, without a slot in hand before or after.
LEMMA EntriesEmptyHanded ==
  ASSUME NEW pr, NEW pr2, NEW ca, NEW n, NEW s, NEW x, NEW p \in Processes,
         HandToHand(pr, ca, n, s, x),
         pr[p].at \in Calls \ Holding, pr2[p].at \notin Holding,
         pr2[p].at \in Calls => pr2[p].id = pr[p].id, \A q \in Processes \ {p} : pr2[q] = pr[q]
  PROVE  HandToHand(pr2, ca, n, s, x)
<1>1. /\ \A q \in Processes : pr2[q].at \in Holding \/ pr[q].at \in Holding => pr2[q] = pr[q]
      /\ \A q \in Processes : pr2[q].at \in Calls => pr[q].at \in Calls /\ pr2[q].id = pr[q].id
      /\ \A q \in Processes : pr[q].at \in {"push", "mark"} => pr2[q] = pr[q]
      /\ \A c \in Clients : c \in Processes
  BY CallFacts DEF Processes
<1>2. IdsInHand(pr2, ca, n)
  BY <1>1 DEF HandToHand, IdsInHand
<1>3. SlotsInHand(pr2, s)
  BY <1>1 DEF HandToHand, SlotsInHand
<1>4. IdsSpent(s, n, pr2, ca)
  BY <1>1 DEF HandToHand, IdsSpent
<1>5. QueuedOnce(x, s, pr2)
  BY <1>1 DEF HandToHand, QueuedOnce
<1>6. deaths = 0 => Believed(x, s, pr2)
  BY <1>1 DEF HandToHand, Believed
<1> QED BY <1>2, <1>3, <1>4, <1>5, <1>6 DEF HandToHand

\* The swap succeeded: the pool has one slot more, and the call has it.
LEMMA EntriesAllocate ==
  ASSUME NEW pr, NEW pr2, NEW ca, NEW n, NEW s, NEW s2, NEW x \in Seq(Nat), NEW p \in Processes,
         HandToHand(pr, ca, n, s, x), \A q \in Processes : pr[q].current \in Nat,
         Len(s) \in Nat, Len(s2) = Len(s) + 1, s2[Len(s) + 1].stage = "Empty",
         \A k \in 1 .. Len(s) : s2[k] = s[k], pr[p].at = "allocate",
         pr2[p].at = "write", pr2[p].id = pr[p].id, pr2[p].current = Len(s),
         \A q \in Processes \ {p} : pr2[q] = pr[q]
  PROVE  HandToHand(pr2, ca, n, s2, x)
<1>1. /\ Len(s2) = Len(s) + 1 /\ Len(s) \in Nat /\ \A k \in 1 .. Len(s) : s2[k] = s[k]
  OBVIOUS
<1>2. s2[Len(s) + 1].stage = "Empty" /\ "Empty" \notin LiveStages /\ "Empty" # "UpstreamQueued"
  BY <1>1 DEF LiveStages
<1>3. /\ 1 .. Len(s) \subseteq 1 .. Len(s2) /\ Len(s) + 1 \in 1 .. Len(s2) /\ Len(s) + 1 \notin 1 .. Len(s)
      /\ \A k \in 1 .. Len(s2) : k \in 1 .. Len(s) \/ k = Len(s) + 1
  BY <1>1
<1>4. /\ pr[p].at \in Calls \ Holding /\ pr2[p].at \in Calls /\ pr2[p].at \in Holding
      /\ pr2[p].at \notin {"push", "mark"}
  BY DEF Calls, Holding
<1>5. /\ \A q \in Processes : pr2[q].at \in Calls => pr[q].at \in Calls /\ pr2[q].id = pr[q].id
      /\ \A q \in Processes : pr[q].at \in {"push", "mark"} => pr2[q] = pr[q]
      /\ \A c \in Clients : c \in Processes
  BY <1>4, CallFacts DEF Processes
<1>6. IdsInHand(pr2, ca, n)
  BY <1>5 DEF HandToHand, IdsInHand
<1>7. SlotsInHand(pr2, s2)
  <2>1. ASSUME NEW q \in Processes \ {p}, pr[q].at \in Holding
        PROVE  /\ pr[q].current + 1 \in 1 .. Len(s) /\ pr[q].current # Len(s)
               /\ s2[pr[q].current + 1] = s[pr[q].current + 1]
    BY <1>1, <2>1 DEF HandToHand, SlotsInHand
  <2>2. ASSUME NEW q \in Processes, pr2[q].at \in Holding
        PROVE  /\ pr2[q].current + 1 \in 1 .. Len(s2)
               /\ pr2[q].at = "write" => s2[pr2[q].current + 1].stage = "Empty"
               /\ pr2[q].at \in {"push", "mark"} =>
                    /\ q \in Clients
                    /\ s2[pr2[q].current + 1].id = pr2[q].id
                    /\ s2[pr2[q].current + 1].stage = "UpstreamQueued"
    <3>1. CASE q = p
      BY <1>2, <1>3, <1>4, <3>1
    <3>2. CASE q # p
      BY <1>3, <2>1, <2>2, <3>2, SMTT(120) DEF HandToHand, SlotsInHand
    <3> QED BY <3>1, <3>2
  <2>3. \A q, t \in Processes :
          pr2[q].at \in Holding /\ pr2[t].at \in Holding /\ pr2[t].current = pr2[q].current => t = q
    BY <2>1, SMTT(120) DEF HandToHand, SlotsInHand
  <2> QED BY <2>2, <2>3 DEF SlotsInHand
<1>8. IdsSpent(s2, n, pr2, ca)
  <2>1. ASSUME NEW k \in 1 .. Len(s2), s2[k].stage # "Empty"
        PROVE  k \in 1 .. Len(s) /\ s2[k] = s[k]
    BY <1>1, <1>2, <1>3, <2>1
  <2>2. \A k \in 1 .. Len(s2) : s2[k].stage \in LiveStages => k \in 1 .. Len(s) /\ s2[k] = s[k]
    BY <1>2, <2>1
  <2>3. ASSUME NEW k \in 1 .. Len(s), s[k].stage \in LiveStages
        PROVE  /\ \A q \in Processes : pr2[q].at \in Calls /\ pr2[q].id = s[k].id =>
                    pr2[q].at \in {"push", "mark"} /\ pr2[q].current + 1 = k
               /\ \A c \in Clients : s[k].id \in ca[c] =>
                    pr2[c].at \in {"push", "mark"} /\ pr2[c].id = s[k].id
    <3>1. /\ \A q \in Processes : pr[q].at \in Calls /\ pr[q].id = s[k].id =>
               pr[q].at \in {"push", "mark"} /\ pr[q].current + 1 = k
          /\ \A c \in Clients : s[k].id \in ca[c] =>
               pr[c].at \in {"push", "mark"} /\ pr[c].id = s[k].id
      BY <2>3 DEF HandToHand, IdsSpent
    <3> QED BY ONLY <1>5, <3>1
  <2>4. \A k \in 1 .. Len(s) : s[k].stage # "Empty" => s[k].id < n
    BY DEF HandToHand, IdsSpent
  <2>5. \A j, k \in 1 .. Len(s) :
          s[j].stage \in LiveStages /\ s[k].stage \in LiveStages /\ s[j].id = s[k].id => j = k
    BY DEF HandToHand, IdsSpent
  <2> QED BY ONLY <2>1, <2>2, <2>3, <2>4, <2>5 DEF IdsSpent
<1>9. QueuedOnce(x, s2, pr2)
  <2>0. QueuedOnce(x, s, pr)
    BY DEF HandToHand
  <2>1. ASSUME NEW k \in 1 .. Len(x)
        PROVE  x[k] + 1 \in 1 .. Len(s) /\ x[k] # Len(s)
    <3>1. x[k] \in Nat
      BY <2>1
    <3>2. x[k] + 1 \in 1 .. Len(s)
      BY ONLY <2>0, <2>1 DEF QueuedOnce
    <3> QED BY <1>1, <3>1, <3>2
  <2>2. ASSUME NEW k \in 1 .. Len(x), NEW q \in Processes, pr2[q].at \in Holding
        PROVE  pr2[q].current # x[k]
    <3>1. CASE q = p
      BY <2>1, <3>1
    <3>2. CASE q # p
      <4>1. pr2[q] = pr[q]
        BY <3>2
      <4> QED BY ONLY <2>0, <2>2, <4>1 DEF QueuedOnce
    <3> QED BY <3>1, <3>2
  <2>3. \A k \in 1 .. Len(x) : s2[x[k] + 1] = s[x[k] + 1] /\ x[k] + 1 \in 1 .. Len(s2)
    BY <1>1, <1>3, <2>1
  <2> QED BY ONLY <2>0, <2>2, <2>3 DEF QueuedOnce
<1>10. deaths = 0 => Believed(x, s2, pr2)
  <2>1. \A q \in Processes : pr[q].at \in Holding => pr2[q] = pr[q]
    BY <1>4
  <2> QED BY <1>1, <1>2, <1>3, <2>1 DEF HandToHand, Believed
<1> QED BY <1>6, <1>7, <1>8, <1>9, <1>10 DEF HandToHand, IdsCached

\* A slot is written.
LEMMA SlotWritten ==
  ASSUME NEW s \in Seq(SlotRecord), NEW k0 \in 1 .. Len(s), NEW y \in SlotRecord, NEW s2,
         s2 = [s EXCEPT ![k0] = y]
  PROVE  /\ s2 \in Seq(SlotRecord) /\ Len(s2) = Len(s) /\ s2[k0] = y
         /\ \A k \in 1 .. Len(s) : k # k0 => s2[k] = s[k]
<1>1. s2 \in Seq(SlotRecord) /\ Len(s2) = Len(s)
  BY ExceptSeq
<1>2. s2[k0] = y /\ \A k \in 1 .. Len(s) : k # k0 => s2[k] = s[k]
  OBVIOUS
<1> QED BY <1>1, <1>2

\* orders_shm_write_order: the call's slot says whose it is; a client goes on to push, the
\* router is done.
LEMMA EntriesWrite ==
  ASSUME NEW pr, NEW pr2, NEW ca, NEW n, NEW s, NEW s2, NEW x, NEW p \in Processes, NEW k0 \in Nat,
         HandToHand(pr, ca, n, s, x), \A q \in Processes : pr[q].current \in Nat,
         pr[p].at = "write", k0 = pr[p].current + 1, x \in Seq(Nat),
         Len(s2) = Len(s), \A k \in 1 .. Len(s) : k # k0 => s2[k] = s[k],
         s2[k0].id = pr[p].id, s2[k0].stage = FirstStage(p),
         p = Service => pr2[p].at = "ready",
         p # Service => pr2[p].at = "push" /\ pr2[p].id = pr[p].id /\ pr2[p].current = pr[p].current,
         \A q \in Processes \ {p} : pr2[q] = pr[q]
  PROVE  HandToHand(pr2, ca, n, s2, x)
<1>1. pr[p].at \in Holding /\ pr[p].at \in Calls /\ pr[p].at \notin {"push", "mark"}
  BY DEF Holding, Calls
<1>2. /\ \A q \in Processes : pr2[q].at \in Calls => pr[q].at \in Calls /\ pr2[q].id = pr[q].id
      /\ \A q \in Processes : pr2[q].at \in Holding => pr[q].at \in Holding /\ pr2[q].current = pr[q].current
      /\ \A q \in Processes : pr[q].at \in {"push", "mark"} => pr2[q] = pr[q]
      /\ \A c \in Clients : c \in Processes /\ c # Service
      /\ p # Service => p \in Clients
  BY <1>1, CallFacts, ConstantsAssumption DEF Processes
<1>3. k0 \in 1 .. Len(s) /\ s[k0].stage = "Empty" /\ FirstStage(p) \in LiveStages
      /\ "Empty" \notin LiveStages /\ FirstStage(p) # "Empty"
  BY <1>1 DEF HandToHand, SlotsInHand, FirstStage, LiveStages
<1>4. \A q \in Processes \ {p} : pr[q].at \in Holding => pr[q].current + 1 # k0
  BY <1>1, SMTT(120) DEF HandToHand, SlotsInHand
<1>5. IdsInHand(pr2, ca, n)
  BY <1>2 DEF HandToHand, IdsInHand
<1>6. SlotsInHand(pr2, s2)
  <2>1. ASSUME NEW q \in Processes, pr2[q].at \in Holding
        PROVE  /\ pr2[q].current + 1 \in 1 .. Len(s2)
               /\ pr2[q].at = "write" => s2[pr2[q].current + 1].stage = "Empty"
               /\ pr2[q].at \in {"push", "mark"} =>
                    /\ q \in Clients
                    /\ s2[pr2[q].current + 1].id = pr2[q].id
                    /\ s2[pr2[q].current + 1].stage = "UpstreamQueued"
    <3>1. CASE q = p
      <4>1. p # Service
        BY <2>1, <3>1, CallFacts
      <4>2. FirstStage(p) = "UpstreamQueued"
        BY <4>1 DEF FirstStage
      <4> QED BY <1>2, <1>3, <3>1, <4>1, <4>2
    <3>2. CASE q # p
      <4>1. pr2[q] = pr[q] /\ pr[q].current + 1 # k0
        BY <1>4, <2>1, <3>2
      <4>2. pr[q].current + 1 \in 1 .. Len(s)
        BY <2>1, <4>1 DEF HandToHand, SlotsInHand
      <4>3. s2[pr[q].current + 1] = s[pr[q].current + 1]
        BY <4>1, <4>2
      <4> QED BY <2>1, <4>1, <4>2, <4>3 DEF HandToHand, SlotsInHand
    <3> QED BY <3>1, <3>2
  <2>2. \A q, t \in Processes :
          pr2[q].at \in Holding /\ pr2[t].at \in Holding /\ pr2[t].current = pr2[q].current => t = q
    BY <1>2 DEF HandToHand, SlotsInHand
  <2> QED BY <2>1, <2>2 DEF SlotsInHand
<1>7. IdsSpent(s2, n, pr2, ca)
  <2>1. pr[p].id < n
    BY <1>1 DEF HandToHand, IdsInHand
  <2>2. ASSUME NEW k \in 1 .. Len(s), k # k0, s[k].stage \in LiveStages
        PROVE  s[k].id # pr[p].id
    BY <1>1, <2>2 DEF HandToHand, IdsSpent
  <2>3. \A k \in 1 .. Len(s2) : s2[k].stage # "Empty" => s2[k].id < n
    BY <2>1 DEF HandToHand, IdsSpent
  <2>4. ASSUME NEW j \in 1 .. Len(s2), NEW k \in 1 .. Len(s2),
               s2[j].stage \in LiveStages, s2[k].stage \in LiveStages, s2[j].id = s2[k].id
        PROVE  j = k
    <3>1. CASE j = k0 \/ k = k0
      BY <2>2, <2>4, <3>1
    <3>2. CASE j # k0 /\ k # k0
      BY <2>4, <3>2 DEF HandToHand, IdsSpent
    <3> QED BY <3>1, <3>2
  <2>5. ASSUME NEW k \in 1 .. Len(s2), s2[k].stage \in LiveStages
        PROVE  /\ \A q \in Processes : pr2[q].at \in Calls /\ pr2[q].id = s2[k].id =>
                    pr2[q].at \in {"push", "mark"} /\ pr2[q].current + 1 = k
               /\ \A c \in Clients : s2[k].id \in ca[c] =>
                    pr2[c].at \in {"push", "mark"} /\ pr2[c].id = s2[k].id
    <3>1. CASE k = k0
      <4>1. ASSUME NEW q \in Processes, pr2[q].at \in Calls, pr2[q].id = s2[k].id
            PROVE  pr2[q].at \in {"push", "mark"} /\ pr2[q].current + 1 = k
        <5>1. q = p
          BY <1>1, <1>2, <3>1, <4>1 DEF HandToHand, IdsInHand
        <5>2. p # Service
          BY <4>1, <5>1, CallFacts
        <5> QED BY <3>1, <5>1, <5>2
      <4>2. ASSUME NEW c \in Clients, s2[k].id \in ca[c]
            PROVE  pr2[c].at \in {"push", "mark"} /\ pr2[c].id = s2[k].id
        <5>1. c = p /\ p # Service
          BY <1>1, <1>2, <3>1, <4>2 DEF HandToHand, IdsInHand
        <5> QED BY <3>1, <5>1
      <4> QED BY <4>1, <4>2
    <3>2. CASE k # k0
      <4>1. s2[k] = s[k] /\ s[k].stage \in LiveStages /\ k \in 1 .. Len(s)
        BY <2>5, <3>2
      <4>2. /\ \A q \in Processes : pr[q].at \in Calls /\ pr[q].id = s[k].id =>
                 pr[q].at \in {"push", "mark"} /\ pr[q].current + 1 = k
            /\ \A c \in Clients : s[k].id \in ca[c] =>
                 pr[c].at \in {"push", "mark"} /\ pr[c].id = s[k].id
        BY <4>1 DEF HandToHand, IdsSpent
      <4> QED BY ONLY <1>2, <4>1, <4>2
    <3> QED BY <3>1, <3>2
  <2> QED BY <2>3, <2>4, <2>5 DEF IdsSpent
<1>8. QueuedOnce(x, s2, pr2)
  <2>1. ASSUME NEW k \in 1 .. Len(x)
        PROVE  /\ x[k] + 1 \in 1 .. Len(s2) /\ s2[x[k] + 1].stage = "UpstreamQueued"
               /\ \A q \in Processes : pr2[q].at \in Holding => pr2[q].current # x[k]
    <3>1. x[k] \in Nat /\ x[k] + 1 \in 1 .. Len(s) /\ s[x[k] + 1].stage = "UpstreamQueued"
      BY <2>1 DEF HandToHand, QueuedOnce
    <3>2. \A q \in Processes : pr2[q].at \in Holding => pr2[q].current # x[k]
      BY <1>2, <2>1 DEF HandToHand, QueuedOnce
    <3>3. x[k] + 1 # k0
      BY <1>3, <3>1
    <3> QED BY <3>1, <3>2, <3>3
  <2> QED BY <2>1 DEF HandToHand, QueuedOnce
<1>9. ASSUME deaths = 0 PROVE Believed(x, s2, pr2)
  <2>1. ASSUME NEW k \in 1 .. Len(s2), s2[k].stage = "UpstreamQueued"
        PROVE  \/ \E q \in Processes : pr2[q].at \in Holding /\ pr2[q].current + 1 = k
               \/ \E j \in 1 .. Len(x) : x[j] + 1 = k
    <3>1. CASE k = k0
      <4>1. p # Service
        BY <2>1, <3>1 DEF FirstStage
      <4>2. pr2[p].at \in Holding /\ pr2[p].current + 1 = k
        BY <3>1, <4>1 DEF Holding
      <4> QED BY <4>2
    <3>2. CASE k # k0
      <4>1. s[k].stage = "UpstreamQueued" /\ k \in 1 .. Len(s)
        BY <2>1, <3>2
      <4>2. CASE \E j \in 1 .. Len(x) : x[j] + 1 = k
        BY <4>2
      <4>3. CASE \E q \in Processes : pr[q].at \in Holding /\ pr[q].current + 1 = k
        <5>1. PICK q \in Processes : pr[q].at \in Holding /\ pr[q].current + 1 = k
          BY <4>3
        <5>2. q # p /\ pr2[q] = pr[q]
          BY <3>2, <5>1
        <5> QED BY <5>1, <5>2
      <4> QED BY <1>9, <4>1, <4>2, <4>3 DEF HandToHand, Believed
    <3> QED BY <3>1, <3>2
  <2> QED BY <2>1 DEF Believed
<1> QED BY <1>5, <1>6, <1>7, <1>8, <1>9 DEF HandToHand

\* try_push: the index joins the queue, the order leaves the cache, the call returns.
LEMMA EntriesPush ==
  ASSUME NEW pr, NEW pr2, NEW ca, NEW ca2, NEW n, NEW s, NEW x \in Seq(Nat), NEW p \in Clients,
         HandToHand(pr, ca, n, s, x), \A q \in Processes : pr[q].current \in Nat,
         pr[p].at = "push", pr2[p].at = "ready", \A q \in Processes \ {p} : pr2[q] = pr[q],
         ca2[p] = ca[p] \ {pr[p].id}, \A c \in Clients \ {p} : ca2[c] = ca[c]
  PROVE  HandToHand(pr2, ca2, n, s, Append(x, pr[p].current))
<1>0. PICK x2 : x2 = Append(x, pr[p].current)
  OBVIOUS
<1>1. p \in Processes /\ pr[p].at \in Holding /\ pr[p].at \in Calls /\ pr[p].current \in Nat
  BY DEF Holding, Calls, Processes
<1>2. /\ \A q \in Processes : pr2[q].at \in Calls => q # p /\ pr2[q] = pr[q]
      /\ \A q \in Processes : pr2[q].at \in Holding => q # p /\ pr2[q] = pr[q]
      /\ \A c \in Clients : c \in Processes /\ ca2[c] \subseteq ca[c]
  BY <1>1, CallFacts DEF Processes
<1>3. IdsInHand(pr2, ca2, n)
  BY <1>2 DEF HandToHand, IdsInHand
<1>4. IdsCached(ca2, n)
  BY <1>2 DEF HandToHand, IdsCached
<1>5. SlotsInHand(pr2, s)
  <2>1. SlotsInHand(pr, s)
    BY DEF HandToHand
  <2> QED BY ONLY <1>2, <2>1 DEF SlotsInHand
<1>6. IdsSpent(s, n, pr2, ca2)
  <2>1. ASSUME NEW k \in 1 .. Len(s), s[k].stage \in LiveStages
        PROVE  /\ \A q \in Processes : pr2[q].at \in Calls /\ pr2[q].id = s[k].id =>
                    pr2[q].at \in {"push", "mark"} /\ pr2[q].current + 1 = k
               /\ \A c \in Clients : s[k].id \in ca2[c] =>
                    pr2[c].at \in {"push", "mark"} /\ pr2[c].id = s[k].id
    <3>1. /\ \A q \in Processes : pr[q].at \in Calls /\ pr[q].id = s[k].id =>
               pr[q].at \in {"push", "mark"} /\ pr[q].current + 1 = k
          /\ \A c \in Clients : s[k].id \in ca[c] =>
               pr[c].at \in {"push", "mark"} /\ pr[c].id = s[k].id
      BY <2>1 DEF HandToHand, IdsSpent
    <3>2. ASSUME NEW c \in Clients, s[k].id \in ca2[c] PROVE c # p
      BY <1>2, <3>1, <3>2
    <3> QED BY <1>2, <3>1, <3>2
  <2> QED BY <2>1 DEF HandToHand, IdsSpent
<1>7. /\ Len(x2) = Len(x) + 1 /\ Len(x) \in Nat /\ x2[Len(x) + 1] = pr[p].current
      /\ \A k \in 1 .. Len(x) : x2[k] = x[k] /\ k \in 1 .. Len(x2)
      /\ \A k \in 1 .. Len(x2) : k \in 1 .. Len(x) \/ k = Len(x) + 1
      /\ Len(x) + 1 \in 1 .. Len(x2)
  BY <1>0, <1>1
<1>8. QueuedOnce(x2, s, pr2)
  <2>1. \A k \in 1 .. Len(x) : x[k] # pr[p].current
    BY <1>1 DEF HandToHand, QueuedOnce
  <2>2. /\ pr[p].current + 1 \in 1 .. Len(s) /\ s[pr[p].current + 1].stage = "UpstreamQueued"
        /\ \A q \in Processes : pr2[q].at \in Holding => pr2[q].current # pr[p].current
    BY <1>1, <1>2 DEF HandToHand, SlotsInHand
  <2>3. \A j, k \in 1 .. Len(x2) : x2[j] = x2[k] => j = k
    BY <1>7, <2>1 DEF HandToHand, QueuedOnce
  <2>4. ASSUME NEW k \in 1 .. Len(x2)
        PROVE  /\ x2[k] + 1 \in 1 .. Len(s) /\ s[x2[k] + 1].stage = "UpstreamQueued"
               /\ \A q \in Processes : pr2[q].at \in Holding => pr2[q].current # x2[k]
    <3>1. CASE k = Len(x) + 1
      BY <1>7, <2>2, <3>1
    <3>2. CASE k \in 1 .. Len(x)
      <4>1. x2[k] = x[k]
        BY <1>7, <3>2
      <4> QED BY <1>2, <3>2, <4>1, SMTT(120) DEF HandToHand, QueuedOnce
    <3> QED BY <1>7, <3>1, <3>2
  <2> QED BY <2>3, <2>4 DEF QueuedOnce
<1>9. ASSUME deaths = 0 PROVE Believed(x2, s, pr2)
  <2>1. ASSUME NEW k \in 1 .. Len(s), s[k].stage = "UpstreamQueued"
        PROVE  \/ \E q \in Processes : pr2[q].at \in Holding /\ pr2[q].current + 1 = k
               \/ \E j \in 1 .. Len(x2) : x2[j] + 1 = k
    <3>1. CASE \E j \in 1 .. Len(x) : x[j] + 1 = k
      BY <1>7, <3>1
    <3>2. CASE \E q \in Processes : pr[q].at \in Holding /\ pr[q].current + 1 = k
      <4>1. PICK q \in Processes : pr[q].at \in Holding /\ pr[q].current + 1 = k
        BY <3>2
      <4>2. CASE q = p
        BY <1>7, <4>1, <4>2
      <4>3. CASE q # p
        BY <4>1, <4>3
      <4> QED BY <4>2, <4>3
    <3> QED BY <1>9, <2>1, <3>1, <3>2 DEF HandToHand, Believed
  <2> QED BY <2>1 DEF Believed
<1> QED BY <1>0, <1>3, <1>4, <1>5, <1>6, <1>8, <1>9 DEF HandToHand

\* The queue was full: the call goes on to mark its slot.
LEMMA EntriesPushFailed ==
  ASSUME NEW pr, NEW pr2, NEW ca, NEW n, NEW s, NEW x, NEW p \in Processes,
         HandToHand(pr, ca, n, s, x),
         pr[p].at = "push", pr2[p].at = "mark", pr2[p].id = pr[p].id, pr2[p].current = pr[p].current,
         \A q \in Processes \ {p} : pr2[q] = pr[q]
  PROVE  HandToHand(pr2, ca, n, s, x)
<1>1. /\ \A q \in Processes : pr2[q].id = pr[q].id \/ pr2[q] = pr[q]
      /\ \A q \in Processes : pr2[q].id = pr[q].id /\ pr2[q].current = pr[q].current
      /\ \A q \in Processes : pr2[q].at \in Calls <=> pr[q].at \in Calls
      /\ \A q \in Processes : pr2[q].at \in Holding <=> pr[q].at \in Holding
      /\ \A q \in Processes : pr2[q].at \in {"push", "mark"} <=> pr[q].at \in {"push", "mark"}
      /\ \A q \in Processes : pr2[q].at = "write" <=> pr[q].at = "write"
      /\ \A c \in Clients : c \in Processes
  BY DEF Calls, Holding, Processes
<1>2. IdsInHand(pr2, ca, n)
  BY <1>1 DEF HandToHand, IdsInHand
<1>3. SlotsInHand(pr2, s)
  BY <1>1 DEF HandToHand, SlotsInHand
<1>4. IdsSpent(s, n, pr2, ca)
  <2>1. IdsSpent(s, n, pr, ca)
    BY DEF HandToHand
  <2> QED BY ONLY <1>1, <2>1 DEF IdsSpent
<1>5. QueuedOnce(x, s, pr2)
  BY <1>1 DEF HandToHand, QueuedOnce
<1>6. deaths = 0 => Believed(x, s, pr2)
  BY <1>1 DEF HandToHand, Believed
<1> QED BY <1>2, <1>3, <1>4, <1>5, <1>6 DEF HandToHand

\* The slot is marked QueuePushFailed and the call returns.
LEMMA EntriesMark ==
  ASSUME NEW pr, NEW pr2, NEW ca, NEW n, NEW s, NEW s2, NEW x, NEW p \in Processes, NEW k0 \in Nat,
         HandToHand(pr, ca, n, s, x), \A q \in Processes : pr[q].current \in Nat,
         pr[p].at = "mark", k0 = pr[p].current + 1, x \in Seq(Nat),
         Len(s2) = Len(s), \A k \in 1 .. Len(s) : k # k0 => s2[k] = s[k],
         s2[k0].id = pr[p].id, s2[k0].stage = "QueuePushFailed",
         pr2[p].at = "ready", \A q \in Processes \ {p} : pr2[q] = pr[q]
  PROVE  HandToHand(pr2, ca, n, s2, x)
<1>1. pr[p].at \in Holding /\ pr[p].at \in Calls
  BY DEF Holding, Calls
<1>2. /\ \A q \in Processes : pr2[q].at \in Calls => q # p /\ pr2[q] = pr[q] /\ pr[q].at \in Calls
      /\ \A q \in Processes : pr2[q].at \in Holding => q # p /\ pr2[q] = pr[q]
      /\ \A c \in Clients : c \in Processes
  BY <1>1, CallFacts DEF Processes
<1>3. /\ k0 \in 1 .. Len(s) /\ s[k0].stage = "UpstreamQueued" /\ s[k0].id = pr[p].id
      /\ s[k0].stage \in LiveStages /\ "QueuePushFailed" \notin LiveStages
  BY <1>1 DEF HandToHand, SlotsInHand, LiveStages
<1>4. \A q \in Processes \ {p} : pr[q].at \in Holding => pr[q].current + 1 # k0
  BY <1>1 DEF HandToHand, SlotsInHand
<1>5. IdsInHand(pr2, ca, n)
  BY <1>2, ZenonT(120) DEF HandToHand, IdsInHand
<1>6. SlotsInHand(pr2, s2)
  <2>1. ASSUME NEW q \in Processes, pr2[q].at \in Holding
        PROVE  /\ pr2[q].current + 1 \in 1 .. Len(s2)
               /\ pr2[q].at = "write" => s2[pr2[q].current + 1].stage = "Empty"
               /\ pr2[q].at \in {"push", "mark"} =>
                    /\ q \in Clients
                    /\ s2[pr2[q].current + 1].id = pr2[q].id
                    /\ s2[pr2[q].current + 1].stage = "UpstreamQueued"
    <3>1. pr2[q] = pr[q] /\ pr[q].current + 1 # k0
      BY <1>2, <1>4, <2>1
    <3>2. pr[q].current + 1 \in 1 .. Len(s)
      BY <2>1, <3>1 DEF HandToHand, SlotsInHand
    <3>3. s2[pr[q].current + 1] = s[pr[q].current + 1]
      BY <3>1, <3>2
    <3> QED BY <2>1, <3>1, <3>2, <3>3 DEF HandToHand, SlotsInHand
  <2>2. \A q, t \in Processes :
          pr2[q].at \in Holding /\ pr2[t].at \in Holding /\ pr2[t].current = pr2[q].current => t = q
    BY <1>2 DEF HandToHand, SlotsInHand
  <2> QED BY <2>1, <2>2 DEF SlotsInHand
<1>7. IdsSpent(s2, n, pr2, ca)
  <2>1. \A k \in 1 .. Len(s2) : s2[k].stage \in LiveStages => k # k0 /\ s2[k] = s[k]
    BY <1>3
  <2>2. \A k \in 1 .. Len(s2) : s2[k].stage # "Empty" => s2[k].id < n
    BY <1>3 DEF HandToHand, IdsSpent
  <2>3. \A j, k \in 1 .. Len(s2) :
          s2[j].stage \in LiveStages /\ s2[k].stage \in LiveStages /\ s2[j].id = s2[k].id => j = k
    BY <2>1 DEF HandToHand, IdsSpent
  <2>4. ASSUME NEW k \in 1 .. Len(s2), s2[k].stage \in LiveStages
        PROVE  /\ \A q \in Processes : pr2[q].at \in Calls /\ pr2[q].id = s2[k].id =>
                    pr2[q].at \in {"push", "mark"} /\ pr2[q].current + 1 = k
               /\ \A c \in Clients : s2[k].id \in ca[c] =>
                    pr2[c].at \in {"push", "mark"} /\ pr2[c].id = s2[k].id
    <3>1. s2[k] = s[k] /\ s[k].stage \in LiveStages /\ k \in 1 .. Len(s) /\ k # k0
      BY <2>1, <2>4
    <3>2. /\ \A q \in Processes : pr[q].at \in Calls /\ pr[q].id = s[k].id =>
               pr[q].at \in {"push", "mark"} /\ pr[q].current + 1 = k
          /\ \A c \in Clients : s[k].id \in ca[c] =>
               pr[c].at \in {"push", "mark"} /\ pr[c].id = s[k].id
      BY <3>1 DEF HandToHand, IdsSpent
    <3>3. s[k].id # pr[p].id
      BY <1>3, <3>1 DEF HandToHand, IdsSpent
    <3> QED BY ONLY <1>2, <3>1, <3>2, <3>3, \A q \in Processes \ {p} : pr2[q] = pr[q]
  <2> QED BY <2>2, <2>3, <2>4 DEF IdsSpent
<1>8. QueuedOnce(x, s2, pr2)
  <2>1. ASSUME NEW k \in 1 .. Len(x)
        PROVE  /\ x[k] + 1 \in 1 .. Len(s2) /\ s2[x[k] + 1].stage = "UpstreamQueued"
               /\ \A q \in Processes : pr2[q].at \in Holding => pr2[q].current # x[k]
    <3>1. x[k] \in Nat /\ x[k] + 1 \in 1 .. Len(s) /\ s[x[k] + 1].stage = "UpstreamQueued"
      BY <2>1 DEF HandToHand, QueuedOnce
    <3>2. \A q \in Processes : pr2[q].at \in Holding => pr2[q].current # x[k]
      BY <1>2, <2>1, SMTT(120) DEF HandToHand, QueuedOnce
    <3>3. x[k] # pr[p].current
      BY <1>1, <2>1 DEF HandToHand, QueuedOnce
    <3>4. x[k] + 1 # k0
      BY <3>1, <3>3
    <3> QED BY <3>1, <3>2, <3>4
  <2> QED BY <2>1 DEF HandToHand, QueuedOnce
<1>9. ASSUME deaths = 0 PROVE Believed(x, s2, pr2)
  <2>1. ASSUME NEW k \in 1 .. Len(s2), s2[k].stage = "UpstreamQueued"
        PROVE  \/ \E q \in Processes : pr2[q].at \in Holding /\ pr2[q].current + 1 = k
               \/ \E j \in 1 .. Len(x) : x[j] + 1 = k
    <3>1. k # k0 /\ s[k].stage = "UpstreamQueued" /\ k \in 1 .. Len(s)
      BY <2>1
    <3>2. CASE \E j \in 1 .. Len(x) : x[j] + 1 = k
      BY <3>2
    <3>3. CASE \E q \in Processes : pr[q].at \in Holding /\ pr[q].current + 1 = k
      <4>1. PICK q \in Processes : pr[q].at \in Holding /\ pr[q].current + 1 = k
        BY <3>3
      <4>2. q # p /\ pr2[q] = pr[q]
        BY <3>1, <4>1
      <4> QED BY <4>1, <4>2
    <3> QED BY <1>9, <3>1, <3>2, <3>3 DEF HandToHand, Believed
  <2> QED BY <2>1 DEF Believed
<1> QED BY <1>5, <1>6, <1>7, <1>8, <1>9 DEF HandToHand

\* process_upstream_orders: the oldest index leaves the queue and its slot is marked.
LEMMA EntriesTake ==
  ASSUME NEW pr, NEW ca, NEW n, NEW s, NEW s2, NEW x \in Seq(Nat), NEW k0 \in Nat,
         HandToHand(pr, ca, n, s, x), \A q \in Processes : pr[q].current \in Nat,
         x # <<>>, k0 = Head(x) + 1,
         Len(s2) = Len(s), \A k \in 1 .. Len(s) : k # k0 => s2[k] = s[k],
         s2[k0].id = s[k0].id, s2[k0].stage = "UpstreamDequeued"
  PROVE  HandToHand(pr, ca, n, s2, Tail(x))
<1>0. PICK x2 : x2 = Tail(x)
  OBVIOUS
<1>1. /\ Len(x2) = Len(x) - 1 /\ Len(x) \in Nat /\ Len(x) >= 1 /\ 1 \in 1 .. Len(x) /\ x[1] = Head(x)
      /\ \A k \in 1 .. Len(x2) : x2[k] = x[k + 1] /\ k + 1 \in 1 .. Len(x) /\ k + 1 # 1
      /\ \A k \in 1 .. Len(x) : k # 1 => k - 1 \in 1 .. Len(x2) /\ x2[k - 1] = x[k]
  BY <1>0
<1>2. /\ k0 \in 1 .. Len(s) /\ s[k0].stage = "UpstreamQueued"
      /\ \A q \in Processes : pr[q].at \in Holding => pr[q].current # Head(x)
      /\ s[k0].stage \in LiveStages /\ s2[k0].stage \in LiveStages
  BY <1>1 DEF HandToHand, QueuedOnce, LiveStages
<1>3. /\ \A k \in 1 .. Len(s) : s2[k].id = s[k].id
      /\ \A k \in 1 .. Len(s) : s2[k].stage \in LiveStages <=> s[k].stage \in LiveStages
      /\ \A k \in 1 .. Len(s) : s2[k].stage = "Empty" <=> s[k].stage = "Empty"
  BY <1>2
<1>4. Head(x) \in Nat
  BY <1>1
<1>5. \A q \in Processes : pr[q].at \in Holding => pr[q].current + 1 # k0
  BY <1>2, <1>4
<1>6. SlotsInHand(pr, s2)
  <2>1. ASSUME NEW q \in Processes, pr[q].at \in Holding
        PROVE  pr[q].current + 1 \in 1 .. Len(s) /\ s2[pr[q].current + 1] = s[pr[q].current + 1]
    BY <1>5, <2>1 DEF HandToHand, SlotsInHand
  <2> QED BY <2>1 DEF HandToHand, SlotsInHand
<1>7. IdsSpent(s2, n, pr, ca)
  <2>1. IdsSpent(s, n, pr, ca) /\ Len(s2) = Len(s)
    BY DEF HandToHand
  <2> QED BY ONLY <1>3, <2>1 DEF IdsSpent
<1>8. QueuedOnce(x2, s2, pr)
  <2>1. ASSUME NEW k \in 1 .. Len(x2)
        PROVE  /\ x2[k] + 1 \in 1 .. Len(s2) /\ s2[x2[k] + 1].stage = "UpstreamQueued"
               /\ \A j \in 1 .. Len(x2) : x2[j] = x2[k] => j = k
               /\ \A q \in Processes : pr[q].at \in Holding => pr[q].current # x2[k]
    <3>1. k + 1 \in 1 .. Len(x) /\ k + 1 # 1 /\ x2[k] = x[k + 1] /\ x[k + 1] \in Nat
      BY <1>1, <2>1, SMTT(120)
    <3>2. /\ x[k + 1] + 1 \in 1 .. Len(s) /\ s[x[k + 1] + 1].stage = "UpstreamQueued"
          /\ \A j \in 1 .. Len(x) : x[j] = x[k + 1] => j = k + 1
          /\ \A q \in Processes : pr[q].at \in Holding => pr[q].current # x[k + 1]
      BY <3>1 DEF HandToHand, QueuedOnce
    <3>3. x[k + 1] # Head(x)
      BY <1>1, <3>1, <3>2
    <3>4. x[k + 1] + 1 # k0
      BY <1>4, <3>1, <3>3, SMTT(120)
    <3>5. \A j \in 1 .. Len(x2) : x2[j] = x2[k] => j = k
      BY <1>1, <2>1, <3>1, <3>2
    <3> QED BY <3>1, <3>2, <3>4, <3>5
  <2> QED BY <2>1 DEF QueuedOnce
<1>9. ASSUME deaths = 0 PROVE Believed(x2, s2, pr)
  <2>1. ASSUME NEW k \in 1 .. Len(s2), s2[k].stage = "UpstreamQueued"
        PROVE  \/ \E q \in Processes : pr[q].at \in Holding /\ pr[q].current + 1 = k
               \/ \E j \in 1 .. Len(x2) : x2[j] + 1 = k
    <3>1. k # k0 /\ s[k].stage = "UpstreamQueued" /\ k \in 1 .. Len(s)
      BY <2>1
    <3>2. CASE \E j \in 1 .. Len(x) : x[j] + 1 = k
      <4>1. PICK j \in 1 .. Len(x) : x[j] + 1 = k
        BY <3>2
      <4>2. j # 1
        BY <1>1, <3>1, <4>1
      <4> QED BY <1>1, <4>1, <4>2
    <3>3. CASE \E q \in Processes : pr[q].at \in Holding /\ pr[q].current + 1 = k
      BY <3>3
    <3> QED BY <1>9, <3>1, <3>2, <3>3 DEF HandToHand, Believed
  <2> QED BY <2>1 DEF Believed
<1> QED BY <1>0, <1>6, <1>7, <1>8, <1>9 DEF HandToHand

-----------------------------------------------------------------------------
(* The steps of the calls.                                                 *)

\* What a call does to the regions: no header, and slots and queue of the named ones only.
CallRegions ==
  /\ region' \in [Regions -> Region]
  /\ \A r \in Regions : region'[r].header = region[r].header
  /\ \A r \in Regions : r # named["orders"] => region'[r].slots = region[r].slots
  /\ \A r \in Regions : r # named["upstream"] => region'[r].queue = region[r].queue
  /\ region'[named["orders"]].counter = Len(region'[named["orders"]].slots)
  /\ \A r \in Regions : /\ Len(region'[r].queue) <= UpstreamBound
                        /\ Len(region'[r].slots) <= PoolCapacity

LEMMA RegionsKept ==
  ASSUME Inv, NEW p \in Processes, Active(p), named' = named, region' = region
  PROVE  CallRegions /\ PoolSlots' = PoolSlots /\ Queue' = Queue /\ NextId' = NextId
<1>1. PoolSlots' = PoolSlots /\ Queue' = Queue /\ NextId' = NextId
  BY DEF PoolSlots, Queue, NextId
<1>2. region'[named["orders"]].counter = Len(region'[named["orders"]].slots)
  BY ActiveFacts DEF PoolSlots
<1> QED BY <1>1, <1>2 DEF CallRegions, Inv, Typed, Bounded

LEMMA UpstreamWritten ==
  ASSUME Inv, NEW p \in Processes, Active(p), named' = named, NEW y \in Region,
         region' = [region EXCEPT ![named["upstream"]] = y],
         y.header = region[named["upstream"]].header, y.slots = region[named["upstream"]].slots,
         Len(y.queue) <= UpstreamBound
  PROVE  CallRegions /\ PoolSlots' = PoolSlots /\ Queue' = y.queue /\ NextId' = y.counter
<1>1. /\ named["upstream"] \in Regions /\ named["orders"] \in Regions
      /\ named["upstream"] # named["orders"] /\ region \in [Regions -> Region]
      /\ region[named["orders"]].counter = Len(region[named["orders"]].slots)
  BY ActiveFacts DEF PoolSlots, Inv, Typed
<1>2. /\ region'[named["upstream"]] = y /\ region'[named["orders"]] = region[named["orders"]]
      /\ \A r \in Regions : r # named["upstream"] => region'[r] = region[r]
  BY <1>1
<1>3. region' \in [Regions -> Region]
  BY <1>1
<1>4. \A r \in Regions : Len(region'[r].queue) <= UpstreamBound /\ Len(region'[r].slots) <= PoolCapacity
  BY <1>1, <1>2 DEF Inv, Bounded
<1>5. CallRegions
  BY <1>1, <1>2, <1>3, <1>4 DEF CallRegions
<1>6. PoolSlots' = PoolSlots /\ Queue' = y.queue /\ NextId' = y.counter
  BY <1>2 DEF PoolSlots, Queue, NextId
<1> QED BY <1>5, <1>6

LEMMA PoolWritten ==
  ASSUME Inv, NEW p \in Processes, Active(p), named' = named, NEW y \in Region,
         region' = [region EXCEPT ![named["orders"]] = y],
         y.header = region[named["orders"]].header, y.queue = region[named["orders"]].queue,
         y.counter = Len(y.slots), Len(y.slots) <= PoolCapacity
  PROVE  CallRegions /\ PoolSlots' = y.slots /\ Queue' = Queue /\ NextId' = NextId
<1>1. /\ named["upstream"] \in Regions /\ named["orders"] \in Regions
      /\ named["upstream"] # named["orders"] /\ region \in [Regions -> Region]
  BY ActiveFacts DEF Inv, Typed
<1>2. /\ region'[named["orders"]] = y /\ region'[named["upstream"]] = region[named["upstream"]]
      /\ \A r \in Regions : r # named["orders"] => region'[r] = region[r]
  BY <1>1
<1>3. region' \in [Regions -> Region]
  BY <1>1
<1>4. \A r \in Regions : Len(region'[r].queue) <= UpstreamBound /\ Len(region'[r].slots) <= PoolCapacity
  BY <1>1, <1>2 DEF Inv, Bounded
<1>5. CallRegions
  BY <1>1, <1>2, <1>3, <1>4 DEF CallRegions
<1>6. PoolSlots' = y.slots /\ Queue' = Queue /\ NextId' = NextId
  BY <1>2 DEF PoolSlots, Queue, NextId
<1> QED BY <1>5, <1>6

\* What remains to be shown of a step of a call.
LEMMA CallKeeps ==
  ASSUME Inv, NEW p \in Processes, Active(p), Active(p)', CallRegions,
         named' = named, held' = held, deaths' = deaths, proc' \in [Processes -> Process],
         \A q \in Processes \ {p} : proc'[q] = proc[q],
         cached' \in [Clients -> SUBSET (0 .. MaxIds)],
         \A c \in Clients : c # p => cached'[c] = cached[c],
         \A c \in Clients : Cardinality(cached'[c]) <= CacheBound,
         HandToHand(proc, cached, NextId, PoolSlots, Queue)
           => HandToHand(proc', cached', NextId', PoolSlots', Queue')
  PROVE  Inv'
<1>1. named["orders"] # 0 /\ named["upstream"] # 0
  BY ActiveFacts
<1>2. Typed'
  BY DEF Inv, Typed, CallRegions
<1>3. Bounded'
  BY DEF Bounded, CallRegions
<1>4. Memory'
  BY CallFrame DEF CallRegions
<1>5. HandToHand(proc, cached, NextId, PoolSlots, Queue)
  BY <1>1, EntriesOfNames DEF Inv
<1>6. HandToHand(proc', cached', NextId', PoolSlots', Queue')
  BY <1>5
<1>7. Entries'
  BY <1>1, <1>6 DEF Entries, HandToHand
<1> QED BY <1>2, <1>3, <1>4, <1>7 DEF Inv

LEMMA ReturnsTurns ==
  ASSUME Inv, NEW p \in Processes, Returns(p)
  PROVE  /\ proc' \in [Processes -> Process] /\ proc'[p].at = "ready" /\ Active(p)'
         /\ \A q \in Processes \ {p} : proc'[q] = proc[q]
<1> DEFINE y == [Nothing EXCEPT !.at = "ready"]
<1>1. y \in Process /\ y.at = "ready" /\ proc' = [proc EXCEPT ![p] = y]
  BY ReadyFacts DEF Returns
<1> HIDE DEF y
<1>2. /\ proc' \in [Processes -> Process] /\ proc'[p].at = "ready"
      /\ \A q \in Processes \ {p} : proc'[q] = proc[q]
  BY <1>1, ProcWritten DEF Inv
<1> QED BY <1>2 DEF Active

LEMMA EnqueueTurns ==
  ASSUME Inv, NEW p \in Processes, NEW id \in 0 .. MaxIds, Enqueue(p, id)
  PROVE  /\ proc' \in [Processes -> Process] /\ proc'[p].at = "load" /\ proc'[p].id = id /\ Active(p)'
         /\ \A q \in Processes \ {p} : proc'[q] = proc[q]
<1> DEFINE x == proc[p]
           z == [x EXCEPT !.at = "load"]
           y == [z EXCEPT !.id = id]
<1>1. x \in Process /\ proc' = [proc EXCEPT ![p] = y]
  BY DEF Inv, Typed, Enqueue
<1> HIDE DEF x
<1>2. z \in Process /\ z.at = "load"
  BY <1>1 DEF Process, Places, Calls
<1> HIDE DEF z
<1>3. y \in Process /\ y.at = "load" /\ y.id = id
  BY <1>2 DEF Process
<1> HIDE DEF y
<1>4. /\ proc' \in [Processes -> Process] /\ proc'[p].at = "load" /\ proc'[p].id = id
      /\ \A q \in Processes \ {p} : proc'[q] = proc[q]
  BY <1>1, <1>3, ProcWritten DEF Inv
<1> QED BY <1>4 DEF Active, Calls

\* The next id is a natural number, within the bound, and the region is otherwise left alone.
LEMMA IdTaken ==
  ASSUME Inv, NEW p \in Processes, Active(p), named' = named, Upstream(p).counter < MaxIds,
         region' = TakeId(p)
  PROVE  /\ CallRegions /\ PoolSlots' = PoolSlots /\ Queue' = Queue /\ NextId' = NextId + 1
         /\ Upstream(p).counter = NextId /\ NextId \in 0 .. MaxIds /\ NextId \in Nat
<1> DEFINE x == region[named["upstream"]]
           y == [x EXCEPT !.counter = @ + 1]
<1>1. held[p] = named /\ x \in Region /\ x = Upstream(p)
  BY ActiveFacts DEF Upstream
<1>2. region' = [region EXCEPT ![named["upstream"]] = y]
  BY <1>1 DEF TakeId
<1>3. Len(x.queue) <= UpstreamBound
  BY ActiveFacts DEF Inv, Bounded
<1>4. x.counter = NextId /\ Queue = x.queue
  BY DEF NextId, Queue
<1>5. /\ y \in Region /\ y.header = x.header /\ y.slots = x.slots /\ y.queue = x.queue
      /\ y.counter = x.counter + 1 /\ x.counter \in Nat
  <2> HIDE DEF x
  <2> QED BY <1>1, SMTT(120) DEF Region
<1> HIDE DEF y
<1>6. /\ CallRegions /\ PoolSlots' = PoolSlots /\ Queue' = y.queue /\ NextId' = y.counter
  BY <1>2, <1>3, <1>5, UpstreamWritten
<1>7. NextId \in 0 .. MaxIds
  BY <1>1, <1>4, <1>5, ConstantsAssumption
<1> QED BY <1>1, <1>4, <1>5, <1>6, <1>7

\* Numbers are naturals and caches are finite.
LEMMA CallTypes ==
  ASSUME Inv
  PROVE  /\ \A q \in Processes : proc[q].id \in Nat /\ proc[q].current \in Nat
         /\ \A q \in Processes : proc[q].id \in 0 .. MaxIds
         /\ \A c \in Clients : cached[c] \subseteq Nat /\ IsFiniteSet(cached[c])
         /\ \A c \in Clients : Cardinality(cached[c]) \in Nat /\ Cardinality(cached[c]) <= CacheBound
         /\ cached \in [Clients -> SUBSET (0 .. MaxIds)]
<1>1. MaxIds \in Nat
  BY ConstantsAssumption
<1>2. \A q \in Processes : proc[q].id \in 0 .. MaxIds /\ proc[q].current \in Nat
  BY DEF Inv, Typed, Process
<1>3. IsFiniteSet(0 .. MaxIds)
  BY <1>1, FS_Interval
<1>4. cached \in [Clients -> SUBSET (0 .. MaxIds)]
  BY DEF Inv, Typed
<1>5. \A c \in Clients : IsFiniteSet(cached[c])
  BY <1>3, <1>4, FS_Subset
<1>6. \A c \in Clients : Cardinality(cached[c]) \in Nat
  BY <1>5, FS_CardinalityType
<1> QED BY <1>1, <1>2, <1>4, <1>5, <1>6 DEF Inv, Bounded

LEMMA NewOrderStep ==
  ASSUME Inv, NEW c \in Clients, NewOrder(c)
  PROVE  Inv'
<1>1. /\ c \in Processes /\ proc[c].at = "ready" /\ Active(c) /\ Active(c)'
      /\ Cardinality(cached[c]) < CacheBound
      /\ Upstream(c).counter < MaxIds /\ region' = TakeId(c)
      /\ named' = named /\ proc' = proc /\ held' = held /\ deaths' = deaths
  BY DEF NewOrder, Processes, Active
<1>2. /\ CallRegions /\ PoolSlots' = PoolSlots /\ Queue' = Queue /\ NextId' = NextId + 1
      /\ Upstream(c).counter = NextId /\ NextId \in 0 .. MaxIds /\ NextId \in Nat
  BY <1>1, IdTaken
<1>3. PICK good \in BOOLEAN : cached' = [cached EXCEPT ![c] = IF good THEN @ \cup {NextId} ELSE @]
  BY <1>2 DEF NewOrder
<1>4. /\ cached'[c] = cached[c] \/ cached'[c] = cached[c] \cup {NextId}
      /\ \A d \in Clients \ {c} : cached'[d] = cached[d]
  BY <1>3, CallTypes
<1>5. cached' \in [Clients -> SUBSET (0 .. MaxIds)]
  <2>1. CASE good
    BY <1>2, <1>3, <2>1, CallTypes
  <2>2. CASE ~ good
    BY <1>3, <2>2, CallTypes
  <2> QED BY <2>1, <2>2
<1>6. ASSUME NEW d \in Clients PROVE Cardinality(cached'[d]) <= CacheBound
  <2>1. CASE cached'[d] = cached[d]
    BY <2>1, CallTypes
  <2>2. CASE d = c /\ cached'[c] = cached[c] \cup {NextId}
    <3>1. /\ IsFiniteSet(cached[c]) /\ Cardinality(cached[c]) \in Nat /\ CacheBound \in Nat
      BY CallTypes, ConstantsAssumption
    <3>2. Cardinality(cached[c] \cup {NextId}) = Cardinality(cached[c])
            \/ Cardinality(cached[c] \cup {NextId}) = Cardinality(cached[c]) + 1
      BY <3>1, FS_AddElement
    <3> QED BY <1>1, <2>2, <3>1, <3>2
  <2> QED BY <1>4, <2>1, <2>2
<1>7. ASSUME HandToHand(proc, cached, NextId, PoolSlots, Queue)
      PROVE  HandToHand(proc', cached', NextId', PoolSlots', Queue')
  <2>1. \A k \in 1 .. Len(PoolSlots) : PoolSlots[k].id \in Nat
    <3>1. PoolSlots \in Seq(SlotRecord)
      BY <1>1, ActiveFacts
    <3>2. \A k \in 1 .. Len(PoolSlots) : PoolSlots[k] \in SlotRecord
      BY <3>1
    <3> QED BY <3>2, ConstantsAssumption DEF SlotRecord
  <2>2. HandToHand(proc, cached', NextId + 1, PoolSlots, Queue)
    BY <1>1, <1>2, <1>4, <1>7, <2>1, CallTypes, EntriesNewOrder
  <2> QED BY <1>1, <1>2, <2>2 DEF HandToHand
<1>8. proc' \in [Processes -> Process]
  BY <1>1 DEF Inv, Typed
<1> QED BY <1>1, <1>2, <1>4, <1>5, <1>6, <1>7, <1>8, CallKeeps

LEMMA SendOrderStep ==
  ASSUME Inv, NEW c \in Clients, SendOrder(c)
  PROVE  Inv'
<1>1. /\ c \in Processes /\ proc[c].at = "ready" /\ Active(c)
      /\ named' = named /\ region' = region /\ held' = held /\ cached' = cached /\ deaths' = deaths
  BY DEF SendOrder, Processes, Active
<1>2. PICK id \in cached[c] : Enqueue(c, id)
  BY DEF SendOrder
<1>3. id \in 0 .. MaxIds /\ id \in Nat
  BY CallTypes
<1>4. /\ proc' \in [Processes -> Process] /\ proc'[c].at = "load" /\ proc'[c].id = id /\ Active(c)'
      /\ \A q \in Processes \ {c} : proc'[q] = proc[q]
  BY <1>1, <1>2, <1>3, EnqueueTurns
<1>5. CallRegions /\ PoolSlots' = PoolSlots /\ Queue' = Queue /\ NextId' = NextId /\ NextId \in Nat
  BY <1>1, RegionsKept, ActiveFacts
<1>6. ASSUME HandToHand(proc, cached, NextId, PoolSlots, Queue)
      PROVE  HandToHand(proc', cached, NextId, PoolSlots, Queue)
  <2>1. id < NextId /\ \A d \in Clients : id \in cached[d] => d = c
    BY <1>6 DEF HandToHand, IdsCached
  <2>2. proc[c].at \notin Calls /\ proc[c].at \notin {"push", "mark"}
    BY <1>1 DEF Calls
  <2>3. \A q \in Processes : proc[q].at \in Calls => proc[q].id # id
    BY <1>2, <1>6, <2>2 DEF HandToHand, IdsInHand
  <2>4. \A k \in 1 .. Len(PoolSlots) : PoolSlots[k].stage \in LiveStages => PoolSlots[k].id # id
    BY <1>2, <1>6, <2>2 DEF HandToHand, IdsSpent
  <2> QED BY <1>1, <1>3, <1>4, <1>5, <1>6, <2>1, <2>3, <2>4, EntriesEnqueue
<1>7. /\ \A d \in Clients : Cardinality(cached'[d]) <= CacheBound
      /\ cached' \in [Clients -> SUBSET (0 .. MaxIds)]
  BY <1>1, CallTypes
<1>8. HandToHand(proc, cached, NextId, PoolSlots, Queue)
        => HandToHand(proc', cached', NextId', PoolSlots', Queue')
  BY <1>1, <1>5, <1>6
<1> QED BY <1>1, <1>4, <1>5, <1>7, <1>8, CallKeeps

LEMMA SubmitStep ==
  ASSUME Inv, NEW p \in Processes, Submit(p)
  PROVE  Inv'
<1>1. /\ proc[p].at = "ready" /\ Active(p) /\ Upstream(p).counter < MaxIds /\ region' = TakeId(p)
      /\ named' = named /\ held' = held /\ cached' = cached /\ deaths' = deaths
  BY DEF Submit, Active
<1>2. /\ CallRegions /\ PoolSlots' = PoolSlots /\ Queue' = Queue /\ NextId' = NextId + 1
      /\ Upstream(p).counter = NextId /\ NextId \in 0 .. MaxIds /\ NextId \in Nat
  BY <1>1, IdTaken
<1>3. PICK n : n = NextId /\ n \in Nat
  BY <1>2
<1>4. /\ proc' \in [Processes -> Process] /\ proc'[p].at = "load" /\ proc'[p].id = n /\ Active(p)'
      /\ \A q \in Processes \ {p} : proc'[q] = proc[q]
  <2>1. n \in 0 .. MaxIds /\ Enqueue(p, n)
    BY <1>2, <1>3 DEF Submit
  <2> QED BY <2>1, EnqueueTurns
<1>5. ASSUME HandToHand(proc, cached, n, PoolSlots, Queue)
      PROVE  HandToHand(proc', cached, n + 1, PoolSlots, Queue)
  <2>1. /\ \A k \in 1 .. Len(PoolSlots) : PoolSlots[k].id \in Nat
    <3>1. PoolSlots \in Seq(SlotRecord)
      BY <1>1, ActiveFacts
    <3>2. \A k \in 1 .. Len(PoolSlots) : PoolSlots[k] \in SlotRecord
      BY <3>1
    <3> QED BY <3>2, ConstantsAssumption DEF SlotRecord
  <2>2. HandToHand(proc, cached, n + 1, PoolSlots, Queue)
    <3>1. IdsInHand(proc, cached, n + 1)
      BY <1>3, <1>5, CallTypes DEF HandToHand, IdsInHand
    <3>2. IdsCached(cached, n + 1)
      BY <1>3, <1>5, CallTypes DEF HandToHand, IdsCached
    <3>3. IdsSpent(PoolSlots, n + 1, proc, cached)
      <4>1. IdsSpent(PoolSlots, n, proc, cached)
        BY <1>5 DEF HandToHand
      <4>2. \A m \in Nat : m < n => m < n + 1
        BY <1>3
      <4> QED BY ONLY <2>1, <4>1, <4>2 DEF IdsSpent
    <3> QED BY <1>5, <3>1, <3>2, <3>3 DEF HandToHand
  <2>3. /\ \A q \in Processes : proc[q].at \in Calls => proc[q].id # n
        /\ \A d \in Clients : n \notin cached[d]
    BY <1>3, <1>5, CallTypes DEF HandToHand, IdsInHand, IdsCached
  <2>4. \A k \in 1 .. Len(PoolSlots) : PoolSlots[k].stage \in LiveStages => PoolSlots[k].id # n
    <3>1. "Empty" \notin LiveStages
      BY DEF LiveStages
    <3>2. \A k \in 1 .. Len(PoolSlots) : PoolSlots[k].stage # "Empty" => PoolSlots[k].id < n
      BY <1>5 DEF HandToHand, IdsSpent
    <3> QED BY <1>3, <2>1, <3>1, <3>2
  <2>5. PICK m : m = n + 1 /\ m \in Nat /\ n < m
    BY <1>3
  <2>6. HandToHand(proc, cached, m, PoolSlots, Queue)
    BY <2>2, <2>5
  <2>7. HandToHand(proc', cached, m, PoolSlots, Queue)
    BY <1>1, <1>4, <2>3, <2>4, <2>5, <2>6, EntriesEnqueue
  <2> QED BY <2>5, <2>7
<1>6. /\ \A d \in Clients : Cardinality(cached'[d]) <= CacheBound
      /\ cached' \in [Clients -> SUBSET (0 .. MaxIds)]
  BY <1>1, CallTypes
<1>7. HandToHand(proc, cached, NextId, PoolSlots, Queue)
        => HandToHand(proc', cached', NextId', PoolSlots', Queue')
  BY <1>1, <1>2, <1>3, <1>5
<1> QED BY <1>1, <1>2, <1>4, <1>6, <1>7, CallKeeps

\* A step of a call that changes the process only, and neither takes a slot nor has one.
LEMMA EmptyHandedStep ==
  ASSUME Inv, NEW p \in Processes, proc[p].at \in Calls \ Holding,
         named' = named, region' = region, held' = held, cached' = cached, deaths' = deaths,
         proc' \in [Processes -> Process], Active(p)', proc'[p].at \notin Holding,
         proc'[p].at \in Calls => proc'[p].id = proc[p].id,
         \A q \in Processes \ {p} : proc'[q] = proc[q]
  PROVE  Inv'
<1>1. Active(p)
  BY DEF Active
<1>2. CallRegions /\ PoolSlots' = PoolSlots /\ Queue' = Queue /\ NextId' = NextId
  BY <1>1, RegionsKept
<1>3. /\ \A d \in Clients : Cardinality(cached'[d]) <= CacheBound
      /\ cached' \in [Clients -> SUBSET (0 .. MaxIds)]
  BY CallTypes
<1>4. HandToHand(proc, cached, NextId, PoolSlots, Queue)
        => HandToHand(proc', cached, NextId, PoolSlots, Queue)
  BY EntriesEmptyHanded
<1>5. HandToHand(proc, cached, NextId, PoolSlots, Queue)
        => HandToHand(proc', cached', NextId', PoolSlots', Queue')
  BY <1>2, <1>4
<1> QED BY <1>1, <1>2, <1>3, <1>5, CallKeeps

LEMMA LoadNextIndexStep ==
  ASSUME Inv, NEW p \in Processes, LoadNextIndex(p)
  PROVE  Inv'
<1> DEFINE x == proc[p]
           z == [x EXCEPT !.at = "allocate"]
           y == [z EXCEPT !.current = Pool(p).counter]
<1>1. /\ x.at = "load" /\ x \in Process /\ proc' = [proc EXCEPT ![p] = y]
      /\ named' = named /\ region' = region /\ held' = held /\ cached' = cached /\ deaths' = deaths
  BY DEF LoadNextIndex, Inv, Typed
<1>2. x.at \in Calls \ Holding /\ Active(p)
  BY <1>1 DEF Calls, Holding, Active
<1>3. Pool(p).counter \in Nat
  BY <1>2, ActiveFacts DEF Pool
<1> HIDE DEF x
<1>4. z \in Process /\ z.at = "allocate" /\ z.id = x.id
  BY <1>1 DEF Process, Places, Calls
<1> HIDE DEF z
<1>5. y \in Process /\ y.at = "allocate" /\ y.id = x.id
  BY <1>3, <1>4 DEF Process
<1> HIDE DEF y
<1>6. /\ proc' \in [Processes -> Process] /\ proc'[p].at = "allocate" /\ proc'[p].id = proc[p].id
      /\ \A q \in Processes \ {p} : proc'[q] = proc[q]
  BY <1>1, <1>5, ProcWritten DEF Inv, x
<1>7. Active(p)' /\ proc'[p].at \notin Holding
  BY <1>6 DEF Active, Calls, Holding
<1> QED BY <1>1, <1>2, <1>6, <1>7, EmptyHandedStep DEF x

LEMMA AllocateStep ==
  ASSUME Inv, NEW p \in Processes, Allocate(p)
  PROVE  Inv'
<1>1. /\ proc[p].at = "allocate" /\ proc[p].at \in Calls \ Holding /\ Active(p)
      /\ named' = named /\ held' = held /\ cached' = cached /\ deaths' = deaths
  BY DEF Allocate, Calls, Holding, Active
<1>2. /\ held[p] = named /\ PoolSlots \in Seq(SlotRecord) /\ Queue \in Seq(Nat) /\ NextId \in Nat
      /\ region[named["orders"]].counter = Len(PoolSlots) /\ region[named["orders"]] \in Region
      /\ Pool(p) = region[named["orders"]]
  BY <1>1, ActiveFacts DEF Pool
<1>3. CASE Returns(p) /\ UNCHANGED region
  <2>1. "ready" \notin Holding /\ "ready" \notin Calls
    BY DEF Holding, Calls
  <2> QED BY <1>1, <1>3, <2>1, ReturnsTurns, EmptyHandedStep
<1>4. CASE proc' = [proc EXCEPT ![p].current = Pool(p).counter] /\ UNCHANGED region
  <2> DEFINE x == proc[p]
             y == [x EXCEPT !.current = Pool(p).counter]
  <2>0. Pool(p).counter \in Nat
    BY <1>2 DEF Region
  <2>1. x \in Process /\ x.at = "allocate" /\ proc' = [proc EXCEPT ![p] = y]
    BY <1>1, <1>4 DEF Inv, Typed
  <2> HIDE DEF x
  <2>2. y \in Process /\ y.at = "allocate" /\ y.id = x.id
    BY <2>0, <2>1 DEF Process
  <2> HIDE DEF y
  <2>3. /\ proc' \in [Processes -> Process] /\ proc'[p].at = "allocate" /\ proc'[p].id = proc[p].id
        /\ \A q \in Processes \ {p} : proc'[q] = proc[q]
    BY <2>1, <2>2, ProcWritten DEF Inv, x
  <2>4. Active(p)' /\ proc'[p].at \notin Holding
    BY <2>3 DEF Active, Calls, Holding
  <2> QED BY <1>1, <1>4, <2>3, <2>4, EmptyHandedStep
<1>5. CASE /\ proc[p].current < PoolCapacity /\ Pool(p).counter = proc[p].current
           /\ region' = [region EXCEPT
                           ![held[p]["orders"]].counter = @ + 1,
                           ![held[p]["orders"]].slots = Append(@, [id |-> 0, stage |-> "Empty"])]
           /\ Goto(p, "write")
  <2> DEFINE x == region[named["orders"]]
             e == [id |-> 0, stage |-> "Empty"]
             z == [x EXCEPT !.counter = @ + 1]
             y == [z EXCEPT !.slots = Append(@, e)]
  <2>1. region' = [region EXCEPT ![named["orders"]] = y]
    BY <1>2, <1>5
  <2>2. e \in SlotRecord
    BY ConstantsAssumption DEF SlotRecord, Stages
  <2>3. x \in Region /\ x.counter = Len(PoolSlots) /\ x.slots = PoolSlots
    BY <1>2 DEF PoolSlots
  <2> HIDE DEF x, e
  <2>4. /\ z \in Region /\ z.header = x.header /\ z.queue = x.queue /\ z.slots = x.slots
        /\ z.counter = x.counter + 1
    BY <2>3 DEF Region
  <2> HIDE DEF z
  <2>5. /\ y.header = z.header /\ y.queue = z.queue /\ y.slots = Append(z.slots, e)
        /\ y.counter = z.counter /\ y \in Region
    <3>1. Append(z.slots, e) \in Seq(SlotRecord)
      BY <1>2, <2>2, <2>3, <2>4, AppendProperties
    <3> QED BY <2>4, <3>1 DEF Region
  <2> HIDE DEF y
  <2>6. Len(y.slots) = Len(PoolSlots) + 1 /\ y.slots = Append(PoolSlots, e) /\ Len(PoolSlots) \in Nat
    BY <1>2, <2>2, <2>3, <2>4, <2>5, AppendProperties
  <2>7. y.counter = Len(y.slots) /\ Len(y.slots) <= PoolCapacity
    BY <1>2, <1>5, <2>3, <2>4, <2>5, <2>6, ConstantsAssumption
  <2>8. CallRegions /\ PoolSlots' = y.slots /\ Queue' = Queue /\ NextId' = NextId
    BY <1>1, <2>1, <2>4, <2>5, <2>7, PoolWritten DEF x
  <2>9. "write" \in Places
    BY DEF Places, Calls
  <2>10. /\ proc' \in [Processes -> Process] /\ proc'[p].at = "write" /\ proc'[p].id = proc[p].id
         /\ proc'[p].current = proc[p].current
         /\ \A q \in Processes \ {p} : proc'[q] = proc[q]
    BY <1>5, <2>9, GotoTurns DEF Inv
  <2>11. Active(p)'
    BY <2>10 DEF Active, Calls
  <2>12. /\ \A d \in Clients : Cardinality(cached'[d]) <= CacheBound
         /\ cached' \in [Clients -> SUBSET (0 .. MaxIds)]
    BY <1>1, CallTypes
  <2>13. /\ Len(PoolSlots') = Len(PoolSlots) + 1 /\ PoolSlots'[Len(PoolSlots) + 1].stage = "Empty"
         /\ \A k \in 1 .. Len(PoolSlots) : PoolSlots'[k] = PoolSlots[k]
    <3>1. e.stage = "Empty"
      BY DEF e
    <3>2. PoolSlots' = Append(PoolSlots, e)
      BY <2>6, <2>8
    <3> QED BY <1>2, <2>2, <3>1, <3>2, AppendProperties
  <2>14. proc'[p].current = Len(PoolSlots)
    BY <1>2, <1>5, <2>10
  <2>15. \A q \in Processes : proc[q].current \in Nat
    BY CallTypes
  <2>16. ASSUME HandToHand(proc, cached, NextId, PoolSlots, Queue)
         PROVE  HandToHand(proc', cached, NextId, PoolSlots', Queue)
    BY <1>1, <1>2, <2>6, <2>10, <2>13, <2>14, <2>15, <2>16, EntriesAllocate
  <2>17. HandToHand(proc, cached, NextId, PoolSlots, Queue)
           => HandToHand(proc', cached', NextId', PoolSlots', Queue')
    BY <1>1, <2>8, <2>16
  <2> QED BY <1>1, <2>8, <2>10, <2>11, <2>12, <2>17, CallKeeps
<1> QED BY <1>3, <1>4, <1>5 DEF Allocate

\* SetSlot writes the call's slot and nothing else.
LEMMA SetSlotFacts ==
  ASSUME Inv, NEW p \in Processes, proc[p].at \in Holding, named' = named,
         NEW y \in SlotRecord, SetSlot(p, y)
  PROVE  /\ CallRegions /\ Queue' = Queue /\ NextId' = NextId /\ Len(PoolSlots') = Len(PoolSlots)
         /\ proc[p].current + 1 \in Nat /\ PoolSlots'[proc[p].current + 1] = y
         /\ \A k \in 1 .. Len(PoolSlots) : k # proc[p].current + 1 => PoolSlots'[k] = PoolSlots[k]
<1>1. Active(p)
  BY DEF Active, Holding, Calls
<1>2. /\ held[p] = named /\ PoolSlots \in Seq(SlotRecord) /\ named["orders"] # 0 /\ named["upstream"] # 0
      /\ region[named["orders"]].counter = Len(PoolSlots) /\ region[named["orders"]] \in Region
      /\ named["orders"] \in Regions
  BY <1>1, ActiveFacts
<1> DEFINE k0 == proc[p].current + 1
           s2 == [PoolSlots EXCEPT ![k0] = y]
           x == region[named["orders"]]
           r == [x EXCEPT !.slots = s2]
<1>3. k0 \in Nat /\ k0 \in 1 .. Len(PoolSlots)
  BY CallTypes DEF Inv, Entries, SlotsInHand
<1>4. region' = [region EXCEPT ![named["orders"]] = r]
  BY <1>2 DEF SetSlot, PoolSlots
<1>5. x \in Region /\ x.counter = Len(PoolSlots) /\ Len(PoolSlots) <= PoolCapacity
  BY <1>2 DEF Inv, Bounded, PoolSlots
<1> HIDE DEF k0
<1>6. /\ s2 \in Seq(SlotRecord) /\ Len(s2) = Len(PoolSlots) /\ s2[k0] = y
      /\ \A k \in 1 .. Len(PoolSlots) : k # k0 => s2[k] = PoolSlots[k]
  BY <1>2, <1>3, SlotWritten
<1> HIDE DEF s2, x
<1>7. r \in Region /\ r.header = x.header /\ r.queue = x.queue /\ r.counter = x.counter /\ r.slots = s2
  BY <1>5, <1>6 DEF Region
<1> HIDE DEF r
<1>8. r.counter = Len(r.slots) /\ Len(r.slots) <= PoolCapacity
  BY <1>5, <1>6, <1>7
<1>9. CallRegions /\ PoolSlots' = s2 /\ Queue' = Queue /\ NextId' = NextId
  BY <1>1, <1>4, <1>7, <1>8, PoolWritten DEF x
<1> QED BY <1>3, <1>6, <1>9 DEF k0

LEMMA WriteSlotStep ==
  ASSUME Inv, NEW p \in Processes, WriteSlot(p)
  PROVE  Inv'
<1> DEFINE y == [id |-> proc[p].id, stage |-> FirstStage(p)]
<1>1. /\ proc[p].at = "write" /\ proc[p].at \in Holding /\ Active(p) /\ SetSlot(p, y)
      /\ named' = named /\ held' = held /\ cached' = cached /\ deaths' = deaths
  BY DEF WriteSlot, Calls, Holding, Active
<1>2. y \in SlotRecord /\ y.id = proc[p].id /\ y.stage = FirstStage(p)
  BY CallTypes DEF SlotRecord, Stages, FirstStage
<1> HIDE DEF y
<1>3. /\ CallRegions /\ Queue' = Queue /\ NextId' = NextId /\ Len(PoolSlots') = Len(PoolSlots)
      /\ proc[p].current + 1 \in Nat /\ PoolSlots'[proc[p].current + 1] = y
      /\ \A k \in 1 .. Len(PoolSlots) : k # proc[p].current + 1 => PoolSlots'[k] = PoolSlots[k]
  BY <1>1, <1>2, SetSlotFacts
<1>4. /\ proc' \in [Processes -> Process] /\ Active(p)'
      /\ p = Service => proc'[p].at = "ready"
      /\ p # Service => proc'[p].at = "push" /\ proc'[p].id = proc[p].id /\ proc'[p].current = proc[p].current
      /\ \A q \in Processes \ {p} : proc'[q] = proc[q]
  <2>1. CASE p = Service
    BY <2>1, ReturnsTurns DEF WriteSlot
  <2>2. CASE p # Service
    <3>1. Goto(p, "push") /\ "push" \in Places
      BY <2>2 DEF WriteSlot, Places, Calls
    <3>2. /\ proc' \in [Processes -> Process]
          /\ proc'[p].at = "push" /\ proc'[p].id = proc[p].id /\ proc'[p].current = proc[p].current
          /\ \A q \in Processes \ {p} : proc'[q] = proc[q]
      BY <3>1, GotoTurns DEF Inv
    <3>3. Active(p)'
      BY <3>2 DEF Active, Calls
    <3> QED BY <2>2, <3>2, <3>3
  <2> QED BY <2>1, <2>2
<1>5. /\ \A d \in Clients : Cardinality(cached'[d]) <= CacheBound
      /\ cached' \in [Clients -> SUBSET (0 .. MaxIds)]
  BY <1>1, CallTypes
<1>6. Queue \in Seq(Nat)
  BY <1>1, ActiveFacts
<1>7. PICK k0 \in Nat : k0 = proc[p].current + 1
  BY <1>3
<1>8. /\ PoolSlots'[k0].id = proc[p].id /\ PoolSlots'[k0].stage = FirstStage(p)
      /\ \A k \in 1 .. Len(PoolSlots) : k # k0 => PoolSlots'[k] = PoolSlots[k]
  BY <1>2, <1>3, <1>7
<1>9. ASSUME HandToHand(proc, cached, NextId, PoolSlots, Queue)
      PROVE  HandToHand(proc', cached, NextId, PoolSlots', Queue)
  <2>1. \A q \in Processes : proc[q].current \in Nat
    BY CallTypes
  <2> QED BY <1>1, <1>3, <1>4, <1>6, <1>7, <1>8, <1>9, <2>1, EntriesWrite
<1>10. HandToHand(proc, cached, NextId, PoolSlots, Queue)
         => HandToHand(proc', cached', NextId', PoolSlots', Queue')
  BY <1>1, <1>3, <1>9
<1> QED BY <1>1, <1>3, <1>4, <1>5, <1>10, CallKeeps

LEMMA MarkFailedStep ==
  ASSUME Inv, NEW p \in Clients, MarkFailed(p)
  PROVE  Inv'
<1> DEFINE y == [id |-> proc[p].id, stage |-> "QueuePushFailed"]
<1>0. p \in Processes
  BY DEF Processes
<1>1. /\ proc[p].at = "mark" /\ proc[p].at \in Holding /\ Active(p) /\ SetSlot(p, y) /\ Returns(p)
      /\ named' = named /\ held' = held /\ cached' = cached /\ deaths' = deaths
  BY DEF MarkFailed, Calls, Holding, Active
<1>2. y \in SlotRecord /\ y.id = proc[p].id /\ y.stage = "QueuePushFailed"
  BY <1>0, CallTypes DEF SlotRecord, Stages
<1> HIDE DEF y
<1>3. /\ CallRegions /\ Queue' = Queue /\ NextId' = NextId /\ Len(PoolSlots') = Len(PoolSlots)
      /\ proc[p].current + 1 \in Nat /\ PoolSlots'[proc[p].current + 1] = y
      /\ \A k \in 1 .. Len(PoolSlots) : k # proc[p].current + 1 => PoolSlots'[k] = PoolSlots[k]
  BY <1>0, <1>1, <1>2, SetSlotFacts
<1>4. /\ proc' \in [Processes -> Process] /\ proc'[p].at = "ready" /\ Active(p)'
      /\ \A q \in Processes \ {p} : proc'[q] = proc[q]
  BY <1>0, <1>1, ReturnsTurns
<1>5. /\ \A d \in Clients : Cardinality(cached'[d]) <= CacheBound
      /\ cached' \in [Clients -> SUBSET (0 .. MaxIds)]
  BY <1>1, CallTypes
<1>6. Queue \in Seq(Nat)
  BY <1>0, <1>1, ActiveFacts
<1>7. PICK k0 \in Nat : k0 = proc[p].current + 1
  BY <1>3
<1>8. /\ PoolSlots'[k0].id = proc[p].id /\ PoolSlots'[k0].stage = "QueuePushFailed"
      /\ \A k \in 1 .. Len(PoolSlots) : k # k0 => PoolSlots'[k] = PoolSlots[k]
  BY <1>2, <1>3, <1>7
<1>9. ASSUME HandToHand(proc, cached, NextId, PoolSlots, Queue)
      PROVE  HandToHand(proc', cached, NextId, PoolSlots', Queue)
  <2>1. \A q \in Processes : proc[q].current \in Nat
    BY CallTypes
  <2> QED BY <1>0, <1>1, <1>3, <1>4, <1>6, <1>7, <1>8, <1>9, <2>1, EntriesMark
<1>10. HandToHand(proc, cached, NextId, PoolSlots, Queue)
         => HandToHand(proc', cached', NextId', PoolSlots', Queue')
  BY <1>1, <1>3, <1>9
<1> QED BY <1>0, <1>1, <1>3, <1>4, <1>5, <1>10, CallKeeps

LEMMA PushStep ==
  ASSUME Inv, NEW p \in Clients, Push(p)
  PROVE  Inv'
<1>1. /\ p \in Processes /\ proc[p].at = "push" /\ Active(p)
      /\ named' = named /\ held' = held /\ deaths' = deaths
  BY DEF Push, Calls, Active, Processes
<1>2. /\ held[p] = named /\ Queue \in Seq(Nat) /\ region[named["upstream"]] \in Region
      /\ Upstream(p) = region[named["upstream"]] /\ Upstream(p).queue = Queue
  BY <1>1, ActiveFacts DEF Upstream, Queue
<1>3. \A q \in Processes : proc[q].current \in Nat
  BY CallTypes
<1>4. CASE Goto(p, "mark") /\ UNCHANGED <<region, cached>>
  <2>1. "mark" \in Places
    BY DEF Places, Calls
  <2>2. /\ proc' \in [Processes -> Process]
        /\ proc'[p].at = "mark" /\ proc'[p].id = proc[p].id /\ proc'[p].current = proc[p].current
        /\ \A q \in Processes \ {p} : proc'[q] = proc[q]
    BY <1>1, <1>4, <2>1, GotoTurns DEF Inv
  <2>3. Active(p)'
    BY <2>2 DEF Active, Calls
  <2>4. CallRegions /\ PoolSlots' = PoolSlots /\ Queue' = Queue /\ NextId' = NextId
    BY <1>1, <1>4, RegionsKept
  <2>5. /\ \A d \in Clients : Cardinality(cached'[d]) <= CacheBound
        /\ cached' \in [Clients -> SUBSET (0 .. MaxIds)]
    BY <1>4, CallTypes
  <2>6. HandToHand(proc, cached, NextId, PoolSlots, Queue)
          => HandToHand(proc', cached, NextId, PoolSlots, Queue)
    BY <1>1, <2>2, EntriesPushFailed
  <2>7. HandToHand(proc, cached, NextId, PoolSlots, Queue)
          => HandToHand(proc', cached', NextId', PoolSlots', Queue')
    BY <1>4, <2>4, <2>6
  <2> QED BY <1>1, <1>4, <2>2, <2>3, <2>4, <2>5, <2>7, CallKeeps
<1>5. CASE /\ Len(Upstream(p).queue) < UpstreamBound
           /\ region' = [region EXCEPT ![held[p]["upstream"]].queue = Append(@, proc[p].current)]
           /\ cached' = [cached EXCEPT ![p] = CacheAfter(p)]
           /\ Returns(p)
  <2> DEFINE x == region[named["upstream"]]
             i == proc[p].current
             y == [x EXCEPT !.queue = Append(@, i)]
  <2>1. region' = [region EXCEPT ![named["upstream"]] = y]
    BY <1>2, <1>5
  <2>2. x \in Region /\ x.queue = Queue /\ x.counter = NextId /\ i \in Nat
    BY <1>1, <1>2, <1>3 DEF Queue, NextId
  <2> HIDE DEF x, i
  <2>3. /\ Append(Queue, i) \in Seq(Nat) /\ Len(Append(Queue, i)) = Len(Queue) + 1 /\ Len(Queue) \in Nat
    BY <1>2, <2>2, AppendProperties
  <2>4. /\ y \in Region /\ y.header = x.header /\ y.slots = x.slots /\ y.counter = x.counter
        /\ y.queue = Append(Queue, i)
    BY <2>2, <2>3 DEF Region
  <2> HIDE DEF y
  <2>5. Len(y.queue) <= UpstreamBound
    BY <1>2, <1>5, <2>3, <2>4, ConstantsAssumption
  <2>6. CallRegions /\ PoolSlots' = PoolSlots /\ Queue' = y.queue /\ NextId' = y.counter
    BY <1>1, <2>1, <2>4, <2>5, UpstreamWritten DEF x
  <2>7. Queue' = Append(Queue, proc[p].current) /\ NextId' = NextId
    BY <2>2, <2>4, <2>6 DEF i
  <2>8. /\ proc' \in [Processes -> Process] /\ proc'[p].at = "ready" /\ Active(p)'
        /\ \A q \in Processes \ {p} : proc'[q] = proc[q]
    BY <1>1, <1>5, ReturnsTurns
  <2>9. /\ cached'[p] = cached[p] \ {proc[p].id} /\ \A c \in Clients \ {p} : cached'[c] = cached[c]
        /\ cached' \in [Clients -> SUBSET (0 .. MaxIds)]
    BY <1>5, CallTypes DEF CacheAfter
  <2>10. ASSUME NEW c \in Clients PROVE Cardinality(cached'[c]) <= CacheBound
    <3>1. CASE c # p
      BY <2>9, <3>1, CallTypes
    <3>2. CASE c = p
      <4>1. IsFiniteSet(cached[p]) /\ Cardinality(cached[p]) \in Nat /\ Cardinality(cached[p]) <= CacheBound
        BY CallTypes
      <4>2. Cardinality(cached[p] \ {proc[p].id}) =
              IF proc[p].id \in cached[p] THEN Cardinality(cached[p]) - 1 ELSE Cardinality(cached[p])
        BY <4>1, FS_RemoveElement
      <4>3. CacheBound \in Nat
        BY ConstantsAssumption
      <4>4. Cardinality(cached'[c]) = Cardinality(cached[p]) - 1 \/ Cardinality(cached'[c]) = Cardinality(cached[p])
        BY <2>9, <3>2, <4>2
      <4> QED BY <4>1, <4>3, <4>4
    <3> QED BY <3>1, <3>2
  <2>11. HandToHand(proc, cached, NextId, PoolSlots, Queue)
           => HandToHand(proc', cached', NextId, PoolSlots, Append(Queue, proc[p].current))
    BY <1>1, <1>2, <1>3, <2>8, <2>9, EntriesPush, SMTT(120)
  <2>12. HandToHand(proc, cached, NextId, PoolSlots, Queue)
           => HandToHand(proc', cached', NextId', PoolSlots', Queue')
    BY <2>6, <2>7, <2>11
  <2> QED BY <1>1, <2>6, <2>8, <2>9, <2>10, <2>12, CallKeeps
<1> QED BY <1>4, <1>5 DEF Push

LEMMA TakeStep ==
  ASSUME Inv, Take
  PROVE  Inv'
<1> DEFINE p == Service
           u == named["upstream"]
           o == named["orders"]
<1>1. /\ p \in Processes /\ proc[p].at = "ready" /\ Active(p) /\ Active(p)'
      /\ named' = named /\ held' = held /\ deaths' = deaths /\ proc' = proc /\ cached' = cached
  BY DEF Take, Calls, Active, Processes
<1>2. /\ held[p] = named /\ PoolSlots \in Seq(SlotRecord) /\ Queue \in Seq(Nat) /\ NextId \in Nat
      /\ u \in Regions /\ o \in Regions /\ u # o /\ u # 0 /\ o # 0
      /\ region[o].counter = Len(PoolSlots) /\ region[o] \in Region /\ region[u] \in Region
      /\ Upstream(p).queue = Queue /\ Pool(p).slots = PoolSlots
  BY <1>1, ActiveFacts DEF Upstream, Queue, Pool, PoolSlots
<1>3. Queue # <<>>
  BY <1>2 DEF Take
<1>4. Head(Queue) \in Nat /\ Tail(Queue) \in Seq(Nat) /\ Len(Tail(Queue)) = Len(Queue) - 1
      /\ Len(Queue) \in Nat /\ 1 \in 1 .. Len(Queue) /\ Queue[1] = Head(Queue)
  BY <1>2, <1>3
<1>5. HandToHand(proc, cached, NextId, PoolSlots, Queue)
  BY <1>2, EntriesOfNames DEF Inv
<1>6. Head(Queue) + 1 \in 1 .. Len(PoolSlots)
  BY <1>4, <1>5 DEF HandToHand, QueuedOnce
<1>7. PICK k0 \in Nat : k0 = Head(Queue) + 1
  BY <1>4
<1> DEFINE x == region[o]
           z == region[u]
           e == [PoolSlots[k0] EXCEPT !.stage = "UpstreamDequeued"]
           s2 == [PoolSlots EXCEPT ![k0] = e]
           y == [x EXCEPT !.slots = s2]
           v == [z EXCEPT !.queue = Tail(@)]
<1>8. region' = [[region EXCEPT ![u] = v] EXCEPT ![o] = y]
  <2>1. Head(Queue) < Len(PoolSlots)
    BY <1>2, <1>4, <1>6
  <2>2. region' = [[region EXCEPT ![u].queue = Tail(@)]
                     EXCEPT ![o].slots[Head(Queue) + 1].stage = "UpstreamDequeued"]
    BY <1>2, <2>1 DEF Take
  <2>3. [region EXCEPT ![u].queue = Tail(@)][o] = region[o]
    BY <1>2 DEF Inv, Typed
  <2> QED BY <1>2, <1>7, <2>2, <2>3 DEF PoolSlots
<1>9. /\ x \in Region /\ z \in Region /\ x.slots = PoolSlots /\ z.queue = Queue
      /\ x.counter = Len(PoolSlots) /\ z.counter = NextId /\ PoolSlots[k0] \in SlotRecord
      /\ k0 \in 1 .. Len(PoolSlots)
  BY <1>2, <1>6, <1>7, SMTT(120) DEF PoolSlots, Queue, NextId
<1>10. e \in SlotRecord /\ e.id = PoolSlots[k0].id /\ e.stage = "UpstreamDequeued"
  BY <1>9 DEF SlotRecord, Stages
<1> HIDE DEF x, z, e
<1>11. /\ s2 \in Seq(SlotRecord) /\ Len(s2) = Len(PoolSlots) /\ s2[k0] = e
       /\ \A k \in 1 .. Len(PoolSlots) : k # k0 => s2[k] = PoolSlots[k]
  BY <1>2, <1>9, <1>10, SlotWritten
<1> HIDE DEF s2
<1>12. y \in Region /\ y.header = x.header /\ y.queue = x.queue /\ y.counter = x.counter /\ y.slots = s2
  BY <1>9, <1>11 DEF Region
<1>13. v \in Region /\ v.header = z.header /\ v.slots = z.slots /\ v.counter = z.counter /\ v.queue = Tail(Queue)
  BY <1>4, <1>9 DEF Region
<1> HIDE DEF y, v
<1>14. /\ region'[o] = y /\ region'[u] = v /\ \A r \in Regions \ {o, u} : region'[r] = region[r]
       /\ region' \in [Regions -> Region]
  BY <1>2, <1>8, <1>12, <1>13 DEF Inv, Typed
<1>15. PoolSlots' = s2 /\ Queue' = Tail(Queue) /\ NextId' = NextId
  BY <1>1, <1>9, <1>12, <1>13, <1>14 DEF PoolSlots, Queue, NextId
<1>16. CallRegions
  <2>1. \A r \in Regions : Len(region[r].queue) <= UpstreamBound /\ Len(region[r].slots) <= PoolCapacity
    BY DEF Inv, Bounded
  <2>2. Len(v.queue) <= UpstreamBound /\ Len(v.slots) <= PoolCapacity
    <3>1. Len(Queue) <= UpstreamBound /\ Len(z.slots) <= PoolCapacity
      BY <1>2, <2>1 DEF z, Queue
    <3>2. UpstreamBound \in Nat
      BY ConstantsAssumption
    <3> QED BY <1>4, <1>13, <3>1, <3>2
  <2>3. Len(y.queue) <= UpstreamBound /\ Len(y.slots) <= PoolCapacity
    BY <1>2, <1>9, <1>11, <1>12, <2>1 DEF x
  <2>4. \A r \in Regions : Len(region'[r].queue) <= UpstreamBound /\ Len(region'[r].slots) <= PoolCapacity
    BY <1>14, <2>1, <2>2, <2>3
  <2>5. \A r \in Regions : region'[r].header = region[r].header
    BY <1>12, <1>13, <1>14 DEF x, z
  <2>6. \A r \in Regions : r # o => region'[r].slots = region[r].slots
    BY <1>13, <1>14 DEF z
  <2>7. \A r \in Regions : r # u => region'[r].queue = region[r].queue
    BY <1>12, <1>14 DEF x
  <2>8. region'[o].counter = Len(region'[o].slots)
    BY <1>9, <1>11, <1>12, <1>14
  <2> QED BY <1>14, <2>4, <2>5, <2>6, <2>7, <2>8 DEF CallRegions
<1>17. HandToHand(proc, cached, NextId, PoolSlots', Tail(Queue))
  <2>1. \A q \in Processes : proc[q].current \in Nat
    BY CallTypes
  <2>2. /\ Len(PoolSlots') = Len(PoolSlots) /\ PoolSlots'[k0].id = PoolSlots[k0].id
        /\ PoolSlots'[k0].stage = "UpstreamDequeued"
        /\ \A k \in 1 .. Len(PoolSlots) : k # k0 => PoolSlots'[k] = PoolSlots[k]
    BY <1>10, <1>11, <1>15
  <2> QED BY <1>2, <1>3, <1>5, <1>7, <2>1, <2>2, EntriesTake
<1>18. HandToHand(proc', cached', NextId', PoolSlots', Queue')
  BY <1>1, <1>15, <1>17
<1>19. /\ \A d \in Clients : Cardinality(cached'[d]) <= CacheBound
       /\ cached' \in [Clients -> SUBSET (0 .. MaxIds)] /\ proc' \in [Processes -> Process]
  BY <1>1, CallTypes DEF Inv, Typed
<1> QED BY <1>1, <1>16, <1>18, <1>19, CallKeeps

-----------------------------------------------------------------------------
(* The theorems.                                                           *)

LEMMA LeftoverFacts ==
  ASSUME NEW x \in Leftovers
  PROVE  x \in Region /\ x.slots = <<>> /\ x.queue = <<>>
<1>1. CASE x = Blank
  BY <1>1, BlankFacts
<1>2. CASE \E h \in {"blank", "stale"} : x = [Blank EXCEPT !.header = h]
  <2>1. PICK h \in {"blank", "stale"} : x = [Blank EXCEPT !.header = h]
    BY <1>2
  <2>2. x = [header |-> h, counter |-> 0, slots |-> <<>>, queue |-> <<>>]
    BY <2>1 DEF Blank
  <2> QED BY <2>2 DEF Region
<1>3. CASE x = [Blank EXCEPT !.header = "ready", !.counter = 2]
  <2>1. x = [header |-> "ready", counter |-> 2, slots |-> <<>>, queue |-> <<>>]
    BY <1>3 DEF Blank
  <2> QED BY <2>1 DEF Region
<1> QED BY <1>1, <1>2, <1>3 DEF Leftovers

LEMMA InitInv ==
  ASSUME Init
  PROVE  Inv
<1>1. PICK u \in {0, 1}, o \in {0, 2} : named = [upstream |-> u, orders |-> o]
  BY DEF Init
<1>2. named["upstream"] = u /\ named["orders"] = o /\ named \in [Names -> 0 .. MaxRegions]
  <2>1. 0 \in 0 .. MaxRegions /\ 1 \in 0 .. MaxRegions /\ 2 \in 0 .. MaxRegions
    BY ConstantsAssumption
  <2>2. named = [n \in Names |-> IF n = "upstream" THEN u ELSE o]
    BY <1>1 DEF Names
  <2> QED BY <2>1, <2>2 DEF Names
<1>3. PICK a \in Leftovers, b \in Leftovers :
        /\ region = [r \in Regions |-> CASE r = 1 -> a
                                         [] r = 2 -> [b EXCEPT !.counter = 0]
                                         [] OTHER -> Blank]
  BY DEF Init
<1>4. [b EXCEPT !.counter = 0] \in Region /\ [b EXCEPT !.counter = 0].slots = <<>>
      /\ [b EXCEPT !.counter = 0].queue = <<>> /\ [b EXCEPT !.counter = 0].counter = 0
  BY LeftoverFacts DEF Region
<1>5. \A r \in Regions : region[r] \in Region /\ region[r].slots = <<>> /\ region[r].queue = <<>>
  BY <1>3, <1>4, LeftoverFacts, BlankFacts
<1>6. region \in [Regions -> Region]
  BY <1>3, <1>5
<1>7. /\ proc = [p \in Processes |-> Nothing] /\ held = [p \in Processes |-> [n \in Names |-> 0]]
      /\ cached = [c \in Clients |-> {}] /\ deaths = 0
  BY DEF Init
<1>8. Typed
  <2>1. proc \in [Processes -> Process]
    BY <1>7, NothingFacts
  <2>2. 0 \in 0 .. MaxRegions
    BY ConstantsAssumption
  <2>3. held \in [Processes -> [Names -> 0 .. MaxRegions]]
    BY <1>7, <2>2
  <2> QED BY <1>2, <1>6, <1>7, <2>1, <2>3 DEF Typed
<1>9. Bounded
  <2>1. Cardinality({}) = 0 /\ Len(<<>>) = 0
    BY FS_EmptySet
  <2>2. UpstreamBound \in Nat /\ PoolCapacity \in Nat /\ CacheBound \in Nat
    BY ConstantsAssumption
  <2> QED BY <1>5, <1>7, <2>1, <2>2 DEF Bounded
<1>10. \A p \in Processes : proc[p].at = "down"
  BY <1>7, NothingFacts
<1>11. \A p \in Processes : ~ Active(p) /\ proc[p].at \notin Opening /\ proc[p].at \notin Calls
  BY <1>10 DEF Active, Calls, Opening
<1>12. \A p \in Processes : OpensInStep(p)
  BY <1>7, <1>10, <1>11 DEF OpensInStep, Creating
<1>13. NamesDiffer
  BY <1>1, <1>2 DEF NamesDiffer
<1>14. PoolCounted
  <2>1. SUFFICES ASSUME Sound("orders") PROVE region[2].counter = Len(region[2].slots) /\ o = 2
    BY <1>2 DEF PoolCounted
  <2>2. o = 2
    BY <1>1, <1>2, <2>1 DEF Sound
  <2>3. 2 \in Regions
    BY ConstantsAssumption DEF Regions
  <2>4. region[2] = [b EXCEPT !.counter = 0]
    BY <1>3, <2>3
  <2> QED BY <1>4, <2>2, <2>4
<1>15. WorkIsNamed
  BY <1>5 DEF WorkIsNamed
<1>16. OneOpener
  BY <1>11 DEF OneOpener
<1>17. Memory
  BY <1>12, <1>13, <1>14, <1>15, <1>16 DEF Memory
<1>18. Entries
  <2>1. IdsInHand(proc, cached, NextId) /\ IdsCached(cached, NextId)
    BY <1>7, <1>11 DEF IdsInHand, IdsCached
  <2>2. \A p \in Processes : proc[p].at \notin Holding
    BY <1>10 DEF Holding
  <2>3. SlotsInHand(proc, PoolSlots)
    BY <2>2 DEF SlotsInHand
  <2>4. ASSUME named["orders"] # 0, named["upstream"] # 0
        PROVE  /\ IdsSpent(PoolSlots, NextId, proc, cached)
               /\ QueuedOnce(Queue, PoolSlots, proc)
               /\ Believed(Queue, PoolSlots, proc)
    <3>1. named["orders"] \in Regions /\ named["upstream"] \in Regions
      BY <1>8, <2>4, RegionOfName DEF Names
    <3>2. Len(PoolSlots) = 0 /\ Len(Queue) = 0
      BY <1>5, <3>1 DEF PoolSlots, Queue
    <3>3. \A k : k \notin 1 .. 0
      OBVIOUS
    <3> QED BY <3>2, <3>3 DEF IdsSpent, QueuedOnce, Believed
  <2> QED BY <2>1, <2>3, <2>4 DEF Entries
<1> QED BY <1>8, <1>9, <1>17, <1>18 DEF Inv

LEMMA StutterInv ==
  ASSUME Inv, UNCHANGED vars
  PROVE  Inv'
<1>1. UNCHANGED <<named, region, proc, held, cached, deaths>>
  BY DEF vars
<1>2. Typed' /\ Bounded'
  BY <1>1 DEF Inv, Typed, Bounded
<1>3. /\ \A n : Sound(n)' <=> Sound(n)
      /\ \A p \in Processes : Active(p)' <=> Active(p)
  BY <1>1 DEF Sound, Active
<1>4. Idle' <=> Idle
  BY <1>1, <1>3 DEF Idle
<1>5. \A p \in Processes : OpensInStep(p)'
  BY <1>1, <1>3, <1>4 DEF Inv, Memory, OpensInStep
<1>6. Memory'
  BY <1>1, <1>3, <1>5 DEF Inv, Memory, OneOpener, WorkIsNamed, NamesDiffer, PoolCounted
<1>7. NextId' = NextId /\ PoolSlots' = PoolSlots /\ Queue' = Queue
  BY <1>1 DEF NextId, PoolSlots, Queue
<1>8. Entries'
  BY <1>1, <1>7 DEF Inv, Entries
<1> QED BY <1>2, <1>6, <1>8 DEF Inv

LEMMA NextInv ==
  ASSUME SerialStart, Inv, [Next]_vars
  PROVE  Inv'
<1>1. CASE UNCHANGED vars
  BY <1>1, StutterInv
<1>2. ASSUME NEW p \in Processes, \E mode \in OpenModes : Start(p, mode) PROVE Inv'
  BY <1>2, StartStep
<1>3. ASSUME NEW p \in Processes, OpenStep(p) PROVE Inv'
  BY <1>3, CreateRegionStep, SizeRegionStep, MapNewStep, WriteMagicStep, FinishHeaderStep,
     AttachStep, OpenFailedStep DEF OpenStep
<1>4. ASSUME NEW p \in Processes, CallStep(p) PROVE Inv'
  BY <1>4, LoadNextIndexStep, AllocateStep, WriteSlotStep, PushStep, MarkFailedStep DEF CallStep
<1>5. ASSUME NEW c \in Clients, NewOrder(c) \/ SendOrder(c) PROVE Inv'
  BY <1>5, NewOrderStep, SendOrderStep
<1> QED BY <1>1, <1>2, <1>3, <1>4, <1>5, DieStep, SubmitStep, TakeStep DEF Next

LEMMA Invariance ==
  ASSUME SerialStart
  PROVE  Spec => []Inv
<1>1. Inv /\ [Next]_vars => Inv'
  BY NextInv
<1> QED BY InitInv, <1>1, PTL DEF Spec

LEMMA MemoryIsOne ==
  ASSUME Inv
  PROVE  OneMemory
<1>1. ASSUME NEW p \in Processes, proc[p].at \notin Opening \cup {"down"}
      PROVE  Active(p)
  <2>1. proc[p].at \in Places
    BY DEF Inv, Typed, Process
  <2> QED BY <1>1, <2>1 DEF Places, Active
<1> QED BY <1>1, ActiveFacts DEF OneMemory

\* A slot is one of the pool the name denotes, and then both names are sound.
LEMMA SlotsAreNamed ==
  ASSUME Inv, NEW s \in Slots
  PROVE  /\ s[1] = named["orders"] /\ s[2] \in 1 .. Len(PoolSlots) /\ Slot(s) = PoolSlots[s[2]]
         /\ HandToHand(proc, cached, NextId, PoolSlots, Queue)
         /\ PoolSlots \in Seq(SlotRecord) /\ named["upstream"] \in Regions
<1>1. PICK r \in Regions, k \in Nat : k \in 1 .. Len(region[r].slots) /\ s = <<r, k>>
  <2>1. PICK r \in Regions : s \in {<<r, k>> : k \in 1 .. Len(region[r].slots)}
    BY DEF Slots
  <2>2. Len(region[r].slots) \in Nat
    BY DEF Inv, Typed, Region
  <2> QED BY <2>1, <2>2
<1>2. region[r].slots # <<>>
  BY <1>1 DEF Inv, Typed, Region
<1>3. r = named["orders"] /\ Sound("upstream") /\ Sound("orders")
  BY <1>2 DEF Inv, Memory, WorkIsNamed
<1>4. named["orders"] # 0 /\ named["upstream"] # 0
  BY <1>3 DEF Sound
<1>5. HandToHand(proc, cached, NextId, PoolSlots, Queue)
  BY <1>4, EntriesOfNames DEF Inv
<1>6. PoolSlots \in Seq(SlotRecord)
  BY <1>1, <1>3 DEF Inv, Typed, Region, PoolSlots
<1>7. named["upstream"] \in Regions
  BY <1>4, RegionOfName DEF Inv, Names
<1> QED BY <1>1, <1>3, <1>5, <1>6, <1>7 DEF Slot, PoolSlots

LEMMA CountersHandOutOnce ==
  ASSUME Inv
  PROVE  IdsAndSlotsAreUnique
<1>1. ASSUME NEW p \in Processes, NEW q \in Processes, p # q,
             proc[p].at \in {"write", "push", "mark"}, proc[q].at \in {"write", "push", "mark"}
      PROVE  proc[p].current # proc[q].current /\ proc[p].id # proc[q].id
  <2>1. /\ proc[p].at \in Holding /\ proc[q].at \in Holding /\ proc[p].at \in Calls /\ proc[q].at \in Calls
    BY <1>1 DEF Holding, Calls
  <2>2. IdsInHand(proc, cached, NextId) /\ SlotsInHand(proc, PoolSlots)
    BY DEF Inv, Entries
  <2> QED BY <1>1, <2>1, <2>2 DEF IdsInHand, SlotsInHand
<1>2. ASSUME NEW s \in Slots, NEW t \in Slots, s # t,
             "Empty" \notin {Slot(s).stage, Slot(t).stage}, Slot(s).id = Slot(t).id
      PROVE  "QueuePushFailed" \in {Slot(s).stage, Slot(t).stage}
  <2>1. /\ s[1] = named["orders"] /\ s[2] \in 1 .. Len(PoolSlots) /\ Slot(s) = PoolSlots[s[2]]
        /\ t[1] = named["orders"] /\ t[2] \in 1 .. Len(PoolSlots) /\ Slot(t) = PoolSlots[t[2]]
        /\ IdsSpent(PoolSlots, NextId, proc, cached) /\ PoolSlots \in Seq(SlotRecord)
    BY SlotsAreNamed DEF HandToHand
  <2>2. s = <<s[1], s[2]>> /\ t = <<t[1], t[2]>>
    BY DEF Slots
  <2>3. s[2] # t[2]
    BY <1>2, <2>1, <2>2
  <2>4. Slot(s) \in SlotRecord /\ Slot(t) \in SlotRecord
    BY <2>1
  <2>5. /\ Slot(s).stage \in LiveStages \/ Slot(s).stage = "QueuePushFailed"
        /\ Slot(t).stage \in LiveStages \/ Slot(t).stage = "QueuePushFailed"
    BY <1>2, <2>4 DEF SlotRecord, Stages, LiveStages
  <2> QED BY <1>2, <2>1, <2>3, <2>5 DEF IdsSpent
<1> QED BY <1>1, <1>2 DEF IdsAndSlotsAreUnique

LEMMA TypesHold ==
  ASSUME Inv
  PROVE  TypeOK
<1>1. \A r \in Regions : /\ region[r] \in Region
                         /\ Len(region[r].queue) <= UpstreamBound /\ Len(region[r].slots) <= PoolCapacity
  BY DEF Inv, Typed, Bounded
<1>2. \A r \in Regions : /\ region[r].header \in {"unsized", "blank", "magic", "ready", "stale"}
                         /\ region[r].slots \in Seq(SlotRecord)
  BY <1>1 DEF Region
<1>3. \A r \in Regions : \A k \in 1 .. Len(region[r].slots) : region[r].slots[k] \in SlotRecord
  BY <1>2
<1>4. SlotRecord = [id : 0 .. MaxIds, stage : {"Empty", "UpstreamQueued", "UpstreamDequeued", "QueuePushFailed"}]
  BY DEF SlotRecord, Stages
<1>5. \A p \in Processes : proc[p].at \in Places
  BY DEF Inv, Typed, Process
<1>6. Places = Opening \cup {"down", "ready", "load", "allocate", "write", "push", "mark"}
  BY DEF Places, Calls
<1>7. /\ named \in [Names -> 0 .. MaxRegions] /\ held \in [Processes -> [Names -> 0 .. MaxRegions]]
      /\ \A c \in Clients : cached[c] \subseteq 0 .. MaxIds /\ Cardinality(cached[c]) <= CacheBound
  BY DEF Inv, Typed, Bounded
<1> QED BY <1>1, <1>2, <1>3, <1>4, <1>5, <1>6, <1>7 DEF TypeOK

LEMMA QueueNamesSlots ==
  ASSUME Inv
  PROVE  QueuedSlotsAreComplete
<1>1. SUFFICES ASSUME NEW r \in Regions, NEW k \in 1 .. Len(region[r].queue)
               PROVE  /\ <<named["orders"], region[r].queue[k] + 1>> \in Slots
                      /\ Slot(<<named["orders"], region[r].queue[k] + 1>>).stage = "UpstreamQueued"
                      /\ \A j \in 1 .. Len(region[r].queue) : region[r].queue[j] = region[r].queue[k] => j = k
  BY DEF QueuedSlotsAreComplete
<1>2. region[r].queue # <<>>
  BY <1>1 DEF Inv, Typed, Region
<1>3. r = named["upstream"] /\ Sound("upstream") /\ Sound("orders")
  BY <1>2 DEF Inv, Memory, WorkIsNamed
<1>4. named["orders"] # 0 /\ named["upstream"] # 0 /\ region[r].queue = Queue
  BY <1>3 DEF Sound, Queue
<1>5. QueuedOnce(Queue, PoolSlots, proc)
  BY <1>4 DEF Inv, Entries
<1>6. /\ Queue[k] + 1 \in 1 .. Len(PoolSlots) /\ PoolSlots[Queue[k] + 1].stage = "UpstreamQueued"
      /\ \A j \in 1 .. Len(Queue) : Queue[j] = Queue[k] => j = k
  BY <1>1, <1>4, <1>5 DEF QueuedOnce
<1>7. named["orders"] \in Regions
  BY <1>4, RegionOfName DEF Inv, Names
<1>8. <<named["orders"], Queue[k] + 1>> \in Slots
  BY <1>6, <1>7 DEF Slots, PoolSlots
<1> QED BY <1>4, <1>6, <1>8 DEF Slot, PoolSlots

LEMMA StagesAreBelieved ==
  ASSUME Inv
  PROVE  QueuedMeansInTheQueue
<1>1. SUFFICES ASSUME deaths = 0, NEW s \in Slots, Slot(s).stage = "UpstreamQueued"
               PROVE  InHand(s) \/ \E r \in Regions : Contains(region[r].queue, s[2] - 1)
  BY DEF QueuedMeansInTheQueue
<1>2. /\ s[1] = named["orders"] /\ s[2] \in 1 .. Len(PoolSlots) /\ Slot(s) = PoolSlots[s[2]]
      /\ Believed(Queue, PoolSlots, proc) /\ PoolSlots \in Seq(SlotRecord) /\ named["upstream"] \in Regions
  BY <1>1, SlotsAreNamed DEF HandToHand
<1>3. CASE \E p \in Processes : proc[p].at \in Holding /\ proc[p].current + 1 = s[2]
  <2>1. PICK p \in Processes : proc[p].at \in Holding /\ proc[p].current + 1 = s[2]
    BY <1>3
  <2>2. Active(p)
    BY <2>1 DEF Active, Holding, Calls
  <2>3. held[p]["orders"] = s[1]
    BY <1>2, <2>2, ActiveFacts
  <2> QED BY <2>1, <2>3 DEF InHand, Holding
<1>4. CASE \E j \in 1 .. Len(Queue) : Queue[j] + 1 = s[2]
  <2>1. PICK j \in 1 .. Len(Queue) : Queue[j] + 1 = s[2]
    BY <1>4
  <2>2. Queue \in Seq(Nat) /\ Queue = region[named["upstream"]].queue
    BY <1>2 DEF Inv, Typed, Region, Queue
  <2>3. Queue[j] \in Nat /\ Queue[j] + 1 = s[2]
    BY ONLY <2>1, <2>2, j \in 1 .. Len(Queue)
  <2>4. Queue[j] = s[2] - 1
    BY ONLY <2>3
  <2>5. Contains(region[named["upstream"]].queue, s[2] - 1)
    BY <2>1, <2>2, <2>4 DEF Contains
  <2> QED BY <1>2, <2>5
<1> QED BY <1>1, <1>2, <1>3, <1>4 DEF Believed

(* Clients and service work with the same two regions, whatever died in the  *)
(* middle of an open and whoever recreated a broken region (acct_init_ex),   *)
(* provided that processes are started one after another.                    *)
THEOREM MemoryIsShared ==
  ASSUME SerialStart
  PROVE  Spec => []OneMemory
BY Invariance, MemoryIsOne, PTL

(* fetch_add and the compare-and-swap of orders_shm_try_allocate hand out    *)
(* each id and each slot once, and a request that is tried again has one     *)
(* slot that is not marked QueuePushFailed.                                  *)
THEOREM CountersNeverRepeat ==
  ASSUME SerialStart
  PROVE  Spec => []IdsAndSlotsAreUnique
BY Invariance, CountersHandOutOnce, PTL

(* What enqueue_order puts into the queue names a complete slot, once, and   *)
(* the stage of a slot tells whether it is queued; queue, pool and caches    *)
(* keep to their capacities.                                                 *)
THEOREM QueueAndPoolAgree ==
  ASSUME SerialStart
  PROVE  Spec => []EntryInvariant
<1>1. Inv => EntryInvariant
  BY TypesHold, QueueNamesSlots, StagesAreBelieved DEF EntryInvariant
<1> QED BY <1>1, Invariance, PTL
=============================================================================
