----------------------------- MODULE OrderEntry -----------------------------
(***************************************************************************)
(* api/order_api.cpp and shm/shm_manager.cpp: how clients and the account    *)
(* service find the shared regions, and how a request gets from a client     *)
(* call into the upstream queue.                                             *)
(*                                                                         *)
(* A process opens "upstream" and then "orders" by name.  Creating a region  *)
(* takes several system calls and stores, and a process may die between any  *)
(* two of them.  After that, clients and service share two counters, the     *)
(* order ids and the slots of the pool, without a lock: an id is taken with  *)
(* fetch_add, a slot with a compare-and-swap loop.                           *)
(*                                                                         *)
(* Abstractions: a region is its header's progress, one counter, and its     *)
(* slots or its queue; a request is its id.  A push is one step: SpscQueue   *)
(* is the detail, and its single-producer contract is kept, so two clients   *)
(* interleave everywhere except inside try_push.  One trading day.           *)
(***************************************************************************)
EXTENDS Naturals, Sequences, FiniteSets, SequencesExt

CONSTANTS
  Clients,        \* processes that call the order API
  Service,        \* the account service
  OpenModes,      \* the modes init options and configuration may ask for
  PoolCapacity,   \* kDailyOrderPoolCapacity
  UpstreamBound,  \* kUpstreamOrderQueueCapacity - 1
  CacheBound,     \* kMaxCachedOrders
  SerialStart,    \* whether processes are started one after another
  MaxRegions,     \* bound: regions alive at once
  MaxIds,         \* bound: value of the id counter
  MaxDeaths       \* bound: processes that die or close their context

Names == {"upstream", "orders"}
Processes == Clients \cup {Service}
Regions == 1..MaxRegions

ASSUME ConstantsAssumption ==
  /\ Service \notin Clients
  /\ OpenModes \subseteq {"Open", "OpenOrCreate"}
  /\ SerialStart \in BOOLEAN
  /\ {PoolCapacity, UpstreamBound, CacheBound, MaxRegions, MaxIds, MaxDeaths} \subseteq Nat
  /\ MaxRegions >= 2

VARIABLES
  named,    \* the region a name denotes, 0 when there is none
  region,   \* the regions: header, counter, slots, queue
  proc,     \* each process: where it is, and the open or the call it is in
  held,     \* the regions each process has mapped
  cached,   \* cached_orders of each client context
  deaths    \* contexts lost so far

vars == <<named, region, proc, held, cached, deaths>>

Nothing == [at |-> "down", name |-> "upstream", mode |-> "Open", error |-> "None",
            id |-> 0, current |-> 0]

Blank == [header |-> "unsized", counter |-> 0, slots |-> <<>>, queue |-> <<>>]

(* What a process can find: nothing, a region of an earlier run of this or   *)
(* of an older build, or one whose creator died after ftruncate.             *)
Leftovers ==
  {Blank, [Blank EXCEPT !.header = "blank"], [Blank EXCEPT !.header = "stale"],
   [Blank EXCEPT !.header = "ready", !.counter = 2]}

Init ==
  /\ \E u \in {0, 1}, o \in {0, 2} : named = [upstream |-> u, orders |-> o]
  /\ \E u, o \in Leftovers :
       /\ named["upstream"] = 0 => u = Blank
       /\ named["orders"] = 0 => o = Blank
       /\ region = [r \in Regions |-> CASE r = 1 -> u
                                        [] r = 2 -> [o EXCEPT !.counter = 0]
                                        [] OTHER -> Blank]
  /\ proc = [p \in Processes |-> Nothing]
  /\ held = [p \in Processes |-> [n \in Names |-> 0]]
  /\ cached = [c \in Clients |-> {}]
  /\ deaths = 0

-----------------------------------------------------------------------------
(* Opening a region                                                         *)

Opening == {"open", "size", "map", "header", "finish", "attach", "failed"}

MayStep(p) ==
  SerialStart => \A q \in Processes \ {p} : proc[q].at \notin Opening

\* No name, no mapping and no creator's descriptor refers to it any more.
FreeRegions == {r \in Regions : /\ \A n \in Names : named[n] # r
                                /\ \A p \in Processes, n \in Names : held[p][n] # r
                                /\ \A p \in Processes : proc[p].at = "size" => proc[p].current # r}

Goto(p, at) == proc' = [proc EXCEPT ![p].at = at]

Fails(p, code) == proc' = [proc EXCEPT ![p].at = "failed", ![p].error = code]

(* acct_init_ex and init_shared_memory: upstream first.                      *)
Start(p, mode) ==
  /\ proc[p].at = "down"
  /\ MayStep(p)
  /\ proc' = [proc EXCEPT ![p] = [Nothing EXCEPT !.at = "open", !.mode = mode]]
  /\ UNCHANGED <<named, region, held, cached, deaths>>

(* open_impl: create_region with O_EXCL, unless the mode is Open.  It fails  *)
(* on an existing name, or for lack of descriptors or memory.                *)
CreateRegion(p) ==
  LET n == proc[p].name IN
  /\ proc[p].at = "open"
  /\ \/ /\ proc[p].mode # "Open"
        /\ named[n] = 0
        /\ FreeRegions # {}
        /\ \E r \in {CHOOSE x \in FreeRegions : \A y \in FreeRegions : x <= y} :
             /\ named' = [named EXCEPT ![n] = r]
             /\ region' = [region EXCEPT ![r] = Blank]
             /\ proc' = [proc EXCEPT ![p].at = "size", ![p].current = r]
     \/ /\ proc[p].mode = "Create" \/ (proc[p].mode = "OpenOrCreate" /\ named[n] = 0)
        /\ Fails(p, "ShmOpenFailed")
        /\ UNCHANGED <<named, region>>
     \/ /\ proc[p].mode = "Open" \/ (proc[p].mode = "OpenOrCreate" /\ named[n] # 0)
        /\ Goto(p, "attach")
        /\ UNCHANGED <<named, region>>
  /\ UNCHANGED <<held, cached, deaths>>

(* do_create_shm: ftruncate, and the creator's descriptor is closed; where   *)
(* it fails the name goes again.                                             *)
SizeRegion(p) ==
  /\ proc[p].at = "size"
  /\ \/ /\ region' = [region EXCEPT ![proc[p].current].header = "blank"]
        /\ Goto(p, "map")
        /\ UNCHANGED named
     \/ /\ named' = [named EXCEPT ![proc[p].name] = 0]
        /\ Fails(p, "ShmOpenFailed")
        /\ UNCHANGED region
  /\ UNCHANGED <<held, cached, deaths>>

(* The creator opens its region by name, like everybody else.                *)
MapNew(p) ==
  LET n == proc[p].name IN
  /\ proc[p].at = "map"
  /\ \/ /\ named[n] # 0
        /\ region[named[n]].header # "unsized"
        /\ held' = [held EXCEPT ![p][n] = named[n]]
        /\ Goto(p, "header")
        /\ UNCHANGED named
     \/ /\ Fails(p, IF named[n] # 0 /\ region[named[n]].header = "unsized"
                    THEN "ShmResizeFailed" ELSE "ShmOpenFailed")
        /\ named' = [named EXCEPT ![n] = 0]
        /\ UNCHANGED held
  /\ UNCHANGED <<region, cached, deaths>>

(* init_header and open_orders: magic and version first, ...                 *)
WriteMagic(p) ==
  LET r == held[p][proc[p].name] IN
  /\ proc[p].at = "header"
  /\ region' = [region EXCEPT ![r].header = "magic"]
  /\ Goto(p, "finish")
  /\ UNCHANGED <<named, held, cached, deaths>>

Opened(p) ==
  LET x == proc[p] IN
  proc' = [proc EXCEPT ![p] =
             IF x.name = "upstream"
             THEN [x EXCEPT !.at = "open", !.name = "orders", !.current = 0,
                            !.mode = IF x.mode = "Create" THEN "OpenOrCreate" ELSE x.mode]
             ELSE [Nothing EXCEPT !.at = "ready"]]

(* ... and the counter last, with the orders region's init_state.            *)
FinishHeader(p) ==
  LET n == proc[p].name
      r == held[p][n]
  IN
  /\ proc[p].at = "finish"
  /\ region' = [region EXCEPT ![r].header = "ready",
                              ![r].counter = IF n = "upstream" THEN 1 ELSE 0]
  /\ Opened(p)
  /\ UNCHANGED <<named, held, cached, deaths>>

(* validate_header looks at magic and version, open_orders at init_state too.*)
ValidHeaders(n) == IF n = "upstream" THEN {"magic", "ready"} ELSE {"ready"}

(* ShmGenericWriter::open on an existing name: shm_open, fstat, mmap; then   *)
(* the header is validated.  shm_open and mmap may also fail on a limit.     *)
Attach(p) ==
  LET n == proc[p].name
      r == named[n]
  IN
  /\ proc[p].at = "attach"
  /\ \/ /\ r # 0
        /\ region[r].header \in ValidHeaders(n)
        /\ held' = [held EXCEPT ![p][n] = r]
        /\ Opened(p)
     \/ /\ r # 0
        /\ region[r].header = "unsized"
        /\ Fails(p, "ShmResizeFailed")
        /\ UNCHANGED held
     \/ /\ r # 0
        /\ region[r].header \notin ValidHeaders(n) \cup {"unsized"}
        /\ Fails(p, "ShmHeaderInvalid")
        /\ UNCHANGED held
     \/ /\ Fails(p, "ShmOpenFailed")
        /\ UNCHANGED held
  /\ UNCHANGED <<named, region, cached, deaths>>

\* Mutant: every failed open recreates.
ShouldRecreateAlways(code) == code # "None"

(* should_recreate_shm_on_init_failure.                                      *)
ShouldRecreate(code) == code \in {"ShmResizeFailed", "ShmHeaderInvalid"}

(* acct_init_ex on a failed open: a client that may create unlinks the name  *)
(* and creates it, once; whether the unlink succeeds is not looked at.       *)
(* Otherwise the context is dropped.  The service has no second try.         *)
OpenFailed(p) ==
  LET n == proc[p].name IN
  /\ proc[p].at = "failed"
  /\ \/ /\ p \in Clients
        /\ proc[p].mode = "OpenOrCreate"
        /\ ShouldRecreate(proc[p].error)
        /\ named' \in {named, [named EXCEPT ![n] = 0]}
        /\ proc' = [proc EXCEPT ![p].at = "open", ![p].mode = "Create", ![p].error = "None"]
        /\ UNCHANGED held
     \/ /\ \/ p = Service
           \/ proc[p].mode # "OpenOrCreate"
           \/ ~ShouldRecreate(proc[p].error)
        /\ held' = [held EXCEPT ![p] = [k \in Names |-> 0]]
        /\ proc' = [proc EXCEPT ![p] = Nothing]
        /\ UNCHANGED named
  /\ UNCHANGED <<region, cached, deaths>>

OpenStep(p) ==
  \/ CreateRegion(p) \/ SizeRegion(p) \/ MapNew(p) \/ WriteMagic(p) \/ FinishHeader(p)
  \/ Attach(p) \/ OpenFailed(p)

(* acct_destroy, or the process dies: what it mapped stays, its cache goes.  *)
Die(p) ==
  /\ proc[p].at # "down"
  /\ deaths < MaxDeaths
  /\ deaths' = deaths + 1
  /\ proc' = [proc EXCEPT ![p] = Nothing]
  /\ held' = [held EXCEPT ![p] = [n \in Names |-> 0]]
  /\ cached' = IF p \in Clients THEN [cached EXCEPT ![p] = {}] ELSE cached
  /\ UNCHANGED <<named, region>>

-----------------------------------------------------------------------------
(* The calls                                                                *)

Upstream(p) == region[held[p]["upstream"]]
Pool(p) == region[held[p]["orders"]]

\* header.next_order_id.fetch_add(1).
TakeId(p) == [region EXCEPT ![held[p]["upstream"]].counter = @ + 1]

Returns(p) == proc' = [proc EXCEPT ![p] = [Nothing EXCEPT !.at = "ready"]]

\* enqueue_order begins, with the id in hand.
Enqueue(p, id) == proc' = [proc EXCEPT ![p].at = "load", ![p].id = id]

(* acct_new_order_ex: the id is taken before the request is built, and is    *)
(* gone when an argument is bad.  A full cache is refused before that.       *)
NewOrder(c) ==
  /\ proc[c].at = "ready"
  /\ Cardinality(cached[c]) < CacheBound
  /\ Upstream(c).counter < MaxIds
  /\ region' = TakeId(c)
  /\ \E good \in BOOLEAN :
       cached' = [cached EXCEPT ![c] = IF good THEN @ \cup {Upstream(c).counter} ELSE @]
  /\ UNCHANGED <<named, proc, held, deaths>>

(* acct_send_order: a cached order is enqueued and forgotten only if that    *)
(* succeeded, so that the caller may try again.                              *)
SendOrder(c) ==
  /\ proc[c].at = "ready"
  /\ \E id \in cached[c] : Enqueue(c, id)
  /\ UNCHANGED <<named, region, held, cached, deaths>>

(* acct_submit_order_ex and acct_cancel_order on a client, a request of its  *)
(* own (submit_internal_order) on the service.                               *)
Submit(p) ==
  /\ proc[p].at = "ready"
  /\ Upstream(p).counter < MaxIds
  /\ region' = TakeId(p)
  /\ Enqueue(p, Upstream(p).counter)
  /\ UNCHANGED <<named, held, cached, deaths>>

(* orders_shm_try_allocate: load next_index, ...                             *)
LoadNextIndex(p) ==
  /\ proc[p].at = "load"
  /\ proc' = [proc EXCEPT ![p].at = "allocate", ![p].current = Pool(p).counter]
  /\ UNCHANGED <<named, region, held, cached, deaths>>

\* Mutant: the swap stores without comparing.
AllocateWithoutCompare(p) ==
  /\ proc[p].at = "allocate"
  /\ IF proc[p].current >= PoolCapacity
     THEN Returns(p) /\ UNCHANGED region
     ELSE /\ region' = [region EXCEPT ![held[p]["orders"]] =
                          [@ EXCEPT !.counter = proc[p].current + 1,
                                    !.slots = IF Len(@) > proc[p].current THEN @
                                              ELSE Append(@, [id |-> 0, stage |-> "Empty"])]]
          /\ Goto(p, "write")
  /\ UNCHANGED <<named, held, cached, deaths>>

\* Mutant: a lost race does not reload the index.
AllocateStale(p) ==
  /\ proc[p].at = "allocate"
  /\ \/ proc[p].current >= PoolCapacity /\ Returns(p) /\ UNCHANGED region
     \/ /\ proc[p].current < PoolCapacity
        /\ Pool(p).counter = proc[p].current
        /\ region' = [region EXCEPT
                        ![held[p]["orders"]].counter = @ + 1,
                        ![held[p]["orders"]].slots = Append(@, [id |-> 0, stage |-> "Empty"])]
        /\ Goto(p, "write")
     \/ /\ proc[p].current < PoolCapacity
        /\ Pool(p).counter # proc[p].current
        /\ UNCHANGED <<proc, region>>
  /\ UNCHANGED <<named, held, cached, deaths>>

(* ... give up when the pool is full, or swap; a lost race has reloaded it   *)
(* (compare_exchange_weak failing without a race would only try again).      *)
Allocate(p) ==
  /\ proc[p].at = "allocate"
  /\ \/ /\ proc[p].current >= PoolCapacity
        /\ Returns(p)
        /\ UNCHANGED region
     \/ /\ proc[p].current < PoolCapacity
        /\ Pool(p).counter = proc[p].current
        /\ region' = [region EXCEPT
                        ![held[p]["orders"]].counter = @ + 1,
                        ![held[p]["orders"]].slots = Append(@, [id |-> 0, stage |-> "Empty"])]
        /\ Goto(p, "write")
     \/ /\ proc[p].current < PoolCapacity
        /\ Pool(p).counter # proc[p].current
        /\ proc' = [proc EXCEPT ![p].current = Pool(p).counter]
        /\ UNCHANGED region
  /\ UNCHANGED <<named, held, cached, deaths>>

(* The stage a new slot starts in: the router's own requests skip the queue. *)
FirstStage(p) == IF p = Service THEN "UpstreamDequeued" ELSE "UpstreamQueued"

SetSlot(p, slot) ==
  region' = [region EXCEPT ![held[p]["orders"]].slots[proc[p].current + 1] = slot]

(* orders_shm_write_order.  The router goes on to the downstream queue,      *)
(* which is EventLoop's matter.                                              *)
WriteSlot(p) ==
  /\ proc[p].at = "write"
  /\ SetSlot(p, [id |-> proc[p].id, stage |-> FirstStage(p)])
  /\ IF p = Service THEN Returns(p) ELSE Goto(p, "push")
  /\ UNCHANGED <<named, held, cached, deaths>>

\* Mutant: the order stays in the cache.
CacheKept(c) == cached[c]

\* acct_send_order erases the cached order when enqueue_order returned ACCT_OK.
CacheAfter(c) == cached[c] \ {proc[c].id}

(* enqueue_order: try_push, ...                                              *)
Push(c) ==
  /\ proc[c].at = "push"
  /\ \/ /\ Len(Upstream(c).queue) < UpstreamBound
        /\ region' = [region EXCEPT ![held[c]["upstream"]].queue = Append(@, proc[c].current)]
        /\ cached' = [cached EXCEPT ![c] = CacheAfter(c)]
        /\ Returns(c)
     \/ /\ Len(Upstream(c).queue) >= UpstreamBound
        /\ Goto(c, "mark")
        /\ UNCHANGED <<region, cached>>
  /\ UNCHANGED <<named, held, deaths>>

(* ... and a full queue leaves the slot behind, marked.                      *)
MarkFailed(c) ==
  /\ proc[c].at = "mark"
  /\ SetSlot(c, [id |-> proc[c].id, stage |-> "QueuePushFailed"])
  /\ Returns(c)
  /\ UNCHANGED <<named, held, cached, deaths>>

CallStep(p) ==
  LoadNextIndex(p) \/ Allocate(p) \/ WriteSlot(p) \/ (p \in Clients /\ (Push(p) \/ MarkFailed(p)))

(* process_upstream_orders: an index is popped and its slot marked.  Where   *)
(* the index names no slot, the pop is all that happens.                     *)
Take ==
  LET q == Upstream(Service).queue IN
  /\ proc[Service].at = "ready"
  /\ q # <<>>
  /\ region' =
       LET popped == [region EXCEPT ![held[Service]["upstream"]].queue = Tail(@)] IN
       IF Head(q) < Len(Pool(Service).slots)
       THEN [popped EXCEPT ![held[Service]["orders"]].slots[Head(q) + 1].stage = "UpstreamDequeued"]
       ELSE popped
  /\ UNCHANGED <<named, proc, held, cached, deaths>>

Next ==
  \/ \E p \in Processes :
       \/ \E mode \in OpenModes : Start(p, mode)
       \/ OpenStep(p) \/ Die(p) \/ Submit(p) \/ CallStep(p)
  \/ \E c \in Clients : NewOrder(c) \/ SendOrder(c)
  \/ Take

Spec == Init /\ [][Next]_vars

(* A process that is inside an open or a call goes on with it, and a ready   *)
(* service polls its queue; nobody need start, call or survive.              *)
FairSpec ==
  /\ Spec
  /\ \A p \in Processes : WF_vars(OpenStep(p)) /\ WF_vars(CallStep(p))
  /\ WF_vars(Take)

-----------------------------------------------------------------------------
(* Properties                                                               *)

Slots == UNION {{<<r, k>> : k \in 1..Len(region[r].slots)} : r \in Regions}
Slot(s) == region[s[1]].slots[s[2]]

\* A slot whose writer is between try_allocate and its answer.
InHand(s) ==
  \E p \in Processes : /\ proc[p].at \in {"write", "push", "mark"}
                       /\ held[p]["orders"] = s[1]
                       /\ proc[p].current + 1 = s[2]

(* Types: counters of pool, queue and cache stay within their capacity       *)
(* (orders_shm_try_allocate, try_push and acct_new_order_ex refuse first).   *)
TypeOK ==
  /\ named \in [Names -> 0..MaxRegions]
  /\ \A r \in Regions :
       /\ region[r].header \in {"unsized", "blank", "magic", "ready", "stale"}
       /\ Len(region[r].queue) <= UpstreamBound
       /\ Len(region[r].slots) <= PoolCapacity
       /\ \A k \in 1..Len(region[r].slots) :
            region[r].slots[k] \in [id : 0..MaxIds, stage : {"Empty", "UpstreamQueued",
                                    "UpstreamDequeued", "QueuePushFailed"}]
  /\ \A p \in Processes : proc[p].at \in Opening \cup {"down", "ready", "load", "allocate",
                                                       "write", "push", "mark"}
  /\ held \in [Processes -> [Names -> 0..MaxRegions]]
  /\ \A c \in Clients : cached[c] \subseteq 0..MaxIds /\ Cardinality(cached[c]) <= CacheBound

(* Clients and service talk through the same memory: whoever has finished    *)
(* opening holds the regions the names denote, whatever died half-way and    *)
(* whoever unlinked and recreated a broken region (acct_init_ex).            *)
OneMemory ==
  \A p \in Processes :
    proc[p].at \notin Opening \cup {"down"} => held[p] = named

(* The two counters hand out each value once: two slots of different         *)
(* requests have different ids, and a slot is never given to two requests.   *)
(* A second slot with the same id is acct_send_order's retry, and then the   *)
(* one tried before is marked QueuePushFailed.                               *)
IdsAndSlotsAreUnique ==
  /\ \A p, q \in Processes :
       (p # q /\ proc[p].at \in {"write", "push", "mark"} /\ proc[q].at \in {"write", "push", "mark"})
         => proc[p].current # proc[q].current /\ proc[p].id # proc[q].id
  /\ \A s, t \in Slots :
       (s # t /\ "Empty" \notin {Slot(s).stage, Slot(t).stage} /\ Slot(s).id = Slot(t).id)
         => "QueuePushFailed" \in {Slot(s).stage, Slot(t).stage}

(* What the service pops is what the caller wrote: an index in the queue     *)
(* names a slot that is complete and waiting, and is queued only once.       *)
QueuedSlotsAreComplete ==
  \A r \in Regions :
    \A k \in 1..Len(region[r].queue) :
      LET i == region[r].queue[k] + 1
          pool == named["orders"]
      IN /\ <<pool, i>> \in Slots
         /\ Slot(<<pool, i>>).stage = "UpstreamQueued"
         /\ \A j \in 1..Len(region[r].queue) : region[r].queue[j] = region[r].queue[k] => j = k

(* The stage of a slot can be believed: a slot that says UpstreamQueued is   *)
(* in the queue, or its call is still running; otherwise its client died     *)
(* inside enqueue_order.  Without a death there is no third case.            *)
QueuedMeansInTheQueue ==
  deaths = 0 =>
    \A s \in Slots :
      Slot(s).stage = "UpstreamQueued" =>
        InHand(s) \/ \E r \in Regions : Contains(region[r].queue, s[2] - 1)

(* Every call returns: the compare-and-swap loop of two clients and the      *)
(* service does not keep any of them for ever.                               *)
CallsReturn ==
  \A p \in Processes :
    proc[p].at \in {"load", "allocate", "write", "push", "mark"}
      ~> proc[p].at \in {"ready", "down"}

(* Queue and pool agree: what is queued is complete, once, and in a slot     *)
(* within the pool, and a slot that says it is queued is (enqueue_order).    *)
EntryInvariant == TypeOK /\ QueuedSlotsAreComplete /\ QueuedMeansInTheQueue
=============================================================================
