------------------------------ MODULE PinnedCache ------------------------------
(***************************************************************************)
(* Content kept offline: the pin registry (crates/cirrove-store/src/       *)
(* pins.rs), the block cache with its index and its eviction               *)
(* (crates/cirrove-service/src/content.rs), and the tasks of the engine    *)
(* that move between them (engine.rs): pin and unpin requests, the jobs    *)
(* that fetch what was pinned, ordinary reads, and the manager's loop      *)
(* that publishes the registry to the cache.                               *)
(*                                                                         *)
(* A block is a key of the cache; every block takes one unit of the quota. *)
(* A task is one request or read in flight; a pin request goes on as its   *)
(* fetch job.  An item is a list of files, a file a list of blocks.        *)
(*                                                                         *)
(* The index orders blocks by a time stamp of one second; the model leaves *)
(* the order in which a pass takes its victims open.                       *)
(***************************************************************************)
EXTENDS Integers, Sequences, FiniteSets, FiniteSetsExt

CONSTANTS Items,         \* what can be pinned
          Content,       \* Content[i]: the files of item i, each its blocks in order
          Claim,         \* Claim[i]: the size a pin of i reserves
          Others,        \* blocks of files that nobody pins
          Quota,         \* what the cache may hold
          Pinnable,      \* pinnable_budget: what pins may reserve together
          MemoryBlocks,  \* blocks held in memory (8 in the code)
          Tasks,         \* requests and reads in flight
          Manager,       \* the manager's refresh loop
          MaxRequests,   \* bound on requests and reads
          MaxCrashes     \* bound on restarts

Flat(files) == UNION {{files[f][k] : k \in 1..Len(files[f])} : f \in 1..Len(files)}
BlocksOf(i) == Flat(Content[i])
Blocks == Others \cup UNION {BlocksOf(i) : i \in Items}
NoItem == "none"
NoBlock == "-"

ASSUME CacheBounds ==
    /\ Quota \in Nat /\ Pinnable \in Nat /\ MemoryBlocks \in Nat \ {0}
    /\ MaxRequests \in Nat /\ MaxCrashes \in Nat
    /\ Claim \in [Items -> Nat]
ASSUME CacheNames ==
    /\ NoItem \notin Items /\ NoBlock \notin Blocks
    /\ Manager \notin Tasks /\ NoItem \notin Tasks
    /\ IsFiniteSet(Items) /\ IsFiniteSet(Blocks)

VARIABLES pins,      \* pins: the reservation of each pinned item
          owner,     \* pin_blocks: the one item a protected block belongs to
          disk,      \* block files in the cache directory
          index,     \* cache_blocks
          memory,    \* blocks held in memory
          view,      \* Reservations: what the cache believes of the registry
          publish,   \* who holds the publish lock
          task,      \* where each task is
          asked,     \* tasks whose job somebody asked to stop
          kept,      \* items whose last fetch finished and was not undone
          requests, crashes

vars == <<pins, owner, disk, index, memory, view, publish, task, asked, kept, requests, crashes>>
registry == <<pins, owner>>
cache == <<disk, index, memory, publish>>
ledger == <<kept, requests, crashes>>

All == Tasks \cup {Manager}
Pinned == DOMAIN pins
Protected == DOMAIN owner
Reserved == FoldSet(LAMBDA i, sum : sum + pins[i], 0, Pinned)
Minus(a, b) == IF a > b THEN a - b ELSE 0        \* saturating_sub

(* A task: its station, the item of its request, the files still to fetch,   *)
(* the blocks read of the file at hand and those of complete files, whether  *)
(* the fetch failed, the registry as its refresh read it, and its eviction   *)
(* pass (block list, spared blocks, budget, block to keep, current victim).  *)
Idle == [at |-> "idle", item |-> NoItem, todo |-> << >>, read |-> {}, keys |-> {},
         failed |-> FALSE, then |-> "idle", sum |-> 0, seen |-> {},
         list |-> {}, spare |-> {}, budget |-> 0, keep |-> NoBlock, victim |-> NoBlock]
Become(t, r) == task' = [task EXCEPT ![t] = r]
Goto(t, s) == Become(t, [task[t] EXCEPT !.at = s])

Init ==
    /\ pins = [i \in {} |-> 0] /\ owner = [b \in {} |-> NoItem]
    /\ disk = {} /\ index = {} /\ memory = {}
    /\ view = [reserved |-> 0, protected |-> {}]
    /\ publish = NoItem
    /\ task = [t \in All |-> Idle]
    /\ asked = {} /\ kept = {} /\ requests = 0 /\ crashes = 0

-----------------------------------------------------------------------------
(* Requests. *)

(* A task takes up a request or a read; the count is the bound of the model. *)
Begin(t) ==
    /\ task[t].at = "idle" /\ requests < MaxRequests
    /\ requests' = requests + 1
    /\ UNCHANGED asked

(* pin(): the budget is read first ...                                       *)
Fits(i) == Claim[i] <= Minus(Pinnable, FoldSet(LAMBDA j, sum : sum + pins[j], 0, Pinned \ {i}))
PinRequest(t) == \E i \in Items :
    /\ Begin(t)
    /\ Become(t, IF Fits(i) THEN [Idle EXCEPT !.at = "insert", !.item = i,
                                              !.todo = SelectSeq(Content[i], LAMBDA f : f # << >>)]
                            ELSE Idle)
    /\ UNCHANGED <<registry, cache, view, kept, crashes>>
(* ... and the row is written in a statement of its own.                     *)
InsertPin(t) ==
    /\ task[t].at = "insert"
    /\ LET i == task[t].item IN pins' = [j \in Pinned \cup {i} |-> IF j = i THEN Claim[i] ELSE pins[j]]
    /\ Become(t, [task[t] EXCEPT !.at = "sum", !.then = "fetch"])
    /\ UNCHANGED <<owner, cache, view, asked, ledger>>

(* unpin(): one transaction, for a request or for a job that was stopped;    *)
(* the registry is published again and the cache brought back to its budget. *)
Drop(i) == [b \in {c \in Protected : owner[c] # i} |-> owner[b]]
Unpin(t, i) ==
    /\ pins' = [j \in Pinned \ {i} |-> pins[j]]
    /\ owner' = Drop(i)
    /\ kept' = kept \ {i}
    /\ Become(t, [Idle EXCEPT !.at = "sum", !.then = "list"])
    /\ UNCHANGED <<cache, view, crashes>>
UnpinRequest(t) == \E i \in Pinned : Begin(t) /\ Unpin(t, i)

OrdinaryRead(t) == \E b \in Blocks :
    /\ Begin(t)
    /\ Become(t, [Idle EXCEPT !.at = "fetch", !.todo = << <<b>> >>])
    /\ UNCHANGED <<registry, cache, view, kept, crashes>>

(* jobs.stop(): the token is cancelled; the job notices between two blocks.  *)
Fetching == {"fetch", "retouch", "touch", "list", "look", "evict", "forget"}
StopJob(t) ==
    /\ t \notin asked /\ task[t].item # NoItem /\ task[t].at \in Fetching
    /\ asked' = asked \cup {t}
    /\ UNCHANGED <<registry, cache, view, task, ledger>>

-----------------------------------------------------------------------------
(* refresh_reservations(): two queries, then the shared view is overwritten. *)

(* The manager's loop refreshes every five seconds. *)
ReadSum(t) ==
    /\ task[t].at = "sum" \/ (t = Manager /\ task[t].at = "idle")
    /\ Become(t, [task[t] EXCEPT !.at = "keys", !.sum = Reserved])
    /\ UNCHANGED <<registry, cache, view, asked, ledger>>
ReadKeys(t) ==
    /\ task[t].at = "keys"
    /\ Become(t, [task[t] EXCEPT !.at = "show", !.seen = Protected])
    /\ UNCHANGED <<registry, cache, view, asked, ledger>>
ReportOnly(t) ==
    /\ task[t].at = "show"
    /\ view' = IF t = Manager THEN view ELSE [reserved |-> task[t].sum, protected |-> task[t].seen]
    /\ Become(t, [task[t] EXCEPT !.at = task[t].then, !.then = "idle", !.sum = 0, !.seen = {}])
    /\ UNCHANGED <<registry, cache, asked, ledger>>
Show(t) ==
    /\ task[t].at = "show"
    /\ view' = [reserved |-> task[t].sum, protected |-> task[t].seen]
    /\ Become(t, [task[t] EXCEPT !.at = task[t].then, !.then = "idle", !.sum = 0, !.seen = {}])
    /\ UNCHANGED <<registry, cache, asked, ledger>>

-----------------------------------------------------------------------------
(* Reading a block: from memory, from disk, or from the provider. *)

Block(t) == Head(Head(task[t].todo))
Reading(t) == task[t].at = "fetch" /\ task[t].todo # << >> /\ t \notin asked
(* The gate of a block is held from looking for its file until it is read.   *)
Reads(t) ==
    /\ Reading(t) /\ Block(t) \notin memory
    /\ \A u \in Tasks \ {t} : task[u].keep # Block(t)

(* A file's keys count once the whole file has been read. *)
Advanced(r) ==
    LET b == Head(Head(r.todo))  rest == Tail(Head(r.todo)) IN
    IF rest = << >>
    THEN [r EXCEPT !.todo = Tail(r.todo), !.keys = r.keys \cup r.read \cup {b}, !.read = {}]
    ELSE [r EXCEPT !.todo = <<rest>> \o Tail(r.todo), !.read = r.read \cup {b}]
NoPass(r) == [r EXCEPT !.at = "fetch", !.list = {}, !.spare = {}, !.budget = 0,
                       !.keep = NoBlock, !.victim = NoBlock]

Remember(b) ==
    IF b \in memory \/ Cardinality(memory) < MemoryBlocks THEN memory' = memory \cup {b}
    ELSE \E oldest \in memory : memory' = (memory \ {oldest}) \cup {b}

Recall(t) ==
    /\ Reading(t) /\ Block(t) \in memory
    /\ Become(t, Advanced(task[t]))
    /\ UNCHANGED <<registry, cache, view, asked, ledger>>
DiskHit(t) ==
    /\ Reads(t) /\ Block(t) \in disk
    /\ Remember(Block(t))
    /\ Become(t, [task[t] EXCEPT !.at = "retouch", !.keep = Block(t)])
    /\ UNCHANGED <<registry, disk, index, publish, view, asked, ledger>>
Retouch(t) ==
    /\ task[t].at = "retouch"
    /\ index' = index \cup {task[t].keep}
    /\ Become(t, NoPass(Advanced(task[t])))
    /\ UNCHANGED <<registry, disk, memory, publish, view, asked, ledger>>
(* The provider's bytes are renamed into place under the publish lock, then  *)
(* indexed, then room is made.                                               *)
Publish(t) ==
    /\ Reads(t) /\ Block(t) \notin disk
    /\ publish = NoItem
    /\ publish' = t
    /\ disk' = disk \cup {Block(t)}
    /\ Become(t, [task[t] EXCEPT !.at = "touch", !.keep = Block(t)])
    /\ UNCHANGED <<registry, index, memory, view, asked, ledger>>
Touch(t) ==
    /\ task[t].at = "touch"
    /\ index' = index \cup {task[t].keep}
    /\ Goto(t, "list")
    /\ UNCHANGED <<registry, disk, memory, publish, view, asked, ledger>>
Failed(r) == [r EXCEPT !.todo = << >>, !.failed = TRUE]
ReadFails(t) ==
    /\ Reads(t) /\ Block(t) \notin disk
    /\ Become(t, Failed(task[t]))
    /\ UNCHANGED <<registry, cache, view, asked, ledger>>

-----------------------------------------------------------------------------
(* evict(): the block list, then the shared view, then one file at a time.   *)

List(t) ==
    /\ task[t].at = "list"
    /\ Become(t, [task[t] EXCEPT !.at = "look", !.list = index])
    /\ UNCHANGED <<registry, cache, view, asked, ledger>>
Overdrawn(t) ==
    /\ task[t].at = "look"
    /\ Become(t, [task[t] EXCEPT !.at = "evict", !.spare = view.protected,
                                 !.budget = Quota - view.reserved])
    /\ UNCHANGED <<registry, cache, view, asked, ledger>>
Look(t) ==
    /\ task[t].at = "look"
    /\ Become(t, [task[t] EXCEPT !.at = "evict", !.spare = view.protected,
                                 !.budget = Minus(Quota, view.reserved)])
    /\ UNCHANGED <<registry, cache, view, asked, ledger>>
Victims(t) == IF Cardinality(task[t].list) <= task[t].budget THEN {}
              ELSE task[t].list \ (task[t].spare \cup {task[t].keep})
Evict(t) == task[t].at = "evict" /\ \E b \in Victims(t) :
    /\ disk' = disk \ {b}
    /\ Become(t, [task[t] EXCEPT !.at = "forget", !.victim = b])
    /\ UNCHANGED <<registry, index, memory, publish, view, asked, ledger>>
Forget(t) ==
    /\ task[t].at = "forget"
    /\ index' = index \ {task[t].victim}
    /\ Become(t, [task[t] EXCEPT !.at = "evict", !.list = @ \ {task[t].victim}, !.victim = NoBlock])
    /\ UNCHANGED <<registry, disk, memory, publish, view, asked, ledger>>
(* A publication ends with its block in memory; a reclaim ends its request.  *)
Evicted(t) ==
    /\ task[t].at = "evict" /\ Victims(t) = {}
    /\ IF task[t].keep = NoBlock
       THEN Become(t, Idle) /\ UNCHANGED <<memory, publish>>
       ELSE /\ Remember(task[t].keep)
            /\ publish' = NoItem
            /\ Become(t, NoPass(Advanced(task[t])))
    /\ UNCHANGED <<registry, disk, index, view, asked, ledger>>

(* The index cannot be read or written, or a victim's file not be removed: a *)
(* read fails although its block is in place, and a reclaim ends where it is. *)
CacheFails(t) ==
    /\ \/ task[t].at \in {"retouch", "touch", "list", "forget"}
       \/ task[t].at = "evict" /\ Victims(t) # {}
    /\ Become(t, IF task[t].keep = NoBlock THEN Idle ELSE NoPass(Failed(task[t])))
    /\ publish' = IF publish = t THEN NoItem ELSE publish
    /\ UNCHANGED <<registry, disk, index, memory, view, asked, ledger>>

-----------------------------------------------------------------------------
(* keep_files_offline() after its last read. *)

ReadDone(t) ==
    /\ task[t].at = "fetch" /\ task[t].todo = << >> /\ task[t].item = NoItem
    /\ Become(t, Idle)
    /\ UNCHANGED <<registry, cache, view, asked, ledger>>
(* Stopped by somebody: the pin goes with the job. *)
Stopped(t) ==
    /\ task[t].at = "fetch" /\ t \in asked
    /\ Unpin(t, task[t].item)
    /\ asked' = asked \ {t}
    /\ UNCHANGED requests
FetchDone(t) ==
    /\ task[t].at = "fetch" /\ task[t].todo = << >> /\ task[t].item # NoItem /\ t \notin asked
    /\ Goto(t, "protect")
    /\ UNCHANGED <<registry, cache, view, asked, ledger>>

Protecting(i, keys) == [b \in DOMAIN Drop(i) \cup keys |-> IF b \in keys THEN i ELSE owner[b]]
ProtectAnyway(t) ==
    /\ task[t].at = "protect"
    /\ owner' = Protecting(task[t].item, task[t].keys)
    /\ Become(t, [Idle EXCEPT !.at = "sum"])
    /\ UNCHANGED <<pins, cache, view, asked, ledger>>
(* protect_blocks(): an item that is no longer pinned protects nothing. *)
Protect(t) ==
    /\ task[t].at = "protect"
    /\ LET i == task[t].item IN
       /\ owner' = IF i \in Pinned THEN Protecting(i, task[t].keys) ELSE Drop(i)
       /\ kept' = IF i \notin Pinned THEN kept
                  ELSE IF task[t].failed THEN kept \ {i} ELSE kept \cup {i}
    /\ Become(t, [Idle EXCEPT !.at = "sum"])
    /\ UNCHANGED <<pins, cache, view, asked, requests, crashes>>

-----------------------------------------------------------------------------
(* A new process: the registry is read first, then reconcile() indexes what  *)
(* the directory holds and evicts to the budget.                             *)
SurplusOfAll(candidates) == {V \in SUBSET disk :
    Cardinality(V) = Minus(Cardinality(disk), Minus(Quota, Reserved))}
Surplus(candidates) == {V \in SUBSET candidates :
    Cardinality(V) = Min({Cardinality(candidates), Minus(Cardinality(disk), Minus(Quota, Reserved))})}
Restart ==
    /\ crashes < MaxCrashes /\ crashes' = crashes + 1
    /\ \E V \in Surplus(disk \ Protected) : disk' = disk \ V /\ index' = disk \ V
    /\ memory' = {} /\ publish' = NoItem /\ asked' = {}
    /\ view' = [reserved |-> Reserved, protected |-> Protected]
    /\ task' = [t \in All |-> Idle]
    /\ UNCHANGED <<registry, kept, requests>>

Request(t) == PinRequest(t) \/ UnpinRequest(t) \/ OrdinaryRead(t)
Refresh(t) == ReadSum(t) \/ ReadKeys(t) \/ Show(t)
Read(t) == \/ Recall(t) \/ DiskHit(t) \/ Retouch(t) \/ Publish(t) \/ Touch(t) \/ ReadFails(t)
           \/ ReadDone(t)
Pass(t) == List(t) \/ Look(t) \/ Evict(t) \/ Forget(t) \/ Evicted(t) \/ CacheFails(t)
Keep(t) == InsertPin(t) \/ Stopped(t) \/ FetchDone(t) \/ Protect(t)
Next ==
    \/ \E t \in Tasks : Request(t) \/ StopJob(t) \/ Read(t) \/ Pass(t) \/ Keep(t)
    \/ \E t \in All : Refresh(t)
    \/ Restart
Spec == Init /\ [][Next]_vars
(* Tasks are polled by the runtime, and the manager's loop never ends. *)
FairSpec == /\ Spec
            /\ \A t \in All : WF_vars(Refresh(t))
            /\ \A t \in Tasks : WF_vars(Read(t) \/ Pass(t) \/ Keep(t))

-----------------------------------------------------------------------------
(* Properties *)

Stations == Fetching \cup {"idle", "insert", "sum", "keys", "show", "protect"}
TaskType == [at : Stations, item : Items \cup {NoItem}, todo : Seq(Seq(Blocks)),
             read : SUBSET Blocks, keys : SUBSET Blocks, failed : BOOLEAN,
             then : {"idle", "fetch", "list"}, sum : Nat, seen : SUBSET Blocks,
             list : SUBSET Blocks, spare : SUBSET Blocks, budget : Nat,
             keep : Blocks \cup {NoBlock}, victim : Blocks \cup {NoBlock}]
(* The variables keep their types; the budget of an eviction pass is a size. *)
TypeOK ==
    /\ Pinned \subseteq Items /\ pins \in [Pinned -> Nat]
    /\ Protected \subseteq Blocks /\ owner \in [Protected -> Items]
    /\ disk \subseteq Blocks /\ index \subseteq Blocks /\ memory \subseteq Blocks
    /\ Cardinality(memory) <= MemoryBlocks
    /\ view \in [reserved : Nat, protected : SUBSET Blocks]
    /\ publish \in Tasks \cup {NoItem}
    /\ task \in [All -> TaskType]
    /\ asked \subseteq Tasks /\ kept \subseteq Items

(* protect_blocks() (pins.rs): a job that outlives its pin writes no         *)
(* protection "for a pin that no longer exists" - blocks that eviction would *)
(* never take again and that nobody would ever release.                      *)
NoOrphanProtection == \A b \in Protected : owner[b] \in Pinned


(* Once the protection of a block is in the registry, in the cache's view    *)
(* and known to every pass and refresh under way, nothing takes the block    *)
(* before its protection is released: no later pass, no refresh overtaking   *)
(* another one, and no restart.                                              *)
Spares(r, b) == /\ r.at \in {"evict", "forget"} => b \in r.spare
                /\ r.at = "show" => b \in r.seen
Safe(b) == /\ b \in disk /\ b \in Protected /\ b \in view.protected
           /\ \A t \in All : Spares(task[t], b)
SafeStays == [][\A b \in Blocks : (Safe(b) /\ b \in Protected') => Safe(b)']_vars

(* Refreshes may overwrite the view with an older registry, but not for      *)
(* good: the cache ends up with what the registry says.                      *)
ViewSettles == <>[](view = [reserved |-> Reserved, protected |-> Protected])

(* "so two pins cannot each be told there is room for them" (pins.rs). *)
BudgetHonoured == Reserved <= Pinnable

(* "it reads even with no network" (docs/user-guide.md): what a finished     *)
(* fetch has kept is on disk.                                                *)
KeptIsHere == \A i \in kept : BlocksOf(i) \subseteq disk
================================================================================
