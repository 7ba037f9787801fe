--------------------------- MODULE PinnedCacheProofs ---------------------------
(***************************************************************************)
(* Proofs about PinnedCache, for any items, contents, budgets and tasks.   *)
(***************************************************************************)
EXTENDS PinnedCache, TLAPS

(* The registry keeps protection only for pins that exist: protect_blocks    *)
(* looks for the pin in the transaction that writes, and unpin removes both. *)
THEOREM ProtectionOwned == Spec => []NoOrphanProtection
<1>1. Init => NoOrphanProtection
  BY Zenon DEF Init, NoOrphanProtection, Protected
<1>2. NoOrphanProtection /\ [Next]_vars => NoOrphanProtection'
  <2> SUFFICES ASSUME NoOrphanProtection, [Next]_vars PROVE NoOrphanProtection'
    OBVIOUS
  <2>1. CASE UNCHANGED registry
    BY <2>1, Zenon DEF registry, NoOrphanProtection, Protected, Pinned
  <2>2. ASSUME NEW t \in Tasks, InsertPin(t) PROVE NoOrphanProtection'
    BY <2>2, Zenon DEF InsertPin, NoOrphanProtection, Protected, Pinned
  <2>3. ASSUME NEW t \in Tasks, NEW i, Unpin(t, i) PROVE NoOrphanProtection'
    BY <2>3, Zenon DEF Unpin, Drop, NoOrphanProtection, Protected, Pinned
  <2>4. ASSUME NEW t \in Tasks, Protect(t) PROVE NoOrphanProtection'
    BY SMTT(60), <2>4 DEF Protect, Protecting, Drop, NoOrphanProtection, Protected, Pinned
  <2>5. ASSUME NEW t \in Tasks, Request(t) PROVE NoOrphanProtection'
    BY ZenonT(60), <2>1, <2>3, <2>5 DEF Request, PinRequest, UnpinRequest, OrdinaryRead
  <2>6. ASSUME NEW t \in All, Refresh(t) PROVE UNCHANGED registry
    BY SMTT(60), <2>6 DEF Refresh, ReadSum, ReadKeys, Show
  <2>7. ASSUME NEW t \in Tasks, Read(t) \/ Pass(t) PROVE UNCHANGED registry
    BY ZenonT(60), <2>7 DEF Read, Recall, DiskHit, Retouch, Publish, Touch, ReadFails, ReadDone,
                Pass, List, Look, Evict, Forget, Evicted, CacheFails
  <2>8. ASSUME NEW t \in Tasks, Keep(t) PROVE NoOrphanProtection'
    BY <2>1, <2>2, <2>3, <2>4, <2>8, Zenon DEF Keep, Stopped, FetchDone
  <2>9. ASSUME NEW t \in Tasks, StopJob(t) PROVE UNCHANGED registry
    BY <2>9, Zenon DEF StopJob
  <2>10. CASE Restart
    BY <2>1, <2>10, Zenon DEF Restart
  <2>11. CASE UNCHANGED vars
    BY <2>1, <2>11, Zenon DEF vars, registry
  <2> QED
    BY <2>1, <2>5, <2>6, <2>7, <2>8, <2>9, <2>10, <2>11, Zenon DEF Next
<1> QED
  BY <1>1, <1>2, PTL DEF Spec

-----------------------------------------------------------------------------
(* What the records of the tasks look like, as far as the argument needs it. *)

Fields == {"at", "item", "todo", "read", "keys", "failed", "then", "sum", "seen", "list",
           "spare", "budget", "keep", "victim"}
Formed(r) == DOMAIN r = Fields /\ r.then \in {"idle", "fetch", "list"}
Shape == DOMAIN task = All /\ \A t \in All : Formed(task[t])
(* A step keeps the shape, and every block that was safe and is protected. *)
Careful == Shape' /\ \A b \in Blocks : (Safe(b) /\ b \in Protected') => Safe(b)'

(* Idle is a task that neither evicts nor is about to publish a view. *)
LEMMA IdleFormed == Formed(Idle) /\ Idle.at = "idle"
  BY Zenon DEF Formed, Idle, Fields

(* Reading on changes the work list only, and the end of a pass forgets it. *)
LEMMA AdvancedFormed ==
    ASSUME NEW r, Formed(r)
    PROVE  /\ Formed(Advanced(r)) /\ Advanced(r).at = r.at
           /\ Formed(NoPass(r)) /\ NoPass(r).at = "fetch"
<1>1. Formed(Advanced(r)) /\ Advanced(r).at = r.at
  BY Zenon DEF Formed, Fields, Advanced
<1>2. Formed(NoPass(r)) /\ NoPass(r).at = "fetch"
  BY DEF Formed, Fields, NoPass
<1> QED
  BY <1>1, <1>2, Zenon

(* A read that fails keeps the shape of its task. *)
LEMMA FailedFormed ==
    ASSUME NEW r, Formed(r)
    PROVE  Formed(Failed(r)) /\ Failed(r).at = r.at
  BY Zenon DEF Formed, Fields, Failed

(* A task that moves on, with blocks it must spare still spared, is careful. *)
LEMMA MoveCareful ==
    ASSUME Shape, NEW t \in All, NEW r, Become(t, r), Formed(r),
           \A b \in Blocks : (Safe(b) /\ b \in Protected')
                              => Spares(r, b) /\ b \in disk' /\ b \in view'.protected
    PROVE  Careful
<1>1. DOMAIN task' = All /\ \A u \in All : task'[u] = IF u = t THEN r ELSE task[u]
  BY Zenon DEF Become, Shape
<1>2. Shape'
  BY <1>1, Zenon DEF Shape
<1>3. ASSUME NEW b \in Blocks, Safe(b), b \in Protected' PROVE Safe(b)'
  <2>1. \A u \in All : Spares(task'[u], b)
    BY <1>1, <1>3, Zenon DEF Safe
  <2> QED
    BY <1>3, <2>1, Zenon DEF Safe, Spares
<1> QED
  BY <1>2, <1>3, Zenon DEF Careful

(* A task that removes no block, publishes no view and ends up where it     *)
(* holds neither a pass nor a view is careful.                              *)
LEMMA QuietCareful ==
    ASSUME Shape, NEW t \in All, NEW r, Become(t, r), Formed(r),
           r.at \notin {"evict", "forget", "show"}, disk \subseteq disk', UNCHANGED view
    PROVE  Careful
<1>1. \A b \in Blocks : (Safe(b) /\ b \in Protected')
                        => Spares(r, b) /\ b \in disk' /\ b \in view'.protected
  BY Zenon DEF Safe, Spares
<1> QED
  BY <1>1, MoveCareful, Zenon

(* A step that changes neither tasks, nor cache, nor view is careful. *)
LEMMA StillCareful ==
    ASSUME Shape, UNCHANGED <<task, disk, view>>
    PROVE  Careful
  BY Zenon DEF Careful, Shape, Safe

-----------------------------------------------------------------------------
(* The steps, one group of the engine's operations at a time. *)

(* Requests change the registry and start a task; they leave the cache alone. *)
LEMMA RequestCareful == ASSUME Shape, NEW t \in Tasks, Request(t) PROVE Careful
<1> t \in All
  BY DEF All
<1>1. ASSUME NEW r, Become(t, r), Formed(r), r.at \in {"idle", "insert", "sum", "fetch"},
             UNCHANGED <<disk, view>>
      PROVE  Careful
  BY <1>1, QuietCareful, Zenon
<1>2. CASE PinRequest(t)
  <2>1. PICK i \in Items :
            Become(t, IF Fits(i) THEN [Idle EXCEPT !.at = "insert", !.item = i,
                                         !.todo = SelectSeq(Content[i], LAMBDA f : f # << >>)]
                                 ELSE Idle)
    BY ZenonT(60), <1>2 DEF PinRequest
  <2>2. ASSUME NEW files PROVE LET r == [Idle EXCEPT !.at = "insert", !.item = i, !.todo = files]
                               IN  Formed(r) /\ r.at = "insert"
    BY IdleFormed DEF Formed, Fields
  <2>3. UNCHANGED <<disk, view>>
    BY SMTT(60), <1>2 DEF PinRequest, cache
  <2>4. CASE Fits(i)
    BY ZenonT(60), <1>1, <2>1, <2>2, <2>3, <2>4
  <2>5. CASE ~Fits(i)
    BY <1>1, <2>1, <2>3, <2>5, IdleFormed, Zenon
  <2> QED
    BY SMTT(60), <2>4, <2>5
<1>3. CASE UnpinRequest(t)
  <2>1. LET r == [Idle EXCEPT !.at = "sum", !.then = "list"] IN Formed(r) /\ r.at = "sum"
    BY IdleFormed DEF Formed, Fields
  <2>2. Become(t, [Idle EXCEPT !.at = "sum", !.then = "list"]) /\ UNCHANGED <<disk, view>>
    BY <1>3, Zenon DEF UnpinRequest, Unpin, cache
  <2> QED
    BY ZenonT(60), <1>1, <2>1, <2>2
<1>4. CASE OrdinaryRead(t)
  <2>1. PICK b \in Blocks : Become(t, [Idle EXCEPT !.at = "fetch", !.todo = << <<b>> >>])
    BY ZenonT(60), <1>4 DEF OrdinaryRead
  <2>2. LET r == [Idle EXCEPT !.at = "fetch", !.todo = << <<b>> >>] IN Formed(r) /\ r.at = "fetch"
    BY IdleFormed DEF Formed, Fields
  <2>3. UNCHANGED <<disk, view>>
    BY <1>4, Zenon DEF OrdinaryRead, cache
  <2> QED
    BY ZenonT(60), <1>1, <2>1, <2>2, <2>3
<1> QED
  BY <1>2, <1>3, <1>4 DEF Request

(* A refresh reads every protected block before it shows a view, so the view *)
(* it shows spares what was safe when it was read and is safe now.           *)
LEMMA RefreshCareful == ASSUME Shape, NEW t \in All, Refresh(t) PROVE Careful
<1> Formed(task[t])
  BY DEF Shape
<1>1. CASE ReadSum(t)
  <2>1. LET r == [task[t] EXCEPT !.at = "keys", !.sum = Reserved] IN Formed(r) /\ r.at = "keys"
    BY Zenon DEF Formed, Fields
  <2> QED
    BY ZenonT(60), <1>1, <2>1, QuietCareful DEF ReadSum, cache
<1>2. CASE ReadKeys(t)
  <2> DEFINE r == [task[t] EXCEPT !.at = "show", !.seen = Protected]
  <2>1. Formed(r) /\ r.at = "show" /\ r.seen = Protected
    BY Zenon DEF Formed, Fields
  <2>2. \A b \in Blocks : Safe(b) => Spares(r, b)
    BY <2>1, Zenon DEF Safe, Spares
  <2>3. Become(t, r) /\ UNCHANGED <<disk, view>>
    BY <1>2, Zenon DEF ReadKeys, cache
  <2> QED
    BY <2>1, <2>2, <2>3, MoveCareful, Zenon DEF Safe
<1>3. CASE Show(t)
  <2> DEFINE r == [task[t] EXCEPT !.at = task[t].then, !.then = "idle", !.sum = 0, !.seen = {}]
  <2>1. Formed(r) /\ r.at \in {"idle", "fetch", "list"}
    BY Zenon DEF Formed, Fields
  <2>2. \A b \in Blocks : Spares(r, b)
    BY <2>1, Zenon DEF Spares
  <2>3. Become(t, r) /\ UNCHANGED disk /\ view'.protected = task[t].seen
    BY <1>3, Zenon DEF Show, cache
  <2>4. \A b \in Blocks : Safe(b) => b \in task[t].seen
    BY <1>3, Zenon DEF Show, Safe, Spares
  <2> QED
    BY <2>1, <2>2, <2>3, <2>4, MoveCareful, Zenon DEF Safe
<1> QED
  BY <1>1, <1>2, <1>3, Zenon DEF Refresh

(* Reading adds blocks to the cache and never removes one. *)
LEMMA ReadCareful == ASSUME Shape, NEW t \in Tasks, Read(t) PROVE Careful
<1> t \in All
  BY DEF All
<1> Formed(task[t])
  BY Zenon DEF Shape
<1>1. CASE Recall(t)
  <2>1. Advanced(task[t]).at = "fetch"
    BY <1>1, AdvancedFormed, Zenon DEF Recall, Reading
  <2> QED
    BY <1>1, <2>1, AdvancedFormed, QuietCareful, Zenon DEF Recall, cache
<1>2. CASE DiskHit(t)
  <2>1. LET r == [task[t] EXCEPT !.at = "retouch", !.keep = Block(t)]
        IN  Formed(r) /\ r.at = "retouch"
    BY Zenon DEF Formed, Fields
  <2> QED
    BY ZenonT(60), <1>2, <2>1, QuietCareful DEF DiskHit
<1>3. CASE Retouch(t)
  BY <1>3, AdvancedFormed, QuietCareful, Zenon DEF Retouch
<1>4. CASE Publish(t)
  <2>1. LET r == [task[t] EXCEPT !.at = "touch", !.keep = Block(t)]
        IN  Formed(r) /\ r.at = "touch"
    BY Zenon DEF Formed, Fields
  <2> QED
    BY ZenonT(60), <1>4, <2>1, QuietCareful DEF Publish
<1>5. CASE Touch(t)
  <2>1. LET r == [task[t] EXCEPT !.at = "list"] IN Formed(r) /\ r.at = "list"
    BY Zenon DEF Formed, Fields
  <2> QED
    BY ZenonT(60), <1>5, <2>1, QuietCareful DEF Touch, Goto
<1>6. CASE ReadFails(t)
  <2>1. Formed(Failed(task[t])) /\ Failed(task[t]).at = task[t].at
    BY FailedFormed, Zenon
  <2>2. task[t].at = "fetch"
    BY <1>6, Zenon DEF ReadFails, Reads, Reading
  <2> QED
    BY ZenonT(60), <1>6, <2>1, <2>2, QuietCareful DEF ReadFails, cache
<1>7. CASE ReadDone(t)
  BY <1>7, IdleFormed, QuietCareful, Zenon DEF ReadDone, cache
<1> QED
  BY <1>1, <1>2, <1>3, <1>4, <1>5, <1>6, <1>7, Zenon DEF Read

(* A pass spares the protected blocks of the view it looked at. *)
LEMMA PassCareful == ASSUME Shape, NEW t \in Tasks, Pass(t) PROVE Careful
<1> t \in All
  BY DEF All
<1> Formed(task[t])
  BY Zenon DEF Shape
<1>1. CASE List(t)
  <2>1. LET r == [task[t] EXCEPT !.at = "look", !.list = index] IN Formed(r) /\ r.at = "look"
    BY Zenon DEF Formed, Fields
  <2> QED
    BY ZenonT(60), <1>1, <2>1, QuietCareful DEF List, cache
<1>2. CASE Look(t)
  <2> DEFINE r == [task[t] EXCEPT !.at = "evict", !.spare = view.protected,
                                  !.budget = Minus(Quota, view.reserved)]
  <2>1. Formed(r) /\ r.at = "evict" /\ r.spare = view.protected
    BY Zenon DEF Formed, Fields
  <2>2. \A b \in Blocks : Safe(b) => Spares(r, b)
    BY <2>1, Zenon DEF Safe, Spares
  <2>3. Become(t, r) /\ UNCHANGED <<disk, view>>
    BY <1>2, Zenon DEF Look, cache
  <2> QED
    BY <2>1, <2>2, <2>3, MoveCareful, Zenon DEF Safe
<1>3. CASE Evict(t)
  <2>1. PICK v \in Victims(t) : /\ disk' = disk \ {v}
                                /\ Become(t, [task[t] EXCEPT !.at = "forget", !.victim = v])
    BY ZenonT(60), <1>3 DEF Evict
  <2> DEFINE r == [task[t] EXCEPT !.at = "forget", !.victim = v]
  <2>2. Formed(r) /\ r.at = "forget" /\ r.spare = task[t].spare
    BY Zenon DEF Formed, Fields
  <2>3. v \notin task[t].spare
    BY Zenon DEF Victims
  <2>4. \A b \in Blocks : Safe(b) => b \in task[t].spare
    BY <1>3, Zenon DEF Evict, Safe, Spares
  <2>5. \A b \in Blocks : Safe(b) => Spares(r, b)
    BY <2>2, <2>4, Zenon DEF Spares
  <2>6. UNCHANGED view
    BY <1>3, Zenon DEF Evict
  <2> QED
    BY <2>1, <2>2, <2>3, <2>4, <2>5, <2>6, MoveCareful DEF Safe
<1>4. CASE Forget(t)
  <2> DEFINE r == [task[t] EXCEPT !.at = "evict", !.list = @ \ {task[t].victim},
                                  !.victim = NoBlock]
  <2>1. Formed(r) /\ r.at = "evict" /\ r.spare = task[t].spare
    BY Zenon DEF Formed, Fields
  <2>2. \A b \in Blocks : Safe(b) => Spares(r, b)
    BY <1>4, <2>1, Zenon DEF Forget, Safe, Spares
  <2>3. Become(t, r) /\ UNCHANGED <<disk, view>>
    BY <1>4, Zenon DEF Forget
  <2> QED
    BY <2>1, <2>2, <2>3, MoveCareful, Zenon DEF Safe
<1>5. CASE Evicted(t)
  <2>1. UNCHANGED <<disk, view>>
    BY <1>5, Zenon DEF Evicted
  <2>2. CASE task[t].keep = NoBlock
    BY <1>5, <2>1, <2>2, IdleFormed, QuietCareful, Zenon DEF Evicted
  <2>3. CASE task[t].keep # NoBlock
    BY <1>5, <2>1, <2>3, AdvancedFormed, QuietCareful, Zenon DEF Evicted
  <2> QED
    BY <2>2, <2>3, Zenon
<1>6. CASE CacheFails(t)
  <2>1. UNCHANGED <<disk, view>>
    BY <1>6, Zenon DEF CacheFails
  <2>2. CASE task[t].keep = NoBlock
    BY <1>6, <2>1, <2>2, IdleFormed, QuietCareful, Zenon DEF CacheFails
  <2>3. CASE task[t].keep # NoBlock
    <3>1. Formed(NoPass(Failed(task[t]))) /\ NoPass(Failed(task[t])).at = "fetch"
      BY AdvancedFormed, FailedFormed, Zenon
    <3> QED
      BY <1>6, <2>1, <2>3, <3>1, QuietCareful, Zenon DEF CacheFails
  <2> QED
    BY <2>2, <2>3, Zenon
<1> QED
  BY <1>1, <1>2, <1>3, <1>4, <1>5, <1>6, Zenon DEF Pass

(* The steps of a fetch job outside its reads touch the registry alone. *)
LEMMA KeepCareful == ASSUME Shape, NEW t \in Tasks, Keep(t) PROVE Careful
<1> t \in All
  BY DEF All
<1> Formed(task[t])
  BY Zenon DEF Shape
<1>1. CASE InsertPin(t)
  <2>1. LET r == [task[t] EXCEPT !.at = "sum", !.then = "fetch"] IN Formed(r) /\ r.at = "sum"
    BY Zenon DEF Formed, Fields
  <2> QED
    BY ZenonT(60), <1>1, <2>1, QuietCareful DEF InsertPin, cache
<1>2. CASE Stopped(t)
  <2>1. LET r == [Idle EXCEPT !.at = "sum", !.then = "list"] IN Formed(r) /\ r.at = "sum"
    BY IdleFormed DEF Formed, Fields
  <2> QED
    BY ZenonT(60), <1>2, <2>1, QuietCareful DEF Stopped, Unpin, cache
<1>3. CASE FetchDone(t)
  <2>1. LET r == [task[t] EXCEPT !.at = "protect"] IN Formed(r) /\ r.at = "protect"
    BY Zenon DEF Formed, Fields
  <2> QED
    BY ZenonT(60), <1>3, <2>1, QuietCareful DEF FetchDone, Goto, cache
<1>4. CASE Protect(t)
  <2>1. LET r == [Idle EXCEPT !.at = "sum"] IN Formed(r) /\ r.at = "sum"
    BY IdleFormed, Zenon DEF Formed, Fields
  <2> QED
    BY ZenonT(60), <1>4, <2>1, QuietCareful DEF Protect, cache
<1> QED
  BY <1>1, <1>2, <1>3, <1>4, Zenon DEF Keep

(* A restart takes only what the registry does not protect, and starts from *)
(* the registry's own view of it.                                            *)
LEMMA RestartCareful == ASSUME Restart PROVE Careful
<1>1. DOMAIN task' = All /\ \A t \in All : task'[t] = Idle
  BY Zenon DEF Restart
<1>2. Shape'
  BY <1>1, IdleFormed DEF Shape
<1>3. ASSUME NEW b \in Blocks, Safe(b), b \in Protected' PROVE Safe(b)'
  <2>1. PICK V \in Surplus(disk \ Protected) : disk' = disk \ V
    BY Zenon DEF Restart
  <2>2. b \notin V
    BY <1>3, <2>1, Zenon DEF Surplus, Safe
  <2>3. b \in disk' /\ b \in view'.protected
    BY <1>3, <2>1, <2>2, Zenon DEF Restart, Safe
  <2>4. \A t \in All : Spares(task'[t], b)
    BY <1>1, IdleFormed, Zenon DEF Spares
  <2> QED
    BY <1>3, <2>3, <2>4, Zenon DEF Safe, Spares
<1> QED
  BY <1>2, <1>3 DEF Careful

(* No interleaving of passes, refreshes, requests and restarts takes a block *)
(* away whose protection everybody knows of (evict and reconcile in          *)
(* content.rs, refresh_reservations in engine.rs), for any contents, quota   *)
(* and number of tasks.                                                      *)
THEOREM SafeBlocksStay == Spec => SafeStays
<1>1. Init => Shape
  BY IdleFormed, Zenon DEF Init, Shape
<1>2. Shape /\ [Next]_vars => Careful
  <2> SUFFICES ASSUME Shape, [Next]_vars PROVE Careful
    OBVIOUS
  <2>1. ASSUME NEW t \in Tasks, StopJob(t) PROVE Careful
    BY <2>1, StillCareful, Zenon DEF StopJob, cache
  <2>2. CASE UNCHANGED vars
    BY <2>2, StillCareful, Zenon DEF vars
  <2> QED
    BY <2>1, <2>2, RequestCareful, RefreshCareful, ReadCareful, PassCareful, KeepCareful,
       RestartCareful, Zenon DEF Next
<1>3. Shape /\ [Next]_vars => Shape'
  BY <1>2 DEF Careful
<1>4. Shape /\ [Next]_vars
      => [\A b \in Blocks : (Safe(b) /\ b \in Protected') => Safe(b)']_vars
  BY <1>2, Zenon DEF Careful
<1> QED
  BY <1>1, <1>3, <1>4, PTL DEF Spec, SafeStays
================================================================================
