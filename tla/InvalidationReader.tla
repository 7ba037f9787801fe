-------------------------- MODULE InvalidationReader --------------------------
(***************************************************************************)
(* How a mount learns of committed metadata: writers replace revision      *)
(* marks in the store and wake the reader; the reader pages through the    *)
(* marks, or sweeps every live view, and tells the kernel to forget.       *)
(*                                                                         *)
(* A key is a marked identity of one collection, in the order of the mark  *)
(* index; 0 is the mark of the whole collection.  A change of the local    *)
(* namespace leaves no mark.  `stale` is what the kernel may still hold    *)
(* from before a change: it is read by the properties, never by the code.  *)
(***************************************************************************)
EXTENDS Integers, FiniteSets

CONSTANTS Keys,          \* marked identities, 1..n
          PageLimit,     \* marks in a page
          MaxRevision,   \* bound: the clock
          MaxLocal,      \* bound: local changes
          MaxFailures    \* bound: failures of the reader's work

Whole == 0
Local == -1
Marked == {Whole} \cup Keys
Views == Keys \cup {Local}

ASSUME KeyAssumption == Keys \subseteq Nat \ {0} /\ IsFiniteSet(Keys)
ASSUME LimitAssumption == PageLimit \in Nat \ {0} /\ MaxRevision \in Nat \ {0} /\ MaxLocal \in Nat
                          /\ MaxFailures \in Nat

VARIABLES clock, mark,      \* the store: revision counter, revision of each mark (0: none)
          full, wake,       \* the watch channel: its value, and whether it was sent to
          unsent,           \* local changes whose notification is still to be sent
          reader,           \* the reader's task
          writable,         \* whether the mount has a writeback projection
          failures,         \* bound
          woken, stale      \* history: the clock at the last wake; what the kernel may hold

store == <<clock, mark>>
vars == <<store, full, wake, unsent, reader, writable, failures, woken, stale>>

(***************************************************************************)
(* Writers.  A caller may be dropped between its commit and its wake, but  *)
(* every successful poll of the feed wakes the reader again.               *)
(***************************************************************************)
Commit(ks) ==
    /\ clock < MaxRevision
    /\ clock' = clock + 1
    /\ mark' = [k \in Marked |-> IF k \in ks THEN clock + 1 ELSE mark[k]]
    /\ stale' = stale \cup ks
    /\ UNCHANGED <<full, wake, unsent, reader, writable, failures, woken>>
(* A replacement baseline drops every mark for one of the whole collection. *)
CommitReset ==
    /\ clock < MaxRevision
    /\ clock' = clock + 1
    /\ mark' = [k \in Marked |-> IF k = Whole THEN clock + 1 ELSE 0]
    /\ stale' = stale \cup Keys
    /\ UNCHANGED <<full, wake, unsent, reader, writable, failures, woken>>
(* `metadata`: send_modify without a new value. *)
Wake ==
    /\ wake' = TRUE
    /\ woken' = clock
    /\ UNCHANGED <<store, full, unsent, reader, writable, failures, stale>>
LocalChange ==
    /\ full + unsent < MaxLocal
    /\ unsent' = unsent + 1
    /\ stale' = stale \cup {Local}
    /\ UNCHANGED <<store, full, wake, reader, writable, failures, woken>>
NotifyWaiters ==
    /\ unsent > 0
    /\ unsent' = unsent - 1
    /\ full' = full + 1
    /\ wake' = TRUE
    /\ woken' = clock
    /\ UNCHANGED <<store, reader, writable, failures, stale>>

(***************************************************************************)
(* The position in the marks: every mark up to `through` was handled and,  *)
(* while a range up to `upper` is being paged, also those up to `after`.   *)
(***************************************************************************)
NoRevision == -1
NoMark == [rev |-> NoRevision, key |-> NoRevision]
Position(through) == [through |-> through, upper |-> NoRevision, after |-> NoMark]
NoPosition == Position(NoRevision)

Rank(k) == [rev |-> mark[k], key |-> k]
Precedes(a, b) == a.rev < b.rev \/ (a.rev = b.rev /\ a.key < b.key)
Beyond(p, k) == IF p.upper = NoRevision THEN mark[k] > p.through ELSE Precedes(p.after, Rank(k))
Upper(p) == IF p.upper = NoRevision THEN clock ELSE p.upper
(* The rows that FIRST or NEXT selects. *)
Selected(p) == {k \in Marked : mark[k] > 0 /\ Beyond(p, k) /\ mark[k] <= Upper(p)}

(* A range that ends where the clock is now, not where it was captured. *)
CompleteNow(p) == Position(clock)
Complete(p) == Position(Upper(p))
PartOf(p, last) == [p EXCEPT !.upper = Upper(p), !.after = Rank(last)]

(***************************************************************************)
(* The reader's task, `run`.                                               *)
(***************************************************************************)
(* It waits for a wake, or to retry, and takes the channel's value before it *)
(* starts.                                                                   *)
Begin ==
    /\ reader.at = "retry" \/ (reader.at = "wait" /\ wake)
    /\ wake' = FALSE
    /\ reader' = [reader EXCEPT
          !.full = full,
          !.at = IF reader.cursor = NoPosition \/ full # reader.seen \/ writable THEN "position" ELSE "read"]
    /\ UNCHANGED <<store, full, unsent, writable, failures, woken, stale>>

(* The position is the revision that comes next. *)
CaptureNext ==
    /\ reader.at = "position"
    /\ reader' = [reader EXCEPT !.at = "sweep", !.todo = Views, !.next = Position(clock + 1)]
    /\ UNCHANGED <<store, full, wake, unsent, writable, failures, woken, stale>>
(* The position is captured before the sweep of all live views. *)
Capture ==
    /\ reader.at = "position"
    /\ reader' = [reader EXCEPT !.at = "sweep", !.todo = Views, !.next = Position(clock)]
    /\ UNCHANGED <<store, full, wake, unsent, writable, failures, woken, stale>>

(* `invalidate`: the views are visited in order, one after the other. *)
Forget(v) ==
    /\ v \in reader.todo /\ \A w \in reader.todo : v <= w
    /\ stale' = stale \ {v}
    /\ reader' = [reader EXCEPT !.todo = @ \ {v}]
    /\ UNCHANGED <<store, full, wake, unsent, writable, failures, woken>>

Swept ==
    /\ reader.at = "sweep" /\ reader.todo = {}
    /\ reader' = [reader EXCEPT !.at = "wait", !.cursor = reader.next, !.seen = reader.full]
    /\ UNCHANGED <<store, full, wake, unsent, writable, failures, woken, stale>>

(* One call of `metadata_changes`, a transaction: the first rows, up to the  *)
(* limit of marks or of bytes, and where to go on.                           *)
ReadPage ==
    /\ reader.at = "read"
    /\ LET p == reader.cursor
           rows == Selected(p)
       IN \E page \in SUBSET rows :
          /\ \A k \in page, j \in rows \ page : Precedes(Rank(k), Rank(j))
          /\ Cardinality(page) <= PageLimit
          /\ \/ /\ page = rows /\ Cardinality(page) < PageLimit
                /\ reader' = [reader EXCEPT !.at = "apply", !.page = page, !.next = Complete(p)]
             \/ \E last \in page :
                /\ \A k \in page \ {last} : Precedes(Rank(k), Rank(last))
                /\ page # rows \/ Cardinality(page) = PageLimit
                /\ reader' = [reader EXCEPT !.at = "apply", !.page = page, !.next = PartOf(p, last)]
    /\ UNCHANGED <<store, full, wake, unsent, writable, failures, woken, stale>>

(* The views that one mark selects. *)
Concerned(k) == IF k = Whole THEN Keys ELSE {k}
Apply(k) ==
    /\ reader.at = "apply" /\ reader.todo = {} /\ k \in reader.page
    /\ \A j \in reader.page : k <= j
    /\ reader' = [reader EXCEPT !.todo = Concerned(k), !.page = @ \ {k}]
    /\ UNCHANGED <<store, full, wake, unsent, writable, failures, woken, stale>>
(* The range is read on when it is complete, too. *)
AppliedAgain ==
    /\ reader.at = "apply" /\ reader.todo = {} /\ reader.page = {}
    /\ reader' = [reader EXCEPT !.cursor = reader.next, !.at = "read"]
    /\ UNCHANGED <<store, full, wake, unsent, writable, failures, woken, stale>>
Applied ==
    /\ reader.at = "apply" /\ reader.todo = {} /\ reader.page = {}
    /\ reader' = [reader EXCEPT !.cursor = reader.next,
                                !.at = IF reader.next.upper = NoRevision THEN "wait" ELSE "read"]
    /\ UNCHANGED <<store, full, wake, unsent, writable, failures, woken, stale>>

Fresh == [at |-> "retry", cursor |-> NoPosition, next |-> NoPosition, seen |-> 0, full |-> 0,
          page |-> {}, todo |-> {}]

(* A position, a page or a notification fails: a second later a sweep of all *)
(* views starts over.                                                        *)
Fail ==
    /\ reader.at \notin {"wait", "retry"} /\ failures < MaxFailures
    /\ failures' = failures + 1
    /\ reader' = [Fresh EXCEPT !.seen = reader.seen]
    /\ UNCHANGED <<store, full, wake, unsent, writable, woken, stale>>

(* A mount starts with nothing in the kernel and, in the store, the marks of *)
(* earlier mounts.                                                           *)
Init ==
    /\ clock = 1
    /\ mark = [k \in Marked |-> IF k = Whole THEN 0 ELSE 1]
    /\ full = 0 /\ wake = FALSE /\ unsent = 0
    /\ writable \in BOOLEAN
    /\ reader = Fresh
    /\ failures = 0
    /\ woken = 1 /\ stale = {}

Write == CommitReset \/ LocalChange \/ \E ks \in SUBSET Keys \ {{}} : Commit(ks)
Read ==
    \/ Begin \/ Capture \/ Swept \/ ReadPage \/ Applied
    \/ \E v \in Views : Forget(v)
    \/ \E k \in Marked : Apply(k)
Next == Write \/ Wake \/ NotifyWaiters \/ Read \/ Fail

(* The reader's task is scheduled, a local change is followed by its         *)
(* notification, and the feed is polled.                                     *)
Fairness == WF_vars(Read) /\ WF_vars(Wake) /\ WF_vars(NotifyWaiters)
Spec == Init /\ [][Next]_vars /\ Fairness

-----------------------------------------------------------------------------
Positions == [through : -1..clock, upper : -1..clock,
              after : [rev : -1..clock, key : {NoRevision} \cup Marked]]

(* The reader never claims a revision that is not yet given out. *)
TypeOK ==
    /\ clock \in 0..MaxRevision /\ mark \in [Marked -> 0..clock]
    /\ full \in Nat /\ unsent \in Nat /\ full + unsent <= MaxLocal
    /\ wake \in BOOLEAN /\ writable \in BOOLEAN
    /\ reader \in [at : {"wait", "retry", "position", "sweep", "read", "apply"},
                    cursor : Positions, next : Positions, seen : 0..full, full : 0..full,
                    page : SUBSET Marked, todo : SUBSET Views]
    /\ failures \in 0..MaxFailures /\ woken \in 0..clock /\ stale \subseteq Views

(* When every change was followed by its wake and the reader sleeps with     *)
(* nothing to do, the kernel holds nothing from before a change.  Pages,     *)
(* marks that move or vanish while they are paged, sweeps during which more  *)
(* is committed and failed work lose nothing.                                *)
NothingMissed ==
    reader.at = "wait" /\ ~wake /\ unsent = 0 /\ woken = clock => stale = {}

(* Whatever changes, the kernel is told. *)
EventuallyForgotten == \A v \in Views : v \in stale ~> v \notin stale
=============================================================================
