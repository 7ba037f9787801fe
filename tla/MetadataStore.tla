---------------------------- MODULE MetadataStore ----------------------------
(***************************************************************************)
(* The metadata index of one collection: the baseline that the change feed *)
(* commits round by round, the observations that foreground requests lay   *)
(* over it, and the logical clock and revision marks that order the two.   *)
(* A feed worker and any number of observers talk to the provider without  *)
(* holding a transaction; every store operation is one transaction.        *)
(*                                                                         *)
(* A change of an item on the provider gives it a new version.  A row is   *)
(* where the item is and its version; an item that is nowhere has no row,  *)
(* and the version kept with Nowhere is history that only the properties   *)
(* read.  A revision of 0 stands for a row that is not in its table.       *)
(***************************************************************************)
EXTENDS Integers, FiniteSets

CONSTANTS Roots,        \* folders that stay where they are, the root among them
          First,        \* the root in which everything is at the start
          Folders,      \* other folders, each in a root
          Files,
          Pages,        \* pages of a listing or of a feed round
          PageOf,       \* the page on which the provider reports an item
          Modes,        \* feed modes of providers: "incremental", "snapshot"
          Lookups, Listings,   \* requests for one item, for a directory, under way at once
          MaxChanges,   \* bound: changes made on the provider
          MaxRevision   \* bound: the clock, whose i64 `advance` never passes

Nowhere == "nowhere"
Ids == Folders \cup Files
Dirs == Roots \cup Folders
Named == Ids \cup Roots
Observers == Lookups \cup Listings

ASSUME IdAssumption == First \in Roots /\ Roots \cap Ids = {} /\ Nowhere \notin Named
ASSUME PageAssumption == Pages \in Nat \ {0} /\ PageOf \in [Ids -> 1..Pages]
ASSUME BoundAssumption == MaxChanges \in Nat /\ MaxRevision \in Nat /\ MaxRevision >= 3

VARIABLES remote, seq,                \* provider: the items and the last change
          mode, feed, started, staged, nodes,   \* feed row, its round, staged pages, baseline
          observed, absent, dirs,     \* observations: items, absences, listings
          clock, scoped, items, folders,   \* the clock and the marks of kind 0, 1 and 2
          worker, obs                 \* the feed worker and the observers, in memory

provider == <<remote, seq>>
baseline == <<feed, started, staged, nodes>>
overlay == <<observed, absent, dirs>>
marks == <<clock, scoped, items, folders>>
vars == <<provider, mode, baseline, overlay, marks, worker, obs>>

Row == [at : Dirs \cup {Nowhere}, ver : 0..MaxChanges]
NoRow == [at |-> Nowhere, ver |-> 0]
Exists(row) == row.at # Nowhere

(* What node_on finds: an absence hides everything, an observation hides the *)
(* baseline.                                                                 *)
Seen(i) ==
    IF absent[i] > 0 THEN NoRow
    ELSE IF observed[i].rev > 0 THEN observed[i].row ELSE nodes[i]

Known(d) == dirs[d].rev > 0 \/ feed.cursor >= 0

(* How a listing of d shows item i.  Over a snapshot lie the observations    *)
(* that were started after it; without one the completed index is listed.    *)
SnapshotChild(d, i) ==
    IF observed[i].rev > dirs[d].rev
      THEN IF observed[i].row.at = d /\ absent[i] <= dirs[d].rev THEN observed[i].row ELSE NoRow
    ELSE IF absent[i] > dirs[d].rev THEN NoRow ELSE dirs[d].entries[i]
IndexedChild(d, i) ==
    IF observed[i].rev > 0
      THEN IF observed[i].row.at = d THEN observed[i].row ELSE NoRow
    ELSE IF absent[i] = 0 /\ nodes[i].at = d THEN nodes[i] ELSE NoRow
Child(d, i) ==
    IF dirs[d].rev > 0 THEN SnapshotChild(d, i)
    ELSE IF feed.cursor >= 0 THEN IndexedChild(d, i) ELSE NoRow

(***************************************************************************)
(* The provider (external, as the adapters use it).  A cursor names the    *)
(* change it continues after, -1 for a full listing; a continuation also   *)
(* names its page and the change its round will have covered.              *)
(***************************************************************************)
Start(from) == [from |-> from, page |-> 1, upto |-> -1]
Upto(c) == IF c.page = 1 THEN seq ELSE c.upto
Reported(c, i) == PageOf[i] = c.page /\ remote[i].ver > c.from

Change(i, row) ==
    /\ seq < MaxChanges
    /\ seq' = seq + 1
    /\ remote' = [j \in Ids |->
          IF j = i THEN row
          ELSE IF ~Exists(row) /\ remote[j].at = i THEN [at |-> Nowhere, ver |-> seq + 1]
          ELSE remote[j]]
    /\ UNCHANGED <<mode, baseline, overlay, marks, worker, obs>>
(* Somebody creates, edits, moves or restores an item. *)
Put(i, d) ==
    /\ i \in Folders => d \in Roots
    /\ d \in Folders => Exists(remote[d])
    /\ Change(i, [at |-> d, ver |-> seq + 1])
Remove(i) ==
    /\ Exists(remote[i])
    /\ Change(i, [at |-> Nowhere, ver |-> seq + 1])

(***************************************************************************)
(* The feed worker: `poll` calling `refresh`, one page at a time.          *)
(***************************************************************************)
NoPage == [ids |-> {}, rows |-> [i \in Ids |-> NoRow]]
Idle(want) == [at |-> "idle", want |-> want, cursor |-> Start(-1), upto |-> -1, page |-> NoPage]
Over(old, page) ==
    [ids |-> old.ids \cup page.ids,
     rows |-> [i \in Ids |-> IF i \in page.ids THEN page.rows[i] ELSE old.rows[i]]]

(* A resumed round that loses its staged rows but keeps its continuation. *)
BeginRoundClearing(fresh, full) ==
    /\ fresh => clock < MaxRevision
    /\ clock' = IF fresh THEN clock + 1 ELSE clock
    /\ started' = IF fresh THEN clock + 1 ELSE started
    /\ staged' = NoPage
    /\ feed' = IF fresh THEN [feed EXCEPT !.phase = IF full THEN "reset" ELSE "delta",
                                          !.next = Start(IF full THEN -1 ELSE feed.cursor)]
               ELSE feed
(* `begin` and `begin_snapshot`: a full round lists everything, a round that *)
(* is not fresh is resumed where it was.                                     *)
BeginRound(fresh, full) ==
    /\ fresh => clock < MaxRevision
    /\ clock' = IF fresh THEN clock + 1 ELSE clock
    /\ started' = IF fresh THEN clock + 1 ELSE started
    /\ staged' = IF fresh /\ full THEN NoPage ELSE staged
    /\ feed' = IF fresh THEN [feed EXCEPT !.phase = IF full THEN "reset" ELSE "delta",
                                          !.next = Start(IF full THEN -1 ELSE feed.cursor)]
               ELSE feed
Begin ==
    /\ worker.at = "idle"
    /\ LET reset == worker.want = "reset"
       IN BeginRound(reset \/ feed.phase = "done", reset \/ mode = "snapshot" \/ feed.cursor = -1)
    /\ worker' = [worker EXCEPT !.at = "ask", !.cursor = feed'.next]
    /\ UNCHANGED <<provider, mode, nodes, overlay, scoped, items, folders, obs>>

(* One call of `changes`, answered at one instant. *)
Fetch ==
    /\ worker.at = "ask"
    /\ worker' =
         LET c == worker.cursor
             ids == {i \in Ids : Reported(c, i)}
         IN [worker EXCEPT
               !.at = "stage",
               !.upto = Upto(c),
               !.page = [ids |-> ids, rows |-> [i \in Ids |-> IF i \in ids THEN remote[i] ELSE NoRow]]]
    /\ UNCHANGED <<provider, mode, baseline, overlay, marks, obs>>
(* CursorExpired: the next round starts over. *)
Expired ==
    /\ worker.at = "ask" /\ worker.cursor # Start(-1)
    /\ worker' = Idle("reset")
    /\ UNCHANGED <<provider, mode, baseline, overlay, marks, obs>>

(* The request or the transaction fails; the next poll begins again. *)
FeedFails ==
    /\ worker.at # "idle"
    /\ worker' = Idle(worker.want)
    /\ UNCHANGED <<provider, mode, baseline, overlay, marks, obs>>

(* The folders an incremental round touches: the items themselves and the    *)
(* folders they are said to be in by the round, the index and the overlay.   *)
Touched(s) ==
    s.ids \cup {s.rows[i].at : i \in s.ids} \cup {nodes[i].at : i \in s.ids}
          \cup {observed[i].row.at : i \in s.ids}

(* Marks of a round, set before the index is replaced. *)
PublishDelta(s) ==
    IF feed.phase = "reset"
      THEN /\ clock < MaxRevision
           /\ clock' = clock + 1
           /\ scoped' = clock + 1
           /\ items' = [i \in Named |-> 0]
           /\ folders' = [i \in Named |-> 0]
    ELSE IF s.ids = {} THEN UNCHANGED <<clock, scoped, items, folders>>
    ELSE /\ clock < MaxRevision
         /\ clock' = clock + 1
         /\ items' = [i \in Named |-> IF i \in s.ids THEN clock + 1 ELSE items[i]]
         /\ folders' = [i \in Named |-> IF i \in Touched(s) THEN clock + 1 ELSE folders[i]]
         /\ UNCHANGED scoped

NoObservation == [rev |-> 0, row |-> NoRow]
NoListing == [rev |-> 0, entries |-> [i \in Ids |-> NoRow]]

(* Observations that were started before the round and that it speaks about. *)
Reconcile(s) ==
    LET hit(i) == i \in s.ids \/ feed.phase = "reset" IN
    /\ observed' = [i \in Ids |->
          IF hit(i) /\ observed[i].rev <= started THEN NoObservation ELSE observed[i]]
    /\ absent' = [i \in Ids |-> IF hit(i) /\ absent[i] <= started THEN 0 ELSE absent[i]]
    /\ dirs' = [d \in Dirs |->
          IF (feed.phase = "reset" \/ d \in Touched(s)) /\ dirs[d].rev <= started THEN NoListing ELSE dirs[d]]

Complete(s) ==
    /\ PublishDelta(s)
    /\ Reconcile(s)
    /\ nodes' = [i \in Ids |->
          IF i \in s.ids THEN s.rows[i] ELSE IF feed.phase = "reset" THEN NoRow ELSE nodes[i]]
    /\ staged' = NoPage
    /\ feed' = [cursor |-> worker.upto, phase |-> "done", next |-> Start(-1)]
    /\ worker' = Idle("resume")
    /\ UNCHANGED started

(* `stage`: a page that is not the last only joins the staged rows.          *)
Stage ==
    /\ worker.at = "stage" /\ feed.phase # "done" /\ feed.next = worker.cursor
    /\ LET s == Over(staged, worker.page)
           next == [worker.cursor EXCEPT !.page = @ + 1, !.upto = worker.upto]
       IN IF worker.cursor.page = Pages THEN Complete(s)
          ELSE /\ staged' = s
               /\ feed' = [feed EXCEPT !.next = next]
               /\ worker' = [worker EXCEPT !.at = "ask", !.cursor = next, !.upto = -1, !.page = NoPage]
               /\ UNCHANGED <<started, nodes, overlay, marks>>
    /\ UNCHANGED <<provider, mode, obs>>

(***************************************************************************)
(* Observers: a ticket is taken, the provider is asked, the reply is       *)
(* published if nothing it speaks about was committed since the ticket.    *)
(* reply[i] is what the provider had for item i when the reply was made.   *)
(***************************************************************************)
NoReply == [i \in Ids |-> NoRow]
Unasked == [at |-> "idle", kind |-> "node", id |-> Nowhere, rev |-> 0, page |-> 1, reply |-> NoReply]

(* A ticket that does not advance the clock. *)
AskUncounted(o, kind, id) ==
    /\ obs[o].at = "idle"
    /\ clock < MaxRevision
    /\ obs' = [obs EXCEPT ![o] = [Unasked EXCEPT !.at = "sent", !.kind = kind, !.id = id, !.rev = clock + 1]]
    /\ UNCHANGED <<provider, mode, baseline, overlay, marks, worker>>
Ask(o, kind, id) ==
    /\ obs[o].at = "idle"
    /\ clock < MaxRevision
    /\ clock' = clock + 1
    /\ obs' = [obs EXCEPT ![o] = [Unasked EXCEPT !.at = "sent", !.kind = kind, !.id = id, !.rev = clock + 1]]
    /\ UNCHANGED <<provider, mode, baseline, overlay, scoped, items, folders, worker>>
AskNode(o, i) == Ask(o, "node", i)
(* A directory is fetched by one request at a time, under its gate. *)
AskDirectory(o, d) ==
    /\ \A p \in Observers : ~(obs[p].at # "idle" /\ obs[p].kind = "directory" /\ obs[p].id = d)
    /\ Ask(o, "directory", d)

(* The provider answers for one item, or with the next page of a listing; a  *)
(* listing of a folder that is gone ends in an error.                        *)
AnswerNode(o) ==
    /\ obs[o].at = "sent" /\ obs[o].kind = "node"
    /\ obs' = [obs EXCEPT ![o].at = "back", ![o].reply[obs[o].id] = remote[obs[o].id]]
    /\ UNCHANGED <<provider, mode, baseline, overlay, marks, worker>>
AnswerPage(o) ==
    /\ obs[o].at = "sent" /\ obs[o].kind = "directory"
    /\ obs[o].id \in Folders => Exists(remote[obs[o].id])
    /\ obs' = [obs EXCEPT
          ![o].at = IF obs[o].page = Pages THEN "back" ELSE "sent",
          ![o].page = IF obs[o].page = Pages THEN 1 ELSE @ + 1,
          ![o].reply = [i \in Ids |-> IF PageOf[i] = obs[o].page THEN remote[i] ELSE @[i]]]
    /\ UNCHANGED <<provider, mode, baseline, overlay, marks, worker>>
(* The request fails, times out or loses its caller. *)
GiveUp(o) ==
    /\ obs[o].at # "idle"
    /\ obs' = [obs EXCEPT ![o] = Unasked]
    /\ UNCHANGED <<provider, mode, baseline, overlay, marks, worker>>

(* Without the mark that a replaced baseline leaves. *)
CurrentUnscoped(o, returned, parents) ==
    /\ items[obs[o].id] <= obs[o].rev
    /\ obs[o].kind = "directory" => folders[obs[o].id] <= obs[o].rev
    /\ \A i \in returned : items[i] <= obs[o].rev
    /\ \A d \in parents \ {Nowhere} : folders[d] <= obs[o].rev
(* Without the folder a single item is said to be in. *)
CurrentAnywhere(o, returned, parents) ==
    /\ scoped <= obs[o].rev
    /\ items[obs[o].id] <= obs[o].rev
    /\ obs[o].kind = "directory" => folders[obs[o].id] <= obs[o].rev
    /\ \A i \in returned : items[i] <= obs[o].rev
(* `current`: no later commit concerns the target, an item of the reply or   *)
(* the folder a single item is said to be in.                                *)
Current(o, returned, parents) ==
    LET t == obs[o].rev
        target == obs[o].id
    IN /\ scoped <= t
       /\ items[target] <= t
       /\ obs[o].kind = "directory" => folders[target] <= t
       /\ \A i \in returned : items[i] <= t
       /\ \A d \in parents \ {Nowhere} : folders[d] <= t

Mark(its, ds) ==
    /\ clock < MaxRevision
    /\ clock' = clock + 1
    /\ items' = [i \in Named |-> IF i \in its THEN clock + 1 ELSE items[i]]
    /\ folders' = [d \in Named |-> IF d \in ds THEN clock + 1 ELSE folders[d]]
    /\ UNCHANGED scoped

PublishNode(o) ==
    LET i == obs[o].id
        row == obs[o].reply[i]
    IN /\ obs[o].at = "back" /\ obs[o].kind = "node" /\ Exists(row)
       /\ IF Current(o, {i}, {row.at})
            THEN /\ Mark({i}, {row.at, Seen(i).at})
                 /\ absent' = [absent EXCEPT ![i] = 0]
                 /\ observed' = [observed EXCEPT ![i] = [rev |-> obs[o].rev, row |-> row]]
                 /\ UNCHANGED dirs
            ELSE UNCHANGED <<overlay, marks>>
       /\ obs' = [obs EXCEPT ![o] = Unasked]
       /\ UNCHANGED <<provider, mode, baseline, worker>>

(* `publish_absence`: the provider answered NotFound. *)
PublishAbsence(o) ==
    LET i == obs[o].id IN
    /\ obs[o].at = "back" /\ obs[o].kind = "node" /\ ~Exists(obs[o].reply[i])
    /\ IF Current(o, {i}, {Seen(i).at})
         THEN /\ Mark({i}, {i, Seen(i).at})
              /\ observed' = [observed EXCEPT ![i] = NoObservation]
              /\ absent' = [absent EXCEPT ![i] = obs[o].rev]
              /\ UNCHANGED dirs
         ELSE UNCHANGED <<overlay, marks>>
    /\ obs' = [obs EXCEPT ![o] = Unasked]
    /\ UNCHANGED <<provider, mode, baseline, worker>>

Incoming(o) == {i \in Ids : obs[o].reply[i].at = obs[o].id}
(* Children that only the index or an observation still has in d. *)
Missing(d, incoming) ==
    {i \in Ids \ incoming : observed[i].row.at = d \/ nodes[i].at = d}

(* Without the children that are gone. *)
AffectedIncoming(o) ==
    {i \in Incoming(o) : Child(obs[o].id, i) # obs[o].reply[i]}
(* The items a listing says something new about. *)
Affected(o) ==
    {i \in Incoming(o) : Child(obs[o].id, i) # obs[o].reply[i]}
        \cup Missing(obs[o].id, Incoming(o))

(* `DirectoryPublication::publish`.  An unchanged child is not marked; a     *)
(* missing one is hidden unless it is known to be in another folder.         *)
PublishDirectory(o) ==
    LET d == obs[o].id
        t == obs[o].rev
        reply == obs[o].reply
        incoming == Incoming(o)
        missing == Missing(d, incoming)
        affected == Affected(o)
        removed == {i \in missing : Seen(i).at \in {d, Nowhere}}
    IN /\ obs[o].at = "back" /\ obs[o].kind = "directory"
       /\ IF Current(o, incoming, {})
            THEN /\ Mark(affected, {d} \cup {Seen(i).at : i \in affected})
                 /\ observed' = [i \in Ids |->
                       IF i \in incoming THEN [rev |-> t, row |-> reply[i]]
                       ELSE IF i \in removed THEN NoObservation ELSE observed[i]]
                 /\ absent' = [i \in Ids |->
                       IF i \in incoming THEN 0 ELSE IF i \in removed THEN t ELSE absent[i]]
                 /\ dirs' = [dirs EXCEPT ![d] = [rev |-> t,
                       entries |-> [i \in Ids |-> IF i \in incoming THEN reply[i] ELSE NoRow]]]
            ELSE UNCHANGED <<overlay, marks>>
       /\ obs' = [obs EXCEPT ![o] = Unasked]
       /\ UNCHANGED <<provider, mode, baseline, worker>>

(* The process ends; what is in the database stays. *)
Crash ==
    /\ worker # Idle("resume") \/ \E o \in Observers : obs[o] # Unasked
    /\ worker' = Idle("resume")
    /\ obs' = [o \in Observers |-> Unasked]
    /\ UNCHANGED <<provider, mode, baseline, overlay, marks>>

(* A database whose first round is still to come, or just over; the clock    *)
(* has moved in both, by abandoned requests or by that round.                *)
Init ==
    /\ remote = [i \in Ids |-> [at |-> First, ver |-> 0]]
    /\ seq = 0
    /\ mode \in Modes
    /\ \E cursor \in {-1, 0} :
          /\ feed = [cursor |-> cursor, phase |-> "done", next |-> Start(-1)]
          /\ clock = 2 - cursor
          /\ started = cursor + 1
          /\ scoped = 2 * (cursor + 1)
          /\ nodes = [i \in Ids |-> IF cursor = 0 THEN remote[i] ELSE NoRow]
    /\ staged = NoPage
    /\ observed = [i \in Ids |-> NoObservation]
    /\ absent = [i \in Ids |-> 0]
    /\ dirs = [d \in Dirs |-> NoListing]
    /\ items = [i \in Named |-> 0]
    /\ folders = [i \in Named |-> 0]
    /\ worker = Idle("resume")
    /\ obs = [o \in Observers |-> Unasked]

Observe(o) ==
    \/ o \in Lookups /\ \E i \in Ids : AskNode(o, i)
    \/ o \in Listings /\ \E d \in Dirs : AskDirectory(o, d)
    \/ AnswerNode(o) \/ AnswerPage(o) \/ GiveUp(o)
    \/ PublishNode(o) \/ PublishAbsence(o) \/ PublishDirectory(o)
Next ==
    \/ \E i \in Ids, d \in Dirs : Put(i, d)
    \/ \E i \in Ids : Remove(i)
    \/ Begin \/ Fetch \/ Expired \/ FeedFails \/ Stage \/ Crash
    \/ \E o \in Observers : Observe(o)
Spec == Init /\ [][Next]_vars

-----------------------------------------------------------------------------
Revisions == 0..MaxRevision
Cursors == [from : -1..MaxChanges, page : 1..Pages, upto : -1..MaxChanges]
Batch == [ids : SUBSET Ids, rows : [Ids -> Row]]

(* Every table keeps its type, and no revision is ahead of the clock. *)
TypeOK ==
    /\ remote \in [Ids -> Row] /\ seq \in 0..MaxChanges
    /\ mode \in Modes
    /\ feed \in [cursor : -1..MaxChanges, phase : {"done", "delta", "reset"}, next : Cursors]
    /\ started \in 0..clock /\ clock \in Revisions /\ scoped \in 0..clock
    /\ staged \in Batch /\ nodes \in [Ids -> Row]
    /\ observed \in [Ids -> [rev : 0..clock, row : Row]]
    /\ absent \in [Ids -> 0..clock]
    /\ dirs \in [Dirs -> [rev : 0..clock, entries : [Ids -> Row]]]
    /\ items \in [Named -> 0..clock] /\ folders \in [Named -> 0..clock]
    /\ worker \in [at : {"idle", "ask", "stage"}, want : {"resume", "reset"}, cursor : Cursors,
                   upto : -1..MaxChanges, page : Batch]
    /\ obs \in [Observers -> [at : {"idle", "sent", "back"}, kind : {"node", "directory"},
                   id : Named \cup {Nowhere}, rev : 0..clock, page : 1..Pages, reply : [Ids -> Row]]]

(* The cursor that is saved never runs ahead of the baseline: an item that   *)
(* has not changed since the cursor is in the index exactly as the provider  *)
(* has it.  Pages, interrupted rounds, restarts and expired cursors neither  *)
(* skip a change nor bring half of one.                                      *)
FeedCovers == \A i \in Ids : remote[i].ver <= feed.cursor => nodes[i] = remote[i]

Publishes(o) == obs[o].at = "back" /\ obs'[o].at = "idle"

(* A reply that was overtaken by the feed is not laid over the index: what   *)
(* a publication shows or hides is at least as new as the indexed row.       *)
NeverUndoesFeed ==
    [][\A o \in Observers, i \in Ids :
          Publishes(o) /\ (observed'[i] # observed[i] \/ absent'[i] # absent[i])
          => obs[o].reply[i].ver >= nodes[i].ver]_overlay

(* What a request publishes is what a reader sees next: the item, or the     *)
(* listing exactly as it was answered, wherever older and newer observations *)
(* of the same items lie.                                                    *)
ReplyShown ==
    [][\A o \in Observers : Publishes(o) =>
          \A d \in Dirs, i \in Ids : \A row \in {obs[o].reply[i]} :
             /\ obs[o].kind = "directory" /\ obs[o].id = d
                  => Child(d, i)' = IF row.at = d THEN row ELSE NoRow
             /\ obs[o].kind = "node" /\ obs[o].id = i =>
                  /\ Seen(i)' = IF Exists(row) THEN row ELSE NoRow
                  /\ row.at = d /\ Known(d)' => Child(d, i)' = row
                  /\ ~Exists(row) /\ Seen(i).at = d => ~Exists(Child(d, i)')]_overlay

(* A commit that changes what is visible of an item, or of its place in a    *)
(* listing, leaves a mark newer than anything before it: the mounts read     *)
(* nothing else to find what to invalidate.  Only a listing's entry that the *)
(* item itself no longer confirms may go without one.                        *)
Announced ==
    [][LET fresh(m) == m > clock IN
       fresh(scoped') \/ \A i \in Ids :
          /\ Seen(i)' # Seen(i) => fresh(items'[i])
          /\ \A d \in Dirs : Child(d, i)' # Child(d, i) =>
                \/ fresh(items'[i]) \/ fresh(folders'[d])
                \/ ~Exists(Child(d, i)') /\ Seen(i).at # d]_<<baseline, overlay>>

(* A listing shows an item only where the item itself is said to be: both    *)
(* sides of a move agree.                                                    *)
BothSides ==
    \A d \in Dirs, i \in Ids : Exists(Child(d, i)) => Seen(i).at = d
=============================================================================
