------------------------- MODULE MetadataStoreProofs -------------------------
(***************************************************************************)
(* What MetadataStore keeps whatever the items, pages, requests and bounds *)
(* are: the tables' types, a saved cursor that never runs ahead of the     *)
(* index, and replies that never undo what the feed has brought.           *)
(*                                                                         *)
(* The cursor's argument is about a round: what is staged, and the page in *)
(* the worker's hands, have every item that changed since the round's      *)
(* cursor as it was at the change the round will have covered, or the item *)
(* has changed again since (RoundInv, PageInv).  The replies' argument is  *)
(* about marks: a reply that no mark since its ticket concerns is no older *)
(* than the indexed row (FreshReply), because a round marks every item it  *)
(* brings and every folder the item was in, and the provider is never      *)
(* behind the index (PastInv).                                             *)
(***************************************************************************)
EXTENDS MetadataStore, TLAPS

(* What a round has to have brought of item i, its changes after `from' up   *)
(* to `upto' being due: a batch has the item as it is, or the item has       *)
(* changed since.                                                            *)
Covered(batch, from, upto, i) ==
    remote[i].ver <= upto =>
        IF remote[i].ver > from THEN i \in batch.ids /\ batch.rows[i] = remote[i]
        ELSE i \notin batch.ids
Reaches(c) == c.page = 1 \/ c.upto \in 0..seq

(* The round in the database: staged pages are those before the next one. *)
RoundInv ==
    /\ \A i \in Ids : remote[i].ver <= seq
    /\ feed.cursor <= seq
    /\ feed.phase = "done" => staged = NoPage
    /\ feed.phase = "delta" => feed.cursor >= 0 /\ feed.next.from = feed.cursor
    /\ feed.phase = "reset" => feed.next.from = -1
    /\ Reaches(feed.next)
    /\ \A i \in Ids : IF PageOf[i] < feed.next.page
                        THEN Covered(staged, feed.next.from, feed.next.upto, i)
                        ELSE i \notin staged.ids
    /\ FeedCovers
(* The page in the worker's hands. *)
PageInv ==
    /\ Reaches(worker.cursor)
    /\ worker.at = "stage" =>
         /\ worker.upto \in 0..seq
         /\ worker.cursor.page # 1 => worker.upto = worker.cursor.upto
         /\ \A i \in Ids : IF PageOf[i] = worker.cursor.page
                             THEN Covered(worker.page, worker.cursor.from, worker.upto, i)
                             ELSE i \notin worker.page.ids
(* Nothing the feed has brought or is bringing is ahead of the provider. *)
PastInv == \A i \in Ids :
    /\ remote[i].ver >= nodes[i].ver /\ remote[i].ver >= staged.rows[i].ver
    /\ remote[i].ver >= worker.page.rows[i].ver
TicketInv(o) == obs[o].at # "idle" => obs[o].id \in Named

(* The provider has answered o about item i, and no mark since the ticket    *)
(* concerns the item, or the folder that was listed and that it is said to   *)
(* be in.                                                                    *)
Answered(o, i) ==
    IF obs[o].kind = "node" THEN obs[o].at = "back" /\ i = obs[o].id
    ELSE obs[o].at = "back" \/ (obs[o].at = "sent" /\ PageOf[i] < obs[o].page)
Unmarked(o, i) ==
    /\ scoped <= obs[o].rev
    /\ \/ items[i] <= obs[o].rev
       \/ folders[obs[o].id] <= obs[o].rev /\ obs[o].id \in {nodes[i].at, observed[i].row.at}
(* Such a reply is no older than the index. *)
FreshReply(o, i) == Answered(o, i) /\ Unmarked(o, i) => obs[o].reply[i].ver >= nodes[i].ver
ReaderInv == \A o \in Observers : TicketInv(o) /\ \A i \in Ids : FreshReply(o, i)

IndexInv == TypeOK /\ RoundInv /\ PageInv /\ PastInv /\ ReaderInv

-----------------------------------------------------------------------------
(* Types. *)

(* The tables by what they depend on; revisions are bounded by the clock. *)
FeedType == [cursor : -1..MaxChanges, phase : {"done", "delta", "reset"}, next : Cursors]
WorkerType == [at : {"idle", "ask", "stage"}, want : {"resume", "reset"}, cursor : Cursors,
               upto : -1..MaxChanges, page : Batch]
ObservedType(n) == [Ids -> [rev : 0..n, row : Row]]
DirsType(n) == [Dirs -> [rev : 0..n, entries : [Ids -> Row]]]
TicketType(n) == [at : {"idle", "sent", "back"}, kind : {"node", "directory"},
                  id : Named \cup {Nowhere}, rev : 0..n, page : 1..Pages, reply : [Ids -> Row]]
ProviderTypes == remote \in [Ids -> Row] /\ seq \in 0..MaxChanges
RoundTypes ==
    /\ mode \in Modes /\ feed \in FeedType /\ staged \in Batch
    /\ nodes \in [Ids -> Row] /\ worker \in WorkerType
OverlayTypes ==
    /\ observed \in ObservedType(clock) /\ absent \in [Ids -> 0..clock]
    /\ dirs \in DirsType(clock)
MarkTypes ==
    scoped \in 0..clock /\ items \in [Named -> 0..clock] /\ folders \in [Named -> 0..clock]
ReaderTypes == obs \in [Observers -> TicketType(clock)]

(* TypeOK, table by table. *)
LEMMA Types ==
    TypeOK <=> /\ ProviderTypes /\ RoundTypes /\ clock \in 0..MaxRevision /\ started \in 0..clock
               /\ OverlayTypes /\ MarkTypes /\ ReaderTypes
  BY Zenon DEF TypeOK, ProviderTypes, RoundTypes, OverlayTypes, MarkTypes, ReaderTypes, FeedType,
      WorkerType, ObservedType, DirsType, TicketType, Revisions

(* The same after a step. *)
LEMMA TypesNext ==
    ASSUME ProviderTypes', RoundTypes', clock' \in 0..MaxRevision, started' \in 0..clock',
           OverlayTypes', MarkTypes', ReaderTypes'
    PROVE  TypeOK'
  BY Zenon DEF TypeOK, ProviderTypes, RoundTypes, OverlayTypes, MarkTypes, ReaderTypes, FeedType,
      WorkerType, ObservedType, DirsType, TicketType, Revisions

(* A revision stays a revision when the clock advances. *)
LEMMA Grown ==
    ASSUME NEW m \in Nat, NEW n \in Nat, m <= n
    PROVE  /\ 0..m \subseteq 0..n
           /\ ObservedType(m) \subseteq ObservedType(n) /\ DirsType(m) \subseteq DirsType(n)
           /\ [Ids -> 0..m] \subseteq [Ids -> 0..n] /\ [Named -> 0..m] \subseteq [Named -> 0..n]
           /\ TicketType(m) \subseteq TicketType(n)
           /\ [Observers -> TicketType(m)] \subseteq [Observers -> TicketType(n)]
<1>1. 0..m \subseteq 0..n
  OBVIOUS
<1>2. [rev : 0..m, row : Row] \subseteq [rev : 0..n, row : Row]
  BY <1>1
<1>3. [rev : 0..m, entries : [Ids -> Row]] \subseteq [rev : 0..n, entries : [Ids -> Row]]
  BY <1>1
<1>4. TicketType(m) \subseteq TicketType(n)
  BY <1>1 DEF TicketType
<1> QED
  BY <1>1, <1>2, <1>3, <1>4, Zenon DEF ObservedType, DirsType

(* Constant rows and records have their types. *)
LEMMA Constants ==
    /\ NoRow \in Row /\ NoPage \in Batch /\ Start(-1) \in Cursors
    /\ NoReply \in [Ids -> Row]
    /\ \A want \in {"resume", "reset"} : Idle(want) \in WorkerType
    /\ \A n \in Nat : /\ NoObservation \in [rev : 0..n, row : Row]
                      /\ NoListing \in [rev : 0..n, entries : [Ids -> Row]]
                      /\ Unasked \in TicketType(n)
<1>1. NoRow \in Row
  BY BoundAssumption DEF NoRow, Row
<1>2. [i \in Ids |-> NoRow] \in [Ids -> Row]
  BY <1>1
<1>3. NoPage \in Batch
  BY <1>2 DEF NoPage, Batch
<1>4. Start(-1) \in Cursors /\ -1 \in -1..MaxChanges
  BY PageAssumption, BoundAssumption DEF Start, Cursors
<1>5. ASSUME NEW n \in Nat PROVE 0 \in 0..n /\ 1 \in 1..Pages
  BY PageAssumption
<1> QED
  BY <1>1, <1>2, <1>3, <1>4, <1>5, Zenon DEF NoReply, NoObservation, NoListing, Unasked, TicketType, Idle,
     WorkerType

(* An index whose first round is to come or just over. *)
LEMMA InitIndex == Init => IndexInv
<1> SUFFICES ASSUME Init PROVE IndexInv
  OBVIOUS
<1>1. PICK cursor \in {-1, 0} :
          /\ feed = [cursor |-> cursor, phase |-> "done", next |-> Start(-1)]
          /\ clock = 2 - cursor /\ started = cursor + 1 /\ scoped = 2 * (cursor + 1)
          /\ nodes = [i \in Ids |-> IF cursor = 0 THEN remote[i] ELSE NoRow]
  BY Zenon DEF Init
<1>2. /\ remote = [i \in Ids |-> [at |-> First, ver |-> 0]] /\ seq = 0 /\ mode \in Modes
      /\ staged = NoPage /\ worker = Idle("resume")
      /\ observed = [i \in Ids |-> NoObservation] /\ absent = [i \in Ids |-> 0]
      /\ dirs = [d \in Dirs |-> NoListing]
      /\ items = [i \in Named |-> 0] /\ folders = [i \in Named |-> 0]
      /\ obs = [o \in Observers |-> Unasked]
  BY Zenon DEF Init
<1> USE <1>2
<1>3. /\ clock \in 0..MaxRevision /\ clock \in Nat /\ started \in 0..clock /\ scoped \in 0..clock /\ 0 \in 0..clock
  BY <1>1, BoundAssumption
<1>4. [at |-> First, ver |-> 0] \in Row
  BY IdAssumption, BoundAssumption DEF Row, Dirs
<1>5. ProviderTypes
  BY <1>4, BoundAssumption DEF ProviderTypes
<1>6. feed \in FeedType
  BY <1>1, Constants, BoundAssumption DEF FeedType
<1>7. nodes \in [Ids -> Row]
  BY <1>1, <1>4, Constants, Zenon
<1>8. RoundTypes
  BY <1>6, <1>7, Constants, Zenon DEF RoundTypes
<1>9. OverlayTypes
  BY <1>3, Constants, Zenon DEF OverlayTypes, ObservedType, DirsType
<1>10. MarkTypes
  BY <1>3, Zenon DEF MarkTypes
<1>11. ReaderTypes
  BY <1>3, Constants, Zenon DEF ReaderTypes
<1>12. TypeOK
  BY <1>3, <1>5, <1>8, <1>9, <1>10, <1>11, Types, Zenon
<1>13. /\ feed.cursor = cursor /\ feed.phase = "done" /\ feed.next.page = 1
       /\ \A i \in Ids : /\ remote[i].ver = 0 /\ nodes[i] = (IF cursor = 0 THEN remote[i] ELSE NoRow)
                         /\ PageOf[i] \in 1..Pages
  BY <1>1, PageAssumption, Zenon DEF Start
<1>14. FeedCovers
  BY <1>13 DEF FeedCovers
<1>15. RoundInv
  BY <1>13, <1>14 DEF RoundInv, Reaches, NoPage
<1>16. PageInv
  BY Zenon DEF PageInv, Reaches, Idle, Start
<1>17. /\ \A i \in Ids : NoPage.rows[i].ver = 0 /\ NoRow.ver = 0 /\ worker.page = NoPage
       /\ \A o \in Observers : obs[o].at = "idle" /\ obs[o].kind = "node"
  BY Zenon DEF NoPage, NoRow, Idle, Unasked
<1>18. PastInv
  BY <1>13, <1>17 DEF PastInv
<1>19. ReaderInv
  BY <1>17, Zenon DEF ReaderInv, TicketInv, FreshReply, Answered
<1> QED
  BY <1>12, <1>15, <1>16, <1>18, <1>19, Zenon DEF IndexInv

(* The items and folders marked at the clock's next revision. *)
Marked(its, ds) ==
    /\ scoped' = scoped
    /\ \A i \in Named : items'[i] = IF i \in its THEN clock + 1 ELSE items[i]
    /\ \A d \in Named : folders'[d] = IF d \in ds THEN clock + 1 ELSE folders[d]
(* `Mark' moves the clock by one and marks exactly its items and folders. *)
LEMMA MarkStep ==
    ASSUME TypeOK, NEW its, NEW ds, Mark(its, ds)
    PROVE  /\ clock \in Nat /\ clock' = clock + 1 /\ clock' \in 0..MaxRevision
           /\ MarkTypes' /\ Marked(its, ds)
<1>1. clock \in 0..MaxRevision /\ MarkTypes
  BY Types
<1>2. clock' = clock + 1 /\ clock' \in 0..MaxRevision /\ clock \in Nat /\ clock' \in Nat
  BY <1>1, BoundAssumption DEF Mark
<1>3. scoped' \in 0..clock'
  BY <1>1, <1>2 DEF Mark, MarkTypes
<1>4. \A i \in Named : items[i] \in 0..clock' /\ folders[i] \in 0..clock' /\ clock + 1 \in 0..clock'
  BY <1>1, <1>2 DEF MarkTypes
<1>5. /\ items' = [i \in Named |-> IF i \in its THEN clock + 1 ELSE items[i]]
      /\ folders' = [d \in Named |-> IF d \in ds THEN clock + 1 ELSE folders[d]]
      /\ scoped' = scoped
  BY Zenon DEF Mark
<1> QED
  BY <1>2, <1>3, <1>4, <1>5, Zenon DEF MarkTypes, Marked

(* What the tables keep when the clock has not gone back. *)
LEMMA KeepTypes ==
    ASSUME TypeOK, clock' \in clock..MaxRevision
    PROVE  /\ clock' \in 0..MaxRevision
           /\ UNCHANGED started => started' \in 0..clock'
           /\ UNCHANGED overlay => OverlayTypes'
           /\ UNCHANGED <<scoped, items, folders>> => MarkTypes'
           /\ UNCHANGED obs => ReaderTypes'
           /\ UNCHANGED provider => ProviderTypes'
           /\ UNCHANGED <<mode, baseline, worker>> => RoundTypes'
<1>1. /\ clock \in Nat /\ clock' \in Nat /\ clock <= clock' /\ clock' \in 0..MaxRevision
  BY Types, BoundAssumption
<1>2. /\ ProviderTypes /\ RoundTypes /\ started \in 0..clock
      /\ OverlayTypes /\ MarkTypes /\ ReaderTypes
  BY Types
<1>3. PICK n \in Nat : n = clock' /\ clock <= n
  BY <1>1
<1>4. UNCHANGED provider => ProviderTypes'
  BY <1>2 DEF ProviderTypes, provider
<1>5. UNCHANGED <<mode, baseline, worker>> => RoundTypes'
  BY <1>2, Zenon DEF RoundTypes, baseline
<1>6. UNCHANGED obs => ReaderTypes'
  BY <1>1, <1>2, <1>3, Grown DEF ReaderTypes
<1>7. UNCHANGED overlay => OverlayTypes'
  BY <1>1, <1>2, <1>3, Grown DEF OverlayTypes, overlay
<1>8. UNCHANGED <<scoped, items, folders>> => MarkTypes'
  BY <1>1, <1>2, <1>3, Grown DEF MarkTypes
<1> QED
  BY <1>1, <1>2, <1>3, <1>4, <1>5, <1>6, <1>7, <1>8

(* The marks of a round. *)
LEMMA DeltaStep ==
    ASSUME TypeOK, NEW s \in Batch, PublishDelta(s)
    PROVE  /\ clock \in Nat /\ clock' \in Nat /\ clock' \in clock..MaxRevision /\ MarkTypes'
           /\ feed.phase = "reset" => scoped' = clock + 1
           /\ feed.phase # "reset" => Marked(s.ids, Touched(s))
<1>1. clock \in 0..MaxRevision /\ MarkTypes /\ clock \in Nat
  BY Types, BoundAssumption
<1>2. CASE feed.phase = "reset"
  <2>1. /\ clock' = clock + 1 /\ clock' \in 0..MaxRevision /\ scoped' = clock + 1
        /\ items' = [i \in Named |-> 0] /\ folders' = [i \in Named |-> 0]
    BY <1>1, <1>2, BoundAssumption DEF PublishDelta
  <2>2. MarkTypes'
    BY <1>1, <2>1 DEF MarkTypes
  <2> QED
    BY <1>1, <1>2, <2>1, <2>2
<1>3. CASE feed.phase # "reset" /\ s.ids = {}
  <2>1. UNCHANGED <<clock, scoped, items, folders>>
    BY <1>3, Zenon DEF PublishDelta
  <2>2. Touched(s) = {}
    BY <1>3 DEF Touched
  <2>3. MarkTypes'
    BY <1>1, <2>1 DEF MarkTypes
  <2> QED
    BY <1>1, <1>3, <2>1, <2>2, <2>3, BoundAssumption DEF Marked
<1>4. CASE feed.phase # "reset" /\ s.ids # {}
  <2>1. /\ clock' = clock + 1 /\ clock' \in 0..MaxRevision /\ scoped' = scoped
        /\ items' = [i \in Named |-> IF i \in s.ids THEN clock + 1 ELSE items[i]]
        /\ folders' = [i \in Named |-> IF i \in Touched(s) THEN clock + 1 ELSE folders[i]]
    BY <1>1, <1>4, BoundAssumption DEF PublishDelta
  <2>2. scoped' \in 0..clock' /\ \A i \in Named : items[i] \in 0..clock' /\ folders[i] \in 0..clock'
    BY <1>1, <2>1 DEF MarkTypes
  <2>3. clock + 1 \in 0..clock'
    BY <1>1, <2>1
  <2>4. MarkTypes'
    BY <2>1, <2>2, <2>3, Zenon DEF MarkTypes
  <2> QED
    BY <1>1, <1>4, <2>1, <2>4 DEF Marked
<1> QED
  BY <1>2, <1>3, <1>4, Zenon

(* Rounds and pages keep their types. *)
LEMMA OverType ==
    ASSUME NEW old \in Batch, NEW page \in Batch
    PROVE  /\ Over(old, page) \in Batch
           /\ Over(old, page).ids = old.ids \cup page.ids
           /\ \A i \in Ids : Over(old, page).rows[i] = IF i \in page.ids THEN page.rows[i] ELSE old.rows[i]
  BY Zenon DEF Over, Batch

(* Somebody changes an item, and with a folder what is in it. *)
LEMMA ChangeTypes ==
    ASSUME TypeOK, NEW i \in Ids, NEW at \in Dirs \cup {Nowhere}, Change(i, [at |-> at, ver |-> seq + 1])
    PROVE  /\ TypeOK' /\ seq \in Nat /\ seq' = seq + 1
           /\ \A j \in Ids : remote'[j] = remote[j] \/ remote'[j].ver = seq + 1
<1>1. ProviderTypes
  BY Types, Zenon
<1>2. seq \in 0..MaxChanges /\ seq' = seq + 1 /\ seq + 1 \in 0..MaxChanges
  BY <1>1, BoundAssumption DEF ProviderTypes, Change
<1>3. [at |-> at, ver |-> seq + 1] \in Row /\ [at |-> Nowhere, ver |-> seq + 1] \in Row
  BY <1>2, Zenon DEF Row
<1>4. /\ remote' \in [Ids -> Row]
      /\ \A j \in Ids : remote'[j] = remote[j] \/ remote'[j].ver = seq + 1
  BY <1>1, <1>3, Zenon DEF ProviderTypes, Change
<1>5. ProviderTypes'
  BY <1>2, <1>4, Zenon DEF ProviderTypes
<1>6. clock' \in clock..MaxRevision
  BY Types, BoundAssumption DEF Change, marks
<1>7. /\ UNCHANGED <<mode, baseline, worker>> /\ UNCHANGED overlay /\ UNCHANGED obs /\ UNCHANGED started
      /\ UNCHANGED <<scoped, items, folders>>
  BY Zenon DEF Change, marks, baseline
<1>8. TypeOK'
  BY <1>5, <1>6, <1>7, KeepTypes, TypesNext, Zenon
<1> QED
  BY <1>2, <1>4, <1>8

(* The feed worker's steps before the last page keep the types. *)
LEMMA BeginTypes ==
    ASSUME TypeOK, Begin
    PROVE  TypeOK' /\ clock' \in clock..MaxRevision
<1> DEFINE fresh == worker.want = "reset" \/ feed.phase = "done"
           full == worker.want = "reset" \/ mode = "snapshot" \/ feed.cursor = -1
<1>1. /\ worker.at = "idle" /\ BeginRound(fresh, full)
      /\ worker' = [worker EXCEPT !.at = "ask", !.cursor = feed'.next]
      /\ UNCHANGED <<mode, nodes>> /\ UNCHANGED provider /\ UNCHANGED overlay /\ UNCHANGED obs
      /\ UNCHANGED <<scoped, items, folders>>
  BY Zenon DEF Begin
<1> HIDE DEF fresh, full
<1>2. RoundTypes /\ clock \in 0..MaxRevision /\ clock \in Nat /\ started \in 0..clock
  BY Types, BoundAssumption
<1>3. clock' \in clock..MaxRevision /\ started' \in 0..clock'
  BY <1>1, <1>2, BoundAssumption DEF BeginRound
<1>4. Start(-1) \in Cursors /\ Start(feed.cursor) \in Cursors
  BY <1>2, PageAssumption, BoundAssumption DEF Start, Cursors, RoundTypes, FeedType
<1>5. feed' \in FeedType
  BY <1>1, <1>2, <1>4, Zenon DEF BeginRound, FeedType, RoundTypes
<1>6. staged' \in Batch
  BY <1>1, <1>2, Constants, Zenon DEF BeginRound, RoundTypes
<1>7. worker' \in WorkerType
  BY <1>1, <1>2, <1>5, Zenon DEF FeedType, WorkerType, RoundTypes
<1>8. RoundTypes'
  BY <1>1, <1>2, <1>5, <1>6, <1>7, Zenon DEF RoundTypes
<1> QED
  BY <1>1, <1>3, <1>8, KeepTypes, TypesNext, Zenon

(* The provider's answer is a page. *)
LEMMA FetchTypes ==
    ASSUME TypeOK, Fetch
    PROVE  /\ TypeOK'
           /\ worker'.at = "stage" /\ worker'.cursor = worker.cursor /\ worker'.upto = Upto(worker.cursor)
           /\ worker'.page.ids = {i \in Ids : Reported(worker.cursor, i)}
           /\ \A i \in Ids : worker'.page.rows[i] =
                  IF Reported(worker.cursor, i) THEN remote[i] ELSE NoRow
<1> DEFINE ids == {i \in Ids : Reported(worker.cursor, i)}
           page == [ids |-> ids, rows |-> [i \in Ids |-> IF i \in ids THEN remote[i] ELSE NoRow]]
<1>1. ProviderTypes /\ RoundTypes /\ worker \in WorkerType
  BY Types DEF RoundTypes
<1>2. page \in Batch
  BY <1>1, Constants, Zenon DEF Batch, ProviderTypes
<1>3. Upto(worker.cursor) \in -1..MaxChanges
  BY <1>1, BoundAssumption DEF Upto, WorkerType, Cursors, ProviderTypes
<1>4. worker' = [worker EXCEPT !.at = "stage", !.upto = Upto(worker.cursor), !.page = page]
  BY Zenon DEF Fetch
<1>5. page.ids = ids /\ \A i \in Ids : page.rows[i] = IF Reported(worker.cursor, i) THEN remote[i] ELSE NoRow
  BY Zenon
<1> HIDE DEF ids, page
<1>6. /\ worker' \in WorkerType /\ worker'.page = page
      /\ worker'.at = "stage" /\ worker'.cursor = worker.cursor /\ worker'.upto = Upto(worker.cursor)
  BY <1>1, <1>2, <1>3, <1>4, Zenon DEF WorkerType
<1>7. /\ UNCHANGED <<mode, feed, staged, nodes>> /\ UNCHANGED provider /\ UNCHANGED overlay
      /\ UNCHANGED obs /\ UNCHANGED <<scoped, items, folders>> /\ UNCHANGED started /\ UNCHANGED clock
  BY Zenon DEF Fetch, baseline, marks
<1>8. RoundTypes'
  BY <1>1, <1>6, <1>7, Zenon DEF RoundTypes
<1>9. clock' \in clock..MaxRevision
  BY <1>7, Types, BoundAssumption
<1>10. TypeOK'
  BY <1>7, <1>8, <1>9, KeepTypes, TypesNext, Zenon
<1> QED
  BY <1>5, <1>6, <1>10, Zenon DEF ids

(* The worker lets go of its page, and a crash lets go of every request. *)
LEMMA LetGoTypes ==
    ASSUME TypeOK, NEW want \in {"resume", "reset"}, worker' = Idle(want),
           UNCHANGED <<provider, mode, baseline, overlay, marks>>,
           UNCHANGED obs \/ obs' = [o \in Observers |-> Unasked]
    PROVE  TypeOK'
<1>1. RoundTypes /\ clock \in 0..MaxRevision /\ clock \in Nat
  BY Types, BoundAssumption
<1>2. clock' \in clock..MaxRevision /\ clock' = clock
  BY <1>1 DEF marks
<1>3. worker' \in WorkerType
  BY Constants, Zenon
<1>4. /\ UNCHANGED <<mode, feed, staged, nodes>> /\ UNCHANGED provider /\ UNCHANGED overlay
      /\ UNCHANGED <<scoped, items, folders>> /\ UNCHANGED started
  BY DEF baseline, marks
<1>5. RoundTypes'
  BY <1>1, <1>3, <1>4, Zenon DEF RoundTypes
<1>6. ReaderTypes'
  <2>1. CASE UNCHANGED obs
    BY <1>2, <2>1, KeepTypes, Zenon
  <2>2. CASE obs' = [o \in Observers |-> Unasked]
    BY <1>1, <1>2, <2>2, Constants, Zenon DEF ReaderTypes
  <2> QED BY <2>1, <2>2
<1> QED
  BY <1>2, <1>4, <1>5, <1>6, KeepTypes, TypesNext, Zenon

(* A page that is not the last joins the staged ones. *)
StageMore ==
    /\ worker.at = "stage" /\ feed.next = worker.cursor /\ feed.phase # "done" /\ worker.cursor.page # Pages
    /\ staged' = Over(staged, worker.page)
    /\ feed' = [feed EXCEPT !.next = [worker.cursor EXCEPT !.page = @ + 1, !.upto = worker.upto]]
    /\ worker' = [worker EXCEPT !.at = "ask", !.cursor = [worker.cursor EXCEPT !.page = @ + 1, !.upto = worker.upto],
                                !.upto = -1, !.page = NoPage]
    /\ UNCHANGED started /\ UNCHANGED nodes /\ UNCHANGED overlay /\ UNCHANGED marks
    /\ UNCHANGED provider /\ UNCHANGED mode /\ UNCHANGED obs
(* The last one completes the round. *)
StageLast ==
    /\ worker.at = "stage" /\ feed.next = worker.cursor /\ feed.phase # "done" /\ worker.cursor.page = Pages
    /\ Complete(Over(staged, worker.page))
    /\ UNCHANGED provider /\ UNCHANGED mode /\ UNCHANGED obs
(* `stage' does one or the other. *)
LEMMA StageCases == ASSUME Stage PROVE StageMore \/ StageLast
  BY Zenon DEF Stage, StageMore, StageLast

(* A staged page, when more are to come. *)
LEMMA StageMoreTypes ==
    ASSUME TypeOK, StageMore
    PROVE  /\ TypeOK'
           /\ feed'.next = worker'.cursor /\ feed'.cursor = feed.cursor /\ feed'.phase = feed.phase
           /\ feed'.next.from = feed.next.from /\ feed'.next.upto = worker.upto
           /\ feed'.next.page = feed.next.page + 1 /\ worker'.at = "ask" /\ worker'.page = NoPage
<1>1. RoundTypes /\ feed \in FeedType /\ worker \in WorkerType
  BY Types DEF RoundTypes
<1> DEFINE next == [worker.cursor EXCEPT !.page = @ + 1, !.upto = worker.upto]
<1>2. worker.cursor \in Cursors /\ worker.cursor.page \in 1..Pages /\ worker.upto \in -1..MaxChanges
  BY <1>1 DEF WorkerType, Cursors
<1>0. worker.cursor.page + 1 \in 1..Pages /\ -1 \in -1..MaxChanges
  BY <1>2, PageAssumption, BoundAssumption DEF StageMore
<1>3. /\ next \in Cursors /\ next.from = worker.cursor.from /\ next.upto = worker.upto
      /\ next.page = worker.cursor.page + 1
  BY <1>2, <1>0, Zenon DEF Cursors
<1> HIDE DEF next
<1>4. feed' = [feed EXCEPT !.next = next]
  BY DEF StageMore, next
<1>5. worker' = [worker EXCEPT !.at = "ask", !.cursor = next, !.upto = -1, !.page = NoPage]
  BY DEF StageMore, next
<1>6. feed' \in FeedType /\ feed'.next = next /\ feed'.cursor = feed.cursor /\ feed'.phase = feed.phase
  BY <1>1, <1>3, <1>4 DEF FeedType
<1>7. /\ worker' \in WorkerType /\ worker'.cursor = next /\ worker'.at = "ask" /\ worker'.page = NoPage
  BY <1>1, <1>3, <1>5, <1>0, Constants, Zenon DEF WorkerType
<1>8. staged' \in Batch
  BY <1>1, OverType, Zenon DEF StageMore, RoundTypes, WorkerType
<1>9. RoundTypes'
  BY <1>1, <1>6, <1>7, <1>8, Zenon DEF RoundTypes, StageMore
<1>10. /\ clock' \in clock..MaxRevision /\ UNCHANGED started /\ UNCHANGED overlay /\ UNCHANGED obs
       /\ UNCHANGED provider /\ UNCHANGED <<scoped, items, folders>>
  BY Types, BoundAssumption DEF StageMore, marks
<1>11. TypeOK'
  BY <1>9, <1>10, KeepTypes, TypesNext, Zenon
<1> QED
  BY <1>3, <1>6, <1>7, <1>11, Zenon DEF StageMore

(* What a completed round leaves. *)
LEMMA StageLastTypes ==
    ASSUME TypeOK, StageLast
    PROVE  /\ TypeOK' /\ PublishDelta(Over(staged, worker.page)) /\ Reconcile(Over(staged, worker.page))
           /\ feed'.cursor = worker.upto /\ feed'.phase = "done" /\ feed'.next = Start(-1)
           /\ worker' = Idle("resume") /\ staged' = NoPage
<1> DEFINE s == Over(staged, worker.page)
<1>1. RoundTypes /\ OverlayTypes /\ worker \in WorkerType /\ started \in 0..clock
  BY Types DEF RoundTypes
<1>2. s \in Batch
  BY <1>1, OverType, Zenon DEF RoundTypes, WorkerType
<1> HIDE DEF s
<1>3. /\ PublishDelta(s) /\ Reconcile(s) /\ staged' = NoPage /\ worker' = Idle("resume") /\ UNCHANGED started
      /\ nodes' = [i \in Ids |->
            IF i \in s.ids THEN s.rows[i] ELSE IF feed.phase = "reset" THEN NoRow ELSE nodes[i]]
      /\ feed' = [cursor |-> worker.upto, phase |-> "done", next |-> Start(-1)]
      /\ UNCHANGED provider /\ UNCHANGED mode /\ UNCHANGED obs
  BY Zenon DEF StageLast, Complete, s
<1>4. clock' \in clock..MaxRevision /\ MarkTypes' /\ clock \in Nat /\ clock' \in Nat /\ clock <= clock'
  BY <1>2, <1>3, DeltaStep, BoundAssumption
<1>5. feed' \in FeedType /\ worker' \in WorkerType /\ staged' \in Batch
  BY <1>1, <1>3, Constants, Zenon DEF FeedType, WorkerType
<1>6. nodes' \in [Ids -> Row]
  BY <1>1, <1>2, <1>3, Constants, Zenon DEF RoundTypes, Batch
<1>7. RoundTypes'
  BY <1>1, <1>3, <1>5, <1>6, Zenon DEF RoundTypes
<1>8. OverlayTypes'
  <2>1. PICK n \in Nat : n = clock' /\ clock <= n
    BY <1>4
  <2>2. /\ observed \in ObservedType(n) /\ absent \in [Ids -> 0..n] /\ dirs \in DirsType(n)
    BY <1>1, <1>4, <2>1, Grown, Zenon DEF OverlayTypes
  <2>3. observed' \in ObservedType(n)
    BY <1>3, <2>2, Constants, ZenonT(60) DEF Reconcile, ObservedType
  <2>4. absent' \in [Ids -> 0..n]
    BY <1>3, <2>1, <2>2 DEF Reconcile
  <2>5. dirs' \in DirsType(n)
    BY <1>3, <2>2, Constants, Zenon DEF Reconcile, DirsType
  <2> QED
    BY <2>1, <2>3, <2>4, <2>5 DEF OverlayTypes
<1>9. TypeOK'
  BY <1>3, <1>4, <1>7, <1>8, KeepTypes, TypesNext, Zenon
<1> QED
  BY <1>3, <1>9, Zenon DEF s

(* An observer's step outside the tables. *)
ObserverStep(o, ticket) ==
    /\ obs' = [obs EXCEPT ![o] = ticket]
    /\ UNCHANGED provider /\ UNCHANGED mode /\ UNCHANGED baseline /\ UNCHANGED worker
(* Observer o has the ticket, the others have theirs. *)
Turned(o, ticket) == obs'[o] = ticket /\ \A p \in Observers \ {o} : obs'[p] = obs[p]
(* Such a step keeps the types, and every other observer's ticket. *)
LEMMA ObserverTypes ==
    ASSUME TypeOK, NEW o \in Observers, NEW ticket, ObserverStep(o, ticket),
           clock' \in clock..MaxRevision, ticket \in TicketType(clock'), OverlayTypes', MarkTypes'
    PROVE  TypeOK' /\ Turned(o, ticket)
<1>1. PICK n \in Nat : n = clock' /\ clock <= n /\ clock \in Nat
  BY Types, BoundAssumption
<1>2. obs \in [Observers -> TicketType(n)]
  BY <1>1, Types, Grown, Zenon DEF ReaderTypes
<1>3. obs' \in [Observers -> TicketType(n)]
  BY <1>1, <1>2 DEF ObserverStep
<1>4. /\ ReaderTypes' /\ UNCHANGED provider /\ UNCHANGED <<mode, baseline, worker>> /\ UNCHANGED started
  BY <1>1, <1>3, Zenon DEF ReaderTypes, ObserverStep, baseline
<1>5. Turned(o, ticket)
  BY <1>2 DEF ObserverStep, Turned
<1> QED
  BY <1>4, <1>5, KeepTypes, TypesNext, Zenon

(* A ticket is taken. *)
Ticket(kind, id, t) == [Unasked EXCEPT !.at = "sent", !.kind = kind, !.id = id, !.rev = t]
(* Taking one keeps the types. *)
LEMMA AskTypes ==
    ASSUME TypeOK, NEW o \in Observers, NEW kind \in {"node", "directory"}, NEW id \in Named,
           Ask(o, kind, id)
    PROVE  /\ TypeOK' /\ Turned(o, Ticket(kind, id, clock + 1)) /\ ObserverStep(o, Ticket(kind, id, clock + 1))
           /\ UNCHANGED <<overlay, scoped, items, folders>>
<1>1. clock \in Nat /\ clock' = clock + 1 /\ clock' \in clock..MaxRevision
  BY Types, BoundAssumption DEF Ask
<1>2. ObserverStep(o, Ticket(kind, id, clock + 1)) /\ UNCHANGED overlay /\ UNCHANGED <<scoped, items, folders>>
  BY DEF Ask, ObserverStep, Ticket
<1>3. Unasked \in TicketType(clock + 1) /\ clock + 1 \in 0..clock + 1
  BY <1>1, Constants
<1>4. Ticket(kind, id, clock + 1) \in TicketType(clock + 1)
  BY <1>3, Zenon DEF TicketType, Ticket
<1> QED
  BY <1>1, <1>2, <1>4, KeepTypes, ObserverTypes, Zenon

(* A reply comes in, wholly or by a page. *)
LEMMA ReplyTypes ==
    ASSUME TypeOK, NEW o \in Observers, NEW ticket \in TicketType(clock), ObserverStep(o, ticket),
           UNCHANGED overlay, UNCHANGED marks
    PROVE  TypeOK' /\ Turned(o, ticket)
<1>1. clock' \in clock..MaxRevision /\ clock' = clock /\ UNCHANGED <<scoped, items, folders>>
  BY Types, BoundAssumption DEF marks
<1> QED
  BY <1>1, KeepTypes, ObserverTypes, Zenon

(* The ticket with the one row asked for. *)
NodeTicket(o) ==
    [obs[o] EXCEPT !.at = "back", !.reply = [@ EXCEPT ![obs[o].id] = remote[obs[o].id]]]
(* An answered lookup keeps the types. *)
LEMMA AnswerNodeTypes ==
    ASSUME TypeOK, NEW o \in Observers, AnswerNode(o)
    PROVE  TypeOK' /\ Turned(o, NodeTicket(o))
<1>1. obs[o] \in TicketType(clock) /\ remote \in [Ids -> Row] /\ obs \in [Observers -> TicketType(clock)]
  BY Types DEF ReaderTypes, ProviderTypes
<1>2. NodeTicket(o) \in TicketType(clock)
  BY <1>1, Zenon DEF TicketType, NodeTicket
<1>3. ObserverStep(o, NodeTicket(o)) /\ UNCHANGED overlay /\ UNCHANGED marks
  BY <1>1, Zenon DEF AnswerNode, ObserverStep, TicketType, NodeTicket
<1> QED
  BY <1>2, <1>3, ReplyTypes

(* The ticket with one more page of the listing. *)
PageTicket(o) ==
    [obs[o] EXCEPT
        !.at = IF obs[o].page = Pages THEN "back" ELSE "sent",
        !.page = IF obs[o].page = Pages THEN 1 ELSE obs[o].page + 1,
        !.reply = [i \in Ids |-> IF PageOf[i] = obs[o].page THEN remote[i] ELSE obs[o].reply[i]]]
(* An answered page keeps the types. *)
LEMMA AnswerPageTypes ==
    ASSUME TypeOK, NEW o \in Observers, AnswerPage(o)
    PROVE  TypeOK' /\ Turned(o, PageTicket(o))
<1>1. obs[o] \in TicketType(clock) /\ remote \in [Ids -> Row] /\ obs \in [Observers -> TicketType(clock)]
  BY Types DEF ReaderTypes, ProviderTypes
<1> DEFINE t == PageTicket(o)
<1>2. (IF obs[o].page = Pages THEN 1 ELSE obs[o].page + 1) \in 1..Pages
  <2>1. \A n \in 1..Pages : (IF n = Pages THEN 1 ELSE n + 1) \in 1..Pages
    BY PageAssumption
  <2>2. obs[o].page \in 1..Pages
    BY <1>1, Zenon DEF TicketType
  <2> QED
    BY <2>1, <2>2, Zenon
<1>3. [i \in Ids |-> IF PageOf[i] = obs[o].page THEN remote[i] ELSE obs[o].reply[i]] \in [Ids -> Row]
  BY <1>1, Zenon DEF TicketType
<1>4. t \in TicketType(clock)
  BY <1>1, <1>2, <1>3, Zenon DEF TicketType, PageTicket
<1>5. ObserverStep(o, t) /\ UNCHANGED overlay /\ UNCHANGED marks
  <2>1. obs' = [obs EXCEPT ![o].at = t.at, ![o].page = t.page, ![o].reply = t.reply]
    BY <1>1, Zenon DEF AnswerPage, TicketType, PageTicket
  <2>2. obs' \in [Observers -> TicketType(clock)] /\ \A p \in Observers \ {o} : obs'[p] = obs[p]
    BY <1>1, <1>2, <1>3, <2>1, ZenonT(60) DEF TicketType, PageTicket
  <2>3. obs'[o] = t
    BY <1>1, <2>1, Zenon DEF TicketType, PageTicket
  <2>4. obs' = [obs EXCEPT ![o] = t]
    BY <1>1, <1>4, <2>2, <2>3, Zenon
  <2> QED
    BY <2>4, Zenon DEF AnswerPage, ObserverStep
<1> QED
  BY <1>4, <1>5, ReplyTypes

(* A request ends and nothing of it is kept. *)
Dropped(o) == ObserverStep(o, Unasked) /\ UNCHANGED overlay /\ UNCHANGED marks
(* Dropping one keeps the types. *)
LEMMA DroppedTypes ==
    ASSUME TypeOK, NEW o \in Observers, Dropped(o)
    PROVE  TypeOK' /\ Turned(o, Unasked)
<1>1. Unasked \in TicketType(clock)
  BY Types, Constants, BoundAssumption
<1> QED
  BY <1>1, ReplyTypes DEF Dropped

(* A reply is published: what it changes of an item, `current' has let pass, *)
(* and the folder the item is now said to be in is marked.                   *)
Publication(o, its, ds) ==
    /\ obs[o].at = "back"
    /\ \A i \in Ids : observed'[i] # observed[i] \/ absent'[i] # absent[i] =>
          /\ Answered(o, i) /\ Unmarked(o, i)
          /\ observed'[i].row.at \in ds \cup {Nowhere}
    /\ observed' \in ObservedType(clock) /\ absent' \in [Ids -> 0..clock] /\ dirs' \in DirsType(clock)
    /\ Mark(its, ds) /\ ObserverStep(o, Unasked)
Published(o) == \E its, ds : Publication(o, its, ds)

(* Each of the three publishing operations drops its reply or publishes it. *)
LEMMA NodePublication ==
    ASSUME TypeOK, NEW o \in Observers, PublishNode(o)
    PROVE  Dropped(o) \/ Published(o)
<1> DEFINE i == obs[o].id
           row == obs[o].reply[i]
<1>1. obs[o].at = "back" /\ obs[o].kind = "node" /\ ObserverStep(o, Unasked)
  BY Zenon DEF PublishNode, ObserverStep
<1>2. /\ observed \in ObservedType(clock) /\ absent \in [Ids -> 0..clock] /\ dirs \in DirsType(clock)
      /\ obs[o].rev \in 0..clock /\ \A j \in Ids : obs[o].reply[j] \in Row
      /\ 0 \in 0..clock
  BY Types, BoundAssumption DEF OverlayTypes, ReaderTypes, TicketType
<1>3. CASE ~Current(o, {i}, {row.at})
  BY <1>1, <1>3, Zenon DEF PublishNode, Dropped, overlay, marks
<1>4. CASE Current(o, {i}, {row.at})
  <2>1. /\ Mark({i}, {row.at, Seen(i).at})
        /\ absent' = [absent EXCEPT ![i] = 0]
        /\ observed' = [observed EXCEPT ![i] = [rev |-> obs[o].rev, row |-> row]]
        /\ UNCHANGED dirs
    BY <1>4, Zenon DEF PublishNode
  <2>2. Answered(o, i) /\ Unmarked(o, i)
    BY <1>1, <1>4, Zenon DEF Current, Answered, Unmarked
  <2>3. observed' \in ObservedType(clock) /\ absent' \in [Ids -> 0..clock] /\ dirs' \in DirsType(clock)
    BY <1>2, <2>1, Zenon DEF ObservedType
  <2>4. ASSUME NEW j \in Ids, observed'[j] # observed[j] \/ absent'[j] # absent[j]
        PROVE  j = i /\ observed'[j].row.at \in {row.at, Seen(i).at} \cup {Nowhere}
    BY <1>2, <2>1, <2>4, Zenon DEF ObservedType
  <2> HIDE DEF i, row
  <2>5. Publication(o, {i}, {row.at, Seen(i).at})
    BY <1>1, <2>1, <2>2, <2>3, <2>4, Zenon DEF Publication
  <2> QED
    BY <2>5, Zenon DEF Published
<1> QED
  BY <1>3, <1>4, Zenon
(* The publication of an absence. *)
LEMMA AbsencePublication ==
    ASSUME TypeOK, NEW o \in Observers, PublishAbsence(o)
    PROVE  Dropped(o) \/ Published(o)
<1> DEFINE i == obs[o].id
<1>1. obs[o].at = "back" /\ obs[o].kind = "node" /\ ObserverStep(o, Unasked)
  BY Zenon DEF PublishAbsence, ObserverStep
<1>2. /\ observed \in ObservedType(clock) /\ absent \in [Ids -> 0..clock] /\ dirs \in DirsType(clock)
      /\ obs[o].rev \in 0..clock /\ NoObservation \in [rev : 0..clock, row : Row]
  BY Types, Constants, BoundAssumption DEF OverlayTypes, ReaderTypes, TicketType
<1>3. CASE ~Current(o, {i}, {Seen(i).at})
  BY <1>1, <1>3, Zenon DEF PublishAbsence, Dropped, overlay, marks
<1>4. CASE Current(o, {i}, {Seen(i).at})
  <2>1. /\ Mark({i}, {i, Seen(i).at})
        /\ observed' = [observed EXCEPT ![i] = NoObservation]
        /\ absent' = [absent EXCEPT ![i] = obs[o].rev]
        /\ UNCHANGED dirs
    BY <1>4, Zenon DEF PublishAbsence
  <2>2. Answered(o, i) /\ Unmarked(o, i)
    BY <1>1, <1>4, Zenon DEF Current, Answered, Unmarked
  <2>3. observed' \in ObservedType(clock) /\ absent' \in [Ids -> 0..clock] /\ dirs' \in DirsType(clock)
    BY <1>2, <2>1, Zenon DEF ObservedType
  <2>4. ASSUME NEW j \in Ids, observed'[j] # observed[j] \/ absent'[j] # absent[j]
        PROVE  j = i /\ observed'[j].row.at = Nowhere
    BY <1>2, <2>1, <2>4, Zenon DEF ObservedType, NoObservation, NoRow
  <2> HIDE DEF i
  <2>5. Publication(o, {i}, {i, Seen(i).at})
    BY <1>1, <2>1, <2>2, <2>3, <2>4, Zenon DEF Publication
  <2> QED
    BY <2>5, Zenon DEF Published
<1> QED
  BY <1>3, <1>4, Zenon
(* The publication of a listing. *)
LEMMA DirectoryPublication ==
    ASSUME TypeOK, NEW o \in Observers, PublishDirectory(o)
    PROVE  Dropped(o) \/ Published(o)
<1> DEFINE d == obs[o].id
           removed == {i \in Missing(d, Incoming(o)) : Seen(i).at \in {d, Nowhere}}
           ds == {d} \cup {Seen(i).at : i \in Affected(o)}
<1>1. obs[o].at = "back" /\ obs[o].kind = "directory" /\ ObserverStep(o, Unasked)
  BY Zenon DEF PublishDirectory, ObserverStep
<1>2. /\ observed \in ObservedType(clock) /\ absent \in [Ids -> 0..clock] /\ dirs \in DirsType(clock)
      /\ obs[o].rev \in 0..clock /\ \A i \in Ids : obs[o].reply[i] \in Row
      /\ 0 \in 0..clock /\ NoObservation \in [rev : 0..clock, row : Row] /\ NoRow \in Row
  BY Types, Constants, BoundAssumption DEF OverlayTypes, ReaderTypes, TicketType
<1>3. CASE ~Current(o, Incoming(o), {})
  BY <1>1, <1>3, Zenon DEF PublishDirectory, Dropped, overlay, marks
<1>4. CASE Current(o, Incoming(o), {})
  <2>1. /\ Mark(Affected(o), ds)
        /\ observed' = [i \in Ids |->
              IF i \in Incoming(o) THEN [rev |-> obs[o].rev, row |-> obs[o].reply[i]]
              ELSE IF i \in removed THEN NoObservation ELSE observed[i]]
        /\ absent' = [i \in Ids |->
              IF i \in Incoming(o) THEN 0 ELSE IF i \in removed THEN obs[o].rev ELSE absent[i]]
        /\ dirs' = [dirs EXCEPT ![d] = [rev |-> obs[o].rev,
              entries |-> [i \in Ids |-> IF i \in Incoming(o) THEN obs[o].reply[i] ELSE NoRow]]]
    BY <1>4, Zenon DEF PublishDirectory
  <2>2. ASSUME NEW i \in Ids, i \in Incoming(o) \/ i \in removed
        PROVE  Answered(o, i) /\ Unmarked(o, i)
    BY <1>1, <1>4, <2>2, Zenon DEF Current, Answered, Unmarked, Missing
  <2>3. observed' \in ObservedType(clock)
    BY <1>2, <2>1, Zenon DEF ObservedType
  <2>4. absent' \in [Ids -> 0..clock]
    BY <1>2, <2>1, Zenon
  <2>5. dirs' \in DirsType(clock)
    BY <1>2, <2>1, Zenon DEF DirsType
  <2>6. \A i \in Incoming(o) : obs[o].reply[i].at = d
    BY Zenon DEF Incoming
  <2> HIDE DEF d, removed
  <2>7. ASSUME NEW i \in Ids, observed'[i] # observed[i] \/ absent'[i] # absent[i]
        PROVE  (i \in Incoming(o) \/ i \in removed) /\ observed'[i].row.at \in ds \cup {Nowhere}
    BY <2>1, <2>6, <2>7, Zenon DEF NoObservation, NoRow
  <2> HIDE DEF ds
  <2>8. Publication(o, Affected(o), ds)
    BY <1>1, <2>1, <2>2, <2>3, <2>4, <2>5, <2>7, Zenon DEF Publication
  <2> QED
    BY <2>8, Zenon DEF Published
<1> QED
  BY <1>3, <1>4, Zenon

(* A publication keeps the types, moves the clock and only adds marks. *)
LEMMA PublicationStep ==
    ASSUME TypeOK, NEW o \in Observers, NEW its, NEW ds, Publication(o, its, ds)
    PROVE  /\ TypeOK' /\ clock' = clock + 1 /\ Marked(its, ds) /\ Turned(o, Unasked)
           /\ UNCHANGED <<remote, seq, feed, staged, nodes, worker>>
<1>1. /\ ObserverStep(o, Unasked) /\ Mark(its, ds)
      /\ observed' \in ObservedType(clock) /\ absent' \in [Ids -> 0..clock] /\ dirs' \in DirsType(clock)
  BY Zenon DEF Publication
<1>2. /\ clock \in Nat /\ clock' = clock + 1 /\ clock' \in 0..MaxRevision
      /\ MarkTypes' /\ Marked(its, ds)
  BY <1>1, MarkStep, Zenon
<1>3. clock' \in clock..MaxRevision
  BY <1>2, BoundAssumption
<1>4. PICK n \in Nat : n = clock' /\ clock <= n
  BY <1>2
<1>5. observed' \in ObservedType(n) /\ absent' \in [Ids -> 0..n] /\ dirs' \in DirsType(n)
  BY <1>1, <1>2, <1>4, Grown, Zenon
<1>6. OverlayTypes'
  BY <1>4, <1>5 DEF OverlayTypes
<1>7. Unasked \in TicketType(clock')
  BY <1>4, Constants
<1>8. TypeOK' /\ Turned(o, Unasked)
  BY <1>1, <1>2, <1>3, <1>6, <1>7, ObserverTypes, Zenon
<1>9. UNCHANGED <<remote, seq, feed, staged, nodes, worker>>
  BY <1>1 DEF ObserverStep, provider, baseline
<1> QED
  BY <1>2, <1>8, <1>9

(* The steps of one observer. *)
Asked(o) ==
    \/ \E i \in Ids : Ask(o, "node", i)
    \/ \E d \in Dirs : Ask(o, "directory", d)
(* An observer asks, is answered, gives up or publishes. *)
LEMMA ObserveCases ==
    ASSUME TypeOK, NEW o \in Observers, Observe(o)
    PROVE  Asked(o) \/ AnswerNode(o) \/ AnswerPage(o) \/ Dropped(o) \/ Published(o)
<1>1. CASE \E i \in Ids : AskNode(o, i)
  BY <1>1 DEF AskNode, Asked
<1>2. CASE \E d \in Dirs : AskDirectory(o, d)
  BY <1>2, Zenon DEF AskDirectory, Asked
<1>3. CASE GiveUp(o)
  BY <1>3 DEF GiveUp, Dropped, ObserverStep
<1>4. CASE PublishNode(o) \/ PublishAbsence(o) \/ PublishDirectory(o)
  BY <1>4, NodePublication, AbsencePublication, DirectoryPublication, Zenon
<1> QED
  BY <1>1, <1>2, <1>3, <1>4, Zenon DEF Observe

(* A page or a request is let go: the cursor has expired, the feed fails or  *)
(* the process ends.                                                         *)
LetGo ==
    /\ \E want \in {"resume", "reset"} : worker' = Idle(want)
    /\ UNCHANGED provider /\ UNCHANGED mode /\ UNCHANGED baseline /\ UNCHANGED overlay /\ UNCHANGED marks
    /\ UNCHANGED obs \/ obs' = [o \in Observers |-> Unasked]
Changed == \E i \in Ids, at \in Dirs \cup {Nowhere} : Change(i, [at |-> at, ver |-> seq + 1])
(* The steps there are, by what they do. *)
LEMMA NextCases ==
    ASSUME TypeOK, Next
    PROVE  \/ Changed \/ Begin \/ Fetch \/ StageMore \/ StageLast \/ LetGo
           \/ \E o \in Observers : \/ Asked(o) \/ AnswerNode(o) \/ AnswerPage(o)
                                   \/ Dropped(o) \/ Published(o)
<1>1. worker.want \in {"resume", "reset"}
  BY Types DEF RoundTypes, WorkerType
<1>2. CASE \E i \in Ids, d \in Dirs : Put(i, d)
  BY <1>2, Zenon DEF Put, Changed
<1>3. CASE \E i \in Ids : Remove(i)
  BY <1>3, Zenon DEF Remove, Changed
<1>4. CASE Expired \/ FeedFails \/ Crash
  BY <1>1, <1>4, Zenon DEF Expired, FeedFails, Crash, LetGo
<1>5. CASE Stage
  BY <1>5, StageCases
<1>6. CASE \E o \in Observers : Observe(o)
  BY <1>6, ObserveCases
<1> QED
  BY <1>2, <1>3, <1>4, <1>5, <1>6, Zenon DEF Next

-----------------------------------------------------------------------------
(* The round and the page in the worker's hands. *)
LEMMA Numbers ==
    ASSUME TypeOK
    PROVE  /\ seq \in Nat /\ feed \in FeedType /\ feed.cursor \in Int /\ feed.cursor >= -1
           /\ feed.next.page \in 1..Pages /\ feed.next.upto \in Int
           /\ worker \in WorkerType /\ worker.upto \in Int
           /\ staged \in Batch /\ worker.page \in Batch /\ Pages \in Nat
           /\ \A i \in Ids : remote[i].ver \in Nat /\ PageOf[i] \in 1..Pages
<1>1. ProviderTypes /\ RoundTypes
  BY Types
<1>2. feed.cursor \in -1..MaxChanges /\ feed.next \in Cursors /\ feed \in FeedType
  BY <1>1 DEF RoundTypes, FeedType
<1>3. worker \in WorkerType /\ worker.upto \in -1..MaxChanges /\ worker.page \in Batch /\ staged \in Batch
  BY <1>1 DEF RoundTypes, WorkerType
<1>4. feed.next.page \in 1..Pages /\ feed.next.upto \in Int
  BY <1>2, BoundAssumption DEF Cursors
<1>5. seq \in Nat /\ \A i \in Ids : remote[i].ver \in Nat
  BY <1>1, BoundAssumption DEF ProviderTypes, Row
<1> QED
  BY <1>2, <1>3, <1>4, <1>5, PageAssumption, BoundAssumption

(* A change of an item puts it out of reach of what a round has to cover. *)
LEMMA ChangeRound ==
    ASSUME TypeOK, RoundInv, PageInv, Changed
    PROVE  TypeOK' /\ RoundInv' /\ PageInv'
<1>1. PICK i \in Ids, at \in Dirs \cup {Nowhere} : Change(i, [at |-> at, ver |-> seq + 1])
  BY DEF Changed
<1>2. /\ TypeOK' /\ seq \in Nat /\ seq' = seq + 1
      /\ \A j \in Ids : remote'[j] = remote[j] \/ remote'[j].ver = seq + 1
  BY <1>1, ChangeTypes, Zenon
<1>3. UNCHANGED <<feed, staged, nodes, worker>>
  BY <1>1, Zenon DEF Change, baseline
<1>4. /\ feed.cursor \in Int /\ feed.next.page \in 1..Pages /\ feed.next.upto \in Int
      /\ worker.upto \in Int /\ Pages \in Nat
      /\ \A j \in Ids : remote[j].ver \in Nat /\ PageOf[j] \in 1..Pages
  BY Numbers, Zenon
<1>5. \A j \in Ids : /\ remote'[j].ver <= seq' /\ remote[j].ver <= seq
                     /\ \A n \in Int : n <= seq /\ remote'[j].ver <= n => remote'[j] = remote[j]
  <2>1. \A j \in Ids : remote[j].ver <= seq
    BY Zenon DEF RoundInv
  <2> QED
    BY <1>2, <1>4, <2>1
<1>6. FeedCovers'
  BY <1>3, <1>4, <1>5, Zenon DEF RoundInv, FeedCovers
<1>7. ASSUME NEW j \in Ids, PageOf[j] < feed.next.page PROVE Covered(staged, feed.next.from, feed.next.upto, j)'
  <2>1. Covered(staged, feed.next.from, feed.next.upto, j) /\ feed.next.upto <= seq
    <3>1. /\ Covered(staged, feed.next.from, feed.next.upto, j)
          /\ feed.next.page = 1 \/ feed.next.upto \in 0..seq
      BY <1>7, Zenon DEF RoundInv, Reaches
    <3> QED
      BY <1>2, <1>4, <1>7, <3>1
  <2> QED
    BY <1>3, <1>4, <1>5, <2>1, Zenon DEF Covered
<1>8. /\ Reaches(feed.next)' /\ Reaches(worker.cursor)'
      /\ worker.at = "stage" => worker.upto \in 0..seq /\ worker.upto \in 0..seq'
  <2>1. 0..seq \subseteq 0..seq'
    BY <1>2
  <2> QED
    BY <1>3, <2>1, Zenon DEF Reaches, RoundInv, PageInv
<1>9. ASSUME NEW j \in Ids, worker.at = "stage", PageOf[j] = worker.cursor.page
      PROVE  Covered(worker.page, worker.cursor.from, worker.upto, j)'
  <2>1. Covered(worker.page, worker.cursor.from, worker.upto, j) /\ worker.upto <= seq
    <3>1. Covered(worker.page, worker.cursor.from, worker.upto, j)
      BY <1>9, Zenon DEF PageInv
    <3> QED
      BY <1>2, <1>8, <1>9, <3>1
  <2> QED
    BY <1>3, <1>4, <1>5, <2>1, Zenon DEF Covered
<1>10. feed.cursor <= seq'
  <2>1. feed.cursor <= seq
    BY Zenon DEF RoundInv
  <2> QED
    BY <1>2, <1>4, <2>1
<1>11. RoundInv'
  BY <1>3, <1>5, <1>6, <1>7, <1>8, <1>10, Zenon DEF RoundInv
<1>12. PageInv'
  BY <1>3, <1>8, <1>9, Zenon DEF PageInv
<1> QED
  BY <1>2, <1>11, <1>12

(* A fresh round starts with nothing staged, a resumed one where it was. *)
LEMMA BeginRoundInv ==
    ASSUME TypeOK, RoundInv, PageInv, Begin
    PROVE  TypeOK' /\ RoundInv' /\ PageInv'
<1> DEFINE fresh == worker.want = "reset" \/ feed.phase = "done"
           full == worker.want = "reset" \/ mode = "snapshot" \/ feed.cursor = -1
<1>1. /\ BeginRound(fresh, full)
      /\ worker' = [worker EXCEPT !.at = "ask", !.cursor = feed'.next]
      /\ UNCHANGED <<remote, seq, nodes>>
  BY Zenon DEF Begin, provider
<1>2. /\ feed \in FeedType /\ feed.cursor \in Int /\ feed.cursor >= -1 /\ worker \in WorkerType
      /\ \A i \in Ids : PageOf[i] \in 1..Pages
      /\ Pages \in Nat
  BY Numbers, Zenon
<1>3. worker'.at = "ask" /\ worker'.cursor = feed'.next
  BY <1>1, <1>2 DEF WorkerType
<1>4. CASE fresh
  <2>1. /\ feed'.phase = (IF full THEN "reset" ELSE "delta") /\ feed'.cursor = feed.cursor
        /\ feed'.next = Start(IF full THEN -1 ELSE feed.cursor)
        /\ staged' = (IF full THEN NoPage ELSE staged)
    BY <1>1, <1>2, <1>4, Zenon DEF BeginRound, FeedType
  <2>2. staged' = NoPage
    BY <1>4, <2>1, Zenon DEF RoundInv
  <2>3. ~full => feed.cursor >= 0
    BY <1>2
  <2> HIDE DEF full
  <2>4. /\ feed'.next.page = 1 /\ feed'.next.from = (IF full THEN -1 ELSE feed.cursor)
    BY <2>1 DEF Start
  <2>5. \A i \in Ids : ~(PageOf[i] < feed'.next.page) /\ i \notin staged'.ids
    BY <1>2, <2>2, <2>4 DEF NoPage
  <2>6. Reaches(feed.next)'
    BY <2>4 DEF Reaches
  <2>7. FeedCovers'
    BY <1>1, <2>1, Zenon DEF RoundInv, FeedCovers
  <2>8. RoundInv'
    BY <1>1, <2>1, <2>2, <2>3, <2>4, <2>5, <2>6, <2>7, Zenon DEF RoundInv
  <2> QED
    BY <1>3, <2>6, <2>8, BeginTypes, Zenon DEF PageInv, Reaches
<1>5. CASE ~fresh
  <2>1. feed' = feed /\ staged' = staged
    BY <1>1, <1>5 DEF BeginRound
  <2>2. RoundInv'
    BY <1>1, <2>1, Zenon DEF RoundInv, FeedCovers, Covered, Reaches
  <2> QED
    BY <1>3, <2>1, <2>2, BeginTypes, Zenon DEF PageInv, RoundInv, Reaches
<1> QED
  BY <1>4, <1>5, Zenon

(* A page has what changed on it since the round's cursor. *)
LEMMA FetchRound ==
    ASSUME TypeOK, RoundInv, PageInv, Fetch
    PROVE  RoundInv' /\ PageInv'
<1>1. /\ worker'.at = "stage" /\ worker'.cursor = worker.cursor /\ worker'.upto = Upto(worker.cursor)
      /\ worker'.page.ids = {i \in Ids : Reported(worker.cursor, i)}
      /\ \A i \in Ids : worker'.page.rows[i] = IF Reported(worker.cursor, i) THEN remote[i] ELSE NoRow
  BY FetchTypes, Zenon
<1>2. UNCHANGED <<remote, seq, feed, staged, nodes>>
  BY DEF Fetch, provider, baseline
<1>3. RoundInv'
  BY <1>2, Zenon DEF RoundInv, FeedCovers, Covered, Reaches
<1>4. /\ worker'.upto \in 0..seq /\ (worker.cursor.page # 1 => worker'.upto = worker.cursor.upto)
      /\ Reaches(worker.cursor)
  <2>1. Reaches(worker.cursor) /\ seq \in 0..seq
    BY Numbers DEF PageInv
  <2> QED
    BY <1>1, <2>1, Zenon DEF Reaches, Upto
<1>5. ASSUME NEW i \in Ids
      PROVE  IF PageOf[i] = worker.cursor.page
               THEN Covered(worker'.page, worker.cursor.from, worker'.upto, i)
               ELSE i \notin worker'.page.ids
  BY <1>1, Zenon DEF Reported, Covered
<1>6. PageInv'
  BY <1>1, <1>2, <1>4, <1>5, Zenon DEF PageInv, Reaches, Covered
<1> QED
  BY <1>3, <1>6

(* A worker that let go holds no page. *)
LEMMA LetGoRound ==
    ASSUME TypeOK, RoundInv, LetGo
    PROVE  TypeOK' /\ RoundInv' /\ PageInv'
<1>1. UNCHANGED <<remote, seq, feed, staged, nodes>>
  BY DEF LetGo, provider, baseline
<1>2. RoundInv'
  BY <1>1, Zenon DEF RoundInv, FeedCovers, Covered, Reaches
<1>3. PageInv'
  BY DEF LetGo, PageInv, Reaches, Idle, Start
<1>4. TypeOK'
  BY LetGoTypes DEF LetGo
<1> QED
  BY <1>2, <1>3, <1>4

(* What is staged and the page at hand make up the round so far. *)
LEMMA StagedSoFar ==
    ASSUME TypeOK, RoundInv, PageInv, worker.at = "stage", feed.next = worker.cursor,
           NEW i \in Ids
    PROVE  IF PageOf[i] <= feed.next.page
             THEN Covered(Over(staged, worker.page), feed.next.from, worker.upto, i)
             ELSE i \notin Over(staged, worker.page).ids
<1>1. /\ feed.next.page \in 1..Pages /\ PageOf[i] \in 1..Pages /\ Pages \in Nat
      /\ staged \in Batch /\ worker.page \in Batch
  BY Numbers, Zenon
<1>2. /\ Over(staged, worker.page).ids = staged.ids \cup worker.page.ids
      /\ Over(staged, worker.page).rows[i] =
           IF i \in worker.page.ids THEN worker.page.rows[i] ELSE staged.rows[i]
  BY <1>1, OverType
<1>3. /\ PageOf[i] < feed.next.page => feed.next.page # 1 /\ PageOf[i] # feed.next.page
      /\ PageOf[i] <= feed.next.page <=> PageOf[i] < feed.next.page \/ PageOf[i] = feed.next.page
  BY <1>1
<1>4. IF PageOf[i] < feed.next.page THEN Covered(staged, feed.next.from, feed.next.upto, i)
      ELSE i \notin staged.ids
  BY Zenon DEF RoundInv
<1>5. /\ feed.next.page # 1 => worker.upto = feed.next.upto
      /\ IF PageOf[i] = feed.next.page THEN Covered(worker.page, feed.next.from, worker.upto, i)
         ELSE i \notin worker.page.ids
  BY Zenon DEF PageInv
<1>6. CASE PageOf[i] < feed.next.page
  BY <1>2, <1>3, <1>4, <1>5, <1>6, Zenon DEF Covered
<1>7. CASE ~(PageOf[i] < feed.next.page)
  BY <1>2, <1>3, <1>4, <1>5, <1>7, Zenon DEF Covered
<1> QED
  BY <1>6, <1>7

(* One more page is staged. *)
LEMMA StageMoreRound ==
    ASSUME TypeOK, RoundInv, PageInv, StageMore
    PROVE  RoundInv' /\ PageInv'
<1>1. /\ feed'.next = worker'.cursor /\ feed'.cursor = feed.cursor /\ feed'.phase = feed.phase
      /\ feed'.next.from = feed.next.from /\ feed'.next.upto = worker.upto
      /\ feed'.next.page = feed.next.page + 1 /\ worker'.at = "ask"
  BY StageMoreTypes, Zenon
<1>2. /\ UNCHANGED <<remote, seq, nodes>> /\ staged' = Over(staged, worker.page) /\ feed.phase # "done"
      /\ worker.at = "stage" /\ feed.next = worker.cursor
  BY DEF StageMore, provider
<1>3. \A i \in Ids : PageOf[i] < feed.next.page + 1 <=> PageOf[i] <= feed.next.page
  BY Numbers
<1>4. Reaches(feed.next)'
  BY <1>1, <1>2, Zenon DEF PageInv, Reaches
<1>5. \A i \in Ids : IF PageOf[i] < feed'.next.page
                       THEN Covered(staged', feed'.next.from, feed'.next.upto, i)
                       ELSE i \notin staged'.ids
  BY <1>1, <1>2, <1>3, StagedSoFar, Zenon
<1>6. FeedCovers'
  BY <1>1, <1>2, Zenon DEF RoundInv, FeedCovers
<1>7. RoundInv'
  BY <1>1, <1>2, <1>4, <1>5, <1>6, Zenon DEF RoundInv, Covered
<1>8. PageInv'
  BY <1>1, <1>4, Zenon DEF PageInv, Reaches
<1> QED
  BY <1>7, <1>8

(* The completed round leaves an index that the new cursor covers. *)
LEMMA StageLastRound ==
    ASSUME TypeOK, RoundInv, PageInv, StageLast
    PROVE  RoundInv' /\ PageInv' /\ feed'.cursor >= 0
<1>1. /\ feed'.cursor = worker.upto /\ feed'.phase = "done" /\ feed'.next = Start(-1)
      /\ worker' = Idle("resume") /\ staged' = NoPage
  BY StageLastTypes
<1> DEFINE s == Over(staged, worker.page)
<1>2. /\ UNCHANGED <<remote, seq>> /\ worker.at = "stage" /\ feed.next = worker.cursor
      /\ feed.next.page = Pages /\ feed.phase # "done"
      /\ nodes' = [i \in Ids |->
            IF i \in s.ids THEN s.rows[i] ELSE IF feed.phase = "reset" THEN NoRow ELSE nodes[i]]
  BY Zenon DEF StageLast, Complete, provider
<1>3. /\ feed.cursor \in Int /\ feed.phase \in {"done", "delta", "reset"}
      /\ \A i \in Ids : PageOf[i] \in 1..Pages /\ remote[i].ver \in Nat
      /\ Pages \in Nat
  BY Numbers, Zenon DEF FeedType
<1>4. \A i \in Ids : PageOf[i] <= Pages /\ ~(PageOf[i] < 1) /\ remote[i].ver > -1
  BY <1>3
<1>5. worker.upto \in 0..seq
  BY <1>2, Zenon DEF PageInv
<1>6. worker.upto >= 0 /\ worker.upto <= seq
  BY <1>5, Numbers
<1>7. \A i \in Ids : Covered(s, feed.next.from, worker.upto, i)
  BY <1>2, <1>4, StagedSoFar, Zenon
<1> HIDE DEF s
<1>8. ASSUME NEW i \in Ids, remote[i].ver <= worker.upto PROVE nodes'[i] = remote[i]
  <2>1. CASE remote[i].ver > feed.next.from
    BY <1>2, <1>7, <1>8, <2>1, Zenon DEF Covered
  <2>2. CASE ~(remote[i].ver > feed.next.from)
    <3>1. i \notin s.ids
      BY <1>7, <1>8, <2>2, Zenon DEF Covered
    <3>2. feed.phase = "delta" /\ feed.next.from = feed.cursor
      BY <1>2, <1>3, <1>4, <2>2, Zenon DEF RoundInv
    <3>3. remote[i].ver <= feed.cursor
      BY <1>3, <2>2, <3>2
    <3> QED
      BY <1>2, <3>1, <3>2, <3>3, Zenon DEF RoundInv, FeedCovers
  <2> QED
    BY <2>1, <2>2
<1>9. FeedCovers'
  BY <1>1, <1>2, <1>8, Zenon DEF FeedCovers
<1>10. Reaches(feed.next)' /\ feed'.next.page = 1
  BY <1>1 DEF Reaches, Start
<1>11. \A i \in Ids : ~(PageOf[i] < feed'.next.page) /\ i \notin staged'.ids
  BY <1>1, <1>4, <1>10, Zenon DEF NoPage
<1>12. RoundInv'
  BY <1>1, <1>2, <1>6, <1>9, <1>10, <1>11, Zenon DEF RoundInv
<1>13. PageInv'
  BY <1>1, Zenon DEF PageInv, Reaches, Idle, Start
<1> QED
  BY <1>1, <1>6, <1>12, <1>13, Zenon

(* An observer's step leaves the round alone. *)
LEMMA QuietRound ==
    ASSUME RoundInv, PageInv, UNCHANGED <<remote, seq, feed, staged, nodes, worker>>
    PROVE  RoundInv' /\ PageInv'
  BY Zenon DEF RoundInv, PageInv, FeedCovers, Covered, Reaches
-----------------------------------------------------------------------------
(* Replies and what the feed has brought. *)

(* The numbers that versions and marks are compared by. *)
LEMMA Compared ==
    ASSUME TypeOK
    PROVE  /\ \A i \in Ids : /\ i \in Named /\ nodes[i].ver \in Nat
                             /\ staged.rows[i].ver \in Nat /\ worker.page.rows[i].ver \in Nat
           /\ \A o \in Observers : ~(clock + 1 <= obs[o].rev) /\ obs[o].page \in 1..Pages
           /\ NoRow.at = Nowhere /\ Nowhere \notin Named
<1>1. clock \in Nat /\ ReaderTypes /\ RoundTypes
  BY Types, BoundAssumption
<1>2. Ids \subseteq Named /\ Nowhere \notin Named
  BY IdAssumption DEF Named, Dirs, Ids
<1>3. \A row \in Row : row.ver \in Nat
  BY BoundAssumption DEF Row
<1>4. \A i \in Ids : nodes[i] \in Row /\ staged.rows[i] \in Row /\ worker.page.rows[i] \in Row
  BY <1>1, Zenon DEF RoundTypes, WorkerType, Batch
<1>5. \A o \in Observers : obs[o].rev \in 0..clock /\ obs[o].page \in 1..Pages
  BY <1>1, Zenon DEF ReaderTypes, TicketType
<1>6. \A n \in 0..clock : ~(clock + 1 <= n)
  BY <1>1
<1> QED
  BY <1>2, <1>3, <1>4, <1>5, <1>6, Zenon DEF NoRow

(* The feed moves rows of the provider's past, and the provider goes on. *)
LEMMA PastStep ==
    ASSUME TypeOK, RoundInv, PageInv, PastInv,
           Changed \/ Begin \/ Fetch \/ StageMore \/ StageLast \/ LetGo
    PROVE  PastInv'
<1>1. /\ \A i \in Ids : remote[i].ver \in Nat /\ NoPage.rows[i].ver = 0
      /\ staged \in Batch /\ worker.page \in Batch /\ NoRow.ver = 0
      /\ \A want : Idle(want).page = NoPage
  BY Numbers, Zenon DEF NoPage, NoRow, Idle
<1>2. \A i \in Ids : /\ remote[i].ver >= remote[i].ver
                     /\ remote[i].ver >= NoRow.ver /\ remote[i].ver >= NoPage.rows[i].ver
  BY <1>1
<1>3. CASE Changed
  <2>1. PICK i \in Ids, at \in Dirs \cup {Nowhere} : Change(i, [at |-> at, ver |-> seq + 1])
    BY <1>3, Zenon DEF Changed
  <2>2. seq \in Nat /\ \A j \in Ids : remote'[j] = remote[j] \/ remote'[j].ver = seq + 1
    BY <2>1, ChangeTypes, Zenon
  <2>3. UNCHANGED <<nodes, staged, worker>> /\ \A j \in Ids : remote[j].ver <= seq
    BY <2>1, ZenonT(60) DEF Change, baseline, RoundInv
  <2>4. \A j \in Ids : \A n \in Nat : remote[j].ver >= n => remote'[j].ver >= n
    BY <1>1, <2>2, <2>3
  <2> QED
    BY <2>3, <2>4, Compared, Zenon DEF PastInv
<1>4. CASE Begin
  <2>1. UNCHANGED <<remote, nodes>> /\ staged' \in {staged, NoPage}
    BY <1>4, Zenon DEF Begin, BeginRound, provider
  <2>2. worker'.page = worker.page
    BY <1>4, Numbers, Zenon DEF Begin, WorkerType
  <2> QED
    BY <1>2, <2>1, <2>2, Zenon DEF PastInv
<1>5. CASE Fetch
  <2>1. \A i \in Ids : worker'.page.rows[i] = IF Reported(worker.cursor, i) THEN remote[i] ELSE NoRow
    BY <1>5, FetchTypes, Zenon
  <2>2. UNCHANGED <<remote, nodes, staged>>
    BY <1>5, Zenon DEF Fetch, provider, baseline
  <2>3. \A i \in Ids : remote[i].ver >= worker'.page.rows[i].ver
    BY <1>2, <2>1, Zenon
  <2> QED
    BY <2>2, <2>3, Zenon DEF PastInv
<1>6. CASE StageMore
  <2>1. worker'.page = NoPage
    BY <1>6, StageMoreTypes, Zenon
  <2>2. UNCHANGED <<remote, nodes>> /\ staged' = Over(staged, worker.page)
    BY <1>6, Zenon DEF StageMore, provider
  <2>3. \A i \in Ids : staged'.rows[i] \in {worker.page.rows[i], staged.rows[i]}
    BY <1>1, <2>2, OverType
  <2> QED
    BY <1>2, <2>1, <2>2, <2>3, Zenon DEF PastInv
<1>7. CASE StageLast
  <2> DEFINE s == Over(staged, worker.page)
  <2>1. worker'.page = NoPage /\ staged' = NoPage
    BY <1>1, <1>7, StageLastTypes, Zenon
  <2>2. /\ UNCHANGED remote
        /\ nodes' = [i \in Ids |->
              IF i \in s.ids THEN s.rows[i] ELSE IF feed.phase = "reset" THEN NoRow ELSE nodes[i]]
    BY <1>7, Zenon DEF StageLast, Complete, provider
  <2>3. \A i \in Ids : s.rows[i] \in {worker.page.rows[i], staged.rows[i]}
    BY <1>1, OverType
  <2> HIDE DEF s
  <2>4. \A i \in Ids : nodes'[i] \in {worker.page.rows[i], staged.rows[i], NoRow, nodes[i]}
    BY <2>2, <2>3, Zenon
  <2> QED
    BY <1>2, <2>1, <2>2, <2>4, Zenon DEF PastInv
<1>8. CASE LetGo
  <2>1. UNCHANGED <<remote, nodes, staged>> /\ worker'.page = NoPage
    BY <1>1, <1>8, Zenon DEF LetGo, provider, baseline
  <2> QED
    BY <1>2, <2>1, Zenon DEF PastInv
<1> QED
  BY <1>3, <1>4, <1>5, <1>6, <1>7, <1>8, Zenon

(* An observer keeps its reply about i. *)
SameReply(o, i) ==
    Answered(o, i) /\ obs'[o].reply[i] = obs[o].reply[i] /\ obs'[o].rev = obs[o].rev /\ obs'[o].id = obs[o].id

(* An observer that has let go has been answered nothing. *)
LEMMA Forgotten ==
    ASSUME NEW o, obs'[o] = Unasked
    PROVE  TicketInv(o)' /\ \A i \in Ids : ~Answered(o, i)'
<1>1. obs'[o].at = "idle" /\ obs'[o].kind = "node"
  BY DEF Unasked
<1> QED
  BY <1>1 DEF TicketInv, Answered

(* Steps that change neither the index nor the marks: a reply is kept,       *)
(* forgotten, or is what the provider has now.                               *)
LEMMA ReadersKept ==
    ASSUME PastInv, ReaderInv, UNCHANGED <<nodes, observed, scoped, items, folders>>,
           \A o \in Observers : TicketInv(o)',
           \A o \in Observers, i \in Ids : Answered(o, i)' =>
               SameReply(o, i) \/ obs'[o].reply[i] = remote[i]
    PROVE  ReaderInv'
<1>1. ASSUME NEW o \in Observers, NEW i \in Ids PROVE FreshReply(o, i)'
  <2>1. CASE ~Answered(o, i)'
    BY <2>1, Zenon DEF FreshReply
  <2>2. CASE SameReply(o, i)
    BY <2>2, Zenon DEF ReaderInv, FreshReply, Unmarked, SameReply
  <2>3. CASE obs'[o].reply[i] = remote[i]
    BY <2>3, Zenon DEF FreshReply, PastInv
  <2> QED
    BY <2>1, <2>2, <2>3, Zenon
<1> QED
  BY <1>1, Zenon DEF ReaderInv

(* A completed round marks what it brings: the item, the folders it was in   *)
(* and the one it is in now.                                                 *)
LEMMA StageLastReaders ==
    ASSUME TypeOK, ReaderInv, StageLast
    PROVE  ReaderInv'
<1> DEFINE s == Over(staged, worker.page)
<1>1. PublishDelta(s) /\ Reconcile(s) /\ s \in Batch
  BY StageLastTypes, Numbers, OverType, Zenon
<1>2. /\ obs' = obs
      /\ \A i \in Ids : nodes'[i] = IF i \in s.ids THEN s.rows[i]
                                    ELSE IF feed.phase = "reset" THEN NoRow ELSE nodes[i]
  BY Zenon DEF StageLast, Complete
<1> HIDE DEF s
<1>3. /\ \A o \in Observers : ~(clock + 1 <= obs[o].rev)
      /\ Nowhere \notin Named /\ NoRow.at = Nowhere
  BY Compared, Zenon
<1>4. \A o \in Observers : TicketInv(o)'
  BY <1>2, Zenon DEF ReaderInv, TicketInv
<1>5. ASSUME NEW o \in Observers, NEW i \in Ids, Answered(o, i)', Unmarked(o, i)'
      PROVE  obs'[o].reply[i].ver >= nodes'[i].ver
  <2>1. feed.phase # "reset"
    <3>1. feed.phase = "reset" => scoped' = clock + 1
      BY <1>1, DeltaStep
    <3> QED
      BY <1>2, <1>3, <1>5, <3>1, Zenon DEF Unmarked
  <2>2. Marked(s.ids, Touched(s))
    BY <1>1, <2>1, DeltaStep
  <2>3. obs[o].id \in Named /\ i \in Named /\ obs'[o] = obs[o]
    BY <1>2, <1>5, Compared, Zenon DEF ReaderInv, TicketInv, Answered
  <2>4. folders'[obs[o].id] <= obs[o].rev => obs[o].id \notin Touched(s) /\ folders'[obs[o].id] = folders[obs[o].id]
    BY <1>3, <2>2, <2>3, Zenon DEF Marked
  <2>5. observed'[i].row.at \in {Nowhere, observed[i].row.at} /\ (i \notin s.ids => observed'[i] = observed[i])
    BY <1>1, <1>3, <2>1, Zenon DEF Reconcile, NoObservation
  <2>6. i \in s.ids => {s.rows[i].at, observed[i].row.at} \subseteq Touched(s)
    BY Zenon DEF Touched
  <2>7. CASE i \in s.ids
    <3>1. ~(items'[i] <= obs[o].rev)
      BY <1>3, <2>2, <2>3, <2>7, Zenon DEF Marked
    <3>2. obs[o].id \in {s.rows[i].at, observed'[i].row.at} /\ obs[o].id \notin Touched(s)
      BY <1>2, <1>5, <2>3, <2>4, <2>7, <3>1, Zenon DEF Unmarked
    <3> QED
      BY <1>3, <2>3, <2>5, <2>6, <2>7, <3>2, Zenon
  <2>8. CASE i \notin s.ids
    <3>1. nodes'[i] = nodes[i] /\ observed'[i] = observed[i] /\ items'[i] = items[i]
      BY <1>2, <2>1, <2>2, <2>3, <2>5, <2>8, Zenon DEF Marked
    <3>2. Unmarked(o, i) /\ Answered(o, i)
      BY <1>2, <1>5, <2>2, <2>4, <3>1, Zenon DEF Unmarked, Answered, Marked
    <3> QED
      BY <1>2, <3>1, <3>2, Zenon DEF ReaderInv, FreshReply
  <2> QED
    BY <2>7, <2>8, Zenon
<1> QED
  BY <1>4, <1>5, Zenon DEF ReaderInv, FreshReply

(* A publication marks the folder in which it now shows an item. *)
LEMMA PublicationReaders ==
    ASSUME TypeOK, ReaderInv, NEW o \in Observers, Published(o)
    PROVE  ReaderInv' /\ TypeOK' /\ UNCHANGED <<remote, seq, feed, staged, nodes, worker>>
<1>1. PICK its, ds : Publication(o, its, ds)
  BY DEF Published
<1>2. /\ TypeOK' /\ clock' = clock + 1 /\ Marked(its, ds) /\ Turned(o, Unasked)
      /\ UNCHANGED <<remote, seq, feed, staged, nodes, worker>>
  BY <1>1, PublicationStep, Zenon
<1>3. TicketInv(o)' /\ \A i \in Ids : ~Answered(o, i)'
  BY <1>2, Forgotten, Zenon DEF Turned
<1>4. ASSUME NEW p \in Observers \ {o}, NEW i \in Ids, Answered(p, i)', Unmarked(p, i)'
      PROVE  obs'[p].reply[i].ver >= nodes'[i].ver
  <2>1. ~(clock + 1 <= obs[p].rev) /\ Nowhere \notin Named /\ i \in Named
    BY Compared, Zenon
  <2>2. obs[p].id \in Named /\ obs'[p] = obs[p] /\ Answered(p, i)
    BY <1>2, <1>4, Zenon DEF ReaderInv, TicketInv, Answered, Turned
  <2>3. /\ items'[i] <= obs[p].rev => items[i] <= obs[p].rev
        /\ folders'[obs[p].id] <= obs[p].rev => folders[obs[p].id] <= obs[p].rev /\ obs[p].id \notin ds
    BY <1>2, <2>1, <2>2, Zenon DEF Marked
  <2>4. observed'[i] = observed[i] \/ observed'[i].row.at \in ds \cup {Nowhere}
    BY <1>1, Zenon DEF Publication
  <2>5. Unmarked(p, i)
    BY <1>2, <1>4, <2>1, <2>2, <2>3, <2>4, ZenonT(60) DEF Unmarked, Marked
  <2> QED
    BY <1>2, <2>2, <2>5, Zenon DEF ReaderInv, FreshReply
<1>5. \A p \in Observers : TicketInv(p)' /\ \A i \in Ids : FreshReply(p, i)'
  BY <1>2, <1>3, <1>4, Zenon DEF ReaderInv, TicketInv, FreshReply, Turned
<1> QED
  BY <1>2, <1>5, Zenon DEF ReaderInv

-----------------------------------------------------------------------------
(* The whole invariant, step by step. *)

(* Requests: a ticket is taken, answered, given up. *)
LEMMA RequestStep ==
    ASSUME TypeOK, RoundInv, PageInv, PastInv, ReaderInv, NEW o \in Observers,
           Asked(o) \/ AnswerNode(o) \/ AnswerPage(o) \/ Dropped(o)
    PROVE  IndexInv'
<1>1. SUFFICES /\ TypeOK' /\ UNCHANGED <<remote, seq, feed, staged, nodes, worker>>
               /\ UNCHANGED overlay /\ UNCHANGED <<scoped, items, folders>>
               /\ Turned(o, obs'[o]) /\ TicketInv(o)'
               /\ \A i \in Ids : Answered(o, i)' => SameReply(o, i) \/ obs'[o].reply[i] = remote[i]
  <2>1. RoundInv' /\ PageInv'
    BY <1>1, QuietRound, Zenon
  <2>2. PastInv'
    BY <1>1, Zenon DEF PastInv
  <2>3. \A p \in Observers : TicketInv(p)'
    BY <1>1, Zenon DEF ReaderInv, TicketInv, Turned
  <2>4. UNCHANGED <<nodes, observed, scoped, items, folders>>
    BY <1>1, Zenon DEF overlay
  <2>5. \A p \in Observers \ {o}, i \in Ids : Answered(p, i)' => SameReply(p, i)
    BY <1>1, Zenon DEF SameReply, Answered, Turned
  <2>6. ReaderInv'
    BY <1>1, <2>3, <2>4, <2>5, ReadersKept, Zenon
  <2> QED
    BY <1>1, <2>1, <2>2, <2>6, Zenon DEF IndexInv
<1>2. /\ obs[o] \in TicketType(clock) /\ obs[o].page \in 1..Pages /\ Pages \in Nat
      /\ \A i \in Ids : PageOf[i] \in 1..Pages
  BY Types, Compared, Numbers, ZenonT(60) DEF ReaderTypes
<1>3. \A i \in Ids : /\ ~(PageOf[i] < 1)
                     /\ obs[o].page = Pages \/ PageOf[i] < obs[o].page + 1 =>
                          PageOf[i] = obs[o].page \/ PageOf[i] < obs[o].page
  BY <1>2
<1>4. CASE Asked(o)
  <2>1. PICK kind \in {"node", "directory"}, id \in Named : Ask(o, kind, id)
    BY <1>4 DEF Asked, Named, Dirs, Ids
  <2>2. /\ TypeOK' /\ Turned(o, Ticket(kind, id, clock + 1)) /\ ObserverStep(o, Ticket(kind, id, clock + 1))
        /\ UNCHANGED <<overlay, scoped, items, folders>>
    BY <2>1, AskTypes, Zenon
  <2>3. UNCHANGED <<remote, seq, feed, staged, nodes, worker>>
    BY <2>2, Zenon DEF ObserverStep, provider, baseline
  <2>4. obs'[o].at = "sent" /\ obs'[o].id = id /\ obs'[o].page = 1
    BY <2>2, Zenon DEF Ticket, Unasked, Turned
  <2>5. TicketInv(o)' /\ \A i \in Ids : ~Answered(o, i)'
    BY <1>3, <2>4, Zenon DEF TicketInv, Answered
  <2> QED
    BY <2>2, <2>3, <2>5, Zenon DEF Turned
<1>5. CASE AnswerNode(o)
  <2>1. TypeOK' /\ Turned(o, NodeTicket(o))
    BY <1>5, AnswerNodeTypes, Zenon
  <2>2. /\ UNCHANGED <<remote, seq, feed, staged, nodes, worker>>
        /\ UNCHANGED overlay /\ UNCHANGED <<scoped, items, folders>> /\ obs[o].at = "sent" /\ obs[o].kind = "node"
    BY <1>5, Zenon DEF AnswerNode, provider, baseline, marks
  <2>3. /\ obs'[o].at = "back" /\ obs'[o].kind = "node" /\ obs'[o].id = obs[o].id
        /\ \A i \in Ids : i = obs[o].id => obs'[o].reply[i] = remote[i]
    <3>1. /\ NodeTicket(o).at = "back" /\ NodeTicket(o).kind = obs[o].kind /\ NodeTicket(o).id = obs[o].id
          /\ \A i \in Ids : i = obs[o].id => NodeTicket(o).reply[i] = remote[i]
      BY <1>2 DEF TicketType, NodeTicket
    <3> QED
      BY <2>1, <2>2, <3>1, Zenon DEF Turned
  <2>4. TicketInv(o)' /\ \A i \in Ids : Answered(o, i)' => obs'[o].reply[i] = remote[i]
    BY <2>2, <2>3, Zenon DEF ReaderInv, TicketInv, Answered
  <2> QED
    BY <2>1, <2>2, <2>4, Zenon DEF Turned
<1>6. CASE AnswerPage(o)
  <2>1. TypeOK' /\ Turned(o, PageTicket(o))
    BY <1>6, AnswerPageTypes, Zenon
  <2>2. /\ UNCHANGED <<remote, seq, feed, staged, nodes, worker>>
        /\ UNCHANGED overlay /\ UNCHANGED <<scoped, items, folders>>
        /\ obs[o].at = "sent" /\ obs[o].kind = "directory"
    BY <1>6, Zenon DEF AnswerPage, provider, baseline, marks
  <2>3. /\ obs'[o].at = (IF obs[o].page = Pages THEN "back" ELSE "sent")
        /\ obs'[o].page = (IF obs[o].page = Pages THEN 1 ELSE obs[o].page + 1)
        /\ obs'[o].kind = "directory" /\ obs'[o].id = obs[o].id /\ obs'[o].rev = obs[o].rev
        /\ \A i \in Ids : obs'[o].reply[i] = IF PageOf[i] = obs[o].page THEN remote[i] ELSE obs[o].reply[i]
    <3> DEFINE t == PageTicket(o)
    <3>1. /\ t.at = (IF obs[o].page = Pages THEN "back" ELSE "sent")
          /\ t.page = (IF obs[o].page = Pages THEN 1 ELSE obs[o].page + 1)
          /\ t.kind = obs[o].kind /\ t.id = obs[o].id /\ t.rev = obs[o].rev
          /\ \A i \in Ids : t.reply[i] = IF PageOf[i] = obs[o].page THEN remote[i] ELSE obs[o].reply[i]
      BY <1>2, Zenon DEF TicketType, PageTicket
    <3> HIDE DEF t
    <3>2. obs'[o] = t
      BY <2>1, Zenon DEF Turned, t
    <3> QED
      BY <2>2, <3>1, <3>2, Zenon
  <2>4. TicketInv(o)'
    BY <2>2, <2>3, Zenon DEF ReaderInv, TicketInv
  <2>5. ASSUME NEW i \in Ids, Answered(o, i)' PROVE SameReply(o, i) \/ obs'[o].reply[i] = remote[i]
    <3>1. PageOf[i] = obs[o].page \/ PageOf[i] < obs[o].page
      BY <1>3, <2>3, <2>5, Zenon DEF Answered
    <3> QED
      BY <2>2, <2>3, <3>1, Zenon DEF Answered, SameReply
  <2> QED
    BY <2>1, <2>2, <2>4, <2>5, Zenon DEF Turned
<1>7. CASE Dropped(o)
  <2>1. TypeOK' /\ Turned(o, Unasked)
    BY <1>7, DroppedTypes
  <2>2. /\ UNCHANGED <<remote, seq, feed, staged, nodes, worker>>
        /\ UNCHANGED overlay /\ UNCHANGED <<scoped, items, folders>>
    BY <1>7, Zenon DEF Dropped, ObserverStep, provider, baseline, marks
  <2> QED
    BY <2>1, <2>2, Forgotten, Zenon DEF Turned
<1> QED
  BY <1>4, <1>5, <1>6, <1>7, Zenon

(* The provider and the feed worker. *)
LEMMA FeedStep ==
    ASSUME TypeOK, RoundInv, PageInv, PastInv, ReaderInv,
           Changed \/ Begin \/ Fetch \/ StageMore \/ StageLast \/ LetGo
    PROVE  IndexInv'
<1>1. PastInv'
  BY PastStep
<1>2. CASE Changed \/ Begin \/ Fetch \/ StageMore
  <2>1. TypeOK' /\ RoundInv' /\ PageInv'
    BY <1>2, ChangeRound, BeginRoundInv, FetchTypes, FetchRound, StageMoreTypes, StageMoreRound, Zenon
  <2>2. UNCHANGED <<nodes, observed, scoped, items, folders>> /\ UNCHANGED obs
    BY <1>2, Zenon DEF Changed, Change, Begin, Fetch, StageMore, marks, baseline, overlay
  <2>3. /\ \A o \in Observers : TicketInv(o)'
        /\ \A o \in Observers, i \in Ids : Answered(o, i)' => SameReply(o, i)
    BY <2>2, Zenon DEF ReaderInv, TicketInv, SameReply, Answered
  <2>4. ReaderInv'
    BY <2>2, <2>3, ReadersKept, Zenon
  <2> QED
    BY <1>1, <2>1, <2>4 DEF IndexInv
<1>3. CASE StageLast
  BY <1>1, <1>3, StageLastTypes, StageLastRound, StageLastReaders, Zenon DEF IndexInv
<1>4. CASE LetGo
  <2>1. TypeOK' /\ RoundInv' /\ PageInv'
    BY <1>4, LetGoRound
  <2>2. /\ UNCHANGED <<nodes, observed, scoped, items, folders>>
        /\ \A o \in Observers : obs'[o] = obs[o] \/ obs'[o] = Unasked
    BY <1>4, Zenon DEF LetGo, marks, baseline, overlay
  <2>3. /\ \A o \in Observers : TicketInv(o)'
        /\ \A o \in Observers, i \in Ids : Answered(o, i)' => SameReply(o, i)
    BY <2>2, Forgotten, Zenon DEF ReaderInv, TicketInv, SameReply, Answered
  <2>4. ReaderInv'
    BY <2>2, <2>3, ReadersKept, Zenon
  <2> QED
    BY <1>1, <2>1, <2>4 DEF IndexInv
<1> QED
  BY <1>2, <1>3, <1>4

(* A publication. *)
LEMMA PublishedStep ==
    ASSUME TypeOK, RoundInv, PageInv, PastInv, ReaderInv, NEW o \in Observers, Published(o)
    PROVE  IndexInv'
<1>1. ReaderInv' /\ TypeOK' /\ UNCHANGED <<remote, seq, feed, staged, nodes, worker>>
  BY PublicationReaders
<1>2. RoundInv' /\ PageInv' /\ PastInv'
  BY <1>1, QuietRound, Zenon DEF PastInv
<1> QED
  BY <1>1, <1>2 DEF IndexInv

(* Every step keeps the invariant. *)
LEMMA IndexStep == IndexInv /\ [Next]_vars => IndexInv'
<1> SUFFICES ASSUME IndexInv, [Next]_vars PROVE IndexInv'
  OBVIOUS
<1>1. CASE Next
  <2>1. TypeOK /\ RoundInv /\ PageInv /\ PastInv /\ ReaderInv
    BY DEF IndexInv
  <2> QED
    BY <1>1, <2>1, NextCases, FeedStep, RequestStep, PublishedStep, Zenon
<1>2. CASE UNCHANGED vars
  <2>1. /\ UNCHANGED <<remote, seq, feed, staged, nodes, worker>> /\ UNCHANGED <<mode, started, clock, obs>>
        /\ UNCHANGED <<observed, absent, dirs, scoped, items, folders>>
    BY <1>2 DEF vars, provider, baseline, overlay, marks
  <2>2. TypeOK' /\ RoundInv' /\ PageInv' /\ PastInv'
    BY <2>1, QuietRound, Zenon DEF IndexInv, TypeOK, PastInv
  <2>3. ReaderInv'
    BY <2>1, ZenonT(60) DEF IndexInv, ReaderInv, TicketInv, FreshReply, Answered, Unmarked
  <2> QED
    BY <2>2, <2>3 DEF IndexInv
<1> QED
  BY <1>1, <1>2

(* The inductive invariant of the index, of its feed worker and observers.   *)
THEOREM IndexInvariant == Spec => []IndexInv
  BY InitIndex, IndexStep, PTL DEF Spec

(* Every table keeps its type, and no revision is ahead of the clock.        *)
THEOREM TypeCorrect == Spec => []TypeOK
  BY IndexInvariant, PTL DEF IndexInv

(* The saved cursor never runs ahead of the baseline, however rounds are     *)
(* paged, interrupted, restarted or started over: `stage` commits the last   *)
(* page, the index and the cursor together.                                  *)
THEOREM CursorNeverAhead == Spec => []FeedCovers
<1>1. IndexInv => FeedCovers
  BY Zenon DEF IndexInv, RoundInv
<1> QED
  BY <1>1, IndexInvariant, PTL

(* A reply that the feed has overtaken is not laid over the index: whatever  *)
(* `publish_node`, `publish_absence` or `DirectoryPublication::publish`      *)
(* changes of an item, the reply is at least as new as the indexed row.      *)
THEOREM FeedNotUndone == Spec => NeverUndoesFeed
<1> DEFINE Fresh == \A o \in Observers, i \in Ids :
               Publishes(o) /\ (observed'[i] # observed[i] \/ absent'[i] # absent[i])
               => obs[o].reply[i].ver >= nodes[i].ver
<1>1. ASSUME IndexInv, Next, NEW o \in Observers, NEW i \in Ids, Publishes(o),
             observed'[i] # observed[i] \/ absent'[i] # absent[i]
      PROVE  obs[o].reply[i].ver >= nodes[i].ver
  <2>1. TypeOK /\ ReaderInv
    BY <1>1 DEF IndexInv
  <2>2. obs[o].at = "back" /\ obs'[o].at = "idle" /\ obs'[o] # obs[o]
    BY <1>1, Zenon DEF Publishes
  <2>3. PICK p \in Observers : Published(p)
    <3>1. CASE \E p \in Observers : Published(p)
      BY <3>1
    <3>2. CASE Changed \/ Begin \/ Fetch \/ StageMore \/ LetGo
      BY <1>1, <3>2, Zenon DEF Changed, Change, Begin, Fetch, StageMore, LetGo, overlay
    <3>3. CASE StageLast
      BY <2>2, <3>3, Zenon DEF StageLast
    <3>4. CASE \E p \in Observers : Asked(p) \/ AnswerNode(p) \/ AnswerPage(p) \/ Dropped(p)
      BY <1>1, <3>4, Zenon DEF Asked, Ask, AnswerNode, AnswerPage, Dropped, overlay
    <3> QED
      BY <1>1, <2>1, <3>1, <3>2, <3>3, <3>4, NextCases, Zenon
  <2>4. PICK its, ds : Publication(p, its, ds)
    BY <2>3 DEF Published
  <2>5. o = p
    BY <2>1, <2>2, <2>4, PublicationStep, Zenon DEF Turned
  <2>6. Answered(o, i) /\ Unmarked(o, i)
    BY <1>1, <2>4, <2>5, Zenon DEF Publication
  <2> QED
    BY <2>1, <2>6, Zenon DEF ReaderInv, FreshReply
<1>2. IndexInv /\ [Next]_vars => [Fresh]_overlay
  <2>1. CASE Next
    BY <1>1, <2>1, Zenon
  <2>2. CASE UNCHANGED vars
    BY <2>2 DEF vars, overlay
  <2> QED
    BY <2>1, <2>2, Zenon
<1>3. Spec => [][Fresh]_overlay
  BY <1>2, IndexInvariant, PTL DEF Spec
<1> QED
  BY <1>3 DEF NeverUndoesFeed
=============================================================================
