----------------------- MODULE InvalidationReaderProofs -----------------------
(***************************************************************************)
(* Nothing that was committed and announced is missed by a mount, for any  *)
(* number of identities, any page size and any number of failures.         *)
(***************************************************************************)
EXTENDS InvalidationReader, TLAPS

(* Some mark that concerns view v lies beyond position p, in marks m. *)
Due(m, p, v) ==
    \E k \in {v, Whole} :
       /\ m[k] > 0
       /\ IF p.upper = NoRevision THEN m[k] > p.through
          ELSE p.after.rev < m[k] \/ (p.after.rev = m[k] /\ p.after.key < k)

(* Why a marked view that the kernel still holds will be handled: it is in   *)
(* the sweep or page under way, or beyond the position that follows it.      *)
(* Before a sweep there is nothing to show.                                  *)
CoveredKey(v) ==
    /\ reader.at = "sweep" => v \in reader.todo \/ Due(mark, reader.next, v)
    /\ reader.at = "apply" => \/ v \in reader.todo \/ Due(mark, reader.next, v)
                              \/ \E k \in reader.page : v \in Concerned(k)
    /\ reader.at \in {"wait", "read"} => Due(mark, reader.cursor, v)
(* The same for a local change, which only a sweep handles. *)
CoveredLocal ==
    /\ reader.at = "sweep" => Local \in reader.todo \/ unsent > 0 \/ full > reader.full
    /\ reader.at \in {"wait", "read", "apply"} => unsent > 0 \/ full > reader.seen

Covered ==
    /\ \A v \in Keys : v \in stale => CoveredKey(v)
    /\ Local \in stale => CoveredLocal

(* Without a new wake, the work under way ends at or after every revision    *)
(* that was announced, and has taken the channel's value.                    *)
Awake ==
    ~wake =>
      /\ reader.at = "wait" => woken <= reader.cursor.through
      /\ reader.at = "sweep" => woken <= reader.next.through
      /\ reader.at = "read" => woken <= Upper(reader.cursor)
      /\ reader.at = "apply" =>
           woken <= IF reader.next.upper = NoRevision THEN reader.next.through ELSE reader.next.upper
      /\ reader.at \in {"wait", "read", "apply"} => full = reader.seen
      /\ reader.at \in {"position", "sweep"} => full = reader.full

Stations ==
    /\ reader.at = "wait" => reader.cursor.upper = NoRevision
    /\ reader.at = "retry" => reader.cursor = NoPosition
    /\ reader.at = "sweep" => reader.next.upper = NoRevision
    /\ reader.at \notin {"sweep", "apply"} => reader.todo = {}

ReaderInv == TypeOK /\ Stations /\ Covered /\ Awake

(***************************************************************************)
(* Positions and marks.                                                    *)
(***************************************************************************)
(* Keys are neither the collection's own mark nor the local namespace. *)
LEMMA KeyFacts == /\ Local \notin Keys /\ Whole \notin Keys
                  /\ Keys \subseteq Int /\ Marked \subseteq Int /\ Views \subseteq Int
  BY KeyAssumption DEF Local, Whole, Marked, Views

(* What a typed reader holds, field by field. *)
LEMMA Fields ==
    ASSUME TypeOK
    PROVE  /\ clock \in Nat /\ woken \in Nat /\ woken <= clock
           /\ full \in Nat /\ unsent \in Nat
           /\ reader.cursor \in Positions /\ reader.next \in Positions
           /\ reader.seen \in 0..full /\ reader.full \in 0..full
           /\ reader.page \subseteq Marked /\ reader.todo \subseteq Views
           /\ reader.at \in {"wait", "retry", "position", "sweep", "read", "apply"}
           /\ \A k \in Marked : mark[k] \in 0..clock
  BY LimitAssumption DEF TypeOK

(* A position never names a revision ahead of the clock. *)
LEMMA PositionFacts ==
    ASSUME clock \in Nat, NEW p \in Positions
    PROVE  /\ p.through \in Int /\ p.through <= clock
           /\ p.upper \in Int /\ p.upper <= clock /\ p.upper >= NoRevision
           /\ p.after.rev \in Int /\ p.after.rev <= clock
           /\ p.after.key \in Int
           /\ Upper(p) \in -1..clock
  <1>1. /\ p.through \in -1..clock /\ p.upper \in -1..clock
        /\ p.after \in [rev : -1..clock, key : {NoRevision} \cup Marked]
    BY Zenon DEF Positions
  <1>2. p.after.rev \in -1..clock /\ p.after.key \in {NoRevision} \cup Marked
    BY <1>1, Zenon
  <1>3. /\ p.through \in Int /\ p.through <= clock
        /\ p.upper \in Int /\ p.upper <= clock /\ p.upper >= NoRevision
    BY <1>1 DEF NoRevision
  <1>4. p.after.rev \in Int /\ p.after.rev <= clock
    BY <1>2
  <1>5. p.after.key \in Int
    BY <1>2, KeyFacts, -1 \in Int, ZenonT(60) DEF NoRevision
  <1>6. Upper(p) \in -1..clock
    BY <1>1 DEF Upper
  <1> QED
    BY <1>3, <1>4, <1>5, <1>6, Zenon

(* A new position is a position. *)
LEMMA PositionTypes ==
    ASSUME clock \in Nat
    PROVE  /\ NoPosition \in Positions
           /\ \A n \in -1..clock : Position(n) \in Positions
  BY DEF NoPosition, Position, NoMark, NoRevision, Positions

(* The reader's record, as TypeOK has it. *)
Readers == [at : {"wait", "retry", "position", "sweep", "read", "apply"},
            cursor : Positions, next : Positions, seen : 0..full, full : 0..full,
            page : SUBSET Marked, todo : SUBSET Views]

(* Ranges only grow with the clock and the channel's value. *)
LEMMA Growth ==
    ASSUME clock \in Nat, clock' \in Nat, clock <= clock', full \in Nat, full' \in Nat, full <= full'
    PROVE  Readers \subseteq Readers'
  <1>1. -1..clock \subseteq -1..clock' /\ 0..full \subseteq 0..full'
    OBVIOUS
  <1>2. Positions \subseteq Positions'
    BY <1>1, Zenon DEF Positions
  <1>3. SUFFICES ASSUME NEW r \in Readers PROVE r \in Readers'
    OBVIOUS
  <1> QED
    BY <1>1, <1>2, ZenonT(60) DEF Readers

(* The initial states are typed. *)
LEMMA TypeInit == Init => TypeOK
  <1> SUFFICES ASSUME Init PROVE TypeOK
    OBVIOUS
  <1>1. clock = 1 /\ clock \in Nat /\ full = 0
    BY Zenon DEF Init
  <1>2. reader \in Readers
    BY <1>1, PositionTypes DEF Init, Fresh, Readers
  <1>3. mark \in [Marked -> 0..clock]
    BY DEF Init
  <1>4. clock \in 0..MaxRevision /\ woken \in 0..clock
    BY <1>1, LimitAssumption DEF Init
  <1>5. full + unsent <= MaxLocal /\ full \in Nat /\ unsent \in Nat /\ failures \in 0..MaxFailures
    BY LimitAssumption DEF Init
  <1> QED
    BY <1>2, <1>3, <1>4, <1>5, ZenonT(60) DEF TypeOK, Init, Readers

(* What a step of the reader leaves alone. *)
Writers == <<store, full, unsent, writable>>

(* A step of the reader keeps the types when its record stays typed. *)
LEMMA ReaderTyped ==
    ASSUME TypeOK, UNCHANGED Writers, UNCHANGED woken, reader' \in Readers,
           wake' \in BOOLEAN, failures' \in 0..MaxFailures, stale' \subseteq stale
    PROVE  TypeOK'
  <1>1. Readers' = Readers
    BY Zenon DEF Readers, Positions, Writers, store
  <1> QED
    BY <1>1, ZenonT(60) DEF TypeOK, Readers, Writers, store

(* Every step keeps the types. *)
LEMMA TypeStep == TypeOK /\ [Next]_vars => TypeOK'
  <1> SUFFICES ASSUME TypeOK, [Next]_vars PROVE TypeOK'
    OBVIOUS
  <1>t. reader \in Readers
    BY Zenon DEF TypeOK, Readers
  <1>f. /\ clock \in Nat /\ woken \in 0..clock /\ full \in Nat /\ unsent \in Nat
        /\ reader.cursor \in Positions /\ reader.next \in Positions
        /\ mark \in [Marked -> 0..clock] /\ stale \subseteq Views
    BY Fields, Zenon DEF TypeOK
  <1>1. ASSUME NEW ks \in SUBSET Keys, Commit(ks) PROVE TypeOK'
    <2>1. clock' = clock + 1 /\ clock' \in 0..MaxRevision /\ full' = full
      BY <1>1, <1>f, LimitAssumption DEF Commit
    <2>2. mark' \in [Marked -> 0..clock']
      BY <1>1, <1>f, <2>1 DEF Commit
    <2>3. reader' \in Readers' /\ woken' \in 0..clock'
      BY <1>1, <1>t, <1>f, <2>1, Growth DEF Commit
    <2>4. stale' \subseteq Views
      BY <1>1, <1>f, Zenon DEF Commit, Views
    <2> QED
      BY <1>1, <2>1, <2>2, <2>3, <2>4, ZenonT(60) DEF TypeOK, Readers, Commit
  <1>2. CASE CommitReset
    <2>1. clock' = clock + 1 /\ clock' \in 0..MaxRevision /\ full' = full
      BY <1>2, <1>f, LimitAssumption DEF CommitReset
    <2>2. mark' \in [Marked -> 0..clock']
      BY <1>2, <1>f, <2>1 DEF CommitReset
    <2>3. reader' \in Readers' /\ woken' \in 0..clock'
      BY <1>2, <1>t, <1>f, <2>1, Growth DEF CommitReset
    <2>4. stale' \subseteq Views
      BY <1>2, <1>f, Zenon DEF CommitReset, Views
    <2> QED
      BY <1>2, <2>1, <2>2, <2>3, <2>4, ZenonT(60) DEF TypeOK, Readers, CommitReset
  <1>3. CASE Wake
    <2>1. woken' \in 0..clock' /\ Readers' = Readers
      BY <1>3, <1>f DEF Wake, store, Readers, Positions
    <2> QED
      BY <1>3, <2>1, ZenonT(60) DEF TypeOK, Readers, Wake, store
  <1>4. CASE LocalChange
    <2>1. unsent' \in Nat /\ full' + unsent' <= MaxLocal
      BY <1>4, <1>f, LimitAssumption DEF LocalChange
    <2>2. stale' \subseteq Views /\ Readers' = Readers
      BY <1>4, <1>f, Zenon DEF LocalChange, Views, Readers, Positions, store
    <2> QED
      BY <1>4, <2>1, <2>2, ZenonT(60) DEF TypeOK, Readers, LocalChange, store
  <1>5. CASE NotifyWaiters
    <2>1. /\ unsent' \in Nat /\ full' = full + 1 /\ full' \in Nat /\ woken' \in 0..clock'
          /\ full' + unsent' <= MaxLocal
      BY <1>5, <1>f, LimitAssumption DEF NotifyWaiters, store, TypeOK
    <2>2. reader' \in Readers'
      BY <1>5, <1>t, <1>f, <2>1, Growth DEF NotifyWaiters, store
    <2> QED
      BY <1>5, <2>1, <2>2, ZenonT(60) DEF TypeOK, Readers, NotifyWaiters, store
  <1>6. CASE Begin
    <2>1. full \in 0..full
      BY <1>f
    <2>2. reader' \in Readers
      BY <1>6, <1>t, <2>1, ZenonT(60) DEF Begin, Readers
    <2> QED
      BY <1>6, <2>2, ReaderTyped, ZenonT(60) DEF Begin, Writers, TypeOK
  <1>7. CASE Capture
    <2>1. Position(clock) \in Positions
      BY <1>f, PositionTypes
    <2>2. reader' \in Readers
      BY <1>7, <1>t, <2>1, ZenonT(60) DEF Capture, Readers
    <2> QED
      BY <1>7, <2>2, ReaderTyped, Zenon DEF Capture, Writers, TypeOK
  <1>8. CASE Swept
    <2>1. reader' \in Readers
      BY <1>8, <1>t, <1>f, ZenonT(60) DEF Swept, Readers
    <2> QED
      BY <1>8, <2>1, ReaderTyped, Zenon DEF Swept, Writers, TypeOK
  <1>9. CASE ReadPage
    <2>1. PICK page \in SUBSET Selected(reader.cursor) :
            \/ reader' = [reader EXCEPT !.at = "apply", !.page = page, !.next = Complete(reader.cursor)]
            \/ \E last \in page :
                 reader' = [reader EXCEPT !.at = "apply", !.page = page, !.next = PartOf(reader.cursor, last)]
      BY <1>9, ZenonT(60) DEF ReadPage
    <2>2. page \subseteq Marked
      BY <2>1, ZenonT(60) DEF Selected
    <2>3. Upper(reader.cursor) \in -1..clock
      BY <1>f, PositionFacts, Zenon
    <2>4. Complete(reader.cursor) \in Positions
      BY <1>f, <2>3, PositionTypes, Zenon DEF Complete
    <2>5. ASSUME NEW k \in Marked PROVE PartOf(reader.cursor, k) \in Positions
      <3>1. Rank(k) \in [rev : -1..clock, key : {NoRevision} \cup Marked]
        BY <1>f DEF Rank
      <3> QED
        BY <1>f, <2>3, <3>1, ZenonT(60) DEF PartOf, Positions
    <2>6. reader' \in Readers
      <3>1. CASE reader' = [reader EXCEPT !.at = "apply", !.page = page, !.next = Complete(reader.cursor)]
        BY <1>t, <3>1, <2>2, <2>4, ZenonT(60) DEF Readers
      <3>2. ASSUME NEW last \in page,
                   reader' = [reader EXCEPT !.at = "apply", !.page = page, !.next = PartOf(reader.cursor, last)]
            PROVE  reader' \in Readers
        <4>1. PartOf(reader.cursor, last) \in Positions
          BY <2>2, <2>5, <3>2
        <4> QED
          BY <1>t, <3>2, <2>2, <4>1, ZenonT(60) DEF Readers
      <3> QED
        BY <2>1, <3>1, <3>2, ZenonT(60)
    <2> QED
      BY <1>9, <2>6, ReaderTyped, ZenonT(60) DEF ReadPage, Writers, TypeOK
  <1>10. CASE Applied
    <2>1. reader' \in Readers
      BY <1>10, <1>t, <1>f, ZenonT(60) DEF Applied, Readers
    <2> QED
      BY <1>10, <2>1, ReaderTyped, Zenon DEF Applied, Writers, TypeOK
  <1>11. ASSUME NEW v \in Views, Forget(v) PROVE TypeOK'
    <2>1. reader' \in Readers
      BY <1>11, <1>t, Zenon DEF Forget, Readers
    <2> QED
      BY <1>11, <2>1, ReaderTyped, Zenon DEF Forget, Writers, TypeOK
  <1>12. ASSUME NEW k \in Marked, Apply(k) PROVE TypeOK'
    <2>1. Concerned(k) \subseteq Views
      BY DEF Concerned, Views, Marked, Whole
    <2>2. reader' \in Readers
      BY <1>12, <1>t, <2>1, ZenonT(60) DEF Apply, Readers
    <2> QED
      BY <1>12, <2>2, ReaderTyped, Zenon DEF Apply, Writers, TypeOK
  <1>13. CASE Fail
    <2>1. reader' \in Readers
      BY <1>13, <1>t, <1>f, PositionTypes DEF Fail, Fresh, Readers
    <2>2. failures' \in 0..MaxFailures
      BY <1>13, LimitAssumption DEF Fail, TypeOK
    <2> QED
      BY <1>13, <2>1, <2>2, ReaderTyped, Zenon DEF Fail, Writers, TypeOK
  <1>14. CASE UNCHANGED vars
    BY <1>14, ZenonT(60) DEF vars, store, TypeOK, Positions
  <1> QED
    BY <1>1, <1>2, <1>3, <1>4, <1>5, <1>6, <1>7, <1>8, <1>9, <1>10, <1>11, <1>12, <1>13, <1>14, Zenon
    DEF Next, Write, Read

(***************************************************************************)
(* Nothing is missed.  One lemma per kind of step; each speaks of the three *)
(* conjuncts beside the types.                                              *)
(***************************************************************************)
Rest == Stations /\ Covered /\ Awake

(* A mark that was just set is beyond every position. *)
LEMMA NewMark ==
    ASSUME clock \in Nat, NEW p \in Positions, NEW m, NEW v, NEW k \in {v, Whole}, m[k] = clock + 1
    PROVE  Due(m, p, v)
  BY PositionFacts DEF Due

(* A commit of items: their marks are new, the others stay. *)
LEMMA CommitRest ==
    ASSUME ReaderInv, NEW ks \in SUBSET Keys, Commit(ks)
    PROVE  Rest'
  <1>f. /\ clock \in Nat /\ reader.cursor \in Positions /\ reader.next \in Positions
        /\ reader.at \in {"wait", "retry", "position", "sweep", "read", "apply"}
    BY Fields, Zenon DEF ReaderInv
  <1>u. /\ reader' = reader /\ wake' = wake /\ full' = full /\ unsent' = unsent /\ woken' = woken
        /\ clock' = clock + 1 /\ stale' = stale \cup ks
    BY Zenon DEF Commit
  <1>1. Stations'
    BY <1>u, Zenon DEF ReaderInv, Stations, NoPosition, Position
  <1>2. ASSUME NEW v \in Keys, v \in stale' PROVE CoveredKey(v)'
    <2>1. CASE v \in ks
      <3>1. mark'[v] = clock + 1
        BY <2>1, <1>2, Zenon DEF Commit, Marked
      <3>2. Due(mark', reader.cursor, v) /\ Due(mark', reader.next, v)
        BY <1>f, <3>1, NewMark, Zenon
      <3> QED
        BY <1>u, <3>2, Zenon DEF CoveredKey
    <2>2. CASE v \notin ks
      <3>1. mark'[v] = mark[v] /\ mark'[Whole] = mark[Whole]
        BY <2>2, <1>2, KeyFacts, Zenon DEF Commit, Marked
      <3>2. ASSUME NEW p, Due(mark, p, v) PROVE Due(mark', p, v)
        BY <3>1, <3>2, Zenon DEF Due
      <3>3. CoveredKey(v)
        BY <1>2, <1>u, <2>2, Zenon DEF ReaderInv, Covered
      <3> QED
        BY <1>u, <3>2, <3>3, Zenon DEF CoveredKey, Concerned
    <2> QED
      BY <2>1, <2>2
  <1>3. Local \in stale' => CoveredLocal'
    BY <1>u, KeyFacts, ZenonT(60) DEF ReaderInv, Covered, CoveredLocal
  <1>4. Upper(reader.cursor) <= Upper(reader.cursor)' /\ Upper(reader.cursor) \in Int /\ Upper(reader.cursor)' \in Int
    BY <1>f, <1>u, PositionFacts DEF Upper
  <1>5. Awake'
    BY <1>u, <1>4, Fields DEF ReaderInv, Awake
  <1> QED
    BY <1>1, <1>2, <1>3, <1>5 DEF Rest, Covered

(* A replaced baseline: the mark of the whole collection concerns every key. *)
LEMMA ResetRest ==
    ASSUME ReaderInv, CommitReset
    PROVE  Rest'
  <1>f. clock \in Nat /\ reader.cursor \in Positions /\ reader.next \in Positions
    BY Fields, Zenon DEF ReaderInv
  <1>u. /\ reader' = reader /\ wake' = wake /\ full' = full /\ unsent' = unsent /\ woken' = woken
        /\ clock' = clock + 1 /\ stale' = stale \cup Keys
    BY Zenon DEF CommitReset
  <1>1. Stations'
    BY <1>u, Zenon DEF ReaderInv, Stations, NoPosition, Position
  <1>2. ASSUME NEW v \in Keys PROVE CoveredKey(v)'
    <2>1. mark'[Whole] = clock + 1
      BY Zenon DEF CommitReset, Marked
    <2>2. Due(mark', reader.cursor, v) /\ Due(mark', reader.next, v)
      BY <1>f, <2>1, NewMark, Zenon
    <2> QED
      BY <1>u, <2>2, Zenon DEF CoveredKey
  <1>3. Local \in stale' => CoveredLocal'
    BY <1>u, KeyFacts, Zenon DEF ReaderInv, Covered, CoveredLocal
  <1>4. Upper(reader.cursor) <= Upper(reader.cursor)' /\ Upper(reader.cursor) \in Int /\ Upper(reader.cursor)' \in Int
    BY <1>f, <1>u, PositionFacts DEF Upper
  <1>5. Awake'
    BY <1>u, <1>4, Fields DEF ReaderInv, Awake
  <1> QED
    BY <1>1, <1>2, <1>3, <1>5 DEF Rest, Covered

(* Wakes and local changes. *)
LEMMA SignalRest ==
    ASSUME ReaderInv, Wake \/ LocalChange \/ NotifyWaiters
    PROVE  Rest'
  <1>u. /\ reader' = reader /\ clock' = clock /\ mark' = mark
        /\ \A v \in Keys : v \in stale' => v \in stale
    BY KeyFacts, Zenon DEF Wake, LocalChange, NotifyWaiters, store
  <1>1. Stations'
    BY <1>u, Zenon DEF ReaderInv, Stations, NoPosition, Position
  <1>2. ASSUME NEW v \in Keys, v \in stale' PROVE CoveredKey(v)'
    BY <1>u, <1>2, Zenon DEF ReaderInv, Covered, CoveredKey, Due, Concerned
  <1>3. CASE Wake
    BY <1>u, <1>1, <1>2, <1>3, Zenon DEF ReaderInv, Wake, Rest, Covered, CoveredLocal, Awake
  <1>4. CASE LocalChange
    <2>1. CoveredLocal'
      BY <1>4, Fields DEF ReaderInv, LocalChange, CoveredLocal
    <2>2. Awake'
      BY <1>4, <1>u, Zenon DEF ReaderInv, LocalChange, Awake, Upper
    <2> QED
      BY <1>1, <1>2, <2>1, <2>2 DEF Rest, Covered
  <1>5. CASE NotifyWaiters
    <2>1. CoveredLocal'
      BY <1>5, Fields DEF ReaderInv, NotifyWaiters, CoveredLocal
    <2>2. Awake'
      BY <1>5, Zenon DEF NotifyWaiters, Awake
    <2> QED
      BY <1>1, <1>2, <2>1, <2>2 DEF Rest, Covered
  <1> QED
    BY <1>3, <1>4, <1>5

(* The reader's steps leave the store and the channel's value alone. *)
Still == UNCHANGED <<clock, mark, full, unsent, woken>>

(* A round begins: only a position that is complete is read on from. *)
LEMMA BeginRest ==
    ASSUME ReaderInv, Begin
    PROVE  Rest'
  <1>t. reader \in Readers
    BY Zenon DEF ReaderInv, TypeOK, Readers
  <1>u. Still /\ stale' = stale /\ wake' = FALSE
    BY Zenon DEF Begin, Still, store
  <1>1. /\ reader'.cursor = reader.cursor /\ reader'.todo = reader.todo /\ reader'.seen = reader.seen
        /\ reader'.full = full /\ reader'.at \in {"position", "read"}
        /\ reader'.at = "read" => reader.at = "wait" /\ full = reader.seen
    BY <1>t, Zenon DEF Begin, Readers, ReaderInv, Stations
  <1>2. Stations'
    BY <1>1, Zenon DEF Begin, ReaderInv, Stations
  <1>3. ASSUME NEW v \in Keys, v \in stale' PROVE CoveredKey(v)'
    BY <1>u, <1>1, <1>3, Zenon DEF ReaderInv, Covered, CoveredKey, Still
  <1>4. Local \in stale' => CoveredLocal'
    BY <1>u, <1>1, Fields, Zenon DEF ReaderInv, Covered, CoveredLocal, Still
  <1>5. reader'.at = "read" => Upper(reader.cursor)' = clock
    BY <1>u, <1>1, Zenon DEF ReaderInv, Stations, Upper, Still
  <1>6. Awake'
    BY <1>u, <1>1, <1>5, Fields, Zenon DEF ReaderInv, Awake, Still
  <1> QED
    BY <1>2, <1>3, <1>4, <1>6 DEF Rest, Covered

(* The position is captured before the sweep, which visits every view. *)
LEMMA CaptureRest ==
    ASSUME ReaderInv, Capture
    PROVE  Rest'
  <1>t. reader \in Readers
    BY Zenon DEF ReaderInv, TypeOK, Readers
  <1>u. Still /\ stale' = stale /\ wake' = wake
    BY DEF Capture, Still, store
  <1>1. /\ reader'.at = "sweep" /\ reader'.todo = Views /\ reader'.full = reader.full
        /\ reader'.next.through = clock /\ reader'.next.upper = NoRevision /\ reader.at = "position"
    BY <1>t, Zenon DEF Capture, Readers, Position
  <1>2. Stations'
    BY <1>1, Zenon DEF Stations
  <1>3. Covered'
    BY <1>1, Zenon DEF Covered, CoveredKey, CoveredLocal, Views
  <1>4. Awake'
    BY <1>u, <1>1, Fields, Zenon DEF ReaderInv, Awake, Still
  <1> QED
    BY <1>2, <1>3, <1>4 DEF Rest

(* A view is told to be forgotten. *)
LEMMA ForgetRest ==
    ASSUME ReaderInv, NEW w \in Views, Forget(w)
    PROVE  Rest'
  <1>t. reader \in Readers
    BY Zenon DEF ReaderInv, TypeOK, Readers
  <1>u. Still /\ stale' = stale \ {w} /\ wake' = wake
    BY DEF Forget, Still, store
  <1>1. /\ reader'.at = reader.at /\ reader'.todo = reader.todo \ {w} /\ reader'.full = reader.full
        /\ reader'.next = reader.next /\ reader'.cursor = reader.cursor /\ reader'.seen = reader.seen
        /\ reader'.page = reader.page
    BY <1>t, Zenon DEF Forget, Readers
  <1>2. Stations'
    BY <1>1, Zenon DEF ReaderInv, Stations, NoPosition, Position
  <1>3. ASSUME NEW v \in Keys, v \in stale' PROVE CoveredKey(v)'
    <2>1. v \in stale /\ v # w
      BY <1>u, <1>3
    <2>2. CoveredKey(v)
      BY <2>1 DEF ReaderInv, Covered
    <2> QED
      BY <1>u, <1>1, <2>1, <2>2, Zenon DEF CoveredKey, Still, Concerned, Due
  <1>4. Local \in stale' => CoveredLocal'
    BY <1>u, <1>1, Zenon DEF ReaderInv, Covered, CoveredLocal, Still
  <1>5. Awake'
    BY <1>u, <1>1, Zenon DEF ReaderInv, Awake, Still, Upper
  <1> QED
    BY <1>2, <1>3, <1>4, <1>5, Zenon DEF Rest, Covered

(* A sweep ends, or a page: what it did not handle is beyond the position    *)
(* that is kept.                                                             *)
LEMMA EndRest ==
    ASSUME ReaderInv, Swept \/ Applied
    PROVE  Rest'
  <1>t. reader \in Readers
    BY Zenon DEF ReaderInv, TypeOK, Readers
  <1>u. Still /\ stale' = stale /\ wake' = wake
    BY Zenon DEF Swept, Applied, Still, store
  <1>1. /\ reader.at \in {"sweep", "apply"} /\ reader.todo = {} /\ reader'.todo = {}
        /\ reader.at = "apply" => reader.page = {} /\ reader'.seen = reader.seen
        /\ reader.at = "sweep" => reader'.at = "wait" /\ reader'.seen = reader.full
        /\ reader'.cursor = reader.next /\ reader'.at \in {"wait", "read"}
        /\ reader'.at = "wait" <=> reader.next.upper = NoRevision
    BY <1>t, ZenonT(60) DEF Swept, Applied, Readers, ReaderInv, Stations
  <1>2. Stations'
    BY <1>1, Zenon DEF Stations
  <1>3. ASSUME NEW v \in Keys, v \in stale' PROVE CoveredKey(v)'
    <2>1. CoveredKey(v)
      BY <1>u, <1>3 DEF ReaderInv, Covered
    <2>2. Due(mark, reader.next, v)
      BY <1>1, <2>1, Zenon DEF CoveredKey
    <2> QED
      BY <1>u, <1>1, <2>2, Zenon DEF CoveredKey, Still
  <1>4. Local \in stale' => CoveredLocal'
    BY <1>u, <1>1, Zenon DEF ReaderInv, Covered, CoveredLocal, Still
  <1>5. Awake'
    BY <1>u, <1>1 DEF ReaderInv, Awake, Still, Upper
  <1> QED
    BY <1>2, <1>3, <1>4, <1>5 DEF Rest, Covered

(* A page is read: a mark beyond the position is on it, behind its last mark *)
(* or above the range.                                                       *)
LEMMA ReadPageRest ==
    ASSUME ReaderInv, ReadPage
    PROVE  Rest'
  <1>t. reader \in Readers
    BY Zenon DEF ReaderInv, TypeOK, Readers
  <1>u. Still /\ stale' = stale /\ wake' = wake
    BY ZenonT(60) DEF ReadPage, Still, store
  <1> DEFINE p == reader.cursor
  <1>f. /\ clock \in Nat /\ p \in Positions /\ Upper(p) \in Int /\ Upper(p) >= 0
        /\ p.upper \in Int /\ p.through \in Int /\ p.after.rev \in Int /\ p.after.key \in Int
        /\ \A k \in Marked : mark[k] \in Nat
    <2>1. clock \in Nat /\ p \in Positions /\ \A k \in Marked : mark[k] \in 0..clock
      BY Fields, Zenon DEF ReaderInv
    <2>2. p.upper \in Int /\ p.through \in Int /\ p.after.rev \in Int /\ p.after.key \in Int /\ p.upper >= -1
      BY <2>1, PositionFacts, Zenon DEF NoRevision
    <2>3. Upper(p) \in Int /\ Upper(p) >= 0
      <3>1. CASE p.upper = -1
        <4>1. Upper(p) = clock
          BY <3>1, ZenonT(60) DEF Upper, NoRevision
        <4> QED
          BY <2>1, <4>1
      <3>2. CASE p.upper # -1
        <4>1. Upper(p) = p.upper
          BY <3>2, ZenonT(60) DEF Upper, NoRevision
        <4> QED
          BY <2>2, <3>2, <4>1
      <3> QED
        BY <3>1, <3>2, Zenon
    <2> QED
      BY <2>1, <2>2, <2>3
  <1>1. PICK page \in SUBSET Selected(p) :
          /\ \A k \in page, j \in Selected(p) \ page : Precedes(Rank(k), Rank(j))
          /\ \/ page = Selected(p) /\ reader' = [reader EXCEPT !.at = "apply", !.page = page, !.next = Complete(p)]
             \/ \E last \in page :
                  reader' = [reader EXCEPT !.at = "apply", !.page = page, !.next = PartOf(p, last)]
    BY ZenonT(60) DEF ReadPage
  <1>2. /\ reader'.at = "apply" /\ reader'.page = page /\ reader'.todo = reader.todo
        /\ reader'.seen = reader.seen /\ reader.at = "read"
        /\ \/ page = Selected(p) /\ reader'.next = Complete(p)
           \/ \E last \in page : reader'.next = PartOf(p, last)
    BY <1>t, <1>1, ZenonT(60) DEF ReadPage, Readers
  <1>3. Stations'
    BY <1>2, Zenon DEF Stations
  <1>4. ASSUME NEW v \in Keys, v \in stale' PROVE CoveredKey(v)'
    <2>1. Due(mark, p, v)
      BY <1>u, <1>2, <1>4, Zenon DEF ReaderInv, Covered, CoveredKey
    <2>2. PICK k \in {v, Whole} : mark[k] > 0 /\ Beyond(p, k)
      BY <2>1, Zenon DEF Due, Beyond, Precedes, Rank
    <2>3. k \in Marked /\ v \in Concerned(k)
      BY <1>4 DEF Marked, Concerned
    <2>4. CASE k \in page
      BY <1>2, <2>3, <2>4, Zenon DEF CoveredKey, Concerned
    <2>5. CASE k \notin page
      <3>1. CASE page = Selected(p) /\ reader'.next = Complete(p)
        <4>1. mark[k] > Upper(p)
          BY <1>f, <2>2, <2>3, <2>5, <3>1 DEF Selected
        <4>2. Due(mark, Complete(p), v)
          BY <2>2, <4>1, Zenon DEF Due, Complete, Position
        <4> QED
          BY <1>u, <1>2, <3>1, <4>2, Zenon DEF CoveredKey, Still
      <3>2. ASSUME NEW last \in page, reader'.next = PartOf(p, last) PROVE CoveredKey(v)'
        <4>1. last \in Marked /\ mark[last] <= Upper(p)
          BY <3>2, Zenon DEF Selected
        <4>2. Precedes(Rank(last), Rank(k))
          <5>1. CASE k \in Selected(p)
            BY <1>1, <2>5, <3>2, <5>1, ZenonT(60)
          <5>2. CASE k \notin Selected(p)
            <6>1. ~(mark[k] <= Upper(p))
              BY <2>2, <2>3, <5>2, ZenonT(60) DEF Selected
            <6>2. mark[k] \in Nat /\ mark[last] \in Nat /\ Upper(p) \in Int
              BY <1>f, <2>3, <4>1, ZenonT(60)
            <6>3. mark[last] < mark[k]
              BY <4>1, <6>1, <6>2
            <6> QED
              BY <6>3, Zenon DEF Precedes, Rank
          <5> QED
            BY <5>1, <5>2, Zenon
        <4>3. /\ PartOf(p, last).upper = Upper(p) /\ PartOf(p, last).after.rev = mark[last]
              /\ PartOf(p, last).after.key = last
          BY <1>f, Zenon DEF PartOf, Rank, Positions
        <4>4. Due(mark, PartOf(p, last), v)
          BY <1>f, <2>2, <4>2, <4>3 DEF Due, Precedes, Rank, NoRevision
        <4> QED
          BY <1>u, <1>2, <3>2, <4>4, Zenon DEF CoveredKey, Still
      <3> QED
        BY <1>2, <3>1, <3>2, Zenon
    <2> QED
      BY <2>4, <2>5
  <1>5. Local \in stale' => CoveredLocal'
    BY <1>u, <1>2, Zenon DEF ReaderInv, Covered, CoveredLocal, Still
  <1>6. ~wake => woken <= Upper(p) /\ full = reader.seen
    BY <1>2, Zenon DEF ReaderInv, Awake
  <1>7. \/ reader'.next.upper = NoRevision /\ reader'.next.through = Upper(p)
        \/ reader'.next.upper = Upper(p) /\ Upper(p) # NoRevision
    <2>1. \A last : PartOf(p, last).upper = Upper(p)
      BY <1>f, Zenon DEF PartOf, Positions
    <2> QED
      BY <1>f, <1>2, <2>1 DEF Complete, Position, NoRevision
  <1>8. Awake'
    BY <1>u, <1>2, <1>6, <1>7, Zenon DEF Awake, Still
  <1> QED
    BY <1>3, <1>4, <1>5, <1>8 DEF Rest, Covered

(* The views of one mark of the page are taken on. *)
LEMMA ApplyRest ==
    ASSUME ReaderInv, NEW k \in Marked, Apply(k)
    PROVE  Rest'
  <1>t. reader \in Readers
    BY Zenon DEF ReaderInv, TypeOK, Readers
  <1>u. Still /\ stale' = stale /\ wake' = wake
    BY Zenon DEF Apply, Still, store
  <1>1. /\ reader'.at = "apply" /\ reader.at = "apply" /\ reader.todo = {}
        /\ reader'.todo = Concerned(k) /\ reader'.page = reader.page \ {k}
        /\ reader'.next = reader.next /\ reader'.seen = reader.seen
    BY <1>t, Zenon DEF Apply, Readers
  <1>2. Stations'
    BY <1>1, Zenon DEF Stations
  <1>3. ASSUME NEW v \in Keys, v \in stale' PROVE CoveredKey(v)'
    <2>1. Due(mark, reader.next, v) \/ \E j \in reader.page : v \in Concerned(j)
      BY <1>u, <1>1, <1>3, Zenon DEF ReaderInv, Covered, CoveredKey
    <2> QED
      BY <1>u, <1>1, <2>1, Zenon DEF CoveredKey, Still, Concerned
  <1>4. Local \in stale' => CoveredLocal'
    BY <1>u, <1>1, Zenon DEF ReaderInv, Covered, CoveredLocal, Still
  <1>5. Awake'
    BY <1>u, <1>1, Zenon DEF ReaderInv, Awake, Still
  <1> QED
    BY <1>2, <1>3, <1>4, <1>5 DEF Rest, Covered

(* After a failure everything is swept. *)
LEMMA FailRest ==
    ASSUME ReaderInv, Fail
    PROVE  Rest'
  <1>1. reader'.at = "retry" /\ reader'.cursor = NoPosition /\ reader'.todo = {}
    BY Zenon DEF Fail, Fresh
  <1>2. reader'.cursor = NoPosition'
    BY <1>1, Zenon DEF NoPosition, Position, NoMark
  <1> QED
    BY <1>1, <1>2, Zenon DEF Rest, Stations, Covered, CoveredKey, CoveredLocal, Awake

(* The inductive invariant of the reader: `run` with any store around it. *)
THEOREM ReaderInvariant == Spec => []ReaderInv
  <1>1. Init => ReaderInv
    <2> SUFFICES ASSUME Init PROVE ReaderInv
      OBVIOUS
    <2>1. reader.at = "retry" /\ reader.cursor = NoPosition /\ reader.todo = {} /\ stale = {}
      BY Zenon DEF Init, Fresh
    <2> QED
      BY <2>1, TypeInit, Zenon DEF ReaderInv, Stations, Covered, Awake
  <1>2. ReaderInv /\ [Next]_vars => ReaderInv'
    <2> SUFFICES ASSUME ReaderInv, [Next]_vars PROVE ReaderInv'
      OBVIOUS
    <2>1. TypeOK'
      BY TypeStep DEF ReaderInv
    <2>2. CASE UNCHANGED vars
      <3>u. UNCHANGED <<clock, mark, full, wake, unsent, reader, woken, stale>>
        BY <2>2, Zenon DEF vars, store
      <3>2. Stations'
        BY <3>u, Zenon DEF ReaderInv, Stations, NoPosition, Position, NoMark
      <3>3. ASSUME NEW v \in Keys, v \in stale' PROVE CoveredKey(v)'
        BY <3>u, <3>3, Zenon DEF ReaderInv, Covered, CoveredKey, Due, Concerned
      <3>4. Local \in stale' => CoveredLocal'
        BY <3>u, Zenon DEF ReaderInv, Covered, CoveredLocal
      <3>5. Awake'
        BY <3>u, Zenon DEF ReaderInv, Awake, Upper
      <3>1. Rest'
        BY <3>2, <3>3, <3>4, <3>5 DEF Rest, Covered
      <3> QED
        BY <2>1, <3>1 DEF ReaderInv, Rest
    <2>3. CASE Next
      <3>1. Rest'
        BY <2>3, CommitRest, ResetRest, SignalRest, BeginRest, CaptureRest, ForgetRest, EndRest,
           ReadPageRest, ApplyRest, FailRest, Zenon DEF Next, Write, Read
      <3> QED
        BY <2>1, <3>1 DEF ReaderInv, Rest
    <2> QED
      BY <2>2, <2>3
  <1> QED
    BY <1>1, <1>2, PTL DEF Spec

(* `run` never claims a revision that was not given out. *)
THEOREM TypeCorrect == Spec => []TypeOK
  BY ReaderInvariant, PTL DEF ReaderInv

(* A mount at rest has told the kernel of every announced change: paging,    *)
(* sweeping, coalesced wakes and retries in `run` lose nothing, for any      *)
(* number of identities and any page size.                                   *)
THEOREM NoChangeMissed == Spec => []NothingMissed
  <1>1. ReaderInv => NothingMissed
    <2> SUFFICES ASSUME ReaderInv, reader.at = "wait", ~wake, unsent = 0, woken = clock,
                        NEW v \in stale
                 PROVE  FALSE
      BY DEF NothingMissed
    <2>1. v \in Keys \cup {Local}
      BY Zenon DEF ReaderInv, TypeOK, Views
    <2>2. /\ reader.cursor.upper = NoRevision /\ clock <= reader.cursor.through
          /\ full = reader.seen /\ full \in Nat
      BY Fields, Zenon DEF ReaderInv, Stations, Awake
    <2>3. CASE v = Local
      BY <2>2, <2>3 DEF ReaderInv, Covered, CoveredLocal
    <2>4. CASE v \in Keys
      <3>1. PICK k \in {v, Whole} : mark[k] > reader.cursor.through
        BY <2>2, <2>4, Zenon DEF ReaderInv, Covered, CoveredKey, Due
      <3>2. k \in Marked
        BY <2>4 DEF Marked
      <3>3. mark[k] \in 0..clock /\ reader.cursor.through \in Int /\ clock \in Nat
        BY <3>2, Fields, PositionFacts, Zenon DEF ReaderInv
      <3> QED
        BY <2>2, <3>1, <3>3
    <2> QED
      BY <2>1, <2>3, <2>4
  <1> QED
    BY <1>1, ReaderInvariant, PTL
=============================================================================
