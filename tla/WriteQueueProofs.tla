--------------------------- MODULE WriteQueueProofs ---------------------------
(***************************************************************************)
(* The write journal's inductive invariant, part two: every change of the  *)
(* local tree queues well-formed rows, and so does the rescue of a stuck   *)
(* chain of saves; and the theorems about the journal, for every number of *)
(* rows, workers, names and existing files.                                *)
(***************************************************************************)
EXTENDS WriteQueueRowProofs, WellFoundedInduction

(* The source of an atomic replacement: its operations stay in the queue, and *)
(* the removal of the place it leaves is a request that can be queued.        *)
Replaceable(source) ==
    /\ source.object \in Int /\ source.object >= -count /\ source.waits \in SUBSET Ops
    /\ \A p \in source.waits : p <= count /\ state[p] # "Resolved" /\ Stays(p)
    /\ source.cleanup.intent = "remove" /\ source.cleanup.dest = 0
    /\ source.cleanup.at = NoSlot /\ Enqueueable(source.cleanup, count + 1)

(* Every file that can be renamed over another is such a source. *)
LEMMA SourceRow == ASSUME QueueInv, NEW source \in Sources PROVE Replaceable(source)
<1>1. ASSUME NEW p \in Ops, Extendable(p), source = Source(req[p].object, {p}, RemoveRequest(p))
      PROVE  Replaceable(source)
  <2>1. /\ source.object = req[p].object /\ source.waits = {p} /\ source.cleanup = RemoveRequest(p)
    BY Zenon, <1>1 DEF Source
  <2>2. /\ state[p] \notin {"absent", "Resolved"} /\ req[p].object \in Int
        /\ req[p].object >= -count /\ Stays(p)
    BY <1>1, ExtendableRow, Zenon
  <2>3. p <= count
    <3>1. ~(p > count) /\ count \in Nat
      BY Zenon, <2>2, CountNat DEF QueueInv, Fresh
    <3> QED
      BY <3>1 DEF Ops
  <2>4. /\ Enqueueable(RemoveRequest(p), count + 1) /\ RemoveRequest(p).intent = "remove"
        /\ RemoveRequest(p).dest = 0 /\ RemoveRequest(p).at = NoSlot
    BY <1>1, ChainedMutation, Zenon
  <2> QED
    BY Zenon, <2>1, <2>2, <2>3, <2>4 DEF Replaceable
<1>2. ASSUME NEW f \in HandedOff, source = Source(f.object, {}, RemoveRemote(f))
      PROVE  Replaceable(source)
  <2>1. source.object = f.object /\ source.waits = {} /\ source.cleanup = RemoveRemote(f)
    BY Zenon, <1>2 DEF Source
  <2>2. f.object \in Int /\ f.object >= -count
    BY HandedOffIds, Zenon
  <2>3. Enqueueable(RemoveRemote(f), count + 1)
    BY SMTT(60), RemoteRequest DEF RemoveRemote
  <2>4. /\ RemoveRemote(f).intent = "remove" /\ RemoveRemote(f).dest = 0
        /\ RemoveRemote(f).at = NoSlot
    BY Zenon DEF RemoveRemote, Request
  <2> QED
    BY Zenon, <2>1, <2>2, <2>3, <2>4 DEF Replaceable
<1> QED
  BY <1>1, <1>2, Zenon DEF Sources

(* An atomic replacement queues its upload and the cleanup of its source. *)
LEMMA ReplaceStep ==
    ASSUME QueueInv, NEW source \in Sources, NEW victim \in Int, NEW upload,
           Enqueueable(upload, count + 1), upload.intent \in {"create", "replace"}, upload.dest = 0,
           ReplaceOver(source, victim, upload)
    PROVE  QueueInv'
<1> DEFINE u == count + 1
           c == count + 2
           ru == [upload EXCEPT !.object = source.object, !.victim = victim,
                                !.prereqs = source.waits]
           rc == [source.cleanup EXCEPT !.object = Local(c), !.prereqs = {u}]
           rows == [o \in {u, c} |-> IF o = u THEN ru ELSE rc]
<1>1. /\ ~Folder(source.object) /\ count + 1 < MaxOps /\ count' = count + 2
      /\ InsertRows(rows) /\ \E p \in BOOLEAN : ready' = [ready EXCEPT ![u] = ~p]
  BY Zenon DEF ReplaceOver
<1>2. count \in Nat /\ ready \in [Ops -> BOOLEAN]
  BY BoundsAssumption DEF QueueInv, TypeOK
<1>3. u \in Ops /\ c \in Ops /\ u # c /\ count' \in 0..MaxOps /\ count' >= count
  BY <1>1, <1>2, BoundsAssumption DEF Ops
<1>4. ready' \in [Ops -> BOOLEAN]
  BY Zenon, <1>1, <1>2
<1>5. /\ source.object \in Int /\ source.object >= -count /\ source.waits \in SUBSET Ops
      /\ \A p \in source.waits : p \in Ops /\ p <= count /\ state[p] # "Resolved" /\ Stays(p)
      /\ source.cleanup.intent = "remove" /\ source.cleanup.dest = 0
      /\ source.cleanup.at = NoSlot /\ Enqueueable(source.cleanup, count + 1)
  BY SourceRow, Zenon DEF Replaceable
<1>6. Enqueueable(ru, count + 2)
  <2>1. /\ ru \in RequestType /\ ru.intent = upload.intent /\ ru.object = source.object
        /\ ru.item = upload.item /\ ru.from = upload.from /\ ru.at = upload.at
        /\ ru.base = upload.base /\ ru.dest = 0 /\ ru.prereqs = source.waits
    BY Zenon, <1>5 DEF Enqueueable, RequestType
  <2> HIDE DEF ru
  <2>2. source.object >= -(count + 2)
    BY <1>2, <1>5
  <2>3. \A p \in source.waits : p < count + 2
    BY <1>2, <1>5 DEF Ops
  <2> QED
    BY ZenonT(60), <1>1, <1>5, <2>1, <2>2, <2>3 DEF Enqueueable
<1>7. Enqueueable(rc, count + 2)
  <2>1. Local(c) \in Int /\ Local(c) >= -(count + 2) /\ NoSlot[1] = 0
    BY SMTT(60), <1>2 DEF Local, NoSlot
  <2>2. state[u] # "Resolved"
    BY <1>2, <1>3 DEF QueueInv, Fresh
  <2>3. /\ rc \in RequestType /\ rc.intent = "remove" /\ rc.object = Local(c)
        /\ rc.item = source.cleanup.item /\ rc.from = source.cleanup.from
        /\ rc.base = source.cleanup.base /\ rc.dest = 0 /\ rc.prereqs = {u} /\ rc.at = NoSlot
    BY Zenon, <1>3, <1>5, <2>1 DEF Enqueueable, RequestType
  <2>4. ~(u <= count) /\ u < count + 2 /\ NoSlot[1] >= 0
    BY <1>2, <2>1
  <2> HIDE DEF rc, u, c
  <2> QED
    BY ZenonT(60), <1>5, <2>1, <2>2, <2>3, <2>4 DEF Enqueueable
<1>8. DOMAIN rows = {u, c} /\ rows[u] = ru /\ rows[c] = rc
  BY <1>3, Zenon
<1>9. /\ ru.intent \notin {"mkdir", "remove"} /\ rc.intent = "remove"
      /\ ru.prereqs = source.waits /\ rc.prereqs = {u}
  <2>1. ru.intent = upload.intent /\ ru.prereqs = source.waits
    BY Zenon DEF Enqueueable, RequestType
  <2>2. rc.intent = "remove" /\ rc.prereqs = {u}
    BY Zenon, <1>5 DEF Enqueueable, RequestType
  <2> QED
    BY <2>1, <2>2
<1>10. count < u /\ u <= count' /\ count < c /\ c <= count' /\ u < c
  BY SMTT(60), <1>1, <1>2
<1> HIDE DEF ru, rc, rows
<1> DEFINE new == {u, c}
<1> HIDE DEF u, c
<1>11. /\ \A o \in new : count < o /\ o <= count' /\ Enqueueable(rows[o], count')
       /\ \A o \in new : rows[o].intent # "mkdir"
       /\ \A o \in new : \A q \in rows[o].prereqs :
            q <= count \/ (q < o /\ q \in new /\ rows[q].intent # "remove")
       /\ new \in SUBSET Ops /\ DOMAIN rows = new
  BY Zenon, <1>1, <1>3, <1>5, <1>6, <1>7, <1>8, <1>9, <1>10
<1> HIDE DEF new
<1> QED
  BY Zenon, <1>1, <1>3, <1>4, <1>11, InsertStep

(* The id of the next row's object does not name a folder yet. *)
LEMMA NextIsNoFolder == ASSUME QueueInv PROVE ~Folder(Local(count + 1))
<1> SUFFICES ASSUME NEW k \in Ops, req[k].intent = "mkdir", Local(count + 1) = Local(k)
             PROVE  FALSE
  BY DEF Folder
<1>1. count \in Nat
  BY CountNat
<1>2. k > count
  BY <1>1 DEF Local, Ops
<1> QED
  BY SMTT(60), <1>2 DEF QueueInv, Fresh, NoRequest, Request

(* Every local change keeps the invariant. *)
LEMMA LocalChangeInv == ASSUME QueueInv, LocalChange PROVE QueueInv'
<1>1. /\ count \in Nat /\ Local(count + 1) \in Int /\ Local(count + 1) >= -(count + 1)
      /\ NoSlot \in Slot /\ NoSlot[1] >= 0 /\ 0 \in Int
  BY BoundsAssumption DEF QueueInv, TypeOK, Local, NoSlot, Slot
<1>2. ASSUME NEW r, Enqueue(r), Enqueueable(r, count + 1) PROVE QueueInv'
  BY Zenon, <1>2, EnqueueStep DEF Enqueue
<1>3. CASE CreateFile
  <2>1. ~Folder(Local(count + 1))
    BY NextIsNoFolder
  <2>p. PICK s \in FreeSlots :
          \E d \in BindTo(s[1]) : Enqueue(Bind(Request("create", Local(count + 1), 0, NoSlot, s), d))
    BY <1>3 DEF CreateFile
  <2>2. PICK d \in BindTo(s[1]) : Enqueue(Bind(Request("create", Local(count + 1), 0, NoSlot, s), d))
    BY SMTT(60), <2>p
  <2>3. Enqueueable(Bind(Request("create", Local(count + 1), 0, NoSlot, s), d), count + 1)
    BY <1>1, <2>1, FreeSlotType, PlacedRequest
  <2> QED
    BY <1>2, <2>2, <2>3
<1>4. CASE ReplaceFile
  <2>1. PICK f \in HandedOff : /\ ~Folder(f.object)
                               /\ Enqueue(Request("replace", f.object, f.item, f.place, NoSlot))
    BY <1>4 DEF ReplaceFile
  <2>2. Enqueueable(Request("replace", f.object, f.item, f.place, NoSlot), count + 1)
    BY Zenon, <2>1, RemoteRequest
  <2> QED
    BY <1>2, <2>1, <2>2
<1>5. CASE CreateFolder
  <2>p. PICK s \in FreeSlots :
          \E d \in BindTo(s[1]) : Enqueue(Bind(Request("mkdir", Local(count + 1), 0, NoSlot, s), d))
    BY <1>5 DEF CreateFolder
  <2>1. PICK d \in BindTo(s[1]) : Enqueue(Bind(Request("mkdir", Local(count + 1), 0, NoSlot, s), d))
    BY SMTT(60), <2>p
  <2>2. Enqueueable(Bind(Request("mkdir", Local(count + 1), 0, NoSlot, s), d), count + 1)
    BY <1>1, FreeSlotType, PlacedRequest
  <2> QED
    BY <1>2, <2>1, <2>2
<1>6. CASE Relocate
  <2>p. PICK f \in HandedOff, s \in FreeSlots :
          \E d \in BindTo(s[1]) : Enqueue(Bind(Request("move", f.object, f.item, f.place, s), d))
    BY <1>6, Zenon DEF Relocate
  <2>1. PICK d \in BindTo(s[1]) : Enqueue(Bind(Request("move", f.object, f.item, f.place, s), d))
    BY <2>p
  <2>2. /\ f.object \in Int /\ f.object >= -(count + 1) /\ f.item \in Int /\ f.item >= 0
        /\ f.place \in Slot /\ f.place[1] >= 0
    BY SMTT(60), <1>1, HandedOffIds
  <2>3. Enqueueable(Bind(Request("move", f.object, f.item, f.place, s), d), count + 1)
    BY ZenonT(60), <2>2, FreeSlotType, PlacedRequest
  <2> QED
    BY <1>2, <2>1, <2>3, ZenonT(60)
<1>7. CASE RelocateAfter
  BY ZenonT(60), <1>2, <1>7, ChainedMutation DEF RelocateAfter
<1>8. CASE SaveAfter
  BY ZenonT(60), <1>2, <1>8, ChainedSave DEF SaveAfter
<1>9. CASE Unlink
  <2>1. ASSUME NEW b \in BOOLEAN, NEW f \in HandedOff, EnqueueReady(RemoveRemote(f), ~b)
        PROVE  QueueInv'
    <3>1. Enqueueable(RemoveRemote(f), count + 1)
      BY RemoteRequest DEF RemoveRemote
    <3> QED
      BY ZenonT(60), <2>1, <3>1, EnqueueStep
  <2>2. ASSUME NEW b \in BOOLEAN, NEW p \in Ops, Extendable(p), EnqueueReady(RemoveRequest(p), ~b)
        PROVE  QueueInv'
    BY ZenonT(60), <2>2, ChainedMutation, EnqueueStep
  <2> QED
    BY <1>9, <2>1, <2>2, Zenon DEF Unlink
<1>10. CASE RemoveFolder
  <2>1. PICK f \in HandedOff : Enqueue(RemoveRemote(f))
    BY <1>10 DEF RemoveFolder
  <2>2. Enqueueable(RemoveRemote(f), count + 1)
    BY SMTT(60), RemoteRequest DEF RemoveRemote
  <2> QED
    BY <1>2, <2>1, <2>2
<1>11. CASE AtomicReplace
  <2>1. ASSUME NEW s \in Sources, NEW v \in Ops, Extendable(v),
               ReplaceOver(s, req[v].object, SaveRequest(v))
        PROVE  QueueInv'
    <3>1. ~Folder(req[v].object) /\ req[v].object \in Int
      BY <2>1, ExtendableRow, Zenon DEF ReplaceOver
    <3> QED
      BY <2>1, <3>1, ChainedSave, ReplaceStep
  <2>2. ASSUME NEW s \in Sources, NEW f \in HandedOff,
               ReplaceOver(s, f.object, Request("replace", f.object, f.item, f.place, NoSlot))
        PROVE  QueueInv'
    <3> DEFINE r == Request("replace", f.object, f.item, f.place, NoSlot)
    <3>1. ~Folder(f.object) /\ f.object \in Int
      BY <2>2, HandedOffIds, Zenon DEF ReplaceOver
    <3>2. Enqueueable(r, count + 1)
      BY ZenonT(60), <3>1, RemoteRequest
    <3>3. r.intent \in {"create", "replace"} /\ r.dest = 0
      BY Zenon DEF Request
    <3> HIDE DEF r
    <3>4. ReplaceOver(s, f.object, r)
      BY <2>2 DEF r
    <3> QED
      BY <3>1, <3>2, <3>3, <3>4, ReplaceStep
  <2> QED
    BY ZenonT(60), <1>11, <2>1, <2>2 DEF AtomicReplace
<1> QED
  BY ZenonT(60), <1>3, <1>4, <1>5, <1>6, <1>7, <1>8, <1>9, <1>10, <1>11 DEF LocalChange

-----------------------------------------------------------------------------
(* The rescue of a stuck chain. *)

(* What a rescue makes of the rows that were there. *)
LEMMA RescuedRows ==
    ASSUME NEW p \in Ops, NEW o \in Ops, KeepBoth(p)
    PROVE  \E C \in SUBSET Ops :
              /\ Rescuable(p, C)
              /\ o # count + 1 => req'[o] = Rebind(o)
              /\ o # count + 1 /\ o \notin C => state'[o] = StateNow(o)
<1>1. PICK name \in Names, C \in SUBSET Ops, d \in BindTo(RefusedSlot(p)[1]) : KeepBothAs(p, C, name, d)
  BY Zenon DEF KeepBoth
<1>2. /\ Rescuable(p, C)
      /\ o # count + 1 => req'[o] = Rebind(o)
      /\ o # count + 1 /\ o \notin C => state'[o] = StateNow(o)
  BY <1>1, Zenon DEF KeepBothAs
<1> QED
  BY <1>2, Zenon

(* A row that is running or confirmed is never one a new request is stored in, *)
(* bound into or resolved with.                                                *)
LEMMA RowsLeftAlone ==
    ASSUME QueueInv, NEW o \in Ops, Begun(o)
    PROVE  /\ o <= count /\ Rebind(o) = req[o] /\ StateNow(o) = state[o]
           /\ \A p \in Ops, C \in SUBSET Ops : Rescuable(p, C) => o \notin C
<1>1. o <= count
  <2>1. o > count => state[o] = "absent"
    BY ZenonT(60) DEF QueueInv, Fresh
  <2>2. state[o] # "absent"
    BY DEF Begun, Active, Confirming
  <2>3. count \in 0..MaxOps
    BY Zenon DEF QueueInv, TypeOK
  <2> QED
    BY <2>1, <2>2, <2>3, BoundsAssumption DEF Ops
<1>2. Rebind(o) = req[o] /\ StateNow(o) = state[o]
  BY Zenon, Rebinding, Batches DEF StateNow, Begun, Active, Confirming
<1>3. \A p \in Ops, C \in SUBSET Ops :
        Rescuable(p, C) /\ o \in C => StateNow(o) \in {"Pending", "Conflict", "Failed"}
  BY Zenon DEF Rescuable, UntouchedSave
<1> QED
  BY Zenon, <1>1, <1>2, <1>3 DEF Begun, Active, Confirming

(* Rows outside a rescued chain keep what binding has established of them, and *)
(* the copy that the rescue queues needs no binding.                           *)
LEMMA RescueBindings ==
    ASSUME QueueInv, NEW new \in Ops, NEW r,
           Enqueueable(r, new), r.base = 0, tagless' = tagless,
           ~Begun(new), ~resolved[new], ~bound[new], new \notin DestBatch, new \notin Rebased,
           \A p \in Ops : /\ req'[p] = IF p = new THEN r ELSE Rebind(p)
                          /\ bound'[p] <=> bound[p] \/ p \in DestBatch
                          /\ resolved'[p] <=> resolved[p] \/ p \in Rebased,
           \A p \in Ops : /\ complete[p] => state'[p] = state[p] /\ req'[p] = req[p]
                          /\ Begun(p)' <=> Begun(p),
           \A p \in Ops \ {new} : Upload(p)' <=> Upload(p)
    PROVE  Bindings'
<1>0. Bindings /\ Lifecycle
  BY ZenonT(60) DEF QueueInv
<1> SUFFICES ASSUME NEW p \in Ops, NEW b, b = req'[p].base
             PROVE  /\ resolved'[p] => /\ b # 0 /\ Usable(b)'
                                       /\ req'[p].item = ConfirmedItem(b)'
                                       /\ req'[p].from = ConfirmedSlot(b)'
                                       /\ Upload(p)' => req'[p].at[1] >= 0
                    /\ b = 0 => req'[p].item >= 0 /\ req'[p].from[1] >= 0
                    /\ req'[p].dest = 0 /\ (b = 0 \/ ~Upload(p)') => req'[p].at[1] >= 0
                    /\ req'[p].dest # 0 /\ bound'[p] => req'[p].at[1] >= 0
                    /\ Begun(p)' => /\ req'[p].dest = 0 \/ bound'[p]
                                    /\ b = 0 \/ resolved'[p]
                                    /\ req'[p].item >= 0 /\ req'[p].at[1] >= 0 /\ req'[p].from[1] >= 0
  BY Zenon DEF Bindings, Usable, Confirmed, ConfirmedItem, ConfirmedSlot
<1>1. CASE p = new
  BY ZenonT(60), <1>1 DEF Enqueueable
<1>2. CASE p # new
  <2>r. req'[p] = Rebind(p) /\ b = req[p].base /\ req'[p].dest = req[p].dest /\ (Upload(p)' <=> Upload(p))
    BY SMTT(60), <1>2, Rebinding DEF Upload
  <2>0. /\ b = req[p].base /\ req'[p].dest = req[p].dest /\ (Upload(p)' <=> Upload(p))
        /\ p \notin Rebased => req'[p].item = req[p].item /\ req'[p].from = req[p].from
        /\ p \in Rebased => req'[p].item = ConfirmedItem(b) /\ req'[p].from = ConfirmedSlot(b)
        /\ p \in Rebased /\ Upload(p) => req'[p].at = NoSlot
        /\ p \in DestBatch => req'[p].at[1] >= 0
        /\ p \notin DestBatch => req'[p].at = req[p].at \/ req'[p].at = NoSlot
        /\ NoSlot[1] >= 0
    <3>1. NoSlot[1] >= 0
      BY DEF NoSlot
    <3>2. /\ p \notin Rebased => Rebind(p).item = req[p].item /\ Rebind(p).from = req[p].from
          /\ p \in Rebased => /\ Rebind(p).item = ConfirmedItem(req[p].base)
                              /\ Rebind(p).from = ConfirmedSlot(req[p].base)
          /\ p \in Rebased /\ Upload(p) => Rebind(p).at = NoSlot
          /\ p \in DestBatch => Rebind(p).at[1] >= 0
          /\ p \notin DestBatch => Rebind(p).at = req[p].at \/ Rebind(p).at = NoSlot
      BY Rebinding, ZenonT(60)
    <3> QED BY ZenonT(60), <2>r, <3>1, <3>2
  <2>i. /\ resolved[p] => /\ b # 0 /\ Usable(b)
                          /\ req[p].item = ConfirmedItem(b) /\ req[p].from = ConfirmedSlot(b)
                          /\ Upload(p) => req[p].at[1] >= 0
        /\ b = 0 => req[p].item >= 0 /\ req[p].from[1] >= 0
        /\ req[p].dest = 0 /\ (b = 0 \/ ~Upload(p)) => req[p].at[1] >= 0
        /\ req[p].dest # 0 /\ bound[p] => req[p].at[1] >= 0
        /\ Begun(p) => (req[p].dest = 0 \/ bound[p]) /\ (b = 0 \/ resolved[p])
    BY <1>0, <2>0 DEF Bindings
  <2>n. /\ bound'[p] <=> bound[p] \/ p \in DestBatch
        /\ resolved'[p] <=> resolved[p] \/ p \in Rebased
        /\ p \in Rebased => b \in Ops /\ Usable(b) /\ ~resolved[p]
        /\ p \in DestBatch => req[p].dest \in Ops
        /\ b = 0 \/ b \in Ops
        /\ 0 \notin Ops
        /\ Begun(p)' <=> Begun(p)
    <3>1. /\ bound'[p] <=> bound[p] \/ p \in DestBatch
          /\ resolved'[p] <=> resolved[p] \/ p \in Rebased
          /\ Begun(p)' <=> Begun(p)
      BY Zenon
    <3>2. /\ p \in Rebased => b \in Ops /\ Usable(b) /\ ~resolved[p]
          /\ p \in DestBatch => req[p].dest \in Ops
      BY <2>r, Batches
    <3>3. req[p].base = 0 \/ req[p].base \in Ops
      BY References, Zenon DEF QueueInv
    <3>4. 0 \notin Ops
      BY DEF Ops
    <3> QED
      BY ZenonT(60), <2>r, <3>1, <3>2, <3>3, <3>4
  <2>1. ASSUME resolved'[p]
        PROVE  /\ b \in Ops /\ Begun(b) /\ Usable(b)'
               /\ req'[p].item = ConfirmedItem(b) /\ req'[p].from = ConfirmedSlot(b)
               /\ ConfirmedItem(b)' = ConfirmedItem(b) /\ ConfirmedSlot(b)' = ConfirmedSlot(b)
    <3>1. b \in Ops /\ Usable(b)
      BY ZenonT(60), <2>i, <2>n, <2>1
    <3>2. state[b] \in Confirming /\ complete[b] /\ Begun(b)
      BY ZenonT(60), <1>0, <3>1 DEF Usable, Confirmed, Lifecycle, Begun
    <3>3. state'[b] = state[b] /\ req'[b] = req[b]
      BY ZenonT(60), <3>1, <3>2
    <3>4. Usable(b)' /\ ConfirmedItem(b)' = ConfirmedItem(b) /\ ConfirmedSlot(b)' = ConfirmedSlot(b)
      BY ZenonT(60), <3>1, <3>3 DEF Usable, Confirmed, ConfirmedItem, ConfirmedSlot
    <3>5. req'[p].item = ConfirmedItem(b) /\ req'[p].from = ConfirmedSlot(b)
      BY ZenonT(60), <2>0, <2>i, <2>n, <2>1
    <3> QED
      BY ZenonT(60), <3>1, <3>2, <3>4, <3>5
  <2>2. /\ b = 0 => req'[p].item >= 0 /\ req'[p].from[1] >= 0
        /\ req[p].dest = 0 /\ (b = 0 \/ ~Upload(p)) => req'[p].at[1] >= 0
        /\ req[p].dest # 0 /\ bound'[p] => req'[p].at[1] >= 0
        /\ resolved'[p] /\ Upload(p) => req'[p].at[1] >= 0
    BY ZenonT(60), <2>0, <2>i, <2>n
  <2>3. Begun(p)' => (req[p].dest = 0 \/ bound'[p]) /\ (b = 0 \/ resolved'[p])
    BY ZenonT(60), <2>i, <2>n
  <2>4. resolved'[p] => req'[p].item >= 0 /\ req'[p].from[1] >= 0
    BY <2>1, ReceiptIds
  <2> QED
    BY ZenonT(60), <2>0, <2>1, <2>2, <2>3, <2>4, <2>n
<1> QED
  BY <1>1, <1>2, ZenonT(60)

(* A rescue resolves its whole chain and queues the copy in one transaction. *)
LEMMA KeepBothInv == ASSUME QueueInv, NEW o \in Ops, KeepBoth(o) PROVE QueueInv'
<1>0. /\ TypeOK /\ Fresh /\ Lifecycle /\ FolderRows /\ Wants
      /\ AttemptFence /\ EditsRetained /\ RescueLeavesNoOrphan /\ Anchored
  BY ZenonT(60) DEF QueueInv
<1>p. PICK name \in Names, C \in SUBSET Ops, d \in BindTo(RefusedSlot(o)[1]) : KeepBothAs(o, C, name, d)
  BY Zenon DEF KeepBoth
<1> DEFINE new == count + 1
           old == RefusedSlot(o)
           at == <<old[1], name>>
           r == Bind(Request("create", Local(new), 0, NoSlot, at), d)
<1>1. count \in Nat /\ count < MaxOps /\ count' = new /\ new \in Ops /\ new > count /\ count' \in 0..MaxOps
  <2>1. count < MaxOps /\ count' = count + 1
    BY Zenon, <1>p DEF KeepBoth, KeepBothAs
  <2>2. count \in 0..MaxOps
    BY ZenonT(60), <1>0 DEF TypeOK
  <2> QED
    BY SMTT(60), <2>1, <2>2, BoundsAssumption DEF Ops
<1>2. /\ req' = [p \in Ops |-> IF p = new THEN r ELSE Rebind(p)]
      /\ resources' = [p \in Ops |-> IF p = new THEN Resources(r) ELSE ResourcesNow(p)]
      /\ bound' = [p \in Ops |-> bound[p] \/ p \in DestBatch]
      /\ resolved' = [p \in Ops |-> resolved[p] \/ p \in Rebased]
      /\ state' = [p \in Ops |-> IF p = new THEN "Pending"
                                 ELSE IF p \in C THEN "Resolved" ELSE StateNow(p)]
      /\ complete' = [p \in Ops |-> complete[p] \/ p \in C]
      /\ objects' = objects \cup {new}
      /\ UNCHANGED <<attempt, ready, due, session, prepared, tagless>>
      /\ Rescuable(o, C)
  BY Zenon, <1>p DEF KeepBothAs
<1>3. Enqueueable(r, new) /\ r.intent = "create" /\ r.object = Local(new) /\ r.base = 0 /\ r.prereqs = {}
  <2>1. old \in Slot
    BY Zenon, <1>0, References DEF RequestType, RefusedSlot
  <2>2. at \in Slot /\ at[1] = old[1] /\ at[1] \in Int
    BY <2>1, Zenon DEF Slot
  <2>3. /\ Local(new) \in Int /\ Local(new) >= -new
        /\ NoSlot \in Slot /\ NoSlot[1] >= 0 /\ 0 \in Int
    BY SMTT(60), <1>1 DEF Local, NoSlot, Slot
  <2> HIDE DEF at
  <2>4. Enqueueable(r, new)
    BY <2>2, <2>3, NextIsNoFolder, PlacedRequest
  <2> QED
    BY Zenon, <2>4 DEF Bind, Request
<1> HIDE DEF r, old, at
<1>4. /\ \A p \in Ops : /\ req'[p] = IF p = new THEN r ELSE Rebind(p)
                        /\ state'[p] = IF p = new THEN "Pending"
                                       ELSE IF p \in C THEN "Resolved" ELSE StateNow(p)
                        /\ complete'[p] <=> complete[p] \/ p \in C
                        /\ bound'[p] <=> bound[p] \/ p \in DestBatch
                        /\ resolved'[p] <=> resolved[p] \/ p \in Rebased
      /\ objects' = objects \cup {new}
      /\ UNCHANGED <<attempt, tagless>>
      /\ Rescuable(o, C)
  BY ZenonT(60), <1>2
<1>5. /\ req[new] = NoRequest /\ state[new] = "absent" /\ attempt[new] = None
      /\ ~complete[new] /\ ~resolved[new] /\ ~bound[new]
      /\ new \notin DestBatch /\ new \notin Rebased
  BY ZenonT(60), <1>0, <1>1, Batches DEF Fresh
<1> HIDE DEF new
<1>6. \A p \in Ops : /\ StateNow(p) = state[p] \/ (state[p] = "Pending" /\ StateNow(p) = "Failed")
                     /\ complete[p] \/ Begun(p) => StateNow(p) = state[p] /\ Rebind(p) = req[p]
  BY Zenon, Batches, Rebinding DEF StateNow, Begun, Active, Confirming
<1>7. \A p \in C : /\ Upload(p) /\ p # new /\ ~complete[p] /\ ~Begun(p) /\ ~Wanted(p)
                   /\ state[p] # "absent" /\ state[p] \in States
  <2>1. \A p \in C : Upload(p) /\ StateNow(p) \in {"Pending", "Conflict", "Failed"} /\ ~Wanted(p)
    BY <1>4, Zenon DEF Rescuable, UntouchedSave
  <2>2. \A p \in C : state[p] \in {"Pending", "Conflict", "Failed"}
    BY Zenon, <1>6, <2>1
  <2>3. new \notin C
    BY ZenonT(60), <1>5, <2>2
  <2> QED
    BY ZenonT(60), <1>0, <2>1, <2>2, <2>3 DEF Lifecycle, Begun, Active, Confirming, TypeOK
<1>8. TypeOK'
  <2>1. req' \in [Ops -> RequestType] /\ resources' \in [Ops -> SUBSET Keys]
    BY ZenonT(60), <1>2, <1>3, Rebinding, ResourcesType DEF r, Enqueueable
  <2>2. state' \in [Ops -> States]
    <3>1. \A p \in Ops : StateNow(p) \in States
      BY <1>0, <1>6 DEF TypeOK, States, Stuck
    <3>2. "Pending" \in States /\ "Resolved" \in States
      BY SMTT(60) DEF States
    <3> QED
      BY ZenonT(60), <1>2, <3>1, <3>2
  <2>3. bound' \in [Ops -> BOOLEAN] /\ resolved' \in [Ops -> BOOLEAN] /\ complete' \in [Ops -> BOOLEAN]
    BY ZenonT(60), <1>2
  <2> QED
    BY ZenonT(60), <1>0, <1>1, <1>2, <1>4, <2>1, <2>2, <2>3 DEF TypeOK
<1>9. \A p \in Ops : /\ complete[p] => state'[p] = state[p] /\ req'[p] = req[p] /\ p \notin C
                     /\ Begun(p)' <=> Begun(p)
                     /\ Begun(p) => p # new
                     /\ p # new => (state'[p] = "absent" <=> state[p] = "absent")
  <2> TAKE p \in Ops
  <2>1. CASE p = new
    BY <1>4, <1>5, <2>1, Zenon DEF Begun, Active, Confirming
  <2>2. CASE p \in C
    BY Zenon, <1>4, <1>7, <2>2 DEF Begun, Active, Confirming
  <2>3. CASE p # new /\ p \notin C
    BY ZenonT(60), <1>4, <1>6, <2>3 DEF Begun, Active, Confirming
  <2> QED
    BY <2>1, <2>2, <2>3, ZenonT(60)
<1>10. \A p \in Ops \ {new} : /\ req'[p].object = req[p].object /\ req'[p].base = req[p].base
                              /\ req'[p].dest = req[p].dest /\ req'[p].prereqs = req[p].prereqs
                              /\ Upload(p)' <=> Upload(p)
                              /\ ~Upload(p) => req'[p].intent = req[p].intent
  <2> TAKE p \in Ops \ {new}
  <2>1. p \in Ops /\ req'[p] = Rebind(p)
    BY Zenon, <1>4
  <2>2. /\ Rebind(p).object = req[p].object /\ Rebind(p).base = req[p].base
        /\ Rebind(p).dest = req[p].dest /\ Rebind(p).prereqs = req[p].prereqs
        /\ Rebind(p).intent \in {"create", "replace"} <=> Upload(p)
        /\ ~Upload(p) => Rebind(p).intent = req[p].intent
    BY ZenonT(60), <2>1, Rebinding
  <2> QED
    BY ZenonT(60), <2>1, <2>2 DEF Upload
<1>11. Fresh'
  <2> SUFFICES ASSUME NEW p \in Ops
               PROVE  /\ p > count' => /\ req'[p] = NoRequest /\ state'[p] = "absent"
                                       /\ attempt[p] = None /\ ~complete'[p] /\ ~resolved'[p] /\ ~bound'[p]
                      /\ req'[p].object >= -count'
    BY <1>0, <1>4, ZenonT(60) DEF Fresh
  <2>1. ASSUME p > count' PROVE p > count /\ p # new
    BY <1>1, <2>1 DEF new, Ops
  <2>2. p > count /\ p # new =>
          /\ req'[p] = NoRequest /\ state'[p] = "absent" /\ attempt[p] = None
          /\ ~complete'[p] /\ ~resolved'[p] /\ ~bound'[p]
    <3>1. p > count => state[p] = "absent" /\ p \notin C /\ p \notin DestBatch /\ p \notin Rebased
      BY ZenonT(60), <1>0, <1>7, Batches DEF Fresh
    <3> QED
      BY ZenonT(60), <1>0, <1>4, <1>6, <3>1 DEF Fresh, Rebind, AtRemote
  <2>3. req'[p].object >= -count'
    <3>1. req[p].object \in Int /\ req[p].object >= -count
      BY ZenonT(60), <1>0, References DEF Fresh, RequestType
    <3> QED
      <4>1. req'[p].object = req[p].object \/ req'[p].object >= -new
        BY Zenon, <1>3, <1>4, <1>10 DEF Enqueueable
      <4>2. count \in Int /\ new = count + 1 /\ count' = new
        BY <1>1 DEF new
      <4> QED BY <3>1, <4>1, <4>2
  <2> QED
    BY ZenonT(60), <2>1, <2>2, <2>3
<1>12. Lifecycle'
  <2> SUFFICES ASSUME NEW p \in Ops
               PROVE  /\ complete'[p] <=> state'[p] \in Confirming \cup {"Resolved"}
                      /\ IF Upload(p)' THEN state'[p] \notin {"Applying", "Applied", "NeedsReview"}
                                       ELSE state'[p] \notin {"Uploading", "Uploaded", "Resolved"}
                      /\ state'[p] # "absent" => req'[p].intent # "none"
    BY ZenonT(60), <1>0 DEF Lifecycle, Live
  <2>1. CASE p = new
    BY ZenonT(60), <1>3, <1>4, <1>5, <1>7, <2>1 DEF Confirming
  <2>2. CASE p \in C
    BY ZenonT(60), <1>4, <1>7, <1>10, <2>2 DEF Upload
  <2>3. CASE p # new /\ p \notin C
    <3>1. state'[p] # "absent" => req'[p].intent # "none"
      <4>1. state'[p] # "absent" => req[p].intent # "none"
        BY ZenonT(60), <1>0, <1>9, <2>3 DEF Lifecycle, Live
      <4>2. /\ Upload(p)' <=> Upload(p)
            /\ ~Upload(p) => req'[p].intent = req[p].intent
        BY ZenonT(60), <1>10, <2>3
      <4> QED
        BY ZenonT(60), <4>1, <4>2 DEF Upload
    <3>2. state'[p] = state[p] \/ (state[p] = "Pending" /\ state'[p] = "Failed")
      BY ZenonT(60), <1>4, <1>6, <2>3
    <3>3. /\ complete[p] <=> state[p] \in Confirming \cup {"Resolved"}
          /\ IF Upload(p) THEN state[p] \notin {"Applying", "Applied", "NeedsReview"}
                          ELSE state[p] \notin {"Uploading", "Uploaded", "Resolved"}
      BY Zenon, <1>0 DEF Lifecycle
    <3>4. /\ complete'[p] <=> complete[p]
          /\ Upload(p)' <=> Upload(p)
      BY ZenonT(60), <1>4, <1>10, <2>3
    <3>5. complete'[p] <=> state'[p] \in Confirming \cup {"Resolved"}
      BY ZenonT(60), <3>2, <3>3, <3>4 DEF Confirming
    <3>6. IF Upload(p)' THEN state'[p] \notin {"Applying", "Applied", "NeedsReview"}
                        ELSE state'[p] \notin {"Uploading", "Uploaded", "Resolved"}
      BY Zenon, <3>2, <3>3, <3>4
    <3> QED
      BY ZenonT(60), <3>1, <3>5, <3>6
  <2> QED
    BY Zenon, <2>1, <2>2, <2>3
<1>13. FolderRows'
  <2>1. \A p \in Ops : /\ req'[p].intent = "mkdir" <=> req[p].intent = "mkdir"
                       /\ req[p].intent \in {"mkdir", "move", "remove"} => req'[p].intent = req[p].intent
    <3>1. NoRequest.intent = "none"
      BY ZenonT(60) DEF NoRequest, Request
    <3> QED
      BY ZenonT(60), <1>3, <1>4, <1>5, <1>10, <3>1 DEF Upload
  <2>2. ASSUME NEW p \in Ops, Folder(req[p].object)' PROVE req'[p].intent \in {"mkdir", "move", "remove"}
    <3>1. PICK k \in Ops : req[k].intent = "mkdir" /\ req'[p].object = Local(k)
      BY <2>1, <2>2, Zenon DEF Folder
    <3>2. p # new
      BY ZenonT(60), <1>3, <1>4, <3>1, NextIsNoFolder DEF Folder, new
    <3> QED
      <4>1. Folder(req[p].object)
        BY Zenon, <1>10, <3>1, <3>2 DEF Folder
      <4> QED BY Zenon, <1>0, <2>1, <4>1 DEF FolderRows
  <2>3. ASSUME NEW p \in Ops, req'[p].dest # 0 PROVE req'[req'[p].dest].intent \in {"mkdir", "move"}
    <3>1. req[req'[p].dest].intent \in {"mkdir", "move"}
      <4>1. CASE p = new
        BY ZenonT(60), <1>3, <1>4, <2>3, <4>1 DEF Enqueueable
      <4>2. CASE p # new
        BY SMTT(60), <1>0, <1>10, <2>3, <4>2 DEF FolderRows
      <4> QED
        BY Zenon, <4>1, <4>2
    <3>2. req'[p].dest \in Ops
      <4>1. req'[p] \in RequestType
        BY ZenonT(60), <1>0, <1>8 DEF TypeOK
      <4>2. req'[p].dest \in 0..MaxOps
        BY <4>1, Zenon DEF RequestType
      <4> QED
        BY SMTT(60), <2>3, <4>2, BoundsAssumption DEF Ops
    <3> QED
      BY <2>1, <3>1, <3>2, Zenon
  <2> QED
    BY ZenonT(60), <1>0, <2>2, <2>3 DEF FolderRows
<1>14. Wants'
  <2> SUFFICES ASSUME NEW e \in Ops, NEW q \in Ops, Live(e)', q \in req'[e].prereqs
               PROVE  state'[q] # "Resolved" /\ (Begun(e)' => complete'[q])
    BY Zenon, <1>0 DEF Wants
  <2>1. e # new
    BY ZenonT(60), <1>3, <1>4
  <2>2. Live(e) /\ q \in req[e].prereqs
    BY ZenonT(60), <1>9, <1>10, <2>1 DEF Live
  <2>3. q \notin C
    BY ZenonT(60), <1>7, <2>2 DEF Wanted
  <2>4. state[q] # "Resolved" /\ (Begun(e) => complete[q])
    BY ZenonT(60), <1>0, <2>2 DEF Wants
  <2> QED
    BY ZenonT(60), <1>4, <1>6, <1>9, <2>3, <2>4
<1>15. AttemptFence'
  <2>1. \A p \in Ops : state'[p] \in Active <=> state[p] \in Active
    BY ZenonT(60), <1>4, <1>5, <1>6, <1>7 DEF Begun, Active
  <2> QED
    BY Zenon, <1>0, <1>4, <2>1 DEF AttemptFence
<1>16. EditsRetained'
  <2> SUFFICES ASSUME NEW p \in Ops, Live(p)', Upload(p)', state'[p] # "Uploaded"
               PROVE  p \in objects'
    BY Zenon, <1>0 DEF EditsRetained
  <2>1. p # new => Live(p) /\ Upload(p) /\ state[p] # "Uploaded"
    BY ZenonT(60), <1>4, <1>6, <1>7, <1>9, <1>10 DEF Live, Begun, Confirming
  <2> QED
    BY ZenonT(60), <1>0, <1>4, <2>1 DEF EditsRetained
<1>17. RescueLeavesNoOrphan'
  <2> SUFFICES ASSUME NEW p \in Ops, NEW q \in {req'[p].base} \cup req'[p].prereqs, q # 0,
                      state'[p] \in {"Pending", "VerifyRequired"} \cup Active
               PROVE  state'[q] # "Resolved"
    BY ZenonT(60) DEF RescueLeavesNoOrphan
  <2>1. p # new
    BY Zenon, <1>3, <1>4
  <2>2. p \notin C /\ state[p] \in {"Pending", "VerifyRequired"} \cup Active
    BY ZenonT(60), <1>4, <1>6, <2>1 DEF Active
  <2>3. q \in {req[p].base} \cup req[p].prereqs /\ q \in Ops
    BY ZenonT(60), <1>0, <1>10, <2>1, References
  <2>4. q \notin C
    <3>1. req[p].base \in C => p \in C
      BY ZenonT(60), <1>4 DEF Rescuable, SaveChain
    <3>2. q \in req[p].prereqs => Wanted(q)
      BY Zenon, <2>2 DEF Wanted, Live, Active
    <3> QED
      BY Zenon, <1>7, <2>2, <2>3, <3>1, <3>2
  <2>5. state[q] # "Resolved"
    BY Zenon, <1>0, <2>2, <2>3 DEF RescueLeavesNoOrphan
  <2> QED
    BY ZenonT(60), <1>4, <1>6, <2>3, <2>4, <2>5
<1>18. Bindings'
  <2>1. ~Begun(new)
    BY <1>5 DEF Begun, Active, Confirming
  <2>2. /\ tagless' = tagless
        /\ \A p \in Ops : /\ req'[p] = IF p = new THEN r ELSE Rebind(p)
                          /\ bound'[p] <=> bound[p] \/ p \in DestBatch
                          /\ resolved'[p] <=> resolved[p] \/ p \in Rebased
    BY Zenon, <1>4
  <2>3. /\ \A p \in Ops : /\ complete[p] => state'[p] = state[p] /\ req'[p] = req[p]
                          /\ Begun(p)' <=> Begun(p)
        /\ \A p \in Ops \ {new} : Upload(p)' <=> Upload(p)
    BY Zenon, <1>9, <1>10
  <2> QED
    BY ZenonT(60), <1>1, <1>3, <1>5, <2>1, <2>2, <2>3, RescueBindings
<1>19. Anchored'
  <2> DEFINE N == {new}
  <2>1. \A p \in Ops : p \notin N => SameWaits(p)
    BY Zenon, <1>10 DEF SameWaits
  <2>2. ASSUME NEW p \in Ops, Stays(p) PROVE Stays(p)'
    <3>1. p # new /\ state'[p] # "absent"
      BY Zenon, <1>5, <1>9, <2>2 DEF Stays, Live
    <3>2. req'[p].intent # "remove"
      BY Zenon, <1>10, <2>2, <3>1 DEF Stays, Upload
    <3> QED
      BY ZenonT(60), <3>1, <3>2 DEF Stays, Live
  <2>3. ASSUME NEW p \in Ops PROVE Verifiable(p)'
    <3>1. state'[p] = "VerifyRequired" => p # new /\ state[p] = "VerifyRequired"
      BY Zenon, <1>4, <1>6
    <3> QED
      BY ZenonT(60), <1>4, <1>10, <3>1, BoundBase DEF Verifiable
  <2>4. ASSUME NEW q \in N, NEW p \in WaitsFor(q)', p # 0 PROVE p < q /\ Stays(p)'
    <3>0. q = new /\ req'[q] = r
      BY ZenonT(60), <1>1, <1>4
    <3>1. p = r.dest /\ Stays(p)
      BY ZenonT(60), <1>3, <2>4, <3>0 DEF WaitsFor, Enqueueable
    <3>2. p \in Ops
      <4>1. r.dest \in 0..MaxOps
        BY Zenon, <1>3 DEF Enqueueable, RequestType
      <4> QED
        BY <2>4, <3>1, <4>1, BoundsAssumption DEF Ops
    <3>3. ~(p > count)
      BY Zenon, <1>0, <3>1, <3>2 DEF Stays, Live, Fresh
    <3>4. p < new
      BY <1>1, <3>2, <3>3 DEF Ops
    <3> QED
      BY Zenon, <2>2, <3>0, <3>1, <3>2, <3>4
  <2> HIDE DEF N
  <2> QED
    BY Zenon, <1>0, <2>1, <2>2, <2>3, <2>4, AnchorsKept
<1> QED
  BY ZenonT(60), <1>8, <1>11, <1>12, <1>13, <1>14, <1>15, <1>16, <1>17, <1>18, <1>19 DEF QueueInv

-----------------------------------------------------------------------------
(* Every step keeps the inductive invariant. *)
LEMMA NextInv == QueueInv /\ [Next]_vars => QueueInv'
<1> SUFFICES ASSUME QueueInv, [Next]_vars PROVE QueueInv'
  OBVIOUS
<1>1. CASE Reopen
  <2>1. 1 \in Ops
    BY BoundsAssumption DEF Ops
  <2> QED
    BY <1>1, <2>1, MaintenanceInv
<1>2. CASE UNCHANGED vars
  <2>1. TypeOK' /\ AttemptFence'
    BY <1>2, Zenon DEF vars, QueueInv, TypeOK, AttemptFence
  <2> QED
    BY ZenonT(60), <1>2, <2>1, RetreatStep DEF vars
<1> QED
  BY <1>1, <1>2, LocalChangeInv, ClaimInv, WorkerCallInv, MaintenanceInv, KeepBothInv, Zenon DEF Next

(* The inductive invariant holds in every reachable state of the journal. *)
THEOREM Invariance == Spec => []QueueInv
  BY InitInv, NextInv, PTL DEF Spec

(* The journal's tables keep their types, whatever the sizes: in particular    *)
(* every dependency of a row names a row.                                      *)
THEOREM TypeCorrect == Spec => []TypeOK
<1>1. QueueInv => TypeOK
  BY DEF QueueInv
<1> QED
  BY <1>1, Invariance, PTL

(* A running attempt has one owner and an owner one attempt: the token check   *)
(* of active_attempt and mutation_attempt fences out every other caller.       *)
THEOREM AttemptsFenced == Spec => []AttemptFence
<1>1. QueueInv => AttemptFence
  BY ZenonT(60) DEF QueueInv
<1> QED
  BY <1>1, Invariance, PTL

(* No provider call receives an id that only this machine knows. *)
THEOREM OnlyProviderIds == Spec => []ProviderIdsOnly
<1>1. QueueInv => ProviderIdsOnly
  BY ZenonT(60) DEF QueueInv, Bindings, ProviderIdsOnly, Begun
<1> QED
  BY <1>1, Invariance, PTL

(* A chained operation runs against its predecessor's receipt only. *)
THEOREM ReceiptBases == Spec => []BaseFromReceipt
<1>1. QueueInv => BaseFromReceipt
  BY Zenon DEF QueueInv, Bindings, BaseFromReceipt
<1> QED
  BY <1>1, Invariance, PTL

(* An editor's temporary file is only removed after the upload it fed. *)
THEOREM CleanupOrdered == Spec => []CleanupAfterUpload
<1>1. QueueInv => CleanupAfterUpload
  BY Zenon DEF QueueInv, Wants, Lifecycle, CleanupAfterUpload
<1> QED
  BY <1>1, Invariance, PTL

(* An edit the provider has not confirmed keeps its payload on disk. *)
THEOREM EditsKept == Spec => []EditsRetained
<1>1. QueueInv => EditsRetained
  BY DEF QueueInv
<1> QED
  BY <1>1, Invariance, PTL

(* A rescue strands no operation on a row resolved without a receipt. *)
THEOREM NoOrphans == Spec => []RescueLeavesNoOrphan
<1>1. QueueInv => RescueLeavesNoOrphan
  BY DEF QueueInv
<1> QED
  BY <1>1, Invariance, PTL

(* Some element of a set of row numbers is below all others. *)
LEMMA LeastRow == ASSUME NEW T \in SUBSET Nat, T # {} PROVE \E x \in T : \A y \in T : ~(y < x)
<1> DEFINE R == OpToRel(<, Nat)
<1>1. IsWellFoundedOn(R, Nat)
  BY NatLessThanWellFounded, Zenon
<1>2. \A x, y \in Nat : y < x => <<y, x>> \in R
  BY DEF OpToRel
<1> HIDE DEF R
<1>3. PICK x \in T : \A y \in T : ~(<<y, x>> \in R)
  BY <1>1, WFMin, Zenon
<1> QED
  BY <1>2, <1>3, Zenon

(* The oldest unfinished row waits for nothing that is not complete: with      *)
(* nothing running, refused or delayed, it can be bound or claimed.            *)
LEMMA OldestCanGo == ASSUME QueueInv PROVE NoStuckQueue
<1> DEFINE T == {o \in Ops : Live(o) /\ ~complete[o]}
<1> SUFFICES ASSUME Quiet, T # {}, ReadyDests = {}, ReadyBases = {}
             PROVE  \E o \in Ops : Eligible(o, {"Pending", "VerifyRequired"})
  BY Zenon DEF NoStuckQueue, Candidates
<1>1. T \in SUBSET Nat
  BY DEF Ops
<1>2. PICK o \in T : \A p \in T : ~(p < o)
  <2> HIDE DEF T
  <2> QED BY <1>1, LeastRow, Zenon
<1>3. o \in Ops /\ Live(o) /\ ~complete[o]
  BY Zenon
<1>4. \A p \in Ops : p < o /\ Live(p) => complete[p]
  BY <1>2, Zenon
<1> HIDE DEF T
<1>5. state[o] \in {"Pending", "VerifyRequired"} /\ ready[o] /\ due[o]
  <2>1. state[o] \in States /\ (complete[o] <=> state[o] \in Confirming \cup {"Resolved"})
    BY <1>3, ZenonT(60) DEF QueueInv, TypeOK, Lifecycle
  <2>2. state[o] \notin Active \cup Stuck /\ ready[o] /\ due[o]
    BY <1>3, Zenon DEF Quiet
  <2> QED
    BY <1>3, <2>1, <2>2, Zenon DEF Live, States
<1>6. \A p \in WaitsFor(o) : p # 0 => p \in Ops /\ Live(p) /\ complete[p]
  <2>1. \A p \in WaitsFor(o) : p # 0 => p \in Ops
    BY <1>3, References, Zenon DEF WaitsFor, QueueInv
  <2> QED
    BY <1>3, <1>4, <2>1, ZenonT(60) DEF QueueInv, Anchored
<1>7. req[o].base = 0 \/ resolved[o]
  BY <1>3, <1>5, <1>6, BoundBase, Zenon DEF ReadyBases, WaitsFor
<1>8. req[o].dest = 0 \/ bound[o]
  BY <1>3, <1>6, Zenon DEF ReadyDests, WaitsFor
<1>9. PrereqsComplete(o)
  <2>1. 0 \notin req[o].prereqs
    BY <1>3, References DEF QueueInv, Ops
  <2> QED
    BY <1>6, <2>1, Zenon DEF PrereqsComplete, WaitsFor
<1>10. StateNow(o) = state[o]
  BY <1>3, Zenon DEF StateNow, BaseBatch, FirstBatch
<1>11. Unblocked(o)
  BY <1>4, ZenonT(60) DEF Unblocked
<1> QED
  BY <1>3, <1>5, <1>7, <1>8, <1>9, <1>10, <1>11, Zenon DEF Eligible

(* The queue never wedges by itself: what an unfinished row waits for is older *)
(* and never leaves the queue, so the oldest unfinished row can always go.     *)
THEOREM NeverWedged == Spec => []NoStuckQueue
<1>1. QueueInv => NoStuckQueue
  BY OldestCanGo
<1> QED
  BY <1>1, Invariance, PTL

(* What a row waits for is older, is no removal and stays in the queue,        *)
(* whatever is discarded, rescued or chained, for any number of rows.          *)
THEOREM WaitsAnchored == Spec => []Anchored
<1>1. QueueInv => Anchored
  BY DEF QueueInv
<1> QED
  BY <1>1, Invariance, PTL

(* What a provider is asked does not change while it is asked, and what it     *)
(* confirmed is final: no later call, claim, rescue or restart takes it back.  *)
THEOREM RequestsFrozen == Spec => RequestFrozen
<1> DEFINE Kept(o) == /\ state[o] \in Active /\ attempt'[o] = attempt[o] => req'[o] = req[o]
                      /\ state[o] \in Confirming => state'[o] = state[o] /\ req'[o] = req[o]
<1>1. QueueInv /\ [Next]_vars => [\A o \in Ops : Kept(o)]_vars
  <2> SUFFICES ASSUME QueueInv, Next, NEW o \in Ops PROVE Kept(o)
    OBVIOUS
  <2>0. /\ Active \cap Confirming = {}
        /\ Begun(o) <=> state[o] \in Active \cup Confirming
        /\ state \in [Ops -> States] /\ count \in Nat
    BY SMTT(60), BoundsAssumption DEF Active, Confirming, Begun, QueueInv, TypeOK
  <2>1. CASE LocalChange
    <3>1. (\E rows : InsertRows(rows) /\ \A p \in DOMAIN rows : p > count)
      <4>1. ASSUME NEW r, NEW b, EnqueueReady(r, b)
            PROVE  \E rows : InsertRows(rows) /\ \A p \in DOMAIN rows : p > count
        <5> DEFINE rows == [x \in {count + 1} |-> r]
        <5>1. InsertRows(rows) /\ DOMAIN rows = {count + 1} /\ count + 1 > count
          BY <2>0, <4>1 DEF EnqueueReady
        <5> QED
          BY <5>1
      <4>2. ASSUME NEW s, NEW v, NEW u, ReplaceOver(s, v, u)
            PROVE  \E rows : InsertRows(rows) /\ \A p \in DOMAIN rows : p > count
        <5> DEFINE rows == [x \in {count + 1, count + 2} |->
                              IF x = count + 1
                              THEN [u EXCEPT !.object = s.object, !.victim = v, !.prereqs = s.waits]
                              ELSE [s.cleanup EXCEPT !.object = Local(count + 2),
                                                     !.prereqs = {count + 1}]]
        <5>1. InsertRows(rows) /\ DOMAIN rows = {count + 1, count + 2}
          BY <4>2, Zenon DEF ReplaceOver
        <5>2. count + 1 > count /\ count + 2 > count
          BY SMTT(60), <2>0
        <5> QED
          BY <5>1, <5>2
      <4> QED
        BY Zenon, <2>1, <4>1, <4>2
        DEF LocalChange, CreateFile, ReplaceFile, CreateFolder, Relocate, RelocateAfter, SaveAfter,
            Unlink, RemoveFolder, AtomicReplace, Enqueue
    <3>2. Begun(o) => req'[o] = req[o] /\ state'[o] = state[o]
      BY SMTT(60), <2>0, <3>1, RowsLeftAlone DEF InsertRows, Ops
    <3> QED
      BY Zenon, <2>0, <3>2
  <2>2. ASSUME NEW w \in Workers, WorkerClaim(w) PROVE Kept(o)
    <3>1. ClaimFrame
      BY Zenon, <2>2 DEF WorkerClaim, ClaimNext, ClaimVerification, ClaimMutation
    <3>2. Begun(o) => req'[o] = req[o]
      BY <3>1, RowsLeftAlone, Zenon DEF ClaimFrame, ResolveReady
    <3>3. ASSUME state[o] \in Confirming PROVE state'[o] = state[o]
      <4>1. StateNow(o) = state[o] /\ StateNow(o) \notin {"Pending", "VerifyRequired"}
        BY <2>0, <3>3, RowsLeftAlone, Zenon DEF Confirming
      <4>2. \A from \in SUBSET {"Pending", "VerifyRequired"} : \A u : ~Claimable(o, from, u)
        BY Zenon, <4>1 DEF Claimable, Candidates, Eligible
      <4>3. \/ state'[o] = StateNow(o)
            \/ \E from \in SUBSET {"Pending", "VerifyRequired"} : \E u : Claimable(o, from, u)
        BY ZenonT(60), <2>2 DEF WorkerClaim, ClaimNext, ClaimVerification, ClaimMutation, Take, TakeNothing
      <4> QED
        BY <4>1, <4>2, <4>3
    <3> QED
      BY Zenon, <2>0, <3>2, <3>3
  <2>3. ASSUME NEW w \in Workers, NEW p \in Ops, WorkerCall(p, w) PROVE Kept(o)
    <3>1. /\ state[p] \in Active /\ UNCHANGED req
          /\ \E t : state' = [state EXCEPT ![p] = t]
      BY ZenonT(60), <2>3 DEF WorkerCall, RecordSession, Defer, Acknowledge, RetryUncommitted, RecordPrepared,
                  DeferPreparation, Held, Save, plan
    <3> QED
      BY <2>0, <3>1, Zenon
  <2>4. ASSUME NEW p \in Ops, Maintenance(p) PROVE Kept(o)
    <3>1. UNCHANGED req /\ (state' = state \/ (state[p] \notin Confirming
                                               /\ \E t : state' = [state EXCEPT ![p] = t]))
      BY ZenonT(60), <2>4 DEF Maintenance, RequestRetry, Discard, ReleaseReaders, Prune, Elapse, Save, plan,
                  Confirming, Stuck
    <3>2. state[o] \in Confirming => state'[o] = state[o]
      BY Zenon, <2>0, <3>1
    <3> QED
      BY Zenon, <3>1, <3>2
  <2>5. ASSUME NEW p \in Ops, KeepBoth(p) PROVE Kept(o)
    <3>1. PICK C \in SUBSET Ops :
            /\ Rescuable(p, C)
            /\ o # count + 1 => req'[o] = Rebind(o)
            /\ o # count + 1 /\ o \notin C => state'[o] = StateNow(o)
      BY <2>5, RescuedRows, Zenon
    <3>2. Begun(o) => o # count + 1
      BY <2>0, RowsLeftAlone DEF Ops
    <3> QED
      BY ZenonT(60), <2>0, <3>1, <3>2, RowsLeftAlone
  <2>6. CASE Reopen
    BY <2>0, <2>6, Zenon DEF Reopen, plan
  <2> QED
    BY ZenonT(60), <2>1, <2>2, <2>3, <2>4, <2>5, <2>6 DEF Next
<1> QED
  BY <1>1, Invariance, PTL DEF Spec, RequestFrozen

=============================================================================
