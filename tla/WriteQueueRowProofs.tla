--------------------------- MODULE WriteQueueRowProofs ---------------------------
(***************************************************************************)
(* The write journal's inductive invariant, part one: the empty journal,   *)
(* the calls that move one row or make rows retreat (worker calls, retries, *)
(* maintenance, a restart), binding receipts into waiting rows, claiming   *)
(* one of them; and inserting rows, with the requests they are given.      *)
(***************************************************************************)
EXTENDS WriteQueue, TLAPS

(* The empty journal satisfies the inductive invariant. *)
LEMMA InitInv == Init => QueueInv
<1> SUFFICES ASSUME Init PROVE QueueInv
  OBVIOUS
<1> USE BoundsAssumption, IdAssumption DEF Init
<1>1. NoRequest \in RequestType
  BY DEF NoRequest, Request, RequestType, Slot, NoSlot, Ops
<1>2. TypeOK
  BY <1>1 DEF TypeOK, States, None, Ops
<1>3. Fresh
  BY DEF Fresh, Ops, NoRequest, Request, None
<1>4. Lifecycle
  BY Zenon DEF Lifecycle, Upload, Live, Confirming, NoRequest, Request
<1>5. FolderRows
  BY Zenon DEF FolderRows, Folder, NoRequest, Request, Ops, Local
<1>6. Bindings
  BY DEF Bindings, Begun, Active, Confirming, NoRequest, Request, NoSlot
<1>7. Wants /\ RescueLeavesNoOrphan /\ EditsRetained
  BY Zenon DEF Wants, RescueLeavesNoOrphan, EditsRetained, Live, Active, Begun
<1>8. AttemptFence
  BY Zenon DEF AttemptFence, Active, None
<1>9. Anchored
  BY Zenon DEF Anchored, WaitsFor, NoRequest, Request
<1> QED
  BY <1>2, <1>3, <1>4, <1>5, <1>6, <1>7, <1>8, <1>9, Zenon DEF QueueInv

(* The fields of a request that name other rows. *)
LEMMA References ==
    ASSUME TypeOK, NEW o \in Ops
    PROVE  /\ req[o] \in RequestType
           /\ req[o].base = 0 \/ req[o].base \in Ops
           /\ req[o].dest = 0 \/ req[o].dest \in Ops
           /\ req[o].prereqs \subseteq Ops
<1>1. req[o] \in RequestType
  BY Zenon DEF TypeOK
<1>2. req[o].base \in 0..MaxOps /\ req[o].dest \in 0..MaxOps /\ req[o].prereqs \subseteq Ops
  BY <1>1, Zenon DEF RequestType
<1> QED
  BY <1>1, <1>2, BoundsAssumption DEF Ops

(* A row others may wait for. *)
Stays(p) == Live(p) /\ req[p].intent # "remove"
SameWaits(o) == /\ req'[o].base = req[o].base /\ req'[o].dest = req[o].dest
                /\ req'[o].prereqs = req[o].prereqs
Verifiable(o) == state[o] = "VerifyRequired" => req[o].base = 0 \/ resolved[o]

(* Rows are numbered from one. *)
LEMMA NoRowZero == 0 \notin Ops
  BY DEF Ops
(* Row numbers are integers, and so is the number of rows. *)
LEMMA Numbers == Ops \subseteq Int /\ 0..MaxOps \subseteq Int /\ 0 \in 0..MaxOps
  BY BoundsAssumption DEF Ops
(* A row behind the new end of the queue is behind the old one, and new rows *)
(* are not behind the new end.                                               *)
LEMMA Behind ==
    ASSUME NEW o \in Int, NEW m \in Int, NEW n \in Int, n >= m, o > n
    PROVE  o > m /\ ~(o <= n)
  OBVIOUS
(* Ids that are local to a queue of m rows are so to a longer one. *)
LEMMA LocalId ==
    ASSUME NEW x \in Int, NEW m \in Int, NEW n \in Int, n >= m, x >= -m
    PROVE  x >= -n
  OBVIOUS
(* The folder with local id -k was made by a row within the queue. *)
LEMMA MadeWithin ==
    ASSUME NEW k \in Int, NEW m \in Int, -k >= -m
    PROVE  ~(m < k)
  OBVIOUS
(* Rows within the queue are older than the rows added behind it. *)
LEMMA Older ==
    ASSUME NEW o \in Int, NEW m \in Int, NEW n \in Int, o <= m, m < n
    PROVE  o < n
  OBVIOUS

(* A row whose attempt has begun, or that is to be verified, has a bound base. *)
LEMMA BoundBase ==
    ASSUME QueueInv, NEW o \in Ops, Begun(o) \/ state[o] = "VerifyRequired"
    PROVE  req[o].base = 0 \/ resolved[o]
  BY Zenon DEF QueueInv, Anchored, Bindings

(* Rows added or left as they were wait for older rows that stay. *)
LEMMA AnchorsKept ==
    ASSUME TypeOK, Anchored, NEW new,
           \A o \in Ops : o \notin new => SameWaits(o),
           \A o \in Ops : Stays(o) => Stays(o)',
           \A o \in Ops : Verifiable(o)',
           \A o \in new : \A p \in WaitsFor(o)' : p # 0 => p < o /\ Stays(p)'
    PROVE  Anchored'
<1> SUFFICES ASSUME NEW o \in Ops, o \notin new, NEW p \in WaitsFor(o)', p # 0
             PROVE  p < o /\ Stays(p)'
  BY Zenon DEF Anchored, Verifiable, Stays
<1>1. p \in WaitsFor(o)
  BY Zenon DEF WaitsFor, SameWaits
<1>2. p \in Ops
  BY Zenon, <1>1, References DEF WaitsFor
<1>3. p < o /\ Stays(p)
  BY Zenon, <1>1 DEF Anchored, Stays
<1> QED
  BY Zenon, <1>2, <1>3

(* No step that leaves every wait as it was loosens an anchor. *)
LEMMA AnchorsSame ==
    ASSUME QueueInv, \A o \in Ops : SameWaits(o), \A o \in Ops : Stays(o) => Stays(o)',
           \A o \in Ops : Verifiable(o)'
    PROVE  Anchored'
<1> DEFINE new == {}
<1>1. /\ \A o \in new : \A p \in WaitsFor(o)' : p # 0 => p < o /\ Stays(p)'
      /\ \A o \in Ops : o \notin new => SameWaits(o)
  BY Zenon
<1>2. TypeOK /\ Anchored
  BY Zenon DEF QueueInv
<1> HIDE DEF new
<1> QED
  BY Zenon, <1>1, <1>2, AnchorsKept

(* One row moves to state t while its request stays as it is: the common shape *)
(* of every call of the worker that holds an attempt and of a user's retry.    *)
LEMMA RowStep ==
    ASSUME QueueInv, TypeOK', UNCHANGED plan, NEW o \in Ops, NEW t \in States,
           state[o] \notin Confirming \cup {"absent", "Resolved"},
           t \notin {"absent", "Resolved"},
           state' = [state EXCEPT ![o] = t],
           complete' = [complete EXCEPT ![o] = t \in Confirming],
           attempt' = attempt \/ attempt' = [attempt EXCEPT ![o] = None],
           t \in Active <=> attempt'[o] # None,
           t \in Active \cup Confirming => state[o] \in Active,
           t \in {"Pending", "VerifyRequired"} =>
             state[o] \in {t} \cup Active \/ req[o].base = 0 \/ resolved[o],
           IF Upload(o) THEN t \notin {"Applying", "Applied", "NeedsReview"}
                        ELSE t \notin {"Uploading", "Uploaded"},
           UNCHANGED objects, tagless' \in {tagless, tagless \cup {o}}
    PROVE  QueueInv'
<1> USE DEF QueueInv
<1>0. /\ count' = count /\ req' = req /\ resolved' = resolved /\ bound' = bound
      /\ \A p \in Ops : p # o => state'[p] = state[p] /\ complete'[p] = complete[p]
                                   /\ attempt'[p] = attempt[p]
      /\ state'[o] = t
      /\ complete'[o] <=> t \in Confirming
  BY ZenonT(60) DEF plan, TypeOK
<1>1. Fresh'
  BY <1>0 DEF Fresh, TypeOK
<1>2. Lifecycle'
  <2> SUFFICES ASSUME NEW p \in Ops
               PROVE  /\ complete'[p] <=> state'[p] \in Confirming \cup {"Resolved"}
                      /\ IF Upload(p) THEN state'[p] \notin {"Applying", "Applied", "NeedsReview"}
                                      ELSE state'[p] \notin {"Uploading", "Uploaded", "Resolved"}
                      /\ state'[p] # "absent" => req[p].intent # "none"
    BY <1>0, Zenon DEF Lifecycle, Upload, Live
  <2>1. CASE p = o
    BY <1>0, <2>1 DEF Lifecycle, Live, Upload
  <2>2. CASE p # o
    BY <1>0, <2>2, ZenonT(60) DEF Lifecycle, Live
  <2> QED
    BY <2>1, <2>2, Zenon
<1>3. FolderRows'
  BY <1>0 DEF FolderRows, Folder
<1>4. Bindings'
  <2> SUFFICES ASSUME NEW p \in Ops
               PROVE  /\ (resolved[p] => Usable(req[p].base))'
                      /\ Begun(p)' => Begun(p)
    BY ZenonT(60), <1>0 DEF Bindings, ConfirmedItem, ConfirmedSlot, Upload
  <2>1. Begun(p)' => Begun(p)
    BY Zenon, <1>0 DEF Begun
  <2>2. ASSUME resolved[p] PROVE Usable(req[p].base)'
    <3>1. req[p].base \in Ops /\ Usable(req[p].base)
      BY Zenon, <2>2, References DEF Bindings
    <3>2. req[p].base # o /\ state[req[p].base] \in Confirming
      BY Zenon, <3>1 DEF Usable, Confirmed
    <3> QED
      BY ZenonT(60), <1>0, <3>1, <3>2 DEF Usable, Confirmed
  <2> QED
    BY <1>0, <2>1, <2>2, Zenon
<1>5. Wants'
  <2> SUFFICES ASSUME NEW d \in Ops, NEW q \in Ops, Live(d), q \in req[d].prereqs
               PROVE  state'[q] # "Resolved" /\ (Begun(d)' => complete'[q])
    BY <1>0, Zenon DEF Wants, Live
  <2>1. state[q] # "Resolved" /\ (Begun(d) => complete[q])
    BY Zenon DEF Wants
  <2>2. complete[q] => q # o
    BY Zenon DEF Lifecycle
  <2>3. Begun(d)' => Begun(d)
    BY Zenon, <1>0 DEF Begun
  <2> QED
    BY Zenon, <1>0, <2>1, <2>2, <2>3
<1>6. AttemptFence'
  BY <1>0 DEF AttemptFence, TypeOK
<1>7. EditsRetained'
  BY Zenon, <1>0 DEF EditsRetained, Live, Upload, Confirming
<1>8. RescueLeavesNoOrphan'
  <2> SUFFICES ASSUME NEW p \in Ops, NEW q \in {req[p].base} \cup req[p].prereqs, q # 0,
                      state'[p] \in {"Pending", "VerifyRequired"} \cup Active
               PROVE  state'[q] # "Resolved"
    BY ZenonT(60), <1>0 DEF RescueLeavesNoOrphan
  <2>1. q \in Ops
    BY References, Zenon
  <2>2. state[q] # "Resolved"
    <3>1. CASE state[p] \in {"Pending", "VerifyRequired"} \cup Active
      BY <3>1, Zenon DEF RescueLeavesNoOrphan
    <3>2. CASE state[p] \notin {"Pending", "VerifyRequired"} \cup Active
      <4>1. p = o /\ (req[o].base = 0 \/ resolved[o])
        BY ZenonT(60), <1>0, <3>2
      <4>2. CASE q = req[o].base
        BY Zenon, <4>1, <4>2 DEF Bindings, Usable, Confirmed, Confirming
      <4>3. CASE q \in req[o].prereqs
        BY Zenon, <4>1, <4>3, <2>1 DEF Wants, Live
      <4> QED
        BY Zenon, <4>1, <4>2, <4>3
    <3> QED
      BY <3>1, <3>2, Zenon
  <2> QED
    BY Zenon, <1>0, <2>1, <2>2
<1>9. Anchored'
  <2>1. ASSUME NEW p \in Ops PROVE Verifiable(p)'
    <3>1. state'[p] = "VerifyRequired" =>
            Begun(p) \/ state[p] = "VerifyRequired" \/ req[p].base = 0 \/ resolved[p]
      BY Zenon, <1>0 DEF Begun
    <3> QED
      BY Zenon, <1>0, <3>1, BoundBase DEF Verifiable
  <2>2. \A p \in Ops : Stays(p) => Stays(p)'
    BY Zenon, <1>0 DEF Stays, Live
  <2>3. \A p \in Ops : SameWaits(p)
    BY Zenon, <1>0 DEF SameWaits
  <2> QED
    BY Zenon, <2>1, <2>2, <2>3, AnchorsSame
<1> QED
  BY <1>1, <1>2, <1>3, <1>4, <1>5, <1>6, <1>7, <1>8, <1>9, Zenon

(* Every call of a worker on the row it holds keeps the invariant. *)
LEMMA WorkerCallInv ==
    ASSUME QueueInv, NEW o \in Ops, NEW w \in Workers, WorkerCall(o, w)
    PROVE  QueueInv'
<1> USE DEF QueueInv
<1>1. state[o] \in Active => state[o] \notin Confirming \cup {"absent", "Resolved"}
  BY SMTT(60) DEF Active, Confirming
<1>2. CASE RecordSession(o, w)
  <2>1. TypeOK'
    BY <1>2 DEF RecordSession, TypeOK, Save, plan, States, Active, Confirming
  <2>2. /\ state' = [state EXCEPT ![o] = "Uploading"] /\ attempt' = attempt
        /\ complete' = [complete EXCEPT ![o] = "Uploading" \in Confirming]
        /\ attempt[o] # None /\ state[o] \in Active /\ Upload(o)
        /\ UNCHANGED <<plan, objects, tagless>>
    BY <1>2, Zenon DEF RecordSession, Save, Held, AttemptFence
  <2>3. "Uploading" \in States /\ "Uploading" \in Active
    BY DEF States, Active
  <2> QED
    BY ZenonT(60), <1>1, <2>1, <2>2, <2>3, RowStep
<1>3. CASE Defer(o, w)
  <2>1. PICK t \in {"VerifyRequired"} \cup Stuck :
          /\ Held(o, w) /\ (Upload(o) => t # "NeedsReview") /\ Save(o, t) /\ Release(o)
          /\ due' = [due EXCEPT ![o] = FALSE]
          /\ UNCHANGED <<plan, ready, session, prepared, objects, tagless>>
    BY <1>3, Zenon DEF Defer
  <2>2. TypeOK'
    BY <2>1 DEF TypeOK, Save, Release, plan, States, Confirming, Stuck
  <2>3. t \in States /\ t \notin Active \cup Confirming \cup {"absent", "Resolved"}
        /\ t \notin {"Applying", "Applied", "Uploading", "Uploaded", "Pending"}
    BY Zenon DEF States, Active, Confirming, Stuck
  <2>4. attempt'[o] = None
    BY <2>1, Zenon DEF Release, TypeOK
  <2> QED
    BY Zenon, <1>1, <2>1, <2>2, <2>3, <2>4, RowStep DEF Save, Release, Held
<1>4. CASE Acknowledge(o, w)
  <2>1. PICK t \in Confirming \cup {"Conflict", "NeedsReview"} :
          /\ Held(o, w) /\ Save(o, t) /\ Release(o) /\ tagless' \in {tagless, tagless \cup {o}}
          /\ IF Upload(o) THEN t = "Uploaded" ELSE t \in {"Applied", "Conflict", "NeedsReview"}
          /\ UNCHANGED <<plan, ready, due, session, prepared, objects>>
    BY Zenon, <1>4 DEF Acknowledge, Confirming, Upload
  <2>2. TypeOK'
    BY <2>1 DEF TypeOK, Save, Release, plan, States, Confirming, Stuck
  <2>3. t \in States /\ t \notin Active \cup {"absent", "Resolved"}
    BY Zenon DEF States, Active, Confirming, Stuck
  <2>4. attempt'[o] = None
    BY <2>1, Zenon DEF Release, TypeOK
  <2> QED
    BY ZenonT(60), <1>1, <2>1, <2>2, <2>3, <2>4, RowStep DEF Save, Release, Held
<1>5. CASE RetryUncommitted(o, w)
  <2>1. PICK t \in {"Pending", "VerifyRequired"}, n \in {session[o], FALSE} :
          /\ Held(o, w) /\ Save(o, t) /\ Release(o) /\ due' = [due EXCEPT ![o] = TRUE]
          /\ session' = [session EXCEPT ![o] = n]
          /\ UNCHANGED <<plan, ready, prepared, objects, tagless>>
    BY Zenon, <1>5 DEF RetryUncommitted
  <2>2. session' \in [Ops -> BOOLEAN]
    BY ZenonT(60), <2>1 DEF TypeOK
  <2>3. TypeOK'
    BY <2>1, <2>2 DEF TypeOK, Save, Release, plan, States, Confirming
  <2>4. t \in States /\ t \notin Active \cup Confirming \cup {"absent", "Resolved"}
    BY Zenon DEF States, Active, Confirming
  <2>5. attempt'[o] = None
    BY <2>1, Zenon DEF Release, TypeOK
  <2> QED
    BY Zenon, <1>1, <2>1, <2>3, <2>4, <2>5, RowStep DEF Save, Release, Held
<1>6. CASE RecordPrepared(o, w)
  <2>1. TypeOK'
    BY <1>6 DEF RecordPrepared, TypeOK, Save, plan, States, Active, Confirming
  <2>2. /\ state' = [state EXCEPT ![o] = "Applying"] /\ attempt' = attempt
        /\ complete' = [complete EXCEPT ![o] = "Applying" \in Confirming]
        /\ attempt[o] # None /\ state[o] = "Applying"
        /\ UNCHANGED <<plan, objects, tagless>>
    BY ZenonT(60), <1>6 DEF RecordPrepared, Save, Held, AttemptFence
  <2>3. "Applying" \in States /\ "Applying" \in Active /\ ~Upload(o)
    BY <2>2, Zenon DEF States, Active, Lifecycle
  <2> QED
    BY ZenonT(60), <1>1, <2>1, <2>2, <2>3, RowStep
<1>7. CASE DeferPreparation(o, w)
  <2>1. TypeOK'
    BY <1>7 DEF DeferPreparation, TypeOK, Save, Release, plan, States, Confirming
  <2>2. "Pending" \in States /\ "Pending" \notin Active \cup Confirming
    BY DEF States, Active, Confirming
  <2>3. attempt'[o] = None
    BY ZenonT(60), <1>7 DEF DeferPreparation, Release, TypeOK
  <2> QED
    BY ZenonT(60), <1>1, <1>7, <2>1, <2>2, <2>3, RowStep DEF DeferPreparation, Save, Release, Held
<1> QED
  BY <1>2, <1>3, <1>4, <1>5, <1>6, <1>7, Zenon DEF WorkerCall

(* Rows only leave running states or disappear, and nothing is confirmed or    *)
(* resolved: the common shape of a discarded removal and of a restart.         *)
LEMMA RetreatStep ==
    ASSUME QueueInv, TypeOK',
           UNCHANGED <<count, req, resolved, bound, complete, objects, tagless>>,
           \A p \in Ops :
             \/ state'[p] = state[p]
             \/ state[p] \in Active /\ state'[p] = "VerifyRequired"
             \/ state[p] \in Stuck /\ req[p].intent = "remove" /\ state'[p] = "absent",
           AttemptFence',
           \A p \in Ops : attempt'[p] = attempt[p] \/ attempt'[p] = None
    PROVE  QueueInv'
<1> USE DEF QueueInv
<1>1. Fresh'
  BY Zenon DEF Fresh, Active, Stuck
<1>2. Lifecycle'
  BY ZenonT(60) DEF Lifecycle, Upload, Live, Active, Stuck, Confirming
<1>3. FolderRows'
  BY DEF FolderRows, Folder
<1>4. \A p \in Ops : /\ Begun(p)' => Begun(p)
                     /\ state[p] \in Confirming => state'[p] \in Confirming
                     /\ state'[p] = "Resolved" => state[p] = "Resolved"
                     /\ Live(p)' => Live(p)
  BY Zenon DEF Begun, Active, Stuck, Confirming, Live
<1>5. Bindings'
  <2> SUFFICES ASSUME NEW p \in Ops
               PROVE  (resolved[p] => Usable(req[p].base))' /\ (Begun(p)' => Begun(p))
    BY ZenonT(60) DEF Bindings, ConfirmedItem, ConfirmedSlot, Upload
  <2>1. resolved[p] => req[p].base \in Ops /\ Usable(req[p].base)
    BY ZenonT(60), References DEF Bindings
  <2> QED
    BY ZenonT(60), <1>4, <2>1 DEF Usable, Confirmed
<1>6. Wants'
  BY ZenonT(60), <1>4 DEF Wants
<1>7. EditsRetained'
  BY Zenon DEF EditsRetained, Live, Upload, Active
<1>8. RescueLeavesNoOrphan'
  <2> SUFFICES ASSUME NEW p \in Ops, NEW q \in {req[p].base} \cup req[p].prereqs, q # 0,
                      state'[p] \in {"Pending", "VerifyRequired"} \cup Active
               PROVE  state'[q] # "Resolved"
    BY Zenon DEF RescueLeavesNoOrphan
  <2>1. q \in Ops
    BY References, Zenon
  <2>2. state[p] \in {"Pending", "VerifyRequired"} \cup Active
    BY Zenon DEF Active
  <2> QED
    BY Zenon, <1>4, <2>1, <2>2 DEF RescueLeavesNoOrphan
<1>9. Anchored'
  <2>1. ASSUME NEW p \in Ops PROVE Verifiable(p)'
    <3>1. state'[p] = "VerifyRequired" => Begun(p) \/ state[p] = "VerifyRequired"
      BY Zenon DEF Begun
    <3> QED
      BY Zenon, <3>1, BoundBase DEF Verifiable
  <2>2. \A p \in Ops : Stays(p) => Stays(p)'
    BY Zenon DEF Stays, Live, Active
  <2>3. \A p \in Ops : SameWaits(p)
    BY Zenon DEF SameWaits
  <2> QED
    BY Zenon, <2>1, <2>2, <2>3, AnchorsSame
<1> QED
  BY ZenonT(60), <1>1, <1>2, <1>3, <1>5, <1>6, <1>7, <1>8, <1>9

(* Calls of the user and of maintenance, and a restart, keep the invariant. *)
LEMMA MaintenanceInv ==
    ASSUME QueueInv, NEW o \in Ops, Maintenance(o) \/ Reopen
    PROVE  QueueInv'
<1> USE DEF QueueInv
<1>1. CASE RequestRetry(o)
  <2>1. TypeOK'
    BY <1>1 DEF RequestRetry, TypeOK, Save, plan, States, Confirming
  <2>2. "VerifyRequired" \in States /\ "VerifyRequired" \notin Active \cup Confirming
    BY ZenonT(60) DEF States, Active, Confirming
  <2>3. state[o] \notin Active \cup Confirming \cup {"absent", "Resolved"} /\ attempt[o] = None
    BY ZenonT(60), <1>1 DEF RequestRetry, Active, Confirming, AttemptFence
  <2>4. /\ state' = [state EXCEPT ![o] = "VerifyRequired"] /\ attempt' = attempt
        /\ complete' = [complete EXCEPT ![o] = "VerifyRequired" \in Confirming]
        /\ req[o].base = 0 \/ resolved[o]
        /\ UNCHANGED <<plan, objects, tagless>>
    BY Zenon, <1>1 DEF RequestRetry, Save
  <2> QED
    BY ZenonT(60), <2>1, <2>2, <2>3, <2>4, RowStep
<1>2. CASE Discard(o)
  <2>1. TypeOK'
    BY ZenonT(60), <1>2 DEF Discard, TypeOK, States
  <2>2. AttemptFence'
    BY Zenon, <1>2 DEF Discard, AttemptFence, Active, Stuck, TypeOK
  <2>3. \A p \in Ops : \/ state'[p] = state[p]
                       \/ state[p] \in Stuck /\ req[p].intent = "remove" /\ state'[p] = "absent"
    BY Zenon, <1>2 DEF Discard, TypeOK
  <2>7. UNCHANGED <<count, req, resolved, bound, complete, objects, tagless>>
    BY Zenon, <1>2 DEF Discard, plan
  <2>8. \A p \in Ops :
          \/ state'[p] = state[p]
          \/ state[p] \in Active /\ state'[p] = "VerifyRequired"
          \/ state[p] \in Stuck /\ req[p].intent = "remove" /\ state'[p] = "absent"
    BY Zenon, <1>2, <2>3 DEF Discard
  <2>9. \A p \in Ops : attempt'[p] = attempt[p] \/ attempt'[p] = None
    BY <1>2, Zenon DEF Discard
  <2> QED
    BY ZenonT(60), <2>1, <2>2, <2>7, <2>8, <2>9, RetreatStep
<1>3. CASE ReleaseReaders(o)
  <2>1. TypeOK' /\ AttemptFence'
    BY Zenon, <1>3 DEF ReleaseReaders, TypeOK, AttemptFence, plan
  <2>7. UNCHANGED <<count, req, resolved, bound, complete, objects, tagless>>
    BY Zenon, <1>3 DEF ReleaseReaders, plan
  <2>8. \A p \in Ops :
          \/ state'[p] = state[p]
          \/ state[p] \in Active /\ state'[p] = "VerifyRequired"
          \/ state[p] \in Stuck /\ req[p].intent = "remove" /\ state'[p] = "absent"
    BY Zenon, <1>3 DEF ReleaseReaders
  <2>9. \A p \in Ops : attempt'[p] = attempt[p] \/ attempt'[p] = None
    BY <1>3, Zenon DEF ReleaseReaders
  <2> QED
    BY ZenonT(60), <2>1, <2>7, <2>8, <2>9, RetreatStep
<1>4. CASE Prune(o)
  <2>1. TypeOK'
    BY <1>4, Zenon DEF Prune, TypeOK, plan
  <2>2. EditsRetained'
    BY Zenon, <1>4 DEF Prune, EditsRetained, Live, Upload, plan
  <2>3. /\ req' = req /\ state' = state /\ attempt' = attempt /\ complete' = complete
        /\ count' = count /\ resolved' = resolved /\ bound' = bound /\ tagless' = tagless
    BY <1>4, Zenon DEF Prune, plan
  <2>4. Fresh' /\ AttemptFence'
    BY Zenon, <2>3 DEF Fresh, AttemptFence
  <2>5. Lifecycle' /\ Wants'
    BY Zenon, <2>3 DEF Lifecycle, Wants, Begun, Live, Upload
  <2>6. FolderRows' /\ RescueLeavesNoOrphan'
    BY ZenonT(60), <2>3 DEF FolderRows, Folder, RescueLeavesNoOrphan
  <2>7. Bindings'
    BY ZenonT(60), <2>3 DEF Bindings, Usable, Confirmed, ConfirmedItem, ConfirmedSlot, Begun, Upload
  <2>8. Anchored'
    BY Zenon, <2>3 DEF Anchored, WaitsFor, Live
  <2> QED
    BY ZenonT(60), <2>1, <2>2, <2>4, <2>5, <2>6, <2>7, <2>8
<1>5. CASE Elapse(o)
  <2>1. TypeOK' /\ AttemptFence'
    BY Zenon, <1>5 DEF Elapse, TypeOK, AttemptFence, plan
  <2>7. UNCHANGED <<count, req, resolved, bound, complete, objects, tagless>>
    BY Zenon, <1>5 DEF Elapse, plan
  <2>8. \A p \in Ops :
          \/ state'[p] = state[p]
          \/ state[p] \in Active /\ state'[p] = "VerifyRequired"
          \/ state[p] \in Stuck /\ req[p].intent = "remove" /\ state'[p] = "absent"
    BY Zenon, <1>5 DEF Elapse
  <2>9. \A p \in Ops : attempt'[p] = attempt[p] \/ attempt'[p] = None
    BY <1>5, Zenon DEF Elapse
  <2> QED
    BY ZenonT(60), <2>1, <2>7, <2>8, <2>9, RetreatStep
<1>6. CASE Reopen
  <2>1. TypeOK'
    BY ZenonT(60), <1>6 DEF Reopen, TypeOK, States, plan
  <2>2. AttemptFence'
    BY <1>6, Zenon DEF Reopen, AttemptFence, Active
  <2>7. UNCHANGED <<count, req, resolved, bound, complete, objects, tagless>>
    BY Zenon, <1>6 DEF Reopen, plan
  <2>8. \A p \in Ops :
          \/ state'[p] = state[p]
          \/ state[p] \in Active /\ state'[p] = "VerifyRequired"
          \/ state[p] \in Stuck /\ req[p].intent = "remove" /\ state'[p] = "absent"
    BY Zenon, <1>6 DEF Reopen
  <2>9. \A p \in Ops : attempt'[p] = attempt[p] \/ attempt'[p] = None
    BY <1>6, Zenon DEF Reopen
  <2> QED
    BY ZenonT(60), <2>1, <2>2, <2>7, <2>8, <2>9, RetreatStep
<1> QED
  BY Zenon, <1>1, <1>2, <1>3, <1>4, <1>5, <1>6 DEF Maintenance

-----------------------------------------------------------------------------
(* Binding receipts and claiming. *)

(* The keys of a well-formed request. *)
LEMMA ResourcesType == ASSUME NEW r \in RequestType PROVE Resources(r) \subseteq Keys
<1>1. /\ r.item \in Int /\ r.from[1] \in Int /\ r.at[1] \in Int
      /\ r.from[2] \in Names \cup {"-"} /\ r.at[2] \in Names \cup {"-"}
  BY Zenon DEF RequestType, Slot
<1>2. ItemKey(r.item) \in Keys /\ SlotKey(r.from) \in Keys /\ SlotKey(r.at) \in Keys
  BY <1>1, Zenon DEF ItemKey, SlotKey, Keys
<1> QED
  BY <1>2, Zenon DEF Resources

(* The identity and the place a receipt reports are the provider's own. *)
LEMMA ReceiptIds ==
    ASSUME QueueInv, NEW b \in Ops
    PROVE  /\ ConfirmedItem(b) \in Int /\ ConfirmedSlot(b) \in Slot
           /\ Begun(b) => ConfirmedItem(b) >= 0 /\ ConfirmedSlot(b)[1] >= 0
<1>1. req[b].item \in Int /\ req[b].from \in Slot /\ req[b].at \in Slot
  BY References, Zenon DEF QueueInv, RequestType
<1>2. b \in Int /\ b >= 0
  BY DEF Ops
<1>3. Begun(b) => req[b].item >= 0 /\ req[b].at[1] >= 0 /\ req[b].from[1] >= 0
  BY Zenon DEF QueueInv, Bindings
<1> QED
  BY <1>1, <1>2, <1>3, Zenon DEF ConfirmedItem, ConfirmedSlot

(* Which rows one resolution pass may touch. *)
LEMMA Batches ==
    ASSUME QueueInv, NEW o \in Ops
    PROVE  /\ o \in BaseBatch => /\ state[o] = "Pending" /\ ~complete[o] /\ ~resolved[o]
                                 /\ req[o].base \in Ops /\ complete[req[o].base]
           /\ o \in DestBatch => /\ ~complete[o] /\ ~bound[o] /\ state[o] # "absent" /\ ~Begun(o)
                                 /\ req[o].dest \in Ops /\ Begun(req[o].dest)
           /\ o \in Rebased <=> o \in BaseBatch /\ Usable(req[o].base)
           /\ o \in Rebased => Begun(req[o].base)
<1> USE DEF QueueInv
<1>1. o \in BaseBatch => o \in ReadyBases
  BY DEF BaseBatch, FirstBatch
<1>2. o \in DestBatch => o \in ReadyDests
  BY Zenon DEF DestBatch, FirstBatch
<1>3. o \in ReadyBases => /\ state[o] = "Pending" /\ ~complete[o] /\ ~resolved[o]
                          /\ req[o].base \in Ops /\ complete[req[o].base]
  BY References, Zenon DEF ReadyBases, Lifecycle, Confirming
<1>4. o \in ReadyDests => /\ ~complete[o] /\ ~bound[o] /\ state[o] # "absent" /\ ~Begun(o)
                          /\ req[o].dest \in Ops /\ Begun(req[o].dest)
  <2> SUFFICES ASSUME o \in ReadyDests
               PROVE  /\ ~complete[o] /\ ~bound[o] /\ state[o] # "absent" /\ ~Begun(o)
                      /\ req[o].dest \in Ops /\ Begun(req[o].dest)
    BY Zenon
  <2>1. /\ ~complete[o] /\ ~bound[o] /\ state[o] # "absent"
        /\ req[o].dest # 0 /\ complete[req[o].dest]
    BY Zenon DEF ReadyDests, Live
  <2>2. req[o].dest \in Ops /\ ~Upload(req[o].dest)
    BY <2>1, References, Zenon DEF FolderRows, Upload
  <2>3. Begun(req[o].dest)
    BY <2>1, <2>2, Zenon DEF Lifecycle, Begun
  <2> QED
    BY <2>1, <2>2, <2>3, Zenon DEF Bindings
<1>5. o \in Rebased <=> o \in BaseBatch /\ Usable(req[o].base)
  BY ZenonT(60) DEF Rebased
<1> QED
  BY <1>1, <1>2, <1>3, <1>4, <1>5, Zenon DEF Usable, Confirmed, Begun

(* No place at all lies below no local folder. *)
LEMMA EmptySlot == NoSlot \in Slot /\ NoSlot[1] >= 0 /\ NoSlot[1] = 0
  BY DEF NoSlot, Slot

(* What binding receipts into a row's request changes and what it keeps. *)
LEMMA Rebinding ==
    ASSUME QueueInv, NEW o \in Ops
    PROVE  /\ AtRemote(o) \in RequestType /\ Rebind(o) \in RequestType
           /\ ResourcesNow(o) \in SUBSET Keys
           /\ Rebind(o).object = req[o].object /\ Rebind(o).base = req[o].base
           /\ Rebind(o).prereqs = req[o].prereqs /\ Rebind(o).dest = req[o].dest
           /\ Rebind(o).victim = req[o].victim
           /\ Rebind(o).intent \in {"create", "replace"} <=> Upload(o)
           /\ ~Upload(o) => Rebind(o).intent = req[o].intent
           /\ complete[o] \/ Begun(o) => Rebind(o) = req[o]
           /\ o \notin Rebased => Rebind(o).item = req[o].item /\ Rebind(o).from = req[o].from
           /\ o \in Rebased => /\ Rebind(o).item = ConfirmedItem(req[o].base)
                               /\ Rebind(o).from = ConfirmedSlot(req[o].base)
           /\ o \in Rebased /\ Upload(o) => Rebind(o).at = NoSlot
           /\ o \in DestBatch => Rebind(o).at[1] >= 0
           /\ o \notin DestBatch => Rebind(o).at = req[o].at \/ Rebind(o).at = NoSlot
<1> USE DEF QueueInv
<1>1. req[o] \in RequestType /\ req[o].at[2] \in Names \cup {"-"}
  BY References, Zenon DEF RequestType, Slot
<1>2. o \in DestBatch => /\ ConfirmedItem(req[o].dest) \in Int
                         /\ ConfirmedItem(req[o].dest) >= 0
  BY Batches, ReceiptIds, Zenon
<1>3. o \in Rebased => /\ ConfirmedItem(req[o].base) \in Int
                       /\ ConfirmedSlot(req[o].base) \in Slot
  BY Batches, ReceiptIds, Zenon
<1>4. NoSlot \in Slot /\ NoSlot[1] >= 0
  BY EmptySlot, Zenon
<1>5. /\ AtRemote(o) \in RequestType
      /\ AtRemote(o).object = req[o].object /\ AtRemote(o).base = req[o].base
      /\ AtRemote(o).prereqs = req[o].prereqs /\ AtRemote(o).dest = req[o].dest
      /\ AtRemote(o).victim = req[o].victim /\ AtRemote(o).intent = req[o].intent
      /\ AtRemote(o).item = req[o].item /\ AtRemote(o).from = req[o].from
      /\ o \in DestBatch => AtRemote(o).at[1] >= 0
      /\ o \notin DestBatch => AtRemote(o) = req[o]
  <2>1. CASE o \in DestBatch
    <3>1. <<ConfirmedItem(req[o].dest), req[o].at[2]>> \in Slot
      BY <1>1, <1>2, <2>1, Zenon DEF Slot
    <3> QED
      BY <1>1, <1>2, <2>1, <3>1, Zenon DEF AtRemote, RequestType
  <2>2. CASE o \notin DestBatch
    BY <1>1, <2>2, Zenon DEF AtRemote
  <2> QED
    BY <2>1, <2>2, Zenon
<1>6. Rebind(o) \in RequestType
  BY ZenonT(60), <1>3, <1>4, <1>5 DEF Rebind, RequestType
<1>7. complete[o] \/ Begun(o) => Rebind(o) = req[o]
  BY Batches, Zenon DEF Rebind, AtRemote, Begun, Active, Confirming
<1>8. ResourcesNow(o) \in SUBSET Keys
  BY ZenonT(60), <1>6, ResourcesType DEF ResourcesNow, TypeOK
<1>9. CASE o \in Rebased
  <2>1. /\ Rebind(o).object = AtRemote(o).object /\ Rebind(o).base = AtRemote(o).base
        /\ Rebind(o).prereqs = AtRemote(o).prereqs /\ Rebind(o).dest = AtRemote(o).dest
        /\ Rebind(o).victim = AtRemote(o).victim
        /\ Rebind(o).item = ConfirmedItem(req[o].base)
        /\ Rebind(o).from = ConfirmedSlot(req[o].base)
    BY Zenon, <1>5, <1>9 DEF Rebind, RequestType
  <2>2. Upload(o) => Rebind(o).at = NoSlot /\ Rebind(o).intent = "replace"
    BY Zenon, <1>5, <1>9 DEF Rebind, RequestType
  <2>3. ~Upload(o) => Rebind(o).at = AtRemote(o).at /\ Rebind(o).intent = AtRemote(o).intent
    BY Zenon, <1>5, <1>9 DEF Rebind, RequestType
  <2>4. /\ Rebind(o).intent \in {"create", "replace"} <=> Upload(o)
        /\ ~Upload(o) => Rebind(o).intent = req[o].intent
    BY Zenon, <1>5, <2>2, <2>3 DEF Upload
  <2>5. /\ o \in DestBatch => Rebind(o).at[1] >= 0
        /\ o \notin DestBatch => Rebind(o).at = req[o].at \/ Rebind(o).at = NoSlot
    BY Zenon, <1>4, <1>5, <2>2, <2>3
  <2> QED
    BY Zenon, <1>5, <1>6, <1>7, <1>8, <1>9, <2>1, <2>2, <2>4, <2>5
<1>10. CASE o \notin Rebased
  BY Zenon, <1>4, <1>5, <1>6, <1>7, <1>8, <1>10 DEF Rebind, RequestType, Upload
<1> QED
  BY <1>9, <1>10, Zenon

(* The same of the rows as the resolution pass leaves them. *)
LEMMA Rebound ==
    ASSUME QueueInv, ResolveReady, NEW p \in Ops
    PROVE  /\ req'[p].object = req[p].object /\ req'[p].base = req[p].base
           /\ req'[p].prereqs = req[p].prereqs /\ req'[p].dest = req[p].dest
           /\ Upload(p)' <=> Upload(p)
           /\ ~Upload(p) => req'[p].intent = req[p].intent
           /\ complete[p] \/ Begun(p) => req'[p] = req[p]
           /\ p \notin Rebased => req'[p].item = req[p].item /\ req'[p].from = req[p].from
           /\ p \in Rebased => /\ req'[p].item = ConfirmedItem(req[p].base)
                               /\ req'[p].from = ConfirmedSlot(req[p].base)
           /\ p \in Rebased /\ Upload(p) => req'[p].at = NoSlot
           /\ p \in DestBatch => req'[p].at[1] >= 0
           /\ p \notin DestBatch => req'[p].at = req[p].at \/ req'[p].at = NoSlot
<1>1. req'[p] = Rebind(p)
  BY Zenon DEF ResolveReady
<1>2. /\ req'[p].object = req[p].object /\ req'[p].base = req[p].base
      /\ req'[p].prereqs = req[p].prereqs /\ req'[p].dest = req[p].dest
      /\ complete[p] \/ Begun(p) => req'[p] = req[p]
  BY ZenonT(60), <1>1, Rebinding
<1>3. /\ Upload(p)' <=> Upload(p)
      /\ ~Upload(p) => req'[p].intent = req[p].intent
  <2>1. /\ Rebind(p).intent \in {"create", "replace"} <=> Upload(p)
        /\ ~Upload(p) => Rebind(p).intent = req[p].intent
    BY Zenon, Rebinding
  <2> QED
    BY Zenon, <1>1, <2>1 DEF Upload
<1>4. /\ p \notin Rebased => req'[p].item = req[p].item /\ req'[p].from = req[p].from
      /\ p \in Rebased => /\ req'[p].item = ConfirmedItem(req[p].base)
                          /\ req'[p].from = ConfirmedSlot(req[p].base)
  BY ZenonT(60), <1>1, Rebinding
<1>5. /\ p \in Rebased /\ Upload(p) => req'[p].at = NoSlot
      /\ p \in DestBatch => req'[p].at[1] >= 0
      /\ p \notin DestBatch => req'[p].at = req[p].at \/ req'[p].at = NoSlot
  BY Zenon, <1>1, Rebinding
<1> QED
  BY Zenon, <1>2, <1>3, <1>4, <1>5

(* A resolution pass followed by at most one claim keeps the invariant. *)
LEMMA ResolveStep ==
    ASSUME QueueInv, TypeOK', AttemptFence', ResolveReady,
           UNCHANGED <<count, complete, objects, tagless>>,
           \A p \in Ops : p > count => attempt'[p] = None,
           \A p \in Ops :
             \/ state'[p] = StateNow(p)
             \/ state[p] = "Pending" /\ state'[p] = "Failed"
             \/ /\ state[p] \in {"Pending", "VerifyRequired"}
                /\ req[p].dest = 0 \/ bound[p] \/ p \in DestBatch
                /\ req[p].base = 0 \/ resolved[p] \/ p \in Rebased
                /\ PrereqsComplete(p)
                /\ state'[p] \in IF Upload(p) THEN {"Uploading", "Verifying"} ELSE {"Applying", "Verifying"}
    PROVE  QueueInv'
<1> USE DEF QueueInv
<1>1. \A p \in Ops : /\ req'[p] = Rebind(p)
                     /\ bound'[p] <=> bound[p] \/ p \in DestBatch
                     /\ resolved'[p] <=> resolved[p] \/ p \in Rebased
  BY Zenon DEF ResolveReady
<1>2. \A p \in Ops : /\ complete[p] => state'[p] = state[p] /\ req'[p] = req[p]
                     /\ state'[p] = "Resolved" <=> state[p] = "Resolved"
                     /\ state'[p] \in Confirming <=> state[p] \in Confirming
                     /\ state'[p] = "absent" <=> state[p] = "absent"
  <2> TAKE p \in Ops
  <2>1. complete[p] => req'[p] = req[p]
    BY Zenon, Rebound
  <2>2. StateNow(p) = state[p] \/ (state[p] = "Pending" /\ StateNow(p) = "Failed")
    BY Zenon, Batches DEF StateNow
  <2> QED
    BY <2>1, <2>2, Zenon DEF Lifecycle, Confirming
<1>3. \A p \in Ops : Upload(p)' <=> Upload(p)
  BY Zenon, Rebound
<1>4. \A p \in Ops : state'[p] \in {"Pending", "VerifyRequired"} \cup Active
                       => state[p] \in {"Pending", "VerifyRequired"} \cup Active
  BY ZenonT(60) DEF StateNow, Active
<1>5. Fresh'
  <2> SUFFICES ASSUME NEW p \in Ops
               PROVE  /\ p > count => /\ req'[p] = NoRequest /\ state'[p] = "absent"
                                      /\ ~resolved'[p] /\ ~bound'[p] /\ ~complete[p]
                      /\ req'[p].object >= -count
    BY ZenonT(60) DEF Fresh
  <2>1. req'[p].object = req[p].object
    BY Zenon, Rebound
  <2>2. ASSUME p > count
        PROVE  req'[p] = NoRequest /\ ~resolved'[p] /\ ~bound'[p]
    <3>1. state[p] = "absent" /\ req[p] = NoRequest
      BY <2>2, Zenon DEF Fresh
    <3>2. p \notin DestBatch /\ p \notin Rebased
      BY <3>1, Batches, Zenon
    <3> QED
      BY ZenonT(60), <1>1, <2>2, <3>1, <3>2 DEF Fresh, Rebind, AtRemote
  <2> QED
    BY <1>2, <2>1, <2>2, Zenon DEF Fresh
<1>6. Lifecycle'
  <2> SUFFICES ASSUME NEW p \in Ops
               PROVE  /\ complete[p] <=> state'[p] \in Confirming \cup {"Resolved"}
                      /\ IF Upload(p) THEN state'[p] \notin {"Applying", "Applied", "NeedsReview"}
                                      ELSE state'[p] \notin {"Uploading", "Uploaded", "Resolved"}
                      /\ state'[p] # "absent" => req'[p].intent # "none"
    BY ZenonT(60), <1>3 DEF Lifecycle, Live
  <2>1. state'[p] # "absent" => req'[p].intent # "none"
    <3>1. ~Upload(p) => req'[p].intent = req[p].intent
      BY Zenon, Rebound
    <3>2. Upload(p) => req'[p].intent \in {"create", "replace"}
      BY Zenon, <1>3 DEF Upload
    <3>3. state'[p] # "absent" => req[p].intent # "none"
      BY Zenon, <1>2 DEF Lifecycle, Live
    <3> QED
      BY Zenon, <3>1, <3>2, <3>3
  <2>2. StateNow(p) = state[p] \/ StateNow(p) = "Failed"
    BY Zenon DEF StateNow
  <2>3. IF Upload(p) THEN state'[p] \notin {"Applying", "Applied", "NeedsReview"}
                     ELSE state'[p] \notin {"Uploading", "Uploaded", "Resolved"}
    BY Zenon, <2>2 DEF Lifecycle
  <2> QED
    BY Zenon, <1>2, <2>1, <2>3 DEF Lifecycle
<1>7. FolderRows'
  <2>1. \A p \in Ops : /\ req'[p].intent \in {"mkdir", "move", "remove"}
                            <=> req[p].intent \in {"mkdir", "move", "remove"}
                       /\ req'[p].intent = "mkdir" <=> req[p].intent = "mkdir"
                       /\ req'[p].intent = "move" <=> req[p].intent = "move"
                       /\ req'[p].object = req[p].object /\ req'[p].dest = req[p].dest
    <3> TAKE p \in Ops
    <3>1. /\ Upload(p)' <=> Upload(p) /\ req'[p].object = req[p].object
          /\ ~Upload(p) => req'[p].intent = req[p].intent /\ req'[p].dest = req[p].dest
      BY Zenon, Rebound
    <3>2. CASE Upload(p)
      BY Zenon, <3>1, <3>2, Rebound DEF Upload
    <3>3. CASE ~Upload(p)
      BY Zenon, <3>1, <3>3, Rebound
    <3> QED
      BY Zenon, <3>2, <3>3
  <2>3. ASSUME NEW p \in Ops, Folder(req[p].object)'
        PROVE  req'[p].intent \in {"mkdir", "move", "remove"}
    <3>1. PICK k \in Ops : req'[k].intent = "mkdir" /\ req'[p].object = -k
      BY Zenon, <2>3 DEF Folder, Local
    <3>2. req[k].intent = "mkdir" /\ req[p].object = -k
      BY Zenon, <2>1, <3>1
    <3>3. Folder(req[p].object)
      BY Zenon, <3>2 DEF Folder, Local
    <3> QED
      BY Zenon, <2>1, <3>3 DEF FolderRows
  <2>4. ASSUME NEW p \in Ops, req'[p].dest # 0
        PROVE  req'[req'[p].dest].intent \in {"mkdir", "move"}
    <3>1. req'[p].dest = req[p].dest
      BY Zenon, <2>1
    <3>2. req[p].dest \in Ops /\ req[req[p].dest].intent \in {"mkdir", "move"}
      BY Zenon, <2>4, <3>1, References DEF FolderRows
    <3> QED
      BY Zenon, <2>1, <3>1, <3>2
  <2> QED
    BY Zenon, <2>3, <2>4 DEF FolderRows
<1>8. Bindings'
  <2> SUFFICES ASSUME NEW p \in Ops, NEW b, b = req'[p].base
               PROVE  /\ resolved'[p] => /\ b # 0 /\ Usable(b)'
                                         /\ req'[p].item = ConfirmedItem(b)'
                                         /\ req'[p].from = ConfirmedSlot(b)'
                                         /\ Upload(p) => req'[p].at[1] >= 0
                      /\ b = 0 => req'[p].item >= 0 /\ req'[p].from[1] >= 0
                      /\ req'[p].dest = 0 /\ (b = 0 \/ ~Upload(p)) => req'[p].at[1] >= 0
                      /\ req'[p].dest # 0 /\ bound'[p] => req'[p].at[1] >= 0
                      /\ Begun(p)' => /\ req'[p].dest = 0 \/ bound'[p]
                                      /\ b = 0 \/ resolved'[p]
                                      /\ req'[p].item >= 0 /\ req'[p].at[1] >= 0 /\ req'[p].from[1] >= 0
    BY ZenonT(60), <1>3 DEF Bindings, Usable, Confirmed, ConfirmedItem, ConfirmedSlot
  <2>0. /\ req'[p].base = req[p].base /\ req'[p].dest = req[p].dest
        /\ p \notin Rebased => req'[p].item = req[p].item /\ req'[p].from = req[p].from
        /\ p \in Rebased => req'[p].item = ConfirmedItem(b) /\ req'[p].from = ConfirmedSlot(b)
        /\ p \in Rebased /\ Upload(p) => req'[p].at = NoSlot
        /\ p \in DestBatch => req'[p].at[1] >= 0
        /\ p \notin DestBatch => req'[p].at = req[p].at \/ req'[p].at = NoSlot
        /\ NoSlot[1] = 0
    BY ZenonT(60), Rebound, EmptySlot
  <2>i. /\ resolved[p] => /\ b # 0 /\ Usable(b)
                          /\ req[p].item = ConfirmedItem(b) /\ req[p].from = ConfirmedSlot(b)
                          /\ Upload(p) => req[p].at[1] >= 0
        /\ b = 0 => req[p].item >= 0 /\ req[p].from[1] >= 0
        /\ req[p].dest = 0 /\ (b = 0 \/ ~Upload(p)) => req[p].at[1] >= 0
        /\ req[p].dest # 0 /\ bound[p] => req[p].at[1] >= 0
        /\ Begun(p) => (req[p].dest = 0 \/ bound[p]) /\ (b = 0 \/ resolved[p])
    BY ZenonT(60), <2>0 DEF Bindings
  <2>n. /\ bound'[p] <=> bound[p] \/ p \in DestBatch
        /\ resolved'[p] <=> resolved[p] \/ p \in Rebased
        /\ p \in Rebased => b \in Ops /\ Usable(b) /\ ~resolved[p]
        /\ p \in DestBatch => req[p].dest \in Ops
        /\ b = 0 \/ b \in Ops
        /\ 0 \notin Ops
    <3>1. 0 \notin Ops
      BY NoRowZero, Zenon
    <3>2. req[p].base = 0 \/ req[p].base \in Ops
      BY Zenon, References
    <3>3. /\ p \in Rebased => req[p].base \in Ops /\ Usable(req[p].base) /\ ~resolved[p]
          /\ p \in DestBatch => req[p].dest \in Ops
      BY Zenon, Batches
    <3> QED
      BY Zenon, <1>1, <2>0, <3>1, <3>2, <3>3
  <2>1. ASSUME resolved'[p]
        PROVE  /\ b \in Ops /\ Begun(b) /\ Usable(b)'
               /\ req'[p].item = ConfirmedItem(b) /\ req'[p].from = ConfirmedSlot(b)
               /\ ConfirmedItem(b)' = ConfirmedItem(b) /\ ConfirmedSlot(b)' = ConfirmedSlot(b)
    <3>1. b \in Ops /\ Usable(b)
      BY ZenonT(60), <2>i, <2>n, <2>1
    <3>2. state[b] \in Confirming /\ complete[b] /\ Begun(b)
      BY Zenon, <3>1 DEF Usable, Confirmed, Lifecycle, Begun
    <3>3. state'[b] = state[b] /\ req'[b] = req[b]
      BY Zenon, <1>2, <3>1, <3>2
    <3>4. Usable(b)' /\ ConfirmedItem(b)' = ConfirmedItem(b) /\ ConfirmedSlot(b)' = ConfirmedSlot(b)
      BY ZenonT(60), <3>1, <3>3 DEF Usable, Confirmed, ConfirmedItem, ConfirmedSlot
    <3>5. req'[p].item = ConfirmedItem(b) /\ req'[p].from = ConfirmedSlot(b)
      BY ZenonT(60), <2>0, <2>i, <2>n, <2>1
    <3> QED
      BY Zenon, <3>1, <3>2, <3>4, <3>5
  <2>2. /\ b = 0 => req'[p].item >= 0 /\ req'[p].from[1] >= 0
        /\ req[p].dest = 0 /\ (b = 0 \/ ~Upload(p)) => req'[p].at[1] >= 0
        /\ req[p].dest # 0 /\ bound'[p] => req'[p].at[1] >= 0
        /\ resolved'[p] /\ Upload(p) => req'[p].at[1] >= 0
    <3>1. CASE p \in DestBatch
      BY Zenon, <2>0, <2>i, <2>n, <3>1
    <3>2. CASE p \notin DestBatch
      <4>1. NoSlot[1] >= 0
        BY Zenon, EmptySlot
      <4>2. CASE req'[p].at = NoSlot
        BY Zenon, <2>0, <2>i, <2>n, <4>1, <4>2
      <4>3. CASE req'[p].at = req[p].at /\ req'[p].at # NoSlot
        BY Zenon, <2>0, <2>i, <2>n, <3>2, <4>3
      <4> QED
        BY Zenon, <2>0, <3>2, <4>2, <4>3
    <3> QED
      BY Zenon, <3>1, <3>2
  <2>3. Begun(p)' => (req[p].dest = 0 \/ bound'[p]) /\ (b = 0 \/ resolved'[p])
    <3>1. \/ ~Begun(p)'
          \/ Begun(p)
          \/ /\ req[p].dest = 0 \/ bound[p] \/ p \in DestBatch
             /\ req[p].base = 0 \/ resolved[p] \/ p \in Rebased
      BY Zenon, Batches DEF Begun, StateNow, Active, Confirming
    <3> QED
      BY ZenonT(60), <2>0, <2>i, <2>n, <3>1
  <2>4. resolved'[p] => req'[p].item >= 0 /\ req'[p].from[1] >= 0
    BY ZenonT(60), <2>1, ReceiptIds
  <2> QED
    BY Zenon, <2>0, <2>1, <2>2, <2>3, <2>4, <2>n
<1>9. Wants'
  <2> SUFFICES ASSUME NEW d \in Ops, NEW q \in Ops, Live(d)', q \in req'[d].prereqs
               PROVE  state'[q] # "Resolved" /\ (Begun(d)' => complete[q])
    BY Zenon DEF Wants
  <2>1. Live(d) /\ q \in req[d].prereqs
    BY ZenonT(60), <1>2, Rebound DEF Live
  <2>2. Begun(d)' => Begun(d) \/ PrereqsComplete(d)
    BY Zenon, Batches DEF Begun, StateNow, Active, Confirming
  <2> QED
    BY ZenonT(60), <1>2, <2>1, <2>2 DEF Wants, PrereqsComplete
<1>10. EditsRetained'
  BY <1>2, <1>3, Zenon DEF EditsRetained, Live, Lifecycle, Confirming
<1>11. RescueLeavesNoOrphan'
  <2> SUFFICES ASSUME NEW p \in Ops, NEW q \in {req'[p].base} \cup req'[p].prereqs, q # 0,
                      state'[p] \in {"Pending", "VerifyRequired"} \cup Active
               PROVE  state'[q] # "Resolved"
    BY Zenon DEF RescueLeavesNoOrphan
  <2>1. q \in {req[p].base} \cup req[p].prereqs
    BY ZenonT(60), Rebound
  <2>2. q \in Ops
    BY <2>1, References, Zenon
  <2> QED
    BY Zenon, <1>2, <1>4, <2>1, <2>2 DEF RescueLeavesNoOrphan
<1>12. Anchored'
  <2>1. \A p \in Ops : SameWaits(p) /\ (req[p].intent # "remove" => req'[p].intent # "remove")
    <3> TAKE p \in Ops
    <3>1. /\ Upload(p)' <=> Upload(p)
          /\ ~Upload(p) => req'[p].intent = req[p].intent
      BY Zenon, Rebound
    <3>2. SameWaits(p)
      BY Zenon, Rebound DEF SameWaits
    <3>3. Upload(p) => req'[p].intent # "remove"
      BY Zenon, <3>1 DEF Upload
    <3> QED
      BY Zenon, <3>1, <3>2, <3>3
  <2>2. \A p \in Ops : Stays(p) => Stays(p)'
    BY Zenon, <1>2, <2>1 DEF Stays, Live
  <2>3. ASSUME NEW p \in Ops PROVE Verifiable(p)'
    <3>1. state'[p] = "VerifyRequired" => state[p] = "VerifyRequired"
      BY Zenon DEF StateNow
    <3> QED
      BY Zenon, <1>1, <2>1, <3>1, BoundBase DEF Verifiable, SameWaits
  <2> QED
    BY Zenon, <2>1, <2>2, <2>3, AnchorsSame
<1> QED
  BY <1>5, <1>6, <1>7, <1>8, <1>9, <1>10, <1>11, <1>12, Zenon

(* The tables keep their types when receipts are bound. *)
LEMMA ResolveType ==
    ASSUME QueueInv, ClaimFrame,
           state' \in [Ops -> States], attempt' \in [Ops -> Workers \cup {None}]
    PROVE  TypeOK'
<1> USE DEF QueueInv
<1>1. req' \in [Ops -> RequestType] /\ resources' \in [Ops -> SUBSET Keys]
  BY ZenonT(60), Rebinding DEF ClaimFrame, ResolveReady
<1>2. bound' \in [Ops -> BOOLEAN] /\ resolved' \in [Ops -> BOOLEAN]
  BY Zenon DEF ClaimFrame, ResolveReady
<1> QED
  BY ZenonT(60), <1>1, <1>2 DEF ClaimFrame, TypeOK

(* A claimed row is an eligible one. *)
LEMMA TakeStep ==
    ASSUME QueueInv, NEW w \in Workers, Idle(w), NEW o \in Ops,
           NEW from \in SUBSET {"Pending", "VerifyRequired"}, NEW uploads, Claimable(o, from, uploads),
           NEW to \in IF Upload(o) THEN {"Uploading", "Verifying"} ELSE {"Applying", "Verifying"},
           Take(o, to, w), ClaimFrame
    PROVE  QueueInv'
<1> USE DEF QueueInv
<1>1. StateNow(o) \in {"Pending", "VerifyRequired"} /\ Eligible(o, from)
  BY Zenon DEF Claimable, Candidates, Eligible
<1>2. state[o] \in {"Pending", "VerifyRequired"}
  BY ZenonT(60), <1>1 DEF StateNow
<1>3. \A p \in Ops : StateNow(p) \in States /\ (StateNow(p) \in Active <=> state[p] \in Active)
  BY Batches, ZenonT(60) DEF StateNow, States, Active, Stuck, TypeOK
<1>4. to \in States /\ to \in Active
  BY SMTT(60) DEF States, Active
<1>5. TypeOK'
  BY <1>3, <1>4, ResolveType, Zenon DEF Take, TypeOK
<1>6. w # None
  BY IdAssumption, Zenon DEF None
<1>7. AttemptFence'
  BY ZenonT(60), <1>3, <1>4, <1>6 DEF Take, AttemptFence, Idle, TypeOK
<1>8. o <= count
  BY SMTT(60), <1>2, BoundsAssumption DEF Fresh, TypeOK, Ops
<1>9. \A p \in Ops : p > count => attempt'[p] = None
  BY <1>8 DEF Take, Fresh, TypeOK, Ops
<1>10. \A p \in Ops : p # o => state'[p] = StateNow(p)
  BY ZenonT(60) DEF Take
<1>11. /\ state'[o] = to
       /\ req[o].dest = 0 \/ bound[o] \/ o \in DestBatch
       /\ req[o].base = 0 \/ resolved[o] \/ o \in Rebased
       /\ PrereqsComplete(o)
  BY Zenon, <1>1 DEF Take, Eligible
<1> QED
  BY ZenonT(60), <1>2, <1>5, <1>7, <1>9, <1>10, <1>11, ResolveStep DEF ClaimFrame

(* A claim that takes no row commits the resolution, and may fail one row. *)
LEMMA TakeNothingStep ==
    ASSUME QueueInv, NEW F \in SUBSET Ops, \A o \in F : StateNow(o) = "Pending",
           TakeNothing(F), ClaimFrame
    PROVE  QueueInv'
<1> USE DEF QueueInv
<1>1. \A p \in Ops : /\ StateNow(p) \in States
                     /\ StateNow(p) \in Active <=> state[p] \in Active
                     /\ p \in F => state[p] = "Pending"
  BY Batches DEF StateNow, States, Active, Stuck, TypeOK
<1>2. "Failed" \in States /\ "Failed" \notin Active /\ "Pending" \notin Active
  BY SMTT(60) DEF States, Active, Stuck
<1>3. TypeOK'
  BY ZenonT(60), <1>1, <1>2, ResolveType DEF TakeNothing, TypeOK
<1>4. AttemptFence'
  BY <1>1, <1>2, Zenon DEF TakeNothing, AttemptFence
<1>5. \A p \in Ops : \/ state'[p] = StateNow(p)
                     \/ state[p] = "Pending" /\ state'[p] = "Failed"
  BY <1>1, Zenon DEF TakeNothing
<1>6. \A p \in Ops : p > count => attempt'[p] = None
  BY Zenon DEF TakeNothing, Fresh
<1> QED
  BY ZenonT(60), <1>3, <1>4, <1>5, <1>6, ResolveStep DEF ClaimFrame

(* The three claims keep the invariant. *)
LEMMA ClaimInv ==
    ASSUME QueueInv, NEW w \in Workers, WorkerClaim(w)
    PROVE  QueueInv'
<1>1. {} \in SUBSET Ops
  OBVIOUS
<1>2. ASSUME NEW o \in Ops, NEW from, NEW uploads, Claimable(o, from, uploads)
      PROVE  (Upload(o) <=> uploads) /\ StateNow(o) \in from
  BY <1>2, Zenon DEF Claimable, Candidates, Eligible
<1>3. CASE ClaimNext(w)
  <2>1. ASSUME NEW o \in Ops, Claimable(o, {"Pending"}, TRUE), Take(o, "Uploading", w)
        PROVE  QueueInv'
    BY Zenon, <1>2, <1>3, <2>1, TakeStep DEF ClaimNext
  <2>2. ASSUME NEW o \in Ops, Claimable(o, {"Pending"}, TRUE), TakeNothing({o})
        PROVE  QueueInv'
    BY Zenon, <1>2, <1>3, <2>2, TakeNothingStep DEF ClaimNext
  <2>3. CASE TakeNothing({})
    BY <1>1, <1>3, <2>3, TakeNothingStep, Zenon DEF ClaimNext
  <2> QED
    BY Zenon, <1>3, <2>1, <2>2, <2>3 DEF ClaimNext
<1>4. CASE ClaimVerification(w)
  <2>1. ASSUME NEW o \in Ops, Claimable(o, {"VerifyRequired"}, TRUE), Take(o, "Verifying", w)
        PROVE  QueueInv'
    BY Zenon, <1>4, <2>1, TakeStep DEF ClaimVerification
  <2>2. CASE TakeNothing({})
    BY <1>1, <1>4, <2>2, TakeNothingStep, Zenon DEF ClaimVerification
  <2> QED
    BY Zenon, <1>4, <2>1, <2>2 DEF ClaimVerification
<1>5. CASE ClaimMutation(w)
  <2>1. ASSUME NEW o \in Ops, Claimable(o, {"Pending", "VerifyRequired"}, FALSE),
               Take(o, IF StateNow(o) = "Pending" THEN "Applying" ELSE "Verifying", w)
        PROVE  QueueInv'
    <3>1. PICK to \in {"Applying", "Verifying"} : Take(o, to, w)
      BY <2>1
    <3>2. ~Upload(o)
      BY Zenon, <1>2, <2>1
    <3> QED
      BY Zenon, <1>5, <2>1, <3>1, <3>2, TakeStep DEF ClaimMutation
  <2>2. CASE TakeNothing({})
    BY <1>1, <1>5, <2>2, TakeNothingStep, Zenon DEF ClaimMutation
  <2> QED
    BY Zenon, <1>5, <2>1, <2>2 DEF ClaimMutation
<1> QED
  BY <1>3, <1>4, <1>5 DEF WorkerClaim

(* What every request that is enqueued satisfies; `last' is the newest row. *)
Enqueueable(r, last) ==
    /\ r \in RequestType /\ r.intent # "none" /\ r.object >= -last
    /\ r.intent \in {"mkdir", "move", "remove"} \/ ~Folder(r.object)
    /\ r.dest # 0 => req[r.dest].intent \in {"mkdir", "move"}
    /\ r.base # 0 => state[r.base] # "Resolved"
    /\ r.base = 0 => r.item >= 0 /\ r.from[1] >= 0
    /\ r.dest = 0 /\ (r.base = 0 \/ r.intent \notin {"create", "replace"}) => r.at[1] >= 0
    /\ \A p \in {r.base, r.dest} : p # 0 => Stays(p)
    /\ \A q \in r.prereqs : q < last /\ state[q] # "Resolved" /\ (q <= count => Stays(q))

(* Inserting well-planned rows in one transaction keeps the invariant. *)
LEMMA InsertStep ==
    ASSUME QueueInv, NEW new \in SUBSET Ops, NEW rows, DOMAIN rows = new,
           count' \in 0..MaxOps, count' >= count, ready' \in [Ops -> BOOLEAN],
           \A o \in new : count < o /\ o <= count' /\ Enqueueable(rows[o], count'),
           \A o \in new : rows[o].intent = "mkdir" => new = {o},
           \A o \in new : \A q \in rows[o].prereqs :
             q <= count \/ (q < o /\ q \in new /\ rows[q].intent # "remove"),
           InsertRows(rows)
    PROVE  QueueInv'
<1> USE DEF QueueInv
<1>0. /\ UNCHANGED <<resolved, bound, attempt, complete, due, session, prepared, tagless>>
      /\ objects' = objects \cup {o \in new : rows[o].intent \in {"create", "replace"}}
      /\ \A p \in Ops : /\ req'[p] = IF p \in new THEN rows[p] ELSE req[p]
                        /\ state'[p] = IF p \in new THEN "Pending" ELSE state[p]
  BY Zenon DEF InsertRows
<1>1. \A o \in new : rows[o] \in RequestType /\ Resources(rows[o]) \in SUBSET Keys
  BY ResourcesType, Zenon DEF Enqueueable
<1>2. TypeOK'
  <2>1. req' \in [Ops -> RequestType] /\ resources' \in [Ops -> SUBSET Keys]
    BY <1>1, Zenon DEF InsertRows, TypeOK
  <2>2. state' \in [Ops -> States]
    BY Zenon DEF InsertRows, TypeOK, States
  <2> QED
    BY Zenon, <1>0, <2>1, <2>2 DEF TypeOK
<1>r. \A p \in Ops : /\ req'[p].base = 0 \/ req'[p].base \in Ops
                     /\ req'[p].dest = 0 \/ req'[p].dest \in Ops
                     /\ req'[p].prereqs \subseteq Ops
  <2>1. \A p \in Ops : req'[p] \in RequestType
    BY <1>2, Zenon DEF TypeOK
  <2>2. \A p \in Ops : /\ req'[p].base \in 0..MaxOps /\ req'[p].dest \in 0..MaxOps
                       /\ req'[p].prereqs \subseteq Ops
    BY <2>1, Zenon DEF RequestType
  <2> QED
    BY <2>2, BoundsAssumption DEF Ops
<1>3. \A p \in new : /\ req[p] = NoRequest /\ state[p] = "absent" /\ attempt[p] = None
                     /\ ~complete[p] /\ ~resolved[p] /\ ~bound[p]
  BY Zenon DEF Fresh
<1>4. count \in Int /\ count' \in Int /\ \A p \in Ops : p \in Int /\ req[p].object \in Int
  <2>1. count \in Int /\ count' \in Int
    BY Zenon, Numbers DEF TypeOK
  <2>2. \A p \in Ops : p \in Int
    BY Zenon, Numbers
  <2>3. \A p \in Ops : req[p].object \in Int
    BY Zenon, References DEF RequestType
  <2> QED
    BY Zenon, <2>1, <2>2, <2>3
<1>5. Fresh'
  <2>1. \A p \in Ops : p > count' => p > count /\ p \notin new
    BY Zenon, <1>4, Behind
  <2>2. ASSUME NEW p \in Ops PROVE req'[p].object >= -count'
    <3>1. CASE p \in new
      BY Zenon, <1>0, <3>1 DEF Enqueueable
    <3>2. CASE p \notin new
      <4>1. req'[p] = req[p] /\ req[p].object >= -count
        BY Zenon, <1>0, <3>2 DEF Fresh
      <4> QED
        BY Zenon, <1>4, <4>1, LocalId
    <3> QED
      BY Zenon, <3>1, <3>2
  <2> QED
    BY <1>0, <2>1, <2>2, Zenon DEF Fresh
<1>6. Lifecycle'
  <2> SUFFICES ASSUME NEW p \in Ops
               PROVE  /\ complete'[p] <=> state'[p] \in Confirming \cup {"Resolved"}
                      /\ IF Upload(p)' THEN state'[p] \notin {"Applying", "Applied", "NeedsReview"}
                                       ELSE state'[p] \notin {"Uploading", "Uploaded", "Resolved"}
                      /\ state'[p] # "absent" => req'[p].intent # "none"
    BY Zenon DEF Lifecycle, Live
  <2>1. CASE p \in new
    <3>1. state'[p] = "Pending" /\ ~complete'[p] /\ req'[p].intent # "none"
      BY ZenonT(60), <1>0, <1>3, <2>1 DEF Enqueueable
    <3> QED
      BY Zenon, <3>1 DEF Confirming
  <2>2. CASE p \notin new
    <3>1. state'[p] = state[p] /\ req'[p] = req[p] /\ complete' = complete
      BY Zenon, <1>0, <2>2
    <3> QED
      BY Zenon, <3>1 DEF Lifecycle, Live, Upload
  <2> QED
    BY <2>1, <2>2, Zenon
<1>7. FolderRows'
  <2>1. NoRequest.intent = "none"
    BY Zenon DEF NoRequest, Request
  <2>2. ASSUME NEW p \in Ops, Folder(req[p].object)' PROVE req'[p].intent \in {"mkdir", "move", "remove"}
    <3>1. PICK k \in Ops : req'[k].intent = "mkdir" /\ req'[p].object = -k
      BY <2>2, Zenon DEF Folder, Local
    <3>2. CASE p \in new
      <4>1. k \in new => k = p
        <5>1. k \in new => rows[k].intent = "mkdir"
          BY Zenon, <1>0, <3>1
        <5> QED
          BY Zenon, <3>2, <5>1
      <4>2. k \notin new => Folder(rows[p].object)
        BY Zenon, <1>0, <3>1, <3>2 DEF Folder, Local
      <4> QED
        BY Zenon, <1>0, <3>1, <3>2, <4>1, <4>2 DEF Enqueueable
    <3>3. CASE p \notin new
      <4>1. k \notin new
        <5>1. req[p].object = -k /\ req[p].object >= -count
          BY Zenon, <1>0, <3>1, <3>3 DEF Fresh
        <5>2. ~(count < k)
          BY ZenonT(60), <1>4, <5>1, MadeWithin
        <5> QED
          BY Zenon, <5>2
      <4>2. Folder(req[p].object)
        BY Zenon, <1>0, <3>1, <3>3, <4>1 DEF Folder, Local
      <4> QED
        BY <1>0, <3>3, <4>2, Zenon DEF FolderRows
    <3> QED
      BY <3>2, <3>3, Zenon
  <2>3. ASSUME NEW p \in Ops, req'[p].dest # 0 PROVE req'[req'[p].dest].intent \in {"mkdir", "move"}
    <3>1. req'[p].dest \in Ops
      BY ZenonT(60), <1>r, <2>3
    <3>2. req[req'[p].dest].intent \in {"mkdir", "move"}
      <4>1. CASE p \in new
        BY Zenon, <1>0, <2>3, <4>1 DEF Enqueueable
      <4>2. CASE p \notin new
        BY Zenon, <1>0, <2>3, <4>2 DEF FolderRows
      <4> QED
        BY Zenon, <4>1, <4>2
    <3> QED
      BY Zenon, <1>0, <1>3, <2>1, <3>1, <3>2
  <2> QED
    BY <2>2, <2>3, Zenon DEF FolderRows
<1>8. \A p \in Ops : /\ Begun(p)' <=> Begun(p)
                     /\ Begun(p) => p \notin new /\ req'[p] = req[p] /\ state'[p] = state[p]
  BY ZenonT(60), <1>0, <1>3 DEF Begun, Active, Confirming
<1>9. Bindings'
  <2> SUFFICES ASSUME NEW p \in Ops, NEW b, b = req'[p].base
               PROVE  /\ resolved'[p] => /\ b # 0 /\ Usable(b)'
                                         /\ req'[p].item = ConfirmedItem(b)'
                                         /\ req'[p].from = ConfirmedSlot(b)'
                                         /\ Upload(p)' => req'[p].at[1] >= 0
                      /\ b = 0 => req'[p].item >= 0 /\ req'[p].from[1] >= 0
                      /\ req'[p].dest = 0 /\ (b = 0 \/ ~Upload(p)') => req'[p].at[1] >= 0
                      /\ req'[p].dest # 0 /\ bound'[p] => req'[p].at[1] >= 0
                      /\ Begun(p)' => /\ req'[p].dest = 0 \/ bound'[p]
                                      /\ b = 0 \/ resolved'[p]
                                      /\ req'[p].item >= 0 /\ req'[p].at[1] >= 0 /\ req'[p].from[1] >= 0
    BY ZenonT(60) DEF Bindings, Usable, Confirmed, ConfirmedItem, ConfirmedSlot
  <2>1. CASE p \in new
    <3>1. req'[p] = rows[p] /\ ~Begun(p) /\ ~resolved[p] /\ ~bound[p] /\ Enqueueable(rows[p], count')
      BY Zenon, <1>0, <1>3, <1>8, <2>1
    <3>2. Upload(p)' <=> rows[p].intent \in {"create", "replace"}
      BY Zenon, <3>1 DEF Upload
    <3> QED
      BY ZenonT(60), <1>0, <1>8, <3>1, <3>2 DEF Enqueueable
  <2>2. CASE p \notin new
    <3>1. req'[p] = req[p] /\ (Upload(p)' <=> Upload(p))
      BY Zenon, <1>0, <2>2 DEF Upload
    <3>2. ASSUME resolved[p]
          PROVE  /\ b # 0 /\ Usable(b)' /\ Usable(b) /\ ConfirmedItem(b)' = ConfirmedItem(b)
                 /\ ConfirmedSlot(b)' = ConfirmedSlot(b)
      <4>1. b \in Ops /\ b # 0 /\ Usable(b)
        BY ZenonT(60), <3>1, <3>2, References DEF Bindings
      <4>2. state'[b] = state[b] /\ req'[b] = req[b]
        BY Zenon, <1>8, <4>1 DEF Usable, Confirmed, Begun
      <4> QED
        BY Zenon, <1>0, <4>1, <4>2 DEF Usable, Confirmed, ConfirmedItem, ConfirmedSlot
    <3> QED
      BY ZenonT(60), <1>0, <1>8, <3>1, <3>2 DEF Bindings
  <2> QED
    BY ZenonT(60), <2>1, <2>2
<1>10. Wants'
  <2> SUFFICES ASSUME NEW d \in Ops, NEW q \in Ops, Live(d)', q \in req'[d].prereqs
               PROVE  state'[q] # "Resolved" /\ (Begun(d) => complete[q])
    BY Zenon, <1>0, <1>8 DEF Wants
  <2>1. CASE d \in new
    BY ZenonT(60), <1>0, <1>8, <2>1 DEF Enqueueable
  <2>2. CASE d \notin new
    BY Zenon, <1>0, <2>2 DEF Wants, Live
  <2> QED
    BY ZenonT(60), <2>1, <2>2
<1>11. AttemptFence'
  BY ZenonT(60), <1>0, <1>3 DEF AttemptFence, Active
<1>12. EditsRetained'
  BY Zenon, <1>0 DEF EditsRetained, Live, Upload
<1>13. RescueLeavesNoOrphan'
  <2> SUFFICES ASSUME NEW p \in Ops, NEW q \in {req'[p].base} \cup req'[p].prereqs, q # 0,
                      state'[p] \in {"Pending", "VerifyRequired"} \cup Active
               PROVE  state'[q] # "Resolved"
    BY Zenon DEF RescueLeavesNoOrphan
  <2>1. q \in Ops
    <3>1. q = req'[p].base => q \in Ops
      BY ZenonT(60), <1>r
    <3>2. q \in req'[p].prereqs => q \in Ops
      BY Zenon, <1>r
    <3> QED
      BY Zenon, <3>1, <3>2
  <2>2. state[q] # "Resolved"
    <3>1. CASE p \in new
      <4>1. Enqueueable(rows[p], count') /\ q \in {rows[p].base} \cup rows[p].prereqs
        BY Zenon, <1>0, <3>1
      <4> QED
        BY Zenon, <4>1 DEF Enqueueable
    <3>2. CASE p \notin new
      <4>1. /\ q \in {req[p].base} \cup req[p].prereqs
            /\ state[p] \in {"Pending", "VerifyRequired"} \cup Active
        BY Zenon, <1>0, <3>2
      <4> QED
        BY Zenon, <4>1 DEF RescueLeavesNoOrphan
    <3> QED
      BY Zenon, <3>1, <3>2
  <2> QED
    BY Zenon, <1>0, <2>1, <2>2
<1>14. Anchored'
  <2>1. \A p \in Ops : p \notin new => SameWaits(p)
    BY Zenon, <1>0 DEF SameWaits
  <2>2. \A p \in Ops : Stays(p) => Stays(p)' /\ p <= count
    <3>1. \A p \in Ops : Stays(p) => p \notin new /\ ~(p > count)
      BY Zenon, <1>3 DEF Stays, Live, Fresh
    <3>2. \A p \in Ops : ~(p > count) => p <= count
      BY <1>4
    <3> QED
      BY Zenon, <1>0, <3>1, <3>2 DEF Stays, Live
  <2>3. ASSUME NEW p \in Ops PROVE Verifiable(p)'
    <3>1. CASE p \in new
      BY <1>0, <3>1, Zenon DEF Verifiable
    <3>2. CASE p \notin new
      BY Zenon, <1>0, <3>2, BoundBase DEF Verifiable
    <3> QED
      BY <3>1, <3>2, Zenon
  <2>4. ASSUME NEW o \in new, NEW p \in WaitsFor(o)', p # 0
        PROVE  p < o /\ Stays(p)'
    <3>1. p \in {rows[o].base, rows[o].dest} \cup rows[o].prereqs
      BY Zenon, <1>0, <2>4 DEF WaitsFor
    <3>2. p \in Ops
      <4>1. p \in {req'[o].base, req'[o].dest} \cup req'[o].prereqs
        BY Zenon, <2>4 DEF WaitsFor
      <4>2. o \in Ops
        OBVIOUS
      <4>3. /\ p = req'[o].base => p \in Ops
            /\ p = req'[o].dest => p \in Ops
        BY ZenonT(60), <1>r, <2>4, <4>2
      <4>4. p \in req'[o].prereqs => p \in Ops
        BY Zenon, <1>r, <4>2
      <4> QED
        BY Zenon, <4>1, <4>3, <4>4
    <3>3. CASE Stays(p)
      <4>1. p <= count /\ Stays(p)'
        BY Zenon, <2>2, <3>2, <3>3
      <4>2. p \in Int /\ o \in Int
        BY Zenon, <1>4, <3>2
      <4> QED
        BY Zenon, <1>4, <4>1, <4>2, Older
    <3>4. CASE ~Stays(p)
      <4>1. p < o /\ p \in new /\ rows[p].intent # "remove"
        <5>1. Enqueueable(rows[o], count')
          OBVIOUS
        <5>2. p \notin {rows[o].base, rows[o].dest}
          BY Zenon, <2>4, <3>4, <5>1 DEF Enqueueable
        <5>3. p \in rows[o].prereqs
          BY Zenon, <3>1, <5>2
        <5>4. ~(p <= count)
          BY Zenon, <3>4, <5>1, <5>3 DEF Enqueueable
        <5> QED
          BY Zenon, <5>3, <5>4
      <4> QED
        BY <1>0, <4>1, Zenon DEF Stays, Live
    <3> QED
      BY <3>3, <3>4, Zenon
  <2> QED
    BY Zenon, <2>1, <2>2, <2>3, <2>4, AnchorsKept
<1> QED
  BY Zenon, <1>2, <1>5, <1>6, <1>7, <1>9, <1>10, <1>11, <1>12, <1>13, <1>14

(* One well-planned request at the end of the queue. *)
LEMMA EnqueueStep ==
    ASSUME QueueInv, NEW r, Enqueueable(r, count + 1), NEW b \in BOOLEAN, EnqueueReady(r, b)
    PROVE  QueueInv'
<1>1. count \in Nat /\ count < MaxOps /\ count' = count + 1 /\ ready \in [Ops -> BOOLEAN]
  BY BoundsAssumption DEF QueueInv, TypeOK, EnqueueReady
<1>2. count + 1 \in Ops /\ count' \in 0..MaxOps
  BY <1>1, BoundsAssumption DEF Ops
<1>3. ready' \in [Ops -> BOOLEAN]
  BY Zenon, <1>1 DEF EnqueueReady
<1> DEFINE rows == [o \in {count + 1} |-> r]
<1>4. InsertRows(rows) /\ DOMAIN rows = {count + 1} /\ rows[count + 1] = r
  BY Zenon DEF EnqueueReady
<1> HIDE DEF rows
<1>5. /\ {count + 1} \in SUBSET Ops /\ count' >= count
      /\ \A o \in {count + 1} : count < o /\ o <= count' /\ Enqueueable(rows[o], count')
      /\ \A o \in {count + 1} : {count + 1} = {o}
  BY SMTT(60), <1>1, <1>2, <1>4
<1>6. \A o \in {count + 1} : \A q \in rows[o].prereqs : q <= count
  <2>1. \A q \in r.prereqs : q \in Ops /\ q < count + 1
    BY Zenon DEF Enqueueable, RequestType
  <2> QED
    BY <1>1, <1>4, <2>1 DEF Ops
<1> QED
  BY ZenonT(60), <1>2, <1>3, <1>4, <1>5, <1>6, InsertStep

(* The provider's version of a file or folder names only provider ids. *)
LEMMA HandedOffIds ==
    ASSUME QueueInv, NEW f \in HandedOff
    PROVE  /\ f.object \in Int /\ f.object >= -count /\ f.item \in Int /\ f.item >= 0
           /\ f.place \in Slot /\ f.place[1] >= 0
<1>1. count \in Nat
  BY SMTT(60), BoundsAssumption DEF QueueInv, TypeOK
<1>2. CASE \E o \in Ops : /\ Confirmed(o)
                          /\ f = RemoteFile(req[o].object, ConfirmedItem(o), ConfirmedSlot(o))
  <2>1. PICK o \in Ops : /\ Confirmed(o)
                         /\ f = RemoteFile(req[o].object, ConfirmedItem(o), ConfirmedSlot(o))
    BY Zenon, <1>2
  <2>2. Begun(o) /\ req[o].object \in Int /\ req[o].object >= -count
    BY Zenon, <2>1, References DEF Confirmed, Begun, QueueInv, Fresh, RequestType
  <2> QED
    BY <2>1, <2>2, ReceiptIds, Zenon DEF RemoteFile
<1>3. CASE \E i \in Existing : f = RemoteFile(i, i, <<Root, Home[i]>>)
  <2>1. PICK i \in Existing : f = RemoteFile(i, i, <<Root, Home[i]>>)
    BY <1>3
  <2>2. i \in Nat /\ i >= -count /\ Home[i] \in Names
    BY <1>1, IdAssumption
  <2> QED
    BY <2>1, <2>2 DEF RemoteFile, Root, Slot
<1> QED
  BY <1>2, <1>3, Zenon DEF HandedOff

(* The operation a local folder's children wait for made or moved that folder. *)
LEMMA DestinationIds ==
    ASSUME QueueInv, NEW parent \in Int, NEW d \in BindTo(parent)
    PROVE  /\ d = 0 => parent >= 0
           /\ d # 0 => d \in Ops /\ req[d].intent \in {"mkdir", "move"} /\ Stays(d)
           /\ d \in 0..MaxOps
<1>1. CASE parent < 0
  <2>1. d \in Ops /\ Entry(d) /\ Folder(req[d].object)
    BY <1>1, Zenon DEF BindTo, LocalFolder
  <2>2. Attached(d) /\ ~Unlinked(req[d].object)
    BY <2>1, Zenon DEF Entry, Latest
  <2>3. req[d].intent # "remove" /\ Stays(d)
    BY <2>1, <2>2, Zenon DEF Unlinked, Attached, Stays, Live
  <2> QED
    BY <2>1, <2>3 DEF QueueInv, FolderRows, Ops
<1>2. CASE ~(parent < 0)
  BY SMTT(60), <1>2, BoundsAssumption DEF BindTo
<1> QED
  BY Zenon, <1>1, <1>2

(* A row that can be extended is a queued one, with well-formed places. *)
LEMMA ExtendableRow ==
    ASSUME QueueInv, NEW p \in Ops, Extendable(p)
    PROVE  /\ state[p] \notin {"absent", "Resolved"} /\ req[p].intent # "none"
           /\ req[p].object \in Int /\ req[p].object >= -count /\ req[p].item \in Int
           /\ req[p].at \in Slot /\ NodeSlot(p) \in Slot /\ ConfirmedSlot(p) \in Slot
           /\ p \in 0..MaxOps /\ p # 0 /\ Stays(p)
<1>1. state[p] \notin {"absent", "Resolved"} /\ Stays(p)
  BY Zenon DEF Extendable, Entry, Latest, Unlinked, Attached, Stays, Live
<1>2. req[p].object \in Int /\ req[p].item \in Int /\ req[p].at \in Slot
  BY References, Zenon DEF QueueInv, RequestType
<1>3. ConfirmedSlot(p) \in Slot
  BY ReceiptIds
<1>4. NodeSlot(p) \in Slot
  BY <1>3 DEF NodeSlot, Slot, Local, Ops
<1> QED
  BY SMTT(60), <1>1, <1>2, <1>3, <1>4 DEF QueueInv, Fresh, Lifecycle, Live, Ops

(* Free places in the current tree are places. *)
LEMMA FreeSlotType == ASSUME QueueInv, NEW s \in FreeSlots PROVE s \in Slot /\ s[1] \in Int
<1>1. Parents \subseteq Int
  BY References DEF Parents, Root, QueueInv, RequestType
<1> QED
  BY Zenon, <1>1 DEF FreeSlots, Slot

(* What the fixed fields of a new request are. *)
LEMMA Unbound == 0 \in 0..MaxOps /\ {} \in SUBSET Ops /\ 0 \in Int
  BY BoundsAssumption

(* The requests of the namespace calls, built from the current tree. *)
LEMMA PlacedRequest ==
    ASSUME QueueInv, NEW i \in {"create", "mkdir", "move"},
           NEW x \in Int, x >= -(count + 1), i = "create" => ~Folder(x),
           NEW k \in Int, k >= 0, NEW f \in Slot, f[1] >= 0,
           NEW s \in Slot, s[1] \in Int, NEW d \in BindTo(s[1])
    PROVE  Enqueueable(Bind(Request(i, x, k, f, s), d), count + 1)
<1>1. /\ d = 0 => s[1] >= 0
      /\ d # 0 => d \in Ops /\ req[d].intent \in {"mkdir", "move"} /\ Stays(d)
      /\ d \in 0..MaxOps
  BY ZenonT(60), DestinationIds
<1> DEFINE q == Request(i, x, k, f, s)
           r == Bind(q, d)
<1>2. /\ q \in RequestType /\ q.intent = i /\ q.object = x /\ q.item = k /\ q.from = f
      /\ q.at = s /\ q.base = 0 /\ q.prereqs = {}
  <2>1. i \in {"none", "create", "replace", "mkdir", "move", "remove"}
    BY Zenon
  <2>2. q \in RequestType
    BY Zenon, <2>1, Unbound DEF Request, RequestType
  <2>3. /\ q.intent = i /\ q.object = x /\ q.item = k /\ q.from = f
        /\ q.at = s /\ q.base = 0 /\ q.prereqs = {}
    BY Zenon DEF Request
  <2> QED
    BY Zenon, <2>2, <2>3
<1> HIDE DEF q
<1>3. /\ r \in RequestType /\ r.intent = i /\ r.object = x /\ r.item = k /\ r.from = f
      /\ r.at = s /\ r.base = 0 /\ r.prereqs = {} /\ r.dest = d
  BY ZenonT(60), <1>1, <1>2 DEF Bind, RequestType
<1> HIDE DEF r
<1>4. Enqueueable(r, count + 1)
  BY <1>1, <1>3, Zenon DEF Enqueueable
<1> QED
  BY <1>4, Zenon DEF r, q

(* The number of rows is a natural number. *)
LEMMA CountNat == ASSUME QueueInv PROVE count \in Nat
<1>1. count \in 0..MaxOps
  BY ZenonT(60) DEF QueueInv, TypeOK
<1> QED
  BY SMTT(60), <1>1, BoundsAssumption

(* A change of something the provider already holds asks with provider ids. *)
LEMMA RemoteRequest ==
    ASSUME QueueInv, NEW f \in HandedOff, NEW i \in {"replace", "remove"},
           i = "replace" => ~Folder(f.object)
    PROVE  Enqueueable(Request(i, f.object, f.item, f.place, NoSlot), count + 1)
<1>1. /\ f.object \in Int /\ f.object >= -count /\ f.item \in Int /\ f.item >= 0
      /\ f.place \in Slot /\ f.place[1] >= 0
  BY ZenonT(60), HandedOffIds
<1>2. NoSlot \in Slot /\ NoSlot[1] = 0 /\ count \in Nat
  BY SMTT(60), CountNat DEF NoSlot, Slot
<1> DEFINE r == Request(i, f.object, f.item, f.place, NoSlot)
<1>3. /\ r \in RequestType /\ r.intent = i /\ r.object = f.object /\ r.item = f.item
      /\ r.from = f.place /\ r.at = NoSlot /\ r.base = 0 /\ r.prereqs = {} /\ r.dest = 0
  <2>1. 0 \in Int /\ 0 \in 0..MaxOps /\ {} \in SUBSET Ops
    BY Zenon, Unbound
  <2>2. r \in RequestType
    BY ZenonT(60), <1>1, <1>2, <2>1 DEF Request, RequestType
  <2>3. /\ r.intent = i /\ r.object = f.object /\ r.item = f.item
        /\ r.from = f.place /\ r.at = NoSlot /\ r.base = 0 /\ r.prereqs = {} /\ r.dest = 0
    BY ZenonT(60) DEF Request
  <2> QED
    BY ZenonT(60), <2>2, <2>3
<1> HIDE DEF r
<1>4. f.object >= -(count + 1) /\ NoSlot[1] >= 0
  BY <1>1, <1>2
<1>5. Enqueueable(r, count + 1)
  BY Zenon, <1>1, <1>3, <1>4 DEF Enqueueable
<1> QED
  BY Zenon, <1>5 DEF r

(* A save behind an unsettled change of the same object waits for it. *)
LEMMA ChainedSave ==
    ASSUME QueueInv, NEW p \in Ops, Extendable(p)
    PROVE  /\ SaveRequest(p) \in RequestType
           /\ SaveRequest(p).intent \in {"create", "replace"}
           /\ SaveRequest(p).object = req[p].object /\ SaveRequest(p).base = p
           /\ SaveRequest(p).prereqs = {} /\ SaveRequest(p).dest = 0
           /\ ~Folder(req[p].object) => Enqueueable(SaveRequest(p), count + 1)
<1>1. /\ state[p] \notin {"absent", "Resolved"} /\ req[p].object \in Int
      /\ req[p].object >= -count /\ req[p].item \in Int /\ req[p].at \in Slot
      /\ ConfirmedSlot(p) \in Slot /\ p \in 0..MaxOps /\ p # 0 /\ Stays(p)
  BY ZenonT(60), ExtendableRow
<1>2. NoSlot \in Slot /\ count \in Nat
  BY SMTT(60), BoundsAssumption DEF NoSlot, Slot, QueueInv, TypeOK
<1>3. PICK kept \in {"create", "replace"}, a \in Slot :
        SaveRequest(p) = [Request(kept, req[p].object, req[p].item, ConfirmedSlot(p), NoSlot)
                            EXCEPT !.base = p, !.at = a]
  BY ZenonT(60), <1>1, <1>2 DEF SaveRequest, Upload
<1> DEFINE q == Request(kept, req[p].object, req[p].item, ConfirmedSlot(p), NoSlot)
<1>4. /\ q \in RequestType /\ q.intent = kept /\ q.object = req[p].object
      /\ q.prereqs = {} /\ q.dest = 0
  <2>1. 0 \in 0..MaxOps /\ {} \in SUBSET Ops /\ 0 \in Int
    BY Zenon, Unbound
  <2>2. kept \in {"none", "create", "replace", "mkdir", "move", "remove"}
    BY Zenon, <1>3
  <2>3. q \in RequestType
    BY Zenon, <1>1, <1>2, <2>1, <2>2 DEF Request, RequestType
  <2>4. /\ q.intent = kept /\ q.object = req[p].object
        /\ q.prereqs = {} /\ q.dest = 0
    BY Zenon DEF Request
  <2> QED
    BY Zenon, <2>3, <2>4
<1> HIDE DEF q
<1>5. SaveRequest(p) = [q EXCEPT !.base = p, !.at = a]
  BY <1>3 DEF q
<1>6. /\ SaveRequest(p) \in RequestType /\ SaveRequest(p).intent = kept
      /\ SaveRequest(p).object = req[p].object /\ SaveRequest(p).base = p
      /\ SaveRequest(p).prereqs = {} /\ SaveRequest(p).dest = 0
  BY ZenonT(60), <1>1, <1>4, <1>5 DEF RequestType
<1>7. req[p].object >= -(count + 1)
  BY <1>1, <1>2
<1> QED
  BY Zenon, <1>1, <1>3, <1>6, <1>7 DEF Enqueueable

(* A removal or a move behind an unsettled change of the same object waits for it. *)
LEMMA ChainedMutation ==
    ASSUME QueueInv, NEW p \in Ops, Extendable(p)
    PROVE  /\ Enqueueable(RemoveRequest(p), count + 1)
           /\ RemoveRequest(p) \in RequestType /\ RemoveRequest(p).intent = "remove"
           /\ RemoveRequest(p).base = p /\ RemoveRequest(p).dest = 0
           /\ RemoveRequest(p).at = NoSlot
           /\ \A s \in FreeSlots : \A d \in BindTo(s[1]) :
                Enqueueable(Bind(MoveRequest(p, s), d), count + 1)
<1>1. /\ state[p] \notin {"absent", "Resolved"} /\ req[p].object \in Int
      /\ req[p].object >= -count /\ NodeSlot(p) \in Slot /\ p \in 0..MaxOps /\ p # 0 /\ Stays(p)
  BY Zenon, ExtendableRow
<1>2. NoSlot \in Slot /\ NoSlot[1] = 0 /\ count \in Nat
  BY SMTT(60), BoundsAssumption DEF NoSlot, Slot, QueueInv, TypeOK
<1>3. /\ Enqueueable(RemoveRequest(p), count + 1) /\ RemoveRequest(p) \in RequestType
      /\ RemoveRequest(p).intent = "remove" /\ RemoveRequest(p).base = p
      /\ RemoveRequest(p).dest = 0 /\ RemoveRequest(p).at = NoSlot
  <2> DEFINE q == Request("remove", req[p].object, req[p].object, NodeSlot(p), NoSlot)
  <2>1. /\ q \in RequestType /\ q.intent = "remove" /\ q.object = req[p].object
        /\ q.at = NoSlot /\ q.prereqs = {} /\ q.dest = 0
    <3>1. /\ q.intent = "remove" /\ q.object = req[p].object
          /\ q.at = NoSlot /\ q.prereqs = {} /\ q.dest = 0
      BY Zenon DEF Request
    <3>2. "remove" \in {"none", "create", "replace", "mkdir", "move", "remove"} /\ 0 \in 0..MaxOps
          /\ {} \in SUBSET Ops /\ 0 \in Int
      BY Zenon, Unbound
    <3>3. q \in RequestType
      BY Zenon, <1>1, <1>2, <3>2 DEF Request, RequestType
    <3> QED
      BY <3>1, <3>3, Zenon
  <2> HIDE DEF q
  <2>2. RemoveRequest(p) = [q EXCEPT !.base = p]
    BY DEF RemoveRequest, q
  <2>3. /\ RemoveRequest(p) \in RequestType /\ RemoveRequest(p).intent = "remove"
        /\ RemoveRequest(p).object = req[p].object /\ RemoveRequest(p).at = NoSlot
        /\ RemoveRequest(p).prereqs = {} /\ RemoveRequest(p).dest = 0 /\ RemoveRequest(p).base = p
    BY <1>1, <2>1, <2>2, Zenon DEF RequestType
  <2>4. req[p].object >= -(count + 1) /\ NoSlot[1] >= 0
    BY <1>1, <1>2
  <2> QED
    BY Zenon, <1>1, <2>3, <2>4 DEF Enqueueable
<1>4. ASSUME NEW s \in FreeSlots, NEW d \in BindTo(s[1])
      PROVE  Enqueueable(Bind(MoveRequest(p, s), d), count + 1)
  <2>1. s \in Slot /\ s[1] \in Int
    BY FreeSlotType
  <2>2. /\ d = 0 => s[1] >= 0
        /\ d # 0 => req[d].intent \in {"mkdir", "move"} /\ Stays(d)
        /\ d \in 0..MaxOps
    BY ZenonT(60), <2>1, DestinationIds
  <2> DEFINE q == Request("move", req[p].object, req[p].object, NodeSlot(p), s)
             z == Bind(MoveRequest(p, s), d)
  <2>3. /\ q \in RequestType /\ q.intent = "move" /\ q.object = req[p].object
        /\ q.at = s /\ q.prereqs = {}
    <3>1. "move" \in {"none", "create", "replace", "mkdir", "move", "remove"}
      BY Zenon
    <3>2. q \in RequestType
      BY Zenon, <1>1, <2>1, <3>1, Unbound DEF Request, RequestType
    <3>3. q.intent = "move" /\ q.object = req[p].object /\ q.at = s /\ q.prereqs = {}
      BY Zenon DEF Request
    <3> QED
      BY Zenon, <3>2, <3>3
  <2> HIDE DEF q
  <2>4. z = [[q EXCEPT !.base = p] EXCEPT !.dest = d]
    BY DEF MoveRequest, Bind, q
  <2>5. /\ z \in RequestType /\ z.intent = "move" /\ z.object = req[p].object /\ z.at = s
        /\ z.prereqs = {} /\ z.dest = d /\ z.base = p
    BY ZenonT(60), <1>1, <2>2, <2>3, <2>4 DEF RequestType
  <2> HIDE DEF z
  <2>6. req[p].object >= -(count + 1)
    BY <1>1, <1>2
  <2>7. Enqueueable(z, count + 1)
    BY Zenon, <1>1, <2>2, <2>5, <2>6 DEF Enqueueable
  <2> QED
    BY <2>7 DEF z
<1> QED
  BY <1>3, <1>4, Zenon
=============================================================================
