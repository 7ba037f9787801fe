------------------------------ MODULE WriteQueue ------------------------------
(***************************************************************************)
(* The durable write journal (crates/cirrove-service/src/journal.rs and    *)
(* journal/): the one queue that orders file uploads and namespace         *)
(* mutations of an account.  A row is one operation; its number is the     *)
(* AUTOINCREMENT sequence of write_queue.                                  *)
(*                                                                         *)
(* Identities.  The account root is 0.  The object an operation k creates  *)
(* is known locally by the id Local(k) = -k until the provider's receipt   *)
(* gives it the remote id k; files that exist from the start have ids      *)
(* above MaxOps.  A slot is a pair <<parent id, name>>.                    *)
(*                                                                         *)
(* An attempt token is a fresh UUID handed to the claiming worker, which   *)
(* runs one attempt at a time; the token is represented by the worker.     *)
(***************************************************************************)
EXTENDS Integers, FiniteSets

CONSTANTS MaxOps,     \* bound on the rows ever inserted
          Existing,   \* ids of the remote files the account starts with
          Home,       \* Home[i]: the name of existing file i under the root
          Names,      \* names the local user picks
          Workers,    \* upload and mutation workers
          Menu,       \* which kinds of local change the user makes
          Batch       \* LIMIT of one resolution pass (256 in the code)

ASSUME BoundsAssumption ==
    /\ MaxOps \in Nat \ {0}
    /\ Batch \in Nat \ {0}
ASSUME IdAssumption ==
    /\ Existing \subseteq {i \in Nat : i > MaxOps}
    /\ Home \in [Existing -> Names]
    /\ "-" \notin Names
    /\ "none" \notin Workers

VARIABLES count,      \* rows inserted so far
          req,        \* the request and its order: intent, ids, slots, dependencies
          resources,  \* write_resources: keys the row reserves
          resolved,   \* base.resolved
          bound,      \* write_destinations.resolved
          state,      \* UploadState / MutationState; "absent" = no row
          attempt,    \* the token of the running attempt
          complete,   \* write_queue.complete
          ready,      \* local_ready: no local reader still needs the remote bytes
          due,        \* retry_at <= now
          session,    \* session_key is set
          prepared,   \* prepared_item is set
          objects,    \* payload files in the journal's objects directory
          tagless     \* acknowledged rows whose receipt carries no ETag

vars == <<count, req, resources, resolved, bound, state, attempt, complete,
          ready, due, session, prepared, objects, tagless>>
plan == <<count, req, resources, resolved, bound>>

Ops == 1..MaxOps
Root == 0
NoSlot == <<0, "-">>
None == "none"
Local(k) == -k

Active == {"Uploading", "Applying", "Verifying"}
Confirming == {"Uploaded", "Applied"}
Stuck == {"Conflict", "Failed", "NeedsReview"}
States == {"absent", "Pending", "VerifyRequired", "Resolved"}
            \cup Active \cup Confirming \cup Stuck

Live(o) == state[o] # "absent"
Upload(o) == req[o].intent \in {"create", "replace"}
Held(o, w) == state[o] \in Active /\ attempt[o] = w
Idle(w) == \A o \in Ops : attempt[o] # w

-----------------------------------------------------------------------------
(* Requests and the keys they reserve (upload_resources, mutation_resources). *)

Request(intent, object, item, from, at) ==
    [intent |-> intent, object |-> object, item |-> item, from |-> from, at |-> at,
     base |-> 0, prereqs |-> {}, dest |-> 0, victim |-> 0]
NoRequest == Request("none", 0, 0, NoSlot, NoSlot)

ItemKey(i) == <<"item", i>>
SlotKey(s) == <<"name", s[1], s[2]>>

Resources(r) ==
    (IF r.intent \in {"replace", "move", "remove"} THEN {ItemKey(r.item)} ELSE {})
      \cup (IF r.intent \in {"move", "remove"} THEN {SlotKey(r.from)} ELSE {})
      \cup (IF r.intent \in {"create", "mkdir", "move"} THEN {SlotKey(r.at)} ELSE {})

(* Operation::confirmed_node: what an acknowledged row tells its successors. *)
Confirmed(o) == state[o] \in Confirming /\ req[o].intent # "remove"
ConfirmedItem(o) == IF req[o].intent \in {"create", "mkdir"} THEN o ELSE req[o].item
ConfirmedSlot(o) == IF req[o].intent = "replace" THEN req[o].from ELSE req[o].at

-----------------------------------------------------------------------------
Init ==
    /\ count = 0
    /\ req = [o \in Ops |-> NoRequest]
    /\ resources = [o \in Ops |-> {}]
    /\ resolved = [o \in Ops |-> FALSE]
    /\ bound = [o \in Ops |-> FALSE]
    /\ state = [o \in Ops |-> "absent"]
    /\ attempt = [o \in Ops |-> None]
    /\ complete = [o \in Ops |-> FALSE]
    /\ ready = [o \in Ops |-> TRUE]
    /\ due = [o \in Ops |-> TRUE]
    /\ session = [o \in Ops |-> FALSE]
    /\ prepared = [o \in Ops |-> FALSE]
    /\ objects = {}
    /\ tagless = {}
-----------------------------------------------------------------------------
(* Local changes.  Every enqueue publishes the payload, then commits the row, *)
(* its keys and its dependencies in one transaction.                          *)

InsertRows(rows) ==
    LET new == DOMAIN rows IN
    /\ req' = [o \in Ops |-> IF o \in new THEN rows[o] ELSE req[o]]
    /\ resources' = [o \in Ops |-> IF o \in new THEN Resources(rows[o]) ELSE resources[o]]
    /\ state' = [o \in Ops |-> IF o \in new THEN "Pending" ELSE state[o]]
    /\ objects' = objects \cup {o \in new : rows[o].intent \in {"create", "replace"}}
    /\ UNCHANGED <<resolved, bound, attempt, complete, due, session, prepared, tagless>>

(* enqueue_generation / enqueue_mutation_transaction of a single request.  The *)
(* journal has no limit on rows: MaxOps is the bound of the model.             *)
EnqueueReady(r, localReady) ==
    /\ count < MaxOps
    /\ count' = count + 1
    /\ InsertRows([o \in {count + 1} |-> r])
    /\ ready' = [ready EXCEPT ![count + 1] = localReady]
Enqueue(r) == EnqueueReady(r, TRUE)

(* The local tree: namespace_objects with their latest operation.  A rescued   *)
(* (Resolved) save is detached from its object; an unlinked object has no name. *)
Attached(o) == state[o] \notin {"absent", "Resolved"}
Latest(o) == /\ Attached(o)
             /\ \A p \in Ops : (Attached(p) /\ req[p].object = req[o].object) => p <= o
Unlinked(x) == \E o \in Ops :
    Attached(o) /\ (req[o].victim = x \/ (req[o].object = x /\ req[o].intent = "remove"))
Folder(x) == \E k \in Ops : req[k].intent = "mkdir" /\ x = Local(k)
Untouched(i) == \A o \in Ops : Attached(o) => req[o].object # i /\ req[o].victim # i

(* localize_parent: children keep naming a local folder by its local id. *)
NodeSlot(o) == LET s == ConfirmedSlot(o) IN
               IF s[1] \in Ops THEN <<Local(s[1]), s[2]>> ELSE s
Entry(o) == Latest(o) /\ ~Unlinked(req[o].object)
Occupied(s) == \/ \E o \in Ops : Entry(o) /\ NodeSlot(o) = s
               \/ \E i \in Existing : Untouched(i) /\ s = <<Root, Home[i]>>
LocalFolder(o) == Entry(o) /\ Folder(req[o].object)
Parents == {Root} \cup {req[o].object : o \in {k \in Ops : LocalFolder(k)}}
FreeSlots == {s \in Parents \X Names : ~Occupied(s)}

(* An object whose operations are all confirmed may have been handed off, so    *)
(* that its next operation starts from the provider's item, not from a receipt. *)
RemoteFile(x, i, place) == [object |-> x, item |-> i, place |-> place]
HandedOff == {RemoteFile(req[o].object, ConfirmedItem(o), ConfirmedSlot(o)) :
                  o \in {k \in Ops : Entry(k) /\ Confirmed(k)}}
             \cup {RemoteFile(i, i, <<Root, Home[i]>>) : i \in {j \in Existing : Untouched(j)}}
(* Mutant of Extendable: an object that was unlinked still takes operations. *)
ExtendableGone(p) == /\ Latest(p)
                     /\ \A o \in Ops : req[o].base # p
(* The latest operation, while no successor is chained to it yet. *)
Extendable(p) == /\ Entry(p)
                 /\ \A o \in Ops : req[o].base # p     \* ensure_successor_free

(* directories::bind: a destination in a local folder waits for the folder's    *)
(* latest operation; an unlinked folder is refused.                             *)
BindTo(parent) == IF parent < 0 THEN {o \in Ops : LocalFolder(o) /\ req[o].object = parent} ELSE {0}
(* Mutant of Bind: the dependency on the local folder is not recorded. *)
BindNothing(r, d) == r
Bind(r, d) == [r EXCEPT !.dest = d]
(* The namespace refuses a folder moved below itself: here it moves to the root *)
(* or to an older folder.                                                       *)
Movable(x, s) == Folder(x) => s[1] = Root \/ s[1] > x

CreateFile == \E s \in FreeSlots : \E d \in BindTo(s[1]) :
    Enqueue(Bind(Request("create", Local(count + 1), 0, NoSlot, s), d))
ReplaceFile == \E f \in HandedOff :
    ~Folder(f.object) /\ Enqueue(Request("replace", f.object, f.item, f.place, NoSlot))
CreateFolder == \E s \in FreeSlots : \E d \in BindTo(s[1]) :
    Enqueue(Bind(Request("mkdir", Local(count + 1), 0, NoSlot, s), d))
Relocate == \E f \in HandedOff, s \in FreeSlots : \E d \in BindTo(s[1]) :
    Movable(f.object, s) /\ Enqueue(Bind(Request("move", f.object, f.item, f.place, s), d))

(* enqueue_after: a newer save chained to the receipt of p. *)
SaveRequest(p) ==
    LET r == req[p]
        kept == IF Upload(p) THEN r.intent ELSE "replace"
    IN  [Request(kept, r.object, r.item, ConfirmedSlot(p), NoSlot)
            EXCEPT !.base = p, !.at = IF kept = "create" THEN r.at ELSE NoSlot]
SaveAfter == \E p \in Ops :
    Extendable(p) /\ ~Folder(req[p].object) /\ Enqueue(SaveRequest(p))
(* Mutant of MoveRequest: the rename names the object as its predecessor, where *)
(* the journal expects the operation.                                           *)
MoveAfterObject(p, s) ==
    [Request("move", req[p].object, req[p].object, NodeSlot(p), s) EXCEPT !.base = req[p].object]
(* enqueue_mutation_after: a rename chained to the receipt of p. *)
MoveRequest(p, s) == [Request("move", req[p].object, req[p].object, NodeSlot(p), s) EXCEPT !.base = p]
RelocateAfter == \E p \in Ops, s \in FreeSlots : \E d \in BindTo(s[1]) :
    Extendable(p) /\ Movable(req[p].object, s) /\ Enqueue(Bind(MoveRequest(p, s), d))

(* unlink_namespace_file: the removal waits for local readers unless there are *)
(* none; it is chained to the file's latest operation when it has one.         *)
RemoveRequest(p) ==
    [Request("remove", req[p].object, req[p].object, NodeSlot(p), NoSlot) EXCEPT !.base = p]
RemoveRemote(f) == Request("remove", f.object, f.item, f.place, NoSlot)
Unlink == \E preserve \in BOOLEAN :
    \/ \E f \in HandedOff : ~Folder(f.object) /\ EnqueueReady(RemoveRemote(f), ~preserve)
    \/ \E p \in Ops : /\ Extendable(p) /\ ~Folder(req[p].object)
                      /\ EnqueueReady(RemoveRequest(p), ~preserve)
(* remove_namespace_directory: only of an empty folder, never chained. *)
RemoveFolder == \E f \in HandedOff :
    /\ Folder(f.object)
    /\ \A n \in Names : ~Occupied(<<f.object, n>>)
    /\ Enqueue(RemoveRemote(f))

(* replace_namespace_file: an editor renames a source file over a victim.  The  *)
(* upload of the source's bytes onto the victim waits for the source's own      *)
(* operations, if it has any; removing the source from the place it leaves      *)
(* waits for that upload and belongs to an object of its own.                   *)
Source(x, waits, cleanup) == [object |-> x, waits |-> waits, cleanup |-> cleanup]
Sources == {Source(req[p].object, {p}, RemoveRequest(p)) : p \in {q \in Ops : Extendable(q)}}
           \cup {Source(f.object, {}, RemoveRemote(f)) : f \in HandedOff}
ReplaceOver(source, victim, upload) == \E preserve \in BOOLEAN :
    LET u == count + 1
        c == count + 2
        rows == [o \in {u, c} |->
                   IF o = u
                   THEN [upload EXCEPT !.object = source.object, !.victim = victim,
                                       !.prereqs = source.waits]
                   ELSE [source.cleanup EXCEPT !.object = Local(c), !.prereqs = {u}]]
    IN  /\ ~Folder(source.object)
        /\ victim # source.object /\ ~Folder(victim)
        /\ count + 1 < MaxOps
        /\ count' = count + 2
        /\ InsertRows(rows)
        /\ ready' = [ready EXCEPT ![u] = ~preserve]
AtomicReplace == \E source \in Sources :
    \/ \E v \in Ops : Extendable(v) /\ ReplaceOver(source, req[v].object, SaveRequest(v))
    \/ \E f \in HandedOff :
         ReplaceOver(source, f.object, Request("replace", f.object, f.item, f.place, NoSlot))
IsReplacement(o) == req[o].victim # 0

-----------------------------------------------------------------------------
(* resolve_ready_generations: before any claim, the receipts of completed rows *)
(* are bound into the rows that wait for them, destinations first, and the     *)
(* newly known identities reserve their keys.                                  *)

FirstBatch(S) == {o \in S : Cardinality({p \in S : p < o}) < Batch}
ReadyDests == {o \in Ops : /\ Live(o) /\ ~complete[o]
                           /\ req[o].dest # 0 /\ ~bound[o] /\ complete[req[o].dest]}
(* Mutant of ReadyBases: a receipt without an ETag is not looked at. *)
ReadyTaggedBases == {o \in Ops : /\ state[o] = "Pending" /\ req[o].base # 0 /\ ~resolved[o]
                                 /\ complete[req[o].base] /\ req[o].base \notin tagless}
ReadyBases == {o \in Ops : /\ state[o] = "Pending"
                           /\ req[o].base # 0 /\ ~resolved[o] /\ complete[req[o].base]}
DestBatch == FirstBatch(ReadyDests)
BaseBatch == FirstBatch(ReadyBases)
(* base_node: only a receipt that names an item and its ETag is a base. *)
Usable(b) == Confirmed(b) /\ b \notin tagless
Rebased == {o \in BaseBatch : Usable(req[o].base)}

(* resolve_destination, then resolve_upload / resolve_mutation, of one row. *)
AtRemote(o) == IF o \in DestBatch THEN [req[o] EXCEPT !.at = <<ConfirmedItem(req[o].dest), @[2]>>] ELSE req[o]
(* Mutant of Rebind: the upload keeps the identity it was planned with. *)
RebindStaleItem(o) == IF o \in Rebased /\ Upload(o) THEN [AtRemote(o) EXCEPT !.intent = "replace", !.at = NoSlot]
                      ELSE AtRemote(o)
Rebind(o) ==
    IF o \in Rebased
    THEN [AtRemote(o) EXCEPT !.intent = IF Upload(o) THEN "replace" ELSE @,
                             !.item = ConfirmedItem(req[o].base),
                             !.from = ConfirmedSlot(req[o].base),
                             !.at = IF Upload(o) THEN NoSlot ELSE @]
    ELSE AtRemote(o)
ResourcesNow(o) == IF o \in DestBatch \cup Rebased
                   THEN resources[o] \cup Resources(Rebind(o)) ELSE resources[o]
StateNow(o) == IF o \in BaseBatch \ Rebased THEN "Failed" ELSE state[o]
Settled == ReadyDests \subseteq DestBatch /\ ReadyBases \subseteq BaseBatch
ResolveReady ==
    /\ req' = [o \in Ops |-> Rebind(o)]
    /\ resources' = [o \in Ops |-> ResourcesNow(o)]
    /\ bound' = [o \in Ops |-> bound[o] \/ o \in DestBatch]
    /\ resolved' = [o \in Ops |-> resolved[o] \/ o \in Rebased]

-----------------------------------------------------------------------------
(* Claims: the oldest eligible row, and only after resolution has settled. *)

(* Mutant of PrereqsComplete: the prerequisite only has to exist. *)
PrereqsKnown(o) == \A p \in req[o].prereqs : Live(p)
PrereqsComplete(o) == \A p \in req[o].prereqs : Live(p) /\ complete[p]
(* Mutant of Unblocked: uploads and mutations as two independent queues. *)
UnblockedByKind(o) == \A p \in Ops : (p < o /\ Live(p) /\ ~complete[p] /\ (Upload(p) <=> Upload(o)))
                                       => ResourcesNow(p) \cap ResourcesNow(o) = {}
Unblocked(o) == \A p \in Ops : (p < o /\ Live(p) /\ ~complete[p])
                                 => ResourcesNow(p) \cap ResourcesNow(o) = {}
(* Mutant of Eligible: a claim does not look at write_destinations. *)
EligibleUnbound(o, from) ==
    /\ StateNow(o) \in from
    /\ req[o].base = 0 \/ resolved[o] \/ o \in Rebased
    /\ ready[o] /\ due[o] /\ PrereqsComplete(o) /\ Unblocked(o)
Eligible(o, from) ==
    /\ ready[o] /\ due[o]
    /\ StateNow(o) \in from
    /\ req[o].dest = 0 \/ bound[o] \/ o \in DestBatch
    /\ req[o].base = 0 \/ resolved[o] \/ o \in Rebased
    /\ PrereqsComplete(o)
    /\ Unblocked(o)
Candidates(from, uploads) == {o \in Ops : (Upload(o) <=> uploads) /\ Eligible(o, from)}
Claimable(o, from, uploads) ==
    LET eligible == Candidates(from, uploads) IN
    /\ o \in eligible /\ \A p \in eligible : o <= p
    /\ Settled
(* Without a candidate a claim still commits what there is to bind. *)
NoneClaimable(from, uploads) ==
    /\ ReadyDests # {} \/ ReadyBases # {}
    /\ ~Settled \/ Candidates(from, uploads) = {}

(* The row goes to state `to' for worker w. *)
Take(o, to, w) ==
    /\ state' = [p \in Ops |-> IF p = o THEN to ELSE StateNow(p)]
    /\ attempt' = [attempt EXCEPT ![o] = w]
(* The row fails, or no row was claimable: only the resolution is committed. *)
TakeNothing(failed) ==
    /\ state' = [p \in Ops |-> IF p \in failed THEN "Failed" ELSE StateNow(p)]
    /\ UNCHANGED attempt
ClaimFrame == /\ ResolveReady
              /\ UNCHANGED <<count, complete, ready, due, session, prepared, objects, tagless>>

(* claim_next: an unreadable payload fails the row before any transfer. *)
ClaimNext(w) ==
    /\ Idle(w)
    /\ \/ \E o \in Ops : /\ Claimable(o, {"Pending"}, TRUE)
                         /\ Take(o, "Uploading", w) \/ TakeNothing({o})
       \/ NoneClaimable({"Pending"}, TRUE) /\ TakeNothing({})
    /\ ClaimFrame
ClaimVerification(w) ==
    /\ Idle(w)
    /\ \/ \E o \in Ops : Claimable(o, {"VerifyRequired"}, TRUE) /\ Take(o, "Verifying", w)
       \/ NoneClaimable({"VerifyRequired"}, TRUE) /\ TakeNothing({})
    /\ ClaimFrame
ClaimMutation(w) ==
    /\ Idle(w)
    /\ \/ \E o \in Ops :
            /\ Claimable(o, {"Pending", "VerifyRequired"}, FALSE)
            /\ Take(o, IF StateNow(o) = "Pending" THEN "Applying" ELSE "Verifying", w)
       \/ NoneClaimable({"Pending", "VerifyRequired"}, FALSE) /\ TakeNothing({})
    /\ ClaimFrame

-----------------------------------------------------------------------------
(* Calls of the worker that holds the attempt (active_attempt,               *)
(* mutation_attempt).  save and save_mutation derive completion from state.  *)

Save(o, s) ==
    /\ state' = [state EXCEPT ![o] = s]
    /\ complete' = [complete EXCEPT ![o] = s \in Confirming]
(* Mutant of Release: the state changes but the token stays on the row. *)
KeepToken(o) == attempt' = attempt
Release(o) == attempt' = [attempt EXCEPT ![o] = None]

RecordSession(o, w) ==
    /\ Held(o, w) /\ Upload(o)
    /\ Save(o, "Uploading")
    /\ session' = [session EXCEPT ![o] = TRUE]
    /\ UNCHANGED <<plan, attempt, ready, due, prepared, objects, tagless>>

(* defer_attempt, defer_mutation: an ambiguous result, a conflict, a failure. *)
Defer(o, w) == \E s \in {"VerifyRequired"} \cup Stuck :
    /\ Held(o, w)
    /\ Upload(o) => s # "NeedsReview"
    /\ Save(o, s) /\ Release(o)
    /\ due' = [due EXCEPT ![o] = FALSE]
    /\ UNCHANGED <<plan, ready, session, prepared, objects, tagless>>

(* acknowledge, acknowledge_mutation.  A rename found by verification may carry *)
(* somebody else's content: reconciled_state then refuses it as a base.         *)
Acknowledge(o, w) == \E bare \in BOOLEAN :
    /\ Held(o, w)
    /\ \/ Save(o, IF Upload(o) THEN "Uploaded" ELSE "Applied")
       \/ /\ state[o] = "Verifying" /\ req[o].intent = "move" /\ ~Folder(req[o].object)
          /\ \E s \in {"Conflict", "NeedsReview"} : Save(o, s)
    /\ Release(o)
    /\ bare => req[o].intent \in {"create", "replace", "mkdir"}
    /\ tagless' = IF bare THEN tagless \cup {o} ELSE tagless
    /\ UNCHANGED <<plan, ready, due, session, prepared, objects>>

(* Verification proved that nothing was committed: stop_attempt followed by    *)
(* retry_verified_uncommitted under one lock, or retry_uncommitted_mutation.   *)
(* An unreadable payload leaves the upload stopped.                            *)
RetryUncommitted(o, w) == \E intact \in BOOLEAN :
    /\ Held(o, w) /\ state[o] = "Verifying"
    /\ intact \/ Upload(o)
    /\ Save(o, IF intact THEN "Pending" ELSE "VerifyRequired") /\ Release(o)
    /\ due' = [due EXCEPT ![o] = TRUE]
    /\ session' = [session EXCEPT ![o] = IF intact THEN FALSE ELSE @]
    /\ UNCHANGED <<plan, ready, prepared, objects, tagless>>

RecordPrepared(o, w) ==
    /\ Held(o, w) /\ state[o] = "Applying" /\ ~prepared[o]
    /\ Save(o, "Applying")
    /\ prepared' = [prepared EXCEPT ![o] = TRUE]
    /\ UNCHANGED <<plan, attempt, ready, due, session, objects, tagless>>
DeferPreparation(o, w) ==
    /\ Held(o, w) /\ state[o] = "Applying" /\ ~prepared[o]
    /\ Save(o, "Pending") /\ Release(o)
    /\ due' = [due EXCEPT ![o] = FALSE]
    /\ UNCHANGED <<plan, ready, session, prepared, objects, tagless>>

-----------------------------------------------------------------------------
(* Calls of the user and of maintenance. *)

(* Mutant of RequestRetry: any row that is not running may be retried. *)
RetryAnything(o) ==
    /\ Live(o) /\ state[o] \notin Active
    /\ Save(o, "VerifyRequired")
    /\ due' = [due EXCEPT ![o] = TRUE]
    /\ UNCHANGED <<plan, attempt, ready, session, prepared, objects, tagless>>
(* request_retry, request_mutation_retry: verification first, never a replay. *)
RequestRetry(o) ==
    /\ state[o] \in {"Failed", "VerifyRequired"} \cup (IF Upload(o) THEN {} ELSE {"NeedsReview"})
    /\ req[o].base = 0 \/ resolved[o]
    /\ Save(o, "VerifyRequired")
    /\ due' = [due EXCEPT ![o] = TRUE]
    /\ UNCHANGED <<plan, attempt, ready, session, prepared, objects, tagless>>

(* Mutant of SaveChain: the rescue forgets the saves chained to the refused one. *)
RefusedOnly(o, C) == C = {o}
(* rescue::successors: C is the refused save o with all that is chained to it; *)
(* each successor must be an untouched save, none wanted by another object.    *)
SaveChain(o, C) == o \in C /\ \A s \in Ops \ {o} : s \in C <=> req[s].base \in C
UntouchedSave(s, o) ==
    LET r == Rebind(s) IN
    /\ StateNow(s) = "Pending" /\ Upload(s) /\ ~IsReplacement(s)
    /\ ~resolved[s] /\ s \notin Rebased
    /\ r.intent = req[o].intent /\ r.item = req[o].item /\ r.at = req[o].at
    /\ attempt[s] = None /\ ~session[s]
Wanted(s) == \E d \in Ops : Live(d) /\ s \in req[d].prereqs
Rescuable(o, C) ==
    /\ SaveChain(o, C)
    /\ Upload(o) /\ StateNow(o) \in {"Conflict", "Failed"}
    /\ ~IsReplacement(o)
    /\ \A s \in C : ~Wanted(s) /\ (s # o => UntouchedSave(s, o))

(* keep_both: publish the newest bytes under a new name and resolve the whole *)
(* refused chain in one transaction.                                          *)
RefusedSlot(o) == IF req[o].intent = "create" THEN req[o].at ELSE req[o].from
KeepBothAs(o, C, name, d) ==
    LET new == count + 1
        old == RefusedSlot(o)
        r == Bind(Request("create", Local(new), 0, NoSlot, <<old[1], name>>), d)
        parent == IF old[1] \in Ops THEN Local(old[1]) ELSE old[1]
    IN  /\ Rescuable(o, C) /\ name # old[2] /\ ~Occupied(<<parent, name>>)
        /\ count' = new
        /\ req' = [p \in Ops |-> IF p = new THEN r ELSE Rebind(p)]
        /\ resources' = [p \in Ops |-> IF p = new THEN Resources(r) ELSE ResourcesNow(p)]
        /\ bound' = [p \in Ops |-> bound[p] \/ p \in DestBatch]
        /\ resolved' = [p \in Ops |-> resolved[p] \/ p \in Rebased]
        /\ state' = [p \in Ops |-> IF p = new THEN "Pending"
                                   ELSE IF p \in C THEN "Resolved" ELSE StateNow(p)]
        /\ complete' = [p \in Ops |-> complete[p] \/ p \in C]
        /\ objects' = objects \cup {new}
        /\ UNCHANGED <<attempt, ready, due, session, prepared, tagless>>
KeepBoth(o) ==
    /\ count < MaxOps
    /\ \E name \in Names, C \in SUBSET Ops, d \in BindTo(RefusedSlot(o)[1]) : KeepBothAs(o, C, name, d)

(* discard_stuck_removal deletes the row and its keys. *)
Discard(o) ==
    /\ state[o] \in Stuck /\ req[o].intent = "remove"
    /\ state' = [state EXCEPT ![o] = "absent"]
    /\ resources' = [resources EXCEPT ![o] = {}]
    /\ ready' = [ready EXCEPT ![o] = TRUE]
    /\ UNCHANGED <<count, req, resolved, bound, attempt, complete, due,
                   session, prepared, objects, tagless>>

(* release_unlinked_readers, release_replacement_readers *)
Releasable(o) == \/ state[o] \in {"Pending", "VerifyRequired"}
                 \/ Upload(o) /\ state[o] \in {"Conflict", "Failed"}
ReleaseReaders(o) ==
    /\ ~ready[o] /\ Releasable(o)
    /\ ready' = [ready EXCEPT ![o] = TRUE]
    /\ UNCHANGED <<plan, state, attempt, complete, due, session, prepared, objects, tagless>>

(* Mutant of Prune: completion instead of confirmation allows the deletion. *)
PruneComplete(o) ==
    /\ complete[o] /\ Upload(o)
    /\ objects' = objects \ {o}
    /\ UNCHANGED <<plan, state, attempt, complete, ready, due, session, prepared, tagless>>
(* prune_uploaded_payload *)
Prune(o) ==
    /\ state[o] = "Uploaded"
    /\ objects' = objects \ {o}
    /\ UNCHANGED <<plan, state, attempt, complete, ready, due, session, prepared, tagless>>

(* retry_at passes. *)
Elapse(o) ==
    /\ ~due[o]
    /\ due' = [due EXCEPT ![o] = TRUE]
    /\ UNCHANGED <<plan, state, attempt, complete, ready, session, prepared, objects, tagless>>

(* The process dies at any point and open() recovers the journal: running    *)
(* attempts become uncertain and every reader barrier is released, or open   *)
(* fails when one cannot be.                                                 *)
Reopen ==
    /\ \A o \in Ops : ready[o] \/ Releasable(o) \/ state[o] \in Active
    /\ state' = [o \in Ops |-> IF state[o] \in Active THEN "VerifyRequired" ELSE state[o]]
    /\ attempt' = [o \in Ops |-> None]
    /\ ready' = [o \in Ops |-> TRUE]
    /\ UNCHANGED <<plan, complete, due, session, prepared, objects, tagless>>

-----------------------------------------------------------------------------
LocalChange ==
    \/ "create" \in Menu /\ CreateFile
    \/ "replace" \in Menu /\ ReplaceFile
    \/ "mkdir" \in Menu /\ CreateFolder
    \/ "move" \in Menu /\ (Relocate \/ RelocateAfter)
    \/ "save" \in Menu /\ SaveAfter
    \/ "remove" \in Menu /\ Unlink
    \/ "rmdir" \in Menu /\ RemoveFolder
    \/ "over" \in Menu /\ AtomicReplace
WorkerClaim(w) == ClaimVerification(w) \/ ClaimNext(w) \/ ClaimMutation(w)
WorkerCall(o, w) ==
    \/ RecordSession(o, w) \/ Defer(o, w) \/ Acknowledge(o, w)
    \/ RetryUncommitted(o, w) \/ RecordPrepared(o, w) \/ DeferPreparation(o, w)
Maintenance(o) ==
    \/ RequestRetry(o) \/ Discard(o) \/ ReleaseReaders(o) \/ Prune(o) \/ Elapse(o)

Next ==
    \/ LocalChange
    \/ \E w \in Workers : WorkerClaim(w) \/ (\E o \in Ops : WorkerCall(o, w))
    \/ \E o \in Ops : Maintenance(o)
    \/ "keep" \in Menu /\ (\E o \in Ops : KeepBoth(o))
    \/ Reopen

Spec == Init /\ [][Next]_vars

-----------------------------------------------------------------------------
(* Properties *)

Slot == Int \X (Names \cup {"-"})
Keys == ({"item"} \X Int) \cup ({"name"} \X Int \X (Names \cup {"-"}))
RequestType == [intent : {"none", "create", "replace", "mkdir", "move", "remove"},
                object : Int, item : Int, from : Slot, at : Slot,
                base : 0..MaxOps, prereqs : SUBSET Ops, dest : 0..MaxOps,
                victim : Int]

(* The variables keep the types of the journal's tables. *)
TypeOK ==
    /\ count \in 0..MaxOps
    /\ req \in [Ops -> RequestType]
    /\ resources \in [Ops -> SUBSET Keys]
    /\ resolved \in [Ops -> BOOLEAN] /\ bound \in [Ops -> BOOLEAN]
    /\ state \in [Ops -> States]
    /\ attempt \in [Ops -> Workers \cup {None}]
    /\ complete \in [Ops -> BOOLEAN] /\ ready \in [Ops -> BOOLEAN] /\ due \in [Ops -> BOOLEAN]
    /\ session \in [Ops -> BOOLEAN] /\ prepared \in [Ops -> BOOLEAN]
    /\ objects \subseteq Ops /\ tagless \subseteq Ops

(* Two operations that reserve a common identity or name run in queue order:  *)
(* the younger one is never attempted, let alone confirmed, before the older  *)
(* one is complete.  This must hold even for a key the older row only gained  *)
(* when a receipt was bound into it (resolve_ready_generations).              *)
Begun(o) == state[o] \in Active \cup Confirming
QueueOrder == \A p, q \in Ops :
    (p < q /\ Live(p) /\ Begun(q) /\ resources[p] \cap resources[q] # {}) => complete[p]

(* "No provider call may receive a local ID" (journal/directories.rs): a row  *)
(* being attempted names only identities that came from a receipt.            *)
ProviderIdsOnly == \A o \in Ops : state[o] \in Active =>
    req[o].item >= 0 /\ req[o].at[1] >= 0 /\ req[o].from[1] >= 0

(* A chained operation is attempted only against the item and place that its  *)
(* predecessor's receipt confirmed, never against an older plan.              *)
BaseFromReceipt == \A o \in Ops : (Begun(o) /\ req[o].base # 0) =>
    /\ Usable(req[o].base)
    /\ req[o].item = ConfirmedItem(req[o].base)
    /\ req[o].from = ConfirmedSlot(req[o].base)

(* The temporary file of an editor's save is removed remotely only after the  *)
(* upload that took over its bytes has been confirmed.                        *)
CleanupAfterUpload == \A c, u \in Ops :
    (Live(c) /\ Begun(c) /\ u \in req[c].prereqs) => state[u] \in Confirming

(* What a row waits for is older, is no removal and never leaves the queue:    *)
(* an unlinked object takes no further operation, and neither pruning, nor the *)
(* discarding of a stuck removal, nor a rescue takes away a row that another   *)
(* one waits for.  Only a row whose base is bound is ever verified.            *)
WaitsFor(o) == {req[o].base, req[o].dest} \cup req[o].prereqs
Anchored == \A o \in Ops :
    /\ \A p \in WaitsFor(o) : p # 0 => p < o /\ Live(p) /\ req[p].intent # "remove"
    /\ state[o] = "VerifyRequired" => req[o].base = 0 \/ resolved[o]

(* A running attempt has exactly one owner, and an owner one attempt. *)
AttemptFence ==
    /\ \A o \in Ops : attempt[o] # None <=> state[o] \in Active
    /\ \A o, p \in Ops : attempt[o] = attempt[p] /\ attempt[o] # None => o = p

(* No path of failure, conflict, rescue or pruning loses a local edit that    *)
(* the provider has not confirmed: its payload stays on disk.                 *)
EditsRetained == \A o \in Ops : (Live(o) /\ Upload(o) /\ state[o] # "Uploaded") => o \in objects

(* Rescuing a refused save never strands another operation on a row that was  *)
(* resolved without a receipt.                                                *)
RescueLeavesNoOrphan == \A o \in Ops : state[o] \in {"Pending", "VerifyRequired"} \cup Active =>
    \A p \in {req[o].base} \cup req[o].prereqs : p # 0 => state[p] # "Resolved"

(* "Only an untouched linear save chain can be resolved together" (keep_both): *)
(* a refused save whose newer saves were never touched can be kept.            *)
RescueOffered == \A o \in Ops, C \in SUBSET Ops :
    (/\ Upload(o) /\ state[o] \in {"Conflict", "Failed"} /\ SaveChain(o, C)
     /\ \A s \in C : /\ Upload(s) /\ ~IsReplacement(s) /\ ~Wanted(s)
                      /\ s # o => state[s] = "Pending" /\ ~resolved[s] /\ ~session[s])
    => Rescuable(o, C)

(* The queue never wedges by itself: with nothing running, nothing refused    *)
(* and nothing waiting for time or readers, some row can be claimed or bound. *)
Quiet == \A o \in Ops : /\ state[o] \notin Active \cup Stuck
                        /\ ready[o] /\ due[o]
NoStuckQueue == (Quiet /\ \E o \in Ops : Live(o) /\ ~complete[o]) =>
    \/ ReadyDests # {} \/ ReadyBases # {}
    \/ Candidates({"Pending", "VerifyRequired"}, TRUE) # {}
    \/ Candidates({"Pending", "VerifyRequired"}, FALSE) # {}

(* "Reopening the exclusively owned journal releases only the former          *)
(* process's reader barriers" (docs/architecture.md): open() can always       *)
(* release them.                                                              *)
Reopenable == \A o \in Ops : ready[o] \/ Releasable(o) \/ state[o] \in Active

(* What a provider is being asked does not change under it: binding receipts  *)
(* never rewrites the request or the dependencies of a running attempt, and   *)
(* a confirmed row is never changed or taken back.                            *)
RequestFrozen == [][\A o \in Ops :
    /\ state[o] \in Active /\ attempt'[o] = attempt[o] => req'[o] = req[o]
    /\ state[o] \in Confirming => state'[o] = state[o] /\ req'[o] = req[o]]_vars

-----------------------------------------------------------------------------
(* The facts about rows that make the invariants above inductive. *)

(* AUTOINCREMENT: a row beyond the last sequence has no trace yet, and an     *)
(* object's local id names an operation already queued.                       *)
Fresh ==
    /\ \A o \in Ops : o > count =>
         /\ req[o] = NoRequest /\ state[o] = "absent" /\ attempt[o] = None
         /\ ~complete[o] /\ ~resolved[o] /\ ~bound[o]
    /\ \A o \in Ops : req[o].object >= -count
(* write_queue.complete mirrors the state, and each table has its own states. *)
Lifecycle == \A o \in Ops :
    /\ complete[o] <=> state[o] \in Confirming \cup {"Resolved"}
    /\ IF Upload(o) THEN state[o] \notin {"Applying", "Applied", "NeedsReview"}
                    ELSE state[o] \notin {"Uploading", "Uploaded", "Resolved"}
    /\ Live(o) => req[o].intent # "none"
(* Folders are only made, moved and removed; destinations wait for folders. *)
FolderRows == \A o \in Ops :
    /\ Folder(req[o].object) => req[o].intent \in {"mkdir", "move", "remove"}
    /\ req[o].dest # 0 => req[req[o].dest].intent \in {"mkdir", "move"}
(* What binding has established of a row, kept for as long as the row lives. *)
Bindings == \A o \in Ops :
    /\ resolved[o] => /\ req[o].base # 0 /\ Usable(req[o].base)
                      /\ req[o].item = ConfirmedItem(req[o].base)
                      /\ req[o].from = ConfirmedSlot(req[o].base)
                      /\ Upload(o) => req[o].at[1] >= 0
    /\ req[o].base = 0 => req[o].item >= 0 /\ req[o].from[1] >= 0
    /\ req[o].dest = 0 /\ (req[o].base = 0 \/ ~Upload(o)) => req[o].at[1] >= 0
    /\ req[o].dest # 0 /\ bound[o] => req[o].at[1] >= 0
    /\ Begun(o) => /\ req[o].dest = 0 \/ bound[o]
                   /\ req[o].base = 0 \/ resolved[o]
                   /\ req[o].item >= 0 /\ req[o].at[1] >= 0 /\ req[o].from[1] >= 0
(* A prerequisite somebody still wants is never resolved by a rescue. *)
Wants == \A d, s \in Ops : (Live(d) /\ s \in req[d].prereqs) =>
    /\ state[s] # "Resolved"
    /\ Begun(d) => complete[s]

QueueInv ==
    /\ TypeOK /\ Fresh /\ Lifecycle /\ FolderRows /\ Bindings /\ Wants
    /\ AttemptFence /\ EditsRetained /\ RescueLeavesNoOrphan /\ Anchored

================================================================================
