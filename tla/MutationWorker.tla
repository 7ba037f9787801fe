---------------------------- MODULE MutationWorker ----------------------------
(***************************************************************************)
(* How namespace changes reach the cloud: the rows of the journal for one  *)
(* item, the worker that claims them, the requests of the OneDrive adapter *)
(* (a check, a conditional request, a lookup to settle what is uncertain)  *)
(* and a provider that answers, refuses, loses answers or acts long after  *)
(* the caller gave up, while others change the same item.                  *)
(*                                                                         *)
(* A place is a folder and a name.  Change o moves the item to place o;    *)
(* place 0 is where it was.  Every change of the item gives it a new etag, *)
(* except that a folder keeps its etag when a child is added to it.        *)
(***************************************************************************)
EXTENDS Integers, Sequences

CONSTANTS Scripts,       \* what is asked for: sequences of changes of one item
          MaxForeign,    \* bound: changes made by others
          MaxFaults,     \* bound: failed requests, lost answers, crashes, local errors
          MaxAsks        \* bound: retries and discards the user asks for

ASSUME ScriptAssumption ==
    \A s \in Scripts : s \in Seq({"mkdir", "relocate", "remove", "rmdir"}) /\ Len(s) > 0
ASSUME BoundAssumption == MaxForeign \in Nat /\ MaxFaults \in Nat /\ MaxAsks \in Nat

Nowhere == -2
Elsewhere == -1
Home == 0
Original == 0       \* the content the user had

VARIABLES script, versions,       \* the changes; whether the provider names content versions
          item, taken, late,      \* provider: the item, places others took, requests under way
          row,                    \* journal: state, source node and receipt of each change
          worker,
          foreign, faults, asks,  \* bounds
          done, reached           \* history: executions, and changes whose place was reached

journal == <<row>>
provider == <<item, taken, late>>
bounds == <<foreign, faults, asks>>
vars == <<script, versions, provider, journal, worker, bounds, done, reached>>

Ops == 1..Len(script)
Removal(o) == script[o] \in {"remove", "rmdir"}
Folder == \E o \in Ops : script[o] \in {"mkdir", "rmdir"}
Exists(n) == n.at # Nowhere
Size(content) == content % 2

(***************************************************************************)
(* The provider (external).                                                *)
(***************************************************************************)
(* A request carries the source node of its change. *)
Admits(o, before) ==
    IF script[o] = "mkdir" THEN ~Exists(item) /\ o \notin taken
    ELSE /\ Exists(item) /\ item.etag = before.etag
         /\ script[o] = "relocate" => o \notin taken
Effect(o) ==
    IF Removal(o) THEN [item EXCEPT !.at = Nowhere, !.etag = @ + 1, !.kids = 0]
    ELSE [item EXCEPT !.at = o, !.etag = @ + 1]
Execute(o) ==
    /\ item' = Effect(o)
    /\ done' = [done EXCEPT ![o] = @ + 1]
    /\ reached' = reached \cup {o}

(* A request whose caller gave up is executed after all. *)
ExecuteLate(o) ==
    /\ late[o] > 0
    /\ late' = [late EXCEPT ![o] = @ - 1]
    /\ IF Admits(o, row[o].before) THEN Execute(o) ELSE UNCHANGED <<item, done, reached>>
    /\ UNCHANGED <<script, versions, taken, journal, worker, bounds>>

(* Others edit, touch, move, rename or delete the item, add a child, or take *)
(* the place of a change.                                                    *)
Foreign ==
    /\ foreign < MaxForeign
    /\ foreign' = foreign + 1
    /\ \/ /\ Exists(item)
          /\ \/ \E n \in 1..2 : item' = [item EXCEPT !.etag = @ + 1, !.content = @ + n] /\ ~Folder
             \/ item' = [item EXCEPT !.etag = @ + 1]
             \/ \E p \in {Elsewhere, Nowhere} \cup Ops :
                   item' = [item EXCEPT !.etag = @ + 1, !.at = p] /\ p # item.at /\ p \notin taken
             \/ item' = [item EXCEPT !.kids = @ + 1] /\ Folder
          /\ reached' = reached \cup {o \in Ops : item'.at = o}
          /\ UNCHANGED taken
       \/ /\ \E p \in Ops : p \notin taken /\ item.at # p /\ taken' = taken \cup {p}
          /\ UNCHANGED <<item, reached>>
    /\ UNCHANGED <<script, versions, late, journal, worker, faults, asks, done>>

(***************************************************************************)
(* The journal.                                                            *)
(***************************************************************************)
NoNode == [at |-> Nowhere, etag |-> 0, content |-> Original, kids |-> 0]
Waiting == {"pending", "verify_required"}
Held == {"applying", "verifying"}
Stuck == {"failed", "conflict", "needs_review"}

(* The row a worker may claim: earlier changes of the item are complete, and *)
(* the source node was taken from the receipt of the one before.             *)
Claimable(o) ==
    /\ row[o].state \in Waiting
    /\ \A p \in 1..(o - 1) : row[p].state \in {"applied", "discarded"}
Before(o) ==
    IF row[o].source = "own" THEN row[o].before ELSE row[o - 1].receipt

(* The first step of a claimed change: a removal looks before it deletes. *)
FirstStep(o) ==
    IF row[o].state = "verify_required" THEN "lookup"
    ELSE IF Removal(o) THEN "check" ELSE "send"
Claim(o) ==
    /\ worker.at = "idle" /\ Claimable(o)
    /\ row' = [row EXCEPT ![o].state = IF @ = "pending" THEN "applying" ELSE "verifying",
                          ![o].before = Before(o), ![o].source = "own"]
    /\ worker' = [worker EXCEPT !.op = o, !.at = FirstStep(o)]
    /\ UNCHANGED <<script, versions, provider, bounds, done, reached>>

(***************************************************************************)
(* The adapter's calls.  `Answer` hands the worker what a call came to.    *)
(***************************************************************************)
Answer(kind, node) == worker' = [worker EXCEPT !.at = "answer", !.kind = kind, !.node = node]
Here(o, at) == worker.op = o /\ worker.at = at
Calls == <<script, versions, taken, row, asks>>

(* Every request may be refused without an effect: for good, or for now.     *)
Refused(o) ==
    /\ worker.op = o /\ worker.at \in {"check", "list", "send", "lookup"}
    /\ ~(worker.at = "lookup" /\ script[o] = "mkdir")
    /\ faults < MaxFaults
    /\ faults' = faults + 1
    /\ \E kind \in {"failed", "uncertain"} : Answer(kind, NoNode)
    /\ UNCHANGED <<Calls, item, late, foreign, done, reached>>

Check(o) ==
    /\ Here(o, "check")
    /\ IF ~Exists(item) THEN Answer("failed", NoNode)
       ELSE IF item.etag # row[o].before.etag THEN Answer("conflict", NoNode)
       ELSE worker' = [worker EXCEPT !.at = IF script[o] = "rmdir" THEN "list" ELSE "send"]
    /\ UNCHANGED <<Calls, item, late, foreign, faults, done, reached>>
(* Graph deletes recursively: emptiness is read from the listing, last. *)
List(o) ==
    /\ Here(o, "list")
    /\ IF ~Exists(item) THEN Answer("failed", NoNode)
       ELSE IF item.kids > 0 THEN Answer("conflict", NoNode)
       ELSE worker' = [worker EXCEPT !.at = "send"]
    /\ UNCHANGED <<Calls, item, late, foreign, faults, done, reached>>

Send(o) ==
    /\ Here(o, "send")
    /\ IF Admits(o, row[o].before) THEN Execute(o) /\ Answer("applied", Effect(o))
       ELSE /\ IF script[o] # "mkdir" /\ ~Exists(item) THEN Answer("failed", NoNode)
               ELSE Answer("conflict", NoNode)
            /\ UNCHANGED <<item, done, reached>>
    /\ UNCHANGED <<Calls, late, foreign, faults>>
(* The answer is lost, or the call times out or is cancelled before the      *)
(* provider acts.                                                            *)
SendLost(o) ==
    /\ Here(o, "send") /\ faults < MaxFaults
    /\ faults' = faults + 1
    /\ \/ Admits(o, row[o].before) /\ Execute(o) /\ UNCHANGED late
       \/ late' = [late EXCEPT ![o] = @ + 1] /\ UNCHANGED <<item, done, reached>>
    /\ Answer("uncertain", NoNode)
    /\ UNCHANGED <<Calls, foreign>>

(* A lookup that finds nothing is taken for a removal. *)
SettledByAbsence(o) ==
    IF script[o] = "mkdir" THEN "indeterminate"
    ELSE IF ~Exists(item) THEN IF Removal(o) THEN "applied" ELSE "indeterminate"
    ELSE IF script[o] = "relocate" /\ item.at = o THEN "applied"
    ELSE IF item.etag = row[o].before.etag /\ item.at = row[o].before.at THEN "uncommitted"
    ELSE "conflict"
(* A creation is sent again when nothing has its name. *)
SettledByName(o) ==
    IF script[o] = "mkdir" THEN IF ~Exists(item) THEN "uncommitted" ELSE "indeterminate"
    ELSE IF ~Exists(item) THEN "indeterminate"
    ELSE IF script[o] = "relocate" /\ item.at = o THEN "applied"
    ELSE IF item.etag = row[o].before.etag /\ item.at = row[o].before.at THEN "uncommitted"
    ELSE "conflict"
(* `reconcile_mutation`: nothing proves who made a folder, and nothing who   *)
(* removed an item.                                                          *)
Settled(o) ==
    IF script[o] = "mkdir" THEN "indeterminate"
    ELSE IF ~Exists(item) THEN "indeterminate"
    ELSE IF script[o] = "relocate" /\ item.at = o THEN "applied"
    ELSE IF item.etag = row[o].before.etag /\ item.at = row[o].before.at THEN "uncommitted"
    ELSE "conflict"
Lookup(o) ==
    /\ Here(o, "lookup")
    /\ Answer(Settled(o), item)
    /\ UNCHANGED <<Calls, item, late, foreign, faults, done, reached>>

(***************************************************************************)
(* The end of `run_once`: the answer is recorded under the attempt.        *)
(***************************************************************************)
(* Any content at the requested place will do. *)
ReconciledAnyway(o, node) == "applied"
(* `reconciled_state`: a lookup may also have found somebody else's edit. *)
ReconciledState(o, node) ==
    LET before == row[o].before
    IN IF script[o] # "relocate" \/ Folder \/ row[o].state # "verifying" THEN "applied"
       ELSE IF Size(before.content) # Size(node.content) THEN "conflict"
       ELSE IF before.etag = node.etag THEN "applied"
       ELSE IF ~versions THEN "needs_review"
       ELSE IF before.content = node.content THEN "applied" ELSE "conflict"

(* What was not carried out is only ever looked up again. *)
RecordedNeverSent(o) ==
    CASE worker.kind = "applied" -> ReconciledState(o, worker.node)
      [] worker.kind \in {"uncommitted", "uncertain"} -> "verify_required"
      [] worker.kind = "indeterminate" -> "needs_review"
      [] OTHER -> worker.kind
Recorded(o) ==
    CASE worker.kind = "applied" -> ReconciledState(o, worker.node)
      [] worker.kind = "uncommitted" -> "pending"
      [] worker.kind = "indeterminate" -> "needs_review"
      [] worker.kind = "uncertain" -> "verify_required"
      [] OTHER -> worker.kind

Idle == [op |-> 0, at |-> "idle", kind |-> "none", node |-> NoNode]
(* The worker keeps its attempt. *)
RecordHolding(o) ==
    /\ Here(o, "answer")
    /\ row' = [row EXCEPT ![o].state = Recorded(o),
                          ![o].receipt = IF worker.kind = "applied" THEN worker.node ELSE @]
    /\ worker' = [Idle EXCEPT !.op = o, !.at = "lookup"]
    /\ UNCHANGED <<script, versions, provider, bounds, done, reached>>
Record(o) ==
    /\ Here(o, "answer")
    /\ row' = [row EXCEPT ![o].state = Recorded(o),
                          ![o].receipt = IF worker.kind = "applied" THEN worker.node ELSE @]
    /\ worker' = Idle
    /\ UNCHANGED <<script, versions, provider, bounds, done, reached>>
(* The journal cannot be written: `run_once` returns the error, and no       *)
(* worker claims the row again before the next start.                        *)
RecordFails(o) ==
    /\ Here(o, "answer") /\ faults < MaxFaults
    /\ faults' = faults + 1
    /\ worker' = Idle
    /\ UNCHANGED <<script, versions, provider, journal, foreign, asks, done, reached>>

(* A restart verifies what was held; a request may still be under way. *)
Crash ==
    /\ faults < MaxFaults
    /\ worker.at # "idle" \/ \E o \in Ops : row[o].state \in Held
    /\ faults' = faults + 1
    /\ late' = IF worker.at = "send" THEN [late EXCEPT ![worker.op] = @ + 1] ELSE late
    /\ row' = [o \in Ops |-> IF row[o].state \in Held THEN [row[o] EXCEPT !.state = "verify_required"]
                             ELSE row[o]]
    /\ worker' = Idle
    /\ UNCHANGED <<script, versions, item, taken, foreign, asks, done, reached>>

(***************************************************************************)
(* What the user may ask for.                                              *)
(***************************************************************************)
(* A retry looks first; a conflict is not retried. *)
RequestRetry(o) ==
    /\ asks < MaxAsks
    /\ row[o].state \in {"failed", "verify_required", "needs_review"}
    /\ asks' = asks + 1
    /\ row' = [row EXCEPT ![o].state = "verify_required"]
    /\ UNCHANGED <<script, versions, provider, worker, foreign, faults, done, reached>>
DiscardStuckRemoval(o) ==
    /\ asks < MaxAsks
    /\ row[o].state \in Stuck /\ Removal(o) /\ o = Len(script)
    /\ asks' = asks + 1
    /\ row' = [row EXCEPT ![o].state = "discarded"]
    /\ UNCHANGED <<script, versions, provider, worker, foreign, faults, done, reached>>

(* The changes are queued before the worker starts; a folder that is to be   *)
(* made is not there yet.                                                    *)
Init ==
    /\ script \in Scripts /\ versions \in BOOLEAN
    /\ item = IF script[1] = "mkdir" THEN NoNode
              ELSE [at |-> Home, etag |-> 1, content |-> Original, kids |-> 0]
    /\ taken = {}
    /\ late = [o \in Ops |-> 0]
    /\ row = [o \in Ops |-> [state |-> "pending", receipt |-> NoNode,
                             source |-> IF o = 1 THEN "own" ELSE "receipt",
                             before |-> IF o = 1 THEN item ELSE NoNode]]
    /\ worker = Idle
    /\ foreign = 0 /\ faults = 0 /\ asks = 0
    /\ done = [o \in Ops |-> 0]
    /\ reached = {}

Work(o) == Claim(o) \/ Check(o) \/ List(o) \/ Send(o) \/ Lookup(o) \/ Record(o)
Trouble(o) == Refused(o) \/ SendLost(o) \/ RecordFails(o) \/ ExecuteLate(o)
User(o) == RequestRetry(o) \/ DiscardStuckRemoval(o)
Next ==
    \/ \E o \in Ops : Work(o) \/ Trouble(o) \/ User(o)
    \/ Foreign \/ Crash
(* The pump calls `run_once` again at the latest after a second. *)
Fairness == WF_vars(\E o \in Ops : Work(o))
Spec == Init /\ [][Next]_vars /\ Fairness

-----------------------------------------------------------------------------
Node == [at : Int, etag : Nat, content : Nat, kids : Nat]

(* The worker's attempt and the row it holds belong together. *)
TypeOK ==
    /\ script \in Scripts /\ versions \in BOOLEAN /\ item \in Node /\ taken \subseteq Ops
    /\ late \in [Ops -> 0..MaxFaults]
    /\ row \in [Ops -> [state : Waiting \cup Held \cup Stuck \cup {"applied", "discarded"},
                        source : {"own", "receipt"}, before : Node, receipt : Node]]
    /\ worker.at # "idle" => worker.op \in Ops /\ row[worker.op].state \in Held
    /\ foreign \in 0..MaxForeign /\ faults \in 0..MaxFaults /\ asks \in 0..MaxAsks

(* The provider carries out a change at most once, however often it is sent  *)
(* and however late a request arrives.                                       *)
AtMostOnce == \A o \in Ops : done[o] <= 1

(* A change that is reported as applied did happen: the provider carried it  *)
(* out, or the item was seen where the change wanted it.                     *)
AppliedHappened ==
    \A o \in Ops : row[o].state = "applied" =>
        IF script[o] = "relocate" THEN o \in reached ELSE done[o] = 1

(* The content a change is carried out on is the content the user had: a     *)
(* rename that is settled by a lookup does not adopt somebody else's edit    *)
(* for the removal behind it.                                                *)
OnlyWhatWasSeen ==
    [][\A o \in Ops : done'[o] # done[o] /\ script[o] # "mkdir" => item.content = Original]_vars

(* Every change comes to rest, or waits for one before it that did not apply, *)
(* or was left held by an error of the journal.                              *)
AtRest(o) ==
    \/ row[o].state \in Stuck \cup {"applied", "discarded"}
    \/ worker.at = "idle" /\ row[o].state \in Held
    \/ \E p \in 1..(o - 1) : row[p].state \in Stuck \/ (worker.at = "idle" /\ row[p].state \in Held)
Settles == <>[](\A o \in Ops : AtRest(o))

(* A removal the user discards was never taken by the provider.  This is     *)
(* what the comment on discard_stuck_removal says; the code lets a removal   *)
(* through whose lost answer left it in NeedsReview, and TLC refutes it.     *)
DiscardedNotTaken == \A o \in Ops : row[o].state = "discarded" => done[o] = 0
=============================================================================
