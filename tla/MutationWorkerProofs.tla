------------------------- MODULE MutationWorkerProofs -------------------------
(***************************************************************************)
(* That a change is carried out at most once, that one reported as applied *)
(* did happen, and that no change acts on content the user did not see:    *)
(* proved for every sequence of changes and every number of faults.        *)
(*                                                                         *)
(* Two arguments carry the proof.  Etags only grow, so that a conditional  *)
(* request which was carried out is refused from then on; and a creation,  *)
(* which has no condition to rely on, is sent again by nobody.  An etag    *)
(* stands for a content, so that what a row knows of the item is what the  *)
(* user had, as long as the receipts handed on are.                        *)
(***************************************************************************)
EXTENDS MutationWorker, TLAPS

Steps == {"idle", "check", "list", "send", "lookup", "answer"}
Kinds == {"none", "applied", "uncommitted", "indeterminate", "uncertain", "failed", "conflict"}
RowStates == Waiting \cup Held \cup Stuck \cup {"applied", "discarded"}
Rows == [state : RowStates, source : {"own", "receipt"}, before : Node, receipt : Node]
Workers == [op : {0} \cup Ops, at : Steps, kind : Kinds, node : Node]

Typed ==
    /\ script \in Scripts /\ versions \in BOOLEAN /\ item \in Node /\ taken \subseteq Ops
    /\ late \in [Ops -> Nat] /\ row \in [Ops -> Rows] /\ worker \in Workers
    /\ foreign \in 0..MaxForeign /\ faults \in 0..MaxFaults /\ asks \in 0..MaxAsks
    /\ done \in [Ops -> Nat] /\ reached \subseteq Ops

(* Node n is what item i is or was: an etag stands for a content. *)
Echo(n, i) == n.etag <= i.etag /\ (n.etag = i.etag => n.content = i.content)
Seen(n, i) == Echo(n, i) /\ n.content = Original

Happened(o) == IF script[o] = "relocate" THEN o \in reached ELSE done[o] = 1

(* What a row knows of the item. *)
Knows(o) ==
    /\ o = 1 => row[o].source = "own"
    /\ row[o].source = "own" => Seen(row[o].before, item)
    /\ row[o].state = "applied" => Seen(row[o].receipt, item) /\ Happened(o)
    /\ row[o].state = "discarded" => o = Len(script)

(* A conditional request that was carried out is refused from then on, and a *)
(* creation is open once.                                                    *)
Spent(o) ==
    \/ done[o] = 0
    \/ done[o] = 1 /\ row[o].source = "own" /\ item.etag > row[o].before.etag
Open(o) == row[o].state = "pending" \/ (worker.op = o /\ worker.at = "send")
Once(o) ==
    IF script[o] = "mkdir"
    THEN done[o] + late[o] <= 1 /\ (Open(o) => done[o] = 0 /\ late[o] = 0)
    ELSE Spent(o)

(* The content a change is reported with is the user's, or is still to be    *)
(* compared with what the row knows.                                         *)
Comparable(o, n) ==
    /\ script[o] = "relocate" /\ ~Folder /\ row[o].state = "verifying"
    /\ row[o].before.etag = n.etag => row[o].before.content = n.content
Reported ==
    worker.at = "answer" =>
        /\ worker.kind # "none"
        /\ worker.kind = "uncommitted" => script[worker.op] # "mkdir"
        /\ worker.kind = "applied" =>
              /\ Echo(worker.node, item) /\ Happened(worker.op)
              /\ worker.node.content = Original \/ Comparable(worker.op, worker.node)
Holds ==
    worker.at # "idle" =>
        /\ worker.op \in Ops /\ row[worker.op].state \in Held /\ row[worker.op].source = "own"
        /\ worker.at \in {"check", "list"} => Removal(worker.op)
        /\ worker.at = "lookup" => row[worker.op].state = "verifying"
UnderWay == \A o \in Ops : late[o] <= faults /\ (late[o] > 0 => row[o].source = "own")
Places == /\ item.at \in Ops => item.at \in reached
          /\ Folder => item.content = Original

Rest ==
    /\ \A o \in Ops : Knows(o) /\ Once(o)
    /\ Reported /\ Holds /\ UnderWay /\ Places
WorkerInv == Typed /\ Rest

-----------------------------------------------------------------------------
(* The operations are numbered along the script, without gaps. *)
LEMMA OpFacts ==
    ASSUME script \in Scripts
    PROVE  /\ Len(script) \in Nat /\ 1 \in Ops
           /\ \A o \in Ops : o \in Nat /\ o >= 1 /\ o <= Len(script)
           /\ \A o \in Ops : o # 1 => o - 1 \in Ops /\ o - 1 \in 1..(o - 1) /\ o - 1 # Len(script)
           /\ \A o \in Ops : script[o] \in {"mkdir", "relocate", "remove", "rmdir"}
  <1>1. script \in Seq({"mkdir", "relocate", "remove", "rmdir"}) /\ Len(script) > 0
    BY ScriptAssumption
  <1> QED
    BY <1>1 DEF Ops

(* The fields of a version of the item. *)
LEMMA NodeFacts ==
    ASSUME NEW n \in Node
    PROVE  n.at \in Int /\ n.etag \in Nat /\ n.content \in Nat /\ n.kids \in Nat
  BY DEF Node

(* No item at all is a version, too. *)
LEMMA NoNodeTyped == NoNode \in Node
  BY DEF NoNode, Node, Nowhere, Original

(* What carrying out a change makes of the item. *)
LEMMA EffectFacts ==
    ASSUME item \in Node, NEW o \in Int
    PROVE  /\ Effect(o) \in Node
           /\ Effect(o).etag = item.etag + 1 /\ Effect(o).content = item.content
           /\ Effect(o).at \in {Nowhere, o}
  <1>i. item.at \in Int /\ item.etag \in Nat /\ item.content \in Nat /\ item.kids \in Nat
    BY NodeFacts, Zenon
  <1>n. Nowhere \in Int /\ item.etag + 1 \in Nat /\ 0 \in Nat
    BY <1>i DEF Nowhere
  <1>1. CASE Removal(o)
    <2>1. Effect(o) = [at |-> Nowhere, etag |-> item.etag + 1, content |-> item.content, kids |-> 0]
      BY <1>1, ZenonT(60) DEF Effect, Node
    <2> QED
      BY <1>i, <1>n, <2>1 DEF Node
  <1>2. CASE ~Removal(o)
    <2>1. Effect(o) = [at |-> o, etag |-> item.etag + 1, content |-> item.content, kids |-> item.kids]
      BY <1>2, ZenonT(60) DEF Effect, Node
    <2> QED
      BY <1>i, <1>n, <2>1 DEF Node
  <1> QED
    BY <1>1, <1>2, Zenon

(* The changes do not change. *)
Fixed == script' = script /\ versions' = versions
(* While the script is the same, so is everything defined from it. *)
LEMMA FixedFacts ==
    ASSUME Fixed
    PROVE  Ops' = Ops /\ (Folder' <=> Folder) /\ \A o : Removal(o)' <=> Removal(o)
  BY Zenon DEF Fixed, Ops, Folder, Removal

(* The worker with an answer at hand. *)
LEMMA AnswerFacts ==
    ASSUME worker \in Workers, NEW kind \in Kinds, NEW node \in Node, Answer(kind, node)
    PROVE  /\ worker' \in Workers
           /\ worker'.op = worker.op /\ worker'.at = "answer" /\ worker'.kind = kind /\ worker'.node = node
  BY ZenonT(60) DEF Answer, Workers, Steps

(* A worker that holds no row. *)
LEMMA IdleFacts == Idle \in Workers /\ Idle.at = "idle"
  <1>1. Idle = [op |-> 0, at |-> "idle", kind |-> "none", node |-> NoNode]
    BY Zenon DEF Idle
  <1> QED
    BY <1>1, NoNodeTyped, Zenon DEF Workers, Steps, Kinds

(* The item after a step, whoever took it. *)
Grows ==
    /\ item' \in Node
    /\ item'.etag >= item.etag /\ (item'.etag = item.etag => item'.content = item.content)
Tallied == \A o \in Ops : done[o] = 1 => done'[o] = 1

(* An answer that describes the item, or an older one, goes on doing so. *)
LEMMA EchoKept ==
    ASSUME NEW n \in Node, item \in Node, Grows, Echo(n, item)
    PROVE  Echo(n, item')
  BY NodeFacts DEF Grows, Echo

(* What others make of the item. *)
LEMMA ForeignItem ==
    ASSUME Typed, Foreign
    PROVE  Grows /\ (Folder => item'.content = item.content)
  <1>i. item \in Node /\ item.at \in Int /\ item.etag \in Nat /\ item.content \in Nat /\ item.kids \in Nat
    BY NodeFacts, Zenon DEF Typed
  <1>n. item.etag + 1 \in Nat /\ item.kids + 1 \in Nat /\ \A n \in 1..2 : item.content + n \in Nat
    BY <1>i
  <1>p. {Elsewhere, Nowhere} \cup Ops \subseteq Int
    BY OpFacts DEF Typed, Elsewhere, Nowhere
  <1>1. CASE item' = item
    BY <1>1, <1>i DEF Grows
  <1>2. ASSUME NEW n \in 1..2, item' = [item EXCEPT !.etag = @ + 1, !.content = @ + n], ~Folder
        PROVE  Grows
    <2>1. item' = [at |-> item.at, etag |-> item.etag + 1, content |-> item.content + n, kids |-> item.kids]
      BY <1>2, <1>i, ZenonT(60) DEF Node
    <2> QED
      BY <1>i, <1>n, <2>1 DEF Grows, Node
  <1>3. ASSUME item' = [item EXCEPT !.etag = @ + 1] PROVE Grows /\ item'.content = item.content
    <2>1. item' = [at |-> item.at, etag |-> item.etag + 1, content |-> item.content, kids |-> item.kids]
      BY <1>3, <1>i, Zenon DEF Node
    <2> QED
      BY <1>i, <1>n, <2>1 DEF Grows, Node
  <1>4. ASSUME NEW p \in {Elsewhere, Nowhere} \cup Ops, item' = [item EXCEPT !.etag = @ + 1, !.at = p]
        PROVE  Grows /\ item'.content = item.content
    <2>1. item' = [at |-> p, etag |-> item.etag + 1, content |-> item.content, kids |-> item.kids]
      BY <1>4, <1>i, ZenonT(60) DEF Node
    <2> QED
      BY <1>i, <1>n, <1>p, <2>1 DEF Grows, Node
  <1>5. ASSUME item' = [item EXCEPT !.kids = @ + 1] PROVE Grows /\ item'.content = item.content
    <2>1. item' = [at |-> item.at, etag |-> item.etag, content |-> item.content, kids |-> item.kids + 1]
      BY <1>5, <1>i, Zenon DEF Node
    <2> QED
      BY <1>i, <1>n, <2>1 DEF Grows, Node
  <1> QED
    BY <1>1, <1>2, <1>3, <1>4, <1>5, Zenon DEF Foreign

(* The journal's updates. *)
RowsOf(o) == /\ row' \in [Ops -> Rows]
             /\ \A p \in Ops \ {o} : row'[p] = row[p]
(* A row that only changes its state keeps what it was asked with. *)
LEMMA SetState ==
    ASSUME row \in [Ops -> Rows], NEW o \in Ops, NEW s \in RowStates,
           row' = [row EXCEPT ![o].state = s]
    PROVE  /\ RowsOf(o) /\ row'[o].state = s /\ row'[o].source = row[o].source
           /\ row'[o].before = row[o].before /\ row'[o].receipt = row[o].receipt
  <1>1. row[o] \in Rows
    OBVIOUS
  <1>2. row'[o] = [state |-> s, source |-> row[o].source, before |-> row[o].before, receipt |-> row[o].receipt]
    BY <1>1, Zenon DEF Rows
  <1>3. row'[o] \in Rows
    BY <1>1, <1>2, Zenon DEF Rows
  <1>4. /\ row' = [p \in Ops |-> row'[p]]
        /\ \A p \in Ops \ {o} : row'[p] = row[p]
    BY ZenonT(60)
  <1>5. \A p \in Ops : row'[p] \in Rows
    BY <1>3, <1>4, Zenon
  <1>6. row' \in [Ops -> Rows]
    BY <1>4, <1>5, Zenon
  <1> QED
    BY <1>2, <1>4, <1>6 DEF RowsOf

(* What mutations.rs writes into the row that it claims. *)
LEMMA ClaimFacts ==
    ASSUME Typed, NEW o \in Ops, Claim(o), o = 1 => row[o].source = "own"
    PROVE  /\ RowsOf(o) /\ row[o].state \in Waiting
           /\ row'[o].state = IF row[o].state = "pending" THEN "applying" ELSE "verifying"
           /\ row'[o].source = "own" /\ row'[o].before = Before(o)
           /\ row'[o].receipt = row[o].receipt
           /\ worker' \in Workers /\ worker'.op = o /\ worker'.at = FirstStep(o)
  <1>1. row[o] \in Rows /\ row[o].receipt \in Node
    BY Zenon DEF Typed, Rows
  <1>2. Before(o) \in Node
    <2>1. row[o].before \in Node
      BY Zenon DEF Typed, Rows
    <2>2. o # 1 => row[o - 1].receipt \in Node
      BY OpFacts, Zenon DEF Typed, Rows
    <2> QED
      BY <2>1, <2>2, Zenon DEF Before
  <1> DEFINE s == IF row[o].state = "pending" THEN "applying" ELSE "verifying"
  <1>3. row' = [row EXCEPT ![o].state = s, ![o].before = Before(o), ![o].source = "own"]
    BY Zenon DEF Claim
  <1>4. row'[o] = [state |-> s, source |-> "own", before |-> Before(o), receipt |-> row[o].receipt]
    BY <1>1, <1>3, ZenonT(60) DEF Typed, Rows
  <1>5. s \in RowStates
    BY Zenon DEF RowStates, Held
  <1>6. row'[o] \in Rows
    BY <1>1, <1>2, <1>4, <1>5 DEF Rows
  <1>7. /\ row' = [p \in Ops |-> row'[p]]
        /\ \A p \in Ops \ {o} : row'[p] = row[p]
    BY <1>3, ZenonT(60) DEF Typed
  <1>8. \A p \in Ops : row'[p] \in Rows
    BY <1>6, <1>7, Zenon DEF Typed
  <1>9. row' \in [Ops -> Rows]
    BY <1>7, <1>8, Zenon
  <1>10. FirstStep(o) \in Steps
    BY Zenon DEF FirstStep, Steps
  <1>11. worker' \in Workers /\ worker'.op = o /\ worker'.at = FirstStep(o)
    BY <1>10, ZenonT(60) DEF Claim, Typed, Workers
  <1>12. row[o].state \in Waiting
    BY Zenon DEF Claim, Claimable
  <1> QED
    BY <1>4, <1>7, <1>9, <1>11, <1>12 DEF RowsOf

(* What is recorded. *)
LEMMA RecordedTyped ==
    ASSUME Typed, Reported, worker.at = "answer", NEW o \in Ops
    PROVE  /\ Recorded(o) \in RowStates \ Held
           /\ Recorded(o) = "applied" => worker.kind = "applied" /\ ReconciledState(o, worker.node) = "applied"
           /\ Recorded(o) = "pending" => worker.kind = "uncommitted"
           /\ Recorded(o) # "discarded"
  <1>1. worker.kind \in Kinds \ {"none"}
    BY Zenon DEF Typed, Workers, Reported
  <1>2. ReconciledState(o, worker.node) \in {"applied", "conflict", "needs_review"}
    BY Zenon DEF ReconciledState
  <1> QED
    BY <1>1, <1>2, Zenon DEF Recorded, Kinds, RowStates, Waiting, Held, Stuck

(* What the journal keeps of an answer. *)
LEMMA RecordFacts ==
    ASSUME Typed, Reported, NEW o \in Ops, Record(o)
    PROVE  /\ RowsOf(o) /\ row'[o].state = Recorded(o) /\ row'[o].source = row[o].source
           /\ row'[o].before = row[o].before
           /\ row'[o].receipt = IF worker.kind = "applied" THEN worker.node ELSE row[o].receipt
  <1>1. row[o] \in Rows /\ row[o].receipt \in Node /\ worker.node \in Node /\ worker.at = "answer"
    BY Zenon DEF Typed, Rows, Workers, Record, Here
  <1> DEFINE n == IF worker.kind = "applied" THEN worker.node ELSE row[o].receipt
  <1>2. n \in Node
    BY <1>1, Zenon
  <1>3. row' = [row EXCEPT ![o].state = Recorded(o), ![o].receipt = n]
    BY Zenon DEF Record, Typed
  <1>4. row'[o] = [state |-> Recorded(o), source |-> row[o].source, before |-> row[o].before, receipt |-> n]
    BY <1>1, <1>3, ZenonT(60) DEF Typed, Rows
  <1>5. Recorded(o) \in RowStates
    BY <1>1, RecordedTyped, Zenon
  <1>6. row'[o] \in Rows
    BY <1>1, <1>2, <1>4, <1>5 DEF Rows
  <1>7. /\ row' = [p \in Ops |-> row'[p]]
        /\ \A p \in Ops \ {o} : row'[p] = row[p]
    BY <1>3, ZenonT(60) DEF Typed
  <1>8. \A p \in Ops : row'[p] \in Rows
    BY <1>6, <1>7, Zenon DEF Typed
  <1>9. row' \in [Ops -> Rows]
    BY <1>7, <1>8, Zenon
  <1> QED
    BY <1>4, <1>7, <1>9 DEF RowsOf

(* Reopening the journal sends every held row to verification. *)
LEMMA CrashFacts ==
    ASSUME Typed, Crash
    PROVE  /\ row' \in [Ops -> Rows]
           /\ \A o \in Ops : /\ row'[o].source = row[o].source /\ row'[o].before = row[o].before
                             /\ row'[o].receipt = row[o].receipt
                             /\ row'[o].state = IF row[o].state \in Held THEN "verify_required" ELSE row[o].state
  <1>1. ASSUME NEW o \in Ops
        PROVE  /\ row'[o] \in Rows
               /\ row'[o].source = row[o].source /\ row'[o].before = row[o].before
               /\ row'[o].receipt = row[o].receipt
               /\ row'[o].state = IF row[o].state \in Held THEN "verify_required" ELSE row[o].state
    <2>1. row[o] \in Rows
      BY Zenon DEF Typed
    <2>2. row'[o] = IF row[o].state \in Held THEN [row[o] EXCEPT !.state = "verify_required"] ELSE row[o]
      BY Zenon DEF Crash
    <2>3. "verify_required" \in RowStates
      BY DEF RowStates, Waiting
    <2> QED
      BY <2>1, <2>2, <2>3, Zenon DEF Rows
  <1>2. row' = [o \in Ops |-> row'[o]]
    BY Zenon DEF Crash
  <1>3. row' \in [Ops -> Rows]
    BY <1>1, <1>2, Zenon
  <1> QED
    BY <1>1, <1>3, Zenon

-----------------------------------------------------------------------------
(* Frames: what a step keeps. *)
LEMMA TypedFrom ==
    ASSUME Typed, Fixed, item' \in Node, taken' \subseteq Ops, late' \in [Ops -> Nat],
           row' \in [Ops -> Rows], worker' \in Workers,
           foreign' \in 0..MaxForeign, faults' \in 0..MaxFaults, asks' \in 0..MaxAsks,
           done' \in [Ops -> Nat], reached' \subseteq Ops
    PROVE  Typed'
  <1>1. Ops' = Ops
    BY FixedFacts, Zenon
  <1>2. Workers' = Workers
    BY <1>1, Zenon DEF Workers
  <1>3. script' \in Scripts /\ versions' \in BOOLEAN
    BY Zenon DEF Typed, Fixed
  <1> QED
    BY <1>1, <1>2, <1>3, Zenon DEF Typed

(* What a settled row knows of the item stays true as the item grows. *)
LEMMA KnowsKept ==
    ASSUME WorkerInv, Fixed, Grows, Tallied, reached \subseteq reached', NEW p \in Ops,
           row'[p].source = row[p].source, row'[p].before = row[p].before,
           row'[p].state = "applied" => row[p].state = "applied" /\ row'[p].receipt = row[p].receipt,
           row'[p].state = "discarded" => row[p].state = "discarded"
    PROVE  Knows(p)'
  <1>1. Knows(p) /\ item \in Node /\ row[p].before \in Node /\ row[p].receipt \in Node
    BY Zenon DEF WorkerInv, Rest, Typed, Rows
  <1>2. row[p].source = "own" => Seen(row'[p].before, item')
    BY <1>1, EchoKept, Zenon DEF Knows, Seen
  <1>3. row'[p].state = "applied" => Seen(row'[p].receipt, item')
    BY <1>1, EchoKept, Zenon DEF Knows, Seen
  <1>4. Happened(p) => Happened(p)'
    BY Zenon DEF Happened, Fixed, Tallied
  <1>5. (Seen(row[p].before, item))' = Seen(row'[p].before, item')
    BY Zenon DEF Seen, Echo, Original
  <1>6. (Seen(row[p].receipt, item))' = Seen(row'[p].receipt, item')
    BY Zenon DEF Seen, Echo, Original
  <1> QED
    BY <1>1, <1>2, <1>3, <1>4, <1>5, <1>6, Zenon DEF Knows, Fixed

(* A row that nothing was executed for is still executed at most once. *)
LEMMA OnceKept ==
    ASSUME WorkerInv, Fixed, Grows, NEW p \in Ops,
           done'[p] = done[p], late'[p] = late[p],
           row'[p].source = row[p].source, row'[p].before = row[p].before,
           script[p] = "mkdir" => (Open(p)' => Open(p))
    PROVE  Once(p)'
  <1>1. Once(p) /\ item \in Node /\ item' \in Node /\ row[p].before \in Node /\ script'[p] = script[p]
    BY Zenon DEF WorkerInv, Rest, Typed, Rows, Grows, Fixed
  <1>2. CASE script[p] = "mkdir"
    BY <1>1, <1>2, Zenon DEF Once
  <1>3. CASE script[p] # "mkdir"
    <2>1. item.etag \in Nat /\ item'.etag \in Nat /\ row[p].before.etag \in Nat /\ item'.etag >= item.etag
      BY <1>1, NodeFacts, Zenon DEF Grows
    <2>2. Spent(p)
      BY <1>1, <1>3, Zenon DEF Once
    <2>3. item.etag > row[p].before.etag => item'.etag > row'[p].before.etag
      BY <2>1
    <2>4. Spent(p)'
      BY <2>2, <2>3, Zenon DEF Spent
    <2> QED
      BY <1>1, <1>3, <2>4, Zenon DEF Once
  <1> QED
    BY <1>2, <1>3, Zenon

(* The provider does not move. *)
Still == item' = item /\ done' = done /\ reached' = reached
(* A step that leaves the provider alone grows nothing. *)
LEMMA StillFacts ==
    ASSUME WorkerInv, Fixed, Still
    PROVE  Grows /\ Tallied /\ Places' /\ reached \subseteq reached'
  <1>1. item \in Node /\ item.etag \in Nat /\ Places
    BY NodeFacts, Zenon DEF WorkerInv, Typed, Rest
  <1>2. Grows /\ Tallied
    BY <1>1 DEF Still, Grows, Tallied
  <1>3. Places'
    BY <1>1, FixedFacts, Zenon DEF Still, Places, Original
  <1> QED
    BY <1>2, <1>3 DEF Still

(* A request that is admitted is carried out for the first time, and finds   *)
(* the content the user had.                                                 *)
LEMMA Executed ==
    ASSUME WorkerInv, Fixed, NEW o \in Ops, Admits(o, row[o].before), Execute(o),
           row[o].source = "own", script[o] = "mkdir" => done[o] = 0
    PROVE  /\ done[o] = 0 /\ done' \in [Ops -> Nat] /\ done'[o] = 1
           /\ \A p \in Ops \ {o} : done'[p] = done[p]
           /\ Grows /\ Tallied /\ Places' /\ reached' = reached \cup {o}
           /\ item.content = Original /\ item' = Effect(o)
           /\ script[o] # "mkdir" => item'.etag > row[o].before.etag
  <1>1. /\ item \in Node /\ row[o].before \in Node /\ done \in [Ops -> Nat] /\ Knows(o) /\ Once(o) /\ Places
        /\ reached \subseteq Ops /\ o \in Int
    BY OpFacts DEF WorkerInv, Typed, Rest, Rows
  <1>2. /\ item' = Effect(o) /\ done' = [done EXCEPT ![o] = @ + 1] /\ reached' = reached \cup {o}
    BY Zenon DEF Execute
  <1>3. /\ item' \in Node /\ item'.etag = item.etag + 1 /\ item'.content = item.content
        /\ item'.at \in {Nowhere, o} /\ item.etag \in Nat /\ row[o].before.etag \in Nat
    BY <1>1, <1>2, EffectFacts, NodeFacts, Zenon
  <1>4. script[o] # "mkdir" => item.etag = row[o].before.etag
    BY Zenon DEF Admits
  <1>5. done[o] = 0
    <2>1. CASE script[o] # "mkdir"
      <3>1. Spent(o) /\ item.etag = row[o].before.etag
        BY <1>1, <1>4, <2>1, Zenon DEF Once
      <3> QED
        BY <1>3, <3>1 DEF Spent
    <2> QED
      BY <2>1, Zenon
  <1>6. done' \in [Ops -> Nat] /\ done'[o] = 1 /\ \A p \in Ops \ {o} : done'[p] = done[p]
    BY <1>1, <1>2, <1>5
  <1>7. Tallied
    BY <1>6, Zenon DEF Tallied
  <1>8. item.content = Original
    <2>1. CASE script[o] = "mkdir"
      BY <1>1, <2>1, Zenon DEF Places, Folder
    <2>2. CASE script[o] # "mkdir"
      BY <1>1, <1>4, <2>2, Zenon DEF Knows, Seen, Echo
    <2> QED
      BY <2>1, <2>2, Zenon
  <1>9. Grows
    BY <1>3 DEF Grows
  <1>10. Places'
    <2>1. Nowhere \notin Ops
      BY OpFacts DEF WorkerInv, Typed, Nowhere
    <2>2. item'.at \in Ops => item'.at \in reached'
      BY <1>2, <1>3, <2>1, Zenon
    <2> QED
      BY <1>3, <1>8, <2>2, FixedFacts, Zenon DEF Places, Original
  <1>11. script[o] # "mkdir" => item'.etag > row[o].before.etag
    BY <1>3, <1>4
  <1> QED
    BY <1>2, <1>5, <1>6, <1>7, <1>8, <1>9, <1>10, <1>11, Zenon

(* A worker at rest has nothing to answer for; one that goes on keeps what   *)
(* it was told.                                                              *)
LEMMA AtEase ==
    ASSUME worker' = Idle
    PROVE  /\ worker' \in Workers /\ Reported' /\ Holds'
           /\ \A p : Open(p)' => row'[p].state = "pending"
  <1>1. worker' \in Workers /\ worker'.at = "idle"
    BY IdleFacts, Zenon
  <1> QED
    BY <1>1, Zenon DEF Reported, Holds, Open

(* A worker that goes on with the same row keeps its answer and its hold. *)
LEMMA GoesOn ==
    ASSUME WorkerInv, Fixed, Grows, Tallied, reached \subseteq reached', worker' = worker,
           worker.at # "idle" => row'[worker.op] = row[worker.op]
    PROVE  Reported' /\ Holds'
  <1>1. Reported /\ Holds /\ worker.node \in Node /\ item \in Node /\ Ops' = Ops
    BY FixedFacts, Zenon DEF WorkerInv, Rest, Typed, Workers
  <1>2. Holds'
    BY <1>1, FixedFacts, Zenon DEF Holds, Held
  <1>3. ASSUME worker.at = "answer" PROVE Reported'
    <2>1. row'[worker.op] = row[worker.op] /\ worker.op \in Ops
      BY <1>1, <1>3, Zenon DEF Holds
    <2>2. Echo(worker.node, item) => Echo(worker.node, item)'
      <3>1. Echo(worker.node, item) => Echo(worker.node, item')
        BY <1>1, EchoKept, Zenon
      <3> QED
        BY <3>1, Zenon DEF Echo
    <2>3. Happened(worker.op) => Happened(worker.op)'
      BY <2>1, Zenon DEF Happened, Fixed, Tallied
    <2>4. Comparable(worker.op, worker.node) => Comparable(worker.op, worker.node)'
      BY <2>1, FixedFacts, Zenon DEF Comparable, Fixed
    <2> QED
      BY <1>1, <1>3, <2>2, <2>3, <2>4, Zenon DEF Reported, Fixed, Original
  <1>4. worker.at # "answer" => Reported'
    BY Zenon DEF Reported
  <1> QED
    BY <1>2, <1>3, <1>4, Zenon

(* An answer that reports no success. *)
LEMMA NoSuccess ==
    ASSUME WorkerInv, Fixed, row' = row, worker.at # "idle",
           NEW kind \in {"failed", "conflict", "uncertain", "indeterminate"}, Answer(kind, NoNode)
    PROVE  worker' \in Workers /\ Reported' /\ Holds' /\ worker'.op = worker.op /\ worker'.at = "answer"
  <1>1. worker \in Workers /\ kind \in Kinds /\ NoNode \in Node /\ Holds /\ Ops' = Ops
    BY NoNodeTyped, FixedFacts, Zenon DEF WorkerInv, Typed, Rest, Kinds
  <1>2. /\ worker' \in Workers /\ worker'.op = worker.op /\ worker'.at = "answer" /\ worker'.kind = kind
    BY <1>1, AnswerFacts, Zenon
  <1>3. Reported'
    BY <1>2, Zenon DEF Reported
  <1>4. Holds'
    BY <1>1, <1>2, Zenon DEF Holds, Held
  <1> QED
    BY <1>2, <1>3, <1>4

(* A step that leaves the journal and the provider alone. *)
LEMMA Quiet ==
    ASSUME WorkerInv, Fixed, Still, row' = row, late' = late, taken' = taken, foreign' = foreign,
           asks' = asks, faults' \in 0..MaxFaults, faults' >= faults, worker' \in Workers,
           Reported', Holds', \A p \in Ops : script[p] = "mkdir" => (Open(p)' => Open(p))
    PROVE  WorkerInv'
  <1>1. Typed /\ UnderWay /\ Ops' = Ops
    BY FixedFacts, Zenon DEF WorkerInv, Rest
  <1>2. Typed'
    <2>1. item' \in Node /\ done' \in [Ops -> Nat] /\ reached' \subseteq Ops
      BY Zenon DEF WorkerInv, Typed, Still
    <2>2. /\ taken' \subseteq Ops /\ late' \in [Ops -> Nat] /\ row' \in [Ops -> Rows]
          /\ foreign' \in 0..MaxForeign /\ asks' \in 0..MaxAsks
      BY Zenon DEF WorkerInv, Typed
    <2> QED
      BY <1>1, <2>1, <2>2, TypedFrom, Zenon
  <1>3. Grows /\ Tallied /\ Places' /\ reached \subseteq reached'
    BY StillFacts, Zenon
  <1>4. ASSUME NEW p \in Ops PROVE Knows(p)' /\ Once(p)'
    BY <1>3, KnowsKept, OnceKept, Zenon DEF Still
  <1>5. UnderWay'
    <2>1. \A p \in Ops : late[p] \in Nat /\ late[p] <= faults /\ faults \in Nat /\ faults' \in Nat
      BY <1>1 DEF Typed, UnderWay
    <2>2. \A p \in Ops : late'[p] <= faults'
      BY <2>1
    <2> QED
      BY <1>1, <2>2, Zenon DEF UnderWay
  <1> QED
    BY <1>1, <1>2, <1>3, <1>4, <1>5, Zenon DEF WorkerInv, Rest

(* The calls that change nothing at the provider. *)
LEMMA CallFacts ==
    ASSUME WorkerInv, NEW o \in Ops, Check(o) \/ List(o) \/ Lookup(o) \/ Refused(o) \/ RecordFails(o)
    PROVE  /\ Fixed /\ Still /\ row' = row /\ late' = late /\ taken' = taken /\ foreign' = foreign
           /\ asks' = asks /\ faults' \in 0..MaxFaults /\ faults' >= faults
           /\ worker.op = o /\ worker.at # "idle"
  <1>1. /\ Fixed /\ Still /\ row' = row /\ late' = late /\ taken' = taken /\ foreign' = foreign /\ asks' = asks
    BY Zenon DEF Check, List, Lookup, Refused, RecordFails, Fixed, Still, Calls, provider, journal
  <1>2. worker.op = o /\ worker.at # "idle"
    BY Zenon DEF Check, List, Lookup, Refused, RecordFails, Here
  <1>3. faults' = faults \/ (faults < MaxFaults /\ faults' = faults + 1)
    BY Zenon DEF Check, List, Lookup, Refused, RecordFails
  <1>4. faults \in 0..MaxFaults /\ MaxFaults \in Nat
    BY BoundAssumption, Zenon DEF WorkerInv, Typed
  <1> QED
    BY <1>1, <1>2, <1>3, <1>4

(* The checks before a removal keep the invariant. *)
LEMMA CheckStep ==
    ASSUME WorkerInv, NEW o \in Ops, Check(o) \/ List(o)
    PROVE  WorkerInv'
  <1>0. /\ Fixed /\ Still /\ row' = row /\ late' = late /\ taken' = taken /\ foreign' = foreign
        /\ asks' = asks /\ faults' \in 0..MaxFaults /\ faults' >= faults
        /\ worker.op = o /\ worker.at # "idle"
    BY CallFacts, Zenon
  <1>1. Holds /\ worker \in Workers /\ worker.at \in {"check", "list"} /\ Removal(o)
    BY <1>0, Zenon DEF WorkerInv, Rest, Typed, Check, List, Here, Holds
  <1>2. CASE \E kind \in {"failed", "conflict"} : Answer(kind, NoNode)
    <2>1. worker' \in Workers /\ Reported' /\ Holds' /\ worker'.at = "answer"
      BY <1>0, <1>2, NoSuccess, Zenon
    <2>2. \A p \in Ops : Open(p)' => Open(p)
      BY <1>0, <2>1, Zenon DEF Open
    <2> QED
      BY <1>0, <2>1, <2>2, Quiet, Zenon
  <1>3. CASE \E at \in {"list", "send"} : worker' = [worker EXCEPT !.at = at]
    <2>1. PICK at \in {"list", "send"} : worker' = [worker EXCEPT !.at = at]
      BY <1>3
    <2>2. /\ worker' \in Workers /\ worker'.op = o /\ worker'.at = at
      BY <1>0, <1>1, <2>1, Zenon DEF Workers, Steps
    <2>3. Reported'
      BY <2>2, Zenon DEF Reported
    <2>4. Holds'
      <3>1. Removal(worker.op)'
        BY <1>0, <1>1, <2>2, Zenon DEF Removal, Fixed
      <3>2. row'[o].state \in Held /\ row'[o].source = "own" /\ o \in Ops'
        BY <1>0, <1>1, FixedFacts, Zenon DEF Holds
      <3> QED
        BY <2>2, <3>1, <3>2, Zenon DEF Holds, Held
    <2>5. ASSUME NEW p \in Ops, script[p] = "mkdir", Open(p)' PROVE Open(p)
      <3>1. p # o
        BY <1>1, <2>5 DEF Removal
      <3> QED
        BY <1>0, <2>2, <2>5, <3>1, Zenon DEF Open
    <2> QED
      BY <1>0, <2>2, <2>3, <2>4, <2>5, Quiet, Zenon
  <1> QED
    BY <1>2, <1>3, Zenon DEF Check, List

(* A refused call, and an answer that cannot be recorded, keep it. *)
LEMMA RefusedStep ==
    ASSUME WorkerInv, NEW o \in Ops, Refused(o) \/ RecordFails(o)
    PROVE  WorkerInv'
  <1>0. /\ Fixed /\ Still /\ row' = row /\ late' = late /\ taken' = taken /\ foreign' = foreign
        /\ asks' = asks /\ faults' \in 0..MaxFaults /\ faults' >= faults
        /\ worker.op = o /\ worker.at # "idle"
    BY CallFacts, Zenon
  <1>1. CASE Refused(o)
    <2>1. worker' \in Workers /\ Reported' /\ Holds' /\ worker'.at = "answer"
      BY <1>0, <1>1, NoSuccess, Zenon DEF Refused
    <2>2. \A p \in Ops : Open(p)' => Open(p)
      BY <1>0, <2>1, Zenon DEF Open
    <2> QED
      BY <1>0, <2>1, <2>2, Quiet, Zenon
  <1>2. CASE RecordFails(o)
    <2>1. worker' = Idle
      BY <1>2, Zenon DEF RecordFails
    <2>2. worker' \in Workers /\ Reported' /\ Holds' /\ \A p \in Ops : Open(p)' => Open(p)
      BY <1>0, <2>1, AtEase, Zenon DEF Open
    <2> QED
      BY <1>0, <2>2, Quiet, Zenon
  <1> QED
    BY <1>1, <1>2

(* A lookup: what is found at its place was reached, and is compared with    *)
(* what the row knows.                                                       *)
LEMMA LookupStep ==
    ASSUME WorkerInv, NEW o \in Ops, Lookup(o)
    PROVE  WorkerInv'
  <1>0. /\ Fixed /\ Still /\ row' = row /\ late' = late /\ taken' = taken /\ foreign' = foreign
        /\ asks' = asks /\ faults' \in 0..MaxFaults /\ faults' >= faults
        /\ worker.op = o /\ worker.at # "idle"
    BY CallFacts, Zenon
  <1>1. /\ Holds /\ Places /\ Knows(o) /\ worker \in Workers /\ item \in Node /\ worker.at = "lookup"
        /\ row[o].state = "verifying" /\ row[o].source = "own" /\ item.etag \in Nat
    BY <1>0, NodeFacts, Zenon DEF WorkerInv, Rest, Typed, Lookup, Here, Holds
  <1>2. /\ Settled(o) \in Kinds \ {"none"}
        /\ Settled(o) = "uncommitted" => script[o] # "mkdir"
        /\ Settled(o) = "applied" => script[o] = "relocate" /\ item.at = o
    BY Zenon DEF Settled, Kinds
  <1>3. /\ worker' \in Workers /\ worker'.op = o /\ worker'.at = "answer"
        /\ worker'.kind = Settled(o) /\ worker'.node = item
    <2>1. Answer(Settled(o), item)
      BY DEF Lookup
    <2> QED
      BY <1>0, <1>1, <1>2, <2>1, AnswerFacts, Zenon
  <1>4. Holds'
    BY <1>0, <1>1, <1>3, FixedFacts DEF Holds, Held
  <1>5. Settled(o) = "applied" => Happened(worker.op)'
    <2>1. Settled(o) = "applied" => o \in reached /\ script[o] = "relocate"
      BY <1>1, <1>2, Zenon DEF Places
    <2> QED
      BY <1>0, <1>3, <2>1, Zenon DEF Happened, Fixed, Still
  <1>6. Echo(worker.node, item)'
    BY <1>0, <1>1, <1>3 DEF Echo, Still
  <1>7. Settled(o) = "applied" => worker'.node.content = Original \/ Comparable(worker.op, worker.node)'
    <2>1. CASE Folder
      BY <1>1, <1>3, <2>1, Zenon DEF Places
    <2>2. CASE ~Folder
      BY <1>0, <1>1, <1>2, <1>3, <2>2, FixedFacts, Zenon DEF Comparable, Knows, Seen, Echo, Fixed
    <2> QED
      BY <2>1, <2>2, Zenon
  <1>8. Reported'
    BY <1>0, <1>2, <1>3, <1>5, <1>6, <1>7, Zenon DEF Reported, Fixed, Original
  <1>9. \A p \in Ops : Open(p)' => Open(p)
    BY <1>0, <1>3, Zenon DEF Open
  <1> QED
    BY <1>0, <1>3, <1>4, <1>8, <1>9, Quiet, Zenon

(* The request of change o is carried out. *)
LEMMA ExecutedStep ==
    ASSUME WorkerInv, Fixed, NEW o \in Ops, Admits(o, row[o].before), Execute(o),
           row[o].source = "own", script[o] = "mkdir" => done[o] = 0,
           row' = row, taken' = taken, foreign' = foreign, asks' = asks,
           faults' \in 0..MaxFaults, faults' >= faults,
           late' \in [Ops -> Nat], \A p \in Ops : late'[p] <= late[p],
           \A p \in Ops \ {o} : late'[p] = late[p] /\ (Open(p)' => Open(p)),
           script[o] = "mkdir" => late'[o] = 0 /\ ~Open(o)',
           worker' \in Workers, Reported', Holds'
    PROVE  WorkerInv'
  <1>1. Typed /\ UnderWay /\ Ops' = Ops /\ script' = script
    BY FixedFacts, Zenon DEF WorkerInv, Rest, Fixed
  <1>2. /\ done' \in [Ops -> Nat] /\ done'[o] = 1 /\ \A p \in Ops \ {o} : done'[p] = done[p]
        /\ Grows /\ Tallied /\ Places' /\ reached' = reached \cup {o}
        /\ script[o] # "mkdir" => item'.etag > row[o].before.etag
    BY Executed, Zenon
  <1>3. Typed'
    <2>1. item' \in Node /\ reached' \subseteq Ops
      BY <1>1, <1>2, Zenon DEF Typed, Grows
    <2>2. /\ taken' \subseteq Ops /\ row' \in [Ops -> Rows] /\ foreign' \in 0..MaxForeign /\ asks' \in 0..MaxAsks
      BY <1>1, Zenon DEF Typed
    <2> QED
      BY <1>1, <1>2, <2>1, <2>2, TypedFrom, Zenon
  <1>4. ASSUME NEW p \in Ops PROVE Knows(p)'
    BY <1>2, KnowsKept, Zenon
  <1>5. ASSUME NEW p \in Ops PROVE Once(p)'
    <2>1. CASE p # o
      BY <1>2, <2>1, OnceKept, Zenon
    <2>2. CASE p = o /\ script[o] = "mkdir"
      <3>1. done'[o] + late'[o] <= 1
        BY <1>2, <2>2
      <3> QED
        BY <1>1, <2>2, <3>1, Zenon DEF Once
    <2>3. CASE p = o /\ script[o] # "mkdir"
      <3>1. Spent(o)'
        BY <1>2, <2>3, Zenon DEF Spent
      <3> QED
        BY <1>1, <2>3, <3>1, Zenon DEF Once
    <2> QED
      BY <2>1, <2>2, <2>3, Zenon
  <1>6. UnderWay'
    <2>1. \A p \in Ops : late[p] \in Nat /\ late[p] <= faults /\ faults \in Nat /\ faults' \in Nat /\ late'[p] \in Nat
      BY <1>1 DEF Typed, UnderWay
    <2>2. \A p \in Ops : late'[p] <= faults' /\ (late'[p] > 0 => late[p] > 0)
      BY <2>1
    <2> QED
      BY <1>1, <2>2, Zenon DEF UnderWay
  <1> QED
    BY <1>1, <1>2, <1>3, <1>4, <1>5, <1>6, Zenon DEF WorkerInv, Rest

(* What a worker about to send knows. *)
LEMMA SendFacts ==
    ASSUME WorkerInv, NEW o \in Ops, Here(o, "send")
    PROVE  /\ worker.op = o /\ worker.at = "send" /\ row[o].source = "own" /\ row[o].state # "pending"
           /\ worker \in Workers /\ late \in [Ops -> Nat] /\ faults \in 0..MaxFaults /\ MaxFaults \in Nat
           /\ script[o] = "mkdir" => done[o] = 0 /\ late[o] = 0
  <1>1. worker.op = o /\ worker.at = "send" /\ Once(o) /\ Holds
    BY DEF Here, WorkerInv, Rest
  <1>2. row[o].source = "own" /\ row[o].state # "pending"
    BY <1>1, Zenon DEF Holds, Held
  <1>3. script[o] = "mkdir" => done[o] = 0 /\ late[o] = 0
    BY <1>1, Zenon DEF Once, Open
  <1> QED
    BY <1>1, <1>2, <1>3, BoundAssumption, Zenon DEF WorkerInv, Typed

(* The request that is answered keeps it. *)
LEMMA SendStep ==
    ASSUME WorkerInv, NEW o \in Ops, Send(o)
    PROVE  WorkerInv'
  <1>0. /\ Fixed /\ row' = row /\ late' = late /\ taken' = taken /\ foreign' = foreign
        /\ asks' = asks /\ faults' = faults /\ Here(o, "send")
    BY Zenon DEF Send, Fixed, Calls
  <1>1. /\ worker.op = o /\ worker.at = "send" /\ row[o].source = "own" /\ row[o].state # "pending"
        /\ worker \in Workers /\ late \in [Ops -> Nat] /\ faults \in 0..MaxFaults /\ MaxFaults \in Nat
        /\ script[o] = "mkdir" => done[o] = 0 /\ late[o] = 0
    BY <1>0, SendFacts, Zenon
  <1>2. worker.at # "idle" /\ faults' \in 0..MaxFaults /\ faults' >= faults
    BY <1>0, <1>1
  <1>3. CASE Admits(o, row[o].before)
    <2>1. Execute(o) /\ Answer("applied", Effect(o))
      BY <1>3, Zenon DEF Send
    <2>2. /\ done'[o] = 1 /\ Grows /\ reached' = reached \cup {o} /\ item.content = Original /\ item' = Effect(o)
      BY <1>0, <1>1, <1>3, <2>1, Executed, Zenon
    <2>3. item \in Node /\ Effect(o) \in Node /\ Effect(o).content = item.content /\ Effect(o).etag \in Nat
      <3>1. item \in Node /\ script \in Scripts
        BY Zenon DEF WorkerInv, Typed
      <3>2. o \in Nat
        BY <3>1, OpFacts, Zenon
      <3>3. o \in Int
        BY <3>2
      <3>4. Effect(o) \in Node /\ Effect(o).content = item.content
        BY <3>1, <3>3, EffectFacts, Zenon
      <3> QED
        BY <3>1, <3>4, NodeFacts, Zenon
    <2>4. /\ worker' \in Workers /\ worker'.op = o /\ worker'.at = "answer" /\ worker'.kind = "applied"
          /\ worker'.node = Effect(o)
      BY <1>1, <2>1, <2>3, AnswerFacts, Zenon DEF Kinds
    <2>5. Reported'
      <3>1. Echo(worker.node, item)'
        BY <2>2, <2>3, <2>4 DEF Echo
      <3>2. Happened(worker.op)'
        BY <1>0, <2>2, <2>4, Zenon DEF Happened, Fixed
      <3> QED
        BY <2>2, <2>3, <2>4, <3>1, <3>2, Zenon DEF Reported, Original
    <2>6. Holds'
      <3>1. Holds /\ o \in Ops'
        BY <1>0, FixedFacts, Zenon DEF WorkerInv, Rest
      <3> QED
        BY <1>0, <1>1, <2>4, <3>1, Zenon DEF Holds, Held
    <2>7. \A p \in Ops \ {o} : late'[p] = late[p] /\ (Open(p)' => Open(p))
      BY <1>0, <2>4, Zenon DEF Open
    <2>8. ~Open(o)'
      BY <1>0, <1>1, <2>4, Zenon DEF Open
    <2>9. late' \in [Ops -> Nat] /\ \A p \in Ops : late'[p] <= late[p]
      BY <1>0, <1>1
    <2> QED
      BY <1>0, <1>1, <1>2, <1>3, <2>1, <2>4, <2>5, <2>6, <2>7, <2>8, <2>9, ExecutedStep, Zenon
  <1>4. CASE ~Admits(o, row[o].before)
    <2>1. Still /\ \E kind \in {"failed", "conflict"} : Answer(kind, NoNode)
      BY <1>4, Zenon DEF Send, Still
    <2>2. worker' \in Workers /\ Reported' /\ Holds' /\ worker'.at = "answer"
      BY <1>0, <1>2, <2>1, NoSuccess, Zenon
    <2>3. \A p \in Ops : Open(p)' => Open(p)
      BY <1>0, <2>2, Zenon DEF Open
    <2> QED
      BY <1>0, <1>2, <2>1, <2>2, <2>3, Quiet, Zenon
  <1> QED
    BY <1>3, <1>4

(* A request that is still under way when its caller gives up. *)
LEMMA GivenUp ==
    ASSUME WorkerInv, Fixed, Still, NEW o \in Ops, Here(o, "send"),
           faults < MaxFaults, faults' = faults + 1, late' = [late EXCEPT ![o] = @ + 1],
           taken' = taken, foreign' = foreign, asks' = asks,
           row' \in [Ops -> Rows], \A p \in Ops : Knows(p)',
           \A p \in Ops : row'[p].source = row[p].source /\ row'[p].before = row[p].before,
           \A p \in Ops : Open(p)' => p # o /\ Open(p),
           worker' \in Workers, Reported', Holds'
    PROVE  WorkerInv'
  <1>1. Typed /\ UnderWay /\ Ops' = Ops /\ script' = script
    BY FixedFacts, Zenon DEF WorkerInv, Rest, Fixed
  <1>2. /\ row[o].source = "own" /\ late \in [Ops -> Nat] /\ faults \in 0..MaxFaults /\ MaxFaults \in Nat
        /\ script[o] = "mkdir" => done[o] = 0 /\ late[o] = 0
    BY SendFacts, Zenon
  <1>3. /\ late' \in [Ops -> Nat] /\ late'[o] = late[o] + 1 /\ \A p \in Ops \ {o} : late'[p] = late[p]
        /\ faults' \in 0..MaxFaults
    BY <1>2
  <1>4. Typed'
    <2>1. item' \in Node /\ done' \in [Ops -> Nat] /\ reached' \subseteq Ops
      BY <1>1, Zenon DEF Typed, Still
    <2>2. /\ taken' \subseteq Ops /\ foreign' \in 0..MaxForeign /\ asks' \in 0..MaxAsks
      BY <1>1, Zenon DEF Typed
    <2> QED
      BY <1>1, <1>3, <2>1, <2>2, TypedFrom, Zenon
  <1>5. Grows /\ Places'
    BY StillFacts, ZenonT(60)
  <1>6. ASSUME NEW p \in Ops PROVE Once(p)'
    <2>1. CASE p # o
      BY <1>3, <1>5, <2>1, OnceKept, Zenon DEF Still
    <2>2. CASE p = o /\ script[o] = "mkdir"
      <3>1. done'[o] + late'[o] <= 1
        BY <1>2, <1>3, <2>2 DEF Still
      <3> QED
        BY <1>1, <2>2, <3>1, Zenon DEF Once
    <2>3. CASE p = o /\ script[o] # "mkdir"
      <3>1. Spent(o)
        BY <2>3, Zenon DEF WorkerInv, Rest, Once
      <3>2. item.etag > row[o].before.etag => item'.etag > row'[o].before.etag
        BY Zenon DEF Still
      <3>3. Spent(o)'
        BY <3>1, <3>2, Zenon DEF Spent, Still
      <3> QED
        BY <1>1, <2>3, <3>3, Zenon DEF Once
    <2> QED
      BY <2>1, <2>2, <2>3, Zenon
  <1>7. UnderWay'
    <2>1. \A p \in Ops : late[p] \in Nat /\ late[p] <= faults /\ faults \in Nat
      BY <1>1 DEF Typed, UnderWay
    <2>2. \A p \in Ops : late'[p] <= faults' /\ (late'[p] > 0 => late[p] > 0 \/ p = o)
      BY <1>3, <2>1
    <2> QED
      BY <1>1, <1>2, <2>2, Zenon DEF UnderWay
  <1> QED
    BY <1>1, <1>4, <1>5, <1>6, <1>7, Zenon DEF WorkerInv, Rest

(* The request whose answer is lost keeps it: it may be executed later. *)
LEMMA SendLostStep ==
    ASSUME WorkerInv, NEW o \in Ops, SendLost(o)
    PROVE  WorkerInv'
  <1>0. /\ Fixed /\ row' = row /\ taken' = taken /\ foreign' = foreign /\ asks' = asks
        /\ Here(o, "send") /\ faults < MaxFaults /\ faults' = faults + 1 /\ Answer("uncertain", NoNode)
    BY Zenon DEF SendLost, Fixed, Calls
  <1>1. /\ worker.op = o /\ worker.at = "send" /\ row[o].source = "own" /\ row[o].state # "pending"
        /\ worker \in Workers /\ late \in [Ops -> Nat] /\ faults \in 0..MaxFaults /\ MaxFaults \in Nat
        /\ script[o] = "mkdir" => done[o] = 0 /\ late[o] = 0
    BY <1>0, SendFacts, ZenonT(60)
  <1>2. worker.at # "idle" /\ faults' \in 0..MaxFaults /\ faults' >= faults
    BY <1>0, <1>1
  <1>3. worker' \in Workers /\ Reported' /\ Holds' /\ worker'.op = o /\ worker'.at = "answer"
    BY <1>0, <1>1, <1>2, NoSuccess, Zenon
  <1>4. \A p \in Ops : Open(p)' => p # o /\ Open(p)
    BY <1>0, <1>1, <1>3, Zenon DEF Open
  <1>5. CASE Admits(o, row[o].before) /\ Execute(o) /\ late' = late
    <2>1. late' \in [Ops -> Nat] /\ \A p \in Ops : late'[p] <= late[p]
      BY <1>1, <1>5
    <2> QED
      BY <1>0, <1>1, <1>2, <1>3, <1>4, <1>5, <2>1, ExecutedStep, Zenon
  <1>6. CASE late' = [late EXCEPT ![o] = @ + 1] /\ Still
    <2>1. Grows /\ Tallied /\ reached \subseteq reached'
      BY <1>0, <1>6, StillFacts, Zenon
    <2>2. \A p \in Ops : Knows(p)'
      BY <1>0, <2>1, KnowsKept, Zenon
    <2>3. row' \in [Ops -> Rows]
      BY <1>0, Zenon DEF WorkerInv, Typed
    <2> QED
      BY <1>0, <1>3, <1>4, <1>6, <2>2, <2>3, GivenUp, ZenonT(60)
  <1> QED
    BY <1>5, <1>6, Zenon DEF SendLost, Still

-----------------------------------------------------------------------------

(* A request whose caller gave up arrives after all. *)
LEMMA LateStep ==
    ASSUME WorkerInv, NEW o \in Ops, ExecuteLate(o)
    PROVE  WorkerInv'
  <1>0. /\ Fixed /\ row' = row /\ taken' = taken /\ foreign' = foreign /\ asks' = asks /\ faults' = faults
        /\ worker' = worker /\ late[o] > 0 /\ late' = [late EXCEPT ![o] = @ - 1]
    BY Zenon DEF ExecuteLate, Fixed, journal, bounds
  <1>1. /\ Typed /\ Once(o) /\ UnderWay /\ late \in [Ops -> Nat] /\ done \in [Ops -> Nat] /\ worker' \in Workers
        /\ faults \in 0..MaxFaults /\ MaxFaults \in Nat /\ row[o].source = "own"
    BY <1>0, BoundAssumption, Zenon DEF WorkerInv, Rest, Typed, UnderWay
  <1>2. /\ late' \in [Ops -> Nat] /\ late'[o] = late[o] - 1 /\ \A p \in Ops \ {o} : late'[p] = late[p]
        /\ \A p \in Ops : late'[p] <= late[p]
        /\ faults' \in 0..MaxFaults /\ faults' >= faults
    BY <1>0, <1>1
  <1>3. \A p \in Ops : Open(p)' => Open(p)
    BY <1>0, Zenon DEF Open
  <1>4. script[o] = "mkdir" => done[o] = 0 /\ late'[o] = 0 /\ ~Open(o)'
    <2>1. script[o] = "mkdir" => done[o] + late[o] <= 1 /\ ~(Open(o) /\ late[o] # 0)
      BY <1>1, Zenon DEF Once
    <2> QED
      BY <1>0, <1>1, <1>2, <1>3, <2>1
  <1>5. CASE Admits(o, row[o].before)
    <2>1. Execute(o)
      BY <1>5, Zenon DEF ExecuteLate
    <2>2. Grows /\ Tallied /\ reached \subseteq reached'
      <3>1. Grows /\ Tallied /\ reached' = reached \cup {o}
        BY <1>0, <1>1, <1>4, <1>5, <2>1, Executed, ZenonT(60)
      <3> QED
        BY <3>1, ZenonT(60)
    <2>3. Reported' /\ Holds'
      BY <1>0, <2>2, GoesOn, Zenon
    <2> QED
      BY <1>0, <1>1, <1>2, <1>3, <1>4, <1>5, <2>1, <2>3, ExecutedStep, Zenon
  <1>6. CASE ~Admits(o, row[o].before)
    <2>1. Still
      BY <1>6, Zenon DEF ExecuteLate, Still
    <2>2. Grows /\ Tallied /\ Places' /\ reached \subseteq reached'
      BY <1>0, <2>1, StillFacts, Zenon
    <2>3. Reported' /\ Holds'
      BY <1>0, <2>2, GoesOn, Zenon
    <2>4. Typed'
      <3>1. item' \in Node /\ done' \in [Ops -> Nat] /\ reached' \subseteq Ops
        BY <1>1, <2>1, Zenon DEF Typed, Still
      <3>2. /\ taken' \subseteq Ops /\ row' \in [Ops -> Rows] /\ foreign' \in 0..MaxForeign /\ asks' \in 0..MaxAsks
        BY <1>0, <1>1, Zenon DEF Typed
      <3> QED
        BY <1>0, <1>1, <1>2, <3>1, <3>2, TypedFrom, Zenon
    <2>5. ASSUME NEW p \in Ops PROVE Knows(p)'
      BY <1>0, <2>2, KnowsKept, Zenon
    <2>6. ASSUME NEW p \in Ops PROVE Once(p)'
      <3>1. CASE p # o
        BY <1>0, <1>2, <1>3, <2>1, <2>2, <3>1, OnceKept, Zenon DEF Still
      <3>2. CASE p = o /\ script[o] = "mkdir"
        <4>1. done'[o] + late'[o] <= 1
          BY <1>4, <2>1, <3>2 DEF Still
        <4> QED
          BY <1>0, <1>4, <3>2, <4>1, Zenon DEF Once, Fixed
      <3>3. CASE p = o /\ script[o] # "mkdir"
        <4>1. Spent(o)
          BY <1>1, <3>3, Zenon DEF Once
        <4>2. Spent(o)'
          BY <1>0, <2>1, <4>1, Zenon DEF Spent, Still
        <4> QED
          BY <1>0, <3>3, <4>2, Zenon DEF Once, Fixed
      <3> QED
        BY <3>1, <3>2, <3>3
    <2>7. UnderWay'
      <3>1. \A p \in Ops : late[p] \in Nat /\ late[p] <= faults /\ faults \in Nat
        BY <1>1 DEF Typed, UnderWay
      <3>2. \A p \in Ops : late'[p] <= faults' /\ (late'[p] > 0 => late[p] > 0)
        BY <1>0, <1>2, <3>1
      <3> QED
        BY <1>0, <1>1, <3>2, FixedFacts, Zenon DEF UnderWay
    <2> QED
      BY <1>0, <2>2, <2>3, <2>4, <2>5, <2>6, <2>7, FixedFacts, Zenon DEF WorkerInv, Rest
  <1> QED
    BY <1>5, <1>6

(* A step of the journal that leaves the provider alone. *)
LEMMA JournalStep ==
    ASSUME WorkerInv, Fixed, Still, late' = late, taken' = taken, foreign' = foreign,
           asks' \in 0..MaxAsks, faults' \in 0..MaxFaults, faults' >= faults,
           row' \in [Ops -> Rows], \A p \in Ops : row[p].source = "own" => row'[p].source = "own",
           \A p \in Ops : Knows(p)' /\ Once(p)',
           worker' \in Workers, Reported', Holds'
    PROVE  WorkerInv'
  <1>1. Typed /\ UnderWay /\ Ops' = Ops
    BY FixedFacts, Zenon DEF WorkerInv, Rest
  <1>2. Typed'
    <2>1. item' \in Node /\ done' \in [Ops -> Nat] /\ reached' \subseteq Ops
      BY <1>1, Zenon DEF Typed, Still
    <2>2. /\ taken' \subseteq Ops /\ late' \in [Ops -> Nat] /\ foreign' \in 0..MaxForeign
      BY <1>1, Zenon DEF Typed
    <2> QED
      BY <1>1, <2>1, <2>2, TypedFrom, Zenon
  <1>3. Places'
    BY StillFacts, Zenon
  <1>4. UnderWay'
    <2>1. \A p \in Ops : late[p] \in Nat /\ late[p] <= faults /\ faults \in Nat /\ faults' \in Nat
      BY <1>1 DEF Typed, UnderWay
    <2>2. \A p \in Ops : late'[p] <= faults'
      BY <2>1
    <2> QED
      BY <1>1, <2>2, Zenon DEF UnderWay
  <1> QED
    BY <1>1, <1>2, <1>3, <1>4, Zenon DEF WorkerInv, Rest

(* A claim takes its source node from a receipt that the user's content has. *)
LEMMA ClaimStep ==
    ASSUME WorkerInv, NEW o \in Ops, Claim(o)
    PROVE  WorkerInv'
  <1>0. /\ Fixed /\ Still /\ late' = late /\ taken' = taken /\ foreign' = foreign /\ asks' = asks
        /\ faults' = faults /\ Claimable(o) /\ worker.at = "idle"
    BY Zenon DEF Claim, Fixed, Still, provider, bounds
  <1>1. /\ Typed /\ Knows(o) /\ Once(o) /\ asks' \in 0..MaxAsks /\ faults' \in 0..MaxFaults /\ faults' >= faults
        /\ Ops' = Ops /\ script' = script
    <2>1. /\ Typed /\ Knows(o) /\ Once(o) /\ Ops' = Ops /\ script' = script
          /\ asks' \in 0..MaxAsks /\ faults' \in 0..MaxFaults
      BY <1>0, FixedFacts, ZenonT(60) DEF WorkerInv, Rest, Typed, Fixed
    <2>2. faults' >= faults
      BY <1>0, <2>1, BoundAssumption
    <2> QED
      BY <2>1, <2>2
  <1>2. /\ RowsOf(o) /\ row[o].state \in Waiting
        /\ row'[o].state = IF row[o].state = "pending" THEN "applying" ELSE "verifying"
        /\ row'[o].source = "own" /\ row'[o].before = Before(o)
        /\ worker' \in Workers /\ worker'.op = o /\ worker'.at = FirstStep(o)
    BY <1>1, ClaimFacts, ZenonT(60) DEF Knows
  <1>3. Seen(Before(o), item)
    <2>1. CASE row[o].source = "own"
      BY <1>1, <2>1, Zenon DEF Knows, Before
    <2>2. CASE row[o].source # "own"
      <3>1. o # 1
        BY <1>1, <2>2, Zenon DEF Knows
      <3>2. o - 1 \in Ops /\ o - 1 \in 1..(o - 1) /\ o - 1 # Len(script)
        BY <1>1, <3>1, OpFacts, Zenon DEF Typed
      <3>3. row[o - 1].state \in {"applied", "discarded"}
        BY <1>0, <3>2, Zenon DEF Claimable
      <3>4. Knows(o - 1)
        BY <3>2 DEF WorkerInv, Rest
      <3>5. Seen(row[o - 1].receipt, item)
        BY <3>2, <3>3, <3>4, Zenon DEF Knows
      <3>6. Before(o) = row[o - 1].receipt
        BY <2>2, Zenon DEF Before
      <3> QED
        BY <3>5, <3>6, Zenon
    <2> QED
      BY <2>1, <2>2
  <1>4. Knows(o)'
    <2>1. Seen(row[o].before, item)'
      BY <1>0, <1>2, <1>3, Zenon DEF Seen, Echo, Still, Original
    <2>2. row'[o].state \notin {"applied", "discarded"}
      BY <1>2, Zenon
    <2> QED
      BY <1>2, <2>1, <2>2, Zenon DEF Knows
  <1>5. Once(o)'
    <2>1. CASE script[o] = "mkdir"
      <3>1. Open(o)' => row[o].state = "pending"
        BY <1>2, <2>1, Zenon DEF Open, FirstStep, Waiting
      <3>2. Open(o)' => Open(o)
        BY <3>1, Zenon DEF Open
      <3> QED
        BY <1>0, <1>1, <2>1, <3>2, Zenon DEF Once, Still
    <2>2. CASE script[o] # "mkdir"
      <3>1. Spent(o)
        BY <1>1, <2>2, Zenon DEF Once
      <3>2. row[o].source = "own" => row'[o].before = row[o].before
        BY <1>2, Zenon DEF Before
      <3>3. Spent(o)'
        BY <1>0, <1>2, <3>1, <3>2, Zenon DEF Spent, Still
      <3> QED
        BY <1>1, <2>2, <3>3, Zenon DEF Once
    <2> QED
      BY <2>1, <2>2
  <1>6. ASSUME NEW p \in Ops \ {o} PROVE Knows(p)' /\ Once(p)' /\ row'[p] = row[p]
    <2>1. Grows /\ Tallied /\ reached \subseteq reached' /\ row'[p] = row[p]
      BY <1>0, <1>2, StillFacts, Zenon DEF RowsOf
    <2>2. Open(p)' => Open(p)
      BY <1>2, <2>1, Zenon DEF Open
    <2> QED
      BY <1>0, <2>1, <2>2, KnowsKept, OnceKept, Zenon DEF Still
  <1>7. Reported'
    BY <1>2, Zenon DEF Reported, FirstStep
  <1>8. Holds'
    <2>1. row'[o].state \in Held
      BY <1>2, Zenon DEF Held
    <2>2. FirstStep(o) \in {"check", "list"} => Removal(o)
      BY DEF FirstStep
    <2>3. FirstStep(o) = "lookup" => row'[o].state = "verifying"
      BY <1>2, Zenon DEF FirstStep, Waiting
    <2>4. Removal(o) => Removal(worker.op)'
      BY <1>1, <1>2, Zenon DEF Removal
    <2> QED
      BY <1>1, <1>2, <2>1, <2>2, <2>3, <2>4, Zenon DEF Holds, Held
  <1>9. \A p \in Ops : Knows(p)' /\ Once(p)' /\ (row[p].source = "own" => row'[p].source = "own")
    BY <1>2, <1>4, <1>5, <1>6, Zenon
  <1>10. row' \in [Ops -> Rows]
    BY <1>2, Zenon DEF RowsOf
  <1> QED
    BY <1>0, <1>1, <1>2, <1>7, <1>8, <1>9, <1>10, JournalStep, Zenon

(* The content of a change recorded as applied is the user's. *)
LEMMA ReceiptSeen ==
    ASSUME WorkerInv, NEW o \in Ops, Here(o, "answer"), worker.kind = "applied",
           ReconciledState(o, worker.node) = "applied"
    PROVE  Seen(worker.node, item) /\ Happened(o)
  <1>1. /\ worker.op = o /\ Knows(o) /\ Echo(worker.node, item) /\ Happened(o) /\ row[o].source = "own"
        /\ worker.node.content = Original \/ Comparable(o, worker.node)
    BY Zenon DEF Here, WorkerInv, Rest, Reported, Holds
  <1>2. row[o].before.content = Original
    BY <1>1, Zenon DEF Knows, Seen
  <1>3. Comparable(o, worker.node) => worker.node.content = row[o].before.content
    <2> SUFFICES ASSUME Comparable(o, worker.node), row[o].before.content # worker.node.content
                 PROVE  FALSE
      BY Zenon
    <2>1. script[o] = "relocate" /\ ~Folder /\ row[o].state = "verifying" /\ row[o].before.etag # worker.node.etag
      BY Zenon DEF Comparable
    <2>2. ReconciledState(o, worker.node) \in {"conflict", "needs_review"}
      BY <2>1, Zenon DEF ReconciledState
    <2> QED
      BY <2>2, Zenon
  <1> QED
    BY <1>1, <1>2, <1>3, Zenon DEF Seen

(* Recording an answer keeps it. *)
LEMMA RecordStep ==
    ASSUME WorkerInv, NEW o \in Ops, Record(o)
    PROVE  WorkerInv'
  <1>0. /\ Fixed /\ Still /\ late' = late /\ taken' = taken /\ foreign' = foreign /\ asks' = asks
        /\ faults' = faults /\ worker' = Idle /\ Here(o, "answer") /\ worker.op = o /\ worker.at = "answer"
    BY Zenon DEF Record, Fixed, Still, provider, bounds, Here
  <1>1. /\ Typed /\ Reported /\ Knows(o) /\ Once(o)
        /\ asks' \in 0..MaxAsks /\ faults' \in 0..MaxFaults /\ faults' >= faults
    BY <1>0, BoundAssumption DEF WorkerInv, Rest, Typed
  <1>2. /\ RowsOf(o) /\ row'[o].state = Recorded(o) /\ row'[o].source = row[o].source
        /\ row'[o].before = row[o].before
        /\ row'[o].receipt = IF worker.kind = "applied" THEN worker.node ELSE row[o].receipt
    BY <1>1, RecordFacts, Zenon
  <1>3. /\ Recorded(o) = "applied" => worker.kind = "applied" /\ ReconciledState(o, worker.node) = "applied"
        /\ Recorded(o) = "pending" => worker.kind = "uncommitted"
        /\ Recorded(o) # "discarded"
    BY <1>0, <1>1, RecordedTyped, Zenon
  <1>4. Knows(o)'
    <2>1. row[o].source = "own" => Seen(row[o].before, item)'
      BY <1>0, <1>1, <1>2, Zenon DEF Knows, Seen, Echo, Still, Original
    <2>2. ASSUME row'[o].state = "applied" PROVE Seen(row[o].receipt, item)' /\ Happened(o)'
      <3>1. worker.kind = "applied" /\ Seen(worker.node, item) /\ Happened(o)
        BY <1>0, <1>2, <1>3, <2>2, ReceiptSeen, Zenon
      <3>2. row'[o].receipt = worker.node
        BY <1>2, <3>1, Zenon
      <3> QED
        BY <1>0, <3>1, <3>2, Zenon DEF Seen, Echo, Still, Original, Happened, Fixed
    <2> QED
      BY <1>1, <1>2, <1>3, <2>1, <2>2, Zenon DEF Knows
  <1>5. \A p \in Ops : Open(p)' => row'[p].state = "pending"
    BY <1>0, AtEase, Zenon
  <1>6. Grows /\ Tallied /\ reached \subseteq reached'
    BY <1>0, StillFacts
  <1>7. Once(o)'
    <2>1. script[o] = "mkdir" => ~Open(o)'
      BY <1>0, <1>1, <1>2, <1>3, <1>5, Zenon DEF Reported
    <2> QED
      BY <1>0, <1>2, <1>6, <2>1, OnceKept, Zenon DEF Still
  <1>8. ASSUME NEW p \in Ops \ {o} PROVE Knows(p)' /\ Once(p)' /\ row'[p] = row[p]
    <2>1. row'[p] = row[p]
      BY <1>2, Zenon DEF RowsOf
    <2>2. Open(p)' => Open(p)
      BY <1>5, <2>1, Zenon DEF Open
    <2> QED
      BY <1>0, <1>6, <2>1, <2>2, KnowsKept, OnceKept, Zenon DEF Still
  <1>9. \A p \in Ops : Knows(p)' /\ Once(p)' /\ (row[p].source = "own" => row'[p].source = "own")
    BY <1>2, <1>4, <1>7, <1>8, Zenon
  <1>10. worker' \in Workers /\ Reported' /\ Holds'
    BY <1>0, AtEase, Zenon
  <1>11. row' \in [Ops -> Rows]
    BY <1>2, Zenon DEF RowsOf
  <1> QED
    BY <1>0, <1>1, <1>9, <1>10, <1>11, JournalStep, Zenon

(* The user acts on rows that no worker holds. *)
LEMMA UserStep ==
    ASSUME WorkerInv, NEW o \in Ops, User(o)
    PROVE  WorkerInv'
  <1>0. /\ Fixed /\ Still /\ late' = late /\ taken' = taken /\ foreign' = foreign
        /\ faults' = faults /\ worker' = worker /\ asks < MaxAsks /\ asks' = asks + 1
    BY Zenon DEF User, RequestRetry, DiscardStuckRemoval, Fixed, Still, provider
  <1>1. /\ Typed /\ Holds /\ asks' \in 0..MaxAsks /\ faults' \in 0..MaxFaults /\ faults' >= faults
        /\ worker' \in Workers
    BY <1>0, BoundAssumption DEF WorkerInv, Rest, Typed
  <1>2. PICK s \in {"verify_required", "discarded"} :
          /\ row' = [row EXCEPT ![o].state = s] /\ row[o].state \notin Held
          /\ s = "discarded" => o = Len(script)
    BY Zenon DEF User, RequestRetry, DiscardStuckRemoval, Stuck, Held
  <1>3. /\ RowsOf(o) /\ row'[o].state = s /\ row'[o].source = row[o].source
        /\ row'[o].before = row[o].before /\ row'[o].receipt = row[o].receipt
    BY <1>1, <1>2, SetState, ZenonT(60) DEF RowStates, Waiting, Typed
  <1>4. Grows /\ Tallied /\ reached \subseteq reached'
    BY <1>0, StillFacts
  <1>5. worker.at # "idle" => row'[worker.op] = row[worker.op]
    BY <1>1, <1>2, <1>3, Zenon DEF Holds, RowsOf
  <1>6. Reported' /\ Holds'
    BY <1>0, <1>4, <1>5, GoesOn, Zenon
  <1>7. ASSUME NEW p \in Ops
        PROVE  Once(p)' /\ row'[p].source = row[p].source
    <2>1. row'[p].source = row[p].source /\ row'[p].before = row[p].before
      BY <1>3, Zenon DEF RowsOf
    <2>2. Open(p)' => Open(p)
      <3>1. CASE p = o
        BY <1>0, <1>3, <3>1, Zenon DEF Open
      <3>2. CASE p # o
        BY <1>0, <1>3, <3>2, Zenon DEF Open, RowsOf
      <3> QED
        BY <3>1, <3>2
    <2> QED
      BY <1>0, <1>4, <2>1, <2>2, OnceKept, Zenon DEF Still
  <1>8. ASSUME NEW p \in Ops PROVE Knows(p)'
    <2>1. CASE p # o
      BY <1>0, <1>3, <1>4, <2>1, KnowsKept, Zenon DEF RowsOf
    <2>2. CASE p = o
      <3>1. Knows(o)
        BY DEF WorkerInv, Rest
      <3>2. row[o].source = "own" => Seen(row[o].before, item)'
        BY <1>0, <1>3, <3>1, Zenon DEF Knows, Seen, Echo, Still, Original
      <3>3. row'[o].state # "applied"
        BY <1>3, Zenon
      <3> QED
        BY <1>0, <1>2, <1>3, <2>2, <3>1, <3>2, <3>3, Zenon DEF Knows, Fixed
    <2> QED
      BY <2>1, <2>2
  <1>9. row' \in [Ops -> Rows]
    BY <1>3, Zenon DEF RowsOf
  <1> QED
    BY <1>0, <1>1, <1>6, <1>7, <1>8, <1>9, JournalStep, Zenon

(* What others do to the item keeps it. *)
LEMMA ForeignStep ==
    ASSUME WorkerInv, Foreign
    PROVE  WorkerInv'
  <1>0. /\ Fixed /\ row' = row /\ worker' = worker /\ late' = late /\ faults' = faults /\ asks' = asks
        /\ done' = done /\ foreign < MaxForeign /\ foreign' = foreign + 1
    BY Zenon DEF Foreign, Fixed, journal
  <1>1. Typed /\ Places /\ UnderWay /\ Ops' = Ops /\ foreign' \in 0..MaxForeign
    BY <1>0, FixedFacts, BoundAssumption DEF WorkerInv, Rest, Typed
  <1>2. Grows /\ (Folder => item'.content = item.content)
    BY <1>1, ForeignItem
  <1>3. /\ reached' \subseteq Ops /\ reached \subseteq reached' /\ taken' \subseteq Ops
        /\ item'.at \in Ops => item'.at \in reached'
    <2>1. CASE reached' = reached \cup {o \in Ops : item'.at = o} /\ taken' = taken
      BY <1>1, <2>1, Zenon DEF Typed
    <2>2. CASE item' = item /\ reached' = reached /\ \E p \in Ops : taken' = taken \cup {p}
      BY <1>1, <2>2, Zenon DEF Typed, Places
    <2> QED
      BY <2>1, <2>2, Zenon DEF Foreign
  <1>4. Places'
    BY <1>1, <1>2, <1>3, <1>0, FixedFacts, Zenon DEF Places, Original
  <1>5. Typed'
    <2>1. item' \in Node
      BY <1>2 DEF Grows
    <2>2. /\ late' \in [Ops -> Nat] /\ row' \in [Ops -> Rows] /\ worker' \in Workers
          /\ faults' \in 0..MaxFaults /\ asks' \in 0..MaxAsks /\ done' \in [Ops -> Nat]
      BY <1>0, <1>1, Zenon DEF Typed
    <2> QED
      BY <1>0, <1>1, <1>3, <2>1, <2>2, TypedFrom, Zenon
  <1>6. Tallied
    BY <1>0, Zenon DEF Tallied
  <1>7. Reported' /\ Holds'
    BY <1>0, <1>2, <1>3, <1>6, GoesOn, Zenon
  <1>8. ASSUME NEW p \in Ops PROVE Knows(p)' /\ Once(p)'
    <2>1. Open(p)' => Open(p)
      BY <1>0, Zenon DEF Open
    <2> QED
      BY <1>0, <1>2, <1>3, <1>6, <2>1, KnowsKept, OnceKept, Zenon
  <1>9. UnderWay'
    BY <1>0, <1>1, Zenon DEF UnderWay
  <1> QED
    BY <1>1, <1>4, <1>5, <1>7, <1>8, <1>9, Zenon DEF WorkerInv, Rest

(* A crash and the reopening of the journal keep it. *)
LEMMA CrashStep ==
    ASSUME WorkerInv, Crash
    PROVE  WorkerInv'
  <1>0. /\ Fixed /\ Still /\ taken' = taken /\ foreign' = foreign /\ asks' = asks
        /\ faults < MaxFaults /\ faults' = faults + 1 /\ worker' = Idle
    BY Zenon DEF Crash, Fixed, Still
  <1>1. /\ Typed /\ Holds /\ asks' \in 0..MaxAsks /\ faults' \in 0..MaxFaults /\ faults' >= faults
    BY <1>0, BoundAssumption DEF WorkerInv, Rest, Typed
  <1>2. /\ row' \in [Ops -> Rows]
        /\ \A o \in Ops : /\ row'[o].source = row[o].source /\ row'[o].before = row[o].before
                          /\ row'[o].receipt = row[o].receipt
                          /\ row'[o].state = IF row[o].state \in Held THEN "verify_required" ELSE row[o].state
    BY <1>1, CrashFacts, Zenon
  <1>3. worker' \in Workers /\ Reported' /\ Holds' /\ \A p \in Ops : Open(p)' => row'[p].state = "pending"
    BY <1>0, AtEase, Zenon
  <1>4. \A p \in Ops : Open(p)' => row[p].state = "pending"
    BY <1>2, <1>3, Zenon
  <1>5. Grows /\ Tallied /\ reached \subseteq reached'
    BY <1>0, StillFacts
  <1>6. ASSUME NEW p \in Ops PROVE Knows(p)'
    <2>1. row'[p].state \in {"applied", "discarded"} => row'[p].state = row[p].state
      BY <1>2, Zenon
    <2> QED
      BY <1>0, <1>2, <1>5, <2>1, KnowsKept, Zenon
  <1>7. CASE worker.at = "send"
    <2>1. /\ worker.op \in Ops /\ Here(worker.op, "send") /\ row[worker.op].state # "pending"
          /\ late' = [late EXCEPT ![worker.op] = @ + 1]
      BY <1>1, <1>7, Zenon DEF Holds, Held, Here, Crash
    <2>2. \A p \in Ops : Open(p)' => p # worker.op /\ Open(p)
      BY <1>4, <2>1, Zenon DEF Open
    <2> QED
      BY <1>0, <1>2, <1>3, <1>6, <2>1, <2>2, GivenUp, ZenonT(60)
  <1>8. CASE worker.at # "send"
    <2>1. late' = late
      BY <1>8, Zenon DEF Crash
    <2>2. ASSUME NEW p \in Ops PROVE Once(p)'
      BY <1>0, <1>2, <1>4, <1>5, <2>1, OnceKept, Zenon DEF Still, Open
    <2> QED
      BY <1>0, <1>1, <1>2, <1>3, <1>6, <2>1, <2>2, JournalStep, Zenon
  <1> QED
    BY <1>7, <1>8

(* A step that changes nothing keeps it. *)
LEMMA StutterStep ==
    ASSUME WorkerInv, UNCHANGED vars
    PROVE  WorkerInv'
  <1>0. /\ Fixed /\ Still /\ row' = row /\ late' = late /\ taken' = taken /\ foreign' = foreign
        /\ asks' = asks /\ faults' = faults /\ worker' = worker
    BY Zenon DEF vars, Fixed, Still, provider, journal, bounds
  <1>1. worker' \in Workers /\ faults' \in 0..MaxFaults /\ faults' >= faults
    BY <1>0, BoundAssumption DEF WorkerInv, Typed
  <1>2. Grows /\ Tallied /\ reached \subseteq reached'
    BY <1>0, StillFacts
  <1>3. Reported' /\ Holds'
    BY <1>0, <1>2, GoesOn
  <1>4. \A p \in Ops : Open(p)' => Open(p)
    BY <1>0, Zenon DEF Open
  <1> QED
    BY <1>0, <1>1, <1>3, <1>4, Quiet, Zenon

(* It holds of every initial state. *)
LEMMA InitStep ==
    ASSUME Init
    PROVE  WorkerInv
  <1>1. /\ script \in Scripts /\ versions \in BOOLEAN /\ taken = {} /\ worker = Idle /\ reached = {}
        /\ foreign = 0 /\ faults = 0 /\ asks = 0
        /\ late = [o \in Ops |-> 0] /\ done = [o \in Ops |-> 0]
    BY Zenon DEF Init
  <1>2. item \in Node /\ item.content = Original /\ item.at \in {Nowhere, Home} /\ item.etag \in Nat
    <2>1. CASE script[1] = "mkdir"
      BY <2>1, NoNodeTyped, Zenon DEF Init, NoNode, Original, Nowhere
    <2>2. CASE script[1] # "mkdir"
      <3>1. item = [at |-> Home, etag |-> 1, content |-> Original, kids |-> 0]
        BY <2>2, Zenon DEF Init
      <3> QED
        BY <3>1 DEF Node, Home, Original
    <2> QED
      BY <2>1, <2>2, Zenon
  <1>3. ASSUME NEW o \in Ops
        PROVE  /\ row[o] \in Rows /\ row[o].state = "pending"
               /\ o = 1 => row[o].source = "own" /\ row[o].before = item
               /\ o # 1 => row[o].source = "receipt"
    <2>1. row[o] = [state |-> "pending", receipt |-> NoNode,
                    source |-> IF o = 1 THEN "own" ELSE "receipt",
                    before |-> IF o = 1 THEN item ELSE NoNode]
      BY Zenon DEF Init
    <2>2. "pending" \in RowStates
      BY DEF RowStates, Waiting
    <2> QED
      BY <1>2, <2>1, <2>2, NoNodeTyped DEF Rows
  <1>4. Typed
    <2>1. row = [o \in Ops |-> row[o]]
      BY Zenon DEF Init
    <2>2. row \in [Ops -> Rows]
      BY <1>3, <2>1, Zenon
    <2>3. worker \in Workers
      BY <1>1, IdleFacts, Zenon
    <2>4. foreign \in 0..MaxForeign /\ faults \in 0..MaxFaults /\ asks \in 0..MaxAsks
      BY <1>1, BoundAssumption
    <2>5. late \in [Ops -> Nat] /\ done \in [Ops -> Nat] /\ taken \subseteq Ops /\ reached \subseteq Ops
      BY <1>1
    <2> QED
      BY <1>1, <1>2, <2>2, <2>3, <2>4, <2>5, Zenon DEF Typed
  <1>5. ASSUME NEW o \in Ops PROVE Knows(o) /\ Once(o)
    <2>1. Seen(item, item)
      BY <1>2 DEF Seen, Echo
    <2>2. Knows(o)
      BY <1>3, <2>1, Zenon DEF Knows
    <2>3. done[o] = 0 /\ late[o] = 0 /\ done[o] + late[o] <= 1
      BY <1>1
    <2> QED
      BY <2>2, <2>3, Zenon DEF Once, Spent
  <1>6. worker.at = "idle"
    BY <1>1, IdleFacts, Zenon
  <1>7. Reported /\ Holds
    BY <1>6 DEF Reported, Holds
  <1>8. UnderWay
    BY <1>1 DEF UnderWay
  <1>9. Places
    <2>1. Nowhere \notin Ops /\ Home \notin Ops
      BY <1>1, OpFacts DEF Nowhere, Home
    <2> QED
      BY <1>2, <2>1, Zenon DEF Places
  <1> QED
    BY <1>4, <1>5, <1>7, <1>8, <1>9, Zenon DEF WorkerInv, Rest

(* The inductive invariant of `run_once`, the adapter and the journal's rows. *)
THEOREM WorkerInvariant == Spec => []WorkerInv
  <1>1. Init => WorkerInv
    BY InitStep
  <1>2. WorkerInv /\ [Next]_vars => WorkerInv'
    <2> SUFFICES ASSUME WorkerInv, [Next]_vars PROVE WorkerInv'
      OBVIOUS
    <2>1. ASSUME NEW o \in Ops, Work(o) PROVE WorkerInv'
      BY <2>1, ClaimStep, CheckStep, SendStep, LookupStep, RecordStep, Zenon DEF Work
    <2>2. ASSUME NEW o \in Ops, Trouble(o) PROVE WorkerInv'
      BY <2>2, RefusedStep, SendLostStep, LateStep, Zenon DEF Trouble
    <2> QED
      BY <2>1, <2>2, UserStep, ForeignStep, CrashStep, StutterStep, Zenon DEF Next
  <1> QED
    BY <1>1, <1>2, PTL DEF Spec

(* The worker's attempt and the row it holds in the journal belong together. *)
THEOREM TypeCorrect == Spec => []TypeOK
  <1>1. WorkerInv => TypeOK
    <2> SUFFICES ASSUME WorkerInv PROVE TypeOK
      OBVIOUS
    <2>1. /\ Typed /\ Holds /\ late \in [Ops -> Nat] /\ faults \in 0..MaxFaults
          /\ \A o \in Ops : late[o] <= faults
      BY Zenon DEF WorkerInv, Rest, Typed, UnderWay
    <2>2. late \in [Ops -> 0..MaxFaults]
      BY <2>1, BoundAssumption
    <2> QED
      BY <2>1, <2>2, Zenon DEF Typed, TypeOK, Rows, RowStates, Holds
  <1> QED
    BY <1>1, WorkerInvariant, PTL

(* The provider carries out a change at most once: for every sequence of     *)
(* changes and every number of lost answers, crashes and retries, what       *)
(* `reconcile_mutation` lets `run_once` send again is refused if it was done. *)
THEOREM CarriedOutAtMostOnce == Spec => []AtMostOnce
  <1>1. WorkerInv => AtMostOnce
    <2> SUFFICES ASSUME WorkerInv, NEW o \in Ops PROVE done[o] <= 1
      BY DEF AtMostOnce
    <2>1. Once(o) /\ done[o] \in Nat /\ late[o] \in Nat
      BY Zenon DEF WorkerInv, Rest, Typed
    <2> QED
      BY <2>1 DEF Once, Spent
  <1> QED
    BY <1>1, WorkerInvariant, PTL

(* A row that `run_once` records as applied stands for a change that was     *)
(* carried out or, for a rename, for an item that was seen where it belongs. *)
THEOREM AppliedIsReal == Spec => []AppliedHappened
  <1>1. WorkerInv => AppliedHappened
    BY Zenon DEF WorkerInv, Rest, Knows, Happened, AppliedHappened
  <1> QED
    BY <1>1, WorkerInvariant, PTL

(* No conditional request is carried out on content the user had not seen:   *)
(* `reconciled_state` hands no foreign edit on to the change behind it.      *)
THEOREM NothingUnseenChanged == Spec => OnlyWhatWasSeen
  <1> DEFINE A == \A o \in Ops : done'[o] # done[o] /\ script[o] # "mkdir" => item.content = Original
  <1>1. WorkerInv /\ [Next]_vars => [A]_vars
    <2> SUFFICES ASSUME WorkerInv, Next, NEW o \in Ops, done'[o] # done[o], script[o] # "mkdir"
                 PROVE  item.content = Original
      BY Zenon
    <2>1. ASSUME NEW p \in Ops, Fixed, Admits(p, row[p].before), Execute(p), row[p].source = "own"
          PROVE  item.content = Original
      <3>1. done \in [Ops -> Nat] /\ done' = [done EXCEPT ![p] = @ + 1]
        BY <2>1, Zenon DEF WorkerInv, Typed, Execute
      <3>2. p = o
        BY <3>1
      <3> QED
        BY <2>1, <3>2, Executed, Zenon
    <2>2. ASSUME NEW p \in Ops, Send(p) \/ SendLost(p) \/ ExecuteLate(p) PROVE item.content = Original
      <3>1. Fixed /\ Admits(p, row[p].before) /\ Execute(p)
        BY <2>2, Zenon DEF Send, SendLost, ExecuteLate, Fixed, Calls
      <3>2. Here(p, "send") \/ late[p] > 0
        BY <2>2, Zenon DEF Send, SendLost, ExecuteLate
      <3>3. row[p].source = "own"
        BY <3>2, SendFacts, Zenon DEF WorkerInv, Rest, UnderWay
      <3> QED
        BY <2>1, <3>1, <3>3, Zenon
    <2>3. \E p \in Ops : Send(p) \/ SendLost(p) \/ ExecuteLate(p)
      <3>1. \A p \in Ops : (Work(p) \/ Trouble(p) \/ User(p)) /\ done' # done =>
               Send(p) \/ SendLost(p) \/ ExecuteLate(p)
        BY ZenonT(60) DEF Work, Trouble, User, Claim, Check, List, Lookup, Record, Refused, RecordFails,
           RequestRetry, DiscardStuckRemoval
      <3>2. done' # done
        OBVIOUS
      <3> QED
        BY <3>1, <3>2, Zenon DEF Next, Foreign, Crash
    <2> QED
      BY <2>2, <2>3
  <1> QED
    BY <1>1, WorkerInvariant, PTL DEF Spec, OnlyWhatWasSeen
=============================================================================
