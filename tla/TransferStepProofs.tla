-------------------------- MODULE TransferStepProofs --------------------------
(***************************************************************************)
(* Proofs about TransferWorker, part one: the inductive invariant, and why *)
(* every step of the journal and of a worker keeps it, for any number of   *)
(* saves, parts, workers, sessions, faults and changes by others.          *)
(* TransferInv says who works on what, what anybody can know about the     *)
(* remote file, and that a condition once met is never met again.          *)
(***************************************************************************)
EXTENDS TransferWorker, TLAPS

(* Where a worker can be, and the shapes of what it keeps, asks and hears. *)
Asking == {"put", "get", "open", "inspect", "part", "commit", "stat", "recheck"}
OnSession == {"inspect", "part", "commit"}
Stations == Asking \cup {"idle", "load", "save", "record", "clean", "requeue", "sweep"}
States == Active \cup Final \cup {"Pending", "VerifyRequired"}
RunType == [at : Stations, op : 0..MaxSaves, sid : 0..MaxSessions, part : Nat, seen : FileType]
RequestType == [is : Asking \cup {None}, op : 0..MaxSaves, sid : 0..MaxSessions, part : Nat,
                want : FileType]
AnswerType == [is : {None, "complete", "conflict", "fresh", "failed", "busy", "next", "gone",
                     "lost", "found"},
               sid : 0..MaxSessions, part : Nat, file : FileType]
SessionType == [Sids -> [is : {"free", "open", "gone"}, got : Nat]]

(* The types of the journal, of the workers and of the provider. *)
JournalTypes ==
    /\ state \in [Saves -> States] /\ size \in [Saves -> Nat]
    /\ attempt \in [Saves -> Workers \cup {None}] /\ vault \in [Saves -> 0..MaxSessions]
    /\ want \in [Saves -> FileType] /\ receipt \in [Saves -> FileType]
WorkerTypes ==
    /\ run \in [Workers -> RunType] /\ call \in [Workers -> RequestType]
    /\ reply \in [Workers -> AnswerType] /\ late \subseteq RequestType
CloudTypes ==
    /\ file \in FileType /\ clock \in Nat /\ sess \in SessionType
    /\ landed \in [Saves -> Nat] /\ removals \in Nat

(* What anybody has been told about the file is the file of its time: an     *)
(* ETag names one version, and a save seen in it has landed.                 *)
KnownIn(f, now, latest, times) ==
    /\ f.etag <= latest
    /\ f.etag = 0 => f = NoFile
    /\ f.etag = now.etag => f = now
    /\ f.text \in Saves => times[f.text] > 0
Known(f) == KnownIn(f, file, clock, landed)

(* What save o is based on: the file it began with, or the receipt before. *)
FirstBase == IF First = "create" THEN NoFile ELSE File(1, 1, 1, Original)
Base(o) == IF o = 1 THEN FirstBase ELSE receipt[o - 1]

(* A save: who holds it, what it is based on, and how often it has landed.   *)
(* After a replacement has landed its base is gone for good.                 *)
Landing(o) ==
    IF Creates(o) THEN landed[o] <= removals + (IF file = NoFile THEN 0 ELSE 1)
    ELSE landed[o] > 0 => landed[o] = 1 /\ Ready(o) /\ file.etag # Base(o).etag
Row(o) ==
    /\ state[o] \in Active <=> attempt[o] # None
    /\ o = 1 => want[o] = FirstBase
    /\ Known(want[o]) /\ Known(receipt[o])
    /\ state[o] = "Uploaded" => receipt[o].text = o

(* A worker at work on save o holds it, has asked what its station says, and *)
(* has its checkpoint in the vault where one is needed.                      *)
Doing(w, o) ==
    /\ run[w].op = o /\ Ready(o) /\ want[o] = Base(o)
    /\ IF run[w].at = "sweep" THEN state[o] = "Uploaded" ELSE attempt[o] = w
    /\ run[w].at \in {"save", "record"} => run[w].sid \in Sids
    /\ run[w].at \in {"record", "part", "commit"} => vault[o] = run[w].sid
    /\ call[w] # NoCall => call[w].is = run[w].at /\ call[w].op = o /\ call[w].want = want[o]
    /\ reply[w].is = "complete" => reply[w].file.text = o
(* It waits for one answer at a time. *)
Talking(w) ==
    /\ run[w].at \notin Asking => call[w] = NoCall /\ reply[w].is = None
    /\ reply[w].is # None => call[w] = NoCall
    /\ call[w].is \in OnSession => call[w].sid \in Sids
    /\ reply[w].is = "next" => reply[w].sid \in Sids
    /\ Known(run[w].seen) /\ Known(reply[w].file)
Working(w) == Talking(w) /\ (run[w].at = "idle" \/ \E o \in Saves : Doing(w, o))
(* A request nobody waits for stays conditioned on its save's base. *)
Pending(r) ==
    /\ r.op \in Saves /\ r.is \in Effective
    /\ r.is \in OnSession => r.sid \in Sids
    /\ state[r.op] # "absent" /\ Ready(r.op) /\ r.want = Base(r.op)

(* The inductive invariant of the transfers. *)
TransferInv ==
    /\ JournalTypes /\ WorkerTypes /\ CloudTypes
    /\ Known(file)
    /\ \A o \in Saves : Row(o) /\ Landing(o)
    /\ \A w \in Workers : Working(w)
    /\ \A r \in late : Pending(r)

-----------------------------------------------------------------------------
(* What the definitions say, before any step is taken. *)

(* A version of the file has its type, also after a write. *)
LEMMA FileTypes ==
    ASSUME CloudTypes
    PROVE  /\ NoFile \in FileType /\ FirstBase \in FileType
           /\ \A r \in RequestType : r.op \in Saves => Written(r) \in FileType
<1>1. NoFile \in FileType /\ FirstBase \in FileType
  BY TransferBounds DEF FileType, FirstBase, NoFile, File, Somebody, Original
<1>2. ASSUME NEW r \in RequestType, r.op \in Saves
      PROVE  Written(r) \in FileType
  <2>1. PICK i \in Nat : Written(r) = File(i, clock + 1, clock + 1, r.op)
    BY DEF Written, CloudTypes, FileType
  <2>2. clock + 1 \in Nat /\ r.op \in -1..MaxSaves
    BY <1>2, TransferBounds DEF CloudTypes, Saves
  <2> QED BY <2>1, <2>2 DEF FileType, File
<1> QED BY <1>1, <1>2

(* Nobody needs to be told that there may be no file. *)
LEMMA KnownNothing ==
    ASSUME CloudTypes, Known(file)
    PROVE  Known(NoFile)
<1>1. /\ NoFile.etag = 0 /\ NoFile.text = -1
      /\ file.etag = 0 => file = NoFile
  BY Zenon DEF NoFile, File, Known, KnownIn, Somebody
<1> QED BY <1>1 DEF Known, KnownIn, CloudTypes, Saves

(* The base of a save that may run exists, unless the save is a creation. *)
LEMMA BaseExists ==
    ASSUME TransferInv, NEW o \in Saves, Ready(o)
    PROVE  /\ Base(o) \in FileType /\ Known(Base(o))
           /\ ~Creates(o) => Base(o).etag # 0 /\ Base(o).text = BaseText(o)
<1>1. CASE o = 1
  <2>1. Base(o) = FirstBase /\ Known(FirstBase) /\ FirstBase \in FileType
    BY <1>1, FileTypes, Zenon DEF TransferInv, Row, Base
  <2>2. ~Creates(o) => FirstBase.etag = 1 /\ FirstBase.text = Original
    BY <1>1, Zenon DEF Creates, FirstBase, File
  <2> QED BY <1>1, <2>1, <2>2 DEF BaseText
<1>2. CASE o # 1
  <2>1. o - 1 \in Saves /\ o > 1
    BY <1>2, TransferBounds DEF Saves
  <2>2. Row(o - 1) /\ Base(o) = receipt[o - 1] /\ receipt[o - 1] \in FileType
    BY <1>2, <2>1, Zenon DEF TransferInv, JournalTypes, Base
  <2>3. Known(receipt[o - 1]) /\ receipt[o - 1].text = o - 1
    BY <2>1, <2>2, Zenon DEF Row, Ready
  <2>4. NoFile.text = -1
    BY Zenon DEF NoFile, File, Somebody
  <2>5. receipt[o - 1].etag = 0 => receipt[o - 1] = NoFile
    BY <2>3, Zenon DEF Known, KnownIn
  <2>6. receipt[o - 1].etag # 0
    BY <2>1, <2>3, <2>4, <2>5 DEF Saves
  <2> QED BY <1>2, <2>2, <2>3, <2>6, Zenon DEF BaseText
<1> QED BY <1>1, <1>2, Zenon

(* What the provider may do with a request: it answers, and the bytes land   *)
(* only where the request's condition holds.                                 *)
LEMMA OutcomeFacts ==
    ASSUME CloudTypes, NEW r \in RequestType, r.op \in Saves, r.is \in Asking,
           r.is \in OnSession => r.sid \in Sids, NEW x \in Outcomes(r)
    PROVE  /\ x.answer \in AnswerType /\ x.answer.is # None
           /\ x.answer.is = "next" => x.answer.sid \in Sids
           /\ x.sess \in SessionType
           /\ x.answer.is = "complete" => Admits(r)
           /\ x.answer.file = IF x.answer.is = "complete" THEN Written(r) ELSE
                              IF x.answer.is = "found" THEN Visible(r) ELSE NoFile
<1> DEFINE Fits(a, table) == /\ a \in AnswerType /\ a.is # None
                             /\ a.is = "next" => a.sid \in Sids
                             /\ table \in SessionType
                             /\ a.is = "complete" => Admits(r)
                             /\ a.file = IF a.is = "complete" THEN Written(r) ELSE
                                         IF a.is = "found" THEN Visible(r) ELSE NoFile
           Fine(y) == Fits(y.answer, y.sess)
<1>0. sess \in SessionType
  BY Zenon DEF CloudTypes
<1>1. NoFile \in FileType /\ Written(r) \in FileType /\ file \in FileType /\ Visible(r) \in FileType
  BY FileTypes, Zenon DEF CloudTypes, Visible
<1>2. 0 \in 0..MaxSessions /\ \A s \in Sids : s \in 0..MaxSessions
  BY TransferBounds DEF Sids
<1> SUFFICES Fine(x) OBVIOUS
<1>3. ASSUME NEW w0 \in {"conflict", "fresh", "failed", "gone", "lost"} PROVE Fine(Says(w0))
  <2>1. Fits(Answer(w0, 0, 0, NoFile), sess)
    BY <1>0, <1>1, <1>2, <1>3, Zenon DEF Answer, AnswerType, None
  <2> HIDE DEF Fits
  <2> QED BY <2>1, Zenon DEF Says, Outcome
<1>4. ASSUME NEW table \in SessionType PROVE Fine(Conditional(r, table))
  <2>1. CASE Admits(r)
    <3>1. Fits(Answer("complete", 0, 0, Written(r)), table)
      BY <2>1, <1>1, <1>2, <1>4, Zenon DEF Answer, AnswerType, None
    <3> HIDE DEF Fits
    <3> QED BY <2>1, <3>1, Zenon DEF Conditional, Outcome
  <2>2. CASE ~Admits(r)
    <3> HIDE DEF Fine
    <3> QED BY <2>2, <1>3, Zenon DEF Conditional
  <2> QED BY <2>1, <2>2, Zenon
<1>5. ASSUME NEW s \in Sids, NEW k \in Nat, NEW table \in SessionType PROVE Fine(Due(s, k, table))
  <2>1. Fits(Answer("next", s, k, NoFile), table)
    BY <1>1, <1>2, <1>5, Zenon DEF Answer, AnswerType, None
  <2> HIDE DEF Fits
  <2> QED BY <2>1, Zenon DEF Due, Outcome
<1>6. Fine(Outcome(Answer("found", 0, 0, Visible(r)), sess))
  <2>1. Fits(Answer("found", 0, 0, Visible(r)), sess)
    BY <1>0, <1>1, <1>2, Zenon DEF Answer, AnswerType, None
  <2> HIDE DEF Fits
  <2> QED BY <2>1, Zenon DEF Outcome
<1>7. \A s \in Sids : /\ Closed(s) \in SessionType /\ sess[s].got + 1 \in Nat
                      /\ \A k \in Nat : [sess EXCEPT ![s].got = k] \in SessionType
                      /\ [sess EXCEPT ![s] = [is |-> "open", got |-> 0]] \in SessionType
  BY <1>0 DEF SessionType, Closed
<1> HIDE DEF Fine
<1>8. CASE r.is = "open"
  <2>1. x \in Opened(r)
    BY <1>8 DEF Outcomes
  <2>2. \/ x = Says("conflict")
        \/ \E s \in Sids :
             x = Due(s, 1, [sess EXCEPT ![s] = [is |-> "open", got |-> 0]])
    BY <2>1, Zenon DEF Opened, FreeSids
  <2> QED BY <2>2, <1>3, <1>5, <1>7, Zenon
<1>9. CASE r.is \in OnSession
  <2>1. r.sid \in Sids /\ r.part + 1 \in Nat /\ r.part \in Nat
    BY <1>9 DEF RequestType
  <2>2. Fine(Received(r))
    BY <2>1, <1>3, <1>4, <1>5, <1>7, Zenon DEF Received
  <2>3. x \in {Says("gone"), Due(r.sid, sess[r.sid].got + 1, sess), Received(r),
               Conditional(r, Closed(r.sid))}
    BY <1>9, Zenon DEF Outcomes, OnSession
  <2> QED BY <2>1, <2>2, <2>3, <1>0, <1>3, <1>4, <1>5, <1>7, Zenon
<1>10. CASE r.is \in {"put", "get"}
  <2>1. x = Conditional(r, sess) \/ \E w0 \in {"failed", "fresh", "conflict"} : x = Says(w0)
    BY <1>10, Zenon DEF Outcomes
  <2> QED BY <2>1, <1>0, <1>3, <1>4, Zenon
<1>11. CASE r.is \in {"stat", "recheck"}
  <2>1. x = Outcome(Answer("found", 0, 0, Visible(r)), sess)
    BY <1>11, Zenon DEF Outcomes
  <2> QED BY <2>1, <1>6, Zenon
<1> QED BY <1>8, <1>9, <1>10, <1>11, Zenon DEF Asking, OnSession

(* The values a worker starts from and returns to have their types. *)
LEMMA Blank ==
    ASSUME TransferInv
    PROVE  /\ NoFile \in FileType /\ Known(NoFile) /\ Known(file)
           /\ NoCall \in RequestType /\ NoReply \in AnswerType /\ Idle \in RunType
           /\ NoCall.is = None /\ NoReply.is = None /\ NoReply.file = NoFile
           /\ Idle.at = "idle" /\ Idle.seen = NoFile /\ None \notin Workers
<1>1. NoFile \in FileType /\ Known(NoFile) /\ Known(file)
  BY FileTypes, KnownNothing, Zenon DEF TransferInv
<1>2. 0 \in 0..MaxSaves /\ 0 \in 0..MaxSessions /\ None \notin Workers
  BY TransferBounds DEF None
<1> QED BY <1>1, <1>2, Zenon DEF NoCall, RequestType, NoReply, Answer, AnswerType, Idle, At, RunType,
           Stations, None

-----------------------------------------------------------------------------
(* Steps that leave the provider alone: a worker, its save, the journal. *)

(* Only worker `who' and save o are concerned, and an acknowledged save      *)
(* keeps its base and its receipt.                                           *)
Local(who, o) ==
    /\ UNCHANGED <<server, removals>>
    /\ attempt[o] \in {None, who} /\ state'[o] # "absent"
    /\ \A v \in Workers : v # who => run'[v] = run[v] /\ call'[v] = call[v] /\ reply'[v] = reply[v]
    /\ \A p \in Saves : p # o => /\ state'[p] = state[p] /\ attempt'[p] = attempt[p]
                                 /\ want'[p] = want[p] /\ receipt'[p] = receipt[p]
                                 /\ vault'[p] = vault[p]
    /\ state[o] = "Uploaded" => /\ state'[o] = state[o] /\ want'[o] = want[o]
                                /\ receipt'[o] = receipt[o]
    /\ \A r \in late' : r \in late \/ Pending(r)

(* What a save is based on does not change once it may run. *)
LEMMA BaseKept ==
    ASSUME TransferInv, NEW who, NEW o \in Saves, Local(who, o), NEW p \in Saves, Ready(p)
    PROVE  Ready(p)' /\ Base(p)' = Base(p)
<1>1. CASE p = 1
  BY <1>1 DEF Ready, Base
<1>2. CASE p # 1
  <2>1. p - 1 \in Saves /\ p > 1
    BY <1>2, TransferBounds DEF Saves
  <2>2. state[p - 1] = "Uploaded"
    BY <2>1 DEF Ready
  <2>3. state'[p - 1] = "Uploaded" /\ receipt'[p - 1] = receipt[p - 1]
    BY <2>1, <2>2, Zenon DEF Local
  <2> QED BY <1>2, <2>3, Zenon DEF Ready, Base
<1> QED BY <1>1, <1>2

(* A local step keeps the invariant if it keeps it for the worker and the    *)
(* save it concerns.                                                         *)
LEMMA LocalStep ==
    ASSUME TransferInv, NEW who, NEW o \in Saves, Local(who, o),
           JournalTypes', WorkerTypes', Row(o)', who \in Workers => Working(who)'
    PROVE  TransferInv'
<1>1. CloudTypes' /\ Known(file)'
  BY Zenon DEF TransferInv, CloudTypes, Known, Local, server
<1>2. ASSUME NEW p \in Saves, p # o PROVE Row(p)'
  BY <1>2 DEF TransferInv, Row, Known, Local, server
<1>3. ASSUME NEW p \in Saves PROVE Landing(p)'
  <2>1. Landing(p)
    BY Zenon DEF TransferInv
  <2>2. Ready(p) => Ready(p)' /\ Base(p)' = Base(p)
    BY BaseKept, Zenon
  <2> QED BY <2>1, <2>2, Zenon DEF Landing, Local, server
<1>4. ASSUME NEW v \in Workers, v # who PROVE Working(v)'
  <2>1. /\ run'[v] = run[v] /\ call'[v] = call[v] /\ reply'[v] = reply[v]
        /\ UNCHANGED <<file, clock, landed>> /\ attempt[o] \in {None, who} /\ v # None
    BY <1>4, TransferBounds, Zenon DEF Local, server, None
  <2>2. Talking(v)'
    BY <2>1, Zenon DEF TransferInv, Working, Talking, Known
  <2>3. ASSUME NEW p \in Saves, Doing(v, p) PROVE Doing(v, p)'
    <3>1. /\ Ready(p)' /\ Base(p)' = Base(p)
          /\ IF run[v].at = "sweep" THEN state[p] = "Uploaded" ELSE p # o
      BY <1>4, <2>1, <2>3, BaseKept, Zenon DEF Doing
    <3>2. /\ want'[p] = want[p]
          /\ run[v].at = "sweep" => state'[p] = state[p]
          /\ run[v].at # "sweep" => attempt'[p] = attempt[p] /\ vault'[p] = vault[p]
      BY <3>1, Zenon DEF Local
    <3> QED BY <2>1, <2>3, <3>1, <3>2, Zenon DEF Doing
  <2> QED BY <2>1, <2>2, <2>3, Zenon DEF TransferInv, Working
<1>5. ASSUME NEW r \in late' PROVE Pending(r)'
  <2>1. Pending(r) /\ r.op \in Saves
    BY Zenon DEF TransferInv, Pending, Local
  <2>2. PICK p \in Saves : p = r.op
    BY <2>1
  <2>4. Ready(p) /\ state[p] # "absent"
    BY <2>1, <2>2, Zenon DEF Pending
  <2>5. Ready(p)' /\ Base(p)' = Base(p)
    BY <2>4, BaseKept, Zenon
  <2>6. state'[p] # "absent"
    BY <2>4, Zenon DEF Local
  <2>3. Ready(p)' /\ Base(p)' = Base(p) /\ state'[p] # "absent"
    BY <2>5, <2>6, Zenon
  <2> QED BY <2>1, <2>2, <2>3, Zenon DEF Pending
<1> QED BY <1>1, <1>2, <1>3, <1>4, <1>5, Zenon DEF TransferInv

(* Worker w takes a step of its own on save o: the row goes to state s, held *)
(* by t with receipt f and checkpoint k; the worker goes to `next', with     *)
(* request c on the wire and answer a at hand.                               *)
Moves(w, o, s, t, f, k, next, c, a) ==
    /\ state' = [state EXCEPT ![o] = s] /\ attempt' = [attempt EXCEPT ![o] = t]
    /\ want' = [want EXCEPT ![o] = Base(o)] /\ receipt' = [receipt EXCEPT ![o] = f]
    /\ vault' = [vault EXCEPT ![o] = k]
    /\ run' = [run EXCEPT ![w] = next] /\ call' = [call EXCEPT ![w] = c]
    /\ reply' = [reply EXCEPT ![w] = a]
    /\ late' \subseteq Abandoned({w})
    /\ UNCHANGED <<size, file, clock, sess, landed, removals>>
(* The row is as it should be, and what was acknowledged stays so. *)
RowFits(w, o, s, t, f) ==
    /\ s \in States \ {"absent"} /\ t \in Workers \cup {None} /\ f \in FileType /\ Known(f)
    /\ s \in Active <=> t # None
    /\ s = "Uploaded" => f.text = o
    /\ state[o] = "Uploaded" => s = "Uploaded" /\ f = receipt[o]
    /\ attempt[o] \in {None, w}
(* The worker is as it should be. *)
WorkFits(w, o, s, t, k, next, c, a) ==
    /\ next \in RunType /\ c \in RequestType /\ a \in AnswerType /\ k \in 0..MaxSessions
    /\ Known(next.seen) /\ Known(a.file)
    /\ next.at \notin Asking => c = NoCall /\ a.is = None
    /\ a.is # None => c = NoCall
    /\ c.is \in OnSession => c.sid \in Sids
    /\ a.is = "next" => a.sid \in Sids
    /\ next.at # "idle" =>
         /\ next.op = o
         /\ IF next.at = "sweep" THEN s = "Uploaded" ELSE t = w
         /\ next.at \in {"save", "record"} => next.sid \in Sids
         /\ next.at \in {"record", "part", "commit"} => k = next.sid
         /\ c # NoCall => c.is = next.at /\ c.op = o /\ c.want = Base(o)
         /\ a.is = "complete" => a.file.text = o

(* The request that a worker has on the wire belongs to its save. *)
LEMMA GivenUp ==
    ASSUME TransferInv, NEW w \in Workers, call[w].is \in Effective
    PROVE  call[w] \in RequestType /\ Pending(call[w])
<1>1. /\ Working(w) /\ call[w] \in RequestType /\ call[w] # NoCall
  BY Blank, Zenon DEF TransferInv, WorkerTypes, Effective, None
<1>2. run[w].at # "idle" /\ (call[w].is \in OnSession => call[w].sid \in Sids)
  BY <1>1, Zenon DEF Working, Talking, Asking
<1>3. PICK o \in Saves : Doing(w, o)
  BY <1>1, <1>2, Zenon DEF Working
<1>4. /\ call[w].is = run[w].at /\ call[w].op = o /\ call[w].want = Base(o) /\ Ready(o)
      /\ run[w].at # "sweep" /\ attempt[o] = w
  BY <1>1, <1>3, Zenon DEF Doing, Effective
<1>5. state[o] # "absent"
  BY <1>4, Blank, ZenonT(60) DEF TransferInv, Row, Active
<1> QED BY <1>1, <1>2, <1>4, <1>5, Zenon DEF Pending

(* Such a step keeps the invariant. *)
LEMMA Moved ==
    ASSUME TransferInv, NEW w \in Workers, NEW o \in Saves, Ready(o),
           NEW s, NEW t, NEW f, NEW k, NEW next, NEW c, NEW a,
           Moves(w, o, s, t, f, k, next, c, a),
           RowFits(w, o, s, t, f), WorkFits(w, o, s, t, k, next, c, a),
           state[o] = "Uploaded" => want[o] = Base(o)
    PROVE  TransferInv'
<1>1. /\ JournalTypes /\ WorkerTypes /\ Row(o) /\ Base(o) \in FileType /\ Known(Base(o))
  BY BaseExists, Zenon DEF TransferInv
<1>2. /\ state'[o] = s /\ attempt'[o] = t /\ receipt'[o] = f /\ vault'[o] = k
      /\ want'[o] = Base(o)
      /\ \A p \in Saves : p # o => /\ state'[p] = state[p] /\ attempt'[p] = attempt[p]
                                   /\ want'[p] = want[p] /\ receipt'[p] = receipt[p]
                                   /\ vault'[p] = vault[p]
  BY <1>1, Zenon DEF Moves, JournalTypes
<1>3. /\ run'[w] = next /\ call'[w] = c /\ reply'[w] = a
      /\ \A v \in Workers : v # w => run'[v] = run[v] /\ call'[v] = call[v] /\ reply'[v] = reply[v]
  BY <1>1, Zenon DEF Moves, WorkerTypes
<1>4. ASSUME NEW r \in late' PROVE r \in RequestType /\ Pending(r)
  <2>1. r \in late \/ (r = call[w] /\ call[w].is \in Effective)
    BY Zenon DEF Moves, Abandoned
  <2> QED BY <1>1, <2>1, GivenUp, Zenon DEF TransferInv, WorkerTypes
<1>5. Local(w, o)
  <2>1. attempt[o] \in {None, w} /\ s # "absent"
        /\ (state[o] = "Uploaded" => s = "Uploaded" /\ f = receipt[o])
    BY Zenon DEF RowFits
  <2>2. UNCHANGED <<server, removals>>
    BY Zenon DEF Moves, server
  <2> QED BY <1>2, <1>3, <1>4, <2>1, <2>2, Zenon DEF Local
<1>6. JournalTypes'
  BY <1>1, Zenon DEF JournalTypes, Moves, RowFits, WorkFits
<1>7. WorkerTypes'
  BY <1>1, <1>4, Zenon DEF WorkerTypes, Moves, WorkFits
<1>8. UNCHANGED <<file, clock, landed>> /\ Ready(o)' /\ Base(o)' = Base(o)
  BY <1>5, BaseKept, Zenon DEF Moves
<1>9. Row(o)'
  BY <1>1, <1>2, <1>8, Zenon DEF Row, Known, RowFits, Base
<1>10. Talking(w)'
  BY <1>3, <1>8, Zenon DEF WorkFits, Talking, Known
<1>11. next.at # "idle" => Doing(w, o)'
  BY <1>2, <1>3, <1>8, Zenon DEF WorkFits, Doing
<1> QED BY <1>3, <1>5, <1>6, <1>7, <1>9, <1>10, <1>11, LocalStep, Zenon DEF Working

(* What a worker at work may rely on, its save being o. *)
Busy(w, o) ==
    /\ Doing(w, o) /\ Talking(w)
    /\ run[w] \in RunType /\ run[w].op = o /\ Ready(o) /\ want[o] = Base(o)
    /\ RowFits(w, o, state[o], attempt[o], receipt[o]) /\ vault[o] \in 0..MaxSessions
    /\ Base(o) \in FileType
    /\ run[w].at # "sweep" => attempt[o] = w /\ state[o] \in Active

(* A worker that is not idle is at work on one save. *)
LEMMA AtWork ==
    ASSUME TransferInv, NEW w \in Workers, run[w].at # "idle"
    PROVE  \E o \in Saves : Busy(w, o)
<1>1. /\ JournalTypes /\ Working(w) /\ run[w] \in RunType
  BY Zenon DEF TransferInv, WorkerTypes
<1>2. PICK o \in Saves : Doing(w, o)
  BY <1>1 DEF Working
<1>3. /\ Row(o) /\ Talking(w) /\ Ready(o) /\ Base(o) \in FileType
      /\ run[w].op = o /\ want[o] = Base(o)
      /\ IF run[w].at = "sweep" THEN state[o] = "Uploaded" ELSE attempt[o] = w
  BY <1>1, <1>2, BaseExists, Zenon DEF TransferInv, Working, Doing
<1>4. state[o] # "absent" /\ (run[w].at # "sweep" => state[o] \in Active)
  BY <1>3, Blank, Zenon DEF Row, Active
<1>5. attempt[o] \in {None, w}
  BY <1>3, Zenon DEF Row, Active
<1>6. RowFits(w, o, state[o], attempt[o], receipt[o])
  BY <1>1, <1>3, <1>4, <1>5, Zenon DEF RowFits, JournalTypes, Row
<1> QED BY <1>1, <1>2, <1>3, <1>4, <1>6, Zenon DEF Busy, JournalTypes

(* Leaving a row as it is, is a change too. *)
LEMMA SameRow ==
    ASSUME TransferInv, NEW o \in Saves
    PROVE  /\ UNCHANGED state => state' = [state EXCEPT ![o] = state[o]]
           /\ \A t : UNCHANGED attempt /\ attempt[o] = t => attempt' = [attempt EXCEPT ![o] = t]
           /\ \A b : UNCHANGED want /\ want[o] = b => want' = [want EXCEPT ![o] = b]
           /\ UNCHANGED receipt => receipt' = [receipt EXCEPT ![o] = receipt[o]]
           /\ UNCHANGED vault => vault' = [vault EXCEPT ![o] = vault[o]]
<1>1. JournalTypes
  BY Zenon DEF TransferInv
<1>2. /\ state = [state EXCEPT ![o] = state[o]] /\ attempt = [attempt EXCEPT ![o] = attempt[o]]
      /\ want = [want EXCEPT ![o] = want[o]] /\ receipt = [receipt EXCEPT ![o] = receipt[o]]
      /\ vault = [vault EXCEPT ![o] = vault[o]]
  BY <1>1, Zenon DEF JournalTypes
<1>3. \A t : UNCHANGED attempt /\ attempt[o] = t => attempt' = [attempt EXCEPT ![o] = t]
  BY <1>2, Zenon
<1>4. \A b : UNCHANGED want /\ want[o] = b => want' = [want EXCEPT ![o] = b]
  BY <1>2, Zenon
<1>5. /\ UNCHANGED state => state' = [state EXCEPT ![o] = state[o]]
      /\ UNCHANGED receipt => receipt' = [receipt EXCEPT ![o] = receipt[o]]
      /\ UNCHANGED vault => vault' = [vault EXCEPT ![o] = vault[o]]
  BY <1>2, Zenon
<1> QED BY <1>3, <1>4, <1>5, Zenon
(* So is leaving a worker where it is. *)
LEMMA SameWork ==
    ASSUME TransferInv, NEW w \in Workers
    PROVE  /\ UNCHANGED run => run' = [run EXCEPT ![w] = run[w]]
           /\ \A c : UNCHANGED call /\ call[w] = c => call' = [call EXCEPT ![w] = c]
           /\ UNCHANGED reply => reply' = [reply EXCEPT ![w] = reply[w]]
<1>1. WorkerTypes
  BY Zenon DEF TransferInv
<1>2. /\ run = [run EXCEPT ![w] = run[w]] /\ call = [call EXCEPT ![w] = call[w]]
      /\ reply = [reply EXCEPT ![w] = reply[w]]
  BY <1>1, Zenon DEF WorkerTypes
<1>4. \A c : UNCHANGED call /\ call[w] = c => call' = [call EXCEPT ![w] = c]
  BY <1>2, Zenon
<1>5. /\ UNCHANGED run => run' = [run EXCEPT ![w] = run[w]]
      /\ UNCHANGED reply => reply' = [reply EXCEPT ![w] = reply[w]]
  BY <1>2, Zenon
<1> QED BY <1>4, <1>5, Zenon
(* A step that abandons nothing. *)
LEMMA SameLate ==
    ASSUME NEW w \in Workers, UNCHANGED late
    PROVE  late' \subseteq Abandoned({w})
  BY Zenon DEF Abandoned

(* No answer is at hand. *)
Quiet(a) == a \in AnswerType /\ a.is = None /\ Known(a.file)
(* A worker may rest at any time. *)
LEMMA Rest ==
    ASSUME TransferInv, NEW w \in Workers, NEW o \in Saves, NEW s, NEW t,
           NEW k \in 0..MaxSessions, NEW a, Quiet(a)
    PROVE  WorkFits(w, o, s, t, k, Idle, NoCall, a)
  BY Blank, Zenon DEF WorkFits, Quiet, None, OnSession
(* It may ask about the save that it holds. *)
LEMMA Asks ==
    ASSUME TransferInv, NEW w \in Workers, NEW o \in Saves, Base(o) \in FileType,
           NEW is \in Asking, NEW next \in RunType, NEW c \in RequestType, NEW s,
           next.at = is, next.op = o, Known(next.seen),
           c.is = is, c.op = o, c.want = Base(o), is \in OnSession => c.sid \in Sids,
           NEW k \in 0..MaxSessions, is \in {"part", "commit"} => k = next.sid, NEW a, Quiet(a)
    PROVE  WorkFits(w, o, s, w, k, next, c, a)
<1>1. is \notin {"idle", "sweep", "save", "record"}
  BY Zenon DEF Asking
<1> QED BY <1>1, Zenon DEF WorkFits, Quiet, None, OnSession
(* It may go to a place where it asks nothing. *)
LEMMA Goes ==
    ASSUME TransferInv, NEW w \in Workers, NEW o \in Saves, NEW next \in RunType, NEW s, NEW t,
           next.at \notin Asking, next.op = o, Known(next.seen),
           IF next.at = "sweep" THEN s = "Uploaded" ELSE t = w,
           next.at \in {"save", "record"} => next.sid \in Sids,
           NEW k \in 0..MaxSessions, next.at = "record" => k = next.sid, NEW a, Quiet(a)
    PROVE  WorkFits(w, o, s, t, k, next, NoCall, a)
<1>1. next.at \notin {"part", "commit"} /\ NoCall.is \notin OnSession
  BY Blank, Zenon DEF Asking, OnSession, None
<1> QED BY <1>1, Blank, Zenon DEF WorkFits, Quiet, None

(* An attempt ends without a result; its checkpoint may have been written. *)
LEMMA Stopped ==
    ASSUME TransferInv, NEW w \in Workers, run[w].at \notin {"idle", "sweep"}, call[w] = NoCall,
           NEW s \in {"Pending", "VerifyRequired", "Conflict", "Failed"}, Stop(w, s),
           NEW k \in 0..MaxSessions, vault' = [vault EXCEPT ![run[w].op] = k],
           NEW a, Quiet(a), reply' = [reply EXCEPT ![w] = a],
           UNCHANGED <<call, late, server, removals>>
    PROVE  TransferInv'
<1>1. PICK o \in Saves : Busy(w, o)
  BY AtWork, Zenon
<1>2. run[w].op = o /\ want[o] = Base(o) /\ Ready(o) /\ state[o] \in Active
  BY <1>1, Zenon DEF Busy
<1>3. Moves(w, o, s, None, receipt[o], k, Idle, NoCall, a)
  <2>1. UNCHANGED <<size, want, receipt, file, clock, sess, landed>>
    BY Zenon DEF Stop, server
  <2>2. want' = [want EXCEPT ![o] = Base(o)] /\ receipt' = [receipt EXCEPT ![o] = receipt[o]]
    BY <1>2, <2>1, SameRow, Zenon
  <2>4. call' = [call EXCEPT ![w] = NoCall] /\ late' \subseteq Abandoned({w})
    BY SameWork, SameLate, Zenon
  <2>3. /\ state' = [state EXCEPT ![o] = s] /\ attempt' = [attempt EXCEPT ![o] = None]
        /\ vault' = [vault EXCEPT ![o] = k] /\ run' = [run EXCEPT ![w] = Idle]
    BY <1>2, Zenon DEF Stop
  <2> QED BY <2>1, <2>2, <2>3, <2>4, Zenon DEF Moves
<1>4. RowFits(w, o, s, None, receipt[o])
  BY <1>1, <1>2, Zenon DEF Busy, RowFits, States, Active, Final
<1>5. WorkFits(w, o, s, None, k, Idle, NoCall, a)
  BY Rest, Zenon
<1> QED BY <1>2, <1>3, <1>4, <1>5, Moved, Zenon

(* An attempt ends with a receipt: bytes of its own that are known to have   *)
(* become the file.                                                          *)
LEMMA Acknowledged ==
    ASSUME TransferInv, NEW w \in Workers, run[w].at \notin {"idle", "sweep"}, call[w] = NoCall,
           NEW f \in FileType, Known(f), f.text = run[w].op, Acknowledge(w, f), Heard(w),
           UNCHANGED <<vault, late, server, removals>>
    PROVE  TransferInv'
<1>1. PICK o \in Saves : Busy(w, o)
  BY AtWork, Zenon
<1> DEFINE next == [run[w] EXCEPT !.at = "sweep"]
<1>2. /\ run[w].op = o /\ want[o] = Base(o) /\ Ready(o) /\ state[o] \in Active
      /\ vault[o] \in 0..MaxSessions /\ run[w] \in RunType /\ Known(run[w].seen)
  BY <1>1, Zenon DEF Busy, Talking
<1>3. /\ next \in RunType /\ next.at = "sweep" /\ next.op = o /\ next.seen = run[w].seen
      /\ run' = [run EXCEPT ![w] = next]
  BY <1>2, Zenon DEF RunType, Stations, Acknowledge
<1> HIDE DEF next
<1>4. Moves(w, o, "Uploaded", None, f, vault[o], next, NoCall, NoReply)
  <2>1. UNCHANGED <<size, want, call, file, clock, sess, landed>>
    BY Zenon DEF Acknowledge, server
  <2>2. want' = [want EXCEPT ![o] = Base(o)] /\ vault' = [vault EXCEPT ![o] = vault[o]]
    BY <1>2, <2>1, SameRow, Zenon
  <2>4. call' = [call EXCEPT ![w] = NoCall] /\ late' \subseteq Abandoned({w})
    BY <2>1, SameWork, SameLate, Zenon
  <2>3. /\ state' = [state EXCEPT ![o] = "Uploaded"] /\ attempt' = [attempt EXCEPT ![o] = None]
        /\ receipt' = [receipt EXCEPT ![o] = f] /\ reply' = [reply EXCEPT ![w] = NoReply]
    BY <1>2, Zenon DEF Acknowledge, Heard
  <2> QED BY <1>3, <2>1, <2>2, <2>3, <2>4, Zenon DEF Moves
<1>5. RowFits(w, o, "Uploaded", None, f)
  BY <1>1, <1>2, Zenon DEF Busy, RowFits, States, Active, Final
<1>6. Quiet(NoReply)
  BY Blank, Zenon DEF Quiet
<1>7. WorkFits(w, o, "Uploaded", None, vault[o], next, NoCall, NoReply)
  BY <1>2, <1>3, <1>6, Goes, Zenon DEF Asking
<1> QED BY <1>2, <1>4, <1>5, <1>7, Moved, Zenon

(* A worker that asks nothing has nothing on the wire. *)
LEMMA Silent ==
    ASSUME TransferInv, NEW w \in Workers, run[w].at \notin Asking
    PROVE  call[w] = NoCall /\ Quiet(reply[w])
  BY Zenon DEF TransferInv, WorkerTypes, Working, Talking, Quiet
(* Nor has one that has been answered. *)
LEMMA Answered ==
    ASSUME TransferInv, NEW w \in Workers, reply[w].is # None
    PROVE  /\ call[w] = NoCall /\ run[w].at \in Asking /\ Quiet(NoReply)
           /\ reply[w] \in AnswerType /\ reply[w].file \in FileType /\ Known(reply[w].file)
           /\ reply[w].is = "next" => reply[w].sid \in Sids
<1>1. reply[w] \in AnswerType /\ Working(w)
  BY Zenon DEF TransferInv, WorkerTypes
<1>2. reply[w].file \in FileType
  BY <1>1, Zenon DEF AnswerType
<1> QED BY <1>1, <1>2, Blank, Zenon DEF Working, Talking, Quiet

(* The attempt goes on. *)
LEMMA Proceeds ==
    ASSUME TransferInv, NEW w \in Workers, NEW o \in Saves, Busy(w, o), run[w].at # "sweep",
           NEW s \in Active, NEW k, NEW next, NEW c, NEW a,
           Moves(w, o, s, w, receipt[o], k, next, c, a), WorkFits(w, o, s, w, k, next, c, a)
    PROVE  TransferInv'
<1>1. Ready(o) /\ want[o] = Base(o)
  BY Zenon DEF Busy
<1>2. RowFits(w, o, s, w, receipt[o])
  BY Blank, Zenon DEF Busy, RowFits, States, Active
<1> QED BY <1>1, <1>2, Moved, Zenon

-----------------------------------------------------------------------------
(* The journal's and the workers' actions. *)

(* enqueue, enqueue_after and request_retry change the row of one save. *)
LEMMA RowStep ==
    ASSUME TransferInv, NEW o \in Saves, Enqueue(o) \/ RequestRetry(o)
    PROVE  TransferInv'
<1>1. /\ state[o] \in {"absent", "Failed"}
      /\ state' = [state EXCEPT ![o] = IF state[o] = "absent" THEN "Pending" ELSE "VerifyRequired"]
      /\ UNCHANGED <<attempt, want, receipt, vault, run, call, reply, late, server, removals>>
  BY Zenon DEF Enqueue, RequestRetry, server
<1>2. size' \in [Saves -> Nat]
  BY TransferBounds, Zenon DEF Enqueue, RequestRetry, TransferInv, JournalTypes
<1>3. JournalTypes /\ WorkerTypes /\ Row(o) /\ attempt[o] = None /\ \A r \in late : Pending(r)
  BY <1>1, Zenon DEF TransferInv, Row, Active
<1>4. state'[o] \in {"Pending", "VerifyRequired"}
  BY <1>1, <1>3, Zenon DEF JournalTypes
<1>5. Local(None, o)
  BY <1>1, <1>3, <1>4, Zenon DEF Local, server, JournalTypes
<1>6. JournalTypes' /\ WorkerTypes'
  BY <1>1, <1>2, <1>3, Zenon DEF JournalTypes, WorkerTypes, States
<1>7. Row(o)'
  BY <1>1, <1>3, <1>4, Zenon DEF Row, Known, server, Active
<1> QED BY <1>5, <1>6, <1>7, Blank, LocalStep, Zenon

(* A claim binds the receipt of the previous save as the base. *)
LEMMA ClaimStep ==
    ASSUME TransferInv, NEW w \in Workers, Claim(w)
    PROVE  TransferInv'
<1> DEFINE base(o) == IF o > 1 THEN receipt[o - 1] ELSE want[o]
           ask(o) == [Request(BeginCall(o), o, 0, 0) EXCEPT !.want = base(o)]
           Starts(o, s, next, c) == /\ state[o] \in {"Pending", "VerifyRequired"} /\ Ready(o)
                                    /\ state' = [state EXCEPT ![o] = s]
                                    /\ attempt' = [attempt EXCEPT ![o] = w]
                                    /\ want' = [want EXCEPT ![o] = base(o)]
                                    /\ run' = [run EXCEPT ![w] = next]
                                    /\ call' = [call EXCEPT ![w] = c]
<1>1. /\ run[w] = Idle /\ call[w] = NoCall /\ Quiet(reply[w]) /\ w # None
      /\ UNCHANGED <<size, receipt, vault, reply, late, server, removals>>
  BY Blank, Silent, Zenon DEF Claim, Asking
<1>2. PICK o \in Saves : \/ Starts(o, "Verifying", At("load", o, 0, 0, NoFile), NoCall)
                         \/ Starts(o, "Uploading", At(BeginCall(o), o, 0, 0, NoFile), ask(o))
  BY <1>1, SameWork, Zenon DEF Claim, Claimable, Ask
<1>3. PICK s \in Active, at \in {"load", "put", "open", "get"}, c \in {NoCall, ask(o)} :
        /\ Starts(o, s, At(at, o, 0, 0, NoFile), c)
        /\ IF at = "load" THEN c = NoCall ELSE at = BeginCall(o) /\ c = ask(o)
  BY <1>2, Zenon DEF Active, BeginCall
<1> DEFINE next == At(at, o, 0, 0, NoFile)
<1>4. /\ state[o] \in {"Pending", "VerifyRequired"} /\ Ready(o) /\ Row(o) /\ JournalTypes
      /\ vault[o] \in 0..MaxSessions /\ o \in 0..MaxSaves /\ 0 \in 0..MaxSessions
  BY <1>3, TransferBounds DEF TransferInv, JournalTypes, Saves
<1>5. base(o) = Base(o) /\ Base(o) \in FileType
  BY <1>4, BaseExists DEF Base, Row, Saves
<1>6. Moves(w, o, s, w, receipt[o], vault[o], next, c, reply[w])
  <2>1. UNCHANGED <<size, file, clock, sess, landed, removals>>
    BY <1>1, Zenon DEF server
  <2>2. receipt' = [receipt EXCEPT ![o] = receipt[o]] /\ vault' = [vault EXCEPT ![o] = vault[o]]
    BY <1>1, SameRow, Zenon
  <2>4. reply' = [reply EXCEPT ![w] = reply[w]] /\ late' \subseteq Abandoned({w})
    BY <1>1, SameWork, SameLate, Zenon
  <2>3. /\ state' = [state EXCEPT ![o] = s] /\ attempt' = [attempt EXCEPT ![o] = w]
        /\ run' = [run EXCEPT ![w] = next] /\ call' = [call EXCEPT ![w] = c]
        /\ want' = [want EXCEPT ![o] = Base(o)]
    BY <1>3, <1>5, Zenon
  <2> QED BY <2>1, <2>2, <2>3, <2>4, Zenon DEF Moves
<1>7. RowFits(w, o, s, w, receipt[o])
  BY <1>1, <1>4, Zenon DEF RowFits, Row, JournalTypes, States, Active
<1>8. /\ next \in RunType /\ next.at = at /\ next.op = o /\ next.seen = NoFile
  BY <1>4, Blank, Zenon DEF At, RunType, Stations, Asking
<1>9. at # "load" => /\ c \in RequestType /\ c.is = at /\ c.op = o /\ c.want = Base(o)
  BY <1>3, <1>4, <1>5 DEF Request, RequestType, Asking
<1> HIDE DEF next
<1>10. WorkFits(w, o, s, w, vault[o], next, c, reply[w])
  <2>1. CASE at = "load"
    <3>1. next.at \notin Asking /\ next.at \notin {"sweep", "save", "record"} /\ c = NoCall
      BY <1>3, <1>8, <2>1, Zenon DEF Asking
    <3> QED BY <1>1, <1>4, <1>8, <3>1, Goes, Blank, Zenon
  <2>2. CASE at # "load"
    <3>1. at \in Asking /\ at \notin OnSession /\ at \notin {"part", "commit"}
      BY <2>2, Zenon DEF Asking, OnSession
    <3> QED BY <1>1, <1>4, <1>5, <1>8, <1>9, <2>2, <3>1, Asks, Blank, Zenon
  <2> QED BY <2>1, <2>2
<1> QED BY <1>4, <1>6, <1>7, <1>10, Moved, Zenon

(* The steps between requests: load, save, record, clean.  The next request  *)
(* leaves only after its checkpoint is stored.                               *)
LEMMA StationStep ==
    ASSUME TransferInv, NEW w \in Workers,
           Load(w) \/ SaveCheckpoint(w) \/ RecordSession(w) \/ Clean(w)
    PROVE  TransferInv'
<1>1. /\ run[w].at \in {"load", "save", "record", "clean"}
      /\ UNCHANGED <<size, attempt, want, receipt, reply, late, server, removals>>
  BY Zenon DEF Load, SaveCheckpoint, RecordSession, Clean, journal
<1>2. PICK o \in Saves : Busy(w, o)
  BY <1>1, AtWork, Zenon
<1>3. /\ run[w] \in RunType /\ run[w].op = o /\ Ready(o) /\ want[o] = Base(o) /\ attempt[o] = w
      /\ state[o] \in Active /\ vault[o] \in 0..MaxSessions /\ Base(o) \in FileType
      /\ o \in 0..MaxSaves /\ 0 \in 0..MaxSessions
  BY <1>1, <1>2, TransferBounds DEF Busy, Saves
<1>4. /\ call[w] = NoCall /\ Quiet(reply[w]) /\ Known(run[w].seen) /\ Known(NoFile)
      /\ NoFile \in FileType
  BY <1>1, <1>2, Silent, Blank, Zenon DEF Asking, Busy, Talking
<1>5. ASSUME NEW s \in Active, state' = [state EXCEPT ![o] = s],
             NEW k, vault' = [vault EXCEPT ![o] = k],
             NEW next, run' = [run EXCEPT ![w] = next],
             NEW c, call' = [call EXCEPT ![w] = c],
             WorkFits(w, o, s, w, k, next, c, reply[w])
      PROVE  TransferInv'
  <2>1. UNCHANGED <<size, file, clock, sess, landed, removals>>
    BY <1>1, Zenon DEF server
  <2>2. /\ attempt' = [attempt EXCEPT ![o] = w] /\ want' = [want EXCEPT ![o] = Base(o)]
        /\ receipt' = [receipt EXCEPT ![o] = receipt[o]]
    BY <1>1, <1>3, SameRow, ZenonT(60)
  <2>4. reply' = [reply EXCEPT ![w] = reply[w]] /\ late' \subseteq Abandoned({w})
    BY <1>1, SameWork, SameLate, Zenon
  <2>3. Moves(w, o, s, w, receipt[o], k, next, c, reply[w])
    BY <1>5, <2>1, <2>2, <2>4, Zenon DEF Moves
  <2> QED BY <1>1, <1>2, <1>5, <2>3, Proceeds, Zenon
<1>6. CASE Load(w)
  <2> DEFINE is == IF vault[o] # 0 THEN "inspect" ELSE "stat"
             next == At(is, o, vault[o], 0, NoFile)
             c == Request(is, o, vault[o], 0)
  <2>1. /\ run' = [run EXCEPT ![w] = next] /\ call' = [call EXCEPT ![w] = c]
        /\ UNCHANGED <<state, vault>>
    BY <1>3, <1>6, Zenon DEF Load, Ask, journal
  <2>2. next \in RunType /\ next.at = is /\ next.op = o /\ next.seen = NoFile
    BY <1>3, <1>4, Zenon DEF At, RunType, Stations, Asking
  <2>3. /\ c \in RequestType /\ c.is = is /\ c.op = o /\ c.want = Base(o)
        /\ is \in OnSession => c.sid \in Sids
    BY <1>3 DEF Request, RequestType, Asking, OnSession, Sids
  <2>4. is \in Asking /\ is \notin {"part", "commit"}
    BY DEF Asking
  <2> HIDE DEF is, next, c
  <2>5. WorkFits(w, o, state[o], w, vault[o], next, c, reply[w])
    BY <1>3, <1>4, <2>2, <2>3, <2>4, Asks, Zenon
  <2>6. state' = [state EXCEPT ![o] = state[o]] /\ vault' = [vault EXCEPT ![o] = vault[o]]
    BY <2>1, SameRow, Zenon
  <2> QED BY <1>3, <1>5, <2>1, <2>5, <2>6, Zenon
<1>7. CASE RecordSession(w)
  <2> DEFINE is == IF run[w].part <= size[o] THEN "part" ELSE "commit"
             next == [run[w] EXCEPT !.at = is]
             c == Request(is, o, run[w].sid, run[w].part)
  <2>1. /\ run' = [run EXCEPT ![w] = next] /\ call' = [call EXCEPT ![w] = c]
        /\ state' = [state EXCEPT ![o] = "Uploading"] /\ vault' = vault
        /\ run[w].at = "record"
    BY <1>3, <1>7, Zenon DEF RecordSession, Ask
  <2>2. vault[o] = run[w].sid /\ run[w].sid \in Sids
    BY <1>2, <2>1, Zenon DEF Busy, Doing
  <2>3. /\ next \in RunType /\ next.at = is /\ next.op = o /\ next.seen = run[w].seen
        /\ next.sid = run[w].sid
    BY <1>3, Zenon DEF RunType, Stations, Asking
  <2>4. /\ c \in RequestType /\ c.is = is /\ c.op = o /\ c.want = Base(o) /\ c.sid = run[w].sid
    BY <1>3, Zenon DEF Request, RequestType, Asking, RunType
  <2>5. is \in Asking
    BY DEF Asking
  <2> HIDE DEF is, next, c
  <2>6. WorkFits(w, o, "Uploading", w, vault[o], next, c, reply[w])
    BY <1>3, <1>4, <2>2, <2>3, <2>4, <2>5, Asks, Zenon
  <2>7. "Uploading" \in Active
    BY DEF Active
  <2>8. vault' = [vault EXCEPT ![o] = vault[o]]
    BY <2>1, SameRow, Zenon
  <2> QED BY <1>5, <2>1, <2>6, <2>7, <2>8, Zenon
<1>8. ASSUME NEW to \in {"record", "requeue"}, NEW k \in 0..MaxSessions,
             to = "record" => k = run[w].sid /\ run[w].sid \in Sids,
             run' = [run EXCEPT ![w].at = to], vault' = [vault EXCEPT ![o] = k],
             UNCHANGED <<journal, call>>
      PROVE  TransferInv'
  <2> DEFINE next == [run[w] EXCEPT !.at = to]
  <2>1. /\ run' = [run EXCEPT ![w] = next] /\ next \in RunType
        /\ next.at = to /\ next.op = o /\ next.seen = run[w].seen /\ next.sid = run[w].sid
    BY <1>3, <1>8, Zenon DEF RunType, Stations
  <2> HIDE DEF next
  <2>2. to \notin Asking /\ to \notin {"sweep", "save"}
    BY DEF Asking
  <2>3. WorkFits(w, o, state[o], w, k, next, NoCall, reply[w])
    BY <1>4, <1>8, <2>1, <2>2, Goes, Zenon
  <2>4. state' = [state EXCEPT ![o] = state[o]] /\ call' = [call EXCEPT ![w] = NoCall]
    BY <1>4, <1>8, SameRow, SameWork, Zenon DEF journal
  <2> QED BY <1>3, <1>5, <1>8, <2>1, <2>3, <2>4, Zenon
<1>9. CASE SaveCheckpoint(w)
  <2>1. run[w].sid \in Sids /\ run[w].sid \in 0..MaxSessions
    BY <1>2, <1>3, <1>9, Zenon DEF SaveCheckpoint, Busy, Doing, RunType
  <2> QED BY <1>3, <1>8, <1>9, <2>1, Zenon DEF SaveCheckpoint
<1>10. CASE Clean(w)
  BY <1>3, <1>8, <1>10, Zenon DEF Clean
<1> QED BY <1>6, <1>7, <1>9, <1>10

(* The last steps of an attempt: requeue and sweep. *)
LEMMA EndStep ==
    ASSUME TransferInv, NEW w \in Workers, Requeue(w) \/ Sweep(w)
    PROVE  TransferInv'
<1>1. run[w].at \in {"requeue", "sweep"} /\ UNCHANGED <<call, reply, late, server, removals>>
  BY Zenon DEF Requeue, Sweep
<1>2. PICK o \in Saves : Busy(w, o)
  BY <1>1, AtWork, Zenon
<1>3. /\ run[w].op = o /\ Ready(o) /\ want[o] = Base(o) /\ vault[o] \in 0..MaxSessions
      /\ call[w] = NoCall /\ Quiet(reply[w]) /\ 0 \in 0..MaxSessions
  BY <1>1, <1>2, Silent, TransferBounds DEF Busy, Asking
<1>4. CASE Requeue(w)
  <2>1. /\ Stop(w, "Pending") /\ run[w].at \notin {"idle", "sweep"}
        /\ vault' = [vault EXCEPT ![run[w].op] = vault[o]]
        /\ reply' = [reply EXCEPT ![w] = reply[w]]
    BY <1>1, <1>3, <1>4, SameRow, SameWork, Zenon DEF Requeue, Stop
  <2> QED BY <1>1, <1>3, <2>1, Stopped, Zenon
<1>5. CASE Sweep(w)
  <2>0. /\ UNCHANGED <<state, size, attempt, want, receipt, file, clock, sess, landed>>
        /\ vault' = [vault EXCEPT ![o] = 0] /\ run' = [run EXCEPT ![w] = Idle]
    BY <1>1, <1>3, <1>5, Zenon DEF Sweep, journal, server
  <2>4. /\ state' = [state EXCEPT ![o] = state[o]] /\ attempt' = [attempt EXCEPT ![o] = attempt[o]]
        /\ want' = [want EXCEPT ![o] = Base(o)] /\ receipt' = [receipt EXCEPT ![o] = receipt[o]]
    BY <1>3, <2>0, SameRow, Zenon
  <2>5. /\ call' = [call EXCEPT ![w] = NoCall] /\ reply' = [reply EXCEPT ![w] = reply[w]]
        /\ late' \subseteq Abandoned({w})
    BY <1>1, <1>3, SameWork, SameLate, Zenon
  <2>1. Moves(w, o, state[o], attempt[o], receipt[o], 0, Idle, NoCall, reply[w])
    BY <1>1, <2>0, <2>4, <2>5, Zenon DEF Moves
  <2>2. RowFits(w, o, state[o], attempt[o], receipt[o])
    BY <1>2, Zenon DEF Busy
  <2>3. WorkFits(w, o, state[o], attempt[o], 0, Idle, NoCall, reply[w])
    BY <1>3, Rest, Zenon
  <2> QED BY <1>3, <2>1, <2>2, <2>3, Moved, Zenon
<1> QED BY <1>4, <1>5

(* After an answer the attempt ends, or the worker asks the next thing of    *)
(* the provider, or it goes to a station where it asks nothing.              *)
LEMMA GivesUp ==
    ASSUME TransferInv, NEW w \in Workers, reply[w].is # None, Heard(w),
           UNCHANGED <<call, vault, late, server, removals>>,
           NEW s \in {"VerifyRequired", "Conflict", "Failed"}, Stop(w, s)
    PROVE  TransferInv'
<1>1. /\ call[w] = NoCall /\ run[w].at \notin {"idle", "sweep"} /\ Quiet(NoReply)
  BY Answered, Zenon DEF Asking
<1>2. PICK o \in Saves : Busy(w, o)
  BY <1>1, AtWork, Zenon
<1>3. /\ vault[o] \in 0..MaxSessions /\ vault' = [vault EXCEPT ![run[w].op] = vault[o]]
      /\ reply' = [reply EXCEPT ![w] = NoReply]
  BY <1>2, SameRow, Zenon DEF Busy, Heard
<1> QED BY <1>1, <1>3, Stopped, Zenon

(* A step that leaves the journal alone, written as one that moves save o. *)
LEMMA Unmoved ==
    ASSUME TransferInv, NEW w \in Workers, NEW o \in Saves, Busy(w, o), run[w].at # "sweep",
           UNCHANGED <<journal, vault, late>>
    PROVE  /\ state' = [state EXCEPT ![o] = state[o]] /\ attempt' = [attempt EXCEPT ![o] = w]
           /\ want' = [want EXCEPT ![o] = Base(o)] /\ receipt' = [receipt EXCEPT ![o] = receipt[o]]
           /\ vault' = [vault EXCEPT ![o] = vault[o]] /\ late' \subseteq Abandoned({w})
<1>1. /\ attempt[o] = w /\ want[o] = Base(o)
      /\ UNCHANGED <<state, attempt, want, receipt, vault, late>>
  BY Zenon DEF Busy, journal
<1>2. late' \subseteq Abandoned({w})
  BY <1>1, SameLate, Zenon
<1> QED BY <1>1, <1>2, SameRow, Zenon

(* After an answer the worker goes on to its next request. *)
LEMMA AsksNext ==
    ASSUME TransferInv, NEW w \in Workers, reply[w].is # None, Heard(w),
           UNCHANGED <<journal, vault, late, server, removals>>,
           NEW next \in RunType, run' = [run EXCEPT ![w] = next],
           next.op = run[w].op, Known(next.seen),
           \/ /\ next.at \in {"open", "stat", "recheck"}
              /\ call' = [call EXCEPT ![w] = Request(next.at, run[w].op, 0, 0)]
           \/ next.at = "clean" /\ UNCHANGED call
           \/ next.at = "save" /\ next.sid \in Sids /\ UNCHANGED call
    PROVE  TransferInv'
<1>1. /\ call[w] = NoCall /\ run[w].at \notin {"idle", "sweep"} /\ Quiet(NoReply)
  BY Answered, Zenon DEF Asking
<1>2. PICK o \in Saves : Busy(w, o)
  BY <1>1, AtWork, Zenon
<1>3. /\ run[w].op = o /\ want[o] = Base(o) /\ attempt[o] = w /\ state[o] \in Active
      /\ vault[o] \in 0..MaxSessions /\ Base(o) \in FileType
      /\ o \in 0..MaxSaves /\ 0 \in 0..MaxSessions
  BY <1>1, <1>2, TransferBounds DEF Busy, Saves
<1>4. ASSUME NEW c, call' = [call EXCEPT ![w] = c],
             WorkFits(w, o, state[o], w, vault[o], next, c, NoReply)
      PROVE  TransferInv'
  <2>1. UNCHANGED <<state, size, attempt, want, receipt, file, clock, sess, landed>>
    BY Zenon DEF journal, server
  <2>2. /\ state' = [state EXCEPT ![o] = state[o]] /\ attempt' = [attempt EXCEPT ![o] = w]
        /\ want' = [want EXCEPT ![o] = Base(o)] /\ receipt' = [receipt EXCEPT ![o] = receipt[o]]
        /\ vault' = [vault EXCEPT ![o] = vault[o]] /\ late' \subseteq Abandoned({w})
    BY <1>1, <1>2, Unmoved, Zenon
  <2>3. Moves(w, o, state[o], w, receipt[o], vault[o], next, c, NoReply)
    BY <1>4, <2>1, <2>2, Zenon DEF Moves, Heard
  <2> QED BY <1>1, <1>2, <1>3, <1>4, <2>3, Proceeds, Zenon
<1>5. CASE next.at \in {"open", "stat", "recheck"}
  <2>0. PICK is \in {"open", "stat", "recheck"} : is = next.at
    BY <1>5, Zenon
  <2> DEFINE c == Request(is, o, 0, 0)
  <2>1. c = [is |-> is, op |-> o, sid |-> 0, part |-> 0, want |-> Base(o)]
    BY <1>3, Zenon DEF Request
  <2>2. call' = [call EXCEPT ![w] = c]
    BY <1>3, <1>5, <2>0, Zenon
  <2> HIDE DEF c
  <2>5. c \in RequestType /\ c.is = next.at /\ c.op = o /\ c.want = Base(o)
    BY <1>3, <2>0, <2>1, Zenon DEF RequestType, Asking
  <2>3. next.at \in Asking /\ next.at \notin OnSession /\ next.at \notin {"part", "commit"}
    BY <1>5, Zenon DEF Asking, OnSession
  <2>4. WorkFits(w, o, state[o], w, vault[o], next, c, NoReply)
    BY <1>1, <1>3, <2>5, <2>3, Asks, Zenon
  <2> QED BY <1>4, <2>2, <2>4, Zenon
<1>6. CASE next.at \notin {"open", "stat", "recheck"}
  <2>1. call' = [call EXCEPT ![w] = NoCall]
    BY <1>1, <1>6, SameWork, Zenon
  <2>2. WorkFits(w, o, state[o], w, vault[o], next, NoCall, NoReply)
    BY <1>1, <1>3, <1>6, Goes, Zenon DEF Asking
  <2> QED BY <1>4, <2>1, <2>2, Zenon
<1> QED BY <1>5, <1>6, Zenon

(* Answers to the transfer's own requests. *)
LEMMA AdvanceStep ==
    ASSUME TransferInv, NEW w \in Workers, Advance(w)
    PROVE  TransferInv'
<1>1. /\ reply[w].is # None /\ Heard(w) /\ UNCHANGED <<vault, late, server, removals>>
  BY Zenon DEF Advance, Hears
<1>2. PICK o \in Saves : Busy(w, o)
  BY <1>1, Answered, AtWork, Zenon DEF Asking
<1>3. /\ run[w] \in RunType /\ run[w].op = o /\ Known(run[w].seen) /\ run[w].op \in 0..MaxSaves
  BY <1>2, Zenon DEF Busy, Talking, RunType
<1>4. CASE reply[w].is = "complete" /\ Acknowledge(w, reply[w].file)
  <2>1. reply[w].file.text = run[w].op
    BY <1>2, <1>4, Zenon DEF Busy, Doing
  <2>2. /\ call[w] = NoCall /\ run[w].at \notin {"idle", "sweep"} /\ reply[w].file \in FileType
        /\ Known(reply[w].file)
    BY <1>1, Answered, Zenon DEF Asking
  <2> QED BY <1>1, <1>4, <2>1, <2>2, Acknowledged, Zenon
<1>5. ASSUME NEW to \in {"open", "stat"}, UNCHANGED journal,
             Ask(w, Request(to, run[w].op, 0, 0), [run[w] EXCEPT !.at = to])
      PROVE  TransferInv'
  <2> DEFINE next == [run[w] EXCEPT !.at = to]
  <2>1. /\ next \in RunType /\ next.at = to /\ next.op = run[w].op /\ next.seen = run[w].seen
    BY <1>3, <1>5, Zenon DEF RunType, Stations, Asking
  <2>2. run' = [run EXCEPT ![w] = next] /\ call' = [call EXCEPT ![w] = Request(to, run[w].op, 0, 0)]
    BY <1>5 DEF Ask
  <2> HIDE DEF next
  <2> QED BY <1>1, <1>3, <1>5, <2>1, <2>2, AsksNext, Zenon
<1>6. CASE /\ reply[w].is = "next" /\ UNCHANGED <<journal, call>>
           /\ run' = [run EXCEPT ![w] = At("save", run[w].op, reply[w].sid, reply[w].part, NoFile)]
  <2> DEFINE next == At("save", run[w].op, reply[w].sid, reply[w].part, NoFile)
  <2>1. reply[w].sid \in Sids /\ reply[w] \in AnswerType
    BY <1>1, <1>6, Answered, Zenon
  <2>2. /\ next \in RunType /\ next.at = "save" /\ next.op = run[w].op /\ next.sid = reply[w].sid
        /\ next.seen = NoFile
    BY <1>3, <2>1, Blank, Zenon DEF At, RunType, Stations, AnswerType
  <2>3. run' = [run EXCEPT ![w] = next]
    BY <1>6, Zenon
  <2> HIDE DEF next
  <2> QED BY <1>1, <1>6, <2>1, <2>2, <2>3, AsksNext, Blank, Zenon
<1>7. CASE Stop(w, Verdict(reply[w].is)) /\ UNCHANGED call
  <2>1. Verdict(reply[w].is) \in {"VerifyRequired", "Conflict", "Failed"}
    BY DEF Verdict
  <2> QED BY <1>1, <1>7, <2>1, GivesUp, Zenon
<1> QED BY <1>4, <1>5, <1>6, <1>7, Zenon DEF Advance

(* reconcile_upload's two looks at the remote file. *)
LEMMA ReconcileStep ==
    ASSUME TransferInv, NEW w \in Workers, Reconcile(w) \/ Recheck(w)
    PROVE  TransferInv'
<1>1. /\ reply[w].is # None /\ Heard(w) /\ UNCHANGED <<vault, late, server, removals>>
  BY Zenon DEF Reconcile, Recheck, Hears
<1>2. /\ call[w] = NoCall /\ run[w].at \notin {"idle", "sweep"} /\ reply[w].file \in FileType
      /\ Known(reply[w].file)
  BY <1>1, Answered, Zenon DEF Asking
<1>3. run[w].op \in 0..MaxSaves /\ 0 \in 0..MaxSessions
  BY TransferBounds DEF TransferInv, WorkerTypes, RunType
<1>4. CASE Acknowledge(w, reply[w].file) /\ reply[w].file.text = run[w].op
  BY <1>1, <1>2, <1>4, Acknowledged, Zenon
<1>5. ASSUME NEW to \in {"clean", "recheck"}, NEW seen \in FileType, Known(seen), UNCHANGED journal,
             run' = [run EXCEPT ![w] = At(to, run[w].op, 0, 0, seen)],
             to = "clean" => UNCHANGED call,
             to = "recheck" => call' = [call EXCEPT ![w] = Request(to, run[w].op, 0, 0)]
      PROVE  TransferInv'
  <2> DEFINE next == At(to, run[w].op, 0, 0, seen)
  <2>1. next \in RunType /\ next.at = to /\ next.op = run[w].op /\ next.seen = seen
    BY <1>3, <1>5, Zenon DEF At, RunType, Stations, Asking
  <2>2. run' = [run EXCEPT ![w] = next]
    BY <1>5, Zenon
  <2> HIDE DEF next
  <2> QED BY <1>1, <1>5, <2>1, <2>2, AsksNext, Zenon
<1>6. ASSUME NEW s \in {"VerifyRequired", "Conflict", "Failed"}, Stop(w, s), UNCHANGED call
      PROVE  TransferInv'
  BY <1>1, <1>6, GivesUp, Zenon
<1>7. Verdict(reply[w].is) \in {"VerifyRequired", "Conflict", "Failed"}
  BY DEF Verdict
<1>8. CASE Reconcile(w)
  BY <1>2, <1>5, <1>6, <1>7, <1>8, Blank, Zenon DEF Reconcile, Ask
<1>9. CASE Recheck(w)
  BY <1>4, <1>6, <1>7, <1>9, Zenon DEF Recheck, Committed
<1> QED BY <1>8, <1>9

-----------------------------------------------------------------------------
(* Faults. *)

(* The deadline passes, or the provider refuses without executing. *)
LEMMA NoAnswerStep ==
    ASSUME TransferInv, NEW w \in Workers, Timeout(w) \/ Refuse(w)
    PROVE  TransferInv'
<1>1. PICK is \in {"lost", "failed", "busy"} :
        reply' = [reply EXCEPT ![w] = Answer(is, 0, 0, NoFile)]
  BY Zenon DEF Timeout, Refuse
<1>2. /\ call[w] # NoCall \/ reply[w].is # None
      /\ call' = [call EXCEPT ![w] = NoCall] /\ late' \in {late, Abandoned({w})}
      /\ UNCHANGED <<state, size, attempt, want, receipt, vault, run, file, clock, sess, landed,
                     removals>>
  BY Zenon DEF Timeout, Refuse, journal, server
<1>3. run[w].at \in Asking
  BY <1>2, Zenon DEF TransferInv, Working, Talking
<1>4. PICK o \in Saves : Busy(w, o)
  BY <1>3, AtWork, Zenon DEF Asking
<1>5. /\ run[w].at \notin {"idle", "sweep"} /\ Ready(o) /\ want[o] = Base(o) /\ attempt[o] = w
      /\ state[o] \in Active /\ vault[o] \in 0..MaxSessions
  BY <1>3, <1>4, Zenon DEF Busy, Asking
<1> DEFINE a == Answer(is, 0, 0, NoFile)
<1>6. a \in AnswerType /\ a.is = is /\ a.file = NoFile
  BY Blank, TransferBounds DEF Answer, AnswerType
<1>7. reply' = [reply EXCEPT ![w] = a]
  BY <1>1
<1> HIDE DEF a
<1>8. Moves(w, o, state[o], w, receipt[o], vault[o], run[w], NoCall, a)
  <2>1. /\ state' = [state EXCEPT ![o] = state[o]] /\ attempt' = [attempt EXCEPT ![o] = w]
        /\ want' = [want EXCEPT ![o] = Base(o)] /\ receipt' = [receipt EXCEPT ![o] = receipt[o]]
        /\ vault' = [vault EXCEPT ![o] = vault[o]]
    BY <1>2, <1>5, SameRow, Zenon
  <2>2. run' = [run EXCEPT ![w] = run[w]] /\ late' \subseteq Abandoned({w})
    BY <1>2, SameWork, Zenon DEF Abandoned
  <2> QED BY <1>2, <1>7, <2>1, <2>2, Zenon DEF Moves
<1>9. WorkFits(w, o, state[o], w, vault[o], run[w], NoCall, a)
  <2>1. /\ run[w] \in RunType /\ Known(run[w].seen) /\ run[w].op = o
        /\ run[w].at \in {"save", "record"} => run[w].sid \in Sids
        /\ run[w].at \in {"record", "part", "commit"} => vault[o] = run[w].sid
    BY <1>4, Zenon DEF Busy, Talking, Doing
  <2> QED BY <1>3, <1>5, <1>6, <2>1, Blank, Zenon DEF WorkFits, OnSession, None
<1> QED BY <1>4, <1>5, <1>8, <1>9, Proceeds, Zenon

(* The credential store or the payload fails: the attempt stops, or goes on  *)
(* without the clean-up.                                                     *)
LEMMA LocalErrorStep ==
    ASSUME TransferInv, NEW w \in Workers, LocalError(w)
    PROVE  TransferInv'
<1>1. /\ run[w].at \in {"load", "save", "record", "requeue", "clean", "sweep"}
      /\ UNCHANGED <<call, reply, late, server, removals>>
  BY Zenon DEF LocalError
<1>2. PICK o \in Saves : Busy(w, o)
  BY <1>1, AtWork, Zenon
<1>3. /\ call[w] = NoCall /\ Quiet(reply[w]) /\ run[w] \in RunType /\ run[w].op = o
      /\ vault[o] \in 0..MaxSessions /\ Ready(o) /\ want[o] = Base(o) /\ Known(run[w].seen)
      /\ call' = [call EXCEPT ![w] = NoCall] /\ reply' = [reply EXCEPT ![w] = reply[w]]
  <2>1. run[w].at \notin Asking
    BY <1>1, Zenon DEF Asking
  <2>2. call[w] = NoCall /\ Quiet(reply[w])
    BY <2>1, Silent, Zenon
  <2>3. call' = [call EXCEPT ![w] = NoCall] /\ reply' = [reply EXCEPT ![w] = reply[w]]
    BY <1>1, <2>2, SameWork, Zenon
  <2> QED BY <1>2, <2>2, <2>3, Zenon DEF Busy, Talking
<1>4. ASSUME NEW s \in {"Failed", "VerifyRequired"}, Stop(w, s), run[w].at # "sweep",
             NEW k \in {run[w].sid, vault[o]}, vault' = [vault EXCEPT ![o] = k]
      PROVE  TransferInv'
  <2>1. k \in 0..MaxSessions
    BY <1>3, <1>4, Zenon DEF RunType
  <2> QED BY <1>1, <1>3, <1>4, <2>1, Stopped, Zenon
<1>5. CASE /\ run[w].at = "clean" /\ UNCHANGED <<journal, vault>>
           /\ run' = [run EXCEPT ![w] = [run[w] EXCEPT !.at = "requeue"]]
  <2> DEFINE next == [run[w] EXCEPT !.at = "requeue"]
  <2>1. /\ next \in RunType /\ next.op = o /\ next.at = "requeue" /\ next.seen = run[w].seen
        /\ run' = [run EXCEPT ![w] = next]
    BY <1>3, <1>5, Zenon DEF RunType, Stations
  <2> HIDE DEF next
  <2>2. WorkFits(w, o, state[o], w, vault[o], next, NoCall, reply[w])
    BY <1>3, <2>1, Goes, Zenon DEF Asking
  <2>3. UNCHANGED <<size, file, clock, sess, landed, removals>>
    BY <1>1, <1>5 DEF journal, server
  <2>4. /\ state' = [state EXCEPT ![o] = state[o]] /\ attempt' = [attempt EXCEPT ![o] = w]
        /\ want' = [want EXCEPT ![o] = Base(o)] /\ receipt' = [receipt EXCEPT ![o] = receipt[o]]
        /\ vault' = [vault EXCEPT ![o] = vault[o]] /\ late' \subseteq Abandoned({w})
    BY <1>1, <1>2, <1>5, Unmoved, Zenon
  <2>5. Moves(w, o, state[o], w, receipt[o], vault[o], next, NoCall, reply[w])
    BY <1>3, <2>1, <2>3, <2>4, Zenon DEF Moves
  <2>6. state[o] \in Active
    BY <1>2, <1>5, Zenon DEF Busy
  <2> QED BY <1>2, <1>5, <2>2, <2>5, <2>6, Proceeds, Zenon
<1>6. CASE run[w].at = "sweep" /\ UNCHANGED <<journal, vault>> /\ run' = [run EXCEPT ![w] = Idle]
  <2>0. UNCHANGED <<state, size, attempt, want, receipt, vault, late, file, clock, sess, landed,
                    removals>>
    BY <1>1, <1>6, Zenon DEF journal, server
  <2>1. Moves(w, o, state[o], attempt[o], receipt[o], vault[o], Idle, NoCall, reply[w])
    <3>1. /\ state' = [state EXCEPT ![o] = state[o]] /\ attempt' = [attempt EXCEPT ![o] = attempt[o]]
          /\ want' = [want EXCEPT ![o] = Base(o)] /\ receipt' = [receipt EXCEPT ![o] = receipt[o]]
          /\ vault' = [vault EXCEPT ![o] = vault[o]]
      BY <1>3, <2>0, SameRow, ZenonT(60)
    <3>2. late' \subseteq Abandoned({w})
      BY <2>0, SameLate, Zenon
    <3> QED BY <1>3, <1>6, <2>0, <3>1, <3>2, Zenon DEF Moves
  <2>2. RowFits(w, o, state[o], attempt[o], receipt[o])
    BY <1>2, Zenon DEF Busy
  <2>3. WorkFits(w, o, state[o], attempt[o], vault[o], Idle, NoCall, reply[w])
    BY <1>3, Rest, Zenon
  <2> QED BY <1>3, <2>1, <2>2, <2>3, Moved, Zenon
<1>7. CASE run[w].at \in {"clean", "sweep"}
  <2>1. /\ UNCHANGED <<journal, vault>>
        /\ run' = [run EXCEPT ![w] = IF run[w].at = "clean" THEN [run[w] EXCEPT !.at = "requeue"]
                                     ELSE Idle]
    BY <1>7, Zenon DEF LocalError
  <2> QED BY <1>5, <1>6, <1>7, <2>1, Zenon
<1>8. CASE run[w].at \notin {"clean", "sweep"}
  <2>1. vault' = vault => vault' = [vault EXCEPT ![o] = vault[o]]
    BY SameRow, Zenon
  <2> QED BY <1>3, <1>4, <1>8, <2>1, Zenon DEF LocalError
<1> QED BY <1>7, <1>8

(* The attempt cannot be deferred: the worker leaves, and the save stays     *)
(* held.  Nothing the invariant says of a held save needs its worker.        *)
LEMMA DeferFailsStep ==
    ASSUME TransferInv, NEW w \in Workers, DeferFails(w)
    PROVE  TransferInv'
<1>1. /\ UNCHANGED <<journal, vault, call, late, server, removals>>
      /\ run' = [run EXCEPT ![w] = Idle] /\ reply' = [reply EXCEPT ![w] = NoReply]
  BY Zenon DEF DeferFails, Heard
<1>2. call[w] = NoCall /\ run[w].at \notin {"idle", "sweep"}
  <2>1. run[w].at \in {"load", "save", "record", "requeue"} \/ reply[w].is # None
    BY Zenon DEF DeferFails, Fails, Hears
  <2>2. CASE run[w].at \in {"load", "save", "record", "requeue"}
    <3>1. run[w].at \notin Asking \cup {"idle", "sweep"}
      BY <2>2, Zenon DEF Asking
    <3> QED BY <3>1, Silent, Zenon
  <2>3. CASE reply[w].is # None
    BY <2>3, Answered, Zenon DEF Asking
  <2> QED BY <2>1, <2>2, <2>3, Zenon
<1>3. PICK o \in Saves : Busy(w, o)
  BY <1>2, AtWork, Zenon
<1>4. Quiet(NoReply) /\ vault[o] \in 0..MaxSessions /\ state[o] \in Active
  BY <1>2, <1>3, Blank, Zenon DEF Quiet, Busy
<1>5. UNCHANGED <<size, file, clock, sess, landed, removals>>
  BY <1>1, Zenon DEF journal, server
<1>6. call' = [call EXCEPT ![w] = NoCall]
  BY <1>1, <1>2, SameWork, Zenon
<1>7. /\ state' = [state EXCEPT ![o] = state[o]] /\ attempt' = [attempt EXCEPT ![o] = w]
      /\ want' = [want EXCEPT ![o] = Base(o)] /\ receipt' = [receipt EXCEPT ![o] = receipt[o]]
      /\ vault' = [vault EXCEPT ![o] = vault[o]] /\ late' \subseteq Abandoned({w})
  BY <1>1, <1>2, <1>3, Unmoved, Zenon
<1>8. Moves(w, o, state[o], w, receipt[o], vault[o], Idle, NoCall, NoReply)
  BY <1>1, <1>5, <1>6, <1>7, Zenon DEF Moves
<1>9. WorkFits(w, o, state[o], w, vault[o], Idle, NoCall, NoReply)
  BY <1>4, Rest, Zenon
<1> QED BY <1>2, <1>3, <1>4, <1>8, <1>9, Proceeds, Zenon

=============================================================================
