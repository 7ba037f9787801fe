------------------------- MODULE TransferWorkerProofs -------------------------
(***************************************************************************)
(* Proofs about TransferWorker, part two: a crash, the provider and other  *)
(* people keep the invariant too; the theorems; and that the workers and   *)
(* the adapter implement SaveDelivery.                                     *)
(***************************************************************************)
EXTENDS TransferStepProofs

(* The process dies and reopens its journal. *)
LEMMA CrashStep ==
    ASSUME TransferInv, Crash
    PROVE  TransferInv'
<1>1. /\ state' = [o \in Saves |-> IF state[o] \in Active THEN "VerifyRequired" ELSE state[o]]
      /\ attempt' = [o \in Saves |-> None] /\ run' = [w \in Workers |-> Idle]
      /\ call' = [w \in Workers |-> NoCall] /\ reply' = [w \in Workers |-> NoReply]
      /\ late' = Abandoned(Workers)
      /\ UNCHANGED <<size, want, receipt, vault, server, removals>>
  BY Zenon DEF Crash, Active
<1>2. JournalTypes /\ WorkerTypes
  BY DEF TransferInv
<1>3. /\ \A o \in Saves : /\ state'[o] \in States \ Active /\ attempt'[o] = None
                          /\ state[o] = "Uploaded" <=> state'[o] = "Uploaded"
                          /\ state[o] # "absent" => state'[o] # "absent"
  BY <1>1, <1>2, Zenon DEF JournalTypes, States, Active
<1>4. ASSUME NEW o \in Saves PROVE (Ready(o)' <=> Ready(o)) /\ Base(o)' = Base(o)
  <2>1. o > 1 => o - 1 \in Saves
    BY TransferBounds DEF Saves
  <2> QED BY <1>1, <1>3, <2>1, Zenon DEF Ready, Base
<1>5. JournalTypes' /\ CloudTypes' /\ Known(file)'
  BY <1>1, <1>2, <1>3, Zenon DEF TransferInv, JournalTypes, CloudTypes, Known, server
<1>6. ASSUME NEW r \in late' PROVE r \in RequestType /\ Pending(r)
  <2>1. r \in late \/ \E w \in Workers : r = call[w] /\ call[w].is \in Effective
    BY <1>1, Zenon DEF Abandoned
  <2> QED BY <2>1, GivenUp, Zenon DEF TransferInv, WorkerTypes
<1>7. WorkerTypes'
  BY <1>1, <1>6, Blank, Zenon DEF WorkerTypes
<1>8. ASSUME NEW o \in Saves PROVE Row(o)' /\ Landing(o)'
  <2>1. Row(o) /\ Landing(o)
    BY DEF TransferInv
  <2>2. Row(o)'
    BY <1>1, <1>3, <2>1, Zenon DEF Row, Known, server
  <2>3. Landing(o)'
    BY <1>1, <1>4, <2>1, Zenon DEF Landing, server
  <2> QED BY <2>2, <2>3
<1>9. ASSUME NEW w \in Workers PROVE Working(w)'
  BY <1>1, Blank, Zenon DEF Working, Talking, Known, server, OnSession, None
<1>10. ASSUME NEW r \in late' PROVE Pending(r)'
  <2>1. Pending(r) /\ r.op \in Saves
    BY <1>6, Zenon DEF Pending
  <2> QED BY <1>3, <1>4, <2>1, Zenon DEF Pending
<1> QED BY <1>5, <1>7, <1>8, <1>9, <1>10, Zenon DEF TransferInv

-----------------------------------------------------------------------------
(* Steps of the provider and of others: the journal and the workers' places  *)
(* stay as they are.                                                         *)

(* The file changes to a version nobody has heard of, or is removed. *)
Turn == /\ \/ file' = file /\ clock' = clock
           \/ clock' = clock + 1 /\ (file'.etag = clock + 1 \/ file' = NoFile)
        /\ \A o \in Saves : landed'[o] >= landed[o]

(* What was known stays known. *)
LEMMA StaysKnown ==
    ASSUME CloudTypes, CloudTypes', Turn, NEW f \in FileType, Known(f)
    PROVE  KnownIn(f, file', clock', landed')
<1>1. /\ f.etag <= clock /\ (f.etag = 0 => f = NoFile) /\ (f.etag = file.etag => f = file)
      /\ f.text \in Saves => landed[f.text] > 0
  BY Zenon DEF Known, KnownIn
<1>2. f.etag \in Nat /\ clock \in Nat /\ NoFile.etag = 0
  BY Zenon DEF CloudTypes, FileType, NoFile, File
<1>3. f.text \in Saves => landed'[f.text] > 0
  BY <1>1 DEF Turn, CloudTypes
<1>4. f.etag = file'.etag => f = file'
  BY <1>1, <1>2 DEF Turn
<1>5. f.etag <= clock'
  BY <1>1, <1>2 DEF Turn
<1> QED BY <1>1, <1>3, <1>4, <1>5, Zenon DEF KnownIn

(* Such a step keeps the invariant if it keeps it for the file, the landings *)
(* and the answers it gives.                                                 *)
LEMMA CloudStep ==
    ASSUME TransferInv, Turn, CloudTypes', WorkerTypes', UNCHANGED <<journal, vault, run>>,
           Known(file)', late' \subseteq late,
           \A o \in Saves : Landing(o)',
           \A w \in Workers : (call'[w] = call[w] /\ reply'[w] = reply[w]) \/ Working(w)'
    PROVE  TransferInv'
<1>0. /\ JournalTypes /\ WorkerTypes /\ CloudTypes
      /\ UNCHANGED <<state, size, attempt, want, receipt>>
  BY Zenon DEF TransferInv, journal
<1>1. JournalTypes'
  BY <1>0, Zenon DEF JournalTypes
<1>2. ASSUME NEW o \in Saves PROVE Row(o)'
  <2>1. Row(o) /\ want[o] \in FileType /\ receipt[o] \in FileType
    BY <1>0, Zenon DEF TransferInv, JournalTypes
  <2>2. KnownIn(want[o], file', clock', landed') /\ KnownIn(receipt[o], file', clock', landed')
    BY <1>0, <2>1, StaysKnown, Zenon DEF Row
  <2> QED BY <1>0, <2>1, <2>2, Zenon DEF Row, Known
<1>3. ASSUME NEW w \in Workers, call'[w] = call[w], reply'[w] = reply[w] PROVE Working(w)'
  <2>1. /\ Working(w) /\ run[w].seen \in FileType /\ reply[w].file \in FileType
    BY <1>0, Zenon DEF TransferInv, WorkerTypes, RunType, AnswerType
  <2>2. /\ KnownIn(run[w].seen, file', clock', landed')
        /\ KnownIn(reply[w].file, file', clock', landed')
    BY <1>0, <2>1, StaysKnown, Zenon DEF Working, Talking
  <2>3. Talking(w)'
    BY <1>3, <2>1, <2>2, Zenon DEF Working, Talking, Known
  <2>4. ASSUME NEW o \in Saves, Doing(w, o) PROVE Doing(w, o)'
    BY <1>0, <1>3, <2>4, Zenon DEF Doing, Ready, Base
  <2> QED BY <2>1, <2>3, <2>4, Zenon DEF Working
<1>5. ASSUME NEW r \in late' PROVE Pending(r)'
  <2>1. Pending(r)
    BY Zenon DEF TransferInv
  <2> QED BY <1>0, <2>1, Zenon DEF Pending, Ready, Base
<1> QED BY <1>1, <1>2, <1>3, <1>5, Zenon DEF TransferInv

(* A session expires. *)
LEMMA ExpireStep ==
    ASSUME TransferInv, NEW s \in Sids, Expire(s)
    PROVE  TransferInv'
<1>1. /\ sess' = Closed(s)
      /\ UNCHANGED <<journal, vault, run, call, reply, late, file, clock, landed, removals>>
  BY DEF Expire
<1>2. CloudTypes /\ WorkerTypes
  BY DEF TransferInv
<1>3. CloudTypes' /\ WorkerTypes'
  BY <1>1, <1>2, Zenon DEF CloudTypes, WorkerTypes, SessionType, Closed
<1>4. Turn
  BY <1>1, <1>2 DEF Turn, CloudTypes
<1>5. Known(file)' /\ \A o \in Saves : Landing(o)'
  BY <1>1, Zenon DEF TransferInv, Known, Landing, Ready, Base, journal
<1> QED BY <1>1, <1>3, <1>4, <1>5, CloudStep, Zenon

(* Somebody else changes the file.  A base that was replaced does not come   *)
(* back: every change has an ETag of its own.                                *)
LEMMA ForeignStep ==
    ASSUME TransferInv, Foreign
    PROVE  TransferInv'
<1>1. /\ clock' = clock + 1 /\ UNCHANGED <<journal, vault, run, call, reply, late, sess, landed>>
      /\ removals' = IF file' = NoFile THEN removals + 1 ELSE removals
  BY DEF Foreign
<1>2. CloudTypes /\ WorkerTypes /\ Known(file)
  BY DEF TransferInv
<1>3. /\ file' \in FileType
      /\ \/ file' = NoFile /\ file # NoFile
         \/ /\ file'.etag = clock + 1 /\ file' # NoFile
            /\ file'.text \in {Somebody, file.text}
  <2>1. clock + 1 \in Nat /\ clock + 1 # 0 /\ NoFile.etag = 0
    BY <1>2 DEF CloudTypes, NoFile, File
  <2>2. Somebody \in -1..MaxSaves
    BY TransferBounds DEF Somebody
  <2>3. CASE file # NoFile
    BY <1>2, <2>1, <2>2, <2>3, Blank, ZenonT(60) DEF Foreign, CloudTypes, FileType
  <2>4. CASE file = NoFile
    <3>1. file' = File(clock + 1, clock + 1, clock + 1, Somebody)
      BY <2>4 DEF Foreign
    <3> QED BY <2>1, <2>2, <3>1 DEF File, FileType
  <2> QED BY <2>3, <2>4, Zenon
<1>4. CloudTypes' /\ WorkerTypes'
  BY <1>1, <1>2, <1>3 DEF CloudTypes, WorkerTypes
<1>5. Turn
  BY <1>1, <1>2, <1>3 DEF Turn, CloudTypes
<1>6. Known(file)'
  <2>1. CASE file' = NoFile
    BY <1>1, <1>2, <2>1, Blank DEF Known, KnownIn, NoFile, File, Somebody, Saves, CloudTypes
  <2>2. CASE file' # NoFile
    BY <1>1, <1>2, <1>3, <2>2 DEF Known, KnownIn, CloudTypes, Somebody, Saves
  <2> QED BY <2>1, <2>2
<1>7. ASSUME NEW o \in Saves PROVE Landing(o)'
  <2>1. Landing(o) /\ landed[o] \in Nat /\ removals \in Nat
    BY <1>2 DEF TransferInv, CloudTypes
  <2>2. CASE Creates(o)
    BY <1>1, <1>3, <2>1, <2>2 DEF Landing
  <2>3. CASE ~Creates(o)
    <3>1. Ready(o)' = Ready(o) /\ Base(o)' = Base(o)
      BY <1>1, Zenon DEF Ready, Base, journal
    <3>2. Ready(o) => file'.etag # Base(o).etag
      <4>1. Ready(o) => Base(o).etag # 0 /\ Base(o).etag <= clock /\ Base(o).etag \in Nat
        BY <2>3, BaseExists, Zenon DEF Known, KnownIn, FileType
      <4>2. NoFile.etag = 0
        BY DEF NoFile, File
      <4> QED BY <1>2, <1>3, <4>1, <4>2 DEF CloudTypes
    <3> QED BY <1>1, <2>1, <2>3, <3>1, <3>2, Zenon DEF Landing
  <2> QED BY <2>2, <2>3
<1> QED BY <1>1, <1>4, <1>5, <1>6, <1>7, CloudStep, Zenon

(* A request conditioned on the base of save o, and the answers to it. *)
Conditioned(r, o) ==
    /\ r \in RequestType /\ r.op = o /\ r.is \in Asking /\ (r.is \in OnSession => r.sid \in Sids)
    /\ Ready(o) /\ r.want = Base(o)
Answers(a, o) ==
    /\ a \in AnswerType /\ a.is # None
    /\ a.is = "next" => a.sid \in Sids
    /\ a.is = "complete" => a.file.text = o
    /\ KnownIn(a.file, file', clock', landed')
Reacts == Turn /\ CloudTypes' /\ Known(file)' /\ \A p \in Saves : Landing(p)'

(* Bytes land only on the base of their save, so they land once. *)
LEMMA Landed ==
    ASSUME TransferInv, NEW r, NEW o \in Saves, Conditioned(r, o), Admits(r),
           NEW table \in SessionType, sess' = table, file' = Written(r), clock' = clock + 1,
           landed' = [landed EXCEPT ![o] = landed[o] + 1], UNCHANGED <<journal, removals>>
    PROVE  Reacts
<1>1. /\ CloudTypes /\ r \in RequestType /\ r.op = o /\ Ready(o) /\ r.want = Base(o)
  BY Zenon DEF TransferInv, Conditioned
<1>2. /\ Written(r) \in FileType /\ Written(r).etag = clock + 1 /\ Written(r).text = o
  BY <1>1, FileTypes, Zenon DEF Written, File
<1>3. CloudTypes'
  BY <1>1, <1>2 DEF CloudTypes
<1>4. /\ landed'[o] = landed[o] + 1 /\ landed[o] \in Nat /\ clock \in Nat
      /\ \A p \in Saves : p # o => landed'[p] = landed[p]
  BY <1>1, Zenon DEF CloudTypes
<1>5. Turn
  <2>1. \A p \in Saves : landed'[p] >= landed[p]
    BY <1>1, <1>4 DEF CloudTypes
  <2> QED BY <1>2, <2>1, Zenon DEF Turn
<1>6. Known(file)'
  BY <1>2, <1>4 DEF Known, KnownIn
<1>7. file' # NoFile
  BY <1>2, <1>4 DEF NoFile, File
<1>8. ASSUME NEW p \in Saves PROVE Landing(p)'
  <2>1. Landing(p) /\ landed[p] \in Nat /\ removals \in Nat
    BY <1>1, Zenon DEF TransferInv, CloudTypes
  <2>2. CASE Creates(p)
    <3>1. p # o => file # NoFile
      BY <1>1, <2>2, Zenon DEF Admits, Creates
    <3>2. p = o => file = NoFile
      BY <1>1, <2>2, ZenonT(60) DEF Admits
    <3> QED BY <1>4, <1>7, <2>1, <2>2, <3>1, <3>2 DEF Landing
  <2>3. CASE ~Creates(p)
    <3>1. (Ready(p)' <=> Ready(p)) /\ Base(p)' = Base(p)
      BY Zenon DEF Ready, Base, journal
    <3>2. Ready(p) => Base(p).etag <= clock /\ Base(p).etag \in Nat
      BY BaseExists, Zenon DEF Known, KnownIn, FileType
    <3>3. Ready(p) => file'.etag # Base(p).etag
      BY <1>2, <1>4, <3>2
    <3>4. p = o => landed[p] = 0 /\ Ready(p)
      BY <1>1, <2>1, <2>3 DEF Admits, Landing
    <3> QED BY <1>4, <2>1, <2>3, <3>1, <3>3, <3>4 DEF Landing
  <2> QED BY <2>2, <2>3
<1> QED BY <1>3, <1>5, <1>6, <1>8 DEF Reacts

(* The provider executes a request that is conditioned on its save's base. *)
LEMMA Executed ==
    ASSUME TransferInv, NEW r, NEW o \in Saves, Conditioned(r, o),
           NEW x \in Outcomes(r), Execute(r, x), UNCHANGED <<journal, removals>>
    PROVE  Reacts /\ Answers(x.answer, o)
<1>1. CloudTypes /\ Known(file) /\ Known(NoFile) /\ r.op = o
  BY KnownNothing DEF TransferInv, Conditioned
<1>2. /\ x.answer \in AnswerType /\ x.answer.is # None
      /\ x.answer.is = "next" => x.answer.sid \in Sids
      /\ x.sess \in SessionType
      /\ x.answer.is = "complete" => Admits(r)
      /\ x.answer.file = IF x.answer.is = "complete" THEN Written(r) ELSE
                         IF x.answer.is = "found" THEN Visible(r) ELSE NoFile
  BY <1>1, OutcomeFacts, Zenon DEF Conditioned
<1>3. CASE x.answer.is # "complete"
  <2>1. UNCHANGED <<file, clock, landed, removals>> /\ sess' = x.sess
    BY <1>3, Zenon DEF Execute
  <2>2. CloudTypes' /\ Turn /\ Known(file)'
    BY <1>1, <1>2, <2>1 DEF CloudTypes, Turn, Known
  <2>3. \A p \in Saves : Landing(p)'
    BY <2>1, Zenon DEF TransferInv, Landing, Ready, Base, journal
  <2>4. x.answer.file \in {file, NoFile}
    BY <1>2, <1>3, Zenon DEF Visible
  <2> QED BY <1>1, <1>2, <1>3, <2>1, <2>2, <2>3, <2>4, ZenonT(60) DEF Known, Reacts, Answers
<1>4. CASE x.answer.is = "complete"
  <2>1. /\ Admits(r) /\ file' = Written(r) /\ clock' = clock + 1 /\ sess' = x.sess
        /\ landed' = [landed EXCEPT ![o] = landed[o] + 1]
    BY <1>1, <1>2, <1>4, Zenon DEF Execute
  <2>2. Reacts
    BY <1>2, <2>1, Landed, Zenon
  <2>3. Written(r).text = o
    BY <1>1, Zenon DEF Written, File
  <2> QED BY <1>2, <1>4, <2>1, <2>2, <2>3, Zenon DEF Known, Reacts, Answers
<1> QED BY <1>3, <1>4

(* An answer on time. *)
LEMMA RespondStep ==
    ASSUME TransferInv, NEW w \in Workers, Respond(w)
    PROVE  TransferInv'
<1>1. /\ call[w] # NoCall /\ call' = [call EXCEPT ![w] = NoCall]
      /\ UNCHANGED <<journal, vault, run, late, removals>>
  BY Zenon DEF Respond
<1>2. PICK x \in Outcomes(call[w]) :
        Execute(call[w], x) /\ reply' = [reply EXCEPT ![w] = x.answer]
  BY Zenon DEF Respond
<1>3. WorkerTypes /\ Working(w) /\ call[w] \in RequestType /\ run[w].at \in Asking
  BY <1>1, Zenon DEF TransferInv, WorkerTypes, Working, Talking
<1>4. PICK o \in Saves : Doing(w, o)
  BY <1>3, Zenon DEF Working, Asking
<1>5. Conditioned(call[w], o)
  BY <1>1, <1>3, <1>4, Zenon DEF Conditioned, Doing, Working, Talking
<1>6. Reacts /\ Answers(x.answer, o)
  BY <1>1, <1>2, <1>5, Executed, Zenon
<1>7. WorkerTypes'
  BY <1>1, <1>2, <1>3, <1>6, Blank, Zenon DEF WorkerTypes, Answers
<1>8. /\ call'[w] = NoCall /\ reply'[w] = x.answer /\ run' = run
      /\ \A v \in Workers : v # w => call'[v] = call[v] /\ reply'[v] = reply[v]
  BY <1>1, <1>2, <1>3, Zenon DEF WorkerTypes
<1>9. Talking(w)'
  <2>1. Turn /\ CloudTypes' /\ CloudTypes /\ Known(run[w].seen) /\ run[w].seen \in FileType
    BY <1>3, <1>6, Zenon DEF Reacts, TransferInv, Working, Talking, WorkerTypes, RunType
  <2>2. KnownIn(run[w].seen, file', clock', landed')
    BY <2>1, StaysKnown, Zenon
  <2> QED BY <1>3, <1>6, <1>8, <2>2, Blank, ZenonT(60) DEF Talking, Known, Answers, OnSession, None
<1>10. Doing(w, o)'
  BY <1>1, <1>4, <1>6, <1>8, Zenon DEF Doing, Answers, Ready, Base, journal
<1> QED BY <1>1, <1>6, <1>7, <1>8, <1>9, <1>10, CloudStep, Zenon DEF Reacts, Working

(* A request nobody waits for is executed after all. *)
LEMMA RespondLateStep ==
    ASSUME TransferInv, RespondLate
    PROVE  TransferInv'
<1>1. PICK r \in late : (\E x \in Outcomes(r) : Execute(r, x)) /\ late' = late \ {r}
  BY DEF RespondLate
<1>2. PICK x \in Outcomes(r) : Execute(r, x)
  BY <1>1
<1>3. UNCHANGED <<journal, vault, run, call, reply, removals>>
  BY DEF RespondLate
<1>4. WorkerTypes /\ Pending(r) /\ r \in RequestType
  BY Zenon DEF TransferInv, WorkerTypes
<1>5. PICK o \in Saves : o = r.op /\ Conditioned(r, o)
  BY <1>4, Zenon DEF Pending, Effective, Asking, Conditioned
<1>6. Reacts
  BY <1>2, <1>3, <1>5, Executed, Zenon
<1>7. WorkerTypes'
  BY <1>1, <1>3, <1>4, Zenon DEF WorkerTypes
<1> QED BY <1>1, <1>3, <1>6, <1>7, CloudStep, Zenon DEF Reacts

-----------------------------------------------------------------------------
(* The theorems. *)

(* The invariant holds before the first save. *)
LEMMA InitInv ==
    ASSUME Init
    PROVE  TransferInv
<1>1. file = FirstBase /\ clock = 1
  BY Zenon DEF Init, FirstBase
<1>2. /\ 1 \in Nat /\ 0 \in 0..MaxSaves /\ 0 \in 0..MaxSessions /\ 1 \in Saves
  BY TransferBounds DEF Saves
<1>3. CloudTypes
  <2>1. FirstBase \in FileType
    BY TransferBounds DEF FirstBase, NoFile, File, FileType, Somebody, Original
  <2>2. sess \in SessionType /\ landed \in [Saves -> Nat] /\ removals \in Nat
    BY Zenon DEF Init, SessionType
  <2> QED BY <1>1, <2>1, <2>2 DEF CloudTypes
<1>4. NoFile \in FileType
  BY <1>3, FileTypes
<1>5. Known(file)
  BY <1>1, <1>2 DEF Known, KnownIn, FirstBase, NoFile, File, Somebody, Original, Saves
<1>6. Known(NoFile)
  BY <1>3, <1>5, KnownNothing
<1>7. JournalTypes
  BY <1>1, <1>2, <1>3, <1>4, Zenon DEF Init, JournalTypes, States, Final, CloudTypes
<1>8. WorkerTypes
  <2>1. NoCall \in RequestType /\ NoReply \in AnswerType /\ Idle \in RunType
    BY <1>2, <1>4, Zenon DEF NoCall, RequestType, NoReply, Answer, AnswerType, Idle, At, RunType, Stations
  <2> QED BY <2>1, Zenon DEF Init, WorkerTypes
<1>9. ASSUME NEW o \in Saves PROVE Row(o)
  BY <1>1, <1>5, <1>6, ZenonT(60) DEF Init, Row, Active
<1>10. ASSUME NEW o \in Saves PROVE Landing(o)
  BY DEF Init, Landing
<1>11. ASSUME NEW w \in Workers PROVE Working(w)
  <2>1. run[w] = Idle /\ call[w] = NoCall /\ reply[w] = NoReply
    BY Zenon DEF Init
  <2>2. /\ Idle.at = "idle" /\ Idle.seen = NoFile /\ NoCall.is = None /\ NoReply.is = None
        /\ NoReply.file = NoFile
    BY Zenon DEF Idle, At, NoCall, NoReply, Answer
  <2> QED BY <1>6, <2>1, <2>2, Zenon DEF Working, Talking, OnSession, None
<1> QED BY <1>3, <1>5, <1>7, <1>8, <1>9, <1>10, <1>11, Zenon DEF TransferInv, Init

(* Doing nothing, or only counting, keeps the invariant. *)
LEMMA StutterInv ==
    ASSUME TransferInv, UNCHANGED vars
    PROVE  TransferInv'
<1>1. CloudTypes /\ WorkerTypes
  BY DEF TransferInv
<1>2. UNCHANGED <<journal, vault, run, call, reply, late, file, clock, sess, landed, removals>>
  BY DEF vars, server
<1>3. CloudTypes' /\ WorkerTypes' /\ Turn
  BY <1>1, <1>2 DEF CloudTypes, WorkerTypes, Turn
<1>4. Known(file)' /\ \A o \in Saves : Landing(o)'
  BY <1>2, Zenon DEF TransferInv, Known, Landing, Ready, Base, journal
<1> QED BY <1>2, <1>3, <1>4, CloudStep, Zenon

(* Every step of the transfers keeps the invariant. *)
LEMMA NextInv ==
    ASSUME TransferInv, [Next]_vars
    PROVE  TransferInv'
<1>1. CASE UNCHANGED vars
  BY <1>1, StutterInv
<1>2. ASSUME NEW w \in Workers, WorkerStep(w) PROVE TransferInv'
  BY <1>2, ClaimStep, StationStep, AdvanceStep, ReconcileStep, EndStep, Zenon DEF WorkerStep
<1> QED BY <1>1, <1>2, RowStep, RespondStep, NoAnswerStep, LocalErrorStep, DeferFailsStep,
           RespondLateStep, ExpireStep, CrashStep, ForeignStep, Zenon DEF Next

(* Every reachable state satisfies TransferInv. *)
THEOREM TransferInvariant == Spec => []TransferInv
<1> QED BY InitInv, NextInv, PTL DEF Spec

(* The journal, the vault and the provider keep their types; a save being    *)
(* attempted has one worker, and that worker is busy with it.                *)
THEOREM TypeCorrect == Spec => []TypeOK
<1>1. TransferInv => TypeOK
  <2> SUFFICES ASSUME TransferInv PROVE TypeOK
    OBVIOUS
  <2>1. ASSUME NEW w \in Workers, run[w].at \notin {"idle", "sweep"}
        PROVE  attempt[run[w].op] = w
    BY <2>1, AtWork, Zenon DEF Busy
  <2>2. \A o \in Saves : state[o] \in Active <=> attempt[o] # None
    BY Zenon DEF TransferInv, Row
  <2> QED BY <2>1, <2>2, Zenon DEF TypeOK, TransferInv, JournalTypes, CloudTypes, States
<1> QED BY <1>1, TransferInvariant, PTL

(* The checkpoint of a running transfer is in the vault for as long as the   *)
(* transfer may need it: no other attempt removes or replaces it.            *)
THEOREM CheckpointStays == Spec => []CheckpointKept
<1>1. TransferInv => CheckpointKept
  <2> SUFFICES ASSUME TransferInv, NEW w \in Workers, run[w].at \in {"record", "part", "commit"}
               PROVE  vault[run[w].op] = run[w].sid
    BY Zenon DEF CheckpointKept
  <2>1. PICK o \in Saves : Busy(w, o)
    BY AtWork
  <2> QED BY <2>1, Zenon DEF Busy, Doing
<1> QED BY <1>1, TransferInvariant, PTL

(* A save whose answer was lost is not landed a second time: a replacement   *)
(* lands at most once, a creation once more for each removal by others.      *)
THEOREM LandsAtMostOnce == Spec => []LandsOnce
<1>1. TransferInv => LandsOnce
  <2> SUFFICES ASSUME TransferInv, NEW o \in Saves
               PROVE  landed[o] <= 1 + (IF Creates(o) THEN removals ELSE 0)
    BY DEF LandsOnce
  <2>1. Landing(o) /\ landed[o] \in Nat /\ removals \in Nat
    BY DEF TransferInv, CloudTypes
  <2> QED BY <2>1 DEF Landing
<1> QED BY <1>1, TransferInvariant, PTL

(* acknowledge is only ever called for a save whose bytes became the remote  *)
(* file, whatever was lost, repeated or changed by others.                   *)
THEOREM AcknowledgedLanded == Spec => []AckedBytesLanded
<1>1. TransferInv => AckedBytesLanded
  <2> SUFFICES ASSUME TransferInv, NEW o \in Saves, state[o] = "Uploaded"
               PROVE  landed[o] > 0 /\ receipt[o].text = o
    BY DEF AckedBytesLanded
  <2>1. receipt[o].text = o /\ Known(receipt[o])
    BY Zenon DEF TransferInv, Row
  <2> QED BY <2>1, Zenon DEF Known, KnownIn
<1> QED BY <1>1, TransferInvariant, PTL

-----------------------------------------------------------------------------
(* What lands, and where. *)

(* The bytes of save o land: its condition holds, and nothing else happens. *)
Lands(r, o) ==
    /\ Conditioned(r, o) /\ Admits(r) /\ state[o] # "absent"
    /\ file' = Written(r) /\ landed' = [landed EXCEPT ![o] = landed[o] + 1]
    /\ UNCHANGED state

(* What the provider does about a request changes the file only by landing it. *)
LEMMA LandsOrNot ==
    ASSUME TransferInv, NEW r, NEW o \in Saves, Conditioned(r, o), state[o] # "absent",
           NEW x \in Outcomes(r), Execute(r, x), UNCHANGED journal
    PROVE  UNCHANGED <<state, file, landed>> \/ Lands(r, o)
<1>1. r.op = o /\ CloudTypes /\ (x.answer.is = "complete" => Admits(r))
  BY OutcomeFacts, Zenon DEF Conditioned, TransferInv
<1> QED BY <1>1, Zenon DEF Execute, Lands, journal

(* The condition of a request in flight holds only of the content its save   *)
(* was made from, and only before that save has landed.                      *)
LEMMA OnItsBase ==
    ASSUME TransferInv, NEW r, NEW o \in Saves, Conditioned(r, o), Admits(r)
    PROVE  IF Creates(o) THEN file = NoFile
           ELSE file # NoFile /\ file.text = BaseText(o) /\ landed[o] = 0
<1>1. /\ r.op = o /\ Ready(o) /\ r.want = Base(o) /\ landed[o] \in Nat
      /\ Landing(o)
  BY Zenon DEF Conditioned, TransferInv, CloudTypes
<1>2. CASE ~Creates(o)
  <2>1. file # NoFile /\ file.etag = Base(o).etag
    BY <1>1, <1>2 DEF Admits
  <2>2. Base(o) = file /\ Base(o).text = BaseText(o)
    BY <1>1, <1>2, <2>1, BaseExists, Zenon DEF Known, KnownIn
  <2> QED BY <1>1, <1>2, <2>1, <2>2 DEF Landing
<1> QED BY <1>1, <1>2, Zenon DEF Admits

(* Every step: nothing lands, or one save does. *)
LEMMA ProviderStep ==
    ASSUME TransferInv, RespondLate \/ \E w \in Workers : Respond(w)
    PROVE  UNCHANGED <<state, file, landed>> \/ \E o \in Saves : \E r : Lands(r, o)
<1>1. CASE RespondLate
  <2>1. PICK r \in late : \E x \in Outcomes(r) : Execute(r, x)
    BY <1>1, Zenon DEF RespondLate
  <2>2. PICK x \in Outcomes(r) : Execute(r, x)
    BY <2>1
  <2>3. Pending(r) /\ r \in RequestType
    BY DEF TransferInv, WorkerTypes
  <2>4. PICK o \in Saves : o = r.op /\ Conditioned(r, o) /\ state[o] # "absent"
    BY <2>3, Zenon DEF Pending, Effective, Asking, Conditioned
  <2>5. UNCHANGED journal
    BY <1>1, Zenon DEF RespondLate
  <2> QED BY <2>2, <2>4, <2>5, LandsOrNot, Zenon
<1>2. ASSUME NEW w \in Workers, Respond(w)
      PROVE  UNCHANGED <<state, file, landed>> \/ \E o \in Saves : \E r : Lands(r, o)
  <2>1. call[w] # NoCall /\ UNCHANGED journal
    BY <1>2, Zenon DEF Respond
  <2>2. PICK x \in Outcomes(call[w]) : Execute(call[w], x)
    BY <1>2, Zenon DEF Respond
  <2>3. call[w] \in RequestType /\ Talking(w) /\ run[w].at \in Asking
    BY <2>1, Zenon DEF TransferInv, WorkerTypes, Working, Talking
  <2>4. PICK o \in Saves : Busy(w, o)
    BY <2>3, AtWork, Zenon DEF Asking
  <2>5. Doing(w, o) /\ state[o] \in Active
    BY <2>3, <2>4, Zenon DEF Busy, Asking
  <2>6. Conditioned(call[w], o)
    BY <2>1, <2>3, <2>5, Zenon DEF Conditioned, Doing, Talking
  <2> QED BY <2>1, <2>2, <2>5, <2>6, LandsOrNot, Zenon DEF Active
<1> QED BY <1>1, <1>2

(* A worker's own steps move its save on, or leave the journal alone. *)
Shift(o, s) == state' = [state EXCEPT ![o] = s] /\ UNCHANGED <<file, landed>>
WorkerShift(w) ==
    \/ UNCHANGED <<state, file, landed>>
    \/ \E o \in Saves, s \in Active : state[o] \in {"Pending", "VerifyRequired"} /\ Shift(o, s)
    \/ /\ run[w].at \notin {"idle", "sweep"}
       /\ \E s \in States \ {"absent"} : Shift(run[w].op, s)

(* No step of a worker goes beyond that. *)
LEMMA WorkerShifts ==
    ASSUME NEW w \in Workers,
           WorkerStep(w) \/ Timeout(w) \/ Refuse(w) \/ LocalError(w) \/ DeferFails(w)
    PROVE  WorkerShift(w)
<1>1. {"Uploading", "Verifying", "Uploaded", "Pending", "VerifyRequired", "Conflict", "Failed"}
        \subseteq States \ {"absent"}
  BY DEF States, Active, Final
<1>2. ASSUME NEW s \in {"Uploading", "Uploaded", "Pending", "VerifyRequired", "Conflict", "Failed"},
             run[w].at \notin {"idle", "sweep"}, Shift(run[w].op, s)
      PROVE  WorkerShift(w)
  BY <1>1, <1>2, ZenonT(60) DEF WorkerShift
<1>3. ASSUME UNCHANGED <<state, file, landed>> PROVE WorkerShift(w)
  BY <1>3 DEF WorkerShift
<1>4. CASE Claim(w)
  <2>1. PICK o \in Saves, s \in Active : /\ state[o] \in {"Pending", "VerifyRequired"}
                                         /\ state' = [state EXCEPT ![o] = s]
    BY <1>4, Zenon DEF Claim, Claimable, Active
  <2>2. UNCHANGED <<file, landed>>
    BY <1>4, Zenon DEF Claim, server
  <2> QED BY <2>1, <2>2, Zenon DEF WorkerShift, Shift
<1>5. CASE Load(w) \/ SaveCheckpoint(w) \/ Clean(w) \/ Sweep(w) \/ Timeout(w) \/ Refuse(w)
           \/ DeferFails(w)
  <2>1. UNCHANGED <<state, file, landed>>
    BY <1>5, Zenon
       DEF Load, SaveCheckpoint, Clean, Sweep, Timeout, Refuse, DeferFails, journal, server
  <2> QED BY <1>3, <2>1
<1>6. CASE RecordSession(w) \/ Requeue(w)
  BY <1>2, <1>6, Zenon DEF RecordSession, Requeue, server, Shift
<1>7. Verdict(reply[w].is) \in {"VerifyRequired", "Conflict", "Failed"}
  BY DEF Verdict
<1>8. CASE Advance(w)
  <2>1. run[w].at \notin {"idle", "sweep"} /\ UNCHANGED <<file, landed>>
    BY <1>8, Zenon DEF Advance, Hears, server
  <2> QED BY <1>2, <1>3, <1>7, <1>8, <2>1, Zenon DEF Advance, Acknowledge, Stop, Shift, journal
<1>9. CASE Reconcile(w)
  <2>1. run[w].at \notin {"idle", "sweep"} /\ UNCHANGED <<file, landed>>
    BY <1>9, Zenon DEF Reconcile, Hears, server
  <2> QED BY <1>2, <1>3, <1>7, <1>9, <2>1, Zenon DEF Reconcile, Stop, Shift, journal
<1>10. CASE Recheck(w)
  <2>1. run[w].at \notin {"idle", "sweep"} /\ UNCHANGED <<file, landed>>
    BY <1>10, Zenon DEF Recheck, Hears, server
  <2> QED BY <1>2, <1>3, <1>7, <1>10, <2>1, ZenonT(60) DEF Recheck, Acknowledge, Stop, Shift, journal
<1>11. CASE LocalError(w)
  <2>1. UNCHANGED <<file, landed>>
    BY <1>11, Zenon DEF LocalError, server
  <2> QED BY <1>2, <1>3, <1>11, <2>1, ZenonT(60) DEF LocalError, Stop, Shift, journal
<1> QED BY <1>4, <1>5, <1>6, <1>8, <1>9, <1>10, <1>11, Zenon DEF WorkerStep

(* Nothing lands but by the provider's doing. *)
LEMMA OnlyProviderLands ==
    ASSUME [Next]_vars
    PROVE  \/ RespondLate \/ \E w \in Workers : Respond(w)
           \/ UNCHANGED landed
<1>1. ASSUME NEW w \in Workers,
             WorkerStep(w) \/ Timeout(w) \/ Refuse(w) \/ LocalError(w) \/ DeferFails(w)
      PROVE  UNCHANGED landed
  BY <1>1, WorkerShifts, Zenon DEF WorkerShift, Shift
<1>2. ASSUME NEW o \in Saves, Enqueue(o) \/ RequestRetry(o) PROVE UNCHANGED landed
  BY <1>2, Zenon DEF Enqueue, RequestRetry, server
<1>3. ASSUME NEW s \in Sids, Expire(s) PROVE UNCHANGED landed
  BY <1>3 DEF Expire
<1>4. CASE Crash \/ Foreign \/ UNCHANGED vars
  BY <1>4, Zenon DEF Crash, Foreign, vars, server
<1> QED BY <1>1, <1>2, <1>3, <1>4, Zenon DEF Next

(* A save replaces only the very content it was made from, even when the     *)
(* request was given up long ago and is executed late.                       *)
THEOREM NothingOverwritten == Spec => NeverOverwrites
<1> DEFINE Safe == \A o \in Saves : landed'[o] > landed[o] =>
                     IF Creates(o) THEN file = NoFile ELSE file # NoFile /\ file.text = BaseText(o)
<1>1. TransferInv /\ [Next]_vars => [Safe]_vars
  <2> SUFFICES ASSUME TransferInv, [Next]_vars PROVE Safe
    BY Zenon
  <2>1. landed \in [Saves -> Nat]
    BY DEF TransferInv, CloudTypes
  <2>2. CASE UNCHANGED landed
    BY <2>1, <2>2
  <2>3. ASSUME NEW o \in Saves, NEW r, Lands(r, o) PROVE Safe
    <3>1. \A p \in Saves : landed'[p] > landed[p] => p = o
      BY <2>1, <2>3 DEF Lands
    <3> QED BY <2>3, <3>1, OnItsBase, Zenon DEF Lands
  <2> QED BY <2>2, <2>3, OnlyProviderLands, ProviderStep, Zenon
<1> QED BY <1>1, TransferInvariant, PTL DEF Spec, NeverOverwrites

-----------------------------------------------------------------------------
(* The workers and the adapter implement SaveDelivery. *)

(* What the refinement mapping makes of the state. *)
Text == IF file = NoFile THEN Nothing ELSE file.text
Told == [o \in Saves |-> Reported(state[o])]
Arrived == {o \in Saves : landed[o] > 0}
Maps == Delivery!Next \/ UNCHANGED <<Text, Told, Arrived>>

(* The first states map to first states of the abstract delivery. *)
LEMMA InitMaps == Init => Delivery!Init
<1> SUFFICES ASSUME Init PROVE Delivery!Init
  OBVIOUS
<1>1. (IF file = NoFile THEN Nothing ELSE file.text) = IF First = "create" THEN Nothing ELSE Original
  BY TransferBounds DEF Init, NoFile, File, Original, Somebody
<1>2. [o \in Saves |-> Reported(state[o])] = [o \in Saves |-> "none"]
  BY Zenon DEF Init, Reported
<1>3. {o \in Saves : landed[o] > 0} = {}
  BY DEF Init
<1> QED BY <1>1, <1>2, <1>3
        DEF Delivery!Init, Delivery!Saves, Delivery!Nothing, Delivery!Original, Saves, Nothing, Original

(* One save goes from one report to another. *)
LEMMA RowMaps ==
    ASSUME TransferInv, NEW o \in Saves, NEW s, Shift(o, s),
           \/ Reported(s) = Reported(state[o])
           \/ /\ state[o] = "absent" /\ (o > 1 => state[o - 1] # "absent")
              /\ Reported(s) = "waiting"
           \/ /\ Reported(state[o]) = "waiting"
              /\ s = "Uploaded" => landed[o] > 0
              /\ s # "absent"
           \/ Reported(state[o]) = "refused" /\ Reported(s) = "waiting"
    PROVE  Maps
<1>1. Told' = [Told EXCEPT ![o] = Reported(s)] /\ Told[o] = Reported(state[o])
  BY Zenon DEF TransferInv, JournalTypes, Shift, Told
<1>2. UNCHANGED <<Text, Arrived>>
  BY Zenon DEF Shift, Text, Arrived
<1>3. /\ o > 1 => Told[o - 1] = Reported(state[o - 1])
      /\ landed[o] > 0 => o \in Arrived
  BY TransferBounds DEF Told, Arrived, Saves
<1>4. \A z : /\ Reported(z) = "none" <=> z = "absent"
             /\ Reported(z) = "confirmed" <=> z = "Uploaded"
             /\ Reported(z) \in {"none", "confirmed", "refused", "waiting"}
  BY DEF Reported
<1>5. CASE Reported(s) = Reported(state[o])
  BY <1>1, <1>2, <1>5, Zenon DEF Maps, Told
<1>6. CASE Told[o] = "none" /\ (o > 1 => Told[o - 1] # "none") /\ Reported(s) = "waiting"
  BY <1>1, <1>2, <1>6, Zenon
  DEF Maps, Delivery!Next, Delivery!Save, Delivery!Saves, Saves, Told, Text, Arrived
<1>7. CASE Told[o] = "waiting" /\ Reported(s) = "confirmed" /\ o \in Arrived
  BY <1>1, <1>2, <1>7, Zenon
  DEF Maps, Delivery!Next, Delivery!Confirm, Delivery!Saves, Saves, Told, Text, Arrived
<1>8. CASE Told[o] = "waiting" /\ Reported(s) = "refused"
  BY <1>1, <1>2, <1>8, Zenon
  DEF Maps, Delivery!Next, Delivery!Refuse, Delivery!Saves, Saves, Told, Text, Arrived
<1>9. CASE Told[o] = "refused" /\ Reported(s) = "waiting"
  BY <1>1, <1>2, <1>9, Zenon
  DEF Maps, Delivery!Next, Delivery!Retry, Delivery!Saves, Saves, Told, Text, Arrived
<1> QED BY <1>1, <1>3, <1>4, <1>5, <1>6, <1>7, <1>8, <1>9

(* A landing delivers. *)
LEMMA LandsMaps ==
    ASSUME TransferInv, NEW r, NEW o \in Saves, Lands(r, o)
    PROVE  Maps
<1>1. /\ Conditioned(r, o) /\ Admits(r) /\ state[o] # "absent" /\ file' = Written(r)
      /\ landed' = [landed EXCEPT ![o] = landed[o] + 1] /\ UNCHANGED state /\ r.op = o /\ Ready(o)
      /\ landed \in [Saves -> Nat] /\ clock \in Nat
  BY Zenon DEF Lands, Conditioned, TransferInv, CloudTypes
<1>2. Text' = o
  <2>1. Written(r).text = o /\ Written(r).etag = clock + 1
    BY <1>1, ZenonT(60) DEF Written, File
  <2>2. Written(r) # NoFile
    BY <1>1, <2>1 DEF NoFile, File
  <2> QED BY <1>1, <2>1, <2>2, Zenon DEF Text
<1>3. Arrived' = Arrived \cup {o} /\ UNCHANGED Told
  BY <1>1 DEF Arrived, Told
<1>4. Told[o] # "none" /\ (o > 1 => Told[o - 1] = "confirmed")
  BY <1>1, TransferBounds DEF Told, Reported, Ready, Saves
<1>5. IF Creates(o) THEN Text = Nothing ELSE Text = o - 1 /\ o \notin Arrived
  BY <1>1, OnItsBase DEF Text, Arrived, BaseText, Original
<1> QED BY <1>2, <1>3, <1>4, <1>5, Zenon
        DEF Maps, Delivery!Next, Delivery!Deliver, Delivery!Saves, Delivery!Creates, Delivery!Nothing,
            Saves, Creates, Nothing, Text, Told, Arrived

(* Every step is one of SaveDelivery's, or invisible there. *)
LEMMA NextMaps ==
    ASSUME TransferInv, TransferInv', [Next]_vars
    PROVE  Maps
<1>0. ASSUME UNCHANGED <<state, file, landed>> PROVE Maps
  BY <1>0 DEF Maps, Text, Told, Arrived
<1>1. ASSUME NEW o \in Saves, Enqueue(o) PROVE Maps
  <2>1. Shift(o, "Pending") /\ state[o] = "absent" /\ (o > 1 => state[o - 1] # "absent")
    BY <1>1, Zenon DEF Enqueue, Shift, server
  <2> QED BY <2>1, RowMaps, Zenon DEF Reported
<1>2. ASSUME NEW o \in Saves, RequestRetry(o) PROVE Maps
  <2>1. Shift(o, "VerifyRequired") /\ state[o] = "Failed"
    BY <1>2 DEF RequestRetry, Shift, server
  <2> QED BY <2>1, RowMaps, Zenon DEF Reported
<1>3. ASSUME NEW w \in Workers, WorkerShift(w) PROVE Maps
  <2>1. ASSUME NEW o \in Saves, NEW s \in Active, state[o] \in {"Pending", "VerifyRequired"}, Shift(o, s)
        PROVE  Maps
    BY <2>1, RowMaps, Zenon DEF Reported, Active
  <2>2. ASSUME run[w].at \notin {"idle", "sweep"}, NEW s \in States \ {"absent"}, Shift(run[w].op, s)
        PROVE  Maps
    <3>1. PICK o \in Saves : Busy(w, o)
      BY <2>2, AtWork
    <3>2. run[w].op = o /\ state[o] \in Active
      BY <2>2, <3>1, Zenon DEF Busy
    <3>3. s = "Uploaded" => landed[o] > 0
      <4>1. state'[o] = s /\ landed' = landed
        BY <2>2, <3>2, Zenon DEF Shift, TransferInv, JournalTypes
      <4>2. Row(o)'
        BY Zenon DEF TransferInv
      <4>3. s = "Uploaded" => receipt'[o].text = o /\ KnownIn(receipt'[o], file', clock', landed')
        BY <4>1, <4>2, Zenon DEF Row, Known
      <4> QED BY <4>1, <4>3, Zenon DEF KnownIn
    <3>4. Reported(state[o]) = "waiting"
      BY <3>2 DEF Reported, Active
    <3> QED BY <2>2, <3>2, <3>3, <3>4, RowMaps, ZenonT(60)
  <2> QED BY <1>0, <1>3, <2>1, <2>2, Zenon DEF WorkerShift
<1>4. ASSUME NEW w \in Workers,
             WorkerStep(w) \/ Timeout(w) \/ Refuse(w) \/ LocalError(w) \/ DeferFails(w)
      PROVE  Maps
  BY <1>3, <1>4, WorkerShifts
<1>5. CASE RespondLate \/ \E w \in Workers : Respond(w)
  BY <1>0, <1>5, ProviderStep, LandsMaps
<1>6. ASSUME NEW s \in Sids, Expire(s) PROVE Maps
  BY <1>0, <1>6 DEF Expire, journal
<1>7. CASE UNCHANGED vars
  BY <1>0, <1>7, Zenon DEF vars, journal, server
<1>8. CASE Crash
  <2>1. \A o \in Saves : Reported(state'[o]) = Reported(state[o])
    BY <1>8, Zenon DEF Crash, Reported
  <2>2. UNCHANGED <<file, landed>>
    BY <1>8, Zenon DEF Crash, server
  <2> QED BY <2>1, <2>2 DEF Maps, Text, Told, Arrived
<1>9. CASE Foreign
  <2>1. UNCHANGED <<state, landed>>
    BY <1>9 DEF Foreign, journal
  <2>2. UNCHANGED <<Told, Arrived>>
    BY <2>1 DEF Told, Arrived
  <2>3. Text' \in {Text, Somebody, Nothing}
    <3>1. /\ file' # NoFile => file'.text \in {file.text, Somebody}
          /\ file' # NoFile /\ file = NoFile => file'.text = Somebody
      <4>1. CASE file # NoFile
        <5>1. file' \in {[file EXCEPT !.etag = clock + 1, !.rev = clock + 1, !.text = Somebody],
                         [file EXCEPT !.etag = clock + 1], NoFile}
          BY <1>9, <4>1 DEF Foreign
        <5>2. file \in FileType
          BY Zenon DEF TransferInv, CloudTypes
        <5> QED BY <4>1, <5>1, <5>2, Zenon DEF FileType
      <4>2. CASE file = NoFile
        BY <1>9, <4>2 DEF Foreign, File
      <4> QED BY <4>1, <4>2
    <3> QED BY <3>1 DEF Text
  <2> QED BY <2>2, <2>3, Zenon
          DEF Maps, Delivery!Next, Delivery!Interfere, Delivery!Somebody, Delivery!Nothing, Somebody,
              Nothing, Text, Told, Arrived
<1> QED BY <1>1, <1>2, <1>4, <1>5, <1>6, <1>7, <1>8, <1>9, Zenon DEF Next

(* Whatever is lost, repeated, late or changed by others: bytes arrive in    *)
(* the order of the saves, each on the content it was made from, and a save  *)
(* is confirmed only after its bytes arrived.                                *)
THEOREM ImplementsDelivery == Spec => Delivers
<1>1. TransferInv /\ TransferInv' /\ [Next]_vars => [Delivery!Next]_(Delivery!vars)
  BY NextMaps, Zenon DEF Maps, Text, Told, Arrived, Delivery!vars
<1> QED BY <1>1, InitMaps, TransferInvariant, PTL DEF Spec, Delivers, Delivery!Spec

=============================================================================
