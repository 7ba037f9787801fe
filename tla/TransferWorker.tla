---------------------------- MODULE TransferWorker ----------------------------
(***************************************************************************)
(* The upload workers (crates/cirrove-service/src/transfers.rs) driving    *)
(* the OneDrive adapter (crates/cirrove-onedrive/src/upload.rs) for one    *)
(* file that is saved several times.  Save o is row o of the write         *)
(* journal; save 1 creates the file or replaces a known version of it, and *)
(* save o + 1 follows the receipt of save o (enqueue_after).               *)
(*                                                                         *)
(* The provider is external and is modelled from what the adapter asks of  *)
(* it: conditional requests, upload sessions that receive parts in order,  *)
(* and an ETag that is new after every change.  A request that the worker  *)
(* gave up on may still be executed later; anyone else may edit, touch,    *)
(* remove or create the file.                                              *)
(***************************************************************************)
EXTENDS Integers, FiniteSets

CONSTANTS MaxSaves,     \* saves of the file
          First,        \* "create" or "replace": what the first save does
          Sizes,        \* how many parts a save may have; 0 for an empty file
          Workers,      \* transfer workers (two in WriteWorkers::spawn)
          MaxFaults,    \* bound on timeouts, refusals, local errors, crashes
          MaxForeign,   \* bound on changes made by others
          MaxSessions   \* bound on upload sessions

ASSUME TransferBounds ==
    /\ MaxSaves \in Nat \ {0} /\ Sizes \subseteq Nat /\ MaxSessions \in Nat
    /\ MaxFaults \in Nat /\ MaxForeign \in Nat
    /\ First \in {"create", "replace"}
    /\ "none" \notin Workers

VARIABLES state,     \* UploadState of each save; "absent" = not saved yet
          size,      \* the parts of each save
          attempt,   \* the worker holding the attempt token
          want,      \* what the request is conditioned on: the base file
          receipt,   \* the acknowledged remote node
          vault,     \* the checkpoint stored under upload/<id>, as its session
          run,       \* per worker: where execute() is, its save, session, part
          call,      \* per worker: the request on the wire
          reply,     \* per worker: the answer that arrived
          late,      \* requests whose caller is gone but that may still execute
          file,      \* provider: the file at the name
          clock,     \* provider: the last ETag handed out
          sess,      \* provider: the upload sessions
          landed,    \* provider: how often the bytes of a save became the file
          removals,  \* changes by others that removed the file
          faults, foreign

journal == <<state, size, attempt, want, receipt>>
server == <<file, clock, sess, landed>>
vars == <<journal, vault, run, call, reply, late, server, removals, faults, foreign>>

Saves == 1..MaxSaves
Sids == 1..MaxSessions
None == "none"
Nothing == -2        \* no content at the name
Somebody == -1       \* the author of content written by others
Original == 0        \* the author of the content replaced by the first save

File(id, etag, rev, text) == [id |-> id, etag |-> etag, rev |-> rev, text |-> text]
NoFile == File(0, 0, 0, Somebody)
Creates(o) == o = 1 /\ First = "create"
(* The content that save o was made from. *)
BaseText(o) == IF o = 1 THEN Original ELSE o - 1

(* Mutant of Request: the condition names the version seen last. *)
RequestLatest(is, o, sid, part) ==
    [is |-> is, op |-> o, sid |-> sid, part |-> part, want |-> IF Creates(o) THEN want[o] ELSE file]
Request(is, o, sid, part) == [is |-> is, op |-> o, sid |-> sid, part |-> part, want |-> want[o]]
NoCall == [is |-> None, op |-> 0, sid |-> 0, part |-> 0, want |-> NoFile]
Answer(is, sid, part, f) == [is |-> is, sid |-> sid, part |-> part, file |-> f]
NoReply == Answer(None, 0, 0, NoFile)
At(at, o, sid, part, seen) == [at |-> at, op |-> o, sid |-> sid, part |-> part, seen |-> seen]
Idle == At("idle", 0, 0, 0, NoFile)

Init ==
    /\ state = [o \in Saves |-> "absent"]
    /\ size = [o \in Saves |-> 0]
    /\ attempt = [o \in Saves |-> None]
    /\ file = IF First = "create" THEN NoFile ELSE File(1, 1, 1, Original)
    /\ clock = 1
    /\ want = [o \in Saves |-> IF o = 1 THEN file ELSE NoFile]
    /\ receipt = [o \in Saves |-> NoFile]
    /\ vault = [o \in Saves |-> 0]
    /\ run = [w \in Workers |-> Idle]
    /\ call = [w \in Workers |-> NoCall]
    /\ reply = [w \in Workers |-> NoReply]
    /\ late = {}
    /\ sess = [s \in Sids |-> [is |-> "free", got |-> 0]]
    /\ landed = [o \in Saves |-> 0]
    /\ removals = 0 /\ faults = 0 /\ foreign = 0

-----------------------------------------------------------------------------
(* The journal's calls, under its lock (journal.rs). *)

(* enqueue, enqueue_after: the application closes the file. *)
Enqueue(o) ==
    /\ state[o] = "absent" /\ (o > 1 => state[o - 1] # "absent")
    /\ state' = [state EXCEPT ![o] = "Pending"]
    /\ \E n \in Sizes : size' = [size EXCEPT ![o] = n]
    /\ UNCHANGED <<attempt, want, receipt, vault, run, call, reply, late, server,
                   removals, faults, foreign>>

(* A later save waits for its predecessor and takes its receipt as the base. *)
Ready(o) == o > 1 => state[o - 1] = "Uploaded"
Claimable(from) == {o \in Saves : state[o] = from /\ Ready(o)}

(* defer_attempt and run_once's classification of what went wrong. *)
Verdict(is) == CASE is = "conflict" -> "Conflict"
                 [] is = "failed" -> "Failed"
                 [] OTHER -> "VerifyRequired"
(* Mutant of Stop: the attempt token stays on the row. *)
StopHolding(w, s) ==
    /\ state' = [state EXCEPT ![run[w].op] = s]
    /\ run' = [run EXCEPT ![w] = Idle]
    /\ UNCHANGED <<size, attempt, want, receipt>>
Stop(w, s) ==
    LET o == run[w].op IN
    /\ state' = [state EXCEPT ![o] = s]
    /\ attempt' = [attempt EXCEPT ![o] = None]
    /\ run' = [run EXCEPT ![w] = Idle]
    /\ UNCHANGED <<size, want, receipt>>

(* request_retry *)
RequestRetry(o) ==
    /\ state[o] = "Failed"
    /\ state' = [state EXCEPT ![o] = "VerifyRequired"]
    /\ UNCHANGED <<size, attempt, want, receipt, vault, run, call, reply, late, server,
                   removals, faults, foreign>>

-----------------------------------------------------------------------------
(* The worker: run_once and execute. *)

(* The worker moves to `at' and puts request r on the wire. *)
Ask(w, r, next) == /\ run' = [run EXCEPT ![w] = next]
                   /\ call' = [call EXCEPT ![w] = r]

(* begin_upload: an empty file is one conditional PUT; a replacement first   *)
(* looks at the item; a creation opens its session right away.               *)
BeginCall(o) == IF size[o] = 0 THEN "put" ELSE IF Creates(o) THEN "open" ELSE "get"

(* run_once: verification first; the claim binds the predecessor's receipt. *)
Claim(w) ==
    /\ run[w] = Idle
    /\ \E o \in Saves :
       LET base == IF o > 1 THEN receipt[o - 1] ELSE want[o]
           verify == o \in Claimable("VerifyRequired")
       IN  /\ verify \/ (o \in Claimable("Pending") /\ Claimable("VerifyRequired") = {})
           /\ state' = [state EXCEPT ![o] = IF verify THEN "Verifying" ELSE "Uploading"]
           /\ attempt' = [attempt EXCEPT ![o] = w]
           /\ want' = [want EXCEPT ![o] = base]
           /\ IF verify
              THEN run' = [run EXCEPT ![w] = At("load", o, 0, 0, NoFile)] /\ UNCHANGED call
              ELSE Ask(w, [Request(BeginCall(o), o, 0, 0) EXCEPT !.want = base],
                       At(BeginCall(o), o, 0, 0, NoFile))
    /\ UNCHANGED <<size, receipt, vault, reply, late, server, removals, faults, foreign>>

(* A verifying attempt loads the checkpoint and inspects its session, or,    *)
(* with none, reconciles against the remote file.                            *)
Load(w) ==
    LET o == run[w].op
        sid == vault[o]
        is == IF sid # 0 THEN "inspect" ELSE "stat"
    IN  /\ run[w].at = "load"
        /\ Ask(w, Request(is, o, sid, 0), At(is, o, sid, 0, NoFile))
        /\ UNCHANGED <<journal, vault, reply, late, server, removals, faults, foreign>>

(* checkpoint: the session credential reaches the vault, then the journal    *)
(* refers to it, and only then does the next request leave.                  *)
SaveCheckpoint(w) ==
    /\ run[w].at = "save"
    /\ vault' = [vault EXCEPT ![run[w].op] = run[w].sid]
    /\ run' = [run EXCEPT ![w].at = "record"]
    /\ UNCHANGED <<journal, call, reply, late, server, removals, faults, foreign>>
RecordSession(w) ==
    LET r == run[w]
        is == IF r.part <= size[r.op] THEN "part" ELSE "commit"
    IN  /\ r.at = "record"
        /\ state' = [state EXCEPT ![r.op] = "Uploading"]
        /\ Ask(w, Request(is, r.op, r.sid, r.part), [r EXCEPT !.at = is])
        /\ UNCHANGED <<size, attempt, want, receipt, vault, reply, late, server, removals, faults, foreign>>

-----------------------------------------------------------------------------
(* What the worker does with an answer: the adapter's checks and the loop of *)
(* execute().                                                                *)

Hears(w, at) == run[w].at = at /\ reply[w].is # None
Heard(w) == reply' = [reply EXCEPT ![w] = NoReply]

(* acknowledge, then clean_checkpoint. *)
Acknowledge(w, f) ==
    LET o == run[w].op IN
    /\ state' = [state EXCEPT ![o] = "Uploaded"]
    /\ attempt' = [attempt EXCEPT ![o] = None]
    /\ receipt' = [receipt EXCEPT ![o] = f]
    /\ run' = [run EXCEPT ![w].at = "sweep"]
    /\ UNCHANGED <<size, want, call>>

(* Mutant of FallsBack: a session that is gone defers the attempt. *)
FallsBackWhenLost(w) == run[w].at = "inspect" /\ reply[w].is = "lost"
(* "an uncertain inspection must never trigger a blind second upload": an    *)
(* unusable session leads to reconciliation with the remote file.            *)
FallsBack(w) == run[w].at = "inspect" /\ reply[w].is \in {"gone", "lost"}
(* Answers to put, get, open, inspect, part and commit. *)
Advance(w) ==
    LET a == reply[w]
        r == run[w]
    IN
    /\ \E at \in {"put", "get", "open", "inspect", "part", "commit"} : Hears(w, at)
    /\ \/ /\ a.is = "complete"
          /\ Acknowledge(w, a.file)
       \/ /\ a.is = "fresh"
          /\ Ask(w, Request("open", r.op, 0, 0), [r EXCEPT !.at = "open"])
          /\ UNCHANGED journal
       \/ /\ a.is = "next"
          /\ run' = [run EXCEPT ![w] = At("save", r.op, a.sid, a.part, NoFile)]
          /\ UNCHANGED <<journal, call>>
       \/ /\ FallsBack(w)
          /\ Ask(w, Request("stat", r.op, 0, 0), [r EXCEPT !.at = "stat"])
          /\ UNCHANGED journal
       \/ /\ a.is \notin {"complete", "fresh", "next"} /\ ~FallsBack(w)
          /\ Stop(w, Verdict(a.is)) /\ UNCHANGED call
    /\ Heard(w)
    /\ UNCHANGED <<vault, late, server, removals, faults, foreign>>

(* reconcile_upload: what the first look at the file establishes. *)
Uncommitted(o, f) == IF Creates(o) THEN f = NoFile ELSE f # NoFile /\ f.etag = want[o].etag
(* Different bytes of the same length are told apart only by reading them. *)
Reconcile(w) ==
    LET o == run[w].op
        f == reply[w].file
    IN
    /\ Hears(w, "stat")
    /\ \/ /\ reply[w].is = "found" /\ Uncommitted(o, f)
          /\ run' = [run EXCEPT ![w] = At("clean", o, 0, 0, NoFile)]
          /\ UNCHANGED <<journal, call>>
       \/ /\ reply[w].is = "found" /\ ~Uncommitted(o, f) /\ f.text # o
          /\ Stop(w, "Conflict") /\ UNCHANGED call
       \/ /\ reply[w].is = "found" /\ ~Uncommitted(o, f) /\ f # NoFile
          /\ Ask(w, Request("recheck", o, 0, 0), At("recheck", o, 0, 0, f))
          /\ UNCHANGED journal
       \/ /\ reply[w].is # "found"
          /\ Stop(w, Verdict(reply[w].is)) /\ UNCHANGED call
    /\ Heard(w)
    /\ UNCHANGED <<vault, late, server, removals, faults, foreign>>

(* Mutant of Committed: the length of the file is taken as proof. *)
CommittedBySize(o, before, after) == before.id = after.id /\ before.rev = after.rev
(* The bytes were read between two looks that saw one content revision. *)
Committed(o, before, after) == before.id = after.id /\ before.rev = after.rev /\ after.text = o
Recheck(w) ==
    LET o == run[w].op
        before == run[w].seen
        after == reply[w].file
    IN
    /\ Hears(w, "recheck")
    /\ \/ /\ reply[w].is = "found" /\ Committed(o, before, after)
          /\ Acknowledge(w, after)
       \/ /\ ~(reply[w].is = "found" /\ Committed(o, before, after))
          /\ Stop(w, IF reply[w].is # "found" THEN Verdict(reply[w].is)
                     ELSE IF after.id # before.id THEN "Failed"
                     ELSE IF after.rev # before.rev THEN "VerifyRequired"
                     ELSE "Conflict")
          /\ UNCHANGED call
    /\ Heard(w)
    /\ UNCHANGED <<vault, late, server, removals, faults, foreign>>

(* Mutant of Clean: the row is pending again before its checkpoint is removed. *)
CleanAfterRequeue(w) ==
    /\ run[w].at = "clean"
    /\ state' = [state EXCEPT ![run[w].op] = "Pending"]
    /\ attempt' = [attempt EXCEPT ![run[w].op] = None]
    /\ run' = [run EXCEPT ![w].at = "sweep"]
    /\ UNCHANGED <<size, want, receipt, vault, call, reply, late, server, removals, faults, foreign>>
(* Reconciliation proved that nothing was committed: the checkpoint is       *)
(* removed while this attempt still owns the save.                           *)
Clean(w) ==
    /\ run[w].at = "clean"
    /\ vault' = [vault EXCEPT ![run[w].op] = 0]
    /\ run' = [run EXCEPT ![w].at = "requeue"]
    /\ UNCHANGED <<journal, call, reply, late, server, removals, faults, foreign>>
(* stop_attempt and retry_verified_uncommitted under one lock. *)
Requeue(w) ==
    LET o == run[w].op IN
    /\ run[w].at = "requeue"
    /\ state' = [state EXCEPT ![o] = "Pending"]
    /\ attempt' = [attempt EXCEPT ![o] = None]
    /\ run' = [run EXCEPT ![w] = Idle]
    /\ UNCHANGED <<size, want, receipt, vault, call, reply, late, server, removals, faults, foreign>>
(* clean_checkpoint after the acknowledgement. *)
Sweep(w) ==
    /\ run[w].at = "sweep"
    /\ vault' = [vault EXCEPT ![run[w].op] = 0]
    /\ run' = [run EXCEPT ![w] = Idle]
    /\ UNCHANGED <<journal, call, reply, late, server, removals, faults, foreign>>

-----------------------------------------------------------------------------
(* The provider (external). *)

(* Mutant of Admits: a creation may replace what is already there. *)
AdmitsAny(r) == IF Creates(r.op) THEN TRUE ELSE file # NoFile /\ file.etag = r.want.etag
(* The condition each request carries: conflictBehavior=fail for a creation, *)
(* If-Match with the base's ETag for a replacement of the item.              *)
Admits(r) == IF Creates(r.op) THEN file = NoFile
             ELSE file # NoFile /\ file.id = r.want.id /\ file.etag = r.want.etag
Written(r) == File(IF file = NoFile THEN clock + 1 ELSE file.id, clock + 1, clock + 1, r.op)
(* A creation addresses the name, a replacement the item. *)
Visible(r) == IF Creates(r.op) \/ file.id = r.want.id THEN file ELSE NoFile

(* An outcome: the answer and the sessions after it.  The bytes of the       *)
(* request land exactly when the answer is "complete".                       *)
Outcome(a, sessions) == [answer |-> a, sess |-> sessions]
Says(is) == Outcome(Answer(is, 0, 0, NoFile), sess)
Conditional(r, sessions) ==
    IF Admits(r) THEN Outcome(Answer("complete", 0, 0, Written(r)), sessions)
    ELSE Says("conflict")
Due(s, part, sessions) == Outcome(Answer("next", s, part, NoFile), sessions)

FreeSids == {s \in Sids : sess[s].is = "free"}
Closed(s) == [sess EXCEPT ![s].is = "gone"]
Expired(s) == sess[s].is # "open"

(* createUploadSession; a name collision may show only at the commit. *)
Opened(r) ==
    (IF Admits(r) \/ Creates(r.op)
     THEN {Due(s, 1, [sess EXCEPT ![s] = [is |-> "open", got |-> 0]]) :
             s \in {t \in FreeSids : \A u \in FreeSids : t <= u}}
     ELSE {})
    \cup (IF Admits(r) THEN {} ELSE {Says("conflict")})
(* The last part of a creation commits it; a replacement is deferred. *)
Received(r) ==
    IF r.part # sess[r.sid].got + 1 THEN Says("lost")
    ELSE IF r.part = size[r.op] /\ Creates(r.op) THEN Conditional(r, Closed(r.sid))
    ELSE Due(r.sid, r.part + 1, [sess EXCEPT ![r.sid].got = r.part])

Outcomes(r) ==
    CASE r.is = "put" -> {Conditional(r, sess)}
      [] r.is = "get" -> {Says(IF Visible(r) = NoFile THEN "failed"
                               ELSE IF Admits(r) THEN "fresh" ELSE "conflict")}
      [] r.is = "open" -> Opened(r)
      [] r.is \in {"inspect", "part", "commit"} /\ Expired(r.sid) -> {Says("gone")}
      [] r.is = "inspect" -> {Due(r.sid, sess[r.sid].got + 1, sess)}
      [] r.is = "part" -> {Received(r)}
      [] r.is = "commit" -> {Conditional(r, Closed(r.sid))}
      [] OTHER -> {Outcome(Answer("found", 0, 0, Visible(r)), sess)}
Execute(r, x) ==
    LET lands == x.answer.is = "complete" IN
    /\ sess' = x.sess
    /\ file' = IF lands THEN Written(r) ELSE file
    /\ clock' = IF lands THEN clock + 1 ELSE clock
    /\ landed' = IF lands THEN [landed EXCEPT ![r.op] = @ + 1] ELSE landed

Respond(w) ==
    /\ call[w] # NoCall
    /\ \E x \in Outcomes(call[w]) :
         /\ Execute(call[w], x)
         /\ reply' = [reply EXCEPT ![w] = x.answer]
    /\ call' = [call EXCEPT ![w] = NoCall]
    /\ UNCHANGED <<journal, vault, run, late, removals, faults, foreign>>
(* A request nobody waits for any more is executed after all. *)
RespondLate ==
    /\ \E r \in late : /\ \E x \in Outcomes(r) : Execute(r, x)
                       /\ late' = late \ {r}
    /\ UNCHANGED <<journal, vault, run, call, reply, removals, faults, foreign>>

-----------------------------------------------------------------------------
(* Faults: each counts against MaxFaults. *)

Effective == {"put", "open", "part", "commit"}
Abandoned(ws) == late \cup {r \in {call[w] : w \in ws} : r.is \in Effective}
Fault == faults < MaxFaults /\ faults' = faults + 1

(* remote(): the deadline passes before the answer arrives, or the answer    *)
(* cannot be understood; the request may or may not have been executed.      *)
Timeout(w) ==
    /\ Fault
    /\ call[w] # NoCall \/ reply[w].is # None
    /\ late' = Abandoned({w})
    /\ call' = [call EXCEPT ![w] = NoCall]
    /\ reply' = [reply EXCEPT ![w] = Answer("lost", 0, 0, NoFile)]
    /\ UNCHANGED <<journal, vault, run, server, removals, foreign>>
(* The provider refuses a request without executing it: quota, permission,   *)
(* throttling, a lock.                                                       *)
Refuse(w) == \E is \in {"failed", "busy"} :
    /\ Fault
    /\ call[w] # NoCall
    /\ call' = [call EXCEPT ![w] = NoCall]
    /\ reply' = [reply EXCEPT ![w] = Answer(is, 0, 0, NoFile)]
    /\ UNCHANGED <<journal, vault, run, late, server, removals, foreign>>
(* A session expires. *)
Expire(s) ==
    /\ Fault
    /\ sess[s].is = "open"
    /\ sess' = Closed(s)
    /\ UNCHANGED <<journal, vault, run, call, reply, late, file, clock, landed, removals, foreign>>
(* The credential store fails: a failed load or save stops the attempt, the  *)
(* latter with or without having stored; a failed removal is only logged.    *)
(* An unreadable payload stops it too.                                       *)
LocalError(w) ==
    LET o == run[w].op IN
    /\ Fault
    /\ \/ run[w].at = "load" /\ Stop(w, "VerifyRequired") /\ UNCHANGED vault
       \/ /\ run[w].at = "save" /\ Stop(w, "VerifyRequired")
          /\ \E stored \in {run[w].sid, vault[o]} : vault' = [vault EXCEPT ![o] = stored]
       \/ /\ run[w].at = "record" /\ (\E s \in {"Failed", "VerifyRequired"} : Stop(w, s))
          /\ UNCHANGED vault
       \/ run[w].at = "requeue" /\ Stop(w, "VerifyRequired") /\ UNCHANGED vault
       \/ /\ run[w].at \in {"clean", "sweep"} /\ UNCHANGED <<journal, vault>>
          /\ run' = [run EXCEPT ![w] = IF @.at = "clean" THEN [@ EXCEPT !.at = "requeue"] ELSE Idle]
    /\ UNCHANGED <<call, reply, late, server, removals, foreign>>
(* The attempt fails, or the journal fails it: a local step that cannot be   *)
(* taken, an answer that ends it, a receipt that cannot be recorded.         *)
Fails(w) ==
    \/ run[w].at \in {"load", "save", "record", "requeue"}
    \/ reply[w].is \notin {None, "fresh", "next", "found"} /\ ~FallsBack(w)
    \/ /\ Hears(w, "stat") /\ ~Uncommitted(run[w].op, reply[w].file)
       /\ reply[w].file.text # run[w].op
    \/ Hears(w, "recheck")
(* The journal cannot be written when the attempt is to be deferred:         *)
(* run_once returns that error, pump only reports it, and the save stays     *)
(* held under its token; nobody claims it before the journal is reopened.    *)
DeferFails(w) ==
    /\ Fault
    /\ Fails(w)
    /\ run' = [run EXCEPT ![w] = Idle]
    /\ Heard(w)
    /\ UNCHANGED <<journal, vault, call, late, server, removals, foreign>>
(* The process dies and reopens the journal: every attempt is uncertain. *)
Crash ==
    /\ Fault
    /\ (\E w \in Workers : run[w] # Idle) \/ (\E o \in Saves : attempt[o] # None)
    /\ state' = [o \in Saves |-> IF state[o] \in {"Uploading", "Verifying"} THEN "VerifyRequired"
                                 ELSE state[o]]
    /\ attempt' = [o \in Saves |-> None]
    /\ run' = [w \in Workers |-> Idle]
    /\ late' = Abandoned(Workers)
    /\ call' = [w \in Workers |-> NoCall]
    /\ reply' = [w \in Workers |-> NoReply]
    /\ UNCHANGED <<size, want, receipt, vault, server, removals, foreign>>

(* Somebody else edits the file, changes its metadata, removes or creates it. *)
Foreign ==
    /\ foreign < MaxForeign
    /\ foreign' = foreign + 1
    /\ \/ /\ file # NoFile
          /\ file' \in {[file EXCEPT !.etag = clock + 1, !.rev = clock + 1, !.text = Somebody],
                        [file EXCEPT !.etag = clock + 1], NoFile}
       \/ file = NoFile /\ file' = File(clock + 1, clock + 1, clock + 1, Somebody)
    /\ clock' = clock + 1
    /\ removals' = IF file' = NoFile THEN removals + 1 ELSE removals
    /\ UNCHANGED <<journal, vault, run, call, reply, late, sess, landed, faults>>

-----------------------------------------------------------------------------
WorkerStep(w) ==
    \/ Claim(w) \/ Load(w) \/ SaveCheckpoint(w) \/ RecordSession(w)
    \/ Advance(w) \/ Reconcile(w) \/ Recheck(w)
    \/ Clean(w) \/ Requeue(w) \/ Sweep(w)
Next ==
    \/ \E o \in Saves : Enqueue(o) \/ RequestRetry(o)
    \/ \E w \in Workers : WorkerStep(w) \/ Respond(w)
    \/ \E w \in Workers : Timeout(w) \/ Refuse(w) \/ LocalError(w) \/ DeferFails(w)
    \/ RespondLate
    \/ \E s \in Sids : Expire(s)
    \/ Crash
    \/ Foreign
Spec == Init /\ [][Next]_vars
(* The pump tasks keep polling (writable.rs) and the provider answers.       *)
Fairness == \A w \in Workers : WF_vars(WorkerStep(w)) /\ WF_vars(Respond(w))
FairSpec == Spec /\ Fairness

-----------------------------------------------------------------------------
(* Properties *)

Active == {"Uploading", "Verifying"}
Final == {"absent", "Uploaded", "Conflict", "Failed"}
FileType == [id : Nat, etag : Nat, rev : Nat, text : -1..MaxSaves]
(* The variables keep their types; a save is held exactly while it is        *)
(* uploading or being verified, and a busy worker holds the save it is busy  *)
(* with.                                                                     *)
TypeOK ==
    /\ state \in [Saves -> Active \cup Final \cup {"Pending", "VerifyRequired"}]
    /\ size \in [Saves -> Nat] /\ attempt \in [Saves -> Workers \cup {None}]
    /\ vault \in [Saves -> 0..MaxSessions]
    /\ want \in [Saves -> FileType] /\ receipt \in [Saves -> FileType]
    /\ file \in FileType /\ clock \in Nat /\ landed \in [Saves -> Nat]
    /\ \A o \in Saves : state[o] \in Active <=> attempt[o] # None
    /\ \A w \in Workers : run[w].at \notin {"idle", "sweep"} => attempt[run[w].op] = w

(* "Matching only a filename and size is insufficient proof that our upload  *)
(* committed" (ADR 0002): a save is acknowledged only if its bytes became    *)
(* the remote file, whatever was lost, repeated or changed by others.        *)
AckedBytesLanded == \A o \in Saves : state[o] = "Uploaded" =>
    landed[o] > 0 /\ receipt[o].text = o

(* A save only ever replaces the very content it was made from: an edit by   *)
(* somebody else is never overwritten, not even by a request that was given  *)
(* up long ago and executed late.                                            *)
NeverOverwrites == [][\A o \in Saves : landed'[o] > landed[o] =>
    IF Creates(o) THEN file = NoFile ELSE file # NoFile /\ file.text = BaseText(o)]_vars

(* "a restart must not blindly repeat a mutation whose response may have     *)
(* been lost" (ADR 0002): a save lands once; only a creation may land again, *)
(* after somebody removed the file in between.                               *)
LandsOnce == \A o \in Saves : landed[o] <= 1 + (IF Creates(o) THEN removals ELSE 0)

(* The checkpoint of a running transfer stays in the vault for as long as it *)
(* may be needed: nobody else's cleanup removes or replaces it.              *)
CheckpointKept == \A w \in Workers :
    run[w].at \in {"record", "part", "commit"} => vault[run[w].op] = run[w].sid

(* Every save comes to rest once faults and changes by others end: it is     *)
(* acknowledged or refused, or it waits behind one that was refused.  The    *)
(* exception is a save whose attempt could not be deferred: it, and what     *)
(* waits behind it, stays held by an attempt that nobody works on, until a   *)
(* restart sends it on its way again.                                        *)
Stranded(o) == state[o] \in Active /\ \A w \in Workers : run[w].op # o
Rests(o) ==
    \/ state[o] \in Final \/ Stranded(o)
    \/ \E p \in Saves : p < o /\ (state[p] \in {"Conflict", "Failed"} \/ Stranded(p))
Settles == <>[](\A o \in Saves : Rests(o))

(* The workers and the adapter together keep the promise of SaveDelivery. *)
Reported(s) == CASE s = "absent" -> "none"
                 [] s = "Uploaded" -> "confirmed"
                 [] s \in {"Conflict", "Failed"} -> "refused"
                 [] OTHER -> "waiting"
Delivery == INSTANCE SaveDelivery WITH
    text <- IF file = NoFile THEN Nothing ELSE file.text,
    outcome <- [o \in Saves |-> Reported(state[o])],
    delivered <- {o \in Saves : landed[o] > 0}
Delivers == Delivery!Spec

================================================================================
