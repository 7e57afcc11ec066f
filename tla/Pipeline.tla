------------------------------ MODULE Pipeline ------------------------------
(***************************************************************************)
(* The per-book pipeline of the daemon (crates/pipeline): one scheduler    *)
(* worker draining three bounded queues, the automatic dispatch of a       *)
(* finished stage's dependents, the periodic dispatcher (orphan reaper,    *)
(* then eligibility sweep), and the handlers that feed them: library scan, *)
(* stage retry, soft delete, restore and forced delete.                    *)
(*                                                                         *)
(* Durable state: the books of library.db and the pipeline_progress rows   *)
(* of ephemeral.db.  Everything else lives in the daemon's memory and is   *)
(* lost by Restart, which is a crash, a kill or a shutdown in the middle   *)
(* of a stage, followed by a start.                                        *)
(*                                                                         *)
(* A handler is cut into one action per await point whose order matters to *)
(* another process.                                                        *)
(***************************************************************************)
EXTENDS Naturals, Sequences

CONSTANTS
  Books,          \* book ids
  Stages,         \* stages registered in the DAG
  Order,          \* the DAG's topological order (Dag::iter_topo)
  Requires,       \* Stages -> SUBSET Stages, Stage::requires
  Known,          \* KNOWN_STAGE_NAMES, the names the sweep can read back
  ScanPlan,       \* what library_scan submits per new book: <<[stage, tier]>>
  RetryRequests,  \* stage lists a client may post to the retry endpoint
  Outcomes,       \* Stages -> what a run of the stage may return
  Capacity,       \* Tiers -> channel buffer size
  MaxSubmissions, \* dispatcher_max_submissions_per_tick
  MaxFaults,      \* bound: restarts and failed database statements
  MaxRequests,    \* bound: retry, delete and restore requests
  MaxEvents       \* bound: both together

Tiers == {"interactive", "background", "idle"}
Outcome == {"done", "skipped", "continue", "error"}
Satisfied == {"succeeded", "skipped"}
Status == {"none", "pending", "running", "failed"} \cup Satisfied
Job == [book : Books, stage : Stages]
BookState == {"absent", "active", "trashed", "gone"}
Submission == [stage : Stages, tier : Tiers]

ASSUME PipelineAssumption ==
  /\ Books # {} /\ Stages # {}
  /\ Order \in Seq(Stages)
  /\ \A s \in Stages : \E i \in DOMAIN Order : Order[i] = s
  /\ Requires \in [Stages -> SUBSET Stages]
  /\ Known \subseteq Stages
  /\ ScanPlan \in Seq(Submission)
  /\ ScanPlan # <<>>
  /\ RetryRequests \subseteq Seq(Stages)
  /\ Outcomes \in [Stages -> SUBSET Outcome]
  /\ Capacity \in [Tiers -> Nat \ {0}]
  /\ MaxSubmissions \in Nat
  /\ MaxFaults \in Nat
  /\ MaxRequests \in Nat
  /\ MaxEvents \in Nat

VARIABLES
  books,      \* library.books: absent, active, trashed (deleted_at set), gone
  progress,   \* ephemeral.pipeline_progress; "none" is a missing row
  queue,      \* the three mpsc channels
  worker,     \* the task Scheduler::spawn starts
  idleReady,  \* idle_wait has elapsed since last_busy
  disp,       \* the dispatcher loop
  scan,       \* a library_scan request in progress
  retry,      \* a retry request in progress
  faults,     \* restarts and failed statements so far
  requests,   \* client requests so far
  completed   \* history: <<book, stage>> whose run has returned Done or Skipped

vars == <<books, progress, queue, worker, idleReady, disp, scan, retry,
          faults, requests, completed>>
durable == <<books, progress>>
clients == <<scan, retry, requests>>

-----------------------------------------------------------------------------
(* The DAG, the channels and the idle states *)

Pos(s) == CHOOSE i \in DOMAIN Order : Order[i] = s
FirstInOrder(S) == {s \in S : \A t \in S : Pos(s) <= Pos(t)}
Dependents(s) == {t \in Stages : s \in Requires[t]}
NoRows == [s \in Stages |-> "none"]

\* Mutant: one job too many
HasRoomOffByOne(tier) == Len(queue[tier]) <= Capacity[tier]

HasRoom(tier) == Len(queue[tier]) < Capacity[tier]
Send(tier, job) == queue' = [queue EXCEPT ![tier] = Append(@, job)]

\* Mutant: send().await in place of try_send
BlockingSend(tier, job) == HasRoom(tier) /\ Send(tier, job)

\* mpsc try_send: a full channel drops the job and the sender carries on
TrySend(tier, job) ==
  IF HasRoom(tier) THEN Send(tier, job) ELSE UNCHANGED queue

AnyJob == CHOOSE j \in Job : TRUE
Polling == [pc |-> "poll", job |-> AnyJob, todo |-> {}]
Dispatching(job, todo) ==
  IF todo = {} THEN Polling ELSE [pc |-> "dispatch", job |-> job, todo |-> todo]
Asleep == [pc |-> "sleep", active |-> {}, todo |-> {}, book |-> AnyJob.book,
           rows |-> NoRows, submitted |-> 0]
NoScan == [new |-> <<>>, at |-> 0]
NoRetry == [book |-> AnyJob.book, stages |-> <<>>, cleared |-> FALSE]

Init ==
  /\ books = [b \in Books |-> "absent"]
  /\ progress = [b \in Books |-> NoRows]
  /\ queue = [t \in Tiers |-> <<>>]
  /\ worker = Polling
  /\ idleReady = FALSE
  /\ disp = Asleep
  /\ scan = NoScan
  /\ retry = NoRetry
  /\ faults = 0
  /\ requests = 0
  /\ completed = {}

-----------------------------------------------------------------------------
(* The worker *)

\* The biased select of the worker loop: interactive first, then background,
\* then idle once the quiet window has elapsed.  Only the two higher tiers
\* move last_busy.
Selectable(tier) ==
  /\ queue[tier] # <<>>
  /\ tier # "interactive" => queue["interactive"] = <<>>
  /\ tier = "idle" => queue["background"] = <<>> /\ idleReady

Take(tier) ==
  /\ worker.pc = "poll"
  /\ Selectable(tier)
  /\ worker' = [worker EXCEPT !.pc = "start", !.job = Head(queue[tier])]
  /\ queue' = [queue EXCEPT ![tier] = Tail(@)]
  /\ idleReady' = IF tier = "idle" THEN idleReady ELSE FALSE
  /\ UNCHANGED <<durable, disp, clients, faults, completed>>

QuietElapses ==
  /\ ~idleReady
  /\ idleReady' = TRUE
  /\ UNCHANGED <<durable, queue, worker, disp, clients, faults, completed>>

\* A progress write is best effort: a failed statement is logged and the
\* stage goes on as if it had been made.
WriteRow(b, s, status) ==
  \/ /\ progress' = [progress EXCEPT ![b][s] = status]
     /\ UNCHANGED faults
  \/ /\ faults < MaxFaults /\ faults + requests < MaxEvents
     /\ faults' = faults + 1
     /\ UNCHANGED progress

\* write_progress_start, an upsert
Start ==
  /\ worker.pc = "start"
  /\ WriteRow(worker.job.book, worker.job.stage, "running")
  /\ worker' = [worker EXCEPT !.pc = "run"]
  /\ UNCHANGED <<books, queue, idleReady, disp, clients, completed>>

\* Mutants: the error path leaves the row as write_progress_start left it;
\* Continue is recorded like Done
StatusOfNoFailed(outcome) ==
  CASE outcome = "done" -> "succeeded"
    [] outcome = "skipped" -> "skipped"
    [] outcome = "continue" -> "pending"
    [] outcome = "error" -> "running"
StatusOfContinueDone(outcome) ==
  CASE outcome \in {"done", "continue"} -> "succeeded"
    [] outcome = "skipped" -> "skipped"
    [] outcome = "error" -> "failed"

StatusOf(outcome) ==
  CASE outcome = "done" -> "succeeded"
    [] outcome = "skipped" -> "skipped"
    [] outcome = "continue" -> "pending"
    [] outcome = "error" -> "failed"

\* The stage body returns and its status is written: an UPDATE, which does
\* nothing when a reset or the reaper has deleted the row meanwhile.  Done and
\* Skipped go on to the dependents.
Finish(outcome) ==
  LET b == worker.job.book
      s == worker.job.stage
      over == outcome \in {"done", "skipped"}
  IN  /\ worker.pc = "run"
      /\ outcome \in Outcomes[s]
      /\ IF progress[b][s] = "none"
         THEN UNCHANGED <<progress, faults>>
         ELSE WriteRow(b, s, StatusOf(outcome))
      /\ completed' = IF over THEN completed \cup {<<b, s>>} ELSE completed
      /\ worker' = Dispatching(worker.job, IF over THEN Dependents(s) ELSE {})
      /\ UNCHANGED <<books, queue, idleReady, disp, clients>>

\* Mutants: any row will do for a dependency; a missing row is not eligible
AllPresent(rows, s) == \A d \in Requires[s] : rows[d] # "none"
UnclaimedRow(rows, s) == rows[s] \in {"pending", "failed"}

AllSatisfied(rows, s) == \A d \in Requires[s] : rows[d] \in Satisfied
Unclaimed(rows, s) == rows[s] \notin Satisfied \cup {"running"}

\* One candidate of dispatch_ready_dependents, in topological order
DispatchDependent ==
  LET b == worker.job.book
  IN  /\ worker.pc = "dispatch"
      /\ \E s \in FirstInOrder(worker.todo) :
           /\ IF AllSatisfied(progress[b], s) /\ Unclaimed(progress[b], s)
              THEN TrySend("background", [book |-> b, stage |-> s])
              ELSE UNCHANGED queue
           /\ worker' = Dispatching(worker.job, worker.todo \ {s})
      /\ UNCHANGED <<durable, idleReady, disp, clients, faults, completed>>

-----------------------------------------------------------------------------
(* The dispatcher loop *)

\* Mutant: a deleted book still counts as active
EverScanned == {b \in Books : books[b] # "absent"}

OnDisk == {b \in Books : books[b] \in {"active", "trashed"}}
HasRows(b) == \E s \in Stages : progress[b][s] # "none"

\* reap_orphans reads the books that have files ...
TickReadsBooks ==
  /\ disp.pc = "sleep"
  /\ disp' = [disp EXCEPT !.pc = "orphans", !.active = OnDisk]
  /\ UNCHANGED <<durable, queue, worker, idleReady, clients, faults, completed>>

\* ... then, in another database, the books that have progress rows ...
TickReadsProgress ==
  /\ disp.pc = "orphans"
  /\ disp' = [disp EXCEPT !.pc = "reap", !.active = {},
                          !.todo = {b \in Books : HasRows(b)} \ disp.active]
  /\ UNCHANGED <<durable, queue, worker, idleReady, clients, faults, completed>>

\* ... and deletes the rows of the others, one book per statement.
Reap(b) ==
  /\ disp.pc = "reap"
  /\ b \in disp.todo
  /\ progress' = [progress EXCEPT ![b] = NoRows]
  /\ disp' = [disp EXCEPT !.todo = @ \ {b}]
  /\ UNCHANGED <<books, queue, worker, idleReady, clients, faults, completed>>

\* sweep_eligible lists the books that are not soft-deleted
SweepBegins ==
  /\ disp.pc = "reap"
  /\ disp.todo = {}
  /\ disp' = [disp EXCEPT !.pc = "sweep", !.submitted = 0,
                          !.todo = {b \in Books : books[b] = "active"}]
  /\ UNCHANGED <<durable, queue, worker, idleReady, clients, faults, completed>>

\* read_book_progress: a row whose stage is not in Known is read as missing
SweepReads(b) ==
  /\ disp.pc = "sweep"
  /\ disp.submitted < MaxSubmissions
  /\ b \in disp.todo
  /\ disp' = [disp EXCEPT
                !.pc = "pick", !.book = b, !.todo = @ \ {b},
                !.rows = [s \in Stages |->
                            IF s \in Known THEN progress[b][s] ELSE "none"]]
  /\ UNCHANGED <<durable, queue, worker, idleReady, clients, faults, completed>>

Eligible(rows) == {s \in Stages : Unclaimed(rows, s) /\ AllSatisfied(rows, s)}

\* Submit the book's first eligible stage, if it has one; a full channel ends
\* the sweep
Swept(n) == [Asleep EXCEPT !.pc = "sweep", !.todo = disp.todo,
                           !.submitted = disp.submitted + n]

SweepSubmits ==
  LET first == FirstInOrder(Eligible(disp.rows))
  IN  /\ disp.pc = "pick"
      /\ \/ /\ first = {}
            /\ disp' = Swept(0)
            /\ UNCHANGED queue
         \/ /\ first # {}
            /\ ~HasRoom("background")
            /\ disp' = Asleep
            /\ UNCHANGED queue
         \/ /\ HasRoom("background")
            /\ \E s \in first :
                 Send("background", [book |-> disp.book, stage |-> s])
            /\ disp' = Swept(1)
      /\ UNCHANGED <<durable, worker, idleReady, clients, faults, completed>>

SweepEnds ==
  /\ disp.pc = "sweep"
  /\ disp.todo = {} \/ disp.submitted >= MaxSubmissions
  /\ disp' = Asleep
  /\ UNCHANGED <<durable, queue, worker, idleReady, clients, faults, completed>>

\* A database error anywhere in the tick abandons it until the next wake
TickFails ==
  /\ disp.pc # "sleep"
  /\ faults < MaxFaults /\ faults + requests < MaxEvents
  /\ faults' = faults + 1
  /\ disp' = Asleep
  /\ UNCHANGED <<durable, queue, worker, idleReady, clients, completed>>

-----------------------------------------------------------------------------
(* The handlers that submit work and change the library *)

\* The walk inserts a book and its first file in one transaction
ScanInsert(b) ==
  /\ scan.at = 0
  /\ books[b] = "absent"
  /\ books' = [books EXCEPT ![b] = "active"]
  /\ scan' = [scan EXCEPT !.new = Append(@, b)]
  /\ UNCHANGED <<progress, queue, worker, idleReady, disp, retry, faults,
                 requests, completed>>

ScanWalked ==
  /\ scan.at = 0
  /\ scan.new # <<>>
  /\ scan' = [scan EXCEPT !.at = 1]
  /\ UNCHANGED <<durable, queue, worker, idleReady, disp, retry, faults,
                 requests, completed>>

\* One submit of the plan; it waits while the tier's channel is full
ScanSubmit ==
  LET step == ScanPlan[scan.at]
  IN  /\ scan.at > 0
      /\ HasRoom(step.tier)
      /\ Send(step.tier, [book |-> Head(scan.new), stage |-> step.stage])
      /\ scan' = IF scan.at < Len(ScanPlan) THEN [scan EXCEPT !.at = @ + 1]
                 ELSE IF Len(scan.new) > 1
                 THEN [new |-> Tail(scan.new), at |-> 1]
                 ELSE NoScan
      /\ UNCHANGED <<durable, worker, idleReady, disp, retry, faults,
                     requests, completed>>

\* A client request; the others leave the pipeline's processes alone
Request ==
  /\ requests < MaxRequests /\ faults + requests < MaxEvents
  /\ requests' = requests + 1
  /\ UNCHANGED <<progress, queue, worker, idleReady, disp, scan, faults,
                 completed>>

RetryBegins(b, stages) ==
  /\ retry.stages = <<>>
  /\ books[b] \in {"active", "trashed"}
  /\ Request
  /\ retry' = [book |-> b, stages |-> stages, cleared |-> FALSE]
  /\ UNCHANGED books

\* default_reset deletes the progress row; when a statement fails the stage is
\* given up without a submit
RetryResets ==
  LET s == Head(retry.stages)
  IN  /\ retry.stages # <<>>
      /\ ~retry.cleared
      /\ \/ /\ progress' = [progress EXCEPT ![retry.book][s] = "none"]
            /\ retry' = [retry EXCEPT !.cleared = TRUE]
            /\ UNCHANGED faults
         \/ /\ faults < MaxFaults /\ faults + requests < MaxEvents
            /\ faults' = faults + 1
            /\ retry' = [retry EXCEPT !.stages = Tail(@)]
            /\ UNCHANGED progress
      /\ UNCHANGED <<books, queue, worker, idleReady, disp, scan, requests,
                     completed>>

RetrySubmits ==
  /\ retry.stages # <<>>
  /\ retry.cleared
  /\ HasRoom("background")
  /\ Send("background", [book |-> retry.book, stage |-> Head(retry.stages)])
  /\ retry' = [retry EXCEPT !.stages = Tail(@), !.cleared = FALSE]
  /\ UNCHANGED <<durable, worker, idleReady, disp, scan, faults, requests,
                 completed>>

\* Soft delete, restore, and DELETE with force, which cascades to the files
SetBook(b, from, to) ==
  /\ books[b] \in from
  /\ Request
  /\ books' = [books EXCEPT ![b] = to]
  /\ UNCHANGED retry

Trash(b) == SetBook(b, {"active"}, "trashed")
Restore(b) == SetBook(b, {"trashed"}, "active")
ForceDelete(b) == SetBook(b, {"active", "trashed"}, "gone")

\* The daemon goes down and comes back: nothing at start-up touches
\* pipeline_progress
Restart ==
  /\ faults < MaxFaults /\ faults + requests < MaxEvents
  /\ faults' = faults + 1
  /\ queue' = [t \in Tiers |-> <<>>]
  /\ worker' = Polling
  /\ idleReady' = FALSE
  /\ disp' = Asleep
  /\ scan' = NoScan
  /\ retry' = NoRetry
  /\ UNCHANGED <<durable, requests, completed>>

-----------------------------------------------------------------------------

WorkerStep ==
  \/ \E t \in Tiers : Take(t)
  \/ Start
  \/ \E o \in Outcome : Finish(o)
  \/ DispatchDependent

Tick ==
  \/ TickReadsBooks
  \/ TickReadsProgress
  \/ \E b \in Books : Reap(b)
  \/ SweepBegins
  \/ \E b \in Books : SweepReads(b)
  \/ SweepSubmits
  \/ SweepEnds

Handler == ScanWalked \/ ScanSubmit \/ RetryResets \/ RetrySubmits

Client ==
  \E b \in Books :
    \/ ScanInsert(b)
    \/ \E stages \in RetryRequests : RetryBegins(b, stages)
    \/ Trash(b)
    \/ Restore(b)
    \/ ForceDelete(b)

Next ==
  \/ WorkerStep
  \/ QuietElapses
  \/ Tick
  \/ TickFails
  \/ Handler
  \/ Client
  \/ Restart

\* The worker and the dispatcher are tasks that never stop, timers fire, and a
\* handler that is not blocked runs on.  A stage that is called again and again
\* does not answer Continue for ever.  Clients and faults are under no
\* obligation.
Settles(b, s) ==
  /\ worker.job = [book |-> b, stage |-> s]
  /\ Finish("done") \/ Finish("skipped") \/ Finish("error")

Fairness ==
  /\ WF_vars(WorkerStep)
  /\ WF_vars(QuietElapses)
  /\ WF_vars(Tick)
  /\ WF_vars(ScanWalked)
  /\ SF_vars(ScanSubmit)
  /\ WF_vars(RetryResets)
  /\ SF_vars(RetrySubmits)
  /\ \A b \in Books, s \in Stages : SF_vars(Settles(b, s))

Spec == Init /\ [][Next]_vars
FairSpec == Spec /\ Fairness

-----------------------------------------------------------------------------
(* What the pipeline promises *)

\* Every variable stays in its type, and no channel outgrows its buffer.
WorkerType ==
  [pc : {"poll", "start", "run", "dispatch"}, job : Job, todo : SUBSET Stages]
DispType ==
  [pc : {"sleep", "orphans", "reap", "sweep", "pick"},
   active : SUBSET Books, todo : SUBSET Books, book : Books,
   rows : [Stages -> Status], submitted : Nat]
ScanType == [new : Seq(Books), at : 0 .. Len(ScanPlan)]
RetryType == [book : Books, stages : Seq(Stages), cleared : BOOLEAN]

TypeOK ==
  /\ books \in [Books -> BookState]
  /\ progress \in [Books -> [Stages -> Status]]
  /\ queue \in [Tiers -> Seq(Job)]
  /\ \A t \in Tiers : Len(queue[t]) <= Capacity[t]
  /\ worker \in WorkerType
  /\ worker.pc = "dispatch" => worker.todo # {}
  /\ idleReady \in BOOLEAN
  /\ disp \in DispType
  /\ scan \in ScanType
  /\ scan.at > 0 => scan.new # <<>>
  /\ retry \in RetryType
  /\ faults \in 0 .. MaxFaults
  /\ requests \in 0 .. MaxRequests
  /\ completed \subseteq Books \X Stages

Owned(b, s) ==
  worker.pc = "run" /\ worker.job = [book |-> b, stage |-> s]
Stale(b, s) == progress[b][s] = "running" /\ ~Owned(b, s)

\* A 'running' row belongs to the one stage the worker is executing, however
\* scans, retries, ticks and the worker interleave: only a restart or a lost
\* progress write can leave a 'running' row that nobody owns.
RunningIsOwned ==
  (\E b \in Books, s \in Stages : Stale(b, s)) => faults > 0

\* A row that satisfies a dependency, in the table or in the snapshot a sweep
\* works from, is the row of a stage that did run to the end for that book.
SnapshotRow(b, s) ==
  IF disp.pc = "pick" /\ disp.book = b THEN disp.rows[s] ELSE "none"
SatisfiedIsEarned ==
  \A b \in Books, s \in Stages :
    {progress[b][s], SnapshotRow(b, s)} \cap Satisfied # {}
      => <<b, s>> \in completed

\* The job the daemon itself (not a client) has just put on the background
\* queue
Submitted(b, s) ==
  /\ queue'["background"] = Append(queue["background"],
                                   [book |-> b, stage |-> s])
  /\ UNCHANGED <<scan, retry>>

\* The daemon never queues a stage of its own accord before every stage it
\* requires has run to the end for that book, whatever a stale snapshot, a
\* reset or a re-run does to the rows in between.
AutoDispatchAfterRequirements ==
  [][\A b \in Books, s \in Stages :
       Submitted(b, s) => \A d \in Requires[s] : <<b, d>> \in completed]_vars

\* A book that stays in the library is worked off: once no 'running' row of it
\* is stale, every stage ends up succeeded or skipped and stays so, although
\* submissions are dropped, queues are lost, and rows are reset or reaped.
BooksSettle ==
  \A b \in Books :
    <>[](books[b] = "active" /\ \A s \in Stages : ~Stale(b, s))
      => <>[](\A s \in Stages : progress[b][s] \in Satisfied)

\* The progress rows of a deleted book do not stay behind, although jobs for
\* it may still be queued, running and writing when it is deleted.
OrphansReaped ==
  \A b \in Books : books[b] = "gone" ~> [](~HasRows(b))

\* A scan or retry request waiting for room in a channel gets it: the worker
\* that drains the channels is never itself waiting for room.
HandlersFinish ==
  /\ scan.at > 0 ~> scan = NoScan
  /\ retry.stages # <<>> ~> retry.stages = <<>>

-----------------------------------------------------------------------------
(* What the documentation says and the code does not do *)

\* bins/aborg-daemon/src/main.rs:489 - the dispatcher "reaps orphaned
\* `running` rows".
RunningRowsReaped ==
  \A b \in Books, s \in Stages :
    progress[b][s] = "running" ~> progress[b][s] # "running"

\* dispatcher.rs:202 - per book the first eligible stage is submitted, and the
\* "next tick picks up the next one": a stage that cannot fail, and depends on
\* none that can, is reached.
NeverFails(s) ==
  \A d \in {s} \cup Requires[s] : "error" \notin Outcomes[d]
RunnableStagesReached ==
  \A b \in Books :
    <>[](books[b] = "active") =>
      \A s \in Stages : NeverFails(s) => <>(<<b, s>> \in completed)
=============================================================================
