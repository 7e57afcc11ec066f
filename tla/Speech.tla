------------------------------- MODULE Speech -------------------------------
(***************************************************************************)
(* Speech models (crates/transcript): the transcribe-head-tail stage, the  *)
(* stages that read its transcript (transcribe-samples, transcribe-full),  *)
(* and the idle installer that fetches missing models and wakes the books  *)
(* that wait for them.                                                     *)
(*                                                                         *)
(* The worker and the sweep are those of Pipeline, cut down: the channels  *)
(* are one pool, a progress write never fails and the outcome's write and  *)
(* the dispatch of dependents are one step.  The Speech framework is       *)
(* external: a model that is installed stays, and a download ends.         *)
(***************************************************************************)
EXTENDS Common

CONSTANTS
  Locales,
  LocalesOf,   \* the locales a book's tag text may suggest
  HeadTail,    \* transcribe-head-tail
  Followers,   \* stages that require it and read its transcript
  Ready,       \* locales whose model is there from the start
  MaxFailures, \* bound: installs and transcriptions that fail
  MaxFaults    \* bound: crashes and failed statements

Stages == {HeadTail} \cup Followers
Satisfied == {"succeeded", "skipped"}
Status == Satisfied \cup {"none", "running", "failed"}
Install == {"none", "pending", "installing", "installed", "failed"}

ASSUME SpeechAssumption ==
  /\ HeadTail \notin Followers
  /\ LocalesOf \in [Books -> SUBSET Locales]
  /\ Ready \subseteq Locales
  /\ MaxFailures \in Nat /\ MaxFaults \in Nat

VARIABLES
  rows,        \* pipeline_progress
  transcripts, \* ai_cache, at the configured extractor_version
  installs,    \* pending_speech_installs, "none" for no row
  older,       \* which of two rows has the earlier queued_at
  blocks,      \* book_locale_blocks
  models,      \* locales whose model the framework has
  queued,      \* jobs that wait for the worker
  worker,      \* its job and where it is in it
  installer,   \* the tick of the idle loop
  failures,    \* so far
  faults       \* so far

vars == <<rows, transcripts, installs, older, blocks, models, queued, worker,
          installer, failures, faults>>
pipeline == <<rows, transcripts, queued, worker>>
waiting == <<installs, older, blocks>>

Jobs == Books \X Stages
Polling == [pc |-> "poll"]
Doing(pc, b, s) == [pc |-> pc, book |-> b, stage |-> s]
Asking(pc, b, l) == [pc |-> pc, book |-> b, locale |-> l]
Asleep == [pc |-> "asleep"]
Claiming == [pc |-> "claim"]
Tick(pc, l) == [pc |-> pc, locale |-> l]
Waking(pc, l, books) == [pc |-> pc, locale |-> l, books |-> books]

Init ==
  /\ rows = [b \in Books |-> [s \in Stages |-> "none"]]
  /\ transcripts = {} /\ blocks = {} /\ queued = {}
  /\ installs = [l \in Locales |-> "none"] /\ older = {}
  /\ models = Ready
  /\ worker = Polling /\ installer = Asleep
  /\ failures = 0 /\ faults = 0

Failure == failures < MaxFailures /\ failures' = failures + 1
Fault == faults < MaxFaults /\ faults' = faults + 1

(***************************************************************************)
(* The pipeline.                                                           *)
(***************************************************************************)
Unclaimed(b, s) == rows[b][s] \notin Satisfied \cup {"running"}
Unstarted(b) == {f \in Followers : Unclaimed(b, f)}

\* The dispatcher's sweep: the first eligible stage of a book.
Sweep(b) ==
  /\ \/ /\ Unclaimed(b, HeadTail)
        /\ queued' = queued \cup {<<b, HeadTail>>}
     \/ /\ rows[b][HeadTail] \in Satisfied
        /\ \E f \in Unstarted(b) : queued' = queued \cup {<<b, f>>}
  /\ UNCHANGED <<rows, transcripts, worker, waiting, models, installer,
                 failures, faults>>

Take(b, s) ==
  /\ worker.pc = "poll" /\ <<b, s>> \in queued
  /\ queued' = queued \ {<<b, s>>}
  /\ rows' = [rows EXCEPT ![b][s] = "running"]
  /\ worker' = Doing("run", b, s)
  /\ UNCHANGED <<transcripts, waiting, models, installer, failures, faults>>

\* The stage returns: its outcome is written, and a satisfied HeadTail sends its
\* dependents on their way.
Return(b, s, status) ==
  /\ rows' = [rows EXCEPT ![b][s] = status]
  /\ queued' = IF s = HeadTail /\ status \in Satisfied
               THEN queued \cup {<<b, f>> : f \in Unstarted(b)}
               ELSE queued
  /\ worker' = Polling

Running(b, s) == worker = Doing("run", b, s)

\* plan_book, plan_samples: the transcript is there already, or (for a
\* follower) the head's is not.
NothingToDo(b, s) ==
  /\ Running(b, s)
  /\ <<b, s>> \in transcripts \/ (s # HeadTail /\ <<b, HeadTail>> \notin transcripts)
  /\ Return(b, s, "skipped")
  /\ UNCHANGED <<transcripts, waiting, models, installer, failures, faults>>

HasWork(b, s) ==
  /\ Running(b, s) /\ <<b, s>> \notin transcripts
  /\ s # HeadTail => <<b, HeadTail>> \in transcripts

\* A follower uses the locale of the head's transcript, whose model is there.
Transcribes(b, s) ==
  /\ HasWork(b, s)
  /\ s = HeadTail => LocalesOf[b] \cap models # {}
  /\ transcripts' = transcripts \cup {<<b, s>>}
  /\ Return(b, s, "succeeded")
  /\ UNCHANGED <<waiting, models, installer, failures, faults>>

TranscribeFails(b, s) ==
  /\ HasWork(b, s) /\ Failure
  /\ Return(b, s, "failed")
  /\ UNCHANGED <<transcripts, waiting, models, installer, faults>>

ModelMissing(b, l) ==
  /\ HasWork(b, HeadTail) /\ l \in LocalesOf[b] \ models
  /\ worker' = Asking("row", b, l)
  /\ UNCHANGED <<rows, transcripts, queued, waiting, models, installer,
                 failures, faults>>

\* queue_locale_install: two statements.
HasRow == {l \in Locales : installs[l] # "none"}

\* Mutant: a failed row gets a second queued_at
IsNewOrFailed(l) == installs[l] \in {"none", "failed"}
IsNew(l) == installs[l] = "none"

QueueRow(b, l) ==
  /\ worker = Asking("row", b, l)
  /\ installs' = [installs EXCEPT
                    ![l] = IF @ \in {"none", "failed"} THEN "pending" ELSE @]
  /\ older' = IF IsNew(l) THEN older \cup {<<x, l>> : x \in HasRow} ELSE older
  /\ worker' = Asking("block", b, l)
  /\ UNCHANGED <<rows, transcripts, queued, blocks, models, installer,
                 failures, faults>>

QueueBlock(b, l) ==
  /\ worker = Asking("block", b, l)
  /\ blocks' = blocks \cup {<<b, l>>}
  /\ Return(b, HeadTail, "skipped")
  /\ UNCHANGED <<transcripts, installs, older, models, installer, failures,
                 faults>>

QueueFails(b, l) ==
  /\ worker \in {Asking("row", b, l), Asking("block", b, l)} /\ Fault
  /\ Return(b, HeadTail, "failed")
  /\ UNCHANGED <<transcripts, waiting, models, installer, failures>>

(***************************************************************************)
(* The idle installer: process_one_tick, a step per statement.             *)
(***************************************************************************)
\* Rows of earlier ticks that are done with; the statement's result is ignored.
\* Mutant: WHERE status <> 'pending'
CollectableAll(l) == installs[l] # "pending"
Collectable(l) == installs[l] = "installed"

Collect ==
  /\ installer = Asleep
  /\ installer' = Claiming
  /\ \/ /\ installs' = [l \in Locales |->
                          IF Collectable(l) THEN "none" ELSE installs[l]]
        /\ older' = {x \in older : ~Collectable(x[1]) /\ ~Collectable(x[2])}
        /\ UNCHANGED faults
     \/ Fault /\ UNCHANGED <<installs, older>>
  /\ UNCHANGED <<pipeline, blocks, models, failures>>

\* claim_next_pending: the oldest pending row, which keeps its age.
Pending == {l \in Locales : installs[l] = "pending"}
Oldest(l) == l \in Pending /\ \A x \in Pending : <<x, l>> \notin older

Claim ==
  /\ installer = Claiming
  /\ \/ /\ Pending = {}
        /\ installer' = Asleep
        /\ UNCHANGED installs
     \/ \E l \in Locales :
          /\ Oldest(l)
          /\ installs' = [installs EXCEPT ![l] = "installing"]
          /\ installer' = Tick("install", l)
  /\ UNCHANGED <<pipeline, older, blocks, models, failures, faults>>

InstallDone(l) ==
  /\ installer = Tick("install", l)
  /\ models' = models \cup {l}
  /\ installer' = Tick("installed", l)
  /\ UNCHANGED <<pipeline, waiting, failures, faults>>

\* Terminal: FrameworkUnavailable, LocaleUnsupported.  Transient: the rest.
InstallFails(l) ==
  /\ installer = Tick("install", l) /\ Failure
  /\ installer' \in {Tick("terminal", l), Tick("transient", l)}
  /\ UNCHANGED <<pipeline, waiting, models, faults>>

\* mark_failed, mark_attempted
\* Mutant: mark_attempted notes the attempt and leaves the status
VerdictKept(pc) == IF pc = "terminal" THEN "failed" ELSE "installing"
Verdict(pc) == IF pc = "terminal" THEN "failed" ELSE "pending"

MarkFailed(l) ==
  /\ installer \in {Tick("terminal", l), Tick("transient", l)}
  /\ installs' = [installs EXCEPT ![l] = Verdict(installer.pc)]
  /\ installer' = Asleep
  /\ UNCHANGED <<pipeline, older, blocks, models, failures, faults>>

MarkInstalled(l) ==
  /\ installer = Tick("installed", l)
  /\ installs' = [installs EXCEPT ![l] = "installed"]
  /\ installer' = Tick("select", l)
  /\ UNCHANGED <<pipeline, older, blocks, models, failures, faults>>

\* take_blocked_books: SELECT, then DELETE, without a transaction.
\* Mutant: a row of the result is lost
BlockedByOne(l) == {b \in Books : /\ <<b, l>> \in blocks
                                  /\ \A x \in Books \ {b} : <<x, l>> \notin blocks}
BlockedBy(l) == {b \in Books : <<b, l>> \in blocks}

SelectBlocks(l) ==
  /\ installer = Tick("select", l)
  /\ installer' = Waking("delete", l, BlockedBy(l))
  /\ UNCHANGED <<pipeline, waiting, models, failures, faults>>

DeleteBlocks(l) ==
  /\ installer.pc = "delete" /\ installer.locale = l
  /\ blocks' = {x \in blocks : x[2] # l}
  /\ installer' = [installer EXCEPT !.pc = "submit"]
  /\ UNCHANGED <<pipeline, installs, older, models, failures, faults>>

Submit(b) ==
  /\ installer.pc = "submit" /\ b \in installer.books
  /\ queued' = queued \cup {<<b, HeadTail>>}
  /\ installer' = [installer EXCEPT !.books = @ \ {b}]
  /\ UNCHANGED <<rows, transcripts, worker, waiting, models, failures, faults>>

TickEnds ==
  /\ installer.pc = "submit" /\ installer.books = {}
  /\ installer' = Asleep
  /\ UNCHANGED <<pipeline, waiting, models, failures, faults>>

\* Another statement of the tick fails, and the tick with it.
TickFails ==
  /\ installer.pc \in {"claim", "terminal", "transient", "installed", "select",
                       "delete"}
  /\ Fault
  /\ installer' = Asleep
  /\ UNCHANGED <<pipeline, waiting, models, failures>>

(***************************************************************************)
(* The operator, and crashes.                                              *)
(***************************************************************************)
\* library_retry_failed_speech_installs
RetryFailed ==
  /\ \E l \in Locales : installs[l] = "failed"
  /\ installs' = [l \in Locales |->
                    IF installs[l] = "failed" THEN "pending" ELSE installs[l]]
  /\ UNCHANGED <<pipeline, older, blocks, models, installer, failures, faults>>

\* doctor_speech_install asks the framework and touches no table.
DoctorInstall(l) ==
  /\ l \notin models
  /\ models' = models \cup {l}
  /\ UNCHANGED <<pipeline, waiting, installer, failures, faults>>

Crash ==
  /\ Fault
  /\ queued' = {} /\ worker' = Polling /\ installer' = Asleep
  /\ UNCHANGED <<rows, transcripts, waiting, models, failures>>

WorkerStep ==
  \/ \E b \in Books, s \in Stages : \/ Take(b, s)
                                    \/ NothingToDo(b, s)
                                    \/ Transcribes(b, s)
                                    \/ TranscribeFails(b, s)
  \/ \E b \in Books, l \in Locales : \/ ModelMissing(b, l)
                                     \/ QueueRow(b, l)
                                     \/ QueueBlock(b, l)
                                     \/ QueueFails(b, l)

InstallerStep ==
  \/ Collect \/ Claim \/ TickEnds \/ TickFails
  \/ \E l \in Locales : \/ InstallDone(l) \/ InstallFails(l)
                        \/ MarkFailed(l) \/ MarkInstalled(l)
                        \/ SelectBlocks(l) \/ DeleteBlocks(l)
  \/ \E b \in Books : Submit(b)

Operator == RetryFailed \/ \E l \in Locales : DoctorInstall(l)

Next == \/ WorkerStep \/ InstallerStep \/ Operator \/ Crash
        \/ \E b \in Books : Sweep(b)

Spec == Init /\ [][Next]_vars

\* The two loops and the sweep go on; the operator does what he likes.
FairSpec == /\ Spec
            /\ WF_vars(WorkerStep) /\ WF_vars(InstallerStep)
            /\ \A b \in Books : WF_vars(Sweep(b))

(***************************************************************************)
(* Properties.                                                             *)
(***************************************************************************)
WorkerStates ==
  {Polling}
    \cup {Doing("run", b, s) : b \in Books, s \in Stages}
    \cup {Asking(pc, b, l) : pc \in {"row", "block"}, b \in Books, l \in Locales}
InstallerStates ==
  {Asleep, Claiming}
    \cup {Tick(pc, l) : pc \in {"install", "installed", "terminal", "transient",
                                "select"}, l \in Locales}
    \cup {Waking(pc, l, books) : pc \in {"delete", "submit"}, l \in Locales,
                                 books \in SUBSET Books}

\* The types; and the rows of pending_speech_installs are in one order.
TypeOK ==
  /\ rows \in [Books -> [Stages -> Status]]
  /\ transcripts \subseteq Jobs /\ queued \subseteq Jobs
  /\ installs \in [Locales -> Install]
  /\ older \subseteq HasRow \X HasRow
  /\ \A l, x \in HasRow : <<l, x>> \in older <=> l # x /\ <<x, l>> \notin older
  /\ blocks \subseteq Books \X Locales /\ models \subseteq Locales
  /\ worker \in WorkerStates /\ installer \in InstallerStates
  /\ failures \in 0 .. MaxFailures /\ faults \in 0 .. MaxFaults

\* Whatever crashes between the two statements of a block, or collects rows
\* meanwhile: a block whose model is missing always has an install row, so
\* nobody waits for an install nobody knows of.
BlockCovered ==
  \A b \in Books, l \in Locales :
    <<b, l>> \in blocks => installs[l] # "none" \/ l \in models

\* 002_speech_installs.sql:30: 'installing' means the loop is running the
\* install right now.  So it is, until a crash or a failed statement.
Installing == {"install", "installed", "terminal", "transient"}
InstallingIsOwned ==
  \A l \in Locales :
    installs[l] = "installing" /\ faults = 0 =>
      installer.pc \in Installing /\ installer.locale = l

\* Without crashes and failed statements: a book that waits for a pending
\* model is queued again, or the install has failed for good; transient
\* failures and other locales in line do not matter.
WaitingIsServed ==
  \A b \in Books, l \in Locales :
    (<<b, l>> \in blocks /\ installs[l] = "pending")
      ~> (<<b, HeadTail>> \in queued \/ installs[l] = "failed" \/ faults > 0)

\* samples_stage.rs:38: skipped for want of a model, "idle installer re-queues
\* this stage when the model lands".
FollowersFollow ==
  \A b \in Books, s \in Followers :
    <<b, HeadTail>> \in transcripts ~> <<b, s>> \in transcripts
=============================================================================
