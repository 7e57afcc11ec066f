---------------------------- MODULE SpeechProofs ----------------------------
(* Proofs about Speech, for any books, locales, stages and bounds,            *)
(* about Sounds, for any jingles, and about Excerpts, whose names a           *)
(* transcription is told to listen for, for any text.                        *)
EXTENDS Speech, Sounds, Excerpts, SequenceTheorems, CommonProofs, TLAPS

(***************************************************************************)
(* The inductive invariant.  Each part says what one process may rely on   *)
(* between two of its statements.                                          *)
(***************************************************************************)
\* The row the installer works on is still as it claimed it.
Claimed ==
  installer.pc \in Installing => installs[installer.locale] = "installing"

\* Only what the framework has is called installed.
ModelIsThere ==
  /\ \A l \in Locales : installs[l] = "installed" => l \in models
  /\ installer.pc = "installed" => installer.locale \in models

\* Between its two statements the stage may count on the first.
AskedFor ==
  worker.pc = "block" =>
    installs[worker.locale] # "none" \/ worker.locale \in models

Sound == BlockCovered /\ InstallingIsOwned /\ Claimed /\ ModelIsThere /\ AskedFor
SpeechInv == TypeOK /\ Sound

PipelineType ==
  /\ rows \in [Books -> [Stages -> Status]]
  /\ transcripts \subseteq Jobs /\ queued \subseteq Jobs
  /\ worker \in WorkerStates
Orders(R, S) ==
  /\ R \subseteq S \X S
  /\ \A l, x \in S : <<l, x>> \in R <=> l # x /\ <<x, l>> \notin R
Order == Orders(older, HasRow)
InstallerType ==
  /\ blocks \subseteq Books \X Locales /\ models \subseteq Locales
  /\ installer \in InstallerStates
Counters == failures \in 0 .. MaxFailures /\ faults \in 0 .. MaxFaults

LEMMA TypeParts ==
  TypeOK <=> /\ PipelineType /\ InstallerType /\ Counters /\ Order
             /\ installs \in [Locales -> Install]
BY DEF TypeOK, PipelineType, InstallerType, Counters, Order, Orders

\* A new row comes last.
LEMMA OrderGrows ==
  ASSUME NEW S, NEW R, Orders(R, S), NEW l, l \notin S
  PROVE  Orders(R \cup {<<x, l>> : x \in S}, S \cup {l})
<1> DEFINE Q == R \cup {<<x, l>> : x \in S}
           T == S \cup {l}
<1>1. Q \subseteq T \X T
  BY DEF Orders
<1>2. ASSUME NEW y \in T, NEW z \in T
      PROVE  <<y, z>> \in Q <=> y # z /\ <<z, y>> \notin Q
  <2>1. CASE y \in S /\ z \in S
    <3>1. <<y, z>> \in Q <=> <<y, z>> \in R
      BY <2>1
    <3>2. <<z, y>> \in Q <=> <<z, y>> \in R
      BY <2>1
    <3> QED BY <3>1, <3>2, <2>1 DEF Orders
  <2>2. CASE y \in S /\ z = l
    <3>1. <<y, z>> \in Q
      BY <2>2
    <3>2. <<z, y>> \notin Q
      BY <2>2 DEF Orders
    <3> QED BY <3>1, <3>2, <2>2
  <2>3. CASE y = l /\ z \in S
    <3>1. <<z, y>> \in Q
      BY <2>3
    <3>2. <<y, z>> \notin Q
      BY <2>3 DEF Orders
    <3> QED BY <3>1, <3>2, <2>3
  <2>4. CASE y = l /\ z = l
    <3>1. <<y, z>> \notin Q
      BY <2>4 DEF Orders
    <3> QED BY <3>1, <2>4
  <2> QED BY <2>1, <2>2, <2>3, <2>4
<1> QED BY <1>1, <1>2 DEF Orders

\* Rows that go leave the order of the others alone.
LEMMA OrderShrinks ==
  ASSUME NEW S, NEW R, Orders(R, S), NEW T, T \subseteq S
  PROVE  Orders({y \in R : y[1] \in T /\ y[2] \in T}, T)
BY DEF Orders

LEMMA Bounds == MaxFailures \in Nat /\ MaxFaults \in Nat
BY SpeechAssumption DEF SpeechAssumption

LEMMA HeadTailFirst == HeadTail \in Stages /\ Followers \subseteq Stages
BY DEF Stages

LEMMA Guards ==
  ASSUME Counters
  PROVE  /\ Failure => failures' \in 0 .. MaxFailures
         /\ Fault => faults' \in 0 .. MaxFaults /\ faults' # 0
BY Bounds DEF Counters, Failure, Fault

(***************************************************************************)
(* Types of the two processes' states.                                     *)
(***************************************************************************)
LEMMA WorkerKinds ==
  ASSUME NEW b \in Books, NEW l \in Locales, NEW s \in Stages
  PROVE  /\ Polling \in WorkerStates /\ Doing("run", b, s) \in WorkerStates
         /\ Asking("row", b, l) \in WorkerStates
         /\ Asking("block", b, l) \in WorkerStates
BY DEF WorkerStates

LEMMA PollingWorker == Polling \in WorkerStates
BY DEF WorkerStates

LEMMA InstallerKinds ==
  ASSUME NEW l \in Locales, NEW bs \in SUBSET Books
  PROVE  /\ Tick("install", l) \in InstallerStates
         /\ Tick("installed", l) \in InstallerStates
         /\ Tick("terminal", l) \in InstallerStates
         /\ Tick("transient", l) \in InstallerStates
         /\ Tick("select", l) \in InstallerStates
         /\ Waking("delete", l, bs) \in InstallerStates
         /\ Waking("submit", l, bs) \in InstallerStates
BY DEF InstallerStates

LEMMA RestingInstaller == Asleep \in InstallerStates /\ Claiming \in InstallerStates
BY DEF InstallerStates

LEMMA ReturnType ==
  ASSUME PipelineType, NEW b \in Books, NEW s \in Stages, NEW status \in Status,
         Return(b, s, status)
  PROVE  /\ rows' \in [Books -> [Stages -> Status]] /\ queued' \subseteq Jobs
         /\ worker' \in WorkerStates /\ worker'.pc = "poll"
<1>1. rows' \in [Books -> [Stages -> Status]]
  BY DEF Return, PipelineType
<1>2. queued' \subseteq Jobs
  BY HeadTailFirst DEF Return, PipelineType, Jobs, Unstarted
<1> QED
  BY <1>1, <1>2, PollingWorker DEF Return, Polling

(***************************************************************************)
(* Type correctness, one lemma for each process.                           *)
(***************************************************************************)
LEMMA WorkerTypes ==
  ASSUME TypeOK, WorkerStep
  PROVE  TypeOK'
<1> USE DEF pipeline, waiting
<1>0. PipelineType /\ InstallerType /\ Counters /\ Order
        /\ installs \in [Locales -> Install]
  BY TypeParts
<1> SUFFICES PipelineType' /\ InstallerType' /\ Counters' /\ Order'
               /\ installs' \in [Locales -> Install]
  BY DEF TypeOK, PipelineType, InstallerType, Counters, Order, Orders
<1>1. ASSUME NEW b \in Books, NEW s \in Stages, Take(b, s)
      PROVE  PipelineType' /\ UNCHANGED <<waiting, models, installer, failures, faults>>
  <2>1. rows' \in [Books -> [Stages -> Status]]
    BY <1>0, <1>1 DEF Take, PipelineType, Status
  <2>2. transcripts' \subseteq Jobs /\ queued' \subseteq Jobs
    BY <1>0, <1>1 DEF Take, PipelineType
  <2>3. worker' \in WorkerStates
    BY <1>1 DEF Take, WorkerStates
  <2> QED BY <2>1, <2>2, <2>3, <1>1 DEF Take, PipelineType
<1>2. ASSUME NEW b \in Books, NEW s \in Stages, NothingToDo(b, s)
      PROVE  PipelineType' /\ UNCHANGED <<waiting, models, installer, failures, faults>>
  <2>1. "skipped" \in Status
    BY DEF Status, Satisfied
  <2>2. Return(b, s, "skipped") /\ UNCHANGED <<transcripts, waiting, models, installer, failures, faults>>
    BY <1>2 DEF NothingToDo
  <2> QED BY <1>0, <2>1, <2>2, ReturnType DEF PipelineType
<1>3. ASSUME NEW b \in Books, NEW s \in Stages, Transcribes(b, s)
      PROVE  PipelineType' /\ UNCHANGED <<waiting, models, installer, failures, faults>>
  <2>1. "succeeded" \in Status
    BY DEF Status, Satisfied
  <2>2. Return(b, s, "succeeded") /\ transcripts' = transcripts \cup {<<b, s>>}
        /\ UNCHANGED <<waiting, models, installer, failures, faults>>
    BY <1>3 DEF Transcribes
  <2>3. transcripts' \subseteq Jobs
    BY <1>0, <2>2 DEF PipelineType, Jobs
  <2> QED BY <1>0, <2>1, <2>2, <2>3, ReturnType DEF PipelineType
<1>4. ASSUME NEW b \in Books, NEW s \in Stages, TranscribeFails(b, s)
      PROVE  PipelineType' /\ UNCHANGED <<waiting, models, installer, faults>>
             /\ failures' \in 0 .. MaxFailures
  <2>1. "failed" \in Status
    BY DEF Status
  <2>2. Return(b, s, "failed") /\ Failure
        /\ UNCHANGED <<transcripts, waiting, models, installer, faults>>
    BY <1>4 DEF TranscribeFails
  <2> QED BY <1>0, <2>1, <2>2, Guards, ReturnType DEF PipelineType
<1>5. ASSUME NEW b \in Books, NEW l \in Locales, ModelMissing(b, l)
      PROVE  PipelineType' /\ UNCHANGED <<waiting, models, installer, failures, faults>>
  <2>1. worker' \in WorkerStates
    BY <1>5 DEF ModelMissing, WorkerStates
  <2> QED BY <1>0, <1>5, <2>1 DEF ModelMissing, PipelineType
<1>6. ASSUME NEW b \in Books, NEW l \in Locales, QueueRow(b, l)
      PROVE  /\ PipelineType' /\ UNCHANGED <<blocks, models, installer, failures, faults>>
             /\ installs' \in [Locales -> Install] /\ Order'
  <2>1. worker' \in WorkerStates
    BY <1>6 DEF QueueRow, WorkerStates
  <2>2. installs' \in [Locales -> Install]
    BY <1>0, <1>6 DEF QueueRow, Install
  <2>3. ASSUME IsNew(l) PROVE Order'
    <3>1. l \notin HasRow /\ HasRow' = HasRow \cup {l}
      BY <1>0, <1>6, <2>3 DEF IsNew, QueueRow, HasRow
    <3>2. older' = older \cup {<<x, l>> : x \in HasRow}
      BY <1>6, <2>3 DEF QueueRow
    <3>3. Orders(older', HasRow')
      BY <1>0, <3>1, <3>2, OrderGrows DEF Order
    <3> QED BY <3>3 DEF Order
  <2>4. ASSUME ~IsNew(l) PROVE Order'
    <3>1. HasRow' = HasRow
      BY <1>0, <1>6, <2>4 DEF IsNew, QueueRow, HasRow
    <3>2. older' = older
      BY <1>6, <2>4 DEF QueueRow
    <3>3. Orders(older', HasRow')
      BY <1>0, <3>1, <3>2 DEF Order
    <3> QED BY <3>3 DEF Order
  <2> QED BY <1>0, <1>6, <2>1, <2>2, <2>3, <2>4 DEF QueueRow, PipelineType
<1>7. ASSUME NEW b \in Books, NEW l \in Locales, QueueBlock(b, l)
      PROVE  /\ PipelineType' /\ blocks' \subseteq Books \X Locales
             /\ UNCHANGED <<installs, older, models, installer, failures, faults>>
  <2>1. "skipped" \in Status
    BY DEF Status, Satisfied
  <2>2. Return(b, HeadTail, "skipped") /\ blocks' = blocks \cup {<<b, l>>}
        /\ UNCHANGED <<transcripts, installs, older, models, installer, failures, faults>>
    BY <1>7 DEF QueueBlock
  <2>3. blocks' \subseteq Books \X Locales
    BY <1>0, <2>2 DEF InstallerType
  <2> QED BY <1>0, <2>1, <2>2, <2>3, ReturnType, HeadTailFirst DEF PipelineType
<1>8. ASSUME NEW b \in Books, NEW l \in Locales, QueueFails(b, l)
      PROVE  PipelineType' /\ UNCHANGED <<waiting, models, installer, failures>>
             /\ faults' \in 0 .. MaxFaults
  <2>1. "failed" \in Status
    BY DEF Status
  <2>2. Return(b, HeadTail, "failed") /\ Fault
        /\ UNCHANGED <<transcripts, waiting, models, installer, failures>>
    BY <1>8 DEF QueueFails
  <2> QED BY <1>0, <2>1, <2>2, Guards, ReturnType, HeadTailFirst DEF PipelineType
<1> QED
  <2>1. ASSUME UNCHANGED <<installs, older>>
        PROVE  Order' /\ installs' \in [Locales -> Install]
    BY <2>1, <1>0 DEF Order, HasRow
  <2>2. CASE \E b \in Books, s \in Stages :
               Take(b, s) \/ NothingToDo(b, s) \/ Transcribes(b, s)
    BY <1>0, <1>1, <1>2, <1>3, <2>1, <2>2 DEF InstallerType, Counters
  <2>3. CASE \E b \in Books, s \in Stages : TranscribeFails(b, s)
    BY <1>0, <1>4, <2>1, <2>3 DEF InstallerType, Counters
  <2>4. CASE \E b \in Books, l \in Locales : ModelMissing(b, l)
    BY <1>0, <1>5, <2>1, <2>4 DEF InstallerType, Counters
  <2>5. CASE \E b \in Books, l \in Locales : QueueRow(b, l)
    BY <1>0, <1>6, <2>5 DEF InstallerType, Counters
  <2>6. CASE \E b \in Books, l \in Locales : QueueBlock(b, l)
    BY <1>0, <1>7, <2>1, <2>6 DEF InstallerType, Counters
  <2>7. CASE \E b \in Books, l \in Locales : QueueFails(b, l)
    BY <1>0, <1>8, <2>1, <2>7 DEF InstallerType, Counters
  <2> QED BY <2>2, <2>3, <2>4, <2>5, <2>6, <2>7 DEF WorkerStep

\* A row that changes its status, and is there before and after.
LEMMA RowKept ==
  ASSUME installs \in [Locales -> Install], Order, UNCHANGED older,
         NEW l \in Locales, installs[l] # "none", NEW st \in Install, st # "none",
         installs' = [installs EXCEPT ![l] = st]
  PROVE  installs' \in [Locales -> Install] /\ Order'
<1>1. installs' \in [Locales -> Install]
  OBVIOUS
<1>2. HasRow' = HasRow
  BY DEF HasRow
<1>3. Orders(older', HasRow')
  BY <1>2 DEF Order
<1> QED BY <1>1, <1>3 DEF Order

LEMMA RowsKept ==
  ASSUME installs \in [Locales -> Install], Order, UNCHANGED <<installs, older>>
  PROVE  installs' \in [Locales -> Install] /\ Order'
BY DEF Order, HasRow

LEMMA InstallerTypes ==
  ASSUME TypeOK, Claimed, InstallerStep
  PROVE  TypeOK'
<1> USE DEF waiting
<1>0. PipelineType /\ InstallerType /\ Counters /\ Order
        /\ installs \in [Locales -> Install]
  BY TypeParts
<1> SUFFICES PipelineType' /\ InstallerType' /\ Counters' /\ Order'
               /\ installs' \in [Locales -> Install]
  BY DEF TypeOK, PipelineType, InstallerType, Counters, Order, Orders
<1>p. ASSUME UNCHANGED pipeline PROVE PipelineType'
  BY <1>0, <1>p DEF pipeline, PipelineType
<1>1. CASE Collect
  <2>1. installer' \in InstallerStates /\ UNCHANGED <<pipeline, blocks, models, failures>>
    BY <1>1, RestingInstaller DEF Collect
  <2>2. CASE Fault /\ UNCHANGED <<installs, older>>
    BY <1>0, <1>p, <2>1, <2>2, RowsKept, Guards DEF InstallerType, Counters
  <2>3. CASE /\ installs' = [l \in Locales |->
                               IF Collectable(l) THEN "none" ELSE installs[l]]
             /\ older' = {x \in older : ~Collectable(x[1]) /\ ~Collectable(x[2])}
             /\ UNCHANGED faults
    <3>1. installs' \in [Locales -> Install]
      BY <1>0, <2>3 DEF Install
    <3> DEFINE T == {l \in HasRow : ~Collectable(l)}
    <3>2. HasRow' = T
      BY <1>0, <2>3 DEF HasRow, Collectable
    <3>3. older' = {x \in older : x[1] \in T /\ x[2] \in T}
      BY <1>0, <2>3 DEF Order, Orders
    <3>4. Orders({x \in older : x[1] \in T /\ x[2] \in T}, T)
      BY <1>0, OrderShrinks DEF Order
    <3>5. Order'
      BY <3>2, <3>3, <3>4 DEF Order
    <3> QED BY <1>0, <1>p, <2>1, <2>3, <3>1, <3>5 DEF InstallerType, Counters
  <2> QED BY <1>1, <2>2, <2>3 DEF Collect
<1>2. CASE Claim
  <2>1. UNCHANGED <<pipeline, older, blocks, models, failures, faults>>
    BY <1>2 DEF Claim
  <2>2. CASE installer' = Asleep /\ UNCHANGED installs
    BY <1>0, <1>p, <2>1, <2>2, RowsKept, RestingInstaller DEF InstallerType, Counters
  <2>3. ASSUME NEW l \in Locales, Oldest(l),
               installs' = [installs EXCEPT ![l] = "installing"],
               installer' = Tick("install", l)
        PROVE  installs' \in [Locales -> Install] /\ Order' /\ installer' \in InstallerStates
    <3>1. installs[l] # "none"
      BY <2>3 DEF Oldest, Pending
    <3>2. "installing" \in Install /\ "installing" # "none"
      BY DEF Install
    <3>3. installs' \in [Locales -> Install] /\ Order'
      BY <1>0, <2>1, <2>3, <3>1, <3>2, RowKept
    <3> QED BY <2>3, <3>3 DEF InstallerStates
  <2> QED BY <1>0, <1>2, <1>p, <2>1, <2>2, <2>3 DEF Claim, InstallerType, Counters
<1>3. CASE TickEnds
  BY <1>0, <1>3, <1>p, RowsKept, RestingInstaller DEF TickEnds, InstallerType, Counters
<1>4. CASE TickFails
  BY <1>0, <1>4, <1>p, RowsKept, RestingInstaller, Guards DEF TickFails, InstallerType, Counters
<1>5. ASSUME NEW l \in Locales, InstallDone(l) \/ InstallFails(l) \/ SelectBlocks(l)
      PROVE  /\ installer' \in InstallerStates /\ models' \subseteq Locales /\ Counters'
             /\ UNCHANGED pipeline /\ UNCHANGED waiting
  <2>1. CASE InstallDone(l)
    BY <1>0, <2>1, InstallerKinds DEF InstallDone, InstallerType, Counters
  <2>2. CASE InstallFails(l)
    BY <1>0, <2>2, InstallerKinds, Guards DEF InstallFails, InstallerType, Counters
  <2>3. CASE SelectBlocks(l)
    <3>1. BlockedBy(l) \in SUBSET Books
      BY DEF BlockedBy
    <3> QED BY <1>0, <2>3, <3>1, InstallerKinds DEF SelectBlocks, InstallerType, Counters
  <2> QED BY <1>5, <2>1, <2>2, <2>3
<1>6. ASSUME NEW l \in Locales, MarkFailed(l)
      PROVE  /\ installer' \in InstallerStates /\ installs' \in [Locales -> Install] /\ Order'
             /\ UNCHANGED <<pipeline, older, blocks, models, failures, faults>>
  <2>1. installer.pc \in Installing /\ installer.locale = l
    BY <1>6 DEF MarkFailed, Tick, Installing
  <2>2. installs[l] # "none"
    BY <2>1 DEF Claimed
  <2>3. Verdict(installer.pc) \in Install /\ Verdict(installer.pc) # "none"
    BY DEF Verdict, Install
  <2> QED BY <1>0, <1>6, <2>2, <2>3, RowKept, RestingInstaller DEF MarkFailed
<1>7. ASSUME NEW l \in Locales, MarkInstalled(l)
      PROVE  /\ installer' \in InstallerStates /\ installs' \in [Locales -> Install] /\ Order'
             /\ UNCHANGED <<pipeline, older, blocks, models, failures, faults>>
  <2>1. installer.pc \in Installing /\ installer.locale = l
    BY <1>7 DEF MarkInstalled, Tick, Installing
  <2>2. installs[l] # "none"
    BY <2>1 DEF Claimed
  <2>3. "installed" \in Install /\ "installed" # "none"
    BY DEF Install
  <2>4. installer' \in InstallerStates
    BY <1>7 DEF MarkInstalled, InstallerStates
  <2> QED BY <1>0, <1>7, <2>2, <2>3, <2>4, RowKept DEF MarkInstalled
<1>8. ASSUME NEW l \in Locales, DeleteBlocks(l)
      PROVE  /\ installer' \in InstallerStates /\ blocks' \subseteq Books \X Locales
             /\ UNCHANGED <<pipeline, installs, older, models, failures, faults>>
  <2>1. installer.pc = "delete" /\ installer' = [installer EXCEPT !.pc = "submit"]
    BY <1>8 DEF DeleteBlocks
  <2>2. PICK k \in Locales, bs \in SUBSET Books : installer = Waking("delete", k, bs)
    BY <1>0, <2>1 DEF InstallerType, InstallerStates, Asleep, Claiming, Tick, Waking
  <2>3. installer' = Waking("submit", k, bs)
    BY <2>1, <2>2 DEF Waking
  <2> QED BY <1>0, <1>8, <2>3, InstallerKinds DEF DeleteBlocks, InstallerType
<1>9. ASSUME NEW b \in Books, Submit(b)
      PROVE  /\ installer' \in InstallerStates /\ PipelineType'
             /\ UNCHANGED <<waiting, models, failures, faults>>
  <2>1. installer.pc = "submit" /\ installer' = [installer EXCEPT !.books = @ \ {b}]
    BY <1>9 DEF Submit
  <2>2. PICK k \in Locales, bs \in SUBSET Books : installer = Waking("submit", k, bs)
    BY <1>0, <2>1 DEF InstallerType, InstallerStates, Asleep, Claiming, Tick, Waking
  <2>3. installer' = Waking("submit", k, bs \ {b})
    BY <2>1, <2>2 DEF Waking
  <2>4. bs \ {b} \in SUBSET Books
    BY <2>2
  <2>5. installer' \in InstallerStates
    BY <2>3, <2>4, InstallerKinds
  <2>6. PipelineType'
    BY <1>0, <1>9, HeadTailFirst DEF Submit, PipelineType, Jobs
  <2> QED BY <1>9, <2>5, <2>6 DEF Submit
<1> QED
  <2>1. CASE \E l \in Locales : InstallDone(l) \/ InstallFails(l) \/ SelectBlocks(l)
    BY <1>0, <1>5, <1>p, <2>1, RowsKept DEF InstallerType
  <2>2. CASE \E l \in Locales : MarkFailed(l) \/ MarkInstalled(l)
    BY <1>0, <1>6, <1>7, <1>p, <2>2 DEF InstallerType, Counters
  <2>3. CASE \E l \in Locales : DeleteBlocks(l)
    BY <1>0, <1>8, <1>p, <2>3, RowsKept DEF InstallerType, Counters
  <2>4. CASE \E b \in Books : Submit(b)
    BY <1>0, <1>9, <2>4, RowsKept DEF InstallerType, Counters
  <2> QED BY <1>1, <1>2, <1>3, <1>4, <2>1, <2>2, <2>3, <2>4 DEF InstallerStep

LEMMA OtherTypes ==
  ASSUME TypeOK, Operator \/ Crash \/ \E b \in Books : Sweep(b)
  PROVE  TypeOK'
<1> USE DEF waiting, pipeline
<1>0. PipelineType /\ InstallerType /\ Counters /\ Order
        /\ installs \in [Locales -> Install]
  BY TypeParts
<1> SUFFICES PipelineType' /\ InstallerType' /\ Counters' /\ Order'
               /\ installs' \in [Locales -> Install]
  BY DEF TypeOK, PipelineType, InstallerType, Counters, Order, Orders
<1>1. CASE RetryFailed
  <2>1. installs' \in [Locales -> Install]
    BY <1>0, <1>1 DEF RetryFailed, Install
  <2>2. HasRow' = HasRow
    BY <1>0, <1>1 DEF RetryFailed, HasRow
  <2>3. Order'
    BY <1>0, <1>1, <2>2 DEF Order, RetryFailed
  <2> QED BY <1>0, <1>1, <2>1, <2>3 DEF RetryFailed, PipelineType, InstallerType, Counters
<1>2. CASE \E l \in Locales : DoctorInstall(l)
  BY <1>0, <1>2, RowsKept DEF DoctorInstall, PipelineType, InstallerType, Counters
<1>3. CASE Crash
  BY <1>0, <1>3, RowsKept, PollingWorker, RestingInstaller, Guards
  DEF Crash, PipelineType, InstallerType, Counters
<1>4. CASE \E b \in Books : Sweep(b)
  <2>1. PICK b \in Books : Sweep(b)
    BY <1>4
  <2>2. queued' \subseteq Jobs
    BY <1>0, <2>1, HeadTailFirst DEF Sweep, PipelineType, Jobs, Unstarted
  <2> QED BY <1>0, <2>1, <2>2, RowsKept DEF Sweep, PipelineType, InstallerType, Counters
<1> QED BY <1>1, <1>2, <1>3, <1>4 DEF Operator

(***************************************************************************)
(* The rest of the invariant.                                              *)
(***************************************************************************)
\* A step that loses no install row, and no model, keeps every promise that a
\* row or a model stands for.
Keeps ==
  /\ models \subseteq models'
  /\ \A l \in Locales : installs[l] # "none" => installs'[l] # "none" \/ l \in models'

LEMMA BlocksKept ==
  ASSUME BlockCovered, Keeps, blocks' \subseteq blocks
  PROVE  BlockCovered'
BY DEF BlockCovered, Keeps

LEMMA AskedKept ==
  ASSUME PipelineType, AskedFor, Keeps, UNCHANGED worker \/ worker'.pc # "block"
  PROVE  AskedFor'
<1> SUFFICES ASSUME worker'.pc = "block", UNCHANGED worker
             PROVE  AskedFor'
  BY DEF AskedFor
<1>1. worker.locale \in Locales
  BY DEF PipelineType, WorkerStates, Polling, Doing, Asking
<1> QED BY <1>1 DEF AskedFor, Keeps

LEMMA WorkerSound ==
  ASSUME SpeechInv, WorkerStep
  PROVE  Sound'
<1> USE DEF waiting
<1>0. PipelineType /\ InstallerType /\ Counters /\ Order
        /\ installs \in [Locales -> Install]
        /\ BlockCovered /\ InstallingIsOwned /\ Claimed /\ ModelIsThere /\ AskedFor
  BY TypeParts DEF SpeechInv, Sound
<1>1. ASSUME UNCHANGED <<installs, installer, models>>, faults' = 0 => faults = 0
      PROVE  InstallingIsOwned' /\ Claimed' /\ ModelIsThere' /\ Keeps
  <2>1. InstallingIsOwned'
    BY <1>0, <1>1 DEF InstallingIsOwned
  <2>2. Claimed' /\ ModelIsThere' /\ Keeps
    BY <1>0, <1>1 DEF Claimed, ModelIsThere, Keeps
  <2> QED BY <2>1, <2>2
<1>2. CASE \E b \in Books, s \in Stages :
             Take(b, s) \/ NothingToDo(b, s) \/ Transcribes(b, s) \/ TranscribeFails(b, s)
  <2>1. UNCHANGED <<installs, blocks, installer, models, faults>> /\ worker'.pc # "block"
    BY <1>2 DEF Take, NothingToDo, Transcribes, TranscribeFails, Return, Polling, Doing
  <2> QED BY <1>0, <1>1, <2>1, BlocksKept, AskedKept DEF Sound
<1>3. CASE \E b \in Books, l \in Locales : ModelMissing(b, l)
  <2>1. UNCHANGED <<installs, blocks, installer, models, faults>> /\ worker'.pc # "block"
    BY <1>3 DEF ModelMissing, Asking
  <2> QED BY <1>0, <1>1, <2>1, BlocksKept, AskedKept DEF Sound
<1>4. CASE \E b \in Books, l \in Locales : QueueFails(b, l)
  <2>1. UNCHANGED <<installs, blocks, installer, models>> /\ worker'.pc # "block"
    BY <1>4 DEF QueueFails, Return, Polling
  <2>2. faults' # 0
    BY <1>0, <1>4, Guards DEF QueueFails
  <2> QED BY <1>0, <1>1, <2>1, <2>2, BlocksKept, AskedKept DEF Sound
<1>5. ASSUME NEW b \in Books, NEW l \in Locales, QueueBlock(b, l)
      PROVE  Sound'
  <2>1. /\ UNCHANGED <<installs, installer, models, faults>> /\ worker'.pc # "block"
        /\ blocks' = blocks \cup {<<b, l>>}
    BY <1>5 DEF QueueBlock, Return, Polling
  <2>2. installs[l] # "none" \/ l \in models
    BY <1>0, <1>5 DEF QueueBlock, Asking, AskedFor
  <2>3. BlockCovered'
    BY <1>0, <2>1, <2>2 DEF BlockCovered
  <2> QED BY <1>0, <1>1, <2>1, <2>3, AskedKept DEF Sound
<1>6. ASSUME NEW b \in Books, NEW l \in Locales, QueueRow(b, l)
      PROVE  Sound'
  <2>1. /\ UNCHANGED <<blocks, installer, models, faults>> /\ worker' = Asking("block", b, l)
        /\ installs' = [installs EXCEPT
                          ![l] = IF @ \in {"none", "failed"} THEN "pending" ELSE @]
    BY <1>6 DEF QueueRow
  <2>2. ASSUME NEW k \in Locales
        PROVE  /\ installs[k] # "none" => installs'[k] # "none"
               /\ installs'[k] \in {"installing", "installed"} <=>
                    installs[k] \in {"installing", "installed"}
               /\ installs[k] \in {"installing", "installed"} => installs'[k] = installs[k]
    BY <1>0, <2>1
  <2>3. installs'[l] # "none"
    BY <1>0, <2>1
  <2>4. Keeps
    BY <2>1, <2>2 DEF Keeps
  <2>5. AskedFor'
    BY <2>1, <2>3 DEF AskedFor, Asking
  <2>6. BlockCovered'
    BY <1>0, <2>1, <2>4, BlocksKept
  <2>7. InstallingIsOwned'
    BY <1>0, <2>1, <2>2 DEF InstallingIsOwned
  <2>8. Claimed'
    <3>1. installer.pc \in Installing => installer.locale \in Locales
      BY <1>0 DEF InstallerType, InstallerStates, Asleep, Claiming, Tick, Waking, Installing
    <3> QED BY <1>0, <2>1, <2>2, <3>1 DEF Claimed
  <2>9. ModelIsThere'
    BY <1>0, <2>1, <2>2 DEF ModelIsThere
  <2> QED BY <2>5, <2>6, <2>7, <2>8, <2>9 DEF Sound
<1> QED BY <1>2, <1>3, <1>4, <1>5, <1>6 DEF WorkerStep, SpeechInv

LEMMA InstallerSound ==
  ASSUME SpeechInv, InstallerStep
  PROVE  Sound'
<1> USE DEF waiting, pipeline
<1>0. PipelineType /\ InstallerType /\ Counters /\ Order
        /\ installs \in [Locales -> Install]
        /\ BlockCovered /\ InstallingIsOwned /\ Claimed /\ ModelIsThere /\ AskedFor
  BY TypeParts DEF SpeechInv, Sound
\* Three of the parts for any step that loses no promise.
<1>k. ASSUME Keeps, UNCHANGED worker, blocks' \subseteq blocks
      PROVE  BlockCovered' /\ AskedFor'
  BY <1>0, <1>k, BlocksKept, AskedKept
\* A tick that runs no install leaves nothing 'installing'.
<1>n. ASSUME installer.pc \notin Installing
      PROVE  faults = 0 => \A l \in Locales : installs[l] # "installing"
  BY <1>0, <1>n DEF InstallingIsOwned
<1>r. ASSUME UNCHANGED <<worker, installs, models>>, blocks' \subseteq blocks,
             installer.pc \notin Installing \/ faults' # 0,
             installer'.pc \notin Installing, faults' = 0 => faults = 0
      PROVE  Sound'
  <2>1. Keeps
    BY <1>r DEF Keeps
  <2>2. InstallingIsOwned'
    BY <1>n, <1>r DEF InstallingIsOwned
  <2>3. Claimed' /\ ModelIsThere'
    BY <1>0, <1>r DEF Claimed, ModelIsThere, Installing
  <2> QED BY <1>k, <1>r, <2>1, <2>2, <2>3 DEF Sound
<1>1. CASE Collect
  <2>1. /\ installer.pc = "asleep" /\ installer'.pc = "claim"
        /\ UNCHANGED <<worker, blocks, models>>
    BY <1>1 DEF Collect, Asleep, Claiming
  <2>2. CASE Fault /\ UNCHANGED <<installs, older>>
    BY <1>0, <1>r, <2>1, <2>2, Guards DEF Installing
  <2>3. CASE /\ installs' = [l \in Locales |->
                               IF Collectable(l) THEN "none" ELSE installs[l]]
             /\ UNCHANGED faults
    <3>1. \A l \in Locales : \/ installs'[l] = installs[l]
                             \/ installs'[l] = "none" /\ l \in models
      BY <1>0, <2>3 DEF Collectable, ModelIsThere
    <3>2. Keeps
      BY <2>1, <3>1 DEF Keeps
    <3>3. InstallingIsOwned'
      BY <1>n, <2>1, <2>3, <3>1 DEF InstallingIsOwned, Installing
    <3>4. Claimed' /\ ModelIsThere'
      BY <1>0, <2>1, <3>1 DEF Claimed, ModelIsThere, Installing
    <3> QED BY <1>k, <2>1, <3>2, <3>3, <3>4 DEF Sound
  <2> QED BY <1>1, <2>2, <2>3 DEF Collect
<1>2. CASE Claim
  <2>1. installer.pc = "claim" /\ UNCHANGED <<worker, blocks, models, faults>>
    BY <1>2 DEF Claim, Claiming
  <2>2. CASE installer' = Asleep /\ UNCHANGED installs
    BY <1>r, <2>1, <2>2 DEF Asleep, Installing
  <2>3. ASSUME NEW l \in Locales, Oldest(l),
               installs' = [installs EXCEPT ![l] = "installing"],
               installer' = Tick("install", l)
        PROVE  Sound'
    <3>1. installs'[l] = "installing" /\ \A k \in Locales \ {l} : installs'[k] = installs[k]
      BY <1>0, <2>3
    <3>2. Keeps
      BY <2>1, <3>1 DEF Keeps
    <3>3. InstallingIsOwned'
      BY <1>n, <2>1, <2>3, <3>1 DEF InstallingIsOwned, Installing, Tick
    <3>4. Claimed' /\ ModelIsThere'
      BY <1>0, <2>1, <2>3, <3>1 DEF Claimed, ModelIsThere, Tick
    <3> QED BY <1>k, <2>1, <3>2, <3>3, <3>4 DEF Sound
  <2> QED BY <1>2, <2>2, <2>3 DEF Claim
<1>3. CASE TickEnds
  BY <1>3, <1>r DEF TickEnds, Asleep, Installing
<1>4. CASE TickFails
  BY <1>0, <1>4, <1>r, Guards DEF TickFails, Asleep, Installing
<1>5. CASE \E l \in Locales : SelectBlocks(l)
  BY <1>5, <1>r DEF SelectBlocks, Tick, Waking, Installing
<1>6. CASE \E l \in Locales : DeleteBlocks(l)
  <2>1. /\ UNCHANGED <<worker, installs, models, faults>> /\ blocks' \subseteq blocks
        /\ installer.pc = "delete" /\ installer' = [installer EXCEPT !.pc = "submit"]
    BY <1>6 DEF DeleteBlocks
  <2>2. PICK k \in Locales, bs \in SUBSET Books : installer = Waking("delete", k, bs)
    BY <1>0, <2>1 DEF InstallerType, InstallerStates, Asleep, Claiming, Tick, Waking
  <2>3. installer'.pc = "submit"
    BY <2>1, <2>2 DEF Waking
  <2> QED BY <1>r, <2>1, <2>3 DEF Installing
<1>7. CASE \E b \in Books : Submit(b)
  <2>1. PICK b \in Books : Submit(b)
    BY <1>7
  <2>2. PICK k \in Locales, bs \in SUBSET Books : installer = Waking("submit", k, bs)
    BY <1>0, <2>1 DEF Submit, InstallerType, InstallerStates, Asleep, Claiming, Tick, Waking
  <2>3. installer'.pc = "submit"
    BY <2>1, <2>2 DEF Submit, Waking
  <2> QED BY <1>r, <2>1, <2>2, <2>3 DEF Submit, Installing
<1>8. ASSUME NEW l \in Locales, InstallDone(l) \/ InstallFails(l)
      PROVE  Sound'
  <2>1. /\ installer.pc \in Installing /\ installer.locale = l
        /\ installer'.pc \in Installing /\ installer'.locale = l
        /\ UNCHANGED <<worker, blocks, installs, faults>> /\ models \subseteq models'
        /\ installer'.pc = "installed" => l \in models'
    BY <1>8 DEF InstallDone, InstallFails, Tick, Installing
  <2>2. Keeps
    BY <2>1 DEF Keeps
  <2>3. InstallingIsOwned'
    BY <1>0, <2>1 DEF InstallingIsOwned
  <2>4. Claimed' /\ ModelIsThere'
    BY <1>0, <2>1 DEF Claimed, ModelIsThere
  <2> QED BY <1>k, <2>1, <2>2, <2>3, <2>4 DEF Sound
<1>9. ASSUME NEW l \in Locales, MarkFailed(l) \/ MarkInstalled(l)
      PROVE  Sound'
  <2>1. /\ installer.pc \in Installing /\ installer.locale = l
        /\ installer'.pc \notin Installing \cup {"installed"}
        /\ UNCHANGED <<worker, blocks, models, faults>>
    BY <1>9 DEF MarkFailed, MarkInstalled, Tick, Asleep, Installing
  <2>2. /\ installs'[l] \notin {"none", "installing"}
        /\ installs'[l] = "installed" => l \in models
        /\ \A k \in Locales \ {l} : installs'[k] = installs[k]
    BY <1>0, <1>9 DEF MarkFailed, MarkInstalled, Verdict, ModelIsThere, Tick
  <2>3. Keeps
    BY <2>1, <2>2 DEF Keeps
  <2>4. InstallingIsOwned'
    BY <1>0, <2>1, <2>2 DEF InstallingIsOwned
  <2>5. Claimed' /\ ModelIsThere'
    BY <1>0, <2>1, <2>2 DEF Claimed, ModelIsThere
  <2> QED BY <1>k, <2>1, <2>3, <2>4, <2>5 DEF Sound
<1> QED BY <1>1, <1>2, <1>3, <1>4, <1>5, <1>6, <1>7, <1>8, <1>9 DEF InstallerStep

LEMMA OtherSound ==
  ASSUME SpeechInv, Operator \/ Crash \/ \E b \in Books : Sweep(b)
  PROVE  Sound'
<1> USE DEF waiting, pipeline
<1>0. PipelineType /\ InstallerType /\ Counters /\ Order
        /\ installs \in [Locales -> Install]
        /\ BlockCovered /\ InstallingIsOwned /\ Claimed /\ ModelIsThere /\ AskedFor
  BY TypeParts DEF SpeechInv, Sound
<1>1. CASE RetryFailed
  <2>1. UNCHANGED <<blocks, installer, models, worker, faults>>
    BY <1>1 DEF RetryFailed
  <2>2. \A l \in Locales : \/ installs'[l] = installs[l]
                           \/ installs[l] = "failed" /\ installs'[l] = "pending"
    BY <1>0, <1>1 DEF RetryFailed
  <2>3. Keeps
    BY <2>1, <2>2 DEF Keeps
  <2>4. InstallingIsOwned' /\ ModelIsThere'
    BY <1>0, <2>1, <2>2 DEF InstallingIsOwned, ModelIsThere
  <2>5. Claimed'
    <3>1. installer.pc \in Installing => installer.locale \in Locales
      BY <1>0 DEF InstallerType, InstallerStates, Asleep, Claiming, Tick, Waking, Installing
    <3> QED BY <1>0, <2>1, <2>2, <3>1 DEF Claimed
  <2> QED BY <1>0, <2>1, <2>3, <2>4, <2>5, BlocksKept, AskedKept DEF Sound
<1>2. CASE \E l \in Locales : DoctorInstall(l)
  <2>1. UNCHANGED <<blocks, installs, installer, worker, faults>> /\ models \subseteq models'
    BY <1>2 DEF DoctorInstall
  <2>2. Keeps
    BY <2>1 DEF Keeps
  <2>3. InstallingIsOwned' /\ ModelIsThere' /\ Claimed'
    BY <1>0, <2>1 DEF InstallingIsOwned, ModelIsThere, Claimed
  <2> QED BY <1>0, <2>1, <2>2, <2>3, BlocksKept, AskedKept DEF Sound
<1>3. CASE Crash
  <2>1. /\ UNCHANGED <<blocks, installs, models>> /\ worker'.pc = "poll"
        /\ installer'.pc = "asleep" /\ faults' # 0
    BY <1>0, <1>3, Guards DEF Crash, Polling, Asleep
  <2>2. Keeps
    BY <2>1 DEF Keeps
  <2>3. InstallingIsOwned' /\ ModelIsThere' /\ Claimed'
    BY <1>0, <2>1 DEF InstallingIsOwned, ModelIsThere, Claimed, Installing
  <2> QED BY <1>0, <2>1, <2>2, <2>3, BlocksKept, AskedKept DEF Sound
<1>4. CASE \E b \in Books : Sweep(b)
  <2>1. UNCHANGED <<blocks, installs, installer, models, worker, faults>>
    BY <1>4 DEF Sweep
  <2> QED BY <1>0, <2>1 DEF Sound, BlockCovered, InstallingIsOwned, ModelIsThere,
                            Claimed, AskedFor
<1> QED BY <1>1, <1>2, <1>3, <1>4 DEF Operator

(***************************************************************************)
(* The theorems.                                                           *)
(***************************************************************************)
LEMMA SpeechInitially == Init => SpeechInv
<1> SUFFICES ASSUME Init PROVE SpeechInv
  OBVIOUS
<1>1. HasRow = {}
  BY DEF Init, HasRow
<1>2. Order /\ installs \in [Locales -> Install]
  BY <1>1 DEF Init, Order, Orders, Install
<1>3. PipelineType
  BY PollingWorker DEF Init, PipelineType, Status
<1>4. InstallerType
  BY RestingInstaller, SpeechAssumption DEF Init, InstallerType, SpeechAssumption
<1>5. Counters
  BY Bounds DEF Init, Counters
<1>6. Sound
  BY DEF Init, Sound, BlockCovered, InstallingIsOwned, Claimed, ModelIsThere,
         AskedFor, Polling, Asleep, Installing
<1> QED BY <1>2, <1>3, <1>4, <1>5, <1>6, TypeParts DEF SpeechInv

LEMMA SpeechStep == SpeechInv /\ [Next]_vars => SpeechInv'
<1> SUFFICES ASSUME SpeechInv, [Next]_vars PROVE SpeechInv'
  OBVIOUS
<1>1. TypeOK /\ Claimed
  BY DEF SpeechInv, Sound
<1>2. CASE WorkerStep
  BY <1>1, <1>2, WorkerTypes, WorkerSound DEF SpeechInv
<1>3. CASE InstallerStep
  BY <1>1, <1>3, InstallerTypes, InstallerSound DEF SpeechInv
<1>4. CASE Operator \/ Crash \/ \E b \in Books : Sweep(b)
  BY <1>1, <1>4, OtherTypes, OtherSound DEF SpeechInv
<1>5. CASE UNCHANGED vars
  <2>1. TypeOK'
    BY <1>1, <1>5 DEF vars, TypeOK, HasRow
  <2>2. Sound'
    BY <1>5 DEF vars, SpeechInv, Sound, BlockCovered, InstallingIsOwned, Claimed,
                ModelIsThere, AskedFor
  <2> QED BY <2>1, <2>2 DEF SpeechInv
<1> QED BY <1>2, <1>3, <1>4, <1>5 DEF Next

\* Every state has the declared types, and the install rows are in one order.
THEOREM SpeechTypeCorrect == Spec => []TypeOK
<1>1. SpeechInv => TypeOK
  BY DEF SpeechInv
<1> QED BY <1>1, SpeechInitially, SpeechStep, PTL DEF Spec

\* Nobody waits for an install nobody knows of, whatever crashes or fails
\* between the two statements of queue_locale_install.
THEOREM BlocksAreCovered == Spec => []BlockCovered
<1>1. SpeechInv => BlockCovered
  BY DEF SpeechInv, Sound
<1> QED BY <1>1, SpeechInitially, SpeechStep, PTL DEF Spec

\* As long as nothing fails, 'installing' means that the loop is at it.
THEOREM InstallingRowsAreOwned == Spec => []InstallingIsOwned
<1>1. SpeechInv => InstallingIsOwned
  BY DEF SpeechInv, Sound
<1> QED BY <1>1, SpeechInitially, SpeechStep, PTL DEF Spec
-----------------------------------------------------------------------------
(* --- Sounds -------------------------------------------------------------- *)

\* What is heard, by its hashes, and what is said, by its segments.
HeardTyped ==
  /\ heard \in [window : Seq(SUBSET Bits), jingles : [1 .. 2 -> Seq(SUBSET Bits)]]
  /\ Len(heard.window) <= MaxHashes
SaidTyped == said \in Seq(Seq(Letters)) /\ Len(said) <= 3

LEMMA Twice ==
  ASSUME NEW T, NEW e \in T
  PROVE  <<e, e>> \in [1 .. 2 -> T]
OBVIOUS

LEMMA HeardBegins == SoInit => HeardTyped /\ SaidTyped
<1> SUFFICES ASSUME SoInit
             PROVE  HeardTyped /\ SaidTyped
  OBVIOUS
<1>1. HeardTyped
  <2>1. heard.window = <<>> /\ heard.jingles[1] = <<>> /\ heard.jingles[2] = <<>> /\ DOMAIN heard.jingles = 1 .. 2
    BY DEF SoInit
  <2>2. heard = [window |-> heard.window, jingles |-> heard.jingles]
    BY DEF SoInit
  <2>3. \A S : <<>> \in Seq(S)
    OBVIOUS
  <2>4. heard.jingles \in [1 .. 2 -> Seq(SUBSET Bits)]
    <3>1. heard.jingles = << <<>>, <<>> >>
      BY DEF SoInit
    <3>2. <<>> \in Seq(SUBSET Bits)
      OBVIOUS
    <3>3. QED
      BY <3>1, <3>2, Twice
  <2>5. QED
    BY <2>1, <2>2, <2>3, <2>4, SoundsAssumption DEF HeardTyped
<1>2. SaidTyped
  BY EmptyTyped DEF SoInit, SaidTyped
<1>3. QED
  BY <1>1, <1>2

\* A window or a jingle goes on.
LEMMA HeardKeeps ==
  ASSUME HeardTyped, MoreHeard
  PROVE  HeardTyped'
<1>1. heard \in [window : Seq(SUBSET Bits), jingles : [1 .. 2 -> Seq(SUBSET Bits)]]
  BY DEF HeardTyped
<1>2. ASSUME NEW w \in SUBSET Bits, Len(heard.window) < MaxHashes, heard' = [heard EXCEPT !.window = Append(@, w)]
      PROVE  HeardTyped'
  <2>1. PICK s \in Seq(SUBSET Bits) : s = heard.window
    BY <1>1
  <2>2. Append(s, w) \in Seq(SUBSET Bits) /\ Len(Append(s, w)) = Len(s) + 1 /\ Len(s) \in Nat
    BY <2>1, AppendProperties
  <2>3. heard'.window = Append(s, w) /\ heard' \in [window : Seq(SUBSET Bits), jingles : [1 .. 2 -> Seq(SUBSET Bits)]]
    BY <1>1, <1>2, <2>1, <2>2
  <2>4. QED
    BY <1>2, <2>1, <2>2, <2>3, SoundsAssumption DEF HeardTyped
<1>3. ASSUME NEW j \in 1 .. 2, NEW w \in SUBSET Bits, heard' = [heard EXCEPT !.jingles[j] = Append(@, w)]
      PROVE  HeardTyped'
  <2>1. PICK g \in [1 .. 2 -> Seq(SUBSET Bits)] : g = heard.jingles
    BY <1>1
  <2>2. PICK s \in Seq(SUBSET Bits) : s = g[j]
    BY <2>1
  <2>3. Append(s, w) \in Seq(SUBSET Bits)
    BY <2>2, AppendProperties
  <2>4. heard' = [heard EXCEPT !.jingles = [g EXCEPT ![j] = Append(s, w)]]
    BY <1>3, <2>1, <2>2
  <2>5. [g EXCEPT ![j] = Append(s, w)] \in [1 .. 2 -> Seq(SUBSET Bits)]
    BY <2>1, <2>3
  <2>6. heard'.window = heard.window /\ heard' \in [window : Seq(SUBSET Bits), jingles : [1 .. 2 -> Seq(SUBSET Bits)]]
    BY <1>1, <2>4, <2>5
  <2>7. QED
    BY <2>6 DEF HeardTyped
<1>4. QED
  BY <1>2, <1>3 DEF MoreHeard

LEMMA SaidKeeps ==
  ASSUME SaidTyped, MoreSaid
  PROVE  SaidTyped'
<1>1. said \in Seq(Seq(Letters)) /\ Len(said) \in Nat /\ Len(said) <= 3
  BY DEF SaidTyped
<1>2. CASE Len(said) < 3 /\ said' = Append(said, <<>>)
  <2>1. <<>> \in Seq(Letters)
    OBVIOUS
  <2>2. said' \in Seq(Seq(Letters)) /\ Len(said') = Len(said) + 1
    BY <1>1, <1>2, <2>1, AppendProperties
  <2>3. QED
    BY <1>1, <1>2, <2>2 DEF SaidTyped
<1>3. ASSUME NEW l \in Letters, said # <<>>, said' = [said EXCEPT ![Len(said)] = Append(@, l)]
      PROVE  SaidTyped'
  <2>1. Len(said) \in 1 .. Len(said)
    BY <1>1, <1>3
  <2>2. PICK s \in Seq(Letters) : s = said[Len(said)]
    BY <1>1, <2>1
  <2>3. Append(s, l) \in Seq(Letters)
    BY <2>2, AppendProperties
  <2>4. said' = [said EXCEPT ![Len(said)] = Append(s, l)]
    BY <1>3, <2>2
  <2>5. said' \in Seq(Seq(Letters)) /\ Len(said') = Len(said)
    BY <1>1, <2>1, <2>3, <2>4
  <2>6. QED
    BY <1>1, <2>5 DEF SaidTyped
<1>4. QED
  BY <1>2, <1>3 DEF MoreSaid

\* Recording and fingerprinting leave what is heard and said alone.
LEMMA HeardStays ==
  ASSUME HeardTyped, SaidTyped, [SoStep]_soVars
  PROVE  HeardTyped' /\ SaidTyped'
<1>1. CASE UNCHANGED <<heard, said>>
  BY <1>1 DEF HeardTyped, SaidTyped
<1>2. CASE MoreHeard
  <2>1. UNCHANGED said
    BY <1>2 DEF MoreHeard
  <2>2. QED
    BY <1>2, <2>1, HeardKeeps DEF SaidTyped
<1>3. CASE MoreSaid
  <2>1. UNCHANGED heard
    BY <1>3 DEF MoreSaid
  <2>2. QED
    BY <1>3, <2>1, SaidKeeps DEF HeardTyped
<1>4. QED
  <2>1. SoStep => MoreHeard \/ MoreSaid \/ UNCHANGED <<heard, said>>
    BY DEF SoStep, FileTurns, FingerprintRuns, WriteFingerprint, FingerprintFails
  <2>2. QED
    BY <1>1, <1>2, <1>3, <2>1 DEF soVars

-----------------------------------------------------------------------------
(* --- Jingles by their hashes --------------------------------------------- *)

\* Two windows of hashes have a distance.
LEMMA HammingTyped ==
  ASSUME NEW a \in Seq(SUBSET Bits), NEW b \in Seq(SUBSET Bits)
  PROVE  Hamming(a, b) \in Nat
<1>1. PICK N : N = IF Len(a) < Len(b) THEN Len(a) ELSE Len(b)
  OBVIOUS
<1>2. N \in Nat /\ N <= Len(a) /\ N <= Len(b)
  BY <1>1
<1>3. ASSUME NEW x \in SUBSET Bits, NEW y \in SUBSET Bits
      PROVE  Differing(x, y) \in Nat
  <2>1. (x \ y) \cup (y \ x) \subseteq Bits
    OBVIOUS
  <2>2. IsFiniteSet((x \ y) \cup (y \ x))
    BY <2>1, SoundsAssumption, FS_Subset
  <2>3. QED
    BY <2>2, FS_CardinalityType DEF Differing
<1>4. PICK fs : fs = [n \in 1 .. N |-> Differing(a[n], b[n])]
  OBVIOUS
<1>5. \A n \in 1 .. N : a[n] \in SUBSET Bits /\ b[n] \in SUBSET Bits
  BY <1>2
<1>6. fs \in Seq(Nat)
  BY <1>2, <1>3, <1>4, <1>5
<1>7. SumSeq(fs) \in Nat
  <2>1. Len(fs) \in 0 .. Len(fs)
    BY <1>6
  <2>2. QED
    BY <1>6, <2>1, StartsFollow DEF SumSeq
<1>8. Width * Gap(Len(a), Len(b)) \in Nat
  <2>1. Width \in Nat
    BY SoundsAssumption, FS_CardinalityType DEF Width
  <2>2. Gap(Len(a), Len(b)) \in Nat
    BY DEF Gap
  <2>3. \A m, n \in Nat : m * n \in Nat
    OBVIOUS
  <2>4. QED
    BY <2>1, <2>2, <2>3
<1>9. Hamming(a, b) = Width * Gap(Len(a), Len(b)) + SumSeq(fs)
  BY <1>1, <1>4 DEF Hamming
<1>10. QED
  BY <1>7, <1>8, <1>9

\* A slice of a window is a window.
LEMMA SliceTyped ==
  ASSUME NEW D, NEW s \in Seq(D), NEW o \in Nat, NEW len \in Nat, o + len <= Len(s)
  PROVE  Slice(s, o, len) \in Seq(D) /\ Len(Slice(s, o, len)) = len
         /\ \A n \in 1 .. len : Slice(s, o, len)[n] = s[o + n]
BY DEF Slice

Distances(win, j, dist) ==
  dist = [o \in 0 .. Len(win) - Len(j) |-> Hamming(Slice(win, o, Len(j)), j)]
LEMMA DistancesTyped ==
  ASSUME NEW win \in Seq(SUBSET Bits), NEW j \in Seq(SUBSET Bits), NEW dist, Distances(win, j, dist)
  PROVE  \A o \in 0 .. Len(win) - Len(j) : dist[o] \in Nat
<1>1. ASSUME NEW o \in 0 .. Len(win) - Len(j)
      PROVE  dist[o] \in Nat
  <2>1. Slice(win, o, Len(j)) \in Seq(SUBSET Bits)
    BY SliceTyped
  <2>2. Hamming(Slice(win, o, Len(j)), j) \in Nat
    BY <2>1, HammingTyped
  <2>3. QED
    BY <2>2 DEF Distances
<1>2. QED
  BY <1>1

\* The best of the places before n.
BestOf(dist, n, m) ==
  /\ m \in SlideMatches /\ m.offset \in 0 .. n - 1 /\ m.hamming = dist[m.offset]
  /\ \A o \in 0 .. n - 1 : m.hamming <= dist[o] /\ (o < m.offset => m.hamming < dist[o])
Sliding(dist, last, at) ==
  at = [n \in 0 .. last |-> IF n = 0 THEN Nothing ELSE Better(at[n - 1], n - 1, dist[n - 1])]

LEMMA SlidingExists ==
  ASSUME NEW last \in Nat, NEW dist, \A o \in 0 .. last - 1 : dist[o] \in Nat
  PROVE  \E at : Sliding(dist, last, at)
<1>1. PICK V : V = OptionOf(SlideMatches)
  OBVIOUS
<1>2. PICK step : step = [x \in (1 .. last) \X V |-> Better(x[2], x[1] - 1, dist[x[1] - 1])]
  OBVIOUS
<1>3. ASSUME NEW n \in 1 .. last, NEW m \in V
      PROVE  step[<<n, m>>] = Better(m, n - 1, dist[n - 1]) /\ Better(m, n - 1, dist[n - 1]) \in V
  <2>1. step[<<n, m>>] = Better(m, n - 1, dist[n - 1])
    BY <1>2
  <2>2. [offset |-> n - 1, hamming |-> dist[n - 1]] \in SlideMatches
    BY DEF SlideMatches
  <2>3. QED
    BY <1>1, <2>1, <2>2 DEF Better, OptionOf
<1>4. step \in [(1 .. last) \X V -> V]
  BY <1>2, <1>3
<1>5. Nothing \in V
  BY <1>1 DEF OptionOf
<1>6. PICK at : FoldOf(V, Nothing, last, step, at)
  BY <1>4, <1>5, FoldExists
<1>7. ASSUME NEW n \in 1 .. last
      PROVE  at[n] = Better(at[n - 1], n - 1, dist[n - 1])
  <2>1. at[n - 1] \in V
    BY <1>6 DEF FoldOf
  <2>2. QED
    BY <1>3, <1>6, <2>1 DEF FoldOf
<1>8. \A n \in 0 .. last : at[n] = IF n = 0 THEN Nothing ELSE Better(at[n - 1], n - 1, dist[n - 1])
  BY <1>6, <1>7 DEF FoldOf
<1>9. QED
  BY <1>6, <1>8 DEF Sliding, FoldOf

LEMMA SlidingSound ==
  ASSUME NEW last \in Nat \ {0}, NEW dist, \A o \in 0 .. last - 1 : dist[o] \in Nat,
         NEW at, Sliding(dist, last, at)
  PROVE  BestOf(dist, last, at[last])
<1>1. PICK S : S = {n \in 0 .. last : n # 0 => BestOf(dist, n, at[n])}
  OBVIOUS
<1>2. 0 \in S
  BY <1>1
<1>3. ASSUME NEW n \in 1 .. last, n - 1 \in S
      PROVE  n \in S
  <2>1. at[n] = Better(at[n - 1], n - 1, dist[n - 1])
    BY DEF Sliding
  <2>2. PICK new : new = [offset |-> n - 1, hamming |-> dist[n - 1]]
    OBVIOUS
  <2>3. new \in SlideMatches /\ new.offset = n - 1 /\ new.hamming = dist[n - 1]
    BY <2>2 DEF SlideMatches
  <2>4. CASE n = 1
    <3>1. at[n - 1] = Nothing
      BY <2>4 DEF Sliding
    <3>2. at[n] = new
      BY <2>1, <2>2, <3>1 DEF Better
    <3>3. QED
      BY <1>1, <2>3, <2>4, <3>2 DEF BestOf
  <2>5. CASE n # 1
    <3>1. BestOf(dist, n - 1, at[n - 1])
      BY <1>1, <1>3, <2>5
    <3>2. at[n - 1] \in SlideMatches /\ at[n - 1] # Nothing
      BY <3>1, SoundsAssumption DEF BestOf
    <3>3. at[n - 1].hamming \in Nat /\ at[n - 1].offset \in Nat
      BY <3>2 DEF SlideMatches
    <3>4. CASE dist[n - 1] < at[n - 1].hamming
      <4>1. at[n] = new
        BY <2>1, <2>2, <3>4 DEF Better
      <4>2. ASSUME NEW o \in 0 .. n - 1
            PROVE  new.hamming <= dist[o] /\ (o < new.offset => new.hamming < dist[o])
        <5>1. CASE o = n - 1
          BY <2>3, <5>1
        <5>2. CASE o # n - 1
          <6>1. o \in 0 .. (n - 1) - 1 /\ dist[o] \in Nat /\ dist[n - 1] \in Nat
            BY <5>2
          <6>2. at[n - 1].hamming <= dist[o]
            BY <3>1, <6>1 DEF BestOf
          <6>3. QED
            BY <2>3, <3>3, <3>4, <6>1, <6>2
        <5>3. QED
          BY <5>1, <5>2
      <4>3. QED
        BY <1>1, <2>3, <4>1, <4>2 DEF BestOf
    <3>5. CASE ~(dist[n - 1] < at[n - 1].hamming)
      <4>1. at[n] = at[n - 1]
        BY <2>1, <3>2, <3>5 DEF Better
      <4>2. PICK m : m = at[n - 1]
        OBVIOUS
      <4>3. m \in SlideMatches /\ m.offset \in 0 .. n - 2 /\ m.hamming = dist[m.offset] /\ m.hamming \in Nat
        BY <3>1, <3>3, <4>2 DEF BestOf
      <4>4. ASSUME NEW o \in 0 .. n - 1
            PROVE  m.hamming <= dist[o] /\ (o < m.offset => m.hamming < dist[o])
        <5>1. CASE o = n - 1
          BY <3>5, <4>2, <4>3, <5>1
        <5>2. CASE o # n - 1
          <6>1. o \in 0 .. (n - 1) - 1
            BY <5>2
          <6>2. QED
            BY <3>1, <4>2, <6>1 DEF BestOf
        <5>3. QED
          BY <5>1, <5>2
      <4>5. QED
        BY <1>1, <4>1, <4>2, <4>3, <4>4 DEF BestOf
    <3>6. QED
      BY <3>4, <3>5
  <2>6. QED
    BY <2>4, <2>5
<1>4. last \in S
  BY <1>2, <1>3, SetInduction
<1>5. QED
  BY <1>1, <1>4

\* A slide finds the first of the closest places, wherever one fits.
LEMMA SlideSound ==
  ASSUME NEW win \in Seq(SUBSET Bits), NEW j \in Seq(SUBSET Bits), j # <<>>, Len(j) <= Len(win)
  PROVE  /\ SlideMatch(win, j) \in SlideMatches
         /\ SlideMatch(win, j).offset \in 0 .. Len(win) - Len(j)
         /\ SlideMatch(win, j).hamming = Hamming(Slice(win, SlideMatch(win, j).offset, Len(j)), j)
         /\ \A o \in 0 .. Len(win) - Len(j) :
              /\ SlideMatch(win, j).hamming <= Hamming(Slice(win, o, Len(j)), j)
              /\ o < SlideMatch(win, j).offset => SlideMatch(win, j).hamming < Hamming(Slice(win, o, Len(j)), j)
<1>1. PICK dist : Distances(win, j, dist)
  BY DEF Distances
<1>2. PICK last \in Nat \ {0} : last = Len(win) - Len(j) + 1
  <2>1. Len(win) \in Nat /\ Len(j) \in Nat
    OBVIOUS
  <2>2. Len(win) - Len(j) + 1 \in Nat \ {0}
    BY <2>1
  <2>3. QED
    BY <2>2
<1>3. 0 .. last - 1 = 0 .. Len(win) - Len(j)
  BY <1>2
<1>4. \A o \in 0 .. last - 1 : dist[o] \in Nat
  BY <1>1, <1>3, DistancesTyped
<1>5. PICK at : at = CHOOSE f : Sliding(dist, last, f)
  OBVIOUS
<1>6. Sliding(dist, last, at)
  BY <1>4, <1>5, SlidingExists
<1>7. BestOf(dist, last, at[last])
  BY <1>4, <1>6, SlidingSound
<1>8. SlideMatch(win, j) = at[last]
  <2>1. \A f : (f = [n \in 0 .. Len(win) - Len(j) + 1 |->
                  IF n = 0 THEN Nothing ELSE Better(f[n - 1], n - 1, Hamming(Slice(win, n - 1, Len(j)), j))])
               <=> Sliding(dist, last, f)
    <3>1. \A n \in 1 .. last : Hamming(Slice(win, n - 1, Len(j)), j) = dist[n - 1]
      BY <1>1, <1>3 DEF Distances
    <3>2. QED
      BY <1>2, <3>1 DEF Sliding
  <2>2. (CHOOSE f : f = [n \in 0 .. Len(win) - Len(j) + 1 |->
                  IF n = 0 THEN Nothing ELSE Better(f[n - 1], n - 1, Hamming(Slice(win, n - 1, Len(j)), j))]) = at
    BY <1>5, <2>1
  <2>3. ~(j = <<>> \/ Len(win) < Len(j))
    OBVIOUS
  <2>4. QED
    BY <1>2, <2>2, <2>3 DEF SlideMatch
<1>9. QED
  BY <1>1, <1>3, <1>7, <1>8 DEF BestOf, Distances

\* Confidences are compared as fractions are.
LEMMA ProductsCompare == \A x, y, z \in Nat : x * y \in Nat /\ x * y = y * x /\ x * (y * z) = (x * y) * z
  OBVIOUS
LEMMA ProductRises ==
  ASSUME NEW x \in Nat, NEW y \in Nat, NEW z \in Nat, x <= y
  PROVE  x * z <= y * z
<1>1. PICK d \in Nat : y = x + d
  <2>1. y - x \in Nat /\ y = x + (y - x)
    OBVIOUS
  <2>2. QED
    BY <2>1
<1>2. y * z = x * z + d * z /\ d * z \in Nat /\ x * z \in Nat
  BY <1>1
<1>3. QED
  BY <1>2
LEMMA ProductCancels ==
  ASSUME NEW x \in Nat, NEW y \in Nat, NEW z \in Nat \ {0}, x * z <= y * z
  PROVE  x <= y
<1>1. SUFFICES ASSUME y < x
               PROVE  FALSE
  OBVIOUS
<1>2. PICK d \in Nat : x = y + 1 + d
  <2>1. x - y - 1 \in Nat /\ x = y + 1 + (x - y - 1)
    BY <1>1
  <2>2. QED
    BY <2>1
<1>3. x * z = y * z + z + d * z /\ d * z \in Nat /\ y * z \in Nat
  BY <1>2
<1>4. QED
  BY <1>3

LEMMA HigherOrders ==
  ASSUME NEW n1 \in Nat, NEW d1 \in Nat, NEW n2 \in Nat, NEW d2 \in Nat, NEW n3 \in Nat, NEW d3 \in Nat,
         n1 * d2 <= n2 * d1, n3 * d2 > n2 * d3
  PROVE  n1 * d3 <= n3 * d1
<1>1. d2 # 0
  BY ProductsCompare
<1>2. (n1 * d3) * d2 <= (n3 * d1) * d2
  <2>1. (n1 * d2) * d3 <= (n2 * d1) * d3
    BY ProductRises, ProductsCompare
  <2>2. (n2 * d3) * d1 <= (n3 * d2) * d1
    BY ProductRises, ProductsCompare
  <2>3. (n1 * d2) * d3 = (n1 * d3) * d2 /\ (n2 * d1) * d3 = (n2 * d3) * d1 /\ (n3 * d2) * d1 = (n3 * d1) * d2
    OBVIOUS
  <2>4. (n1 * d3) * d2 \in Nat /\ (n2 * d3) * d1 \in Nat /\ (n3 * d1) * d2 \in Nat
    OBVIOUS
  <2>5. QED
    BY <2>1, <2>2, <2>3, <2>4
<1>3. QED
  BY <1>1, <1>2, ProductsCompare, ProductCancels

LEMMA EnoughIsHigh ==
  ASSUME NEW n1 \in Nat, NEW d1 \in Nat, NEW n2 \in Nat, NEW d2 \in Nat, NEW t \in Nat,
         100 * n1 < t * d1, 100 * n2 >= t * d2
  PROVE  n1 * d2 <= n2 * d1
<1>1. (100 * n1) * d2 <= (t * d1) * d2
  BY ProductRises, ProductsCompare
<1>2. (t * d2) * d1 <= (100 * n2) * d1
  BY ProductRises, ProductsCompare
<1>3. (100 * n1) * d2 = (n1 * d2) * 100 /\ (100 * n2) * d1 = (n2 * d1) * 100 /\ (t * d1) * d2 = (t * d2) * d1
  OBVIOUS
<1>4. n1 * d2 \in Nat /\ n2 * d1 \in Nat /\ (t * d2) * d1 \in Nat
  OBVIOUS
<1>5. QED
  BY <1>1, <1>2, <1>3, <1>4

Fractions == [num : Nat, den : Nat]
LEMMA SurerOrders ==
  ASSUME NEW a \in Fractions, NEW b \in Fractions, NEW c \in Fractions
  PROVE  /\ Higher(a, b) => ~Higher(b, a)
         /\ Enough(b) /\ ~Enough(a) => ~Higher(a, b)
         /\ ~Higher(a, b) /\ Higher(c, b) => ~Higher(a, c)
         /\ ~Higher(a, a)
<1>1. a.num \in Nat /\ a.den \in Nat /\ b.num \in Nat /\ b.den \in Nat /\ c.num \in Nat /\ c.den \in Nat
  BY DEF Fractions
<1>2. Threshold \in Nat
  BY SoundsAssumption
<1>3. /\ a.num * b.den \in Nat /\ b.num * a.den \in Nat /\ c.num * b.den \in Nat /\ b.num * c.den \in Nat
      /\ a.num * c.den \in Nat /\ c.num * a.den \in Nat /\ a.num * a.den \in Nat
      /\ Threshold * a.den \in Nat /\ Threshold * b.den \in Nat /\ 100 * a.num \in Nat /\ 100 * b.num \in Nat
  BY <1>1, <1>2, ProductsCompare
<1>4. Enough(b) /\ ~Enough(a) => ~Higher(a, b)
  <2>1. SUFFICES ASSUME Enough(b), ~Enough(a)
                 PROVE  a.num * b.den <= b.num * a.den
    BY <1>3 DEF Higher
  <2>2. 100 * a.num < Threshold * a.den /\ 100 * b.num >= Threshold * b.den
    BY <1>3, <2>1 DEF Enough
  <2>3. QED
    BY <1>1, <1>2, <2>2, EnoughIsHigh
<1>5. ~Higher(a, b) /\ Higher(c, b) => ~Higher(a, c)
  <2>1. SUFFICES ASSUME ~Higher(a, b), Higher(c, b)
                 PROVE  a.num * c.den <= c.num * a.den
    BY <1>3 DEF Higher
  <2>2. a.num * b.den <= b.num * a.den /\ c.num * b.den > b.num * c.den
    BY <1>3, <2>1 DEF Higher
  <2>3. QED
    BY <1>1, <2>2, HigherOrders
<1>6. QED
  BY <1>3, <1>4, <1>5 DEF Higher

\* The surest of the first n answers.
SurestOf(hits, n, best) ==
  /\ best \in OptionOf(JingleHits)
  /\ best = Nothing <=> \A k \in 1 .. n : hits[k] # Nothing => ~Enough(hits[k].sure)
  /\ best # Nothing =>
       /\ \E k \in 1 .. n : best = hits[k]
       /\ Enough(best.sure)
       /\ \A k \in 1 .. n : hits[k] # Nothing => ~Higher(hits[k].sure, best.sure)
Choosing(hits, last, at) == at = [n \in 0 .. last |-> IF n = 0 THEN Nothing ELSE Surer(at[n - 1], hits[n])]

LEMMA ChoosingExists ==
  ASSUME NEW last \in Nat, NEW hits, \A n \in 1 .. last : hits[n] \in OptionOf(JingleHits)
  PROVE  \E at : Choosing(hits, last, at)
<1>1. PICK V : V = OptionOf(JingleHits)
  OBVIOUS
<1>2. PICK step : step = [x \in (1 .. last) \X V |-> Surer(x[2], hits[x[1]])]
  OBVIOUS
<1>3. ASSUME NEW n \in 1 .. last, NEW m \in V
      PROVE  step[<<n, m>>] = Surer(m, hits[n]) /\ Surer(m, hits[n]) \in V
  BY <1>1, <1>2 DEF Surer
<1>4. step \in [(1 .. last) \X V -> V]
  BY <1>2, <1>3
<1>5. Nothing \in V
  BY <1>1 DEF OptionOf
<1>6. PICK at : FoldOf(V, Nothing, last, step, at)
  BY <1>4, <1>5, FoldExists
<1>7. ASSUME NEW n \in 1 .. last
      PROVE  at[n] = Surer(at[n - 1], hits[n])
  <2>1. at[n - 1] \in V
    BY <1>6 DEF FoldOf
  <2>2. QED
    BY <1>3, <1>6, <2>1 DEF FoldOf
<1>8. \A n \in 0 .. last : at[n] = IF n = 0 THEN Nothing ELSE Surer(at[n - 1], hits[n])
  BY <1>6, <1>7 DEF FoldOf
<1>9. QED
  BY <1>6, <1>8 DEF Choosing, FoldOf

LEMMA ChoosingSound ==
  ASSUME NEW last \in Nat, NEW hits, \A n \in 1 .. last : hits[n] \in OptionOf(JingleHits),
         NEW at, Choosing(hits, last, at)
  PROVE  SurestOf(hits, last, at[last])
<1>1. PICK S : S = {n \in 0 .. last : SurestOf(hits, n, at[n])}
  OBVIOUS
<1>2. 0 \in S
  <2>1. at[0] = Nothing
    BY DEF Choosing
  <2>2. QED
    BY <1>1, <2>1 DEF SurestOf, OptionOf
<1>3. ASSUME NEW n \in 1 .. last, n - 1 \in S
      PROVE  n \in S
  <2>1. PICK old : old = at[n - 1]
    OBVIOUS
  <2>2. SurestOf(hits, n - 1, old)
    BY <1>1, <1>3, <2>1
  <2>3. PICK hit \in OptionOf(JingleHits) : hit = hits[n]
    OBVIOUS
  <2>4. at[n] = Surer(old, hit)
    BY <2>1, <2>3 DEF Choosing
  <2>5. \A k \in 1 .. n : hits[k] \in OptionOf(JingleHits) /\ (hits[k] # Nothing => hits[k].sure \in Fractions)
    BY DEF OptionOf, JingleHits, Fractions
  <2>6. 1 .. n = (1 .. n - 1) \cup {n}
    OBVIOUS
  <2>7. CASE hit # Nothing /\ Enough(hit.sure) /\ (old # Nothing => Higher(hit.sure, old.sure))
    <3>1. at[n] = hit
      BY <2>4, <2>7 DEF Surer
    <3>2. ASSUME NEW k \in 1 .. n, hits[k] # Nothing
          PROVE  ~Higher(hits[k].sure, hit.sure)
      <4>1. hits[k].sure \in Fractions /\ hit.sure \in Fractions
        BY <2>3, <2>5, <2>7, <3>2
      <4>2. CASE k = n
        BY <2>3, <4>1, <4>2, SurerOrders
      <4>3. CASE k # n /\ old = Nothing
        <5>1. ~Enough(hits[k].sure)
          BY <2>2, <2>6, <3>2, <4>3 DEF SurestOf
        <5>2. QED
          BY <2>7, <4>1, <5>1, SurerOrders
      <4>4. CASE k # n /\ old # Nothing
        <5>1. ~Higher(hits[k].sure, old.sure)
          BY <2>2, <2>6, <3>2, <4>4 DEF SurestOf
        <5>2. old.sure \in Fractions
          BY <2>2, <2>5, <4>4 DEF SurestOf, OptionOf, JingleHits, Fractions
        <5>3. QED
          BY <2>7, <4>1, <4>4, <5>1, <5>2, SurerOrders
      <4>5. QED
        BY <4>2, <4>3, <4>4
    <3>3. QED
      BY <1>1, <2>3, <2>7, <3>1, <3>2 DEF SurestOf
  <2>8. CASE ~(hit # Nothing /\ Enough(hit.sure) /\ (old # Nothing => Higher(hit.sure, old.sure)))
    <3>1. at[n] = old
      BY <2>4, <2>8 DEF Surer
    <3>2. CASE old = Nothing
      <4>1. hit = Nothing \/ ~Enough(hit.sure)
        BY <2>8, <3>2
      <4>2. \A k \in 1 .. n - 1 : hits[k] # Nothing => ~Enough(hits[k].sure)
        BY <2>2, <3>2 DEF SurestOf
      <4>3. \A k \in 1 .. n : hits[k] # Nothing => ~Enough(hits[k].sure)
        BY <2>3, <2>6, <4>1, <4>2
      <4>4. QED
        BY <1>1, <2>2, <3>1, <3>2, <4>3 DEF SurestOf
    <3>3. CASE old # Nothing
      <4>1. old.sure \in Fractions /\ Enough(old.sure)
        BY <2>2, <3>3 DEF SurestOf, OptionOf, JingleHits, Fractions
      <4>2. hit # Nothing => ~Higher(hit.sure, old.sure)
        <5>1. SUFFICES ASSUME hit # Nothing
                       PROVE  ~Higher(hit.sure, old.sure)
          OBVIOUS
        <5>2. hit.sure \in Fractions
          BY <2>3, <2>5, <5>1
        <5>3. CASE Enough(hit.sure)
          BY <2>8, <3>3, <5>1, <5>3
        <5>4. CASE ~Enough(hit.sure)
          BY <4>1, <5>2, <5>4, SurerOrders
        <5>5. QED
          BY <5>3, <5>4
      <4>3. \A k \in 1 .. n : hits[k] # Nothing => ~Higher(hits[k].sure, old.sure)
        BY <2>2, <2>3, <2>6, <3>3, <4>2 DEF SurestOf
      <4>4. \E k \in 1 .. n : old = hits[k]
        BY <2>2, <2>6, <3>3 DEF SurestOf
      <4>5. ~\A k \in 1 .. n : hits[k] # Nothing => ~Enough(hits[k].sure)
        BY <3>3, <4>1, <4>4
      <4>6. QED
        BY <1>1, <2>2, <3>1, <3>3, <4>1, <4>3, <4>4, <4>5 DEF SurestOf
    <3>4. QED
      BY <3>2, <3>3
  <2>9. QED
    BY <2>7, <2>8
<1>4. last \in S
  BY <1>2, <1>3, SetInduction
<1>5. QED
  BY <1>1, <1>4

LEMMA SurestSound ==
  ASSUME NEW hits \in Seq(OptionOf(JingleHits))
  PROVE  SurestOf(hits, Len(hits), Surest(hits))
<1>1. PICK last \in Nat : last = Len(hits)
  OBVIOUS
<1>2. \A n \in 1 .. last : hits[n] \in OptionOf(JingleHits)
  BY <1>1
<1>3. PICK at : at = CHOOSE f : Choosing(hits, last, f)
  OBVIOUS
<1>4. Choosing(hits, last, at)
  BY <1>2, <1>3, ChoosingExists
<1>5. Surest(hits) = at[last]
  BY <1>1, <1>3 DEF Surest, Choosing
<1>6. QED
  BY <1>1, <1>2, <1>4, <1>5, ChoosingSound

LEMMA ConfidenceTyped ==
  ASSUME NEW h \in Nat, NEW needle \in Seq(SUBSET Bits)
  PROVE  Confidence(h, needle) \in Fractions
<1>1. Width \in Nat /\ Len(needle) \in Nat
  BY SoundsAssumption, FS_CardinalityType DEF Width
<1>2. PICK w \in Nat : w = Width * Len(needle)
  BY <1>1, ProductsCompare
<1>3. Confidence(h, needle) = [num |-> IF h > w THEN 0 ELSE w - h, den |-> w]
  BY <1>2 DEF Confidence
<1>4. QED
  BY <1>2, <1>3 DEF Fractions

\* A jingle in full lies within the window.
LEMMA FullHitSound ==
  ASSUME NEW win \in Seq(SUBSET Bits), NEW j \in Seq(SUBSET Bits)
  PROVE  /\ FullHit(win, j) \in OptionOf(JingleHits)
         /\ FullHit(win, j) # Nothing => FullHit(win, j).to <= Len(win)
<1>1. CASE j = <<>> \/ Len(win) < Len(j)
  BY <1>1 DEF FullHit, SlideMatch, OptionOf
<1>2. CASE ~(j = <<>> \/ Len(win) < Len(j))
  <2>1. PICK m : m = SlideMatch(win, j)
    OBVIOUS
  <2>2. m \in SlideMatches /\ m.offset \in 0 .. Len(win) - Len(j)
    BY <1>2, <2>1, SlideSound
  <2>3. m # Nothing /\ m.hamming \in Nat
    BY <2>2, SoundsAssumption DEF SlideMatches
  <2>4. FullHit(win, j) = [from |-> m.offset, to |-> m.offset + Len(j), sure |-> Confidence(m.hamming, j)]
    BY <2>1, <2>3 DEF FullHit
  <2>5. Confidence(m.hamming, j) \in Fractions
    BY <2>3, ConfidenceTyped
  <2>6. QED
    BY <2>2, <2>4, <2>5 DEF OptionOf, JingleHits, Fractions
<1>3. QED
  BY <1>1, <1>2

\* Bookends lie within the window, as far apart as they may.
LEMMA BookendHitSound ==
  ASSUME NEW win \in Seq(SUBSET Bits), NEW j \in Seq(SUBSET Bits)
  PROVE  /\ BookendHit(win, j) \in OptionOf(JingleHits)
         /\ BookendHit(win, j) # Nothing =>
              /\ BookendHit(win, j).from + 2 * NeedleHashes <= BookendHit(win, j).to
              /\ BookendHit(win, j).to <= BookendHit(win, j).from + 2 * NeedleHashes + MaxGap
              /\ BookendHit(win, j).to <= Len(win)
<1>1. PICK N \in Nat \ {0} : N = NeedleHashes
  BY SoundsAssumption
<1>2. PICK head : head = SubSeq(j, 1, N)
  OBVIOUS
<1>3. PICK tail : tail = SubSeq(j, Len(j) - N + 1, Len(j))
  OBVIOUS
<1>4. PICK pair : pair = SlideMatchBookend(win, head, tail, MaxGap)
  OBVIOUS
<1>5. CASE Len(j) < 2 * N \/ pair = Nothing
  BY <1>1, <1>2, <1>3, <1>4, <1>5 DEF BookendHit, OptionOf
<1>6. CASE ~(Len(j) < 2 * N \/ pair = Nothing)
  <2>1. /\ head \in Seq(SUBSET Bits) /\ Len(head) = N /\ head # <<>>
        /\ tail \in Seq(SUBSET Bits) /\ Len(tail) = N /\ tail # <<>>
    <3>1. Len(j) \in Nat /\ Len(j) >= 2 * N
      BY <1>6
    <3>2. head \in Seq(SUBSET Bits) /\ Len(head) = N
      BY <1>2, <3>1, PartTyped
    <3>3. PICK a \in Nat \ {0}, b \in Nat : a = Len(j) - N + 1 /\ b = Len(j)
      <4>1. Len(j) - N + 1 \in Nat \ {0}
        BY <3>1
      <4>2. QED
        BY <3>1, <4>1
    <3>4. tail \in Seq(SUBSET Bits) /\ Len(tail) = N
      <4>1. tail = SubSeq(j, a, b) /\ a <= b + 1 /\ b <= Len(j) /\ b - a + 1 = N
        BY <1>3, <3>3
      <4>2. QED
        BY <4>1, PartTyped
    <3>5. \A s : Len(s) # 0 => s # <<>>
      OBVIOUS
    <3>6. QED
      BY <3>2, <3>4, <3>5
  <2>2. PICK first : first = SlideMatch(win, head)
    OBVIOUS
  <2>3. PICK from : from = first.offset + Len(head)
    OBVIOUS
  <2>4. PICK rest : rest = SubSeq(win, from + 1, Len(win))
    OBVIOUS
  <2>5. PICK last : last = SlideMatch(rest, tail)
    OBVIOUS
  <2>6. /\ first # Nothing /\ ~(from >= Len(win)) /\ last # Nothing /\ ~(last.offset > MaxGap)
        /\ pair = <<first, [last EXCEPT !.offset = @ + from]>>
    BY <1>4, <1>6, <2>2, <2>3, <2>4, <2>5 DEF SlideMatchBookend
  <2>7. Len(head) <= Len(win)
    BY <2>1, <2>2, <2>6 DEF SlideMatch
  <2>8. first \in SlideMatches /\ first.offset \in 0 .. Len(win) - N /\ first.hamming \in Nat
    BY <2>1, <2>2, <2>7, SlideSound DEF SlideMatches
  <2>9. from \in Nat /\ from <= Len(win) /\ rest \in Seq(SUBSET Bits) /\ Len(rest) = Len(win) - from
    <3>1. first.offset \in Nat /\ from = first.offset + N /\ Len(win) \in Nat
      BY <2>1, <2>3, <2>8
    <3>2. from \in Nat /\ from <= Len(win)
      BY <2>8, <3>1
    <3>3. PICK a \in Nat \ {0}, b \in Nat : a = from + 1 /\ b = Len(win)
      BY <3>1, <3>2
    <3>4. rest \in Seq(SUBSET Bits) /\ Len(rest) = b - a + 1
      <4>1. rest = SubSeq(win, a, b) /\ a <= b + 1 /\ b <= Len(win)
        BY <2>4, <3>2, <3>3
      <4>2. QED
        BY <4>1, PartTyped
    <3>5. b - a + 1 = Len(win) - from
      BY <3>2, <3>3
    <3>6. QED
      BY <3>2, <3>4, <3>5
  <2>10. Len(tail) <= Len(rest)
    BY <2>1, <2>5, <2>6, <2>9 DEF SlideMatch
  <2>11. last \in SlideMatches /\ last.offset \in 0 .. Len(rest) - N /\ last.hamming \in Nat
    BY <2>1, <2>5, <2>9, <2>10, SlideSound DEF SlideMatches
  <2>12. last.offset <= MaxGap /\ MaxGap \in Nat
    BY <2>6, <2>11, SoundsAssumption
  <2>13. pair[1] = first /\ pair[2].offset = last.offset + from /\ pair[2].hamming = last.hamming
    BY <2>6, <2>11 DEF SlideMatches
  <2>14. PICK c1 \in Fractions : c1 = Confidence(pair[1].hamming, head)
    BY <2>1, <2>8, <2>13, ConfidenceTyped
  <2>15. PICK c2 \in Fractions : c2 = Confidence(pair[2].hamming, tail)
    BY <2>1, <2>11, <2>13, ConfidenceTyped
  <2>16. BookendHit(win, j) = [from |-> first.offset, to |-> last.offset + from + N,
                               sure |-> IF Higher(c1, c2) THEN c2 ELSE c1]
    BY <1>1, <1>2, <1>3, <1>4, <1>6, <2>13, <2>14, <2>15 DEF BookendHit
  <2>17. from = first.offset + N
    BY <2>1, <2>3
  <2>18. PICK to \in Nat : to = last.offset + from + N /\ to = first.offset + 2 * N + last.offset
    <3>1. last.offset \in Nat /\ first.offset \in Nat
      BY <2>8, <2>9, <2>11
    <3>2. \A x, y, n \in Nat : x + (y + n) + n = y + 2 * n + x /\ x + (y + n) + n \in Nat
      OBVIOUS
    <3>3. QED
      BY <1>1, <2>17, <3>1, <3>2
  <2>19. PICK h : h = [from |-> first.offset, to |-> to, sure |-> IF Higher(c1, c2) THEN c2 ELSE c1]
    OBVIOUS
  <2>20. BookendHit(win, j) = h
    BY <2>16, <2>18, <2>19
  <2>21. h \in JingleHits
    <3>1. first.offset \in Nat
      BY <2>8
    <3>2. (IF Higher(c1, c2) THEN c2 ELSE c1) \in [num : Nat, den : Nat]
      BY DEF Fractions
    <3>3. QED
      BY <2>19, <3>1, <3>2 DEF JingleHits
  <2>22. h.from = first.offset /\ h.to = to
    BY <2>19
  <2>23. h.from + 2 * N <= h.to /\ h.to <= h.from + 2 * N + MaxGap /\ h.to <= Len(win)
    <3>1. last.offset \in Nat /\ first.offset \in Nat /\ Len(rest) \in Nat /\ last.offset <= Len(rest) - N
      BY <2>8, <2>9, <2>11
    <3>2. h.to <= Len(win)
      BY <2>9, <2>18, <2>22, <3>1
    <3>3. QED
      BY <2>12, <2>18, <2>22, <3>1, <3>2
  <2>24. QED
    BY <1>1, <2>20, <2>21, <2>23 DEF OptionOf
<1>7. QED
  BY <1>5, <1>6

\* What is detected is the surest, in full if one jingle is.
Detects(win, fulls, ends, hit) ==
  /\ hit = Nothing <=> \A h \in fulls \cup ends : ~Enough(h.sure)
  /\ hit # Nothing =>
       /\ Enough(hit.sure) /\ hit.from >= 0 /\ hit.to <= Len(win)
       /\ \A h \in (IF \E f \in fulls : Enough(f.sure) THEN fulls ELSE ends) : ~Higher(h.sure, hit.sure)
LEMMA DetectionSound ==
  ASSUME NEW win \in Seq(SUBSET Bits), NEW jingles \in [1 .. 2 -> Seq(SUBSET Bits)],
         NEW fulls, fulls = {FullHit(win, jingles[n]) : n \in {1, 2}} \ {Nothing},
         NEW ends, ends = {BookendHit(win, jingles[n]) : n \in {1, 2}} \ {Nothing},
         NEW hit, hit = DetectJingle(win, jingles)
  PROVE  Detects(win, fulls, ends, hit)
<1>1. PICK fs : fs = [n \in DOMAIN jingles |-> FullHit(win, jingles[n])]
  OBVIOUS
<1>2. PICK es : es = [n \in DOMAIN jingles |-> BookendHit(win, jingles[n])]
  OBVIOUS
<1>3. DOMAIN jingles = 1 .. 2 /\ 1 .. 2 = {1, 2} /\ \A n \in 1 .. 2 : jingles[n] \in Seq(SUBSET Bits)
  OBVIOUS
<1>4. \A n \in 1 .. 2 : fs[n] = FullHit(win, jingles[n]) /\ fs[n] \in OptionOf(JingleHits)
  BY <1>1, <1>3, FullHitSound
<1>5. \A n \in 1 .. 2 : es[n] = BookendHit(win, jingles[n]) /\ es[n] \in OptionOf(JingleHits)
  BY <1>2, <1>3, BookendHitSound
<1>6. fs \in Seq(OptionOf(JingleHits)) /\ Len(fs) = 2
  BY <1>1, <1>3, <1>4
<1>7. es \in Seq(OptionOf(JingleHits)) /\ Len(es) = 2
  BY <1>2, <1>3, <1>5
<1>8. PICK full : full = Surest(fs)
  OBVIOUS
<1>9. PICK end : end = Surest(es)
  OBVIOUS
<1>10. SurestOf(fs, 2, full)
  BY <1>6, <1>8, SurestSound
<1>11. SurestOf(es, 2, end)
  BY <1>7, <1>9, SurestSound
<1>12. hit = IF full # Nothing THEN full ELSE end
  BY <1>1, <1>2, <1>8, <1>9 DEF DetectJingle
<1>13. fulls = {fs[n] : n \in 1 .. 2} \ {Nothing} /\ ends = {es[n] : n \in 1 .. 2} \ {Nothing}
  BY <1>3, <1>4, <1>5
<1>14. full = Nothing <=> \A h \in fulls : ~Enough(h.sure)
  BY <1>10, <1>13 DEF SurestOf
<1>15. end = Nothing <=> \A h \in ends : ~Enough(h.sure)
  BY <1>11, <1>13 DEF SurestOf
<1>16. full # Nothing => full \in fulls /\ Enough(full.sure) /\ \A h \in fulls : ~Higher(h.sure, full.sure)
  BY <1>10, <1>13 DEF SurestOf
<1>17. end # Nothing => end \in ends /\ Enough(end.sure) /\ \A h \in ends : ~Higher(h.sure, end.sure)
  BY <1>11, <1>13 DEF SurestOf
<1>18. \A h \in fulls \cup ends : h.from >= 0 /\ h.to <= Len(win)
  <2>1. \A h \in JingleHits : h.from >= 0
    BY DEF JingleHits
  <2>2. \A h \in fulls \cup ends : h \in JingleHits
    BY <1>4, <1>5, <1>13 DEF OptionOf
  <2>3. \A n \in 1 .. 2 : (fs[n] # Nothing => fs[n].to <= Len(win)) /\ (es[n] # Nothing => es[n].to <= Len(win))
    BY <1>3, <1>4, <1>5, FullHitSound, BookendHitSound
  <2>4. QED
    BY <1>13, <2>1, <2>2, <2>3
<1>19. CASE full # Nothing
  BY <1>12, <1>14, <1>16, <1>18, <1>19 DEF Detects
<1>20. CASE full = Nothing
  BY <1>12, <1>14, <1>15, <1>17, <1>18, <1>20 DEF Detects
<1>21. QED
  BY <1>19, <1>20

\* Whatever window and jingles are heard.
LEMMA HeardFound == HeardTyped => JinglesFound
<1> SUFFICES ASSUME HeardTyped
             PROVE  JinglesFound
  OBVIOUS
<1>1. PICK win : win = heard.window
  OBVIOUS
<1>2. PICK jingles : jingles = heard.jingles
  OBVIOUS
<1>3. win \in Seq(SUBSET Bits) /\ jingles \in [1 .. 2 -> Seq(SUBSET Bits)]
  BY <1>1, <1>2 DEF HeardTyped
<1>4. \A n \in {1, 2} : jingles[n] \in Seq(SUBSET Bits)
  BY <1>3
<1>5. ASSUME NEW j \in Seq(SUBSET Bits), NEW m, m = SlideMatch(win, j)
      PROVE  IF {o \in 0 .. Len(win) - Len(j) : j # <<>>} = {} THEN m = Nothing
             ELSE /\ m.offset \in {o \in 0 .. Len(win) - Len(j) : j # <<>>}
                  /\ m.hamming = Hamming(Slice(win, m.offset, Len(j)), j)
                  /\ \A o \in {o \in 0 .. Len(win) - Len(j) : j # <<>>} : m.hamming <= Hamming(Slice(win, o, Len(j)), j)
                  /\ \A o \in {o \in 0 .. Len(win) - Len(j) : j # <<>>} :
                       o < m.offset => m.hamming < Hamming(Slice(win, o, Len(j)), j)
  <2>1. CASE j = <<>> \/ Len(win) < Len(j)
    <3>1. {o \in 0 .. Len(win) - Len(j) : j # <<>>} = {}
      BY <1>3, <2>1
    <3>2. QED
      BY <1>5, <2>1, <3>1 DEF SlideMatch
  <2>2. CASE ~(j = <<>> \/ Len(win) < Len(j))
    <3>1. {o \in 0 .. Len(win) - Len(j) : j # <<>>} = 0 .. Len(win) - Len(j)
      BY <2>2
    <3>2. 0 \in 0 .. Len(win) - Len(j)
      BY <1>3, <2>2
    <3>3. j # <<>> /\ Len(j) <= Len(win)
      BY <1>3, <2>2
    <3>4. /\ m.offset \in 0 .. Len(win) - Len(j)
          /\ m.hamming = Hamming(Slice(win, m.offset, Len(j)), j)
          /\ \A o \in 0 .. Len(win) - Len(j) : m.hamming <= Hamming(Slice(win, o, Len(j)), j)
          /\ \A o \in 0 .. Len(win) - Len(j) :
               o < m.offset => m.hamming < Hamming(Slice(win, o, Len(j)), j)
      BY <1>3, <1>5, <3>3, SlideSound, Zenon
    <3>5. 0 .. Len(win) - Len(j) # {}
      BY <3>2
    <3>6. QED
      BY <3>1, <3>4, <3>5, Zenon
  <2>3. QED
    BY <2>1, <2>2
<1>6. PICK fulls : fulls = {FullHit(win, jingles[n]) : n \in {1, 2}} \ {Nothing}
  OBVIOUS
<1>7. PICK ends : ends = {BookendHit(win, jingles[n]) : n \in {1, 2}} \ {Nothing}
  OBVIOUS
<1>8. \A h \in ends : h.from + 2 * NeedleHashes <= h.to /\ h.to <= h.from + 2 * NeedleHashes + MaxGap
  BY <1>3, <1>4, <1>7, BookendHitSound
<1>9. PICK hit : hit = DetectJingle(win, jingles)
  OBVIOUS
<1>10. Detects(win, fulls, ends, hit)
  BY <1>3, <1>6, <1>7, <1>9, DetectionSound
<1>11. \A n \in {1, 2} :
         \A j \in {heard.jingles[n]}, m \in {SlideMatch(heard.window, heard.jingles[n])} :
           IF {o \in 0 .. Len(heard.window) - Len(j) : j # <<>>} = {} THEN m = Nothing
           ELSE /\ m.offset \in {o \in 0 .. Len(heard.window) - Len(j) : j # <<>>}
                /\ m.hamming = Hamming(Slice(heard.window, m.offset, Len(j)), j)
                /\ \A o \in {o \in 0 .. Len(heard.window) - Len(j) : j # <<>>} :
                     m.hamming <= Hamming(Slice(heard.window, o, Len(j)), j)
                /\ \A o \in {o \in 0 .. Len(heard.window) - Len(j) : j # <<>>} :
                     o < m.offset => m.hamming < Hamming(Slice(heard.window, o, Len(j)), j)
  BY <1>1, <1>2, <1>4, <1>5
<1>12. \A h \in {DetectJingle(heard.window, heard.jingles)},
          fs \in {{FullHit(heard.window, heard.jingles[n]) : n \in {1, 2}} \ {Nothing}},
          es \in {{BookendHit(heard.window, heard.jingles[n]) : n \in {1, 2}} \ {Nothing}} :
         /\ \A e \in es : e.from + 2 * NeedleHashes <= e.to /\ e.to <= e.from + 2 * NeedleHashes + MaxGap
         /\ h = Nothing <=> \A f \in fs \cup es : ~Enough(f.sure)
         /\ h # Nothing =>
              /\ Enough(h.sure) /\ h.from >= 0 /\ h.to <= Len(heard.window)
              /\ \A e \in (IF \E f \in fs : Enough(f.sure) THEN fs ELSE es) : ~Higher(e.sure, h.sure)
  BY <1>1, <1>2, <1>6, <1>7, <1>8, <1>9, <1>10 DEF Detects
<1>13. QED
  BY <1>11, <1>12 DEF JinglesFound

-----------------------------------------------------------------------------
(* --- Jingles that are spoken --------------------------------------------- *)

\* The segments of the window are the first ones.
LEMMA WindowIsFirst ==
  ASSUME SaidTyped
  PROVE  /\ Cardinality(InWindow) \in Nat /\ Cardinality(InWindow) <= Len(said)
         /\ InWindow = 1 .. Cardinality(InWindow)
<1>1. ScanSecs \in Nat
  BY SoundsAssumption
<1>2. DOMAIN said = 1 .. Len(said) /\ Len(said) \in Nat
  BY DEF SaidTyped
<1>3. PICK k \in Nat : k <= Len(said) /\ \A n \in 1 .. Len(said) : n <= k <=> 2 * n - 2 < ScanSecs
  <2>1. CASE 2 * Len(said) - 2 < ScanSecs
    BY <1>1, <1>2, <2>1
  <2>2. CASE ~(2 * Len(said) - 2 < ScanSecs)
    <3>1. (ScanSecs + 1) \div 2 \in Nat /\ (ScanSecs + 1) \div 2 <= Len(said)
      BY <1>1, <1>2, <2>2
    <3>2. \A n \in 1 .. Len(said) : n <= (ScanSecs + 1) \div 2 <=> 2 * n - 2 < ScanSecs
      BY <1>1, <1>2
    <3>3. QED
      BY <3>1, <3>2
  <2>3. QED
    BY <2>1, <2>2
<1>4. InWindow = 1 .. k
  BY <1>2, <1>3 DEF InWindow, Start
<1>5. Cardinality(1 .. k) = k
  BY FS_Interval, <1>3
<1>6. QED
  BY <1>3, <1>4, <1>5

Chars == Letters \cup {Space}
Pieces == [text : Seq(Chars), ranges : Seq([seg : Nat, at : Nat])]
\* Where segment i ends in what has been joined.
Ends(j, i) == j.ranges[i].at + Len(said[i])
\* The first n segments in their order, blanks between them.
JoinOf(j, n) ==
  /\ j \in Pieces /\ Len(j.ranges) = n
  /\ \A i \in 1 .. n : j.ranges[i].seg = i /\ j.ranges[i].at \in Nat /\ Ends(j, i) <= Len(j.text)
  /\ \A i, k \in 1 .. n : i < k => Ends(j, i) <= j.ranges[k].at /\ (Ends(j, i) > 0 => Ends(j, i) < j.ranges[k].at)
  /\ \A p \in 1 .. Len(j.text) : j.text[p] = Space \/ \E i \in 1 .. n : j.ranges[i].at < p /\ p <= Ends(j, i)

LEMMA CharsAre == Space \in Chars /\ Letters \subseteq Chars
  BY DEF Chars
LEMMA JoinTyped ==
  ASSUME NEW j \in Pieces, NEW n \in Nat, said[n] \in Seq(Letters)
  PROVE  Join(j, n) \in Pieces
<1>1. j.text \in Seq(Chars) /\ j.ranges \in Seq([seg : Nat, at : Nat])
  BY DEF Pieces
<1>2. PICK chars \in Seq(Chars) : chars = IF j.text = <<>> THEN j.text ELSE Append(j.text, Space)
  <2>1. Append(j.text, Space) \in Seq(Chars)
    BY <1>1, CharsAre, AppendTyped
  <2>2. QED
    BY <1>1, <2>1
<1>3. said[n] \in Seq(Chars)
  BY CharsAre, WiderTyped
<1>4. chars \o said[n] \in Seq(Chars)
  BY <1>3, ConcatTyped
<1>5. [seg |-> n, at |-> Len(chars)] \in [seg : Nat, at : Nat]
  <2>1. Len(chars) \in Nat
    OBVIOUS
  <2>2. QED
    BY <2>1
<1>6. Append(j.ranges, [seg |-> n, at |-> Len(chars)]) \in Seq([seg : Nat, at : Nat])
  BY <1>1, <1>5
<1>7. Join(j, n) = [text |-> chars \o said[n], ranges |-> Append(j.ranges, [seg |-> n, at |-> Len(chars)])]
  BY <1>2 DEF Join
<1>8. QED
  BY <1>4, <1>6, <1>7 DEF Pieces

\* A blank, except at the beginning.
LEMMA BlankBetween ==
  ASSUME NEW old \in Seq(Chars), NEW chars, chars = IF old = <<>> THEN old ELSE Append(old, Space)
  PROVE  /\ chars \in Seq(Chars) /\ Len(chars) \in Nat /\ Len(old) \in Nat
         /\ Len(chars) = IF Len(old) = 0 THEN 0 ELSE Len(old) + 1
         /\ \A p \in 1 .. Len(old) : chars[p] = old[p]
         /\ \A p \in 1 .. Len(chars) : p > Len(old) => chars[p] = Space
<1>1. PICK blank \in Chars : blank = Space
  BY CharsAre
<1>2. Len(old) \in Nat
  OBVIOUS
<1>3. CASE old = <<>>
  <2>1. chars = old /\ Len(old) = 0
    BY <1>3
  <2>2. QED
    BY <2>1
<1>4. CASE old # <<>>
  <2>1. chars = Append(old, blank) /\ Len(old) # 0
    BY <1>1, <1>4, EmptyTyped
  <2>2. /\ chars \in Seq(Chars) /\ Len(chars) = Len(old) + 1 /\ chars[Len(old) + 1] = blank
        /\ \A p \in 1 .. Len(old) : chars[p] = old[p]
    BY <2>1, AppendTyped
  <2>3. \A p \in 1 .. Len(chars) : p > Len(old) => p = Len(old) + 1
    BY <1>2, <2>2
  <2>4. QED
    BY <1>1, <1>2, <2>1, <2>2, <2>3
<1>5. QED
  BY <1>3, <1>4

LEMMA JoinGoesOn ==
  ASSUME NEW n \in Nat \ {0}, NEW j, JoinOf(j, n - 1), \A i \in 1 .. n : said[i] \in Seq(Letters)
  PROVE  JoinOf(Join(j, n), n)
<1>1. PICK old \in Seq(Chars), ranges \in Seq([seg : Nat, at : Nat]) : j.text = old /\ j.ranges = ranges
  BY DEF JoinOf, Pieces
<1>2. PICK chars : chars = IF old = <<>> THEN old ELSE Append(old, Space)
  OBVIOUS
<1>3. PICK L \in Nat : L = Len(old)
  OBVIOUS
<1>4. PICK M \in Nat : M = Len(chars) /\ M = IF L = 0 THEN 0 ELSE L + 1
  BY <1>2, <1>3, BlankBetween
<1>5. chars \in Seq(Chars) /\ (\A p \in 1 .. L : chars[p] = old[p]) /\ (\A p \in 1 .. M : p > L => chars[p] = Space)
  <2>1. /\ chars \in Seq(Chars) /\ \A p \in 1 .. Len(old) : chars[p] = old[p]
        /\ \A p \in 1 .. Len(chars) : p > Len(old) => chars[p] = Space
    BY <1>2, BlankBetween
  <2>2. QED
    BY <1>3, <1>4, <2>1
<1>6. PICK more \in Seq(Chars) : more = said[n]
  <2>1. said[n] \in Seq(Letters)
    OBVIOUS
  <2>2. QED
    BY <2>1, CharsAre, WiderTyped
<1>7. PICK W \in Nat : W = Len(more)
  OBVIOUS
<1>8. PICK place \in [seg : Nat, at : Nat] : place = [seg |-> n, at |-> M]
  OBVIOUS
<1>9. PICK joined : joined = chars \o more
  OBVIOUS
<1>10. joined \in Seq(Chars) /\ Len(joined) = M + W /\ \A p \in 1 .. M : joined[p] = chars[p]
  <2>1. /\ joined \in Seq(Chars) /\ Len(joined) = Len(chars) + Len(more)
        /\ \A p \in 1 .. Len(chars) : joined[p] = chars[p]
    BY <1>5, <1>9, ConcatTyped
  <2>2. QED
    BY <1>4, <1>7, <2>1
<1>11. PICK places : places = Append(ranges, place)
  OBVIOUS
<1>12. Len(ranges) = n - 1 /\ n - 1 \in Nat
  BY <1>1 DEF JoinOf
<1>13. /\ places \in Seq([seg : Nat, at : Nat]) /\ Len(places) = n /\ places[n] = place
       /\ \A i \in 1 .. n - 1 : places[i] = ranges[i]
  <2>1. Len(places) = Len(ranges) + 1 /\ places[Len(ranges) + 1] = place
    BY <1>11, AppendTyped
  <2>2. Len(ranges) + 1 = n
    BY <1>12
  <2>3. QED
    BY <1>11, <1>12, <2>1, <2>2, AppendTyped
<1>14. PICK new : new = Join(j, n)
  OBVIOUS
<1>15. new = [text |-> joined, ranges |-> places]
  BY <1>1, <1>2, <1>4, <1>6, <1>8, <1>9, <1>11, <1>14 DEF Join
<1>16. new.text = joined /\ new.ranges = places /\ new \in Pieces
  BY <1>10, <1>13, <1>15 DEF Pieces
<1>17. PICK from : from = [i \in 1 .. n |-> places[i].at]
  OBVIOUS
<1>18. PICK end : end = [i \in 1 .. n |-> places[i].at + Len(said[i])]
  OBVIOUS
<1>19. \A i \in 1 .. n : new.ranges[i].at = from[i] /\ Ends(new, i) = end[i]
  BY <1>16, <1>17, <1>18 DEF Ends
<1>20. from[n] = M /\ end[n] = M + W /\ places[n].seg = n
  BY <1>6, <1>7, <1>8, <1>13, <1>17, <1>18
<1>21. \A i \in 1 .. n - 1 : /\ from[i] = j.ranges[i].at /\ end[i] = Ends(j, i)
                              /\ places[i].seg = i /\ from[i] \in Nat /\ end[i] <= L
  <2>1. ASSUME NEW i \in 1 .. n - 1
        PROVE  from[i] = j.ranges[i].at /\ end[i] = Ends(j, i)
    <3>1. i \in 1 .. n /\ places[i] = j.ranges[i]
      BY <1>1, <1>13
    <3>2. QED
      BY <1>17, <1>18, <3>1 DEF Ends
  <2>2. ASSUME NEW i \in 1 .. n - 1
        PROVE  j.ranges[i].seg = i /\ j.ranges[i].at \in Nat /\ Ends(j, i) <= L
    BY <1>1, <1>3 DEF JoinOf
  <2>3. \A i \in 1 .. n - 1 : places[i] = j.ranges[i]
    BY <1>1, <1>13
  <2>4. QED
    BY <2>1, <2>2, <2>3
<1>22. \A i \in 1 .. n : end[i] \in Nat
  <2>1. \A i \in 1 .. n : said[i] \in Seq(Letters) /\ Len(said[i]) \in Nat
    OBVIOUS
  <2>2. ASSUME NEW i \in 1 .. n
        PROVE  from[i] \in Nat
    <3>1. places[i] \in [seg : Nat, at : Nat]
      <4>1. places \in Seq([seg : Nat, at : Nat]) /\ i \in 1 .. Len(places)
        BY <1>13
      <4>2. QED
        BY <4>1, ItemTyped
    <3>2. from[i] = places[i].at
      BY <1>17
    <3>3. QED
      BY <3>1, <3>2
  <2>3. \A i \in 1 .. n : end[i] = from[i] + Len(said[i])
    BY <1>17, <1>18
  <2>4. \A x, y \in Nat : x + y \in Nat
    OBVIOUS
  <2>5. QED
    BY <2>1, <2>2, <2>3, <2>4
<1>23. \A i \in 1 .. n : new.ranges[i].seg = i /\ new.ranges[i].at \in Nat /\ Ends(new, i) <= M + W
  <2>1. ASSUME NEW i \in 1 .. n - 1
        PROVE  places[i].seg = i /\ from[i] \in Nat /\ end[i] <= M + W
    <3>1. end[i] \in Nat /\ end[i] <= L
      BY <1>21, <1>22
    <3>2. L <= M + W
      BY <1>4
    <3>3. QED
      BY <1>21, <3>1, <3>2
  <2>2. places[n].seg = n /\ from[n] \in Nat /\ end[n] <= M + W
    BY <1>20
  <2>3. \A i \in 1 .. n : i \in 1 .. n - 1 \/ i = n
    OBVIOUS
  <2>4. QED
    BY <1>16, <1>19, <2>1, <2>2, <2>3
<1>24. ASSUME NEW i \in 1 .. n, NEW k \in 1 .. n, i < k
       PROVE  end[i] <= from[k] /\ (end[i] > 0 => end[i] < from[k])
  <2>1. i \in 1 .. n - 1
    BY <1>24
  <2>2. end[i] \in Nat /\ end[i] <= L
    BY <1>21, <1>22, <2>1
  <2>3. CASE k = n
    BY <1>4, <1>20, <2>2, <2>3
  <2>4. CASE k # n
    <3>1. k \in 1 .. n - 1
      BY <2>4
    <3>2. Ends(j, i) <= j.ranges[k].at /\ (Ends(j, i) > 0 => Ends(j, i) < j.ranges[k].at)
      BY <1>24, <2>1, <3>1 DEF JoinOf
    <3>3. QED
      BY <1>21, <2>1, <3>1, <3>2
  <2>5. QED
    BY <2>3, <2>4
<1>25. ASSUME NEW p \in 1 .. M + W
       PROVE  joined[p] = Space \/ \E i \in 1 .. n : from[i] < p /\ p <= end[i]
  <2>1. CASE p <= L
    <3>1. p \in 1 .. L /\ p \in 1 .. M
      BY <1>4, <2>1
    <3>2. joined[p] = old[p]
      BY <1>5, <1>10, <3>1
    <3>3. old[p] = Space \/ \E i \in 1 .. n - 1 : j.ranges[i].at < p /\ p <= Ends(j, i)
      BY <1>1, <1>3, <3>1 DEF JoinOf
    <3>4. \A i \in 1 .. n - 1 : i \in 1 .. n
      OBVIOUS
    <3>5. QED
      BY <1>21, <3>2, <3>3, <3>4
  <2>2. CASE p > L /\ p <= M
    <3>1. p \in 1 .. M
      BY <2>2
    <3>2. QED
      BY <1>5, <1>10, <2>2, <3>1
  <2>3. CASE p > M
    <3>1. from[n] < p /\ p <= end[n]
      BY <1>20, <2>3
    <3>2. QED
      BY <3>1
  <2>4. QED
    BY <2>1, <2>2, <2>3
<1>26. Len(new.text) = M + W /\ Len(new.ranges) = n
  BY <1>10, <1>13, <1>16
<1>27. \A i, k \in 1 .. n : i < k => Ends(new, i) <= new.ranges[k].at /\ (Ends(new, i) > 0 => Ends(new, i) < new.ranges[k].at)
  BY <1>19, <1>24
<1>28. \A p \in 1 .. M + W : new.text[p] = Space \/ \E i \in 1 .. n : new.ranges[i].at < p /\ p <= Ends(new, i)
  BY <1>16, <1>19, <1>25
<1>29. QED
  BY <1>14, <1>16, <1>23, <1>26, <1>27, <1>28 DEF JoinOf

Joins(last, at) == at = [n \in 0 .. last |-> IF n = 0 THEN [text |-> <<>>, ranges |-> <<>>] ELSE Join(at[n - 1], n)]
LEMMA NoPieces == [text |-> <<>>, ranges |-> <<>>] \in Pieces
<1>1. \A S : <<>> \in Seq(S)
  OBVIOUS
<1>2. QED
  BY <1>1 DEF Pieces

LEMMA JoinedIs ==
  ASSUME SaidTyped
  PROVE  JoinOf(Joined, Cardinality(InWindow))
<1>1. PICK last \in Nat : last = Cardinality(InWindow) /\ last <= Len(said)
  BY WindowIsFirst
<1>2. \A n \in 1 .. last : said[n] \in Seq(Letters)
  BY <1>1 DEF SaidTyped
<1>3. PICK none : none = [text |-> <<>>, ranges |-> <<>>]
  OBVIOUS
<1>4. none \in Pieces
  BY <1>3, NoPieces
<1>5. PICK step : step = [x \in (1 .. last) \X Pieces |-> Join(x[2], x[1])]
  OBVIOUS
<1>6. \A n \in 1 .. last, j \in Pieces : step[<<n, j>>] = Join(j, n) /\ Join(j, n) \in Pieces
  BY <1>2, <1>5, JoinTyped
<1>7. step \in [(1 .. last) \X Pieces -> Pieces]
  BY <1>5, <1>6
<1>8. PICK way : FoldOf(Pieces, none, last, step, way)
  BY <1>4, <1>7, FoldExists
<1>9. ASSUME NEW n \in 1 .. last
      PROVE  way[n] = Join(way[n - 1], n)
  <2>1. way[n - 1] \in Pieces
    BY <1>8 DEF FoldOf
  <2>2. QED
    BY <1>6, <1>8, <2>1 DEF FoldOf
<1>10. \A n \in 0 .. last : way[n] = IF n = 0 THEN none ELSE Join(way[n - 1], n)
  BY <1>8, <1>9 DEF FoldOf
<1>11. Joins(last, way)
  BY <1>3, <1>8, <1>10 DEF Joins, FoldOf
<1>12. PICK at : at = CHOOSE f : Joins(last, f)
  OBVIOUS
<1>13. Joins(last, at)
  BY <1>11, <1>12
<1>14. Joined = at[last]
  BY <1>1, <1>12 DEF Joined, Joining, Joins
<1>15. PICK S : S = {n \in 0 .. last : JoinOf(at[n], n)}
  OBVIOUS
<1>16. 0 \in S
  <2>1. at[0] = none
    BY <1>3, <1>13 DEF Joins
  <2>2. none.text = <<>> /\ none.ranges = <<>>
    BY <1>3
  <2>3. JoinOf(none, 0)
    BY <1>4, <2>2 DEF JoinOf
  <2>4. QED
    BY <1>15, <2>1, <2>3
<1>17. ASSUME NEW n \in 1 .. last, n - 1 \in S
       PROVE  n \in S
  <2>1. at[n] = Join(at[n - 1], n)
    BY <1>13 DEF Joins
  <2>2. JoinOf(at[n - 1], n - 1)
    BY <1>15, <1>17
  <2>3. \A i \in 1 .. n : said[i] \in Seq(Letters)
    BY <1>2
  <2>4. JoinOf(at[n], n)
    BY <2>1, <2>2, <2>3, JoinGoesOn
  <2>5. QED
    BY <1>15, <2>4
<1>18. last \in S
  BY <1>16, <1>17, SetInduction
<1>19. QED
  BY <1>1, <1>14, <1>15, <1>18

\* A phrase is found where it first begins.
LEMMA PlaceSound ==
  ASSUME NEW D, NEW chars \in Seq(D), NEW p \in AllPhrases
  PROVE  PlaceOf(chars, p) # Nothing =>
           /\ PlaceOf(chars, p) \in Nat /\ PlaceOf(chars, p) + Len(p) <= Len(chars)
           /\ chars[PlaceOf(chars, p) + 1] = p[1] /\ chars[PlaceOf(chars, p) + Len(p)] = p[Len(p)]
<1>1. p \in Seq(ToSet(p)) /\ p # <<>> /\ Len(p) \in Nat \ {0}
  <2>1. p \in Seq(ToSet(p)) /\ p # <<>>
    BY SoundsAssumption
  <2>2. QED
    BY <2>1, EmptyTyped
<1>2. PICK at : at = {n \in 0 .. Len(chars) - Len(p) : Slice(chars, n, Len(p)) = p}
  OBVIOUS
<1>3. PlaceOf(chars, p) = IF at = {} THEN Nothing ELSE CHOOSE n \in at : \A m \in at : n <= m
  BY <1>2 DEF PlaceOf
<1>4. SUFFICES ASSUME at # {}
               PROVE  /\ PlaceOf(chars, p) \in Nat /\ PlaceOf(chars, p) + Len(p) <= Len(chars)
                      /\ chars[PlaceOf(chars, p) + 1] = p[1] /\ chars[PlaceOf(chars, p) + Len(p)] = p[Len(p)]
  BY <1>3
<1>5. Len(chars) \in Nat /\ at \subseteq Nat
  BY <1>1, <1>2
<1>6. PICK place : place = PlaceOf(chars, p)
  OBVIOUS
<1>7. place \in at
  <2>1. \E n \in at : \A m \in at : n <= m
    BY <1>4, <1>5, LeastNatural
  <2>2. QED
    BY <1>3, <1>4, <1>6, <2>1
<1>8. place \in Nat /\ place + Len(p) <= Len(chars) /\ Slice(chars, place, Len(p)) = p
  BY <1>1, <1>2, <1>5, <1>7
<1>9. \A n \in 1 .. Len(p) : Slice(chars, place, Len(p))[n] = chars[place + n]
  <2>1. PICK len \in Nat : len = Len(p)
    BY <1>1
  <2>2. place \in Nat /\ place + len <= Len(chars)
    BY <1>8, <2>1
  <2>3. \A n \in 1 .. len : Slice(chars, place, len)[n] = chars[place + n]
    BY <2>2, SliceTyped
  <2>4. QED
    BY <2>1, <2>3
<1>10. chars[place + 1] = p[1] /\ chars[place + Len(p)] = p[Len(p)]
  BY <1>1, <1>8, <1>9
<1>11. QED
  BY <1>6, <1>8, <1>10

\* The earliest of the first n phrases.
EarliestOf(chars, phrases, n, hit) ==
  /\ hit = Nothing => \A k \in 1 .. n : PlaceOf(chars, phrases[k]) = Nothing
  /\ hit # Nothing =>
       /\ hit \in PhraseHits /\ hit.at = PlaceOf(chars, hit.phrase) /\ hit.at # Nothing
       /\ \E k \in 1 .. n : hit.phrase = phrases[k]
       /\ \A k \in 1 .. n : PlaceOf(chars, phrases[k]) # Nothing => hit.at <= PlaceOf(chars, phrases[k])
Hearing(chars, phrases, last, f) ==
  f = [n \in 0 .. last |-> IF n = 0 THEN Nothing ELSE Earlier(f[n - 1], PlaceOf(chars, phrases[n]), phrases[n])]

LEMMA PhrasesAre ==
  ASSUME NEW phrases \in Seq(AllPhrases)
  PROVE  /\ Len(phrases) \in Nat /\ \A n \in 1 .. Len(phrases) : phrases[n] \in AllPhrases
         /\ ToSet(phrases) = {phrases[n] : n \in 1 .. Len(phrases)}
<1>1. DOMAIN phrases = 1 .. Len(phrases)
  OBVIOUS
<1>2. QED
  BY <1>1 DEF ToSet

LEMMA EarlierTyped ==
  ASSUME NEW D, NEW chars \in Seq(D), NEW phrases \in Seq(AllPhrases), NEW n \in 1 .. Len(phrases), NEW m \in OptionOf(PhraseHits)
  PROVE  Earlier(m, PlaceOf(chars, phrases[n]), phrases[n]) \in OptionOf(PhraseHits)
<1>1. phrases[n] \in AllPhrases
  BY PhrasesAre
<1>2. PlaceOf(chars, phrases[n]) # Nothing => PlaceOf(chars, phrases[n]) \in Nat
  BY <1>1, PlaceSound
<1>3. PlaceOf(chars, phrases[n]) # Nothing =>
        [at |-> PlaceOf(chars, phrases[n]), phrase |-> phrases[n]] \in PhraseHits
  BY <1>1, <1>2 DEF PhraseHits
<1>4. QED
  BY <1>3 DEF Earlier, OptionOf

LEMMA HearingExists ==
  ASSUME NEW D, NEW chars \in Seq(D), NEW phrases \in Seq(AllPhrases)
  PROVE  \E f : Hearing(chars, phrases, Len(phrases), f)
<1>1. PICK V : V = OptionOf(PhraseHits)
  OBVIOUS
<1>2. PICK last \in Nat : last = Len(phrases)
  BY PhrasesAre
<1>3. PICK step : step = [x \in (1 .. last) \X V |-> Earlier(x[2], PlaceOf(chars, phrases[x[1]]), phrases[x[1]])]
  OBVIOUS
<1>4. ASSUME NEW n \in 1 .. last, NEW m \in V
      PROVE  /\ step[<<n, m>>] = Earlier(m, PlaceOf(chars, phrases[n]), phrases[n])
             /\ Earlier(m, PlaceOf(chars, phrases[n]), phrases[n]) \in V
  <2>1. step[<<n, m>>] = Earlier(m, PlaceOf(chars, phrases[n]), phrases[n])
    BY <1>3
  <2>2. QED
    BY <1>1, <1>2, <2>1, EarlierTyped
<1>5. step \in [(1 .. last) \X V -> V]
  BY <1>3, <1>4
<1>6. Nothing \in V
  BY <1>1 DEF OptionOf
<1>7. PICK f : FoldOf(V, Nothing, last, step, f)
  BY <1>5, <1>6, FoldExists
<1>8. ASSUME NEW n \in 1 .. last
      PROVE  f[n] = Earlier(f[n - 1], PlaceOf(chars, phrases[n]), phrases[n])
  <2>1. f[n - 1] \in V
    BY <1>7 DEF FoldOf
  <2>2. QED
    BY <1>4, <1>7, <2>1 DEF FoldOf
<1>9. \A n \in 0 .. last : f[n] = IF n = 0 THEN Nothing ELSE Earlier(f[n - 1], PlaceOf(chars, phrases[n]), phrases[n])
  BY <1>7, <1>8 DEF FoldOf
<1>10. QED
  BY <1>2, <1>7, <1>9 DEF Hearing, FoldOf

LEMMA FirstHitSound ==
  ASSUME NEW D, NEW chars \in Seq(D), NEW phrases \in Seq(AllPhrases)
  PROVE  EarliestOf(chars, phrases, Len(phrases), FirstPhraseHit(chars, phrases))
<1>1. PICK last \in Nat : last = Len(phrases)
  BY PhrasesAre
<1>2. PICK f : f = CHOOSE g : Hearing(chars, phrases, last, g)
  OBVIOUS
<1>3. Hearing(chars, phrases, last, f)
  BY <1>1, <1>2, HearingExists
<1>4. FirstPhraseHit(chars, phrases) = f[last]
  BY <1>1, <1>2 DEF FirstPhraseHit, Hearing
<1>5. PICK S : S = {n \in 0 .. last : EarliestOf(chars, phrases, n, f[n])}
  OBVIOUS
<1>6. 0 \in S
  <2>1. f[0] = Nothing
    BY <1>3 DEF Hearing
  <2>2. QED
    BY <1>5, <2>1 DEF EarliestOf
<1>7. ASSUME NEW n \in 1 .. last, n - 1 \in S
      PROVE  n \in S
  <2>1. PICK old : old = f[n - 1]
    OBVIOUS
  <2>2. PICK p \in AllPhrases : p = phrases[n]
    BY <1>1, PhrasesAre
  <2>3. PICK at : at = PlaceOf(chars, p)
    OBVIOUS
  <2>4. f[n] = Earlier(old, at, p)
    BY <1>3, <2>1, <2>2, <2>3 DEF Hearing
  <2>5. EarliestOf(chars, phrases, n - 1, old)
    BY <1>5, <1>7, <2>1
  <2>6. \A k \in 1 .. n : PlaceOf(chars, phrases[k]) # Nothing => PlaceOf(chars, phrases[k]) \in Nat
    <3>1. \A k \in 1 .. n : k \in 1 .. Len(phrases) /\ phrases[k] \in AllPhrases
      BY <1>1, PhrasesAre
    <3>2. QED
      BY <3>1, PlaceSound
  <2>7. \A k \in 1 .. n : k \in 1 .. n - 1 \/ k = n
    OBVIOUS
  <2>8. old # Nothing => old.at \in Nat
    BY <2>5 DEF EarliestOf, PhraseHits
  <2>9. CASE at # Nothing /\ (old # Nothing => at < old.at)
    <3>1. PICK new : new = [at |-> at, phrase |-> p]
      OBVIOUS
    <3>2. f[n] = new
      BY <2>4, <2>9, <3>1 DEF Earlier
    <3>3. at \in Nat
      BY <2>2, <2>3, <2>6, <2>9
    <3>4. new \in PhraseHits /\ new.at = at /\ new.phrase = p
      BY <3>1, <3>3 DEF PhraseHits
    <3>5. ASSUME NEW k \in 1 .. n, PlaceOf(chars, phrases[k]) # Nothing
          PROVE  at <= PlaceOf(chars, phrases[k])
      <4>1. CASE k = n
        BY <2>2, <2>3, <3>3, <4>1
      <4>2. CASE k # n
        <5>1. old # Nothing /\ old.at <= PlaceOf(chars, phrases[k])
          BY <2>5, <2>7, <3>5, <4>2 DEF EarliestOf
        <5>2. QED
          BY <2>6, <2>8, <2>9, <3>3, <3>5, <5>1
      <4>3. QED
        BY <4>1, <4>2
    <3>6. new # Nothing
      BY <3>4, SoundsAssumption
    <3>7. \E k \in 1 .. n : new.phrase = phrases[k]
      BY <2>2, <3>4
    <3>8. EarliestOf(chars, phrases, n, new)
      BY <2>3, <2>9, <3>4, <3>5, <3>6, <3>7 DEF EarliestOf
    <3>9. QED
      BY <1>5, <3>2, <3>8
  <2>10. CASE ~(at # Nothing /\ (old # Nothing => at < old.at))
    <3>1. f[n] = old
      BY <2>4, <2>10 DEF Earlier
    <3>2. CASE old = Nothing
      <4>1. at = Nothing
        BY <2>10, <3>2
      <4>2. \A k \in 1 .. n - 1 : PlaceOf(chars, phrases[k]) = Nothing
        BY <2>5, <3>2 DEF EarliestOf
      <4>3. EarliestOf(chars, phrases, n, old)
        BY <2>2, <2>3, <2>7, <3>2, <4>1, <4>2 DEF EarliestOf
      <4>4. QED
        BY <1>5, <3>1, <4>3
    <3>3. CASE old # Nothing
      <4>1. at # Nothing => old.at <= at
        <5>1. SUFFICES ASSUME at # Nothing
                       PROVE  old.at <= at
          OBVIOUS
        <5>2. at \in Nat
          BY <2>2, <2>3, <2>6, <5>1
        <5>3. QED
          BY <2>8, <2>10, <3>3, <5>1, <5>2
      <4>2. \A k \in 1 .. n - 1 : PlaceOf(chars, phrases[k]) # Nothing => old.at <= PlaceOf(chars, phrases[k])
        BY <2>5, <3>3 DEF EarliestOf
      <4>3. \A k \in 1 .. n : PlaceOf(chars, phrases[k]) # Nothing => old.at <= PlaceOf(chars, phrases[k])
        BY <2>2, <2>3, <2>7, <4>1, <4>2
      <4>4. EarliestOf(chars, phrases, n, old)
        BY <2>5, <3>3, <4>3 DEF EarliestOf
      <4>5. QED
        BY <1>5, <3>1, <4>4
    <3>4. QED
      BY <3>2, <3>3
  <2>11. QED
    BY <2>9, <2>10
<1>8. last \in S
  <2>1. \A n \in 0 .. last : n \in S
    BY <1>6, <1>7, SetInduction
  <2>2. last \in 0 .. last
    BY <1>1
  <2>3. QED
    BY <2>1, <2>2
<1>9. QED
  BY <1>1, <1>4, <1>5, <1>8

LEMMA RangesOf ==
  ASSUME NEW j, NEW n \in Nat, JoinOf(j, n)
  PROVE  /\ DOMAIN j.ranges = 1 .. n /\ ToSet(j.ranges) = {j.ranges[i] : i \in 1 .. n}
         /\ \A i \in 1 .. n : j.ranges[i].seg = i /\ j.ranges[i].at \in Nat
<1>1. j.ranges \in Seq([seg : Nat, at : Nat]) /\ Len(j.ranges) = n
  BY DEF JoinOf, Pieces
<1>2. DOMAIN j.ranges = 1 .. n
  BY <1>1
<1>3. QED
  BY <1>2 DEF ToSet, JoinOf

\* A place belongs to one segment.
LEMMA OwnerIs ==
  ASSUME NEW j, NEW n \in Nat, JoinOf(j, n), NEW i \in 1 .. n, NEW p \in Nat, j.ranges[i].at <= p, p < Ends(j, i),
         \A k \in 1 .. n : Len(said[k]) \in Nat
  PROVE  (CHOOSE r \in ToSet(j.ranges) : r.at <= p /\ p < r.at + Len(said[r.seg])) = j.ranges[i]
<1>1. \A k \in 1 .. n : /\ j.ranges[k].seg = k /\ j.ranges[k].at \in Nat
                        /\ Ends(j, k) = j.ranges[k].at + Len(said[j.ranges[k].seg]) /\ Ends(j, k) \in Nat
  BY RangesOf DEF Ends
<1>2. j.ranges[i] \in ToSet(j.ranges)
  BY RangesOf
<1>3. ASSUME NEW r \in ToSet(j.ranges), r.at <= p /\ p < r.at + Len(said[r.seg])
      PROVE  r = j.ranges[i]
  <2>1. PICK k \in 1 .. n : r = j.ranges[k]
    BY RangesOf
  <2>2. j.ranges[k].at <= p /\ p < Ends(j, k)
    BY <1>1, <1>3, <2>1
  <2>3. ~(i < k)
    <3>1. i < k => Ends(j, i) <= j.ranges[k].at
      BY DEF JoinOf
    <3>2. QED
      BY <1>1, <2>2, <3>1
  <2>4. ~(k < i)
    <3>1. k < i => Ends(j, k) <= j.ranges[i].at
      BY DEF JoinOf
    <3>2. QED
      BY <1>1, <2>2, <3>1
  <2>5. k = i
    BY <2>3, <2>4
  <2>6. QED
    BY <2>1, <2>5
<1>4. j.ranges[i].at <= p /\ p < j.ranges[i].at + Len(said[j.ranges[i].seg])
  BY <1>1
<1>5. QED
  BY <1>2, <1>3, <1>4

\* The last segment that has begun at a place.
LEMMA LastBegunIs ==
  ASSUME NEW begun \in SUBSET Nat, NEW i \in begun, \A m \in begun : m <= i
  PROVE  begun # {} /\ (CHOOSE k \in begun : \A m \in begun : m <= k) = i
<1>1. \A k \in begun : (\A m \in begun : m <= k) => k = i
  OBVIOUS
<1>2. QED
  BY <1>1

\* A phrase is placed at the segments that say it.
LEMMA SpanIs ==
  ASSUME NEW j, NEW n \in Nat, JoinOf(j, n), \A k \in 1 .. n : Len(said[k]) \in Nat,
         NEW at \in Nat, NEW len \in Nat \ {0}, at + len <= Len(j.text),
         j.text[at + 1] # Space, j.text[at + len] # Space
  PROVE  /\ LocalizeHit(j.ranges, at, len) =
              [from |-> Start((CHOOSE r \in ToSet(j.ranges) : r.at <= at /\ at < r.at + Len(said[r.seg])).seg),
               to |-> End((CHOOSE r \in ToSet(j.ranges) :
                             r.at <= at + len - 1 /\ at + len - 1 < r.at + Len(said[r.seg])).seg)]
         /\ LocalizeHit(j.ranges, at, len) \in Spans
<1>1. Len(j.text) \in Nat
  <2>1. j.text \in Seq(Chars)
    BY DEF JoinOf, Pieces
  <2>2. QED
    BY <2>1
<1>2. \A p \in 1 .. Len(j.text) : j.text[p] = Space \/ \E i \in 1 .. n : j.ranges[i].at < p /\ p <= Ends(j, i)
  BY DEF JoinOf
<1>3. \A k \in 1 .. n : j.ranges[k].seg = k /\ j.ranges[k].at \in Nat /\ Ends(j, k) \in Nat
  BY RangesOf DEF Ends
<1>4. PICK last \in Nat : last = at + len
  OBVIOUS
<1>5. at + 1 \in 1 .. Len(j.text) /\ last \in 1 .. Len(j.text)
  BY <1>1, <1>4
<1>6. PICK i \in 1 .. n : j.ranges[i].at < at + 1 /\ at + 1 <= Ends(j, i)
  BY <1>2, <1>5
<1>7. PICK e \in 1 .. n : j.ranges[e].at < last /\ last <= Ends(j, e)
  BY <1>2, <1>4, <1>5
<1>8. PICK before \in Nat : before = last - 1
  BY <1>4
<1>9. j.ranges[i].at <= at /\ at < Ends(j, i)
  BY <1>3, <1>6
<1>10. j.ranges[e].at <= before /\ before < Ends(j, e) /\ j.ranges[e].at <= last
  BY <1>3, <1>7, <1>8
<1>11. (CHOOSE r \in ToSet(j.ranges) : r.at <= at /\ at < r.at + Len(said[r.seg])) = j.ranges[i]
  BY <1>9, OwnerIs
<1>12. (CHOOSE r \in ToSet(j.ranges) : r.at <= before /\ before < r.at + Len(said[r.seg])) = j.ranges[e]
  BY <1>10, OwnerIs
<1>13. \A k \in 1 .. n : i < k => at < j.ranges[k].at
  <2>1. \A k \in 1 .. n : i < k => Ends(j, i) <= j.ranges[k].at
    BY DEF JoinOf
  <2>2. QED
    BY <1>3, <1>9, <2>1
<1>14. \A k \in 1 .. n : e < k => last < j.ranges[k].at
  <2>1. Ends(j, e) > 0
    BY <1>3, <1>10
  <2>2. \A k \in 1 .. n : e < k => Ends(j, e) < j.ranges[k].at
    BY <2>1 DEF JoinOf
  <2>3. QED
    BY <1>3, <1>7, <2>2
<1>15. PICK begun : begun = {k \in DOMAIN j.ranges : j.ranges[k].at <= at}
  OBVIOUS
<1>16. PICK ended : ended = {k \in DOMAIN j.ranges : j.ranges[k].at <= last}
  OBVIOUS
<1>17. begun # {} /\ (CHOOSE k \in begun : \A m \in begun : m <= k) = i
  <2>1. DOMAIN j.ranges = 1 .. n
    BY RangesOf
  <2>2. begun \in SUBSET Nat /\ i \in begun /\ \A m \in begun : m <= i
    BY <1>9, <1>13, <1>15, <1>3, <2>1
  <2>3. QED
    BY <2>2, LastBegunIs
<1>18. ended # {} /\ (CHOOSE k \in ended : \A m \in ended : m <= k) = e
  <2>1. DOMAIN j.ranges = 1 .. n
    BY RangesOf
  <2>2. ended \in SUBSET Nat /\ e \in ended /\ \A m \in ended : m <= e
    <3>1. e \in ended
      BY <1>10, <1>16, <2>1
    <3>2. ended \subseteq 1 .. n
      BY <1>16, <2>1
    <3>3. \A m \in ended : m <= e
      <4>1. \A k \in 1 .. n : j.ranges[k].at <= last => ~(last < j.ranges[k].at)
        BY <1>3
      <4>2. \A m \in ended : m \in 1 .. n /\ ~(e < m)
        BY <1>14, <1>16, <3>2, <4>1
      <4>3. QED
        BY <4>2
    <3>4. QED
      BY <3>1, <3>2, <3>3
  <2>3. QED
    BY <2>2, LastBegunIs
<1>19. LocalizeHit(j.ranges, at, len) = [from |-> Start(j.ranges[i].seg), to |-> End(j.ranges[e].seg)]
  BY <1>4, <1>15, <1>16, <1>17, <1>18 DEF LocalizeHit
<1>20. LocalizeHit(j.ranges, at, len) \in Spans
  <2>1. Start(j.ranges[i].seg) = 2 * i - 2 /\ End(j.ranges[e].seg) = 2 * e - 1
    BY <1>3 DEF Start, End
  <2>2. 2 * i - 2 \in Nat /\ 2 * e - 1 \in Nat
    OBVIOUS
  <2>3. QED
    BY <1>19, <2>1, <2>2 DEF Spans
<1>21. before = at + len - 1
  BY <1>4, <1>8
<1>22. QED
  BY <1>11, <1>12, <1>19, <1>20, <1>21

\* Whatever is said.
LEMMA SaidPlaced == SaidTyped => SpokenPlaced
<1> SUFFICES ASSUME SaidTyped
             PROVE  SpokenPlaced
  OBVIOUS
<1>1. PICK n \in Nat : n = Cardinality(InWindow) /\ n <= Len(said)
  BY WindowIsFirst
<1>2. SUFFICES ASSUME NEW chars, NEW heeded, chars = Joined.text,
                      heeded = {t \in DOMAIN PhraseLists : \E p \in ToSet(PhraseLists[t]) : PlaceOf(chars, p) # Nothing},
                      "I" \notin ToSet(chars)
               PROVE  /\ ScanForPhrase = Nothing <=> heeded = {}
                      /\ \A t \in heeded :
                           (\A u \in heeded : t <= u) =>
                             \E p \in ToSet(PhraseLists[t]) :
                               /\ PlaceOf(chars, p) # Nothing /\ ScanForPhrase = Saying(PlaceOf(chars, p), p)
                               /\ \A q \in ToSet(PhraseLists[t]) :
                                    PlaceOf(chars, q) # Nothing => PlaceOf(chars, p) <= PlaceOf(chars, q)
  BY Zenon DEF SpokenPlaced
<1> DEFINE j == Joined
<1>3. JoinOf(j, n)
  BY <1>1, JoinedIs
<1>4. chars \in Seq(Chars)
  BY <1>2, <1>3 DEF JoinOf, Pieces
<1>5. \A k \in 1 .. n : Len(said[k]) \in Nat
  <2>1. \A k \in 1 .. n : said[k] \in Seq(Letters)
    BY <1>1 DEF SaidTyped
  <2>2. QED
    BY <2>1
<1>6. PICK hits : hits = {t \in DOMAIN PhraseLists : FirstPhraseHit(Lower(chars), PhraseLists[t]) # Nothing}
  OBVIOUS
<1>7. PICK hit : hit = FirstPhraseHit(Lower(chars), PhraseLists[CHOOSE t \in hits : \A u \in hits : t <= u])
  OBVIOUS
<1>8. ScanForPhrase = IF hits = {} THEN Nothing ELSE LocalizeHit(j.ranges, hit.at, Len(hit.phrase))
  BY <1>2, <1>6, <1>7 DEF ScanForPhrase
<1>9. \A w \in Int : SegmentAt(w) = CHOOSE r \in ToSet(j.ranges) : r.at <= w /\ w < r.at + Len(said[r.seg])
  BY DEF SegmentAt
<1>10. chars = j.text
  BY <1>2
<1> HIDE DEF j
<1>11. Lower(chars) = chars
  <2>1. \A k \in DOMAIN chars : chars[k] # "I"
    BY <1>2, <1>4 DEF ToSet
  <2>2. [k \in DOMAIN chars |-> IF chars[k] = "I" THEN <<"i", "'">> ELSE <<chars[k]>>] = [k \in DOMAIN chars |-> <<chars[k]>>]
    BY <2>1
  <2>3. QED
    BY <1>4, <2>2, FlattenSingles DEF Lower
<1>12. DOMAIN PhraseLists \subseteq Nat /\ \A t \in DOMAIN PhraseLists : PhraseLists[t] \in Seq(AllPhrases)
  <2>1. PICK S : S = Seq(AllPhrases)
    OBVIOUS
  <2>2. PhraseLists \in Seq(S)
    BY <2>1, SoundsAssumption
  <2>3. DOMAIN PhraseLists \subseteq Nat /\ \A t \in DOMAIN PhraseLists : PhraseLists[t] \in S
    BY <2>2
  <2>4. QED
    BY <2>1, <2>3
<1>13. \A t \in DOMAIN PhraseLists :
         EarliestOf(chars, PhraseLists[t], Len(PhraseLists[t]), FirstPhraseHit(chars, PhraseLists[t]))
  BY <1>4, <1>12, FirstHitSound
<1>14. hits = heeded
  <2>1. ASSUME NEW t \in DOMAIN PhraseLists
        PROVE  FirstPhraseHit(chars, PhraseLists[t]) # Nothing
                 <=> \E p \in ToSet(PhraseLists[t]) : PlaceOf(chars, p) # Nothing
    <3>1. PICK phrases \in Seq(AllPhrases) : phrases = PhraseLists[t]
      BY <1>12
    <3>2. PICK found : found = FirstPhraseHit(chars, phrases)
      OBVIOUS
    <3>3. EarliestOf(chars, phrases, Len(phrases), found)
      BY <1>13, <3>1, <3>2
    <3>4. ToSet(phrases) = {phrases[i] : i \in 1 .. Len(phrases)}
      BY PhrasesAre
    <3>5. found = Nothing => \A p \in ToSet(phrases) : PlaceOf(chars, p) = Nothing
      BY <3>3, <3>4 DEF EarliestOf
    <3>6. found # Nothing => \E p \in ToSet(phrases) : PlaceOf(chars, p) # Nothing
      BY <3>3, <3>4 DEF EarliestOf
    <3>7. QED
      BY <3>1, <3>2, <3>5, <3>6
  <2>2. hits = {t \in DOMAIN PhraseLists : FirstPhraseHit(chars, PhraseLists[t]) # Nothing}
    BY <1>6, <1>11
  <2>3. QED
    BY <1>2, <2>1, <2>2, Zenon
<1>15. CASE hits = {}
  BY <1>8, <1>14, <1>15
<1>16. CASE hits # {}
  <2>1. PICK t \in hits : t \in DOMAIN PhraseLists /\ \A u \in hits : t <= u
    <3>1. hits \subseteq DOMAIN PhraseLists /\ hits \subseteq Nat
      BY <1>2, <1>12, <1>14
    <3>2. QED
      BY <1>16, <3>1, LeastNatural
  <2>2. \A u \in hits : (\A v \in hits : u <= v) => u = t
    BY <1>2, <1>12, <1>14, <2>1
  <2>3. PICK phrases \in Seq(AllPhrases) : phrases = PhraseLists[t]
    BY <1>12, <2>1
  <2>4. hit = FirstPhraseHit(chars, phrases) /\ hit # Nothing
    <3>1. (CHOOSE u \in hits : \A v \in hits : u <= v) = t
      BY <2>1, <2>2
    <3>2. hit = FirstPhraseHit(chars, phrases)
      BY <1>7, <1>11, <2>3, <3>1
    <3>3. FirstPhraseHit(chars, PhraseLists[t]) # Nothing
      BY <1>6, <1>11, <2>1
    <3>4. QED
      BY <2>3, <3>2, <3>3
  <2>5. EarliestOf(chars, phrases, Len(phrases), hit)
    BY <1>13, <2>1, <2>3, <2>4
  <2>6. PICK p \in ToSet(phrases) : p = hit.phrase /\ p \in AllPhrases
    <3>1. PICK k \in 1 .. Len(phrases) : hit.phrase = phrases[k]
      BY <2>4, <2>5 DEF EarliestOf
    <3>2. phrases[k] \in ToSet(phrases) /\ phrases[k] \in AllPhrases
      BY PhrasesAre
    <3>3. QED
      BY <3>1, <3>2
  <2>7. PICK len \in Nat \ {0} : len = Len(p)
    <3>1. p \in Seq(ToSet(p)) /\ p # <<>>
      BY <2>6, SoundsAssumption
    <3>2. QED
      BY <3>1, EmptyTyped
  <2>8. hit.at = PlaceOf(chars, p) /\ PlaceOf(chars, p) # Nothing
    BY <2>4, <2>5, <2>6 DEF EarliestOf
  <2>9. PICK at \in Nat : at = PlaceOf(chars, p)
    BY <1>4, <2>6, <2>8, PlaceSound
  <2>10. at + len <= Len(chars) /\ chars[at + 1] = p[1] /\ chars[at + len] = p[len]
    BY <1>4, <2>6, <2>7, <2>8, <2>9, PlaceSound
  <2>11. p[1] # Space /\ p[len] # Space
    BY <2>6, <2>7, SoundsAssumption
  <2>12. /\ LocalizeHit(j.ranges, at, len) =
               [from |-> Start((CHOOSE r \in ToSet(j.ranges) : r.at <= at /\ at < r.at + Len(said[r.seg])).seg),
                to |-> End((CHOOSE r \in ToSet(j.ranges) :
                              r.at <= at + len - 1 /\ at + len - 1 < r.at + Len(said[r.seg])).seg)]
         /\ LocalizeHit(j.ranges, at, len) \in Spans
    <3>1. at + len <= Len(j.text) /\ j.text[at + 1] # Space /\ j.text[at + len] # Space
      BY <1>10, <2>10, <2>11
    <3>2. QED
      BY <1>3, <1>5, <3>1, SpanIs
  <2>13. ScanForPhrase = LocalizeHit(j.ranges, at, len)
    BY <1>8, <1>16, <2>6, <2>7, <2>8, <2>9
  <2>14. ScanForPhrase # Nothing
    BY <2>12, <2>13, SoundsAssumption
  <2>15. \A q \in ToSet(phrases) : PlaceOf(chars, q) # Nothing => at <= PlaceOf(chars, q)
    BY <2>4, <2>5, <2>8, <2>9, PhrasesAre DEF EarliestOf
  <2>16. PICK before \in Int : before = at + len - 1
    OBVIOUS
  <2>17. /\ SegmentAt(at) = CHOOSE r \in ToSet(j.ranges) : r.at <= at /\ at < r.at + Len(said[r.seg])
         /\ SegmentAt(before) = CHOOSE r \in ToSet(j.ranges) : r.at <= before /\ before < r.at + Len(said[r.seg])
    BY <1>9
  <2>18. ScanForPhrase = Saying(at, p)
    BY <2>7, <2>12, <2>13, <2>16, <2>17 DEF Saying
  <2>19. \E q \in ToSet(PhraseLists[t]) :
           /\ PlaceOf(chars, q) # Nothing /\ ScanForPhrase = Saying(PlaceOf(chars, q), q)
           /\ \A other \in ToSet(PhraseLists[t]) :
                PlaceOf(chars, other) # Nothing => PlaceOf(chars, q) <= PlaceOf(chars, other)
    BY <2>3, <2>6, <2>8, <2>9, <2>15, <2>18
  <2>20. QED
    BY <1>14, <1>16, <2>2, <2>14, <2>19
<1>17. QED
  BY <1>15, <1>16

(* Jingles are found where their documentation has them found, and a spoken  *)
(* jingle is placed at the segments that say it: for any windows, jingles,   *)
(* transcripts and phrases.                                                  *)
THEOREM SoundsAreFound == SoInit /\ [][SoStep]_soVars => [](JinglesFound /\ SpokenPlaced)
<1>1. HeardTyped /\ SaidTyped => JinglesFound /\ SpokenPlaced
  BY HeardFound, SaidPlaced
<1>2. HeardTyped /\ SaidTyped /\ [SoStep]_soVars => (HeardTyped /\ SaidTyped)'
  BY HeardStays
<1>3. QED
  BY <1>1, <1>2, HeardBegins, PTL

-----------------------------------------------------------------------------
(* --- Titles of Excerpts -------------------------------------------------- *)

\* The tokens of a text without tags.
Plain == Tokens \ Tags
LEMMA PlainAre ==
  /\ \A t \in Plain : t \in Names \/ t = "said" \/ t = "." \/ t = ","
  /\ "said" \notin Names /\ "." \notin Names /\ "," \notin Names
  /\ \A t \in Names : t # "said" /\ t # "." /\ t # ","
  BY ExcerptsAssumption, Zenon DEF Plain, Tokens, Words
LEMMA MarksDiffer == "." # "," /\ "." # "said" /\ "," # "said"
  OBVIOUS

Progress == [counted : Seq(Seq(Names)), run : [words : Seq(Names), opens : BOOLEAN], ended : BOOLEAN]
LEMMA FlushTyped ==
  ASSUME NEW c \in Seq(Seq(Names)), NEW r \in [words : Seq(Names), opens : BOOLEAN]
  PROVE  /\ Flushed(c, r) \in Seq(Seq(Names))
         /\ Flushed(c, r) = IF r.words = <<>> \/ (Len(r.words) = 1 /\ r.opens) THEN c ELSE Append(c, r.words)
  BY DEF Flushed
LEMMA NoRunTyped == NoRun \in [words : Seq(Names), opens : BOOLEAN] /\ NoRun.words = <<>>
  BY DEF NoRun
LEMMA RestTyped ==
  ASSUME NEW s \in Progress
  PROVE  \A e \in {TRUE, FALSE, s.ended} :
           [counted |-> Flushed(s.counted, s.run), run |-> NoRun, ended |-> e] \in Progress
<1>1. PICK c \in Seq(Seq(Names)) : c = Flushed(s.counted, s.run)
  BY FlushTyped DEF Progress
<1>2. PICK q \in [words : Seq(Names), opens : BOOLEAN] : q = NoRun
  BY NoRunTyped
<1>3. \A e \in {TRUE, FALSE, s.ended} : e \in BOOLEAN
  BY DEF Progress
<1>4. \A e \in BOOLEAN : [counted |-> c, run |-> q, ended |-> e] \in Progress
  BY DEF Progress
<1>5. QED
  BY <1>1, <1>2, <1>3, <1>4
LEMMA AtStop ==
  ASSUME NEW s \in Progress, NEW r, r = ReadToken(s, ".")
  PROVE  r = [counted |-> Flushed(s.counted, s.run), run |-> NoRun, ended |-> TRUE] /\ r \in Progress
<1>1. r = [counted |-> Flushed(s.counted, s.run), run |-> NoRun, ended |-> TRUE]
  BY MarksDiffer, PlainAre DEF ReadToken
<1>2. QED
  BY <1>1, RestTyped
LEMMA AtComma ==
  ASSUME NEW s \in Progress, NEW r, r = ReadToken(s, ",")
  PROVE  r = [counted |-> Flushed(s.counted, s.run), run |-> NoRun, ended |-> s.ended] /\ r \in Progress
<1>1. r = [s EXCEPT !.counted = Flushed(@, s.run), !.run = NoRun]
  BY MarksDiffer, PlainAre DEF ReadToken
<1>2. r = [counted |-> Flushed(s.counted, s.run), run |-> NoRun, ended |-> s.ended]
  BY <1>1 DEF Progress
<1>3. QED
  BY <1>2, RestTyped
LEMMA AtWord ==
  ASSUME NEW s \in Progress, NEW r, r = ReadToken(s, "said")
  PROVE  r = [counted |-> Flushed(s.counted, s.run), run |-> NoRun, ended |-> FALSE] /\ r \in Progress
<1>1. r = [counted |-> Flushed(s.counted, s.run), run |-> NoRun, ended |-> FALSE]
  BY MarksDiffer, PlainAre DEF ReadToken
<1>2. QED
  BY <1>1, RestTyped
LEMMA AtName ==
  ASSUME NEW s \in Progress, NEW t \in Names, NEW r, r = ReadToken(s, t)
  PROVE  /\ r = [counted |-> s.counted, ended |-> FALSE,
                 run |-> [words |-> Append(s.run.words, t),
                          opens |-> IF s.run.words = <<>> THEN s.ended ELSE s.run.opens]]
         /\ r \in Progress
<1>1. r = [s EXCEPT !.run = [words |-> Append(@.words, t), opens |-> IF @.words = <<>> THEN s.ended ELSE @.opens],
                    !.ended = FALSE]
  BY PlainAre DEF ReadToken
<1>2. r = [counted |-> s.counted, ended |-> FALSE,
           run |-> [words |-> Append(s.run.words, t), opens |-> IF s.run.words = <<>> THEN s.ended ELSE s.run.opens]]
  BY <1>1 DEF Progress
<1>3. [words |-> Append(s.run.words, t), opens |-> IF s.run.words = <<>> THEN s.ended ELSE s.run.opens]
        \in [words : Seq(Names), opens : BOOLEAN]
  BY DEF Progress
<1>4. QED
  BY <1>2, <1>3 DEF Progress

TextTyped == spine \in Seq(OptionOf(Seq(Tokens)))
ListsTyped == contents \in [nav : OptionOf(Seq({NoTitle, "nav"})), ncx : OptionOf(Seq({NoTitle, "ncx"}))]
LEMMA TextKept ==
  ASSUME TextTyped, ListsTyped, [ExbStep]_exbVars
  PROVE  TextTyped' /\ ListsTyped'
<1>1. CASE MoreText
  <2>1. ListsTyped'
    BY <1>1 DEF MoreText, ListsTyped
  <2>2. CASE \E d \in {<<>>, Nothing} : spine' = Append(spine, d)
    <3>1. \A d \in {<<>>, Nothing} : d \in OptionOf(Seq(Tokens))
      BY EmptyTyped DEF OptionOf
    <3>2. QED
      BY <2>1, <2>2, <3>1 DEF TextTyped
  <2>3. CASE /\ spine # <<>> /\ Last(spine) # Nothing
             /\ \E t \in Tokens : spine' = [spine EXCEPT ![Len(spine)] = Append(@, t)]
    <3>1. PICK n \in Nat : n = Len(spine) /\ n # 0
      BY <2>3, EmptyTyped DEF TextTyped
    <3>2. spine[n] \in Seq(Tokens)
      BY <2>3, <3>1 DEF Last, TextTyped, OptionOf
    <3>3. PICK t \in Tokens : spine' = [spine EXCEPT ![n] = Append(spine[n], t)]
      BY <2>3, <3>1
    <3>4. Append(spine[n], t) \in OptionOf(Seq(Tokens))
      BY <3>2, AppendTyped DEF OptionOf
    <3>5. QED
      BY <2>1, <3>1, <3>3, <3>4 DEF TextTyped
  <2>4. QED
    BY <1>1, <2>2, <2>3 DEF MoreText
<1>2. CASE MoreTitles
  <2>1. TextTyped'
    BY <1>2 DEF MoreTitles, TextTyped
  <2>2. PICK list \in {"nav", "ncx"} :
          \E t \in {NoTitle, list} : contents' = [contents EXCEPT ![list] = IF @ = Nothing THEN <<>> ELSE Append(@, t)]
    BY <1>2 DEF MoreTitles
  <2>3. CASE list = "nav"
    <3>1. PICK t \in {NoTitle, "nav"} :
            contents' = [contents EXCEPT !.nav = IF contents.nav = Nothing THEN <<>> ELSE Append(contents.nav, t)]
      BY <2>2, <2>3
    <3>2. (IF contents.nav = Nothing THEN <<>> ELSE Append(contents.nav, t)) \in OptionOf(Seq({NoTitle, "nav"}))
      BY EmptyTyped DEF OptionOf, ListsTyped
    <3>3. QED
      BY <2>1, <3>1, <3>2 DEF ListsTyped
  <2>4. CASE list = "ncx"
    <3>1. PICK t \in {NoTitle, "ncx"} :
            contents' = [contents EXCEPT !.ncx = IF contents.ncx = Nothing THEN <<>> ELSE Append(contents.ncx, t)]
      BY <2>2, <2>4
    <3>2. (IF contents.ncx = Nothing THEN <<>> ELSE Append(contents.ncx, t)) \in OptionOf(Seq({NoTitle, "ncx"}))
      BY EmptyTyped DEF OptionOf, ListsTyped
    <3>3. QED
      BY <2>1, <3>1, <3>2 DEF ListsTyped
  <2>5. QED
    BY <2>2, <2>3, <2>4
<1>3. CASE UNCHANGED exbVars
  BY <1>3 DEF exbVars, TextTyped, ListsTyped
<1>4. QED
  BY <1>1, <1>2, <1>3 DEF ExbStep

(* Titles                                                                    *)
LEMMA TitlesDiffer == NoTitle # "nav" /\ NoTitle # "ncx"
  BY Zenon DEF NoTitle
LEMMA TitlesAre ==
  ASSUME NEW name \in {"nav", "ncx"}, NEW list \in OptionOf(Seq({NoTitle, name}))
  PROVE  /\ Titles(list) \in Seq({name})
         /\ Titles(list) # <<>> <=> list # Nothing /\ name \in ToSet(list)
<1>1. CASE list = Nothing
  BY <1>1, EmptyTyped DEF Titles
<1>2. CASE list # Nothing
  <2>1. list \in Seq({NoTitle, name}) /\ name # NoTitle
    BY <1>2, TitlesDiffer DEF OptionOf
  <2>2. PICK S : S = ToSet(list) \ {NoTitle}
    OBVIOUS
  <2>3. Titles(list) = Sifted(list, S)
    BY <1>2, <2>2 DEF Titles
  <2>4. Sifted(list, S) \in Seq({NoTitle, name}) /\ ToSet(Sifted(list, S)) = ToSet(list) \cap S
    BY <2>1, SiftedIs, SiftedSet
  <2>5. PICK t \in Seq({NoTitle, name}) : t = Titles(list)
    BY <2>3, <2>4
  <2>6. \A n \in 1 .. Len(t) : t[n] = name
    <3>1. \A n \in 1 .. Len(t) : t[n] \in S
      BY <2>3, <2>4, <2>5 DEF ToSet
    <3>2. QED
      BY <2>2, <2>5, <3>1
  <2>7. t \in Seq({name})
    BY <2>6
  <2>8. name \in ToSet(list) => Len(t) # 0
    <3>1. name \in ToSet(list) => name \in ToSet(t)
      BY <2>1, <2>2, <2>3, <2>4, <2>5
    <3>2. name \in ToSet(t) => Len(t) # 0
      BY DEF ToSet
    <3>3. QED
      BY <3>1, <3>2
  <2>9. Len(t) # 0 => name \in ToSet(list)
    <3>1. Len(t) # 0 => t[1] \in ToSet(t)
      BY DEF ToSet
    <3>2. QED
      BY <2>3, <2>4, <2>5, <2>6, <3>1
  <2>10. QED
    BY <1>2, <2>5, <2>7, <2>8, <2>9, EmptyTyped
<1>3. QED
  BY <1>1, <1>2
LEMMA TitlesTrue == ListsTyped => TitlesFound
<1> SUFFICES ASSUME ListsTyped
             PROVE  TitlesFound
  OBVIOUS
<1>1. /\ Titles(contents.nav) \in Seq({"nav"})
      /\ Titles(contents.nav) # <<>> <=> contents.nav # Nothing /\ "nav" \in ToSet(contents.nav)
  BY TitlesAre DEF ListsTyped
<1>2. /\ Titles(contents.ncx) \in Seq({"ncx"})
      /\ Titles(contents.ncx) # <<>> <=> contents.ncx # Nothing /\ "ncx" \in ToSet(contents.ncx)
  BY TitlesAre DEF ListsTyped
<1>3. ReadChapterTitles # <<>> <=>
       \E list \in {"nav", "ncx"} : contents[list] # Nothing /\ list \in ToSet(contents[list])
  BY <1>1, <1>2 DEF ReadChapterTitles
<1>4. \A n \in DOMAIN ReadChapterTitles : ReadChapterTitles[n] = ReadChapterTitles[1]
  <2>1. \A s : s \in Seq({"nav"}) \/ s \in Seq({"ncx"}) => \A n \in DOMAIN s : s[n] = s[1]
    OBVIOUS
  <2>2. QED
    BY <1>1, <1>2, <2>1 DEF ReadChapterTitles
<1>5. QED
  BY <1>3, <1>4 DEF TitlesFound

-----------------------------------------------------------------------------
(* --- Runs of names ------------------------------------------------------- *)

LEMMA InitialMoves ==
  ASSUME NEW D, NEW page \in Seq(D), NEW n \in 1 .. Len(page)
  PROVE  /\ page[n] = "." => SentenceInitial(page, n + 1)
         /\ page[n] = "," => (SentenceInitial(page, n + 1) <=> SentenceInitial(page, n))
         /\ page[n] # "." /\ page[n] # "," => ~SentenceInitial(page, n + 1)
<1>1. PICK comma, stop : comma = "," /\ stop = "." /\ stop # comma
  BY MarksDiffer
<1>2. PICK new : new = {k \in 1 .. (n + 1) - 1 : page[k] # comma}
  OBVIOUS
<1>3. PICK old : old = {k \in 1 .. n - 1 : page[k] # comma}
  OBVIOUS
<1>4. SentenceInitial(page, n + 1) <=> (new = {} \/ \E k \in new : page[k] = stop /\ \A j \in new : j <= k)
  BY <1>1, <1>2, Zenon DEF SentenceInitial
<1>5. SentenceInitial(page, n) <=> (old = {} \/ \E k \in old : page[k] = stop /\ \A j \in old : j <= k)
  BY <1>1, <1>3, Zenon DEF SentenceInitial
<1>6. \A k : k \in 1 .. (n + 1) - 1 <=> k \in 1 .. n - 1 \/ k = n
  OBVIOUS
<1>7. \A k \in new : k \in Int /\ k <= n
  BY <1>2
<1>8. page[n] = stop => SentenceInitial(page, n + 1)
  BY <1>1, <1>2, <1>4, <1>6, <1>7
<1>9. page[n] = comma => new = old
  BY <1>2, <1>3, <1>6
<1>10. page[n] # stop /\ page[n] # comma => ~SentenceInitial(page, n + 1)
  <2>1. SUFFICES ASSUME page[n] # stop, page[n] # comma
                 PROVE  ~SentenceInitial(page, n + 1)
    OBVIOUS
  <2>2. n \in new
    BY <1>2, <1>6, <2>1
  <2>3. \A k \in new : n <= k => k = n
    BY <1>7
  <2>4. QED
    BY <1>4, <2>1, <2>2, <2>3
<1>11. QED
  BY <1>1, <1>4, <1>5, <1>8, <1>9, <1>10, Zenon
LEMMA FirstIsInitial == \A page : SentenceInitial(page, 1)
  BY DEF SentenceInitial

\* Candidates are the surfaces of a set of runs, each once.
Lists(page, c, S) ==
  \E f \in [1 .. Len(c) -> S] :
    /\ \A i, k \in 1 .. Len(c) : f[i] = f[k] => i = k
    /\ \A r \in S : \E k \in 1 .. Len(c) : f[k] = r
    /\ \A k \in 1 .. Len(c) : c[k] = Surface(page, f[k])
ClosedBy(page, m) == {r \in CountedRuns(page) : r[2] <= m}
RunSoFar(page, n, w, run) ==
  /\ Len(run.words) = w /\ w <= n
  /\ \A k \in 1 .. w : run.words[k] = page[n - w + k]
  /\ w < n => page[n - w] \notin Names
  /\ w > 0 => (run.opens = TRUE <=> SentenceInitial(page, n - w + 1))
ReadSoFar(page, n, s) ==
  /\ s \in Progress
  /\ s.ended = TRUE <=> SentenceInitial(page, n + 1)
  /\ \E w \in Nat : RunSoFar(page, n, w, s.run) /\ Lists(page, s.counted, ClosedBy(page, n - w))

LEMMA OneMoreListed ==
  ASSUME NEW page, NEW c \in Seq(Seq(Names)), NEW S, Lists(page, c, S), NEW r, r \notin S,
         NEW name \in Seq(Names), name = Surface(page, r), NEW T, T = S \cup {r}
  PROVE  Lists(page, Append(c, name), T)
<1>1. PICK N \in Nat : N = Len(c)
  OBVIOUS
<1>2. PICK f \in [1 .. N -> S] :
        /\ \A i, k \in 1 .. N : f[i] = f[k] => i = k
        /\ \A x \in S : \E k \in 1 .. N : f[k] = x
        /\ \A k \in 1 .. N : c[k] = Surface(page, f[k])
  BY <1>1, Zenon DEF Lists
<1>3. PICK d \in Seq(Seq(Names)) : d = Append(c, name)
  BY AppendTyped
<1>4. Len(d) = N + 1 /\ d[N + 1] = name /\ \A k \in 1 .. N : d[k] = c[k]
  BY <1>1, <1>3, AppendTyped
<1>5. PICK g : g = [k \in 1 .. N + 1 |-> IF k = N + 1 THEN r ELSE f[k]]
  OBVIOUS
<1>6. \A k \in 1 .. N + 1 : k \in 1 .. N \/ k = N + 1
  OBVIOUS
<1>7. g[N + 1] = r /\ \A k \in 1 .. N : g[k] = f[k] /\ f[k] \in S
  BY <1>5
<1>8. g \in [1 .. N + 1 -> T]
  BY <1>5, <1>6, <1>7
<1>9. \A i, k \in 1 .. N + 1 : g[i] = g[k] => i = k
  BY <1>2, <1>6, <1>7
<1>10. \A x \in T : \E k \in 1 .. N + 1 : g[k] = x
  <2>1. \A x \in S : \E k \in 1 .. N + 1 : g[k] = x
    <3>1. SUFFICES ASSUME NEW x \in S
                   PROVE  \E k \in 1 .. N + 1 : g[k] = x
      OBVIOUS
    <3>2. PICK k \in 1 .. N : f[k] = x
      BY <1>2
    <3>3. g[k] = x
      BY <1>7, <3>2, Zenon
    <3>4. k \in 1 .. N + 1
      BY <3>2
    <3>5. QED
      BY <3>3, <3>4, Zenon
  <2>2. QED
    BY <1>7, <2>1
<1>11. \A k \in 1 .. N + 1 : d[k] = Surface(page, g[k])
  BY <1>2, <1>4, <1>6, <1>7
<1>12. QED
  <2>1. g \in [1 .. Len(d) -> T] /\ (\A i, k \in 1 .. Len(d) : g[i] = g[k] => i = k)
        /\ (\A x \in T : \E k \in 1 .. Len(d) : g[k] = x) /\ (\A k \in 1 .. Len(d) : d[k] = Surface(page, g[k]))
    BY <1>4, <1>8, <1>9, <1>10, <1>11
  <2>2. Lists(page, d, T)
    BY <2>1, Zenon DEF Lists
  <2>3. QED
    BY <1>3, <2>2

\* A run that ends at a place, and the runs that end behind its beginning.
LEMMA LastRun ==
  ASSUME NEW page \in Seq(Plain), NEW n \in 0 .. Len(page), NEW w \in 1 .. n, NEW run \in [words : Seq(Names), opens : BOOLEAN],
         RunSoFar(page, n, w, run), n = Len(page) \/ page[n + 1] \notin Names,
         NEW r, r = <<n - w + 1, n>>
  PROVE  /\ r \in Runs(page) /\ run.words = Surface(page, r)
         /\ \A q \in Runs(page) : n - w < q[2] /\ q[2] <= n => q = r
<1>1. PICK L \in Nat : L = Len(page) /\ DOMAIN page = 1 .. L
  OBVIOUS
<1>2. PICK words \in Seq(Names) : words = run.words
  OBVIOUS
<1>3. Len(words) = w /\ (\A k \in 1 .. w : words[k] = page[n - w + k]) /\ (w < n => page[n - w] \notin Names)
  BY <1>2 DEF RunSoFar
<1>4. n \in 1 .. L /\ n - w + 1 \in 1 .. L
  BY <1>1
<1>5. \A m \in n - w + 1 .. n : page[m] \in Names
  <2>1. SUFFICES ASSUME NEW m \in n - w + 1 .. n
                 PROVE  page[m] \in Names
    OBVIOUS
  <2>2. PICK k \in 1 .. w : m = n - w + k
    <3>1. m - (n - w) \in 1 .. w /\ m = n - w + (m - (n - w))
      OBVIOUS
    <3>2. QED
      BY <3>1
  <2>3. words[k] \in Names
    BY <1>3
  <2>4. QED
    BY <1>3, <2>2, <2>3
<1>6. r \in Runs(page)
  <2>1. r \in (DOMAIN page) \X (DOMAIN page) /\ r[1] = n - w + 1 /\ r[2] = n
    BY <1>1, <1>4
  <2>2. r[1] <= r[2] /\ \A m \in r[1] .. r[2] : page[m] \in Names
    BY <1>5, <2>1
  <2>3. r[1] = 1 \/ page[r[1] - 1] \notin Names
    <3>1. CASE w = n
      BY <2>1, <3>1
    <3>2. CASE w < n
      <4>1. r[1] - 1 = n - w
        BY <2>1
      <4>2. QED
        BY <1>3, <3>2, <4>1
    <3>3. QED
      BY <3>1, <3>2
  <2>4. r[2] = Len(page) \/ page[r[2] + 1] \notin Names
    BY <2>1
  <2>5. QED
    BY <2>1, <2>2, <2>3, <2>4 DEF Runs
<1>7. words = Surface(page, r)
  <2>1. PICK grown \in Seq(Plain) : grown = SubSeq(page, n - w + 1, n)
    <3>1. n - w + 1 \in Nat \ {0} /\ n - w + 1 <= n + 1 /\ n <= Len(page) /\ n \in Nat
      BY <1>1, <1>4
    <3>2. QED
      BY <3>1, PartTyped
  <2>2. Len(grown) = w /\ \A k \in 1 .. w : grown[k] = page[n - w + k]
    <3>1. Len(grown) = n - (n - w + 1) + 1
          /\ \A k \in 1 .. n - (n - w + 1) + 1 : grown[k] = page[(n - w + 1) + k - 1]
      BY <1>1, <1>4, <2>1, PartTyped
    <3>2. n - (n - w + 1) + 1 = w /\ \A k \in 1 .. w : (n - w + 1) + k - 1 = n - w + k
      OBVIOUS
    <3>3. QED
      BY <3>1, <3>2
  <2>3. words = grown
    <3>1. words \in Seq(Names) /\ Len(words) = w /\ \A k \in 1 .. w : words[k] = page[n - w + k]
      BY <1>3
    <3>2. Len(words) = Len(grown) /\ \A k \in 1 .. Len(words) : words[k] = grown[k]
      BY <2>2, <3>1
    <3>3. QED
      BY <2>1, <3>1, <3>2, SameList
  <2>4. QED
    BY <2>1, <2>3 DEF Surface
<1>8. ASSUME NEW q \in Runs(page), n - w < q[2], q[2] <= n
      PROVE  q = r
  <2>1. /\ q \in (DOMAIN page) \X (DOMAIN page) /\ q[1] <= q[2] /\ \A m \in q[1] .. q[2] : page[m] \in Names
        /\ q[1] = 1 \/ page[q[1] - 1] \notin Names
        /\ q[2] = Len(page) \/ page[q[2] + 1] \notin Names
    BY DEF Runs
  <2>2. q[1] \in 1 .. L /\ q[2] \in 1 .. L /\ q = <<q[1], q[2]>>
    BY <1>1, <2>1
  <2>3. PICK a \in 1 .. L : a = q[1]
    BY <2>2
  <2>4. PICK b \in 1 .. L : b = q[2]
    BY <2>2
  <2>5. b = n
    <3>1. SUFFICES ASSUME b # n
                   PROVE  FALSE
      OBVIOUS
    <3>2. b + 1 \in n - w + 1 .. n /\ b # L
      BY <1>8, <2>4, <3>1, <1>4
    <3>3. QED
      BY <1>1, <1>5, <2>1, <2>4, <3>2
  <2>6. a = n - w + 1
    <3>1. CASE a > n - w + 1
      <4>1. a - 1 \in n - w + 1 .. n /\ a # 1
        BY <2>1, <2>3, <2>4, <2>5, <3>1, <1>4
      <4>2. QED
        BY <1>5, <2>1, <2>3, <4>1
    <3>2. CASE a < n - w + 1
      <4>1. n - w \in a .. b /\ w < n
        BY <2>3, <2>5, <3>2, <1>4
      <4>2. QED
        BY <1>3, <2>1, <2>3, <2>4, <4>1
    <3>3. QED
      BY <3>1, <3>2
  <2>7. QED
    BY <2>2, <2>3, <2>4, <2>5, <2>6
<1>9. QED
  BY <1>2, <1>6, <1>7, <1>8

-----------------------------------------------------------------------------
(* --- Names, text by text ------------------------------------------------- *)

LEMMA RunsOf ==
  ASSUME NEW page \in Seq(Plain), NEW r \in Runs(page)
  PROVE  /\ r[1] \in 1 .. Len(page) /\ r[2] \in 1 .. Len(page) /\ r[1] <= r[2] /\ page[r[2]] \in Names
<1>1. DOMAIN page = 1 .. Len(page)
  OBVIOUS
<1>2. r[1] \in DOMAIN page /\ r[2] \in DOMAIN page /\ r[1] <= r[2] /\ \A m \in r[1] .. r[2] : page[m] \in Names
  BY DEF Runs
<1>3. r[2] \in r[1] .. r[2]
  BY <1>1, <1>2
<1>4. QED
  BY <1>1, <1>2, <1>3

\* Flushing a run that ends lists it, if it counts.
LEMMA FlushLists ==
  ASSUME NEW page \in Seq(Plain), NEW n \in 0 .. Len(page), NEW s, ReadSoFar(page, n, s),
         n = Len(page) \/ page[n + 1] \notin Names
  PROVE  Lists(page, Flushed(s.counted, s.run), ClosedBy(page, n))
<1>1. PICK c \in Seq(Seq(Names)) : c = s.counted
  BY DEF ReadSoFar, Progress
<1>2. PICK run \in [words : Seq(Names), opens : BOOLEAN] : run = s.run
  BY DEF ReadSoFar, Progress
<1>3. PICK w \in Nat : RunSoFar(page, n, w, run) /\ Lists(page, c, ClosedBy(page, n - w))
  BY <1>1, <1>2 DEF ReadSoFar
<1>4. PICK words \in Seq(Names) : words = run.words /\ Len(words) = w
  BY <1>3 DEF RunSoFar
<1>5. Flushed(c, run) = IF words = <<>> \/ (Len(words) = 1 /\ run.opens) THEN c ELSE Append(c, words)
  BY <1>4, FlushTyped
<1>6. words = <<>> <=> w = 0
  BY <1>4, EmptyTyped
<1>7. CASE w = 0
  BY <1>1, <1>2, <1>3, <1>5, <1>6, <1>7
<1>8. CASE w # 0
  <2>1. w \in 1 .. n
    BY <1>3, <1>8 DEF RunSoFar
  <2>2. PICK r : r = <<n - w + 1, n>>
    OBVIOUS
  <2>3. /\ r \in Runs(page) /\ words = Surface(page, r)
        /\ \A q \in Runs(page) : n - w < q[2] /\ q[2] <= n => q = r
    BY <1>3, <1>4, <2>1, <2>2, LastRun
  <2>4. PICK old : old = ClosedBy(page, n - w)
    OBVIOUS
  <2>5. PICK new : new = ClosedBy(page, n)
    OBVIOUS
  <2>6. r[1] = n - w + 1 /\ r[2] = n
    BY <2>2
  <2>7. r \notin old
    BY <2>1, <2>4, <2>6 DEF ClosedBy
  <2>8. \A q : q \in new <=> q \in old \/ (q = r /\ r \in CountedRuns(page))
    <3>1. \A q \in CountedRuns(page) : q \in Runs(page)
      BY DEF CountedRuns
    <3>2. \A q \in Runs(page) : q[2] \in Nat
      BY RunsOf
    <3>3. \A q \in CountedRuns(page) : q[2] <= n <=> q[2] <= n - w \/ q = r
      BY <2>1, <2>3, <2>6, <3>1, <3>2
    <3>4. QED
      BY <2>4, <2>5, <3>3 DEF ClosedBy
  <2>9. r \in CountedRuns(page) <=> ~(w = 1 /\ run.opens)
    <3>1. r[1] # r[2] <=> w # 1
      BY <2>1, <2>6
    <3>2. run.opens = TRUE <=> SentenceInitial(page, r[1])
      BY <1>3, <1>8, <2>6 DEF RunSoFar
    <3>3. run.opens \in BOOLEAN
      OBVIOUS
    <3>4. r \in CountedRuns(page) <=> (r[1] # r[2] \/ ~SentenceInitial(page, r[1]))
      BY <2>3 DEF CountedRuns
    <3>5. QED
      BY <3>1, <3>2, <3>3, <3>4
  <2>10. CASE w = 1 /\ run.opens
    <3>1. new = old
      BY <2>8, <2>9, <2>10
    <3>2. Flushed(c, run) = c
      BY <1>4, <1>5, <2>10
    <3>3. QED
      BY <1>1, <1>2, <1>3, <2>4, <2>5, <3>1, <3>2
  <2>11. CASE ~(w = 1 /\ run.opens)
    <3>1. new = old \cup {r}
      BY <2>8, <2>9, <2>11
    <3>2. Flushed(c, run) = Append(c, words)
      BY <1>4, <1>5, <1>6, <1>8, <2>11
    <3>3. Lists(page, c, old)
      BY <1>3, <2>4
    <3>4. Lists(page, Append(c, words), new)
      BY <2>3, <2>7, <3>1, <3>3, OneMoreListed
    <3>5. QED
      BY <1>1, <1>2, <2>5, <3>2, <3>4
  <2>12. QED
    BY <2>10, <2>11
<1>9. QED
  BY <1>7, <1>8

\* A sought that is no name.
LEMMA ReadsOther ==
  ASSUME NEW page \in Seq(Plain), NEW n \in Nat, n < Len(page), NEW s, ReadSoFar(page, n, s),
         NEW u, u = ReadToken(s, page[n + 1]), page[n + 1] \notin Names
  PROVE  ReadSoFar(page, n + 1, u)
<1>1. PICK t \in Plain : t = page[n + 1] /\ t \notin Names
  OBVIOUS
<1>2. s \in Progress /\ (s.ended = TRUE <=> SentenceInitial(page, n + 1))
  BY DEF ReadSoFar
<1>3. n \in 0 .. Len(page) /\ n + 1 \in 1 .. Len(page) /\ n + 1 \in 0 .. Len(page)
  OBVIOUS
<1>4. Lists(page, Flushed(s.counted, s.run), ClosedBy(page, n))
  BY <1>1, <1>3, FlushLists
<1>5. ClosedBy(page, n + 1) = ClosedBy(page, n)
  <2>1. \A q \in CountedRuns(page) : q[2] \in Nat /\ q[2] # n + 1
    BY <1>1, RunsOf DEF CountedRuns
  <2>2. \A q \in CountedRuns(page) : q[2] <= n + 1 <=> q[2] <= n
    BY <2>1
  <2>3. QED
    BY <2>2 DEF ClosedBy
<1>6. u \in Progress /\ u.run = NoRun /\ u.counted = Flushed(s.counted, s.run)
      /\ (u.ended = TRUE <=> SentenceInitial(page, n + 2))
  <2>1. /\ t = "." => SentenceInitial(page, n + 2)
        /\ t = "," => (SentenceInitial(page, n + 2) <=> SentenceInitial(page, n + 1))
        /\ t # "." /\ t # "," => ~SentenceInitial(page, n + 2)
    <3>1. PICK k \in 1 .. Len(page) : k = n + 1 /\ k + 1 = n + 2
      BY <1>3
    <3>2. page[k] = t
      BY <1>1, <3>1
    <3>3. QED
      BY <3>1, <3>2, InitialMoves, Zenon
  <2>2. CASE t = "."
    <3>1. u = [counted |-> Flushed(s.counted, s.run), run |-> NoRun, ended |-> TRUE] /\ u \in Progress
      BY <1>1, <1>2, <2>2, AtStop
    <3>2. SentenceInitial(page, n + 2)
      BY <2>1, <2>2, Zenon
    <3>3. QED
      BY <3>1, <3>2
  <2>3. CASE t = ","
    <3>1. u = [counted |-> Flushed(s.counted, s.run), run |-> NoRun, ended |-> s.ended] /\ u \in Progress
      BY <1>1, <1>2, <2>3, AtComma
    <3>2. SentenceInitial(page, n + 2) <=> SentenceInitial(page, n + 1)
      BY <2>1, <2>3, Zenon
    <3>3. QED
      BY <1>2, <3>1, <3>2
  <2>4. CASE t = "said"
    <3>1. u = [counted |-> Flushed(s.counted, s.run), run |-> NoRun, ended |-> FALSE] /\ u \in Progress
      BY <1>1, <1>2, <2>4, AtWord
    <3>2. ~SentenceInitial(page, n + 2)
      BY <2>1, <2>4, MarksDiffer, Zenon
    <3>3. QED
      BY <3>1, <3>2
  <2>5. QED
    BY <1>1, <2>2, <2>3, <2>4, PlainAre
<1>7. RunSoFar(page, n + 1, 0, u.run)
  <2>1. Len(u.run.words) = 0
    BY <1>6, NoRunTyped, EmptyTyped
  <2>2. page[(n + 1) - 0] \notin Names
    BY <1>1
  <2>3. QED
    BY <2>1, <2>2 DEF RunSoFar
<1>8. Lists(page, u.counted, ClosedBy(page, (n + 1) - 0))
  <2>1. (n + 1) - 0 = n + 1
    OBVIOUS
  <2>2. QED
    BY <1>4, <1>5, <1>6, <2>1
<1>9. (n + 1) + 1 = n + 2 /\ 0 \in Nat
  OBVIOUS
<1>10. QED
  BY <1>6, <1>7, <1>8, <1>9, Zenon DEF ReadSoFar

\* A name lengthens the run.
LEMMA ReadsName ==
  ASSUME NEW page \in Seq(Plain), NEW n \in Nat, n < Len(page), NEW s, ReadSoFar(page, n, s),
         NEW u, u = ReadToken(s, page[n + 1]), page[n + 1] \in Names
  PROVE  ReadSoFar(page, n + 1, u)
<1>1. PICK t \in Names : t = page[n + 1]
  OBVIOUS
<1>2. s \in Progress /\ (s.ended = TRUE <=> SentenceInitial(page, n + 1))
  BY DEF ReadSoFar
<1>3. PICK w \in Nat : RunSoFar(page, n, w, s.run) /\ Lists(page, s.counted, ClosedBy(page, n - w))
  BY DEF ReadSoFar
<1>4. PICK words \in Seq(Names) : words = s.run.words
  BY <1>2 DEF Progress
<1>5. Len(words) = w /\ w <= n /\ (\A k \in 1 .. w : words[k] = page[n - w + k]) /\ (w < n => page[n - w] \notin Names)
      /\ (w > 0 => (s.run.opens = TRUE <=> SentenceInitial(page, n - w + 1)))
  BY <1>3, <1>4 DEF RunSoFar
<1>6. /\ u = [counted |-> s.counted, ended |-> FALSE,
              run |-> [words |-> Append(words, t), opens |-> IF words = <<>> THEN s.ended ELSE s.run.opens]]
      /\ u \in Progress
  <2>1. /\ u = [counted |-> s.counted, ended |-> FALSE,
                 run |-> [words |-> Append(s.run.words, t),
                          opens |-> IF s.run.words = <<>> THEN s.ended ELSE s.run.opens]]
        /\ u \in Progress
    BY <1>1, <1>2, AtName, Zenon
  <2>2. QED
    BY <1>4, <2>1
<1>7. PICK more \in Seq(Names) : more = Append(words, t) /\ Len(more) = w + 1 /\ more[w + 1] = t
                                 /\ \A k \in 1 .. w : more[k] = words[k]
  <2>1. PICK more \in Seq(Names) : more = Append(words, t)
    BY AppendTyped
  <2>2. /\ Len(more) = Len(words) + 1 /\ more[Len(words) + 1] = t
        /\ \A k \in 1 .. Len(words) : more[k] = words[k]
    BY <2>1, AppendTyped
  <2>3. Len(more) = w + 1 /\ more[w + 1] = t /\ \A k \in 1 .. w : more[k] = words[k]
    BY <1>5, <2>2
  <2>4. QED
    BY <2>1, <2>3
<1>8. \A k \in 1 .. w + 1 : more[k] = page[(n + 1) - (w + 1) + k]
  <2>1. SUFFICES ASSUME NEW k \in 1 .. w + 1
                 PROVE  more[k] = page[(n + 1) - (w + 1) + k]
    OBVIOUS
  <2>2. (n + 1) - (w + 1) + k = n - w + k
    BY <1>5
  <2>3. CASE k = w + 1
    <3>1. n - w + k = n + 1
      BY <1>5, <2>3
    <3>2. QED
      BY <1>1, <1>7, <2>2, <2>3, <3>1
  <2>4. CASE k # w + 1
    BY <1>5, <1>7, <2>2, <2>4
  <2>5. QED
    BY <2>3, <2>4
<1>9. (n + 1) - (w + 1) = n - w /\ (n + 1) - (w + 1) + 1 = n - w + 1 /\ w + 1 <= n + 1 /\ (w + 1 < n + 1 <=> w < n)
  BY <1>5
<1>10. u.run.opens = TRUE <=> SentenceInitial(page, n - w + 1)
  <2>1. CASE w = 0
    <3>1. words = <<>> /\ n - w + 1 = n + 1
      BY <1>5, <2>1, EmptyTyped
    <3>2. u.run.opens = s.ended
      BY <1>6, <3>1
    <3>3. QED
      BY <1>2, <3>1, <3>2
  <2>2. CASE w # 0
    <3>1. words # <<>> /\ w > 0
      BY <1>5, <2>2, EmptyTyped
    <3>2. u.run.opens = s.run.opens
      BY <1>6, <3>1
    <3>3. QED
      BY <1>5, <3>1, <3>2
  <2>3. QED
    BY <2>1, <2>2
<1>11. RunSoFar(page, n + 1, w + 1, u.run)
  <2>1. u.run.words = more
    BY <1>6, <1>7
  <2>2. QED
    BY <1>5, <1>7, <1>8, <1>9, <1>10, <2>1 DEF RunSoFar
<1>12. Lists(page, u.counted, ClosedBy(page, (n + 1) - (w + 1)))
  BY <1>3, <1>6, <1>9
<1>13. u.ended = FALSE /\ ~SentenceInitial(page, (n + 1) + 1)
  <2>1. PICK k \in 1 .. Len(page) : k = n + 1
    OBVIOUS
  <2>2. t # "." /\ t # "," /\ page[k] = t
    BY <1>1, <2>1, PlainAre
  <2>3. ~SentenceInitial(page, k + 1)
    BY <2>2, InitialMoves, Zenon
  <2>4. u.ended = FALSE
    BY <1>6
  <2>5. QED
    BY <2>1, <2>3, <2>4
<1>14. w + 1 \in Nat
  OBVIOUS
<1>15. QED
  BY <1>6, <1>11, <1>12, <1>13, <1>14 DEF ReadSoFar

-----------------------------------------------------------------------------
(* --- Names and titles ---------------------------------------------------- *)

\* The whole text.
Reads(page, last, at) ==
  at = [n \in 0 .. last |->
          IF n = 0 THEN [counted |-> <<>>, run |-> NoRun, ended |-> TRUE] ELSE ReadToken(at[n - 1], page[n])]
LEMMA ReadTyped ==
  ASSUME NEW s \in Progress, NEW t \in Plain
  PROVE  ReadToken(s, t) \in Progress
<1>1. t \in Names \/ t = "said" \/ t = "." \/ t = ","
  BY PlainAre
<1>2. CASE t \in Names
  BY <1>2, AtName
<1>3. CASE t = "said"
  BY <1>3, AtWord, Zenon
<1>4. CASE t = "."
  BY <1>4, AtStop, Zenon
<1>5. CASE t = ","
  BY <1>5, AtComma, Zenon
<1>6. QED
  BY <1>1, <1>2, <1>3, <1>4, <1>5
Unread == [counted |-> <<>>, run |-> NoRun, ended |-> TRUE]
LEMMA UnreadTyped == Unread \in Progress /\ Unread.counted = <<>> /\ Unread.run = NoRun /\ Unread.ended = TRUE
<1>1. PICK c \in Seq(Seq(Names)) : c = <<>>
  BY EmptyTyped
<1>2. PICK q \in [words : Seq(Names), opens : BOOLEAN] : q = NoRun
  BY NoRunTyped
<1>3. [counted |-> c, run |-> q, ended |-> TRUE] \in Progress
  BY DEF Progress
<1>4. Unread = [counted |-> c, run |-> q, ended |-> TRUE]
  BY <1>1, <1>2 DEF Unread
<1>5. QED
  BY <1>1, <1>2, <1>3, <1>4
LEMMA ReadsExist ==
  ASSUME NEW page \in Seq(Plain), NEW last \in Nat, last = Len(page)
  PROVE  \E at : Reads(page, last, at)
<1>1. PICK V : V = Progress
  OBVIOUS
<1>2. \A n \in 1 .. last, s \in V : ReadToken(s, page[n]) \in V
  BY <1>1, ReadTyped
<1>3. PICK step : step = [x \in (1 .. last) \X V |-> ReadToken(x[2], page[x[1]])]
  OBVIOUS
<1>4. \A n \in 1 .. last, s \in V : step[<<n, s>>] = ReadToken(s, page[n]) /\ step[<<n, s>>] \in V
  BY <1>2, <1>3
<1>5. step \in [(1 .. last) \X V -> V]
  BY <1>3, <1>4
<1>6. PICK base \in V : base = Unread
  BY <1>1, UnreadTyped
<1>7. PICK at : FoldOf(V, base, last, step, at)
  BY <1>5, FoldExists
<1>8. at \in [0 .. last -> V] /\ at[0] = base /\ \A n \in 1 .. last : at[n] = step[<<n, at[n - 1]>>]
  BY <1>7 DEF FoldOf
<1>9. ASSUME NEW n \in 0 .. last
      PROVE  at[n] = IF n = 0 THEN base ELSE ReadToken(at[n - 1], page[n])
  <2>1. CASE n = 0
    BY <1>8, <2>1
  <2>2. CASE n # 0
    <3>1. n \in 1 .. last /\ n - 1 \in 0 .. last
      BY <2>2
    <3>2. at[n - 1] \in V
      BY <1>8, <3>1
    <3>3. QED
      BY <1>4, <1>8, <2>2, <3>1, <3>2
  <2>3. QED
    BY <2>1, <2>2
<1>10. at = [n \in 0 .. last |-> at[n]]
  BY <1>8
<1>11. at = [n \in 0 .. last |-> IF n = 0 THEN base ELSE ReadToken(at[n - 1], page[n])]
  BY <1>9, <1>10
<1>12. QED
  BY <1>6, <1>11 DEF Reads, Unread

LEMMA CandidatesAre ==
  ASSUME NEW page \in Seq(Plain)
  PROVE  CountCandidates(page) \in Seq(Seq(Names)) /\ Lists(page, CountCandidates(page), CountedRuns(page))
<1>1. PICK last \in Nat : last = Len(page)
  OBVIOUS
<1>2. PICK at : at = CHOOSE f : Reads(page, last, f)
  OBVIOUS
<1>3. Reads(page, last, at)
  BY <1>1, <1>2, ReadsExist
<1>4. CountCandidates(page) = Flushed(at[last].counted, at[last].run)
  BY <1>1, <1>2 DEF CountCandidates, Reads
<1>5. \A n \in 0 .. last : at[n] = IF n = 0 THEN Unread ELSE ReadToken(at[n - 1], page[n])
  BY <1>3, Zenon DEF Reads, Unread
<1>6. PICK G : G = {n \in 0 .. last : ReadSoFar(page, n, at[n])}
  OBVIOUS
<1>7. 0 \in G
  <2>1. at[0] = Unread
    BY <1>5
  <2>2. RunSoFar(page, 0, 0, NoRun)
    BY NoRunTyped, EmptyTyped DEF RunSoFar
  <2>3. Lists(page, <<>>, ClosedBy(page, 0 - 0))
    <3>1. ClosedBy(page, 0) = {}
      <4>1. \A q \in CountedRuns(page) : ~(q[2] <= 0)
        BY RunsOf DEF CountedRuns
      <4>2. QED
        BY <4>1 DEF ClosedBy
    <3>2. Lists(page, <<>>, {})
      <4>1. PICK f : f = [k \in {} |-> 0]
        OBVIOUS
      <4>2. 1 .. Len(<<>>) = {} /\ f \in [{} -> {}]
        BY <4>1, EmptyTyped
      <4>3. QED
        BY <4>2 DEF Lists
    <3>3. 0 - 0 = 0
      OBVIOUS
    <3>4. QED
      BY <3>1, <3>2, <3>3
  <2>4. SentenceInitial(page, 0 + 1)
    BY FirstIsInitial
  <2>5. ReadSoFar(page, 0, at[0])
    BY <2>1, <2>2, <2>3, <2>4, UnreadTyped DEF ReadSoFar
  <2>6. QED
    BY <1>6, <2>5
<1>8. ASSUME NEW n \in 1 .. last, n - 1 \in G
      PROVE  n \in G
  <2>1. PICK m \in Nat : m = n - 1 /\ m + 1 = n
    OBVIOUS
  <2>2. ReadSoFar(page, m, at[m])
    BY <1>6, <1>8, <2>1
  <2>3. at[n] = ReadToken(at[m], page[m + 1]) /\ m < Len(page) /\ n \in 0 .. last
    BY <1>1, <1>5, <2>1
  <2>4. ReadSoFar(page, m + 1, at[n])
    <3>1. PICK s : s = at[m]
      OBVIOUS
    <3>2. PICK u : u = at[n]
      OBVIOUS
    <3>3. ReadSoFar(page, m, s) /\ u = ReadToken(s, page[m + 1])
      BY <2>2, <2>3, <3>1, <3>2
    <3>4. ReadSoFar(page, m + 1, u)
      BY <2>3, <3>3, ReadsName, ReadsOther, Zenon
    <3>5. QED
      BY <3>2, <3>4
  <2>5. QED
    BY <1>6, <2>1, <2>3, <2>4
<1>9. ReadSoFar(page, last, at[last])
  <2>1. \A n \in 0 .. last : n \in G
    BY <1>7, <1>8, SetInduction
  <2>2. QED
    BY <1>6, <2>1
<1>10. last \in 0 .. Len(page) /\ ClosedBy(page, last) = CountedRuns(page)
  <2>1. \A q \in CountedRuns(page) : q[2] <= last
    BY <1>1, RunsOf DEF CountedRuns
  <2>2. QED
    BY <1>1, <2>1 DEF ClosedBy
<1>11. Lists(page, Flushed(at[last].counted, at[last].run), ClosedBy(page, last))
  BY <1>1, <1>9, <1>10, FlushLists
<1>12. Flushed(at[last].counted, at[last].run) \in Seq(Seq(Names))
  BY <1>9, FlushTyped DEF ReadSoFar, Progress
<1>13. QED
  BY <1>4, <1>10, <1>11, <1>12

LEMMA DictIs ==
  ASSUME NEW page \in Seq(Plain)
  PROVE  ExtractNameDict(page) = NamesOf(page, MinFrequency)
<1>1. PICK c \in Seq(Seq(Names)) : c = CountCandidates(page)
  BY CandidatesAre
<1>2. PICK S : S = CountedRuns(page)
  OBVIOUS
<1>3. PICK N \in Nat : N = Len(c) /\ DOMAIN c = 1 .. N
  OBVIOUS
<1>4. PICK f \in [1 .. N -> S] :
        /\ \A i, k \in 1 .. N : f[i] = f[k] => i = k
        /\ \A r \in S : \E k \in 1 .. N : f[k] = r
        /\ \A k \in 1 .. N : c[k] = Surface(page, f[k])
  <2>1. Lists(page, c, S)
    BY <1>1, <1>2, CandidatesAre
  <2>2. QED
    BY <1>3, <2>1, Zenon DEF Lists
<1>5. ToSet(c) = {Surface(page, r) : r \in S}
  <2>1. ToSet(c) = {c[k] : k \in 1 .. N}
    BY <1>3 DEF ToSet
  <2>2. \A r \in S : \E k \in 1 .. N : c[k] = Surface(page, r)
    BY <1>4
  <2>3. \A k \in 1 .. N : f[k] \in S /\ c[k] = Surface(page, f[k])
    BY <1>4
  <2>4. \A x \in ToSet(c) : \E r \in S : x = Surface(page, r)
    BY <2>1, <2>3
  <2>5. \A r \in S : Surface(page, r) \in ToSet(c)
    BY <2>1, <2>2
  <2>6. QED
    BY <2>4, <2>5
<1>6. ASSUME NEW name
      PROVE  Cardinality({n \in DOMAIN c : c[n] = name}) = Cardinality({r \in S : Surface(page, r) = name})
  <2>1. PICK A : A = {n \in DOMAIN c : c[n] = name}
    OBVIOUS
  <2>2. PICK B : B = {r \in S : Surface(page, r) = name}
    OBVIOUS
  <2>3. IsFiniteSet(A)
    <3>1. IsFiniteSet(1 .. N) /\ A \subseteq 1 .. N
      BY <1>3, <2>1, FS_Interval
    <3>2. QED
      BY <3>1, FS_Subset
  <2>4. PICK g : g = [n \in A |-> f[n]]
    OBVIOUS
  <2>5. \A n \in A : n \in 1 .. N /\ g[n] = f[n] /\ f[n] \in S /\ Surface(page, f[n]) = name
    BY <1>3, <1>4, <2>1, <2>4
  <2>6. g \in [A -> B]
    BY <2>2, <2>4, <2>5
  <2>7. \A i, k \in A : g[i] = g[k] => i = k
    BY <1>4, <2>5
  <2>8. \A r \in B : \E n \in A : g[n] = r
    <3>1. SUFFICES ASSUME NEW r \in B
                   PROVE  \E n \in A : g[n] = r
      OBVIOUS
    <3>2. PICK k \in 1 .. N : f[k] = r
      BY <1>4, <2>2
    <3>3. k \in A
      BY <1>3, <1>4, <2>1, <2>2, <3>2
    <3>4. QED
      BY <2>5, <3>2, <3>3
  <2>9. Cardinality(B) = Cardinality(A)
    BY <2>3, <2>6, <2>7, <2>8, SameNumber
  <2>10. QED
    BY <2>1, <2>2, <2>9
<1>7. ExtractNameDict(page) =
        {name \in ToSet(c) : Cardinality({n \in DOMAIN c : c[n] = name}) >= MinFrequency}
  BY <1>1 DEF ExtractNameDict
<1>8. NamesOf(page, MinFrequency) =
        {name \in {Surface(page, r) : r \in S} : Cardinality({r \in S : Surface(page, r) = name}) >= MinFrequency}
  BY <1>2 DEF NamesOf
<1>9. \A name : Cardinality({n \in DOMAIN c : c[n] = name}) >= MinFrequency
                <=> Cardinality({r \in S : Surface(page, r) = name}) >= MinFrequency
  BY <1>6
<1>10. QED
  BY <1>5, <1>7, <1>8, <1>9, Zenon

(* What is walked and stripped is a text without tags.                       *)
LEMMA WalkedIsPlain ==
  ASSUME TextTyped
  PROVE  StripHtml(WalkSpine(spine)) \in Seq(Plain)
<1>1. PICK T : T = Seq(Tokens)
  OBVIOUS
<1>2. PICK docs \in Seq(OptionOf(T)) : docs = spine
  BY <1>1 DEF TextTyped
<1>3. PICK S : S = ToSet(docs) \ {Nothing}
  OBVIOUS
<1>4. PICK kept \in Seq(OptionOf(T)) : kept = Sifted(docs, S) /\ ToSet(kept) \subseteq S
  <2>1. Sifted(docs, S) \in Seq(OptionOf(T)) /\ ToSet(Sifted(docs, S)) = ToSet(docs) \cap S
    BY SiftedIs, SiftedSet
  <2>2. QED
    BY <2>1
<1>5. kept \in Seq(T)
  <2>1. \A n \in 1 .. Len(kept) : kept[n] \in S
    BY <1>4 DEF ToSet
  <2>2. \A n \in 1 .. Len(kept) : kept[n] \in T
    BY <1>3, <2>1 DEF OptionOf
  <2>3. QED
    BY <2>2
<1>6. PICK page \in Seq(Tokens) : page = WalkSpine(spine)
  <2>1. FlattenSeq(kept) \in Seq(Tokens)
    BY <1>1, <1>5, FlattenTyped
  <2>2. QED
    BY <1>2, <1>3, <1>4, <2>1 DEF WalkSpine
<1>7. \A from \in Nat \ {0} : \A sought :
        First(page, sought, from) # Nothing => First(page, sought, from) \in from .. Len(page)
  <2>1. SUFFICES ASSUME NEW from \in Nat \ {0}, NEW sought, First(page, sought, from) # Nothing
                 PROVE  First(page, sought, from) \in from .. Len(page)
    OBVIOUS
  <2>2. PICK at : at = {n \in from .. Len(page) : page[n] = sought}
    OBVIOUS
  <2>3. First(page, sought, from) = IF at = {} THEN Nothing ELSE CHOOSE n \in at : \A k \in at : n <= k
    BY <2>2 DEF First
  <2>4. at # {} /\ at \subseteq Nat
    BY <2>1, <2>2, <2>3
  <2>5. \E n \in at : \A k \in at : n <= k
    BY <2>4, LeastNatural
  <2>6. First(page, sought, from) \in at
    BY <2>3, <2>4, <2>5, Zenon
  <2>7. QED
    BY <2>2, <2>6
<1>8. PICK open : open = First(page, "<body>", 1)
  OBVIOUS
<1>9. LocateBody(page) \in Seq(Tokens)
  <2>1. CASE open = Nothing
    <3>1. LocateBody(page) = page
      BY <1>8, <2>1 DEF LocateBody
    <3>2. QED
      BY <3>1
  <2>2. CASE open # Nothing
    <3>1. open \in 1 .. Len(page)
      BY <1>7, <1>8, <2>2
    <3>2. PICK close : close = First(page, "</body>", open + 1)
      OBVIOUS
    <3>3. PICK to : to = IF close = Nothing THEN Len(page) ELSE close - 1
      OBVIOUS
    <3>4. LocateBody(page) = SubSeq(page, open + 1, to)
      BY <1>8, <2>2, <3>2, <3>3 DEF LocateBody
    <3>5. open + 1 \in Nat \ {0} /\ to \in Nat /\ open <= to /\ to <= Len(page)
      <4>1. CASE close = Nothing
        BY <3>1, <3>3, <4>1
      <4>2. CASE close # Nothing
        <5>1. open + 1 \in Nat \ {0}
          BY <3>1
        <5>2. close \in open + 1 .. Len(page)
          BY <1>7, <3>2, <4>2, <5>1
        <5>3. QED
          BY <3>1, <3>3, <4>2, <5>2
      <4>3. QED
        BY <4>1, <4>2
    <3>6. open + 1 <= to + 1
      BY <3>1, <3>5
    <3>7. QED
      BY <3>4, <3>5, <3>6, PartTyped
  <2>3. QED
    BY <2>1, <2>2
<1>10. PICK body \in Seq(Tokens) : body = LocateBody(page)
  BY <1>9
<1>11. PICK stripped \in Seq(Tokens) : stripped = Sifted(body, Plain) /\ ToSet(stripped) \subseteq Plain
  <2>1. Sifted(body, Plain) \in Seq(Tokens) /\ ToSet(Sifted(body, Plain)) = ToSet(body) \cap Plain
    BY SiftedIs, SiftedSet
  <2>2. QED
    BY <2>1
<1>12. stripped \in Seq(Plain)
  <2>1. \A n \in 1 .. Len(stripped) : stripped[n] \in Plain
    BY <1>11 DEF ToSet
  <2>2. QED
    BY <2>1
<1>13. QED
  BY <1>6, <1>10, <1>11, <1>12 DEF StripHtml, Plain

(* Every name that the text uses often enough is found and no other, and a   *)
(* title in either list is enough for titles: for any spine and any lists,   *)
(* whatever the words.                                                       *)
THEOREM NamesAndTitlesAreFound == ExbInit /\ [][ExbStep]_exbVars => [](NamesFound /\ TitlesFound)
<1>1. ExbInit => TextTyped /\ ListsTyped
  BY EmptyTyped DEF ExbInit, TextTyped, ListsTyped, OptionOf
<1>2. TextTyped /\ ListsTyped /\ [ExbStep]_exbVars => TextTyped' /\ ListsTyped'
  BY TextKept
<1>3. TextTyped /\ ListsTyped => NamesFound /\ TitlesFound
  <2>1. ASSUME TextTyped
        PROVE  NamesFound
    BY <2>1, WalkedIsPlain, DictIs DEF NamesFound, ExtractFromEpub
  <2>2. QED
    BY <2>1, TitlesTrue
<1>4. QED
  BY <1>1, <1>2, <1>3, PTL
=============================================================================
