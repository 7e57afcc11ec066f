--------------------------- MODULE PipelineProofs ---------------------------
(* Proofs about Pipeline, for any books, stages, DAG, buffers and bounds.    *)
EXTENDS Pipeline, TLAPS

\* What PipelineAssumption says of the bounds, the buffers and the scan plan.
LEMMA Bounds == MaxFaults \in Nat /\ MaxRequests \in Nat
  BY PipelineAssumption

LEMMA Buffers == \A t \in Tiers : Capacity[t] \in Nat /\ 0 <= Capacity[t]
  BY PipelineAssumption

LEMMA PlanStep ==
  \A i \in 1 .. Len(ScanPlan) :
    ScanPlan[i].stage \in Stages /\ ScanPlan[i].tier \in Tiers
<1>1. ScanPlan \in Seq(Submission)
  BY PipelineAssumption
<1>2. \A i \in 1 .. Len(ScanPlan) : ScanPlan[i] \in Submission
  BY <1>1
<1>3. QED
  BY <1>2 DEF Submission

\* What is left of a sequence with more than one element.
LEMMA TailOfMany ==
  ASSUME NEW T, NEW q \in Seq(T), Len(q) > 1
  PROVE  Tail(q) \in Seq(T) /\ Tail(q) # <<>>
<1>1. q # <<>>
  OBVIOUS
<1>2. Tail(q) \in Seq(T) /\ Len(Tail(q)) = Len(q) - 1 /\ Len(q) \in Nat
  BY <1>1
<1>3. Len(Tail(q)) # 0
  BY <1>2
<1>4. Len(<<>>) = 0
  OBVIOUS
<1>5. QED
  BY <1>2, <1>3, <1>4

\* The states the processes rest in are typed (worker, dispatcher, handlers).
LEMMA IdleTypes ==
  /\ Polling \in WorkerType /\ Polling.pc = "poll"
  /\ Asleep \in DispType /\ Asleep.pc = "sleep"
  /\ NoScan \in ScanType /\ NoScan.at = 0
  /\ NoRetry \in RetryType
<1>1. PICK b \in Books, s \in Stages : TRUE
  BY PipelineAssumption
<1>2. [book |-> b, stage |-> s] \in Job
  BY DEF Job
<1>3. AnyJob \in Job /\ AnyJob.book \in Books
  BY <1>2 DEF AnyJob, Job
<1>4. Len(ScanPlan) \in Nat
  BY PipelineAssumption
<1>5. QED
  BY <1>3, <1>4 DEF Polling, WorkerType, Asleep, DispType, NoScan, ScanType,
                    NoRetry, RetryType, NoRows, Status

\* A job sent to a channel with room keeps every channel a bounded sequence
\* of jobs (mpsc::Sender::send and try_send).
LEMMA SendType ==
  ASSUME TypeOK, NEW t \in Tiers, NEW j \in Job, HasRoom(t), Send(t, j)
  PROVE  /\ queue' \in [Tiers -> Seq(Job)]
         /\ \A u \in Tiers : Len(queue'[u]) <= Capacity[u]
<1>1. queue \in [Tiers -> Seq(Job)] /\ Capacity \in [Tiers -> Nat]
  BY PipelineAssumption DEF TypeOK
<1>2. Append(queue[t], j) \in Seq(Job)
  BY <1>1
<1>3. queue' \in [Tiers -> Seq(Job)]
  BY <1>1, <1>2 DEF Send
<1>4. ASSUME NEW u \in Tiers PROVE Len(queue'[u]) <= Capacity[u]
  <2>1. CASE u = t
    <3>1. queue'[u] = Append(queue[t], j)
      BY <1>1, <2>1 DEF Send
    <3>2. Len(queue'[u]) = Len(queue[t]) + 1
      BY <1>1, <3>1
    <3>3. QED
      BY <1>1, <2>1, <3>2 DEF HasRoom
  <2>2. CASE u # t
    BY <1>1, <2>2 DEF Send, TypeOK
  <2>3. QED
    BY <2>1, <2>2
<1>5. QED
  BY <1>3, <1>4

LEMMA TrySendType ==
  ASSUME TypeOK, NEW t \in Tiers, NEW j \in Job, TrySend(t, j)
  PROVE  /\ queue' \in [Tiers -> Seq(Job)]
         /\ \A u \in Tiers : Len(queue'[u]) <= Capacity[u]
<1>1. CASE HasRoom(t)
  BY <1>1, SendType DEF TrySend
<1>2. CASE ~HasRoom(t)
  BY <1>2 DEF TrySend, TypeOK
<1>3. QED
  BY <1>1, <1>2

\* A row write keeps the table typed, whether it reaches it or not.
LEMMA RowType ==
  ASSUME TypeOK, NEW b \in Books, NEW s \in Stages, NEW v \in Status,
         progress' = [progress EXCEPT ![b][s] = v]
  PROVE  progress' \in [Books -> [Stages -> Status]]
<1>1. progress \in [Books -> [Stages -> Status]]
  BY DEF TypeOK
<1>2. [progress[b] EXCEPT ![s] = v] \in [Stages -> Status]
  BY <1>1
<1>3. QED
  BY <1>1, <1>2

LEMMA WriteRowType ==
  ASSUME TypeOK, NEW b \in Books, NEW s \in Stages, NEW v \in Status,
         WriteRow(b, s, v)
  PROVE  /\ progress' \in [Books -> [Stages -> Status]]
         /\ faults' \in 0 .. MaxFaults
<1>1. CASE progress' = [progress EXCEPT ![b][s] = v] /\ UNCHANGED faults
  BY <1>1, RowType DEF TypeOK
<1>2. CASE faults < MaxFaults /\ faults' = faults + 1 /\ UNCHANGED progress
  BY <1>2, Bounds DEF TypeOK
<1>3. QED
  BY <1>1, <1>2 DEF WriteRow

\* A worker whose dependents are still to be considered is typed.
LEMMA DispatchingType ==
  ASSUME NEW j \in Job, NEW S \in SUBSET Stages
  PROVE  /\ Dispatching(j, S) \in WorkerType
         /\ Dispatching(j, S).pc = "dispatch" => Dispatching(j, S).todo # {}
  BY IdleTypes DEF Dispatching, WorkerType

\* The type invariant of the pipeline is inductive, one step per action.
LEMMA TypeStep == TypeOK /\ [Next]_vars => TypeOK'
<1> SUFFICES ASSUME TypeOK, [Next]_vars PROVE TypeOK'
  OBVIOUS
<1> USE DEF durable, clients
<1>1. ASSUME NEW t \in Tiers, Take(t) PROVE TypeOK'
  <2>1. queue[t] \in Seq(Job) /\ queue[t] # <<>>
    BY <1>1 DEF Take, Selectable, TypeOK
  <2>2. Head(queue[t]) \in Job /\ Tail(queue[t]) \in Seq(Job)
        /\ Len(Tail(queue[t])) = Len(queue[t]) - 1
    BY <2>1
  <2>3. queue' \in [Tiers -> Seq(Job)]
    BY <1>1, <2>2 DEF Take, TypeOK
  <2>4. \A u \in Tiers : Len(queue'[u]) <= Capacity[u]
    <3>1. TAKE u \in Tiers
    <3>2. Len(queue[u]) <= Capacity[u] /\ Len(queue[u]) \in Nat
          /\ Capacity[u] \in Nat
      BY PipelineAssumption DEF TypeOK
    <3>3. queue'[u] = IF u = t THEN Tail(queue[t]) ELSE queue[u]
      BY <1>1 DEF Take, TypeOK
    <3>4. QED
      BY <2>2, <3>2, <3>3
  <2>5. worker' \in WorkerType /\ worker'.pc = "start"
    BY <1>1, <2>2 DEF Take, TypeOK, WorkerType
  <2>6. QED
    BY <1>1, <2>3, <2>4, <2>5 DEF Take, TypeOK
<1>2. CASE Start
  <2>1. worker.job \in Job
    BY DEF TypeOK, WorkerType
  <2>2. progress' \in [Books -> [Stages -> Status]] /\ faults' \in 0 .. MaxFaults
    <3>1. WriteRow(worker.job.book, worker.job.stage, "running")
      BY <1>2 DEF Start
    <3>2. "running" \in Status
      BY DEF Status
    <3>3. QED
      BY <2>1, <3>1, <3>2, WriteRowType DEF Job
  <2>3. worker' \in WorkerType /\ worker'.pc = "run"
    BY <1>2 DEF Start, TypeOK, WorkerType
  <2>4. QED
    BY <1>2, <2>2, <2>3 DEF Start, TypeOK
<1>3. ASSUME NEW o \in Outcome, Finish(o) PROVE TypeOK'
  <2> DEFINE b == worker.job.book
             s == worker.job.stage
  <2>1. worker.job \in Job /\ b \in Books /\ s \in Stages
    BY DEF TypeOK, WorkerType, Job
  <2>2. StatusOf(o) \in Status
    BY DEF StatusOf, Status, Satisfied, Outcome
  <2>3. progress' \in [Books -> [Stages -> Status]] /\ faults' \in 0 .. MaxFaults
    <3>1. CASE UNCHANGED <<progress, faults>>
      BY <3>1 DEF TypeOK
    <3>2. CASE WriteRow(b, s, StatusOf(o))
      BY <2>1, <2>2, <3>2, WriteRowType
    <3>3. QED
      BY <1>3, <3>1, <3>2 DEF Finish
  <2>4. completed' \subseteq Books \X Stages
    BY <1>3, <2>1 DEF Finish, TypeOK
  <2>5. PICK S \in SUBSET Stages : worker' = Dispatching(worker.job, S)
    BY <1>3 DEF Finish, Dependents
  <2>6. worker' \in WorkerType /\ (worker'.pc = "dispatch" => worker'.todo # {})
    BY <2>1, <2>5, DispatchingType
  <2>7. QED
    BY <1>3, <2>3, <2>4, <2>6 DEF Finish, TypeOK
<1>4. CASE DispatchDependent
  <2>1. PICK s \in FirstInOrder(worker.todo) :
          /\ \/ TrySend("background", [book |-> worker.job.book, stage |-> s])
             \/ UNCHANGED queue
          /\ worker' = Dispatching(worker.job, worker.todo \ {s})
    BY <1>4 DEF DispatchDependent
  <2>2. worker.job \in Job /\ worker.todo \in SUBSET Stages /\ s \in Stages
    BY DEF TypeOK, WorkerType, FirstInOrder
  <2>3. [book |-> worker.job.book, stage |-> s] \in Job
    BY <2>2 DEF Job
  <2>4. queue' \in [Tiers -> Seq(Job)]
        /\ \A u \in Tiers : Len(queue'[u]) <= Capacity[u]
    BY <2>1, <2>3, TrySendType DEF TypeOK, Tiers
  <2>5. worker' \in WorkerType /\ (worker'.pc = "dispatch" => worker'.todo # {})
    BY <2>1, <2>2, DispatchingType
  <2>6. QED
    BY <1>4, <2>4, <2>5 DEF DispatchDependent, TypeOK
<1>5. CASE QuietElapses
  BY <1>5 DEF QuietElapses, TypeOK
<1>6. CASE TickReadsBooks
  <2>1. disp' \in DispType
    BY <1>6 DEF TickReadsBooks, TypeOK, DispType, OnDisk
  <2>2. QED
    BY <1>6, <2>1 DEF TickReadsBooks, TypeOK
<1>7. CASE TickReadsProgress
  <2>1. disp' \in DispType
    BY <1>7 DEF TickReadsProgress, TypeOK, DispType
  <2>2. QED
    BY <1>7, <2>1 DEF TickReadsProgress, TypeOK
<1>8. ASSUME NEW b \in Books, Reap(b) PROVE TypeOK'
  <2>1. NoRows \in [Stages -> Status]
    BY DEF NoRows, Status
  <2>2. progress' \in [Books -> [Stages -> Status]]
    BY <1>8, <2>1 DEF Reap, TypeOK
  <2>3. disp' \in DispType
    BY <1>8 DEF Reap, TypeOK, DispType
  <2>4. QED
    BY <1>8, <2>2, <2>3 DEF Reap, TypeOK
<1>9. CASE SweepBegins
  <2>1. disp' \in DispType
    BY <1>9 DEF SweepBegins, TypeOK, DispType
  <2>2. QED
    BY <1>9, <2>1 DEF SweepBegins, TypeOK
<1>10. ASSUME NEW b \in Books, SweepReads(b) PROVE TypeOK'
  <2>1. [s \in Stages |-> IF s \in Known THEN progress[b][s] ELSE "none"]
          \in [Stages -> Status]
    BY DEF TypeOK, Status
  <2>2. disp' \in DispType
    BY <1>10, <2>1 DEF SweepReads, TypeOK, DispType
  <2>3. QED
    BY <1>10, <2>2 DEF SweepReads, TypeOK
<1>11. CASE SweepSubmits
  <2>1. disp \in DispType
    BY DEF TypeOK
  <2>2. Swept(0) \in DispType /\ Swept(1) \in DispType
    <3>1. disp.todo \in SUBSET Books /\ disp.submitted + 0 \in Nat
          /\ disp.submitted + 1 \in Nat
      BY <2>1 DEF DispType
    <3>2. QED
      BY <3>1, IdleTypes DEF Swept, DispType
  <2>3. disp' \in DispType
    BY <1>11, <2>2, IdleTypes DEF SweepSubmits
  <2>4. queue' \in [Tiers -> Seq(Job)]
        /\ \A u \in Tiers : Len(queue'[u]) <= Capacity[u]
    <3>1. CASE UNCHANGED queue
      BY <3>1 DEF TypeOK
    <3>2. ASSUME NEW s \in FirstInOrder(Eligible(disp.rows)),
                 HasRoom("background"),
                 Send("background", [book |-> disp.book, stage |-> s])
          PROVE  /\ queue' \in [Tiers -> Seq(Job)]
                 /\ \A u \in Tiers : Len(queue'[u]) <= Capacity[u]
      <4>1. [book |-> disp.book, stage |-> s] \in Job
        BY <2>1 DEF DispType, Job, FirstInOrder, Eligible
      <4>2. QED
        BY <3>2, <4>1, SendType DEF Tiers
    <3>3. QED
      BY <1>11, <3>1, <3>2 DEF SweepSubmits
  <2>5. QED
    BY <1>11, <2>3, <2>4 DEF SweepSubmits, TypeOK
<1>12. CASE SweepEnds
  BY <1>12, IdleTypes DEF SweepEnds, TypeOK
<1>13. CASE TickFails
  BY <1>13, IdleTypes, Bounds DEF TickFails, TypeOK
<1>14. ASSUME NEW b \in Books, ScanInsert(b) PROVE TypeOK'
  <2>1. books' \in [Books -> BookState]
    BY <1>14 DEF ScanInsert, TypeOK, BookState
  <2>4. Append(scan.new, b) \in Seq(Books)
    BY DEF TypeOK, ScanType
  <2>2. scan' \in ScanType /\ scan'.at = 0
    BY <1>14, <2>4 DEF ScanInsert, TypeOK, ScanType
  <2>3. QED
    BY <1>14, <2>1, <2>2 DEF ScanInsert, TypeOK
<1>15. CASE ScanWalked
  <2>1. 1 \in 0 .. Len(ScanPlan)
    BY PipelineAssumption
  <2>2. scan' \in ScanType /\ scan'.new # <<>>
    BY <1>15, <2>1 DEF ScanWalked, TypeOK, ScanType
  <2>3. QED
    BY <1>15, <2>2 DEF ScanWalked, TypeOK
<1>16. CASE ScanSubmit
  <2> DEFINE step == ScanPlan[scan.at]
             job == [book |-> Head(scan.new), stage |-> step.stage]
  <2>1. scan \in ScanType /\ scan.at > 0 /\ scan.new # <<>>
    BY <1>16 DEF ScanSubmit, TypeOK
  <2>2. scan.new \in Seq(Books) /\ scan.at \in 0 .. Len(ScanPlan)
        /\ Len(ScanPlan) \in Nat
    BY <2>1, PipelineAssumption DEF ScanType
  <2>3. step.stage \in Stages /\ step.tier \in Tiers
    BY <2>1, <2>2, PlanStep
  <2>4. job \in Job
    BY <2>1, <2>2, <2>3 DEF Job
  <2>5. queue' \in [Tiers -> Seq(Job)]
        /\ \A u \in Tiers : Len(queue'[u]) <= Capacity[u]
    BY <1>16, <2>3, <2>4, SendType DEF ScanSubmit
  <2>6. scan' \in ScanType /\ (scan'.at > 0 => scan'.new # <<>>)
    <3>1. CASE scan.at < Len(ScanPlan)
      <4>1. scan' = [scan EXCEPT !.at = scan.at + 1]
        BY <1>16, <3>1 DEF ScanSubmit
      <4>2. QED
        BY <2>1, <2>2, <3>1, <4>1 DEF ScanType
    <3>2. CASE ~(scan.at < Len(ScanPlan)) /\ Len(scan.new) > 1
      <4>1. scan' = [new |-> Tail(scan.new), at |-> 1]
        BY <1>16, <3>2 DEF ScanSubmit
      <4>2. Tail(scan.new) \in Seq(Books) /\ Tail(scan.new) # <<>>
        BY <2>2, <3>2, TailOfMany
      <4>3. 1 \in 0 .. Len(ScanPlan)
        BY <2>1, <2>2
      <4>4. QED
        BY <4>1, <4>2, <4>3 DEF ScanType
    <3>3. CASE ~(scan.at < Len(ScanPlan)) /\ ~(Len(scan.new) > 1)
      BY <1>16, <3>3, IdleTypes DEF ScanSubmit
    <3>4. QED
      BY <3>1, <3>2, <3>3
  <2>7. QED
    BY <1>16, <2>5, <2>6 DEF ScanSubmit, TypeOK
<1>17. ASSUME NEW b \in Books, NEW stages \in RetryRequests,
              RetryBegins(b, stages)
       PROVE  TypeOK'
  <2>1. stages \in Seq(Stages)
    BY PipelineAssumption
  <2>2. retry' \in RetryType
    BY <1>17, <2>1 DEF RetryBegins, RetryType
  <2>3. requests' \in 0 .. MaxRequests
    BY <1>17, Bounds DEF RetryBegins, Request, TypeOK
  <2>4. QED
    BY <1>17, <2>2, <2>3 DEF RetryBegins, Request, TypeOK
<1>18. CASE RetryResets
  <2>1. retry.book \in Books /\ retry.stages \in Seq(Stages)
        /\ retry.stages # <<>>
    BY <1>18 DEF RetryResets, TypeOK, RetryType
  <2>2. Head(retry.stages) \in Stages /\ Tail(retry.stages) \in Seq(Stages)
    BY <2>1
  <2>3. progress' \in [Books -> [Stages -> Status]]
    <3>1. "none" \in Status
      BY DEF Status
    <3>2. CASE UNCHANGED progress
      BY <3>2 DEF TypeOK
    <3>3. CASE progress' = [progress EXCEPT
                              ![retry.book][Head(retry.stages)] = "none"]
      BY <2>1, <2>2, <3>1, <3>3, RowType
    <3>4. QED
      BY <1>18, <3>2, <3>3 DEF RetryResets
  <2>6. faults' \in 0 .. MaxFaults
    BY <1>18, Bounds DEF RetryResets, TypeOK
  <2>4. retry' \in RetryType
    BY <1>18, <2>2 DEF RetryResets, TypeOK, RetryType
  <2>5. QED
    BY <1>18, <2>3, <2>4, <2>6 DEF RetryResets, TypeOK
<1>19. CASE RetrySubmits
  <2>1. retry.book \in Books /\ retry.stages \in Seq(Stages)
        /\ retry.stages # <<>>
    BY <1>19 DEF RetrySubmits, TypeOK, RetryType
  <2>2. Tail(retry.stages) \in Seq(Stages)
        /\ [book |-> retry.book, stage |-> Head(retry.stages)] \in Job
    BY <2>1 DEF Job
  <2>3. queue' \in [Tiers -> Seq(Job)]
        /\ \A u \in Tiers : Len(queue'[u]) <= Capacity[u]
    BY <1>19, <2>2, SendType DEF RetrySubmits, Tiers
  <2>4. retry' \in RetryType
    BY <1>19, <2>2 DEF RetrySubmits, TypeOK, RetryType
  <2>5. QED
    BY <1>19, <2>3, <2>4 DEF RetrySubmits, TypeOK
<1>20. ASSUME NEW b \in Books, Trash(b) \/ Restore(b) \/ ForceDelete(b)
       PROVE  TypeOK'
  <2>1. PICK to \in {"active", "trashed", "gone"} :
          Request /\ UNCHANGED retry /\ books' = [books EXCEPT ![b] = to]
    BY <1>20 DEF Trash, Restore, ForceDelete, SetBook
  <2>2. books' \in [Books -> BookState]
    BY <2>1 DEF TypeOK, BookState
  <2>3. requests' \in 0 .. MaxRequests
    BY <2>1, Bounds DEF Request, TypeOK
  <2>4. QED
    BY <2>1, <2>2, <2>3 DEF Request, TypeOK
<1>21. CASE Restart
  <2>1. queue' \in [Tiers -> Seq(Job)]
        /\ \A u \in Tiers : Len(queue'[u]) <= Capacity[u]
    BY <1>21, Buffers DEF Restart
  <2>2. faults' \in 0 .. MaxFaults
    BY <1>21, Bounds DEF Restart, TypeOK
  <2>3. worker' \in WorkerType /\ disp' \in DispType /\ scan' \in ScanType
        /\ retry' \in RetryType /\ worker'.pc = "poll" /\ scan'.at = 0
        /\ idleReady' \in BOOLEAN
    BY <1>21, IdleTypes DEF Restart
  <2>4. UNCHANGED <<books, progress, requests, completed>>
    BY <1>21 DEF Restart
  <2>5. QED
    BY <2>1, <2>2, <2>3, <2>4 DEF TypeOK
<1>22. CASE UNCHANGED vars
  BY <1>22 DEF vars, TypeOK
<1>23. QED
  BY <1>1, <1>2, <1>3, <1>4, <1>5, <1>6, <1>7, <1>8, <1>9, <1>10, <1>11,
     <1>12, <1>13, <1>14, <1>15, <1>16, <1>17, <1>18, <1>19, <1>20, <1>21,
     <1>22
  DEF Next, WorkerStep, Tick, Handler, Client

\* In every reachable state the scheduler, the dispatcher and the handlers are
\* in a typed state, and no channel holds more jobs than its buffer.
THEOREM TypeCorrect == Spec => []TypeOK
<1>1. Init => TypeOK
  <2> SUFFICES ASSUME Init PROVE TypeOK
    OBVIOUS
  <2>1. progress \in [Books -> [Stages -> Status]]
    BY DEF Init, NoRows, Status
  <2>2. queue \in [Tiers -> Seq(Job)]
        /\ \A t \in Tiers : Len(queue[t]) <= Capacity[t]
    BY Buffers DEF Init
  <2>3. books \in [Books -> BookState] /\ completed \subseteq Books \X Stages
    BY DEF Init, BookState
  <2>4. faults \in 0 .. MaxFaults /\ requests \in 0 .. MaxRequests
    BY Bounds DEF Init
  <2>5. worker \in WorkerType /\ disp \in DispType /\ scan \in ScanType
        /\ retry \in RetryType /\ worker.pc = "poll" /\ scan.at = 0
    BY IdleTypes DEF Init
  <2>6. idleReady \in BOOLEAN
    BY DEF Init
  <2>7. QED
    BY <2>1, <2>2, <2>3, <2>4, <2>5, <2>6 DEF TypeOK
<1>2. QED
  BY <1>1, TypeStep, PTL DEF Spec

-----------------------------------------------------------------------------
\* Every step leaves the history, the rows and the snapshot of a sweep as they
\* are, except for the actions named here.
LEMMA EarnedStep ==
  TypeOK /\ SatisfiedIsEarned /\ [Next]_vars => SatisfiedIsEarned'
<1> SUFFICES ASSUME TypeOK, SatisfiedIsEarned, [Next]_vars,
                    NEW b \in Books, NEW s \in Stages,
                    <<b, s>> \notin completed'
             PROVE  /\ progress'[b][s] \notin Satisfied
                    /\ SnapshotRow(b, s)' \notin Satisfied
  BY DEF SatisfiedIsEarned
<1> USE DEF durable, clients
<1>a. "none" \notin Satisfied /\ "running" \notin Satisfied
  BY DEF Satisfied
<1>b. progress \in [Books -> [Stages -> Status]] /\ disp \in DispType
  BY DEF TypeOK
<1>c. <<b, s>> \notin completed
      => progress[b][s] \notin Satisfied /\ SnapshotRow(b, s) \notin Satisfied
  BY DEF SatisfiedIsEarned
<1>1. CASE UNCHANGED <<progress, disp, completed>>
  BY <1>1, <1>c DEF SnapshotRow
<1>2. CASE Start
  <2>1. <<b, s>> \notin completed /\ UNCHANGED disp
    BY <1>2 DEF Start
  <2>2. \/ UNCHANGED progress
        \/ progress' = [progress EXCEPT
                          ![worker.job.book][worker.job.stage] = "running"]
    BY <1>2 DEF Start, WriteRow
  <2>3. progress'[b][s] \in {progress[b][s], "running"}
    BY <1>b, <2>2
  <2>4. QED
    BY <1>a, <1>c, <2>1, <2>3 DEF SnapshotRow
<1>3. ASSUME NEW o \in Outcome, Finish(o)
      PROVE  /\ progress'[b][s] \notin Satisfied
             /\ SnapshotRow(b, s)' \notin Satisfied
  <2> DEFINE bb == worker.job.book
             ss == worker.job.stage
  <2>1. <<b, s>> \notin completed /\ UNCHANGED disp
    BY <1>3 DEF Finish
  <2>2. \/ UNCHANGED progress
        \/ progress' = [progress EXCEPT ![bb][ss] = StatusOf(o)]
    BY <1>3 DEF Finish, WriteRow
  <2>3. CASE b = bb /\ s = ss
    <3>1. o \notin {"done", "skipped"}
      BY <1>3, <2>3 DEF Finish
    <3>2. StatusOf(o) \notin Satisfied
      BY <3>1 DEF StatusOf, Outcome, Satisfied
    <3>3. progress'[b][s] \in {progress[b][s], StatusOf(o)}
      BY <1>b, <2>2
    <3>4. QED
      BY <1>c, <2>1, <3>2, <3>3 DEF SnapshotRow
  <2>4. CASE ~(b = bb /\ s = ss)
    <3>1. progress'[b][s] = progress[b][s]
      BY <1>b, <2>2, <2>4
    <3>2. QED
      BY <1>c, <2>1, <3>1 DEF SnapshotRow
  <2>5. QED
    BY <2>3, <2>4
<1>4. ASSUME NEW c \in Books, Reap(c)
      PROVE  /\ progress'[b][s] \notin Satisfied
             /\ SnapshotRow(b, s)' \notin Satisfied
  <2>1. <<b, s>> \notin completed /\ disp'.pc = "reap"
    BY <1>4, <1>b DEF Reap, DispType
  <2>2. progress'[b][s] \in {progress[b][s], "none"}
    BY <1>4, <1>b DEF Reap, NoRows
  <2>3. QED
    BY <1>a, <1>c, <2>1, <2>2 DEF SnapshotRow
<1>5. ASSUME NEW c \in Books, SweepReads(c)
      PROVE  /\ progress'[b][s] \notin Satisfied
             /\ SnapshotRow(b, s)' \notin Satisfied
  <2>1. <<b, s>> \notin completed /\ UNCHANGED progress
    BY <1>5 DEF SweepReads
  <2>2. disp'.pc = "pick" /\ disp'.book = c
        /\ disp'.rows[s] \in {progress[c][s], "none"}
    BY <1>5, <1>b DEF SweepReads, DispType
  <2>3. QED
    BY <1>a, <1>c, <2>1, <2>2 DEF SnapshotRow
<1>6. CASE RetryResets
  <2>1. <<b, s>> \notin completed /\ UNCHANGED disp
    BY <1>6 DEF RetryResets
  <2>2. \/ UNCHANGED progress
        \/ progress' = [progress EXCEPT
                          ![retry.book][Head(retry.stages)] = "none"]
    BY <1>6 DEF RetryResets
  <2>3. progress'[b][s] \in {progress[b][s], "none"}
    BY <1>b, <2>2
  <2>4. QED
    BY <1>a, <1>c, <2>1, <2>3 DEF SnapshotRow
<1>7. CASE /\ UNCHANGED <<progress, completed>>
           /\ disp'.pc # "pick"
  BY <1>7, <1>a, <1>c DEF SnapshotRow
<1>8. TickReadsBooks \/ TickReadsProgress \/ SweepBegins \/ SweepEnds
      \/ SweepSubmits \/ TickFails \/ Restart
      => UNCHANGED <<progress, completed>> /\ disp'.pc # "pick"
  <2>1. TickReadsBooks \/ TickReadsProgress \/ SweepBegins
        => UNCHANGED <<progress, completed>> /\ disp'.pc # "pick"
    BY <1>b DEF TickReadsBooks, TickReadsProgress, SweepBegins, DispType
  <2>2. SweepEnds \/ TickFails \/ Restart
        => UNCHANGED <<progress, completed>> /\ disp'.pc # "pick"
    BY IdleTypes DEF SweepEnds, TickFails, Restart
  <2>3. Swept(0).pc = "sweep" /\ Swept(1).pc = "sweep"
    BY IdleTypes DEF Swept, DispType
  <2>4. SweepSubmits => UNCHANGED <<progress, completed>> /\ disp'.pc # "pick"
    BY <2>3, IdleTypes DEF SweepSubmits
  <2>5. QED
    BY <2>1, <2>2, <2>4
<1>9. ASSUME NEW c \in Books,
             \/ ScanInsert(c) \/ Trash(c) \/ Restore(c) \/ ForceDelete(c)
             \/ \E stages \in RetryRequests : RetryBegins(c, stages)
      PROVE  UNCHANGED <<progress, disp, completed>>
  BY <1>9 DEF ScanInsert, Trash, Restore, ForceDelete, SetBook, RetryBegins,
              Request
<1>10. ASSUME NEW t \in Tiers, Take(t)
       PROVE  UNCHANGED <<progress, disp, completed>>
  BY <1>10 DEF Take
<1>11. DispatchDependent \/ QuietElapses \/ ScanWalked \/ ScanSubmit
       \/ RetrySubmits \/ UNCHANGED vars
       => UNCHANGED <<progress, disp, completed>>
  BY DEF DispatchDependent, QuietElapses, ScanWalked, ScanSubmit,
         RetrySubmits, vars
<1>12. QED
  BY <1>1, <1>2, <1>3, <1>4, <1>5, <1>6, <1>7, <1>8, <1>9, <1>10, <1>11
  DEF Next, WorkerStep, Tick, Handler, Client

\* A satisfied row, in the table or in a sweep's snapshot, is always the row of
\* a stage that did run to the end for that book (scheduler.rs execute,
\* dispatcher.rs read_book_progress, stage.rs default_reset).
THEOREM Earned == Spec => []SatisfiedIsEarned
<1>1. Init => SatisfiedIsEarned
  BY IdleTypes DEF Init, SatisfiedIsEarned, SnapshotRow, NoRows, Satisfied
<1>2. QED
  BY <1>1, EarnedStep, TypeCorrect, PTL DEF Spec

-----------------------------------------------------------------------------
\* A step that does not touch the background queue submits nothing, and
\* neither does one that takes from it or empties it.
LEMMA NoSubmission ==
  ASSUME TypeOK, NEW b \in Books, NEW s \in Stages,
         \/ queue'["background"] = queue["background"]
         \/ /\ queue["background"] # <<>>
            /\ queue'["background"] = Tail(queue["background"])
         \/ queue'["background"] = <<>>
  PROVE  ~Submitted(b, s)
<1> DEFINE q == queue["background"]
           j == [book |-> b, stage |-> s]
<1>1. q \in Seq(Job) /\ j \in Job
  BY DEF TypeOK, Tiers, Job
<1>2. Len(Append(q, j)) = Len(q) + 1 /\ Len(q) \in Nat
  BY <1>1
<1>3. q # <<>> => Len(Tail(q)) = Len(q) - 1
  BY <1>1
<1>4. Len(<<>>) = 0
  OBVIOUS
<1>5. ASSUME queue'["background"] = Append(q, j) PROVE FALSE
  <2>1. Len(queue'["background"]) = Len(q) + 1
    BY <1>2, <1>5
  <2>2. CASE queue'["background"] = q
    BY <1>2, <2>1, <2>2
  <2>3. CASE q # <<>> /\ queue'["background"] = Tail(q)
    BY <1>2, <1>3, <2>1, <2>3
  <2>4. CASE queue'["background"] = <<>>
    BY <1>2, <1>4, <2>1, <2>4
  <2>5. QED
    BY <2>2, <2>3, <2>4
<1>6. QED
  BY <1>5 DEF Submitted

\* Two jobs appended to the same queue that give the same queue are one job.
LEMMA SameSubmission ==
  ASSUME TypeOK, NEW b \in Books, NEW s \in Stages, NEW c \in Books,
         NEW t \in Stages, Submitted(b, s),
         Send("background", [book |-> c, stage |-> t])
  PROVE  b = c /\ s = t
<1> DEFINE q == queue["background"]
           j == [book |-> b, stage |-> s]
           k == [book |-> c, stage |-> t]
<1>1. q \in Seq(Job) /\ j \in Job /\ k \in Job
  BY DEF TypeOK, Tiers, Job
<1>2. Append(q, j) = Append(q, k)
  BY DEF Submitted, Send, TypeOK, Tiers
<1>3. Append(q, j)[Len(q) + 1] = j /\ Append(q, k)[Len(q) + 1] = k
  BY <1>1
<1>4. j = k
  BY <1>2, <1>3
<1>5. QED
  BY <1>4

\* The scan and retry handlers move on with every job they submit, so a
\* submission that leaves them alone is the daemon's own.
LEMMA HandlersMoveOn ==
  ASSUME TypeOK, ScanSubmit \/ RetrySubmits
  PROVE  ~UNCHANGED <<scan, retry>>
<1>1. CASE RetrySubmits
  <2>1. retry \in RetryType /\ retry.cleared
    BY <1>1 DEF RetrySubmits, TypeOK
  <2>2. retry'.cleared = FALSE
    BY <1>1, <2>1 DEF RetrySubmits, RetryType
  <2>3. QED
    BY <2>1, <2>2
<1>2. CASE ScanSubmit
  <2>1. scan \in ScanType /\ scan.at > 0
    BY <1>2 DEF ScanSubmit, TypeOK
  <2>2. scan.new \in Seq(Books) /\ scan.at \in Nat /\ Len(scan.new) \in Nat
    BY <2>1, PipelineAssumption DEF ScanType
  <2>3. CASE scan.at < Len(ScanPlan)
    <3>1. scan'.at = scan.at + 1
      BY <1>2, <2>1, <2>3 DEF ScanSubmit, ScanType
    <3>2. QED
      BY <2>2, <3>1
  <2>4. CASE ~(scan.at < Len(ScanPlan)) /\ Len(scan.new) > 1
    <3>1. scan'.new = Tail(scan.new)
      BY <1>2, <2>4 DEF ScanSubmit
    <3>2. scan.new # <<>>
      BY <2>4
    <3>3. Len(Tail(scan.new)) = Len(scan.new) - 1
      BY <2>2, <3>2
    <3>4. Len(Tail(scan.new)) # Len(scan.new)
      BY <2>2, <3>3
    <3>5. QED
      BY <3>1, <3>4, Zenon
  <2>5. CASE ~(scan.at < Len(ScanPlan)) /\ ~(Len(scan.new) > 1)
    <3>1. scan'.at = 0
      BY <1>2, <2>5, IdleTypes DEF ScanSubmit
    <3>2. QED
      BY <2>1, <2>2, <3>1
  <2>6. QED
    BY <2>3, <2>4, <2>5
<1>3. QED
  BY <1>1, <1>2

\* Every step of the daemon that submits a stage has seen, in the table or in
\* its snapshot, a satisfied row for each stage it requires.
LEMMA SubmissionStep ==
  ASSUME TypeOK, SatisfiedIsEarned, [Next]_vars,
         NEW b \in Books, NEW s \in Stages, Submitted(b, s),
         NEW d \in Requires[s]
  PROVE  <<b, d>> \in completed
<1> USE DEF durable, clients
<1>a. d \in Stages
  BY PipelineAssumption
<1>b. queue \in [Tiers -> Seq(Job)]
  BY DEF TypeOK
<1>1. CASE DispatchDependent
  <2>1. PICK t \in FirstInOrder(worker.todo) :
          IF AllSatisfied(progress[worker.job.book], t)
             /\ Unclaimed(progress[worker.job.book], t)
          THEN TrySend("background", [book |-> worker.job.book, stage |-> t])
          ELSE UNCHANGED queue
    BY <1>1 DEF DispatchDependent
  <2>2. worker.job.book \in Books /\ t \in Stages
    BY DEF TypeOK, WorkerType, Job, FirstInOrder
  <2>3. /\ AllSatisfied(progress[worker.job.book], t)
        /\ Send("background", [book |-> worker.job.book, stage |-> t])
    BY <2>1, NoSubmission DEF TrySend
  <2>4. b = worker.job.book /\ s = t
    BY <2>2, <2>3, SameSubmission
  <2>5. progress[b][d] \in Satisfied
    BY <2>3, <2>4 DEF AllSatisfied
  <2>6. QED
    BY <1>a, <2>5 DEF SatisfiedIsEarned
<1>2. CASE SweepSubmits
  <2>1. PICK t \in FirstInOrder(Eligible(disp.rows)) :
          Send("background", [book |-> disp.book, stage |-> t])
    BY <1>2, NoSubmission DEF SweepSubmits
  <2>2. disp.book \in Books /\ t \in Eligible(disp.rows) /\ t \in Stages
    BY DEF TypeOK, DispType, FirstInOrder, Eligible
  <2>3. b = disp.book /\ s = t
    BY <2>1, <2>2, SameSubmission
  <2>4. disp.rows[d] \in Satisfied
    BY <2>2, <2>3 DEF Eligible, AllSatisfied
  <2>5. SnapshotRow(b, d) \in Satisfied
    BY <1>2, <2>3, <2>4 DEF SweepSubmits, SnapshotRow
  <2>6. QED
    BY <1>a, <2>5 DEF SatisfiedIsEarned
<1>3. CASE ScanSubmit \/ RetrySubmits
  BY <1>3, HandlersMoveOn DEF Submitted
<1>4. ASSUME NEW t \in Tiers, Take(t) PROVE FALSE
  <2>1. \/ queue'["background"] = queue["background"]
        \/ /\ queue["background"] # <<>>
           /\ queue'["background"] = Tail(queue["background"])
    BY <1>4, <1>b DEF Take, Selectable, Tiers
  <2>2. QED
    BY <2>1, NoSubmission
<1>5. CASE Restart
  <2>1. queue'["background"] = <<>>
    BY <1>5 DEF Restart, Tiers
  <2>2. QED
    BY <2>1, NoSubmission
<1>6. CASE UNCHANGED queue
  BY <1>6, NoSubmission
<1>7. Start \/ (\E o \in Outcome : Finish(o)) \/ QuietElapses
      \/ TickReadsBooks \/ TickReadsProgress \/ (\E c \in Books : Reap(c))
      => UNCHANGED queue
  BY DEF Start, Finish, QuietElapses, TickReadsBooks, TickReadsProgress, Reap
<1>8. SweepBegins \/ (\E c \in Books : SweepReads(c)) \/ SweepEnds
      \/ TickFails \/ ScanWalked \/ RetryResets \/ UNCHANGED vars
      => UNCHANGED queue
  BY DEF SweepBegins, SweepReads, SweepEnds, TickFails, ScanWalked,
         RetryResets, vars
<1>9. Client => UNCHANGED queue
  BY DEF Client, ScanInsert, Trash, Restore, ForceDelete, SetBook,
         RetryBegins, Request
<1>10. QED
  BY <1>1, <1>2, <1>3, <1>4, <1>5, <1>6, <1>7, <1>8, <1>9
  DEF Next, WorkerStep, Tick, Handler

\* The daemon never queues a stage of its own accord before every stage it
\* requires has run to the end for that book (dispatch_ready_dependents and
\* sweep_eligible).
THEOREM AutoDispatchSafe == Spec => AutoDispatchAfterRequirements
<1>1. TypeOK /\ SatisfiedIsEarned /\ [Next]_vars
      => [\A b \in Books, s \in Stages :
            Submitted(b, s) => \A d \in Requires[s] : <<b, d>> \in completed]_vars
  BY SubmissionStep
<1>2. QED
  BY <1>1, TypeCorrect, Earned, PTL DEF Spec, AutoDispatchAfterRequirements

-----------------------------------------------------------------------------
\* While nothing has failed, a row turns 'running' only under the worker that
\* is about to own it, and the worker lets go of it only by overwriting it.
LEMMA OwnedStep == TypeOK /\ RunningIsOwned /\ [Next]_vars => RunningIsOwned'
<1> SUFFICES ASSUME TypeOK, RunningIsOwned, [Next]_vars, ~(faults' > 0),
                    NEW b \in Books, NEW s \in Stages,
                    progress'[b][s] = "running"
             PROVE  Owned(b, s)'
  BY DEF RunningIsOwned, Stale
<1> USE DEF durable, clients
<1>a. progress \in [Books -> [Stages -> Status]] /\ worker \in WorkerType
      /\ faults \in Nat
  BY Bounds DEF TypeOK
<1>b. worker.job \in Job /\ worker.job.book \in Books
      /\ worker.job.stage \in Stages
  BY <1>a DEF WorkerType, Job
<1>c. progress[b][s] = "running" /\ faults = 0 => Owned(b, s)
  BY DEF RunningIsOwned, Stale
<1>1. CASE UNCHANGED <<worker, faults>> /\ progress'[b][s] \in {progress[b][s], "none"}
  BY <1>1, <1>a, <1>c DEF Owned
<1>2. CASE Start
  <2>1. UNCHANGED faults
        /\ progress' = [progress EXCEPT
                          ![worker.job.book][worker.job.stage] = "running"]
    BY <1>2, <1>a DEF Start, WriteRow
  <2>2. ~Owned(b, s)
    BY <1>2 DEF Start, Owned
  <2>3. progress[b][s] # "running"
    BY <1>a, <1>c, <2>1, <2>2
  <2>4. b = worker.job.book /\ s = worker.job.stage
    BY <1>a, <2>1, <2>3
  <2>5. worker'.pc = "run" /\ worker'.job = worker.job
    BY <1>2, <1>a DEF Start, WorkerType
  <2>6. worker.job = [book |-> b, stage |-> s]
    BY <1>b, <2>4 DEF Job
  <2>7. QED
    BY <2>5, <2>6 DEF Owned
<1>3. ASSUME NEW o \in Outcome, Finish(o) PROVE FALSE
  <2> DEFINE bb == worker.job.book
             ss == worker.job.stage
  <2>1. UNCHANGED faults
        /\ IF progress[bb][ss] = "none" THEN UNCHANGED progress
           ELSE progress' = [progress EXCEPT ![bb][ss] = StatusOf(o)]
    BY <1>3, <1>a DEF Finish, WriteRow
  <2>2. StatusOf(o) # "running"
    BY DEF StatusOf, Outcome
  <2>3. ~(b = bb /\ s = ss)
    BY <1>a, <1>b, <2>1, <2>2
  <2>4. progress'[b][s] = progress[b][s]
    BY <1>a, <1>b, <2>1, <2>3
  <2>5. Owned(b, s)
    BY <1>a, <1>c, <2>1, <2>4
  <2>6. QED
    BY <2>3, <2>5 DEF Owned
<1>4. CASE TickFails \/ Restart
  BY <1>4, <1>a DEF TickFails, Restart
<1>5. ASSUME UNCHANGED <<progress, faults>>, worker.pc # "run" PROVE FALSE
  BY <1>5, <1>a, <1>c DEF Owned
<1>6. (\E t \in Tiers : Take(t)) \/ DispatchDependent
      => UNCHANGED <<progress, faults>> /\ worker.pc # "run"
  BY DEF Take, DispatchDependent
<1>7. ASSUME NEW c \in Books, Reap(c)
      PROVE  UNCHANGED <<worker, faults>>
             /\ progress'[b][s] \in {progress[b][s], "none"}
  BY <1>7, <1>a DEF Reap, NoRows
<1>8. CASE RetryResets
  <2>1. UNCHANGED <<worker, faults>>
        /\ progress' = [progress EXCEPT
                          ![retry.book][Head(retry.stages)] = "none"]
    BY <1>8, <1>a DEF RetryResets
  <2>2. progress'[b][s] \in {progress[b][s], "none"}
    BY <1>a, <2>1
  <2>3. QED
    BY <1>1, <2>1, <2>2
<1>9. ASSUME NEW c \in Books,
             \/ ScanInsert(c) \/ Trash(c) \/ Restore(c) \/ ForceDelete(c)
             \/ SweepReads(c)
             \/ \E stages \in RetryRequests : RetryBegins(c, stages)
      PROVE  UNCHANGED <<worker, faults, progress>>
  BY <1>9 DEF ScanInsert, Trash, Restore, ForceDelete, SetBook, RetryBegins,
              Request, SweepReads
<1>10. QuietElapses \/ ScanWalked \/ ScanSubmit \/ RetrySubmits
       \/ UNCHANGED vars => UNCHANGED <<worker, faults, progress>>
  BY DEF QuietElapses, ScanWalked, ScanSubmit, RetrySubmits, vars
<1>11. TickReadsBooks \/ TickReadsProgress \/ SweepBegins \/ SweepSubmits
       \/ SweepEnds => UNCHANGED <<worker, faults, progress>>
  BY DEF TickReadsBooks, TickReadsProgress, SweepBegins, SweepSubmits, SweepEnds
<1>12. QED
  BY <1>1, <1>2, <1>3, <1>4, <1>5, <1>6, <1>7, <1>8, <1>9, <1>10, <1>11
  DEF Next, WorkerStep, Tick, Handler, Client

\* As long as no restart has happened and no statement has failed, a 'running'
\* row is the row of the stage the worker is executing (scheduler.rs execute).
THEOREM RunningOwned == Spec => []RunningIsOwned
<1>1. Init => RunningIsOwned
  BY DEF Init, RunningIsOwned, Stale, NoRows
<1>2. QED
  BY <1>1, OwnedStep, TypeCorrect, PTL DEF Spec
=============================================================================
