------------------------------- MODULE Upkeep -------------------------------
(* What the daemon does by the clock: periodic tasks with a back-off        *)
(* (background/lib, api/background), and the rows that a clean run deletes   *)
(* (pipeline/cleanup, api/cleanup_targets, router).  Times are ages, in      *)
(* units of the cap of the back-off divided by MaxBackoff; an age saturates  *)
(* there, and a task that never ran has that age.                            *)
EXTENDS Common, Sequences, SequencesExt

CONSTANTS
  Tasks,      \* the registry: a BTreeMap, so in the order of the names
  Interval,   \* base interval of a task
  MaxBackoff, \* MAX_BACKOFF
  MaxFails,   \* bound: failures counted
  MaxStops,   \* bound: restarts of the daemon
  Rows        \* rows that a clean may find

VARIABLES
  daemon,     \* "up" or "down"
  age,        \* time since last_run_at
  failures,   \* consecutive_failures
  loop,       \* the tick under way: tasks left, and ages at its one reading of the clock
  manual,     \* tasks run by a request
  tables,     \* rows of pairing_codes, companion_nearby_books, operation_journal
  sweeps,     \* the clean under way
  stops

upVars == <<daemon, age, failures, loop, manual, tables, sweeps, stops>>

TaskSet == ToSet(Tasks)
TargetNames == <<"expired-pairing-codes", "stale-companion-hints", "stale-operation-journal">>
ASSUME UpkeepAssumption ==
  /\ MaxBackoff \in Nat \ {0} /\ MaxFails \in Nat /\ MaxStops \in Nat
  /\ Interval \in [TaskSet -> Nat \ {0}]
  /\ Nothing \notin [target : ToSet(TargetNames), open : BOOLEAN, old : BOOLEAN]

CategoryOf(target) == IF target = "expired-pairing-codes" THEN "queue" ELSE "db"
ForCategory(category) == SelectSeq(TargetNames, LAMBDA t : CategoryOf(t) = category)

UpInit ==
  /\ daemon = "up" /\ age = [t \in TaskSet |-> MaxBackoff] /\ failures = [t \in TaskSet |-> 0]
  /\ loop = Nothing /\ manual = {} /\ sweeps = Nothing /\ stops = 0
  /\ tables = [r \in Rows |-> Nothing]

-----------------------------------------------------------------------------
(* background/lib                                                            *)

Smaller(a, b) == IF a < b THEN a ELSE b
Saturated(a) == Smaller(a, MaxBackoff)

\* Mutant: the multiplier is not capped.
NextRunInUncapped(t) ==
  Interval[t] * (IF failures[t] >= 3 THEN 2 ^ Smaller(failures[t] - 2, 20) ELSE 1)
NextRunIn(t) ==
  Saturated(Interval[t] * (IF failures[t] >= 3 THEN 2 ^ Smaller(failures[t] - 2, 20) ELSE 1))

TimePasses ==
  /\ age' = [t \in TaskSet |-> Saturated(age[t] + 1)] /\ age' # age
  /\ UNCHANGED <<daemon, failures, loop, manual, tables, sweeps, stops>>

TickBegins ==
  /\ daemon = "up" /\ loop = Nothing
  /\ loop' = [todo |-> Tasks, seen |-> age, running |-> FALSE]
  /\ UNCHANGED <<daemon, age, failures, manual, tables, sweeps, stops>>

AtTask == loop # Nothing /\ loop.todo # <<>>
(* A task that is not due is passed over, one whose state cannot be read too. *)
PassOver ==
  /\ AtTask /\ ~loop.running
  /\ loop.seen[Head(loop.todo)] < NextRunIn(Head(loop.todo))
  /\ loop' = [loop EXCEPT !.todo = Tail(@)]
  /\ UNCHANGED <<daemon, age, failures, manual, tables, sweeps, stops>>
StartTask ==
  /\ AtTask /\ ~loop.running
  /\ loop.seen[Head(loop.todo)] >= NextRunIn(Head(loop.todo))
  /\ loop' = [loop EXCEPT !.running = TRUE]
  /\ UNCHANGED <<daemon, age, failures, manual, tables, sweeps, stops>>

(* The row says when the run ended; a tick that began before sees a task     *)
(* that has just run.                                                        *)
RecordRun(t, ok) ==
  /\ age' = [age EXCEPT ![t] = 0]
  /\ failures' = [failures EXCEPT ![t] = IF ok THEN 0 ELSE Smaller(@ + 1, MaxFails)]
TaskEnds ==
  /\ AtTask /\ loop.running
  /\ LET t == Head(loop.todo)
     IN  \/ \E ok \in BOOLEAN : RecordRun(t, ok)
         \/ UNCHANGED <<age, failures>>  \* the record failed: only logged
  /\ loop' = [loop EXCEPT !.todo = Tail(@), !.running = FALSE]
  /\ UNCHANGED <<daemon, manual, tables, sweeps, stops>>
TickEnds ==
  /\ loop # Nothing /\ loop.todo = <<>> /\ loop' = Nothing
  /\ UNCHANGED <<daemon, age, failures, manual, tables, sweeps, stops>>

(* POST /background/tasks/{name}/run: nothing keeps it apart from the loop.  *)
BackgroundTaskRun(t) ==
  /\ daemon = "up" /\ t \notin manual /\ manual' = manual \cup {t}
  /\ UNCHANGED <<daemon, age, failures, loop, tables, sweeps, stops>>
ManualEnds(t) ==
  /\ t \in manual /\ manual' = manual \ {t}
  /\ \E ok \in BOOLEAN : RecordRun(t, ok)
  /\ loop' = IF loop # Nothing THEN [loop EXCEPT !.seen[t] = 0] ELSE loop
  /\ UNCHANGED <<daemon, tables, sweeps, stops>>
(* Its record failed, or the client went away and the handler with it.       *)
ManualLost(t) ==
  /\ t \in manual /\ manual' = manual \ {t}
  /\ UNCHANGED <<daemon, age, failures, loop, tables, sweeps, stops>>

-----------------------------------------------------------------------------
(* Rows that come and go: a code waits to be consumed, an operation to end   *)

Found(target) == [target |-> target, open |-> target = "stale-operation-journal", old |-> FALSE]
Live == {r \in Rows : tables[r] # Nothing}
RowAppears(r, target) ==
  /\ tables[r] = Nothing /\ tables' = [tables EXCEPT ![r] = Found(target)]
  /\ UNCHANGED <<daemon, age, failures, loop, manual, sweeps, stops>>
(* consume_pairing_code makes a code one to be kept, mark_done an operation  *)
(* one to be dropped.                                                        *)
RowTurns(r) ==
  /\ r \in Live
  /\ \/ tables[r].target = "expired-pairing-codes" /\ ~tables[r].open /\ ~tables[r].old
     \/ tables[r].target = "stale-operation-journal" /\ tables[r].open
  /\ tables' = [tables EXCEPT ![r].open = ~@]
  /\ UNCHANGED <<daemon, age, failures, loop, manual, sweeps, stops>>
RowAges(r) ==
  /\ r \in Live /\ ~tables[r].old /\ tables' = [tables EXCEPT ![r].old = TRUE]
  /\ UNCHANGED <<daemon, age, failures, loop, manual, sweeps, stops>>
(* pairing_codes_revoke takes a code that nobody has used; set_pair,         *)
(* replace_nearby and the end of a companion or of a book take its hints.    *)
RowTaken(r) ==
  /\ r \in Live
  /\ \/ tables[r].target = "expired-pairing-codes" /\ ~tables[r].open
     \/ tables[r].target = "stale-companion-hints"
  /\ tables' = [tables EXCEPT ![r] = Nothing]
  /\ UNCHANGED <<daemon, age, failures, loop, manual, sweeps, stops>>

(* What apply deletes; the report of a target, which a dry run asks for      *)
(* instead, counts by the same conditions.                                   *)
\* Mutant: the DELETE on operation_journal has lost its list of progress values.
DeletedOpenToo(target, force) ==
  {r \in Live : tables[r].target = target /\ (force \/ tables[r].old)
     /\ (target = "stale-operation-journal" \/ ~tables[r].open)}
Deleted(target, force) ==
  {r \in Live : tables[r].target = target /\ ~tables[r].open /\ (force \/ tables[r].old)}

CleanRun(category, commit, force) ==
  /\ daemon = "up" /\ sweeps = Nothing
  /\ sweeps' = [todo |-> ForCategory(category), commit |-> commit, force |-> force]
  /\ UNCHANGED <<daemon, age, failures, loop, manual, tables, stops>>
(* A target that fails counts as nothing, and the next one follows.          *)
CleanTarget ==
  /\ sweeps # Nothing /\ sweeps.todo # <<>>
  /\ tables' \in {tables} \cup IF sweeps.commit
       THEN {[r \in Rows |-> IF r \in Deleted(Head(sweeps.todo), sweeps.force) THEN Nothing ELSE tables[r]]}
       ELSE {}
  /\ sweeps' = IF Len(sweeps.todo) = 1 THEN Nothing ELSE [sweeps EXCEPT !.todo = Tail(@)]
  /\ UNCHANGED <<daemon, age, failures, loop, manual, stops>>

StopUpkeep ==
  /\ daemon = "up" /\ stops < MaxStops /\ stops' = stops + 1 /\ daemon' = "down"
  /\ loop' = Nothing /\ manual' = {} /\ sweeps' = Nothing
  /\ UNCHANGED <<age, failures, tables>>
StartUpkeep ==
  /\ daemon = "down" /\ daemon' = "up"
  /\ UNCHANGED <<age, failures, loop, manual, tables, sweeps, stops>>

LoopStep == TickBegins \/ PassOver \/ StartTask \/ TaskEnds \/ TickEnds \/ StartUpkeep
ManualStep == \E t \in TaskSet : BackgroundTaskRun(t) \/ ManualEnds(t) \/ ManualLost(t)
CleanStep ==
  \/ \E category \in {"queue", "db"} : \E commit, force \in BOOLEAN : CleanRun(category, commit, force)
  \/ CleanTarget
RowStep ==
  \E r \in Rows : \/ \E target \in ToSet(TargetNames) : RowAppears(r, target)
                  \/ RowTurns(r) \/ RowAges(r) \/ RowTaken(r)
TaskStep == LoopStep \/ TimePasses \/ ManualStep \/ StopUpkeep
TableStep == CleanStep \/ RowStep

(* The loop is a task of its own that nothing holds, and time passes.        *)
UpFairness == WF_upVars(LoopStep) /\ WF_upVars(TimePasses)
UpSpec == UpInit /\ [][TaskStep \/ TableStep]_upVars

-----------------------------------------------------------------------------
UpTypeOK ==
  /\ daemon \in {"up", "down"} /\ age \in [TaskSet -> 0..MaxBackoff]
  /\ failures \in [TaskSet -> 0..MaxFails] /\ manual \subseteq TaskSet
  /\ tables \in [Rows -> OptionOf([target : ToSet(TargetNames), open : BOOLEAN, old : BOOLEAN])]
  /\ loop # Nothing => loop.seen \in [TaskSet -> 0..MaxBackoff]

(* A task is run in the loop again and again, however often it failed and    *)
(* whatever else fails: neither the back-off, nor a restart, nor a request   *)
(* beside the loop that never ends, puts an end to its rounds.  Only         *)
(* requests that go on ending can put it off: each end counts as a last run. *)
TasksComeRound ==
  \A t \in TaskSet :
    \/ []<>(AtTask /\ Head(loop.todo) = t /\ loop.running)
    \/ []<><<ManualEnds(t)>>_upVars

(* Observed: what background_task_run is said to do, "does NOT reset the     *)
(* natural cadence", is not so: its end is recorded as a last run.           *)
ManualKeepsCadence ==
  [][\A t \in TaskSet : ManualEnds(t) => age'[t] = age[t]]_upVars

(* A code that was used and an operation under way are never taken, whatever *)
(* takes rows, and a code may be used and an operation end while a clean     *)
(* runs; the record of an operation goes only when a clean of its target     *)
(* commits, and, unless that was forced, only once it is old.                *)
KeptRowsStay ==
  [][\A r \in Rows : r \in Live /\ tables'[r] = Nothing =>
       /\ ~tables[r].open
       /\ tables[r].target = "stale-operation-journal" =>
            /\ sweeps # Nothing /\ sweeps.commit /\ Head(sweeps.todo) = tables[r].target
            /\ sweeps.force \/ tables[r].old]_upVars
=============================================================================
