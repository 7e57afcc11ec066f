----------------------------- MODULE Listening -----------------------------
(* What a listener did with a book (progress/lib, api/progress): reports of  *)
(* several devices, and the reading status set by hand.  A report is three   *)
(* steps on a pool of connections, and the clock of the host may go back.    *)
EXTENDS Common

CONSTANTS
  Devices,   \* at most one report of each is under way
  MaxClock,  \* bound: readings of the clock
  MaxReports \* bound: reports

VARIABLES
  now,       \* the clock of the host
  status,    \* books.reading_status
  rating,    \* books.rating and books.notes, one value: each is one UPDATE
  progress,  \* the row of media_progress; the position is the one that `from` reported
  report,    \* the report of a device under way
  newest,    \* stamps of accepted reports, the last of them; a history variable
  overlap,   \* two reports were under way at once; a history variable
  cutOff,    \* a report ended between its writes; a history variable
  reports

liVars == <<now, status, rating, progress, report, newest, overlap, cutOff, reports>>

ASSUME ListeningAssumption == MaxClock \in Nat \ {0} /\ MaxReports \in Nat

Statuses == {"want_to_read", "reading", "finished", "dnf"}
NoRow == [finished |-> FALSE, from |-> Nothing, stamp |-> Nothing, exists |-> FALSE]

LiInit ==
  /\ now \in 1..MaxClock /\ status = "want_to_read" /\ rating = Nothing /\ progress = NoRow
  /\ report = [d \in Devices |-> Nothing] /\ newest = Nothing
  /\ overlap = FALSE /\ cutOff = FALSE /\ reports = 0

ClockMoves ==
  /\ now' \in 1..MaxClock /\ now' # now
  /\ UNCHANGED <<status, rating, progress, report, newest, overlap, cutOff, reports>>

-----------------------------------------------------------------------------
(* PATCH /books/{id}/status, one transaction                                 *)
SetStatus(s) ==
  /\ status' = s
  /\ progress' = CASE s = "finished" -> [progress EXCEPT !.finished = TRUE, !.exists = TRUE]
                   [] s = "reading" -> [progress EXCEPT !.finished = FALSE]
                   [] s \in {"want_to_read", "dnf"} -> progress
  /\ UNCHANGED <<now, rating, report, newest, overlap, cutOff, reports>>
SetRating(r) ==
  /\ rating' = r /\ rating' # rating
  /\ UNCHANGED <<now, status, progress, report, newest, overlap, cutOff, reports>>

-----------------------------------------------------------------------------
(* POST /sessions/{id}/sync                                                  *)
Busy(d) == report[d] # Nothing

ReadClock(d, finished) ==
  /\ ~Busy(d) /\ reports < MaxReports /\ reports' = reports + 1
  /\ report' = [report EXCEPT ![d] = [step |-> "select", stamp |-> now, finished |-> finished]]
  /\ overlap' = (overlap \/ \E e \in Devices \ {d} : Busy(e))
  /\ UNCHANGED <<now, status, rating, progress, newest, cutOff>>

\* Mutant: a report that is dropped is an equal one, not an older one.
StaleIfEqual(prior, stamp) == prior # Nothing /\ prior = stamp
Stale(prior, stamp) == prior # Nothing /\ prior > stamp
ReadPrior(d) ==
  /\ Busy(d) /\ report[d].step = "select"
  /\ report' = [report EXCEPT ![d] =
       IF Stale(progress.stamp, report[d].stamp) THEN Nothing ELSE [@ EXCEPT !.step = "upsert"]]
  /\ UNCHANGED <<now, status, rating, progress, newest, overlap, cutOff, reports>>
Upsert(d) ==
  /\ Busy(d) /\ report[d].step = "upsert"
  /\ progress' = [finished |-> report[d].finished, from |-> d, stamp |-> report[d].stamp, exists |-> TRUE]
  /\ newest' = IF newest = Nothing \/ report[d].stamp >= newest THEN report[d].stamp ELSE newest
  /\ report' = [report EXCEPT ![d] = IF report[d].finished THEN [@ EXCEPT !.step = "finish"] ELSE Nothing]
  /\ UNCHANGED <<now, status, rating, overlap, cutOff, reports>>
MarkFinished(d) ==
  /\ Busy(d) /\ report[d].step = "finish"
  /\ status' = "finished" /\ report' = [report EXCEPT ![d] = Nothing]
  /\ UNCHANGED <<now, rating, progress, newest, overlap, cutOff, reports>>

(* The daemon stops, or a statement fails: the rest of the report is lost.   *)
ReportLost(d) ==
  /\ Busy(d) /\ report' = [report EXCEPT ![d] = Nothing]
  /\ cutOff' = (cutOff \/ report[d].step = "finish")
  /\ UNCHANGED <<now, status, rating, progress, newest, overlap, reports>>

LiStep ==
  \/ \E d \in Devices :
       \/ \E finished \in BOOLEAN : ReadClock(d, finished)
       \/ ReadPrior(d) \/ Upsert(d) \/ MarkFinished(d) \/ ReportLost(d)
  \/ \E s \in Statuses : SetStatus(s)
  \/ \E r \in {Nothing, "set"} : SetRating(r)
  \/ ClockMoves
LiSpec == LiInit /\ [][LiStep]_liVars

-----------------------------------------------------------------------------
LiTypeOK ==
  /\ now \in 1..MaxClock /\ status \in Statuses /\ rating \in {Nothing, "set"}
  /\ progress \in [finished : BOOLEAN, from : OptionOf(Devices), stamp : OptionOf(1..MaxClock), exists : BOOLEAN]
  /\ report \in [Devices -> OptionOf([step : {"select", "upsert", "finish"}, stamp : 1..MaxClock, finished : BOOLEAN])]

(* Last write wins by the clock (progress/lib.rs:166): unless two reports    *)
(* were under way at once, the row shows the newest of those it took, also   *)
(* when the clock went back between them.                                    *)
NewestReportStays == ~overlap => progress.stamp = newest
=============================================================================
