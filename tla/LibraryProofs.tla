----------------------------- MODULE LibraryProofs -----------------------------
(* What is proved of the components around the catalogue.                    *)
EXTENDS MCLibrary, SequenceTheorems, FiniteSetTheorems, CommonProofs, TLAPS

-----------------------------------------------------------------------------
(* --- Listening ----------------------------------------------------------- *)
(* Proofs about Listening, for any devices, clock and number of reports.     *)

NewestType == newest \in OptionOf(1 .. MaxClock)

\* Until two reports meet, at most one is under way, ...
Alone == ~overlap => \A d, e \in Devices : Busy(d) /\ Busy(e) => d = e
\* ... and one that has passed the check is as new as the row is still.
StillNew ==
  ~overlap => \A d \in Devices : Busy(d) /\ report[d].step = "upsert" =>
                progress.stamp = Nothing \/ report[d].stamp >= progress.stamp

LiInv == LiTypeOK /\ NewestType /\ Alone /\ StillNew /\ NewestReportStays

LEMMA ClockIsInt == 1 .. MaxClock \subseteq Int
  BY ListeningAssumption

\* What a report under way looks like.
LEMMA ReportType ==
  ASSUME LiTypeOK, NEW d \in Devices, Busy(d)
  PROVE  report[d] \in [step : {"select", "upsert", "finish"}, stamp : 1 .. MaxClock, finished : BOOLEAN]
  BY DEF LiTypeOK, Busy, OptionOf

(* The state has its types, as the listener and the devices go on.           *)
THEOREM ListeningTypes == LiSpec => []LiTypeOK
<1>1. LiInit => LiTypeOK
  BY DEF LiInit, LiTypeOK, NoRow, Statuses, OptionOf
<1>2. ASSUME LiTypeOK, [LiStep]_liVars
      PROVE  LiTypeOK'
  <2> USE <1>2
  <2>1. ASSUME NEW d \in Devices, NEW finished \in BOOLEAN, ReadClock(d, finished)
        PROVE  LiTypeOK'
    BY <2>1 DEF ReadClock, LiTypeOK, OptionOf
  <2>2. ASSUME NEW d \in Devices, ReadPrior(d)
        PROVE  LiTypeOK'
    <3>1. [report[d] EXCEPT !.step = "upsert"]
            \in [step : {"select", "upsert", "finish"}, stamp : 1 .. MaxClock, finished : BOOLEAN]
      BY <2>2, ReportType DEF ReadPrior
    <3>2. QED
      BY <2>2, <3>1 DEF ReadPrior, LiTypeOK, OptionOf
  <2>3. ASSUME NEW d \in Devices, Upsert(d)
        PROVE  LiTypeOK'
    <3>1. report[d] \in [step : {"select", "upsert", "finish"}, stamp : 1 .. MaxClock, finished : BOOLEAN]
      BY <2>3, ReportType DEF Upsert
    <3>2. report' \in [Devices -> OptionOf([step : {"select", "upsert", "finish"}, stamp : 1 .. MaxClock, finished : BOOLEAN])]
      BY <2>3, <3>1 DEF Upsert, LiTypeOK, OptionOf
    <3>3. QED
      BY <2>3, <3>1, <3>2 DEF Upsert, LiTypeOK, OptionOf
  <2>4. ASSUME NEW d \in Devices, MarkFinished(d) \/ ReportLost(d)
        PROVE  LiTypeOK'
    BY <2>4 DEF MarkFinished, ReportLost, LiTypeOK, OptionOf, Statuses
  <2>5. ASSUME NEW s \in Statuses, SetStatus(s)
        PROVE  LiTypeOK'
    BY <2>5 DEF SetStatus, LiTypeOK, Statuses
  <2>6. ASSUME NEW r \in {Nothing, "set"}, SetRating(r)
        PROVE  LiTypeOK'
    BY <2>6 DEF SetRating, LiTypeOK
  <2>7. CASE ClockMoves
    BY <2>7 DEF ClockMoves, LiTypeOK
  <2>8. CASE UNCHANGED liVars
    BY <2>8 DEF liVars, LiTypeOK
  <2>9. QED
    BY <2>1, <2>2, <2>3, <2>4, <2>5, <2>6, <2>7, <2>8 DEF LiStep
<1>3. QED
  BY <1>1, <1>2, PTL DEF LiSpec

LEMMA InvInit == LiInit => LiInv
<1>1. LiInit => LiTypeOK
  BY DEF LiInit, LiTypeOK, NoRow, Statuses, OptionOf
<1>2. LiInit => NewestType /\ NewestReportStays
  BY DEF LiInit, NewestType, NewestReportStays, NoRow, OptionOf
<1>3. LiInit => Alone /\ StillNew
  BY DEF LiInit, Alone, StillNew, Busy
<1>4. QED
  BY <1>1, <1>2, <1>3 DEF LiInv

\* A report begins, alone or not.
LEMMA BeginKeeps ==
  ASSUME LiInv, NEW d \in Devices, NEW finished \in BOOLEAN, ReadClock(d, finished)
  PROVE  NewestType' /\ Alone' /\ StillNew' /\ NewestReportStays'
<1>1. NewestType' /\ NewestReportStays'
  BY DEF LiInv, NewestType, NewestReportStays, ReadClock
<1>2. report \in [Devices -> OptionOf([step : {"select", "upsert", "finish"}, stamp : 1 .. MaxClock, finished : BOOLEAN])]
  BY DEF LiInv, LiTypeOK
<1>3. ~overlap' => \A e \in Devices \ {d} : ~Busy(e)
  BY DEF ReadClock
<1>4. \A e \in Devices \ {d} : report'[e] = report[e]
  BY <1>2 DEF ReadClock
<1>5. Alone'
  BY <1>3, <1>4 DEF Alone, Busy
<1>6. report'[d].step = "select"
  BY <1>2 DEF ReadClock
<1>7. StillNew'
  BY <1>3, <1>4, <1>6 DEF StillNew, Busy
<1>8. QED
  BY <1>1, <1>5, <1>7

\* The check: what is left of the report is as new as the row.
LEMMA CheckKeeps ==
  ASSUME LiInv, NEW d \in Devices, ReadPrior(d)
  PROVE  NewestType' /\ Alone' /\ StillNew' /\ NewestReportStays'
<1>1. NewestType' /\ NewestReportStays'
  BY DEF LiInv, NewestType, NewestReportStays, ReadPrior
<1>2. report \in [Devices -> OptionOf([step : {"select", "upsert", "finish"}, stamp : 1 .. MaxClock, finished : BOOLEAN])]
  BY DEF LiInv, LiTypeOK
<1>3. Busy(d) /\ overlap' = overlap /\ progress' = progress
  BY DEF ReadPrior
<1>4. \A e \in Devices \ {d} : report'[e] = report[e]
  BY <1>2 DEF ReadPrior
<1>5. Alone'
  BY <1>3, <1>4 DEF LiInv, Alone, Busy
<1>6. report[d].stamp \in Int
  BY <1>3, ReportType, ClockIsInt DEF LiInv
<1>7. progress.stamp = Nothing \/ progress.stamp \in Int
  BY ClockIsInt DEF LiInv, LiTypeOK, OptionOf
<1>8. \/ report'[d] = Nothing
      \/ /\ ~Stale(progress.stamp, report[d].stamp)
         /\ report'[d] = [report[d] EXCEPT !.step = "upsert"]
  BY <1>2 DEF ReadPrior
<1>9. [report[d] EXCEPT !.step = "upsert"].stamp = report[d].stamp
  BY <1>3, ReportType DEF LiInv
<1>10. ~Stale(progress.stamp, report[d].stamp) =>
         progress.stamp = Nothing \/ report[d].stamp >= progress.stamp
  BY <1>6, <1>7 DEF Stale
<1>11. StillNew'
  <2>1. SUFFICES ASSUME ~overlap, NEW e \in Devices, report'[e] # Nothing, report'[e].step = "upsert"
                 PROVE  progress.stamp = Nothing \/ report'[e].stamp >= progress.stamp
    BY <1>3 DEF StillNew, Busy
  <2>2. CASE e = d
    BY <2>1, <2>2, <1>8, <1>9, <1>10
  <2>3. CASE e # d
    BY <2>1, <2>3, <1>4 DEF LiInv, StillNew, Busy
  <2>4. QED
    BY <2>2, <2>3
<1>12. QED
  BY <1>1, <1>5, <1>11

\* The row takes the report over, and the newest of all with it.
LEMMA UpsertKeeps ==
  ASSUME LiInv, NEW d \in Devices, Upsert(d)
  PROVE  NewestType' /\ Alone' /\ StillNew' /\ NewestReportStays'
<1>1. report \in [Devices -> OptionOf([step : {"select", "upsert", "finish"}, stamp : 1 .. MaxClock, finished : BOOLEAN])]
  BY DEF LiInv, LiTypeOK
<1>2. /\ Busy(d) /\ overlap' = overlap /\ report[d].step = "upsert"
      /\ progress'.stamp = report[d].stamp
  BY DEF Upsert
<1>3. report[d].stamp \in 1 .. MaxClock
  BY <1>2, ReportType DEF LiInv
<1>4. \A e \in Devices \ {d} : report'[e] = report[e]
  BY <1>1 DEF Upsert
<1>5. report'[d] = Nothing \/ report'[d].step = "finish"
  BY <1>1, <1>2, ReportType DEF Upsert, LiInv
<1>6. NewestType'
  BY <1>3 DEF LiInv, NewestType, OptionOf, Upsert
<1>7. NewestReportStays'
  <2>1. SUFFICES ASSUME ~overlap PROVE newest' = report[d].stamp
    BY <1>2 DEF NewestReportStays
  <2>2. newest = Nothing \/ report[d].stamp >= newest
    BY <2>1, <1>2 DEF LiInv, NewestReportStays, StillNew
  <2>3. QED
    BY <2>2 DEF Upsert
<1>8. Alone'
  BY <1>2, <1>4 DEF LiInv, Alone, Busy
<1>9. StillNew'
  BY <1>2, <1>4, <1>5 DEF LiInv, Alone, StillNew, Busy
<1>10. QED
  BY <1>6, <1>7, <1>8, <1>9

\* A report ends; nothing was written but the status.
LEMMA EndKeeps ==
  ASSUME LiInv, NEW d \in Devices, MarkFinished(d) \/ ReportLost(d)
  PROVE  NewestType' /\ Alone' /\ StillNew' /\ NewestReportStays'
<1>1. report \in [Devices -> OptionOf([step : {"select", "upsert", "finish"}, stamp : 1 .. MaxClock, finished : BOOLEAN])]
  BY DEF LiInv, LiTypeOK
<1>2. UNCHANGED <<progress, newest, overlap>> /\ report' = [report EXCEPT ![d] = Nothing]
  BY DEF MarkFinished, ReportLost
<1>3. \A e \in Devices : report'[e] = Nothing \/ report'[e] = report[e]
  BY <1>1, <1>2
<1>4. QED
  BY <1>2, <1>3 DEF LiInv, NewestType, Alone, StillNew, NewestReportStays, Busy

\* What is set by hand leaves the stamp and the reports alone.
LEMMA HandKeeps ==
  ASSUME LiInv, progress'.stamp = progress.stamp, UNCHANGED <<report, newest, overlap>>
  PROVE  NewestType' /\ Alone' /\ StillNew' /\ NewestReportStays'
  BY DEF LiInv, NewestType, Alone, StillNew, NewestReportStays, Busy

LEMMA StatusKeepsStamp ==
  ASSUME LiTypeOK, NEW s \in Statuses, SetStatus(s)
  PROVE  progress'.stamp = progress.stamp
  BY DEF LiTypeOK, SetStatus, Statuses

(* Last write wins by the clock, whatever the clock does and however often   *)
(* reports are lost, as long as no two of them are under way at once.        *)
THEOREM NewestReportWins == LiSpec => []NewestReportStays
<1>1. ASSUME LiInv, LiTypeOK', [LiStep]_liVars
      PROVE  NewestType' /\ Alone' /\ StillNew' /\ NewestReportStays'
  <2> USE <1>1
  <2>1. ASSUME NEW d \in Devices, NEW finished \in BOOLEAN, ReadClock(d, finished)
        PROVE  NewestType' /\ Alone' /\ StillNew' /\ NewestReportStays'
    BY <2>1, BeginKeeps
  <2>2. ASSUME NEW d \in Devices, ReadPrior(d) \/ Upsert(d) \/ MarkFinished(d) \/ ReportLost(d)
        PROVE  NewestType' /\ Alone' /\ StillNew' /\ NewestReportStays'
    BY <2>2, CheckKeeps, UpsertKeeps, EndKeeps
  <2>3. ASSUME NEW s \in Statuses, SetStatus(s)
        PROVE  NewestType' /\ Alone' /\ StillNew' /\ NewestReportStays'
    <3>1. LiTypeOK /\ UNCHANGED <<report, newest, overlap>>
      BY <2>3 DEF SetStatus, LiInv
    <3>2. QED
      BY <3>1, <2>3, StatusKeepsStamp, HandKeeps
  <2>4. CASE UNCHANGED <<progress, report, newest, overlap>>
    BY <2>4, HandKeeps
  <2>5. ASSUME NEW r \in {Nothing, "set"}, SetRating(r)
        PROVE  UNCHANGED <<progress, report, newest, overlap>>
    BY <2>5 DEF SetRating
  <2>6. ClockMoves \/ UNCHANGED liVars => UNCHANGED <<progress, report, newest, overlap>>
    BY DEF ClockMoves, liVars
  <2>7. QED
    BY <2>1, <2>2, <2>3, <2>4, <2>5, <2>6 DEF LiStep
<1>2. LiSpec => []LiTypeOK
  BY ListeningTypes
<1>3. LiInv /\ LiTypeOK' /\ [LiStep]_liVars => LiInv'
  BY <1>1 DEF LiInv
<1>4. LiInv => NewestReportStays
  BY DEF LiInv
<1>5. QED
  BY InvInit, <1>2, <1>3, <1>4, PTL DEF LiSpec

-----------------------------------------------------------------------------
(* --- Bridge -------------------------------------------------------------- *)

-----------------------------------------------------------------------------
\* What a suffix is, place by place.
Ending(s, t) == Len(s) <= Len(t) /\ \A n \in 1 .. Len(s) : s[n] = t[Len(t) - Len(s) + n]

LEMMA SuffixIsEnding ==
  ASSUME NEW s \in Seq(Nat), NEW t \in Seq(Nat)
  PROVE  IsSuffix(s, t) <=> Ending(s, t)
<1>1. /\ Reverse(s) \in Seq(Nat) /\ Len(Reverse(s)) = Len(s)
      /\ \A n \in 1 .. Len(s) : Reverse(s)[n] = s[Len(s) - n + 1]
  BY DEF Reverse
<1>2. /\ Reverse(t) \in Seq(Nat) /\ Len(Reverse(t)) = Len(t)
      /\ \A n \in 1 .. Len(t) : Reverse(t)[n] = t[Len(t) - n + 1]
  BY DEF Reverse
<1>3. Len(s) \in Nat /\ Len(t) \in Nat
  OBVIOUS
<1>4. SUFFICES ASSUME Len(s) <= Len(t) PROVE IsSuffix(s, t) <=> Ending(s, t)
  BY <1>1, <1>2 DEF IsSuffix, IsPrefix, Ending
<1>5. IsSuffix(s, t) <=> \A n \in 1 .. Len(s) : Reverse(s)[n] = Reverse(t)[n]
  <2>1. /\ SubSeq(Reverse(s), 1, Len(s)) \in Seq(Nat) /\ Len(SubSeq(Reverse(s), 1, Len(s))) = Len(s)
        /\ \A n \in 1 .. Len(s) : SubSeq(Reverse(s), 1, Len(s))[n] = Reverse(s)[n]
    BY <1>1, <1>3
  <2>2. /\ SubSeq(Reverse(t), 1, Len(s)) \in Seq(Nat) /\ Len(SubSeq(Reverse(t), 1, Len(s))) = Len(s)
        /\ \A n \in 1 .. Len(s) : SubSeq(Reverse(t), 1, Len(s))[n] = Reverse(t)[n]
    BY <1>2, <1>3, <1>4
  <2>3. SubSeq(Reverse(s), 1, Len(s)) = SubSeq(Reverse(t), 1, Len(s))
          <=> \A n \in 1 .. Len(s) : SubSeq(Reverse(s), 1, Len(s))[n] = SubSeq(Reverse(t), 1, Len(s))[n]
    BY <2>1, <2>2, SeqEqual
  <2>4. QED
    BY <2>1, <2>2, <2>3, <1>1, <1>2, <1>4 DEF IsSuffix, IsPrefix
<1>6. (\A n \in 1 .. Len(s) : Reverse(s)[n] = Reverse(t)[n])
        <=> \A n \in 1 .. Len(s) : s[Len(s) - n + 1] = t[Len(t) - n + 1]
  <2>1. \A n \in 1 .. Len(s) : n \in 1 .. Len(t)
    BY <1>3, <1>4
  <2>2. \A n \in 1 .. Len(s) : Reverse(s)[n] = s[Len(s) - n + 1] /\ Reverse(t)[n] = t[Len(t) - n + 1]
    BY <1>1, <1>2, <2>1, Zenon
  <2>3. ASSUME \A n \in 1 .. Len(s) : Reverse(s)[n] = Reverse(t)[n], NEW n \in 1 .. Len(s)
        PROVE  s[Len(s) - n + 1] = t[Len(t) - n + 1]
    BY <2>2, <2>3
  <2>4. ASSUME \A n \in 1 .. Len(s) : s[Len(s) - n + 1] = t[Len(t) - n + 1], NEW n \in 1 .. Len(s)
        PROVE  Reverse(s)[n] = Reverse(t)[n]
    BY <2>2, <2>4
  <2>5. QED
    BY <2>3, <2>4, Zenon
<1>7. (\A n \in 1 .. Len(s) : s[Len(s) - n + 1] = t[Len(t) - n + 1])
        <=> \A n \in 1 .. Len(s) : s[n] = t[Len(t) - Len(s) + n]
  <2>1. ASSUME \A n \in 1 .. Len(s) : s[Len(s) - n + 1] = t[Len(t) - n + 1], NEW n \in 1 .. Len(s)
        PROVE  s[n] = t[Len(t) - Len(s) + n]
    <3>1. Len(s) - n + 1 \in 1 .. Len(s) /\ Len(s) - (Len(s) - n + 1) + 1 = n
      BY <1>3
    <3>2. Len(t) - (Len(s) - n + 1) + 1 = Len(t) - Len(s) + n
      BY <1>3
    <3>3. QED
      BY <2>1, <3>1, <3>2
  <2>2. ASSUME \A n \in 1 .. Len(s) : s[n] = t[Len(t) - Len(s) + n], NEW n \in 1 .. Len(s)
        PROVE  s[Len(s) - n + 1] = t[Len(t) - n + 1]
    <3>1. Len(s) - n + 1 \in 1 .. Len(s) /\ Len(t) - Len(s) + (Len(s) - n + 1) = Len(t) - n + 1
      BY <1>3
    <3>2. QED
      BY <2>2, <3>1
  <2>3. QED
    BY <2>1, <2>2
<1>8. QED
  BY <1>4, <1>5, <1>6, <1>7 DEF Ending

\* What a snapshot adds is not empty unless the snapshot is, ...
LEMMA DeltaType ==
  ASSUME NEW full \in Seq(Nat), NEW previous \in Seq(Nat)
  PROVE  Delta(full, previous) \in Seq(Nat) /\ (Delta(full, previous) = <<>> => full = <<>>)
<1>1. CASE Len(full) > Len(previous) /\ IsPrefix(previous, full)
  <2>1. Delta(full, previous) = SubSeq(full, Len(previous) + 1, Len(full))
    BY <1>1 DEF Delta
  <2>2. Len(SubSeq(full, Len(previous) + 1, Len(full))) = Len(full) - Len(previous)
    BY <1>1
  <2>3. Delta(full, previous) \in Seq(Nat)
    BY <2>1, SubSeqProperties
  <2>4. Len(Delta(full, previous)) # 0
    BY <2>1, <2>2, <1>1
  <2>5. QED
    BY <2>3, <2>4, EmptySeq
<1>2. CASE ~(Len(full) > Len(previous) /\ IsPrefix(previous, full))
  BY <1>2 DEF Delta
<1>3. QED
  BY <1>1, <1>2

\* What ends with the last snapshot, and then with the rest of this one, ends with it.
LEMMA RestEnds ==
  ASSUME NEW full \in Seq(Nat), NEW previous \in Seq(Nat), NEW sent \in Seq(Nat), NEW d \in Seq(Nat),
         Ending(previous, sent), Len(full) = Len(previous) + Len(d),
         \A n \in 1 .. Len(previous) : full[n] = previous[n],
         \A n \in 1 .. Len(d) : d[n] = full[Len(previous) + n]
  PROVE  Ending(full, sent \o d)
<1>1. /\ Len(sent \o d) = Len(sent) + Len(d)
      /\ \A n \in 1 .. Len(sent) + Len(d) :
           (sent \o d)[n] = IF n <= Len(sent) THEN sent[n] ELSE d[n - Len(sent)]
  BY ConcatProperties
<1>2. Len(full) \in Nat /\ Len(previous) \in Nat /\ Len(sent) \in Nat /\ Len(d) \in Nat
  OBVIOUS
<1>3. Len(previous) <= Len(sent) /\ Len(full) <= Len(sent \o d)
  BY <1>1, <1>2 DEF Ending
<1>4. ASSUME NEW n \in 1 .. Len(full)
      PROVE  full[n] = (sent \o d)[Len(sent \o d) - Len(full) + n]
  <2>0. Len(sent) - Len(previous) + n \in 1 .. Len(sent) + Len(d)
    BY <1>2, <1>3
  <2>1. PICK m \in 1 .. Len(sent) + Len(d) : m = Len(sent) - Len(previous) + n
    BY <2>0, Zenon
  <2>2. Len(sent \o d) - Len(full) + n = m
    BY <1>1, <1>2, <2>1
  <2>3. CASE n \in 1 .. Len(previous)
    <3>1. full[n] = sent[m]
      BY <2>1, <2>3 DEF Ending
    <3>2. m <= Len(sent)
      BY <1>2, <2>1, <2>3
    <3>3. QED
      BY <1>1, <2>2, <3>1, <3>2
  <2>4. CASE n \notin 1 .. Len(previous)
    <3>0. n - Len(previous) \in 1 .. Len(d)
      BY <1>2, <2>4
    <3>1. PICK k \in 1 .. Len(d) : k = n - Len(previous)
      BY <3>0, Zenon
    <3>2. full[n] = d[k]
      <4>1. Len(previous) + k = n
        BY <1>2, <3>1
      <4>2. d[k] = full[Len(previous) + k]
        OBVIOUS
      <4>3. QED
        BY <4>1, <4>2
    <3>3. ~(m <= Len(sent)) /\ m - Len(sent) = k
      BY <1>2, <2>1, <3>1
    <3>4. QED
      BY <1>1, <2>2, <3>2, <3>3
  <2>5. QED
    BY <2>3, <2>4
<1>5. QED
  BY <1>3, <1>4 DEF Ending

\* ... and what was sent, with it, ends with the snapshot.
LEMMA DeltaEnds ==
  ASSUME NEW full \in Seq(Nat), NEW previous \in Seq(Nat), NEW sent \in Seq(Nat), Ending(previous, sent)
  PROVE  Ending(full, sent \o Delta(full, previous))
<1>1. CASE Len(full) > Len(previous) /\ IsPrefix(previous, full)
  <2>0. SubSeq(full, Len(previous) + 1, Len(full)) \in Seq(Nat)
    BY <1>1, SubSeqProperties
  <2>1. PICK d \in Seq(Nat) : d = SubSeq(full, Len(previous) + 1, Len(full))
    BY <2>0, Zenon
  <2>2. Delta(full, previous) = d
    BY <1>1, <2>1 DEF Delta
  <2>3. Len(full) = Len(previous) + Len(d) /\ \A n \in 1 .. Len(d) : d[n] = full[Len(previous) + n]
    BY <1>1, <2>1
  <2>4. ASSUME NEW n \in 1 .. Len(previous)
        PROVE  full[n] = previous[n]
    <3>1. SubSeq(previous, 1, Len(previous))[n] = previous[n]
      OBVIOUS
    <3>2. SubSeq(full, 1, Len(previous))[n] = full[n]
      BY <1>1
    <3>3. QED
      BY <1>1, <3>1, <3>2 DEF IsPrefix
  <2>5. QED
    BY <2>2, <2>3, <2>4, RestEnds
<1>2. CASE ~(Len(full) > Len(previous) /\ IsPrefix(previous, full))
  <2>1. Delta(full, previous) = full
    BY <1>2 DEF Delta
  <2>2. Ending(<<>>, sent) /\ <<>> \in Seq(Nat) /\ Len(<<>>) = 0
    BY DEF Ending
  <2>3. (\A n \in 1 .. 0 : full[n] = <<>>[n]) /\ \A n \in 1 .. Len(full) : full[n] = full[0 + n]
    OBVIOUS
  <2>4. Len(full) = 0 + Len(full)
    OBVIOUS
  <2>5. QED
    BY <2>1, <2>2, <2>3, <2>4, RestEnds
<1>3. QED
  BY <1>1, <1>2

-----------------------------------------------------------------------------
(* The two tables of numbers                                                 *)

Errors(k) ==
  CASE k \in FmKinds -> DOMAIN FmErrorCode [] k \in AudioKinds -> DOMAIN AudioErrorCode
    [] k \in SpeechKinds \cup {"detect"} -> DOMAIN SpeechErrorCode
NameOf(k, e) ==
  CASE k \in FmKinds /\ e \in DOMAIN FmNames -> FmNames[e] [] k = "detect" -> "Stage" [] OTHER -> RustName[e]

LEMMA FmNumbers ==
  ASSUME NEW k \in FmKinds, NEW e \in DOMAIN FmErrorCode
  PROVE  ErrorCode(k, e) # 0 /\ FromCode(k, ErrorCode(k, e)) = NameOf(k, e)
<1>1. ErrorCode(k, e) = FmErrorCode[e]
  BY DEF ErrorCode, FmKinds, AudioKinds, SpeechKinds
<1>2. \A n : FromCode(k, n) = FmFromCode(n)
  BY DEF FromCode, FmKinds, AudioKinds, SpeechKinds
<1>3. NameOf(k, e) = IF e \in DOMAIN FmNames THEN FmNames[e] ELSE RustName[e]
  BY DEF NameOf, FmKinds
<1>4. FmErrorCode[e] # 0 /\ FmFromCode(FmErrorCode[e]) = IF e \in DOMAIN FmNames THEN FmNames[e] ELSE RustName[e]
  BY DEF FmErrorCode, FmFromCode, FmNames, RustName
<1>5. QED
  BY <1>1, <1>2, <1>3, <1>4

LEMMA SpeechNumbers ==
  ASSUME NEW k \in SpeechKinds, NEW e \in DOMAIN SpeechErrorCode
  PROVE  ErrorCode(k, e) # 0 /\ FromCode(k, ErrorCode(k, e)) = NameOf(k, e)
<1>1. ErrorCode(k, e) = SpeechErrorCode[e]
  BY DEF ErrorCode, FmKinds, AudioKinds, SpeechKinds
<1>2. \A n : FromCode(k, n) = SpeechFromCode(n)
  BY DEF FromCode, FmKinds, AudioKinds, SpeechKinds
<1>3. NameOf(k, e) = RustName[e]
  BY DEF NameOf, FmKinds, SpeechKinds
<1>4. SpeechErrorCode[e] # 0 /\ SpeechFromCode(SpeechErrorCode[e]) = RustName[e]
  BY DEF SpeechErrorCode, SpeechFromCode, RustName
<1>5. QED
  BY <1>1, <1>2, <1>3, <1>4

LEMMA AudioNumbers ==
  ASSUME NEW k \in AudioKinds, NEW e \in DOMAIN AudioErrorCode
  PROVE  ErrorCode(k, e) # 0 /\ FromCode(k, ErrorCode(k, e)) = NameOf(k, e)
<1>1. ErrorCode(k, e) = AudioErrorCode[e]
  BY DEF ErrorCode, FmKinds, AudioKinds, SpeechKinds
<1>2. \A n : FromCode(k, n) = AudioFromCode(n)
  BY DEF FromCode, FmKinds, AudioKinds, SpeechKinds
<1>3. NameOf(k, e) = RustName[e]
  BY DEF NameOf, FmKinds, AudioKinds
<1>4. AudioErrorCode[e] # 0 /\ AudioFromCode(AudioErrorCode[e]) = RustName[e]
  BY DEF AudioErrorCode, AudioFromCode, RustName
<1>5. QED
  BY <1>1, <1>2, <1>3, <1>4

\* An error comes out of the number it was put into.
LEMMA NumbersAgree ==
  ASSUME NEW k \in Kinds, NEW e \in Errors(k)
  PROVE  ErrorCode(k, e) # 0 /\ FromCode(k, ErrorCode(k, e)) = NameOf(k, e)
<1>1. CASE k \in FmKinds
  BY <1>1, FmNumbers DEF Errors, FmKinds, AudioKinds, SpeechKinds
<1>2. CASE k \in SpeechKinds
  BY <1>2, SpeechNumbers DEF Errors, FmKinds, AudioKinds, SpeechKinds
<1>3. CASE k \in AudioKinds
  BY <1>3, AudioNumbers DEF Errors, FmKinds, AudioKinds, SpeechKinds
<1>4. CASE k = "detect"
  <2>1. e \in DOMAIN SpeechErrorCode /\ ErrorCode(k, e) = SpeechErrorCode[e]
    BY <1>4 DEF Errors, ErrorCode, FmKinds, AudioKinds, SpeechKinds
  <2>2. SpeechErrorCode[e] # 0
    BY <2>1 DEF SpeechErrorCode
  <2>3. FromCode(k, ErrorCode(k, e)) = "Stage" /\ NameOf(k, e) = "Stage"
    BY <1>4 DEF FromCode, NameOf, FmKinds, AudioKinds, SpeechKinds
  <2>4. QED
    BY <2>1, <2>2, <2>3
<1>5. QED
  BY <1>1, <1>2, <1>3, <1>4, BridgeAssumption

-----------------------------------------------------------------------------
(* The invariant                                                             *)

AtWork == {"running", "streaming", "installing", "exporting"}

Domains ==
  /\ DOMAIN entry = Calls /\ DOMAIN caller = Calls /\ DOMAIN ctx = Calls /\ DOMAIN task = Calls
  /\ DOMAIN chan = Calls /\ DOMAIN answer = Calls /\ DOMAIN raised = Calls
  /\ DOMAIN text = Calls /\ DOMAIN got = Calls /\ DOMAIN emptied = Calls
HostType == host \in {"modern", "old", "bare"} /\ model \in {"available", "disabled", "notEligible", "notReady"}

\* What a call that was begun is for, and where one stands that was not.
Begun(c) ==
  /\ entry[c] \in OptionOf(CallEntries) /\ got[c] \in Seq(Nat) /\ text[c] \in Seq(Nat)
  /\ caller[c] = "idle" => task[c] = "none" /\ answer[c] = Nothing /\ chan[c] = Nothing
  /\ task[c] = "none" => ctx[c] = "none" /\ raised[c] = Nothing
  /\ task[c] # "none" => entry[c] # Nothing /\ host # "bare"
  /\ task[c] = "streaming" => entry[c].kind = "stream"
  /\ raised[c] # Nothing => entry[c] # Nothing /\ raised[c] \in Errors(entry[c].kind)
\* While Swift is at work the box lives and nothing has come back; then, the
\* number of an error is on its way to the caller, or its name is there.
Once(c) ==
  /\ ctx[c] = "leaked" <=> Working(c)
  /\ Ending(text[c], got[c])
  /\ Working(c) => chan[c] = Nothing /\ answer[c] = Nothing /\ raised[c] = Nothing
  /\ chan[c] # Nothing /\ raised[c] # Nothing => chan[c].code = ErrorCode(entry[c].kind, raised[c])
  /\ answer[c] # Nothing /\ raised[c] # Nothing => answer[c] = NameOf(entry[c].kind, raised[c])
CallInv(c) == Begun(c) /\ (~emptied[c] => Once(c))

BrInv == Domains /\ HostType /\ \A c \in Calls : CallInv(c)

LEMMA BrInvInit == BrInit => BrInv
<1> SUFFICES ASSUME BrInit PROVE BrInv
  OBVIOUS
<1>1. Domains /\ HostType
  BY BridgeAssumption DEF BrInit, Domains, HostType
<1>2. ASSUME NEW c \in Calls
      PROVE  Begun(c)
  BY DEF BrInit, Begun, OptionOf
<1>3. ASSUME NEW c \in Calls
      PROVE  Once(c)
  BY DEF BrInit, Once, Working, Ending
<1>4. QED
  BY <1>1, <1>2, <1>3 DEF BrInv, CallInv

\* A step of one call leaves the others where they are.
At(d) == <<entry[d], caller[d], ctx[d], task[d], chan[d], answer[d], raised[d], text[d], got[d], emptied[d]>>
LEMMA SameCall ==
  ASSUME NEW d \in Calls, CallInv(d), UNCHANGED At(d), UNCHANGED host
  PROVE  CallInv(d)'
<1>1. /\ entry'[d] = entry[d] /\ caller'[d] = caller[d] /\ ctx'[d] = ctx[d] /\ task'[d] = task[d]
      /\ chan'[d] = chan[d] /\ answer'[d] = answer[d] /\ raised'[d] = raised[d]
      /\ text'[d] = text[d] /\ got'[d] = got[d] /\ emptied'[d] = emptied[d]
  BY DEF At
<1>2. Begun(d) => Begun(d)'
  BY <1>1 DEF Begun
<1>3. Once(d) => Once(d)'
  BY <1>1 DEF Once, Working
<1>4. QED
  BY <1>1, <1>2, <1>3 DEF CallInv

\* The last callback of a call, with an answer or with an error, ...
Fired(c) ==
  /\ Working(c) /\ Quiet
  /\ (\E p \in {"json", "text", "none", "samples"} : Succeed(c, p)) \/ \E e \in Errors(entry[c].kind) : FireError(c, e)
\* ... and a step to another place of work.
Moved(c) ==
  /\ Working(c) /\ Quiet /\ UNCHANGED <<ctx, chan, raised>>
  /\ \E t \in AtWork : (t = "streaming" => entry[c].kind = "stream") /\ task' = [task EXCEPT ![c] = t]

LEMMA FiredKeeps ==
  ASSUME BrInv, NEW c \in Calls, Fired(c)
  PROVE  BrInv'
<1>1. /\ UNCHANGED <<host, model, entry, caller, answer, text, got, emptied>>
      /\ ctx' = [ctx EXCEPT ![c] = "freed"] /\ task' = [task EXCEPT ![c] = "done"]
  BY DEF Fired, Quiet, streamVars, Succeed, FireError, Fire
<1>2. Domains'
  BY <1>1 DEF Fired, Succeed, FireError, Fire, BrInv, Domains
<1>3. HostType'
  BY <1>1 DEF BrInv, HostType
<1>4. ASSUME NEW d \in Calls, d # c
      PROVE  CallInv(d)'
  <2>1. chan'[d] = chan[d] /\ raised'[d] = raised[d]
    BY <1>4 DEF Fired, Succeed, FireError, Fire, BrInv, Domains
  <2>2. UNCHANGED At(d) /\ UNCHANGED host
    BY <1>1, <1>4, <2>1 DEF At, BrInv, Domains
  <2>3. QED
    BY <2>2, SameCall DEF BrInv
<1>5. /\ ctx'[c] = "freed" /\ task'[c] = "done" /\ entry'[c] = entry[c] /\ caller'[c] = caller[c]
      /\ answer'[c] = answer[c] /\ text'[c] = text[c] /\ got'[c] = got[c] /\ emptied'[c] = emptied[c]
  BY <1>1 DEF BrInv, Domains
<1>6. Begun(c) /\ (~emptied[c] => Once(c)) /\ Working(c)
  BY DEF BrInv, CallInv, Fired
<1>7. task[c] # "none" /\ entry[c] # Nothing /\ entry[c] \in CallEntries
  BY <1>6 DEF Begun, Working, OptionOf
<1>8. CASE \E p \in {"json", "text", "none", "samples"} : Succeed(c, p)
  <2>1. raised'[c] = raised[c]
    BY <1>8 DEF Succeed
  <2>2. Begun(c)'
    BY <1>1, <1>5, <1>6, <1>7, <2>1 DEF Begun
  <2>3. ~emptied[c] => Once(c)'
    BY <1>5, <1>6, <2>1 DEF Once, Working
  <2>4. QED
    BY <1>2, <1>3, <1>4, <1>5, <2>2, <2>3 DEF BrInv, CallInv
<1>9. CASE \E e \in Errors(entry[c].kind) : FireError(c, e)
  <2>1. PICK e \in Errors(entry[c].kind) : FireError(c, e)
    BY <1>9
  <2>2. raised'[c] = e /\ (chan'[c] = chan[c] \/ chan'[c].code = ErrorCode(entry[c].kind, e))
    BY <2>1 DEF FireError, Fire, BrInv, Domains
  <2>3. Begun(c)'
    BY <1>1, <1>5, <1>6, <1>7, <2>1, <2>2 DEF Begun
  <2>4. ~emptied[c] => Once(c)'
    BY <1>5, <1>6, <2>2 DEF Once, Working
  <2>5. QED
    BY <1>2, <1>3, <1>4, <1>5, <2>3, <2>4 DEF BrInv, CallInv
<1>10. QED
  BY <1>8, <1>9 DEF Fired

LEMMA MovedKeeps ==
  ASSUME BrInv, NEW c \in Calls, Moved(c)
  PROVE  BrInv'
<1>1. UNCHANGED <<host, model, entry, caller, answer, text, got, emptied, ctx, chan, raised>>
  BY DEF Moved, Quiet, streamVars
<1>2. PICK t \in AtWork : (t = "streaming" => entry[c].kind = "stream") /\ task' = [task EXCEPT ![c] = t]
  BY DEF Moved
<1>3. Domains' /\ HostType'
  BY <1>1, <1>2 DEF BrInv, Domains, HostType
<1>4. ASSUME NEW d \in Calls, d # c
      PROVE  CallInv(d)'
  <2>1. UNCHANGED At(d) /\ UNCHANGED host
    BY <1>1, <1>2, <1>4 DEF At, BrInv, Domains
  <2>2. QED
    BY <2>1, SameCall DEF BrInv
<1>5. CallInv(c)'
  <2>1. task'[c] = t /\ task[c] \in AtWork
    BY <1>2 DEF BrInv, Domains, Moved, Working, AtWork
  <2>2. CallInv(c)
    BY DEF BrInv
  <2>3. Begun(c)'
    BY <1>1, <1>2, <2>1, <2>2 DEF CallInv, Begun, AtWork
  <2>4. ~emptied[c] => Once(c)'
    BY <1>1, <2>1, <2>2 DEF CallInv, Once, Working, AtWork
  <2>5. QED
    BY <1>1, <2>3, <2>4 DEF CallInv
<1>6. QED
  BY <1>3, <1>4, <1>5 DEF BrInv

-----------------------------------------------------------------------------
(* Each entry answers once, or goes on to another place of work              *)

LEMMA ErrorsOf ==
  /\ \A k \in FmKinds :
       Errors(k) = {"frameworkUnavailable", "encode", "modelUnavailable", "appleIntelligenceDisabled",
                    "deviceNotEligible", "promptEmpty", "generationFailed", "schemaParseFailure",
                    "schemaUnsupportedShape"}
  /\ \A k \in SpeechKinds \cup {"detect"} :
       Errors(k) = {"generic", "frameworkUnavailable", "localeUnsupported", "modelNotInstalled", "windowEmpty",
                    "noCompatibleAudioFormat", "readFailure", "encode"}
  /\ \A k \in AudioKinds :
       Errors(k) = {"generic", "assetLoadFailed", "noAudioTrack", "windowEmpty", "readFailure",
                    "exportSetupFailed", "exportRunFailed"}
<1>1. \A k \in FmKinds : Errors(k) = DOMAIN FmErrorCode
  BY DEF Errors, FmKinds, AudioKinds, SpeechKinds
<1>2. \A k \in SpeechKinds \cup {"detect"} : Errors(k) = DOMAIN SpeechErrorCode
  BY DEF Errors, FmKinds, AudioKinds, SpeechKinds
<1>3. \A k \in AudioKinds : Errors(k) = DOMAIN AudioErrorCode
  BY DEF Errors, FmKinds, AudioKinds, SpeechKinds
<1>4. QED
  BY <1>1, <1>2, <1>3 DEF FmErrorCode, SpeechErrorCode, AudioErrorCode

\* What stops a generation is an error of the models.
LEMMA RefusalIsError ==
  ASSUME BrInv, NEW c \in Calls, task[c] # "none", Refusal(c) # Nothing, NEW k \in FmKinds
  PROVE  Refusal(c) \in Errors(k)
<1>1. host \in {"modern", "old"} /\ model \in {"available", "disabled", "notEligible", "notReady"}
  BY DEF BrInv, HostType, CallInv, Begun
<1>2. CASE host = "old"
  BY <1>2, ErrorsOf DEF Refusal
<1>3. CASE host = "modern" /\ model = "disabled"
  BY <1>3, ErrorsOf DEF Refusal
<1>4. CASE host = "modern" /\ model = "notEligible"
  BY <1>4, ErrorsOf DEF Refusal
<1>5. CASE host = "modern" /\ model = "notReady"
  BY <1>5, ErrorsOf DEF Refusal
<1>6. CASE host = "modern" /\ model = "available"
  <2>1. Refusal(c) = IF InputIs(c, "empty") THEN "promptEmpty" ELSE Nothing
    BY <1>6 DEF Refusal
  <2>2. QED
    BY <2>1, ErrorsOf
<1>7. QED
  BY <1>1, <1>2, <1>3, <1>4, <1>5, <1>6

LEMMA ModelEntries ==
  ASSUME BrInv, NEW c \in Calls, StatusEntry(c) \/ LanguagesEntry(c) \/ CompleteEntry(c) \/ StructuredEntry(c)
  PROVE  Fired(c)
<1>1. Quiet /\ Working(c) /\ task[c] # "none" /\ entry[c].kind \in FmKinds
  BY DEF StatusEntry, LanguagesEntry, CompleteEntry, StructuredEntry, Is, Still, Working, FmKinds
<1>2. Refusal(c) # Nothing => Refusal(c) \in Errors(entry[c].kind)
  BY <1>1, RefusalIsError
<1>3. "encode" \in Errors(entry[c].kind) /\ "generationFailed" \in Errors(entry[c].kind)
  BY <1>1, ErrorsOf
<1>4. BuildDynamicSchema(entry[c].input) # Nothing => BuildDynamicSchema(entry[c].input) \in Errors(entry[c].kind)
  BY <1>1, ErrorsOf DEF BuildDynamicSchema
<1>5. CASE StatusEntry(c) \/ LanguagesEntry(c)
  BY <1>1, <1>3, <1>5 DEF StatusEntry, LanguagesEntry, Fired
<1>6. CASE CompleteEntry(c)
  BY <1>1, <1>2, <1>3, <1>6 DEF CompleteEntry, Fired
<1>7. CASE StructuredEntry(c)
  BY <1>1, <1>2, <1>3, <1>4, <1>7, Zenon DEF StructuredEntry, Fired
<1>8. QED
  BY <1>5, <1>6, <1>7

LEMMA SpeechEntries ==
  ASSUME BrInv, NEW c \in Calls,
         LocaleEntry(c) \/ InstallEntry(c) \/ InstallEnds(c) \/ WindowEntry(c) \/ DetectEntry(c)
  PROVE  Fired(c) \/ Moved(c)
<1>1. Quiet /\ Working(c) /\ entry[c].kind \in SpeechKinds \cup {"detect"}
  BY DEF LocaleEntry, InstallEntry, InstallEnds, WindowEntry, DetectEntry, Is, Still, Working, SpeechKinds
<1>2. \A e \in {"generic", "frameworkUnavailable", "localeUnsupported", "modelNotInstalled", "windowEmpty",
              "noCompatibleAudioFormat", "readFailure", "encode"} : e \in Errors(entry[c].kind)
  BY <1>1, ErrorsOf
<1>3. CASE LocaleEntry(c)
  BY <1>1, <1>2, <1>3 DEF LocaleEntry, Fired
<1>4. CASE InstallEntry(c)
  BY <1>1, <1>2, <1>4 DEF InstallEntry, Fired, Moved, AtWork
<1>5. CASE InstallEnds(c)
  BY <1>1, <1>2, <1>5 DEF InstallEnds, Fired
<1>6. CASE WindowEntry(c)
  BY <1>1, <1>2, <1>6 DEF WindowEntry, Fired
<1>7. CASE DetectEntry(c)
  BY <1>1, <1>2, <1>7 DEF DetectEntry, Fired
<1>8. QED
  BY <1>3, <1>4, <1>5, <1>6, <1>7

LEMMA AudioEntries ==
  ASSUME BrInv, NEW c \in Calls, ReadEntry(c) \/ TranscodeEntry(c) \/ TranscodeEnds(c)
  PROVE  Fired(c) \/ Moved(c)
<1>1. Quiet /\ Working(c) /\ entry[c].kind \in AudioKinds
  BY DEF ReadEntry, TranscodeEntry, TranscodeEnds, Is, Still, Working, AudioKinds
<1>2. \A e \in {"generic", "assetLoadFailed", "noAudioTrack", "windowEmpty", "readFailure",
              "exportSetupFailed", "exportRunFailed"} : e \in Errors(entry[c].kind)
  BY <1>1, ErrorsOf
<1>3. CASE ReadEntry(c)
  BY <1>1, <1>2, <1>3 DEF ReadEntry, Fired
<1>4. CASE TranscodeEntry(c)
  BY <1>1, <1>2, <1>4 DEF TranscodeEntry, Fired, Moved, AtWork
<1>5. CASE TranscodeEnds(c)
  BY <1>1, <1>2, <1>5 DEF TranscodeEnds, Fired
<1>6. QED
  BY <1>3, <1>4, <1>5

-----------------------------------------------------------------------------
(* The stream                                                                *)

\* What a step leaves of the calls that it is not about.
Only(c) ==
  /\ \A d \in Calls \ {c} : UNCHANGED At(d)
  /\ UNCHANGED host

LEMMA OnlyOne ==
  ASSUME BrInv, NEW c \in Calls, Domains', HostType', Only(c), CallInv(c)'
  PROVE  BrInv'
<1>1. ASSUME NEW d \in Calls, d # c
      PROVE  CallInv(d)'
  BY <1>1, SameCall DEF Only, BrInv
<1>2. QED
  BY <1>1 DEF BrInv

\* No bytes without an address end the stream for Rust, and only an empty
\* snapshot sends none.
LEMMA SnapshotKeeps ==
  ASSUME BrInv, NEW c \in Calls, NEW full \in Snapshots, StreamSnapshot(c, full)
  PROVE  BrInv'
<1>1. UNCHANGED <<host, model, entry, caller, task, answer, raised>>
  BY DEF StreamSnapshot
<1>2. text' = [text EXCEPT ![c] = full] /\ emptied' = [emptied EXCEPT ![c] = @ \/ full = <<>>]
  BY DEF StreamSnapshot
<1>3. PICK d : d = Delta(full, text[c])
  OBVIOUS
<1>4. PICK null \in BOOLEAN : (null => d = <<>>) /\ OnStream(c, null, d, 0)
  BY <1>3 DEF StreamSnapshot
<1>5. full \in Seq(Nat) /\ text[c] \in Seq(Nat) /\ got[c] \in Seq(Nat)
  BY BridgeAssumption DEF BrInv, CallInv, Begun
<1>6. d \in Seq(Nat) /\ (d = <<>> => full = <<>>)
  BY <1>3, <1>5, DeltaType
<1>7. Domains' /\ HostType'
  BY <1>1, <1>2, <1>4 DEF BrInv, Domains, HostType, OnStream
<1>8. Only(c)
  BY <1>1, <1>2, <1>4 DEF BrInv, Domains, OnStream, Only, At
<1>9. /\ entry'[c] = entry[c] /\ caller'[c] = caller[c] /\ task'[c] = task[c] /\ answer'[c] = answer[c]
      /\ raised'[c] = raised[c] /\ text'[c] = full /\ (emptied'[c] <=> emptied[c] \/ full = <<>>)
  BY <1>1, <1>2 DEF BrInv, Domains
<1>10. Begun(c) /\ (~emptied[c] => Once(c)) /\ task[c] = "streaming"
  BY DEF BrInv, CallInv, StreamSnapshot, Is
<1>11. got'[c] = got[c] \/ got'[c] = got[c] \o d
  BY <1>4 DEF BrInv, Domains, OnStream
<1>12. Begun(c)'
  <2>1. caller[c] # "idle"
    BY <1>10 DEF Begun
  <2>2. got'[c] \in Seq(Nat)
    BY <1>5, <1>6, <1>11, ConcatProperties
  <2>3. QED
    BY <1>1, <1>5, <1>9, <1>10, <2>1, <2>2 DEF Begun
<1>13. ASSUME ~emptied'[c]
       PROVE  Once(c)'
  <2>1. ~emptied[c] /\ full # <<>> /\ d # <<>> /\ ~null
    BY <1>4, <1>6, <1>9, <1>13
  <2>2. Once(c) /\ ctx[c] = "leaked"
    BY <1>10, <2>1 DEF Once, Working
  <2>3. ctx'[c] = ctx[c] /\ chan'[c] = chan[c] /\ got'[c] = got[c] \o d
    BY <1>4, <2>1, <2>2 DEF BrInv, Domains, OnStream
  <2>4. Ending(full, got'[c])
    BY <1>3, <1>5, <2>2, <2>3, DeltaEnds DEF Once
  <2>5. Ending(text[c], got[c])'
    BY <1>9, <2>4
  <2>6. QED
    BY <1>9, <2>2, <2>3, <2>5 DEF Once, Working
<1>14. QED
  BY <1>7, <1>8, <1>12, <1>13, OnlyOne DEF CallInv

LEMMA EndCallKeeps ==
  ASSUME BrInv, NEW c \in Calls, StreamEnds(c)
  PROVE  BrInv'
<1>1. /\ UNCHANGED <<host, model, entry, caller, answer, raised, text, emptied>>
      /\ task' = [task EXCEPT ![c] = "done"] /\ OnStream(c, TRUE, <<>>, 0)
  BY DEF StreamEnds
<1>2. Domains' /\ HostType'
  BY <1>1 DEF BrInv, Domains, HostType, OnStream
<1>3. Only(c)
  BY <1>1 DEF BrInv, Domains, OnStream, Only, At
<1>4. /\ entry'[c] = entry[c] /\ caller'[c] = caller[c] /\ task'[c] = "done" /\ answer'[c] = answer[c]
      /\ raised'[c] = raised[c] /\ text'[c] = text[c] /\ emptied'[c] = emptied[c] /\ got'[c] = got[c]
      /\ ctx'[c] = "freed"
  BY <1>1 DEF BrInv, Domains, OnStream
<1>5. Begun(c) /\ (~emptied[c] => Once(c)) /\ task[c] = "streaming"
  BY DEF BrInv, CallInv, StreamEnds, Is
<1>6. Begun(c)'
  <2>1. caller[c] # "idle"
    BY <1>5 DEF Begun
  <2>2. QED
    BY <1>1, <1>4, <1>5, <2>1 DEF Begun
<1>7. ASSUME ~emptied[c]
      PROVE  Once(c)'
  BY <1>4, <1>5, <1>7 DEF Once, Working
<1>8. QED
  BY <1>2, <1>3, <1>4, <1>6, <1>7, OnlyOne DEF CallInv

LEMMA FailureKeeps ==
  ASSUME BrInv, NEW c \in Calls, StreamFails(c)
  PROVE  BrInv'
<1>1. PICK e : e = IF task[c] = "streaming" THEN "generationFailed" ELSE Refusal(c)
  OBVIOUS
<1>2. /\ UNCHANGED <<host, model, entry, caller, answer, text, emptied>>
      /\ task' = [task EXCEPT ![c] = "done"] /\ raised' = [raised EXCEPT ![c] = e]
      /\ OnStream(c, TRUE, <<>>, FmErrorCode[e])
  BY <1>1 DEF StreamFails
<1>3. entry[c] # Nothing /\ entry[c].kind = "stream" /\ task[c] \in {"running", "streaming"}
  BY DEF StreamFails, Is
<1>4. e \in Errors("stream")
  <2>1. CASE task[c] = "streaming"
    BY <1>1, <2>1, ErrorsOf DEF FmKinds
  <2>2. CASE task[c] # "streaming"
    BY <1>1, <1>3, <2>2, RefusalIsError DEF FmKinds, StreamFails, Is
  <2>3. QED
    BY <2>1, <2>2
<1>5. FmErrorCode[e] = ErrorCode("stream", e)
  BY DEF ErrorCode, FmKinds, AudioKinds, SpeechKinds
<1>6. Domains' /\ HostType'
  BY <1>2 DEF BrInv, Domains, HostType, OnStream
<1>7. Only(c)
  BY <1>2 DEF BrInv, Domains, OnStream, Only, At
<1>8. /\ entry'[c] = entry[c] /\ caller'[c] = caller[c] /\ task'[c] = "done" /\ answer'[c] = answer[c]
      /\ raised'[c] = e /\ text'[c] = text[c] /\ emptied'[c] = emptied[c] /\ got'[c] = got[c]
      /\ ctx'[c] = "freed" /\ (chan'[c] = chan[c] \/ chan'[c].code = FmErrorCode[e])
  BY <1>2 DEF BrInv, Domains, OnStream
<1>9. Begun(c) /\ (~emptied[c] => Once(c))
  BY DEF BrInv, CallInv
<1>10. Begun(c)'
  <2>1. caller[c] # "idle"
    BY <1>3, <1>9 DEF Begun
  <2>2. QED
    BY <1>2, <1>3, <1>4, <1>8, <1>9, <2>1 DEF Begun
<1>11. ASSUME ~emptied[c]
       PROVE  Once(c)'
  BY <1>3, <1>5, <1>8, <1>9, <1>11 DEF Once, Working
<1>12. QED
  BY <1>6, <1>7, <1>8, <1>10, <1>11, OnlyOne DEF CallInv

-----------------------------------------------------------------------------
(* The caller                                                                *)

LEMMA CallKeeps ==
  ASSUME BrInv, NEW c \in Calls, NEW k \in Kinds, NEW i \in Inputs(k), Call(c, k, i)
  PROVE  BrInv'
<1>1. /\ UNCHANGED <<host, model, chan, raised, text, got, emptied>> /\ caller[c] = "idle"
      /\ entry' = [entry EXCEPT ![c] = [kind |-> k, input |-> i]]
  BY DEF Call, streamVars
<1>2. [kind |-> k, input |-> i] \in CallEntries
  <2>1. Inputs(k) \subseteq {"good", "nul", "empty", "notJson", "oddShape"}
    BY BridgeAssumption DEF Inputs, FmKinds, SpeechKinds, AudioKinds
  <2>2. QED
    BY <2>1 DEF CallEntries
<1>3. [kind |-> k, input |-> i] # Nothing
  BY <1>2, BridgeAssumption
<1>4. Domains' /\ HostType'
  BY <1>1 DEF BrInv, Domains, HostType, Call
<1>5. Only(c)
  BY <1>1 DEF BrInv, Domains, Call, Only, At
<1>6. /\ entry'[c] = [kind |-> k, input |-> i] /\ chan'[c] = chan[c] /\ raised'[c] = raised[c]
      /\ text'[c] = text[c] /\ got'[c] = got[c] /\ emptied'[c] = emptied[c]
  BY <1>1 DEF BrInv, Domains
<1>7. Begun(c) /\ (~emptied[c] => Once(c))
  BY DEF BrInv, CallInv
<1>8. task[c] = "none" /\ answer[c] = Nothing /\ chan[c] = Nothing /\ ctx[c] = "none" /\ raised[c] = Nothing
  BY <1>1, <1>7 DEF Begun
<1>9. CASE EarlyAnswer(k, i) # Nothing
  <2>1. caller'[c] = "answered" /\ ctx'[c] = ctx[c] /\ task'[c] = task[c]
    BY <1>9 DEF BrInv, Domains, Call
  <2>2. Begun(c)'
    BY <1>1, <1>2, <1>6, <1>7, <1>8, <2>1 DEF Begun, OptionOf
  <2>3. ~emptied[c] => Once(c)'
    BY <1>6, <1>7, <1>8, <2>1 DEF Once, Working
  <2>4. QED
    BY <1>4, <1>5, <1>6, <2>2, <2>3, OnlyOne DEF CallInv
<1>10. CASE EarlyAnswer(k, i) = Nothing
  <2>1. caller'[c] = "waiting" /\ ctx'[c] = "leaked" /\ task'[c] = "running" /\ answer'[c] = answer[c]
    BY <1>10 DEF BrInv, Domains, Call
  <2>2. host # "bare"
    <3>1. ASSUME host = "bare"
          PROVE  EarlyAnswer(k, i) \in {"report", "BridgeUnavailable"}
      <4>1. EarlyAnswer(k, i) = IF k = "status" THEN "report" ELSE "BridgeUnavailable"
        BY <3>1 DEF EarlyAnswer
      <4>2. QED
        BY <4>1
    <3>2. QED
      BY <1>10, <3>1, BridgeAssumption
  <2>3. Begun(c)'
    BY <1>1, <1>2, <1>3, <1>6, <1>7, <1>8, <2>1, <2>2 DEF Begun, OptionOf
  <2>4. ~emptied[c] => Once(c)'
    BY <1>6, <1>7, <1>8, <2>1 DEF Once, Working
  <2>5. QED
    BY <1>4, <1>5, <1>6, <2>3, <2>4, OnlyOne DEF CallInv
<1>11. QED
  BY <1>9, <1>10

LEMMA ReceiveKeeps ==
  ASSUME BrInv, NEW c \in Calls, Receive(c)
  PROVE  BrInv'
<1>1. /\ UNCHANGED <<host, model, entry, ctx, task, raised, text, got, emptied>>
      /\ chan[c] # Nothing /\ chan' = [chan EXCEPT ![c] = Nothing]
      /\ caller' = [caller EXCEPT ![c] = "answered"]
      /\ answer' = [answer EXCEPT ![c] = Decode(entry[c].kind, chan[c])]
  BY DEF Receive, streamVars
<1>2. Domains' /\ HostType'
  BY <1>1 DEF BrInv, Domains, HostType
<1>3. Only(c)
  BY <1>1 DEF BrInv, Domains, Only, At
<1>4. /\ caller'[c] = "answered" /\ chan'[c] = Nothing /\ answer'[c] = Decode(entry[c].kind, chan[c])
  BY <1>1 DEF BrInv, Domains
<1>5. Begun(c) /\ (~emptied[c] => Once(c))
  BY DEF BrInv, CallInv
<1>6. Begun(c)'
  BY <1>1, <1>4, <1>5 DEF Begun
<1>7. ASSUME ~emptied[c]
      PROVE  Once(c)'
  <2>1. Once(c) /\ ~Working(c)
    BY <1>1, <1>5, <1>7 DEF Once
  <2>2. ASSUME raised[c] # Nothing
        PROVE  Decode(entry[c].kind, chan[c]) = NameOf(entry[c].kind, raised[c])
    <3>1. entry[c].kind \in Kinds /\ raised[c] \in Errors(entry[c].kind)
      BY <1>5, <2>2 DEF Begun, OptionOf, CallEntries
    <3>2. chan[c].code = ErrorCode(entry[c].kind, raised[c])
      BY <1>1, <2>1, <2>2 DEF Once
    <3>3. chan[c].code # 0 /\ FromCode(entry[c].kind, chan[c].code) = NameOf(entry[c].kind, raised[c])
      BY <3>1, <3>2, NumbersAgree
    <3>4. QED
      BY <3>3 DEF Decode
  <2>3. QED
    BY <1>1, <1>4, <2>1, <2>2 DEF Once, Working
<1>8. QED
  BY <1>1, <1>2, <1>3, <1>6, <1>7, OnlyOne DEF CallInv

LEMMA CancelKeeps ==
  ASSUME BrInv, NEW c \in Calls, Cancel(c)
  PROVE  BrInv'
<1>1. /\ UNCHANGED <<host, model, entry, ctx, task, answer, raised, text, got, emptied>>
      /\ caller' = [caller EXCEPT ![c] = "gone"] /\ chan' = [chan EXCEPT ![c] = Nothing]
  BY DEF Cancel, streamVars
<1>2. Domains' /\ HostType'
  BY <1>1 DEF BrInv, Domains, HostType
<1>3. Only(c)
  BY <1>1 DEF BrInv, Domains, Only, At
<1>4. caller'[c] = "gone" /\ chan'[c] = Nothing
  BY <1>1 DEF BrInv, Domains
<1>5. Begun(c)' /\ (~emptied[c] => Once(c)')
  BY <1>1, <1>4 DEF BrInv, CallInv, Begun, Once, Working
<1>6. QED
  BY <1>1, <1>2, <1>3, <1>5, OnlyOne DEF CallInv

LEMMA BrStepKeeps ==
  ASSUME BrInv, [BrStep]_brVars
  PROVE  BrInv'
<1>1. ASSUME NEW c \in Calls, SwiftSide(c)
      PROVE  BrInv'
  <2>1. CASE StreamStarts(c)
    <3>1. Moved(c)
      BY <2>1 DEF StreamStarts, Still, Moved, AtWork, Is, Working
    <3>2. QED
      BY <3>1, MovedKeeps
  <2>2. CASE StreamEnds(c)
    BY <2>2, EndCallKeeps
  <2>3. CASE StreamFails(c)
    BY <2>3, FailureKeeps
  <2>4. CASE ~StreamStarts(c) /\ ~StreamEnds(c) /\ ~StreamFails(c)
    <3>1. Fired(c) \/ Moved(c)
      BY <1>1, <2>4, ModelEntries, SpeechEntries, AudioEntries DEF SwiftSide
    <3>2. QED
      BY <3>1, FiredKeeps, MovedKeeps
  <2>5. QED
    BY <2>1, <2>2, <2>3, <2>4
<1>2. ASSUME SystemChanges \/ UNCHANGED brVars
      PROVE  BrInv'
  <2>1. HostType'
    BY <1>2 DEF BrInv, HostType, SystemChanges, brVars
  <2>2. UNCHANGED <<host, entry, caller, ctx, task, chan, answer, raised, text, got, emptied>>
    BY <1>2 DEF SystemChanges, brVars, streamVars
  <2>3. Domains'
    BY <2>2 DEF BrInv, Domains
  <2>4. ASSUME NEW d \in Calls
        PROVE  CallInv(d)'
    BY <2>2, SameCall DEF BrInv, At
  <2>5. QED
    BY <2>1, <2>3, <2>4 DEF BrInv
<1>3. QED
  BY <1>1, <1>2, CallKeeps, SnapshotKeeps, ReceiveKeeps, CancelKeeps DEF BrStep

LEMMA BrInvSaysOnce == BrInv => CallsEndOnce
<1> SUFFICES ASSUME BrInv, NEW c \in Calls, ~emptied[c]
             PROVE  /\ ctx[c] = "leaked" <=> Working(c)
                    /\ IsSuffix(text[c], got[c])
                    /\ answer[c] # Nothing /\ raised[c] # Nothing => Named(c)
  BY DEF CallsEndOnce
<1>1. Begun(c) /\ Once(c)
  BY DEF BrInv, CallInv
<1>2. IsSuffix(text[c], got[c])
  BY <1>1, SuffixIsEnding DEF Begun, Once
<1>3. ASSUME answer[c] # Nothing, raised[c] # Nothing
      PROVE  Named(c)
  BY <1>1, <1>3 DEF Once, Named, NameOf
<1>4. QED
  BY <1>1, <1>2, <1>3 DEF Once

\* Whatever Swift does, and however many calls are in flight: a callback that
\* uses ctx finds the box alive, nothing is leaked when it is done, the chunks
\* of a stream end with the last text, and an error keeps its name on the way
\* through the numbers (aborg_fm.swift, aborg_speech.swift, aborg_audio.swift
\* and the callbacks of their crates).
THEOREM CallsAreAnsweredOnce == BrSpec => []CallsEndOnce
<1>1. BrSpec => BrInit /\ [][BrStep]_brVars
  BY DEF BrSpec
<1>2. BrInv /\ [BrStep]_brVars => BrInv'
  BY BrStepKeeps
<1>3. QED
  BY <1>1, <1>2, BrInvInit, BrInvSaysOnce, PTL

-----------------------------------------------------------------------------
(* --- DagBuild ------------------------------------------------------------ *)
(* Proofs about DagBuild, for any names, lists and number of stages.         *)

Sorts == building \in {"sorting", "built", "Cycle"}

\* Nothing is taken before the sort begins.
NotBuilding == ~Sorts => order = <<>> /\ ready = {}
\* The sort begins when every name that is required is there.
Known == Sorts => \A s \in Registered : RequiredBy(s) \subseteq Registered
\* An in-degree is what is not taken yet, and what the list repeats.
Counts ==
  Sorts => \A s \in Registered :
    inDegree[s] = Cardinality(RequiredBy(s) \ Ordered) + (Len(Requires(s)) - Cardinality(RequiredBy(s)))
\* Where it is zero, the stage is ready or taken, and never both.
Zeroes == Sorts => \A s \in Registered : inDegree[s] = 0 <=> s \in ready \cup Ordered
Apart == ready \cap Ordered = {}
\* Whichever ready stage comes next, it fits the order of the names.
NextFits ==
  \A r \in ready : \A n \in DOMAIN order :
    order[n] < r \/ \E k \in n .. Len(order) : order[k] \in RequiredBy(r)
\* When the sort is over.
Over ==
  /\ building \in {"built", "Cycle"} => ready = {}
  /\ building = "built" <=> Sorts /\ building # "sorting" /\ Len(order) = Cardinality(Registered)

DgInv ==
  /\ DgTypeOK /\ NotBuilding /\ Known /\ Counts /\ Zeroes /\ Apart
  /\ OrderSound /\ NamesDecide /\ NextFits /\ Over

-----------------------------------------------------------------------------
\* A sequence has no more elements than places.
LEMMA Elements ==
  ASSUME NEW T, NEW q \in Seq(T)
  PROVE  /\ IsFiniteSet({q[n] : n \in DOMAIN q})
         /\ Cardinality({q[n] : n \in DOMAIN q}) \in Nat
         /\ Cardinality({q[n] : n \in DOMAIN q}) <= Len(q)
<1> DEFINE R == {q[n] : n \in DOMAIN q}
<1>1. DOMAIN q = 1 .. Len(q) /\ Len(q) \in Nat
  OBVIOUS
<1>2. q \in [1 .. Len(q) -> R]
  BY <1>1
<1>3. q \in Surjection(1 .. Len(q), R)
  BY <1>1, <1>2 DEF Surjection
<1>4. IsFiniteSet(1 .. Len(q)) /\ Cardinality(1 .. Len(q)) = Len(q)
  BY <1>1, FS_Interval
<1>5. IsFiniteSet(R) /\ Cardinality(R) <= Len(q)
  BY <1>3, <1>4, FS_Surjection
<1>6. Cardinality(R) \in Nat
  BY <1>5, FS_CardinalityType
<1>7. QED
  BY <1>5, <1>6

\* As many elements as places, if and only if none comes twice.
LEMMA Distinct ==
  ASSUME NEW T, NEW q \in Seq(T), \A n, m \in DOMAIN q : q[n] = q[m] => n = m
  PROVE  Cardinality({q[n] : n \in DOMAIN q}) = Len(q)
<1> DEFINE R == {q[n] : n \in DOMAIN q}
<1>1. DOMAIN q = 1 .. Len(q) /\ Len(q) \in Nat
  OBVIOUS
<1>2. q \in [1 .. Len(q) -> R]
  BY <1>1
<1>3. q \in Surjection(1 .. Len(q), R)
  BY <1>1, <1>2 DEF Surjection
<1>4. q \in Injection(1 .. Len(q), R)
  BY <1>1, <1>2 DEF Injection, IsInjective
<1>5. IsFiniteSet(1 .. Len(q)) /\ Cardinality(1 .. Len(q)) = Len(q)
  BY <1>1, FS_Interval
<1>6. Cardinality(R) = Cardinality(1 .. Len(q))
  BY <1>3, <1>4, <1>5, FS_Surjection
<1>7. QED
  BY <1>5, <1>6

LEMMA ElementType ==
  ASSUME NEW T, NEW q \in Seq(T), NEW n \in DOMAIN q
  PROVE  q[n] \in T
  OBVIOUS

LEMMA EntryType ==
  ASSUME DgTypeOK, NEW y \in Entries
  PROVE  y.name \in StageNames /\ y.requires \in RequireLists
<1>1. PICK n \in DOMAIN registered : y = registered[n]
  BY DEF Entries
<1>2. y \in [name : StageNames, requires : RequireLists]
  BY <1>1, ElementType DEF DgTypeOK
<1>3. QED
  BY <1>2

\* What is registered, whichever entry of a name is chosen.
LEMMA RequiresType ==
  ASSUME DgTypeOK, NEW s \in Registered
  PROVE  Requires(s) \in Seq(Nat)
<1>1. PICK x \in Entries : x.name = s
  BY DEF Registered
<1>2. (CHOOSE y \in Entries : y.name = s) \in Entries
  BY <1>1
<1>3. \A y \in Entries : y.requires \in RequireLists
  BY EntryType
<1>4. QED
  BY <1>2, <1>3, DagBuildAssumption DEF Requires

LEMMA RegisteredFinite ==
  ASSUME DgTypeOK
  PROVE  IsFiniteSet(Registered) /\ Registered \subseteq Nat
<1>1. \A y \in Entries : y.name \in StageNames
  BY EntryType
<1>2. Registered \subseteq StageNames
  BY <1>1 DEF Registered
<1>3. QED
  BY <1>2, DagBuildAssumption, FS_Subset

LEMMA RequiredFinite ==
  ASSUME DgTypeOK, NEW s \in Registered
  PROVE  /\ IsFiniteSet(RequiredBy(s)) /\ Cardinality(RequiredBy(s)) \in Nat
         /\ Len(Requires(s)) \in Nat /\ Cardinality(RequiredBy(s)) <= Len(Requires(s))
         /\ \A S : IsFiniteSet(RequiredBy(s) \ S) /\ Cardinality(RequiredBy(s) \ S) \in Nat
<1>1. Requires(s) \in Seq(Nat)
  BY RequiresType
<1>2. /\ IsFiniteSet(RequiredBy(s)) /\ Cardinality(RequiredBy(s)) \in Nat
      /\ Cardinality(RequiredBy(s)) <= Len(Requires(s))
  BY <1>1, Elements DEF RequiredBy
<1>3. Len(Requires(s)) \in Nat
  BY <1>1
<1>4. ASSUME NEW S
      PROVE  IsFiniteSet(RequiredBy(s) \ S) /\ Cardinality(RequiredBy(s) \ S) \in Nat
  <2>1. IsFiniteSet(RequiredBy(s) \ S)
    BY <1>2, FS_Subset
  <2>2. QED
    BY <2>1, FS_CardinalityType
<1>5. QED
  BY <1>2, <1>3, <1>4

\* Once a stage is registered it stays what it is.
LEMMA Same ==
  ASSUME UNCHANGED registered
  PROVE  /\ Entries' = Entries /\ Registered' = Registered
         /\ \A s : Requires(s)' = Requires(s) /\ RequiredBy(s)' = RequiredBy(s)
  BY DEF Entries, Registered, Requires, RequiredBy

-----------------------------------------------------------------------------
LEMMA DgInvInit == DgInit => DgInv
<1>1. DgInit => DgTypeOK
  BY DEF DgInit, DgTypeOK
<1>2. DgInit => NotBuilding /\ Known /\ Counts /\ Zeroes /\ Over
  BY DEF DgInit, NotBuilding, Known, Counts, Zeroes, Over, Sorts
<1>3. DgInit => Apart /\ OrderSound /\ NamesDecide /\ NextFits
  BY DEF DgInit, Apart, OrderSound, NamesDecide, NextFits
<1>4. QED
  BY <1>1, <1>2, <1>3 DEF DgInv

\* While nothing is taken, most is said of nothing.
LEMMA NothingTaken ==
  ASSUME order = <<>>
  PROVE  OrderSound /\ NamesDecide /\ NextFits /\ Ordered = {} /\ Apart
  BY DEF OrderSound, NamesDecide, NextFits, Ordered, Apart

LEMMA RegisterKeeps ==
  ASSUME DgInv, NEW name \in StageNames, NEW requires \in RequireLists, RegisterStage(name, requires)
  PROVE  DgInv'
<1>1. building = "registering" /\ UNCHANGED <<building, inDegree, ready, order>>
  BY DEF RegisterStage
<1>2. order = <<>> /\ ready = {}
  BY <1>1 DEF DgInv, NotBuilding, Sorts
<1>3. registered' \in Seq([name : StageNames, requires : RequireLists])
  <2>1. [name |-> name, requires |-> requires] \in [name : StageNames, requires : RequireLists]
    OBVIOUS
  <2>2. QED
    BY <2>1, AppendProperties DEF DgInv, DgTypeOK, RegisterStage
<1>4. DgTypeOK'
  BY <1>1, <1>2, <1>3 DEF DgTypeOK
<1>5. (NotBuilding /\ Known /\ Counts /\ Zeroes /\ Over)'
  BY <1>1, <1>2 DEF NotBuilding, Known, Counts, Zeroes, Over, Sorts
<1>6. (OrderSound /\ NamesDecide /\ NextFits /\ Apart)'
  BY <1>1, <1>2, NothingTaken DEF OrderSound, NamesDecide, NextFits, Apart, Ordered
<1>7. QED
  BY <1>4, <1>5, <1>6 DEF DgInv

LEMMA BeginBuildKeeps ==
  ASSUME DgInv, BuildBegins
  PROVE  DgInv'
<1>1. building = "registering" /\ UNCHANGED <<registered, order>>
  BY DEF BuildBegins
<1>2. order = <<>> /\ order' = <<>> /\ ready = {} /\ DgTypeOK
  BY <1>1 DEF DgInv, NotBuilding, Sorts
<1>3. (OrderSound /\ NamesDecide /\ NextFits /\ Apart /\ Ordered = {})'
  BY <1>2 DEF OrderSound, NamesDecide, NextFits, Apart, Ordered
<1>4. /\ Registered' = Registered
      /\ \A s : Requires(s)' = Requires(s) /\ RequiredBy(s)' = RequiredBy(s)
  BY <1>1, Same
<1>5. CASE DuplicateStage \/ UnknownDependency
  <2>1. building' \in {"DuplicateStage", "UnknownDependency"} /\ UNCHANGED ready
    BY <1>5 DEF BuildBegins
  <2>2. DgTypeOK'
    BY <1>1, <1>2, <1>4, <2>1 DEF DgTypeOK
  <2>3. (NotBuilding /\ Known /\ Counts /\ Zeroes /\ Over)'
    BY <1>2, <2>1 DEF NotBuilding, Known, Counts, Zeroes, Over, Sorts
  <2>4. QED
    BY <1>3, <2>2, <2>3 DEF DgInv
<1>6. CASE ~(DuplicateStage \/ UnknownDependency)
  <2>1. /\ building' = "sorting"
        /\ inDegree' = [s \in Registered |-> Len(Requires(s))]
        /\ ready' = {s \in Registered : Len(Requires(s)) = 0}
    BY <1>6 DEF BuildBegins
  <2>2. \A s \in Registered : Len(Requires(s)) \in Nat
    BY <1>2, RequiredFinite
  <2>3. DgTypeOK'
    BY <1>1, <1>2, <1>4, <2>1, <2>2 DEF DgTypeOK
  <2>4. Known'
    <3>1. ASSUME NEW s \in Registered
          PROVE  RequiredBy(s) \subseteq Registered
      <4>1. PICK x \in Entries : x.name = s
        BY DEF Registered
      <4>2. (CHOOSE y \in Entries : y.name = s) \in Entries
        BY <4>1
      <4>3. \A n \in DOMAIN Requires(s) : Requires(s)[n] \in Registered
        BY <1>6, <4>2 DEF UnknownDependency, Requires
      <4>4. QED
        BY <4>3 DEF RequiredBy
    <3>2. QED
      BY <3>1, <1>4 DEF Known
  <2>5. Counts'
    <3>1. \A s \in Registered : RequiredBy(s) \ {} = RequiredBy(s)
      OBVIOUS
    <3>2. \A s \in Registered :
            inDegree'[s] = Cardinality(RequiredBy(s)) + (Len(Requires(s)) - Cardinality(RequiredBy(s)))
      BY <1>2, <2>1, RequiredFinite
    <3>3. QED
      BY <1>3, <1>4, <3>1, <3>2 DEF Counts
  <2>6. Zeroes'
    BY <1>3, <1>4, <2>1 DEF Zeroes
  <2>7. (NotBuilding /\ Over)'
    BY <2>1 DEF NotBuilding, Over, Sorts
  <2>8. QED
    BY <1>3, <2>3, <2>4, <2>5, <2>6, <2>7 DEF DgInv
<1>7. QED
  BY <1>5, <1>6

-----------------------------------------------------------------------------
\* All that a ready stage requires has been taken.
LEMMA ReadyIsServed ==
  ASSUME DgInv, Sorts, NEW s \in Registered, s \in ready \cup Ordered
  PROVE  RequiredBy(s) \subseteq Ordered /\ ~Repeats(s)
<1>1. inDegree[s] = 0
  BY DEF DgInv, Zeroes
<1>2. 0 = Cardinality(RequiredBy(s) \ Ordered) + (Len(Requires(s)) - Cardinality(RequiredBy(s)))
  BY <1>1 DEF DgInv, Counts
<1>3. DgTypeOK
  BY DEF DgInv
<1>4. /\ IsFiniteSet(RequiredBy(s) \ Ordered) /\ Cardinality(RequiredBy(s) \ Ordered) \in Nat
      /\ Cardinality(RequiredBy(s)) \in Nat /\ Len(Requires(s)) \in Nat
      /\ Cardinality(RequiredBy(s)) <= Len(Requires(s))
  BY <1>3, RequiredFinite
<1>5. Cardinality(RequiredBy(s) \ Ordered) = 0 /\ Len(Requires(s)) = Cardinality(RequiredBy(s))
  BY <1>2, <1>4
<1>6. RequiredBy(s) \ Ordered = {}
  BY <1>4, <1>5, FS_EmptySet
<1>7. QED
  BY <1>4, <1>5, <1>6 DEF Repeats

\* What a step of the sort does, spelled out.
Takes(name) ==
  /\ name \in ready /\ name \in Registered /\ name \notin Ordered /\ (\A r \in ready : name <= r)
  /\ RequiredBy(name) \subseteq Ordered
  /\ Len(order) \in Nat /\ DOMAIN order = 1 .. Len(order)
  /\ Len(order') = Len(order) + 1 /\ DOMAIN order' = 1 .. Len(order) + 1
  /\ \A n \in 1 .. Len(order) : order'[n] = order[n]
  /\ order'[Len(order) + 1] = name
  /\ Ordered' = Ordered \cup {name}
  /\ inDegree' = [s \in Registered |-> IF name \in RequiredBy(s) THEN inDegree[s] - 1 ELSE inDegree[s]]
  /\ ready' = (ready \ {name}) \cup {s \in Registered : name \in RequiredBy(s) /\ inDegree[s] = 1}
  /\ \A s \in Registered : name \in RequiredBy(s) =>
       s \notin ready \cup Ordered /\ inDegree[s] \in Nat /\ inDegree[s] # 0

LEMMA TakeIs ==
  ASSUME DgInv, TakeReady
  PROVE  \E name : Takes(name)
<1>1. Sorts /\ building = "sorting" /\ DgTypeOK /\ Registered \subseteq Nat
  BY RegisteredFinite DEF TakeReady, Sorts, DgInv
<1>2. PICK name \in Least(ready) :
        LET waiting == {s \in Registered : name \in RequiredBy(s)}
        IN  /\ order' = Append(order, name)
            /\ inDegree' = [s \in Registered |-> IF s \in waiting THEN inDegree[s] - 1 ELSE inDegree[s]]
            /\ ready' = (ready \ {name}) \cup {s \in waiting : inDegree[s] = 1}
  BY DEF TakeReady
<1>3. name \in ready /\ name \in Registered /\ name \notin Ordered /\ (\A r \in ready : name <= r)
  BY <1>1, <1>2 DEF Least, DgTypeOK, DgInv, Apart
<1>4. RequiredBy(name) \subseteq Ordered
  BY <1>1, <1>3, ReadyIsServed
<1>5. order \in Seq(Registered)
  BY <1>1 DEF DgTypeOK
<1>6. /\ Len(order) \in Nat /\ DOMAIN order = 1 .. Len(order)
      /\ Len(order') = Len(order) + 1 /\ DOMAIN order' = 1 .. Len(order) + 1
      /\ \A n \in 1 .. Len(order) : order'[n] = order[n]
      /\ order'[Len(order) + 1] = name
  BY <1>2, <1>3, <1>5, AppendProperties
<1>7. Ordered' = Ordered \cup {name}
  <2>1. Ordered' = {order'[n] : n \in 1 .. Len(order) + 1}
    BY <1>6 DEF Ordered
  <2>2. Ordered = {order[n] : n \in 1 .. Len(order)}
    BY <1>6 DEF Ordered
  <2>3. ASSUME NEW x \in Ordered' PROVE x \in Ordered \cup {name}
    <3>1. PICK n \in 1 .. Len(order) + 1 : x = order'[n]
      BY <2>1, <2>3
    <3>2. n = Len(order) + 1 \/ n \in 1 .. Len(order)
      BY <1>6
    <3>3. QED
      BY <3>1, <3>2, <1>6, <2>2
  <2>4. ASSUME NEW x \in Ordered \cup {name} PROVE x \in Ordered'
    <3>1. name \in Ordered'
      <4>1. Len(order) + 1 \in 1 .. Len(order) + 1
        BY <1>6
      <4>2. QED
        BY <1>6, <2>1, <4>1
    <3>2. ASSUME NEW n \in 1 .. Len(order) PROVE order[n] \in Ordered'
      <4>1. n \in 1 .. Len(order) + 1 /\ order'[n] = order[n]
        BY <1>6
      <4>2. QED
        BY <4>1, <2>1
    <3>3. QED
      BY <3>1, <3>2, <2>2
  <2>5. QED
    BY <2>3, <2>4
<1>8. ASSUME NEW s \in Registered, name \in RequiredBy(s)
      PROVE  s \notin ready \cup Ordered /\ inDegree[s] \in Nat /\ inDegree[s] # 0
  <2>1. s \notin ready \cup Ordered
    BY <1>1, <1>3, <1>8, ReadyIsServed
  <2>2. inDegree[s] \in Nat
    BY <1>1, <1>8 DEF DgTypeOK
  <2>3. QED
    BY <1>1, <2>1, <2>2 DEF DgInv, Zeroes
<1>9. /\ inDegree' = [s \in Registered |-> IF name \in RequiredBy(s) THEN inDegree[s] - 1 ELSE inDegree[s]]
      /\ ready' = (ready \ {name}) \cup {s \in Registered : name \in RequiredBy(s) /\ inDegree[s] = 1}
  BY <1>2
<1>10. QED
  BY <1>3, <1>4, <1>6, <1>7, <1>8, <1>9 DEF Takes

LEMMA TakeCounts ==
  ASSUME DgInv, TakeReady, NEW name, Takes(name)
  PROVE  Counts' /\ Zeroes' /\ Apart'
<1>1. Sorts /\ DgTypeOK
  BY DEF TakeReady, Sorts, DgInv
<1>2. UNCHANGED registered
  BY DEF TakeReady
<1>3. /\ Registered' = Registered
      /\ \A s : Requires(s)' = Requires(s) /\ RequiredBy(s)' = RequiredBy(s)
  BY <1>2, Same
<1>4. ASSUME NEW s \in Registered
      PROVE  inDegree'[s] = Cardinality(RequiredBy(s) \ Ordered') + (Len(Requires(s)) - Cardinality(RequiredBy(s)))
  <2>1. /\ IsFiniteSet(RequiredBy(s) \ Ordered) /\ Cardinality(RequiredBy(s) \ Ordered) \in Nat
        /\ Cardinality(RequiredBy(s)) \in Nat /\ Len(Requires(s)) \in Nat
    BY <1>1, <1>4, RequiredFinite
  <2>2. inDegree[s] = Cardinality(RequiredBy(s) \ Ordered) + (Len(Requires(s)) - Cardinality(RequiredBy(s)))
    BY <1>1, <1>4 DEF DgInv, Counts
  <2>3. RequiredBy(s) \ Ordered' = (RequiredBy(s) \ Ordered) \ {name}
    BY DEF Takes
  <2>4. CASE name \in RequiredBy(s)
    <3>1. name \in RequiredBy(s) \ Ordered
      BY <2>4 DEF Takes
    <3>2. Cardinality((RequiredBy(s) \ Ordered) \ {name}) = Cardinality(RequiredBy(s) \ Ordered) - 1
      BY <2>1, <3>1, FS_RemoveElement
    <3>3. inDegree'[s] = inDegree[s] - 1
      BY <1>4, <2>4 DEF Takes
    <3>4. Cardinality(RequiredBy(s) \ Ordered') = Cardinality(RequiredBy(s) \ Ordered) - 1
      BY <2>3, <3>2
    <3>5. QED
      BY <2>1, <2>2, <3>3, <3>4
  <2>5. CASE name \notin RequiredBy(s)
    <3>1. (RequiredBy(s) \ Ordered) \ {name} = RequiredBy(s) \ Ordered
      BY <2>5
    <3>2. inDegree'[s] = inDegree[s]
      BY <1>4, <2>5 DEF Takes
    <3>3. QED
      BY <2>2, <2>3, <3>1, <3>2
  <2>6. QED
    BY <2>4, <2>5
<1>5. Counts'
  BY <1>3, <1>4 DEF Counts
<1>6. ASSUME NEW s \in Registered
      PROVE  inDegree'[s] = 0 <=> s \in ready' \cup Ordered'
  <2>1. inDegree[s] = 0 <=> s \in ready \cup Ordered
    BY <1>1, <1>6 DEF DgInv, Zeroes
  <2>2. CASE name \in RequiredBy(s)
    <3>1. inDegree'[s] = inDegree[s] - 1 /\ s \notin ready \cup Ordered /\ inDegree[s] \in Nat
      BY <1>6, <2>2 DEF Takes
    <3>2. s # name
      BY <3>1 DEF Takes
    <3>3. s \in ready' \cup Ordered' <=> inDegree[s] = 1
      BY <1>6, <2>2, <3>1, <3>2 DEF Takes
    <3>4. QED
      BY <3>1, <3>3
  <2>3. CASE name \notin RequiredBy(s)
    <3>1. inDegree'[s] = inDegree[s]
      BY <1>6, <2>3 DEF Takes
    <3>2. s \in ready' \cup Ordered' <=> s \in ready \cup Ordered
      BY <2>3 DEF Takes
    <3>3. QED
      BY <2>1, <3>1, <3>2
  <2>4. QED
    BY <2>2, <2>3
<1>7. Zeroes'
  BY <1>3, <1>6 DEF Zeroes
<1>8. Apart'
  BY DEF Apart, Takes, DgInv
<1>9. QED
  BY <1>5, <1>7, <1>8

LEMMA TakeOrders ==
  ASSUME DgInv, TakeReady, NEW name, Takes(name)
  PROVE  OrderSound' /\ NamesDecide' /\ NextFits'
<1>1. UNCHANGED registered /\ DgTypeOK /\ ready \subseteq Nat /\ Ordered \subseteq Nat
  <2>1. DgTypeOK /\ Registered \subseteq Nat
    BY RegisteredFinite DEF DgInv
  <2>2. \A n \in DOMAIN order : order[n] \in Registered
    BY <2>1, ElementType DEF DgTypeOK
  <2>3. QED
    BY <2>1, <2>2 DEF TakeReady, DgTypeOK, Ordered
<1>2. /\ Registered' = Registered
      /\ \A s : Requires(s)' = Requires(s) /\ RequiredBy(s)' = RequiredBy(s)
  BY <1>1, Same
<1> DEFINE L == Len(order)
<1>3. /\ L \in Nat /\ DOMAIN order = 1 .. L /\ DOMAIN order' = 1 .. L + 1 /\ Len(order') = L + 1
      /\ \A n \in 1 .. L : order'[n] = order[n]
      /\ order'[L + 1] = name
  BY DEF Takes
<1>4. \A x \in Ordered : \E n \in 1 .. L : order[n] = x
  BY <1>3 DEF Ordered
<1>5. \A n \in 1 .. L : order[n] \in Ordered /\ order[n] \in Nat
  BY <1>1, <1>3 DEF Ordered
<1> HIDE DEF L
<1>6. OrderSound'
  <2>1. ASSUME NEW n \in 1 .. L + 1, NEW s \in RequiredBy(order'[n])
        PROVE  \E m \in 1 .. n - 1 : order'[m] = s
    <3>1. CASE n = L + 1
      <4>1. s \in Ordered
        BY <1>3, <2>1, <3>1 DEF Takes
      <4>2. PICK m \in 1 .. L : order[m] = s
        BY <1>4, <4>1
      <4>3. m \in 1 .. n - 1 /\ order'[m] = s
        BY <1>3, <3>1, <4>2
      <4>4. QED
        BY <4>3
    <3>2. CASE n \in 1 .. L
      <4>1. PICK m \in 1 .. n - 1 : order[m] = s
        BY <1>3, <2>1, <3>2 DEF DgInv, OrderSound
      <4>2. m \in 1 .. L
        BY <1>3, <3>2
      <4>3. QED
        BY <1>3, <4>1, <4>2
    <3>3. QED
      BY <1>3, <3>1, <3>2
  <2>2. ASSUME NEW n \in 1 .. L + 1, NEW m \in 1 .. L + 1, order'[n] = order'[m]
        PROVE  n = m
    <3>1. CASE n \in 1 .. L /\ m \in 1 .. L
      BY <1>3, <2>2, <3>1 DEF DgInv, OrderSound
    <3>2. CASE n = L + 1 /\ m \in 1 .. L
      BY <1>3, <1>5, <2>2, <3>2 DEF Takes
    <3>3. CASE m = L + 1 /\ n \in 1 .. L
      BY <1>3, <1>5, <2>2, <3>3 DEF Takes
    <3>4. QED
      BY <1>3, <3>1, <3>2, <3>3
  <2>3. QED
    BY <1>2, <1>3, <2>1, <2>2 DEF OrderSound
<1>7. NamesDecide'
  <2>1. ASSUME NEW n \in 1 .. L + 1, NEW m \in n + 1 .. L + 1
        PROVE  order'[n] < order'[m] \/ \E k \in n .. m - 1 : order'[k] \in RequiredBy(order'[m])
    <3>1. n \in 1 .. L
      BY <1>3
    <3>2. CASE m = L + 1
      <4>1. order[n] < name \/ \E k \in n .. L : order[k] \in RequiredBy(name)
        BY <1>3, <3>1 DEF DgInv, NextFits, Takes, L
      <4>2. \A k \in n .. L : order'[k] = order[k]
        BY <1>3, <3>1
      <4>3. n .. m - 1 = n .. L /\ order'[m] = name /\ order'[n] = order[n]
        BY <1>3, <3>1, <3>2
      <4>4. QED
        BY <4>1, <4>2, <4>3
    <3>3. CASE m \in n + 1 .. L
      <4>1. order[n] < order[m] \/ \E k \in n .. m - 1 : order[k] \in RequiredBy(order[m])
        BY <1>3, <3>1, <3>3 DEF DgInv, NamesDecide, L
      <4>2. \A k \in n .. m : order'[k] = order[k]
        BY <1>3, <3>1, <3>3
      <4>3. m \in 1 .. L /\ n .. m - 1 \subseteq n .. m
        BY <1>3, <3>1, <3>3
      <4>4. QED
        BY <1>3, <3>1, <4>1, <4>2, <4>3
    <3>4. QED
      BY <1>3, <3>1, <3>2, <3>3
  <2>2. QED
    BY <1>2, <1>3, <2>1 DEF NamesDecide
<1>8. NextFits'
  <2>1. ASSUME NEW r \in ready', NEW n \in 1 .. L + 1
        PROVE  order'[n] < r \/ \E k \in n .. L + 1 : order'[k] \in RequiredBy(r)
    <3>1. CASE name \in RequiredBy(r)
      <4>1. L + 1 \in n .. L + 1
        BY <1>3
      <4>2. QED
        BY <1>3, <3>1, <4>1
    <3>2. CASE name \notin RequiredBy(r)
      <4>1. r \in ready \ {name} /\ name \in ready /\ name <= r
        BY <2>1, <3>2 DEF Takes
      <4>2. name < r
        BY <1>1, <4>1
      <4>3. CASE n = L + 1
        BY <1>3, <4>2, <4>3
      <4>4. CASE n \in 1 .. L
        <5>1. order[n] < r \/ \E k \in n .. L : order[k] \in RequiredBy(r)
          BY <1>3, <4>1, <4>4 DEF DgInv, NextFits, L
        <5>2. \A k \in n .. L : k \in n .. L + 1 /\ order'[k] = order[k]
          BY <1>3, <4>4
        <5>3. QED
          BY <1>3, <4>4, <5>1, <5>2
      <4>5. QED
        BY <1>3, <4>3, <4>4
    <3>3. QED
      BY <3>1, <3>2
  <2>2. QED
    BY <1>2, <1>3, <2>1 DEF NextFits
<1>9. QED
  BY <1>6, <1>7, <1>8

LEMMA TakeKeeps ==
  ASSUME DgInv, TakeReady
  PROVE  DgInv'
<1>1. PICK name : Takes(name)
  BY TakeIs
<1>2. building = "sorting" /\ UNCHANGED <<registered, building>> /\ DgTypeOK
  BY DEF TakeReady, DgInv
<1>3. /\ Registered' = Registered
      /\ \A s : Requires(s)' = Requires(s) /\ RequiredBy(s)' = RequiredBy(s)
  BY <1>2, Same
<1>4. DgTypeOK'
  <2>1. order' \in Seq(Registered)
    BY <1>2, AppendProperties DEF TakeReady, DgTypeOK, Least
  <2>2. ready' \subseteq Registered
    BY <1>1, <1>2 DEF Takes, DgTypeOK
  <2>3. inDegree' \in [Registered -> Nat]
    <3>1. ASSUME NEW s \in Registered
          PROVE  (IF name \in RequiredBy(s) THEN inDegree[s] - 1 ELSE inDegree[s]) \in Nat
      BY <1>1, <1>2, <3>1 DEF Takes, DgTypeOK
    <3>2. QED
      BY <1>1, <3>1 DEF Takes
  <2>4. QED
    BY <1>2, <1>3, <2>1, <2>2, <2>3 DEF DgTypeOK
<1>5. (NotBuilding /\ Known /\ Over)'
  BY <1>2, <1>3 DEF DgInv, NotBuilding, Known, Over, Sorts
<1>6. QED
  BY <1>1, <1>4, <1>5, TakeCounts, TakeOrders DEF DgInv

LEMMA EndBuildKeeps ==
  ASSUME DgInv, BuildEnds
  PROVE  DgInv'
<1>1. /\ building = "sorting" /\ ready = {} /\ UNCHANGED <<registered, inDegree, ready, order>>
      /\ building' = IF Len(order) = Cardinality(Registered) THEN "built" ELSE "Cycle"
  BY DEF BuildEnds
<1>2. /\ Registered' = Registered /\ Ordered' = Ordered
      /\ \A s : Requires(s)' = Requires(s) /\ RequiredBy(s)' = RequiredBy(s)
  BY <1>1, Same DEF Ordered
<1>3. (DgTypeOK /\ NotBuilding /\ Known /\ Counts /\ Zeroes /\ Over)'
  BY <1>1, <1>2 DEF DgInv, DgTypeOK, NotBuilding, Known, Counts, Zeroes, Over, Sorts
<1>4. (Apart /\ OrderSound /\ NamesDecide /\ NextFits)'
  BY <1>1, <1>2 DEF DgInv, Apart, OrderSound, NamesDecide, NextFits
<1>5. QED
  BY <1>3, <1>4 DEF DgInv

LEMMA StutterKeeps ==
  ASSUME DgInv, UNCHANGED dagVars
  PROVE  DgInv'
<1>1. UNCHANGED <<registered, building, inDegree, ready, order>>
  BY DEF dagVars
<1>2. /\ Registered' = Registered /\ Ordered' = Ordered /\ (Sorts' <=> Sorts)
      /\ \A s : Requires(s)' = Requires(s) /\ RequiredBy(s)' = RequiredBy(s)
  BY <1>1, Same DEF Ordered, Sorts
<1>3. (DgTypeOK /\ NotBuilding /\ Known /\ Counts /\ Zeroes /\ Over)'
  BY <1>1, <1>2 DEF DgInv, DgTypeOK, NotBuilding, Known, Counts, Zeroes, Over
<1>4. (Apart /\ OrderSound /\ NamesDecide /\ NextFits)'
  BY <1>1, <1>2 DEF DgInv, Apart, OrderSound, NamesDecide, NextFits
<1>5. QED
  BY <1>3, <1>4 DEF DgInv

-----------------------------------------------------------------------------
\* The two ways out of the sort.
LEMMA BuiltIsWhole ==
  ASSUME DgInv, building = "built"
  PROVE  Ordered = Registered /\ \A s \in Registered : ~Repeats(s)
<1>1. Len(order) = Cardinality(Registered) /\ Sorts /\ DgTypeOK /\ IsFiniteSet(Registered)
  BY RegisteredFinite DEF DgInv, Over, Sorts
<1>2. order \in Seq(Registered)
  BY <1>1 DEF DgTypeOK
<1>3. Ordered \in SUBSET Registered
  BY <1>2, ElementType DEF Ordered
<1>4. Cardinality(Ordered) = Len(order)
  BY <1>2, Distinct DEF DgInv, OrderSound, Ordered
<1>5. Ordered = Registered
  BY <1>1, <1>3, <1>4, FS_Subset
<1>6. QED
  BY <1>1, <1>5, ReadyIsServed

LEMMA CycleHasReason ==
  ASSUME DgInv, building = "Cycle"
  PROVE  (\E S \in SUBSET Registered : Ring(S)) \/ (\E s \in Registered : Repeats(s))
<1>1. Len(order) # Cardinality(Registered) /\ Sorts /\ DgTypeOK /\ ready = {}
  BY DEF DgInv, Over, Sorts
<1>2. order \in Seq(Registered)
  BY <1>1 DEF DgTypeOK
<1>3. Cardinality(Ordered) = Len(order)
  BY <1>2, Distinct DEF DgInv, OrderSound, Ordered
<1>4. Ordered # Registered /\ Ordered \subseteq Registered
  BY <1>1, <1>2, <1>3, ElementType DEF Ordered
<1> DEFINE S == Registered \ Ordered
<1>5. S # {}
  BY <1>4
<1>6. ASSUME \A s \in Registered : ~Repeats(s), NEW s \in S
      PROVE  RequiredBy(s) \cap S # {}
  <2>1. inDegree[s] # 0
    BY <1>1, <1>6 DEF DgInv, Zeroes
  <2>2. /\ IsFiniteSet(RequiredBy(s) \ Ordered) /\ Cardinality(RequiredBy(s)) \in Nat
        /\ Len(Requires(s)) \in Nat /\ Cardinality(RequiredBy(s)) <= Len(Requires(s))
        /\ Cardinality(RequiredBy(s) \ Ordered) \in Nat
    BY <1>1, <1>6, RequiredFinite
  <2>3. inDegree[s] = Cardinality(RequiredBy(s) \ Ordered) + (Len(Requires(s)) - Cardinality(RequiredBy(s)))
    BY <1>1, <1>6 DEF DgInv, Counts
  <2>4. Len(Requires(s)) = Cardinality(RequiredBy(s))
    BY <1>6, <2>2 DEF Repeats
  <2>5. Cardinality(RequiredBy(s) \ Ordered) # 0
    BY <2>1, <2>2, <2>3, <2>4
  <2>6. RequiredBy(s) \ Ordered # {}
    BY <2>2, <2>5, FS_EmptySet
  <2>7. RequiredBy(s) \subseteq Registered
    BY <1>1, <1>6 DEF DgInv, Known
  <2>8. QED
    BY <2>6, <2>7
<1>7. (\A s \in Registered : ~Repeats(s)) => Ring(S)
  BY <1>5, <1>6 DEF Ring
<1>8. S \in SUBSET Registered
  OBVIOUS
<1>9. QED
  BY <1>7, <1>8

(* The whole invariant, which every step of the registration and of the sort *)
(* keeps.                                                                    *)
THEOREM SortInvariant == DgSpec => []DgInv
<1>1. ASSUME DgInv, [DgNext]_dagVars
      PROVE  DgInv'
  <2> USE <1>1
  <2>1. ASSUME NEW name \in StageNames, NEW requires \in RequireLists, RegisterStage(name, requires)
        PROVE  DgInv'
    BY <2>1, RegisterKeeps
  <2>2. CASE BuildBegins \/ TakeReady \/ BuildEnds \/ UNCHANGED dagVars
    BY <2>2, BeginBuildKeeps, TakeKeeps, EndBuildKeeps, StutterKeeps
  <2>3. QED
    BY <2>1, <2>2 DEF DgNext
<1>2. QED
  BY DgInvInit, <1>1, PTL DEF DgSpec

(* A stage is never taken before what it requires, and never twice: what     *)
(* Pipeline assumes of the order that it is given.                           *)
THEOREM OrderIsSound == DgSpec => []OrderSound
<1>1. DgInv => OrderSound
  BY DEF DgInv
<1>2. QED
  BY <1>1, SortInvariant, PTL

(* Dag::build succeeds with all stages in the order of their names as far as *)
(* the requirements allow it, and reports a cycle only when there is one, or *)
(* a requirement that is listed twice.                                       *)
THEOREM BuildIsSound == DgSpec => []BuildSound
<1>1. DgInv => BuildSound
  BY BuiltIsWhole, CycleHasReason DEF DgInv, BuildSound
<1>2. QED
  BY <1>1, SortInvariant, PTL

-----------------------------------------------------------------------------
(* --- Replay -------------------------------------------------------------- *)
(* Proofs about Replay, for any number of collections, rows, requests and    *)
(* stops.                                                                    *)

\* What a row of the journal is about: the book, a column of a collection that
\* was inserted, or its insertion.
RowAt(o) ==
  \/ o.field \in BookFields /\ (o.field = "title" => o.intent # Nothing)
  \/ o.field \in CollFields /\ o.at \in CollIds /\ o.at <= created /\ o.intent \in CollValues
  \/ o.field = "create" /\ o.at \in CollIds /\ o.at <= created
RowsPlaced == \A i \in 1 .. Len(ops) : RowAt(ops[i])
\* A request is at one of its steps, with rows that are there.
RequestAt(r) ==
  /\ r = [step |-> r.step, mine |-> r.mine, at |-> r.at, verdict |-> r.verdict]
  /\ r.mine \subseteq 1 .. Len(ops)
  /\ r.step = "book" => \E i \in r.mine : r.mine = {i} /\ ops[i].field \in BookFields
  /\ r.step = "collection" => \A i \in r.mine : ops[i].field \in CollFields
  /\ r.step \in {"collection", "created"} => r.at \in CollIds /\ r.at <= created
\* A replay that is about to write writes a column: what was inserted is there.
RedoAt(r) ==
  /\ r = [step |-> r.step, op |-> r.op, todo |-> r.todo, verdict |-> r.verdict]
  /\ r.op \in 1 .. Len(ops) /\ r.todo \subseteq 1 .. Len(ops)
  /\ r.step = "write" => ops[r.op].field # "create"
\* The collections are those that were inserted: none goes, none comes back.
CollectionsStay ==
  /\ created \in 0 .. MaxColls /\ DOMAIN coll = CollIds
  /\ \A i \in CollIds : IF i <= created THEN coll[i] \in [CollFields -> CollValues] ELSE coll[i] = Nothing
RequestsPlaced == DOMAIN patch = Patchers /\ \A p \in Patchers : patch[p] # Nothing => RequestAt(patch[p])
RedoPlaced == redo # Nothing => RedoAt(redo)
BookFollowed ==
  /\ book = [exists |-> book.exists, title |-> book.title, status |-> book.status, rating |-> book.rating]
  /\ side = [edit |-> side.edit, finished |-> side.finished]
  /\ book.exists => SideRowsFollow
JournalIsList == \E T : ops \in Seq(T)
RpInv == CollectionsStay /\ JournalIsList /\ RowsPlaced /\ RequestsPlaced /\ RedoPlaced /\ BookFollowed

-----------------------------------------------------------------------------
LEMMA CountedColls == ASSUME CollectionsStay PROVE Cardinality({i \in CollIds : coll[i] # Nothing}) = created
<1>1. {i \in CollIds : coll[i] # Nothing} = 1 .. created
  <2>1. ASSUME NEW i \in CollIds PROVE coll[i] # Nothing <=> i <= created
    BY ReplayAssumption DEF CollectionsStay
  <2> QED BY <2>1, ReplayAssumption DEF CollectionsStay, CollIds
<1>2. Cardinality(1 .. created) = created
  BY FS_Interval, ReplayAssumption DEF CollectionsStay
<1> QED BY <1>1, <1>2

LEMMA JournalGrows ==
  \A s, r : (\E T : s \in Seq(T)) =>
    /\ (\E T : Append(s, r) \in Seq(T)) /\ Len(s) \in Nat
    /\ Len(Append(s, r)) = Len(s) + 1 /\ Append(s, r)[Len(s) + 1] = r
    /\ \A i \in 1 .. Len(s) : Append(s, r)[i] = s[i]
<1> SUFFICES ASSUME NEW s, NEW r, \E T : s \in Seq(T)
             PROVE  /\ (\E T : Append(s, r) \in Seq(T)) /\ Len(s) \in Nat
                    /\ Len(Append(s, r)) = Len(s) + 1 /\ Append(s, r)[Len(s) + 1] = r
                    /\ \A i \in 1 .. Len(s) : Append(s, r)[i] = s[i]
  OBVIOUS
<1>1. PICK T : s \in Seq(T) OBVIOUS
<1>2. s \in Seq(T \cup {r}) BY <1>1
<1>3. Append(s, r) \in Seq(T \cup {r}) BY <1>2
<1>4. Len(s) \in Nat BY <1>1
<1>5. Len(Append(s, r)) = Len(s) + 1 /\ Append(s, r)[Len(s) + 1] = r
  BY <1>2
<1>6. ASSUME NEW i \in 1 .. Len(s) PROVE Append(s, r)[i] = s[i] BY <1>2
<1> QED BY <1>3, <1>4, <1>5, <1>6

LEMMA JournalJoins ==
  ASSUME NEW s, \E T : s \in Seq(T), NEW t, \E T : t \in Seq(T)
  PROVE  /\ \E T : s \o t \in Seq(T)
         /\ Len(s) \in Nat /\ Len(t) \in Nat /\ Len(s \o t) = Len(s) + Len(t)
         /\ \A i \in 1 .. Len(s) : (s \o t)[i] = s[i]
         /\ \A i \in 1 .. Len(s \o t) : i > Len(s) => (s \o t)[i] = t[i - Len(s)] /\ i - Len(s) \in 1 .. Len(t)
<1>1. PICK T : s \in Seq(T) OBVIOUS
<1>2. PICK U : t \in Seq(U) OBVIOUS
<1>3. s \in Seq(T \cup U) /\ t \in Seq(T \cup U) BY <1>1, <1>2
<1>4. s \o t \in Seq(T \cup U) BY <1>3
<1>5. Len(s) \in Nat /\ Len(t) \in Nat /\ Len(s \o t) = Len(s) + Len(t) BY <1>3
<1>6. \A i \in 1 .. Len(s) : (s \o t)[i] = s[i] BY <1>3
<1>7. \A i \in 1 .. Len(s \o t) : i > Len(s) => (s \o t)[i] = t[i - Len(s)] /\ i - Len(s) \in 1 .. Len(t)
  BY <1>3
<1> QED BY <1>4, <1>5, <1>6, <1>7

\* A row says what it was made with.
LEMMA RowSays ==
  ASSUME NEW f, NEW at, NEW c, NEW v
  PROVE  Row(f, at, c, v).field = f /\ Row(f, at, c, v).at = at /\ Row(f, at, c, v).intent = v
BY DEF Row

\* A field has one row or none; they are rows of this collection.
LEMMA EditRowsPlaced ==
  ASSUME NEW at \in CollIds, at <= created, NEW edits \in CollEdits
  PROVE  /\ \E T : EditRows(at, edits) \in Seq(T)
         /\ \A i \in 1 .. Len(EditRows(at, edits)) :
              RowAt(EditRows(at, edits)[i]) /\ EditRows(at, edits)[i].field \in CollFields
<1> DEFINE One(f) == EditRow(at, edits, f)
           Fine(s) == (\E T : s \in Seq(T)) /\ \A i \in 1 .. Len(s) : RowAt(s[i]) /\ s[i].field \in CollFields
<1>1. ASSUME NEW f \in CollFields PROVE Fine(One(f))
  <2>1. CASE f \in DOMAIN edits
    <3> DEFINE r == Row(f, at, coll[at][f], edits[f])
    <3>1. One(f) = <<r>> BY <2>1 DEF EditRow
    <3>2. edits[f] \in CollValues
      <4>1. edits[f] \in {edits[g] : g \in DOMAIN edits} BY <2>1
      <4> QED BY <4>1 DEF CollValues
    <3>3. r.field = f /\ r.at = at /\ r.intent = edits[f] BY RowSays
    <3>4. RowAt(r) /\ r.field \in CollFields BY <1>1, <3>2, <3>3 DEF RowAt
    <3> HIDE DEF r
    <3>5. <<r>> \in Seq({r}) /\ Len(<<r>>) = 1 /\ <<r>>[1] = r OBVIOUS
    <3>6. \A i \in 1 .. Len(<<r>>) : RowAt(<<r>>[i]) /\ <<r>>[i].field \in CollFields BY <3>4, <3>5
    <3> QED BY <3>1, <3>5, <3>6
  <2>2. CASE f \notin DOMAIN edits
    <3>1. One(f) = <<>> BY <2>2 DEF EditRow
    <3>2. <<>> \in Seq({}) /\ Len(<<>>) = 0 OBVIOUS
    <3> QED BY <3>1, <3>2
  <2> QED BY <2>1, <2>2
<1>2. ASSUME NEW s, NEW t, Fine(s), Fine(t) PROVE Fine(s \o t)
  <2>1. \E T : s \o t \in Seq(T) BY <1>2, JournalJoins
  <2>2. ASSUME NEW i \in 1 .. Len(s \o t) PROVE RowAt((s \o t)[i]) /\ (s \o t)[i].field \in CollFields
    <3>1. Len(s) \in Nat /\ Len(t) \in Nat /\ Len(s \o t) = Len(s) + Len(t)
      BY <1>2, JournalJoins
    <3>2. CASE i \in 1 .. Len(s)
      <4>1. (s \o t)[i] = s[i] BY <1>2, <3>2, JournalJoins
      <4> QED BY <4>1, <3>2, <1>2
    <3>3. CASE i > Len(s)
      <4>1. (s \o t)[i] = t[i - Len(s)] /\ i - Len(s) \in 1 .. Len(t) BY <1>2, <2>2, <3>3, JournalJoins
      <4> QED BY <4>1, <1>2
    <3> QED BY <3>1, <3>2, <3>3, <2>2
  <2> QED BY <2>1, <2>2
<1>3. Fine(One("name")) /\ Fine(One("audible_id")) /\ Fine(One("note"))
  <2>1. "name" \in CollFields /\ "audible_id" \in CollFields /\ "note" \in CollFields BY DEF CollFields
  <2> QED BY <1>1, <2>1
<1> HIDE DEF Fine, One
<1>4. Fine(One("name") \o One("audible_id")) BY <1>2, <1>3
<1>5. Fine((One("name") \o One("audible_id")) \o One("note")) BY <1>2, <1>3, <1>4
<1>6. EditRows(at, edits) = (One("name") \o One("audible_id")) \o One("note") BY DEF EditRows, One
<1>7. Fine(EditRows(at, edits)) BY <1>5, <1>6
<1> QED BY <1>7 DEF Fine

\* A verdict changes what has become of a row, and nothing else of it.
LEMMA MarkKeeps ==
  ASSUME JournalIsList, NEW S, NEW verdict
  PROVE  /\ \E T : Marked(S, verdict) \in Seq(T)
         /\ Len(Marked(S, verdict)) = Len(ops)
         /\ Len(ops) \in Nat
         /\ \A i \in 1 .. Len(ops) : /\ Marked(S, verdict)[i].field = ops[i].field
                                     /\ Marked(S, verdict)[i].at = ops[i].at
                                     /\ Marked(S, verdict)[i].intent = ops[i].intent
<1> DEFINE m == Marked(S, verdict)
<1>1. PICK T : ops \in Seq(T) BY DEF JournalIsList
<1>2. DOMAIN ops = 1 .. Len(ops) /\ Len(ops) \in Nat BY <1>1
<1>3. m = [i \in 1 .. Len(ops) |-> IF i \in S THEN [ops[i] EXCEPT !.progress = verdict] ELSE ops[i]]
  BY <1>2 DEF Marked
<1>4. m \in Seq({m[i] : i \in 1 .. Len(ops)}) /\ Len(m) = Len(ops)
  BY <1>2, <1>3
<1>5. ASSUME NEW i \in 1 .. Len(ops)
      PROVE  m[i].field = ops[i].field /\ m[i].at = ops[i].at /\ m[i].intent = ops[i].intent
  <2>1. m[i] = [ops[i] EXCEPT !.progress = verdict] \/ m[i] = ops[i] BY <1>3
  <2>2. CASE m[i] = ops[i] BY <2>2
  <2>3. CASE m[i] = [ops[i] EXCEPT !.progress = verdict]
    <3>1. ops[i] \in T BY <1>1
    <3> QED BY <2>3
  <2> QED BY <2>1, <2>2, <2>3
<1> QED BY <1>2, <1>4, <1>5
\* When the journal grows, or verdicts are given, what is said of its rows, of
\* the requests and of the replay still stands.
LEMMA OldStand ==
  ASSUME RpInv, CollectionsStay', created <= created', Len(ops') \in Nat, Len(ops) <= Len(ops'),
         \A i \in 1 .. Len(ops) : /\ ops'[i].field = ops[i].field /\ ops'[i].at = ops[i].at
                                  /\ ops'[i].intent = ops[i].intent
  PROVE  /\ \A i \in 1 .. Len(ops) : RowAt(ops[i])'
         /\ \A r : RequestAt(r) => RequestAt(r)'
         /\ \A r : RedoAt(r) => RedoAt(r)'
<1>1. Len(ops) \in Nat BY DEF RpInv, JournalIsList
<1>2. created \in Nat /\ created' \in Nat BY ReplayAssumption DEF RpInv, CollectionsStay
<1>3. 1 .. Len(ops) \subseteq 1 .. Len(ops') BY <1>1
<1>4. ASSUME NEW i \in 1 .. Len(ops) PROVE RowAt(ops[i])'
  <2>1. RowAt(ops[i]) BY DEF RpInv, RowsPlaced
  <2>2. ops[i].at \in CollIds => ops[i].at \in Nat BY ReplayAssumption DEF CollIds
  <2> QED BY <2>1, <2>2, <1>2 DEF RowAt, BookFields, CollFields, CollIds
<1>5. ASSUME NEW r, RequestAt(r) PROVE RequestAt(r)'
  <2>1. r.step \in {"collection", "created"} => r.at \in CollIds /\ r.at <= created'
    BY <1>5, <1>2, ReplayAssumption DEF RequestAt, CollIds
  <2>2. r.mine \subseteq 1 .. Len(ops') BY <1>5, <1>3 DEF RequestAt
  <2>3. r.step = "book" => \E i \in r.mine : r.mine = {i} /\ ops'[i].field \in BookFields
    BY <1>5 DEF RequestAt
  <2>5. r.step = "collection" => \A i \in r.mine : ops'[i].field \in CollFields
    BY <1>5 DEF RequestAt
  <2>4. r = [step |-> r.step, mine |-> r.mine, at |-> r.at, verdict |-> r.verdict] BY <1>5 DEF RequestAt
  <2> QED BY <2>1, <2>2, <2>3, <2>4, <2>5 DEF RequestAt
<1>6. ASSUME NEW r, RedoAt(r) PROVE RedoAt(r)'
  <2>1. r.op \in 1 .. Len(ops) /\ r.todo \subseteq 1 .. Len(ops) BY <1>6 DEF RedoAt
  <2>2. r.step = "write" => ops'[r.op].field # "create" BY <1>6, <2>1 DEF RedoAt
  <2> QED BY <1>3, <1>6, <2>1, <2>2 DEF RedoAt
<1> QED BY <1>4, <1>5, <1>6

\* The same, where the journal is left alone.
LEMMA SameStand ==
  ASSUME RpInv, CollectionsStay', created <= created', UNCHANGED ops
  PROVE  /\ JournalIsList' /\ RowsPlaced'
         /\ \A r : RequestAt(r) => RequestAt(r)'
         /\ \A r : RedoAt(r) => RedoAt(r)'
<1>1. Len(ops) \in Nat BY DEF RpInv, JournalIsList
<1>2. Len(ops) \in Nat /\ Len(ops') \in Nat /\ Len(ops) <= Len(ops') BY <1>1
<1>3. \A i \in 1 .. Len(ops) : /\ ops'[i].field = ops[i].field /\ ops'[i].at = ops[i].at
                               /\ ops'[i].intent = ops[i].intent
  OBVIOUS
<1>4. /\ \A i \in 1 .. Len(ops) : RowAt(ops[i])'
      /\ \A r : RequestAt(r) => RequestAt(r)'
      /\ \A r : RedoAt(r) => RedoAt(r)'
  BY <1>2, <1>3, OldStand
<1>5. JournalIsList' BY DEF RpInv, JournalIsList
<1>6. RowsPlaced' BY <1>4 DEF RowsPlaced
<1> QED BY <1>4, <1>5, <1>6

\* One request moves on; the others stand.
LEMMA OneMoves ==
  ASSUME RpInv, NEW p \in Patchers, NEW r, patch' = [patch EXCEPT ![p] = r],
         \A q : RequestAt(q) => RequestAt(q)', r # Nothing => RequestAt(r)'
  PROVE  RequestsPlaced'
BY DEF RpInv, RequestsPlaced

LEMMA RequestsStand ==
  ASSUME RpInv, UNCHANGED patch, \A q : RequestAt(q) => RequestAt(q)' PROVE RequestsPlaced'
BY DEF RpInv, RequestsPlaced

LEMMA RedoStands ==
  ASSUME RpInv, UNCHANGED redo, \A q : RedoAt(q) => RedoAt(q)' PROVE RedoPlaced'
BY DEF RpInv, RedoPlaced

LEMMA BookStands == ASSUME RpInv, UNCHANGED <<book, side>> PROVE BookFollowed'
BY DEF RpInv, BookFollowed, SideRowsFollow

LEMMA CollsStand == ASSUME RpInv, UNCHANGED <<coll, created>> PROVE CollectionsStay' /\ created <= created'
<1>1. CollectionsStay' BY DEF RpInv, CollectionsStay
<1>2. created \in Nat BY ReplayAssumption DEF RpInv, CollectionsStay
<1> QED BY <1>1, <1>2

\* Writing a field of a book writes what follows it.
LEMMA BookWritesFollow ==
  ASSUME RpInv, NEW f, NEW v, f = "title" => v # Nothing, book.exists, BookWrites(f, v)
  PROVE  BookFollowed'
<1>1. /\ book = [exists |-> book.exists, title |-> book.title, status |-> book.status, rating |-> book.rating]
      /\ side = [edit |-> side.edit, finished |-> side.finished]
      /\ SideRowsFollow
  BY DEF RpInv, BookFollowed
<1>2. CASE f = "title" /\ TitleWrites(v) BY <1>1, <1>2 DEF TitleWrites, BookFollowed, SideRowsFollow
<1>3. CASE f = "rating" /\ RatingWrites(v) BY <1>1, <1>3 DEF RatingWrites, BookFollowed, SideRowsFollow
<1>4. CASE f = "status" /\ StatusWrites(v)
  <2>1. book' = [exists |-> book.exists, title |-> book.title, status |-> v, rating |-> book.rating]
    BY <1>1, <1>4 DEF StatusWrites
  <2>2. side' = [edit |-> side.edit, finished |-> (v = "finished" \/ (side.finished /\ v # "reading"))]
    BY <1>1, <1>4 DEF StatusWrites
  <2>3. side'.edit = side.edit /\ book'.title = book.title /\ book'.status = v BY <2>1, <2>2
  <2>4. side'.finished <=> (v = "finished" \/ (side.finished /\ v # "reading")) BY <2>2
  <2>5. SideRowsFollow' BY <1>1, <2>3, <2>4 DEF SideRowsFollow
  <2>6. book' = [exists |-> book'.exists, title |-> book'.title, status |-> book'.status, rating |-> book'.rating]
    BY <2>1
  <2>7. side' = [edit |-> side'.edit, finished |-> side'.finished] BY <2>2, Zenon
  <2> QED BY <2>5, <2>6, <2>7 DEF BookFollowed
<1> QED BY <1>2, <1>3, <1>4 DEF BookWrites

\* Writing columns of a collection that is there leaves it there.
LEMMA CollWritesStay ==
  ASSUME RpInv, NEW at \in CollIds, at <= created, NEW edits, CollWrites(at, edits), UNCHANGED created,
         \A f \in DOMAIN edits : edits[f] \in CollValues
  PROVE  CollectionsStay'
<1> DEFINE written == [f \in DOMAIN coll[at] |-> IF f \in DOMAIN edits THEN edits[f] ELSE coll[at][f]]
<1>1. coll[at] \in [CollFields -> CollValues] BY DEF RpInv, CollectionsStay
<1>2. written \in [CollFields -> CollValues] BY <1>1
<1>3. coll' = [coll EXCEPT ![at] = written] BY DEF CollWrites
<1> HIDE DEF written
<1> QED BY <1>2, <1>3 DEF RpInv, CollectionsStay

-----------------------------------------------------------------------------
LEMMA RpStarts == RpInit => RpInv
<1> SUFFICES ASSUME RpInit PROVE RpInv OBVIOUS
<1>1. CollectionsStay BY ReplayAssumption DEF RpInit, CollectionsStay, CollIds
<1>2. JournalIsList /\ RowsPlaced /\ Len(ops) = 0
  <2>1. <<>> \in Seq({}) /\ Len(<<>>) = 0 OBVIOUS
  <2> QED BY <2>1 DEF RpInit, JournalIsList, RowsPlaced
<1>3. RequestsPlaced /\ RedoPlaced BY DEF RpInit, RequestsPlaced, RedoPlaced
<1>4. BookFollowed BY DEF RpInit, BookFollowed, SideRowsFollow
<1> QED BY <1>1, <1>2, <1>3, <1>4 DEF RpInv

\* A request that records an edit of the book.
LEMMA BookRecordsKeeps ==
  ASSUME RpInv, NEW p \in Patchers, NEW e \in BookEdits, BookRecords(p, e) PROVE RpInv'
<1>1. PICK r : r = Row(e.field, 0, book[e.field], e.value) OBVIOUS
<1>2. PICK n : n = Len(ops) + 1 OBVIOUS
<1>3. PICK q : q = [step |-> "book", mine |-> {n}, at |-> 0, verdict |-> "done"] OBVIOUS
<1>4. ops' = Append(ops, r) /\ patch' = [patch EXCEPT ![p] = q] /\ UNCHANGED <<book, side, coll, redo, created>>
  BY <1>1, <1>2, <1>3 DEF BookRecords
<1>5. r.field \in BookFields /\ (r.field = "title" => r.intent # Nothing)
  BY <1>1, RowSays, ReplayAssumption
<1>6. \E T : ops \in Seq(T) BY DEF RpInv, JournalIsList
<1>7. /\ \E T : ops' \in Seq(T)
      /\ Len(ops) \in Nat /\ Len(ops') = Len(ops) + 1 /\ ops'[n] = r
      /\ \A i \in 1 .. Len(ops) : ops'[i] = ops[i]
  <2>1. PICK s : s = ops
    OBVIOUS
  <2>2. \E T : s \in Seq(T)
    BY <1>6, <2>1
  <2>3. /\ (\E T : Append(s, r) \in Seq(T)) /\ Len(s) \in Nat
        /\ Len(Append(s, r)) = Len(s) + 1 /\ Append(s, r)[Len(s) + 1] = r
        /\ \A i \in 1 .. Len(s) : Append(s, r)[i] = s[i]
    BY <2>2, JournalGrows, Zenon
  <2>4. ops' = Append(s, r) /\ n = Len(s) + 1
    BY <1>2, <1>4, <2>1
  <2>5. QED
    BY <2>1, <2>3, <2>4
<1>8. JournalIsList' BY <1>7 DEF JournalIsList
<1>9. CollectionsStay' /\ created <= created' BY <1>4, CollsStand
<1>10. /\ \A i \in 1 .. Len(ops) : RowAt(ops[i])'
       /\ \A x : RequestAt(x) => RequestAt(x)'
       /\ \A x : RedoAt(x) => RedoAt(x)'
  <2>1. Len(ops') \in Nat /\ Len(ops) <= Len(ops') BY <1>7
  <2> QED BY <2>1, <1>7, <1>9, OldStand
<1>11. RowsPlaced'
  <2>1. RowAt(r)' BY <1>5 DEF RowAt
  <2>2. RowAt(ops[n])' BY <2>1, <1>7
  <2> QED BY <2>2, <1>2, <1>7, <1>10 DEF RowsPlaced
<1>12. RequestAt(q)' BY <1>2, <1>3, <1>5, <1>7 DEF RequestAt
<1>13. RequestsPlaced' BY <1>3, <1>4, <1>10, <1>12, OneMoves
<1>14. RedoPlaced' /\ BookFollowed' BY <1>4, <1>10, RedoStands, BookStands
<1> QED BY <1>8, <1>9, <1>11, <1>13, <1>14 DEF RpInv

\* A request that records an edit of a collection.
LEMMA CollRecordsKeeps ==
  ASSUME RpInv, NEW p \in Patchers, NEW at \in CollIds, NEW edits \in CollEdits, CollRecords(p, at, edits)
  PROVE  RpInv'
<1>1. PICK t : t = EditRows(at, edits) OBVIOUS
<1>2. PICK m : m = (Len(ops) + 1)..Len(ops \o t) OBVIOUS
<1>3. PICK q : q = [step |-> "collection", at |-> at, verdict |-> "done", mine |-> m] OBVIOUS
<1>4. /\ ops' = ops \o t /\ patch' = [patch EXCEPT ![p] = q]
      /\ UNCHANGED <<book, side, coll, redo, created>> /\ coll[at] # Nothing
  BY <1>1, <1>2, <1>3 DEF CollRecords
<1>5. at <= created BY <1>4 DEF RpInv, CollectionsStay
<1>6. (\E T : t \in Seq(T)) /\ \A i \in 1 .. Len(t) : RowAt(t[i]) /\ t[i].field \in CollFields
  BY <1>1, <1>5, EditRowsPlaced
<1>7. \E T : ops \in Seq(T) BY DEF RpInv, JournalIsList
<1>8. /\ \E T : ops' \in Seq(T)
      /\ Len(ops) \in Nat /\ Len(t) \in Nat /\ Len(ops') = Len(ops) + Len(t)
      /\ \A i \in 1 .. Len(ops) : ops'[i] = ops[i]
      /\ \A i \in 1 .. Len(ops') : i > Len(ops) => ops'[i] = t[i - Len(ops)] /\ i - Len(ops) \in 1 .. Len(t)
  BY <1>4, <1>6, <1>7, JournalJoins
<1>9. JournalIsList' BY <1>8 DEF JournalIsList
<1>10. CollectionsStay' /\ created <= created' BY <1>4, CollsStand
<1>11. /\ \A i \in 1 .. Len(ops) : RowAt(ops[i])'
       /\ \A x : RequestAt(x) => RequestAt(x)'
       /\ \A x : RedoAt(x) => RedoAt(x)'
  <2>1. Len(ops') \in Nat /\ Len(ops) <= Len(ops') BY <1>8
  <2> QED BY <2>1, <1>8, <1>10, OldStand
<1>12. ASSUME NEW i \in 1 .. Len(ops'), i > Len(ops) PROVE RowAt(ops[i])' /\ ops'[i].field \in CollFields
  <2>1. PICK j \in 1 .. Len(t) : ops'[i] = t[j] BY <1>8, <1>12
  <2>2. PICK o : o = t[j] OBVIOUS
  <2>3. RowAt(o) /\ o.field \in CollFields BY <2>2, <1>6
  <2>4. RowAt(o)' BY <2>3, <1>4 DEF RowAt
  <2> QED BY <2>1, <2>2, <2>3, <2>4
<1>13. RowsPlaced'
  <2>1. ASSUME NEW i \in 1 .. Len(ops') PROVE RowAt(ops[i])'
    <3>1. CASE i <= Len(ops)
      <4>1. i \in 1 .. Len(ops) BY <3>1, <1>8
      <4> QED BY <4>1, <1>11
    <3>2. CASE i > Len(ops) BY <3>2, <1>12
    <3> QED BY <3>1, <3>2, <1>8
  <2> QED BY <2>1 DEF RowsPlaced
<1>14. RequestAt(q)'
  <2>1. \A i \in m : i \in 1 .. Len(ops') /\ i > Len(ops) BY <1>2, <1>4, <1>8
  <2>2. \A i \in m : ops'[i].field \in CollFields BY <2>1, <1>12
  <2> QED BY <2>1, <2>2, <1>3, <1>4, <1>5 DEF RequestAt
<1>15. RequestsPlaced' BY <1>3, <1>4, <1>11, <1>14, OneMoves
<1>16. RedoPlaced' /\ BookFollowed' BY <1>4, <1>11, RedoStands, BookStands
<1> QED BY <1>9, <1>10, <1>13, <1>15, <1>16 DEF RpInv
\* What a step that leaves the journal and the collections alone has to show.
LEMMA QuietKeeps ==
  ASSUME RpInv, UNCHANGED <<ops, coll, created>>, BookFollowed', RequestsPlaced', RedoPlaced' PROVE RpInv'
BY CollsStand, SameStand DEF RpInv

\* The handler of a book writes.
LEMMA BookPatchesKeeps == ASSUME RpInv, NEW p \in Patchers, BookPatches(p) PROVE RpInv'
<1>1. patch[p] # Nothing /\ patch[p].step = "book" BY DEF BookPatches, Does
<1>2. RequestAt(patch[p]) BY <1>1 DEF RpInv, RequestsPlaced
<1>3. PICK i \in 1 .. Len(ops) : patch[p].mine = {i} /\ ops[i].field \in BookFields BY <1>1, <1>2 DEF RequestAt
<1>4. (CHOOSE j \in patch[p].mine : TRUE) = i BY <1>3
<1>5. PICK q : q = IF ~book.exists /\ ops[i].field = "title" THEN Nothing
                   ELSE [patch[p] EXCEPT !.step = "settle", !.verdict = IF book.exists THEN "done" ELSE "failed"]
  OBVIOUS
<1>6. /\ IF book.exists THEN BookWrites(ops[i].field, ops[i].intent) ELSE UNCHANGED <<book, side>>
      /\ patch' = [patch EXCEPT ![p] = q]
      /\ UNCHANGED <<up, coll, ops, redo, created, faults>>
  BY <1>4, <1>5 DEF BookPatches
<1>7. ops[i].field = "title" => ops[i].intent # Nothing
  BY <1>3 DEF RpInv, RowsPlaced, RowAt, BookFields, CollFields
<1>8. BookFollowed'
  <2>1. CASE book.exists BY <2>1, <1>6, <1>7, BookWritesFollow
  <2>2. CASE ~book.exists BY <2>2, <1>6, BookStands
  <2> QED BY <2>1, <2>2
<1>9. /\ \A x : RequestAt(x) => RequestAt(x)'
      /\ \A x : RedoAt(x) => RedoAt(x)'
  BY <1>6, CollsStand, SameStand
<1>10. q # Nothing => RequestAt(q) BY <1>2, <1>5 DEF RequestAt
<1>11. RequestsPlaced' /\ RedoPlaced' BY <1>6, <1>9, <1>10, OneMoves, RedoStands
<1> QED BY <1>6, <1>8, <1>11, QuietKeeps

\* The book goes, with what follows it.
LEMMA BookGoesKeeps == ASSUME RpInv, BookGoes PROVE RpInv'
<1>1. UNCHANGED <<ops, coll, created, patch, redo>> BY DEF BookGoes
<1>2. BookFollowed' BY DEF BookGoes, RpInv, BookFollowed
<1>3. RequestsPlaced' /\ RedoPlaced' BY <1>1, CollsStand, SameStand, RequestsStand, RedoStands
<1> QED BY <1>1, <1>2, <1>3, QuietKeeps

\* The handler of a collection writes its columns, or finds a name taken.
LEMMA CollPatchesKeeps == ASSUME RpInv, NEW p \in Patchers, CollPatches(p) PROVE RpInv'
<1>1. patch[p] # Nothing /\ patch[p].step = "collection" BY DEF CollPatches, Does
<1>2. RequestAt(patch[p]) BY <1>1 DEF RpInv, RequestsPlaced
<1>3. PICK mine : mine = {ops[i] : i \in patch[p].mine} OBVIOUS
<1>4. PICK edits : edits = [f \in {o.field : o \in mine} |-> (CHOOSE o \in mine : o.field = f).intent] OBVIOUS
<1>5. PICK clash \in BOOLEAN : clash <=> \E o \in mine : Taken(o.field, o.intent, o.at) OBVIOUS
<1>6. PICK q : q = [patch[p] EXCEPT !.step = "settle", !.verdict = IF clash THEN "failed" ELSE "done"] OBVIOUS
<1>7. /\ IF clash THEN UNCHANGED coll ELSE CollWrites(patch[p].at, edits)
      /\ patch' = [patch EXCEPT ![p] = q]
      /\ UNCHANGED <<up, book, side, ops, redo, created, faults>>
  <2>1. /\ IF clash THEN UNCHANGED coll ELSE CollWrites(patch[p].at, edits)
        /\ UNCHANGED <<up, book, side, ops, redo, created, faults>>
    BY <1>3, <1>4, <1>5 DEF CollPatches
  <2>2. patch' = [patch EXCEPT ![p].step = "settle", ![p].verdict = IF clash THEN "failed" ELSE "done"]
    BY <1>3, <1>5 DEF CollPatches
  <2>3. [patch EXCEPT ![p].step = "settle", ![p].verdict = IF clash THEN "failed" ELSE "done"]
          = [patch EXCEPT ![p] = q]
    BY <1>6, Zenon DEF RpInv, RequestsPlaced
  <2> QED BY <2>1, <2>2, <2>3
<1>8. \A f \in DOMAIN edits : edits[f] \in CollValues
  <2>1. ASSUME NEW f \in {o.field : o \in mine} PROVE edits[f] \in CollValues
    <3>1. PICK o \in mine : o.field = f BY <2>1
    <3>2. PICK c : c = CHOOSE x \in mine : x.field = f OBVIOUS
    <3>3. c \in mine BY <3>1, <3>2
    <3>4. PICK i \in patch[p].mine : c = ops[i] BY <3>3, <1>3
    <3>5. ops[i].field \in CollFields /\ i \in 1 .. Len(ops) BY <1>1, <1>2 DEF RequestAt
    <3>6. ops[i].intent \in CollValues
      BY <3>5 DEF RpInv, RowsPlaced, RowAt, CollFields, BookFields
    <3> QED BY <3>2, <3>4, <3>6, <1>4
  <2> QED BY <2>1, <1>4
<1>9. CollectionsStay' /\ created <= created'
  <2>1. patch[p].at \in CollIds /\ patch[p].at <= created BY <1>1, <1>2 DEF RequestAt
  <2>2. CollectionsStay' BY <2>1, <1>7, <1>8, CollWritesStay, CollsStand
  <2>3. created \in Nat BY ReplayAssumption DEF RpInv, CollectionsStay
  <2> QED BY <2>2, <2>3, <1>7
<1>10. /\ JournalIsList' /\ RowsPlaced'
       /\ \A x : RequestAt(x) => RequestAt(x)'
       /\ \A x : RedoAt(x) => RedoAt(x)'
  BY <1>7, <1>9, SameStand
<1>11. RequestAt(q) BY <1>2, <1>6 DEF RequestAt
<1>12. RequestsPlaced' /\ RedoPlaced' BY <1>7, <1>10, <1>11, OneMoves, RedoStands
<1> QED BY <1>7, <1>9, <1>10, <1>12, BookStands DEF RpInv

\* A collection is inserted.
LEMMA CreateInsertsKeeps == ASSUME RpInv, NEW p \in Patchers, NEW c \in NewColls, CreateInserts(p, c) PROVE RpInv'
<1>1. PICK n : n = created + 1 OBVIOUS
<1>2. PICK q : q = [step |-> "created", mine |-> {}, at |-> n, verdict |-> "done"] OBVIOUS
<1>3. /\ created < MaxColls /\ created' = n /\ coll' = [coll EXCEPT ![n] = c] /\ patch' = [patch EXCEPT ![p] = q]
      /\ UNCHANGED <<up, book, side, ops, redo, faults>>
  BY <1>1, <1>2 DEF CreateInserts
<1>4. created \in Nat /\ n \in CollIds BY <1>1, <1>3, ReplayAssumption DEF RpInv, CollectionsStay, CollIds
<1>5. CollectionsStay' /\ created <= created'
  <2>1. c \in [CollFields -> CollValues] BY ReplayAssumption
  <2>2. ASSUME NEW i \in CollIds
        PROVE  IF i <= created' THEN coll'[i] \in [CollFields -> CollValues] ELSE coll'[i] = Nothing
    <3>1. i \in Nat BY ReplayAssumption DEF CollIds
    <3>2. CASE i = n
      <4>1. coll'[i] = c BY <3>2, <1>3, <1>4 DEF RpInv, CollectionsStay
      <4>2. i <= created' BY <3>1, <3>2, <1>3
      <4> QED BY <4>1, <4>2, <2>1
    <3>3. CASE i # n
      <4>1. coll'[i] = coll[i] BY <3>3, <1>3 DEF RpInv, CollectionsStay
      <4>2. i <= created' <=> i <= created BY <3>1, <3>3, <1>1, <1>3, <1>4
      <4> QED BY <4>1, <4>2 DEF RpInv, CollectionsStay
    <3> QED BY <3>2, <3>3
  <2> QED BY <2>2, <1>1, <1>3, <1>4, ReplayAssumption DEF RpInv, CollectionsStay
<1>6. /\ JournalIsList' /\ RowsPlaced'
      /\ \A x : RequestAt(x) => RequestAt(x)'
      /\ \A x : RedoAt(x) => RedoAt(x)'
  BY <1>3, <1>5, SameStand
<1>7. RequestAt(q)' BY <1>1, <1>2, <1>3, <1>4 DEF RequestAt
<1>8. RequestsPlaced' /\ RedoPlaced' BY <1>2, <1>3, <1>6, <1>7, OneMoves, RedoStands
<1> QED BY <1>3, <1>5, <1>6, <1>8, BookStands DEF RpInv

\* Its row of the journal follows, unless that fails.
LEMMA CreateRecordsKeeps == ASSUME RpInv, NEW p \in Patchers, CreateRecords(p) PROVE RpInv'
<1>1. patch[p] # Nothing /\ patch[p].step = "created" BY DEF CreateRecords, Does
<1>2. RequestAt(patch[p]) BY <1>1 DEF RpInv, RequestsPlaced
<1>3. PICK r : r = Row("create", patch[p].at, Nothing, coll[patch[p].at]) OBVIOUS
<1>4. PICK n : n = Len(ops) + 1 OBVIOUS
<1>5. PICK q : q = [patch[p] EXCEPT !.step = "settle", !.mine = {n}] OBVIOUS
<1>6. UNCHANGED <<up, book, side, coll, redo, created>> BY DEF CreateRecords
<1>7. \/ ops' = Append(ops, r) /\ patch' = [patch EXCEPT ![p] = q]
      \/ UNCHANGED ops /\ patch' = [patch EXCEPT ![p] = Nothing]
  <2>1. [patch EXCEPT ![p].step = "settle", ![p].mine = {n}] = [patch EXCEPT ![p] = q]
    BY <1>5, Zenon DEF RpInv, RequestsPlaced
  <2> QED BY <2>1, <1>3, <1>4 DEF CreateRecords
<1>8. CollectionsStay' /\ created <= created' BY <1>6, CollsStand
<1>9. CASE ops' = Append(ops, r) /\ patch' = [patch EXCEPT ![p] = q]
  <2>1. r.field = "create" /\ r.at \in CollIds /\ r.at <= created BY <1>1, <1>2, <1>3, RowSays DEF RequestAt
  <2>2. \E T : ops \in Seq(T) BY DEF RpInv, JournalIsList
  <2>3. /\ \E T : ops' \in Seq(T)
        /\ Len(ops) \in Nat /\ Len(ops') = Len(ops) + 1 /\ ops'[n] = r
        /\ \A i \in 1 .. Len(ops) : ops'[i] = ops[i]
    <3>1. PICK s : s = ops
      OBVIOUS
    <3>2. \E T : s \in Seq(T)
      BY <2>2, <3>1
    <3>3. /\ (\E T : Append(s, r) \in Seq(T)) /\ Len(s) \in Nat
          /\ Len(Append(s, r)) = Len(s) + 1 /\ Append(s, r)[Len(s) + 1] = r
          /\ \A i \in 1 .. Len(s) : Append(s, r)[i] = s[i]
      BY <3>2, JournalGrows, Zenon
    <3>4. ops' = Append(s, r) /\ n = Len(s) + 1
      BY <1>4, <1>9, <3>1
    <3> QED
      BY <3>1, <3>3, <3>4
  <2>4. JournalIsList' BY <2>3 DEF JournalIsList
  <2>5. /\ \A i \in 1 .. Len(ops) : RowAt(ops[i])'
        /\ \A x : RequestAt(x) => RequestAt(x)'
        /\ \A x : RedoAt(x) => RedoAt(x)'
    <3>1. Len(ops') \in Nat /\ Len(ops) <= Len(ops') BY <2>3
    <3> QED BY <3>1, <2>3, <1>8, OldStand
  <2>6. RowsPlaced'
    <3>1. RowAt(r)' BY <2>1, <1>6 DEF RowAt
    <3>2. RowAt(ops[n])' BY <3>1, <2>3
    <3> QED BY <3>2, <1>4, <2>3, <2>5 DEF RowsPlaced
  <2>7. RequestAt(q)'
    <3>1. q = [step |-> "settle", mine |-> {n}, at |-> patch[p].at, verdict |-> patch[p].verdict]
      BY <1>2, <1>5 DEF RequestAt
    <3>2. n \in 1 .. Len(ops') BY <1>4, <2>3
    <3> HIDE <1>5
    <3> QED BY <3>1, <3>2 DEF RequestAt
  <2>8. RequestsPlaced' BY <1>9, <2>5, <2>7, OneMoves
  <2> QED BY <1>6, <1>8, <2>4, <2>5, <2>6, <2>8, RedoStands, BookStands DEF RpInv
<1>10. CASE UNCHANGED ops /\ patch' = [patch EXCEPT ![p] = Nothing]
  <2>1. RequestsPlaced' /\ RedoPlaced' BY <1>6, <1>8, <1>10, SameStand, OneMoves, RedoStands
  <2> QED BY <1>6, <1>10, <2>1, BookStands, QuietKeeps
<1> QED BY <1>7, <1>9, <1>10
\* A verdict on rows of the journal.
LEMMA MarkStands ==
  ASSUME RpInv, NEW S, NEW verdict, ops' = Marked(S, verdict), UNCHANGED <<coll, created>>
  PROVE  /\ JournalIsList' /\ RowsPlaced' /\ Len(ops') = Len(ops)
         /\ \A x : RequestAt(x) => RequestAt(x)'
         /\ \A x : RedoAt(x) => RedoAt(x)'
<1>1. /\ JournalIsList' /\ Len(ops') = Len(ops) /\ Len(ops) \in Nat
      /\ \A i \in 1 .. Len(ops) : /\ ops'[i].field = ops[i].field /\ ops'[i].at = ops[i].at
                                  /\ ops'[i].intent = ops[i].intent
  BY MarkKeeps DEF RpInv, JournalIsList
<1>2. CollectionsStay' /\ created <= created' BY CollsStand
<1>3. Len(ops') \in Nat /\ Len(ops) <= Len(ops') BY <1>1
<1>4. /\ \A i \in 1 .. Len(ops) : RowAt(ops[i])'
      /\ \A x : RequestAt(x) => RequestAt(x)'
      /\ \A x : RedoAt(x) => RedoAt(x)'
  BY <1>1, <1>2, <1>3, OldStand
<1> QED BY <1>1, <1>4 DEF RowsPlaced

\* finalize_pending_journals settles the rows of a request, or fails to.
LEMMA SettleKeeps == ASSUME RpInv, NEW p \in Patchers, Settle(p) PROVE RpInv'
<1>1. patch' = [patch EXCEPT ![p] = Nothing] /\ UNCHANGED <<up, book, side, coll, redo, created>> BY DEF Settle
<1>2. CASE ops' = Marked(patch[p].mine, patch[p].verdict)
  <2>1. PICK S, verdict : ops' = Marked(S, verdict) BY <1>2
  <2>2. /\ JournalIsList' /\ RowsPlaced'
        /\ \A x : RequestAt(x) => RequestAt(x)'
        /\ \A x : RedoAt(x) => RedoAt(x)'
    BY <2>1, <1>1, MarkStands
  <2>3. RequestsPlaced' /\ RedoPlaced' BY <1>1, <2>2, OneMoves, RedoStands
  <2> QED BY <1>1, <2>2, <2>3, CollsStand, BookStands DEF RpInv
<1>3. CASE UNCHANGED ops
  <2>1. RequestsPlaced' /\ RedoPlaced' BY <1>1, <1>3, CollsStand, SameStand, OneMoves, RedoStands
  <2> QED BY <1>1, <1>3, <2>1, BookStands, QuietKeeps
<1> QED BY <1>2, <1>3 DEF Settle

\* A row is taken up by a retry, or by the recovery pass.
LEMMA TakingIsAt ==
  ASSUME NEW i \in 1 .. Len(ops), NEW todo \in SUBSET (1 .. Len(ops)) PROVE RedoAt(Taking(i, todo))
<1>1. PICK t : t = Taking(i, todo) OBVIOUS
<1>2. t = [step |-> "read", op |-> i, todo |-> todo, verdict |-> "done"] BY <1>1 DEF Taking
<1>3. RedoAt(t) BY <1>2 DEF RedoAt
<1> QED BY <1>1, <1>3

LEMMA RetryKeeps == ASSUME RpInv, NEW i \in DOMAIN ops, Retry(i) PROVE RpInv'
<1>1. i \in 1 .. Len(ops) BY DEF RpInv, JournalIsList
<1>2. PICK t : t = Taking(i, {}) OBVIOUS
<1>3. redo' = t /\ UNCHANGED <<up, book, side, coll, ops, patch, created, faults>> BY <1>2 DEF Retry
<1>4. RedoAt(t) BY <1>1, <1>2, TakingIsAt
<1>5. /\ \A x : RequestAt(x) => RequestAt(x)'
      /\ \A x : RedoAt(x) => RedoAt(x)'
  BY <1>3, CollsStand, SameStand
<1>6. RequestsPlaced' /\ RedoPlaced' BY <1>3, <1>4, <1>5, RequestsStand DEF RedoPlaced
<1> QED BY <1>3, <1>6, BookStands, QuietKeeps

\* What was inserted is there, so that no replay decides to insert it again.
LEMMA CreatedIsThere ==
  ASSUME RpInv, NEW i \in 1 .. Len(ops), ops[i].field = "create" PROVE Decision(ops[i]) # "write"
<1>1. ops[i].at \in CollIds /\ ops[i].at <= created
  BY DEF RpInv, RowsPlaced, RowAt, BookFields, CollFields
<1>2. ops[i].at # 0 /\ coll[ops[i].at] # Nothing
  BY <1>1, ReplayAssumption DEF RpInv, CollectionsStay, CollIds
<1>3. ~Gone(ops[i]) BY <1>2 DEF Gone
<1> QED BY <1>3 DEF Decision, CreateDecision

LEMMA ReplayReadsKeeps == ASSUME RpInv, ReplayReads PROVE RpInv'
<1>1. redo # Nothing /\ RedoAt(redo) BY DEF ReplayReads, Redoing, RpInv, RedoPlaced
<1>2. PICK d : d = Decision(ops[redo.op]) OBVIOUS
<1>3. PICK t : t = [redo EXCEPT !.step = IF d = "write" THEN "write" ELSE "mark", !.verdict = d] OBVIOUS
<1>4. redo' = t /\ UNCHANGED <<up, book, side, coll, ops, patch, created, faults>> BY <1>2, <1>3 DEF ReplayReads
<1>5. RedoAt(t)
  <2>1. t = [step |-> IF d = "write" THEN "write" ELSE "mark", op |-> redo.op, todo |-> redo.todo, verdict |-> d]
    BY <1>1, <1>3 DEF RedoAt
  <2>2. redo.op \in 1 .. Len(ops) /\ redo.todo \subseteq 1 .. Len(ops) BY <1>1 DEF RedoAt
  <2>3. d = "write" => ops[redo.op].field # "create" BY <1>2, <2>2, CreatedIsThere
  <2> QED BY <2>1, <2>2, <2>3 DEF RedoAt
<1>6. /\ \A x : RequestAt(x) => RequestAt(x)'
      /\ \A x : RedoAt(x) => RedoAt(x)'
  BY <1>4, CollsStand, SameStand
<1>7. RequestsPlaced' /\ RedoPlaced' BY <1>4, <1>5, <1>6, RequestsStand DEF RedoPlaced
<1> QED BY <1>4, <1>7, BookStands, QuietKeeps

\* The replay writes as the handler does, or errs.
LEMMA ReplayWritesKeeps == ASSUME RpInv, ReplayWrites PROVE RpInv'
<1>1. redo # Nothing /\ redo.step = "write" /\ RedoAt(redo)
  BY DEF ReplayWrites, Redoing, RpInv, RedoPlaced
<1>2. PICK o : o = ops[redo.op] OBVIOUS
<1>3. redo.op \in 1 .. Len(ops) /\ RowAt(o) /\ o.field # "create" BY <1>1, <1>2 DEF RedoAt, RpInv, RowsPlaced
<1>4. UNCHANGED <<up, ops, patch, created, faults>> BY DEF ReplayWrites
<1>5. \/ o.field \in BookFields /\ ReplayBook(o)
      \/ o.field \in CollFields /\ o.field \notin BookFields /\ ReplayColl(o)
  BY <1>2, <1>3 DEF ReplayWrites, RowAt
<1>6. ReplayDone \/ ReplayErrs BY <1>5 DEF ReplayBook, ReplayColl
<1>7. redo' # Nothing => \E v : redo' = [step |-> "mark", op |-> redo.op, todo |-> redo.todo, verdict |-> v]
  BY <1>1, <1>6 DEF ReplayDone, ReplayErrs, RedoAt
<1>8. CollectionsStay' /\ created <= created' /\ BookFollowed'
  <2>1. CASE o.field \in BookFields /\ ReplayBook(o)
    <3>1. UNCHANGED coll BY <2>1 DEF ReplayBook
    <3>2. o.field = "title" => o.intent # Nothing BY <2>1, <1>3 DEF RowAt, BookFields, CollFields
    <3>3. CASE book.exists
      <4>1. BookWrites(o.field, o.intent) BY <2>1, <3>3 DEF ReplayBook
      <4> QED BY <4>1, <3>1, <3>2, <3>3, <1>4, BookWritesFollow, CollsStand
    <3>4. CASE ~book.exists
      <4>1. UNCHANGED <<book, side>> BY <2>1, <3>4 DEF ReplayBook
      <4> QED BY <4>1, <3>1, <1>4, BookStands, CollsStand
    <3> QED BY <3>3, <3>4
  <2>2. CASE o.field \in CollFields /\ o.field \notin BookFields /\ ReplayColl(o)
    <3>1. UNCHANGED <<book, side>> BY <2>2 DEF ReplayColl
    <3>2. o.at \in CollIds /\ o.at <= created /\ o.intent \in CollValues BY <2>2, <1>3 DEF RowAt
    <3>3. created <= created' BY <1>4, ReplayAssumption DEF RpInv, CollectionsStay
    <3>4. CASE UNCHANGED coll BY <3>1, <3>4, <1>4, BookStands, CollsStand
    <3>5. CASE CollWrites(o.at, [f \in {o.field} |-> o.intent])
      <4>1. PICK w : w = [f \in {o.field} |-> o.intent] OBVIOUS
      <4>2. \A f \in DOMAIN w : w[f] \in CollValues BY <4>1, <3>2
      <4>3. CollWrites(o.at, w) BY <4>1, <3>5
      <4> QED BY <4>2, <4>3, <3>1, <3>2, <3>3, <1>4, CollWritesStay, BookStands
    <3> QED BY <2>2, <3>4, <3>5 DEF ReplayColl
  <2> QED BY <1>5, <2>1, <2>2
<1>9. /\ JournalIsList' /\ RowsPlaced'
      /\ \A x : RequestAt(x) => RequestAt(x)'
      /\ \A x : RedoAt(x) => RedoAt(x)'
  BY <1>4, <1>8, SameStand
<1>10. RedoPlaced' BY <1>1, <1>4, <1>7 DEF RedoPlaced, RedoAt
<1> QED BY <1>4, <1>8, <1>9, <1>10, RequestsStand DEF RpInv

\* The row that was replayed is settled, and the next one taken up.
LEMMA ReplayMarksKeeps == ASSUME RpInv, ReplayMarks PROVE RpInv'
<1>1. redo # Nothing /\ RedoAt(redo) BY DEF ReplayMarks, Redoing, RpInv, RedoPlaced
<1>2. UNCHANGED <<book, side, coll, patch, created>> BY DEF ReplayMarks
<1>3. CASE ops' = Marked({redo.op}, redo.verdict) /\ NextRow
  <2>1. PICK S, verdict : ops' = Marked(S, verdict) BY <1>3
  <2>2. /\ JournalIsList' /\ RowsPlaced'
        /\ \A x : RequestAt(x) => RequestAt(x)'
        /\ \A x : RedoAt(x) => RedoAt(x)'
    BY <2>1, <1>2, MarkStands
  <2>3. RedoPlaced'
    <3>1. CASE redo.todo = {} BY <3>1, <1>3 DEF NextRow, RedoPlaced
    <3>2. CASE redo.todo # {}
      <4>1. PICK i : i = CHOOSE j \in redo.todo : \A k \in redo.todo : j <= k OBVIOUS
      <4>2. i \in redo.todo
        <5>1. redo.todo \subseteq 1 .. Len(ops) BY <1>1 DEF RedoAt
        <5>2. \E j \in redo.todo : \A k \in redo.todo : j <= k BY <3>2, <5>1, LeastNatural
        <5> QED BY <5>2, <4>1
      <4>3. PICK rest : rest = redo.todo \ {i} OBVIOUS
      <4>4. PICK t : t = Taking(i, rest) OBVIOUS
      <4>5. redo' = t BY <1>3, <3>2, <4>1, <4>3, <4>4 DEF NextRow
      <4>6. i \in 1 .. Len(ops) /\ rest \in SUBSET (1 .. Len(ops)) BY <1>1, <4>2, <4>3 DEF RedoAt
      <4>7. RedoAt(t) BY <4>4, <4>6, TakingIsAt
      <4> QED BY <4>5, <4>7, <2>2 DEF RedoPlaced
    <3> QED BY <3>1, <3>2
  <2> QED BY <1>2, <2>2, <2>3, RequestsStand, CollsStand, BookStands DEF RpInv
<1>4. CASE UNCHANGED ops /\ redo' = Nothing
  <2>1. RequestsPlaced' BY <1>2, <1>4, CollsStand, SameStand, RequestsStand
  <2>2. RedoPlaced' BY <1>4 DEF RedoPlaced
  <2> QED BY <1>2, <1>4, <2>1, <2>2, BookStands, QuietKeeps
<1> QED BY <1>3, <1>4 DEF ReplayMarks

\* The daemon stops: what it had in hand is lost, the tables stay.
LEMMA CrashKeeps == ASSUME RpInv, Crash PROVE RpInv'
<1>1. /\ patch' = [p \in Patchers |-> Nothing] /\ redo' = Nothing
      /\ UNCHANGED <<book, side, coll, ops, created>>
  BY DEF Crash
<1>2. RequestsPlaced' /\ RedoPlaced' BY <1>1 DEF RequestsPlaced, RedoPlaced
<1> QED BY <1>1, <1>2, BookStands, QuietKeeps

\* It starts again: the rows that are pending are taken up one after the other.
LEMMA RecoverKeeps == ASSUME RpInv, Recover PROVE RpInv'
<1>1. UNCHANGED <<book, side, coll, ops, patch, created, faults>> BY DEF Recover
<1>2. Pending \subseteq 1 .. Len(ops) BY DEF Pending, RpInv, JournalIsList
<1>3. /\ RequestsPlaced'
      /\ \A x : RedoAt(x) => RedoAt(x)'
  BY <1>1, CollsStand, SameStand, RequestsStand
<1>4. RedoPlaced'
  <2>1. CASE Pending = {} BY <2>1, <1>1, <1>3, RedoStands DEF Recover
  <2>2. CASE Pending # {}
    <3>1. PICK i : i = CHOOSE j \in Pending : \A k \in Pending : j <= k OBVIOUS
    <3>2. i \in Pending
      <4>1. PICK T : T = Pending OBVIOUS
      <4>2. T \subseteq Nat /\ T # {} BY <4>1, <2>2, <1>2
      <4>3. \E j \in T : \A k \in T : j <= k BY <4>2, LeastNatural
      <4> QED BY <4>1, <4>3, <3>1
    <3>3. PICK rest : rest = Pending \ {i} OBVIOUS
    <3>4. PICK t : t = Taking(i, rest) OBVIOUS
    <3>5. redo' = t BY <2>2, <3>1, <3>3, <3>4 DEF Recover
    <3>6. i \in 1 .. Len(ops) /\ rest \in SUBSET (1 .. Len(ops)) BY <1>2, <3>2, <3>3
    <3>7. RedoAt(t) BY <3>4, <3>6, TakingIsAt
    <3> QED BY <3>5, <3>7, <1>3 DEF RedoPlaced
  <2> QED BY <2>1, <2>2
<1> QED BY <1>1, <1>3, <1>4, BookStands, QuietKeeps

LEMMA ReplayStutters == ASSUME RpInv, UNCHANGED rpVars PROVE RpInv'
<1>1. UNCHANGED <<book, side, coll, ops, patch, redo, created>> BY DEF rpVars
<1>2. RequestsPlaced' /\ RedoPlaced' BY <1>1, CollsStand, SameStand, RequestsStand, RedoStands
<1> QED BY <1>1, <1>2, BookStands, QuietKeeps

LEMMA ReplayStepKeeps == ASSUME RpInv, [RpStep]_rpVars PROVE RpInv'
<1>1. ASSUME NEW p \in Patchers, NEW e \in BookEdits, BookRecords(p, e) PROVE RpInv'
  BY <1>1, BookRecordsKeeps
<1>2. ASSUME NEW p \in Patchers, NEW at \in CollIds, NEW edits \in CollEdits, CollRecords(p, at, edits)
      PROVE RpInv'
  BY <1>2, CollRecordsKeeps
<1>3. ASSUME NEW p \in Patchers, NEW c \in NewColls, CreateInserts(p, c) PROVE RpInv'
  BY <1>3, CreateInsertsKeeps
<1>4. ASSUME NEW p \in Patchers, BookPatches(p) \/ CollPatches(p) \/ CreateRecords(p) \/ Settle(p) PROVE RpInv'
  BY <1>4, BookPatchesKeeps, CollPatchesKeeps, CreateRecordsKeeps, SettleKeeps
<1>5. ASSUME NEW i \in DOMAIN ops, Retry(i) PROVE RpInv' BY <1>5, RetryKeeps
<1>6. CASE BookGoes BY <1>6, BookGoesKeeps
<1>7. CASE ReplayReads BY <1>7, ReplayReadsKeeps
<1>8. CASE ReplayWrites BY <1>8, ReplayWritesKeeps
<1>9. CASE ReplayMarks BY <1>9, ReplayMarksKeeps
<1>10. CASE Crash BY <1>10, CrashKeeps
<1>11. CASE Recover BY <1>11, RecoverKeeps
<1>12. CASE UNCHANGED rpVars BY <1>12, ReplayStutters
<1> QED BY <1>1, <1>2, <1>3, <1>4, <1>5, <1>6, <1>7, <1>8, <1>9, <1>10, <1>11, <1>12 DEF RpStep

\* A replay does what the handler would have done, once: however often rows
\* are left pending, retried and replayed, there are as many collections as
\* requests inserted, and the newest edit of the title, and is_finished, follow
\* the book's own row (journal_replayers.rs, collections.rs, progress.rs).
THEOREM ReplayIsDoneOnce == RpSpec => []ReplayedAsDone
<1>1. RpInit => RpInv BY RpStarts
<1>2. RpInv /\ [RpStep]_rpVars => RpInv' BY ReplayStepKeeps
<1>3. RpInv => ReplayedAsDone
  <2>1. RpInv => CollectionsStay /\ BookFollowed BY DEF RpInv
  <2> QED BY <2>1, CountedColls DEF ReplayedAsDone, BookFollowed
<1> QED BY <1>1, <1>2, <1>3, PTL DEF RpSpec

-----------------------------------------------------------------------------
(* --- Upkeep -------------------------------------------------------------- *)
(* Proofs about Upkeep, for any tasks, intervals and rows.                   *)

RowKind == [target : ToSet(TargetNames), open : BOOLEAN, old : BOOLEAN]
TablesTyped == tables \in [Rows -> OptionOf(RowKind)]
\* A hint is of no use to keep: only codes and operations are ever held.
HintsAreShut ==
  \A r \in Live : tables[r].target = "stale-companion-hints" => ~tables[r].open

LEMMA NotFoundIsNoRow == Nothing \notin RowKind
  BY UpkeepAssumption DEF RowKind

\* What a step may take: nothing that is in use, and a journal row only by a
\* clean of its target that commits.
MayGo(r) ==
  /\ ~tables[r].open
  /\ tables[r].target = "stale-operation-journal" =>
       /\ sweeps # Nothing /\ sweeps.commit /\ Head(sweeps.todo) = tables[r].target
       /\ sweeps.force \/ tables[r].old

LEMMA OnlyTheseGo ==
  ASSUME TablesTyped, HintsAreShut, TaskStep \/ TableStep, NEW r \in Rows, tables[r] # Nothing, tables'[r] = Nothing
  PROVE  MayGo(r)
<1>1. tables[r] \in RowKind
  BY DEF TablesTyped, OptionOf
<1>2. CASE TaskStep
  <2>1. tables' = tables
    BY <1>2 DEF TaskStep, LoopStep, TickBegins, PassOver, StartTask, TaskEnds, TickEnds, StartUpkeep,
       TimePasses, ManualStep, BackgroundTaskRun, ManualEnds, ManualLost, StopUpkeep
  <2>2. QED
    BY <2>1
<1>3. ASSUME NEW s \in Rows, NEW target \in ToSet(TargetNames), RowAppears(s, target)
      PROVE  FALSE
  BY <1>3 DEF RowAppears, TablesTyped
<1>4. ASSUME NEW s \in Rows, RowTurns(s) \/ RowAges(s)
      PROVE  FALSE
  <2>1. \/ tables' = [tables EXCEPT ![s].open = ~@]
        \/ tables' = [tables EXCEPT ![s].old = TRUE]
    BY <1>4 DEF RowTurns, RowAges
  <2>2. tables'[r] = tables[r] \/ s = r
    BY <2>1 DEF TablesTyped
  <2>3. s = r
    BY <2>2
  <2>4. \/ tables'[r] = [tables[r] EXCEPT !.open = ~@]
        \/ tables'[r] = [tables[r] EXCEPT !.old = TRUE]
    BY <2>1, <2>3 DEF TablesTyped
  <2>5. tables'[r] \in RowKind
    BY <1>1, <2>4 DEF RowKind
  <2>6. QED
    BY <2>5, NotFoundIsNoRow
<1>5. ASSUME NEW category, NEW commit, NEW force, CleanRun(category, commit, force)
      PROVE  FALSE
  BY <1>5 DEF CleanRun
<1>6. CASE CleanTarget
  <2>1. sweeps # Nothing /\ tables' # tables
    BY <1>6 DEF CleanTarget
  <2>2. /\ sweeps.commit
        /\ tables' = [s \in Rows |->
             IF s \in Deleted(Head(sweeps.todo), sweeps.force) THEN Nothing ELSE tables[s]]
    BY <1>6, <2>1 DEF CleanTarget
  <2>3. r \in Deleted(Head(sweeps.todo), sweeps.force)
    BY <2>2
  <2>4. QED
    BY <2>1, <2>2, <2>3 DEF Deleted, MayGo
<1>7. ASSUME NEW s \in Rows, RowTaken(s)
      PROVE  MayGo(r)
  <2>1. s = r
    BY <1>7 DEF RowTaken, TablesTyped
  <2>2. CASE tables[r].target = "expired-pairing-codes" /\ ~tables[r].open
    BY <2>2 DEF MayGo
  <2>3. CASE tables[r].target = "stale-companion-hints"
    <3>1. ~tables[r].open
      BY <2>3 DEF HintsAreShut, Live
    <3>2. QED
      BY <2>3, <3>1 DEF MayGo
  <2>4. QED
    BY <1>7, <2>1, <2>2, <2>3 DEF RowTaken
<1>8. QED
  BY <1>2, <1>3, <1>4, <1>5, <1>6, <1>7 DEF TableStep, CleanStep, RowStep

\* Rows stay rows.
LEMMA TablesStayTyped ==
  ASSUME TablesTyped, [TaskStep \/ TableStep]_upVars
  PROVE  TablesTyped'
<1>1. CASE TaskStep \/ UNCHANGED upVars
  <2>1. tables' = tables
    BY <1>1 DEF TaskStep, LoopStep, TickBegins, PassOver, StartTask, TaskEnds, TickEnds, StartUpkeep,
       TimePasses, ManualStep, BackgroundTaskRun, ManualEnds, ManualLost, StopUpkeep, upVars
  <2>2. QED
    BY <2>1 DEF TablesTyped
<1>2. ASSUME NEW s \in Rows, NEW target \in ToSet(TargetNames), RowAppears(s, target)
      PROVE  TablesTyped'
  <2>2. Found(target) \in RowKind
    BY DEF Found, RowKind
  <2>3. QED
    BY <1>2, <2>2 DEF RowAppears, TablesTyped, OptionOf
<1>3. ASSUME NEW s \in Rows, RowTurns(s) \/ RowAges(s)
      PROVE  TablesTyped'
  <2>1. tables[s] \in RowKind
    BY <1>3 DEF RowTurns, RowAges, Live, TablesTyped, OptionOf
  <2>2. \/ tables' = [tables EXCEPT ![s] = [tables[s] EXCEPT !.open = ~@]]
        \/ tables' = [tables EXCEPT ![s] = [tables[s] EXCEPT !.old = TRUE]]
    BY <1>3 DEF RowTurns, RowAges, TablesTyped
  <2>3. /\ [tables[s] EXCEPT !.open = ~@] \in RowKind
        /\ [tables[s] EXCEPT !.old = TRUE] \in RowKind
    BY <2>1 DEF RowKind
  <2>4. QED
    BY <2>2, <2>3 DEF TablesTyped, OptionOf
<1>4. ASSUME NEW category, NEW commit, NEW force, CleanRun(category, commit, force)
      PROVE  TablesTyped'
  BY <1>4 DEF CleanRun, TablesTyped
<1>5. CASE CleanTarget
  BY <1>5 DEF CleanTarget, TablesTyped, OptionOf
<1>6. ASSUME NEW s \in Rows, RowTaken(s)
      PROVE  TablesTyped'
  BY <1>6 DEF RowTaken, TablesTyped, OptionOf
<1>7. QED
  BY <1>1, <1>2, <1>3, <1>4, <1>5, <1>6 DEF TableStep, CleanStep, RowStep

\* Nothing holds a hint.
LEMMA HintsStayShut ==
  ASSUME TablesTyped, HintsAreShut, [TaskStep \/ TableStep]_upVars
  PROVE  HintsAreShut'
<1> SUFFICES ASSUME NEW r \in Rows, tables'[r] # Nothing,
                    tables'[r].target = "stale-companion-hints"
             PROVE  ~tables'[r].open
  BY DEF HintsAreShut, Live
<1>1. CASE tables'[r] = tables[r]
  <2>1. r \in Live /\ tables[r].target = "stale-companion-hints"
    BY <1>1 DEF Live
  <2>2. ~tables[r].open
    BY <2>1 DEF HintsAreShut
  <2>3. QED
    BY <1>1, <2>2
<1>2. CASE tables'[r] # tables[r]
  <2>1. ~(TaskStep \/ UNCHANGED upVars)
    BY <1>2 DEF TaskStep, LoopStep, TickBegins, PassOver, StartTask, TaskEnds, TickEnds, StartUpkeep,
       TimePasses, ManualStep, BackgroundTaskRun, ManualEnds, ManualLost, StopUpkeep, upVars
  <2>2. ASSUME NEW s \in Rows, NEW target \in ToSet(TargetNames), RowAppears(s, target)
        PROVE  ~tables'[r].open
    <3>1. tables'[r] = Found(target)
      BY <1>2, <2>2 DEF RowAppears, TablesTyped
    <3>2. tables'[r].target = target /\ tables'[r].open = (target = "stale-operation-journal")
      BY <3>1 DEF Found
    <3>3. target # "stale-operation-journal"
      BY <3>2
    <3>4. QED
      BY <3>2, <3>3
  <2>3. ASSUME NEW s \in Rows, RowTurns(s)
        PROVE  FALSE
    <3>1. s = r /\ tables[r] \in RowKind
      BY <1>2, <2>3 DEF RowTurns, Live, TablesTyped, OptionOf
    <3>2. tables'[r] = [tables[r] EXCEPT !.open = ~@]
      BY <2>3, <3>1 DEF RowTurns, TablesTyped
    <3>3. tables'[r].target = tables[r].target
      BY <3>1, <3>2 DEF RowKind
    <3>4. QED
      BY <2>3, <3>1, <3>3 DEF RowTurns
  <2>4. ASSUME NEW s \in Rows, RowAges(s)
        PROVE  ~tables'[r].open
    <3>1. s = r /\ tables[r] \in RowKind
      BY <1>2, <2>4 DEF RowAges, Live, TablesTyped, OptionOf
    <3>2. tables'[r] = [tables[r] EXCEPT !.old = TRUE]
      BY <2>4, <3>1 DEF RowAges, TablesTyped
    <3>3. tables'[r].target = tables[r].target /\ tables'[r].open = tables[r].open
      BY <3>1, <3>2 DEF RowKind
    <3>4. r \in Live
      BY <2>4, <3>1 DEF RowAges
    <3>5. QED
      BY <3>3, <3>4 DEF HintsAreShut
  <2>5. ASSUME CleanStep \/ \E s \in Rows : RowTaken(s)
        PROVE  FALSE
    BY <1>2, <2>5 DEF CleanStep, CleanRun, CleanTarget, RowTaken, TablesTyped
  <2>6. QED
    BY <2>1, <2>2, <2>3, <2>4, <2>5 DEF TableStep, RowStep
<1>3. QED
  BY <1>1, <1>2

(* A code that was used and an operation under way stay, and the record of   *)
(* an operation goes only by a clean of its target that commits: whatever    *)
(* rows come, turn, age and are taken between the targets of a clean.        *)
THEOREM WhatIsKeptStays == UpSpec => KeptRowsStay
<1> DEFINE OnlyUnheldGo == \A r \in Rows : r \in Live /\ tables'[r] = Nothing => MayGo(r)
<1>1. UpInit => TablesTyped /\ HintsAreShut
  BY DEF UpInit, TablesTyped, OptionOf, HintsAreShut, Live
<1>2. TablesTyped /\ HintsAreShut /\ [TaskStep \/ TableStep]_upVars => (TablesTyped /\ HintsAreShut)'
  BY TablesStayTyped, HintsStayShut
<1>3. TablesTyped /\ HintsAreShut /\ [TaskStep \/ TableStep]_upVars => [OnlyUnheldGo]_upVars
  BY OnlyTheseGo DEF Live
<1>4. [][OnlyUnheldGo]_upVars => KeptRowsStay
  <2>1. [OnlyUnheldGo]_upVars => [\A r \in Rows : r \in Live /\ tables'[r] = Nothing =>
       /\ ~tables[r].open
       /\ tables[r].target = "stale-operation-journal" =>
            /\ sweeps # Nothing /\ sweeps.commit /\ Head(sweeps.todo) = tables[r].target
            /\ sweeps.force \/ tables[r].old]_upVars
    BY DEF MayGo
  <2>2. QED
    BY <2>1, PTL DEF KeptRowsStay
<1>5. QED
  BY <1>1, <1>2, <1>3, <1>4, PTL DEF UpSpec

-----------------------------------------------------------------------------
(* --- Companions ---------------------------------------------------------- *)
(* Proofs about Companions, for any books, files, directories and contents.  *)

\* Rows are rows, and what a scan works on is there.
RowsAreThere ==
  /\ disk \in [Files -> OptionOf(Content)] /\ found \in [Files -> OptionOf(CompanionRows)]
  /\ counts \in [Audio -> Nat] /\ inUse \subseteq Audio /\ steady \subseteq inUse
  /\ reading \in [Books -> OptionOf([file : Files, text : {1, 2}])]
  /\ \A b \in Books : reading[b] # Nothing => found[reading[b].file] # Nothing
Scannings ==
  [todo : SUBSET Files, at : OptionOf(Files), seen : [Files -> OptionOf(Content)],
   candidates : [Books -> OptionOf({AudioFiles[a].dir : a \in Audio})]]
ScanHolds ==
  scanning # Nothing =>
    /\ scanning \in Scannings
    /\ \A p \in scanning.todo : scanning.seen[p] # Nothing /\ DetectFormat(scanning.seen[p].head) # Nothing
    /\ scanning.at # Nothing => found[scanning.at] # Nothing
CoInv == RowsAreThere /\ ScanHolds /\ CountsKept

LEMMA RowIsSomething == \A x \in CompanionRows : x # Nothing
  BY CompanionsAssumption

LEMMA FormatIsKnown ==
  ASSUME NEW head, DetectFormat(head) # Nothing
  PROVE  DetectFormat(head) \in CompanionFormats
  BY DEF DetectFormat, CompanionFormats

LEMMA TierIsKnown ==
  ASSUME NEW format
  PROVE  ParseTierFor(format) \in ParseTiers
  BY DEF ParseTierFor, ParseTiers

LEMMA PairsAreFinite ==
  ASSUME NEW b
  PROVE  IsFiniteSet(PairedWith(b)) /\ Cardinality(PairedWith(b)) \in Nat
  BY FS_Subset, FS_CardinalityType, CompanionsAssumption DEF PairedWith

\* A pair that stays is counted as before.
LEMMA SamePairsCounted ==
  ASSUME CoInv, steady' \subseteq steady, counts' = counts,
         \A b \in Books : PairedWith(b)' = PairedWith(b)
  PROVE  CountsKept'
  BY CompanionsAssumption DEF CoInv, RowsAreThere, CountsKept

\* Rows that keep their books keep the pairs.
LEMMA PairsFollowBooks ==
  ASSUME \A p \in Files : (found'[p] # Nothing) = (found[p] # Nothing),
         \A p \in Files : found[p] # Nothing => found'[p].book = found[p].book
  PROVE  \A b \in Books : PairedWith(b)' = PairedWith(b)
  BY DEF PairedWith

-----------------------------------------------------------------------------
\* A scan notes a companion: a new row has no book, a known one keeps its own.
LEMMA NoteKeeps ==
  ASSUME CoInv, NEW p \in Files, PersistOne(p)
  PROVE  CoInv'
<1> DEFINE format == DetectFormat(scanning.seen[p].head)
           noted == [format |-> format, tier |-> ParseTierFor(format), text |-> scanning.seen[p].text,
                     book |-> IF found[p] = Nothing THEN Nothing ELSE found[p].book,
                     parsed |-> found[p] # Nothing /\ found[p].parsed]
<1>1. /\ scanning # Nothing /\ p \in scanning.todo
      /\ found' = [found EXCEPT ![p] = noted]
      /\ scanning' = [scanning EXCEPT !.at = p, !.todo = @ \ {p}]
      /\ UNCHANGED <<disk, inUse, counts, reading, steady>>
  BY DEF PersistOne
<1>2. scanning.seen[p] \in Content /\ format # Nothing
  BY <1>1 DEF CoInv, ScanHolds, Scannings, OptionOf
<1>3. format \in CompanionFormats /\ ParseTierFor(format) \in ParseTiers
  BY <1>2, FormatIsKnown, TierIsKnown
<1>4. found[p] \in OptionOf(CompanionRows)
  BY DEF CoInv, RowsAreThere
<1>5. noted.book \in OptionOf(Books) /\ noted.parsed \in BOOLEAN
  BY <1>4 DEF OptionOf, CompanionRows
<1>6. noted \in CompanionRows
  <2> HIDE DEF format
  <2>1. scanning.seen[p].text \in {1, 2}
    BY <1>2 DEF Content
  <2>2. QED
    BY <1>3, <1>5, <2>1 DEF CompanionRows
<1> HIDE DEF noted
<1>7. noted # Nothing
  BY <1>6, RowIsSomething
<1>8. RowsAreThere'
  BY <1>1, <1>6, <1>7 DEF CoInv, RowsAreThere, OptionOf
<1>9. ScanHolds'
  <2>1. found'[p] # Nothing
    BY <1>1, <1>7 DEF CoInv, RowsAreThere
  <2>2. scanning' \in Scannings
    BY <1>1 DEF CoInv, ScanHolds, Scannings, OptionOf
  <2>3. scanning'.at = p /\ scanning'.seen = scanning.seen /\ scanning'.todo = scanning.todo \ {p}
    BY <1>1 DEF CoInv, ScanHolds, Scannings
  <2>4. QED
    BY <1>1, <2>1, <2>2, <2>3 DEF CoInv, ScanHolds
<1>10. \A b \in Books : PairedWith(b)' = PairedWith(b)
  <2>1. \A q \in Files \ {p} : found'[q] = found[q]
    BY <1>1 DEF CoInv, RowsAreThere
  <2>2. found'[p] = noted
    BY <1>1 DEF CoInv, RowsAreThere
  <2>3. IF found[p] = Nothing THEN noted.book = Nothing ELSE noted.book = found[p].book
    BY DEF noted
  <2>4. QED
    BY <2>1, <2>2, <2>3, <1>7, CommonAssumption DEF PairedWith
<1>11. CountsKept'
  BY <1>1, <1>10, SamePairsCounted
<1>12. QED
  BY <1>8, <1>9, <1>11 DEF CoInv

\* What a file of a book counts after one pair more or less.
LEMMA ChangedCounts ==
  ASSUME NEW new \in [Audio -> Nat], NEW b \in Books, NEW by \in {1, -1}
  PROVE  /\ Changed(new, b, by) \in [Audio -> Nat]
         /\ \A a \in inUse \cap Audio :
              Changed(new, b, by)[a] =
                IF AudioFiles[a].book = b THEN (IF new[a] + by < 0 THEN 0 ELSE new[a] + by) ELSE new[a]
  BY DEF Changed

\* A row's book is another one, or none.
LEMMA RebookedPairs ==
  ASSUME CoInv, NEW p \in Files, found[p] # Nothing, NEW b \in OptionOf(Books),
         found' = [found EXCEPT ![p].book = b]
  PROVE  /\ found' \in [Files -> OptionOf(CompanionRows)]
         /\ \A q \in Files : (found'[q] # Nothing) = (found[q] # Nothing)
         /\ \A c \in Books :
              PairedWith(c)' = IF c = b THEN PairedWith(c) \cup {p} ELSE PairedWith(c) \ {p}
<1>1. found[p] \in CompanionRows
  BY DEF CoInv, RowsAreThere, OptionOf
<1> DEFINE row == [found[p] EXCEPT !.book = b]
<1>2. row \in CompanionRows /\ row.book = b
  BY <1>1 DEF CompanionRows
<1>3. found' = [found EXCEPT ![p] = row]
  BY DEF CoInv, RowsAreThere
<1> HIDE DEF row
<1>4. row # Nothing
  BY <1>2, RowIsSomething
<1>5. found' \in [Files -> OptionOf(CompanionRows)]
  BY <1>2, <1>3 DEF CoInv, RowsAreThere, OptionOf
<1>6. found'[p] = row /\ \A q \in Files \ {p} : found'[q] = found[q]
  BY <1>3 DEF CoInv, RowsAreThere
<1>7. QED
  BY <1>2, <1>4, <1>5, <1>6 DEF PairedWith

\* What counts stays what there is: the pair of p turns from one book to another.
LEMMA RebookKeeps ==
  ASSUME CoInv, NEW p \in Files, found[p] # Nothing, NEW b \in OptionOf(Books),
         found' = [found EXCEPT ![p].book = b],
         UNCHANGED <<disk, inUse, reading, steady>>,
         b # found[p].book,
         counts' = LET down == IF found[p].book = Nothing THEN counts ELSE Changed(counts, found[p].book, -1)
                   IN  IF b = Nothing THEN down ELSE Changed(down, b, 1)
  PROVE  RowsAreThere' /\ CountsKept'
<1> DEFINE prev == found[p].book
           down == IF prev = Nothing THEN counts ELSE Changed(counts, prev, -1)
<1>1. prev \in OptionOf(Books)
  BY DEF CoInv, RowsAreThere, OptionOf, CompanionRows
<1>2. counts \in [Audio -> Nat] /\ \A a \in steady : a \in inUse \cap Audio
  BY DEF CoInv, RowsAreThere
<1>3. down \in [Audio -> Nat]
  BY <1>1, <1>2, ChangedCounts DEF OptionOf
<1>4. counts' \in [Audio -> Nat]
  BY <1>3, ChangedCounts DEF OptionOf
<1>5. RowsAreThere'
  <2>1. \A q \in Files : (found'[q] # Nothing) = (found[q] # Nothing)
    BY RebookedPairs
  <2>2. found' \in [Files -> OptionOf(CompanionRows)]
    BY RebookedPairs
  <2>3. \A c \in Books : reading[c] # Nothing => reading[c].file \in Files /\ found[reading[c].file] # Nothing
    BY DEF CoInv, RowsAreThere, OptionOf
  <2>4. \A c \in Books : reading'[c] # Nothing => found'[reading'[c].file] # Nothing
    BY <2>1, <2>3
  <2>5. QED
    BY <1>4, <2>2, <2>4 DEF CoInv, RowsAreThere
<1>6. ASSUME NEW a \in steady'
      PROVE  counts'[a] = Cardinality(PairedWith(AudioFiles[a].book)')
  <2> DEFINE c == AudioFiles[a].book
  <2>1. a \in steady /\ a \in inUse \cap Audio /\ c \in Books /\ c # Nothing
    BY <1>2, <1>6, CompanionsAssumption, CommonAssumption
  <2>2. counts[a] = Cardinality(PairedWith(c)) /\ counts[a] \in Nat
    BY <1>2, <2>1 DEF CoInv, CountsKept
  <2>3. IsFiniteSet(PairedWith(c))
    BY PairsAreFinite
  <2>4. PairedWith(c)' = IF c = b THEN PairedWith(c) \cup {p} ELSE PairedWith(c) \ {p}
    BY <2>1, RebookedPairs
  <2>5. p \in PairedWith(c) <=> c = prev
    BY DEF PairedWith
  <2> HIDE DEF c
  <2>6. Cardinality(PairedWith(c)') =
          IF c = b THEN counts[a] + 1 ELSE IF c = prev THEN counts[a] - 1 ELSE counts[a]
    <3>1. Cardinality(PairedWith(c) \cup {p}) = IF c = prev THEN counts[a] ELSE counts[a] + 1
      BY <2>2, <2>3, <2>5, FS_AddElement
    <3>2. Cardinality(PairedWith(c) \ {p}) = IF c = prev THEN counts[a] - 1 ELSE counts[a]
      BY <2>2, <2>3, <2>5, FS_RemoveElement
    <3>3. QED
      BY <2>4, <3>1, <3>2
  <2>7. c = prev => counts[a] - 1 \in Nat
    <3>1. Cardinality(PairedWith(c) \ {p}) \in Nat
      BY <2>3, FS_RemoveElement, FS_CardinalityType
    <3>2. QED
      BY <2>2, <2>3, <2>5, <3>1, FS_RemoveElement
  <2>8. down[a] = IF c = prev THEN counts[a] - 1 ELSE counts[a]
    <3>1. CASE prev = Nothing
      BY <2>1, <3>1
    <3>2. CASE prev # Nothing
      <4>1. prev \in Books
        BY <1>1, <3>2 DEF OptionOf
      <4>2. down[a] = IF c = prev THEN (IF counts[a] + (-1) < 0 THEN 0 ELSE counts[a] + (-1)) ELSE counts[a]
        BY <1>2, <2>1, <3>2, <4>1, ChangedCounts DEF c
      <4>3. QED
        BY <2>2, <2>7, <4>2
    <3>3. QED
      BY <3>1, <3>2
  <2>9. counts'[a] = IF c = b THEN down[a] + 1 ELSE down[a]
    <3>1. CASE b = Nothing
      BY <2>1, <3>1
    <3>2. CASE b # Nothing
      <4>1. b \in Books
        BY <3>2 DEF OptionOf
      <4>2. counts' = Changed(down, b, 1)
        BY <3>2
      <4> HIDE DEF down
      <4>3. counts'[a] = IF c = b THEN (IF down[a] + 1 < 0 THEN 0 ELSE down[a] + 1) ELSE down[a]
        BY <1>3, <2>1, <4>1, <4>2, ChangedCounts DEF c
      <4>4. down[a] \in Nat
        BY <1>3, <2>1
      <4>5. QED
        BY <4>3, <4>4
    <3>3. QED
      BY <3>1, <3>2
  <2> HIDE DEF down
  <2>10. QED
    BY <2>6, <2>8, <2>9 DEF c
<1>7. CountsKept'
  BY <1>6 DEF CountsKept
<1>8. QED
  BY <1>5, <1>7

-----------------------------------------------------------------------------
\* The scan goes on with a companion that has its pair, or has none.
LEMMA LeaveKeeps ==
  ASSUME CoInv, scanning # Nothing, scanning' = [scanning EXCEPT !.at = Nothing],
         found' = found \/ \A q \in Files : (found'[q] # Nothing) = (found[q] # Nothing)
  PROVE  ScanHolds'
<1>1. scanning' \in Scannings
  BY DEF CoInv, ScanHolds, Scannings, OptionOf
<1>2. scanning'.at = Nothing /\ scanning'.todo = scanning.todo /\ scanning'.seen = scanning.seen
  BY DEF CoInv, ScanHolds, Scannings
<1>3. QED
  BY <1>1, <1>2 DEF CoInv, ScanHolds

\* A scan pairs a companion with the one book that claims it.
LEMMA PairKeeps ==
  ASSUME CoInv, PairOne
  PROVE  CoInv'
<1> DEFINE p == scanning.at
           claims == AutoPair(p, scanning.candidates)
<1>1. /\ scanning # Nothing /\ p # Nothing
      /\ scanning' = [scanning EXCEPT !.at = Nothing]
      /\ UNCHANGED <<disk, inUse, reading, steady>>
      /\ \/ \E b \in claims : SetPair(p, b)
         \/ UNCHANGED <<counts, found>>
  BY DEF PairOne, ReplaceNearby
<1>2. p \in Files /\ found[p] # Nothing
  BY <1>1 DEF CoInv, ScanHolds, Scannings, OptionOf
<1>3. claims \subseteq Books
  BY DEF AutoPair
<1> HIDE DEF p, claims
<1>4. ASSUME NEW b \in claims, SetPair(p, b)
      PROVE  CoInv'
  <2>1. b \in Books /\ b # Nothing
    BY <1>3, <1>4, CommonAssumption
  <2>2. found' = [found EXCEPT ![p].book = b] /\ counts' = CountsAfter(p, b)
    BY <1>4 DEF SetPair
  <2>3. \A q \in Files : (found'[q] # Nothing) = (found[q] # Nothing)
    BY <1>2, <2>1, <2>2, RebookedPairs DEF OptionOf
  <2>4. ScanHolds'
    BY <1>1, <2>3, LeaveKeeps
  <2>5. CASE found[p].book = b
    <3>1. counts' = counts
      BY <2>2, <2>5 DEF CountsAfter
    <3>2. found' = found
      <4>1. found[p] \in CompanionRows
        BY <1>2 DEF CoInv, RowsAreThere, OptionOf
      <4>2. [found[p] EXCEPT !.book = b] = found[p]
        BY <2>5, <4>1 DEF CompanionRows
      <4>3. QED
        BY <1>2, <2>2, <4>2 DEF CoInv, RowsAreThere
    <3>3. RowsAreThere' /\ CountsKept'
      BY <1>1, <3>1, <3>2 DEF CoInv, RowsAreThere, CountsKept, PairedWith
    <3>4. QED
      BY <2>4, <3>3 DEF CoInv
  <2>6. CASE found[p].book # b
    <3>1. counts' = LET down == IF found[p].book = Nothing THEN counts ELSE Changed(counts, found[p].book, -1)
                    IN  IF b = Nothing THEN down ELSE Changed(down, b, 1)
      BY <2>1, <2>2, <2>6 DEF CountsAfter
    <3>2. RowsAreThere' /\ CountsKept'
      BY <1>1, <1>2, <2>1, <2>2, <2>6, <3>1, RebookKeeps DEF OptionOf
    <3>3. QED
      BY <2>4, <3>2 DEF CoInv
  <2>7. QED
    BY <2>5, <2>6
<1>5. CASE UNCHANGED <<counts, found>>
  <2>1. ScanHolds'
    BY <1>1, <1>5, LeaveKeeps
  <2>2. RowsAreThere' /\ CountsKept'
    BY <1>1, <1>5 DEF CoInv, RowsAreThere, CountsKept, PairedWith
  <2>3. QED
    BY <2>1, <2>2 DEF CoInv
<1>6. QED
  BY <1>1, <1>4, <1>5

\* An operator takes a pair apart.
LEMMA ClearKeeps ==
  ASSUME CoInv, NEW p \in Files, ClearPair(p)
  PROVE  CoInv'
<1>1. /\ found[p] # Nothing /\ found[p].book # Nothing
      /\ counts' = Changed(counts, found[p].book, -1) /\ found' = [found EXCEPT ![p].book = Nothing]
      /\ UNCHANGED <<disk, inUse, scanning, reading, steady>>
  BY DEF ClearPair
<1>2. RowsAreThere' /\ CountsKept'
  BY <1>1, RebookKeeps DEF OptionOf
<1>3. \A q \in Files : (found'[q] # Nothing) = (found[q] # Nothing)
  BY <1>1, RebookedPairs DEF OptionOf
<1>4. ScanHolds'
  BY <1>1, <1>3 DEF CoInv, ScanHolds, Scannings, OptionOf
<1>5. QED
  BY <1>2, <1>4 DEF CoInv

\* The stage holds the EPUB of a row that is there, and marks that row as read.
LEMMA ReadKeeps ==
  ASSUME CoInv, NEW b \in Books, ReadEpub(b)
  PROVE  CoInv'
<1>1. PICK p \in PairedEpubs(b) :
        /\ disk[p] # Nothing
        /\ reading' = [reading EXCEPT ![b] = [file |-> p, text |-> disk[p].text]]
  BY DEF ReadEpub
<1>2. UNCHANGED <<disk, inUse, counts, found, scanning, steady>>
  BY DEF ReadEpub
<1>3. p \in Files /\ found[p] # Nothing
  BY DEF PairedEpubs
<1>4. disk[p].text \in {1, 2}
  BY <1>1, <1>3 DEF CoInv, RowsAreThere, OptionOf, Content
<1>5. [file |-> p, text |-> disk[p].text] \in [file : Files, text : {1, 2}]
  BY <1>3, <1>4
<1>6. RowsAreThere'
  BY <1>1, <1>2, <1>3, <1>5 DEF CoInv, RowsAreThere, OptionOf
<1>7. QED
  BY <1>2, <1>6 DEF CoInv, ScanHolds, CountsKept, PairedWith
LEMMA DictKeeps ==
  ASSUME CoInv, NEW b \in Books, WriteNameDict(b)
  PROVE  CoInv'
<1> DEFINE p == reading[b].file
           row == [found[p] EXCEPT !.parsed = TRUE]
<1>1. /\ reading[b] # Nothing
      /\ found' = [found EXCEPT ![p].parsed = TRUE]
      /\ reading' = [reading EXCEPT ![b] = Nothing]
      /\ UNCHANGED <<disk, inUse, counts, scanning, steady>>
  BY DEF WriteNameDict
<1>2. p \in Files /\ found[p] # Nothing
  BY <1>1 DEF CoInv, RowsAreThere, OptionOf
<1>3. found[p] \in CompanionRows
  BY <1>2 DEF CoInv, RowsAreThere, OptionOf
<1>4. row \in CompanionRows /\ row.book = found[p].book
  BY <1>3 DEF CompanionRows
<1>5. found' = [found EXCEPT ![p] = row]
  BY <1>1, <1>2 DEF CoInv, RowsAreThere
<1> HIDE DEF row, p
<1>6. row # Nothing
  BY <1>4, RowIsSomething
<1>7. found'[p] = row /\ \A q \in Files \ {p} : found'[q] = found[q]
  BY <1>2, <1>5 DEF CoInv, RowsAreThere
<1>8. \A q \in Files : /\ (found'[q] # Nothing) = (found[q] # Nothing)
                       /\ found[q] # Nothing => found'[q].book = found[q].book
  BY <1>2, <1>4, <1>6, <1>7
<1>9. CountsKept'
  BY <1>1, <1>8, PairsFollowBooks, SamePairsCounted
<1>10. RowsAreThere'
  <2>1. \A c \in Books : reading[c] # Nothing => reading[c].file \in Files
    BY DEF CoInv, RowsAreThere, OptionOf
  <2>2. found' \in [Files -> OptionOf(CompanionRows)]
    BY <1>4, <1>5 DEF CoInv, RowsAreThere, OptionOf
  <2>3. reading' \in [Books -> OptionOf([file : Files, text : {1, 2}])]
    BY <1>1 DEF CoInv, RowsAreThere, OptionOf
  <2>4. \A c \in Books : reading'[c] # Nothing => found'[reading'[c].file] # Nothing
    BY <1>1, <1>8, <2>1 DEF CoInv, RowsAreThere
  <2>5. QED
    BY <1>1, <2>2, <2>3, <2>4 DEF CoInv, RowsAreThere
<1>11. ScanHolds'
  BY <1>1, <1>8 DEF CoInv, ScanHolds, Scannings, OptionOf
<1>12. QED
  BY <1>9, <1>10, <1>11 DEF CoInv

\* What happens around the table: files change, scans begin and end.
LEMMA ElsewhereKeepsCounts ==
  ASSUME CoInv,
         \/ \E p \in Files : DiskTurns(p)
         \/ \E a \in Audio : AudioTurns(a)
         \/ ScanBegins \/ ScanStops \/ UNCHANGED coVars
  PROVE  CoInv'
<1>1. UNCHANGED <<counts, found, reading>>
  BY DEF DiskTurns, AudioTurns, ScanBegins, ScanStops, coVars
<1>2. disk' \in [Files -> OptionOf(Content)]
  BY DEF CoInv, RowsAreThere, DiskTurns, AudioTurns, ScanBegins, ScanStops, coVars
<1>3. inUse' \subseteq Audio /\ steady' \subseteq inUse' /\ steady' \subseteq steady
  BY DEF CoInv, RowsAreThere, DiskTurns, AudioTurns, ScanBegins, ScanStops, coVars
<1>4. ScanHolds'
  <2>1. CASE ScanBegins
    <3>1. PICK candidates \in LoadAudiobookDirectories :
            scanning' = [todo |-> Discoverable, at |-> Nothing, seen |-> disk, candidates |-> candidates]
      BY <2>1 DEF ScanBegins
    <3>2. candidates \in [Books -> OptionOf({AudioFiles[a].dir : a \in Audio})]
      BY DEF LoadAudiobookDirectories
    <3>3. scanning' \in Scannings
      BY <3>1, <3>2 DEF CoInv, RowsAreThere, Scannings, Discoverable, OptionOf
    <3>4. QED
      BY <3>1, <3>3 DEF ScanHolds, Discoverable
  <2>2. CASE scanning' = scanning \/ scanning' = Nothing
    BY <1>1, <2>2 DEF CoInv, ScanHolds
  <2>3. QED
    BY <2>1, <2>2 DEF DiskTurns, AudioTurns, ScanStops, coVars
<1>5. QED
  BY <1>1, <1>2, <1>3, <1>4 DEF CoInv, RowsAreThere, CountsKept, PairedWith

LEMMA CompanionsInit == CoInit => CoInv
<1>1. ASSUME CoInit
      PROVE  RowsAreThere /\ ScanHolds
  BY <1>1 DEF CoInit, RowsAreThere, ScanHolds, OptionOf
<1>2. ASSUME CoInit
      PROVE  CountsKept
  <2>1. \A b : PairedWith(b) = {}
    BY <1>2 DEF CoInit, PairedWith
  <2>2. QED
    BY <1>2, <2>1, FS_EmptySet DEF CoInit, CountsKept
<1>3. QED
  BY <1>1, <1>2 DEF CoInv

(* The counter of an audio file is the number of companions paired with its  *)
(* book, for any directories and books, whatever scans begin, pair again and *)
(* stop, and an operator takes apart: as long as the file stays in use.      *)
THEOREM CountersCount == CoSpec => []CountsKept
<1>1. ASSUME CoInv, [CoStep]_coVars
      PROVE  CoInv'
  BY <1>1, NoteKeeps, PairKeeps, ClearKeeps, ReadKeeps, DictKeeps, ElsewhereKeepsCounts DEF CoStep
<1>2. CoInv => CountsKept
  BY DEF CoInv
<1>3. QED
  BY <1>1, <1>2, CompanionsInit, PTL DEF CoSpec

-----------------------------------------------------------------------------
(* --- Shelf --------------------------------------------------------------- *)
(* Proofs about Shelf, for any files, lengths, headers and rewrites.         *)

Contents == [rev : Nat, len : Lengths]
ByteKind == [rev : Nat, at : Nat]
ShTypes ==
  /\ onDisk \in [FileIds -> OptionOf(Contents)]
  /\ fileRow \in [FileIds -> [size : OptionOf(Lengths), active : BOOLEAN]]
\* While file and row are of one mind, what was played is the file's beginning.
Beginning(p) ==
  LET content == onDisk[p.file]
  IN  /\ content \in Contents /\ fileRow[p.file].size \in {Nothing, content.len}
      /\ p.got \in Seq(ByteKind) /\ Len(p.got) <= content.len
      /\ p.got = Bytes(content, 0, Len(p.got) - 1)
      /\ p.total \in {Nothing, content.len}
ShInv ==
  /\ ShTypes
  /\ playing # Nothing =>
       /\ playing = [file |-> playing.file, got |-> playing.got, total |-> playing.total]
       /\ playing.file \in FileIds
       /\ even => Beginning(playing)

-----------------------------------------------------------------------------
\* A header names what RFC 7233 makes of it.
LEMMA RangeIsNamed ==
  ASSUME NEW range \in Ranges, range.kind \in {"from", "suffix"}, NEW total \in Nat
  PROVE  LET piece == ParseRangeHeader(range, total)
             named == {n \in 0 .. total - 1 :
                         IF range.kind = "suffix" THEN n >= total - range.first
                         ELSE n >= range.first /\ (range.last # Nothing => n <= range.last)}
         IN  IF named = {} THEN piece = Nothing ELSE piece # Nothing /\ piece.first .. piece.last = named
<1> DEFINE piece == ParseRangeHeader(range, total)
           named == {n \in 0 .. total - 1 :
                       IF range.kind = "suffix" THEN n >= total - range.first
                       ELSE n >= range.first /\ (range.last # Nothing => n <= range.last)}
<1>1. range.first \in Nat /\ (range.last = Nothing \/ range.last \in Nat)
  BY ShelfAssumption DEF OptionOf
<1>2. \A a \in Nat, b \in Int : [first |-> a, last |-> b] # Nothing
  BY ShelfAssumption
<1>3. CASE range.kind = "suffix"
  <2>1. CASE range.first = 0 \/ total = 0
    <3>1. piece = Nothing
      BY <1>3, <2>1 DEF ParseRangeHeader
    <3>2. named = {}
      BY <1>1, <1>3, <2>1
    <3>3. QED
      BY <3>1, <3>2
  <2>2. CASE ~(range.first = 0 \/ total = 0)
    <3>1. piece = [first |-> IF range.first > total THEN 0 ELSE total - range.first, last |-> total - 1]
      BY <1>3, <2>2 DEF ParseRangeHeader
    <3>2. piece # Nothing
      BY <1>1, <1>2, <3>1
    <3>3. total - 1 \in named
      BY <1>1, <1>3, <2>2
    <3>4. piece.first .. piece.last = named
      BY <1>1, <1>3, <2>2, <3>1
    <3>5. QED
      BY <3>2, <3>3, <3>4
  <2>3. QED
    BY <2>1, <2>2
<1>4. CASE range.kind = "from"
  <2>1. CASE range.first >= total \/ (range.last # Nothing /\ range.last < range.first)
    <3>1. piece = Nothing
      BY <1>4, <2>1 DEF ParseRangeHeader
    <3>2. named = {}
      BY <1>1, <1>4, <2>1
    <3>3. QED
      BY <3>1, <3>2
  <2>2. CASE ~(range.first >= total \/ (range.last # Nothing /\ range.last < range.first))
    <3>1. piece = [first |-> range.first,
                  last |-> IF range.last = Nothing \/ range.last > total - 1 THEN total - 1 ELSE range.last]
      BY <1>4, <2>2 DEF ParseRangeHeader
    <3>2. piece # Nothing
      BY <1>1, <1>2, <3>1
    <3>3. range.first \in named
      BY <1>1, <1>4, <2>2
    <3>4. piece.first .. piece.last = named
      BY <1>1, <1>4, <2>2, <3>1
    <3>5. QED
      BY <3>2, <3>3, <3>4
  <2>3. QED
    BY <2>1, <2>2
<1>5. QED
  BY <1>3, <1>4

\* The next bytes after the first n are the first n and some more.
LEMMA FunctionIsSeq ==
  ASSUME NEW S, NEW m \in Nat, NEW f \in [1 .. m -> S]
  PROVE  f \in Seq(S) /\ Len(f) = m
  OBVIOUS
LEMMA BytesType ==
  ASSUME NEW content \in Contents, NEW from \in Nat, NEW to \in Int
  PROVE  /\ Bytes(content, from, to) \in Seq(ByteKind)
         /\ Len(Bytes(content, from, to)) = IF to >= from THEN to - from + 1 ELSE 0
         /\ \A k \in 1 .. to - from + 1 : Bytes(content, from, to)[k] = [rev |-> content.rev, at |-> from + k - 1]
<1>1. content.rev \in Nat
  BY DEF Contents
<1> DEFINE m == IF to >= from THEN to - from + 1 ELSE 0
<1>2. m \in Nat /\ 1 .. to - from + 1 = 1 .. m
  OBVIOUS
<1> HIDE DEF m
<1>3. \A k \in 1 .. m : [rev |-> content.rev, at |-> from + k - 1] \in ByteKind
  BY <1>1, <1>2 DEF ByteKind
<1>4. Bytes(content, from, to) = [k \in 1 .. m |-> [rev |-> content.rev, at |-> from + k - 1]]
  BY <1>2 DEF Bytes
<1>5. Bytes(content, from, to) \in [1 .. m -> ByteKind]
  BY <1>3, <1>4
<1>6. Bytes(content, from, to) \in Seq(ByteKind) /\ Len(Bytes(content, from, to)) = m
  BY <1>2, <1>5, FunctionIsSeq
<1>7. QED
  BY <1>2, <1>4, <1>5, <1>6 DEF m
LEMMA FirstBytes ==
  ASSUME NEW content \in Contents, NEW n \in Nat
  PROVE  /\ Bytes(content, 0, n - 1) \in Seq(ByteKind)
         /\ Len(Bytes(content, 0, n - 1)) = n
         /\ \A k \in 1 .. n : Bytes(content, 0, n - 1)[k] = [rev |-> content.rev, at |-> k - 1]
<1>1. PICK to \in Int : to = n - 1
  OBVIOUS
<1>2. PICK from \in Nat : from = 0
  OBVIOUS
<1>3. 1 .. to - from + 1 = 1 .. n /\ (IF to >= from THEN to - from + 1 ELSE 0) = n
  BY <1>1, <1>2
<1>4. /\ Bytes(content, from, to) \in Seq(ByteKind)
      /\ Len(Bytes(content, from, to)) = n
      /\ \A k \in 1 .. n : Bytes(content, from, to)[k] = [rev |-> content.rev, at |-> from + k - 1]
  BY <1>3, BytesType
<1>5. QED
  BY <1>1, <1>2, <1>4
LEMMA BytesGoOn ==
  ASSUME NEW content \in Contents, NEW n \in Nat, NEW to \in Int, NEW cut \in 0 .. Len(Bytes(content, n, to)),
         NEW had \in Seq(ByteKind), Len(had) = n, had = Bytes(content, 0, n - 1),
         to < content.len, n <= content.len
  PROVE  LET more == had \o SubSeq(Bytes(content, n, to), 1, cut)
         IN  /\ more \in Seq(ByteKind)
             /\ Len(more) <= content.len
             /\ more = Bytes(content, 0, Len(more) - 1)
<1> DEFINE body == Bytes(content, n, to)
           piece == SubSeq(body, 1, cut)
           more == had \o piece
           m == IF to >= n THEN to - n + 1 ELSE 0
<1>1. content.len \in Nat /\ content.rev \in Nat
  BY ShelfAssumption DEF Contents
<1>2. m \in Nat
  OBVIOUS
<1>3. /\ body \in Seq(ByteKind) /\ Len(body) = m
      /\ \A k \in 1 .. m : body[k] = [rev |-> content.rev, at |-> n + k - 1]
  <2>1. 1 .. m = 1 .. to - n + 1
    OBVIOUS
  <2>2. /\ body \in Seq(ByteKind) /\ Len(body) = m
        /\ \A k \in 1 .. to - n + 1 : body[k] = [rev |-> content.rev, at |-> n + k - 1]
    BY BytesType
  <2>3. QED
    BY <2>1, <2>2
<1>4. cut \in 0 .. m /\ n + cut <= content.len
  BY <1>1, <1>3
<1> HIDE DEF body, m
<1>5. \A k \in 1 .. cut : body[k] \in ByteKind
  BY <1>2, <1>3, <1>4, ElementOfSeq
<1>6. /\ piece \in Seq(ByteKind) /\ Len(piece) = cut
      /\ \A k \in 1 .. cut : piece[k] = body[k]
  <2>1. piece \in Seq(ByteKind)
    BY <1>2, <1>4, <1>5, SubSeqProperties
  <2>2. Len(piece) = IF 1 <= cut THEN cut - 1 + 1 ELSE 0
    BY <1>2, <1>4, <1>5, SubSeqProperties
  <2>3. \A k \in 1 .. cut - 1 + 1 : piece[k] = body[1 + k - 1]
    BY <1>2, <1>4, <1>5, SubSeqProperties
  <2>4. QED
    BY <1>2, <1>4, <2>1, <2>2, <2>3
<1> HIDE DEF piece
<1>7. /\ more \in Seq(ByteKind) /\ Len(more) = n + cut
      /\ \A k \in 1 .. n + cut : more[k] = IF k <= n THEN had[k] ELSE piece[k - n]
  BY <1>6, ConcatProperties
<1> HIDE DEF more
<1>8. \A k \in 1 .. n + cut : more[k] = [rev |-> content.rev, at |-> k - 1]
  <2> SUFFICES ASSUME NEW k \in 1 .. n + cut
               PROVE  more[k] = [rev |-> content.rev, at |-> k - 1]
    OBVIOUS
  <2>1. CASE k <= n
    <3>1. \A l \in 1 .. n : Bytes(content, 0, n - 1)[l] = [rev |-> content.rev, at |-> l - 1]
      BY FirstBytes
    <3>2. k \in 1 .. n
      BY <1>4, <2>1
    <3>3. had[k] = [rev |-> content.rev, at |-> k - 1]
      BY <3>1, <3>2, Zenon
    <3>4. more[k] = had[k]
      BY <1>7, <2>1
    <3>5. QED
      BY <3>3, <3>4
  <2>2. CASE k > n
    <3>1. PICK l \in 1 .. cut : l = k - n /\ l \in 1 .. m
      BY <1>2, <1>4, <2>2
    <3>2. PICK a \in Int : a = n + l - 1 /\ a = k - 1
      BY <3>1
    <3>3. body[l] = [rev |-> content.rev, at |-> a]
      BY <1>3, <3>1, <3>2
    <3>4. more[k] = piece[l]
      BY <1>7, <2>2, <3>1
    <3>5. piece[l] = body[l]
      BY <1>6, <3>1
    <3>6. more[k] = [rev |-> content.rev, at |-> a]
      BY <3>3, <3>4, <3>5
    <3>7. QED
      BY <3>2, <3>6
  <2>3. QED
    BY <2>1, <2>2
<1>9. more = Bytes(content, 0, n + cut - 1)
  <2>1. PICK all \in Nat : all = n + cut
    BY <1>4
  <2>2. /\ Bytes(content, 0, all - 1) \in Seq(ByteKind)
        /\ Len(Bytes(content, 0, all - 1)) = all
        /\ \A k \in 1 .. all : Bytes(content, 0, all - 1)[k] = [rev |-> content.rev, at |-> k - 1]
    BY FirstBytes
  <2>3. more \in Seq(ByteKind) /\ Len(more) = all
    BY <1>7, <2>1
  <2>4. \A k \in 1 .. all : more[k] = [rev |-> content.rev, at |-> k - 1]
    BY <1>8, <2>1
  <2>5. \A k \in 1 .. all : more[k] = Bytes(content, 0, all - 1)[k]
    BY <2>2, <2>4
  <2>6. more = Bytes(content, 0, all - 1)
    BY <2>2, <2>3, <2>5, SeqEqual
  <2>7. QED
    BY <2>1, <2>6
<1>10. Len(more) = n + cut
  BY <1>7
<1>11. more = Bytes(content, 0, Len(more) - 1) /\ Len(more) <= content.len /\ more \in Seq(ByteKind)
  BY <1>4, <1>7, <1>9, <1>10
<1>12. QED
  BY <1>11 DEF more, piece, body

-----------------------------------------------------------------------------
\* The player takes some more of what it asked for.
LEMMA PlayOnKeeps ==
  ASSUME ShInv, NEW range \in Ranges, PlayOn(range)
  PROVE  ShInv'
<1> DEFINE f == playing.file
           content == onDisk[f]
           had == playing.got
           reply == StreamFile(f, range)
<1>1. /\ playing # Nothing /\ range.kind \in {"none", "from"}
      /\ IF range.kind = "none" THEN had = <<>> ELSE range.first = Len(had)
      /\ reply.code \in {200, 206}
      /\ UNCHANGED <<onDisk, fileRow, even>>
  BY DEF PlayOn
<1>2. PICK cut \in 0 .. Len(reply.body) :
        playing' = [playing EXCEPT !.got = @ \o SubSeq(reply.body, 1, cut), !.total = reply.total]
  BY DEF PlayOn
<1>3. /\ playing = [file |-> f, got |-> had, total |-> playing.total]
      /\ f \in FileIds
      /\ even => Beginning(playing)
  BY <1>1 DEF ShInv
<1> DEFINE more == had \o SubSeq(reply.body, 1, cut)
<1>4. playing' = [file |-> f, got |-> more, total |-> reply.total]
  BY <1>2, <1>3
<1>5. playing'.file = f /\ playing'.got = more /\ playing'.total = reply.total
  BY <1>4
<1>6. ASSUME even
      PROVE  more \in Seq(ByteKind) /\ Len(more) <= content.len
               /\ more = Bytes(content, 0, Len(more) - 1) /\ reply.total = content.len
  <2>1. /\ content \in Contents /\ fileRow[f].size \in {Nothing, content.len}
        /\ had \in Seq(ByteKind) /\ Len(had) <= content.len
        /\ had = Bytes(content, 0, Len(had) - 1)
    BY <1>3, <1>6 DEF Beginning
  <2>2. content.len \in Nat /\ content # Nothing
    BY <2>1, ShelfAssumption DEF Contents
  <2>3. TotalOf(f) = content.len
    BY <2>1, <2>2 DEF TotalOf
  <2> DEFINE piece == ParseRangeHeader(range, content.len)
  <2>4. PICK n \in Nat : n = Len(had)
    BY <2>1
  <2>5. PICK to \in Int : reply.body = Bytes(content, n, to) /\ to < content.len /\ reply.total = content.len
    <3>1. CASE range.kind = "none"
      <4>1. reply = [code |-> 200, total |-> content.len, body |-> Bytes(content, 0, Upto(f, content.len - 1))]
        BY <1>1, <2>2, <2>3, <3>1 DEF StreamFile
      <4>2. Upto(f, content.len - 1) = content.len - 1
        BY <2>2 DEF Upto
      <4>3. n = 0
        BY <1>1, <2>4, <3>1
      <4>4. reply.body = Bytes(content, 0, content.len - 1) /\ reply.total = content.len
        BY <4>1, <4>2
      <4>5. content.len - 1 \in Int /\ content.len - 1 < content.len
        BY <2>2
      <4>6. QED
        BY <4>3, <4>4, <4>5
    <3>2. CASE range.kind = "from"
      <4>1. piece # Nothing
        BY <1>1, <2>2, <2>3, <3>2 DEF StreamFile
      <4>2. reply = [code |-> 206, total |-> content.len, from |-> piece.first,
                     body |-> Bytes(content, piece.first, Upto(f, piece.last))]
        BY <1>1, <2>2, <2>3, <3>2, <4>1 DEF StreamFile
      <4>3. range.first = n /\ (range.last = Nothing \/ range.last \in Nat)
        BY <1>1, <2>4, <3>2, ShelfAssumption DEF OptionOf
      <4>4. piece = [first |-> range.first,
                    last |-> IF range.last = Nothing \/ range.last > content.len - 1 THEN content.len - 1 ELSE range.last]
        BY <3>2, <4>1 DEF ParseRangeHeader
      <4>5. piece.first = n /\ piece.last \in Int /\ piece.last < content.len
        BY <2>2, <4>3, <4>4
      <4> HIDE DEF piece
      <4>6. Upto(f, piece.last) = piece.last
        BY <4>5 DEF Upto
      <4>7. QED
        BY <4>2, <4>5, <4>6
    <3>3. QED
      BY <1>1, <3>1, <3>2
  <2>6. cut \in 0 .. Len(Bytes(content, n, to))
    BY <2>5
  <2>7. more = had \o SubSeq(Bytes(content, n, to), 1, cut)
    BY <2>5
  <2>8. QED
    <3> HIDE DEF more, content, had, reply
    <3>1. had = Bytes(content, 0, n - 1)
      BY <2>1, <2>4
    <3>2. QED
      BY <2>1, <2>4, <2>5, <2>6, <2>7, <3>1, BytesGoOn
<1> HIDE DEF more, content, had, reply
<1>7. even => Beginning(playing)'
  <2>1. content' = content /\ onDisk'[f] = content /\ fileRow'[f].size = fileRow[f].size
    BY <1>1, <1>4 DEF content
  <2>2. even => content \in Contents /\ fileRow[f].size \in {Nothing, content.len}
    BY <1>3 DEF Beginning, content
  <2>3. QED
    BY <1>5, <1>6, <2>1, <2>2 DEF Beginning
<1>8. QED
  BY <1>1, <1>3, <1>4, <1>5, <1>7 DEF ShInv, ShTypes

\* A file or its row changes: what plays from it is no longer of one mind with it.
LEMMA WorldKeeps ==
  ASSUME ShInv, NEW f \in FileIds, FileRewritten(f) \/ ScanSees(f) \/ FileRetired(f)
  PROVE  ShInv'
<1>1. ShTypes'
  <2>1. CASE FileRewritten(f)
    <3>1. PICK len \in Lengths : onDisk' = [onDisk EXCEPT ![f] = [rev |-> @.rev + 1, len |-> len]]
      BY <2>1 DEF FileRewritten
    <3>2. onDisk[f] \in Contents
      BY <2>1 DEF FileRewritten, ShInv, ShTypes, OptionOf
    <3>3. [rev |-> onDisk[f].rev + 1, len |-> len] \in Contents
      BY <3>2 DEF Contents
    <3>4. QED
      BY <2>1, <3>1, <3>3 DEF FileRewritten, ShInv, ShTypes, OptionOf
  <2>2. CASE ScanSees(f)
    <3>1. onDisk[f] \in Contents /\ fileRow' = [fileRow EXCEPT ![f].size = onDisk[f].len]
      BY <2>2 DEF ScanSees, ShInv, ShTypes, OptionOf
    <3>2. fileRow' \in [FileIds -> [size : OptionOf(Lengths), active : BOOLEAN]]
      BY <3>1 DEF ShInv, ShTypes, OptionOf, Contents
    <3>3. QED
      BY <2>2, <3>2 DEF ScanSees, ShInv, ShTypes
  <2>3. CASE FileRetired(f)
    BY <2>3 DEF FileRetired, ShInv, ShTypes, OptionOf
  <2>4. QED
    BY <2>1, <2>2, <2>3
<1>2. /\ playing' = playing
      /\ even' = (even /\ (playing # Nothing => playing.file # f))
      /\ \A g \in FileIds \ {f} : onDisk'[g] = onDisk[g] /\ fileRow'[g] = fileRow[g]
  BY DEF FileRewritten, ScanSees, FileRetired, Uneven, ShInv, ShTypes
<1>3. ASSUME playing # Nothing
      PROVE  even' => Beginning(playing)'
  <2>1. playing.file \in FileIds
    BY <1>3 DEF ShInv
  <2>2. even' => Beginning(playing)
    BY <1>2, <1>3 DEF ShInv
  <2>3. even' => /\ onDisk'[playing.file] = onDisk[playing.file]
                 /\ fileRow'[playing.file] = fileRow[playing.file]
    BY <1>2, <1>3, <2>1
  <2>4. QED
    BY <1>2, <2>2, <2>3 DEF Beginning
<1>4. QED
  BY <1>1, <1>2, <1>3 DEF ShInv

\* A player turns to an item, or begins with one of its files.
LEMMA ClientKeeps ==
  ASSUME ShInv, (\E b \in Books : ItemRead(b)) \/ (\E f \in FileIds : PlayBegins(f)) \/ UNCHANGED shVars
  PROVE  ShInv'
<1>1. CASE \E b \in Books : ItemRead(b)
  BY <1>1 DEF ItemRead, ShInv, ShTypes
<1>2. ASSUME NEW f \in FileIds, PlayBegins(f)
      PROVE  ShInv'
  <2>1. /\ playing' = [file |-> f, got |-> <<>>, total |-> Nothing]
        /\ even' = (onDisk[f] # Nothing /\ fileRow[f].size \in {Nothing, onDisk[f].len})
        /\ UNCHANGED <<onDisk, fileRow>>
    BY <1>2 DEF PlayBegins
  <2>2. ASSUME even'
        PROVE  Beginning(playing)'
    <3>1. onDisk[f] \in Contents /\ fileRow[f].size \in {Nothing, onDisk[f].len}
      BY <2>1, <2>2 DEF ShInv, ShTypes, OptionOf
    <3>2. onDisk[f].len \in Nat
      BY <3>1, ShelfAssumption DEF Contents
    <3>3. /\ Bytes(onDisk[f], 0, 0 - 1) \in Seq(ByteKind)
          /\ Len(Bytes(onDisk[f], 0, 0 - 1)) = 0
      BY <3>1, FirstBytes
    <3>4. Bytes(onDisk[f], 0, Len(<<>>) - 1) = <<>>
      BY <3>3
    <3>5. QED
      BY <2>1, <3>1, <3>2, <3>4 DEF Beginning
  <2>3. QED
    BY <1>2, <2>1, <2>2 DEF ShInv, ShTypes
<1>3. CASE UNCHANGED shVars
  BY <1>3 DEF shVars, ShInv, ShTypes, Beginning
<1>4. QED
  BY <1>1, <1>2, <1>3

LEMMA ShelfInit == ShInit => ShInv
<1>1. [rev : {1}, len : Lengths] \subseteq Contents
  BY DEF Contents
<1>2. QED
  BY <1>1 DEF ShInit, ShInv, ShTypes, OptionOf

(* What a player puts together is the beginning of the file, and all of it   *)
(* at the total it was told, for any files, ranges and breaks of the         *)
(* connection, as long as file and row are of one mind; and a range is what  *)
(* RFC 7233 makes of it, for every header and every length.                  *)
THEOREM PlayersGetTheFile == ShSpec => []PlayedWhole
<1>1. ASSUME ShInv, [ShStep]_shVars
      PROVE  ShInv'
  BY <1>1, PlayOnKeeps, WorldKeeps, ClientKeeps DEF ShStep
<1>2. ASSUME ShInv
      PROVE  PlayedWhole
  <2>1. ASSUME playing # Nothing, even
        PROVE  LET content == onDisk[playing.file]
               IN  /\ playing.got = Bytes(content, 0, Len(playing.got) - 1)
                   /\ playing.total = Len(playing.got) => Len(playing.got) = content.len
    <3>1. Beginning(playing)
      BY <1>2, <2>1 DEF ShInv
    <3>2. Len(playing.got) # Nothing
      <4>1. Len(playing.got) \in Nat
        BY <3>1 DEF Beginning
      <4>2. QED
        BY <4>1, ShelfAssumption
    <3>3. QED
      BY <3>1, <3>2 DEF Beginning
  <2>2. ASSUME NEW f \in FileIds
        PROVE  (IF onDisk[f] = Nothing THEN 0 ELSE onDisk[f].len) \in Nat
    BY <1>2, ShelfAssumption DEF ShInv, ShTypes, OptionOf, Contents
  <2>3. QED
    BY <2>1, <2>2, RangeIsNamed DEF PlayedWhole
<1>3. QED
  BY <1>1, <1>2, ShelfInit, PTL DEF ShSpec

-----------------------------------------------------------------------------
(* --- Doctor -------------------------------------------------------------- *)
(* Proofs about Doctor, for any rows, books and budgets.                     *)

RowsTyped == table \in Tables => filled \in [Records -> OptionOf(RowOf(table))]
Undisturbed == table # "machine" => machine.library = "ok" /\ machine.ephemeral = "ok"
DoInv == RowsTyped /\ Undisturbed

\* What the rows of the tables look like.
OperationRows ==
  [kind : RegisteredKinds \cup {"purge"}, progress : {"pending", "done", "failed"},
   why : OptionOf({"crash", "other"})]
RootRows ==
  [active : BOOLEAN, disk : {"dir", "other", "gone"}, free : {"ample", "low", "unknown", "empty"}]
TokenRows == [used : BOOLEAN, old : BOOLEAN, revoked : BOOLEAN]
CollectionRows == [audible : OptionOf({"x"}), members : SUBSET Books]
CodeRows == [used : BOOLEAN, old : BOOLEAN]
LearningRows == [old : BOOLEAN]
CompanionRecords == [paired : BOOLEAN]
LEMMA RowShapes ==
  /\ RowOf("operation_journal") = OperationRows /\ RowOf("library_roots") = RootRows
  /\ RowOf("tokens") = TokenRows /\ RowOf("book_collections") = CollectionRows
  BY DEF RowOf, OperationRows, RootRows, TokenRows, CollectionRows
LEMMA OtherShapes ==
  /\ RowOf("pairing_codes") = CodeRows /\ RowOf("asin_learnings") = LearningRows
  /\ RowOf("book_companions") = CompanionRecords
  BY DEF RowOf, CodeRows, LearningRows, CompanionRecords

\* A row that changes is a row.
LEMMA RowsAfter ==
  /\ \A x \in OperationRows : /\ [x EXCEPT !.progress = "done"] \in OperationRows
                              /\ [x EXCEPT !.progress = "failed", !.why = "other"] \in OperationRows
  /\ \A x \in RootRows, y \in RootRows : [x EXCEPT !.active = y.active] \in RootRows
  /\ \A x \in RootRows, p \in BOOLEAN : [x EXCEPT !.active = p] \in RootRows
  /\ \A x \in RootRows : [x EXCEPT !.free = "ample"] \in RootRows
  /\ \A x \in CompanionRecords, p \in BOOLEAN : [x EXCEPT !.paired = p] \in CompanionRecords
  /\ \A x \in TokenRows : /\ [x EXCEPT !.used = TRUE] \in TokenRows /\ [x EXCEPT !.old = TRUE] \in TokenRows
                          /\ [x EXCEPT !.revoked = TRUE] \in TokenRows
  /\ \A x \in CodeRows : [x EXCEPT !.used = TRUE] \in CodeRows /\ [x EXCEPT !.old = TRUE] \in CodeRows
  /\ \A x \in LearningRows : [x EXCEPT !.old = TRUE] \in LearningRows
  BY DEF OperationRows, RootRows, CompanionRecords, TokenRows, CodeRows, LearningRows, OptionOf
LEMMA MembersAfter ==
  ASSUME NEW x \in CollectionRows, NEW S
  PROVE  /\ [x EXCEPT !.members = @ \ S] \in CollectionRows
         /\ [x EXCEPT !.members = @ \ S].members = x.members \ S
  BY DEF CollectionRows

LEMMA DoctorInit == DoInit => DoInv
  BY DEF DoInit, DoInv, RowsTyped, Undisturbed, OptionOf

-----------------------------------------------------------------------------
\* Rows come, change and go.
LEMMA RowsKeep ==
  ASSUME DoInv, NEW r \in Records, RowComes(r) \/ RowChanges(r) \/ LibraryRootsCreate(r)
  PROVE  DoInv'
<1>1. table' = table /\ machine' = machine
  BY DEF RowComes, RowChanges, LibraryRootsCreate
<1>2. CASE RowComes(r)
  <2>1. PICK row \in RowOf(table) : filled' = [filled EXCEPT ![r] = row]
    BY <1>2 DEF RowComes
  <2>2. QED
    BY <1>1, <1>2, <2>1 DEF RowComes, DoInv, RowsTyped, Undisturbed, OptionOf
<1>3. CASE RowChanges(r)
  <2>1. filled \in [Records -> OptionOf(RowOf(table))] /\ filled[r] \in RowOf(table)
    BY <1>3 DEF RowChanges, DoInv, RowsTyped, OptionOf
  <2>2. \E row \in RowOf(table) : filled' = [filled EXCEPT ![r] = row]
    <3>1. CASE table = "operation_journal"
      <4>1. /\ [filled[r] EXCEPT !.progress = "done"] \in RowOf(table)
            /\ [filled[r] EXCEPT !.progress = "failed", !.why = "other"] \in RowOf(table)
        BY <2>1, <3>1, RowShapes, RowsAfter
      <4>2. \/ filled' = [filled EXCEPT ![r] = [filled[r] EXCEPT !.progress = "done"]]
            \/ filled' = [filled EXCEPT ![r] = [filled[r] EXCEPT !.progress = "failed", !.why = "other"]]
        BY <1>3, <2>1, <3>1 DEF RowChanges
      <4>3. QED
        BY <4>1, <4>2
    <3>2. CASE table = "book_companions"
      <4>1. PICK p \in BOOLEAN : filled' = [filled EXCEPT ![r].paired = p]
        BY <1>3, <3>2 DEF RowChanges
      <4>2. [filled[r] EXCEPT !.paired = p] \in RowOf(table)
        BY <2>1, <3>2, OtherShapes, RowsAfter
      <4>3. filled' = [filled EXCEPT ![r] = [filled[r] EXCEPT !.paired = p]]
        BY <2>1, <4>1
      <4>4. QED
        BY <4>2, <4>3
    <3>3. CASE table = "library_roots"
      <4>1. PICK row \in RowOf(table) : filled' = [filled EXCEPT ![r] = [row EXCEPT !.active = filled[r].active]]
        BY <1>3, <3>3 DEF RowChanges
      <4>2. [row EXCEPT !.active = filled[r].active] \in RowOf(table)
        BY <2>1, <3>3, RowShapes, RowsAfter
      <4>3. QED
        BY <4>1, <4>2
    <3>4. CASE table \in {"tokens", "pairing_codes", "asin_learnings"}
      <4>1. /\ table # "asin_learnings" => [filled[r] EXCEPT !.used = TRUE] \in RowOf(table)
            /\ [filled[r] EXCEPT !.old = TRUE] \in RowOf(table)
        BY <2>1, <3>4, RowShapes, OtherShapes, RowsAfter
      <4>2. \/ table # "asin_learnings" /\ filled' = [filled EXCEPT ![r] = [filled[r] EXCEPT !.used = TRUE]]
            \/ filled' = [filled EXCEPT ![r] = [filled[r] EXCEPT !.old = TRUE]]
        BY <1>3, <2>1, <3>4 DEF RowChanges
      <4>3. QED
        BY <4>1, <4>2
    <3>5. CASE table = "book_collections"
      BY <1>3, <3>5 DEF RowChanges
    <3>6. QED
      BY <1>3, <3>1, <3>2, <3>3, <3>4, <3>5 DEF RowChanges
  <2>3. QED
    BY <1>1, <2>1, <2>2 DEF DoInv, RowsTyped, Undisturbed, OptionOf
<1>4. CASE LibraryRootsCreate(r)
  <2>1. filled[r] \in RowOf("library_roots") /\ table = "library_roots" /\ table \in Tables
    BY <1>4 DEF LibraryRootsCreate, DoInv, RowsTyped, Tables, OptionOf
  <2>2. [filled[r] EXCEPT !.active = TRUE] \in RowOf("library_roots")
    BY <2>1, RowShapes, RowsAfter
  <2>3. filled' = [filled EXCEPT ![r] = [filled[r] EXCEPT !.active = TRUE]]
    BY <1>4, <2>1 DEF LibraryRootsCreate, DoInv, RowsTyped
  <2>4. QED
    BY <1>1, <2>1, <2>2, <2>3 DEF DoInv, RowsTyped, Undisturbed, OptionOf
<1>5. QED
  BY <1>2, <1>3, <1>4

\* Books are hidden, and the machine changes.
LEMMA AroundKeeps ==
  ASSUME DoInv, (\E b \in Books : BookHidden(b)) \/ MachineChanges \/ UNCHANGED doVars
  PROVE  DoInv'
<1>1. ASSUME NEW b \in Books, BookHidden(b)
      PROVE  DoInv'
  <2>1. table = "book_collections" /\ table \in Tables /\ table' = table /\ machine' = machine
    BY <1>1 DEF BookHidden, Tables
  <2>2. filled \in [Records -> OptionOf(CollectionRows)]
    BY <2>1, RowShapes DEF DoInv, RowsTyped
  <2>3. filled' = filled \/ filled' = [r \in Records |->
          IF filled[r] = Nothing THEN Nothing ELSE [filled[r] EXCEPT !.members = @ \ {b}]]
    BY <1>1 DEF BookHidden
  <2>4. filled' \in [Records -> OptionOf(CollectionRows)]
    <3>1. \A r \in Records : filled[r] # Nothing => [filled[r] EXCEPT !.members = @ \ {b}] \in CollectionRows
      BY <2>2, MembersAfter DEF OptionOf
    <3>2. QED
      BY <2>2, <2>3, <3>1 DEF OptionOf
  <2>5. QED
    BY <2>1, <2>4, RowShapes DEF DoInv, RowsTyped, Undisturbed
<1>2. CASE MachineChanges
  BY <1>2 DEF MachineChanges, DoInv, RowsTyped, Undisturbed, Tables
<1>3. CASE UNCHANGED doVars
  BY <1>3 DEF doVars, DoInv, RowsTyped, Undisturbed
<1>4. QED
  BY <1>1, <1>2, <1>3

-----------------------------------------------------------------------------
(* Remedies                                                                  *)

\* A table with a remedy is asked while both databases answer.
LEMMA RemedyFrame ==
  ASSUME DoInv, NEW name, NEW t \in Tables, Remedy(name, t)
  PROVE  /\ table = t /\ table' = t /\ table \in Tables /\ remedied' = name /\ Undisturbed'
         /\ machine'.library # "down" /\ machine'.ephemeral # "down"
         /\ filled \in [Records -> OptionOf(RowOf(t))]
  BY DEF Remedy, DoInv, RowsTyped, Undisturbed, Tables

\* What is dropped is gone, and the rest is as it was.
LEMMA DropKeeps ==
  ASSUME NEW t, filled \in [Records -> OptionOf(RowOf(t))], NEW S, Drop(S)
  PROVE  /\ filled' \in [Records -> OptionOf(RowOf(t))]
         /\ \A r \in Records : filled'[r] = IF r \in S THEN Nothing ELSE filled[r]
  BY DEF Drop, OptionOf

LEMMA OkOfNone ==
  ASSUME NEW T
  PROVE  T = {} => Cardinality(T) = 0 /\ Cardinality(T) <= Budget
  BY FS_EmptySet, DoctorAssumption

LEMMA RestartClears ==
  ASSUME DoInv, NEW name \in {"journal", "pending-without-replayer"}, RestartDaemon(name)
  PROVE  DoInv' /\ RemediesClear'
<1>1. /\ table = "operation_journal" /\ table' = table /\ table \in Tables /\ remedied' = name /\ Undisturbed'
      /\ machine'.library # "down"
      /\ filled \in [Records -> OptionOf(OperationRows)]
  BY RemedyFrame, RowShapes DEF RestartDaemon, Tables
<1>2. PICK f \in [Records -> {"retried", "skipped", "error"}] :
        filled' = [r \in Records |-> IF r \in PendingOps
          THEN [filled[r] EXCEPT !.progress = IF f[r] = "retried" THEN "done" ELSE "failed",
                               !.why = CASE f[r] = "retried" -> Nothing [] f[r] = "skipped" -> "other"
                                         [] OTHER -> "crash"]
          ELSE filled[r]]
  BY DEF RestartDaemon
<1>3. \A r \in PendingOps : r \in Records /\ filled[r] # Nothing
  BY DEF PendingOps, Stored
<1>4. \A r \in PendingOps : filled'[r] \in OperationRows /\ filled'[r].progress # "pending"
  <2> SUFFICES ASSUME NEW r \in PendingOps
               PROVE  filled'[r] \in OperationRows /\ filled'[r].progress # "pending"
    OBVIOUS
  <2>1. filled[r] \in OperationRows
    BY <1>1, <1>3 DEF OptionOf
  <2>2. PICK p \in {"done", "failed"} : p = IF f[r] = "retried" THEN "done" ELSE "failed"
    OBVIOUS
  <2>3. PICK w \in OptionOf({"crash", "other"}) :
          w = CASE f[r] = "retried" -> Nothing [] f[r] = "skipped" -> "other" [] OTHER -> "crash"
    BY DEF OptionOf
  <2>4. filled'[r] = [filled[r] EXCEPT !.progress = p, !.why = w]
    BY <1>2, <1>3, <2>2, <2>3
  <2>5. QED
    BY <2>1, <2>4 DEF OperationRows
<1>5. \A r \in Records \ PendingOps : filled'[r] = filled[r]
  BY <1>2
<1>6. filled' \in [Records -> OptionOf(OperationRows)]
  BY <1>1, <1>2, <1>4, <1>5 DEF OptionOf
<1>7. PendingOps' = {}
  <2>1. Stored("operation_journal") = {r \in Records : filled[r] # Nothing}
    BY <1>1 DEF Stored
  <2>2. \A r \in Records \ PendingOps : filled[r] # Nothing => filled[r].progress # "pending"
    BY <2>1 DEF PendingOps
  <2>3. \A r \in Records : filled'[r] # Nothing => filled'[r].progress # "pending"
    BY <1>4, <1>5, <2>2
  <2>4. QED
    BY <2>3 DEF PendingOps, Stored
<1>8. DoctorOne(name)' = "ok"
  <2>1. JournalCheck' = "ok"
    BY <1>1, <1>7 DEF JournalCheck, Asking, OkIf
  <2>2. PendingWithoutReplayerCheck' = "ok"
    BY <1>1, <1>7 DEF PendingWithoutReplayerCheck, Asking, OkIf
  <2>3. QED
    BY <2>1, <2>2 DEF DoctorOne
<1>9. QED
  BY <1>1, <1>6, <1>8, RowShapes DEF DoInv, RowsTyped, RemediesClear

LEMMA RootsClear ==
  ASSUME DoInv, LibraryRootsDelete \/ SpaceFreed
  PROVE  DoInv' /\ RemediesClear'
<1>1. /\ table = "library_roots" /\ table' = table /\ table \in Tables /\ Undisturbed'
      /\ machine'.library # "down"
      /\ filled \in [Records -> OptionOf(RootRows)]
  BY RemedyFrame, RowShapes DEF LibraryRootsDelete, SpaceFreed, Tables
<1>2. Active = {r \in Records : filled[r] # Nothing /\ filled[r].active}
  BY <1>1 DEF Active, Stored
<1>3. Active' = {r \in Records : filled'[r] # Nothing /\ filled'[r].active}
  BY <1>1 DEF Active, Stored
<1>4. \A r \in Active : filled[r] \in RootRows
  BY <1>1, <1>2 DEF OptionOf
<1>5. CASE LibraryRootsDelete
  <2>1. /\ remedied' = "library-roots-reachable"
        /\ filled' = [r \in Records |->
             IF r \in Active /\ filled[r].disk # "dir" THEN [filled[r] EXCEPT !.active = FALSE] ELSE filled[r]]
    BY <1>5 DEF LibraryRootsDelete, Remedy
  <2>2. filled' \in [Records -> OptionOf(RootRows)]
    BY <1>1, <1>4, <2>1, RowsAfter DEF OptionOf
  <2>3. \A r \in Active' : filled'[r].disk = "dir"
    <3> SUFFICES ASSUME NEW r \in Records, filled'[r] # Nothing, filled'[r].active, filled'[r].disk # "dir"
                 PROVE  FALSE
      BY <1>3
    <3>1. CASE r \in Active /\ filled[r].disk # "dir"
      <4>1. filled'[r] = [filled[r] EXCEPT !.active = FALSE] /\ filled[r] \in RootRows
        BY <1>4, <2>1, <3>1
      <4>2. QED
        BY <4>1 DEF RootRows
    <3>2. CASE ~(r \in Active /\ filled[r].disk # "dir")
      BY <1>2, <2>1, <3>2
    <3>3. QED
      BY <3>1, <3>2
  <2>4. LibraryRootsReachableCheck' = "ok"
    BY <1>1, <2>3 DEF LibraryRootsReachableCheck, Asking, OkIf
  <2>5. QED
    BY <1>1, <2>1, <2>2, <2>4, RowShapes DEF DoInv, RowsTyped, RemediesClear, DoctorOne
<1>6. CASE SpaceFreed
  <2>1. /\ remedied' = "disk-pressure"
        /\ filled' = [r \in Records |->
             IF r \in ScanRoots.pressured THEN [filled[r] EXCEPT !.free = "ample"] ELSE filled[r]]
    BY <1>6 DEF SpaceFreed, Remedy
  <2>2. ScanRoots.pressured = {r \in Active : filled[r].free = "low"}
    BY DEF ScanRoots
  <2>3. filled' \in [Records -> OptionOf(RootRows)]
    BY <1>1, <1>4, <2>1, <2>2, RowsAfter DEF OptionOf
  <2>4. {r \in Active' : filled'[r].free = "low"} = {}
    <3> SUFFICES ASSUME NEW r \in Records, filled'[r] # Nothing, filled'[r].active, filled'[r].free = "low"
                 PROVE  FALSE
      BY <1>3
    <3>1. CASE r \in ScanRoots.pressured
      <4>1. filled'[r] = [filled[r] EXCEPT !.free = "ample"] /\ filled[r] \in RootRows
        BY <1>4, <2>1, <2>2, <3>1
      <4>2. QED
        BY <4>1 DEF RootRows
    <3>2. CASE r \notin ScanRoots.pressured
      BY <1>2, <2>1, <2>2, <3>2
    <3>3. QED
      BY <3>1, <3>2
  <2>5. ScanRoots.pressured' = {}
    BY <2>4 DEF ScanRoots
  <2>6. DiskPressureCheck' = "ok"
    BY <1>1, <2>5 DEF DiskPressureCheck, Asking, OkIf
  <2>7. QED
    BY <1>1, <2>1, <2>3, <2>6, RowShapes DEF DoInv, RowsTyped, RemediesClear, DoctorOne
<1>7. QED
  BY <1>5, <1>6

LEMMA TokensClear ==
  ASSUME DoInv, TokensRevoked
  PROVE  DoInv' /\ RemediesClear'
<1>1. /\ table = "tokens" /\ table' = table /\ table \in Tables /\ remedied' = "tokens-unused" /\ Undisturbed'
      /\ machine'.library # "down"
      /\ filled \in [Records -> OptionOf(TokenRows)]
  BY RemedyFrame, RowShapes DEF TokensRevoked, Tables
<1>2. \A used \in BOOLEAN : StaleTokens(used) =
        {r \in Records : filled[r] # Nothing /\ ~filled[r].revoked /\ filled[r].old /\ filled[r].used = used}
  BY <1>1 DEF StaleTokens, Stored
<1>3. filled' = [r \in Records |-> IF r \in StaleTokens(TRUE) \cup StaleTokens(FALSE)
                                   THEN [filled[r] EXCEPT !.revoked = TRUE] ELSE filled[r]]
  BY DEF TokensRevoked
<1>4. \A r \in Records : filled[r] # Nothing => filled[r] \in TokenRows
  BY <1>1 DEF OptionOf
<1>5. filled' \in [Records -> OptionOf(TokenRows)]
  BY <1>1, <1>2, <1>3, <1>4, RowsAfter DEF OptionOf
<1>6. ASSUME NEW r \in Records, filled'[r] # Nothing, ~filled'[r].revoked, filled'[r].old
      PROVE  FALSE
  <2>1. CASE r \in StaleTokens(TRUE) \cup StaleTokens(FALSE)
    <3>1. filled'[r] = [filled[r] EXCEPT !.revoked = TRUE] /\ filled[r] \in TokenRows
      BY <1>2, <1>3, <1>4, <2>1
    <3>2. QED
      BY <1>6, <3>1 DEF TokenRows
  <2>2. CASE r \notin StaleTokens(TRUE) \cup StaleTokens(FALSE)
    <3>1. filled'[r] = filled[r]
      BY <1>3, <2>2
    <3>2. filled[r].used \in BOOLEAN
      BY <1>4, <1>6, <3>1 DEF TokenRows
    <3>3. filled[r].used = TRUE \/ filled[r].used = FALSE
      BY <3>2
    <3>4. QED
      BY <1>2, <1>6, <2>2, <3>1, <3>3
  <2>3. QED
    BY <2>1, <2>2
<1>7. \A used \in BOOLEAN : StaleTokens(used)' = {}
  BY <1>1, <1>6 DEF StaleTokens, Stored
<1>8. \A used \in BOOLEAN : Cardinality(StaleTokens(used)') <= Budget
  BY <1>7, OkOfNone
<1>9. TokensUnusedCheck' = "ok"
  BY <1>1, <1>8 DEF TokensUnusedCheck, Asking, OkIf
<1>10. QED
  BY <1>1, <1>5, <1>9, RowShapes DEF DoInv, RowsTyped, RemediesClear, DoctorOne

LEMMA CodesClear ==
  ASSUME DoInv, CleanQueue
  PROVE  DoInv' /\ RemediesClear'
<1>1. /\ table = "pairing_codes" /\ table' = table /\ table \in Tables
      /\ remedied' = "pairing-codes-stale" /\ Undisturbed'
      /\ machine'.ephemeral # "down"
      /\ filled \in [Records -> OptionOf(RowOf("pairing_codes"))]
  BY RemedyFrame DEF CleanQueue, Tables
<1> DEFINE S == {r \in Stored("pairing_codes") : ~filled[r].used /\ filled[r].old}
<1>2. Drop(S)
  BY DEF CleanQueue
<1>3. S = {r \in Records : filled[r] # Nothing /\ ~filled[r].used /\ filled[r].old}
  BY <1>1 DEF Stored
<1> HIDE DEF S
<1>4. /\ filled' \in [Records -> OptionOf(RowOf("pairing_codes"))]
      /\ \A r \in Records : filled'[r] = IF r \in S THEN Nothing ELSE filled[r]
  BY <1>1, <1>2, DropKeeps
<1>5. {r \in Stored("pairing_codes") : ~filled[r].used /\ filled[r].old}' = {}
  BY <1>1, <1>3, <1>4 DEF Stored
<1>6. PairingCodesStaleCheck' = "ok"
  BY <1>1, <1>5, OkOfNone DEF PairingCodesStaleCheck, Asking, OkIf
<1>7. QED
  BY <1>1, <1>4, <1>6 DEF DoInv, RowsTyped, RemediesClear, DoctorOne

LEMMA DeletedClear ==
  ASSUME DoInv, RowsDeleted
  PROVE  DoInv' /\ RemediesClear'
<1>1. ASSUME Remedy("stale-asin-learnings", "asin_learnings"),
             Drop({r \in Stored(table) : filled[r].old}), Cardinality(Stored(table)) <= 2 * Budget
      PROVE  DoInv' /\ RemediesClear'
  <2>1. /\ table = "asin_learnings" /\ table' = table /\ table \in Tables
        /\ remedied' = "stale-asin-learnings" /\ Undisturbed'
        /\ machine'.library # "down"
        /\ filled \in [Records -> OptionOf(RowOf("asin_learnings"))]
    BY <1>1, RemedyFrame DEF Tables
  <2> DEFINE S == {r \in Stored(table) : filled[r].old}
             all == Stored("asin_learnings")
  <2>2. all = {r \in Records : filled[r] # Nothing} /\ S = {r \in all : filled[r].old}
    BY <2>1 DEF Stored
  <2>3. Drop(S)
    BY <1>1
  <2> HIDE DEF S
  <2>4. /\ filled' \in [Records -> OptionOf(RowOf("asin_learnings"))]
        /\ \A r \in Records : filled'[r] = IF r \in S THEN Nothing ELSE filled[r]
    BY <2>1, <2>3, DropKeeps
  <2>5. all' = {r \in Records : filled'[r] # Nothing}
    BY <2>1 DEF Stored
  <2>6. {r \in all : filled[r].old}' = {}
    BY <2>2, <2>4, <2>5
  <2>7. Cardinality(all') <= 2 * Budget
    <3>1. all' \subseteq all /\ IsFiniteSet(all)
      BY <2>2, <2>4, <2>5, FS_Subset, DoctorAssumption
    <3>2. Cardinality(all') <= Cardinality(all)
      BY <3>1, FS_Subset
    <3>3. Cardinality(all) <= 2 * Budget
      BY <1>1, <2>1
    <3>4. Cardinality(all) \in Nat /\ Cardinality(all') \in Nat /\ Budget \in Nat
      BY <3>1, FS_Subset, FS_CardinalityType, DoctorAssumption
    <3>5. QED
      BY <3>2, <3>3, <3>4
  <2>8. Cardinality({r \in all : filled[r].old}') <= Budget
    BY <2>6, OkOfNone
  <2>9. StaleAsinLearningsCheck' = "ok"
    BY <2>1, <2>7, <2>8 DEF StaleAsinLearningsCheck, Asking, OkIf
  <2>10. QED
    BY <2>1, <2>4, <2>9 DEF DoInv, RowsTyped, RemediesClear, DoctorOne
<1>2. ASSUME Remedy("provenance-stale-stages", "book_field_provenance"),
             Drop({r \in Stored(table) : filled[r].stage \in StaleStages})
      PROVE  DoInv' /\ RemediesClear'
  <2>1. /\ table = "book_field_provenance" /\ table' = table /\ table \in Tables
        /\ remedied' = "provenance-stale-stages" /\ Undisturbed'
        /\ machine'.library # "down"
        /\ filled \in [Records -> OptionOf(RowOf("book_field_provenance"))]
    BY <1>2, RemedyFrame DEF Tables
  <2> DEFINE S == {r \in Stored(table) : filled[r].stage \in StaleStages}
  <2>2. Drop(S) /\ S \subseteq Records
    BY <1>2 DEF Stored
  <2>3. \A r \in Records : filled[r] # Nothing /\ r \notin S => filled[r].stage \in KnownStages
    BY <2>1 DEF Stored, StaleStages
  <2> HIDE DEF S
  <2>4. /\ filled' \in [Records -> OptionOf(RowOf("book_field_provenance"))]
        /\ \A r \in Records : filled'[r] = IF r \in S THEN Nothing ELSE filled[r]
    BY <2>1, <2>2, DropKeeps
  <2>5. StaleStages' = {}
    BY <2>1, <2>3, <2>4 DEF StaleStages, Stored
  <2>6. ProvenanceStaleStagesCheck' = "ok"
    BY <2>1, <2>5 DEF ProvenanceStaleStagesCheck, Asking, OkIf
  <2>7. QED
    BY <2>1, <2>4, <2>6 DEF DoInv, RowsTyped, RemediesClear, DoctorOne
<1>3. QED
  BY <1>1, <1>2 DEF RowsDeleted

\* The remedy of an empty collection is listed for the first ones; where that
\* is all of them, none is left.
LEMMA CollectionsClear ==
  ASSUME DoInv, EmptyDeleted
  PROVE  DoInv' /\ RemediesClear'
<1> DEFINE name == IF Cardinality(Empty) <= MaxDetails THEN "empty-collections" ELSE Nothing
<1>1. /\ table = "book_collections" /\ table' = table /\ table \in Tables
      /\ remedied' = name /\ Undisturbed'
      /\ machine'.library # "down"
      /\ filled \in [Records -> OptionOf(RowOf("book_collections"))]
  <2> HIDE DEF name
  <2>1. Remedy(name, "book_collections")
    BY DEF EmptyDeleted, name
  <2>2. QED
    BY <2>1, RemedyFrame DEF Tables
<1>2. PICK S \in SUBSET Empty :
        /\ Cardinality(S) = IF Cardinality(Empty) < MaxDetails THEN Cardinality(Empty) ELSE MaxDetails
        /\ Drop(S)
  BY DEF EmptyDeleted
<1>3. /\ filled' \in [Records -> OptionOf(RowOf("book_collections"))]
      /\ \A r \in Records : filled'[r] = IF r \in S THEN Nothing ELSE filled[r]
  BY <1>1, <1>2, DropKeeps
<1>4. Empty = {r \in Records : filled[r] # Nothing /\ filled[r].members = {}}
  BY <1>1 DEF Empty, Stored
<1>5. Empty' = {r \in Records : filled'[r] # Nothing /\ filled'[r].members = {}}
  BY <1>1 DEF Empty, Stored
<1>6. ASSUME Cardinality(Empty) <= MaxDetails
      PROVE  RemediesClear'
  <2>1. IsFiniteSet(Empty) /\ Cardinality(Empty) \in Nat /\ MaxDetails \in Nat
    BY <1>4, FS_Subset, FS_CardinalityType, DoctorAssumption
  <2>2. Cardinality(S) = Cardinality(Empty)
    BY <1>2, <1>6, <2>1
  <2>3. S = Empty
    BY <1>2, <2>1, <2>2, FS_Subset
  <2>4. Empty' = {}
    BY <1>3, <1>4, <1>5, <2>3
  <2>5. EmptyCollectionsCheck' = "ok"
    BY <1>1, <2>4 DEF EmptyCollectionsCheck, Asking, OkIf
  <2>6. QED
    BY <1>1, <1>6, <2>5 DEF RemediesClear, DoctorOne
<1>7. ASSUME ~(Cardinality(Empty) <= MaxDetails)
      PROVE  RemediesClear'
  BY <1>1, <1>7 DEF RemediesClear
<1>8. QED
  BY <1>1, <1>3, <1>6, <1>7 DEF DoInv, RowsTyped

LEMMA MembersClear ==
  ASSUME DoInv, MembersCured
  PROVE  DoInv' /\ RemediesClear'
<1>1. /\ table = "book_collections" /\ table' = table /\ table \in Tables
      /\ remedied' = "orphan-collection-members" /\ Undisturbed'
      /\ machine'.library # "down"
      /\ filled \in [Records -> OptionOf(CollectionRows)]
  BY RemedyFrame, RowShapes DEF MembersCured, Tables
<1>2. CASE binned' = {} /\ filled' = filled
  <2>1. OrphanCollectionMembersCheck' = "ok"
    BY <1>1, <1>2 DEF OrphanCollectionMembersCheck, Asking, OkIf
  <2>2. QED
    BY <1>1, <1>2, <2>1, RowShapes DEF DoInv, RowsTyped, RemediesClear, DoctorOne
<1>3. CASE /\ binned' = binned
           /\ filled' = [r \in Records |->
                IF filled[r] = Nothing THEN Nothing ELSE [filled[r] EXCEPT !.members = @ \ binned]]
  <2>1. \A r \in Records : filled[r] # Nothing =>
          /\ [filled[r] EXCEPT !.members = @ \ binned] \in CollectionRows
          /\ [filled[r] EXCEPT !.members = @ \ binned].members = filled[r].members \ binned
    BY <1>1, MembersAfter DEF OptionOf
  <2>2. filled' \in [Records -> OptionOf(CollectionRows)]
    BY <1>3, <2>1 DEF OptionOf
  <2>3. \A r \in Records : filled'[r] # Nothing => filled'[r].members \cap binned = {}
    BY <1>3, <2>1
  <2>4. OrphanCollectionMembersCheck' = "ok"
    BY <1>1, <1>3, <2>3 DEF OrphanCollectionMembersCheck, Asking, OkIf, Stored
  <2>5. QED
    BY <1>1, <2>2, <2>4, RowShapes DEF DoInv, RowsTyped, RemediesClear, DoctorOne
<1>4. QED
  BY <1>2, <1>3 DEF MembersCured

(* A check passes once the remedy that it names has been carried out, for    *)
(* any rows, books and budgets: what each check counts is nothing that its   *)
(* remedy leaves behind, though the two are different queries, and a remedy  *)
(* that is listed only for the first findings is named where it is enough.   *)
THEOREM RemediesCure == DoSpec => []RemediesClear
<1>1. ASSUME DoInv, RemediesClear, [DoStep]_doVars
      PROVE  DoInv' /\ RemediesClear'
  <2>1. CASE \E r \in Records : RowComes(r) \/ RowChanges(r) \/ LibraryRootsCreate(r)
    BY <1>1, <2>1, RowsKeep DEF RowComes, RowChanges, LibraryRootsCreate, RemediesClear
  <2>2. CASE (\E b \in Books : BookHidden(b)) \/ MachineChanges
    BY <1>1, <2>2, AroundKeeps DEF BookHidden, MachineChanges, RemediesClear
  <2>3. CASE UNCHANGED doVars
    <3>1. DoInv'
      BY <1>1, <2>3, AroundKeeps
    <3>2. DoctorOne(remedied)' = DoctorOne(remedied) /\ remedied' = remedied
      BY <2>3 DEF doVars, DoctorOne, LlmCheck, SpeechCheck, DbIntegrityCheck, CoverCacheWritableCheck,
         PendingOps, JournalCheck, FailedOpsCheck, PendingWithoutReplayerCheck, OrphanCompanionsCheck,
         Active, LibraryRootsReachableCheck, ScanRoots, DiskPressureCheck, AiCacheSizeCheck,
         StaleAsinLearningsCheck, StaleTokens, TokensUnusedCheck, PairingCodesStaleCheck,
         ProvenanceWinnerConflictCheck, StaleStages, ProvenanceStaleStagesCheck, Empty,
         EmptyCollectionsCheck, OrphanCollectionMembersCheck, CollectionsDuplicateAudibleIdCheck,
         Stored, OkIf, Asking
    <3>3. QED
      BY <1>1, <3>1, <3>2 DEF RemediesClear
  <2>4. QED
    BY <1>1, <2>1, <2>2, <2>3, RestartClears, RootsClear, TokensClear, CodesClear, DeletedClear,
       CollectionsClear, MembersClear DEF DoStep
<1>2. DoInit => RemediesClear
  BY DEF DoInit, RemediesClear
<1>3. QED
  BY <1>1, <1>2, DoctorInit, PTL DEF DoSpec

-----------------------------------------------------------------------------
(* --- Types of Bridge, Upkeep and Replay ---------------------------------- *)

-----------------------------------------------------------------------------
(* Bridge                                                                    *)

LEMMA SwiftLeaves ==
  ASSUME BrTypeOK, NEW c \in Calls, SwiftSide(c)
  PROVE  assets' \in {"supported", "installed"} /\ output' \in [Calls -> {"old", "gone", "partial", "whole"}]
<1>1. CASE InstallEnds(c)
  BY <1>1 DEF InstallEnds, BrTypeOK
<1>2. CASE TranscodeEntry(c) \/ TranscodeEnds(c)
  BY <1>2 DEF TranscodeEntry, TranscodeEnds, BrTypeOK
<1>3. CASE ~InstallEnds(c) /\ ~TranscodeEntry(c) /\ ~TranscodeEnds(c)
  BY <1>3 DEF SwiftSide, StatusEntry, LanguagesEntry, CompleteEntry, StructuredEntry, StreamStarts, StreamEnds,
     StreamFails, LocaleEntry, InstallEntry, WindowEntry, DetectEntry, ReadEntry, Still, BrTypeOK
<1>4. QED
  BY <1>1, <1>2, <1>3

LEMMA SwiftTypes ==
  ASSUME BrInv, BrTypeOK, NEW c \in Calls, SwiftSide(c)
  PROVE  BrTypeOK'
<1>1. assets' \in {"supported", "installed"} /\ output' \in [Calls -> {"old", "gone", "partial", "whole"}]
  BY SwiftLeaves
<1>2. CASE Fired(c)
  <2>1. /\ UNCHANGED <<host, model, entry, caller, text, emptied>>
        /\ ctx' = [ctx EXCEPT ![c] = "freed"] /\ task' = [task EXCEPT ![c] = "done"]
    BY <1>2 DEF Fired, Quiet, streamVars, Succeed, FireError, Fire
  <2>2. ASSUME NEW d \in Calls, chan'[d] # Nothing
        PROVE  ctx'[d] = "freed" /\ caller'[d] = "waiting"
    <3>1. chan'[d] = chan[d] \/ (d = c /\ Listening(c))
      BY <1>2 DEF Fired, Succeed, FireError, Fire, BrInv, Domains
    <3>2. QED
      BY <2>1, <2>2, <3>1 DEF BrTypeOK, Listening
  <2>3. QED
    BY <1>1, <2>1, <2>2 DEF BrTypeOK
<1>3. CASE Moved(c)
  BY <1>1, <1>3 DEF Moved, Quiet, streamVars, BrTypeOK, AtWork
<1>4. CASE StreamEnds(c) \/ StreamFails(c)
  <2>1. PICK n : OnStream(c, TRUE, <<>>, n)
    BY <1>4 DEF StreamEnds, StreamFails
  <2>2. UNCHANGED <<host, model, entry, caller, text, emptied>> /\ task' = [task EXCEPT ![c] = "done"]
    BY <1>4 DEF StreamEnds, StreamFails
  <2>3. ctx' = [ctx EXCEPT ![c] = "freed"]
    BY <2>1 DEF OnStream
  <2>4. ASSUME NEW d \in Calls, chan'[d] # Nothing
        PROVE  ctx'[d] = "freed" /\ caller'[d] = "waiting"
    <3>1. chan'[d] = chan[d] \/ (d = c /\ Listening(c))
      BY <2>1 DEF OnStream, BrInv, Domains
    <3>2. QED
      BY <2>2, <2>3, <2>4, <3>1 DEF BrTypeOK, Listening
  <2>5. QED
    BY <1>1, <2>2, <2>3, <2>4 DEF BrTypeOK
<1>5. CASE StreamStarts(c)
  BY <1>1, <1>5 DEF StreamStarts, Still, Quiet, streamVars, BrTypeOK
<1>6. QED
  BY <1>2, <1>3, <1>4, <1>5, ModelEntries, SpeechEntries, AudioEntries DEF SwiftSide

LEMMA BrTypesStep ==
  ASSUME BrInv, BrTypeOK, [BrStep]_brVars
  PROVE  BrTypeOK'
<1>1. ASSUME NEW c \in Calls, NEW k \in Kinds, NEW i \in Inputs(k), Call(c, k, i)
      PROVE  BrTypeOK'
  <2>1. [kind |-> k, input |-> i] \in CallEntries
    BY BridgeAssumption DEF CallEntries, Inputs, FmKinds, SpeechKinds, AudioKinds
  <2>2. chan[c] = Nothing
    BY <1>1 DEF Call, BrInv, CallInv, Begun
  <2>3. UNCHANGED <<host, model, assets, chan, text, emptied, output>>
    BY <1>1 DEF Call, streamVars
  <2>4. entry' \in [Calls -> OptionOf(CallEntries)]
    BY <1>1, <2>1 DEF Call, BrTypeOK, OptionOf
  <2>5. /\ caller' \in [Calls -> {"idle", "waiting", "answered", "gone"}]
        /\ ctx' \in [Calls -> {"none", "leaked", "freed"}]
        /\ task' \in [Calls -> {"none", "running", "streaming", "installing", "exporting", "done"}]
        /\ \A d \in Calls \ {c} : ctx'[d] = ctx[d] /\ caller'[d] = caller[d]
    BY <1>1 DEF Call, BrTypeOK
  <2>6. QED
    BY <2>2, <2>3, <2>4, <2>5 DEF BrTypeOK
<1>2. ASSUME NEW c \in Calls, NEW s \in Snapshots, StreamSnapshot(c, s)
      PROVE  BrTypeOK'
  <2>1. PICK null \in BOOLEAN : OnStream(c, null, Delta(s, text[c]), 0)
    BY <1>2 DEF StreamSnapshot
  <2>2. UNCHANGED <<host, model, assets, entry, caller, task, output>>
    BY <1>2 DEF StreamSnapshot
  <2>3. text' \in [Calls -> Snapshots] /\ emptied' \in [Calls -> BOOLEAN]
    BY <1>2 DEF StreamSnapshot, BrTypeOK
  <2>4. ctx' \in [Calls -> {"none", "leaked", "freed"}] /\ \A d \in Calls : ctx[d] = "freed" => ctx'[d] = "freed"
    BY <2>1 DEF OnStream, BrTypeOK
  <2>5. ASSUME NEW d \in Calls, chan'[d] # Nothing, chan'[d] # chan[d]
        PROVE  d = c /\ Listening(c) /\ ctx'[c] = "freed"
    BY <2>1, <2>5 DEF OnStream, BrInv, Domains
  <2>6. QED
    BY <2>2, <2>3, <2>4, <2>5 DEF BrTypeOK, Listening
<1>3. ASSUME NEW c \in Calls, Receive(c) \/ Cancel(c)
      PROVE  BrTypeOK'
  <2>1. UNCHANGED <<host, model, assets, entry, ctx, task, text, emptied, output>>
    BY <1>3 DEF Receive, Cancel, streamVars
  <2>2. caller' \in [Calls -> {"idle", "waiting", "answered", "gone"}] /\ chan' = [chan EXCEPT ![c] = Nothing]
    BY <1>3 DEF Receive, Cancel, BrTypeOK
  <2>3. \A d \in Calls \ {c} : caller'[d] = caller[d] /\ chan'[d] = chan[d]
    BY <1>3 DEF Receive, Cancel, BrInv, Domains
  <2>4. QED
    BY <2>1, <2>2, <2>3 DEF BrTypeOK, BrInv, Domains
<1>4. ASSUME SystemChanges \/ UNCHANGED brVars
      PROVE  BrTypeOK'
  BY <1>4 DEF SystemChanges, brVars, streamVars, BrTypeOK
<1>5. QED
  BY <1>1, <1>2, <1>3, <1>4, SwiftTypes DEF BrStep

(* Calls of the bridge keep their shape, and an answer that waits in the     *)
(* channel waits for its caller, with its context freed already.             *)
THEOREM BridgeTypes == BrInit /\ [][BrStep]_brVars => []BrTypeOK
<1>1. BrInit => BrTypeOK
  BY BridgeAssumption DEF BrInit, BrTypeOK, OptionOf
<1>2. BrInv /\ [BrStep]_brVars => BrInv'
  BY BrStepKeeps
<1>3. BrInv /\ BrTypeOK /\ [BrStep]_brVars => BrTypeOK'
  BY BrTypesStep
<1>4. QED
  BY <1>1, <1>2, <1>3, BrInvInit, PTL

-----------------------------------------------------------------------------
(* Upkeep                                                                    *)

\* The tick under way: what the loop has read of the ages is of their type.
LoopTyped ==
  loop # Nothing =>
    \E todo, running : \E seen \in [TaskSet -> 0 .. MaxBackoff] : loop = [todo |-> todo, seen |-> seen, running |-> running]

LEMMA CapIsNumber == MaxBackoff \in Nat /\ MaxFails \in Nat
  BY UpkeepAssumption

LEMMA UpTypesStep ==
  ASSUME UpTypeOK, LoopTyped, [TaskStep \/ TableStep]_upVars
  PROVE  UpTypeOK' /\ LoopTyped'
<1> DEFINE Looping(l) == \E todo, running : \E seen \in [TaskSet -> 0 .. MaxBackoff] :
                            l = [todo |-> todo, seen |-> seen, running |-> running]
<1>1. \A l : Looping(l) => l.seen \in [TaskSet -> 0 .. MaxBackoff]
  OBVIOUS
<1>2. (loop' = Nothing \/ Looping(loop')) => LoopTyped' /\ (loop' # Nothing => loop'.seen \in [TaskSet -> 0 .. MaxBackoff])
  BY <1>1 DEF LoopTyped
<1>3. tables' \in [Rows -> OptionOf([target : ToSet(TargetNames), open : BOOLEAN, old : BOOLEAN])]
  <2>1. TablesTyped
    BY DEF UpTypeOK, TablesTyped, RowKind
  <2>2. TablesTyped'
    BY <2>1, TablesStayTyped
  <2>3. QED
    BY <2>2 DEF TablesTyped, RowKind
<1>4. \A t, ok : RecordRun(t, ok) => age' \in [TaskSet -> 0 .. MaxBackoff] /\ failures' \in [TaskSet -> 0 .. MaxFails]
  <2>1. \A n \in 0 .. MaxFails : Smaller(n + 1, MaxFails) \in 0 .. MaxFails
    BY CapIsNumber DEF Smaller
  <2>2. 0 \in 0 .. MaxBackoff /\ 0 \in 0 .. MaxFails
    BY CapIsNumber
  <2>3. ASSUME NEW t, NEW ok, RecordRun(t, ok)
        PROVE  age' \in [TaskSet -> 0 .. MaxBackoff] /\ failures' \in [TaskSet -> 0 .. MaxFails]
    <3>1. age' \in [TaskSet -> 0 .. MaxBackoff]
      BY <2>2, <2>3 DEF RecordRun, UpTypeOK
    <3>2. DEFINE n == IF ok THEN 0 ELSE Smaller(failures[t] + 1, MaxFails)
    <3>3. failures' = [failures EXCEPT ![t] = n]
      BY <2>3 DEF RecordRun
    <3>4. t \in TaskSet => n \in 0 .. MaxFails
      BY <2>1, <2>2 DEF UpTypeOK
    <3> HIDE DEF n
    <3>5. QED
      BY <3>1, <3>3, <3>4 DEF UpTypeOK
  <2>4. QED
    BY <2>3
<1>5. CASE TimePasses
  <2>1. age' \in [TaskSet -> 0 .. MaxBackoff]
    BY <1>5, CapIsNumber DEF TimePasses, Saturated, Smaller, UpTypeOK
  <2>2. UNCHANGED <<daemon, failures, loop, manual>>
    BY <1>5 DEF TimePasses
  <2>3. QED
    BY <1>2, <1>3, <2>1, <2>2 DEF UpTypeOK, LoopTyped
<1>6. CASE TickBegins
  <2>1. Looping(loop') /\ UNCHANGED <<daemon, age, failures, manual>>
    BY <1>6 DEF TickBegins, UpTypeOK
  <2>2. QED
    BY <1>2, <1>3, <2>1 DEF UpTypeOK
<1>7. CASE PassOver \/ StartTask
  <2>1. Looping(loop) /\ UNCHANGED <<daemon, age, failures, manual>>
    BY <1>7 DEF PassOver, StartTask, AtTask, LoopTyped
  <2>2. Looping(loop')
    BY <1>7, <2>1 DEF PassOver, StartTask
  <2>3. QED
    BY <1>2, <1>3, <2>1, <2>2 DEF UpTypeOK
<1>8. CASE TaskEnds
  <2>1. Looping(loop) /\ UNCHANGED <<daemon, manual>>
    BY <1>8 DEF TaskEnds, AtTask, LoopTyped
  <2>2. Looping(loop')
    <3>1. loop' = [loop EXCEPT !.todo = Tail(@), !.running = FALSE]
      BY <1>8 DEF TaskEnds
    <3>2. PICK todo, running : \E seen \in [TaskSet -> 0 .. MaxBackoff] :
            loop = [todo |-> todo, seen |-> seen, running |-> running]
      BY <2>1
    <3>3. PICK seen \in [TaskSet -> 0 .. MaxBackoff] : loop = [todo |-> todo, seen |-> seen, running |-> running]
      BY <3>2
    <3>4. loop' = [todo |-> Tail(todo), seen |-> seen, running |-> FALSE]
      BY <3>1, <3>3
    <3>5. QED
      BY <3>4
  <2>3. age' \in [TaskSet -> 0 .. MaxBackoff] /\ failures' \in [TaskSet -> 0 .. MaxFails]
    BY <1>4, <1>8 DEF TaskEnds, UpTypeOK
  <2>4. QED
    BY <1>2, <1>3, <2>1, <2>2, <2>3 DEF UpTypeOK
<1>9. CASE TickEnds \/ StopUpkeep
  BY <1>2, <1>3, <1>9 DEF TickEnds, StopUpkeep, UpTypeOK
<1>10. ASSUME NEW t \in TaskSet, ManualEnds(t)
       PROVE  UpTypeOK' /\ LoopTyped'
  <2>1. age' \in [TaskSet -> 0 .. MaxBackoff] /\ failures' \in [TaskSet -> 0 .. MaxFails]
    BY <1>4, <1>10 DEF ManualEnds
  <2>2. manual' \subseteq TaskSet /\ UNCHANGED daemon
    BY <1>10 DEF ManualEnds, UpTypeOK
  <2>3. loop' = Nothing \/ Looping(loop')
    <3>1. CASE loop = Nothing
      BY <1>10, <3>1 DEF ManualEnds
    <3>2. CASE loop # Nothing
      <4>1. PICK todo, running : \E seen \in [TaskSet -> 0 .. MaxBackoff] :
              loop = [todo |-> todo, seen |-> seen, running |-> running]
        BY <3>2 DEF LoopTyped
      <4> PICK seen \in [TaskSet -> 0 .. MaxBackoff] : loop = [todo |-> todo, seen |-> seen, running |-> running]
        BY <4>1
      <4>2. loop' = [todo |-> todo, seen |-> [seen EXCEPT ![t] = 0], running |-> running]
        BY <1>10, <3>2 DEF ManualEnds
      <4>3. [seen EXCEPT ![t] = 0] \in [TaskSet -> 0 .. MaxBackoff]
        BY CapIsNumber
      <4>4. QED
        BY <4>2, <4>3
    <3>3. QED
      BY <3>1, <3>2
  <2>4. QED
    BY <1>2, <1>3, <2>1, <2>2, <2>3 DEF UpTypeOK
<1>11. ASSUME \/ StartUpkeep \/ CleanStep \/ RowStep \/ UNCHANGED upVars
              \/ \E t \in TaskSet : BackgroundTaskRun(t) \/ ManualLost(t)
       PROVE  UpTypeOK' /\ LoopTyped'
  <2>1. UNCHANGED <<age, failures, loop>> /\ daemon' \in {"up", "down"} /\ manual' \subseteq TaskSet
    BY <1>11 DEF StartUpkeep, CleanStep, CleanRun, CleanTarget, RowStep, RowAppears, RowTurns, RowAges, RowTaken, upVars,
       BackgroundTaskRun, ManualLost, UpTypeOK
  <2>2. QED
    BY <1>2, <1>3, <2>1 DEF UpTypeOK, LoopTyped
<1>12. QED
  BY <1>5, <1>6, <1>7, <1>8, <1>9, <1>10, <1>11 DEF TaskStep, TableStep, LoopStep, ManualStep

(* Ages and failures stay within their bounds, rows stay rows of a table, and *)
(* the ages that a tick has read are ages.                                   *)
THEOREM UpkeepTypes == UpSpec => []UpTypeOK
<1>1. UpInit => UpTypeOK /\ LoopTyped
  BY CapIsNumber DEF UpInit, UpTypeOK, LoopTyped, OptionOf
<1>2. UpTypeOK /\ LoopTyped /\ [TaskStep \/ TableStep]_upVars => (UpTypeOK /\ LoopTyped)'
  BY UpTypesStep
<1>3. QED
  BY <1>1, <1>2, PTL DEF UpSpec
-----------------------------------------------------------------------------
(* Replay                                                                    *)

\* A row has the columns of a row, a verdict or none yet, and asks a book to
\* be read in one of the ways there are.
RowTyped(o) ==
  /\ o = [field |-> o.field, at |-> o.at, current |-> o.current, intent |-> o.intent, progress |-> o.progress]
  /\ o.progress \in {"pending", "done", "failed"}
  /\ o.field = "status" => o.intent \in ReadingStatuses
JournalTyped == \A i \in 1 .. Len(ops) : RowTyped(ops[i])
GivenVerdicts == {"done", "failed"}
\* What a request or a replay is about to mark its rows with is a verdict.
VerdictsTyped ==
  /\ \A p \in Patchers : patch[p] # Nothing => patch[p].verdict \in GivenVerdicts
  /\ redo # Nothing /\ redo.step = "mark" => redo.verdict \in GivenVerdicts
ColumnsTyped ==
  /\ up \in {"up", "down", "recovering"} /\ book.exists \in BOOLEAN
  /\ book.status \in ReadingStatuses /\ side.finished \in BOOLEAN
RpTypes == JournalTyped /\ VerdictsTyped /\ ColumnsTyped

LEMMA MadeRowTyped ==
  ASSUME NEW f, NEW at, NEW c, NEW v, f = "status" => v \in ReadingStatuses
  PROVE  RowTyped(Row(f, at, c, v))
<1>1. PICK r : r = [field |-> f, at |-> at, current |-> c, intent |-> v, progress |-> "pending"]
  OBVIOUS
<1>2. RowTyped(r)
  BY <1>1 DEF RowTyped
<1>3. QED
  BY <1>1, <1>2 DEF Row

LEMMA EditRowsTyped ==
  ASSUME NEW at, NEW edits
  PROVE  (\E T : EditRows(at, edits) \in Seq(T)) /\ \A i \in 1 .. Len(EditRows(at, edits)) : RowTyped(EditRows(at, edits)[i])
<1> DEFINE One(f) == EditRow(at, edits, f)
           Fine(s) == (\E T : s \in Seq(T)) /\ \A i \in 1 .. Len(s) : RowTyped(s[i])
<1>1. ASSUME NEW f \in {"name", "audible_id", "note"}
      PROVE  Fine(One(f))
  <2>1. CASE f \in DOMAIN edits
    <3>1. PICK r : r = Row(f, at, coll[at][f], edits[f])
      OBVIOUS
    <3>2. RowTyped(r)
      BY <3>1, MadeRowTyped
    <3>3. One(f) = <<r>>
      BY <2>1, <3>1 DEF EditRow
    <3>4. <<r>> \in Seq({r}) /\ Len(<<r>>) = 1 /\ <<r>>[1] = r
      OBVIOUS
    <3>5. \A i \in 1 .. Len(<<r>>) : RowTyped(<<r>>[i])
      BY <3>2, <3>4
    <3>6. QED
      BY <3>3, <3>4, <3>5
  <2>2. CASE f \notin DOMAIN edits
    <3>1. One(f) = <<>>
      BY <2>2 DEF EditRow
    <3>2. <<>> \in Seq({}) /\ Len(<<>>) = 0
      OBVIOUS
    <3>3. QED
      BY <3>1, <3>2
  <2>3. QED
    BY <2>1, <2>2
<1>2. ASSUME NEW s, NEW t, Fine(s), Fine(t)
      PROVE  Fine(s \o t)
  <2>1. \E T : s \o t \in Seq(T)
    BY <1>2, JournalJoins
  <2>2. ASSUME NEW i \in 1 .. Len(s \o t)
        PROVE  RowTyped((s \o t)[i])
    <3>1. Len(s) \in Nat /\ Len(t) \in Nat /\ Len(s \o t) = Len(s) + Len(t)
      BY <1>2, JournalJoins
    <3>2. CASE i \in 1 .. Len(s)
      <4>1. (s \o t)[i] = s[i]
        BY <1>2, <3>2, JournalJoins
      <4>2. QED
        BY <1>2, <3>2, <4>1
    <3>3. CASE i > Len(s)
      <4>1. (s \o t)[i] = t[i - Len(s)] /\ i - Len(s) \in 1 .. Len(t)
        BY <1>2, <2>2, <3>3, JournalJoins
      <4>2. QED
        BY <1>2, <4>1
    <3>4. QED
      BY <2>2, <3>1, <3>2, <3>3
  <2>3. QED
    BY <2>1, <2>2
<1>3. Fine(One("name")) /\ Fine(One("audible_id")) /\ Fine(One("note"))
  BY <1>1
<1> HIDE DEF Fine, One
<1>4. Fine((One("name") \o One("audible_id")) \o One("note"))
  BY <1>2, <1>3
<1>5. EditRows(at, edits) = (One("name") \o One("audible_id")) \o One("note")
  BY DEF EditRows, One
<1>6. Fine(EditRows(at, edits))
  BY <1>4, <1>5
<1>7. QED
  BY <1>6 DEF Fine

\* A step adds rows to the journal or gives a verdict on some.
LEMMA JournalTypedStep ==
  ASSUME RpInv, RpTypes, [RpStep]_rpVars
  PROVE  JournalTyped'
<1>1. \E T : ops \in Seq(T)
  BY DEF RpInv, JournalIsList
<1>2. ASSUME UNCHANGED ops
      PROVE  JournalTyped'
  BY <1>2 DEF RpTypes, JournalTyped
<1>3. ASSUME NEW r, RowTyped(r), ops' = Append(ops, r)
      PROVE  JournalTyped'
  <2>1. PICK s : s = ops
    OBVIOUS
  <2>2. \E T : s \in Seq(T)
    BY <1>1, <2>1
  <2>3. /\ (\E T : Append(s, r) \in Seq(T)) /\ Len(s) \in Nat
        /\ Len(Append(s, r)) = Len(s) + 1 /\ Append(s, r)[Len(s) + 1] = r
        /\ \A i \in 1 .. Len(s) : Append(s, r)[i] = s[i]
    BY <2>2, JournalGrows, Zenon
  <2>4. QED
    BY <1>3, <2>1, <2>3 DEF RpTypes, JournalTyped
<1>4. ASSUME NEW at, NEW edits, ops' = ops \o EditRows(at, edits)
      PROVE  JournalTyped'
  <2>1. PICK t : t = EditRows(at, edits)
    OBVIOUS
  <2>2. (\E T : t \in Seq(T)) /\ \A i \in 1 .. Len(t) : RowTyped(t[i])
    BY <2>1, EditRowsTyped
  <2>3. /\ Len(ops) \in Nat /\ \A i \in 1 .. Len(ops) : (ops \o t)[i] = ops[i]
        /\ \A i \in 1 .. Len(ops \o t) : i > Len(ops) => (ops \o t)[i] = t[i - Len(ops)] /\ i - Len(ops) \in 1 .. Len(t)
        /\ Len(t) \in Nat /\ Len(ops \o t) = Len(ops) + Len(t)
    BY <1>1, <2>2, JournalJoins
  <2>4. ASSUME NEW i \in 1 .. Len(ops \o t)
        PROVE  RowTyped((ops \o t)[i])
    <3>1. i \in 1 .. Len(ops) \/ i > Len(ops)
      BY <2>3
    <3>2. QED
      BY <2>2, <2>3, <3>1 DEF RpTypes, JournalTyped
  <2>5. QED
    BY <1>4, <2>1, <2>4 DEF JournalTyped
<1>5. ASSUME NEW S, NEW v \in GivenVerdicts, ops' = Marked(S, v)
      PROVE  JournalTyped'
  <2>1. DOMAIN ops = 1 .. Len(ops) /\ Len(ops) \in Nat
    BY <1>1
  <2>2. Len(ops') = Len(ops)
    BY <1>5, MarkKeeps DEF RpInv
  <2>3. ASSUME NEW i \in 1 .. Len(ops)
        PROVE  RowTyped(ops'[i])
    <3>1. PICK o : o = ops[i]
      OBVIOUS
    <3>2. RowTyped(o)
      BY <3>1 DEF RpTypes, JournalTyped
    <3>3. ops'[i] = o \/ ops'[i] = [o EXCEPT !.progress = v]
      BY <1>5, <2>1, <3>1 DEF Marked
    <3>4. CASE ops'[i] = [o EXCEPT !.progress = v]
      <4>1. PICK n : n = [field |-> o.field, at |-> o.at, current |-> o.current, intent |-> o.intent, progress |-> v]
        OBVIOUS
      <4>2. ops'[i] = n
        BY <3>2, <3>4, <4>1 DEF RowTyped
      <4>3. RowTyped(n)
        BY <3>2, <4>1 DEF RowTyped, GivenVerdicts
      <4>4. QED
        BY <4>2, <4>3
    <3>5. QED
      BY <3>2, <3>3, <3>4
  <2>4. QED
    BY <2>2, <2>3 DEF JournalTyped
<1>6. ASSUME NEW p \in Patchers, NEW e \in BookEdits, BookRecords(p, e)
      PROVE  JournalTyped'
  <2>1. PICK r : r = Row(e.field, 0, book[e.field], e.value)
    OBVIOUS
  <2>2. RowTyped(r)
    BY <2>1, MadeRowTyped, ReplayAssumption
  <2>3. QED
    BY <1>3, <1>6, <2>1, <2>2 DEF BookRecords
<1>7. ASSUME NEW p \in Patchers, CreateRecords(p)
      PROVE  JournalTyped'
  <2>1. PICK r : r = Row("create", patch[p].at, Nothing, coll[patch[p].at])
    OBVIOUS
  <2>2. RowTyped(r)
    BY <2>1, MadeRowTyped
  <2>3. QED
    BY <1>2, <1>3, <1>7, <2>1, <2>2 DEF CreateRecords
<1>8. ASSUME NEW p \in Patchers, Settle(p)
      PROVE  JournalTyped'
  <2>1. patch[p].verdict \in GivenVerdicts
    BY <1>8 DEF Settle, Does, RpTypes, VerdictsTyped
  <2>2. QED
    BY <1>2, <1>5, <1>8, <2>1 DEF Settle
<1>9. ASSUME ReplayMarks
      PROVE  JournalTyped'
  <2>1. redo.verdict \in GivenVerdicts
    BY <1>9 DEF ReplayMarks, Redoing, RpTypes, VerdictsTyped
  <2>2. QED
    BY <1>2, <1>5, <1>9, <2>1 DEF ReplayMarks
<1>10. ASSUME NEW p \in Patchers, NEW at \in CollIds, NEW edits \in CollEdits, CollRecords(p, at, edits)
       PROVE  JournalTyped'
  BY <1>4, <1>10 DEF CollRecords
<1>11. ASSUME \/ \E p \in Patchers : BookPatches(p) \/ CollPatches(p) \/ \E c \in NewColls : CreateInserts(p, c)
              \/ \E i \in DOMAIN ops : Retry(i)
              \/ BookGoes \/ ReplayReads \/ ReplayWrites \/ Crash \/ Recover \/ UNCHANGED rpVars
       PROVE  JournalTyped'
  <2>1. UNCHANGED ops
    BY <1>11 DEF BookPatches, CollPatches, CreateInserts, Retry, BookGoes, ReplayReads, ReplayWrites, Crash,
       Recover, rpVars
  <2>2. QED
    BY <1>2, <2>1
<1>12. QED
  BY <1>6, <1>7, <1>8, <1>9, <1>10, <1>11 DEF RpStep

LEMMA VerdictsTypedStep ==
  ASSUME RpInv, RpTypes, [RpStep]_rpVars
  PROVE  VerdictsTyped'
<1> DEFINE Patched == \A p \in Patchers : patch[p] # Nothing => patch[p].verdict \in GivenVerdicts
           Redone == redo # Nothing /\ redo.step = "mark" => redo.verdict \in GivenVerdicts
<1>1. Patched /\ Redone /\ DOMAIN patch = Patchers
  BY DEF RpTypes, VerdictsTyped, RpInv, RequestsPlaced
<1>2. ASSUME UNCHANGED redo \/ redo' = Nothing
      PROVE  Redone'
  BY <1>1, <1>2
<1>3. ASSUME UNCHANGED patch
      PROVE  Patched'
  BY <1>1, <1>3
<1>4. ASSUME NEW p \in Patchers, NEW r, patch' = [patch EXCEPT ![p] = r], r # Nothing => r.verdict \in GivenVerdicts
      PROVE  Patched'
  BY <1>1, <1>4
<1>5. ASSUME NEW i, NEW todo, redo' = Taking(i, todo)
      PROVE  Redone'
  BY <1>5 DEF Taking
<1>6. ASSUME NEW p \in Patchers,
             \/ \E e \in BookEdits : BookRecords(p, e)
             \/ \E at \in CollIds, edits \in CollEdits : CollRecords(p, at, edits)
             \/ \E c \in NewColls : CreateInserts(p, c)
             \/ Settle(p)
      PROVE  Patched' /\ Redone'
  <2>1. UNCHANGED redo
    BY <1>6 DEF BookRecords, CollRecords, CreateInserts, Settle
  <2>2. \E r : patch' = [patch EXCEPT ![p] = r] /\ (r # Nothing => r.verdict \in GivenVerdicts)
    <3>1. CASE \E e \in BookEdits : BookRecords(p, e)
      <4>1. PICK r : r = [step |-> "book", mine |-> {Len(ops) + 1}, at |-> 0, verdict |-> "done"]
        OBVIOUS
      <4>2. patch' = [patch EXCEPT ![p] = r] /\ r.verdict = "done"
        BY <3>1, <4>1 DEF BookRecords
      <4>3. QED
        BY <4>2 DEF GivenVerdicts
    <3>2. CASE \E at \in CollIds, edits \in CollEdits : CollRecords(p, at, edits)
      <4>1. PICK m, at : patch' = [patch EXCEPT ![p] = [step |-> "collection", at |-> at, verdict |-> "done", mine |-> m]]
        BY <3>2 DEF CollRecords
      <4>2. PICK r : r = [step |-> "collection", at |-> at, verdict |-> "done", mine |-> m]
        OBVIOUS
      <4>3. patch' = [patch EXCEPT ![p] = r] /\ r.verdict = "done"
        BY <4>1, <4>2
      <4>4. QED
        BY <4>3 DEF GivenVerdicts
    <3>3. CASE \E c \in NewColls : CreateInserts(p, c)
      BY <3>3 DEF CreateInserts, GivenVerdicts
    <3>4. CASE Settle(p)
      BY <3>4 DEF Settle
    <3>5. QED
      BY <1>6, <3>1, <3>2, <3>3, <3>4
  <2>3. QED
    BY <1>2, <1>4, <2>1, <2>2
<1>7. ASSUME NEW p \in Patchers, BookPatches(p) \/ CollPatches(p) \/ CreateRecords(p)
      PROVE  Patched' /\ Redone'
  <2>1. UNCHANGED redo
    BY <1>7 DEF BookPatches, CollPatches, CreateRecords
  <2>2. PICK r : r = patch[p]
    OBVIOUS
  <2>3. /\ r = [step |-> r.step, mine |-> r.mine, at |-> r.at, verdict |-> r.verdict] /\ r.verdict \in GivenVerdicts
    BY <1>1, <1>7, <2>2 DEF BookPatches, CollPatches, CreateRecords, Does, RpInv, RequestsPlaced, RequestAt
  <2>4. CASE BookPatches(p)
    <3>1. \E x : patch' = [patch EXCEPT ![p] = x]
            /\ (x = Nothing \/ x = [r EXCEPT !.step = "settle", !.verdict = IF book.exists THEN "done" ELSE "failed"])
      BY <1>1, <2>2, <2>4 DEF BookPatches
    <3>2. [r EXCEPT !.step = "settle", !.verdict = IF book.exists THEN "done" ELSE "failed"].verdict \in GivenVerdicts
      BY <2>3 DEF GivenVerdicts
    <3>3. QED
      BY <1>2, <1>4, <2>1, <3>1, <3>2
  <2>5. CASE CollPatches(p)
    <3>1. PICK v \in GivenVerdicts : patch' = [patch EXCEPT ![p].step = "settle", ![p].verdict = v]
      BY <2>5 DEF CollPatches, GivenVerdicts
    <3>2. patch' = [patch EXCEPT ![p] = [r EXCEPT !.step = "settle", !.verdict = v]]
      BY <1>1, <2>2, <3>1, Zenon
    <3>3. [r EXCEPT !.step = "settle", !.verdict = v].verdict \in GivenVerdicts
      BY <2>3
    <3>4. QED
      BY <1>2, <1>4, <2>1, <3>2, <3>3
  <2>6. CASE CreateRecords(p)
    <3>1. \E m : patch' = [patch EXCEPT ![p].step = "settle", ![p].mine = m] \/ patch' = [patch EXCEPT ![p] = Nothing]
      BY <2>6 DEF CreateRecords
    <3>2. PICK m : patch' = [patch EXCEPT ![p] = [r EXCEPT !.step = "settle", !.mine = m]] \/ patch' = [patch EXCEPT ![p] = Nothing]
      BY <1>1, <2>2, <3>1, Zenon
    <3>3. [r EXCEPT !.step = "settle", !.mine = m].verdict \in GivenVerdicts
      BY <2>3
    <3>4. QED
      BY <1>2, <1>4, <2>1, <3>2, <3>3
  <2>7. QED
    BY <1>7, <2>4, <2>5, <2>6
<1>8. ASSUME ReplayReads \/ ReplayWrites
      PROVE  Patched' /\ Redone'
  <2>1. UNCHANGED patch
    BY <1>8 DEF ReplayReads, ReplayWrites
  <2>2. redo = [step |-> redo.step, op |-> redo.op, todo |-> redo.todo, verdict |-> redo.verdict]
    BY <1>8 DEF ReplayReads, ReplayWrites, Redoing, RpInv, RedoPlaced, RedoAt
  <2>3. CASE ReplayReads
    <3>1. PICK d : redo' = [redo EXCEPT !.step = IF d = "write" THEN "write" ELSE "mark", !.verdict = d]
                   /\ d = Decision(ops[redo.op])
      BY <2>3 DEF ReplayReads
    <3>2. d \in GivenVerdicts \cup {"write"}
      BY <3>1 DEF Decision, CreateDecision, FieldDecision, GivenVerdicts
    <3>3. QED
      BY <1>3, <2>1, <2>2, <3>1, <3>2
  <2>4. CASE ReplayWrites
    <3>1. ReplayDone \/ ReplayErrs
      BY <2>4 DEF ReplayWrites, ReplayBook, ReplayColl, ReplayCreate
    <3>2. QED
      BY <1>3, <2>1, <2>2, <3>1 DEF ReplayDone, ReplayErrs, GivenVerdicts
  <2>5. QED
    BY <1>8, <2>3, <2>4
<1>9. ASSUME ReplayMarks \/ Recover \/ (\E i \in DOMAIN ops : Retry(i))
      PROVE  Patched' /\ Redone'
  <2>1. UNCHANGED patch
    BY <1>9 DEF ReplayMarks, Recover, Retry
  <2>2. redo' = Nothing \/ UNCHANGED redo \/ \E i, todo : redo' = Taking(i, todo)
    BY <1>9 DEF ReplayMarks, NextRow, Recover, Retry
  <2>3. QED
    BY <1>2, <1>3, <1>5, <2>1, <2>2
<1>10. ASSUME BookGoes \/ Crash \/ UNCHANGED rpVars
       PROVE  Patched' /\ Redone'
  BY <1>1, <1>10 DEF BookGoes, Crash, rpVars
<1>11. QED
  BY <1>6, <1>7, <1>8, <1>9, <1>10 DEF RpStep, VerdictsTyped

LEMMA ColumnsTypedStep ==
  ASSUME RpInv, RpTypes, [RpStep]_rpVars
  PROVE  ColumnsTyped'
<1>1. up' \in {"up", "down", "recovering"}
  BY DEF RpTypes, ColumnsTyped, RpStep, BookRecords, CollRecords, CreateInserts, BookPatches, CollPatches, CreateRecords,
     Settle, Retry, BookGoes, ReplayReads, ReplayWrites, ReplayMarks, NextRow, Crash, Recover, rpVars
<1>2. ASSUME UNCHANGED <<book, side>>
      PROVE  ColumnsTyped'
  BY <1>1, <1>2 DEF RpTypes, ColumnsTyped
<1>3. ASSUME NEW o, RowTyped(o), BookWrites(o.field, o.intent)
      PROVE  ColumnsTyped'
  <2>1. /\ book = [exists |-> book.exists, title |-> book.title, status |-> book.status, rating |-> book.rating]
        /\ side = [edit |-> side.edit, finished |-> side.finished]
    BY DEF RpInv, BookFollowed
  <2>2. book.exists \in BOOLEAN /\ book.status \in ReadingStatuses /\ side.finished \in BOOLEAN
    BY DEF RpTypes, ColumnsTyped
  <2>3. PICK v : v = o.intent
    OBVIOUS
  <2>4. CASE o.field = "title" /\ TitleWrites(v)
    BY <1>1, <2>1, <2>2, <2>4 DEF TitleWrites, ColumnsTyped
  <2>5. CASE o.field = "rating" /\ RatingWrites(v)
    BY <1>1, <2>1, <2>2, <2>5 DEF RatingWrites, ColumnsTyped
  <2>6. CASE o.field = "status" /\ StatusWrites(v)
    <3>1. v \in ReadingStatuses
      BY <1>3, <2>3, <2>6 DEF RowTyped
    <3>2. book'.exists = book.exists /\ book'.status = v
      BY <2>1, <2>6 DEF StatusWrites
    <3>3. PICK f \in BOOLEAN : side' = [side EXCEPT !.finished = f]
      BY <2>6, Zenon DEF StatusWrites
    <3>4. side'.finished = f
      BY <2>1, <3>3
    <3>5. QED
      BY <1>1, <2>2, <3>1, <3>2, <3>4 DEF ColumnsTyped
  <2>7. QED
    BY <1>3, <2>3, <2>4, <2>5, <2>6 DEF BookWrites
<1>4. ASSUME NEW p \in Patchers, BookPatches(p)
      PROVE  ColumnsTyped'
  <2>1. PICK i : i = CHOOSE j \in patch[p].mine : TRUE
    OBVIOUS
  <2>2. IF book.exists THEN BookWrites(ops[i].field, ops[i].intent) ELSE UNCHANGED <<book, side>>
    BY <1>4, <2>1 DEF BookPatches
  <2>3. RequestAt(patch[p]) /\ patch[p].step = "book"
    BY <1>4 DEF BookPatches, Does, RpInv, RequestsPlaced
  <2>4. i \in patch[p].mine /\ patch[p].mine \subseteq 1 .. Len(ops)
    BY <2>1, <2>3 DEF RequestAt
  <2>5. RowTyped(ops[i])
    BY <2>4 DEF RpTypes, JournalTyped
  <2>6. QED
    BY <1>2, <1>3, <2>2, <2>5
<1>5. ASSUME ReplayWrites
      PROVE  ColumnsTyped'
  <2>1. RowTyped(ops[redo.op])
    BY <1>5 DEF ReplayWrites, Redoing, RpInv, RedoPlaced, RedoAt, RpTypes, JournalTyped
  <2>2. \/ UNCHANGED <<book, side>>
        \/ BookWrites(ops[redo.op].field, ops[redo.op].intent)
    BY <1>5 DEF ReplayWrites, ReplayBook, ReplayColl, ReplayCreate
  <2>3. QED
    BY <1>2, <1>3, <2>1, <2>2
<1>6. ASSUME BookGoes
      PROVE  ColumnsTyped'
  <2>1. /\ book = [exists |-> book.exists, title |-> book.title, status |-> book.status, rating |-> book.rating]
    BY DEF RpInv, BookFollowed
  <2>2. book'.exists = FALSE /\ book'.status = book.status /\ side'.finished = FALSE
    BY <1>6, <2>1 DEF BookGoes
  <2>3. QED
    BY <1>1, <2>2 DEF RpTypes, ColumnsTyped
<1>7. ASSUME NEW p \in Patchers,
             \/ \E e \in BookEdits : BookRecords(p, e)
             \/ \E at \in CollIds, edits \in CollEdits : CollRecords(p, at, edits)
             \/ \E c \in NewColls : CreateInserts(p, c)
             \/ CollPatches(p) \/ CreateRecords(p) \/ Settle(p)
      PROVE  ColumnsTyped'
  <2>1. UNCHANGED <<book, side>>
    BY <1>7 DEF BookRecords, CollRecords, CreateInserts, CollPatches, CreateRecords, Settle
  <2>2. QED
    BY <1>2, <2>1
<1>8. ASSUME (\E i \in DOMAIN ops : Retry(i)) \/ ReplayReads \/ ReplayMarks \/ Crash \/ Recover \/ UNCHANGED rpVars
      PROVE  ColumnsTyped'
  <2>1. UNCHANGED <<book, side>>
    BY <1>8 DEF Retry, ReplayReads, ReplayMarks, Crash, Recover, rpVars
  <2>2. QED
    BY <1>2, <2>1
<1>9. QED
  BY <1>4, <1>5, <1>6, <1>7, <1>8, Zenon DEF RpStep

(* Rows of the journal keep their verdicts, books and collections the values *)
(* of their columns, and a request marks rows that there are.                *)
THEOREM ReplayTypes == RpSpec => []RpTypeOK
<1>1. RpInit => RpTypes
  <2> SUFFICES ASSUME RpInit
                 PROVE  RpTypes
    OBVIOUS
  <2>2. JournalTyped
    BY DEF RpInit, JournalTyped
  <2>3. VerdictsTyped /\ ColumnsTyped
    BY DEF RpInit, VerdictsTyped, ColumnsTyped, ReadingStatuses
  <2>4. QED
    BY <2>2, <2>3 DEF RpTypes
<1>2. RpInv /\ RpTypes /\ [RpStep]_rpVars => RpTypes'
  BY JournalTypedStep, VerdictsTypedStep, ColumnsTypedStep DEF RpTypes
<1>3. RpInv /\ RpTypes => RpTypeOK
  <2> SUFFICES ASSUME RpInv, RpTypes
                 PROVE  RpTypeOK
    OBVIOUS
  <2>2. DOMAIN ops = 1 .. Len(ops)
    BY DEF RpInv, JournalIsList
  <2>3. \A i \in DOMAIN ops : ops[i].progress \in {"pending", "done", "failed"}
    BY <2>2 DEF RpTypes, JournalTyped, RowTyped
  <2>4. \A p \in Patchers : patch[p] # Nothing => patch[p].mine \subseteq DOMAIN ops
    BY <2>2 DEF RpInv, RequestsPlaced, RequestAt
  <2>5. QED
    BY <2>3, <2>4 DEF RpTypes, ColumnsTyped, RpTypeOK
<1>4. RpInit => RpInv
  BY RpStarts
<1>5. RpInv /\ [RpStep]_rpVars => RpInv'
  BY ReplayStepKeeps
<1>6. QED
  BY <1>1, <1>2, <1>3, <1>4, <1>5, PTL DEF RpSpec

-----------------------------------------------------------------------------
(* --- Types of Doctor ----------------------------------------------------- *)

MachineTyped ==
  machine \in [library : DbStates, ephemeral : DbStates, llm : {"available", "unavailable", "unreachable"},
               speech : {"installed", "supported", "unreachable"}, covers : {"writable", "refused"}]
AskedTyped ==
  table \in Tables \cup {"machine"} /\ binned \subseteq Books /\ remedied \in OptionOf(CheckNames) /\ MachineTyped

\* Each check answers with one of the three verdicts.
LEMMA ChecksAnswer ==
  ASSUME MachineTyped
  PROVE  DoctorAll \in [CheckNames -> {"ok", "warning", "failure"}]
<1> DEFINE Verdicts == {"ok", "warning", "failure"}
<1>1. \A db, good : Asking(db, OkIf(good)) \in Verdicts
  BY DEF Asking, OkIf
<1>2. LlmCheck \in Verdicts /\ SpeechCheck \in Verdicts /\ DbIntegrityCheck \in Verdicts
        /\ CoverCacheWritableCheck \in Verdicts
  BY DEF LlmCheck, SpeechCheck, DbIntegrityCheck, CoverCacheWritableCheck, MachineTyped
<1>3. /\ JournalCheck \in Verdicts /\ FailedOpsCheck \in Verdicts /\ PendingWithoutReplayerCheck \in Verdicts
      /\ OrphanCompanionsCheck \in Verdicts /\ LibraryRootsReachableCheck \in Verdicts
      /\ DiskPressureCheck \in Verdicts /\ AiCacheSizeCheck \in Verdicts
  BY <1>1, Zenon DEF JournalCheck, FailedOpsCheck, PendingWithoutReplayerCheck, OrphanCompanionsCheck,
     LibraryRootsReachableCheck, DiskPressureCheck, AiCacheSizeCheck
<1>4. /\ StaleAsinLearningsCheck \in Verdicts /\ TokensUnusedCheck \in Verdicts
      /\ PairingCodesStaleCheck \in Verdicts /\ ProvenanceWinnerConflictCheck \in Verdicts
      /\ ProvenanceStaleStagesCheck \in Verdicts /\ EmptyCollectionsCheck \in Verdicts
      /\ OrphanCollectionMembersCheck \in Verdicts /\ CollectionsDuplicateAudibleIdCheck \in Verdicts
  BY <1>1, Zenon DEF StaleAsinLearningsCheck, TokensUnusedCheck, PairingCodesStaleCheck,
     ProvenanceWinnerConflictCheck, ProvenanceStaleStagesCheck, EmptyCollectionsCheck,
     OrphanCollectionMembersCheck, CollectionsDuplicateAudibleIdCheck
<1> HIDE DEF Verdicts
<1>5. \A name \in CheckNames : DoctorOne(name) \in Verdicts
  BY <1>2, <1>3, <1>4, Zenon DEF DoctorOne
<1>6. QED
  BY <1>5, Zenon DEF DoctorAll, Verdicts

LEMMA MachineKeeps ==
  ASSUME MachineTyped, MachineChanges
  PROVE  MachineTyped'
<1>1. ASSUME NEW db \in {"library", "ephemeral"}, NEW s \in DbStates, machine' = [machine EXCEPT ![db] = s]
      PROVE  MachineTyped'
  <2>1. machine' = [machine EXCEPT !.library = s] \/ machine' = [machine EXCEPT !.ephemeral = s]
    BY <1>1
  <2>2. QED
    BY <2>1 DEF MachineTyped
<1>2. QED
  BY <1>1 DEF MachineChanges, MachineTyped

(* The doctor's rows keep the shape of their table, its remedies name checks, *)
(* and every check gives one of the three verdicts.                          *)
THEOREM DoctorTypes == DoSpec => []DoTypeOK
<1>1. DoInit => AskedTyped
  BY DEF DoInit, AskedTyped, MachineTyped, OptionOf, DbStates
<1>2. ASSUME DoInv, AskedTyped, [DoStep]_doVars
      PROVE  DoInv' /\ AskedTyped'
  <2>1. CASE \E r \in Records : RowComes(r) \/ RowChanges(r) \/ LibraryRootsCreate(r)
    BY <1>2, <2>1, RowsKeep DEF RowComes, RowChanges, LibraryRootsCreate, AskedTyped, MachineTyped, OptionOf
  <2>2. CASE \E b \in Books : BookHidden(b)
    BY <1>2, <2>2, AroundKeeps DEF BookHidden, AskedTyped, MachineTyped, OptionOf
  <2>3. CASE MachineChanges
    BY <1>2, <2>3, AroundKeeps, MachineKeeps DEF MachineChanges, AskedTyped, OptionOf
  <2>4. CASE UNCHANGED doVars
    BY <1>2, <2>4, AroundKeeps DEF doVars, AskedTyped, MachineTyped
  <2>5. ASSUME NEW name \in OptionOf(CheckNames), NEW t, Remedy(name, t), binned' \subseteq Books
        PROVE  AskedTyped'
    BY <1>2, <2>5 DEF Remedy, AskedTyped, MachineTyped
  <2>6. CASE \E name \in {"journal", "pending-without-replayer"} : RestartDaemon(name)
    <3>1. PICK name \in {"journal", "pending-without-replayer"} : RestartDaemon(name)
      BY <2>6
    <3>2. Remedy(name, "operation_journal") /\ binned' = binned /\ name \in OptionOf(CheckNames)
      BY <3>1 DEF RestartDaemon, OptionOf, CheckNames
    <3>3. QED
      BY <1>2, <2>5, <3>1, <3>2, RestartClears DEF AskedTyped
  <2>7. CASE LibraryRootsDelete \/ SpaceFreed
    <3>1. {"library-roots-reachable", "disk-pressure"} \subseteq OptionOf(CheckNames) /\ binned' = binned
      BY <2>7 DEF LibraryRootsDelete, SpaceFreed, OptionOf, CheckNames
    <3>2. \E name \in OptionOf(CheckNames), t \in Tables : Remedy(name, t)
      BY <2>7, <3>1 DEF LibraryRootsDelete, SpaceFreed, Tables
    <3>3. QED
      BY <1>2, <2>5, <2>7, <3>1, <3>2, RootsClear DEF AskedTyped
  <2>8. CASE TokensRevoked
    <3>1. Remedy("tokens-unused", "tokens") /\ "tokens-unused" \in OptionOf(CheckNames) /\ binned' = binned
      BY <2>8 DEF TokensRevoked, OptionOf, CheckNames
    <3>2. QED
      BY <1>2, <2>5, <2>8, <3>1, TokensClear DEF AskedTyped
  <2>9. CASE CleanQueue
    <3>1. /\ Remedy("pairing-codes-stale", "pairing_codes") /\ "pairing-codes-stale" \in OptionOf(CheckNames)
          /\ binned' = binned
      BY <2>9 DEF CleanQueue, OptionOf, CheckNames
    <3>2. QED
      BY <1>2, <2>5, <2>9, <3>1, CodesClear DEF AskedTyped
  <2>10. CASE RowsDeleted
    <3>1. {"stale-asin-learnings", "provenance-stale-stages"} \subseteq OptionOf(CheckNames) /\ binned' = binned
      BY <2>10 DEF RowsDeleted, OptionOf, CheckNames
    <3>2. \E name \in OptionOf(CheckNames), t \in Tables : Remedy(name, t)
      BY <2>10, <3>1 DEF RowsDeleted, Tables
    <3>3. QED
      BY <1>2, <2>5, <2>10, <3>1, <3>2, DeletedClear DEF AskedTyped
  <2>11. CASE EmptyDeleted
    <3>1. "empty-collections" \in OptionOf(CheckNames) /\ Nothing \in OptionOf(CheckNames) /\ binned' = binned
      BY <2>11 DEF EmptyDeleted, OptionOf, CheckNames
    <3>2. \E name \in OptionOf(CheckNames) : Remedy(name, "book_collections")
      BY <2>11, <3>1 DEF EmptyDeleted
    <3>3. QED
      BY <1>2, <2>5, <2>11, <3>1, <3>2, CollectionsClear DEF AskedTyped
  <2>12. CASE MembersCured
    <3>1. /\ Remedy("orphan-collection-members", "book_collections")
          /\ "orphan-collection-members" \in OptionOf(CheckNames) /\ (binned' = binned \/ binned' = {})
      BY <2>12 DEF MembersCured, OptionOf, CheckNames
    <3>2. QED
      BY <1>2, <2>5, <2>12, <3>1, MembersClear DEF AskedTyped
  <2>13. QED
    BY <1>2, <2>1, <2>2, <2>3, <2>4, <2>6, <2>7, <2>8, <2>9, <2>10, <2>11, <2>12 DEF DoStep
<1>3. DoInv /\ AskedTyped => DoTypeOK
  BY ChecksAnswer DEF DoTypeOK, DoInv, RowsTyped, AskedTyped
<1>4. QED
  BY <1>1, <1>2, <1>3, DoctorInit, PTL DEF DoSpec

-----------------------------------------------------------------------------
(* --- Types of Companions ------------------------------------------------- *)

NearbyTyped == nearby \in [Files -> SUBSET Books]

(* Companions keep their rows, their pairs and their near books in shape, and *)
(* no counter that stayed with its file exceeds the number of companions.    *)
THEOREM CompanionTypes == CoSpec => []CoTypeOK
<1>1. CoInit => NearbyTyped
  BY DEF CoInit, NearbyTyped
<1>2. ASSUME CoInv, NearbyTyped, [CoStep]_coVars
      PROVE  CoInv' /\ NearbyTyped'
  <2>1. CoInv'
    BY <1>2, NoteKeeps, PairKeeps, ClearKeeps, ReadKeeps, DictKeeps, ElsewhereKeepsCounts DEF CoStep
  <2>2. CASE PairOne
    <3>1. AutoPair(scanning.at, scanning.candidates) \subseteq Books
      BY DEF AutoPair
    <3>2. \/ \E b \in Books : SetPair(scanning.at, b)
          \/ ReplaceNearby(scanning.at, AutoPair(scanning.at, scanning.candidates))
          \/ nearby' = nearby
      BY <2>2, <3>1 DEF PairOne
    <3>3. QED
      BY <1>2, <2>1, <3>1, <3>2 DEF SetPair, ReplaceNearby, NearbyTyped
  <2>3. CASE nearby' = nearby
    BY <1>2, <2>1, <2>3 DEF NearbyTyped
  <2>4. QED
    BY <1>2, <2>1, <2>2, <2>3 DEF CoStep, DiskTurns, PersistOne, ClearPair, AudioTurns, ReadEpub,
       WriteNameDict, ScanBegins, ScanStops, coVars
<1>3. ASSUME CoInv, NearbyTyped
      PROVE  CoTypeOK
  <2>1. \A a \in steady : counts[a] <= Cardinality(Files)
    <3> SUFFICES ASSUME NEW a \in steady
                 PROVE  counts[a] <= Cardinality(Files)
      OBVIOUS
    <3>1. counts[a] = Cardinality(PairedWith(AudioFiles[a].book))
      BY <1>3 DEF CoInv, CountsKept
    <3>2. QED
      BY <3>1, FS_Subset, CompanionsAssumption DEF PairedWith
  <2>2. QED
    BY <1>3, <2>1 DEF CoInv, RowsAreThere, NearbyTyped, CoTypeOK
<1>4. QED
  BY <1>1, <1>2, <1>3, CompanionsInit, PTL DEF CoSpec

-----------------------------------------------------------------------------
(* --- Types and covers of Shelf ------------------------------------------- *)

LEMMA ItemFiles ==
  ASSUME NEW b
  PROVE  /\ IsFiniteSet(ActiveFiles(b)) /\ ActiveFiles(b) \subseteq FileIds /\ ActiveFiles(b) \subseteq Int
         /\ GetItem(b) \in Seq(ActiveFiles(b)) /\ Len(GetItem(b)) = Cardinality(ActiveFiles(b))
         /\ ToSet(GetItem(b)) = ActiveFiles(b)
         /\ \A i, j \in 1 .. Cardinality(ActiveFiles(b)) : i < j => GetItem(b)[i] < GetItem(b)[j]
<1>1. IsFiniteSet(ActiveFiles(b)) /\ ActiveFiles(b) \subseteq FileIds /\ ActiveFiles(b) \subseteq Int
  <2>1. FileIds \subseteq Nat /\ IsFiniteSet(FileIds)
    BY ShelfAssumption
  <2>2. ActiveFiles(b) \subseteq FileIds
    BY DEF ActiveFiles
  <2>3. IsFiniteSet(ActiveFiles(b))
    BY <2>1, <2>2, FS_Subset
  <2>4. \A n \in ActiveFiles(b) : n \in Int
    <3>1. \A n \in ActiveFiles(b) : n \in Nat
      BY <2>1, <2>2, Zenon
    <3>2. QED
      BY <3>1
  <2>5. QED
    BY <2>2, <2>3, <2>4, Zenon
<1>2. QED
  BY <1>1, NumbersInOrder DEF GetItem

\* What the player holds.
PlayerTyped ==
  /\ ToSet(known) \subseteq FileIds /\ rewrites \in 0 .. MaxRewrites /\ even \in BOOLEAN
  /\ playing # Nothing => playing.total \in OptionOf(Lengths)

LEMMA TotalTyped ==
  ASSUME ShTypes, NEW f \in FileIds, onDisk[f] # Nothing
  PROVE  TotalOf(f) \in Lengths
  BY DEF ShTypes, OptionOf, Contents, TotalOf

(* The files of a book, the player's list and what it plays stay files, and  *)
(* the total it is told is the length of a file.                             *)
THEOREM ShelfTypes == ShSpec => []ShTypeOK
<1>1. ShInit => PlayerTyped
  BY ShelfAssumption DEF ShInit, PlayerTyped, ToSet
<1>2. ASSUME ShInv, [ShStep]_shVars
      PROVE  ShInv'
  BY <1>2, PlayOnKeeps, WorldKeeps, ClientKeeps DEF ShStep
<1>3. ASSUME ShInv, PlayerTyped, [ShStep]_shVars
      PROVE  PlayerTyped'
  <2>1. ASSUME NEW b \in Books, ItemRead(b)
        PROVE  PlayerTyped'
    BY <1>3, <2>1, ItemFiles DEF ItemRead, PlayerTyped
  <2>2. ASSUME NEW f \in FileIds, PlayBegins(f)
        PROVE  PlayerTyped'
    BY <1>3, <2>2 DEF PlayBegins, PlayerTyped, OptionOf
  <2>3. ASSUME NEW range \in Ranges, PlayOn(range)
        PROVE  PlayerTyped'
    <3>1. PICK reply : reply = StreamFile(playing.file, range)
      OBVIOUS
    <3>2. PICK cut \in 0 .. Len(reply.body) :
            playing' = [playing EXCEPT !.got = @ \o SubSeq(reply.body, 1, cut), !.total = reply.total]
      BY <2>3, <3>1 DEF PlayOn
    <3>3. playing # Nothing /\ playing.file \in FileIds /\ reply.code \in {200, 206}
      BY <1>3, <2>3, <3>1 DEF PlayOn, ShInv
    <3>4. onDisk[playing.file] # Nothing /\ reply.total = TotalOf(playing.file)
      BY <3>1, <3>3 DEF StreamFile
    <3>5. reply.total \in Lengths
      BY <1>3, <3>3, <3>4, TotalTyped DEF ShInv
    <3>6. playing'.total = reply.total
      BY <1>3, <3>2, <3>3 DEF ShInv
    <3>7. UNCHANGED <<known, rewrites, even>>
      BY <2>3 DEF PlayOn
    <3>8. QED
      BY <1>3, <3>5, <3>6, <3>7 DEF PlayerTyped, OptionOf
  <2>4. ASSUME NEW f \in FileIds, FileRewritten(f) \/ ScanSees(f) \/ FileRetired(f)
        PROVE  PlayerTyped'
    <3>1. /\ UNCHANGED <<known, playing>> /\ Uneven(f)
          /\ rewrites' = rewrites \/ (rewrites < MaxRewrites /\ rewrites' = rewrites + 1)
      BY <2>4 DEF FileRewritten, ScanSees, FileRetired
    <3>2. even' \in BOOLEAN
      BY <3>1 DEF Uneven
    <3>3. rewrites' \in 0 .. MaxRewrites
      BY <1>3, <3>1, ShelfAssumption DEF PlayerTyped
    <3>4. QED
      BY <1>3, <3>1, <3>2, <3>3 DEF PlayerTyped
  <2>5. CASE UNCHANGED shVars
    BY <1>3, <2>5 DEF PlayerTyped, shVars
  <2>6. QED
    BY <1>3, <2>1, <2>2, <2>3, <2>4, <2>5 DEF ShStep
<1>4. ShInv /\ PlayerTyped => ShTypeOK
  BY DEF ShInv, ShTypes, PlayerTyped, ShTypeOK
<1>5. QED
  BY <1>1, <1>2, <1>3, <1>4, ShelfInit, PTL DEF ShSpec

(* The cover that is shown is that of the file an item lists first: two      *)
(* queries, one order, for any files.                                        *)
THEOREM CoverIsOfItem == ShSpec => []CoverOfItem
<1>1. ASSUME NEW b \in Books
      PROVE  GetCover(b) = IF GetItem(b) = <<>> THEN Nothing ELSE onDisk[GetItem(b)[1]]
  <2> DEFINE A == ActiveFiles(b)
             s == GetItem(b)
  <2>1. /\ IsFiniteSet(A) /\ A \subseteq Int /\ s \in Seq(A) /\ Len(s) = Cardinality(A) /\ ToSet(s) = A
        /\ \A i, j \in 1 .. Cardinality(A) : i < j => s[i] < s[j]
    BY ItemFiles
  <2>2. CASE A = {}
    <3>1. s = <<>>
      BY <2>1, <2>2, FS_EmptySet
    <3>2. QED
      BY <2>2, <3>1 DEF GetCover
  <2>3. CASE A # {}
    <3> HIDE DEF A, s
    <3>1. Len(s) \in Nat /\ Len(s) # 0
      BY <2>1, <2>3, FS_EmptySet
    <3>2. s[1] \in A /\ s # <<>>
      BY <2>1, <3>1
    <3>3. \A g \in A : s[1] <= g
      <4> SUFFICES ASSUME NEW g \in A
                   PROVE  s[1] <= g
        OBVIOUS
      <4>1. PICK n \in 1 .. Len(s) : g = s[n]
        BY <2>1 DEF ToSet
      <4>2. n = 1 \/ 1 < n
        BY <3>1
      <4>3. 1 \in 1 .. Cardinality(A) /\ n \in 1 .. Cardinality(A)
        BY <2>1, <3>1, <4>1
      <4>4. s[1] \in Int /\ s[n] \in Int
        BY <2>1, <3>2, <4>1
      <4>5. QED
        BY <2>1, <4>1, <4>2, <4>3, <4>4
    <3>4. FirstFile(A) = s[1]
      <4>1. \E f \in A : \A g \in A : f <= g
        BY <3>2, <3>3
      <4>2. FirstFile(A) \in A /\ \A g \in A : FirstFile(A) <= g
        BY <4>1, Zenon DEF FirstFile
      <4>3. s[1] <= FirstFile(A) /\ FirstFile(A) <= s[1]
        BY <3>2, <3>3, <4>2
      <4>4. s[1] \in Int /\ FirstFile(A) \in Int
        BY <2>1, <3>2, <4>2
      <4>5. QED
        BY <4>3, <4>4
    <3>5. QED
      BY <2>3, <3>2, <3>4 DEF GetCover, A, s
  <2>4. QED
    BY <2>2, <2>3
<1>2. CoverOfItem
  BY <1>1 DEF CoverOfItem
<1>3. QED
  BY <1>2, PTL

-----------------------------------------------------------------------------
(* --- Types of Figures ---------------------------------------------------- *)

FactsTyped == DOMAIN facts \subseteq Books /\ \A b \in DOMAIN facts : DOMAIN facts[b] = DOMAIN Blank
\* The shop lists a product of an author once.
MarketTyped ==
  /\ market \in [ToSet(Writers) -> Seq(Products)]
  /\ \A a \in ToSet(Writers) : \A i, j \in 1 .. Len(market[a]) : i # j => market[a][i].asin # market[a][j].asin
\* A report has read full pages so far.
AskingTyped ==
  asking # Nothing =>
    /\ asking.todo \in Seq(ToSet(Writers)) /\ asking.page \in 1 .. MaxPages
    /\ asking.list \in Seq(Products) /\ Len(asking.list) <= (asking.page - 1) * PerPage
    /\ DOMAIN asking = {"kind", "todo", "page", "list", "books", "failed"}
FiTypes == FactsTyped /\ MarketTyped /\ AskingTyped /\ quiet \in BOOLEAN /\ asked \in 0 .. MaxAsked

LEMMA FactsKeep ==
  ASSUME FactsTyped, FigureStep
  PROVE  FactsTyped'
<1>1. ASSUME NEW b \in Books, BookScanned(b)
      PROVE  FactsTyped'
  <2>1. facts' = [c \in DOMAIN facts \cup {b} |-> IF c = b THEN Blank ELSE facts[c]]
    BY <1>1 DEF BookScanned
  <2>2. DOMAIN facts' = DOMAIN facts \cup {b}
    BY <2>1
  <2>3. \A c \in DOMAIN facts' : facts'[c] = IF c = b THEN Blank ELSE facts[c]
    BY <2>1
  <2>4. \A c \in DOMAIN facts' : DOMAIN facts'[c] = DOMAIN Blank
    BY <2>2, <2>3, Zenon DEF FactsTyped
  <2>5. QED
    BY <2>2, <2>4 DEF FactsTyped
<1>2. ASSUME NEW b \in Books, NEW column \in DOMAIN Columns, FactTurns(b, column)
      PROVE  FactsTyped'
  <2>1. PICK v \in Columns[column] : facts' = [facts EXCEPT ![b][column] = v]
    BY <1>2 DEF FactTurns
  <2>2. DOMAIN facts' = DOMAIN facts
    BY <2>1, Zenon
  <2>3. b \in DOMAIN facts
    BY <1>2 DEF FactTurns
  <2>4. facts'[b] = [facts[b] EXCEPT ![column] = v] /\ \A c \in DOMAIN facts \ {b} : facts'[c] = facts[c]
    BY <2>1, <2>3
  <2>5. DOMAIN facts'[b] = DOMAIN facts[b]
    BY <2>4, Zenon
  <2>6. QED
    BY <2>2, <2>4, <2>5, Zenon DEF FactsTyped
<1>3. QED
  BY <1>1, <1>2 DEF FigureStep

LEMMA MarketKeeps ==
  ASSUME MarketTyped, NEW author \in ToSet(Writers), MarketTurns(author)
  PROVE  MarketTyped'
<1>1. PICK p \in Products :
        /\ \A a \in DOMAIN market : \A n \in DOMAIN market[a] : market[a][n].asin # p.asin
        /\ market' = [market EXCEPT ![author] = <<p>> \o @]
  BY DEF MarketTurns
<1>2. market[author] \in Seq(Products) /\ DOMAIN market = ToSet(Writers)
  BY DEF MarketTyped
<1>3. PICK list \in Seq(Products) : list = market[author]
  BY <1>2
<1>4. PICK longer \in Seq(Products) : longer = <<p>> \o list
  <2>1. <<p>> \in Seq(Products)
    OBVIOUS
  <2>2. <<p>> \o list \in Seq(Products)
    BY <1>3, <2>1, ConcatProperties
  <2>3. QED
    BY <2>2
<1>5. /\ Len(longer) = Len(list) + 1 /\ longer[1] = p
      /\ \A n \in 2 .. Len(longer) : longer[n] = list[n - 1]
  BY <1>3, <1>4
<1>6. market' = [market EXCEPT ![author] = longer]
  BY <1>1, <1>3, <1>4
<1>7. market' \in [ToSet(Writers) -> Seq(Products)]
  BY <1>6 DEF MarketTyped
<1>8. \A n \in 1 .. Len(list) : list[n].asin # p.asin
  BY <1>1, <1>2, <1>3
<1>9. \A i, j \in 1 .. Len(list) : i # j => list[i].asin # list[j].asin
  BY <1>3 DEF MarketTyped
<1>10. \A i, j \in 1 .. Len(longer) : i # j => longer[i].asin # longer[j].asin
  <2> SUFFICES ASSUME NEW i \in 1 .. Len(longer), NEW j \in 1 .. Len(longer), i # j
               PROVE  longer[i].asin # longer[j].asin
    OBVIOUS
  <2>1. CASE i = 1
    <3>1. j - 1 \in 1 .. Len(list) /\ longer[j] = list[j - 1] /\ longer[i] = p
      BY <1>3, <1>5, <2>1
    <3>2. QED
      BY <1>8, <3>1
  <2>2. CASE j = 1
    <3>1. i - 1 \in 1 .. Len(list) /\ longer[i] = list[i - 1] /\ longer[j] = p
      BY <1>3, <1>5, <2>2
    <3>2. QED
      BY <1>8, <3>1
  <2>3. CASE i # 1 /\ j # 1
    <3>1. /\ i - 1 \in 1 .. Len(list) /\ longer[i] = list[i - 1]
          /\ j - 1 \in 1 .. Len(list) /\ longer[j] = list[j - 1] /\ i - 1 # j - 1
      BY <1>3, <1>5, <2>3
    <3>2. QED
      BY <1>9, <3>1
  <2>4. QED
    BY <2>1, <2>2, <2>3
<1>11. market'[author] = longer /\ \A a \in ToSet(Writers) \ {author} : market'[a] = market[a]
  BY <1>6 DEF MarketTyped
<1>12. \A a \in ToSet(Writers) : \A i, j \in 1 .. Len(market'[a]) : i # j => market'[a][i].asin # market'[a][j].asin
  <2> SUFFICES ASSUME NEW a \in ToSet(Writers)
               PROVE  \A i, j \in 1 .. Len(market'[a]) : i # j => market'[a][i].asin # market'[a][j].asin
    OBVIOUS
  <2>1. CASE a = author
    BY <1>10, <1>11, <2>1
  <2>2. CASE a # author
    BY <1>11, <2>2 DEF MarketTyped
  <2>3. QED
    BY <2>1, <2>2
<1>13. QED
  BY <1>7, <1>12 DEF MarketTyped

\* A page has so many products at most.
LEMMA PageBound ==
  ASSUME MarketTyped, NEW a \in ToSet(Writers), NEW n \in 1 .. MaxPages
  PROVE  Page(a, n) \in Seq(Products) /\ Len(Page(a, n)) \in 0 .. PerPage
<1>1. PICK from \in Nat : from = (n - 1) * PerPage
  BY FiguresAssumption
<1>2. n * PerPage = from + PerPage
  BY <1>1, FiguresAssumption
<1>3. PICK list \in Seq(Products) : list = market[a]
  BY DEF MarketTyped
<1>4. PICK to \in Nat : to = IF from + PerPage < Len(list) THEN from + PerPage ELSE Len(list)
  BY <1>3, FiguresAssumption
<1>5. Page(a, n) = SubSeq(list, from + 1, to)
  BY <1>1, <1>2, <1>3, <1>4 DEF Page
<1>6. to <= Len(list) /\ to <= from + PerPage
  BY <1>3, <1>4, FiguresAssumption
<1>7. SubSeq(list, from + 1, to) \in Seq(Products)
  BY <1>3, <1>6
<1>8. Len(SubSeq(list, from + 1, to)) = IF from + 1 <= to THEN to - from ELSE 0
  BY <1>3, <1>6
<1>9. QED
  BY <1>5, <1>6, <1>7, <1>8, FiguresAssumption

LEMMA AskingKeeps ==
  ASSUME MarketTyped, AskingTyped,
         \/ \E a \in ToSet(Writers) : ReportBegins("gaps", <<a>>)
         \/ ReportBegins("upcoming", Writers) \/ FetchPage \/ PageFails \/ ReportEnds
  PROVE  AskingTyped'
<1>1. ASSUME NEW kind, NEW authors \in Seq(ToSet(Writers)), ReportBegins(kind, authors)
      PROVE  AskingTyped'
  BY <1>1, FiguresAssumption DEF ReportBegins, AskingTyped
<1>2. CASE FetchPage
  <2>1. PICK batch : batch = Page(Head(asking.todo), asking.page)
    OBVIOUS
  <2>2. /\ asking # Nothing /\ asking.todo # <<>>
        /\ asking' = IF Len(batch) = PerPage /\ asking.page < MaxPages
                     THEN [asking EXCEPT !.list = asking.list \o batch, !.page = @ + 1]
                     ELSE [asking EXCEPT !.todo = Tail(@), !.page = 1, !.list = <<>>,
                                         !.books = @ \o Kept(asking.kind, asking.list \o batch)]
    BY <1>2, <2>1 DEF FetchPage
  <2>3. Head(asking.todo) \in ToSet(Writers) /\ Tail(asking.todo) \in Seq(ToSet(Writers))
    BY <2>2 DEF AskingTyped
  <2>4. batch \in Seq(Products) /\ Len(batch) \in 0 .. PerPage
    BY <2>1, <2>2, <2>3, PageBound DEF AskingTyped
  <2>5. PICK r : r = asking
    OBVIOUS
  <2>6. /\ r.todo \in Seq(ToSet(Writers)) /\ r.page \in 1 .. MaxPages
        /\ r.list \in Seq(Products) /\ Len(r.list) <= (r.page - 1) * PerPage
        /\ DOMAIN r = {"kind", "todo", "page", "list", "books", "failed"}
    BY <2>2, <2>5 DEF AskingTyped
  <2>7. CASE Len(batch) = PerPage /\ asking.page < MaxPages
    <3>1. asking' = [r EXCEPT !.list = r.list \o batch, !.page = r.page + 1]
      BY <2>2, <2>5, <2>7
    <3>2. /\ asking'.todo = r.todo /\ asking'.page = r.page + 1 /\ asking'.list = r.list \o batch
          /\ DOMAIN asking' = DOMAIN r
      BY <2>6, <3>1
    <3>3. r.list \o batch \in Seq(Products) /\ Len(r.list \o batch) = Len(r.list) + PerPage
      BY <2>4, <2>6, <2>7, ConcatProperties
    <3>4. Len(r.list) + PerPage <= (r.page + 1 - 1) * PerPage
      <4>1. PICK k \in Int : k = (r.page - 1) * PerPage
        BY <2>6, FiguresAssumption
      <4>2. (r.page + 1 - 1) * PerPage = k + PerPage
        BY <2>6, <4>1, FiguresAssumption
      <4>3. Len(r.list) \in Nat
        BY <2>6
      <4>4. QED
        BY <2>6, <4>1, <4>2, <4>3, FiguresAssumption
    <3>5. r.page + 1 \in 1 .. MaxPages
      BY <2>5, <2>6, <2>7, FiguresAssumption
    <3>6. QED
      BY <2>6, <3>2, <3>3, <3>4, <3>5 DEF AskingTyped
  <2>8. CASE ~(Len(batch) = PerPage /\ asking.page < MaxPages)
    <3>1. PICK books : asking' = [r EXCEPT !.todo = Tail(@), !.page = 1, !.list = <<>>, !.books = books]
      BY <2>2, <2>5, <2>8
    <3>2. /\ asking'.todo = Tail(r.todo) /\ asking'.page = 1 /\ asking'.list = <<>>
          /\ DOMAIN asking' = DOMAIN r
      BY <2>6, <3>1
    <3>3. QED
      BY <2>3, <2>5, <2>6, <3>2, FiguresAssumption DEF AskingTyped
  <2>9. QED
    BY <2>7, <2>8
<1>3. CASE PageFails
  <2>1. asking # Nothing /\ Tail(asking.todo) \in Seq(ToSet(Writers))
    BY <1>3 DEF PageFails, AskingTyped
  <2>2. CASE asking.kind # "gaps"
    <3>1. PICK failed : asking' = [asking EXCEPT !.todo = Tail(@), !.page = 1, !.list = <<>>, !.failed = failed]
      BY <1>3, <2>2 DEF PageFails
    <3>2. /\ asking'.todo = Tail(asking.todo) /\ asking'.page = 1 /\ asking'.list = <<>>
          /\ DOMAIN asking' = DOMAIN asking
      BY <2>1, <3>1 DEF AskingTyped
    <3>3. QED
      BY <2>1, <3>2, FiguresAssumption DEF AskingTyped
  <2>3. CASE asking.kind = "gaps"
    BY <1>3, <2>3 DEF PageFails, AskingTyped
  <2>4. QED
    BY <2>2, <2>3
<1>4. CASE ReportEnds
  BY <1>4 DEF ReportEnds, AskingTyped
<1>5. ASSUME NEW a \in ToSet(Writers)
      PROVE  <<a>> \in Seq(ToSet(Writers))
  OBVIOUS
<1>6. Writers \in Seq(ToSet(Writers))
  BY FiguresAssumption
<1>7. QED
  BY <1>1, <1>2, <1>3, <1>4, <1>5, <1>6

(* Facts stay columns of books, the shop's lists no longer than its products,*)
(* and a report never has more than the pages it may read.                   *)
THEOREM FiguresTypes == FiInit /\ [][FiStep]_fiVars => []FiTypeOK
<1>1. FiInit => FiTypes
  BY FiguresAssumption DEF FiInit, FiTypes, FactsTyped, MarketTyped, AskingTyped
<1>2. ASSUME FiTypes, [FiStep]_fiVars
      PROVE  FiTypes'
  <2>1. CASE FigureStep
    <3>1. FactsTyped'
      BY <1>2, <2>1, FactsKeep DEF FiTypes
    <3>2. UNCHANGED <<market, asking, asked>> /\ quiet' = FALSE
      BY <2>1 DEF FigureStep, BookScanned, FactTurns, Stirred
    <3>3. QED
      BY <1>2, <3>1, <3>2 DEF FiTypes, MarketTyped, AskingTyped
  <2>2. ASSUME NEW a \in ToSet(Writers), MarketTurns(a)
        PROVE  FiTypes'
    <3>1. MarketTyped'
      BY <1>2, <2>2, MarketKeeps DEF FiTypes
    <3>2. UNCHANGED <<facts, asking>> /\ quiet' = FALSE /\ asked < MaxAsked /\ asked' = asked + 1
      BY <2>2 DEF MarketTurns, Stirred
    <3>3. asked' \in 0 .. MaxAsked
      BY <1>2, <3>2, FiguresAssumption DEF FiTypes
    <3>4. QED
      BY <1>2, <3>1, <3>2, <3>3 DEF FiTypes, FactsTyped, AskingTyped
  <2>3. CASE \/ \E a \in ToSet(Writers) : ReportBegins("gaps", <<a>>)
             \/ ReportBegins("upcoming", Writers) \/ FetchPage \/ PageFails \/ ReportEnds
    <3>1. AskingTyped'
      BY <1>2, <2>3, AskingKeeps DEF FiTypes
    <3>2. /\ UNCHANGED <<facts, market>> /\ (quiet' = quiet \/ quiet' = TRUE)
          /\ (asked' = asked \/ (asked < MaxAsked /\ asked' = asked + 1))
      BY <2>3 DEF ReportBegins, FetchPage, PageFails, ReportEnds
    <3>3. asked' \in 0 .. MaxAsked
      BY <1>2, <3>2, FiguresAssumption DEF FiTypes
    <3>4. QED
      BY <1>2, <3>1, <3>2, <3>3 DEF FiTypes, FactsTyped, MarketTyped
  <2>4. CASE UNCHANGED fiVars
    BY <1>2, <2>4 DEF fiVars, FiTypes, FactsTyped, MarketTyped, AskingTyped
  <2>5. QED
    BY <1>2, <2>1, <2>2, <2>3, <2>4 DEF FiStep, ReportStep
<1>3. ASSUME FiTypes
      PROVE  FiTypeOK
  <2>1. ASSUME NEW a \in ToSet(Writers)
        PROVE  Len(market[a]) <= Cardinality(Asins)
    <3> DEFINE f == [n \in 1 .. Len(market[a]) |-> market[a][n].asin]
    <3>1. market[a] \in Seq(Products) /\ Len(market[a]) \in Nat
      BY <1>3 DEF FiTypes, MarketTyped
    <3>2. \A n \in 1 .. Len(market[a]) : market[a][n].asin \in Asins
      <4>1. \A p \in Products : p.asin \in Asins
        BY DEF Products
      <4>2. QED
        BY <3>1, <4>1
    <3>3. f \in Injection(1 .. Len(market[a]), Asins)
      BY <1>3, <3>2 DEF FiTypes, MarketTyped, Injection, IsInjective
    <3>4. Cardinality(1 .. Len(market[a])) = Len(market[a])
      BY <3>1, FS_Interval
    <3>5. QED
      BY <3>3, <3>4, FS_Injection, FiguresAssumption
  <2>2. ASSUME asking # Nothing
        PROVE  asking.page \in 1 .. MaxPages /\ Len(asking.list) <= PerPage * MaxPages
    <3>1. /\ asking.page \in 1 .. MaxPages /\ Len(asking.list) <= (asking.page - 1) * PerPage
          /\ Len(asking.list) \in Nat
      BY <1>3, <2>2 DEF FiTypes, AskingTyped
    <3>2. (asking.page - 1) * PerPage <= PerPage * MaxPages
      BY <3>1, FiguresAssumption
    <3>3. (asking.page - 1) * PerPage \in Int /\ PerPage * MaxPages \in Int
      BY <3>1, FiguresAssumption
    <3>4. QED
      BY <3>1, <3>2, <3>3
  <2>3. QED
    BY <1>3, <2>1, <2>2 DEF FiTypes, FactsTyped, MarketTyped, FiTypeOK
<1>4. QED
  BY <1>1, <1>2, <1>3, PTL

-----------------------------------------------------------------------------
(* --- Types and copies of Sounds ------------------------------------------ *)

HeardTyped ==
  /\ heard \in [window : Seq(SUBSET Bits), jingles : [1 .. 2 -> Seq(SUBSET Bits)]]
  /\ Len(heard.window) <= MaxHashes
SaidTyped == said \in Seq(Seq(Letters)) /\ Len(said) <= 3
Recordings == [secs : Durations, sound : {1, 2}]
\* A run of fingerprint-book has written what is no longer left to write.
RunSound(b) ==
  LET p == printing[b]
  IN  /\ p.of \in Recordings /\ DOMAIN p.left \subseteq DOMAIN p.all
      /\ p = [left |-> p.left, all |-> p.all, of |-> p.of]
      /\ \A o \in DOMAIN p.all : p.all[o] = p.of.sound
      /\ \A o \in DOMAIN p.left : p.left[o] = p.of.sound
      /\ \A o \in DOMAIN p.all \ DOMAIN p.left : o \in DOMAIN prints[b] /\ prints[b][o] = p.of.sound
WholeSound(b) ==
  /\ printing[b] = Nothing
  /\ \A o \in Offsets(recorded[b].secs) : o \in DOMAIN prints[b] /\ prints[b][o] = recorded[b].sound
PrintsSound(b) == \A o \in DOMAIN prints[b] : prints[b][o] \in {1, 2}
BookSound(b) ==
  /\ recorded[b] \in Recordings /\ PrintsSound(b)
  /\ printing[b] # Nothing => RunSound(b)
  /\ b \in whole => WholeSound(b)
SoInv ==
  /\ HeardTyped /\ SaidTyped /\ runs \in 0 .. MaxRuns
  /\ DOMAIN recorded = Books /\ DOMAIN printing = Books /\ DOMAIN prints = Books /\ whole \subseteq Books
  /\ \A b \in Books : BookSound(b)

LEMMA Twice ==
  ASSUME NEW T, NEW e \in T
  PROVE  <<e, e>> \in [1 .. 2 -> T]
OBVIOUS

LEMMA SoundsInit == SoInit => SoInv
<1> SUFFICES ASSUME SoInit
             PROVE  SoInv
  OBVIOUS
<1>1. HeardTyped
  <2>1. heard.window = <<>> /\ heard.jingles[1] = <<>> /\ heard.jingles[2] = <<>> /\ DOMAIN heard.jingles = 1 .. 2
    BY DEF SoInit
  <2>2. heard = [window |-> heard.window, jingles |-> heard.jingles]
    BY DEF SoInit
  <2>3. \A S : <<>> \in Seq(S)
    OBVIOUS
  <2>4. heard.jingles \in [1 .. 2 -> Seq(SUBSET Bits)]
    <3>1. heard.jingles = << <<>>, <<>> >>
      BY DEF SoInit
    <3>2. <<>> \in Seq(SUBSET Bits)
      OBVIOUS
    <3>3. QED
      BY <3>1, <3>2, Twice
  <2>5. QED
    BY <2>1, <2>2, <2>3, <2>4, SoundsAssumption DEF HeardTyped
<1>2. \A b \in Books : BookSound(b)
  BY DEF SoInit, BookSound, Recordings, PrintsSound
<1>3. QED
  BY <1>1, <1>2, SoundsAssumption DEF SoInit, SoInv, SaidTyped

\* A window or a jingle goes on.
LEMMA HeardKeeps ==
  ASSUME SoInv, MoreHeard
  PROVE  HeardTyped'
<1>1. heard \in [window : Seq(SUBSET Bits), jingles : [1 .. 2 -> Seq(SUBSET Bits)]]
  BY DEF SoInv, HeardTyped
<1>2. ASSUME NEW w \in SUBSET Bits, Len(heard.window) < MaxHashes, heard' = [heard EXCEPT !.window = Append(@, w)]
      PROVE  HeardTyped'
  <2>1. PICK s \in Seq(SUBSET Bits) : s = heard.window
    BY <1>1
  <2>2. Append(s, w) \in Seq(SUBSET Bits) /\ Len(Append(s, w)) = Len(s) + 1 /\ Len(s) \in Nat
    BY <2>1, AppendProperties
  <2>3. heard'.window = Append(s, w) /\ heard' \in [window : Seq(SUBSET Bits), jingles : [1 .. 2 -> Seq(SUBSET Bits)]]
    BY <1>1, <1>2, <2>1, <2>2
  <2>4. QED
    BY <1>2, <2>1, <2>2, <2>3, SoundsAssumption DEF HeardTyped
<1>3. ASSUME NEW j \in 1 .. 2, NEW w \in SUBSET Bits, heard' = [heard EXCEPT !.jingles[j] = Append(@, w)]
      PROVE  HeardTyped'
  <2>1. PICK g \in [1 .. 2 -> Seq(SUBSET Bits)] : g = heard.jingles
    BY <1>1
  <2>2. PICK s \in Seq(SUBSET Bits) : s = g[j]
    BY <2>1
  <2>3. Append(s, w) \in Seq(SUBSET Bits)
    BY <2>2, AppendProperties
  <2>4. heard' = [heard EXCEPT !.jingles = [g EXCEPT ![j] = Append(s, w)]]
    BY <1>3, <2>1, <2>2
  <2>5. [g EXCEPT ![j] = Append(s, w)] \in [1 .. 2 -> Seq(SUBSET Bits)]
    BY <2>1, <2>3
  <2>6. heard'.window = heard.window /\ heard' \in [window : Seq(SUBSET Bits), jingles : [1 .. 2 -> Seq(SUBSET Bits)]]
    BY <1>1, <2>4, <2>5
  <2>7. QED
    BY <2>6 DEF SoInv, HeardTyped
<1>4. QED
  BY <1>2, <1>3 DEF MoreHeard

LEMMA SaidKeeps ==
  ASSUME SoInv, MoreSaid
  PROVE  SaidTyped'
<1>1. said \in Seq(Seq(Letters)) /\ Len(said) \in Nat /\ Len(said) <= 3
  BY DEF SoInv, SaidTyped
<1>2. CASE Len(said) < 3 /\ said' = Append(said, <<>>)
  <2>1. <<>> \in Seq(Letters)
    OBVIOUS
  <2>2. said' \in Seq(Seq(Letters)) /\ Len(said') = Len(said) + 1
    BY <1>1, <1>2, <2>1, AppendProperties
  <2>3. QED
    BY <1>1, <1>2, <2>2 DEF SaidTyped
<1>3. ASSUME NEW l \in Letters, said # <<>>, said' = [said EXCEPT ![Len(said)] = Append(@, l)]
      PROVE  SaidTyped'
  <2>1. Len(said) \in 1 .. Len(said)
    BY <1>1, <1>3
  <2>2. PICK s \in Seq(Letters) : s = said[Len(said)]
    BY <1>1, <2>1
  <2>3. Append(s, l) \in Seq(Letters)
    BY <2>2, AppendProperties
  <2>4. said' = [said EXCEPT ![Len(said)] = Append(s, l)]
    BY <1>3, <2>2
  <2>5. said' \in Seq(Seq(Letters)) /\ Len(said') = Len(said)
    BY <1>1, <2>1, <2>3, <2>4
  <2>6. QED
    BY <1>1, <2>5 DEF SaidTyped
<1>4. QED
  BY <1>2, <1>3 DEF MoreSaid

\* What happens to one book leaves the others as they are.
LEMMA OthersStay ==
  ASSUME SoInv, NEW b \in Books, NEW c \in Books \ {b},
         recorded'[c] = recorded[c], printing'[c] = printing[c], prints'[c] = prints[c],
         (c \in whole') = (c \in whole)
  PROVE  BookSound(c)'
BY DEF SoInv, BookSound, PrintsSound, RunSound, WholeSound

LEMMA TurnKeeps ==
  ASSUME SoInv, NEW b \in Books, FileTurns(b)
  PROVE  SoInv'
<1>1. PICK secs \in Durations, sound \in {1, 2} :
        recorded' = [recorded EXCEPT ![b] = [secs |-> secs, sound |-> sound]]
  BY DEF FileTurns
<1>2. /\ whole' = whole \ {b} /\ UNCHANGED <<heard, said, printing, prints>>
      /\ runs < MaxRuns /\ runs' = runs + 1
  BY DEF FileTurns
<1>3. DOMAIN recorded' = Books /\ recorded'[b] \in Recordings /\ \A c \in Books \ {b} : recorded'[c] = recorded[c]
  BY <1>1 DEF SoInv, Recordings
<1>4. BookSound(b)'
  BY <1>2, <1>3 DEF SoInv, BookSound, PrintsSound, RunSound
<1>5. \A c \in Books \ {b} : BookSound(c)'
  BY <1>2, <1>3, OthersStay
<1>6. runs' \in 0 .. MaxRuns
  BY <1>2, SoundsAssumption DEF SoInv
<1>7. QED
  BY <1>2, <1>3, <1>4, <1>5, <1>6 DEF SoInv, HeardTyped, SaidTyped

LEMMA RunKeeps ==
  ASSUME SoInv, NEW b \in Books, FingerprintRuns(b)
  PROVE  SoInv'
<1>1. PICK w \in Windows(recorded[b]) :
        printing' = [printing EXCEPT ![b] = [left |-> w, all |-> w, of |-> recorded[b]]]
  BY DEF FingerprintRuns
<1>2. PICK decoded : w = [o \in decoded |-> recorded[b].sound]
  BY DEF Windows
<1>3. /\ whole' = whole \ {b} /\ UNCHANGED <<heard, said, recorded, prints>>
      /\ runs < MaxRuns /\ runs' = runs + 1
  BY DEF FingerprintRuns
<1>4. /\ DOMAIN printing' = Books /\ printing'[b] = [left |-> w, all |-> w, of |-> recorded[b]]
      /\ \A c \in Books \ {b} : printing'[c] = printing[c]
  BY <1>1 DEF SoInv
<1>5. \A o \in DOMAIN w : w[o] = recorded[b].sound
  BY <1>2
<1>6. RunSound(b)'
  BY <1>3, <1>4, <1>5 DEF SoInv, BookSound, RunSound
<1>7. BookSound(b)'
  BY <1>3, <1>6 DEF SoInv, BookSound, PrintsSound
<1>8. \A c \in Books \ {b} : BookSound(c)'
  BY <1>3, <1>4, OthersStay
<1>9. runs' \in 0 .. MaxRuns
  BY <1>3, SoundsAssumption DEF SoInv
<1>10. QED
  BY <1>3, <1>4, <1>7, <1>8, <1>9 DEF SoInv, HeardTyped, SaidTyped

\* A window is written; the last of a file's makes the book whole.
LEMMA WriteKeeps ==
  ASSUME SoInv, NEW b \in Books, WriteFingerprint(b)
  PROVE  SoInv'
<1>1. PICK p : p = printing[b]
  OBVIOUS
<1>2. PICK o \in DOMAIN p.left :
        /\ prints' = [prints EXCEPT ![b] = [q \in DOMAIN @ \cup {o} |-> IF q = o THEN p.left[o] ELSE @[q]]]
        /\ printing' = [printing EXCEPT ![b] =
             IF DOMAIN p.left = {o} THEN Nothing ELSE [@ EXCEPT !.left = [q \in DOMAIN p.left \ {o} |-> p.left[q]]]]
        /\ whole' = IF DOMAIN p.left = {o} /\ DOMAIN p.all = Offsets(p.of.secs) /\ p.of = recorded[b]
                    THEN whole \cup {b} ELSE whole
  BY <1>1 DEF WriteFingerprint
<1>3. p # Nothing /\ UNCHANGED <<heard, said, recorded, runs>>
  BY <1>1 DEF WriteFingerprint
<1>4. RunSound(b) /\ b \notin whole
  BY <1>1, <1>3 DEF SoInv, BookSound, WholeSound
<1>5. /\ p.of \in Recordings /\ DOMAIN p.left \subseteq DOMAIN p.all
      /\ p = [left |-> p.left, all |-> p.all, of |-> p.of]
      /\ \A q \in DOMAIN p.all : p.all[q] = p.of.sound
      /\ \A q \in DOMAIN p.left : p.left[q] = p.of.sound
      /\ \A q \in DOMAIN p.all \ DOMAIN p.left : q \in DOMAIN prints[b] /\ prints[b][q] = p.of.sound
  BY <1>1, <1>4 DEF RunSound
<1>6. PICK written : written = [q \in DOMAIN prints[b] \cup {o} |-> IF q = o THEN p.left[o] ELSE prints[b][q]]
  OBVIOUS
<1>7. /\ DOMAIN prints' = Books /\ prints'[b] = written /\ \A c \in Books \ {b} : prints'[c] = prints[c]
  BY <1>2, <1>6 DEF SoInv
<1>8. /\ DOMAIN written = DOMAIN prints[b] \cup {o} /\ written[o] = p.of.sound
      /\ \A q \in DOMAIN prints[b] \ {o} : written[q] = prints[b][q]
  BY <1>2, <1>5, <1>6
<1>9. \A q \in DOMAIN p.all \ (DOMAIN p.left \ {o}) : q \in DOMAIN written /\ written[q] = p.of.sound
  BY <1>5, <1>8
<1>10. PrintsSound(b)'
  BY <1>5, <1>7, <1>8 DEF SoInv, BookSound, PrintsSound, Recordings
<1>11. DOMAIN printing' = Books /\ \A c \in Books \ {b} : printing'[c] = printing[c]
  BY <1>2 DEF SoInv
<1>12. whole' \subseteq Books /\ \A c \in Books \ {b} : (c \in whole') = (c \in whole)
  BY <1>2 DEF SoInv
<1>13. BookSound(b)'
  <2>1. CASE DOMAIN p.left = {o}
    <3>1. printing'[b] = Nothing
      BY <1>2, <2>1 DEF SoInv
    <3>2. ASSUME b \in whole'
          PROVE  WholeSound(b)'
      <4>1. DOMAIN p.all = Offsets(p.of.secs) /\ p.of = recorded[b]
        BY <1>2, <1>4, <3>2
      <4>2. \A q \in Offsets(recorded[b].secs) : q \in DOMAIN written /\ written[q] = recorded[b].sound
        BY <1>9, <2>1, <4>1
      <4>3. QED
        BY <1>3, <1>7, <3>1, <4>2 DEF WholeSound
    <3>3. QED
      BY <1>3, <1>10, <3>1, <3>2 DEF SoInv, BookSound
  <2>2. CASE DOMAIN p.left # {o}
    <3>1. PICK rest : rest = [q \in DOMAIN p.left \ {o} |-> p.left[q]]
      OBVIOUS
    <3>2. printing'[b] = [p EXCEPT !.left = rest]
      BY <1>1, <1>2, <2>2, <3>1 DEF SoInv
    <3>3. printing'[b] = [left |-> rest, all |-> p.all, of |-> p.of]
      BY <1>5, <3>2
    <3>4. DOMAIN rest = DOMAIN p.left \ {o} /\ \A q \in DOMAIN rest : rest[q] = p.of.sound
      BY <1>5, <3>1
    <3>5. RunSound(b)'
      BY <1>5, <1>7, <1>9, <3>3, <3>4 DEF RunSound
    <3>6. b \notin whole'
      BY <1>2, <1>4, <2>2
    <3>7. QED
      BY <1>3, <1>10, <3>5, <3>6 DEF SoInv, BookSound
  <2>3. QED
    BY <2>1, <2>2
<1>14. \A c \in Books \ {b} : BookSound(c)'
  BY <1>3, <1>7, <1>11, <1>12, OthersStay
<1>15. QED
  BY <1>3, <1>7, <1>11, <1>12, <1>13, <1>14 DEF SoInv, HeardTyped, SaidTyped

LEMMA FailKeeps ==
  ASSUME SoInv, NEW b \in Books, FingerprintFails(b)
  PROVE  SoInv'
<1>1. printing' = [printing EXCEPT ![b] = Nothing] /\ UNCHANGED <<heard, said, recorded, prints, whole, runs>>
  BY DEF FingerprintFails
<1>2. DOMAIN printing' = Books /\ printing'[b] = Nothing /\ \A c \in Books \ {b} : printing'[c] = printing[c]
  BY <1>1 DEF SoInv
<1>3. BookSound(b)'
  BY <1>1, <1>2 DEF SoInv, BookSound, PrintsSound, WholeSound
<1>4. \A c \in Books \ {b} : BookSound(c)'
  BY <1>1, <1>2, OthersStay
<1>5. QED
  BY <1>1, <1>2, <1>3, <1>4 DEF SoInv, HeardTyped, SaidTyped

LEMMA SoundsStep == SoInv /\ [SoStep]_soVars => SoInv'
<1> SUFFICES ASSUME SoInv, [SoStep]_soVars
             PROVE  SoInv'
  OBVIOUS
<1>1. CASE MoreHeard
  <2>1. UNCHANGED <<said, recorded, printing, prints, whole, runs>>
    BY <1>1 DEF MoreHeard
  <2>2. HeardTyped'
    BY <1>1, HeardKeeps
  <2>3. QED
    BY <2>1, <2>2 DEF SoInv, SaidTyped, BookSound, PrintsSound, RunSound, WholeSound
<1>2. CASE MoreSaid
  <2>1. UNCHANGED <<heard, recorded, printing, prints, whole, runs>>
    BY <1>2 DEF MoreSaid
  <2>2. SaidTyped'
    BY <1>2, SaidKeeps
  <2>3. QED
    BY <2>1, <2>2 DEF SoInv, HeardTyped, BookSound, PrintsSound, RunSound, WholeSound
<1>3. CASE UNCHANGED soVars
  BY <1>3 DEF soVars, SoInv, HeardTyped, SaidTyped, BookSound, PrintsSound, RunSound, WholeSound
<1>4. QED
  BY <1>1, <1>2, <1>3, TurnKeeps, RunKeeps, WriteKeeps, FailKeeps DEF SoStep

(* What is heard and said stays within its bounds, a window carries one of   *)
(* the recordings, and a run has no window left that is not its file's.      *)
THEOREM SoundsTypes == SoInit /\ [][SoStep]_soVars => []SoTypeOK
<1>1. SoInv => SoTypeOK
  BY DEF SoInv, HeardTyped, SaidTyped, BookSound, PrintsSound, RunSound, SoTypeOK
<1>2. QED
  BY <1>1, SoundsInit, SoundsStep, PTL

(* Two copies of one recording are listed together at every offset, for any  *)
(* books and recordings, once each has been fingerprinted in full, whatever  *)
(* runs fail before and however the runs of several books meet.              *)
THEOREM CopiesAreListed == SoInit /\ [][SoStep]_soVars => []CopiesListed
<1>1. ASSUME SoInv, NEW b \in whole, NEW c \in whole, b # c, recorded[b] = recorded[c],
             NEW o \in Offsets(recorded[b].secs)
      PROVE  \E g \in DOMAIN LibraryDuplicates : g = Sharing(o, recorded[b].sound) /\ {b, c} \subseteq g
  <2> DEFINE g == Sharing(o, recorded[b].sound)
  <2>1. b \in Books /\ c \in Books /\ recorded[b].sound \in {1, 2}
    BY <1>1 DEF SoInv, BookSound, Recordings
  <2>2. o \in DOMAIN prints[b] /\ {b, c} \subseteq g
    BY <1>1, <2>1 DEF SoInv, BookSound, WholeSound, Sharing
  <2>3. Cardinality(g) >= 2
    <3>1. IsFiniteSet(g)
      BY FS_Subset, CommonAssumption DEF Sharing
    <3>2. Cardinality(g) \in Nat /\ Cardinality(g) # 0
      BY <2>2, <3>1, FS_EmptySet, FS_CardinalityType
    <3>3. Cardinality(g) # 1
      <4>1. \A x : g # {x}
        BY <1>1, <2>2
      <4>2. QED
        BY <3>1, <4>1, FS_Singleton
    <3>4. QED
      BY <3>2, <3>3
  <2> DEFINE k == <<o, recorded[b].sound>>
             keys == {x \in (UNION {DOMAIN prints[d] : d \in Books}) \X {1, 2} : Cardinality(Sharing(x[1], x[2])) >= 2}
  <2>4. k \in keys /\ Sharing(k[1], k[2]) = g
    BY <2>1, <2>2, <2>3
  <2>5. g \in {Sharing(x[1], x[2]) : x \in keys}
    BY <2>4
  <2>6. DOMAIN LibraryDuplicates = {Sharing(x[1], x[2]) : x \in keys}
    BY DEF LibraryDuplicates
  <2>7. QED
    BY <2>2, <2>5, <2>6
<1>2. SoInv => CopiesListed
  BY <1>1 DEF CopiesListed
<1>3. QED
  BY <1>2, SoundsInit, SoundsStep, PTL

-----------------------------------------------------------------------------
(* --- Browse -------------------------------------------------------------- *)

IsList(s) == \E T : s \in Seq(T)

LEMMA ListOf ==
  ASSUME NEW N \in Nat, NEW s, s = [n \in 1 .. N |-> s[n]]
  PROVE  IsList(s) /\ Len(s) = N
<1>1. PICK T : T = {s[n] : n \in 1 .. N}
  OBVIOUS
<1>2. \A n \in 1 .. N : s[n] \in T
  BY <1>1
<1>3. s \in [1 .. N -> T]
  BY <1>2
<1>4. s \in Seq(T)
  BY <1>3
<1>5. Len(s) = N
  BY <1>3, <1>4
<1>6. QED
  BY <1>4, <1>5 DEF IsList

\* An order by keys that are different lists everyone.
LEMMA SortedWhole ==
  ASSUME NEW S, IsFiniteSet(S), NEW key, NEW id,
         NEW R, \A x, y \in S : <<x, y>> \in R <=> Lexical(key[x], key[y], id[x], id[y]),
         IsOrder(R, S)
  PROVE  ToSet(Sorted(S, key, id)) = S
<1> DEFINE rank == [x \in S |-> Cardinality({y \in S : Lexical(key[y], key[x], id[y], id[x])})]
           Nth(n) == CHOOSE x \in S : rank[x] = n - 1
<1>1. PICK s : s = Sorted(S, key, id)
  OBVIOUS
<1>2. s = [n \in 1 .. Cardinality(S) |-> Nth(n)]
  BY <1>1 DEF Sorted, OrderedBy
<1>3. \A n \in 1 .. Cardinality(S) : s[n] \in S /\ Cardinality(Under(R, S, s[n])) = n - 1
  <2> SUFFICES ASSUME NEW n \in 1 .. Cardinality(S)
               PROVE  s[n] \in S /\ Cardinality(Under(R, S, s[n])) = n - 1
    OBVIOUS
  <2>1. \A x \in S : Under(R, S, x) = {y \in S : Lexical(key[y], key[x], id[y], id[x])}
    BY DEF Under
  <2>2. \A x \in S : rank[x] = Cardinality(Under(R, S, x))
    BY <2>1
  <2>3. s[n] = Nth(n)
    <3> HIDE DEF Nth
    <3>1. QED
      BY <1>2
  <2> HIDE DEF rank
  <2>4. \E x \in S : rank[x] = n - 1
    BY <2>2, RanksAreTaken
  <2>5. s[n] \in S /\ rank[s[n]] = n - 1
    BY <2>3, <2>4, Zenon
  <2>6. QED
    BY <2>2, <2>5
<1> HIDE DEF Nth
<1>4. s = [n \in 1 .. Cardinality(S) |-> s[n]]
  BY <1>2
<1>5. ToSet(s) = S
  BY <1>3, <1>4, RowsInOrder
<1>6. QED
  BY <1>1, <1>5

\* A list with as many rows as there are rows of it.
LEMMA SortedList ==
  ASSUME NEW S, IsFiniteSet(S), NEW key, NEW id
  PROVE  IsList(Sorted(S, key, id)) /\ Len(Sorted(S, key, id)) = Cardinality(S)
<1> DEFINE rank == [x \in S |-> Cardinality({y \in S : Lexical(key[y], key[x], id[y], id[x])})]
           E(n) == CHOOSE x \in S : rank[x] = n - 1
           s == Sorted(S, key, id)
<1>1. s = [n \in 1 .. Cardinality(S) |-> E(n)]
  BY DEF Sorted, OrderedBy
<1>2. Cardinality(S) \in Nat
  BY FS_CardinalityType
<1> HIDE DEF E, s
<1>3. s = [n \in 1 .. Cardinality(S) |-> s[n]]
  BY <1>1
<1>4. IsList(s) /\ Len(s) = Cardinality(S)
  BY <1>2, <1>3, ListOf
<1>5. QED
  BY <1>4 DEF s

\* A list of what is selected has as many rows as the set.
LEMMA RowsList ==
  ASSUME NEW S, IsFiniteSet(S)
  PROVE  /\ IsList(BookRows(S, Newest)) /\ Len(BookRows(S, Newest)) = Cardinality(S)
         /\ IsList(BookRows(S, LAMBDA b : Placed(b) \o Newest(b)))
         /\ Len(BookRows(S, LAMBDA b : Placed(b) \o Newest(b))) = Cardinality(S)
         /\ IsList(BookRows(S, LAMBDA b : Placed(b) \o <<BookFacts[b].title>>))
         /\ Len(BookRows(S, LAMBDA b : Placed(b) \o <<BookFacts[b].title>>)) = Cardinality(S)
         /\ IsList(BookRows(S, LAMBDA b : <<BookFacts[b].title>>))
         /\ Len(BookRows(S, LAMBDA b : <<BookFacts[b].title>>)) = Cardinality(S)
         /\ \A sort : IsList(EntityRows(S, sort)) /\ Len(EntityRows(S, sort)) = Cardinality(S)
<1>1. \A key, id : IsList(Sorted(S, key, id)) /\ Len(Sorted(S, key, id)) = Cardinality(S)
  BY SortedList
<1>2. QED
  BY <1>1, Zenon DEF BookRows, EntityRows

\* The books of a series are ordered: place, title, id, and no two books share
\* an id.
LEMMA TwoKeys ==
  ASSUME NEW a \in Int, NEW b \in Int, NEW c \in Int, NEW d \in Int, NEW i \in Int, NEW j \in Int
  PROVE  Lexical(<<a, b>>, <<c, d>>, i, j) <=> a < c \/ (a = c /\ b < d) \/ (a = c /\ b = d /\ i < j)
<1>1. DOMAIN <<a, b>> = 1 .. 2
  OBVIOUS
<1>2. (\E n \in DOMAIN <<a, b>> : <<a, b>>[n] < <<c, d>>[n] /\ \A m \in 1 .. (n - 1) : <<a, b>>[m] = <<c, d>>[m])
        <=> a < c \/ (a = c /\ b < d)
  BY <1>1
<1>3. <<a, b>> = <<c, d>> <=> a = c /\ b = d
  OBVIOUS
<1>4. QED
  BY <1>2, <1>3 DEF Lexical

LEMMA Joined2 ==
  ASSUME NEW x, NEW y
  PROVE  <<x>> \o <<y>> = <<x, y>>
<1>1. PICK T : x \in T /\ y \in T
  <2>1. x \in {x, y} /\ y \in {x, y}
    OBVIOUS
  <2>2. QED
    BY <2>1, Zenon
<1>2. PICK s \in Seq(T) : s = <<x>>
  <2>1. <<x>> \in Seq(T)
    BY <1>1
  <2>2. QED
    BY <2>1
<1>3. PICK u \in Seq(T) : u = <<y>>
  <2>1. <<y>> \in Seq(T)
    BY <1>1
  <2>2. QED
    BY <2>1
<1>4. Len(s) = 1 /\ s[1] = x /\ Len(u) = 1 /\ u[1] = y
  BY <1>2, <1>3
<1>5. PICK w : w = s \o u
  OBVIOUS
<1>6. w \in Seq(T) /\ Len(w) = 2 /\ w[1] = x /\ w[2] = y
  BY <1>4, <1>5, ConcatProperties
<1>7. w = <<x, y>>
  BY <1>6
<1>8. QED
  BY <1>2, <1>3, <1>5, <1>7

LEMMA SeriesWhole ==
  ASSUME NEW S \in SUBSET Books
  PROVE  ToSet(BookRows(S, LAMBDA b : Placed(b) \o <<BookFacts[b].title>>)) = S
<1>1. PICK key : key = [b \in S |-> Placed(b) \o <<BookFacts[b].title>>]
  OBVIOUS
<1>2. PICK id : id = [b \in S |-> BookFacts[b].id]
  OBVIOUS
<1>3. BookRows(S, LAMBDA b : Placed(b) \o <<BookFacts[b].title>>) = Sorted(S, key, id)
  BY <1>1, <1>2, Zenon DEF BookRows
<1> DEFINE p(b) == Key(BookFacts[b].place, FALSE)
           t(b) == BookFacts[b].title
<1>4. \A b \in S : key[b] = <<p(b), t(b)>>
  <2>1. \A b \in S : key[b] = <<p(b)>> \o <<t(b)>>
    BY <1>1 DEF Placed
  <2>2. \A x, y : <<x>> \o <<y>> = <<x, y>>
    BY Joined2
  <2>3. QED
    BY <2>1, <2>2
<1>5. \A b \in S : p(b) \in Int /\ t(b) \in Int /\ id[b] \in Int
  BY <1>2, BrowseAssumption DEF Key, OptionOf
<1>6. \A b, c \in S : id[b] = id[c] => b = c
  BY <1>2, BrowseAssumption
<1> HIDE DEF p, t
<1>7. PICK R : R = {xy \in S \X S : Lexical(key[xy[1]], key[xy[2]], id[xy[1]], id[xy[2]])}
  OBVIOUS
<1>8. \A x, y \in S : <<x, y>> \in R <=> Lexical(key[x], key[y], id[x], id[y])
  BY <1>7
<1>9. \A x, y \in S : <<x, y>> \in R <=>
        p(x) < p(y) \/ (p(x) = p(y) /\ t(x) < t(y)) \/ (p(x) = p(y) /\ t(x) = t(y) /\ id[x] < id[y])
  <2> SUFFICES ASSUME NEW x \in S, NEW y \in S
               PROVE  <<x, y>> \in R <=> p(x) < p(y) \/ (p(x) = p(y) /\ t(x) < t(y))
                                           \/ (p(x) = p(y) /\ t(x) = t(y) /\ id[x] < id[y])
    OBVIOUS
  <2>1. p(x) \in Int /\ p(y) \in Int /\ t(x) \in Int /\ t(y) \in Int /\ id[x] \in Int /\ id[y] \in Int
    BY <1>5
  <2>2. Lexical(<<p(x), t(x)>>, <<p(y), t(y)>>, id[x], id[y])
          <=> p(x) < p(y) \/ (p(x) = p(y) /\ t(x) < t(y)) \/ (p(x) = p(y) /\ t(x) = t(y) /\ id[x] < id[y])
    BY <2>1, TwoKeys
  <2>3. <<x, y>> \in R <=> Lexical(key[x], key[y], id[x], id[y])
    BY <1>8
  <2>4. key[x] = <<p(x), t(x)>> /\ key[y] = <<p(y), t(y)>>
    BY <1>4
  <2>5. QED
    BY <2>2, <2>3, <2>4
<1>10. IsOrder(R, S)
  BY <1>5, <1>6, <1>9 DEF IsOrder
<1>11. IsFiniteSet(S)
  BY CommonAssumption, FS_Subset
<1>12. QED
  BY <1>3, <1>8, <1>10, <1>11, SortedWhole

\* A page of a list is a piece of it; there is one where rows are left.
LEMMA PageOfList ==
  ASSUME NEW T, NEW rows \in Seq(T), NEW limit \in Nat, NEW offset \in Nat
  PROVE  LET page == PageOf(rows, limit, offset)
         IN  /\ page \in Seq(T)
             /\ offset >= Len(rows) => page = <<>>
             /\ offset <= Len(rows) =>
                  page = SubSeq(rows, offset + 1, offset + Len(page)) /\ offset + Len(page) <= Len(rows)
             /\ limit > 0 /\ offset < Len(rows) => Len(page) > 0
<1>1. PICK last : last = IF offset + limit < Len(rows) THEN offset + limit ELSE Len(rows)
  OBVIOUS
<1>2. last \in Nat /\ last <= Len(rows) /\ PageOf(rows, limit, offset) = SubSeq(rows, offset + 1, last)
  BY <1>1 DEF PageOf
<1>3. PICK page : page = SubSeq(rows, offset + 1, last)
  OBVIOUS
<1>4. page \in Seq(T) /\ Len(page) = IF offset + 1 <= last THEN last - (offset + 1) + 1 ELSE 0
  BY <1>2, <1>3, SubSeqProperties
<1>5. offset >= Len(rows) => page = <<>>
  BY <1>2, <1>3, SubSeqEmpty
<1>6. offset <= Len(rows) => offset <= last /\ offset + Len(page) = last
  BY <1>1, <1>2, <1>4
<1>7. limit > 0 /\ offset < Len(rows) => Len(page) > 0
  BY <1>1, <1>4
<1>8. QED
  BY <1>2, <1>3, <1>4, <1>5, <1>6, <1>7

SavedTyped == DOMAIN saved = DOMAIN Queries /\ \A q \in DOMAIN Queries : saved[q] \in OptionOf(SavedRows(q))
Tells(r) == IsList(r.rows) /\ Cardinality(r.counted) = Len(r.rows)

LEMMA Finite ==
  ASSUME shelf \subseteq Books
  PROVE  /\ \A v : IsFiniteSet(Matching(v)) /\ IsFiniteSet(Exact(v)) /\ IsFiniteSet(Near(v))
         /\ \A e : IsFiniteSet(BooksBy(e)) /\ BooksBy(e) \in SUBSET Books
         /\ \A k, q : IsFiniteSet(OfKind(k, q))
<1>1. IsFiniteSet(shelf) /\ IsFiniteSet(Entities)
  BY CommonAssumption, BrowseAssumption, FS_Subset
<1>2. \A k, q : IsFiniteSet(OfKind(k, q))
  BY <1>1, FS_Subset DEF OfKind
<1>3. \A v : IsFiniteSet(Matching(v))
  BY <1>1, FS_Subset DEF Matching
<1>4. \A v : IsFiniteSet({b \in shelf : v.q \in BookFacts[b].words}) /\ IsFiniteSet({b \in shelf : v.q \in BookFacts[b].near})
             /\ IsFiniteSet({e \in Entities : EntityFacts[e].kind = v.sort /\ v.q \in EntityFacts[e].near})
  BY <1>1, FS_Subset
<1>5. \A e : IsFiniteSet(BooksBy(e)) /\ BooksBy(e) \in SUBSET Books
  BY <1>1, FS_Subset DEF BooksBy
<1>6. QED
  BY <1>2, <1>3, <1>4, <1>5 DEF Exact, Near

\* Every list but a search tells as many rows as it has.
LEMMA ListsTell ==
  ASSUME shelf \subseteq Books, NEW v
  PROVE  /\ Tells(AuthorsList(v)) /\ Tells(NarratorsList(v)) /\ Tells(SeriesList(v)) /\ Tells(PublishersList(v))
         /\ Tells(CollectionsList(v)) /\ Tells(AuthorsBooks(v)) /\ Tells(NarratorsBooks(v))
         /\ Tells(PublishersBooks(v)) /\ Tells(CollectionsBooks(v)) /\ Tells(SeriesBooks(v))
         /\ Tells(BooksCollections(v)) /\ Tells(OperationJournalList(v)) /\ Tells(QueryExecute(v))
<1>1. Tells(AuthorsList(v)) /\ Tells(NarratorsList(v)) /\ Tells(SeriesList(v)) /\ Tells(PublishersList(v))
        /\ Tells(CollectionsList(v))
  BY Finite, RowsList DEF Tells, AuthorsList, NarratorsList, SeriesList, PublishersList, CollectionsList
<1>2. Tells(AuthorsBooks(v)) /\ Tells(NarratorsBooks(v)) /\ Tells(PublishersBooks(v)) /\ Tells(CollectionsBooks(v))
  BY Finite, RowsList, Zenon DEF Tells, AuthorsBooks, NarratorsBooks, PublishersBooks, CollectionsBooks
<1>3. Tells(SeriesBooks(v))
  <2>1. PICK S \in SUBSET Books : S = BooksBy(v.of) /\ IsFiniteSet(S)
    BY Finite
  <2>2. PICK rows : rows = BookRows(S, LAMBDA b : Placed(b) \o <<BookFacts[b].title>>)
    OBVIOUS
  <2>3. IsList(rows) /\ Len(rows) = Cardinality(S)
    BY <2>1, <2>2, RowsList, Zenon
  <2>4. ToSet(rows) = S
    BY <2>2, SeriesWhole, Zenon
  <2>5. SeriesBooks(v) = [counted |-> ToSet(rows), rows |-> rows]
    BY <2>1, <2>2, Zenon DEF SeriesBooks
  <2>6. QED
    BY <2>3, <2>4, <2>5 DEF Tells
<1>4. Tells(BooksCollections(v))
  <2>1. PICK S : S = {e \in BookFacts[v.of].by : EntityFacts[e].kind = "collection" /\ v.of \in shelf}
    OBVIOUS
  <2>2. S \subseteq Entities
    BY <2>1, BrowseAssumption
  <2>3. IsFiniteSet(S)
    BY <2>2, BrowseAssumption, FS_Subset
  <2>4. BooksCollections(v) = [counted |-> S, rows |-> EntityRows(S, "name")]
    BY <2>1 DEF BooksCollections
  <2>5. PICK rows : rows = EntityRows(S, "name")
    OBVIOUS
  <2>6. IsList(rows) /\ Len(rows) = Cardinality(S)
    BY <2>3, <2>5, RowsList, Zenon
  <2>7. QED
    BY <2>4, <2>5, <2>6 DEF Tells
<1>5. Tells(OperationJournalList(v))
  <2>1. PICK S : S = {o \in OpIds : Likes({OpFacts[o].kind}, v.q)}
    OBVIOUS
  <2>2. IsFiniteSet(S)
    BY <2>1, BrowseAssumption, FS_Subset
  <2>3. PICK key : key = [o \in S |-> <<0 - OpFacts[o].at, 0 - o>>]
    OBVIOUS
  <2>4. PICK id : id = [o \in S |-> o]
    OBVIOUS
  <2>5. OperationJournalList(v) = [counted |-> S, rows |-> Sorted(S, key, id)]
    BY <2>1, <2>3, <2>4, Zenon DEF OperationJournalList
  <2>6. QED
    BY <2>2, <2>5, SortedList DEF Tells
<1>6. Tells(QueryExecute(v))
  <2>1. PICK S : S = Matching(v) /\ IsFiniteSet(S)
    BY Finite
  <2>2. PICK key : key = [b \in S |-> SortClause(b, v.sort)]
    OBVIOUS
  <2>3. PICK id : id = [b \in S |-> BookFacts[b].id]
    OBVIOUS
  <2>4. IsList(Sorted(S, key, id)) /\ Len(Sorted(S, key, id)) = Cardinality(S)
    BY <2>1, SortedList
  <2>5. QueryExecute(v) = [counted |-> S, rows |-> Sorted(S, key, id)]
    BY <2>1, <2>2, <2>3, Zenon DEF QueryExecute, BookRows
  <2>6. QED
    BY <2>4, <2>5 DEF Tells
<1>7. QED
  BY <1>1, <1>2, <1>3, <1>4, <1>5, <1>6

LEMMA SavedList ==
  ASSUME shelf \subseteq Books, SavedTyped, NEW v \in Views, v.endpoint = "saved/items", Exists(v)
  PROVE  IsList(SavedItems(v).rows)
<1>1. PICK q : q = saved[v.of] /\ q.cap \in Nat
  BY BrowseAssumption DEF SavedTyped, SavedRows, OptionOf, Exists
<1>2. PICK u : u = [q.view EXCEPT !.sort = IF q.sort = Nothing THEN @ ELSE q.sort]
  OBVIOUS
<1>3. PICK all : all = QueryExecute(u)
  OBVIOUS
<1>4. Tells(all)
  BY <1>3, ListsTell
<1>5. all = [counted |-> all.counted, rows |-> all.rows]
  BY <1>3 DEF QueryExecute
<1>6. SavedItems(v) = [all EXCEPT !.rows = PageOf(@, q.cap, 0)]
  BY <1>1, <1>2, <1>3 DEF SavedItems
<1>7. SavedItems(v).rows = PageOf(all.rows, q.cap, 0)
  BY <1>5, <1>6
<1>8. PICK T : all.rows \in Seq(T)
  BY <1>4 DEF Tells, IsList
<1>9. PageOf(all.rows, q.cap, 0) \in Seq(T)
  BY <1>1, <1>8, PageOfList
<1>10. QED
  BY <1>7, <1>9 DEF IsList

LEMMA FoundList ==
  ASSUME shelf \subseteq Books, NEW v
  PROVE  /\ IsList(Ranked(Exact(v), v)) /\ Len(Ranked(Exact(v), v)) = Cardinality(Exact(v))
         /\ IsList(Ranked(Near(v), v)) /\ Len(Ranked(Near(v), v)) = Cardinality(Near(v))
<1>1. IsFiniteSet(Exact(v)) /\ IsFiniteSet(Near(v))
  BY Finite
<1>2. ASSUME NEW S, IsFiniteSet(S)
      PROVE  IsList(Ranked(S, v)) /\ Len(Ranked(S, v)) = Cardinality(S)
  BY <1>2, RowsList, Zenon DEF Ranked
<1>3. QED
  BY <1>1, <1>2

\* What a request gets is a list; while it asks for rows that are there, it is
\* the list that the walk is to show, and the number told is that of its rows.
LEMMA ResultSound ==
  ASSUME shelf \subseteq Books, SavedTyped, NEW v \in Views, Exists(v), NEW l \in Nat, NEW o \in Nat
  PROVE  /\ IsList(Result(v, l, o).rows)
         /\ v.endpoint \notin {"search", "saved/items"} => Tells(Result(v, l, o))
         /\ v.endpoint # "search" => Result(v, l, o) = Result(v, MaxLimit, 0)
<1>1. v.endpoint \in Endpoints
  BY BrowseAssumption
<1>2. CASE v.endpoint = "search"
  <2>1. Result(v, l, o) = Search(v, l, o)
    BY <1>2 DEF Result
  <2>2. QED
    BY <1>2, <2>1, FoundList DEF Search
<1>3. CASE v.endpoint = "saved/items"
  <2>1. \A k, n : Result(v, k, n) = SavedItems(v)
    BY <1>3 DEF Result
  <2>2. QED
    BY <1>3, <2>1, SavedList
<1>4. CASE v.endpoint \in Endpoints \ {"search", "saved/items"}
  <2>1. Tells(Result(v, l, o)) /\ Result(v, l, o) = Result(v, MaxLimit, 0)
    <3>1. CASE v.endpoint = "authors"
      <4>1. \A k, n : Result(v, k, n) = AuthorsList(v)
        BY <3>1 DEF Result
      <4>2. QED
        BY <4>1, ListsTell
    <3>2. CASE v.endpoint = "narrators"
      <4>1. \A k, n : Result(v, k, n) = NarratorsList(v)
        BY <3>2 DEF Result
      <4>2. QED
        BY <4>1, ListsTell
    <3>3. CASE v.endpoint = "series"
      <4>1. \A k, n : Result(v, k, n) = SeriesList(v)
        BY <3>3 DEF Result
      <4>2. QED
        BY <4>1, ListsTell
    <3>4. CASE v.endpoint = "publishers"
      <4>1. \A k, n : Result(v, k, n) = PublishersList(v)
        BY <3>4 DEF Result
      <4>2. QED
        BY <4>1, ListsTell
    <3>5. CASE v.endpoint = "collections"
      <4>1. \A k, n : Result(v, k, n) = CollectionsList(v)
        BY <3>5 DEF Result
      <4>2. QED
        BY <4>1, ListsTell
    <3>6. CASE v.endpoint = "authors/books"
      <4>1. \A k, n : Result(v, k, n) = AuthorsBooks(v)
        BY <3>6 DEF Result
      <4>2. QED
        BY <4>1, ListsTell
    <3>7. CASE v.endpoint = "narrators/books"
      <4>1. \A k, n : Result(v, k, n) = NarratorsBooks(v)
        BY <3>7 DEF Result
      <4>2. QED
        BY <4>1, ListsTell
    <3>8. CASE v.endpoint = "publishers/books"
      <4>1. \A k, n : Result(v, k, n) = PublishersBooks(v)
        BY <3>8 DEF Result
      <4>2. QED
        BY <4>1, ListsTell
    <3>9. CASE v.endpoint = "collections/books"
      <4>1. \A k, n : Result(v, k, n) = CollectionsBooks(v)
        BY <3>9 DEF Result
      <4>2. QED
        BY <4>1, ListsTell
    <3>10. CASE v.endpoint = "series/books"
      <4>1. \A k, n : Result(v, k, n) = SeriesBooks(v)
        BY <3>10 DEF Result
      <4>2. QED
        BY <4>1, ListsTell
    <3>11. CASE v.endpoint = "books/collections"
      <4>1. \A k, n : Result(v, k, n) = BooksCollections(v)
        BY <3>11 DEF Result
      <4>2. QED
        BY <4>1, ListsTell
    <3>12. CASE v.endpoint = "journal"
      <4>1. \A k, n : Result(v, k, n) = OperationJournalList(v)
        BY <3>12 DEF Result
      <4>2. QED
        BY <4>1, ListsTell
    <3>13. CASE v.endpoint = "books"
      <4>1. \A k, n : Result(v, k, n) = QueryExecute(v)
        BY <3>13 DEF Result
      <4>2. QED
        BY <4>1, ListsTell
    <3>14. QED
      BY <1>4, <3>1, <3>2, <3>3, <3>4, <3>5, <3>6, <3>7, <3>8, <3>9, <3>10, <3>11, <3>12, <3>13 DEF Endpoints
  <2>2. QED
    BY <1>4, <2>1 DEF Tells
<1>5. QED
  BY <1>1, <1>2, <1>3, <1>4

LEMMA ResultIsWhole ==
  ASSUME shelf \subseteq Books, SavedTyped, NEW v \in Views, Exists(v), NEW l \in Nat \ {0}, NEW o \in Nat,
         o = 0 \/ o < Len(Whole(v))
  PROVE  /\ Result(v, l, o).rows = Whole(v) /\ IsList(Whole(v))
         /\ v.endpoint # "saved/items" => Cardinality(Result(v, l, o).counted) = Len(Whole(v))
<1>1. CASE v.endpoint # "search"
  <2>1. Whole(v) = Result(v, MaxLimit, 0).rows /\ MaxLimit \in Nat
    BY <1>1, BrowseAssumption DEF Whole
  <2>2. QED
    BY <1>1, <2>1, ResultSound DEF Tells
<1>2. CASE v.endpoint = "search"
  <2>1. Result(v, l, o) = Search(v, l, o)
    BY <1>2 DEF Result
  <2>2. PICK T : Ranked(Exact(v), v) \in Seq(T)
    BY FoundList DEF IsList
  <2>3. CASE Exact(v) = {}
    <3>1. Len(Ranked(Exact(v), v)) = 0
      BY <2>3, FoundList, FS_EmptySet
    <3>2. PageOf(Ranked(Exact(v), v), l, o) = <<>>
      <4>1. PICK rows \in Seq(T) : rows = Ranked(Exact(v), v) /\ Len(rows) = 0
        BY <2>2, <3>1
      <4>2. l \in Nat /\ o >= Len(rows)
        BY <4>1
      <4>3. PageOf(rows, l, o) = <<>>
        BY <4>2, PageOfList
      <4>4. QED
        BY <4>1, <4>3
    <3>3. Result(v, l, o) = [counted |-> Near(v), rows |-> Ranked(Near(v), v)]
      BY <2>1, <3>2 DEF Search
    <3>4. Whole(v) = Ranked(Near(v), v)
      BY <1>2, <2>3 DEF Whole
    <3>5. QED
      BY <3>3, <3>4, FoundList
  <2>4. CASE Exact(v) # {}
    <3>1. Whole(v) = Ranked(Exact(v), v)
      BY <1>2, <2>4 DEF Whole
    <3>2. Len(Ranked(Exact(v), v)) > 0
      BY <2>4, FoundList, Finite, FS_EmptySet, FS_CardinalityType
    <3>3. Len(PageOf(Ranked(Exact(v), v), l, o)) > 0
      BY <2>2, <3>1, <3>2, PageOfList
    <3>4. PageOf(Ranked(Exact(v), v), l, o) # <<>>
      BY <3>3
    <3>5. Result(v, l, o) = [counted |-> Exact(v), rows |-> Ranked(Exact(v), v)]
      BY <2>1, <3>4 DEF Search
    <3>6. QED
      BY <3>1, <3>5, FoundList
  <2>5. QED
    BY <2>3, <2>4
<1>3. QED
  BY <1>1, <1>2

(* A walk under way has shown the first rows of the list, as many as its     *)
(* offset says, and asks for more only where there are more; what it was     *)
(* told is the length of the list.                                           *)
WalkShaped ==
  walk # Nothing =>
    /\ walk = [view |-> walk.view, asks |-> walk.asks, offset |-> walk.offset, at |-> walk.at,
               total |-> walk.total, limit |-> walk.limit, seen |-> walk.seen]
    /\ walk.view \in Views /\ walk.asks \in Limits /\ walk.at \in {"count", "page", "done"} /\ walk.offset \in Nat
    /\ walk.at = "page" => walk.limit \in Nat \ {0}
WalkTiles ==
  walk # Nothing /\ calm =>
    /\ Exists(walk.view)
    /\ walk.seen = SubSeq(Whole(walk.view), 1, walk.offset) /\ walk.offset <= Len(Whole(walk.view))
    /\ walk.at # "done" => walk.offset = 0 \/ (Paged(walk.view) /\ walk.offset < Len(Whole(walk.view)))
    /\ walk.at # "count" /\ walk.view.endpoint # "saved/items" => walk.total = Len(Whole(walk.view))
    /\ walk.at = "done" => walk.offset = Len(Whole(walk.view))
BwInv ==
  /\ shelf \subseteq Books /\ hidden \subseteq shelf /\ calm \in BOOLEAN /\ SavedTyped
  /\ WalkShaped /\ WalkTiles

LEMMA BrowseInit == BwInit => BwInv
<1> SUFFICES ASSUME BwInit
             PROVE  BwInv
  OBVIOUS
<1>1. SavedTyped
  BY Zenon DEF BwInit, SavedTyped, OptionOf
<1>2. QED
  BY <1>1 DEF BwInit, BwInv, WalkShaped, WalkTiles

\* Changes of the shelf and of saved queries end the calm.
LEMMA ChangesKeep ==
  ASSUME BwInv, Changes, shelf' \subseteq Books, hidden' \subseteq shelf', SavedTyped'
  PROVE  BwInv'
  BY DEF BwInv, Changes, WalkShaped, WalkTiles

LEMMA BooksKeep ==
  ASSUME BwInv, NEW b \in Books, BookComes(b) \/ BookLeaves(b) \/ BookHides(b)
  PROVE  BwInv'
<1>1. Changes /\ UNCHANGED saved /\ shelf' \subseteq Books /\ hidden' \subseteq shelf'
  BY DEF BwInv, BookComes, BookLeaves, BookHides
<1>2. SavedTyped'
  BY <1>1 DEF BwInv, SavedTyped
<1>3. QED
  BY <1>1, <1>2, ChangesKeep

LEMMA SavedKeeps ==
  ASSUME BwInv, NEW q \in DOMAIN Queries, SavedCreate(q) \/ SavedUpdate(q, "title") \/ SavedDelete(q)
  PROVE  BwInv'
<1>1. Changes /\ UNCHANGED <<shelf, hidden>>
  BY DEF SavedCreate, SavedUpdate, SavedDelete
<1>2. DOMAIN saved = DOMAIN Queries /\ \A p \in DOMAIN Queries : saved[p] \in OptionOf(SavedRows(p))
  BY DEF BwInv, SavedTyped
<1>3. PICK r : saved' = [saved EXCEPT ![q] = r] /\ r \in OptionOf(SavedRows(q))
  <2>1. CASE SavedCreate(q)
    BY <2>1, BrowseAssumption DEF SavedCreate, OptionOf
  <2>2. CASE SavedDelete(q)
    BY <2>2 DEF SavedDelete, OptionOf
  <2>3. CASE SavedUpdate(q, "title")
    <3>1. saved[q] \in SavedRows(q)
      BY <1>2, <2>3 DEF SavedUpdate, OptionOf
    <3>2. PICK r : r = [saved[q] EXCEPT !.sort = "title"]
      OBVIOUS
    <3>3. r \in SavedRows(q)
      BY <3>1, <3>2 DEF SavedRows, OptionOf
    <3>4. saved' = [saved EXCEPT ![q] = r]
      BY <2>3, <3>2 DEF SavedUpdate
    <3>5. QED
      BY <3>3, <3>4 DEF OptionOf
  <2>4. QED
    BY <2>1, <2>2, <2>3
<1>4. SavedTyped'
  BY <1>2, <1>3 DEF SavedTyped
<1>5. QED
  BY <1>1, <1>4, ChangesKeep DEF BwInv

LEMMA SameLists ==
  ASSUME UNCHANGED <<shelf, hidden, saved>>
  PROVE  /\ \A v : Whole(v)' = Whole(v) /\ Exists(v)' = Exists(v)
         /\ SavedTyped' = SavedTyped
  BY DEF SavedTyped, Exists, Whole, Exact, Near, Ranked, OfKind, BookRows, EntityRows, EntityKeys,
    BookCount, BooksBy, Result, AuthorsList, NarratorsList, SeriesList, PublishersList, CollectionsList,
    AuthorsBooks, NarratorsBooks, PublishersBooks, CollectionsBooks, SeriesBooks, BooksCollections,
    OperationJournalList, QueryExecute, Matching, Search, SavedItems

LEMMA StartKeeps ==
  ASSUME BwInv, NEW v \in Views, NEW n \in Limits, StartWalk(v, n)
  PROVE  BwInv'
<1>1. Exists(v) /\ UNCHANGED <<shelf, hidden, saved>> /\ calm' = TRUE
        /\ walk' = [view |-> v, asks |-> n, offset |-> 0, at |-> "count", total |-> 0, limit |-> 0, seen |-> <<>>]
  BY DEF StartWalk
<1>2. Whole(v)' = Whole(v) /\ Exists(v)' = Exists(v) /\ SavedTyped'
  BY <1>1, SameLists DEF BwInv
<1>3. PICK T : Whole(v) \in Seq(T)
  BY <1>1, ResultIsWhole, BrowseAssumption DEF BwInv, IsList
<1>4. SubSeq(Whole(v), 1, 0) = <<>> /\ 0 <= Len(Whole(v))
  BY <1>3, SubSeqEmpty
<1>5. WalkShaped'
  BY <1>1 DEF WalkShaped
<1>6. WalkTiles'
  BY <1>1, <1>2, <1>4 DEF WalkTiles
<1>7. QED
  BY <1>1, <1>2, <1>5, <1>6 DEF BwInv

LEMMA CountKeeps ==
  ASSUME BwInv, CountRows
  PROVE  BwInv'
<1> DEFINE v == walk.view
           l == ClampLimit(walk.asks)
           total == Cardinality(Result(v, l, walk.offset).counted)
<1>1. /\ walk # Nothing /\ walk.at = "count" /\ Exists(v) /\ UNCHANGED <<shelf, hidden, saved, calm>>
      /\ walk' = [walk EXCEPT !.at = "page", !.limit = l, !.total = total]
  BY DEF CountRows
<1>2. l \in Nat \ {0}
  BY <1>1, BrowseAssumption DEF BwInv, WalkShaped, ClampLimit
<1>3. calm => total = Len(Whole(v)) \/ v.endpoint = "saved/items"
  <2> SUFFICES ASSUME calm
               PROVE  total = Len(Whole(v)) \/ v.endpoint = "saved/items"
    OBVIOUS
  <2>1. walk.offset = 0 \/ walk.offset < Len(Whole(v))
    BY <1>1 DEF BwInv, WalkTiles
  <2>2. v \in Views /\ walk.offset \in Nat
    BY <1>1 DEF BwInv, WalkShaped
  <2> HIDE DEF l, v
  <2>3. QED
    BY <1>1, <1>2, <2>1, <2>2, ResultIsWhole DEF BwInv
<1>4. Whole(v)' = Whole(v) /\ Exists(v)' = Exists(v)
  <2>1. walk'.view = walk.view
    BY <1>1 DEF BwInv, WalkShaped
  <2>2. QED
    BY <1>1, <2>1, SameLists
<1> HIDE DEF l, total
<1>5. walk' = [view |-> walk.view, asks |-> walk.asks, offset |-> walk.offset, at |-> "page",
               total |-> total, limit |-> l, seen |-> walk.seen]
  BY <1>1 DEF BwInv, WalkShaped
<1>6. WalkShaped'
  BY <1>1, <1>2, <1>5 DEF BwInv, WalkShaped
<1>7. WalkTiles'
  BY <1>1, <1>3, <1>4, <1>5 DEF BwInv, WalkTiles, Paged
<1>8. QED
  BY <1>1, <1>6, <1>7, SameLists DEF BwInv

LEMMA SelectKeeps ==
  ASSUME BwInv, SelectPage
  PROVE  BwInv'
<1>1. PICK v \in Views : v = walk.view
  BY DEF SelectPage, BwInv, WalkShaped
<1>2. PICK o \in Nat : o = walk.offset
  BY DEF SelectPage, BwInv, WalkShaped
<1>3. PICK l \in Nat \ {0} : l = walk.limit
  BY DEF SelectPage, BwInv, WalkShaped
<1>4. walk # Nothing /\ walk.at = "page" /\ Exists(v) /\ UNCHANGED <<shelf, hidden, saved, calm>>
  BY <1>1 DEF SelectPage
<1>5. PICK r : r = Result(v, l, o).rows
  OBVIOUS
<1>6. PICK page : page = IF Paged(v) THEN PageOf(r, l, o) ELSE r
  OBVIOUS
<1>7. PICK next : next = o + Len(page)
  OBVIOUS
<1>8. PICK at : at = IF next >= walk.total \/ page = <<>> \/ ~Paged(v) THEN "done" ELSE "count"
  OBVIOUS
<1>9. walk' = [view |-> v, asks |-> walk.asks, offset |-> next, at |-> at, total |-> walk.total,
               limit |-> l, seen |-> walk.seen \o page]
  <2>1. PICK joined : joined = walk.seen \o page
    OBVIOUS
  <2>2. walk' = [walk EXCEPT !.seen = joined, !.offset = next, !.at = at]
    BY <1>1, <1>2, <1>3, <1>5, <1>6, <1>7, <1>8, <2>1 DEF SelectPage
  <2>3. walk = [view |-> walk.view, asks |-> walk.asks, offset |-> walk.offset, at |-> walk.at,
                total |-> walk.total, limit |-> walk.limit, seen |-> walk.seen]
    BY <1>4 DEF BwInv, WalkShaped
  <2>4. walk' = [view |-> walk.view, asks |-> walk.asks, offset |-> next, at |-> at,
                 total |-> walk.total, limit |-> walk.limit, seen |-> joined]
    BY <2>2, <2>3
  <2>5. QED
    BY <1>1, <1>3, <2>1, <2>4
<1>10. PICK T : r \in Seq(T)
  BY <1>4, <1>5, ResultSound DEF BwInv, IsList
<1>11. page \in Seq(T)
  BY <1>6, <1>10, PageOfList
<1>12. next \in Nat /\ at \in {"count", "done"}
  BY <1>7, <1>8, <1>11
<1>13. WalkShaped'
  BY <1>4, <1>9, <1>12 DEF BwInv, WalkShaped
<1>14. Whole(v)' = Whole(v) /\ Exists(v)' = Exists(v) /\ SavedTyped' = SavedTyped
  BY <1>4, SameLists
<1>15. ASSUME calm
       PROVE  /\ walk.seen \o page = SubSeq(Whole(v), 1, next) /\ next <= Len(Whole(v))
              /\ at # "done" => Paged(v) /\ next < Len(Whole(v))
              /\ v.endpoint # "saved/items" => walk.total = Len(Whole(v))
              /\ at = "done" => next = Len(Whole(v))
  <2>1. /\ walk.seen = SubSeq(Whole(v), 1, o) /\ o <= Len(Whole(v))
        /\ o = 0 \/ (Paged(v) /\ o < Len(Whole(v)))
        /\ v.endpoint # "saved/items" => walk.total = Len(Whole(v))
    BY <1>1, <1>2, <1>4, <1>15 DEF BwInv, WalkTiles
  <2>2. r = Whole(v)
    BY <1>4, <1>5, <2>1, ResultIsWhole DEF BwInv
  <2>3. /\ page = SubSeq(r, o + 1, next) /\ next <= Len(r) /\ Len(page) \in Nat
        /\ o < Len(r) => page # <<>>
        /\ ~Paged(v) => next = Len(r)
    <3>1. CASE Paged(v)
      <4>1. page = PageOf(r, l, o)
        BY <1>6, <3>1
      <4>2. /\ o <= Len(r) => page = SubSeq(r, o + 1, o + Len(page)) /\ o + Len(page) <= Len(r)
            /\ o < Len(r) => Len(page) > 0
        BY <1>10, <4>1, PageOfList
      <4>3. o < Len(r) => page # <<>>
        BY <4>2
      <4>4. QED
        BY <1>7, <1>11, <2>1, <2>2, <3>1, <4>2, <4>3
    <3>2. CASE ~Paged(v)
      <4>1. o = 0 /\ page = r
        BY <1>6, <2>1, <3>2
      <4>2. next = Len(r)
        BY <1>7, <1>10, <4>1
      <4>3. page = SubSeq(r, 1, Len(r))
        BY <1>10, <4>1, SubSeqFull
      <4>4. o < Len(r) => page # <<>>
        BY <4>1
      <4>5. QED
        BY <1>10, <4>1, <4>2, <4>3, <4>4
    <3>3. QED
      BY <3>1, <3>2
  <2>4. walk.seen \o page = SubSeq(r, 1, next)
    <3>1. 1 \in 1 .. Len(r) + 1 /\ o \in 0 .. Len(r) /\ next \in o .. Len(r)
      BY <1>7, <1>10, <1>11, <2>1, <2>2, <2>3
    <3>2. SubSeq(r, 1, o) \o SubSeq(r, o + 1, next) = SubSeq(r, 1, next)
      BY <1>10, <3>1, ConcatAdjacentSubSeq
    <3>3. QED
      BY <2>1, <2>2, <2>3, <3>2
  <2>5. v.endpoint = "saved/items" => ~Paged(v)
    BY DEF Paged
  <2>6. at # "done" => Paged(v) /\ next < Len(r)
    BY <1>8, <1>10, <1>12, <2>1, <2>2, <2>3, <2>5
  <2>7. at = "done" => next = Len(r)
    <3>1. CASE ~Paged(v)
      BY <2>3, <3>1
    <3>2. CASE Paged(v) /\ page = <<>>
      <4>1. Len(page) = 0
        BY <3>2
      <4>2. QED
        BY <1>7, <2>1, <2>2, <2>3, <3>2, <4>1, <1>10
    <3>3. CASE Paged(v) /\ page # <<>>
      <4>1. at = "done" => next >= walk.total
        BY <1>8, <3>3
      <4>2. walk.total = Len(r)
        BY <2>1, <2>2, <2>5, <3>3
      <4>3. Len(r) \in Nat /\ next <= Len(r)
        BY <1>10, <2>3
      <4>4. QED
        BY <1>12, <4>1, <4>2, <4>3
    <3>4. QED
      BY <3>1, <3>2, <3>3
  <2>8. QED
    BY <2>1, <2>2, <2>3, <2>4, <2>6, <2>7
<1>16. WalkTiles'
  <2>1. walk' # Nothing /\ calm' => calm /\ walk'.view = v
    BY <1>4, <1>9
  <2>2. QED
    BY <1>4, <1>9, <1>14, <1>15, <2>1 DEF WalkTiles
<1>17. QED
  BY <1>4, <1>13, <1>14, <1>16 DEF BwInv

LEMMA BrowseKeeps ==
  ASSUME BwInv, [BwStep]_bwVars
  PROVE  BwInv'
<1>1. CASE \E v \in Views, n \in Limits : StartWalk(v, n)
  BY <1>1, StartKeeps
<1>2. CASE CountRows
  BY <1>2, CountKeeps
<1>3. CASE SelectPage
  BY <1>3, SelectKeeps
<1>4. CASE StopWalk
  <2>1. walk' = Nothing /\ UNCHANGED <<shelf, hidden, saved, calm>>
    BY <1>4 DEF StopWalk
  <2>2. QED
    BY <2>1, SameLists DEF BwInv, WalkShaped, WalkTiles
<1>5. CASE \E b \in Books : BookComes(b) \/ BookLeaves(b) \/ BookHides(b)
  BY <1>5, BooksKeep
<1>6. CASE \E q \in DOMAIN Queries : SavedCreate(q) \/ SavedUpdate(q, "title") \/ SavedDelete(q)
  BY <1>6, SavedKeeps
<1>7. CASE UNCHANGED bwVars
  <2>1. UNCHANGED <<shelf, hidden, saved, walk, calm>>
    BY <1>7 DEF bwVars
  <2>2. \A v : Whole(v)' = Whole(v) /\ Exists(v)' = Exists(v)
    BY <2>1, SameLists
  <2>3. WalkTiles'
    <3>1. SUFFICES ASSUME walk # Nothing, calm
                   PROVE  WalkTiles'
      BY <2>1 DEF WalkTiles
    <3>2. PICK v : v = walk.view
      OBVIOUS
    <3>3. Whole(v)' = Whole(v) /\ Exists(v)' = Exists(v) /\ walk'.view = v
      BY <2>1, <2>2, <3>2
    <3>4. QED
      BY <2>1, <3>2, <3>3 DEF BwInv, WalkTiles, Paged
  <2>4. QED
    BY <2>1, <2>3, SameLists DEF BwInv, WalkShaped
<1>8. QED
  BY <1>1, <1>2, <1>3, <1>4, <1>5, <1>6, <1>7 DEF BwStep

(* What is hidden is a book, a saved query keeps its columns, and a walk that *)
(* books come and go under keeps an offset that is a number.                 *)
THEOREM BrowseTypes == BwInit /\ [][BwStep]_bwVars => []BwTypeOK
<1>1. BwInv => BwTypeOK
  BY DEF BwInv, SavedTyped, WalkShaped, BwTypeOK
<1>2. QED
  BY <1>1, BrowseInit, BrowseKeeps, PTL

(* A walk through the pages, whatever the client asks for at once and of     *)
(* whichever list, shows every row once and in order, and as many as it was  *)
(* told, as long as nothing changes: of any number of books and entities.    *)
THEOREM PagesTiled == BwInit /\ [][BwStep]_bwVars => []PagesTile
<1>1. BwInv => PagesTile
  <2> SUFFICES ASSUME BwInv, walk # Nothing, walk.at = "done", calm
               PROVE  /\ walk.seen = Whole(walk.view)
                      /\ walk.view.endpoint # "saved/items" => walk.total = Len(walk.seen)
    BY DEF PagesTile
  <2>1. PICK v \in Views : v = walk.view
    BY DEF BwInv, WalkShaped
  <2>2. /\ Exists(v) /\ walk.seen = SubSeq(Whole(v), 1, Len(Whole(v)))
        /\ v.endpoint # "saved/items" => walk.total = Len(Whole(v))
    BY <2>1 DEF BwInv, WalkTiles
  <2>3. PICK T : Whole(v) \in Seq(T)
    BY <2>2, ResultIsWhole, BrowseAssumption DEF BwInv, IsList
  <2>4. SubSeq(Whole(v), 1, Len(Whole(v))) = Whole(v)
    BY <2>3, SubSeqFull
  <2>5. QED
    BY <2>1, <2>2, <2>4
<1>2. QED
  BY <1>1, BrowseInit, BrowseKeeps, PTL

-----------------------------------------------------------------------------
(* --- The components together --------------------------------------------- *)
(* The small instances side by side: a step of the composition is a step of  *)
(* one model, and leaves the others where they are.                          *)

LEMMA EachStarts ==
  Init => /\ part \in Parts /\ BrInit /\ UpInit /\ LiInit /\ RpInit /\ BwInit /\ DoInit
          /\ CoInit /\ SoInit /\ FiInit /\ ShInit /\ DgInit
  BY DEF Init

LEMMA EachSteps ==
  [Next]_vars => /\ [LiStep]_liVars /\ [RpStep]_rpVars /\ [CoStep]_coVars
                 /\ [DoStep]_doVars /\ [DgNext]_dagVars /\ [ShStep]_shVars
  BY DEF Next, vars, moreVars

LEMMA OthersStep ==
  [Next]_vars => /\ [BrStep]_brVars /\ [TaskStep \/ TableStep]_upVars /\ [BwStep]_bwVars
                 /\ [SoStep]_soVars /\ [FiStep]_fiVars /\ UNCHANGED part
<1> SUFFICES ASSUME [Next]_vars
             PROVE  /\ [BrStep]_brVars /\ [TaskStep \/ TableStep]_upVars /\ [BwStep]_bwVars
                    /\ [SoStep]_soVars /\ [FiStep]_fiVars /\ UNCHANGED part
  OBVIOUS
<1>1. [BrStep]_brVars /\ [TaskStep \/ TableStep]_upVars /\ [BwStep]_bwVars /\ UNCHANGED part
  BY DEF Next, vars, moreVars
<1>2. CopyStep => SoStep
  BY MCAssumption DEF CopyStep, SoStep
<1>3. FigureStep \/ ReportStep \/ BookScanned(b1) \/ FactTurns(b1, "asin") => FiStep
  BY MCAssumption DEF FiStep, FigureStep
<1>4. MoreHeard \/ MoreSaid => SoStep
  BY DEF SoStep
<1>5. [SoStep]_soVars
  BY <1>2, <1>4 DEF Next, vars, moreVars
<1>6. [FiStep]_fiVars
  BY <1>3 DEF Next, vars, moreVars
<1>7. QED
  BY <1>1, <1>5, <1>6

(* Every component keeps its types in every behaviour of the components side *)
(* by side (MCLibrary!TypeOK).                                               *)
THEOREM TypesHold == Spec => []TypeOK
<1>1. Spec => /\ LiSpec /\ RpSpec /\ CoSpec /\ DoSpec /\ DgSpec /\ ShSpec /\ UpSpec
              /\ BrInit /\ [][BrStep]_brVars /\ BwInit /\ [][BwStep]_bwVars
              /\ SoInit /\ [][SoStep]_soVars /\ FiInit /\ [][FiStep]_fiVars
              /\ part \in Parts /\ [][UNCHANGED part]_vars
  <2>1. [Next]_vars => [UNCHANGED part]_vars
    BY OthersStep
  <2>2. QED
    BY <2>1, EachStarts, EachSteps, OthersStep, PTL
    DEF Spec, LiSpec, RpSpec, CoSpec, DoSpec, DgSpec, ShSpec, UpSpec
<1>2. part \in Parts /\ [][UNCHANGED part]_vars => [](part \in Parts)
  <2>1. part \in Parts /\ [UNCHANGED part]_vars => (part \in Parts)'
    BY DEF vars
  <2>2. QED
    BY <2>1, PTL
<1>3. DgInv => DgTypeOK
  BY DEF DgInv
<1>4. part \in Parts /\ BrTypeOK /\ UpTypeOK /\ LiTypeOK /\ RpTypeOK /\ BwTypeOK
        /\ DoTypeOK /\ CoTypeOK /\ SoTypeOK /\ FiTypeOK /\ ShTypeOK /\ DgTypeOK => TypeOK
  BY DEF TypeOK
<1>5. QED
  BY <1>1, <1>2, <1>3, <1>4, ListeningTypes, ReplayTypes, CompanionTypes, DoctorTypes, SortInvariant, ShelfTypes,
     UpkeepTypes, BridgeTypes, BrowseTypes, SoundsTypes, FiguresTypes, PTL

(* What the components write down stays true in every behaviour of them:     *)
(* progress, replayed operations, companion counts, findings, the stage      *)
(* order and what is played (MCLibrary!RecordsTrue).                         *)
THEOREM RecordsStayTrue == Spec => []RecordsTrue
<1>1. Spec => LiSpec /\ RpSpec /\ CoSpec /\ DoSpec /\ DgSpec /\ ShSpec
  BY EachStarts, EachSteps, PTL DEF Spec, LiSpec, RpSpec, CoSpec, DoSpec, DgSpec, ShSpec
<1>2. NewestReportStays /\ ReplayedAsDone /\ CountsKept /\ RemediesClear /\ OrderSound /\ BuildSound
        /\ PlayedWhole => RecordsTrue
  BY DEF RecordsTrue
<1> QED
  BY <1>1, <1>2, NewestReportWins, ReplayIsDoneOnce, CountersCount, RemediesCure, OrderIsSound, BuildIsSound,
     PlayersGetTheFile, PTL

=============================================================================
