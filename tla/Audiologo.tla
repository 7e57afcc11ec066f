----------------------------- MODULE Audiologo -----------------------------
(* A publisher's jingle at the head of a book's first file and at the tail  *)
(* of its last one: found and cut by detect-audiologo                       *)
(* (audiologo/{stage,apply,transcript_aided}), approved, rejected or cut by *)
(* hand (api/audiologo_{apply,review}, api/router).  A cut removes no       *)
(* audio; it moves the chapters and shortens the book.                      *)
EXTENDS Common, Sequences, SequencesExt

CONSTANTS
  FileLengths,  \* of the book's files, in file_id order
  Marks,        \* ChapterLists -> chapters <<from, to>> before any cut, in book time
  Jingles,      \* [kind, from, to, sure] in file time: what detection may find, and
                \* whether its confidence clears the floor of its method
  ManualCuts,   \* [kind, file, from, to] an operator may ask for
  Paddings,     \* kind -> default silence left by detection
  Brand,        \* books.brand_intro_duration_ms
  Confirmations,\* matches that confirm a fingerprint
  MaxRows, MaxAsks, MaxResets \* bounds: audiologo rows, requests, retries and crashes

VARIABLES
  rows,     \* book_file_audiologos
  chapters, \* the chapter lists
  duration, \* books.duration_ms
  status,   \* books.audiologo_status
  matches, verified,  \* audiologos.match_count and verified_via
  pending,  \* whether the stage is to run
  detect,   \* the stage under way
  asks,     \* requests under way
  cutBy,    \* who has cut, and whether a retry forgot it
  resets, requests

auVars == <<rows, chapters, duration, status, matches, verified, pending, detect, asks, cutBy, resets, requests>>

ChapterLists == {"audnexus", "embedded"}
JingleKinds == {"intro", "outro"}
Statuses == {"unknown", "detected", "applied", "stripped", "rejected"}
Total == SumSeq(FileLengths)
FileOf(kind) == IF kind = "outro" THEN Len(FileLengths) ELSE 1

ASSUME AudiologoAssumption ==
  /\ FileLengths \in Seq(Nat) /\ FileLengths # <<>> /\ Marks \in [ChapterLists -> Seq(Int \X Int)]
  /\ Jingles \subseteq [kind : JingleKinds, from : Nat, to : Nat, sure : BOOLEAN]
  /\ ManualCuts \subseteq [kind : JingleKinds, file : DOMAIN FileLengths, from : Nat, to : Nat]
  /\ Paddings \in [JingleKinds -> Nat] /\ Brand \in OptionOf(Nat) /\ Confirmations \in Nat
  /\ MaxRows \in Nat /\ MaxAsks \in Nat /\ MaxResets \in Nat

AuInit ==
  /\ rows = {} /\ chapters = Marks /\ duration = Total /\ status = "unknown"
  /\ matches = 0 /\ verified = FALSE
  /\ pending = TRUE /\ detect = Nothing /\ asks = {} /\ cutBy = {} /\ resets = 0 /\ requests = 0

With(s) == {r \in rows : r.status = s}
Applied(rs, file, kind) == \E r \in rs : r.status = "applied" /\ r.file = file /\ r.kind = kind
NewRow(j, file, method, s) ==
  [id |-> Cardinality(rows), kind |-> j.kind, file |-> file, from |-> j.from, to |-> j.to,
   method |-> method, status |-> s]
Positive(n) == IF n > 0 THEN n ELSE 0
Moved(c, by) == <<c[1] - by, c[2] - by>>
Shrunk(c, by) == <<c[1], c[2] - by>>

-----------------------------------------------------------------------------
(* detect-audiologo: both windows, the transcripts, the book's status, and   *)
(* then the cuts.  Each insert is a transaction of its own.                  *)

InDetect(place) == detect # Nothing /\ detect.at = place
Goes(place) == detect' = [detect EXCEPT !.at = place]

StartDetect ==
  /\ pending /\ pending' = FALSE
  /\ detect = Nothing /\ detect' = [at |-> "intro", hit |-> FALSE]
  /\ UNCHANGED <<rows, chapters, duration, status, matches, verified, asks, cutBy, resets, requests>>

InsertCandidateRow(j, method, next) ==
  /\ Cardinality(rows) < MaxRows
  /\ rows' = rows \cup {NewRow(j, FileOf(j.kind), method, "candidate")}
  /\ detect' = [at |-> next, hit |-> TRUE]

(* A fingerprint in the window is a new candidate, whatever is there; below  *)
(* the floor of its method it is a faint one.                               *)
Fingerprints == {"fingerprint", "faint"}
DetectWindow(kind, next) ==
  /\ InDetect(kind)
  /\ \/ \E j \in Jingles :
          /\ j.kind = kind /\ InsertCandidateRow(j, IF j.sure THEN "fingerprint" ELSE "faint", next)
          /\ matches' = IF matches < Confirmations THEN matches + 1 ELSE matches
     \/ Goes(next) /\ UNCHANGED <<rows, matches>>
  /\ UNCHANGED <<chapters, duration, status, verified, pending, asks, cutBy, resets, requests>>

(* A phrase in a transcript is one unless the file has one of that kind; the *)
(* head is asked for an intro, then the tail for an outro.                  *)
PersistTranscriptCandidate(kind, place, next) ==
  /\ InDetect(place)
  /\ \/ \E j \in Jingles :
          /\ j.kind = kind
          /\ ~\E r \in With("candidate") : r.file = FileOf(kind) /\ r.kind = kind
          /\ InsertCandidateRow(j, "transcript", next)
     \/ Goes(next) /\ UNCHANGED rows
  /\ UNCHANGED <<chapters, duration, status, matches, verified, pending, asks, cutBy, resets, requests>>

\* Mutant: the book takes the name of its row's status.
UpdateBookStatusAsRow ==
  /\ InDetect("status") /\ Goes("load")
  /\ status' = IF detect.hit THEN "candidate" ELSE status
  /\ UNCHANGED <<rows, chapters, duration, matches, verified, pending, asks, cutBy, resets, requests>>
UpdateBookStatus ==
  /\ InDetect("status") /\ Goes("load")
  /\ status' = IF detect.hit THEN "detected" ELSE status
  /\ UNCHANGED <<rows, chapters, duration, matches, verified, pending, asks, cutBy, resets, requests>>

(* The candidates are read before the transaction that promotes those that   *)
(* apply by themselves and clear their floor.                               *)
LoadCandidateRows ==
  /\ InDetect("load")
  /\ detect' = [at |-> "apply", hit |-> detect.hit, found |-> {r \in With("candidate") : r.method = "fingerprint"}]
  /\ UNCHANGED <<rows, chapters, duration, status, matches, verified, pending, asks, cutBy, resets, requests>>

CutMs(r) == Positive(r.to - r.from - Paddings[r.kind])
Ids(S) == {r.id : r \in S}
RowAt(S, id) == CHOOSE r \in S : r.id = id
SumOver(S, W(_)) ==
  SumSeq([n \in 1 .. MaxRows |-> IF n - 1 \in Ids(S) THEN W(RowAt(S, n - 1)) ELSE 0])
LastEnd(list) == IF list = <<>> THEN Nothing ELSE list[Len(list)][2]
ClassifyEmbeddedCoverage(cut) ==
  LET end == LastEnd(chapters["embedded"])
  IN  CASE end = Nothing \/ end = Total -> "full"
        [] end # Nothing /\ end # Total -> IF end = Total - cut THEN "prestripped" ELSE "ambiguous"

(* A row's times are compared with the chapters' as they are.               *)
ShiftChaptersForCut(list, r) ==
  [n \in DOMAIN list |->
    LET c == list[n]
    IN  CASE c[1] >= r.to -> Moved(c, CutMs(r))
          [] c[1] < r.from /\ c[2] > r.to -> Shrunk(c, CutMs(r))
          [] OTHER -> c]
(* One row after the other, ORDER BY audiologo_row_id.                       *)
ShiftedByAll(list, found) ==
  LET done[n \in 0 .. MaxRows] ==
        IF n = 0 THEN list
        ELSE IF n - 1 \in Ids(found) THEN ShiftChaptersForCut(done[n - 1], RowAt(found, n - 1)) ELSE done[n - 1]
  IN  done[MaxRows]
Shifted(found, coverage) ==
  [s \in ChapterLists |->
    IF s = "embedded" /\ coverage # "full" THEN chapters[s] ELSE ShiftedByAll(chapters[s], found)]

(* One transaction; a second applied row of a file and kind undoes it all.   *)
ApplyAutoApplicable ==
  /\ InDetect("apply")
  /\ LET found == detect.found
         ids == {r.id : r \in found}
         promoted == {IF r.id \in ids THEN [r EXCEPT !.status = "applied"] ELSE r : r \in rows}
         kinds == {<<r.file, r.kind>> : r \in {x \in promoted : x.status = "applied"}}
         unique == Cardinality({r \in promoted : r.status = "applied"}) = Cardinality(kinds)
         cut == SumOver(found, CutMs)
     IN  CASE found = {} -> Goes("strip") /\ UNCHANGED <<rows, chapters, duration, status, cutBy>>
           [] found # {} /\ unique ->
                /\ rows' = promoted /\ chapters' = Shifted(found, ClassifyEmbeddedCoverage(cut))
                /\ duration' = Positive(duration - cut) /\ status' = "applied"
                /\ cutBy' = cutBy \cup {"detection"} /\ detect' = Nothing
           [] found # {} /\ ~unique -> detect' = Nothing /\ UNCHANGED <<rows, chapters, duration, status, cutBy>>
  /\ UNCHANGED <<matches, verified, pending, asks, resets, requests>>

(* No range is cut: every chapter of every list moves by the same.           *)
ShiftChaptersByOffset(ms) ==
  [s \in ChapterLists |-> [n \in DOMAIN chapters[s] |->
    <<Positive(chapters[s][n][1] - ms), Positive(chapters[s][n][2] - ms)>>]]
(* A catalog that knows an intro nobody finds: it was cut before.           *)
ApplyLibationStripped ==
  /\ InDetect("strip") /\ detect' = Nothing
  /\ IF ~detect.hit /\ Brand # Nothing /\ status # "stripped"
       THEN /\ chapters' = ShiftChaptersByOffset(Brand)
            /\ duration' = Positive(duration - Brand) /\ status' = "stripped"
            /\ cutBy' = cutBy \cup {"strip"}
       ELSE UNCHANGED <<chapters, duration, status, cutBy>>
  /\ UNCHANGED <<rows, matches, verified, pending, asks, resets, requests>>

DetectStep ==
  \/ StartDetect
  \/ DetectWindow("intro", "outro") \/ DetectWindow("outro", "head")
  \/ PersistTranscriptCandidate("intro", "head", "tail")
  \/ PersistTranscriptCandidate("outro", "tail", "status")
  \/ UpdateBookStatus \/ LoadCandidateRows
  \/ ApplyAutoApplicable \/ ApplyLibationStripped

(* A retry; what was cut stays cut.                                         *)
ResetDetect ==
  /\ resets < MaxResets /\ resets' = resets + 1
  /\ rows' = {IF r.status = "applied" THEN [r EXCEPT !.status = "re_detected"] ELSE r : r \in rows}
  /\ status' = "unknown" /\ pending' = TRUE /\ cutBy' = cutBy \cup {"retry"}
  /\ UNCHANGED <<chapters, duration, matches, verified, detect, asks, requests>>
CrashDetect ==
  /\ resets < MaxResets /\ resets' = resets + 1
  /\ detect' = Nothing /\ asks' = {} /\ pending' = (pending \/ detect # Nothing)
  /\ UNCHANGED <<rows, chapters, duration, status, matches, verified, cutBy, requests>>

-----------------------------------------------------------------------------
(* A cut asked for by hand, one transaction                                 *)

FilesBefore(file) == RunningSum(FileLengths)[file - 1]
\* Mutant: what was cut from the files before is still counted.
CumulativeBeforeRaw(rs, file) == FilesBefore(file)
CumulativeBefore(rs, file) ==
  FilesBefore(file)
    - SumOver({r \in rs : r.status = "applied" /\ r.file < file}, LAMBDA r : r.to - r.from)

(* Two updates, and the second sees what the first moved.                   *)
ShiftChapters(list, start, end, cut) ==
  LET After(c) == IF c[1] >= end THEN Moved(c, cut) ELSE c
      Spanning(c) == IF c[1] < end /\ c[2] > start THEN Shrunk(c, cut) ELSE c
  IN  [n \in DOMAIN list |-> Spanning(After(list[n]))]

RecomputeStatus(rs) ==
  CASE \E r \in rs : r.status = "applied" -> "applied"
    [] OTHER -> IF \E r \in rs : r.status \in {"candidate", "re_detected"} THEN "detected" ELSE "rejected"

(* The book is shorter by the cut, and has the status of its rows.           *)
RecomputeBookDuration(cut) ==
  duration' = duration - cut /\ status' = RecomputeStatus(rows')

ApplyAudiologoCut(j, file, by) ==
  /\ Cardinality(rows) < MaxRows /\ ~Applied(rows, file, j.kind)
  /\ rows' = rows \cup {NewRow(j, file, by, "applied")}
  /\ LET cut == j.to - j.from
         before == CumulativeBefore(rows', file)
     IN  /\ chapters' = [s \in ChapterLists |-> ShiftChapters(chapters[s], before + j.from, before + j.to, cut)]
         /\ RecomputeBookDuration(cut)
  /\ cutBy' = cutBy \cup {by}

AudiologoCut ==
  /\ requests < MaxAsks /\ requests' = requests + 1
  /\ \E j \in ManualCuts : ApplyAudiologoCut(j, j.file, "manual")
  /\ UNCHANGED <<matches, verified, pending, detect, asks, resets>>

-----------------------------------------------------------------------------
(* Review: a candidate is read, and decided on in a step of its own         *)

Review(op) ==
  /\ requests < MaxAsks /\ requests' = requests + 1
  /\ \E r \in With("candidate") : asks' = asks \cup {[op |-> op, row |-> r, at |-> "read", number |-> requests]}
  /\ UNCHANGED <<rows, chapters, duration, status, matches, verified, pending, detect, cutBy, resets>>

MarkRow(id, s) == rows' = {IF r.id = id THEN [r EXCEPT !.status = s] ELSE r : r \in rows}

(* An applied row is added beside the candidate; the index may refuse it.    *)
Approve(a) ==
  /\ a.op = "approve" /\ a.at = "read"
  /\ \/ /\ ApplyAudiologoCut(a.row, a.row.file, "approval")
        /\ asks' = (asks \ {a}) \cup {[a EXCEPT !.at = "cut"]}
     \/ /\ Applied(rows, a.row.file, a.row.kind) /\ asks' = asks \ {a}
        /\ UNCHANGED <<rows, chapters, duration, status, cutBy>>
  /\ UNCHANGED <<matches, verified, pending, detect, resets, requests>>

(* A fingerprint with enough matches needs no review any more.               *)
MaybeAutoConfirm(r) ==
  verified' = (verified \/ (r.method \in Fingerprints /\ matches >= Confirmations))
(* The candidate leaves the review.                                          *)
MarkApproved(a) ==
  /\ a.at = "cut" /\ asks' = asks \ {a}
  /\ MarkRow(a.row.id, "re_detected")
  /\ MaybeAutoConfirm(a.row)
  /\ UNCHANGED <<chapters, duration, status, matches, pending, detect, cutBy, resets, requests>>

Reject(a) ==
  /\ a.op = "reject" /\ asks' = asks \ {a}
  /\ MarkRow(a.row.id, "rejected")
  /\ UNCHANGED <<chapters, duration, status, matches, verified, pending, detect, cutBy, resets, requests>>

AuStep ==
  \/ DetectStep \/ ResetDetect \/ CrashDetect
  \/ AudiologoCut \/ Review("approve") \/ Review("reject")
  \/ \E a \in asks : Approve(a) \/ MarkApproved(a) \/ Reject(a)

-----------------------------------------------------------------------------
AuTypeOK ==
  /\ \A r \in rows : r.kind \in JingleKinds /\ r.file \in DOMAIN FileLengths
       /\ r.status \in {"candidate", "applied", "rejected", "re_detected"}
  /\ chapters \in [ChapterLists -> Seq(Int \X Int)] /\ duration \in Int /\ status \in Statuses
  /\ matches \in 0 .. Confirmations /\ verified \in BOOLEAN /\ pending \in BOOLEAN
  /\ resets \in 0 .. MaxResets /\ requests \in 0 .. MaxAsks

(* Where the audio has a chapter, once the jingles in rs are skipped.        *)
InAudio(rs, at) ==
  at - SumOver({r \in rs : FilesBefore(r.file) + r.to <= at}, LAMBDA r : r.to - r.from)
Aligned(rs) ==
  \A s \in ChapterLists : \A n \in DOMAIN Marks[s] : chapters[s][n][1] = InAudio(rs, Marks[s][n][1])

(* The cuts in rs were made in such an order that, of two in one file, the    *)
(* later one in the file came first.                                        *)
BackToFront(rs) ==
  \A r1, r2 \in rs : r1.file = r2.file /\ r1.id < r2.id => r2.to <= r1.from

(* A book whose cuts were all approved or asked for by hand is as long as    *)
(* what is left of it, in any order and however often a cut was asked for;   *)
(* and unless a file was cut behind an earlier cut of its own, its chapters  *)
(* begin where the audio has them.                                          *)
CutsAligned ==
  cutBy \subseteq {"approval", "manual"} =>
    /\ duration = Total - SumOver(With("applied"), LAMBDA r : r.to - r.from)
    /\ BackToFront(With("applied")) => Aligned(With("applied"))

(* Observed: a cut is placed by what was cut from the files before its own,  *)
(* and an earlier cut of its own file is not counted.                       *)
CutsAlignedInAnyOrder ==
  cutBy \subseteq {"approval", "manual"} => Aligned(With("applied"))

(* audiologo_apply.rs:117-120: both ends of a chapter behind the trim move by *)
(* the cut, so chapters that follow one another still do.  Observed: the     *)
(* second UPDATE finds a chapter in the trim that the first has just moved   *)
(* there, and moves its end again.                                           *)
ChaptersFollowOn ==
  cutBy \subseteq {"approval", "manual"} =>
    \A s \in ChapterLists : \A n \in 1 .. Len(chapters[s]) - 1 : chapters[s][n][2] = chapters[s][n + 1][1]

(* The same of the cuts detection makes by itself, where no silence is left: *)
(* audiologo_apply.rs:237-250, the cut is file-local, chapters are not.      *)
DetectedCutsAligned ==
  cutBy \subseteq {"detection"} => Aligned(With("applied"))

(* 010_audiologo_per_file_splice.sql: applied, at least one applied row.     *)
AppliedMeansApplied == status = "applied" => With("applied") # {}
=============================================================================
