------------------------------ MODULE Chapters ------------------------------
(* The chapter lists of a book.  Four stages each keep the list of one      *)
(* source (catalog/{chapters,embedded_chapters,cue_chapters,epub_chapters}),*)
(* one flags the rows of the best source (chapter_winner), one copies EPUB  *)
(* titles over placeholders (epub_title_fallback), and one maps the flagged *)
(* chapters to offsets in the transcript (transcript/chapter_marks_stage).  *)
EXTENDS Common

CONSTANTS
  Layouts,   \* what a book has: [files, cue : Seq([dur, starts]), epub : titles, duration]
  Catalog,   \* Audnexus chapter list: Seq([start, end, title])
  TextLen, Spaces,  \* the transcript: its length and where it has white space
  MaxRefetch \* bound on retries

VARIABLES
  layout,    \* what is on disk
  chapters,  \* [Books -> [Sources -> rows]] in order of idx
  marks,     \* ai_cache transcript_chapter_marks
  chDone, refetches

chVars == <<layout, chapters, marks, chDone, refetches>>

SourceOrder == <<"audnexus", "embedded", "cue", "epub">>   \* transcript, silence: no stage writes them
Sources == {SourceOrder[n] : n \in DOMAIN SourceOrder}
ChStages == Sources \cup {"winner", "titles", "marks"}

Files == Seq([dur : Nat, starts : Seq(Nat)])
TitleKinds == {"placeholder", "title"}

ASSUME ChaptersAssumption ==
  /\ TextLen \in Nat \ {0} /\ Spaces \subseteq 0 .. TextLen - 1
  /\ \A l \in Layouts : l.files \in Files /\ l.cue \in Files /\ Len(l.cue) = Len(l.files) /\ l.duration \in Nat
  /\ Catalog \in Seq([start : Nat, end : Nat, title : TitleKinds])

ChInit ==
  /\ layout \in [Books -> Layouts]
  /\ chapters = [b \in Books |-> [s \in Sources |-> <<>>]]
  /\ marks = [b \in Books |-> Nothing]
  /\ chDone = [b \in Books |-> {}] /\ refetches = 0

-----------------------------------------------------------------------------
(* Per-file chapter starts put on one time line *)

Chapter(from, to, t) == [start |-> from, end |-> to, title |-> t, win |-> FALSE]

(* A file without chapters becomes one part, one of unknown length (0)      *)
(* nothing; a chapter ends where the next starts, the last with its file.   *)
OfFile(f, offset) ==
  IF f.starts = <<>> THEN (IF f.dur > 0 THEN <<Chapter(offset, offset + f.dur, "placeholder")>> ELSE <<>>)
  ELSE [i \in DOMAIN f.starts |->
          Chapter(offset + f.starts[i],
                  offset + (IF i < Len(f.starts) THEN f.starts[i + 1]
                            ELSE IF f.starts[i] > f.dur THEN f.starts[i] ELSE f.dur),
                  "placeholder")]

(* The files one after the other, each as far as its length in lengths.      *)
InTurn(files, lengths) ==
  LET ends == RunningSum(lengths)
      list[n \in 0 .. Len(files)] == IF n = 0 THEN <<>> ELSE list[n - 1] \o OfFile(files[n], ends[n - 1])
  IN  list[Len(files)]
Lengths(files) == [n \in DOMAIN files |-> files[n].dur]
\* Mutant: a file without chapters does not move the clock.
MergeSkipping(files) ==
  InTurn(files, [n \in DOMAIN files |-> IF files[n].starts = <<>> THEN 0 ELSE files[n].dur])
Merge(files) == InTurn(files, Lengths(files))

HasChapters(files) == \E n \in DOMAIN files : files[n].starts # <<>>

(* EPUB titles, one per file, over the files' durations.                    *)
EpubRows(files) ==
  LET ends == RunningSum(Lengths(files))
  IN  [n \in DOMAIN files |-> Chapter(ends[n - 1], ends[n], "title")]

-----------------------------------------------------------------------------
(* The source stages *)

ChStarts(b, s, required) == s \notin chDone[b] /\ required \subseteq chDone[b]
ChFinished(b, s) == chDone' = [chDone EXCEPT ![b] = @ \cup {s}]
Stored(b, s, list) == chapters' = [chapters EXCEPT ![b][s] = list]

(* fetch-audnexus-chapters: a region knows the ASIN, or the rows stay.      *)
FetchAudnexus(b) ==
  /\ ChStarts(b, "audnexus", {}) /\ ChFinished(b, "audnexus")
  /\ \/ Stored(b, "audnexus", [n \in DOMAIN Catalog |->
          Chapter(Catalog[n].start, Catalog[n].end, Catalog[n].title)])
     \/ UNCHANGED chapters
  /\ UNCHANGED <<layout, marks, refetches>>

(* One transaction: DELETE, then the merged list; nothing found, no change. *)
ReadFiles(b, s, files) ==
  /\ ChStarts(b, s, {}) /\ ChFinished(b, s)
  /\ IF HasChapters(files) THEN Stored(b, s, Merge(files)) ELSE UNCHANGED chapters
  /\ UNCHANGED <<layout, marks, refetches>>
ReadEmbedded(b) == ReadFiles(b, "embedded", layout[b].files)
ReadCue(b) == ReadFiles(b, "cue", layout[b].cue)

(* Only when there are as many titles as files.  The DELETE and the INSERTs *)
(* commit one by one, so a failure leaves a prefix and the stage not done.  *)
ReadEpub(b) ==
  /\ ChStarts(b, "epub", {})
  /\ LET files == layout[b].files rows == EpubRows(files)
     IN  IF layout[b].epub # Len(files) THEN ChFinished(b, "epub") /\ UNCHANGED chapters
         ELSE \E n \in 0 .. Len(rows) :
                /\ Stored(b, "epub", SubSeq(rows, 1, n))
                /\ IF n = Len(rows) THEN ChFinished(b, "epub") ELSE UNCHANGED chDone
  /\ UNCHANGED <<layout, marks, refetches>>

-----------------------------------------------------------------------------
(* The stages that read the lists *)

Flagged(list, flag) == [n \in DOMAIN list |-> [list[n] EXCEPT !.win = flag]]
Present(b) == {s \in Sources : chapters[b][s] # <<>>}
Rank(s) == CHOOSE n \in DOMAIN SourceOrder : SourceOrder[n] = s
WinnerOf(b) == CHOOSE s \in Present(b) : \A t \in Present(b) : Rank(s) <= Rank(t)

\* Mutant: the losers keep their flags.
ApplyWinnerOnly(b, s) == [chapters[b] EXCEPT ![s] = Flagged(@, TRUE)]
ApplyWinner(b, w) == [s \in Sources |-> Flagged(chapters[b][s], s = w)]

PickWinner(b) ==
  /\ ChStarts(b, "winner", Sources) /\ ChFinished(b, "winner")
  /\ chapters' = IF Present(b) = {} THEN chapters
                 ELSE [chapters EXCEPT ![b] = ApplyWinner(b, WinnerOf(b))]
  /\ UNCHANGED <<layout, marks, refetches>>

(* What every reader of chapters sees: the flagged rows ORDER BY idx.       *)
Winners(b) == {s \in Sources : \E n \in DOMAIN chapters[b][s] : chapters[b][s][n].win}
FlaggedRows(list) ==
  LET places == OrderedBy({n \in DOMAIN list : list[n].win}, <) IN [n \in DOMAIN places |-> list[places[n]]]
Toc(b) == IF Winners(b) = {} THEN <<>> ELSE FlaggedRows(chapters[b][CHOOSE s \in Winners(b) : TRUE])

(* As many EPUB rows as winners, at least half of them placeholders.        *)
Titled(toc, epub) ==
  [n \in DOMAIN toc |-> IF toc[n].title = "placeholder" THEN [toc[n] EXCEPT !.title = epub[n].title] ELSE toc[n]]
FillTitles(b) ==
  /\ ChStarts(b, "titles", {"winner"}) /\ ChFinished(b, "titles")
  /\ LET toc == Toc(b) epub == chapters[b]["epub"] w == CHOOSE s \in Winners(b) : TRUE
     IN  chapters' = IF /\ toc # <<>> /\ w # "epub" /\ Len(toc) = Len(epub)
                        /\ 2 * Cardinality({n \in DOMAIN toc : toc[n].title = "placeholder"}) >= Len(toc)
                     THEN [chapters EXCEPT ![b][w] = Titled(toc, epub)] ELSE chapters
  /\ UNCHANGED <<layout, marks, refetches>>

-----------------------------------------------------------------------------
(* Offsets into the transcript *)

Duration(b) == layout[b].duration   \* the column of books, whatever its files add up to

(* To the end of white space, or back to the start of the word.             *)
SnapToWord(o) ==
  IF o >= TextLen THEN TextLen
  ELSE IF o \in Spaces THEN CHOOSE i \in o .. TextLen : i \notin Spaces /\ \A j \in o .. i - 1 : j \in Spaces
  ELSE CHOOSE i \in 0 .. o : (i = 0 \/ i - 1 \in Spaces) /\ \A j \in i .. o : j \notin Spaces

AtLeast(x, y) == IF x < y THEN y ELSE x
RawOffset(start, dur) == IF start >= dur THEN TextLen ELSE (start * TextLen) \div dur

\* Mutant: each boundary is snapped by itself.
OffsetsUnordered(toc, dur) ==
  [n \in DOMAIN toc |-> IF n = 1 THEN 0 ELSE SnapToWord(RawOffset(toc[n].start, dur))]
Offsets(toc, dur) ==
  LET at[n \in 0 .. Len(toc)] ==
        IF n <= 1 THEN 0 ELSE AtLeast(SnapToWord(RawOffset(toc[n].start, dur)), at[n - 1])
  IN  at

(* Kept while the extractor's version stands: a new winner does not replace it. *)
MarkChapters(b) ==
  /\ ChStarts(b, "marks", {"winner"}) /\ ChFinished(b, "marks")
  /\ LET toc == Toc(b) o == Offsets(toc, Duration(b))
     IN  marks' = IF marks[b] # Nothing \/ Duration(b) = 0 \/ toc = <<>> THEN marks
                  ELSE [marks EXCEPT ![b] =
                    [n \in DOMAIN toc |-> [from |-> o[n], to |-> IF n < Len(toc) THEN o[n + 1] ELSE TextLen]]]
  /\ UNCHANGED <<layout, chapters, refetches>>

(* A retry: only Audnexus takes its rows back, marks its cache entry.       *)
Refetch(b, s) ==
  /\ s \in chDone[b] /\ refetches < MaxRefetch /\ refetches' = refetches + 1
  /\ chDone' = [chDone EXCEPT ![b] = @ \ {s}]
  /\ chapters' = IF s = "audnexus" THEN [chapters EXCEPT ![b][s] = <<>>] ELSE chapters
  /\ marks' = IF s = "marks" THEN [marks EXCEPT ![b] = Nothing] ELSE marks
  /\ UNCHANGED layout

(* The files of the book change between two runs of a stage.                *)
Replace(b) ==
  /\ refetches < MaxRefetch /\ refetches' = refetches + 1
  /\ \E l \in Layouts : layout' = [layout EXCEPT ![b] = l]
  /\ UNCHANGED <<chapters, marks, chDone>>

ChStep(b) ==
  \/ FetchAudnexus(b) \/ ReadEmbedded(b) \/ ReadCue(b) \/ ReadEpub(b)
  \/ PickWinner(b) \/ FillTitles(b) \/ MarkChapters(b)
  \/ Replace(b)
  \/ \E s \in ChStages : Refetch(b, s)

-----------------------------------------------------------------------------
ChTypeOK ==
  /\ layout \in [Books -> Layouts] /\ chDone \in [Books -> SUBSET ChStages]
  /\ \A b \in Books, s \in Sources : \A n \in DOMAIN chapters[b][s] :
       chapters[b][s][n].title \in TitleKinds

InOrder(f) ==
  /\ f.dur > 0
  /\ f.starts # <<>> => f.starts[1] = 0 /\ f.starts[Len(f.starts)] <= f.dur
  /\ \A i \in 1 .. Len(f.starts) - 1 : f.starts[i] <= f.starts[i + 1]
Seamless(list, files) ==
  /\ list[1].start = 0 /\ list[Len(list)].end = SumSeq(Lengths(files))
  /\ \A n \in 1 .. Len(list) - 1 : list[n].end = list[n + 1].start
Partition(ms) ==
  /\ ms[1].from = 0 /\ ms[Len(ms)].to = TextLen
  /\ \A n \in DOMAIN ms : ms[n].from <= ms[n].to
  /\ \A n \in 1 .. Len(ms) - 1 : ms[n].to = ms[n + 1].from

(* A player that asks for the flagged rows never gets two tables of contents *)
(* at once, whatever sources are fetched again and picked again; and chapter *)
(* starts that are in order inside files of known length come out as one     *)
(* list without gap or overlap that ends with the book, among which the      *)
(* transcript is divided without loss even when the table is out of order.   *)
TocWhole ==
  [][/\ \A b \in Books : Cardinality(Winners(b)') <= 1
     /\ \A b \in Books : marks'[b] # Nothing => Partition(marks'[b])
     /\ \A b \in Books : \A s \in {"embedded", "cue"} :
          LET files == IF s = "cue" THEN layout[b].cue ELSE layout[b].files
          IN  /\ s \notin chDone[b] /\ s \in chDone'[b] /\ HasChapters(files)
              /\ \A n \in DOMAIN files : InOrder(files[n])
              => Seamless(chapters'[b][s], files)]_chVars

(* 001_initial.sql:182: once the winner stage has run, the rows of exactly   *)
(* one source of the book are marked, if there is any.                       *)
TocStays == \A b \in Books : "winner" \in chDone[b] /\ Present(b) # {} => Cardinality(Winners(b)) = 1
=============================================================================
