---------------------------- MODULE Transcripts ----------------------------
(* What is heard of a book after its head (see Speech): samples here and    *)
(* there, then every file (transcript/{samples,full}_stage, multi_file),    *)
(* window by window, and what is read out of text                           *)
(* (extract_stage, description_lang_stage, c4_epub_name_dict_stage).  A     *)
(* transcript is one row of ai_cache, stamped with the version and the      *)
(* locale it was made with.                                                 *)
EXTENDS Common, Sequences, SequencesExt

CONSTANTS
  Locales,    \* BCP-47 locales of a book
  Reels,      \* durations of a book's files, in file_id order
  Positions,  \* where samples are taken, in quarters of the book
  SampleLen, MinLen,  \* length of a sample; the shortest book worth hearing
  Phrases,    \* what the extractors find in a head transcript
  Epubs,      \* EPUB companions
  MaxStamp,   \* bound: configured versions
  MaxHearings \* bound: transcription plans

VARIABLES
  reel,     \* files of a book
  head,     \* locale of the cached head transcript
  heard,    \* ai_cache rows transcript_samples and transcript_full
  spoken,   \* language candidates from the samples
  found,    \* candidates of the extractors
  descLang, \* books.description_lang
  paired,   \* the text-extractable EPUB companion of the lowest id
  dict,     \* ai_cache row epub_name_dict: the companion it came from
  hearing,  \* the transcription stages under way
  stamp, hearings

trVars == <<reel, head, heard, spoken, found, descLang, paired, dict, hearing, stamp, hearings>>

ASSUME TranscriptsAssumption ==
  /\ Reels \subseteq Seq(Nat) /\ Positions \in Seq(Nat) /\ SampleLen \in Nat
  /\ MaxStamp \in Nat \ {0} /\ MaxHearings \in Nat

Takes == {"samples", "full"}
None == [b \in Books |-> Nothing]

TrInit ==
  /\ reel \in [Books -> Reels]
  /\ head = None /\ heard = [b \in Books |-> [k \in Takes |-> Nothing]]
  /\ spoken = None /\ found = [b \in Books |-> {}]
  /\ descLang = None /\ paired \in [Books -> OptionOf(Epubs)] /\ dict = None
  /\ hearing = {} /\ stamp = 1 /\ hearings = 0

-----------------------------------------------------------------------------
(* The files of a book as one timeline.  A piece of it that was listened to  *)
(* is a file with the book times of its two ends.                           *)

Offset(fs, i) == RunningSum(fs)[i - 1]
InBook(fs, t) == t < SumSeq(fs)
MapPosition(fs, t) == CHOOSE i \in DOMAIN fs : Offset(fs, i) <= t /\ t < Offset(fs, i) + fs[i]

Target(fs, p) == (p * SumSeq(fs)) \div 4
\* Mutant: a sample runs on past the end of its file.
WindowUnclamped(fs, t) ==
  LET i == MapPosition(fs, t)
  IN  [file |-> i, from |-> t - Offset(fs, i), to |-> t - Offset(fs, i) + SampleLen]
WindowAt(fs, t) ==
  LET i == MapPosition(fs, t)
      from == t - Offset(fs, i)
  IN  [file |-> i, from |-> from, to |-> IF from + SampleLen < fs[i] THEN from + SampleLen ELSE fs[i]]
(* A sample of less than a second, or from beyond the book, is left out.    *)
PushWindow(fs, t, out) ==
  IF InBook(fs, t) /\ WindowAt(fs, t).to > WindowAt(fs, t).from + 1 THEN Append(out, WindowAt(fs, t)) ELSE out
BuildWindows(fs) ==
  LET out[n \in 0 .. Len(Positions)] ==
        IF n = 0 THEN <<>> ELSE PushWindow(fs, Target(fs, Positions[n]), out[n - 1])
  IN  out[Len(Positions)]
WholeFiles(fs) == [i \in DOMAIN fs |-> [file |-> i, from |-> 0, to |-> fs[i]]]
WindowsOf(k, fs) == IF k = "full" THEN WholeFiles(fs) ELSE BuildWindows(fs)

RebaseSegments(w, fs) == [file |-> w.file, from |-> w.from + Offset(fs, w.file), to |-> w.to + Offset(fs, w.file)]

-----------------------------------------------------------------------------
(* transcribe-samples and transcribe-full *)

SamplesFresh(b) == heard[b]["samples"] # Nothing
  /\ heard[b]["samples"].stamp = stamp /\ heard[b]["samples"].locale = head[b]
FullFresh(b) == heard[b]["full"] # Nothing
  /\ heard[b]["full"].stamp = stamp /\ heard[b]["full"].locale = head[b]

(* The files, the locale and the windows are read once, before the first.    *)
(* windows are those listened to so far, and said those that gave text: the  *)
(* segments of a row are of windows in said.                                 *)
Plan(b, k) ==
  /\ head[b] # Nothing /\ SumSeq(reel[b]) >= MinLen /\ WindowsOf(k, reel[b]) # <<>>
  /\ hearings < MaxHearings /\ hearings' = hearings + 1
  /\ hearing' = hearing \cup {[book |-> b, take |-> k, locale |-> head[b], files |-> reel[b],
                               windows |-> <<>>, said |-> {}, at |-> "listening"]}
  /\ UNCHANGED <<reel, head, heard, spoken, found, descLang, paired, dict, stamp>>
PlanSamples(b) == ~SamplesFresh(b) /\ Plan(b, "samples")
PlanFull(b) == ~FullFresh(b) /\ Plan(b, "full")

WindowsLeft(a) == SubSeq(WindowsOf(a.take, a.files), Len(a.windows) + 1, Len(WindowsOf(a.take, a.files)))
Ends(a) == hearing' = hearing \ {a}
Becomes(a, r) == hearing' = (hearing \ {a}) \cup {r}

(* The recognizer may hear nothing in a window.                              *)
HearWindow(a) ==
  /\ a.at = "listening" /\ WindowsLeft(a) # <<>>
  /\ \E said \in {a.said, a.said \cup {Len(a.windows) + 1}} :
       Becomes(a, [a EXCEPT !.windows = Append(@, RebaseSegments(Head(WindowsLeft(a)), a.files)), !.said = said])
  /\ UNCHANGED <<heard, spoken>>

RowOf(a) == [stamp |-> stamp, locale |-> a.locale, files |-> a.files, windows |-> a.windows, said |-> a.said]

(* One INSERT OR REPLACE; the samples' language is detected after it.       *)
WriteFullCache(a) ==
  /\ heard' = [heard EXCEPT ![a.book]["full"] = RowOf(a)]
  /\ Ends(a) /\ UNCHANGED spoken
WriteSamplesCache(a) ==
  /\ heard' = [heard EXCEPT ![a.book]["samples"] = RowOf(a)]
  /\ Becomes(a, [a EXCEPT !.at = "detecting"]) /\ UNCHANGED spoken
Written(a) ==
  /\ a.at = "listening" /\ WindowsLeft(a) = <<>> /\ a.said # {}
  /\ IF a.take = "full" THEN WriteFullCache(a) ELSE WriteSamplesCache(a)

DetectLanguage(a) ==
  /\ a.at = "detecting" /\ Ends(a) /\ UNCHANGED heard
  /\ \/ spoken' = [spoken EXCEPT ![a.book] = a.locale]  \* INSERT
     \/ UNCHANGED spoken  \* undecided, a name unknown, or the detector fails

\* Mutant: what was heard before the model went missing is kept.
GivesUpKeeping(a) == a.at = "listening" /\ a.take = "full" /\ a.said # {} /\ WriteFullCache(a)
(* The model is not installed, the recognizer fails, or no window gave text. *)
GivesUp(a) == a.at = "listening" /\ Ends(a) /\ UNCHANGED <<heard, spoken>>

Listen(a) ==
  /\ HearWindow(a) \/ Written(a) \/ DetectLanguage(a) \/ GivesUp(a)
  /\ UNCHANGED <<reel, head, found, descLang, paired, dict, stamp, hearings>>

-----------------------------------------------------------------------------
(* run-transcript-extractors: each candidate is inserted unless it is there; *)
(* detect-description-lang, which a language once set ends; and              *)
(* extract-epub-name-dict, whose version is fixed in the code.               *)

RunExtractors(b) ==
  /\ head[b] # Nothing
  /\ \E fs \in SUBSET Phrases : found' = [found EXCEPT ![b] = @ \cup fs]
  /\ UNCHANGED <<reel, head, heard, spoken, descLang, paired, dict, hearing, stamp, hearings>>

DetectDescriptionLang(b) ==
  /\ descLang[b] = Nothing
  /\ \E l \in Locales : descLang' = [descLang EXCEPT ![b] = l]
  /\ UNCHANGED <<reel, head, heard, spoken, found, paired, dict, hearing, stamp, hearings>>

ExtractNameDict(b) ==
  /\ dict[b] = Nothing /\ paired[b] # Nothing
  /\ dict' = [dict EXCEPT ![b] = paired[b]]
  /\ UNCHANGED <<reel, head, heard, spoken, found, descLang, paired, hearing, stamp, hearings>>

-----------------------------------------------------------------------------
(* What happens meanwhile: a head is heard again, files are exchanged, a     *)
(* companion is paired, the daemon restarts with another version.            *)

HearHead(b) ==
  /\ \E l \in Locales : head' = [head EXCEPT ![b] = l]
  /\ UNCHANGED <<reel, heard, spoken, found, descLang, paired, dict, hearing, stamp, hearings>>
ReplaceFiles(b) ==
  /\ \E fs \in Reels : reel' = [reel EXCEPT ![b] = fs]
  /\ UNCHANGED <<head, heard, spoken, found, descLang, paired, dict, hearing, stamp, hearings>>
RestartHearing ==
  /\ hearing' = {} /\ stamp' \in {v \in stamp .. stamp + 1 : v <= MaxStamp}
  /\ UNCHANGED <<reel, head, heard, spoken, found, descLang, paired, dict, hearings>>

HearStep(b) ==
  \/ PlanSamples(b) \/ PlanFull(b)
  \/ \E a \in hearing : Listen(a)
  \/ HearHead(b) \/ ReplaceFiles(b) \/ RestartHearing
ReadStep(b) == RunExtractors(b) \/ DetectDescriptionLang(b) \/ ExtractNameDict(b) \/ HearHead(b)

TrSpec == TrInit /\ [][\E b \in Books : HearStep(b) \/ ReadStep(b)]_trVars

-----------------------------------------------------------------------------
TrTypeOK ==
  /\ reel \in [Books -> Reels] /\ head \in [Books -> OptionOf(Locales)]
  /\ spoken \in [Books -> OptionOf(Locales)] /\ descLang \in [Books -> OptionOf(Locales)]
  /\ found \in [Books -> SUBSET Phrases]
  /\ paired \in [Books -> OptionOf(Epubs)] /\ dict \in [Books -> OptionOf(Epubs)]
  /\ stamp \in 1 .. MaxStamp /\ hearings \in 0 .. MaxHearings
  /\ \A a \in hearing : a.take \in Takes /\ a.at \in {"listening", "detecting"}

(* A full transcript comes of listening to the files it was planned for from  *)
(* the first second to the last and without a gap, whatever the daemon, the   *)
(* model or the files went through meanwhile: a stretch without a segment is  *)
(* one where nothing was heard, and readers index the text by book time.  A   *)
(* sample lies in one file, so that its text is of one place of the book.  No *)
(* row is empty.                                                              *)
FullWhole(row) ==
  LET windows == row.windows
  IN  /\ windows # <<>> /\ windows[1].from = 0
      /\ windows[Len(windows)].to = SumSeq(row.files)
      /\ \A n \in 1 .. Len(windows) - 1 : windows[n + 1].from = windows[n].to
InOneFile(row, s) ==
  /\ Offset(row.files, s.file) <= s.from /\ s.from < s.to
  /\ s.to <= Offset(row.files, s.file) + row.files[s.file]
Spoken(row) == row.said # {} /\ row.said \subseteq DOMAIN row.windows
TranscriptsWhole ==
  \A b \in Books :
    /\ \A k \in Takes : heard[b][k] # Nothing => Spoken(heard[b][k])
    /\ heard[b]["full"] # Nothing => FullWhole(heard[b]["full"])
    /\ heard[b]["samples"] # Nothing =>
         \A s \in ToSet(heard[b]["samples"].windows) : InOneFile(heard[b]["samples"], s)
=============================================================================
