------------------------------ MODULE Profiles ------------------------------
(* What the answers of the language model leave in the library             *)
(* (llm-extractors: dna, setting, characters, arc and polish stages): which *)
(* answers are taken, what is kept of their lists, and the tables each      *)
(* transaction replaces.  Extractors has the order of the stages' writes    *)
(* and the tag hierarchy, one table for all books.                          *)
EXTENDS Common, Sequences, SequencesExt

CONSTANTS
  Subtags,       \* primary language subtags
  ShortBooks,    \* books that are abridged
  Spellings, Slugs,
  SlugOf,        \* what normalise_tag leaves of a spelling, Nothing if nothing
  Vocabulary,    \* labels of content warnings that are known
  DnaAnswers, SettingAnswers, CastAnswers, ArcAnswers, PolishAnswers,
  MaxDna, MaxSpoilers, MaxSetting,  \* tunables: dna_max_tags and its like
  MaxStamps, MaxQuestions           \* bounds: configured versions, runs

VARIABLES
  language,     \* books.language
  transcribed,      \* the transcript_full row: how much it holds, if it can be read
  corrected,  \* books.transcript_corrected
  cached,     \* ai_cache row of each extractor: the answer and its stamp
  tagged,     \* rows of book_tags
  cautions,   \* rows of book_content_warnings
  cast,       \* rows of characters
  arc,        \* books.story_arc_json
  setting,    \* books.setting
  running,    \* the stage the worker is in, and what it has still to write
  current, questions

profiles == <<tagged, cautions, cast, arc, setting>>
books == <<language, transcribed, corrected>>
pfVars == <<books, cached, profiles, running, current, questions>>

Extracts == {"dna", "setting", "characters", "arc", "polish"}
Answers(k) == CASE k = "dna" -> DnaAnswers
                [] k = "setting" -> SettingAnswers
                [] k = "characters" -> CastAnswers
                [] k = "arc" -> ArcAnswers
                [] OTHER -> PolishAnswers
Severities == {"mild", "moderate", "intense", "graphic"}
Kinds == {"dna", "spoiler", "setting"}
TextSizes == {"unreadable", "short", "long"}

ASSUME ProfilesAssumption ==
  /\ ShortBooks \subseteq Books /\ SlugOf \in [Spellings -> OptionOf(Slugs)] /\ Nothing \notin Slugs
  /\ MaxDna \in Nat /\ MaxSpoilers \in Nat /\ MaxSetting \in Nat
  /\ MaxStamps \in Nat \ {0} /\ MaxQuestions \in Nat
  /\ \A a \in DnaAnswers :
       a.dna \in Seq(Spellings) /\ a.spoilers \in Seq(Spellings) /\ a.warnings \in Seq([label : STRING, severity : STRING])
  /\ \A a \in SettingAnswers : a.tags \in Seq([marked : BOOLEAN, body : Spellings])
  /\ \A a \in ArcAnswers : a.steps \in Seq(Nat)

PfInit ==
  /\ language \in [Books -> OptionOf(Subtags)] /\ transcribed = [b \in Books |-> Nothing]
  /\ corrected = [b \in Books |-> Nothing]
  /\ cached = [b \in Books |-> [k \in Extracts |-> Nothing]]
  /\ tagged = {} /\ cautions = {} /\ cast = {}
  /\ arc = [b \in Books |-> Nothing] /\ setting = [b \in Books |-> Nothing]
  /\ running = Nothing /\ current = 1 /\ questions = 0

-----------------------------------------------------------------------------
(* What is kept of a list                                                   *)

\* Mutant: the cap is looked at before a tag joins, as "more than".
KeepOneMore(kept, s, cap) ==
  IF s = Nothing \/ s \in ToSet(kept) \/ Len(kept) > cap THEN kept ELSE Append(kept, s)
(* Nothing for an empty slug, nothing twice; the loop ends on the tag that  *)
(* reaches the cap, so that a cap of zero keeps one.                        *)
KeepOne(kept, s, cap) ==
  IF s = Nothing \/ s \in ToSet(kept) \/ (kept # <<>> /\ Len(kept) >= cap) THEN kept ELSE Append(kept, s)
Clamp(slugs, cap) ==
  LET kept[n \in 0 .. Len(slugs)] == IF n = 0 THEN <<>> ELSE KeepOne(kept[n - 1], slugs[n], cap)
  IN  kept[Len(slugs)]

SlugsOf(raws) == [n \in DOMAIN raws |-> SlugOf[raws[n]]]
(* A setting tag without its mark is a mistake of the model, and dropped.   *)
SettingSlugs(ts) == [n \in DOMAIN ts |-> IF ts[n].marked THEN SlugOf[ts[n].body] ELSE Nothing]
NormaliseTags(ts) == Clamp(SettingSlugs(ts), MaxSetting)

CanonicaliseWarnings(ws) ==
  LET Known(w) == w.label \in Vocabulary /\ w.severity \in Severities
  IN  {ws[n] : n \in {i \in DOMAIN ws : /\ Known(ws[i])
                                        /\ \A j \in 1 .. i - 1 : Known(ws[j]) => ws[j].label # ws[i].label}}

StepsAreWellFormed(steps) == \A n \in DOMAIN steps : steps[n] = n

-----------------------------------------------------------------------------
(* The rows of an answer                                                    *)

FormatTags(b, kind, slugs, source) ==
  {[book |-> b, kind |-> kind, slug |-> s, source |-> source] : s \in ToSet(slugs)}
DnaRows(b, a) ==
  FormatTags(b, "dna", Clamp(SlugsOf(a.dna), MaxDna), "dna_llm")
    \cup FormatTags(b, "spoiler", Clamp(SlugsOf(a.spoilers), MaxSpoilers), "dna_llm")
SettingRows(b, a) == FormatTags(b, "setting", NormaliseTags(a.tags), "setting_llm")
WarningRows(b, a) ==
  {[book |-> b, label |-> w.label, severity |-> w.severity] : w \in CanonicaliseWarnings(a.warnings)}
CastRows(b, a) == {[book |-> b, name |-> n] : n \in ToSet(a.names)}

SourceRows(b, source) == {r \in tagged : r.book = b /\ r.source = source}
RowsOf(table, b) == {r \in table : r.book = b}

-----------------------------------------------------------------------------
(* A stage asks                                                             *)

Fresh(b, k) == cached[b][k] # Nothing /\ cached[b][k].stamp = current
FullText(b) == transcribed[b] = "long"
InLanguage(b) == language[b] # Nothing
(* The corrected text is preferred, unless it is blank; a correction that   *)
(* is too short is not made up for by the full text.                        *)
PolishInput(b) == IF corrected[b] \in {"short", "long"} THEN corrected[b] = "long" ELSE FullText(b)

(* What goes to the cache and no further: another language, beats out of    *)
(* order.  Tags are in English whatever the book is in.                     *)
Refused(b, k, a) ==
  \/ k # "dna" /\ a.lang # language[b]
  \/ k = "arc" /\ ~StepsAreWellFormed(a.steps)
(* An answer without a text is an error.                                    *)
Blank(k, a) == k \in {"setting", "polish"} /\ a.text = Nothing

(* The tables an answer goes to, a transaction each, before its cache row.  *)
Writes(k) == CASE k = "dna" -> <<"tags", "warnings">>
               [] k = "polish" -> <<>>
               [] OTHER -> <<k>>

(* The one worker is in the stage until its last write; the model takes     *)
(* minutes, and an error of its own leaves no trace.                        *)
AskModel(b, k) ==
  /\ running = Nothing /\ ~Fresh(b, k)
  /\ questions < MaxQuestions /\ questions' = questions + 1
  /\ \E a \in Answers(k) :
       /\ Refused(b, k, a) \/ ~Blank(k, a)
       /\ running' = [book |-> b, kind |-> k, answer |-> a, ok |-> ~Refused(b, k, a),
                      left |-> IF Refused(b, k, a) THEN <<>> ELSE Writes(k)]
  /\ UNCHANGED <<books, cached, profiles, current>>

AskTags(b) == FullText(b) /\ AskModel(b, "dna")
AskSetting(b) == InLanguage(b) /\ FullText(b) /\ AskModel(b, "setting")
AskCharacters(b) == InLanguage(b) /\ FullText(b) /\ AskModel(b, "characters")
AskArc(b) == InLanguage(b) /\ FullText(b) /\ AskModel(b, "arc")
AskPolish(b) == b \notin ShortBooks /\ PolishInput(b) /\ InLanguage(b) /\ AskModel(b, "polish")

-----------------------------------------------------------------------------
(* The stage writes                                                         *)

WriteTags(b, a) ==
  /\ tagged' = (tagged \ SourceRows(b, "dna_llm")) \cup DnaRows(b, a)
  /\ UNCHANGED <<cautions, cast, arc, setting>>
WriteWarnings(b, a) ==
  /\ cautions' = (cautions \ RowsOf(cautions, b)) \cup WarningRows(b, a)
  /\ UNCHANGED <<tagged, cast, arc, setting>>
\* Mutant: the tags of every source are cleared.
PromoteSettingAlone(b, a) ==
  /\ tagged' = (tagged \ RowsOf(tagged, b)) \cup SettingRows(b, a)
  /\ setting' = [setting EXCEPT ![b] = a.text]
  /\ UNCHANGED <<cautions, cast, arc>>
PromoteSetting(b, a) ==
  /\ tagged' = (tagged \ SourceRows(b, "setting_llm")) \cup SettingRows(b, a)
  /\ setting' = [setting EXCEPT ![b] = a.text]
  /\ UNCHANGED <<cautions, cast, arc>>
PromoteCharacters(b, a) ==
  /\ cast' = (cast \ RowsOf(cast, b)) \cup CastRows(b, a)
  /\ UNCHANGED <<tagged, cautions, arc, setting>>
PromoteArc(b, a) ==
  /\ arc' = [arc EXCEPT ![b] = a.steps]
  /\ UNCHANGED <<tagged, cautions, cast, setting>>

(* A name that comes twice breaks the table's key: nothing is replaced, and *)
(* the stage has failed.                                                    *)
NameTwice(r) == r.kind = "characters" /\ ~IsInjective(r.answer.names)

WriteNext(r) ==
  /\ r.left # <<>> /\ ~NameTwice(r)
  /\ running' = [r EXCEPT !.left = Tail(@)]
  /\ CASE Head(r.left) = "tags" -> WriteTags(r.book, r.answer)
       [] Head(r.left) = "warnings" -> WriteWarnings(r.book, r.answer)
       [] Head(r.left) = "setting" -> PromoteSetting(r.book, r.answer)
       [] Head(r.left) = "characters" -> PromoteCharacters(r.book, r.answer)
       [] OTHER -> PromoteArc(r.book, r.answer)
  /\ UNCHANGED cached
WriteCacheRow(r) ==
  /\ r.left = <<>> /\ running' = Nothing
  /\ cached' = [cached EXCEPT ![r.book][r.kind] = [answer |-> r.answer, ok |-> r.ok, stamp |-> current]]
  /\ UNCHANGED profiles
(* A write fails: what was committed before it stays.                       *)
StageFails == running' = Nothing /\ UNCHANGED <<cached, profiles>>

StageStep ==
  /\ running # Nothing
  /\ WriteNext(running) \/ WriteCacheRow(running) \/ StageFails
  /\ UNCHANGED <<books, current, questions>>

-----------------------------------------------------------------------------
(* Around them: books are transcribed, corrected and edited, the rows of ai_cache *)
(* taken back by a retry, and the daemon restarted under another version.   *)
AroundProfiles ==
  /\ \E b \in Books :
       \/ \E s \in TextSizes : transcribed' = [transcribed EXCEPT ![b] = s] /\ UNCHANGED <<language, corrected, cached>>
       \/ \E s \in {"blank", "short", "long"} :
            corrected' = [corrected EXCEPT ![b] = s] /\ UNCHANGED <<language, transcribed, cached>>
       \/ \E l \in Subtags : language' = [language EXCEPT ![b] = l] /\ UNCHANGED <<transcribed, corrected, cached>>
       \/ \E k \in Extracts : cached' = [cached EXCEPT ![b][k] = Nothing] /\ UNCHANGED books
  /\ UNCHANGED <<profiles, running, current, questions>>
RestartProfiles ==
  /\ running' = Nothing /\ current' \in {v \in current .. current + 1 : v <= MaxStamps}
  /\ UNCHANGED <<books, cached, profiles, questions>>

PfStep ==
  \/ \E b \in Books : AskTags(b) \/ AskSetting(b) \/ AskCharacters(b) \/ AskArc(b) \/ AskPolish(b)
  \/ StageStep \/ AroundProfiles \/ RestartProfiles
PfSpec == PfInit /\ [][PfStep]_pfVars

-----------------------------------------------------------------------------
PfTypeOK ==
  /\ language \in [Books -> OptionOf(Subtags)] /\ transcribed \in [Books -> OptionOf(TextSizes)]
  /\ corrected \in [Books -> OptionOf({"blank", "short", "long"})]
  /\ tagged \subseteq [book : Books, kind : Kinds, slug : Slugs, source : {"dna_llm", "setting_llm"}]
  /\ \A r \in cautions \cup cast : r.book \in Books
  /\ current \in 1 .. MaxStamps /\ questions \in 0 .. MaxQuestions

OnShow(b, k, a) ==
  CASE k = "dna" -> SourceRows(b, "dna_llm") = DnaRows(b, a) /\ RowsOf(cautions, b) = WarningRows(b, a)
    [] k = "setting" -> SourceRows(b, "setting_llm") = SettingRows(b, a) /\ setting[b] = a.text
    [] k = "characters" -> RowsOf(cast, b) = CastRows(b, a)
    [] k = "arc" -> arc[b] = a.steps
    [] OTHER -> TRUE

(* While a stage is skipped because its answer is current, the tables of    *)
(* the book hold what that answer says and nothing else: whatever other     *)
(* stages wrote to the same tables, and wherever a run was broken off.      *)
CurrentAnswersShown ==
  \A b \in Books, k \in Extracts : Fresh(b, k) /\ cached[b][k].ok => OnShow(b, k, cached[b][k].answer)

(* tunables.rs:911, a maximum of tags per book: however many runs and       *)
(* versions there were, a book has no more than the cap of each kind.  A    *)
(* cap of zero is one.                                                      *)
Cap(kind) == CASE kind = "dna" -> MaxDna [] kind = "spoiler" -> MaxSpoilers [] OTHER -> MaxSetting
TagsWithinCaps ==
  \A b \in Books, kind \in Kinds :
    Cardinality({r \in tagged : r.book = b /\ r.kind = kind}) <= IF Cap(kind) = 0 THEN 1 ELSE Cap(kind)

(* arc_stage.rs:240: the arc on show is numbered from one without a gap.    *)
ArcsInOrder == \A b \in Books : arc[b] # Nothing => StepsAreWellFormed(arc[b])

ProfilesHold == CurrentAnswersShown /\ TagsWithinCaps /\ ArcsInOrder
=============================================================================
