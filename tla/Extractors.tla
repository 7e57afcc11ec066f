----------------------------- MODULE Extractors -----------------------------
(* What a language model makes of a transcript (llm-extractors/*_stage,     *)
(* transcript/chapter_marks_stage).  Each answer is a row of ai_cache       *)
(* stamped with a version; a stage skips while the stamp is current.        *)
(* Stages run in any order and again, as retries have them; the model takes *)
(* minutes, so a stage reads, asks, and writes in steps of its own.         *)
EXTENDS Common, Sequences, SequencesExt

CONSTANTS
  Langs,       \* primary language subtags
  Abridged,    \* books that are abridged
  TagNames,    \* normalised tags
  Hierarchies, \* sequences of <<parent, child>> that a model may propose
  MaxVersion, MaxAsked  \* bounds: configured versions, questions

VARIABLES
  lang,     \* books.language
  text,     \* locale of the full transcript, Nothing if none or too short
  answer,   \* ai_cache row of each extractor
  shown,    \* number of the answer that each artefact comes from
  tree,     \* tag_hierarchy
  series,   \* the one series of the instance: its stamp, and the books summarised
  members,  \* its books
  marked,   \* what the chapter marks of a book count in
  asking,   \* questions put, and answers about to be written
  version, asked

exVars == <<lang, text, answer, shown, tree, series, members, marked, asking, version, asked>>

LlmKinds == {"summary", "dna", "arc", "characters", "setting", "polish"}
(* What an accepted answer is promoted to, one transaction each, in order.  *)
Artefacts(k) == CASE k = "dna" -> <<"tags", "hierarchy", "warnings">>
                  [] k = "polish" -> <<>>
                  [] k \in LlmKinds \ {"dna", "polish"} -> <<k>>
Shown == UNION {ToSet(Artefacts(k)) : k \in LlmKinds}

ASSUME ExtractorsAssumption ==
  /\ Abridged \subseteq Books
  /\ Hierarchies \subseteq Seq(TagNames \X TagNames)
  /\ MaxVersion \in Nat \ {0}

ExInit ==
  /\ lang \in [Books -> OptionOf(Langs)] /\ text = [b \in Books |-> Nothing]
  /\ answer = [b \in Books |-> [k \in LlmKinds |-> Nothing]]
  /\ shown = [b \in Books |-> [c \in Shown |-> 0]]
  /\ tree = {} /\ members = {} /\ series = [stamp |-> 0, of |-> {}]
  /\ marked = [b \in Books |-> Nothing]
  /\ asking = {} /\ version = 1 /\ asked = 0

-----------------------------------------------------------------------------
(* A book is transcribed (see Transcripts), its language decided or edited,  *)
(* it joins the series; a restart drops whoever waits, and the configuration *)
(* may name a new version.                                                   *)
BookChanges(b) ==
  /\ \/ \E l \in Langs : text' = [text EXCEPT ![b] = l] /\ UNCHANGED <<lang, members>>
     \/ \E l \in Langs : lang' = [lang EXCEPT ![b] = l] /\ UNCHANGED <<text, members>>
     \/ members' = members \cup {b} /\ UNCHANGED <<lang, text>>
  /\ UNCHANGED <<answer, shown, tree, series, marked, asking, version, asked>>
RestartAsking ==
  /\ asking' = {} /\ version' \in {v \in version .. version + 1 : v <= MaxVersion}
  /\ UNCHANGED <<lang, text, answer, shown, tree, series, members, marked, asked>>

-----------------------------------------------------------------------------
(* The stages put a question                                                *)

CacheFresh(b, k) == answer[b][k] # Nothing /\ answer[b][k].version = version

(* The answer is to come in the language named.                             *)
Ask(b, k, l) ==
  /\ text[b] # Nothing /\ l # Nothing /\ ~CacheFresh(b, k)
  /\ asked < MaxAsked /\ asked' = asked + 1
  /\ asking' = asking \cup {[book |-> b, kind |-> k, lang |-> l, number |-> asked + 1, left |-> Artefacts(k)]}
  /\ UNCHANGED <<lang, text, answer, shown, tree, series, members, marked, version>>

SummariseBook(b) == Ask(b, "summary", lang[b])
FindTags(b) == Ask(b, "dna", text[b])
DrawArc(b) == Ask(b, "arc", lang[b])
FindCharacters(b) == Ask(b, "characters", lang[b])
FindSetting(b) == Ask(b, "setting", lang[b])
PolishText(b) == b \notin Abridged /\ Ask(b, "polish", lang[b])

-----------------------------------------------------------------------------
(* The model answers                                                        *)

WriteCache(a, ok) ==
  /\ answer' = [answer EXCEPT ![a.book][a.kind] = [version |-> version, ok |-> ok, number |-> a.number]]
  /\ asking' = asking \ {a}

(* The model, its JSON or an empty text is an error: no trace.              *)
AnswerFails(a) == asking' = asking \ {a} /\ UNCHANGED <<answer, shown, tree>>
(* Another language: the row is written, so the model is not asked again.   *)
AnswerRefused(a) ==
  /\ a.kind # "dna" /\ a.left = Artefacts(a.kind)
  /\ WriteCache(a, FALSE) /\ UNCHANGED <<shown, tree>>

Children(edges, tags) == {e[2] : e \in {x \in edges : x[1] \in tags}}
(* The recursive query: whatever is reached, as often as there are edges.   *)
Below(edges, t) ==
  LET D[n \in 0 .. Cardinality(edges)] ==
        IF n = 0 THEN Children(edges, {t}) ELSE D[n - 1] \cup Children(edges, D[n - 1])
  IN  D[Cardinality(edges)]
WouldCreateCycle(edges, p) == p[1] \in Below(edges, p[2])
Canonical(p) == p[1] # p[2]

\* Mutant: the proposed pairs are checked against what was there before.
WriteHierarchyAtOnce(pairs) ==
  tree \cup {pairs[n] : n \in {i \in DOMAIN pairs : Canonical(pairs[i]) /\ ~WouldCreateCycle(tree, pairs[i])}}
InsertPair(edges, p) ==
  IF Canonical(p) /\ ~WouldCreateCycle(edges, p) THEN edges \cup {p} ELSE edges
WriteHierarchy(pairs) ==
  LET edges[n \in 0 .. Len(pairs)] == IF n = 0 THEN tree ELSE InsertPair(edges[n - 1], pairs[n])
  IN  edges[Len(pairs)]

Promote(a) ==
  /\ a.left # <<>>
  /\ shown' = [shown EXCEPT ![a.book][Head(a.left)] = a.number]
  /\ IF Head(a.left) = "hierarchy" THEN \E h \in Hierarchies : tree' = WriteHierarchy(h) ELSE UNCHANGED tree
  /\ asking' = (asking \ {a}) \cup {[a EXCEPT !.left = Tail(@)]}

\* Mutant: the cache row comes before the last promotion.
AnswerAcceptedEarly(a) ==
  \/ Promote(a) /\ UNCHANGED answer
  \/ Len(a.left) <= 1 /\ WriteCache(a, TRUE) /\ UNCHANGED <<shown, tree>>
(* What the answer says is written first, and the cache row last.           *)
AnswerAccepted(a) ==
  \/ Promote(a) /\ UNCHANGED answer
  \/ a.left = <<>> /\ WriteCache(a, TRUE) /\ UNCHANGED <<shown, tree>>

Answer(a) ==
  /\ a.kind \in LlmKinds
  /\ AnswerFails(a) \/ AnswerRefused(a) \/ AnswerAccepted(a)
  /\ UNCHANGED <<lang, text, series, members, marked, version, asked>>

(* A retry takes the rows of ai_cache back; what came of them stays, and is   *)
(* replaced by the next answer.                                              *)
RetryExtractor(b, k) ==
  /\ answer[b][k] # Nothing /\ answer' = [answer EXCEPT ![b][k] = Nothing]
  /\ UNCHANGED <<lang, text, shown, tree, series, members, marked, asking, version, asked>>

-----------------------------------------------------------------------------
(* extract-summary-spoiler-free-series, for the series of a book            *)

Summarised == {b \in members : shown[b]["summary"] # 0}
SummariseSeries(b) ==
  /\ b \in members /\ series.stamp # version /\ Summarised # {}
  /\ asked < MaxAsked /\ asked' = asked + 1
  /\ asking' = asking \cup {[book |-> b, kind |-> "series", of |-> Summarised]}
  /\ UNCHANGED <<lang, text, answer, shown, tree, series, members, marked, version>>
SeriesAnswer(a) ==
  /\ a.kind = "series" /\ asking' = asking \ {a}
  /\ series' \in {[stamp |-> version, of |-> a.of],
                  [series EXCEPT !.stamp = version],  \* another language
                  series}
  /\ UNCHANGED <<lang, text, answer, shown, tree, members, marked, version, asked>>

(* compute-chapter-marks counts in whatever the polish row holds, if any.   *)
LoadResolvedTranscript(b) ==
  CASE answer[b]["polish"] = Nothing -> "raw"
    [] answer[b]["polish"] # Nothing -> IF answer[b]["polish"].ok THEN "polished" ELSE "refused"
MarkText(b) ==
  /\ text[b] # Nothing /\ marked[b] = Nothing
  /\ marked' = [marked EXCEPT ![b] = LoadResolvedTranscript(b)]
  /\ UNCHANGED <<lang, text, answer, shown, tree, series, members, asking, version, asked>>

ExStep ==
  \/ \E b \in Books :
       \/ SummariseBook(b) \/ FindTags(b) \/ DrawArc(b) \/ FindCharacters(b)
       \/ FindSetting(b) \/ PolishText(b) \/ SummariseSeries(b) \/ MarkText(b)
       \/ BookChanges(b)
       \/ \E k \in LlmKinds : RetryExtractor(b, k)
  \/ \E a \in asking : Answer(a) \/ SeriesAnswer(a)
  \/ RestartAsking
ExSpec == ExInit /\ [][ExStep]_exVars

-----------------------------------------------------------------------------
ExTypeOK ==
  /\ lang \in [Books -> OptionOf(Langs)] /\ text \in [Books -> OptionOf(Langs)]
  /\ shown \in [Books -> [Shown -> 0 .. asked]] /\ tree \subseteq TagNames \X TagNames
  /\ members \subseteq Books /\ version \in 1 .. MaxVersion /\ series.of \subseteq members
  /\ marked \in [Books -> OptionOf({"raw", "polished", "refused"})]

(* A row of ai_cache that says an answer was taken is never ahead of the     *)
(* columns and rows it promises, all of them: a crash between the writes, or *)
(* two runs at once, repeats work and loses none.                            *)
CachedIsShown ==
  \A b \in Books, k \in LlmKinds :
    answer[b][k] # Nothing /\ answer[b][k].ok => \A c \in ToSet(Artefacts(k)) : shown[b][c] # 0

(* However many books' answers meet, no tag is, through others, its own      *)
(* ancestor.                                                                 *)
TagsAcyclic == \A t \in TagNames : t \notin Below(tree, t)

(* transcript_fm_polish_stage.rs:40-44: a polish in another language is not  *)
(* exposed as a polished transcript.                                         *)
RefusedPolishUnused == \A b \in Books : marked[b] # "refused"
=============================================================================
