----------------------------- MODULE StagesProofs -----------------------------
(* What is proved of the stages that produce a book's text, tags and files.  *)
EXTENDS MCStages, SequenceTheorems, FiniteSetTheorems, CommonProofs, TLAPS

-----------------------------------------------------------------------------
(* --- Extractors ---------------------------------------------------------- *)
(* Proofs about Extractors, for any books, languages, tags and versions.     *)

LlmQuestions ==
  [book : Books, kind : LlmKinds, lang : OptionOf(Langs), number : Nat \ {0}, left : Seq(Shown)]
SeriesQuestions == [book : Books, kind : {"series"}, of : SUBSET Books]
CacheRows == [version : Nat, ok : BOOLEAN, number : Nat]

\* The types that the promotions rest on.
ExtractorTypes ==
  /\ lang \in [Books -> OptionOf(Langs)] /\ text \in [Books -> OptionOf(Langs)]
  /\ answer \in [Books -> [LlmKinds -> OptionOf(CacheRows)]]
  /\ shown \in [Books -> [Shown -> Nat]]
  /\ asking \subseteq LlmQuestions \cup SeriesQuestions
  /\ members \subseteq Books /\ version \in Nat /\ asked \in Nat

\* Artefacts of an answer that are shown, its own or another run's.
Has(b, S) == \A c \in S : shown[b][c] # 0
\* What a run has left is all that its book may lack.
LeftIsMissing ==
  \A a \in asking : a.kind \in LlmKinds => Has(a.book, ToSet(Artefacts(a.kind)) \ ToSet(a.left))

ExInv == ExtractorTypes /\ LeftIsMissing /\ CachedIsShown

-----------------------------------------------------------------------------
LEMMA ShortSequences ==
  ASSUME NEW T
  PROVE  /\ <<>> \in Seq(T)
         /\ \A x \in T : <<x>> \in Seq(T)
         /\ \A x, y, z \in T : <<x, y, z>> \in Seq(T)
  OBVIOUS

LEMMA ArtefactsType ==
  ASSUME NEW k \in LlmKinds
  PROVE  Artefacts(k) \in Seq(Shown) /\ ToSet(Artefacts(k)) \subseteq Shown
<1>1. ToSet(Artefacts(k)) \subseteq Shown
  BY DEF Shown
<1>2. CASE k = "dna"
  <2>1. Artefacts(k) = <<"tags", "hierarchy", "warnings">>
    BY <1>2 DEF Artefacts
  <2>2. {"tags", "hierarchy", "warnings"} \subseteq ToSet(<<"tags", "hierarchy", "warnings">>)
    BY DEF ToSet
  <2>3. QED
    BY <1>1, <2>1, <2>2, ShortSequences
<1>3. CASE k = "polish"
  <2>1. Artefacts(k) = <<>>
    BY <1>3 DEF Artefacts
  <2>2. QED
    BY <1>1, <2>1, ShortSequences
<1>4. CASE k \in LlmKinds \ {"dna", "polish"}
  <2>1. Artefacts(k) = <<k>>
    BY <1>4 DEF Artefacts
  <2>2. k \in ToSet(<<k>>)
    BY DEF ToSet
  <2>3. QED
    BY <1>1, <2>1, <2>2, ShortSequences
<1>5. QED
  BY <1>2, <1>3, <1>4

\* A question is one of the six, or the series'.
LEMMA QuestionType ==
  ASSUME ExtractorTypes, NEW a \in asking, a.kind \in LlmKinds
  PROVE  a \in LlmQuestions
<1>1. "series" \notin LlmKinds
  BY DEF LlmKinds
<1>2. a \notin SeriesQuestions
  BY <1>1 DEF SeriesQuestions
<1>3. QED
  BY <1>2 DEF ExtractorTypes

LEMMA HeadAndTail ==
  ASSUME NEW T, NEW q \in Seq(T), q # <<>>
  PROVE  /\ Head(q) \in T /\ Tail(q) \in Seq(T)
         /\ ToSet(q) = ToSet(Tail(q)) \cup {Head(q)}
<1>1. Head(q) \in T /\ Tail(q) \in Seq(T) /\ Len(q) \in Nat \ {0} /\ Head(q) = q[1]
  OBVIOUS
<1>2. Len(Tail(q)) = Len(q) - 1 /\ \A i \in 1 .. Len(q) - 1 : Tail(q)[i] = q[i + 1]
  OBVIOUS
<1>3. DOMAIN q = 1 .. Len(q) /\ DOMAIN Tail(q) = 1 .. Len(q) - 1
  BY <1>1, <1>2
<1>4. ASSUME NEW x \in ToSet(q) PROVE x \in ToSet(Tail(q)) \cup {Head(q)}
  <2>1. PICK i \in 1 .. Len(q) : x = q[i]
    BY <1>3, <1>4 DEF ToSet
  <2>2. CASE i = 1
    BY <1>1, <2>1, <2>2
  <2>3. CASE i # 1
    <3>1. i - 1 \in 1 .. Len(q) - 1 /\ Tail(q)[i - 1] = x
      BY <1>1, <1>2, <2>1, <2>3
    <3>2. QED
      BY <1>3, <3>1 DEF ToSet
  <2>4. QED
    BY <2>2, <2>3
<1>5. ASSUME NEW x \in ToSet(Tail(q)) \cup {Head(q)} PROVE x \in ToSet(q)
  <2>1. Head(q) \in ToSet(q)
    BY <1>1, <1>3 DEF ToSet
  <2>2. ASSUME NEW i \in 1 .. Len(q) - 1 PROVE Tail(q)[i] \in ToSet(q)
    <3>1. i + 1 \in 1 .. Len(q)
      BY <1>1, <2>2
    <3>2. QED
      BY <1>2, <1>3, <2>2, <3>1 DEF ToSet
  <2>3. QED
    BY <1>3, <1>5, <2>1, <2>2 DEF ToSet
<1>6. QED
  BY <1>1, <1>4, <1>5

LEMMA ExInvInit == ExInit => ExInv
<1>1. ExInit => ExtractorTypes
  BY DEF ExInit, ExtractorTypes, OptionOf
<1>2. ExInit => LeftIsMissing /\ CachedIsShown
  BY DEF ExInit, LeftIsMissing, CachedIsShown
<1>3. QED
  BY <1>1, <1>2 DEF ExInv

-----------------------------------------------------------------------------
\* Where a step leaves the answers and what is shown alone, and asks nothing.
LEMMA QuietKeeps ==
  ASSUME LeftIsMissing, CachedIsShown, UNCHANGED <<answer, shown>>, asking' \subseteq asking
  PROVE  LeftIsMissing' /\ CachedIsShown'
  BY DEF LeftIsMissing, CachedIsShown, Has

LEMMA SurroundingsKeep ==
  ASSUME ExInv, (\E b \in Books : BookChanges(b)) \/ RestartAsking \/ UNCHANGED exVars
  PROVE  ExInv'
<1>1. LeftIsMissing' /\ CachedIsShown'
  <2>1. UNCHANGED <<answer, shown>> /\ asking' \subseteq asking
    BY DEF BookChanges, RestartAsking, exVars
  <2>2. QED
    BY <2>1, QuietKeeps DEF ExInv
<1>2. ASSUME NEW b \in Books, BookChanges(b)
      PROVE  ExtractorTypes'
  BY <1>2 DEF ExInv, ExtractorTypes, BookChanges, OptionOf
<1>3. CASE RestartAsking
  <2>1. version' \in version .. version + 1 /\ asking' = {}
    BY <1>3 DEF RestartAsking
  <2>2. UNCHANGED <<lang, text, answer, shown, members, asked>>
    BY <1>3 DEF RestartAsking
  <2>3. version' \in Nat
    BY <2>1 DEF ExInv, ExtractorTypes
  <2>4. ExtractorTypes'
    BY <2>1, <2>2, <2>3 DEF ExInv, ExtractorTypes
  <2>5. QED
    BY <1>1, <2>4 DEF ExInv
<1>4. CASE UNCHANGED exVars
  <2>1. ExtractorTypes'
    BY <1>4 DEF ExInv, ExtractorTypes, exVars
  <2>2. QED
    BY <1>1, <2>1 DEF ExInv
<1>5. QED
  BY <1>1, <1>2, <1>3, <1>4 DEF ExInv

\* A question is put: its book may lack all of the answer.
LEMMA AskKeeps ==
  ASSUME ExInv, NEW b \in Books, NEW k \in LlmKinds, NEW l \in OptionOf(Langs), Ask(b, k, l)
  PROVE  ExInv'
<1> DEFINE q == [book |-> b, kind |-> k, lang |-> l, number |-> asked + 1, left |-> Artefacts(k)]
<1>1. UNCHANGED <<lang, text, answer, shown, members, version>>
  BY DEF Ask
<1>2. asking' = asking \cup {q} /\ asked' = asked + 1
  BY DEF Ask
<1>3. asked \in Nat
  BY DEF ExInv, ExtractorTypes
<1>4. q \in LlmQuestions
  BY <1>3, ArtefactsType DEF LlmQuestions
<1>5. q.kind = k /\ q.book = b /\ q.left = Artefacts(k)
  OBVIOUS
<1> HIDE DEF q
<1>6. ExtractorTypes'
  <2>1. asking' \subseteq LlmQuestions \cup SeriesQuestions
    BY <1>2, <1>4 DEF ExInv, ExtractorTypes
  <2>2. asked' \in Nat
    BY <1>2, <1>3
  <2>3. QED
    BY <1>1, <2>1, <2>2 DEF ExInv, ExtractorTypes
<1>7. LeftIsMissing'
  <2>1. ToSet(Artefacts(k)) \ ToSet(q.left) = {}
    BY <1>5
  <2>2. ASSUME NEW x \in asking', x.kind \in LlmKinds
        PROVE  \A c \in ToSet(Artefacts(x.kind)) \ ToSet(x.left) : shown'[x.book][c] # 0
    <3>1. CASE x \in asking
      BY <1>1, <2>2, <3>1 DEF ExInv, LeftIsMissing, Has
    <3>2. CASE x = q
      BY <1>5, <2>1, <3>2
    <3>3. QED
      BY <1>2, <2>2, <3>1, <3>2
  <2>3. QED
    BY <2>2 DEF LeftIsMissing, Has
<1>8. CachedIsShown'
  BY <1>1 DEF ExInv, CachedIsShown
<1>9. QED
  BY <1>6, <1>7, <1>8 DEF ExInv

LEMMA SeriesKeep ==
  ASSUME ExInv, (\E b \in Books : SummariseSeries(b)) \/ (\E a \in asking : SeriesAnswer(a))
  PROVE  ExInv'
<1>1. ASSUME NEW b \in Books, SummariseSeries(b)
      PROVE  ExInv'
  <2> DEFINE q == [book |-> b, kind |-> "series", of |-> Summarised]
  <2>1. UNCHANGED <<lang, text, answer, shown, members, version>> /\ asking' = asking \cup {q} /\ asked' = asked + 1
    BY <1>1 DEF SummariseSeries
  <2>2. q \in SeriesQuestions /\ q.kind \notin LlmKinds
    BY DEF SeriesQuestions, Summarised, LlmKinds, ExInv, ExtractorTypes
  <2> HIDE DEF q
  <2>3. ExtractorTypes'
    BY <2>1, <2>2 DEF ExInv, ExtractorTypes
  <2>4. LeftIsMissing' /\ CachedIsShown'
    BY <2>1, <2>2 DEF ExInv, LeftIsMissing, CachedIsShown, Has
  <2>5. QED
    BY <2>3, <2>4 DEF ExInv
<1>2. ASSUME NEW a \in asking, SeriesAnswer(a)
      PROVE  ExInv'
  <2>1. UNCHANGED <<lang, text, answer, shown, members, version, asked>> /\ asking' = asking \ {a}
    BY <1>2 DEF SeriesAnswer
  <2>2. ExtractorTypes'
    BY <2>1 DEF ExInv, ExtractorTypes
  <2>3. QED
    BY <2>1, <2>2, QuietKeeps DEF ExInv
<1>3. QED
  BY <1>1, <1>2

\* A row of ai_cache is written: it may only say "taken" of what is shown.
LEMMA WriteKeeps ==
  ASSUME ExInv, NEW a \in asking, a.kind \in LlmKinds, NEW ok \in BOOLEAN, WriteCache(a, ok),
         ok => Has(a.book, ToSet(Artefacts(a.kind))),
         UNCHANGED <<lang, text, shown, members, version, asked>>
  PROVE  ExInv'
<1>1. a \in LlmQuestions
  BY QuestionType DEF ExInv
<1>2. a.book \in Books /\ a.number \in Nat
  BY <1>1 DEF LlmQuestions
<1> DEFINE entry == [version |-> version, ok |-> ok, number |-> a.number]
<1>3. entry \in CacheRows /\ entry.ok = ok
  BY <1>2 DEF CacheRows, ExInv, ExtractorTypes
<1> HIDE DEF entry
<1>4. answer' = [answer EXCEPT ![a.book] = [answer[a.book] EXCEPT ![a.kind] = entry]] /\ asking' = asking \ {a}
  BY DEF WriteCache, entry
<1>5. answer \in [Books -> [LlmKinds -> OptionOf(CacheRows)]]
  BY DEF ExInv, ExtractorTypes
<1>6. answer' \in [Books -> [LlmKinds -> OptionOf(CacheRows)]]
  <2>1. [answer[a.book] EXCEPT ![a.kind] = entry] \in [LlmKinds -> OptionOf(CacheRows)]
    BY <1>2, <1>3, <1>5 DEF OptionOf
  <2>2. QED
    BY <1>2, <1>4, <1>5, <2>1
<1>7. \A b \in Books, k \in LlmKinds :
        answer'[b][k] = IF b = a.book /\ k = a.kind THEN entry ELSE answer[b][k]
  BY <1>2, <1>4, <1>5
<1>8. ExtractorTypes'
  BY <1>4, <1>6 DEF ExInv, ExtractorTypes
<1>9. LeftIsMissing'
  BY <1>4 DEF ExInv, LeftIsMissing, Has
<1>10. CachedIsShown'
  BY <1>3, <1>7 DEF ExInv, CachedIsShown, Has
<1>11. QED
  BY <1>8, <1>9, <1>10 DEF ExInv

\* A row taken back says nothing any more.
LEMMA RetryKeeps ==
  ASSUME ExInv, NEW b \in Books, NEW k \in LlmKinds, RetryExtractor(b, k)
  PROVE  ExInv'
<1>1. UNCHANGED <<lang, text, shown, members, asking, version, asked>>
  BY DEF RetryExtractor
<1>2. answer \in [Books -> [LlmKinds -> OptionOf(CacheRows)]]
  BY DEF ExInv, ExtractorTypes
<1>3. answer' = [answer EXCEPT ![b] = [answer[b] EXCEPT ![k] = Nothing]]
  BY DEF RetryExtractor
<1>4. answer' \in [Books -> [LlmKinds -> OptionOf(CacheRows)]]
  <2>1. Nothing \in OptionOf(CacheRows)
    BY DEF OptionOf
  <2>2. [answer[b] EXCEPT ![k] = Nothing] \in [LlmKinds -> OptionOf(CacheRows)]
    BY <1>2, <2>1
  <2>3. QED
    BY <1>2, <1>3, <2>2
<1>5. \A c \in Books, j \in LlmKinds : answer'[c][j] # Nothing => answer'[c][j] = answer[c][j]
  BY <1>2, <1>3
<1>6. ExtractorTypes'
  BY <1>1, <1>4 DEF ExInv, ExtractorTypes
<1>7. LeftIsMissing' /\ CachedIsShown'
  BY <1>1, <1>5 DEF ExInv, LeftIsMissing, CachedIsShown, Has
<1>8. QED
  BY <1>6, <1>7 DEF ExInv

LEMMA OtherLeft ==
  ASSUME NEW a \in LlmQuestions, NEW r \in Seq(Shown)
  PROVE  /\ [a EXCEPT !.left = r] \in LlmQuestions
         /\ [a EXCEPT !.left = r].book = a.book /\ [a EXCEPT !.left = r].kind = a.kind
         /\ [a EXCEPT !.left = r].left = r
  BY DEF LlmQuestions

\* One transaction of an answer: what it shows is no longer missing.
LEMMA PromoteKeeps ==
  ASSUME ExInv, NEW a \in asking, a.kind \in LlmKinds, Promote(a),
         UNCHANGED <<lang, text, answer, members, version, asked>>
  PROVE  ExInv'
<1>1. a \in LlmQuestions
  BY QuestionType DEF ExInv
<1>2. a.book \in Books /\ a.number \in Nat /\ a.number # 0 /\ a.left \in Seq(Shown) /\ a.left # <<>>
  BY <1>1 DEF LlmQuestions, Promote
<1>3. /\ Head(a.left) \in Shown /\ Tail(a.left) \in Seq(Shown)
      /\ ToSet(a.left) = ToSet(Tail(a.left)) \cup {Head(a.left)}
  BY <1>2, HeadAndTail
<1> DEFINE rest == [a EXCEPT !.left = Tail(a.left)]
<1>4. asking' = (asking \ {a}) \cup {rest}
  BY DEF Promote
<1>5. rest \in LlmQuestions /\ rest.book = a.book /\ rest.kind = a.kind /\ rest.left = Tail(a.left)
  BY <1>1, <1>3, OtherLeft
<1>6. shown' = [shown EXCEPT ![a.book] = [shown[a.book] EXCEPT ![Head(a.left)] = a.number]]
  BY DEF Promote
<1> HIDE DEF rest
<1>7. shown \in [Books -> [Shown -> Nat]]
  BY DEF ExInv, ExtractorTypes
<1>8. shown' \in [Books -> [Shown -> Nat]]
  <2>1. [shown[a.book] EXCEPT ![Head(a.left)] = a.number] \in [Shown -> Nat]
    BY <1>2, <1>7
  <2>2. QED
    BY <1>2, <1>6, <1>7, <2>1
<1>9. /\ shown'[a.book][Head(a.left)] # 0
       /\ \A b \in Books, c \in Shown : shown[b][c] # 0 => shown'[b][c] # 0
  BY <1>2, <1>3, <1>6, <1>7
<1>10. ExtractorTypes'
  BY <1>4, <1>5, <1>8 DEF ExInv, ExtractorTypes
<1>11. CachedIsShown'
  BY <1>9, ArtefactsType DEF ExInv, CachedIsShown
<1>12. LeftIsMissing'
  <2>1. ASSUME NEW x \in asking, x.kind \in LlmKinds
        PROVE  Has(x.book, ToSet(Artefacts(x.kind)) \ ToSet(x.left))'
    <3>1. x.book \in Books
      BY <2>1, QuestionType DEF ExInv, LlmQuestions
    <3>2. QED
      BY <1>9, <2>1, <3>1, ArtefactsType DEF ExInv, LeftIsMissing, Has
  <2>2. Has(rest.book, ToSet(Artefacts(rest.kind)) \ ToSet(rest.left))'
    <3>1. Has(a.book, ToSet(Artefacts(a.kind)) \ ToSet(a.left))'
      BY <2>1
    <3>2. QED
      BY <1>3, <1>5, <1>9, <3>1 DEF Has
  <2>3. QED
    BY <1>4, <2>1, <2>2 DEF LeftIsMissing
<1>13. QED
  BY <1>10, <1>11, <1>12 DEF ExInv

LEMMA AnswerKeeps ==
  ASSUME ExInv, NEW a \in asking, Answer(a)
  PROVE  ExInv'
<1>1. a.kind \in LlmKinds /\ UNCHANGED <<lang, text, members, version, asked>>
  BY DEF Answer
<1>2. CASE AnswerFails(a)
  <2>1. asking' = asking \ {a} /\ UNCHANGED <<answer, shown>>
    BY <1>2 DEF AnswerFails
  <2>2. ExtractorTypes'
    BY <1>1, <2>1 DEF ExInv, ExtractorTypes
  <2>3. QED
    BY <2>1, <2>2, QuietKeeps DEF ExInv
<1>3. CASE AnswerRefused(a)
  <2>1. WriteCache(a, FALSE) /\ UNCHANGED shown
    BY <1>3 DEF AnswerRefused
  <2>2. QED
    BY <1>1, <2>1, WriteKeeps
<1>4. CASE Promote(a) /\ UNCHANGED answer
  BY <1>1, <1>4, PromoteKeeps
<1>5. CASE a.left = <<>> /\ WriteCache(a, TRUE) /\ UNCHANGED <<shown, tree>>
  <2>1. ToSet(a.left) = {}
    BY <1>5 DEF ToSet
  <2>2. Has(a.book, ToSet(Artefacts(a.kind)))
    BY <1>1, <2>1 DEF ExInv, LeftIsMissing, Has
  <2>3. QED
    BY <1>1, <1>5, <2>2, WriteKeeps
<1>6. QED
  BY <1>2, <1>3, <1>4, <1>5 DEF Answer, AnswerAccepted

LEMMA ExInvStep ==
  ASSUME ExInv, [ExStep]_exVars
  PROVE  ExInv'
<1>1. ASSUME NEW b \in Books, NEW k \in LlmKinds, Ask(b, k, lang[b]) \/ Ask(b, k, text[b])
      PROVE  ExInv'
  <2>1. lang[b] \in OptionOf(Langs) /\ text[b] \in OptionOf(Langs)
    BY DEF ExInv, ExtractorTypes
  <2>2. QED
    BY <1>1, <2>1, AskKeeps
<1>2. ASSUME NEW b \in Books,
             SummariseBook(b) \/ FindTags(b) \/ DrawArc(b) \/ FindCharacters(b) \/ FindSetting(b) \/ PolishText(b)
      PROVE  ExInv'
  <2>1. {"summary", "dna", "arc", "characters", "setting", "polish"} \subseteq LlmKinds
    BY DEF LlmKinds
  <2>2. QED
    BY <1>1, <1>2, <2>1 DEF SummariseBook, FindTags, DrawArc, FindCharacters, FindSetting, PolishText
<1>3. ASSUME NEW b \in Books, MarkText(b)
      PROVE  ExInv'
  <2>1. UNCHANGED <<lang, text, answer, shown, members, asking, version, asked>>
    BY <1>3 DEF MarkText
  <2>2. ExtractorTypes'
    BY <2>1 DEF ExInv, ExtractorTypes
  <2>3. QED
    BY <2>1, <2>2, QuietKeeps DEF ExInv
<1>4. ASSUME NEW a \in asking, Answer(a) \/ SeriesAnswer(a)
      PROVE  ExInv'
  BY <1>4, AnswerKeeps, SeriesKeep
<1>5. ASSUME NEW b \in Books, SummariseSeries(b) \/ BookChanges(b)
      PROVE  ExInv'
  BY <1>5, SeriesKeep, SurroundingsKeep
<1>6. CASE RestartAsking \/ UNCHANGED exVars
  BY <1>6, SurroundingsKeep
<1>7. ASSUME NEW b \in Books, NEW k \in LlmKinds, RetryExtractor(b, k)
      PROVE  ExInv'
  BY <1>7, RetryKeeps
<1>8. QED
  BY <1>2, <1>3, <1>4, <1>5, <1>6, <1>7 DEF ExStep

(* The columns and rows that an accepted answer promises are there before    *)
(* the row of ai_cache is, whatever runs meet and whenever the daemon dies.  *)
THEOREM CachedAnswersShown == ExSpec => []CachedIsShown
<1>1. ExInv => CachedIsShown
  BY DEF ExInv
<1>2. QED
  BY ExInvInit, ExInvStep, <1>1, PTL DEF ExSpec

-----------------------------------------------------------------------------
(* The hierarchy of tags                                                     *)

\* The stages of the recursive query.
Wider(edges, tags) == tags \cup Children(edges, tags)
Stages(edges, t, last, D) ==
  D = [n \in 0 .. last |-> IF n = 0 THEN Children(edges, {t}) ELSE Wider(edges, D[n - 1])]
\* A stage is closed, or has at least as many tags as there were stages.
ClosedOrLarge(edges, tags, n) == Children(edges, tags) \subseteq tags \/ Cardinality(tags) >= n + 1

LEMMA StagesExist ==
  ASSUME NEW edges, NEW t, NEW last \in Nat
  PROVE  \E D : Stages(edges, t, last, D)
<1>1. PICK S : S = {n \in 0 .. last : \E D : Stages(edges, t, n, D)}
  OBVIOUS
<1>2. 0 \in S
  <2>1. PICK D : D = [n \in 0 .. 0 |-> Children(edges, {t})]
    OBVIOUS
  <2>2. Stages(edges, t, 0, D)
    BY <2>1 DEF Stages
  <2>3. QED
    BY <1>1, <2>2
<1>3. ASSUME NEW m \in 1 .. last, m - 1 \in S
      PROVE  m \in S
  <2>1. PICK D : Stages(edges, t, m - 1, D)
    BY <1>1, <1>3
  <2>2. PICK next : next = [n \in 0 .. m |-> IF n = m THEN Wider(edges, D[m - 1]) ELSE D[n]]
    OBVIOUS
  <2>3. \A n \in 0 .. m - 1 : next[n] = D[n]
    BY <2>2
  <2>4. \A n \in 0 .. m - 1 : D[n] = IF n = 0 THEN Children(edges, {t}) ELSE Wider(edges, D[n - 1])
    BY <2>1 DEF Stages
  <2>5. ASSUME NEW n \in 0 .. m
        PROVE  next[n] = IF n = 0 THEN Children(edges, {t}) ELSE Wider(edges, next[n - 1])
    <3>1. CASE n = 0
      BY <2>3, <2>4, <3>1
    <3>2. CASE n = m
      <4>1. m # 0 /\ m - 1 \in 0 .. m - 1 /\ m \in 0 .. m
        BY <1>3
      <4>2. next[m] = Wider(edges, D[m - 1]) /\ next[m - 1] = D[m - 1]
        BY <2>2, <2>3, <4>1
      <4>3. QED
        BY <3>2, <4>1, <4>2
    <3>3. CASE n # 0 /\ n # m
      <4>1. n \in 0 .. m - 1 /\ n - 1 \in 0 .. m - 1
        BY <3>3
      <4>2. QED
        BY <2>3, <2>4, <3>3, <4>1
    <3>4. QED
      BY <3>1, <3>2, <3>3
  <2>6. next = [n \in 0 .. m |-> next[n]]
    BY <2>2
  <2>7. Stages(edges, t, m, next)
    BY <2>5, <2>6 DEF Stages
  <2>8. QED
    BY <1>1, <2>7
<1>4. last \in S
  BY <1>2, <1>3, SetInduction
<1>5. QED
  BY <1>1, <1>4

\* As many stages as there are edges reach everything, and nothing else.
LEMMA BelowIsReached ==
  ASSUME NEW edges, IsFiniteSet(edges), NEW t
  PROVE  /\ Children(edges, {t}) \subseteq Below(edges, t)
         /\ Children(edges, Below(edges, t)) \subseteq Below(edges, t)
         /\ \A R : Children(edges, {t}) \subseteq R /\ Children(edges, R) \subseteq R => Below(edges, t) \subseteq R
<1>1. PICK N : N = Cardinality(edges)
  OBVIOUS
<1>2. N \in Nat
  BY <1>1, FS_CardinalityType
<1>3. PICK D : D = CHOOSE f : Stages(edges, t, N, f)
  OBVIOUS
<1>4. Stages(edges, t, N, D)
  BY <1>2, <1>3, StagesExist
<1>5. Below(edges, t) = D[N]
  BY <1>1, <1>3 DEF Below, Stages, Wider
<1>6. D[0] = Children(edges, {t}) /\ \A n \in 1 .. N : D[n] = Wider(edges, D[n - 1])
  <2>1. \A n \in 0 .. N : D[n] = IF n = 0 THEN Children(edges, {t}) ELSE Wider(edges, D[n - 1])
    BY <1>4, Zenon DEF Stages
  <2>2. QED
    BY <1>2, <2>1
<1>7. PICK ends : ends = {e[2] : e \in edges}
  OBVIOUS
<1>8. IsFiniteSet(ends) /\ Cardinality(ends) <= N
  <2>1. PICK g : g = [e \in edges |-> e[2]]
    OBVIOUS
  <2>2. g \in Surjection(edges, ends)
    BY <1>7, <2>1 DEF Surjection
  <2>3. QED
    BY <1>1, <2>2, FS_Surjection
<1>9. \A tags : Children(edges, tags) \subseteq ends
  BY <1>7 DEF Children
<1>10. PICK S : S = {n \in 0 .. N : /\ D[0] \subseteq D[n] /\ D[n] \subseteq ends
                                   /\ ClosedOrLarge(edges, D[n], n)}
  OBVIOUS
<1>11. 0 \in S
  <2>1. D[0] \subseteq ends
    BY <1>6, <1>9
  <2>2. CASE D[0] = {}
    BY <1>2, <1>10, <2>1, <2>2 DEF Children, ClosedOrLarge
  <2>3. CASE D[0] # {}
    <3>1. IsFiniteSet(D[0]) /\ Cardinality(D[0]) # 0 /\ Cardinality(D[0]) \in Nat
      BY <1>8, <2>1, <2>3, FS_Subset, FS_EmptySet, FS_CardinalityType
    <3>2. QED
      BY <1>2, <1>10, <2>1, <3>1 DEF ClosedOrLarge
  <2>4. QED
    BY <2>2, <2>3
<1>12. ASSUME NEW n \in 1 .. N, n - 1 \in S
       PROVE  n \in S
  <2>1. /\ D[n] = Wider(edges, D[n - 1]) /\ D[0] \subseteq D[n - 1] /\ D[n - 1] \subseteq ends
        /\ ClosedOrLarge(edges, D[n - 1], n - 1)
    BY <1>2, <1>6, <1>10, <1>12
  <2>2. D[0] \subseteq D[n] /\ D[n] \subseteq ends /\ D[n - 1] \subseteq D[n]
    BY <1>9, <2>1 DEF Wider
  <2>3. CASE Children(edges, D[n - 1]) \subseteq D[n - 1]
    <3>1. D[n] = D[n - 1]
      BY <2>1, <2>3 DEF Wider
    <3>2. ClosedOrLarge(edges, D[n], n)
      BY <2>3, <3>1 DEF ClosedOrLarge
    <3>3. QED
      BY <1>2, <1>10, <2>2, <3>2
  <2>4. CASE ~(Children(edges, D[n - 1]) \subseteq D[n - 1])
    <3>1. IsFiniteSet(D[n]) /\ D[n] # D[n - 1]
      BY <1>8, <2>1, <2>2, <2>4, FS_Subset DEF Wider
    <3>2. Cardinality(D[n - 1]) < Cardinality(D[n]) /\ Cardinality(D[n]) \in Nat /\ Cardinality(D[n - 1]) \in Nat
      BY <2>2, <3>1, FS_Subset, FS_CardinalityType
    <3>3. ClosedOrLarge(edges, D[n], n)
      BY <2>1, <2>4, <3>2 DEF ClosedOrLarge
    <3>4. QED
      BY <1>2, <1>10, <2>2, <3>3
  <2>5. QED
    BY <2>3, <2>4
<1>13. N \in S
  BY <1>2, <1>11, <1>12, SetInduction
<1>14. D[0] \subseteq D[N] /\ Children(edges, D[N]) \subseteq D[N]
  <2>1. D[0] \subseteq D[N] /\ D[N] \subseteq ends /\ ClosedOrLarge(edges, D[N], N)
    BY <1>10, <1>13
  <2>2. Cardinality(D[N]) <= Cardinality(ends) /\ Cardinality(D[N]) \in Nat /\ Cardinality(ends) \in Nat
    BY <1>8, <2>1, FS_Subset, FS_CardinalityType
  <2>3. ~(Cardinality(D[N]) >= N + 1)
    BY <1>2, <1>8, <2>2
  <2>4. QED
    BY <2>1, <2>3 DEF ClosedOrLarge
<1>15. ASSUME NEW R, Children(edges, {t}) \subseteq R, Children(edges, R) \subseteq R
       PROVE  D[N] \subseteq R
  <2>1. PICK U : U = {n \in 0 .. N : D[n] \subseteq R}
    OBVIOUS
  <2>2. 0 \in U
    <3>1. D[0] \subseteq R
      BY <1>6, <1>15, Zenon
    <3>2. QED
      BY <1>2, <2>1, <3>1
  <2>3. ASSUME NEW n \in 1 .. N, n - 1 \in U
        PROVE  n \in U
    <3>1. Children(edges, D[n - 1]) \subseteq R
      BY <1>15, <2>1, <2>3 DEF Children
    <3>2. QED
      BY <1>6, <2>1, <2>3, <3>1 DEF Wider
  <2>4. N \in U
    BY <1>2, <2>2, <2>3, SetInduction
  <2>5. QED
    BY <2>1, <2>4
<1>16. QED
  BY <1>5, <1>6, <1>14, <1>15

Acyclic(edges) == \A t : t \notin Below(edges, t)

\* A pair whose child does not lead to its parent closes no cycle.
LEMMA InsertAcyclic ==
  ASSUME NEW edges, IsFiniteSet(edges), Acyclic(edges), NEW p
  PROVE  IsFiniteSet(InsertPair(edges, p)) /\ Acyclic(InsertPair(edges, p))
<1>1. CASE ~(Canonical(p) /\ ~WouldCreateCycle(edges, p))
  BY <1>1 DEF InsertPair
<1>2. CASE Canonical(p) /\ ~WouldCreateCycle(edges, p)
  <2>1. PICK u, v : u = p[1] /\ v = p[2]
    OBVIOUS
  <2>2. u # v /\ u \notin Below(edges, v)
    BY <1>2, <2>1 DEF Canonical, WouldCreateCycle
  <2>3. PICK grown : grown = edges \cup {p}
    OBVIOUS
  <2>4. InsertPair(edges, p) = grown /\ IsFiniteSet(grown)
    BY <1>2, <2>3, FS_AddElement DEF InsertPair
  <2>5. \A tags : Children(grown, tags) = Children(edges, tags) \cup (IF u \in tags THEN {v} ELSE {})
    BY <2>1, <2>3 DEF Children
  <2>6. ASSUME NEW t, t \in Below(grown, t)
        PROVE  FALSE
    <3>1. PICK B, C : B = Below(edges, t) /\ C = Below(edges, v)
      OBVIOUS
    <3>2. /\ Children(edges, {t}) \subseteq B /\ Children(edges, B) \subseteq B
          /\ Children(edges, {v}) \subseteq C /\ Children(edges, C) \subseteq C
      BY <3>1, BelowIsReached
    <3>3. PICK R : R = B \cup (IF u = t \/ u \in B THEN {v} \cup C ELSE {})
      OBVIOUS
    <3>4. Children(grown, {t}) \subseteq R
      BY <2>5, <3>2, <3>3
    <3>5. Children(edges, R) \subseteq R
      BY <3>2, <3>3 DEF Children
    <3>6. Children(grown, R) \subseteq R
      BY <2>2, <2>5, <3>1, <3>3, <3>5
    <3>7. Below(grown, t) \subseteq R
      BY <2>4, <3>4, <3>6, BelowIsReached
    <3>8. t \notin B
      BY <3>1 DEF Acyclic
    <3>9. (u = t \/ u \in B) /\ (t = v \/ t \in C)
      BY <2>6, <3>3, <3>7, <3>8
    <3>10. t \in C => B \subseteq C
      <4>1. ASSUME t \in C
            PROVE  Children(edges, {t}) \subseteq C
        BY <3>2, <4>1 DEF Children
      <4>2. QED
        BY <3>1, <3>2, <4>1, BelowIsReached
    <3>11. QED
      BY <2>2, <3>1, <3>9, <3>10
  <2>7. QED
    BY <2>4, <2>6 DEF Acyclic
<1>3. QED
  BY <1>1, <1>2

\* Inserted one after the other, however many.
Inserting(pairs, last, f) ==
  f = [n \in 0 .. last |-> IF n = 0 THEN tree ELSE InsertPair(f[n - 1], pairs[n])]

LEMMA InsertingExists ==
  ASSUME NEW pairs, NEW last \in Nat
  PROVE  \E f : Inserting(pairs, last, f)
<1>1. PICK S : S = {n \in 0 .. last : \E f : Inserting(pairs, n, f)}
  OBVIOUS
<1>2. 0 \in S
  <2>1. PICK f : f = [n \in 0 .. 0 |-> tree]
    OBVIOUS
  <2>2. Inserting(pairs, 0, f)
    BY <2>1 DEF Inserting
  <2>3. QED
    BY <1>1, <2>2
<1>3. ASSUME NEW m \in 1 .. last, m - 1 \in S
      PROVE  m \in S
  <2>1. PICK f : Inserting(pairs, m - 1, f)
    BY <1>1, <1>3
  <2>2. PICK next : next = [n \in 0 .. m |-> IF n = m THEN InsertPair(f[m - 1], pairs[m]) ELSE f[n]]
    OBVIOUS
  <2>3. \A n \in 0 .. m - 1 : next[n] = f[n]
    BY <2>2
  <2>4. \A n \in 0 .. m - 1 : f[n] = IF n = 0 THEN tree ELSE InsertPair(f[n - 1], pairs[n])
    BY <2>1 DEF Inserting
  <2>5. ASSUME NEW n \in 0 .. m
        PROVE  next[n] = IF n = 0 THEN tree ELSE InsertPair(next[n - 1], pairs[n])
    <3>1. CASE n = 0
      BY <2>3, <2>4, <3>1
    <3>2. CASE n = m
      <4>1. m # 0 /\ m - 1 \in 0 .. m - 1 /\ m \in 0 .. m
        BY <1>3
      <4>2. next[m] = InsertPair(f[m - 1], pairs[m]) /\ next[m - 1] = f[m - 1]
        BY <2>2, <2>3, <4>1
      <4>3. QED
        BY <3>2, <4>1, <4>2
    <3>3. CASE n # 0 /\ n # m
      <4>1. n \in 0 .. m - 1 /\ n - 1 \in 0 .. m - 1
        BY <3>3
      <4>2. QED
        BY <2>3, <2>4, <3>3, <4>1
    <3>4. QED
      BY <3>1, <3>2, <3>3
  <2>6. next = [n \in 0 .. m |-> next[n]]
    BY <2>2
  <2>7. Inserting(pairs, m, next)
    BY <2>5, <2>6 DEF Inserting
  <2>8. QED
    BY <1>1, <2>7
<1>4. last \in S
  BY <1>2, <1>3, SetInduction
<1>5. QED
  BY <1>1, <1>4

TreeInv == IsFiniteSet(tree) /\ Acyclic(tree)

LEMMA HierarchyKeeps ==
  ASSUME TreeInv, NEW h \in Hierarchies
  PROVE  IsFiniteSet(WriteHierarchy(h)) /\ Acyclic(WriteHierarchy(h))
<1>1. PICK N : N = Len(h)
  OBVIOUS
<1>2. N \in Nat
  BY <1>1, ExtractorsAssumption
<1>3. PICK f : f = CHOOSE g : Inserting(h, N, g)
  OBVIOUS
<1>4. Inserting(h, N, f)
  BY <1>2, <1>3, InsertingExists
<1>5. WriteHierarchy(h) = f[N]
  BY <1>1, <1>3 DEF WriteHierarchy, Inserting
<1>6. f[0] = tree /\ \A n \in 1 .. N : f[n] = InsertPair(f[n - 1], h[n])
  BY <1>2, <1>4 DEF Inserting
<1>7. PICK S : S = {n \in 0 .. N : IsFiniteSet(f[n]) /\ Acyclic(f[n])}
  OBVIOUS
<1>8. 0 \in S
  BY <1>2, <1>6, <1>7 DEF TreeInv
<1>9. ASSUME NEW n \in 1 .. N, n - 1 \in S
      PROVE  n \in S
  BY <1>6, <1>7, <1>9, InsertAcyclic
<1>10. N \in S
  BY <1>2, <1>8, <1>9, SetInduction
<1>11. QED
  BY <1>5, <1>7, <1>10

(* However many answers meet and whatever pairs they propose, over any tags, *)
(* no tag becomes its own ancestor: each pair is probed against the rows that *)
(* the transaction has written so far (write_hierarchy).                     *)
THEOREM HierarchyStaysAcyclic == ExSpec => []TagsAcyclic
<1>1. ExInit => TreeInv
  <2> SUFFICES ASSUME ExInit PROVE TreeInv
    OBVIOUS
  <2>1. tree = {} /\ IsFiniteSet(tree)
    BY FS_EmptySet DEF ExInit
  <2>2. ASSUME NEW t
        PROVE  t \notin Below(tree, t)
    <3>1. Children(tree, {t}) \subseteq {} /\ Children(tree, {}) \subseteq {}
      BY <2>1 DEF Children
    <3>2. QED
      BY <2>1, <3>1, BelowIsReached
  <2>3. QED
    BY <2>1, <2>2 DEF TreeInv, Acyclic
<1>2. ASSUME TreeInv, [ExStep]_exVars
      PROVE  TreeInv'
  <2>1. CASE UNCHANGED tree
    BY <1>2, <2>1 DEF TreeInv
  <2>2. ASSUME NEW h \in Hierarchies, tree' = WriteHierarchy(h)
        PROVE  TreeInv'
    <3>1. IsFiniteSet(tree') /\ Acyclic(tree')
      BY <1>2, <2>2, HierarchyKeeps
    <3>2. QED
      BY <3>1 DEF TreeInv
  <2>3. UNCHANGED tree \/ \E h \in Hierarchies : tree' = WriteHierarchy(h)
    BY <1>2 DEF ExStep, exVars, SummariseBook, FindTags, DrawArc, FindCharacters, FindSetting, PolishText, Ask,
       SummariseSeries, MarkText, BookChanges, RetryExtractor, SeriesAnswer, RestartAsking, Answer, AnswerFails,
       AnswerRefused, AnswerAccepted, Promote
  <2>4. QED
    BY <2>1, <2>2, <2>3
<1>3. TreeInv => TagsAcyclic
  BY DEF TreeInv, Acyclic, TagsAcyclic
<1>4. QED
  BY <1>1, <1>2, <1>3, PTL DEF ExSpec

-----------------------------------------------------------------------------
(* --- Types of Extractors ------------------------------------------------- *)

\* An answer in hand is one that was asked for, and a series' is of its members.
AnswersCounted ==
  /\ \A b \in Books, c \in Shown : shown[b][c] <= asked
  /\ \A a \in asking : a.kind \in LlmKinds => a.number <= asked
SeriesOfMembers ==
  /\ series \in [stamp : Nat, of : SUBSET members]
  /\ \A a \in asking : a.kind = "series" => a.of \subseteq members
MarkTexts == {"raw", "polished", "refused"}
ExCounted ==
  /\ AnswersCounted /\ SeriesOfMembers
  /\ tree \subseteq TagNames \X TagNames /\ version \in 1 .. MaxVersion
  /\ marked \in [Books -> OptionOf(MarkTexts)]

LEMMA InsertPairType ==
  ASSUME NEW edges, edges \subseteq TagNames \X TagNames, NEW p \in TagNames \X TagNames
  PROVE  InsertPair(edges, p) \subseteq TagNames \X TagNames
  BY DEF InsertPair

LEMMA HierarchyType ==
  ASSUME tree \subseteq TagNames \X TagNames, NEW h \in Hierarchies
  PROVE  WriteHierarchy(h) \subseteq TagNames \X TagNames
<1>1. PICK N : N = Len(h)
  OBVIOUS
<1>2. N \in Nat
  BY <1>1, ExtractorsAssumption
<1>12. \A n \in 1 .. N : h[n] \in TagNames \X TagNames
  BY <1>1, ExtractorsAssumption
<1>3. PICK f : f = CHOOSE g : Inserting(h, N, g)
  OBVIOUS
<1>4. Inserting(h, N, f)
  BY <1>2, <1>3, InsertingExists
<1>5. WriteHierarchy(h) = f[N]
  BY <1>1, <1>3 DEF WriteHierarchy, Inserting
<1>6. f[0] = tree /\ \A n \in 1 .. N : f[n] = InsertPair(f[n - 1], h[n])
  BY <1>2, <1>4 DEF Inserting
<1>7. PICK S : S = {n \in 0 .. N : f[n] \subseteq TagNames \X TagNames}
  OBVIOUS
<1>8. 0 \in S
  BY <1>2, <1>6, <1>7
<1>9. ASSUME NEW n \in 1 .. N, n - 1 \in S
      PROVE  n \in S
  BY <1>6, <1>7, <1>9, <1>12, InsertPairType
<1>10. N \in S
  BY <1>2, <1>8, <1>9, SetInduction
<1>11. QED
  BY <1>5, <1>7, <1>10

\* Where nothing is counted, and no question is added.
LEMMA QuietCounts ==
  ASSUME ExInv, ExCounted, asking' \subseteq asking, UNCHANGED <<shown, asked, series, members>>
  PROVE  AnswersCounted' /\ SeriesOfMembers'
  BY DEF ExCounted, AnswersCounted, SeriesOfMembers

LEMMA AskCounts ==
  ASSUME ExInv, ExCounted, NEW b \in Books, NEW k \in LlmKinds, NEW l, Ask(b, k, l)
  PROVE  ExCounted'
<1> DEFINE q == [book |-> b, kind |-> k, lang |-> l, number |-> asked + 1, left |-> Artefacts(k)]
<1>1. UNCHANGED <<shown, tree, series, members, marked, version>> /\ asking' = asking \cup {q} /\ asked' = asked + 1
  BY DEF Ask
<1>2. q.kind = k /\ q.number = asked + 1 /\ k # "series"
  BY DEF LlmKinds
<1>3. asked \in Nat /\ shown \in [Books -> [Shown -> Nat]]
  BY DEF ExInv, ExtractorTypes
<1>4. \A a \in asking : a.kind \in LlmKinds => a.number \in Nat
  BY QuestionType DEF ExInv, LlmQuestions
<1> HIDE DEF q
<1>5. AnswersCounted'
  BY <1>1, <1>2, <1>3, <1>4 DEF ExCounted, AnswersCounted
<1>6. SeriesOfMembers'
  BY <1>1, <1>2 DEF ExCounted, SeriesOfMembers
<1>7. QED
  BY <1>1, <1>5, <1>6 DEF ExCounted

LEMMA SeriesCounts ==
  ASSUME ExInv, ExCounted, (\E b \in Books : SummariseSeries(b)) \/ (\E a \in asking : SeriesAnswer(a))
  PROVE  ExCounted'
<1>1. version \in Nat /\ asked \in Nat /\ shown \in [Books -> [Shown -> Nat]]
  BY DEF ExInv, ExtractorTypes
<1>2. ASSUME NEW b \in Books, SummariseSeries(b)
      PROVE  ExCounted'
  <2> DEFINE q == [book |-> b, kind |-> "series", of |-> Summarised]
  <2>1. UNCHANGED <<shown, tree, series, members, marked, version>> /\ asking' = asking \cup {q} /\ asked' = asked + 1
    BY <1>2 DEF SummariseSeries
  <2>2. q.kind = "series" /\ q.of \subseteq members /\ q.kind \notin LlmKinds
    BY DEF Summarised, LlmKinds
  <2>3. \A a \in asking : a.kind \in LlmKinds => a.number \in Nat
    BY QuestionType DEF ExInv, LlmQuestions
  <2> HIDE DEF q
  <2>4. AnswersCounted'
    BY <1>1, <2>1, <2>2, <2>3 DEF ExCounted, AnswersCounted
  <2>5. SeriesOfMembers'
    BY <2>1, <2>2 DEF ExCounted, SeriesOfMembers
  <2>6. QED
    BY <2>1, <2>4, <2>5 DEF ExCounted
<1>3. ASSUME NEW a \in asking, SeriesAnswer(a)
      PROVE  ExCounted'
  <2>1. a.of \subseteq members /\ series \in [stamp : Nat, of : SUBSET members]
    BY <1>3 DEF SeriesAnswer, ExCounted, SeriesOfMembers
  <2>2. asking' = asking \ {a} /\ UNCHANGED <<shown, tree, members, marked, version, asked>>
    BY <1>3 DEF SeriesAnswer
  <2>3. series' \in [stamp : Nat, of : SUBSET members]
    BY <1>1, <1>3, <2>1 DEF SeriesAnswer
  <2>4. AnswersCounted' /\ SeriesOfMembers'
    BY <2>2, <2>3 DEF ExCounted, AnswersCounted, SeriesOfMembers
  <2>5. QED
    BY <2>2, <2>4 DEF ExCounted
<1>4. QED
  BY <1>2, <1>3

\* What is shown is the number of the answer in hand.
LEMMA PromoteCounts ==
  ASSUME ExInv, ExCounted, NEW a \in asking, a.kind \in LlmKinds, Promote(a),
         UNCHANGED <<series, members, marked, version, asked>>
  PROVE  ExCounted'
<1>1. a \in LlmQuestions
  BY QuestionType DEF ExInv
<1>2. a.book \in Books /\ a.left \in Seq(Shown) /\ a.left # <<>> /\ a.number <= asked
  BY <1>1 DEF LlmQuestions, Promote, ExCounted, AnswersCounted
<1>3. Head(a.left) \in Shown /\ Tail(a.left) \in Seq(Shown)
  BY <1>2, HeadAndTail
<1>4. shown' = [shown EXCEPT ![a.book] = [shown[a.book] EXCEPT ![Head(a.left)] = a.number]]
  BY DEF Promote
<1>5. shown \in [Books -> [Shown -> Nat]]
  BY DEF ExInv, ExtractorTypes
<1>6. \A b \in Books, c \in Shown : shown'[b][c] = shown[b][c] \/ shown'[b][c] = a.number
  BY <1>2, <1>3, <1>4, <1>5
<1> DEFINE rest == [a EXCEPT !.left = Tail(a.left)]
<1>7. asking' = (asking \ {a}) \cup {rest}
  BY DEF Promote
<1>8. rest.kind = a.kind /\ rest.number = a.number /\ rest.kind # "series"
  BY <1>1 DEF LlmQuestions, LlmKinds
<1> HIDE DEF rest
<1>9. AnswersCounted'
  <2>1. \A b \in Books, c \in Shown : shown'[b][c] <= asked
    BY <1>2, <1>6 DEF ExCounted, AnswersCounted
  <2>2. QED
    BY <1>2, <1>7, <1>8, <2>1 DEF ExCounted, AnswersCounted
<1>10. SeriesOfMembers'
  BY <1>7, <1>8 DEF ExCounted, SeriesOfMembers
<1>11. tree' \subseteq TagNames \X TagNames
  BY HierarchyType DEF Promote, ExCounted
<1>12. QED
  BY <1>9, <1>10, <1>11 DEF ExCounted

LEMMA AnswerCounts ==
  ASSUME ExInv, ExCounted, NEW a \in asking, Answer(a)
  PROVE  ExCounted'
<1>1. a.kind \in LlmKinds /\ UNCHANGED <<series, members, marked, version, asked>>
  BY DEF Answer
<1>2. CASE AnswerFails(a) \/ AnswerRefused(a) \/ (a.left = <<>> /\ WriteCache(a, TRUE) /\ UNCHANGED <<shown, tree>>)
  <2>1. asking' \subseteq asking /\ UNCHANGED <<shown, tree>>
    BY <1>2 DEF AnswerFails, AnswerRefused, WriteCache
  <2>2. QED
    BY <1>1, <2>1, QuietCounts DEF ExCounted
<1>3. CASE Promote(a) /\ UNCHANGED answer
  BY <1>1, <1>3, PromoteCounts
<1>4. QED
  BY <1>2, <1>3 DEF Answer, AnswerAccepted

LEMMA SurroundingsCount ==
  ASSUME ExInv, ExCounted, (\E b \in Books : BookChanges(b) \/ MarkText(b) \/ \E k \in LlmKinds : RetryExtractor(b, k))
           \/ RestartAsking \/ UNCHANGED exVars
  PROVE  ExCounted'
<1>1. ASSUME NEW b \in Books, BookChanges(b)
      PROVE  ExCounted'
  <2>1. members \subseteq members' /\ UNCHANGED <<shown, tree, series, marked, asking, version, asked>>
    BY <1>1 DEF BookChanges
  <2>2. AnswersCounted' /\ SeriesOfMembers'
    BY <2>1 DEF ExCounted, AnswersCounted, SeriesOfMembers
  <2>3. QED
    BY <2>1, <2>2 DEF ExCounted
<1>2. ASSUME NEW b \in Books, MarkText(b)
      PROVE  ExCounted'
  <2>1. LoadResolvedTranscript(b) \in MarkTexts
    BY DEF LoadResolvedTranscript, MarkTexts
  <2>2. marked' \in [Books -> OptionOf(MarkTexts)]
    BY <1>2, <2>1 DEF MarkText, ExCounted, OptionOf
  <2>3. asking' \subseteq asking /\ UNCHANGED <<shown, asked, series, members, tree, version>>
    BY <1>2 DEF MarkText
  <2>4. QED
    BY <2>2, <2>3, QuietCounts DEF ExCounted
<1>3. ASSUME NEW b \in Books, NEW k \in LlmKinds, RetryExtractor(b, k)
      PROVE  ExCounted'
  <2>1. asking' \subseteq asking /\ UNCHANGED <<shown, asked, series, members, tree, version, marked>>
    BY <1>3 DEF RetryExtractor
  <2>2. QED
    BY <2>1, QuietCounts DEF ExCounted
<1>4. CASE RestartAsking
  <2>1. asking' \subseteq asking /\ UNCHANGED <<shown, asked, series, members, tree, marked>>
    BY <1>4 DEF RestartAsking
  <2>2. version' \in 1 .. MaxVersion
    BY <1>4, ExtractorsAssumption DEF RestartAsking, ExCounted
  <2>3. QED
    BY <2>1, <2>2, QuietCounts DEF ExCounted
<1>5. CASE UNCHANGED exVars
  <2>1. asking' \subseteq asking /\ UNCHANGED <<shown, asked, series, members, tree, version, marked>>
    BY <1>5 DEF exVars
  <2>2. QED
    BY <2>1, QuietCounts DEF ExCounted
<1>6. QED
  BY <1>1, <1>2, <1>3, <1>4, <1>5

LEMMA ExCountedInit == ExInit => ExCounted
<1> SUFFICES ASSUME ExInit PROVE ExCounted
  OBVIOUS
<1>1. AnswersCounted
  BY DEF ExInit, AnswersCounted
<1>2. SeriesOfMembers
  BY DEF ExInit, SeriesOfMembers
<1>3. version \in 1 .. MaxVersion
  BY ExtractorsAssumption DEF ExInit
<1>4. tree \subseteq TagNames \X TagNames /\ marked \in [Books -> OptionOf(MarkTexts)]
  BY DEF ExInit, OptionOf
<1>5. QED
  BY <1>1, <1>2, <1>3, <1>4 DEF ExCounted

LEMMA ExCountedStep ==
  ASSUME ExInv, ExCounted, [ExStep]_exVars
  PROVE  ExCounted'
<1>1. ASSUME NEW b \in Books,
             SummariseBook(b) \/ FindTags(b) \/ DrawArc(b) \/ FindCharacters(b) \/ FindSetting(b) \/ PolishText(b)
      PROVE  ExCounted'
  <2>1. {"summary", "dna", "arc", "characters", "setting", "polish"} \subseteq LlmKinds
    BY DEF LlmKinds
  <2>2. QED
    BY <1>1, <2>1, AskCounts DEF SummariseBook, FindTags, DrawArc, FindCharacters, FindSetting, PolishText
<1>2. QED
  BY <1>1, SeriesCounts, AnswerCounts, SurroundingsCount DEF ExStep

LEMMA ExTypesOfInv == ExInv /\ ExCounted => ExTypeOK
<1> SUFFICES ASSUME ExInv, ExCounted PROVE ExTypeOK
  OBVIOUS
<1>1. shown \in [Books -> [Shown -> Nat]] /\ asked \in Nat
  BY DEF ExInv, ExtractorTypes
<1>2. \A b \in Books : shown[b] \in [Shown -> 0 .. asked]
  BY <1>1 DEF ExCounted, AnswersCounted
<1>3. shown \in [Books -> [Shown -> 0 .. asked]]
  BY <1>1, <1>2
<1>4. series.of \subseteq members
  BY DEF ExCounted, SeriesOfMembers
<1>5. QED
  BY <1>3, <1>4 DEF ExInv, ExtractorTypes, ExCounted, ExTypeOK, MarkTexts

(* What is shown of a book comes from an answer that was asked for, the       *)
(* series is summed up from its own members, the hierarchy is of known tags,  *)
(* and the versions of the rows are among the configured ones.               *)
THEOREM ExtractorTypesHold == ExSpec => []ExTypeOK
<1>1. QED
  BY ExInvInit, ExInvStep, ExCountedInit, ExCountedStep, ExTypesOfInv, PTL DEF ExSpec

-----------------------------------------------------------------------------
(* --- Profiles ------------------------------------------------------------ *)
(* Proofs about Profiles, for any answers, caps, books and bounds.           *)

\* What the loop over a list of tags has kept after each of them.
Keeping(slugs, cap, last, f) ==
  f = [n \in 0 .. last |-> IF n = 0 THEN <<>> ELSE KeepOne(f[n - 1], slugs[n], cap)]

LEMMA KeepingExists ==
  ASSUME NEW slugs, NEW cap, NEW last \in Nat
  PROVE  \E f : Keeping(slugs, cap, last, f)
<1>1. PICK S : S = {n \in 0 .. last : \E f : Keeping(slugs, cap, n, f)}
  OBVIOUS
<1>2. 0 \in S
  <2>1. PICK f : f = [n \in 0 .. 0 |-> <<>>]
    OBVIOUS
  <2>2. Keeping(slugs, cap, 0, f)
    BY <2>1 DEF Keeping
  <2>3. QED
    BY <1>1, <2>2
<1>3. ASSUME NEW m \in 1 .. last, m - 1 \in S
      PROVE  m \in S
  <2>1. PICK f : Keeping(slugs, cap, m - 1, f)
    BY <1>1, <1>3
  <2>2. PICK grown : grown = [n \in 0 .. m |-> IF n = m THEN KeepOne(f[m - 1], slugs[m], cap) ELSE f[n]]
    OBVIOUS
  <2>3. \A n \in 0 .. m - 1 : grown[n] = f[n]
    BY <2>2
  <2>4. \A n \in 0 .. m - 1 : f[n] = IF n = 0 THEN <<>> ELSE KeepOne(f[n - 1], slugs[n], cap)
    BY <2>1 DEF Keeping
  <2>5. ASSUME NEW n \in 0 .. m
        PROVE  grown[n] = IF n = 0 THEN <<>> ELSE KeepOne(grown[n - 1], slugs[n], cap)
    <3>1. CASE n = 0
      BY <2>3, <2>4, <3>1
    <3>2. CASE n = m
      BY <2>2, <2>3, <3>2
    <3>3. CASE n # 0 /\ n # m
      <4>1. n \in 0 .. m - 1 /\ n - 1 \in 0 .. m - 1
        BY <3>3
      <4>2. QED
        BY <2>3, <2>4, <3>3, <4>1
    <3>4. QED
      BY <3>1, <3>2, <3>3
  <2>6. grown = [n \in 0 .. m |-> grown[n]]
    BY <2>2
  <2>7. Keeping(slugs, cap, m, grown)
    BY <2>5, <2>6 DEF Keeping
  <2>8. QED
    BY <1>1, <2>7
<1>4. last \in S
  BY <1>2, <1>3, SetInduction
<1>5. QED
  BY <1>1, <1>4

\* Whatever list a model gives, what is kept of it is no longer than the cap.
LEMMA ClampIsShort ==
  ASSUME NEW slugs \in Seq(OptionOf(Slugs)), NEW cap \in Nat
  PROVE  /\ Clamp(slugs, cap) \in Seq(Slugs)
         /\ Len(Clamp(slugs, cap)) <= IF cap = 0 THEN 1 ELSE cap
<1>1. PICK N : N = Len(slugs)
  OBVIOUS
<1>2. N \in Nat
  BY <1>1
<1>3. PICK f : f = CHOOSE g : Keeping(slugs, cap, N, g)
  OBVIOUS
<1>4. Keeping(slugs, cap, N, f)
  BY <1>2, <1>3, KeepingExists
<1>5. Clamp(slugs, cap) = f[N]
  BY <1>1, <1>3 DEF Clamp, Keeping
<1>6. f[0] = <<>> /\ \A n \in 1 .. N : f[n] = KeepOne(f[n - 1], slugs[n], cap)
  BY <1>2, <1>4 DEF Keeping
<1>7. PICK S : S = {n \in 0 .. N : f[n] \in Seq(Slugs) /\ Len(f[n]) <= IF cap = 0 THEN 1 ELSE cap}
  OBVIOUS
<1>8. 0 \in S
  <2>1. <<>> \in Seq(Slugs) /\ Len(<<>>) = 0
    OBVIOUS
  <2>2. 0 \in 0 .. N /\ f[0] = <<>>
    BY <1>2, <1>6
  <2>3. f[0] \in Seq(Slugs) /\ Len(f[0]) = 0
    BY <2>1, <2>2
  <2>4. Len(f[0]) <= IF cap = 0 THEN 1 ELSE cap
    BY <2>3
  <2>5. QED
    BY <1>7, <2>2, <2>3, <2>4
<1>9. ASSUME NEW n \in 1 .. N, n - 1 \in S
      PROVE  n \in S
  <2>1. PICK kept \in Seq(Slugs) : kept = f[n - 1]
    BY <1>7, <1>9
  <2>2. Len(kept) <= IF cap = 0 THEN 1 ELSE cap
    BY <1>7, <1>9, <2>1
  <2>3. slugs[n] \in OptionOf(Slugs)
    BY <1>1, <1>9
  <2>4. f[n] = KeepOne(kept, slugs[n], cap)
    BY <1>6, <2>1
  <2>5. CASE f[n] = kept
    BY <1>7, <2>2, <2>5
  <2>6. CASE f[n] # kept
    <3>1. f[n] = Append(kept, slugs[n]) /\ slugs[n] # Nothing /\ ~(kept # <<>> /\ Len(kept) >= cap)
      BY <2>4, <2>6 DEF KeepOne
    <3>2. slugs[n] \in Slugs
      BY <2>3, <3>1 DEF OptionOf
    <3>3. f[n] \in Seq(Slugs) /\ Len(f[n]) = Len(kept) + 1
      BY <3>1, <3>2
    <3>4. kept = <<>> => Len(kept) = 0
      OBVIOUS
    <3>5. Len(f[n]) <= IF cap = 0 THEN 1 ELSE cap
      BY <3>1, <3>3, <3>4
    <3>6. QED
      BY <1>7, <3>3, <3>5
  <2>7. QED
    BY <2>5, <2>6
<1>10. N \in S
  BY <1>2, <1>8, <1>9, SetInduction
<1>11. QED
  BY <1>5, <1>7, <1>10

\* The rows made of it are no more.
LEMMA RowsOfShort ==
  ASSUME NEW b, NEW kind, NEW source, NEW slugs \in Seq(Slugs)
  PROVE  /\ IsFiniteSet(FormatTags(b, kind, slugs, source))
         /\ Cardinality(FormatTags(b, kind, slugs, source)) <= Len(slugs)
<1>1. PICK N \in Nat : N = Len(slugs)
  OBVIOUS
<1>2. PICK T : T = FormatTags(b, kind, slugs, source)
  OBVIOUS
<1>3. PICK f : f = [n \in 1 .. N |-> [book |-> b, kind |-> kind, slug |-> slugs[n], source |-> source]]
  OBVIOUS
<1>4. DOMAIN slugs = 1 .. N
  BY <1>1
<1>5. f \in [1 .. N -> T]
  BY <1>2, <1>3, <1>4 DEF FormatTags, ToSet
<1>6. \A t \in T : \E n \in 1 .. N : f[n] = t
  BY <1>2, <1>3, <1>4 DEF FormatTags, ToSet
<1>7. f \in Surjection(1 .. N, T)
  BY <1>5, <1>6 DEF Surjection
<1>8. IsFiniteSet(1 .. N) /\ Cardinality(1 .. N) = N
  BY FS_Interval
<1>9. QED
  BY <1>1, <1>2, <1>7, <1>8, FS_Surjection

-----------------------------------------------------------------------------
(* The invariant                                                             *)

Responses == UNION {Answers(k) : k \in Extracts}
Runs ==
  [book : Books, kind : Extracts, answer : Responses, ok : BOOLEAN,
   left : {<<>>, <<"tags", "warnings">>, <<"warnings">>, <<"setting">>, <<"characters">>, <<"arc">>}]
AnswerRows == [answer : Responses, ok : BOOLEAN, stamp : Nat]

\* The types, and no row of ai_cache from a version that is still to come.
ProfileTypes ==
  /\ cached \in [Books -> [Extracts -> OptionOf(AnswerRows)]] /\ current \in Nat
  /\ running \in OptionOf(Runs)
  /\ arc \in [Books -> OptionOf(Seq(Nat))] /\ setting = [b \in Books |-> setting[b]]
  /\ \A b \in Books, k \in Extracts : cached[b][k] # Nothing => cached[b][k].stamp <= current

\* How far the stage at work has come with an answer it takes.
WrittenSoFar(r) ==
  \/ /\ r.kind = "dna"
     /\ \/ r.left = <<"tags", "warnings">>
        \/ r.left = <<"warnings">> /\ SourceRows(r.book, "dna_llm") = DnaRows(r.book, r.answer)
        \/ r.left = <<>> /\ OnShow(r.book, "dna", r.answer)
  \/ /\ r.kind \in {"setting", "characters", "arc"}
     /\ r.left = <<r.kind>> \/ (r.left = <<>> /\ OnShow(r.book, r.kind, r.answer))
  \/ r.kind = "polish" /\ r.left = <<>>

\* What the worker is at is not current, and it writes what it has accepted.
AtWork ==
  \A r \in Runs : running = r /\ r # Nothing =>
    /\ r.answer \in Answers(r.kind)
    /\ ~Fresh(r.book, r.kind)
    /\ r.ok => WrittenSoFar(r) /\ (r.kind = "arc" => StepsAreWellFormed(r.answer.steps))
    /\ ~r.ok => r.left = <<>>

\* Each source has its kinds of tags, and those of one list at a time.
SourceOf(kind) == IF kind = "setting" THEN "setting_llm" ELSE "dna_llm"
KindRows(b, kind) == {r \in tagged : r.book = b /\ r.kind = kind}
TagsOfLists ==
  /\ \A r \in tagged : r.source = SourceOf(r.kind)
  /\ \A b \in Books, kind \in Kinds :
       \E slugs \in Seq(OptionOf(Slugs)) :
         KindRows(b, kind) \subseteq FormatTags(b, kind, Clamp(slugs, Cap(kind)), SourceOf(kind))

PfInv == ProfileTypes /\ AtWork /\ TagsOfLists /\ CurrentAnswersShown /\ ArcsInOrder

LEMMA CapIsNat == ASSUME NEW kind \in Kinds PROVE Cap(kind) \in Nat
  BY ProfilesAssumption DEF Cap, Kinds

LEMMA WithinCaps == ASSUME PfInv PROVE TagsWithinCaps
<1>1. SUFFICES ASSUME NEW b \in Books, NEW kind \in Kinds
               PROVE  Cardinality(KindRows(b, kind)) <= IF Cap(kind) = 0 THEN 1 ELSE Cap(kind)
  BY DEF TagsWithinCaps, KindRows
<1>2. PICK slugs \in Seq(OptionOf(Slugs)) :
        KindRows(b, kind) \subseteq FormatTags(b, kind, Clamp(slugs, Cap(kind)), SourceOf(kind))
  BY DEF PfInv, TagsOfLists
<1>3. PICK cap \in Nat : cap = Cap(kind)
  BY CapIsNat
<1>4. PICK kept \in Seq(Slugs) : kept = Clamp(slugs, cap) /\ Len(kept) <= IF cap = 0 THEN 1 ELSE cap
  BY ClampIsShort
<1>5. PICK T : T = FormatTags(b, kind, kept, SourceOf(kind))
  OBVIOUS
<1>6. IsFiniteSet(T) /\ Cardinality(T) <= Len(kept)
  BY <1>5, RowsOfShort
<1>7. KindRows(b, kind) \subseteq T
  BY <1>2, <1>3, <1>4, <1>5
<1>8. IsFiniteSet(KindRows(b, kind)) /\ Cardinality(KindRows(b, kind)) <= Cardinality(T)
  BY <1>6, <1>7, FS_Subset
<1>9. Cardinality(T) \in Nat /\ Cardinality(KindRows(b, kind)) \in Nat
  BY <1>6, <1>8, FS_CardinalityType
<1>10. Len(kept) \in Nat
  OBVIOUS
<1>11. QED
  BY <1>3, <1>4, <1>6, <1>8, <1>9, <1>10

LEMMA PfInvInit == PfInit => PfInv
<1> SUFFICES ASSUME PfInit PROVE PfInv
  OBVIOUS
<1>1. ProfileTypes
  BY DEF PfInit, ProfileTypes, OptionOf
<1>2. AtWork
  BY DEF PfInit, AtWork
<1>3. TagsOfLists
  <2>1. tagged = {}
    BY DEF PfInit
  <2>2. <<>> \in Seq(OptionOf(Slugs))
    OBVIOUS
  <2>3. QED
    BY <2>1, <2>2 DEF TagsOfLists, KindRows
<1>4. CurrentAnswersShown
  BY DEF PfInit, CurrentAnswersShown, Fresh
<1>5. ArcsInOrder
  BY DEF PfInit, ArcsInOrder
<1>6. QED
  BY <1>1, <1>2, <1>3, <1>4, <1>5 DEF PfInv

-----------------------------------------------------------------------------
(* A stage asks, and what happens around it                                  *)

LEMMA AskedKeeps ==
  ASSUME PfInv, NEW b \in Books, NEW k \in Extracts, AskModel(b, k)
  PROVE  PfInv'
<1>1. PICK a \in Answers(k) :
        running' = [book |-> b, kind |-> k, answer |-> a, ok |-> ~Refused(b, k, a),
                    left |-> IF Refused(b, k, a) THEN <<>> ELSE Writes(k)]
  BY DEF AskModel
<1>2. PICK ok \in BOOLEAN : ok = ~Refused(b, k, a)
  OBVIOUS
<1>3. PICK left : left = IF Refused(b, k, a) THEN <<>> ELSE Writes(k)
  OBVIOUS
<1>4. PICK r : r = [book |-> b, kind |-> k, answer |-> a, ok |-> ok, left |-> left] /\ running' = r
  BY <1>1, <1>2, <1>3
<1>5. /\ UNCHANGED <<cached, current, tagged, cautions, cast, arc, setting>>
      /\ ~Fresh(b, k)
  BY DEF AskModel, profiles
<1>6. /\ ~ok => left = <<>>
      /\ ok => left = Writes(k) /\ ~Refused(b, k, a)
  BY <1>2, <1>3
<1>7. ok => IF k = "dna" THEN left = <<"tags", "warnings">> ELSE IF k = "polish" THEN left = <<>> ELSE left = <<k>>
  BY <1>6 DEF Writes
<1>8. left \in {<<>>, <<"tags", "warnings">>, <<"warnings">>, <<"setting">>, <<"characters">>, <<"arc">>}
  BY <1>6, <1>7 DEF Extracts
<1>9. a \in Responses
  BY DEF Responses
<1>10. r \in Runs
  BY <1>2, <1>4, <1>8, <1>9 DEF Runs
<1>11. ProfileTypes'
  <2>1. running' \in OptionOf(Runs)
    BY <1>4, <1>10 DEF OptionOf
  <2>2. QED
    BY <1>5, <2>1 DEF PfInv, ProfileTypes
<1>12. AtWork'
  <2>1. r.answer \in Answers(r.kind) /\ ~Fresh(r.book, r.kind)'
    BY <1>4, <1>5 DEF Fresh
  <2>2. r.book = b /\ r.kind = k /\ r.ok = ok /\ r.left = left /\ r.answer = a
    BY <1>4
  <2>3. ASSUME ok
        PROVE  WrittenSoFar(r)'
    <3>1. CASE k = "dna"
      <4>1. r.kind = "dna"
        BY <2>2, <3>1
      <4>2. r.left = <<"tags", "warnings">>
        BY <1>7, <2>2, <2>3, <3>1
      <4>3. QED
        BY <4>1, <4>2, Zenon DEF WrittenSoFar
    <3>2. CASE k = "polish"
      <4>1. r.left = <<>> /\ r.kind = "polish"
        BY <1>7, <2>2, <2>3, <3>2
      <4>2. QED
        BY <4>1 DEF WrittenSoFar
    <3>3. CASE k \in {"setting", "characters", "arc"}
      <4>1. r.left = <<r.kind>> /\ r.kind \in {"setting", "characters", "arc"}
        BY <1>7, <2>2, <2>3, <3>3
      <4>2. QED
        BY <4>1 DEF WrittenSoFar
    <3>4. QED
      BY <3>1, <3>2, <3>3 DEF Extracts
  <2>4. ok /\ k = "arc" => StepsAreWellFormed(a.steps)
    BY <1>6 DEF Refused
  <2>5. QED
    BY <1>4, <1>6, <2>1, <2>2, <2>3, <2>4 DEF AtWork
<1>13. TagsOfLists'
  BY <1>5 DEF PfInv, TagsOfLists, KindRows
<1>14. CurrentAnswersShown' /\ ArcsInOrder'
  BY <1>5 DEF PfInv, CurrentAnswersShown, ArcsInOrder, Fresh, OnShow, SourceRows, RowsOf
<1>15. QED
  BY <1>11, <1>12, <1>13, <1>14 DEF PfInv

\* Nothing is written and nobody asks: rows of ai_cache may go, the worker may
\* stop, and the version may grow.
LEMMA QuietProfiles ==
  ASSUME PfInv, UNCHANGED profiles,
         cached' \in [Books -> [Extracts -> OptionOf(AnswerRows)]],
         \A b \in Books, k \in Extracts : cached'[b][k] # Nothing => cached'[b][k] = cached[b][k],
         current' \in Nat, current' >= current,
         running' = Nothing \/ (running' = running /\ current' = current)
  PROVE  PfInv'
<1>1. UNCHANGED <<tagged, cautions, cast, arc, setting>>
  BY DEF profiles
<1>2. \A b \in Books, k \in Extracts : Fresh(b, k)' => Fresh(b, k) /\ cached'[b][k] = cached[b][k]
  <2>1. SUFFICES ASSUME NEW b \in Books, NEW k \in Extracts, cached'[b][k] # Nothing, cached'[b][k].stamp = current'
                 PROVE  cached[b][k] # Nothing /\ cached[b][k].stamp = current /\ cached'[b][k] = cached[b][k]
    BY DEF Fresh
  <2>2. cached'[b][k] = cached[b][k]
    BY <2>1
  <2>3. cached[b][k] # Nothing /\ cached[b][k].stamp <= current /\ current \in Nat
    BY <2>1, <2>2 DEF PfInv, ProfileTypes
  <2>4. cached[b][k] \in AnswerRows
    BY <2>3 DEF PfInv, ProfileTypes, OptionOf
  <2>5. cached[b][k].stamp \in Nat
    BY <2>4 DEF AnswerRows
  <2>6. QED
    BY <2>1, <2>2, <2>3, <2>5
<1>3. ProfileTypes'
  <2>1. ASSUME NEW b \in Books, NEW k \in Extracts, cached'[b][k] # Nothing
        PROVE  cached'[b][k].stamp <= current'
    <3>1. cached'[b][k] = cached[b][k]
      BY <2>1
    <3>2. cached[b][k] # Nothing /\ cached[b][k].stamp <= current /\ current \in Nat
      BY <2>1, <3>1 DEF PfInv, ProfileTypes
    <3>3. cached[b][k] \in AnswerRows
      BY <3>2 DEF PfInv, ProfileTypes, OptionOf
    <3>4. cached[b][k].stamp \in Nat
      BY <3>3 DEF AnswerRows
    <3>5. QED
      BY <3>1, <3>2, <3>4
  <2>2. running' \in OptionOf(Runs)
    BY DEF PfInv, ProfileTypes, OptionOf
  <2>3. QED
    BY <1>1, <2>1, <2>2 DEF PfInv, ProfileTypes
<1>4. AtWork'
  <2>1. SUFFICES ASSUME NEW r \in Runs, running' = r, r # Nothing
                 PROVE  /\ r.answer \in Answers(r.kind)
                        /\ ~Fresh(r.book, r.kind)'
                        /\ r.ok => WrittenSoFar(r)' /\ (r.kind = "arc" => StepsAreWellFormed(r.answer.steps))
                        /\ ~r.ok => r.left = <<>>
    BY DEF AtWork
  <2>2. running = r
    BY <2>1
  <2>3. r.book \in Books /\ r.kind \in Extracts
    BY DEF Runs
  <2>4. ~Fresh(r.book, r.kind)'
    BY <1>2, <2>1, <2>2, <2>3 DEF PfInv, AtWork
  <2>5. WrittenSoFar(r) => WrittenSoFar(r)'
    BY <1>1 DEF WrittenSoFar, OnShow, SourceRows, RowsOf
  <2>6. QED
    BY <2>1, <2>2, <2>4, <2>5 DEF PfInv, AtWork
<1>5. TagsOfLists' /\ ArcsInOrder'
  BY <1>1 DEF PfInv, TagsOfLists, KindRows, ArcsInOrder
<1>6. CurrentAnswersShown'
  BY <1>1, <1>2 DEF PfInv, CurrentAnswersShown, OnShow, SourceRows, RowsOf
<1>7. QED
  BY <1>3, <1>4, <1>5, <1>6 DEF PfInv

-----------------------------------------------------------------------------
(* The stage writes                                                          *)

\* The rows of one list are of its book, its kind and its source.
LEMMA ListRows ==
  ASSUME NEW b, NEW a
  PROVE  /\ \A r \in DnaRows(b, a) : r.book = b /\ r.source = "dna_llm" /\ r.kind \in {"dna", "spoiler"}
         /\ \A r \in SettingRows(b, a) : r.book = b /\ r.source = "setting_llm" /\ r.kind = "setting"
  BY DEF DnaRows, SettingRows, FormatTags

\* When the rows of one source are replaced, those of other books and of the
\* other source stay as they are.
Sourced(table, b, source) == {r \in table : r.book = b /\ r.source = source}
LEMMA SourceReplaced ==
  ASSUME NEW table, NEW then, NEW added, NEW b, NEW source, added \subseteq Sourced(added, b, source),
         then = (table \ Sourced(table, b, source)) \cup added
  PROVE  \A c, s : Sourced(then, c, s) = IF c = b /\ s = source THEN added ELSE Sourced(table, c, s)
<1>1. ASSUME NEW c, NEW s
      PROVE  Sourced(then, c, s) = IF c = b /\ s = source THEN added ELSE Sourced(table, c, s)
  <2>1. \A r : r \in Sourced(then, c, s) <=> r \in IF c = b /\ s = source THEN added ELSE Sourced(table, c, s)
    BY DEF Sourced
  <2>2. QED
    BY <2>1
<1>2. QED
  BY <1>1

\* The lists of an answer are lists of slugs.
LEMMA ListsOfSlugs ==
  /\ \A a \in DnaAnswers : SlugsOf(a.dna) \in Seq(OptionOf(Slugs)) /\ SlugsOf(a.spoilers) \in Seq(OptionOf(Slugs))
  /\ \A a \in SettingAnswers : SettingSlugs(a.tags) \in Seq(OptionOf(Slugs))
<1>1. SlugOf \in [Spellings -> OptionOf(Slugs)]
  BY ProfilesAssumption
<1>2. ASSUME NEW raws \in Seq(Spellings)
      PROVE  SlugsOf(raws) \in Seq(OptionOf(Slugs))
  <2>1. PICK n \in Nat : n = Len(raws) /\ DOMAIN raws = 1 .. n
    OBVIOUS
  <2>2. \A i \in 1 .. n : SlugOf[raws[i]] \in OptionOf(Slugs)
    BY <1>1, <2>1
  <2>3. SlugsOf(raws) \in [1 .. n -> OptionOf(Slugs)]
    BY <2>1, <2>2 DEF SlugsOf
  <2>4. QED
    BY <2>3
<1>3. ASSUME NEW ts \in Seq([marked : BOOLEAN, body : Spellings])
      PROVE  SettingSlugs(ts) \in Seq(OptionOf(Slugs))
  <2>1. PICK n \in Nat : n = Len(ts) /\ DOMAIN ts = 1 .. n
    OBVIOUS
  <2>2. \A i \in 1 .. n : (IF ts[i].marked THEN SlugOf[ts[i].body] ELSE Nothing) \in OptionOf(Slugs)
    <3>1. SUFFICES ASSUME NEW i \in 1 .. n
                   PROVE  SlugOf[ts[i].body] \in OptionOf(Slugs) /\ Nothing \in OptionOf(Slugs)
      OBVIOUS
    <3>2. ts[i] \in [marked : BOOLEAN, body : Spellings]
      BY <2>1, ElementOfSeq
    <3>3. PICK t \in [marked : BOOLEAN, body : Spellings] : t = ts[i]
      BY <3>2
    <3>4. t.body \in Spellings
      OBVIOUS
    <3>5. QED
      BY <1>1, <3>3, <3>4 DEF OptionOf
  <2>3. SettingSlugs(ts) \in [1 .. n -> OptionOf(Slugs)]
    BY <2>1, <2>2 DEF SettingSlugs
  <2>4. QED
    BY <2>3
<1>4. QED
  BY <1>2, <1>3, ProfilesAssumption

\* Tags of lists stay tags of lists.
LEMMA DnaTagsOfLists ==
  ASSUME TagsOfLists, NEW b \in Books, NEW a \in DnaAnswers,
         tagged' = (tagged \ SourceRows(b, "dna_llm")) \cup DnaRows(b, a)
  PROVE  TagsOfLists'
<1>1. \A r \in tagged' : r.source = SourceOf(r.kind)
  BY ListRows DEF TagsOfLists, SourceOf
<1>2. ASSUME NEW c \in Books, NEW kind \in Kinds
      PROVE  \E slugs \in Seq(OptionOf(Slugs)) :
               KindRows(c, kind)' \subseteq FormatTags(c, kind, Clamp(slugs, Cap(kind)), SourceOf(kind))
  <2>1. CASE c # b \/ kind = "setting"
    <3>1. KindRows(c, kind)' \subseteq KindRows(c, kind)
      BY <2>1, ListRows DEF KindRows
    <3>2. QED
      BY <3>1 DEF TagsOfLists
  <2>2. CASE c = b /\ kind = "dna"
    <3>1. KindRows(b, kind)' \subseteq FormatTags(b, "dna", Clamp(SlugsOf(a.dna), MaxDna), "dna_llm")
      BY <2>2 DEF KindRows, SourceRows, DnaRows, FormatTags, TagsOfLists, SourceOf
    <3>2. QED
      BY <2>2, <3>1, ListsOfSlugs DEF Cap, SourceOf
  <2>3. CASE c = b /\ kind = "spoiler"
    <3>1. KindRows(b, kind)' \subseteq FormatTags(b, "spoiler", Clamp(SlugsOf(a.spoilers), MaxSpoilers), "dna_llm")
      BY <2>3 DEF KindRows, SourceRows, DnaRows, FormatTags, TagsOfLists, SourceOf
    <3>2. QED
      BY <2>3, <3>1, ListsOfSlugs DEF Cap, SourceOf
  <2>4. QED
    BY <2>1, <2>2, <2>3 DEF Kinds
<1>3. QED
  BY <1>1, <1>2 DEF TagsOfLists, Cap

LEMMA SettingTagsOfLists ==
  ASSUME TagsOfLists, NEW b \in Books, NEW a \in SettingAnswers,
         tagged' = (tagged \ SourceRows(b, "setting_llm")) \cup SettingRows(b, a)
  PROVE  TagsOfLists'
<1>1. \A r \in tagged' : r.source = SourceOf(r.kind)
  BY ListRows DEF TagsOfLists, SourceOf
<1>2. ASSUME NEW c \in Books, NEW kind \in Kinds
      PROVE  \E slugs \in Seq(OptionOf(Slugs)) :
               KindRows(c, kind)' \subseteq FormatTags(c, kind, Clamp(slugs, Cap(kind)), SourceOf(kind))
  <2>1. CASE c # b \/ kind # "setting"
    <3>1. KindRows(c, kind)' \subseteq KindRows(c, kind)
      BY <2>1, ListRows DEF KindRows
    <3>2. QED
      BY <3>1 DEF TagsOfLists
  <2>2. CASE c = b /\ kind = "setting"
    <3>1. KindRows(b, kind)' \subseteq FormatTags(b, "setting", Clamp(SettingSlugs(a.tags), MaxSetting), "setting_llm")
      BY <2>2 DEF KindRows, SourceRows, SettingRows, NormaliseTags, FormatTags, TagsOfLists, SourceOf
    <3>2. QED
      BY <2>2, <3>1, ListsOfSlugs DEF Cap, SourceOf
  <2>3. QED
    BY <2>1, <2>2
<1>3. QED
  BY <1>1, <1>2 DEF TagsOfLists, Cap

\* When the rows of one book are replaced, it has the new ones, and the others
\* have what they had.
LEMMA BookReplaced ==
  ASSUME NEW table, NEW then, NEW added, NEW b, added \subseteq RowsOf(added, b),
         then = (table \ RowsOf(table, b)) \cup added
  PROVE  \A c : RowsOf(then, c) = IF c = b THEN added ELSE RowsOf(table, c)
<1>1. ASSUME NEW c
      PROVE  RowsOf(then, c) = IF c = b THEN added ELSE RowsOf(table, c)
  <2>1. \A r : r \in RowsOf(then, c) <=> r \in IF c = b THEN added ELSE RowsOf(table, c)
    BY DEF RowsOf
  <2>2. QED
    BY <2>1
<1>2. QED
  BY <1>1

\* What other answers say stays on show.
Spares(b, k) ==
  \A a : \A c \in Books, j \in Extracts : ~(c = b /\ j = k) /\ OnShow(c, j, a) => OnShow(c, j, a)'

LEMMA TagsWritten ==
  ASSUME NEW b \in Books, NEW a, WriteTags(b, a)
  PROVE  SourceRows(b, "dna_llm")' = DnaRows(b, a) /\ Spares(b, "dna")
<1>1. \A r \in DnaRows(b, a) : r.book = b /\ r.source = "dna_llm"
  BY ListRows
<1>2. tagged' = (tagged \ SourceRows(b, "dna_llm")) \cup DnaRows(b, a) /\ UNCHANGED <<cautions, cast, arc, setting>>
  BY DEF WriteTags
<1>3. /\ SourceRows(b, "dna_llm")' = DnaRows(b, a)
      /\ \A c, s : ~(c = b /\ s = "dna_llm") => SourceRows(c, s)' = SourceRows(c, s)
  <2>1. PICK table, then, added : table = tagged /\ then = tagged' /\ added = DnaRows(b, a)
    OBVIOUS
  <2>9. added \subseteq Sourced(added, b, "dna_llm")
    BY <2>1, <1>1 DEF Sourced
  <2>2. then = (table \ Sourced(table, b, "dna_llm")) \cup added
    BY <1>2, <2>1 DEF Sourced, SourceRows
  <2>3. \A c, s : Sourced(then, c, s) = IF c = b /\ s = "dna_llm" THEN added ELSE Sourced(table, c, s)
    BY <2>9, <2>2, SourceReplaced
  <2>4. QED
    BY <2>1, <2>3 DEF Sourced, SourceRows
<1>4. ASSUME NEW c \in Books, NEW j \in Extracts, NEW x, ~(c = b /\ j = "dna"), OnShow(c, j, x)
      PROVE  OnShow(c, j, x)'
  <2>1. CASE j = "dna"
    <3>1. SourceRows(c, "dna_llm")' = SourceRows(c, "dna_llm") /\ RowsOf(cautions, c)' = RowsOf(cautions, c)
      BY <1>2, <1>3, <1>4, <2>1 DEF RowsOf
    <3>2. QED
      BY <1>4, <2>1, <3>1 DEF OnShow
  <2>2. CASE j = "setting"
    <3>1. SourceRows(c, "setting_llm")' = SourceRows(c, "setting_llm")
      BY <1>3
    <3>2. QED
      BY <1>2, <1>4, <2>2, <3>1 DEF OnShow
  <2>3. CASE j # "dna" /\ j # "setting"
    BY <1>2, <1>4, <2>3 DEF OnShow, RowsOf
  <2>4. QED
    BY <2>1, <2>2, <2>3
<1>5. QED
  BY <1>3, <1>4 DEF Spares

LEMMA WarningsWritten ==
  ASSUME NEW b \in Books, NEW a, WriteWarnings(b, a), SourceRows(b, "dna_llm") = DnaRows(b, a)
  PROVE  OnShow(b, "dna", a)' /\ Spares(b, "dna")
<1>1. cautions' = (cautions \ RowsOf(cautions, b)) \cup WarningRows(b, a) /\ UNCHANGED <<tagged, cast, arc, setting>>
  BY DEF WriteWarnings
<1>2. \A r \in WarningRows(b, a) : r.book = b
  BY DEF WarningRows
<1>3. RowsOf(cautions, b)' = WarningRows(b, a) /\ \A c : c # b => RowsOf(cautions, c)' = RowsOf(cautions, c)
  <2>1. PICK table, then, added : table = cautions /\ then = cautions' /\ added = WarningRows(b, a)
    OBVIOUS
  <2>9. added \subseteq RowsOf(added, b)
    BY <2>1, <1>2 DEF RowsOf
  <2>2. then = (table \ RowsOf(table, b)) \cup added
    BY <1>1, <2>1
  <2>3. \A c : RowsOf(then, c) = IF c = b THEN added ELSE RowsOf(table, c)
    BY <2>9, <2>2, BookReplaced
  <2>4. QED
    BY <2>1, <2>3 DEF RowsOf
<1>4. \A c, s : SourceRows(c, s)' = SourceRows(c, s)
  BY <1>1 DEF SourceRows
<1>5. OnShow(b, "dna", a)'
  BY <1>3, <1>4 DEF OnShow
<1>6. ASSUME NEW c \in Books, NEW j \in Extracts, NEW x, ~(c = b /\ j = "dna"), OnShow(c, j, x)
      PROVE  OnShow(c, j, x)'
  <2>1. CASE j = "dna"
    BY <1>3, <1>4, <1>6, <2>1 DEF OnShow
  <2>2. CASE j # "dna"
    BY <1>1, <1>4, <1>6, <2>2 DEF OnShow, RowsOf
  <2>3. QED
    BY <2>1, <2>2
<1>7. QED
  BY <1>5, <1>6 DEF Spares

LEMMA SettingWritten ==
  ASSUME ProfileTypes, NEW b \in Books, NEW a, PromoteSetting(b, a)
  PROVE  OnShow(b, "setting", a)' /\ Spares(b, "setting")
<1>1. \A r \in SettingRows(b, a) : r.book = b /\ r.source = "setting_llm"
  BY ListRows
<1>2. /\ tagged' = (tagged \ SourceRows(b, "setting_llm")) \cup SettingRows(b, a)
      /\ setting' = [setting EXCEPT ![b] = a.text] /\ UNCHANGED <<cautions, cast, arc>>
  BY DEF PromoteSetting
<1>3. /\ SourceRows(b, "setting_llm")' = SettingRows(b, a)
      /\ \A c, s : ~(c = b /\ s = "setting_llm") => SourceRows(c, s)' = SourceRows(c, s)
  <2>1. PICK table, then, added : table = tagged /\ then = tagged' /\ added = SettingRows(b, a)
    OBVIOUS
  <2>9. added \subseteq Sourced(added, b, "setting_llm")
    BY <2>1, <1>1 DEF Sourced
  <2>2. then = (table \ Sourced(table, b, "setting_llm")) \cup added
    BY <1>2, <2>1 DEF Sourced, SourceRows
  <2>3. \A c, s : Sourced(then, c, s) = IF c = b /\ s = "setting_llm" THEN added ELSE Sourced(table, c, s)
    BY <2>9, <2>2, SourceReplaced
  <2>4. QED
    BY <2>1, <2>3 DEF Sourced, SourceRows
<1>4. setting'[b] = a.text /\ \A c \in Books : c # b => setting'[c] = setting[c]
  BY <1>2 DEF ProfileTypes
<1>5. OnShow(b, "setting", a)'
  BY <1>3, <1>4 DEF OnShow
<1>6. ASSUME NEW c \in Books, NEW j \in Extracts, NEW x, ~(c = b /\ j = "setting"), OnShow(c, j, x)
      PROVE  OnShow(c, j, x)'
  <2>1. CASE j = "setting"
    <3>1. SourceRows(c, "setting_llm")' = SourceRows(c, "setting_llm") /\ setting'[c] = setting[c]
      BY <1>3, <1>4, <1>6, <2>1
    <3>2. QED
      BY <1>6, <2>1, <3>1 DEF OnShow
  <2>2. CASE j = "dna"
    <3>1. SourceRows(c, "dna_llm")' = SourceRows(c, "dna_llm")
      BY <1>3
    <3>2. QED
      BY <1>2, <1>6, <2>2, <3>1 DEF OnShow, RowsOf
  <2>3. CASE j # "dna" /\ j # "setting"
    BY <1>2, <1>6, <2>3 DEF OnShow, RowsOf
  <2>4. QED
    BY <2>1, <2>2, <2>3
<1>7. QED
  BY <1>5, <1>6 DEF Spares

LEMMA CastWritten ==
  ASSUME NEW b \in Books, NEW a, PromoteCharacters(b, a)
  PROVE  OnShow(b, "characters", a)' /\ Spares(b, "characters")
<1>1. cast' = (cast \ RowsOf(cast, b)) \cup CastRows(b, a) /\ UNCHANGED <<tagged, cautions, arc, setting>>
  BY DEF PromoteCharacters
<1>2. \A r \in CastRows(b, a) : r.book = b
  BY DEF CastRows
<1>3. RowsOf(cast, b)' = CastRows(b, a) /\ \A c : c # b => RowsOf(cast, c)' = RowsOf(cast, c)
  <2>1. PICK table, then, added : table = cast /\ then = cast' /\ added = CastRows(b, a)
    OBVIOUS
  <2>9. added \subseteq RowsOf(added, b)
    BY <2>1, <1>2 DEF RowsOf
  <2>2. then = (table \ RowsOf(table, b)) \cup added
    BY <1>1, <2>1
  <2>3. \A c : RowsOf(then, c) = IF c = b THEN added ELSE RowsOf(table, c)
    BY <2>9, <2>2, BookReplaced
  <2>4. QED
    BY <2>1, <2>3 DEF RowsOf
<1>4. OnShow(b, "characters", a)'
  BY <1>3 DEF OnShow
<1>5. ASSUME NEW c \in Books, NEW j \in Extracts, NEW x, ~(c = b /\ j = "characters"), OnShow(c, j, x)
      PROVE  OnShow(c, j, x)'
  <2>1. CASE j = "characters"
    BY <1>3, <1>5, <2>1 DEF OnShow
  <2>2. CASE j # "characters"
    BY <1>1, <1>5, <2>2 DEF OnShow, RowsOf, SourceRows
  <2>3. QED
    BY <2>1, <2>2
<1>6. QED
  BY <1>4, <1>5 DEF Spares

LEMMA ArcWritten ==
  ASSUME ProfileTypes, NEW b \in Books, NEW a, PromoteArc(b, a)
  PROVE  OnShow(b, "arc", a)' /\ Spares(b, "arc")
<1>1. arc' = [arc EXCEPT ![b] = a.steps] /\ UNCHANGED <<tagged, cautions, cast, setting>>
  BY DEF PromoteArc
<1>2. arc'[b] = a.steps /\ \A c \in Books : c # b => arc'[c] = arc[c]
  BY <1>1 DEF ProfileTypes
<1>3. OnShow(b, "arc", a)'
  BY <1>2 DEF OnShow
<1>4. ASSUME NEW c \in Books, NEW j \in Extracts, NEW x, ~(c = b /\ j = "arc"), OnShow(c, j, x)
      PROVE  OnShow(c, j, x)'
  <2>1. CASE j = "arc"
    BY <1>2, <1>4, <2>1 DEF OnShow
  <2>2. CASE j # "arc"
    BY <1>1, <1>4, <2>2 DEF OnShow, RowsOf, SourceRows
  <2>3. QED
    BY <2>1, <2>2
<1>5. QED
  BY <1>3, <1>4 DEF Spares

\* What is current is not what the worker is at, so that it stays on show.
LEMMA SparedIsShown ==
  ASSUME PfInv, NEW r \in Runs, running = r, r # Nothing, Spares(r.book, r.kind), UNCHANGED <<cached, current>>
  PROVE  CurrentAnswersShown'
<1>1. r.book \in Books /\ r.kind \in Extracts /\ ~Fresh(r.book, r.kind)
  BY DEF PfInv, AtWork, Runs
<1>2. SUFFICES ASSUME NEW b \in Books, NEW k \in Extracts, Fresh(b, k), cached[b][k].ok
               PROVE  OnShow(b, k, cached[b][k].answer)'
  BY DEF CurrentAnswersShown, Fresh
<1>3. PICK a : a = cached[b][k].answer
  OBVIOUS
<1>4. OnShow(b, k, a)
  BY <1>2, <1>3 DEF PfInv, CurrentAnswersShown
<1>5. ~(b = r.book /\ k = r.kind)
  BY <1>1, <1>2
<1>6. OnShow(b, k, a)'
  BY <1>4, <1>5 DEF Spares
<1>7. cached'[b][k].answer = a
  BY <1>3
<1>8. QED
  BY <1>6, <1>7

\* The worker goes on with what is left of an answer it takes.
LEMMA GoesOn ==
  ASSUME PfInv, NEW r \in Runs, running = r, r # Nothing, r.left # <<>>,
         NEW next, next = [r EXCEPT !.left = Tail(@)], running' = next,
         UNCHANGED <<cached, current>>, WrittenSoFar(next)'
  PROVE  AtWork' /\ (running \in OptionOf(Runs))'
<1>1. /\ r.answer \in Answers(r.kind) /\ ~Fresh(r.book, r.kind) /\ r.ok
      /\ r.kind = "arc" => StepsAreWellFormed(r.answer.steps)
  BY DEF PfInv, AtWork
<1>2. Tail(r.left) \in {<<>>, <<"warnings">>}
  <2>1. r.left \in {<<"tags", "warnings">>, <<"warnings">>, <<"setting">>, <<"characters">>, <<"arc">>}
    BY DEF Runs
  <2>2. Tail(<<"tags", "warnings">>) = <<"warnings">> /\ Tail(<<"warnings">>) = <<>>
    OBVIOUS
  <2>3. Tail(<<"setting">>) = <<>> /\ Tail(<<"characters">>) = <<>> /\ Tail(<<"arc">>) = <<>>
    OBVIOUS
  <2>4. QED
    BY <2>1, <2>2, <2>3
<1>3. next \in Runs /\ next.book = r.book /\ next.kind = r.kind /\ next.answer = r.answer /\ next.ok = r.ok
  BY <1>2 DEF Runs
<1>4. ~Fresh(next.book, next.kind)'
  BY <1>1, <1>3 DEF Fresh
<1>5. (running \in OptionOf(Runs))'
  BY <1>3 DEF OptionOf
<1>6. QED
  BY <1>1, <1>3, <1>4, <1>5 DEF AtWork

\* Where the run is decides which table comes next.
LEMMA NextTable ==
  ASSUME PfInv, NEW r \in Runs, running = r, r # Nothing, r.left # <<>>
  PROVE  /\ r.ok /\ WrittenSoFar(r) /\ r.answer \in Answers(r.kind) /\ r.book \in Books
         /\ \/ r.kind = "dna" /\ r.left = <<"tags", "warnings">>
            \/ r.kind = "dna" /\ r.left = <<"warnings">> /\ SourceRows(r.book, "dna_llm") = DnaRows(r.book, r.answer)
            \/ r.kind = "setting" /\ r.left = <<"setting">>
            \/ r.kind = "characters" /\ r.left = <<"characters">>
            \/ r.kind = "arc" /\ r.left = <<"arc">> /\ StepsAreWellFormed(r.answer.steps)
<1>1. /\ r.ok /\ r.answer \in Answers(r.kind) /\ r.book \in Books
      /\ WrittenSoFar(r) /\ (r.kind = "arc" => StepsAreWellFormed(r.answer.steps))
  BY DEF PfInv, AtWork, Runs
<1>2. CASE r.kind = "dna"
  BY <1>1, <1>2 DEF WrittenSoFar
<1>3. CASE r.kind \in {"setting", "characters", "arc"}
  <2>1. r.left = <<r.kind>>
    BY <1>1, <1>3 DEF WrittenSoFar
  <2>2. QED
    BY <1>1, <1>3, <2>1
<1>4. CASE r.kind = "polish"
  BY <1>1, <1>4 DEF WrittenSoFar
<1>5. r.kind \in Extracts
  BY DEF Runs
<1>6. QED
  BY <1>1, <1>2, <1>3, <1>4, <1>5 DEF Extracts

LEMMA TableKeeps ==
  ASSUME PfInv, NEW r \in Runs, running = r, r # Nothing, WriteNext(r), UNCHANGED <<books, current, questions>>
  PROVE  PfInv'
<1>1. PICK b, a, next : b = r.book /\ a = r.answer /\ next = [r EXCEPT !.left = Tail(@)]
  OBVIOUS
<1>2. r.left # <<>> /\ running' = next /\ UNCHANGED <<cached, current>>
  BY <1>1 DEF WriteNext
<1>3. ProfileTypes /\ TagsOfLists /\ ArcsInOrder
  BY DEF PfInv
<1>4. /\ r.ok /\ a \in Answers(r.kind) /\ b \in Books
      /\ next.book = b /\ next.kind = r.kind /\ next.answer = a /\ next.left = Tail(r.left)
  BY <1>1, <1>2, NextTable DEF Runs
<1>5. \/ r.kind = "dna" /\ r.left = <<"tags", "warnings">>
      \/ r.kind = "dna" /\ r.left = <<"warnings">> /\ SourceRows(b, "dna_llm") = DnaRows(b, a)
      \/ r.kind = "setting" /\ r.left = <<"setting">>
      \/ r.kind = "characters" /\ r.left = <<"characters">>
      \/ r.kind = "arc" /\ r.left = <<"arc">> /\ StepsAreWellFormed(a.steps)
  BY <1>1, <1>2, NextTable
<1>6. SUFFICES /\ Spares(r.book, r.kind) /\ WrittenSoFar(next)' /\ TagsOfLists' /\ ArcsInOrder'
               /\ arc' \in [Books -> OptionOf(Seq(Nat))] /\ setting' = [c \in Books |-> setting'[c]]
  <2>1. AtWork' /\ (running \in OptionOf(Runs))'
    BY <1>1, <1>2, <1>6, GoesOn
  <2>2. CurrentAnswersShown'
    BY <1>2, <1>6, SparedIsShown
  <2>3. ProfileTypes'
    BY <1>2, <1>3, <1>6, <2>1 DEF ProfileTypes
  <2>4. QED
    BY <1>6, <2>1, <2>2, <2>3 DEF PfInv
<1>7. CASE r.kind = "dna" /\ r.left = <<"tags", "warnings">>
  <2>1. Head(r.left) = "tags" /\ Tail(r.left) = <<"warnings">>
    BY <1>7
  <2>2. WriteTags(b, a)
    BY <1>1, <2>1 DEF WriteNext
  <2>3. SourceRows(b, "dna_llm")' = DnaRows(b, a) /\ Spares(b, "dna")
    BY <1>4, <2>2, TagsWritten
  <2>4. next.kind = "dna" /\ next.left = <<"warnings">>
    BY <1>4, <1>7, <2>1
  <2>5. WrittenSoFar(next)'
    BY <1>4, <2>3, <2>4 DEF WrittenSoFar, SourceRows
  <2>6. a \in DnaAnswers
    BY <1>4, <1>7 DEF Answers
  <2>7. UNCHANGED <<arc, setting>> /\ tagged' = (tagged \ SourceRows(b, "dna_llm")) \cup DnaRows(b, a)
    BY <2>2 DEF WriteTags
  <2>8. TagsOfLists'
    BY <1>3, <1>4, <2>6, <2>7, DnaTagsOfLists
  <2>9. ArcsInOrder' /\ arc' \in [Books -> OptionOf(Seq(Nat))] /\ setting' = [c \in Books |-> setting'[c]]
    BY <1>3, <2>7 DEF ArcsInOrder, ProfileTypes
  <2>10. QED
    BY <1>1, <1>7, <2>3, <2>5, <2>8, <2>9
<1>8. CASE r.kind = "dna" /\ r.left = <<"warnings">> /\ SourceRows(b, "dna_llm") = DnaRows(b, a)
  <2>1. Head(r.left) = "warnings" /\ Tail(r.left) = <<>>
    BY <1>8
  <2>2. WriteWarnings(b, a)
    BY <1>1, <2>1 DEF WriteNext
  <2>3. OnShow(b, "dna", a)' /\ Spares(b, "dna")
    BY <1>4, <1>8, <2>2, WarningsWritten
  <2>4. next.kind = "dna" /\ next.left = <<>>
    BY <1>4, <1>8, <2>1
  <2>5. WrittenSoFar(next)'
    BY <1>4, <2>3, <2>4 DEF WrittenSoFar, OnShow, SourceRows, RowsOf
  <2>6. UNCHANGED <<arc, setting, tagged>>
    BY <2>2 DEF WriteWarnings
  <2>7. TagsOfLists' /\ ArcsInOrder' /\ arc' \in [Books -> OptionOf(Seq(Nat))] /\ setting' = [c \in Books |-> setting'[c]]
    BY <1>3, <2>6 DEF TagsOfLists, KindRows, ArcsInOrder, ProfileTypes
  <2>8. QED
    BY <1>1, <1>8, <2>3, <2>5, <2>7
<1>9. CASE r.kind = "setting" /\ r.left = <<"setting">>
  <2>1. Head(r.left) = "setting" /\ Tail(r.left) = <<>>
    BY <1>9
  <2>2. PromoteSetting(b, a)
    BY <1>1, <2>1 DEF WriteNext
  <2>3. OnShow(b, "setting", a)' /\ Spares(b, "setting")
    BY <1>3, <1>4, <2>2, SettingWritten
  <2>4. next.kind = "setting" /\ next.left = <<>>
    BY <1>4, <1>9, <2>1
  <2>5. WrittenSoFar(next)'
    BY <1>4, <2>3, <2>4 DEF WrittenSoFar, OnShow, SourceRows, RowsOf
  <2>6. a \in SettingAnswers
    BY <1>4, <1>9 DEF Answers
  <2>7. /\ UNCHANGED arc /\ setting' = [setting EXCEPT ![b] = a.text]
        /\ tagged' = (tagged \ SourceRows(b, "setting_llm")) \cup SettingRows(b, a)
    BY <2>2 DEF PromoteSetting
  <2>8. TagsOfLists'
    BY <1>3, <1>4, <2>6, <2>7, SettingTagsOfLists
  <2>9. ArcsInOrder' /\ arc' \in [Books -> OptionOf(Seq(Nat))]
    BY <1>3, <2>7 DEF ArcsInOrder, ProfileTypes
  <2>10. setting' = [c \in Books |-> setting'[c]]
    BY <1>3, <2>7 DEF ProfileTypes
  <2>11. QED
    BY <1>1, <1>9, <2>3, <2>5, <2>8, <2>9, <2>10
<1>10. CASE r.kind = "characters" /\ r.left = <<"characters">>
  <2>1. Head(r.left) = "characters" /\ Tail(r.left) = <<>>
    BY <1>10
  <2>2. PromoteCharacters(b, a)
    BY <1>1, <2>1 DEF WriteNext
  <2>3. OnShow(b, "characters", a)' /\ Spares(b, "characters")
    BY <1>4, <2>2, CastWritten
  <2>4. next.kind = "characters" /\ next.left = <<>>
    BY <1>4, <1>10, <2>1
  <2>5. WrittenSoFar(next)'
    BY <1>4, <2>3, <2>4 DEF WrittenSoFar, OnShow, SourceRows, RowsOf
  <2>6. UNCHANGED <<arc, setting, tagged>>
    BY <2>2 DEF PromoteCharacters
  <2>7. TagsOfLists' /\ ArcsInOrder' /\ arc' \in [Books -> OptionOf(Seq(Nat))] /\ setting' = [c \in Books |-> setting'[c]]
    BY <1>3, <2>6 DEF TagsOfLists, KindRows, ArcsInOrder, ProfileTypes
  <2>8. QED
    BY <1>1, <1>10, <2>3, <2>5, <2>7
<1>11. CASE r.kind = "arc" /\ r.left = <<"arc">> /\ StepsAreWellFormed(a.steps)
  <2>1. Head(r.left) = "arc" /\ Tail(r.left) = <<>>
    BY <1>11
  <2>2. PromoteArc(b, a)
    BY <1>1, <2>1 DEF WriteNext
  <2>3. OnShow(b, "arc", a)' /\ Spares(b, "arc")
    BY <1>3, <1>4, <2>2, ArcWritten
  <2>4. next.kind = "arc" /\ next.left = <<>>
    BY <1>4, <1>11, <2>1
  <2>5. WrittenSoFar(next)'
    BY <1>4, <2>3, <2>4 DEF WrittenSoFar, OnShow, SourceRows, RowsOf
  <2>6. a.steps \in Seq(Nat)
    BY <1>4, <1>11, ProfilesAssumption DEF Answers
  <2>7. arc' = [arc EXCEPT ![b] = a.steps] /\ UNCHANGED <<setting, tagged>>
    BY <2>2 DEF PromoteArc
  <2>8. arc' \in [Books -> OptionOf(Seq(Nat))]
    BY <1>3, <1>4, <2>6, <2>7 DEF ProfileTypes, OptionOf
  <2>9. ArcsInOrder'
    <3>1. arc'[b] = a.steps /\ \A c \in Books : c # b => arc'[c] = arc[c]
      BY <1>3, <1>4, <2>7 DEF ProfileTypes
    <3>2. QED
      BY <1>3, <1>11, <3>1 DEF ArcsInOrder
  <2>10. TagsOfLists' /\ setting' = [c \in Books |-> setting'[c]]
    BY <1>3, <2>7 DEF TagsOfLists, KindRows, ProfileTypes
  <2>11. QED
    BY <1>1, <1>11, <2>3, <2>5, <2>8, <2>9, <2>10
<1>12. QED
  BY <1>5, <1>7, <1>8, <1>9, <1>10, <1>11

\* The cache fresh comes last: what it says is on show by then.
LEMMA CacheKeeps ==
  ASSUME PfInv, NEW r \in Runs, running = r, r # Nothing, WriteCacheRow(r), UNCHANGED <<books, current, questions>>
  PROVE  PfInv'
<1>1. PICK b, k, a : b = r.book /\ k = r.kind /\ a = r.answer
  OBVIOUS
<1>2. PICK fresh : fresh = [answer |-> a, ok |-> r.ok, stamp |-> current]
  OBVIOUS
<1>3. /\ r.left = <<>> /\ running' = Nothing /\ cached' = [cached EXCEPT ![b][k] = fresh]
      /\ UNCHANGED <<tagged, cautions, cast, arc, setting, current>>
  BY <1>1, <1>2 DEF WriteCacheRow, profiles
<1>4. b \in Books /\ k \in Extracts /\ a \in Responses /\ r.ok \in BOOLEAN
  BY <1>1 DEF Runs
<1>5. current \in Nat /\ cached \in [Books -> [Extracts -> OptionOf(AnswerRows)]]
  BY DEF PfInv, ProfileTypes
<1>6. fresh \in AnswerRows
  BY <1>2, <1>4, <1>5 DEF AnswerRows
<1>7. /\ cached'[b][k] = fresh
      /\ \A c \in Books, j \in Extracts : ~(c = b /\ j = k) => cached'[c][j] = cached[c][j]
  BY <1>3, <1>4, <1>5
<1>8. cached' \in [Books -> [Extracts -> OptionOf(AnswerRows)]]
  <2>1. fresh \in OptionOf(AnswerRows)
    BY <1>6 DEF OptionOf
  <2>2. [cached[b] EXCEPT ![k] = fresh] \in [Extracts -> OptionOf(AnswerRows)]
    BY <1>4, <1>5, <2>1
  <2>3. cached' = [cached EXCEPT ![b] = [cached[b] EXCEPT ![k] = fresh]]
    BY <1>3, <1>4, <1>5
  <2>4. QED
    BY <1>4, <1>5, <2>2, <2>3
<1>9. fresh.stamp = current /\ fresh.answer = a /\ fresh.ok = r.ok
  BY <1>2
<1>10. ProfileTypes'
  <2>1. ASSUME NEW c \in Books, NEW j \in Extracts, cached'[c][j] # Nothing
        PROVE  cached'[c][j].stamp <= current
    <3>1. CASE c = b /\ j = k
      BY <1>5, <1>7, <1>9, <3>1
    <3>2. CASE ~(c = b /\ j = k)
      BY <1>7, <2>1, <3>2 DEF PfInv, ProfileTypes
    <3>3. QED
      BY <3>1, <3>2
  <2>2. (running \in OptionOf(Runs))'
    BY <1>3 DEF OptionOf
  <2>3. QED
    BY <1>3, <1>8, <2>1, <2>2 DEF PfInv, ProfileTypes
<1>11. AtWork'
  BY <1>3 DEF AtWork
<1>12. TagsOfLists' /\ ArcsInOrder'
  BY <1>3 DEF PfInv, TagsOfLists, KindRows, ArcsInOrder
<1>13. r.ok => OnShow(b, k, a)
  <2>1. r.ok => WrittenSoFar(r)
    BY DEF PfInv, AtWork
  <2>2. ASSUME r.ok, k # "polish"
        PROVE  OnShow(b, k, a)
    BY <1>1, <1>3, <2>1, <2>2 DEF WrittenSoFar
  <2>3. k = "polish" => OnShow(b, k, a)
    BY DEF OnShow
  <2>4. QED
    BY <2>2, <2>3
<1>14. CurrentAnswersShown'
  <2>1. SUFFICES ASSUME NEW c \in Books, NEW j \in Extracts, Fresh(c, j)', cached'[c][j].ok
                 PROVE  OnShow(c, j, cached[c][j].answer)'
    BY DEF CurrentAnswersShown
  <2>2. PICK x : x = cached'[c][j].answer
    OBVIOUS
  <2>3. OnShow(c, j, x)
    <3>1. CASE c = b /\ j = k
      BY <1>7, <1>9, <1>13, <2>1, <2>2, <3>1
    <3>2. CASE ~(c = b /\ j = k)
      <4>1. cached'[c][j] = cached[c][j]
        BY <1>7, <3>2
      <4>2. Fresh(c, j) /\ cached[c][j].ok /\ x = cached[c][j].answer
        BY <1>3, <2>1, <2>2, <4>1 DEF Fresh
      <4>3. QED
        BY <4>2 DEF PfInv, CurrentAnswersShown
    <3>3. QED
      BY <3>1, <3>2
  <2>4. OnShow(c, j, x)'
    BY <1>3, <2>3 DEF OnShow, SourceRows, RowsOf
  <2>5. QED
    BY <2>2, <2>4
<1>15. QED
  BY <1>10, <1>11, <1>12, <1>14 DEF PfInv

LEMMA PfInvNext == PfInv /\ [PfStep]_pfVars => PfInv'
<1> SUFFICES ASSUME PfInv, [PfStep]_pfVars PROVE PfInv'
  OBVIOUS
<1>1. ASSUME NEW b \in Books, AskTags(b) \/ AskSetting(b) \/ AskCharacters(b) \/ AskArc(b) \/ AskPolish(b)
      PROVE  PfInv'
  <2>1. PICK k \in Extracts : AskModel(b, k)
    BY <1>1 DEF AskTags, AskSetting, AskCharacters, AskArc, AskPolish, Extracts
  <2>2. QED
    BY <2>1, AskedKeeps
<1>2. ASSUME StageStep
      PROVE  PfInv'
  <2>1. PICK r : r = running
    OBVIOUS
  <2>2. r \in Runs /\ r # Nothing /\ UNCHANGED <<books, current, questions>>
    BY <1>2, <2>1 DEF StageStep, PfInv, ProfileTypes, OptionOf
  <2>3. WriteNext(r) \/ WriteCacheRow(r) \/ StageFails
    BY <1>2, <2>1 DEF StageStep
  <2>4. ASSUME StageFails
        PROVE  PfInv'
    <3>1. UNCHANGED <<cached, current>> /\ UNCHANGED profiles /\ running' = Nothing
      BY <2>2, <2>4 DEF StageFails
    <3>2. current' \in Nat /\ current' >= current /\ cached' \in [Books -> [Extracts -> OptionOf(AnswerRows)]]
      BY <3>1 DEF PfInv, ProfileTypes
    <3>3. \A b \in Books, k \in Extracts : cached'[b][k] = cached[b][k]
      BY <3>1
    <3>4. QED
      BY <3>1, <3>2, <3>3, QuietProfiles
  <2>5. ASSUME WriteNext(r)
        PROVE  PfInv'
    <3>1. running = r /\ r \in Runs /\ r # Nothing
      BY <2>1, <2>2
    <3>2. UNCHANGED <<books, current, questions>>
      BY <2>2
    <3>3. QED
      BY <2>5, <3>1, <3>2, TableKeeps
  <2>6. ASSUME WriteCacheRow(r)
        PROVE  PfInv'
    <3>1. running = r /\ r \in Runs /\ r # Nothing
      BY <2>1, <2>2
    <3>2. UNCHANGED <<books, current, questions>>
      BY <2>2
    <3>3. QED
      BY <2>6, <3>1, <3>2, CacheKeeps
  <2>7. QED
    BY <2>3, <2>4, <2>5, <2>6
<1>3. ASSUME AroundProfiles
      PROVE  PfInv'
  <2>1. UNCHANGED profiles /\ UNCHANGED <<running, current>>
    BY <1>3 DEF AroundProfiles
  <2>2. current' \in Nat /\ current' >= current /\ cached \in [Books -> [Extracts -> OptionOf(AnswerRows)]]
    BY <2>1 DEF PfInv, ProfileTypes
  <2>3. UNCHANGED cached \/ \E b \in Books, k \in Extracts : cached' = [cached EXCEPT ![b][k] = Nothing]
    BY <1>3 DEF AroundProfiles, books
  <2>4. CASE UNCHANGED cached
    <3>1. /\ cached' \in [Books -> [Extracts -> OptionOf(AnswerRows)]]
          /\ \A b \in Books, k \in Extracts : cached'[b][k] = cached[b][k]
      BY <2>2, <2>4
    <3>2. QED
      BY <2>1, <2>2, <3>1, QuietProfiles
  <2>5. CASE \E b \in Books, k \in Extracts : cached' = [cached EXCEPT ![b][k] = Nothing]
    <3>1. PICK b \in Books, k \in Extracts : cached' = [cached EXCEPT ![b][k] = Nothing]
      BY <2>5
    <3>2. Nothing \in OptionOf(AnswerRows)
      BY DEF OptionOf
    <3>3. [cached[b] EXCEPT ![k] = Nothing] \in [Extracts -> OptionOf(AnswerRows)]
      BY <2>2, <3>2
    <3>4. cached' = [cached EXCEPT ![b] = [cached[b] EXCEPT ![k] = Nothing]]
      BY <2>2, <3>1
    <3>5. cached' \in [Books -> [Extracts -> OptionOf(AnswerRows)]]
      BY <2>2, <3>3, <3>4
    <3>6. \A c \in Books, j \in Extracts : cached'[c][j] # Nothing => cached'[c][j] = cached[c][j]
      BY <2>2, <3>4
    <3>7. QED
      BY <2>1, <2>2, <3>5, <3>6, QuietProfiles
  <2>6. QED
    BY <2>3, <2>4, <2>5
<1>4. ASSUME RestartProfiles
      PROVE  PfInv'
  <2>1. running' = Nothing /\ UNCHANGED cached /\ UNCHANGED profiles /\ current' \in current .. current + 1
    BY <1>4 DEF RestartProfiles
  <2>2. current \in Nat /\ cached \in [Books -> [Extracts -> OptionOf(AnswerRows)]]
    BY DEF PfInv, ProfileTypes
  <2>3. current' \in Nat /\ current' >= current
    BY <2>1, <2>2
  <2>4. /\ cached' \in [Books -> [Extracts -> OptionOf(AnswerRows)]]
        /\ \A b \in Books, k \in Extracts : cached'[b][k] = cached[b][k]
    BY <2>1, <2>2
  <2>5. QED
    BY <2>1, <2>3, <2>4, QuietProfiles
<1>5. ASSUME UNCHANGED pfVars
      PROVE  PfInv'
  <2>1. UNCHANGED profiles /\ cached' = cached /\ running' = running /\ current' = current
    BY <1>5 DEF pfVars
  <2>2. current \in Nat /\ cached \in [Books -> [Extracts -> OptionOf(AnswerRows)]]
    BY DEF PfInv, ProfileTypes
  <2>3. current' \in Nat /\ current' >= current
    BY <2>1, <2>2
  <2>4. /\ cached' \in [Books -> [Extracts -> OptionOf(AnswerRows)]]
        /\ \A b \in Books, k \in Extracts : cached'[b][k] # Nothing => cached'[b][k] = cached[b][k]
    BY <2>1, <2>2
  <2>5. QED
    BY <2>1, <2>3, <2>4, QuietProfiles
<1>6. QED
  BY <1>1, <1>2, <1>3, <1>4, <1>5 DEF PfStep

\* Whatever the language model answers, however often it is asked, and wherever
\* a run is broken off between two of its transactions: the tables of a book
\* hold exactly what the answer says that keeps a stage from asking again, no
\* kind of tag goes over its cap, and the story arc is in order.
THEOREM ProfilesStayTrue == PfSpec => []ProfilesHold
<1>1. PfInv => ProfilesHold
  BY WithinCaps DEF PfInv, ProfilesHold
<1>2. QED
  BY PfInvInit, PfInvNext, <1>1, PTL DEF PfSpec

-----------------------------------------------------------------------------
(* --- Types of Profiles --------------------------------------------------- *)

Tags == [book : Books, kind : Kinds, slug : Slugs, source : {"dna_llm", "setting_llm"}]
PfTyped ==
  /\ language \in [Books -> OptionOf(Subtags)] /\ transcribed \in [Books -> OptionOf(TextSizes)]
  /\ corrected \in [Books -> OptionOf({"blank", "short", "long"})]
  /\ tagged \subseteq Tags /\ \A r \in cautions \cup cast : r.book \in Books
  /\ current \in 1 .. MaxStamps /\ questions \in 0 .. MaxQuestions

LEMMA FormattedTags ==
  ASSUME NEW b \in Books, NEW kind \in Kinds, NEW source \in {"dna_llm", "setting_llm"},
         NEW slugs \in Seq(OptionOf(Slugs)), NEW cap \in Nat
  PROVE  FormatTags(b, kind, Clamp(slugs, cap), source) \subseteq Tags
<1>1. PICK kept \in Seq(Slugs) : kept = Clamp(slugs, cap)
  BY ClampIsShort
<1>2. ToSet(kept) \subseteq Slugs
  BY DEF ToSet
<1>3. QED
  BY <1>1, <1>2 DEF FormatTags, Tags

LEMMA AnswerTags ==
  ASSUME NEW b \in Books
  PROVE  /\ \A a \in DnaAnswers : DnaRows(b, a) \subseteq Tags
         /\ \A a \in SettingAnswers : SettingRows(b, a) \subseteq Tags
<1>1. {"dna", "spoiler", "setting"} \subseteq Kinds /\ MaxDna \in Nat /\ MaxSpoilers \in Nat /\ MaxSetting \in Nat
  BY ProfilesAssumption DEF Kinds
<1>2. ASSUME NEW a \in DnaAnswers PROVE DnaRows(b, a) \subseteq Tags
  <2>1. SlugsOf(a.dna) \in Seq(OptionOf(Slugs)) /\ SlugsOf(a.spoilers) \in Seq(OptionOf(Slugs))
    BY ListsOfSlugs
  <2>2. FormatTags(b, "dna", Clamp(SlugsOf(a.dna), MaxDna), "dna_llm") \subseteq Tags
    BY <1>1, <2>1, FormattedTags
  <2>3. FormatTags(b, "spoiler", Clamp(SlugsOf(a.spoilers), MaxSpoilers), "dna_llm") \subseteq Tags
    BY <1>1, <2>1, FormattedTags
  <2>4. QED
    BY <2>2, <2>3 DEF DnaRows
<1>3. ASSUME NEW a \in SettingAnswers PROVE SettingRows(b, a) \subseteq Tags
  <2>1. SettingSlugs(a.tags) \in Seq(OptionOf(Slugs))
    BY ListsOfSlugs
  <2>2. QED
    BY <1>1, <2>1, FormattedTags DEF SettingRows, NormaliseTags
<1>4. QED
  BY <1>2, <1>3

LEMMA TableTyped ==
  ASSUME PfInv, PfTyped, NEW r \in Runs, running = r, r # Nothing, WriteNext(r), UNCHANGED <<books, current, questions>>
  PROVE  PfTyped'
<1>1. PICK b, a : b = r.book /\ a = r.answer
  OBVIOUS
<1>2. /\ b \in Books /\ a \in Answers(r.kind)
      /\ \/ r.kind = "dna" /\ r.left = <<"tags", "warnings">>
         \/ r.kind = "dna" /\ r.left = <<"warnings">>
         \/ r.kind = "setting" /\ r.left = <<"setting">>
         \/ r.kind = "characters" /\ r.left = <<"characters">>
         \/ r.kind = "arc" /\ r.left = <<"arc">>
  BY <1>1, NextTable DEF WriteNext
<1>3. tagged' \subseteq Tags /\ \A c \in cautions' \cup cast' : c.book \in Books
  <2>1. tagged \subseteq Tags /\ \A c \in cautions \cup cast : c.book \in Books
    BY DEF PfTyped
  <2>2. CASE r.kind = "dna" /\ r.left = <<"tags", "warnings">>
    <3>1. WriteTags(b, a) /\ a \in DnaAnswers
      BY <1>1, <1>2, <2>2 DEF WriteNext, Answers
    <3>2. QED
      BY <1>2, <2>1, <3>1, AnswerTags DEF WriteTags
  <2>3. CASE r.kind = "dna" /\ r.left = <<"warnings">>
    <3>1. WriteWarnings(b, a)
      BY <1>1, <2>3 DEF WriteNext
    <3>2. \A c \in WarningRows(b, a) : c.book = b
      BY DEF WarningRows
    <3>3. QED
      BY <1>2, <2>1, <3>1, <3>2 DEF WriteWarnings
  <2>4. CASE r.kind = "setting" /\ r.left = <<"setting">>
    <3>1. PromoteSetting(b, a) /\ a \in SettingAnswers
      BY <1>1, <1>2, <2>4 DEF WriteNext, Answers
    <3>2. QED
      BY <1>2, <2>1, <3>1, AnswerTags DEF PromoteSetting
  <2>5. CASE r.kind = "characters" /\ r.left = <<"characters">>
    <3>1. PromoteCharacters(b, a)
      BY <1>1, <2>5 DEF WriteNext
    <3>2. \A c \in CastRows(b, a) : c.book = b
      BY DEF CastRows
    <3>3. QED
      BY <1>2, <2>1, <3>1, <3>2 DEF PromoteCharacters
  <2>6. CASE r.kind = "arc" /\ r.left = <<"arc">>
    <3>1. PromoteArc(b, a)
      BY <1>1, <2>6 DEF WriteNext
    <3>2. QED
      BY <2>1, <3>1 DEF PromoteArc
  <2>7. QED
    BY <1>2, <2>2, <2>3, <2>4, <2>5, <2>6
<1>4. QED
  BY <1>3 DEF PfTyped, books

LEMMA PfTypedInit == PfInit => PfTyped
<1> SUFFICES ASSUME PfInit PROVE PfTyped
  OBVIOUS
<1>1. current \in 1 .. MaxStamps /\ questions \in 0 .. MaxQuestions
  BY ProfilesAssumption DEF PfInit
<1>2. QED
  BY <1>1 DEF PfInit, PfTyped, OptionOf

LEMMA PfTypedStep ==
  ASSUME PfInv, PfTyped, [PfStep]_pfVars
  PROVE  PfTyped'
<1>1. ASSUME NEW b \in Books, NEW k, AskModel(b, k)
      PROVE  PfTyped'
  <2>1. questions' \in 0 .. MaxQuestions
    BY <1>1, ProfilesAssumption DEF AskModel, PfTyped
  <2>2. UNCHANGED <<language, transcribed, corrected, tagged, cautions, cast, current>>
    BY <1>1 DEF AskModel, books, profiles
  <2>3. QED
    BY <2>1, <2>2 DEF PfTyped
<1>2. ASSUME NEW b \in Books, AskTags(b) \/ AskSetting(b) \/ AskCharacters(b) \/ AskArc(b) \/ AskPolish(b)
      PROVE  PfTyped'
  BY <1>1, <1>2 DEF AskTags, AskSetting, AskCharacters, AskArc, AskPolish
<1>3. CASE StageStep
  <2>1. PICK r \in Runs : running = r /\ r # Nothing
    BY <1>3 DEF StageStep, PfInv, ProfileTypes, OptionOf
  <2>2. UNCHANGED <<books, current, questions>>
    BY <1>3 DEF StageStep
  <2>3. CASE WriteNext(r)
    BY <2>1, <2>2, <2>3, TableTyped
  <2>4. CASE UNCHANGED profiles
    BY <2>2, <2>4 DEF books, profiles, PfTyped
  <2>5. QED
    BY <1>3, <2>1, <2>3, <2>4 DEF StageStep, WriteCacheRow, StageFails
<1>4. CASE AroundProfiles
  <2>1. UNCHANGED <<tagged, cautions, cast, current, questions>>
    BY <1>4 DEF AroundProfiles, profiles
  <2>2. /\ language' \in [Books -> OptionOf(Subtags)] /\ transcribed' \in [Books -> OptionOf(TextSizes)]
        /\ corrected' \in [Books -> OptionOf({"blank", "short", "long"})]
    BY <1>4 DEF AroundProfiles, books, PfTyped, OptionOf
  <2>3. QED
    BY <2>1, <2>2 DEF PfTyped
<1>5. CASE RestartProfiles
  <2>1. current' \in 1 .. MaxStamps
    BY <1>5, ProfilesAssumption DEF RestartProfiles, PfTyped
  <2>2. QED
    BY <1>5, <2>1 DEF RestartProfiles, books, profiles, PfTyped
<1>6. CASE UNCHANGED pfVars
  BY <1>6 DEF pfVars, books, profiles, PfTyped
<1>7. QED
  BY <1>2, <1>3, <1>4, <1>5, <1>6 DEF PfStep

LEMMA PfTypesOfInv == PfTyped => PfTypeOK
  BY DEF PfTyped, PfTypeOK, Tags

(* The tags of a book are slugs of the kinds and sources there are, warnings   *)
(* and characters are of books, and versions and runs stay within bounds.     *)
THEOREM ProfileTypesHold == PfSpec => []PfTypeOK
<1>1. QED
  BY PfInvInit, PfInvNext, PfTypedInit, PfTypedStep, PfTypesOfInv, PTL DEF PfSpec

-----------------------------------------------------------------------------
(* --- Artefacts ----------------------------------------------------------- *)
(* Proofs about Artefacts, for any files, formats, stems and bounds.         *)

References == [file : Sources, stage : Converters, run : Nat]

\* The types; a file that is being encoded or registered is a source.
ArtefactTypes ==
  /\ row \in [Paths -> {"none", "active", "inactive"}]
  /\ refs \subseteq References /\ convert \in OptionOf(Conversions) /\ runs \in Nat
  /\ convert # Nothing /\ convert.at # "next" => Source \in Sources

\* What is out of use, or about to be, is not on disk.
OutIsGone ==
  /\ \A f \in Sources : row[f] = "inactive" => f \notin disk
  /\ sweep # Nothing => sweep.todo \subseteq Sources
  /\ sweep # Nothing /\ sweep.gone # Nothing => sweep.gone \in Sources \ disk

\* A reference is left of a run that is cut, or of the file that is being encoded.
Owned(r) ==
  \/ r.run \in cut
  \/ convert # Nothing /\ convert.at \in {"encoding", "encoded"} /\ r = Ref
AllOwned == \A r \in refs : Owned(r)

ArInv == ArtefactTypes /\ OutIsGone /\ AllOwned

-----------------------------------------------------------------------------
LEMMA SettledByInv == ArInv => SweepsSettle
<1> SUFFICES ASSUME ArInv PROVE SweepsSettle
  OBVIOUS
<1>1. ASSUME NEW r \in refs
      PROVE  r.run \in cut \/ (convert # Nothing /\ convert.run = r.run)
  BY <1>1 DEF ArInv, AllOwned, Owned, Ref
<1>2. QED
  BY <1>1 DEF ArInv, OutIsGone, SweepsSettle

LEMMA ArInvInit == ArInit => ArInv
<1> SUFFICES ASSUME ArInit PROVE ArInv
  OBVIOUS
<1>1. ArtefactTypes
  BY DEF ArInit, ArtefactTypes, OptionOf
<1>2. OutIsGone
  BY DEF ArInit, OutIsGone, Paths
<1>3. AllOwned
  BY DEF ArInit, AllOwned
<1>4. QED
  BY <1>1, <1>2, <1>3 DEF ArInv

\* The file in hand.
LEMMA InHand ==
  ASSUME convert \in Conversions, Source \in Sources
  PROVE  Output \in Outputs /\ Ref \in References /\ Ref.run = convert.run
<1>1. convert.stage \in Converters /\ convert.run \in Nat
  BY DEF Conversions
<1>2. QED
  BY <1>1 DEF Output, Outputs, References, Ref

\* Changing where a conversion stands, what it has left and how it went.
ReferencePlaces == {"next", "encoding", "encoded", "registering"}
LEMMA AtOther ==
  ASSUME NEW c \in Conversions, NEW place \in ReferencePlaces
  PROVE  /\ [c EXCEPT !.at = place] \in Conversions
         /\ [c EXCEPT !.at = place].at = place
         /\ [c EXCEPT !.at = place].todo = c.todo
         /\ [c EXCEPT !.at = place].stage = c.stage
         /\ [c EXCEPT !.at = place].run = c.run
  BY DEF Conversions, ReferencePlaces
LEMMA LessToDo ==
  ASSUME NEW c \in Conversions, NEW todo \in SUBSET Sources
  PROVE  [c EXCEPT !.todo = todo] \in Conversions /\ [c EXCEPT !.todo = todo].at = c.at
  BY DEF Conversions
LEMMA AtNext ==
  ASSUME NEW c \in Conversions, NEW todo \in SUBSET Sources
  PROVE  /\ [c EXCEPT !.at = "next", !.todo = todo] \in Conversions
         /\ [c EXCEPT !.at = "next", !.todo = todo].at = "next"
  BY DEF Conversions
LEMMA AtEncoded ==
  ASSUME NEW c \in Conversions, NEW ok \in BOOLEAN
  PROVE  /\ [c EXCEPT !.at = "encoded", !.ok = ok] \in Conversions
         /\ [c EXCEPT !.at = "encoded", !.ok = ok].at = "encoded"
         /\ [c EXCEPT !.at = "encoded", !.ok = ok].todo = c.todo
         /\ [c EXCEPT !.at = "encoded", !.ok = ok].stage = c.stage
         /\ [c EXCEPT !.at = "encoded", !.ok = ok].run = c.run
  BY DEF Conversions

-----------------------------------------------------------------------------
\* Where rows, disk and the sweep are left alone.
LEMMA QuietOut ==
  ASSUME OutIsGone, UNCHANGED <<row, disk, sweep>>
  PROVE  OutIsGone'
  BY DEF OutIsGone

\* What the encoder writes is no source.
LEMMA EncodedIsNoSource ==
  ASSUME OutIsGone, NEW o \in Outputs, disk' \in {disk, disk \cup {o}, disk \ {o}},
         UNCHANGED row, sweep' = sweep \/ sweep' = Nothing
  PROVE  OutIsGone'
<1>1. o \notin Sources
  BY ArtefactsAssumption
<1>2. \A f \in Sources : f \notin disk => f \notin disk'
  BY <1>1
<1>3. QED
  BY <1>2 DEF OutIsGone

LEMMA StartKeeps ==
  ASSUME ArInv, NEW stage \in Converters, StartConvert(stage)
  PROVE  ArInv'
<1> DEFINE c == [stage |-> stage, run |-> runs, todo |-> SourcesOf(stage), at |-> "next", ok |-> FALSE]
<1>1. convert = Nothing /\ convert' = c /\ runs' = runs + 1
  BY DEF StartConvert
<1>2. UNCHANGED <<row, disk, refs, sweep, cut>>
  BY DEF StartConvert
<1>3. runs \in Nat /\ SourcesOf(stage) \in SUBSET Sources
  BY DEF ArInv, ArtefactTypes, SourcesOf
<1>4. c \in Conversions /\ c.at = "next"
  BY <1>3 DEF Conversions
<1> HIDE DEF c
<1>5. ArtefactTypes'
  BY <1>1, <1>2, <1>3, <1>4 DEF ArInv, ArtefactTypes, OptionOf
<1>6. \A r \in refs : r.run \in cut
  BY <1>1 DEF ArInv, AllOwned, Owned
<1>7. AllOwned'
  BY <1>2, <1>6 DEF AllOwned, Owned
<1>8. OutIsGone'
  BY <1>2, QuietOut DEF ArInv
<1>9. QED
  BY <1>5, <1>7, <1>8 DEF ArInv

LEMMA FinishKeeps ==
  ASSUME ArInv, FinishConvert
  PROVE  ArInv'
<1>1. convert.at = "next" /\ convert' = Nothing /\ UNCHANGED <<row, disk, refs, sweep, cut, runs>>
  BY DEF FinishConvert, At
<1>2. ArtefactTypes'
  BY <1>1 DEF ArInv, ArtefactTypes, OptionOf
<1>3. AllOwned'
  BY <1>1 DEF ArInv, AllOwned, Owned
<1>4. OutIsGone'
  BY <1>1, QuietOut DEF ArInv
<1>5. QED
  BY <1>2, <1>3, <1>4 DEF ArInv

\* A source is opened with a reference, or passed over.
LEMMA ProcessKeeps ==
  ASSUME ArInv, ProcessSource
  PROVE  ArInv'
<1>1. /\ convert # Nothing /\ convert.at = "next"
      /\ UNCHANGED <<row, disk, sweep, cut, runs>>
  BY DEF ProcessSource, At
<1>2. convert \in Conversions
  BY <1>1 DEF ArInv, ArtefactTypes, OptionOf
<1>3. \A r \in refs : r.run \in cut
  BY <1>1 DEF ArInv, AllOwned, Owned
<1>4. Nothing \notin Conversions
  BY ArtefactsAssumption
<1>5. OutIsGone'
  BY <1>1, QuietOut DEF ArInv
<1>6. CASE Resolves
  <2>1. refs' = refs \cup {Ref} /\ convert' = [convert EXCEPT !.at = "encoding"]
    BY <1>6 DEF ProcessSource
  <2>2. Source \in Sources
    BY <1>6, ArtefactsAssumption DEF Resolves
  <2>3. Ref \in References
    BY <1>2, <2>2, InHand
  <2>4. convert' \in Conversions /\ convert'.at = "encoding" /\ convert'.todo = convert.todo
        /\ convert'.stage = convert.stage /\ convert'.run = convert.run
    BY <1>2, <2>1, AtOther DEF ReferencePlaces
  <2>5. Source' = Source
    BY <2>4 DEF Source
  <2>6. Ref' = Ref
    BY <2>4, <2>5 DEF Ref
  <2>7. ArtefactTypes'
    BY <1>1, <2>1, <2>2, <2>3, <2>4, <2>5 DEF ArInv, ArtefactTypes, OptionOf
  <2>8. AllOwned'
    BY <1>1, <1>3, <1>4, <2>1, <2>4, <2>6 DEF AllOwned, Owned
  <2>9. QED
    BY <1>5, <2>7, <2>8 DEF ArInv
<1>7. CASE ~Resolves
  <2>1. refs' = refs /\ convert' = [convert EXCEPT !.todo = convert.todo \ {Source}]
    BY <1>7 DEF ProcessSource
  <2>2. convert.todo \ {Source} \in SUBSET Sources
    BY <1>2 DEF Conversions
  <2>3. convert' \in Conversions /\ convert'.at = "next"
    BY <1>1, <1>2, <2>1, <2>2, LessToDo
  <2>4. ArtefactTypes'
    BY <1>1, <2>1, <2>3 DEF ArInv, ArtefactTypes, OptionOf
  <2>5. AllOwned'
    BY <1>1, <1>3, <2>1 DEF AllOwned, Owned
  <2>6. QED
    BY <1>5, <2>4, <2>5 DEF ArInv
<1>8. QED
  BY <1>6, <1>7

\* The encoder touches its output only, however it ends.
LEMMA EncodeKeeps ==
  ASSUME ArInv, Encode
  PROVE  ArInv'
<1>1. convert # Nothing /\ convert.at = "encoding" /\ UNCHANGED <<row, refs, sweep, cut, runs>>
  BY DEF Encode, At
<1>2. convert \in Conversions /\ Source \in Sources
  BY <1>1 DEF ArInv, ArtefactTypes, OptionOf
<1>3. PICK ok \in BOOLEAN : convert' = [convert EXCEPT !.at = "encoded", !.ok = ok]
  BY DEF Encode
<1>4. convert' \in Conversions /\ convert'.at = "encoded" /\ convert'.todo = convert.todo
      /\ convert'.stage = convert.stage /\ convert'.run = convert.run
  BY <1>2, <1>3, AtEncoded
<1>5. Source' = Source
  BY <1>4 DEF Source
<1>6. Ref' = Ref
  BY <1>4, <1>5 DEF Ref
<1>7. ArtefactTypes'
  BY <1>1, <1>2, <1>4, <1>5 DEF ArInv, ArtefactTypes, OptionOf
<1>8. Nothing \notin Conversions
  BY ArtefactsAssumption
<1>9. AllOwned'
  BY <1>1, <1>4, <1>6, <1>8 DEF ArInv, AllOwned, Owned
<1>10. disk' \in {disk, disk \cup {Output}, disk \ {Output}}
  BY DEF Encode
<1>11. Output \in Outputs
  BY <1>2, InHand
<1>12. OutIsGone'
  BY <1>1, <1>10, <1>11, EncodedIsNoSource DEF ArInv
<1>13. QED
  BY <1>7, <1>9, <1>12 DEF ArInv

LEMMA ReleaseKeeps ==
  ASSUME ArInv, Release
  PROVE  ArInv'
<1>1. /\ convert # Nothing /\ convert.at = "encoded" /\ refs' = refs \ {Ref}
      /\ UNCHANGED <<row, disk, sweep, cut, runs>>
  BY DEF Release, At
<1>2. convert \in Conversions /\ Source \in Sources
  BY <1>1 DEF ArInv, ArtefactTypes, OptionOf
<1>3. \A r \in refs' : r.run \in cut
  BY <1>1 DEF ArInv, AllOwned, Owned
<1>4. AllOwned'
  BY <1>1, <1>3 DEF AllOwned, Owned
<1>5. OutIsGone'
  BY <1>1, QuietOut DEF ArInv
<1>6. CASE convert.ok
  <2>1. convert' = [convert EXCEPT !.at = "registering"]
    BY <1>6 DEF Release
  <2>2. convert' \in Conversions /\ convert'.todo = convert.todo
    BY <1>2, <2>1, AtOther DEF ReferencePlaces
  <2>3. Source' = Source
    BY <2>2 DEF Source
  <2>4. ArtefactTypes'
    BY <1>1, <1>2, <2>2, <2>3 DEF ArInv, ArtefactTypes, OptionOf
  <2>5. QED
    BY <1>4, <1>5, <2>4 DEF ArInv
<1>7. CASE ~convert.ok
  <2>1. convert' = [convert EXCEPT !.at = "next", !.todo = convert.todo \ {Source}]
    BY <1>7 DEF Release
  <2>2. convert.todo \ {Source} \in SUBSET Sources
    BY <1>2 DEF Conversions
  <2>3. convert' \in Conversions /\ convert'.at = "next"
    BY <1>2, <2>1, <2>2, AtNext
  <2>4. ArtefactTypes'
    BY <1>1, <2>3 DEF ArInv, ArtefactTypes, OptionOf
  <2>5. QED
    BY <1>4, <1>5, <2>4 DEF ArInv
<1>8. QED
  BY <1>6, <1>7

\* A release that fails: what the conversion held is left behind.
LEMMA ReleaseFailsKeeps ==
  ASSUME ArInv, ReleaseFails
  PROVE  ArInv'
<1>1. /\ convert # Nothing /\ convert' = Nothing /\ cut' = cut \cup {convert.run}
      /\ UNCHANGED <<row, disk, refs, sweep, runs>>
  BY DEF ReleaseFails, At
<1>2. ArtefactTypes'
  BY <1>1 DEF ArInv, ArtefactTypes, OptionOf
<1>3. \A r \in refs : r.run \in cut'
  BY <1>1 DEF ArInv, AllOwned, Owned, Ref
<1>4. AllOwned'
  BY <1>1, <1>3 DEF AllOwned, Owned
<1>5. OutIsGone'
  BY <1>1, QuietOut DEF ArInv
<1>6. QED
  BY <1>2, <1>4, <1>5 DEF ArInv

LEMMA RegisterKeeps ==
  ASSUME ArInv, Register
  PROVE  ArInv'
<1>1. convert # Nothing /\ convert.at = "registering" /\ UNCHANGED <<disk, refs, sweep, cut, runs>>
  BY DEF Register, At
<1>2. convert \in Conversions /\ Source \in Sources
  BY <1>1 DEF ArInv, ArtefactTypes, OptionOf
<1>3. \A r \in refs : r.run \in cut
  BY <1>1 DEF ArInv, AllOwned, Owned
<1>4. AllOwned'
  BY <1>1, <1>3 DEF AllOwned, Owned
<1>5. CASE /\ row' = [row EXCEPT ![Output] = "active"]
           /\ convert' = [convert EXCEPT !.at = "next", !.todo = convert.todo \ {Source}]
  <2>1. row' = [row EXCEPT ![Output] = "active"] /\ convert' = [convert EXCEPT !.at = "next", !.todo = convert.todo \ {Source}]
    BY <1>5
  <2>2. convert.todo \ {Source} \in SUBSET Sources
    BY <1>2 DEF Conversions
  <2>3. convert' \in Conversions /\ convert'.at = "next"
    BY <1>2, <2>1, <2>2, AtNext
  <2>4. row' \in [Paths -> {"none", "active", "inactive"}] /\ \A f \in Paths : row'[f] = "inactive" => row[f] = "inactive"
    BY <2>1 DEF ArInv, ArtefactTypes
  <2>5. ArtefactTypes'
    BY <1>1, <2>3, <2>4 DEF ArInv, ArtefactTypes, OptionOf
  <2>6. OutIsGone'
    BY <1>1, <2>4 DEF ArInv, OutIsGone, Paths
  <2>7. QED
    BY <1>4, <2>5, <2>6 DEF ArInv
<1>6. CASE UNCHANGED row /\ convert' = Nothing
  <2>1. UNCHANGED row /\ convert' = Nothing
    BY <1>6
  <2>2. ArtefactTypes'
    BY <1>1, <2>1 DEF ArInv, ArtefactTypes, OptionOf
  <2>3. OutIsGone'
    BY <1>1, <2>1, QuietOut DEF ArInv
  <2>4. QED
    BY <1>4, <2>2, <2>3 DEF ArInv
<1>7. QED
  BY <1>5, <1>6 DEF Register

-----------------------------------------------------------------------------
\* Where a step leaves the conversion and its references alone.
LEMMA QuietTypes ==
  ASSUME ArtefactTypes, UNCHANGED <<row, refs, convert, runs>>
  PROVE  ArtefactTypes'
<1>1. Source' = Source
  BY DEF Source
<1>2. QED
  BY <1>1 DEF ArtefactTypes
LEMMA QuietOwned ==
  ASSUME AllOwned, UNCHANGED <<convert, cut>>, refs' \subseteq refs
  PROVE  AllOwned'
<1>1. Ref' = Ref
  BY DEF Ref, Source
<1>2. QED
  BY <1>1 DEF AllOwned, Owned

LEMMA SweepKeeps ==
  ASSUME ArInv, StartSweep \/ SweepRow \/ EndSweep
  PROVE  ArInv'
<1>1. UNCHANGED <<refs, convert, runs, cut>>
  BY DEF StartSweep, SweepRow, EndSweep
<1>2. AllOwned'
  BY <1>1, QuietOwned DEF ArInv
<1>3. Source' = Source
  BY <1>1 DEF Source
<1>4. CASE StartSweep
  <2>1. UNCHANGED <<row, disk>> /\ sweep' = [todo |-> SelectEligible, gone |-> Nothing]
    BY <1>4 DEF StartSweep
  <2>2. OutIsGone'
    BY <2>1 DEF ArInv, OutIsGone, SelectEligible
  <2>3. QED
    BY <1>1, <1>2, <2>1, <2>2, QuietTypes DEF ArInv
<1>5. CASE SweepRow /\ sweep.gone = Nothing
  <2>1. PICK f \in sweep.todo :
          /\ UNCHANGED row
          /\ \/ disk' = disk \ {f} /\ sweep' = [todo |-> sweep.todo \ {f}, gone |-> f]
             \/ disk' = disk /\ sweep' = [todo |-> sweep.todo \ {f}, gone |-> Nothing]
    BY <1>5 DEF SweepRow
  <2>2. sweep.todo \subseteq Sources /\ f \in Sources
    BY <1>5, <2>1 DEF ArInv, OutIsGone, SweepRow
  <2>3. OutIsGone'
    BY <2>1, <2>2 DEF ArInv, OutIsGone
  <2>4. QED
    BY <1>1, <1>2, <2>1, <2>3, QuietTypes DEF ArInv
<1>6. CASE SweepRow /\ sweep.gone # Nothing
  <2>1. /\ row' = [row EXCEPT ![sweep.gone] = "inactive"] /\ UNCHANGED disk
        /\ sweep' = [sweep EXCEPT !.gone = Nothing]
    BY <1>6 DEF SweepRow
  <2>2. sweep # Nothing /\ sweep.todo \subseteq Sources /\ sweep.gone \in Sources \ disk
    BY <1>6 DEF ArInv, OutIsGone, SweepRow
  <2>3. row' \in [Paths -> {"none", "active", "inactive"}]
        /\ \A f \in Paths : row'[f] = "inactive" => f = sweep.gone \/ row[f] = "inactive"
    BY <2>1 DEF ArInv, ArtefactTypes
  <2>4. UNCHANGED <<refs, convert, runs>>
    BY <1>1
  <2>5. ArtefactTypes'
    BY <1>3, <2>3, <2>4 DEF ArInv, ArtefactTypes
  <2>6. OutIsGone'
    <3>1. sweep'.todo = sweep.todo /\ sweep'.gone = Nothing
      BY <2>1
    <3>2. \A f \in Sources : row'[f] = "inactive" => f \notin disk
      BY <2>2, <2>3 DEF ArInv, OutIsGone, Paths
    <3>3. QED
      BY <2>1, <2>2, <3>1, <3>2 DEF OutIsGone
  <2>7. QED
    BY <1>2, <2>5, <2>6 DEF ArInv
<1>7. CASE EndSweep
  <2>1. UNCHANGED <<row, disk>> /\ sweep' = Nothing
    BY <1>7 DEF EndSweep
  <2>2. OutIsGone'
    BY <2>1 DEF ArInv, OutIsGone
  <2>3. QED
    BY <1>1, <1>2, <2>1, <2>2, QuietTypes DEF ArInv
<1>8. QED
  BY <1>4, <1>5, <1>6, <1>7

LEMMA ResetKeeps ==
  ASSUME ArInv, (\E stage \in Converters : StartReset(stage)) \/ ResetRow \/ EndReset
  PROVE  ArInv'
<1>1. UNCHANGED <<convert, runs, cut, sweep>> /\ refs' \subseteq refs
  BY DEF StartReset, ResetRow, EndReset
<1>2. AllOwned'
  BY <1>1, QuietOwned DEF ArInv
<1>3. Source' = Source
  BY <1>1 DEF Source
<1>4. /\ disk' \subseteq disk
      /\ row' \in [Paths -> {"none", "active", "inactive"}]
      /\ \A f \in Paths : row'[f] = "inactive" => row[f] = "inactive"
  <2>1. CASE ResetRow
    <3>1. PICK o : disk' = disk \ {o} /\ row' = [row EXCEPT ![o] = "none"]
      BY <2>1 DEF ResetRow
    <3>2. QED
      BY <3>1 DEF ArInv, ArtefactTypes
  <2>2. CASE (\E stage \in Converters : StartReset(stage)) \/ EndReset
    BY <2>2 DEF StartReset, EndReset, ArInv, ArtefactTypes
  <2>3. QED
    BY <2>1, <2>2
<1>5. ArtefactTypes'
  BY <1>1, <1>3, <1>4 DEF ArInv, ArtefactTypes
<1>6. OutIsGone'
  BY <1>1, <1>4 DEF ArInv, OutIsGone, Paths
<1>7. QED
  BY <1>2, <1>5, <1>6 DEF ArInv

\* The daemon dies: what its conversion held is now a crash's.
LEMMA CrashKeeps ==
  ASSUME ArInv, CrashConvert
  PROVE  ArInv'
<1>1. convert' = Nothing /\ sweep' = Nothing /\ UNCHANGED <<row, refs, runs>>
  BY DEF CrashConvert
<1>2. ArtefactTypes'
  BY <1>1 DEF ArInv, ArtefactTypes, OptionOf
<1>3. \A r \in refs : r.run \in cut'
  <2>1. cut' = IF convert = Nothing THEN cut ELSE cut \cup {convert.run}
    BY DEF CrashConvert
  <2>2. QED
    BY <2>1 DEF ArInv, AllOwned, Owned, Ref
<1>4. AllOwned'
  BY <1>1, <1>3 DEF AllOwned, Owned
<1>5. CASE At("encoding")
  <2>1. disk' \in {disk, disk \cup {Output}, disk \ {Output}}
    BY <1>5 DEF CrashConvert
  <2>2. convert \in Conversions /\ Source \in Sources
    BY <1>5 DEF ArInv, ArtefactTypes, OptionOf, At
  <2>3. Output \in Outputs
    BY <2>2, InHand
  <2>4. OutIsGone'
    BY <1>1, <2>1, <2>3, EncodedIsNoSource DEF ArInv
  <2>5. QED
    BY <1>2, <1>4, <2>4 DEF ArInv
<1>6. CASE ~At("encoding")
  <2>1. UNCHANGED disk
    BY <1>6 DEF CrashConvert
  <2>2. OutIsGone'
    BY <1>1, <2>1 DEF ArInv, OutIsGone
  <2>3. QED
    BY <1>2, <1>4, <2>2 DEF ArInv
<1>7. QED
  BY <1>5, <1>6

LEMMA StutterKeeps == ASSUME ArInv, UNCHANGED arVars PROVE ArInv'
<1>1. UNCHANGED <<row, disk, refs, convert, sweep, cut, runs>>
  BY DEF arVars
<1>2. QED
  BY <1>1, QuietTypes, QuietOwned, QuietOut DEF ArInv

LEMMA ArInvStep ==
  ASSUME ArInv, [ArStep]_arVars
  PROVE  ArInv'
<1>1. CASE ConvertStep
  BY <1>1, StartKeeps, FinishKeeps, ProcessKeeps, EncodeKeeps, ReleaseKeeps,
     ReleaseFailsKeeps, RegisterKeeps DEF ConvertStep
<1>2. CASE StartSweep \/ SweepRow \/ EndSweep
  BY <1>2, SweepKeeps
<1>3. CASE (\E stage \in Converters : StartReset(stage)) \/ ResetRow \/ EndReset
  BY <1>3, ResetKeeps
<1>4. CASE CrashConvert \/ UNCHANGED arVars
  BY <1>4, CrashKeeps, StutterKeeps
<1>5. QED
  BY <1>1, <1>2, <1>3, <1>4 DEF ArStep


(* Whatever conversions, sweeps, resets and crashes meet: a row is only taken *)
(* out of use when its file is gone, and a reference that nobody will give    *)
(* back is one that a crash or a failed release left.                         *)
THEOREM SweptWhenGone == ArSpec => []SweepsSettle
  BY ArInvInit, ArInvStep, SettledByInv, PTL DEF ArSpec

-----------------------------------------------------------------------------
(* --- Types of Artefacts -------------------------------------------------- *)

\* What is on disk is of the book, and runs and sweeps are counted.
ArCounted ==
  /\ disk \subseteq Paths /\ audio \in [Outputs -> OptionOf(Sources)]
  /\ cut \subseteq 0 .. MaxRuns /\ runs \in 0 .. MaxRuns /\ sweeps \in 0 .. MaxSweeps
  /\ convert # Nothing => convert.run \in 0 .. MaxRuns

LEMMA ConvertCounts ==
  ASSUME ArInv, ArCounted, ConvertStep
  PROVE  ArCounted'
<1>1. CASE \E stage \in Converters : StartConvert(stage)
  BY <1>1, ArtefactsAssumption DEF StartConvert, ArCounted
<1>2. CASE FinishConvert
  BY <1>2 DEF FinishConvert, ArCounted
<1>3. ASSUME convert # Nothing
      PROVE  convert \in Conversions
  BY <1>3 DEF ArInv, ArtefactTypes, OptionOf
<1>4. CASE ProcessSource
  <2>1. convert'.run = convert.run
    BY <1>3, <1>4 DEF ProcessSource, At, Conversions
  <2>2. QED
    BY <1>4, <2>1 DEF ProcessSource, At, ArCounted
<1>5. CASE Release
  <2>1. convert'.run = convert.run
    BY <1>3, <1>5 DEF Release, At, Conversions
  <2>2. QED
    BY <1>5, <2>1 DEF Release, At, ArCounted
<1>6. CASE ReleaseFails
  <2>1. convert.run \in 0 .. MaxRuns
    BY <1>6 DEF ReleaseFails, At, ArCounted
  <2>2. QED
    BY <1>6, <2>1 DEF ReleaseFails, ArCounted
<1>7. CASE Register
  <2>1. convert' = Nothing \/ convert'.run = convert.run
    BY <1>3, <1>7 DEF Register, At, Conversions
  <2>2. QED
    BY <1>7, <2>1 DEF Register, At, ArCounted
<1>8. CASE Encode
  <2>1. convert \in Conversions /\ Source \in Sources /\ UNCHANGED <<cut, runs, sweeps>>
    BY <1>3, <1>8 DEF Encode, At, ArInv, ArtefactTypes
  <2>2. Output \in Outputs /\ Output \in Paths
    BY <2>1, InHand DEF Paths
  <2>3. convert'.run = convert.run
    BY <1>8, <2>1 DEF Encode, Conversions
  <2>4. disk' \subseteq Paths /\ audio' \in [Outputs -> OptionOf(Sources)]
    BY <1>8, <2>1, <2>2 DEF Encode, ArCounted, OptionOf
  <2>5. QED
    BY <1>8, <2>1, <2>3, <2>4 DEF ArCounted, Encode, At
<1>9. QED
  BY <1>1, <1>2, <1>4, <1>5, <1>7, <1>8, <1>6 DEF ConvertStep

LEMMA AroundCounts ==
  ASSUME ArInv, ArCounted,
         StartSweep \/ SweepRow \/ EndSweep \/ (\E stage \in Converters : StartReset(stage))
           \/ ResetRow \/ EndReset \/ UNCHANGED arVars
  PROVE  ArCounted'
<1>1. CASE StartSweep \/ (\E stage \in Converters : StartReset(stage))
  BY <1>1, ArtefactsAssumption DEF StartSweep, StartReset, ArCounted
<1>2. CASE SweepRow
  BY <1>2 DEF SweepRow, ArCounted
<1>3. CASE EndSweep \/ EndReset \/ UNCHANGED arVars
  BY <1>3 DEF EndSweep, EndReset, arVars, ArCounted
<1>4. CASE ResetRow
  BY <1>4 DEF ResetRow, ArCounted, OptionOf
<1>5. QED
  BY <1>1, <1>2, <1>3, <1>4

LEMMA CrashCounts ==
  ASSUME ArInv, ArCounted, CrashConvert
  PROVE  ArCounted'
<1>1. cut' \subseteq 0 .. MaxRuns /\ convert' = Nothing /\ UNCHANGED <<runs, sweeps>>
  BY DEF CrashConvert, ArCounted
<1>2. CASE At("encoding")
  <2>1. convert \in Conversions /\ Source \in Sources
    BY <1>2 DEF At, ArInv, ArtefactTypes, OptionOf
  <2>2. Output \in Outputs /\ Output \in Paths
    BY <2>1, InHand DEF Paths
  <2>3. QED
    BY <1>1, <1>2, <2>2 DEF CrashConvert, ArCounted, OptionOf
<1>3. CASE ~At("encoding")
  BY <1>1, <1>3 DEF CrashConvert, ArCounted
<1>4. QED
  BY <1>2, <1>3

LEMMA ArCountedInit == ArInit => ArCounted
  BY ArtefactsAssumption DEF ArInit, ArCounted, Paths, OptionOf

LEMMA ArCountedStep == ASSUME ArInv, ArCounted, [ArStep]_arVars PROVE ArCounted'
  BY ConvertCounts, AroundCounts, CrashCounts DEF ArStep

LEMMA ArTypesOfInv == ArInv /\ ArCounted => ArTypeOK
  BY DEF ArInv, ArCounted, ArtefactTypes, References, ArTypeOK

(* Rows and files stay those of the book, an m4b holds the recording of one  *)
(* of its sources, and what is cut was a run.                                *)
THEOREM ArtefactTypesHold == ArSpec => []ArTypeOK
<1>1. QED
  BY ArInvInit, ArInvStep, ArCountedInit, ArCountedStep, ArTypesOfInv, PTL DEF ArSpec

-----------------------------------------------------------------------------
(* --- TagWrites ----------------------------------------------------------- *)

\* Rows are numbered in the order in which they were written, one clock for all.
Numbered ==
  /\ IsFiniteSet(logged) /\ history \subseteq logged /\ now \in Nat
  /\ \A e \in logged : e.id \in Nat /\ e.id < Cardinality(logged) /\ e.at \in Nat /\ e.at <= now
InOrder ==
  \A e, x \in logged : (e.id = x.id => e = x) /\ (e.id < x.id => e.at <= x.at)

TgInv == Numbered /\ InOrder /\ HistoryUnbroken

LEMMA TgInvInit == TgInit => TgInv
<1> SUFFICES ASSUME TgInit PROVE TgInv
  OBVIOUS
<1>1. IsFiniteSet(logged)
  BY FS_EmptySet DEF TgInit
<1>2. QED
  BY <1>1 DEF TgInit, TgInv, Numbered, InOrder, HistoryUnbroken, Unbroken, SameKey

\* Days pass, and whatever leaves the history alone.
LEMMA HistoryAlone ==
  ASSUME TgInv, UNCHANGED <<history, logged>>, now' \in Nat, now' >= now
  PROVE  TgInv'
<1>1. Numbered'
  BY DEF TgInv, Numbered
<1>2. InOrder' /\ HistoryUnbroken'
  BY DEF TgInv, InOrder, HistoryUnbroken, Unbroken, SameKey
<1>3. QED
  BY <1>1, <1>2 DEF TgInv

\* A new row is the newest of all.
LEMMA RowIsAdded ==
  ASSUME TgInv, NEW edit, edit.id = Cardinality(logged), edit.at = now,
         history' = history \cup {edit}, logged' = logged \cup {edit}, now' = now
  PROVE  TgInv'
<1>1. \A e \in logged : e.id # edit.id /\ e.id < edit.id /\ e.at <= edit.at /\ e.id \in Nat
  BY FS_CardinalityType DEF TgInv, Numbered
<1>2. edit \notin logged
  BY <1>1
<1>3. IsFiniteSet(logged') /\ Cardinality(logged') = Cardinality(logged) + 1
  BY <1>2, FS_AddElement DEF TgInv, Numbered
<1>4. edit.id \in Nat
  BY FS_CardinalityType DEF TgInv, Numbered
<1>5. Numbered'
  BY <1>1, <1>3, <1>4 DEF TgInv, Numbered
<1>6. InOrder'
  BY <1>1, <1>4 DEF TgInv, Numbered, InOrder
<1>7. HistoryUnbroken'
  <2>1. SUFFICES ASSUME WindowsInOrder, NEW e \in logged' \ history', NEW x \in history', x.file = e.file, x.field = e.field
                 PROVE  x.id > e.id
    BY DEF HistoryUnbroken, Unbroken, SameKey
  <2>2. e \in logged \ history
    BY <2>1
  <2>3. CASE x \in history
    BY <2>1, <2>2, <2>3 DEF TgInv, HistoryUnbroken, Unbroken, SameKey
  <2>4. CASE x = edit
    BY <2>2, <2>4, <1>1, <1>4
  <2>5. QED
    BY <2>1, <2>3, <2>4
<1>8. QED
  BY <1>5, <1>6, <1>7 DEF TgInv

\* A row that is not the newest of its key has a number above one.
LEMMA OlderIsNumbered ==
  ASSUME TgInv, NEW x \in history, NEW e \in history,
         e.file = x.file, e.field = x.field, NewerThan(e, x)
  PROVE  RowNumber(x) # 1
<1> DEFINE Newer == {y \in SameKey(x) : NewerThan(y, x)}
<1>1. IsFiniteSet(Newer)
  BY FS_Subset DEF TgInv, Numbered, SameKey
<1>2. e \in Newer
  BY DEF SameKey
<1>3. Cardinality(Newer) \in Nat /\ Cardinality(Newer) # 0
  BY <1>1, <1>2, FS_CardinalityType, FS_EmptySet
<1>4. QED
  BY <1>3 DEF RowNumber

\* Retention takes the rows of a key from the oldest on.
LEMMA RetentionKeeps ==
  ASSUME TgInv, NEW force \in BOOLEAN, DeleteEligible(force)
  PROVE  TgInv'
<1>1. UNCHANGED <<logged, now>> /\ history' \subseteq history
  BY DEF DeleteEligible
<1>2. Numbered' /\ InOrder'
  BY <1>1 DEF TgInv, Numbered, InOrder
<1>3. HistoryUnbroken'
  <2>1. SUFFICES ASSUME WindowsInOrder, NEW e \in logged, e \notin history', NEW x \in history', x.file = e.file, x.field = e.field
                 PROVE  x.id > e.id
    BY <1>1 DEF HistoryUnbroken, Unbroken, SameKey
  <2>2. CASE e \notin history
    BY <2>1, <2>2, <1>1 DEF TgInv, HistoryUnbroken, Unbroken, SameKey
  <2>3. CASE e \in history
    <3>1. /\ e.id \in Nat /\ x.id \in Nat /\ e.at \in Nat /\ x.at \in Nat /\ now \in Nat
          /\ x \in history /\ x \in logged
      BY <2>1, <1>1 DEF TgInv, Numbered
    <3>2. SUFFICES ASSUME x.id <= e.id PROVE FALSE
      BY <3>1
    <3>3. x.id < e.id /\ x.at <= e.at
      BY <2>1, <3>1, <3>2 DEF TgInv, InOrder
    <3>4. RowNumber(x) # 1
      BY <2>1, <2>3, <3>1, <3>3, OlderIsNumbered DEF NewerThan
    <3>5. ~force
      BY <2>1 DEF DeleteEligible
    <3>6. x.at >= now - IntermediateDays
      BY <2>1, <3>4, <3>5 DEF DeleteEligible, Cutoff
    <3>7. ~(e.at >= now - LatestDays) \/ ~(e.at >= now - IntermediateDays)
      BY <2>1, <2>3, <3>5 DEF DeleteEligible, Cutoff
    <3>8. QED
      BY <2>1, <3>1, <3>3, <3>6, <3>7, TagWritesAssumption DEF WindowsInOrder
  <2>4. QED
    BY <2>2, <2>3
<1>4. QED
  BY <1>2, <1>3 DEF TgInv

LEMMA TgInvStep ==
  ASSUME TgInv, [TgStep]_tgVars
  PROVE  TgInv'
<1>1. now \in Nat
  BY DEF TgInv, Numbered
<1>2. CASE Decide \/ Join \/ Midnight
  BY <1>1, <1>2, HistoryAlone DEF Decide, Join, Midnight
<1>3. CASE (\E stage \in TagStages : StartTagWrite(stage)) \/ LoadPrimaryCollection
  <2>1. UNCHANGED <<history, logged, now>>
    BY <1>3, Zenon DEF StartTagWrite, LoadPrimaryCollection
  <2>2. QED
    BY <1>1, <2>1, HistoryAlone
<1>4. CASE WriteOneFile \/ EndTagWrite
  BY <1>1, <1>4, HistoryAlone DEF WriteOneFile, EndTagWrite
<1>5. CASE RecordAuditRow
  <2>1. CASE UNCHANGED <<history, logged>>
    BY <1>1, <1>5, <2>1, HistoryAlone DEF RecordAuditRow
  <2>2. CASE \E c \in writing.changes :
               LET edit == [id |-> Cardinality(logged), file |-> writing.file, field |-> c.field,
                            before |-> c.before, after |-> c.after, at |-> now]
               IN  history' = history \cup {edit} /\ logged' = logged \cup {edit}
    BY <1>5, <2>2, RowIsAdded DEF RecordAuditRow
  <2>3. QED
    BY <1>5, <2>1, <2>2 DEF RecordAuditRow
<1>6. CASE \E force \in BOOLEAN : DeleteEligible(force)
  BY <1>6, RetentionKeeps
<1>7. CASE UNCHANGED tgVars
  BY <1>1, <1>7, HistoryAlone DEF tgVars
<1>8. QED
  BY <1>2, <1>3, <1>4, <1>5, <1>6, <1>7 DEF TgStep

(* The history of a field of a file has no hole, whatever the two windows of *)
(* retention, the newest row's being the longer one: however often it runs,  *)
(* and with whatever rows in one second.  Rows are numbered as the clock     *)
(* goes, and the newest stays the longest.                                   *)
THEOREM HistoryStaysWhole == TgSpec => []HistoryUnbroken
<1>1. TgInv => HistoryUnbroken
  BY DEF TgInv
<1>2. QED
  BY TgInvInit, TgInvStep, <1>1, PTL DEF TgSpec

-----------------------------------------------------------------------------
(* --- Types of TagWrites -------------------------------------------------- *)

Said == TagValues \cup CollectionNames
Edits == [field : Places, before : OptionOf(Said), after : Said]
Winners == UNION {[D -> Said] : D \in SUBSET Places}
TagRuns == [winners : Winners, todo : Seq(ToSet(TagFiles)), file : OptionOf(ToSet(TagFiles)), changes : SUBSET Edits]

\* A stage writes what was decided, or a collection's name, into the book's files.
TgTyped ==
  /\ decided \in [TagFields -> OptionOf([source : TagSources, value : TagValues])]
  /\ tag \in [ToSet(TagFiles) -> [Places -> OptionOf(Said)]]
  /\ joined \in Seq(CollectionNames) /\ writing \in OptionOf(TagRuns)
  /\ Cardinality(logged) <= MaxEdits /\ now \in 0 .. MaxNow /\ writes \in 0 .. MaxWrites

LEMMA SequenceMembers ==
  ASSUME NEW T, NEW q \in Seq(T)
  PROVE  /\ ToSet(q) \subseteq T
         /\ q # <<>> => Head(q) \in T /\ Tail(q) \in Seq(T)
  BY DEF ToSet

LEMMA SurroundingsTyped ==
  ASSUME TgTyped, Decide \/ Join \/ Midnight \/ (\E force \in BOOLEAN : DeleteEligible(force))
  PROVE  TgTyped'
<1>1. CASE Decide
  <2>1. PICK d \in TagFields, s \in TagSources, v \in TagValues : decided' = [decided EXCEPT ![d] = [source |-> s, value |-> v]]
    BY <1>1 DEF Decide
  <2>2. [source |-> s, value |-> v] \in [source : TagSources, value : TagValues]
    BY <2>1
  <2>3. decided' \in [TagFields -> OptionOf([source : TagSources, value : TagValues])]
    BY <2>1, <2>2 DEF TgTyped, OptionOf
  <2>4. QED
    BY <1>1, <2>3 DEF Decide, TgTyped
<1>2. CASE Join
  <2>1. joined' \in Seq(CollectionNames)
    BY <1>2 DEF Join, TgTyped
  <2>2. QED
    BY <1>2, <2>1 DEF Join, TgTyped
<1>3. CASE Midnight
  <2>1. now' \in 0 .. MaxNow
    BY <1>3, TagWritesAssumption DEF Midnight, TgTyped
  <2>2. QED
    BY <1>3, <2>1 DEF Midnight, TgTyped
<1>4. CASE \E force \in BOOLEAN : DeleteEligible(force)
  <2>1. UNCHANGED <<decided, tag, joined, logged, writing, now, writes>>
    BY <1>4 DEF DeleteEligible
  <2>2. QED
    BY <2>1 DEF TgTyped
<1>5. QED
  BY <1>1, <1>2, <1>3, <1>4

LEMMA BeginsTyped ==
  ASSUME TgTyped, NEW w \in Winners,
         Begins([winners |-> w, todo |-> TagFiles, file |-> Nothing, changes |-> {}]),
         UNCHANGED <<decided, tag, joined, history, logged, now>>
  PROVE  TgTyped'
<1>1. PICK r : r = [winners |-> w, todo |-> TagFiles, file |-> Nothing, changes |-> {}]
  OBVIOUS
<1>2. r \in TagRuns
  <2>1. Nothing \in OptionOf(ToSet(TagFiles)) /\ {} \in SUBSET Edits /\ TagFiles \in Seq(ToSet(TagFiles))
    BY TagWritesAssumption DEF OptionOf
  <2>2. QED
    BY <1>1, <2>1 DEF TagRuns
<1>3. writing' = r /\ writes < MaxWrites /\ writes' = writes + 1
  BY <1>1 DEF Begins
<1>4. writing' \in OptionOf(TagRuns)
  BY <1>2, <1>3 DEF OptionOf
<1>5. writes' \in 0 .. MaxWrites
  BY <1>3, TagWritesAssumption DEF TgTyped
<1>6. QED
  BY <1>4, <1>5 DEF TgTyped

LEMMA StartTyped ==
  ASSUME TgTyped, (\E stage \in TagStages : StartTagWrite(stage)) \/ LoadPrimaryCollection
  PROVE  TgTyped'
<1>1. ASSUME NEW stage \in TagStages, StartTagWrite(stage)
      PROVE  TgTyped'
  <2>1. PICK D : D = WinnersFor(stage)
    OBVIOUS
  <2>2. PICK w : w = [d \in D |-> decided[d].value]
    OBVIOUS
  <2>3. D \in SUBSET Places /\ \A d \in D : decided[d].value \in Said
    BY <2>1 DEF WinnersFor, Places, TgTyped, OptionOf, Said
  <2>4. w \in [D -> Said]
    BY <2>2, <2>3
  <2>5. w \in Winners
    BY <2>3, <2>4 DEF Winners
  <2>6. Begins([winners |-> w, todo |-> TagFiles, file |-> Nothing, changes |-> {}])
    BY <1>1, <2>1, <2>2 DEF StartTagWrite
  <2>7. UNCHANGED <<decided, tag, joined, history, logged, now>>
    BY <1>1 DEF StartTagWrite
  <2>8. QED
    BY <2>5, <2>6, <2>7, BeginsTyped
<1>2. CASE LoadPrimaryCollection
  <2>1. PICK w : w = [d \in {"collection"} |-> Head(joined)]
    OBVIOUS
  <2>2. Head(joined) \in Said
    BY <1>2, SequenceMembers DEF LoadPrimaryCollection, TgTyped, Said
  <2>3. w \in [{"collection"} -> Said] /\ {"collection"} \in SUBSET Places
    BY <2>1, <2>2 DEF Places
  <2>4. w \in Winners
    BY <2>3 DEF Winners
  <2>5. Begins([winners |-> w, todo |-> TagFiles, file |-> Nothing, changes |-> {}])
    BY <1>2, <2>1 DEF LoadPrimaryCollection
  <2>6. UNCHANGED <<decided, tag, joined, history, logged, now>>
    BY <1>2 DEF LoadPrimaryCollection
  <2>7. QED
    BY <2>4, <2>5, <2>6, BeginsTyped
<1>3. QED
  BY <1>1, <1>2

\* The fields of a stage under way.
LEMMA RunType ==
  ASSUME TgTyped, writing # Nothing
  PROVE  /\ writing \in TagRuns /\ writing.winners \in Winners /\ writing.todo \in Seq(ToSet(TagFiles))
         /\ writing.changes \subseteq Edits
         /\ \A d \in DOMAIN writing.winners : d \in Places /\ writing.winners[d] \in Said
<1>1. writing \in TagRuns
  BY DEF TgTyped, OptionOf
<1>2. writing.winners \in Winners /\ writing.todo \in Seq(ToSet(TagFiles)) /\ writing.changes \subseteq Edits
  BY <1>1 DEF TagRuns
<1>3. \A d \in DOMAIN writing.winners : d \in Places /\ writing.winners[d] \in Said
  BY <1>2 DEF Winners
<1>4. QED
  BY <1>1, <1>2, <1>3

LEMMA SaveTyped ==
  ASSUME TgTyped, writing # Nothing, NEW f \in ToSet(TagFiles), NEW ds \in SUBSET DOMAIN writing.winners, Save(f, ds)
  PROVE  tag' \in [ToSet(TagFiles) -> [Places -> OptionOf(Said)]]
<1>1. PICK w : w = writing.winners
  OBVIOUS
<1>2. \A d \in ds : w[d] \in OptionOf(Said)
  BY <1>1, RunType DEF OptionOf
<1>3. tag \in [ToSet(TagFiles) -> [Places -> OptionOf(Said)]]
  BY DEF TgTyped
<1>4. tag' = [tag EXCEPT ![f] = [d \in Places |-> IF d \in ds THEN w[d] ELSE tag[f][d]]]
  BY <1>1 DEF Save
<1>5. [d \in Places |-> IF d \in ds THEN w[d] ELSE tag[f][d]] \in [Places -> OptionOf(Said)]
  BY <1>2, <1>3
<1>6. QED
  BY <1>3, <1>4, <1>5

LEMMA ChangesTyped ==
  ASSUME TgTyped, writing # Nothing, NEW f \in ToSet(TagFiles), NEW ds \in SUBSET DOMAIN writing.winners
  PROVE  Changes(f, ds) \subseteq Edits
<1>1. PICK w : w = writing.winners
  OBVIOUS
<1>2. \A d \in ds : d \in Places /\ w[d] \in Said
  BY <1>1, RunType
<1>3. \A d \in Places : tag[f][d] \in OptionOf(Said)
  BY DEF TgTyped
<1>4. Changes(f, ds) = {[field |-> d, before |-> tag[f][d], after |-> w[d]] : d \in ds}
  BY <1>1 DEF Changes
<1>5. QED
  BY <1>2, <1>3, <1>4 DEF Edits

LEMMA FileTyped ==
  ASSUME TgTyped, WriteOneFile
  PROVE  TgTyped'
<1>1. writing # Nothing /\ writing.todo # <<>> /\ WriteWinners(Head(writing.todo))
  BY DEF WriteOneFile
<1>2. PICK f : f = Head(writing.todo)
  OBVIOUS
<1>3. PICK rest : rest = Tail(writing.todo)
  OBVIOUS
<1>4. f \in ToSet(TagFiles) /\ rest \in Seq(ToSet(TagFiles))
  BY <1>1, <1>2, <1>3, RunType, SequenceMembers
<1>5. PICK todo : todo = ApplyWinner(f, writing.winners)
  OBVIOUS
<1>6. todo \in SUBSET DOMAIN writing.winners /\ todo \cap {"abridged"} \in SUBSET DOMAIN writing.winners
  BY <1>5 DEF ApplyWinner
<1>7. PICK C : C = {c \in Changes(f, todo) : c.field # "collection"}
  OBVIOUS
<1>8. C \in SUBSET Edits
  BY <1>1, <1>4, <1>6, <1>7, ChangesTyped
<1>9. \/ Save(f, todo) /\ writing' = [writing EXCEPT !.todo = rest, !.file = f, !.changes = C]
      \/ Save(f, todo \cap {"abridged"}) /\ writing' = [writing EXCEPT !.todo = rest]
      \/ UNCHANGED tag /\ writing' = [writing EXCEPT !.todo = rest]
  BY <1>1, <1>2, <1>3, <1>5, <1>7 DEF WriteWinners
<1>10. tag' \in [ToSet(TagFiles) -> [Places -> OptionOf(Said)]]
  BY <1>1, <1>4, <1>6, <1>9, SaveTyped DEF TgTyped
<1>11. writing' \in TagRuns
  <2>1. PICK r : r = writing
    OBVIOUS
  <2>2. r \in TagRuns
    BY <1>1, <2>1, RunType
  <2>3. writing' = [r EXCEPT !.todo = rest, !.file = f, !.changes = C] \/ writing' = [r EXCEPT !.todo = rest]
    BY <1>9, <2>1
  <2>4. [r EXCEPT !.todo = rest] \in TagRuns
    BY <1>4, <2>2 DEF TagRuns
  <2>5. [r EXCEPT !.todo = rest, !.file = f, !.changes = C] \in TagRuns
    BY <1>4, <1>8, <2>2 DEF TagRuns, OptionOf
  <2>6. QED
    BY <2>3, <2>4, <2>5
<1>12. writing' \in OptionOf(TagRuns)
  BY <1>11 DEF OptionOf
<1>13. QED
  BY <1>10, <1>12 DEF WriteOneFile, TgTyped

LEMMA RowTyped ==
  ASSUME TgInv, TgTyped, RecordAuditRow
  PROVE  TgTyped'
<1>1. writing \in TagRuns /\ writing.changes \subseteq Edits
  BY RunType DEF RecordAuditRow
<1>2. UNCHANGED <<decided, tag, joined, now, writes>>
  BY DEF RecordAuditRow
<1>3. Cardinality(logged') <= MaxEdits /\ \E C \in SUBSET Edits : writing' = [writing EXCEPT !.changes = C]
  <2>1. CASE writing.changes # {} /\ writing' = [writing EXCEPT !.changes = {}] /\ UNCHANGED <<history, logged>>
    BY <2>1 DEF TgTyped
  <2>2. ASSUME NEW edit, NEW c \in writing.changes, Cardinality(logged) < MaxEdits,
               logged' = logged \cup {edit}, writing' = [writing EXCEPT !.changes = @ \ {c}]
        PROVE  Cardinality(logged') <= MaxEdits /\ \E C \in SUBSET Edits : writing' = [writing EXCEPT !.changes = C]
    <3>1. IsFiniteSet(logged) /\ Cardinality(logged) \in Nat
      BY FS_CardinalityType DEF TgInv, Numbered
    <3>2. Cardinality(logged') \in Nat /\ Cardinality(logged') <= Cardinality(logged) + 1
      BY <2>2, <3>1, FS_AddElement
    <3>3. Cardinality(logged') <= MaxEdits
      BY <2>2, <3>1, <3>2, TagWritesAssumption
    <3>4. writing.changes \ {c} \in SUBSET Edits /\ writing' = [writing EXCEPT !.changes = writing.changes \ {c}]
      BY <1>1, <2>2
    <3>5. QED
      BY <3>3, <3>4
  <2>3. QED
    BY <2>1, <2>2 DEF RecordAuditRow
<1>4. writing' \in OptionOf(TagRuns)
  BY <1>1, <1>3 DEF TagRuns, OptionOf
<1>5. QED
  BY <1>2, <1>3, <1>4 DEF TgTyped

LEMMA TgTypedInit == TgInit => TgTyped
<1> SUFFICES ASSUME TgInit PROVE TgTyped
  OBVIOUS
<1>1. Cardinality(logged) = 0 /\ joined \in Seq(CollectionNames)
  BY FS_EmptySet DEF TgInit
<1>2. QED
  BY <1>1, TagWritesAssumption DEF TgInit, TgTyped, OptionOf

LEMMA TgTypedStep ==
  ASSUME TgInv, TgTyped, [TgStep]_tgVars
  PROVE  TgTyped'
<1>1. CASE EndTagWrite
  BY <1>1 DEF EndTagWrite, TgTyped, OptionOf
<1>2. CASE UNCHANGED tgVars
  BY <1>2 DEF tgVars, TgTyped
<1>3. QED
  BY <1>1, <1>2, SurroundingsTyped, StartTyped, FileTyped, RowTyped DEF TgStep

LEMMA TgTypesOfInv == TgInv /\ TgTyped => TgTypeOK
<1> SUFFICES ASSUME TgInv, TgTyped PROVE TgTypeOK
  OBVIOUS
<1>1. ToSet(joined) \subseteq CollectionNames
  BY SequenceMembers DEF TgTyped
<1>2. \A d \in TagFields : decided[d] = Nothing \/ decided[d].source \in TagSources
  BY DEF TgTyped, OptionOf
<1>3. QED
  BY <1>1, <1>2 DEF TgInv, Numbered, TgTyped, TgTypeOK, Said

(* A file says what was decided of its book or the name of a collection, the  *)
(* history holds only rows that were written, and both stay within bounds.    *)
THEOREM TagTypesHold == TgSpec => []TgTypeOK
<1>1. QED
  BY TgInvInit, TgInvStep, TgTypedInit, TgTypedStep, TgTypesOfInv, PTL DEF TgSpec

-----------------------------------------------------------------------------
(* --- Transcripts --------------------------------------------------------- *)
(* Proofs about Transcripts, for any number of files of any lengths and any  *)
(* positions of samples.                                                     *)

\* A time of the book lies in a file.
LEMMA FileAt ==
  ASSUME NEW fs \in Seq(Nat), NEW t \in Nat, InBook(fs, t)
  PROVE  LET i == MapPosition(fs, t) IN i \in DOMAIN fs /\ Offset(fs, i) <= t /\ t < Offset(fs, i) + fs[i]
<1>1. PICK T : T = {n \in 0 .. Len(fs) : t < RunningSum(fs)[n]}
  OBVIOUS
<1>2. T \subseteq Nat /\ T # {}
  BY <1>1 DEF InBook, SumSeq
<1>3. PICK n \in T : \A m \in T : n <= m
  BY <1>2, LeastNatural
<1>4. n \in 1 .. Len(fs)
  BY <1>1, <1>3, StartsFollow
<1>5. n - 1 \notin T /\ n - 1 \in 0 .. Len(fs)
  BY <1>3, <1>4
<1>6. RunningSum(fs)[n - 1] <= t
  <2>1. RunningSum(fs)[n - 1] \in Nat
    BY <1>5, StartsFollow
  <2>2. ~(t < RunningSum(fs)[n - 1])
    BY <1>1, <1>5
  <2>3. QED
    BY <2>1, <2>2
<1>7. Offset(fs, n) <= t /\ t < Offset(fs, n) + fs[n]
  BY <1>1, <1>3, <1>4, <1>6, StartsFollow DEF Offset
<1>8. QED
  BY <1>4, <1>7 DEF MapPosition

-----------------------------------------------------------------------------
(* The windows                                                               *)

Pieces == [file : Nat, from : Nat, to : Nat]
InFile(fs, w) == w \in Pieces /\ w.file \in DOMAIN fs /\ w.from < w.to /\ w.to <= fs[w.file]

LEMMA PushedInFile ==
  ASSUME NEW fs \in Seq(Nat), NEW t \in Nat, NEW out \in Seq(Pieces),
         \A n \in 1 .. Len(out) : InFile(fs, out[n])
  PROVE  /\ PushWindow(fs, t, out) \in Seq(Pieces)
         /\ \A n \in 1 .. Len(PushWindow(fs, t, out)) : InFile(fs, PushWindow(fs, t, out)[n])
<1>1. PICK w : w = WindowAt(fs, t)
  OBVIOUS
<1>2. CASE ~(InBook(fs, t) /\ w.to > w.from + 1)
  BY <1>1, <1>2 DEF PushWindow
<1>3. CASE InBook(fs, t) /\ w.to > w.from + 1
  <2>1. PICK i : i = MapPosition(fs, t)
    OBVIOUS
  <2>2. i \in DOMAIN fs /\ Offset(fs, i) <= t /\ t < Offset(fs, i) + fs[i]
    BY <1>3, <2>1, FileAt
  <2>3. Offset(fs, i) \in Nat /\ fs[i] \in Nat /\ i \in Nat
    BY <2>2, StartsFollow DEF Offset
  <2>4. /\ w = [file |-> i, from |-> t - Offset(fs, i), to |-> w.to]
        /\ w.to \in Nat /\ w.to <= fs[i]
    BY <1>1, <2>1, <2>2, <2>3, TranscriptsAssumption DEF WindowAt
  <2>5. InFile(fs, w)
    BY <1>3, <2>2, <2>3, <2>4 DEF InFile, Pieces
  <2>6. PushWindow(fs, t, out) = Append(out, w)
    BY <1>1, <1>3 DEF PushWindow
  <2>7. QED
    BY <2>5, <2>6 DEF InFile
<1>4. QED
  BY <1>2, <1>3

Pushed(fs, last, out) ==
  out = [n \in 0 .. last |-> IF n = 0 THEN <<>> ELSE PushWindow(fs, Target(fs, Positions[n]), out[n - 1])]

LEMMA PushedExists ==
  ASSUME NEW fs, NEW last \in Nat
  PROVE  \E out : Pushed(fs, last, out)
<1>1. PICK S : S = {n \in 0 .. last : \E out : Pushed(fs, n, out)}
  OBVIOUS
<1>2. 0 \in S
  <2>1. PICK out : out = [n \in 0 .. 0 |-> <<>>]
    OBVIOUS
  <2>2. Pushed(fs, 0, out)
    BY <2>1 DEF Pushed
  <2>3. QED
    BY <1>1, <2>2
<1>3. ASSUME NEW m \in 1 .. last, m - 1 \in S
      PROVE  m \in S
  <2>1. PICK out : Pushed(fs, m - 1, out)
    BY <1>1, <1>3
  <2>2. PICK next : next = [n \in 0 .. m |-> IF n = m THEN PushWindow(fs, Target(fs, Positions[m]), out[m - 1]) ELSE out[n]]
    OBVIOUS
  <2>3. \A n \in 0 .. m - 1 : next[n] = out[n]
    BY <2>2
  <2>4. \A n \in 0 .. m - 1 : out[n] = IF n = 0 THEN <<>> ELSE PushWindow(fs, Target(fs, Positions[n]), out[n - 1])
    BY <2>1 DEF Pushed
  <2>5. ASSUME NEW n \in 0 .. m
        PROVE  next[n] = IF n = 0 THEN <<>> ELSE PushWindow(fs, Target(fs, Positions[n]), next[n - 1])
    <3>1. CASE n = 0
      BY <2>3, <2>4, <3>1
    <3>2. CASE n = m
      BY <2>2, <2>3, <3>2
    <3>3. CASE n # 0 /\ n # m
      <4>1. n \in 0 .. m - 1 /\ n - 1 \in 0 .. m - 1
        BY <3>3
      <4>2. QED
        BY <2>3, <2>4, <3>3, <4>1
    <3>4. QED
      BY <3>1, <3>2, <3>3
  <2>6. next = [n \in 0 .. m |-> next[n]]
    BY <2>2
  <2>7. Pushed(fs, m, next)
    BY <2>5, <2>6 DEF Pushed
  <2>8. QED
    BY <1>1, <2>7
<1>4. last \in S
  BY <1>2, <1>3, SetInduction
<1>5. QED
  BY <1>1, <1>4

LEMMA WindowsInFiles ==
  ASSUME NEW fs \in Seq(Nat)
  PROVE  BuildWindows(fs) \in Seq(Pieces) /\ \A n \in 1 .. Len(BuildWindows(fs)) : InFile(fs, BuildWindows(fs)[n])
<1>1. PICK N : N = Len(Positions)
  OBVIOUS
<1>2. N \in Nat
  BY <1>1, TranscriptsAssumption
<1>3. PICK out : out = CHOOSE f : Pushed(fs, N, f)
  OBVIOUS
<1>4. Pushed(fs, N, out)
  BY <1>2, <1>3, PushedExists
<1>5. BuildWindows(fs) = out[N]
  BY <1>1, <1>3 DEF BuildWindows, Pushed
<1>6. out[0] = <<>> /\ \A n \in 1 .. N : out[n] = PushWindow(fs, Target(fs, Positions[n]), out[n - 1])
  <2>1. \A n \in 0 .. N : out[n] = IF n = 0 THEN <<>> ELSE PushWindow(fs, Target(fs, Positions[n]), out[n - 1])
    BY <1>4, Zenon DEF Pushed
  <2>2. QED
    BY <1>2, <2>1
<1>7. PICK S : S = {n \in 0 .. N : out[n] \in Seq(Pieces) /\ \A m \in 1 .. Len(out[n]) : InFile(fs, out[n][m])}
  OBVIOUS
<1>8. 0 \in S
  <2>1. out[0] \in Seq(Pieces) /\ Len(out[0]) = 0
    BY <1>6
  <2>2. QED
    BY <1>2, <1>7, <2>1
<1>9. ASSUME NEW n \in 1 .. N, n - 1 \in S
      PROVE  n \in S
  <2>1. Target(fs, Positions[n]) \in Nat
    <3>1. PICK p, s : p = Positions[n] /\ s = SumSeq(fs)
      OBVIOUS
    <3>2. p \in Nat /\ s \in Nat
      BY <1>1, <1>9, <3>1, TranscriptsAssumption, StartsFollow DEF SumSeq
    <3>3. p * s \in Nat
      BY <3>2
    <3>4. QED
      BY <3>1, <3>3 DEF Target
  <2>2. QED
    BY <1>6, <1>7, <1>9, <2>1, PushedInFile
<1>10. N \in S
  BY <1>2, <1>8, <1>9, SetInduction
<1>11. QED
  BY <1>5, <1>7, <1>10

LEMMA WindowsTyped ==
  ASSUME NEW fs \in Seq(Nat), NEW k
  PROVE  WindowsOf(k, fs) \in Seq(Pieces)
<1>1. WholeFiles(fs) \in Seq(Pieces)
  <2>1. DOMAIN fs = 1 .. Len(fs) /\ Len(fs) \in Nat /\ \A i \in 1 .. Len(fs) : fs[i] \in Nat
    OBVIOUS
  <2>2. PICK n : n = Len(fs)
    OBVIOUS
  <2>3. WholeFiles(fs) \in [1 .. n -> Pieces] /\ n \in Nat
    BY <2>1, <2>2 DEF WholeFiles, Pieces
  <2>4. QED
    BY <2>3
<1>2. QED
  BY <1>1, WindowsInFiles DEF WindowsOf

-----------------------------------------------------------------------------
(* What is under way, and what is written                                    *)

\* A run has heard its first windows, in their order and at their places.
HeardSoFar(a) ==
  LET W == WindowsOf(a.take, a.files)
  IN  /\ a.take \in Takes
      /\ a = [book |-> a.book, take |-> a.take, locale |-> a.locale, files |-> a.files,
              windows |-> a.windows, said |-> a.said, at |-> a.at]
      /\ a.said \subseteq 1 .. Len(a.windows)
      /\ a.files \in Seq(Nat) /\ a.windows \in Seq(Pieces) /\ W # <<>> /\ Len(a.windows) <= Len(W)
      /\ \A n \in 1 .. Len(a.windows) : a.windows[n] = RebaseSegments(W[n], a.files)
RowWhole(k, t) ==
  /\ Spoken(t)
  /\ IF k = "full" THEN FullWhole(t) ELSE \A s \in ToSet(t.windows) : InOneFile(t, s)
TrInv ==
  /\ reel \in [Books -> Reels] /\ \A a \in hearing : HeardSoFar(a)
  /\ DOMAIN heard = Books /\ \A b \in Books : DOMAIN heard[b] = Takes
  /\ \A b \in Books, k \in Takes : heard[b][k] # Nothing => RowWhole(k, heard[b][k])

\* What is left of a sequence after some of it.
LEMMA RestOf ==
  ASSUME NEW W \in Seq(Pieces), NEW n \in Nat, n <= Len(W)
  PROVE  /\ SubSeq(W, n + 1, Len(W)) = <<>> => n = Len(W)
         /\ SubSeq(W, n + 1, Len(W)) # <<>> => n < Len(W) /\ Head(SubSeq(W, n + 1, Len(W))) = W[n + 1]
<1>1. Len(W) \in Nat
  OBVIOUS
<1>2. ASSUME n < Len(W)
      PROVE  SubSeq(W, n + 1, Len(W)) # <<>> /\ Head(SubSeq(W, n + 1, Len(W))) = W[n + 1]
  <2>1. n + 1 \in 1 .. Len(W) /\ Len(W) \in n + 1 .. Len(W)
    BY <1>1, <1>2
  <2>2. Head(SubSeq(W, n + 1, Len(W))) = W[n + 1]
    BY <2>1, HeadTailOfSubSeq
  <2>3. PICK rest : rest = SubSeq(W, n + 1, Len(W))
    OBVIOUS
  <2>4. Len(rest) # 0
    BY <1>1, <1>2, <2>3
  <2>5. rest # <<>>
    BY <2>4
  <2>6. QED
    BY <2>2, <2>3, <2>5, Zenon
<1>3. n = Len(W) => SubSeq(W, n + 1, Len(W)) = <<>>
  BY <1>1, SubSeqEmpty
<1>4. n = Len(W) \/ n < Len(W)
  BY <1>1
<1>5. QED
  BY <1>2, <1>3, <1>4, Zenon

\* A run that has heard all its windows writes a whole row.
LEMMA HeardIsWhole ==
  ASSUME NEW a, HeardSoFar(a), WindowsLeft(a) = <<>>, a.said # {}, NEW t,
         t.files = a.files, t.windows = a.windows, t.said = a.said
  PROVE  RowWhole(a.take, t)
<1>1. PICK fs, W, windows : fs = a.files /\ W = WindowsOf(a.take, fs) /\ windows = a.windows
  OBVIOUS
<1>2. /\ fs \in Seq(Nat) /\ W \in Seq(Pieces) /\ W # <<>> /\ windows \in Seq(Pieces) /\ Len(windows) <= Len(W)
      /\ \A n \in 1 .. Len(windows) : windows[n] = RebaseSegments(W[n], fs)
  BY <1>1, WindowsTyped DEF HeardSoFar
<1>3. Len(windows) = Len(W)
  <2>1. SubSeq(W, Len(windows) + 1, Len(W)) = <<>>
    BY <1>1 DEF WindowsLeft
  <2>2. Len(windows) \in Nat
    BY <1>2
  <2>3. QED
    BY <1>2, <2>1, <2>2, RestOf
<1>4. Spoken(t)
  BY <1>1, <1>2 DEF HeardSoFar, Spoken
<1>5. CASE a.take = "full"
  <2>1. W = WholeFiles(fs)
    BY <1>1, <1>5 DEF WindowsOf
  <2>2. DOMAIN W = DOMAIN fs /\ Len(W) = Len(fs) /\ \A n \in DOMAIN fs : W[n] = [file |-> n, from |-> 0, to |-> fs[n]]
    BY <1>2, <2>1 DEF WholeFiles
  <2>3. Len(fs) \in Nat \ {0} /\ Len(windows) = Len(fs)
    BY <1>2, <1>3, <2>2
  <2>4. \A n \in 1 .. Len(fs) : /\ windows[n].from = RunningSum(fs)[n - 1] /\ windows[n].to = RunningSum(fs)[n]
    <3>1. SUFFICES ASSUME NEW n \in 1 .. Len(fs)
                   PROVE  windows[n].from = RunningSum(fs)[n - 1] /\ windows[n].to = RunningSum(fs)[n]
      OBVIOUS
    <3>2. windows[n] = RebaseSegments([file |-> n, from |-> 0, to |-> fs[n]], fs)
      BY <1>2, <1>3, <2>2
    <3>3. fs[n] \in Nat /\ RunningSum(fs)[n - 1] \in Nat /\ RunningSum(fs)[n] = RunningSum(fs)[n - 1] + fs[n]
      <4>1. fs[n] \in Nat /\ n - 1 \in 0 .. Len(fs)
        BY <1>2
      <4>2. QED
        BY <1>2, <4>1, StartsFollow
    <3>4. QED
      BY <3>2, <3>3 DEF RebaseSegments, Offset
  <2>5. /\ windows # <<>> /\ windows[1].from = 0 /\ windows[Len(windows)].to = SumSeq(fs)
        /\ \A n \in 1 .. Len(windows) - 1 : windows[n + 1].from = windows[n].to
    <3>1. windows[1].from = 0
      BY <1>2, <2>3, <2>4, StartsFollow
    <3>2. windows[Len(windows)].to = SumSeq(fs)
      BY <2>3, <2>4 DEF SumSeq
    <3>3. \A n \in 1 .. Len(windows) - 1 : windows[n + 1].from = windows[n].to
      BY <2>3, <2>4
    <3>4. QED
      BY <2>3, <3>1, <3>2, <3>3
  <2>6. QED
    BY <1>1, <1>4, <1>5, <2>5 DEF RowWhole, FullWhole
<1>6. CASE a.take # "full"
  <2>1. W = BuildWindows(fs)
    BY <1>1, <1>6 DEF WindowsOf
  <2>2. ASSUME NEW n \in 1 .. Len(windows)
        PROVE  InOneFile(t, windows[n])
    <3>1. InFile(fs, W[n]) /\ windows[n] = RebaseSegments(W[n], fs)
      BY <1>2, <1>3, <2>1, <2>2, WindowsInFiles
    <3>2. Offset(fs, W[n].file) \in Nat /\ fs[W[n].file] \in Nat
      BY <1>2, <3>1, StartsFollow DEF InFile, Offset
    <3>3. QED
      BY <1>1, <3>1, <3>2 DEF InOneFile, InFile, Pieces, RebaseSegments
  <2>3. QED
    BY <1>1, <1>2, <1>4, <1>6, <2>2 DEF RowWhole, ToSet
<1>7. QED
  BY <1>5, <1>6

\* A window more.
LEMMA HeardOneMore ==
  ASSUME NEW a, HeardSoFar(a), WindowsLeft(a) # <<>>,
         NEW said \in {a.said, a.said \cup {Len(a.windows) + 1}}
  PROVE  HeardSoFar([a EXCEPT !.windows = Append(@, RebaseSegments(Head(WindowsLeft(a)), a.files)), !.said = said])
<1>1. PICK fs, W, windows : fs = a.files /\ W = WindowsOf(a.take, fs) /\ windows = a.windows
  OBVIOUS
<1>2. /\ fs \in Seq(Nat) /\ W \in Seq(Pieces) /\ W # <<>> /\ windows \in Seq(Pieces) /\ Len(windows) <= Len(W)
      /\ \A n \in 1 .. Len(windows) : windows[n] = RebaseSegments(W[n], fs)
  BY <1>1, WindowsTyped DEF HeardSoFar
<1>3. SubSeq(W, Len(windows) + 1, Len(W)) = WindowsLeft(a)
  BY <1>1 DEF WindowsLeft
<1>4. Len(windows) < Len(W) /\ Head(WindowsLeft(a)) = W[Len(windows) + 1]
  <2>1. Len(windows) \in Nat /\ Len(W) \in Nat
    BY <1>2
  <2>2. QED
    BY <1>2, <1>3, <2>1, RestOf
<1>5. PICK s : s = RebaseSegments(W[Len(windows) + 1], fs)
  OBVIOUS
<1>6. s \in Pieces
  <2>1. PICK w : w = W[Len(windows) + 1]
    OBVIOUS
  <2>2. w \in Pieces
    BY <1>2, <1>4, <2>1
  <2>3. Offset(fs, w.file) \in Nat
    <3>1. w.file \in DOMAIN fs
      <4>1. CASE a.take = "full"
        <5>1. W = WholeFiles(fs)
          BY <1>1, <4>1 DEF WindowsOf
        <5>2. Len(windows) + 1 \in DOMAIN W
          BY <1>2, <1>4
        <5>3. Len(windows) + 1 \in DOMAIN fs /\ w.file = Len(windows) + 1
          BY <2>1, <5>1, <5>2 DEF WholeFiles
        <5>4. QED
          BY <5>3
      <4>2. CASE a.take # "full"
        <5>1. W = BuildWindows(fs)
          BY <1>1, <4>2 DEF WindowsOf
        <5>2. Len(windows) + 1 \in 1 .. Len(W)
          BY <1>2, <1>4
        <5>3. InFile(fs, w)
          BY <1>2, <2>1, <5>1, <5>2, WindowsInFiles
        <5>4. QED
          BY <5>3 DEF InFile
      <4>3. QED
        BY <4>1, <4>2
    <3>2. QED
      BY <1>2, <3>1, StartsFollow DEF Offset
  <2>4. QED
    BY <1>5, <2>1, <2>2, <2>3 DEF RebaseSegments, Pieces
<1>7. PICK r : r = [a EXCEPT !.windows = Append(@, s), !.said = said]
  OBVIOUS
<1>8. /\ r = [book |-> r.book, take |-> r.take, locale |-> r.locale, files |-> r.files, windows |-> r.windows,
            said |-> r.said, at |-> r.at]
      /\ r.take = a.take /\ r.files = fs /\ r.windows = Append(windows, s) /\ r.said = said
  BY <1>1, <1>7 DEF HeardSoFar
<1>9. HeardSoFar(r)
  <2>1. r.windows \in Seq(Pieces) /\ Len(r.windows) = Len(windows) + 1
    BY <1>2, <1>6, <1>8
  <2>2. \A n \in 1 .. Len(windows) + 1 : r.windows[n] = RebaseSegments(W[n], fs)
    BY <1>2, <1>5, <1>6, <1>8
  <2>3. WindowsOf(r.take, r.files) = W
    BY <1>1, <1>8
  <2>4. r.said \subseteq 1 .. Len(r.windows)
    <3>1. Len(windows) \in Nat /\ a.said \subseteq 1 .. Len(windows)
      BY <1>1, <1>2 DEF HeardSoFar
    <3>2. said \subseteq 1 .. Len(windows) + 1
      BY <1>1, <3>1
    <3>3. QED
      BY <1>8, <2>1, <3>2
  <2>5. r.take \in Takes /\ r.files \in Seq(Nat)
    BY <1>2, <1>8 DEF HeardSoFar
  <2>6. Len(r.windows) <= Len(W) /\ \A n \in 1 .. Len(r.windows) : r.windows[n] = RebaseSegments(W[n], r.files)
    <3>1. Len(windows) \in Nat /\ Len(W) \in Nat
      BY <1>2
    <3>2. QED
      BY <1>4, <1>8, <2>1, <2>2, <3>1
  <2>7. r = [book |-> r.book, take |-> r.take, locale |-> r.locale, files |-> r.files, windows |-> r.windows,
              said |-> r.said, at |-> r.at]
    BY <1>8
  <2>8. QED
    BY <1>2, <2>1, <2>3, <2>4, <2>5, <2>6, <2>7 DEF HeardSoFar
<1>10. QED
  BY <1>1, <1>4, <1>5, <1>7, <1>9

LEMMA RowWritten ==
  ASSUME TrInv, NEW a \in hearing, WindowsLeft(a) = <<>>, a.said # {}, heard' = [heard EXCEPT ![a.book][a.take] = RowOf(a)]
  PROVE  /\ DOMAIN heard' = Books /\ \A b \in Books : DOMAIN heard'[b] = Takes
         /\ \A b \in Books, k \in Takes : heard'[b][k] # Nothing => RowWhole(k, heard'[b][k])
<1>1. RowOf(a).files = a.files /\ RowOf(a).windows = a.windows /\ RowOf(a).said = a.said
  BY DEF RowOf
<1>2. RowWhole(a.take, RowOf(a))
  BY <1>1, HeardIsWhole DEF TrInv
<1>3. QED
  BY <1>2 DEF TrInv

LEMMA ListenKeeps ==
  ASSUME TrInv, NEW a \in hearing, Listen(a)
  PROVE  TrInv'
<1>1. reel' = reel /\ HeardSoFar(a)
  BY DEF Listen, TrInv
<1>2. CASE HearWindow(a)
  <2>1. PICK said \in {a.said, a.said \cup {Len(a.windows) + 1}} :
          Becomes(a, [a EXCEPT !.windows = Append(@, RebaseSegments(Head(WindowsLeft(a)), a.files)), !.said = said])
    BY <1>2 DEF HearWindow
  <2>2. HeardSoFar([a EXCEPT !.windows = Append(@, RebaseSegments(Head(WindowsLeft(a)), a.files)), !.said = said])
    BY <1>1, <1>2, HeardOneMore DEF HearWindow
  <2>3. heard' = heard
    BY <1>2 DEF HearWindow
  <2>4. QED
    BY <1>1, <2>1, <2>2, <2>3 DEF Becomes, TrInv
<1>3. CASE Written(a)
  <2>1. CASE a.take = "full"
    <3>1. heard' = [heard EXCEPT ![a.book][a.take] = RowOf(a)] /\ hearing' \subseteq hearing /\ WindowsLeft(a) = <<>> /\ a.said # {}
      BY <1>3, <2>1 DEF Written, WriteFullCache, Ends
    <3>2. QED
      BY <1>1, <3>1, RowWritten DEF TrInv
  <2>2. CASE a.take # "full"
    <3>1. a.take = "samples"
      BY <1>1, <2>2 DEF HeardSoFar, Takes
    <3>2. heard' = [heard EXCEPT ![a.book][a.take] = RowOf(a)] /\ WindowsLeft(a) = <<>> /\ a.said # {}
      BY <1>3, <2>2, <3>1 DEF Written, WriteSamplesCache
    <3>3. PICK r : r = [a EXCEPT !.at = "detecting"]
      OBVIOUS
    <3>4. HeardSoFar(r)
      BY <1>1, <3>3 DEF HeardSoFar
    <3>5. hearing' = (hearing \ {a}) \cup {r}
      BY <1>3, <2>2, <3>3 DEF Written, WriteSamplesCache, Becomes
    <3>6. QED
      BY <1>1, <3>2, <3>4, <3>5, RowWritten DEF TrInv
  <2>3. QED
    BY <2>1, <2>2
<1>4. CASE DetectLanguage(a) \/ GivesUp(a)
  BY <1>1, <1>4 DEF DetectLanguage, GivesUp, Ends, TrInv
<1>5. QED
  BY <1>2, <1>3, <1>4 DEF Listen

LEMMA TrInvInit == TrInit => TrInv
  BY DEF TrInit, TrInv, Takes

LEMMA TrInvStep ==
  ASSUME TrInv, [\E b \in Books : HearStep(b) \/ ReadStep(b)]_trVars
  PROVE  TrInv'
<1>1. ASSUME NEW b \in Books, NEW k \in Takes, Plan(b, k)
      PROVE  TrInv'
  <2>1. PICK a : a = [book |-> b, take |-> k, locale |-> head[b], files |-> reel[b], windows |-> <<>>,
                        said |-> {}, at |-> "listening"]
    OBVIOUS
  <2>2. a.files \in Seq(Nat) /\ WindowsOf(a.take, a.files) # <<>> /\ a.windows = <<>> /\ a.said = {}
    BY <1>1, <2>1, TranscriptsAssumption DEF TrInv, Plan
  <2>3. HeardSoFar(a)
    <3>1. Len(WindowsOf(a.take, a.files)) \in Nat
      BY <2>2, WindowsTyped
    <3>2. <<>> \in Seq(Pieces) /\ Len(<<>>) = 0
      OBVIOUS
    <3>3. QED
      BY <2>1, <2>2, <3>1, <3>2 DEF HeardSoFar
  <2>4. hearing' = hearing \cup {a} /\ UNCHANGED <<reel, heard>>
    BY <1>1, <2>1 DEF Plan
  <2>5. QED
    BY <2>3, <2>4 DEF TrInv
<1>2. ASSUME NEW b \in Books, PlanSamples(b) \/ PlanFull(b)
      PROVE  TrInv'
  BY <1>1, <1>2 DEF PlanSamples, PlanFull, Takes
<1>3. ASSUME NEW a \in hearing, Listen(a)
      PROVE  TrInv'
  BY <1>3, ListenKeeps
<1>4. ASSUME NEW b \in Books, HearHead(b) \/ ReplaceFiles(b) \/ RestartHearing \/ ReadStep(b)
      PROVE  TrInv'
  BY <1>4 DEF HearHead, ReplaceFiles, RestartHearing, ReadStep, RunExtractors, DetectDescriptionLang,
     ExtractNameDict, TrInv
<1>5. CASE UNCHANGED trVars
  BY <1>5 DEF trVars, TrInv
<1>6. QED
  BY <1>2, <1>3, <1>4, <1>5 DEF HearStep

(* Every transcript of the cache comes of listening to its files from end to  *)
(* end, in order and without a gap, and says something; and every sample lies *)
(* in one file of the book: however many files there are, however long they   *)
(* are and wherever the samples are taken, whatever windows are silent, while *)
(* files are exchanged and runs overlap or die.                               *)
THEOREM TranscriptsStayWhole == TrSpec => []TranscriptsWhole
<1>1. TrInv => TranscriptsWhole
  BY DEF TrInv, TranscriptsWhole, RowWhole, Takes
<1>2. QED
  BY TrInvInit, TrInvStep, <1>1, PTL DEF TrSpec

-----------------------------------------------------------------------------
(* --- Types of Transcripts ------------------------------------------------ *)

\* What is read and heard of a book is of its languages, and runs are counted.
TrTyped ==
  /\ head \in [Books -> OptionOf(Locales)] /\ spoken \in [Books -> OptionOf(Locales)]
  /\ descLang \in [Books -> OptionOf(Locales)] /\ found \in [Books -> SUBSET Phrases]
  /\ paired \in [Books -> OptionOf(Epubs)] /\ dict \in [Books -> OptionOf(Epubs)]
  /\ stamp \in 1 .. MaxStamp /\ hearings \in 0 .. MaxHearings
  /\ \A a \in hearing : a.at \in {"listening", "detecting"} /\ a.locale \in Locales

LEMMA PlanTyped ==
  ASSUME TrTyped, NEW b \in Books, NEW k \in Takes, Plan(b, k)
  PROVE  TrTyped'
<1>1. PICK a : a = [book |-> b, take |-> k, locale |-> head[b], files |-> reel[b], windows |-> <<>>,
                        said |-> {}, at |-> "listening"]
  OBVIOUS
<1>2. a.at = "listening" /\ a.locale \in Locales
  BY <1>1 DEF Plan, TrTyped, OptionOf
<1>3. hearing' = hearing \cup {a} /\ UNCHANGED <<head, spoken, found, descLang, paired, dict, stamp>>
  BY <1>1 DEF Plan
<1>4. hearings' \in 0 .. MaxHearings
  BY TranscriptsAssumption DEF Plan, TrTyped
<1>5. QED
  BY <1>2, <1>3, <1>4 DEF TrTyped

LEMMA ListenTyped ==
  ASSUME TrInv, TrTyped, NEW a \in hearing, Listen(a)
  PROVE  TrTyped'
<1>1. UNCHANGED <<head, found, descLang, paired, dict, stamp, hearings>>
  BY DEF Listen
<1>2. /\ a = [book |-> a.book, take |-> a.take, locale |-> a.locale, files |-> a.files,
              windows |-> a.windows, said |-> a.said, at |-> a.at]
      /\ a.at \in {"listening", "detecting"} /\ a.locale \in Locales
  BY DEF TrInv, HeardSoFar, TrTyped
<1>3. ASSUME NEW r, r.at \in {"listening", "detecting"}, r.locale = a.locale, Becomes(a, r), UNCHANGED spoken
      PROVE  TrTyped'
  BY <1>1, <1>2, <1>3 DEF Becomes, TrTyped
<1>4. ASSUME Ends(a), UNCHANGED spoken
      PROVE  TrTyped'
  BY <1>1, <1>4 DEF Ends, TrTyped
<1>5. CASE HearWindow(a)
  <2>1. PICK said : Becomes(a, [a EXCEPT !.windows = Append(@, RebaseSegments(Head(WindowsLeft(a)), a.files)), !.said = said])
    BY <1>5 DEF HearWindow
  <2>2. PICK r : r = [a EXCEPT !.windows = Append(@, RebaseSegments(Head(WindowsLeft(a)), a.files)), !.said = said]
    OBVIOUS
  <2>3. r.at = a.at /\ r.locale = a.locale
    BY <1>2, <2>2
  <2>4. Becomes(a, r) /\ UNCHANGED spoken
    BY <1>5, <2>1, <2>2 DEF HearWindow
  <2>5. QED
    BY <1>2, <1>3, <2>3, <2>4
<1>6. CASE Written(a)
  <2>1. CASE a.take = "full"
    BY <1>4, <1>6, <2>1 DEF Written, WriteFullCache
  <2>2. CASE a.take # "full"
    <3>1. PICK r : r = [a EXCEPT !.at = "detecting"]
      OBVIOUS
    <3>2. r.at = "detecting" /\ r.locale = a.locale
      BY <1>2, <3>1
    <3>3. Becomes(a, r) /\ UNCHANGED spoken
      BY <1>6, <2>2, <3>1 DEF Written, WriteSamplesCache
    <3>4. QED
      BY <1>3, <3>2, <3>3
  <2>3. QED
    BY <2>1, <2>2
<1>7. CASE DetectLanguage(a)
  <2>1. hearing' \subseteq hearing
    BY <1>7 DEF DetectLanguage, Ends
  <2>2. spoken' \in [Books -> OptionOf(Locales)]
    BY <1>2, <1>7 DEF DetectLanguage, TrTyped, OptionOf
  <2>3. QED
    BY <1>1, <2>1, <2>2 DEF TrTyped
<1>8. CASE GivesUp(a)
  BY <1>4, <1>8 DEF GivesUp
<1>9. QED
  BY <1>5, <1>6, <1>7, <1>8 DEF Listen

LEMMA AroundTyped ==
  ASSUME TrTyped, NEW b \in Books,
         HearHead(b) \/ ReplaceFiles(b) \/ RestartHearing \/ RunExtractors(b) \/ DetectDescriptionLang(b) \/ ExtractNameDict(b)
  PROVE  TrTyped'
<1>1. CASE HearHead(b)
  BY <1>1 DEF HearHead, TrTyped, OptionOf
<1>2. CASE ReplaceFiles(b)
  BY <1>2 DEF ReplaceFiles, TrTyped
<1>3. CASE RestartHearing
  <2>1. stamp' \in 1 .. MaxStamp
    BY <1>3, TranscriptsAssumption DEF RestartHearing, TrTyped
  <2>2. hearing' = {} /\ UNCHANGED <<head, spoken, found, descLang, paired, dict, hearings>>
    BY <1>3 DEF RestartHearing
  <2>3. QED
    BY <2>1, <2>2 DEF TrTyped
<1>4. CASE RunExtractors(b)
  <2>1. PICK fs \in SUBSET Phrases : found' = [found EXCEPT ![b] = found[b] \cup fs]
    BY <1>4 DEF RunExtractors
  <2>2. found' \in [Books -> SUBSET Phrases]
    BY <2>1 DEF TrTyped
  <2>3. UNCHANGED <<head, spoken, descLang, paired, dict, hearing, stamp, hearings>>
    BY <1>4 DEF RunExtractors
  <2>4. QED
    BY <2>2, <2>3 DEF TrTyped
<1>5. CASE DetectDescriptionLang(b)
  BY <1>5 DEF DetectDescriptionLang, TrTyped, OptionOf
<1>6. CASE ExtractNameDict(b)
  BY <1>6 DEF ExtractNameDict, TrTyped, OptionOf
<1>7. QED
  BY <1>1, <1>2, <1>3, <1>4, <1>5, <1>6

LEMMA TrTypedInit == TrInit => TrTyped
  BY TranscriptsAssumption DEF TrInit, TrTyped, None, OptionOf

LEMMA TrTypedStep ==
  ASSUME TrInv, TrTyped, [\E b \in Books : HearStep(b) \/ ReadStep(b)]_trVars
  PROVE  TrTyped'
<1>1. ASSUME NEW b \in Books, PlanSamples(b) \/ PlanFull(b)
      PROVE  TrTyped'
  BY <1>1, PlanTyped DEF PlanSamples, PlanFull, Takes
<1>2. CASE UNCHANGED trVars
  BY <1>2 DEF trVars, TrTyped
<1>3. QED
  BY <1>1, <1>2, ListenTyped, AroundTyped DEF HearStep, ReadStep

LEMMA TrTypesOfInv == TrInv /\ TrTyped => TrTypeOK
  BY DEF TrInv, HeardSoFar, TrTyped, TrTypeOK

(* The languages, phrases and companions of a book are from their lists, a    *)
(* stage under way is of one of the two takes, and runs stay within bounds.   *)
THEOREM TranscriptTypesHold == TrSpec => []TrTypeOK
<1>1. QED
  BY TrInvInit, TrInvStep, TrTypedInit, TrTypedStep, TrTypesOfInv, PTL DEF TrSpec

-----------------------------------------------------------------------------
(* --- Types of Audiologo -------------------------------------------------- *)

Methods == {"fingerprint", "faint", "transcript", "manual", "approval"}
LogoRows ==
  [id : Nat, kind : JingleKinds, file : DOMAIN FileLengths, from : Nat, to : Nat, method : Methods,
   status : {"candidate", "applied", "rejected", "re_detected"}]
Looking == [at : {"intro", "outro", "head", "tail", "status", "load"}, hit : BOOLEAN]
Cutting == [at : {"apply", "strip"}, hit : BOOLEAN, found : SUBSET LogoRows]
Asks == [op : {"approve", "reject"}, row : LogoRows, at : {"read", "cut"}, number : Nat]
Lists == [ChapterLists -> Seq(Int \X Int)]

RowsTyped == rows \subseteq LogoRows /\ IsFiniteSet(rows)
BookTyped == chapters \in Lists /\ duration \in Int /\ status \in Statuses
AskedTyped ==
  /\ matches \in 0 .. Confirmations /\ verified \in BOOLEAN /\ pending \in BOOLEAN
  /\ detect \in OptionOf(Looking \cup Cutting) /\ asks \subseteq Asks
  /\ resets \in 0 .. MaxResets /\ requests \in 0 .. MaxAsks
AuTyped == RowsTyped /\ BookTyped /\ AskedTyped

-----------------------------------------------------------------------------
LEMMA RowIsThere ==
  ASSUME NEW S, NEW id \in Ids(S)
  PROVE  RowAt(S, id) \in S
  BY DEF Ids, RowAt

LEMMA CutIsInt ==
  ASSUME NEW r \in LogoRows
  PROVE  CutMs(r) \in Nat /\ r.to - r.from \in Int
<1>1. r.from \in Nat /\ r.to \in Nat /\ Paddings[r.kind] \in Nat
  BY AudiologoAssumption DEF LogoRows
<1>2. QED
  BY <1>1 DEF CutMs, Positive

LEMMA SumsOfCuts ==
  ASSUME NEW S, S \subseteq LogoRows
  PROVE  SumOver(S, CutMs) \in Int /\ SumOver(S, LAMBDA r : r.to - r.from) \in Int
<1>1. MaxRows \in Nat
  BY AudiologoAssumption
<1>2. PICK f : f = [n \in 1 .. MaxRows |-> IF n - 1 \in Ids(S) THEN CutMs(RowAt(S, n - 1)) ELSE 0]
  OBVIOUS
<1>3. PICK g : g = [n \in 1 .. MaxRows |-> IF n - 1 \in Ids(S) THEN RowAt(S, n - 1).to - RowAt(S, n - 1).from ELSE 0]
  OBVIOUS
<1>4. \A n \in 1 .. MaxRows : f[n] \in Int /\ g[n] \in Int
  <2> SUFFICES ASSUME NEW n \in 1 .. MaxRows
               PROVE  f[n] \in Int /\ g[n] \in Int
    OBVIOUS
  <2>1. CASE n - 1 \in Ids(S)
    <3>1. PICK r : r = RowAt(S, n - 1)
      OBVIOUS
    <3>2. r \in LogoRows
      BY <2>1, <3>1, RowIsThere
    <3>3. f[n] = CutMs(r) /\ g[n] = r.to - r.from
      BY <1>2, <1>3, <2>1, <3>1
    <3>4. QED
      BY <3>2, <3>3, CutIsInt
  <2>2. CASE n - 1 \notin Ids(S)
    BY <1>2, <1>3, <2>2
  <2>3. QED
    BY <2>1, <2>2
<1>5. f \in Seq(Int) /\ g \in Seq(Int)
  BY <1>1, <1>2, <1>3, <1>4
<1>6. SumSeq(f) \in Int /\ SumSeq(g) \in Int
  BY <1>5, SumsAreInts
<1>7. SumOver(S, CutMs) = SumSeq(f)
  BY <1>2 DEF SumOver
<1>8. SumOver(S, LAMBDA r : r.to - r.from) = SumSeq(g)
  BY <1>3 DEF SumOver
<1>9. QED
  BY <1>6, <1>7, <1>8

LEMMA LengthsAreInts ==
  /\ Total \in Int
  /\ \A file \in DOMAIN FileLengths : FilesBefore(file) \in Int
<1>1. FileLengths \in Seq(Int)
  BY AudiologoAssumption
<1>2. \A n \in 0 .. Len(FileLengths) : RunningSum(FileLengths)[n] \in Int
  BY <1>1, SumsAreInts
<1>3. \A file \in DOMAIN FileLengths : file - 1 \in 0 .. Len(FileLengths)
  BY <1>1
<1>4. QED
  BY <1>1, <1>2, <1>3, SumsAreInts DEF Total, FilesBefore

-----------------------------------------------------------------------------
\* A chapter list stays one, whichever way its chapters are moved.
LEMMA MovedChapters ==
  ASSUME NEW list \in Seq(Int \X Int), NEW f, DOMAIN f = DOMAIN list, f = [n \in DOMAIN list |-> f[n]],
         \A n \in DOMAIN list : f[n] \in Int \X Int
  PROVE  f \in Seq(Int \X Int)
<1>1. PICK N \in Nat : N = Len(list)
  BY LenProperties
<1>2. DOMAIN list = 1 .. N
  BY <1>1, LenProperties
<1>3. f \in [1 .. N -> Int \X Int]
  BY <1>2
<1>4. QED
  BY <1>3

LEMMA ShiftedForOne ==
  ASSUME NEW list \in Seq(Int \X Int), NEW r \in LogoRows
  PROVE  ShiftChaptersForCut(list, r) \in Seq(Int \X Int)
<1>1. PICK f : f = ShiftChaptersForCut(list, r)
  OBVIOUS
<1>2. PICK ms \in Int : ms = CutMs(r)
  BY CutIsInt
<1>3. ASSUME NEW n \in DOMAIN list
      PROVE  f[n] \in Int \X Int
  <2>1. PICK c \in Int \X Int : c = list[n]
    BY <1>3
  <2>2. f[n] = Moved(c, ms) \/ f[n] = Shrunk(c, ms) \/ f[n] = c
    BY <1>1, <1>2, <2>1 DEF ShiftChaptersForCut
  <2>3. Moved(c, ms) \in Int \X Int /\ Shrunk(c, ms) \in Int \X Int
    BY DEF Moved, Shrunk
  <2>4. QED
    BY <2>2, <2>3
<1>4. DOMAIN f = DOMAIN list /\ f = [n \in DOMAIN list |-> f[n]]
  BY <1>1 DEF ShiftChaptersForCut
<1>5. QED
  BY <1>1, <1>3, <1>4, MovedChapters

\* What a list has become after each of the rows.
Shifting(list, cuts, last, done) ==
  done = [n \in 0 .. last |->
           IF n = 0 THEN list
           ELSE IF n - 1 \in Ids(cuts) THEN ShiftChaptersForCut(done[n - 1], RowAt(cuts, n - 1)) ELSE done[n - 1]]
NextList(list, cuts, n) ==
  IF n - 1 \in Ids(cuts) THEN ShiftChaptersForCut(list, RowAt(cuts, n - 1)) ELSE list

LEMMA ShiftingExists ==
  ASSUME NEW list, NEW cuts, NEW last \in Nat
  PROVE  \E done : Shifting(list, cuts, last, done)
<1>1. PICK S : S = {n \in 0 .. last : \E done : Shifting(list, cuts, n, done)}
  OBVIOUS
<1>2. 0 \in S
  <2>1. PICK done : done = [n \in 0 .. 0 |-> list]
    OBVIOUS
  <2>2. Shifting(list, cuts, 0, done)
    BY <2>1 DEF Shifting
  <2>3. QED
    BY <1>1, <2>2
<1>3. ASSUME NEW m \in 1 .. last, m - 1 \in S
      PROVE  m \in S
  <2>1. PICK done : Shifting(list, cuts, m - 1, done)
    BY <1>1, <1>3
  <2>2. PICK next : next = [n \in 0 .. m |-> IF n = m THEN NextList(done[m - 1], cuts, m) ELSE done[n]]
    OBVIOUS
  <2>3. \A n \in 0 .. m - 1 : next[n] = done[n]
    BY <2>2
  <2>4. \A n \in 0 .. m - 1 : done[n] = IF n = 0 THEN list ELSE NextList(done[n - 1], cuts, n)
    BY <2>1 DEF Shifting, NextList
  <2>5. ASSUME NEW n \in 0 .. m
        PROVE  next[n] = IF n = 0 THEN list ELSE NextList(next[n - 1], cuts, n)
    <3>1. CASE n = 0
      BY <2>3, <2>4, <3>1
    <3>2. CASE n = m
      <4>1. m # 0 /\ m - 1 \in 0 .. m - 1 /\ m \in 0 .. m
        BY <1>3
      <4>2. next[m] = NextList(done[m - 1], cuts, m) /\ next[m - 1] = done[m - 1]
        BY <2>2, <2>3, <4>1
      <4>3. QED
        BY <3>2, <4>1, <4>2
    <3>3. CASE n # 0 /\ n # m
      <4>1. n \in 0 .. m - 1 /\ n - 1 \in 0 .. m - 1
        BY <3>3
      <4>2. QED
        BY <2>3, <2>4, <3>3, <4>1
    <3>4. QED
      BY <3>1, <3>2, <3>3
  <2>6. next = [n \in 0 .. m |-> next[n]]
    BY <2>2
  <2>7. Shifting(list, cuts, m, next)
    BY <2>5, <2>6 DEF Shifting, NextList
  <2>8. QED
    BY <1>1, <2>7
<1>4. \A n \in 0 .. last : n \in S
  BY <1>2, <1>3, SetInduction
<1>5. QED
  BY <1>1, <1>4

LEMMA ShiftedForAll ==
  ASSUME NEW list \in Seq(Int \X Int), NEW cuts, cuts \subseteq LogoRows
  PROVE  ShiftedByAll(list, cuts) \in Seq(Int \X Int)
<1>1. MaxRows \in Nat
  BY AudiologoAssumption
<1>2. PICK done : done = CHOOSE f : Shifting(list, cuts, MaxRows, f)
  OBVIOUS
<1>3. Shifting(list, cuts, MaxRows, done)
  BY <1>1, <1>2, ShiftingExists
<1>4. ShiftedByAll(list, cuts) = done[MaxRows]
  BY <1>2 DEF ShiftedByAll, Shifting
<1>5. done[0] = list /\ \A n \in 1 .. MaxRows : done[n] = NextList(done[n - 1], cuts, n)
  <2>1. \A n \in 0 .. MaxRows : done[n] = IF n = 0 THEN list ELSE NextList(done[n - 1], cuts, n)
    BY <1>3, Zenon DEF Shifting, NextList
  <2>2. QED
    BY <1>1, <2>1
<1>6. PICK S : S = {n \in 0 .. MaxRows : done[n] \in Seq(Int \X Int)}
  OBVIOUS
<1>7. 0 \in S
  BY <1>1, <1>5, <1>6
<1>8. ASSUME NEW n \in 1 .. MaxRows, n - 1 \in S
      PROVE  n \in S
  <2>1. PICK before \in Seq(Int \X Int) : before = done[n - 1]
    BY <1>6, <1>8
  <2>2. NextList(before, cuts, n) \in Seq(Int \X Int)
    <3>1. CASE n - 1 \in Ids(cuts)
      <4>1. RowAt(cuts, n - 1) \in LogoRows
        BY <3>1, RowIsThere
      <4>2. QED
        BY <3>1, <4>1, ShiftedForOne DEF NextList
    <3>2. CASE n - 1 \notin Ids(cuts)
      BY <3>2 DEF NextList
    <3>3. QED
      BY <3>1, <3>2
  <2>3. done[n] \in Seq(Int \X Int)
    BY <1>5, <2>1, <2>2
  <2>4. QED
    BY <1>6, <2>3
<1>9. \A n \in 0 .. MaxRows : n \in S
  BY <1>1, <1>7, <1>8, SetInduction
<1>10. MaxRows \in 0 .. MaxRows
  BY <1>1
<1>11. QED
  BY <1>4, <1>6, <1>9, <1>10

LEMMA ShiftedByHand ==
  ASSUME NEW list \in Seq(Int \X Int), NEW start \in Int, NEW end \in Int, NEW ms \in Int
  PROVE  ShiftChapters(list, start, end, ms) \in Seq(Int \X Int)
<1>1. PICK f : f = ShiftChapters(list, start, end, ms)
  OBVIOUS
<1>2. ASSUME NEW n \in DOMAIN list
      PROVE  f[n] \in Int \X Int
  <2>1. PICK c \in Int \X Int : c = list[n]
    BY <1>2
  <2>6. Moved(c, ms) \in Int \X Int
    BY DEF Moved
  <2>2. PICK after \in Int \X Int : after = IF c[1] >= end THEN Moved(c, ms) ELSE c
    BY <2>6
  <2>3. f[n] = IF after[1] < end /\ after[2] > start THEN Shrunk(after, ms) ELSE after
    BY <1>1, <1>2, <2>1, <2>2 DEF ShiftChapters
  <2>4. Shrunk(after, ms) \in Int \X Int
    BY DEF Shrunk
  <2>5. QED
    BY <2>3, <2>4
<1>3. DOMAIN f = DOMAIN list /\ f = [n \in DOMAIN list |-> f[n]]
  BY <1>1 DEF ShiftChapters
<1>4. QED
  BY <1>1, <1>2, <1>3, MovedChapters

LEMMA ShiftedByBrand ==
  ASSUME chapters \in Lists, NEW ms \in Int
  PROVE  ShiftChaptersByOffset(ms) \in Lists
<1>1. ASSUME NEW s \in ChapterLists
      PROVE  ShiftChaptersByOffset(ms)[s] \in Seq(Int \X Int)
  <2>1. PICK list \in Seq(Int \X Int) : list = chapters[s]
    BY <1>1 DEF Lists
  <2>2. PICK f : f = [n \in DOMAIN list |-> <<Positive(list[n][1] - ms), Positive(list[n][2] - ms)>>]
    OBVIOUS
  <2>3. ASSUME NEW n \in DOMAIN list
        PROVE  f[n] \in Int \X Int
    <3>1. PICK c \in Int \X Int : c = list[n]
      BY <2>3
    <3>2. QED
      BY <2>2, <3>1 DEF Positive
  <2>4. f \in Seq(Int \X Int)
    BY <2>2, <2>3, MovedChapters
  <2>5. QED
    BY <1>1, <2>1, <2>2, <2>4 DEF ShiftChaptersByOffset
<1>2. QED
  BY <1>1 DEF ShiftChaptersByOffset, Lists

-----------------------------------------------------------------------------
\* One more row, and rows that change their status.
LEMMA OneRowMore ==
  ASSUME RowsTyped, NEW j, j.kind \in JingleKinds, j.from \in Nat, j.to \in Nat, NEW file \in DOMAIN FileLengths,
         NEW method \in Methods, NEW s \in {"candidate", "applied"}, rows' = rows \cup {NewRow(j, file, method, s)}
  PROVE  RowsTyped'
<1>1. Cardinality(rows) \in Nat
  BY FS_CardinalityType DEF RowsTyped
<1>2. NewRow(j, file, method, s) \in LogoRows
  BY <1>1 DEF NewRow, LogoRows
<1>3. QED
  BY <1>2, FS_AddElement DEF RowsTyped

LEMMA RowsRenamed ==
  ASSUME RowsTyped, NEW f, f \in [rows -> LogoRows], rows' = {f[r] : r \in rows}
  PROVE  RowsTyped'
<1>1. f \in Surjection(rows, rows')
  BY DEF Surjection
<1>2. IsFiniteSet(rows')
  BY <1>1, FS_Surjection DEF RowsTyped
<1>3. QED
  BY <1>2 DEF RowsTyped

LEMMA StatusChanged ==
  ASSUME NEW r \in LogoRows, NEW s \in {"candidate", "applied", "rejected", "re_detected"}
  PROVE  [r EXCEPT !.status = s] \in LogoRows
  BY DEF LogoRows

LEMMA FileOfKind == ASSUME NEW kind PROVE FileOf(kind) \in DOMAIN FileLengths
<1>1. FileLengths \in Seq(Nat) /\ FileLengths # <<>>
  BY AudiologoAssumption
<1>2. Len(FileLengths) \in Nat \ {0} /\ DOMAIN FileLengths = 1 .. Len(FileLengths)
  BY <1>1
<1>3. QED
  BY <1>2 DEF FileOf

-----------------------------------------------------------------------------
(* Detection *)

LEMMA FoundTyped ==
  ASSUME AuTyped, detect # Nothing
  PROVE  /\ detect.at \in {"intro", "outro", "head", "tail", "status", "load"} => detect \in Looking
         /\ detect.at \in {"apply", "strip"} => detect \in Cutting
         /\ detect.hit \in BOOLEAN
  BY DEF AuTyped, AskedTyped, OptionOf, Looking, Cutting

LEMMA CandidateTyped ==
  ASSUME AuTyped, NEW j \in Jingles, NEW method \in {"fingerprint", "faint", "transcript"}, NEW next,
         InsertCandidateRow(j, method, next), next \in {"outro", "head", "tail", "status"}
  PROVE  RowsTyped' /\ detect' \in Looking
<1>1. j.kind \in JingleKinds /\ j.from \in Nat /\ j.to \in Nat
  BY AudiologoAssumption
<1>2. RowsTyped'
  BY <1>1, FileOfKind, OneRowMore DEF InsertCandidateRow, AuTyped, Methods
<1>3. detect' \in Looking
  BY DEF InsertCandidateRow, Looking
<1>4. QED
  BY <1>2, <1>3

LEMMA LookTyped ==
  ASSUME AuTyped, \/ DetectWindow("intro", "outro") \/ DetectWindow("outro", "head")
         \/ PersistTranscriptCandidate("intro", "head", "tail") \/ PersistTranscriptCandidate("outro", "tail", "status")
  PROVE  AuTyped'
<1>1. UNCHANGED <<chapters, duration, status, verified, pending, asks, resets, requests>>
  BY DEF DetectWindow, PersistTranscriptCandidate
<1>2. detect # Nothing /\ detect \in Looking
  BY FoundTyped DEF DetectWindow, PersistTranscriptCandidate, InDetect
<1>3. matches' \in 0 .. Confirmations
  BY AudiologoAssumption DEF DetectWindow, PersistTranscriptCandidate, AuTyped, AskedTyped
<1>4. RowsTyped' /\ detect' \in Looking
  <2>1. \/ UNCHANGED rows /\ \E next \in {"outro", "head", "tail", "status"} : Goes(next)
        \/ \E j \in Jingles, method \in {"fingerprint", "faint", "transcript"}, next \in {"outro", "head", "tail", "status"} :
             InsertCandidateRow(j, method, next)
    BY DEF DetectWindow, PersistTranscriptCandidate, Fingerprints
  <2>2. ASSUME UNCHANGED rows, NEW next \in {"outro", "head", "tail", "status"}, Goes(next)
        PROVE  RowsTyped' /\ detect' \in Looking
    BY <1>2, <2>2 DEF Goes, Looking, AuTyped, RowsTyped
  <2>3. QED
    BY <2>1, <2>2, CandidateTyped
<1>5. AskedTyped'
  BY <1>1, <1>3, <1>4 DEF AuTyped, AskedTyped, OptionOf
<1>6. QED
  BY <1>1, <1>4, <1>5 DEF AuTyped, BookTyped

LEMMA StatusTyped ==
  ASSUME AuTyped, StartDetect \/ UpdateBookStatus \/ LoadCandidateRows
  PROVE  AuTyped'
<1>1. UNCHANGED <<rows, chapters, duration, matches, verified, asks, resets, requests>>
  BY DEF StartDetect, UpdateBookStatus, LoadCandidateRows
<1>2. status' \in Statuses /\ pending' \in BOOLEAN
  BY DEF StartDetect, UpdateBookStatus, LoadCandidateRows, AuTyped, BookTyped, AskedTyped, Statuses
<1>3. detect' \in Looking \cup Cutting
  <2>1. CASE StartDetect
    BY <2>1 DEF StartDetect, Looking
  <2>2. CASE UpdateBookStatus
    <3>1. detect \in Looking
      BY <2>2, FoundTyped DEF UpdateBookStatus, InDetect
    <3>2. QED
      BY <2>2, <3>1 DEF UpdateBookStatus, Goes, Looking
  <2>3. CASE LoadCandidateRows
    <3>1. detect.hit \in BOOLEAN
      BY <2>3, FoundTyped DEF LoadCandidateRows, InDetect
    <3>2. {r \in With("candidate") : r.method = "fingerprint"} \subseteq LogoRows
      BY DEF With, AuTyped, RowsTyped
    <3>3. QED
      BY <2>3, <3>1, <3>2 DEF LoadCandidateRows, Cutting
  <2>4. QED
    BY <2>1, <2>2, <2>3
<1>4. AskedTyped'
  BY <1>1, <1>2, <1>3 DEF AuTyped, AskedTyped, OptionOf
<1>5. QED
  BY <1>1, <1>2, <1>4 DEF AuTyped, RowsTyped, BookTyped

LEMMA AppliedTyped ==
  ASSUME AuTyped, ApplyAutoApplicable
  PROVE  AuTyped'
<1>1. PICK cuts : cuts = detect.found
  OBVIOUS
<1>2. detect \in Cutting /\ cuts \subseteq LogoRows
  BY <1>1, FoundTyped DEF ApplyAutoApplicable, InDetect, Cutting
<1>3. PICK ms \in Int : ms = SumOver(cuts, CutMs)
  BY <1>2, SumsOfCuts
<1>4. PICK ids : ids = {r.id : r \in cuts}
  OBVIOUS
<1>5. PICK promoted : promoted = {IF r.id \in ids THEN [r EXCEPT !.status = "applied"] ELSE r : r \in rows}
  OBVIOUS
<1>6. UNCHANGED <<matches, verified, pending, asks, resets, requests>>
  BY DEF ApplyAutoApplicable
<1>7. \/ (detect' = Nothing \/ Goes("strip")) /\ UNCHANGED <<rows, chapters, duration, status>>
      \/ /\ rows' = promoted /\ chapters' = Shifted(cuts, ClassifyEmbeddedCoverage(ms))
         /\ duration' = Positive(duration - ms) /\ status' = "applied" /\ detect' = Nothing
  BY <1>1, <1>3, <1>4, <1>5 DEF ApplyAutoApplicable
<1>8. detect' \in OptionOf(Looking \cup Cutting)
  <2>1. CASE detect' = Nothing
    BY <2>1 DEF OptionOf
  <2>2. CASE Goes("strip")
    BY <1>2, <2>2 DEF Goes, Cutting, OptionOf
  <2>3. QED
    BY <1>7, <2>1, <2>2
<1>9. AskedTyped'
  BY <1>6, <1>8 DEF AuTyped, AskedTyped
<1>10. RowsTyped' /\ BookTyped'
  <2>1. CASE UNCHANGED <<rows, chapters, duration, status>>
    BY <2>1 DEF AuTyped, RowsTyped, BookTyped
  <2>2. CASE /\ rows' = promoted /\ chapters' = Shifted(cuts, ClassifyEmbeddedCoverage(ms))
             /\ duration' = Positive(duration - ms) /\ status' = "applied"
    <3>1. PICK f : f = [r \in rows |-> IF r.id \in ids THEN [r EXCEPT !.status = "applied"] ELSE r]
      OBVIOUS
    <3>2. f \in [rows -> LogoRows]
      BY <3>1, StatusChanged DEF AuTyped, RowsTyped
    <3>3. RowsTyped'
      <4>1. rows' = {f[r] : r \in rows}
        BY <1>5, <2>2, <3>1
      <4>2. QED
        BY <3>2, <4>1, RowsRenamed DEF AuTyped
    <3>4. chapters' \in Lists
      <4>1. \A s \in ChapterLists : chapters[s] \in Seq(Int \X Int)
        BY DEF AuTyped, BookTyped, Lists
      <4>2. \A s \in ChapterLists : ShiftedByAll(chapters[s], cuts) \in Seq(Int \X Int)
        BY <1>2, <4>1, ShiftedForAll
      <4>3. QED
        BY <2>2, <4>1, <4>2 DEF Shifted, Lists
    <3>5. duration' \in Int
      BY <2>2 DEF Positive, AuTyped, BookTyped
    <3>6. QED
      BY <2>2, <3>3, <3>4, <3>5 DEF BookTyped, Statuses
  <2>3. QED
    BY <1>7, <2>1, <2>2
<1>11. QED
  BY <1>9, <1>10 DEF AuTyped

LEMMA StrippedTyped ==
  ASSUME AuTyped, ApplyLibationStripped
  PROVE  AuTyped'
<1>1. detect' = Nothing /\ UNCHANGED <<rows, matches, verified, pending, asks, resets, requests>>
  BY DEF ApplyLibationStripped
<1>2. AskedTyped'
  BY <1>1 DEF AuTyped, AskedTyped, OptionOf
<1>3. BookTyped'
  <2>1. CASE UNCHANGED <<chapters, duration, status>>
    BY <2>1 DEF AuTyped, BookTyped
  <2>2. CASE Brand # Nothing /\ chapters' = ShiftChaptersByOffset(Brand)
             /\ duration' = Positive(duration - Brand) /\ status' = "stripped"
    <3>1. Brand \in Int
      BY <2>2, AudiologoAssumption DEF OptionOf
    <3>2. chapters' \in Lists
      BY <2>2, <3>1, ShiftedByBrand DEF AuTyped, BookTyped
    <3>3. duration' \in Int
      BY <2>2, <3>1 DEF Positive, AuTyped, BookTyped
    <3>4. QED
      BY <2>2, <3>2, <3>3 DEF BookTyped, Statuses
  <2>3. QED
    BY <2>1, <2>2 DEF ApplyLibationStripped
<1>4. QED
  BY <1>1, <1>2, <1>3 DEF AuTyped, RowsTyped

LEMMA AgainTyped ==
  ASSUME AuTyped, ResetDetect \/ CrashDetect
  PROVE  AuTyped'
<1>1. UNCHANGED <<chapters, duration, matches, verified, requests>>
  BY DEF ResetDetect, CrashDetect
<1>2. resets' \in 0 .. MaxResets
  BY AudiologoAssumption DEF ResetDetect, CrashDetect, AuTyped, AskedTyped
<1>3. pending' \in BOOLEAN
  BY DEF ResetDetect, CrashDetect, AuTyped, AskedTyped
<1>4. detect' \in OptionOf(Looking \cup Cutting) /\ asks' \subseteq Asks /\ status' \in Statuses
  BY DEF ResetDetect, CrashDetect, AuTyped, AskedTyped, BookTyped, OptionOf, Statuses
<1>5. RowsTyped'
  <2>1. CASE UNCHANGED rows
    BY <2>1 DEF AuTyped, RowsTyped
  <2>2. CASE rows' = {IF r.status = "applied" THEN [r EXCEPT !.status = "re_detected"] ELSE r : r \in rows}
    <3>1. PICK f : f = [r \in rows |-> IF r.status = "applied" THEN [r EXCEPT !.status = "re_detected"] ELSE r]
      OBVIOUS
    <3>2. f \in [rows -> LogoRows]
      BY <3>1, StatusChanged DEF AuTyped, RowsTyped
    <3>3. rows' = {f[r] : r \in rows}
      BY <2>2, <3>1
    <3>4. QED
      BY <3>2, <3>3, RowsRenamed DEF AuTyped
  <2>3. QED
    BY <2>1, <2>2 DEF ResetDetect, CrashDetect
<1>6. AskedTyped'
  BY <1>1, <1>2, <1>3, <1>4 DEF AuTyped, AskedTyped
<1>7. BookTyped'
  BY <1>1, <1>4 DEF AuTyped, BookTyped
<1>8. QED
  BY <1>5, <1>6, <1>7 DEF AuTyped

-----------------------------------------------------------------------------
(* Cuts by hand and after review *)

LEMMA CutTyped ==
  ASSUME AuTyped, NEW j, j.kind \in JingleKinds, j.from \in Nat, j.to \in Nat, NEW file \in DOMAIN FileLengths,
         NEW by \in {"manual", "approval"}, ApplyAudiologoCut(j, file, by)
  PROVE  RowsTyped' /\ BookTyped'
<1>1. RowsTyped'
  BY OneRowMore DEF ApplyAudiologoCut, AuTyped, Methods
<1>2. PICK before : before = CumulativeBefore(rows', file)
  OBVIOUS
<1>3. before \in Int
  <2>1. PICK S : S = {r \in rows' : r.status = "applied" /\ r.file < file}
    OBVIOUS
  <2>2. PICK sum \in Int : sum = SumOver(S, LAMBDA r : r.to - r.from)
    BY <1>1, <2>1, SumsOfCuts DEF RowsTyped
  <2>3. before = FilesBefore(file) - sum
    BY <1>2, <2>1, <2>2 DEF CumulativeBefore
  <2>4. FilesBefore(file) \in Int
    BY LengthsAreInts
  <2>5. QED
    BY <2>3, <2>4
<1>4. PICK ms \in Int : ms = j.to - j.from
  OBVIOUS
<1>5. chapters' = [s \in ChapterLists |-> ShiftChapters(chapters[s], before + j.from, before + j.to, ms)]
  BY <1>2, <1>4 DEF ApplyAudiologoCut
<1>6. chapters' \in Lists
  <2>1. PICK start \in Int : start = before + j.from
    BY <1>3
  <2>2. PICK end \in Int : end = before + j.to
    BY <1>3
  <2>3. \A s \in ChapterLists : chapters[s] \in Seq(Int \X Int)
    BY DEF AuTyped, BookTyped, Lists
  <2>4. \A s \in ChapterLists : ShiftChapters(chapters[s], start, end, ms) \in Seq(Int \X Int)
    BY <2>3, ShiftedByHand
  <2>5. QED
    BY <1>5, <2>1, <2>2, <2>4 DEF Lists
<1>7. duration' = duration - ms /\ status' = RecomputeStatus(rows')
  BY <1>4 DEF ApplyAudiologoCut, RecomputeBookDuration
<1>8. RecomputeStatus(rows') \in Statuses
  BY DEF RecomputeStatus, Statuses
<1>9. QED
  BY <1>1, <1>6, <1>7, <1>8 DEF AuTyped, BookTyped

LEMMA HandTyped ==
  ASSUME AuTyped, AudiologoCut \/ Review("approve") \/ Review("reject")
  PROVE  AuTyped'
<1>1. UNCHANGED <<matches, verified, pending, detect, resets>>
  BY DEF AudiologoCut, Review
<1>2. requests \in Nat /\ requests' \in 0 .. MaxAsks
  BY AudiologoAssumption DEF AudiologoCut, Review, AuTyped, AskedTyped
<1>3. CASE AudiologoCut
  <2>1. PICK j \in ManualCuts : ApplyAudiologoCut(j, j.file, "manual")
    BY <1>3 DEF AudiologoCut
  <2>2. j.kind \in JingleKinds /\ j.from \in Nat /\ j.to \in Nat /\ j.file \in DOMAIN FileLengths
    BY <2>1, AudiologoAssumption
  <2>3. RowsTyped' /\ BookTyped'
    BY <2>1, <2>2, CutTyped
  <2>4. AskedTyped'
    BY <1>1, <1>2, <1>3 DEF AudiologoCut, AuTyped, AskedTyped
  <2>5. QED
    BY <2>3, <2>4 DEF AuTyped
<1>4. ASSUME NEW op \in {"approve", "reject"}, Review(op)
      PROVE  AuTyped'
  <2>1. PICK r \in With("candidate") : asks' = asks \cup {[op |-> op, row |-> r, at |-> "read", number |-> requests]}
    BY <1>4 DEF Review
  <2>2. r \in LogoRows
    BY <2>1 DEF With, AuTyped, RowsTyped
  <2>3. [op |-> op, row |-> r, at |-> "read", number |-> requests] \in Asks
    BY <1>2, <1>4, <2>2 DEF Asks
  <2>4. asks' \subseteq Asks
    BY <2>1, <2>3 DEF AuTyped, AskedTyped
  <2>5. UNCHANGED <<rows, chapters, duration, status>>
    BY <1>4 DEF Review
  <2>6. QED
    BY <1>1, <1>2, <2>4, <2>5 DEF AuTyped, RowsTyped, BookTyped, AskedTyped
<1>5. QED
  BY <1>3, <1>4

LEMMA ReviewTyped ==
  ASSUME AuTyped, NEW a \in asks, Approve(a) \/ MarkApproved(a) \/ Reject(a)
  PROVE  AuTyped'
<1>1. a \in Asks /\ a.row \in LogoRows
  BY DEF AuTyped, AskedTyped, Asks
<1>2. ASSUME NEW s \in {"rejected", "re_detected"}, MarkRow(a.row.id, s)
      PROVE  RowsTyped'
  <2>1. PICK f : f = [r \in rows |-> IF r.id = a.row.id THEN [r EXCEPT !.status = s] ELSE r]
    OBVIOUS
  <2>2. f \in [rows -> LogoRows]
    BY <1>2, <2>1, StatusChanged DEF AuTyped, RowsTyped
  <2>3. rows' = {f[r] : r \in rows}
    BY <1>2, <2>1 DEF MarkRow
  <2>4. QED
    BY <2>2, <2>3, RowsRenamed DEF AuTyped
<1>3. CASE Approve(a)
  <2>1. a.row.kind \in JingleKinds /\ a.row.from \in Nat /\ a.row.to \in Nat /\ a.row.file \in DOMAIN FileLengths
    BY <1>1 DEF LogoRows
  <2>2. RowsTyped' /\ BookTyped'
    <3>1. CASE ApplyAudiologoCut(a.row, a.row.file, "approval")
      BY <2>1, <3>1, CutTyped
    <3>2. CASE UNCHANGED <<rows, chapters, duration, status>>
      BY <3>2 DEF AuTyped, RowsTyped, BookTyped
    <3>3. QED
      BY <1>3, <3>1, <3>2 DEF Approve
  <2>3. [a EXCEPT !.at = "cut"] \in Asks
    BY <1>1 DEF Asks
  <2>4. asks' \subseteq Asks
    BY <1>3, <2>3 DEF Approve, AuTyped, AskedTyped
  <2>5. UNCHANGED <<matches, verified, pending, detect, resets, requests>>
    BY <1>3 DEF Approve
  <2>6. QED
    BY <2>2, <2>4, <2>5 DEF AuTyped, AskedTyped
<1>4. CASE MarkApproved(a)
  <2>1. RowsTyped'
    BY <1>2, <1>4 DEF MarkApproved
  <2>2. verified' \in BOOLEAN
    BY <1>4 DEF MarkApproved, MaybeAutoConfirm
  <2>3. asks' \subseteq asks /\ UNCHANGED <<chapters, duration, status, matches, pending, detect, resets, requests>>
    BY <1>4 DEF MarkApproved
  <2>4. AskedTyped'
    BY <2>2, <2>3 DEF AuTyped, AskedTyped
  <2>5. QED
    BY <2>1, <2>3, <2>4 DEF AuTyped, BookTyped
<1>5. CASE Reject(a)
  <2>1. RowsTyped'
    BY <1>2, <1>5 DEF Reject
  <2>2. asks' \subseteq asks /\ UNCHANGED <<chapters, duration, status, matches, verified, pending, detect, resets, requests>>
    BY <1>5 DEF Reject
  <2>3. AskedTyped'
    BY <2>2 DEF AuTyped, AskedTyped
  <2>4. QED
    BY <2>1, <2>2, <2>3 DEF AuTyped, BookTyped
<1>6. QED
  BY <1>3, <1>4, <1>5

LEMMA AuTypedInit == AuInit => AuTyped
<1> SUFFICES ASSUME AuInit PROVE AuTyped
  OBVIOUS
<1>1. RowsTyped
  BY FS_EmptySet DEF AuInit, RowsTyped
<1>2. BookTyped
  BY AudiologoAssumption, LengthsAreInts DEF AuInit, BookTyped, Lists, Statuses
<1>3. AskedTyped
  <2>1. 0 \in 0 .. Confirmations /\ 0 \in 0 .. MaxResets /\ 0 \in 0 .. MaxAsks
    BY AudiologoAssumption
  <2>2. verified \in BOOLEAN /\ pending \in BOOLEAN /\ detect \in OptionOf(Looking \cup Cutting) /\ asks \subseteq Asks
    BY DEF AuInit, OptionOf
  <2>3. QED
    BY <2>1, <2>2 DEF AuInit, AskedTyped
<1>4. QED
  BY <1>1, <1>2, <1>3 DEF AuTyped

LEMMA AuTypedStep ==
  ASSUME AuTyped, [AuStep]_auVars
  PROVE  AuTyped'
<1>1. CASE UNCHANGED auVars
  BY <1>1 DEF auVars, AuTyped, RowsTyped, BookTyped, AskedTyped
<1>2. QED
  BY <1>1, LookTyped, StatusTyped, AppliedTyped, StrippedTyped, AgainTyped, HandTyped, ReviewTyped DEF AuStep, DetectStep

LEMMA AuTypesOfInv == AuTyped => AuTypeOK
<1> SUFFICES ASSUME AuTyped PROVE AuTypeOK
  OBVIOUS
<1>1. \A r \in rows : r.kind \in JingleKinds /\ r.file \in DOMAIN FileLengths
        /\ r.status \in {"candidate", "applied", "rejected", "re_detected"}
  BY DEF AuTyped, RowsTyped, LogoRows
<1>2. QED
  BY <1>1 DEF AuTyped, BookTyped, AskedTyped, Lists, AuTypeOK

(* However often cuts are cuts, approved, asked for, retried and broken off, *)
(* every chapter keeps two ends, the book a length and a known status, and    *)
(* a fingerprint no more matches than confirm it.                            *)
THEOREM AudiologoTypesHold == AuInit /\ [][AuStep]_auVars => []AuTypeOK
<1>1. QED
  BY AuTypedInit, AuTypedStep, AuTypesOfInv, PTL

-----------------------------------------------------------------------------
(* --- The stages together ------------------------------------------------- *)

\* Each model keeps its own invariant, whichever of them an instance explores.
StagesInv ==
  /\ part \in Parts /\ TrInv /\ TrTyped /\ ExInv /\ ExCounted /\ ArInv /\ ArCounted
  /\ TgInv /\ TgTyped /\ AuTyped /\ PfInv /\ PfTyped
stagesVars == <<part, trVars, exVars, arVars, tgVars, auVars, pfVars>>

LEMMA EachStageSteps ==
  ASSUME [Next]_stagesVars
  PROVE  /\ UNCHANGED part /\ [\E b \in Books : HearStep(b) \/ ReadStep(b)]_trVars /\ [ExStep]_exVars
         /\ [ArStep]_arVars /\ [TgStep]_tgVars /\ [AuStep]_auVars /\ [PfStep]_pfVars
<1>1. CASE UNCHANGED stagesVars
  BY <1>1 DEF stagesVars
<1>2. CASE Next
  BY <1>2, MCStagesAssumption DEF Next
<1>3. QED
  BY <1>1, <1>2

LEMMA StagesInvStep == ASSUME StagesInv, [Next]_stagesVars PROVE StagesInv'
<1>1. /\ UNCHANGED part /\ [\E b \in Books : HearStep(b) \/ ReadStep(b)]_trVars /\ [ExStep]_exVars
      /\ [ArStep]_arVars /\ [TgStep]_tgVars /\ [AuStep]_auVars /\ [PfStep]_pfVars
  BY EachStageSteps
<1>2. TrInv' /\ TrTyped'
  BY <1>1, TrInvStep, TrTypedStep DEF StagesInv
<1>3. ExInv' /\ ExCounted'
  BY <1>1, ExInvStep, ExCountedStep DEF StagesInv
<1>4. ArInv' /\ ArCounted'
  BY <1>1, ArInvStep, ArCountedStep DEF StagesInv
<1>5. TgInv' /\ TgTyped'
  BY <1>1, TgInvStep, TgTypedStep DEF StagesInv
<1>6. AuTyped'
  BY <1>1, AuTypedStep DEF StagesInv
<1>7. PfInv' /\ PfTyped'
  BY <1>1, PfInvNext, PfTypedStep DEF StagesInv
<1>8. QED
  BY <1>1, <1>2, <1>3, <1>4, <1>5, <1>6, <1>7 DEF StagesInv

(* Every table, file and counter of the stages keeps its type, in whatever    *)
(* order stages run, fail and run again, for any books, languages and bounds. *)
THEOREM StageTypesHold == Spec => []TypeOK
<1>1. Init => StagesInv
  <2> SUFFICES ASSUME Init PROVE StagesInv
    OBVIOUS
  <2>1. part \in Parts /\ TrInit /\ ExInit /\ ArInit /\ TgInit /\ AuInit /\ PfInit
    BY DEF Init
  <2>2. QED
    BY <2>1, TrInvInit, TrTypedInit, ExInvInit, ExCountedInit, ArInvInit, ArCountedInit, TgInvInit, TgTypedInit,
       AuTypedInit, PfInvInit, PfTypedInit DEF StagesInv
<1>2. StagesInv => TypeOK
  BY TrTypesOfInv, ExTypesOfInv, ArTypesOfInv, TgTypesOfInv, AuTypesOfInv, PfTypesOfInv DEF StagesInv, TypeOK
<1>3. StagesInv /\ [Next]_stagesVars => StagesInv'
  BY StagesInvStep
<1>4. Spec => []StagesInv
  BY <1>1, <1>3, PTL DEF Spec, stagesVars
<1>5. QED
  BY <1>2, <1>4, PTL

=============================================================================
