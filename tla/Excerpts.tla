------------------------------ MODULE Excerpts ------------------------------
(* What is read out of an EPUB (companion-extract): the names that its text  *)
(* uses, and its chapter titles.  A document is a sequence of tokens: words, *)
(* of which Names begin with a capital, "." for whatever ends a sentence,    *)
(* "," for other marks, and the tags.  The documents of the spine grow token *)
(* by token, so that every small book is met.                                *)
EXTENDS Common, Sequences, SequencesExt

CONSTANTS
  Names,
  MinFrequency, \* MIN_FREQUENCY
  MaxTokens     \* bound: tokens of a book

VARIABLES
  spine,    \* the documents in spine order
  contents  \* titles in the nav document and the NCX, each Nothing if unreadable

exbVars == <<spine, contents>>

Words == Names \cup {"said"}
Tags == {"<p>", "<body>", "</body>"}
ASSUME ExcerptsAssumption ==
  MinFrequency \in Nat \ {0} /\ MaxTokens \in Nat /\ Names \cap ({"said", ".", ","} \cup Tags) = {}
Tokens == Words \cup {".", ","} \cup Tags

-----------------------------------------------------------------------------
(* epub_walk: the documents one after the other; one that cannot be read is  *)
(* left out.                                                                 *)
WalkSpine(docs) == FlattenSeq(Sifted(docs, ToSet(docs) \ {Nothing}))

First(page, token, from) ==
  LET at == {n \in from .. Len(page) : page[n] = token}
  IN  IF at = {} THEN Nothing ELSE CHOOSE n \in at : \A k \in at : n <= k
(* The first body of the text, up to the first end of one.                   *)
LocateBody(page) ==
  LET open == First(page, "<body>", 1)
  IN  IF open = Nothing THEN page
      ELSE LET close == First(page, "</body>", open + 1)
           IN  SubSeq(page, open + 1, IF close = Nothing THEN Len(page) ELSE close - 1)
(* A tag becomes a space, which is nothing between tokens.                   *)
StripHtml(page) == Sifted(LocateBody(page), Tokens \ Tags)

-----------------------------------------------------------------------------
(* extract_name_dict: runs of capitalised words.  A run is flushed at any    *)
(* other token; one word that opens a sentence says nothing.                 *)

NoRun == [words |-> <<>>, opens |-> FALSE]
Flushed(counted, run) ==
  IF run.words = <<>> \/ (Len(run.words) = 1 /\ run.opens) THEN counted ELSE Append(counted, run.words)

\* Mutant: a comma, too, makes the next word open a sentence.
ReadTokenComma(s, t) ==
  CASE t \in {".", ","} -> [counted |-> Flushed(s.counted, s.run), run |-> NoRun, ended |-> TRUE]
    [] t = "said" -> [counted |-> Flushed(s.counted, s.run), run |-> NoRun, ended |-> FALSE]
    [] t \in Names ->
         [s EXCEPT !.run = [words |-> Append(@.words, t), opens |-> IF @.words = <<>> THEN s.ended ELSE @.opens],
                   !.ended = FALSE]
ReadToken(s, t) ==
  CASE t = "." -> [counted |-> Flushed(s.counted, s.run), run |-> NoRun, ended |-> TRUE]
    [] t = "," -> [s EXCEPT !.counted = Flushed(@, s.run), !.run = NoRun]
    [] t = "said" -> [counted |-> Flushed(s.counted, s.run), run |-> NoRun, ended |-> FALSE]
    [] t \in Names ->
         [s EXCEPT !.run = [words |-> Append(@.words, t), opens |-> IF @.words = <<>> THEN s.ended ELSE @.opens],
                   !.ended = FALSE]
CountCandidates(text) ==
  LET at[n \in 0 .. Len(text)] ==
        IF n = 0 THEN [counted |-> <<>>, run |-> NoRun, ended |-> TRUE] ELSE ReadToken(at[n - 1], text[n])
  IN  Flushed(at[Len(text)].counted, at[Len(text)].run)
ExtractNameDict(text) ==
  LET counted == CountCandidates(text)
  IN  {surface \in ToSet(counted) :
         Cardinality({n \in DOMAIN counted : counted[n] = surface}) >= MinFrequency}
ExtractFromEpub(docs) == ExtractNameDict(StripHtml(WalkSpine(docs)))

-----------------------------------------------------------------------------
(* epub_toc: the nav document of EPUB 3, and the NCX if it gives no title    *)

NoTitle == ""
Titles(list) == IF list = Nothing THEN <<>> ELSE Sifted(list, ToSet(list) \ {NoTitle})
ReadChapterTitles ==
  IF Titles(contents.nav) # <<>> THEN Titles(contents.nav) ELSE Titles(contents.ncx)

-----------------------------------------------------------------------------
ExbInit == spine = <<>> /\ contents = [nav |-> Nothing, ncx |-> Nothing]
Size == Len(WalkSpine(spine)) + Len(spine)
MoreText ==
  /\ Size < MaxTokens /\ contents = [nav |-> Nothing, ncx |-> Nothing] /\ UNCHANGED contents
  /\ \/ Len(spine) < 2 /\ \E d \in {<<>>, Nothing} : spine' = Append(spine, d)
     \/ /\ spine # <<>> /\ Last(spine) # Nothing
        /\ \E t \in Tokens : spine' = [spine EXCEPT ![Len(spine)] = Append(@, t)]
MoreTitles ==
  /\ spine = <<>> /\ UNCHANGED spine
  /\ \E list \in {"nav", "ncx"} :
       /\ contents[list] # Nothing => Len(contents[list]) < 2
       /\ \E t \in {NoTitle, list} : contents' = [contents EXCEPT ![list] =
            IF @ = Nothing THEN <<>> ELSE Append(@, t)]
ExbStep == MoreText \/ MoreTitles

-----------------------------------------------------------------------------
(* The same, as the module's documentation has it (companion-extract/lib.rs: *)
(* 15-25): names are the longest runs of capitalised words; one counts       *)
(* unless it is a single word that nothing but marks separates from the end  *)
(* of a sentence.                                                            *)
Runs(text) ==
  {r \in (DOMAIN text) \X (DOMAIN text) :
     /\ r[1] <= r[2] /\ \A n \in r[1] .. r[2] : text[n] \in Names
     /\ r[1] = 1 \/ text[r[1] - 1] \notin Names
     /\ r[2] = Len(text) \/ text[r[2] + 1] \notin Names}
SentenceInitial(text, n) ==
  LET before == {k \in 1 .. n - 1 : text[k] # ","}
  IN  before = {} \/ \E k \in before : text[k] = "." /\ \A j \in before : j <= k
CountedRuns(text) == {r \in Runs(text) : r[1] # r[2] \/ ~SentenceInitial(text, r[1])}
Surface(text, r) == SubSeq(text, r[1], r[2])
NamesOf(text, least) ==
  {s \in {Surface(text, r) : r \in CountedRuns(text)} :
     Cardinality({r \in CountedRuns(text) : Surface(text, r) = s}) >= least}

(* Every name that the text uses often enough is found, and no other.        *)
NamesFound == ExtractFromEpub(spine) = NamesOf(StripHtml(WalkSpine(spine)), MinFrequency)
(* A title in either list is enough for titles, in the order of one list.    *)
TitlesFound ==
  /\ ReadChapterTitles # <<>> <=>
       \E list \in {"nav", "ncx"} : contents[list] # Nothing /\ list \in ToSet(contents[list])
  /\ \A n \in DOMAIN ReadChapterTitles : ReadChapterTitles[n] = ReadChapterTitles[1]

(* Observed: the names of a book are those of its first document, the text   *)
(* of the others lies behind the first end of a body (lib.rs:21: frequency   *)
(* across the whole input).                                                  *)
WholeBookRead ==
  ExtractFromEpub(spine) =
    NamesOf(FlattenSeq([n \in DOMAIN spine |->
      IF spine[n] = Nothing THEN <<>> ELSE StripHtml(spine[n])]), MinFrequency)
=============================================================================
