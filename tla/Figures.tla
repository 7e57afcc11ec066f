------------------------------- MODULE Figures -------------------------------
(* The figures of the library (stats), and the reports that compare it with  *)
(* a shop (api/reports, catalog/audible).  Durations are whole hours, a date *)
(* is its year, and a day of the shop is a number.                           *)
EXTENDS Common, Sequences, SequencesExt, FiniteSetsExt

CONSTANTS
  TopN,       \* TOP_N
  Columns,    \* column of a book -> values that are tried, besides the default
  MaxChanged, \* bound: values that differ from the default
  Writers,    \* authors of the library, in the order of their names
  Asins,      \* products of the shop
  Today, Cutoff,
  PerPage,    \* products on a page of the shop
  MaxPages,   \* max_pages of a report
  MaxAsked    \* bound: reports, and changes of the shop

VARIABLES
  facts,   \* book that has been scanned -> its row
  market,  \* author -> the shop's products, as the shop orders them
  asking,  \* the report that is being made
  answered, \* the last one that was answered
  quiet,   \* whether shop and library stood still while it was made; a history variable
  asked

fiVars == <<facts, market, asking, answered, quiet, asked>>

ASSUME FiguresAssumption ==
  /\ TopN \in Nat \ {0} /\ PerPage \in Nat \ {0} /\ MaxPages \in Nat \ {0} /\ Today <= Cutoff
  /\ MaxAsked \in Nat /\ IsFiniteSet(Asins) /\ Writers \in Seq(ToSet(Writers))

Blank ==
  [deleted |-> FALSE, language |-> Nothing, hours |-> Nothing, status |-> "want_to_read", added |-> 2024,
   released |-> Nothing, publisher |-> Nothing, files |-> <<>>, author |-> Nothing, narrators |-> {},
   series |-> {}, collections |-> {}, audiologo |-> "unknown", abridged |-> Nothing, rating |-> Nothing,
   heard |-> Nothing, asin |-> Nothing]

-----------------------------------------------------------------------------
(* stats                                                                     *)

\* Mutant: the WHERE deleted_at IS NULL is gone.
VisibleAll == DOMAIN facts
Visible == {b \in DOMAIN facts : ~facts[b].deleted}
HoursOf(b) == IF facts[b].hours = Nothing THEN 0 ELSE facts[b].hours
HoursIn(S) == MapThenSumSet(HoursOf, S)
With(state) == {b \in Visible : facts[b].status = state}
HeardThisYear(b) == facts[b].heard # Nothing /\ facts[b].heard
(* The mean is over the books that have a duration.                          *)
Statistics ==
  LET timed == {b \in With("finished") : facts[b].hours # Nothing}
  IN  [total |-> Cardinality(Visible), unread |-> Cardinality(With("want_to_read")),
       reading |-> Cardinality(With("reading")), finished_all_time |-> Cardinality(With("finished")),
       dnf |-> Cardinality(With("dnf")),
       finished_year |-> Cardinality({b \in With("finished") : HeardThisYear(b)}),
       hours_all_time |-> HoursIn(With("finished")),
       hours_year |-> HoursIn({b \in With("finished") : HeardThisYear(b)}),
       avg_book_hours |-> IF timed = {} THEN 0 ELSE HoursIn(timed) \div Cardinality(timed)]

Dimensions ==
  {"language", "length", "reading_status", "acquisition_year", "decade", "publisher", "format", "author",
   "narrator", "series", "collection", "audiologo_status", "abridged", "rating"}
Bridged == {"narrator", "series", "collection"}
LengthOf(hours) ==
  CASE hours = Nothing -> Nothing [] hours < 4 -> "<4h" [] hours \in 4 .. 7 -> "4-8h"
    [] hours \in 8 .. 14 -> "8-15h" [] hours \in 15 .. 24 -> "15-25h" [] hours >= 25 -> "25h+"
(* A date that is too short, or no number, has no decade: year 0 here.       *)
DecadeOf(year) == IF year \in {Nothing, 0} THEN Nothing ELSE year \div 10
FormatOf(files) ==
  LET active == {n \in DOMAIN files : files[n].active}
  IN  IF active = {} THEN Nothing ELSE files[CHOOSE n \in active : \A m \in active : n <= m].format
(* LEFT JOIN: a book that belongs to none is in the group of no key, which   *)
(* is shown as "unknown".                                                    *)
OrNone(S) == IF S = {} THEN {Nothing} ELSE S
KeysOf(b, dimension) ==
  LET row == facts[b]
  IN  CASE dimension = "language" -> {row.language} [] dimension = "length" -> {LengthOf(row.hours)}
        [] dimension = "reading_status" -> {row.status} [] dimension = "acquisition_year" -> {row.added}
        [] dimension = "decade" -> {DecadeOf(row.released)} [] dimension = "publisher" -> {row.publisher}
        [] dimension = "format" -> {FormatOf(row.files)} [] dimension = "author" -> {row.author}
        [] dimension = "narrator" -> OrNone(row.narrators) [] dimension = "series" -> OrNone(row.series)
        [] dimension = "collection" -> OrNone(row.collections)
        [] dimension = "audiologo_status" -> {row.audiologo} [] dimension = "abridged" -> {row.abridged}
        [] dimension = "rating" -> {row.rating}
BooksOf(dimension, key) == {b \in Visible : key \in KeysOf(b, dimension)}

(* The buckets of a dimension in an order that its query allows: years and   *)
(* decades from the last, "unknown" before them; others by their books.      *)
Before(dimension, k, l) ==
  IF dimension \in {"acquisition_year", "decade"} THEN k = Nothing \/ (l # Nothing /\ k > l)
  ELSE Cardinality(BooksOf(dimension, k)) >= Cardinality(BooksOf(dimension, l))
Raw(dimension) ==
  LET keys == UNION {KeysOf(b, dimension) : b \in Visible}
  IN  {[n \in DOMAIN s |-> [count |-> Cardinality(BooksOf(dimension, s[n])), hours |-> HoursIn(BooksOf(dimension, s[n]))]]
       : s \in {q \in SetToAllKPermutations(keys) :
                  Len(q) = Cardinality(keys) /\ \A n, m \in DOMAIN q : n < m => Before(dimension, q[n], q[m])}}
Rest(s) == SubSeq(s, TopN + 1, Len(s))
CollapseLongTail(s) ==
  LET Sum(field) == FoldLeft(LAMBDA sum, bucket : sum + bucket[field], 0, Rest(s))
  IN  IF Len(s) <= TopN THEN s
      ELSE Append(SubSeq(s, 1, TopN), [count |-> Sum("count"), hours |-> Sum("hours")])
Breakdown(dimension) == {CollapseLongTail(s) : s \in Raw(dimension)}

-----------------------------------------------------------------------------
(* AudibleClient::list_books_by_author and the reports                       *)

Products == [asin : Asins, release : OptionOf({Today, Cutoff, Cutoff + 1})]
Page(author, n) ==
  SubSeq(market[author], (n - 1) * PerPage + 1,
         IF n * PerPage < Len(market[author]) THEN n * PerPage ELSE Len(market[author]))
InLibrary(asin) == \E b \in DOMAIN facts : facts[b].asin = asin
StatusOf(product) ==
  IF InLibrary(product.asin) THEN "owned"
  ELSE IF product.release # Nothing /\ product.release > Today THEN "preorder" ELSE "new"
AnnotateAgainstLibrary(list) ==
  [n \in DOMAIN list |-> [asin |-> list[n].asin, release |-> list[n].release, status |-> StatusOf(list[n])]]
ReleaseInWindow(candidate) ==
  candidate.release # Nothing /\ candidate.release > Today /\ candidate.release <= Cutoff

FiInit ==
  /\ facts = <<>> /\ market = [a \in ToSet(Writers) |-> <<>>]
  /\ asking = Nothing /\ answered = Nothing /\ quiet = TRUE /\ asked = 0

Stirred == quiet' = FALSE
BookScanned(b) ==
  /\ b \notin DOMAIN facts
  /\ facts' = [c \in DOMAIN facts \cup {b} |-> IF c = b THEN Blank ELSE facts[c]]
  /\ Stirred /\ UNCHANGED <<market, asking, answered, asked>>
FactTurns(b, column) ==
  /\ b \in DOMAIN facts
  /\ Cardinality({x \in (DOMAIN facts) \X DOMAIN Blank : facts[x[1]][x[2]] # Blank[x[2]]}) < MaxChanged
  /\ facts[b][column] = Blank[column]
  /\ \E v \in Columns[column] : facts' = [facts EXCEPT ![b][column] = v]
  /\ Stirred /\ UNCHANGED <<market, asking, answered, asked>>
(* A product is announced, and listed first.                                 *)
MarketTurns(author) ==
  /\ asked < MaxAsked /\ asked' = asked + 1
  /\ \E p \in Products :
       /\ \A a \in DOMAIN market : \A n \in DOMAIN market[a] : market[a][n].asin # p.asin
       /\ market' = [market EXCEPT ![author] = <<p>> \o @]
  /\ Stirred /\ UNCHANGED <<facts, asking, answered>>

ReportBegins(kind, authors) ==
  /\ asked < MaxAsked /\ asked' = asked + 1 /\ asking = Nothing
  /\ asking' = [kind |-> kind, todo |-> authors, page |-> 1, list |-> <<>>, books |-> <<>>, failed |-> {}]
  /\ quiet' = TRUE /\ answered' = Nothing /\ UNCHANGED <<facts, market>>
(* The candidates of one author, once the list is whole.                     *)
Kept(kind, list) ==
  IF kind = "gaps" THEN AnnotateAgainstLibrary(list)
  ELSE SelectSeq(AnnotateAgainstLibrary(list), LAMBDA c : c.status # "owned" /\ ReleaseInWindow(c))
\* Mutant: the page that ends the list is not taken.
FetchPageShort ==
  /\ asking # Nothing /\ asking.todo # <<>>
  /\ LET batch == Page(Head(asking.todo), asking.page)
         list == asking.list \o batch
     IN  asking' = IF Len(batch) = PerPage /\ asking.page < MaxPages
                   THEN [asking EXCEPT !.list = list, !.page = @ + 1]
                   ELSE [asking EXCEPT !.todo = Tail(@), !.page = 1, !.list = <<>>,
                                       !.books = @ \o Kept(asking.kind, asking.list)]
  /\ UNCHANGED <<facts, market, answered, quiet, asked>>
FetchPage ==
  /\ asking # Nothing /\ asking.todo # <<>>
  /\ LET batch == Page(Head(asking.todo), asking.page)
         list == asking.list \o batch
     IN  asking' = IF Len(batch) = PerPage /\ asking.page < MaxPages
                   THEN [asking EXCEPT !.list = list, !.page = @ + 1]
                   ELSE [asking EXCEPT !.todo = Tail(@), !.page = 1, !.list = <<>>,
                                       !.books = @ \o Kept(asking.kind, list)]
  /\ UNCHANGED <<facts, market, answered, quiet, asked>>
(* The pages read so far are dropped; the sweep goes on with the next        *)
(* author, the report on one author is refused.                              *)
PageFails ==
  /\ asking # Nothing /\ asking.todo # <<>>
  /\ asking' = IF asking.kind = "gaps" THEN Nothing
               ELSE [asking EXCEPT !.todo = Tail(@), !.page = 1, !.list = <<>>,
                                   !.failed = @ \cup {Head(asking.todo)}]
  /\ UNCHANGED <<facts, market, answered, quiet, asked>>
ReportEnds ==
  /\ asking # Nothing /\ asking.todo = <<>>
  /\ answered' = [kind |-> asking.kind, books |-> asking.books, failed |-> asking.failed,
                owned_count |-> Len(SelectSeq(asking.books, LAMBDA c : c.status = "owned")),
                gap_count |-> Len(SelectSeq(asking.books, LAMBDA c : c.status # "owned"))]
  /\ asking' = Nothing /\ UNCHANGED <<facts, market, quiet, asked>>

FigureStep == \E b \in Books : BookScanned(b) \/ \E column \in DOMAIN Columns : FactTurns(b, column)
ReportStep ==
  \/ \E a \in ToSet(Writers) : MarketTurns(a) \/ ReportBegins("gaps", <<a>>)
  \/ ReportBegins("upcoming", Writers)
  \/ FetchPage \/ PageFails \/ ReportEnds
FiStep == FigureStep \/ ReportStep

-----------------------------------------------------------------------------
FiTypeOK ==
  /\ DOMAIN facts \subseteq Books /\ \A b \in DOMAIN facts : DOMAIN facts[b] = DOMAIN Blank
  /\ \A a \in DOMAIN market : Len(market[a]) <= Cardinality(Asins)
  /\ asking # Nothing => asking.page \in 1 .. MaxPages /\ Len(asking.list) <= PerPage * MaxPages
  /\ quiet \in BOOLEAN /\ asked \in 0 .. MaxAsked

(* A pie shows every book: once in a dimension of which a book has one       *)
(* value, and otherwise as often as it has values, however the long tail is  *)
(* cut; no slice that is shown is smaller than one that is not.  The four    *)
(* states of reading make up the library, a year is part of all time.        *)
FiguresAddUp ==
  LET Times(b, dimension) ==
        LET many == CASE dimension = "narrator" -> facts[b].narrators [] dimension = "series" -> facts[b].series
                      [] dimension = "collection" -> facts[b].collections
                      [] dimension \notin Bridged -> {}
        IN  IF many = {} THEN 1 ELSE Cardinality(many)
      Alive == {b \in DOMAIN facts : ~facts[b].deleted}
      Total(s, field) == FoldLeft(LAMBDA sum, bucket : sum + bucket[field], 0, s)
  IN  /\ \A dimension \in Dimensions :
           /\ \A s \in Breakdown(dimension) :
                /\ Len(s) <= TopN + 1
                /\ Total(s, "count") = MapThenSumSet(LAMBDA b : Times(b, dimension), Alive)
                /\ Total(s, "hours") = MapThenSumSet(LAMBDA b : Times(b, dimension) * HoursOf(b), Alive)
           /\ dimension \notin {"acquisition_year", "decade"} =>
                \A s \in Raw(dimension) : \A n \in 1 .. Len(s) : \A m \in DOMAIN Rest(s) :
                  n <= TopN => s[n].count >= Rest(s)[m].count
      /\ LET st == Statistics
         IN  /\ st.total = st.unread + st.reading + st.finished_all_time + st.dnf
             /\ st.total = Cardinality(Alive)
             /\ st.finished_year <= st.finished_all_time /\ st.hours_year <= st.hours_all_time

(* A report on a shop and a library that stand still has every product that  *)
(* the pages reach, once, and each in its place: owned or a gap; the sweep   *)
(* leaves out the authors that could not be asked, and nobody else.          *)
ReportsWhole ==
  LET reached == {a \in DOMAIN market : Len(market[a]) <= PerPage * MaxPages}
      Listed(S) == UNION {ToSet(market[a]) : a \in S}
      Shown == {[asin |-> answered.books[n].asin, release |-> answered.books[n].release] : n \in DOMAIN answered.books}
  IN  answered # Nothing /\ quiet /\ reached = DOMAIN market =>
        /\ Cardinality(Shown) = Len(answered.books)
        /\ answered.owned_count + answered.gap_count = Len(answered.books)
        /\ answered.kind = "gaps" =>
             /\ \E a \in DOMAIN market : Shown = ToSet(market[a])
             /\ answered.owned_count = Cardinality({p \in Shown : InLibrary(p.asin)})
        /\ answered.kind = "upcoming" =>
             Shown = {p \in Listed(DOMAIN market \ answered.failed) :
                        ~InLibrary(p.asin) /\ p.release \in (Today + 1) .. Cutoff}

(* Observed: what is announced while the pages are read shifts them, and a   *)
(* product is listed twice.                                                  *)
ListedOnce ==
  answered # Nothing =>
    Cardinality({answered.books[n].asin : n \in DOMAIN answered.books}) = Len(answered.books)
=============================================================================
