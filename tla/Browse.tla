------------------------------- MODULE Browse -------------------------------
(* Lists, page by page: entities and their books (api/authors, narrators,    *)
(* series, publishers, collections), search, the book query and its saved    *)
(* forms, the journal's rows.  Every endpoint counts and selects in two      *)
(* queries with a WHERE of its own each; a client walks the pages, asking    *)
(* for as much as it likes, until it has as many rows as the total says.     *)
(* Books come, go and are hidden meanwhile.                                  *)
EXTENDS Common, Sequences, SequencesExt

CONSTANTS
  BookFacts,   \* of a book: title, date, words, near, by (its entities), place (in them)
  EntityFacts, \* of an author, narrator, ...: kind, name, sort, words, near, ended
  OpFacts,     \* rows of operation_journal: kind, at
  Views,       \* what clients ask for: endpoint, sort, q, of
  Limits,      \* how much of it at once
  MaxLimit,    \* bound: MAX_LIMIT
  Queries      \* saved queries: owner, view, cap

VARIABLES
  shelf,   \* rows of books
  hidden,  \* those with a deleted_at
  saved,   \* saved_queries
  walk,    \* the client's walk through the pages
  calm     \* nothing changed since the walk began; a history variable

bwVars == <<shelf, hidden, saved, walk, calm>>

Entities == DOMAIN EntityFacts
OpIds == DOMAIN OpFacts
Endpoints ==
  {"authors", "narrators", "series", "publishers", "collections", "authors/books", "narrators/books",
   "publishers/books", "collections/books", "series/books", "books/collections", "journal", "books",
   "search", "saved/items"}
SavedRows(q) ==
  [owner : {"user", "system"}, sort : OptionOf({"title", "book_id", "imported_at"}), cap : Nat,
   view : {Queries[q].view}]
ASSUME BrowseAssumption ==
  /\ MaxLimit \in Nat \ {0} /\ Limits \subseteq Int /\ IsFiniteSet(Entities) /\ IsFiniteSet(OpIds)
  /\ DOMAIN BookFacts = Books
  /\ \A b \in Books :
       /\ BookFacts[b].id \in Int /\ BookFacts[b].title \in Int /\ BookFacts[b].place \in OptionOf(Int)
       /\ BookFacts[b].by \subseteq Entities
       /\ \A c \in Books : BookFacts[b].id = BookFacts[c].id => b = c
  /\ \A q \in DOMAIN Queries : Queries[q] \in SavedRows(q)
  /\ \A v \in Views : v.endpoint \in Endpoints /\ (v.endpoint = "saved/items" => v.of \in DOMAIN Queries)

BwInit ==
  /\ shelf \in SUBSET Books /\ hidden = {} /\ saved = [q \in DOMAIN Queries |-> Nothing]
  /\ walk = Nothing /\ calm = TRUE

ClampLimit(n) == IF n <= 0 THEN 1 ELSE IF n > MaxLimit THEN MaxLimit ELSE n

-----------------------------------------------------------------------------
(* Rows: what matches, and in which order.  NULL sorts as the largest, and   *)
(* ties are left as they are found.                                          *)

Key(v, down) == IF v = Nothing THEN 1000 ELSE IF down THEN 0 - v ELSE v
Lexical(ks, js, i, j) ==
  \/ \E n \in DOMAIN ks : ks[n] < js[n] /\ \A m \in 1..(n - 1) : ks[m] = js[m]
  \/ ks = js /\ i < j
Sorted(S, key, id) == OrderedBy(S, LAMBDA a, b : Lexical(key[a], key[b], id[a], id[b]))

Likes(words, q) == q = Nothing \/ q \in words
BooksBy(e) == {b \in shelf : e \in BookFacts[b].by}
BookCount(e) == Cardinality(BooksBy(e))

EntityKeys(e, sort) ==
  LET f == EntityFacts[e]
  IN  CASE sort = "name" -> <<f.name>>
        [] sort = "name_sort" -> <<IF f.sort = Nothing THEN f.name ELSE f.sort>>
        [] sort = "book_count" -> <<0 - BookCount(e), f.name>>
        [] sort = "ended_state" -> <<f.ended, f.name>>
EntityRows(S, sort) == Sorted(S, [e \in S |-> EntityKeys(e, sort)], [e \in S |-> EntityFacts[e].id])
OfKind(kind, q) == {e \in Entities : EntityFacts[e].kind = kind /\ Likes(EntityFacts[e].words, q)}

\* Mutant: the count has no filter.
AuthorsListAll(v) == [counted |-> OfKind("author", Nothing), rows |-> EntityRows(OfKind("author", v.q), v.sort)]
AuthorsList(v) == [counted |-> OfKind("author", v.q), rows |-> EntityRows(OfKind("author", v.q), v.sort)]
NarratorsList(v) == [counted |-> OfKind("narrator", v.q), rows |-> EntityRows(OfKind("narrator", v.q), v.sort)]
SeriesList(v) == [counted |-> OfKind("series", v.q), rows |-> EntityRows(OfKind("series", v.q), v.sort)]
PublishersList(v) == [counted |-> OfKind("publisher", v.q), rows |-> EntityRows(OfKind("publisher", v.q), v.sort)]
CollectionsList(v) == [counted |-> OfKind("collection", v.q), rows |-> EntityRows(OfKind("collection", v.q), v.sort)]

(* Books of an entity, hidden ones with them: the newest first, books        *)
(* without a date last.                                                      *)
Newest(b) == <<Key(BookFacts[b].date, TRUE), BookFacts[b].title>>
Placed(b) == <<Key(BookFacts[b].place, FALSE)>>
BookRows(S, keys(_)) == Sorted(S, [b \in S |-> keys(b)], [b \in S |-> BookFacts[b].id])

AuthorsBooks(v) == [counted |-> BooksBy(v.of), rows |-> BookRows(BooksBy(v.of), Newest)]
NarratorsBooks(v) == [counted |-> BooksBy(v.of), rows |-> BookRows(BooksBy(v.of), Newest)]
PublishersBooks(v) == [counted |-> BooksBy(v.of), rows |-> BookRows(BooksBy(v.of), Newest)]
CollectionsBooks(v) ==
  [counted |-> BooksBy(v.of), rows |-> BookRows(BooksBy(v.of), LAMBDA b : Placed(b) \o Newest(b))]
SeriesBooks(v) ==
  LET rows == BookRows(BooksBy(v.of), LAMBDA b : Placed(b) \o <<BookFacts[b].title>>)
  IN  [counted |-> ToSet(rows), rows |-> rows]
BooksCollections(v) ==
  LET mine == {e \in BookFacts[v.of].by : EntityFacts[e].kind = "collection" /\ v.of \in shelf}
  IN  [counted |-> mine, rows |-> EntityRows(mine, "name")]

OperationJournalList(v) ==
  LET mine == {o \in OpIds : Likes({OpFacts[o].kind}, v.q)}
  IN  [counted |-> mine, rows |-> Sorted(mine, [o \in mine |-> <<0 - OpFacts[o].at, 0 - o>>], [o \in mine |-> o])]

(* The book query hides what is hidden unless it is asked not to.            *)
Matching(v) == {b \in shelf : (v.deleted \/ b \notin hidden) /\ Likes(BookFacts[b].words, v.q)}
SortClause(b, sort) ==
  CASE sort = "title" -> <<BookFacts[b].title>>
    [] sort = "book_id" -> <<BookFacts[b].id>>
    [] sort = "imported_at" -> <<Key(BookFacts[b].date, TRUE)>>
QueryExecute(v) ==
  [counted |-> Matching(v), rows |-> BookRows(Matching(v), LAMBDA b : SortClause(b, v.sort))]

(* The exact words first; where a page has none, the near ones.  A long      *)
(* enough query has near ones at all.                                        *)
Exact(v) == IF v.sort = "books" THEN {b \in shelf : v.q \in BookFacts[b].words} ELSE OfKind(v.sort, v.q)
Near(v) ==
  IF v.sort = "books" THEN {b \in shelf : v.q \in BookFacts[b].near}
  ELSE {e \in Entities : EntityFacts[e].kind = v.sort /\ v.q \in EntityFacts[e].near}
Ranked(S, v) ==
  IF v.sort = "books" THEN BookRows(S, LAMBDA b : <<BookFacts[b].title>>) ELSE EntityRows(S, "name")
PageOf(rows, limit, offset) == SubSeq(rows, offset + 1, IF offset + limit < Len(rows) THEN offset + limit ELSE Len(rows))
Search(v, limit, offset) ==
  IF PageOf(Ranked(Exact(v), v), limit, offset) = <<>>
    THEN [counted |-> Near(v), rows |-> Ranked(Near(v), v)]
    ELSE [counted |-> Exact(v), rows |-> Ranked(Exact(v), v)]

(* A saved query keeps a filter, its own limit included, and its sort.       *)
SavedItems(v) ==
  LET q == saved[v.of]
      all == QueryExecute([q.view EXCEPT !.sort = IF q.sort = Nothing THEN @ ELSE q.sort])
  IN  [all EXCEPT !.rows = PageOf(@, q.cap, 0)]

Paged(v) == v.endpoint \notin {"series/books", "books/collections", "saved/items"}
Result(v, limit, offset) ==
  CASE v.endpoint = "authors" -> AuthorsList(v) [] v.endpoint = "narrators" -> NarratorsList(v)
    [] v.endpoint = "series" -> SeriesList(v) [] v.endpoint = "publishers" -> PublishersList(v)
    [] v.endpoint = "collections" -> CollectionsList(v) [] v.endpoint = "authors/books" -> AuthorsBooks(v)
    [] v.endpoint = "narrators/books" -> NarratorsBooks(v) [] v.endpoint = "publishers/books" -> PublishersBooks(v)
    [] v.endpoint = "collections/books" -> CollectionsBooks(v) [] v.endpoint = "series/books" -> SeriesBooks(v)
    [] v.endpoint = "books/collections" -> BooksCollections(v) [] v.endpoint = "journal" -> OperationJournalList(v)
    [] v.endpoint = "books" -> QueryExecute(v) [] v.endpoint = "search" -> Search(v, limit, offset)
    [] v.endpoint = "saved/items" -> SavedItems(v)

-----------------------------------------------------------------------------
Exists(v) == v.endpoint = "saved/items" => saved[v.of] # Nothing

StartWalk(v, n) ==
  /\ walk = Nothing /\ Exists(v) /\ (v.endpoint = "books" => n >= 1)
  /\ walk' = [view |-> v, asks |-> n, offset |-> 0, at |-> "count", total |-> 0, limit |-> 0, seen |-> <<>>]
  /\ calm' = TRUE /\ UNCHANGED <<shelf, hidden, saved>>

(* The count and the page of a request; a change may come between.           *)
CountRows ==
  /\ walk # Nothing /\ walk.at = "count" /\ Exists(walk.view)
  /\ LET limit == ClampLimit(walk.asks)
     IN  walk' = [walk EXCEPT !.at = "page", !.limit = limit,
           !.total = Cardinality(Result(walk.view, limit, walk.offset).counted)]
  /\ UNCHANGED <<shelf, hidden, saved, calm>>
SelectPage ==
  /\ walk # Nothing /\ walk.at = "page" /\ Exists(walk.view)
  /\ LET r == Result(walk.view, walk.limit, walk.offset).rows
         page == IF Paged(walk.view) THEN PageOf(r, walk.limit, walk.offset) ELSE r
         next == walk.offset + Len(page)
     IN  walk' = [walk EXCEPT !.seen = @ \o page, !.offset = next,
           !.at = IF next >= walk.total \/ page = <<>> \/ ~Paged(walk.view) THEN "done" ELSE "count"]
  /\ UNCHANGED <<shelf, hidden, saved, calm>>
StopWalk == walk # Nothing /\ walk' = Nothing /\ UNCHANGED <<shelf, hidden, saved, calm>>

Changes == calm' = FALSE /\ UNCHANGED walk
BookComes(b) == b \notin shelf /\ shelf' = shelf \cup {b} /\ Changes /\ UNCHANGED <<hidden, saved>>
BookLeaves(b) ==
  b \in shelf /\ shelf' = shelf \ {b} /\ hidden' = hidden \ {b} /\ Changes /\ UNCHANGED saved
BookHides(b) ==
  /\ b \in shelf
  /\ hidden' = (IF b \in hidden THEN hidden \ {b} ELSE hidden \cup {b}) /\ Changes /\ UNCHANGED <<shelf, saved>>

(* Queries of the system are read only, for an update and for a delete.      *)
SavedCreate(q) ==
  /\ saved[q] = Nothing /\ saved' = [saved EXCEPT ![q] = Queries[q]] /\ Changes /\ UNCHANGED <<shelf, hidden>>
SavedUpdate(q, sort) ==
  /\ saved[q] # Nothing /\ saved[q].owner = "user"
  /\ saved' = [saved EXCEPT ![q].sort = sort] /\ Changes /\ UNCHANGED <<shelf, hidden>>
SavedDelete(q) ==
  /\ saved[q] # Nothing /\ saved[q].owner = "user"
  /\ saved' = [saved EXCEPT ![q] = Nothing] /\ Changes /\ UNCHANGED <<shelf, hidden>>

BwStep ==
  \/ \E v \in Views, n \in Limits : StartWalk(v, n)
  \/ CountRows \/ SelectPage \/ StopWalk
  \/ \E b \in Books : BookComes(b) \/ BookLeaves(b) \/ BookHides(b)
  \/ \E q \in DOMAIN Queries : SavedCreate(q) \/ SavedUpdate(q, "title") \/ SavedDelete(q)

-----------------------------------------------------------------------------
BwTypeOK ==
  /\ shelf \subseteq Books /\ hidden \subseteq shelf /\ calm \in BOOLEAN
  /\ DOMAIN saved = DOMAIN Queries /\ \A q \in DOMAIN Queries : saved[q] \in OptionOf(SavedRows(q))
  /\ walk # Nothing => walk.view \in Views /\ walk.at \in {"count", "page", "done"} /\ walk.offset \in Nat

(* A walk through the pages, while nothing changes, shows every row that     *)
(* matches once and in order, as many as the total said, whatever the client *)
(* asks for at once, and whether the words matched exactly or nearly.        *)
Whole(v) ==
  IF v.endpoint = "search" THEN (IF Exact(v) = {} THEN Ranked(Near(v), v) ELSE Ranked(Exact(v), v))
  ELSE Result(v, MaxLimit, 0).rows
PagesTile ==
  walk # Nothing /\ walk.at = "done" /\ calm =>
    /\ walk.seen = Whole(walk.view)
    /\ walk.view.endpoint # "saved/items" => walk.total = Len(walk.seen)
=============================================================================
