----------------------------- MODULE Provenance -----------------------------
(* Where a book's metadata comes from: the tag reader, the Audible search   *)
(* and the Audnexus lookup leave candidate rows, promote-consensus copies   *)
(* the winners into the book's columns, the operator edits a column and     *)
(* leaves the strongest row of all, and a retry of a stage takes its rows   *)
(* back (tag-read, catalog/{audible_search,asin_learnings,enrich,consensus},*)
(* api/user_edits, api/router books_patch, pipeline/stage default_reset).   *)
EXTENDS Common, Sequences

CONSTANTS
  Titles, Asins, Genres,
  Tags,       \* [Books -> sets of <<field, value>>] that the files carry
  OnAudible,  \* [Titles -> OptionOf(Asins)]: first product of a search
  Audnexus,   \* [Asins -> [title, genres, series]]: what a lookup returns
  Cleaned,    \* [Titles -> Titles]: without the suffix the subtitle repeats
  MaxClock, MaxPatches, MaxResets  \* bounds: seconds, edits, retries

VARIABLES
  rows,     \* book_field_provenance
  series,   \* book_series_candidate
  column,   \* the columns of books that these rows feed
  genreOf,  \* book_genre
  learned,  \* asin_learnings
  looking,  \* the ASIN an Audnexus lookup of a book is under way for
  done,     \* stages whose pipeline_progress row says done
  clock, patches, resets

prVars == <<rows, series, column, genreOf, learned, looking, done, clock, patches, resets>>
prData == <<column, genreOf, learned>>

Stages == {"read-tags", "search-audible", "enrich-from-audnexus", "promote-consensus"}
Edited == "api-user-edit"
Fields == {"title", "asin", "genre"}
Values == Titles \cup Asins \cup Genres
Confidence == [s \in Stages \cup {Edited, "learned"} |->
  CASE s = "search-audible" -> 60 [] s = "read-tags" -> 70 [] s = "learned" -> 80
    [] s = "enrich-from-audnexus" -> 95 [] OTHER -> 100]

FieldRow ==
  [book : Books, field : Fields, value : Values, stage : Stages \cup {Edited}, conf : Nat, at : Nat, win : BOOLEAN]
ValuesOf == [title |-> Titles, asin |-> Asins, genre |-> Genres]

ASSUME ProvenanceAssumption ==
  /\ DOMAIN Tags = Books
  /\ \A b \in Books : \A t \in Tags[b] : t[1] \in Fields \cup {"series"} /\ (t[1] \in Fields => t[2] \in ValuesOf[t[1]])
  /\ OnAudible \in [Titles -> OptionOf(Asins)] /\ DOMAIN Audnexus = Asins
  /\ \A a \in Asins : Audnexus[a].title \in Titles /\ Audnexus[a].genres \subseteq Genres
  /\ Cleaned \in [Titles -> Titles]
  /\ Nothing \notin Values \cup FieldRow

Row(b, f, v, s, c) == [book |-> b, field |-> f, value |-> v, stage |-> s, conf |-> c, at |-> clock, win |-> FALSE]
Of(b, f) == {r \in rows : r.book = b /\ r.field = f}

(* ORDER BY confidence DESC, recorded_at DESC: the seconds may tie.         *)
Best(S) == {r \in S : \A q \in S : q.conf < r.conf \/ (q.conf = r.conf /\ q.at <= r.at)}

PrInit ==
  /\ rows = {} /\ series = {} /\ learned = {}
  /\ column = [b \in Books |-> [title |-> Nothing, asin |-> Nothing]]
  /\ genreOf = [b \in Books |-> {}]
  /\ looking = [b \in Books |-> Nothing]
  /\ done = [b \in Books |-> {}]
  /\ clock = 0 /\ patches = 0 /\ resets = 0

-----------------------------------------------------------------------------
(* The stages: each starts when those it requires are done and it is not *)

Requires == [s \in Stages |->
  CASE s = "read-tags" -> {}
    [] s = "search-audible" -> {"read-tags"}
    [] s = "enrich-from-audnexus" -> {"read-tags", "search-audible"}
    [] s = "promote-consensus" -> {"enrich-from-audnexus"}]
Starts(b, s) == s \notin done[b] /\ Requires[s] \subseteq done[b]
Finished(b, s) == done' = [done EXCEPT ![b] = @ \cup {s}]

(* One INSERT per tag; one that fails is logged and the next one tried.     *)
ReadTags(b) ==
  /\ Starts(b, "read-tags") /\ Finished(b, "read-tags")
  /\ \E kept \in SUBSET Tags[b] :
       /\ rows' = rows \cup {Row(b, t[1], t[2], "read-tags", Confidence["read-tags"]) :
                               t \in {u \in kept : u[1] # "series"}}
       /\ series' = series \cup {[book |-> b, stage |-> "read-tags", name |-> t[2]] :
                                   t \in {u \in kept : u[1] = "series"}}
  /\ UNCHANGED <<prData, looking, clock, patches, resets>>

Latest(S) == {r \in S : \A q \in S : q.at <= r.at}

(* No search for a book that has an ASIN candidate or no title; the ASIN    *)
(* last learned for the title before a request to Audible.                  *)
SearchAudible(b) ==
  /\ Starts(b, "search-audible") /\ Finished(b, "search-audible")
  /\ \/ (Of(b, "asin") # {} \/ Of(b, "title") = {}) /\ UNCHANGED rows
     \/ /\ Of(b, "asin") = {}
        /\ \E t \in Best(Of(b, "title")) :
             LET known == {l \in learned : l.title = t.value}
             IN  IF known # {}
                 THEN \E l \in Latest(known) :
                        rows' = rows \cup {Row(b, "asin", l.asin, "search-audible", Confidence["learned"])}
                 ELSE \/ UNCHANGED rows
                      \/ /\ OnAudible[t.value] # Nothing
                         /\ rows' = rows \cup {Row(b, "asin", OnAudible[t.value], "search-audible",
                                                   Confidence["search-audible"])}
  /\ UNCHANGED <<series, prData, looking, clock, patches, resets>>

(* enrich-from-audnexus reads its ASIN, asks region after region, writes    *)
(* what it found in one transaction, then the column in a second statement. *)
EnrichSkips(b) ==   \* not allowed, no ASIN, or no region knows it
  /\ Starts(b, "enrich-from-audnexus") \/ looking[b] # Nothing
  /\ looking' = [looking EXCEPT ![b] = Nothing]
  /\ Finished(b, "enrich-from-audnexus")
  /\ UNCHANGED <<rows, series, prData, clock, patches, resets>>
EnrichAsks(b) ==
  /\ Starts(b, "enrich-from-audnexus") /\ looking[b] = Nothing
  /\ \E r \in Best(Of(b, "asin")) : looking' = [looking EXCEPT ![b] = r.value]
  /\ UNCHANGED <<rows, series, prData, done, clock, patches, resets>>

EnrichRows(b, book) ==
  LET New(f, v) == Row(b, f, v, "enrich-from-audnexus", Confidence["enrich-from-audnexus"])
  IN  {New("title", book.title)} \cup {New("genre", g) : g \in book.genres}

\* Mutant: the ASIN column follows every lookup.
AsinColumnAlways(b) == [column EXCEPT ![b].asin = looking[b]]
\* UPDATE books SET asin WHERE asin IS NULL
AsinColumn(b) == [column EXCEPT ![b].asin = IF @ = Nothing THEN looking[b] ELSE @]

EnrichWrites(b) ==
  /\ looking[b] # Nothing
  /\ LET book == Audnexus[looking[b]]
     IN  /\ rows' = rows \cup EnrichRows(b, book)
         /\ series' = series \cup {[book |-> b, stage |-> "enrich-from-audnexus", name |-> s] : s \in book.series}
  /\ looking' = [looking EXCEPT ![b] = Nothing]
  /\ \/ column' = AsinColumn(b) /\ Finished(b, "enrich-from-audnexus")
     \/ UNCHANGED <<column, done>>    \* the second statement, or the daemon, fails
  /\ UNCHANGED <<genreOf, learned, clock, patches, resets>>

-----------------------------------------------------------------------------
(* promote-consensus *)

Crown(b, f, r) == {IF q.book = b /\ q.field = f THEN [q EXCEPT !.win = (q = r)] ELSE q : q \in rows}

(* One row per slug is to win, the strongest of its value.                  *)
GenreWinners(b) ==
  LET Same(g) == {r \in Of(b, "genre") : r.value = g}
  IN  {CHOOSE r \in Best(Same(g)) : TRUE : g \in {r.value : r \in Of(b, "genre")}}

CrownGenres(b, S) ==
  {IF q.book = b /\ q.field = "genre" THEN [q EXCEPT !.win = (q \in GenreWinners(b))] ELSE q : q \in S}

\* ux_book_field_winner: one winner per book and field, or the statement fails
IndexHolds(S) == \A q, r \in S : q.win /\ r.win /\ q.book = r.book /\ q.field = r.field => q = r

\* Mutant: the newest title wins, whoever it is from.
TitleWinnersNewest(b) == Latest(Of(b, "title"))
TitleWinners(b) == Best(Of(b, "title"))

Promote(b) ==
  /\ Starts(b, "promote-consensus")
  /\ \E r \in IF Of(b, "title") = {} THEN {Nothing} ELSE TitleWinners(b) :
       LET crowned == CrownGenres(b, IF r = Nothing THEN rows ELSE Crown(b, "title", r))
           slugs == {g.value : g \in Of(b, "genre")}
           titled == IF r = Nothing THEN column ELSE [column EXCEPT ![b].title = r.value]
       IN  /\ IndexHolds(crowned)   \* else the transaction and the stage fail
           /\ rows' = crowned
           \* the title loses a suffix that the subtitle column repeats
           /\ column' = [titled EXCEPT ![b].title = IF @ = Nothing THEN @ ELSE Cleaned[@]]
           /\ genreOf' = IF slugs = {} THEN genreOf ELSE [genreOf EXCEPT ![b] = slugs]
  /\ Finished(b, "promote-consensus")
  /\ UNCHANGED <<series, learned, looking, clock, patches, resets>>

-----------------------------------------------------------------------------
(* Requests *)

\* Mutant: earlier winners keep their flag.
UserEditBesides(b, f, v) ==
  rows \cup {[Row(b, f, v, Edited, Confidence[Edited]) EXCEPT !.win = TRUE]}
(* record_user_edit: earlier winners are demoted, the edit is the winner.   *)
UserEdit(b, f, v) ==
  {IF q.book = b /\ q.field = f THEN [q EXCEPT !.win = FALSE] ELSE q : q \in rows}
    \cup {[Row(b, f, v, Edited, Confidence[Edited]) EXCEPT !.win = TRUE]}

(* INSERT OR IGNORE: a triple learned before keeps its date.                *)
Capture(title, asin) ==
  IF title = Nothing \/ \E l \in learned : l.title = title /\ l.asin = asin THEN learned
  ELSE learned \cup {[title |-> title, asin |-> asin, at |-> clock]}

(* books_patch, for one field: the row, the column, and for an ASIN what it *)
(* teaches about the book's title, in one transaction.                      *)
Patch(b, f, v) ==
  /\ patches < MaxPatches /\ patches' = patches + 1
  /\ rows' = UserEdit(b, f, v)
  /\ column' = [column EXCEPT ![b][f] = v]
  /\ learned' = IF f = "asin" THEN Capture(column[b].title, v) ELSE learned
  /\ UNCHANGED <<series, genreOf, looking, done, clock, resets>>

(* default_reset: the stage's provenance rows and its progress row.         *)
Reset(b, s) ==
  /\ resets < MaxResets /\ resets' = resets + 1
  /\ rows' = {r \in rows : ~(r.book = b /\ r.stage = s)}
  /\ done' = [done EXCEPT ![b] = @ \ {s}]
  /\ UNCHANGED <<series, prData, looking, clock, patches>>

Tick == clock < MaxClock /\ clock' = clock + 1
        /\ UNCHANGED <<rows, series, prData, looking, done, patches, resets>>

PrStep(b) ==
  \/ ReadTags(b) \/ SearchAudible(b)
  \/ EnrichSkips(b) \/ EnrichAsks(b) \/ EnrichWrites(b) \/ Promote(b)
  \/ \E s \in Stages : Reset(b, s)
  \/ \E t \in Titles : Patch(b, "title", t)
  \/ \E a \in Asins : Patch(b, "asin", a)
  \/ Tick

PrSpec == PrInit /\ [][\E b \in Books : PrStep(b)]_prVars

-----------------------------------------------------------------------------
PrTypeOK ==
  /\ rows \subseteq FieldRow /\ \A r \in rows : r.at <= clock /\ r.value \in ValuesOf[r.field]
  /\ column \in [Books -> [title : OptionOf(Titles), asin : OptionOf(Asins)]]
  /\ genreOf \in [Books -> SUBSET Genres] /\ looking \in [Books -> OptionOf(Asins)]
  /\ done \in [Books -> SUBSET Stages]

Shows(b, f, v) == column[b][f] = v \/ (f = "title" /\ column[b].title = Cleaned[v])

(* What the operator set stays: the column shows the latest edit (one of    *)
(* those of its second), through every retry of every stage, a lookup that  *)
(* was under way for another ASIN and every later consensus.  Nor does the   *)
(* tag writer see another story: a row flagged as winner is what its column  *)
(* shows.                                                                   *)
EditSticks ==
  /\ \A b \in Books, f \in {"title", "asin"} :
       LET edits == {r \in Of(b, f) : r.stage = Edited}
       IN  edits # {} => \E r \in Latest(edits) : Shows(b, f, r.value)
  /\ \A r \in rows : r.win /\ r.field # "genre" => Shows(r.book, r.field, r.value)

(* consensus.rs:303: the strongest row of each genre slug gets is_winner, so *)
(* whenever the stage starts it can flag them all.                           *)
GenresPromoted ==
  \A b \in Books : Starts(b, "promote-consensus") => IndexHolds(CrownGenres(b, rows))

(* asin_learnings.rs:80: if the operator changed their mind over time, the    *)
(* latest edit is what the next search of the title uses.                    *)
LatestEditLearned ==
  [][\A b \in Books, a \in Asins : Patch(b, "asin", a) /\ column[b].title # Nothing =>
       \E l \in Latest({x \in learned' : x.title = column[b].title}) : l.asin = a]_prVars

(* stage.rs:115: a reset rolls back the stage's persistent output for the book. *)
ResetClears ==
  [][\A b \in Books, s \in Stages : Reset(b, s) =>
       ~\E c \in series' : c.book = b /\ c.stage = s]_prVars
=============================================================================
