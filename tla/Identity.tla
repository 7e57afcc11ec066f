------------------------------ MODULE Identity ------------------------------
(* The people and series of the library and the names they are known by:    *)
(* the resolve-identity stage (catalog/identity.rs, catalog/franchise.rs)   *)
(* turns the candidate names of a book into rows of authors, narrators,     *)
(* series and publishers, and the operator edits names and settles          *)
(* ambiguous ones (api/names.rs).  Every handler is one transaction on one  *)
(* database record `db`, and an error inside it leaves `db` as it was.      *)
EXTENDS Common, Sequences, SequencesExt

CONSTANTS
  Kinds,        \* a subset of {"authors", "narrators", "series"}
  Lists,        \* the candidate lists that sources may leave for a book
  Names,        \* the spellings that occur
  Folded,       \* [Names -> ...]: equal for spellings that differ in case only
  Exts,         \* Audible ids
  Publishers,   \* publisher names, no two differing in case only
  Prefix,       \* [Books -> OptionOf(...)]: the franchise prefix of a title
  MaxObserved,  \* bound on changes of a book's candidates
  MaxNameEdits  \* bound on the operator's requests

VARIABLES
  db,        \* the identity tables
  evidence,  \* the candidates of each kind and book, best first
  imprint,   \* the best publisher candidate of each book
  observed, nameEdits  \* how many changes and requests there were

idVars == <<db, evidence, imprint, observed, nameEdits>>

ASSUME IdentityAssumption ==
  /\ Kinds \subseteq {"authors", "narrators", "series"}
  /\ DOMAIN Folded = Names /\ DOMAIN Prefix = Books /\ Nothing \notin Nat
  /\ Lists \subseteq Seq([name : Names, ext : OptionOf(Exts)])
  /\ IsFiniteSet(Names) /\ MaxNameEdits \in Nat

(* A run numbers a person only under a spelling that nobody has yet, the    *)
(* operator whenever a new one is asked for.                                *)
People == 1 .. (Cardinality(Names) + MaxNameEdits)
Person == [id : People, name : Names, ext : OptionOf(Exts)]
Alias == [id : People, alias : Names, prime : BOOLEAN]
Pending == [book : Books, alias : Names, options : SUBSET People, pick : OptionOf(People)]

SameName(a, b) == Folded[a] = Folded[b]

IdInit ==
  /\ db = [people    |-> [k \in Kinds |-> {}],
           aliases   |-> [k \in Kinds |-> {}],
           pending   |-> [k \in Kinds |-> {}],
           link      |-> [k \in Kinds |-> [b \in Books |-> {}]],
           publisher |-> [b \in Books |-> Nothing],
           franchise |-> [s \in People |-> Nothing],
           sortKey   |-> [b \in Books |-> Nothing],
           got       |-> Nothing]
  /\ evidence = [k \in Kinds |-> [b \in Books |-> <<>>]]
  /\ imprint \in [Books -> OptionOf(Publishers)]
  /\ observed = 0 /\ nameEdits = 0

-----------------------------------------------------------------------------
(* Names and their owners *)

NewId(k, d) == Cardinality(d.people[k]) + 1

(* INSERT OR IGNORE under UNIQUE (parent, alias), which is case-sensitive.  *)
RegisterAlias(k, d, i, a, prime) ==
  IF \E r \in d.aliases[k] : r.id = i /\ r.alias = a THEN d
  ELSE [d EXCEPT !.aliases[k] = @ \cup {[id |-> i, alias |-> a, prime |-> prime]}]

(* The alias rows that match a name: one per spelling, not one per owner.   *)
Matches(k, d, a) == {r \in d.aliases[k] : SameName(r.alias, a)}

Backfill(k, d, i, ext) ==
  [d EXCEPT !.people[k] = {IF p.id = i /\ p.ext = Nothing THEN [p EXCEPT !.ext = ext] ELSE p : p \in @}]

(* The books that mention a person elsewhere than on the book in hand.      *)
OtherBooks(k, d, i, b) == {x \in Books \ {b} : i \in d.link[k][x]}
Shares(k, d, b, others) ==
  k \in Kinds /\ d.link[k][b] \cap UNION {d.link[k][x] : x \in others} # {}
SharesPublisher(d, b, others) ==
  d.publisher[b] # Nothing /\ \E x \in others : d.publisher[x] = d.publisher[b]

(* Scores in tenths; the sums of these weights compare as the doubles do.   *)
AuthorScore(d, i, b) ==
  LET others == OtherBooks("authors", d, i, b)
  IN  (IF Shares("narrators", d, b, others) THEN 4 ELSE 0)
      + (IF SharesPublisher(d, b, others) THEN 2 ELSE 0)
      + (IF Shares("series", d, b, others) THEN 5 ELSE 0)
NarratorScore(d, i, b) ==
  IF SharesPublisher(d, b, OtherBooks("narrators", d, i, b)) THEN 2 ELSE 0
SeriesScore(d, i, b) ==
  IF Shares("authors", d, b, OtherBooks("series", d, i, b)) THEN 6 ELSE 0
Score(k, d, i, b) ==
  CASE k = "authors" -> AuthorScore(d, i, b)
    [] k = "narrators" -> NarratorScore(d, i, b)
    [] k = "series" -> SeriesScore(d, i, b)

(* The row that leads every other row by more than the margin of 0.3.       *)
Corroborated(k, d, rows, b) ==
  {r.id : r \in {x \in rows : \A y \in rows \ {x} : Score(k, d, x.id, b) - Score(k, d, y.id, b) > 3}}

(* Mutant: one row per name, whichever book met it.                          *)
WritePendingOnce(k, d, b, a, rows) ==
  IF \E p \in d.pending[k] : p.alias = a THEN d
  ELSE [d EXCEPT !.pending[k] = @ \cup
          {[book |-> b, alias |-> a, options |-> {r.id : r \in rows}, pick |-> Nothing]}]

(* UNIQUE (book, alias): a row that is there, settled or not, stays as it is. *)
WritePending(k, d, b, a, rows) ==
  IF \E p \in d.pending[k] : p.book = b /\ p.alias = a THEN d
  ELSE [d EXCEPT !.pending[k] = @ \cup
          {[book |-> b, alias |-> a, options |-> {r.id : r \in rows}, pick |-> Nothing]}]

Create(k, d, a, ext) ==
  LET i == NewId(k, d)
      added == [d EXCEPT !.people[k] = @ \cup {[id |-> i, name |-> a, ext |-> ext]}]
  IN  [RegisterAlias(k, added, i, a, TRUE) EXCEPT !.got = i]

Adopt(k, d, i, c) ==
  [RegisterAlias(k, IF c.ext = Nothing THEN d ELSE Backfill(k, d, i, c.ext), i, c.name, FALSE)
     EXCEPT !.got = i]

(* find_or_insert_person and find_or_insert_series: by Audible id, by name, *)
(* by corroboration, or a pending row and nobody (got = Nothing).           *)
FindOrInsert(k, d, c, b) ==
  LET byExt == {p.id : p \in {p \in d.people[k] : c.ext # Nothing /\ p.ext = c.ext}}
      rows == Matches(k, d, c.name)
      clear == IF Cardinality(rows) = 1 THEN {r.id : r \in rows} ELSE Corroborated(k, d, rows, b)
  IN  IF byExt # {} THEN Adopt(k, d, CHOOSE i \in byExt : TRUE, c)
      ELSE IF rows = {} THEN Create(k, d, c.name, c.ext)
      ELSE IF clear # {} THEN Adopt(k, d, CHOOSE i \in clear : TRUE, c)
      ELSE [WritePending(k, d, b, c.name, rows) EXCEPT !.got = Nothing]

-----------------------------------------------------------------------------
(* resolve-identity, in its order: author, publisher, narrators, series *)

(* Mutant: an undecided author is written as NULL.                           *)
ResolveAuthorClears(b, d) ==
  LET list == evidence["authors"][b]
      r == FindOrInsert("authors", d, Head(list), b)
  IN  IF "authors" \notin Kinds \/ list = <<>> THEN d
      ELSE [r EXCEPT !.link["authors"][b] = {r.got} \ {Nothing}]

ResolveAuthor(b, d) ==
  LET list == evidence["authors"][b]
      r == FindOrInsert("authors", d, Head(list), b)
  IN  IF "authors" \notin Kinds \/ list = <<>> THEN d
      ELSE IF r.got = Nothing THEN r
      ELSE [r EXCEPT !.link["authors"][b] = {r.got}]

ResolvePublisher(b, d) == IF imprint[b] = Nothing THEN d ELSE [d EXCEPT !.publisher[b] = imprint[b]]

(* One candidate per folded name; a series takes its id from any of them,   *)
(* a narrator only from the first.                                          *)
FirstOfName(list, n) == \A m \in 1 .. n - 1 : ~SameName(list[m].name, list[n].name)
Distinct(k, list, n) ==
  LET with == {m \in DOMAIN list : SameName(list[m].name, list[n].name) /\ list[m].ext # Nothing}
  IN  IF k # "series" \/ with = {} THEN list[n]
      ELSE [list[n] EXCEPT !.ext = list[CHOOSE m \in with : \A o \in with : m <= o].ext]

(* Everyone found or created, in a sequence that may name one row twice.    *)
FoundNext(k, b, list, n, acc) ==
  LET r == FindOrInsert(k, acc.d, Distinct(k, list, n), b)
  IN  IF ~FirstOfName(list, n) THEN acc
      ELSE [d |-> r, ids |-> IF r.got = Nothing THEN acc.ids ELSE Append(acc.ids, r.got)]
Found(k, b, d, list) ==
  LET acc[n \in 0 .. Len(list)] ==
        IF n = 0 THEN [d |-> d, ids |-> <<>>] ELSE FoundNext(k, b, list, n, acc[n - 1])
  IN  acc[Len(list)]

(* DELETE, then one INSERT per id under PRIMARY KEY (book, id).             *)
Relink(k, b, found) == [found.d EXCEPT !.link[k][b] = {found.ids[n] : n \in DOMAIN found.ids}]

Members(d, s) == {b \in Books : s \in d.link["series"][b]}
DetectPrefix(d, s) ==
  LET prefixes == {Prefix[b] : b \in Members(d, s)}
  IN  IF Cardinality(Members(d, s)) >= 2 /\ Cardinality(prefixes) = 1 /\ Nothing \notin prefixes
      THEN CHOOSE p \in prefixes : TRUE ELSE Nothing

(* The series of one book, in the order of its rows: each sets its prefix   *)
(* and the sort keys of all its members, the later series over the earlier. *)
RecomputeFranchise(b, d) ==
  LET after == FoldLeft(LAMBDA acc, s :
                 [franchise |-> [acc.franchise EXCEPT ![s] = DetectPrefix(d, s)],
                  sortKey |-> [x \in Books |-> IF x \in Members(d, s) THEN DetectPrefix(d, s) ELSE acc.sortKey[x]]],
                 [franchise |-> d.franchise, sortKey |-> d.sortKey], SetToSortSeq(d.link["series"][b], <))
  IN  [d EXCEPT !.franchise = after.franchise, !.sortKey = after.sortKey]

(* The junction rows of one kind in the transaction `t`, left alone without  *)
(* candidates: `ok` turns false when an INSERT meets its primary key.       *)
Junction(k, b, t) ==
  LET found == Found(k, b, t.db, evidence[k][b])
  IN  IF k \notin Kinds \/ evidence[k][b] = <<>> THEN t ELSE
      [ok |-> t.ok /\ IsInjective(found.ids),
       db |-> IF k = "series" THEN RecomputeFranchise(b, Relink(k, b, found)) ELSE Relink(k, b, found)]

Resolution(b) ==
  LET named == ResolvePublisher(b, ResolveAuthor(b, [db EXCEPT !.got = Nothing]))
      t == Junction("series", b, Junction("narrators", b, [ok |-> TRUE, db |-> named]))
  IN  [t EXCEPT !.db.got = Nothing]

Resolve(b) ==
  /\ db' = IF Resolution(b).ok THEN Resolution(b).db ELSE db
  /\ UNCHANGED <<evidence, imprint, observed, nameEdits>>

(* Tags, catalogs and edits rewrite a book's candidates between its runs.   *)
Observe(b, k, list) ==
  /\ observed < MaxObserved
  /\ observed' = observed + 1
  /\ evidence' = [evidence EXCEPT ![k][b] = list]
  /\ UNCHANGED <<db, imprint, nameEdits>>

-----------------------------------------------------------------------------
(* The operator's requests *)

Edit(next) ==
  /\ nameEdits < MaxNameEdits
  /\ nameEdits' = nameEdits + 1
  /\ db' = next
  /\ UNCHANGED <<evidence, imprint, observed>>

Exists(k, i) == \E p \in db.people[k] : p.id = i

AddAlias(k, i, a) == Exists(k, i) /\ Edit(RegisterAlias(k, db, i, a, FALSE))

(* Mutant: the prime is demoted before the target is looked up.              *)
ExaltedAnyway(k, i, a) ==
  LET mine == {r \in Matches(k, db, a) : r.id = i}
  IN  [db EXCEPT !.aliases[k] = {IF r.id = i THEN [r EXCEPT !.prime = r \in mine] ELSE r : r \in @}]

(* move_prime: the one-prime index refuses to promote two spellings at once. *)
Exalted(k, i, a) ==
  LET mine == {r \in Matches(k, db, a) : r.id = i}
  IN  IF Cardinality(mine) # 1 \/ (\E r \in mine : r.prime) THEN db
      ELSE [db EXCEPT !.aliases[k] =
              {IF r.id = i THEN [r EXCEPT !.prime = r \in mine] ELSE r : r \in @}]
Exalt(k, i, a) == Exists(k, i) /\ Edit(Exalted(k, i, a))

(* Mutant: an author joins the book's author.                                *)
AttachJoins(k, d, b, i) == [d EXCEPT !.link[k][b] = @ \cup {i}]

Attach(k, d, b, i) ==
  [d EXCEPT !.link[k][b] = IF k = "authors" THEN {i} ELSE @ \cup {i}]

(* names_pending_list: what the operator is shown, oldest first.             *)
PendingList(d, k) == {p \in d.pending[k] : p.pick = Nothing}

(* names_pending_resolve: register the name, attach the choice, stamp the row. *)
SettleOn(k, p, d, i) ==
  LET stamped == [d EXCEPT !.pending[k] = (@ \ {p}) \cup {[p EXCEPT !.pick = i]}]
  IN  [Attach(k, RegisterAlias(k, stamped, i, p.alias, FALSE), p.book, i) EXCEPT !.got = Nothing]

Pick(k, p, i) == p.pick = Nothing /\ i \in p.options /\ Edit(SettleOn(k, p, db, i))

(* A new person whose Audible id is taken meets the unique index.           *)
CreateNew(k, p, a, ext) ==
  /\ p.pick = Nothing
  /\ k = "series" \/ ext = Nothing \/ \A q \in db.people[k] : q.ext # ext
  /\ LET d == Create(k, db, a, ext) IN Edit(SettleOn(k, p, d, d.got))

IdNext ==
  \/ \E b \in Books : Resolve(b)
  \/ \E b \in Books, k \in Kinds, list \in Lists : Observe(b, k, list)
  \/ \E k \in Kinds, i \in People, a \in Names : AddAlias(k, i, a) \/ Exalt(k, i, a)
  \/ \E k \in Kinds : \E p \in PendingList(db, k) :
       \/ \E i \in People : Pick(k, p, i)
       \/ \E a \in Names, ext \in OptionOf(Exts) : CreateNew(k, p, a, ext)

IdSpec == IdInit /\ [][IdNext]_idVars

-----------------------------------------------------------------------------
IdTypeOK ==
  /\ \A k \in Kinds :
       /\ db.people[k] \subseteq Person /\ db.aliases[k] \subseteq Alias
       /\ db.pending[k] \subseteq Pending
       /\ \A b \in Books : \A i \in db.link[k][b] : Exists(k, i)
  /\ \A b \in Books : "authors" \in Kinds => Cardinality(db.link["authors"][b]) <= 1
  /\ db.publisher \in [Books -> OptionOf(Publishers)]

(* Every row of authors, narrators and series can be found and shown: it has *)
(* exactly one prime spelling, its own name among its spellings, and (people) *)
(* an Audible id that no other has, whatever names are added or exalted.     *)
Findable ==
  \A k \in Kinds : \A p \in db.people[k] :
    /\ Cardinality({r \in db.aliases[k] : r.id = p.id /\ r.prime}) = 1
    /\ \E r \in db.aliases[k] : r.id = p.id /\ r.alias = p.name
    /\ \A q \in db.people[k] : k # "series" /\ q.ext = p.ext /\ p.ext # Nothing => q = p

Considered(k, list) == IF k = "authors" THEN DOMAIN list \cap {1} ELSE DOMAIN list

(* No candidate vanishes: after a completed run each name of the book is     *)
(* linked under one of its spellings, or is in the list that the operator    *)
(* sees, unless it was settled there before (SettledStays); and an ambiguous *)
(* name never costs a book the author it already has.                        *)
NothingVanishes ==
  [][/\ \A b \in Books : Resolve(b) /\ Resolution(b).ok =>
          \A k \in Kinds : \A n \in Considered(k, evidence[k][b]) :
            LET name == evidence[k][b][n].name
            IN  \/ \E r \in db'.aliases[k] : r.id \in db'.link[k][b] /\ SameName(r.alias, name)
                \/ \E p \in PendingList(db', k) \cup (db.pending[k] \ PendingList(db, k)) :
                     p.book = b /\ SameName(p.alias, name)
     /\ \A b \in Books : "authors" \in Kinds /\ db.link["authors"][b] # {} =>
          db'.link["authors"][b] # {}]_idVars

(* names.rs:527-529: what the operator settled on for a name stays linked     *)
(* while the book's sources keep naming it, since the name is registered to   *)
(* resolve straight to the choice.  Observed: with two spellings of it on     *)
(* record it is ambiguous again, and the settled row is no longer shown.      *)
SettledStays ==
  [][\A k \in Kinds : \A p \in db.pending[k] :
       /\ p.pick # Nothing /\ p.pick \in db.link[k][p.book]
       /\ \E n \in DOMAIN evidence[k][p.book] : evidence[k][p.book][n].name = p.alias
       => p.pick \in db'.link[k][p.book]]_idVars

(* Books whose only candidate carries different Audible ids never end up with *)
(* one and the same row: the id is the first thing to match by.               *)
DifferentIdsApart ==
  \A k \in Kinds : \A b, c \in Books :
    LET e == evidence[k][b] f == evidence[k][c]
    IN  Len(e) = 1 /\ Len(f) = 1 /\ e[1].ext # Nothing /\ f[1].ext # Nothing /\ e[1].ext # f[1].ext
        => db.link[k][b] \cap db.link[k][c] = {}

=============================================================================
