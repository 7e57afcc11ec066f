----------------------------- MODULE CatalogueProofs -----------------------------
(* What is proved of identities, provenance and chapters.                    *)
EXTENDS MCCatalogue, SequenceTheorems, FiniteSetTheorems, CommonProofs, TLAPS

-----------------------------------------------------------------------------
(* --- Provenance ---------------------------------------------------------- *)

-----------------------------------------------------------------------------
(* The invariant                                                             *)

EditsOf(b, f) == {r \in Of(b, f) : r.stage = Edited}

\* A candidate has a value of its field and is not from the future; the
\* operator's are the strongest, and nothing but promotion and the operator
\* makes a winner of one.
RowsSound ==
  /\ rows \subseteq FieldRow
  /\ \A r \in rows : r.at <= clock /\ r.value \in ValuesOf[r.field] /\ (r.stage = Edited <=> r.conf = 100) /\ r.conf <= 100
ColumnsSound ==
  /\ column \in [Books -> [title : OptionOf(Titles), asin : OptionOf(Asins)]]
  /\ looking \in [Books -> OptionOf(Asins)] /\ clock \in Nat
  /\ \A l \in learned : l.asin \in Asins

EditShown(b, f) == EditsOf(b, f) # {} => \E r \in Latest(EditsOf(b, f)) : Shows(b, f, r.value)
WinnersShown == \A r \in rows : r.win /\ r.field # "genre" => Shows(r.book, r.field, r.value)

PrInv == RowsSound /\ ColumnsSound /\ (\A b \in Books, f \in {"title", "asin"} : EditShown(b, f)) /\ WinnersShown

LEMMA Apart ==
  /\ Edited \notin Stages /\ Stages = {"read-tags", "search-audible", "enrich-from-audnexus", "promote-consensus"}
  /\ Confidence["search-audible"] = 60 /\ Confidence["read-tags"] = 70 /\ Confidence["learned"] = 80
  /\ Confidence["enrich-from-audnexus"] = 95 /\ Confidence[Edited] = 100
BY DEF Stages, Edited, Confidence

LEMMA PrInvInit == PrInit => PrInv
BY DEF PrInit, PrInv, RowsSound, ColumnsSound, EditShown, WinnersShown, EditsOf, Of, OptionOf

LEMMA PrInvSticks == PrInv => EditSticks
BY DEF PrInv, EditShown, WinnersShown, EditSticks, EditsOf

-----------------------------------------------------------------------------
(* FieldRow that differ in their flag alone                                      *)

SameRow(p, q) ==
  p.book = q.book /\ p.field = q.field /\ p.value = q.value /\ p.stage = q.stage /\ p.conf = q.conf /\ p.at = q.at

\* An edit that is shown is shown as long as the column and the edits stay.
LEMMA StillShown ==
  ASSUME NEW b, NEW f, EditShown(b, f),
         \A p \in EditsOf(b, f) : \E q \in EditsOf(b, f)' : SameRow(p, q),
         \A q \in EditsOf(b, f)' : \E p \in EditsOf(b, f) : SameRow(p, q),
         EditsOf(b, f) # {} => column'[b][f] = column[b][f]
  PROVE  EditShown(b, f)'
<1> SUFFICES ASSUME EditsOf(b, f)' # {}
             PROVE  \E r \in Latest(EditsOf(b, f)') : Shows(b, f, r.value)'
  BY DEF EditShown, Latest
<1>1. EditsOf(b, f) # {}
  OBVIOUS
<1>2. PICK p \in Latest(EditsOf(b, f)) : Shows(b, f, p.value)
  BY <1>1 DEF EditShown
<1>3. p \in EditsOf(b, f) /\ \A x \in EditsOf(b, f) : x.at <= p.at
  BY <1>2 DEF Latest
<1>4. PICK q \in EditsOf(b, f)' : SameRow(p, q)
  BY <1>3
<1>5. ASSUME NEW y \in EditsOf(b, f)'
      PROVE  y.at <= q.at
  <2>1. PICK x \in EditsOf(b, f) : SameRow(x, y)
    OBVIOUS
  <2>2. QED
    BY <1>3, <1>4, <2>1 DEF SameRow
<1>6. q \in Latest(EditsOf(b, f)')
  BY <1>5 DEF Latest
<1>7. Shows(b, f, q.value)'
  <2>1. column'[b][f] = column[b][f] /\ q.value = p.value
    BY <1>1, <1>4 DEF SameRow
  <2>2. f = "title" => column'[b].title = column[b].title
    BY <2>1
  <2>3. QED
    BY <1>2, <2>1, <2>2 DEF Shows
<1>8. QED
  BY <1>6, <1>7

\* What a stage adds or a retry takes back is no edit and no winner.
OnlyStagesRows ==
  /\ \A r \in rows : r.stage = Edited => r \in rows'
  /\ \A r \in rows' : r.stage = Edited \/ r.win => r \in rows
LEMMA StageKeeps ==
  ASSUME PrInv, RowsSound', ColumnsSound', OnlyStagesRows,
         \A b \in Books : column'[b].title = column[b].title /\ (column[b].asin # Nothing => column'[b].asin = column[b].asin)
  PROVE  PrInv'
<1>1. ASSUME NEW b \in Books, NEW f \in {"title", "asin"}
      PROVE  EditShown(b, f)'
  <2>1. EditsOf(b, f)' = EditsOf(b, f)
    BY DEF EditsOf, Of, OnlyStagesRows
  <2>2. ASSUME EditsOf(b, f) # {}
        PROVE  column'[b][f] = column[b][f]
    <3>1. PICK r \in EditsOf(b, f) : Shows(b, f, r.value)
      BY <2>2 DEF PrInv, EditShown, Latest
    <3>2. f = "asin" => r.value \in Asins
      BY <3>1 DEF PrInv, RowsSound, EditsOf, Of, ValuesOf
    <3>3. f = "asin" => column[b].asin # Nothing
      BY <3>1, <3>2, ProvenanceAssumption DEF Shows, Values
    <3>4. CASE f = "asin"
      BY <3>3, <3>4
    <3>5. CASE f = "title"
      BY <3>5
    <3>6. QED
      BY <3>4, <3>5
  <2>3. \A p : SameRow(p, p)
    BY DEF SameRow
  <2>4. QED
    BY <2>1, <2>2, <2>3, StillShown DEF PrInv
<1>2. ASSUME NEW r \in rows', r.win, r.field # "genre"
      PROVE  Shows(r.book, r.field, r.value)'
  <2>1. r \in rows /\ Shows(r.book, r.field, r.value)
    BY <1>2 DEF OnlyStagesRows, PrInv, WinnersShown
  <2>2. r.book \in Books /\ r.field \in {"title", "asin"} /\ r.value \in ValuesOf[r.field]
    BY <1>2, <2>1 DEF PrInv, RowsSound, FieldRow, Fields
  <2>3. CASE r.field = "title"
    BY <2>1, <2>2, <2>3 DEF Shows
  <2>4. CASE r.field = "asin"
    <3>1. r.value \in Asins /\ r.value # Nothing
      BY <2>2, <2>4, ProvenanceAssumption DEF ValuesOf, Values
    <3>2. column[r.book].asin = r.value
      BY <2>1, <2>4 DEF Shows
    <3>3. QED
      BY <2>2, <2>4, <3>1, <3>2 DEF Shows
  <2>5. QED
    BY <2>2, <2>3, <2>4
<1>3. QED
  BY <1>1, <1>2 DEF PrInv, WinnersShown

-----------------------------------------------------------------------------
(* The stages and retries                                                    *)

\* A row that a stage writes.
LEMMA StageRow ==
  ASSUME RowsSound, clock \in Nat, NEW b \in Books, NEW f \in Fields, NEW v \in ValuesOf[f], NEW s \in Stages,
         NEW c \in {60, 70, 80, 95}
  PROVE  /\ Row(b, f, v, s, c) \in FieldRow
         /\ Row(b, f, v, s, c).at <= clock /\ Row(b, f, v, s, c).value \in ValuesOf[Row(b, f, v, s, c).field]
         /\ Row(b, f, v, s, c).stage # Edited /\ Row(b, f, v, s, c).conf < 100 /\ ~Row(b, f, v, s, c).win
<1>1. v \in Values
  BY DEF Values, ValuesOf, Fields
<1>2. QED
  BY <1>1, Apart DEF Row, FieldRow

\* FieldRow of that kind may be added at any time.
CandidateRow(r) ==
  /\ r \in FieldRow /\ r.at <= clock /\ r.value \in ValuesOf[r.field]
  /\ r.stage # Edited /\ r.conf < 100 /\ ~r.win
LEMMA AddedKeeps ==
  ASSUME RowsSound, UNCHANGED clock, NEW new, \A r \in new : CandidateRow(r), rows' = rows \cup new
  PROVE  RowsSound' /\ OnlyStagesRows
<1>1. RowsSound'
  BY DEF RowsSound, CandidateRow, FieldRow
<1>2. OnlyStagesRows
  BY DEF OnlyStagesRows, CandidateRow
<1>3. QED
  BY <1>1, <1>2

LEMMA TagsKeep ==
  ASSUME PrInv, NEW b \in Books, ReadTags(b)
  PROVE  PrInv'
<1>1. PICK kept \in SUBSET Tags[b] :
        rows' = rows \cup {Row(b, t[1], t[2], "read-tags", Confidence["read-tags"]) : t \in {u \in kept : u[1] # "series"}}
  BY DEF ReadTags
<1>2. \A t \in {u \in kept : u[1] # "series"} : CandidateRow(Row(b, t[1], t[2], "read-tags", Confidence["read-tags"]))
  <2>1. \A t \in {u \in kept : u[1] # "series"} : t[1] \in Fields /\ t[2] \in ValuesOf[t[1]]
    BY ProvenanceAssumption
  <2>2. Confidence["read-tags"] = 70 /\ "read-tags" \in Stages
    BY Apart
  <2>3. QED
    BY <2>1, <2>2, StageRow DEF CandidateRow, PrInv, ColumnsSound
<1>3. UNCHANGED <<column, learned, looking, clock>>
  BY DEF ReadTags, prData
<1>4. ColumnsSound'
  BY <1>3 DEF PrInv, ColumnsSound
<1>5. RowsSound' /\ OnlyStagesRows
  <2>1. PICK new : new = {Row(b, t[1], t[2], "read-tags", Confidence["read-tags"]) : t \in {u \in kept : u[1] # "series"}}
    OBVIOUS
  <2>2. rows' = rows \cup new /\ \A r \in new : CandidateRow(r)
    BY <1>1, <1>2, <2>1
  <2>3. QED
    BY <1>3, <2>2, AddedKeeps DEF PrInv
<1>6. QED
  BY <1>3, <1>4, <1>5, StageKeeps

LEMMA SearchKeeps ==
  ASSUME PrInv, NEW b \in Books, SearchAudible(b)
  PROVE  PrInv'
<1>1. UNCHANGED <<column, learned, looking, clock>>
  BY DEF SearchAudible, prData
<1>2. ColumnsSound'
  BY <1>1 DEF PrInv, ColumnsSound
<1>3. "search-audible" \in Stages /\ Confidence["learned"] = 80 /\ Confidence["search-audible"] = 60
  BY Apart
<1>4. ASSUME NEW v \in Asins, NEW c \in {60, 80}
      PROVE  CandidateRow(Row(b, "asin", v, "search-audible", c))
  BY <1>3, StageRow DEF CandidateRow, PrInv, ColumnsSound, Fields, ValuesOf
<1>5. CASE UNCHANGED rows
  <2>1. RowsSound' /\ OnlyStagesRows
    BY <1>1, <1>5 DEF PrInv, RowsSound, OnlyStagesRows
  <2>2. QED
    BY <1>1, <1>2, <2>1, StageKeeps
<1>6. CASE \E v \in Asins, c \in {60, 80} : rows' = rows \cup {Row(b, "asin", v, "search-audible", c)}
  <2>1. PICK v \in Asins, c \in {60, 80} : rows' = rows \cup {Row(b, "asin", v, "search-audible", c)}
    BY <1>6
  <2>2. PICK new : new = {Row(b, "asin", v, "search-audible", c)}
    OBVIOUS
  <2>3. rows' = rows \cup new /\ \A r \in new : CandidateRow(r)
    BY <1>4, <2>1, <2>2
  <2>4. RowsSound' /\ OnlyStagesRows
    BY <1>1, <2>3, AddedKeeps DEF PrInv
  <2>5. QED
    BY <1>1, <1>2, <2>4, StageKeeps
<1>7. UNCHANGED rows \/ \E v \in Asins, c \in {60, 80} : rows' = rows \cup {Row(b, "asin", v, "search-audible", c)}
  <2>1. SUFFICES ASSUME ~UNCHANGED rows
                 PROVE  \E v \in Asins, c \in {60, 80} : rows' = rows \cup {Row(b, "asin", v, "search-audible", c)}
    OBVIOUS
  <2>2. PICK t \in Best(Of(b, "title")) :
          LET known == {l \in learned : l.title = t.value}
          IN  IF known # {}
              THEN \E l \in Latest(known) :
                     rows' = rows \cup {Row(b, "asin", l.asin, "search-audible", Confidence["learned"])}
              ELSE \/ UNCHANGED rows
                   \/ /\ OnAudible[t.value] # Nothing
                      /\ rows' = rows \cup {Row(b, "asin", OnAudible[t.value], "search-audible",
                                                Confidence["search-audible"])}
    BY <2>1 DEF SearchAudible
  <2>3. t.value \in Titles
    BY DEF Best, Of, PrInv, RowsSound, ValuesOf
  <2>4. CASE {l \in learned : l.title = t.value} # {}
    <3>1. PICK l \in Latest({x \in learned : x.title = t.value}) :
            rows' = rows \cup {Row(b, "asin", l.asin, "search-audible", Confidence["learned"])}
      BY <2>2, <2>4
    <3>2. l.asin \in Asins
      BY <3>1 DEF Latest, PrInv, ColumnsSound
    <3>3. QED
      BY <1>3, <3>1, <3>2
  <2>5. CASE {l \in learned : l.title = t.value} = {}
    <3>1. /\ OnAudible[t.value] # Nothing
          /\ rows' = rows \cup {Row(b, "asin", OnAudible[t.value], "search-audible", Confidence["search-audible"])}
      BY <2>1, <2>2, <2>5
    <3>2. OnAudible[t.value] \in Asins
      BY <2>3, <3>1, ProvenanceAssumption DEF OptionOf
    <3>3. QED
      BY <1>3, <3>1, <3>2
  <2>6. QED
    BY <2>4, <2>5
<1>8. QED
  BY <1>5, <1>6, <1>7

LEMMA EnrichKeeps ==
  ASSUME PrInv, NEW b \in Books, EnrichSkips(b) \/ EnrichAsks(b) \/ EnrichWrites(b)
  PROVE  PrInv'
<1>1. CASE EnrichSkips(b) \/ EnrichAsks(b)
  <2>1. UNCHANGED <<rows, column, learned, clock>>
    BY <1>1 DEF EnrichSkips, EnrichAsks, prData
  <2>2. looking' \in [Books -> OptionOf(Asins)]
    <3>1. CASE EnrichSkips(b)
      BY <3>1 DEF EnrichSkips, PrInv, ColumnsSound, OptionOf
    <3>2. CASE EnrichAsks(b)
      <4>1. PICK r \in Best(Of(b, "asin")) : looking' = [looking EXCEPT ![b] = r.value]
        BY <3>2 DEF EnrichAsks
      <4>2. r.value \in Asins
        BY DEF Best, Of, PrInv, RowsSound, ValuesOf
      <4>3. QED
        BY <4>1, <4>2 DEF PrInv, ColumnsSound, OptionOf
    <3>3. QED
      BY <1>1, <3>1, <3>2
  <2>3. ColumnsSound'
    BY <2>1, <2>2 DEF PrInv, ColumnsSound
  <2>4. RowsSound' /\ OnlyStagesRows
    BY <2>1 DEF PrInv, RowsSound, OnlyStagesRows
  <2>5. QED
    BY <2>1, <2>3, <2>4, StageKeeps
<1>2. CASE EnrichWrites(b)
  <2>1. looking[b] \in Asins
    BY <1>2 DEF EnrichWrites, PrInv, ColumnsSound, OptionOf
  <2>2. PICK new : new = EnrichRows(b, Audnexus[looking[b]])
    OBVIOUS
  <2>3. /\ rows' = rows \cup new /\ looking' = [looking EXCEPT ![b] = Nothing]
        /\ column' = AsinColumn(b) \/ column' = column
        /\ UNCHANGED <<learned, clock>>
    BY <1>2, <2>2 DEF EnrichWrites
  <2>4. \A r \in new : CandidateRow(r)
    <3>1. Confidence["enrich-from-audnexus"] = 95 /\ "enrich-from-audnexus" \in Stages
      BY Apart
    <3>2. Audnexus[looking[b]].title \in Titles /\ Audnexus[looking[b]].genres \subseteq Genres
      BY <2>1, ProvenanceAssumption
    <3>3. \A f \in {"title", "genre"} : \A v \in ValuesOf[f] : CandidateRow(Row(b, f, v, "enrich-from-audnexus", 95))
      BY <3>1, StageRow DEF CandidateRow, PrInv, ColumnsSound, Fields
    <3>4. QED
      BY <2>2, <3>1, <3>2, <3>3 DEF EnrichRows, ValuesOf
  <2>5. RowsSound' /\ OnlyStagesRows
    BY <2>3, <2>4, AddedKeeps DEF PrInv
  <2>6. ColumnsSound'
    BY <2>1, <2>3 DEF PrInv, ColumnsSound, OptionOf, AsinColumn
  <2>7. \A x \in Books : column'[x].title = column[x].title /\ (column[x].asin # Nothing => column'[x].asin = column[x].asin)
    BY <2>3 DEF PrInv, ColumnsSound, AsinColumn
  <2>8. QED
    BY <2>5, <2>6, <2>7, StageKeeps
<1>3. QED
  BY <1>1, <1>2

LEMMA OthersKeep ==
  ASSUME PrInv, (\E b \in Books, s \in Stages : Reset(b, s)) \/ Tick \/ UNCHANGED prVars
  PROVE  PrInv'
<1>1. UNCHANGED <<column, learned, looking>> /\ clock' \in Nat /\ clock <= clock'
  BY DEF Reset, Tick, prVars, prData, PrInv, ColumnsSound
<1>2. ColumnsSound'
  BY <1>1 DEF PrInv, ColumnsSound
<1>3. rows' \subseteq rows /\ \A r \in rows : r.stage = Edited => r \in rows'
  BY Apart DEF Reset, Tick, prVars
<1>4. RowsSound' /\ OnlyStagesRows
  BY <1>1, <1>3 DEF PrInv, ColumnsSound, RowsSound, OnlyStagesRows, FieldRow
<1>5. QED
  BY <1>1, <1>2, <1>4, StageKeeps

-----------------------------------------------------------------------------
(* Promotion                                                                 *)

\* Flags are set and taken back, of the book's titles and genres.
FlagsMoved(b, r) ==
  /\ \A p \in rows : \E q \in rows' : SameRow(p, q)
  /\ \A q \in rows' : \E p \in rows :
       /\ SameRow(p, q) /\ q \in FieldRow
       /\ ~(p.book = b /\ p.field \in {"title", "genre"}) => q = p
       /\ p.book = b /\ p.field = "title" /\ q.win => p = r

LEMMA Reflagged ==
  ASSUME NEW q \in FieldRow, NEW w \in BOOLEAN
  PROVE  /\ [q EXCEPT !.win = w] \in FieldRow /\ SameRow(q, [q EXCEPT !.win = w])
         /\ [q EXCEPT !.win = w].win = w
BY DEF FieldRow, SameRow

LEMMA PromotionFlags ==
  ASSUME PrInv, NEW b \in Books, NEW r,
         r = Nothing => Of(b, "title") = {},
         rows' = CrownGenres(b, IF r = Nothing THEN rows ELSE Crown(b, "title", r))
  PROVE  FlagsMoved(b, r)
<1>1. PICK S : S = IF r = Nothing THEN rows ELSE Crown(b, "title", r)
  OBVIOUS
<1>0. \A p \in rows : p \in FieldRow /\ SameRow(p, p)
  BY DEF PrInv, RowsSound, SameRow
<1>2. \A p \in rows : \E q \in S : SameRow(p, q)
  <2>1. CASE r = Nothing
    BY <1>1, <2>1 DEF SameRow
  <2>2. CASE r # Nothing
    <3>1. ASSUME NEW p \in rows
          PROVE  \E q \in S : SameRow(p, q)
      <4>1. (IF p.book = b /\ p.field = "title" THEN [p EXCEPT !.win = (p = r)] ELSE p) \in S
        BY <1>1, <2>2 DEF Crown
      <4>2. QED
        BY <1>0, <4>1, Reflagged
    <3>2. QED
      BY <3>1
  <2>3. QED
    BY <2>1, <2>2
<1>3. \A q \in S : \E p \in rows :
        /\ SameRow(p, q) /\ q \in FieldRow
        /\ ~(p.book = b /\ p.field = "title") => q = p
        /\ p.book = b /\ p.field = "title" /\ q.win => p = r
  <2>1. CASE r = Nothing
    BY <1>1, <2>1 DEF SameRow, Of, PrInv, RowsSound
  <2>2. CASE r # Nothing
    <3>1. ASSUME NEW q \in S
          PROVE  \E p \in rows :
                   /\ SameRow(p, q) /\ q \in FieldRow
                   /\ ~(p.book = b /\ p.field = "title") => q = p
                   /\ p.book = b /\ p.field = "title" /\ q.win => p = r
      <4>1. PICK p \in rows : q = IF p.book = b /\ p.field = "title" THEN [p EXCEPT !.win = (p = r)] ELSE p
        BY <1>1, <2>2 DEF Crown
      <4>2. (p = r) \in BOOLEAN
        OBVIOUS
      <4>3. QED
        BY <1>0, <4>1, <4>2, Reflagged
    <3>2. QED
      BY <3>1
  <2>3. QED
    BY <2>1, <2>2
<1>4. PICK W : W = GenreWinners(b)
  OBVIOUS
<1>5. rows' = {IF q.book = b /\ q.field = "genre" THEN [q EXCEPT !.win = (q \in W)] ELSE q : q \in S}
  BY <1>1, <1>4 DEF CrownGenres
<1>6. \A q \in S : q \in FieldRow
  BY <1>3
<1>7. \A q \in S : \E x \in rows' : SameRow(q, x)
  <2>1. ASSUME NEW q \in S
        PROVE  \E x \in rows' : SameRow(q, x)
    <3>1. (IF q.book = b /\ q.field = "genre" THEN [q EXCEPT !.win = (q \in W)] ELSE q) \in rows'
      BY <1>5
    <3>2. (q \in W) \in BOOLEAN /\ SameRow(q, q)
      BY DEF SameRow
    <3>3. QED
      BY <1>6, <3>1, <3>2, Reflagged
  <2>2. QED
    BY <2>1
<1>8. \A x \in rows' : \E q \in S : SameRow(q, x) /\ x \in FieldRow /\ (~(q.book = b /\ q.field = "genre") => x = q)
  <2>1. ASSUME NEW x \in rows'
        PROVE  \E q \in S : SameRow(q, x) /\ x \in FieldRow /\ (~(q.book = b /\ q.field = "genre") => x = q)
    <3>1. PICK q \in S : x = IF q.book = b /\ q.field = "genre" THEN [q EXCEPT !.win = (q \in W)] ELSE q
      BY <1>5
    <3>2. (q \in W) \in BOOLEAN /\ SameRow(q, q)
      BY DEF SameRow
    <3>3. QED
      BY <1>6, <3>1, <3>2, Reflagged
  <2>2. QED
    BY <2>1
<1>9. ASSUME NEW p \in rows
      PROVE  \E x \in rows' : SameRow(p, x)
  <2>1. PICK q \in S : SameRow(p, q)
    BY <1>2
  <2>2. PICK x \in rows' : SameRow(q, x)
    BY <1>7
  <2>3. QED
    BY <2>1, <2>2 DEF SameRow
<1>10. ASSUME NEW x \in rows'
       PROVE  \E p \in rows :
                /\ SameRow(p, x) /\ x \in FieldRow
                /\ ~(p.book = b /\ p.field \in {"title", "genre"}) => x = p
                /\ p.book = b /\ p.field = "title" /\ x.win => p = r
  <2>1. PICK q \in S : SameRow(q, x) /\ x \in FieldRow /\ (~(q.book = b /\ q.field = "genre") => x = q)
    BY <1>8
  <2>2. PICK p \in rows :
          /\ SameRow(p, q) /\ q \in FieldRow
          /\ ~(p.book = b /\ p.field = "title") => q = p
          /\ p.book = b /\ p.field = "title" /\ q.win => p = r
    BY <1>3
  <2>3. QED
    BY <2>1, <2>2 DEF SameRow
<1>11. QED
  BY <1>9, <1>10 DEF FlagsMoved

\* The strongest title is an edit if there is one, and then the latest.
LEMMA EditIsBest ==
  ASSUME PrInv, NEW b \in Books, EditsOf(b, "title") # {}, NEW r \in TitleWinners(b)
  PROVE  r \in Latest(EditsOf(b, "title"))
<1>1. PICK e \in EditsOf(b, "title") : TRUE
  OBVIOUS
<1>2. e \in Of(b, "title") /\ e.conf = 100 /\ \A q \in Of(b, "title") : q.conf \in Nat /\ q.at \in Nat /\ q.conf <= 100
  BY <1>1 DEF EditsOf, Of, PrInv, RowsSound, FieldRow
<1>3. r \in Of(b, "title") /\ \A q \in Of(b, "title") : q.conf < r.conf \/ (q.conf = r.conf /\ q.at <= r.at)
  BY DEF TitleWinners, Best
<1>4. r.conf = 100
  BY <1>2, <1>3
<1>5. r \in EditsOf(b, "title")
  BY <1>3, <1>4 DEF EditsOf, Of, PrInv, RowsSound
<1>6. \A q \in EditsOf(b, "title") : q.at <= r.at
  BY <1>2, <1>3, <1>4 DEF EditsOf, Of, PrInv, RowsSound
<1>7. QED
  BY <1>5, <1>6 DEF Latest

\* Promotion shows the title that it crowns, and leaves every other column.
LEMMA FlaggedKeeps ==
  ASSUME PrInv, NEW b \in Books, NEW r, FlagsMoved(b, r), UNCHANGED <<learned, looking, clock>>,
         column' \in [Books -> [title : OptionOf(Titles), asin : OptionOf(Asins)]],
         \A x \in Books : column'[x].asin = column[x].asin /\ (x # b => column'[x] = column[x]),
         \/ \A x \in rows : ~(x.book = b /\ x.field = "title")
         \/ r \in TitleWinners(b) /\ column'[b].title = Cleaned[r.value]
  PROVE  PrInv'
<1>1. ColumnsSound'
  BY DEF PrInv, ColumnsSound
<1>2. RowsSound'
  <2>1. ASSUME NEW q \in rows'
        PROVE  /\ q \in FieldRow /\ q.at <= clock /\ q.value \in ValuesOf[q.field]
               /\ (q.stage = Edited <=> q.conf = 100) /\ q.conf <= 100
    BY DEF FlagsMoved, SameRow, PrInv, RowsSound
  <2>2. QED
    BY <2>1 DEF RowsSound
<1>3. ASSUME NEW x \in Books, NEW f \in {"title", "asin"}
      PROVE  /\ \A p \in EditsOf(x, f) : \E q \in EditsOf(x, f)' : SameRow(p, q)
             /\ \A q \in EditsOf(x, f)' : \E p \in EditsOf(x, f) : SameRow(p, q)
  BY DEF FlagsMoved, EditsOf, Of, SameRow
<1>4. ASSUME NEW x \in Books, NEW f \in {"title", "asin"}, ~(x = b /\ f = "title")
      PROVE  EditShown(x, f)'
  <2>1. column'[x][f] = column[x][f]
    <3>1. CASE f = "asin"
      BY <3>1
    <3>2. CASE f = "title"
      BY <1>4, <3>2
    <3>3. QED
      BY <3>1, <3>2
  <2>2. QED
    BY <1>3, <2>1, StillShown DEF PrInv
<1>5. EditShown(b, "title")'
  <2>1. CASE EditsOf(b, "title") = {}
    <3>1. EditsOf(b, "title")' = {}
      BY <1>3, <2>1
    <3>2. QED
      BY <3>1 DEF EditShown
  <2>2. CASE EditsOf(b, "title") # {}
    <3>1. r \in TitleWinners(b) /\ column'[b].title = Cleaned[r.value]
      BY <2>2 DEF EditsOf, Of
    <3>2. r \in EditsOf(b, "title") /\ \A q \in EditsOf(b, "title") : q.at <= r.at
      BY <2>2, <3>1, EditIsBest DEF Latest
    <3>3. PICK q \in EditsOf(b, "title")' : SameRow(r, q)
      BY <1>3, <3>2
    <3>4. \A y \in EditsOf(b, "title")' : y.at <= q.at
      BY <1>3, <3>2, <3>3 DEF SameRow
    <3>5. q \in Latest(EditsOf(b, "title")')
      BY <3>4 DEF Latest
    <3>6. Shows(b, "title", q.value)'
      BY <3>1, <3>3 DEF Shows, SameRow
    <3>7. QED
      BY <3>5, <3>6 DEF EditShown, Latest
  <2>3. QED
    BY <2>1, <2>2
<1>6. ASSUME NEW q \in rows', q.win, q.field # "genre"
      PROVE  Shows(q.book, q.field, q.value)'
  <2>1. PICK p \in rows :
          /\ SameRow(p, q) /\ q \in FieldRow
          /\ ~(p.book = b /\ p.field \in {"title", "genre"}) => q = p
          /\ p.book = b /\ p.field = "title" /\ q.win => p = r
    BY DEF FlagsMoved
  <2>2. q.book \in Books /\ q.field \in {"title", "asin"}
    BY <1>6, <2>1 DEF FieldRow, Fields
  <2>3. CASE q.book = b /\ q.field = "title"
    <3>1. p = r /\ column'[b].title = Cleaned[r.value] /\ q.value = r.value
      BY <1>6, <2>1, <2>3 DEF SameRow
    <3>2. QED
      BY <2>3, <3>1 DEF Shows
  <2>4. CASE ~(q.book = b /\ q.field = "title")
    <3>1. q = p
      BY <1>6, <2>1, <2>4 DEF SameRow
    <3>2. Shows(q.book, q.field, q.value)
      BY <1>6, <3>1 DEF PrInv, WinnersShown
    <3>3. CASE q.field = "asin"
      BY <2>2, <3>2, <3>3 DEF Shows
    <3>4. CASE q.field = "title"
      BY <2>2, <2>4, <3>2, <3>4 DEF Shows
    <3>5. QED
      BY <2>2, <3>3, <3>4
  <2>5. QED
    BY <2>3, <2>4
<1>7. QED
  BY <1>1, <1>2, <1>4, <1>5, <1>6 DEF PrInv, WinnersShown

LEMMA PromoteKeeps ==
  ASSUME PrInv, NEW b \in Books, Promote(b)
  PROVE  PrInv'
<1>1. PICK r \in IF Of(b, "title") = {} THEN {Nothing} ELSE TitleWinners(b) :
        LET titled == IF r = Nothing THEN column ELSE [column EXCEPT ![b].title = r.value]
        IN  /\ rows' = CrownGenres(b, IF r = Nothing THEN rows ELSE Crown(b, "title", r))
            /\ column' = [titled EXCEPT ![b].title = IF @ = Nothing THEN @ ELSE Cleaned[@]]
  BY DEF Promote
<1>2. UNCHANGED <<learned, looking, clock>>
  BY DEF Promote
<1>3. CASE Of(b, "title") = {}
  <2>1. r = Nothing
    BY <1>1, <1>3
  <2>2. FlagsMoved(b, r)
    BY <1>1, <1>3, <2>1, PromotionFlags
  <2>3. column' = [column EXCEPT ![b].title = IF @ = Nothing THEN @ ELSE Cleaned[@]]
    BY <1>1, <2>1
  <2>4. column \in [Books -> [title : OptionOf(Titles), asin : OptionOf(Asins)]]
    BY DEF PrInv, ColumnsSound
  <2>5. /\ column' \in [Books -> [title : OptionOf(Titles), asin : OptionOf(Asins)]]
        /\ \A x \in Books : column'[x].asin = column[x].asin /\ (x # b => column'[x] = column[x])
    BY <2>3, <2>4, ProvenanceAssumption DEF OptionOf
  <2>6. \A x \in rows : ~(x.book = b /\ x.field = "title")
    BY <1>3 DEF Of
  <2>7. QED
    BY <1>2, <2>2, <2>5, <2>6, FlaggedKeeps
<1>4. CASE Of(b, "title") # {}
  <2>1. r \in TitleWinners(b) /\ r \in Of(b, "title")
    BY <1>1, <1>4 DEF TitleWinners, Best
  <2>2. r # Nothing /\ r.value \in Titles
    BY <2>1, ProvenanceAssumption DEF Of, PrInv, RowsSound, ValuesOf
  <2>3. FlagsMoved(b, r)
    BY <1>1, <2>2, PromotionFlags
  <2>4. column \in [Books -> [title : OptionOf(Titles), asin : OptionOf(Asins)]] /\ r.value # Nothing
    BY <2>2, ProvenanceAssumption DEF PrInv, ColumnsSound, Values
  <2>5. column' = [column EXCEPT ![b].title = Cleaned[r.value]]
    <3>1. PICK titled : titled = [column EXCEPT ![b].title = r.value]
      OBVIOUS
    <3>2. column' = [titled EXCEPT ![b].title = IF @ = Nothing THEN @ ELSE Cleaned[@]]
      BY <1>1, <2>2, <3>1
    <3>3. titled[b].title = r.value
      BY <2>4, <3>1
    <3>4. column' = [titled EXCEPT ![b].title = Cleaned[r.value]]
      BY <2>4, <3>2, <3>3
    <3>5. QED
      BY <2>4, <3>1, <3>4
  <2>6. /\ column' \in [Books -> [title : OptionOf(Titles), asin : OptionOf(Asins)]]
        /\ \A x \in Books : column'[x].asin = column[x].asin /\ (x # b => column'[x] = column[x])
        /\ column'[b].title = Cleaned[r.value]
    BY <2>2, <2>4, <2>5, ProvenanceAssumption DEF OptionOf
  <2>7. QED
    BY <1>2, <2>1, <2>3, <2>6, FlaggedKeeps
<1>5. QED
  BY <1>3, <1>4

-----------------------------------------------------------------------------
(* The operator's edit                                                       *)

LEMMA PatchKeeps ==
  ASSUME PrInv, NEW b \in Books, NEW f \in {"title", "asin"}, NEW v \in ValuesOf[f], Patch(b, f, v)
  PROVE  PrInv'
<1>1. /\ rows' = UserEdit(b, f, v) /\ column' = [column EXCEPT ![b][f] = v] /\ UNCHANGED <<looking, clock>>
      /\ learned' = IF f = "asin" THEN Capture(column[b].title, v) ELSE learned
  BY DEF Patch
<1>2. PICK new : new = [Row(b, f, v, Edited, Confidence[Edited]) EXCEPT !.win = TRUE]
  OBVIOUS
<1>3. /\ new \in FieldRow /\ new.book = b /\ new.field = f /\ new.value = v /\ new.stage = Edited
      /\ new.conf = 100 /\ new.at = clock /\ new.win
  <2>1. v \in Values /\ f \in Fields /\ clock \in Nat
    BY DEF Values, ValuesOf, Fields, PrInv, ColumnsSound
  <2>2. new = [[book |-> b, field |-> f, value |-> v, stage |-> Edited, conf |-> 100, at |-> clock, win |-> FALSE]
                 EXCEPT !.win = TRUE]
    BY <1>2, Apart DEF Row
  <2>3. new = [book |-> b, field |-> f, value |-> v, stage |-> Edited, conf |-> 100, at |-> clock, win |-> TRUE]
    BY <2>2
  <2>4. QED
    BY <2>1, <2>3 DEF FieldRow
<1>4. \A p \in rows : p \in FieldRow /\ SameRow(p, p)
  BY DEF PrInv, RowsSound, SameRow
<1>5. \A p \in rows : \E q \in rows' : SameRow(p, q)
  <2>1. ASSUME NEW p \in rows
        PROVE  \E q \in rows' : SameRow(p, q)
    <3>1. (IF p.book = b /\ p.field = f THEN [p EXCEPT !.win = FALSE] ELSE p) \in rows'
      BY <1>1 DEF UserEdit
    <3>2. QED
      BY <1>4, <3>1, Reflagged
  <2>2. QED
    BY <2>1
<1>6. \A q \in rows' : q = new \/ \E p \in rows : SameRow(p, q) /\ q \in FieldRow /\ IF p.book = b /\ p.field = f THEN ~q.win ELSE q = p
  <2>1. ASSUME NEW q \in rows', q # new
        PROVE  \E p \in rows : SameRow(p, q) /\ q \in FieldRow /\ IF p.book = b /\ p.field = f THEN ~q.win ELSE q = p
    <3>1. PICK p \in rows : q = IF p.book = b /\ p.field = f THEN [p EXCEPT !.win = FALSE] ELSE p
      BY <1>1, <1>2, <2>1 DEF UserEdit
    <3>2. QED
      BY <1>4, <3>1, Reflagged
  <2>2. QED
    BY <2>1
<1>7. new \in rows'
  BY <1>1, <1>2 DEF UserEdit
<1>8. RowsSound'
  <2>1. ASSUME NEW q \in rows'
        PROVE  /\ q \in FieldRow /\ q.at <= clock /\ q.value \in ValuesOf[q.field]
               /\ (q.stage = Edited <=> q.conf = 100) /\ q.conf <= 100
    <3>1. CASE q = new
      BY <1>3, <3>1 DEF PrInv, ColumnsSound
    <3>2. CASE q # new
      BY <1>6, <3>2 DEF SameRow, PrInv, RowsSound
    <3>3. QED
      BY <3>1, <3>2
  <2>2. QED
    BY <1>1, <2>1 DEF RowsSound
<1>9. column \in [Books -> [title : OptionOf(Titles), asin : OptionOf(Asins)]]
  BY DEF PrInv, ColumnsSound
<1>10. /\ column' \in [Books -> [title : OptionOf(Titles), asin : OptionOf(Asins)]]
       /\ \A x \in Books : x # b => column'[x] = column[x]
       /\ f = "title" => column'[b].title = v /\ column'[b].asin = column[b].asin
       /\ f = "asin" => column'[b].asin = v /\ column'[b].title = column[b].title
  <2>1. CASE f = "title"
    BY <1>1, <1>9, <2>1 DEF ValuesOf, OptionOf
  <2>2. CASE f = "asin"
    BY <1>1, <1>9, <2>2 DEF ValuesOf, OptionOf
  <2>3. QED
    BY <2>1, <2>2
<1>11. ColumnsSound'
  <2>1. ASSUME f = "asin"
        PROVE  \A l \in learned' : l.asin \in Asins
    BY <1>1, <2>1 DEF Capture, PrInv, ColumnsSound, ValuesOf
  <2>2. \A l \in learned' : l.asin \in Asins
    BY <1>1, <2>1 DEF PrInv, ColumnsSound
  <2>3. QED
    BY <1>1, <1>10, <2>2 DEF PrInv, ColumnsSound
<1>12. EditShown(b, f)'
  <2>1. new \in EditsOf(b, f)' /\ \A q \in EditsOf(b, f)' : q.at <= new.at
    BY <1>1, <1>3, <1>7, <1>8 DEF EditsOf, Of, RowsSound
  <2>2. Shows(b, f, new.value)'
    <3>1. CASE f = "title"
      BY <1>3, <1>10, <3>1 DEF Shows
    <3>2. CASE f = "asin"
      BY <1>3, <1>10, <3>2 DEF Shows
    <3>3. QED
      BY <3>1, <3>2
  <2>3. new \in Latest(EditsOf(b, f)')
    BY <2>1 DEF Latest
  <2>4. QED
    BY <2>2, <2>3 DEF EditShown, Latest
<1>13. ASSUME NEW x \in Books, NEW g \in {"title", "asin"}, ~(x = b /\ g = f)
       PROVE  EditShown(x, g)'
  <2>1. /\ \A p \in EditsOf(x, g) : \E q \in EditsOf(x, g)' : SameRow(p, q)
        /\ \A q \in EditsOf(x, g)' : \E p \in EditsOf(x, g) : SameRow(p, q)
    BY <1>3, <1>5, <1>6, <1>13 DEF EditsOf, Of, SameRow
  <2>2. column'[x][g] = column[x][g]
    <3>1. CASE g = "asin"
      BY <1>10, <1>13, <3>1
    <3>2. CASE g = "title"
      BY <1>10, <1>13, <3>2
    <3>3. QED
      BY <3>1, <3>2
  <2>3. QED
    BY <2>1, <2>2, StillShown DEF PrInv
<1>14. ASSUME NEW q \in rows', q.win, q.field # "genre"
       PROVE  Shows(q.book, q.field, q.value)'
  <2>1. CASE q = new
    <3>1. CASE f = "title"
      BY <1>3, <1>10, <2>1, <3>1 DEF Shows
    <3>2. CASE f = "asin"
      BY <1>3, <1>10, <2>1, <3>2 DEF Shows
    <3>3. QED
      BY <3>1, <3>2
  <2>2. CASE q # new
    <3>1. q \in rows /\ ~(q.book = b /\ q.field = f)
      BY <1>6, <1>14, <2>2
    <3>2. Shows(q.book, q.field, q.value) /\ q.book \in Books /\ q.field \in {"title", "asin"}
      BY <1>14, <3>1 DEF PrInv, WinnersShown, RowsSound, FieldRow, Fields
    <3>3. CASE q.field = "asin"
      BY <1>10, <3>1, <3>2, <3>3 DEF Shows
    <3>4. CASE q.field = "title"
      BY <1>10, <3>1, <3>2, <3>4 DEF Shows
    <3>5. QED
      BY <3>2, <3>3, <3>4
  <2>3. QED
    BY <2>1, <2>2
<1>15. QED
  BY <1>8, <1>11, <1>12, <1>13, <1>14 DEF PrInv, WinnersShown

LEMMA PrStepKeeps ==
  ASSUME PrInv, [\E b \in Books : PrStep(b)]_prVars
  PROVE  PrInv'
<1>1. CASE UNCHANGED prVars
  BY <1>1, OthersKeep
<1>2. ASSUME NEW b \in Books, PrStep(b)
      PROVE  PrInv'
  <2>1. CASE ReadTags(b)
    BY <2>1, TagsKeep
  <2>2. CASE SearchAudible(b)
    BY <2>2, SearchKeeps
  <2>3. CASE EnrichSkips(b) \/ EnrichAsks(b) \/ EnrichWrites(b)
    BY <2>3, EnrichKeeps
  <2>4. CASE Promote(b)
    BY <2>4, PromoteKeeps
  <2>5. CASE (\E s \in Stages : Reset(b, s)) \/ Tick
    BY <2>5, OthersKeep
  <2>6. CASE \E t \in Titles : Patch(b, "title", t)
    BY <2>6, PatchKeeps DEF ValuesOf
  <2>7. CASE \E a \in Asins : Patch(b, "asin", a)
    BY <2>7, PatchKeeps DEF ValuesOf
  <2>8. QED
    BY <1>2, <2>1, <2>2, <2>3, <2>4, <2>5, <2>6, <2>7 DEF PrStep
<1>3. QED
  BY <1>1, <1>2

\* What the operator set is what the column shows, whatever the files, the
\* searches and the lookups say, however often a stage is run again and
\* whenever a lookup that was under way writes; and a winner is what its column
\* shows (api/user_edits.rs, catalog/consensus.rs, catalog/enrich.rs).
THEOREM OperatorHasTheLastWord == PrSpec => []EditSticks
<1>1. PrInv /\ [\E b \in Books : PrStep(b)]_prVars => PrInv'
  BY PrStepKeeps
<1>2. QED
  BY <1>1, PrInvInit, PrInvSticks, PTL DEF PrSpec

-----------------------------------------------------------------------------
(* --- Types of Provenance ------------------------------------------------- *)

\* The stages that are done and the genres of a book, over the invariant.
GenresTyped == genreOf \in [Books -> SUBSET Genres]
DoneTyped == done \in [Books -> SUBSET Stages]
PrTyped == PrInv /\ GenresTyped /\ DoneTyped

LEMMA PrTypedInit == PrInit => PrTyped
BY PrInvInit DEF PrInit, PrTyped, GenresTyped, DoneTyped

LEMMA PrTypedIsTypeOK == PrTyped => PrTypeOK
BY DEF PrTyped, GenresTyped, DoneTyped, PrInv, RowsSound, ColumnsSound, PrTypeOK

LEMMA PromotedGenres ==
  ASSUME PrInv, GenresTyped, NEW b \in Books, Promote(b)
  PROVE  GenresTyped'
<1>1. PICK slugs : slugs = {g.value : g \in Of(b, "genre")}
  OBVIOUS
<1>2. slugs \subseteq Genres
  <2>1. \A g \in Of(b, "genre") : g.value \in Genres
    BY DEF PrInv, RowsSound, Of, ValuesOf
  <2>2. QED
    BY <1>1, <2>1
<1>3. genreOf' = genreOf \/ genreOf' = [genreOf EXCEPT ![b] = slugs]
  BY <1>1 DEF Promote
<1>4. QED
  BY <1>2, <1>3 DEF GenresTyped

LEMMA DoneStaysTyped ==
  ASSUME DoneTyped, NEW b \in Books,
         (\E s \in Stages : Finished(b, s) \/ done' = [done EXCEPT ![b] = @ \ {s}]) \/ done' = done
  PROVE  DoneTyped'
BY DEF DoneTyped, Finished

LEMMA PrStepTyped ==
  ASSUME PrTyped, NEW b \in Books, PrStep(b)
  PROVE  PrTyped'
<1>1. PrInv /\ GenresTyped /\ DoneTyped
  BY DEF PrTyped
<1>2. PrInv'
  BY <1>1, PrStepKeeps
<1>3. GenresTyped'
  <2>1. CASE Promote(b)
    BY <1>1, <2>1, PromotedGenres
  <2>2. CASE genreOf' = genreOf
    BY <1>1, <2>2 DEF GenresTyped
  <2>3. Promote(b) \/ genreOf' = genreOf
    BY DEF PrStep, ReadTags, SearchAudible, EnrichSkips, EnrichAsks, EnrichWrites, Reset, Patch, Tick, prData
  <2>4. QED
    BY <2>1, <2>2, <2>3
<1>4. DoneTyped'
  <2>1. (\E s \in Stages : Finished(b, s) \/ done' = [done EXCEPT ![b] = @ \ {s}]) \/ done' = done
    <3>1. /\ "read-tags" \in Stages /\ "search-audible" \in Stages
          /\ "enrich-from-audnexus" \in Stages /\ "promote-consensus" \in Stages
      BY DEF Stages
    <3>2. CASE ReadTags(b) \/ SearchAudible(b)
      BY <3>1, <3>2 DEF ReadTags, SearchAudible
    <3>3. CASE EnrichSkips(b) \/ EnrichAsks(b) \/ EnrichWrites(b)
      BY <3>1, <3>3 DEF EnrichSkips, EnrichAsks, EnrichWrites
    <3>4. CASE Promote(b)
      BY <3>1, <3>4 DEF Promote
    <3>5. CASE \E s \in Stages : Reset(b, s)
      BY <3>5 DEF Reset
    <3>6. CASE (\E t \in Titles : Patch(b, "title", t)) \/ (\E a \in Asins : Patch(b, "asin", a)) \/ Tick
      BY <3>6 DEF Patch, Tick
    <3>7. QED
      BY <3>2, <3>3, <3>4, <3>5, <3>6 DEF PrStep
  <2>2. QED
    BY <1>1, <2>1, DoneStaysTyped
<1>5. QED
  BY <1>2, <1>3, <1>4 DEF PrTyped

LEMMA PrStutterTyped ==
  ASSUME PrTyped, UNCHANGED prVars
  PROVE  PrTyped'
<1>1. PrInv'
  BY PrStepKeeps DEF PrTyped
<1>2. QED
  BY <1>1 DEF PrTyped, GenresTyped, DoneTyped, prVars

-----------------------------------------------------------------------------
(* --- Identity ------------------------------------------------------------ *)

-----------------------------------------------------------------------------
(* The invariant                                                             *)

\* The people of one kind are numbered from 1, and no alias is of nobody.
PrimesOf(k, d, i) == {r \in d.aliases[k] : r.id = i /\ r.prime}
PeopleRow(p) == DOMAIN p = {"id", "name", "ext"} /\ p.id \in Nat
AliasRow(r) == r = [id |-> r.id, alias |-> r.alias, prime |-> r.prime] /\ r.prime \in BOOLEAN
Numbered(k, d) ==
  /\ IsFiniteSet(d.people[k]) /\ IsFiniteSet(d.aliases[k])
  /\ \A p \in d.people[k] : PeopleRow(p) /\ p.id <= Cardinality(d.people[k])
  /\ \A p, q \in d.people[k] : p.id = q.id => p = q
  /\ \A r \in d.aliases[k] : AliasRow(r) /\ \E p \in d.people[k] : p.id = r.id
OwnNames(k, d) ==
  \A p \in d.people[k] :
    /\ \E x : PrimesOf(k, d, p.id) = {x}
    /\ \E r \in d.aliases[k] : r.id = p.id /\ r.alias = p.name
OwnIds(k, d) == k # "series" => \A p, q \in d.people[k] : p.ext # Nothing /\ q.ext = p.ext => q = p
Known(k, d) == Numbered(k, d) /\ OwnNames(k, d) /\ OwnIds(k, d)

Shaped(d) ==
  /\ DOMAIN d = {"people", "aliases", "pending", "link", "publisher", "franchise", "sortKey", "got"}
  /\ DOMAIN d.people = Kinds /\ DOMAIN d.aliases = Kinds /\ DOMAIN d.pending = Kinds /\ DOMAIN d.link = Kinds
  /\ \A k \in Kinds : DOMAIN d.link[k] = Books
DbKnown(d) == Shaped(d) /\ \A k \in Kinds : Known(k, d)

LEMMA KnownIsFindable ==
  ASSUME DbKnown(db)
  PROVE  Findable
<1> SUFFICES ASSUME NEW k \in Kinds, NEW p \in db.people[k]
             PROVE  /\ Cardinality({r \in db.aliases[k] : r.id = p.id /\ r.prime}) = 1
                    /\ \E r \in db.aliases[k] : r.id = p.id /\ r.alias = p.name
                    /\ \A q \in db.people[k] : k # "series" /\ q.ext = p.ext /\ p.ext # Nothing => q = p
  BY DEF Findable
<1>1. Known(k, db)
  BY DEF DbKnown
<1>2. PICK x : PrimesOf(k, db, p.id) = {x}
  BY <1>1 DEF Known, OwnNames
<1>3. Cardinality({r \in db.aliases[k] : r.id = p.id /\ r.prime}) = 1
  BY <1>2, FS_Singleton DEF PrimesOf
<1>4. QED
  BY <1>1, <1>3 DEF Known, OwnNames, OwnIds

LEMMA EmptyIsKnown == IdInit => DbKnown(db)
<1> SUFFICES ASSUME IdInit PROVE DbKnown(db)
  OBVIOUS
<1>1. Shaped(db)
  BY DEF IdInit, Shaped
<1>2. ASSUME NEW k \in Kinds
      PROVE  Known(k, db)
  <2>1. db.people[k] = {} /\ db.aliases[k] = {}
    BY DEF IdInit
  <2>2. QED
    BY <2>1, FS_EmptySet DEF Known, Numbered, OwnNames, OwnIds
<1>3. QED
  BY <1>1, <1>2 DEF DbKnown

LEMMA SameRowsKnown ==
  ASSUME NEW k, NEW d, NEW e, Known(k, d), e.people[k] = d.people[k], e.aliases[k] = d.aliases[k]
  PROVE  Known(k, e)
<1>1. PICK P, A : P = d.people[k] /\ A = d.aliases[k]
  OBVIOUS
<1>2. e.people[k] = P /\ e.aliases[k] = A
  BY <1>1
<1>3. Numbered(k, e)
  BY <1>1, <1>2 DEF Known, Numbered
<1>4. \A i : PrimesOf(k, e, i) = PrimesOf(k, d, i)
  BY <1>1, <1>2 DEF PrimesOf
<1>5. OwnNames(k, e)
  BY <1>1, <1>2, <1>4 DEF Known, OwnNames
<1>6. OwnIds(k, e)
  BY <1>1, <1>2 DEF Known, OwnIds
<1>7. QED
  BY <1>3, <1>5, <1>6 DEF Known

\* Nothing else than people and aliases matters to who is known.
LEMMA SameIsKnown ==
  ASSUME NEW d, NEW e, DbKnown(d), Shaped(e), e.people = d.people, e.aliases = d.aliases
  PROVE  DbKnown(e)
<1>1. ASSUME NEW k \in Kinds
      PROVE  Known(k, e)
  <2>1. Known(k, d) /\ e.people[k] = d.people[k] /\ e.aliases[k] = d.aliases[k]
    BY DEF DbKnown
  <2>2. QED
    BY <2>1, SameRowsKnown
<1>2. QED
  BY <1>1 DEF DbKnown

\* An image of a finite set is finite, and of its size where nothing falls together.
LEMMA ImageSize ==
  ASSUME NEW S, IsFiniteSet(S), NEW f, NEW T,
         \A x \in S : f[x] \in T, \A t \in T : \E x \in S : t = f[x]
  PROVE  IsFiniteSet(T) /\ ((\A x, y \in S : f[x] = f[y] => x = y) => Cardinality(T) = Cardinality(S))
<1>1. PICK g : g = [x \in S |-> f[x]]
  OBVIOUS
<1>2. g \in [S -> T] /\ (\A x \in S : g[x] = f[x]) /\ \A t \in T : \E x \in S : g[x] = t
  BY <1>1
<1>3. g \in Surjection(S, T)
  BY <1>2 DEF Surjection
<1>4. IsFiniteSet(T) /\ (Cardinality(T) = Cardinality(S) <=> g \in Injection(S, T))
  BY <1>3, FS_Surjection
<1>5. (\A x, y \in S : f[x] = f[y] => x = y) => g \in Injection(S, T)
  BY <1>2 DEF Injection, IsInjective
<1>6. QED
  BY <1>4, <1>5

\* A step that touches one kind.
LEMMA OneKind ==
  ASSUME NEW d, NEW e, NEW k \in Kinds, DbKnown(d), Shaped(e), Known(k, e),
         \A j \in Kinds : j # k => e.people[j] = d.people[j] /\ e.aliases[j] = d.aliases[j]
  PROVE  DbKnown(e)
<1>1. ASSUME NEW j \in Kinds, j # k
      PROVE  Known(j, e)
  <2>1. Known(j, d) /\ e.people[j] = d.people[j] /\ e.aliases[j] = d.aliases[j]
    BY <1>1 DEF DbKnown
  <2>2. QED
    BY <2>1, SameRowsKnown
<1>2. QED
  BY <1>1 DEF DbKnown

-----------------------------------------------------------------------------
(* Names                                                                     *)

\* A name that is added to a row is not its prime one.
LEMMA RegisterKnown ==
  ASSUME NEW d, NEW k \in Kinds, DbKnown(d), NEW i, NEW a, \E p \in d.people[k] : p.id = i
  PROVE  DbKnown(RegisterAlias(k, d, i, a, FALSE))
<1>1. PICK r : r = [id |-> i, alias |-> a, prime |-> FALSE]
  OBVIOUS
<1>2. PICK e : e = [d EXCEPT !.aliases[k] = @ \cup {r}]
  OBVIOUS
<1>3. RegisterAlias(k, d, i, a, FALSE) = d \/ RegisterAlias(k, d, i, a, FALSE) = e
  BY <1>1, <1>2 DEF RegisterAlias
<1>4. Shaped(d) /\ Known(k, d)
  BY DEF DbKnown
<1>5. /\ Shaped(e) /\ e.people = d.people /\ e.aliases[k] = d.aliases[k] \cup {r}
      /\ \A j \in Kinds : j # k => e.aliases[j] = d.aliases[j]
  BY <1>2, <1>4 DEF Shaped
<1>6. \A j : PrimesOf(k, e, j) = PrimesOf(k, d, j)
  BY <1>1, <1>5 DEF PrimesOf
<1>7. Numbered(k, e)
  <2>1. IsFiniteSet(d.aliases[k])
    BY <1>4 DEF Known, Numbered
  <2>2. IsFiniteSet(e.aliases[k])
    BY <1>5, <2>1, FS_AddElement
  <2>3. AliasRow(r) /\ \E p \in d.people[k] : p.id = r.id
    BY <1>1 DEF AliasRow
  <2>4. QED
    BY <1>4, <1>5, <2>2, <2>3 DEF Known, Numbered
<1>8. OwnNames(k, e) /\ OwnIds(k, e)
  BY <1>4, <1>5, <1>6 DEF Known, OwnNames, OwnIds
<1>9. DbKnown(e)
  BY <1>5, <1>7, <1>8, OneKind DEF Known
<1>10. QED
  BY <1>3, <1>9

\* A new row has the next number and its name for its prime one.
LEMMA CreateKnown ==
  ASSUME NEW d, NEW k \in Kinds, DbKnown(d), NEW a, NEW ext,
         k = "series" \/ ext = Nothing \/ \A q \in d.people[k] : q.ext # ext
  PROVE  /\ DbKnown(Create(k, d, a, ext))
         /\ \E p \in Create(k, d, a, ext).people[k] : p.id = Create(k, d, a, ext).got
<1>1. PICK i : i = NewId(k, d)
  OBVIOUS
<1>2. PICK p : p = [id |-> i, name |-> a, ext |-> ext]
  OBVIOUS
<1>3. PICK r : r = [id |-> i, alias |-> a, prime |-> TRUE]
  OBVIOUS
<1>4. PICK added : added = [d EXCEPT !.people[k] = @ \cup {p}]
  OBVIOUS
<1>5. Shaped(d) /\ Known(k, d)
  BY DEF DbKnown
<1>6. /\ Shaped(added) /\ added.aliases = d.aliases /\ added.people[k] = d.people[k] \cup {p}
      /\ \A j \in Kinds : j # k => added.people[j] = d.people[j]
  BY <1>4, <1>5 DEF Shaped
<1>7. i = Cardinality(d.people[k]) + 1 /\ Cardinality(d.people[k]) \in Nat
  BY <1>1, <1>5, FS_CardinalityType DEF NewId, Known, Numbered
<1>8. (\A q \in d.people[k] : q.id # i) /\ \A q \in d.aliases[k] : q.id # i
  BY <1>5, <1>7 DEF Known, Numbered, PeopleRow
<1>9. RegisterAlias(k, added, i, a, TRUE) = [added EXCEPT !.aliases[k] = @ \cup {r}]
  BY <1>3, <1>6, <1>8 DEF RegisterAlias
<1>10. PICK e : e = [RegisterAlias(k, added, i, a, TRUE) EXCEPT !.got = i]
  OBVIOUS
<1>11. Create(k, d, a, ext) = e
  BY <1>1, <1>2, <1>4, <1>10 DEF Create
<1>12. PICK named : named = [added EXCEPT !.aliases[k] = @ \cup {r}]
  OBVIOUS
<1>13. /\ Shaped(named) /\ named.people = added.people /\ named.aliases[k] = d.aliases[k] \cup {r}
       /\ \A j \in Kinds : j # k => named.aliases[j] = d.aliases[j]
  BY <1>6, <1>12 DEF Shaped
<1>14. /\ Shaped(e) /\ e.people[k] = d.people[k] \cup {p} /\ e.aliases[k] = d.aliases[k] \cup {r} /\ e.got = i
       /\ \A j \in Kinds : j # k => e.people[j] = d.people[j] /\ e.aliases[j] = d.aliases[j]
  <2>1. e = [named EXCEPT !.got = i]
    BY <1>9, <1>10, <1>12
  <2>2. Shaped(e) /\ e.people = named.people /\ e.aliases = named.aliases /\ e.got = i
    BY <1>13, <2>1 DEF Shaped
  <2>3. QED
    BY <1>6, <1>13, <2>2
<1>15. Cardinality(e.people[k]) = i
  <2>1. p \notin d.people[k]
    BY <1>2, <1>8
  <2>2. QED
    BY <1>5, <1>7, <1>14, <2>1, FS_AddElement DEF Known, Numbered
<1>16. Numbered(k, e)
  <2>1. IsFiniteSet(e.people[k]) /\ IsFiniteSet(e.aliases[k])
    <3>1. IsFiniteSet(d.people[k]) /\ IsFiniteSet(d.aliases[k])
      BY <1>5 DEF Known, Numbered
    <3>2. IsFiniteSet(d.people[k] \cup {p})
      BY <3>1, FS_AddElement
    <3>3. IsFiniteSet(d.aliases[k] \cup {r})
      BY <3>1, FS_AddElement
    <3>4. QED
      BY <1>14, <3>2, <3>3
  <2>2. PeopleRow(p) /\ AliasRow(r) /\ p.id = i /\ r.id = i /\ i \in Nat
    BY <1>2, <1>3, <1>7 DEF PeopleRow, AliasRow
  <2>3. \A q \in e.people[k] : PeopleRow(q) /\ q.id <= Cardinality(e.people[k])
    BY <1>5, <1>7, <1>14, <1>15, <2>2 DEF Known, Numbered, PeopleRow
  <2>4. \A q, o \in e.people[k] : q.id = o.id => q = o
    BY <1>5, <1>8, <1>14, <2>2 DEF Known, Numbered
  <2>5. \A q \in e.aliases[k] : AliasRow(q) /\ \E o \in e.people[k] : o.id = q.id
    BY <1>5, <1>14, <2>2 DEF Known, Numbered
  <2>6. QED
    BY <2>1, <2>3, <2>4, <2>5 DEF Numbered
<1>17. OwnNames(k, e)
  <2>1. PrimesOf(k, e, i) = {r}
    BY <1>3, <1>8, <1>14 DEF PrimesOf
  <2>2. \A q \in d.people[k] : PrimesOf(k, e, q.id) = PrimesOf(k, d, q.id)
    BY <1>3, <1>8, <1>14 DEF PrimesOf
  <2>3. p.id = i /\ r.id = i /\ r.alias = p.name
    BY <1>2, <1>3
  <2>4. QED
    BY <1>5, <1>14, <2>1, <2>2, <2>3 DEF Known, OwnNames
<1>18. OwnIds(k, e)
  BY <1>2, <1>5, <1>14 DEF Known, OwnIds
<1>19. DbKnown(e)
  BY <1>14, <1>16, <1>17, <1>18, OneKind DEF Known
<1>20. QED
  BY <1>2, <1>11, <1>14, <1>19

\* An Audible id is written to a row where nobody has it.
LEMMA BackfillKnown ==
  ASSUME NEW d, NEW k \in Kinds, DbKnown(d), NEW i, NEW ext, ext # Nothing,
         (\A q \in d.people[k] : q.ext # ext) \/ \A q \in d.people[k] : q.id = i => q.ext # Nothing
  PROVE  /\ DbKnown(Backfill(k, d, i, ext))
         /\ \A p \in d.people[k] : \E q \in Backfill(k, d, i, ext).people[k] : q.id = p.id
<1>1. Shaped(d) /\ Known(k, d)
  BY DEF DbKnown
<1>2. PICK f : f = [p \in d.people[k] |-> IF p.id = i /\ p.ext = Nothing THEN [p EXCEPT !.ext = ext] ELSE p]
  OBVIOUS
<1>3. PICK T : T = {f[p] : p \in d.people[k]}
  OBVIOUS
<1>4. PICK e : e = Backfill(k, d, i, ext)
  OBVIOUS
<1>5. /\ DOMAIN f = d.people[k]
      /\ \A p \in d.people[k] :
           /\ PeopleRow(f[p]) /\ f[p].id = p.id /\ f[p].name = p.name
           /\ f[p].ext = IF p.id = i /\ p.ext = Nothing THEN ext ELSE p.ext
  BY <1>1, <1>2 DEF Known, Numbered, PeopleRow
<1>6. e = [d EXCEPT !.people[k] = T]
  <2>1. T = {IF p.id = i /\ p.ext = Nothing THEN [p EXCEPT !.ext = ext] ELSE p : p \in d.people[k]}
    BY <1>2, <1>3
  <2>2. QED
    BY <1>1, <1>4, <2>1 DEF Backfill, Shaped
<1>7. /\ Shaped(e) /\ e.people[k] = T /\ e.aliases = d.aliases
      /\ \A j \in Kinds : j # k => e.people[j] = d.people[j]
  BY <1>1, <1>6 DEF Shaped
<1>8. IsFiniteSet(T) /\ Cardinality(T) = Cardinality(d.people[k])
  <2>1. \A p, q \in d.people[k] : f[p] = f[q] => p = q
    BY <1>1, <1>5 DEF Known, Numbered
  <2>2. IsFiniteSet(d.people[k])
    BY <1>1 DEF Known, Numbered
  <2>3. (\A p \in d.people[k] : f[p] \in T) /\ \A t \in T : \E p \in d.people[k] : t = f[p]
    BY <1>3
  <2>4. PICK S : S = d.people[k]
    OBVIOUS
  <2>5. IsFiniteSet(S) /\ (\A p \in S : f[p] \in T) /\ (\A t \in T : \E p \in S : t = f[p]) /\ \A p, q \in S : f[p] = f[q] => p = q
    BY <2>1, <2>2, <2>3, <2>4
  <2>6. IsFiniteSet(T) /\ Cardinality(T) = Cardinality(S)
    BY <2>5, ImageSize, Zenon
  <2>7. QED
    BY <2>4, <2>6
<1>9. \A q \in T : \E p \in d.people[k] : q = f[p]
  BY <1>3
<1>10. \A p \in d.people[k] : f[p] \in T
  BY <1>3
<1>11. Numbered(k, e)
  <2>1. \A q \in T : PeopleRow(q) /\ q.id <= Cardinality(T)
    BY <1>1, <1>5, <1>8, <1>9 DEF Known, Numbered
  <2>2. \A q, o \in T : q.id = o.id => q = o
    BY <1>1, <1>5, <1>9 DEF Known, Numbered
  <2>3. \A r \in e.aliases[k] : AliasRow(r) /\ \E q \in T : q.id = r.id
    BY <1>1, <1>5, <1>7, <1>10 DEF Known, Numbered
  <2>4. QED
    BY <1>1, <1>7, <1>8, <2>1, <2>2, <2>3 DEF Known, Numbered
<1>12. OwnNames(k, e)
  <2>1. \A j : PrimesOf(k, e, j) = PrimesOf(k, d, j)
    BY <1>7 DEF PrimesOf
  <2>2. SUFFICES ASSUME NEW x \in T
                 PROVE  /\ \E y : PrimesOf(k, d, x.id) = {y}
                        /\ \E r \in d.aliases[k] : r.id = x.id /\ r.alias = x.name
    BY <1>7, <2>1 DEF OwnNames
  <2>3. PICK p \in d.people[k] : x = f[p]
    BY <1>9
  <2>4. x.id = p.id /\ x.name = p.name
    BY <1>5, <2>3
  <2>5. QED
    BY <1>1, <2>4 DEF Known, OwnNames
<1>13. OwnIds(k, e)
  <2>1. SUFFICES ASSUME k # "series", NEW x \in T, NEW y \in T, x.ext # Nothing, y.ext = x.ext
                 PROVE  y = x
    BY <1>7 DEF OwnIds
  <2>2. PICK p \in d.people[k] : x = f[p]
    BY <1>9
  <2>3. PICK q \in d.people[k] : y = f[q]
    BY <1>9
  <2>4. p = q
    BY <1>1, <1>5, <2>1, <2>2, <2>3 DEF Known, Numbered, OwnIds
  <2>5. QED
    BY <2>2, <2>3, <2>4
<1>14. DbKnown(e)
  BY <1>7, <1>11, <1>12, <1>13, OneKind DEF Known
<1>15. QED
  BY <1>4, <1>5, <1>7, <1>10, <1>14

-----------------------------------------------------------------------------
(* What finding a candidate adds                                             *)

\* Names and pending rows are added and never taken away, of one kind.
HasRow(k, d, i) == \E p \in d.people[k] : p.id = i
OpenRow(k, d, p) == DOMAIN p = {"book", "alias", "options", "pick"} /\ \A i \in p.options : HasRow(k, d, i)
Grown(k, d, e) ==
  /\ d.aliases[k] \subseteq e.aliases[k] /\ d.pending[k] \subseteq e.pending[k]
  /\ \A i : HasRow(k, d, i) => HasRow(k, e, i)
  /\ \A p \in e.pending[k] : p \in d.pending[k] \/ (p.pick = Nothing /\ OpenRow(k, e, p))
  /\ e.link = d.link
  /\ \A j \in Kinds : j # k =>
       e.people[j] = d.people[j] /\ e.aliases[j] = d.aliases[j] /\ e.pending[j] = d.pending[j]
Spelled(k, d, i, a) == \E r \in d.aliases[k] : r.id = i /\ r.alias = a

LEMMA GrownFromSelf ==
  ASSUME NEW k, NEW d
  PROVE  Grown(k, d, d)
BY DEF Grown

LEMMA GrownOn ==
  ASSUME NEW k, NEW d, NEW e, NEW f, Grown(k, d, e), Grown(k, e, f)
  PROVE  Grown(k, d, f)
BY DEF Grown, OpenRow

LEMMA RegisterGrows ==
  ASSUME NEW d, NEW k \in Kinds, Shaped(d), NEW i, NEW a, NEW prime
  PROVE  /\ Shaped(RegisterAlias(k, d, i, a, prime)) /\ Grown(k, d, RegisterAlias(k, d, i, a, prime))
         /\ Spelled(k, RegisterAlias(k, d, i, a, prime), i, a)
         /\ RegisterAlias(k, d, i, a, prime).people = d.people
<1>1. CASE \E r \in d.aliases[k] : r.id = i /\ r.alias = a
  BY <1>1, GrownFromSelf DEF RegisterAlias, Spelled
<1>2. CASE ~\E r \in d.aliases[k] : r.id = i /\ r.alias = a
  <2>1. PICK r : r = [id |-> i, alias |-> a, prime |-> prime]
    OBVIOUS
  <2>2. PICK e : e = [d EXCEPT !.aliases[k] = @ \cup {r}]
    OBVIOUS
  <2>3. RegisterAlias(k, d, i, a, prime) = e
    BY <1>2, <2>1, <2>2 DEF RegisterAlias
  <2>4. /\ Shaped(e) /\ e.people = d.people /\ e.pending = d.pending /\ e.link = d.link
        /\ e.aliases[k] = d.aliases[k] \cup {r} /\ \A j \in Kinds : j # k => e.aliases[j] = d.aliases[j]
    BY <2>2 DEF Shaped
  <2>5. Spelled(k, e, i, a)
    BY <2>1, <2>4 DEF Spelled
  <2>6. QED
    BY <2>3, <2>4, <2>5 DEF Grown, HasRow
<1>3. QED
  BY <1>1, <1>2

\* The answer of a transaction is no row.
LEMMA GotKnown ==
  ASSUME NEW d, DbKnown(d), NEW k \in Kinds, NEW i
  PROVE  /\ DbKnown([d EXCEPT !.got = i]) /\ Grown(k, d, [d EXCEPT !.got = i]) /\ [d EXCEPT !.got = i].got = i
         /\ [d EXCEPT !.got = i].aliases = d.aliases /\ [d EXCEPT !.got = i].people = d.people
<1>1. PICK e : e = [d EXCEPT !.got = i]
  OBVIOUS
<1>2. Shaped(d)
  BY DEF DbKnown
<1>3. /\ Shaped(e) /\ e.people = d.people /\ e.aliases = d.aliases /\ e.pending = d.pending /\ e.link = d.link
      /\ e.got = i
  BY <1>1, <1>2 DEF Shaped
<1>4. DbKnown(e)
  BY <1>3, SameIsKnown
<1>5. QED
  BY <1>1, <1>3, <1>4 DEF Grown, HasRow

LEMMA AdoptKnown ==
  ASSUME NEW d, NEW k \in Kinds, DbKnown(d), NEW i, NEW c, \E p \in d.people[k] : p.id = i,
         c.ext = Nothing \/ (\A q \in d.people[k] : q.ext # c.ext) \/ \A q \in d.people[k] : q.id = i => q.ext # Nothing
  PROVE  /\ DbKnown(Adopt(k, d, i, c)) /\ Grown(k, d, Adopt(k, d, i, c)) /\ Adopt(k, d, i, c).got = i
         /\ Spelled(k, Adopt(k, d, i, c), i, c.name)
<1>1. PICK e : e = IF c.ext = Nothing THEN d ELSE Backfill(k, d, i, c.ext)
  OBVIOUS
<1>2. DbKnown(e) /\ Grown(k, d, e) /\ \E p \in e.people[k] : p.id = i
  <2>1. CASE c.ext = Nothing
    BY <1>1, <2>1, GrownFromSelf
  <2>2. CASE c.ext # Nothing
    <3>1. e = Backfill(k, d, i, c.ext)
      BY <1>1, <2>2
    <3>2. /\ DbKnown(Backfill(k, d, i, c.ext))
          /\ \A p \in d.people[k] : \E q \in Backfill(k, d, i, c.ext).people[k] : q.id = p.id
      BY <2>2, BackfillKnown
    <3>3. /\ e.aliases = d.aliases /\ e.pending = d.pending /\ e.link = d.link
          /\ \A j \in Kinds : j # k => e.people[j] = d.people[j]
      BY <3>1 DEF Backfill, DbKnown, Shaped
    <3>4. QED
      BY <3>1, <3>2, <3>3 DEF Grown, HasRow
  <2>3. QED
    BY <2>1, <2>2
<1>3. PICK f : f = RegisterAlias(k, e, i, c.name, FALSE)
  OBVIOUS
<1>4. DbKnown(f) /\ Grown(k, e, f) /\ Spelled(k, f, i, c.name)
  BY <1>2, <1>3, RegisterKnown, RegisterGrows DEF DbKnown
<1>5. Adopt(k, d, i, c) = [f EXCEPT !.got = i]
  BY <1>1, <1>3 DEF Adopt
<1>6. QED
  BY <1>2, <1>4, <1>5, GotKnown, GrownOn DEF Spelled

LEMMA CreateGrows ==
  ASSUME NEW d, NEW k \in Kinds, Shaped(d), IsFiniteSet(d.people[k]), NEW a, NEW ext
  PROVE  /\ Grown(k, d, Create(k, d, a, ext)) /\ Spelled(k, Create(k, d, a, ext), Create(k, d, a, ext).got, a)
         /\ Create(k, d, a, ext).got \in Nat
<1>1. PICK i : i = NewId(k, d)
  OBVIOUS
<1>2. PICK e : e = [d EXCEPT !.people[k] = @ \cup {[id |-> i, name |-> a, ext |-> ext]}]
  OBVIOUS
<1>3. /\ Shaped(e) /\ e.aliases = d.aliases /\ e.pending = d.pending /\ e.link = d.link
      /\ d.people[k] \subseteq e.people[k] /\ \A j \in Kinds : j # k => e.people[j] = d.people[j]
  BY <1>2 DEF Shaped
<1>4. PICK f : f = RegisterAlias(k, e, i, a, TRUE)
  OBVIOUS
<1>5. Shaped(f) /\ Grown(k, e, f) /\ Spelled(k, f, i, a)
  BY <1>3, <1>4, RegisterGrows
<1>6. Create(k, d, a, ext) = [f EXCEPT !.got = i]
  BY <1>1, <1>2, <1>4 DEF Create
<1>7. PICK g : g = [f EXCEPT !.got = i]
  OBVIOUS
<1>8. g.got = i /\ g.people = f.people /\ g.aliases = f.aliases /\ g.pending = f.pending /\ g.link = f.link
  BY <1>5, <1>7 DEF Shaped
<1>9. Grown(k, d, g) /\ Spelled(k, g, i, a)
  <2>1. Grown(k, d, e)
    BY <1>3 DEF Grown, HasRow
  <2>2. Grown(k, f, g)
    BY <1>8 DEF Grown, HasRow
  <2>3. QED
    BY <1>5, <1>8, <2>1, <2>2, GrownOn DEF Spelled
<1>10. i \in Nat
  BY <1>1, FS_CardinalityType DEF NewId
<1>11. QED
  BY <1>6, <1>7, <1>8, <1>9, <1>10

\* A row for the operator has the book and the name.
LEMMA PendingGrows ==
  ASSUME NEW d, NEW k \in Kinds, DbKnown(d), NEW b, NEW a, NEW S, \A r \in S : HasRow(k, d, r.id)
  PROVE  /\ DbKnown(WritePending(k, d, b, a, S)) /\ Grown(k, d, WritePending(k, d, b, a, S))
         /\ \E p \in WritePending(k, d, b, a, S).pending[k] : p.book = b /\ p.alias = a
<1>1. CASE \E p \in d.pending[k] : p.book = b /\ p.alias = a
  BY <1>1, GrownFromSelf DEF WritePending
<1>2. CASE ~\E p \in d.pending[k] : p.book = b /\ p.alias = a
  <2>1. PICK p : p = [book |-> b, alias |-> a, options |-> {r.id : r \in S}, pick |-> Nothing]
    OBVIOUS
  <2>2. PICK e : e = [d EXCEPT !.pending[k] = @ \cup {p}]
    OBVIOUS
  <2>3. WritePending(k, d, b, a, S) = e
    BY <1>2, <2>1, <2>2 DEF WritePending
  <2>4. /\ Shaped(e) /\ e.people = d.people /\ e.aliases = d.aliases /\ e.link = d.link
        /\ e.pending[k] = d.pending[k] \cup {p} /\ \A j \in Kinds : j # k => e.pending[j] = d.pending[j]
    BY <2>2 DEF DbKnown, Shaped
  <2>5. DbKnown(e)
    BY <2>4, SameIsKnown
  <2>6. QED
    BY <2>1, <2>3, <2>4, <2>5 DEF Grown, HasRow, OpenRow
<1>3. QED
  BY <1>1, <1>2

\* find_or_insert: somebody with the name, or a row for the operator.
Answered(k, d, b, a) ==
  IF d.got = Nothing THEN \E p \in d.pending[k] : p.book = b /\ p.alias = a
  ELSE Spelled(k, d, d.got, a)

LEMMA FindOrInsertAnswers ==
  ASSUME NEW d, NEW k \in Kinds, DbKnown(d), NEW c, NEW b
  PROVE  /\ DbKnown(FindOrInsert(k, d, c, b)) /\ Grown(k, d, FindOrInsert(k, d, c, b))
         /\ Answered(k, FindOrInsert(k, d, c, b), b, c.name)
<1>1. PICK byExt : byExt = {p.id : p \in {p \in d.people[k] : c.ext # Nothing /\ p.ext = c.ext}}
  OBVIOUS
<1>2. PICK found : found = Matches(k, d, c.name)
  OBVIOUS
<1>3. PICK clear : clear = IF Cardinality(found) = 1 THEN {r.id : r \in found} ELSE Corroborated(k, d, found, b)
  OBVIOUS
<1>4. FindOrInsert(k, d, c, b) =
        IF byExt # {} THEN Adopt(k, d, CHOOSE i \in byExt : TRUE, c)
        ELSE IF found = {} THEN Create(k, d, c.name, c.ext)
        ELSE IF clear # {} THEN Adopt(k, d, CHOOSE i \in clear : TRUE, c)
        ELSE [WritePending(k, d, b, c.name, found) EXCEPT !.got = Nothing]
  BY <1>1, <1>2, <1>3 DEF FindOrInsert
<1>5. Known(k, d) /\ Shaped(d)
  BY DEF DbKnown
<1>6. ASSUME NEW i, \E p \in d.people[k] : p.id = i
      PROVE  i \in Nat /\ i # Nothing
  BY <1>5, <1>6, IdentityAssumption DEF Known, Numbered, PeopleRow
<1>7. CASE byExt # {}
  <2>1. PICK i : i = CHOOSE j \in byExt : TRUE
    OBVIOUS
  <2>2. i \in byExt
    BY <1>7, <2>1
  <2>3. PICK p \in d.people[k] : p.id = i /\ c.ext # Nothing /\ p.ext = c.ext
    BY <1>1, <2>2
  <2>4. \A q \in d.people[k] : q.id = i => q.ext # Nothing
    BY <1>5, <2>3 DEF Known, Numbered
  <2>5. FindOrInsert(k, d, c, b) = Adopt(k, d, i, c)
    BY <1>4, <1>7, <2>1
  <2>6. QED
    BY <1>6, <2>3, <2>4, <2>5, AdoptKnown DEF Answered
<1>8. CASE byExt = {} /\ found = {}
  <2>1. c.ext = Nothing \/ \A q \in d.people[k] : q.ext # c.ext
    BY <1>1, <1>8
  <2>2. FindOrInsert(k, d, c, b) = Create(k, d, c.name, c.ext)
    BY <1>4, <1>8
  <2>3. IsFiniteSet(d.people[k])
    BY <1>5 DEF Known, Numbered
  <2>4. QED
    BY <1>5, <2>1, <2>2, <2>3, CreateKnown, CreateGrows, IdentityAssumption DEF Answered
<1>9. CASE byExt = {} /\ found # {} /\ clear # {}
  <2>1. PICK i : i = CHOOSE j \in clear : TRUE
    OBVIOUS
  <2>2. i \in clear
    BY <1>9, <2>1
  <2>3. \E r \in found : r.id = i
    BY <1>3, <2>2 DEF Corroborated
  <2>4. \E p \in d.people[k] : p.id = i
    BY <1>2, <1>5, <2>3 DEF Matches, Known, Numbered
  <2>5. c.ext = Nothing \/ \A q \in d.people[k] : q.ext # c.ext
    BY <1>1, <1>9
  <2>6. FindOrInsert(k, d, c, b) = Adopt(k, d, i, c)
    BY <1>4, <1>9, <2>1
  <2>7. QED
    BY <1>6, <2>4, <2>5, <2>6, AdoptKnown DEF Answered
<1>10. CASE byExt = {} /\ found # {} /\ clear = {}
  <2>1. PICK e : e = WritePending(k, d, b, c.name, found)
    OBVIOUS
  <2>2. DbKnown(e) /\ Grown(k, d, e) /\ \E p \in e.pending[k] : p.book = b /\ p.alias = c.name
    <3>1. \A x \in found : HasRow(k, d, x.id)
      BY <1>2, <1>5 DEF Matches, Known, Numbered, HasRow
    <3>2. QED
      BY <2>1, <3>1, PendingGrows
  <2>3. FindOrInsert(k, d, c, b) = [e EXCEPT !.got = Nothing]
    BY <1>4, <1>10, <2>1
  <2>4. [e EXCEPT !.got = Nothing].pending = e.pending
    BY <2>2 DEF DbKnown, Shaped
  <2>5. QED
    BY <2>2, <2>3, <2>4, GotKnown, GrownOn DEF Answered
<1>11. QED
  BY <1>7, <1>8, <1>9, <1>10

-----------------------------------------------------------------------------
(* The candidates of a book, one after the other                             *)

Candidates == [name : Names, ext : OptionOf(Exts)]
StartOf(d) == [d |-> d, ids |-> <<>>]
\* The walk over the list up to a place.
Walk(k, b, d, list, last, acc) ==
  acc = [n \in 0 .. last |-> IF n = 0 THEN StartOf(d) ELSE FoundNext(k, b, list, n, acc[n - 1])]

LEMMA WalkExists ==
  ASSUME NEW k, NEW b, NEW d, NEW list, NEW last \in Nat
  PROVE  \E acc : Walk(k, b, d, list, last, acc)
<1>1. PICK S : S = {n \in 0 .. last : \E acc : Walk(k, b, d, list, n, acc)}
  OBVIOUS
<1>2. 0 \in S
  <2>1. PICK acc : acc = [n \in 0 .. 0 |-> StartOf(d)]
    OBVIOUS
  <2>2. Walk(k, b, d, list, 0, acc)
    BY <2>1 DEF Walk
  <2>3. QED
    BY <1>1, <2>2
<1>3. ASSUME NEW m \in 1 .. last, m - 1 \in S
      PROVE  m \in S
  <2>1. PICK acc : Walk(k, b, d, list, m - 1, acc)
    BY <1>1, <1>3
  <2>2. PICK next : next = [n \in 0 .. m |-> IF n = m THEN FoundNext(k, b, list, m, acc[m - 1]) ELSE acc[n]]
    OBVIOUS
  <2>3. \A n \in 0 .. m - 1 : next[n] = acc[n]
    BY <2>2
  <2>4. \A n \in 0 .. m - 1 : acc[n] = IF n = 0 THEN StartOf(d) ELSE FoundNext(k, b, list, n, acc[n - 1])
    BY <2>1 DEF Walk
  <2>5. ASSUME NEW n \in 0 .. m
        PROVE  next[n] = IF n = 0 THEN StartOf(d) ELSE FoundNext(k, b, list, n, next[n - 1])
    <3>1. CASE n = 0
      BY <2>3, <2>4, <3>1
    <3>2. CASE n = m
      BY <2>2, <2>3, <3>2
    <3>3. CASE n # 0 /\ n # m
      <4>1. n \in 0 .. m - 1 /\ n - 1 \in 0 .. m - 1
        BY <3>3
      <4>2. QED
        BY <2>3, <2>4, <3>3, <4>1
    <3>4. QED
      BY <3>1, <3>2, <3>3
  <2>6. next = [n \in 0 .. m |-> next[n]]
    BY <2>2
  <2>7. Walk(k, b, d, list, m, next)
    BY <2>5, <2>6 DEF Walk
  <2>8. QED
    BY <1>1, <2>7
<1>4. last \in S
  BY <1>2, <1>3, SetInduction
<1>5. QED
  BY <1>1, <1>4

LEMMA FoundIsWalk ==
  ASSUME NEW k, NEW b, NEW d, NEW list, Len(list) \in Nat
  PROVE  \E acc : Walk(k, b, d, list, Len(list), acc) /\ Found(k, b, d, list) = acc[Len(list)]
<1>1. PICK acc : acc = CHOOSE f : Walk(k, b, d, list, Len(list), f)
  OBVIOUS
<1>2. Walk(k, b, d, list, Len(list), acc)
  BY <1>1, WalkExists
<1>3. Found(k, b, d, list) = acc[Len(list)]
  BY <1>1 DEF Found, Walk, StartOf
<1>4. QED
  BY <1>2, <1>3

\* A name is done when one of the people found is known by it, or the operator
\* has a row for it.
NameDone(k, d, ids, b, name) ==
  \/ \E j \in 1 .. Len(ids) : \E r \in d.aliases[k] : r.id = ids[j] /\ SameName(r.alias, name)
  \/ \E p \in d.pending[k] : p.book = b /\ SameName(p.alias, name)
WalkedTo(k, b, d, list, a, n) ==
  /\ DbKnown(a.d) /\ Grown(k, d, a.d) /\ a.ids \in Seq(Nat)
  /\ \A m \in 1 .. n : NameDone(k, a.d, a.ids, b, list[m].name)

LEMMA NextDone ==
  ASSUME NEW k \in Kinds, NEW b, NEW d, NEW list \in Seq(Candidates), NEW n \in 1 .. Len(list),
         NEW a, WalkedTo(k, b, d, list, a, n - 1)
  PROVE  WalkedTo(k, b, d, list, FoundNext(k, b, list, n, a), n)
<1>1. CASE ~FirstOfName(list, n)
  <2>1. FoundNext(k, b, list, n, a) = a
    BY <1>1 DEF FoundNext
  <2>2. PICK m \in 1 .. n - 1 : Folded[list[m].name] = Folded[list[n].name]
    BY <1>1 DEF FirstOfName, SameName
  <2>3. NameDone(k, a.d, a.ids, b, list[n].name)
    BY <2>2 DEF WalkedTo, NameDone, SameName
  <2>4. QED
    BY <2>1, <2>3 DEF WalkedTo
<1>2. CASE FirstOfName(list, n)
  <2>1. PICK c : c = Distinct(k, list, n)
    OBVIOUS
  <2>2. c.name = list[n].name
    BY <2>1 DEF Distinct, Candidates
  <2>3. PICK r : r = FindOrInsert(k, a.d, c, b)
    OBVIOUS
  <2>4. DbKnown(r) /\ Grown(k, a.d, r) /\ Answered(k, r, b, c.name)
    BY <2>3, FindOrInsertAnswers DEF WalkedTo
  <2>5. PICK ids : ids = IF r.got = Nothing THEN a.ids ELSE Append(a.ids, r.got)
    OBVIOUS
  <2>6. FoundNext(k, b, list, n, a) = [d |-> r, ids |-> ids]
    BY <1>2, <2>1, <2>3, <2>5 DEF FoundNext
  <2>7. r.got # Nothing => r.got \in Nat
    BY <2>4 DEF Answered, Spelled, DbKnown, Known, Numbered, PeopleRow
  <2>8. /\ ids \in Seq(Nat) /\ a.ids \in Seq(Nat) /\ Len(a.ids) <= Len(ids)
        /\ \A j \in 1 .. Len(a.ids) : ids[j] = a.ids[j]
        /\ r.got # Nothing => Len(ids) \in 1 .. Len(ids) /\ ids[Len(ids)] = r.got
    BY <2>5, <2>7 DEF WalkedTo
  <2>9. Grown(k, d, r)
    BY <2>4, GrownOn DEF WalkedTo
  <2>10. ASSUME NEW m \in 1 .. n - 1
         PROVE  NameDone(k, r, ids, b, list[m].name)
    <3>1. NameDone(k, a.d, a.ids, b, list[m].name)
      BY DEF WalkedTo
    <3>2. ASSUME NEW j \in 1 .. Len(a.ids), NEW x \in a.d.aliases[k], x.id = a.ids[j], SameName(x.alias, list[m].name)
          PROVE  NameDone(k, r, ids, b, list[m].name)
      <4>1. j \in 1 .. Len(ids) /\ ids[j] = a.ids[j]
        BY <2>8
      <4>2. x \in r.aliases[k]
        BY <2>4 DEF Grown
      <4>3. QED
        BY <3>2, <4>1, <4>2 DEF NameDone
    <3>3. ASSUME NEW p \in a.d.pending[k], p.book = b, SameName(p.alias, list[m].name)
          PROVE  NameDone(k, r, ids, b, list[m].name)
      BY <2>4, <3>3 DEF NameDone, Grown
    <3>4. QED
      BY <3>1, <3>2, <3>3 DEF NameDone
  <2>11. NameDone(k, r, ids, b, list[n].name)
    BY <2>2, <2>4, <2>8 DEF Answered, NameDone, Spelled, SameName
  <2>12. \A m \in 1 .. n : m \in 1 .. n - 1 \/ m = n
    OBVIOUS
  <2>13. QED
    BY <2>4, <2>6, <2>8, <2>9, <2>10, <2>11, <2>12 DEF WalkedTo
<1>3. QED
  BY <1>1, <1>2

LEMMA AllFound ==
  ASSUME NEW k \in Kinds, NEW b, NEW d, DbKnown(d), NEW list \in Seq(Candidates)
  PROVE  WalkedTo(k, b, d, list, Found(k, b, d, list), Len(list))
<1>1. PICK last \in Nat : last = Len(list)
  OBVIOUS
<1>2. PICK acc : Walk(k, b, d, list, last, acc) /\ Found(k, b, d, list) = acc[last]
  BY <1>1, FoundIsWalk
<1>3. PICK S : S = {n \in 0 .. last : WalkedTo(k, b, d, list, acc[n], n)}
  OBVIOUS
<1>4. 0 \in S
  <2>1. acc[0] = StartOf(d)
    BY <1>1, <1>2 DEF Walk
  <2>2. WalkedTo(k, b, d, list, acc[0], 0)
    BY <2>1, GrownFromSelf DEF WalkedTo, StartOf
  <2>3. QED
    BY <1>1, <1>3, <2>2
<1>5. ASSUME NEW n \in 1 .. last, n - 1 \in S
      PROVE  n \in S
  <2>1. acc[n] = FoundNext(k, b, list, n, acc[n - 1])
    BY <1>1, <1>2 DEF Walk
  <2>2. WalkedTo(k, b, d, list, acc[n], n)
    <3>1. WalkedTo(k, b, d, list, acc[n - 1], n - 1) /\ n \in 1 .. Len(list)
      BY <1>1, <1>3, <1>5
    <3>2. QED
      BY <2>1, <3>1, NextDone
  <2>3. QED
    BY <1>3, <2>2
<1>6. \A n \in 0 .. last : n \in S
  BY <1>4, <1>5, SetInduction
<1>7. last \in S
  BY <1>6
<1>8. QED
  BY <1>1, <1>2, <1>3, <1>7

-----------------------------------------------------------------------------
(* The rows that are open, and the steps                                     *)

\* What a decision may choose from are rows of the tables.
WholeTables(d) == DbKnown(d) /\ \A k \in Kinds : \A p \in d.pending[k] : OpenRow(k, d, p)
Sourced == DOMAIN evidence = Kinds /\ \A k \in Kinds : evidence[k] \in [Books -> Seq(Candidates)]
IIdentity == WholeTables(db) /\ Sourced

LEMMA SameIsWhole ==
  ASSUME NEW d, NEW e, WholeTables(d), Shaped(e), e.people = d.people, e.aliases = d.aliases, e.pending = d.pending
  PROVE  WholeTables(e)
BY SameIsKnown DEF WholeTables, OpenRow, HasRow

LEMMA GrownIsWhole ==
  ASSUME NEW d, NEW e, NEW k \in Kinds, WholeTables(d), DbKnown(e), Grown(k, d, e)
  PROVE  WholeTables(e)
<1>1. ASSUME NEW j \in Kinds, NEW p \in e.pending[j]
      PROVE  OpenRow(j, e, p)
  <2>1. CASE j = k
    BY <2>1 DEF WholeTables, Grown, OpenRow
  <2>2. CASE j # k
    BY <2>2 DEF WholeTables, Grown, OpenRow, HasRow
  <2>3. QED
    BY <2>1, <2>2
<1>2. QED
  BY <1>1 DEF WholeTables

\* A run of one kind leaves the rows of the others.
Untouched(k, d, e) ==
  e.people[k] = d.people[k] /\ e.aliases[k] = d.aliases[k] /\ e.pending[k] = d.pending[k] /\ e.link[k] = d.link[k]
Accounted(k, d, e, b) ==
  \A n \in Considered(k, evidence[k][b]) :
    \/ \E r \in e.aliases[k] : r.id \in e.link[k][b] /\ SameName(r.alias, evidence[k][b][n].name)
    \/ \E p \in e.pending[k] : /\ p.book = b /\ SameName(p.alias, evidence[k][b][n].name)
                               /\ p \in d.pending[k] \/ p.pick = Nothing
\* Nobody who has an author loses it.
StillWritten(d, e) ==
  "authors" \in Kinds => \A x \in Books : d.link["authors"][x] # {} => e.link["authors"][x] # {}

LEMMA AuthorAccounted ==
  ASSUME NEW d, NEW b \in Books, WholeTables(d), Sourced
  PROVE  /\ WholeTables(ResolveAuthor(b, d)) /\ StillWritten(d, ResolveAuthor(b, d))
         /\ "authors" \in Kinds => Accounted("authors", d, ResolveAuthor(b, d), b)
         /\ \A k \in Kinds : k # "authors" => Untouched(k, d, ResolveAuthor(b, d))
<1>1. PICK list : list = evidence["authors"][b]
  OBVIOUS
<1>2. CASE "authors" \notin Kinds \/ list = <<>>
  <2>1. ResolveAuthor(b, d) = d
    BY <1>1, <1>2 DEF ResolveAuthor
  <2>2. "authors" \in Kinds => Considered("authors", evidence["authors"][b]) = {}
    BY <1>1, <1>2 DEF Considered
  <2>3. QED
    BY <2>1, <2>2 DEF StillWritten, Accounted, Untouched
<1>3. CASE "authors" \in Kinds /\ list # <<>>
  <2>1. list \in Seq(Candidates)
    BY <1>1, <1>3 DEF Sourced
  <2>2. PICK r : r = FindOrInsert("authors", d, Head(list), b)
    OBVIOUS
  <2>3. DbKnown(r) /\ Grown("authors", d, r) /\ Answered("authors", r, b, Head(list).name)
    BY <1>3, <2>2, FindOrInsertAnswers DEF WholeTables
  <2>4. WholeTables(r)
    BY <1>3, <2>3, GrownIsWhole
  <2>5. /\ 1 \in DOMAIN list /\ Head(list) = list[1]
        /\ \A n \in Considered("authors", evidence["authors"][b]) : n = 1
    BY <1>1, <1>3, <2>1 DEF Considered
  <2>6. CASE r.got = Nothing
    <3>1. ResolveAuthor(b, d) = r
      BY <1>1, <1>3, <2>2, <2>6 DEF ResolveAuthor
    <3>2. PICK p \in r.pending["authors"] : p.book = b /\ p.alias = list[1].name
      BY <2>3, <2>5, <2>6 DEF Answered
    <3>3. p \in d.pending["authors"] \/ p.pick = Nothing
      BY <2>3, <3>2 DEF Grown
    <3>4. Accounted("authors", d, r, b)
      BY <1>1, <2>5, <3>2, <3>3 DEF Accounted, SameName
    <3>5. QED
      BY <2>3, <2>4, <3>1, <3>4 DEF StillWritten, Grown, Untouched
  <2>7. CASE r.got # Nothing
    <3>1. PICK e : e = [r EXCEPT !.link["authors"][b] = {r.got}]
      OBVIOUS
    <3>2. ResolveAuthor(b, d) = e
      BY <1>1, <1>3, <2>2, <2>7, <3>1 DEF ResolveAuthor
    <3>3. /\ Shaped(e) /\ e.people = r.people /\ e.aliases = r.aliases /\ e.pending = r.pending
          /\ e.link["authors"][b] = {r.got} /\ \A k \in Kinds : k # "authors" => e.link[k] = r.link[k]
          /\ \A x \in Books : x # b => e.link["authors"][x] = r.link["authors"][x]
      BY <1>3, <2>4, <3>1 DEF WholeTables, DbKnown, Shaped
    <3>4. WholeTables(e)
      BY <2>4, <3>3, SameIsWhole
    <3>5. PICK x \in e.aliases["authors"] : x.id \in e.link["authors"][b] /\ x.alias = list[1].name
      BY <2>3, <2>5, <2>7, <3>3 DEF Answered, Spelled
    <3>6. Accounted("authors", d, e, b)
      BY <1>1, <2>5, <3>5 DEF Accounted, SameName
    <3>7. StillWritten(d, e)
      BY <2>3, <3>3 DEF StillWritten, Grown
    <3>8. QED
      BY <2>3, <3>2, <3>3, <3>4, <3>6, <3>7 DEF Untouched, Grown
  <2>8. QED
    BY <2>6, <2>7
<1>4. QED
  BY <1>2, <1>3

LEMMA JunctionAccounted ==
  ASSUME NEW d, NEW b \in Books, WholeTables(d), Sourced, NEW k \in Kinds, k # "authors"
  PROVE  /\ WholeTables(Relink(k, b, Found(k, b, d, evidence[k][b])))
         /\ StillWritten(d, Relink(k, b, Found(k, b, d, evidence[k][b])))
         /\ Accounted(k, d, Relink(k, b, Found(k, b, d, evidence[k][b])), b)
         /\ \A j \in Kinds : j # k => Untouched(j, d, Relink(k, b, Found(k, b, d, evidence[k][b])))
<1>1. PICK list : list = evidence[k][b]
  OBVIOUS
<1>2. list \in Seq(Candidates)
  BY <1>1 DEF Sourced
<1>3. PICK f : f = Found(k, b, d, list)
  OBVIOUS
<1>4. WalkedTo(k, b, d, list, f, Len(list))
  BY <1>2, <1>3, AllFound DEF WholeTables
<1>5. WholeTables(f.d)
  BY <1>4, GrownIsWhole DEF WalkedTo
<1>6. PICK I : I = {f.ids[n] : n \in DOMAIN f.ids}
  OBVIOUS
<1>7. PICK e : e = [f.d EXCEPT !.link[k][b] = I]
  OBVIOUS
<1>8. Relink(k, b, f) = e
  BY <1>6, <1>7 DEF Relink
<1>9. /\ Shaped(e) /\ e.people = f.d.people /\ e.aliases = f.d.aliases /\ e.pending = f.d.pending
      /\ e.link[k][b] = I /\ \A j \in Kinds : j # k => e.link[j] = f.d.link[j]
  BY <1>5, <1>7 DEF WholeTables, DbKnown, Shaped
<1>10. WholeTables(e)
  BY <1>5, <1>9, SameIsWhole
<1>11. Accounted(k, d, e, b)
  <2>1. SUFFICES ASSUME NEW n \in DOMAIN list
                 PROVE  \/ \E r \in e.aliases[k] : r.id \in e.link[k][b] /\ SameName(r.alias, list[n].name)
                        \/ \E p \in e.pending[k] : /\ p.book = b /\ SameName(p.alias, list[n].name)
                                                   /\ p \in d.pending[k] \/ p.pick = Nothing
    BY <1>1 DEF Accounted, Considered
  <2>2. NameDone(k, f.d, f.ids, b, list[n].name)
    BY <1>2, <1>4 DEF WalkedTo
  <2>3. ASSUME NEW j \in 1 .. Len(f.ids), NEW r \in f.d.aliases[k], r.id = f.ids[j], SameName(r.alias, list[n].name)
        PROVE  \E x \in e.aliases[k] : x.id \in e.link[k][b] /\ SameName(x.alias, list[n].name)
    BY <1>4, <1>6, <1>9, <2>3 DEF WalkedTo
  <2>4. ASSUME NEW p \in f.d.pending[k], p.book = b, SameName(p.alias, list[n].name)
        PROVE  p \in e.pending[k] /\ (p \in d.pending[k] \/ p.pick = Nothing)
    BY <1>4, <1>9 DEF WalkedTo, Grown
  <2>5. QED
    BY <2>2, <2>3, <2>4 DEF NameDone
<1>12. StillWritten(d, e) /\ \A j \in Kinds : j # k => Untouched(j, d, e)
  BY <1>4, <1>9 DEF WalkedTo, Grown, StillWritten, Untouched
<1>13. QED
  BY <1>1, <1>3, <1>8, <1>10, <1>11, <1>12

\* What was accounted for stays so while the rows of its kind are left alone.
LEMMA AccountedStays ==
  ASSUME NEW k \in Kinds, NEW b, NEW c, NEW d, NEW e, NEW f, Untouched(k, c, d), Accounted(k, d, e, b), Untouched(k, e, f)
  PROVE  Accounted(k, c, f, b)
BY DEF Accounted, Untouched

LEMMA NobodyToAccount ==
  ASSUME NEW k \in Kinds, NEW b, NEW d, NEW e, evidence[k][b] = <<>>
  PROVE  Accounted(k, d, e, b)
BY DEF Accounted, Considered

LEMMA FranchiseKnown ==
  ASSUME NEW d, NEW b, WholeTables(d)
  PROVE  /\ WholeTables(RecomputeFranchise(b, d)) /\ RecomputeFranchise(b, d).link = d.link
         /\ \A k \in Kinds : Untouched(k, d, RecomputeFranchise(b, d))
<1>1. PICK x, y : RecomputeFranchise(b, d) = [d EXCEPT !.franchise = x, !.sortKey = y]
  BY DEF RecomputeFranchise
<1>2. PICK e : e = [d EXCEPT !.franchise = x, !.sortKey = y]
  OBVIOUS
<1>3. Shaped(e) /\ e.people = d.people /\ e.aliases = d.aliases /\ e.pending = d.pending /\ e.link = d.link
  BY <1>2 DEF WholeTables, DbKnown, Shaped
<1>4. WholeTables(e)
  BY <1>3, SameIsWhole
<1>5. QED
  BY <1>1, <1>2, <1>3, <1>4 DEF Untouched

\* A run of a book, in its parts.
LEMMA ResolutionInParts ==
  ASSUME NEW b \in Books, NEW d1, NEW d2, NEW d3, NEW d4,
         d1 = ResolveAuthor(b, [db EXCEPT !.got = Nothing]), d2 = ResolvePublisher(b, d1),
         d3 = IF "narrators" \notin Kinds \/ evidence["narrators"][b] = <<>> THEN d2
              ELSE Relink("narrators", b, Found("narrators", b, d2, evidence["narrators"][b])),
         d4 = IF "series" \notin Kinds \/ evidence["series"][b] = <<>> THEN d3
              ELSE RecomputeFranchise(b, Relink("series", b, Found("series", b, d3, evidence["series"][b])))
  PROVE  Resolution(b).db = [d4 EXCEPT !.got = Nothing]
<1>1. PICK u2 : u2 = [ok |-> TRUE, db |-> d2]
  OBVIOUS
<1>2. PICK u3 : u3 = Junction("narrators", b, u2)
  OBVIOUS
<1>3. PICK u4 : u4 = Junction("series", b, u3)
  OBVIOUS
<1>4. \E ok : u3 = [ok |-> ok, db |-> d3]
  <2>1. CASE "narrators" \notin Kinds \/ evidence["narrators"][b] = <<>>
    BY <1>1, <1>2, <2>1 DEF Junction
  <2>2. CASE "narrators" \in Kinds /\ evidence["narrators"][b] # <<>>
    BY <1>1, <1>2, <2>2 DEF Junction
  <2>3. QED
    BY <2>1, <2>2
<1>5. \E ok : u4 = [ok |-> ok, db |-> d4]
  <2>1. CASE "series" \notin Kinds \/ evidence["series"][b] = <<>>
    BY <1>3, <1>4, <2>1 DEF Junction
  <2>2. CASE "series" \in Kinds /\ evidence["series"][b] # <<>>
    <3>1. u3.db = d3
      BY <1>4
    <3>2. PICK found : found = Found("series", b, d3, evidence["series"][b])
      OBVIOUS
    <3>3. u4 = [ok |-> u3.ok /\ IsInjective(found.ids), db |-> RecomputeFranchise(b, Relink("series", b, found))]
      BY <1>3, <2>2, <3>1, <3>2 DEF Junction
    <3>4. QED
      BY <2>2, <3>2, <3>3
  <2>3. QED
    BY <2>1, <2>2
<1>6. ResolvePublisher(b, ResolveAuthor(b, [db EXCEPT !.got = Nothing])) = d2
  OBVIOUS
<1>7. Resolution(b) = [u4 EXCEPT !.db.got = Nothing]
  BY <1>1, <1>2, <1>3, <1>6 DEF Resolution
<1>8. QED
  BY <1>5, <1>7

\* What each part leaves alone stays accounted for.
LEMMA ResolutionAccounted ==
  ASSUME NEW b \in Books, IIdentity
  PROVE  /\ WholeTables(Resolution(b).db) /\ StillWritten(db, Resolution(b).db)
         /\ \A k \in Kinds : Accounted(k, db, Resolution(b).db, b)
<1>1. PICK d0 : d0 = [db EXCEPT !.got = Nothing]
  OBVIOUS
<1>2. PICK d1 : d1 = ResolveAuthor(b, d0)
  OBVIOUS
<1>3. PICK d2 : d2 = ResolvePublisher(b, d1)
  OBVIOUS
<1>4. PICK d3 : d3 = IF "narrators" \notin Kinds \/ evidence["narrators"][b] = <<>> THEN d2
                    ELSE Relink("narrators", b, Found("narrators", b, d2, evidence["narrators"][b]))
  OBVIOUS
<1>5. PICK d4 : d4 = IF "series" \notin Kinds \/ evidence["series"][b] = <<>> THEN d3
                    ELSE RecomputeFranchise(b, Relink("series", b, Found("series", b, d3, evidence["series"][b])))
  OBVIOUS
<1>6. PICK e : e = [d4 EXCEPT !.got = Nothing]
  OBVIOUS
<1>7. Resolution(b).db = e
  BY <1>1, <1>2, <1>3, <1>4, <1>5, <1>6, ResolutionInParts
<1>8. WholeTables(d0) /\ d0.link = db.link /\ \A k \in Kinds : Untouched(k, db, d0)
  <2>1. Shaped(d0) /\ d0.people = db.people /\ d0.aliases = db.aliases /\ d0.pending = db.pending /\ d0.link = db.link
    BY <1>1 DEF IIdentity, WholeTables, DbKnown, Shaped
  <2>2. WholeTables(d0)
    BY <2>1, SameIsWhole DEF IIdentity
  <2>3. QED
    BY <2>1, <2>2 DEF Untouched
<1>9. /\ WholeTables(d1) /\ StillWritten(d0, d1) /\ ("authors" \in Kinds => Accounted("authors", d0, d1, b))
      /\ \A k \in Kinds : k # "authors" => Untouched(k, d0, d1)
  BY <1>2, <1>8, AuthorAccounted DEF IIdentity
<1>10. WholeTables(d2) /\ d2.link = d1.link /\ \A k \in Kinds : Untouched(k, d1, d2)
  <2>1. /\ Shaped(d2) /\ d2.people = d1.people /\ d2.aliases = d1.aliases /\ d2.pending = d1.pending
        /\ d2.link = d1.link
    BY <1>3, <1>9 DEF ResolvePublisher, WholeTables, DbKnown, Shaped
  <2>2. WholeTables(d2)
    BY <1>9, <2>1, SameIsWhole
  <2>3. QED
    BY <2>1, <2>2 DEF Untouched
<1>11. /\ WholeTables(d3) /\ StillWritten(d2, d3) /\ ("narrators" \in Kinds => Accounted("narrators", d2, d3, b))
       /\ \A k \in Kinds : k # "narrators" => Untouched(k, d2, d3)
  <2>1. CASE "narrators" \notin Kinds \/ evidence["narrators"][b] = <<>>
    <3>1. d3 = d2
      BY <1>4, <2>1
    <3>2. QED
      BY <1>10, <2>1, <3>1, NobodyToAccount DEF StillWritten, Untouched
  <2>2. CASE "narrators" \in Kinds /\ evidence["narrators"][b] # <<>>
    <3>1. d3 = Relink("narrators", b, Found("narrators", b, d2, evidence["narrators"][b]))
      BY <1>4, <2>2
    <3>2. "narrators" # "authors"
      OBVIOUS
    <3>3. QED
      BY <1>10, <2>2, <3>1, <3>2, JunctionAccounted DEF IIdentity
  <2>3. QED
    BY <2>1, <2>2
<1>12. /\ WholeTables(d4) /\ StillWritten(d3, d4) /\ ("series" \in Kinds => Accounted("series", d3, d4, b))
       /\ \A k \in Kinds : k # "series" => Untouched(k, d3, d4)
  <2>1. CASE "series" \notin Kinds \/ evidence["series"][b] = <<>>
    <3>1. d4 = d3
      BY <1>5, <2>1
    <3>2. QED
      BY <1>11, <2>1, <3>1, NobodyToAccount DEF StillWritten, Untouched
  <2>2. CASE "series" \in Kinds /\ evidence["series"][b] # <<>>
    <3>1. PICK s : s = Relink("series", b, Found("series", b, d3, evidence["series"][b]))
      OBVIOUS
    <3>2. d4 = RecomputeFranchise(b, s)
      BY <1>5, <2>2, <3>1
    <3>3. "series" # "authors"
      OBVIOUS
    <3>4. /\ WholeTables(s) /\ StillWritten(d3, s) /\ Accounted("series", d3, s, b)
          /\ \A k \in Kinds : k # "series" => Untouched(k, d3, s)
      BY <1>11, <2>2, <3>1, <3>3, JunctionAccounted DEF IIdentity
    <3>5. WholeTables(d4) /\ d4.link = s.link /\ \A k \in Kinds : Untouched(k, s, d4)
      BY <3>2, <3>4, FranchiseKnown
    <3>6. Untouched("series", d3, d3)
      BY DEF Untouched
    <3>7. Accounted("series", d3, d4, b)
      BY <2>2, <3>4, <3>5, <3>6, AccountedStays
    <3>8. QED
      BY <3>4, <3>5, <3>7 DEF StillWritten, Untouched
  <2>3. QED
    BY <2>1, <2>2
<1>13. WholeTables(e) /\ e.link = d4.link /\ \A k \in Kinds : Untouched(k, d4, e)
  <2>1. Shaped(e) /\ e.people = d4.people /\ e.aliases = d4.aliases /\ e.pending = d4.pending /\ e.link = d4.link
    BY <1>6, <1>12 DEF WholeTables, DbKnown, Shaped
  <2>2. WholeTables(e)
    BY <1>12, <2>1, SameIsWhole
  <2>3. QED
    BY <2>1, <2>2 DEF Untouched
<1>14. StillWritten(db, e)
  BY <1>8, <1>9, <1>10, <1>11, <1>12, <1>13 DEF StillWritten
<1>15. ASSUME NEW k \in Kinds
       PROVE  Accounted(k, db, e, b)
  <2>1. CASE k = "authors"
    <3>1. Accounted(k, d0, d1, b) /\ Untouched(k, db, d0) /\ Untouched(k, d1, e)
      BY <1>8, <1>9, <1>10, <1>11, <1>12, <1>13, <2>1 DEF Untouched
    <3>2. QED
      BY <3>1, AccountedStays
  <2>2. CASE k = "narrators"
    <3>1. Accounted(k, d2, d3, b) /\ Untouched(k, db, d2) /\ Untouched(k, d3, e)
      BY <1>8, <1>9, <1>10, <1>11, <1>12, <1>13, <2>2 DEF Untouched
    <3>2. QED
      BY <3>1, AccountedStays
  <2>3. CASE k = "series"
    <3>1. Accounted(k, d3, d4, b) /\ Untouched(k, db, d3) /\ Untouched(k, d4, e)
      BY <1>8, <1>9, <1>10, <1>11, <1>12, <1>13, <2>3 DEF Untouched
    <3>2. QED
      BY <3>1, AccountedStays
  <2>4. QED
    BY <2>1, <2>2, <2>3, IdentityAssumption
<1>16. QED
  BY <1>7, <1>13, <1>14, <1>15

-----------------------------------------------------------------------------
(* The operator's requests                                                   *)

\* Among the spellings of a row the one that is exalted is its prime one.
LEMMA ExaltedKnown ==
  ASSUME NEW k \in Kinds, NEW i, NEW a, WholeTables(db)
  PROVE  /\ WholeTables(Exalted(k, i, a)) /\ Exalted(k, i, a).link = db.link
<1>1. PICK mine : mine = {r \in Matches(k, db, a) : r.id = i}
  OBVIOUS
<1>2. CASE Cardinality(mine) # 1 \/ \E r \in mine : r.prime
  BY <1>1, <1>2 DEF Exalted
<1>3. CASE Cardinality(mine) = 1 /\ ~\E r \in mine : r.prime
  <2>1. PICK A : A = db.aliases[k]
    OBVIOUS
  <2>2. Shaped(db) /\ Known(k, db) /\ IsFiniteSet(A) /\ mine \subseteq A
    BY <1>1, <2>1 DEF WholeTables, DbKnown, Known, Numbered, Matches
  <2>3. PICK x : mine = {x}
    BY <1>3, <2>2, FS_Subset, FS_Singleton
  <2>4. x \in A /\ x.id = i
    BY <1>1, <2>2, <2>3
  <2>5. PICK f : f = [r \in A |-> IF r.id = i THEN [r EXCEPT !.prime = r \in mine] ELSE r]
    OBVIOUS
  <2>6. /\ DOMAIN f = A
        /\ \A r \in A : AliasRow(f[r]) /\ f[r].id = r.id /\ f[r].alias = r.alias
        /\ \A r \in A : r.id # i => f[r] = r
        /\ \A r \in A : r.id = i => (f[r].prime <=> r = x)
    <3>1. \A r \in A : AliasRow(r)
      BY <2>1, <2>2 DEF Known, Numbered
    <3>2. ASSUME NEW r \in A, r.id = i
          PROVE  /\ AliasRow(f[r]) /\ f[r].id = r.id /\ f[r].alias = r.alias
                 /\ f[r].prime <=> r = x
      <4>1. CASE r = x
        <5>1. (r \in mine) = TRUE
          BY <2>3, <4>1
        <5>2. f[r] = [r EXCEPT !.prime = r \in mine]
          BY <2>5, <3>2
        <5>3. f[r] = [r EXCEPT !.prime = TRUE]
          BY <5>1, <5>2, Zenon
        <5>4. QED
          BY <3>1, <3>2, <4>1, <5>3 DEF AliasRow
      <4>2. CASE r # x
        <5>1. (r \in mine) = FALSE
          BY <2>3, <4>2
        <5>2. f[r] = [r EXCEPT !.prime = r \in mine]
          BY <2>5, <3>2
        <5>3. f[r] = [r EXCEPT !.prime = FALSE]
          BY <5>1, <5>2, Zenon
        <5>4. QED
          BY <3>1, <3>2, <4>2, <5>3 DEF AliasRow
      <4>3. QED
        BY <4>1, <4>2
    <3>3. QED
      BY <2>5, <3>1, <3>2
  <2>7. PICK T : T = {f[r] : r \in A}
    OBVIOUS
  <2>8. PICK e : e = [db EXCEPT !.aliases[k] = T]
    OBVIOUS
  <2>9. Exalted(k, i, a) = e
    <3>1. T = {IF r.id = i THEN [r EXCEPT !.prime = r \in mine] ELSE r : r \in A}
      BY <2>5, <2>7
    <3>2. QED
      BY <1>1, <1>3, <2>1, <2>2, <2>8, <3>1 DEF Exalted, Shaped
  <2>10. /\ Shaped(e) /\ e.people = db.people /\ e.aliases[k] = T /\ e.pending = db.pending /\ e.link = db.link
         /\ \A j \in Kinds : j # k => e.aliases[j] = db.aliases[j]
    BY <2>2, <2>8 DEF Shaped
  <2>11. (\A r \in A : f[r] \in T) /\ \A t \in T : \E r \in A : t = f[r]
    BY <2>7
  <2>12. IsFiniteSet(T)
    BY <2>2, <2>11, ImageSize
  <2>13. Numbered(k, e)
    BY <2>1, <2>2, <2>6, <2>10, <2>11, <2>12 DEF Known, Numbered
  <2>14. ASSUME NEW p \in db.people[k]
         PROVE  /\ \E y : PrimesOf(k, e, p.id) = {y}
                /\ \E r \in e.aliases[k] : r.id = p.id /\ r.alias = p.name
    <3>1. \E r \in T : r.id = p.id /\ r.alias = p.name
      BY <2>1, <2>2, <2>6, <2>11 DEF Known, OwnNames
    <3>2. CASE p.id = i
      <4>1. f[x] \in T /\ f[x].id = i /\ f[x].prime
        BY <2>4, <2>6, <2>11
      <4>2. ASSUME NEW y \in T, y.id = i, y.prime
            PROVE  y = f[x]
        BY <2>6, <2>11, <4>2
      <4>3. PrimesOf(k, e, i) = {f[x]}
        BY <2>10, <4>1, <4>2 DEF PrimesOf
      <4>4. QED
        BY <2>10, <3>1, <3>2, <4>3
    <3>3. CASE p.id # i
      <4>1. PrimesOf(k, e, p.id) = PrimesOf(k, db, p.id)
        BY <2>1, <2>6, <2>10, <2>11, <3>3 DEF PrimesOf
      <4>2. QED
        BY <2>2, <2>10, <3>1, <4>1 DEF Known, OwnNames
    <3>4. QED
      BY <3>2, <3>3
  <2>15. OwnNames(k, e) /\ OwnIds(k, e)
    BY <2>2, <2>10, <2>14 DEF OwnNames, OwnIds, Known
  <2>16. DbKnown(e)
    BY <2>2, <2>10, <2>13, <2>15, OneKind DEF WholeTables, Known
  <2>17. QED
    BY <2>9, <2>10, <2>16 DEF WholeTables, OpenRow, HasRow
<1>4. QED
  BY <1>2, <1>3

\* A decision: its name is registered, its choice attached, and its row stamped.
LEMMA SettledKnown ==
  ASSUME NEW k \in Kinds, NEW d, WholeTables(d), NEW p \in d.pending[k], NEW i, HasRow(k, d, i)
  PROVE  WholeTables(SettleOn(k, p, d, i)) /\ StillWritten(d, SettleOn(k, p, d, i))
<1>1. PICK q : q = [p EXCEPT !.pick = i]
  OBVIOUS
<1>2. PICK d1 : d1 = [d EXCEPT !.pending[k] = (@ \ {p}) \cup {q}]
  OBVIOUS
<1>3. Shaped(d) /\ OpenRow(k, d, p)
  BY DEF WholeTables, DbKnown
<1>4. OpenRow(k, d, q)
  BY <1>1, <1>3 DEF OpenRow
<1>5. /\ Shaped(d1) /\ d1.people = d.people /\ d1.aliases = d.aliases /\ d1.link = d.link
      /\ d1.pending[k] = (d.pending[k] \ {p}) \cup {q}
      /\ \A j \in Kinds : j # k => d1.pending[j] = d.pending[j]
  BY <1>2, <1>3 DEF Shaped
<1>6. WholeTables(d1)
  <2>1. DbKnown(d1)
    BY <1>5, SameIsKnown DEF WholeTables
  <2>2. QED
    BY <1>4, <1>5, <2>1 DEF WholeTables, OpenRow, HasRow
<1>7. PICK d2 : d2 = RegisterAlias(k, d1, i, p.alias, FALSE)
  OBVIOUS
<1>8. DbKnown(d2) /\ Grown(k, d1, d2)
  BY <1>5, <1>6, <1>7, RegisterKnown, RegisterGrows DEF WholeTables, HasRow
<1>9. WholeTables(d2)
  BY <1>6, <1>8, GrownIsWhole
<1>10. PICK d3 : d3 = Attach(k, d2, p.book, i)
  OBVIOUS
<1>11. /\ Shaped(d3) /\ d3.people = d2.people /\ d3.aliases = d2.aliases /\ d3.pending = d2.pending
       /\ StillWritten(d2, d3)
  BY <1>9, <1>10 DEF Attach, WholeTables, DbKnown, Shaped, StillWritten
<1>12. PICK e : e = [d3 EXCEPT !.got = Nothing]
  OBVIOUS
<1>13. SettleOn(k, p, d, i) = e
  BY <1>1, <1>2, <1>7, <1>10, <1>12 DEF SettleOn
<1>14. /\ Shaped(e) /\ e.people = d2.people /\ e.aliases = d2.aliases /\ e.pending = d2.pending
       /\ e.link = d3.link
  BY <1>11, <1>12 DEF Shaped
<1>15. WholeTables(e)
  BY <1>9, <1>14, SameIsWhole
<1>16. StillWritten(d, e)
  BY <1>5, <1>8, <1>11, <1>14 DEF StillWritten, Grown
<1>17. QED
  BY <1>13, <1>15, <1>16

-----------------------------------------------------------------------------
(* The specification                                                         *)

LEMMA InitInvariant == IdInit => IIdentity
<1> SUFFICES ASSUME IdInit PROVE IIdentity
  OBVIOUS
<1>1. \A k \in Kinds : db.pending[k] = {}
  BY DEF IdInit
<1>2. Sourced
  BY DEF IdInit, Sourced
<1>3. QED
  BY <1>1, <1>2, EmptyIsKnown DEF IIdentity, WholeTables

LEMMA EditInvariant ==
  ASSUME IIdentity, NEW next, Edit(next), WholeTables(next), StillWritten(db, next)
  PROVE  IIdentity' /\ StillWritten(db, db')
BY DEF Edit, IIdentity, Sourced

LEMMA StepInvariant ==
  ASSUME IIdentity, IdNext
  PROVE  IIdentity' /\ StillWritten(db, db')
<1>1. WholeTables(db) /\ Sourced /\ DbKnown(db) /\ StillWritten(db, db)
  BY DEF IIdentity, WholeTables, StillWritten
<1>2. ASSUME NEW b \in Books, Resolve(b)
      PROVE  IIdentity' /\ StillWritten(db, db')
  <2>1. PICK e : e = IF Resolution(b).ok THEN Resolution(b).db ELSE db
    OBVIOUS
  <2>2. WholeTables(e) /\ StillWritten(db, e)
    BY <1>1, <2>1, ResolutionAccounted
  <2>3. db' = e /\ evidence' = evidence
    BY <1>2, <2>1 DEF Resolve
  <2>4. QED
    BY <1>1, <2>2, <2>3 DEF IIdentity, Sourced
<1>3. ASSUME NEW b \in Books, NEW k \in Kinds, NEW list \in Lists, Observe(b, k, list)
      PROVE  IIdentity' /\ StillWritten(db, db')
  <2>1. list \in Seq(Candidates)
    BY IdentityAssumption DEF Candidates
  <2>2. db' = db /\ evidence' = [evidence EXCEPT ![k][b] = list]
    BY <1>3 DEF Observe
  <2>3. Sourced'
    BY <1>1, <2>1, <2>2 DEF Sourced
  <2>4. QED
    BY <1>1, <2>2, <2>3 DEF IIdentity
<1>4. ASSUME NEW k \in Kinds, NEW i \in People, NEW a \in Names, AddAlias(k, i, a)
      PROVE  IIdentity' /\ StillWritten(db, db')
  <2>1. PICK e : e = RegisterAlias(k, db, i, a, FALSE)
    OBVIOUS
  <2>2. HasRow(k, db, i) /\ Edit(e)
    BY <1>4, <2>1 DEF AddAlias, Exists, HasRow
  <2>3. DbKnown(e) /\ Grown(k, db, e)
    BY <1>1, <2>1, <2>2, RegisterKnown, RegisterGrows DEF HasRow, DbKnown
  <2>4. WholeTables(e) /\ StillWritten(db, e)
    BY <1>1, <2>3, GrownIsWhole DEF Grown, StillWritten
  <2>5. QED
    BY <2>2, <2>4, EditInvariant
<1>5. ASSUME NEW k \in Kinds, NEW i \in People, NEW a \in Names, Exalt(k, i, a)
      PROVE  IIdentity' /\ StillWritten(db, db')
  <2>1. WholeTables(Exalted(k, i, a)) /\ StillWritten(db, Exalted(k, i, a))
    BY <1>1, ExaltedKnown DEF StillWritten
  <2>2. QED
    BY <1>5, <2>1, EditInvariant DEF Exalt
<1>6. ASSUME NEW k \in Kinds, NEW p \in PendingList(db, k), NEW i \in People, Pick(k, p, i)
      PROVE  IIdentity' /\ StillWritten(db, db')
  <2>1. p \in db.pending[k] /\ i \in p.options
    BY <1>6 DEF PendingList, Pick
  <2>2. HasRow(k, db, i)
    BY <1>1, <2>1 DEF WholeTables, OpenRow
  <2>3. WholeTables(SettleOn(k, p, db, i)) /\ StillWritten(db, SettleOn(k, p, db, i))
    BY <1>1, <2>1, <2>2, SettledKnown
  <2>4. QED
    BY <1>6, <2>3, EditInvariant DEF Pick
<1>7. ASSUME NEW k \in Kinds, NEW p \in PendingList(db, k), NEW a \in Names, NEW ext \in OptionOf(Exts),
             CreateNew(k, p, a, ext)
      PROVE  IIdentity' /\ StillWritten(db, db')
  <2>1. PICK d : d = Create(k, db, a, ext)
    OBVIOUS
  <2>2. k = "series" \/ ext = Nothing \/ \A q \in db.people[k] : q.ext # ext
    BY <1>7 DEF CreateNew
  <2>3. DbKnown(d) /\ HasRow(k, d, d.got)
    BY <1>1, <2>1, <2>2, CreateKnown DEF HasRow
  <2>4. Grown(k, db, d)
    <3>1. IsFiniteSet(db.people[k]) /\ Shaped(db)
      BY <1>1 DEF DbKnown, Known, Numbered
    <3>2. QED
      BY <2>1, <3>1, CreateGrows
  <2>5. WholeTables(d) /\ StillWritten(db, d) /\ p \in d.pending[k]
    BY <1>1, <2>3, <2>4, GrownIsWhole DEF Grown, StillWritten, PendingList
  <2>6. WholeTables(SettleOn(k, p, d, d.got)) /\ StillWritten(d, SettleOn(k, p, d, d.got))
    BY <2>3, <2>5, SettledKnown
  <2>7. Edit(SettleOn(k, p, d, d.got))
    BY <1>7, <2>1 DEF CreateNew
  <2>8. StillWritten(db, SettleOn(k, p, d, d.got))
    BY <2>5, <2>6 DEF StillWritten
  <2>9. QED
    BY <2>6, <2>7, <2>8, EditInvariant
<1>8. QED
  BY <1>2, <1>3, <1>4, <1>5, <1>6, <1>7 DEF IdNext

LEMMA StutterInvariant ==
  ASSUME IIdentity, UNCHANGED idVars
  PROVE  IIdentity'
BY DEF idVars, IIdentity, Sourced

LEMMA IdentityInvariant == IdSpec => []IIdentity
<1>1. IIdentity /\ [IdNext]_idVars => IIdentity'
  BY StepInvariant, StutterInvariant
<1>2. QED
  BY <1>1, InitInvariant, PTL DEF IdSpec

(* Every row of authors, narrators and series can be found: whatever runs,   *)
(* decisions and edits come in whatever order (find_or_insert, move_prime,   *)
(* names_pending_resolve), it has exactly one prime spelling, its own name   *)
(* among its spellings, and an Audible id nobody else has.                   *)
THEOREM RowsStayFindable == IdSpec => []Findable
<1>1. IIdentity => Findable
  BY KnownIsFindable DEF IIdentity, WholeTables
<1>2. QED
  BY <1>1, IdentityInvariant, PTL

(* A completed run of resolve-identity accounts for every candidate of every *)
(* kind, lists of any length and names that differ in case included; and     *)
(* nothing that runs or that the operator does costs a book its author.      *)
THEOREM CandidatesAccounted == IdSpec => NothingVanishes
<1> DEFINE Kept ==
      /\ \A b \in Books : Resolve(b) /\ Resolution(b).ok =>
           \A k \in Kinds : \A n \in Considered(k, evidence[k][b]) :
             LET name == evidence[k][b][n].name
             IN  \/ \E r \in db'.aliases[k] : r.id \in db'.link[k][b] /\ SameName(r.alias, name)
                 \/ \E p \in PendingList(db', k) \cup (db.pending[k] \ PendingList(db, k)) :
                      p.book = b /\ SameName(p.alias, name)
      /\ \A b \in Books : "authors" \in Kinds /\ db.link["authors"][b] # {} => db'.link["authors"][b] # {}
<1>1. ASSUME IIdentity, IdNext
      PROVE  Kept
  <2>1. ASSUME NEW b \in Books, Resolve(b), Resolution(b).ok,
               NEW k \in Kinds, NEW n \in Considered(k, evidence[k][b])
        PROVE  \/ \E r \in db'.aliases[k] : r.id \in db'.link[k][b] /\ SameName(r.alias, evidence[k][b][n].name)
               \/ \E p \in PendingList(db', k) \cup (db.pending[k] \ PendingList(db, k)) :
                    p.book = b /\ SameName(p.alias, evidence[k][b][n].name)
    <3>1. db' = Resolution(b).db
      BY <2>1 DEF Resolve
    <3>2. Accounted(k, db, db', b)
      BY <1>1, <3>1, ResolutionAccounted
    <3>3. QED
      BY <3>2 DEF Accounted, PendingList
  <2>2. \A b \in Books : "authors" \in Kinds /\ db.link["authors"][b] # {} => db'.link["authors"][b] # {}
    BY <1>1, StepInvariant DEF StillWritten
  <2>3. QED
    BY <2>1, <2>2
<1>2. IIdentity /\ [IdNext]_idVars => [Kept]_idVars
  BY <1>1
<1>3. IdSpec => [][Kept]_idVars
  <2> HIDE DEF Kept
  <2>1. QED
    BY <1>2, IdentityInvariant, PTL DEF IdSpec
<1>4. QED
  BY <1>3 DEF NothingVanishes

-----------------------------------------------------------------------------
(* --- Types of Identity --------------------------------------------------- *)

-----------------------------------------------------------------------------
(* The types of the identity tables, and how many people there are: a run     *)
(* numbers a person under a spelling that nobody has, so there are no more    *)
(* people than spellings on record and requests of the operator together.     *)

Bearers == [id : Nat \ {0}, name : Names, ext : OptionOf(Exts)]
Spellings == [id : Nat, alias : Names, prime : BOOLEAN]
Decisions == [book : Books, alias : Names, options : SUBSET Nat, pick : OptionOf(Nat)]
SpellingsOf(k, d) == {r.alias : r \in d.aliases[k]}

Counted(k, d, n) == Cardinality(d.people[k]) <= Cardinality(SpellingsOf(k, d)) + n
Proper(k, d, n) ==
  /\ d.people[k] \subseteq Bearers /\ d.aliases[k] \subseteq Spellings /\ Counted(k, d, n)
  /\ d.pending[k] \subseteq Decisions /\ \A p \in d.pending[k] : p.pick # Nothing => HasRow(k, d, p.pick)

LinkedToRows(d) == \A k \in Kinds, b \in Books : \A i \in d.link[k][b] : HasRow(k, d, i)
OneAuthor(d) == "authors" \in Kinds => \A b \in Books : \A i, j \in d.link["authors"][b] : i = j
PublisherTyped(d) == d.publisher \in [Books -> OptionOf(Publishers)]
Sound(d, n) ==
  /\ WholeTables(d) /\ \A k \in Kinds : Proper(k, d, n)
  /\ LinkedToRows(d) /\ OneAuthor(d) /\ PublisherTyped(d)

LEMMA NamesFinite == IsFiniteSet(Names) /\ MaxNameEdits \in Nat
BY IdentityAssumption

LEMMA SpellingsFew ==
  ASSUME NEW k, NEW d, d.aliases[k] \subseteq Spellings
  PROVE  /\ SpellingsOf(k, d) \subseteq Names /\ IsFiniteSet(SpellingsOf(k, d))
         /\ Cardinality(SpellingsOf(k, d)) \in Nat /\ Cardinality(SpellingsOf(k, d)) <= Cardinality(Names)
<1>1. SpellingsOf(k, d) \subseteq Names
  BY DEF SpellingsOf, Spellings
<1>2. QED
  BY <1>1, NamesFinite, FS_Subset, FS_CardinalityType

\* More spellings, and the same people.
LEMMA MoreSpellings ==
  ASSUME NEW k, NEW d, NEW e, NEW n \in Nat, Counted(k, d, n), IsFiniteSet(d.people[k]),
         d.aliases[k] \subseteq e.aliases[k], e.aliases[k] \subseteq Spellings,
         Cardinality(e.people[k]) = Cardinality(d.people[k])
  PROVE  Counted(k, e, n)
<1>1. SpellingsOf(k, d) \subseteq SpellingsOf(k, e)
  BY DEF SpellingsOf
<1>2. /\ IsFiniteSet(SpellingsOf(k, e)) /\ Cardinality(SpellingsOf(k, e)) \in Nat
      /\ Cardinality(SpellingsOf(k, d)) \in Nat
  BY SpellingsFew
<1>3. Cardinality(SpellingsOf(k, d)) <= Cardinality(SpellingsOf(k, e))
  BY <1>1, <1>2, FS_Subset
<1>4. Cardinality(d.people[k]) \in Nat
  BY FS_CardinalityType
<1>5. QED
  BY <1>2, <1>3, <1>4 DEF Counted

\* What a step of one kind leaves of the whole.
LEMMA GrownIsSound ==
  ASSUME NEW d, NEW e, NEW k \in Kinds, NEW n \in Nat, Sound(d, n),
         DbKnown(e), Grown(k, d, e), Proper(k, e, n), e.publisher = d.publisher
  PROVE  Sound(e, n)
<1>1. WholeTables(e)
  BY GrownIsWhole DEF Sound
<1>2. \A j \in Kinds : \A i : HasRow(j, d, i) => HasRow(j, e, i)
  BY DEF Grown, HasRow
<1>3. ASSUME NEW j \in Kinds, j # k
      PROVE  Proper(j, e, n)
  <2>1. e.people[j] = d.people[j] /\ e.aliases[j] = d.aliases[j] /\ e.pending[j] = d.pending[j]
    BY <1>3 DEF Grown
  <2>2. Proper(j, d, n)
    BY DEF Sound
  <2>3. QED
    BY <1>2, <2>1, <2>2 DEF Proper, Counted, SpellingsOf
<1>4. LinkedToRows(e) /\ OneAuthor(e) /\ PublisherTyped(e)
  BY <1>2 DEF Sound, Grown, LinkedToRows, OneAuthor, PublisherTyped
<1>5. QED
  BY <1>1, <1>3, <1>4 DEF Sound

\* Links and publishers are written over the same rows.
LEMMA RelinkedIsSound ==
  ASSUME NEW d, NEW e, NEW n \in Nat, Sound(d, n), Shaped(e),
         e.people = d.people, e.aliases = d.aliases, e.pending = d.pending,
         \A k \in Kinds, b \in Books : \A i \in e.link[k][b] : HasRow(k, d, i),
         OneAuthor(e), PublisherTyped(e)
  PROVE  Sound(e, n)
<1>1. WholeTables(e)
  BY SameIsWhole DEF Sound
<1>2. \A k \in Kinds : Proper(k, e, n)
  BY DEF Sound, Proper, Counted, SpellingsOf, HasRow
<1>3. LinkedToRows(e)
  BY DEF LinkedToRows, HasRow
<1>4. QED
  BY <1>1, <1>2, <1>3 DEF Sound

LEMMA MoreRequests ==
  ASSUME NEW d, NEW n \in Nat, Sound(d, n)
  PROVE  Sound(d, n + 1)
<1>1. ASSUME NEW k \in Kinds
      PROVE  Proper(k, d, n + 1)
  <2>1. Proper(k, d, n) /\ IsFiniteSet(d.people[k])
    BY DEF Sound, WholeTables, DbKnown, Known, Numbered
  <2>2. Cardinality(d.people[k]) \in Nat /\ Cardinality(SpellingsOf(k, d)) \in Nat
    BY <2>1, FS_CardinalityType, SpellingsFew DEF Proper
  <2>3. QED
    BY <2>1, <2>2 DEF Proper, Counted
<1>2. QED
  BY <1>1 DEF Sound

-----------------------------------------------------------------------------
(* The operations on the rows of one kind                                     *)

LEMMA RegisterProper ==
  ASSUME NEW d, NEW k \in Kinds, NEW n \in Nat, DbKnown(d), Proper(k, d, n), NEW i \in Nat, NEW a \in Names,
         NEW w \in BOOLEAN
  PROVE  /\ Proper(k, RegisterAlias(k, d, i, a, w), n)
         /\ RegisterAlias(k, d, i, a, w).publisher = d.publisher
<1>1. CASE \E r \in d.aliases[k] : r.id = i /\ r.alias = a
  BY <1>1 DEF RegisterAlias
<1>2. CASE ~\E r \in d.aliases[k] : r.id = i /\ r.alias = a
  <2>1. PICK r : r = [id |-> i, alias |-> a, prime |-> w]
    OBVIOUS
  <2>2. PICK e : e = [d EXCEPT !.aliases[k] = @ \cup {r}]
    OBVIOUS
  <2>3. RegisterAlias(k, d, i, a, w) = e
    BY <1>2, <2>1, <2>2 DEF RegisterAlias
  <2>4. /\ e.people = d.people /\ e.pending = d.pending /\ e.publisher = d.publisher
        /\ e.aliases[k] = d.aliases[k] \cup {r}
    BY <2>2 DEF DbKnown, Shaped
  <2>5. r \in Spellings
    BY <2>1 DEF Spellings
  <2>6. IsFiniteSet(d.people[k])
    BY DEF DbKnown, Known, Numbered
  <2>7. Counted(k, e, n)
    BY <2>4, <2>5, <2>6, MoreSpellings DEF Proper
  <2>8. QED
    BY <2>3, <2>4, <2>5, <2>7 DEF Proper, HasRow
<1>3. QED
  BY <1>1, <1>2

\* A person is one more, and so is the spelling, unless a request made them.
LEMMA CreateProper ==
  ASSUME NEW d, NEW k \in Kinds, NEW n \in Nat, DbKnown(d), Proper(k, d, n), NEW a \in Names, NEW ext \in OptionOf(Exts),
         NEW m \in Nat, m = n + 1 \/ (m = n /\ a \notin SpellingsOf(k, d))
  PROVE  /\ Proper(k, Create(k, d, a, ext), m)
         /\ Create(k, d, a, ext).publisher = d.publisher
<1>1. PICK i : i = NewId(k, d)
  OBVIOUS
<1>2. PICK p : p = [id |-> i, name |-> a, ext |-> ext]
  OBVIOUS
<1>3. PICK r : r = [id |-> i, alias |-> a, prime |-> TRUE]
  OBVIOUS
<1>4. PICK added : added = [d EXCEPT !.people[k] = @ \cup {p}]
  OBVIOUS
<1>5. /\ Shaped(d) /\ IsFiniteSet(d.people[k]) /\ Cardinality(d.people[k]) \in Nat
      /\ \A q \in d.people[k] : q.id \in Nat /\ q.id <= Cardinality(d.people[k])
      /\ \A x \in d.aliases[k] : \E q \in d.people[k] : q.id = x.id
  <2>1. Shaped(d) /\ Numbered(k, d)
    BY DEF DbKnown, Known
  <2>2. QED
    BY <2>1, FS_CardinalityType DEF Numbered, PeopleRow
<1>6. i \in Nat \ {0} /\ i = Cardinality(d.people[k]) + 1
  BY <1>1, <1>5 DEF NewId
<1>7. /\ Shaped(added) /\ added.aliases = d.aliases /\ added.pending = d.pending /\ added.publisher = d.publisher
      /\ added.people[k] = d.people[k] \cup {p}
  BY <1>4, <1>5 DEF Shaped
<1>8. \A x \in d.aliases[k] : x.id # i
  BY <1>5, <1>6
<1>9. PICK named : named = [added EXCEPT !.aliases[k] = @ \cup {r}]
  OBVIOUS
<1>10. RegisterAlias(k, added, i, a, TRUE) = named
  BY <1>3, <1>7, <1>8, <1>9 DEF RegisterAlias
<1>11. PICK e : e = [named EXCEPT !.got = i]
  OBVIOUS
<1>12. Create(k, d, a, ext) = e
  BY <1>1, <1>2, <1>4, <1>10, <1>11 DEF Create
<1>13. /\ e.people[k] = d.people[k] \cup {p} /\ e.aliases[k] = d.aliases[k] \cup {r}
       /\ e.pending = d.pending /\ e.publisher = d.publisher
  <2>1. /\ Shaped(named) /\ named.people = added.people /\ named.aliases[k] = added.aliases[k] \cup {r}
        /\ named.pending = added.pending /\ named.publisher = added.publisher
    BY <1>7, <1>9 DEF Shaped
  <2>2. /\ e.people = named.people /\ e.aliases = named.aliases /\ e.pending = named.pending
        /\ e.publisher = named.publisher
    BY <1>11, <2>1 DEF Shaped
  <2>3. QED
    BY <1>7, <2>1, <2>2
<1>14. p \in Bearers /\ r \in Spellings
  BY <1>2, <1>3, <1>6 DEF Bearers, Spellings
<1>15. Counted(k, e, m)
  <2>1. Cardinality(e.people[k]) <= Cardinality(d.people[k]) + 1 /\ Cardinality(e.people[k]) \in Nat
    <3>1. PICK Q : Q = d.people[k]
      OBVIOUS
    <3>2. IsFiniteSet(Q) /\ Cardinality(Q) \in Nat
      BY <1>5, <3>1
    <3>3. Cardinality(Q \cup {p}) = IF p \in Q THEN Cardinality(Q) ELSE Cardinality(Q) + 1
      BY <3>2, FS_AddElement
    <3>4. QED
      BY <1>13, <3>1, <3>2, <3>3
  <2>2. SpellingsOf(k, e) = SpellingsOf(k, d) \cup {a}
    BY <1>3, <1>13 DEF SpellingsOf
  <2>3. IsFiniteSet(SpellingsOf(k, d)) /\ Cardinality(SpellingsOf(k, d)) \in Nat
    BY SpellingsFew DEF Proper
  <2>4. Cardinality(SpellingsOf(k, e)) = Cardinality(SpellingsOf(k, d)) + (IF a \in SpellingsOf(k, d) THEN 0 ELSE 1)
    <3>1. CASE a \in SpellingsOf(k, d)
      <4>1. SpellingsOf(k, e) = SpellingsOf(k, d)
        BY <2>2, <3>1
      <4>2. QED
        BY <2>3, <3>1, <4>1
    <3>2. CASE a \notin SpellingsOf(k, d)
      BY <2>2, <2>3, <3>2, FS_AddElement
    <3>3. QED
      BY <3>1, <3>2
  <2>5. Cardinality(d.people[k]) <= Cardinality(SpellingsOf(k, d)) + n
    BY DEF Proper, Counted
  <2>6. QED
    BY <1>5, <2>1, <2>3, <2>4, <2>5 DEF Counted
<1>16. QED
  BY <1>12, <1>13, <1>14, <1>15 DEF Proper, HasRow

LEMMA BackfillProper ==
  ASSUME NEW d, NEW k \in Kinds, NEW n \in Nat, DbKnown(d), Proper(k, d, n), NEW i, NEW ext \in Exts
  PROVE  /\ Proper(k, Backfill(k, d, i, ext), n)
         /\ Backfill(k, d, i, ext).publisher = d.publisher
<1>1. PICK P : P = d.people[k]
  OBVIOUS
<1>2. PICK f : f = [p \in P |-> IF p.id = i /\ p.ext = Nothing THEN [p EXCEPT !.ext = ext] ELSE p]
  OBVIOUS
<1>3. PICK T : T = {f[p] : p \in P}
  OBVIOUS
<1>4. PICK e : e = [d EXCEPT !.people[k] = T]
  OBVIOUS
<1>5. Backfill(k, d, i, ext) = e
  <2>1. T = {IF p.id = i /\ p.ext = Nothing THEN [p EXCEPT !.ext = ext] ELSE p : p \in P}
    BY <1>2, <1>3
  <2>2. QED
    BY <1>1, <1>4, <2>1 DEF Backfill, DbKnown, Shaped
<1>6. e.people[k] = T /\ e.aliases = d.aliases /\ e.pending = d.pending /\ e.publisher = d.publisher
  BY <1>4 DEF DbKnown, Shaped
<1>7. P \subseteq Bearers /\ IsFiniteSet(P) /\ \A p, q \in P : p.id = q.id => p = q
  BY <1>1 DEF Proper, DbKnown, Known, Numbered
<1>8. \A p \in P : f[p] \in Bearers /\ f[p].id = p.id
  BY <1>2, <1>7 DEF Bearers, OptionOf
<1>9. T \subseteq Bearers
  BY <1>3, <1>8
<1>10. Cardinality(T) = Cardinality(P)
  <2>1. (\A p \in P : f[p] \in T) /\ \A x \in T : \E p \in P : x = f[p]
    BY <1>3
  <2>2. \A p, q \in P : f[p] = f[q] => p = q
    BY <1>7, <1>8
  <2>3. QED
    BY <1>7, <2>1, <2>2, ImageSize, Zenon
<1>11. Counted(k, e, n)
  BY <1>1, <1>6, <1>10 DEF Proper, Counted, SpellingsOf
<1>12. \A p \in d.pending[k] : p.pick # Nothing => HasRow(k, e, p.pick)
  <2>1. SUFFICES ASSUME NEW p \in d.pending[k], p.pick # Nothing
                 PROVE  HasRow(k, e, p.pick)
    OBVIOUS
  <2>2. PICK q \in P : q.id = p.pick
    BY <1>1, <2>1 DEF Proper, HasRow
  <2>3. f[q] \in T /\ f[q].id = p.pick
    BY <1>3, <1>8, <2>2
  <2>4. QED
    BY <1>6, <2>3 DEF HasRow
<1>13. QED
  BY <1>5, <1>6, <1>9, <1>11, <1>12 DEF Proper

LEMMA GotProper ==
  ASSUME NEW d, NEW k \in Kinds, NEW n, DbKnown(d), Proper(k, d, n), NEW i
  PROVE  Proper(k, [d EXCEPT !.got = i], n) /\ [d EXCEPT !.got = i].publisher = d.publisher
<1>1. PICK e : e = [d EXCEPT !.got = i]
  OBVIOUS
<1>2. e.people = d.people /\ e.aliases = d.aliases /\ e.pending = d.pending /\ e.publisher = d.publisher
  BY <1>1 DEF DbKnown, Shaped
<1>3. QED
  BY <1>1, <1>2 DEF Proper, Counted, SpellingsOf, HasRow

LEMMA AdoptProper ==
  ASSUME NEW d, NEW k \in Kinds, NEW n \in Nat, DbKnown(d), Proper(k, d, n), NEW i \in Nat, NEW c \in Candidates,
         \E p \in d.people[k] : p.id = i,
         c.ext = Nothing \/ (\A q \in d.people[k] : q.ext # c.ext) \/ \A q \in d.people[k] : q.id = i => q.ext # Nothing
  PROVE  Proper(k, Adopt(k, d, i, c), n) /\ Adopt(k, d, i, c).publisher = d.publisher
<1>1. PICK e : e = IF c.ext = Nothing THEN d ELSE Backfill(k, d, i, c.ext)
  OBVIOUS
<1>2. c.name \in Names /\ (c.ext # Nothing => c.ext \in Exts)
  BY DEF Candidates, OptionOf
<1>3. DbKnown(e) /\ Proper(k, e, n) /\ e.publisher = d.publisher /\ \E p \in e.people[k] : p.id = i
  <2>1. CASE c.ext = Nothing
    BY <1>1, <2>1
  <2>2. CASE c.ext # Nothing
    BY <1>1, <1>2, <2>2, BackfillKnown, BackfillProper
  <2>3. QED
    BY <2>1, <2>2
<1>4. PICK f : f = RegisterAlias(k, e, i, c.name, FALSE)
  OBVIOUS
<1>5. DbKnown(f) /\ Proper(k, f, n) /\ f.publisher = d.publisher
  <2>1. DbKnown(f)
    BY <1>3, <1>4, RegisterKnown
  <2>2. Proper(k, f, n) /\ f.publisher = e.publisher
    BY <1>2, <1>3, <1>4, RegisterProper
  <2>3. QED
    BY <1>3, <2>1, <2>2
<1>6. Adopt(k, d, i, c) = [f EXCEPT !.got = i]
  BY <1>1, <1>4 DEF Adopt
<1>7. QED
  BY <1>5, <1>6, GotProper

LEMMA PendingProper ==
  ASSUME NEW d, NEW k \in Kinds, NEW n, DbKnown(d), Proper(k, d, n), NEW b \in Books, NEW a \in Names,
         NEW S, \A r \in S : r.id \in Nat
  PROVE  Proper(k, WritePending(k, d, b, a, S), n) /\ WritePending(k, d, b, a, S).publisher = d.publisher
<1>1. CASE \E p \in d.pending[k] : p.book = b /\ p.alias = a
  BY <1>1 DEF WritePending
<1>2. CASE ~\E p \in d.pending[k] : p.book = b /\ p.alias = a
  <2>1. PICK p : p = [book |-> b, alias |-> a, options |-> {r.id : r \in S}, pick |-> Nothing]
    OBVIOUS
  <2>2. PICK e : e = [d EXCEPT !.pending[k] = @ \cup {p}]
    OBVIOUS
  <2>3. WritePending(k, d, b, a, S) = e
    BY <1>2, <2>1, <2>2 DEF WritePending
  <2>4. /\ e.people = d.people /\ e.aliases = d.aliases /\ e.publisher = d.publisher
        /\ e.pending[k] = d.pending[k] \cup {p}
    BY <2>2 DEF DbKnown, Shaped
  <2>5. p \in Decisions /\ p.pick = Nothing
    BY <2>1 DEF Decisions, OptionOf
  <2>6. QED
    BY <2>3, <2>4, <2>5 DEF Proper, Counted, SpellingsOf, HasRow
<1>3. QED
  BY <1>1, <1>2

-----------------------------------------------------------------------------
(* The candidates of a book                                                   *)

LEMMA FindOrInsertProper ==
  ASSUME NEW d, NEW k \in Kinds, NEW n \in Nat, DbKnown(d), Proper(k, d, n), NEW c \in Candidates, NEW b \in Books
  PROVE  /\ Proper(k, FindOrInsert(k, d, c, b), n)
         /\ FindOrInsert(k, d, c, b).publisher = d.publisher
<1>1. PICK byExt : byExt = {p.id : p \in {p \in d.people[k] : c.ext # Nothing /\ p.ext = c.ext}}
  OBVIOUS
<1>2. PICK found : found = Matches(k, d, c.name)
  OBVIOUS
<1>3. PICK clear : clear = IF Cardinality(found) = 1 THEN {r.id : r \in found} ELSE Corroborated(k, d, found, b)
  OBVIOUS
<1>4. FindOrInsert(k, d, c, b) =
        IF byExt # {} THEN Adopt(k, d, CHOOSE i \in byExt : TRUE, c)
        ELSE IF found = {} THEN Create(k, d, c.name, c.ext)
        ELSE IF clear # {} THEN Adopt(k, d, CHOOSE i \in clear : TRUE, c)
        ELSE [WritePending(k, d, b, c.name, found) EXCEPT !.got = Nothing]
  BY <1>1, <1>2, <1>3 DEF FindOrInsert
<1>5. Known(k, d) /\ c.name \in Names /\ c.ext \in OptionOf(Exts)
  BY DEF DbKnown, Candidates
<1>6. ASSUME NEW i, \E p \in d.people[k] : p.id = i
      PROVE  i \in Nat
  BY <1>5, <1>6 DEF Known, Numbered, PeopleRow
<1>7. CASE byExt # {}
  <2>1. PICK i : i = CHOOSE j \in byExt : TRUE
    OBVIOUS
  <2>2. i \in byExt
    BY <1>7, <2>1
  <2>3. PICK p \in d.people[k] : p.id = i /\ c.ext # Nothing /\ p.ext = c.ext
    BY <1>1, <2>2
  <2>4. \A q \in d.people[k] : q.id = i => q.ext # Nothing
    BY <1>5, <2>3 DEF Known, Numbered
  <2>5. FindOrInsert(k, d, c, b) = Adopt(k, d, i, c)
    BY <1>4, <1>7, <2>1
  <2>6. QED
    BY <1>6, <2>3, <2>4, <2>5, AdoptProper
<1>8. CASE byExt = {} /\ found = {}
  <2>1. c.name \notin SpellingsOf(k, d)
    BY <1>2, <1>8 DEF Matches, SameName, SpellingsOf
  <2>2. FindOrInsert(k, d, c, b) = Create(k, d, c.name, c.ext)
    BY <1>4, <1>8
  <2>3. QED
    BY <1>5, <2>1, <2>2, CreateProper
<1>9. CASE byExt = {} /\ found # {} /\ clear # {}
  <2>1. PICK i : i = CHOOSE j \in clear : TRUE
    OBVIOUS
  <2>2. i \in clear
    BY <1>9, <2>1
  <2>3. \E r \in found : r.id = i
    BY <1>3, <2>2 DEF Corroborated
  <2>4. \E p \in d.people[k] : p.id = i
    BY <1>2, <1>5, <2>3 DEF Matches, Known, Numbered
  <2>5. c.ext = Nothing \/ \A q \in d.people[k] : q.ext # c.ext
    BY <1>1, <1>9
  <2>6. FindOrInsert(k, d, c, b) = Adopt(k, d, i, c)
    BY <1>4, <1>9, <2>1
  <2>7. i \in Nat
    BY <1>6, <2>4
  <2>8. Proper(k, Adopt(k, d, i, c), n) /\ Adopt(k, d, i, c).publisher = d.publisher
    BY <2>4, <2>5, <2>7, AdoptProper
  <2>9. QED
    BY <2>6, <2>8
<1>10. CASE byExt = {} /\ found # {} /\ clear = {}
  <2>1. PICK e : e = WritePending(k, d, b, c.name, found)
    OBVIOUS
  <2>2. \A r \in found : r.id \in Nat /\ HasRow(k, d, r.id)
    BY <1>2, <1>5, <1>6 DEF Matches, Known, Numbered, HasRow
  <2>3. DbKnown(e) /\ Proper(k, e, n) /\ e.publisher = d.publisher
    BY <1>5, <2>1, <2>2, PendingGrows, PendingProper
  <2>4. FindOrInsert(k, d, c, b) = [e EXCEPT !.got = Nothing]
    BY <1>4, <1>10, <2>1
  <2>5. QED
    BY <2>3, <2>4, GotProper
<1>11. QED
  BY <1>7, <1>8, <1>9, <1>10

\* Whom a candidate is answered with has a row.
LEMMA AnswerHasRow ==
  ASSUME NEW k \in Kinds, NEW d, DbKnown(d), NEW b, NEW a, Answered(k, d, b, a), d.got # Nothing
  PROVE  HasRow(k, d, d.got)
BY DEF Answered, Spelled, DbKnown, Known, Numbered, HasRow

WalkedWell(k, d, a, n) ==
  /\ Proper(k, a.d, n) /\ a.d.publisher = d.publisher
  /\ \A j \in 1 .. Len(a.ids) : HasRow(k, a.d, a.ids[j])

LEMMA NextWell ==
  ASSUME NEW k \in Kinds, NEW b \in Books, NEW d, NEW list \in Seq(Candidates), NEW m \in 1 .. Len(list), NEW n \in Nat,
         NEW a, WalkedTo(k, b, d, list, a, m - 1), WalkedWell(k, d, a, n)
  PROVE  WalkedWell(k, d, FoundNext(k, b, list, m, a), n)
<1>1. CASE ~FirstOfName(list, m)
  BY <1>1 DEF FoundNext
<1>2. CASE FirstOfName(list, m)
  <2>1. PICK c : c = Distinct(k, list, m)
    OBVIOUS
  <2>2. c \in Candidates
    <3>1. PICK with : with = {x \in DOMAIN list : SameName(list[x].name, list[m].name) /\ list[x].ext # Nothing}
      OBVIOUS
    <3>2. PICK x : x = CHOOSE y \in with : \A o \in with : y <= o
      OBVIOUS
    <3>3. PICK y : y = list[m]
      OBVIOUS
    <3>4. y \in Candidates
      BY <3>3
    <3>5. CASE k # "series" \/ with = {}
      BY <2>1, <3>1, <3>3, <3>4, <3>5 DEF Distinct
    <3>6. CASE k = "series" /\ with # {}
      <4>1. c = [y EXCEPT !.ext = list[x].ext]
        BY <2>1, <3>1, <3>2, <3>3, <3>6 DEF Distinct
      <4>2. PICK first \in with : \A o \in with : first <= o
        <5>1. with \subseteq Nat
          BY <3>1
        <5>2. QED
          BY <3>6, <5>1, LeastNatural
      <4>3. x \in with
        BY <3>2, <4>2
      <4>4. list[x] \in Candidates
        BY <3>1, <4>3
      <4>5. QED
        BY <3>4, <4>1, <4>4 DEF Candidates
    <3>7. QED
      BY <3>5, <3>6
  <2>3. PICK r : r = FindOrInsert(k, a.d, c, b)
    OBVIOUS
  <2>4. DbKnown(a.d)
    BY DEF WalkedTo
  <2>5. DbKnown(r) /\ Grown(k, a.d, r) /\ Answered(k, r, b, c.name)
    BY <2>3, <2>4, FindOrInsertAnswers
  <2>6. Proper(k, r, n) /\ r.publisher = d.publisher
    BY <2>2, <2>3, <2>4, FindOrInsertProper DEF WalkedWell
  <2>7. PICK ids : ids = IF r.got = Nothing THEN a.ids ELSE Append(a.ids, r.got)
    OBVIOUS
  <2>8. FoundNext(k, b, list, m, a) = [d |-> r, ids |-> ids]
    BY <1>2, <2>1, <2>3, <2>7 DEF FoundNext
  <2>9. \A j \in 1 .. Len(ids) : HasRow(k, r, ids[j])
    <3>1. \A j \in 1 .. Len(a.ids) : HasRow(k, r, a.ids[j])
      BY <2>5 DEF WalkedWell, Grown
    <3>2. CASE r.got = Nothing
      BY <2>7, <3>1, <3>2
    <3>3. CASE r.got # Nothing
      <4>1. HasRow(k, r, r.got)
        BY <2>5, <3>3, AnswerHasRow
      <4>2. a.ids \in Seq(Nat) /\ ids = Append(a.ids, r.got)
        BY <2>7, <3>3 DEF WalkedTo
      <4>3. \A j \in 1 .. Len(ids) : ids[j] = r.got \/ (j \in 1 .. Len(a.ids) /\ ids[j] = a.ids[j])
        BY <4>2
      <4>4. QED
        BY <3>1, <4>1, <4>3
    <3>4. QED
      BY <3>2, <3>3
  <2>10. QED
    BY <2>6, <2>8, <2>9 DEF WalkedWell
<1>3. QED
  BY <1>1, <1>2

LEMMA AllWell ==
  ASSUME NEW k \in Kinds, NEW b \in Books, NEW d, NEW n \in Nat, DbKnown(d), Proper(k, d, n), NEW list \in Seq(Candidates)
  PROVE  WalkedWell(k, d, Found(k, b, d, list), n)
<1>1. PICK last \in Nat : last = Len(list)
  OBVIOUS
<1>2. PICK acc : Walk(k, b, d, list, last, acc) /\ Found(k, b, d, list) = acc[last]
  BY <1>1, FoundIsWalk
<1>3. PICK S : S = {m \in 0 .. last : WalkedTo(k, b, d, list, acc[m], m) /\ WalkedWell(k, d, acc[m], n)}
  OBVIOUS
<1>4. 0 \in S
  <2>1. acc[0] = StartOf(d)
    BY <1>1, <1>2 DEF Walk
  <2>2. WalkedTo(k, b, d, list, acc[0], 0)
    BY <2>1, GrownFromSelf DEF WalkedTo, StartOf
  <2>3. WalkedWell(k, d, acc[0], n)
    BY <2>1 DEF WalkedWell, StartOf
  <2>4. QED
    BY <1>1, <1>3, <2>2, <2>3
<1>5. ASSUME NEW m \in 1 .. last, m - 1 \in S
      PROVE  m \in S
  <2>1. acc[m] = FoundNext(k, b, list, m, acc[m - 1])
    BY <1>1, <1>2 DEF Walk
  <2>2. WalkedTo(k, b, d, list, acc[m - 1], m - 1) /\ WalkedWell(k, d, acc[m - 1], n) /\ m \in 1 .. Len(list)
    BY <1>1, <1>3, <1>5
  <2>3. WalkedTo(k, b, d, list, acc[m], m)
    BY <2>1, <2>2, NextDone
  <2>4. WalkedWell(k, d, acc[m], n)
    BY <2>1, <2>2, NextWell
  <2>5. QED
    BY <1>3, <2>3, <2>4
<1>6. \A m \in 0 .. last : m \in S
  BY <1>4, <1>5, SetInduction
<1>7. last \in S
  BY <1>6
<1>8. QED
  BY <1>2, <1>3, <1>7

-----------------------------------------------------------------------------
(* A run of a book                                                            *)

LEMMA AuthorSound ==
  ASSUME NEW d, NEW n \in Nat, Sound(d, n), Sourced, NEW b \in Books
  PROVE  Sound(ResolveAuthor(b, d), n)
<1>1. PICK list : list = evidence["authors"][b]
  OBVIOUS
<1>2. CASE "authors" \notin Kinds \/ list = <<>>
  BY <1>1, <1>2 DEF ResolveAuthor
<1>3. CASE "authors" \in Kinds /\ list # <<>>
  <2>1. list \in Seq(Candidates) /\ Head(list) \in Candidates
    BY <1>1, <1>3 DEF Sourced
  <2>2. DbKnown(d) /\ Proper("authors", d, n)
    BY <1>3 DEF Sound, WholeTables
  <2>3. PICK r : r = FindOrInsert("authors", d, Head(list), b)
    OBVIOUS
  <2>4. DbKnown(r) /\ Grown("authors", d, r) /\ Answered("authors", r, b, Head(list).name)
    BY <1>3, <2>2, <2>3, FindOrInsertAnswers
  <2>5. Proper("authors", r, n) /\ r.publisher = d.publisher
    BY <1>3, <2>1, <2>2, <2>3, FindOrInsertProper
  <2>6. Sound(r, n)
    BY <1>3, <2>4, <2>5, GrownIsSound
  <2>7. CASE r.got = Nothing
    BY <1>1, <1>3, <2>3, <2>6, <2>7 DEF ResolveAuthor
  <2>8. CASE r.got # Nothing
    <3>1. PICK e : e = [r EXCEPT !.link["authors"][b] = {r.got}]
      OBVIOUS
    <3>2. ResolveAuthor(b, d) = e
      BY <1>1, <1>3, <2>3, <2>8, <3>1 DEF ResolveAuthor
    <3>3. /\ Shaped(e) /\ e.people = r.people /\ e.aliases = r.aliases /\ e.pending = r.pending
          /\ e.publisher = r.publisher
          /\ e.link["authors"][b] = {r.got} /\ \A k \in Kinds : k # "authors" => e.link[k] = r.link[k]
          /\ \A x \in Books : x # b => e.link["authors"][x] = r.link["authors"][x]
      BY <1>3, <2>4, <3>1 DEF DbKnown, Shaped
    <3>4. HasRow("authors", r, r.got)
      BY <1>3, <2>4, <2>8, AnswerHasRow
    <3>5. \A k \in Kinds, x \in Books : \A i \in e.link[k][x] : HasRow(k, r, i)
      BY <2>6, <3>3, <3>4 DEF Sound, LinkedToRows
    <3>6. OneAuthor(e) /\ PublisherTyped(e)
      BY <2>6, <3>3 DEF Sound, OneAuthor, PublisherTyped
    <3>7. QED
      BY <2>6, <3>2, <3>3, <3>5, <3>6, RelinkedIsSound
  <2>9. QED
    BY <2>7, <2>8
<1>4. QED
  BY <1>2, <1>3

LEMMA JunctionSound ==
  ASSUME NEW d, NEW n \in Nat, Sound(d, n), Sourced, NEW b \in Books, NEW k \in Kinds, k # "authors"
  PROVE  Sound(Relink(k, b, Found(k, b, d, evidence[k][b])), n)
<1>1. PICK list : list = evidence[k][b]
  OBVIOUS
<1>2. list \in Seq(Candidates) /\ DbKnown(d) /\ Proper(k, d, n)
  BY <1>1 DEF Sourced, Sound, WholeTables
<1>3. PICK f : f = Found(k, b, d, list)
  OBVIOUS
<1>4. WalkedTo(k, b, d, list, f, Len(list)) /\ WalkedWell(k, d, f, n)
  BY <1>2, <1>3, AllFound, AllWell
<1>5. Sound(f.d, n)
  BY <1>4, GrownIsSound DEF WalkedTo, WalkedWell
<1>6. PICK I : I = {f.ids[m] : m \in DOMAIN f.ids}
  OBVIOUS
<1>7. PICK e : e = [f.d EXCEPT !.link[k][b] = I]
  OBVIOUS
<1>8. Relink(k, b, f) = e
  BY <1>6, <1>7 DEF Relink
<1>9. /\ Shaped(e) /\ e.people = f.d.people /\ e.aliases = f.d.aliases /\ e.pending = f.d.pending
      /\ e.publisher = f.d.publisher
      /\ e.link[k][b] = I /\ \A j \in Kinds : j # k => e.link[j] = f.d.link[j]
      /\ \A x \in Books : x # b => e.link[k][x] = f.d.link[k][x]
  BY <1>5, <1>7 DEF Sound, WholeTables, DbKnown, Shaped
<1>10. \A i \in I : HasRow(k, f.d, i)
  <2>1. f.ids \in Seq(Nat)
    BY <1>4 DEF WalkedTo
  <2>2. DOMAIN f.ids = 1 .. Len(f.ids)
    BY <2>1
  <2>3. QED
    BY <1>4, <1>6, <2>2 DEF WalkedWell
<1>11. \A j \in Kinds, x \in Books : \A i \in e.link[j][x] : HasRow(j, f.d, i)
  BY <1>5, <1>9, <1>10 DEF Sound, LinkedToRows
<1>12. OneAuthor(e) /\ PublisherTyped(e)
  BY <1>5, <1>9 DEF Sound, OneAuthor, PublisherTyped
<1>13. Sound(e, n)
  BY <1>5, <1>9, <1>11, <1>12, RelinkedIsSound
<1>14. QED
  BY <1>1, <1>3, <1>8, <1>13

ImprintTyped == imprint \in [Books -> OptionOf(Publishers)]

LEMMA FieldsSound ==
  ASSUME NEW d, NEW n \in Nat, Sound(d, n), NEW b \in Books, ImprintTyped
  PROVE  /\ Sound(ResolvePublisher(b, d), n) /\ Sound(RecomputeFranchise(b, d), n)
         /\ Sound([d EXCEPT !.got = Nothing], n)
<1>1. Shaped(d)
  BY DEF Sound, WholeTables, DbKnown
<1>2. ASSUME NEW e, Shaped(e), e.people = d.people, e.aliases = d.aliases, e.pending = d.pending,
             e.link = d.link, PublisherTyped(e)
      PROVE  Sound(e, n)
  BY <1>2, RelinkedIsSound DEF Sound, LinkedToRows, OneAuthor
<1>3. Sound(ResolvePublisher(b, d), n)
  <2>1. CASE imprint[b] = Nothing
    BY <2>1 DEF ResolvePublisher
  <2>2. CASE imprint[b] # Nothing
    <3>1. PICK e : e = [d EXCEPT !.publisher[b] = imprint[b]]
      OBVIOUS
    <3>2. ResolvePublisher(b, d) = e
      BY <2>2, <3>1 DEF ResolvePublisher
    <3>3. /\ Shaped(e) /\ e.people = d.people /\ e.aliases = d.aliases /\ e.pending = d.pending /\ e.link = d.link
          /\ e.publisher = [d.publisher EXCEPT ![b] = imprint[b]]
      BY <1>1, <3>1 DEF Shaped
    <3>4. PublisherTyped(e)
      BY <3>3 DEF Sound, PublisherTyped, ImprintTyped
    <3>5. QED
      BY <1>2, <3>2, <3>3, <3>4
  <2>3. QED
    BY <2>1, <2>2
<1>4. Sound(RecomputeFranchise(b, d), n)
  <2>1. PICK x, y : RecomputeFranchise(b, d) = [d EXCEPT !.franchise = x, !.sortKey = y]
    BY DEF RecomputeFranchise
  <2>2. PICK e : e = [d EXCEPT !.franchise = x, !.sortKey = y]
    OBVIOUS
  <2>3. /\ Shaped(e) /\ e.people = d.people /\ e.aliases = d.aliases /\ e.pending = d.pending /\ e.link = d.link
        /\ e.publisher = d.publisher
    BY <1>1, <2>2 DEF Shaped
  <2>4. PublisherTyped(e)
    BY <2>3 DEF Sound, PublisherTyped
  <2>5. QED
    BY <1>2, <2>1, <2>2, <2>3, <2>4
<1>5. Sound([d EXCEPT !.got = Nothing], n)
  <2>1. PICK e : e = [d EXCEPT !.got = Nothing]
    OBVIOUS
  <2>2. /\ Shaped(e) /\ e.people = d.people /\ e.aliases = d.aliases /\ e.pending = d.pending /\ e.link = d.link
        /\ e.publisher = d.publisher
    BY <1>1, <2>1 DEF Shaped
  <2>3. PublisherTyped(e)
    BY <2>2 DEF Sound, PublisherTyped
  <2>4. QED
    BY <1>2, <2>1, <2>2, <2>3
<1>6. QED
  BY <1>3, <1>4, <1>5

LEMMA ResolutionSound ==
  ASSUME NEW n \in Nat, Sound(db, n), Sourced, ImprintTyped, NEW b \in Books
  PROVE  Sound(Resolution(b).db, n)
<1>1. PICK d1 : d1 = ResolveAuthor(b, [db EXCEPT !.got = Nothing])
  OBVIOUS
<1>2. PICK d2 : d2 = ResolvePublisher(b, d1)
  OBVIOUS
<1>3. PICK d3 : d3 = IF "narrators" \notin Kinds \/ evidence["narrators"][b] = <<>> THEN d2
                    ELSE Relink("narrators", b, Found("narrators", b, d2, evidence["narrators"][b]))
  OBVIOUS
<1>4. PICK d4 : d4 = IF "series" \notin Kinds \/ evidence["series"][b] = <<>> THEN d3
                    ELSE RecomputeFranchise(b, Relink("series", b, Found("series", b, d3, evidence["series"][b])))
  OBVIOUS
<1>5. Resolution(b).db = [d4 EXCEPT !.got = Nothing]
  BY <1>1, <1>2, <1>3, <1>4, ResolutionInParts
<1>6. Sound(d1, n)
  BY <1>1, FieldsSound, AuthorSound
<1>7. Sound(d2, n)
  BY <1>2, <1>6, FieldsSound
<1>8. Sound(d3, n)
  <2>1. CASE "narrators" \notin Kinds \/ evidence["narrators"][b] = <<>>
    BY <1>3, <1>7, <2>1
  <2>2. CASE "narrators" \in Kinds /\ evidence["narrators"][b] # <<>>
    BY <1>3, <1>7, <2>2, JunctionSound
  <2>3. QED
    BY <2>1, <2>2
<1>9. Sound(d4, n)
  <2>1. CASE "series" \notin Kinds \/ evidence["series"][b] = <<>>
    BY <1>4, <1>8, <2>1
  <2>2. CASE "series" \in Kinds /\ evidence["series"][b] # <<>>
    <3>1. PICK s : s = Relink("series", b, Found("series", b, d3, evidence["series"][b]))
      OBVIOUS
    <3>2. Sound(s, n)
      BY <1>8, <2>2, <3>1, JunctionSound
    <3>3. QED
      BY <1>4, <2>2, <3>1, <3>2, FieldsSound
  <2>3. QED
    BY <2>1, <2>2
<1>10. QED
  BY <1>5, <1>9, FieldsSound

-----------------------------------------------------------------------------
(* The operator's requests                                                    *)

LEMMA ExaltedSound ==
  ASSUME NEW n \in Nat, Sound(db, n), NEW k \in Kinds, NEW i, NEW a
  PROVE  Sound(Exalted(k, i, a), n)
<1>1. PICK mine : mine = {r \in Matches(k, db, a) : r.id = i}
  OBVIOUS
<1>2. CASE Cardinality(mine) # 1 \/ \E r \in mine : r.prime
  BY <1>1, <1>2 DEF Exalted
<1>3. CASE Cardinality(mine) = 1 /\ ~\E r \in mine : r.prime
  <2>1. PICK A : A = db.aliases[k]
    OBVIOUS
  <2>2. PICK T : T = {IF r.id = i THEN [r EXCEPT !.prime = r \in mine] ELSE r : r \in A}
    OBVIOUS
  <2>3. PICK e : e = [db EXCEPT !.aliases[k] = T]
    OBVIOUS
  <2>4. Shaped(db) /\ Proper(k, db, n) /\ IsFiniteSet(db.people[k])
    BY DEF Sound, WholeTables, DbKnown, Known, Numbered
  <2>5. Exalted(k, i, a) = e
    BY <1>1, <1>3, <2>1, <2>2, <2>3, <2>4 DEF Exalted, Shaped
  <2>6. /\ e.people = db.people /\ e.pending = db.pending /\ e.link = db.link /\ e.publisher = db.publisher
        /\ e.aliases[k] = T /\ \A j \in Kinds : j # k => e.aliases[j] = db.aliases[j]
    BY <2>3, <2>4 DEF Shaped
  <2>7. ASSUME NEW r \in A, NEW w, w \in BOOLEAN
        PROVE  [r EXCEPT !.prime = w] \in Spellings /\ [r EXCEPT !.prime = w].alias = r.alias
    BY <2>1, <2>4, <2>7 DEF Proper, Spellings
  <2>8. ASSUME NEW r \in A
        PROVE  LET x == IF r.id = i THEN [r EXCEPT !.prime = r \in mine] ELSE r
               IN  x \in Spellings /\ x.alias = r.alias
    <3>1. (r \in mine) \in BOOLEAN
      OBVIOUS
    <3>2. [r EXCEPT !.prime = r \in mine] \in Spellings /\ [r EXCEPT !.prime = r \in mine].alias = r.alias
      BY <2>7, <3>1, Zenon
    <3>3. r \in Spellings
      BY <2>1, <2>4 DEF Proper
    <3>4. QED
      BY <3>2, <3>3
  <2>9. T \subseteq Spellings /\ {r.alias : r \in T} = {r.alias : r \in A}
    BY <2>2, <2>8
  <2>10. Proper(k, e, n)
    <3>1. SpellingsOf(k, e) = SpellingsOf(k, db)
      BY <2>1, <2>6, <2>9 DEF SpellingsOf
    <3>2. QED
      BY <2>4, <2>6, <2>9, <3>1 DEF Proper, Counted, HasRow
  <2>11. ASSUME NEW j \in Kinds, j # k
         PROVE  Proper(j, e, n)
    BY <2>6, <2>11 DEF Sound, Proper, Counted, SpellingsOf, HasRow
  <2>12. WholeTables(e)
    BY <2>5, ExaltedKnown DEF Sound
  <2>13. LinkedToRows(e) /\ OneAuthor(e) /\ PublisherTyped(e)
    BY <2>6 DEF Sound, LinkedToRows, OneAuthor, PublisherTyped, HasRow
  <2>14. QED
    BY <2>5, <2>10, <2>11, <2>12, <2>13 DEF Sound
<1>4. QED
  BY <1>2, <1>3

LEMMA SettledSound ==
  ASSUME NEW d, NEW n \in Nat, Sound(d, n), NEW k \in Kinds, NEW p \in d.pending[k], NEW i, HasRow(k, d, i)
  PROVE  Sound(SettleOn(k, p, d, i), n)
<1>1. PICK q : q = [p EXCEPT !.pick = i]
  OBVIOUS
<1>2. PICK d1 : d1 = [d EXCEPT !.pending[k] = (@ \ {p}) \cup {q}]
  OBVIOUS
<1>3. Shaped(d) /\ DbKnown(d) /\ OpenRow(k, d, p) /\ Proper(k, d, n) /\ p \in Decisions /\ i \in Nat
  BY DEF Sound, WholeTables, DbKnown, Proper, HasRow, Bearers
<1>4. q \in Decisions /\ q.pick = i /\ OpenRow(k, d, q) /\ p.alias \in Names /\ p.book \in Books
  BY <1>1, <1>3 DEF Decisions, OptionOf, OpenRow
<1>5. /\ Shaped(d1) /\ d1.people = d.people /\ d1.aliases = d.aliases /\ d1.link = d.link
      /\ d1.publisher = d.publisher /\ d1.pending[k] = (d.pending[k] \ {p}) \cup {q}
      /\ \A j \in Kinds : j # k => d1.pending[j] = d.pending[j]
  BY <1>2, <1>3 DEF Shaped
<1>6. WholeTables(d1)
  <2>1. DbKnown(d1)
    BY <1>3, <1>5, SameIsKnown
  <2>2. QED
    BY <1>4, <1>5, <2>1 DEF Sound, WholeTables, OpenRow, HasRow
<1>7. \A j \in Kinds : Proper(j, d1, n)
  <2>1. Proper(k, d1, n)
    BY <1>3, <1>4, <1>5 DEF Proper, Counted, SpellingsOf, HasRow
  <2>2. \A j \in Kinds : j # k => Proper(j, d1, n)
    <3>1. SUFFICES ASSUME NEW j \in Kinds, j # k
                   PROVE  Proper(j, d1, n)
      OBVIOUS
    <3>2. d1.people[j] = d.people[j] /\ d1.aliases[j] = d.aliases[j] /\ d1.pending[j] = d.pending[j]
      BY <1>5, <3>1
    <3>3. Proper(j, d, n)
      BY DEF Sound
    <3>4. QED
      BY <3>2, <3>3 DEF Proper, Counted, SpellingsOf, HasRow
  <2>3. QED
    BY <2>1, <2>2
<1>8. Sound(d1, n)
  BY <1>5, <1>6, <1>7 DEF Sound, LinkedToRows, OneAuthor, PublisherTyped, HasRow
<1>9. PICK d2 : d2 = RegisterAlias(k, d1, i, p.alias, FALSE)
  OBVIOUS
<1>10. DbKnown(d2) /\ Grown(k, d1, d2) /\ Proper(k, d2, n) /\ d2.publisher = d1.publisher
  <2>1. DbKnown(d1) /\ Shaped(d1) /\ \E x \in d1.people[k] : x.id = i
    BY <1>5, <1>6 DEF WholeTables, HasRow
  <2>2. DbKnown(d2) /\ Grown(k, d1, d2)
    BY <1>9, <2>1, RegisterKnown, RegisterGrows
  <2>3. Proper(k, d2, n) /\ d2.publisher = d1.publisher
    <3>1. PICK a \in Names : a = p.alias
      BY <1>4
    <3>2. Proper(k, d1, n) /\ i \in Nat
      BY <1>3, <1>7
    <3>3. /\ Proper(k, RegisterAlias(k, d1, i, a, FALSE), n)
          /\ RegisterAlias(k, d1, i, a, FALSE).publisher = d1.publisher
      BY <2>1, <3>2, RegisterProper
    <3>4. QED
      BY <1>9, <3>1, <3>3
  <2>4. QED
    BY <2>2, <2>3
<1>11. Sound(d2, n) /\ HasRow(k, d2, i)
  BY <1>5, <1>8, <1>10, GrownIsSound DEF Grown, HasRow
<1>12. PICK links : links = [d2.link EXCEPT ![k][p.book] = IF k = "authors" THEN {i} ELSE @ \cup {i}]
  OBVIOUS
<1>13. PICK d3 : d3 = Attach(k, d2, p.book, i)
  OBVIOUS
<1>14. PICK e : e = [d3 EXCEPT !.got = Nothing]
  OBVIOUS
<1>15. SettleOn(k, p, d, i) = e
  BY <1>1, <1>2, <1>9, <1>13, <1>14 DEF SettleOn
<1>16. /\ Shaped(e) /\ e.people = d2.people /\ e.aliases = d2.aliases /\ e.pending = d2.pending
       /\ e.publisher = d2.publisher /\ e.link = links
  <2>1. Shaped(d2)
    BY <1>10 DEF DbKnown
  <2>2. /\ Shaped(d3) /\ d3.people = d2.people /\ d3.aliases = d2.aliases /\ d3.pending = d2.pending
        /\ d3.publisher = d2.publisher /\ d3.link = links
    BY <1>12, <1>13, <2>1 DEF Attach, Shaped
  <2>3. QED
    BY <1>14, <2>2 DEF Shaped
<1>17. /\ \A j \in Kinds : j # k => links[j] = d2.link[j]
       /\ \A x \in Books : x # p.book => links[k][x] = d2.link[k][x]
       /\ links[k][p.book] = IF k = "authors" THEN {i} ELSE d2.link[k][p.book] \cup {i}
  BY <1>4, <1>10, <1>12 DEF DbKnown, Shaped
<1>18. \A j \in Kinds, x \in Books : \A y \in e.link[j][x] : HasRow(j, d2, y)
  BY <1>11, <1>16, <1>17 DEF Sound, LinkedToRows
<1>19. OneAuthor(e) /\ PublisherTyped(e)
  BY <1>11, <1>16, <1>17 DEF Sound, OneAuthor, PublisherTyped
<1>20. QED
  BY <1>11, <1>15, <1>16, <1>18, <1>19, RelinkedIsSound

LEMMA CreatedSound ==
  ASSUME NEW n \in Nat, Sound(db, n), NEW k \in Kinds, NEW a \in Names, NEW ext \in OptionOf(Exts),
         k = "series" \/ ext = Nothing \/ \A q \in db.people[k] : q.ext # ext
  PROVE  /\ Sound(Create(k, db, a, ext), n + 1)
         /\ Grown(k, db, Create(k, db, a, ext))
         /\ HasRow(k, Create(k, db, a, ext), Create(k, db, a, ext).got)
<1>1. PICK d : d = Create(k, db, a, ext)
  OBVIOUS
<1>2. DbKnown(db) /\ Shaped(db) /\ IsFiniteSet(db.people[k]) /\ Proper(k, db, n)
  BY DEF Sound, WholeTables, DbKnown, Known, Numbered
<1>3. DbKnown(d) /\ HasRow(k, d, d.got)
  BY <1>1, <1>2, CreateKnown DEF HasRow
<1>4. Grown(k, db, d)
  BY <1>1, <1>2, CreateGrows
<1>5. Proper(k, d, n + 1) /\ d.publisher = db.publisher
  BY <1>1, <1>2, CreateProper
<1>6. Sound(db, n + 1)
  BY MoreRequests
<1>7. Sound(d, n + 1)
  BY <1>3, <1>4, <1>5, <1>6, GrownIsSound
<1>8. QED
  BY <1>1, <1>3, <1>4, <1>7

-----------------------------------------------------------------------------
(* The types                                                                  *)

RequestsCounted == nameEdits \in Nat /\ nameEdits <= MaxNameEdits
IdTyped == IIdentity /\ Sound(db, nameEdits) /\ RequestsCounted /\ ImprintTyped

LEMMA IdTypedInit == IdInit => IdTyped
<1> SUFFICES ASSUME IdInit PROVE IdTyped
  OBVIOUS
<1>1. IIdentity
  BY InitInvariant
<1>2. RequestsCounted /\ ImprintTyped /\ nameEdits = 0
  BY NamesFinite DEF IdInit, RequestsCounted, ImprintTyped
<1>3. ASSUME NEW k \in Kinds
      PROVE  Proper(k, db, 0)
  <2>1. db.people[k] = {} /\ db.aliases[k] = {} /\ db.pending[k] = {}
    BY DEF IdInit
  <2>2. SpellingsOf(k, db) = {}
    BY <2>1 DEF SpellingsOf
  <2>3. QED
    BY <2>1, <2>2, FS_EmptySet DEF Proper, Counted
<1>4. LinkedToRows(db) /\ OneAuthor(db) /\ PublisherTyped(db)
  BY DEF IdInit, LinkedToRows, OneAuthor, PublisherTyped, OptionOf
<1>5. QED
  BY <1>1, <1>2, <1>3, <1>4 DEF IdTyped, IIdentity, Sound

\* Nobody has a number above those of the spellings and the requests.
LEMMA RowsArePeople ==
  ASSUME IdTyped, NEW k \in Kinds, NEW i, HasRow(k, db, i)
  PROVE  i \in People
<1>1. PICK p \in db.people[k] : p.id = i
  BY DEF HasRow
<1>2. Numbered(k, db) /\ Proper(k, db, nameEdits)
  BY DEF IdTyped, Sound, WholeTables, DbKnown, Known
<1>3. i \in Nat \ {0} /\ i <= Cardinality(db.people[k]) /\ Cardinality(db.people[k]) \in Nat
  BY <1>1, <1>2, FS_CardinalityType DEF Numbered, Proper, Bearers
<1>4. Cardinality(SpellingsOf(k, db)) \in Nat /\ Cardinality(SpellingsOf(k, db)) <= Cardinality(Names)
  BY <1>2, SpellingsFew DEF Proper
<1>5. Cardinality(Names) \in Nat /\ MaxNameEdits \in Nat
  BY NamesFinite, FS_CardinalityType
<1>6. Cardinality(db.people[k]) <= Cardinality(SpellingsOf(k, db)) + nameEdits
  BY <1>2 DEF Proper, Counted
<1>7. nameEdits \in Nat /\ nameEdits <= MaxNameEdits
  BY DEF IdTyped, RequestsCounted
<1>8. QED
  BY <1>3, <1>4, <1>5, <1>6, <1>7 DEF People

LEMMA IdTypedIsTypeOK == IdTyped => IdTypeOK
<1> SUFFICES ASSUME IdTyped PROVE IdTypeOK
  OBVIOUS
<1>1. Sound(db, nameEdits) /\ WholeTables(db)
  BY DEF IdTyped, Sound
<1>2. ASSUME NEW k \in Kinds
      PROVE  /\ db.people[k] \subseteq Person /\ db.aliases[k] \subseteq Alias
             /\ db.pending[k] \subseteq Pending
             /\ \A b \in Books : \A i \in db.link[k][b] : Exists(k, i)
  <2>1. Numbered(k, db) /\ Proper(k, db, nameEdits)
    BY <1>1 DEF Sound, WholeTables, DbKnown, Known
  <2>2. \A i : HasRow(k, db, i) => i \in People
    BY RowsArePeople
  <2>3. db.people[k] \subseteq Person
    BY <2>1, <2>2 DEF Proper, Bearers, Person, HasRow
  <2>4. db.aliases[k] \subseteq Alias
    BY <2>1, <2>2 DEF Proper, Numbered, Spellings, Alias, HasRow
  <2>5. db.pending[k] \subseteq Pending
    <3>1. SUFFICES ASSUME NEW p \in db.pending[k]
                   PROVE  p \in Pending
      OBVIOUS
    <3>2. p \in Decisions /\ OpenRow(k, db, p) /\ (p.pick # Nothing => HasRow(k, db, p.pick))
      BY <1>1, <2>1 DEF Proper, WholeTables
    <3>3. p.options \subseteq People /\ p.pick \in OptionOf(People)
      BY <2>2, <3>2 DEF OpenRow, OptionOf
    <3>4. QED
      BY <3>2, <3>3 DEF Decisions, Pending
  <2>6. QED
    BY <1>1, <2>3, <2>4, <2>5 DEF Sound, LinkedToRows, HasRow, Exists
<1>3. ASSUME NEW b \in Books, "authors" \in Kinds
      PROVE  Cardinality(db.link["authors"][b]) <= 1
  <2>1. \A i, j \in db.link["authors"][b] : i = j
    BY <1>1, <1>3 DEF Sound, OneAuthor
  <2>2. QED
    BY <2>1, AloneIsFew
<1>4. QED
  BY <1>1, <1>2, <1>3 DEF IdTypeOK, Sound, PublisherTyped

LEMMA EditTyped ==
  ASSUME IdTyped, NEW next, Edit(next), Sound(next, nameEdits + 1)
  PROVE  Sound(db', nameEdits') /\ RequestsCounted' /\ ImprintTyped'
<1>1. db' = next /\ nameEdits' = nameEdits + 1 /\ nameEdits < MaxNameEdits /\ imprint' = imprint
  BY DEF Edit
<1>2. RequestsCounted'
  BY <1>1, NamesFinite DEF IdTyped, RequestsCounted
<1>3. QED
  BY <1>1, <1>2 DEF IdTyped, ImprintTyped

LEMMA IdStepTyped ==
  ASSUME IdTyped, IdNext
  PROVE  IdTyped'
<1>1. /\ IIdentity /\ Sourced /\ Sound(db, nameEdits) /\ nameEdits \in Nat /\ ImprintTyped
      /\ WholeTables(db) /\ DbKnown(db)
  BY DEF IdTyped, IIdentity, RequestsCounted, WholeTables
<1>2. IIdentity'
  BY <1>1, StepInvariant
<1>3. Sound(db, nameEdits + 1)
  BY <1>1, MoreRequests
<1> DEFINE Typed == Sound(db', nameEdits') /\ RequestsCounted' /\ ImprintTyped'
<1>4. ASSUME NEW b \in Books, Resolve(b)
      PROVE  Typed
  <2>1. PICK e : e = IF Resolution(b).ok THEN Resolution(b).db ELSE db
    OBVIOUS
  <2>2. Sound(e, nameEdits)
    BY <1>1, <2>1, ResolutionSound
  <2>3. db' = e /\ nameEdits' = nameEdits /\ imprint' = imprint
    BY <1>4, <2>1 DEF Resolve
  <2>4. QED
    BY <2>2, <2>3 DEF IdTyped, RequestsCounted, ImprintTyped
<1>5. ASSUME NEW b \in Books, NEW k \in Kinds, NEW list \in Lists, Observe(b, k, list)
      PROVE  Typed
  BY <1>1, <1>5 DEF Observe, IdTyped, RequestsCounted, ImprintTyped
<1>6. ASSUME NEW k \in Kinds, NEW i \in People, NEW a \in Names, AddAlias(k, i, a)
      PROVE  Typed
  <2>1. PICK e : e = RegisterAlias(k, db, i, a, FALSE)
    OBVIOUS
  <2>2. (\E p \in db.people[k] : p.id = i) /\ Edit(e) /\ i \in Nat
    <3>1. (\E p \in db.people[k] : p.id = i) /\ Edit(e)
      BY <1>6, <2>1 DEF AddAlias, Exists
    <3>2. i \in Nat
      BY NamesFinite, FS_CardinalityType DEF People
    <3>3. QED
      BY <3>1, <3>2
  <2>3. DbKnown(e) /\ Grown(k, db, e)
    BY <1>1, <2>1, <2>2, RegisterKnown, RegisterGrows DEF DbKnown
  <2>4. Proper(k, e, nameEdits + 1) /\ e.publisher = db.publisher
    <3>1. Proper(k, db, nameEdits + 1) /\ nameEdits + 1 \in Nat
      BY <1>1, <1>3 DEF Sound
    <3>2. QED
      BY <1>1, <2>1, <2>2, <3>1, RegisterProper
  <2>5. Sound(e, nameEdits + 1)
    BY <1>1, <1>3, <2>3, <2>4, GrownIsSound
  <2>6. QED
    BY <2>2, <2>5, EditTyped
<1>7. ASSUME NEW k \in Kinds, NEW i \in People, NEW a \in Names, Exalt(k, i, a)
      PROVE  Typed
  <2>1. Sound(Exalted(k, i, a), nameEdits + 1)
    BY <1>1, <1>3, ExaltedSound
  <2>2. QED
    BY <1>7, <2>1, EditTyped DEF Exalt
<1>8. ASSUME NEW k \in Kinds, NEW p \in PendingList(db, k), NEW i \in People, Pick(k, p, i)
      PROVE  Typed
  <2>1. p \in db.pending[k] /\ i \in p.options
    BY <1>8 DEF PendingList, Pick
  <2>2. HasRow(k, db, i)
    BY <1>1, <2>1 DEF WholeTables, OpenRow
  <2>3. Sound(SettleOn(k, p, db, i), nameEdits + 1)
    BY <1>1, <1>3, <2>1, <2>2, SettledSound
  <2>4. QED
    BY <1>8, <2>3, EditTyped DEF Pick
<1>9. ASSUME NEW k \in Kinds, NEW p \in PendingList(db, k), NEW a \in Names, NEW ext \in OptionOf(Exts),
             CreateNew(k, p, a, ext)
      PROVE  Typed
  <2>1. PICK d : d = Create(k, db, a, ext)
    OBVIOUS
  <2>2. k = "series" \/ ext = Nothing \/ \A q \in db.people[k] : q.ext # ext
    BY <1>9 DEF CreateNew
  <2>3. Sound(d, nameEdits + 1) /\ Grown(k, db, d) /\ HasRow(k, d, d.got)
    BY <1>1, <2>1, <2>2, CreatedSound
  <2>4. p \in d.pending[k]
    BY <2>3 DEF PendingList, Grown
  <2>5. Sound(SettleOn(k, p, d, d.got), nameEdits + 1)
    BY <1>1, <2>3, <2>4, SettledSound
  <2>6. Edit(SettleOn(k, p, d, d.got))
    BY <1>9, <2>1 DEF CreateNew
  <2>7. QED
    BY <2>5, <2>6, EditTyped
<1>10. Typed
  <2> HIDE DEF Typed
  <2>1. QED
    BY <1>4, <1>5, <1>6, <1>7, <1>8, <1>9 DEF IdNext
<1>11. QED
  BY <1>2, <1>10 DEF IdTyped

LEMMA IdStutterTyped ==
  ASSUME IdTyped, UNCHANGED idVars
  PROVE  IdTyped'
<1>1. IIdentity'
  BY StutterInvariant DEF IdTyped
<1>2. db' = db /\ nameEdits' = nameEdits /\ imprint' = imprint
  BY DEF idVars
<1>3. Sound(db', nameEdits') /\ RequestsCounted' /\ ImprintTyped'
  BY <1>2 DEF IdTyped, RequestsCounted, ImprintTyped
<1>4. QED
  BY <1>1, <1>3 DEF IdTyped

-----------------------------------------------------------------------------
(* --- Chapters ------------------------------------------------------------ *)

-----------------------------------------------------------------------------
(* Lists of chapters                                                         *)

FileRows == [dur : Nat, starts : Seq(Nat)]
ChapterRows == [start : Nat, end : Nat, title : TitleKinds, win : BOOLEAN]
FreshRows == {c \in ChapterRows : c.win = FALSE}

\* A list without gap or overlap from one time to another.
Run(list, from, to) ==
  /\ list \in Seq(FreshRows) /\ list # <<>> /\ list[1].start = from /\ list[Len(list)].end = to
  /\ \A n \in 1 .. Len(list) - 1 : list[n].end = list[n + 1].start

LEMMA FreshRow ==
  ASSUME NEW from \in Nat, NEW to \in Nat, NEW t \in TitleKinds
  PROVE  /\ Chapter(from, to, t) \in FreshRows /\ Chapter(from, to, t).start = from
         /\ Chapter(from, to, t).end = to /\ Chapter(from, to, t).title = t
BY DEF Chapter, FreshRows, ChapterRows

LEMMA OneAfterOther ==
  ASSUME NEW p, NEW q, NEW from, NEW mid, NEW to, Run(p, from, mid), Run(q, mid, to)
  PROVE  Run(p \o q, from, to)
<1>1. PICK r : r = p \o q
  OBVIOUS
<1>2. p \in Seq(FreshRows) /\ q \in Seq(FreshRows) /\ Len(p) \in Nat \ {0} /\ Len(q) \in Nat \ {0}
  BY EmptySeq, LenProperties DEF Run
<1>3. /\ r \in Seq(FreshRows) /\ Len(r) = Len(p) + Len(q)
      /\ \A n \in 1 .. Len(p) + Len(q) : r[n] = IF n <= Len(p) THEN p[n] ELSE q[n - Len(p)]
  BY <1>1, <1>2, ConcatProperties
<1>4. r # <<>>
  BY <1>2, <1>3, EmptySeq
<1>5. r[1].start = from /\ r[Len(r)].end = to
  BY <1>2, <1>3 DEF Run
<1>6. ASSUME NEW n \in 1 .. Len(r) - 1
      PROVE  r[n].end = r[n + 1].start
  <2>1. CASE n < Len(p)
    BY <1>2, <1>3, <2>1 DEF Run
  <2>2. CASE n = Len(p)
    <3>1. r[n] = p[Len(p)] /\ r[n + 1] = q[1]
      <4>1. n \in 1 .. Len(p) + Len(q) /\ n + 1 \in 1 .. Len(p) + Len(q)
        BY <1>2, <2>2
      <4>2. n <= Len(p) /\ ~(n + 1 <= Len(p)) /\ (n + 1) - Len(p) = 1
        BY <1>2, <2>2
      <4>3. r[n + 1] = q[(n + 1) - Len(p)]
        BY <1>3, <4>1, <4>2
      <4>4. QED
        BY <1>3, <2>2, <4>1, <4>2, <4>3
    <3>2. QED
      BY <3>1 DEF Run
  <2>3. CASE n > Len(p)
    <3>1. n - Len(p) \in 1 .. Len(q) - 1 /\ r[n] = q[n - Len(p)] /\ r[n + 1] = q[(n - Len(p)) + 1]
      BY <1>2, <1>3, <2>3
    <3>2. QED
      BY <3>1 DEF Run
  <2>4. QED
    BY <1>2, <1>3, <2>1, <2>2, <2>3
<1>7. QED
  BY <1>1, <1>3, <1>4, <1>5, <1>6 DEF Run

\* The chapters of one file.
LEMMA FileTyped ==
  ASSUME NEW f \in FileRows, NEW offset \in Nat
  PROVE  OfFile(f, offset) \in Seq(FreshRows)
<1>1. f.dur \in Nat /\ f.starts \in Seq(Nat)
  BY DEF FileRows
<1>2. CASE f.starts = <<>>
  <2>1. "placeholder" \in TitleKinds
    BY DEF TitleKinds
  <2>2. Chapter(offset, offset + f.dur, "placeholder") \in FreshRows
    BY <1>1, <2>1, FreshRow
  <2>3. QED
    BY <1>2, <2>2 DEF OfFile
<1>3. CASE f.starts # <<>>
  <2>1. PICK list : list = OfFile(f, offset)
    OBVIOUS
  <2>2. PICK N : N = Len(f.starts)
    OBVIOUS
  <2>3. N \in Nat /\ DOMAIN f.starts = 1 .. N
    BY <1>1, <2>2
  <2>4. ASSUME NEW i \in 1 .. N
        PROVE  list[i] \in FreshRows
    <3>1. PICK to : to = offset + (IF i < Len(f.starts) THEN f.starts[i + 1]
                                   ELSE IF f.starts[i] > f.dur THEN f.starts[i] ELSE f.dur)
      OBVIOUS
    <3>2. offset + f.starts[i] \in Nat /\ to \in Nat
      <4>1. f.starts[i] \in Nat /\ (i < N => f.starts[i + 1] \in Nat)
        BY <1>1, <2>2, <2>3
      <4>2. CASE i < N
        BY <2>2, <3>1, <4>1, <4>2
      <4>3. CASE ~(i < N)
        BY <1>1, <2>2, <3>1, <4>1, <4>3
      <4>4. QED
        BY <4>1, <4>2, <4>3
    <3>3. list[i] = Chapter(offset + f.starts[i], to, "placeholder")
      BY <1>3, <2>1, <2>3, <3>1 DEF OfFile
    <3>4. QED
      BY <3>2, <3>3, FreshRow DEF TitleKinds
  <2>5. list = [i \in 1 .. N |-> list[i]]
    BY <1>3, <2>1, <2>3 DEF OfFile
  <2>6. QED
    BY <2>1, <2>3, <2>4, <2>5, IsASeq
<1>4. QED
  BY <1>2, <1>3

LEMMA FileRuns ==
  ASSUME NEW f \in FileRows, InOrder(f), NEW offset \in Nat
  PROVE  Run(OfFile(f, offset), offset, offset + f.dur)
<1>1. f.dur \in Nat /\ f.starts \in Seq(Nat) /\ f.dur > 0
  BY DEF FileRows, InOrder
<1>2. PICK list : list = OfFile(f, offset)
  OBVIOUS
<1>3. list \in Seq(FreshRows)
  BY <1>2, FileTyped
<1>4. CASE f.starts = <<>>
  <2>1. list = <<Chapter(offset, offset + f.dur, "placeholder")>>
    BY <1>1, <1>2, <1>4 DEF OfFile
  <2>2. Len(list) = 1 /\ list[1].start = offset /\ list[1].end = offset + f.dur
    BY <2>1 DEF Chapter
  <2>3. QED
    BY <1>2, <1>3, <2>1, <2>2 DEF Run
<1>5. CASE f.starts # <<>>
  <2>1. PICK N : N = Len(f.starts)
    OBVIOUS
  <2>2. N \in Nat \ {0} /\ DOMAIN f.starts = 1 .. N
    BY <1>1, <1>5, <2>1, EmptySeq
  <2>3. ASSUME NEW i \in 1 .. N
        PROVE  /\ list[i].start = offset + f.starts[i]
               /\ i < N => list[i].end = offset + f.starts[i + 1]
               /\ i = N => list[i].end = offset + f.dur
    <3>1. PICK to : to = offset + (IF i < Len(f.starts) THEN f.starts[i + 1]
                                   ELSE IF f.starts[i] > f.dur THEN f.starts[i] ELSE f.dur)
      OBVIOUS
    <3>2. list[i] = Chapter(offset + f.starts[i], to, "placeholder")
      BY <1>2, <1>5, <2>2, <3>1 DEF OfFile
    <3>3. list[i].start = offset + f.starts[i] /\ list[i].end = to
      BY <3>2 DEF Chapter
    <3>4. i = N => f.starts[i] <= f.dur /\ f.starts[i] \in Nat
      BY <1>1, <1>5, <2>1, <2>2 DEF InOrder
    <3>5. QED
      BY <1>1, <2>1, <3>1, <3>3, <3>4
  <2>4. Len(list) = N
    <3>1. DOMAIN list = 1 .. N
      BY <1>2, <1>5, <2>2 DEF OfFile
    <3>2. QED
      BY <1>3, <2>2, <3>1, LenProperties
  <2>5. f.starts[1] = 0
    BY <1>5 DEF InOrder
  <2>6. list # <<>>
    BY <2>2, <2>4, EmptySeq
  <2>7. \A n \in 1 .. N - 1 : list[n].end = list[n + 1].start
    BY <2>2, <2>3
  <2>8. QED
    BY <1>2, <1>3, <2>2, <2>3, <2>4, <2>5, <2>6, <2>7 DEF Run
<1>6. QED
  BY <1>4, <1>5

-----------------------------------------------------------------------------
(* The files of a book in turn                                               *)

FilesSoFar(files, ends, last, list) ==
  list = [n \in 0 .. last |-> IF n = 0 THEN <<>> ELSE list[n - 1] \o OfFile(files[n], ends[n - 1])]

LEMMA FilesSoFarExist ==
  ASSUME NEW files, NEW ends, NEW last \in Nat
  PROVE  \E list : FilesSoFar(files, ends, last, list)
<1>1. PICK S : S = {n \in 0 .. last : \E list : FilesSoFar(files, ends, n, list)}
  OBVIOUS
<1>2. 0 \in S
  <2>1. PICK list : list = [n \in 0 .. 0 |-> <<>>]
    OBVIOUS
  <2>2. FilesSoFar(files, ends, 0, list)
    BY <2>1 DEF FilesSoFar
  <2>3. QED
    BY <1>1, <2>2
<1>3. ASSUME NEW m \in 1 .. last, m - 1 \in S
      PROVE  m \in S
  <2>1. PICK list : FilesSoFar(files, ends, m - 1, list)
    BY <1>1, <1>3
  <2>2. PICK more : more = [n \in 0 .. m |-> IF n = m THEN list[m - 1] \o OfFile(files[m], ends[m - 1]) ELSE list[n]]
    OBVIOUS
  <2>3. \A n \in 0 .. m - 1 : more[n] = list[n]
    BY <2>2
  <2>4. \A n \in 0 .. m - 1 : list[n] = IF n = 0 THEN <<>> ELSE list[n - 1] \o OfFile(files[n], ends[n - 1])
    BY <2>1 DEF FilesSoFar
  <2>5. ASSUME NEW n \in 0 .. m
        PROVE  more[n] = IF n = 0 THEN <<>> ELSE more[n - 1] \o OfFile(files[n], ends[n - 1])
    <3>1. CASE n = 0
      BY <2>3, <2>4, <3>1
    <3>2. CASE n = m
      <4>1. more[m] = list[m - 1] \o OfFile(files[m], ends[m - 1])
        BY <2>2
      <4>2. more[m - 1] = list[m - 1]
        BY <2>3
      <4>3. n # 0
        BY <3>2
      <4>4. QED
        BY <3>2, <4>1, <4>2, <4>3
    <3>3. CASE n # 0 /\ n # m
      <4>1. n \in 0 .. m - 1 /\ n - 1 \in 0 .. m - 1
        BY <3>3
      <4>2. QED
        BY <2>3, <2>4, <3>3, <4>1
    <3>4. QED
      BY <3>1, <3>2, <3>3
  <2>6. more = [n \in 0 .. m |-> more[n]]
    BY <2>2
  <2>7. FilesSoFar(files, ends, m, more)
    BY <2>5, <2>6 DEF FilesSoFar
  <2>8. QED
    BY <1>1, <2>7
<1>4. last \in S
  BY <1>2, <1>3, SetInduction
<1>5. QED
  BY <1>1, <1>4

LEMMA MergedInTurn ==
  ASSUME NEW files \in Files
  PROVE  \E list : /\ list[0] = <<>> /\ Merge(files) = list[Len(files)]
                   /\ \A n \in 1 .. Len(files) :
                        list[n] = list[n - 1] \o OfFile(files[n], RunningSum(Lengths(files))[n - 1])
<1>1. PICK N : N = Len(files)
  OBVIOUS
<1>2. N \in Nat
  BY <1>1 DEF Files
<1>3. PICK ends : ends = RunningSum(Lengths(files))
  OBVIOUS
<1>4. PICK list : list = CHOOSE f : FilesSoFar(files, ends, N, f)
  OBVIOUS
<1>5. FilesSoFar(files, ends, N, list)
  BY <1>2, <1>4, FilesSoFarExist
<1>6. Merge(files) = list[N]
  BY <1>1, <1>3, <1>4 DEF Merge, InTurn, FilesSoFar
<1>7. \A n \in 0 .. N : list[n] = IF n = 0 THEN <<>> ELSE list[n - 1] \o OfFile(files[n], ends[n - 1])
  BY <1>5, Zenon DEF FilesSoFar
<1>8. list[0] = <<>> /\ \A n \in 1 .. N : list[n] = list[n - 1] \o OfFile(files[n], ends[n - 1])
  <2>1. 0 \in 0 .. N /\ \A n \in 1 .. N : n \in 0 .. N /\ n # 0
    BY <1>2
  <2>2. QED
    BY <1>7, <2>1, Zenon
<1>9. QED
  BY <1>1, <1>3, <1>6, <1>8

LEMMA LengthsAdd ==
  ASSUME NEW files \in Files
  PROVE  /\ RunningSum(Lengths(files))[0] = 0 /\ SumSeq(Lengths(files)) = RunningSum(Lengths(files))[Len(files)]
         /\ \A n \in 1 .. Len(files) :
              RunningSum(Lengths(files))[n] = RunningSum(Lengths(files))[n - 1] + files[n].dur
         /\ \A n \in 0 .. Len(files) : RunningSum(Lengths(files))[n] \in Nat
<1>1. PICK ls : ls = Lengths(files)
  OBVIOUS
<1>2. files \in Seq(FileRows)
  BY DEF Files, FileRows
<1>3. ls = [n \in 1 .. Len(files) |-> files[n].dur]
  BY <1>1, <1>2 DEF Lengths
<1>4. \A n \in 1 .. Len(files) : files[n].dur \in Nat /\ ls[n] = files[n].dur
  <2>1. \A n \in 1 .. Len(files) : files[n] \in FileRows
    BY <1>2
  <2>2. QED
    BY <1>3, <2>1 DEF FileRows
<1>5. ls \in Seq(Nat) /\ Len(ls) = Len(files)
  BY <1>2, <1>3, <1>4
<1>6. /\ RunningSum(ls)[0] = 0 /\ \A n \in 1 .. Len(ls) : RunningSum(ls)[n] = RunningSum(ls)[n - 1] + ls[n]
      /\ \A n \in 0 .. Len(ls) : RunningSum(ls)[n] \in Nat
  BY <1>5, StartsFollow
<1>7. SumSeq(ls) = RunningSum(ls)[Len(ls)]
  BY DEF SumSeq
<1>8. QED
  BY <1>1, <1>4, <1>5, <1>6, <1>7

LEMMA MergeTyped ==
  ASSUME NEW files \in Files
  PROVE  Merge(files) \in Seq(FreshRows)
<1>1. PICK N : N = Len(files)
  OBVIOUS
<1>2. files \in Seq(FileRows) /\ N \in Nat
  BY <1>1 DEF Files, FileRows
<1>3. PICK ends : ends = RunningSum(Lengths(files))
  OBVIOUS
<1>4. PICK list : /\ list[0] = <<>> /\ Merge(files) = list[N]
                  /\ \A n \in 1 .. N : list[n] = list[n - 1] \o OfFile(files[n], ends[n - 1])
  BY <1>1, <1>3, MergedInTurn
<1>5. PICK S : S = {n \in 0 .. N : list[n] \in Seq(FreshRows)}
  OBVIOUS
<1>6. 0 \in S
  <2>1. list[0] \in Seq(FreshRows)
    BY <1>4, EmptySeq
  <2>2. QED
    BY <1>2, <1>5, <2>1
<1>7. ASSUME NEW n \in 1 .. N, n - 1 \in S
      PROVE  n \in S
  <2>1. files[n] \in FileRows /\ ends[n - 1] \in Nat
    BY <1>1, <1>2, <1>3, LengthsAdd
  <2>2. OfFile(files[n], ends[n - 1]) \in Seq(FreshRows)
    BY <2>1, FileTyped
  <2>3. list[n - 1] \in Seq(FreshRows) /\ list[n] = list[n - 1] \o OfFile(files[n], ends[n - 1])
    BY <1>4, <1>5, <1>7
  <2>4. list[n] \in Seq(FreshRows)
    BY <2>2, <2>3, ConcatProperties
  <2>5. QED
    BY <1>5, <2>4
<1>8. N \in S
  BY <1>2, <1>6, <1>7, SetInduction
<1>9. QED
  BY <1>4, <1>5, <1>8

\* Starts that are in order in every file make one list without gap or overlap.
LEMMA MergeSeamless ==
  ASSUME NEW files \in Files, files # <<>>, \A n \in DOMAIN files : InOrder(files[n])
  PROVE  Seamless(Merge(files), files)
<1>1. PICK N : N = Len(files)
  OBVIOUS
<1>2. files \in Seq(FileRows) /\ N \in Nat \ {0} /\ DOMAIN files = 1 .. N
  BY <1>1, EmptySeq DEF Files, FileRows
<1>3. PICK ends : ends = RunningSum(Lengths(files))
  OBVIOUS
<1>4. PICK list : /\ list[0] = <<>> /\ Merge(files) = list[N]
                  /\ \A n \in 1 .. N : list[n] = list[n - 1] \o OfFile(files[n], ends[n - 1])
  BY <1>1, <1>3, MergedInTurn
<1>5. PICK S : S = {n \in 0 .. N : n = 0 \/ Run(list[n], 0, ends[n])}
  OBVIOUS
<1>6. 0 \in S
  BY <1>2, <1>5
<1>7. ASSUME NEW n \in 1 .. N, n - 1 \in S
      PROVE  n \in S
  <2>1. files[n] \in FileRows /\ ends[n - 1] \in Nat /\ ends[n] = ends[n - 1] + files[n].dur /\ InOrder(files[n])
    BY <1>1, <1>2, <1>3, LengthsAdd
  <2>2. PICK own : own = OfFile(files[n], ends[n - 1])
    OBVIOUS
  <2>3. Run(own, ends[n - 1], ends[n])
    BY <2>1, <2>2, FileRuns
  <2>4. list[n] = list[n - 1] \o own
    BY <1>4, <2>2
  <2>5. CASE n = 1
    <3>1. list[n] = own
      <4>1. list[n - 1] = <<>>
        BY <1>4, <2>5
      <4>2. own \in Seq(FreshRows)
        BY <2>3 DEF Run
      <4>3. QED
        BY <2>4, <4>1, <4>2, ConcatEmptySeq
    <3>2. ends[n - 1] = 0
      BY <1>3, <2>5, LengthsAdd
    <3>3. QED
      BY <1>5, <2>3, <3>1, <3>2
  <2>6. CASE n # 1
    <3>1. Run(list[n - 1], 0, ends[n - 1])
      BY <1>5, <1>7, <2>6
    <3>2. Run(list[n], 0, ends[n])
      BY <2>3, <2>4, <3>1, OneAfterOther
    <3>3. QED
      BY <1>5, <3>2
  <2>7. QED
    BY <2>5, <2>6
<1>8. N \in S
  BY <1>2, <1>6, <1>7, SetInduction
<1>9. Run(list[N], 0, ends[N])
  BY <1>2, <1>5, <1>8
<1>10. QED
  BY <1>1, <1>3, <1>4, <1>9, LengthsAdd DEF Run, Seamless

-----------------------------------------------------------------------------
(* Offsets into the transcript                                               *)

\* A word boundary near an offset is one of the text.
LEMMA SnapInText ==
  ASSUME NEW o \in Nat
  PROVE  SnapToWord(o) \in 0 .. TextLen
<1>1. TextLen \in Nat \ {0} /\ Spaces \subseteq 0 .. TextLen - 1
  BY ChaptersAssumption
<1>2. CASE o >= TextLen
  BY <1>1, <1>2 DEF SnapToWord
<1>3. CASE o < TextLen /\ o \in Spaces
  <2>1. PICK T : T = {i \in o .. TextLen : i \notin Spaces}
    OBVIOUS
  <2>2. T \subseteq Nat /\ TextLen \in T
    BY <1>1, <1>3, <2>1
  <2>3. PICK i \in T : \A m \in T : i <= m
    BY <2>2, LeastNatural
  <2>4. i \in o .. TextLen /\ i \notin Spaces /\ \A j \in o .. i - 1 : j \in Spaces
    <3>1. i \in o .. TextLen /\ i \notin Spaces
      BY <2>1
    <3>2. ASSUME NEW j \in o .. i - 1, j \notin Spaces
          PROVE  FALSE
      <4>1. j \in T /\ j < i
        BY <1>1, <2>1, <3>1, <3>2
      <4>2. QED
        BY <2>2, <2>3, <3>1, <4>1
    <3>3. QED
      BY <3>1, <3>2
  <2>5. PICK c : c = CHOOSE x \in o .. TextLen : x \notin Spaces /\ \A j \in o .. x - 1 : j \in Spaces
    OBVIOUS
  <2>6. c \in o .. TextLen
    BY <2>4, <2>5
  <2>7. SnapToWord(o) = c
    BY <1>1, <1>3, <2>5 DEF SnapToWord
  <2>8. QED
    BY <1>1, <2>6, <2>7
<1>4. CASE o < TextLen /\ o \notin Spaces
  <2>1. PICK T : T = {d \in 0 .. o : o - d = 0 \/ (o - d) - 1 \in Spaces}
    OBVIOUS
  <2>2. T \subseteq Nat /\ o \in T
    BY <2>1
  <2>3. PICK d \in T : \A m \in T : d <= m
    BY <2>2, LeastNatural
  <2>4. PICK i : i = o - d
    OBVIOUS
  <2>5. i \in 0 .. o /\ (i = 0 \/ i - 1 \in Spaces)
    BY <2>1, <2>4
  <2>6. ASSUME NEW j \in i .. o, j \in Spaces
        PROVE  FALSE
    <3>1. j < o /\ j \in Int
      BY <1>4, <2>5, <2>6
    <3>2. PICK e : e = o - (j + 1)
      OBVIOUS
    <3>3. e \in 0 .. o /\ (o - e) - 1 = j
      BY <2>5, <3>1, <3>2
    <3>4. e \in T
      BY <2>1, <2>6, <3>3
    <3>5. d <= e
      BY <2>3, <3>4
    <3>6. QED
      BY <2>2, <2>4, <2>5, <3>1, <3>2, <3>5
  <2>7. PICK c : c = CHOOSE x \in 0 .. o : (x = 0 \/ x - 1 \in Spaces) /\ \A j \in x .. o : j \notin Spaces
    OBVIOUS
  <2>8. c \in 0 .. o
    BY <2>5, <2>6, <2>7
  <2>9. SnapToWord(o) = c
    BY <1>1, <1>4, <2>7 DEF SnapToWord
  <2>10. QED
    BY <1>1, <1>4, <2>8, <2>9
<1>5. QED
  BY <1>1, <1>2, <1>3, <1>4

LEMMA OffsetNatural ==
  ASSUME NEW start \in Nat, NEW dur \in Nat \ {0}
  PROVE  RawOffset(start, dur) \in Nat
<1>1. TextLen \in Nat
  BY ChaptersAssumption
<1>2. start * TextLen \in Nat
  BY <1>1
<1>3. \A x \in Nat : x \div dur \in Nat
  OBVIOUS
<1>4. QED
  BY <1>1, <1>2, <1>3 DEF RawOffset

Snapped(toc, dur, last, at) ==
  at = [n \in 0 .. last |-> IF n <= 1 THEN 0 ELSE AtLeast(SnapToWord(RawOffset(toc[n].start, dur)), at[n - 1])]

LEMMA SnappedExist ==
  ASSUME NEW toc, NEW dur, NEW last \in Nat
  PROVE  \E at : Snapped(toc, dur, last, at)
<1> DEFINE Own(n) == SnapToWord(RawOffset(toc[n].start, dur))
<1>1. PICK S : S = {n \in 0 .. last : \E at : Snapped(toc, dur, n, at)}
  OBVIOUS
<1>2. 0 \in S
  <2>1. PICK at : at = [n \in 0 .. 0 |-> 0]
    OBVIOUS
  <2>2. Snapped(toc, dur, 0, at)
    BY <2>1 DEF Snapped
  <2>3. QED
    BY <1>1, <2>2
<1>3. ASSUME NEW m \in 1 .. last, m - 1 \in S
      PROVE  m \in S
  <2>1. PICK at : Snapped(toc, dur, m - 1, at)
    BY <1>1, <1>3
  <2>2. PICK more : more = [n \in 0 .. m |-> IF n = m THEN (IF m <= 1 THEN 0 ELSE AtLeast(Own(m), at[m - 1])) ELSE at[n]]
    OBVIOUS
  <2>3. \A n \in 0 .. m - 1 : more[n] = at[n]
    BY <2>2
  <2>4. \A n \in 0 .. m - 1 : at[n] = IF n <= 1 THEN 0 ELSE AtLeast(Own(n), at[n - 1])
    BY <2>1 DEF Snapped
  <2>5. more[m] = IF m <= 1 THEN 0 ELSE AtLeast(Own(m), at[m - 1])
    BY <2>2
  <2> HIDE DEF Own
  <2>6. ASSUME NEW n \in 0 .. m
        PROVE  more[n] = IF n <= 1 THEN 0 ELSE AtLeast(Own(n), more[n - 1])
    <3>1. CASE n = m
      <4>1. more[m - 1] = at[m - 1]
        BY <2>3
      <4>2. QED
        BY <2>5, <3>1, <4>1
    <3>2. CASE n # m /\ n <= 1
      BY <2>3, <2>4, <3>2
    <3>3. CASE n # m /\ ~(n <= 1)
      <4>1. n \in 0 .. m - 1 /\ n - 1 \in 0 .. m - 1
        BY <3>3
      <4>2. QED
        BY <2>3, <2>4, <3>3, <4>1
    <3>4. QED
      BY <3>1, <3>2, <3>3
  <2>7. more = [n \in 0 .. m |-> more[n]]
    BY <2>2
  <2>8. Snapped(toc, dur, m, more)
    BY <2>6, <2>7 DEF Snapped, Own
  <2>9. QED
    BY <1>1, <2>8
<1>4. last \in S
  BY <1>2, <1>3, SetInduction
<1>5. QED
  BY <1>1, <1>4

\* Offsets never fall, whatever order the starts are in.
LEMMA OffsetsRise ==
  ASSUME NEW toc \in Seq(ChapterRows), NEW dur \in Nat \ {0}
  PROVE  /\ \A n \in 0 .. Len(toc) : Offsets(toc, dur)[n] \in 0 .. TextLen /\ (n <= 1 => Offsets(toc, dur)[n] = 0)
         /\ \A n \in 1 .. Len(toc) : Offsets(toc, dur)[n - 1] <= Offsets(toc, dur)[n]
<1>1. PICK N : N = Len(toc)
  OBVIOUS
<1>2. N \in Nat /\ TextLen \in Nat
  BY <1>1, ChaptersAssumption
<1>3. PICK at : at = CHOOSE f : Snapped(toc, dur, N, f)
  OBVIOUS
<1>4. Snapped(toc, dur, N, at)
  BY <1>2, <1>3, SnappedExist
<1>5. Offsets(toc, dur) = at
  BY <1>1, <1>3 DEF Offsets, Snapped
<1> DEFINE Own(n) == SnapToWord(RawOffset(toc[n].start, dur))
<1>6. \A n \in 0 .. N : at[n] = IF n <= 1 THEN 0 ELSE AtLeast(Own(n), at[n - 1])
  BY <1>4, Zenon DEF Snapped
<1>7. \A n \in 1 .. N : Own(n) \in 0 .. TextLen
  <2> SUFFICES ASSUME NEW n \in 1 .. N
               PROVE  Own(n) \in 0 .. TextLen
    OBVIOUS
  <2>1. toc[n] \in ChapterRows
    BY <1>1
  <2>2. toc[n].start \in Nat
    BY <2>1 DEF ChapterRows
  <2>3. QED
    BY <2>2, OffsetNatural, SnapInText
<1> HIDE DEF Own
<1>8. PICK S : S = {n \in 0 .. N : at[n] \in 0 .. TextLen}
  OBVIOUS
<1>9. 0 \in S
  BY <1>2, <1>6, <1>8
<1>10. ASSUME NEW n \in 1 .. N, n - 1 \in S
       PROVE  n \in S
  <2>1. at[n - 1] \in 0 .. TextLen /\ n \in 0 .. N
    BY <1>8, <1>10
  <2>2. CASE n <= 1
    BY <1>2, <1>6, <1>8, <2>1, <2>2
  <2>3. CASE ~(n <= 1)
    <3>1. at[n] = AtLeast(Own(n), at[n - 1])
      BY <1>6, <2>1, <2>3
    <3>2. QED
      BY <1>7, <1>8, <2>1, <3>1 DEF AtLeast
  <2>4. QED
    BY <2>2, <2>3
<1>11. \A n \in 0 .. N : at[n] \in 0 .. TextLen
  <2>1. \A n \in 0 .. N : n \in S
    BY <1>2, <1>9, <1>10, SetInduction
  <2>2. QED
    BY <1>8, <2>1
<1>12. ASSUME NEW n \in 1 .. N
       PROVE  at[n - 1] <= at[n]
  <2>1. n \in 0 .. N /\ n - 1 \in 0 .. N
    BY <1>2
  <2>2. at[n] \in 0 .. TextLen /\ at[n - 1] \in 0 .. TextLen
    BY <1>11, <2>1
  <2>3. CASE n <= 1
    <3>1. at[n - 1] = 0
      BY <1>6, <2>1, <2>3
    <3>2. QED
      BY <2>2, <3>1
  <2>4. CASE ~(n <= 1)
    <3>1. at[n] = AtLeast(Own(n), at[n - 1])
      BY <1>6, <2>1, <2>4
    <3>2. QED
      BY <1>7, <2>2, <3>1 DEF AtLeast
  <2>5. QED
    BY <2>3, <2>4
<1>13. \A n \in 0 .. N : n <= 1 => at[n] = 0
  BY <1>6
<1>14. QED
  BY <1>1, <1>5, <1>11, <1>12, <1>13

\* So the transcript is divided among the chapters without loss.
MarksOf(toc, o) ==
  [n \in DOMAIN toc |-> [from |-> o[n], to |-> IF n < Len(toc) THEN o[n + 1] ELSE TextLen]]

LEMMA MarksPartition ==
  ASSUME NEW toc \in Seq(ChapterRows), toc # <<>>, NEW dur \in Nat \ {0}
  PROVE  Partition(MarksOf(toc, Offsets(toc, dur)))
<1>1. PICK o : o = Offsets(toc, dur)
  OBVIOUS
<1>2. PICK N : N = Len(toc)
  OBVIOUS
<1>3. N \in Nat \ {0} /\ DOMAIN toc = 1 .. N /\ TextLen \in Nat
  BY <1>2, EmptySeq, ChaptersAssumption
<1>4. /\ \A n \in 0 .. N : o[n] \in 0 .. TextLen /\ (n <= 1 => o[n] = 0)
      /\ \A n \in 1 .. N : o[n - 1] <= o[n]
  BY <1>1, <1>2, OffsetsRise
<1>5. PICK ms : ms = MarksOf(toc, o)
  OBVIOUS
<1>6. ms = [n \in 1 .. N |-> [from |-> o[n], to |-> IF n < N THEN o[n + 1] ELSE TextLen]]
  BY <1>2, <1>3, <1>5 DEF MarksOf
<1>7. ASSUME NEW n \in 1 .. N
      PROVE  /\ ms[n].from = o[n] /\ (n < N => ms[n].to = o[n + 1]) /\ (n = N => ms[n].to = TextLen)
  BY <1>3, <1>6
<1>8. DOMAIN ms = 1 .. N /\ Len(ms) = N
  <2>1. DOMAIN ms = 1 .. N
    BY <1>6
  <2>2. PICK M : M = {ms[n] : n \in 1 .. N}
    OBVIOUS
  <2>3. ms = [n \in 1 .. N |-> ms[n]] /\ \A n \in 1 .. N : ms[n] \in M
    BY <1>6, <2>2
  <2>4. ms \in Seq(M)
    BY <1>3, <2>3, IsASeq
  <2>5. QED
    BY <1>3, <2>1, <2>4, LenProperties
<1>9. \A n \in 1 .. N : ms[n].from <= ms[n].to
  <2> SUFFICES ASSUME NEW n \in 1 .. N
               PROVE  ms[n].from <= ms[n].to
    OBVIOUS
  <2>1. CASE n < N
    <3>1. n + 1 \in 1 .. N /\ (n + 1) - 1 = n
      BY <1>3, <2>1
    <3>2. o[n] <= o[n + 1]
      BY <1>4, <3>1
    <3>3. QED
      BY <1>7, <2>1, <3>2
  <2>2. CASE n = N
    <3>1. o[n] \in 0 .. TextLen
      BY <1>4
    <3>2. QED
      BY <1>3, <1>7, <2>2, <3>1
  <2>3. QED
    BY <1>3, <2>1, <2>2
<1>10. ms[1].from = 0 /\ ms[N].to = TextLen
  <2>1. 1 \in 1 .. N /\ 1 \in 0 .. N /\ N \in 1 .. N
    BY <1>3
  <2>2. o[1] = 0
    BY <1>4, <2>1
  <2>3. QED
    BY <1>7, <2>1, <2>2
<1>11. \A n \in 1 .. N - 1 : ms[n].to = ms[n + 1].from
  <2> SUFFICES ASSUME NEW n \in 1 .. N - 1
               PROVE  ms[n].to = ms[n + 1].from
    OBVIOUS
  <2>1. n \in 1 .. N /\ n < N /\ n + 1 \in 1 .. N
    BY <1>3
  <2>2. QED
    BY <1>7, <2>1
<1>12. QED
  BY <1>1, <1>5, <1>8, <1>9, <1>10, <1>11 DEF Partition

-----------------------------------------------------------------------------
(* The invariant: the rows of a source are flagged together, those of one    *)
(* source at most, and what is in the cache divides the transcript           *)

ListsTyped ==
  /\ layout \in [Books -> Layouts] /\ chDone \in [Books -> SUBSET ChStages]
  /\ chapters \in [Books -> [Sources -> Seq(ChapterRows)]]
  /\ DOMAIN marks = Books
FlagsAgree(list) == \A n, m \in DOMAIN list : list[n].win = list[m].win
OneWinner(b) == \A s, t \in Winners(b) : s = t
RowsFlagged == \A b \in Books : OneWinner(b) /\ \A s \in Sources : FlagsAgree(chapters[b][s])
MarksWhole == \A b \in Books : marks[b] # Nothing => Partition(marks[b])
ChInv == ListsTyped /\ RowsFlagged /\ MarksWhole

LEMMA ChInvIsTypeOK == ChInv => ChTypeOK
<1> SUFFICES ASSUME ChInv PROVE ChTypeOK
  OBVIOUS
<1>1. ASSUME NEW b \in Books, NEW s \in Sources, NEW n \in DOMAIN chapters[b][s]
      PROVE  chapters[b][s][n].title \in TitleKinds
  <2>1. PICK list \in Seq(ChapterRows) : list = chapters[b][s]
    BY DEF ChInv, ListsTyped
  <2>2. list[n] \in ChapterRows
    BY <2>1
  <2>3. QED
    BY <2>1, <2>2 DEF ChapterRows
<1>2. QED
  BY <1>1 DEF ChInv, ListsTyped, ChTypeOK

LEMMA SourcesAre == Sources = {"audnexus", "embedded", "cue", "epub"}
BY DEF Sources, SourceOrder

LEMMA ChInvInit == ChInit => ChInv
<1> SUFFICES ASSUME ChInit PROVE ChInv
  OBVIOUS
<1>1. \A b \in Books, s \in Sources : chapters[b][s] = <<>>
  BY DEF ChInit
<1>2. ListsTyped
  <2>1. <<>> \in Seq(ChapterRows)
    BY EmptySeq
  <2>2. QED
    BY <2>1 DEF ChInit, ListsTyped
<1>3. \A b \in Books : Winners(b) = {}
  BY <1>1 DEF Winners
<1>4. RowsFlagged
  BY <1>1, <1>3 DEF RowsFlagged, OneWinner, FlagsAgree
<1>5. MarksWhole
  BY DEF ChInit, MarksWhole
<1>6. QED
  BY <1>2, <1>4, <1>5 DEF ChInv

LEMMA SameLists ==
  ASSUME RowsFlagged, UNCHANGED chapters
  PROVE  RowsFlagged'
<1>1. SUFFICES ASSUME NEW b \in Books
               PROVE  OneWinner(b)' /\ \A s \in Sources : FlagsAgree(chapters'[b][s])
  BY DEF RowsFlagged
<1>2. OneWinner(b) /\ \A s \in Sources : FlagsAgree(chapters[b][s])
  BY DEF RowsFlagged
<1>3. Winners(b)' = Winners(b)
  BY DEF Winners
<1>4. OneWinner(b)'
  BY <1>2, <1>3 DEF OneWinner
<1>5. QED
  BY <1>2, <1>4

\* A list that a source stage stores has no flags, so no winner comes with it.
LEMMA StoredKeeps ==
  ASSUME ChInv, NEW b \in Books, NEW s \in Sources, NEW list \in Seq(FreshRows), Stored(b, s, list)
  PROVE  chapters' \in [Books -> [Sources -> Seq(ChapterRows)]] /\ RowsFlagged'
<1>1. list \in Seq(ChapterRows) /\ \A n \in DOMAIN list : list[n].win = FALSE
  BY DEF FreshRows
<1>2. /\ chapters \in [Books -> [Sources -> Seq(ChapterRows)]]
      /\ chapters' = [chapters EXCEPT ![b][s] = list]
  BY DEF ChInv, ListsTyped, Stored
<1>3. /\ chapters' \in [Books -> [Sources -> Seq(ChapterRows)]] /\ chapters'[b][s] = list
      /\ \A x \in Books, t \in Sources : x # b \/ t # s => chapters'[x][t] = chapters[x][t]
  BY <1>1, <1>2
<1>4. ASSUME NEW x \in Books, NEW t \in Sources
      PROVE  FlagsAgree(chapters'[x][t])
  <2>1. CASE x = b /\ t = s
    <3>1. chapters'[x][t] = list
      BY <1>3, <2>1
    <3>2. FlagsAgree(list)
      BY <1>1 DEF FlagsAgree
    <3>3. QED
      BY <3>1, <3>2
  <2>2. CASE x # b \/ t # s
    BY <1>3, <2>2 DEF ChInv, RowsFlagged
  <2>3. QED
    BY <2>1, <2>2
<1>5. \A x \in Books : Winners(x)' \subseteq Winners(x)
  BY <1>1, <1>3 DEF Winners
<1>6. QED
  BY <1>3, <1>4, <1>5 DEF ChInv, RowsFlagged, OneWinner

\* What a reader sees is the whole list of the winner.
LEMMA FlaggedIsAll ==
  ASSUME NEW list \in Seq(ChapterRows), \A n \in DOMAIN list : list[n].win = TRUE
  PROVE  FlaggedRows(list) = list
<1>1. PICK N \in Nat : N = Len(list)
  BY LenProperties
<1>2. DOMAIN list = 1 .. N /\ list = [n \in 1 .. N |-> list[n]]
  BY <1>1, LenProperties
<1>3. PICK S : S = {n \in DOMAIN list : list[n].win}
  OBVIOUS
<1>4. S = 1 .. N
  BY <1>2, <1>3
<1>5. IsFiniteSet(S) /\ Cardinality(S) = N
  <2>1. IsFiniteSet(1 .. N) /\ Cardinality(1 .. N) = N
    BY FS_Interval
  <2>2. QED
    BY <1>4, <2>1
<1>6. PICK places : places = OrderedBy(S, <)
  OBVIOUS
<1> DEFINE rank == [x \in S |-> Cardinality({y \in S : y < x})]
           Nth(n) == CHOOSE x \in S : rank[x] = n - 1
<1>7. places = [n \in 1 .. Cardinality(S) |-> Nth(n)]
  BY <1>6 DEF OrderedBy
<1>8. \A x \in 1 .. N : rank[x] = x - 1
  <2> SUFFICES ASSUME NEW x \in 1 .. N
               PROVE  rank[x] = x - 1
    OBVIOUS
  <2>1. {y \in S : y < x} = 1 .. x - 1
    BY <1>4
  <2>2. Cardinality(1 .. x - 1) = x - 1
    BY FS_Interval
  <2>3. QED
    BY <1>4, <2>1, <2>2
<1>9. DOMAIN places = 1 .. N
  <2> HIDE DEF Nth
  <2>1. QED
    BY <1>5, <1>7
<1>10. ASSUME NEW n \in 1 .. N
       PROVE  places[n] = n
  <2>1. places[n] = Nth(n)
    <3> HIDE DEF Nth
    <3>1. QED
      BY <1>5, <1>7
  <2> HIDE DEF rank
  <2>2. n \in S /\ rank[n] = n - 1 /\ \A x \in S : rank[x] = n - 1 => x = n
    BY <1>4, <1>8
  <2>3. Nth(n) \in S /\ rank[Nth(n)] = n - 1
    BY <2>2, Zenon
  <2>4. QED
    BY <2>1, <2>2, <2>3
<1> HIDE DEF Nth
<1>11. FlaggedRows(list) = [n \in DOMAIN places |-> list[places[n]]]
  BY <1>3, <1>6 DEF FlaggedRows
<1>12. QED
  BY <1>2, <1>9, <1>10, <1>11

LEMMA TocIsList ==
  ASSUME ChInv, NEW b \in Books
  PROVE  /\ Toc(b) \in Seq(ChapterRows)
         /\ Toc(b) # <<>> =>
              LET w == CHOOSE s \in Winners(b) : TRUE
              IN  /\ w \in Winners(b) /\ w \in Sources /\ Toc(b) = chapters[b][w]
                  /\ \A n \in DOMAIN Toc(b) : Toc(b)[n].win = TRUE
<1>1. CASE Winners(b) = {}
  <2>1. Toc(b) = <<>>
    BY <1>1 DEF Toc
  <2>2. QED
    BY <2>1, EmptySeq
<1>2. CASE Winners(b) # {}
  <2>1. PICK w : w = CHOOSE s \in Winners(b) : TRUE
    OBVIOUS
  <2>2. w \in Winners(b)
    BY <1>2, <2>1
  <2>3. PICK list : list = chapters[b][w]
    OBVIOUS
  <2>4. w \in Sources /\ list \in Seq(ChapterRows) /\ \E n \in DOMAIN list : list[n].win
    BY <2>2, <2>3 DEF ChInv, ListsTyped, Winners
  <2>5. FlagsAgree(list)
    BY <2>3, <2>4 DEF ChInv, RowsFlagged
  <2>6. \A n \in DOMAIN list : list[n].win = TRUE
    <3>1. \A n \in DOMAIN list : list[n] \in ChapterRows
      BY <2>4
    <3>2. PICK m \in DOMAIN list : list[m].win = TRUE
      BY <2>4, <3>1 DEF ChapterRows
    <3>3. QED
      BY <2>5, <3>2 DEF FlagsAgree
  <2>7. Toc(b) = list
    BY <1>2, <2>1, <2>3, <2>4, <2>6, FlaggedIsAll DEF Toc
  <2>8. QED
    BY <2>1, <2>2, <2>3, <2>4, <2>6, <2>7
<1>3. QED
  BY <1>1, <1>2

-----------------------------------------------------------------------------
(* The steps                                                                 *)

LEMMA SourceStagesKeep ==
  ASSUME ChInv, NEW b \in Books, FetchAudnexus(b) \/ ReadEmbedded(b) \/ ReadCue(b) \/ ReadEpub(b)
  PROVE  ChInv'
<1>1. ASSUME NEW s \in Sources, NEW list \in Seq(FreshRows), Stored(b, s, list) \/ UNCHANGED chapters,
             UNCHANGED <<layout, marks>>, ChFinished(b, s) \/ UNCHANGED chDone
      PROVE  ChInv'
  <2>1. chapters' \in [Books -> [Sources -> Seq(ChapterRows)]] /\ RowsFlagged'
    <3>1. CASE Stored(b, s, list)
      BY <3>1, StoredKeeps
    <3>2. CASE UNCHANGED chapters
      BY <3>2, SameLists DEF ChInv, ListsTyped
    <3>3. QED
      BY <1>1, <3>1, <3>2
  <2>2. chDone' \in [Books -> SUBSET ChStages]
    <3>1. chDone \in [Books -> SUBSET ChStages] /\ s \in ChStages
      BY DEF ChInv, ListsTyped, ChStages
    <3>2. CASE UNCHANGED chDone
      BY <3>1, <3>2
    <3>3. CASE ChFinished(b, s)
      <4>1. chDone[b] \cup {s} \subseteq ChStages
        BY <3>1
      <4>2. chDone' = [chDone EXCEPT ![b] = chDone[b] \cup {s}]
        BY <3>3 DEF ChFinished
      <4>3. QED
        BY <3>1, <4>1, <4>2
    <3>4. QED
      BY <1>1, <3>2, <3>3
  <2>3. QED
    BY <1>1, <2>1, <2>2 DEF ChInv, ListsTyped, MarksWhole
<1>2. /\ layout[b].files \in Files /\ layout[b].cue \in Files
      /\ "audnexus" \in Sources /\ "embedded" \in Sources /\ "cue" \in Sources /\ "epub" \in Sources
  BY SourcesAre, ChaptersAssumption DEF ChInv, ListsTyped
<1>3. <<>> \in Seq(FreshRows)
  BY EmptySeq
<1>4. CASE FetchAudnexus(b)
  <2>1. PICK list : list = [n \in DOMAIN Catalog |-> Chapter(Catalog[n].start, Catalog[n].end, Catalog[n].title)]
    OBVIOUS
  <2>2. list \in Seq(FreshRows)
    <3>1. PICK K : K = [start : Nat, end : Nat, title : TitleKinds]
      OBVIOUS
    <3> Catalog \in Seq(K)
      BY <3>1, ChaptersAssumption
    <3>5. PICK N \in Nat : N = Len(Catalog) /\ DOMAIN Catalog = 1 .. N
      BY LenProperties
    <3>2. ASSUME NEW n \in 1 .. N
          PROVE  list[n] \in FreshRows
      <4>1. Catalog[n] \in [start : Nat, end : Nat, title : TitleKinds]
        <5>1. Catalog[n] \in K
          BY <3>5
        <5>2. QED
          BY <3>1, <5>1
      <4>2. list[n] = Chapter(Catalog[n].start, Catalog[n].end, Catalog[n].title)
        BY <2>1, <3>5
      <4>3. QED
        BY <4>1, <4>2, FreshRow
    <3>3. list = [n \in 1 .. N |-> list[n]]
      BY <2>1, <3>5
    <3>4. QED
      BY <3>2, <3>3, IsASeq
  <2>3. /\ Stored(b, "audnexus", list) \/ UNCHANGED chapters
        /\ ChFinished(b, "audnexus") /\ UNCHANGED <<layout, marks>>
    BY <1>4, <2>1 DEF FetchAudnexus
  <2>4. QED
    BY <1>1, <1>2, <2>2, <2>3
<1>5. ASSUME NEW s \in Sources, NEW files \in Files, ReadFiles(b, s, files)
      PROVE  ChInv'
  <2>1. Merge(files) \in Seq(FreshRows)
    BY MergeTyped
  <2>2. Stored(b, s, Merge(files)) \/ UNCHANGED chapters
    BY <1>5 DEF ReadFiles
  <2>3. ChFinished(b, s) /\ UNCHANGED <<layout, marks>>
    BY <1>5 DEF ReadFiles
  <2>4. QED
    BY <1>1, <2>1, <2>2, <2>3
<1>6. CASE ReadEmbedded(b)
  BY <1>2, <1>5, <1>6 DEF ReadEmbedded
<1>7. CASE ReadCue(b)
  BY <1>2, <1>5, <1>7 DEF ReadCue
<1>8. CASE ReadEpub(b)
  <2>1. PICK files \in Files : files = layout[b].files
    BY <1>2
  <2>2. PICK titles : titles = EpubRows(files)
    OBVIOUS
  <2>3. titles \in Seq(FreshRows)
    <3>1. PICK N \in Nat : N = Len(files) /\ DOMAIN files = 1 .. N
      BY LenProperties DEF Files
    <3>2. PICK ends : ends = RunningSum(Lengths(files))
      OBVIOUS
    <3>3. titles = [n \in 1 .. N |-> Chapter(ends[n - 1], ends[n], "title")]
      BY <2>2, <3>1, <3>2 DEF EpubRows
    <3>4. \A n \in 0 .. N : ends[n] \in Nat
      BY <3>1, <3>2, LengthsAdd
    <3>5. ASSUME NEW n \in 1 .. N
          PROVE  titles[n] \in FreshRows
      <4>1. ends[n - 1] \in Nat /\ ends[n] \in Nat
        BY <3>4
      <4>2. QED
        BY <3>3, <4>1, FreshRow DEF TitleKinds
    <3>6. titles = [n \in 1 .. N |-> titles[n]]
      BY <3>3
    <3>7. QED
      BY <3>5, <3>6, IsASeq
  <2>4. CASE layout[b].epub # Len(files)
    <3>1. ChFinished(b, "epub") /\ UNCHANGED chapters /\ UNCHANGED <<layout, marks>>
      BY <1>8, <2>1, <2>4 DEF ReadEpub
    <3>2. QED
      BY <1>1, <1>2, <1>3, <3>1
  <2>5. CASE layout[b].epub = Len(files)
    <3>1. PICK n \in 0 .. Len(titles) : Stored(b, "epub", SubSeq(titles, 1, n))
      BY <1>8, <2>1, <2>2, <2>5 DEF ReadEpub
    <3>2. SubSeq(titles, 1, n) \in Seq(FreshRows)
      BY <2>3, SubSeqProperties
    <3>3. (ChFinished(b, "epub") \/ UNCHANGED chDone) /\ UNCHANGED <<layout, marks>>
      BY <1>8, <2>1, <2>2, <2>5 DEF ReadEpub
    <3>4. QED
      BY <1>1, <1>2, <3>1, <3>2, <3>3
  <2>6. QED
    BY <2>4, <2>5
<1>9. QED
  BY <1>4, <1>6, <1>7, <1>8

LEMMA FlaggedTyped ==
  ASSUME NEW list \in Seq(ChapterRows), NEW flag \in BOOLEAN
  PROVE  /\ Flagged(list, flag) \in Seq(ChapterRows)
         /\ \A n \in DOMAIN Flagged(list, flag) : Flagged(list, flag)[n].win = flag
<1>1. PICK N \in Nat : N = Len(list) /\ DOMAIN list = 1 .. N
  BY LenProperties
<1>2. PICK out : out = Flagged(list, flag)
  OBVIOUS
<1>3. DOMAIN out = 1 .. N /\ out = [n \in 1 .. N |-> out[n]]
  BY <1>1, <1>2 DEF Flagged
<1>4. ASSUME NEW n \in 1 .. N
      PROVE  out[n] \in ChapterRows /\ out[n].win = flag
  <2>1. list[n] \in ChapterRows /\ out[n] = [list[n] EXCEPT !.win = flag]
    BY <1>1, <1>2 DEF Flagged
  <2>2. QED
    BY <2>1 DEF ChapterRows
<1>5. \A n \in 1 .. N : out[n] \in ChapterRows
  BY <1>4
<1>6. out \in Seq(ChapterRows)
  BY <1>1, <1>3, <1>5, IsASeq
<1>7. QED
  BY <1>2, <1>3, <1>4, <1>6

LEMMA WinnerKeeps ==
  ASSUME ChInv, NEW b \in Books, PickWinner(b)
  PROVE  ChInv'
<1>1. /\ UNCHANGED <<layout, marks>>
      /\ chDone' \in [Books -> SUBSET ChStages]
  BY DEF PickWinner, ChFinished, ChInv, ListsTyped, ChStages
<1>2. CASE Present(b) = {}
  <2>1. chapters' = chapters
    BY <1>2 DEF PickWinner
  <2>2. QED
    BY <1>1, <2>1, SameLists DEF ChInv, ListsTyped, MarksWhole
<1>3. CASE Present(b) # {}
  <2>1. PICK w : w = WinnerOf(b)
    OBVIOUS
  <2>2. chapters' = [chapters EXCEPT ![b] = ApplyWinner(b, w)]
    BY <1>3, <2>1 DEF PickWinner
  <2>3. chapters \in [Books -> [Sources -> Seq(ChapterRows)]]
    BY DEF ChInv, ListsTyped
  <2>4. ASSUME NEW s \in Sources
        PROVE  /\ ApplyWinner(b, w)[s] \in Seq(ChapterRows)
               /\ FlagsAgree(ApplyWinner(b, w)[s])
               /\ s # w => \A n \in DOMAIN ApplyWinner(b, w)[s] : ApplyWinner(b, w)[s][n].win = FALSE
    <3>1. PICK flag \in BOOLEAN : flag = (s = w)
      OBVIOUS
    <3>2. ApplyWinner(b, w)[s] = Flagged(chapters[b][s], flag)
      <4>1. ApplyWinner(b, w)[s] = Flagged(chapters[b][s], s = w)
        BY DEF ApplyWinner
      <4>2. QED
        BY <3>1, <4>1, Zenon
    <3>3. chapters[b][s] \in Seq(ChapterRows)
      BY <2>3
    <3>4. s # w => flag = FALSE
      BY <3>1
    <3>5. QED
      BY <3>2, <3>3, <3>4, FlaggedTyped DEF FlagsAgree
  <2>5. DOMAIN ApplyWinner(b, w) = Sources /\ ApplyWinner(b, w) = [s \in Sources |-> ApplyWinner(b, w)[s]]
    BY DEF ApplyWinner
  <2>6. ApplyWinner(b, w) \in [Sources -> Seq(ChapterRows)]
    BY <2>4, <2>5
  <2>7. /\ chapters' \in [Books -> [Sources -> Seq(ChapterRows)]] /\ chapters'[b] = ApplyWinner(b, w)
        /\ \A x \in Books : x # b => chapters'[x] = chapters[x]
    BY <2>2, <2>3, <2>6
  <2>8. ASSUME NEW x \in Books
        PROVE  OneWinner(x)' /\ \A s \in Sources : FlagsAgree(chapters'[x][s])
    <3>1. CASE x = b
      <4>1. \A s \in Winners(x)' : s = w
        BY <2>4, <2>7, <3>1 DEF Winners
      <4>2. QED
        BY <2>4, <2>7, <3>1, <4>1 DEF OneWinner
    <3>2. CASE x # b
      <4>1. chapters'[x] = chapters[x]
        BY <2>7, <3>2
      <4>2. Winners(x)' = Winners(x)
        BY <4>1 DEF Winners
      <4>3. OneWinner(x) /\ \A s \in Sources : FlagsAgree(chapters[x][s])
        BY DEF ChInv, RowsFlagged
      <4>4. OneWinner(x)'
        BY <4>2, <4>3 DEF OneWinner
      <4>5. QED
        BY <4>1, <4>3, <4>4
    <3>3. QED
      BY <3>1, <3>2
  <2>9. QED
    BY <1>1, <2>7, <2>8 DEF ChInv, ListsTyped, RowsFlagged, MarksWhole
<1>4. QED
  BY <1>2, <1>3

LEMMA TitledTyped ==
  ASSUME NEW toc \in Seq(ChapterRows), NEW epub \in Seq(ChapterRows), Len(toc) = Len(epub),
         \A n \in DOMAIN toc : toc[n].win = TRUE
  PROVE  /\ Titled(toc, epub) \in Seq(ChapterRows)
         /\ \A n \in DOMAIN Titled(toc, epub) : Titled(toc, epub)[n].win = TRUE
<1>1. PICK N \in Nat : N = Len(toc) /\ DOMAIN toc = 1 .. N
  BY LenProperties
<1>2. PICK out : out = Titled(toc, epub)
  OBVIOUS
<1>3. DOMAIN out = 1 .. N /\ out = [n \in 1 .. N |-> out[n]]
  BY <1>1, <1>2 DEF Titled
<1>4. ASSUME NEW n \in 1 .. N
      PROVE  out[n] \in ChapterRows /\ out[n].win = TRUE
  <2>1. toc[n] \in ChapterRows /\ epub[n] \in ChapterRows /\ toc[n].win = TRUE
    BY <1>1
  <2>2. out[n] = IF toc[n].title = "placeholder" THEN [toc[n] EXCEPT !.title = epub[n].title] ELSE toc[n]
    BY <1>1, <1>2 DEF Titled
  <2>3. QED
    BY <2>1, <2>2 DEF ChapterRows
<1>5. \A n \in 1 .. N : out[n] \in ChapterRows
  BY <1>4
<1>6. out \in Seq(ChapterRows)
  BY <1>1, <1>3, <1>5, IsASeq
<1>7. QED
  BY <1>2, <1>3, <1>4, <1>6

LEMMA TitlesKeep ==
  ASSUME ChInv, NEW b \in Books, FillTitles(b)
  PROVE  ChInv'
<1>1. /\ UNCHANGED <<layout, marks>>
      /\ chDone' \in [Books -> SUBSET ChStages]
  BY DEF FillTitles, ChFinished, ChInv, ListsTyped, ChStages
<1>2. CASE UNCHANGED chapters
  BY <1>1, <1>2, SameLists DEF ChInv, ListsTyped, MarksWhole
<1>3. CASE ~UNCHANGED chapters
  <2>1. PICK toc : toc = Toc(b)
    OBVIOUS
  <2>2. PICK w : w = CHOOSE s \in Winners(b) : TRUE
    OBVIOUS
  <2>3. PICK list : list = Titled(toc, chapters[b]["epub"])
    OBVIOUS
  <2>4. toc # <<>> /\ Len(toc) = Len(chapters[b]["epub"]) /\ chapters' = [chapters EXCEPT ![b][w] = list]
    BY <1>3, <2>1, <2>2, <2>3 DEF FillTitles
  <2>5. /\ toc \in Seq(ChapterRows) /\ w \in Winners(b) /\ w \in Sources
        /\ \A n \in DOMAIN toc : toc[n].win = TRUE
    BY <2>1, <2>2, <2>4, TocIsList
  <2>6. chapters \in [Books -> [Sources -> Seq(ChapterRows)]] /\ chapters[b]["epub"] \in Seq(ChapterRows)
    BY SourcesAre DEF ChInv, ListsTyped
  <2>7. list \in Seq(ChapterRows) /\ \A n \in DOMAIN list : list[n].win = TRUE
    BY <2>3, <2>4, <2>5, <2>6, TitledTyped
  <2>8. /\ chapters' \in [Books -> [Sources -> Seq(ChapterRows)]] /\ chapters'[b][w] = list
        /\ \A x \in Books, t \in Sources : x # b \/ t # w => chapters'[x][t] = chapters[x][t]
    BY <2>4, <2>5, <2>6, <2>7
  <2>9. ASSUME NEW x \in Books, NEW t \in Sources
        PROVE  FlagsAgree(chapters'[x][t])
    <3>1. CASE x = b /\ t = w
      <4>1. FlagsAgree(list)
        BY <2>7 DEF FlagsAgree
      <4>2. QED
        BY <2>8, <3>1, <4>1
    <3>2. CASE x # b \/ t # w
      BY <2>8, <3>2 DEF ChInv, RowsFlagged
    <3>3. QED
      BY <3>1, <3>2
  <2>10. ASSUME NEW x \in Books
         PROVE  OneWinner(x)'
    <3>1. Winners(x)' \subseteq Winners(x)
      <4>1. ASSUME NEW t \in Winners(x)'
            PROVE  t \in Winners(x)
        <5>1. CASE x = b /\ t = w
          BY <2>5, <5>1
        <5>2. CASE x # b \/ t # w
          <6>1. t \in Sources
            BY <4>1 DEF Winners
          <6>2. chapters'[x][t] = chapters[x][t]
            BY <2>8, <5>2, <6>1
          <6>3. QED
            BY <4>1, <6>1, <6>2 DEF Winners
        <5>3. QED
          BY <5>1, <5>2
      <4>2. QED
        BY <4>1
    <3>2. OneWinner(x)
      BY DEF ChInv, RowsFlagged
    <3>3. QED
      BY <3>1, <3>2 DEF OneWinner
  <2>11. RowsFlagged'
    BY <2>9, <2>10 DEF RowsFlagged
  <2>12. QED
    BY <1>1, <2>8, <2>11 DEF ChInv, ListsTyped, MarksWhole
<1>4. QED
  BY <1>2, <1>3

LEMMA MarksKeep ==
  ASSUME ChInv, NEW b \in Books, MarkChapters(b)
  PROVE  ChInv'
<1>1. /\ UNCHANGED <<layout, chapters>>
      /\ chDone' \in [Books -> SUBSET ChStages]
  BY DEF MarkChapters, ChFinished, ChInv, ListsTyped, ChStages
<1>2. DOMAIN marks' = Books /\ MarksWhole'
  <2>1. CASE marks' = marks
    BY <2>1 DEF ChInv, ListsTyped, MarksWhole
  <2>2. CASE marks' # marks
    <3>1. PICK toc : toc = Toc(b)
      OBVIOUS
    <3>2. PICK ms : ms = MarksOf(toc, Offsets(toc, Duration(b)))
      OBVIOUS
    <3>3. Duration(b) # 0 /\ toc # <<>> /\ marks' = [marks EXCEPT ![b] = ms]
      BY <2>2, <3>1, <3>2 DEF MarkChapters, MarksOf
    <3>4. Duration(b) \in Nat
      BY ChaptersAssumption DEF Duration, ChInv, ListsTyped
    <3>5. toc \in Seq(ChapterRows)
      BY <3>1, TocIsList
    <3>6. Partition(ms)
      BY <3>2, <3>3, <3>4, <3>5, MarksPartition
    <3>7. DOMAIN marks' = Books /\ marks'[b] = ms /\ \A x \in Books : x # b => marks'[x] = marks[x]
      BY <3>3 DEF ChInv, ListsTyped
    <3>8. ASSUME NEW x \in Books, marks'[x] # Nothing
          PROVE  Partition(marks'[x])
      <4>1. CASE x = b
        BY <3>6, <3>7, <4>1
      <4>2. CASE x # b
        BY <3>7, <3>8, <4>2 DEF ChInv, MarksWhole
      <4>3. QED
        BY <4>1, <4>2
    <3>9. QED
      BY <3>7, <3>8 DEF MarksWhole
  <2>3. QED
    BY <2>1, <2>2
<1>3. QED
  BY <1>1, <1>2, SameLists DEF ChInv, ListsTyped

LEMMA RetriesKeep ==
  ASSUME ChInv, NEW b \in Books, Replace(b) \/ \E s \in ChStages : Refetch(b, s)
  PROVE  ChInv'
<1>1. CASE Replace(b)
  <2>1. PICK l \in Layouts : layout' = [layout EXCEPT ![b] = l]
    BY <1>1 DEF Replace
  <2>2. layout' \in [Books -> Layouts] /\ UNCHANGED <<chapters, marks, chDone>>
    BY <1>1, <2>1 DEF Replace, ChInv, ListsTyped
  <2>3. QED
    BY <2>2, SameLists DEF ChInv, ListsTyped, MarksWhole
<1>2. ASSUME NEW s \in ChStages, Refetch(b, s)
      PROVE  ChInv'
  <2>1. UNCHANGED layout /\ chDone' \in [Books -> SUBSET ChStages]
    BY <1>2 DEF Refetch, ChInv, ListsTyped
  <2>2. chapters' \in [Books -> [Sources -> Seq(ChapterRows)]] /\ RowsFlagged'
    <3>1. CASE s = "audnexus"
      <4>1. Stored(b, s, <<>>) /\ s \in Sources /\ <<>> \in Seq(FreshRows)
        BY <1>2, <3>1, SourcesAre, EmptySeq DEF Refetch, Stored
      <4>2. QED
        BY <4>1, StoredKeeps
    <3>2. CASE s # "audnexus"
      <4>1. UNCHANGED chapters
        BY <1>2, <3>2 DEF Refetch
      <4>2. QED
        BY <4>1, SameLists DEF ChInv, ListsTyped
    <3>3. QED
      BY <3>1, <3>2
  <2>3. DOMAIN marks' = Books /\ MarksWhole'
    BY <1>2 DEF Refetch, ChInv, ListsTyped, MarksWhole
  <2>4. QED
    BY <2>1, <2>2, <2>3 DEF ChInv, ListsTyped
<1>3. QED
  BY <1>1, <1>2

LEMMA ChStepKeeps ==
  ASSUME ChInv, NEW b \in Books, ChStep(b)
  PROVE  ChInv'
<1>1. CASE FetchAudnexus(b) \/ ReadEmbedded(b) \/ ReadCue(b) \/ ReadEpub(b)
  BY <1>1, SourceStagesKeep
<1>2. CASE PickWinner(b)
  BY <1>2, WinnerKeeps
<1>3. CASE FillTitles(b)
  BY <1>3, TitlesKeep
<1>4. CASE MarkChapters(b)
  BY <1>4, MarksKeep
<1>5. CASE Replace(b) \/ \E s \in ChStages : Refetch(b, s)
  BY <1>5, RetriesKeep
<1>6. QED
  BY <1>1, <1>2, <1>3, <1>4, <1>5 DEF ChStep

LEMMA ChStutterKeeps ==
  ASSUME ChInv, UNCHANGED chVars
  PROVE  ChInv'
BY SameLists DEF ChInv, ListsTyped, MarksWhole, chVars

-----------------------------------------------------------------------------
(* The tables of contents                                                    *)

\* A stage that is done has stored what it merged.
StoredWhole(b, s) ==
  LET files == IF s = "cue" THEN layout[b].cue ELSE layout[b].files
  IN  /\ s \notin chDone[b] /\ s \in chDone'[b] /\ HasChapters(files)
      /\ \A n \in DOMAIN files : InOrder(files[n])
      => Seamless(chapters'[b][s], files)

LEMMA StepStoresWhole ==
  ASSUME ChInv, NEW b \in Books, ChStep(b), NEW x \in Books, NEW s \in {"embedded", "cue"}
  PROVE  StoredWhole(x, s)
<1>1. PICK files : files = IF s = "cue" THEN layout[x].cue ELSE layout[x].files
  OBVIOUS
<1> SUFFICES ASSUME s \notin chDone[x], s \in chDone'[x], HasChapters(files),
                    \A n \in DOMAIN files : InOrder(files[n])
             PROVE  Seamless(chapters'[x][s], files)
  BY <1>1 DEF StoredWhole
<1>2. chDone \in [Books -> SUBSET ChStages] /\ layout \in [Books -> Layouts]
  BY DEF ChInv, ListsTyped
<1>3. ASSUME NEW t \in ChStages, ChFinished(b, t)
      PROVE  x = b /\ t = s
  BY <1>2, <1>3 DEF ChFinished
<1>4. "audnexus" \in ChStages /\ "epub" \in ChStages /\ "embedded" \in ChStages /\ "cue" \in ChStages
      /\ "winner" \in ChStages /\ "titles" \in ChStages /\ "marks" \in ChStages
  BY SourcesAre DEF ChStages
<1>5. ASSUME UNCHANGED chDone
      PROVE  FALSE
  BY <1>5
<1>6. files \in Files /\ files # <<>>
  BY <1>1, <1>2, ChaptersAssumption, EmptySeq DEF HasChapters
<1>7. ASSUME ReadFiles(x, s, files)
      PROVE  Seamless(chapters'[x][s], files)
  <2>1. Stored(x, s, Merge(files))
    BY <1>7 DEF ReadFiles
  <2>2. chapters'[x][s] = Merge(files)
    BY <2>1, SourcesAre DEF Stored, ChInv, ListsTyped
  <2>3. QED
    BY <1>6, <2>2, MergeSeamless
<1>8. CASE FetchAudnexus(b)
  BY <1>3, <1>4, <1>8 DEF FetchAudnexus
<1>9. CASE ReadEpub(b)
  BY <1>3, <1>4, <1>5, <1>9 DEF ReadEpub
<1>10. CASE PickWinner(b) \/ FillTitles(b) \/ MarkChapters(b)
  BY <1>3, <1>4, <1>10 DEF PickWinner, FillTitles, MarkChapters
<1>11. CASE ReadEmbedded(b)
  <2>1. x = b /\ s = "embedded"
    BY <1>3, <1>4, <1>11 DEF ReadEmbedded, ReadFiles
  <2>2. QED
    BY <1>1, <1>7, <1>11, <2>1 DEF ReadEmbedded
<1>12. CASE ReadCue(b)
  <2>1. x = b /\ s = "cue"
    BY <1>3, <1>4, <1>12 DEF ReadCue, ReadFiles
  <2>2. QED
    BY <1>1, <1>7, <1>12, <2>1 DEF ReadCue
<1>13. CASE Replace(b)
  BY <1>5, <1>13 DEF Replace
<1>14. CASE \E t \in ChStages : Refetch(b, t)
  BY <1>2, <1>14 DEF Refetch
<1>15. QED
  BY <1>8, <1>9, <1>10, <1>11, <1>12, <1>13, <1>14 DEF ChStep

(* Whatever sources are fetched again, picked again or replaced on disk, in   *)
(* whatever order the stages of the books come: a player never gets two       *)
(* tables of contents at once (chapter_winner); starts that are in order       *)
(* inside files of known length become one list without gap or overlap that   *)
(* ends with the book, for any number of files (embedded_chapters,             *)
(* cue_chapters); and the transcript is divided among the chapters without     *)
(* loss, however the table is ordered (chapter_marks_stage).                   *)
THEOREM TocStaysWhole == ChInit /\ [][\E b \in Books : ChStep(b)]_chVars => TocWhole
<1> DEFINE Kept ==
      /\ \A b \in Books : Cardinality(Winners(b)') <= 1
      /\ \A b \in Books : marks'[b] # Nothing => Partition(marks'[b])
      /\ \A b \in Books : \A s \in {"embedded", "cue"} : StoredWhole(b, s)
<1>1. ASSUME ChInv, \E b \in Books : ChStep(b)
      PROVE  Kept
  <2>1. ChInv'
    BY <1>1, ChStepKeeps
  <2>2. \A b \in Books : Cardinality(Winners(b)') <= 1
    <3>1. SUFFICES ASSUME NEW b \in Books
                   PROVE  Cardinality(Winners(b)') <= 1
      OBVIOUS
    <3>2. \A s, t \in Winners(b)' : s = t
      BY <2>1 DEF ChInv, RowsFlagged, OneWinner
    <3>3. QED
      BY <3>2, AloneIsFew
  <2>3. QED
    BY <1>1, <2>1, <2>2, StepStoresWhole DEF ChInv, MarksWhole
<1>2. ChInv /\ [\E b \in Books : ChStep(b)]_chVars => ChInv'
  BY ChStepKeeps, ChStutterKeeps
<1>3. ChInv /\ [\E b \in Books : ChStep(b)]_chVars => [Kept]_chVars
  BY <1>1
<1> HIDE DEF Kept
<1>4. ChInit /\ [][\E b \in Books : ChStep(b)]_chVars => [][Kept]_chVars
  BY <1>2, <1>3, ChInvInit, PTL
<1>5. QED
  BY <1>4 DEF Kept, TocWhole, StoredWhole

-----------------------------------------------------------------------------
(* --- The three together -------------------------------------------------- *)

CatalogueTyped == part \in Parts /\ IdTyped /\ PrTyped /\ ChInv

\* What the three models hold has the type it should have, in the composed
\* specification of the runs: people no more than the spellings and the
\* requests that made them, one author to a book, every link to a row, and
\* rows and columns with values of their field.
THEOREM CatalogueTypesHold == Spec => []TypeOK
<1>1. Init => CatalogueTyped
  <2>1. Init => part \in Parts /\ IdInit /\ PrInit /\ ChInit
    BY DEF Init
  <2>2. QED
    BY <2>1, IdTypedInit, PrTypedInit, ChInvInit DEF CatalogueTyped
<1>2. ASSUME CatalogueTyped, [Next]_<<part, idVars, prVars, chVars>>
      PROVE  CatalogueTyped'
  <2>1. part \in Parts /\ IdTyped /\ PrTyped /\ ChInv /\ b1 \in Books
    BY <1>2, MCCatalogueAssumption DEF CatalogueTyped
  <2>2. UNCHANGED idVars => IdTyped'
    BY <2>1, IdStutterTyped
  <2>3. UNCHANGED prVars => PrTyped'
    BY <2>1, PrStutterTyped
  <2>4. UNCHANGED chVars => ChInv'
    BY <2>1, ChStutterKeeps
  <2>5. CASE IdNext /\ UNCHANGED <<part, prVars, chVars>>
    <3>1. IdTyped'
      BY <2>1, <2>5, IdStepTyped
    <3>2. UNCHANGED prVars /\ UNCHANGED chVars /\ part' = part
      BY <2>5
    <3>3. QED
      BY <2>1, <2>3, <2>4, <3>1, <3>2 DEF CatalogueTyped
  <2>6. CASE PrStep(b1) /\ UNCHANGED <<part, idVars, chVars>>
    <3>1. PrTyped'
      BY <2>1, <2>6, PrStepTyped
    <3>2. UNCHANGED idVars /\ UNCHANGED chVars /\ part' = part
      BY <2>6
    <3>3. QED
      BY <2>1, <2>2, <2>4, <3>1, <3>2 DEF CatalogueTyped
  <2>7. CASE ChStep(b1) /\ UNCHANGED <<part, idVars, prVars>>
    <3>1. ChInv'
      BY <2>1, <2>7, ChStepKeeps
    <3>2. UNCHANGED idVars /\ UNCHANGED prVars /\ part' = part
      BY <2>7
    <3>3. QED
      BY <2>1, <2>2, <2>3, <3>1, <3>2 DEF CatalogueTyped
  <2>8. CASE UNCHANGED <<part, idVars, prVars, chVars>>
    <3>1. UNCHANGED idVars /\ UNCHANGED prVars /\ UNCHANGED chVars /\ part' = part
      BY <2>8
    <3>2. QED
      BY <2>1, <2>2, <2>3, <2>4, <3>1 DEF CatalogueTyped
  <2>9. QED
    BY <1>2, <2>5, <2>6, <2>7, <2>8 DEF Next
<1>3. CatalogueTyped => TypeOK
  BY IdTypedIsTypeOK, PrTypedIsTypeOK, ChInvIsTypeOK DEF CatalogueTyped, TypeOK
<1>4. CatalogueTyped /\ [Next]_<<part, idVars, prVars, chVars>> => CatalogueTyped'
  BY <1>2
<1>5. QED
  BY <1>1, <1>3, <1>4, PTL DEF Spec

=============================================================================
