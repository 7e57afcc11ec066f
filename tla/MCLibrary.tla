------------------------------ MODULE MCLibrary ------------------------------
(* Small instances of what surrounds the pipeline.  The models share the    *)
(* books and nothing else, so a behaviour explores one of them.             *)
EXTENDS Bridge, Upkeep, Listening, Replay, Browse, Doctor, Companions, Excerpts, Sounds, Figures, Shelf, DagBuild, TLC

CONSTANTS
  Parts,  \* the models an instance explores
  b1, b2, b3, au, au2, na, se, pu, co, co2, p1, p2, a1, a2, a3

VARIABLE part

(* Bridge: a model that writes two words, starts again, or takes all back.   *)
MCSnapshots == {<<>>, <<1>>, <<1, 2>>, <<2>>}

(* Upkeep: two tasks, the second of which reaches the cap of the back-off.   *)
MCTasks == <<"a", "b">>
MCInterval == [t \in {"a", "b"} |-> IF t = "a" THEN 1 ELSE 2]

(* Replay: edits that meet each other, and names that are taken.             *)
MCBookEdits ==
  {[field |-> "title", value |-> "new"], [field |-> "status", value |-> "finished"],
   [field |-> "status", value |-> "reading"], [field |-> "rating", value |-> 5]}
MCCollEdits == {[name |-> "B"], [audible_id |-> "x", note |-> "n"]}
MCNewColls == {[name |-> "A", audible_id |-> Nothing, note |-> Nothing],
               [name |-> "B", audible_id |-> "x", note |-> Nothing]}

(* Browse: three books, ties in every key, rows without one.                 *)
Facts(id, title, date, words, near, by, place) ==
  [id |-> id, title |-> title, date |-> date, words |-> words, near |-> near, by |-> by, place |-> place]
MCBookFacts ==
  [b \in {b1, b2, b3} |->
     CASE b = b1 -> Facts(1, 2, 5, {"x"}, {"x", "y"}, {au, au2, na, se, pu, co}, 2)
       [] b = b2 -> Facts(2, 1, Nothing, {"x"}, {"x", "y"}, {au, na, se, co, co2}, 1)
       [] b = b3 -> Facts(3, 3, 5, {"z"}, {"y"}, {au, pu, se, co}, Nothing)]
Entity(kind, id, name, sort, words) ==
  [kind |-> kind, id |-> id, name |-> name, sort |-> sort, words |-> words, near |-> {"x"}, ended |-> 0]
MCEntityFacts ==
  [e \in {au, au2, na, se, pu, co, co2} |->
     CASE e = au -> Entity("author", 1, 2, 1, {"x"}) [] e = au2 -> Entity("author", 2, 1, 3, {"z"})
       [] e = na -> Entity("narrator", 1, 1, Nothing, {"x"}) [] e = se -> Entity("series", 1, 1, 1, {"x"})
       [] e = pu -> Entity("publisher", 1, 1, 1, {"x"}) [] e = co -> Entity("collection", 1, 2, 1, {"x"})
       [] e = co2 -> Entity("collection", 2, 1, 1, {"z"})]
MCOpFacts == [o \in 1..3 |-> [kind |-> IF o = 2 THEN "k" ELSE "l", at |-> IF o = 1 THEN 2 ELSE 1]]
View(endpoint, sort, q, of) == [endpoint |-> endpoint, sort |-> sort, q |-> q, of |-> of, deleted |-> FALSE]
MCViews ==
  {View("authors", "name", Nothing, Nothing), View("authors", "name_sort", "x", Nothing),
   View("authors", "book_count", Nothing, Nothing), View("narrators", "name", Nothing, Nothing),
   View("series", "ended_state", Nothing, Nothing), View("publishers", "name", "z", Nothing),
   View("collections", "book_count", Nothing, Nothing), View("authors/books", "newest", Nothing, au),
   View("narrators/books", "newest", Nothing, na), View("publishers/books", "newest", Nothing, pu),
   View("collections/books", "placed", Nothing, co), View("series/books", "placed", Nothing, se),
   View("books/collections", "name", Nothing, b2), View("journal", "newest", Nothing, Nothing),
   View("journal", "newest", "l", Nothing), View("books", "title", "x", Nothing),
   View("books", "imported_at", Nothing, Nothing),
   [View("books", "book_id", Nothing, Nothing) EXCEPT !.deleted = TRUE],
   View("search", "books", "x", Nothing), View("search", "books", "y", Nothing),
   View("search", "author", "x", Nothing), View("saved/items", "title", Nothing, "mine")}
MCQueries ==
  [q \in {"mine"} |->
     [owner |-> "user", sort |-> Nothing, cap |-> 2, view |-> View("books", "book_id", Nothing, Nothing)]]

(* Companions: one directory in the other, a book with files in both.        *)
MCParent == (p1 :> <<"x">>) @@ (p2 :> <<"x", "y">>)
MCAudioFiles ==
  (a1 :> [book |-> b1, dir |-> <<"x">>]) @@ (a2 :> [book |-> b1, dir |-> <<"x", "y">>])
    @@ (a3 :> [book |-> b2, dir |-> <<"x", "y">>])

(* Sounds: phrases of which one begins with the end of another.              *)
MCPhraseLists == << << <<"a", "b">>, <<"b", " ", "a">> >>, << <<"b", "b">> >> >>

(* Figures: two values of each column that has two buckets or more.          *)
MCFileLists ==
  {<<[format |-> "mp3", active |-> FALSE], [format |-> "m4b", active |-> TRUE]>>,
   <<[format |-> "mp3", active |-> FALSE]>>}
MCColumns ==
  [deleted |-> {TRUE}, language |-> {"en", "de"}, hours |-> {3, 4, 8, 15, 25},
   status |-> {"reading", "finished", "dnf"}, added |-> {2023}, released |-> {0, 1995, 2012},
   publisher |-> {"p"}, files |-> MCFileLists, author |-> {"au"}, narrators |-> {{"na"}, {"na", "ne"}},
   series |-> {{"se", "sf"}}, collections |-> {{"co"}, {"co", "cp"}}, audiologo |-> {"applied"},
   abridged |-> BOOLEAN, rating |-> {1, 5}, heard |-> BOOLEAN, asin |-> {"x"}]
MCWriters == <<"au", "av">>

(* Shelf: a book of two files.                                               *)
MCBookOf == <<b1, b1>>
MCRanges ==
  [kind : {"none", "malformed"}, first : {0}, last : {Nothing}]
    \cup [kind : {"from"}, first : 0 .. 3, last : {1, 2, 9, Nothing}]
    \cup [kind : {"suffix"}, first : {0, 1, 9}, last : {Nothing}]

(* DagBuild: lists that make a chain, a ring, a loop, and repeat a name.     *)
MCLists == {<<>>, <<1>>, <<3>>, <<1, 2>>, <<2, 2>>, <<9>>}

ASSUME MCAssumption == {b1, b3} \subseteq Books /\ "asin" \in DOMAIN Columns

moreVars == <<doVars, coVars, exbVars, soVars, fiVars, shVars, dagVars>>
CopyStep ==
  \E b \in {b1, b3} : FileTurns(b) \/ FingerprintRuns(b) \/ WriteFingerprint(b) \/ FingerprintFails(b)

Init ==
  /\ part \in Parts
  /\ UpInit /\ RpInit /\ CoInit /\ ExbInit /\ FiInit /\ DgInit
  /\ BrInit /\ (part # "bridge" => host = "modern")
  /\ LiInit /\ (part # "listening" => now = 1)
  /\ BwInit /\ (part # "browse" => shelf = {})
  /\ DoInit /\ (part # "doctor" => table = "machine")
  /\ SoInit /\ (part # "copies" => recorded = [b \in Books |-> [secs |-> WindowSecs, sound |-> 1]])
  /\ (part = "copies" => recorded[b2] = recorded[b1])
  /\ ShInit
  /\ part # "shelf" =>
       \A f \in FileIds : fileRow[f].size = onDisk[f].len /\ \A len \in Lengths : onDisk[f].len <= len

Next ==
  /\ UNCHANGED part
  /\ \/ part = "bridge" /\ BrStep /\ UNCHANGED <<upVars, liVars, rpVars, bwVars, moreVars>>
     \/ part = "tasks" /\ TaskStep /\ UNCHANGED <<brVars, liVars, rpVars, bwVars, moreVars>>
     \/ part = "tables" /\ TableStep /\ UNCHANGED <<brVars, liVars, rpVars, bwVars, moreVars>>
     \/ part = "listening" /\ LiStep /\ UNCHANGED <<brVars, upVars, rpVars, bwVars, moreVars>>
     \/ part = "replay" /\ RpStep /\ UNCHANGED <<brVars, upVars, liVars, bwVars, moreVars>>
     \/ part = "browse" /\ BwStep /\ UNCHANGED <<brVars, upVars, liVars, rpVars, moreVars>>
     \/ /\ UNCHANGED <<brVars, upVars, liVars, rpVars, bwVars>>
        /\ \/ part = "doctor" /\ DoStep /\ UNCHANGED <<coVars, exbVars, soVars, fiVars, shVars, dagVars>>
           \/ part = "companions" /\ CoStep /\ UNCHANGED <<doVars, exbVars, soVars, fiVars, shVars, dagVars>>
           \/ part = "excerpts" /\ ExbStep /\ UNCHANGED <<doVars, coVars, soVars, fiVars, shVars, dagVars>>
           \/ part = "jingles" /\ MoreHeard /\ UNCHANGED <<doVars, coVars, exbVars, fiVars, shVars, dagVars>>
           \/ part = "spoken" /\ MoreSaid /\ UNCHANGED <<doVars, coVars, exbVars, fiVars, shVars, dagVars>>
           \/ part = "copies" /\ CopyStep /\ UNCHANGED <<doVars, coVars, exbVars, fiVars, shVars, dagVars>>
           \/ part = "figures" /\ FigureStep /\ UNCHANGED <<doVars, coVars, exbVars, soVars, shVars, dagVars>>
           \/ /\ part = "reports" /\ (ReportStep \/ BookScanned(b1) \/ FactTurns(b1, "asin"))
              /\ UNCHANGED <<doVars, coVars, exbVars, soVars, shVars, dagVars>>
           \/ part = "shelf" /\ ShStep /\ UNCHANGED <<doVars, coVars, exbVars, soVars, fiVars, dagVars>>
           \/ part = "dag" /\ DgNext /\ UNCHANGED <<doVars, coVars, exbVars, soVars, fiVars, shVars>>

vars == <<part, brVars, upVars, liVars, rpVars, bwVars, moreVars>>
Fairness ==
  /\ \A c \in Calls : WF_brVars(part = "bridge" /\ SwiftSide(c)) /\ WF_brVars(part = "bridge" /\ Receive(c))
  /\ WF_upVars(part = "tasks" /\ LoopStep) /\ WF_upVars(part = "tasks" /\ TimePasses)
Spec == Init /\ [][Next]_vars /\ Fairness

TypeOK ==
  /\ part \in Parts /\ BrTypeOK /\ UpTypeOK /\ LiTypeOK /\ RpTypeOK /\ BwTypeOK
  /\ DoTypeOK /\ CoTypeOK /\ SoTypeOK /\ FiTypeOK /\ ShTypeOK /\ DgTypeOK

-----------------------------------------------------------------------------
(* Properties of several models at once: of each in every state, and, for    *)
(* what the other parts leave as it is at first, where its model is explored. *)

(* The records the components keep say what happened: the newest report of   *)
(* progress stands (Listening), a replayed intent is done once (Replay),     *)
(* counters count (Companions), remedies cure (Doctor), the stage order and  *)
(* what is built of it are sound (DagBuild), players get the file (Shelf).   *)
RecordsTrue ==
  /\ NewestReportStays /\ ReplayedAsDone /\ CountsKept
  /\ RemediesClear /\ OrderSound /\ BuildSound /\ PlayedWhole

(* What is shown, read or heard is what is there: Figures!FiguresAddUp and   *)
(* Figures!ReportsWhole, Browse!PagesTile, Shelf!CoverOfItem,                *)
(* Excerpts!NamesFound and Excerpts!TitlesFound, Sounds!JinglesFound,        *)
(* Sounds!SpokenPlaced and Sounds!CopiesListed.                              *)
ViewsTrue ==
  /\ part = "figures" => FiguresAddUp
  /\ part = "reports" => ReportsWhole
  /\ part = "browse" => PagesTile
  /\ part = "shelf" => CoverOfItem
  /\ part = "excerpts" => NamesFound /\ TitlesFound
  /\ part = "jingles" => JinglesFound
  /\ part = "spoken" => SpokenPlaced
  /\ part = "copies" => CopiesListed

(* Nobody waits for ever: Upkeep!TasksComeRound and Bridge!Answered.         *)
EveryoneServed ==
  /\ part = "tasks" => TasksComeRound
  /\ part = "bridge" => Answered
=============================================================================
