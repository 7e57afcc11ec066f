----------------------------- MODULE TagWrites -----------------------------
(* What is decided of a book is written into its files, and each change     *)
(* into mass_edit_history: write-tags-early, -final and -collection         *)
(* (tag-write/{stage,write,abridged,collection_stage,collection}), and how  *)
(* long that history is kept (tag-write/cleanup).                           *)
EXTENDS Common, Sequences, SequencesExt

CONSTANTS
  TagFiles,     \* active files, in file_id order
  TagFields,    \* fields a file has a place for; "abridged" is written apart
  TagSources, TagValues,  \* where winners come from, and what they say
  CollectionNames,
  LatestDays, IntermediateDays,  \* the two retention windows
  MaxNow, MaxEdits, MaxWrites    \* bounds: days, history rows, stages run

VARIABLES
  decided,  \* winners of book_field_provenance
  tag,      \* what each file says
  joined,   \* collections of the book, in the order it joined them
  history,  \* mass_edit_history
  logged,   \* every row it ever had
  writing,  \* the stage under way
  now, writes

tgVars == <<decided, tag, joined, history, logged, writing, now, writes>>

TagStages == {"write-tags-early", "write-tags-final"}
Places == TagFields \cup {"collection"}

ASSUME TagWritesAssumption ==
  /\ LatestDays \in Nat /\ IntermediateDays \in Nat
  /\ MaxNow \in Nat /\ MaxEdits \in Nat /\ MaxWrites \in Nat /\ "collection" \notin TagFields
  /\ TagFiles \in Seq(ToSet(TagFiles))

TgInit ==
  /\ decided = [d \in TagFields |-> Nothing]
  /\ tag = [f \in ToSet(TagFiles) |-> [d \in Places |-> Nothing]]
  /\ joined = <<>> /\ history = {} /\ logged = {} /\ writing = Nothing
  /\ now = 0 /\ writes = 0

(* Catalogs and the operator decide, the book joins a collection, and days  *)
(* pass.                                                                    *)
Decide ==
  /\ \E d \in TagFields, s \in TagSources, v \in TagValues :
       decided' = [decided EXCEPT ![d] = [source |-> s, value |-> v]]
  /\ UNCHANGED <<tag, joined, history, logged, writing, now, writes>>
Join ==
  /\ \E c \in CollectionNames \ ToSet(joined) : joined' = Append(joined, c)
  /\ UNCHANGED <<decided, tag, history, logged, writing, now, writes>>
Midnight ==
  /\ now < MaxNow /\ now' = now + 1
  /\ UNCHANGED <<decided, tag, joined, history, logged, writing, writes>>

-----------------------------------------------------------------------------
(* A stage reads the winners once, and then takes file after file           *)

SkipForFinalPass(d) == decided[d].source = "user_edit"
WinnersFor(stage) == {d \in TagFields :
  decided[d] # Nothing /\ (stage = "write-tags-final" => ~SkipForFinalPass(d))}

Begins(r) == writing' = r /\ writing = Nothing /\ writes < MaxWrites /\ writes' = writes + 1
StartTagWrite(stage) ==
  /\ \E d \in WinnersFor(stage) : decided[d].source # "tag_file"
  /\ Begins([winners |-> [d \in WinnersFor(stage) |-> decided[d].value],
             todo |-> TagFiles, file |-> Nothing, changes |-> {}])
  /\ UNCHANGED <<decided, tag, joined, history, logged, now>>
LoadPrimaryCollection ==
  /\ joined # <<>>
  /\ Begins([winners |-> [d \in {"collection"} |-> Head(joined)],
             todo |-> TagFiles, file |-> Nothing, changes |-> {}])
  /\ UNCHANGED <<decided, tag, joined, history, logged, now>>

(* A value that is there is left alone.                                     *)
ApplyWinner(f, w) == {d \in DOMAIN w : w[d] # tag[f][d]}
Changes(f, ds) == {[field |-> d, before |-> tag[f][d], after |-> writing.winners[d]] : d \in ds}
Save(f, ds) == tag' = [tag EXCEPT ![f] = [d \in Places |-> IF d \in ds THEN writing.winners[d] ELSE @[d]]]

(* The abridged mark is saved first, the rest together; a file that cannot   *)
(* be opened or saved keeps what was saved, is not reported, and is passed.  *)
WriteWinners(f) ==
  LET todo == ApplyWinner(f, writing.winners)
  IN  \/ Save(f, todo) /\ writing' = [writing EXCEPT !.todo = Tail(@), !.file = f,
                                        !.changes = {c \in Changes(f, todo) : c.field # "collection"}]
      \/ Save(f, todo \cap {"abridged"}) /\ writing' = [writing EXCEPT !.todo = Tail(@)]
      \/ UNCHANGED tag /\ writing' = [writing EXCEPT !.todo = Tail(@)]
WriteOneFile ==
  /\ writing # Nothing /\ writing.changes = {} /\ writing.todo # <<>>
  /\ WriteWinners(Head(writing.todo))
  /\ UNCHANGED <<decided, joined, history, logged, now, writes>>

(* One row per change; the first that cannot be written ends the file's.     *)
RecordAuditRow ==
  /\ writing # Nothing
  /\ \/ /\ Cardinality(logged) < MaxEdits
        /\ \E c \in writing.changes :
             LET edit == [id |-> Cardinality(logged), file |-> writing.file, field |-> c.field,
                          before |-> c.before, after |-> c.after, at |-> now]
             IN  /\ history' = history \cup {edit} /\ logged' = logged \cup {edit}
                 /\ writing' = [writing EXCEPT !.changes = @ \ {c}]
     \/ writing.changes # {} /\ writing' = [writing EXCEPT !.changes = {}] /\ UNCHANGED <<history, logged>>
  /\ UNCHANGED <<decided, tag, joined, now, writes>>

(* The last file is done, or the daemon dies.                               *)
EndTagWrite ==
  /\ writing # Nothing /\ writing' = Nothing
  /\ UNCHANGED <<decided, tag, joined, history, logged, now, writes>>

-----------------------------------------------------------------------------
(* Retention: the newest row of a file and field stays longer               *)

SameKey(e) == {x \in history : x.file = e.file /\ x.field = e.field}
\* Mutant: rows written at one time are taken in the wrong order.
NewerThanByTime(x, e) == x.at > e.at \/ (x.at = e.at /\ x.id < e.id)
NewerThan(x, e) == x.at > e.at \/ (x.at = e.at /\ x.id > e.id)
RowNumber(e) == 1 + Cardinality({x \in SameKey(e) : NewerThan(x, e)})
Cutoff(days) == now - days

DeleteEligible(force) ==
  /\ history # {}
  /\ history' = IF force THEN {}
                ELSE {e \in history : e.at >= Cutoff(IF RowNumber(e) = 1 THEN LatestDays ELSE IntermediateDays)}
  /\ UNCHANGED <<decided, tag, joined, logged, writing, now, writes>>

TgStep ==
  \/ Decide \/ Join \/ Midnight
  \/ \E stage \in TagStages : StartTagWrite(stage)
  \/ LoadPrimaryCollection \/ WriteOneFile \/ RecordAuditRow \/ EndTagWrite
  \/ \E force \in BOOLEAN : DeleteEligible(force)
TgSpec == TgInit /\ [][TgStep]_tgVars

-----------------------------------------------------------------------------
TgTypeOK ==
  /\ tag \in [ToSet(TagFiles) -> [Places -> OptionOf(TagValues \cup CollectionNames)]]
  /\ \A d \in TagFields : decided[d] = Nothing \/ decided[d].source \in TagSources
  /\ ToSet(joined) \subseteq CollectionNames
  /\ history \subseteq logged /\ Cardinality(logged) <= MaxEdits
  /\ now \in 0 .. MaxNow /\ writes \in 0 .. MaxWrites

(* core/tunables.rs:1067-1071 has the window of intermediate rows the tighter *)
(* one; nothing that loads the tunables asks for it.                         *)
WindowsInOrder == IntermediateDays <= LatestDays

(* With the windows in that order, however often and whenever retention runs, *)
(* what is left of the history of a field of a file is its newest stretch: an *)
(* undo that follows the rows back from what the file says meets no hole.     *)
Unbroken == \A e \in logged \ history : \A x \in SameKey(e) : x.id > e.id
HistoryUnbroken == WindowsInOrder => Unbroken

(* Observed with LatestDays = 0 and IntermediateDays = 1: the newest row of a *)
(* field goes before the older ones.                                         *)
HistoryUnbrokenAnyWindows == Unbroken

(* tag-write/cleanup.rs:4-5: the history is a trail of every tag written.     *)
EveryWriteAudited ==
  \A f \in ToSet(TagFiles), d \in Places :
    tag[f][d] # Nothing /\ writing = Nothing =>
      \E e \in logged : e.file = f /\ e.field = d /\ e.after = tag[f][d]
=============================================================================
