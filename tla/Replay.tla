------------------------------- MODULE Replay -------------------------------
(* The kinds of operation the journal can replay (api/journal_replayers) and *)
(* the handlers that write them (api/progress, api/collections, the title in *)
(* api/router): one book and a few collections, whose names and Audible ids  *)
(* are UNIQUE.  Journal has the generic protocol statement by statement; here *)
(* a handler records all its rows in one step, and the tables differ.        *)
EXTENDS Common, Sequences, FiniteSets

CONSTANTS
  Patchers,   \* concurrent requests
  BookEdits,  \* what PATCHes of a book ask for: a field and a value
  CollEdits,  \* what PATCHes of a collection ask for: fields and their values
  NewColls,   \* what POST /collections asks for
  MaxColls,   \* bound: collections
  MaxOps,     \* bound: rows of the journal
  MaxFaults   \* bound: stops, and statements that fail

VARIABLES
  up,        \* "up", "down", "recovering"
  book,      \* its exists, title, status, rating (and notes)
  side,      \* rows that follow it: the newest user edit of the title, is_finished
  coll,      \* book_collections
  ops,       \* operation_journal
  patch,     \* the requests under way
  redo,      \* the row that is replayed, and those to come
  created,   \* collections that a request inserted; a history variable
  faults

rpVars == <<up, book, side, coll, ops, patch, redo, created, faults>>

BookFields == {"title", "status", "rating"}
CollFields == {"name", "audible_id", "note"}
CollIds == 1..MaxColls
ReadingStatuses == {"want_to_read", "reading", "finished", "dnf"}
\* What a column of a collection may be asked to say.
CollValues == UNION {{c[f] : f \in DOMAIN c} : c \in NewColls \cup CollEdits}
ASSUME ReplayAssumption ==
  /\ MaxColls \in Nat /\ MaxOps \in Nat /\ MaxFaults \in Nat
  /\ \A e \in BookEdits : e.field \in BookFields /\ (e.field = "title" => e.value # Nothing)
       /\ (e.field = "status" => e.value \in ReadingStatuses)
  /\ \A e \in CollEdits : DOMAIN e \subseteq CollFields /\ DOMAIN e # {}
  /\ NewColls \subseteq [CollFields -> CollValues] /\ Nothing \notin [CollFields -> CollValues]

RpInit ==
  /\ up = "up" /\ coll = [i \in CollIds |-> Nothing] /\ ops = <<>>
  /\ book = [exists |-> TRUE, title |-> "old", status |-> "want_to_read", rating |-> Nothing]
  /\ side = [edit |-> Nothing, finished |-> FALSE]
  /\ patch = [p \in Patchers |-> Nothing] /\ redo = Nothing /\ created = 0 /\ faults = 0

Row(field, at, current, intent) ==
  [field |-> field, at |-> at, current |-> current, intent |-> intent, progress |-> "pending"]
(* at = 0 is the book.                                                       *)
Gone(o) == IF o.at = 0 THEN ~book.exists ELSE coll[o.at] = Nothing
Current(o) == IF o.at = 0 THEN book[o.field] ELSE coll[o.at][o.field]
Taken(field, v, at) ==
  /\ field \in {"name", "audible_id"} /\ v # Nothing
  /\ \E i \in CollIds \ {at} : coll[i] # Nothing /\ coll[i][field] = v

-----------------------------------------------------------------------------
(* What writing an operation does, by a handler or a replay                  *)

TitleWrites(v) == book' = [book EXCEPT !.title = v] /\ side' = [side EXCEPT !.edit = v]
StatusWrites(v) ==
  /\ book' = [book EXCEPT !.status = v]
  /\ side' = [side EXCEPT !.finished = v = "finished" \/ (@ /\ v # "reading")]
RatingWrites(v) == book' = [book EXCEPT !.rating = v] /\ UNCHANGED side
\* Mutant: a replay writes the column alone.
BookWritesColumn(field, v) == book' = [book EXCEPT ![field] = v] /\ UNCHANGED side
BookWrites(field, v) ==
  \/ field = "title" /\ TitleWrites(v)
  \/ field = "status" /\ StatusWrites(v)
  \/ field = "rating" /\ RatingWrites(v)
CollWrites(at, edits) ==
  coll' = [coll EXCEPT ![at] = [f \in DOMAIN @ |-> IF f \in DOMAIN edits THEN edits[f] ELSE @[f]]]

Idle(p) == up = "up" /\ patch[p] = Nothing
Does(p, step) == patch[p] # Nothing /\ patch[p].step = step
Pending == {i \in DOMAIN ops : ops[i].progress = "pending"}
Fails == faults < MaxFaults /\ faults' = faults + 1
Marked(S, verdict) == [i \in DOMAIN ops |-> IF i \in S THEN [ops[i] EXCEPT !.progress = verdict] ELSE ops[i]]

-----------------------------------------------------------------------------
(* PATCH of a book: status, rating and notes have handlers of their own      *)

BookRecords(p, e) ==
  /\ Idle(p) /\ book.exists /\ Len(ops) < MaxOps
  /\ ops' = Append(ops, Row(e.field, 0, book[e.field], e.value))
  /\ patch' = [patch EXCEPT ![p] = [step |-> "book", mine |-> {Len(ops) + 1}, at |-> 0, verdict |-> "done"]]
  /\ UNCHANGED <<up, book, side, coll, redo, created, faults>>
(* set_status finds that the book is gone; books_patch cannot keep an edit   *)
(* of it, and leaves without settling its row.                               *)
BookPatches(p) ==
  LET i == CHOOSE j \in patch[p].mine : TRUE
  IN  /\ Does(p, "book")
      /\ IF book.exists THEN BookWrites(ops[i].field, ops[i].intent) ELSE UNCHANGED <<book, side>>
      /\ patch' = [patch EXCEPT ![p] =
           IF ~book.exists /\ ops[i].field = "title" THEN Nothing
           ELSE [@ EXCEPT !.step = "settle", !.verdict = IF book.exists THEN "done" ELSE "failed"]]
      /\ UNCHANGED <<up, coll, ops, redo, created, faults>>
BookGoes ==
  /\ up = "up" /\ book.exists /\ book' = [book EXCEPT !.exists = FALSE]
  /\ side' = [edit |-> Nothing, finished |-> FALSE]
  /\ UNCHANGED <<up, coll, ops, patch, redo, created, faults>>

-----------------------------------------------------------------------------
(* PATCH of a collection: a row per field, one transaction                   *)

EditRow(at, edits, f) == IF f \in DOMAIN edits THEN <<Row(f, at, coll[at][f], edits[f])>> ELSE <<>>
EditRows(at, edits) ==
  EditRow(at, edits, "name") \o EditRow(at, edits, "audible_id") \o EditRow(at, edits, "note")
CollRecords(p, at, edits) ==
  /\ Idle(p) /\ coll[at] # Nothing /\ Len(ops \o EditRows(at, edits)) <= MaxOps
  /\ ops' = ops \o EditRows(at, edits)
  /\ patch' = [patch EXCEPT ![p] = [step |-> "collection", at |-> at, verdict |-> "done",
                 mine |-> (Len(ops) + 1)..Len(ops \o EditRows(at, edits))]]
  /\ UNCHANGED <<up, book, side, coll, redo, created, faults>>
CollPatches(p) ==
  LET mine == {ops[i] : i \in patch[p].mine}
      clash == \E o \in mine : Taken(o.field, o.intent, o.at)
      edits == [f \in {o.field : o \in mine} |-> (CHOOSE o \in mine : o.field = f).intent]
  IN  /\ Does(p, "collection")
      /\ IF clash THEN UNCHANGED coll ELSE CollWrites(patch[p].at, edits)
      /\ patch' = [patch EXCEPT ![p].step = "settle", ![p].verdict = IF clash THEN "failed" ELSE "done"]
      /\ UNCHANGED <<up, book, side, ops, redo, created, faults>>

(* finalize_pending_journals: best effort.                                   *)
Settle(p) ==
  /\ Does(p, "settle")
  /\ \/ ops' = Marked(patch[p].mine, patch[p].verdict) /\ UNCHANGED faults
     \/ Fails /\ UNCHANGED ops
  /\ patch' = [patch EXCEPT ![p] = Nothing]
  /\ UNCHANGED <<up, book, side, coll, redo, created>>

-----------------------------------------------------------------------------
(* POST /collections: the row of the journal follows the row of the table    *)

CreateInserts(p, c) ==
  /\ Idle(p) /\ created < MaxColls
  /\ \A f \in DOMAIN c : ~Taken(f, c[f], 0)
  /\ LET id == created + 1
     IN  /\ coll[id] = Nothing /\ coll' = [coll EXCEPT ![id] = c]
         /\ patch' = [patch EXCEPT ![p] = [step |-> "created", mine |-> {}, at |-> id, verdict |-> "done"]]
  /\ created' = created + 1
  /\ UNCHANGED <<up, book, side, ops, redo, faults>>
CreateRecords(p) ==
  /\ Does(p, "created")
  /\ \/ /\ Len(ops) < MaxOps
        /\ ops' = Append(ops, Row("create", patch[p].at, Nothing, coll[patch[p].at]))
        /\ patch' = [patch EXCEPT ![p].step = "settle", ![p].mine = {Len(ops) + 1}]
        /\ UNCHANGED faults
     \/ Fails /\ UNCHANGED ops /\ patch' = [patch EXCEPT ![p] = Nothing]
  /\ UNCHANGED <<up, book, side, coll, redo, created>>

-----------------------------------------------------------------------------
(* try_replay: read, and decide; write; settle the row                       *)

(* The order of the checks: gone, already there, drifted, name taken.        *)
FieldDecision(o) ==
  IF Gone(o) \/ Current(o) = o.intent \/ Current(o) # o.current \/ Taken(o.field, o.intent, o.at)
  THEN "failed" ELSE "write"
(* A collection that is there is the one that was asked for, if its name is. *)
\* Mutant: what was created is looked for by its name.
CreateDecisionByName(o) ==
  IF \E i \in CollIds : coll[i] # Nothing /\ coll[i].name = o.intent.name THEN "done" ELSE "write"
CreateDecision(o) ==
  IF Gone(o) THEN IF Taken("name", o.intent.name, 0) THEN "failed" ELSE "write"
  ELSE IF coll[o.at].name = o.intent.name THEN "done" ELSE "failed"
Decision(o) == IF o.field = "create" THEN CreateDecision(o) ELSE FieldDecision(o)

Redoing(step) == redo # Nothing /\ redo.step = step
Taking(i, todo) == [step |-> "read", op |-> i, todo |-> todo, verdict |-> "done"]

Retry(i) ==
  /\ up = "up" /\ redo = Nothing /\ i \in Pending /\ redo' = Taking(i, {})
  /\ UNCHANGED <<up, book, side, coll, ops, patch, created, faults>>
ReplayReads ==
  /\ Redoing("read")
  /\ LET d == Decision(ops[redo.op])
     IN  redo' = [redo EXCEPT !.step = IF d = "write" THEN "write" ELSE "mark", !.verdict = d]
  /\ UNCHANGED <<up, book, side, coll, ops, patch, created, faults>>
(* A book that has gone meanwhile, or a name that was taken, is an error:    *)
(* the recovery pass fails the row, a retry leaves it.                       *)
ReplayErrs ==
  redo' = IF up = "recovering" THEN [redo EXCEPT !.step = "mark", !.verdict = "failed"] ELSE Nothing
FreeId == CHOOSE i \in CollIds : coll[i] = Nothing
ReplayDone == redo' = [redo EXCEPT !.step = "mark", !.verdict = "done"]
ReplayBook(o) ==
  /\ UNCHANGED coll
  /\ IF book.exists THEN BookWrites(o.field, o.intent) /\ ReplayDone
                    ELSE ReplayErrs /\ UNCHANGED <<book, side>>
ReplayColl(o) ==
  /\ UNCHANGED <<book, side>>
  /\ IF Taken(o.field, o.intent, o.at) THEN ReplayErrs /\ UNCHANGED coll
     ELSE CollWrites(o.at, [f \in {o.field} |-> o.intent]) /\ ReplayDone
ReplayCreate(o) ==
  /\ UNCHANGED <<book, side>>
  /\ IF Taken("name", o.intent.name, 0) \/ Taken("audible_id", o.intent.audible_id, 0)
       \/ \A i \in CollIds : coll[i] # Nothing THEN ReplayErrs /\ UNCHANGED coll
     ELSE coll' = [coll EXCEPT ![FreeId] = o.intent] /\ ReplayDone
ReplayWrites ==
  /\ Redoing("write")
  /\ LET o == ops[redo.op]
     IN  IF o.field \in BookFields THEN ReplayBook(o)
         ELSE IF o.field \in CollFields THEN ReplayColl(o) ELSE ReplayCreate(o)
  /\ UNCHANGED <<up, ops, patch, created, faults>>
NextRow ==
  IF redo.todo = {} THEN redo' = Nothing /\ up' = "up"
  ELSE LET i == CHOOSE j \in redo.todo : \A k \in redo.todo : j <= k
       IN  redo' = Taking(i, redo.todo \ {i}) /\ UNCHANGED up
ReplayMarks ==
  /\ Redoing("mark")
  /\ \/ ops' = Marked({redo.op}, redo.verdict) /\ UNCHANGED faults /\ NextRow
     \/ Fails /\ UNCHANGED ops /\ redo' = Nothing /\ up' = "up"
  /\ UNCHANGED <<book, side, coll, patch, created>>

Crash ==
  /\ up # "down" /\ Fails /\ up' = "down"
  /\ patch' = [p \in Patchers |-> Nothing] /\ redo' = Nothing
  /\ UNCHANGED <<book, side, coll, ops, created>>
Recover ==
  /\ up = "down"
  /\ IF Pending = {} THEN up' = "up" /\ UNCHANGED redo
     ELSE LET i == CHOOSE j \in Pending : \A k \in Pending : j <= k
          IN  up' = "recovering" /\ redo' = Taking(i, Pending \ {i})
  /\ UNCHANGED <<book, side, coll, ops, patch, created, faults>>

RpStep ==
  \/ \E p \in Patchers :
       \/ \E e \in BookEdits : BookRecords(p, e)
       \/ \E at \in CollIds, edits \in CollEdits : CollRecords(p, at, edits)
       \/ \E c \in NewColls : CreateInserts(p, c)
       \/ BookPatches(p) \/ CollPatches(p) \/ CreateRecords(p) \/ Settle(p)
  \/ \E i \in DOMAIN ops : Retry(i)
  \/ BookGoes \/ ReplayReads \/ ReplayWrites \/ ReplayMarks \/ Crash \/ Recover

RpSpec == RpInit /\ [][RpStep]_rpVars

-----------------------------------------------------------------------------
RpTypeOK ==
  /\ up \in {"up", "down", "recovering"} /\ book.exists \in BOOLEAN
  /\ book.status \in ReadingStatuses /\ side.finished \in BOOLEAN
  /\ \A i \in DOMAIN ops : ops[i].progress \in {"pending", "done", "failed"}
  /\ \A p \in Patchers : patch[p] # Nothing => patch[p].mine \subseteq DOMAIN ops

(* A replay does what the handler would have done, once.  There are as many  *)
(* collections as requests inserted, after crashes, renamings and retries of *)
(* rows that were left; and what follows a field of a book follows it also   *)
(* when the field is replayed: the title that is shown is the newest user    *)
(* edit of it, so that no later consensus undoes it, and a finished book is  *)
(* finished in media_progress.                                               *)
SideRowsFollow ==
  /\ side.edit # Nothing => book.title = side.edit
  /\ side.edit = Nothing => book.title = "old"
  /\ book.status = "finished" => side.finished
  /\ book.status = "reading" => ~side.finished
ReplayedAsDone ==
  /\ Cardinality({i \in CollIds : coll[i] # Nothing}) = created
  /\ book.exists => SideRowsFollow
=============================================================================
