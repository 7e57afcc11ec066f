# ABorganizer: verification project

ABorganizer is a local audiobook organizer: a daemon (`bins/aborg-daemon`) that
scans library directories, runs a DAG of stages over every book (tags, catalog
match, fingerprint, transcription, extraction ...), serves an HTTP API, and
keeps its state in two SQLite databases (`library.db`, durable user data, and
`ephemeral.db`, everything that can be recomputed). This directory holds TLA+
modules that model the parts of it that have state and order to get wrong, TLC
configurations that check them, and proofs checked by TLAPS.

`PROJECT.json` is the index: components, runs, mutants, the map from every
definition to the source lines it stands for, findings, hazards and theorems.

1. [Inventory](#1-inventory) - 2. [Modules](#2-modules) - 3. [Runs](#3-runs) -
4. [Theorems](#4-theorems) - 5. [Findings](#5-findings-and-observations) -
6. [Not modelled](#6-not-modelled) - 7. [What remains](#7-what-remains)

## 1. Inventory

### Processes of the daemon

`main.rs` takes the lock file, opens both databases, replays the operation
journal, builds the DAG, then starts: the scheduler worker (one task draining
three channels), the speech-asset idle installer, the pipeline dispatcher (reaper
and sweep on a timer), the cleanup loop, the background-task loop and the API
servers. They share the two databases, the scheduler's channels and one
cancellation token; there is no other in-process coordination. Each handler is
an async function that may be cut at every await point, and the process may be
killed between any two statements.

### Components

| Component | State it keeps | Hard behaviour | What makes it correct | Module |
|---|---|---|---|---|
| Pipeline scheduler and dispatcher (`crates/pipeline`, handlers of `api/router.rs`) | `pipeline_progress`; three bounded queues; worker; sweep snapshot | queues lost on restart, rows written from several tasks, snapshots of two databases | books settle; only work whose requirements ran is dispatched; rows of deleted books go; no deadlock on full channels | `Pipeline` |
| DAG (`pipeline/dag.rs`) | builder | duplicate names, unknown requirement, rings | a topological order of all stages, or a reason | `DagBuild` |
| Library scan (`crates/scan`) | `books`, `book_files`, box sets | moved, copied, replaced files; scans at once | one row per file, each book reported once, re-scans converge | `Scan` |
| Operation journal (`crates/journal`, `api/journal_capture`) | `operation_journal` | crash between row and mutation; concurrent edits | never lost, applied or called done twice; recovery ends | `Ledger`, `Journal` |
| Replayers, collections, fields of a book (`api/journal_replayers`, `collections`, `progress`) | the same, `book_collections`, side rows | replay of what was done; UNIQUE names taken meanwhile | a replay does what its handler did, once | `Replay` |
| Speech asset installer (`transcript/idle_install`, `stage`) | `pending_speech_installs`, `book_locale_blocks` | crash while installing; release racing a block | a blocked book is released | `Speech` |
| Transcripts and text extractors (`crates/transcript`) | reels heard, `ai_cache` | files, locale, version change while a book is heard for hours | a transcript is of one reel, whole | `Transcripts` |
| Language-model extractors (`crates/llm-extractors`) | `ai_cache`, facets, tags and their tree, text columns, characters, arc | answers minutes late; four writes without a transaction; tables that several stages share | a cache row never promises what is not there, and shows what it was given; the tree has no cycle | `Extractors`, `Profiles` |
| Conversion, references, sweep of sources (`aax-decrypt`, `transcode`, `db/book_file_refs`) | `book_files`, disk, `book_file_refs` | deletion racing use, crash between file and row | a row goes out of use only when its file is gone; references end, but for crashes and failing releases | `Artefacts` |
| Tag writing, history (`crates/tag-write`) | files, `mass_edit_history` | retention between edits, ties in a second | what is left of the history has no hole | `TagWrites` |
| Audiologo (`crates/audiologo`, `api/audiologo_*`) | `audiologo`, chapters, duration | two approvals at once; file and book times | a cut counts once; chapters begin where the audio has them | `Audiologo` |
| Identities (`catalog/identity`, `franchise`, `api/names`) | authors, narrators, series, publishers, spellings, pending names | decisions of an operator meet new candidates | every entity can be found, no candidate vanishes | `Identity` |
| Provenance and consensus (`catalog/{audible_search,enrich,consensus}`, `tag-read`, `user_edits`) | `book_field_provenance`, columns | late answers, retries, edits | an edit stays; winner and column agree | `Provenance` |
| Chapters (`catalog/*chapters*`, `chapter_winner`, `chapter_marks`) | rows of four sources, marks | sources fetched and picked again | one table of contents, no gap | `Chapters` |
| Swift bridge (`foundation-models`, `speech`, `audio/ffi`, `swift/`) | boxed senders, tasks, callbacks | caller gone, two last callbacks | the box is freed at the last callback, once | `Bridge` |
| Background tasks, cleanup (`crates/background`, `pipeline/cleanup`) | `background_task_state`, rows by age | failing tasks, manual runs, rows in use while others go | tasks come round; what is in use stays, history goes only by a clean | `Upkeep` |
| Progress, ratings, device sync (`crates/progress`) | `media_progress`, status, rating | read, then write, on a pool; clocks | the newest report stays | `Listening` |
| Lists, search, saved queries (`api/{authors,...,search,queries}`) | `saved_queries` | count and page are two queries | the pages tile the list | `Browse` |
| Doctor, library roots (`api/doctor`, `library_roots`) | all tables, read | check and remedy are different queries | a remedy clears its finding | `Doctor` |
| Companions (`companion`, `scan/companion_scan`, `db/companions`) | files, pairs, counts, dictionary | counters kept by differences | the count is the count | `Companions` |
| EPUB excerpts (`companion-extract`) | none | sentence starts, entities, two tables of contents | the names that the text uses | `Excerpts` |
| Fingerprints, jingles, duplicates (`fingerprint`, `audiologo/{stage,transcript_aided,phrases}`) | windows | offsets, ties, gaps | found where they are; copies listed | `Sounds` |
| Statistics, reports (`crates/stats`, `api/reports`) | none | long tails, pages of a shop | figures add up, reports are whole | `Figures` |
| Audiobookshelf-compatible shelf (`crates/shelf`) | none | byte ranges, rewritten files | a file is put together whole | `Shelf` |
| Pairing, tokens, sessions, rate limits; archive and covers; audio and tag reading; playlists and transcript views; databases and configuration; start-up; CLI, tools, web UI | | | | not modelled, see 6 |

### Where the hard behaviour is

The daemon has no locks of its own between its tasks: what two tasks may do to
one another goes through SQLite statements, most of them outside a
transaction, and through bounded channels. So the behaviours worth checking are
the same everywhere, and `PROJECT.json` lists them one by one under `hazards`:

* a row read in one statement and acted on in another (sweep, reaper, retry,
  rescue of blocked books, drift check of a replay);
* a process killed between a row that announces work and the work itself
  (`running`, `pending`, `installing`);
* a status with two meanings (`skipped` is both "nothing to do" and "not now");
* a file system that changes under a scan, in any order, in several steps;
* a queue that is full, and a queue that is lost;
* an answer (of a model, a shop, a device) that comes minutes after the state it
  was asked for has changed;
* two places that describe one thing: a row and its file, a column and the
  provenance row that won it, a cache row and what it promises, a total and the
  pages, a check of the doctor and the remedy it names.

## 2. Modules

A module has one action per step that another process can observe: an async
function is cut at the awaits whose order matters, a SQL statement or a
transaction is one step, and a request on which nothing else runs is one step.
What a mutated definition looks like is defined beside it, under a comment that
begins with "Mutant"; the specification does not use these. Definitions whose
comment begins with "Observed" state something the code does not keep; section 5
lists them.

| Module | Role |
|---|---|
| `Pipeline`, `MCPipeline`, `PipelineProofs` | worker, dispatcher, and the handlers around `pipeline_progress` |
| `Ledger` | abstract specification: what the journal promises its readers |
| `Journal`, `MCJournal`, `JournalProofs` | PATCH handlers, retry endpoint, recovery pass; implements `Ledger` |
| `Scan`, `MCScan`, `ScanProofs` | library scan against a changing disk |
| `Speech`, `MCSpeech`, `SpeechProofs` | speech installer, the stage that needs a model, its dependents; the proofs module also has the theorems about `Sounds` and `Excerpts` |
| `Common` | books, `Nothing` (SQL NULL), option types, sums and orders of lists |
| `Identity`, `Provenance`, `Chapters` | what the catalog makes of a book; composed in `MCCatalogue`, theorems in `CatalogueProofs` |
| `Transcripts`, `Extractors`, `Profiles`, `Artefacts`, `TagWrites`, `Audiologo` | the stages behind it; composed in `MCStages`, theorems in `StagesProofs` |
| `Bridge`, `Upkeep`, `Listening`, `Replay`, `Browse`, `Doctor`, `Companions`, `Excerpts`, `Sounds`, `Figures`, `Shelf`, `DagBuild` | what surrounds the pipeline; composed in `MCLibrary`, theorems in `LibraryProofs` (of `Sounds` and `Excerpts` in `SpeechProofs`) |
| `CommonProofs` | what the proofs share: induction over the natural numbers as a fact about sets, sums along a list, folds, sifted lists, a set put in order |

The models of a group share the books and nothing else: their tables are
disjoint, as far as a statement of one reads them. A behaviour of a group's
module therefore picks one model at the start (`part`) and only that one steps;
nothing is lost, and one run asks one group of questions. `DagBuild` justifies
what `Pipeline` assumes of its `Order`.

### Pipeline

| State | Code |
|---|---|
| `books` | `library.books`: no row, live, `deleted_at` set, deleted with its files |
| `progress` | `ephemeral.pipeline_progress` |
| `queue`, `idleReady` | the three `mpsc` channels and `last_busy.elapsed() >= idle_wait` |
| `worker` | the task of `Scheduler::spawn`: polling, before and after `write_progress_start`, dispatching |
| `disp` | `run_dispatcher_loop`: asleep, between the two reads of `reap_orphans`, reaping, sweeping, holding a book's snapshot |
| `scan`, `retry` | a `library_scan` and a `books_retry_stage` request in progress |
| `completed` | history: what has returned Done or Skipped |

`Take`, `Start`, `Finish` and `DispatchDependent` are the worker loop, `execute`
and `dispatch_ready_dependents`; `TickReadsBooks` .. `SweepEnds` are `tick`;
`ScanInsert` .. `RetrySubmits` and `Trash`, `Restore`, `ForceDelete` are the
handlers; `Restart` is a crash and a start. A stage is what it answers
(`Outcomes`), a statement that fails costs a fault.

### Ledger and Journal

`Journal` has one target row with several journaled fields, the append-only
`operation_journal`, a PATCH request per client and the one replay that may be
in progress (the recovery pass of `main` before the API is served, or the retry
endpoint). `Begin`, `ReadCurrent`, `Record`, `Apply`, `Settle` are the steps
`books_patch`, `collections_patch` and the `progress.rs` handlers share: 404,
pre-read, `record_pending`, the transaction, `mark_*_or_log`. `Abandons` says
whether errors before the commit leave by `?`, as in `books_patch`, past the
finalize pass. `ReplayReads`, `ReplayApplies`, `ReplayMarks` are a `try_replay`
and the mark after it. All callers record with `batch_id: None`, so
`pending_batches` is in `op_id` order.

`Ledger` has the progress of every row and the set of operations whose mutation
was written; it can add a row, write, and settle a row once, `done` only after
the write. `LedgerKept` maps `log` to the `progress` column.

### Scan

`disk` is what is there; `World` writes, renames and removes files and deletes
books by force. A request walks (`Walk`, each directory at a time of its own),
then takes directories in path order (`OpenGroup`) and their files in any order,
since `WalkDir` is not sorted. `HashFile` is `compute_file_hash`, a step of its
own: the file is hashed before the transaction begins, and the disk may change,
or another scan be there, in between. `PathKnown`, `Moved`, `Inserted` are the
three ways through the transaction of `upsert_book_file`. `GroupFails` is the error `scan_with_excludes`
logs; `DetectBoxSets` and `PersistBoxSet` are the box-set heuristic, where
SQLite's choice of a bare column in `GROUP BY` is left open (`Samples`). `quiet`
counts undisturbed, whole scans, one after the other, since the last change and
the last row that was moved by a stale hash (`Stale`: the file has another now).

### Speech

`QueueRow` and `QueueBlock` are the two statements of `queue_locale_install`;
`Collect` .. `TickEnds` are `process_one_tick`, statement by statement;
`RetryFailed` and `DoctorInstall` are the operator's endpoints. The worker and
the sweep are those of `Pipeline`, cut down to what matters here: the dispatch
of `Followers` once `HeadTail` is satisfied, and the sweep's eligibility. `older`
orders rows by `queued_at`.

### Identity, Provenance, Chapters

`Identity` keeps the tables of people and series, their spellings, links and
the undecided names as one record `db`, since every handler is one transaction
on them. `Resolve` is the whole resolve-identity stage for a book (each
candidate: looked up by Audible id, by spelling, by its prime spelling, else
created or put up for review); `Observe` is a change of what the sources say;
`AddAlias`, `Exalt`, `Pick`, `CreateNew` are the operator's, the last two on
`PendingList`, the query behind the list that is shown. Folding of spellings is a
parameter.

`Provenance` has the candidate rows, the columns they feed, the learned title
corrections and the one lookup under way: `ReadTags`, `SearchAudible`,
`EnrichAsks` and `EnrichWrites` (an HTTP request lies between), `Promote`,
`Reset` (a retry's default reset), `Patch` (an edit, with the row that outweighs
all others). Confidences keep their order, not their values.

`Chapters` has the rows of each source, the flagged ones, and the marks in the
transcript. A layout is what is on disk; `PickWinner`, `FillTitles` and
`MarkChapters` are the stages; `Refetch` is a retry.

### Transcripts, Extractors, Artefacts, TagWrites, Audiologo

`Transcripts`: `reel` is a book's files with their lengths, `hearing` the runs
under way; `PlanSamples` and `PlanFull` choose windows, `Listen` listens to the next
one or fails, `ReplaceFiles` and a change of locale or version come in between.
The recognizer may hear nothing in a window (`full_stage.rs:124-126`): `windows`
are those listened to, `said` those that gave segments, and no row is written when
none did. "Without a gap" is thus said of what was listened to; a silent file
leaves no segments.
`RunExtractors`, `DetectDescriptionLang` and `ExtractNameDict` read text.

`Extractors`: a stage is `Begin`-like action (gates, what it reads), an entry of
`asking` while the model thinks, and `Answer`, which performs the writes one by
one; `RestartAsking` kills all of them anywhere. `shown` are the columns and
rows a reader sees, `tree` the parents of tags, `answer` the rows of `ai_cache`.
`RetryExtractor` is a retry of one stage, which deletes its row.

`Profiles` takes five of these stages (tags, setting, characters, arc, polish) one
level down: what of an answer is accepted, what of its lists is kept (`SlugsOf`,
`Clamp`, `CanonicaliseWarnings`), and the rows each transaction deletes and
inserts in tables that two stages share. `Ask...` are a stage up to its question,
`WriteNext` its writes one by one, `StageFails` an error that leaves by `?`,
`RestartProfiles` a crash anywhere, possibly with another version configured.

`Artefacts`: `row`, `disk`, `refs` are `book_files`, the file system and
`book_file_refs`; `convert`, `sweep`, `reset` are a conversion, a sweep of sources
and a reset in progress, each statement or file operation a step. `audio` is the
recording an m4b holds, which only the file knows. `Release` and `ReleaseFails` are the
two ends of `release(..).await?`; the second leaves the stage with its reference
live, and the run is counted among those broken off (`cut`).

`TagWrites`: `Decide` and `Join` change what is to be written; `StartTagWrite` ..
`EndTagWrite` are the three writing stages, file by file, audit row after file;
`DeleteEligible` is retention, `Midnight` moves the clock. The two windows of
retention are any numbers of days; `WindowsInOrder` is the documented order of them.

`Audiologo`: `rows` are the candidates with their status; the `Detect*` actions are
the stage's passes and writes in order (a fingerprint of each window, a phrase in the
transcript of the head and of the tail, each with or without the confidence that
its floor asks for), `Review` .. `Reject` the operator's requests, each read and each transaction a step, `AudiologoCut` the cut by hand,
`ResetDetect` a retry. `chapters` and `duration` are what a cut moves.

### Bridge and Upkeep

`Bridge` has, for each call, the caller (`waiting`, `answered`, `gone`), the box
behind `ctx` (`none`, `leaked`, `freed`), the Swift task and the channel between.
Eleven kinds of call over three bindings differ in what they ask of the host
and in how they end. `Upkeep` has the background loop with its back-off, a
manual run beside it (`ManualEnds`, recorded as any run is, or `ManualLost`), and,
apart from it, a clean of the rows that go by age, target by target, while codes
are issued, used and revoked, hints recorded, replaced and cascaded (`RowTaken`), and
operations begin and end.

### Listening, Replay, Browse, Doctor

`Listening`: a report of a device is `ReadClock`, `ReadPrior`, `Upsert`,
`MarkFinished`, steps on a pool of connections; the clock may go back. `newest`,
`overlap` and `cutOff` are history.

`Replay`: the kinds of operation that can be replayed, each handler and its
Replayer with the rows, side rows and UNIQUE constraints they meet. Where
`Journal` has the protocol statement by statement, here a handler records all
rows in one step.

`Browse`: a walk counts, then asks for page after page, of every list endpoint
with its own WHERE, order and bounds; books come and go meanwhile.

`Doctor`: a behaviour fills one table with rows in any shape that the code can
write, reads the check, carries out the remedy that the check names, and reads it
again.

### Companions, Excerpts, Sounds, Figures, Shelf, DagBuild

`Companions`: files, directories, pairs and the counter, with scans row by row.
`Excerpts`, and the `heard` and `said` parts of `Sounds`, grow their input token by
token, and compare what the code computes with a definition of what it should
find. A spoken jingle is looked for in `PhraseLists`, one after the other: the phrases
built in, then the names of publishers, of authors, of narrators; the first list of
which anything is said decides, also against an earlier hit of a later list. `Sounds`
also has the runs of the fingerprint stage. `Figures` fills the
columns of books and compares each breakdown with the books; reports ask a shop
page by page. `Shelf` serves ranges of files that are rewritten and re-read.
`DagBuild` registers stages and sorts them, one `TakeReady` per turn of the loop.

## 3. Runs

| Run | Instance | What it shows |
|---|---|---|
| `PipelineSafety` | 1 book, root and dependent, every outcome, channels of one slot, 1 fault and 1 request; 1.35 M states | `RunningIsOwned`, `SatisfiedIsEarned`, `AutoDispatchAfterRequirements` |
| `PipelineLive` | as above, stages succeed, 1 fault or 1 request; 78 k states | `BooksSettle`, `OrphansReaped`, `HandlersFinish` |
| `JournalSafety` | 2 clients, 2 fields (one without a Replayer), deletes, retries, 1 crash, 1 failed statement; 292 k states | `LedgerKept`, `RecoveryClears`, `RowsSettle` |
| `JournalOneClient` | 1 client, 3 requests of one or two fields, deletes, 2 crashes; 22.7 k states | `LastIntentSurvives` |
| `JournalRetryRace` | 1 client, 1 retry | **violated** `NewerWriteStays` |
| `ScanSafety` | 3 paths, 2 directories, 2 contents, 2 scanners, every initial disk; 1.5 M states up to symmetry | `NoTwins`, `ReportedOnce`, `TrueRowsStay`, `Converges` |
| `SpeechSafety` | 2 books, 2 locales, one book may ask for either, 1 failure, 1 fault; 174 k states | `BlockCovered`, `InstallingIsOwned`, `WaitingIsServed` |
| `CatalogueSafety` | `MCCatalogue`; 468 k states | `Findable`, `NothingVanishes` (identity); `EditSticks` (provenance); `TocWhole` (chapters) |
| `GenresPromoted` | provenance alone | **violated** `GenresPromoted` |
| `StagesSafety` | `MCStages`; 709 k states | `TranscriptsWhole`, `CachedIsShown`, `TagsAcyclic`, `ProfilesHold`, `SweepsSettle`, `HistoryUnbroken`, `CutsAligned` |
| `AudioKept` | artefacts alone | **violated** `AudioKept` |
| `LibrarySafety` | `MCLibrary`; 331 k states | `CallsEndOnce` (bridge), `KeptRowsStay` (upkeep), and the three collected below |

Three properties of `LibrarySafety` are collections:

* `RecordsTrue`, in every state: `NewestReportStays` (Listening), `ReplayedAsDone`
  (Replay), `CountsKept` (Companions), `RemediesClear` (Doctor), `OrderSound` and
  `BuildSound` (DagBuild), `PlayedWhole` (Shelf). All of them are proved, hence the
  collection is (section 4);
* `ViewsTrue`, each where its model is explored: `FiguresAddUp` and `ReportsWhole`
  (Figures), `PagesTile` (Browse), `CoverOfItem` (Shelf), `NamesFound` and
  `TitlesFound` (Excerpts), `JinglesFound`, `SpokenPlaced` and `CopiesListed`
  (Sounds);
* `EveryoneServed`, under fairness: `TasksComeRound` (Upkeep), `Answered` (Bridge).
  A task comes round in the loop unless runs of it by hand go on ending for ever:
  each end is recorded as a last run (section 5); one that never ends changes nothing.

`CutsAligned` is about books whose cuts were all approved or asked for by hand: their
length is right in any case, and their chapters begin where the audio has them unless
a file was cut behind an earlier cut of its own. The instance has such files, and
what happens then is in section 5. `KeptRowsStay` is about what nothing may take: a code
that was used, an operation under way, and, outside a clean that commits, the record
of one that ended.

`ProfilesHold` is the conjunction of `CurrentAnswersShown` (a stage that is skipped
because its answer is current left exactly that answer in the tables),
`TagsWithinCaps` and `ArcsInOrder`.

Every module's `TypeOK` is part of its safety run. Each property of a passing run
has mutants, definitions changed as a plausible bug would change them, under
which the same run finds the property violated; a collection has one for each of
its models.

### Bounds, and why they are enough

* *One book* in `Pipeline`: books meet only in the channels, and a channel of one
  slot is full with one job, so a second book adds pressure the first already
  feels. `MaxSubmissions = 1` ends the sweep at once. One dependent is enough for
  a stage to be dispatched, dropped, swept and retried.
* *Faults and requests* (`MaxFaults`, `MaxRequests`, `MaxEvents`): the safety run
  combines one of each; the liveness run takes one of either, since the
  combination multiplies the graph whose cycles TLC must search, and the
  properties speak of what happens after the last of them.
* *Two journal clients* race over one field, and the two-field request has a
  state between its rows. One crash may fall into a handler or, with two
  crashes in `JournalOneClient`, into the recovery pass as well.
* *Three paths* in `Scan`: two in one directory (a multi-file group with a first
  and a later file) and one of another format elsewhere, so that moves within and
  between directories, chains, swaps and copies occur. An overlapping scan
  counts double against `MaxScans` and once against `MaxChanges`: three scans in
  a row, or two at once. Contents and scanners are interchangeable; the
  symmetric run checks no liveness.
* *Two locales and two books* in `Speech`: one locale waits behind the other, two
  books share one, and one book can block on both.
* *Catalogue*: two books that name people in two spellings with and without an
  Audible id, two changes of the candidates, two requests of the operator; two
  edits, one reset and two ticks of the clock, so that two edits fall in one
  second and in two; four chapter lists over two files, a transcript of 7
  characters with two places to break it, two retries.
* *Stages*: reels of two files, in one of them a file of unknown length; two runs at
  once, two stamps. Three tags in hierarchies that close a cycle only together;
  two versions, two questions at once; the second book starts with its
  language decided and its chapters stay unmarked, the first has neither limit. Caps
  of one tag and of none (the code keeps one), spellings of which two are one slug
  and one is none, two versions, two questions. Two sources of two formats, two
  conversions, two sweeps or resets. One file with two fields, two writes, two
  days, of which the windows of retention are one and none. Two files, a faintly
  heard intro in the first and a sure outro in the last, and a cut by hand later
  in the first; at most three candidate rows, two requests at once, one retry. Samples
  at two places, one in each file.
* *Library*: one call at a time into each of three hosts, since calls share no
  state, with four snapshots, one of them empty. Two tasks, one of which reaches
  the cap of the back-off in two failures; two rows per cleaned table. Two devices,
  two reports, clock readings 1 and 2. One client, two operations, two
  collections, two crashes or failing statements. Three books with ties and
  missing values in every key of the 22 views, pages of two (the client asks for
  five, which is clamped). Two rows a table for
  the doctor. Files of companions in nested directories, three audio files of
  two books, two changes between two scans. Five tokens of text. Words of one bit and runs of four windows;
  phrases that overlap. Two changed columns. Two pages of two products. Files
  of 2 and 3 bytes, which every boundary of a range meets. Three registered
  stages, whose lists make a chain, a ring, a loop and a repetition.

Every bound is a guard on the action it limits and is named in the module's
CONSTANTS. `CHECK_DEADLOCK FALSE` stands in the configurations of the journal, the
scan and the three groups because nothing happens there once the bounds are used
up: requests, crashes, changes and inputs end, and every process is back at rest.
`Pipeline` and `Speech` are checked for deadlock: their timers never stop.

### Fairness

Weak fairness is given to what the daemon schedules by itself: the worker task,
the dispatcher's, the installer's and the background loop, a handler that can
run on. Tokio polls every ready task, the loops never return before cancellation,
and `sleep` completes (`TimePasses` in `Upkeep`). `ScanSubmit` and `RetrySubmits`
wait for room in a channel: `mpsc` serves waiting senders in order, hence strong
fairness. `Settles` says that a stage called again and again does not answer
`Continue` for ever. In `Bridge`, the Swift side of a call goes on (`SwiftSide`)
and a receiver that is polled takes what was sent (`Receive`): a download or a
session ends one way or the other, because the bindings fire their callback once.
Clients, the operator, devices, the owner of the files, crashes and failing
statements are under no obligation.

## 4. Theorems

Proved for all values of the constants that satisfy the named assumptions of the
module (`PipelineAssumption`, ..., `ArtefactsAssumption`): DAGs, buffers,
libraries, numbers of clients, devices and files, hierarchies, bounds. The
assumptions are types, finiteness where something is counted, and facts of the
catalogue (a name has no blank at its ends, `Nothing` is no value); TLC evaluates
them in the runs.

| Module | Theorems | Argument |
|---|---|---|
| `PipelineProofs` | `TypeCorrect`, `Earned`, `AutoDispatchSafe`, `RunningOwned` | `SatisfiedIsEarned` is inductive only together with types and with the snapshot a sweep carries: rows may be reset, but `completed` only grows, so a stale snapshot is still true of the past. `RunningIsOwned` needs that the worker between `Start` and `Finish` is the only writer of `running`. |
| `JournalProofs` | `JournalTracked`, `JournalTypeCorrect`, `LedgerRefined` | `JournalInv`: requests and replays hold positions of the journal, and whoever is about to say `done` has written. With it every step is a step of `Ledger` or a stutter; `Record` needs that a new row is the last one. |
| | `RecoveryIsComplete` | `RecoveryInv`: while a pass has met no error, every pending row is still on its list or in its hands, so what it leaves at its end is empty; a second pass starts from the rows that are pending then. |
| | `LastIntentKept` | `IntentInv`, for one client (`OneClient`: no failing statement, no retry by hand): a pending row is the only one of its column and the last, and the column shows what was there before it or what it asks for. That is what makes the replay's judgement by value right; with two clients, or a retry beside a PATCH, it is not (`NewerWriteStays`). |
| `ScanProofs` | `ScanSound`, `ScanTypeCorrect`, `RowsUnique`, `BooksReportedOnce`, `TruthKept`, `ScansConverge` | `ScanInv` is the types, the shape of a request and `NoTwins`: an insert needs neither its path nor its hash to be known. `BooksReportedOnce` adds `Announced`: requests have numbers of their own, a multi-file group that is past its first file has its book in hand (so a book that is not reported is one that was), and a report lists the request's books, each once. `ScansConverge` rests on a measure: after `quiet` undisturbed scans either every visible file has a row or at least `quiet` rows are truthful; a scan that leaves a file without a row has made a further row truthful, and truthful rows stay (`TruthKept`). Both except the row that follows a hash read before the disk changed: `TruthKept` names it as the one way a truthful row is taken, and `quiet` begins again. |
| `SpeechProofs` | `SpeechTypeCorrect`, `BlocksAreCovered`, `InstallingRowsAreOwned` | The invariant adds what each process may rely on between two statements: `Claimed` (the row in work is still `installing`), `ModelIsThere` (only a locale whose model is there is called installed, so collecting its row breaks no promise), `AskedFor` (the stage's first statement still holds at its second). |
| | `SoundsAreFound` | The fold over offsets keeps the earliest of the closest matches so far, the fold over jingles the surest so far, the fold over phrases the earliest so far (`JinglesFound`). For `SpokenPlaced`: the text put together grows by whole segments, so their places are disjoint and in order, and the last segment begun at a place is the one that says the letter there. |
| | `NamesAndTitlesAreFound` | After n tokens the open run is the longest run of names that ends at n, the flag says whether a sentence starts at n + 1, and the runs counted so far are those that are closed, one to one (`NamesFound`); hence each name has the count that the text gives it. `TitlesFound` is about a sifted list being empty. |
| `CatalogueProofs` | `OperatorHasTheLastWord` | `PrInv`: nothing but an edit has confidence 100, so no promotion takes an edit's place; of the edits, one with the latest stamp is on show; and a flagged row is what its column shows, which a promotion that leaves the column alone must not break. |
| | `RowsStayFindable` | Every entity's prime spelling is one of its spellings and no other is prime; a new row comes with its own name, and a change of the prime spelling moves the flag within the same transaction. The Audible ids stay apart because a row takes one only after looking it up. |
| | `CandidatesAccounted` | Case by case over what `Resolve` may decide: each decision links, or leaves a pending row that the operator's list shows, unless the name was settled there before; and only a decision for another author takes an author from a book. |
| | `TocStaysWhole` | `ChInv`: the rows of a source are flagged together, and one source at most. A list merged from files is built file by file: each part is a run without gap inside its file's span, and the next begins where the last ended (induction over the files; offsets are sums along the list). The marks are clamped and then made to rise, so they divide the transcript. |
| | `CatalogueTypesHold` | Beside `PrInv` and `ChInv` a counting argument: a run numbers a new person only for a spelling that nobody has, so there are never more people than spellings on record and the operator's requests; a run is split into its parts (`ResolutionInParts`), of which each adds at most one; links, pending options and picks name rows. |
| `StagesProofs` | `CachedAnswersShown` | What a run has left to write is all that its book may lack of what the row promises: a run that dies before its last write has not stamped the row, and one that overlaps only adds. A retry takes the row away, never what it promised. |
| | `HierarchyStaysAcyclic` | A pair is inserted behind its own reachability query, in one statement. The rows below a tag are the least set closed under the tree, reached in at most as many rounds as there are tags (induction over the rounds and over their number); adding an edge to a set that does not reach back adds no cycle. |
| | `ProfilesStayTrue` | While a stage has writes left, its cache row is not current, or what it has already replaced is what it will stamp; a stage deletes only rows of its own source, kind and book, so another stage's answer stays on show; and the list kept by `Clamp` has no more elements than the cap (or one), by induction along the fold. |
| | `SweptWhenGone` | A row about to go out of use is of a file that is off the disk, and stays off: what is put on the disk is an output, and no output is a source. A reference is that of the file in the encoder's hands or of a run that ended without giving it back: by a crash, or because the release itself failed. |
| | `HistoryStaysWhole` | Row ids are given out in order, so the newest row of a tag has the greatest time and id; retention deletes a row only behind a newer one by that order, also in one second. The theorem is about windows in the documented order; in the other one it is false (section 5). |
| | `TranscriptsStayWhole` | A run's windows are computed from the files it read at its start, follow one another, and none crosses a file; what it has listened to is the first of them, so what it writes at the end is all of them; and it writes only if some gave text. Rests on sums along a list (induction over its length). |
| | `StageTypesHold` | The type bound of each of the six models, inductive with what its steps read: the rows that a run holds in hand, the answers a model gave, the sequences of a cache, the counters of the bounds. |
| `LibraryProofs` | `ListeningTypes`, `NewestReportWins` | As long as no two reports were under way at once, the one under way has read the row that is still there, so that the row's stamp is the newest and stays so. |
| | `CallsAreAnsweredOnce` | One box per call: each phase of a call says who may still use the sender, and a callback that ends the call is the only one that frees it. For a stream, what was sent is what the snapshots have in common and more: the deltas put together end with the last snapshot. |
| | `SortInvariant`, `OrderIsSound`, `BuildIsSound` | While `Dag::build` runs, the in-degree of a stage is the number of its requirements that are not taken yet plus the times its list repeats one. So what is ready has all its requirements behind it; when nothing is ready and stages are left, either one waits for another that is left, or one repeats a requirement. |
| | `ReplayIsDoneOnce` | Each insertion has a request, and a row whose request has inserted is told apart by a second pass because the collection it created is there under its name and id; the rows beside a column are written in the statement that writes the column. |
| | `WhatIsKeptStays` | Two kinds of step take rows: revoking, replacing and cascading, which ask that a code was not used and reach no operation, and the commit of a clean. That a hint is never held (`HintsAreShut`) is the invariant needed beside the types. |
| | `CountersCount` | Of every step that adds, moves or removes a pair: the change of the counter is the change of the cardinality. A scan in progress has in hand what it will add. |
| | `PlayersGetTheFile` | A range that is answered lies inside the file it is cut from, so appending it continues the bytes in order while the file rests. |
| | `RemediesCure` | Table by table: the rows a remedy touches include those the check counts, and it leaves no new one. |
| | `PagesTiled` | The rows of a listing are a finite set in a strict order, ties broken by the id. In such an order a row's rank is the number of rows before it, and every rank below the size is taken once (induction over the size), so the list has each row once; pages are stretches of it that follow one another, and the count is the length. |
| | `CoverIsOfItem` | Both queries put the same files in the same order, so the first of one is the first of the other. |
| | `CopiesAreListed` | A run that completes leaves the rows of its recording at each offset, and stays `whole` until another file turns up; the group of an offset is then that of all books with the same window, both copies among them. |
| | `TypesHold` | Each model's type bound, inductive with the facts above; for `Companions` and `Upkeep` with bounds on what is counted, for `Replay` with the types of a row in the journal. |
| | `RecordsStayTrue` | A step of the composition is a step of one model and leaves the others where they are; so each model's theorem holds in `MCLibrary`, and with them `RecordsTrue`. |

Induction over data is within reach where the induction is over a set:
`CommonProofs` derives from the library's `WFMin` that a set of numbers that has 0
and goes from each number to the next has all of them, and a property is proved by
naming the set of the numbers that have it. The proofs about lists, rounds, folds
and orders go this way; the recursion itself is a recursive function, of which the
prover uses its defining equation at one place.

What the proofs changed in the models: the type bound of `Companions` is about the
counters of files that stayed in use, since another one may exceed the number of
companions; the people of `Identity` are bounded by the spellings there are
(`1 .. Cardinality(Names) + MaxNameEdits`) and no longer by the runs of the instance;
`NamesFound` had an antecedent it did not need; the phrases of `Sounds` were one list,
so that a name said earlier took precedence over a phrase; constants got the
assumptions that the theorems rest on.

What stays with TLC:

* liveness under fairness and ENABLED, which the prover does not reach:
  `BooksSettle`, `OrphansReaped`, `HandlersFinish`, `RowsSettle`, `WaitingIsServed`,
  `EveryoneServed`;
* `CutsAligned`: the chapters after several cuts are a fold of moves over rows in the
  order of their ids, and the audio's places a sum over a set; a proof would have to
  show that the two agree for any order of the files, and has not been written;
* of the collection `ViewsTrue`, `FiguresAddUp` and `ReportsWhole`: what some twenty
  breakdowns and the pages of a shop add up to. A proof is conceivable for each and
  has not been written; the other parts are proved, each as a theorem of its own,
  and the collection as a whole therefore has none.

## 5. Findings and observations

Three runs show that the code does not do what the repository says of it; each
quotes its line in `PROJECT.json`.

1. `NewerWriteStays`: the retry endpoint's drift check and its UPDATE are two
   statements; a PATCH in between is overwritten by the older intent.
2. `GenresPromoted`: `promote_genres` flags one winner per genre, and an index
   allows one per field: a book of two genres fails promote-consensus for ever.
3. `AudioKept`: the sweep of sources takes every source of a book that has an m4b,
   not the source the m4b was made from; the recording of a source that failed,
   or is still to be converted, is then nowhere.

### Defined, seen violated, without a run of their own

The definitions exist, and TLC finds them violated when they are put in place of
the properties of the module's run (`WholeBookRead` with `MaxTokens = 7`,
`CountsSumUp` with `MaxTurns = 3`, `ListedOnce` with a third product and `MaxAsked = 4`). Two more,
`Identity!DifferentIdsApart` and `Provenance!LatestEditLearned`, hold on the instance
of `CatalogueSafety`; the run's own properties say more.

| Property | What the code does |
|---|---|
| `Pipeline!RunningRowsReaped` | after a crash a row stays `running`, and its stage is never run again for that book |
| `Pipeline!RunnableStagesReached` | the sweep submits a book's first eligible stage, and a failed stage is eligible; a root that keeps failing takes every turn |
| `Journal!RefusedRowsFailed` | an error of `books_patch` before the commit leaves the rows pending, to be applied at the next start although the client was told no |
| `Scan!TrueRowsAlwaysStay` | a scan that hashed a file before it was renamed takes the row, which another scan has moved by then, back to the path the file had; the next scans put it right |
| `Scan!DirectoryIsOneBook` | a file added to a directory that is a book, and met first by the walk, becomes a second book |
| `Speech!FollowersFollow` | the stages behind `transcribe-head-tail` end `skipped` while the model is missing and are not run when it lands |
| `Identity!SettledStays` | with two spellings of one owner on record a settled name is ambiguous again; the operator's link goes, and the settled row is not shown in the list (`names.rs:527-529` says otherwise) |
| `Provenance!ResetClears` | a retry leaves the series candidates of its stage (`stage.rs:115` says the output is rolled back) |
| `Chapters!TocStays` | a retry replaces a source's flagged rows by unflagged ones and the winner is not picked again |
| `Extractors!RefusedPolishUnused` | a polish in another language is found by readers of the polished transcript |
| `TagWrites!HistoryUnbrokenAnyWindows`, with `LatestDays = 0` and `IntermediateDays = 1` | the two windows of retention are documented in an order (`tunables.rs:1061-1071`) that nothing validates (`1199-1221`): in the other one the newest row of a field goes before an older one, and the history has a hole |
| `TagWrites!EveryWriteAudited` | a crash between file and row, or a row that cannot be written, leaves a write without its row |
| `Audiologo!AppliedMeansApplied`, `DetectedCutsAligned` | the book's status outlives its rows; an outro in the last of several files moves chapters long before it |
| `Audiologo!ChaptersFollowOn` | an approved cut moves the chapters behind it in one UPDATE and the ends of those around it in a second (`audiologo_apply.rs:307-341`), which sees a chapter that the first has moved into the trim's window: its end moves twice, against `audiologo_apply.rs:118-119`, and a gap opens behind a chapter that begins right after the intro |
| `Audiologo!CutsAlignedInAnyOrder` | the cut of an intro is not subtracted when a later cut of the same file is mapped to book time (`audiologo_apply.rs:279-303` counts the files before only): a chapter behind the later cut stays where it is. So it is for a book of one file with an intro and an outro |
| `Upkeep!ManualKeepsCadence` | a run by hand is recorded as any run (`background_task_run` calls `execute_task`), so the next run in the loop is counted from it, although `api/background.rs:63-64` says that it "does NOT reset the natural cadence"; `TasksComeRound` therefore excepts runs by hand that go on ending |
| `Companions!CountsSumUp`, `DictIsOfPair` | the counter misses what changes between pairings; a dictionary survives its EPUB |
| `Excerpts!WholeBookRead` | the name dictionary is that of the first document of the spine |
| `Sounds!OnlyCopiesListed` | windows of an old duration stay, and make two books look like copies |
| `Figures!ListedOnce` | a product is listed twice when the shop changes between pages |
| `Shelf!TotalIsTrue` | a file that a tag write has changed is served with its old size |
| `DagBuild!CycleMeansCycle` | a stage that lists a requirement twice is reported as a cycle |

### Seen while modelling

Pipeline, journal, scan, speech:

* `KNOWN_STAGE_NAMES` must list every stage; a stage outside it looks never
  started to the sweep.
* The reaper reads two databases one after the other; a book inserted in
  between loses its rows (harmless: they are recomputed).
* A trashed book's dependents are still dispatched; the sweep skips it.
* Two pending rows `u -> v` and `v -> u` hide drift from a replay that judges
  by value. An operation that landed ends `failed` when its recovery finds the
  intent already there, and a row that its Replayer skips counts as a real
  failure in the doctor's failed-ops.
* Copies of one file share a row that each scan moves to the copy it meets
  last; an empty scan report does not mean that the library is covered when
  scans overlap. A collection can be named after the parent of the scan root.
* A crash between claim and verdict leaves a locale `installing` for ever; a
  block written between the SELECT and the DELETE of `take_blocked_books`, which
  its comment calls one transaction, is lost; the oldest locale is always tried
  first, however often it has failed.

Catalog and stages:

* An operator's edits carry the stage `api-user-edit`, which the doctor's
  provenance-stale-stages does not know; its remedy would rename or delete them.
* `canonical_author.rs` says that an author whose description was empty is not
  asked again; `fetch_author_target` asks whenever the bio is NULL or blank, and a
  second lookup in flight can overwrite a bio by NULL.
* A retry of the spoiler-free series summary deletes no row of `ai_cache`
  (`cache_keys_for_stage` has none for it), so the stage skips again.
* Offsets of a jingle that is found in text are those of the lowercased text,
  which can be longer. A name that an operator resolves to is stored untrimmed
  (`names.rs:614`); one that ends in a blank would be placed one segment too far.
* A match of bookends with a bound on the gap takes the leftmost best head, and
  can miss the pair that a later one makes.

Library:

* Two reports of devices at once: the row shows either of them.
* The cap of the back-off also shortens a base interval above 24 hours.
* Search falls back to near matches when the page is empty, not when the result is;
  a saved query's count ignores the query's own limit; its pin cannot be cleared
  by JSON null; pages by offset skip or repeat rows under changes.
* An empty snapshot ends a stream of a language model, where `aborg_fm.swift:603` wants
  exactly one terminal callback; `CallsEndOnce` excepts such streams. Of a stream's
  chunks it says that, put together, they end with Swift's last snapshot (`IsSuffix`),
  which is weaker than "chunks together form the complete response"
  (`foundation-models/src/lib.rs:441-443`): that is true only of snapshots that grow.
* Some lists are ordered by keys that are not unique, and SQL leaves the order of
  ties open. `Browse` breaks every tie by the id; of those lists `PagesTile` and
  `PagesTiled` hold only as far as SQLite does the same from page to page.
* Purging the orphan members of collections can make empty-collections warn.
* `decode_entity` slices at byte 16, which may lie inside a character; `strip_html`
  keeps CDATA; the newline arm of `is_sentence_terminator` is never reached.
* A companion that no book claims keeps its old pair; hints are recorded for files
  that are paired; LRF is accepted and never detected.
* The Android listing of an author drops the last page's rows (no caller); reports
  count soft-deleted books as owned, and the shelf serves them.
* In the pies of decades and years the oldest are "Others" and "unknown" comes
  first.

## 6. Not modelled

* *Pairing, tokens, sessions, rate limits*: who may call an operation is decided
  before the handler that a model starts with; nothing in the models depends on
  it, and it deserves a review of its own kind, with the clock, the hashes and
  the transport it rests on.
* *Archive and covers, playlists and transcript views*: a file written once, an
  image fetched once, one SELECT rendered; no state that a later step reads.
* *Audio and tag reading, recognisers, language models, encoders, Apple's
  frameworks, provider HTTP, EPUB, ZIP and JSON parsers*: inputs of the models. A
  stage's own work is its outcome and what it writes.
* *Databases and configuration*: migrations appear as the constraints the models
  use (primary keys, UNIQUE, CHECK, foreign keys). SQLite is assumed to do
  what it promises: a statement outside a transaction is atomic and durable.
* *Start-up*: the parts the models depend on (replay of the journal, channels,
  loops, registries) are theirs; lock file, logging, HTTP set-up are I/O.
* *CLI, tools, web UI*: clients of the API, without state of the system.
* *Code without a caller in the daemon*: `crates/dispatcher`, the catalog's tiers,
  `transcript-correct`, `series_gaps` and `release_state`, `mark_reversed`. `companion_scan.rs`
  has no caller either; it is modelled as it stands, since the handlers, the counts
  and the dictionary that work on its rows are called.
* Within modelled components: wording, metrics and logging; in `Speech` the tail
  window, the language candidates and books too short to transcribe (a book has
  one transcript per stage); in `Replay` membership and the order of members; in
  `Doctor` the checks of the host; in `Scan` titles and metadata columns.
  `PROJECT.json` says so component by component.

## 7. What remains

The behaviour of every component that keeps state and is called by the daemon is
modelled, apart from access control. What would add most next:

1. Proofs of `FiguresAddUp` and `ReportsWhole` (`Figures`), and with them `ViewsTrue`.
2. `Scan` composed with `TagWrites`: a tag write changes the hash of a file whose row
   the scan keeps (now two of the scan's `World` actions).
3. Access control, reviewed and modelled on its own.
