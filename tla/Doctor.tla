------------------------------- MODULE Doctor -------------------------------
(* GET /doctor: what each check reads of the tables and the machine, and     *)
(* what the remedies that it names do (api/doctor, api/library_roots).  A    *)
(* check reads one table, so a behaviour fills one: its rows are the         *)
(* Records, each in the shape of that table.                                 *)
EXTENDS Common, Sequences

CONSTANTS
  Records,   \* rows of the table
  Budget,    \* every soft budget, in rows
  MaxDetails \* EMPTY_COLLECTIONS_MAX_DETAILS

VARIABLES
  table,     \* the table that the behaviour fills
  filled,    \* its rows
  binned,    \* books that are soft-deleted
  machine,   \* the two databases, the system's models, the cover directory
  remedied   \* the check whose remedy was the last step; a history variable

doVars == <<table, filled, binned, machine, remedied>>

ASSUME DoctorAssumption == IsFiniteSet(Records) /\ Budget \in Nat /\ MaxDetails \in Nat \ {0}

RegisteredKinds == {"book-edit", "rating"}
KnownStages == {"catalog-enrich", "tag-read"}
RowOf(t) ==
  CASE t = "operation_journal" ->
         [kind : RegisteredKinds \cup {"purge"}, progress : {"pending", "done", "failed"},
          why : OptionOf({"crash", "other"})]
    [] t = "book_companions" -> [paired : BOOLEAN]
    [] t = "library_roots" ->
         [active : BOOLEAN, disk : {"dir", "other", "gone"}, free : {"ample", "low", "unknown", "empty"}]
    [] t = "ai_cache" -> [transient : BOOLEAN]
    [] t = "asin_learnings" -> [old : BOOLEAN]
    [] t = "tokens" -> [used : BOOLEAN, old : BOOLEAN, revoked : BOOLEAN]
    [] t = "pairing_codes" -> [used : BOOLEAN, old : BOOLEAN]
    [] t = "book_field_provenance" ->
         [book : Books, stage : KnownStages \cup {"api-user-edit", "renamed"}, winner : BOOLEAN]
    [] OTHER -> [audible : OptionOf({"x"}), members : SUBSET Books]
Tables ==
  {"operation_journal", "book_companions", "library_roots", "ai_cache", "asin_learnings", "tokens",
   "pairing_codes", "book_field_provenance", "book_collections"}
DbStates == {"ok", "corrupt", "down"}

DoInit ==
  /\ table \in Tables \cup {"machine"} /\ filled = [r \in Records |-> Nothing] /\ binned = {}
  /\ machine = [library |-> "ok", ephemeral |-> "ok", llm |-> "available", speech |-> "installed",
                covers |-> "writable"]
  /\ remedied = Nothing

-----------------------------------------------------------------------------
(* The checks                                                                *)

Stored(t) == IF table = t THEN {r \in Records : filled[r] # Nothing} ELSE {}
OkIf(good) == IF good THEN "ok" ELSE "warning"
(* A query that fails is a failure of its check, and of no other.            *)
Asking(db, verdict) == IF machine[db] = "down" THEN "failure" ELSE verdict

LlmCheck ==
  CASE machine.llm = "available" -> "ok" [] machine.llm = "unavailable" -> "warning"
    [] machine.llm = "unreachable" -> "failure"
SpeechCheck ==
  CASE machine.speech = "installed" -> "ok" [] machine.speech = "supported" -> "warning"
    [] machine.speech = "unreachable" -> "failure"
DbIntegrityCheck ==
  IF machine.library = "ok" /\ machine.ephemeral = "ok" THEN "ok" ELSE "failure"
CoverCacheWritableCheck == IF machine.covers = "writable" THEN "ok" ELSE "failure"

PendingOps == {r \in Stored("operation_journal") : filled[r].progress = "pending"}
JournalCheck == Asking("library", OkIf(PendingOps = {}))
FailedOpsCheck ==
  Asking("library", OkIf({r \in Stored("operation_journal") :
                            filled[r].progress = "failed" /\ filled[r].why # "crash"} = {}))
PendingWithoutReplayerCheck ==
  Asking("library", OkIf({r \in PendingOps : filled[r].kind \notin RegisteredKinds} = {}))
OrphanCompanionsCheck ==
  Asking("library", OkIf(\A r \in Stored("book_companions") : filled[r].paired))

Active == {r \in Stored("library_roots") : filled[r].active}
LibraryRootsReachableCheck == Asking("library", OkIf(\A r \in Active : filled[r].disk = "dir"))
(* statvfs that fails skips the root; a volume of size zero is not counted.  *)
ScanRoots ==
  [pressured |-> {r \in Active : filled[r].free = "low"}, skipped |-> {r \in Active : filled[r].free = "unknown"}]
DiskPressureCheck == Asking("library", OkIf(ScanRoots.pressured = {}))

AiCacheSizeCheck == Asking("library", OkIf(Cardinality(Stored("ai_cache")) <= Budget))
StaleAsinLearningsCheck ==
  LET old == {r \in Stored("asin_learnings") : filled[r].old}
  IN  Asking("library", OkIf(/\ Cardinality(Stored("asin_learnings")) <= 2 * Budget
                             /\ Cardinality(old) <= Budget))
\* Mutant: the query has lost its WHERE revoked_at IS NULL.
StaleTokensAll(used) == {r \in Stored("tokens") : filled[r].old /\ filled[r].used = used}
StaleTokens(used) == {r \in Stored("tokens") : ~filled[r].revoked /\ filled[r].old /\ filled[r].used = used}
TokensUnusedCheck ==
  Asking("library", OkIf(\A used \in BOOLEAN : Cardinality(StaleTokens(used)) <= Budget))
PairingCodesStaleCheck ==
  Asking("ephemeral",
    OkIf(Cardinality({r \in Stored("pairing_codes") : ~filled[r].used /\ filled[r].old}) <= Budget))

ProvenanceWinnerConflictCheck ==
  LET winners == {r \in Stored("book_field_provenance") : filled[r].winner}
  IN  Asking("library", OkIf(\A r, q \in winners : filled[r].book = filled[q].book => r = q))
StaleStages == {filled[r].stage : r \in Stored("book_field_provenance")} \ KnownStages
ProvenanceStaleStagesCheck == Asking("library", OkIf(StaleStages = {}))

Empty == {r \in Stored("book_collections") : filled[r].members = {}}
EmptyCollectionsCheck == Asking("library", OkIf(Empty = {}))
OrphanCollectionMembersCheck ==
  Asking("library", OkIf(\A r \in Stored("book_collections") : filled[r].members \cap binned = {}))
CollectionsDuplicateAudibleIdCheck ==
  Asking("library", OkIf(\A r, q \in Stored("book_collections") :
    filled[r].audible # Nothing /\ filled[r].audible = filled[q].audible => r = q))

(* One report for each check, in the order of registration.                  *)
CheckNames ==
  {"llm", "speech", "journal", "failed-ops", "orphan-companions", "library-roots-reachable",
   "db-integrity", "ai-cache-size", "stale-asin-learnings", "pending-without-replayer",
   "tokens-unused", "pairing-codes-stale", "cover-cache-writable", "disk-pressure",
   "provenance-winner-conflict", "provenance-stale-stages", "empty-collections",
   "orphan-collection-members", "collections-duplicate-audible-id"}
DoctorOne(name) ==
  CASE name = "llm" -> LlmCheck [] name = "speech" -> SpeechCheck
    [] name = "journal" -> JournalCheck [] name = "failed-ops" -> FailedOpsCheck
    [] name = "orphan-companions" -> OrphanCompanionsCheck
    [] name = "library-roots-reachable" -> LibraryRootsReachableCheck
    [] name = "db-integrity" -> DbIntegrityCheck [] name = "ai-cache-size" -> AiCacheSizeCheck
    [] name = "stale-asin-learnings" -> StaleAsinLearningsCheck
    [] name = "pending-without-replayer" -> PendingWithoutReplayerCheck
    [] name = "tokens-unused" -> TokensUnusedCheck
    [] name = "pairing-codes-stale" -> PairingCodesStaleCheck
    [] name = "cover-cache-writable" -> CoverCacheWritableCheck
    [] name = "disk-pressure" -> DiskPressureCheck
    [] name = "provenance-winner-conflict" -> ProvenanceWinnerConflictCheck
    [] name = "provenance-stale-stages" -> ProvenanceStaleStagesCheck
    [] name = "empty-collections" -> EmptyCollectionsCheck
    [] name = "orphan-collection-members" -> OrphanCollectionMembersCheck
    [] OTHER -> CollectionsDuplicateAudibleIdCheck
DoctorAll == [name \in CheckNames |-> DoctorOne(name)]

-----------------------------------------------------------------------------
(* What happens to the rows                                                  *)

(* The unique indexes on winners and on audible ids refuse a second row.     *)
Allowed(new) ==
  \A r, q \in {x \in Records : new[x] # Nothing} :
    \/ r = q
    \/ table = "book_field_provenance" /\ ~(new[r].winner /\ new[q].winner /\ new[r].book = new[q].book)
    \/ table = "book_collections" /\ (new[r].audible = Nothing \/ new[r].audible # new[q].audible)
    \/ table \in Tables \ {"book_field_provenance", "book_collections"}
Fresh(row) ==
  CASE table = "operation_journal" -> row.progress = "pending" /\ row.why = Nothing
    [] table \in {"asin_learnings", "pairing_codes"} -> ~row.old
    [] table = "tokens" -> ~row.used /\ ~row.old /\ ~row.revoked
    [] OTHER -> TRUE
RowComes(r) ==
  /\ table \in Tables /\ filled[r] = Nothing
  /\ \E row \in RowOf(table) : Fresh(row) /\ filled' = [filled EXCEPT ![r] = row]
  /\ Allowed(filled') /\ remedied' = Nothing /\ UNCHANGED <<table, binned, machine>>
(* An operation ends, a companion is paired, a volume changes, a token is    *)
(* used, a row grows old.                                                    *)
RowChanges(r) ==
  /\ table \in Tables /\ filled[r] # Nothing
  /\ \/ /\ table = "operation_journal" /\ filled[r].progress = "pending"
        /\ \/ filled' = [filled EXCEPT ![r].progress = "done"]
           \/ filled' = [filled EXCEPT ![r].progress = "failed", ![r].why = "other"]
     \/ table = "book_companions" /\ \E p \in BOOLEAN : filled' = [filled EXCEPT ![r].paired = p]
     \/ /\ table = "library_roots"
        /\ \E row \in RowOf(table) : filled' = [filled EXCEPT ![r] = [row EXCEPT !.active = filled[r].active]]
     \/ table \in {"tokens", "pairing_codes"} /\ filled' = [filled EXCEPT ![r].used = TRUE]
     \/ table \in {"asin_learnings", "tokens", "pairing_codes"} /\ filled' = [filled EXCEPT ![r].old = TRUE]
     \/ /\ table = "book_collections"
        /\ \E row \in RowOf(table) : filled' = [filled EXCEPT ![r] = row]
  /\ filled' # filled /\ Allowed(filled') /\ remedied' = Nothing /\ UNCHANGED <<table, binned, machine>>
(* books_delete and books_restore leave the memberships; a forced delete     *)
(* takes them with the book.                                                 *)
BookHidden(b) ==
  /\ table = "book_collections"
  /\ \/ binned' = binned \cup {b} /\ binned' # binned /\ UNCHANGED filled
     \/ binned' = binned \ {b} /\ binned' # binned /\ UNCHANGED filled
     \/ /\ binned' = binned \ {b}
        /\ filled' = [r \in Records |->
             IF filled[r] = Nothing THEN Nothing ELSE [filled[r] EXCEPT !.members = @ \ {b}]]
  /\ remedied' = Nothing /\ UNCHANGED <<table, machine>>
MachineChanges ==
  /\ table = "machine"
  /\ \/ \E db \in {"library", "ephemeral"}, s \in DbStates : machine' = [machine EXCEPT ![db] = s]
     \/ \E s \in {"available", "unavailable", "unreachable"} : machine' = [machine EXCEPT !.llm = s]
     \/ \E s \in {"installed", "supported", "unreachable"} : machine' = [machine EXCEPT !.speech = s]
     \/ \E s \in {"writable", "refused"} : machine' = [machine EXCEPT !.covers = s]
  /\ machine' # machine /\ remedied' = Nothing /\ UNCHANGED <<table, filled, binned>>

-----------------------------------------------------------------------------
(* The remedies                                                              *)

Remedy(name, t) == table = t /\ remedied' = name /\ UNCHANGED <<table, machine>>
Drop(S) == filled' = [r \in Records |-> IF r \in S THEN Nothing ELSE filled[r]]

(* A restart recovers every pending row: a replay, a refusal, or neither.    *)
RestartDaemon(name) ==
  /\ Remedy(name, "operation_journal") /\ UNCHANGED binned
  /\ filled' \in
       {[r \in Records |-> IF r \in PendingOps
          THEN [filled[r] EXCEPT !.progress = IF f[r] = "retried" THEN "done" ELSE "failed",
                               !.why = CASE f[r] = "retried" -> Nothing [] f[r] = "skipped" -> "other"
                                         [] OTHER -> "crash"]
          ELSE filled[r]]
        : f \in {g \in [Records -> {"retried", "skipped", "error"}] :
                   \A r \in PendingOps : filled[r].kind \notin RegisteredKinds => g[r] = "error"}}
(* DELETE /library_roots/{id}: the row stays, out of use.                    *)
LibraryRootsDelete ==
  /\ Remedy("library-roots-reachable", "library_roots") /\ UNCHANGED binned
  /\ filled' = [r \in Records |->
       IF r \in Active /\ filled[r].disk # "dir" THEN [filled[r] EXCEPT !.active = FALSE] ELSE filled[r]]
SpaceFreed ==
  /\ Remedy("disk-pressure", "library_roots") /\ UNCHANGED binned
  /\ filled' = [r \in Records |-> IF r \in ScanRoots.pressured THEN [filled[r] EXCEPT !.free = "ample"] ELSE filled[r]]
(* POST /library_roots with the path of a row out of use brings it back.     *)
LibraryRootsCreate(r) ==
  /\ table = "library_roots" /\ filled[r] # Nothing /\ ~filled[r].active /\ filled[r].disk = "dir"
  /\ filled' = [filled EXCEPT ![r].active = TRUE] /\ remedied' = Nothing
  /\ UNCHANGED <<table, binned, machine>>
TokensRevoked ==
  /\ Remedy("tokens-unused", "tokens") /\ UNCHANGED binned
  /\ filled' = [r \in Records |->
       IF r \in StaleTokens(TRUE) \cup StaleTokens(FALSE) THEN [filled[r] EXCEPT !.revoked = TRUE] ELSE filled[r]]
(* aborg clean queue --commit                                                *)
CleanQueue ==
  /\ Remedy("pairing-codes-stale", "pairing_codes") /\ UNCHANGED binned
  /\ Drop({r \in Stored("pairing_codes") : ~filled[r].used /\ filled[r].old})
RowsDeleted ==
  /\ UNCHANGED binned
  /\ \/ Remedy("stale-asin-learnings", "asin_learnings")
        /\ Drop({r \in Stored(table) : filled[r].old}) /\ Cardinality(Stored(table)) <= 2 * Budget
     \/ Remedy("provenance-stale-stages", "book_field_provenance")
        /\ Drop({r \in Stored(table) : filled[r].stage \in StaleStages})
(* The remedy of a collection is listed for the first ones only.             *)
EmptyDeleted ==
  /\ Empty # {}
  /\ Remedy(IF Cardinality(Empty) <= MaxDetails THEN "empty-collections" ELSE Nothing, "book_collections")
  /\ UNCHANGED binned
  /\ \E S \in SUBSET Empty :
       /\ Cardinality(S) = IF Cardinality(Empty) < MaxDetails THEN Cardinality(Empty) ELSE MaxDetails
       /\ Drop(S)
(* Either the books come back, or their memberships go.                      *)
MembersCured ==
  /\ Remedy("orphan-collection-members", "book_collections")
  /\ \/ binned' = {} /\ UNCHANGED filled
     \/ /\ UNCHANGED binned
        /\ filled' = [r \in Records |->
             IF filled[r] = Nothing THEN Nothing ELSE [filled[r] EXCEPT !.members = @ \ binned]]

DoStep ==
  \/ \E r \in Records : RowComes(r) \/ RowChanges(r) \/ LibraryRootsCreate(r)
  \/ \E b \in Books : BookHidden(b)
  \/ MachineChanges
  \/ \E name \in {"journal", "pending-without-replayer"} : RestartDaemon(name)
  \/ LibraryRootsDelete
  \/ SpaceFreed \/ TokensRevoked \/ CleanQueue \/ RowsDeleted \/ EmptyDeleted \/ MembersCured
DoSpec == DoInit /\ [][DoStep]_doVars

-----------------------------------------------------------------------------
DoTypeOK ==
  /\ table \in Tables \cup {"machine"} /\ binned \subseteq Books /\ remedied \in OptionOf(CheckNames)
  /\ table \in Tables => filled \in [Records -> OptionOf(RowOf(table))]
  /\ DoctorAll \in [CheckNames -> {"ok", "warning", "failure"}]

(* A check that names a remedy passes once the remedy is carried out: what   *)
(* the check counts is what a restart settles, a clean or a request removes, *)
(* and the two are different queries.                                        *)
RemediesClear == remedied # Nothing => DoctorOne(remedied) = "ok"
=============================================================================
