------------------------------- MODULE Journal -------------------------------
(***************************************************************************)
(* The operation journal: PATCH handlers that write a 'pending' row before *)
(* their mutation and settle it afterwards (journal_capture.rs, progress.rs,*)
(* books_patch, collections_patch), the recovery pass at start-up, and the *)
(* operator's retry endpoint, which replay pending rows.                   *)
(*                                                                         *)
(* One target (a book or a collection) with several journaled fields.  The *)
(* journal and the target are durable; handlers and replays are lost by a  *)
(* crash.  Every SELECT and every transaction is a step of its own.        *)
(***************************************************************************)
EXTENDS Naturals, Sequences

CONSTANTS
  Clients,      \* concurrent PATCH requests
  Fields,       \* journaled columns of the target
  Values,
  Initial,      \* the target before the first request
  Requests,     \* the edits a client may send: sequences of [field, value],
                \* a field at most once
  Replayable,   \* fields whose op_kind has a Replayer
  Abandons,     \* books_patch: an error before the commit skips the finalize
  Deletes,      \* the target is a book: collections are never deleted
  Retries,      \* the operator may use the retry endpoint
  MaxRequests,  \* bound: PATCH requests
  MaxCrashes,   \* bound: crashes
  MaxErrors     \* bound: statements that fail

Edit == [field : Fields, value : Values]
Progress == {"pending", "done", "failed"}
Entry == [field : Fields, current : Values, intent : Values,
          progress : Progress]

ASSUME JournalAssumption ==
  /\ Values # {}
  /\ Initial \in [Fields -> Values]
  /\ Requests \subseteq Seq(Edit) \ {<<>>}
  /\ \A edits \in Requests : \A i, j \in DOMAIN edits :
       edits[i].field = edits[j].field => i = j
  /\ Replayable \subseteq Fields
  /\ Abandons \in BOOLEAN /\ Deletes \in BOOLEAN /\ Retries \in BOOLEAN
  /\ MaxRequests \in Nat /\ MaxCrashes \in Nat /\ MaxErrors \in Nat

VARIABLES
  phase,     \* of the daemon: up, down, recovering
  exists,    \* the target row is still there
  target,    \* its journaled columns
  journal,   \* operation_journal, an op_id is a position
  handler,   \* the PATCH requests in progress
  replay,    \* the recovery pass or the retry request in progress
  begun,     \* requests so far
  crashes,   \* so far
  errors,    \* failed statements so far
  written,   \* history: ops whose mutation has reported success
  refused,   \* history: ops whose client was answered with an error
  author     \* history: the op each column was last written by

vars == <<phase, exists, target, journal, handler, replay, begun, crashes,
          errors, written, refused, author>>
world == <<exists, target, written, author>>
counters == <<begun, crashes, errors>>

-----------------------------------------------------------------------------

Ops == DOMAIN journal
Pending(log) == {o \in DOMAIN log : log[o].progress = "pending"}

AnyValue == CHOOSE v \in Values : TRUE
Resting == [pc |-> "idle", edits |-> <<>>, ops |-> <<>>, current |-> AnyValue,
            landed |-> FALSE]
NoReplay == [pc |-> "idle", todo |-> {}, op |-> 0, verdict |-> "failed"]

Init ==
  /\ phase = "up"
  /\ exists = TRUE
  /\ target = Initial
  /\ journal = <<>>
  /\ handler = [c \in Clients |-> Resting]
  /\ replay = NoReplay
  /\ begun = 0
  /\ crashes = 0
  /\ errors = 0
  /\ written = {}
  /\ refused = {}
  /\ author = [f \in Fields |-> 0]

\* Mutant: the UPDATE without its AND progress = 'pending'
MarkAny(o, progress) == journal' = [journal EXCEPT ![o].progress = progress]

\* mark_done and mark_failed: UPDATE ... WHERE progress = 'pending'
Mark(o, progress) ==
  journal' = IF journal[o].progress = "pending"
             THEN [journal EXCEPT ![o].progress = progress]
             ELSE journal

Fault == errors < MaxErrors /\ errors' = errors + 1

-----------------------------------------------------------------------------
(* A PATCH request *)

\* 404 when the target is gone; otherwise capture begins
Begin(c, edits) ==
  /\ phase = "up"
  /\ handler[c].pc = "idle"
  /\ begun < MaxRequests
  /\ begun' = begun + 1
  /\ handler' = IF exists
                THEN [handler EXCEPT ![c] = [Resting EXCEPT !.pc = "read",
                                                            !.edits = edits]]
                ELSE handler
  /\ UNCHANGED <<phase, world, journal, replay, crashes, errors, refused>>

\* The field whose capture is next
NextEdit(h) == h.edits[Len(h.ops) + 1]

\* The handler answers with an error; what it has recorded stays pending
Abandon(c) ==
  /\ handler' = [handler EXCEPT ![c] = Resting]
  /\ refused' = refused \cup {handler[c].ops[i] : i \in DOMAIN handler[c].ops}

\* The pre-read of one field
ReadCurrent(c) ==
  LET h == handler[c]
  IN  /\ h.pc = "read"
      /\ \/ /\ exists
            /\ handler' = [handler EXCEPT ![c].pc = "record",
                                          ![c].current = target[NextEdit(h).field]]
            /\ UNCHANGED refused
         \/ ~exists /\ Abandon(c)
      /\ UNCHANGED <<phase, world, journal, replay, counters>>

\* Mutant: the rowid before the INSERT
PreviousRowid == Len(journal)

\* last_insert_rowid of the INSERT into operation_journal
InsertedRowid == Len(journal) + 1

\* record_pending, before the mutation
Record(c) ==
  LET h == handler[c]
      edit == NextEdit(h)
  IN  /\ h.pc = "record"
      /\ \/ /\ journal' = Append(journal,
                                 [field |-> edit.field, current |-> h.current,
                                  intent |-> edit.value, progress |-> "pending"])
            /\ handler' = [handler EXCEPT
                             ![c].ops = Append(@, InsertedRowid),
                             ![c].pc = IF Len(h.ops) + 1 < Len(h.edits)
                                       THEN "read" ELSE "apply"]
            /\ UNCHANGED <<refused, errors>>
         \/ Fault /\ Abandon(c) /\ UNCHANGED journal
      /\ UNCHANGED <<phase, world, replay, begun, crashes>>

\* One transaction for all the edits.  A target deleted meanwhile makes it an
\* error, or, after the handler's check that it exists, an UPDATE of no row.
Apply(c) ==
  LET h == handler[c]
      edited(f) == \E i \in DOMAIN h.edits : h.edits[i].field = f
      at(f) == CHOOSE i \in DOMAIN h.edits : h.edits[i].field = f
      ops == {h.ops[i] : i \in DOMAIN h.ops}
  IN  /\ h.pc = "apply"
      /\ \/ /\ exists
            /\ target' = [f \in Fields |-> IF edited(f) THEN h.edits[at(f)].value
                                           ELSE target[f]]
            /\ author' = [f \in Fields |-> IF edited(f) THEN h.ops[at(f)]
                                           ELSE author[f]]
            /\ written' = written \cup ops
            /\ handler' = [handler EXCEPT ![c].pc = "settle",
                                          ![c].landed = TRUE]
            /\ UNCHANGED <<refused, errors>>
         \/ /\ ~exists
            /\ written' = written \cup ops
            /\ handler' = [handler EXCEPT ![c].pc = "settle",
                                          ![c].landed = TRUE]
            /\ UNCHANGED <<target, author, refused, errors>>
         \/ /\ (~exists /\ UNCHANGED errors) \/ Fault
            /\ UNCHANGED <<target, author, written>>
            /\ \/ Abandons /\ Abandon(c)
               \/ /\ handler' = [handler EXCEPT ![c].pc = "settle"]
                  /\ refused' = refused \cup ops
      /\ UNCHANGED <<phase, exists, journal, replay, begun, crashes>>

Verdict(landed) == IF landed THEN "done" ELSE "failed"

\* The finalize pass, one row per statement, best effort
Settle(c) ==
  LET h == handler[c]
  IN  /\ h.pc = "settle"
      /\ \/ Mark(Head(h.ops), Verdict(h.landed)) /\ UNCHANGED errors
         \/ Fault /\ UNCHANGED journal
      /\ handler' = [handler EXCEPT
                       ![c] = IF Len(h.ops) > 1
                              THEN [h EXCEPT !.ops = Tail(@)] ELSE Resting]
      /\ UNCHANGED <<phase, world, replay, begun, crashes, refused>>

\* DELETE ?force=true
Delete ==
  /\ Deletes
  /\ phase = "up"
  /\ exists
  /\ exists' = FALSE
  /\ UNCHANGED <<phase, target, journal, handler, replay, counters, written,
                 refused, author>>

-----------------------------------------------------------------------------
(* Replaying a pending row *)

\* The operator's retry: get, then 409 unless pending, 404 without Replayer
Retry(o) ==
  /\ Retries
  /\ phase = "up"
  /\ replay.pc = "idle"
  /\ o \in Pending(journal)
  /\ journal[o].field \in Replayable
  /\ replay' = [NoReplay EXCEPT !.pc = "read", !.op = o]
  /\ UNCHANGED <<phase, world, journal, handler, counters, refused>>

\* Mutant: compares with the intent in place of the recorded pre-state
MatchesIntent(o) == exists /\ target[journal[o].field] = journal[o].intent

NotDrifted(o) == exists /\ target[journal[o].field] = journal[o].current

\* try_replay reads the target and decides
ReplayReads ==
  LET o == replay.op
      e == journal[o]
  IN  /\ replay.pc = "read"
      /\ replay' = [replay EXCEPT
                      !.pc = IF e.field \in Replayable /\ NotDrifted(o)
                                /\ target[e.field] # e.intent
                             THEN "apply" ELSE "mark",
                      !.verdict = "failed"]
      /\ UNCHANGED <<phase, world, journal, handler, counters, refused>>

\* ... and, in another statement, writes it.  An error of the Replayer fails
\* the row in the recovery pass and leaves it pending in a retry.
ReplayApplies ==
  LET o == replay.op
      f == journal[o].field
  IN  /\ replay.pc = "apply"
      /\ \/ /\ target' = IF exists THEN [target EXCEPT ![f] = journal[o].intent]
                         ELSE target
            /\ author' = IF exists THEN [author EXCEPT ![f] = o] ELSE author
            /\ written' = written \cup {o}
            /\ replay' = [replay EXCEPT !.pc = "mark", !.verdict = "done"]
            /\ UNCHANGED errors
         \/ /\ (~exists /\ UNCHANGED errors) \/ Fault
            /\ replay' = IF phase = "recovering"
                         THEN [replay EXCEPT !.pc = "mark"] ELSE NoReplay
            /\ UNCHANGED <<target, author, written>>
      /\ UNCHANGED <<phase, exists, journal, handler, begun, crashes, refused>>

\* mark_done or mark_failed with the Replayer's decision.  A failed statement
\* ends the retry, and the whole recovery pass, with an error.
ReplayMarks ==
  /\ replay.pc = "mark"
  /\ \/ /\ Mark(replay.op, replay.verdict)
        /\ replay' = IF phase = "recovering"
                     THEN [replay EXCEPT !.pc = "next"] ELSE NoReplay
        /\ UNCHANGED <<phase, errors>>
     \/ /\ Fault
        /\ replay' = NoReplay
        /\ phase' = "up"
        /\ UNCHANGED journal
  /\ UNCHANGED <<world, handler, begun, crashes, refused>>

-----------------------------------------------------------------------------
(* Crash and recovery *)

Crash ==
  /\ phase # "down"
  /\ crashes < MaxCrashes
  /\ crashes' = crashes + 1
  /\ phase' = "down"
  /\ handler' = [c \in Clients |-> Resting]
  /\ replay' = NoReplay
  /\ UNCHANGED <<world, journal, begun, errors, refused>>

\* Mutant: only the rows a Replayer can take
ReplayablePending(log) ==
  {o \in DOMAIN log : log[o].progress = "pending"
                      /\ log[o].field \in Replayable}

\* The rows pending_batches lists
PendingBatches(log) == Pending(log)

RecoveryBegins ==
  /\ phase = "down"
  /\ phase' = "recovering"
  /\ replay' = [NoReplay EXCEPT !.pc = "next", !.todo = PendingBatches(journal)]
  /\ UNCHANGED <<world, journal, handler, counters, refused>>

\* In op_id order
RecoveryTakes(o) ==
  /\ replay.pc = "next"
  /\ o \in replay.todo
  /\ \A p \in replay.todo : o <= p
  /\ replay' = [replay EXCEPT !.pc = "read", !.op = o, !.todo = @ \ {o}]
  /\ UNCHANGED <<phase, world, journal, handler, counters, refused>>

RecoveryEnds ==
  /\ replay.pc = "next"
  /\ replay.todo = {}
  /\ phase' = "up"
  /\ replay' = NoReplay
  /\ UNCHANGED <<world, journal, handler, counters, refused>>

-----------------------------------------------------------------------------

HandlerStep(c) == ReadCurrent(c) \/ Record(c) \/ Apply(c) \/ Settle(c)

ReplayStep ==
  \/ ReplayReads
  \/ ReplayApplies
  \/ ReplayMarks
  \/ RecoveryBegins
  \/ \E o \in replay.todo : RecoveryTakes(o)
  \/ RecoveryEnds

Next ==
  \/ \E c \in Clients :
       \/ \E edits \in Requests : Begin(c, edits)
       \/ HandlerStep(c)
  \/ Delete
  \/ \E o \in Ops : Retry(o)
  \/ ReplayStep
  \/ Crash

Spec == Init /\ [][Next]_vars

\* A handler and a replay run to their end, and a daemon that is down is
\* started again; clients, the operator and crashes are free.
FairSpec ==
  /\ Spec
  /\ \A c \in Clients : WF_vars(HandlerStep(c))
  /\ WF_vars(ReplayStep)

-----------------------------------------------------------------------------
(* What the journal promises *)

HandlerType ==
  [pc : {"idle", "read", "record", "apply", "settle"}, edits : Seq(Edit),
   ops : Seq(Nat \ {0}), current : Values, landed : BOOLEAN]
ReplayType ==
  [pc : {"idle", "next", "read", "apply", "mark"}, todo : SUBSET Nat, op : Nat,
   verdict : {"done", "failed"}]

\* Every variable stays in its type.
TypeOK ==
  /\ phase \in {"up", "down", "recovering"}
  /\ exists \in BOOLEAN
  /\ target \in [Fields -> Values]
  /\ journal \in Seq(Entry)
  /\ handler \in [Clients -> HandlerType]
  /\ replay \in ReplayType
  /\ begun \in 0 .. MaxRequests
  /\ crashes \in 0 .. MaxCrashes
  /\ errors \in 0 .. MaxErrors
  /\ written \subseteq Nat
  /\ refused \subseteq Nat
  /\ author \in [Fields -> Nat]

\* A handler finishing late, a retry and a recovery pass may all try to settle
\* the same row: none ever unsettles it, and none calls 'done' what has not
\* been written.
Promise == INSTANCE Ledger WITH
             log <- [o \in DOMAIN journal |-> journal[o].progress]
LedgerKept == Promise!Spec

\* A recovery pass that reaches its end leaves no row pending, also when an
\* earlier pass crashed in the middle.
RecoveryClears ==
  [][phase = "recovering" /\ phase' = "up" /\ UNCHANGED errors
       => Pending(journal') = {}]_vars

\* With one client and no failed statements, whatever the daemon was doing
\* when it died, once or during the recovery itself: after recovery the last
\* operation of the journal is in effect.
LastIntentSurvives ==
  [][phase = "recovering" /\ phase' = "up" /\ journal # <<>>
       => LET e == journal[Len(journal)]
          IN  e.field \in Replayable /\ exists => target[e.field] = e.intent]_vars

\* As long as no statement fails and the target is not deleted, every row is
\* settled in the end: by its handler, by the operator's retry, or by a recovery
\* pass after a crash.
RowsSettle ==
  [](errors = 0 /\ exists) => <>[](phase = "up" /\ Pending(journal) = {})

-----------------------------------------------------------------------------
(* What the documentation says and the code does not do *)

\* journal_replayers.rs:43 - when somebody else changed the field after the
\* original request the replay refuses: it never overwrites a later write.
NewerWriteStays ==
  [][replay.pc = "apply" /\ replay'.pc = "mark" =>
       \A f \in Fields : target'[f] # target[f] => author[f] < replay.op]_vars

\* router.rs:1337 - after commit or rollback every pending row of the request is
\* marked done or failed: none is left pending behind an error answer.
RefusedRowsFailed ==
  \A o \in refused :
    journal[o].progress = "pending" =>
      \E c \in Clients : \E i \in DOMAIN handler[c].ops : handler[c].ops[i] = o
=============================================================================
