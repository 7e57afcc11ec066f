----------------------------- MODULE Artefacts -----------------------------
(* The files of one book, on disk and in book_files: decrypted, transcoded  *)
(* to m4b (aax-decrypt/stage, transcode/{stage,output_resolve}), reset by a *)
(* retry, and the sources swept away (transcode/cleanup).  A reader of a    *)
(* file holds a row of book_file_refs.  The pipeline runs one stage at a    *)
(* time; resets and sweeps are requests, and run beside it.                 *)
EXTENDS Common, Sequences, SequencesExt

CONSTANTS
  Files,    \* source files of the book, in file_id order
  FormatOf, \* their formats, NULL included
  StemOf,   \* their paths without the extension
  Jailed,   \* those inside an active library root
  MaxRuns,  \* bound: conversions started
  MaxSweeps \* bound: sweeps and resets

VARIABLES
  row,      \* book_files by path: none, active or inactive
  disk,     \* paths that exist
  audio,    \* the file whose recording an m4b holds
  refs,     \* live rows of book_file_refs
  convert,  \* the conversion under way
  sweep,    \* the sweep under way
  reset,    \* the reset under way
  cut,      \* runs that a crash or a failed release ended
  runs, sweeps

arVars == <<row, disk, audio, refs, convert, sweep, reset, cut, runs, sweeps>>

Sources == ToSet(Files)
Outputs == {StemOf[f] : f \in Sources}
Paths == Sources \cup Outputs
Converters == {"aax-decrypt", "transcode-m4b"}

Conversions ==
  [stage : Converters, run : Nat, todo : SUBSET Sources, ok : BOOLEAN,
   at : {"next", "encoding", "encoded", "registering"}]

ASSUME ArtefactsAssumption ==
  /\ Sources \cap Outputs = {} /\ Jailed \subseteq Sources
  /\ Nothing \notin Conversions /\ MaxRuns \in Nat /\ MaxSweeps \in Nat

ArInit ==
  /\ row = [p \in Paths |-> IF p \in Sources THEN "active" ELSE "none"]
  /\ disk = Sources /\ audio = [o \in Outputs |-> Nothing]
  /\ refs = {} /\ convert = Nothing /\ sweep = Nothing /\ reset = Nothing
  /\ cut = {} /\ runs = 0 /\ sweeps = 0

Made == {o \in Outputs : row[o] = "active"}
Live(f) == \E r \in refs : r.file = f

-----------------------------------------------------------------------------
(* A conversion: each source it found, in turn                              *)

SourcesOf(stage) == {f \in Sources : row[f] = "active" /\
  (stage = "aax-decrypt" => FormatOf[f] = "aax")}

StartConvert(stage) ==
  /\ convert = Nothing /\ runs < MaxRuns /\ Made = {} /\ SourcesOf(stage) # {}
  /\ convert' = [stage |-> stage, run |-> runs, todo |-> SourcesOf(stage), at |-> "next", ok |-> FALSE]
  /\ runs' = runs + 1
  /\ UNCHANGED <<row, disk, audio, refs, sweep, reset, cut, sweeps>>

At(place) == convert # Nothing /\ convert.at = place
(* The first of those left, in the order of file_id.                        *)
Source == Files[CHOOSE n \in DOMAIN Files :
  Files[n] \in convert.todo /\ \A m \in 1 .. n - 1 : Files[m] \notin convert.todo]
Output == StemOf[Source]
Ref == [file |-> Source, stage |-> convert.stage, run |-> convert.run]
Resolves == Source \in Jailed \cap disk

(* All done, the daemon shuts down between two files, or no reference can be *)
(* had.                                                                     *)
FinishConvert ==
  /\ At("next") /\ convert' = Nothing
  /\ UNCHANGED <<row, disk, audio, refs, sweep, reset, cut, runs, sweeps>>

ProcessSource ==
  /\ At("next") /\ convert.todo # {}
  /\ IF Resolves
       THEN /\ refs' = refs \cup {Ref}
            /\ convert' = [convert EXCEPT !.at = "encoding"]
       ELSE convert' = [convert EXCEPT !.todo = @ \ {Source}] /\ UNCHANGED refs
  /\ UNCHANGED <<row, disk, audio, sweep, reset, cut, runs, sweeps>>

(* The encoder removes an output that is there, then writes its own.        *)
Encode ==
  /\ At("encoding")
  /\ \/ /\ Source \in disk
        /\ disk' = disk \cup {Output} /\ audio' = [audio EXCEPT ![Output] = Source]
        /\ convert' = [convert EXCEPT !.at = "encoded", !.ok = TRUE]
     \/ /\ \/ UNCHANGED <<disk, audio>>
           \/ audio' = [audio EXCEPT ![Output] = Nothing] /\ disk' \in {disk \ {Output}, disk \cup {Output}}
        /\ convert' = [convert EXCEPT !.at = "encoded", !.ok = FALSE]
  /\ UNCHANGED <<row, refs, sweep, reset, cut, runs, sweeps>>

\* Mutant: a source that failed is left without giving its reference back.
ReleaseWhenDone ==
  /\ At("encoded")
  /\ refs' = IF convert.ok THEN refs \ {Ref} ELSE refs
  /\ convert' = IF convert.ok THEN [convert EXCEPT !.at = "registering"]
                ELSE [convert EXCEPT !.at = "next", !.todo = @ \ {Source}]
  /\ UNCHANGED <<row, disk, audio, sweep, reset, cut, runs, sweeps>>
Release ==
  /\ At("encoded") /\ refs' = refs \ {Ref}
  /\ convert' = IF convert.ok THEN [convert EXCEPT !.at = "registering"]
                ELSE [convert EXCEPT !.at = "next", !.todo = @ \ {Source}]
  /\ UNCHANGED <<row, disk, audio, sweep, reset, cut, runs, sweeps>>

(* The DELETE fails: the stage ends with the reference live.                *)
ReleaseFails ==
  /\ At("encoded") /\ convert' = Nothing /\ cut' = cut \cup {convert.run}
  /\ UNCHANGED <<row, disk, audio, refs, sweep, reset, runs, sweeps>>

(* A failed INSERT ends the stage, and so do two sources of one stem, since  *)
(* file_path is unique.                                                     *)
Register ==
  /\ At("registering")
  /\ \/ /\ row[Output] = "none" /\ row' = [row EXCEPT ![Output] = "active"]
        /\ convert' = [convert EXCEPT !.at = "next", !.todo = @ \ {Source}]
     \/ convert' = Nothing /\ UNCHANGED row
  /\ UNCHANGED <<disk, audio, refs, sweep, reset, cut, runs, sweeps>>

ConvertStep ==
  \/ \E stage \in Converters : StartConvert(stage)
  \/ FinishConvert \/ ProcessSource \/ Encode \/ Release \/ ReleaseFails \/ Register

-----------------------------------------------------------------------------
(* clean/run: what may go is selected once, then goes file by file          *)

SelectEligible == {f \in Sources :
  row[f] = "active" /\ FormatOf[f] # Nothing /\ Made # {} /\ ~Live(f)}

StartSweep ==
  /\ sweep = Nothing /\ sweeps < MaxSweeps /\ SelectEligible # {}
  /\ sweep' = [todo |-> SelectEligible, gone |-> Nothing] /\ sweeps' = sweeps + 1
  /\ UNCHANGED <<row, disk, audio, refs, convert, reset, cut, runs>>

\* Mutant: the row goes first, the file after it.
SweepRowFirst ==
  /\ sweep # Nothing
  /\ IF sweep.gone = Nothing
       THEN \E f \in sweep.todo :
              /\ row' = [row EXCEPT ![f] = "inactive"] /\ UNCHANGED disk
              /\ sweep' = [todo |-> sweep.todo \ {f}, gone |-> f]
       ELSE /\ disk' = disk \ {sweep.gone} /\ UNCHANGED row
            /\ sweep' = [sweep EXCEPT !.gone = Nothing]
  /\ UNCHANGED <<audio, refs, convert, reset, cut, runs, sweeps>>
(* A file outside every root, or that will not go, keeps its row.           *)
SweepRow ==
  /\ sweep # Nothing
  /\ IF sweep.gone = Nothing
       THEN \E f \in sweep.todo :
              /\ UNCHANGED row
              /\ \/ /\ f \in disk => f \in Jailed
                    /\ disk' = disk \ {f} /\ sweep' = [todo |-> sweep.todo \ {f}, gone |-> f]
                 \/ /\ f \in disk /\ UNCHANGED disk
                    /\ sweep' = [todo |-> sweep.todo \ {f}, gone |-> Nothing]
       ELSE /\ row' = [row EXCEPT ![sweep.gone] = "inactive"] /\ UNCHANGED disk
            /\ sweep' = [sweep EXCEPT !.gone = Nothing]
  /\ UNCHANGED <<audio, refs, convert, reset, cut, runs, sweeps>>

EndSweep ==
  /\ sweep = [todo |-> {}, gone |-> Nothing] /\ sweep' = Nothing
  /\ UNCHANGED <<row, disk, audio, refs, convert, reset, cut, runs, sweeps>>

-----------------------------------------------------------------------------
(* A retry: every m4b of the book goes, the file and then its row, and       *)
(* transcode-m4b gives back the references it lost in a crash.               *)

StartReset(stage) ==
  /\ reset = Nothing /\ sweeps < MaxSweeps /\ sweeps' = sweeps + 1
  /\ reset' = [stage |-> stage, todo |-> Made]
  /\ UNCHANGED <<row, disk, audio, refs, convert, sweep, cut, runs>>

ResetRow ==
  /\ reset # Nothing
  /\ \E o \in reset.todo :
       /\ disk' = disk \ {o} /\ audio' = [audio EXCEPT ![o] = Nothing]
       /\ row' = [row EXCEPT ![o] = "none"]
       /\ reset' = [reset EXCEPT !.todo = @ \ {o}]
  /\ UNCHANGED <<refs, convert, sweep, cut, runs, sweeps>>

EndReset ==
  /\ reset # Nothing /\ reset.todo = {} /\ reset' = Nothing
  /\ refs' = IF reset.stage = "transcode-m4b" THEN {r \in refs : r.stage # reset.stage} ELSE refs
  /\ UNCHANGED <<row, disk, audio, convert, sweep, cut, runs, sweeps>>

(* The daemon dies; references stay, and an encoder leaves half a file.     *)
CrashConvert ==
  /\ cut' = IF convert = Nothing THEN cut ELSE cut \cup {convert.run}
  /\ convert' = Nothing /\ sweep' = Nothing /\ reset' = Nothing
  /\ IF At("encoding")
       THEN disk' \in {disk, disk \cup {Output}, disk \ {Output}} /\ audio' = [audio EXCEPT ![Output] = Nothing]
       ELSE UNCHANGED <<disk, audio>>
  /\ UNCHANGED <<row, refs, runs, sweeps>>

ArStep ==
  \/ ConvertStep
  \/ StartSweep \/ SweepRow \/ EndSweep
  \/ \E stage \in Converters : StartReset(stage)
  \/ ResetRow \/ EndReset \/ CrashConvert
ArSpec == ArInit /\ [][ArStep]_arVars

-----------------------------------------------------------------------------
ArTypeOK ==
  /\ row \in [Paths -> {"none", "active", "inactive"}] /\ disk \subseteq Paths
  /\ audio \in [Outputs -> OptionOf(Sources)]
  /\ \A r \in refs : r.file \in Sources
  /\ convert \in OptionOf(Conversions)
  /\ cut \subseteq 0 .. MaxRuns /\ runs \in 0 .. MaxRuns /\ sweeps \in 0 .. MaxSweeps

(* transcode/cleanup.rs:32-33: a row is not taken out of use while its file  *)
(* is on disk, at any point of a sweep that a crash may cut, and whatever    *)
(* conversions and resets run beside it: a scan would take it for a new file. *)
(* And a reference that outlasts its stage, and keeps its file from every    *)
(* sweep, is of a run that a crash or a release that failed has ended.       *)
SweepsSettle ==
  /\ \A f \in Sources : row[f] = "inactive" => f \notin disk
  /\ \A r \in refs : r.run \in cut \/ (convert # Nothing /\ convert.run = r.run)

(* transcode/stage.rs:11-13: what a source recorded outlives it in an m4b.   *)
AudioKept == \A f \in Sources : f \notin disk => \E o \in Outputs \cap disk : audio[o] = f
=============================================================================
