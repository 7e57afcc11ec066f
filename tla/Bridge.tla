------------------------------- MODULE Bridge -------------------------------
(* Calls from Rust into the Swift libraries (foundation-models/lib,          *)
(* speech/bridge, speech/language, audio/ffi, swift/aborg_*.swift).  Rust    *)
(* boxes the sender of a channel, leaks the box and hands it over as ctx;    *)
(* Swift calls back, at once or from a task, and the callback frees the box. *)
(* The caller may stop listening at any moment: its task is cancelled, or    *)
(* the daemon shuts down.                                                    *)
EXTENDS Common, Sequences, SequencesExt

CONSTANTS
  Calls,      \* calls in flight
  Hosts,      \* "modern": macOS 26; "old": an older one; "bare": not compiled in
  Kinds,      \* entries that an instance calls
  Snapshots,  \* what a streaming model may have written so far; words are numbers
  MaxGot      \* bound: what a stream may send

VARIABLES
  host,
  model,      \* SystemLanguageModel.availability
  assets,     \* AssetInventory.status of the one locale
  entry,      \* what a call asks for
  caller,     \* "idle", "waiting", "answered", "gone"
  ctx,        \* the box behind ctx: "none", "leaked", "freed"
  task,       \* where the Swift side of a call stands
  chan,       \* what was sent and not received
  answer,     \* what the caller got
  raised,     \* error that Swift reported; a history variable
  text,       \* stream: the snapshot last emitted
  got,        \* stream: chunks sent, in order
  emptied,    \* stream: a snapshot went back to nothing; a history variable
  output      \* transcode: the file at the output path

brVars == <<host, model, assets, entry, caller, ctx, task, chan, answer, raised, text, got, emptied, output>>

FmKinds == {"status", "languages", "complete", "structured", "stream"}
SpeechKinds == {"locale", "install", "window"}
AudioKinds == {"read", "transcode"}

CallEntries == [kind : Kinds, input : {"good", "nul", "empty", "notJson", "oddShape"}]

ASSUME BridgeAssumption ==
  /\ Hosts \subseteq {"modern", "old", "bare"} /\ <<>> \in Snapshots /\ Snapshots \subseteq Seq(Nat)
  /\ Kinds \subseteq FmKinds \cup SpeechKinds \cup AudioKinds \cup {"detect"}
  /\ Nothing \notin {"report", "BridgeUnavailable"} \cup CallEntries

(* Arguments that matter: a NUL inside, an empty prompt, text or window, a   *)
(* schema that is no object or uses an unsupported shape.                    *)
Inputs(k) ==
  CASE k \in {"status", "languages"} -> {"good"}
    [] k \in {"complete", "stream", "detect", "window", "read"} -> {"good", "nul", "empty"}
    [] k = "structured" -> {"good", "nul", "empty", "notJson", "oddShape"}
    [] k \in {"locale", "install", "transcode"} -> {"good", "nul"}

(* The numbers of the errors, kept by hand in two languages.                 *)
FmErrorCode ==
  [frameworkUnavailable |-> 2, encode |-> 8, modelUnavailable |-> 20, appleIntelligenceDisabled |-> 21,
   deviceNotEligible |-> 22, promptEmpty |-> 23, generationFailed |-> 24, schemaParseFailure |-> 25,
   schemaUnsupportedShape |-> 26]
FmFromCode(n) ==
  CASE n = 2 -> "BridgeUnavailable" [] n = 20 -> "ModelUnavailable" [] n = 21 -> "AppleIntelligenceDisabled"
    [] n = 22 -> "DeviceNotEligible" [] n = 23 -> "PromptEmpty" [] n = 24 -> "GenerationFailed"
    [] n = 25 -> "SchemaParseFailure" [] n = 26 -> "SchemaUnsupportedShape"
    [] OTHER -> "Generic"
SpeechErrorCode ==
  [generic |-> 1, frameworkUnavailable |-> 2, localeUnsupported |-> 3, modelNotInstalled |-> 4,
   windowEmpty |-> 5, noCompatibleAudioFormat |-> 6, readFailure |-> 7, encode |-> 8]
SpeechFromCode(n) ==
  CASE n = 1 -> "Generic" [] n = 2 -> "FrameworkUnavailable" [] n = 3 -> "LocaleUnsupported"
    [] n = 4 -> "ModelNotInstalled" [] n = 5 -> "WindowEmpty" [] n = 6 -> "NoCompatibleAudioFormat"
    [] n = 7 -> "ReadFailure" [] n = 8 -> "EncodeFailure" [] OTHER -> "UnknownCode"
AudioErrorCode ==
  [generic |-> 1, assetLoadFailed |-> 2, noAudioTrack |-> 3, windowEmpty |-> 4, readFailure |-> 5,
   exportSetupFailed |-> 6, exportRunFailed |-> 7]
\* Mutant: the two export errors are numbered the other way round.
AudioFromCodeSwapped(n) ==
  CASE n = 1 -> "Generic" [] n = 2 -> "AssetLoadFailed" [] n = 3 -> "NoAudioTrack" [] n = 4 -> "WindowEmpty"
    [] n = 5 -> "ReadFailure" [] n = 7 -> "ExportSetupFailed" [] n = 6 -> "ExportRunFailed"
    [] OTHER -> "UnknownCode"
AudioFromCode(n) ==
  CASE n = 1 -> "Generic" [] n = 2 -> "AssetLoadFailed" [] n = 3 -> "NoAudioTrack" [] n = 4 -> "WindowEmpty"
    [] n = 5 -> "ReadFailure" [] n = 6 -> "ExportSetupFailed" [] n = 7 -> "ExportRunFailed"
    [] OTHER -> "UnknownCode"

ErrorCode(k, e) ==
  CASE k \in FmKinds -> FmErrorCode[e] [] k \in AudioKinds -> AudioErrorCode[e]
    [] k \in SpeechKinds \cup {"detect"} -> SpeechErrorCode[e]
FromCode(k, n) ==
  CASE k \in FmKinds -> FmFromCode(n) [] k \in SpeechKinds -> SpeechFromCode(n)
    [] k \in AudioKinds -> AudioFromCode(n) [] k = "detect" -> "Stage"

-----------------------------------------------------------------------------
BrInit ==
  /\ host \in Hosts /\ model = "available" /\ assets = "supported"
  /\ entry = [c \in Calls |-> Nothing] /\ caller = [c \in Calls |-> "idle"]
  /\ ctx = [c \in Calls |-> "none"] /\ task = [c \in Calls |-> "none"]
  /\ chan = [c \in Calls |-> Nothing] /\ answer = [c \in Calls |-> Nothing]
  /\ raised = [c \in Calls |-> Nothing] /\ text = [c \in Calls |-> <<>>]
  /\ got = [c \in Calls |-> <<>>] /\ emptied = [c \in Calls |-> FALSE]
  /\ output = [c \in Calls |-> "old"]

streamVars == <<text, got, emptied>>

(* The operator flips a switch; the system loads, fetches or drops a model.  *)
SystemChanges ==
  /\ \/ model' \in {"available", "disabled", "notEligible", "notReady"} /\ UNCHANGED assets
     \/ assets' \in {"supported", "installed"} /\ UNCHANGED model
  /\ <<model, assets>>' # <<model, assets>>
  /\ UNCHANGED <<host, entry, caller, ctx, task, chan, answer, raised, streamVars, output>>

(* What Rust answers by itself, before anything is leaked.                   *)
EarlyAnswer(k, i) ==
  CASE host = "bare" -> IF k = "status" THEN "report" ELSE "BridgeUnavailable"
    [] host # "bare" /\ k = "read" /\ i = "empty" -> "WindowEmpty"
    [] host # "bare" /\ i = "nul" -> "NulInInput"
    [] host # "bare" /\ i # "nul" /\ ~(k = "read" /\ i = "empty") -> Nothing

Call(c, k, i) ==
  /\ caller[c] = "idle"
  /\ entry' = [entry EXCEPT ![c] = [kind |-> k, input |-> i]]
  /\ IF EarlyAnswer(k, i) # Nothing
       THEN /\ answer' = [answer EXCEPT ![c] = EarlyAnswer(k, i)]
            /\ caller' = [caller EXCEPT ![c] = "answered"] /\ UNCHANGED <<ctx, task>>
       ELSE /\ ctx' = [ctx EXCEPT ![c] = "leaked"] /\ task' = [task EXCEPT ![c] = "running"]
            /\ caller' = [caller EXCEPT ![c] = "waiting"] /\ UNCHANGED answer
  /\ UNCHANGED <<host, model, assets, chan, raised, streamVars, output>>

-----------------------------------------------------------------------------
(* The callback of a single answer: on_result                                *)

Listening(c) == caller[c] = "waiting"
(* A send to a receiver that is gone is an error that nobody looks at.       *)
Fire(c, code, payload) ==
  /\ ctx' = [ctx EXCEPT ![c] = "freed"] /\ task' = [task EXCEPT ![c] = "done"]
  /\ chan' = IF Listening(c) THEN [chan EXCEPT ![c] = [code |-> code, payload |-> payload]] ELSE chan

Succeed(c, payload) == Fire(c, 0, payload) /\ UNCHANGED raised
FireError(c, e) == Fire(c, ErrorCode(entry[c].kind, e), "none") /\ raised' = [raised EXCEPT ![c] = e]

Is(c, k, at) == entry[c] # Nothing /\ entry[c].kind = k /\ task[c] = at
InputIs(c, i) == entry[c].input = i
Quiet == UNCHANGED <<host, model, entry, caller, answer, streamVars>>
Still == Quiet /\ UNCHANGED <<assets, output>>

-----------------------------------------------------------------------------
(* swift/aborg_fm.swift                                                      *)

StatusEntry(c) == Is(c, "status", "running") /\ (Succeed(c, "json") \/ FireError(c, "encode")) /\ Still
LanguagesEntry(c) == Is(c, "languages", "running") /\ (Succeed(c, "json") \/ FireError(c, "encode")) /\ Still

(* What stops a generation before the model is asked.                        *)
Refusal(c) ==
  CASE host = "old" -> "frameworkUnavailable"
    [] host = "modern" /\ model = "disabled" -> "appleIntelligenceDisabled"
    [] host = "modern" /\ model = "notEligible" -> "deviceNotEligible"
    [] host = "modern" /\ model = "notReady" -> "modelUnavailable"
    [] host = "modern" /\ model = "available" -> IF InputIs(c, "empty") THEN "promptEmpty" ELSE Nothing

(* A response without text is a buffer of no bytes.                          *)
CompleteEntry(c) ==
  /\ Is(c, "complete", "running") /\ Still
  /\ \/ Refusal(c) # Nothing /\ FireError(c, Refusal(c))
     \/ Refusal(c) = Nothing /\ (Succeed(c, "text") \/ Succeed(c, "none") \/ FireError(c, "generationFailed"))

BuildDynamicSchema(i) ==
  CASE i = "notJson" -> "schemaParseFailure" [] i = "oddShape" -> "schemaUnsupportedShape"
    [] i \notin {"notJson", "oddShape"} -> Nothing
StructuredEntry(c) ==
  LET stop == IF Refusal(c) # Nothing THEN Refusal(c) ELSE BuildDynamicSchema(entry[c].input)
  IN  /\ Is(c, "structured", "running") /\ Still
      /\ \/ stop # Nothing /\ FireError(c, stop)
         \/ stop = Nothing /\ (Succeed(c, "json") \/ FireError(c, "generationFailed"))

-----------------------------------------------------------------------------
(* The stream: Swift sends what a snapshot adds, and an end or an error      *)

(* Rust sorts a callback by its arguments alone: data, end, error, or a      *)
(* shape it ignores.  Sends after the box is gone are undefined behaviour,   *)
(* here without effect.                                                      *)
\* Mutant: the box is not freed where the stream ends by an error.
OnStreamKeeps(c, null, bytes, code) ==
  /\ ctx' = [ctx EXCEPT ![c] = IF code = 0 /\ null /\ bytes = <<>> THEN "freed" ELSE @]
  /\ got' = IF code = 0 /\ ~null /\ bytes # <<>> /\ ctx[c] = "leaked" THEN [got EXCEPT ![c] = @ \o bytes] ELSE got
  /\ chan' = IF Listening(c) /\ ctx[c] = "leaked" /\ (code # 0 \/ (null /\ bytes = <<>>))
               THEN [chan EXCEPT ![c] = [code |-> code, payload |-> "stream"]] ELSE chan
OnStream(c, null, bytes, code) ==
  /\ ctx' = [ctx EXCEPT ![c] = IF code # 0 \/ (null /\ bytes = <<>>) THEN "freed" ELSE @]
  /\ got' = IF code = 0 /\ ~null /\ bytes # <<>> /\ ctx[c] = "leaked" THEN [got EXCEPT ![c] = @ \o bytes] ELSE got
  /\ chan' = IF Listening(c) /\ ctx[c] = "leaked" /\ (code # 0 \/ (null /\ bytes = <<>>))
               THEN [chan EXCEPT ![c] = [code |-> code, payload |-> "stream"]] ELSE chan

\* Mutant: the part that was sent before is cut off a snapshot that does not extend it.
DeltaBlind(full, previous) == SubSeq(full, Len(previous) + 1, Len(full))
Delta(full, previous) ==
  IF Len(full) > Len(previous) /\ IsPrefix(previous, full) THEN SubSeq(full, Len(previous) + 1, Len(full)) ELSE full

StreamStarts(c) ==
  /\ Is(c, "stream", "running") /\ Refusal(c) = Nothing
  /\ task' = [task EXCEPT ![c] = "streaming"] /\ UNCHANGED <<ctx, chan, raised>> /\ Still
(* No bytes may have no address.                                             *)
StreamSnapshot(c, full) ==
  /\ Is(c, "stream", "streaming") /\ full # text[c] /\ Len(got[c]) < MaxGot
  /\ \E null \in {FALSE, Delta(full, text[c]) = <<>>} : OnStream(c, null, Delta(full, text[c]), 0)
  /\ text' = [text EXCEPT ![c] = full]
  /\ emptied' = [emptied EXCEPT ![c] = @ \/ full = <<>>]
  /\ UNCHANGED <<host, model, assets, entry, caller, task, answer, raised, output>>

StreamEnds(c) ==
  /\ Is(c, "stream", "streaming")
  /\ OnStream(c, TRUE, <<>>, 0) /\ task' = [task EXCEPT ![c] = "done"]
  /\ UNCHANGED <<host, model, assets, entry, caller, answer, raised, text, emptied, output>>
StreamFails(c) ==
  /\ Is(c, "stream", "streaming") \/ (Is(c, "stream", "running") /\ Refusal(c) # Nothing)
  /\ LET e == IF task[c] = "streaming" THEN "generationFailed" ELSE Refusal(c)
     IN  OnStream(c, TRUE, <<>>, FmErrorCode[e]) /\ raised' = [raised EXCEPT ![c] = e]
  /\ task' = [task EXCEPT ![c] = "done"]
  /\ UNCHANGED <<host, model, assets, entry, caller, answer, text, emptied, output>>

-----------------------------------------------------------------------------
(* swift/aborg_speech.swift                                                  *)

LocaleEntry(c) ==
  /\ Is(c, "locale", "running") /\ Still
  /\ \/ host = "old" /\ FireError(c, "frameworkUnavailable")
     \/ host = "modern" /\ (Succeed(c, "json") \/ FireError(c, "encode"))

(* The framework and the locale are asked about; an installed model is left. *)
\* Mutant: the guard of an installed model returns without a callback.
InstallEntrySilent(c) ==
  /\ Is(c, "install", "running")
  /\ \/ FireError(c, "frameworkUnavailable")
     \/ host = "modern" /\ FireError(c, "localeUnsupported")
     \/ /\ host = "modern" /\ task' = [task EXCEPT ![c] = IF assets = "installed" THEN "done" ELSE "installing"]
        /\ UNCHANGED <<ctx, chan, raised>>
  /\ Still
InstallEntry(c) ==
  /\ Is(c, "install", "running")
  /\ \/ FireError(c, "frameworkUnavailable")
     \/ host = "modern" /\ FireError(c, "localeUnsupported")
     \/ host = "modern" /\ assets = "installed" /\ Succeed(c, "none")
     \/ /\ host = "modern" /\ assets # "installed" /\ task' = [task EXCEPT ![c] = "installing"]
        /\ UNCHANGED <<ctx, chan, raised>>
  /\ Still
(* The download throws, or ends; what it left is looked up.                  *)
InstallEnds(c) ==
  /\ Is(c, "install", "installing") /\ Quiet /\ UNCHANGED output
  /\ \/ FireError(c, "generic") /\ UNCHANGED assets
     \/ Succeed(c, "none") /\ assets' = "installed"
     \/ assets # "installed" /\ FireError(c, "modelNotInstalled") /\ UNCHANGED assets

(* The window is looked at last, when the model and the file are there.      *)
WindowEntry(c) ==
  /\ Is(c, "window", "running") /\ Still
  /\ \/ FireError(c, "frameworkUnavailable")
     \/ host = "modern" /\ FireError(c, "localeUnsupported")
     \/ host = "modern" /\ assets # "installed" /\ FireError(c, "modelNotInstalled")
     \/ /\ host = "modern" /\ assets = "installed"
        /\ \/ FireError(c, "noCompatibleAudioFormat") \/ FireError(c, "readFailure")
           \/ InputIs(c, "empty") /\ FireError(c, "windowEmpty")
           \/ InputIs(c, "good") /\ (FireError(c, "generic") \/ Succeed(c, "json"))

(* Without a language there is nothing to send, and no error either.         *)
DetectEntry(c) ==
  /\ Is(c, "detect", "running") /\ Still
  /\ Succeed(c, "none") \/ (InputIs(c, "good") /\ (Succeed(c, "json") \/ FireError(c, "encode")))

-----------------------------------------------------------------------------
(* swift/aborg_audio.swift                                                   *)

ReadEntry(c) ==
  /\ Is(c, "read", "running") /\ Still
  /\ \/ \E e \in {"assetLoadFailed", "noAudioTrack", "readFailure", "generic"} : FireError(c, e)
     \/ \E p \in {"samples", "none"} : Succeed(c, p)

(* What an earlier run left at the output path is removed before the export. *)
TranscodeEntry(c) ==
  /\ Is(c, "transcode", "running") /\ Quiet /\ UNCHANGED assets
  /\ \/ \E e \in {"assetLoadFailed", "noAudioTrack", "exportSetupFailed"} : FireError(c, e) /\ UNCHANGED output
     \/ FireError(c, "exportSetupFailed") /\ output' = [output EXCEPT ![c] = "gone"]
     \/ /\ task' = [task EXCEPT ![c] = "exporting"] /\ output' = [output EXCEPT ![c] = "gone"]
        /\ UNCHANGED <<ctx, chan, raised>>
TranscodeEnds(c) ==
  /\ Is(c, "transcode", "exporting") /\ Quiet /\ UNCHANGED assets
  /\ \/ \E left \in {"gone", "partial"} : FireError(c, "exportRunFailed") /\ output' = [output EXCEPT ![c] = left]
     \/ Succeed(c, "none") /\ output' = [output EXCEPT ![c] = "whole"]

-----------------------------------------------------------------------------
(* The caller                                                                *)

(* An empty buffer is an answer only where there was none to give.           *)
Decode(k, r) ==
  CASE r.code # 0 -> FromCode(k, r.code)
    [] r.code = 0 /\ r.payload = "none" -> IF k \in {"install", "transcode", "detect"} THEN "ok" ELSE "InvalidPayload"
    [] r.code = 0 /\ r.payload # "none" -> "ok"
Receive(c) ==
  /\ Listening(c) /\ chan[c] # Nothing
  /\ answer' = [answer EXCEPT ![c] = Decode(entry[c].kind, chan[c])]
  /\ chan' = [chan EXCEPT ![c] = Nothing] /\ caller' = [caller EXCEPT ![c] = "answered"]
  /\ UNCHANGED <<host, model, assets, entry, ctx, task, raised, streamVars, output>>
Cancel(c) ==
  /\ Listening(c) /\ caller' = [caller EXCEPT ![c] = "gone"]
  /\ chan' = [chan EXCEPT ![c] = Nothing]
  /\ UNCHANGED <<host, model, assets, entry, ctx, task, answer, raised, streamVars, output>>

SwiftSide(c) ==
  \/ StatusEntry(c) \/ LanguagesEntry(c) \/ CompleteEntry(c) \/ StructuredEntry(c)
  \/ StreamStarts(c) \/ StreamEnds(c) \/ StreamFails(c)
  \/ LocaleEntry(c) \/ InstallEntry(c) \/ InstallEnds(c) \/ WindowEntry(c) \/ DetectEntry(c)
  \/ ReadEntry(c) \/ TranscodeEntry(c) \/ TranscodeEnds(c)

BrStep ==
  \/ \E c \in Calls :
       \/ \E k \in Kinds : \E i \in Inputs(k) : Call(c, k, i)
       \/ SwiftSide(c)
       \/ \E s \in Snapshots : StreamSnapshot(c, s)
       \/ Receive(c) \/ Cancel(c)
  \/ SystemChanges

(* Apple's frameworks come back, and a task that is woken is polled.         *)
BrFairness == \A c \in Calls : WF_brVars(SwiftSide(c)) /\ WF_brVars(Receive(c))
BrSpec == BrInit /\ [][BrStep]_brVars /\ BrFairness

-----------------------------------------------------------------------------
BrTypeOK ==
  /\ host \in Hosts /\ model \in {"available", "disabled", "notEligible", "notReady"}
  /\ assets \in {"supported", "installed"}
  /\ entry \in [Calls -> OptionOf(CallEntries)]
  /\ caller \in [Calls -> {"idle", "waiting", "answered", "gone"}]
  /\ ctx \in [Calls -> {"none", "leaked", "freed"}]
  /\ task \in [Calls -> {"none", "running", "streaming", "installing", "exporting", "done"}]
  /\ text \in [Calls -> Snapshots] /\ emptied \in [Calls -> BOOLEAN]
  /\ output \in [Calls -> {"old", "gone", "partial", "whole"}]
  /\ \A c \in Calls : chan[c] # Nothing => ctx[c] = "freed" /\ caller[c] = "waiting"

Working(c) == task[c] \in {"running", "streaming", "installing", "exporting"}

RustName ==
  [generic |-> "Generic", encode |-> "EncodeFailure", frameworkUnavailable |-> "FrameworkUnavailable",
   modelUnavailable |-> "ModelUnavailable", appleIntelligenceDisabled |-> "AppleIntelligenceDisabled",
   deviceNotEligible |-> "DeviceNotEligible", promptEmpty |-> "PromptEmpty",
   generationFailed |-> "GenerationFailed", schemaParseFailure |-> "SchemaParseFailure",
   schemaUnsupportedShape |-> "SchemaUnsupportedShape", localeUnsupported |-> "LocaleUnsupported",
   modelNotInstalled |-> "ModelNotInstalled", windowEmpty |-> "WindowEmpty",
   noCompatibleAudioFormat |-> "NoCompatibleAudioFormat", readFailure |-> "ReadFailure",
   assetLoadFailed |-> "AssetLoadFailed", noAudioTrack |-> "NoAudioTrack",
   exportSetupFailed |-> "ExportSetupFailed", exportRunFailed |-> "ExportRunFailed"]
FmNames == [encode |-> "Generic", frameworkUnavailable |-> "BridgeUnavailable"]
Named(c) ==
  answer[c] = CASE entry[c].kind \in FmKinds /\ raised[c] \in DOMAIN FmNames -> FmNames[raised[c]]
                [] entry[c].kind = "detect" -> "Stage"
                [] OTHER -> RustName[raised[c]]

(* Swift's last callback is the one that Rust takes for the last: the box    *)
(* behind ctx lives exactly as long as a callback may come, also when the    *)
(* caller has gone.  aborg_fm.swift:603 wants one terminal callback; a       *)
(* snapshot that goes back to nothing may look like one, and is excepted.    *)
(* What the caller got is what Swift had to give: chunks that, put together, *)
(* end with the model's last text, or the error that was raised, by its name *)
(* in either table of numbers.                                               *)
CallsEndOnce ==
  \A c \in Calls : ~emptied[c] =>
    /\ ctx[c] = "leaked" <=> Working(c)
    /\ IsSuffix(text[c], got[c])
    /\ answer[c] # Nothing /\ raised[c] # Nothing => Named(c)

(* A caller that waits gets its answer, or has gone.                         *)
Answered == \A c \in Calls : caller[c] = "waiting" ~> caller[c] # "waiting"
=============================================================================
