------------------------------ MODULE MCStages ------------------------------
(* Small instances of the stages behind the catalog.  The models share the  *)
(* books and nothing else, so a behaviour explores one of them.             *)
EXTENDS Transcripts, Extractors, Artefacts, TagWrites, Audiologo,
        Profiles, TLC

CONSTANTS
  Parts,  \* the models an instance explores
  b1, b2, en, de, f1, e1, s1, s2, m1, m2, t1, t2

VARIABLE part

ASSUME MCStagesAssumption == {b1, b2} \subseteq Books

(* Transcripts: two files, and two of which the first has no length.       *)
MCReels == {<<3, 5>>, <<0, 6>>}
MCPositions == <<1, 3>>

(* Extractors: three tags, and orders of them that close a cycle together;   *)
(* the second book starts with its language decided, and keeps unmarked.     *)
MCHierarchies == {<<<<"a", "b">>, <<"b", "a">>, <<"b", "c">>>>, <<<<"c", "a">>, <<"a", "a">>>>}

(* Artefacts: two sources, each with a stem of its own.                     *)
MCFiles == <<s1, s2>>
MCFormatOf == [f \in {s1, s2} |-> IF f = s1 THEN "aax" ELSE "mp3"]
MCStemOf == [f \in {s1, s2} |-> IF f = s1 THEN m1 ELSE m2]

(* TagWrites: one file.                                                     *)
MCTagFiles == <<t1>>

(* Audiologo: two files of six and four minutes, a faint intro of two in the *)
(* first and a sure outro of one in the last, and by hand a second cut in    *)
(* the first, so that cuts meet in one file and in two.                     *)
MCFileLengths == <<6, 4>>
MCMarks == [audnexus |-> <<<<0, 3>>, <<3, 6>>, <<6, 8>>, <<8, 10>>>>, embedded |-> <<<<0, 10>>>>]
Jingle(k, f, t, s) == [kind |-> k, from |-> f, to |-> t, sure |-> s]
MCJingles == {Jingle("intro", 0, 2, FALSE), Jingle("outro", 1, 2, TRUE)}
MCManualCuts == {[kind |-> "outro", file |-> 1, from |-> 4, to |-> 5]}
MCPaddings == [intro |-> 0, outro |-> 0]

(* Profiles: two answers for each table, and every reason to refuse one;     *)
(* caps of one, lists of two tags spelled in several ways.                   *)
MCSlugOf == [s \in {"Cozy", "cozy", "grim", "!"} |->
              CASE s = "!" -> Nothing [] s = "grim" -> s [] OTHER -> "cozy"]
Warning(l, s) == [label |-> l, severity |-> s]
SettingTag(m, s) == [marked |-> m, body |-> s]
MCDnaAnswers ==
  {[dna |-> <<"!", "Cozy", "cozy", "grim">>, spoilers |-> <<"grim">>,
    warnings |-> <<Warning("war", "odd"), Warning("war", "mild"), Warning("war", "graphic"), Warning("rain", "mild")>>],
   [dna |-> <<"grim">>, spoilers |-> <<>>, warnings |-> <<>>]}
MCSettingAnswers ==
  {[lang |-> en, text |-> "moor", tags |-> <<SettingTag(FALSE, "cozy"), SettingTag(TRUE, "grim"), SettingTag(TRUE, "Cozy")>>],
   [lang |-> en, text |-> "port", tags |-> <<SettingTag(TRUE, "cozy")>>],
   [lang |-> en, text |-> Nothing, tags |-> <<>>], [lang |-> de, text |-> "moor", tags |-> <<>>]}
MCCastAnswers ==
  {[lang |-> en, names |-> <<"Ann", "Bo">>], [lang |-> en, names |-> <<"Ann", "Ann">>], [lang |-> en, names |-> <<"Cy">>],
   [lang |-> de, names |-> <<>>]}
MCArcAnswers == {[lang |-> en, steps |-> <<1, 2>>], [lang |-> en, steps |-> <<1>>], [lang |-> en, steps |-> <<2, 1>>]}
MCPolishAnswers == {[lang |-> en, text |-> "p"], [lang |-> en, text |-> Nothing], [lang |-> de, text |-> "p"]}

OneOf(S) == CHOOSE x \in S : TRUE
Init ==
  /\ part \in Parts
  /\ TrInit /\ ExInit /\ ArInit /\ TgInit /\ AuInit /\ PfInit
  /\ part # "transcripts" => reel = [b \in Books |-> OneOf(Reels)]
  /\ part # "texts" => paired = None
  /\ \A b \in Books \ {b1} : reel[b] = OneOf(Reels) /\ paired[b] = Nothing
  /\ part # "extractors" => lang = None
  /\ part # "profiles" => language = None
  /\ language[b2] = Nothing
  /\ part = "extractors" => lang[b2] # Nothing

Next ==
  /\ UNCHANGED part
  /\ \/ part = "transcripts" /\ HearStep(b1) /\ UNCHANGED <<exVars, arVars, tgVars, auVars, pfVars>>
     \/ part = "texts" /\ ReadStep(b1) /\ UNCHANGED <<exVars, arVars, tgVars, auVars, pfVars>>
     \/ part = "extractors" /\ ExStep /\ marked'[b2] = Nothing /\ UNCHANGED <<trVars, arVars, tgVars, auVars, pfVars>>
     \/ part = "artefacts" /\ ArStep /\ UNCHANGED <<trVars, exVars, tgVars, auVars, pfVars>>
     \/ part = "tags" /\ TgStep /\ UNCHANGED <<trVars, exVars, arVars, auVars, pfVars>>
     \/ part = "audiologo" /\ AuStep /\ UNCHANGED <<trVars, exVars, arVars, tgVars, pfVars>>
     \/ part = "profiles" /\ PfStep /\ UNCHANGED <<language[b2], transcribed[b2], corrected[b2]>>
        /\ UNCHANGED <<trVars, exVars, arVars, tgVars, auVars>>

Spec == Init /\ [][Next]_<<part, trVars, exVars, arVars, tgVars, auVars, pfVars>>

TypeOK == part \in Parts /\ TrTypeOK /\ ExTypeOK /\ ArTypeOK /\ TgTypeOK /\ AuTypeOK /\ PfTypeOK
=============================================================================
