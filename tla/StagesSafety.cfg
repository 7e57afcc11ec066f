CONSTANTS
  b1 = b1
  b2 = b2
  en = en
  de = de
  f1 = f1
  e1 = e1
  s1 = s1
  s2 = s2
  m1 = m1
  m2 = m2
  t1 = t1
  t2 = t2
  Nothing = Nothing
  Books = {b1, b2}
  Parts = {"transcripts", "texts", "extractors", "artefacts", "tags", "audiologo", "profiles"}
  Locales = {en, de}
  Reels <- MCReels
  Positions <- MCPositions
  SampleLen = 3
  MinLen = 6
  Phrases = {f1}
  Epubs = {e1}
  MaxStamp = 2
  MaxHearings = 2
  Langs = {en}
  Abridged = {b2}
  TagNames = {"a", "b", "c"}
  Hierarchies <- MCHierarchies
  MaxVersion = 2
  MaxAsked = 2
  Files <- MCFiles
  FormatOf <- MCFormatOf
  StemOf <- MCStemOf
  Jailed = {s1, s2}
  MaxRuns = 2
  MaxSweeps = 2
  TagFiles <- MCTagFiles
  TagFields = {"title", "abridged"}
  TagSources = {"tag_file", "user_edit"}
  TagValues = {"x", "y"}
  CollectionNames = {"c"}
  LatestDays = 1
  IntermediateDays = 0
  MaxNow = 1
  MaxEdits = 2
  MaxWrites = 2
  FileLengths <- MCFileLengths
  Marks <- MCMarks
  Jingles <- MCJingles
  ManualCuts <- MCManualCuts
  Paddings <- MCPaddings
  Brand = 1
  Confirmations = 2
  MaxRows = 3
  MaxAsks = 2
  MaxResets = 1
  Subtags = {en}
  ShortBooks = {b2}
  Spellings = {"Cozy", "cozy", "grim", "!"}
  Slugs = {"cozy", "grim"}
  SlugOf <- MCSlugOf
  Vocabulary = {"war"}
  DnaAnswers <- MCDnaAnswers
  SettingAnswers <- MCSettingAnswers
  CastAnswers <- MCCastAnswers
  ArcAnswers <- MCArcAnswers
  PolishAnswers <- MCPolishAnswers
  MaxDna = 1
  MaxSpoilers = 0
  MaxSetting = 1
  MaxStamps = 2
  MaxQuestions = 2
SPECIFICATION Spec
INVARIANTS TypeOK TranscriptsWhole CachedIsShown TagsAcyclic SweepsSettle HistoryUnbroken CutsAligned ProfilesHold
CHECK_DEADLOCK FALSE
