CONSTANTS
  b1 = b1
  b2 = b2
  p1 = p1
  x1 = x1
  q1 = q1
  a1 = a1
  a2 = a2
  g1 = g1
  g2 = g2
  t1 = t1
  t2 = t2
  t2s = t2s
  Nothing = Nothing
  Books = {b1, b2}
  Parts = {"identity", "provenance", "chapters"}
  Kinds = {"authors", "narrators", "series"}
  Names <- MCNames
  Folded <- MCFolded
  Lists <- MCLists
  Exts = {x1}
  Publishers = {p1}
  Prefix <- MCPrefix
  MaxObserved = 2
  MaxNameEdits = 2
  Titles = {t1, t2, t2s}
  Asins = {a1, a2}
  Genres = {g1, g2}
  Tags <- MCTags
  OnAudible <- MCOnAudible
  Audnexus <- MCAudnexus
  Cleaned <- MCCleaned
  MaxClock = 1
  MaxPatches = 2
  MaxResets = 1
  Layouts <- MCLayouts
  Catalog <- MCCatalog
  TextLen = 7
  Spaces = {2, 5}
  MaxRefetch = 2
SPECIFICATION Spec
INVARIANTS TypeOK Findable EditSticks
PROPERTIES NothingVanishes TocWhole
CHECK_DEADLOCK FALSE
