CONSTANTS
  c1 = c1
  c2 = c2
  Nothing = Nothing
  s1 = s1
  s2 = s2
  Contents = {c1, c2}
  Paths <- MCPaths
  Ignored <- MCIgnored
  Library <- MCLibrary
  Roots <- MCRoots
  DirOrder <- MCDirOrder
  Scanners = {s1, s2}
  MaxScans = 3
  MaxChanges = 2
SPECIFICATION Spec
SYMMETRY MCSymmetry
INVARIANTS
  TypeOK
  NoTwins
  ReportedOnce
  Converges
PROPERTIES
  TrueRowsStay
CHECK_DEADLOCK FALSE
