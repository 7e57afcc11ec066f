CONSTANTS
  b1 = b1
  b2 = b2
  de = de
  fr = fr
  head = head
  samples = samples
  Books = {b1, b2}
  Nothing = Nothing
  Locales = {de, fr}
  LocalesOf <- MCLocalesOf
  HeadTail = head
  Followers = {samples}
  Ready = {}
  MaxFailures = 1
  MaxFaults = 1
SPECIFICATION FairSpec
INVARIANTS
  TypeOK
  BlockCovered
  InstallingIsOwned
PROPERTIES
  WaitingIsServed
