SPECIFICATION Spec
CONSTANTS
  MaxId = 4
  Limit = 2
  NoPage = NoPage
INVARIANTS TypeOK Gapless OnlyOlder FullPages
