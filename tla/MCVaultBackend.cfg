CONSTANTS
  Tasks = {t1, t2}
  Texts <- MCTexts
  Asked <- MCAsked
  Paths <- MCPaths
  Keys <- MCKeys
  Contents <- MCContents
  Versions = {1}
  None = None
  Parse <- MCParse
  CanonicalText <- MCCanonicalText
  CacheTTL = 1
  MaxFetch = 1
  MaxTime = 3
  MaxVersions = 2
SYMMETRY Symmetry
SPECIFICATION Spec
INVARIANTS TypeOK FreshEnough RightSecret PinnedExact
PROPERTIES ImplementsBoundedStaleness
