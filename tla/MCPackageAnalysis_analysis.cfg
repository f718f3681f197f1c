SPECIFICATION Spec
CONSTANTS
  w1 = w1
  r1 = r1
  v1 = v1
  v2 = v2
  FileType <- MCFileType
  MaxFiles = 6
  MaxFile = 14
  MaxTotal = 40
  Snippet = 3
  SourceBytes = 6
  MaxReleaseFiles = 2
  MaxArtifact = 5
  Declarations <- MCDeclarations
  Rows <- MCRows
  Documents <- MCDocuments
  Archives <- MCArchives
  Size <- MCSize
  Origin <- Home
  Rules <- MCRules
  Analyzers = {w1}
  Readers = {r1}
  Reviewers = {v1, v2}
  Dispositions <- MCDispositions
  Reviewed = {"risk.u", "meta"}
  MaxOutput = 1
  MaxStarts = 2
  MaxCommands = 3
  MaxFaults = 1
INVARIANTS
  TypeOK
  ReviewsAreAChain
  FindingsAreLocated
  ShownSourceIsTrue
  NewestIsBacked
PROPERTY
  AnalysesEnd
CHECK_DEADLOCK FALSE
