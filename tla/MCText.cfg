CONSTANTS
  Target = 6
  MinTokens = 2
  MaxTokens = 10
  RrfK = 60
  MergedTop = 3
  MaxRank = 3
  PagesTried = 2
  ChunkIds <- MCChunkIds
  HitLists <- MCHitLists
  TopKs = {1, 2, 3}
  PageSizes = {1, 2}
  SpanSets <- MCSpanSets
  GroupTexts <- MCGroupTexts
  Headings <- MCFittingHeadings
  PageLengths <- MCPageLengths
  CitedTexts <- MCCitedTexts
  Contexts <- MCContexts
  Files <- MCFiles
  Pdfs <- MCPdfs
SPECIFICATION Spec
INVARIANTS
  SearchesAreSound
  ChunksAreSound
  SectionsAreSound
  CitationsAreSound
  IntakeIsSound
CHECK_DEADLOCK FALSE
