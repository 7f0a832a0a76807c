SPECIFICATION Spec
CONSTANTS
  Hosts <- TwoHosts
  Address <- TwoAddresses
  Answers <- SomeAnswers
  Timeouts = {10, 1000}
  MAX_RES_RECORD_CNT = 2
  MaxFds = 3
  MaxCalls = 4
  Templates <- TwoTemplates
  Ordinal = 1
  MaxCrashes = 3
  text_a = text_a
  Texts = {text_a}
  Barred = {}
  Blank = Blank
  Hole = Hole
  CUR = CUR
  Formats <- EditedFormats
  Strategies = {"REPLACE", "INSERT"}
  Spans = {}
  MaxRows = 2
  MaxCols = 2
  Editing = TRUE
  Scarce = TRUE
INVARIANTS QueryAsksForHost ParsedAsSent AddressOfHost OnlyAliasesLeak Configured SeparatorsFollowRows
PROPERTY LookupReturns
\* The caller stops after MaxCalls look-ups, the script when it has ended, a
\* table that is not usable any more stays.
CHECK_DEADLOCK FALSE
