SPECIFICATION Spec
CONSTANTS
  Hosts <- TwoHosts
  Address <- TwoAddresses
  Answers <- SomeAnswers
  Timeouts = {10, 1000}
  MAX_RES_RECORD_CNT = 2
  MaxFds = 3
  MaxCalls = 1
  Templates <- UsageTemplates
  Ordinal = 1
  MaxCrashes = 1
  text_a = text_a
  Texts = {text_a}
  Barred = {}
  Blank = Blank
  Hole = Hole
  CUR = CUR
  Formats <- EditedFormats
  Strategies = {"REPLACE", "INSERT"}
  Spans = {}
  MaxRows = 1
  MaxCols = 1
  Editing = FALSE
  Scarce = FALSE
INVARIANT UsageExample
\* The caller stops after MaxCalls look-ups, the script when it has ended, a
\* table that is not usable any more stays.
CHECK_DEADLOCK FALSE
