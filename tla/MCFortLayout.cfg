\* A report whose vector lost its items is the end of it, and a framed table that
\* has been printed.
CHECK_DEADLOCK FALSE
SPECIFICATION Spec
CONSTANTS
  field = field
  barred = barred
  Texts = {field, barred}
  Barred = {barred}
  Blank = Blank
  Hole = Hole
  CUR = CUR
  Formats <- ReportFormats
  Strategies = {"REPLACE"}
  Spans = {}
  MaxRows = 4
  MaxCols = 2
  Editing = FALSE
  Scarce = TRUE
INVARIANTS Fits Aligned
PROPERTIES IsReport
