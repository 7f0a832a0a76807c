SPECIFICATION FortSpec
CONSTANTS
  Texts = {text_a}
  Barred = {}
  Formats <- AppendedFormats
  Strategies = {"REPLACE", "INSERT"}
  Spans = {1, 2}
  MaxRows = 2
  MaxCols = 2
  Editing = FALSE
  Scarce = TRUE
  text_a = text_a
  text_b = text_b
  t1 = t1
  t2 = t2
  Blank = Blank
  Hole = Hole
  Unset = Unset
  NULL = NoBlock
  Items = {text_a, text_b}
  DefaultCapacity = 1
  MaxCapacity = 3
  CUR = CUR
  ANY = ANY
  None = None
  Tables = {t1, t2}
  Rows = {0}
  Cols = {0}
  Numbers = {"LEFT_PADDING"}
  Enums = {"ROW_TYPE"}
  Styles = {"TEXT_STYLE"}
  Values <- NumbersSet
  Margins <- MarginsSet
  Bits = {"bold"}
  Borders = {"basic"}
  Initial <- DefaultProperties
  Unflagged = {"ROW_TYPE"}
  MaxEntries = 2
INVARIANTS RoomForItems NoHole RowIsFormat LinesPrintable
PROPERTIES IsSequence Returns SetTakesEffect SetIsLocal
CHECK_DEADLOCK FALSE
