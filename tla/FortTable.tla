----------------------------- MODULE FortTable -----------------------------
(***************************************************************************)
(* A libfort table under the calls that edit it (fort_impl.c, row.c and    *)
(* table.c in the amalgamated fort.c): rows of cells, the separator lines, *)
(* the current cell and the strategy by which new cells are added.  The    *)
(* vectors below are sequences here: FortVector shows that they are.       *)
(* Indices count from 0, as in the code; row r of the model is             *)
(* table.rows[r + 1].  Any call may run out of memory half way: without    *)
(* memory for an item what the vectors hold stays; without memory for the  *)
(* growth of a vector its items are lost (vector_reallocate_fails there).  *)
(* Capacities are left out, so any item that is added may need the growth. *)
(***************************************************************************)
EXTENDS Naturals, Sequences, SequencesExt, FiniteSets

CONSTANTS Texts,       \* what a caller writes into a cell
          Barred,      \* the texts that contain g_col_separator
          Blank,       \* the empty string of a cell nobody wrote
          Hole,        \* an uninitialised pointer where a cell should be
          CUR,         \* FT_CUR_ROW and FT_CUR_COLUMN, the same number
          MaxRows,     \* bound on the rows of the table
          MaxCols,     \* bound on the columns of the table
          Formats,     \* the lines passed to ft_printf: sequences of texts
          Strategies,  \* the adding strategies a caller selects
          Spans,       \* the column spans a caller sets
          Editing,     \* whether callers move the cursor and erase cells
          Scarce       \* whether allocations may fail

\* A cell: its text and its place in a group of spanned cells.
Cells == [text : Texts \cup {Blank},
          type : {"COMMON_CELL", "GROUP_MASTER_CELL", "GROUP_SLAVE_CELL"}]

TableAssumption ==
    /\ Barred \subseteq Texts /\ Blank \notin Texts /\ Hole \notin Cells
    /\ Formats \subseteq Seq(Texts) \ {<<>>}
    /\ Spans \subseteq Nat
    /\ MaxRows \in Nat /\ MaxCols \in Nat
    /\ Editing \in BOOLEAN /\ Scarce \in BOOLEAN

VARIABLES table,   \* the ft_table_t
          status   \* of the last call: "success", "error", "lost" if the growth of a
                   \* vector failed in it, "hung" if it never returned, "undefined"
                   \* if it read a hole or a row that is not there

tvars == <<table, status>>

create_cell == [text |-> Blank, type |-> "COMMON_CELL"]

EmptyTable ==
    [rows |-> <<>>, separators |-> <<>>, cur_row |-> 0, cur_col |-> 0,
     add_strategy |-> "REPLACE"]

\* s with copies of x appended until it has n items.
Padded(s, n, x) == s \o [i \in 1..(IF n > Len(s) THEN n - Len(s) ELSE 0) |-> x]

RowAt(t, r) == t.rows[r + 1]
Columns(t, r) == IF r < Len(t.rows) THEN Len(RowAt(t, r)) ELSE 0
SetRow(t, r, row) == [t EXCEPT !.rows[r + 1] = row]

get_row_and_create_if_not_exists(t, r) == [t EXCEPT !.rows = Padded(@, r + 1, <<>>)]

get_cell_and_create_if_not_exists(row, col) == Padded(row, col + 1, create_cell)

\* The growth of a vector fails when it holds a number of items that is in sizes:
\* the number is all that is left of them.  What the call does next (insert_row
\* looks at no status, its clean-up moves cells in the block that is gone), and
\* any later call, is outside this model.
Holes(s) == [i \in DOMAIN s |-> Hole]

RowsLost(t, sizes) == { [t EXCEPT !.rows = Holes(Padded(@, n, <<>>))] : n \in sizes }

NewRowsLost(t, r) == RowsLost(t, Len(t.rows)..r)

CellsLost(t, r, sizes) ==
    LET p == get_row_and_create_if_not_exists(t, r)
    IN  { SetRow(p, r, Holes(Padded(RowAt(p, r), n, create_cell))) : n \in sizes }

-----------------------------------------------------------------------------
(* ft_printf *)

NoRow == <<>>   \* no row has zero columns

\* The separators of the expanded line are counted: more of them than in the
\* format is an error, unless the format is a single column.
create_row_from_fmt_string(fmt) ==
    LET cell(text) == [create_cell EXCEPT !.text = text]
    IN  IF Len(fmt) > 1 /\ \E i \in DOMAIN fmt : fmt[i] \in Barred
        THEN NoRow
        ELSE [i \in DOMAIN fmt |-> cell(fmt[i])]

\* The new cells take the place of those from pos on.  A row that ends before
\* pos is not padded: the memory in between stays as it was.
swap_row(row, new, pos) ==
    [i \in 1..Max({Len(row), pos + Len(new)}) |->
        IF pos < i /\ i <= pos + Len(new) THEN new[i - pos]
        ELSE IF i <= Len(row) THEN row[i] ELSE Hole]

insert_row(row, new, pos) ==
    LET padded == Padded(row, pos, create_cell)
    IN  SubSeq(padded, 1, pos) \o new \o SubSeq(padded, pos + 1, Len(padded))

ft_row_printf_impl_(t, new) ==
    LET p == get_row_and_create_if_not_exists(t, t.cur_row)
        row == RowAt(p, t.cur_row)
        filled == IF t.add_strategy = "INSERT" THEN insert_row(row, new, t.cur_col)
                                               ELSE swap_row(row, new, t.cur_col)
    IN  [SetRow(p, t.cur_row, filled) EXCEPT !.cur_col = @ + Len(new)]

\* INSERT: the cells right of the cursor become the next row.
split_cur_row(t) ==
    IF t.cur_col < Columns(t, t.cur_row)
    THEN LET row == RowAt(t, t.cur_row)
             tail == SubSeq(row, t.cur_col + 1, Len(row))
         IN  [SetRow(t, t.cur_row, SubSeq(row, 1, t.cur_col))
                EXCEPT !.rows = InsertAt(@, t.cur_row + 2, tail)]
    ELSE t

ft_lnSplitFirst(t) ==
    IF t.add_strategy = "INSERT" THEN [split_cur_row(t) EXCEPT !.cur_row = @ + 1]
    ELSE [t EXCEPT !.cur_col = 0, !.cur_row = @ + 1]

ft_ln(t) ==
    [(IF t.add_strategy = "INSERT" THEN split_cur_row(t) ELSE t)
        EXCEPT !.cur_col = 0, !.cur_row = @ + 1]

\* The caller of ft_ln drops its status: without memory for the tail the cells
\* right of the cursor are destroyed, and the cursor stays.
ft_ln_fails(t) ==
    IF t.add_strategy = "INSERT" /\ t.cur_col < Columns(t, t.cur_row)
    THEN {t, SetRow(t, t.cur_row, SubSeq(RowAt(t, t.cur_row), 1, t.cur_col))}
    ELSE {}

\* The tail is an insertion into the rows.
ft_ln_loses(t) ==
    IF t.add_strategy = "INSERT" /\ t.cur_col < Columns(t, t.cur_row)
    THEN RowsLost(t, {Len(t.rows)}) ELSE {}

LnOutcomes(t) == {ft_ln(t)} \cup (IF Scarce THEN ft_ln_fails(t) ELSE {})

\* A line that is rejected, or an item for which there is no memory, leaves the
\* rows and cells that were already padded ("todo: clearing pushed items").
PaddedUpTo(t, cols) ==
    LET rows == Max({Len(t.rows), t.cur_row + 1})
    IN  {t} \cup
        { [t EXCEPT !.rows = Padded(@, n, <<>>)] : n \in Len(t.rows)..rows } \cup
        { SetRow(get_row_and_create_if_not_exists(t, t.cur_row), t.cur_row,
                 Padded(IF Columns(t, t.cur_row) = 0 THEN <<>> ELSE RowAt(t, t.cur_row),
                        n, create_cell)) : n \in 0..(cols - 1) }

ft_printf_fails(t) == PaddedUpTo(t, IF t.add_strategy = "INSERT" THEN t.cur_col ELSE 0)

\* An empty row takes over the vector of the new one and need not grow.
ft_printf_loses(t, new) ==
    LET cols == Columns(t, t.cur_row)
        sizes == IF t.add_strategy = "INSERT"
                 THEN cols..(Max({cols, t.cur_col}) + Len(new) - 1)
                 ELSE { n \in {cols} : n + t.cur_col > 0 /\ n < t.cur_col + Len(new) }
    IN  NewRowsLost(t, t.cur_row) \cup CellsLost(t, t.cur_row, sizes)

-----------------------------------------------------------------------------
(* ft_write and its family *)

\* REPLACE keeps the cell, its type included, and only fills its buffer;
\* INSERT puts a new cell at the cursor, beyond the end of the row if need be.
get_cur_str_buffer_and_create_if_not_exists(t) ==
    LET p == get_row_and_create_if_not_exists(t, t.cur_row)
        row == RowAt(p, t.cur_row)
    IN  SetRow(p, t.cur_row,
               IF t.add_strategy = "INSERT"
               THEN InsertAt(Padded(row, t.cur_col, Hole), t.cur_col + 1, create_cell)
               ELSE get_cell_and_create_if_not_exists(row, t.cur_col))

ft_write_impl_(t, text) ==
    [get_cur_str_buffer_and_create_if_not_exists(t)
        EXCEPT !.rows[t.cur_row + 1][t.cur_col + 1].text = text, !.cur_col = @ + 1]

\* No memory for the row, for its cells, or for the text of the new cell.
ft_write_fails(t) ==
    PaddedUpTo(t, IF t.add_strategy = "INSERT" THEN 0 ELSE t.cur_col + 1)
        \cup {get_cur_str_buffer_and_create_if_not_exists(t)}

ft_write_loses(t) ==
    LET cols == Columns(t, t.cur_row)
    IN  NewRowsLost(t, t.cur_row) \cup
        CellsLost(t, t.cur_row, IF t.add_strategy = "INSERT" THEN {cols} ELSE cols..t.cur_col)

ft_row_write(t, cells) ==
    LET after[n \in 0..Len(cells)] ==
          IF n = 0 THEN t ELSE ft_write_impl_(after[n - 1], cells[n])
    IN  after[Len(cells)]

\* A row of cells fails in the middle: those before it stay.
ft_row_write_fails(t, cells) ==
    UNION { ft_write_fails(ft_row_write(t, SubSeq(cells, 1, n))) : n \in 0..(Len(cells) - 1) }

ft_row_write_loses(t, cells) ==
    UNION { ft_write_loses(ft_row_write(t, SubSeq(cells, 1, n))) : n \in 0..(Len(cells) - 1) }

-----------------------------------------------------------------------------
(* Separators, spans and erasure *)

ft_add_separatorNext(t) ==
    [t EXCEPT !.separators = [Padded(@, t.cur_row + 2, FALSE) EXCEPT ![t.cur_row + 2] = TRUE]]

ft_add_separator(t) ==
    [t EXCEPT !.separators = [Padded(@, t.cur_row + 1, FALSE) EXCEPT ![t.cur_row + 1] = TRUE]]

ft_add_separator_fails(t) ==
    { [t EXCEPT !.separators = Padded(@, n, FALSE)] : n \in Len(t.separators)..t.cur_row }

ft_add_separator_loses(t) ==
    { [t EXCEPT !.separators = Holes(Padded(@, n, FALSE))] : n \in Len(t.separators)..t.cur_row }

row_set_cell_span(row, col, hor_span) ==
    [i \in 1..Max({Len(row), col + hor_span}) |->
        LET cell == IF i <= Len(row) THEN row[i] ELSE create_cell
        IN  IF i = col + 1 THEN [cell EXCEPT !.type = "GROUP_MASTER_CELL"]
            ELSE IF col + 1 < i /\ i <= col + hor_span
                 THEN [cell EXCEPT !.type = "GROUP_SLAVE_CELL"] ELSE cell]

ft_set_cell_span(t, r, col, hor_span) ==
    LET row == IF r = CUR THEN t.cur_row ELSE r
        p == get_row_and_create_if_not_exists(t, row)
    IN  SetRow(p, row, row_set_cell_span(RowAt(p, row), col, hor_span))

\* No memory for the row, for the cells before the group, or for one of its
\* slaves: the group is then left shorter.
ft_set_cell_span_fails(t, r, col, hor_span) ==
    LET row == IF r = CUR THEN t.cur_row ELSE r
        p == get_row_and_create_if_not_exists(t, row)
        cells == RowAt(p, row)
    IN  { [t EXCEPT !.rows = Padded(@, n, <<>>)] : n \in Len(t.rows)..row } \cup
        { SetRow(p, row, Padded(cells, n, create_cell)) : n \in Len(cells)..col } \cup
        { SetRow(p, row, row_set_cell_span(cells, col, k)) :
            k \in { i \in 1..(hor_span - 1) : col + i >= Len(cells) } }

ft_set_cell_span_loses(t, r, col, hor_span) ==
    LET row == IF r = CUR THEN t.cur_row ELSE r
    IN  NewRowsLost(t, row) \cup CellsLost(t, row, Columns(t, row)..(col + hor_span - 1))

\* MIN(cols_n - 1, right) - left + 1 erasures: a row that ends two columns or
\* more before left makes the count wrap around, and the loop never ends.
EraseWraps(row, left) == row # <<>> /\ left > Len(row)

ft_row_erase_range(row, left, right) ==
    IF row = <<>> \/ left >= Len(row) THEN row
    ELSE SubSeq(row, 1, left) \o SubSeq(row, Min({right + 1, Len(row)}) + 1, Len(row))

\* An empty row goes, and the separator of its index with it.
DropRowOnly(t, i) == [t EXCEPT !.rows = RemoveAt(@, i)]

DropRow(t, i) ==
    [t EXCEPT !.rows = RemoveAt(@, i),
              !.separators = IF i <= Len(@) THEN RemoveAt(@, i) ELSE @]

\* One pass of the second loop.
DropEmptyRow(acc) ==
    IF acc.t.rows[acc.i] # <<>> THEN [acc EXCEPT !.i = @ + 1]
    ELSE [acc EXCEPT !.t = DropRow(@, acc.i)]

\* Rows top..bottom, columns left..right.  FT_CUR_COLUMN is replaced by the
\* current ROW.
EraseArgs(t, top, left, bottom, right) ==
    [top |-> IF top = CUR THEN t.cur_row ELSE top,
     bottom |-> IF bottom = CUR THEN t.cur_row ELSE bottom,
     left |-> IF left = CUR THEN t.cur_row ELSE left,
     right |-> IF right = CUR THEN t.cur_row ELSE right]

ErasedCells(t, a) ==
    [t EXCEPT !.rows = [i \in DOMAIN @ |->
        IF a.top < i /\ i <= a.bottom + 1 THEN ft_row_erase_range(@[i], a.left, a.right) ELSE @[i]]]

EraseEnds(t, a) ==
    \A i \in DOMAIN t.rows :
      a.top < i /\ i <= a.bottom + 1 => ~EraseWraps(t.rows[i], a.left)

\* Outside of these, the second loop visits rows that are not there.
EraseInside(t, a) == t.rows # <<>> /\ a.top <= Len(t.rows)

ft_erase_range(t, a) ==
    LET n_iterations == Min({Len(t.rows), a.bottom + 1}) - a.top
        pass[j \in 0..n_iterations] ==
          IF j = 0 THEN [t |-> ErasedCells(t, a), i |-> a.top + 1] ELSE DropEmptyRow(pass[j - 1])
    IN  pass[n_iterations].t

-----------------------------------------------------------------------------
(* The calls *)

WithinBounds(t) ==
    /\ Len(t.rows) <= MaxRows /\ Len(t.separators) <= MaxRows + 1
    /\ t.cur_row <= MaxRows /\ t.cur_col <= MaxCols
    /\ \A i \in DOMAIN t.rows : Len(t.rows[i]) <= MaxCols

Success(t) == WithinBounds(t) /\ table' = t /\ status' = "success"

Failure(ts) == \E t \in ts : WithinBounds(t) /\ table' = t /\ status' = "error"

Loss(ts) == Scarce /\ \E t \in ts : table' = t /\ status' = "lost"

Printf(fmt) ==
    LET new == create_row_from_fmt_string(fmt)
    IN  \/ new # NoRow /\ Success(ft_row_printf_impl_(table, new))
        \/ new = NoRow /\ Failure({table})
        \/ Scarce /\ Failure(ft_printf_fails(table))
        \/ new # NoRow /\ Loss(ft_printf_loses(table, new))

PrintfLn(fmt) ==
    LET new == create_row_from_fmt_string(fmt)
        t == ft_row_printf_impl_(table, new)
    IN  \/ new # NoRow /\ \E u \in LnOutcomes(t) : Success(u)
        \/ new = NoRow /\ Failure({table})
        \/ Scarce /\ Failure(ft_printf_fails(table))
        \/ new # NoRow /\ Loss(ft_printf_loses(table, new) \cup ft_ln_loses(t))

Write(text) ==
    \/ Success(ft_write_impl_(table, text))
    \/ Scarce /\ Failure(ft_write_fails(table))
    \/ Loss(ft_write_loses(table))

RowWriteLn(cells) ==
    \/ \E u \in LnOutcomes(ft_row_write(table, cells)) : Success(u)
    \/ Scarce /\ Failure(ft_row_write_fails(table, cells))
    \/ Loss(ft_row_write_loses(table, cells) \cup ft_ln_loses(ft_row_write(table, cells)))

\* Two rows; no line feed after the last.
TableWrite(first, second) ==
    \/ \E u \in LnOutcomes(ft_row_write(table, first)) :
         \/ Success(ft_row_write(u, second))
         \/ Scarce /\ Failure(ft_row_write_fails(u, second))
         \/ Loss(ft_row_write_loses(u, second))
    \/ Scarce /\ Failure(ft_row_write_fails(table, first))
    \/ Loss(ft_row_write_loses(table, first) \cup ft_ln_loses(ft_row_write(table, first)))

Ln ==
    \/ Success(ft_ln(table))
    \/ Scarce /\ Failure(ft_ln_fails(table))
    \/ Loss(ft_ln_loses(table))

AddSeparator ==
    \/ Success(ft_add_separator(table))
    \/ Scarce /\ Failure(ft_add_separator_fails(table))
    \/ Loss(ft_add_separator_loses(table))

SetStrategy(s) == Success([table EXCEPT !.add_strategy = s])

SetCurCell(row, col) == Success([table EXCEPT !.cur_row = row, !.cur_col = col])

SetCellSpan(row, col, hor_span) ==
    \/ hor_span < 2 /\ Failure({table})
    \/ hor_span >= 2 /\ Success(ft_set_cell_span(table, row, col, hor_span))
    \/ Scarce /\ hor_span >= 2 /\ Failure(ft_set_cell_span_fails(table, row, col, hor_span))
    \/ hor_span >= 2 /\ Loss(ft_set_cell_span_loses(table, row, col, hor_span))

EraseRange(top, left, bottom, right) ==
    LET a == EraseArgs(table, top, left, bottom, right)
        invalid == a.top > a.bottom \/ a.left > a.right
    IN  \/ invalid /\ Failure({table})
        \/ /\ ~invalid /\ EraseEnds(table, a) /\ EraseInside(table, a)
           /\ Success(ft_erase_range(table, a))
        \/ /\ ~invalid /\ EraseEnds(table, a) /\ ~EraseInside(table, a)
           /\ status' = "undefined" /\ UNCHANGED table
        \/ ~invalid /\ ~EraseEnds(table, a) /\ status' = "hung" /\ UNCHANGED table

TableInit == table = EmptyTable /\ status = "success"

NoHoleIn(t) == \A i \in DOMAIN t.rows : \A j \in DOMAIN t.rows[i] : t.rows[i][j] # Hole

\* Whatever uses the row next, ft_to_string and ft_destroy_table at the latest,
\* follows a pointer nobody set; nothing is said of the program after that.
ReadHole ==
    /\ status # "lost" /\ ~NoHoleIn(table)
    /\ status' = "undefined"
    /\ UNCHANGED table

Running == status \in {"success", "error"} /\ NoHoleIn(table)

\* What assoc_info_print, node_list_print and proc_info call.
DaemonNext ==
    /\ Running
    /\ \/ \E fmt \in Formats : PrintfLn(fmt)
       \/ AddSeparator

Call ==
    /\ Running
    /\ \/ \E fmt \in Formats : Printf(fmt) \/ PrintfLn(fmt) \/ RowWriteLn(fmt)
       \/ \E first, second \in Formats : TableWrite(first, second)
       \/ \E text \in Texts : Write(text)
       \/ Ln
       \/ AddSeparator
       \/ \E s \in Strategies : SetStrategy(s)
       \/ \E row \in 0..MaxRows \cup {CUR}, col \in 0..MaxCols, span \in Spans :
            SetCellSpan(row, col, span)
       \/ /\ Editing
          /\ \/ \E row \in 0..MaxRows, col \in 0..MaxCols : SetCurCell(row, col)
             \/ \E top, bottom \in 0..MaxRows \cup {CUR}, left, right \in 0..MaxCols \cup {CUR} :
                  EraseRange(top, left, bottom, right)

TableNext == Call \/ ReadHole

DaemonSpec == TableInit /\ [][DaemonNext]_tvars
TableSpec == TableInit /\ [][TableNext]_tvars
-----------------------------------------------------------------------------
\* As long as callers only append (no ft_set_cur_cell, no erasure), the cursor
\* never stands beyond the end of its row, so neither vector_swap nor
\* vector_insert leaves an uninitialised cell in a row, changes of strategy and
\* calls without memory for an item included.  Only the failed growth of a vector
\* loses what it held.
NoHole == status # "lost" => NoHoleIn(table)

\* Erasing takes a row and its separator together: every row that is left
\* keeps the separator it had above it, and so does the bottom of the table.
\* This is about the tables that calls leave unless a vector lost its items.
SeparatorsFollowRows ==
    \A top, bottom \in 0..MaxRows, right \in 0..MaxCols :
      LET a == [top |-> top, left |-> 0, bottom |-> bottom, right |-> right]
          gone == { i \in DOMAIN table.rows :
                      top < i /\ i <= bottom + 1 /\ Len(table.rows[i]) <= right + 1 }
          left(s) == { i \in DOMAIN s : i \notin gone }
          kept(s) == [k \in 1..Cardinality(left(s)) |->
                        s[CHOOSE i \in left(s) : Cardinality({ j \in left(s) : j <= i }) = k]]
      IN  status # "lost" /\ top <= bottom /\ EraseEnds(table, a) /\ EraseInside(table, a) =>
            ft_erase_range(table, a).separators = kept(table.separators)

CellText(cell) == IF cell = Hole THEN Hole ELSE cell.text

Report == INSTANCE FortReport WITH
    lost <- status = "lost",
    lines <- IF status = "lost" THEN <<>>
             ELSE [i \in 1..table.cur_row |->
                     [j \in DOMAIN table.rows[i] |-> CellText(table.rows[i][j])]],
    marks <- IF status = "lost" THEN {}
             ELSE { i \in 0..MaxRows : i < Len(table.separators) /\ table.separators[i + 1] }

\* The table the daemons fill is the report they mean: the lines that were
\* accepted, in their order, and a separator above the line that was current.
\* Calls that fail leave the report as it was, or the growth of a vector fails and
\* all of it is lost.
IsReport == Report!Spec
=============================================================================
