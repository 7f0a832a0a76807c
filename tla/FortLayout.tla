----------------------------- MODULE FortLayout -----------------------------
(***************************************************************************)
(* ft_to_string (cell.c, row.c, table.c, string_buffer.c and fort_impl.c    *)
(* in the amalgamated fort.c): the geometry of a table is computed, a       *)
(* buffer of that size is taken, or the one of the last call grown, and the *)
(* separators and rows are printed into it.  Of a text the widths of its    *)
(* lines are kept, of an escape sequence and a border string the bytes, of  *)
(* what is printed the bytes and the visible width of each line.  Text is   *)
(* CHAR_BUF, one byte per column.                                           *)
(***************************************************************************)
EXTENDS Integers, Sequences, SequencesExt, FiniteSets, FortBorders

CONSTANTS Contents,   \* of cells: a text, the sequence of its line widths, and
                      \* a style, the flags and colours of the cell and of its content
          Paddings,   \* per column: left and right
          Heights,    \* top, bottom, and the height of an empty cell
          MinWidths,  \* FT_CPROP_MIN_WIDTH
          Margins,    \* left, right, top and bottom
          Borders,    \* border styles
          Alignments,
          Spans,      \* horizontal spans a caller sets
          Headers,    \* whether rows may be header rows: a subset of BOOLEAN
          MaxRows, MaxCols

LayoutAssumption == MaxRows \in Nat /\ MaxCols \in Nat \ {0}

FORT_COL_SEPARATOR_LENGTH == 1

VARIABLES table,        \* rows of cells, separators, properties, border and margins
          conv_buffer,  \* the bytes of table->conv_buffer, 0 while there is none
          out           \* what the last ft_to_string printed: its lines, or an error

vars == <<table, conv_buffer, out>>

Unprinted == [status |-> "none", lines |-> <<>>]

-----------------------------------------------------------------------------
(* Cells.  Rows and columns count from 0. *)

Row(t, r) == t.rows[r + 1].cells
Rows(t) == 0..(Len(t.rows) - 1)
ColsOf(t) == Max({0} \cup { Len(Row(t, r)) : r \in Rows(t) })   \* get_table_sizes
Columns(t) == 0..(ColsOf(t) - 1)
HasCell(t, r, c) == c < Len(Row(t, r))
Cell(t, r, c) == Row(t, r)[c + 1]

TextWidth(cell) == Max({0} \cup Range(cell.text))
TextHeight(cell) == Len(cell.text)

cell_vis_width(t, cell, c) ==
    Max({t.props.padding[c].left + t.props.padding[c].right + TextWidth(cell), t.props.min_width})

\* The bytes of the escape sequences around a cell and around its content.
Flags(f) == 4 * Cardinality(f)
FgColor(n) == IF n = 0 THEN 0 ELSE 5
BgColor(n) == IF n = 0 THEN 0 ELSE IF n <= 8 THEN 5 ELSE 6
UNIVERSAL_RESET_TAG == 4

get_style_tag_for_cell(s) == Flags(s.cell_text_style) + BgColor(s.cell_bg_color)

get_reset_style_tag_for_cell(s) ==
    IF s.cell_text_style # {} \/ s.cell_bg_color # 0 THEN UNIVERSAL_RESET_TAG ELSE 0

get_style_tag_for_content(s) ==
    Flags(s.cont_text_style) + FgColor(s.cont_fg_color) + BgColor(s.cont_bg_color)

\* Resetting the content sets the style of the cell again.
get_reset_style_tag_for_content(s) ==
    IF s.cont_text_style # {} \/ s.cont_fg_color # 0 \/ s.cont_bg_color # 0
    THEN UNIVERSAL_RESET_TAG + get_style_tag_for_cell(s) ELSE 0

TagsOf(s) == [cell |-> get_style_tag_for_cell(s), reset_cell |-> get_reset_style_tag_for_cell(s),
              content |-> get_style_tag_for_content(s),
              reset_content |-> get_reset_style_tag_for_content(s)]

cell_invis_codes_width(cell) ==
    cell.tags.cell + cell.tags.reset_cell + cell.tags.content + cell.tags.reset_content

hint_height_cell(t, cell) ==
    t.props.height.top + t.props.height.bottom
      + (IF TextHeight(cell) = 0 THEN t.props.height.empty ELSE TextHeight(cell))

\* The columns of the group that starts at c.
group_cell_number(t, r, c) ==
    IF Cell(t, r, c).type # "MASTER" THEN 1
    ELSE 1 + Cardinality({ s \in (c + 1)..(Len(Row(t, r)) - 1) :
                             \A i \in (c + 1)..s : Cell(t, r, i).type = "SLAVE" })

-----------------------------------------------------------------------------
(* Geometry *)

row_height(t, r) ==
    Max({0} \cup
        { IF HasCell(t, r, c) THEN hint_height_cell(t, Cell(t, r, c))
          ELSE IF t.props.height.empty = 0 THEN 0
          ELSE t.props.height.empty + t.props.height.top + t.props.height.bottom
            : c \in Columns(t) })

CommonWidth(t, c) ==
    Max({0} \cup { cell_vis_width(t, Cell(t, r, c), c) :
                     r \in { x \in Rows(t) : HasCell(t, x, c) /\ Cell(t, x, c).type = "COMMON" } })

InvisibleWidthFirst(t, c) ==
    IF Rows(t) # {} /\ HasCell(t, 0, c) THEN cell_invis_codes_width(Cell(t, 0, c)) ELSE 0

InvisibleWidth(t, c) ==
    Max({0} \cup { cell_invis_codes_width(Cell(t, r, c)) : r \in { x \in Rows(t) : HasCell(t, x, c) } })

GroupWidthNoBoundary(t, widths, r, c) ==
    MapThenSumSet(LAMBDA i : widths[i], c..(c + group_cell_number(t, r, c) - 1))

\* What the columns of a group and the boundaries between them come to.
GroupWidth(t, widths, r, c) ==
    LET last == c + group_cell_number(t, r, c) - 1
    IN  FoldLeft(LAMBDA acc, i : acc + widths[i] + FORT_COL_SEPARATOR_LENGTH,
                 widths[c], [k \in 1..(last - c) |-> c + k])

\* The columns of a group that is too narrow are widened by one in turn.
Widened(t, widths, r, c, hint_width) ==
    LET n == group_cell_number(t, r, c)
        lacking == Max({0, hint_width - GroupWidth(t, widths, r, c)})
    IN  [i \in Columns(t) |->
           IF c <= i /\ i < c + n THEN widths[i] + (lacking + n - 1 - (i - c)) \div n ELSE widths[i]]

Masters(t) ==
    SetToSortSeq({ m \in Columns(t) \X Rows(t) :
                     HasCell(t, m[2], m[1]) /\ Cell(t, m[2], m[1]).type = "MASTER" },
                 LAMBDA x, y : x[1] < y[1] \/ (x[1] = y[1] /\ x[2] < y[2]))

\* Column widths as they are seen (VISIBLE_GEOMETRY), or with room for the
\* escape sequences (INTERN_REPR_GEOMETRY).
table_rows_and_cols_geometry(t, intern) ==
    LET room(c) == IF intern THEN InvisibleWidth(t, c) ELSE 0
        hint(c, r) == cell_vis_width(t, Cell(t, r, c), c)
                        + (IF intern THEN cell_invis_codes_width(Cell(t, r, c)) ELSE 0)
    IN  FoldLeft(LAMBDA widths, m : Widened(t, widths, m[2], m[1], hint(m[1], m[2])),
                 [c \in Columns(t) |-> CommonWidth(t, c) + room(c)], Masters(t))

\* The lines of the output, and the bytes of the longest, newline included.
table_geometry(t) ==
    LET widths == table_rows_and_cols_geometry(t, TRUE)
        cols == ColsOf(t)
        width == 1 + Max({1, cols}) + 1 + MapThenSumSet(LAMBDA c : widths[c], Columns(t))
                   + t.margin.left + t.margin.right
    IN  [height |-> 1 + Max({1, Len(t.rows)})
                      + MapThenSumSet(LAMBDA r : row_height(t, r), Rows(t))
                      + t.margin.top + t.margin.bottom,
         width |-> width * max_border_elem_strlen(t.border)]

-----------------------------------------------------------------------------
(* Printing.  What is printed has bytes and a visible width. *)

Spaces(n) == [bytes |-> n, width |-> n]
Tag(n) == [bytes |-> n, width |-> 0]
Item(n) == [bytes |-> n, width |-> IF n = 0 THEN 0 ELSE 1]
Items(k, n) == [bytes |-> k * Item(n).bytes, width |-> k * Item(n).width]
NEWLINE == Tag(1)

x ++ y == [bytes |-> x.bytes + y.bytes, width |-> x.width + y.width]

\* The pieces of columns 0 to n - 1, one after the other.
Along(n, piece(_)) ==
    LET upTo[k \in 0..n] == IF k = 0 THEN Tag(0) ELSE upTo[k - 1] ++ piece(k - 1)
    IN  upTo[n]

\* print_row_separator above row r, or below the last row; no line at all if
\* its strings are empty.
SeparatorChars(t, r) ==
    LET upper == r > 0
        lower == r < Len(t.rows)
        header == (upper /\ t.rows[r].header) \/ (lower /\ t.rows[r + 1].header)
        b == IF header THEN t.border.header_border_chars ELSE t.border.border_chars
        s == t.border.separator_chars
    IN  IF r < Len(t.separators) /\ t.separators[r + 1]
        THEN [L |-> IF ~lower THEN b["BL"] ELSE IF ~upper THEN b["TL"] ELSE s["LH"],
              R |-> IF ~lower THEN b["BR"] ELSE IF ~upper THEN b["TR"] ELSE s["RH"],
              I |-> s["IH"], IV |-> s["II"], IT |-> s["TI"], IB |-> s["BI"], II |-> s["IH"]]
        ELSE IF ~upper
        THEN [L |-> b["TL"], I |-> b["TT"], IV |-> b["TV"], R |-> b["TR"],
              IT |-> b["TV"], IB |-> b["TV"], II |-> b["TT"]]
        ELSE IF lower
        THEN [L |-> b["LH"], I |-> b["IH"], IV |-> b["II"], R |-> b["RH"],
              IT |-> b["TI"], IB |-> b["BI"], II |-> b["IH"]]
        ELSE [L |-> b["BL"], I |-> b["BB"], IV |-> b["BV"], R |-> b["BR"],
              IT |-> b["BV"], IB |-> b["BV"], II |-> b["BB"]]

\* The regions above and below the table count as slaves.
get_row_cell_types(t, r, c) ==
    IF r \notin Rows(t) THEN "SLAVE" ELSE IF HasCell(t, r, c) THEN Cell(t, r, c).type ELSE "COMMON"

print_row_separator(t, widths, r) ==
    LET ch == SeparatorChars(t, r)
        crossing(c) ==
            LET top == get_row_cell_types(t, r - 1, c) = "SLAVE"
                bottom == get_row_cell_types(t, r, c) = "SLAVE"
            IN  IF ~top /\ ~bottom THEN ch.IV ELSE IF top /\ bottom THEN ch.II
                ELSE IF top THEN ch.IT ELSE ch.IB
        column(c) == Item(IF c = 0 THEN ch.L ELSE crossing(c)) ++ Items(widths[c], ch.I)
    IN  IF ch.L = 0 /\ ch.I = 0 /\ ch.IV = 0 /\ ch.R = 0 THEN <<>>
        ELSE <<Spaces(t.margin.left) ++ Along(ColsOf(t), column) ++ Item(ch.R)
                 ++ Spaces(t.margin.right) ++ NEWLINE>>

\* A line of a text, aligned in the vis_width columns it is given.
buffer_printf(t, cell, i, vis_width) ==
    LET content_width == TextWidth(cell)
        free == vis_width - content_width
        left == CASE t.props.align = "LEFT" -> 0
                  [] t.props.align = "CENTER" -> free \div 2
                  [] t.props.align = "RIGHT" -> free
    IN  Spaces(left) ++ Tag(cell.tags.content) ++ Spaces(cell.text[i + 1])
          ++ Tag(cell.tags.reset_content) ++ Spaces(content_width - cell.text[i + 1])
          ++ Spaces(free - left)

\* snprintf_row and ft_to_string fail when a cell is given less than cell_vis_width.
cell_printf(t, cell, c, i, vis_width) ==
    LET pad == t.props.padding[c]
        top == t.props.height.top
        buf_len == vis_width + cell_invis_codes_width(cell)
        written == cell.tags.cell + cell.tags.content + cell.tags.reset_content
    IN  IF i < top \/ i >= top + TextHeight(cell)
        THEN Tag(written) ++ Spaces(buf_len - written - cell.tags.reset_cell)
               ++ Tag(cell.tags.reset_cell)
        ELSE Tag(cell.tags.cell) ++ Spaces(pad.left)
               ++ buffer_printf(t, cell, i - top, vis_width - pad.left - pad.right)
               ++ Spaces(pad.right) ++ Tag(cell.tags.reset_cell)

\* The columns at which something is printed: not the rest of a group.
Starts(t, r) ==
    { c \in Columns(t) : \A m \in 0..(c - 1) :
        HasCell(t, r, m) => c >= m + group_cell_number(t, r, m) }

snprintf_row(t, widths, r) ==
    LET b == IF t.rows[r + 1].header THEN t.border.header_border_chars ELSE t.border.border_chars
        starts == Starts(t, r)
        cell(c, i) == IF HasCell(t, r, c)
                      THEN cell_printf(t, Cell(t, r, c), c, i, GroupWidth(t, widths, r, c))
                      ELSE Spaces(widths[c])
        ends(c) == c + (IF HasCell(t, r, c) THEN group_cell_number(t, r, c) ELSE 1)
        printed(c, i) == cell(c, i) ++ IF ends(c) < ColsOf(t) THEN Item(b["IV"]) ELSE Tag(0)
        line(i) == Spaces(t.margin.left) ++ Item(b["LL"])
                     ++ Along(ColsOf(t), LAMBDA c : IF c \in starts THEN printed(c, i) ELSE Tag(0))
                     ++ Item(b["RR"]) ++ Spaces(t.margin.right) ++ NEWLINE
    IN  [fails |-> row_height(t, r) > 0 /\ \E c \in starts :
                     HasCell(t, r, c) /\ GroupWidth(t, widths, r, c) < cell_vis_width(t, Cell(t, r, c), c),
         lines |-> [k \in 1..row_height(t, r) |-> line(k - 1)]]

\* The lines of the table without its top and bottom margin.
Printed(t) ==
    LET widths == table_rows_and_cols_geometry(t, FALSE)
        row(r) == snprintf_row(t, widths, r)
    IN  [fails |-> \E r \in Rows(t) : row(r).fails,
         lines |-> FlattenSeq([k \in 1..Len(t.rows) |->
                      print_row_separator(t, widths, k - 1) \o row(k - 1).lines])
                    \o print_row_separator(t, widths, Len(t.rows))]

Bytes(lines) == Along(Len(lines), LAMBDA k : lines[k + 1]).bytes

\* The buffer of the last call, doubled until it is large enough.
Grown(size, n) ==
    LET grown[s \in Nat] == IF s >= n THEN s ELSE grown[2 * s]
    IN  IF size = 0 THEN n ELSE grown[size]

ft_to_string ==
    LET g == table_geometry(table)
        n_codepoints == g.height * g.width + 1
        p == Printed(table)
        margins == (table.margin.top + table.margin.bottom) * g.width
    IN  /\ conv_buffer' = Grown(conv_buffer, n_codepoints)
        /\ out' = IF table.rows = <<>> THEN [status |-> "empty", lines |-> <<>>]
                  ELSE IF p.fails THEN [status |-> "narrow", lines |-> <<>>]
                  ELSE IF Bytes(p.lines) + margins >= conv_buffer'
                  THEN [status |-> "overflow", lines |-> <<>>]
                  ELSE [status |-> "printed", lines |-> p.lines]
        /\ UNCHANGED table

-----------------------------------------------------------------------------
(* Filling the table: ft_printf_ln, ft_add_separator, ft_set_cell_span and *)
(* the row type, as FortTable and FortProps describe them.                  *)

FT_TSTYLE_DEFAULT == [cell_text_style |-> {}, cell_bg_color |-> 0,
                      cont_text_style |-> {}, cont_fg_color |-> 0, cont_bg_color |-> 0]
NewCell == [text |-> <<>>, type |-> "COMMON", tags |-> TagsOf(FT_TSTYLE_DEFAULT)]
Cells == { [text |-> x.text, type |-> "COMMON", tags |-> TagsOf(x.style)] : x \in Contents }

AddRow(cells, header) ==
    /\ table' = [table EXCEPT !.rows = Append(@, [cells |-> cells, header |-> header])]
    /\ out' = Unprinted /\ UNCHANGED conv_buffer

AddSeparator ==
    LET n == Len(table.rows) + 1
    IN  /\ Len(table.separators) < n
        /\ table' = [table EXCEPT !.separators = [i \in 1..n |-> IF i < n /\ i <= Len(@) THEN @[i] ELSE i = n]]
        /\ out' = Unprinted /\ UNCHANGED conv_buffer

SetSpan(r, c, span) ==
    LET row == Row(table, r)
        cellAt(i) == IF i <= Len(row) THEN row[i] ELSE NewCell
        new == [i \in 1..Max({Len(row), c + span}) |->
                  IF i = c + 1 THEN [cellAt(i) EXCEPT !.type = "MASTER"]
                  ELSE IF c + 1 < i /\ i <= c + span THEN [cellAt(i) EXCEPT !.type = "SLAVE"]
                  ELSE cellAt(i)]
    IN  /\ span >= 2 /\ c + span <= MaxCols
        /\ table' = [table EXCEPT !.rows[r + 1].cells = new]
        /\ out' = Unprinted /\ UNCHANGED conv_buffer

Init ==
    /\ table \in { [rows |-> <<>>, separators |-> <<>>, border |-> b, margin |-> m,
                    props |-> [padding |-> p, height |-> h, min_width |-> w, align |-> al]] :
                     b \in Borders, m \in Margins, p \in Paddings, h \in Heights,
                     w \in MinWidths, al \in Alignments }
    /\ conv_buffer = 0 /\ out = Unprinted

RowsOfCells == UNION { [1..n -> Cells] : n \in 0..MaxCols }

Next ==
    \/ /\ Len(table.rows) < MaxRows
       /\ \E cells \in RowsOfCells, header \in Headers : AddRow(cells, header)
    \/ AddSeparator
    \/ \E r \in Rows(table), c \in 0..(MaxCols - 1), span \in Spans : SetSpan(r, c, span)
    \/ out = Unprinted /\ ft_to_string   \* once more, and nothing changes

Spec == Init /\ [][Next]_vars
-----------------------------------------------------------------------------
\* The title of a group does not fit its columns, and a cell of another row in
\* them is coloured.  With room for its escape sequences the columns are wide
\* enough for the title, or widened by less than they are when they are printed
\* and the escape sequences come on top.
Crowded(t) ==
    LET widths == [c \in Columns(t) |-> CommonWidth(t, c)]
    IN  \E q \in Rows(t), c \in Columns(t) :
          /\ HasCell(t, q, c) /\ Cell(t, q, c).type = "MASTER"
          /\ GroupWidth(t, widths, q, c) < cell_vis_width(t, Cell(t, q, c), c)
          /\ \E r \in Rows(t) \ {q}, i \in c..(c + group_cell_number(t, q, c) - 1) :
               HasCell(t, r, i) /\ Cell(t, r, i).type # "SLAVE"
                 /\ cell_invis_codes_width(Cell(t, r, i)) > 0

\* ft_to_string lacks room only for a crowded table: otherwise the size computed
\* beforehand, and the buffer kept from an earlier call, hold what is printed
\* ("Determine size of table string representation"); and every cell is given at
\* least the width it asks for, in crowded tables too.
Fits ==
    /\ out.status # "narrow"
    /\ out.status = "overflow" => Crowded(table)

HasGroup(t) == \E r \in Rows(t), c \in Columns(t) : HasCell(t, r, c) /\ Cell(t, r, c).type = "MASTER"

\* Under an even border style every line of the table is equally wide, separator
\* lines, rows with fewer cells, groups and header rows included, as the pictures
\* TABLE BORDER DESCRIPTION and HORIZONTAL SEPARATOR DESCRIPTION show it.
Aligned ==
    \/ \A i, j \in DOMAIN out.lines : out.lines[i].width = out.lines[j].width
    \/ ~Even(table.border, HasGroup(table))
=============================================================================
