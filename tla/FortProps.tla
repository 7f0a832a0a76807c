----------------------------- MODULE FortProps -----------------------------
(***************************************************************************)
(* The properties of libfort tables (properties.c and the setters of       *)
(* fort_impl.c in the amalgamated fort.c): the global defaults, and for     *)
(* each table a border style, properties of the table, and a vector of      *)
(* records of cell properties, one per (row, column), where ANY stands for  *)
(* every row or every column.  A cell is drawn with what                    *)
(* get_cell_property_hierarchically finds at that moment.                   *)
(***************************************************************************)
EXTENDS Integers, Sequences, SequencesExt

CONSTANTS Tables,      \* the tables that may be created
          Rows, Cols,  \* indices of the cells that properties are set for
          ANY,         \* FT_ANY_ROW and FT_ANY_COLUMN
          None,        \* no table
          Numbers,     \* properties that are checked not to be negative
          Enums,       \* properties that take any value (alignment, colour, row type)
          Styles,      \* text styles, which accumulate
          Values,      \* what callers set numbers and choices to
          Margins,     \* what callers set the margin of a table to
          Bits,        \* the text styles other than FT_TSTYLE_DEFAULT
          Borders,     \* border styles
          Initial,     \* the values of g_default_cell_properties, by property
          Unflagged,   \* the properties its flags leave out (FT_CPROP_ROW_TYPE)
          MaxEntries   \* bound on the records of a table

Properties == Numbers \cup Enums \cup Styles

\* A text style is a set of bits.
FT_TSTYLE_DEFAULT == {"default"}

PropsAssumption ==
    /\ ANY \notin Rows \cup Cols
    /\ Values \subseteq Int /\ Margins \subseteq Int /\ MaxEntries \in Nat
    /\ Styles \cap (Numbers \cup Enums) = {}
    /\ DOMAIN Initial = Properties /\ Initial = [p \in Properties |-> Initial[p]]
    /\ \A p \in Properties :
         IF p \in Styles THEN Initial[p] = FT_TSTYLE_DEFAULT ELSE Initial[p] \in Values

VARIABLES defaults,  \* g_default_cell_properties: its flags and values
          globals,   \* g_table_properties.border_style, g_entire_table_properties
          tables,    \* each table's properties, or None
          returned   \* what the last call returned

pvars == <<defaults, globals, tables, returned>>

AnyRow == Rows \cup {ANY}
AnyCol == Cols \cup {ANY}

-----------------------------------------------------------------------------
(* Records of cell properties: properties_flags says which values count. *)

\* What memset leaves in a record.
Zero(p) == IF p \in Styles THEN {} ELSE 0

\* A record that did not exist: for all cells it is a copy of the defaults,
\* for others it sets nothing.
NewEntryAll(row, col) ==
    [row |-> row, col |-> col, flags |-> defaults.flags, values |-> defaults.values]

NewEntry(row, col) ==
    IF row = ANY /\ col = ANY
    THEN [row |-> row, col |-> col, flags |-> defaults.flags, values |-> defaults.values]
    ELSE [row |-> row, col |-> col, flags |-> {},
          values |-> [p \in Properties |-> Zero(p)]]

Position(cont, row, col) ==
    { i \in DOMAIN cont : cont[i].row = row /\ cont[i].col = col }

get_cell_prop_and_create_if_not_exists(cont, row, col) ==
    IF Position(cont, row, col) = {} THEN Append(cont, NewEntry(row, col)) ELSE cont

Accepted(p, v) == p \in Numbers => v >= 0

StyleWith(old, v) == IF v = FT_TSTYLE_DEFAULT THEN v ELSE old \cup v

set_cell_property_implNoFlag(opt, p, v) ==
    [opt EXCEPT
        !.values[p] = IF ~Accepted(p, v) THEN @
                      ELSE IF p \in Styles THEN StyleWith(@, v) ELSE v]

\* The property counts as set before its value is looked at.
set_cell_property_impl(opt, p, v) ==
    [opt EXCEPT
        !.flags = @ \cup {p},
        !.values[p] = IF ~Accepted(p, v) THEN @
                      ELSE IF p \in Styles THEN StyleWith(@, v) ELSE v]

set_cell_property(cont, row, col, p, v) ==
    LET c == get_cell_prop_and_create_if_not_exists(cont, row, col)
    IN  [c EXCEPT ![Min(Position(c, row, col))] = set_cell_property_impl(@, p, v)]

\* The first record found that sets p: the cell's, its column's, its row's,
\* that of all cells.
SetsAt(cont, row, col, p) ==
    \E i \in Position(cont, row, col) : p \in cont[i].flags

get_cell_property_hierarchically(cont, row, col, p) ==
    LET order == <<<<row, col>>, <<ANY, col>>, <<row, ANY>>, <<ANY, ANY>>>>
        found == { k \in DOMAIN order : SetsAt(cont, order[k][1], order[k][2], p) }
    IN  IF found = {} THEN defaults.values[p]
        ELSE cont[Min(Position(cont, order[Min(found)][1], order[Min(found)][2]))].values[p]

-----------------------------------------------------------------------------
(* The calls *)

FT_SUCCESS == "FT_SUCCESS"
FT_EINVAL == "FT_EINVAL"

Result(p, v) == IF Accepted(p, v) THEN FT_SUCCESS ELSE FT_EINVAL

ValuesOf(p) == IF p \in Styles THEN { {b} : b \in Bits } \cup {FT_TSTYLE_DEFAULT} ELSE Values

Exists(t) == tables[t] # None

create_table_properties ==
    [cell_properties |-> <<>>, border_style |-> globals.border_style, margin |-> globals.margin]

ft_create_table(t) ==
    /\ ~Exists(t)
    /\ tables' = [tables EXCEPT ![t] = create_table_properties]
    /\ returned' = FT_SUCCESS /\ UNCHANGED <<defaults, globals>>

copy_table_properties(t, u) ==
    /\ Exists(t) /\ ~Exists(u)
    /\ tables' = [tables EXCEPT ![u] = tables[t]]
    /\ returned' = FT_SUCCESS /\ UNCHANGED <<defaults, globals>>

destroy_table_properties(t) ==
    /\ Exists(t)
    /\ tables' = [tables EXCEPT ![t] = None]
    /\ returned' = FT_SUCCESS /\ UNCHANGED <<defaults, globals>>

ft_set_cell_prop(t, row, col, p, v) ==
    LET cont == set_cell_property(tables[t].cell_properties, row, col, p, v)
    IN  /\ Exists(t) /\ Len(cont) <= MaxEntries
        /\ tables' = [tables EXCEPT ![t].cell_properties = cont]
        /\ returned' = Result(p, v) /\ UNCHANGED <<defaults, globals>>

set_default_cell_property(p, v) ==
    /\ defaults' = set_cell_property_impl(defaults, p, v)
    /\ returned' = Result(p, v) /\ UNCHANGED <<globals, tables>>

\* set_entire_table_property_internal looks at the value first.
ft_set_tbl_prop(t, v) ==
    /\ Exists(t)
    /\ tables' = IF v < 0 THEN tables ELSE [tables EXCEPT ![t].margin = v]
    /\ returned' = (IF v < 0 THEN FT_EINVAL ELSE FT_SUCCESS)
    /\ UNCHANGED <<defaults, globals>>

ft_set_default_tbl_prop(v) ==
    /\ globals' = IF v < 0 THEN globals ELSE [globals EXCEPT !.margin = v]
    /\ returned' = (IF v < 0 THEN FT_EINVAL ELSE FT_SUCCESS)
    /\ UNCHANGED <<defaults, tables>>

ft_set_border_style(t, style) ==
    /\ Exists(t)
    /\ tables' = [tables EXCEPT ![t].border_style = style]
    /\ returned' = FT_SUCCESS /\ UNCHANGED <<defaults, globals>>

ft_set_default_border_style(style) ==
    /\ globals' = [globals EXCEPT !.border_style = style]
    /\ returned' = FT_SUCCESS /\ UNCHANGED <<defaults, tables>>

PropsInit ==
    /\ defaults = [flags |-> Properties \ Unflagged, values |-> Initial]
    /\ globals \in [border_style : Borders, margin : {0}]
    /\ tables = [t \in Tables |-> None]
    /\ returned = FT_SUCCESS

\* The setters, of the properties ps.
SetCellProp(ps) ==
    \E t \in Tables, row \in AnyRow, col \in AnyCol, p \in ps :
      \E v \in ValuesOf(p) : ft_set_cell_prop(t, row, col, p, v)

SetDefaultCellProp(ps) == \E p \in ps : \E v \in ValuesOf(p) : set_default_cell_property(p, v)

PropsStep(ps) ==
    \/ \E t \in Tables : ft_create_table(t) \/ destroy_table_properties(t)
    \/ \E t, u \in Tables : copy_table_properties(t, u)
    \/ SetCellProp(ps)
    \/ SetDefaultCellProp(ps)
    \/ \E v \in Margins : ft_set_default_tbl_prop(v) \/ \E t \in Tables : ft_set_tbl_prop(t, v)
    \/ \E style \in Borders :
         ft_set_default_border_style(style) \/ \E t \in Tables : ft_set_border_style(t, style)

PropsNext == PropsStep(Properties)

PropsSpec == PropsInit /\ [][PropsNext]_pvars
-----------------------------------------------------------------------------
\* What a cell is drawn with.
Shown(t, r, c, p) == get_cell_property_hierarchically(tables[t].cell_properties, r, c, p)

Covers(row, col, r, c) == row \in {r, ANY} /\ col \in {c, ANY}

\* The tables whose cell properties a step writes.
Modified ==
    { t \in Tables : /\ Exists(t) /\ tables'[t] # None
                     /\ tables'[t].cell_properties # tables[t].cell_properties }

\* ft_set_cell_prop is local: it changes one property of the cells its row and
\* column name, and nothing else of any cell, although a record for all cells
\* starts as a copy of every default and hides them from then on.
SetIsLocal ==
    [][\A t \in Modified, row \in AnyRow, col \in AnyCol, p \in Properties :
         (\E v \in ValuesOf(p) : ft_set_cell_prop(t, row, col, p, v)) =>
           \A u \in Tables, r \in Rows, c \in Cols, q \in Properties :
             Exists(u) /\ (u # t \/ q # p \/ ~Covers(row, col, r, c)) =>
               Shown(u, r, c, q)' = Shown(u, r, c, q)]_pvars

\* After ft_set_cell_prop succeeded, every cell it names shows the new value
\* unless another record for the cell sets the property too.
SetTakesEffect ==
    [][\A t \in Modified, row \in AnyRow, col \in AnyCol, p \in Numbers \cup Enums, v \in Values :
         ft_set_cell_prop(t, row, col, p, v) /\ Accepted(p, v) =>
           \A r \in Rows, c \in Cols :
             \/ ~Covers(row, col, r, c)
             \/ \E i \in DOMAIN tables[t].cell_properties :
                  LET opt == tables[t].cell_properties[i]
                  IN  /\ Covers(opt.row, opt.col, r, c) /\ p \in opt.flags
                      /\ <<opt.row, opt.col>> # <<row, col>>
             \/ Shown(t, r, c, p)' = v]_pvars
=============================================================================
