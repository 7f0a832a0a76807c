---------------------------- MODULE MCFortLayout ----------------------------
(***************************************************************************)
(* What the daemons print, or might: the table they fill line by line, and  *)
(* the layout of small tables of three kinds, all with cells that span two  *)
(* columns: with every built-in border style, margins and cells of two      *)
(* lines; with titles wider than their columns; and with colours and a      *)
(* minimal width.  A behaviour is about one of them.                        *)
(***************************************************************************)
EXTENDS Naturals, Sequences, FortTable

CONSTANTS field, barred   \* barred contains a separator

VARIABLES kind,                      \* the report that is filled, or a table of a kind
          drawn, conv_buffer, out    \* FortLayout

ReportFormats == {<<field>>, <<barred>>, <<field, field>>, <<field, barred>>}

Style == INSTANCE FortBorders

Of(text, style) == [text |-> text, style |-> style]
Padding(left) == [col \in 0..1 |-> [left |-> left, right |-> 1]]
Height(top, empty) == [top |-> top, bottom |-> 0, empty |-> empty]
NoMargin == [left |-> 0, right |-> 0, top |-> 0, bottom |-> 0]

\* A cell and its content with a colour and a flag each, and one without.
Plain == [cell_text_style |-> {}, cell_bg_color |-> 0,
          cont_text_style |-> {}, cont_fg_color |-> 0, cont_bg_color |-> 0]
Coloured == [cell_text_style |-> {1}, cell_bg_color |-> 9,
             cont_text_style |-> {3}, cont_fg_color |-> 1, cont_bg_color |-> 1]

\* Styles of a caller: with lines between all rows, only below a header, and
\* without the one below a header, which takes the ends of the others.
Chars(n) == [top_border_ch |-> n, separator_ch |-> n, bottom_border_ch |-> n,
             side_border_ch |-> n, out_intersect_ch |-> n, in_intersect_ch |-> n]
NoLine(n) == [Chars(n) EXCEPT !.separator_ch = 0, !.in_intersect_ch = 0]
CallerStyles ==
    { Style!set_border_props_for_props(
        [border_chs |-> chars[1], header_border_chs |-> chars[2], hor_separator_char |-> 1]) :
        chars \in {<<Chars(2), Chars(2)>>, <<NoLine(2), Chars(2)>>, <<Chars(2), NoLine(2)>>} }

\* No left padding in the first column: what the daemons print.
Framed == INSTANCE FortLayout WITH
    table <- drawn,
    Contents <- {Of(<<1, 3>>, Plain)}, Paddings <- {Padding(0)},
    Heights <- {Height(0, 1)}, MinWidths <- {0},
    Margins <- {[left |-> 1, right |-> 2, top |-> 1, bottom |-> 0]},
    Borders <- Style!built_in_styles \cup CallerStyles, Alignments <- {"LEFT"}, Spans <- {2},
    Headers <- BOOLEAN, MaxRows <- 2, MaxCols <- 2

\* A title wider than two columns, which have to be widened for it.
Spanned == INSTANCE FortLayout WITH
    table <- drawn,
    Contents <- {Of(<<>>, Plain), Of(<<7>>, Plain)}, Paddings <- {Padding(1)},
    Heights <- {Height(1, 0)}, MinWidths <- {0}, Margins <- {NoMargin},
    Borders <- {Style!DOUBLE2_STYLE}, Alignments <- {"RIGHT"}, Spans <- {2},
    Headers <- {FALSE}, MaxRows <- 2, MaxCols <- 2

\* The title of a group may take more than the escape sequences of a column.
Tinted == INSTANCE FortLayout WITH
    table <- drawn,
    Contents <- {Of(<<60>>, Plain), Of(<<60>>, Coloured), Of(<<>>, Coloured)},
    Paddings <- {Padding(1)},
    Heights <- {Height(0, 1)}, MinWidths <- {5}, Margins <- {NoMargin},
    Borders <- {Style!BASIC2_STYLE}, Alignments <- {"CENTER"}, Spans <- {2},
    Headers <- {FALSE}, MaxRows <- 2, MaxCols <- 2

ASSUME LayoutAssumptions ==
    TableAssumption /\ Framed!LayoutAssumption /\ Spanned!LayoutAssumption /\ Tinted!LayoutAssumption

\* The built-in styles are even, all but EMPTY_STYLE for groups too; the last
\* style of the caller is not.
ASSUME EvenStyles ==
    /\ \A s \in Style!built_in_styles : Style!Even(s, FALSE)
    /\ \A s \in Style!built_in_styles \ {Style!EMPTY_STYLE} : Style!Even(s, TRUE)
    /\ Cardinality({ s \in CallerStyles : Style!Even(s, TRUE) }) = 2

drawn_vars == <<drawn, conv_buffer, out>>
vars == <<kind, tvars, drawn_vars>>

Init ==
    /\ TableInit
    /\ \/ kind = "framed" /\ Framed!Init
       \/ kind \in {"spanned", "report"} /\ Spanned!Init
       \/ kind = "tinted" /\ Tinted!Init

\* Bound: the buffer of a framed table is not re-used; the other kinds print again.
PrintedOnce == conv_buffer = 0

Next ==
    /\ UNCHANGED kind
    /\ \/ kind = "framed" /\ PrintedOnce /\ Framed!Next /\ UNCHANGED tvars
       \/ kind = "spanned" /\ Spanned!Next /\ UNCHANGED tvars
       \/ kind = "tinted" /\ Tinted!Next /\ UNCHANGED tvars
       \/ kind = "report" /\ DaemonNext /\ UNCHANGED drawn_vars

Spec == Init /\ [][Next]_vars
-----------------------------------------------------------------------------
\* ft_to_string lacks room only for a table with a group whose title does not fit
\* its columns and a coloured cell of another row in them.
Fits == Tinted!Fits

\* Under a border style that is even, every line of a printed table is equally wide.
Aligned == Framed!Aligned
=============================================================================
