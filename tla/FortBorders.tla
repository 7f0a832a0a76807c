---------------------------- MODULE FortBorders ----------------------------
(***************************************************************************)
(* The border styles of libfort (properties.c and fort_impl.c in the        *)
(* amalgamated fort.c).  Of a border string only its length in bytes        *)
(* matters; one that is not empty is one character wide.  The items are     *)
(* named as in enum f_border_item_pos and enum f_separator_item_pos.        *)
(***************************************************************************)
EXTENDS Naturals, FiniteSetsExt

BorderItems == {"TL", "TT", "TV", "TR", "LL", "IV", "RR", "LH", "IH", "II", "RH",
                "BL", "BB", "BV", "BR", "LI", "TI", "RI", "BI"}
SeparatorItems == {"LH", "IH", "II", "RH", "TI", "BI"}
Inside == {"LH", "IH", "II", "RH"}

\* k bytes for every item but those in gaps.
Border(k, gaps) == [i \in BorderItems |-> IF i \in gaps THEN 0 ELSE k]
Separator(k, gaps) == [i \in SeparatorItems |-> IF i \in gaps THEN 0 ELSE k]

Style(border, header, separator) ==
    [border_chars |-> border, header_border_chars |-> header, separator_chars |-> separator]

Sides == {"TL", "TR", "LL", "RR", "LH", "RH", "BL", "BR"}

BASIC_STYLE  == Style(Border(1, Inside), Border(1, {}), Separator(1, {}))
BASIC2_STYLE == Style(Border(1, {}), Border(1, {}), Separator(1, {}))
SIMPLE_STYLE == Style(Border(1, BorderItems \ {"IV"}), Border(1, Sides \cup {"TT", "TV"}),
                      Separator(1, {"LH", "RH"}))
PLAIN_STYLE  == Style(Border(1, BorderItems \ {"IV"}), Border(1, Sides), Separator(1, {"LH", "RH"}))
DOT_STYLE    == BASIC_STYLE
EMPTY_STYLE  == Style(Border(0, {}), Border(0, {}), Separator(1, SeparatorItems \ {"IH"}))
EMPTY2_STYLE == Style(Border(1, Inside), Border(1, Inside), Separator(1, {}))

\* SOLID, SOLID_ROUND, NICE and DOUBLE; BOLD and FRAME have the same gaps.
SOLID_STYLE   == Style(Border(3, Inside), Border(3, {}), Separator(3, {}))
DOUBLE2_STYLE == Style(Border(3, {}), Border(3, {}), Separator(3, {}))
BOLD_STYLE    == SOLID_STYLE
BOLD2_STYLE   == DOUBLE2_STYLE
FRAME_STYLE   == SOLID_STYLE

built_in_styles ==
    {BASIC_STYLE, BASIC2_STYLE, SIMPLE_STYLE, PLAIN_STYLE, DOT_STYLE, EMPTY_STYLE, EMPTY2_STYLE,
     SOLID_STYLE, DOUBLE2_STYLE, BOLD_STYLE, BOLD2_STYLE, FRAME_STYLE}

\* A style of the caller: of its ft_border_chars, by item.
CharsOf(c) ==
    [i \in BorderItems |->
        CASE i = "TT" -> c.top_border_ch
          [] i = "IH" -> c.separator_ch
          [] i = "BB" -> c.bottom_border_ch
          [] i \in {"LL", "IV", "RR"} -> c.side_border_ch
          [] i \in {"TL", "TV", "TR", "LH", "RH", "BL", "BV", "BR"} -> c.out_intersect_ch
          [] i \in {"II", "LI", "TI", "RI", "BI"} -> c.in_intersect_ch]

\* Without a line between rows its ends go too; an empty line between header
\* rows takes the ends from the common rows.
set_border_props_for_props(style) ==
    LET empty(c) == c.separator_ch = 0 /\ c.in_intersect_ch = 0
        noEnds(b) == [b EXCEPT !["LH"] = 0, !["RH"] = 0]
        common == CharsOf(style.border_chs)
    IN  Style(IF empty(style.border_chs) \/ empty(style.header_border_chs)
              THEN noEnds(common) ELSE common,
              CharsOf(style.header_border_chs),
              [i \in SeparatorItems |-> IF i = "IH" THEN style.hor_separator_char
                                        ELSE style.header_border_chs.out_intersect_ch])

\* A style is even if every line that is printed has ends and crossings exactly
\* where the rows do.  With groups the rows need a string between their cells: a
\* group is printed as if there were one (FORT_COL_SEPARATOR_LENGTH).
Even(s, groups) ==
    LET kinds == {s.border_chars, s.header_border_chars}
        sep == s.separator_chars
        line(l, i, crossings, r) == [l |-> l, i |-> i, iv |-> crossings[1],
                                     crossings |-> Range(crossings), r |-> r]
        marked == <<sep["II"], sep["TI"], sep["BI"]>>
        lines(b) == {line(b["TL"], b["TT"], <<b["TV"]>>, b["TR"]),
                     line(b["LH"], b["IH"], <<b["II"], b["TI"], b["BI"]>>, b["RH"]),
                     line(b["BL"], b["BB"], <<b["BV"]>>, b["BR"]),
                     line(b["TL"], sep["IH"], marked, b["TR"]),
                     line(sep["LH"], sep["IH"], marked, sep["RH"]),
                     line(b["BL"], sep["IH"], marked, b["BR"])}
    IN  /\ \A b, c \in kinds, i \in {"LL", "IV", "RR"} : b[i] = 0 <=> c[i] = 0
        /\ \A b \in kinds : \A x \in lines(b) :
             \/ {x.l, x.i, x.iv, x.r} = {0}
             \/ /\ x.i > 0 /\ (x.l = 0 <=> b["LL"] = 0) /\ (x.r = 0 <=> b["RR"] = 0)
                /\ \A n \in x.crossings : n = 0 <=> b["IV"] = 0
        /\ groups => \A b \in kinds : b["IV"] > 0

max_border_elem_strlen(s) ==
    Max({1} \cup { s.border_chars[i] : i \in BorderItems }
            \cup { s.header_border_chars[i] : i \in BorderItems }
            \cup { s.separator_chars[i] : i \in SeparatorItems })
=============================================================================
