------------------------------ MODULE FortText ------------------------------
(***************************************************************************)
(* How libfort turns a formatted line into the cells of a row and a cell    *)
(* into the lines it shows (fort_utils.c, row.c and string_buffer.c in the  *)
(* amalgamated fort.c).  A string is a sequence of characters, of which     *)
(* only the column separator and the newline matter; the char, wchar_t and  *)
(* UTF-8 twins of a function are one operator.                              *)
(*                                                                          *)
(* One call of ft_printf is followed: the values are printed into a buffer  *)
(* that doubles until they fit, then the text is cut into cells.            *)
(***************************************************************************)
EXTENDS Naturals, Sequences, SequencesExt

CONSTANTS Letters,              \* the ordinary characters
          MaxLength,            \* bound on the length of a value
          MaxValues,            \* bound on the columns of a format
          DEFAULT_STR_BUF_SIZE, \* characters in a new string buffer
          Types,                \* CHAR_BUF, W_CHAR_BUF, UTF8_BUF: the buffer's type
          Scarce                \* whether allocations may fail

TextAssumption ==
    /\ MaxLength \in Nat /\ MaxValues \in Nat /\ DEFAULT_STR_BUF_SIZE \in Nat \ {0}
    /\ Types \subseteq {"CHAR_BUF", "W_CHAR_BUF", "UTF8_BUF"}
    /\ Scarce \in BOOLEAN

g_col_separator == "|"
newline == "\n"
Chars == Letters \cup {g_col_separator, newline}
Strings == UNION { [1..n -> Chars] : n \in 0..MaxLength }

VARIABLES fmt,     \* the values of the format string, one per column
          type,    \* of the buffer
          size,    \* its capacity in characters (string_buffer_width_capacity)
          pc,      \* "print", "grow", "cut" or "done"
          row,     \* the texts of the cells, once cut
          starved  \* whether an allocation failed

vars == <<fmt, type, size, pc, row, starved>>

-----------------------------------------------------------------------------
(* Strings; positions count from 1, and 0 is the null pointer. *)

\* The first ch of s from pos on (the C library's strchr, wcschr, utf8chr).
strchr(s, pos, ch) ==
    LET found == { i \in pos..Len(s) : s[i] = ch }
    IN  IF found = {} THEN 0 ELSE Min(found)

strchr_count(s, ch) ==
    LET from[pos \in 1..(Len(s) + 1)] ==
          IF strchr(s, pos, ch) = 0 THEN 0 ELSE 1 + from[strchr(s, pos, ch) + 1]
    IN  from[1]

columns_number_in_fmt_string(s) == strchr_count(s, g_col_separator) + 1

\* The position where the n-th substring begins, counting from 0.
str_n_substring_begShort(s, ch, n) ==
    LET beg[k \in 0..n] ==
          IF k = 0 THEN 1
          ELSE IF beg[k - 1] = 0 \/ strchr(s, beg[k - 1], ch) = 0 THEN 0
          ELSE strchr(s, beg[k - 1], ch) + 1
    IN  IF beg[n] > Len(s) THEN 0 ELSE beg[n]

str_n_substring_beg(s, ch, n) ==
    LET beg[k \in 0..n] ==
          IF k = 0 THEN 1
          ELSE IF beg[k - 1] = 0 \/ strchr(s, beg[k - 1], ch) = 0 THEN 0
          ELSE strchr(s, beg[k - 1], ch) + 1
    IN  beg[n]

\* begin and end of the n-th substring; end is one past its last character.
str_n_substring(s, ch, n) ==
    LET beg == str_n_substring_beg(s, ch, n)
        en == strchr(s, beg, ch)
    IN  IF beg = 0 THEN [begin |-> 0, end |-> 0]
        ELSE [begin |-> beg, end |-> IF en = 0 THEN Len(s) + 1 ELSE en]

buffer_text_visible_height(s) == IF s = <<>> THEN 0 ELSE 1 + strchr_count(s, newline)

\* The widest line: substrings are asked for until there is none.
buffer_text_visible_width(s) ==
    LET line(n) == str_n_substring(s, newline, n)
        from[n \in 0..(Len(s) + 1)] ==
          IF line(n).begin = 0 THEN 0
          ELSE Max({line(n).end - line(n).begin, from[n + 1]})
    IN  from[0]

-----------------------------------------------------------------------------
(* Cutting a line into cells *)

\* The loop stops at the end of the string, so a separator in the last place
\* leaves a cell to be added.
create_row_from_string(s) ==
    LET cells[pos \in 1..(Len(s) + 1)] ==
          LET bar == strchr(s, pos, g_col_separator)
          IN  IF pos > Len(s) THEN <<>>
              ELSE IF bar = 0 THEN <<SubSeq(s, pos, Len(s))>>
              ELSE <<SubSeq(s, pos, bar - 1)>> \o cells[bar + 1]
        number_of_separators == strchr_count(s, g_col_separator)
        missing == number_of_separators + 1 - Len(cells[1])
    IN  cells[1] \o [i \in 1..missing |-> <<>>]

\* What vsnprintf makes of the format: its values between its separators.
Printed(values) ==
    LET upTo[k \in 1..Len(values)] ==
          IF k = 1 THEN values[1] ELSE upTo[k - 1] \o <<g_col_separator>> \o values[k]
    IN  upTo[Len(values)]

NoRow == <<>>   \* no row: a row has at least one cell

RowOf(values) ==
    LET text == Printed(values)
    IN  IF columns_number_in_fmt_string(text) = Len(values) THEN create_row_from_string(text)
        ELSE IF Len(values) = 1 THEN <<text>>
        ELSE NoRow

-----------------------------------------------------------------------------
(* create_row_from_fmt_string *)

Init ==
    /\ fmt \in UNION { [1..n -> Strings] : n \in 1..MaxValues }
    /\ type \in Types
    /\ size = DEFAULT_STR_BUF_SIZE
    /\ pc = "print" /\ row = NoRow /\ starved = FALSE

vsnprintf_bufferOnce ==
    LET virtual_sz == Len(Printed(fmt))
    IN  /\ pc = "print"
        /\ pc' = IF virtual_sz < size THEN "cut" ELSE "done"
        /\ UNCHANGED <<fmt, type, size, row, starved>>

\* vsnprintf returns the length of the whole text and vswprintf, like every
\* error, a negative number when the text does not fit.
vsnprintf_buffer ==
    LET virtual_sz == Len(Printed(fmt))
    IN  /\ pc = "print"
        /\ pc' = IF virtual_sz < size THEN "cut"
                 ELSE IF type = "W_CHAR_BUF" THEN "done" ELSE "grow"
        /\ UNCHANGED <<fmt, type, size, row, starved>>

realloc_string_buffer_without_copySame ==
    /\ pc = "grow" /\ pc' = "print" /\ UNCHANGED <<fmt, type, size, row, starved>>

realloc_string_buffer_without_copy ==
    /\ pc = "grow"
    /\ pc' = "print" /\ size' = 2 * size
    /\ UNCHANGED <<fmt, type, row, starved>>

create_row_from_buffer ==
    /\ pc = "cut"
    /\ pc' = "done" /\ row' = RowOf(fmt)
    /\ UNCHANGED <<fmt, type, size, starved>>

\* No memory for the larger buffer, for a cell or for its text.
NoMemory ==
    /\ Scarce /\ pc \in {"grow", "cut"}
    /\ pc' = "done" /\ starved' = TRUE
    /\ UNCHANGED <<fmt, type, size, row>>

\* The table is not changed by a call that fails; the next call starts anew.
Return ==
    /\ pc = "done"
    /\ pc' = "print" /\ size' = DEFAULT_STR_BUF_SIZE /\ row' = NoRow /\ starved' = FALSE
    /\ UNCHANGED <<fmt, type>>

Step == vsnprintf_buffer \/ realloc_string_buffer_without_copy \/ create_row_from_buffer \/ NoMemory

Next == Step \/ Return

Spec == Init /\ [][Next]_vars /\ WF_vars(Step)
-----------------------------------------------------------------------------
HasBar(value) == strchr(value, 1, g_col_separator) # 0

Rejected == Len(fmt) > 1 /\ \E i \in DOMAIN fmt : HasBar(fmt[i])

\* A row that ft_printf adds has exactly the values that were printed, an
\* empty value in the last column and a value that ends in a newline included:
\* printing, counting the separators and cutting undo each other.  It adds none
\* only if it runs out of memory or a value of a format with several columns
\* contains the separator: a long line is not refused ("Otherwise buffer was
\* too small, so incr. buffer size ant try again").
RowIsFormat ==
    pc = "done" => row = fmt \/ (row = NoRow /\ (starved \/ Rejected))

\* Every line of a cell that buffer_text_visible_height counts can be printed:
\* buffer_substring finds it, and it is no wider than buffer_text_visible_width;
\* and together the lines are the text.
LinesPrintable ==
    \A i \in DOMAIN row :
      LET s == row[i]
          height == buffer_text_visible_height(s)
          line(n) == str_n_substring(s, newline, n)
          shown(n) == SubSeq(s, line(n).begin, line(n).end - 1)
          upTo[n \in 0..height] == IF n = 0 THEN <<>> ELSE
                                   upTo[n - 1] \o shown(n - 1) \o
                                   (IF n < height THEN <<newline>> ELSE <<>>)
      IN  /\ \A n \in 0..(height - 1) :
               /\ line(n).begin # 0 /\ line(n).begin <= line(n).end
               /\ line(n).end - line(n).begin <= buffer_text_visible_width(s)
          /\ upTo[height] = s

\* A call of ft_printf returns: the buffer doubles until the line fits.
Returns == pc = "print" ~> pc = "done"
=============================================================================
