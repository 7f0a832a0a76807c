------------------------------- MODULE MCFort -------------------------------
(***************************************************************************)
(* What a libfort table is made of, each part under its own calls: the      *)
(* vectors, the rows and cells (appended to by calls that may run out of    *)
(* memory), the texts of a formatted line, and the properties (a number and *)
(* a choice, or a choice and a style).  The parts share no state; a         *)
(* behaviour is about one of them.                                          *)
(***************************************************************************)
EXTENDS Integers, FortVector, FortTable, FortProps

CONSTANTS text_a, text_b, t1, t2

VARIABLES about,                                 \* the part
          fmt, type, size, pc, row, starved      \* FortText

\* What is printed into the table that is appended to.
AppendedFormats == {<<text_a>>, <<text_a, text_a>>}

Text == INSTANCE FortText WITH
    Letters <- {"x"}, MaxLength <- 2, MaxValues <- 3, DEFAULT_STR_BUF_SIZE <- 2,
    Types <- {"CHAR_BUF", "UTF8_BUF"}, Scarce <- TRUE

\* One property of each kind, with their defaults; a number may be refused.
NumbersSet == {-1, 1}
MarginsSet == {-1, 0}
DefaultProperties ==
    [p \in {"LEFT_PADDING", "ROW_TYPE", "TEXT_STYLE"} |-> IF p = "TEXT_STYLE" THEN {"default"} ELSE 1]

ASSUME FortAssumption ==
    /\ VectorAssumption /\ Text!TextAssumption
    /\ TableAssumption
    /\ PropsAssumption

text_vars == <<fmt, type, size, pc, row, starved>>
vars == <<about, vvars, tvars, text_vars, pvars>>

\* The other parts are as they were created, in one of the ways they can be.
FortInit ==
    /\ about \in {"vector", "table", "text", "number", "style"}
    /\ Init
    /\ TableInit
    /\ Text!Init
    /\ about # "text" => fmt = << <<>> >> /\ type = "CHAR_BUF"
    /\ PropsInit

\* A step of the part changes nothing of the others.
Step(p, A, others) == about = p /\ A /\ UNCHANGED <<about, others>>

TextStep == Step("text", Text!Step, <<vvars, tvars, pvars>>)

\* Bound: the tables together have two records.
FewRecords ==
    Cardinality({ x \in Tables \X (1..MaxEntries) :
                    Exists(x[1]) /\ x[2] <= Len(tables[x[1]].cell_properties) }) <= MaxEntries

\* Bound: a separator, on which no cell depends, above the first row only.
FewSeparators == Len(table.separators) <= 1

FortNext ==
    \/ Step("vector", Next, <<tvars, text_vars, pvars>>)
    \/ Step("table", TableNext /\ FewSeparators', <<vvars, text_vars, pvars>>)
    \/ TextStep
    \/ Step("text", Text!Return, <<vvars, tvars, pvars>>)
    \/ Step("number", PropsStep(Numbers \cup Enums) /\ FewRecords',
            <<vvars, tvars, text_vars>>)
    \/ Step("style", PropsStep(Enums \cup Styles) /\ tables'[t2] = None,
            <<vvars, tvars, text_vars>>)

\* A call of ft_printf that has begun goes on.
FortSpec == FortInit /\ [][FortNext]_vars /\ WF_vars(TextStep)
-----------------------------------------------------------------------------
\* A row that ft_printf adds has exactly the values that were printed, and a
\* line is not refused for its length.
RowIsFormat == Text!RowIsFormat

\* Every line of a cell's text is found, is no wider than the text, and
\* together they are the text.
LinesPrintable == Text!LinesPrintable

\* The loop that doubles the buffer of ft_printf ends.
Returns == about = "text" => Text!Returns
=============================================================================
