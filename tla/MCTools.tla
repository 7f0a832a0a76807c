------------------------------ MODULE MCTools ------------------------------
(***************************************************************************)
(* Three parts that stand alone: the resolver library (DnsUtil), the script *)
(* of the init container (ReplaceScript), and a libfort table that is       *)
(* edited: the cursor moved, cells written, inserted and erased, separators *)
(* added anywhere (FortTable).  They share no state; a behaviour is about   *)
(* one of them.                                                             *)
(***************************************************************************)
EXTENDS Integers, Sequences, DnsUtil, ReplaceScript, FortTable

CONSTANT text_a

VARIABLE tool

\* Two hosts, of one and of two labels; T_A is 1 and T_CNAME 5.  The third
\* answer of the last reply is beyond MAX_RES_RECORD_CNT.
a == <<97>>
svc == <<115, 118, 99>>
TwoHosts == {<<a>>, <<a, svc>>}
TwoAddresses == [h \in TwoHosts |-> <<10, 0, 0, Len(h)>>]
SomeAnswers == {<<>>, <<1>>, <<5, 1>>, <<1, 5, 5>>}

\* Two files with words of every kind.
Word(kind) == [kind |-> kind]
Index(base, v) == [kind |-> "index+" \o base, value |-> v]
TwoTemplates ==
    << [name |-> "sysconfig",
        lines |-> << <<Word("text"), [kind |-> "index+text", text |-> "EMGC_"]>>,
                     <<Word("text"), Index("hex", 28702)>>,
                     <<Word("text"), Word("pod")>> >>],
       [name |-> "assoc_conf",
        lines |-> << <<Word("set"), Index("dec", 7000)>>, <<>> >>] >>

\* The words of the usage text: 0x700A is 28682.
UsageTemplates ==
    << [name |-> "sysconfig",
        lines |-> << <<Index("dec", 7000), Index("hex", 28682),
                       [kind |-> "index+text", text |-> "EMGC_"]>> >>] >>

\* Lines of one and of two cells.
EditedFormats == {<<text_a>>, <<text_a, text_a>>}

ASSUME ToolsAssumption == DnsAssumption /\ ReplaceAssumption /\ TableAssumption

vars == <<tool, dvars, svars, tvars>>

Init == tool \in {"dns", "script", "table"} /\ DnsInit /\ ScriptInit /\ TableInit

Resolve(A) == tool = "dns" /\ A /\ UNCHANGED <<tool, svars, tvars>>

Next ==
    \/ Resolve(DnsNext)
    \/ tool = "script" /\ ScriptNext /\ UNCHANGED <<tool, dvars, tvars>>
    \/ tool = "table" /\ TableNext /\ UNCHANGED <<tool, dvars, svars>>

\* A timer of the kernel that was set goes off.
Spec == Init /\ [][Next]_vars /\ WF_vars(Resolve(Timeout))
=============================================================================
