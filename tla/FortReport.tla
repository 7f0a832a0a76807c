---------------------------- MODULE FortReport -----------------------------
(***************************************************************************)
(* The report a daemon builds with a libfort table: lines of fields, each  *)
(* complete when it appears and never changed afterwards, and separator    *)
(* marks between them.  Without memory the whole report may be lost.       *)
(***************************************************************************)
EXTENDS Naturals, Sequences

CONSTANTS Formats,   \* the lines a daemon prints
          Barred,    \* the fields that contain the separator
          Scarce     \* whether memory may run out

VARIABLES lines,     \* the lines of the report
          marks,     \* the n for which a separator stands above line n, from 0
          lost       \* there is no report any more

rvars == <<lines, marks, lost>>

Init == lines = <<>> /\ marks = {} /\ lost = FALSE

\* A line is dropped when one of several fields holds the separator.
Printable(fmt) == Len(fmt) = 1 \/ \A i \in DOMAIN fmt : fmt[i] \notin Barred

Line(fmt) ==
    /\ ~lost /\ Printable(fmt)
    /\ lines' = Append(lines, fmt)
    /\ UNCHANGED <<marks, lost>>

Mark ==
    /\ ~lost
    /\ marks' = marks \cup {Len(lines)}
    /\ UNCHANGED <<lines, lost>>

Lose ==
    /\ Scarce /\ ~lost /\ lost' = TRUE
    /\ lines' = <<>> /\ marks' = {}

Next == Mark \/ Lose \/ \E fmt \in Formats : Line(fmt)

Spec == Init /\ [][Next]_rvars
=============================================================================
