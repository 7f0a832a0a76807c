--------------------------- MODULE ReplaceScript ---------------------------
(***************************************************************************)
(* src/init_script/replace.sh, run by the init container of a pod: start.sh *)
(* copies the configuration templates to a volume that outlives the         *)
(* container, and for every file of a list the script rewrites the words    *)
(* that depend on the index of the pod line by line into a temporary file,  *)
(* moves that over the file and substitutes the names of the pod and of its *)
(* set.  The container may be killed at any step; kubelet runs it again,    *)
(* also after it has succeeded, when the pod's sandbox is made anew.        *)
(*                                                                          *)
(* A file is a sequence of lines, a line a sequence of words (blanks shrink *)
(* to one).  Templates end with a newline, and hold no word that the shell  *)
(* would expand and no number with a leading 0, which it would take for an  *)
(* octal one.                                                               *)
(***************************************************************************)
EXTENDS Naturals, Sequences

CONSTANTS Templates,   \* a sequence of records: name of the file, its lines
          Ordinal,     \* the number at the end of MY_POD_NAME
          MaxCrashes   \* bound on the times the container is run again

\* The words of a template: plain ones, the names of the pod and of its set, and
\* $MY_INDEX+ before a number of either base or before a text.
Words ==
    [kind : {"text", "pod", "set"}] \cup
    [kind : {"index+dec", "index+hex"}, value : Nat] \cup
    [kind : {"index+text"}, text : STRING]

ReplaceAssumption ==
    /\ Templates \in Seq([name : STRING, lines : Seq(Seq(Words))])
    /\ Ordinal \in Nat /\ MaxCrashes \in Nat

Files == DOMAIN Templates   \* by position in the list

VARIABLES files,    \* the files on the volume
          tmp,      \* FILE.tmp of each, <<>> where there is none
          at,       \* the file the script is at
          rest,     \* the lines the inner loop has not read yet
          command,       \* the next command
          crashes   \* times the container was killed or run again

svars == <<files, tmp, at, rest, command, crashes>>

-----------------------------------------------------------------------------
MY_INDEX == Ordinal + 1

\* A word that starts with $MY_INDEX+: a number is added to, in its base, and
\* anything else gets the index behind it.  Other words stay.
replace_elem(word) ==
    CASE word.kind = "index+dec" -> [kind |-> "dec", value |-> word.value + MY_INDEX]
      [] word.kind = "index+hex" -> [kind |-> "hex", value |-> word.value + MY_INDEX]
      [] word.kind = "index+text" -> [kind |-> "text+index", text |-> word.text, value |-> MY_INDEX]
      [] OTHER -> word

replace_line(line) == [i \in DOMAIN line |-> replace_elem(line[i])]

\* sed: every word that stands for a name.
sed(file, kind) ==
    [k \in DOMAIN file |-> [i \in DOMAIN file[k] |->
        IF file[k][i].kind = kind THEN [kind |-> "name", of |-> kind] ELSE file[k][i]]]

\* start.sh: cp, cd, replace.sh.
start ==
    /\ command = "start"
    /\ files' = [f \in Files |-> Templates[f].lines]
    /\ at' = 1 /\ command' = "rm"
    /\ UNCHANGED <<tmp, rest, crashes>>

replace_contentAppend ==
    /\ command = "rm" /\ at <= Len(Templates)
    /\ rest' = files[at] /\ command' = "read"
    /\ UNCHANGED <<files, tmp, at, crashes>>

\* rm -f, touch, and the inner loop starts to read.
replace_content ==
    /\ command = "rm" /\ at <= Len(Templates)
    /\ tmp' = [tmp EXCEPT ![at] = <<>>]
    /\ rest' = files[at] /\ command' = "read"
    /\ UNCHANGED <<files, at, crashes>>

read_line ==
    /\ command = "read" /\ rest # <<>>
    /\ tmp' = [tmp EXCEPT ![at] = Append(@, replace_line(Head(rest)))]
    /\ rest' = Tail(rest)
    /\ UNCHANGED <<files, at, command, crashes>>

mv ==
    /\ command = "read" /\ rest = <<>>
    /\ files' = [files EXCEPT ![at] = tmp[at]]
    /\ tmp' = [tmp EXCEPT ![at] = <<>>]
    /\ command' = "sed pod"
    /\ UNCHANGED <<at, rest, crashes>>

\* sed -i also replaces the file in one step.
sed_names ==
    /\ \/ /\ command = "sed pod" /\ command' = "sed set"
          /\ files' = [files EXCEPT ![at] = sed(@, "pod")]
          /\ UNCHANGED at
       \/ /\ command = "sed set" /\ command' = "rm"
          /\ files' = [files EXCEPT ![at] = sed(@, "set")]
          /\ at' = at + 1
    /\ UNCHANGED <<tmp, rest, crashes>>

finish ==
    /\ command = "rm" /\ at > Len(Templates)
    /\ command' = "done"
    /\ UNCHANGED <<files, tmp, at, rest, crashes>>

\* The container is killed, or run again; the volume stays.
RunAgain ==
    /\ crashes < MaxCrashes
    /\ crashes' = crashes + 1 /\ command' = "start" /\ rest' = <<>>
    /\ UNCHANGED <<files, tmp, at>>

ScriptInit ==
    /\ files = [f \in Files |-> <<>>] /\ tmp = [f \in Files |-> <<>>]
    /\ at = 1 /\ rest = <<>> /\ command = "start" /\ crashes = 0

ScriptNext == start \/ replace_content \/ read_line \/ mv \/ sed_names \/ finish \/ RunAgain

ScriptSpec == ScriptInit /\ [][ScriptNext]_svars
-----------------------------------------------------------------------------
\* What a word should be in the pod with this ordinal.
Meant(word) ==
    CASE word.kind \in {"pod", "set"} -> [kind |-> "name", of |-> word.kind]
      [] word.kind \in {"index+dec", "index+hex"} ->
           [kind |-> IF word.kind = "index+dec" THEN "dec" ELSE "hex",
            value |-> word.value + Ordinal + 1]
      [] word.kind = "index+text" -> [kind |-> "text+index", text |-> word.text, value |-> Ordinal + 1]
      [] word.kind = "text" -> word

\* When the init container has succeeded every file is its template with each
\* word replaced once, however often and wherever earlier runs were killed and
\* whatever they left on the volume: $MY_INDEX+ before a number of either base is
\* their sum.  (For one word the usage text of the script announces another
\* number: UsageExample.)
Configured ==
    command = "done" =>
      \A f \in Files :
        LET lines == Templates[f].lines
        IN  files[f] = [k \in DOMAIN lines |-> [i \in DOMAIN lines[k] |-> Meant(lines[k][i])]]

\* The usage text, replace.sh:7: "if [$MY_INDEX=2] then [...
\* $MY_INDEX+0x700A=>0x700D ...]".
UsageExample ==
    command = "done" /\ MY_INDEX = 2 =>
      \A f \in Files : \A k \in DOMAIN files[f] : \A i \in DOMAIN files[f][k] :
        Templates[f].lines[k][i] = [kind |-> "index+hex", value |-> 28682]
            => files[f][k][i] = [kind |-> "hex", value |-> 28685]
=============================================================================
