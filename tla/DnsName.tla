------------------------------ MODULE DnsName ------------------------------
(***************************************************************************)
(* Domain names in src/dns_util/dnsUtil.c: the caller's text, the labels of *)
(* a query and the compressed names of a reply.  A message is a sequence of *)
(* bytes; offsets count from 0.  Characters are bytes below 192 other than  *)
(* 0 and DOT.                                                               *)
(*                                                                          *)
(* A loop of the code is a recursive function: the state of the loop after  *)
(* n turns.                                                                 *)
(***************************************************************************)
EXTENDS Integers, Sequences, SequencesExt

DOT == 46
POINTER == 192
Characters == 1..(POINTER - 1) \ {DOT}

Byte(msg, pos) == msg[pos + 1]
Terminated(bytes) == SelectInSeq(bytes, LAMBDA b : b = 0)
CString(bytes) == SubSeq(bytes, 1, Terminated(bytes) - 1)   \* what strlen sees

\* One turn of the loop over the text: at a dot, the text from lock on becomes
\* a label.
PutLabel(h, i, s) ==
    IF h[i] # DOT THEN s
    ELSE [lock |-> i, dns |-> s.dns \o (<<i - 1 - s.lock>> \o SubSeq(h, s.lock + 1, i - 1))]

LabelsBefore(h) ==
    LET upTo[i \in 0..Len(h)] ==
          IF i = 0 THEN [lock |-> 0, dns |-> <<>>] ELSE PutLabel(h, i, upTo[i - 1])
    IN  upTo[Len(h)].dns

ChangetoDnsNameFormatNoDot(host) ==
    [host |-> host, dns |-> LabelsBefore(host) \o <<0>>]

\* A dot is appended to the caller's text, which stays there; the text before
\* each dot becomes a label.
ChangetoDnsNameFormat(host) ==
    LET h == Append(host, DOT)
    IN  [host |-> h, dns |-> LabelsBefore(h) \o <<0>>]

TurnNoJump(msg, s) ==
    LET b == Byte(msg, s.reader)
    IN  IF b = 0 THEN s
        ELSE IF b >= POINTER THEN [s EXCEPT !.reader = @ + 2, !.jumped = TRUE]
        ELSE [reader |-> s.reader + 1, name |-> Append(s.name, b), jumped |-> s.jumped,
              count |-> IF s.jumped THEN s.count ELSE s.count + 1]

\* The two bytes of a pointer without its mark.
PointsTo(high, low) == (high - POINTER) * 256 + low

\* One turn of the loop that collects the bytes of a name: a pointer is
\* followed, and from then on nothing is counted.
Turn(msg, s) ==
    LET b == Byte(msg, s.reader)
    IN  IF b = 0 THEN s
        ELSE IF b >= POINTER
        THEN [reader |-> PointsTo(b, Byte(msg, s.reader + 1)), name |-> s.name,
              jumped |-> TRUE, count |-> s.count]
        ELSE [reader |-> s.reader + 1, name |-> Append(s.name, b), jumped |-> s.jumped,
              count |-> IF s.jumped THEN s.count ELSE s.count + 1]

\* The state in which the loop ends, at a 0: within as many turns as the message
\* has bytes, since the pointers of a name server do not lead around in circles.
Raw(msg, pos) ==
    LET turn[n \in 0..Len(msg)] ==
          IF n = 0 THEN [reader |-> pos, name |-> <<>>, jumped |-> FALSE, count |-> 1]
          ELSE Turn(msg, turn[n - 1])
    IN  turn[CHOOSE n \in 0..Len(msg) : Byte(msg, turn[n].reader) = 0]

\* One turn of the loop that converts them: a length byte gives way to a dot
\* behind its label.
DotLabel(raw, s) ==
    IF s.i >= Len(raw) THEN s
    ELSE [i |-> s.i + 1 + raw[s.i + 1],
          text |-> s.text \o (SubSeq(raw, s.i + 2, s.i + 1 + raw[s.i + 1]) \o <<DOT>>)]

\* The last dot is cut off.  (For the root this writes in front of the block,
\* where malloc keeps a byte that is 0 already.)
Dotted(raw) ==
    LET upTo[n \in 0..Len(raw)] ==
          IF n = 0 THEN [i |-> 0, text |-> <<>>] ELSE DotLabel(raw, upTo[n - 1])
        text == upTo[Len(raw)].text
    IN  SubSeq(text, 1, Len(text) - 1)

\* The name, and the bytes it occupies where it stands: up to its 0, or its pointer.
NameRead(end) == [name |-> Dotted(end.name), count |-> end.count + IF end.jumped THEN 1 ELSE 0]

ReadName(msg, pos) == NameRead(Raw(msg, pos))

-----------------------------------------------------------------------------
(* What a name means: a sequence of labels. *)

\* The labels, each with a dot behind it.
DotsBehind(labels) ==
    LET upTo[k \in 0..Len(labels)] ==
          IF k = 0 THEN <<>> ELSE upTo[k - 1] \o Append(labels[k], DOT)
    IN  upTo[Len(labels)]

\* The text of a name.
TextOf(labels) == SubSeq(DotsBehind(labels), 1, Len(DotsBehind(labels)) - 1)

\* The labels a name server reads at an offset of a query.
TakeLabel(msg, s) ==
    IF Byte(msg, s.reader) = 0 THEN s
    ELSE [reader |-> s.reader + 1 + Byte(msg, s.reader),
          labels |-> Append(s.labels, SubSeq(msg, s.reader + 2, s.reader + 1 + Byte(msg, s.reader)))]

LabelsAt(msg, pos) ==
    LET upTo[n \in 0..Len(msg)] ==
          IF n = 0 THEN [reader |-> pos, labels |-> <<>>] ELSE TakeLabel(msg, upTo[n - 1])
    IN  upTo[CHOOSE n \in 0..Len(msg) : Byte(msg, upTo[n].reader) = 0].labels
=============================================================================
