----------------------------- MODULE DnsProofs ------------------------------
(***************************************************************************)
(* Proofs about the resolver, for any hosts, addresses, answers and number  *)
(* of retries that DnsAssumption admits.                                    *)
(*                                                                          *)
(* A name is laid out (Laid) as bytes on the wire and as text at the same   *)
(* offsets.  From that it follows what each loop of the library computes:   *)
(* ChangetoDnsNameFormat puts the labels on the wire and nothing before the *)
(* first 0 for the dots of earlier calls (WireFacts), the server reads them *)
(* back (LabelsAtFacts), ReadName follows pointers to them (ReadOwner,      *)
(* ReadAlias) and converts them to the text they came from (DottedFacts).   *)
(* A reply is built record by record (ChainFacts), each of them is parsed   *)
(* as it was sent (ParseRecordFacts), and so are its sections               *)
(* (SectionsFacts, ReplyFacts).  The inductive invariant DnsInv then ties   *)
(* each datagram to its socket.                                             *)
(***************************************************************************)
EXTENDS DnsUtil, SequenceTheorems, FiniteSetTheorems, WellFoundedInduction, TLAPS

-----------------------------------------------------------------------------
(* Sequences and sets of numbers *)

\* A function on 1..n is a sequence.
LEMMA FunctionIsSeq ==
    ASSUME NEW U, NEW n \in Nat, NEW t \in [1..n -> U]
    PROVE  t \in Seq(U) /\ Len(t) = n
<1>1. t \in Seq(U)
      BY SeqDef
<1> QED BY <1>1, LenProperties

\* A nonempty set of numbers has a least one.
LEMMA LeastMember ==
    ASSUME NEW S, S \subseteq Nat, S # {}
    PROVE  \E n \in S : \A m \in S : n <= m
<1> DEFINE R == OpToRel(<, Nat)
<1>1. IsWellFoundedOn(R, Nat)
      BY NatLessThanWellFounded
<1>2. \A i, j \in Nat : i < j => <<i, j>> \in R
      BY DEF OpToRel
<1> HIDE DEF R
<1>3. PICK x \in S : \A y \in S : ~(<<y, x>> \in R)
      BY <1>1, WFMin
<1>4. x \in Nat /\ \A y \in S : y \in Nat
      OBVIOUS
<1>5. \A y \in S : ~(y < x)
      BY <1>2, <1>3, <1>4
<1>6. \A y \in S : x <= y
      BY <1>4, <1>5
<1> QED BY <1>6

\* Induction, on a set.
LEMMA SetInduction ==
    ASSUME NEW S, 0 \in S, \A n \in Nat : n \in S => n + 1 \in S
    PROVE  Nat \subseteq S
<1> SUFFICES ASSUME Nat \ S # {} PROVE FALSE
    OBVIOUS
<1>1. PICK n \in Nat \ S : \A m \in Nat \ S : n <= m
      BY LeastMember
<1>2. n # 0 /\ n - 1 \in Nat /\ ~(n <= n - 1) /\ (n - 1) + 1 = n
      BY <1>1
<1>3. n - 1 \in S
      BY <1>1, <1>2
<1> QED BY <1>1, <1>2, <1>3

\* Two sequences, one behind the other.
LEMMA JoinFacts ==
    ASSUME NEW T, NEW s \in Seq(T), NEW t \in Seq(T)
    PROVE  /\ s \o t \in Seq(T) /\ Len(s \o t) = Len(s) + Len(t)
           /\ Len(s) \in Nat /\ Len(t) \in Nat
           /\ \A i \in 1..Len(s) : (s \o t)[i] = s[i]
           /\ \A i \in 1..Len(t) : (s \o t)[Len(s) + i] = t[i]
<1>1. Len(s) \in Nat /\ Len(t) \in Nat
      BY LenProperties
<1>2. \A i \in 1..Len(t) : Len(s) + i \in 1..(Len(s) + Len(t)) /\ ~(Len(s) + i <= Len(s))
                           /\ Len(s) + i - Len(s) = i
      BY <1>1
<1>3. \A i \in 1..Len(s) : i \in 1..(Len(s) + Len(t)) /\ i <= Len(s)
      BY <1>1
<1> QED BY <1>1, <1>2, <1>3, ConcatProperties

\* Bytes of a name on the wire and of its text: neither 0 nor a pointer.
Octets == 1..(POINTER - 1)
TextBytes == Characters \cup {DOT}

\* A name the resolver handles.
IsName(labels) ==
    /\ labels \in Seq(Seq(Characters))
    /\ \A k \in 1..Len(labels) : Len(labels[k]) \in 1..63

\* The first m labels on the wire (raw, a length in front of each) and as text (d,
\* a dot behind each); both end at the same places, off.
Laid(labels, m, off, raw, d) ==
    /\ off \in [0..m -> Nat] /\ off[0] = 0
    /\ \A i, k \in 0..m : i <= k => off[i] <= off[k]
    /\ \A k \in 0..m : k <= off[k]
    /\ raw \in Seq(Octets) /\ Len(raw) = off[m]
    /\ d \in Seq(TextBytes) /\ Len(d) = off[m]
    /\ \A k \in 1..m :
         /\ off[k] = off[k - 1] + Len(labels[k]) + 1
         /\ raw[off[k - 1] + 1] = Len(labels[k])
         /\ d[off[k]] = DOT
         /\ \A j \in 1..Len(labels[k]) :
              raw[off[k - 1] + 1 + j] = labels[k][j] /\ d[off[k - 1] + j] = labels[k][j]

\* Every name can be laid out.
LEMMA LaidExists ==
    ASSUME NEW labels, IsName(labels)
    PROVE  \E off, raw, d : Laid(labels, Len(labels), off, raw, d)
<1>1. PICK N \in Nat : N = Len(labels)
      BY LenProperties DEF IsName
<1> DEFINE S == {m \in Nat : m <= N => \E off, raw, d : Laid(labels, m, off, raw, d)}
<1>2. 0 \in S
  <2>1. PICK off : off = [k \in 0..0 |-> 0]
        OBVIOUS
  <2>2. PICK e : e = <<>>
        OBVIOUS
  <2>3. e \in Seq(Octets) /\ e \in Seq(TextBytes) /\ Len(e) = 0
        BY <2>2
  <2>4. Laid(labels, 0, off, e, e)
        BY <2>1, <2>3 DEF Laid
  <2> QED BY <2>4
<1>3. ASSUME NEW m \in Nat, m \in S PROVE m + 1 \in S
  <2> SUFFICES ASSUME m + 1 <= N PROVE \E off, raw, d : Laid(labels, m + 1, off, raw, d)
      OBVIOUS
  <2>1. PICK off, raw, d : Laid(labels, m, off, raw, d)
        BY <1>3
  <2>2. PICK l : l = labels[m + 1]
        OBVIOUS
  <2>3. m + 1 \in 1..N
        OBVIOUS
  <2>4. l \in Seq(Characters) /\ Len(l) \in 1..63 /\ Len(l) \in Nat
        BY <1>1, <2>2, <2>3, ElementOfSeq DEF IsName
  <2>5. l \in Seq(Octets) /\ l \in Seq(TextBytes) /\ DOT \in TextBytes
    <3>1. Characters \subseteq Octets /\ Characters \subseteq TextBytes /\ DOT \in TextBytes
          BY DEF Characters, Octets, TextBytes
    <3> QED BY <2>4, <3>1, SeqMonotonic
  <2>6. PICK w : w = <<Len(l)>> \o l
        OBVIOUS
  <2>7. PICK t : t = l \o <<DOT>>
        OBVIOUS
  <2>8. /\ w \in Seq(Octets) /\ Len(w) = Len(l) + 1 /\ w[1] = Len(l)
        /\ \A j \in 1..Len(l) : w[1 + j] = l[j]
    <3>1. <<Len(l)>> \in Seq(Octets) /\ Len(<<Len(l)>>) = 1 /\ <<Len(l)>>[1] = Len(l)
          BY <2>4 DEF Octets, POINTER
    <3>2. PICK o : o = <<Len(l)>>
          OBVIOUS
    <3> QED BY <2>4, <2>5, <2>6, <3>1, <3>2, JoinFacts
  <2>9. /\ t \in Seq(TextBytes) /\ Len(t) = Len(l) + 1 /\ t[Len(l) + 1] = DOT
        /\ \A j \in 1..Len(l) : t[j] = l[j]
    <3>1. PICK o : o = <<DOT>>
          OBVIOUS
    <3>2. o \in Seq(TextBytes) /\ Len(o) = 1 /\ o[1] = DOT
          BY <2>5, <3>1
    <3> QED BY <2>4, <2>5, <2>7, <3>1, <3>2, JoinFacts
  <2>10. /\ off \in [0..m -> Nat] /\ off[0] = 0 /\ off[m] \in Nat
         /\ raw \in Seq(Octets) /\ Len(raw) = off[m]
         /\ d \in Seq(TextBytes) /\ Len(d) = off[m]
         /\ \A i, k \in 0..m : i <= k => off[i] <= off[k]
         /\ \A k \in 0..m : k <= off[k]
         BY <2>1 DEF Laid
  <2>11. PICK r2 : r2 = raw \o w
         OBVIOUS
  <2>12. PICK d2 : d2 = d \o t
         OBVIOUS
  <2>13. PICK o2 : o2 = [k \in 0..(m + 1) |-> IF k <= m THEN off[k] ELSE off[m] + Len(l) + 1]
         OBVIOUS
  <2>14. /\ r2 \in Seq(Octets) /\ Len(r2) = off[m] + Len(l) + 1
         /\ \A i \in 1..off[m] : r2[i] = raw[i]
         /\ \A i \in 1..(Len(l) + 1) : r2[off[m] + i] = w[i]
    <3>1. /\ raw \o w \in Seq(Octets) /\ Len(raw \o w) = Len(raw) + Len(w)
          /\ \A i \in 1..Len(raw) : (raw \o w)[i] = raw[i]
          /\ \A i \in 1..Len(w) : (raw \o w)[Len(raw) + i] = w[i]
      <4>1. raw \in Seq(Octets) /\ w \in Seq(Octets)
            BY <2>8, <2>10
      <4> QED BY <4>1, JoinFacts
    <3>2. Len(raw) + Len(w) = off[m] + Len(l) + 1
          BY <2>4, <2>8, <2>10
    <3> QED BY <2>8, <2>10, <2>11, <3>1, <3>2
  <2>15. /\ d2 \in Seq(TextBytes) /\ Len(d2) = off[m] + Len(l) + 1
         /\ \A i \in 1..off[m] : d2[i] = d[i]
         /\ \A i \in 1..(Len(l) + 1) : d2[off[m] + i] = t[i]
    <3>1. /\ d \o t \in Seq(TextBytes) /\ Len(d \o t) = Len(d) + Len(t)
          /\ \A i \in 1..Len(d) : (d \o t)[i] = d[i]
          /\ \A i \in 1..Len(t) : (d \o t)[Len(d) + i] = t[i]
          BY <2>9, <2>10, JoinFacts
    <3>2. Len(d) + Len(t) = off[m] + Len(l) + 1
          BY <2>4, <2>9, <2>10
    <3> QED BY <2>9, <2>10, <2>12, <3>1, <3>2
  <2>16. /\ o2 \in [0..(m + 1) -> Nat] /\ o2[0] = 0
         /\ o2[m + 1] = off[m] + Len(l) + 1
         /\ \A k \in 0..m : o2[k] = off[k]
         BY <2>4, <2>10, <2>13
  <2>17. \A i, k \in 0..(m + 1) : i <= k => o2[i] <= o2[k]
    <3> TAKE i, k \in 0..(m + 1)
    <3>1. CASE k <= m
          BY <2>10, <2>16, <3>1
    <3>2. CASE k = m + 1 /\ i <= m
      <4>1. off[i] \in Nat /\ off[i] <= off[m]
            BY <2>10, <3>2
      <4> QED BY <2>4, <2>10, <2>16, <3>2, <4>1
    <3>3. CASE k = m + 1 /\ i = m + 1
          BY <2>4, <2>10, <2>16, <3>3
    <3> QED BY <3>1, <3>2, <3>3
  <2>20. ASSUME NEW k \in 0..(m + 1) PROVE k <= o2[k]
    <3>1. CASE k <= m
          BY <2>10, <2>16, <3>1
    <3>2. CASE k = m + 1
      <4>1. m <= off[m]
            BY <2>10
      <4> QED BY <2>4, <2>10, <2>16, <3>2, <4>1
    <3> QED BY <3>1, <3>2
  <2>18. ASSUME NEW k \in 1..(m + 1)
         PROVE  /\ o2[k] = o2[k - 1] + Len(labels[k]) + 1
                /\ r2[o2[k - 1] + 1] = Len(labels[k])
                /\ d2[o2[k]] = DOT
                /\ \A j \in 1..Len(labels[k]) :
                     r2[o2[k - 1] + 1 + j] = labels[k][j] /\ d2[o2[k - 1] + j] = labels[k][j]
    <3>1. CASE k <= m
      <4>1. k \in 1..m /\ k - 1 \in 0..m /\ k \in 0..m /\ m \in 0..m
            BY <3>1
      <4>2. k \in 1..N
            BY <3>1
      <4>3. labels[k] \in Seq(Characters) /\ Len(labels[k]) \in Nat
            BY <1>1, <4>2, ElementOfSeq, LenProperties DEF IsName
      <4>4. /\ off[k] = off[k - 1] + Len(labels[k]) + 1
            /\ raw[off[k - 1] + 1] = Len(labels[k])
            /\ d[off[k]] = DOT
            /\ \A j \in 1..Len(labels[k]) :
                 raw[off[k - 1] + 1 + j] = labels[k][j] /\ d[off[k - 1] + j] = labels[k][j]
            BY <2>1, <4>1 DEF Laid
      <4>5. off[k] <= off[m] /\ off[k] \in Nat /\ off[k - 1] \in Nat
            BY <2>10, <4>1
      <4>6. o2[k] = off[k] /\ o2[k - 1] = off[k - 1]
            BY <2>16, <4>1
      <4>7. off[k - 1] + 1 \in 1..off[m] /\ off[k] \in 1..off[m]
            BY <2>10, <4>3, <4>4, <4>5
      <4>8. \A j \in 1..Len(labels[k]) : off[k - 1] + 1 + j \in 1..off[m] /\ off[k - 1] + j \in 1..off[m]
        <5>1. PICK u, v, n, x \in Nat : u = off[k - 1] /\ v = off[m] /\ n = Len(labels[k]) /\ x = off[k]
              BY <2>10, <4>3, <4>5
        <5>2. x = u + n + 1 /\ x <= v
              BY <4>4, <4>5, <5>1
        <5>3. \A j \in 1..n : u + 1 + j \in 1..v /\ u + j \in 1..v
              BY <5>2
        <5> QED BY <5>1, <5>3
      <4>9. /\ r2[off[k - 1] + 1] = raw[off[k - 1] + 1] /\ d2[off[k]] = d[off[k]]
            /\ \A j \in 1..Len(labels[k]) :
                 r2[off[k - 1] + 1 + j] = raw[off[k - 1] + 1 + j] /\ d2[off[k - 1] + j] = d[off[k - 1] + j]
            BY <2>14, <2>15, <4>7, <4>8
      <4> QED BY <4>4, <4>6, <4>9
    <3>2. CASE k = m + 1
      <4>1. k - 1 = m /\ m \in 0..m /\ labels[k] = l
            BY <2>2, <3>2
      <4>2. o2[k] = off[m] + Len(l) + 1 /\ o2[k - 1] = off[m]
            BY <2>16, <3>2, <4>1
      <4>3. r2[off[m] + 1] = Len(l) /\ d2[off[m] + Len(l) + 1] = DOT
        <5>1. 1 \in 1..(Len(l) + 1) /\ Len(l) + 1 \in 1..(Len(l) + 1)
              /\ off[m] + Len(l) + 1 = off[m] + (Len(l) + 1)
              BY <2>4, <2>10
        <5>2. r2[off[m] + 1] = w[1]
              BY <2>14, <5>1
        <5>3. d2[off[m] + (Len(l) + 1)] = t[Len(l) + 1]
              BY <2>15, <5>1
        <5> QED BY <2>8, <2>9, <5>1, <5>2, <5>3
      <4>4. ASSUME NEW j \in 1..Len(l)
            PROVE  r2[off[m] + 1 + j] = l[j] /\ d2[off[m] + j] = l[j]
        <5>1. 1 + j \in 1..(Len(l) + 1) /\ j \in 1..(Len(l) + 1)
              /\ off[m] + 1 + j = off[m] + (1 + j)
              BY <2>4, <2>10
        <5>2. r2[off[m] + (1 + j)] = w[1 + j]
              BY <2>14, <5>1
        <5>3. d2[off[m] + j] = t[j]
              BY <2>15, <5>1
        <5> QED BY <2>8, <2>9, <5>1, <5>2, <5>3
      <4> QED BY <2>4, <2>10, <4>1, <4>2, <4>3, <4>4
    <3> QED BY <3>1, <3>2
  <2>19. Laid(labels, m + 1, o2, r2, d2)
         BY <2>14, <2>15, <2>16, <2>17, <2>18, <2>20 DEF Laid
  <2> QED BY <2>19
<1> HIDE DEF S
<1>4. Nat \subseteq S
      BY <1>2, <1>3, SetInduction
<1> QED BY <1>1, <1>4 DEF S

-----------------------------------------------------------------------------
(* Parts of sequences, labels as blocks *)

\* A part of a sequence, by its elements.
LEMMA SubSeqIs ==
    ASSUME NEW T, NEW t \in Seq(T), NEW s, NEW m \in Int, NEW n \in Int,
           n - m + 1 = Len(t), \A i \in 1..Len(t) : s[m + i - 1] = t[i]
    PROVE  SubSeq(s, m, n) = t
<1>1. Len(t) \in Nat /\ \A i \in 1..Len(t) : t[i] \in T
      BY LenProperties, ElementOfSeq
<1>2. \A i \in m..n : s[i] \in T
  <2> TAKE i \in m..n
  <2>1. i - m + 1 \in 1..Len(t) /\ m + (i - m + 1) - 1 = i
        BY <1>1
  <2> QED BY <1>1, <2>1
<1>3. PICK u : u = SubSeq(s, m, n)
      OBVIOUS
<1>4. /\ u \in Seq(T) /\ Len(u) = (IF m <= n THEN n - m + 1 ELSE 0)
      /\ \A i \in 1..(n - m + 1) : u[i] = s[m + i - 1]
      BY <1>2, <1>3, SubSeqProperties
<1>5. Len(u) = Len(t)
      BY <1>1, <1>4
<1> QED BY <1>3, <1>4, <1>5, SeqEqual

\* A part of a typed sequence.
LEMMA PartOf ==
    ASSUME NEW T, NEW s \in Seq(T), NEW m \in 1..(Len(s) + 1), NEW n \in (m - 1)..Len(s)
    PROVE  /\ SubSeq(s, m, n) \in Seq(T) /\ Len(SubSeq(s, m, n)) = n - m + 1
           /\ \A i \in 1..(n - m + 1) : SubSeq(s, m, n)[i] = s[m + i - 1]
<1>1. Len(s) \in Nat
      BY LenProperties
<1>2. m \in Int /\ n \in Int /\ \A i \in m..n : i \in 1..Len(s)
      BY <1>1
<1>3. \A i \in m..n : s[i] \in T
      BY <1>2, ElementOfSeq
<1> QED BY <1>1, <1>2, <1>3, SubSeqProperties

\* The longer of two beginnings.
LEMMA Longer ==
    ASSUME NEW T, NEW s \in Seq(T), NEW m \in Nat, NEW n \in Nat, m <= n, n <= Len(s)
    PROVE  SubSeq(s, 1, n) = SubSeq(s, 1, m) \o SubSeq(s, m + 1, n)
<1>1. Len(s) \in Nat
      BY LenProperties
<1>2. 1 \in 1..(Len(s) + 1) /\ m \in (1 - 1)..Len(s) /\ n \in m..Len(s)
      BY <1>1
<1> QED BY <1>2, ConcatAdjacentSubSeq

\* A beginning, longer by one element.
LEMMA OneLonger ==
    ASSUME NEW T, NEW s \in Seq(T), NEW k \in 1..Len(s)
    PROVE  Append(SubSeq(s, 1, k - 1), s[k]) = SubSeq(s, 1, k)
<1>1. Len(s) \in Nat
      BY LenProperties
<1>2. 1 \in 1..Len(s) /\ k \in 1..Len(s) /\ 1 \in 1..(Len(s) + 1) /\ k - 1 \in (1 - 1)..Len(s)
      BY <1>1
<1>3. SubSeq(s, 1, k) = SubSeq(s, 1, k - 1) \o <<s[k]>>
      BY <1>2, SubSeqRecursiveSecond
<1>4. SubSeq(s, 1, k - 1) \in Seq(T) /\ s[k] \in T
      BY <1>2, PartOf, ElementOfSeq
<1> QED BY <1>3, <1>4, AppendIsConcat

\* One label, on the wire and as text.
Block(labels, m, off, raw, d, k) ==
    /\ off[k - 1] \in Nat /\ off[k] \in Nat /\ Len(labels[k]) \in 1..63
    /\ off[k] = off[k - 1] + Len(labels[k]) + 1 /\ off[k] <= off[m]
    /\ raw[off[k - 1] + 1] = Len(labels[k])
    /\ labels[k] \in Seq(Characters)
    /\ SubSeq(raw, off[k - 1] + 2, off[k]) = labels[k]
    /\ SubSeq(d, off[k - 1] + 1, off[k] - 1) = labels[k]
    /\ SubSeq(raw, off[k - 1] + 1, off[k]) = <<Len(labels[k])>> \o labels[k]
    /\ SubSeq(d, off[k - 1] + 1, off[k]) = Append(labels[k], DOT)
    /\ SubSeq(d, off[k - 1] + 1, off[k]) = labels[k] \o <<DOT>>

\* Each label of a name that is laid out is such a block.
LEMMA BlockFacts ==
    ASSUME NEW labels, IsName(labels), NEW m \in 0..Len(labels), NEW off, NEW raw, NEW d,
           Laid(labels, m, off, raw, d), NEW k \in 1..m
    PROVE  Block(labels, m, off, raw, d, k)
<1>1. Len(labels) \in Nat /\ k \in 1..Len(labels) /\ k - 1 \in 0..m /\ k \in 0..m /\ m \in 0..m /\ m \in Nat
      BY LenProperties DEF IsName
<1>2. PICK l : l = labels[k]
      OBVIOUS
<1>3. l \in Seq(Characters) /\ Len(l) \in 1..63 /\ Len(l) \in Nat
      BY <1>1, <1>2, ElementOfSeq DEF IsName
<1>4. PICK u \in Nat : u = off[k - 1]
      BY <1>1 DEF Laid
<1>5. PICK v \in Nat : v = off[k] /\ v <= off[m]
      BY <1>1 DEF Laid
<1>6. /\ v = u + Len(l) + 1 /\ raw[u + 1] = Len(l) /\ d[v] = DOT
      /\ \A j \in 1..Len(l) : raw[u + 1 + j] = l[j] /\ d[u + j] = l[j]
      BY <1>2, <1>4, <1>5 DEF Laid
<1>7. SubSeq(raw, u + 2, v) = l
  <2>1. v - (u + 2) + 1 = Len(l) /\ u + 2 \in Int /\ v \in Int
    <3>1. PICK n \in Nat : n = Len(l)
          BY <1>3
    <3>2. v = u + n + 1
          BY <1>6, <3>1
    <3>3. v - (u + 2) + 1 = n
          BY <3>2
    <3> QED BY <3>1, <3>3
  <2>2. \A i \in 1..Len(l) : u + 2 + i - 1 = u + 1 + i
        BY <1>3
  <2>3. \A i \in 1..Len(l) : raw[u + 2 + i - 1] = l[i]
        BY <1>6, <2>2
  <2> QED BY <1>3, <2>1, <2>3, SubSeqIs
<1>8. SubSeq(d, u + 1, v - 1) = l
  <2>1. (v - 1) - (u + 1) + 1 = Len(l) /\ u + 1 \in Int /\ v - 1 \in Int
        BY <1>3, <1>6
  <2>2. \A i \in 1..Len(l) : u + 1 + i - 1 = u + i
        BY <1>3
  <2>3. \A i \in 1..Len(l) : d[u + 1 + i - 1] = l[i]
        BY <1>6, <2>2
  <2> QED BY <1>3, <2>1, <2>3, SubSeqIs
<1>9. SubSeq(raw, u + 1, v) = <<Len(l)>> \o l
  <2>1. PICK o : o = <<Len(l)>>
        OBVIOUS
  <2>2. o \in Seq(Nat) /\ Len(o) = 1 /\ o[1] = Len(l)
        BY <1>3, <2>1
  <2>3. l \in Seq(Nat)
    <3>1. Characters \subseteq Nat
          BY DEF Characters, POINTER, DOT
    <3> QED BY <1>3, <3>1, SeqMonotonic
  <2>4. PICK w : w = o \o l
        OBVIOUS
  <2>5. /\ w \in Seq(Nat) /\ Len(w) = 1 + Len(l) /\ w[1] = Len(l)
        /\ \A i \in 1..Len(l) : w[1 + i] = l[i]
    <3>1. /\ o \o l \in Seq(Nat) /\ Len(o \o l) = Len(o) + Len(l)
          /\ \A i \in 1..Len(o) : (o \o l)[i] = o[i]
          /\ \A i \in 1..Len(l) : (o \o l)[Len(o) + i] = l[i]
      <4>1. o \in Seq(Nat) /\ l \in Seq(Nat)
            BY <2>2, <2>3
      <4> QED BY <4>1, JoinFacts
    <3> QED BY <2>2, <2>4, <3>1
  <2>6. v - (u + 1) + 1 = Len(w) /\ u + 1 \in Int /\ v \in Int
        BY <1>3, <1>6, <2>5
  <2>7. ASSUME NEW i \in 1..Len(w) PROVE raw[u + 1 + i - 1] = w[i]
    <3>1. CASE i = 1
          BY <1>6, <2>5, <3>1
    <3>2. CASE i # 1
      <4>1. i - 1 \in 1..Len(l) /\ 1 + (i - 1) = i /\ u + 1 + i - 1 = u + 1 + (i - 1)
            BY <1>3, <2>5, <3>2
      <4> QED BY <1>6, <2>5, <4>1
    <3> QED BY <3>1, <3>2
  <2>8. SubSeq(raw, u + 1, v) = w
        BY <2>5, <2>6, <2>7, SubSeqIs
  <2> QED BY <2>1, <2>4, <2>8
<1>10. SubSeq(d, u + 1, v) = Append(l, DOT) /\ Append(l, DOT) = l \o <<DOT>>
  <2>1. l \in Seq(Nat) /\ DOT \in Nat
    <3>1. Characters \subseteq Nat /\ DOT \in Nat
          BY DEF Characters, POINTER, DOT
    <3> QED BY <1>3, <3>1, SeqMonotonic
  <2>2. PICK w : w = Append(l, DOT)
        OBVIOUS
  <2>3. w \in Seq(Nat) /\ Len(w) = Len(l) + 1 /\ w[Len(l) + 1] = DOT /\ \A i \in 1..Len(l) : w[i] = l[i]
        BY <2>1, <2>2, AppendProperties
  <2>4. v - (u + 1) + 1 = Len(w) /\ u + 1 \in Int /\ v \in Int
        BY <1>3, <1>6, <2>3
  <2>5. ASSUME NEW i \in 1..Len(w) PROVE d[u + 1 + i - 1] = w[i]
    <3>1. CASE i = Len(l) + 1
      <4>1. u + 1 + i - 1 = v
            BY <1>3, <1>6, <3>1
      <4> QED BY <1>6, <2>3, <3>1, <4>1
    <3>2. CASE i # Len(l) + 1
      <4>1. i \in 1..Len(l) /\ u + 1 + i - 1 = u + i
            BY <1>3, <2>3, <3>2
      <4> QED BY <1>6, <2>3, <4>1
    <3> QED BY <3>1, <3>2
  <2>6. SubSeq(d, u + 1, v) = w
        BY <2>3, <2>4, <2>5, SubSeqIs
  <2> QED BY <2>1, <2>2, <2>6, AppendIsConcat
<1> QED BY <1>2, <1>3, <1>4, <1>5, <1>6, <1>7, <1>8, <1>9, <1>10 DEF Block

\* The text of a name.
LEMMA TextFacts ==
    ASSUME NEW labels, IsName(labels), NEW off, NEW raw, NEW d,
           Laid(labels, Len(labels), off, raw, d)
    PROVE  /\ DotsBehind(labels) = d
           /\ TextOf(labels) = SubSeq(d, 1, Len(d) - 1)
<1>1. PICK N \in Nat : N = Len(labels)
      BY LenProperties DEF IsName
<1> DEFINE f == CHOOSE g : g = [k \in 0..N |-> IF k = 0 THEN <<>> ELSE g[k - 1] \o Append(labels[k], DOT)]
<1>2. DotsBehind(labels) = f[N]
      BY <1>1 DEF DotsBehind
<1>3. /\ off \in [0..N -> Nat] /\ off[0] = 0 /\ d \in Seq(TextBytes) /\ Len(d) = off[N]
      /\ \A i, k \in 0..N : i <= k => off[i] <= off[k]
      BY <1>1 DEF Laid
<1>4. ASSUME NEW k \in 1..N
      PROVE  SubSeq(d, 1, off[k]) = SubSeq(d, 1, off[k - 1]) \o Append(labels[k], DOT)
  <2>1. N \in 0..Len(labels) /\ Laid(labels, N, off, raw, d)
        BY <1>1
  <2>2. /\ off[k - 1] \in Nat /\ off[k] \in Nat /\ Len(labels[k]) \in 1..63
        /\ off[k] = off[k - 1] + Len(labels[k]) + 1 /\ off[k] <= off[N]
        /\ SubSeq(d, off[k - 1] + 1, off[k]) = Append(labels[k], DOT)
    <3>1. Block(labels, N, off, raw, d, k)
          BY <2>1, BlockFacts
    <3> QED BY <3>1 DEF Block
  <2>3. PICK x, y \in Nat : x = off[k - 1] /\ y = off[k] /\ x <= y /\ y <= Len(d)
        BY <1>3, <2>2
  <2>4. SubSeq(d, 1, y) = SubSeq(d, 1, x) \o SubSeq(d, x + 1, y)
        BY <1>3, <2>3, Longer
  <2> QED BY <2>2, <2>3, <2>4
<1>5. SubSeq(d, 1, 0) = <<>>
      BY SubSeqEmpty
<1>6. PICK g : g = [k \in 0..N |-> SubSeq(d, 1, off[k])]
      OBVIOUS
<1>7. g = [k \in 0..N |-> IF k = 0 THEN <<>> ELSE g[k - 1] \o Append(labels[k], DOT)]
  <2>1. ASSUME NEW k \in 0..N
        PROVE  g[k] = IF k = 0 THEN <<>> ELSE g[k - 1] \o Append(labels[k], DOT)
    <3>1. CASE k = 0
          BY <1>3, <1>5, <1>6, <3>1
    <3>2. CASE k # 0
      <4>1. k \in 1..N /\ k - 1 \in 0..N
            BY <3>2
      <4> QED BY <1>4, <1>6, <3>2, <4>1
    <3> QED BY <3>1, <3>2
  <2>2. g = [k \in 0..N |-> g[k]]
        BY <1>6
  <2> QED BY <2>1, <2>2
<1>8. f = [k \in 0..N |-> IF k = 0 THEN <<>> ELSE f[k - 1] \o Append(labels[k], DOT)]
      BY <1>7
<1> HIDE DEF f
<1> DEFINE S == {k \in Nat : k <= N => f[k] = g[k]}
<1>9. 0 \in S
      BY <1>7, <1>8
<1>10. ASSUME NEW k \in Nat, k \in S PROVE k + 1 \in S
  <2> SUFFICES ASSUME k + 1 <= N PROVE f[k + 1] = g[k + 1]
      OBVIOUS
  <2>1. k <= N /\ k + 1 \in 0..N /\ k + 1 # 0 /\ (k + 1) - 1 = k /\ f[k] = g[k]
        BY <1>10
  <2> QED BY <1>7, <1>8, <2>1
<1> HIDE DEF S
<1>11. Nat \subseteq S
      BY <1>9, <1>10, SetInduction
<1>12. f[N] = g[N] /\ g[N] = SubSeq(d, 1, Len(d))
  <2>1. N \in S /\ N \in 0..N
        BY <1>11
  <2> QED BY <1>3, <1>6, <2>1 DEF S
<1>13. SubSeq(d, 1, Len(d)) = d
      BY <1>3, SubSeqFull
<1> QED BY <1>2, <1>12, <1>13 DEF TextOf

-----------------------------------------------------------------------------
(* Loops; the wire format as text *)

\* Two runs of a loop that start in the same state and take the same steps.
LEMMA SameUpTo ==
    ASSUME NEW N \in Nat, NEW f, NEW g, f[0] = g[0],
           \A k \in 1..N : f[k - 1] = g[k - 1] => f[k] = g[k]
    PROVE  \A k \in 0..N : f[k] = g[k]
<1> DEFINE S == {k \in Nat : k <= N => f[k] = g[k]}
<1>1. 0 \in S
      OBVIOUS
<1>2. ASSUME NEW k \in Nat, k \in S PROVE k + 1 \in S
  <2> SUFFICES ASSUME k + 1 <= N PROVE f[k + 1] = g[k + 1]
      OBVIOUS
  <2>1. k + 1 \in 1..N /\ (k + 1) - 1 = k /\ f[k] = g[k]
        BY <1>2
  <2> QED BY <2>1
<1> HIDE DEF S
<1>3. Nat \subseteq S
      BY <1>1, <1>2, SetInduction
<1> QED BY <1>3 DEF S

\* A loop over typed states is well defined.
IsLoop(U, N, F) == F \in [1..N -> [U -> U]]
HasLoop(U, base, N, F) ==
    \E f \in [0..N -> U] : f[0] = base /\ \A k \in 1..N : f[k] = F[k][f[k - 1]]

\* ... by the states it goes through.
LEMMA LoopExists ==
    ASSUME NEW U, NEW base \in U, NEW N \in Nat, NEW F, IsLoop(U, N, F)
    PROVE  HasLoop(U, base, N, F)
<1>0. F \in [1..N -> [U -> U]]
      BY DEF IsLoop
<1> DEFINE S == {n \in Nat : n <= N =>
                   \E f \in [0..n -> U] : f[0] = base /\ \A k \in 1..n : f[k] = F[k][f[k - 1]]}
<1>1. 0 \in S
  <2>1. PICK f : f = [k \in 0..0 |-> base]
        OBVIOUS
  <2>2. f \in [0..0 -> U] /\ f[0] = base /\ \A k \in 1..0 : f[k] = F[k][f[k - 1]]
        BY <2>1
  <2> QED BY <2>2
<1>2. ASSUME NEW n \in Nat, n \in S PROVE n + 1 \in S
  <2> SUFFICES ASSUME n + 1 <= N
               PROVE  \E f \in [0..(n + 1) -> U] :
                        f[0] = base /\ \A k \in 1..(n + 1) : f[k] = F[k][f[k - 1]]
      OBVIOUS
  <2>1. PICK f \in [0..n -> U] : f[0] = base /\ \A k \in 1..n : f[k] = F[k][f[k - 1]]
        BY <1>2
  <2>2. PICK x : x = F[n + 1][f[n]]
        OBVIOUS
  <2>3. x \in U
    <3>1. F[n + 1] \in [U -> U] /\ f[n] \in U
          BY <1>0
    <3> QED BY <2>2, <3>1
  <2>4. PICK g : g = [k \in 0..(n + 1) |-> IF k <= n THEN f[k] ELSE x]
        OBVIOUS
  <2>5. g \in [0..(n + 1) -> U] /\ g[0] = base /\ g[n + 1] = x /\ \A k \in 0..n : g[k] = f[k]
        BY <2>1, <2>3, <2>4
  <2>6. ASSUME NEW k \in 1..(n + 1) PROVE g[k] = F[k][g[k - 1]]
    <3>1. CASE k <= n
      <4>1. k \in 1..n /\ k \in 0..n /\ k - 1 \in 0..n
            BY <3>1
      <4> QED BY <2>1, <2>5, <4>1
    <3>2. CASE k = n + 1
      <4>1. k - 1 = n /\ n \in 0..n
            BY <3>2
      <4> QED BY <2>2, <2>5, <3>2, <4>1
    <3> QED BY <3>1, <3>2
  <2> QED BY <2>5, <2>6
<1> HIDE DEF S
<1>3. Nat \subseteq S
      BY <1>1, <1>2, SetInduction
<1> QED BY <1>3 DEF S, HasLoop

\* Converting the wire format gives the text: one label,
LEMMA DotLabelFacts ==
    ASSUME NEW labels, IsName(labels), NEW off, NEW raw, NEW d, NEW N, N = Len(labels),
           Laid(labels, N, off, raw, d), NEW k \in 1..N
    PROVE  DotLabel(raw, [i |-> off[k - 1], text |-> SubSeq(d, 1, off[k - 1])])
             = [i |-> off[k], text |-> SubSeq(d, 1, off[k])]
<1>1. N \in Nat /\ N \in 0..Len(labels)
      BY LenProperties DEF IsName
<1>2. Block(labels, N, off, raw, d, k)
      BY <1>1, BlockFacts
<1>3. PICK u, v, n \in Nat : u = off[k - 1] /\ v = off[k] /\ n = Len(labels[k])
      BY <1>2 DEF Block
<1>4. /\ v = u + n + 1 /\ raw[u + 1] = n /\ v <= off[N] /\ off[N] \in Nat
      /\ SubSeq(raw, u + 2, v) = labels[k] /\ SubSeq(d, u + 1, v) = labels[k] \o <<DOT>>
      BY <1>1, <1>2, <1>3 DEF Block, Laid
<1>5. Len(raw) = off[N] /\ Len(d) = off[N] /\ d \in Seq(TextBytes)
      BY DEF Laid
<1>6. ~(u >= Len(raw)) /\ u + 1 + n = v /\ u <= v /\ v <= Len(d)
      BY <1>4, <1>5
<1>7. SubSeq(d, 1, v) = SubSeq(d, 1, u) \o SubSeq(d, u + 1, v)
      BY <1>5, <1>6, Longer
<1>8. DotLabel(raw, [i |-> u, text |-> SubSeq(d, 1, u)])
        = [i |-> u + 1 + raw[u + 1],
           text |-> SubSeq(d, 1, u) \o (SubSeq(raw, u + 2, u + 1 + raw[u + 1]) \o <<DOT>>)]
      BY <1>6 DEF DotLabel
<1> QED BY <1>3, <1>4, <1>6, <1>7, <1>8

\* ... and all of them.
LEMMA DottedFacts ==
    ASSUME NEW labels, IsName(labels), NEW off, NEW raw, NEW d,
           Laid(labels, Len(labels), off, raw, d)
    PROVE  Dotted(raw) = TextOf(labels)
<1>1. PICK N \in Nat : N = Len(labels)
      BY LenProperties DEF IsName
<1>2. Laid(labels, N, off, raw, d)
      BY <1>1
<1>3. /\ off \in [0..N -> Nat] /\ off[0] = 0 /\ Len(raw) = off[N] /\ Len(d) = off[N] /\ d \in Seq(TextBytes)
      /\ N <= off[N]
      BY <1>1, <1>2 DEF Laid
<1>4. PICK R \in Nat : R = Len(raw) /\ R = off[N] /\ N <= R
      BY <1>3
<1> DEFINE at(n) == IF n <= N THEN n ELSE N
           st(k) == [i |-> off[k], text |-> SubSeq(d, 1, off[k])]
           base == [i |-> 0, text |-> <<>>]
           f == CHOOSE g : g = [n \in 0..R |-> IF n = 0 THEN base ELSE DotLabel(raw, g[n - 1])]
<1>5. Dotted(raw) = SubSeq(f[R].text, 1, Len(f[R].text) - 1)
      BY <1>4 DEF Dotted
<1>6. PICK g : g = [n \in 0..R |-> st(at(n))]
      OBVIOUS
<1>7. st(0) = base
  <2>1. SubSeq(d, 1, 0) = <<>>
        BY SubSeqEmpty
  <2> QED BY <1>3, <2>1
<1>8. ASSUME NEW n \in 1..R PROVE DotLabel(raw, st(at(n - 1))) = st(at(n))
  <2>1. CASE n <= N
    <3>1. n \in 1..N /\ at(n - 1) = n - 1 /\ at(n) = n
          BY <2>1
    <3> HIDE DEF at
    <3> QED BY <1>1, <1>2, <3>1, DotLabelFacts
  <2>2. CASE ~(n <= N)
    <3>1. at(n - 1) = N /\ at(n) = N
          BY <2>2
    <3>2. st(N).i >= Len(raw)
          BY <1>3, <1>4
    <3> HIDE DEF at, st
    <3> QED BY <3>1, <3>2 DEF DotLabel
  <2> QED BY <2>1, <2>2
<1>9. at(0) = 0 /\ at(R) = N
      BY <1>4
<1>10. /\ DOMAIN g = 0..R /\ \A n \in 0..R : g[n] = st(at(n))
      BY <1>6
<1> HIDE DEF at, st, base
<1>11. g = [n \in 0..R |-> IF n = 0 THEN base ELSE DotLabel(raw, g[n - 1])]
  <2>1. ASSUME NEW n \in 0..R PROVE g[n] = IF n = 0 THEN base ELSE DotLabel(raw, g[n - 1])
    <3>1. CASE n = 0
          BY <1>7, <1>9, <1>10, <3>1
    <3>2. CASE n # 0
      <4>1. n \in 1..R /\ n - 1 \in 0..R
            BY <3>2
      <4> QED BY <1>8, <1>10, <3>2, <4>1
    <3> QED BY <3>1, <3>2
  <2>2. g = [n \in 0..R |-> g[n]]
        BY <1>6
  <2> QED BY <2>1, <2>2
<1>12. f = [n \in 0..R |-> IF n = 0 THEN base ELSE DotLabel(raw, f[n - 1])]
      BY <1>11
<1> HIDE DEF f
<1>13. f[0] = g[0]
      BY <1>11, <1>12
<1>14. ASSUME NEW n \in 1..R, f[n - 1] = g[n - 1] PROVE f[n] = g[n]
  <2>1. n \in 0..R /\ n # 0
        OBVIOUS
  <2> QED BY <1>11, <1>12, <1>14, <2>1
<1>15. f[R] = g[R]
  <2>1. \A n \in 0..R : f[n] = g[n]
        BY <1>13, <1>14, SameUpTo
  <2> QED BY <2>1
<1>16. f[R].text = SubSeq(d, 1, Len(d))
  <2>1. R \in 0..R
        OBVIOUS
  <2>2. f[R] = st(N)
        BY <1>9, <1>10, <1>15, <2>1
  <2>3. st(N).text = SubSeq(d, 1, off[N])
        BY DEF st
  <2> QED BY <1>3, <2>2, <2>3
<1>17. SubSeq(d, 1, Len(d)) = d /\ TextOf(labels) = SubSeq(d, 1, Len(d) - 1)
      BY <1>3, SubSeqFull, TextFacts
<1> QED BY <1>5, <1>16, <1>17

-----------------------------------------------------------------------------
(* The text of a buffer: ChangetoDnsNameFormat *)

\* What strlen sees of bytes that begin with a name on the wire and a 0.
LEMMA CStringIs ==
    ASSUME NEW raw \in Seq(Octets), NEW bytes, Len(bytes) \in Nat, Len(raw) < Len(bytes),
           \A i \in 1..Len(raw) : bytes[i] = raw[i], bytes[Len(raw) + 1] = 0
    PROVE  CString(bytes) = raw
<1>1. PICK n \in Nat : n = Len(raw)
      BY LenProperties
<1>2. PICK I : I = { i \in 1..Len(bytes) : bytes[i] = 0 }
      OBVIOUS
<1>3. \A i \in 1..n : bytes[i] # 0
  <2>1. \A i \in 1..n : raw[i] \in Octets
        BY <1>1, ElementOfSeq
  <2>2. 0 \notin Octets
        BY DEF Octets
  <2> QED BY <1>1, <2>1, <2>2
<1>4. n + 1 \in I /\ \A i \in I : n + 1 <= i
  <2>1. n + 1 \in I
        BY <1>1, <1>2
  <2>2. ASSUME NEW i \in I PROVE n + 1 <= i
    <3>1. i \in 1..Len(bytes) /\ bytes[i] = 0
          BY <1>2
    <3>2. ~(i \in 1..n)
          BY <1>3, <3>1
    <3> QED BY <3>1, <3>2
  <2> QED BY <2>1, <2>2
<1>5. Min(I) = n + 1
  <2>1. Min(I) = CHOOSE x \in I : \A y \in I : x =< y
        BY DEF Min
  <2>2. Min(I) \in I /\ \A y \in I : Min(I) =< y
        BY <1>4, <2>1
  <2>3. \A i \in I : i \in Nat
        BY <1>2
  <2> QED BY <1>4, <2>2, <2>3
<1>6. Terminated(bytes) = n + 1
      BY <1>2, <1>4, <1>5 DEF Terminated, SelectInSeq
<1>7. SubSeq(bytes, 1, n) = raw
  <2>1. n - 1 + 1 = Len(raw) /\ \A i \in 1..Len(raw) : bytes[1 + i - 1] = raw[i]
        BY <1>1
  <2> QED BY <2>1, SubSeqIs
<1>8. Terminated(bytes) - 1 = n
      BY <1>6
<1> QED BY <1>7, <1>8 DEF CString

\* The text of a name with its dots, and any number of dots behind it: what
\* ChangetoDnsNameFormat leaves in the caller's buffer.
IsDotted(h, d) ==
    /\ h \in Seq(TextBytes) /\ Len(d) <= Len(h)
    /\ \A i \in 1..Len(d) : h[i] = d[i]
    /\ \A i \in (Len(d) + 1)..Len(h) : h[i] = DOT

\* The empty labels of the dots behind a name.
Zeros(n) == [i \in 1..n |-> 0]

\* Inside a label there is no dot.
LEMMA NoDotInside ==
    ASSUME NEW labels, IsName(labels), NEW N, N = Len(labels), NEW off, NEW raw, NEW d,
           Laid(labels, N, off, raw, d), NEW h, IsDotted(h, d),
           NEW k \in 1..N, NEW i \in Nat, off[k - 1] < i, i < off[k]
    PROVE  h[i] # DOT
<1>1. N \in Nat /\ N \in 0..Len(labels) /\ k \in 1..Len(labels)
      BY LenProperties DEF IsName
<1>2. Block(labels, N, off, raw, d, k)
      BY <1>1, BlockFacts
<1>a. PICK e \in Nat : e = off[N]
  <2>1. N \in 0..N
        BY <1>1
  <2> QED BY <2>1 DEF Laid
<1>3. PICK u, v, n \in Nat : u = off[k - 1] /\ v = off[k] /\ n = Len(labels[k])
      BY <1>2 DEF Block
<1>4. v = u + n + 1 /\ v <= e /\ Len(d) = e /\ labels[k] \in Seq(Characters)
      BY <1>2, <1>3, <1>a DEF Block, Laid
<1>5. i - u \in 1..n /\ u + (i - u) = i /\ i \in 1..Len(d)
      BY <1>3, <1>4
<1>6. d[u + (i - u)] = labels[k][i - u]
      BY <1>3, <1>5 DEF Laid
<1>7. labels[k][i - u] \in Characters
      BY <1>3, <1>4, <1>5, ElementOfSeq
<1>8. h[i] = labels[k][i - u]
      BY <1>5, <1>6 DEF IsDotted
<1> QED BY <1>7, <1>8 DEF Characters

\* At the dot behind it the label is put on the wire.
LEMMA PutLabelFacts ==
    ASSUME NEW labels, IsName(labels), NEW N, N = Len(labels), NEW off, NEW raw, NEW d,
           Laid(labels, N, off, raw, d), NEW h, IsDotted(h, d), NEW k \in 1..N
    PROVE  PutLabel(h, off[k], [lock |-> off[k - 1], dns |-> SubSeq(raw, 1, off[k - 1])])
             = [lock |-> off[k], dns |-> SubSeq(raw, 1, off[k])]
<1>1. N \in Nat /\ N \in 0..Len(labels)
      BY LenProperties DEF IsName
<1>2. Block(labels, N, off, raw, d, k)
      BY <1>1, BlockFacts
<1>a. PICK e \in Nat : e = off[N]
  <2>1. N \in 0..N
        BY <1>1
  <2> QED BY <2>1 DEF Laid
<1>3. PICK u, v, n \in Nat : u = off[k - 1] /\ v = off[k] /\ n = Len(labels[k])
      BY <1>2 DEF Block
<1>4. /\ v = u + n + 1 /\ v <= e /\ Len(d) = e /\ Len(raw) = e /\ raw \in Seq(Octets) /\ d[v] = DOT
      /\ labels[k] \in Seq(Characters)
      /\ SubSeq(raw, u + 1, v) = <<n>> \o labels[k]
      BY <1>2, <1>3, <1>a DEF Block, Laid
<1>5. h[v] = DOT
  <2>1. v \in 1..Len(d)
        BY <1>4
  <2> QED BY <1>4, <2>1 DEF IsDotted
<1>6. SubSeq(h, u + 1, v - 1) = labels[k]
  <2>1. ASSUME NEW i \in 1..n PROVE h[u + 1 + i - 1] = labels[k][i]
    <3>1. u + 1 + i - 1 = u + i /\ u + i \in 1..Len(d)
          BY <1>4
    <3>2. d[u + i] = labels[k][i]
          BY <1>3 DEF Laid
    <3> QED BY <3>1, <3>2 DEF IsDotted
  <2>2. (v - 1) - (u + 1) + 1 = n /\ u + 1 \in Int /\ v - 1 \in Int
    <3>1. v = u + n + 1
          BY <1>4
    <3> QED BY <3>1
  <2>3. PICK l \in Seq(Characters) : l = labels[k] /\ Len(l) = n
        BY <1>3, <1>4
  <2>4. (v - 1) - (u + 1) + 1 = Len(l) /\ \A i \in 1..Len(l) : h[u + 1 + i - 1] = l[i]
        BY <2>1, <2>2, <2>3
  <2>5. SubSeq(h, u + 1, v - 1) = l
        BY <2>2, <2>4, SubSeqIs
  <2> QED BY <2>3, <2>5
<1>7. u <= v /\ v <= Len(raw) /\ v - 1 - u = n
      BY <1>4
<1>8. SubSeq(raw, 1, v) = SubSeq(raw, 1, u) \o SubSeq(raw, u + 1, v)
      BY <1>4, <1>7, Longer
<1>9. PutLabel(h, v, [lock |-> u, dns |-> SubSeq(raw, 1, u)])
        = [lock |-> v, dns |-> SubSeq(raw, 1, u) \o (<<v - 1 - u>> \o SubSeq(h, u + 1, v - 1))]
      BY <1>5 DEF PutLabel
<1> QED BY <1>3, <1>4, <1>6, <1>7, <1>8, <1>9

\* A dot that follows a dot becomes an empty label.
LEMMA PutNothing ==
    ASSUME NEW raw \in Seq(Octets), NEW n \in Nat, NEW i \in Nat, NEW h, h[i + 1] = DOT
    PROVE  PutLabel(h, i + 1, [lock |-> i, dns |-> raw \o Zeros(n)])
             = [lock |-> i + 1, dns |-> raw \o Zeros(n + 1)]
<1>1. (i + 1) - 1 - i = 0 /\ (i + 1) - 1 = i
      OBVIOUS
<1>2. SubSeq(h, i + 1, i) = <<>>
      BY SubSeqEmpty
<1>3. <<0>> \o <<>> = <<0>>
      OBVIOUS
<1>4. raw \in Seq(Nat)
  <2>1. Octets \subseteq Nat
        BY DEF Octets, POINTER
  <2> QED BY <2>1, SeqMonotonic
<1>5. PICK z : z = Zeros(n)
      OBVIOUS
<1>6. PICK y : y = Zeros(n + 1)
      OBVIOUS
<1>7. z \in Seq(Nat) /\ Len(z) = n /\ y \in Seq(Nat) /\ Len(y) = n + 1
  <2>1. z \in [1..n -> Nat] /\ y \in [1..(n + 1) -> Nat] /\ n + 1 \in Nat
        BY <1>5, <1>6 DEF Zeros
  <2> QED BY <2>1, FunctionIsSeq
<1>8. PICK o : o = <<0>>
      OBVIOUS
<1>9. o \in Seq(Nat) /\ Len(o) = 1 /\ o[1] = 0
      BY <1>8
<1>10. z \o o = y
  <2>1. PICK x : x = z \o o
        OBVIOUS
  <2>2. /\ x \in Seq(Nat) /\ Len(x) = n + 1
        /\ \A j \in 1..n : x[j] = z[j]
        /\ x[n + 1] = 0
    <3>1. /\ z \o o \in Seq(Nat) /\ Len(z \o o) = Len(z) + Len(o)
          /\ \A j \in 1..Len(z) : (z \o o)[j] = z[j]
          /\ \A j \in 1..Len(o) : (z \o o)[Len(z) + j] = o[j]
      <4>1. z \in Seq(Nat) /\ o \in Seq(Nat)
            BY <1>7, <1>9
      <4> QED BY <4>1, JoinFacts
    <3> QED BY <1>7, <1>9, <2>1, <3>1
  <2>3. ASSUME NEW j \in 1..(n + 1) PROVE x[j] = y[j]
    <3>1. y[j] = 0 /\ (j <= n => z[j] = 0)
          BY <1>5, <1>6 DEF Zeros
    <3>2. CASE j <= n
      <4>1. j \in 1..n
            BY <3>2
      <4> QED BY <2>2, <3>1, <3>2, <4>1
    <3>3. CASE ~(j <= n)
      <4>1. j = n + 1
            BY <3>3
      <4> QED BY <2>2, <3>1, <4>1
    <3> QED BY <3>2, <3>3
  <2> QED BY <1>7, <2>1, <2>2, <2>3, SeqEqual
<1>11. (raw \o z) \o o = raw \o (z \o o)
  <2>1. raw \in Seq(Nat) /\ z \in Seq(Nat) /\ o \in Seq(Nat)
        BY <1>4, <1>7, <1>9
  <2> QED BY <2>1, ConcatAssociative
<1>12. PutLabel(h, i + 1, [lock |-> i, dns |-> raw \o Zeros(n)])
        = [lock |-> i + 1, dns |-> (raw \o Zeros(n)) \o (<<0>> \o <<>>)]
      BY <1>1, <1>2 DEF PutLabel
<1> QED BY <1>3, <1>5, <1>6, <1>8, <1>10, <1>11, <1>12

\* The loop over a text is well defined.
LEMMA WireLoop ==
    ASSUME NEW h \in Seq(TextBytes), NEW H, H = Len(h), NEW f,
           f = CHOOSE g : g = [i \in 0..H |-> IF i = 0 THEN [lock |-> 0, dns |-> <<>>]
                                              ELSE PutLabel(h, i, g[i - 1])]
    PROVE  f[0] = [lock |-> 0, dns |-> <<>>] /\ \A i \in 1..H : f[i] = PutLabel(h, i, f[i - 1])
<1>1. H \in Nat
      BY LenProperties
<1>2. PICK U : U = [lock : Nat, dns : Seq(Int)]
      OBVIOUS
<1>3. PICK base : base = [lock |-> 0, dns |-> <<>>]
      OBVIOUS
<1>4. base \in U
  <2>1. <<>> \in Seq(Int)
        OBVIOUS
  <2> QED BY <1>2, <1>3, <2>1
<1>5. ASSUME NEW i \in 1..H, NEW s \in U PROVE PutLabel(h, i, s) \in U
  <2>1. CASE h[i] # DOT
        BY <2>1 DEF PutLabel
  <2>2. CASE h[i] = DOT
    <3>1. PICK lock \in Nat, dns \in Seq(Int) : lock = s.lock /\ dns = s.dns
          BY <1>2
    <3>2. PICK p : p = SubSeq(h, lock + 1, i - 1)
          OBVIOUS
    <3>3. p \in Seq(Int)
      <4>1. lock + 1 \in Int /\ i - 1 \in Int
            OBVIOUS
      <4>2. ASSUME NEW j \in (lock + 1)..(i - 1) PROVE h[j] \in Int
        <5>1. j \in 1..H
              BY <1>1
        <5>2. h[j] \in TextBytes
              BY <5>1, ElementOfSeq
        <5> QED BY <5>2 DEF TextBytes, Characters, DOT
      <4> QED BY <3>2, <4>1, <4>2, SubSeqProperties
    <3>4. PICK o : o = <<i - 1 - lock>>
          OBVIOUS
    <3>5. o \in Seq(Int)
          BY <3>4
    <3>6. dns \o (o \o p) \in Seq(Int)
          BY <3>1, <3>3, <3>5, ConcatProperties
    <3>7. PutLabel(h, i, s) = [lock |-> i, dns |-> dns \o (o \o p)]
          BY <2>2, <3>1, <3>2, <3>4 DEF PutLabel
    <3> QED BY <1>1, <1>2, <3>6, <3>7
  <2> QED BY <2>1, <2>2
<1>6. PICK F : F = [i \in 1..H |-> [s \in U |-> PutLabel(h, i, s)]]
      OBVIOUS
<1>7. IsLoop(U, H, F)
      BY <1>5, <1>6 DEF IsLoop
<1>8. PICK g \in [0..H -> U] : g[0] = base /\ \A k \in 1..H : g[k] = F[k][g[k - 1]]
  <2>1. HasLoop(U, base, H, F)
        BY <1>1, <1>4, <1>7, LoopExists
  <2> QED BY <2>1 DEF HasLoop
<1>9. \A k \in 1..H : g[k] = PutLabel(h, k, g[k - 1])
  <2> TAKE k \in 1..H
  <2>1. g[k - 1] \in U
        BY <1>1
  <2> QED BY <1>6, <1>8, <2>1
<1>10. g = [i \in 0..H |-> IF i = 0 THEN base ELSE PutLabel(h, i, g[i - 1])]
  <2>1. \A i \in 0..H : g[i] = IF i = 0 THEN base ELSE PutLabel(h, i, g[i - 1])
        BY <1>1, <1>8, <1>9
  <2> QED BY <1>8, <2>1
<1>11. f = [i \in 0..H |-> IF i = 0 THEN base ELSE PutLabel(h, i, f[i - 1])]
      BY <1>3, <1>10
<1>12. 0 \in 0..H /\ \A i \in 1..H : i \in 0..H /\ i # 0
      BY <1>1
<1> QED BY <1>3, <1>11, <1>12

\* The states of the loop: within a label, and behind the last one.
Within(f, i, off, raw, N, k) ==
    /\ k \in 1..N /\ off[k - 1] <= i /\ i < off[k]
    /\ f[i] = [lock |-> off[k - 1], dns |-> SubSeq(raw, 1, off[k - 1])]
Behind(f, i, raw, e) == e <= i /\ f[i] = [lock |-> i, dns |-> raw \o Zeros(i - e)]
OnTheWay(f, i, off, raw, N, e) == (\E k : Within(f, i, off, raw, N, k)) \/ Behind(f, i, raw, e)

\* The text of a name, with more dots behind it, becomes the name on the wire and
\* an empty label for each of them.
LEMMA WireFacts ==
    ASSUME NEW labels, IsName(labels), labels # <<>>, NEW off, NEW raw, NEW d,
           Laid(labels, Len(labels), off, raw, d), NEW h, IsDotted(h, d)
    PROVE  LabelsBefore(h) = raw \o Zeros(Len(h) - Len(d))
<1>1. PICK N \in Nat : N = Len(labels) /\ N > 0
      BY EmptySeq, LenProperties DEF IsName
<1>2. Laid(labels, N, off, raw, d)
      BY <1>1
<1>3. PICK H \in Nat : H = Len(h) /\ h \in Seq(TextBytes)
      BY LenProperties DEF IsDotted
<1>4. /\ off \in [0..N -> Nat] /\ off[0] = 0 /\ raw \in Seq(Octets) /\ Len(raw) = off[N]
      /\ d \in Seq(TextBytes) /\ Len(d) = off[N]
      BY <1>2 DEF Laid
<1>5. PICK e \in Nat : e = off[N] /\ e <= H /\ Len(d) = e /\ Len(raw) = e
      BY <1>3, <1>4 DEF IsDotted
<1> DEFINE f == CHOOSE g : g = [i \in 0..H |-> IF i = 0 THEN [lock |-> 0, dns |-> <<>>]
                                               ELSE PutLabel(h, i, g[i - 1])]
<1>6. LabelsBefore(h) = f[H].dns
      BY <1>3 DEF LabelsBefore
<1>7. f[0] = [lock |-> 0, dns |-> <<>>] /\ \A i \in 1..H : f[i] = PutLabel(h, i, f[i - 1])
      BY <1>3, WireLoop
<1> HIDE DEF f
<1> DEFINE S == {i \in Nat : i <= H => OnTheWay(f, i, off, raw, N, e)}
<1>8. 0 \in S
  <2>1. 1 \in 1..N /\ 1 - 1 = 0 /\ N \in 0..Len(labels)
        BY <1>1
  <2>2. Block(labels, N, off, raw, d, 1)
        BY <1>2, <2>1, BlockFacts
  <2>3. off[1] \in Nat /\ 0 < off[1]
        BY <1>4, <2>1, <2>2 DEF Block
  <2>4. SubSeq(raw, 1, 0) = <<>>
        BY SubSeqEmpty
  <2>5. Within(f, 0, off, raw, N, 1)
        BY <1>4, <1>7, <2>1, <2>3, <2>4 DEF Within
  <2>6. OnTheWay(f, 0, off, raw, N, e)
        BY <2>5 DEF OnTheWay
  <2> QED BY <2>6
<1>9. ASSUME NEW i \in Nat, i \in S PROVE i + 1 \in S
  <2> SUFFICES ASSUME i + 1 <= H PROVE OnTheWay(f, i + 1, off, raw, N, e)
      OBVIOUS
  <2>a. OnTheWay(f, i, off, raw, N, e)
        BY <1>9
  <2>1. f[i + 1] = PutLabel(h, i + 1, f[i])
    <3>1. i + 1 \in 1..H /\ (i + 1) - 1 = i
          OBVIOUS
    <3> QED BY <1>7, <3>1
  <2>2. ASSUME NEW k, Within(f, i, off, raw, N, k) PROVE OnTheWay(f, i + 1, off, raw, N, e)
    <3>1. /\ k \in 1..N /\ off[k - 1] <= i /\ i < off[k]
          /\ f[i] = [lock |-> off[k - 1], dns |-> SubSeq(raw, 1, off[k - 1])]
          BY <2>2 DEF Within
    <3>2. off[k - 1] \in Nat /\ off[k] \in Nat
          BY <1>4, <3>1
    <3>3. CASE i + 1 < off[k]
      <4>1. h[i + 1] # DOT
        <5>1. i + 1 \in Nat /\ off[k - 1] < i + 1
              BY <3>1, <3>2
        <5> QED BY <1>1, <1>2, <3>1, <3>3, <5>1, NoDotInside
      <4>2. f[i + 1] = f[i]
            BY <2>1, <4>1 DEF PutLabel
      <4>3. off[k - 1] <= i + 1
            BY <3>1, <3>2
      <4>4. Within(f, i + 1, off, raw, N, k)
            BY <3>1, <3>3, <4>2, <4>3 DEF Within
      <4> QED BY <4>4 DEF OnTheWay
    <3>4. CASE ~(i + 1 < off[k])
      <4>1. i + 1 = off[k]
            BY <3>1, <3>2, <3>4
      <4>2. f[i + 1] = [lock |-> off[k], dns |-> SubSeq(raw, 1, off[k])]
        <5>1. PutLabel(h, off[k], [lock |-> off[k - 1], dns |-> SubSeq(raw, 1, off[k - 1])])
                = [lock |-> off[k], dns |-> SubSeq(raw, 1, off[k])]
              BY <1>1, <1>2, <3>1, PutLabelFacts
        <5> QED BY <2>1, <3>1, <4>1, <5>1
      <4>3. CASE k < N
        <5>1. k + 1 \in 1..N /\ (k + 1) - 1 = k /\ N \in 0..Len(labels)
              BY <1>1, <3>1, <4>3
        <5>2. Block(labels, N, off, raw, d, k + 1)
              BY <1>2, <5>1, BlockFacts
        <5>3. off[k + 1] \in Nat /\ off[k] < off[k + 1]
              BY <3>2, <5>1, <5>2 DEF Block
        <5>4. Within(f, i + 1, off, raw, N, k + 1)
          <6>1. off[k] <= i + 1 /\ i + 1 < off[k + 1]
                BY <3>2, <4>1, <5>3
          <6> QED BY <4>2, <5>1, <6>1 DEF Within
        <5> QED BY <5>4 DEF OnTheWay
      <4>4. CASE k = N
        <5>1. SubSeq(raw, 1, e) = raw
              BY <1>4, <1>5, SubSeqFull
        <5>2. i + 1 = e /\ (i + 1) - e = 0 /\ e <= i + 1
              BY <1>5, <4>1, <4>4
        <5>3. Zeros(0) = <<>>
              BY DEF Zeros
        <5>4. raw \o <<>> = raw
              BY <1>4, ConcatEmptySeq
        <5>5. f[i + 1] = [lock |-> i + 1, dns |-> raw]
              BY <4>1, <4>2, <5>1, <5>2
        <5>6. raw \o Zeros((i + 1) - e) = raw
              BY <5>2, <5>3, <5>4
        <5>7. Behind(f, i + 1, raw, e)
              BY <5>2, <5>5, <5>6 DEF Behind
        <5> QED BY <5>7 DEF OnTheWay
      <4> QED BY <1>1, <3>1, <4>3, <4>4
    <3> QED BY <3>3, <3>4
  <2>3. CASE Behind(f, i, raw, e)
    <3>0. e <= i
          BY <2>3 DEF Behind
    <3>1. PICK n \in Nat : n = i - e /\ n + 1 = (i + 1) - e
          BY <1>5, <3>0
    <3>2. h[i + 1] = DOT
      <4>1. i + 1 \in (Len(d) + 1)..Len(h)
            BY <1>3, <1>5, <3>0
      <4> QED BY <4>1 DEF IsDotted
    <3>3. PutLabel(h, i + 1, [lock |-> i, dns |-> raw \o Zeros(n)])
             = [lock |-> i + 1, dns |-> raw \o Zeros(n + 1)]
          BY <1>4, <3>2, PutNothing
    <3>4. f[i] = [lock |-> i, dns |-> raw \o Zeros(n)]
          BY <2>3, <3>1 DEF Behind
    <3>5. e <= i + 1
          BY <1>5, <3>0
    <3>6. Behind(f, i + 1, raw, e)
          BY <2>1, <3>1, <3>3, <3>4, <3>5 DEF Behind
    <3> QED BY <3>6 DEF OnTheWay
  <2> QED BY <2>a, <2>2, <2>3 DEF OnTheWay
<1> HIDE DEF S
<1>10. OnTheWay(f, H, off, raw, N, e)
  <2>1. Nat \subseteq S
        BY <1>8, <1>9, SetInduction
  <2> QED BY <2>1 DEF S
<1>11. ASSUME NEW k PROVE ~Within(f, H, off, raw, N, k)
  <2> SUFFICES ASSUME k \in 1..N, H < off[k] PROVE FALSE
      BY DEF Within
  <2>1. k \in 0..N /\ N \in 0..N /\ k <= N
        OBVIOUS
  <2>2. off[k] <= off[N] /\ off[k] \in Nat
        BY <1>2, <2>1 DEF Laid
  <2> QED BY <1>5, <2>2
<1>12. Behind(f, H, raw, e)
      BY <1>10, <1>11 DEF OnTheWay
<1> QED BY <1>3, <1>5, <1>6, <1>12 DEF Behind

-----------------------------------------------------------------------------
(* Queries: setupDnsQuery *)

\* The bytes of a message.
Bytes == 0..255

\* Bytes of names and of messages.
LEMMA OctetsAreBytes ==
    /\ Octets \subseteq Bytes /\ Octets \subseteq Nat /\ Bytes \subseteq Nat
    /\ TextBytes \subseteq Octets /\ 0 \notin Octets
BY DEF Octets, Bytes, POINTER, TextBytes, Characters, DOT

\* One dot more.
LEMMA AppendDot ==
    ASSUME NEW d \in Seq(TextBytes), NEW h, IsDotted(h, d)
    PROVE  IsDotted(Append(h, DOT), d)
<1>1. PICK H, e \in Nat : H = Len(h) /\ e = Len(d) /\ e <= H /\ h \in Seq(TextBytes)
      BY LenProperties DEF IsDotted
<1>2. DOT \in TextBytes
      BY DEF TextBytes
<1>3. PICK t : t = Append(h, DOT)
      OBVIOUS
<1>4. t \in Seq(TextBytes) /\ Len(t) = H + 1 /\ t[H + 1] = DOT /\ \A i \in 1..H : t[i] = h[i]
      BY <1>1, <1>2, <1>3, AppendProperties
<1>5. e <= H + 1
      BY <1>1
<1>6. \A i \in 1..e : t[i] = d[i]
  <2> TAKE i \in 1..e
  <2>1. i \in 1..H
        BY <1>1
  <2> QED BY <1>1, <1>4, <2>1 DEF IsDotted
<1>7. \A i \in (e + 1)..(H + 1) : t[i] = DOT
  <2> TAKE i \in (e + 1)..(H + 1)
  <2>1. CASE i = H + 1
        BY <1>4, <2>1
  <2>2. CASE i # H + 1
    <3>1. i \in 1..H /\ i \in (e + 1)..H
          BY <1>1, <2>2
    <3> QED BY <1>1, <1>4, <3>1 DEF IsDotted
  <2> QED BY <2>1, <2>2
<1>8. IsDotted(t, d)
      BY <1>1, <1>4, <1>5, <1>6, <1>7 DEF IsDotted
<1> QED BY <1>3, <1>8

\* The first dot.
LEMMA FirstDot ==
    ASSUME NEW labels, IsName(labels), labels # <<>>, NEW off, NEW raw, NEW d,
           Laid(labels, Len(labels), off, raw, d)
    PROVE  IsDotted(Append(TextOf(labels), DOT), d)
<1>1. PICK N \in Nat : N = Len(labels) /\ N > 0
      BY EmptySeq, LenProperties DEF IsName
<1>2. Laid(labels, N, off, raw, d) /\ N \in 1..N /\ N \in 0..Len(labels)
      BY <1>1
<1>3. Block(labels, N, off, raw, d, N)
      BY <1>2, BlockFacts
<1>4. PICK e \in Nat : e = off[N] /\ e > 0 /\ Len(d) = e /\ d[e] = DOT /\ d \in Seq(TextBytes)
      BY <1>2, <1>3 DEF Block, Laid
<1>5. PICK t : t = SubSeq(d, 1, e - 1)
      OBVIOUS
<1>6. t \in Seq(TextBytes) /\ Len(t) = e - 1 /\ \A i \in 1..(e - 1) : t[i] = d[i]
  <2>1. 1 \in 1..(Len(d) + 1) /\ e - 1 \in (1 - 1)..Len(d) /\ (e - 1) - 1 + 1 = e - 1
        BY <1>4
  <2>2. \A i \in 1..(e - 1) : 1 + i - 1 = i
        BY <1>4
  <2>3. /\ SubSeq(d, 1, e - 1) \in Seq(TextBytes) /\ Len(SubSeq(d, 1, e - 1)) = (e - 1) - 1 + 1
        /\ \A i \in 1..((e - 1) - 1 + 1) : SubSeq(d, 1, e - 1)[i] = d[1 + i - 1]
        BY <1>4, <2>1, PartOf
  <2> QED BY <1>5, <2>1, <2>2, <2>3
<1>7. PICK h : h = Append(t, DOT)
      OBVIOUS
<1>8. h \in Seq(TextBytes) /\ Len(h) = e /\ h[e] = DOT /\ \A i \in 1..(e - 1) : h[i] = t[i]
  <2>1. DOT \in TextBytes
        BY DEF TextBytes
  <2>2. (e - 1) + 1 = e
        BY <1>4
  <2> QED BY <1>6, <1>7, <2>1, <2>2, AppendProperties
<1>9. \A i \in 1..e : h[i] = d[i]
  <2> TAKE i \in 1..e
  <2>1. CASE i = e
        BY <1>4, <1>8, <2>1
  <2>2. CASE i # e
    <3>1. i \in 1..(e - 1)
          BY <1>4, <2>2
    <3> QED BY <1>6, <1>8, <3>1
  <2> QED BY <2>1, <2>2
<1>10. \A i \in (e + 1)..e : h[i] = DOT
      BY <1>4
<1>11. IsDotted(h, d)
      BY <1>4, <1>8, <1>9, <1>10 DEF IsDotted
<1>12. TextOf(labels) = t
      BY <1>4, <1>5, TextFacts
<1> QED BY <1>7, <1>11, <1>12

\* A message that begins with a header and a question for a name on the wire.
Asks(bytes, raw) ==
    /\ bytes \in Seq(Bytes) /\ Len(bytes) >= Len(raw) + 17
    /\ \A i \in 1..Len(raw) : bytes[12 + i] = raw[i]
    /\ bytes[13 + Len(raw)] = 0

\* What setupDnsQuery makes of a text with its dots.
LEMMA QueryFacts ==
    ASSUME NEW labels, IsName(labels), labels # <<>>, NEW off, NEW raw, NEW d,
           Laid(labels, Len(labels), off, raw, d), NEW text, IsDotted(Append(text, DOT), d)
    PROVE  /\ setupDnsQuery(text).host = Append(text, DOT)
           /\ Asks(setupDnsQuery(text).bytes, raw)
           /\ Len(setupDnsQuery(text).bytes) = Len(raw) + 17
<1>1. PICK h : h = Append(text, DOT)
      OBVIOUS
<1>2. IsDotted(h, d)
      BY <1>1
<1>3. raw \in Seq(Octets) /\ d \in Seq(TextBytes) /\ h \in Seq(TextBytes) /\ Len(d) = Len(raw)
      BY <1>2 DEF Laid, IsDotted
<1>4. PICK r, j \in Nat : r = Len(raw) /\ j = Len(h) - Len(d)
  <2>1. Len(raw) \in Nat /\ Len(h) \in Nat /\ Len(d) \in Nat
        BY <1>3, LenProperties
  <2>2. Len(d) <= Len(h)
        BY <1>2 DEF IsDotted
  <2>3. Len(h) - Len(d) \in Nat
        BY <2>1, <2>2
  <2> QED BY <2>1, <2>3
<1>5. LabelsBefore(h) = raw \o Zeros(j)
      BY <1>2, <1>4, WireFacts
<1>6. PICK z, o, q : z = Zeros(j) /\ o = <<0>> /\ q = <<0, T_A, 0, 1>>
      OBVIOUS
<1>7. /\ raw \in Seq(Bytes) /\ z \in Seq(Bytes) /\ o \in Seq(Bytes) /\ q \in Seq(Bytes)
      /\ Len(z) = j /\ Len(o) = 1 /\ o[1] = 0 /\ Len(q) = 4
  <2>1. raw \in Seq(Bytes)
        BY <1>3, OctetsAreBytes, SeqMonotonic
  <2>2. 0 \in Bytes /\ T_A \in Bytes /\ 1 \in Bytes
        BY DEF Bytes, T_A
  <2>3. z \in [1..j -> Bytes]
        BY <1>6, <2>2 DEF Zeros
  <2>4. z \in Seq(Bytes) /\ Len(z) = j
        BY <1>4, <2>3, FunctionIsSeq
  <2>5. o \in Seq(Bytes) /\ Len(o) = 1 /\ o[1] = 0
        BY <1>6, <2>2
  <2>6. q \in Seq(Bytes) /\ Len(q) = 4
        BY <1>6, <2>2
  <2> QED BY <2>1, <2>4, <2>5, <2>6
<1>8. PICK b : b = (raw \o z) \o o
      OBVIOUS
<1>9. CString(b) = raw
  <2>1. PICK a : a = raw \o z
        OBVIOUS
  <2>2. /\ a \in Seq(Bytes) /\ Len(a) = r + j
        /\ \A i \in 1..r : a[i] = raw[i]
        /\ \A i \in 1..j : a[r + i] = z[i]
    <3>1. raw \in Seq(Bytes) /\ z \in Seq(Bytes)
          BY <1>7
    <3>2. /\ raw \o z \in Seq(Bytes) /\ Len(raw \o z) = Len(raw) + Len(z)
          /\ \A i \in 1..Len(raw) : (raw \o z)[i] = raw[i]
          /\ \A i \in 1..Len(z) : (raw \o z)[Len(raw) + i] = z[i]
          BY <3>1, JoinFacts
    <3> QED BY <1>4, <1>7, <2>1, <3>2
  <2>3. /\ b \in Seq(Bytes) /\ Len(b) = (r + j) + 1
        /\ \A i \in 1..(r + j) : b[i] = a[i]
        /\ \A i \in 1..1 : b[(r + j) + i] = o[i]
    <3>1. /\ a \o o \in Seq(Bytes) /\ Len(a \o o) = Len(a) + Len(o)
          /\ \A i \in 1..Len(a) : (a \o o)[i] = a[i]
          /\ \A i \in 1..Len(o) : (a \o o)[Len(a) + i] = o[i]
      <4>1. a \in Seq(Bytes) /\ o \in Seq(Bytes)
            BY <1>7, <2>2
      <4> QED BY <4>1, JoinFacts
    <3> QED BY <1>7, <1>8, <2>1, <2>2, <3>1
  <2>4. Len(b) \in Nat /\ r < Len(b)
        BY <2>3
  <2>5. \A i \in 1..r : b[i] = raw[i]
    <3> TAKE i \in 1..r
    <3>1. i \in 1..(r + j)
          OBVIOUS
    <3> QED BY <2>2, <2>3, <3>1
  <2>6. b[r + 1] = 0
    <3>1. CASE j = 0
      <4>1. (r + j) + 1 = r + 1 /\ 1 \in 1..1
            BY <3>1
      <4> QED BY <1>7, <2>3, <4>1
    <3>2. CASE j # 0
      <4>1. 1 \in 1..j /\ r + 1 \in 1..(r + j)
            BY <3>2
      <4>2. z[1] = 0
            BY <1>6, <4>1 DEF Zeros
      <4> QED BY <2>2, <2>3, <4>1, <4>2
    <3> QED BY <3>1, <3>2
  <2> QED BY <1>3, <1>4, <2>4, <2>5, <2>6, CStringIs
<1>10. PICK hd : hd = [i \in 1..DNS_HEADER |-> 0]
      OBVIOUS
<1>11. hd \in Seq(Bytes) /\ Len(hd) = 12
  <2>1. hd \in [1..12 -> Bytes] /\ 12 \in Nat
        BY <1>10 DEF DNS_HEADER, Bytes
  <2> QED BY <2>1, FunctionIsSeq
<1>12. setupDnsQuery(text) = [host |-> h, bytes |-> ((hd \o raw) \o o) \o q]
      BY <1>1, <1>5, <1>6, <1>8, <1>9, <1>10 DEF setupDnsQuery, ChangetoDnsNameFormat
<1>13. PICK x, y, w : x = hd \o raw /\ y = x \o o /\ w = y \o q
      OBVIOUS
<1>14. /\ x \in Seq(Bytes) /\ Len(x) = 12 + r
       /\ \A i \in 1..r : x[12 + i] = raw[i]
  <2>1. hd \in Seq(Bytes) /\ raw \in Seq(Bytes)
        BY <1>7, <1>11
  <2>2. /\ hd \o raw \in Seq(Bytes) /\ Len(hd \o raw) = Len(hd) + Len(raw)
        /\ \A i \in 1..Len(raw) : (hd \o raw)[Len(hd) + i] = raw[i]
        BY <2>1, JoinFacts
  <2> QED BY <1>4, <1>11, <1>13, <2>2
<1>15. /\ y \in Seq(Bytes) /\ Len(y) = 13 + r
       /\ \A i \in 1..(12 + r) : y[i] = x[i]
       /\ y[13 + r] = 0
  <2>1. /\ x \o o \in Seq(Bytes) /\ Len(x \o o) = Len(x) + Len(o)
        /\ \A i \in 1..Len(x) : (x \o o)[i] = x[i]
        /\ \A i \in 1..Len(o) : (x \o o)[Len(x) + i] = o[i]
    <3>1. x \in Seq(Bytes) /\ o \in Seq(Bytes)
          BY <1>7, <1>14
    <3> QED BY <3>1, JoinFacts
  <2>2. 12 + r + 1 = 13 + r /\ 1 \in 1..1
        OBVIOUS
  <2> QED BY <1>7, <1>13, <1>14, <2>1, <2>2
<1>16. /\ w \in Seq(Bytes) /\ Len(w) = r + 17
       /\ \A i \in 1..(13 + r) : w[i] = y[i]
  <2>1. /\ y \o q \in Seq(Bytes) /\ Len(y \o q) = Len(y) + Len(q)
        /\ \A i \in 1..Len(y) : (y \o q)[i] = y[i]
    <3>1. y \in Seq(Bytes) /\ q \in Seq(Bytes)
          BY <1>7, <1>15
    <3> QED BY <3>1, JoinFacts
  <2>2. (13 + r) + 4 = r + 17
        OBVIOUS
  <2> QED BY <1>7, <1>13, <1>15, <2>1, <2>2
<1>17. w[13 + r] = 0 /\ \A i \in 1..r : w[12 + i] = raw[i]
  <2>1. 13 + r \in 1..(13 + r) /\ \A i \in 1..r : 12 + i \in 1..(13 + r) /\ 12 + i \in 1..(12 + r)
        OBVIOUS
  <2> QED BY <1>14, <1>15, <1>16, <2>1
<1>18. Asks(w, raw)
  <2>1. r + 17 >= r + 17
        OBVIOUS
  <2> QED BY <1>4, <1>16, <1>17, <2>1 DEF Asks
<1> QED BY <1>1, <1>4, <1>12, <1>13, <1>16, <1>18

-----------------------------------------------------------------------------
(* The name server reads a query *)

\* What the message holds at a label of the name it asks for.
AtLabel(msg, labels, off, k) ==
    /\ off[k - 1] \in Nat /\ off[k] = off[k - 1] + 1 + Len(labels[k]) /\ Len(labels[k]) \in 1..63
    /\ Byte(msg, 12 + off[k - 1]) = Len(labels[k])
    /\ SubSeq(msg, 12 + off[k - 1] + 2, 12 + off[k]) = labels[k]

\* Such a message holds every label of the name.
LEMMA AtLabelFacts ==
    ASSUME NEW labels, IsName(labels), NEW N, N = Len(labels), NEW off, NEW raw, NEW d,
           Laid(labels, N, off, raw, d), NEW msg, Asks(msg, raw), NEW k \in 1..N
    PROVE  AtLabel(msg, labels, off, k)
<1>1. N \in Nat /\ N \in 0..Len(labels)
      BY LenProperties DEF IsName
<1>2. Block(labels, N, off, raw, d, k)
      BY <1>1, BlockFacts
<1>3. PICK e \in Nat : e = off[N] /\ Len(raw) = e
  <2>1. N \in 0..N
        BY <1>1
  <2> QED BY <2>1 DEF Laid
<1>4. PICK u, v, n \in Nat : u = off[k - 1] /\ v = off[k] /\ n = Len(labels[k])
      BY <1>2 DEF Block
<1>5. v = u + n + 1 /\ v <= e /\ raw[u + 1] = n /\ n \in 1..63
      BY <1>2, <1>3, <1>4 DEF Block
<1>6. PICK l \in Seq(Characters) : l = labels[k] /\ Len(l) = n
      BY <1>2, <1>4 DEF Block
<1>7. Byte(msg, 12 + u) = n
  <2>1. u + 1 \in 1..e /\ 12 + u + 1 = 12 + (u + 1)
        BY <1>5
  <2> QED BY <1>3, <1>5, <2>1 DEF Asks, Byte
<1>8. SubSeq(msg, 12 + u + 2, 12 + v) = l
  <2>1. ASSUME NEW i \in 1..n PROVE msg[12 + u + 2 + i - 1] = l[i]
    <3>1. 12 + u + 2 + i - 1 = 12 + (u + 1 + i) /\ u + 1 + i \in 1..e
          BY <1>5
    <3>2. raw[u + 1 + i] = l[i]
          BY <1>4, <1>6 DEF Laid
    <3> QED BY <1>3, <3>1, <3>2 DEF Asks
  <2>2. 12 + v - (12 + u + 2) + 1 = n /\ 12 + v \in Int /\ 12 + u + 2 \in Int
    <3>1. v = u + n + 1
          BY <1>5
    <3> QED BY <3>1
  <2> QED BY <1>6, <2>1, <2>2, SubSeqIs
<1>9. v = u + 1 + n
      BY <1>5
<1> QED BY <1>4, <1>5, <1>6, <1>7, <1>8, <1>9 DEF AtLabel

\* A name server reads the labels of the name.
LEMMA LabelsAtFacts ==
    ASSUME NEW labels, IsName(labels), NEW off, NEW raw, NEW d,
           Laid(labels, Len(labels), off, raw, d), NEW msg, Asks(msg, raw)
    PROVE  LabelsAt(msg, 12) = labels
<1>1. PICK N \in Nat : N = Len(labels)
      BY LenProperties DEF IsName
<1>2. Laid(labels, N, off, raw, d)
      BY <1>1
<1>3. PICK e \in Nat : e = off[N] /\ Len(raw) = e /\ N <= e
  <2>1. N \in 0..N
        BY <1>1
  <2> QED BY <1>2, <2>1 DEF Laid
<1>4. PICK M \in Nat : M = Len(msg) /\ e + 17 <= M
      BY <1>3, LenProperties DEF Asks
<1>5. off \in [0..N -> Nat] /\ off[0] = 0 /\ labels \in Seq(Seq(Characters))
      BY <1>2 DEF Laid, IsName
<1>6. Byte(msg, 12 + e) = 0
  <2>1. 12 + e + 1 = 13 + e
        OBVIOUS
  <2> QED BY <1>3, <2>1 DEF Asks, Byte
<1> DEFINE upto(n) == IF n <= N THEN n ELSE N
           st(k) == [reader |-> 12 + off[k], labels |-> SubSeq(labels, 1, k)]
           base == [reader |-> 12, labels |-> <<>>]
           f == CHOOSE g : g = [n \in 0..M |-> IF n = 0 THEN base ELSE TakeLabel(msg, g[n - 1])]
<1>7. LabelsAt(msg, 12) = f[CHOOSE n \in 0..M : Byte(msg, f[n].reader) = 0].labels
      BY <1>4 DEF LabelsAt
<1>8. st(0) = base
  <2>1. SubSeq(labels, 1, 0) = <<>>
        BY SubSeqEmpty
  <2> QED BY <1>5, <2>1
<1>9. ASSUME NEW k \in 1..N PROVE TakeLabel(msg, st(k - 1)) = st(k) /\ Byte(msg, st(k - 1).reader) # 0
  <2>1. AtLabel(msg, labels, off, k)
        BY <1>1, <1>2, AtLabelFacts
  <2>2. PICK u, v, n \in Nat : u = off[k - 1] /\ v = off[k] /\ n = Len(labels[k])
        BY <1>5, <2>1 DEF AtLabel
  <2>3. /\ v = u + 1 + n /\ n # 0 /\ Byte(msg, 12 + u) = n
        /\ SubSeq(msg, 12 + u + 2, 12 + v) = labels[k] /\ 12 + u + 1 + n = 12 + v
    <3>1. /\ v = u + 1 + n /\ n # 0 /\ Byte(msg, 12 + u) = n
          /\ SubSeq(msg, 12 + u + 2, 12 + v) = labels[k]
      <4>1. v = u + 1 + n /\ n \in 1..63 /\ Byte(msg, 12 + u) = n
            BY <2>1, <2>2 DEF AtLabel
      <4>2. SubSeq(msg, 12 + u + 2, 12 + v) = labels[k]
            BY ONLY <2>1, <2>2 DEF AtLabel
      <4> QED BY <4>1, <4>2
    <3> QED BY <3>1
  <2>4. TakeLabel(msg, [reader |-> 12 + u, labels |-> SubSeq(labels, 1, k - 1)])
          = [reader |-> 12 + v, labels |-> Append(SubSeq(labels, 1, k - 1), labels[k])]
        BY <2>3 DEF TakeLabel
  <2>5. Append(SubSeq(labels, 1, k - 1), labels[k]) = SubSeq(labels, 1, k)
    <3>1. labels[k] \in Seq(Characters) /\ k \in 1..Len(labels)
          BY <1>1, <1>5, ElementOfSeq
    <3> QED BY <1>5, <3>1, OneLonger
  <2> QED BY <2>2, <2>3, <2>4, <2>5
<1>10. TakeLabel(msg, st(N)) = st(N) /\ Byte(msg, st(N).reader) = 0
      BY <1>3, <1>6 DEF TakeLabel
<1>11. upto(0) = 0 /\ N \in 0..M /\ upto(N) = N
      BY <1>3, <1>4
<1>12. PICK g : g = [n \in 0..M |-> st(upto(n))]
      OBVIOUS
<1>13. ASSUME NEW n \in 1..M PROVE TakeLabel(msg, st(upto(n - 1))) = st(upto(n))
  <2>1. CASE n <= N
    <3>1. n \in 1..N /\ upto(n - 1) = n - 1 /\ upto(n) = n
          BY <2>1
    <3> HIDE DEF upto, st
    <3> QED BY <1>9, <3>1
  <2>2. CASE ~(n <= N)
    <3>1. upto(n - 1) = N /\ upto(n) = N
          BY <2>2
    <3> HIDE DEF upto, st
    <3> QED BY <1>10, <3>1
  <2> QED BY <2>1, <2>2
<1>14. ASSUME NEW n \in 0..M, Byte(msg, st(upto(n)).reader) = 0 PROVE upto(n) = N
  <2> SUFFICES ASSUME n < N PROVE FALSE
      OBVIOUS
  <2>1. n + 1 \in 1..N /\ (n + 1) - 1 = n /\ upto(n) = n
        OBVIOUS
  <2> HIDE DEF upto, st
  <2> QED BY <1>9, <1>14, <2>1
<1>15. /\ DOMAIN g = 0..M /\ \A n \in 0..M : g[n] = st(upto(n))
      BY <1>12
<1>16. st(N).labels = labels
      BY <1>1, <1>5, SubSeqFull
<1> HIDE DEF upto, st, base
<1>17. g = [n \in 0..M |-> IF n = 0 THEN base ELSE TakeLabel(msg, g[n - 1])]
  <2>1. ASSUME NEW n \in 0..M PROVE g[n] = IF n = 0 THEN base ELSE TakeLabel(msg, g[n - 1])
    <3>1. CASE n = 0
          BY <1>8, <1>11, <1>15, <3>1
    <3>2. CASE n # 0
      <4>1. n \in 1..M /\ n - 1 \in 0..M
            BY <3>2
      <4> QED BY <1>13, <1>15, <3>2, <4>1
    <3> QED BY <3>1, <3>2
  <2>2. g = [n \in 0..M |-> g[n]]
        BY <1>12
  <2> QED BY <2>1, <2>2
<1>18. f = [n \in 0..M |-> IF n = 0 THEN base ELSE TakeLabel(msg, f[n - 1])]
      BY <1>17
<1> HIDE DEF f
<1>19. f[0] = g[0]
      BY <1>17, <1>18
<1>20. ASSUME NEW n \in 1..M, f[n - 1] = g[n - 1] PROVE f[n] = g[n]
  <2>1. n \in 0..M /\ n # 0
        OBVIOUS
  <2> QED BY <1>17, <1>18, <1>20, <2>1
<1>21. \A n \in 0..M : f[n] = g[n]
      BY <1>19, <1>20, SameUpTo
<1>22. PICK c : c = CHOOSE n \in 0..M : Byte(msg, f[n].reader) = 0
      OBVIOUS
<1>23. c \in 0..M /\ Byte(msg, f[c].reader) = 0
  <2>1. N \in 0..M /\ Byte(msg, f[N].reader) = 0
        BY <1>10, <1>11, <1>15, <1>21
  <2> QED BY <1>22, <2>1
<1>24. f[c] = st(N)
      BY <1>14, <1>15, <1>21, <1>23
<1> QED BY <1>7, <1>16, <1>22, <1>24

-----------------------------------------------------------------------------
(* ReadName: turns of its loop *)

\* The states of the loop that collects the bytes of a name: where the name
\* stands, and behind a pointer.
Here(r, nm, c) == [reader |-> r, name |-> nm, jumped |-> FALSE, count |-> c]
There(r, nm, c) == [reader |-> r, name |-> nm, jumped |-> TRUE, count |-> c]

\* Its turns: a byte of the name, a pointer, the end.
LEMMA TurnByte ==
    ASSUME NEW msg, NEW r, NEW nm, NEW c, NEW b \in Octets, Byte(msg, r) = b
    PROVE  /\ Turn(msg, There(r, nm, c)) = There(r + 1, Append(nm, b), c)
           /\ Turn(msg, Here(r, nm, c)) = Here(r + 1, Append(nm, b), c + 1)
<1>1. b # 0 /\ ~(b >= POINTER)
      BY DEF Octets, POINTER
<1> QED BY <1>1 DEF Turn, Here, There

\* What 14 bits can point to.
Reachable == { n \in Nat : n < 64 * 256 }

\* A pointer to t.
PointerAt(msg, pos, t) ==
    t \in Reachable /\ Byte(msg, pos) = POINTER + t \div 256 /\ Byte(msg, pos + 1) = t % 256

\* A pointer leads to the offset its two bytes were made from.
LEMMA TurnPointer ==
    ASSUME NEW msg, NEW r, NEW nm, NEW c, NEW t, PointerAt(msg, r, t)
    PROVE  /\ Turn(msg, Here(r, nm, c)) = There(t, nm, c)
           /\ Turn(msg, There(r, nm, c)) = There(t, nm, c)
<1>0. t \in Nat /\ Byte(msg, r) = POINTER + t \div 256 /\ Byte(msg, r + 1) = t % 256
      BY DEF PointerAt, Reachable
<1>1. PICK a, b \in Nat : a = t \div 256 /\ b = t % 256 /\ a * 256 + b = t
      BY <1>0
<1>2. POINTER + a # 0 /\ POINTER + a >= POINTER /\ POINTER + a - POINTER = a
      BY DEF POINTER
<1>3. PICK x, y : x = Byte(msg, r) /\ y = Byte(msg, r + 1)
      OBVIOUS
<1>4. x # 0 /\ x >= POINTER /\ x - POINTER = a /\ y = b
      BY <1>0, <1>1, <1>2, <1>3 DEF POINTER
<1>5. PointsTo(x, y) = t
      BY <1>1, <1>4 DEF PointsTo
<1>6. /\ Turn(msg, Here(r, nm, c)) = There(PointsTo(x, y), nm, c)
      /\ Turn(msg, There(r, nm, c)) = There(PointsTo(x, y), nm, c)
      BY <1>3, <1>4 DEF Turn, Here, There
<1> QED BY <1>5, <1>6

\* The loop takes n turns from s to t, where it ends.
Runs(msg, n, s, t) ==
    /\ Byte(msg, t.reader) = 0
    /\ \E r : /\ DOMAIN r = 0..n /\ r[0] = s /\ r[n] = t
              /\ \A k \in 1..n : r[k] = Turn(msg, r[k - 1])

\* One turn more, in front.
LEMMA RunsOneMore ==
    ASSUME NEW msg, NEW n \in Nat, NEW s, NEW u, NEW t, u = Turn(msg, s), Runs(msg, n, u, t)
    PROVE  Runs(msg, n + 1, s, t)
<1>1. PICK r : /\ DOMAIN r = 0..n /\ r[0] = u /\ r[n] = t
               /\ \A k \in 1..n : r[k] = Turn(msg, r[k - 1])
      BY DEF Runs
<1>2. PICK g : g = [k \in 0..(n + 1) |-> IF k = 0 THEN s ELSE r[k - 1]]
      OBVIOUS
<1>3. DOMAIN g = 0..(n + 1) /\ g[0] = s /\ \A k \in 1..(n + 1) : g[k] = r[k - 1]
      BY <1>2
<1>4. g[n + 1] = t
  <2>1. n + 1 \in 1..(n + 1) /\ (n + 1) - 1 = n
        OBVIOUS
  <2> QED BY <1>1, <1>3, <2>1
<1>5. ASSUME NEW k \in 1..(n + 1) PROVE g[k] = Turn(msg, g[k - 1])
  <2>1. CASE k = 1
    <3>1. k \in 1..(n + 1) /\ k - 1 = 0
          BY <2>1
    <3> QED BY <1>1, <1>3, <3>1
  <2>2. CASE k # 1
    <3>1. k - 1 \in 1..n /\ k - 1 \in 1..(n + 1) /\ (k - 1) - 1 = k - 2
          BY <2>2
    <3>2. g[k - 1] = r[(k - 1) - 1] /\ g[k] = r[k - 1]
          BY <1>3, <3>1
    <3> QED BY <1>1, <3>1, <3>2
  <2> QED BY <2>1, <2>2
<1> QED BY <1>3, <1>4, <1>5 DEF Runs

\* The loop ends where its turns end.
LEMMA RawIs ==
    ASSUME NEW msg, NEW n \in Nat, NEW pos, NEW t, Len(msg) \in Nat, n <= Len(msg),
           Runs(msg, n, Here(pos, <<>>, 1), t)
    PROVE  Raw(msg, pos) = t
<1>1. PICK M \in Nat : M = Len(msg) /\ n <= M
      OBVIOUS
<1>2. PICK base : base = [reader |-> pos, name |-> <<>>, jumped |-> FALSE, count |-> 1]
      OBVIOUS
<1>3. PICK r : /\ DOMAIN r = 0..n /\ r[0] = base /\ r[n] = t
               /\ \A k \in 1..n : r[k] = Turn(msg, r[k - 1])
      BY <1>2 DEF Runs, Here
<1>4. Byte(msg, t.reader) = 0
      BY DEF Runs
<1> DEFINE f == CHOOSE g : g = [k \in 0..M |-> IF k = 0 THEN base ELSE Turn(msg, g[k - 1])]
<1>5. Raw(msg, pos) = f[CHOOSE k \in 0..M : Byte(msg, f[k].reader) = 0]
      BY <1>1, <1>2 DEF Raw
<1>6. ASSUME NEW s, Byte(msg, s.reader) = 0 PROVE Turn(msg, s) = s
      BY <1>6 DEF Turn
<1>7. PICK g : g = [k \in 0..M |-> IF k <= n THEN r[k] ELSE t]
      OBVIOUS
<1>8. g[0] = base /\ g[n] = t
      BY <1>1, <1>3, <1>7
<1>9. ASSUME NEW k \in 1..M PROVE g[k] = Turn(msg, g[k - 1])
  <2>1. CASE k <= n
    <3>1. k \in 1..n /\ k - 1 <= n /\ k \in 0..M /\ k - 1 \in 0..M
          BY <2>1
    <3>2. g[k] = r[k] /\ g[k - 1] = r[k - 1]
          BY <1>7, <3>1
    <3> QED BY <1>3, <3>1, <3>2
  <2>2. CASE k = n + 1
    <3>1. k - 1 = n /\ k \in 0..M /\ ~(k <= n)
          BY <2>2
    <3> QED BY <1>4, <1>6, <1>7, <1>8, <3>1
  <2>3. CASE k > n + 1
    <3>1. k \in 0..M /\ ~(k <= n) /\ k - 1 \in 0..M /\ ~(k - 1 <= n)
          BY <2>3
    <3> QED BY <1>4, <1>6, <1>7, <3>1
  <2> QED BY <2>1, <2>2, <2>3
<1>10. g = [k \in 0..M |-> IF k = 0 THEN base ELSE Turn(msg, g[k - 1])]
  <2>1. ASSUME NEW k \in 0..M PROVE g[k] = IF k = 0 THEN base ELSE Turn(msg, g[k - 1])
        BY <1>8, <1>9
  <2>2. g = [k \in 0..M |-> g[k]]
        BY <1>7
  <2> QED BY <2>1, <2>2
<1>11. f = [k \in 0..M |-> IF k = 0 THEN base ELSE Turn(msg, f[k - 1])]
      BY <1>10
<1> HIDE DEF f
<1>12. \A k \in 0..M : f[k] = g[k]
  <2>1. f[0] = g[0]
        BY <1>10, <1>11
  <2>2. ASSUME NEW k \in 1..M, f[k - 1] = g[k - 1] PROVE f[k] = g[k]
    <3>1. k \in 0..M /\ k # 0
          OBVIOUS
    <3> QED BY <1>10, <1>11, <2>2, <3>1
  <2>3. \A k \in 1..M : f[k - 1] = g[k - 1] => f[k] = g[k]
        BY <2>2
  <2> QED BY ONLY M \in Nat, <2>1, <2>3, SameUpTo
<1>13. PICK c : c = CHOOSE k \in 0..M : Byte(msg, f[k].reader) = 0
      OBVIOUS
<1>14. c \in 0..M /\ Byte(msg, g[c].reader) = 0
  <2>1. n \in 0..M /\ Byte(msg, f[n].reader) = 0
        BY <1>1, <1>4, <1>8, <1>12
  <2>2. c \in 0..M /\ Byte(msg, f[c].reader) = 0
        BY <1>13, <2>1
  <2> QED BY <1>12, <2>2
<1>15. g[c] = t
  <2>1. CASE c > n
    <3>1. ~(c <= n)
          BY <1>14, <2>1
    <3> QED BY <1>7, <1>14, <3>1
  <2>2. CASE c <= n
    <3> DEFINE S == {j \in Nat : c + j <= M => g[c + j] = g[c]}
    <3>1. 0 \in S
          BY <1>14
    <3>2. ASSUME NEW j \in Nat, j \in S PROVE j + 1 \in S
      <4> SUFFICES ASSUME c + (j + 1) <= M PROVE g[c + (j + 1)] = g[c]
          OBVIOUS
      <4>1. PICK x \in 1..M : x = c + (j + 1) /\ x - 1 = c + j
            BY <1>14
      <4>2. c + j <= M
            BY <4>1
      <4>3. g[x - 1] = g[c]
            BY <3>2, <4>1, <4>2
      <4>4. g[x] = g[c]
            BY <1>6, <1>9, <1>14, <4>3
      <4> QED BY <4>1, <4>4
    <3> HIDE DEF S
    <3>3. n - c \in S
      <4>1. Nat \subseteq S
            BY <3>1, <3>2, SetInduction
      <4>2. n - c \in Nat
            BY <1>14, <2>2
      <4> QED BY <4>1, <4>2
    <3>4. c + (n - c) = n
          BY <1>14
    <3> QED BY <1>1, <1>8, <3>3, <3>4 DEF S
  <2> QED BY <1>14, <2>1, <2>2
<1> QED BY <1>5, <1>12, <1>13, <1>14, <1>15

-----------------------------------------------------------------------------
(* ReadName behind pointers *)

\* Behind a pointer, the loop collects the bytes raw at pos in n turns.
Reads(msg, n, pos, raw) ==
    \A nm \in Seq(Bytes), c \in Nat :
        \E z : Runs(msg, n, There(pos, nm, c), There(z, nm \o raw, c))

\* The name ends here.
LEMMA ReadsEnd ==
    ASSUME NEW msg, NEW pos, Byte(msg, pos) = 0
    PROVE  Reads(msg, 0, pos, <<>>)
<1> SUFFICES ASSUME NEW nm \in Seq(Bytes), NEW c \in Nat
             PROVE  Runs(msg, 0, There(pos, nm, c), There(pos, nm \o <<>>, c))
    BY DEF Reads
<1>1. nm \o <<>> = nm
      BY ConcatEmptySeq
<1>2. PICK s : s = There(pos, nm, c)
      OBVIOUS
<1>3. s.reader = pos
      BY <1>2 DEF There
<1>4. PICK r : r = [k \in 0..0 |-> s]
      OBVIOUS
<1>5. DOMAIN r = 0..0 /\ r[0] = s /\ \A k \in 1..0 : r[k] = Turn(msg, r[k - 1])
      BY <1>4
<1>6. Runs(msg, 0, s, s)
      BY <1>3, <1>5 DEF Runs
<1> QED BY <1>1, <1>2, <1>6

\* A byte of the name stands here.
LEMMA ReadsByte ==
    ASSUME NEW msg, NEW pos, NEW n \in Nat, NEW raw \in Seq(Bytes), NEW b \in Octets,
           Byte(msg, pos) = b, Reads(msg, n, pos + 1, raw)
    PROVE  Reads(msg, n + 1, pos, <<b>> \o raw)
<1> SUFFICES ASSUME NEW nm \in Seq(Bytes), NEW c \in Nat
             PROVE  \E z : Runs(msg, n + 1, There(pos, nm, c), There(z, nm \o (<<b>> \o raw), c))
    BY DEF Reads
<1>1. PICK m2 : m2 = Append(nm, b)
      OBVIOUS
<1>2. b \in Bytes
      BY OctetsAreBytes
<1>3. m2 \in Seq(Bytes)
      BY <1>1, <1>2, AppendProperties
<1>4. PICK z : Runs(msg, n, There(pos + 1, m2, c), There(z, m2 \o raw, c))
      BY <1>3 DEF Reads
<1>5. Turn(msg, There(pos, nm, c)) = There(pos + 1, m2, c)
      BY <1>1, TurnByte
<1>6. m2 \o raw = nm \o (<<b>> \o raw)
  <2>1. PICK o : o = <<b>>
        OBVIOUS
  <2>2. o \in Seq(Bytes)
        BY <1>2, <2>1
  <2>3. m2 = nm \o o
        BY <1>1, <1>2, <2>1, AppendIsConcat
  <2>4. (nm \o o) \o raw = nm \o (o \o raw)
    <3>1. nm \in Seq(Bytes) /\ o \in Seq(Bytes) /\ raw \in Seq(Bytes)
          BY <2>2
    <3> QED BY ONLY <3>1, ConcatAssociative
  <2> QED BY <2>1, <2>3, <2>4
<1>7. Runs(msg, n + 1, There(pos, nm, c), There(z, m2 \o raw, c))
      BY <1>4, <1>5, RunsOneMore
<1> QED BY <1>6, <1>7

\* A pointer to a name stands here.
LEMMA ReadsPointer ==
    ASSUME NEW msg, NEW pos, NEW n \in Nat, NEW raw, NEW t, PointerAt(msg, pos, t), Reads(msg, n, t, raw)
    PROVE  Reads(msg, n + 1, pos, raw)
<1> SUFFICES ASSUME NEW nm \in Seq(Bytes), NEW c \in Nat
             PROVE  \E z : Runs(msg, n + 1, There(pos, nm, c), There(z, nm \o raw, c))
    BY DEF Reads
<1>1. PICK z : Runs(msg, n, There(t, nm, c), There(z, nm \o raw, c))
      BY DEF Reads
<1>2. Turn(msg, There(pos, nm, c)) = There(t, nm, c)
      BY TurnPointer
<1>3. Runs(msg, n + 1, There(pos, nm, c), There(z, nm \o raw, c))
      BY <1>1, <1>2, RunsOneMore
<1> QED BY <1>3

\* The name of the question.
LEMMA ReadsQuestion ==
    ASSUME NEW raw \in Seq(Octets), NEW msg, Asks(msg, raw)
    PROVE  Reads(msg, Len(raw), 12, raw)
<1>1. PICK e \in Nat : e = Len(raw)
      BY LenProperties
<1>2. raw \in Seq(Bytes) /\ \A i \in 1..e : raw[i] \in Octets /\ msg[12 + i] = raw[i]
  <2>1. raw \in Seq(Bytes)
        BY OctetsAreBytes, SeqMonotonic
  <2> QED BY <1>1, <2>1, ElementOfSeq DEF Asks
<1> DEFINE S == {j \in Nat : j <= e => Reads(msg, j, 12 + (e - j), SubSeq(raw, e - j + 1, e))}
<1>3. 0 \in S
  <2>1. SubSeq(raw, e - 0 + 1, e) = <<>>
    <3>1. e - 0 + 1 = e + 1 /\ e + 1 \in Int /\ e \in Int /\ e + 1 > e
          OBVIOUS
    <3> QED BY <3>1, SubSeqEmpty
  <2>2. 12 + (e - 0) = 12 + e /\ 12 + e + 1 = 13 + e
        OBVIOUS
  <2>3. Byte(msg, 12 + e) = 0
        BY <1>1, <2>2 DEF Asks, Byte
  <2>4. Reads(msg, 0, 12 + e, <<>>)
        BY <2>3, ReadsEnd
  <2> QED BY <2>1, <2>2, <2>4
<1>4. ASSUME NEW j \in Nat, j \in S PROVE j + 1 \in S
  <2> SUFFICES ASSUME j + 1 <= e PROVE Reads(msg, j + 1, 12 + (e - (j + 1)), SubSeq(raw, e - (j + 1) + 1, e))
      OBVIOUS
  <2>1. PICK x \in 1..e : x = e - j
        OBVIOUS
  <2>2. 12 + (e - j) = 12 + x /\ e - j + 1 = x + 1 /\ e - (j + 1) + 1 = x /\ 12 + (e - (j + 1)) = 12 + (x - 1)
        BY <2>1
  <2>3. Reads(msg, j, 12 + x, SubSeq(raw, x + 1, e))
        BY <1>4, <2>2
  <2>4. PICK p : p = SubSeq(raw, x + 1, e)
        OBVIOUS
  <2>5. p \in Seq(Bytes) /\ Len(p) = e - x /\ \A i \in 1..(e - x) : p[i] = raw[x + i]
    <3>1. x + 1 \in 1..(Len(raw) + 1) /\ e \in ((x + 1) - 1)..Len(raw) /\ e - (x + 1) + 1 = e - x
          BY <1>1
    <3>2. \A i \in 1..(e - x) : (x + 1) + i - 1 = x + i
          OBVIOUS
    <3>3. /\ p \in Seq(Bytes) /\ Len(p) = e - (x + 1) + 1
          /\ \A i \in 1..(e - (x + 1) + 1) : p[i] = raw[(x + 1) + i - 1]
          BY <1>2, <2>4, <3>1, PartOf
    <3> QED BY <3>1, <3>2, <3>3
  <2>6. PICK b : b = raw[x]
        OBVIOUS
  <2>7. b \in Octets /\ Byte(msg, 12 + (x - 1)) = b
    <3>1. 12 + (x - 1) + 1 = 12 + x
          OBVIOUS
    <3> QED BY <1>2, <2>6, <3>1 DEF Byte
  <2>8. <<b>> \o p = SubSeq(raw, x, e)
    <3>1. PICK o : o = <<b>>
          OBVIOUS
    <3>2. o \in Seq(Bytes) /\ Len(o) = 1 /\ o[1] = b
          BY <2>7, <3>1, OctetsAreBytes
    <3>3. PICK w : w = o \o p
          OBVIOUS
    <3>4. /\ w \in Seq(Bytes) /\ Len(w) = 1 + (e - x) /\ w[1] = b
          /\ \A i \in 1..(e - x) : w[1 + i] = p[i]
      <4>1. /\ o \o p \in Seq(Bytes) /\ Len(o \o p) = Len(o) + Len(p)
            /\ \A i \in 1..Len(o) : (o \o p)[i] = o[i]
            /\ \A i \in 1..Len(p) : (o \o p)[Len(o) + i] = p[i]
        <5>1. o \in Seq(Bytes) /\ p \in Seq(Bytes)
              BY <2>5, <3>2
        <5> QED BY <5>1, JoinFacts
      <4>2. Len(p) = e - x /\ Len(o) = 1 /\ o[1] = b /\ 1 \in 1..1
            BY <2>5, <3>2
      <4> QED BY <3>3, <4>1, <4>2
    <3>5. e - x + 1 = Len(w)
          BY <3>4
    <3>6. ASSUME NEW i \in 1..Len(w) PROVE raw[x + i - 1] = w[i]
      <4>1. CASE i = 1
            BY <2>6, <3>4, <4>1
      <4>2. CASE i # 1
        <5>1. i - 1 \in 1..(e - x) /\ 1 + (i - 1) = i /\ x + i - 1 = x + (i - 1)
              BY <3>4, <4>2
        <5> QED BY <2>5, <3>4, <5>1
      <4> QED BY <4>1, <4>2
    <3>7. SubSeq(raw, x, e) = w
          BY <3>4, <3>5, <3>6, SubSeqIs
    <3> QED BY <3>1, <3>3, <3>7
  <2>9. 12 + (x - 1) + 1 = 12 + x
        OBVIOUS
  <2>10. Reads(msg, j + 1, 12 + (x - 1), <<b>> \o p)
        BY <2>3, <2>4, <2>5, <2>7, <2>9, ReadsByte
  <2> QED BY <2>2, <2>8, <2>10
<1> HIDE DEF S
<1>5. e \in S
  <2>1. Nat \subseteq S
        BY <1>3, <1>4, SetInduction
  <2> QED BY <2>1
<1>6. 12 + (e - e) = 12 /\ e - e + 1 = 1
      OBVIOUS
<1>7. SubSeq(raw, 1, e) = raw
      BY <1>1, SubSeqFull
<1>8. e <= e
      OBVIOUS
<1>9. Reads(msg, e, 12 + (e - e), SubSeq(raw, e - e + 1, e))
      BY <1>5, <1>8 DEF S
<1>10. Reads(msg, e, 12, SubSeq(raw, 1, e))
      BY <1>6, <1>9
<1> QED BY <1>1, <1>7, <1>10

-----------------------------------------------------------------------------
(* Owners and aliases *)

\* A name that can be read at pos of the message, wherever a pointer to it stands.
Readable(msg, pos, raw) == \E n \in Nat : n + 4 <= Len(msg) /\ Reads(msg, n, pos, raw)

\* An owner is a pointer: two bytes.
LEMMA ReadOwner ==
    ASSUME NEW msg, Len(msg) \in Nat, NEW pos, NEW t, PointerAt(msg, pos, t),
           NEW raw \in Seq(Bytes), Readable(msg, t, raw)
    PROVE  ReadName(msg, pos) = [name |-> Dotted(raw), count |-> 2]
<1>1. PICK n \in Nat : n + 4 <= Len(msg) /\ Reads(msg, n, t, raw)
      BY DEF Readable
<1>2. <<>> \in Seq(Bytes) /\ 1 \in Nat /\ <<>> \o raw = raw
      BY ConcatEmptySeq
<1>3. PICK z : Runs(msg, n, There(t, <<>>, 1), There(z, <<>> \o raw, 1))
      BY <1>1, <1>2 DEF Reads
<1>4. Turn(msg, Here(pos, <<>>, 1)) = There(t, <<>>, 1)
      BY TurnPointer
<1>5. Runs(msg, n + 1, Here(pos, <<>>, 1), There(z, raw, 1))
      BY <1>2, <1>3, <1>4, RunsOneMore
<1>6. n + 1 \in Nat /\ n + 1 <= Len(msg)
      BY <1>1
<1>7. Raw(msg, pos) = There(z, raw, 1)
      BY <1>5, <1>6, RawIs
<1> QED BY <1>7 DEF ReadName, NameRead, There

\* A name with one label more, in front of a pointer: four bytes.
AliasAt(msg, pos, t) == Byte(msg, pos) = 1 /\ Byte(msg, pos + 1) = 99 /\ PointerAt(msg, pos + 2, t)
WithAlias(raw) == <<1>> \o (<<99>> \o raw)

\* The bytes of an alias are bytes of a name.
LEMMA AliasByte == 1 \in Octets /\ 99 \in Octets
BY DEF Octets, POINTER

\* ReadName reads such a name and counts its four bytes,
LEMMA ReadAlias ==
    ASSUME NEW msg, Len(msg) \in Nat, NEW pos \in Nat, NEW t, AliasAt(msg, pos, t),
           NEW raw \in Seq(Bytes), Readable(msg, t, raw)
    PROVE  ReadName(msg, pos) = [name |-> Dotted(WithAlias(raw)), count |-> 4]
<1>1. PICK n \in Nat : n + 4 <= Len(msg) /\ Reads(msg, n, t, raw)
      BY DEF Readable
<1>2. PICK p1, p2 \in Nat : p1 = pos + 1 /\ p2 = pos + 2 /\ p2 = p1 + 1
      OBVIOUS
<1>3. Byte(msg, pos) = 1 /\ Byte(msg, p1) = 99 /\ PointerAt(msg, p2, t)
      BY <1>2 DEF AliasAt
<1>4. PICK a, b, o, q : a = Append(<<>>, 1) /\ b = Append(a, 99) /\ o = <<1>> /\ q = <<99>>
      OBVIOUS
<1>5. a = o /\ b = o \o q /\ o \in Seq(Bytes) /\ q \in Seq(Bytes) /\ b \in Seq(Bytes)
  <2>1. 1 \in Bytes /\ 99 \in Bytes
        BY DEF Bytes
  <2>2. a = o
        BY <1>4
  <2>3. o \in Seq(Bytes) /\ q \in Seq(Bytes)
        BY <1>4, <2>1
  <2>4. b = a \o q /\ b \in Seq(Bytes)
        BY <1>4, <2>1, <2>2, <2>3, AppendIsConcat, AppendProperties
  <2> QED BY <2>2, <2>3, <2>4
<1>6. PICK z : Runs(msg, n, There(t, b, 3), There(z, b \o raw, 3))
  <2>1. 3 \in Nat
        OBVIOUS
  <2> QED BY <1>1, <1>5, <2>1 DEF Reads
<1>7. Turn(msg, Here(p2, b, 3)) = There(t, b, 3)
      BY <1>3, TurnPointer
<1>8. Turn(msg, Here(p1, a, 2)) = Here(p2, b, 3)
  <2>1. PICK c \in Nat : c = 2 /\ c + 1 = 3
        OBVIOUS
  <2>2. Turn(msg, Here(p1, a, c)) = Here(p1 + 1, Append(a, 99), c + 1)
        BY ONLY <1>3, AliasByte, TurnByte
  <2> QED BY <1>2, <1>4, <2>1, <2>2
<1>9. Turn(msg, Here(pos, <<>>, 1)) = Here(p1, a, 2)
  <2>1. PICK c, y, b1 : c \in Nat /\ c = 1 /\ c + 1 = 2 /\ y = <<>> /\ b1 = 1
        OBVIOUS
  <2>2. b1 \in Octets /\ Byte(msg, pos) = b1
        BY <1>3, <2>1, AliasByte
  <2>3. Turn(msg, Here(pos, y, c)) = Here(pos + 1, Append(y, b1), c + 1)
        BY ONLY <2>2, TurnByte
  <2> QED BY <1>2, <1>4, <2>1, <2>3
<1>10. Runs(msg, n + 1, Here(p2, b, 3), There(z, b \o raw, 3))
      BY <1>6, <1>7, RunsOneMore
<1>11. PICK n1, n2, n3 \in Nat : n1 = n + 1 /\ n2 = n1 + 1 /\ n3 = n2 + 1 /\ n3 <= Len(msg)
      BY <1>1
<1>12. Runs(msg, n2, Here(p1, a, 2), There(z, b \o raw, 3))
      BY <1>8, <1>10, <1>11, RunsOneMore
<1>13. Runs(msg, n3, Here(pos, <<>>, 1), There(z, b \o raw, 3))
      BY <1>9, <1>11, <1>12, RunsOneMore
<1>14. b \o raw = WithAlias(raw)
  <2>1. (o \o q) \o raw = o \o (q \o raw)
        BY ONLY <1>5, raw \in Seq(Bytes), ConcatAssociative
  <2> QED BY <1>4, <1>5, <2>1 DEF WithAlias
<1>15. Raw(msg, pos) = There(z, WithAlias(raw), 3)
      BY <1>11, <1>13, <1>14, RawIs
<1> QED BY <1>15 DEF ReadName, NameRead, There

\* ... and pointers to it can be followed.
LEMMA ReadsAlias ==
    ASSUME NEW msg, NEW pos \in Nat, NEW t, AliasAt(msg, pos, t),
           NEW raw \in Seq(Bytes), NEW n \in Nat, Reads(msg, n, t, raw)
    PROVE  Reads(msg, n + 3, pos, WithAlias(raw))
<1>1. PICK p1, p2 \in Nat : p1 = pos + 1 /\ p2 = pos + 2 /\ p2 = p1 + 1
      OBVIOUS
<1>2. Byte(msg, pos) = 1 /\ Byte(msg, p1) = 99 /\ PointerAt(msg, p2, t)
      BY <1>1 DEF AliasAt
<1>3. PICK n1, n2, n3 \in Nat : n1 = n + 1 /\ n2 = n1 + 1 /\ n3 = n2 + 1 /\ n3 = n + 3
      OBVIOUS
<1>4. Reads(msg, n1, p2, raw)
      BY <1>2, <1>3, ReadsPointer
<1>5. Reads(msg, n2, p1, <<99>> \o raw)
      BY <1>1, <1>2, <1>3, <1>4, AliasByte, ReadsByte
<1>6. PICK w : w = <<99>> \o raw
      OBVIOUS
<1>7. w \in Seq(Bytes)
  <2>1. PICK q : q = <<99>>
        OBVIOUS
  <2>2. q \in Seq(Bytes)
        BY <2>1 DEF Bytes
  <2> QED BY <1>6, <2>1, <2>2, ConcatProperties
<1>8. Reads(msg, n3, pos, <<1>> \o w)
  <2>1. Reads(msg, n2, pos + 1, w)
        BY <1>1, <1>5, <1>6
  <2>2. Reads(msg, n2 + 1, pos, <<1>> \o w)
        BY <1>2, <1>7, <2>1, AliasByte, ReadsByte
  <2> QED BY <1>3, <2>2
<1> QED BY <1>3, <1>6, <1>8 DEF WithAlias

\* The name of an alias.
LEMMA AliasName ==
    ASSUME NEW labels, IsName(labels), NEW more, more = <<Tail(Alias)>> \o labels
    PROVE  /\ IsName(more) /\ Len(more) = Len(labels) + 1 /\ more # <<>>
           /\ more[1] = <<99>> /\ \A k \in 1..Len(labels) : more[k + 1] = labels[k]
<1>1. PICK N \in Nat : N = Len(labels) /\ labels \in Seq(Seq(Characters))
      BY LenProperties DEF IsName
<1>2. PICK x : x = <<99>>
      OBVIOUS
<1>3. Tail(Alias) = x
      BY <1>2 DEF Alias
<1>4. x \in Seq(Characters) /\ Len(x) \in 1..63
  <2>1. 99 \in Characters
        BY DEF Characters, POINTER, DOT
  <2> QED BY <1>2, <2>1
<1>5. PICK o : o = <<x>>
      OBVIOUS
<1>6. o \in Seq(Seq(Characters)) /\ Len(o) = 1 /\ o[1] = x
      BY <1>4, <1>5
<1>7. /\ o \o labels \in Seq(Seq(Characters)) /\ Len(o \o labels) = Len(o) + Len(labels)
      /\ \A i \in 1..Len(o) : (o \o labels)[i] = o[i]
      /\ \A i \in 1..Len(labels) : (o \o labels)[Len(o) + i] = labels[i]
  <2>1. o \in Seq(Seq(Characters)) /\ labels \in Seq(Seq(Characters))
        BY <1>1, <1>6
  <2> QED BY <2>1, JoinFacts
<1>8. more = o \o labels
      BY <1>3, <1>5
<1>9. /\ more \in Seq(Seq(Characters)) /\ Len(more) = N + 1 /\ more[1] = x
      /\ \A k \in 1..N : more[k + 1] = labels[k]
  <2>1. 1 \in 1..1 /\ 1 + N = N + 1 /\ \A k \in 1..N : 1 + k = k + 1
        OBVIOUS
  <2>2. Len(o) = 1 /\ o[1] = x /\ Len(labels) = N
        BY <1>1, <1>6
  <2>3. more[1] = x
        BY <1>7, <1>8, <2>1, <2>2
  <2>4. \A k \in 1..N : more[k + 1] = labels[k]
        BY <1>7, <1>8, <2>1, <2>2
  <2> QED BY <1>7, <1>8, <2>1, <2>2, <2>3, <2>4
<1>10. ASSUME NEW k \in 1..(N + 1) PROVE Len(more[k]) \in 1..63
  <2>1. CASE k = 1
        BY <1>4, <1>9, <2>1
  <2>2. CASE k # 1
    <3>1. k - 1 \in 1..N /\ (k - 1) + 1 = k
          BY <2>2
    <3>2. more[k] = labels[k - 1]
          BY <1>9, <3>1
    <3> QED BY <1>1, <3>1, <3>2 DEF IsName
  <2> QED BY <2>1, <2>2
<1>11. more # <<>>
  <2>1. N + 1 # 0
        OBVIOUS
  <2> QED BY <1>9, <2>1
<1> QED BY <1>1, <1>2, <1>9, <1>10, <1>11 DEF IsName

\* An alias laid out: four bytes in front.
LEMMA AliasLaid ==
    ASSUME NEW labels, IsName(labels), NEW off, NEW raw, NEW d, Laid(labels, Len(labels), off, raw, d),
           NEW more, more = <<Tail(Alias)>> \o labels
    PROVE  \E o2, d2 : Laid(more, Len(more), o2, WithAlias(raw), d2)
<1>1. PICK N \in Nat : N = Len(labels)
      BY LenProperties DEF IsName
<1>2. PICK e \in Nat : /\ e = off[N] /\ raw \in Seq(Octets) /\ Len(raw) = e
                       /\ d \in Seq(TextBytes) /\ Len(d) = e
      BY <1>1 DEF Laid
<1>3. /\ off \in [0..N -> Nat] /\ off[0] = 0
      /\ \A i, k \in 0..N : i <= k => off[i] <= off[k]
      /\ \A k \in 0..N : k <= off[k]
      BY <1>1 DEF Laid
<1>4. /\ IsName(more) /\ Len(more) = N + 1
      /\ more[1] = <<99>> /\ \A k \in 1..N : more[k + 1] = labels[k]
      BY <1>1, AliasName
<1>5. PICK r2 : r2 = WithAlias(raw)
      OBVIOUS
<1>6. /\ r2 \in Seq(Octets) /\ Len(r2) = e + 2 /\ r2[1] = 1 /\ r2[2] = 99
      /\ \A i \in 1..e : r2[2 + i] = raw[i]
  <2>1. PICK a, b, w : a = <<1>> /\ b = <<99>> /\ w = b \o raw
        OBVIOUS
  <2>2. a \in Seq(Octets) /\ Len(a) = 1 /\ a[1] = 1 /\ b \in Seq(Octets) /\ Len(b) = 1 /\ b[1] = 99
        BY <2>1, AliasByte
  <2>3. /\ w \in Seq(Octets) /\ Len(w) = 1 + e /\ w[1] = 99 /\ \A i \in 1..e : w[1 + i] = raw[i]
    <3>1. /\ b \o raw \in Seq(Octets) /\ Len(b \o raw) = Len(b) + Len(raw)
          /\ \A i \in 1..Len(b) : (b \o raw)[i] = b[i]
          /\ \A i \in 1..Len(raw) : (b \o raw)[Len(b) + i] = raw[i]
      <4>1. b \in Seq(Octets) /\ raw \in Seq(Octets)
            BY <1>2, <2>2
      <4> QED BY <4>1, JoinFacts
    <3>2. 1 \in 1..1
          OBVIOUS
    <3> QED BY <1>2, <2>1, <2>2, <3>1, <3>2
  <2>4. /\ a \o w \in Seq(Octets) /\ Len(a \o w) = Len(a) + Len(w)
        /\ \A i \in 1..Len(a) : (a \o w)[i] = a[i]
        /\ \A i \in 1..Len(w) : (a \o w)[Len(a) + i] = w[i]
    <3>1. a \in Seq(Octets) /\ w \in Seq(Octets)
          BY <2>2, <2>3
    <3> QED BY <3>1, JoinFacts
  <2>5. r2 = a \o w
        BY <1>5, <2>1 DEF WithAlias
  <2>6. 1 \in 1..1 /\ 1 \in 1..(1 + e) /\ 1 + (1 + e) = e + 2 /\ 1 + 1 = 2
        OBVIOUS
  <2>7. \A i \in 1..e : r2[2 + i] = raw[i]
    <3> TAKE i \in 1..e
    <3>1. 1 + i \in 1..(1 + e) /\ 1 + (1 + i) = 2 + i
          OBVIOUS
    <3> QED BY <2>2, <2>3, <2>4, <2>5, <3>1
  <2> QED BY <2>2, <2>3, <2>4, <2>5, <2>6, <2>7
<1>7. PICK t, d2 : t = <<99, DOT>> /\ d2 = t \o d
      OBVIOUS
<1>8. /\ d2 \in Seq(TextBytes) /\ Len(d2) = e + 2 /\ d2[1] = 99 /\ d2[2] = DOT
      /\ \A i \in 1..e : d2[2 + i] = d[i]
  <2>1. 99 \in TextBytes /\ DOT \in TextBytes
        BY DEF TextBytes, Characters, POINTER, DOT
  <2>2. t \in Seq(TextBytes) /\ Len(t) = 2 /\ t[1] = 99 /\ t[2] = DOT
        BY <1>7, <2>1
  <2>3. /\ t \o d \in Seq(TextBytes) /\ Len(t \o d) = Len(t) + Len(d)
        /\ \A i \in 1..Len(t) : (t \o d)[i] = t[i]
        /\ \A i \in 1..Len(d) : (t \o d)[Len(t) + i] = d[i]
    <3>1. t \in Seq(TextBytes) /\ d \in Seq(TextBytes)
          BY <1>2, <2>2
    <3> QED BY <3>1, JoinFacts
  <2>4. 1 \in 1..2 /\ 2 \in 1..2 /\ 2 + e = e + 2
        OBVIOUS
  <2> QED BY <1>2, <1>7, <2>2, <2>3, <2>4
<1>9. PICK o2 : o2 = [k \in 0..(N + 1) |-> IF k = 0 THEN 0 ELSE off[k - 1] + 2]
      OBVIOUS
<1>10. /\ o2 \in [0..(N + 1) -> Nat] /\ o2[0] = 0 /\ o2[1] = 2 /\ o2[N + 1] = e + 2
       /\ \A k \in 1..(N + 1) : o2[k] = off[k - 1] + 2 /\ off[k - 1] \in Nat
  <2>1. ASSUME NEW k \in 1..(N + 1) PROVE o2[k] = off[k - 1] + 2 /\ off[k - 1] \in Nat
    <3>1. k - 1 \in 0..N /\ k # 0 /\ k \in 0..(N + 1)
          OBVIOUS
    <3> QED BY <1>3, <1>9, <3>1
  <2>2. o2 \in [0..(N + 1) -> Nat] /\ o2[0] = 0
    <3>1. \A k \in 0..(N + 1) : o2[k] \in Nat
      <4> TAKE k \in 0..(N + 1)
      <4>1. CASE k = 0
            BY <1>9, <4>1
      <4>2. CASE k # 0
        <5>1. k \in 1..(N + 1)
              BY <4>2
        <5> QED BY <2>1, <5>1
      <4> QED BY <4>1, <4>2
    <3> QED BY <1>9, <3>1
  <2>3. o2[1] = 2
    <3>1. 1 \in 1..(N + 1) /\ 1 - 1 = 0 /\ 0 + 2 = 2
          OBVIOUS
    <3> QED BY <1>3, <2>1, <3>1
  <2>4. o2[N + 1] = e + 2
    <3>1. N + 1 \in 1..(N + 1) /\ (N + 1) - 1 = N
          OBVIOUS
    <3> QED BY <1>2, <2>1, <3>1
  <2> QED BY <2>1, <2>2, <2>3, <2>4
<1>11. ASSUME NEW i \in 0..(N + 1), NEW k \in 0..(N + 1), i <= k PROVE o2[i] <= o2[k]
  <2>1. CASE i = 0
        BY <1>10, <2>1
  <2>2. CASE i # 0
    <3>1. i \in 1..(N + 1) /\ k \in 1..(N + 1) /\ i - 1 \in 0..N /\ k - 1 \in 0..N /\ i - 1 <= k - 1
          BY <1>11, <2>2
    <3>2. off[i - 1] <= off[k - 1]
          BY <1>3, <3>1
    <3>3. PICK x, y \in Nat : x = off[i - 1] /\ y = off[k - 1] /\ o2[i] = x + 2 /\ o2[k] = y + 2
          BY <1>10, <3>1
    <3>4. x + 2 <= y + 2
      <4>1. x <= y
            BY <3>2, <3>3
      <4> QED BY ONLY <4>1, x \in Nat, y \in Nat
    <3> QED BY <3>3, <3>4
  <2> QED BY <2>1, <2>2
<1>12. ASSUME NEW k \in 0..(N + 1) PROVE k <= o2[k]
  <2>1. CASE k = 0
        BY <1>10, <2>1
  <2>2. CASE k # 0
    <3>1. k \in 1..(N + 1) /\ k - 1 \in 0..N
          BY <2>2
    <3>2. k - 1 <= off[k - 1]
          BY <1>3, <3>1
    <3> QED BY <1>10, <3>1, <3>2
  <2> QED BY <2>1, <2>2
<1>13. ASSUME NEW k \in 1..(N + 1)
       PROVE  /\ o2[k] = o2[k - 1] + Len(more[k]) + 1
              /\ r2[o2[k - 1] + 1] = Len(more[k])
              /\ d2[o2[k]] = DOT
              /\ \A j \in 1..Len(more[k]) :
                   r2[o2[k - 1] + 1 + j] = more[k][j] /\ d2[o2[k - 1] + j] = more[k][j]
  <2>1. CASE k = 1
    <3>1. PICK x : x = more[k]
          OBVIOUS
    <3>2. Len(x) = 1 /\ x[1] = 99 /\ x = more[k]
      <4>1. x = <<99>>
            BY <1>4, <2>1, <3>1
      <4>2. Len(x) = 1 /\ x[1] = 99
            BY ONLY <4>1
      <4> QED BY <3>1, <4>2
    <3>3. o2[k] = 2 /\ o2[k - 1] = 0
          BY <1>10, <2>1
    <3>4. ASSUME NEW j \in 1..1 PROVE r2[0 + 1 + j] = x[j] /\ d2[0 + j] = x[j]
      <4>1. j = 1 /\ 0 + 1 + j = 2 /\ 0 + j = 1
            OBVIOUS
      <4> QED BY <1>6, <1>8, <3>2, <4>1
    <3>5. 2 = 0 + 1 + 1 /\ r2[0 + 1] = 1
          BY <1>6
    <3> QED BY <1>8, <3>2, <3>3, <3>4, <3>5
  <2>2. CASE k # 1
    <3>1. PICK c \in 1..N : c = k - 1 /\ k = c + 1
          BY <2>2
    <3>2. more[k] = labels[c]
          BY <1>4, <3>1
    <3>3. N \in 0..Len(labels) /\ Laid(labels, N, off, raw, d)
          BY <1>1
    <3>4. Block(labels, N, off, raw, d, c)
          BY <3>3, BlockFacts
    <3>5. PICK u, v, n \in Nat : u = off[c - 1] /\ v = off[c] /\ n = Len(labels[c])
      <4>1. off[c - 1] \in Nat /\ off[c] \in Nat /\ Len(labels[c]) \in 1..63
            BY <3>4 DEF Block
      <4>2. Len(labels[c]) \in Nat
            BY ONLY <4>1
      <4> QED BY ONLY <4>1, <4>2
    <3>6. v = u + n + 1 /\ v <= e
          BY <1>2, <3>4, <3>5 DEF Block
    <3>7. raw[u + 1] = n /\ d[v] = DOT /\ \A j \in 1..n : raw[u + 1 + j] = labels[c][j] /\ d[u + j] = labels[c][j]
          BY <3>3, <3>5 DEF Laid
    <3>8. o2[k] = v + 2 /\ o2[k - 1] = u + 2
      <4>1. k - 1 \in 1..(N + 1) /\ (k - 1) - 1 = c - 1
            BY <3>1
      <4> QED BY <1>10, <3>1, <3>5, <4>1
    <3>9. r2[(u + 2) + 1] = n
      <4>1. (u + 2) + 1 = 2 + (u + 1) /\ u + 1 \in 1..e
            BY <3>6
      <4> QED BY <1>6, <3>7, <4>1
    <3>10. d2[v + 2] = DOT
      <4>1. v + 2 = 2 + v /\ v \in 1..e
            BY <3>6
      <4> QED BY <1>8, <3>7, <4>1
    <3>11. ASSUME NEW j \in 1..n PROVE r2[(u + 2) + 1 + j] = labels[c][j] /\ d2[(u + 2) + j] = labels[c][j]
      <4>1. (u + 2) + 1 + j = 2 + (u + 1 + j) /\ u + 1 + j \in 1..e /\ (u + 2) + j = 2 + (u + j) /\ u + j \in 1..e
            BY <3>6
      <4>2. r2[2 + (u + 1 + j)] = raw[u + 1 + j] /\ d2[2 + (u + j)] = d[u + j]
            BY <1>6, <1>8, <4>1
      <4>3. raw[u + 1 + j] = labels[c][j] /\ d[u + j] = labels[c][j]
            BY <3>7
      <4> QED BY <4>1, <4>2, <4>3
    <3>12. v + 2 = (u + 2) + n + 1
          BY <3>6
    <3> QED BY <3>2, <3>5, <3>8, <3>9, <3>10, <3>11, <3>12
  <2> QED BY <2>1, <2>2
<1>14. Laid(more, N + 1, o2, r2, d2)
  <2>1. \A i, k \in 0..(N + 1) : i <= k => o2[i] <= o2[k]
        BY <1>11
  <2> QED BY <1>6, <1>8, <1>10, <1>12, <1>13, <2>1 DEF Laid
<1> QED BY <1>4, <1>5, <1>14

-----------------------------------------------------------------------------
(* Records *)

\* A message that begins with b.
Extends(msg, b) == msg \in Seq(Bytes) /\ Len(b) <= Len(msg) /\ \A i \in 1..Len(b) : msg[i] = b[i]

\* A beginning of a beginning is a beginning.
LEMMA ExtendsTransitive ==
    ASSUME NEW b \in Seq(Bytes), NEW c \in Seq(Bytes), NEW msg, Extends(c, b), Extends(msg, c)
    PROVE  Extends(msg, b)
<1>1. PICK x, y, z \in Nat : x = Len(b) /\ y = Len(c) /\ z = Len(msg) /\ x <= y /\ y <= z
      BY LenProperties DEF Extends
<1>2. x <= z /\ \A i \in 1..x : i \in 1..y
      BY <1>1
<1>3. \A i \in 1..x : c[i] = b[i]
      BY <1>1 DEF Extends
<1>4. \A i \in 1..y : msg[i] = c[i]
      BY <1>1 DEF Extends
<1>5. \A i \in 1..x : msg[i] = b[i]
      BY <1>2, <1>3, <1>4
<1> QED BY <1>1, <1>2, <1>5 DEF Extends

\* What is put behind a message leaves the message its beginning.
LEMMA ExtendsJoin ==
    ASSUME NEW b \in Seq(Bytes), NEW c \in Seq(Bytes)
    PROVE  Extends(b \o c, b)
<1>1. PICK w : w = b \o c
      OBVIOUS
<1>2. w \in Seq(Bytes) /\ Len(w) = Len(b) + Len(c) /\ Len(b) \in Nat /\ Len(c) \in Nat /\ \A i \in 1..Len(b) : w[i] = b[i]
      BY <1>1, JoinFacts
<1>3. Len(b) <= Len(w)
      BY <1>2
<1> QED BY <1>1, <1>2, <1>3 DEF Extends

\* The fields of a record with four bytes of data.
RecordAt(msg, pos, owner, type, rdata) ==
    /\ PointerAt(msg, pos, owner)
    /\ Byte(msg, pos + 3) = type /\ Byte(msg, pos + 11) = 4
    /\ \A i \in 1..4 : msg[pos + 12 + i] = rdata[i]

\* The two bytes of a pointer.
LEMMA PointerFacts ==
    ASSUME NEW t \in Reachable
    PROVE  /\ Pointer(t) \in Seq(Bytes) /\ Len(Pointer(t)) = 2
           /\ Pointer(t)[1] = POINTER + t \div 256 /\ Pointer(t)[2] = t % 256
<1>1. PICK a, b \in Nat : a = POINTER + t \div 256 /\ b = t % 256 /\ a <= 255 /\ b <= 255
  <2>1. t \in Nat /\ t <= 16383
        BY DEF Reachable
  <2>2. PICK q, r \in Nat : q = t \div 256 /\ r = t % 256 /\ q <= 63 /\ r <= 255
        BY <2>1
  <2> QED BY <2>2 DEF POINTER
<1>2. a \in Bytes /\ b \in Bytes
      BY <1>1 DEF Bytes
<1>3. Pointer(t) = <<a, b>>
      BY <1>1 DEF Pointer
<1>4. <<a, b>> \in Seq(Bytes) /\ Len(<<a, b>>) = 2 /\ <<a, b>>[1] = a /\ <<a, b>>[2] = b
      BY <1>2
<1> QED BY <1>1, <1>3, <1>4

\* A record put behind other bytes.
Recorded(bytes, all, owner, type, rdata) ==
    /\ all \in Seq(Bytes) /\ Len(all) = Len(bytes) + 16 /\ Extends(all, bytes)
    /\ \A msg : Extends(msg, all) => RecordAt(msg, Len(bytes), owner, type, rdata)

\* Record puts the fields where RecordAt looks for them.
LEMMA RecordFacts ==
    ASSUME NEW bytes \in Seq(Bytes), NEW owner \in Reachable, NEW type \in Bytes,
           NEW rdata \in Seq(Bytes), Len(rdata) = 4
    PROVE  Recorded(bytes, bytes \o Record(Pointer(owner), type, rdata), owner, type, rdata)
<1>1. PICK L \in Nat : L = Len(bytes)
      BY LenProperties
<1>2. PICK p : p = Pointer(owner)
      OBVIOUS
<1>3. /\ p \in Seq(Bytes) /\ Len(p) = 2 /\ p[1] = POINTER + owner \div 256 /\ p[2] = owner % 256
      BY <1>2, PointerFacts
<1>4. PICK f : f = <<0, type, 0, 1, 0, 0, 0, 0, 0, 4>>
      OBVIOUS
<1>5. f \in Seq(Bytes) /\ Len(f) = 10 /\ f[2] = type /\ f[10] = 4
  <2>1. 0 \in Bytes /\ 1 \in Bytes /\ 4 \in Bytes
        BY DEF Bytes
  <2> QED BY <1>4, <2>1
<1>a. PICK x : x = p \o f
      OBVIOUS
<1>6. PICK y : y = x \o rdata
      OBVIOUS
<1>7. Record(Pointer(owner), type, rdata) = y
      BY <1>2, <1>4, <1>6, <1>a DEF Record
<1>8. /\ x \in Seq(Bytes) /\ Len(x) = 12
      /\ x[1] = p[1] /\ x[2] = p[2] /\ x[4] = type /\ x[12] = 4
  <2>1. p \in Seq(Bytes) /\ f \in Seq(Bytes)
        BY <1>3, <1>5
  <2>2. /\ x \in Seq(Bytes) /\ Len(x) = Len(p) + Len(f)
        /\ \A i \in 1..Len(p) : x[i] = p[i]
        /\ \A i \in 1..Len(f) : x[Len(p) + i] = f[i]
        BY <1>a, <2>1, JoinFacts
  <2>3. 1 \in 1..2 /\ 2 \in 1..2 /\ 2 \in 1..10 /\ 10 \in 1..10 /\ 2 + 2 = 4 /\ 2 + 10 = 12
        OBVIOUS
  <2>4. x[1] = p[1] /\ x[2] = p[2]
        BY <1>3, <2>2, <2>3
  <2>5. x[2 + 2] = f[2] /\ x[2 + 10] = f[10]
        BY <1>3, <1>5, <2>2, <2>3
  <2> QED BY <1>3, <1>5, <2>2, <2>3, <2>4, <2>5
<1>9. /\ y \in Seq(Bytes) /\ Len(y) = 16
      /\ \A i \in 1..12 : y[i] = x[i]
      /\ \A i \in 1..4 : y[12 + i] = rdata[i]
  <2>1. x \in Seq(Bytes) /\ rdata \in Seq(Bytes)
        BY <1>8
  <2>2. /\ y \in Seq(Bytes) /\ Len(y) = Len(x) + Len(rdata)
        /\ \A i \in 1..Len(x) : y[i] = x[i]
        /\ \A i \in 1..Len(rdata) : y[Len(x) + i] = rdata[i]
    <3>1. /\ x \o rdata \in Seq(Bytes) /\ Len(x \o rdata) = Len(x) + Len(rdata)
          /\ \A i \in 1..Len(x) : (x \o rdata)[i] = x[i]
          /\ \A i \in 1..Len(rdata) : (x \o rdata)[Len(x) + i] = rdata[i]
          BY ONLY <2>1, JoinFacts
    <3> QED BY <1>6, <3>1
  <2>3. Len(x) = 12 /\ Len(rdata) = 4 /\ 12 + 4 = 16
        BY <1>8
  <2> QED BY <2>2, <2>3
<1>b. PICK all : all = bytes \o y
      OBVIOUS
<1>10. /\ all \in Seq(Bytes) /\ Len(all) = L + 16 /\ Extends(all, bytes)
       /\ \A i \in 1..16 : all[L + i] = y[i]
  <2>1. bytes \in Seq(Bytes) /\ y \in Seq(Bytes) /\ all = bytes \o y
        BY <1>b, <1>9
  <2>2. /\ all \in Seq(Bytes) /\ Len(all) = Len(bytes) + Len(y)
        /\ \A i \in 1..Len(y) : all[Len(bytes) + i] = y[i]
        BY <2>1, JoinFacts
  <2>3. Extends(all, bytes)
        BY <2>1, ExtendsJoin
  <2>4. Len(y) = 16 /\ Len(bytes) = L
        BY <1>1, <1>9
  <2>5. \A i \in 1..16 : all[L + i] = y[i]
        BY <2>2, <2>4
  <2> QED BY <2>2, <2>3, <2>4, <2>5
<1>11. ASSUME NEW msg, Extends(msg, all) PROVE RecordAt(msg, L, owner, type, rdata)
  <2>1. \A i \in 1..(L + 16) : msg[i] = all[i]
    <3>1. \A i \in 1..Len(all) : msg[i] = all[i]
          BY <1>11 DEF Extends
    <3>2. Len(all) = L + 16
          BY <1>10
    <3> QED BY ONLY <3>1, <3>2
  <2>2. \A i \in 1..16 : msg[L + i] = y[i]
    <3> TAKE i \in 1..16
    <3>1. L + i \in 1..(L + 16)
          OBVIOUS
    <3>2. all[L + i] = y[i]
          BY <1>10
    <3> QED BY <2>1, <3>1, <3>2
  <2>3. msg[L + 1] = p[1] /\ msg[L + 2] = p[2] /\ msg[L + 4] = type /\ msg[L + 12] = 4
    <3>1. 1 \in 1..12 /\ 2 \in 1..12 /\ 4 \in 1..12 /\ 12 \in 1..12 /\ 1 \in 1..16 /\ 2 \in 1..16 /\ 4 \in 1..16 /\ 12 \in 1..16
          OBVIOUS
    <3>2. msg[L + 1] = y[1] /\ msg[L + 2] = y[2] /\ msg[L + 4] = y[4] /\ msg[L + 12] = y[12]
          BY <2>2, <3>1
    <3>3. y[1] = x[1] /\ y[2] = x[2] /\ y[4] = x[4] /\ y[12] = x[12]
          BY <1>9, <3>1
    <3> QED BY <1>8, <3>2, <3>3
  <2>4. \A i \in 1..4 : msg[L + 12 + i] = rdata[i]
    <3> TAKE i \in 1..4
    <3>1. 12 + i \in 1..16 /\ L + 12 + i = L + (12 + i)
          OBVIOUS
    <3> QED BY <1>9, <2>2, <3>1
  <2>5. L + 1 + 1 = L + 2 /\ L + 3 + 1 = L + 4 /\ L + 11 + 1 = L + 12
        OBVIOUS
  <2>6. PointerAt(msg, L, owner)
        BY <1>3, <2>3, <2>5 DEF PointerAt, Byte
  <2>7. Byte(msg, L + 3) = type /\ Byte(msg, L + 11) = 4
        BY <2>3, <2>5 DEF Byte
  <2> QED BY <2>4, <2>6, <2>7 DEF RecordAt
<1>12. Recorded(bytes, all, owner, type, rdata)
      BY <1>1, <1>10, <1>11 DEF Recorded
<1> QED BY <1>b, <1>7, <1>12

-----------------------------------------------------------------------------
(* The server's records *)

\* The data of a CNAME or NS record.
LEMMA AliasData ==
    ASSUME NEW t \in Reachable
    PROVE  /\ Alias \o Pointer(t) \in Seq(Bytes) /\ Len(Alias \o Pointer(t)) = 4
           /\ \A msg, pos, owner, type :
                pos \in Nat /\ RecordAt(msg, pos, owner, type, Alias \o Pointer(t)) => AliasAt(msg, pos + 12, t)
<1>1. PICK a : a = Alias
      OBVIOUS
<1>2. a \in Seq(Bytes) /\ Len(a) = 2 /\ a[1] = 1 /\ a[2] = 99
  <2>1. 1 \in Bytes /\ 99 \in Bytes
        BY DEF Bytes
  <2> QED BY <1>1, <2>1 DEF Alias
<1>3. PICK p : p = Pointer(t)
      OBVIOUS
<1>4. p \in Seq(Bytes) /\ Len(p) = 2 /\ p[1] = POINTER + t \div 256 /\ p[2] = t % 256
      BY <1>3, PointerFacts
<1>5. PICK r : r = a \o p
      OBVIOUS
<1>6. /\ r \in Seq(Bytes) /\ Len(r) = 4
      /\ r[1] = 1 /\ r[2] = 99 /\ r[3] = p[1] /\ r[4] = p[2]
  <2>1. a \in Seq(Bytes) /\ p \in Seq(Bytes)
        BY <1>2, <1>4
  <2>2. /\ a \o p \in Seq(Bytes) /\ Len(a \o p) = Len(a) + Len(p)
        /\ \A i \in 1..Len(a) : (a \o p)[i] = a[i]
        /\ \A i \in 1..Len(p) : (a \o p)[Len(a) + i] = p[i]
        BY ONLY <2>1, JoinFacts
  <2>3. 1 \in 1..2 /\ 2 \in 1..2 /\ 2 + 1 = 3 /\ 2 + 2 = 4
        OBVIOUS
  <2>4. r[1] = a[1] /\ r[2] = a[2] /\ r[2 + 1] = p[1] /\ r[2 + 2] = p[2]
        BY <1>2, <1>4, <1>5, <2>2, <2>3
  <2> QED BY <1>2, <1>4, <1>5, <2>2, <2>3, <2>4
<1>7. ASSUME NEW msg, NEW pos \in Nat, NEW owner, NEW type, RecordAt(msg, pos, owner, type, r)
      PROVE  AliasAt(msg, pos + 12, t)
  <2>1. \A i \in 1..4 : msg[pos + 12 + i] = r[i]
        BY <1>7 DEF RecordAt
  <2>2. 1 \in 1..4 /\ 2 \in 1..4 /\ 3 \in 1..4 /\ 4 \in 1..4
        OBVIOUS
  <2>3. msg[pos + 12 + 1] = 1 /\ msg[pos + 12 + 2] = 99 /\ msg[pos + 12 + 3] = p[1] /\ msg[pos + 12 + 4] = p[2]
        BY <1>6, <2>1, <2>2
  <2>4. /\ pos + 12 + 1 + 1 = pos + 12 + 2 /\ pos + 12 + 2 + 1 = pos + 12 + 3
        /\ pos + 12 + 2 + 1 + 1 = pos + 12 + 4
        OBVIOUS
  <2>5. Byte(msg, pos + 12) = 1 /\ Byte(msg, pos + 12 + 1) = 99
        BY <2>3, <2>4 DEF Byte
  <2>6. Byte(msg, pos + 12 + 2) = p[1] /\ Byte(msg, pos + 12 + 2 + 1) = p[2]
        BY <2>3, <2>4 DEF Byte
  <2>7. PointerAt(msg, pos + 12 + 2, t)
        BY <1>4, <2>6 DEF PointerAt
  <2> QED BY <2>5, <2>7 DEF AliasAt
<1> QED BY <1>1, <1>3, <1>5, <1>6, <1>7

\* What the server has put together: its owner's name can be read, and will be
\* whatever follows.
NameIsAt(acc, off, raw, d, n) ==
    /\ Laid(acc.name, Len(acc.name), off, raw, d)
    /\ n \in Nat /\ n + 4 <= Len(acc.bytes)
    /\ \A msg : Extends(msg, acc.bytes) => Reads(msg, n, acc.owner, raw)

\* The state of the server between two records.
Good(acc) ==
    /\ acc.bytes \in Seq(Bytes) /\ acc.owner \in Reachable /\ IsName(acc.name)
    /\ \E off, raw, d, n : NameIsAt(acc, off, raw, d, n)

\* The name with an alias in front.
Aliased(name) == <<Tail(Alias)>> \o name

\* A record as it is sent.
Sent(acc, type, ip) ==
    [name |-> TextOf(acc.name), type |-> type,
     rdata |-> IF type # T_A THEN TextOf(Aliased(acc.name)) ELSE ip]

\* A record more.
Grown(acc, b, type, ip) ==
    /\ Good(b) /\ Len(b.bytes) = Len(acc.bytes) + 16 /\ Extends(b.bytes, acc.bytes)
    /\ b.sent = Append(acc.sent, Sent(acc, type, ip))

\* Append1 keeps what was put together readable and sends the record it names.
LEMMA GrownFacts ==
    ASSUME NEW acc, Good(acc), NEW type \in Bytes, NEW ip \in Seq(Bytes), Len(ip) = 4,
           Len(acc.bytes) + 12 \in Reachable
    PROVE  Grown(acc, Append1(acc, type, ip), type, ip)
<1>1. PICK bytes, owner, name : bytes = acc.bytes /\ owner = acc.owner /\ name = acc.name
      OBVIOUS
<1>2. bytes \in Seq(Bytes) /\ owner \in Reachable /\ IsName(name)
      BY <1>1 DEF Good
<1>3. PICK off, raw, d, n : NameIsAt(acc, off, raw, d, n)
      BY DEF Good
<1>4. /\ Laid(name, Len(name), off, raw, d) /\ n \in Nat /\ n + 4 <= Len(bytes)
      /\ \A msg : Extends(msg, bytes) => Reads(msg, n, owner, raw)
      BY <1>1, <1>3 DEF NameIsAt
<1>5. PICK L \in Nat : L = Len(bytes)
      BY <1>2, LenProperties
<1>6. PICK b : b = Append1(acc, type, ip)
      OBVIOUS
<1>7. CASE type = T_A
  <2>1. /\ b.bytes = bytes \o Record(Pointer(owner), type, ip) /\ b.owner = owner /\ b.name = name
        /\ b.sent = Append(acc.sent, Sent(acc, type, ip))
        BY <1>1, <1>6, <1>7 DEF Append1, Sent
  <2>2. Recorded(bytes, b.bytes, owner, type, ip)
        BY <1>2, <2>1, RecordFacts
  <2>3. b.bytes \in Seq(Bytes) /\ Len(b.bytes) = L + 16 /\ Extends(b.bytes, bytes)
        BY <1>5, <2>2 DEF Recorded
  <2>4. \A msg : Extends(msg, b.bytes) => Reads(msg, n, owner, raw)
        BY <1>2, <1>4, <2>3, ExtendsTransitive
  <2>5. n + 4 <= L + 16
        BY <1>4, <1>5
  <2>6. NameIsAt(b, off, raw, d, n)
        BY <1>4, <2>1, <2>3, <2>4, <2>5 DEF NameIsAt
  <2>7. Good(b)
        BY <1>2, <2>1, <2>3, <2>6 DEF Good
  <2> QED BY <1>1, <1>5, <1>6, <2>1, <2>3, <2>7 DEF Grown
<1>8. CASE type # T_A
  <2>a. PICK rdata : rdata = Alias \o Pointer(owner)
        OBVIOUS
  <2>b. /\ rdata \in Seq(Bytes) /\ Len(rdata) = 4
        /\ \A msg, pos, ow, ty : pos \in Nat /\ RecordAt(msg, pos, ow, ty, rdata) => AliasAt(msg, pos + 12, owner)
        BY <1>2, <2>a, AliasData
  <2>1. /\ b.bytes = bytes \o Record(Pointer(owner), type, rdata) /\ b.owner = L + 12 /\ b.name = Aliased(name)
        /\ b.sent = Append(acc.sent, Sent(acc, type, ip))
    <3>1. /\ b.bytes = bytes \o Record(Pointer(owner), type, rdata) /\ b.owner = L + 2 + R_DATA /\ b.name = Aliased(name)
          /\ b.sent = Append(acc.sent, Sent(acc, type, ip))
          BY <1>1, <1>5, <1>6, <1>8, <2>a DEF Append1, Sent, Aliased
    <3>2. L + 2 + R_DATA = L + 12
          BY DEF R_DATA
    <3> QED BY <3>1, <3>2
  <2>2. Recorded(bytes, b.bytes, owner, type, rdata)
        BY <1>2, <2>b, <2>1, RecordFacts
  <2>3. b.bytes \in Seq(Bytes) /\ Len(b.bytes) = L + 16 /\ Extends(b.bytes, bytes)
        BY <1>5, <2>2 DEF Recorded
  <2>4. raw \in Seq(Octets) /\ raw \in Seq(Bytes)
    <3>1. raw \in Seq(Octets)
          BY <1>4 DEF Laid
    <3> QED BY <3>1, OctetsAreBytes, SeqMonotonic
  <2>5. PICK m \in Nat : m = n + 3 /\ m + 4 <= L + 16 /\ n + 7 <= L + 16
        BY <1>4, <1>5
  <2>6. ASSUME NEW msg, Extends(msg, b.bytes) PROVE Reads(msg, m, L + 12, WithAlias(raw))
    <3>1. Extends(msg, bytes)
          BY <1>2, <2>3, <2>6, ExtendsTransitive
    <3>2. Reads(msg, n, owner, raw)
          BY <1>4, <3>1
    <3>3. RecordAt(msg, L, owner, type, rdata)
          BY <1>5, <2>2, <2>6 DEF Recorded
    <3>4. AliasAt(msg, L + 12, owner)
          BY <2>b, <3>3
    <3>5. L + 12 \in Nat
          OBVIOUS
    <3>6. Reads(msg, n + 3, L + 12, WithAlias(raw))
          BY <1>4, <2>4, <3>2, <3>4, <3>5, ReadsAlias
    <3> QED BY <2>5, <3>6
  <2>7. PICK o2, d2 : Laid(Aliased(name), Len(Aliased(name)), o2, WithAlias(raw), d2)
        BY <1>2, <1>4, AliasLaid DEF Aliased
  <2>8. NameIsAt(b, o2, WithAlias(raw), d2, m)
        BY <2>1, <2>3, <2>5, <2>6, <2>7 DEF NameIsAt
  <2>9. IsName(Aliased(name))
        BY <1>2, AliasName DEF Aliased
  <2>10. L + 12 \in Reachable
        BY <1>1, <1>5
  <2>11. Good(b)
        BY <2>1, <2>3, <2>8, <2>9, <2>10 DEF Good
  <2> QED BY <1>1, <1>5, <1>6, <2>1, <2>3, <2>11 DEF Grown
<1> QED BY <1>7, <1>8

-----------------------------------------------------------------------------
(* parse_record *)

\* A record as it is parsed.
Parsed(s, section, next) ==
    [name |-> s.name, type |-> s.type, malloced |-> Malloced(section, s.type), rdata |-> s.rdata, next |-> next]

\* parse_record reads a record as it was sent and stops behind it: its owner
\* through a pointer, its data as a name, or as bytes for an address.
LEMMA ParseRecordFacts ==
    ASSUME NEW acc, Good(acc), NEW type \in Bytes, NEW ip \in Seq(Bytes), Len(ip) = 4,
           Len(acc.bytes) + 12 \in Reachable,
           NEW msg, Extends(msg, Append1(acc, type, ip).bytes),
           NEW section, section = "auth" => type # T_A
    PROVE  parse_record(msg, Len(acc.bytes), section)
             = Parsed(Sent(acc, type, ip), section, Len(acc.bytes) + 16)
<1>1. PICK bytes, owner, name : bytes = acc.bytes /\ owner = acc.owner /\ name = acc.name
      OBVIOUS
<1>2. bytes \in Seq(Bytes) /\ owner \in Reachable /\ IsName(name)
      BY <1>1 DEF Good
<1>3. PICK off, raw, d, n : NameIsAt(acc, off, raw, d, n)
      BY DEF Good
<1>4. /\ Laid(name, Len(name), off, raw, d) /\ n \in Nat /\ n + 4 <= Len(bytes)
      /\ \A m : Extends(m, bytes) => Reads(m, n, owner, raw)
      BY <1>1, <1>3 DEF NameIsAt
<1>5. PICK L \in Nat : L = Len(bytes)
      BY <1>2, LenProperties
<1>6. PICK b : b = Append1(acc, type, ip).bytes
      OBVIOUS
<1>7. raw \in Seq(Octets) /\ raw \in Seq(Bytes)
  <2>1. raw \in Seq(Octets)
        BY <1>4 DEF Laid
  <2> QED BY <2>1, OctetsAreBytes, SeqMonotonic
<1>8. PICK rdata : rdata = IF type # T_A THEN Alias \o Pointer(owner) ELSE ip
      OBVIOUS
<1>9. rdata \in Seq(Bytes) /\ Len(rdata) = 4
      BY <1>2, <1>8, AliasData
<1>10. b = bytes \o Record(Pointer(owner), type, rdata)
      BY <1>1, <1>6, <1>8 DEF Append1
<1>11. Recorded(bytes, b, owner, type, rdata)
      BY <1>2, <1>9, <1>10, RecordFacts
<1>12. Extends(msg, b)
      BY <1>6
<1>13. RecordAt(msg, L, owner, type, rdata)
      BY <1>5, <1>11, <1>12 DEF Recorded
<1>14. b \in Seq(Bytes) /\ Len(b) = L + 16 /\ Extends(b, bytes)
      BY <1>5, <1>11 DEF Recorded
<1>15. Extends(msg, bytes)
      BY <1>2, <1>12, <1>14, ExtendsTransitive
<1>16. Len(msg) \in Nat /\ Readable(msg, owner, raw)
  <2>1. msg \in Seq(Bytes) /\ Len(bytes) <= Len(msg)
        BY <1>15 DEF Extends
  <2>2. Len(msg) \in Nat
        BY <2>1, LenProperties
  <2>3. n + 4 <= Len(msg)
        BY <1>4, <1>5, <2>1, <2>2
  <2> QED BY <1>4, <1>15, <2>2, <2>3 DEF Readable
<1>17. /\ PointerAt(msg, L, owner) /\ Byte(msg, L + 3) = type /\ Byte(msg, L + 11) = 4
       /\ \A i \in 1..4 : msg[L + 12 + i] = rdata[i]
      BY <1>13 DEF RecordAt
<1>18. ReadName(msg, L) = [name |-> TextOf(name), count |-> 2]
  <2>1. ReadName(msg, L) = [name |-> Dotted(raw), count |-> 2]
        BY <1>7, <1>16, <1>17, ReadOwner
  <2>2. Dotted(raw) = TextOf(name)
        BY <1>2, <1>4, DottedFacts
  <2> QED BY <2>1, <2>2
<1>19. PICK resource, reader \in Nat : resource = L + 2 /\ reader = L + 12
      OBVIOUS
<1>20. /\ L + ReadName(msg, L).count = resource /\ resource + R_DATA = reader
       /\ Byte(msg, resource + 1) = type /\ Byte(msg, resource + 9) = 4
  <2>1. resource + 1 = L + 3 /\ resource + 9 = L + 11
        BY <1>19
  <2>2. resource + R_DATA = reader
        BY <1>19 DEF R_DATA
  <2>3. L + ReadName(msg, L).count = resource
        BY <1>18, <1>19
  <2> QED BY <1>17, <2>1, <2>2, <2>3
<1>21. parse_record(msg, L, section)
         = [name |-> ReadName(msg, L).name, type |-> type, malloced |-> Malloced(section, type),
            rdata |-> IF type = T_A /\ section # "auth" THEN SubSeq(msg, reader + 1, reader + 4)
                      ELSE ReadName(msg, reader).name,
            next |-> reader + IF type = T_A /\ section # "auth" THEN 4 ELSE ReadName(msg, reader).count]
      BY <1>20 DEF parse_record, parse_resource
<1>22. CASE type = T_A
  <2>1. SubSeq(msg, reader + 1, reader + 4) = ip
    <3>1. \A i \in 1..4 : reader + 1 + i - 1 = L + 12 + i
          BY <1>19
    <3>2. \A i \in 1..4 : msg[reader + 1 + i - 1] = ip[i]
          BY <1>8, <1>17, <1>22, <3>1
    <3>3. reader + 4 - (reader + 1) + 1 = 4 /\ reader + 4 \in Int /\ reader + 1 \in Int
          OBVIOUS
    <3> QED BY <3>2, <3>3, SubSeqIs
  <2>2. reader + 4 = L + 16
        BY <1>19
  <2>3. parse_record(msg, L, section)
          = [name |-> TextOf(name), type |-> type, malloced |-> Malloced(section, type),
             rdata |-> ip, next |-> L + 16]
    <3>1. type = T_A /\ section # "auth"
          BY <1>22
    <3>2. parse_record(msg, L, section)
          = [name |-> ReadName(msg, L).name, type |-> type, malloced |-> Malloced(section, type),
             rdata |-> SubSeq(msg, reader + 1, reader + 4), next |-> reader + 4]
          BY <1>21, <3>1
    <3>3. ReadName(msg, L).name = TextOf(name)
          BY <1>18
    <3> QED BY <2>1, <2>2, <3>2, <3>3
  <2>4. Sent(acc, type, ip) = [name |-> TextOf(name), type |-> type, rdata |-> ip]
        BY <1>1, <1>22 DEF Sent
  <2> QED BY <1>1, <1>5, <2>3, <2>4 DEF Parsed
<1>23. CASE type # T_A
  <2>1. AliasAt(msg, reader, owner)
    <3>1. RecordAt(msg, L, owner, type, Alias \o Pointer(owner))
          BY <1>8, <1>13, <1>23
    <3> QED BY <1>2, <1>19, <3>1, AliasData
  <2>2. ReadName(msg, reader) = [name |-> Dotted(WithAlias(raw)), count |-> 4]
        BY <1>7, <1>16, <2>1, ReadAlias
  <2>3. Dotted(WithAlias(raw)) = TextOf(Aliased(name))
    <3>1. PICK o2, d2 : Laid(Aliased(name), Len(Aliased(name)), o2, WithAlias(raw), d2)
          BY <1>2, <1>4, AliasLaid DEF Aliased
    <3>2. IsName(Aliased(name))
          BY <1>2, AliasName DEF Aliased
    <3> QED BY <3>1, <3>2, DottedFacts
  <2>4. reader + 4 = L + 16
        BY <1>19
  <2>5. parse_record(msg, L, section)
          = [name |-> TextOf(name), type |-> type, malloced |-> Malloced(section, type),
             rdata |-> TextOf(Aliased(name)), next |-> L + 16]
        BY <1>18, <1>21, <1>23, <2>2, <2>3, <2>4
  <2>6. Sent(acc, type, ip) = [name |-> TextOf(name), type |-> type, rdata |-> TextOf(Aliased(name))]
        BY <1>1, <1>23 DEF Sent
  <2> QED BY <1>1, <1>5, <2>5, <2>6 DEF Parsed
<1> QED BY <1>22, <1>23

-----------------------------------------------------------------------------
(* All records of a reply *)

\* The records of a reply, one after the other.
Chain(f, acc, types, ip, N) ==
    f[0] = acc /\ \A k \in 1..N : f[k] = Append1(f[k - 1], types[k], ip)

\* There is such a chain,
LEMMA ChainExists ==
    ASSUME NEW acc, NEW types, NEW ip, NEW N \in Nat
    PROVE  \E f : DOMAIN f = 0..N /\ Chain(f, acc, types, ip, N)
<1> DEFINE S == {n \in Nat : \E f : DOMAIN f = 0..n /\ Chain(f, acc, types, ip, n)}
<1>1. 0 \in S
  <2>1. PICK f : f = [k \in 0..0 |-> acc]
        OBVIOUS
  <2>2. DOMAIN f = 0..0 /\ f[0] = acc
        BY <2>1
  <2>3. Chain(f, acc, types, ip, 0)
        BY <2>2 DEF Chain
  <2> QED BY <2>2, <2>3
<1>2. ASSUME NEW n \in Nat, n \in S PROVE n + 1 \in S
  <2>1. PICK f : DOMAIN f = 0..n /\ Chain(f, acc, types, ip, n)
        BY <1>2
  <2>2. PICK x : x = Append1(f[n], types[n + 1], ip)
        OBVIOUS
  <2>3. PICK g : g = [k \in 0..(n + 1) |-> IF k <= n THEN f[k] ELSE x]
        OBVIOUS
  <2>4. DOMAIN g = 0..(n + 1) /\ g[n + 1] = x /\ \A k \in 0..n : g[k] = f[k]
        BY <2>3
  <2>5. ASSUME NEW k \in 1..(n + 1) PROVE g[k] = Append1(g[k - 1], types[k], ip)
    <3>1. CASE k <= n
      <4>1. k \in 1..n /\ k \in 0..n /\ k - 1 \in 0..n
            BY <3>1
      <4>2. f[k] = Append1(f[k - 1], types[k], ip)
            BY <2>1, <4>1 DEF Chain
      <4> QED BY <2>4, <4>1, <4>2
    <3>2. CASE k = n + 1
      <4>1. k - 1 = n /\ n \in 0..n
            BY <3>2
      <4> QED BY <2>2, <2>4, <3>2, <4>1
    <3> QED BY <3>1, <3>2
  <2>6. g[0] = acc
    <3>1. 0 \in 0..n
          OBVIOUS
    <3> QED BY <2>1, <2>4, <3>1 DEF Chain
  <2>7. Chain(g, acc, types, ip, n + 1)
        BY <2>5, <2>6 DEF Chain
  <2> QED BY <2>4, <2>7
<1> HIDE DEF S
<1>3. Nat \subseteq S
      BY <1>1, <1>2, SetInduction
<1> QED BY <1>3 DEF S

\* ... and its last state is what Appended yields.
LEMMA AppendedIs ==
    ASSUME NEW acc, NEW types, NEW ip, Len(types) \in Nat
    PROVE  \E f : Chain(f, acc, types, ip, Len(types)) /\ Appended(acc, types, ip) = f[Len(types)]
<1>1. PICK N \in Nat : N = Len(types)
      OBVIOUS
<1> DEFINE f == CHOOSE g : g = [k \in 0..N |-> IF k = 0 THEN acc ELSE Append1(g[k - 1], types[k], ip)]
<1>2. Appended(acc, types, ip) = f[N]
      BY <1>1 DEF Appended
<1>3. PICK g : DOMAIN g = 0..N /\ Chain(g, acc, types, ip, N)
      BY ChainExists
<1>a. PICK h : h = [k \in 0..N |-> g[k]]
      OBVIOUS
<1>4. h = [k \in 0..N |-> IF k = 0 THEN acc ELSE Append1(h[k - 1], types[k], ip)]
  <2>1. ASSUME NEW k \in 0..N PROVE h[k] = IF k = 0 THEN acc ELSE Append1(h[k - 1], types[k], ip)
    <3>1. CASE k = 0
          BY <1>3, <1>a, <3>1 DEF Chain
    <3>2. CASE k # 0
      <4>1. k \in 1..N /\ k - 1 \in 0..N
            BY <3>2
      <4>2. g[k] = Append1(g[k - 1], types[k], ip)
            BY <1>3, <4>1 DEF Chain
      <4> QED BY <1>a, <3>2, <4>1, <4>2
    <3> QED BY <3>1, <3>2
  <2>2. h = [k \in 0..N |-> h[k]]
        BY <1>a
  <2> QED BY <2>1, <2>2
<1>5. f = [k \in 0..N |-> IF k = 0 THEN acc ELSE Append1(f[k - 1], types[k], ip)]
      BY <1>4
<1> HIDE DEF f
<1>6. f[0] = acc
      BY <1>5
<1>7. ASSUME NEW k \in 1..N PROVE f[k] = Append1(f[k - 1], types[k], ip)
  <2>1. k \in 0..N /\ k # 0
        OBVIOUS
  <2> QED BY <1>5, <2>1
<1>8. Chain(f, acc, types, ip, N)
      BY <1>6, <1>7 DEF Chain
<1> QED BY <1>1, <1>2, <1>8

\* All of them can be read, and each of them is sent.
SentUpTo(f, types, ip, X, k) ==
    /\ f[k].sent \in Seq(X) /\ Len(f[k].sent) = k
    /\ \A j \in 1..k : f[k].sent[j] = Sent(f[j - 1], types[j], ip)

\* The invariant of the chain.
ChainAt(f, L, types, ip, X, k) ==
    /\ Good(f[k]) /\ Len(f[k].bytes) = L + 16 * k
    /\ \A i \in 0..k : f[i].bytes \in Seq(Bytes) /\ Extends(f[k].bytes, f[i].bytes)
    /\ SentUpTo(f, types, ip, X, k)

\* Each record leaves the records before it as they are.
LEMMA ChainFacts ==
    ASSUME NEW acc, Good(acc), acc.sent = <<>>, NEW L \in Nat, L = Len(acc.bytes),
           NEW types \in Seq(Bytes), NEW N \in Nat, N = Len(types), NEW ip \in Seq(Bytes), Len(ip) = 4,
           \A k \in 1..N : L + 16 * (k - 1) + 12 \in Reachable,
           NEW f, Chain(f, acc, types, ip, N),
           NEW X, X = {Sent(f[j - 1], types[j], ip) : j \in 1..N}
    PROVE  \A k \in 0..N : ChainAt(f, L, types, ip, X, k)
<1> DEFINE S == {k \in Nat : k <= N => ChainAt(f, L, types, ip, X, k)}
<1>1. 0 \in S
  <2>1. f[0] = acc
        BY DEF Chain
  <2>2. f[0].sent \in Seq(X) /\ Len(f[0].sent) = 0
    <3>1. f[0].sent = <<>>
          BY <2>1
    <3>2. <<>> \in Seq(X) /\ Len(<<>>) = 0
          OBVIOUS
    <3> QED BY <3>1, <3>2
  <2>3. SentUpTo(f, types, ip, X, 0)
        BY <2>2 DEF SentUpTo
  <2>4. f[0].bytes \in Seq(Bytes) /\ Extends(f[0].bytes, f[0].bytes)
    <3>1. f[0].bytes \in Seq(Bytes)
          BY <2>1 DEF Good
    <3>2. Len(f[0].bytes) \in Nat
          BY <3>1, LenProperties
    <3>3. Len(f[0].bytes) <= Len(f[0].bytes)
          BY <3>2
    <3> QED BY <3>1, <3>3 DEF Extends
  <2>5. \A i \in 0..0 : f[i].bytes \in Seq(Bytes) /\ Extends(f[0].bytes, f[i].bytes)
    <3> TAKE i \in 0..0
    <3>1. i = 0
          OBVIOUS
    <3> QED BY <2>4, <3>1
  <2>6. L + 16 * 0 = L
        OBVIOUS
  <2>7. ChainAt(f, L, types, ip, X, 0)
        BY <2>1, <2>3, <2>5, <2>6 DEF ChainAt
  <2> QED BY <2>7
<1>2. ASSUME NEW k \in Nat, k \in S PROVE k + 1 \in S
  <2> SUFFICES ASSUME k + 1 <= N PROVE ChainAt(f, L, types, ip, X, k + 1)
      OBVIOUS
  <2>1. k + 1 \in 1..N /\ (k + 1) - 1 = k /\ k <= N
        OBVIOUS
  <2>2. ChainAt(f, L, types, ip, X, k)
        BY <1>2, <2>1
  <2>3. PICK c \in Nat : c = k + 1
        OBVIOUS
  <2>4. f[c] = Append1(f[k], types[c], ip)
        BY <2>1, <2>3 DEF Chain
  <2>5. types[c] \in Bytes
        BY <2>1, <2>3, ElementOfSeq
  <2>6. Good(f[k]) /\ Len(f[k].bytes) = L + 16 * k
        BY <2>2 DEF ChainAt
  <2>7. Len(f[k].bytes) + 12 \in Reachable
        BY <2>1, <2>3, <2>6
  <2>8. Grown(f[k], f[c], types[c], ip)
        BY <2>4, <2>5, <2>6, <2>7, GrownFacts
  <2>9. /\ Good(f[c]) /\ Len(f[c].bytes) = Len(f[k].bytes) + 16 /\ Extends(f[c].bytes, f[k].bytes)
        /\ f[c].sent = Append(f[k].sent, Sent(f[k], types[c], ip))
        BY <2>8 DEF Grown
  <2>10. Len(f[c].bytes) = L + 16 * c
    <3>1. PICK y, z \in Nat : y = 16 * k /\ z = 16 * c /\ z = y + 16
          BY <2>3
    <3>2. Len(f[k].bytes) = L + y
          BY <2>6, <3>1
    <3>3. Len(f[c].bytes) = L + y + 16
          BY <2>9, <3>2
    <3>a. z = y + 16
          BY <3>1
    <3>4. L + y + 16 = L + z
          BY ONLY <3>a, L \in Nat, y \in Nat, z \in Nat
    <3>5. Len(f[c].bytes) = L + z
          BY <3>3, <3>4
    <3> QED BY <3>1, <3>5
  <2>11. ASSUME NEW i \in 0..c PROVE f[i].bytes \in Seq(Bytes) /\ Extends(f[c].bytes, f[i].bytes)
    <3>0. f[c].bytes \in Seq(Bytes) /\ f[k].bytes \in Seq(Bytes)
          BY <2>6, <2>9 DEF Good
    <3>1. CASE i = c
      <4>1. Len(f[c].bytes) \in Nat
            BY <3>0, LenProperties
      <4>2. Len(f[c].bytes) <= Len(f[c].bytes)
            BY <4>1
      <4>3. Extends(f[c].bytes, f[c].bytes)
            BY <3>0, <4>2 DEF Extends
      <4> QED BY <3>0, <3>1, <4>3
    <3>2. CASE i # c
      <4>1. i \in 0..k /\ i <= k
            BY <2>3, <3>2
      <4>2. f[i].bytes \in Seq(Bytes) /\ Extends(f[k].bytes, f[i].bytes)
            BY <2>2, <4>1 DEF ChainAt
      <4> QED BY <2>9, <3>0, <4>2, ExtendsTransitive
    <3> QED BY <3>1, <3>2
  <2>12. SentUpTo(f, types, ip, X, c)
    <3>1. PICK s, x : s = f[k].sent /\ x = Sent(f[k], types[c], ip)
          OBVIOUS
    <3>2. s \in Seq(X) /\ Len(s) = k /\ \A j \in 1..k : s[j] = Sent(f[j - 1], types[j], ip)
          BY <2>2, <3>1 DEF ChainAt, SentUpTo
    <3>3. x \in X
          BY <2>1, <2>3, <3>1
    <3>4. PICK t : t = Append(s, x)
          OBVIOUS
    <3>5. t \in Seq(X) /\ Len(t) = c /\ t[c] = x /\ \A j \in 1..k : t[j] = s[j]
          BY <2>3, <3>2, <3>3, <3>4, AppendProperties
    <3>6. ASSUME NEW j \in 1..c PROVE t[j] = Sent(f[j - 1], types[j], ip)
      <4>1. CASE j = c
        <5>1. j - 1 = k
              BY <2>3, <4>1
        <5> QED BY <3>1, <3>5, <4>1, <5>1
      <4>2. CASE j # c
        <5>1. j \in 1..k
              BY <2>3, <4>2
        <5> QED BY <3>2, <3>5, <5>1
      <4> QED BY <4>1, <4>2
    <3>7. f[c].sent = t
          BY <2>9, <3>1, <3>4
    <3> QED BY <3>5, <3>6, <3>7 DEF SentUpTo
  <2>13. ChainAt(f, L, types, ip, X, c)
        BY <2>9, <2>10, <2>11, <2>12 DEF ChainAt
  <2> QED BY <2>3, <2>13
<1> HIDE DEF S
<1>3. Nat \subseteq S
      BY <1>1, <1>2, SetInduction
<1> QED BY <1>3 DEF S

-----------------------------------------------------------------------------
(* Sections *)

\* A section whose records take 16 bytes each: its first n are parsed.
SectionIs(sec, msg, pos, n, section) ==
    /\ sec.next = pos + 16 * n
    /\ DOMAIN sec.records = 1..n /\ Len(sec.records) = n
    /\ \E T : sec.records \in Seq(T)
    /\ \A k \in 1..n : sec.records[k] = parse_record(msg, pos + 16 * (k - 1), section)

\* parse_section yields such a section.
LEMMA SectionFacts ==
    ASSUME NEW msg, NEW pos \in Nat, NEW count \in Nat, NEW section, NEW n \in Nat,
           n = Min({count, MAX_RES_RECORD_CNT}),
           \A k \in 1..n : parse_record(msg, pos + 16 * (k - 1), section).next = pos + 16 * k
    PROVE  SectionIs(parse_section(msg, pos, count, section), msg, pos, n, section)
<1> DEFINE base == [next |-> pos, records |-> <<>>]
           step(s) == [next |-> parse_record(msg, s.next, section).next,
                       records |-> Append(s.records, parse_record(msg, s.next, section))]
           f == CHOOSE g : g = [k \in 0..n |-> IF k = 0 THEN base ELSE step(g[k - 1])]
           rec(k) == parse_record(msg, pos + 16 * (k - 1), section)
<1>1. parse_section(msg, pos, count, section) = f[n]
      BY DEF parse_section
<1>2. PICK T : T = {rec(k) : k \in 1..n}
      OBVIOUS
<1>3. PICK p : p = [k \in 1..n |-> rec(k)]
      OBVIOUS
<1>4. p \in Seq(T) /\ Len(p) = n /\ DOMAIN p = 1..n /\ \A k \in 1..n : p[k] = rec(k)
  <2>1. p \in [1..n -> T]
        BY <1>2, <1>3
  <2>2. p \in Seq(T) /\ Len(p) = n
        BY <2>1, FunctionIsSeq
  <2> QED BY <1>3, <2>2
<1> DEFINE st(k) == [next |-> pos + 16 * k, records |-> SubSeq(p, 1, k)]
<1>5. st(0) = base
  <2>1. SubSeq(p, 1, 0) = <<>>
        BY SubSeqEmpty
  <2>2. pos + 16 * 0 = pos
        OBVIOUS
  <2> QED BY <2>1, <2>2
<1>6. ASSUME NEW k \in 1..n PROVE step(st(k - 1)) = st(k)
  <2>1. rec(k).next = pos + 16 * k
        OBVIOUS
  <2>2. Append(SubSeq(p, 1, k - 1), rec(k)) = SubSeq(p, 1, k)
    <3>1. p \in Seq(T) /\ k \in 1..Len(p) /\ p[k] = rec(k)
          BY <1>4
    <3>2. Append(SubSeq(p, 1, k - 1), p[k]) = SubSeq(p, 1, k)
          BY <3>1, OneLonger
    <3> QED BY <3>1, <3>2
  <2> QED BY <2>1, <2>2
<1> HIDE DEF st, step, base, rec
<1>7. PICK g : g = [k \in 0..n |-> st(k)]
      OBVIOUS
<1>8. g = [k \in 0..n |-> IF k = 0 THEN base ELSE step(g[k - 1])]
  <2>1. ASSUME NEW k \in 0..n PROVE g[k] = IF k = 0 THEN base ELSE step(g[k - 1])
    <3>1. CASE k = 0
          BY <1>5, <1>7, <3>1
    <3>2. CASE k # 0
      <4>1. k \in 1..n /\ k - 1 \in 0..n
            BY <3>2
      <4> QED BY <1>6, <1>7, <3>2, <4>1
    <3> QED BY <3>1, <3>2
  <2>2. g = [k \in 0..n |-> g[k]]
        BY <1>7
  <2> QED BY <2>1, <2>2
<1>9. f = [k \in 0..n |-> IF k = 0 THEN base ELSE step(f[k - 1])]
      BY <1>8
<1> HIDE DEF f
<1>10. \A k \in 0..n : f[k] = g[k]
  <2>1. f[0] = g[0]
        BY <1>8, <1>9
  <2>2. ASSUME NEW k \in 1..n, f[k - 1] = g[k - 1] PROVE f[k] = g[k]
    <3>1. k \in 0..n /\ k # 0
          OBVIOUS
    <3> QED BY <1>8, <1>9, <2>2, <3>1
  <2>3. \A k \in 1..n : f[k - 1] = g[k - 1] => f[k] = g[k]
        BY <2>2
  <2> QED BY ONLY n \in Nat, <2>1, <2>3, SameUpTo
<1>11. f[n] = st(n)
  <2>1. n \in 0..n
        OBVIOUS
  <2> QED BY <1>7, <1>10, <2>1
<1>12. f[n].next = pos + 16 * n /\ f[n].records = SubSeq(p, 1, n)
  <2>1. st(n).next = pos + 16 * n /\ st(n).records = SubSeq(p, 1, n)
        BY DEF st
  <2> QED BY <1>11, <2>1
<1>13. SubSeq(p, 1, n) = p
      BY <1>4, SubSeqFull
<1>14. \A k \in 1..n : p[k] = parse_record(msg, pos + 16 * (k - 1), section)
      BY <1>4 DEF rec
<1> QED BY <1>1, <1>4, <1>12, <1>13, <1>14 DEF SectionIs

-----------------------------------------------------------------------------
(* The question and what follows it *)

\* What follows the question leaves the question alone.
LEMMA AsksExtended ==
    ASSUME NEW raw \in Seq(Octets), NEW bytes, Asks(bytes, raw), NEW msg, Extends(msg, bytes)
    PROVE  Asks(msg, raw)
<1>1. bytes \in Seq(Bytes) /\ msg \in Seq(Bytes)
      BY DEF Asks, Extends
<1>2. PICK r, x, y \in Nat : r = Len(raw) /\ x = Len(bytes) /\ y = Len(msg)
      BY <1>1, LenProperties
<1>3. x >= r + 17 /\ x <= y /\ \A i \in 1..x : msg[i] = bytes[i]
      BY <1>2 DEF Asks, Extends
<1>4. bytes[13 + r] = 0 /\ \A i \in 1..r : bytes[12 + i] = raw[i]
      BY <1>2 DEF Asks
<1>5. 13 + r \in 1..x /\ \A i \in 1..r : 12 + i \in 1..x
      BY <1>3
<1>6. msg[13 + r] = 0 /\ \A i \in 1..r : msg[12 + i] = raw[i]
      BY <1>3, <1>4, <1>5
<1>7. y >= r + 17
      BY <1>3
<1> QED BY <1>1, <1>2, <1>6, <1>7 DEF Asks

\* The records of a message, as they are parsed and as they were sent.
RecordsOf(bytes, sent, L, types, N, ip) ==
    \A k \in 1..N :
        /\ \A section : (section = "auth" => types[k] # T_A) =>
             parse_record(bytes, L + 16 * (k - 1), section) = Parsed(sent[k], section, L + 16 * k)
        /\ sent[k].type = types[k]
        /\ sent[k] = [name |-> sent[k].name, type |-> sent[k].type, rdata |-> sent[k].rdata]
        /\ types[k] = T_A => sent[k].rdata = ip

\* The server before the first record.
Start(bytes, labels) == [bytes |-> bytes, owner |-> 12, name |-> labels, sent |-> <<>>]

\* The records the server puts behind a question are parsed as they were sent,
\* whatever their number, as long as pointers reach them.
LEMMA ServedFacts ==
    ASSUME NEW labels, IsName(labels), NEW off, NEW raw, NEW d, Laid(labels, Len(labels), off, raw, d),
           NEW bytes, Asks(bytes, raw), NEW L \in Nat, L = Len(bytes),
           NEW types \in Seq(Bytes), NEW N \in Nat, N = Len(types), NEW ip \in Seq(Bytes), Len(ip) = 4,
           \A k \in 1..N : L + 16 * (k - 1) + 12 \in Reachable,
           NEW all, all = Appended(Start(bytes, labels), types, ip)
    PROVE  Extends(all.bytes, bytes) /\ RecordsOf(all.bytes, all.sent, L, types, N, ip)
<1>1. PICK acc : acc = Start(bytes, labels)
      OBVIOUS
<1>2. acc.bytes = bytes /\ acc.owner = 12 /\ acc.name = labels /\ acc.sent = <<>>
      BY <1>1 DEF Start
<1>3. raw \in Seq(Octets)
      BY DEF Laid
<1>4. PICK n \in Nat : n = Len(raw)
      BY <1>3, LenProperties
<1>5. bytes \in Seq(Bytes) /\ n + 4 <= L
  <2>1. bytes \in Seq(Bytes) /\ L >= n + 17
        BY <1>4 DEF Asks
  <2> QED BY <2>1
<1>6. ASSUME NEW msg, Extends(msg, bytes) PROVE Reads(msg, n, 12, raw)
  <2>1. Asks(msg, raw)
        BY <1>3, <1>6, AsksExtended
  <2> QED BY <1>3, <1>4, <2>1, ReadsQuestion
<1>7. NameIsAt(acc, off, raw, d, n)
      BY <1>2, <1>5, <1>6 DEF NameIsAt
<1>8. 12 \in Reachable
      BY DEF Reachable
<1>9. Good(acc)
      BY <1>2, <1>5, <1>7, <1>8 DEF Good
<1>10. PICK f : Chain(f, acc, types, ip, N) /\ all = f[N]
      BY <1>1, AppendedIs
<1>11. PICK X : X = {Sent(f[j - 1], types[j], ip) : j \in 1..N}
      OBVIOUS
<1>12. \A k \in 0..N : ChainAt(f, L, types, ip, X, k)
      BY <1>2, <1>9, <1>10, <1>11, ChainFacts
<1>13. ChainAt(f, L, types, ip, X, N)
  <2>1. N \in 0..N
        OBVIOUS
  <2> QED BY <1>12, <2>1
<1>14. \A i \in 0..N : Extends(all.bytes, f[i].bytes)
      BY <1>10, <1>13 DEF ChainAt
<1>15. \A j \in 1..N : all.sent[j] = Sent(f[j - 1], types[j], ip)
      BY <1>10, <1>13 DEF ChainAt, SentUpTo
<1>16. Extends(all.bytes, bytes)
  <2>1. 0 \in 0..N /\ f[0] = acc
        BY <1>10 DEF Chain
  <2> QED BY <1>2, <1>14, <2>1
<1>17. ASSUME NEW k \in 1..N, NEW section, section = "auth" => types[k] # T_A
       PROVE  parse_record(all.bytes, L + 16 * (k - 1), section) = Parsed(all.sent[k], section, L + 16 * k)
  <2>1. k - 1 \in 0..N /\ k \in 0..N
        OBVIOUS
  <2>2. Good(f[k - 1]) /\ Len(f[k - 1].bytes) = L + 16 * (k - 1)
        BY <1>12, <2>1 DEF ChainAt
  <2>3. f[k] = Append1(f[k - 1], types[k], ip)
        BY <1>10 DEF Chain
  <2>4. types[k] \in Bytes
        BY ElementOfSeq
  <2>5. Len(f[k - 1].bytes) + 12 \in Reachable
        BY <2>2
  <2>6. Extends(all.bytes, Append1(f[k - 1], types[k], ip).bytes)
        BY <1>14, <2>1, <2>3
  <2>7. parse_record(all.bytes, Len(f[k - 1].bytes), section)
          = Parsed(Sent(f[k - 1], types[k], ip), section, Len(f[k - 1].bytes) + 16)
        BY <1>17, <2>2, <2>4, <2>5, <2>6, ParseRecordFacts
  <2>8. L + 16 * (k - 1) + 16 = L + 16 * k
        OBVIOUS
  <2> QED BY <1>15, <2>2, <2>7, <2>8
<1>18. ASSUME NEW k \in 1..N
       PROVE  /\ all.sent[k].type = types[k]
              /\ all.sent[k] = [name |-> all.sent[k].name, type |-> all.sent[k].type, rdata |-> all.sent[k].rdata]
              /\ types[k] = T_A => all.sent[k].rdata = ip
  <2>1. PICK s, name, rdata : s = all.sent[k] /\ name = TextOf(f[k - 1].name)
                              /\ rdata = IF types[k] # T_A THEN TextOf(Aliased(f[k - 1].name)) ELSE ip
        OBVIOUS
  <2>2. s = [name |-> name, type |-> types[k], rdata |-> rdata]
        BY <1>15, <2>1 DEF Sent
  <2>3. s.name = name /\ s.type = types[k] /\ s.rdata = rdata
        BY <2>2
  <2>4. s = [name |-> s.name, type |-> s.type, rdata |-> s.rdata]
        BY <2>2, <2>3
  <2> QED BY <2>1, <2>3, <2>4
<1>19. RecordsOf(all.bytes, all.sent, L, types, N, ip)
      BY <1>17, <1>18 DEF RecordsOf
<1> QED BY <1>16, <1>19

-----------------------------------------------------------------------------
(* Three sections *)

\* The smaller of two numbers.
LEMMA MinFacts ==
    ASSUME NEW a \in Nat, NEW b \in Nat
    PROVE  Min({a, b}) = IF a <= b THEN a ELSE b
<1>1. PICK S : S = {a, b}
      OBVIOUS
<1>2. PICK m \in S : \A y \in S : m <= y
      BY <1>1
<1>3. Min(S) = CHOOSE x \in S : \A y \in S : x =< y
      BY DEF Min
<1>4. Min(S) \in S /\ \A y \in S : Min(S) =< y
      BY <1>2, <1>3
<1>5. a \in S /\ b \in S /\ \A x \in S : x = a \/ x = b
      BY <1>1
<1>6. Min(S) = IF a <= b THEN a ELSE b
  <2>1. PICK x : x = Min(S)
        OBVIOUS
  <2>2. (x = a \/ x = b) /\ x <= a /\ x <= b
        BY <1>4, <1>5, <2>1
  <2>3. x = IF a <= b THEN a ELSE b
        BY <2>2
  <2> QED BY <2>1, <2>3
<1> QED BY <1>1, <1>6

\* Three sequences, one behind the other.
Joined(w, a, b, c, x, y, z) ==
    /\ DOMAIN w = 1..(x + y + z)
    /\ \A i \in 1..x : w[i] = a[i]
    /\ \A i \in 1..y : w[x + i] = b[i]
    /\ \A i \in 1..z : w[x + y + i] = c[i]

\* Their concatenation is such a sequence.
LEMMA ThreeParts ==
    ASSUME NEW T1, NEW T2, NEW T3, NEW a \in Seq(T1), NEW b \in Seq(T2), NEW c \in Seq(T3),
           NEW x, NEW y, NEW z, x = Len(a), y = Len(b), z = Len(c)
    PROVE  Joined((a \o b) \o c, a, b, c, x, y, z)
<1>0. x \in Nat /\ y \in Nat /\ z \in Nat
      BY LenProperties
<1>a. PICK w : w = (a \o b) \o c
      OBVIOUS
<1>1. PICK T : T = (T1 \cup T2) \cup T3
      OBVIOUS
<1>2. T1 \subseteq T /\ T2 \subseteq T /\ T3 \subseteq T
      BY <1>1
<1>3. a \in Seq(T) /\ b \in Seq(T) /\ c \in Seq(T)
      BY <1>2, SeqMonotonic
<1>4. PICK u : u = a \o b
      OBVIOUS
<1>5. /\ a \o b \in Seq(T) /\ Len(a \o b) = Len(a) + Len(b)
      /\ \A i \in 1..Len(a) : (a \o b)[i] = a[i]
      /\ \A i \in 1..Len(b) : (a \o b)[Len(a) + i] = b[i]
      BY ONLY <1>3, JoinFacts
<1>6. /\ u \in Seq(T) /\ Len(u) = x + y
      /\ \A i \in 1..x : u[i] = a[i]
      /\ \A i \in 1..y : u[x + i] = b[i]
      BY <1>4, <1>5
<1>7. /\ u \o c \in Seq(T) /\ Len(u \o c) = Len(u) + Len(c)
      /\ \A i \in 1..Len(u) : (u \o c)[i] = u[i]
      /\ \A i \in 1..Len(c) : (u \o c)[Len(u) + i] = c[i]
  <2>1. u \in Seq(T) /\ c \in Seq(T)
        BY <1>3, <1>6
  <2> QED BY ONLY <2>1, JoinFacts
<1>8. /\ w \in Seq(T) /\ Len(w) = x + y + z
      /\ \A i \in 1..(x + y) : w[i] = u[i]
      /\ \A i \in 1..z : w[x + y + i] = c[i]
      BY <1>a, <1>4, <1>6, <1>7
<1>9. DOMAIN w = 1..(x + y + z)
      BY <1>8, LenProperties
<1>10. \A i \in 1..x : i \in 1..(x + y)
      BY <1>0
<1>11. \A i \in 1..y : x + i \in 1..(x + y)
      BY <1>0
<1>12. \A i \in 1..x : w[i] = a[i]
      BY <1>6, <1>8, <1>10
<1>13. \A i \in 1..y : w[x + i] = b[i]
      BY <1>6, <1>8, <1>11
<1>14. Joined(w, a, b, c, x, y, z)
      BY <1>8, <1>9, <1>12, <1>13 DEF Joined
<1> QED BY <1>a, <1>14

\* Where the next record starts.
LEMMA ParsedNext ==
    ASSUME NEW s, NEW section, NEW next
    PROVE  Parsed(s, section, next).next = next
BY DEF Parsed

\* The sections of a reply, parsed: n answers and, v being 1, an authority and an
\* additional record.
ParsedIn(records, sent, n, k) ==
    \E section, next : /\ records[k] = Parsed(sent[k], section, next)
                       /\ k <= n <=> section = "answers"

\* How many records a reply has.
Counts(A, n, v, N, types) ==
    /\ MAX_RES_RECORD_CNT \in Nat \ {0}
    /\ A \in Nat /\ n \in Nat /\ n = Min({A, MAX_RES_RECORD_CNT}) /\ v \in {0, 1}
    /\ N \in Nat /\ N = A + 2 * v
    /\ v = 1 => n = A /\ types[A + 1] # T_A

\* The records in the order parseDnsResult reads them.
InSections(records, bytes, L, A, v) ==
    \E a, b, c : /\ a = parse_section(bytes, L, A, "answers")
                 /\ b = parse_section(bytes, a.next, v, "auth")
                 /\ c = parse_section(bytes, b.next, v, "addit")
                 /\ records = a.records \o b.records \o c.records

\* Each of them is parsed.
AllParsed(records, sent, n, v) ==
    DOMAIN records = 1..(n + v + v) /\ \A k \in 1..(n + v + v) : ParsedIn(records, sent, n, k)

\* The three sections of a reply, parsed one after the other, are its records:
\* no reader is left in the middle of a record.
LEMMA SectionsFacts ==
    ASSUME NEW bytes, NEW sent, NEW L \in Nat, NEW types, NEW N, NEW ip,
           RecordsOf(bytes, sent, L, types, N, ip),
           NEW A, NEW n, NEW v, Counts(A, n, v, N, types),
           NEW records, InSections(records, bytes, L, A, v)
    PROVE  AllParsed(records, sent, n, v)
<1>0. /\ MAX_RES_RECORD_CNT \in Nat \ {0}
      /\ A \in Nat /\ n \in Nat /\ n = Min({A, MAX_RES_RECORD_CNT}) /\ v \in {0, 1}
      /\ N \in Nat /\ N = A + 2 * v
      /\ v = 1 => n = A /\ types[A + 1] # T_A
      BY DEF Counts
<1>a. PICK a, b, c : /\ a = parse_section(bytes, L, A, "answers")
                     /\ b = parse_section(bytes, a.next, v, "auth")
                     /\ c = parse_section(bytes, b.next, v, "addit")
                     /\ records = a.records \o b.records \o c.records
      BY DEF InSections
<1> USE <1>0, <1>a
<1>b. DOMAIN records = 1..(n + v + v) /\ \A k \in 1..(n + v + v) : ParsedIn(records, sent, n, k)
  <2>1. n <= A /\ n + v + v <= N
    <3>1. n <= A
          BY MinFacts
    <3> QED BY <3>1
  <2>2. v \in Nat /\ v = Min({v, MAX_RES_RECORD_CNT})
        BY MinFacts
  <2>3. ASSUME NEW k \in 1..n
        PROVE  parse_record(bytes, L + 16 * (k - 1), "answers") = Parsed(sent[k], "answers", L + 16 * k)
    <3>1. k \in 1..N
          BY <2>1, <2>2
    <3> QED BY <3>1 DEF RecordsOf
  <2>4. SectionIs(a, bytes, L, n, "answers")
    <3>1. \A k \in 1..n : parse_record(bytes, L + 16 * (k - 1), "answers").next = L + 16 * k
      <4> TAKE k \in 1..n
      <4>1. parse_record(bytes, L + 16 * (k - 1), "answers") = Parsed(sent[k], "answers", L + 16 * k)
            BY <2>3
      <4> QED BY <4>1, ParsedNext
    <3> QED BY <3>1, SectionFacts
  <2>5. PICK P \in Nat : P = L + 16 * n
        OBVIOUS
  <2>6. a.next = P
        BY <2>4, <2>5 DEF SectionIs
  <2>7. ASSUME NEW k \in 1..v
        PROVE  parse_record(bytes, P + 16 * (k - 1), "auth") = Parsed(sent[n + k], "auth", P + 16 * k)
    <3>1. k = 1 /\ v = 1 /\ n = A
          OBVIOUS
    <3>2. PICK j \in 1..N : j = n + 1
          BY <2>1, <3>1
    <3>3. types[j] # T_A
          BY <3>1, <3>2
    <3>4. parse_record(bytes, L + 16 * (j - 1), "auth") = Parsed(sent[j], "auth", L + 16 * j)
          BY <3>3 DEF RecordsOf
    <3>5. L + 16 * (j - 1) = P + 16 * (k - 1) /\ L + 16 * j = P + 16 * k /\ n + k = j
          BY <2>5, <3>1, <3>2
    <3> QED BY <3>4, <3>5
  <2>8. SectionIs(b, bytes, P, v, "auth")
    <3>1. \A k \in 1..v : parse_record(bytes, P + 16 * (k - 1), "auth").next = P + 16 * k
          BY <2>7, ParsedNext
    <3> QED BY <2>2, <2>6, <3>1, SectionFacts
  <2>9. PICK Q \in Nat : Q = P + 16 * v
        BY <2>2
  <2>10. b.next = Q
        BY <2>8, <2>9 DEF SectionIs
  <2>11. ASSUME NEW k \in 1..v
        PROVE  parse_record(bytes, Q + 16 * (k - 1), "addit") = Parsed(sent[n + v + k], "addit", Q + 16 * k)
    <3>1. k = 1 /\ v = 1 /\ n = A
          OBVIOUS
    <3>2. PICK j \in 1..N : j = n + 2
          BY <2>1, <3>1
    <3>3. parse_record(bytes, L + 16 * (j - 1), "addit") = Parsed(sent[j], "addit", L + 16 * j)
          BY DEF RecordsOf
    <3>4. L + 16 * (j - 1) = Q + 16 * (k - 1) /\ L + 16 * j = Q + 16 * k /\ n + v + k = j
          BY <2>5, <2>9, <3>1, <3>2
    <3> QED BY <3>3, <3>4
  <2>12. SectionIs(c, bytes, Q, v, "addit")
    <3>1. \A k \in 1..v : parse_record(bytes, Q + 16 * (k - 1), "addit").next = Q + 16 * k
          BY <2>11, ParsedNext
    <3> QED BY <2>2, <2>10, <3>1, SectionFacts
  <2>13. /\ DOMAIN records = 1..(n + v + v)
         /\ \A i \in 1..n : records[i] = a.records[i]
         /\ \A i \in 1..v : records[n + i] = b.records[i]
         /\ \A i \in 1..v : records[n + v + i] = c.records[i]
    <3>1. PICK T1, T2, T3 : a.records \in Seq(T1) /\ b.records \in Seq(T2) /\ c.records \in Seq(T3)
          BY <2>4, <2>8, <2>12 DEF SectionIs
    <3>2. n = Len(a.records) /\ v = Len(b.records) /\ v = Len(c.records)
          BY <2>4, <2>8, <2>12 DEF SectionIs
    <3>3. PICK x, y, z : x = a.records /\ y = b.records /\ z = c.records
          OBVIOUS
    <3>4. /\ x \in Seq(T1) /\ y \in Seq(T2) /\ z \in Seq(T3) /\ n = Len(x) /\ v = Len(y) /\ v = Len(z)
          /\ records = (x \o y) \o z
          BY <3>1, <3>2, <3>3
    <3>5. Joined(records, x, y, z, n, v, v)
          BY <3>4, ThreeParts
    <3> QED BY <3>3, <3>5 DEF Joined
  <2>14. ASSUME NEW k \in 1..(n + v + v) PROVE ParsedIn(records, sent, n, k)
    <3>1. CASE k <= n
      <4>1. k \in 1..n
            BY <2>2, <3>1
      <4>2. a.records[k] = parse_record(bytes, L + 16 * (k - 1), "answers")
            BY <2>4, <4>1 DEF SectionIs
      <4>3. records[k] = Parsed(sent[k], "answers", L + 16 * k)
            BY <2>3, <2>13, <4>1, <4>2
      <4> QED BY <3>1, <4>3 DEF ParsedIn
    <3>2. CASE n < k /\ k <= n + v
      <4>1. PICK i \in 1..v : k = n + i
            BY <2>2, <3>2
      <4>2. b.records[i] = parse_record(bytes, P + 16 * (i - 1), "auth")
            BY <2>8 DEF SectionIs
      <4>3. records[k] = Parsed(sent[k], "auth", P + 16 * i)
            BY <2>7, <2>13, <4>1, <4>2
      <4>4. ~(k <= n) /\ "auth" # "answers"
            BY <2>2, <3>2
      <4> QED BY <4>3, <4>4 DEF ParsedIn
    <3>3. CASE n + v < k
      <4>1. PICK i \in 1..v : k = n + v + i
            BY <2>2, <3>3
      <4>2. c.records[i] = parse_record(bytes, Q + 16 * (i - 1), "addit")
            BY <2>12 DEF SectionIs
      <4>3. records[k] = Parsed(sent[k], "addit", Q + 16 * i)
            BY <2>11, <2>13, <4>1, <4>2
      <4>4. ~(k <= n) /\ "addit" # "answers"
            BY <2>2, <3>3
      <4> QED BY <4>3, <4>4 DEF ParsedIn
    <3> QED BY <2>2, <3>1, <3>2, <3>3
  <2> QED BY <2>13, <2>14
<1> QED BY <1>b DEF AllParsed

-----------------------------------------------------------------------------
(* A reply, parsed *)

\* What parsing a reply yields: the records that were sent, the address of the
\* name that was asked for, and nothing left over but the aliases.
AsRecord(r) == [name |-> r.name, type |-> r.type, rdata |-> r.rdata]
Unfreed(records) == { k \in DOMAIN records : ~records[k].malloced }
AliasAnswers(m) == { k \in 1..Min({m.ans_count, MAX_RES_RECORD_CNT}) : m.sent[k].type = T_CNAME }

\* What parseDnsResult and its callers make of such a reply.
ParsesWell(m, records, labels) ==
    /\ \A k \in DOMAIN records : AsRecord(records[k]) = m.sent[k]
    /\ FirstIp(m, records) # FAILED => FirstIp(m, records) = Address[labels]
    /\ Unfreed(records) = AliasAnswers(m)
    /\ Min({m.ans_count, MAX_RES_RECORD_CNT}) \in Nat

\* Sections parsed as sent are a reply that parses well.
LEMMA ParsesWellFacts ==
    ASSUME MAX_RES_RECORD_CNT \in Nat \ {0}, NEW m, NEW records, NEW labels,
           NEW bytes, NEW L \in Nat, NEW types, NEW N \in Nat,
           RecordsOf(bytes, m.sent, L, types, N, Address[labels]),
           NEW A \in Nat, m.ans_count = A, NEW n \in Nat, n = Min({A, MAX_RES_RECORD_CNT}), NEW R \in Nat,
           n <= R, R <= N, \A k \in 1..n : types[k] \in {T_A, T_CNAME},
           DOMAIN records = 1..R, \A k \in 1..R : ParsedIn(records, m.sent, n, k)
    PROVE  ParsesWell(m, records, labels)
<1>1. ASSUME NEW k \in 1..R
      PROVE  /\ AsRecord(records[k]) = m.sent[k] /\ m.sent[k].type = types[k]
             /\ types[k] = T_A => records[k].rdata = Address[labels]
             /\ records[k].type = types[k]
             /\ records[k].malloced <=> ~(k <= n) \/ types[k] = T_A
  <2>1. k \in 1..N
        OBVIOUS
  <2>a. PICK s, name, type, rdata : s = m.sent[k] /\ name = s.name /\ type = s.type /\ rdata = s.rdata
        OBVIOUS
  <2>b. /\ m.sent[k].type = types[k]
        /\ m.sent[k] = [name |-> m.sent[k].name, type |-> m.sent[k].type, rdata |-> m.sent[k].rdata]
        /\ types[k] = T_A => m.sent[k].rdata = Address[labels]
        BY <2>1 DEF RecordsOf
  <2>2. /\ s = m.sent[k] /\ s = [name |-> name, type |-> type, rdata |-> rdata]
        /\ name = s.name /\ type = s.type /\ rdata = s.rdata
        /\ type = types[k] /\ (type = T_A => rdata = Address[labels])
        BY <2>a, <2>b
  <2>3. PICK section, next : records[k] = Parsed(m.sent[k], section, next) /\ (k <= n <=> section = "answers")
        BY DEF ParsedIn
  <2>4. records[k] = [name |-> name, type |-> type, malloced |-> Malloced(section, type), rdata |-> rdata, next |-> next]
        BY <2>2, <2>3 DEF Parsed
  <2>5. /\ records[k].name = name /\ records[k].type = type /\ records[k].rdata = rdata
        /\ records[k].malloced = Malloced(section, type)
        BY <2>4
  <2>6. AsRecord(records[k]) = s
        BY <2>2, <2>5 DEF AsRecord
  <2>7. Malloced(section, type) <=> ~(k <= n) \/ type = T_A
        BY <2>3 DEF Malloced
  <2>8. records[k].malloced <=> ~(k <= n) \/ types[k] = T_A
    <3>1. records[k].malloced = Malloced(section, type) /\ type = types[k]
          BY <2>2, <2>5
    <3> QED BY ONLY <2>7, <3>1
  <2>9. AsRecord(records[k]) = m.sent[k] /\ m.sent[k].type = types[k]
        BY <2>2, <2>6
  <2>10. types[k] = T_A => records[k].rdata = Address[labels]
        BY <2>2, <2>5
  <2> QED BY <2>2, <2>5, <2>8, <2>9, <2>10
<1>2. FirstIp(m, records) # FAILED => FirstIp(m, records) = Address[labels]
  <2> SUFFICES ASSUME m.ans_count > 0, records[1].type = T_A PROVE records[1].rdata = Address[labels]
      BY DEF FirstIp
  <2>1. n > 0
        BY MinFacts
  <2>2. 1 \in 1..R
        BY <2>1
  <2> QED BY <1>1, <2>2
<1>3. Unfreed(records) = AliasAnswers(m)
  <2>1. AliasAnswers(m) = { k \in 1..n : m.sent[k].type = T_CNAME }
        BY DEF AliasAnswers
  <2>2. Unfreed(records) = { k \in 1..R : ~records[k].malloced }
        BY DEF Unfreed
  <2>3. T_A # T_CNAME
        BY DEF T_A, T_CNAME
  <2>4. ASSUME NEW k \in 1..R, ~records[k].malloced PROVE k \in 1..n /\ m.sent[k].type = T_CNAME
    <3>1. k <= n /\ types[k] # T_A
          BY <1>1, <2>4
    <3>2. k \in 1..n
          BY <3>1
    <3> QED BY <1>1, <3>1, <3>2
  <2>5. ASSUME NEW k \in 1..n, m.sent[k].type = T_CNAME PROVE k \in 1..R /\ ~records[k].malloced
    <3>1. k \in 1..R /\ k <= n
          OBVIOUS
    <3>2. types[k] # T_A
          BY <1>1, <2>3, <2>5, <3>1
    <3> QED BY <1>1, <3>1, <3>2
  <2> QED BY <2>1, <2>2, <2>4, <2>5
<1> QED BY <1>1, <1>2, <1>3 DEF ParsesWell

\* The sizes of names: every pointer of a reply is within reach.
LEMMA SizeFacts ==
    ASSUME DnsAssumption, NEW labels \in Hosts, NEW off, NEW raw, NEW d,
           Laid(labels, Len(labels), off, raw, d), NEW answers \in Answers
    PROVE  Len(raw) \in Nat /\ Len(answers) \in Nat /\ Len(raw) + 2 * Len(answers) + 2 <= 255
<1>1. IsName(labels) /\ labels # <<>>
      BY DEF DnsAssumption, IsName
<1>2. PICK e \in Nat : e = Len(raw) /\ e = Len(d) /\ d \in Seq(TextBytes)
  <2>1. raw \in Seq(Octets) /\ d \in Seq(TextBytes) /\ Len(raw) = Len(d)
        BY DEF Laid
  <2> QED BY <2>1, LenProperties
<1>3. PICK A \in Nat : A = Len(answers)
  <2>1. answers \in Seq({T_A, T_CNAME})
        BY DEF DnsAssumption
  <2> QED BY <2>1, LenProperties
<1>4. e > 0
  <2>1. PICK N \in Nat : N = Len(labels) /\ N > 0
        BY <1>1, EmptySeq, LenProperties DEF IsName
  <2>2. off[N] = e /\ N <= off[N]
        BY <1>2, <2>1 DEF Laid
  <2> QED BY <2>1, <2>2
<1>5. Len(TextOf(labels)) = e - 1
  <2>1. TextOf(labels) = SubSeq(d, 1, e - 1)
        BY <1>1, <1>2, TextFacts
  <2>2. 1 \in 1..(Len(d) + 1) /\ e - 1 \in (1 - 1)..Len(d) /\ e - 1 - 1 + 1 = e - 1
        BY <1>2, <1>4
  <2>3. Len(SubSeq(d, 1, e - 1)) = e - 1 - 1 + 1
        BY <1>2, <2>2, PartOf
  <2> QED BY <2>1, <2>2, <2>3
<1>6. Len(TextOf(labels)) + 1 + 2 * (Len(answers) + 1) <= 255
      BY DEF DnsAssumption
<1>7. e - 1 + 1 + 2 * (A + 1) <= 255
      BY <1>3, <1>5, <1>6
<1> QED BY <1>2, <1>3, <1>7

-----------------------------------------------------------------------------
(* A reply of the server *)

\* The types of the records of a reply.
Others(v, others) ==
    \/ v = 1 /\ others = <<T_NS, T_A>>
    \/ v = 0 /\ others = <<>>

\* The types of all records.
TypesOk(types, A, v) ==
    /\ types \in Seq(Bytes) /\ Len(types) = A + 2 * v
    /\ \A k \in 1..A : types[k] \in {T_A, T_CNAME}
    /\ v = 1 => types[A + 1] # T_A

\* They are bytes, and the record of the authority section is no address.
LEMMA TypesFacts ==
    ASSUME NEW answers \in Seq({T_A, T_CNAME}), NEW A \in Nat, A = Len(answers), NEW v, NEW others,
           Others(v, others), NEW types, types = answers \o others
    PROVE  TypesOk(types, A, v)
<1>1. T_A \in Bytes /\ T_CNAME \in Bytes /\ T_NS \in Bytes /\ T_NS # T_A
      BY DEF T_A, T_NS, T_CNAME, Bytes
<1>2. answers \in Seq(Bytes)
  <2>1. {T_A, T_CNAME} \subseteq Bytes
        BY <1>1
  <2> QED BY <2>1, SeqMonotonic
<1>4. others \in Seq(Bytes) /\ Len(others) = 2 * v /\ (v = 1 => others[1] = T_NS)
  <2>1. CASE v = 1 /\ others = <<T_NS, T_A>>
        BY <1>1, <2>1
  <2>2. CASE v = 0 /\ others = <<>>
        BY <2>2
  <2> QED BY <2>1, <2>2 DEF Others
<1>5. types = answers \o others
      OBVIOUS
<1>6. /\ answers \o others \in Seq(Bytes) /\ Len(answers \o others) = Len(answers) + Len(others)
      /\ \A i \in 1..Len(answers) : (answers \o others)[i] = answers[i]
      /\ \A i \in 1..Len(others) : (answers \o others)[Len(answers) + i] = others[i]
  <2>1. answers \in Seq(Bytes) /\ others \in Seq(Bytes)
        BY <1>2, <1>4
  <2> QED BY ONLY <2>1, JoinFacts
<1>7. \A k \in 1..A : types[k] \in {T_A, T_CNAME}
  <2> TAKE k \in 1..A
  <2>1. answers[k] \in {T_A, T_CNAME}
        BY ElementOfSeq
  <2> QED BY <1>5, <1>6, <2>1
<1>8. v = 1 => types[A + 1] # T_A
  <2> HAVE v = 1
  <2>1. 1 \in 1..Len(others)
        BY <1>4
  <2> QED BY <1>1, <1>4, <1>5, <1>6, <2>1
<1> QED BY <1>4, <1>5, <1>6, <1>7, <1>8 DEF TypesOk

\* Where the records of a message start.
LEMMA QuestionFacts ==
    ASSUME NEW raw \in Seq(Octets), NEW msg, Asks(msg, raw)
    PROVE  CString(SubSeq(msg, 12 + 1, Len(msg))) = raw
<1>1. PICK r, x \in Nat : r = Len(raw) /\ x = Len(msg) /\ x >= r + 17 /\ msg \in Seq(Bytes)
      BY LenProperties DEF Asks
<1>2. PICK t : t = SubSeq(msg, 13, x)
      OBVIOUS
<1>3. /\ t \in Seq(Bytes) /\ Len(t) = x - 13 + 1
      /\ \A i \in 1..(x - 13 + 1) : t[i] = msg[13 + i - 1]
  <2>1. 13 \in 1..(Len(msg) + 1) /\ x \in (13 - 1)..Len(msg)
        BY <1>1
  <2> QED BY <1>1, <1>2, <2>1, PartOf
<1>4. Len(t) \in Nat /\ Len(raw) < Len(t)
      BY <1>1, <1>3
<1>5. \A i \in 1..Len(raw) : t[i] = raw[i]
  <2> TAKE i \in 1..Len(raw)
  <2>1. i \in 1..(x - 13 + 1) /\ 13 + i - 1 = 12 + i
        BY <1>1
  <2>2. msg[12 + i] = raw[i]
        BY DEF Asks
  <2> QED BY <1>3, <2>1, <2>2
<1>6. t[Len(raw) + 1] = 0
  <2>1. r + 1 \in 1..(x - 13 + 1) /\ 13 + (r + 1) - 1 = 13 + r
        BY <1>1
  <2>2. msg[13 + r] = 0
        BY <1>1 DEF Asks
  <2> QED BY <1>1, <1>3, <2>1, <2>2
<1>7. CString(t) = raw
      BY <1>4, <1>5, <1>6, CStringIs
<1> QED BY <1>1, <1>2, <1>7

\* Pointers reach every record of a reply.
LEMMA RecordsInReach ==
    ASSUME NEW L \in Nat, L <= 270, NEW N \in Nat, N <= 130, NEW k \in 1..N
    PROVE  L + 16 * (k - 1) + 12 \in Reachable
BY DEF Reachable

\* A reply to a query reaches the socket it came from, and parses well.
LEMMA ReplyFacts ==
    ASSUME DnsAssumption, NEW labels \in Hosts, NEW off, NEW raw, NEW d,
           Laid(labels, Len(labels), off, raw, d), NEW q, Asks(q.bytes, raw), Len(q.bytes) = Len(raw) + 17,
           NEW answers \in Answers, NEW referral \in BOOLEAN, referral => Len(answers) <= MAX_RES_RECORD_CNT,
           NEW m, m = Reply(q, answers, referral)
    PROVE  m.to = q.from /\ ParsesWell(m, parseDnsResult(m), labels)
<1>1. IsName(labels) /\ MAX_RES_RECORD_CNT \in Nat \ {0} /\ answers \in Seq({T_A, T_CNAME})
      BY DEF DnsAssumption, IsName
<1>2. LabelsAt(q.bytes, 12) = labels
      BY <1>1, LabelsAtFacts
<1>3. PICK ip : ip = Address[labels]
      OBVIOUS
<1>4. ip \in Seq(Bytes) /\ Len(ip) = 4
  <2>1. ip \in [1..4 -> Bytes] /\ 4 \in Nat
        BY <1>3 DEF DnsAssumption, Bytes
  <2> QED BY <2>1, FunctionIsSeq
<1>5. PICK A, r \in Nat : A = Len(answers) /\ r = Len(raw) /\ r + 2 * A + 2 <= 255
      BY SizeFacts
<1>6. PICK v \in {0, 1} : v = IF referral THEN 1 ELSE 0
      OBVIOUS
<1>a. PICK others : others = IF referral THEN <<T_NS, T_A>> ELSE <<>>
      OBVIOUS
<1>b. Others(v, others)
      BY <1>6, <1>a DEF Others
<1>7. PICK types : types = answers \o others
      OBVIOUS
<1>8. /\ types \in Seq(Bytes) /\ Len(types) = A + 2 * v
      /\ \A k \in 1..A : types[k] \in {T_A, T_CNAME}
      /\ v = 1 => types[A + 1] # T_A
  <2>1. answers \in Seq({T_A, T_CNAME}) /\ A \in Nat /\ A = Len(answers)
        BY <1>1, <1>5
  <2>2. TypesOk(types, A, v)
        BY ONLY <1>7, <1>b, <2>1, TypesFacts
  <2> QED BY <2>2 DEF TypesOk
<1>9. PICK L, N \in Nat : L = r + 17 /\ N = A + 2 * v
      BY <1>5
<1>10. \A k \in 1..N : L + 16 * (k - 1) + 12 \in Reachable
  <2>1. L <= 270 /\ N <= 130
        BY <1>5, <1>9
  <2> QED BY <2>1, RecordsInReach
<1>11. PICK all : all = Appended(Start(q.bytes, labels), types, ip)
      OBVIOUS
<1>12. Extends(all.bytes, q.bytes) /\ RecordsOf(all.bytes, all.sent, L, types, N, ip)
  <2>1. L = Len(q.bytes) /\ N = Len(types)
        BY <1>5, <1>8, <1>9
  <2> QED BY <1>1, <1>4, <1>8, <1>10, <1>11, <2>1, ServedFacts
<1>13. m = [to |-> q.from, bytes |-> all.bytes, ans_count |-> A, auth_count |-> v, add_count |-> v,
            sent |-> all.sent]
      BY <1>2, <1>3, <1>5, <1>6, <1>7, <1>11, <1>a DEF Reply, Start, DNS_HEADER
<1>14. /\ m.to = q.from /\ m.bytes = all.bytes /\ m.ans_count = A /\ m.auth_count = v /\ m.add_count = v
       /\ m.sent = all.sent
      BY <1>13
<1>15. CString(SubSeq(m.bytes, 12 + 1, Len(m.bytes))) = raw
  <2>1. raw \in Seq(Octets)
        BY DEF Laid
  <2>2. Asks(all.bytes, raw)
        BY <1>12, <2>1, AsksExtended
  <2> QED BY <1>14, <2>1, <2>2, QuestionFacts
<1>16. 12 + r + 1 + 4 = L
      BY <1>9
<1>17. PICK records : records = parseDnsResult(m)
      OBVIOUS
<1>18. InSections(records, m.bytes, L, A, v)
  <2>1. 12 + Len(CString(SubSeq(m.bytes, 12 + 1, Len(m.bytes)))) + 1 + 4 = L
        BY <1>5, <1>15, <1>16
  <2>2. DNS_HEADER = 12 /\ QUESTION = 4
        BY DEF DNS_HEADER, QUESTION
  <2>3. PICK a, b, c : /\ a = parse_section(m.bytes, L, A, "answers")
                       /\ b = parse_section(m.bytes, a.next, v, "auth")
                       /\ c = parse_section(m.bytes, b.next, v, "addit")
        OBVIOUS
  <2>4. records = a.records \o b.records \o c.records
        BY <1>14, <1>17, <2>1, <2>2, <2>3 DEF parseDnsResult
  <2> QED BY <2>3, <2>4 DEF InSections
<1>19. PICK n \in Nat : n = Min({A, MAX_RES_RECORD_CNT}) /\ n <= A /\ (v = 1 => n = A)
  <2>1. Min({A, MAX_RES_RECORD_CNT}) = IF A <= MAX_RES_RECORD_CNT THEN A ELSE MAX_RES_RECORD_CNT
        BY <1>1, MinFacts
  <2>2. v = 1 => A <= MAX_RES_RECORD_CNT
        BY <1>5, <1>6
  <2> QED BY <1>1, <2>1, <2>2
<1>20. Counts(A, n, v, N, types)
      BY <1>1, <1>8, <1>9, <1>19 DEF Counts
<1>21. DOMAIN records = 1..(n + v + v) /\ \A k \in 1..(n + v + v) : ParsedIn(records, m.sent, n, k)
  <2>1. RecordsOf(m.bytes, m.sent, L, types, N, ip)
        BY <1>12, <1>14
  <2>2. AllParsed(records, m.sent, n, v)
        BY <1>18, <1>20, <2>1, SectionsFacts
  <2> QED BY <2>2 DEF AllParsed
<1>22. PICK R \in Nat : R = n + v + v /\ n <= R /\ R <= N
      BY <1>9, <1>19
<1>23. ParsesWell(m, records, labels)
  <2>1. RecordsOf(all.bytes, m.sent, L, types, N, Address[labels])
        BY <1>3, <1>12, <1>14
  <2>2. \A k \in 1..n : types[k] \in {T_A, T_CNAME}
    <3> TAKE k \in 1..n
    <3>1. k \in 1..A
          BY <1>19
    <3> QED BY <1>8, <3>1
  <2>3. DOMAIN records = 1..R /\ \A k \in 1..R : ParsedIn(records, m.sent, n, k)
        BY <1>21, <1>22
  <2> QED BY <1>1, <1>14, <1>19, <1>22, <2>1, <2>2, <2>3, ParsesWellFacts
<1> QED BY <1>14, <1>17, <1>23

-----------------------------------------------------------------------------
(* The inductive invariant *)

\* A query for a name, and the caller's buffer once dots were left in it.
AsksFor(bytes, labels) ==
    \E off, raw, d : /\ Laid(labels, Len(labels), off, raw, d)
                     /\ Asks(bytes, raw) /\ Len(bytes) = Len(raw) + 17
Names(text, labels) ==
    \E off, raw, d : Laid(labels, Len(labels), off, raw, d) /\ IsDotted(text, d)

\* A datagram under way, with a look-up for name that waits (w) on socket s, and f
\* sockets opened so far.  One for that socket is about that name.
QueryOk(p, w, s, name, f) ==
    /\ p.from \in 1..f /\ p.asked \in Hosts /\ AsksFor(p.bytes, p.asked)
    /\ w /\ p.from = s => p.asked = name
ReplyOk(p, w, s, name, f) ==
    /\ p.m.to \in 1..f
    /\ \E labels \in Hosts : /\ ParsesWell(p.m, parseDnsResult(p.m), labels)
                             /\ w /\ p.m.to = s => labels = name
DatagramOk(p, w, s, name, f) ==
    \/ p.kind = "query" /\ QueryOk(p, w, s, name, f)
    \/ p.kind = "reply" /\ ReplyOk(p, w, s, name, f)

\* The inductive invariant.
DnsInv ==
    /\ fds \in Nat /\ heap \in Nat /\ cnames \in Nat
    /\ host.labels = <<>> \/ (host.labels \in Hosts /\ Names(host.text, host.labels))
    /\ \A p \in net : DatagramOk(p, pc = "waiting", sock, host.labels, fds)
    /\ ParsedAsSent /\ AddressOfHost /\ OnlyAliasesLeak

\* The hosts are names.
LEMMA HostsAreNames ==
    ASSUME DnsAssumption, NEW labels \in Hosts
    PROVE  IsName(labels) /\ labels # <<>>
BY DEF DnsAssumption, IsName

\* The text a caller copies into its buffer, with the dot of the first call.
LEMMA NamesFirst ==
    ASSUME DnsAssumption, NEW labels \in Hosts
    PROVE  Names(Append(TextOf(labels), DOT), labels)
<1>1. IsName(labels) /\ labels # <<>>
      BY HostsAreNames
<1>2. PICK off, raw, d : Laid(labels, Len(labels), off, raw, d)
      BY <1>1, LaidExists
<1>3. IsDotted(Append(TextOf(labels), DOT), d)
      BY <1>1, <1>2, FirstDot
<1> QED BY <1>2, <1>3 DEF Names

\* The dot of a retry.
LEMMA NamesAgain ==
    ASSUME NEW labels, NEW text, Names(text, labels)
    PROVE  Names(Append(text, DOT), labels)
<1>1. PICK off, raw, d : Laid(labels, Len(labels), off, raw, d) /\ IsDotted(text, d)
      BY DEF Names
<1>2. d \in Seq(TextBytes)
      BY <1>1 DEF Laid
<1>3. IsDotted(Append(text, DOT), d)
      BY <1>1, <1>2, AppendDot
<1> QED BY <1>1, <1>3 DEF Names

\* setupDnsQuery leaves one more dot in the buffer and asks for the name.
LEMMA SetupFacts ==
    ASSUME DnsAssumption, NEW labels \in Hosts, NEW text, Names(Append(text, DOT), labels)
    PROVE  setupDnsQuery(text).host = Append(text, DOT) /\ AsksFor(setupDnsQuery(text).bytes, labels)
<1>1. IsName(labels) /\ labels # <<>>
      BY HostsAreNames
<1>2. PICK off, raw, d : Laid(labels, Len(labels), off, raw, d) /\ IsDotted(Append(text, DOT), d)
      BY DEF Names
<1>3. /\ setupDnsQuery(text).host = Append(text, DOT)
      /\ Asks(setupDnsQuery(text).bytes, raw)
      /\ Len(setupDnsQuery(text).bytes) = Len(raw) + 17
      BY <1>1, <1>2, QueryFacts
<1> QED BY <1>2, <1>3 DEF AsksFor

\* The server reads the name that was asked for.
LEMMA AskedFacts ==
    ASSUME DnsAssumption, NEW labels \in Hosts, NEW bytes, AsksFor(bytes, labels)
    PROVE  LabelsAt(bytes, DNS_HEADER) = labels
<1>1. IsName(labels)
      BY HostsAreNames
<1>2. PICK off, raw, d : Laid(labels, Len(labels), off, raw, d) /\ Asks(bytes, raw)
      BY DEF AsksFor
<1>3. LabelsAt(bytes, 12) = labels
      BY <1>1, <1>2, LabelsAtFacts
<1> QED BY <1>3 DEF DNS_HEADER

\* A look-up starts: what is under way belongs to older sockets.
LEMMA OlderDatagrams ==
    ASSUME NEW p, NEW f \in Nat, NEW w, NEW s, NEW name, NEW w2, NEW name2, DatagramOk(p, w, s, name, f)
    PROVE  DatagramOk(p, w2, f + 1, name2, f + 1)
<1>1. CASE p.kind = "query" /\ QueryOk(p, w, s, name, f)
  <2>1. p.from \in 1..f /\ p.asked \in Hosts /\ AsksFor(p.bytes, p.asked)
        BY <1>1 DEF QueryOk
  <2>2. p.from \in 1..(f + 1) /\ p.from # f + 1
        BY <2>1
  <2> QED BY <1>1, <2>1, <2>2 DEF QueryOk, DatagramOk
<1>2. CASE p.kind = "reply" /\ ReplyOk(p, w, s, name, f)
  <2>1. PICK labels \in Hosts : ParsesWell(p.m, parseDnsResult(p.m), labels)
        BY <1>2 DEF ReplyOk
  <2>2. p.m.to \in 1..(f + 1) /\ p.m.to # f + 1
        BY <1>2 DEF ReplyOk
  <2> QED BY <1>2, <2>1, <2>2 DEF ReplyOk, DatagramOk
<1> QED BY <1>1, <1>2 DEF DatagramOk

\* Nobody waits: any name will do.
LEMMA IdleDatagrams ==
    ASSUME NEW p, NEW f, NEW w, NEW s, NEW s2, NEW name, NEW name2, DatagramOk(p, w, s, name, f)
    PROVE  DatagramOk(p, FALSE, s2, name2, f)
BY DEF DatagramOk, QueryOk, ReplyOk

\* A look-up starts, the first one for a name or a retry.
LEMMA QueryStep ==
    ASSUME DnsAssumption, DnsInv, NEW text, NEW labels \in Hosts, NEW t,
           Names(Append(text, DOT), labels), Query(text, labels, t)
    PROVE  DnsInv'
<1>1. PICK q : q = setupDnsQuery(text)
      OBVIOUS
<1>2. q.host = Append(text, DOT) /\ AsksFor(q.bytes, labels)
      BY <1>1, SetupFacts
<1>3. /\ pc = "idle" /\ host' = [text |-> q.host, labels |-> labels] /\ got' = Nothing
      /\ heap' = heap /\ cnames' = cnames
      BY <1>1 DEF Query
<1>4. host'.labels = labels /\ host'.text = Append(text, DOT)
      BY <1>2, <1>3
<1>5. ParsedAsSent'
      BY <1>3 DEF ParsedAsSent, Nothing
<1>6. OnlyAliasesLeak' /\ heap' \in Nat /\ cnames' \in Nat
      BY <1>3 DEF OnlyAliasesLeak, DnsInv
<1>7. fds \in Nat /\ \A p \in net : DatagramOk(p, pc = "waiting", sock, host.labels, fds)
      BY DEF DnsInv
<1>8. CASE /\ fds' = fds + 1 /\ sock' = fds + 1
           /\ net' = net \cup {[kind |-> "query", from |-> fds + 1, bytes |-> q.bytes, asked |-> labels]}
           /\ pc' = "waiting"
  <2>1. PICK p : p = [kind |-> "query", from |-> fds + 1, bytes |-> q.bytes, asked |-> labels]
        OBVIOUS
  <2>2. p.kind = "query" /\ p.from = fds + 1 /\ p.bytes = q.bytes /\ p.asked = labels
        BY <2>1
  <2>3. fds + 1 \in 1..(fds + 1)
        BY <1>7
  <2>4. DatagramOk(p, pc' = "waiting", fds + 1, labels, fds + 1)
        BY <1>2, <2>2, <2>3 DEF DatagramOk, QueryOk
  <2>5. \A x \in net : DatagramOk(x, pc' = "waiting", fds + 1, labels, fds + 1)
        BY <1>7, OlderDatagrams
  <2>6. \A x \in net' : DatagramOk(x, pc' = "waiting", sock', host'.labels, fds')
        BY <1>4, <1>8, <2>1, <2>4, <2>5
  <2>7. AddressOfHost'
        BY <1>8 DEF AddressOfHost
  <2> QED BY <1>4, <1>5, <1>6, <1>7, <1>8, <2>6, <2>7 DEF DnsInv
<1>9. CASE ret' = FAILED /\ net' = net /\ pc' = pc /\ fds' \in {fds, fds + 1}
  <2>1. AddressOfHost'
        BY <1>9 DEF AddressOfHost
  <2>2. \A x \in net' : DatagramOk(x, pc' = "waiting", sock', host'.labels, fds')
    <3> TAKE x \in net'
    <3>1. DatagramOk(x, pc = "waiting", sock, host.labels, fds)
          BY <1>7, <1>9
    <3>2. DatagramOk(x, pc = "waiting", fds + 1, host.labels, fds + 1)
          BY <1>7, <3>1, OlderDatagrams
    <3>3. DatagramOk(x, FALSE, sock', host'.labels, fds')
          BY <1>9, <3>1, <3>2, IdleDatagrams
    <3>4. (pc' = "waiting") = FALSE
          BY <1>3, <1>9
    <3> QED BY <3>3, <3>4
  <2> QED BY <1>4, <1>5, <1>6, <1>7, <1>9, <2>1, <2>2 DEF DnsInv
<1> QED BY <1>1, <1>8, <1>9 DEF Query, Opened

-----------------------------------------------------------------------------
(* Its steps, and the theorems *)

\* The server answers a query.
LEMMA ServerStep ==
    ASSUME DnsAssumption, DnsInv, ServerReplies
    PROVE  DnsInv'
<1>1. PICK q \in net, answers \in Answers, referral \in BOOLEAN :
        /\ q.kind = "query" /\ (referral => Len(answers) <= MAX_RES_RECORD_CNT)
        /\ net' = (net \ {q}) \cup {[kind |-> "reply", m |-> Reply(q, answers, referral)]}
        /\ UNCHANGED <<pc, host, sock, timeout, fds, got, ret, heap, calls, SEND_CNT, RECV_CNT, cnames>>
      BY DEF ServerReplies
<1>2. \A p \in net : DatagramOk(p, pc = "waiting", sock, host.labels, fds)
      BY DEF DnsInv
<1>3. QueryOk(q, pc = "waiting", sock, host.labels, fds)
      BY <1>1, <1>2 DEF DatagramOk
<1>4. PICK labels \in Hosts : labels = q.asked
      BY <1>3 DEF QueryOk
<1>5. PICK off, raw, d : /\ Laid(labels, Len(labels), off, raw, d)
                         /\ Asks(q.bytes, raw) /\ Len(q.bytes) = Len(raw) + 17
      BY <1>3, <1>4 DEF QueryOk, AsksFor
<1>6. PICK m : m = Reply(q, answers, referral)
      OBVIOUS
<1>7. m.to = q.from /\ ParsesWell(m, parseDnsResult(m), labels)
      BY <1>1, <1>5, <1>6, ReplyFacts
<1>8. PICK p : p = [kind |-> "reply", m |-> m]
      OBVIOUS
<1>9. p.kind = "reply" /\ p.m = m
      BY <1>8
<1>10. ReplyOk(p, pc = "waiting", sock, host.labels, fds)
      BY <1>3, <1>4, <1>7, <1>9 DEF QueryOk, ReplyOk
<1>11. DatagramOk(p, pc = "waiting", sock, host.labels, fds)
      BY <1>9, <1>10 DEF DatagramOk
<1>12. \A x \in net' : DatagramOk(x, pc = "waiting", sock, host.labels, fds)
      BY <1>1, <1>2, <1>6, <1>8, <1>11
<1>13. \A x \in net' : DatagramOk(x, pc' = "waiting", sock', host'.labels, fds')
      BY <1>1, <1>12
<1>14. ParsedAsSent' /\ AddressOfHost' /\ OnlyAliasesLeak'
      BY <1>1 DEF DnsInv, ParsedAsSent, AddressOfHost, OnlyAliasesLeak
<1> QED BY <1>1, <1>13, <1>14 DEF DnsInv

\* The reply to this look-up arrives.
LEMMA ReceiveStep ==
    ASSUME DnsAssumption, DnsInv, Receive
    PROVE  DnsInv'
<1>1. PICK p \in net :
        /\ pc = "waiting" /\ p.kind = "reply" /\ p.m.to = sock
        /\ net' = net \ {p}
        /\ got' = [parsed |-> [k \in DOMAIN parseDnsResult(p.m) |->
                                 [name |-> parseDnsResult(p.m)[k].name, type |-> parseDnsResult(p.m)[k].type,
                                  rdata |-> parseDnsResult(p.m)[k].rdata]],
                   sent |-> p.m.sent]
        /\ ret' = FirstIp(p.m, parseDnsResult(p.m))
        /\ heap' = heap + clearParseResult(parseDnsResult(p.m))
        /\ cnames' = cnames + Cardinality({ k \in 1..Min({p.m.ans_count, MAX_RES_RECORD_CNT}) :
                                              p.m.sent[k].type = T_CNAME })
        /\ pc' = "idle" /\ UNCHANGED <<host, sock, fds>>
      BY DEF Receive, Use
<1>2. PICK m, records : m = p.m /\ records = parseDnsResult(p.m)
      OBVIOUS
<1>3. \A x \in net : DatagramOk(x, pc = "waiting", sock, host.labels, fds)
      BY DEF DnsInv
<1>4. ReplyOk(p, pc = "waiting", sock, host.labels, fds)
      BY <1>1, <1>3 DEF DatagramOk
<1>5. ParsesWell(m, records, host.labels)
      BY <1>1, <1>2, <1>4 DEF ReplyOk
<1>6. got'.parsed = [k \in DOMAIN records |-> AsRecord(records[k])] /\ got'.sent = m.sent
      BY <1>1, <1>2 DEF AsRecord
<1>7. ParsedAsSent'
      BY <1>5, <1>6 DEF ParsedAsSent, ParsesWell
<1>8. AddressOfHost'
      BY <1>1, <1>2, <1>5 DEF AddressOfHost, ParsesWell
<1>9. PICK c \in Nat : c = Cardinality(AliasAnswers(m))
  <2>1. PICK n \in Nat : n = Min({m.ans_count, MAX_RES_RECORD_CNT})
        BY <1>5 DEF ParsesWell
  <2>2. IsFiniteSet(1..n)
        BY <2>1, FS_Interval
  <2>3. AliasAnswers(m) \subseteq 1..n
        BY <2>1 DEF AliasAnswers
  <2>4. IsFiniteSet(AliasAnswers(m))
        BY <2>2, <2>3, FS_Subset
  <2> QED BY <2>4, FS_CardinalityType
<1>10. heap' = heap + 2 * c
  <2>1. clearParseResult(records) = 2 * Cardinality(Unfreed(records))
        BY DEF clearParseResult, Unfreed
  <2>2. Unfreed(records) = AliasAnswers(m)
        BY <1>5 DEF ParsesWell
  <2> QED BY <1>1, <1>2, <1>9, <2>1, <2>2
<1>11. cnames' = cnames + c
      BY <1>1, <1>2, <1>9 DEF AliasAnswers
<1>12. heap \in Nat /\ cnames \in Nat /\ heap = 2 * cnames
      BY DEF DnsInv, OnlyAliasesLeak
<1>13. heap' \in Nat /\ cnames' \in Nat /\ heap' = 2 * cnames'
      BY <1>10, <1>11, <1>12
<1>14. OnlyAliasesLeak'
      BY <1>13 DEF OnlyAliasesLeak
<1>15. \A x \in net' : DatagramOk(x, pc' = "waiting", sock', host'.labels, fds')
  <2> TAKE x \in net'
  <2>1. DatagramOk(x, pc = "waiting", sock, host.labels, fds)
        BY <1>1, <1>3
  <2>2. DatagramOk(x, FALSE, sock', host'.labels, fds)
        BY <2>1, IdleDatagrams
  <2>3. (pc' = "waiting") = FALSE /\ fds' = fds
        BY <1>1
  <2> QED BY <2>2, <2>3
<1> QED BY <1>1, <1>7, <1>8, <1>13, <1>14, <1>15 DEF DnsInv

\* The wait is over without one.
LEMMA TimeoutStep ==
    ASSUME DnsInv, Timeout
    PROVE  DnsInv'
<1>1. /\ pc' = "idle" /\ ret' = FAILED /\ host' = host /\ sock' = sock /\ fds' = fds /\ net' = net
      /\ got' = got /\ heap' = heap /\ cnames' = cnames
      BY DEF Timeout
<1>2. \A x \in net' : DatagramOk(x, pc' = "waiting", sock', host'.labels, fds')
  <2> TAKE x \in net'
  <2>1. DatagramOk(x, pc = "waiting", sock, host.labels, fds)
        BY <1>1 DEF DnsInv
  <2>2. DatagramOk(x, FALSE, sock', host'.labels, fds)
        BY <2>1, IdleDatagrams
  <2>3. (pc' = "waiting") = FALSE /\ fds' = fds
        BY <1>1
  <2> QED BY <2>2, <2>3
<1>3. ParsedAsSent' /\ AddressOfHost' /\ OnlyAliasesLeak'
      BY <1>1 DEF DnsInv, ParsedAsSent, AddressOfHost, OnlyAliasesLeak
<1> QED BY <1>1, <1>2, <1>3 DEF DnsInv

\* Every step keeps the invariant.
LEMMA DnsStep ==
    ASSUME DnsAssumption, DnsInv, [DnsNext]_dvars
    PROVE  DnsInv'
<1>1. ASSUME NEW labels \in Hosts, NEW t, getHostFirstIpByNameTimeOut(labels, t) PROVE DnsInv'
  <2>1. Names(Append(TextOf(labels), DOT), labels)
        BY NamesFirst
  <2>2. Query(TextOf(labels), labels, t)
        BY <1>1 DEF getHostFirstIpByNameTimeOut
  <2> QED BY <2>1, <2>2, QueryStep
<1>2. ASSUME NEW t, Retry(t) PROVE DnsInv'
  <2>1. host.labels # <<>> /\ Query(host.text, host.labels, t)
        BY <1>2 DEF Retry
  <2>2. host.labels \in Hosts /\ Names(host.text, host.labels)
        BY <2>1 DEF DnsInv
  <2>3. Names(Append(host.text, DOT), host.labels)
        BY <2>2, NamesAgain
  <2> QED BY <2>1, <2>2, <2>3, QueryStep
<1>3. CASE UNCHANGED dvars
      BY <1>3 DEF dvars, DnsInv, ParsedAsSent, AddressOfHost, OnlyAliasesLeak
<1> QED BY <1>1, <1>2, <1>3, ServerStep, ReceiveStep, TimeoutStep DEF DnsNext

\* The invariant holds before the first look-up.
LEMMA DnsStart == DnsInit => DnsInv
<1> SUFFICES ASSUME DnsInit PROVE DnsInv
    OBVIOUS
<1>1. host.labels = <<>> /\ fds = 0 /\ heap = 0 /\ cnames = 0 /\ net = {} /\ ret = FAILED /\ got = Nothing
      BY DEF DnsInit
<1>2. ParsedAsSent
      BY <1>1 DEF ParsedAsSent, Nothing
<1>3. AddressOfHost /\ OnlyAliasesLeak
      BY <1>1 DEF AddressOfHost, OnlyAliasesLeak
<1> QED BY <1>1, <1>2, <1>3 DEF DnsInv

\* The invariant: what is under way to the socket of the running look-up is about
\* its name, queries ask for their name and replies parse as they were sent.
THEOREM DnsInvariant == ASSUME DnsAssumption PROVE DnsSpec => []DnsInv
<1>1. DnsInit => DnsInv
      BY DnsStart
<1>2. DnsInv /\ [DnsNext]_dvars => DnsInv'
      BY DnsStep
<1> QED BY <1>1, <1>2, PTL DEF DnsSpec

\* Every query on its way, whatever the number of retries before it and of the
\* dots ChangetoDnsNameFormat left in the buffer, is read by the name server as
\* the name the caller asked for.
THEOREM QueriesAskForHost == ASSUME DnsAssumption PROVE DnsSpec => []QueryAsksForHost
<1>1. DnsInv => QueryAsksForHost
  <2> SUFFICES ASSUME DnsInv, NEW q \in net, q.kind = "query"
               PROVE  LabelsAt(q.bytes, DNS_HEADER) = q.asked
      BY DEF QueryAsksForHost
  <2>1. DatagramOk(q, pc = "waiting", sock, host.labels, fds)
        BY DEF DnsInv
  <2>2. q.asked \in Hosts /\ AsksFor(q.bytes, q.asked)
        BY <2>1 DEF DatagramOk, QueryOk
  <2> QED BY <2>2, AskedFacts
<1> QED BY <1>1, DnsInvariant, PTL

\* parseDnsResult reads the records of every reply as the server sent them,
\* through chains of aliases and compressed names of any length that fits the
\* 255 bytes of ReadName.
THEOREM RepliesParsedAsSent == ASSUME DnsAssumption PROVE DnsSpec => []ParsedAsSent
<1>1. DnsInv => ParsedAsSent
      BY DEF DnsInv
<1> QED BY <1>1, DnsInvariant, PTL

\* An address a look-up returns is the address of its host: replies to earlier
\* look-ups that timed out are never taken for it, though no id is compared.
THEOREM AddressesOfHost == ASSUME DnsAssumption PROVE DnsSpec => []AddressOfHost
<1>1. DnsInv => AddressOfHost
      BY DEF DnsInv
<1> QED BY <1>1, DnsInvariant, PTL

\* What clearParseResult leaves allocated is the name and the data of each CNAME
\* answer that was read, and nothing else.
THEOREM AliasesAreTheLeak == ASSUME DnsAssumption PROVE DnsSpec => []OnlyAliasesLeak
<1>1. DnsInv => OnlyAliasesLeak
      BY DEF DnsInv
<1> QED BY <1>1, DnsInvariant, PTL
=============================================================================
