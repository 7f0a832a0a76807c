----------------------------- MODULE FortProofs -----------------------------
(***************************************************************************)
(* Proofs about libfort.                                                    *)
(*                                                                          *)
(* The vectors, for any items and any capacities.                           *)
(*                                                                          *)
(* The properties, for any tables, cells, properties and values.  A table   *)
(* has at most one record for a row and a column (Unique), so that a        *)
(* look-up finds what a setter wrote.                                       *)
(*                                                                          *)
(* The tables, for any texts, formats and sizes: that appending leaves no   *)
(* uninitialised cell in a row, because the cursor never stands beyond the  *)
(* end of its row (Whole), and that the table the daemons fill is the       *)
(* report they mean, because the row at the cursor is always empty          *)
(* (Filled).  Each call is shown to keep the invariant in all its outcomes, *)
(* the ones that find no memory for an item half way included; the failed   *)
(* growth of a vector is the end of the table (LostIsLast).                 *)
(*                                                                          *)
(* The tables that are edited: that erasing takes a row and its separator   *)
(* together (Swept is the invariant of the loop), in every table that calls *)
(* can leave, wherever the cursor stands (LooseTables).                     *)
(***************************************************************************)
EXTENDS FortTable, FortVector, FortProps, FunctionTheorems, FiniteSetTheorems, SequenceTheorems,
        WellFoundedInduction, TLAPS

Slots == Items \cup {Unset}
Block(capacity) == [0..(capacity - 1) -> Slots]
Blocks == {NULL} \cup UNION {Block(c) : c \in 1..MaxCapacity}
Vectors == [m_size : Nat, m_capacity : Nat, m_data : Blocks]

\* A vector: the record and RoomForItems' part of it.
Good(v) == v \in Vectors /\ IsVector(v)

VGood == Good(vec) /\ Good(part)

\* The inductive invariant of the vectors.
VInv == VGood /\ fault \in BOOLEAN /\ (fault => NULL \in {vec.m_data, part.m_data})

-----------------------------------------------------------------------------
(* Vectors and their contents *)

\* The block of a vector that has one.
LEMMA BlockOf ==
    ASSUME NEW v, Good(v), v.m_data # NULL
    PROVE  v.m_data \in Block(v.m_capacity)
BY DEF Good, IsVector, Block, Slots

\* A vector with new fields.
LEMMA MakeGood ==
    ASSUME NEW v \in Vectors, NEW c \in 1..MaxCapacity, NEW s \in 0..c,
           NEW d, d = NULL \/ d \in Block(c)
    PROVE  /\ Good([v EXCEPT !.m_capacity = c, !.m_size = s, !.m_data = d])
           /\ v.m_capacity = c => Good([v EXCEPT !.m_size = s, !.m_data = d])
           /\ v.m_size = s => Good([v EXCEPT !.m_capacity = c, !.m_data = d])
<1>1. d \in Blocks
      BY DEF Blocks
<1>2. s \in Nat /\ c \in Nat
      OBVIOUS
<1>3. ASSUME NEW w \in Vectors, w.m_capacity = c, w.m_size = s, w.m_data = d
      PROVE  Good(w)
      BY <1>3 DEF Good, IsVector, Block, Slots
<1>4. /\ [v EXCEPT !.m_capacity = c, !.m_size = s, !.m_data = d] \in Vectors
      /\ [v EXCEPT !.m_size = s, !.m_data = d] \in Vectors
      /\ [v EXCEPT !.m_capacity = c, !.m_data = d] \in Vectors
      BY <1>1, <1>2 DEF Vectors
<1> QED BY <1>3, <1>4 DEF Vectors

\* What is in a vector.
LEMMA ContentFacts ==
    ASSUME NEW v, Good(v)
    PROVE  /\ Content(v) \in Seq(Slots)
           /\ Len(Content(v)) = v.m_size
           /\ v.m_size \in Nat
           /\ v.m_data # NULL => \A i \in 1..v.m_size : Content(v)[i] = v.m_data[i - 1]
           /\ v.m_data = NULL => \A i \in 1..v.m_size : Content(v)[i] = Unset
<1>1. v.m_size \in Nat /\ v.m_size <= v.m_capacity /\ v.m_capacity \in Nat
      BY DEF Good, IsVector
<1>2. \A i \in 1..v.m_size : Content(v)[i] = IF v.m_data = NULL THEN Unset ELSE v.m_data[i - 1]
      BY DEF Content
<1>3. \A i \in 1..v.m_size : Content(v)[i] \in Slots
  <2>1. CASE v.m_data = NULL
        BY <1>2, <2>1 DEF Slots
  <2>2. CASE v.m_data # NULL
        BY <1>1, <1>2, <2>2, BlockOf DEF Block
  <2> QED BY <2>1, <2>2
<1>4. Content(v) = [i \in 1..v.m_size |-> Content(v)[i]]
      BY DEF Content
<1>5. Content(v) \in [1..v.m_size -> Slots]
      BY <1>3, <1>4
<1>6. Content(v) \in Seq(Slots)
      BY <1>1, <1>5, SeqDef
<1>7. Len(Content(v)) = v.m_size
      BY <1>1, <1>5, <1>6
<1> QED BY <1>1, <1>2, <1>6, <1>7

\* Two sequences of slots with the same items are the same.
LEMMA ContentIs ==
    ASSUME NEW v, Good(v), NEW s \in Seq(Slots), Len(s) = v.m_size,
           \A i \in 1..v.m_size : Content(v)[i] = s[i]
    PROVE  Content(v) = s
BY ContentFacts, SeqEqual

\* Growing a vector leaves its items, or the loss of them, alone.
LEMMA RoomFacts ==
    ASSUME VectorAssumption, NEW v, Good(v), NEW n \in Nat, NEW growth \in Nat,
           v.m_capacity < n => growth >= n /\ growth <= MaxCapacity
    PROVE  LET w == WithRoom(v, n, growth)
           IN  /\ Good(w)
               /\ w.m_capacity >= n
               /\ w.m_capacity \in {v.m_capacity, growth}
               /\ w.m_size = v.m_size
               /\ Content(w) = Content(v)
               /\ w.m_data = NULL => v.m_data = NULL
<1>1. CASE v.m_capacity >= n
      BY <1>1 DEF WithRoom, Good, IsVector
<1>2. CASE v.m_capacity < n
  <2> DEFINE d == [i \in 0..(growth - 1) |-> IF v.m_data # NULL /\ i < v.m_capacity
                                            THEN v.m_data[i] ELSE Unset]
             w == [v EXCEPT !.m_capacity = growth, !.m_data = d]
  <2>1. WithRoom(v, n, growth) = w
        BY <1>2 DEF WithRoom, vector_reallocate_, Good, IsVector
  <2>2. /\ growth \in 1..MaxCapacity /\ growth >= n /\ v.m_capacity < growth
        /\ v.m_capacity \in Nat
        /\ v.m_size \in 0..growth /\ v.m_size <= v.m_capacity /\ v.m_size \in Nat
        BY <1>2 DEF Good, IsVector, VectorAssumption
  <2>3. d \in Block(growth)
    <3>1. ASSUME NEW i \in 0..(growth - 1) PROVE d[i] \in Slots
      <4>1. CASE v.m_data # NULL /\ i < v.m_capacity
            BY <2>2, <4>1, BlockOf DEF Block
      <4> QED BY <4>1 DEF Slots
    <3> QED BY <3>1 DEF Block
  <2>4. d # NULL
        BY <2>2, <2>3 DEF VectorAssumption, Block, Slots
  <2>5. w.m_capacity = growth /\ w.m_size = v.m_size /\ w.m_data = d
        BY DEF Good, Vectors
  <2>6. Good(w)
        BY <2>2, <2>3, MakeGood DEF Good
  <2>7. \A i \in 1..v.m_size : d[i - 1] = IF v.m_data # NULL THEN v.m_data[i - 1] ELSE Unset
        BY <2>2
  <2> HIDE DEF w, d
  <2>8. \A i \in 1..v.m_size : Content(w)[i] = Content(v)[i]
        BY <2>4, <2>5, <2>6, <2>7, ContentFacts
  <2>9. Content(w) = Content(v)
        BY <2>5, <2>6, <2>8, ContentFacts, ContentIs
  <2> QED BY <2>1, <2>2, <2>4, <2>5, <2>6, <2>9
<1>3. v.m_capacity \in Nat
      BY DEF Good, IsVector
<1> QED BY <1>1, <1>2, <1>3

\* A block is not NULL.
LEMMA BlockIsNotNull ==
    ASSUME VectorAssumption, NEW c \in 0..MaxCapacity, NEW d \in Block(c)
    PROVE  d # NULL
BY DEF VectorAssumption, Block, Slots

\* memcpy and memmove inside a block.
LEMMA CopyFacts ==
    ASSUME NEW c \in Nat, NEW d \in Block(c), NEW to \in Nat, NEW from \in Nat, NEW len \in Nat,
           NEW src, \A j \in from..(from + len - 1) : src[j] \in Slots
    PROVE  /\ Copied(d, to, src, from, len) \in Block(c)
           /\ \A i \in 0..(c - 1) :
                Copied(d, to, src, from, len)[i]
                  = IF to <= i /\ i < to + len THEN src[from + i - to] ELSE d[i]
<1>1. DOMAIN d = 0..(c - 1)
      BY DEF Block
<1>2. \A i \in 0..(c - 1) :
        Copied(d, to, src, from, len)[i]
          = IF to <= i /\ i < to + len THEN src[from + i - to] ELSE d[i]
      BY <1>1 DEF Copied
<1>3. ASSUME NEW i \in 0..(c - 1) PROVE Copied(d, to, src, from, len)[i] \in Slots
  <2>1. CASE to <= i /\ i < to + len
    <3>1. from + i - to \in from..(from + len - 1)
          BY <2>1
    <3> QED BY <1>2, <2>1, <3>1
  <2>2. CASE ~(to <= i /\ i < to + len)
        BY <1>2, <2>2 DEF Block
  <2> QED BY <2>1, <2>2
<1>4. Copied(d, to, src, from, len) = [i \in 0..(c - 1) |-> Copied(d, to, src, from, len)[i]]
      BY <1>1 DEF Copied
<1> QED BY <1>2, <1>3, <1>4 DEF Block

\* A store inside the block.
LEMMA StoreFacts ==
    ASSUME VectorAssumption, NEW v, Good(v), v.m_data # NULL,
           NEW pos \in 0..(v.m_capacity - 1), NEW x \in Slots, NEW size \in 0..v.m_capacity
    PROVE  LET w == Stored(v, pos, x, size)
           IN  /\ Good(w) /\ w.m_size = size /\ w.m_data # NULL
               /\ \A i \in 0..(v.m_capacity - 1) :
                    w.m_data[i] = IF i = pos THEN x ELSE v.m_data[i]
<1> DEFINE d == [v.m_data EXCEPT ![pos] = x]
           w == [v EXCEPT !.m_size = size, !.m_data = d]
           c == v.m_capacity
<1>1. Stored(v, pos, x, size) = w
      BY DEF Stored, Good, Vectors
<1>2. v.m_data \in Block(c) /\ c \in 1..MaxCapacity /\ c \in 0..MaxCapacity
      BY BlockOf DEF Good, IsVector, VectorAssumption
<1>3. d \in Block(c) /\ \A i \in 0..(c - 1) : d[i] = IF i = pos THEN x ELSE v.m_data[i]
      BY <1>2 DEF Block
<1>4. d # NULL
      BY <1>2, <1>3, BlockIsNotNull
<1>5. w.m_size = size /\ w.m_data = d
      BY DEF Good, Vectors
<1>6. Good(w)
      BY <1>2, <1>3, MakeGood DEF Good
<1> QED BY <1>1, <1>3, <1>4, <1>5, <1>6

\* The same for a block that was copied into.
Moved(v, d, size) == [v EXCEPT !.m_data = d, !.m_size = size]

LEMMA MovedFacts ==
    ASSUME VectorAssumption, NEW v, Good(v), NEW d \in Block(v.m_capacity),
           NEW size \in 0..v.m_capacity
    PROVE  LET w == Moved(v, d, size)
           IN  /\ Good(w) /\ w.m_size = size /\ w.m_data = d /\ w.m_data # NULL
               /\ w.m_capacity = v.m_capacity
<1> DEFINE w == [v EXCEPT !.m_data = d, !.m_size = size]
<1>1. v.m_capacity \in 1..MaxCapacity /\ v.m_capacity \in 0..MaxCapacity /\ v \in Vectors
      BY DEF Good, IsVector, VectorAssumption
<1>2. w = [v EXCEPT !.m_size = size, !.m_data = d]
      BY <1>1 DEF Vectors
<1>3. Good(w)
  <2>1. Good([v EXCEPT !.m_size = size, !.m_data = d])
        BY <1>1, MakeGood
  <2> HIDE DEF w
  <2> QED BY <1>2, <2>1
<1>4. w.m_size = size /\ w.m_data = d /\ w.m_capacity = v.m_capacity
      BY <1>1 DEF Vectors
<1>5. d # NULL
      BY <1>1, BlockIsNotNull
<1>6. Moved(v, d, size) = w
      BY DEF Moved
<1> HIDE DEF w
<1> QED BY <1>3, <1>4, <1>5, <1>6

\* A vector that only forgets items.
LEMMA ResizeFacts ==
    ASSUME NEW v, Good(v), NEW size \in 0..v.m_capacity
    PROVE  LET w == [v EXCEPT !.m_size = size]
           IN  Good(w) /\ w.m_size = size /\ w.m_data = v.m_data
<1> DEFINE w == [v EXCEPT !.m_size = size]
<1>1. v \in Vectors /\ size \in Nat /\ v.m_capacity \in 1..MaxCapacity
      BY DEF Good, IsVector
<1>2. /\ w \in Vectors /\ w.m_size = size /\ w.m_data = v.m_data
      /\ w.m_capacity = v.m_capacity
      BY <1>1 DEF Vectors
<1> HIDE DEF w
<1>3. Good(w)
      BY <1>1, <1>2 DEF Good, IsVector
<1> QED BY <1>2, <1>3 DEF w

\* A new vector.
LEMMA CreateFacts ==
    ASSUME NEW c \in 1..MaxCapacity, MaxCapacity \in Nat
    PROVE  LET w == create_vector(c)
           IN  Good(w) /\ w.m_size = 0 /\ w.m_capacity = c /\ w.m_data \in Block(c)
<1> DEFINE d == [i \in 0..(c - 1) |-> Unset]
           w == create_vector(c)
<1>1. d \in Block(c)
      BY DEF Block, Slots
<1>2. w = [m_size |-> 0, m_capacity |-> c, m_data |-> d]
      BY DEF create_vector
<1>3. d \in Blocks
      BY <1>1 DEF Blocks
<1> HIDE DEF d, w
<1>4. w \in Vectors /\ w.m_size = 0 /\ w.m_capacity = c /\ w.m_data = d
      BY <1>2, <1>3 DEF Vectors
<1>5. Good(w)
      BY <1>1, <1>4 DEF Good, IsVector, Block, Slots
<1> QED BY <1>1, <1>4, <1>5 DEF w

-----------------------------------------------------------------------------
(* The operators on sequences that FortSeq uses, item by item *)

\* A part of a sequence.
LEMMA PartFacts ==
    ASSUME NEW S, NEW s \in Seq(S), NEW m \in 1..(Len(s) + 1), NEW n \in (m - 1)..Len(s)
    PROVE  /\ SubSeq(s, m, n) \in Seq(S)
           /\ Len(SubSeq(s, m, n)) = n - m + 1
           /\ \A i \in 1..(n - m + 1) : SubSeq(s, m, n)[i] = s[m + i - 1]
<1>1. Len(s) \in Nat
      BY LenProperties
<1>2. m \in Int /\ n \in Int
      BY <1>1
<1>3. \A i \in m..n : s[i] \in S
      BY <1>1, ElementOfSeq
<1>4. /\ SubSeq(s, m, n) \in Seq(S)
      /\ Len(SubSeq(s, m, n)) = IF m <= n THEN n - m + 1 ELSE 0
      /\ \A i \in 1..(n - m + 1) : SubSeq(s, m, n)[i] = s[m + i - 1]
      BY <1>2, <1>3, SubSeqProperties
<1> QED BY <1>1, <1>2, <1>4

\* Three sequences in a row.
LEMMA ThreeFacts ==
    ASSUME NEW S, NEW a \in Seq(S), NEW b \in Seq(S), NEW c \in Seq(S)
    PROVE  /\ a \o b \o c \in Seq(S)
           /\ Len(a \o b \o c) = Len(a) + Len(b) + Len(c)
           /\ \A i \in 1..(Len(a) + Len(b) + Len(c)) :
                (a \o b \o c)[i] = IF i <= Len(a) THEN a[i]
                                   ELSE IF i <= Len(a) + Len(b) THEN b[i - Len(a)]
                                   ELSE c[i - (Len(a) + Len(b))]
<1>1. Len(a) \in Nat /\ Len(b) \in Nat /\ Len(c) \in Nat
      BY LenProperties
<1>2. /\ a \o b \in Seq(S) /\ Len(a \o b) = Len(a) + Len(b)
      /\ \A i \in 1..(Len(a) + Len(b)) :
           (a \o b)[i] = IF i <= Len(a) THEN a[i] ELSE b[i - Len(a)]
      BY ConcatProperties
<1>3. /\ (a \o b) \o c \in Seq(S) /\ Len((a \o b) \o c) = Len(a \o b) + Len(c)
      /\ \A i \in 1..(Len(a \o b) + Len(c)) :
           ((a \o b) \o c)[i] = IF i <= Len(a \o b) THEN (a \o b)[i] ELSE c[i - Len(a \o b)]
      BY <1>2, ConcatProperties
<1> QED BY <1>1, <1>2, <1>3

\* Four sequences in a row.
LEMMA FourFacts ==
    ASSUME NEW S, NEW a \in Seq(S), NEW b \in Seq(S), NEW c \in Seq(S), NEW d \in Seq(S)
    PROVE  LET x == Len(a)
               y == Len(a) + Len(b)
               z == Len(a) + Len(b) + Len(c)
           IN  /\ a \o b \o c \o d \in Seq(S)
               /\ Len(a \o b \o c \o d) = z + Len(d)
               /\ \A i \in 1..(z + Len(d)) :
                    (a \o b \o c \o d)[i] = IF i <= x THEN a[i]
                                            ELSE IF i <= y THEN b[i - x]
                                            ELSE IF i <= z THEN c[i - y]
                                            ELSE d[i - z]
<1> DEFINE abc == a \o b \o c
           x == Len(a)
           y == Len(a) + Len(b)
           z == Len(a) + Len(b) + Len(c)
           r == abc \o d
<1>1. Len(a) \in Nat /\ Len(b) \in Nat /\ Len(c) \in Nat /\ Len(d) \in Nat
      BY LenProperties
<1>2. /\ abc \in Seq(S) /\ Len(abc) = z
      /\ \A i \in 1..z : abc[i] = IF i <= x THEN a[i] ELSE IF i <= y THEN b[i - x] ELSE c[i - y]
      BY ThreeFacts
<1> HIDE DEF abc
<1>3. /\ r \in Seq(S) /\ Len(r) = Len(abc) + Len(d)
      /\ \A i \in 1..(Len(abc) + Len(d)) : r[i] = IF i <= Len(abc) THEN abc[i] ELSE d[i - Len(abc)]
  <2>1. abc \in Seq(S)
        BY <1>2
  <2> QED BY <2>1, ConcatProperties
<1> HIDE DEF r
<1>4. x \in Nat /\ y \in Nat /\ z \in Nat /\ x <= y /\ y <= z
      BY <1>1
<1> HIDE DEF x, y, z
<1>5. ASSUME NEW i \in 1..(z + Len(d))
      PROVE  r[i] = IF i <= x THEN a[i] ELSE IF i <= y THEN b[i - x]
                    ELSE IF i <= z THEN c[i - y] ELSE d[i - z]
  <2>1. r[i] = IF i <= z THEN abc[i] ELSE d[i - z]
        BY <1>2, <1>3
  <2>2. CASE i <= z
    <3>1. i \in 1..z
          BY <1>1, <1>4, <2>2
    <3> QED BY <1>2, <2>1, <2>2, <3>1
  <2>3. CASE ~(i <= z)
    <3>1. ~(i <= x) /\ ~(i <= y)
          BY <1>1, <1>4, <2>3
    <3> QED BY <2>1, <2>3, <3>1
  <2> QED BY <2>2, <2>3
<1> QED BY <1>2, <1>3, <1>5 DEF r, abc, x, y, z

\* The lesser and the greater of two numbers.
Lesser(a, b) == IF a <= b THEN a ELSE b
Greater(a, b) == IF a < b THEN b ELSE a

LEMMA MinFacts ==
    ASSUME NEW a \in Nat, NEW b \in Nat
    PROVE  Abstract!Min({a, b}) = Lesser(a, b)
<1> DEFINE P(x) == x \in {a, b} /\ \A y \in {a, b} : x <= y
           m == IF a <= b THEN a ELSE b
<1>1. P(m)
      OBVIOUS
<1>2. \A x : P(x) => x = m
      OBVIOUS
<1>3. Abstract!Min({a, b}) = CHOOSE x : P(x)
      BY DEF Abstract!Min
<1> HIDE DEF m
<1>4. P(CHOOSE x : P(x))
      BY <1>1
<1> QED BY <1>2, <1>3, <1>4 DEF m, Lesser

\* A function on 1..m is a sequence.
LEMMA FunctionFacts ==
    ASSUME NEW S, NEW m \in Nat, NEW f \in [1..m -> S]
    PROVE  f \in Seq(S) /\ Len(f) = m
<1>1. f \in Seq(S)
      BY SeqDef
<1> QED BY <1>1

\* One item as a sequence.
LEMMA OneFacts ==
    ASSUME NEW S, NEW x \in S
    PROVE  <<x>> \in Seq(S) /\ Len(<<x>>) = 1 /\ <<x>>[1] = x
OBVIOUS

\* InsertAt, item by item.
LEMMA InsertAtFacts ==
    ASSUME NEW S, NEW s \in Seq(S), NEW k \in 1..(Len(s) + 1), NEW x \in S
    PROVE  /\ Abstract!InsertAt(s, k, x) \in Seq(S)
           /\ Len(Abstract!InsertAt(s, k, x)) = Len(s) + 1
           /\ \A i \in 1..(Len(s) + 1) :
                Abstract!InsertAt(s, k, x)[i]
                  = IF i < k THEN s[i] ELSE IF i = k THEN x ELSE s[i - 1]
<1> DEFINE a == SubSeq(s, 1, k - 1)
           b == SubSeq(s, k, Len(s))
           o == <<x>>
           r == a \o o \o b
           n == Len(s)
<1>1. n \in Nat /\ k \in Nat
      BY LenProperties
<1>2. /\ 1 \in 1..(n + 1) /\ k - 1 \in (1 - 1)..n
      /\ k \in 1..(n + 1) /\ n \in (k - 1)..n
      BY <1>1
<1>3. /\ a \in Seq(S) /\ Len(a) = (k - 1) - 1 + 1
      /\ \A i \in 1..((k - 1) - 1 + 1) : a[i] = s[1 + i - 1]
      BY <1>2, PartFacts
<1>4. /\ b \in Seq(S) /\ Len(b) = n - k + 1
      /\ \A i \in 1..(n - k + 1) : b[i] = s[k + i - 1]
      BY <1>2, PartFacts
<1>5. o \in Seq(S) /\ Len(o) = 1 /\ o[1] = x
      BY OneFacts
<1>6. Abstract!InsertAt(s, k, x) = r
      BY DEF Abstract!InsertAt
<1> HIDE DEF a, b, o
<1>10. a \in Seq(S) /\ o \in Seq(S) /\ b \in Seq(S)
      BY <1>3, <1>4, <1>5
<1>7. /\ r \in Seq(S) /\ Len(r) = Len(a) + Len(o) + Len(b)
      /\ \A i \in 1..(Len(a) + Len(o) + Len(b)) :
           r[i] = IF i <= Len(a) THEN a[i]
                  ELSE IF i <= Len(a) + Len(o) THEN o[i - Len(a)]
                  ELSE b[i - (Len(a) + Len(o))]
      BY <1>10, ThreeFacts
<1> HIDE DEF r, n
<1>8. Len(a) = k - 1 /\ Len(a) + Len(o) = k /\ Len(a) + Len(o) + Len(b) = n + 1
      BY <1>1, <1>3, <1>4, <1>5
<1>9. ASSUME NEW i \in 1..(n + 1)
      PROVE  r[i] = IF i < k THEN s[i] ELSE IF i = k THEN x ELSE s[i - 1]
  <2>1. r[i] = IF i <= k - 1 THEN a[i] ELSE IF i <= k THEN o[i - (k - 1)] ELSE b[i - k]
        BY <1>7, <1>8
  <2>2. CASE i < k
    <3>1. i <= k - 1 /\ i \in 1..((k - 1) - 1 + 1) /\ 1 + i - 1 = i
          BY <1>1, <2>2
    <3> QED BY <1>3, <2>1, <2>2, <3>1
  <2>3. CASE i = k
    <3>1. ~(i <= k - 1) /\ i <= k /\ i - (k - 1) = 1 /\ ~(i < k)
          BY <1>1, <2>3
    <3> QED BY <1>5, <2>1, <2>3, <3>1
  <2>4. CASE i > k
    <3>1. /\ ~(i <= k - 1) /\ ~(i <= k) /\ ~(i < k) /\ i # k
          /\ i - k \in 1..(n - k + 1) /\ k + (i - k) - 1 = i - 1
          BY <1>1, <2>4
    <3> QED BY <1>4, <2>1, <3>1
  <2>5. i < k \/ i = k \/ i > k
        BY <1>1
  <2> QED BY <2>2, <2>3, <2>4, <2>5
<1> QED BY <1>6, <1>7, <1>8, <1>9 DEF n

\* RemoveAt, item by item.
LEMMA RemoveAtFacts ==
    ASSUME NEW S, NEW s \in Seq(S), NEW k \in 1..Len(s)
    PROVE  /\ Abstract!RemoveAt(s, k) \in Seq(S)
           /\ Len(Abstract!RemoveAt(s, k)) = Len(s) - 1
           /\ \A i \in 1..(Len(s) - 1) :
                Abstract!RemoveAt(s, k)[i] = IF i < k THEN s[i] ELSE s[i + 1]
<1> DEFINE a == SubSeq(s, 1, k - 1)
           b == SubSeq(s, k + 1, Len(s))
           r == a \o b
           n == Len(s)
<1>1. n \in Nat /\ k \in Nat
      BY LenProperties
<1>2. /\ 1 \in 1..(n + 1) /\ k - 1 \in (1 - 1)..n
      /\ k + 1 \in 1..(n + 1) /\ n \in (k + 1 - 1)..n
      BY <1>1
<1>3. /\ a \in Seq(S) /\ Len(a) = (k - 1) - 1 + 1
      /\ \A i \in 1..((k - 1) - 1 + 1) : a[i] = s[1 + i - 1]
      BY <1>2, PartFacts
<1>4. /\ b \in Seq(S) /\ Len(b) = n - (k + 1) + 1
      /\ \A i \in 1..(n - (k + 1) + 1) : b[i] = s[k + 1 + i - 1]
      BY <1>2, PartFacts
<1>5. Abstract!RemoveAt(s, k) = r
      BY DEF Abstract!RemoveAt
<1> HIDE DEF a, b
<1>6. /\ r \in Seq(S) /\ Len(r) = Len(a) + Len(b)
      /\ \A i \in 1..(Len(a) + Len(b)) : r[i] = IF i <= Len(a) THEN a[i] ELSE b[i - Len(a)]
      BY <1>3, <1>4, ConcatProperties
<1> HIDE DEF r, n
<1>7. Len(a) = k - 1 /\ Len(a) + Len(b) = n - 1
      BY <1>1, <1>3, <1>4
<1>8. ASSUME NEW i \in 1..(n - 1)
      PROVE  r[i] = IF i < k THEN s[i] ELSE s[i + 1]
  <2>1. r[i] = IF i <= k - 1 THEN a[i] ELSE b[i - (k - 1)]
        BY <1>6, <1>7
  <2>2. CASE i < k
    <3>1. i <= k - 1 /\ i \in 1..((k - 1) - 1 + 1) /\ 1 + i - 1 = i
          BY <1>1, <2>2
    <3> QED BY <1>3, <2>1, <2>2, <3>1
  <2>3. CASE ~(i < k)
    <3>1. /\ ~(i <= k - 1) /\ i - (k - 1) \in 1..(n - (k + 1) + 1)
          /\ k + 1 + (i - (k - 1)) - 1 = i + 1
          BY <1>1, <2>3
    <3> QED BY <1>4, <2>1, <2>3, <3>1
  <2> QED BY <2>2, <2>3
<1> QED BY <1>5, <1>6, <1>7, <1>8 DEF n

-----------------------------------------------------------------------------
(* What the moves inside a block do to the items *)

\* memmove of vector_erase.
LEMMA ShiftDown ==
    ASSUME NEW c \in Nat, NEW n \in 1..c, NEW pos \in 0..(n - 1), NEW d \in Block(c)
    PROVE  LET e == Copied(d, pos, d, pos + 1, n - 1 - pos)
           IN  /\ e \in Block(c)
               /\ \A i \in 1..(n - 1) : e[i - 1] = IF i < pos + 1 THEN d[i - 1] ELSE d[i]
<1> DEFINE len == n - 1 - pos
           e == Copied(d, pos, d, pos + 1, len)
<1>1. len \in Nat /\ pos \in Nat /\ pos + 1 \in Nat /\ n \in Nat
      OBVIOUS
<1>2. ASSUME NEW j \in (pos + 1)..(pos + 1 + len - 1) PROVE d[j] \in Slots
  <2>1. j \in 0..(c - 1)
        BY <1>1
  <2> QED BY <2>1 DEF Block
<1> HIDE DEF len
<1>3. /\ e \in Block(c)
      /\ \A i \in 0..(c - 1) :
           e[i] = IF pos <= i /\ i < pos + len THEN d[pos + 1 + i - pos] ELSE d[i]
      BY <1>1, <1>2, CopyFacts
<1> HIDE DEF e
<1>4. ASSUME NEW i \in 1..(n - 1)
      PROVE  e[i - 1] = IF i < pos + 1 THEN d[i - 1] ELSE d[i]
  <2>1. /\ i - 1 \in 0..(c - 1) /\ i - 1 < pos + len
        /\ (pos <= i - 1 <=> ~(i < pos + 1)) /\ pos + 1 + (i - 1) - pos = i
        BY <1>1 DEF len
  <2>2. e[i - 1] = IF pos <= i - 1 /\ i - 1 < pos + len
                   THEN d[pos + 1 + (i - 1) - pos] ELSE d[i - 1]
        BY <1>3, <2>1
  <2> QED BY <2>1, <2>2
<1> QED BY <1>3, <1>4 DEF e, len

\* memmove of vector_insert.
LEMMA ShiftUp ==
    ASSUME NEW c \in Nat, NEW n \in 0..(c - 1), NEW pos \in 0..n, NEW d \in Block(c)
    PROVE  LET e == Copied(d, pos + 1, d, pos, n - pos)
           IN  /\ e \in Block(c)
               /\ \A i \in 0..n : i # pos => e[i] = IF i < pos THEN d[i] ELSE d[i - 1]
<1> DEFINE len == n - pos
           e == Copied(d, pos + 1, d, pos, len)
<1>1. len \in Nat /\ pos \in Nat /\ pos + 1 \in Nat /\ n \in Nat
      OBVIOUS
<1>2. ASSUME NEW j \in pos..(pos + len - 1) PROVE d[j] \in Slots
  <2>1. j \in 0..(c - 1)
        BY <1>1
  <2> QED BY <2>1 DEF Block
<1> HIDE DEF len
<1>3. /\ e \in Block(c)
      /\ \A i \in 0..(c - 1) :
           e[i] = IF pos + 1 <= i /\ i < pos + 1 + len THEN d[pos + i - (pos + 1)] ELSE d[i]
      BY <1>1, <1>2, CopyFacts
<1> HIDE DEF e
<1>4. ASSUME NEW i \in 0..n, i # pos
      PROVE  e[i] = IF i < pos THEN d[i] ELSE d[i - 1]
  <2>1. /\ i \in 0..(c - 1) /\ i < pos + 1 + len
        /\ (pos + 1 <= i <=> ~(i < pos)) /\ pos + i - (pos + 1) = i - 1
        BY <1>1, <1>4 DEF len
  <2>2. e[i] = IF pos + 1 <= i /\ i < pos + 1 + len
               THEN d[pos + i - (pos + 1)] ELSE d[i]
        BY <1>3, <2>1
  <2> QED BY <2>1, <2>2
<1> QED BY <1>3, <1>4 DEF e, len

\* memcpy of part's items into the block.
LEMMA CopyIn ==
    ASSUME NEW c \in Nat, NEW d \in Block(c), NEW m \in Nat, NEW pos \in Nat, NEW q,
           \A j \in 0..(m - 1) : q[j] \in Slots
    PROVE  LET e == Copied(d, pos, q, 0, m)
           IN  /\ e \in Block(c)
               /\ \A i \in 1..c : e[i - 1] = IF pos < i /\ i <= pos + m
                                             THEN q[(i - pos) - 1] ELSE d[i - 1]
<1> DEFINE e == Copied(d, pos, q, 0, m)
<1>1. DOMAIN d = 0..(c - 1) /\ \A i \in 0..(c - 1) : d[i] \in Slots
      BY DEF Block
<1>2. e = [i \in 0..(c - 1) |-> IF pos <= i /\ i < pos + m THEN q[0 + i - pos] ELSE d[i]]
      BY <1>1 DEF Copied
<1> HIDE DEF e
<1>3. ASSUME NEW i \in 0..(c - 1) PROVE e[i] \in Slots
  <2>1. e[i] = IF pos <= i /\ i < pos + m THEN q[0 + i - pos] ELSE d[i]
        BY <1>2
  <2>2. pos <= i /\ i < pos + m => 0 + i - pos \in 0..(m - 1)
        OBVIOUS
  <2> QED BY <1>1, <2>1, <2>2
<1>4. ASSUME NEW i \in 1..c
      PROVE  e[i - 1] = IF pos < i /\ i <= pos + m THEN q[(i - pos) - 1] ELSE d[i - 1]
  <2>1. /\ i - 1 \in 0..(c - 1) /\ (pos <= i - 1 <=> pos < i)
        /\ (i - 1 < pos + m <=> i <= pos + m) /\ 0 + (i - 1) - pos = (i - pos) - 1
        OBVIOUS
  <2>2. e[i - 1] = IF pos <= i - 1 /\ i - 1 < pos + m THEN q[0 + (i - 1) - pos] ELSE d[i - 1]
        BY <1>2, <2>1
  <2> QED BY <2>1, <2>2
<1>5. e \in Block(c)
      BY <1>2, <1>3 DEF Block
<1> QED BY <1>4, <1>5 DEF e

\* memcpy to the start of a block.
LEMMA CopyOut ==
    ASSUME NEW c \in Nat, NEW d \in Block(c), NEW m \in Nat, NEW pos \in Nat, NEW src,
           \A j \in pos..(pos + m - 1) : src[j] \in Slots
    PROVE  LET e == Copied(d, 0, src, pos, m)
           IN  e \in Block(c) /\ \A i \in 0..(c - 1) : i < m => e[i] = src[pos + i]
<1> DEFINE e == Copied(d, 0, src, pos, m)
<1>1. DOMAIN d = 0..(c - 1) /\ \A i \in 0..(c - 1) : d[i] \in Slots
      BY DEF Block
<1>2. e = [i \in 0..(c - 1) |-> IF 0 <= i /\ i < 0 + m THEN src[pos + i - 0] ELSE d[i]]
      BY <1>1 DEF Copied
<1> HIDE DEF e
<1>3. ASSUME NEW i \in 0..(c - 1)
      PROVE  e[i] \in Slots /\ (i < m => e[i] = src[pos + i])
  <2>1. e[i] = IF 0 <= i /\ i < 0 + m THEN src[pos + i - 0] ELSE d[i]
        BY <1>2
  <2>2. CASE i < m
    <3>1. /\ 0 <= i /\ i < 0 + m /\ pos + i - 0 = pos + i
          /\ pos + i \in pos..(pos + m - 1)
          BY <2>2
    <3> QED BY <2>1, <3>1
  <2>3. CASE ~(i < m)
        BY <1>1, <2>1, <2>3
  <2> QED BY <2>2, <2>3
<1>4. e \in Block(c)
      BY <1>2, <1>3 DEF Block
<1> QED BY <1>3, <1>4 DEF e

-----------------------------------------------------------------------------
(* The steps of a vector: each keeps VGood and is a step of the sequence *)

\* What the operations do in a block that is there: of vec, grown if need be, and of part.
PushStores(x) ==
    LET v == WithRoom(vec, vec.m_size + 1, 2 * vec.m_capacity)
    IN  /\ v.m_capacity <= MaxCapacity /\ v.m_data # NULL
        /\ vec' = Stored(v, v.m_size, x, v.m_size + 1) /\ part' = part

InsertStores(x, pos) ==
    LET needed == IF pos < vec.m_size THEN vec.m_size + 1 ELSE pos + 1
        v == WithRoom(vec, needed, needed)
        moved == [v EXCEPT !.m_data = Copied(@, pos + 1, @, pos, v.m_size - pos)]
    IN  /\ needed <= MaxCapacity /\ v.m_data # NULL
        /\ vec' = IF pos >= v.m_size THEN Stored(v, pos, x, pos + 1)
                                     ELSE Stored(moved, pos, x, v.m_size + 1)
        /\ part' = part

SplitStores(pos) ==
    LET t == vec.m_size - pos
        new == create_vector(t)
    IN  /\ pos < vec.m_size /\ vec.m_data # NULL
        /\ part' = [new EXCEPT !.m_data = Copied(@, 0, vec.m_data, pos, t), !.m_size = t]
        /\ vec' = [vec EXCEPT !.m_size = pos]

\* new_mv_sz: the items that make room for the m items swapped in at pos.
Displaced(n, pos, m) == IF n <= pos THEN 0 ELSE IF n - pos < m THEN n - pos ELSE m

SwapStores(pos) ==
    LET m == part.m_size
        t == pos + m
        v == WithRoom(vec, t, t)
        k == Displaced(v.m_size, pos, m)
    IN  /\ m > 0 /\ t <= MaxCapacity /\ v.m_data # NULL /\ part.m_data # NULL
        /\ vec' = Moved(v, Copied(v.m_data, pos, part.m_data, 0, m), Greater(v.m_size, t))
        /\ part' = Moved(part, Copied(part.m_data, 0, v.m_data, pos, k), k)

EraseStores(pos) ==
    /\ pos < vec.m_size /\ vec.m_data # NULL
    /\ vec' = Moved(vec, Copied(vec.m_data, pos, vec.m_data, pos + 1, vec.m_size - 1 - pos),
                    vec.m_size - 1)
    /\ part' = part

\* The last of items that are lost.
EraseLost(pos) ==
    /\ pos < vec.m_size /\ vec.m_data = NULL /\ pos = vec.m_size - 1
    /\ vec' = [vec EXCEPT !.m_size = vec.m_size - 1]
    /\ part' = part

\* A copy from or to nowhere.
Faults ==
    /\ fault' = TRUE /\ vec' = vec /\ part' = part
    /\ NULL \in {vec.m_data, part.m_data}

\* Two new vectors are empty sequences.
LEMMA InitVector == VectorAssumption /\ Init => VInv /\ Abstract!Init
<1> SUFFICES ASSUME VectorAssumption, Init PROVE VInv /\ Abstract!Init
    OBVIOUS
<1>1. DefaultCapacity \in 1..MaxCapacity /\ MaxCapacity \in Nat
      BY DEF VectorAssumption
<1>2. vec = create_vector(DefaultCapacity) /\ part = vec /\ fault = FALSE
      BY DEF Init
<1>3. Good(vec) /\ vec.m_size = 0
      BY <1>1, <1>2, CreateFacts
<1>4. Content(vec) = <<>>
      BY <1>3, ContentFacts, EmptySeq
<1> QED BY <1>2, <1>3, <1>4 DEF VInv, VGood, Abstract!Init

\* vector_push appends.
LEMMA PushStep ==
    ASSUME VectorAssumption, VGood, NEW x \in Items, PushStores(x)
    PROVE  VGood' /\ Abstract!Push(x)
<1> DEFINE n == vec.m_size
           c == vec.m_capacity
           v == WithRoom(vec, n + 1, 2 * c)
<1>1. /\ v.m_capacity <= MaxCapacity /\ v.m_data # NULL
      /\ vec' = Stored(v, v.m_size, x, v.m_size + 1) /\ part' = part
      BY DEF PushStores
<1>2. Good(vec) /\ vec \in Vectors /\ c \in Nat /\ c >= 1 /\ n \in Nat /\ n <= c
      BY DEF VGood, Good, IsVector
<1>3. c < n + 1 => v.m_capacity = 2 * c
      BY <1>2 DEF WithRoom, vector_reallocate_, Vectors
<1>4. c < n + 1 => 2 * c >= n + 1 /\ 2 * c <= MaxCapacity
      BY <1>1, <1>2, <1>3
<1>5. Good(v) /\ v.m_capacity >= n + 1 /\ v.m_size = n /\ Content(v) = Content(vec)
      BY <1>2, <1>4, RoomFacts
<1> HIDE DEF v
<1>6. v.m_capacity \in Nat
      BY <1>5 DEF Good, IsVector
<1>7. /\ n \in 0..(v.m_capacity - 1) /\ n + 1 \in 0..v.m_capacity /\ x \in Slots
      BY <1>2, <1>5, <1>6 DEF Slots
<1>8. /\ Good(vec') /\ vec'.m_size = n + 1 /\ vec'.m_data # NULL
      /\ \A i \in 0..(v.m_capacity - 1) : vec'.m_data[i] = IF i = n THEN x ELSE v.m_data[i]
      BY <1>1, <1>5, <1>7, StoreFacts
<1>9. VGood'
      BY <1>1, <1>8 DEF VGood, Good, IsVector
<1>10. Content(vec') = Append(Content(vec), x)
  <2>1. /\ Content(vec) \in Seq(Slots) /\ Len(Content(vec)) = n
        /\ \A i \in 1..n : Content(vec)[i] = v.m_data[i - 1]
        BY <1>1, <1>5, ContentFacts
  <2>2. \A i \in 1..(n + 1) : Content(vec')[i] = vec'.m_data[i - 1]
        BY <1>8, ContentFacts
  <2>3. /\ Append(Content(vec), x) \in Seq(Slots)
        /\ Len(Append(Content(vec), x)) = n + 1
        /\ \A i \in 1..n : Append(Content(vec), x)[i] = Content(vec)[i]
        /\ Append(Content(vec), x)[n + 1] = x
        BY <1>7, <2>1, AppendProperties
  <2>4. ASSUME NEW i \in 1..(n + 1)
        PROVE  Content(vec')[i] = Append(Content(vec), x)[i]
    <3>1. Content(vec')[i] = IF i - 1 = n THEN x ELSE v.m_data[i - 1]
          BY <1>2, <1>5, <1>6, <1>8, <2>2
    <3>2. CASE i = n + 1
          BY <1>2, <2>3, <3>1, <3>2
    <3>3. CASE i \in 1..n
          BY <1>2, <2>1, <2>3, <3>1, <3>3
    <3>4. i = n + 1 \/ i \in 1..n
          BY <1>2
    <3> QED BY <3>2, <3>3, <3>4
  <2> QED BY <1>8, <2>3, <2>4, ContentIs
<1>11. Content(vec)' = Content(vec')
      BY DEF Content
<1> QED BY <1>1, <1>9, <1>10, <1>11 DEF Abstract!Push, Content

\* vector_erase closes the gap.
LEMMA EraseStep ==
    ASSUME VectorAssumption, VGood, NEW pos \in Positions, EraseStores(pos)
    PROVE  VGood' /\ Abstract!Erase(pos)
<1> DEFINE n == vec.m_size
           c == vec.m_capacity
           d == vec.m_data
           e == Copied(d, pos, d, pos + 1, n - 1 - pos)
           s == Content(vec)
           w == vec'
<1>1. /\ pos < n /\ d # NULL /\ part' = part
      /\ w = Moved(vec, e, n - 1)
      BY DEF EraseStores
<1>2. Good(vec) /\ c \in Nat /\ n \in Nat /\ n <= c /\ pos \in Nat
      BY DEF VGood, Good, IsVector, Positions
<1>3. d \in Block(c)
      BY <1>1, <1>2, BlockOf
<1>4. /\ s \in Seq(Slots) /\ Len(s) = n /\ \A i \in 1..n : s[i] = d[i - 1]
      BY <1>1, <1>2, ContentFacts
<1>5. n - 1 \in 0..c /\ n \in 1..c /\ pos \in 0..(n - 1) /\ pos + 1 \in 1..n
      BY <1>1, <1>2
<1>6. /\ e \in Block(c)
      /\ \A i \in 1..(n - 1) : e[i - 1] = IF i < pos + 1 THEN d[i - 1] ELSE d[i]
      BY <1>2, <1>3, <1>5, ShiftDown
<1> HIDE DEF e
<1>7. Good(w) /\ w.m_size = n - 1 /\ w.m_data = e /\ w.m_data # NULL
      BY <1>1, <1>2, <1>5, <1>6, MovedFacts
<1> HIDE DEF w, s, n, d, c
<1>8. \A i \in 1..(n - 1) : Content(w)[i] = e[i - 1]
      BY <1>7, ContentFacts
<1> DEFINE r == Abstract!RemoveAt(s, pos + 1)
<1>9. /\ r \in Seq(Slots) /\ Len(r) = n - 1
      /\ \A i \in 1..(n - 1) : r[i] = IF i < pos + 1 THEN s[i] ELSE s[i + 1]
      BY <1>4, <1>5, RemoveAtFacts
<1> HIDE DEF r
<1>10. ASSUME NEW i \in 1..(n - 1) PROVE Content(w)[i] = r[i]
  <2>1. i \in 1..n /\ i + 1 \in 1..n /\ i + 1 - 1 = i
        BY <1>2
  <2>2. s[i] = d[i - 1] /\ s[i + 1] = d[i]
        BY <1>4, <2>1
  <2> QED BY <1>6, <1>8, <1>9, <2>2
<1>11. Content(w) = r
      BY <1>7, <1>9, <1>10, ContentIs
<1>12. VGood'
      BY <1>1, <1>7 DEF VGood, Good, IsVector, w
<1> QED BY <1>1, <1>4, <1>11, <1>12 DEF Abstract!Erase, Content, w, s, n, r

\* The block an insertion finds or gets.
LEMMA InsertRoom ==
    ASSUME VectorAssumption, VGood, NEW x \in Items, NEW pos \in Positions,
           InsertStores(x, pos)
    PROVE  \E v :
             /\ Good(v) /\ v.m_data # NULL /\ v.m_size = vec.m_size
             /\ v.m_capacity \in Nat /\ v.m_capacity >= vec.m_size + 1
             /\ v.m_capacity >= pos + 1
             /\ Content(v) = Content(vec)
             /\ vec' = IF pos >= vec.m_size
                       THEN Stored(v, pos, x, pos + 1)
                       ELSE Stored(Moved(v, Copied(v.m_data, pos + 1, v.m_data, pos,
                                                   vec.m_size - pos), vec.m_size),
                                   pos, x, vec.m_size + 1)
             /\ part' = part
<1> DEFINE n == vec.m_size
           needed == IF pos < n THEN n + 1 ELSE pos + 1
           v == WithRoom(vec, needed, needed)
           moved == [v EXCEPT !.m_data = Copied(@, pos + 1, @, pos, v.m_size - pos)]
<1>1. /\ needed <= MaxCapacity /\ v.m_data # NULL /\ part' = part
      /\ vec' = IF pos >= v.m_size THEN Stored(v, pos, x, pos + 1)
                                   ELSE Stored(moved, pos, x, v.m_size + 1)
      BY DEF InsertStores
<1>2. Good(vec) /\ n \in Nat /\ pos \in Nat
      BY DEF VGood, Good, IsVector, Positions
<1>3. needed \in Nat /\ needed >= n + 1 /\ needed >= pos + 1
      BY <1>2
<1> HIDE DEF needed
<1>4. Good(v) /\ v.m_capacity >= needed /\ v.m_size = n /\ Content(v) = Content(vec)
      BY <1>1, <1>2, <1>3, RoomFacts
<1> HIDE DEF v
<1>5. v \in Vectors /\ v.m_capacity \in Nat
      BY <1>4 DEF Good, IsVector
<1>6. moved = Moved(v, Copied(v.m_data, pos + 1, v.m_data, pos, n - pos), n)
      BY <1>4, <1>5 DEF Moved, Vectors
<1> HIDE DEF moved
<1>7. v.m_capacity >= n + 1 /\ v.m_capacity >= pos + 1
      BY <1>2, <1>3, <1>4, <1>5
<1> HIDE DEF n
<1>8. vec' = IF pos >= n THEN Stored(v, pos, x, pos + 1)
             ELSE Stored(Moved(v, Copied(v.m_data, pos + 1, v.m_data, pos, n - pos), n),
                         pos, x, n + 1)
      BY <1>1, <1>4, <1>6
<1> QED BY <1>1, <1>4, <1>5, <1>7, <1>8 DEF n

\* vector_insert at a position of the sequence, or just behind it.
LEMMA InsertStep ==
    ASSUME VectorAssumption, VGood, NEW x \in Items, NEW pos \in Positions,
           pos <= vec.m_size, InsertStores(x, pos)
    PROVE  VGood' /\ Abstract!Insert(x, pos)
<1> DEFINE n == vec.m_size
           s == Content(vec)
           w == vec'
<1>1. Good(vec) /\ n \in Nat /\ pos \in Nat /\ pos <= n
      BY DEF VGood, Good, IsVector, Positions
<1>2. PICK v : /\ Good(v) /\ v.m_data # NULL /\ v.m_size = n
               /\ v.m_capacity \in Nat /\ v.m_capacity >= n + 1
               /\ Content(v) = s
               /\ w = IF pos >= n
                      THEN Stored(v, pos, x, pos + 1)
                      ELSE Stored(Moved(v, Copied(v.m_data, pos + 1, v.m_data, pos, n - pos), n),
                                  pos, x, n + 1)
               /\ part' = part
      BY InsertRoom
<1> DEFINE c == v.m_capacity
           d == v.m_data
           e == Copied(d, pos + 1, d, pos, n - pos)
           u == Moved(v, e, n)
<1>3. d \in Block(c)
      BY <1>2, BlockOf
<1>4. s \in Seq(Slots) /\ Len(s) = n /\ \A i \in 1..n : s[i] = d[i - 1]
      BY <1>2, ContentFacts
<1>5. /\ n \in 0..c /\ n + 1 \in 0..c /\ n \in 0..(c - 1) /\ pos \in 0..n
      /\ pos \in 0..(c - 1) /\ x \in Slots /\ pos + 1 \in 1..(n + 1) /\ c \in Nat
      BY <1>1, <1>2 DEF Slots
<1>6. /\ Good(w) /\ w.m_size = n + 1 /\ w.m_data # NULL
      /\ w.m_data[pos] = x
      /\ \A i \in 0..n : i # pos => w.m_data[i] = IF i < pos THEN d[i] ELSE d[i - 1]
  <2>1. CASE pos >= n
    <3>1. pos = n /\ w = Stored(v, pos, x, n + 1)
          BY <1>1, <1>2, <2>1
    <3>2. /\ Good(w) /\ w.m_size = n + 1 /\ w.m_data # NULL
          /\ \A i \in 0..(c - 1) : w.m_data[i] = IF i = pos THEN x ELSE d[i]
          BY <1>2, <1>5, <3>1, StoreFacts
    <3>3. \A i \in 0..n : i \in 0..(c - 1) /\ (i # pos => i < pos)
          BY <1>5, <3>1
    <3> HIDE DEF w, c, d, n
    <3> QED BY <1>5, <3>2, <3>3
  <2>2. CASE pos < n
    <3>1. w = Stored(u, pos, x, n + 1)
          BY <1>1, <1>2, <2>2
    <3>2. e \in Block(c) /\ \A i \in 0..n : i # pos => e[i] = IF i < pos THEN d[i] ELSE d[i - 1]
          BY <1>3, <1>5, ShiftUp
    <3> HIDE DEF e
    <3>3. Good(u) /\ u.m_data = e /\ u.m_data # NULL /\ u.m_capacity = c
          BY <1>2, <1>5, <3>2, MovedFacts
    <3> HIDE DEF u
    <3>4. /\ Good(w) /\ w.m_size = n + 1 /\ w.m_data # NULL
          /\ \A i \in 0..(c - 1) : w.m_data[i] = IF i = pos THEN x ELSE e[i]
          BY <1>5, <3>1, <3>3, StoreFacts
    <3>5. \A i \in 0..n : i \in 0..(c - 1)
          BY <1>5
    <3> HIDE DEF w, c, d, n
    <3> QED BY <1>5, <3>2, <3>4, <3>5
  <2> QED BY <1>1, <2>1, <2>2
<1> HIDE DEF w, s, n, d, c
<1>7. \A i \in 1..(n + 1) : Content(w)[i] = w.m_data[i - 1]
      BY <1>6, ContentFacts
<1> DEFINE r == Abstract!InsertAt(s, pos + 1, x)
<1>8. /\ r \in Seq(Slots) /\ Len(r) = n + 1
      /\ \A i \in 1..(n + 1) :
           r[i] = IF i < pos + 1 THEN s[i] ELSE IF i = pos + 1 THEN x ELSE s[i - 1]
  <2> DEFINE k == pos + 1
             t == Abstract!InsertAt(s, k, x)
  <2>1. s \in Seq(Slots) /\ k \in 1..(Len(s) + 1) /\ x \in Slots
        BY <1>4, <1>5
  <2> HIDE DEF k
  <2>2. /\ t \in Seq(Slots) /\ Len(t) = Len(s) + 1
        /\ \A i \in 1..(Len(s) + 1) :
             t[i] = IF i < k THEN s[i] ELSE IF i = k THEN x ELSE s[i - 1]
        BY <2>1, InsertAtFacts
  <2>3. r = t
        BY DEF k
  <2> HIDE DEF t
  <2> HIDE DEF r
  <2> QED BY <1>4, <2>2, <2>3 DEF k
<1> HIDE DEF r
<1>9. ASSUME NEW i \in 1..(n + 1) PROVE Content(w)[i] = r[i]
  <2>1. i - 1 \in 0..n /\ pos + 1 - 1 = pos
        BY <1>1
  <2>2. CASE i = pos + 1
        BY <1>1, <1>6, <1>7, <1>8, <2>1, <2>2
  <2>3. CASE i < pos + 1
    <3>1. i - 1 # pos /\ i - 1 < pos /\ i \in 1..n
          BY <1>1, <2>3
    <3> QED BY <1>4, <1>6, <1>7, <1>8, <2>1, <2>3, <3>1
  <2>4. CASE i > pos + 1
    <3>1. /\ i - 1 # pos /\ ~(i - 1 < pos) /\ ~(i < pos + 1) /\ i # pos + 1
          /\ i - 1 \in 1..n
          BY <1>1, <2>4
    <3>2. r[i] = d[(i - 1) - 1]
          BY <1>4, <1>8, <3>1
    <3> QED BY <1>6, <1>7, <2>1, <3>1, <3>2
  <2>5. i = pos + 1 \/ i < pos + 1 \/ i > pos + 1
        BY <1>1
  <2> QED BY <2>2, <2>3, <2>4, <2>5
<1>10. Content(w) = r
      BY <1>6, <1>8, <1>9, ContentIs
<1>11. VGood'
      BY <1>2, <1>6 DEF VGood, Good, IsVector, w
<1> QED BY <1>1, <1>2, <1>4, <1>10, <1>11 DEF Abstract!Insert, Content, w, s, n, r

\* vector_insert beyond the end: what the block held becomes the gap.
LEMMA InsertBeyondStep ==
    ASSUME VectorAssumption, VGood, NEW x \in Items, NEW pos \in Positions,
           pos > vec.m_size, InsertStores(x, pos)
    PROVE  VGood' /\ Abstract!InsertBeyond(x, pos)
<1> DEFINE n == vec.m_size
           s == Content(vec)
           w == vec'
<1>1. Good(vec) /\ n \in Nat /\ pos \in Nat /\ pos > n
      BY DEF VGood, Good, IsVector, Positions
<1>2. PICK v : /\ Good(v) /\ v.m_data # NULL /\ v.m_size = n
               /\ v.m_capacity \in Nat /\ v.m_capacity >= pos + 1
               /\ Content(v) = s
               /\ w = IF pos >= n
                      THEN Stored(v, pos, x, pos + 1)
                      ELSE Stored(Moved(v, Copied(v.m_data, pos + 1, v.m_data, pos, n - pos), n),
                                  pos, x, n + 1)
               /\ part' = part
      BY InsertRoom
<1> DEFINE c == v.m_capacity
           d == v.m_data
<1>3. d \in Block(c)
      BY <1>2, BlockOf
<1>4. s \in Seq(Slots) /\ Len(s) = n /\ \A i \in 1..n : s[i] = d[i - 1]
      BY <1>2, ContentFacts
<1>5. /\ pos + 1 \in 0..c /\ pos \in 0..(c - 1) /\ x \in Slots /\ c \in Nat
      /\ w = Stored(v, pos, x, pos + 1)
      BY <1>1, <1>2 DEF Slots
<1>6. /\ Good(w) /\ w.m_size = pos + 1 /\ w.m_data # NULL
      /\ \A i \in 0..(c - 1) : w.m_data[i] = IF i = pos THEN x ELSE d[i]
      BY <1>2, <1>5, StoreFacts
<1> HIDE DEF w, s, n, d, c
<1>7. \A i \in 1..(pos + 1) : Content(w)[i] = w.m_data[i - 1]
      BY <1>6, ContentFacts
<1> DEFINE m == pos - n
           gap == [i \in 1..m |-> d[n + i - 1]]
           o == <<x>>
           r == s \o gap \o o
<1>8. gap \in [1..m -> Slots] /\ m \in Nat /\ n + m = pos
  <2>1. ASSUME NEW i \in 1..m PROVE d[n + i - 1] \in Slots
    <3>1. n + i - 1 \in 0..(c - 1)
          BY <1>1, <1>5
    <3> QED BY <1>3, <3>1 DEF Block
  <2> QED BY <1>1, <2>1
<1>9. \A i \in 1..m : gap[i] = d[n + i - 1]
      OBVIOUS
<1> HIDE DEF gap, m
<1>10. gap \in Seq(Slots) /\ Len(gap) = m
      BY <1>8, FunctionFacts
<1>11. o \in Seq(Slots) /\ Len(o) = 1 /\ o[1] = x
      BY <1>5, OneFacts
<1> HIDE DEF o
<1>12. s \in Seq(Slots) /\ gap \in Seq(Slots) /\ o \in Seq(Slots)
      BY <1>4, <1>10, <1>11
<1>13. /\ r \in Seq(Slots) /\ Len(r) = Len(s) + Len(gap) + Len(o)
       /\ \A i \in 1..(Len(s) + Len(gap) + Len(o)) :
            r[i] = IF i <= Len(s) THEN s[i]
                   ELSE IF i <= Len(s) + Len(gap) THEN gap[i - Len(s)]
                   ELSE o[i - (Len(s) + Len(gap))]
      BY <1>12, ThreeFacts
<1> HIDE DEF r
<1>14. Len(r) = pos + 1
      BY <1>4, <1>8, <1>10, <1>11, <1>13
<1>15. ASSUME NEW i \in 1..(pos + 1) PROVE Content(w)[i] = r[i]
  <2>1. i - 1 \in 0..(c - 1) /\ Content(w)[i] = IF i - 1 = pos THEN x ELSE d[i - 1]
        BY <1>1, <1>5, <1>6, <1>7
  <2>2. r[i] = IF i <= n THEN s[i] ELSE IF i <= pos THEN gap[i - n] ELSE o[i - pos]
        BY <1>4, <1>8, <1>10, <1>11, <1>13
  <2>3. CASE i <= n
    <3>1. i \in 1..n /\ i - 1 # pos
          BY <1>1, <2>3
    <3> QED BY <1>4, <2>1, <2>2, <2>3, <3>1
  <2>4. CASE i > n /\ i <= pos
    <3>1. i - n \in 1..m /\ i - 1 # pos /\ ~(i <= n) /\ n + (i - n) - 1 = i - 1
          BY <1>1, <2>4 DEF m
    <3>2. gap[i - n] = d[i - 1]
          BY <1>9, <3>1
    <3> QED BY <2>1, <2>2, <2>4, <3>1, <3>2
  <2>5. CASE i = pos + 1
    <3>1. i - 1 = pos /\ ~(i <= n) /\ ~(i <= pos) /\ i - pos = 1
          BY <1>1, <2>5
    <3> QED BY <1>11, <2>1, <2>2, <3>1
  <2>6. i <= n \/ (i > n /\ i <= pos) \/ i = pos + 1
        BY <1>1
  <2> QED BY <2>3, <2>4, <2>5, <2>6
<1>16. Content(w) = r
      BY <1>6, <1>13, <1>14, <1>15, ContentIs
<1>17. VGood'
      BY <1>2, <1>6 DEF VGood, Good, IsVector, w
<1>18. /\ pos > Len(s) /\ gap \in [1..(pos - Len(s)) -> Slots]
       /\ Content(w) = s \o gap \o <<x>>
      BY <1>1, <1>4, <1>8, <1>16 DEF r, o, m
<1>19. /\ pos > Len(Content(vec))
       /\ \E g \in [1..(pos - Len(Content(vec))) -> Slots] :
            Content(vec)' = Content(vec) \o g \o <<x>>
       /\ Content(part)' = Content(part)
  <2>1. Content(vec)' = Content(w) /\ Content(part)' = Content(part)
        BY <1>2 DEF Content, w
  <2> QED BY <1>18, <2>1 DEF s
<1> QED BY <1>17, <1>19 DEF Abstract!InsertBeyond, Slots, Abstract!Slots

\* vector_split cuts the sequence in two.
LEMMA SplitStep ==
    ASSUME VectorAssumption, VGood, NEW pos \in Positions, SplitStores(pos)
    PROVE  VGood' /\ Abstract!Split(pos)
<1> DEFINE n == vec.m_size
           c == vec.m_capacity
           d == vec.m_data
           s == Content(vec)
           t == n - pos
           new == create_vector(t)
           e == Copied(new.m_data, 0, d, pos, t)
           w == vec'
           p == part'
<1>1. /\ pos < n /\ d # NULL
      /\ p = Moved(new, e, t)
      /\ w = [vec EXCEPT !.m_size = pos]
      BY DEF SplitStores, Moved
<1>2. Good(vec) /\ c \in 1..MaxCapacity /\ n \in Nat /\ n <= c /\ pos \in Nat /\ MaxCapacity \in Nat
      BY DEF VGood, Good, IsVector, Positions, VectorAssumption
<1>3. d \in Block(c)
      BY <1>1, <1>2, BlockOf
<1>4. s \in Seq(Slots) /\ Len(s) = n /\ \A i \in 1..n : s[i] = d[i - 1]
      BY <1>1, <1>2, ContentFacts
<1>5. /\ t \in 1..MaxCapacity /\ t \in Nat /\ pos \in 0..c /\ t \in 0..t
      /\ pos \in (1 - 1)..n /\ 1 \in 1..(n + 1)
      /\ pos + 1 \in 1..(n + 1) /\ n \in (pos + 1 - 1)..n /\ pos + t = n
      BY <1>1, <1>2
<1> HIDE DEF t
<1>6. Good(new) /\ new.m_capacity = t /\ new.m_data \in Block(t)
      BY <1>2, <1>5, CreateFacts
<1> HIDE DEF new
<1>7. /\ e \in Block(t)
      /\ \A i \in 0..(t - 1) : e[i] = d[pos + i]
  <2>1. ASSUME NEW j \in pos..(pos + t - 1) PROVE d[j] \in Slots
    <3>1. j \in 0..(c - 1)
          BY <1>2, <1>5
    <3> QED BY <1>3, <3>1 DEF Block
  <2>2. e \in Block(t) /\ \A i \in 0..(t - 1) : i < t => e[i] = d[pos + i]
        BY <1>2, <1>5, <1>6, <2>1, CopyOut
  <2> HIDE DEF e
  <2>3. \A i \in 0..(t - 1) : i < t
        BY <1>5
  <2> QED BY <2>2, <2>3
<1> HIDE DEF e
<1>8. Good(p) /\ p.m_size = t /\ p.m_data = e /\ p.m_data # NULL
      BY <1>1, <1>5, <1>6, <1>7, MovedFacts
<1>9. Good(w) /\ w.m_size = pos /\ w.m_data = d
      BY <1>1, <1>2, <1>5, ResizeFacts
<1> HIDE DEF p, w, n, c, d, s
<1> DEFINE a == SubSeq(s, 1, pos)
           b == SubSeq(s, pos + 1, n)
<1>10. Content(w) = a
  <2>1. /\ a \in Seq(Slots) /\ Len(a) = pos - 1 + 1
        /\ \A i \in 1..(pos - 1 + 1) : a[i] = s[1 + i - 1]
        BY <1>4, <1>5, PartFacts
  <2> HIDE DEF a
  <2>2. Len(a) = pos /\ \A i \in 1..pos : a[i] = s[i]
        BY <1>2, <2>1
  <2>3. \A i \in 1..pos : i \in 1..n
        BY <1>1, <1>2
  <2>4. \A i \in 1..pos : Content(w)[i] = a[i]
    <3>1. w.m_data # NULL
          BY <1>1, <1>9
    <3>2. \A i \in 1..pos : Content(w)[i] = d[i - 1]
          BY <1>9, <3>1, ContentFacts
    <3> QED BY <1>4, <2>2, <2>3, <3>2
  <2> QED BY <1>9, <2>1, <2>2, <2>4, ContentIs
<1>11. Content(p) = b
  <2>1. /\ b \in Seq(Slots) /\ Len(b) = n - (pos + 1) + 1
        /\ \A i \in 1..(n - (pos + 1) + 1) : b[i] = s[pos + 1 + i - 1]
        BY <1>4, <1>5, PartFacts
  <2> HIDE DEF b
  <2>2. n - (pos + 1) + 1 = t
        BY <1>2, <1>5
  <2>3. Len(b) = t /\ \A i \in 1..t : b[i] = s[pos + 1 + i - 1]
        BY <2>1, <2>2
  <2>4. \A i \in 1..t : Content(p)[i] = e[i - 1]
        BY <1>8, ContentFacts
  <2>5. ASSUME NEW i \in 1..t PROVE Content(p)[i] = b[i]
    <3>1. /\ i - 1 \in 0..(t - 1) /\ pos + 1 + i - 1 \in 1..n
          /\ (pos + 1 + i - 1) - 1 = pos + (i - 1)
          BY <1>2, <1>5
    <3>2. b[i] = d[pos + (i - 1)]
          BY <1>4, <2>3, <3>1
    <3> QED BY <1>7, <2>4, <3>1, <3>2
  <2> QED BY <1>8, <2>1, <2>3, <2>5, ContentIs
<1>12. VGood'
      BY <1>8, <1>9 DEF VGood, Good, IsVector, w, p
<1>13. Content(vec)' = Content(w) /\ Content(part)' = Content(p)
      BY DEF Content, w, p
<1> QED BY <1>1, <1>4, <1>10, <1>11, <1>12, <1>13 DEF Abstract!Split, s

\* vector_clear empties the sequence.
LEMMA ClearStep ==
    ASSUME VGood, vector_clear
    PROVE  VGood' /\ Abstract!Clear
<1> DEFINE w == vec'
<1>1. w = [vec EXCEPT !.m_size = 0] /\ part' = part
      BY DEF vector_clear
<1>2. Good(vec) /\ 0 \in 0..vec.m_capacity
      BY DEF VGood, Good, IsVector
<1>3. Good(w) /\ w.m_size = 0
      BY <1>1, <1>2, ResizeFacts
<1> HIDE DEF w
<1>4. Content(w) = <<>>
      BY <1>3, ContentFacts, EmptySeq
<1>5. VGood'
      BY <1>1, <1>3 DEF VGood, Good, IsVector, w
<1>6. Content(vec)' = Content(w) /\ Content(part)' = Content(part)
      BY <1>1 DEF Content, w
<1> QED BY <1>4, <1>5, <1>6 DEF Abstract!Clear

\* The two rows trade their vectors.
LEMMA ExchangeStep ==
    ASSUME VGood, Exchange
    PROVE  VGood' /\ Abstract!Exchange
<1>1. vec' = part /\ part' = vec
      BY DEF Exchange
<1>2. VGood'
      BY <1>1 DEF VGood, Good, IsVector
<1>3. Content(vec)' = Content(part) /\ Content(part)' = Content(vec)
      BY <1>1 DEF Content
<1> QED BY <1>2, <1>3 DEF Abstract!Exchange

\* A growth without memory loses the items.
LEMMA LoseStep ==
    ASSUME VGood, vector_reallocate_fails
    PROVE  VGood' /\ Abstract!Lose
<1> DEFINE w == vec'
           n == vec.m_size
           s == Content(vec)
           r == [i \in DOMAIN s |-> Unset]
<1>1. w = [vec EXCEPT !.m_data = NULL] /\ part' = part
      BY DEF vector_reallocate_fails
<1>2. Good(vec) /\ vec \in Vectors
      BY DEF VGood, Good
<1>3. Good(w) /\ w.m_size = n /\ w.m_data = NULL
  <2>1. NULL \in Blocks
        BY DEF Blocks
  <2>2. w \in Vectors /\ w.m_size = n /\ w.m_data = NULL /\ w.m_capacity = vec.m_capacity
        BY <1>1, <1>2, <2>1 DEF Vectors
  <2> HIDE DEF w
  <2> QED BY <1>2, <2>2 DEF Good, IsVector
<1>4. s \in Seq(Slots) /\ Len(s) = n /\ n \in Nat
      BY <1>2, ContentFacts
<1> HIDE DEF w, s, n
<1>5. DOMAIN s = 1..n
      BY <1>4
<1>6. r \in [1..n -> Slots] /\ \A i \in 1..n : r[i] = Unset
      BY <1>5 DEF Slots
<1> HIDE DEF r
<1>7. r \in Seq(Slots) /\ Len(r) = n
      BY <1>4, <1>6, FunctionFacts
<1>8. Content(w) = r
      BY <1>3, <1>6, <1>7, ContentFacts, ContentIs
<1>9. VGood'
      BY <1>1, <1>3 DEF VGood, Good, IsVector, w
<1>10. Content(vec)' = Content(w) /\ Content(part)' = Content(part)
      BY <1>1 DEF Content, w
<1> QED BY <1>8, <1>9, <1>10 DEF Abstract!Lose, r, s

\* A swap without memory for the displaced items changes no item.
LEMMA SwapFailsStep ==
    ASSUME VectorAssumption, VGood, NEW pos \in Positions, vector_swap_fails(pos)
    PROVE  VGood' /\ UNCHANGED Abstract!svars
<1> DEFINE m == pos + part.m_size
           w == vec'
<1>1. m <= MaxCapacity /\ w = WithRoom(vec, m, m) /\ part' = part
      BY DEF vector_swap_fails
<1>2. Good(vec) /\ m \in Nat
      BY DEF VGood, Good, IsVector, Positions
<1>3. Good(w) /\ Content(w) = Content(vec)
      BY <1>1, <1>2, RoomFacts
<1>4. VGood'
      BY <1>1, <1>3 DEF VGood, Good, IsVector
<1>5. Content(vec)' = Content(vec) /\ Content(part)' = Content(part)
      BY <1>1, <1>3 DEF Content
<1> QED BY <1>4, <1>5 DEF Abstract!svars

\* What vector_swap computes, with the roles of its blocks named.
LEMMA SwapRoom ==
    ASSUME VectorAssumption, VGood, NEW pos \in Positions, SwapStores(pos)
    PROVE  LET m == part.m_size
               n == vec.m_size
               t == pos + part.m_size
               k == Displaced(n, pos, m)
           IN  /\ m > 0 /\ part.m_data # NULL
               /\ \E v :
                    /\ Good(v) /\ v.m_data # NULL /\ v.m_size = n
                    /\ v.m_capacity \in Nat /\ v.m_capacity >= t
                    /\ Content(v) = Content(vec)
                    /\ vec' = Moved(v, Copied(v.m_data, pos, part.m_data, 0, m), Greater(n, t))
                    /\ part' = Moved(part, Copied(part.m_data, 0, v.m_data, pos, k), k)
<1> DEFINE m == part.m_size
           n == vec.m_size
           t == pos + part.m_size
           v == WithRoom(vec, t, t)
           K(size) == Displaced(size, pos, m)
<1>1. /\ m > 0 /\ t <= MaxCapacity /\ v.m_data # NULL /\ part.m_data # NULL
      /\ vec' = Moved(v, Copied(v.m_data, pos, part.m_data, 0, m), Greater(v.m_size, t))
      /\ part' = Moved(part, Copied(part.m_data, 0, v.m_data, pos, K(v.m_size)), K(v.m_size))
      BY DEF SwapStores
<1>2. Good(vec) /\ t \in Nat
      BY DEF VGood, Good, IsVector, Positions
<1>3. Good(v) /\ v.m_capacity >= t /\ v.m_size = n /\ Content(v) = Content(vec)
      BY <1>1, <1>2, RoomFacts
<1> HIDE DEF v
<1>4. v.m_capacity \in Nat
      BY <1>3 DEF Good, IsVector
<1> QED BY <1>1, <1>3, <1>4

\* The items of the vector after a swap.
SwappedIn(s, p, pos, from, to, r) ==
    \E gap \in [1..(pos - from) -> Slots] :
      r = SubSeq(s, 1, from) \o gap \o p \o SubSeq(s, to + 1, Len(s))

LEMMA SwapIn ==
    ASSUME VectorAssumption, NEW v, Good(v), v.m_data # NULL, NEW u, Good(u), u.m_data # NULL,
           NEW pos \in Nat, NEW from \in Nat, NEW to \in Nat,
           v.m_capacity >= pos + u.m_size,
           from = Lesser(pos, v.m_size), to = Lesser(pos + u.m_size, v.m_size)
    PROVE  LET t == pos + u.m_size
               w == Moved(v, Copied(v.m_data, pos, u.m_data, 0, u.m_size), Greater(v.m_size, t))
           IN  Good(w) /\ SwappedIn(Content(v), Content(u), pos, from, to, Content(w))
<1> DEFINE n == v.m_size
           m == u.m_size
           t == pos + m
           d == v.m_data
           q == u.m_data
           c == v.m_capacity
           e == Copied(d, pos, q, 0, m)
           size == Greater(n, t)
           w == Moved(v, e, size)
           s == Content(v)
           P == Content(u)
<1>1. /\ n \in Nat /\ c \in Nat /\ n <= c /\ m \in Nat /\ t <= c /\ t \in Nat
      /\ u.m_capacity \in Nat /\ m <= u.m_capacity
      BY DEF Good, IsVector
<1>2. /\ s \in Seq(Slots) /\ Len(s) = n /\ \A i \in 1..n : s[i] = d[i - 1]
      /\ P \in Seq(Slots) /\ Len(P) = m /\ \A i \in 1..m : P[i] = q[i - 1]
      BY ContentFacts
<1>3. d \in Block(c) /\ q \in Block(u.m_capacity)
      BY BlockOf
<1>4. ASSUME NEW j \in 0..(m - 1) PROVE q[j] \in Slots
      BY <1>1, <1>3 DEF Block
<1>5. /\ from <= n /\ from <= pos /\ to <= n /\ to <= t /\ from <= to
      /\ (from = pos \/ from = n) /\ size \in 0..c /\ size \in Nat
      /\ t + (n - to) = size /\ (to = t \/ (to = n /\ size = t)) /\ n <= size
      BY <1>1 DEF Lesser, Greater
<1> HIDE DEF size, t
<1>6. /\ e \in Block(c)
      /\ \A i \in 1..c : e[i - 1] = IF pos < i /\ i <= t THEN q[(i - pos) - 1] ELSE d[i - 1]
  <2>1. c \in Nat /\ d \in Block(c) /\ m \in Nat /\ \A j \in 0..(m - 1) : q[j] \in Slots
        BY <1>1, <1>3, <1>4
  <2> HIDE DEF c, d, m, q
  <2> QED BY <2>1, CopyIn DEF t
<1> HIDE DEF e
<1>7. Good(w) /\ w.m_size = size /\ w.m_data = e /\ w.m_data # NULL
      BY <1>5, <1>6, MovedFacts
<1> HIDE DEF w, s, P, n, m, d, q, c
<1>8. \A i \in 1..size : Content(w)[i] = e[i - 1]
      BY <1>7, ContentFacts
<1> DEFINE g == pos - from
           gap == [i \in 1..g |-> d[from + i - 1]]
           a == SubSeq(s, 1, from)
           b == SubSeq(s, to + 1, n)
           r == a \o gap \o P \o b
<1>9. gap \in [1..g -> Slots] /\ g \in Nat /\ from + g = pos
  <2>1. ASSUME NEW i \in 1..g PROVE d[from + i - 1] \in Slots
    <3>1. from + i - 1 \in 0..(c - 1)
          BY <1>1, <1>5 DEF t
    <3> QED BY <1>3, <3>1 DEF Block
  <2> QED BY <1>1, <1>5, <2>1
<1>10. \A i \in 1..g : gap[i] = d[from + i - 1]
      OBVIOUS
<1> HIDE DEF gap
<1>11. gap \in Seq(Slots) /\ Len(gap) = g
      BY <1>9, FunctionFacts
<1>12. /\ a \in Seq(Slots) /\ Len(a) = from /\ \A i \in 1..from : a[i] = s[i]
  <2>1. 1 \in 1..(Len(s) + 1) /\ from \in (1 - 1)..Len(s)
        BY <1>1, <1>2, <1>5
  <2>2. /\ a \in Seq(Slots) /\ Len(a) = from - 1 + 1
        /\ \A i \in 1..(from - 1 + 1) : a[i] = s[1 + i - 1]
        BY <1>2, <2>1, PartFacts
  <2> HIDE DEF a
  <2> QED BY <2>2
<1>13. /\ b \in Seq(Slots) /\ Len(b) = n - to /\ \A i \in 1..(n - to) : b[i] = s[to + i]
  <2> DEFINE k == to + 1
  <2>1. k \in 1..(Len(s) + 1) /\ n \in (k - 1)..Len(s)
    <3>1. n \in Nat /\ Len(s) = n /\ to <= n
          BY <1>1, <1>2, <1>5
    <3> QED BY <3>1
  <2> HIDE DEF k
  <2>2. /\ SubSeq(s, k, n) \in Seq(Slots) /\ Len(SubSeq(s, k, n)) = n - k + 1
        /\ \A i \in 1..(n - k + 1) : SubSeq(s, k, n)[i] = s[k + i - 1]
        BY <1>2, <2>1, PartFacts
  <2>3. b = SubSeq(s, k, n) /\ n - k + 1 = n - to /\ \A i \in 1..(n - to) : k + i - 1 = to + i
        BY <1>1 DEF k
  <2> HIDE DEF b
  <2> QED BY <2>2, <2>3
<1> HIDE DEF a, b, g
<1>14. a \in Seq(Slots) /\ gap \in Seq(Slots) /\ P \in Seq(Slots) /\ b \in Seq(Slots)
      BY <1>2, <1>11, <1>12, <1>13
<1>15. /\ r \in Seq(Slots)
       /\ Len(r) = Len(a) + Len(gap) + Len(P) + Len(b)
       /\ \A i \in 1..(Len(a) + Len(gap) + Len(P) + Len(b)) :
            r[i] = IF i <= Len(a) THEN a[i]
                   ELSE IF i <= Len(a) + Len(gap) THEN gap[i - Len(a)]
                   ELSE IF i <= Len(a) + Len(gap) + Len(P) THEN P[i - (Len(a) + Len(gap))]
                   ELSE b[i - (Len(a) + Len(gap) + Len(P))]
      BY <1>14, FourFacts
<1> HIDE DEF r
<1>16. /\ Len(a) = from /\ Len(a) + Len(gap) = pos /\ Len(a) + Len(gap) + Len(P) = t
       /\ Len(a) + Len(gap) + Len(P) + Len(b) = size
      BY <1>1, <1>2, <1>5, <1>9, <1>11, <1>12, <1>13 DEF t
<1>17. ASSUME NEW i \in 1..size PROVE Content(w)[i] = r[i]
  <2>1. r[i] = IF i <= from THEN a[i] ELSE IF i <= pos THEN gap[i - from]
               ELSE IF i <= t THEN P[i - pos] ELSE b[i - t]
        BY <1>15, <1>16
  <2>2. i \in 1..c
        BY <1>1, <1>5
  <2>3. Content(w)[i] = IF pos < i /\ i <= t THEN q[(i - pos) - 1] ELSE d[i - 1]
        BY <1>6, <1>8, <2>2
  <2>4. CASE i <= from
    <3>1. i \in 1..from /\ i \in 1..n /\ ~(pos < i)
          BY <1>1, <1>5, <2>4
    <3> QED BY <1>2, <1>12, <2>1, <2>3, <2>4, <3>1
  <2>5. CASE from < i /\ i <= pos
    <3>1. i - from \in 1..g /\ ~(pos < i) /\ ~(i <= from) /\ from + (i - from) - 1 = i - 1
          BY <1>5, <2>5 DEF g
    <3>2. gap[i - from] = d[i - 1]
          BY <1>10, <3>1
    <3> QED BY <2>1, <2>3, <2>5, <3>1, <3>2
  <2>6. CASE pos < i /\ i <= t
    <3>1. i - pos \in 1..m /\ ~(i <= pos) /\ ~(i <= from)
          BY <1>1, <1>5, <2>6 DEF t
    <3> QED BY <1>2, <2>1, <2>3, <2>6, <3>1
  <2>7. CASE t < i
    <3>1. /\ ~(i <= t) /\ ~(i <= pos) /\ ~(i <= from) /\ to = t
          /\ i - t \in 1..(n - to) /\ to + (i - t) = i /\ i \in 1..n
          BY <1>1, <1>5, <2>7 DEF t
    <3>2. r[i] = s[i]
          BY <1>13, <2>1, <3>1
    <3> QED BY <1>2, <2>3, <3>1, <3>2
  <2>8. i <= from \/ (from < i /\ i <= pos) \/ (pos < i /\ i <= t) \/ t < i
        BY <1>1
  <2> QED BY <2>4, <2>5, <2>6, <2>7, <2>8
<1>18. Content(w) = r
      BY <1>7, <1>15, <1>16, <1>17, ContentIs
<1>19. /\ gap \in [1..(pos - from) -> Slots]
       /\ Content(w) = SubSeq(s, 1, from) \o gap \o P \o SubSeq(s, to + 1, Len(s))
      BY <1>2, <1>9, <1>18 DEF r, a, b, g
<1>20. SwappedIn(s, P, pos, from, to, Content(w))
      BY <1>19 DEF SwappedIn
<1> QED BY <1>7, <1>20 DEF w, e, size, t, s, P, n, m, d, q

\* The items a swap gives back.
LEMMA SwapBack ==
    ASSUME VectorAssumption, NEW v, Good(v), v.m_data # NULL, NEW u, Good(u), u.m_data # NULL,
           NEW pos \in Nat, NEW from \in Nat, NEW to \in Nat, NEW k,
           from = Lesser(pos, v.m_size), to = Lesser(pos + u.m_size, v.m_size),
           k = Displaced(v.m_size, pos, u.m_size)
    PROVE  LET w == Moved(u, Copied(u.m_data, 0, v.m_data, pos, k), k)
           IN  Good(w) /\ Content(w) = SubSeq(Content(v), from + 1, to)
<1> DEFINE n == v.m_size
           d == v.m_data
           q == u.m_data
           c == u.m_capacity
           e == Copied(q, 0, d, pos, k)
           w == Moved(u, e, k)
           s == Content(v)
<1>1. /\ n \in Nat /\ u.m_size \in Nat /\ c \in Nat /\ u.m_size <= c
      /\ v.m_capacity \in Nat /\ n <= v.m_capacity
      BY DEF Good, IsVector
<1>2. s \in Seq(Slots) /\ Len(s) = n /\ \A i \in 1..n : s[i] = d[i - 1]
      BY ContentFacts
<1>3. d \in Block(v.m_capacity) /\ q \in Block(c)
      BY BlockOf
<1>4. /\ k \in Nat /\ k \in 0..c /\ to - from = k /\ from <= n /\ to <= n /\ from <= to
      /\ (k = 0 \/ (from = pos /\ pos + k <= n))
      BY <1>1 DEF Lesser, Displaced
<1>5. ASSUME NEW j \in pos..(pos + k - 1) PROVE d[j] \in Slots
  <2>1. j \in 0..(v.m_capacity - 1)
        BY <1>1, <1>4
  <2> QED BY <1>3, <2>1 DEF Block
<1>6. /\ e \in Block(c)
      /\ \A i \in 0..(c - 1) : i < k => e[i] = d[pos + i]
  <2>1. k \in Nat /\ c \in Nat /\ q \in Block(c) /\ \A j \in pos..(pos + k - 1) : d[j] \in Slots
        BY <1>1, <1>3, <1>4, <1>5
  <2> HIDE DEF c, d, q
  <2> QED BY <2>1, CopyOut
<1> HIDE DEF e
<1>7. Good(w) /\ w.m_size = k /\ w.m_data = e /\ w.m_data # NULL
      BY <1>4, <1>6, MovedFacts
<1> HIDE DEF w, s, n, d, q, c
<1>8. \A i \in 1..k : Content(w)[i] = e[i - 1]
      BY <1>7, ContentFacts
<1> DEFINE r == SubSeq(s, from + 1, to)
<1>9. r \in Seq(Slots) /\ Len(r) = k /\ \A i \in 1..k : r[i] = s[from + i]
  <2> DEFINE f == from + 1
  <2>1. f \in 1..(Len(s) + 1) /\ to \in (f - 1)..Len(s)
    <3>1. n \in Nat /\ Len(s) = n /\ from <= n /\ from <= to /\ to <= n
          BY <1>1, <1>2, <1>4
    <3> QED BY <3>1
  <2>2. to - f + 1 = k /\ \A i \in 1..k : f + i - 1 = from + i
        BY <1>4
  <2> HIDE DEF f
  <2>3. /\ SubSeq(s, f, to) \in Seq(Slots) /\ Len(SubSeq(s, f, to)) = to - f + 1
        /\ \A i \in 1..(to - f + 1) : SubSeq(s, f, to)[i] = s[f + i - 1]
    <3>1. s \in Seq(Slots)
          BY <1>2
    <3> QED BY <2>1, <3>1, PartFacts
  <2>4. r = SubSeq(s, f, to)
        BY DEF f
  <2> HIDE DEF r
  <2> QED BY <2>2, <2>3, <2>4
<1> HIDE DEF r
<1>10. ASSUME NEW i \in 1..k PROVE Content(w)[i] = r[i]
  <2>1. /\ i - 1 \in 0..(c - 1) /\ i - 1 < k /\ from = pos
        /\ from + i \in 1..n /\ pos + (i - 1) = (from + i) - 1
        BY <1>1, <1>4
  <2>2. e[i - 1] = d[pos + (i - 1)]
        BY <1>6, <2>1
  <2>3. r[i] = d[(from + i) - 1]
        BY <1>2, <1>9, <2>1
  <2> QED BY <1>8, <2>1, <2>2, <2>3
<1>11. Content(w) = r
      BY <1>7, <1>9, <1>10, ContentIs
<1> QED BY <1>7, <1>11 DEF w, e, s, d, q, r

\* vector_swap trades a stretch of items.
LEMMA SwapStep ==
    ASSUME VectorAssumption, VGood, NEW pos \in Positions, SwapStores(pos)
    PROVE  VGood' /\ Abstract!Swap(pos)
<1> DEFINE n == vec.m_size
           m == part.m_size
           t == pos + m
           from == Lesser(pos, n)
           to == Lesser(t, n)
           k == Displaced(n, pos, m)
           s == Content(vec)
           P == Content(part)
<1>1. Good(vec) /\ Good(part) /\ pos \in Nat /\ n \in Nat /\ m \in Nat /\ t \in Nat
      BY DEF VGood, Good, IsVector, Positions
<1>2. from \in Nat /\ to \in Nat
      BY <1>1 DEF Lesser
<1>3. m > 0 /\ part.m_data # NULL
      BY SwapRoom
<1>4. PICK v : /\ Good(v) /\ v.m_data # NULL /\ v.m_size = n
               /\ v.m_capacity \in Nat /\ v.m_capacity >= t
               /\ Content(v) = s
               /\ vec' = Moved(v, Copied(v.m_data, pos, part.m_data, 0, m), Greater(n, t))
               /\ part' = Moved(part, Copied(part.m_data, 0, v.m_data, pos, k), k)
      BY SwapRoom
<1>5. Len(s) = n /\ Len(P) = m
      BY <1>1, ContentFacts
<1> HIDE DEF k, s, P
<1>6. Good(vec') /\ SwappedIn(s, P, pos, from, to, Content(vec'))
  <2>1. /\ from = Lesser(pos, v.m_size) /\ to = Lesser(pos + part.m_size, v.m_size)
        /\ v.m_capacity >= pos + part.m_size
        BY <1>4
  <2> DEFINE w == Moved(v, Copied(v.m_data, pos, part.m_data, 0, part.m_size),
                        Greater(v.m_size, pos + part.m_size))
  <2>2. vec' = w /\ Content(v) = s
        BY <1>4
  <2> HIDE DEF from, to
  <2>3. Good(w) /\ SwappedIn(Content(v), Content(part), pos, from, to, Content(w))
    <3>1. Good(v) /\ v.m_data # NULL
          BY <1>4
    <3> QED BY <1>1, <1>2, <1>3, <2>1, <3>1, SwapIn
  <2> HIDE DEF w
  <2> QED BY <2>2, <2>3 DEF P
<1>7. Good(part') /\ Content(part') = SubSeq(s, from + 1, to)
  <2>1. /\ from = Lesser(pos, v.m_size) /\ to = Lesser(pos + part.m_size, v.m_size)
        /\ k = Displaced(v.m_size, pos, part.m_size)
        BY <1>4 DEF k
  <2> DEFINE w == Moved(part, Copied(part.m_data, 0, v.m_data, pos, k), k)
  <2>2. part' = w /\ Content(v) = s
        BY <1>4
  <2> HIDE DEF from, to
  <2>3. Good(w) /\ Content(w) = SubSeq(Content(v), from + 1, to)
    <3>1. Good(v) /\ v.m_data # NULL
          BY <1>4
    <3> QED BY <1>1, <1>2, <1>3, <2>1, <3>1, SwapBack
  <2> HIDE DEF w
  <2> QED BY <2>2, <2>3
<1> HIDE DEF from, to
<1>8. VGood'
      BY <1>6, <1>7 DEF VGood, Good, IsVector
<1>9. Content(vec)' = Content(vec') /\ Content(part)' = Content(part')
      BY DEF Content
<1>10. /\ Abstract!Min({pos, Len(s)}) = from
       /\ Abstract!Min({pos + Len(P), Len(s)}) = to
      BY <1>1, <1>5, MinFacts DEF from, to
<1>11. P # <<>>
      BY <1>1, <1>3, <1>5
<1>12. /\ Content(part) # <<>>
       /\ \E gap \in [1..(pos - from) -> Slots] :
            Content(vec)' = SubSeq(s, 1, from) \o gap \o P \o SubSeq(s, to + 1, Len(s))
       /\ Content(part)' = SubSeq(s, from + 1, to)
      BY <1>6, <1>7, <1>9, <1>11 DEF P, SwappedIn
<1> QED BY <1>8, <1>10, <1>12 DEF Abstract!Swap, Slots, Abstract!Slots, s, P

-----------------------------------------------------------------------------(* Each operation takes effect in blocks that are there, or finds one gone *)

\* Nothing leaves a block that is there.
LEMMA WithinFacts ==
    ASSUME NEW v, Good(v), v.m_data # NULL, NEW from \in Nat, NEW len \in Nat,
           from + len <= v.m_capacity
    PROVE  Within(v.m_data, from, len)
<1>1. v.m_capacity \in Nat /\ DOMAIN v.m_data = 0..(v.m_capacity - 1)
      BY BlockOf DEF Block, Good, IsVector
<1>2. from..(from + len - 1) \subseteq 0..(v.m_capacity - 1)
      BY <1>1
<1> QED BY <1>1, <1>2 DEF Within

LEMMA PushOutcome ==
    ASSUME VectorAssumption, VGood, NEW x \in Items, vector_push(x)
    PROVE  (PushStores(x) /\ fault' = fault) \/ Faults
<1> DEFINE n == vec.m_size
           c == vec.m_capacity
           v == WithRoom(vec, n + 1, 2 * c)
<1>1. Good(vec) /\ vec \in Vectors /\ c \in Nat /\ c >= 1 /\ n \in Nat /\ n <= c
      BY DEF VGood, Good, IsVector
<1>2. /\ v.m_capacity <= MaxCapacity
      /\ Copying(Within(v.m_data, v.m_size, 1),
                 vec' = Stored(v, v.m_size, x, v.m_size + 1) /\ UNCHANGED part)
      BY DEF vector_push
<1>3. c < n + 1 => v.m_capacity = 2 * c
      BY <1>1 DEF WithRoom, vector_reallocate_, Vectors
<1>4. c < n + 1 => 2 * c >= n + 1 /\ 2 * c <= MaxCapacity
      BY <1>1, <1>2, <1>3
<1>5. /\ Good(v) /\ v.m_capacity >= n + 1 /\ v.m_size = n
      /\ (v.m_data = NULL => vec.m_data = NULL)
  <2> DEFINE k == n + 1
             g == 2 * c
  <2>1. Good(vec) /\ k \in Nat /\ g \in Nat /\ (c < k => g >= k /\ g <= MaxCapacity)
        BY <1>1, <1>4
  <2> HIDE DEF k, g
  <2>2. LET w == WithRoom(vec, k, g)
        IN  Good(w) /\ w.m_capacity >= k /\ w.m_size = n /\ (w.m_data = NULL => vec.m_data = NULL)
        BY <2>1, RoomFacts
  <2> QED BY <2>2 DEF k, g
<1> HIDE DEF v
<1>6. CASE v.m_data # NULL
  <2>1. Within(v.m_data, v.m_size, 1)
        BY <1>1, <1>5, <1>6, WithinFacts
  <2>2. vec' = Stored(v, v.m_size, x, v.m_size + 1) /\ part' = part /\ fault' = fault
        BY <1>2, <2>1 DEF Copying
  <2> QED BY <1>2, <1>6, <2>2 DEF PushStores, v
<1>7. CASE v.m_data = NULL
  <2>1. ~Within(v.m_data, v.m_size, 1)
        BY <1>7 DEF Within
  <2> QED BY <1>2, <1>5, <1>7, <2>1 DEF Copying, Faults
<1> QED BY <1>6, <1>7

LEMMA InsertOutcome ==
    ASSUME VectorAssumption, VGood, NEW x \in Items, NEW pos \in Positions, vector_insert(x, pos)
    PROVE  (InsertStores(x, pos) /\ fault' = fault) \/ Faults
<1> DEFINE n == vec.m_size
           needed == IF pos < n THEN n + 1 ELSE pos + 1
           v == WithRoom(vec, needed, needed)
           behind == IF pos < v.m_size THEN v.m_size - pos ELSE 0
           moved == [v EXCEPT !.m_data = Copied(@, pos + 1, @, pos, v.m_size - pos)]
           w == IF pos >= v.m_size THEN Stored(v, pos, x, pos + 1)
                                   ELSE Stored(moved, pos, x, v.m_size + 1)
<1>1. Good(vec) /\ n \in Nat /\ pos \in Nat
      BY DEF VGood, Good, IsVector, Positions
<1>2. needed <= MaxCapacity /\ Copying(Within(v.m_data, pos, behind + 1), vec' = w /\ UNCHANGED part)
      BY DEF vector_insert
<1>3. needed \in Nat /\ needed >= n + 1 /\ needed >= pos + 1
      BY <1>1
<1>4. /\ Good(v) /\ v.m_capacity >= needed /\ v.m_size = n
      /\ (v.m_data = NULL => vec.m_data = NULL)
  <2> HIDE DEF needed
  <2> QED BY <1>1, <1>2, <1>3, RoomFacts
<1>5. behind \in Nat /\ behind + 1 \in Nat /\ behind + 1 > 0 /\ pos + (behind + 1) <= v.m_capacity
  <2>1. v.m_capacity \in Nat
        BY <1>4 DEF Good, IsVector
  <2> QED BY <1>1, <1>4, <2>1
<1> HIDE DEF behind, w
<1>6. CASE v.m_data # NULL
  <2>1. Within(v.m_data, pos, behind + 1)
        BY <1>1, <1>4, <1>5, <1>6, WithinFacts
  <2>2. vec' = w /\ part' = part /\ fault' = fault
        BY <1>2, <2>1 DEF Copying
  <2> QED BY <1>2, <1>6, <2>2 DEF InsertStores, w
<1>7. CASE v.m_data = NULL
  <2>1. ~Within(v.m_data, pos, behind + 1)
        BY <1>5, <1>7 DEF Within
  <2> QED BY <1>2, <1>4, <1>7, <2>1 DEF Copying, Faults
<1> QED BY <1>6, <1>7

LEMMA SplitOutcome ==
    ASSUME VectorAssumption, VGood, NEW pos \in Positions, vector_split(pos)
    PROVE  (SplitStores(pos) /\ fault' = fault) \/ Faults
<1> DEFINE t == vec.m_size - pos
           new == create_vector(t)
           p == [new EXCEPT !.m_data = Copied(@, 0, vec.m_data, pos, t), !.m_size = t]
           w == [vec EXCEPT !.m_size = pos]
<1>1. pos < vec.m_size /\ Copying(Within(vec.m_data, pos, t), part' = p /\ vec' = w)
      BY DEF vector_split
<1>2. Good(vec) /\ t \in Nat /\ t > 0 /\ pos \in Nat /\ pos + t <= vec.m_capacity
      BY <1>1 DEF VGood, Good, IsVector, Positions
<1> HIDE DEF p, w, t
<1>3. CASE vec.m_data # NULL
  <2>1. Within(vec.m_data, pos, t)
        BY <1>2, <1>3, WithinFacts
  <2>2. part' = p /\ vec' = w /\ fault' = fault
        BY <1>1, <2>1 DEF Copying
  <2> QED BY <1>1, <1>3, <2>2 DEF SplitStores, p, w, t
<1>4. CASE vec.m_data = NULL
  <2>1. ~Within(vec.m_data, pos, t)
        BY <1>2, <1>4 DEF Within
  <2> QED BY <1>1, <1>4, <2>1 DEF Copying, Faults
<1> QED BY <1>3, <1>4

LEMMA SwapOutcome ==
    ASSUME VectorAssumption, VGood, NEW pos \in Positions, vector_swap(pos)
    PROVE  (SwapStores(pos) /\ fault' = fault) \/ Faults
<1> DEFINE m == part.m_size
           t == pos + m
           v == WithRoom(vec, t, t)
           k == Displaced(v.m_size, pos, m)
           w == Moved(v, Copied(v.m_data, pos, part.m_data, 0, m), Greater(v.m_size, t))
           p == Moved(part, Copied(part.m_data, 0, v.m_data, pos, k), k)
<1>1. /\ m > 0 /\ t <= MaxCapacity
      /\ Copying(Within(v.m_data, pos, m) /\ Within(part.m_data, 0, m), vec' = w /\ part' = p)
      BY DEF vector_swap, Moved, Displaced, Greater
<1>2. /\ Good(vec) /\ Good(part) /\ t \in Nat /\ pos \in Nat /\ m \in Nat
      /\ 0 + m <= part.m_capacity
      BY DEF VGood, Good, IsVector, Positions
<1>3. /\ Good(v) /\ pos + m <= v.m_capacity
      /\ (v.m_data = NULL => vec.m_data = NULL)
      BY <1>1, <1>2, RoomFacts
<1> HIDE DEF v, w, p, k
<1>4. CASE v.m_data # NULL /\ part.m_data # NULL
  <2>1. Within(v.m_data, pos, m) /\ Within(part.m_data, 0, m)
        BY <1>2, <1>3, <1>4, WithinFacts
  <2>2. vec' = w /\ part' = p /\ fault' = fault
        BY <1>1, <2>1 DEF Copying
  <2> QED BY <1>1, <1>4, <2>2 DEF SwapStores, v, w, p, k
<1>5. CASE v.m_data = NULL \/ part.m_data = NULL
  <2>1. ~(Within(v.m_data, pos, m) /\ Within(part.m_data, 0, m))
        BY <1>1, <1>5 DEF Within
  <2> QED BY <1>1, <1>3, <1>5, <2>1 DEF Copying, Faults
<1> QED BY <1>4, <1>5

LEMMA EraseOutcome ==
    ASSUME VectorAssumption, VGood, NEW pos \in Positions, vector_erase(pos)
    PROVE  ((EraseStores(pos) \/ EraseLost(pos)) /\ fault' = fault) \/ Faults
<1> DEFINE n == vec.m_size
           d == vec.m_data
           behind == n - 1 - pos
           len == IF behind = 0 THEN 0 ELSE behind + 1
           w == [vec EXCEPT !.m_data = IF behind = 0 THEN @ ELSE Copied(@, pos, @, pos + 1, behind),
                            !.m_size = n - 1]
<1>1. pos < n /\ Copying(Within(d, pos, len), vec' = w /\ UNCHANGED part)
      BY DEF vector_erase
<1>2. Good(vec) /\ vec \in Vectors /\ n \in Nat /\ pos \in Nat
      BY DEF VGood, Good, IsVector, Positions
<1>3. behind \in Nat /\ len \in Nat /\ pos + len <= vec.m_capacity
  <2>1. pos < n /\ n <= vec.m_capacity /\ vec.m_capacity \in Nat
        BY <1>1, <1>2 DEF Good, IsVector
  <2> HIDE DEF n
  <2> QED BY <1>2, <2>1
<1>4. CASE d # NULL
  <2>1. Within(d, pos, len)
    <3> HIDE DEF len
    <3> QED BY <1>2, <1>3, <1>4, WithinFacts
  <2>2. vec' = w /\ part' = part /\ fault' = fault
        BY <1>1, <2>1 DEF Copying
  <2>3. w = Moved(vec, Copied(d, pos, d, pos + 1, behind), n - 1)
    <3>1. CASE behind = 0
      <4>1. d \in Block(vec.m_capacity)
            BY <1>2, <1>4, BlockOf
      <4>2. Copied(d, pos, d, pos + 1, 0) = d
        <5>1. DOMAIN d = 0..(vec.m_capacity - 1) /\ d = [i \in 0..(vec.m_capacity - 1) |-> d[i]]
              BY <4>1 DEF Block
        <5>2. \A i \in 0..(vec.m_capacity - 1) : ~(pos <= i /\ i < pos + 0)
              BY <1>2
        <5>3. Copied(d, pos, d, pos + 1, 0) = [i \in 0..(vec.m_capacity - 1) |-> d[i]]
          <6> HIDE DEF d
          <6> QED BY <5>1, <5>2 DEF Copied
        <5> QED BY <5>1, <5>3
      <4> QED BY <1>2, <3>1, <4>2 DEF Moved, Vectors
    <3>2. CASE behind # 0
          BY <3>2 DEF Moved
    <3> QED BY <3>1, <3>2
  <2> QED BY <1>1, <1>4, <2>2, <2>3 DEF EraseStores
<1>5. CASE d = NULL /\ behind = 0
  <2>1. Within(d, pos, len)
        BY <1>5 DEF Within
  <2>2. vec' = w /\ part' = part /\ fault' = fault
        BY <1>1, <2>1 DEF Copying
  <2>3. w = [vec EXCEPT !.m_size = n - 1] /\ pos = n - 1
    <3>1. w = [vec EXCEPT !.m_data = vec.m_data, !.m_size = n - 1]
          BY <1>5
    <3>2. pos = n - 1
          BY <1>2, <1>5
    <3> QED BY <1>2, <3>1, <3>2 DEF Vectors
  <2> QED BY <1>1, <1>5, <2>2, <2>3 DEF EraseLost
<1>6. CASE d = NULL /\ behind # 0
  <2>1. ~Within(d, pos, len)
        BY <1>3, <1>6 DEF Within
  <2> QED BY <1>1, <1>6, <2>1 DEF Copying, Faults
<1> QED BY <1>4, <1>5, <1>6

\* Erasing the last of lost items leaves the others lost.
LEMMA EraseLostStep ==
    ASSUME VectorAssumption, VGood, NEW pos \in Positions, EraseLost(pos)
    PROVE  VGood' /\ Abstract!Erase(pos)
<1> DEFINE n == vec.m_size
           s == Content(vec)
           w == vec'
           r == Abstract!RemoveAt(s, pos + 1)
<1>1. pos = n - 1 /\ pos < n /\ vec.m_data = NULL /\ w = [vec EXCEPT !.m_size = n - 1] /\ part' = part
      BY DEF EraseLost
<1>2. Good(vec) /\ n \in Nat /\ pos \in Nat /\ n - 1 \in 0..vec.m_capacity /\ pos + 1 \in 1..n
      BY <1>1 DEF VGood, Good, IsVector, Positions
<1>3. Good(w) /\ w.m_size = n - 1 /\ w.m_data = NULL
      BY <1>1, <1>2, ResizeFacts
<1>4. s \in Seq(Slots) /\ Len(s) = n /\ \A i \in 1..n : s[i] = Unset
      BY <1>1, <1>2, ContentFacts
<1> HIDE DEF w, s
<1>5. \A i \in 1..(n - 1) : Content(w)[i] = Unset
      BY <1>3, ContentFacts
<1>6. /\ r \in Seq(Slots) /\ Len(r) = n - 1
      /\ \A i \in 1..(n - 1) : r[i] = IF i < pos + 1 THEN s[i] ELSE s[i + 1]
      BY <1>2, <1>4, RemoveAtFacts
<1> HIDE DEF r
<1>7. ASSUME NEW i \in 1..(n - 1) PROVE Content(w)[i] = r[i]
  <2>1. i \in 1..n /\ i + 1 \in 1..n
        BY <1>2
  <2> QED BY <1>4, <1>5, <1>6, <2>1
<1>8. Content(w) = r
      BY <1>3, <1>6, <1>7, ContentIs
<1>9. VGood'
      BY <1>1, <1>3 DEF VGood, Good, IsVector, w
<1> QED BY <1>1, <1>2, <1>4, <1>8, <1>9 DEF Abstract!Erase, Content, w, s, r

-----------------------------------------------------------------------------
(* The theorems *)

\* One step per operation of vector.c: each keeps VInv, and is a step of the
\* sequence or leaves it alone.
LEMMA NextVector ==
    ASSUME VectorAssumption, VInv, [Next]_vvars
    PROVE  VInv' /\ [Abstract!Next]_(Abstract!svars)
<1> DEFINE Goal == VInv' /\ [Abstract!Next]_(Abstract!svars)
<1>1. VGood
      BY DEF VInv
<1>2. ASSUME UNCHANGED <<vec, part>>
      PROVE  VGood' /\ UNCHANGED Abstract!svars
  <2>1. vec' = vec /\ part' = part
        BY <1>2
  <2>2. VGood'
        BY <1>1, <2>1 DEF VGood, Good, IsVector
  <2>3. Content(vec)' = Content(vec) /\ Content(part)' = Content(part)
        BY <2>1 DEF Content
  <2> QED BY <2>2, <2>3 DEF Abstract!svars
<1>3. ASSUME Faults PROVE Goal
  <2>1. VGood' /\ UNCHANGED Abstract!svars
        BY <1>2, <1>3 DEF Faults
  <2>2. fault' = TRUE /\ NULL \in {vec'.m_data, part'.m_data}
        BY <1>3 DEF Faults
  <2> QED BY <2>1, <2>2 DEF VInv
<1>4. ASSUME ~fault, fault' = fault, VGood', Abstract!Next \/ UNCHANGED Abstract!svars
      PROVE  Goal
      BY <1>4 DEF VInv
<1>5. CASE UNCHANGED vvars
  <2>1. vec' = vec /\ part' = part /\ fault' = fault
        BY <1>5 DEF vvars
  <2>2. VGood' /\ UNCHANGED Abstract!svars
        BY <1>2, <2>1
  <2>3. NULL \in {vec.m_data, part.m_data} <=> NULL \in {vec'.m_data, part'.m_data}
        BY <2>1
  <2> QED BY <2>1, <2>2, <2>3 DEF VInv
<1>6. CASE Next
  <2>1. ~fault
        BY <1>6 DEF Next
  <2>2. ASSUME NEW x \in Items, vector_push(x) PROVE Goal
    <3>1. CASE PushStores(x) /\ fault' = fault
      <4>1. VGood' /\ Abstract!Next
            BY <1>1, <3>1, PushStep DEF Abstract!Next
      <4> QED BY <1>4, <2>1, <3>1, <4>1
    <3> QED BY <1>1, <1>3, <2>2, <3>1, PushOutcome
  <2>3. ASSUME NEW x \in Items, NEW pos \in Positions, vector_insert(x, pos) PROVE Goal
    <3>1. CASE InsertStores(x, pos) /\ fault' = fault
      <4>1. pos \in Nat /\ vec.m_size \in Nat
            BY <1>1 DEF Positions, VGood, Good, IsVector
      <4>2. CASE pos <= vec.m_size
        <5>1. VGood' /\ Abstract!Next
              BY <1>1, <3>1, <4>2, InsertStep DEF Abstract!Next
        <5> QED BY <1>4, <2>1, <3>1, <5>1
      <4>3. CASE pos > vec.m_size
        <5>1. VGood' /\ Abstract!Next
              BY <1>1, <3>1, <4>3, InsertBeyondStep DEF Abstract!Next
        <5> QED BY <1>4, <2>1, <3>1, <5>1
      <4> QED BY <4>1, <4>2, <4>3
    <3> QED BY <1>1, <1>3, <2>3, <3>1, InsertOutcome
  <2>4. ASSUME NEW pos \in Positions, vector_split(pos) PROVE Goal
    <3>1. CASE SplitStores(pos) /\ fault' = fault
      <4>1. VGood' /\ Abstract!Next
            BY <1>1, <3>1, SplitStep DEF Abstract!Next
      <4> QED BY <1>4, <2>1, <3>1, <4>1
    <3> QED BY <1>1, <1>3, <2>4, <3>1, SplitOutcome
  <2>5. ASSUME NEW pos \in Positions, vector_swap(pos) PROVE Goal
    <3>1. CASE SwapStores(pos) /\ fault' = fault
      <4>1. VGood' /\ Abstract!Next
            BY <1>1, <3>1, SwapStep DEF Abstract!Next
      <4> QED BY <1>4, <2>1, <3>1, <4>1
    <3> QED BY <1>1, <1>3, <2>5, <3>1, SwapOutcome
  <2>6. ASSUME NEW pos \in Positions, vector_erase(pos) PROVE Goal
    <3>1. CASE (EraseStores(pos) \/ EraseLost(pos)) /\ fault' = fault
      <4>1. VGood' /\ Abstract!Next
            BY <1>1, <3>1, EraseStep, EraseLostStep DEF Abstract!Next
      <4> QED BY <1>4, <2>1, <3>1, <4>1
    <3> QED BY <1>1, <1>3, <2>6, <3>1, EraseOutcome
  <2>7. ASSUME NEW pos \in Positions, vector_swap_fails(pos) PROVE Goal
    <3>1. VGood' /\ UNCHANGED Abstract!svars
          BY <1>1, <2>7, SwapFailsStep
    <3>2. fault' = fault
          BY <2>7 DEF vector_swap_fails
    <3> QED BY <1>4, <2>1, <3>1, <3>2
  <2>8. CASE vector_clear
    <3>1. VGood' /\ Abstract!Next
          BY <1>1, <2>8, ClearStep DEF Abstract!Next
    <3>2. fault' = fault
          BY <2>8 DEF vector_clear
    <3> QED BY <1>4, <2>1, <3>1, <3>2
  <2>9. CASE Exchange
    <3>1. VGood' /\ Abstract!Next
          BY <1>1, <2>9, ExchangeStep DEF Abstract!Next
    <3>2. fault' = fault
          BY <2>9 DEF Exchange
    <3> QED BY <1>4, <2>1, <3>1, <3>2
  <2>10. CASE vector_reallocate_fails
    <3>1. VGood' /\ Abstract!Next
          BY <1>1, <2>10, LoseStep DEF Abstract!Next
    <3>2. fault' = fault
          BY <2>10 DEF vector_reallocate_fails
    <3> QED BY <1>4, <2>1, <3>1, <3>2
  <2> QED BY <1>6, <2>2, <2>3, <2>4, <2>5, <2>6, <2>7, <2>8, <2>9, <2>10 DEF Next
<1> QED BY <1>5, <1>6

\* Whatever mixture of pushes, insertions, splits, swaps, erasures and failed
\* growths led to it, an operation of vector.c copies within its blocks, or one
\* of the two blocks is gone with a growth that found no memory; and the capacity
\* of a vector is not zero: for any items, any default capacity and any bound on
\* the capacity.
THEOREM RoomAlways ==
    ASSUME VectorAssumption
    PROVE  Spec => []RoomForItems
<1>1. Init => VInv
      BY InitVector
<1>2. VInv /\ [Next]_vvars => VInv'
      BY NextVector
<1>3. VInv => RoomForItems
      BY DEF VInv, VGood, Good, RoomForItems
<1> QED BY <1>1, <1>2, <1>3, PTL DEF Spec

\* The capacity, the block of memory and the reallocations of vector.c implement
\* the plain sequence of FortSeq: an item a caller put in stays where it is until
\* a caller moves it or a growth runs out of memory, and nothing moves after a
\* copy from or to nowhere.
THEOREM ImplementsSequence ==
    ASSUME VectorAssumption
    PROVE  Spec => IsSequence
<1>1. Init => VInv /\ Abstract!Init
      BY InitVector
<1>2. VInv /\ [Next]_vvars => VInv' /\ [Abstract!Next]_(Abstract!svars)
      BY NextVector
<1> QED BY <1>1, <1>2, PTL DEF Spec, IsSequence, Abstract!Spec
-----------------------------------------------------------------------------
(* SetIsLocal and SetTakesEffect *)

StyleSets == SUBSET (Bits \cup {"default"})

PropValues ==
    { f \in [Properties -> Int \cup StyleSets] :
        \A p \in Properties : IF p \in Styles THEN f[p] \in StyleSets ELSE f[p] \in Int }

PropRecords == [row : AnyRow, col : AnyCol, flags : SUBSET Properties, values : PropValues]

\* A table has at most one record for a row and a column.
Unique(cont) ==
    \A i, j \in DOMAIN cont : cont[i].row = cont[j].row /\ cont[i].col = cont[j].col => i = j

PropsOfTable ==
    [cell_properties : { c \in Seq(PropRecords) : Unique(c) }, border_style : Borders, margin : Int]

\* The inductive invariant of the properties.
PInv ==
    /\ defaults \in [flags : SUBSET Properties, values : PropValues]
    /\ globals \in [border_style : Borders, margin : Int]
    /\ tables \in [Tables -> PropsOfTable \cup {None}]

-----------------------------------------------------------------------------
\* The least member of a set is its minimum.
LEMMA LeastIsMin ==
    ASSUME NEW S \in SUBSET Int, NEW m \in S, \A n \in S : m <= n
    PROVE  Min(S) = m
<1>1. Min(S) \in S /\ \A n \in S : Min(S) <= n
      BY DEF Min
<1>2. Min(S) \in Int /\ m \in Int /\ Min(S) <= m /\ m <= Min(S)
      BY <1>1
<1> HIDE DEF Min
<1> QED BY <1>2

\* The minimum of one number.
LEMMA MinOfOne ==
    ASSUME NEW i \in Int PROVE Min({i}) = i
BY DEF Min

\* Where the record of a row and a column is.
LEMMA PositionFacts ==
    ASSUME NEW cont \in Seq(PropRecords), Unique(cont), NEW row, NEW col,
           NEW i \in Position(cont, row, col)
    PROVE  /\ Position(cont, row, col) = {i} /\ Min(Position(cont, row, col)) = i
           /\ i \in 1..Len(cont) /\ cont[i].row = row /\ cont[i].col = col
<1>1. Len(cont) \in Nat /\ DOMAIN cont = 1..Len(cont)
      BY LenProperties
<1>2. i \in 1..Len(cont) /\ cont[i].row = row /\ cont[i].col = col
      BY <1>1 DEF Position
<1>3. Position(cont, row, col) = {i}
      BY <1>2 DEF Position, Unique
<1> QED BY <1>2, <1>3, MinOfOne

\* A new value has the type of its property.
LEMMA ValueFacts ==
    ASSUME PropsAssumption, NEW f \in PropValues, NEW p \in Properties, NEW v \in ValuesOf(p)
    PROVE  [f EXCEPT ![p] = IF ~Accepted(p, v) THEN @
                            ELSE IF p \in Styles THEN StyleWith(@, v) ELSE v] \in PropValues
<1>1. CASE p \in Styles
  <2>1. f[p] \in StyleSets
        BY <1>1 DEF PropValues
  <2>2. v \in StyleSets
        BY <1>1 DEF ValuesOf, StyleSets, FT_TSTYLE_DEFAULT
  <2>3. StyleWith(f[p], v) \in StyleSets
        BY <2>1, <2>2 DEF StyleWith, StyleSets
  <2> QED BY <1>1, <2>1, <2>3 DEF PropValues
<1>2. CASE p \notin Styles
  <2>1. f[p] \in Int
        BY <1>2 DEF PropValues
  <2>2. v \in Int
        BY <1>2 DEF ValuesOf, PropsAssumption
  <2> QED BY <1>2, <2>1, <2>2 DEF PropValues
<1> QED BY <1>1, <1>2

\* What set_cell_property_impl does to a record.
LEMMA ImplFacts ==
    ASSUME PropsAssumption, NEW opt \in PropRecords, NEW p \in Properties, NEW v \in ValuesOf(p)
    PROVE  LET new == set_cell_property_impl(opt, p, v)
           IN  /\ new \in PropRecords /\ new.row = opt.row /\ new.col = opt.col
               /\ new.flags = opt.flags \cup {p}
               /\ \A q \in Properties : q # p => new.values[q] = opt.values[q]
               /\ Accepted(p, v) /\ p \notin Styles => new.values[p] = v
<1> DEFINE f == opt.values
           g == [f EXCEPT ![p] = IF ~Accepted(p, v) THEN @
                                 ELSE IF p \in Styles THEN StyleWith(@, v) ELSE v]
           new == set_cell_property_impl(opt, p, v)
<1>1. f \in PropValues /\ DOMAIN f = Properties
      BY DEF PropRecords, PropValues
<1>2. g \in PropValues
      BY <1>1, ValueFacts
<1>3. new = [opt EXCEPT !.flags = opt.flags \cup {p}, !.values = g]
      BY DEF set_cell_property_impl
<1>4. \A q \in Properties : q # p => g[q] = f[q]
      BY <1>1
<1>5. Accepted(p, v) /\ p \notin Styles => g[p] = v
      BY <1>1
<1> HIDE DEF g
<1>6. new \in PropRecords /\ new.row = opt.row /\ new.col = opt.col
      /\ new.flags = opt.flags \cup {p} /\ new.values = g
      BY <1>2, <1>3 DEF PropRecords
<1> QED BY <1>4, <1>5, <1>6

\* A new record sets nothing, or it is for all cells and shows the defaults.
LEMMA NewEntryFacts ==
    ASSUME PropsAssumption, PInv, NEW row \in AnyRow, NEW col \in AnyCol
    PROVE  /\ NewEntry(row, col) \in PropRecords
           /\ NewEntry(row, col).row = row /\ NewEntry(row, col).col = col
           /\ \A q \in Properties : q \in NewEntry(row, col).flags =>
                row = ANY /\ col = ANY /\ NewEntry(row, col).values[q] = defaults.values[q]
<1>1. [p \in Properties |-> Zero(p)] \in PropValues
      BY DEF PropValues, Zero, StyleSets
<1>2. defaults.flags \in SUBSET Properties /\ defaults.values \in PropValues
      BY DEF PInv
<1> QED BY <1>1, <1>2 DEF NewEntry, PropRecords

\* What set_cell_property does to the records: the one for row and col is the old
\* or a new one with p set, the others stay as and where they were.
LEMMA SetFacts ==
    ASSUME PropsAssumption, PInv, NEW cont \in Seq(PropRecords), Unique(cont),
           NEW row \in AnyRow, NEW col \in AnyCol, NEW p \in Properties, NEW v \in ValuesOf(p),
           NEW new, new = set_cell_property(cont, row, col, p, v)
    PROVE  /\ new \in Seq(PropRecords) /\ Unique(new)
           /\ \A a, b : <<a, b>> # <<row, col>> =>
                /\ Position(new, a, b) = Position(cont, a, b)
                /\ \A i \in Position(cont, a, b) : new[i] = cont[i]
           /\ \E k \in 1..Len(new), old \in PropRecords :
                /\ Position(new, row, col) = {k} /\ new[k] = set_cell_property_impl(old, p, v)
                /\ \/ Position(cont, row, col) = {k} /\ old = cont[k]
                   \/ Position(cont, row, col) = {} /\ old = NewEntry(row, col)
<1>1. Len(cont) \in Nat /\ DOMAIN cont = 1..Len(cont)
      BY LenProperties
<1>2. PICK c : c = get_cell_prop_and_create_if_not_exists(cont, row, col)
      OBVIOUS
<1>3. \E k \in Nat, old \in PropRecords :
        /\ c \in Seq(PropRecords) /\ Len(c) \in Nat /\ k \in 1..Len(c) /\ c[k] = old
        /\ old.row = row /\ old.col = col
        /\ \A i \in 1..Len(c) : i # k => i \in 1..Len(cont) /\ c[i] = cont[i]
        /\ \A i \in 1..Len(cont) : i \in 1..Len(c)
        /\ \A i \in 1..Len(cont) : i # k => ~(cont[i].row = row /\ cont[i].col = col)
        /\ \/ Position(cont, row, col) = {k} /\ old = cont[k]
           \/ Position(cont, row, col) = {} /\ old = NewEntry(row, col) /\ k \notin 1..Len(cont)
  <2>1. CASE Position(cont, row, col) = {}
    <3>1. c = Append(cont, NewEntry(row, col))
          BY <1>2, <2>1 DEF get_cell_prop_and_create_if_not_exists
    <3>2. NewEntry(row, col) \in PropRecords /\ NewEntry(row, col).row = row /\ NewEntry(row, col).col = col
          BY NewEntryFacts
    <3>3. c \in Seq(PropRecords) /\ Len(c) = Len(cont) + 1 /\ c[Len(cont) + 1] = NewEntry(row, col)
          /\ \A i \in 1..Len(cont) : c[i] = cont[i]
          BY <3>1, <3>2, AppendProperties
    <3>4. \A i \in 1..Len(cont) : ~(cont[i].row = row /\ cont[i].col = col)
          BY <1>1, <2>1 DEF Position
    <3>5. Len(c) \in Nat /\ Len(cont) + 1 \in 1..Len(c) /\ Len(cont) + 1 \in Nat
          /\ Len(cont) + 1 \notin 1..Len(cont)
          /\ (\A i \in 1..Len(c) : i # Len(cont) + 1 => i \in 1..Len(cont))
          /\ (\A i \in 1..Len(cont) : i \in 1..Len(c))
          BY <1>1, <3>3
    <3> QED BY <2>1, <3>2, <3>3, <3>4, <3>5
  <2>2. CASE Position(cont, row, col) # {}
    <3>1. PICK k \in Position(cont, row, col) : TRUE
          BY <2>2
    <3>2. Position(cont, row, col) = {k} /\ k \in 1..Len(cont) /\ cont[k].row = row /\ cont[k].col = col
          BY PositionFacts
    <3>3. c = cont
          BY <1>2, <2>2 DEF get_cell_prop_and_create_if_not_exists
    <3>4. cont[k] \in PropRecords /\ k \in Nat
          BY <3>2, <1>1, ElementOfSeq
    <3>5. \A i \in 1..Len(cont) : i # k => ~(cont[i].row = row /\ cont[i].col = col)
          BY <1>1, <3>2 DEF Unique
    <3> QED BY <1>1, <3>2, <3>3, <3>4, <3>5
  <2> QED BY <2>1, <2>2
<1>4. PICK k \in Nat, old \in PropRecords :
        /\ c \in Seq(PropRecords) /\ Len(c) \in Nat /\ k \in 1..Len(c) /\ c[k] = old
        /\ old.row = row /\ old.col = col
        /\ \A i \in 1..Len(c) : i # k => i \in 1..Len(cont) /\ c[i] = cont[i]
        /\ \A i \in 1..Len(cont) : i \in 1..Len(c)
        /\ \A i \in 1..Len(cont) : i # k => ~(cont[i].row = row /\ cont[i].col = col)
        /\ \/ Position(cont, row, col) = {k} /\ old = cont[k]
           \/ Position(cont, row, col) = {} /\ old = NewEntry(row, col) /\ k \notin 1..Len(cont)
      BY <1>3
<1>5. DOMAIN c = 1..Len(c)
      BY <1>4, LenProperties
<1>6. Position(c, row, col) = {k}
      BY <1>4, <1>5 DEF Position
<1>7. PICK opt : opt = set_cell_property_impl(old, p, v)
      OBVIOUS
<1>8. opt \in PropRecords /\ opt.row = row /\ opt.col = col
      BY <1>4, <1>7, ImplFacts
<1>9. new = [c EXCEPT ![k] = opt]
  <2>1. Min(Position(c, row, col)) = k
        BY <1>6, MinOfOne
  <2> QED BY <1>2, <1>4, <1>7, <2>1 DEF set_cell_property
<1>10. new \in Seq(PropRecords) /\ Len(new) = Len(c) /\ new[k] = opt
       /\ \A i \in 1..Len(c) : i # k => new[i] = c[i]
      BY <1>4, <1>8, <1>9, ExceptSeq
<1>11. DOMAIN new = 1..Len(c)
      BY <1>10, LenProperties
<1>12. \A i \in 1..Len(c) : i # k => new[i] = cont[i] /\ i \in 1..Len(cont)
      BY <1>4, <1>10
<1>13. Unique(new)
  <2>1. SUFFICES ASSUME NEW i \in 1..Len(c), NEW j \in 1..Len(c),
                        new[i].row = new[j].row, new[i].col = new[j].col
                 PROVE  i = j
        BY <1>11 DEF Unique
  <2>2. CASE i = k \/ j = k
        BY <1>4, <1>8, <1>10, <1>12, <2>1, <2>2
  <2>3. CASE i # k /\ j # k
        BY <1>1, <1>12, <2>1, <2>3 DEF Unique
  <2> QED BY <2>2, <2>3
<1>14. ASSUME NEW a, NEW b, <<a, b>> # <<row, col>>
       PROVE  /\ Position(new, a, b) = Position(cont, a, b)
              /\ \A i \in Position(cont, a, b) : new[i] = cont[i]
  <2>1. ~(a = row /\ b = col)
        BY <1>14
  <2>2. \A i : i \in Position(new, a, b) <=> i \in Position(cont, a, b)
    <3> SUFFICES ASSUME NEW i PROVE i \in Position(new, a, b) <=> i \in Position(cont, a, b)
        OBVIOUS
    <3>1. ASSUME i \in Position(new, a, b) PROVE i \in Position(cont, a, b)
          BY <1>1, <1>8, <1>10, <1>11, <1>12, <2>1, <3>1 DEF Position
    <3>2. ASSUME i \in Position(cont, a, b) PROVE i \in Position(new, a, b)
      <4>1. i \in 1..Len(cont) /\ cont[i].row = a /\ cont[i].col = b
            BY <1>1, <3>2 DEF Position
      <4>2. i # k
            BY <1>4, <2>1, <4>1
      <4> QED BY <1>4, <1>11, <1>12, <4>1, <4>2 DEF Position
    <3> QED BY <3>1, <3>2
  <2>3. ASSUME NEW i \in Position(cont, a, b) PROVE new[i] = cont[i]
    <3>1. i \in 1..Len(cont) /\ cont[i].row = a /\ cont[i].col = b
          BY <1>1 DEF Position
    <3>2. i # k
          BY <1>4, <2>1, <3>1
    <3> QED BY <1>4, <1>12, <3>1, <3>2
  <2> QED BY <2>2, <2>3
<1>15. Position(new, row, col) = {k}
  <2>1. k \in Position(new, row, col)
        BY <1>4, <1>8, <1>10, <1>11 DEF Position
  <2> QED BY <1>10, <1>13, <2>1, PositionFacts
<1>16. k \in 1..Len(new) /\ new[k] = set_cell_property_impl(old, p, v)
      BY <1>4, <1>7, <1>10
<1> QED BY <1>4, <1>10, <1>13, <1>14, <1>15, <1>16

-----------------------------------------------------------------------------
(* What a cell shows *)

\* get_cell_property_hierarchically, with the default value as a parameter, and
\* the same as a chain of choices.
Found(cont, d, row, col, p) ==
    LET order == <<<<row, col>>, <<ANY, col>>, <<row, ANY>>, <<ANY, ANY>>>>
        found == { k \in DOMAIN order : SetsAt(cont, order[k][1], order[k][2], p) }
    IN  IF found = {} THEN d
        ELSE cont[Min(Position(cont, order[Min(found)][1], order[Min(found)][2]))].values[p]

ValueAt(cont, row, col, p) == cont[Min(Position(cont, row, col))].values[p]

Chosen(cont, d, row, col, p) ==
    IF SetsAt(cont, row, col, p) THEN ValueAt(cont, row, col, p)
    ELSE IF SetsAt(cont, ANY, col, p) THEN ValueAt(cont, ANY, col, p)
    ELSE IF SetsAt(cont, row, ANY, p) THEN ValueAt(cont, row, ANY, p)
    ELSE IF SetsAt(cont, ANY, ANY, p) THEN ValueAt(cont, ANY, ANY, p)
    ELSE d

\* The first of the four records that sets a property decides.
LEMMA FoundIsChosen ==
    ASSUME NEW cont, NEW d, NEW row, NEW col, NEW p
    PROVE  Found(cont, d, row, col, p) = Chosen(cont, d, row, col, p)
<1> DEFINE order == <<<<row, col>>, <<ANY, col>>, <<row, ANY>>, <<ANY, ANY>>>>
           found == { k \in DOMAIN order : SetsAt(cont, order[k][1], order[k][2], p) }
<1>1. DOMAIN order = {1, 2, 3, 4}
      OBVIOUS
<1>2. /\ order[1][1] = row /\ order[1][2] = col /\ order[2][1] = ANY /\ order[2][2] = col
      /\ order[3][1] = row /\ order[3][2] = ANY /\ order[4][1] = ANY /\ order[4][2] = ANY
      OBVIOUS
<1>3. /\ 1 \in found <=> SetsAt(cont, row, col, p)
      /\ 2 \in found <=> SetsAt(cont, ANY, col, p)
      /\ 3 \in found <=> SetsAt(cont, row, ANY, p)
      /\ 4 \in found <=> SetsAt(cont, ANY, ANY, p)
      /\ found \subseteq {1, 2, 3, 4}
      BY <1>1, <1>2
<1>4. Found(cont, d, row, col, p) =
        IF found = {} THEN d ELSE ValueAt(cont, order[Min(found)][1], order[Min(found)][2], p)
      BY DEF Found, ValueAt
<1> HIDE DEF found
<1>5. ASSUME NEW m \in found, \A n \in found : m <= n PROVE Min(found) = m
      BY <1>3, <1>5, LeastIsMin
<1> HIDE DEF order
<1>6. CASE 1 \in found
  <2>1. Min(found) = 1
        BY <1>3, <1>5, <1>6
  <2> QED BY <1>2, <1>3, <1>4, <1>6, <2>1 DEF Chosen
<1>7. CASE 1 \notin found /\ 2 \in found
  <2>1. Min(found) = 2
        BY <1>3, <1>5, <1>7
  <2> QED BY <1>2, <1>3, <1>4, <1>7, <2>1 DEF Chosen
<1>8. CASE 1 \notin found /\ 2 \notin found /\ 3 \in found
  <2>1. Min(found) = 3
        BY <1>3, <1>5, <1>8
  <2> QED BY <1>2, <1>3, <1>4, <1>8, <2>1 DEF Chosen
<1>9. CASE 1 \notin found /\ 2 \notin found /\ 3 \notin found /\ 4 \in found
  <2>1. Min(found) = 4
        BY <1>3, <1>5, <1>9
  <2> QED BY <1>2, <1>3, <1>4, <1>9, <2>1 DEF Chosen
<1>10. CASE 1 \notin found /\ 2 \notin found /\ 3 \notin found /\ 4 \notin found
  <2>1. found = {}
        BY <1>3, <1>10
  <2> QED BY <1>3, <1>4, <1>10, <2>1 DEF Chosen
<1> QED BY <1>6, <1>7, <1>8, <1>9, <1>10

\* What set_cell_property means for the look-ups.
LEMMA SetMeans ==
    ASSUME PropsAssumption, PInv, NEW cont \in Seq(PropRecords), Unique(cont),
           NEW row \in AnyRow, NEW col \in AnyCol, NEW p \in Properties, NEW v \in ValuesOf(p),
           NEW new, new = set_cell_property(cont, row, col, p, v)
    PROVE  /\ new \in Seq(PropRecords) /\ Unique(new)
           /\ \A a, b, q : <<a, b>> # <<row, col>> =>
                /\ SetsAt(new, a, b, q) <=> SetsAt(cont, a, b, q)
                /\ SetsAt(cont, a, b, q) => ValueAt(new, a, b, q) = ValueAt(cont, a, b, q)
           /\ \A q \in Properties : q # p =>
                \/ /\ SetsAt(new, row, col, q) <=> SetsAt(cont, row, col, q)
                   /\ SetsAt(cont, row, col, q) => ValueAt(new, row, col, q) = ValueAt(cont, row, col, q)
                \/ /\ row = ANY /\ col = ANY /\ ~SetsAt(cont, row, col, q)
                   /\ ValueAt(new, row, col, q) = defaults.values[q]
           /\ SetsAt(new, row, col, p)
           /\ Accepted(p, v) /\ p \notin Styles => ValueAt(new, row, col, p) = v
<1>1. /\ new \in Seq(PropRecords) /\ Unique(new)
      /\ \A a, b : <<a, b>> # <<row, col>> =>
           /\ Position(new, a, b) = Position(cont, a, b)
           /\ \A i \in Position(cont, a, b) : new[i] = cont[i]
      BY SetFacts
<1>2. PICK k \in 1..Len(new), old \in PropRecords :
        /\ Position(new, row, col) = {k} /\ new[k] = set_cell_property_impl(old, p, v)
        /\ \/ Position(cont, row, col) = {k} /\ old = cont[k]
           \/ Position(cont, row, col) = {} /\ old = NewEntry(row, col)
      BY SetFacts
<1>3. /\ new[k].flags = old.flags \cup {p}
      /\ \A q \in Properties : q # p => new[k].values[q] = old.values[q]
      /\ Accepted(p, v) /\ p \notin Styles => new[k].values[p] = v
      BY <1>2, ImplFacts
<1>4. k \in Int /\ Min({k}) = k
      BY <1>1, <1>2, LenProperties, MinOfOne
<1>5. ASSUME NEW a, NEW b, NEW q, <<a, b>> # <<row, col>>
      PROVE  /\ SetsAt(new, a, b, q) <=> SetsAt(cont, a, b, q)
             /\ SetsAt(cont, a, b, q) => ValueAt(new, a, b, q) = ValueAt(cont, a, b, q)
  <2>1. Position(new, a, b) = Position(cont, a, b) /\ \A i \in Position(cont, a, b) : new[i] = cont[i]
        BY <1>1, <1>5
  <2>2. SetsAt(new, a, b, q) <=> SetsAt(cont, a, b, q)
        BY <2>1 DEF SetsAt
  <2>3. ASSUME SetsAt(cont, a, b, q) PROVE ValueAt(new, a, b, q) = ValueAt(cont, a, b, q)
    <3>1. PICK i \in Position(cont, a, b) : TRUE
          BY <2>3 DEF SetsAt
    <3>2. Min(Position(cont, a, b)) = i
          BY PositionFacts
    <3> QED BY <2>1, <3>1, <3>2 DEF ValueAt
  <2> QED BY <2>2, <2>3
<1>6. \A q : SetsAt(new, row, col, q) <=> q \in old.flags \cup {p}
      BY <1>2, <1>3 DEF SetsAt
<1>7. \A q : ValueAt(new, row, col, q) = new[k].values[q]
      BY <1>2, <1>4 DEF ValueAt
<1>8. ASSUME NEW q \in Properties, q # p
      PROVE  \/ /\ SetsAt(new, row, col, q) <=> SetsAt(cont, row, col, q)
                /\ SetsAt(cont, row, col, q) => ValueAt(new, row, col, q) = ValueAt(cont, row, col, q)
             \/ /\ row = ANY /\ col = ANY /\ ~SetsAt(cont, row, col, q)
                /\ ValueAt(new, row, col, q) = defaults.values[q]
  <2>1. ValueAt(new, row, col, q) = old.values[q] /\ (SetsAt(new, row, col, q) <=> q \in old.flags)
        BY <1>3, <1>6, <1>7, <1>8
  <2>2. CASE Position(cont, row, col) = {k} /\ old = cont[k]
    <3>1. SetsAt(cont, row, col, q) <=> q \in old.flags
          BY <2>2 DEF SetsAt
    <3>2. ValueAt(cont, row, col, q) = old.values[q]
          BY <1>4, <2>2 DEF ValueAt
    <3> QED BY <2>1, <3>1, <3>2
  <2>3. CASE Position(cont, row, col) = {} /\ old = NewEntry(row, col)
    <3>1. ~SetsAt(cont, row, col, q)
          BY <2>3 DEF SetsAt
    <3>2. q \in old.flags => row = ANY /\ col = ANY /\ old.values[q] = defaults.values[q]
          BY <2>3, NewEntryFacts
    <3> QED BY <2>1, <3>1, <3>2
  <2> QED BY <1>2, <2>2, <2>3
<1>9. SetsAt(new, row, col, p) /\ (Accepted(p, v) /\ p \notin Styles => ValueAt(new, row, col, p) = v)
      BY <1>3, <1>6, <1>7
<1> QED BY <1>1, <1>5, <1>8, <1>9

\* The invariant holds at the start.
LEMMA PropsInvInit ==
    ASSUME PropsAssumption, PropsInit PROVE PInv
<1>1. Initial \in PropValues
  <2>1. \A p \in Properties : IF p \in Styles THEN Initial[p] \in StyleSets ELSE Initial[p] \in Int
        BY DEF PropsAssumption, StyleSets, FT_TSTYLE_DEFAULT
  <2>2. Initial = [p \in Properties |-> Initial[p]]
        BY DEF PropsAssumption
  <2>3. Initial \in [Properties -> Int \cup StyleSets]
        BY <2>1, <2>2
  <2> QED BY <2>1, <2>3 DEF PropValues
<1>2. defaults \in [flags : SUBSET Properties, values : PropValues]
      BY <1>1 DEF PropsInit
<1>3. globals \in [border_style : Borders, margin : Int]
      BY DEF PropsInit
<1>4. tables \in [Tables -> PropsOfTable \cup {None}]
      BY DEF PropsInit
<1> QED BY <1>2, <1>3, <1>4 DEF PInv

\* Every call keeps the invariant.
LEMMA PropsInvStep ==
    ASSUME PropsAssumption, PInv, [PropsNext]_pvars PROVE PInv'
<1> DEFINE D == [flags : SUBSET Properties, values : PropValues]
           G == [border_style : Borders, margin : Int]
<1>1. defaults \in D /\ globals \in G /\ tables \in [Tables -> PropsOfTable \cup {None}]
      BY DEF PInv
<1>2. ASSUME NEW t \in Tables, ft_create_table(t) PROVE PInv'
  <2>1. <<>> \in Seq(PropRecords) /\ Unique(<<>>)
        BY EmptySeq DEF Unique
  <2>2. create_table_properties \in PropsOfTable
        BY <1>1, <2>1 DEF create_table_properties, PropsOfTable
  <2> QED BY <1>1, <1>2, <2>2 DEF ft_create_table, PInv
<1>3. ASSUME NEW t \in Tables, destroy_table_properties(t) PROVE PInv'
      BY <1>1, <1>3 DEF destroy_table_properties, PInv
<1>4. ASSUME NEW t \in Tables, NEW u \in Tables, copy_table_properties(t, u) PROVE PInv'
      BY <1>1, <1>4 DEF copy_table_properties, PInv
<1>5. ASSUME NEW t \in Tables, NEW row \in AnyRow, NEW col \in AnyCol, NEW p \in Properties,
             NEW v \in ValuesOf(p), ft_set_cell_prop(t, row, col, p, v)
      PROVE  PInv'
  <2>1. PICK cont : cont = tables[t].cell_properties
        OBVIOUS
  <2>2. PICK new : new = set_cell_property(cont, row, col, p, v)
        OBVIOUS
  <2>3. tables[t] \in PropsOfTable /\ cont \in Seq(PropRecords) /\ Unique(cont)
        BY <1>1, <1>5, <2>1 DEF ft_set_cell_prop, Exists, PropsOfTable
  <2>4. new \in Seq(PropRecords) /\ Unique(new)
        BY <2>2, <2>3, SetMeans
  <2>5. [tables[t] EXCEPT !.cell_properties = new] \in PropsOfTable
        BY <2>3, <2>4 DEF PropsOfTable
  <2>6. tables' = [tables EXCEPT ![t] = [tables[t] EXCEPT !.cell_properties = new]]
        BY <1>1, <1>5, <2>1, <2>2 DEF ft_set_cell_prop
  <2>7. UNCHANGED <<defaults, globals>>
        BY <1>5 DEF ft_set_cell_prop
  <2> QED BY <1>1, <2>5, <2>6, <2>7 DEF PInv
<1>6. ASSUME NEW p \in Properties, NEW v \in ValuesOf(p), set_default_cell_property(p, v) PROVE PInv'
  <2>1. PICK g : g = [defaults.values EXCEPT ![p] = IF ~Accepted(p, v) THEN @
                            ELSE IF p \in Styles THEN StyleWith(@, v) ELSE v]
        OBVIOUS
  <2>2. g \in PropValues
        BY <1>1, <2>1, ValueFacts
  <2>3. defaults' = [defaults EXCEPT !.flags = defaults.flags \cup {p}, !.values = g]
        BY <1>6, <2>1 DEF set_default_cell_property, set_cell_property_impl
  <2>4. defaults' \in D
        BY <1>1, <2>2, <2>3
  <2> QED BY <1>1, <1>6, <2>4 DEF set_default_cell_property, PInv
<1>7. ASSUME NEW v \in Margins, NEW t \in Tables, ft_set_tbl_prop(t, v) PROVE PInv'
  <2>1. v \in Int /\ tables[t] \in PropsOfTable
        BY <1>1, <1>7 DEF ft_set_tbl_prop, Exists, PropsAssumption
  <2>2. [tables[t] EXCEPT !.margin = v] \in PropsOfTable
        BY <2>1 DEF PropsOfTable
  <2> QED BY <1>1, <1>7, <2>2 DEF ft_set_tbl_prop, PInv
<1>8. ASSUME NEW v \in Margins, ft_set_default_tbl_prop(v) PROVE PInv'
      BY <1>1, <1>8 DEF ft_set_default_tbl_prop, PInv, PropsAssumption
<1>9. ASSUME NEW style \in Borders, NEW t \in Tables, ft_set_border_style(t, style) PROVE PInv'
  <2>1. tables[t] \in PropsOfTable
        BY <1>1, <1>9 DEF ft_set_border_style, Exists
  <2>2. [tables[t] EXCEPT !.border_style = style] \in PropsOfTable
        BY <2>1 DEF PropsOfTable
  <2> QED BY <1>1, <1>9, <2>2 DEF ft_set_border_style, PInv
<1>10. ASSUME NEW style \in Borders, ft_set_default_border_style(style) PROVE PInv'
      BY <1>1, <1>10 DEF ft_set_default_border_style, PInv
<1>11. CASE UNCHANGED pvars
      BY <1>1, <1>11 DEF pvars, PInv
<1> QED BY <1>2, <1>3, <1>4, <1>5, <1>6, <1>7, <1>8, <1>9, <1>10, <1>11
        DEF PropsNext, PropsStep, SetCellProp, SetDefaultCellProp

\* The step of ft_set_cell_prop, in terms of what cells show.
LEMMA ShownFacts ==
    ASSUME PInv, NEW t \in Tables, NEW row \in AnyRow, NEW col \in AnyCol, NEW p \in Properties,
           NEW v \in ValuesOf(p), ft_set_cell_prop(t, row, col, p, v)
    PROVE  /\ tables[t].cell_properties \in Seq(PropRecords) /\ Unique(tables[t].cell_properties)
           /\ \A u \in Tables : tables'[u].cell_properties =
                IF u = t THEN set_cell_property(tables[t].cell_properties, row, col, p, v)
                ELSE tables[u].cell_properties
           /\ \A u \in Tables, r \in Rows, c \in Cols, q \in Properties :
                /\ Shown(u, r, c, q) = Chosen(tables[u].cell_properties, defaults.values[q], r, c, q)
                /\ Shown(u, r, c, q)' = Chosen(tables'[u].cell_properties, defaults.values[q], r, c, q)
<1>1. tables \in [Tables -> PropsOfTable \cup {None}]
      BY DEF PInv
<1>2. tables[t] \in PropsOfTable
      BY <1>1 DEF ft_set_cell_prop, Exists
<1>3. tables' = [tables EXCEPT ![t] = [tables[t] EXCEPT !.cell_properties =
                    set_cell_property(tables[t].cell_properties, row, col, p, v)]]
      BY <1>1 DEF ft_set_cell_prop
<1>4. defaults' = defaults
      BY DEF ft_set_cell_prop
<1>5. ASSUME NEW u, NEW r, NEW c, NEW q
      PROVE  /\ Shown(u, r, c, q) = Found(tables[u].cell_properties, defaults.values[q], r, c, q)
             /\ Shown(u, r, c, q)' = Found(tables'[u].cell_properties, defaults'.values[q], r, c, q)
      BY DEF Shown, Found, get_cell_property_hierarchically
<1>6. /\ tables[t].cell_properties \in Seq(PropRecords) /\ Unique(tables[t].cell_properties)
      BY <1>2 DEF PropsOfTable
<1>7. ASSUME NEW u \in Tables
      PROVE  tables'[u].cell_properties =
                IF u = t THEN set_cell_property(tables[t].cell_properties, row, col, p, v)
                ELSE tables[u].cell_properties
  <2>1. CASE u = t
        BY <1>1, <1>2, <1>3, <2>1 DEF PropsOfTable
  <2>2. CASE u # t
        BY <1>1, <1>3, <2>2
  <2> QED BY <2>1, <2>2
<1>8. ASSUME NEW u \in Tables, NEW r \in Rows, NEW c \in Cols, NEW q \in Properties
      PROVE  /\ Shown(u, r, c, q) = Chosen(tables[u].cell_properties, defaults.values[q], r, c, q)
             /\ Shown(u, r, c, q)' = Chosen(tables'[u].cell_properties, defaults.values[q], r, c, q)
      BY <1>4, <1>5, FoundIsChosen
<1> QED BY <1>6, <1>7, <1>8

\* SetIsLocal, for one step and one cell.
LEMMA LocalStep ==
    ASSUME PropsAssumption, PInv, NEW t \in Tables, NEW row \in AnyRow, NEW col \in AnyCol,
           NEW p \in Properties, NEW v \in ValuesOf(p), ft_set_cell_prop(t, row, col, p, v),
           NEW u \in Tables, NEW r \in Rows, NEW c \in Cols, NEW q \in Properties,
           u # t \/ q # p \/ ~Covers(row, col, r, c)
    PROVE  Shown(u, r, c, q)' = Shown(u, r, c, q)
<1>1. PICK cont : cont = tables[t].cell_properties
      OBVIOUS
<1>2. PICK new : new = set_cell_property(cont, row, col, p, v)
      OBVIOUS
<1>3. cont \in Seq(PropRecords) /\ Unique(cont)
      BY <1>1, ShownFacts
<1>4. PICK d : d = defaults.values[q]
      OBVIOUS
<1>5. CASE u # t
      BY <1>5, ShownFacts
<1>6. CASE u = t
  <2>1. /\ Shown(u, r, c, q) = Chosen(cont, d, r, c, q)
        /\ Shown(u, r, c, q)' = Chosen(new, d, r, c, q)
        BY <1>1, <1>2, <1>4, <1>6, ShownFacts
  <2>2. \A a, b : <<a, b>> # <<row, col>> =>
                /\ SetsAt(new, a, b, q) <=> SetsAt(cont, a, b, q)
                /\ SetsAt(cont, a, b, q) => ValueAt(new, a, b, q) = ValueAt(cont, a, b, q)
        BY <1>2, <1>3, SetMeans
  <2>3. q # p =>
          \/ /\ SetsAt(new, row, col, q) <=> SetsAt(cont, row, col, q)
             /\ SetsAt(cont, row, col, q) => ValueAt(new, row, col, q) = ValueAt(cont, row, col, q)
          \/ /\ row = ANY /\ col = ANY /\ ~SetsAt(cont, row, col, q)
             /\ ValueAt(new, row, col, q) = d
        BY <1>2, <1>3, <1>4, SetMeans
  <2>4. r # ANY /\ c # ANY
        BY DEF PropsAssumption
  <2>5. CASE ~Covers(row, col, r, c)
    <3>1. \A a \in {r, ANY}, b \in {c, ANY} : <<a, b>> # <<row, col>>
          BY <2>5 DEF Covers
    <3> QED BY <2>1, <2>2, <3>1 DEF Chosen
  <2>6. CASE q # p
    <3>1. \A a \in {r, ANY}, b \in {c, ANY} :
            \/ /\ SetsAt(new, a, b, q) <=> SetsAt(cont, a, b, q)
               /\ SetsAt(cont, a, b, q) => ValueAt(new, a, b, q) = ValueAt(cont, a, b, q)
            \/ /\ a = ANY /\ b = ANY /\ ~SetsAt(cont, a, b, q) /\ ValueAt(new, a, b, q) = d
          BY <2>2, <2>3, <2>6
    <3> QED BY <2>1, <2>4, <3>1 DEF Chosen
  <2> QED BY <1>6, <2>5, <2>6
<1> QED BY <1>5, <1>6

\* SetTakesEffect, for one step and one cell.
LEMMA EffectStep ==
    ASSUME PropsAssumption, PInv, NEW t \in Tables, NEW row \in AnyRow, NEW col \in AnyCol,
           NEW p \in Properties, p \notin Styles, NEW v \in ValuesOf(p), Accepted(p, v),
           ft_set_cell_prop(t, row, col, p, v), NEW r \in Rows, NEW c \in Cols,
           Covers(row, col, r, c),
           \A i \in DOMAIN tables[t].cell_properties :
             LET opt == tables[t].cell_properties[i]
             IN  ~(/\ Covers(opt.row, opt.col, r, c) /\ p \in opt.flags
                   /\ <<opt.row, opt.col>> # <<row, col>>)
    PROVE  Shown(t, r, c, p)' = v
<1>1. PICK cont : cont = tables[t].cell_properties
      OBVIOUS
<1>2. PICK new : new = set_cell_property(cont, row, col, p, v)
      OBVIOUS
<1>3. cont \in Seq(PropRecords) /\ Unique(cont)
      BY <1>1, ShownFacts
<1>4. PICK d : d = defaults.values[p]
      OBVIOUS
<1>5. Shown(t, r, c, p)' = Chosen(new, d, r, c, p)
      BY <1>1, <1>2, <1>4, ShownFacts
<1>6. ASSUME NEW a \in {r, ANY}, NEW b \in {c, ANY}, <<a, b>> # <<row, col>>
      PROVE  ~SetsAt(new, a, b, p)
  <2>1. ASSUME NEW i \in Position(cont, a, b) PROVE p \notin cont[i].flags
    <3>1. i \in DOMAIN cont /\ cont[i].row = a /\ cont[i].col = b
          BY DEF Position
    <3>2. Covers(a, b, r, c)
          BY DEF Covers
    <3> QED BY <1>1, <1>6, <3>1, <3>2
  <2>2. ~SetsAt(cont, a, b, p)
        BY <2>1 DEF SetsAt
  <2> QED BY <1>2, <1>3, <1>6, <2>2, SetMeans
<1>7. SetsAt(new, row, col, p) /\ ValueAt(new, row, col, p) = v
      BY <1>2, <1>3, SetMeans
<1>8. row \in {r, ANY} /\ col \in {c, ANY}
      BY DEF Covers
<1> QED BY <1>5, <1>6, <1>7, <1>8 DEF Chosen

\* For any tables, cells, properties and values: ft_set_cell_prop changes what it
\* names and nothing else of any cell, although a record for all cells starts as
\* a copy of the defaults.
THEOREM SetIsLocalAlways ==
    ASSUME PropsAssumption
    PROVE  PropsSpec => SetIsLocal
<1>1. PropsInit => PInv
      BY PropsInvInit
<1>2. PInv /\ [PropsNext]_pvars => PInv'
      BY PropsInvStep
<1>3. PInv =>
       \A t \in Modified, row \in AnyRow, col \in AnyCol, p \in Properties :
         (\E v \in ValuesOf(p) : ft_set_cell_prop(t, row, col, p, v)) =>
           \A u \in Tables, r \in Rows, c \in Cols, q \in Properties :
             Exists(u) /\ (u # t \/ q # p \/ ~Covers(row, col, r, c)) =>
               Shown(u, r, c, q)' = Shown(u, r, c, q)
      BY LocalStep DEF Modified
<1> QED BY <1>1, <1>2, <1>3, PTL DEF PropsSpec, SetIsLocal

\* For any tables, cells, properties and values: what ft_set_cell_prop accepted
\* shows in every cell it names, unless another record sets the property too.
THEOREM SetTakesEffectAlways ==
    ASSUME PropsAssumption
    PROVE  PropsSpec => SetTakesEffect
<1>1. PropsInit => PInv
      BY PropsInvInit
<1>2. PInv /\ [PropsNext]_pvars => PInv'
      BY PropsInvStep
<1>3. PInv =>
       \A t \in Modified, row \in AnyRow, col \in AnyCol, p \in Numbers \cup Enums, v \in Values :
         ft_set_cell_prop(t, row, col, p, v) /\ Accepted(p, v) =>
           \A r \in Rows, c \in Cols :
             \/ ~Covers(row, col, r, c)
             \/ \E i \in DOMAIN tables[t].cell_properties :
                  LET opt == tables[t].cell_properties[i]
                  IN  /\ Covers(opt.row, opt.col, r, c) /\ p \in opt.flags
                      /\ <<opt.row, opt.col>> # <<row, col>>
             \/ Shown(t, r, c, p)' = v
  <2>1. SUFFICES ASSUME PInv, NEW t \in Modified, NEW row \in AnyRow, NEW col \in AnyCol,
                        NEW p \in Numbers \cup Enums, NEW v \in Values,
                        ft_set_cell_prop(t, row, col, p, v), Accepted(p, v),
                        NEW r \in Rows, NEW c \in Cols, Covers(row, col, r, c),
                        \A i \in DOMAIN tables[t].cell_properties :
                          LET opt == tables[t].cell_properties[i]
                          IN  ~(/\ Covers(opt.row, opt.col, r, c) /\ p \in opt.flags
                                /\ <<opt.row, opt.col>> # <<row, col>>)
                 PROVE  Shown(t, r, c, p)' = v
        OBVIOUS
  <2>2. p \in Properties /\ p \notin Styles /\ t \in Tables
        BY DEF Properties, PropsAssumption, Modified
  <2>3. v \in ValuesOf(p)
        BY <2>2 DEF ValuesOf
  <2> QED BY <2>1, <2>2, <2>3, EffectStep
<1> QED BY <1>1, <1>2, <1>3, PTL DEF PropsSpec, SetTakesEffect

-----------------------------------------------------------------------------
(* Tables *)

\* A nonempty set of numbers has a least one.
LEMMA LeastMember ==
    ASSUME NEW S, S \subseteq Nat, S # {}
    PROVE  \E n \in S : \A m \in S : n <= m
<1> DEFINE R == OpToRel(<, Nat)
<1>1. IsWellFoundedOn(R, Nat)
      BY NatLessThanWellFounded
<1>2. \A i, j \in Nat : i < j => <<i, j>> \in R
      BY DEF OpToRel
<1> HIDE DEF R
<1>3. PICK x \in S : \A y \in S : ~(<<y, x>> \in R)
      BY <1>1, WFMin
<1>4. x \in Nat /\ \A y \in S : y \in Nat
      OBVIOUS
<1>5. \A y \in S : ~(y < x)
      BY <1>2, <1>3, <1>4
<1>6. \A y \in S : x <= y
      BY <1>4, <1>5
<1> QED BY <1>6

\* Induction, on a set.
LEMMA SetInduction ==
    ASSUME NEW S, 0 \in S, \A n \in Nat : n \in S => n + 1 \in S
    PROVE  Nat \subseteq S
<1> SUFFICES ASSUME Nat \ S # {} PROVE FALSE
    OBVIOUS
<1>1. PICK n \in Nat \ S : \A m \in Nat \ S : n <= m
      BY LeastMember
<1>2. n # 0 /\ n - 1 \in Nat /\ ~(n <= n - 1) /\ (n - 1) + 1 = n
      BY <1>1
<1>3. n - 1 \in S
      BY <1>1, <1>2
<1> QED BY <1>1, <1>2, <1>3

-----------------------------------------------------------------------------
(* Tables and their rows *)

RowsOfCells == Seq(Cells)
TableRecords ==
    [rows : Seq(RowsOfCells), separators : Seq(BOOLEAN), cur_row : Nat, cur_col : Nat,
     add_strategy : Strategies \cup {"REPLACE"}]

\* The inductive invariant of a table that is appended to: every item of a row is
\* a cell, and the cursor is at most one column behind the last.
Whole(t) == t \in TableRecords /\ t.cur_col <= Columns(t, t.cur_row)

\* What most calls leave alone.
SameCursor(t, u) ==
    /\ u.cur_row = t.cur_row /\ u.cur_col = t.cur_col
    /\ u.separators = t.separators /\ u.add_strategy = t.add_strategy

\* The larger of two numbers.
LEMMA LargerFacts ==
    ASSUME NEW a \in Nat, NEW b \in Nat
    PROVE  Max({a, b}) = IF a >= b THEN a ELSE b
<1>1. CASE a >= b
  <2>1. a \in {a, b} /\ \A y \in {a, b} : a >= y
        BY <1>1
  <2>2. \A x \in {a, b} : (\A y \in {a, b} : x >= y) => x = a
        BY <1>1
  <2> QED BY <1>1, <2>1, <2>2 DEF Max
<1>2. CASE b > a
  <2>1. b \in {a, b} /\ \A y \in {a, b} : b >= y
        BY <1>2
  <2>2. \A x \in {a, b} : (\A y \in {a, b} : x >= y) => x = b
        BY <1>2
  <2> QED BY <1>2, <2>1, <2>2 DEF Max
<1> QED BY <1>1, <1>2

\* p is s, followed by copies of x up to the length n.
IsPadded(p, s, n, x) ==
    /\ Len(p) = IF n > Len(s) THEN n ELSE Len(s)
    /\ \A i \in 1..Len(p) : p[i] = IF i <= Len(s) THEN s[i] ELSE x

\* Padding a sequence.
LEMMA PadFacts ==
    ASSUME NEW S, NEW s \in Seq(S), NEW n \in Nat, NEW x \in S
    PROVE  Padded(s, n, x) \in Seq(S) /\ IsPadded(Padded(s, n, x), s, n, x)
<1> DEFINE k == IF n > Len(s) THEN n - Len(s) ELSE 0
           c == [i \in 1..k |-> x]
           p == s \o c
<1>1. Len(s) \in Nat /\ k \in Nat
      BY LenProperties
<1>2. c \in [1..k -> S]
      BY <1>1
<1>3. c \in Seq(S) /\ Len(c) = k
      BY <1>1, <1>2, SeqDef
<1>4. Padded(s, n, x) = s \o c
      BY DEF Padded
<1> HIDE DEF c
<1>5. /\ s \o c \in Seq(S) /\ Len(s \o c) = Len(s) + Len(c)
      /\ \A i \in 1..(Len(s) + Len(c)) : (s \o c)[i] = IF i <= Len(s) THEN s[i] ELSE c[i - Len(s)]
      BY <1>3, ConcatProperties
<1>6. \A i \in 1..k : c[i] = x
      BY DEF c
<1> HIDE DEF p
<1>7. IsPadded(p, s, n, x)
      BY <1>1, <1>3, <1>5, <1>6 DEF IsPadded, p
<1> QED BY <1>4, <1>5, <1>7 DEF p

\* Nothing is added to a sequence that is long enough.
LEMMA PadNothing ==
    ASSUME NEW S, NEW s \in Seq(S), NEW n \in Nat, n <= Len(s), NEW x
    PROVE  Padded(s, n, x) = s
<1>1. Len(s) \in Nat
      BY LenProperties
<1>2. [i \in 1..0 |-> x] = <<>>
      OBVIOUS
<1>3. Padded(s, n, x) = s \o [i \in 1..0 |-> x]
      BY <1>1 DEF Padded
<1> QED BY <1>2, <1>3, ConcatEmptySeq

\* An item in the middle of a sequence, or at its end.
LEMMA ItemInserted ==
    ASSUME NEW S, NEW s \in Seq(S), NEW k \in 1..(Len(s) + 1), NEW e \in S
    PROVE  InsertAt(s, k, e) \in Seq(S) /\ Len(InsertAt(s, k, e)) = Len(s) + 1
<1> DEFINE a == SubSeq(s, 1, k - 1)
           b == SubSeq(s, k, Len(s))
<1>1. Len(s) \in Nat /\ k \in Nat
      BY LenProperties
<1>2. /\ 1 \in 1..(Len(s) + 1) /\ k - 1 \in (1 - 1)..Len(s)
      /\ Len(s) \in (k - 1)..Len(s)
      BY <1>1
<1>3. a \in Seq(S) /\ Len(a) = k - 1
      BY <1>1, <1>2, PartFacts
<1>4. b \in Seq(S) /\ Len(b) = Len(s) - k + 1
      BY <1>1, <1>2, PartFacts
<1>5. PICK m \in Seq(S) : m = <<e>> /\ Len(m) = 1
  <2>1. <<e>> \in Seq(S) /\ Len(<<e>>) = 1
        OBVIOUS
  <2> QED BY <2>1
<1>6. InsertAt(s, k, e) = a \o m \o b
      BY <1>5 DEF InsertAt
<1> HIDE DEF a, b
<1>7. a \o m \in Seq(S) /\ Len(a \o m) = Len(a) + Len(m)
      BY <1>3, ConcatProperties
<1>8. PICK am \in Seq(S) : am = a \o m
      BY <1>7
<1>9. am \o b \in Seq(S) /\ Len(am \o b) = Len(am) + Len(b)
      BY <1>4, ConcatProperties
<1>10. PICK w \in Seq(S) : w = am \o b
      BY <1>9
<1>11. Len(w) = Len(s) + 1
  <2>1. Len(w) = (k - 1) + 1 + (Len(s) - k + 1)
        BY <1>3, <1>4, <1>5, <1>7, <1>8, <1>9, <1>10
  <2> QED BY <1>1, <2>1
<1> QED BY <1>6, <1>8, <1>10, <1>11

\* A new cell is a cell.
LEMMA NewCell == create_cell \in Cells
BY DEF create_cell, Cells

\* A table with other rows.
LEMMA OtherRows ==
    ASSUME NEW t \in TableRecords, NEW rows \in Seq(RowsOfCells)
    PROVE  LET u == [t EXCEPT !.rows = rows]
           IN  u \in TableRecords /\ u.rows = rows /\ SameCursor(t, u)
BY DEF TableRecords, SameCursor

\* The rows of a table and their lengths.
LEMMA RowOf ==
    ASSUME NEW t \in TableRecords, NEW r \in Nat
    PROVE  /\ Columns(t, r) \in Nat
           /\ r < Len(t.rows) => RowAt(t, r) \in RowsOfCells /\ Columns(t, r) = Len(RowAt(t, r))
           /\ Len(t.rows) \in Nat /\ t.rows \in Seq(RowsOfCells)
           /\ \A i \in 1..Len(t.rows) : t.rows[i] \in RowsOfCells /\ Len(t.rows[i]) \in Nat
<1>1. t.rows \in Seq(RowsOfCells)
      BY DEF TableRecords
<1>2. Len(t.rows) \in Nat
      BY <1>1, LenProperties
<1>3. \A i \in 1..Len(t.rows) : t.rows[i] \in RowsOfCells
      BY <1>1, ElementOfSeq
<1>4. \A row \in RowsOfCells : Len(row) \in Nat
      BY LenProperties DEF RowsOfCells
<1>5. r < Len(t.rows) => r + 1 \in 1..Len(t.rows)
      BY <1>2
<1> QED BY <1>1, <1>2, <1>3, <1>4, <1>5 DEF Columns, RowAt

\* A table with another row r.
LEMMA SetRowFacts ==
    ASSUME NEW t \in TableRecords, NEW r \in Nat, r < Len(t.rows), NEW row \in RowsOfCells
    PROVE  LET u == SetRow(t, r, row)
           IN  /\ u \in TableRecords /\ SameCursor(t, u)
               /\ Len(u.rows) = Len(t.rows)
               /\ RowAt(u, r) = row /\ Columns(u, r) = Len(row)
               /\ \A i \in 1..Len(t.rows) : i # r + 1 => u.rows[i] = t.rows[i]
<1> DEFINE rows == [t.rows EXCEPT ![r + 1] = row]
           u == [t EXCEPT !.rows = rows]
<1>1. t.rows \in Seq(RowsOfCells) /\ Len(t.rows) \in Nat /\ r + 1 \in 1..Len(t.rows)
      BY RowOf
<1>2. /\ rows \in Seq(RowsOfCells) /\ Len(rows) = Len(t.rows)
      /\ \A i \in 1..Len(t.rows) : rows[i] = IF i = r + 1 THEN row ELSE t.rows[i]
      BY <1>1, ExceptSeq
<1>3. SetRow(t, r, row) = u
      BY DEF SetRow
<1> HIDE DEF rows
<1>4. u \in TableRecords /\ u.rows = rows /\ SameCursor(t, u)
      BY <1>2, OtherRows
<1> HIDE DEF u
<1> QED BY <1>1, <1>2, <1>3, <1>4 DEF RowAt, Columns

\* A table with empty rows added, up to n rows.
LEMMA PadRows ==
    ASSUME NEW t \in TableRecords, NEW n \in Nat
    PROVE  LET u == [t EXCEPT !.rows = Padded(t.rows, n, <<>>)]
           IN  u \in TableRecords /\ SameCursor(t, u) /\ IsPadded(u.rows, t.rows, n, <<>>)
<1>1. t.rows \in Seq(RowsOfCells) /\ <<>> \in RowsOfCells
      BY EmptySeq DEF RowsOfCells, TableRecords
<1>2. PICK s \in Seq(RowsOfCells), e \in RowsOfCells : s = t.rows /\ e = <<>>
      BY <1>1
<1>3. PICK q : q = Padded(s, n, e)
      OBVIOUS
<1>4. q \in Seq(RowsOfCells) /\ IsPadded(q, s, n, e)
      BY <1>3, PadFacts
<1>5. PICK u : u = [t EXCEPT !.rows = q]
      OBVIOUS
<1>6. u \in TableRecords /\ u.rows = q /\ SameCursor(t, u)
      BY <1>4, <1>5, OtherRows
<1> QED BY <1>2, <1>3, <1>4, <1>5, <1>6

\* The row r exists afterwards; the rows added for it are empty.
LEMMA CreateRow ==
    ASSUME NEW t \in TableRecords, NEW r \in Nat
    PROVE  LET p == get_row_and_create_if_not_exists(t, r)
           IN  /\ p \in TableRecords /\ SameCursor(t, p)
               /\ Len(p.rows) = (IF r + 1 > Len(t.rows) THEN r + 1 ELSE Len(t.rows))
               /\ r < Len(p.rows) /\ RowAt(p, r) \in RowsOfCells
               /\ Len(RowAt(p, r)) = Columns(t, r) /\ Columns(p, r) = Columns(t, r)
               /\ \A i \in 1..Len(p.rows) :
                    p.rows[i] = IF i <= Len(t.rows) THEN t.rows[i] ELSE <<>>
<1>1. PICK n \in Nat : n = r + 1
      OBVIOUS
<1>2. PICK p : p = [t EXCEPT !.rows = Padded(t.rows, n, <<>>)]
      OBVIOUS
<1>3. p = get_row_and_create_if_not_exists(t, r)
      BY <1>1, <1>2 DEF get_row_and_create_if_not_exists
<1>4. p \in TableRecords /\ SameCursor(t, p) /\ IsPadded(p.rows, t.rows, n, <<>>)
      BY <1>2, PadRows
<1>5. Len(t.rows) \in Nat
      BY RowOf
<1>6. r < Len(p.rows) /\ r + 1 \in 1..Len(p.rows)
      BY <1>1, <1>4, <1>5 DEF IsPadded
<1>7. RowAt(p, r) \in RowsOfCells /\ Columns(p, r) = Len(RowAt(p, r))
      BY <1>4, <1>6, RowOf
<1>8. Len(<<>>) = 0
      OBVIOUS
<1>9. Len(RowAt(p, r)) = Columns(t, r)
      BY <1>4, <1>5, <1>6, <1>8 DEF RowAt, Columns, IsPadded
<1>10. /\ Len(p.rows) = (IF r + 1 > Len(t.rows) THEN r + 1 ELSE Len(t.rows))
       /\ \A i \in 1..Len(p.rows) : p.rows[i] = IF i <= Len(t.rows) THEN t.rows[i] ELSE <<>>
      BY <1>1, <1>4 DEF IsPadded
<1> QED BY <1>3, <1>4, <1>6, <1>7, <1>9, <1>10

\* A table whose row r was made longer, or became a row that was not there.
LEMMA LongerRow ==
    ASSUME NEW t, Whole(t), NEW r \in Nat, NEW row \in RowsOfCells, Columns(t, r) <= Len(row)
    PROVE  Whole(SetRow(get_row_and_create_if_not_exists(t, r), r, row))
<1>1. PICK p : p = get_row_and_create_if_not_exists(t, r)
      OBVIOUS
<1>2. t \in TableRecords
      BY DEF Whole
<1>3. /\ p \in TableRecords /\ SameCursor(t, p) /\ r < Len(p.rows)
      /\ Len(p.rows) = IF r + 1 > Len(t.rows) THEN r + 1 ELSE Len(t.rows)
      /\ \A i \in 1..Len(p.rows) : p.rows[i] = IF i <= Len(t.rows) THEN t.rows[i] ELSE <<>>
      BY <1>1, <1>2, CreateRow
<1>4. PICK u : u = SetRow(p, r, row)
      OBVIOUS
<1>5. /\ u \in TableRecords /\ SameCursor(p, u) /\ Len(u.rows) = Len(p.rows)
      /\ Columns(u, r) = Len(row)
      /\ \A i \in 1..Len(p.rows) : i # r + 1 => u.rows[i] = p.rows[i]
      BY <1>3, <1>4, SetRowFacts
<1>6. t.cur_row \in Nat /\ t.cur_col \in Nat /\ t.cur_col <= Columns(t, t.cur_row)
      BY DEF Whole, TableRecords
<1>7. Len(t.rows) \in Nat /\ Columns(t, r) \in Nat /\ Columns(t, t.cur_row) \in Nat
      BY <1>2, <1>6, RowOf
<1>8. Len(row) \in Nat
      BY LenProperties DEF RowsOfCells
<1>9. u.cur_row = t.cur_row /\ u.cur_col = t.cur_col
      BY <1>3, <1>5 DEF SameCursor
<1>10. t.cur_col <= Columns(u, t.cur_row)
  <2>1. CASE t.cur_row = r
        BY <1>5, <1>6, <1>7, <1>8, <2>1
  <2>2. CASE t.cur_row # r /\ t.cur_row < Len(t.rows)
    <3>1. t.cur_row + 1 \in 1..Len(p.rows) /\ t.cur_row + 1 <= Len(t.rows)
          /\ t.cur_row + 1 # r + 1 /\ t.cur_row < Len(u.rows)
          BY <1>3, <1>5, <1>6, <1>7, <2>2
    <3>2. u.rows[t.cur_row + 1] = t.rows[t.cur_row + 1]
          BY <1>3, <1>5, <3>1
    <3> QED BY <1>6, <2>2, <3>1, <3>2 DEF Columns, RowAt
  <2>3. CASE t.cur_row # r /\ ~(t.cur_row < Len(t.rows))
    <3>1. t.cur_col = 0
          BY <1>6, <1>7, <2>3 DEF Columns
    <3> QED BY <1>5, <1>6, <3>1, RowOf
  <2> QED BY <2>1, <2>2, <2>3
<1> QED BY <1>1, <1>4, <1>5, <1>9, <1>10 DEF Whole

\* The cursor moves inside its row.
LEMMA MoveColumn ==
    ASSUME NEW t \in TableRecords, NEW c \in Nat, c <= Columns(t, t.cur_row)
    PROVE  Whole([t EXCEPT !.cur_col = c])
<1> DEFINE u == [t EXCEPT !.cur_col = c]
<1>1. u \in TableRecords /\ u.cur_row = t.cur_row /\ u.cur_col = c /\ u.rows = t.rows
      BY DEF TableRecords
<1> HIDE DEF u
<1>2. Whole(u)
      BY <1>1 DEF Whole, Columns, RowAt
<1> QED BY <1>2 DEF u

\* The cursor goes to the beginning of the next row.
LEMMA MoveDown ==
    ASSUME NEW t \in TableRecords
    PROVE  Whole([t EXCEPT !.cur_col = 0, !.cur_row = t.cur_row + 1])
<1> DEFINE u == [t EXCEPT !.cur_col = 0, !.cur_row = t.cur_row + 1]
<1>1. PICK n \in Nat : n = t.cur_row + 1
      BY DEF TableRecords
<1>2. u = [t EXCEPT !.cur_col = 0, !.cur_row = n]
      BY <1>1
<1>3. u \in TableRecords /\ u.cur_row \in Nat /\ u.cur_col = 0
  <2> HIDE DEF u
  <2> QED BY <1>2 DEF TableRecords
<1> HIDE DEF u
<1>4. Columns(u, u.cur_row) \in Nat
      BY <1>3, RowOf
<1>5. Whole(u)
      BY <1>3, <1>4 DEF Whole
<1> QED BY <1>5 DEF u

-----------------------------------------------------------------------------
(* ft_printf *)

\* swap_row inside a row, or right behind it, leaves no gap.
LEMMA SwapFacts ==
    ASSUME NEW row \in RowsOfCells, NEW new \in RowsOfCells, NEW pos \in Nat, pos <= Len(row)
    PROVE  /\ swap_row(row, new, pos) \in RowsOfCells
           /\ Len(swap_row(row, new, pos)) >= pos + Len(new)
           /\ Len(swap_row(row, new, pos)) >= Len(row)
           /\ pos = 0 /\ Len(row) = 0 => swap_row(row, new, pos) = new
<1> DEFINE n == IF Len(row) >= pos + Len(new) THEN Len(row) ELSE pos + Len(new)
           f == [i \in 1..n |-> IF pos < i /\ i <= pos + Len(new) THEN new[i - pos]
                                ELSE IF i <= Len(row) THEN row[i] ELSE Hole]
<1>1. Len(row) \in Nat /\ Len(new) \in Nat
      BY LenProperties DEF RowsOfCells
<1>2. n \in Nat /\ pos + Len(new) \in Nat
      BY <1>1
<1>3. Max({Len(row), pos + Len(new)}) = n
      BY <1>1, <1>2, LargerFacts
<1>4. swap_row(row, new, pos) = f
      BY <1>3 DEF swap_row
<1>5. (\A i \in 1..Len(row) : row[i] \in Cells) /\ (\A i \in 1..Len(new) : new[i] \in Cells)
      BY ElementOfSeq DEF RowsOfCells
<1>6. ASSUME NEW i \in 1..n PROVE f[i] \in Cells
  <2>1. CASE pos < i /\ i <= pos + Len(new)
    <3>1. i - pos \in 1..Len(new)
          BY <1>1, <2>1
    <3> QED BY <1>5, <2>1, <3>1
  <2>2. CASE ~(pos < i /\ i <= pos + Len(new))
    <3>1. i \in 1..Len(row)
          BY <1>1, <2>2
    <3> QED BY <1>5, <2>2, <3>1
  <2> QED BY <2>1, <2>2
<1>7. f \in [1..n -> Cells]
      BY <1>6
<1>8. f \in Seq(Cells) /\ Len(f) = n
      BY <1>2, <1>7, SeqDef
<1>9. ASSUME pos = 0, Len(row) = 0 PROVE f = new
  <2>1. n = Len(new) /\ \A i \in 1..Len(new) : f[i] = new[i]
        BY <1>1, <1>9
  <2> HIDE DEF f, n
  <2> QED BY <1>8, <2>1, SeqEqual DEF RowsOfCells
<1> HIDE DEF f
<1> QED BY <1>1, <1>2, <1>4, <1>8, <1>9 DEF RowsOfCells

\* Nor does insert_row.
LEMMA InsertFacts ==
    ASSUME NEW row \in RowsOfCells, NEW new \in RowsOfCells, NEW pos \in Nat, pos <= Len(row)
    PROVE  insert_row(row, new, pos) \in RowsOfCells /\ Len(insert_row(row, new, pos)) = Len(row) + Len(new)
<1>1. Len(row) \in Nat /\ Len(new) \in Nat
      BY LenProperties DEF RowsOfCells
<1>2. Padded(row, pos, create_cell) = row
      BY PadNothing DEF RowsOfCells
<1> DEFINE a == SubSeq(row, 1, pos)
           b == SubSeq(row, pos + 1, Len(row))
<1>3. insert_row(row, new, pos) = a \o new \o b
      BY <1>2 DEF insert_row
<1>4. 1 \in 1..(Len(row) + 1) /\ pos \in (1 - 1)..Len(row)
      BY <1>1
<1>5. a \in Seq(Cells) /\ Len(a) = pos
      BY <1>1, <1>4, PartFacts DEF RowsOfCells
<1>6. pos + 1 \in 1..(Len(row) + 1) /\ Len(row) \in (pos + 1 - 1)..Len(row)
      BY <1>1
<1>7. b \in Seq(Cells) /\ Len(b) = Len(row) - pos
      BY <1>1, <1>6, PartFacts DEF RowsOfCells
<1> HIDE DEF a, b
<1>8. a \o new \o b \in Seq(Cells) /\ Len(a \o new \o b) = Len(a) + Len(new) + Len(b)
  <2>1. new \in Seq(Cells)
        BY DEF RowsOfCells
  <2>2. a \o new \in Seq(Cells) /\ Len(a \o new) = Len(a) + Len(new)
        BY <1>5, <2>1, ConcatProperties
  <2>3. PICK an \in Seq(Cells) : an = a \o new
        BY <2>2
  <2>4. an \o b \in Seq(Cells) /\ Len(an \o b) = Len(an) + Len(b)
        BY <1>7, ConcatProperties
  <2> QED BY <2>2, <2>3, <2>4
<1> QED BY <1>1, <1>3, <1>5, <1>7, <1>8 DEF RowsOfCells

\* A line of ft_printf fits where the cursor stands, by either strategy.
LEMMA PrintfFacts ==
    ASSUME NEW t, Whole(t), NEW new \in RowsOfCells
    PROVE  Whole(ft_row_printf_impl_(t, new))
<1> DEFINE r == t.cur_row
           pos == t.cur_col
<1>1. t \in TableRecords /\ r \in Nat /\ pos \in Nat /\ pos <= Columns(t, r)
      BY DEF Whole, TableRecords
<1>2. PICK p : p = get_row_and_create_if_not_exists(t, r)
      OBVIOUS
<1>3. PICK row : row = RowAt(p, r)
      OBVIOUS
<1>4. /\ row \in RowsOfCells /\ Len(row) = Columns(t, r) /\ p \in TableRecords /\ SameCursor(t, p)
      /\ r < Len(p.rows)
      BY <1>1, <1>2, <1>3, CreateRow
<1>5. PICK filled : filled = IF t.add_strategy = "INSERT" THEN insert_row(row, new, pos)
                                                         ELSE swap_row(row, new, pos)
      OBVIOUS
<1>6. Len(row) \in Nat /\ Len(new) \in Nat
      BY <1>4, LenProperties DEF RowsOfCells
<1>7. filled \in RowsOfCells /\ Len(filled) >= pos + Len(new) /\ Len(filled) >= Len(row)
  <2>1. CASE t.add_strategy = "INSERT"
    <3>1. insert_row(row, new, pos) \in RowsOfCells
          /\ Len(insert_row(row, new, pos)) = Len(row) + Len(new)
          BY <1>1, <1>4, InsertFacts
    <3>2. filled \in RowsOfCells /\ Len(filled) = Len(row) + Len(new) /\ pos <= Len(row)
          BY <1>1, <1>4, <1>5, <2>1, <3>1
    <3> HIDE DEF pos, r
    <3> QED BY <1>1, <1>6, <3>2
  <2>2. CASE t.add_strategy # "INSERT"
        BY <1>1, <1>4, <1>5, <1>6, <2>2, SwapFacts
  <2> QED BY <2>1, <2>2
<1>8. PICK u : u = SetRow(p, r, filled)
      OBVIOUS
<1>9. u \in TableRecords /\ SameCursor(p, u) /\ Columns(u, r) = Len(filled)
      BY <1>1, <1>4, <1>7, <1>8, SetRowFacts
<1>10. ft_row_printf_impl_(t, new) = [u EXCEPT !.cur_col = u.cur_col + Len(new)]
      BY <1>2, <1>3, <1>5, <1>8 DEF ft_row_printf_impl_
<1>11. u.cur_row = r /\ u.cur_col = pos
      BY <1>4, <1>9 DEF SameCursor
<1>12. pos + Len(new) \in Nat /\ pos + Len(new) <= Columns(u, u.cur_row)
      BY <1>1, <1>6, <1>7, <1>9, <1>11
<1>13. Whole([u EXCEPT !.cur_col = pos + Len(new)])
      BY <1>9, <1>12, MoveColumn
<1> QED BY <1>10, <1>11, <1>13

\* The cells of a line that ft_printf accepts.
LEMMA FormatFacts ==
    ASSUME TableAssumption, NEW fmt \in Formats
    PROVE  /\ create_row_from_fmt_string(fmt) \in RowsOfCells
           /\ create_row_from_fmt_string(fmt) # NoRow =>
                /\ Len(create_row_from_fmt_string(fmt)) = Len(fmt)
                /\ \A i \in 1..Len(fmt) : create_row_from_fmt_string(fmt)[i].text = fmt[i]
                /\ Len(fmt) = 1 \/ \A i \in DOMAIN fmt : fmt[i] \notin Barred
<1> DEFINE new == [i \in DOMAIN fmt |-> [create_cell EXCEPT !.text = fmt[i]]]
           ok == ~(Len(fmt) > 1 /\ \E i \in DOMAIN fmt : fmt[i] \in Barred)
<1>1. fmt \in Seq(Texts) /\ fmt # <<>>
      BY DEF TableAssumption
<1>2. Len(fmt) \in Nat /\ DOMAIN fmt = 1..Len(fmt) /\ Len(fmt) # 0
      BY <1>1, LenProperties, EmptySeq
<1>3. \A i \in DOMAIN fmt : fmt[i] \in Texts
      BY <1>1, <1>2, ElementOfSeq
<1>4. \A i \in DOMAIN fmt : new[i] \in Cells /\ new[i].text = fmt[i]
      BY <1>3 DEF create_cell, Cells
<1>5. new \in [1..Len(fmt) -> Cells]
      BY <1>2, <1>4
<1>6. new \in Seq(Cells) /\ Len(new) = Len(fmt)
      BY <1>2, <1>5, SeqDef
<1>7. create_row_from_fmt_string(fmt) = IF ok THEN new ELSE NoRow
      BY DEF create_row_from_fmt_string
<1>8. NoRow \in RowsOfCells
      BY EmptySeq DEF NoRow, RowsOfCells
<1> HIDE DEF new
<1>9. CASE ok
      BY <1>2, <1>4, <1>6, <1>7, <1>9 DEF RowsOfCells
<1>10. CASE ~ok
      BY <1>7, <1>8, <1>10
<1> QED BY <1>9, <1>10

\* Splitting the current row.
LEMMA SplitFacts ==
    ASSUME NEW t, Whole(t)
    PROVE  split_cur_row(t) \in TableRecords /\ split_cur_row(t).cur_row = t.cur_row
<1> DEFINE r == t.cur_row
           c == t.cur_col
<1>1. t \in TableRecords /\ r \in Nat /\ c \in Nat
      BY DEF Whole, TableRecords
<1>2. CASE c < Columns(t, r)
  <2>1. PICK row : row = RowAt(t, r)
        OBVIOUS
  <2>2. r < Len(t.rows) /\ Len(t.rows) \in Nat
        BY <1>1, <1>2, RowOf DEF Columns
  <2>3. row \in RowsOfCells /\ Columns(t, r) = Len(row) /\ Len(row) \in Nat
        BY <1>1, <2>1, <2>2, RowOf, LenProperties DEF RowsOfCells
  <2> DEFINE a == SubSeq(row, 1, c)
             tail == SubSeq(row, c + 1, Len(row))
  <2>4. 1 \in 1..(Len(row) + 1) /\ c \in (1 - 1)..Len(row)
        /\ c + 1 \in 1..(Len(row) + 1) /\ Len(row) \in (c + 1 - 1)..Len(row)
        BY <1>1, <1>2, <2>3
  <2>5. a \in RowsOfCells /\ tail \in RowsOfCells
        BY <2>3, <2>4, PartFacts DEF RowsOfCells
  <2> HIDE DEF a, tail
  <2>6. PICK u : u = SetRow(t, r, a)
        OBVIOUS
  <2>7. u \in TableRecords /\ SameCursor(t, u) /\ Len(u.rows) = Len(t.rows)
        BY <1>1, <2>2, <2>5, <2>6, SetRowFacts
  <2> DEFINE rows == InsertAt(u.rows, r + 2, tail)
  <2>8. rows \in Seq(RowsOfCells)
    <3>1. u.rows \in Seq(RowsOfCells) /\ Len(u.rows) \in Nat
          BY <1>1, <2>7, RowOf
    <3>2. r + 2 \in 1..(Len(u.rows) + 1)
          BY <1>1, <2>2, <2>7, <3>1
    <3> QED BY <2>5, <3>1, <3>2, ItemInserted
  <2>9. split_cur_row(t) = [u EXCEPT !.rows = rows]
        BY <1>2, <2>1, <2>6 DEF split_cur_row, a, tail
  <2> HIDE DEF rows
  <2>10. [u EXCEPT !.rows = rows] \in TableRecords /\ SameCursor(u, [u EXCEPT !.rows = rows])
        BY <2>7, <2>8, OtherRows
  <2> QED BY <2>7, <2>9, <2>10 DEF SameCursor
<1>3. CASE ~(c < Columns(t, r))
      BY <1>1, <1>3 DEF split_cur_row
<1> QED BY <1>2, <1>3

\* The line feed.
LEMMA LnFacts ==
    ASSUME NEW t, Whole(t)
    PROVE  Whole(ft_ln(t))
<1>1. PICK u : u = IF t.add_strategy = "INSERT" THEN split_cur_row(t) ELSE t
      OBVIOUS
<1>2. u \in TableRecords
      BY <1>1, SplitFacts DEF Whole
<1>3. ft_ln(t) = [u EXCEPT !.cur_col = 0, !.cur_row = u.cur_row + 1]
      BY <1>1 DEF ft_ln
<1> QED BY <1>2, <1>3, MoveDown

\* The line feed that finds no memory for the tail it split off.
LEMMA LnFailsFacts ==
    ASSUME NEW t, Whole(t), NEW u \in ft_ln_fails(t)
    PROVE  Whole(u)
<1> DEFINE r == t.cur_row
           c == t.cur_col
           row == RowAt(t, r)
           a == SubSeq(row, 1, c)
<1>1. t \in TableRecords /\ r \in Nat /\ c \in Nat
      BY DEF Whole, TableRecords
<1>2. /\ t.add_strategy = "INSERT" /\ c < Columns(t, r)
      /\ u = t \/ u = SetRow(t, r, a)
      BY DEF ft_ln_fails
<1>3. r < Len(t.rows) /\ Len(t.rows) \in Nat
      BY <1>1, <1>2, RowOf DEF Columns
<1>4. row \in RowsOfCells /\ Columns(t, r) = Len(row) /\ Len(row) \in Nat
      BY <1>1, <1>3, RowOf, LenProperties DEF RowsOfCells
<1>5. 1 \in 1..(Len(row) + 1) /\ c \in (1 - 1)..Len(row)
      BY <1>1, <1>2, <1>4
<1> HIDE DEF row
<1>6. a \in RowsOfCells /\ Len(a) = c
      BY <1>1, <1>4, <1>5, PartFacts DEF RowsOfCells
<1> HIDE DEF a
<1>7. CASE u = t
      BY <1>7
<1>8. CASE u = SetRow(t, r, a)
  <2>1. u \in TableRecords /\ SameCursor(t, u) /\ Columns(u, r) = Len(a)
        BY <1>1, <1>3, <1>6, <1>8, SetRowFacts
  <2> QED BY <1>1, <1>6, <2>1 DEF Whole, SameCursor
<1> QED BY <1>2, <1>7, <1>8

\* Either of them.
LEMMA LnOutcomesFacts ==
    ASSUME NEW t, Whole(t), NEW u \in LnOutcomes(t)
    PROVE  Whole(u)
BY LnFacts, LnFailsFacts DEF LnOutcomes

\* RowsOfCells that were padded before memory ran out.
LEMMA MoreRows ==
    ASSUME NEW t, Whole(t), NEW n \in Nat
    PROVE  Whole([t EXCEPT !.rows = Padded(t.rows, n, <<>>)])
<1>1. PICK u : u = [t EXCEPT !.rows = Padded(t.rows, n, <<>>)]
      OBVIOUS
<1>2. t \in TableRecords /\ t.cur_row \in Nat /\ t.cur_col \in Nat /\ t.cur_col <= Columns(t, t.cur_row)
      BY DEF Whole, TableRecords
<1>3. u \in TableRecords /\ SameCursor(t, u) /\ IsPadded(u.rows, t.rows, n, <<>>)
      BY <1>1, <1>2, PadRows
<1>4. Len(t.rows) \in Nat
      BY <1>2, RowOf
<1>5. t.cur_col <= Columns(u, t.cur_row)
  <2>1. CASE t.cur_row < Len(t.rows)
    <3>1. t.cur_row + 1 \in 1..Len(u.rows) /\ t.cur_row + 1 <= Len(t.rows) /\ t.cur_row < Len(u.rows)
          BY <1>2, <1>3, <1>4, <2>1 DEF IsPadded
    <3>2. u.rows[t.cur_row + 1] = t.rows[t.cur_row + 1]
          BY <1>3, <3>1 DEF IsPadded
    <3> QED BY <1>2, <2>1, <3>1, <3>2 DEF Columns, RowAt
  <2>2. CASE ~(t.cur_row < Len(t.rows))
    <3>1. t.cur_col = 0
          BY <1>2, <2>2 DEF Columns
    <3>2. Columns(u, t.cur_row) \in Nat
          BY <1>2, <1>3, RowOf
    <3> QED BY <3>1, <3>2
  <2> QED BY <2>1, <2>2
<1> QED BY <1>1, <1>3, <1>5 DEF Whole, SameCursor

\* RowsOfCells and cells that were padded before memory ran out.
LEMMA PaddedUpToFacts ==
    ASSUME NEW t, Whole(t), NEW cols \in Nat, NEW u \in PaddedUpTo(t, cols)
    PROVE  Whole(u)
<1> DEFINE r == t.cur_row
           row == IF Columns(t, r) = 0 THEN <<>> ELSE RowAt(t, r)
           rows == Max({Len(t.rows), r + 1})
<1>1. t \in TableRecords /\ r \in Nat /\ Len(t.rows) \in Nat /\ Columns(t, r) \in Nat
      BY RowOf DEF Whole, TableRecords
<1>2. \/ u = t
      \/ \E n \in Len(t.rows)..rows : u = [t EXCEPT !.rows = Padded(t.rows, n, <<>>)]
      \/ \E n \in 0..(cols - 1) :
           u = SetRow(get_row_and_create_if_not_exists(t, r), r, Padded(row, n, create_cell))
      BY DEF PaddedUpTo
<1>3. CASE \E n \in Len(t.rows)..rows : u = [t EXCEPT !.rows = Padded(t.rows, n, <<>>)]
  <2>1. rows \in Nat
        BY <1>1, LargerFacts
  <2> HIDE DEF rows
  <2>2. PICK n \in Len(t.rows)..rows : u = [t EXCEPT !.rows = Padded(t.rows, n, <<>>)]
        BY <1>3
  <2>3. n \in Nat
        BY <1>1, <2>1
  <2> QED BY <2>2, <2>3, MoreRows
<1>4. CASE \E n \in 0..(cols - 1) :
             u = SetRow(get_row_and_create_if_not_exists(t, r), r, Padded(row, n, create_cell))
  <2>1. PICK n \in 0..(cols - 1) :
          u = SetRow(get_row_and_create_if_not_exists(t, r), r, Padded(row, n, create_cell))
        BY <1>4
  <2>2. row \in Seq(Cells) /\ Len(row) = Columns(t, r)
    <3>1. CASE Columns(t, r) = 0
          BY <3>1, EmptySeq
    <3>2. CASE Columns(t, r) # 0
          BY <1>1, <3>2, RowOf DEF Columns, RowsOfCells
    <3> QED BY <3>1, <3>2
  <2> HIDE DEF row
  <2>3. PICK q : q = Padded(row, n, create_cell)
        OBVIOUS
  <2>4. n \in Nat /\ q \in Seq(Cells) /\ IsPadded(q, row, n, create_cell)
        BY <2>2, <2>3, NewCell, PadFacts
  <2>5. q \in RowsOfCells /\ Columns(t, r) <= Len(q)
        BY <1>1, <2>2, <2>4 DEF RowsOfCells, IsPadded
  <2> HIDE DEF r
  <2>6. Whole(SetRow(get_row_and_create_if_not_exists(t, r), r, q))
        BY <1>1, <2>5, LongerRow
  <2> QED BY <2>1, <2>3, <2>6
<1> QED BY <1>2, <1>3, <1>4

\* ft_printf without memory.
LEMMA PrintfFailsFacts ==
    ASSUME NEW t, Whole(t), NEW u \in ft_printf_fails(t)
    PROVE  Whole(u)
<1>1. (IF t.add_strategy = "INSERT" THEN t.cur_col ELSE 0) \in Nat
      BY DEF Whole, TableRecords
<1> QED BY <1>1, PaddedUpToFacts DEF ft_printf_fails

-----------------------------------------------------------------------------
(* ft_write *)

\* The cell at the cursor, created if need be: there is no gap before it.
LEMMA CurrentCell ==
    ASSUME NEW t, Whole(t)
    PROVE  LET u == get_cur_str_buffer_and_create_if_not_exists(t)
           IN  u \in TableRecords /\ SameCursor(t, u) /\ t.cur_col < Columns(u, t.cur_row) /\ Whole(u)
<1> DEFINE r == t.cur_row
           c == t.cur_col
<1>1. t \in TableRecords /\ r \in Nat /\ c \in Nat /\ c <= Columns(t, r)
      BY DEF Whole, TableRecords
<1>2. PICK p : p = get_row_and_create_if_not_exists(t, r)
      OBVIOUS
<1>3. PICK row : row = RowAt(p, r)
      OBVIOUS
<1>4. /\ row \in RowsOfCells /\ Len(row) = Columns(t, r) /\ p \in TableRecords /\ SameCursor(t, p)
      /\ r < Len(p.rows)
      BY <1>1, <1>2, <1>3, CreateRow
<1>5. PICK filled : filled = IF t.add_strategy = "INSERT"
                             THEN InsertAt(Padded(row, c, Hole), c + 1, create_cell)
                             ELSE get_cell_and_create_if_not_exists(row, c)
      OBVIOUS
<1>6. Len(row) \in Nat /\ row \in Seq(Cells)
      BY <1>4, LenProperties DEF RowsOfCells
<1>7. filled \in RowsOfCells /\ c < Len(filled)
  <2>1. CASE t.add_strategy = "INSERT"
    <3>1. Padded(row, c, Hole) = row
          BY <1>1, <1>4, <1>6, PadNothing
    <3>2. c + 1 \in 1..(Len(row) + 1)
          BY <1>1, <1>4, <1>6
    <3>3. PICK k : k = c + 1
          OBVIOUS
    <3>4. filled = InsertAt(row, k, create_cell) /\ k \in 1..(Len(row) + 1)
          BY <1>5, <2>1, <3>1, <3>2, <3>3
    <3>5. filled \in Seq(Cells) /\ Len(filled) = Len(row) + 1
          BY <1>6, <3>4, NewCell, ItemInserted
    <3> QED BY <1>1, <1>4, <1>6, <3>5 DEF RowsOfCells
  <2>2. CASE t.add_strategy # "INSERT"
    <3>1. PICK n \in Nat : n = c + 1
          BY <1>1
    <3>2. filled = Padded(row, n, create_cell)
          BY <1>5, <2>2, <3>1 DEF get_cell_and_create_if_not_exists
    <3>3. filled \in Seq(Cells) /\ IsPadded(filled, row, n, create_cell)
          BY <1>6, <3>2, NewCell, PadFacts
    <3> HIDE DEF c
    <3> QED BY <1>1, <1>6, <3>1, <3>3 DEF RowsOfCells, IsPadded
  <2> QED BY <2>1, <2>2
<1>8. PICK u : u = SetRow(p, r, filled)
      OBVIOUS
<1>9. u \in TableRecords /\ SameCursor(p, u) /\ Columns(u, r) = Len(filled)
      BY <1>1, <1>4, <1>7, <1>8, SetRowFacts
<1>10. u = get_cur_str_buffer_and_create_if_not_exists(t)
      BY <1>2, <1>3, <1>5, <1>8 DEF get_cur_str_buffer_and_create_if_not_exists
<1>11. SameCursor(t, u)
      BY <1>4, <1>9 DEF SameCursor
<1>12. Len(filled) \in Nat
      BY <1>7, LenProperties DEF RowsOfCells
<1>13. Whole(u)
      BY <1>1, <1>7, <1>9, <1>11, <1>12 DEF Whole, SameCursor
<1> QED BY <1>7, <1>9, <1>10, <1>11, <1>13

\* A cell that is written.
LEMMA WriteFacts ==
    ASSUME NEW t, Whole(t), NEW text \in Texts
    PROVE  Whole(ft_write_impl_(t, text))
<1> DEFINE r == t.cur_row
           c == t.cur_col
<1>1. t \in TableRecords /\ r \in Nat /\ c \in Nat
      BY DEF Whole, TableRecords
<1>2. PICK u : u = get_cur_str_buffer_and_create_if_not_exists(t)
      OBVIOUS
<1>3. u \in TableRecords /\ SameCursor(t, u) /\ c < Columns(u, r)
      BY <1>2, CurrentCell
<1>4. r < Len(u.rows) /\ Len(u.rows) \in Nat
      BY <1>1, <1>3, RowOf DEF Columns
<1>5. PICK row : row = RowAt(u, r)
      OBVIOUS
<1>6. row \in Seq(Cells) /\ Columns(u, r) = Len(row) /\ Len(row) \in Nat
      BY <1>1, <1>3, <1>4, <1>5, RowOf, LenProperties DEF RowsOfCells
<1>7. c + 1 \in 1..Len(row) /\ row[c + 1] \in Cells
      BY <1>1, <1>3, <1>6, ElementOfSeq
<1>8. PICK cell \in Cells : cell = [row[c + 1] EXCEPT !.text = text]
      BY <1>7 DEF Cells
<1>9. PICK filled : filled = [row EXCEPT ![c + 1] = cell]
      OBVIOUS
<1>10. filled \in RowsOfCells /\ Len(filled) = Len(row)
      BY <1>6, <1>7, <1>9, ExceptSeq DEF RowsOfCells
<1>11. PICK w : w = SetRow(u, r, filled)
      OBVIOUS
<1>12. w \in TableRecords /\ SameCursor(u, w) /\ Columns(w, r) = Len(filled)
      BY <1>1, <1>3, <1>4, <1>10, <1>11, SetRowFacts
<1>13. ft_write_impl_(t, text) = [w EXCEPT !.cur_col = w.cur_col + 1]
      BY <1>2, <1>5, <1>8, <1>9, <1>11 DEF ft_write_impl_, SetRow, RowAt
<1>14. w.cur_row = r /\ w.cur_col = c
      BY <1>3, <1>12 DEF SameCursor
<1>15. PICK n \in Nat : n = c + 1 /\ n <= Columns(w, w.cur_row)
      BY <1>1, <1>3, <1>6, <1>10, <1>12, <1>14
<1>16. Whole([w EXCEPT !.cur_col = n])
      BY <1>12, <1>15, MoveColumn
<1> QED BY <1>13, <1>14, <1>15, <1>16

\* ft_write without memory.
LEMMA WriteFailsFacts ==
    ASSUME NEW t, Whole(t), NEW u \in ft_write_fails(t)
    PROVE  Whole(u)
<1>1. PICK cols : cols = IF t.add_strategy = "INSERT" THEN 0 ELSE t.cur_col + 1
      OBVIOUS
<1>2. cols \in Nat
      BY <1>1 DEF Whole, TableRecords
<1>3. u \in PaddedUpTo(t, cols) \/ u = get_cur_str_buffer_and_create_if_not_exists(t)
      BY <1>1 DEF ft_write_fails
<1> QED BY <1>2, <1>3, PaddedUpToFacts, CurrentCell

\* The tables that ft_row_write goes through.
Passed(t, cells, m, f) ==
    f = [n \in 0..m |-> IF n = 0 THEN t ELSE ft_write_impl_(f[n - 1], cells[n])]

\* The recursion of ft_row_write is well defined.
LEMMA PassedExists ==
    ASSUME NEW t, NEW cells, NEW m \in Nat
    PROVE  \E f : Passed(t, cells, m, f)
<1> DEFINE S == {k \in Nat : \E f : Passed(t, cells, k, f)}
<1>1. 0 \in S
  <2> DEFINE f == [n \in 0..0 |-> t]
  <2>1. f = [n \in 0..0 |-> IF n = 0 THEN t ELSE ft_write_impl_(f[n - 1], cells[n])]
        OBVIOUS
  <2> HIDE DEF f
  <2>2. Passed(t, cells, 0, f)
        BY <2>1 DEF Passed
  <2> QED BY <2>2
<1>2. ASSUME NEW k \in Nat, k \in S PROVE k + 1 \in S
  <2>1. PICK f : Passed(t, cells, k, f)
        BY <1>2
  <2>2. f = [n \in 0..k |-> IF n = 0 THEN t ELSE ft_write_impl_(f[n - 1], cells[n])]
        BY <2>1 DEF Passed
  <2> DEFINE next == ft_write_impl_(f[k], cells[k + 1])
             g == [n \in 0..(k + 1) |-> IF n <= k THEN f[n] ELSE next]
             h == [n \in 0..(k + 1) |-> IF n = 0 THEN t ELSE ft_write_impl_(g[n - 1], cells[n])]
  <2>3. \A n \in 0..k : f[n] = IF n = 0 THEN t ELSE ft_write_impl_(f[n - 1], cells[n])
        BY <2>2
  <2>4. g[k] = f[k]
        OBVIOUS
  <2>5. ASSUME NEW n \in 0..(k + 1) PROVE g[n] = h[n]
    <3>1. CASE n = 0
      <4>1. g[0] = f[0] /\ 0 \in 0..k /\ h[0] = t
            OBVIOUS
      <4> QED BY <2>3, <3>1, <4>1
    <3>2. CASE n # 0 /\ n <= k
      <4>1. n \in 0..k /\ n - 1 \in 0..k /\ g[n] = f[n] /\ g[n - 1] = f[n - 1]
            BY <3>2
      <4> QED BY <2>3, <3>2, <4>1
    <3>3. CASE n = k + 1
      <4>1. n - 1 = k /\ n # 0 /\ ~(n <= k)
            BY <3>3
      <4>2. g[n] = next
            BY <4>1
      <4>3. h[n] = ft_write_impl_(g[n - 1], cells[n])
            BY <4>1
      <4> HIDE DEF g, h
      <4> QED BY <2>4, <3>3, <4>1, <4>2, <4>3
    <3> QED BY <3>1, <3>2, <3>3
  <2>6. g = h
    <3>1. g = [n \in 0..(k + 1) |-> g[n]] /\ h = [n \in 0..(k + 1) |-> h[n]]
          OBVIOUS
    <3> HIDE DEF g, h
    <3> QED BY <2>5, <3>1
  <2>7. Passed(t, cells, k + 1, g)
    <3> HIDE DEF g
    <3> QED BY <2>6 DEF Passed
  <2> QED BY <2>7
<1> HIDE DEF S
<1>3. Nat \subseteq S
      BY <1>1, <1>2, SetInduction
<1> QED BY <1>3 DEF S

\* A row of cells, by induction on their number.
LEMMA RowWriteFacts ==
    ASSUME NEW t, Whole(t), NEW cells \in Seq(Texts)
    PROVE  Whole(ft_row_write(t, cells))
<1>1. PICK m \in Nat : m = Len(cells)
      BY LenProperties
<1> DEFINE f == CHOOSE g : g = [n \in 0..m |-> IF n = 0 THEN t ELSE ft_write_impl_(g[n - 1], cells[n])]
<1>2. ft_row_write(t, cells) = f[m]
      BY <1>1 DEF ft_row_write
<1>3. f = [n \in 0..m |-> IF n = 0 THEN t ELSE ft_write_impl_(f[n - 1], cells[n])]
  <2>1. \E g : g = [n \in 0..m |-> IF n = 0 THEN t ELSE ft_write_impl_(g[n - 1], cells[n])]
    <3>1. PICK g : Passed(t, cells, m, g)
          BY PassedExists
    <3> QED BY <3>1 DEF Passed
  <2> QED BY <2>1
<1> HIDE DEF f
<1> DEFINE S == {n \in Nat : n <= m => Whole(f[n])}
<1>4. 0 \in S
  <2>1. f[0] = t
        BY <1>3
  <2> QED BY <2>1
<1>5. ASSUME NEW n \in Nat, n \in S PROVE n + 1 \in S
  <2> SUFFICES ASSUME n + 1 <= m PROVE Whole(f[n + 1])
      OBVIOUS
  <2>1. n <= m /\ n + 1 \in 0..m /\ n + 1 # 0 /\ (n + 1) - 1 = n /\ n + 1 \in 1..m
        OBVIOUS
  <2>2. f[n + 1] = ft_write_impl_(f[n], cells[n + 1])
        BY <1>3, <2>1
  <2>3. cells[n + 1] \in Texts
        BY <1>1, <2>1, ElementOfSeq
  <2>4. Whole(f[n])
        BY <1>5, <2>1
  <2> QED BY <2>2, <2>3, <2>4, WriteFacts
<1> HIDE DEF S
<1>6. Nat \subseteq S
      BY <1>4, <1>5, SetInduction
<1> QED BY <1>2, <1>6 DEF S

\* A row of cells that fails in the middle.
LEMMA RowWriteFailsFacts ==
    ASSUME NEW t, Whole(t), NEW cells \in Seq(Texts), NEW u \in ft_row_write_fails(t, cells)
    PROVE  Whole(u)
<1>1. Len(cells) \in Nat
      BY LenProperties
<1>2. PICK n \in 0..(Len(cells) - 1) : u \in ft_write_fails(ft_row_write(t, SubSeq(cells, 1, n)))
      BY DEF ft_row_write_fails
<1>3. 1 \in 1..(Len(cells) + 1) /\ n \in (1 - 1)..Len(cells)
      BY <1>1
<1>4. PICK some \in Seq(Texts) : some = SubSeq(cells, 1, n)
      BY <1>3, PartFacts
<1>5. Whole(ft_row_write(t, some))
      BY RowWriteFacts
<1> QED BY <1>2, <1>4, <1>5, WriteFailsFacts

-----------------------------------------------------------------------------
(* Separators and spans *)

\* A table with other separators.
LEMMA OtherSeparators ==
    ASSUME NEW t, Whole(t), NEW s \in Seq(BOOLEAN)
    PROVE  Whole([t EXCEPT !.separators = s])
<1> DEFINE u == [t EXCEPT !.separators = s]
<1>1. u \in TableRecords /\ u.cur_row = t.cur_row /\ u.cur_col = t.cur_col /\ u.rows = t.rows
      BY DEF TableRecords, Whole
<1> HIDE DEF u
<1>2. Whole(u)
      BY <1>1 DEF Whole, Columns, RowAt
<1> QED BY <1>2 DEF u

\* A table with another strategy.
LEMMA OtherStrategy ==
    ASSUME NEW t, Whole(t), NEW s \in Strategies
    PROVE  Whole([t EXCEPT !.add_strategy = s])
<1> DEFINE u == [t EXCEPT !.add_strategy = s]
<1>1. u \in TableRecords /\ u.cur_row = t.cur_row /\ u.cur_col = t.cur_col /\ u.rows = t.rows
      BY DEF TableRecords, Whole
<1> HIDE DEF u
<1>2. Whole(u)
      BY <1>1 DEF Whole, Columns, RowAt
<1> QED BY <1>2 DEF u

\* Padding the separators.
LEMMA PadSeparators ==
    ASSUME NEW t \in TableRecords, NEW n \in Nat
    PROVE  /\ Padded(t.separators, n, FALSE) \in Seq(BOOLEAN)
           /\ IsPadded(Padded(t.separators, n, FALSE), t.separators, n, FALSE)
<1>1. PICK s \in Seq(BOOLEAN), e \in BOOLEAN : s = t.separators /\ e = FALSE
      BY DEF TableRecords
<1>2. Padded(s, n, e) \in Seq(BOOLEAN) /\ IsPadded(Padded(s, n, e), s, n, e)
      BY PadFacts
<1> QED BY <1>1, <1>2

\* A separator touches no cell, ...
LEMMA SeparatorFacts ==
    ASSUME NEW t, Whole(t)
    PROVE  Whole(ft_add_separator(t))
<1>1. PICK n \in Nat : n = t.cur_row + 1
      BY DEF Whole, TableRecords
<1>2. PICK s : s = Padded(t.separators, n, FALSE)
      OBVIOUS
<1>3. s \in Seq(BOOLEAN)
      BY <1>2, PadSeparators DEF Whole
<1>4. PICK w : w = [s EXCEPT ![n] = TRUE]
      OBVIOUS
<1>5. w \in Seq(BOOLEAN)
  <2>1. CASE n \in 1..Len(s)
        BY <1>3, <1>4, <2>1, ExceptSeq
  <2>2. CASE n \notin 1..Len(s)
    <3>1. DOMAIN s = 1..Len(s) /\ s = [i \in DOMAIN s |-> s[i]]
          BY <1>3, LenProperties
    <3>2. w = s
          BY <1>4, <2>2, <3>1
    <3> QED BY <1>3, <3>2
  <2> QED BY <2>1, <2>2
<1>6. ft_add_separator(t) = [t EXCEPT !.separators = w]
      BY <1>1, <1>2, <1>4 DEF ft_add_separator
<1> QED BY <1>5, <1>6, OtherSeparators

\* ... with memory or without.
LEMMA SeparatorFailsFacts ==
    ASSUME NEW t, Whole(t), NEW u \in ft_add_separator_fails(t)
    PROVE  Whole(u)
<1>1. PICK n \in Len(t.separators)..t.cur_row : u = [t EXCEPT !.separators = Padded(t.separators, n, FALSE)]
      BY DEF ft_add_separator_fails
<1>2. Len(t.separators) \in Nat /\ t.cur_row \in Nat
      BY LenProperties DEF Whole, TableRecords
<1>3. n \in Nat
      BY <1>2
<1>4. PICK s \in Seq(BOOLEAN) : s = Padded(t.separators, n, FALSE)
      BY <1>3, PadSeparators DEF Whole
<1> QED BY <1>1, <1>4, OtherSeparators

\* A span makes a row longer, with cells, never shorter.
LEMMA SpanRowFacts ==
    ASSUME NEW row \in RowsOfCells, NEW col \in Nat, NEW hor_span \in Nat
    PROVE  /\ row_set_cell_span(row, col, hor_span) \in RowsOfCells
           /\ Len(row_set_cell_span(row, col, hor_span)) >= Len(row)
<1> DEFINE n == Max({Len(row), col + hor_span})
           cell(i) == IF i <= Len(row) THEN row[i] ELSE create_cell
           f == [i \in 1..n |->
                   IF i = col + 1 THEN [cell(i) EXCEPT !.type = "GROUP_MASTER_CELL"]
                   ELSE IF col + 1 < i /\ i <= col + hor_span
                        THEN [cell(i) EXCEPT !.type = "GROUP_SLAVE_CELL"] ELSE cell(i)]
<1>1. Len(row) \in Nat /\ row \in Seq(Cells)
      BY LenProperties DEF RowsOfCells
<1>2. n \in Nat /\ n >= Len(row)
      BY <1>1, LargerFacts
<1> HIDE DEF n
<1>3. row_set_cell_span(row, col, hor_span) = f
      BY DEF row_set_cell_span, n
<1>4. ASSUME NEW i \in 1..n PROVE cell(i) \in Cells
      BY <1>1, <1>2, NewCell, ElementOfSeq
<1>5. \A x \in Cells : /\ [x EXCEPT !.type = "GROUP_MASTER_CELL"] \in Cells
                       /\ [x EXCEPT !.type = "GROUP_SLAVE_CELL"] \in Cells
      BY DEF Cells
<1> HIDE DEF cell
<1>6. \A i \in 1..n : f[i] \in Cells
      BY <1>4, <1>5
<1>7. f \in [1..n -> Cells]
      BY <1>6
<1> HIDE DEF f
<1>8. f \in Seq(Cells) /\ Len(f) = n
      BY <1>2, <1>7, SeqDef
<1> QED BY <1>2, <1>3, <1>8 DEF RowsOfCells

\* So it does in a table, ...
LEMMA SpanFacts ==
    ASSUME NEW t, Whole(t), NEW r \in Nat \cup {CUR}, NEW col \in Nat, NEW hor_span \in Nat
    PROVE  Whole(ft_set_cell_span(t, r, col, hor_span))
<1>1. PICK n : n = IF r = CUR THEN t.cur_row ELSE r
      OBVIOUS
<1>2. n \in Nat /\ t \in TableRecords
      BY <1>1 DEF Whole, TableRecords
<1>3. PICK p : p = get_row_and_create_if_not_exists(t, n)
      OBVIOUS
<1>4. PICK row : row = RowAt(p, n)
      OBVIOUS
<1>5. row \in RowsOfCells /\ Len(row) = Columns(t, n)
      BY <1>2, <1>3, <1>4, CreateRow
<1>6. PICK filled : filled = row_set_cell_span(row, col, hor_span)
      OBVIOUS
<1>7. filled \in RowsOfCells /\ Columns(t, n) <= Len(filled)
      BY <1>5, <1>6, SpanRowFacts
<1>8. Whole(SetRow(get_row_and_create_if_not_exists(t, n), n, filled))
      BY <1>2, <1>7, LongerRow
<1> QED BY <1>1, <1>3, <1>4, <1>6, <1>8 DEF ft_set_cell_span

\* ... and so does a span that is cut short.
LEMMA SpanFailsFacts ==
    ASSUME NEW t, Whole(t), NEW r \in Nat \cup {CUR}, NEW col \in Nat, NEW hor_span \in Nat,
           NEW u \in ft_set_cell_span_fails(t, r, col, hor_span)
    PROVE  Whole(u)
<1>1. PICK n : n = IF r = CUR THEN t.cur_row ELSE r
      OBVIOUS
<1>2. n \in Nat /\ t \in TableRecords
      BY <1>1 DEF Whole, TableRecords
<1>3. PICK p : p = get_row_and_create_if_not_exists(t, n)
      OBVIOUS
<1>4. PICK row : row = RowAt(p, n)
      OBVIOUS
<1>5. row \in RowsOfCells /\ Len(row) = Columns(t, n) /\ Len(row) \in Nat /\ row \in Seq(Cells)
      BY <1>2, <1>3, <1>4, CreateRow, LenProperties DEF RowsOfCells
<1>6. \/ \E k \in Len(t.rows)..n : u = [t EXCEPT !.rows = Padded(t.rows, k, <<>>)]
      \/ \E k \in Len(row)..col : u = SetRow(p, n, Padded(row, k, create_cell))
      \/ \E k \in 1..(hor_span - 1) : u = SetRow(p, n, row_set_cell_span(row, col, k))
      BY <1>1, <1>3, <1>4 DEF ft_set_cell_span_fails
<1>7. CASE \E k \in Len(t.rows)..n : u = [t EXCEPT !.rows = Padded(t.rows, k, <<>>)]
  <2>1. PICK k \in Len(t.rows)..n : u = [t EXCEPT !.rows = Padded(t.rows, k, <<>>)]
        BY <1>7
  <2>2. Len(t.rows) \in Nat
        BY <1>2, RowOf
  <2>3. k \in Nat
        BY <1>2, <2>2
  <2> QED BY <2>1, <2>3, MoreRows
<1>8. CASE \E k \in Len(row)..col : u = SetRow(p, n, Padded(row, k, create_cell))
  <2>1. PICK k \in Len(row)..col : u = SetRow(p, n, Padded(row, k, create_cell))
        BY <1>8
  <2>2. k \in Nat
        BY <1>5
  <2>3. PICK q : q = Padded(row, k, create_cell)
        OBVIOUS
  <2>4. q \in Seq(Cells) /\ IsPadded(q, row, k, create_cell)
        BY <1>5, <2>2, <2>3, NewCell, PadFacts
  <2>5. q \in RowsOfCells /\ Columns(t, n) <= Len(q)
        BY <1>5, <2>2, <2>4 DEF RowsOfCells, IsPadded
  <2> QED BY <1>2, <1>3, <2>1, <2>3, <2>5, LongerRow
<1>9. CASE \E k \in 1..(hor_span - 1) : u = SetRow(p, n, row_set_cell_span(row, col, k))
  <2>1. PICK k \in 1..(hor_span - 1) : u = SetRow(p, n, row_set_cell_span(row, col, k))
        BY <1>9
  <2>2. k \in Nat
        OBVIOUS
  <2>3. PICK q : q = row_set_cell_span(row, col, k)
        OBVIOUS
  <2>4. q \in RowsOfCells /\ Columns(t, n) <= Len(q)
        BY <1>5, <2>2, <2>3, SpanRowFacts
  <2> QED BY <1>2, <1>3, <2>1, <2>3, <2>4, LongerRow
<1> QED BY <1>6, <1>7, <1>8, <1>9

-----------------------------------------------------------------------------
(* NoHole *)

\* A whole table has no hole.
LEMMA WholeHasNoHole ==
    ASSUME TableAssumption, NEW t, Whole(t)
    PROVE  NoHoleIn(t)
<1>1. t.rows \in Seq(Seq(Cells)) /\ Hole \notin Cells
      BY DEF Whole, TableRecords, RowsOfCells, TableAssumption
<1>2. \A i \in DOMAIN t.rows : t.rows[i] \in Seq(Cells)
      BY <1>1, LenProperties, ElementOfSeq
<1>3. \A i \in DOMAIN t.rows : \A j \in DOMAIN t.rows[i] : t.rows[i][j] \in Cells
      BY <1>2, LenProperties, ElementOfSeq
<1> QED BY <1>1, <1>3 DEF NoHoleIn

\* Nothing is said of a table after the growth of one of its vectors failed.
LEMMA LostIsLast == TableNext => status # "lost"
BY DEF TableNext, Call, ReadHole, Running

\* One step per call: each leaves a whole table, whether it succeeds or fails,
\* unless the growth of a vector failed in it.
LEMMA CallKeepsWhole ==
    ASSUME TableAssumption, ~Editing, Whole(table), TableNext, status' # "lost"
    PROVE  Whole(table')
<1>1. \A u : Success(u) => table' = u
      BY DEF Success
<1>2. \A us : Failure(us) => \E u \in us : table' = u
      BY DEF Failure
<1>3. \A us : ~Loss(us)
      BY DEF Loss
<1>4. \A fmt \in Formats : fmt \in Seq(Texts)
      BY DEF TableAssumption
<1>5. ASSUME NEW fmt \in Formats, Printf(fmt) PROVE Whole(table')
  <2>1. PICK new \in RowsOfCells : new = create_row_from_fmt_string(fmt)
        BY FormatFacts
  <2>2. CASE Success(ft_row_printf_impl_(table, new))
        BY <1>1, <2>2, PrintfFacts
  <2>3. CASE Failure({table})
        BY <1>2, <2>3
  <2>4. CASE Failure(ft_printf_fails(table))
        BY <1>2, <2>4, PrintfFailsFacts
  <2> QED BY <1>3, <1>5, <2>1, <2>2, <2>3, <2>4 DEF Printf
<1>6. ASSUME NEW fmt \in Formats, PrintfLn(fmt) PROVE Whole(table')
  <2>1. PICK new \in RowsOfCells : new = create_row_from_fmt_string(fmt)
        BY FormatFacts
  <2>2. PICK t : t = ft_row_printf_impl_(table, new)
        OBVIOUS
  <2>3. ASSUME NEW u \in LnOutcomes(t), Success(u) PROVE Whole(table')
        BY <1>1, <2>2, <2>3, PrintfFacts, LnOutcomesFacts
  <2>4. CASE Failure({table})
        BY <1>2, <2>4
  <2>5. CASE Failure(ft_printf_fails(table))
        BY <1>2, <2>5, PrintfFailsFacts
  <2> QED BY <1>3, <1>6, <2>1, <2>2, <2>3, <2>4, <2>5 DEF PrintfLn
<1>7. ASSUME NEW cells \in Formats, RowWriteLn(cells) PROVE Whole(table')
  <2>1. cells \in Seq(Texts)
        BY <1>4
  <2>2. PICK t : t = ft_row_write(table, cells)
        OBVIOUS
  <2>3. ASSUME NEW u \in LnOutcomes(t), Success(u) PROVE Whole(table')
        BY <1>1, <2>1, <2>2, <2>3, RowWriteFacts, LnOutcomesFacts
  <2>4. CASE Failure(ft_row_write_fails(table, cells))
        BY <1>2, <2>1, <2>4, RowWriteFailsFacts
  <2> QED BY <1>3, <1>7, <2>2, <2>3, <2>4 DEF RowWriteLn
<1>8. ASSUME NEW first \in Formats, NEW second \in Formats, TableWrite(first, second)
      PROVE  Whole(table')
  <2>1. first \in Seq(Texts) /\ second \in Seq(Texts)
        BY <1>4
  <2>2. PICK t : t = ft_row_write(table, first)
        OBVIOUS
  <2>3. ASSUME NEW u \in LnOutcomes(t) PROVE Whole(u)
        BY <2>1, <2>2, RowWriteFacts, LnOutcomesFacts
  <2>4. ASSUME NEW u \in LnOutcomes(t), Success(ft_row_write(u, second)) PROVE Whole(table')
        BY <1>1, <2>1, <2>3, <2>4, RowWriteFacts
  <2>5. ASSUME NEW u \in LnOutcomes(t), Failure(ft_row_write_fails(u, second)) PROVE Whole(table')
        BY <1>2, <2>1, <2>3, <2>5, RowWriteFailsFacts
  <2>6. CASE Failure(ft_row_write_fails(table, first))
        BY <1>2, <2>1, <2>6, RowWriteFailsFacts
  <2> QED BY <1>3, <1>8, <2>2, <2>4, <2>5, <2>6 DEF TableWrite
<1>9. ASSUME NEW text \in Texts, Write(text) PROVE Whole(table')
  <2>1. CASE Success(ft_write_impl_(table, text))
        BY <1>1, <2>1, WriteFacts
  <2>2. CASE Failure(ft_write_fails(table))
        BY <1>2, <2>2, WriteFailsFacts
  <2> QED BY <1>3, <1>9, <2>1, <2>2 DEF Write
<1>10. CASE Ln
  <2>1. CASE Success(ft_ln(table))
        BY <1>1, <2>1, LnFacts
  <2>2. CASE Failure(ft_ln_fails(table))
        BY <1>2, <2>2, LnFailsFacts
  <2> QED BY <1>3, <1>10, <2>1, <2>2 DEF Ln
<1>11. CASE AddSeparator
  <2>1. CASE Success(ft_add_separator(table))
        BY <1>1, <2>1, SeparatorFacts
  <2>2. CASE Failure(ft_add_separator_fails(table))
        BY <1>2, <2>2, SeparatorFailsFacts
  <2> QED BY <1>3, <1>11, <2>1, <2>2 DEF AddSeparator
<1>12. ASSUME NEW s \in Strategies, SetStrategy(s) PROVE Whole(table')
  <2>1. PICK u : u = [table EXCEPT !.add_strategy = s]
        OBVIOUS
  <2> QED BY <1>1, <1>12, <2>1, OtherStrategy DEF SetStrategy
<1>13. ASSUME NEW row \in 0..MaxRows \cup {CUR}, NEW col \in 0..MaxCols, NEW span \in Spans,
              SetCellSpan(row, col, span)
       PROVE  Whole(table')
  <2>1. row \in Nat \cup {CUR} /\ col \in Nat /\ span \in Nat
        BY DEF TableAssumption
  <2>2. CASE Success(ft_set_cell_span(table, row, col, span))
        BY <1>1, <2>1, <2>2, SpanFacts
  <2>3. CASE Failure({table})
        BY <1>2, <2>3
  <2>4. CASE Failure(ft_set_cell_span_fails(table, row, col, span))
        BY <1>2, <2>1, <2>4, SpanFailsFacts
  <2> QED BY <1>3, <1>13, <2>2, <2>3, <2>4 DEF SetCellSpan
<1>14. CASE ReadHole
      BY <1>14 DEF ReadHole
<1> QED BY <1>5, <1>6, <1>7, <1>8, <1>9, <1>10, <1>11, <1>12, <1>13, <1>14 DEF TableNext, Call

\* As long as callers only append, whatever they print, write and span, however
\* they change the strategy and wherever memory for an item runs out, no call of
\* libfort leaves an uninitialised cell in a row, up to the first failed growth of a
\* vector, which loses the items: for any texts, formats and sizes.
THEOREM NoHoleEver ==
    ASSUME TableAssumption, ~Editing
    PROVE  TableSpec => []NoHole
<1>1. TableInit => Whole(table)
  <2>1. <<>> \in Seq(RowsOfCells) /\ Len(<<>>) = 0 /\ <<>> \in Seq(BOOLEAN)
        BY EmptySeq
  <2>2. EmptyTable \in TableRecords /\ EmptyTable.cur_col = 0
        /\ EmptyTable.cur_row \in Nat
        BY <2>1 DEF EmptyTable, TableRecords
  <2>3. Columns(EmptyTable, EmptyTable.cur_row) \in Nat
        BY <2>2, RowOf
  <2> QED BY <2>2, <2>3 DEF TableInit, Whole
<1> DEFINE I == status = "lost" \/ Whole(table)
<1>2. I /\ [TableNext]_tvars => I'
  <2>1. CASE UNCHANGED tvars
        BY <2>1 DEF tvars, Whole, Columns, RowAt
  <2>2. ASSUME I, TableNext PROVE I'
    <3>1. Whole(table)
          BY <2>2, LostIsLast
    <3> QED BY <2>2, <3>1, CallKeepsWhole
  <2> QED BY <2>1, <2>2
<1>3. I => NoHole
      BY WholeHasNoHole DEF NoHole
<1> QED BY <1>1, <1>2, <1>3, PTL DEF TableSpec
-----------------------------------------------------------------------------
(* IsReport *)

\* The inductive invariant of a table that the daemons fill: the cursor stands at
\* the beginning of a row that is not there yet, or that a failed call left empty.
Filled(t) ==
    /\ t \in TableRecords /\ t.add_strategy = "REPLACE"
    /\ t.cur_col = 0 /\ t.cur_row \in 0..MaxRows
    /\ Len(t.rows) \in {t.cur_row, t.cur_row + 1}
    /\ Len(t.rows) = t.cur_row + 1 => t.rows[t.cur_row + 1] = <<>>

\* The refinement mapping.
Fields(row) == [j \in DOMAIN row |-> CellText(row[j])]
Lines(t) == [i \in 1..t.cur_row |-> Fields(t.rows[i])]
Marks(t) == { i \in 0..MaxRows : i < Len(t.separators) /\ t.separators[i + 1] }

\* A call that fails: the report stays as it was.
Kept(t, u) == Filled(u) /\ Lines(u) = Lines(t) /\ Marks(u) = Marks(t)

\* Only rows at the cursor or beyond it changed, and they are empty.
LEMMA SameReport ==
    ASSUME NEW t, Filled(t), NEW u \in TableRecords, SameCursor(t, u),
           Len(u.rows) \in {t.cur_row, t.cur_row + 1},
           \A i \in 1..t.cur_row : u.rows[i] = t.rows[i],
           Len(u.rows) = t.cur_row + 1 => u.rows[t.cur_row + 1] = <<>>
    PROVE  Kept(t, u)
<1>1. u.cur_row = t.cur_row /\ u.cur_col = t.cur_col /\ u.separators = t.separators
      /\ u.add_strategy = t.add_strategy
      BY DEF SameCursor
<1>2. Filled(u)
      BY <1>1 DEF Filled
<1>3. Lines(u) = Lines(t)
      BY <1>1 DEF Lines
<1>4. Marks(u) = Marks(t)
      BY <1>1 DEF Marks
<1> QED BY <1>2, <1>3, <1>4 DEF Kept

\* Padding the current row of a filled table creates it, empty, or does nothing.
LEMMA NothingPadded ==
    ASSUME TableAssumption, NEW t, Filled(t), NEW u \in ft_printf_fails(t)
    PROVE  Kept(t, u)
<1> DEFINE r == t.cur_row
           rows == Max({Len(t.rows), r + 1})
<1>1. t \in TableRecords /\ r \in Nat /\ Len(t.rows) \in Nat
      BY RowOf DEF Filled, TableAssumption
<1>2. rows = r + 1
  <2>1. Len(t.rows) = r \/ Len(t.rows) = r + 1
        BY DEF Filled
  <2> QED BY <1>1, <2>1, LargerFacts
<1>3. ft_printf_fails(t) = PaddedUpTo(t, 0)
      BY DEF ft_printf_fails, Filled
<1>4. \/ u = t
      \/ \E n \in Len(t.rows)..rows : u = [t EXCEPT !.rows = Padded(t.rows, n, <<>>)]
  <2>1. 0..(0 - 1) = {}
        OBVIOUS
  <2> QED BY <1>3, <2>1 DEF PaddedUpTo
<1> HIDE DEF rows
<1>5. CASE u = t
      BY <1>5 DEF Kept
<1>6. CASE \E n \in Len(t.rows)..rows : u = [t EXCEPT !.rows = Padded(t.rows, n, <<>>)]
  <2>1. PICK n \in Len(t.rows)..rows : u = [t EXCEPT !.rows = Padded(t.rows, n, <<>>)]
        BY <1>6
  <2>2. n \in Nat /\ n \in {r, r + 1} /\ n >= Len(t.rows)
        BY <1>1, <1>2 DEF Filled
  <2>3. u \in TableRecords /\ SameCursor(t, u) /\ IsPadded(u.rows, t.rows, n, <<>>)
        BY <1>1, <2>1, <2>2, PadRows
  <2>4. Len(u.rows) = n
        BY <1>1, <2>2, <2>3 DEF IsPadded
  <2>5. Len(t.rows) \in {r, r + 1}
        BY DEF Filled
  <2>6. \A i \in 1..r : u.rows[i] = t.rows[i]
        BY <1>1, <2>2, <2>3, <2>4, <2>5 DEF IsPadded
  <2>7. Len(u.rows) = r + 1 => u.rows[r + 1] = <<>>
    <3>1. CASE Len(t.rows) = r + 1
          BY <1>1, <2>3, <2>4, <3>1 DEF IsPadded, Filled
    <3>2. CASE Len(t.rows) = r
          BY <1>1, <2>3, <2>4, <3>2 DEF IsPadded
    <3> QED BY <2>5, <3>1, <3>2
  <2> QED BY <2>2, <2>3, <2>4, <2>6, <2>7, SameReport
<1> QED BY <1>4, <1>5, <1>6

\* A line that is accepted becomes the next row, and the cursor passes it.
LEMMA RowPrinted ==
    ASSUME TableAssumption, NEW t, Filled(t), NEW new \in RowsOfCells,
           NEW u \in LnOutcomes(ft_row_printf_impl_(t, new)), u.cur_row <= MaxRows
    PROVE  /\ Filled(u) /\ u.cur_row = t.cur_row + 1 /\ u.separators = t.separators
           /\ \A i \in 1..t.cur_row : u.rows[i] = t.rows[i]
           /\ u.rows[t.cur_row + 1] = new
<1> DEFINE r == t.cur_row
<1>1. t \in TableRecords /\ r \in Nat /\ Len(t.rows) \in Nat
      BY RowOf DEF Filled, TableAssumption
<1>2. Columns(t, r) = 0 /\ t.cur_col = 0 /\ t.add_strategy = "REPLACE"
      BY <1>1 DEF Filled, Columns, RowAt
<1>3. PICK p : p = get_row_and_create_if_not_exists(t, r)
      OBVIOUS
<1>4. PICK row : row = RowAt(p, r)
      OBVIOUS
<1>5. /\ p \in TableRecords /\ SameCursor(t, p) /\ r < Len(p.rows)
      /\ Len(p.rows) = (IF r + 1 > Len(t.rows) THEN r + 1 ELSE Len(t.rows))
      /\ row \in RowsOfCells /\ Len(row) = 0
      /\ \A i \in 1..Len(p.rows) : p.rows[i] = IF i <= Len(t.rows) THEN t.rows[i] ELSE <<>>
      BY <1>1, <1>2, <1>3, <1>4, CreateRow
<1>6. swap_row(row, new, 0) = new
      BY <1>5, SwapFacts
<1>7. PICK w : w = SetRow(p, r, new)
      OBVIOUS
<1>8. /\ w \in TableRecords /\ SameCursor(p, w) /\ Len(w.rows) = Len(p.rows) /\ RowAt(w, r) = new
      /\ \A i \in 1..Len(p.rows) : i # r + 1 => w.rows[i] = p.rows[i]
  <2>1. p \in TableRecords /\ r \in Nat /\ r < Len(p.rows) /\ new \in RowsOfCells
        BY <1>1, <1>5
  <2> HIDE DEF r
  <2> QED BY <1>7, <2>1, SetRowFacts
<1>9. Len(new) \in Nat
      BY LenProperties DEF RowsOfCells
<1>10. PICK v : v = [w EXCEPT !.cur_col = w.cur_col + Len(new)]
      OBVIOUS
<1>11. v = ft_row_printf_impl_(t, new)
      BY <1>2, <1>3, <1>4, <1>6, <1>7, <1>10 DEF ft_row_printf_impl_
<1>12. /\ w.cur_row = r /\ w.cur_col = 0 /\ w.separators = t.separators
       /\ w.add_strategy = "REPLACE"
      BY <1>2, <1>5, <1>8 DEF SameCursor
<1>13. /\ v \in TableRecords /\ v.rows = w.rows /\ v.cur_row = r /\ v.separators = t.separators
       /\ v.add_strategy = "REPLACE"
  <2>1. PICK n \in Nat : n = w.cur_col + Len(new)
        BY <1>9, <1>12
  <2>2. v = [w EXCEPT !.cur_col = n]
        BY <1>10, <2>1
  <2> QED BY <1>8, <1>12, <2>2 DEF TableRecords
<1>14. u = [v EXCEPT !.cur_col = 0, !.cur_row = v.cur_row + 1]
      BY <1>11, <1>13 DEF LnOutcomes, ft_ln, ft_ln_fails
<1>15. /\ u \in TableRecords /\ u.rows = w.rows /\ u.cur_row = r + 1 /\ u.cur_col = 0
       /\ u.separators = t.separators /\ u.add_strategy = "REPLACE"
  <2>1. PICK n \in Nat : n = v.cur_row + 1
        BY <1>1, <1>13
  <2>2. u = [v EXCEPT !.cur_col = 0, !.cur_row = n]
        BY <1>14, <2>1
  <2> HIDE DEF r
  <2>3. n = r + 1
        BY <1>13, <2>1
  <2> QED BY <1>13, <2>2, <2>3 DEF TableRecords
<1>16. Len(t.rows) \in {r, r + 1}
      BY DEF Filled
<1>17. Len(u.rows) = r + 1
      BY <1>1, <1>5, <1>8, <1>15, <1>16
<1>18. u.rows[r + 1] = new
      BY <1>8, <1>15 DEF RowAt
<1>19. \A i \in 1..r : u.rows[i] = t.rows[i]
  <2> SUFFICES ASSUME NEW i \in 1..r PROVE u.rows[i] = t.rows[i]
      OBVIOUS
  <2>1. i \in 1..Len(p.rows) /\ i # r + 1 /\ i <= Len(t.rows)
        BY <1>1, <1>8, <1>15, <1>16, <1>17
  <2> QED BY <1>5, <1>8, <1>15, <2>1
<1>20. Filled(u)
  <2>1. u.cur_row \in 0..MaxRows
        BY <1>1, <1>15 DEF TableAssumption
  <2>2. Len(u.rows) # u.cur_row + 1 /\ Len(u.rows) = u.cur_row
        BY <1>1, <1>15, <1>17
  <2> QED BY <1>15, <2>1, <2>2 DEF Filled
<1> QED BY <1>15, <1>18, <1>19, <1>20

\* The texts of the cells are the fields of the line.
LEMMA FieldsOfRow ==
    ASSUME TableAssumption, NEW fmt \in Formats, NEW new \in RowsOfCells,
           new = create_row_from_fmt_string(fmt), new # NoRow
    PROVE  Fields(new) = fmt
<1>1. Len(new) = Len(fmt) /\ \A i \in 1..Len(fmt) : new[i].text = fmt[i]
      BY FormatFacts
<1>2. fmt \in Seq(Texts) /\ DOMAIN fmt = 1..Len(fmt) /\ DOMAIN new = 1..Len(new)
      BY LenProperties DEF TableAssumption, RowsOfCells
<1>3. \A i \in 1..Len(fmt) : new[i] # Hole
      BY <1>1, ElementOfSeq DEF TableAssumption, RowsOfCells
<1>4. \A i \in 1..Len(fmt) : CellText(new[i]) = fmt[i]
      BY <1>1, <1>3 DEF CellText
<1>5. fmt = [j \in 1..Len(fmt) |-> fmt[j]]
      BY <1>2
<1> QED BY <1>1, <1>2, <1>4, <1>5 DEF Fields

\* The lines of a filled table are a sequence of lines.
LEMMA LinesFacts ==
    ASSUME TableAssumption, NEW t, Filled(t)
    PROVE  /\ Lines(t) \in Seq(Seq(Texts \cup {Blank}))
           /\ Len(Lines(t)) = t.cur_row
           /\ \A i \in 1..t.cur_row :
                Lines(t)[i] = Fields(t.rows[i])
<1> DEFINE T == Texts \cup {Blank}
           r == t.cur_row
<1>1. t \in TableRecords /\ r \in Nat /\ Len(t.rows) \in Nat
      BY RowOf DEF Filled, TableAssumption
<1>2. \A i \in 1..r : Lines(t)[i] = Fields(t.rows[i])
      BY DEF Lines
<1>3. ASSUME NEW i \in 1..r PROVE Lines(t)[i] \in Seq(T)
  <2>1. i \in 1..Len(t.rows)
        BY <1>1 DEF Filled
  <2>2. PICK row \in Seq(Cells) : row = t.rows[i]
        BY <1>1, <2>1, RowOf DEF RowsOfCells
  <2>3. DOMAIN row = 1..Len(row) /\ Len(row) \in Nat
        BY LenProperties
  <2>4. \A j \in 1..Len(row) : row[j] \in Cells
        BY ElementOfSeq
  <2>5. \A j \in 1..Len(row) : CellText(row[j]) \in T
        BY <2>4 DEF CellText, TableAssumption, Cells
  <2>6. [j \in 1..Len(row) |-> CellText(row[j])] \in [1..Len(row) -> T]
        BY <2>5
  <2>7. [j \in 1..Len(row) |-> CellText(row[j])] \in Seq(T)
        BY <2>3, <2>6, SeqDef
  <2> QED BY <1>2, <2>2, <2>3, <2>7 DEF Fields
<1>4. Lines(t) = [i \in 1..r |-> Lines(t)[i]]
      BY DEF Lines
<1>5. Lines(t) \in [1..r -> Seq(T)]
      BY <1>3, <1>4
<1>6. Lines(t) \in Seq(Seq(T)) /\ Len(Lines(t)) = r
      BY <1>1, <1>5, SeqDef
<1> QED BY <1>2, <1>6

\* One more row is one more line.
LEMMA LineAppended ==
    ASSUME TableAssumption, NEW t, Filled(t), NEW u, Filled(u), u.cur_row = t.cur_row + 1,
           \A i \in 1..t.cur_row : u.rows[i] = t.rows[i],
           NEW fmt \in Formats,
           Fields(u.rows[u.cur_row]) = fmt
    PROVE  Lines(u) = Append(Lines(t), fmt)
<1> DEFINE T == Seq(Texts \cup {Blank})
<1>1. PICK r \in Nat : r = t.cur_row
      BY DEF Filled, TableAssumption
<1>2. PICK a \in Seq(T) : a = Lines(t)
      BY LinesFacts
<1>3. PICK b \in Seq(T) : b = Lines(u)
      BY LinesFacts
<1>4. Len(a) = r /\ Len(b) = r + 1
      BY <1>1, <1>2, <1>3, LinesFacts
<1>5. \A i \in 1..r : a[i] = Fields(t.rows[i])
      BY <1>1, <1>2, LinesFacts
<1>6. \A i \in 1..(r + 1) : b[i] = Fields(u.rows[i])
      BY <1>1, <1>3, LinesFacts
<1>7. b[r + 1] = fmt
  <2>1. r + 1 \in 1..(r + 1) /\ u.cur_row = r + 1
        BY <1>1
  <2>2. b[r + 1] = Fields(u.rows[r + 1])
        BY <1>6, <2>1
  <2>3. Fields(u.rows[r + 1]) = fmt
        BY <2>1
  <2> QED BY <2>2, <2>3
<1>8. \A i \in 1..r : b[i] = a[i]
  <2> SUFFICES ASSUME NEW i \in 1..r PROVE b[i] = a[i]
      OBVIOUS
  <2>1. u.rows[i] = t.rows[i]
        BY <1>1
  <2>2. b[i] = Fields(u.rows[i])
        BY <1>6
  <2>3. a[i] = Fields(t.rows[i])
        BY <1>5
  <2> QED BY <2>1, <2>2, <2>3
<1>9. fmt \in T
  <2>1. fmt \in Seq(Texts)
        BY DEF TableAssumption
  <2>2. Texts \subseteq Texts \cup {Blank}
        OBVIOUS
  <2> QED BY <2>1, <2>2, SeqMonotonic
<1> HIDE DEF T
<1>10. /\ Append(a, fmt) \in Seq(T) /\ Len(Append(a, fmt)) = Len(a) + 1
       /\ \A i \in 1..Len(a) : Append(a, fmt)[i] = a[i]
       /\ Append(a, fmt)[Len(a) + 1] = fmt
      BY <1>9, AppendProperties
<1>11. PICK c \in Seq(T) : c = Append(a, fmt)
      BY <1>10
<1>12. Len(b) = Len(c) /\ \A i \in 1..Len(b) : b[i] = c[i]
      BY <1>4, <1>7, <1>8, <1>10, <1>11
<1>13. b = c
      BY <1>12, SeqEqual
<1> QED BY <1>2, <1>3, <1>11, <1>13

\* A separator above the current row is a mark there.
LEMMA MarkAdded ==
    ASSUME TableAssumption, NEW t, Filled(t)
    PROVE  /\ Filled(ft_add_separator(t)) /\ Lines(ft_add_separator(t)) = Lines(t)
           /\ Marks(ft_add_separator(t)) = Marks(t) \cup {t.cur_row}
<1>1. t \in TableRecords /\ t.cur_row \in 0..MaxRows /\ MaxRows \in Nat /\ t.separators \in Seq(BOOLEAN)
      BY DEF Filled, TableAssumption, TableRecords
<1>2. PICK n \in Nat : n = t.cur_row + 1
      BY <1>1
<1>3. PICK s : s = Padded(t.separators, n, FALSE)
      OBVIOUS
<1>4. s \in Seq(BOOLEAN) /\ IsPadded(s, t.separators, n, FALSE)
      BY <1>1, <1>3, PadSeparators
<1>5. Len(t.separators) \in Nat
      BY <1>1, LenProperties
<1>6. n \in 1..Len(s) /\ Len(s) \in Nat /\ Len(s) >= Len(t.separators)
      BY <1>1, <1>2, <1>4, <1>5 DEF IsPadded
<1>7. PICK w : w = [s EXCEPT ![n] = TRUE]
      OBVIOUS
<1>8. /\ w \in Seq(BOOLEAN) /\ Len(w) = Len(s)
      /\ \A i \in 1..Len(s) : w[i] = IF i = n THEN TRUE ELSE s[i]
  <2>1. PICK e \in BOOLEAN : e = TRUE
        OBVIOUS
  <2>2. w = [s EXCEPT ![n] = e]
        BY <1>7, <2>1
  <2>3. /\ w \in Seq(BOOLEAN) /\ Len(w) = Len(s)
        /\ \A i \in 1..Len(s) : w[i] = IF i = n THEN e ELSE s[i]
        BY <1>4, <1>6, <2>2, ExceptSeq
  <2> QED BY <2>1, <2>3
<1>9. PICK u : u = [t EXCEPT !.separators = w]
      OBVIOUS
<1>10. u = ft_add_separator(t)
      BY <1>2, <1>3, <1>7, <1>9 DEF ft_add_separator
<1>11. /\ u \in TableRecords /\ u.rows = t.rows /\ u.cur_row = t.cur_row /\ u.cur_col = t.cur_col
       /\ u.separators = w /\ u.add_strategy = t.add_strategy
      BY <1>1, <1>8, <1>9 DEF TableRecords
<1>12. Filled(u)
      BY <1>11 DEF Filled
<1>13. Lines(u) = Lines(t)
      BY <1>11 DEF Lines
<1>14. ASSUME NEW i \in 0..MaxRows
       PROVE  i \in Marks(u) <=> (i \in Marks(t) \/ i = t.cur_row)
  <2>1. i \in Marks(u) <=> (i < Len(w) /\ w[i + 1])
        BY <1>11 DEF Marks
  <2>2. i \in Marks(t) <=> (i < Len(t.separators) /\ t.separators[i + 1])
        BY DEF Marks
  <2>3. CASE i = t.cur_row
    <3>1. i + 1 = n /\ i + 1 \in 1..Len(s) /\ i < Len(w)
          BY <1>2, <1>6, <1>8, <2>3
    <3>2. w[i + 1] = TRUE
          BY <1>8, <3>1
    <3> QED BY <2>1, <2>3, <3>1, <3>2
  <2>4. CASE i # t.cur_row /\ i < Len(t.separators)
    <3>1. i + 1 # n /\ i + 1 \in 1..Len(s) /\ i < Len(w) /\ i + 1 <= Len(t.separators)
          BY <1>1, <1>2, <1>5, <1>6, <1>8, <2>4
    <3>2. w[i + 1] = t.separators[i + 1]
          BY <1>4, <1>8, <3>1 DEF IsPadded
    <3> QED BY <2>1, <2>2, <2>4, <3>1, <3>2
  <2>5. CASE i # t.cur_row /\ ~(i < Len(t.separators)) /\ i < Len(w)
    <3>1. i + 1 # n /\ i + 1 \in 1..Len(s) /\ ~(i + 1 <= Len(t.separators))
          BY <1>1, <1>2, <1>5, <1>6, <1>8, <2>5
    <3>2. w[i + 1] = FALSE
          BY <1>4, <1>8, <3>1 DEF IsPadded
    <3> QED BY <2>1, <2>2, <2>5, <3>1, <3>2
  <2>6. CASE i # t.cur_row /\ ~(i < Len(t.separators)) /\ ~(i < Len(w))
        BY <2>1, <2>2, <2>6
  <2> QED BY <2>3, <2>4, <2>5, <2>6
<1>15. Marks(u) \subseteq 0..MaxRows /\ Marks(t) \subseteq 0..MaxRows
      BY DEF Marks
<1>16. Marks(u) = Marks(t) \cup {t.cur_row}
      BY <1>1, <1>14, <1>15
<1> QED BY <1>10, <1>12, <1>13, <1>16

\* Separators that were padded before memory ran out are no marks.
LEMMA MarkFails ==
    ASSUME TableAssumption, NEW t, Filled(t), NEW u \in ft_add_separator_fails(t)
    PROVE  Kept(t, u)
<1>1. t \in TableRecords /\ t.cur_row \in 0..MaxRows /\ MaxRows \in Nat /\ t.separators \in Seq(BOOLEAN)
      BY DEF Filled, TableAssumption, TableRecords
<1>2. Len(t.separators) \in Nat
      BY <1>1, LenProperties
<1>3. PICK n \in Len(t.separators)..t.cur_row : u = [t EXCEPT !.separators = Padded(t.separators, n, FALSE)]
      BY DEF ft_add_separator_fails
<1>4. n \in Nat /\ n >= Len(t.separators)
      BY <1>1, <1>2
<1>5. PICK s : s = Padded(t.separators, n, FALSE)
      OBVIOUS
<1>6. s \in Seq(BOOLEAN) /\ IsPadded(s, t.separators, n, FALSE)
      BY <1>1, <1>4, <1>5, PadSeparators
<1>7. /\ u \in TableRecords /\ u.rows = t.rows /\ u.cur_row = t.cur_row /\ u.cur_col = t.cur_col
      /\ u.separators = s /\ u.add_strategy = t.add_strategy
      BY <1>1, <1>3, <1>5, <1>6 DEF TableRecords
<1>8. Filled(u)
      BY <1>7 DEF Filled
<1>9. Lines(u) = Lines(t)
      BY <1>7 DEF Lines
<1>10. ASSUME NEW i \in 0..MaxRows
       PROVE  i \in Marks(u) <=> i \in Marks(t)
  <2>1. i \in Marks(u) <=> (i < Len(s) /\ s[i + 1])
        BY <1>7 DEF Marks
  <2>2. i \in Marks(t) <=> (i < Len(t.separators) /\ t.separators[i + 1])
        BY DEF Marks
  <2>3. Len(s) = n
        BY <1>2, <1>4, <1>6 DEF IsPadded
  <2>4. CASE i < Len(t.separators)
    <3>1. i + 1 \in 1..Len(s) /\ i < Len(s) /\ i + 1 <= Len(t.separators)
          BY <1>2, <1>4, <2>3, <2>4
    <3>2. s[i + 1] = t.separators[i + 1]
          BY <1>6, <3>1 DEF IsPadded
    <3> QED BY <2>1, <2>2, <2>4, <3>1, <3>2
  <2>5. CASE ~(i < Len(t.separators)) /\ i < Len(s)
    <3>1. i + 1 \in 1..Len(s) /\ ~(i + 1 <= Len(t.separators))
          BY <1>2, <1>4, <2>3, <2>5
    <3>2. s[i + 1] = FALSE
          BY <1>6, <3>1 DEF IsPadded
    <3> QED BY <2>1, <2>2, <2>5, <3>1, <3>2
  <2>6. CASE ~(i < Len(t.separators)) /\ ~(i < Len(s))
        BY <2>1, <2>2, <2>6
  <2> QED BY <2>4, <2>5, <2>6
<1>11. Marks(u) \subseteq 0..MaxRows /\ Marks(t) \subseteq 0..MaxRows
      BY DEF Marks
<1>12. Marks(u) = Marks(t)
      BY <1>10, <1>11
<1> QED BY <1>8, <1>9, <1>12 DEF Kept

\* Only without memory does a vector lose its items.
LEMMA LossIsScarce ==
    ASSUME DaemonNext, status' = "lost"
    PROVE  Scarce
<1>1. \A u : ~Success(u)
      BY DEF Success
<1>2. \A us : ~Failure(us)
      BY DEF Failure
<1>3. \A us : Loss(us) => Scarce
      BY DEF Loss
<1> QED BY <1>1, <1>2, <1>3 DEF DaemonNext, PrintfLn, AddSeparator

\* What the daemons do to a filled table: print a line, mark, or nothing.
LEMMA DaemonStep ==
    ASSUME TableAssumption, Filled(table), DaemonNext, status' # "lost"
    PROVE  /\ Filled(table')
           /\ \/ \E fmt \in Formats :
                   /\ Len(fmt) = 1 \/ \A i \in DOMAIN fmt : fmt[i] \notin Barred
                   /\ Lines(table') = Append(Lines(table), fmt)
                   /\ Marks(table') = Marks(table)
              \/ Lines(table') = Lines(table) /\ Marks(table') = Marks(table) \cup {table.cur_row}
              \/ Lines(table') = Lines(table) /\ Marks(table') = Marks(table)
<1>1. \A u : Success(u) => table' = u /\ u.cur_row <= MaxRows
      BY DEF Success, WithinBounds
<1>2. \A us : Failure(us) => \E u \in us : table' = u
      BY DEF Failure
<1>3. \A us : ~Loss(us)
      BY DEF Loss
<1>4. ASSUME NEW fmt \in Formats, PrintfLn(fmt)
      PROVE  \/ Kept(table, table')
             \/ /\ Filled(table')
                /\ Len(fmt) = 1 \/ \A i \in DOMAIN fmt : fmt[i] \notin Barred
                /\ Lines(table') = Append(Lines(table), fmt)
                /\ Marks(table') = Marks(table)
  <2>1. PICK new \in RowsOfCells : new = create_row_from_fmt_string(fmt)
        BY FormatFacts
  <2>2. ASSUME new # NoRow, NEW u \in LnOutcomes(ft_row_printf_impl_(table, new)), Success(u)
        PROVE  /\ Filled(table')
               /\ Len(fmt) = 1 \/ \A i \in DOMAIN fmt : fmt[i] \notin Barred
               /\ Lines(table') = Append(Lines(table), fmt)
               /\ Marks(table') = Marks(table)
    <3>1. table' = u /\ u.cur_row <= MaxRows
          BY <1>1, <2>2
    <3>2. /\ Filled(u) /\ u.cur_row = table.cur_row + 1 /\ u.separators = table.separators
          /\ \A i \in 1..table.cur_row : u.rows[i] = table.rows[i]
          /\ u.rows[table.cur_row + 1] = new
          BY <2>2, <3>1, RowPrinted
    <3>3. Fields(u.rows[u.cur_row]) = fmt
          BY <2>1, <2>2, <3>2, FieldsOfRow
    <3>4. Lines(u) = Append(Lines(table), fmt)
          BY <3>2, <3>3, LineAppended
    <3>5. Marks(u) = Marks(table)
          BY <3>2 DEF Marks
    <3>6. Len(fmt) = 1 \/ \A i \in DOMAIN fmt : fmt[i] \notin Barred
          BY <2>1, <2>2, FormatFacts
    <3> QED BY <3>1, <3>2, <3>4, <3>5, <3>6
  <2>3. CASE Failure({table})
    <3>1. table' = table
          BY <1>2, <2>3
    <3>2. Kept(table, table)
          BY DEF Kept
    <3> QED BY <3>1, <3>2
  <2>4. CASE Failure(ft_printf_fails(table))
        BY <1>2, <2>4, NothingPadded
  <2> QED BY <1>3, <1>4, <2>1, <2>2, <2>3, <2>4 DEF PrintfLn
<1>5. ASSUME AddSeparator
      PROVE  \/ Kept(table, table')
             \/ /\ Filled(table')
                /\ Lines(table') = Lines(table)
                /\ Marks(table') = Marks(table) \cup {table.cur_row}
  <2>1. CASE Success(ft_add_separator(table))
        BY <1>1, <2>1, MarkAdded
  <2>2. CASE Failure(ft_add_separator_fails(table))
        BY <1>2, <2>2, MarkFails
  <2> QED BY <1>3, <1>5, <2>1, <2>2 DEF AddSeparator
<1> QED BY <1>4, <1>5 DEF DaemonNext, Kept

\* Whatever lines the daemons print, which of them are refused and wherever memory
\* for an item runs out, the table they fill is the report they mean: the accepted
\* lines, whole and in their order, and separators where they were asked for.  Only
\* the failed growth of a vector ends the report, all of it at once.
THEOREM ImplementsReport ==
    ASSUME TableAssumption
    PROVE  DaemonSpec => IsReport
<1> DEFINE lost == status = "lost"
           lines == IF lost THEN <<>>
                    ELSE [i \in 1..table.cur_row |->
                            [j \in DOMAIN table.rows[i] |-> CellText(table.rows[i][j])]]
           marks == IF lost THEN {}
                    ELSE { i \in 0..MaxRows : i < Len(table.separators) /\ table.separators[i + 1] }
           I == lost \/ Filled(table)
<1>1. ~lost => lines = Lines(table) /\ marks = Marks(table)
      BY DEF Lines, Marks, Fields
<1>2. ~lost' => lines' = Lines(table') /\ marks' = Marks(table')
      BY DEF Lines, Marks, Fields
<1>3. TableInit => I /\ Report!Init
  <2> SUFFICES ASSUME TableInit PROVE I /\ Report!Init
      OBVIOUS
  <2>1. <<>> \in Seq(RowsOfCells) /\ Len(<<>>) = 0 /\ <<>> \in Seq(BOOLEAN)
        BY EmptySeq
  <2>2. /\ table \in TableRecords /\ table.cur_col = 0 /\ table.cur_row = 0 /\ table.rows = <<>>
        /\ table.separators = <<>> /\ table.add_strategy = "REPLACE" /\ ~lost
        BY <2>1 DEF EmptyTable, TableRecords, TableInit
  <2>3. Filled(table)
        BY <2>1, <2>2 DEF Filled, TableAssumption
  <2>4. Lines(table) = <<>>
        BY <2>2 DEF Lines
  <2>5. Marks(table) = {}
        BY <2>1, <2>2 DEF Marks
  <2> HIDE DEF lines, marks
  <2>6. lines = <<>> /\ marks = {}
        BY <1>1, <2>2, <2>4, <2>5
  <2> QED BY <2>2, <2>3, <2>6 DEF Report!Init, lines, marks
<1>4. I /\ [DaemonNext]_tvars => I' /\ [Report!Next]_(Report!rvars)
  <2> SUFFICES ASSUME I, [DaemonNext]_tvars
               PROVE  I' /\ [Report!Next]_(Report!rvars)
      OBVIOUS
  <2>1. CASE UNCHANGED tvars
        BY <2>1 DEF tvars, Filled, Report!rvars
  <2>2. CASE DaemonNext
    <3>1. ~lost /\ Filled(table)
          BY <2>2 DEF DaemonNext, Running
    <3>2. CASE lost'
      <4>1. lines' = <<>> /\ marks' = {}
            BY <3>2
      <4>2. Scarce
            BY <2>2, <3>1, <3>2, LossIsScarce
      <4> HIDE DEF lines, marks, lost
      <4>3. Scarce /\ ~lost /\ lost' = TRUE /\ lines' = <<>> /\ marks' = {}
            BY <3>1, <3>2, <4>1, <4>2
      <4> QED BY <3>2, <4>3 DEF Report!Next, Report!Lose, lines, marks, lost
    <3>3. CASE ~lost'
      <4>1. I'
            BY <2>2, <3>1, <3>3, DaemonStep
      <4>2. Len(lines) = table.cur_row
            BY <1>1, <3>1, LinesFacts
      <4> HIDE DEF lines, marks
      <4>3. \/ \E fmt \in Formats :
                 /\ Len(fmt) = 1 \/ \A i \in DOMAIN fmt : fmt[i] \notin Barred
                 /\ lines' = Append(lines, fmt) /\ marks' = marks
            \/ lines' = lines /\ marks' = marks \cup {Len(lines)}
            \/ lines' = lines /\ marks' = marks
            BY <1>1, <1>2, <2>2, <3>1, <3>3, <4>2, DaemonStep
      <4> HIDE DEF lost
      <4>4. lost' = lost
            BY <3>1, <3>3 DEF lost
      <4>5. [Report!Next]_(Report!rvars)
            BY <3>1, <4>3, <4>4 DEF Report!Next, Report!Line, Report!Printable, Report!Mark,
                      Report!rvars, lines, marks, lost
      <4> QED BY <4>1, <4>5
    <3> QED BY <3>2, <3>3
  <2> QED BY <2>1, <2>2
<1> QED BY <1>3, <1>4, PTL DEF DaemonSpec, IsReport, Report!Spec

-----------------------------------------------------------------------------
(* Tables that are edited *)

\* What a row of a table that is edited may hold.
Pointers == Cells \cup {Hole}
LooseRows == Seq(Pointers)
LooseTables ==
    [rows : Seq(LooseRows), separators : Seq(BOOLEAN), cur_row : Nat, cur_col : Nat,
     add_strategy : Strategies \cup {"REPLACE"}]

-----------------------------------------------------------------------------
(* ft_erase_range *)

\* An item removed.
LEMMA ItemRemoved ==
    ASSUME NEW S, NEW s \in Seq(S), NEW k \in 1..Len(s)
    PROVE  /\ RemoveAt(s, k) \in Seq(S)
           /\ Len(RemoveAt(s, k)) = Len(s) - 1
           /\ \A i \in 1..(Len(s) - 1) : RemoveAt(s, k)[i] = IF i < k THEN s[i] ELSE s[i + 1]
<1>1. RemoveAt(s, k) = Abstract!RemoveAt(s, k)
      BY DEF RemoveAt, Abstract!RemoveAt
<1> QED BY <1>1, RemoveAtFacts

\* One pass of the loop.
LEMMA DropFacts ==
    ASSUME NEW u, NEW k
    PROVE  DropEmptyRow([t |-> u, i |-> k]) =
             IF u.rows[k] # <<>> THEN [t |-> u, i |-> k + 1] ELSE [t |-> DropRow(u, k), i |-> k]
BY DEF DropEmptyRow

\* The rows from top on that the first j passes find empty.
Lost(R, top, j) == { x \in 1..Len(R) : top < x /\ x <= top + j /\ R[x] = <<>> }

\* One more pass.
LEMMA LostMore ==
    ASSUME NEW R \in Seq(LooseRows), NEW top \in Nat, NEW j \in Nat, top + j + 1 <= Len(R)
    PROVE  Lost(R, top, j + 1) = IF R[top + j + 1] = <<>> THEN Lost(R, top, j) \cup {top + j + 1}
                                 ELSE Lost(R, top, j)
<1>1. Len(R) \in Nat
      BY LenProperties
<1>2. PICK m \in 1..Len(R) : m = top + j + 1
      BY <1>1
<1>3. \A x \in 1..Len(R) : (x <= top + (j + 1)) <=> (x <= top + j \/ x = m)
      BY <1>1, <1>2
<1>4. top < m /\ ~(m <= top + j)
      BY <1>2
<1> QED BY <1>2, <1>3, <1>4 DEF Lost

\* The loop after j passes, at row acc.i of what is left: d rows are gone, and
\* e tells which separators are left.
Swept(s, R, top, j, acc, d, e) ==
    /\ acc.t \in LooseTables /\ acc = [t |-> acc.t, i |-> acc.i]
    /\ d \in 0..j /\ acc.i = top + j + 1 - d
    /\ Len(acc.t.rows) = Len(R) - d
    /\ \A k \in acc.i..Len(acc.t.rows) : acc.t.rows[k] = R[k + d]
    /\ e \in Seq(Nat)
    /\ \A k, l \in 1..Len(e) : k < l => e[k] < e[l]
    /\ \A k \in 1..Len(e) : e[k] \in 1..Len(s) /\ e[k] \notin Lost(R, top, j)
    /\ \A x \in 1..Len(s) : \/ x \in Lost(R, top, j)
                            \/ \E k \in 1..Len(e) : e[k] = x
    /\ Len(acc.t.separators) = Len(e) /\ \A k \in 1..Len(e) : acc.t.separators[k] = s[e[k]]
    /\ \A k \in Nat : k >= acc.i => /\ k <= Len(e) <=> k + d <= Len(s)
                                    /\ k <= Len(e) => e[k] = k + d

\* One pass keeps that.
LEMMA SweepRow ==
    ASSUME NEW s \in Seq(BOOLEAN), NEW R \in Seq(LooseRows), NEW top \in Nat, NEW j \in Nat,
           top + j + 1 <= Len(R), NEW acc, NEW d, NEW e, Swept(s, R, top, j, acc, d, e)
    PROVE  \E d2, e2 : Swept(s, R, top, j + 1, DropEmptyRow(acc), d2, e2)
<1>1. Len(s) \in Nat /\ Len(R) \in Nat /\ Len(e) \in Nat
      BY LenProperties DEF Swept
<1>2. PICK u, i : u \in LooseTables /\ u = acc.t /\ i = acc.i /\ acc = [t |-> u, i |-> i]
      BY DEF Swept
<1> u \in LooseTables
      BY <1>2
<1>3. d \in 0..j /\ i = top + j + 1 - d /\ i \in Nat /\ i > top /\ i + d = top + j + 1
      BY <1>2 DEF Swept
<1>4. u.rows \in Seq(LooseRows) /\ u.separators \in Seq(BOOLEAN)
      BY DEF LooseTables
<1>5. Len(u.rows) = Len(R) - d /\ Len(u.separators) = Len(e) /\ e \in Seq(Nat)
      BY <1>2 DEF Swept
<1>6. i \in 1..Len(u.rows)
      BY <1>1, <1>3, <1>5
<1>7. \A k \in i..Len(u.rows) : u.rows[k] = R[k + d]
      BY <1>2 DEF Swept
<1>8. u.rows[i] = R[top + j + 1]
      BY <1>1, <1>3, <1>6, <1>7
<1>9. \A k, l \in 1..Len(e) : k < l => e[k] < e[l]
      BY DEF Swept
<1>10. \A k \in 1..Len(e) : e[k] \in 1..Len(s) /\ e[k] \notin Lost(R, top, j)
      BY DEF Swept
<1>11. \A x \in 1..Len(s) : \/ x \in Lost(R, top, j)
                            \/ \E k \in 1..Len(e) : e[k] = x
      BY DEF Swept
<1>12. \A k \in 1..Len(e) : u.separators[k] = s[e[k]]
      BY <1>2 DEF Swept
<1>13. \A k \in Nat : k >= i => (k <= Len(e) <=> k + d <= Len(s)) /\ (k <= Len(e) => e[k] = k + d)
      BY <1>2 DEF Swept
<1>14. Lost(R, top, j + 1) = IF R[top + j + 1] = <<>> THEN Lost(R, top, j) \cup {top + j + 1}
                             ELSE Lost(R, top, j)
      BY LostMore
<1>15. CASE R[top + j + 1] # <<>>
  <2>1. PICK v : v = DropEmptyRow(acc)
        OBVIOUS
  <2>2. v = [t |-> u, i |-> i + 1]
        BY <1>2, <1>6, <1>8, <1>15, <2>1, DropFacts
  <2>3. v.t = u /\ v.i = i + 1 /\ v = [t |-> v.t, i |-> v.i]
        BY <2>2
  <2>4. d \in 0..(j + 1) /\ v.i = top + (j + 1) + 1 - d
    <3>1. d \in Int /\ d \in 0..(j + 1) /\ i + 1 = top + (j + 1) + 1 - d
          BY <1>3
    <3> QED BY <2>3, <3>1
  <2>5. \A k \in v.i..Len(u.rows) : k \in i..Len(u.rows)
        BY <1>1, <1>3, <1>5, <2>3
  <2>6. \A k \in 1..Len(e) : e[k] \notin Lost(R, top, j + 1)
        BY <1>1, <1>10, <1>14, <1>15
  <2>7. \A x \in 1..Len(s) : \/ x \in Lost(R, top, j + 1)
                             \/ \E k \in 1..Len(e) : e[k] = x
        BY <1>11, <1>14
  <2>8. \A k \in Nat : k >= v.i => k >= i
        BY <1>3, <2>3
  <2>9. Swept(s, R, top, j + 1, v, d, e)
        BY <1>5, <1>7, <1>9, <1>10, <1>12, <1>13, <2>3, <2>4, <2>5, <2>6, <2>7, <2>8 DEF Swept
  <2> QED BY <2>1, <2>9
<1>16. CASE R[top + j + 1] = <<>>
  <2>1. PICK rows : rows = RemoveAt(u.rows, i)
        OBVIOUS
  <2>2. rows \in Seq(LooseRows) /\ Len(rows) = Len(u.rows) - 1
        /\ \A k \in 1..(Len(u.rows) - 1) : rows[k] = IF k < i THEN u.rows[k] ELSE u.rows[k + 1]
        BY <1>4, <1>6, <2>1, ItemRemoved
  <2>3. PICK seps : seps = IF i <= Len(u.separators) THEN RemoveAt(u.separators, i) ELSE u.separators
        OBVIOUS
  <2>4. PICK e2 : e2 = IF i <= Len(e) THEN RemoveAt(e, i) ELSE e
        OBVIOUS
  <2>5. i <= Len(e) => /\ e2 \in Seq(Nat) /\ Len(e2) = Len(e) - 1
                       /\ \A k \in 1..(Len(e) - 1) : e2[k] = IF k < i THEN e[k] ELSE e[k + 1]
    <3>1. i <= Len(e) => i \in 1..Len(e)
          BY <1>1, <1>6
    <3> QED BY <1>5, <2>4, <3>1, ItemRemoved
  <2>6. i <= Len(e) => /\ seps \in Seq(BOOLEAN) /\ Len(seps) = Len(e) - 1
                       /\ \A k \in 1..(Len(e) - 1) : seps[k] = IF k < i THEN u.separators[k] ELSE u.separators[k + 1]
    <3>1. i <= Len(e) => i \in 1..Len(u.separators)
          BY <1>1, <1>5, <1>6
    <3> QED BY <1>4, <1>5, <2>3, <3>1, ItemRemoved
  <2>7. ~(i <= Len(e)) => e2 = e /\ seps = u.separators
        BY <1>5, <2>3, <2>4
  <2>8. PICK w : w = [u EXCEPT !.rows = rows, !.separators = seps]
        OBVIOUS
  <2>18. w = DropRow(u, i)
        BY <2>1, <2>3, <2>8 DEF DropRow
  <2>9. w \in LooseTables /\ w.rows = rows /\ w.separators = seps
    <3>1. seps \in Seq(BOOLEAN)
      <4>1. CASE i <= Len(e)
            BY <2>6, <4>1
      <4>2. CASE ~(i <= Len(e))
            BY <1>4, <2>7, <4>2
      <4> QED BY <4>1, <4>2
    <3>2. rows \in Seq(LooseRows)
          BY <2>2
    <3>3. [u EXCEPT !.rows = rows, !.separators = seps] \in LooseTables
          /\ [u EXCEPT !.rows = rows, !.separators = seps].rows = rows
          /\ [u EXCEPT !.rows = rows, !.separators = seps].separators = seps
          BY <3>1, <3>2 DEF LooseTables
    <3> QED BY <2>8, <3>3
  <2>10. PICK v : v = DropEmptyRow(acc)
        OBVIOUS
  <2>11. v = [t |-> w, i |-> i]
        BY <1>2, <1>8, <1>16, <2>10, <2>18, DropFacts
  <2>12. v.t = w /\ v.i = i /\ v = [t |-> v.t, i |-> v.i]
        BY <2>11
  <2>13. d + 1 \in 0..(j + 1) /\ v.i = top + (j + 1) + 1 - (d + 1)
    <3>1. d \in Int /\ d + 1 \in 0..(j + 1) /\ i = top + (j + 1) + 1 - (d + 1)
          BY <1>3
    <3> QED BY <2>12, <3>1
  <2>14. Len(rows) = Len(R) - (d + 1)
        BY <1>1, <1>3, <1>5, <2>2
  <2>15. ASSUME NEW k \in i..Len(rows) PROVE rows[k] = R[k + (d + 1)]
    <3>1. k \in 1..(Len(u.rows) - 1) /\ ~(k < i) /\ k + 1 \in i..Len(u.rows) /\ k + 1 + d = k + (d + 1)
          BY <1>1, <1>3, <1>5, <1>6, <2>2
    <3> QED BY <1>7, <2>2, <3>1
  <2>16. CASE i <= Len(e)
    <3>1. e[i] = top + j + 1
          BY <1>3, <1>13, <2>16
    <3>2. \A k \in 1..Len(e) : e[k] \in Nat /\ (k < i => e[k] < top + j + 1) /\ (k > i => e[k] > top + j + 1)
      <4> SUFFICES ASSUME NEW k \in 1..Len(e)
                   PROVE  e[k] \in Nat /\ (k < i => e[k] < top + j + 1) /\ (k > i => e[k] > top + j + 1)
          OBVIOUS
      <4>1. i \in 1..Len(e) /\ k \in Nat
            BY <1>1, <1>3, <2>16
      <4>2. e[k] \in Nat
            BY <1>1, <1>10
      <4>3. k < i => e[k] < e[i]
            BY <1>9, <4>1
      <4>4. i < k => e[i] < e[k]
            BY <1>9, <4>1
      <4>5. k > i => i < k
            BY <1>3, <4>1
      <4>6. e[i] < e[k] => e[k] > e[i]
            BY <3>1, <4>2
      <4> QED BY <3>1, <4>2, <4>3, <4>4, <4>5, <4>6
    <3>3. \A k \in 1..(Len(e) - 1) : k \in 1..Len(e) /\ k + 1 \in 1..Len(e)
          BY <1>1
    <3>4. \A k, l \in 1..Len(e2) : k < l => e2[k] < e2[l]
      <4> SUFFICES ASSUME NEW k \in 1..Len(e2), NEW l \in 1..Len(e2), k < l PROVE e2[k] < e2[l]
          OBVIOUS
      <4>1. k \in 1..(Len(e) - 1) /\ l \in 1..(Len(e) - 1)
            BY <2>5, <2>16
      <4>2. k + 1 < l + 1 /\ k < l + 1 /\ (~(k < i) => ~(l < i))
            BY <1>3, <4>1
      <4> QED BY <1>9, <2>5, <2>16, <3>3, <4>1, <4>2
    <3>5. ASSUME NEW k \in 1..Len(e2)
          PROVE  e2[k] \in 1..Len(s) /\ e2[k] \notin Lost(R, top, j + 1)
      <4>1. k \in 1..(Len(e) - 1)
            BY <2>5, <2>16
      <4>2. PICK m \in 1..Len(e) : e2[k] = e[m] /\ m # i
        <5>1. CASE k < i
          <6>1. e2[k] = e[k] /\ k \in 1..Len(e) /\ k # i
                BY <1>3, <2>5, <2>16, <3>3, <4>1, <5>1
          <6> QED BY <6>1
        <5>2. CASE ~(k < i)
          <6>1. e2[k] = e[k + 1] /\ k + 1 \in 1..Len(e)
                BY <2>5, <2>16, <3>3, <4>1, <5>2
          <6>2. k + 1 # i
                BY <1>3, <5>2
          <6> QED BY <6>1, <6>2
        <5> QED BY <5>1, <5>2
      <4>3. e[m] # top + j + 1
            BY <1>3, <3>2, <4>2
      <4> QED BY <1>1, <1>10, <1>14, <4>2, <4>3
    <3>6. ASSUME NEW x \in 1..Len(s)
          PROVE  \/ x \in Lost(R, top, j + 1)
                 \/ \E k \in 1..Len(e2) : e2[k] = x
      <4>1. CASE x \in Lost(R, top, j)
            BY <1>14, <4>1
      <4>2. ASSUME NEW m \in 1..Len(e), e[m] = x
            PROVE  \/ x \in Lost(R, top, j + 1)
                   \/ \E k \in 1..Len(e2) : e2[k] = x
        <5>1. CASE m < i
          <6>1. m \in 1..(Len(e) - 1) /\ m \in 1..Len(e2)
                BY <1>1, <1>3, <2>5, <2>16, <5>1
          <6> QED BY <2>5, <2>16, <4>2, <5>1, <6>1
        <5>2. CASE m = i
              BY <1>14, <1>16, <3>1, <4>2, <5>2
        <5>3. CASE m > i
          <6>1. m - 1 \in 1..(Len(e) - 1) /\ m - 1 \in 1..Len(e2) /\ ~(m - 1 < i) /\ (m - 1) + 1 = m
                BY <1>1, <1>3, <2>5, <2>16, <5>3
          <6>2. e2[m - 1] = e[m]
                BY <2>5, <2>16, <6>1
          <6> QED BY <4>2, <6>1, <6>2
        <5> QED BY <1>3, <5>1, <5>2, <5>3
      <4> QED BY <1>11, <4>1, <4>2
    <3>7. Len(seps) = Len(e2) /\ \A k \in 1..Len(e2) : seps[k] = s[e2[k]]
      <4>1. Len(seps) = Len(e) - 1 /\ Len(e2) = Len(e) - 1
            BY <2>5, <2>6, <2>16
      <4>2. ASSUME NEW k \in 1..(Len(e) - 1) PROVE seps[k] = s[e2[k]]
        <5>1. k \in 1..Len(e) /\ k + 1 \in 1..Len(e)
              BY <3>3
        <5>2. u.separators[k] = s[e[k]] /\ u.separators[k + 1] = s[e[k + 1]]
              BY <1>12, <5>1
        <5>3. CASE k < i
          <6>1. seps[k] = u.separators[k] /\ e2[k] = e[k]
                BY <2>5, <2>6, <2>16, <5>3
          <6> QED BY <5>2, <6>1
        <5>4. CASE ~(k < i)
          <6>1. seps[k] = u.separators[k + 1] /\ e2[k] = e[k + 1]
                BY <2>5, <2>6, <2>16, <5>4
          <6> QED BY <5>2, <6>1
        <5> QED BY <5>3, <5>4
      <4> QED BY <4>1, <4>2
    <3>8. ASSUME NEW k \in Nat, k >= i
          PROVE  (k <= Len(e2) <=> k + (d + 1) <= Len(s)) /\ (k <= Len(e2) => e2[k] = k + (d + 1))
      <4>1. (k + 1 <= Len(e) <=> (k + 1) + d <= Len(s)) /\ (k + 1 <= Len(e) => e[k + 1] = (k + 1) + d)
            BY <1>3, <1>13, <3>8
      <4>2. k <= Len(e2) <=> k + 1 <= Len(e)
            BY <1>1, <2>5, <2>16
      <4>3. k <= Len(e2) => k \in 1..(Len(e) - 1) /\ ~(k < i)
            BY <1>1, <1>3, <2>5, <2>16, <3>8
      <4>4. k <= Len(e2) => e2[k] = e[k + 1]
            BY <2>5, <2>16, <4>3
      <4>5. (k + 1) + d = k + (d + 1)
            BY <1>3
      <4> QED BY <4>1, <4>2, <4>4, <4>5
    <3>9. Swept(s, R, top, j + 1, v, d + 1, e2)
          BY <2>5, <2>9, <2>12, <2>13, <2>14, <2>15, <2>16, <3>4, <3>5, <3>6, <3>7, <3>8 DEF Swept
    <3> QED BY <2>10, <3>9
  <2>17. CASE ~(i <= Len(e))
    <3>1. \A k \in 1..Len(e) : k < i
          BY <1>1, <1>3, <2>17
    <3>2. Len(s) < top + j + 1
      <4>1. ~(i + d <= Len(s))
        <5>1. i \in Nat /\ i >= i
              BY <1>3
        <5> QED BY <1>13, <2>17, <5>1
      <4>2. d \in Nat
            BY <1>3
      <4> QED BY <1>1, <1>3, <4>1, <4>2
    <3>3. \A k \in 1..Len(e) : e[k] # top + j + 1
          BY <1>1, <1>10, <3>2
    <3>4. \A k \in 1..Len(e) : e[k] \notin Lost(R, top, j + 1)
          BY <1>1, <1>10, <1>14, <3>3
    <3>5. \A x \in 1..Len(s) : \/ x \in Lost(R, top, j + 1)
                               \/ \E k \in 1..Len(e) : e[k] = x
          BY <1>11, <1>14
    <3>6. \A k \in Nat : k >= i => ~(k <= Len(e)) /\ ~(k + (d + 1) <= Len(s))
          BY <1>1, <1>3, <2>17, <3>2
    <3>7. Swept(s, R, top, j + 1, v, d + 1, e)
          BY <1>5, <1>9, <1>10, <1>12, <2>7, <2>9, <2>12, <2>13, <2>14, <2>15, <2>17, <3>4, <3>5, <3>6 DEF Swept
    <3> QED BY <2>10, <3>7
  <2> QED BY <2>16, <2>17
<1> QED BY <1>15, <1>16

\* The items of s outside of a set of positions, in their order.
KeptOf(s, gone) ==
    LET left == { i \in DOMAIN s : i \notin gone }
    IN  [k \in 1..Cardinality(left) |->
           s[CHOOSE i \in left : Cardinality({ j \in left : j <= i }) = k]]

\* e enumerates the positions of s that are left, in their order, and w the items.
Enumerates(e, s, gone, w) ==
    /\ \A k, l \in 1..Len(e) : k < l => e[k] < e[l]
    /\ \A k \in 1..Len(e) : e[k] \in 1..Len(s) /\ e[k] \notin gone
    /\ \A x \in 1..Len(s) : x \in gone \/ \E k \in 1..Len(e) : e[k] = x
    /\ Len(w) = Len(e) /\ \A k \in 1..Len(e) : w[k] = s[e[k]]

\* Then w is what is kept.
LEMMA KeptIs ==
    ASSUME NEW S, NEW s \in Seq(S), NEW gone, NEW e \in Seq(Nat), NEW w \in Seq(S),
           Enumerates(e, s, gone, w)
    PROVE  w = KeptOf(s, gone)
<1>0. /\ \A k, l \in 1..Len(e) : k < l => e[k] < e[l]
      /\ \A k \in 1..Len(e) : e[k] \in 1..Len(s) /\ e[k] \notin gone
      /\ \A x \in 1..Len(s) : x \in gone \/ \E k \in 1..Len(e) : e[k] = x
      /\ Len(w) = Len(e) /\ \A k \in 1..Len(e) : w[k] = s[e[k]]
      BY DEF Enumerates
<1> USE <1>0
<1> DEFINE left == { i \in DOMAIN s : i \notin gone }
           n == Len(e)
           below(i) == { j \in left : j <= i }
<1>1. Len(s) \in Nat /\ n \in Nat /\ DOMAIN s = 1..Len(s) /\ DOMAIN w = 1..n
      BY LenProperties
<1>2. \A k \in 1..n : e[k] \in left /\ e[k] \in Nat
      BY <1>1
<1>3. \A x \in left : \E k \in 1..n : e[k] = x
      BY <1>1
<1>4. \A k, l \in 1..n : e[k] = e[l] => k = l
  <2> SUFFICES ASSUME NEW k \in 1..n, NEW l \in 1..n, e[k] = e[l] PROVE k = l
      OBVIOUS
  <2>1. ~(e[k] < e[l]) /\ ~(e[l] < e[k])
        BY <1>2
  <2>2. ~(k < l) /\ ~(l < k)
        BY <2>1
  <2> QED BY <1>1, <2>2
<1>5. \A k, l \in 1..n : e[k] <= e[l] <=> k <= l
  <2> SUFFICES ASSUME NEW k \in 1..n, NEW l \in 1..n PROVE e[k] <= e[l] <=> k <= l
      OBVIOUS
  <2>1. e[k] \in Nat /\ e[l] \in Nat
        BY <1>2
  <2>2. CASE k < l
    <3>1. e[k] < e[l]
          BY <2>2
    <3> QED BY <2>1, <2>2, <3>1
  <2>3. CASE k = l
        BY <2>1, <2>3
  <2>4. CASE l < k
    <3>1. e[l] < e[k]
          BY <2>4
    <3> QED BY <2>1, <2>4, <3>1
  <2> QED BY <1>1, <2>2, <2>3, <2>4
<1> HIDE DEF left
<1>6. ASSUME NEW k \in 0..n, NEW B, \A x : x \in B <=> \E l \in 1..k : e[l] = x PROVE Cardinality(B) = k
  <2> DEFINE f == [l \in 1..k |-> e[l]]
  <2>1. 1..k \subseteq 1..n /\ k \in Nat
        BY <1>1
  <2>2. f \in [1..k -> B]
        BY <1>6
  <2>3. \A a, b \in 1..k : f[a] = f[b] => a = b
        BY <1>4, <2>1
  <2>4. \A x \in B : \E l \in 1..k : f[l] = x
        BY <1>6
  <2> HIDE DEF f
  <2>5. f \in Bijection(1..k, B)
        BY <2>2, <2>3, <2>4, Fun_IsBij
  <2>6. ExistsBijection(1..k, B)
        BY <2>5 DEF ExistsBijection
  <2> QED BY <2>1, <2>6, FS_CountingElements
<1>7. Cardinality(left) = n
  <2>1. \A x : x \in left <=> \E l \in 1..n : e[l] = x
        BY <1>2, <1>3
  <2>2. n \in 0..n
        BY <1>1
  <2> QED BY <1>6, <2>1, <2>2
<1>8. ASSUME NEW k \in 1..n PROVE Cardinality(below(e[k])) = k
  <2>1. ASSUME NEW x \in below(e[k]) PROVE \E l \in 1..k : e[l] = x
    <3>1. PICK l \in 1..n : e[l] = x
          BY <1>3
    <3>2. l <= k
          BY <1>5, <3>1
    <3>3. l \in 1..k
          BY <1>1, <3>2
    <3> QED BY <3>1, <3>3
  <2>2. ASSUME NEW l \in 1..k PROVE e[l] \in below(e[k])
    <3>1. l \in 1..n /\ l <= k
          BY <1>1
    <3>2. e[l] \in left /\ e[l] <= e[k]
          BY <1>2, <1>5, <3>1
    <3> QED BY <3>2
  <2>3. k \in 0..n
        BY <1>1
  <2>4. PICK B : B = below(e[k])
        OBVIOUS
  <2> HIDE DEF below
  <2>5. \A x : x \in B <=> \E l \in 1..k : e[l] = x
        BY <2>1, <2>2, <2>4
  <2>6. Cardinality(B) = k
        BY <1>6, <2>3, <2>5
  <2> QED BY <2>4, <2>6
<1>9. ASSUME NEW k \in 1..n
      PROVE  (CHOOSE i \in left : Cardinality(below(i)) = k) = e[k]
  <2> DEFINE P(i) == i \in left /\ Cardinality(below(i)) = k
  <2>1. P(e[k])
        BY <1>2, <1>8
  <2>2. ASSUME NEW i, P(i) PROVE i = e[k]
    <3>1. PICK l \in 1..n : e[l] = i
          BY <1>3, <2>2
    <3>2. Cardinality(below(e[l])) = l
          BY <1>8
    <3>3. l = k
          BY <2>2, <3>1, <3>2
    <3> QED BY <3>1, <3>3
  <2>3. (CHOOSE i \in left : Cardinality(below(i)) = k) = CHOOSE i : P(i)
        OBVIOUS
  <2> HIDE DEF P
  <2>4. P(CHOOSE i : P(i))
        BY <2>1
  <2> QED BY <2>2, <2>3, <2>4
<1>10. KeptOf(s, gone) = [k \in 1..n |-> s[CHOOSE i \in left : Cardinality(below(i)) = k]]
      BY <1>7 DEF KeptOf, left
<1>11. KeptOf(s, gone) = [k \in 1..n |-> s[e[k]]]
      BY <1>9, <1>10
<1>12. w = [k \in 1..n |-> w[k]]
      BY <1>1
<1> QED BY <1>11, <1>12

\* The smaller of two numbers.
LEMMA SmallerFacts ==
    ASSUME NEW a \in Nat, NEW b \in Nat
    PROVE  Min({a, b}) = IF a <= b THEN a ELSE b
<1>1. Min({a, b}) = Abstract!Min({a, b})
      BY DEF Min, Abstract!Min
<1> QED BY <1>1, MinFacts DEF Lesser

\* What is left of a row.
LEMMA RowErased ==
    ASSUME NEW row \in LooseRows, NEW left \in Nat, NEW right \in Nat
    PROVE  /\ ft_row_erase_range(row, left, right) \in LooseRows
           /\ left = 0 => (ft_row_erase_range(row, left, right) = <<>> <=> Len(row) <= right + 1)
<1>1. Len(row) \in Nat /\ row \in Seq(Pointers)
      BY LenProperties DEF LooseRows
<1>2. CASE row = <<>> \/ left >= Len(row)
  <2>1. ft_row_erase_range(row, left, right) = row
        BY <1>2 DEF ft_row_erase_range
  <2>2. left = 0 => Len(row) = 0
    <3>1. Len(<<>>) = 0
          OBVIOUS
    <3> QED BY <1>1, <1>2, <3>1
  <2>3. Len(row) = 0 => row = <<>>
        BY <1>1, EmptySeq
  <2> QED BY <1>1, <2>1, <2>2, <2>3
<1>3. CASE ~(row = <<>> \/ left >= Len(row))
  <2>1. PICK m : m = Min({right + 1, Len(row)})
        OBVIOUS
  <2>2. m = IF right + 1 <= Len(row) THEN right + 1 ELSE Len(row)
    <3>1. right + 1 \in Nat
          OBVIOUS
    <3> QED BY <1>1, <2>1, <3>1, SmallerFacts
  <2> DEFINE a == SubSeq(row, 1, left)
             b == SubSeq(row, m + 1, Len(row))
  <2>3. 1 \in 1..(Len(row) + 1) /\ left \in (1 - 1)..Len(row)
        /\ m + 1 \in 1..(Len(row) + 1) /\ Len(row) \in (m + 1 - 1)..Len(row)
        BY <1>1, <1>3, <2>2
  <2>4. a \in Seq(Pointers) /\ Len(a) = left
        BY <1>1, <2>3, PartFacts
  <2>5. b \in Seq(Pointers) /\ Len(b) = Len(row) - m
    <3>1. b \in Seq(Pointers) /\ Len(b) = Len(row) - (m + 1) + 1
          BY <1>1, <2>3, PartFacts
    <3> HIDE DEF b
    <3>2. m \in Nat
          BY <1>1, <2>2
    <3> QED BY <1>1, <3>1, <3>2
  <2>6. ft_row_erase_range(row, left, right) = a \o b
        BY <1>3, <2>1 DEF ft_row_erase_range
  <2> HIDE DEF a, b
  <2>7. a \o b \in Seq(Pointers) /\ Len(a \o b) = Len(a) + Len(b)
        BY <2>4, <2>5, ConcatProperties
  <2>8. left = 0 => (Len(a \o b) = 0 <=> Len(row) <= right + 1)
    <3>1. Len(a \o b) = left + (Len(row) - m)
          BY <2>4, <2>5, <2>7
    <3>2. m \in Nat /\ m <= Len(row) /\ (m = Len(row) <=> Len(row) <= right + 1)
          BY <1>1, <2>2
    <3> QED BY <1>1, <3>1, <3>2
  <2>9. a \o b = <<>> <=> Len(a \o b) = 0
        BY <2>7, EmptySeq
  <2> QED BY <2>6, <2>7, <2>8, <2>9 DEF LooseRows
<1> QED BY <1>2, <1>3

\* The tables that the loop of ft_erase_range goes through, from x on.
Erasing(x, m, f) == f = [j \in 0..m |-> IF j = 0 THEN x ELSE DropEmptyRow(f[j - 1])]

\* Its recursion is well defined.
LEMMA ErasingExists ==
    ASSUME NEW x, NEW m \in Nat
    PROVE  \E f : Erasing(x, m, f)
<1> DEFINE S == {k \in Nat : \E f : Erasing(x, k, f)}
<1>1. 0 \in S
  <2> DEFINE f == [j \in 0..0 |-> x]
  <2>1. f = [j \in 0..0 |-> IF j = 0 THEN x ELSE DropEmptyRow(f[j - 1])]
        OBVIOUS
  <2> HIDE DEF f
  <2>2. Erasing(x, 0, f)
        BY <2>1 DEF Erasing
  <2> QED BY <2>2
<1>2. ASSUME NEW k \in Nat, k \in S PROVE k + 1 \in S
  <2>1. PICK f : Erasing(x, k, f)
        BY <1>2
  <2>2. f = [j \in 0..k |-> IF j = 0 THEN x ELSE DropEmptyRow(f[j - 1])]
        BY <2>1 DEF Erasing
  <2> DEFINE next == DropEmptyRow(f[k])
             g == [j \in 0..(k + 1) |-> IF j <= k THEN f[j] ELSE next]
             h == [j \in 0..(k + 1) |-> IF j = 0 THEN x ELSE DropEmptyRow(g[j - 1])]
  <2>3. \A j \in 0..k : f[j] = IF j = 0 THEN x ELSE DropEmptyRow(f[j - 1])
        BY <2>2
  <2>4. g[k] = f[k]
        OBVIOUS
  <2>5. ASSUME NEW j \in 0..(k + 1) PROVE g[j] = h[j]
    <3>1. CASE j = 0
      <4>1. g[0] = f[0] /\ 0 \in 0..k /\ h[0] = x
            OBVIOUS
      <4> QED BY <2>3, <3>1, <4>1
    <3>2. CASE j # 0 /\ j <= k
      <4>1. j \in 0..k /\ j - 1 \in 0..k /\ g[j] = f[j] /\ g[j - 1] = f[j - 1]
            BY <3>2
      <4>2. h[j] = DropEmptyRow(g[j - 1])
            BY <3>2
      <4> HIDE DEF g, h
      <4> QED BY <2>3, <3>2, <4>1, <4>2
    <3>3. CASE j = k + 1
      <4>1. j - 1 = k /\ j # 0 /\ ~(j <= k)
            BY <3>3
      <4>2. g[j] = next
            BY <4>1
      <4>3. h[j] = DropEmptyRow(g[j - 1])
            BY <4>1
      <4> HIDE DEF g, h
      <4> QED BY <2>4, <3>3, <4>1, <4>2, <4>3
    <3> QED BY <3>1, <3>2, <3>3
  <2>6. g = h
    <3>1. g = [j \in 0..(k + 1) |-> g[j]] /\ h = [j \in 0..(k + 1) |-> h[j]]
          OBVIOUS
    <3> HIDE DEF g, h
    <3> QED BY <2>5, <3>1
  <2>7. Erasing(x, k + 1, g)
    <3> HIDE DEF g
    <3> QED BY <2>6 DEF Erasing
  <2> QED BY <2>7
<1> HIDE DEF S
<1>3. Nat \subseteq S
      BY <1>1, <1>2, SetInduction
<1> QED BY <1>3 DEF S

\* Arguments of ft_erase_range.
Ranges == [top : Nat, left : Nat, bottom : Nat, right : Nat]

\* The first loop.
LEMMA CellsErased ==
    ASSUME NEW t \in LooseTables, NEW a \in Ranges
    PROVE  LET u == ErasedCells(t, a)
           IN  /\ u \in LooseTables /\ u.separators = t.separators
               /\ Len(u.rows) = Len(t.rows)
               /\ \A i \in 1..Len(t.rows) : a.top < i /\ i <= a.bottom + 1 =>
                    u.rows[i] = ft_row_erase_range(t.rows[i], a.left, a.right)
<1> DEFINE R == [i \in DOMAIN t.rows |-> IF a.top < i /\ i <= a.bottom + 1
                                         THEN ft_row_erase_range(t.rows[i], a.left, a.right)
                                         ELSE t.rows[i]]
<1>1. t.rows \in Seq(LooseRows) /\ a.left \in Nat /\ a.right \in Nat
      BY DEF LooseTables, Ranges
<1>2. Len(t.rows) \in Nat /\ DOMAIN t.rows = 1..Len(t.rows)
      BY <1>1, LenProperties
<1>3. \A i \in 1..Len(t.rows) : t.rows[i] \in LooseRows
      BY <1>1, ElementOfSeq
<1>4. \A i \in 1..Len(t.rows) : R[i] \in LooseRows
      BY <1>1, <1>2, <1>3, RowErased
<1>5. R \in [1..Len(t.rows) -> LooseRows]
      BY <1>2, <1>4
<1>6. R \in Seq(LooseRows) /\ Len(R) = Len(t.rows)
      BY <1>2, <1>5, SeqDef
<1>7. \A i \in 1..Len(t.rows) : a.top < i /\ i <= a.bottom + 1 =>
        R[i] = ft_row_erase_range(t.rows[i], a.left, a.right)
      BY <1>2
<1>8. ErasedCells(t, a) = [t EXCEPT !.rows = R]
      BY DEF ErasedCells
<1> HIDE DEF R
<1>9. [t EXCEPT !.rows = R] \in LooseTables /\ [t EXCEPT !.rows = R].rows = R
      /\ [t EXCEPT !.rows = R].separators = t.separators
      BY <1>6 DEF LooseTables
<1> QED BY <1>6, <1>7, <1>8, <1>9

\* Before the second loop: all separators are there.
LEMMA SweepBegins ==
    ASSUME NEW u \in LooseTables, NEW top \in Nat
    PROVE  \E d, e : Swept(u.separators, u.rows, top, 0, [t |-> u, i |-> top + 1], d, e)
<1> DEFINE e == [k \in 1..Len(u.separators) |-> k]
           acc == [t |-> u, i |-> top + 1]
<1>1. u.rows \in Seq(LooseRows) /\ u.separators \in Seq(BOOLEAN)
      BY DEF LooseTables
<1>2. Len(u.rows) \in Nat /\ Len(u.separators) \in Nat
      BY <1>1, LenProperties
<1>3. e \in [1..Len(u.separators) -> Nat]
      BY <1>2
<1>4. e \in Seq(Nat) /\ Len(e) = Len(u.separators) /\ \A k \in 1..Len(u.separators) : e[k] = k
      BY <1>2, <1>3, SeqDef
<1>5. acc.t = u /\ acc.i = top + 1 /\ acc = [t |-> acc.t, i |-> acc.i]
      OBVIOUS
<1> HIDE DEF e, acc
<1>6. Lost(u.rows, top, 0) = {}
      BY <1>2 DEF Lost
<1>7. acc.i = top + 0 + 1 - 0 /\ 0 \in 0..0 /\ Len(acc.t.rows) = Len(u.rows) - 0
      BY <1>2, <1>5
<1>8. \A k \in acc.i..Len(acc.t.rows) : acc.t.rows[k] = u.rows[k + 0]
      BY <1>2, <1>5
<1>9. \A k, l \in 1..Len(e) : k < l => e[k] < e[l]
      BY <1>4
<1>10. \A k \in 1..Len(e) : e[k] \in 1..Len(u.separators) /\ e[k] \notin Lost(u.rows, top, 0)
      BY <1>4, <1>6
<1>11. \A x \in 1..Len(u.separators) : x \in Lost(u.rows, top, 0) \/ \E k \in 1..Len(e) : e[k] = x
      BY <1>4
<1>12. Len(acc.t.separators) = Len(e) /\ \A k \in 1..Len(e) : acc.t.separators[k] = u.separators[e[k]]
      BY <1>4, <1>5
<1>13. \A k \in Nat : k >= acc.i => /\ k <= Len(e) <=> k + 0 <= Len(u.separators)
                                    /\ k <= Len(e) => e[k] = k + 0
  <2> SUFFICES ASSUME NEW k \in Nat, k >= acc.i
               PROVE  (k <= Len(e) <=> k + 0 <= Len(u.separators)) /\ (k <= Len(e) => e[k] = k + 0)
      OBVIOUS
  <2>1. k + 0 = k /\ (k <= Len(u.separators) => k \in 1..Len(u.separators))
        BY <1>2, <1>5
  <2> QED BY <1>4, <2>1
<1>14. Swept(u.separators, u.rows, top, 0, acc, 0, e)
      BY <1>4, <1>5, <1>7, <1>8, <1>9, <1>10, <1>11, <1>12, <1>13 DEF Swept
<1> QED BY <1>14 DEF acc

\* After it.
LEMMA SweepEnds ==
    ASSUME NEW t \in LooseTables, NEW a \in Ranges, a.top <= a.bottom, EraseInside(t, a)
    PROVE  LET m == IF Len(t.rows) <= a.bottom + 1 THEN Len(t.rows) ELSE a.bottom + 1
           IN  \E acc, d, e :
                 /\ Swept(t.separators, ErasedCells(t, a).rows, a.top, m - a.top, acc, d, e)
                 /\ ft_erase_range(t, a) = acc.t
<1> DEFINE m == IF Len(t.rows) <= a.bottom + 1 THEN Len(t.rows) ELSE a.bottom + 1
<1>1. /\ a.top \in Nat /\ a.bottom \in Nat /\ a.bottom + 1 \in Nat
      /\ t.rows \in Seq(LooseRows) /\ t.separators \in Seq(BOOLEAN)
      BY DEF LooseTables, Ranges
<1>2. Len(t.rows) \in Nat /\ a.top <= Len(t.rows)
      BY <1>1, LenProperties DEF EraseInside
<1>3. PICK n \in Nat : n = m - a.top /\ a.top + n <= Len(t.rows)
      BY <1>1, <1>2
<1>4. Min({Len(t.rows), a.bottom + 1}) - a.top = n
      BY <1>1, <1>2, <1>3, SmallerFacts
<1>5. PICK u : u = ErasedCells(t, a)
      OBVIOUS
<1>6. u \in LooseTables /\ u.separators = t.separators /\ Len(u.rows) = Len(t.rows)
      BY <1>5, CellsErased
<1>7. PICK R \in Seq(LooseRows) : R = u.rows
      BY <1>6 DEF LooseTables
<1>8. PICK x : x = [t |-> u, i |-> a.top + 1]
      OBVIOUS
<1> DEFINE f == CHOOSE g : g = [j \in 0..n |-> IF j = 0 THEN x ELSE DropEmptyRow(g[j - 1])]
<1>9. ft_erase_range(t, a) = f[n].t
      BY <1>4, <1>5, <1>8 DEF ft_erase_range
<1>10. f = [j \in 0..n |-> IF j = 0 THEN x ELSE DropEmptyRow(f[j - 1])]
  <2>1. \E g : g = [j \in 0..n |-> IF j = 0 THEN x ELSE DropEmptyRow(g[j - 1])]
    <3>1. PICK g : Erasing(x, n, g)
          BY ErasingExists
    <3> QED BY <3>1 DEF Erasing
  <2> QED BY <2>1
<1> HIDE DEF f
<1> DEFINE S == {j \in Nat : j <= n => \E d, e : Swept(t.separators, R, a.top, j, f[j], d, e)}
<1>11. 0 \in S
  <2>1. f[0] = x
        BY <1>10
  <2>2. \E d, e : Swept(u.separators, u.rows, a.top, 0, x, d, e)
        BY <1>1, <1>6, <1>8, SweepBegins
  <2> QED BY <1>6, <1>7, <2>1, <2>2
<1>12. ASSUME NEW j \in Nat, j \in S PROVE j + 1 \in S
  <2> SUFFICES ASSUME j + 1 <= n PROVE \E d, e : Swept(t.separators, R, a.top, j + 1, f[j + 1], d, e)
      OBVIOUS
  <2>1. j <= n /\ j + 1 \in 0..n /\ j + 1 # 0 /\ (j + 1) - 1 = j
        OBVIOUS
  <2>2. f[j + 1] = DropEmptyRow(f[j])
        BY <1>10, <2>1
  <2>3. PICK d, e : Swept(t.separators, R, a.top, j, f[j], d, e)
        BY <1>12, <2>1
  <2>4. a.top + j + 1 <= Len(R)
        BY <1>1, <1>2, <1>3, <1>6, <1>7
  <2>5. \E d2, e2 : Swept(t.separators, R, a.top, j + 1, DropEmptyRow(f[j]), d2, e2)
        BY <1>1, <2>3, <2>4, SweepRow
  <2> QED BY <2>2, <2>5
<1> HIDE DEF S
<1>13. Nat \subseteq S
      BY <1>11, <1>12, SetInduction
<1>14. PICK d, e : Swept(t.separators, R, a.top, n, f[n], d, e)
      BY <1>13 DEF S
<1> QED BY <1>3, <1>5, <1>7, <1>9, <1>14

\* It leaves a table.
LEMMA ErasedTable ==
    ASSUME NEW t \in LooseTables, NEW a \in Ranges, a.top <= a.bottom, EraseInside(t, a)
    PROVE  ft_erase_range(t, a) \in LooseTables
BY SweepEnds DEF Swept

\* Erasing whole rows takes their separators.
LEMMA SeparatorsOfErased ==
    ASSUME NEW t \in LooseTables, NEW a \in Ranges, a.top <= a.bottom, a.left = 0, EraseInside(t, a)
    PROVE  ft_erase_range(t, a).separators =
             KeptOf(t.separators, { i \in DOMAIN t.rows :
                a.top < i /\ i <= a.bottom + 1 /\ Len(t.rows[i]) <= a.right + 1 })
<1>1. PICK m : m = IF Len(t.rows) <= a.bottom + 1 THEN Len(t.rows) ELSE a.bottom + 1
      OBVIOUS
<1>2. PICK gone : gone = { i \in DOMAIN t.rows :
                a.top < i /\ i <= a.bottom + 1 /\ Len(t.rows[i]) <= a.right + 1 }
      OBVIOUS
<1>3. PICK R : R = ErasedCells(t, a).rows
      OBVIOUS
<1>4. /\ t.rows \in Seq(LooseRows) /\ t.separators \in Seq(BOOLEAN)
      /\ a.top \in Nat /\ a.bottom \in Nat /\ a.right \in Nat /\ a.left \in Nat
      BY DEF LooseTables, Ranges
<1>5. Len(t.rows) \in Nat /\ DOMAIN t.rows = 1..Len(t.rows)
      BY <1>4, LenProperties
<1>6. Len(R) = Len(t.rows)
      BY <1>3, CellsErased
<1>7. ASSUME NEW i \in 1..Len(t.rows), a.top < i, i <= a.bottom + 1
      PROVE  R[i] = <<>> <=> Len(t.rows[i]) <= a.right + 1
  <2>1. R[i] = ft_row_erase_range(t.rows[i], a.left, a.right)
        BY <1>3, <1>7, CellsErased
  <2>2. t.rows[i] \in LooseRows
        BY <1>4, ElementOfSeq
  <2> QED BY <1>4, <2>1, <2>2, RowErased
<1>8. a.top + (m - a.top) = m /\ \A i \in 1..Len(t.rows) : i <= m <=> i <= a.bottom + 1
      BY <1>1, <1>4, <1>5
<1>9. Lost(R, a.top, m - a.top) = gone
      BY <1>2, <1>5, <1>6, <1>7, <1>8 DEF Lost
<1>10. PICK acc, d, e : /\ Swept(t.separators, R, a.top, m - a.top, acc, d, e)
                        /\ ft_erase_range(t, a) = acc.t
      BY <1>1, <1>3, SweepEnds
<1>11. PICK w \in Seq(BOOLEAN), s \in Seq(BOOLEAN) : w = acc.t.separators /\ s = t.separators
      BY <1>4, <1>10 DEF Swept, LooseTables
<1>12. e \in Seq(Nat) /\ \A k, l \in 1..Len(e) : k < l => e[k] < e[l]
      BY <1>10 DEF Swept
<1>13. /\ \A k \in 1..Len(e) : e[k] \in 1..Len(s) /\ e[k] \notin gone
       /\ \A x \in 1..Len(s) : x \in gone \/ \E k \in 1..Len(e) : e[k] = x
       /\ Len(w) = Len(e) /\ \A k \in 1..Len(e) : w[k] = s[e[k]]
      BY <1>9, <1>10, <1>11 DEF Swept
<1>14. Enumerates(e, s, gone, w)
      BY <1>12, <1>13 DEF Enumerates
<1>15. w = KeptOf(s, gone)
      BY <1>12, <1>14, KeptIs
<1> QED BY <1>2, <1>10, <1>11, <1>15

\* So the property holds of any table.
LEMMA LooseFollows == table \in LooseTables => SeparatorsFollowRows
<1> SUFFICES ASSUME table \in LooseTables,
                    NEW top \in 0..MaxRows, NEW bottom \in 0..MaxRows, NEW right \in 0..MaxCols,
                    top <= bottom,
                    EraseInside(table, [top |-> top, left |-> 0, bottom |-> bottom, right |-> right])
             PROVE  ft_erase_range(table, [top |-> top, left |-> 0, bottom |-> bottom, right |-> right]).separators
                    = KeptOf(table.separators, { i \in DOMAIN table.rows :
                        top < i /\ i <= bottom + 1 /\ Len(table.rows[i]) <= right + 1 })
    BY DEF SeparatorsFollowRows, KeptOf
<1>1. PICK a : a = [top |-> top, left |-> 0, bottom |-> bottom, right |-> right]
      OBVIOUS
<1>2. a \in Ranges /\ a.top = top /\ a.left = 0 /\ a.bottom = bottom /\ a.right = right
      BY <1>1 DEF Ranges
<1> QED BY <1>1, <1>2, SeparatorsOfErased

-----------------------------------------------------------------------------
(* Every call leaves a table, wherever the cursor stands *)

\* Tables whose rows hold members of S: TableRecords with Cells, LooseTables
\* with Pointers.
TablesOf(S) ==
    [rows : Seq(Seq(S)), separators : Seq(BOOLEAN), cur_row : Nat, cur_col : Nat,
     add_strategy : Strategies \cup {"REPLACE"}]

\* The two kinds.
LEMMA KindsOfTables == TablesOf(Cells) = TableRecords /\ TablesOf(Pointers) = LooseTables
BY DEF TablesOf, TableRecords, LooseTables, RowsOfCells, LooseRows

\* A table has the parts of a table.
LEMMA TableParts ==
    ASSUME NEW S, NEW t \in TablesOf(S)
    PROVE  /\ t.rows \in Seq(Seq(S)) /\ t.separators \in Seq(BOOLEAN)
           /\ t.cur_row \in Nat /\ t.cur_col \in Nat
           /\ t.add_strategy \in Strategies \cup {"REPLACE"}
           /\ Len(t.rows) \in Nat /\ Len(t.separators) \in Nat
           /\ \A r \in Nat : r < Len(t.rows) => RowAt(t, r) \in Seq(S) /\ Len(RowAt(t, r)) \in Nat
           /\ \A r \in Nat : Columns(t, r) \in Nat
<1>1. /\ t.rows \in Seq(Seq(S)) /\ t.separators \in Seq(BOOLEAN)
      /\ t.cur_row \in Nat /\ t.cur_col \in Nat
      /\ t.add_strategy \in Strategies \cup {"REPLACE"}
      BY DEF TablesOf
<1>2. Len(t.rows) \in Nat /\ Len(t.separators) \in Nat
      BY <1>1, LenProperties
<1>3. ASSUME NEW r \in Nat, r < Len(t.rows) PROVE RowAt(t, r) \in Seq(S) /\ Len(RowAt(t, r)) \in Nat
  <2>1. r + 1 \in 1..Len(t.rows)
        BY <1>2, <1>3
  <2>2. t.rows[r + 1] \in Seq(S)
        BY <1>1, <2>1, ElementOfSeq
  <2> QED BY <2>2, LenProperties DEF RowAt
<1>4. \A r \in Nat : Columns(t, r) \in Nat
      BY <1>3 DEF Columns
<1> QED BY <1>1, <1>2, <1>3, <1>4

\* A table with other rows.
LEMMA RowsReplaced ==
    ASSUME NEW S, NEW t \in TablesOf(S), NEW rows \in Seq(Seq(S))
    PROVE  LET u == [t EXCEPT !.rows = rows]
           IN  u \in TablesOf(S) /\ u.rows = rows /\ SameCursor(t, u)
BY DEF TablesOf, SameCursor

\* With another row r.
LEMMA RowReplaced ==
    ASSUME NEW S, NEW t \in TablesOf(S), NEW r \in Nat, r < Len(t.rows), NEW row \in Seq(S)
    PROVE  LET u == SetRow(t, r, row)
           IN  /\ u \in TablesOf(S) /\ SameCursor(t, u)
               /\ Len(u.rows) = Len(t.rows) /\ RowAt(u, r) = row
<1> DEFINE rows == [t.rows EXCEPT ![r + 1] = row]
           u == [t EXCEPT !.rows = rows]
<1>1. t.rows \in Seq(Seq(S)) /\ Len(t.rows) \in Nat
      BY TableParts
<1>2. r + 1 \in 1..Len(t.rows)
      BY <1>1
<1>3. rows \in Seq(Seq(S)) /\ Len(rows) = Len(t.rows) /\ rows[r + 1] = row
      BY <1>1, <1>2, ExceptSeq
<1>4. SetRow(t, r, row) = u
      BY DEF SetRow
<1> HIDE DEF rows
<1>5. u \in TablesOf(S) /\ u.rows = rows /\ SameCursor(t, u)
      BY <1>3, RowsReplaced
<1> HIDE DEF u
<1> QED BY <1>3, <1>4, <1>5 DEF RowAt

\* With empty rows added.
LEMMA RowsAdded ==
    ASSUME NEW S, NEW t \in TablesOf(S), NEW n \in Nat
    PROVE  LET u == [t EXCEPT !.rows = Padded(t.rows, n, <<>>)]
           IN  u \in TablesOf(S) /\ SameCursor(t, u) /\ n <= Len(u.rows) /\ Len(t.rows) <= Len(u.rows)
<1>1. PICK s \in Seq(Seq(S)), e \in Seq(S) : s = t.rows /\ e = <<>>
      BY EmptySeq, TableParts
<1>2. PICK q : q = Padded(s, n, e)
      OBVIOUS
<1>3. q \in Seq(Seq(S)) /\ IsPadded(q, s, n, e)
      BY <1>2, PadFacts
<1>4. Len(s) \in Nat
      BY LenProperties
<1>5. n <= Len(q) /\ Len(s) <= Len(q)
      BY <1>3, <1>4 DEF IsPadded
<1>6. PICK u : u = [t EXCEPT !.rows = q]
      OBVIOUS
<1>7. u \in TablesOf(S) /\ u.rows = q /\ SameCursor(t, u)
      BY <1>3, <1>6, RowsReplaced
<1> QED BY <1>1, <1>2, <1>5, <1>6, <1>7

\* The row r is there afterwards.
LEMMA RowThere ==
    ASSUME NEW S, NEW t \in TablesOf(S), NEW r \in Nat
    PROVE  LET p == get_row_and_create_if_not_exists(t, r)
           IN  /\ p \in TablesOf(S) /\ SameCursor(t, p) /\ r < Len(p.rows)
               /\ RowAt(p, r) \in Seq(S) /\ Len(RowAt(p, r)) \in Nat
<1>1. PICK n \in Nat : n = r + 1
      OBVIOUS
<1>2. PICK p : p = [t EXCEPT !.rows = Padded(t.rows, n, <<>>)]
      OBVIOUS
<1>3. p = get_row_and_create_if_not_exists(t, r)
      BY <1>1, <1>2 DEF get_row_and_create_if_not_exists
<1>4. p \in TablesOf(S) /\ SameCursor(t, p) /\ n <= Len(p.rows)
      BY <1>2, RowsAdded
<1>5. r < Len(p.rows)
  <2>1. Len(p.rows) \in Nat
        BY <1>4, TableParts
  <2> QED BY <1>1, <1>4, <2>1
<1> QED BY <1>3, <1>4, <1>5, TableParts

\* The row r is there afterwards, and is another.
LEMMA RowFilled ==
    ASSUME NEW S, NEW t \in TablesOf(S), NEW r \in Nat, NEW row \in Seq(S)
    PROVE  LET u == SetRow(get_row_and_create_if_not_exists(t, r), r, row)
           IN  u \in TablesOf(S) /\ SameCursor(t, u) /\ r < Len(u.rows) /\ RowAt(u, r) = row
<1>1. PICK p : p = get_row_and_create_if_not_exists(t, r)
      OBVIOUS
<1>2. p \in TablesOf(S) /\ SameCursor(t, p) /\ r < Len(p.rows)
      BY <1>1, RowThere
<1>3. PICK u : u = SetRow(p, r, row)
      OBVIOUS
<1>4. u \in TablesOf(S) /\ SameCursor(p, u) /\ Len(u.rows) = Len(p.rows) /\ RowAt(u, r) = row
      BY <1>2, <1>3, RowReplaced
<1> QED BY <1>1, <1>2, <1>3, <1>4 DEF SameCursor

\* The cursor may be anywhere.
LEMMA CursorMoved ==
    ASSUME NEW S, NEW t \in TablesOf(S), NEW r \in Nat, NEW c \in Nat
    PROVE  /\ [t EXCEPT !.cur_col = c] \in TablesOf(S)
           /\ [t EXCEPT !.cur_col = c].add_strategy = t.add_strategy
           /\ [t EXCEPT !.cur_row = r, !.cur_col = c] \in TablesOf(S)
           /\ [t EXCEPT !.cur_col = c, !.cur_row = r] \in TablesOf(S)
           /\ [t EXCEPT !.cur_col = c, !.cur_row = r].add_strategy = t.add_strategy
BY DEF TablesOf

-----------------------------------------------------------------------------
(* ft_printf and ft_ln anywhere *)

\* swap_row leaves cells and holes.
LEMMA SwapAnywhere ==
    ASSUME NEW row \in Seq(Cells), NEW new \in Seq(Cells), NEW pos \in Nat
    PROVE  swap_row(row, new, pos) \in Seq(Pointers)
<1> DEFINE n == Max({Len(row), pos + Len(new)})
           f == [i \in 1..n |-> IF pos < i /\ i <= pos + Len(new) THEN new[i - pos]
                                ELSE IF i <= Len(row) THEN row[i] ELSE Hole]
<1>1. Len(row) \in Nat /\ Len(new) \in Nat
      BY LenProperties
<1>2. n \in Nat
      BY <1>1, LargerFacts
<1>3. (\A i \in 1..Len(row) : row[i] \in Cells) /\ (\A i \in 1..Len(new) : new[i] \in Cells)
      BY ElementOfSeq
<1> HIDE DEF n
<1>4. ASSUME NEW i \in 1..n PROVE f[i] \in Pointers
  <2>1. CASE pos < i /\ i <= pos + Len(new)
    <3>1. i - pos \in 1..Len(new)
          BY <1>1, <1>2, <2>1
    <3> QED BY <1>3, <2>1, <3>1 DEF Pointers
  <2>2. CASE ~(pos < i /\ i <= pos + Len(new)) /\ i <= Len(row)
    <3>1. i \in 1..Len(row)
          BY <1>1, <1>2, <2>2
    <3> QED BY <1>3, <2>2, <3>1 DEF Pointers
  <2>3. CASE ~(pos < i /\ i <= pos + Len(new)) /\ ~(i <= Len(row))
        BY <2>3 DEF Pointers
  <2> QED BY <2>1, <2>2, <2>3
<1>5. f \in [1..n -> Pointers]
      BY <1>4
<1>6. f \in Seq(Pointers)
      BY <1>2, <1>5, SeqDef
<1>7. swap_row(row, new, pos) = f
      BY DEF swap_row, n
<1> QED BY <1>6, <1>7

\* insert_row leaves cells.
LEMMA InsertAnywhere ==
    ASSUME NEW row \in Seq(Cells), NEW new \in Seq(Cells), NEW pos \in Nat
    PROVE  insert_row(row, new, pos) \in Seq(Cells)
<1>1. PICK q : q = Padded(row, pos, create_cell)
      OBVIOUS
<1>2. q \in Seq(Cells) /\ IsPadded(q, row, pos, create_cell)
      BY <1>1, NewCell, PadFacts
<1>3. Len(row) \in Nat /\ Len(q) \in Nat /\ pos <= Len(q)
      BY <1>2, LenProperties DEF IsPadded
<1> DEFINE a == SubSeq(q, 1, pos)
           b == SubSeq(q, pos + 1, Len(q))
<1>4. insert_row(row, new, pos) = a \o new \o b
      BY <1>1 DEF insert_row
<1>5. 1 \in 1..(Len(q) + 1) /\ pos \in (1 - 1)..Len(q)
      /\ pos + 1 \in 1..(Len(q) + 1) /\ Len(q) \in (pos + 1 - 1)..Len(q)
      BY <1>3
<1>6. a \in Seq(Cells) /\ b \in Seq(Cells)
      BY <1>2, <1>5, PartFacts
<1> HIDE DEF a, b
<1> QED BY <1>4, <1>6, ThreeFacts

\* A sequence over a larger set.
LEMMA WiderSeq ==
    ASSUME NEW S, NEW T, S \subseteq T, NEW s \in Seq(S)
    PROVE  s \in Seq(T)
<1>1. Len(s) \in Nat /\ DOMAIN s = 1..Len(s) /\ s = [i \in DOMAIN s |-> s[i]]
      BY LenProperties
<1>2. \A i \in 1..Len(s) : s[i] \in T
      BY ElementOfSeq
<1>3. s \in [1..Len(s) -> T]
      BY <1>1, <1>2
<1> QED BY <1>1, <1>3, SeqDef

\* A table of cells is a table of pointers.
LEMMA StrictIsLoose ==
    ASSUME NEW S, NEW T, S \subseteq T, NEW t \in TablesOf(S)
    PROVE  t \in TablesOf(T)
<1>1. Seq(S) \subseteq Seq(T)
      BY WiderSeq
<1>2. t.rows \in Seq(Seq(T))
      BY <1>1, WiderSeq, TableParts
<1> QED BY <1>2 DEF TablesOf

\* And back, without a hole.
LEMMA HoleFree ==
    ASSUME NEW t \in TablesOf(Pointers), NoHoleIn(t)
    PROVE  t \in TablesOf(Cells)
<1>1. t.rows \in Seq(Seq(Pointers)) /\ Len(t.rows) \in Nat
      BY TableParts
<1>2. DOMAIN t.rows = 1..Len(t.rows) /\ t.rows = [i \in DOMAIN t.rows |-> t.rows[i]]
      BY <1>1, LenProperties
<1>3. ASSUME NEW i \in 1..Len(t.rows) PROVE t.rows[i] \in Seq(Cells)
  <2>1. PICK s \in Seq(Pointers) : s = t.rows[i]
        BY <1>1, ElementOfSeq
  <2>2. Len(s) \in Nat /\ DOMAIN s = 1..Len(s) /\ s = [j \in DOMAIN s |-> s[j]]
        BY LenProperties
  <2>3. \A j \in 1..Len(s) : s[j] \in Pointers /\ s[j] # Hole
        BY <1>2, <2>1, <2>2, ElementOfSeq DEF NoHoleIn
  <2>4. s \in [1..Len(s) -> Cells]
        BY <2>2, <2>3 DEF Pointers
  <2> QED BY <2>1, <2>2, <2>4, SeqDef
<1>4. t.rows \in [1..Len(t.rows) -> Seq(Cells)]
      BY <1>2, <1>3
<1>5. t.rows \in Seq(Seq(Cells))
  <2>1. PICK S, n, rows : S = Seq(Cells) /\ n = Len(t.rows) /\ rows = t.rows
        OBVIOUS
  <2>2. rows \in [1..n -> S]
        BY <1>4, <2>1
  <2>3. rows \in Seq(S)
    <3>1. n \in Nat
          BY <1>1, <2>1
    <3> QED BY <2>2, <3>1, SeqDef
  <2> QED BY <2>1, <2>3
<1> QED BY <1>5 DEF TablesOf

\* Wherever the cursor stands, ft_printf leaves a table.
LEMMA PrintfAnywhere ==
    ASSUME NEW t \in TablesOf(Cells), NEW new \in Seq(Cells)
    PROVE  ft_row_printf_impl_(t, new) \in TablesOf(Pointers)
<1>1. t.cur_row \in Nat /\ t.cur_col \in Nat /\ Len(new) \in Nat
      BY TableParts, LenProperties
<1>2. PICK p : p = get_row_and_create_if_not_exists(t, t.cur_row)
      OBVIOUS
<1>3. PICK row : row = RowAt(p, t.cur_row)
      OBVIOUS
<1>4. row \in Seq(Cells)
      BY <1>1, <1>2, <1>3, RowThere
<1>5. PICK filled : filled = IF t.add_strategy = "INSERT" THEN insert_row(row, new, t.cur_col)
                                                         ELSE swap_row(row, new, t.cur_col)
      OBVIOUS
<1>6. filled \in Seq(Pointers)
  <2>1. insert_row(row, new, t.cur_col) \in Seq(Pointers)
    <3>1. insert_row(row, new, t.cur_col) \in Seq(Cells)
          BY <1>1, <1>4, InsertAnywhere
    <3> QED BY <3>1, WiderSeq DEF Pointers
  <2>2. swap_row(row, new, t.cur_col) \in Seq(Pointers)
        BY <1>1, <1>4, SwapAnywhere
  <2> QED BY <1>5, <2>1, <2>2
<1>7. PICK u : u = SetRow(p, t.cur_row, filled)
      OBVIOUS
<1>8. u \in TablesOf(Pointers) /\ SameCursor(t, u)
  <2>1. t \in TablesOf(Pointers)
    <3>1. Cells \subseteq Pointers
          BY DEF Pointers
    <3> QED BY <3>1, StrictIsLoose
  <2> QED BY <1>1, <1>2, <1>6, <1>7, <2>1, RowFilled
<1>9. ft_row_printf_impl_(t, new) = [u EXCEPT !.cur_col = u.cur_col + Len(new)]
      BY <1>2, <1>3, <1>5, <1>7 DEF ft_row_printf_impl_
<1>10. u.cur_col + Len(new) \in Nat
      BY <1>1, <1>8 DEF SameCursor
<1>11. PICK c \in Nat : c = u.cur_col + Len(new)
      BY <1>10
<1>12. [u EXCEPT !.cur_col = c] \in TablesOf(Pointers)
      BY <1>8, CursorMoved
<1> QED BY <1>9, <1>11, <1>12

\* So does the line feed, ...
LEMMA LnAnywhere ==
    ASSUME NEW S, NEW t \in TablesOf(S)
    PROVE  ft_ln(t) \in TablesOf(S) /\ ft_ln(t).add_strategy = t.add_strategy
<1>1. t.cur_row \in Nat /\ t.cur_col \in Nat
      BY TableParts
<1>2. split_cur_row(t) \in TablesOf(S) /\ SameCursor(t, split_cur_row(t))
  <2>1. CASE t.cur_col < Columns(t, t.cur_row)
    <3>1. PICK row : row = RowAt(t, t.cur_row)
          OBVIOUS
    <3>2. t.cur_row < Len(t.rows) /\ Len(t.rows) \in Nat
          BY <1>1, <2>1, TableParts DEF Columns
    <3>3. row \in Seq(S) /\ Len(row) \in Nat /\ t.cur_col < Len(row)
          BY <1>1, <2>1, <3>1, <3>2, TableParts DEF Columns
    <3> DEFINE a == SubSeq(row, 1, t.cur_col)
               tail == SubSeq(row, t.cur_col + 1, Len(row))
    <3>4. 1 \in 1..(Len(row) + 1) /\ t.cur_col \in (1 - 1)..Len(row)
          /\ t.cur_col + 1 \in 1..(Len(row) + 1) /\ Len(row) \in (t.cur_col + 1 - 1)..Len(row)
          BY <1>1, <3>3
    <3>5. a \in Seq(S) /\ tail \in Seq(S)
          BY <3>3, <3>4, PartFacts
    <3> HIDE DEF a, tail
    <3>6. PICK u : u = SetRow(t, t.cur_row, a)
          OBVIOUS
    <3>7. u \in TablesOf(S) /\ SameCursor(t, u) /\ Len(u.rows) = Len(t.rows)
          BY <1>1, <3>2, <3>5, <3>6, RowReplaced
    <3> DEFINE rows == InsertAt(u.rows, t.cur_row + 2, tail)
    <3>8. rows \in Seq(Seq(S))
      <4>1. u.rows \in Seq(Seq(S))
            BY <3>7, TableParts
      <4>2. t.cur_row + 2 \in 1..(Len(u.rows) + 1)
            BY <1>1, <3>2, <3>7
      <4> QED BY <3>5, <4>1, <4>2, ItemInserted
    <3>9. split_cur_row(t) = [u EXCEPT !.rows = rows]
          BY <2>1, <3>1, <3>6 DEF split_cur_row, a, tail
    <3> HIDE DEF rows
    <3>10. [u EXCEPT !.rows = rows] \in TablesOf(S) /\ SameCursor(u, [u EXCEPT !.rows = rows])
          BY <3>7, <3>8, RowsReplaced
    <3> QED BY <3>7, <3>9, <3>10 DEF SameCursor
  <2>2. CASE ~(t.cur_col < Columns(t, t.cur_row))
        BY <2>2 DEF split_cur_row, SameCursor
  <2> QED BY <2>1, <2>2
<1>3. PICK u : u = IF t.add_strategy = "INSERT" THEN split_cur_row(t) ELSE t
      OBVIOUS
<1>4. u \in TablesOf(S) /\ u.add_strategy = t.add_strategy
      BY <1>2, <1>3 DEF SameCursor
<1>5. ft_ln(t) = [u EXCEPT !.cur_col = 0, !.cur_row = u.cur_row + 1]
      BY <1>3 DEF ft_ln
<1>6. u.cur_row \in Nat
      BY <1>4, TableParts
<1>7. PICK n \in Nat : n = u.cur_row + 1
      BY <1>6
<1>8. PICK v : v = [u EXCEPT !.cur_col = 0, !.cur_row = n]
      OBVIOUS
<1>9. v \in TablesOf(S) /\ v.add_strategy = u.add_strategy
      BY <1>4, <1>8, CursorMoved
<1> QED BY <1>4, <1>5, <1>7, <1>8, <1>9

\* ... and one that finds no memory.
LEMMA LnFailsAnywhere ==
    ASSUME NEW S, NEW t \in TablesOf(S), NEW u \in ft_ln_fails(t)
    PROVE  u \in TablesOf(S) /\ u.add_strategy = t.add_strategy
<1> DEFINE row == RowAt(t, t.cur_row)
           a == SubSeq(row, 1, t.cur_col)
<1>1. t.cur_row \in Nat /\ t.cur_col \in Nat
      BY TableParts
<1>2. /\ t.cur_col < Columns(t, t.cur_row)
      /\ u = t \/ u = SetRow(t, t.cur_row, a)
      BY DEF ft_ln_fails
<1>3. t.cur_row < Len(t.rows) /\ Len(t.rows) \in Nat
      BY <1>1, <1>2, TableParts DEF Columns
<1>4. row \in Seq(S) /\ Len(row) \in Nat /\ t.cur_col < Len(row)
      BY <1>1, <1>2, <1>3, TableParts DEF Columns
<1>5. 1 \in 1..(Len(row) + 1) /\ t.cur_col \in (1 - 1)..Len(row)
      BY <1>1, <1>4
<1> HIDE DEF row
<1>6. a \in Seq(S)
      BY <1>4, <1>5, PartFacts
<1> HIDE DEF a
<1>7. SetRow(t, t.cur_row, a) \in TablesOf(S) /\ SameCursor(t, SetRow(t, t.cur_row, a))
      BY <1>1, <1>3, <1>6, RowReplaced
<1> QED BY <1>2, <1>7 DEF SameCursor

\* Either of them.
LEMMA LnOutcomesAnywhere ==
    ASSUME NEW S, NEW t \in TablesOf(S), NEW u \in LnOutcomes(t)
    PROVE  u \in TablesOf(S) /\ u.add_strategy = t.add_strategy
BY LnAnywhere, LnFailsAnywhere DEF LnOutcomes

\* Padding that ran out of memory.
LEMMA PaddedAnywhere ==
    ASSUME NEW S, Cells \subseteq S, NEW t \in TablesOf(S), NEW cols \in Nat, NEW u \in PaddedUpTo(t, cols)
    PROVE  u \in TablesOf(S)
<1> DEFINE r == t.cur_row
           row == IF Columns(t, r) = 0 THEN <<>> ELSE RowAt(t, r)
           rows == Max({Len(t.rows), r + 1})
<1>1. r \in Nat /\ Len(t.rows) \in Nat /\ Columns(t, r) \in Nat
      BY TableParts
<1>2. \/ u = t
      \/ \E n \in Len(t.rows)..rows : u = [t EXCEPT !.rows = Padded(t.rows, n, <<>>)]
      \/ \E n \in 0..(cols - 1) :
           u = SetRow(get_row_and_create_if_not_exists(t, r), r, Padded(row, n, create_cell))
      BY DEF PaddedUpTo
<1>3. CASE \E n \in Len(t.rows)..rows : u = [t EXCEPT !.rows = Padded(t.rows, n, <<>>)]
  <2>1. rows \in Nat
        BY <1>1, LargerFacts
  <2> HIDE DEF rows
  <2>2. PICK n \in Len(t.rows)..rows : u = [t EXCEPT !.rows = Padded(t.rows, n, <<>>)]
        BY <1>3
  <2>3. n \in Nat
        BY <1>1, <2>1
  <2> QED BY <2>2, <2>3, RowsAdded
<1>4. CASE \E n \in 0..(cols - 1) :
             u = SetRow(get_row_and_create_if_not_exists(t, r), r, Padded(row, n, create_cell))
  <2>1. PICK n \in 0..(cols - 1) :
          u = SetRow(get_row_and_create_if_not_exists(t, r), r, Padded(row, n, create_cell))
        BY <1>4
  <2>2. row \in Seq(S)
    <3>1. CASE Columns(t, r) = 0
          BY <3>1, EmptySeq
    <3>2. CASE Columns(t, r) # 0
          BY <1>1, <3>2, TableParts DEF Columns
    <3> QED BY <3>1, <3>2
  <2> HIDE DEF row
  <2>3. PICK q : q = Padded(row, n, create_cell)
        OBVIOUS
  <2>4. create_cell \in S /\ n \in Nat
        BY NewCell
  <2>5. q \in Seq(S)
        BY <2>2, <2>3, <2>4, PadFacts
  <2> HIDE DEF r
  <2>6. SetRow(get_row_and_create_if_not_exists(t, r), r, q) \in TablesOf(S)
        BY <1>1, <2>5, RowFilled
  <2> QED BY <2>1, <2>3, <2>6
<1> QED BY <1>2, <1>3, <1>4

-----------------------------------------------------------------------------
(* ft_write anywhere *)

\* What may be written to: by REPLACE a row without holes; by INSERT, which
\* leaves holes before the new cell, any.
Writable(S, t) ==
    /\ Cells \subseteq S /\ t \in TablesOf(S)
    /\ IF t.add_strategy = "INSERT" THEN Hole \in S ELSE S = Cells

\* The item that was inserted.
LEMMA InsertedItem ==
    ASSUME NEW S, NEW s \in Seq(S), NEW k \in 1..(Len(s) + 1), NEW e \in S
    PROVE  InsertAt(s, k, e)[k] = e
<1>1. InsertAt(s, k, e) = Abstract!InsertAt(s, k, e)
      BY DEF InsertAt, Abstract!InsertAt
<1>2. k \in 1..(Len(s) + 1) /\ ~(k < k)
      BY LenProperties
<1> QED BY <1>1, <1>2, InsertAtFacts

\* The cell at the cursor is there afterwards, and is a cell.
LEMMA CellThere ==
    ASSUME NEW S, NEW t, Writable(S, t)
    PROVE  LET u == get_cur_str_buffer_and_create_if_not_exists(t)
           IN  /\ u \in TablesOf(S) /\ SameCursor(t, u) /\ t.cur_row < Len(u.rows)
               /\ t.cur_col + 1 \in 1..Len(RowAt(u, t.cur_row))
               /\ RowAt(u, t.cur_row)[t.cur_col + 1] \in Cells
<1> DEFINE r == t.cur_row
           c == t.cur_col
<1>1. t \in TablesOf(S) /\ r \in Nat /\ c \in Nat /\ create_cell \in S
      BY NewCell, TableParts DEF Writable
<1>2. PICK p : p = get_row_and_create_if_not_exists(t, r)
      OBVIOUS
<1>3. PICK row : row = RowAt(p, r)
      OBVIOUS
<1>4. row \in Seq(S) /\ Len(row) \in Nat
      BY <1>1, <1>2, <1>3, RowThere
<1>5. PICK filled : filled = IF t.add_strategy = "INSERT"
                             THEN InsertAt(Padded(row, c, Hole), c + 1, create_cell)
                             ELSE get_cell_and_create_if_not_exists(row, c)
      OBVIOUS
<1>6. filled \in Seq(S) /\ c + 1 \in 1..Len(filled) /\ filled[c + 1] \in Cells
  <2>1. CASE t.add_strategy = "INSERT"
    <3>1. Hole \in S
          BY <2>1 DEF Writable
    <3>2. PICK q : q = Padded(row, c, Hole)
          OBVIOUS
    <3>3. q \in Seq(S) /\ IsPadded(q, row, c, Hole)
          BY <1>1, <1>4, <3>1, <3>2, PadFacts
    <3>4. Len(q) \in Nat /\ c <= Len(q)
          BY <1>1, <1>4, <3>3, LenProperties DEF IsPadded
    <3>5. PICK k \in 1..(Len(q) + 1) : k = c + 1
          BY <1>1, <3>4
    <3>6. filled = InsertAt(q, k, create_cell)
          BY <1>5, <2>1, <3>2, <3>5
    <3>7. filled \in Seq(S) /\ Len(filled) = Len(q) + 1
          BY <1>1, <3>3, <3>6, ItemInserted
    <3>8. filled[k] = create_cell
          BY <1>1, <3>3, <3>6, InsertedItem
    <3>9. k \in 1..Len(filled)
          BY <3>7
    <3> QED BY <3>5, <3>7, <3>8, <3>9, NewCell
  <2>2. CASE t.add_strategy # "INSERT"
    <3>1. S = Cells
          BY <2>2 DEF Writable
    <3>2. PICK n \in Nat : n = c + 1
          BY <1>1
    <3>3. filled = Padded(row, n, create_cell)
          BY <1>5, <2>2, <3>2 DEF get_cell_and_create_if_not_exists
    <3>4. filled \in Seq(S) /\ IsPadded(filled, row, n, create_cell)
          BY <1>1, <1>4, <3>3, PadFacts
    <3>5. n \in 1..Len(filled)
          BY <1>1, <1>4, <3>2, <3>4, LenProperties DEF IsPadded
    <3>6. filled[n] \in S
          BY <3>4, <3>5, ElementOfSeq
    <3> QED BY <3>1, <3>2, <3>4, <3>5, <3>6
  <2> QED BY <2>1, <2>2
<1>7. PICK u : u = SetRow(p, r, filled)
      OBVIOUS
<1>8. u \in TablesOf(S) /\ SameCursor(t, u) /\ r < Len(u.rows) /\ RowAt(u, r) = filled
      BY <1>1, <1>2, <1>6, <1>7, RowFilled
<1>9. u = get_cur_str_buffer_and_create_if_not_exists(t)
      BY <1>2, <1>3, <1>5, <1>7 DEF get_cur_str_buffer_and_create_if_not_exists
<1> QED BY <1>6, <1>8, <1>9

\* A cell that is written leaves a table that may be written to.
LEMMA WriteAnywhere ==
    ASSUME NEW S, NEW t, Writable(S, t), NEW text \in Texts
    PROVE  Writable(S, ft_write_impl_(t, text))
<1> DEFINE r == t.cur_row
           c == t.cur_col
<1>1. t \in TablesOf(S) /\ r \in Nat /\ c \in Nat
      BY TableParts DEF Writable
<1>2. PICK u : u = get_cur_str_buffer_and_create_if_not_exists(t)
      OBVIOUS
<1>3. PICK row : row = RowAt(u, r)
      OBVIOUS
<1>4. /\ u \in TablesOf(S) /\ SameCursor(t, u) /\ r < Len(u.rows)
      /\ c + 1 \in 1..Len(row) /\ row[c + 1] \in Cells
      BY <1>2, <1>3, CellThere
<1>5. row \in Seq(S)
      BY <1>1, <1>3, <1>4, TableParts
<1>6. PICK cell \in Cells : cell = [row[c + 1] EXCEPT !.text = text]
      BY <1>4 DEF Cells
<1>7. PICK filled : filled = [row EXCEPT ![c + 1] = cell]
      OBVIOUS
<1>8. cell \in S
      BY DEF Writable
<1>9. filled \in Seq(S)
      BY <1>4, <1>5, <1>7, <1>8, ExceptSeq
<1>10. PICK w : w = SetRow(u, r, filled)
      OBVIOUS
<1>11. w \in TablesOf(S) /\ SameCursor(u, w)
      BY <1>1, <1>4, <1>9, <1>10, RowReplaced
<1>12. ft_write_impl_(t, text) = [w EXCEPT !.cur_col = w.cur_col + 1]
      BY <1>2, <1>3, <1>6, <1>7, <1>10 DEF ft_write_impl_, SetRow, RowAt
<1>13. w.cur_col = c /\ w.add_strategy = t.add_strategy
      BY <1>4, <1>11 DEF SameCursor
<1>14. PICK n \in Nat : n = c + 1
      BY <1>1
<1>15. PICK v : v = [w EXCEPT !.cur_col = n]
      OBVIOUS
<1>16. v \in TablesOf(S) /\ v.add_strategy = t.add_strategy
      BY <1>11, <1>13, <1>15, CursorMoved
<1>17. Writable(S, v)
      BY <1>16 DEF Writable
<1> QED BY <1>12, <1>13, <1>14, <1>15, <1>17

\* Without memory.
LEMMA WriteFailsAnywhere ==
    ASSUME NEW S, NEW t, Writable(S, t), NEW u \in ft_write_fails(t)
    PROVE  u \in TablesOf(S)
<1>1. PICK cols : cols = IF t.add_strategy = "INSERT" THEN 0 ELSE t.cur_col + 1
      OBVIOUS
<1>2. t \in TablesOf(S) /\ t.cur_col \in Nat /\ Cells \subseteq S
      BY TableParts DEF Writable
<1>3. cols \in Nat
      BY <1>1, <1>2
<1>4. u \in PaddedUpTo(t, cols) \/ u = get_cur_str_buffer_and_create_if_not_exists(t)
      BY <1>1 DEF ft_write_fails
<1> QED BY <1>2, <1>3, <1>4, PaddedAnywhere, CellThere

\* A row of cells, by induction on their number.
LEMMA RowWriteAnywhere ==
    ASSUME NEW S, NEW t, Writable(S, t), NEW cells \in Seq(Texts)
    PROVE  Writable(S, ft_row_write(t, cells))
<1>1. PICK m \in Nat : m = Len(cells)
      BY LenProperties
<1> DEFINE f == CHOOSE g : g = [n \in 0..m |-> IF n = 0 THEN t ELSE ft_write_impl_(g[n - 1], cells[n])]
<1>2. ft_row_write(t, cells) = f[m]
      BY <1>1 DEF ft_row_write
<1>3. f = [n \in 0..m |-> IF n = 0 THEN t ELSE ft_write_impl_(f[n - 1], cells[n])]
  <2>1. \E g : g = [n \in 0..m |-> IF n = 0 THEN t ELSE ft_write_impl_(g[n - 1], cells[n])]
    <3>1. PICK g : Passed(t, cells, m, g)
          BY PassedExists
    <3> QED BY <3>1 DEF Passed
  <2> QED BY <2>1
<1> HIDE DEF f
<1> DEFINE N == {n \in Nat : n <= m => Writable(S, f[n])}
<1>4. 0 \in N
  <2>1. f[0] = t
        BY <1>3
  <2> QED BY <2>1
<1>5. ASSUME NEW n \in Nat, n \in N PROVE n + 1 \in N
  <2> SUFFICES ASSUME n + 1 <= m PROVE Writable(S, f[n + 1])
      OBVIOUS
  <2>1. n <= m /\ n + 1 \in 0..m /\ n + 1 # 0 /\ (n + 1) - 1 = n /\ n + 1 \in 1..m
        OBVIOUS
  <2>2. f[n + 1] = ft_write_impl_(f[n], cells[n + 1])
        BY <1>3, <2>1
  <2>3. cells[n + 1] \in Texts
        BY <1>1, <2>1, ElementOfSeq
  <2>4. Writable(S, f[n])
        BY <1>5, <2>1
  <2> QED BY <2>2, <2>3, <2>4, WriteAnywhere
<1> HIDE DEF N
<1>6. Nat \subseteq N
      BY <1>4, <1>5, SetInduction
<1> QED BY <1>2, <1>6 DEF N

\* That fails in the middle.
LEMMA RowWriteFailsAnywhere ==
    ASSUME NEW S, NEW t, Writable(S, t), NEW cells \in Seq(Texts), NEW u \in ft_row_write_fails(t, cells)
    PROVE  u \in TablesOf(S)
<1>1. Len(cells) \in Nat
      BY LenProperties
<1>2. PICK n \in 0..(Len(cells) - 1) : u \in ft_write_fails(ft_row_write(t, SubSeq(cells, 1, n)))
      BY DEF ft_row_write_fails
<1>3. 1 \in 1..(Len(cells) + 1) /\ n \in (1 - 1)..Len(cells)
      BY <1>1
<1>4. PICK some \in Seq(Texts) : some = SubSeq(cells, 1, n)
      BY <1>3, PartFacts
<1>5. Writable(S, ft_row_write(t, some))
      BY RowWriteAnywhere
<1> QED BY <1>2, <1>4, <1>5, WriteFailsAnywhere

\* The line feed.
LEMMA LnWritable ==
    ASSUME NEW S, NEW t, Writable(S, t), NEW u \in LnOutcomes(t)
    PROVE  Writable(S, u)
<1>1. t \in TablesOf(S)
      BY DEF Writable
<1>2. u \in TablesOf(S) /\ u.add_strategy = t.add_strategy
      BY <1>1, LnOutcomesAnywhere
<1> QED BY <1>2 DEF Writable

-----------------------------------------------------------------------------
(* SeparatorsFollowRows *)

\* Spans, in a table without holes.
LEMMA SpanAnywhere ==
    ASSUME NEW t \in TablesOf(Cells), NEW r \in Nat \cup {CUR}, NEW col \in Nat, NEW hor_span \in Nat
    PROVE  /\ ft_set_cell_span(t, r, col, hor_span) \in TablesOf(Cells)
           /\ \A u \in ft_set_cell_span_fails(t, r, col, hor_span) : u \in TablesOf(Cells)
<1>1. PICK n : n = IF r = CUR THEN t.cur_row ELSE r
      OBVIOUS
<1>2. n \in Nat /\ Len(t.rows) \in Nat
      BY <1>1, TableParts
<1>3. PICK p : p = get_row_and_create_if_not_exists(t, n)
      OBVIOUS
<1>4. PICK row : row = RowAt(p, n)
      OBVIOUS
<1>5. row \in Seq(Cells) /\ Len(row) \in Nat
      BY <1>2, <1>3, <1>4, RowThere
<1>6. ASSUME NEW q \in Seq(Cells) PROVE SetRow(p, n, q) \in TablesOf(Cells)
      BY <1>2, <1>3, RowFilled
<1>7. ASSUME NEW k \in Nat PROVE SetRow(p, n, row_set_cell_span(row, col, k)) \in TablesOf(Cells)
  <2>1. PICK q : q = row_set_cell_span(row, col, k)
        OBVIOUS
  <2>2. q \in Seq(Cells)
        BY <1>5, <2>1, SpanRowFacts DEF RowsOfCells
  <2> QED BY <1>6, <2>1, <2>2
<1>8. ft_set_cell_span(t, r, col, hor_span) \in TablesOf(Cells)
      BY <1>1, <1>3, <1>4, <1>7 DEF ft_set_cell_span
<1>9. ASSUME NEW u \in ft_set_cell_span_fails(t, r, col, hor_span) PROVE u \in TablesOf(Cells)
  <2>1. \/ \E k \in Len(t.rows)..n : u = [t EXCEPT !.rows = Padded(t.rows, k, <<>>)]
        \/ \E k \in Len(row)..col : u = SetRow(p, n, Padded(row, k, create_cell))
        \/ \E k \in 1..(hor_span - 1) : u = SetRow(p, n, row_set_cell_span(row, col, k))
        BY <1>1, <1>3, <1>4 DEF ft_set_cell_span_fails
  <2>2. ASSUME NEW k \in Len(t.rows)..n, u = [t EXCEPT !.rows = Padded(t.rows, k, <<>>)]
        PROVE  u \in TablesOf(Cells)
    <3>1. k \in Nat
          BY <1>2
    <3> QED BY <2>2, <3>1, RowsAdded
  <2>3. ASSUME NEW k \in Len(row)..col, u = SetRow(p, n, Padded(row, k, create_cell))
        PROVE  u \in TablesOf(Cells)
    <3>1. k \in Nat
          BY <1>5
    <3>2. PICK q : q = Padded(row, k, create_cell)
          OBVIOUS
    <3>3. q \in Seq(Cells)
          BY <1>5, <3>1, <3>2, NewCell, PadFacts
    <3> QED BY <1>6, <2>3, <3>2, <3>3
  <2>4. ASSUME NEW k \in 1..(hor_span - 1), u = SetRow(p, n, row_set_cell_span(row, col, k))
        PROVE  u \in TablesOf(Cells)
    <3>1. k \in Nat
          OBVIOUS
    <3> QED BY <1>7, <2>4, <3>1
  <2> QED BY <2>1, <2>2, <2>3, <2>4
<1> QED BY <1>8, <1>9

\* Separators.
LEMMA SeparatorAnywhere ==
    ASSUME NEW S, NEW t \in TablesOf(S)
    PROVE  /\ ft_add_separator(t) \in TablesOf(S)
           /\ \A u \in ft_add_separator_fails(t) : u \in TablesOf(S)
<1>1. \A s \in Seq(BOOLEAN) : [t EXCEPT !.separators = s] \in TablesOf(S)
      BY DEF TablesOf
<1>2. t.separators \in Seq(BOOLEAN) /\ t.cur_row \in Nat /\ Len(t.separators) \in Nat
      BY TableParts
<1>3. ASSUME NEW n \in Nat PROVE Padded(t.separators, n, FALSE) \in Seq(BOOLEAN)
  <2>1. PICK s \in Seq(BOOLEAN), e \in BOOLEAN : s = t.separators /\ e = FALSE
        BY <1>2
  <2>2. Padded(s, n, e) \in Seq(BOOLEAN)
        BY PadFacts
  <2> QED BY <2>1, <2>2
<1>4. ft_add_separator(t) \in TablesOf(S)
  <2>1. PICK n \in Nat : n = t.cur_row + 1
        BY <1>2
  <2>2. PICK s : s = Padded(t.separators, n, FALSE)
        OBVIOUS
  <2>3. s \in Seq(BOOLEAN)
        BY <1>3, <2>2
  <2>4. PICK w : w = [s EXCEPT ![n] = TRUE]
        OBVIOUS
  <2>5. w \in Seq(BOOLEAN)
    <3>1. CASE n \in 1..Len(s)
          BY <2>3, <2>4, <3>1, ExceptSeq
    <3>2. CASE n \notin 1..Len(s)
      <4>1. DOMAIN s = 1..Len(s) /\ s = [i \in DOMAIN s |-> s[i]]
            BY <2>3, LenProperties
      <4>2. w = s
            BY <2>4, <3>2, <4>1
      <4> QED BY <2>3, <4>2
    <3> QED BY <3>1, <3>2
  <2>6. ft_add_separator(t) = [t EXCEPT !.separators = w]
        BY <2>1, <2>2, <2>4 DEF ft_add_separator
  <2> QED BY <1>1, <2>5, <2>6
<1>5. ASSUME NEW u \in ft_add_separator_fails(t) PROVE u \in TablesOf(S)
  <2>1. PICK n \in Len(t.separators)..t.cur_row :
          u = [t EXCEPT !.separators = Padded(t.separators, n, FALSE)]
        BY DEF ft_add_separator_fails
  <2>2. n \in Nat
        BY <1>2
  <2>3. PICK s \in Seq(BOOLEAN) : s = Padded(t.separators, n, FALSE)
        BY <1>3, <2>2
  <2> QED BY <1>1, <2>1, <2>3
<1> QED BY <1>4, <1>5

\* One step per call, as for CallKeepsWhole; here callers also move the cursor
\* and erase, and a call that leaves a hole is the last.
LEMMA CallKeepsLoose ==
    ASSUME TableAssumption, table \in LooseTables, TableNext, status' # "lost"
    PROVE  table' \in LooseTables
<1>1. \A u : Success(u) => table' = u
      BY DEF Success
<1>2. \A us : Failure(us) => \E u \in us : table' = u
      BY DEF Failure
<1>3. \A us : ~Loss(us)
      BY DEF Loss
<1>4. CASE ReadHole
      BY <1>4 DEF ReadHole
<1>5. CASE Call
  <2>1. table \in TablesOf(Pointers) /\ table \in TablesOf(Cells)
        BY <1>5, KindsOfTables, HoleFree DEF Call, Running
  <2>2. \A S : S \subseteq Pointers => TablesOf(S) \subseteq LooseTables
        BY KindsOfTables, StrictIsLoose
  <2>3. Cells \subseteq Pointers
        BY DEF Pointers
  <2>4. PICK S : S = IF table.add_strategy = "INSERT" THEN Pointers ELSE Cells
        OBVIOUS
  <2>5. Writable(S, table) /\ S \subseteq Pointers
        BY <2>1, <2>3, <2>4 DEF Writable, Pointers
  <2>6. ASSUME NEW T \in {S, Cells, Pointers}, NEW u \in TablesOf(T) PROVE u \in LooseTables
        BY <2>2, <2>3, <2>5
  <2>7. \A fmt \in Formats : fmt \in Seq(Texts)
        BY DEF TableAssumption
  <2>8. \A fmt \in Formats : create_row_from_fmt_string(fmt) \in Seq(Cells)
        BY FormatFacts DEF RowsOfCells
  <2>9. ASSUME NEW u \in ft_printf_fails(table) PROVE u \in LooseTables
    <3>1. PICK cols : cols = IF table.add_strategy = "INSERT" THEN table.cur_col ELSE 0
          OBVIOUS
    <3>2. cols \in Nat
          BY <2>1, <3>1, TableParts
    <3>3. u \in TablesOf(Cells)
          BY <2>1, <2>9, <3>1, <3>2, PaddedAnywhere DEF ft_printf_fails
    <3> QED BY <2>6, <3>3
  <2>10. \A v : Writable(S, v) => v \in LooseTables
        BY <2>6 DEF Writable
  <2>11. ASSUME NEW fmt \in Formats, Printf(fmt) PROVE table' \in LooseTables
    <3>1. PICK new \in Seq(Cells) : new = create_row_from_fmt_string(fmt)
          BY <2>8
    <3>2. CASE Success(ft_row_printf_impl_(table, new))
          BY <1>1, <2>1, <2>6, <3>2, PrintfAnywhere
    <3>3. CASE Failure({table})
          BY <1>2, <3>3
    <3>4. CASE Failure(ft_printf_fails(table))
          BY <1>2, <2>9, <3>4
    <3> QED BY <1>3, <2>11, <3>1, <3>2, <3>3, <3>4 DEF Printf
  <2>12. ASSUME NEW fmt \in Formats, PrintfLn(fmt) PROVE table' \in LooseTables
    <3>1. PICK new \in Seq(Cells) : new = create_row_from_fmt_string(fmt)
          BY <2>8
    <3>2. PICK t : t = ft_row_printf_impl_(table, new)
          OBVIOUS
    <3>3. t \in TablesOf(Pointers)
          BY <2>1, <3>2, PrintfAnywhere
    <3>4. ASSUME NEW u \in LnOutcomes(t), Success(u) PROVE table' \in LooseTables
          BY <1>1, <2>6, <3>3, <3>4, LnOutcomesAnywhere
    <3>5. CASE Failure({table})
          BY <1>2, <3>5
    <3>6. CASE Failure(ft_printf_fails(table))
          BY <1>2, <2>9, <3>6
    <3> QED BY <1>3, <2>12, <3>1, <3>2, <3>4, <3>5, <3>6 DEF PrintfLn
  <2>13. ASSUME NEW cells \in Formats, RowWriteLn(cells) PROVE table' \in LooseTables
    <3>1. cells \in Seq(Texts)
          BY <2>7
    <3>2. PICK t : t = ft_row_write(table, cells)
          OBVIOUS
    <3>3. Writable(S, t)
          BY <2>5, <3>1, <3>2, RowWriteAnywhere
    <3>4. ASSUME NEW u \in LnOutcomes(t), Success(u) PROVE table' \in LooseTables
          BY <1>1, <2>10, <3>3, <3>4, LnWritable
    <3>5. CASE Failure(ft_row_write_fails(table, cells))
          BY <1>2, <2>5, <2>6, <3>1, <3>5, RowWriteFailsAnywhere
    <3> QED BY <1>3, <2>13, <3>2, <3>4, <3>5 DEF RowWriteLn
  <2>14. ASSUME NEW first \in Formats, NEW second \in Formats, TableWrite(first, second)
         PROVE  table' \in LooseTables
    <3>1. first \in Seq(Texts) /\ second \in Seq(Texts)
          BY <2>7
    <3>2. PICK t : t = ft_row_write(table, first)
          OBVIOUS
    <3>3. Writable(S, t)
          BY <2>5, <3>1, <3>2, RowWriteAnywhere
    <3>4. ASSUME NEW u \in LnOutcomes(t) PROVE Writable(S, u)
          BY <3>3, LnWritable
    <3>5. ASSUME NEW u \in LnOutcomes(t), Success(ft_row_write(u, second)) PROVE table' \in LooseTables
          BY <1>1, <2>10, <3>1, <3>4, <3>5, RowWriteAnywhere
    <3>6. ASSUME NEW u \in LnOutcomes(t), Failure(ft_row_write_fails(u, second)) PROVE table' \in LooseTables
          BY <1>2, <2>6, <3>1, <3>4, <3>6, RowWriteFailsAnywhere
    <3>7. CASE Failure(ft_row_write_fails(table, first))
          BY <1>2, <2>5, <2>6, <3>1, <3>7, RowWriteFailsAnywhere
    <3> QED BY <1>3, <2>14, <3>2, <3>5, <3>6, <3>7 DEF TableWrite
  <2>15. ASSUME NEW text \in Texts, Write(text) PROVE table' \in LooseTables
    <3>1. CASE Success(ft_write_impl_(table, text))
          BY <1>1, <2>5, <2>10, <3>1, WriteAnywhere
    <3>2. CASE Failure(ft_write_fails(table))
          BY <1>2, <2>5, <2>6, <3>2, WriteFailsAnywhere
    <3> QED BY <1>3, <2>15, <3>1, <3>2 DEF Write
  <2>16. CASE Ln
    <3>1. CASE Success(ft_ln(table))
          BY <1>1, <2>1, <2>6, <3>1, LnAnywhere
    <3>2. CASE Failure(ft_ln_fails(table))
          BY <1>2, <2>1, <2>6, <3>2, LnFailsAnywhere
    <3> QED BY <1>3, <2>16, <3>1, <3>2 DEF Ln
  <2>17. CASE AddSeparator
    <3>1. CASE Success(ft_add_separator(table))
          BY <1>1, <2>1, <2>6, <3>1, SeparatorAnywhere
    <3>2. CASE Failure(ft_add_separator_fails(table))
          BY <1>2, <2>1, <2>6, <3>2, SeparatorAnywhere
    <3> QED BY <1>3, <2>17, <3>1, <3>2 DEF AddSeparator
  <2>18. ASSUME NEW s \in Strategies, SetStrategy(s) PROVE table' \in LooseTables
    <3>1. [table EXCEPT !.add_strategy = s] \in LooseTables
          BY DEF LooseTables
    <3> QED BY <1>1, <2>18, <3>1 DEF SetStrategy
  <2>19. ASSUME NEW row \in 0..MaxRows \cup {CUR}, NEW col \in 0..MaxCols, NEW span \in Spans,
                SetCellSpan(row, col, span)
         PROVE  table' \in LooseTables
    <3>1. row \in Nat \cup {CUR} /\ col \in Nat /\ span \in Nat
          BY DEF TableAssumption
    <3>2. CASE Success(ft_set_cell_span(table, row, col, span))
          BY <1>1, <2>1, <2>6, <3>1, <3>2, SpanAnywhere
    <3>3. CASE Failure({table})
          BY <1>2, <3>3
    <3>4. CASE Failure(ft_set_cell_span_fails(table, row, col, span))
          BY <1>2, <2>1, <2>6, <3>1, <3>4, SpanAnywhere
    <3> QED BY <1>3, <2>19, <3>2, <3>3, <3>4 DEF SetCellSpan
  <2>20. ASSUME NEW row \in 0..MaxRows, NEW col \in 0..MaxCols, SetCurCell(row, col)
         PROVE  table' \in LooseTables
    <3>1. row \in Nat /\ col \in Nat
          OBVIOUS
    <3>2. PICK u : u = [table EXCEPT !.cur_row = row, !.cur_col = col]
          OBVIOUS
    <3>3. u \in TablesOf(Cells)
          BY <2>1, <3>1, <3>2, CursorMoved
    <3> QED BY <1>1, <2>6, <2>20, <3>2, <3>3 DEF SetCurCell
  <2>21. ASSUME NEW top \in 0..MaxRows \cup {CUR}, NEW bottom \in 0..MaxRows \cup {CUR},
                NEW left \in 0..MaxCols \cup {CUR}, NEW right \in 0..MaxCols \cup {CUR},
                EraseRange(top, left, bottom, right)
         PROVE  table' \in LooseTables
    <3>1. PICK a : a = EraseArgs(table, top, left, bottom, right)
          OBVIOUS
    <3>2. table.cur_row \in Nat
          BY <2>1, TableParts
    <3>3. a \in Ranges
          BY <3>1, <3>2 DEF EraseArgs, Ranges
    <3>4. CASE Failure({table})
          BY <1>2, <3>4
    <3>5. CASE ~(a.top > a.bottom) /\ EraseInside(table, a) /\ Success(ft_erase_range(table, a))
      <4>1. a.top <= a.bottom
            BY <3>3, <3>5 DEF Ranges
      <4> QED BY <1>1, <3>3, <3>5, <4>1, ErasedTable
    <3>6. CASE UNCHANGED table
          BY <3>6
    <3> QED BY <2>21, <3>1, <3>4, <3>5, <3>6 DEF EraseRange
  <2> QED BY <1>5, <2>11, <2>12, <2>13, <2>14, <2>15, <2>16, <2>17, <2>18, <2>19, <2>20, <2>21 DEF Call
<1> QED BY <1>4, <1>5 DEF TableNext

\* Whatever callers do to a table, wherever they move the cursor and whatever
\* they erase, ft_erase_range then takes rows and separators together, although
\* the two vectors have different lengths, up to the first failed growth of a
\* vector: for any texts, formats and sizes.
THEOREM ErasureKeepsSeparators ==
    ASSUME TableAssumption
    PROVE  TableSpec => []SeparatorsFollowRows
<1>1. TableInit => table \in LooseTables
  <2>1. <<>> \in Seq(LooseRows) /\ <<>> \in Seq(BOOLEAN)
        BY EmptySeq
  <2> QED BY <2>1 DEF TableInit, EmptyTable, LooseTables
<1> DEFINE I == status = "lost" \/ table \in LooseTables
<1>2. I /\ [TableNext]_tvars => I'
  <2>1. CASE UNCHANGED tvars
        BY <2>1 DEF tvars
  <2>2. ASSUME I, TableNext PROVE status' = "lost" \/ table' \in LooseTables
    <3>1. table \in LooseTables
          BY <2>2, LostIsLast
    <3> QED BY <2>2, <3>1, CallKeepsLoose
  <2>3. LooseTables' = LooseTables
        BY DEF LooseTables, LooseRows, Pointers, Cells
  <2> QED BY <2>1, <2>2, <2>3
<1>3. I => SeparatorsFollowRows
  <2>1. CASE status = "lost"
        BY <2>1 DEF SeparatorsFollowRows
  <2>2. CASE table \in LooseTables
        BY <2>2, LooseFollows
  <2> QED BY <2>1, <2>2
<1> QED BY <1>1, <1>2, <1>3, PTL DEF TableSpec
=============================================================================
