---------------------------- MODULE LayersProofs ----------------------------
(***************************************************************************)
(* What the topo daemon is built from.                                     *)
(*                                                                         *)
(* The linked list of elem.c is a set of keys, for any keys and blocks:    *)
(* the pointers run along one chain of blocks (LinkedAlong) whose keys     *)
(* rise (SortedAlong), and each function of the list turns such a chain    *)
(* into another.                                                           *)
(*                                                                         *)
(* The socket of udp.c replies from the address it was asked at, for any   *)
(* clients, addresses, routes and queue lengths.                           *)
(*                                                                         *)
(* The merge of a reply line by line, with its flags and its count of      *)
(* changes, implements the one-step merge of TopoClient: for any pods, any *)
(* replies and any order of their lines.                                   *)
(***************************************************************************)
EXTENDS UdpFromTo, AssocSync, ElemList, FiniteSetTheorems, SequenceTheorems, WellFoundedInduction,
        TLAPS

-----------------------------------------------------------------------------
(* Natural numbers.                                                         *)

\* Every set of natural numbers that is not empty has a least member.
LEMMA LeastMember ==
    ASSUME NEW S, S \subseteq Nat, S # {}
    PROVE  \E n \in S : \A m \in S : n <= m
  <1> DEFINE R == OpToRel(<, Nat)
  <1>1. IsWellFoundedOn(R, Nat)
    BY NatLessThanWellFounded
  <1>2. \A i, j \in Nat : i < j => <<i, j>> \in R
    BY DEF OpToRel
  <1> HIDE DEF R
  <1>3. PICK x \in S : \A y \in S : ~(<<y, x>> \in R)
    BY <1>1, WFMin
  <1>4. x \in Nat /\ \A y \in S : y \in Nat
    OBVIOUS
  <1>5. \A y \in S : ~(y < x)
    BY <1>2, <1>3, <1>4
  <1>6. \A y \in S : x <= y
    BY <1>4, <1>5
  <1> QED
    BY <1>6

\* Induction, on a set.
LEMMA SetInduction ==
    ASSUME NEW S, 0 \in S, \A n \in Nat : n \in S => n + 1 \in S
    PROVE  Nat \subseteq S
  <1> SUFFICES ASSUME Nat \ S # {} PROVE FALSE
    OBVIOUS
  <1>1. PICK n \in Nat \ S : \A m \in Nat \ S : n <= m
    BY LeastMember
  <1>2. n # 0 /\ n - 1 \in Nat /\ ~(n <= n - 1) /\ (n - 1) + 1 = n
    BY <1>1
  <1>3. n - 1 \in S
    BY <1>1, <1>2
  <1> QED
    BY <1>1, <1>2, <1>3

-----------------------------------------------------------------------------
(* A chain of blocks, as a sequence.                                        *)

Block == [key : Int, forward : Blocks \cup {NULL}, backward : Blocks \cup {NULL}]

\* The i-th block of a chain; the root is before the first.
At(c, i) == IF i = 0 THEN ROOT ELSE c[i]

\* The blocks after the i-th.
Rest(c, i) == [j \in 1..(Len(c) - i) |-> c[i + j]]

\* The pointers of m run along c, both ways, and from no other block to one of c.
LinkedAlong(m, c) ==
    /\ \A i \in 1..Len(c) : /\ c[i] # ROOT
                            /\ m[At(c, i - 1)].forward = c[i]
                            /\ m[c[i]].backward = At(c, i - 1)
    /\ m[At(c, Len(c))].forward = NULL
    /\ \A n \in Blocks : (\A i \in 0..Len(c) : n # At(c, i)) => m[n].forward = NULL

\* The keys of m rise along c.
SortedAlong(m, c) ==
    /\ m[ROOT].key = NoKey
    /\ \A i \in 1..Len(c) : m[c[i]].key \in Keys
    /\ \A i, j \in 1..Len(c) : i < j => m[c[i]].key < m[c[j]].key

IsChain(m, c) ==
    /\ m \in [Blocks -> Block]
    /\ c \in Seq(Blocks)
    /\ LinkedAlong(m, c)
    /\ SortedAlong(m, c)

\* The keys in a chain.
KeySet(m, c) == { m[c[i]].key : i \in 1..Len(c) }

\* Types and lengths.
LEMMA ChainTypes ==
    ASSUME NEW m, NEW c, IsChain(m, c)
    PROVE  /\ Len(c) \in Nat
           /\ \A i \in 0..Len(c) : At(c, i) \in Blocks
           /\ \A i \in 1..Len(c) : c[i] \in Blocks /\ c[i] # ROOT /\ At(c, i) = c[i]
           /\ At(c, 0) = ROOT
  BY ElemAssumption DEF IsChain, LinkedAlong, At

\* No block is twice in a chain.
LEMMA ChainOnce ==
    ASSUME NEW m, NEW c, IsChain(m, c), NEW i \in 0..Len(c), NEW j \in 0..Len(c), At(c, i) = At(c, j)
    PROVE  i = j
  <1>0. \A k \in Keys : k \in Int
    BY ElemAssumption
  <1>1. \A k \in 1..Len(c) : m[c[k]].key \in Int
    BY <1>0 DEF IsChain, SortedAlong
  <1>2. \A k, l \in 1..Len(c) : k < l => c[k] # c[l]
    BY <1>1 DEF IsChain, SortedAlong
  <1> QED
    BY <1>2, ChainTypes

\* What follows the i-th block is the next one and what follows that.
LEMMA RestStep ==
    ASSUME NEW c \in Seq(Blocks), NEW i \in 0..(Len(c) - 1)
    PROVE  /\ Rest(c, i) = <<c[i + 1]>> \o Rest(c, i + 1)
           /\ Rest(c, i + 1) \in Seq(Blocks)
  <1>1. Len(c) \in Nat /\ i \in Nat /\ i + 1 \in 1..Len(c)
    OBVIOUS
  <1>2. Rest(c, i + 1) \in Seq(Blocks) /\ Len(Rest(c, i + 1)) = Len(c) - (i + 1)
    BY <1>1 DEF Rest
  <1>3. Rest(c, i) \in Seq(Blocks) /\ Len(Rest(c, i)) = Len(c) - i
    BY <1>1 DEF Rest
  <1>4. <<c[i + 1]>> \in Seq(Blocks)
    BY <1>1
  <1> DEFINE s == <<c[i + 1]>> \o Rest(c, i + 1)
  <1>5. s \in Seq(Blocks) /\ Len(s) = Len(c) - i
    BY <1>1, <1>2, <1>4
  <1>6. ASSUME NEW j \in 1..(Len(c) - i) PROVE Rest(c, i)[j] = s[j]
    <2>1. CASE j = 1
      BY <1>1, <1>2, <2>1 DEF Rest
    <2>2. CASE j # 1
      <3>1. j - 1 \in 1..(Len(c) - (i + 1)) /\ (i + 1) + (j - 1) = i + j /\ j > 1
        BY <1>1, <2>2
      <3>2. s[j] = Rest(c, i + 1)[j - 1]
        BY <1>2, <1>4, <3>1
      <3> QED
        BY <1>1, <3>1, <3>2 DEF Rest
    <2> QED
      BY <2>1, <2>2
  <1> HIDE DEF s
  <1>7. Rest(c, i) = s
    BY <1>3, <1>5, <1>6, SeqEqual
  <1> QED
    BY <1>2, <1>7 DEF s

\* After the root comes the whole chain, after the last block nothing.
LEMMA RestEnds ==
    ASSUME NEW c \in Seq(Blocks)
    PROVE  Rest(c, 0) = c /\ Rest(c, Len(c)) = <<>>
  <1>1. Rest(c, 0) \in Seq(Blocks) /\ Len(Rest(c, 0)) = Len(c) /\ \A j \in 1..Len(c) : Rest(c, 0)[j] = c[j]
    BY DEF Rest
  <1>2. Rest(c, Len(c)) \in Seq(Blocks) /\ Len(Rest(c, Len(c))) = 0
    BY DEF Rest
  <1> QED
    BY <1>1, <1>2, SeqEqual, EmptySeq

-----------------------------------------------------------------------------
(* What the recursive functions of ElemList compute on a chain.             *)

\* What follows block n in m, from what follows the others.
Following(m, f, n) == IF m[n].forward = NULL THEN <<>> ELSE <<m[n].forward>> \o f[m[n].forward]

\* Chain is the sequence the pointers run along: its recursive function exists
\* on the blocks, as a chain does not return to where it was.
LEMMA ChainIs ==
    ASSUME NEW m, NEW c, IsChain(m, c)
    PROVE  Chain(m) = c
  <1> DEFINE On(n) == \E i \in 0..Len(c) : n = At(c, i)
             pos(n) == CHOOSE i \in 0..Len(c) : n = At(c, i)
             g == [n \in Blocks |-> IF On(n) THEN Rest(c, pos(n)) ELSE <<>>]
  <1>0. c \in Seq(Blocks) /\ Len(c) \in Nat /\ \A i \in 0..Len(c) : At(c, i) \in Blocks
    BY ChainTypes DEF IsChain
  <1>1. \A i \in 0..Len(c) : On(At(c, i)) /\ pos(At(c, i)) = i
    BY ChainOnce
  <1>2. \A i \in 0..Len(c) : g[At(c, i)] = Rest(c, i)
    BY <1>0, <1>1
  <1>3. \A i \in 0..(Len(c) - 1) : m[At(c, i)].forward = At(c, i + 1) /\ At(c, i + 1) = c[i + 1]
    <2> SUFFICES ASSUME NEW i \in 0..(Len(c) - 1) PROVE m[At(c, i)].forward = At(c, i + 1) /\ At(c, i + 1) = c[i + 1]
      OBVIOUS
    <2>1. i + 1 \in 1..Len(c) /\ (i + 1) - 1 = i
      BY <1>0
    <2> QED
      BY <2>1, ChainTypes DEF IsChain, LinkedAlong
  <1>4. m[At(c, Len(c))].forward = NULL
    BY DEF IsChain, LinkedAlong
  <1>5. ASSUME NEW f, \A i \in 0..Len(c) : f[At(c, i)] = Rest(c, i), NEW i \in 0..Len(c)
        PROVE  Following(m, f, At(c, i)) = Rest(c, i)
    <2>1. CASE i = Len(c)
      BY <1>4, <2>1, <1>0, RestEnds DEF Following
    <2>2. CASE i # Len(c)
      <3>1. i \in 0..(Len(c) - 1) /\ i + 1 \in 0..Len(c)
        BY <1>0, <2>2
      <3>2. At(c, i + 1) # NULL
        BY <1>0, <3>1, ElemAssumption
      <3> QED
        BY <1>0, <1>3, <1>5, <3>1, <3>2, RestStep DEF Following
    <2> QED
      BY <2>1, <2>2
  <1>6. \A n \in Blocks : g[n] = Following(m, g, n)
    <2> SUFFICES ASSUME NEW n \in Blocks PROVE g[n] = Following(m, g, n)
      OBVIOUS
    <2>1. CASE On(n)
      <3>1. PICK i \in 0..Len(c) : n = At(c, i)
        BY <2>1
      <3> HIDE DEF g
      <3>2. g[n] = Rest(c, i)
        BY <1>2, <3>1
      <3>3. Following(m, g, At(c, i)) = Rest(c, i)
        BY <1>2, <1>5
      <3> QED
        BY <3>1, <3>2, <3>3
    <2>2. CASE ~On(n)
      <3>1. m[n].forward = NULL
        BY <2>2 DEF IsChain, LinkedAlong
      <3> QED
        BY <2>2, <3>1 DEF Following
    <2> QED
      BY <2>1, <2>2
  <1>7. g = [n \in Blocks |-> Following(m, g, n)]
    BY <1>6
  <1> HIDE DEF g
  <1>8. PICK f : f = [n \in Blocks |-> Following(m, f, n)] /\ Chain(m) = f[ROOT]
    BY <1>7 DEF Chain, Following
  <1>9. \A n \in Blocks : f[n] = Following(m, f, n)
    BY <1>8
  <1> DEFINE S == { k \in Nat : k <= Len(c) => f[At(c, Len(c) - k)] = Rest(c, Len(c) - k) }
  <1>10. 0 \in S
    <2>1. At(c, Len(c)) \in Blocks /\ Len(c) - 0 = Len(c)
      BY <1>0
    <2>2. f[At(c, Len(c))] = Rest(c, Len(c))
      BY <1>0, <1>4, <1>9, <2>1, RestEnds DEF Following
    <2> QED
      BY <2>1, <2>2
  <1>11. ASSUME NEW k \in Nat, k \in S PROVE k + 1 \in S
    <2> SUFFICES ASSUME k + 1 <= Len(c)
                 PROVE  f[At(c, Len(c) - (k + 1))] = Rest(c, Len(c) - (k + 1))
      OBVIOUS
    <2> DEFINE i == Len(c) - (k + 1)
    <2>1. i \in 0..(Len(c) - 1) /\ i + 1 \in 0..Len(c) /\ i \in 0..Len(c) /\ i + 1 = Len(c) - k /\ k <= Len(c)
      BY <1>0
    <2>2. f[At(c, i + 1)] = Rest(c, i + 1)
      BY <1>11, <2>1
    <2> HIDE DEF i
    <2>3. At(c, i + 1) # NULL /\ At(c, i) \in Blocks
      BY <1>0, <2>1, ElemAssumption
    <2>4. f[At(c, i)] = Rest(c, i)
      BY <1>0, <1>3, <1>9, <2>1, <2>2, <2>3, RestStep DEF Following
    <2> QED
      BY <2>4 DEF i
  <1>12. Nat \subseteq S
    <2> HIDE DEF S
    <2> QED
      BY <1>10, <1>11, SetInduction
  <1>13. Len(c) \in S /\ Len(c) - Len(c) = 0
    BY <1>0, <1>12
  <1>14. f[At(c, 0)] = Rest(c, 0)
    BY <1>0, <1>13
  <1> QED
    BY <1>0, <1>8, <1>14, RestEnds, ChainTypes

\* Where add_element goes on from block n, from where it goes on elsewhere.
Searching(m, key, f, n) ==
    LET next == m[n].forward
    IN  IF next = NULL \/ m[next].key > key THEN n
        ELSE IF m[next].key = key THEN NULL
        ELSE f[next]

\* j is the number of smaller keys in the chain.
Below(m, c, key, j) ==
    /\ j \in 0..Len(c)
    /\ \A i \in 1..j : m[c[i]].key < key
    /\ \A i \in (j + 1)..Len(c) : m[c[i]].key >= key

\* There is such a number for every key.
LEMMA BelowExists ==
    ASSUME NEW m, NEW c, IsChain(m, c), NEW key \in Int
    PROVE  \E j : Below(m, c, key, j)
  <1>0. Len(c) \in Nat /\ (\A k \in Keys : k \in Int) /\ \A i \in 1..Len(c) : m[c[i]].key \in Keys
    BY ChainTypes, ElemAssumption DEF IsChain, SortedAlong
  <1>1. \A i, j \in 1..Len(c) : i < j => m[c[i]].key < m[c[j]].key
    BY DEF IsChain, SortedAlong
  <1> DEFINE S == { i \in 1..Len(c) : m[c[i]].key >= key }
  <1>2. CASE S = {}
    <2>1. \A i \in 1..Len(c) : m[c[i]].key < key
      BY <1>0, <1>2
    <2>2. Below(m, c, key, Len(c))
      BY <1>0, <2>1 DEF Below
    <2> QED
      BY <2>2
  <1>3. CASE S # {}
    <2>1. PICK n \in S : \A i \in S : n <= i
      <3>1. S \subseteq Nat
        BY <1>0
      <3> HIDE DEF S
      <3> QED
        BY <1>3, <3>1, LeastMember
    <2>2. n - 1 \in 0..Len(c) /\ n \in 1..Len(c) /\ (n - 1) + 1 = n
      BY <1>0, <2>1
    <2>3. \A i \in 1..(n - 1) : m[c[i]].key < key
      <3> SUFFICES ASSUME NEW i \in 1..(n - 1) PROVE m[c[i]].key < key
        OBVIOUS
      <3>1. i \in 1..Len(c) /\ ~(n <= i)
        BY <1>0, <2>2
      <3>2. i \notin S
        BY <2>1, <3>1
      <3> QED
        BY <1>0, <3>1, <3>2
    <2>4. \A i \in n..Len(c) : m[c[i]].key >= key
      <3> SUFFICES ASSUME NEW i \in n..Len(c) PROVE m[c[i]].key >= key
        OBVIOUS
      <3>1. i \in 1..Len(c) /\ (i = n \/ n < i)
        BY <1>0, <2>2
      <3>2. m[c[n]].key >= key /\ m[c[n]].key \in Int /\ m[c[i]].key \in Int
        BY <1>0, <2>1, <2>2, <3>1
      <3>3. i = n \/ m[c[n]].key < m[c[i]].key
        BY <1>1, <2>2, <3>1
      <3> QED
        BY <3>2, <3>3
    <2>5. Below(m, c, key, n - 1)
      BY <2>2, <2>3, <2>4 DEF Below
    <2> QED
      BY <2>5
  <1> QED
    BY <1>2, <1>3

\* add_element finds the last block with a smaller key, or the key itself.
LEMMA TargetIs ==
    ASSUME NEW c, IsChain(mem, c), NEW key \in Int, NEW j, Below(mem, c, key, j)
    PROVE  target(key) = IF j < Len(c) /\ mem[c[j + 1]].key = key THEN NULL ELSE At(c, j)
  <1> DEFINE On(n) == \E i \in 0..j : n = At(c, i)
             goal == IF j < Len(c) /\ mem[c[j + 1]].key = key THEN NULL ELSE At(c, j)
             g == [n \in Blocks |-> IF On(n) THEN goal ELSE n]
  <1>0. /\ Len(c) \in Nat /\ j \in 0..Len(c) /\ \A i \in 0..Len(c) : At(c, i) \in Blocks
        /\ \A i \in 1..Len(c) : mem[c[i]].key \in Int /\ c[i] # NULL
    <2>1. \A k \in Keys : k \in Int
      BY ElemAssumption
    <2> QED
      BY <2>1, ChainTypes, ElemAssumption DEF IsChain, SortedAlong, Below
  <1>1. \A i \in 0..(Len(c) - 1) : mem[At(c, i)].forward = c[i + 1] /\ At(c, i + 1) = c[i + 1] /\ i + 1 \in 1..Len(c)
    <2> SUFFICES ASSUME NEW i \in 0..(Len(c) - 1)
                 PROVE  mem[At(c, i)].forward = c[i + 1] /\ At(c, i + 1) = c[i + 1] /\ i + 1 \in 1..Len(c)
      OBVIOUS
    <2>1. i + 1 \in 1..Len(c) /\ (i + 1) - 1 = i
      BY <1>0
    <2> QED
      BY <2>1, ChainTypes DEF IsChain, LinkedAlong
  <1>2. mem[At(c, Len(c))].forward = NULL
    BY DEF IsChain, LinkedAlong
  <1>3. ASSUME NEW f, NEW i \in 0..(j - 1)
        PROVE  Searching(mem, key, f, At(c, i)) = f[At(c, i + 1)]
    <2>1. i \in 0..(Len(c) - 1) /\ i + 1 \in 1..j
      BY <1>0
    <2>2. mem[c[i + 1]].key < key /\ mem[c[i + 1]].key \in Int /\ c[i + 1] # NULL
      BY <1>0, <1>1, <2>1 DEF Below
    <2>3. ~(mem[c[i + 1]].key > key) /\ mem[c[i + 1]].key # key
      BY <2>2
    <2> QED
      BY <1>1, <2>1, <2>2, <2>3 DEF Searching
  <1>4. ASSUME NEW f
        PROVE  Searching(mem, key, f, At(c, j)) = goal
    <2>1. CASE j = Len(c)
      BY <1>0, <1>2, <2>1 DEF Searching
    <2>2. CASE j # Len(c)
      <3>1. j \in 0..(Len(c) - 1) /\ j < Len(c) /\ j + 1 \in (j + 1)..Len(c) /\ j + 1 \in 1..Len(c)
        BY <1>0, <2>2
      <3>2. mem[c[j + 1]].key >= key /\ mem[c[j + 1]].key \in Int /\ c[j + 1] # NULL
        BY <1>0, <3>1 DEF Below
      <3>3. mem[c[j + 1]].key > key <=> mem[c[j + 1]].key # key
        BY <3>2
      <3> QED
        BY <1>1, <3>1, <3>2, <3>3 DEF Searching
    <2> QED
      BY <2>1, <2>2
  <1>5. ASSUME NEW f, NEW n \in Blocks, ~On(n)
        PROVE  Searching(mem, key, f, n) = n
    <2>1. CASE \E i \in 0..Len(c) : n = At(c, i)
      <3>1. PICK i \in 0..Len(c) : n = At(c, i)
        BY <2>1
      <3>2. i > j
        BY <1>0, <1>5, <3>1
      <3>3. CASE i = Len(c)
        BY <1>2, <3>1, <3>3 DEF Searching
      <3>4. CASE i # Len(c)
        <4>1. i \in 0..(Len(c) - 1) /\ j + 1 \in 1..Len(c) /\ i + 1 \in 1..Len(c) /\ j + 1 < i + 1 /\ j + 1 \in (j + 1)..Len(c)
          BY <1>0, <3>1, <3>2, <3>4
        <4>2. mem[c[j + 1]].key >= key /\ mem[c[j + 1]].key < mem[c[i + 1]].key
          BY <4>1 DEF Below, IsChain, SortedAlong
        <4>3. mem[c[j + 1]].key \in Int /\ mem[c[i + 1]].key \in Int
          BY <1>0, <4>1
        <4>4. mem[c[i + 1]].key > key
          BY <4>2, <4>3
        <4> QED
          BY <1>1, <3>1, <4>1, <4>4 DEF Searching
      <3> QED
        BY <3>3, <3>4
    <2>2. CASE ~\E i \in 0..Len(c) : n = At(c, i)
      <3>1. mem[n].forward = NULL
        BY <2>2 DEF IsChain, LinkedAlong
      <3> QED
        BY <3>1 DEF Searching
    <2> QED
      BY <2>1, <2>2
  <1> HIDE DEF goal
  <1>6. \A i \in 0..j : g[At(c, i)] = goal
    BY <1>0
  <1>7. \A n \in Blocks : g[n] = Searching(mem, key, g, n)
    <2> SUFFICES ASSUME NEW n \in Blocks PROVE g[n] = Searching(mem, key, g, n)
      OBVIOUS
    <2>1. CASE On(n)
      <3>1. PICK i \in 0..j : n = At(c, i)
        BY <2>1
      <3>2. CASE i = j
        BY <1>4, <1>6, <3>1, <3>2
      <3>3. CASE i # j
        <4>1. i \in 0..(j - 1) /\ i + 1 \in 0..j
          BY <1>0, <3>1, <3>3
        <4> QED
          BY <1>3, <1>6, <3>1, <4>1
      <3> QED
        BY <3>2, <3>3
    <2>2. CASE ~On(n)
      BY <1>5, <2>2
    <2> QED
      BY <2>1, <2>2
  <1>8. g = [n \in Blocks |-> Searching(mem, key, g, n)]
    BY <1>7
  <1> HIDE DEF g
  <1>9. PICK f : f = [n \in Blocks |-> Searching(mem, key, f, n)] /\ target(key) = f[ROOT]
    BY <1>8 DEF target, Searching
  <1>10. \A n \in Blocks : f[n] = Searching(mem, key, f, n)
    BY <1>9
  <1> DEFINE S == { k \in Nat : k <= j => f[At(c, j - k)] = goal }
  <1>11. 0 \in S
    <2>1. At(c, j) \in Blocks /\ j - 0 = j
      BY <1>0
    <2> QED
      BY <1>4, <1>10, <2>1
  <1>12. ASSUME NEW k \in Nat, k \in S PROVE k + 1 \in S
    <2> SUFFICES ASSUME k + 1 <= j PROVE f[At(c, j - (k + 1))] = goal
      OBVIOUS
    <2> DEFINE i == j - (k + 1)
    <2>1. i \in 0..(j - 1) /\ i \in 0..Len(c) /\ i + 1 = j - k /\ k <= j
      BY <1>0
    <2>2. f[At(c, i + 1)] = goal
      BY <1>12, <2>1
    <2> HIDE DEF i
    <2>3. f[At(c, i)] = goal
      BY <1>0, <1>3, <1>10, <2>1, <2>2
    <2> QED
      BY <2>3 DEF i
  <1>13. Nat \subseteq S
    <2> HIDE DEF S
    <2> QED
      BY <1>11, <1>12, SetInduction
  <1>14. j \in S /\ j - j = 0 /\ j <= j
    BY <1>0, <1>13
  <1>15. f[At(c, 0)] = goal
    BY <1>14
  <1> QED
    BY <1>9, <1>15, ChainTypes DEF goal

-----------------------------------------------------------------------------
(* What insque and remque do to a chain.                                    *)

\* The j-th block and its neighbours.
LEMMA ChainLinks ==
    ASSUME NEW m, NEW c, IsChain(m, c), NEW j \in 0..Len(c)
    PROVE  /\ j < Len(c) => m[At(c, j)].forward = c[j + 1] /\ At(c, j + 1) = c[j + 1] /\ j + 1 \in 1..Len(c)
           /\ j = Len(c) => m[At(c, j)].forward = NULL
           /\ j > 0 => m[At(c, j)].backward = At(c, j - 1) /\ At(c, j) = c[j] /\ At(c, j - 1) \in Blocks /\ j \in 1..Len(c)
  <1>0. Len(c) \in Nat
    BY ChainTypes
  <1>1. ASSUME j < Len(c) PROVE m[At(c, j)].forward = c[j + 1] /\ At(c, j + 1) = c[j + 1] /\ j + 1 \in 1..Len(c)
    <2>1. j + 1 \in 1..Len(c) /\ (j + 1) - 1 = j
      BY <1>0, <1>1
    <2> QED
      BY <2>1, ChainTypes DEF IsChain, LinkedAlong
  <1>2. ASSUME j = Len(c) PROVE m[At(c, j)].forward = NULL
    BY <1>2 DEF IsChain, LinkedAlong
  <1>3. ASSUME j > 0 PROVE m[At(c, j)].backward = At(c, j - 1) /\ At(c, j) = c[j] /\ At(c, j - 1) \in Blocks /\ j \in 1..Len(c)
    <2>1. j \in 1..Len(c) /\ j - 1 \in 0..Len(c)
      BY <1>0, <1>3
    <2> QED
      BY <2>1, ChainTypes DEF IsChain, LinkedAlong
  <1> QED
    BY <1>1, <1>2, <1>3

\* A chain with an item after its j-th block.
Inserted(c, j, item) ==
    [i \in 1..(Len(c) + 1) |-> IF i <= j THEN c[i] ELSE IF i = j + 1 THEN item ELSE c[i - 1]]

\* The blocks after add_element put an item with a key behind block p.
Inserting(m, key, item, p) == insque([m EXCEPT ![item].key = key], item, p)

WithForward(r, n) == [r EXCEPT !.forward = n]
WithBackward(r, n) == [r EXCEPT !.backward = n]

\* Setting one pointer of a block.
LEMMA FieldFacts ==
    ASSUME NEW r \in Block, NEW n
    PROVE  /\ WithForward(r, n) = [key |-> r.key, forward |-> n, backward |-> r.backward]
           /\ WithBackward(r, n) = [key |-> r.key, forward |-> r.forward, backward |-> n]
  BY DEF WithForward, WithBackward, Block

\* The three fields of every block after a call of insque.
FieldsInserted(m, key, item, p, w) ==
    /\ w \in [Blocks -> Block]
    /\ \A n \in Blocks :
         /\ w[n].key = IF n = item THEN key ELSE m[n].key
         /\ w[n].forward = IF n = item THEN m[p].forward ELSE IF n = p THEN item ELSE m[n].forward
         /\ w[n].backward = IF n = item THEN p ELSE IF n = m[p].forward THEN item ELSE m[n].backward

\* insque sets the pointers on both sides of an item that is not in the chain.
LEMMA InsqueFields ==
    ASSUME NEW m, NEW c, IsChain(m, c), NEW j \in 0..Len(c), NEW key \in Int,
           NEW item \in Blocks, \A i \in 0..Len(c) : item # At(c, i),
           NEW w, w = Inserting(m, key, item, At(c, j))
    PROVE  FieldsInserted(m, key, item, At(c, j), w)
  <1> DEFINE p == At(c, j)
             next == m[p].forward
             b == [m EXCEPT ![item].key = key]
  <1>a. w = insque(b, item, p)
    BY DEF Inserting
  <1>0. Len(c) \in Nat /\ p \in Blocks /\ item # p /\ m \in [Blocks -> Block]
    BY ChainTypes DEF IsChain
  <1>1. next # item /\ next # p
    <2>1. CASE j < Len(c)
      <3>1. next = At(c, j + 1) /\ j + 1 \in 0..Len(c) /\ j + 1 # j
        BY <2>1, <1>0, ChainLinks
      <3> QED
        BY <3>1, ChainOnce
    <2>2. CASE j = Len(c)
      BY <2>2, ChainLinks, ElemAssumption, <1>0
    <2> QED
      BY <1>0, <2>1, <2>2
  <1>2. next \in Blocks \cup {NULL}
    BY <1>0 DEF Block
  <1> HIDE DEF p
  <1>3. /\ b \in [Blocks -> Block] /\ \A n \in Blocks : n # item => b[n] = m[n]
        /\ b[item] = [m[item] EXCEPT !.key = key]
    BY <1>0 DEF Block
  <1>3a. b[p].forward = next
    BY <1>0, <1>3
  <1> HIDE DEF b, next
  <1>4. \A n \in Blocks : w[n] = CASE n = item -> [key |-> b[item].key, forward |-> next, backward |-> p]
                                  [] n = p -> WithForward(b[p], item)
                                  [] n = next -> WithBackward(b[next], item)
                                  [] OTHER -> b[n]
    BY <1>a, <1>3a DEF insque, WithForward, WithBackward
  <1>4a. w = [n \in Blocks |-> w[n]]
    BY <1>a DEF insque
  <1>4b. b[item].key = key
    BY <1>0, <1>3 DEF Block
  <1>5. w[item] = [key |-> key, forward |-> next, backward |-> p]
    <2>1. w[item] = [key |-> b[item].key, forward |-> next, backward |-> p]
      BY <1>0, <1>1, <1>4
    <2> QED
      BY <2>1, <1>4b
  <1>6. w[p] = [key |-> m[p].key, forward |-> item, backward |-> m[p].backward]
    <2>1. w[p] = WithForward(m[p], item)
      BY <1>0, <1>1, <1>3, <1>4
    <2>2. m[p] \in Block
      BY <1>0
    <2> QED
      BY <2>1, <2>2, FieldFacts
  <1>7. next \in Blocks => w[next] = [key |-> m[next].key, forward |-> m[next].forward, backward |-> item]
    BY <1>0, <1>1, <1>3, <1>4, FieldFacts
  <1>8. \A n \in Blocks : n # item /\ n # p /\ n # next => w[n] = m[n]
    BY <1>3, <1>4
  <1>9. \A n \in Blocks : /\ m[n].key \in Int /\ m[n].forward \in Blocks \cup {NULL}
                          /\ m[n].backward \in Blocks \cup {NULL} /\ m[n] \in Block
    BY <1>0 DEF Block
  <1>10. \A n \in Blocks : w[n] \in Block
    BY <1>0, <1>2, <1>5, <1>6, <1>7, <1>8, <1>9 DEF Block
  <1>11. w \in [Blocks -> Block]
    BY <1>4a, <1>10
  <1>12. ASSUME NEW n \in Blocks
         PROVE  /\ w[n].key = IF n = item THEN key ELSE m[n].key
                /\ w[n].forward = IF n = item THEN next ELSE IF n = p THEN item ELSE m[n].forward
                /\ w[n].backward = IF n = item THEN p ELSE IF n = next THEN item ELSE m[n].backward
    <2>1. n = item \/ n = p \/ n = next \/ (n # item /\ n # p /\ n # next)
      OBVIOUS
    <2> QED
      BY <1>0, <1>1, <1>5, <1>6, <1>7, <1>8, <2>1
  <1> QED
    BY <1>11, <1>12 DEF p, next, FieldsInserted

\* insque after the last smaller key makes a chain of a chain.
LEMMA InsertChain ==
    ASSUME NEW m, NEW c, IsChain(m, c), NEW key \in Keys, NEW j, Below(m, c, key, j),
           \A i \in 1..Len(c) : m[c[i]].key # key,
           NEW item \in Blocks, \A i \in 0..Len(c) : item # At(c, i)
    PROVE  /\ IsChain(Inserting(m, key, item, At(c, j)), Inserted(c, j, item))
           /\ KeySet(Inserting(m, key, item, At(c, j)), Inserted(c, j, item)) = KeySet(m, c) \cup {key}
  <1> DEFINE w == Inserting(m, key, item, At(c, j))
             d == Inserted(c, j, item)
  <1>0. Len(c) \in Nat /\ j \in 0..Len(c) /\ key \in Int /\ c \in Seq(Blocks) /\ (\A k \in Keys : k \in Int)
    BY ElemAssumption DEF Below, IsChain
  <1>1. /\ w \in [Blocks -> Block]
        /\ \A n \in Blocks :
             /\ w[n].key = IF n = item THEN key ELSE m[n].key
             /\ w[n].forward = IF n = item THEN m[At(c, j)].forward
                               ELSE IF n = At(c, j) THEN item ELSE m[n].forward
             /\ w[n].backward = IF n = item THEN At(c, j)
                                ELSE IF n = m[At(c, j)].forward THEN item ELSE m[n].backward
    <2> HIDE DEF d
    <2>1. w = Inserting(m, key, item, At(c, j))
      OBVIOUS
    <2> HIDE DEF w
    <2>2. j \in 0..Len(c) /\ key \in Int
      BY <1>0
    <2>3. FieldsInserted(m, key, item, At(c, j), w)
      BY <2>1, <2>2, InsqueFields
    <2> QED
      BY <2>3 DEF FieldsInserted
  <1>2. d \in Seq(Blocks) /\ Len(d) = Len(c) + 1
    <2>1. \A i \in 1..(Len(c) + 1) : (i > j /\ i # j + 1) => i - 1 \in 1..Len(c)
      BY <1>0
    <2>2. \A i \in 1..(Len(c) + 1) : i <= j => i \in 1..Len(c)
      BY <1>0
    <2>3. \A i \in 1..Len(c) : c[i] \in Blocks
      BY ChainTypes
    <2>4. \A i \in 1..(Len(c) + 1) : i <= j \/ i = j + 1 \/ (i > j /\ i # j + 1)
      BY <1>0
    <2>5. \A i \in 1..(Len(c) + 1) : (IF i <= j THEN c[i] ELSE IF i = j + 1 THEN item ELSE c[i - 1]) \in Blocks
      BY <1>0, <2>1, <2>2, <2>3, <2>4
    <2> QED
      BY <1>0, <2>5 DEF Inserted
  <1>3. /\ \A i \in 0..j : At(d, i) = At(c, i)
        /\ At(d, j + 1) = item /\ d[j + 1] = item
        /\ \A i \in (j + 2)..(Len(c) + 1) : At(d, i) = At(c, i - 1) /\ i - 1 \in (j + 1)..Len(c)
        /\ \A i \in 1..(Len(c) + 1) : At(d, i) = d[i]
    <2>1. \A i \in 0..j : i <= j /\ i \in 0..Len(c) /\ (i # 0 => i \in 1..(Len(c) + 1))
      BY <1>0
    <2>2. j + 1 \in 1..(Len(c) + 1) /\ ~(j + 1 <= j) /\ j + 1 # 0
      BY <1>0
    <2>3. \A i \in (j + 2)..(Len(c) + 1) : /\ i \in 1..(Len(c) + 1) /\ i # 0 /\ i - 1 # 0
                                           /\ ~(i <= j) /\ i # j + 1 /\ i - 1 \in (j + 1)..Len(c)
      BY <1>0
    <2> QED
      BY <2>1, <2>2, <2>3 DEF Inserted, At
  <1> HIDE DEF w, d
  <1>4. /\ \A i \in 0..Len(c) : At(c, i) \in Blocks /\ At(c, i) # item
        /\ \A i \in 1..Len(c) : c[i] # ROOT /\ At(c, i) = c[i]
        /\ At(c, 0) = ROOT
    BY ChainTypes
  <1>5. \A i \in 1..Len(c) : /\ m[At(c, i - 1)].forward = At(c, i)
                             /\ m[At(c, i)].backward = At(c, i - 1)
                             /\ m[At(c, i)].key \in Keys /\ m[At(c, i)].key # key
    BY <1>4 DEF IsChain, LinkedAlong, SortedAlong
  <1>6. m[At(c, Len(c))].forward = NULL
    BY DEF IsChain, LinkedAlong
  <1>7. \A i, k \in 0..Len(c) : At(c, i) = At(c, k) => i = k
    BY ChainOnce
  <1>8. ASSUME NEW i \in 1..Len(d)
        PROVE  /\ d[i] # ROOT
               /\ w[At(d, i - 1)].forward = d[i]
               /\ w[d[i]].backward = At(d, i - 1)
    <2>0. i \in 1..j \/ i = j + 1 \/ i = j + 2 \/ i \in (j + 3)..(Len(c) + 1)
      BY <1>0, <1>2
    <2>1. CASE i \in 1..j
      <3>1. i \in 0..j /\ i - 1 \in 0..j /\ i \in 1..Len(c) /\ i - 1 \in 0..Len(c) /\ i - 1 # j
        BY <1>0, <2>1
      <3>2. d[i] = At(c, i) /\ At(d, i - 1) = At(c, i - 1)
        BY <1>2, <1>3, <3>1
      <3>3. At(c, i - 1) # At(c, j) /\ At(c, i) # m[At(c, j)].forward
        <4>1. At(c, i - 1) # At(c, j)
          BY <1>0, <1>7, <3>1
        <4>2. CASE j = Len(c)
          <5>1. m[At(c, j)].forward = NULL
            BY <1>6, <4>2
          <5>2. At(c, i) \in Blocks
            BY <1>0, <1>4, <3>1
          <5> QED
            BY <4>1, <5>1, <5>2, ElemAssumption
        <4>3. CASE j # Len(c)
          <5>1. j + 1 \in 1..Len(c) /\ (j + 1) - 1 = j /\ j + 1 # i /\ j + 1 \in 0..Len(c) /\ i \in 0..Len(c)
            BY <1>0, <4>3, <3>1
          <5>2. m[At(c, j)].forward = At(c, j + 1)
            BY <1>5, <5>1
          <5>3. At(c, i) # At(c, j + 1)
            BY <1>7, <5>1
          <5> QED
            BY <4>1, <5>2, <5>3
        <4> QED
          BY <4>1, <4>2, <4>3
      <3> QED
        BY <1>1, <1>4, <1>5, <3>1, <3>2, <3>3
    <2>2. CASE i = j + 1
      <3>1. d[i] = item /\ At(d, i - 1) = At(c, j)
        BY <1>0, <1>3, <2>2
      <3>2. item # ROOT /\ At(c, j) \in Blocks /\ At(c, j) # item
        BY <1>0, <1>4
      <3>3. w[At(c, j)].forward = item /\ w[item].backward = At(c, j)
        BY <1>1, <3>2
      <3> QED
        BY <3>1, <3>2, <3>3
    <2>3. CASE i = j + 2
      <3>1. j + 1 \in 1..Len(c) /\ (j + 1) - 1 = j /\ i - 1 = j + 1 /\ i \in (j + 2)..(Len(c) + 1) /\ j + 1 \in 0..Len(c)
        BY <1>0, <1>2, <2>3
      <3>2. d[i] = At(c, j + 1) /\ At(d, i - 1) = item
        BY <1>2, <1>3, <3>1
      <3>3. m[At(c, j)].forward = At(c, j + 1)
        BY <1>5, <3>1
      <3>4. At(c, j + 1) # ROOT /\ At(c, j + 1) \in Blocks /\ At(c, j + 1) # item
        BY <1>4, <3>1
      <3>5. w[item].forward = At(c, j + 1) /\ w[At(c, j + 1)].backward = item
        BY <1>1, <3>3, <3>4
      <3> QED
        BY <3>2, <3>4, <3>5
    <2>4. CASE i \in (j + 3)..(Len(c) + 1)
      <3>1. /\ i \in (j + 2)..(Len(c) + 1) /\ i - 1 \in (j + 2)..(Len(c) + 1) /\ i - 1 \in 1..Len(c)
            /\ (i - 1) - 1 \in 1..Len(c) /\ (i - 1) - 1 # j /\ j + 1 \in 1..Len(c) /\ (j + 1) - 1 = j /\ i - 1 # j + 1
            /\ (i - 1) - 1 \in 0..Len(c) /\ i - 1 \in 0..Len(c) /\ j + 1 \in 0..Len(c)
        BY <1>0, <2>4
      <3>2. d[i] = At(c, i - 1) /\ At(d, i - 1) = At(c, (i - 1) - 1)
        BY <1>2, <1>3, <3>1
      <3>3. At(c, (i - 1) - 1) # At(c, j) /\ At(c, i - 1) # m[At(c, j)].forward
        BY <1>0, <1>5, <1>7, <3>1
      <3>4. /\ At(c, i - 1) # ROOT /\ At(c, i - 1) \in Blocks /\ At(c, i - 1) # item
            /\ At(c, (i - 1) - 1) \in Blocks /\ At(c, (i - 1) - 1) # item
        BY <1>4, <3>1
      <3>5. m[At(c, (i - 1) - 1)].forward = At(c, i - 1) /\ m[At(c, i - 1)].backward = At(c, (i - 1) - 1)
        BY <1>5, <3>1
      <3>6. w[At(c, (i - 1) - 1)].forward = At(c, i - 1) /\ w[At(c, i - 1)].backward = At(c, (i - 1) - 1)
        BY <1>1, <3>3, <3>4, <3>5
      <3> QED
        BY <3>2, <3>4, <3>6
    <2> QED
      BY <2>0, <2>1, <2>2, <2>3, <2>4
  <1>9. w[At(d, Len(d))].forward = NULL
    <2>1. CASE j = Len(c)
      BY <1>1, <1>2, <1>3, <1>6, <2>1
    <2>2. CASE j # Len(c)
      <3>1. Len(c) + 1 \in (j + 2)..(Len(c) + 1) /\ (Len(c) + 1) - 1 = Len(c) /\ Len(c) \in 0..Len(c)
        BY <1>0, <2>2
      <3>2. At(d, Len(d)) = At(c, Len(c)) /\ At(c, Len(c)) # At(c, j)
        BY <1>0, <1>2, <1>3, <1>7, <2>2, <3>1
      <3> QED
        BY <1>1, <1>4, <1>6, <3>1, <3>2
    <2> QED
      BY <2>1, <2>2
  <1>10. ASSUME NEW n \in Blocks, \A i \in 0..Len(d) : n # At(d, i)
         PROVE  w[n].forward = NULL
    <2>1. n # item
      BY <1>0, <1>2, <1>3, <1>10
    <2>2. ASSUME NEW i \in 0..Len(c) PROVE n # At(c, i)
      <3>1. i \in 0..j \/ i + 1 \in (j + 2)..(Len(c) + 1)
        BY <1>0
      <3>2. CASE i \in 0..j
        <4>1. i \in 0..Len(d)
          BY <1>0, <1>2, <3>2
        <4> QED
          BY <1>3, <1>10, <3>2, <4>1
      <3>3. CASE i + 1 \in (j + 2)..(Len(c) + 1)
        <4>1. i + 1 \in 0..Len(d) /\ (i + 1) - 1 = i
          BY <1>0, <1>2, <3>3
        <4> QED
          BY <1>3, <1>10, <3>3, <4>1
      <3> QED
        BY <3>1, <3>2, <3>3
    <2>3. n # At(c, j) /\ m[n].forward = NULL
      BY <1>0, <2>2 DEF IsChain, LinkedAlong
    <2> QED
      BY <1>1, <2>1, <2>3
  <1>11. LinkedAlong(w, d)
    BY <1>8, <1>9, <1>10 DEF LinkedAlong
  <1>12. w[ROOT].key = NoKey
    <2>1. m[ROOT].key = NoKey /\ ROOT # item /\ ROOT \in Blocks
      BY <1>0, <1>4 DEF IsChain, SortedAlong
    <2> QED
      BY <1>1, <2>1
  <1>13. /\ \A i \in 1..j : w[d[i]].key = m[c[i]].key /\ i \in 1..Len(c)
         /\ w[d[j + 1]].key = key
         /\ \A i \in (j + 2)..(Len(c) + 1) : w[d[i]].key = m[c[i - 1]].key /\ i - 1 \in 1..Len(c) /\ i - 1 \in (j + 1)..Len(c)
    <2>1. \A i \in 1..j : i \in 0..j /\ i \in 1..Len(c) /\ i \in 0..Len(c) /\ i \in 1..(Len(c) + 1)
      BY <1>0
    <2>2. \A i \in (j + 2)..(Len(c) + 1) : i - 1 \in 1..Len(c) /\ i - 1 \in 0..Len(c) /\ i \in 1..(Len(c) + 1)
      BY <1>0
    <2>3. \A i \in 1..Len(c) : w[At(c, i)].key = m[c[i]].key
      BY <1>0, <1>1, <1>4
    <2> QED
      BY <1>1, <1>3, <2>1, <2>2, <2>3
  <1>14. \A i \in 1..Len(c) : m[c[i]].key \in Keys /\ m[c[i]].key \in Int /\ m[c[i]].key # key
    BY <1>0, <1>4, <1>5
  <1>15. \A i \in 1..Len(d) : w[d[i]].key \in Keys
    <2>1. \A i \in 1..Len(d) : i \in 1..j \/ i = j + 1 \/ i \in (j + 2)..(Len(c) + 1)
      BY <1>0, <1>2
    <2> QED
      BY <1>13, <1>14, <2>1
  <1>16. ASSUME NEW i \in 1..Len(d), NEW k \in 1..Len(d), i < k
         PROVE  w[d[i]].key < w[d[k]].key
    <2>1. \/ i \in 1..j /\ k \in 1..j
          \/ i \in 1..j /\ k = j + 1
          \/ i \in 1..j /\ k \in (j + 2)..(Len(c) + 1) /\ i < k - 1
          \/ i = j + 1 /\ k \in (j + 2)..(Len(c) + 1)
          \/ i \in (j + 2)..(Len(c) + 1) /\ k \in (j + 2)..(Len(c) + 1) /\ i - 1 < k - 1
      BY <1>0, <1>2, <1>16
    <2>2. \A a, b \in 1..Len(c) : a < b => m[c[a]].key < m[c[b]].key
      BY DEF IsChain, SortedAlong
    <2>3. CASE i \in 1..j /\ k \in 1..j
      BY <1>13, <1>16, <2>2, <2>3
    <2>4. CASE i \in 1..j /\ k = j + 1
      BY <1>13, <2>4 DEF Below
    <2>5. CASE i \in 1..j /\ k \in (j + 2)..(Len(c) + 1) /\ i < k - 1
      BY <1>13, <2>2, <2>5
    <2>6. CASE i = j + 1 /\ k \in (j + 2)..(Len(c) + 1)
      <3>1. k - 1 \in (j + 1)..Len(c) /\ k - 1 \in 1..Len(c) /\ w[d[k]].key = m[c[k - 1]].key /\ w[d[i]].key = key
        BY <1>13, <2>6
      <3>2. m[c[k - 1]].key >= key /\ m[c[k - 1]].key # key /\ m[c[k - 1]].key \in Int
        BY <1>14, <3>1 DEF Below
      <3>3. key < m[c[k - 1]].key
        BY <1>0, <3>2
      <3> QED
        BY <3>1, <3>3
    <2>7. CASE i \in (j + 2)..(Len(c) + 1) /\ k \in (j + 2)..(Len(c) + 1) /\ i - 1 < k - 1
      BY <1>13, <2>2, <2>7
    <2> QED
      BY <2>1, <2>3, <2>4, <2>5, <2>6, <2>7
  <1>17. SortedAlong(w, d)
    BY <1>12, <1>15, <1>16 DEF SortedAlong
  <1>18. IsChain(w, d)
    BY <1>1, <1>2, <1>11, <1>17 DEF IsChain
  <1>19. KeySet(w, d) = KeySet(m, c) \cup {key}
    <2>1. ASSUME NEW i \in 1..Len(d) PROVE w[d[i]].key \in KeySet(m, c) \cup {key}
      <3>1. i \in 1..j \/ i = j + 1 \/ i \in (j + 2)..(Len(c) + 1)
        BY <1>0, <1>2
      <3> QED
        BY <1>13, <3>1 DEF KeySet
    <2>2. ASSUME NEW i \in 1..Len(c) PROVE m[c[i]].key \in KeySet(w, d)
      <3>1. i \in 1..j \/ i + 1 \in (j + 2)..(Len(c) + 1)
        BY <1>0
      <3>2. CASE i \in 1..j
        <4>1. i \in 1..Len(d)
          BY <1>0, <1>2, <3>2
        <4> QED
          BY <1>13, <3>2, <4>1 DEF KeySet
      <3>3. CASE i + 1 \in (j + 2)..(Len(c) + 1)
        <4>1. i + 1 \in 1..Len(d) /\ (i + 1) - 1 = i
          BY <1>0, <1>2, <3>3
        <4>2. w[d[i + 1]].key = m[c[i]].key
          BY <1>13, <3>3, <4>1
        <4> QED
          BY <4>1, <4>2 DEF KeySet
      <3> QED
        BY <3>1, <3>2, <3>3
    <2>3. j + 1 \in 1..Len(d)
      BY <1>0, <1>2
    <2>4. key \in KeySet(w, d)
      BY <1>13, <2>3 DEF KeySet
    <2> QED
      BY <2>1, <2>2, <2>4 DEF KeySet
  <1> QED
    BY <1>18, <1>19 DEF w, d

\* A chain without its j-th block.
Removed(c, j) == [i \in 1..(Len(c) - 1) |-> IF i < j THEN c[i] ELSE c[i + 1]]

\* The three fields of every block after a call of rem_element; p is before item.
FieldsRemoved(m, item, p, w) ==
    /\ w \in [Blocks -> Block]
    /\ \A n \in Blocks :
         /\ w[n].key = IF n = item THEN -1 ELSE m[n].key
         /\ w[n].forward = IF n = item THEN NULL ELSE IF n = p THEN m[item].forward ELSE m[n].forward
         /\ w[n].backward = IF n = item THEN NULL ELSE IF n = m[item].forward THEN p ELSE m[n].backward

\* remque sets the pointers on both sides, and the block is free.
LEMMA RemqueFields ==
    ASSUME NEW m, NEW c, IsChain(m, c), NEW j \in 1..Len(c),
           NEW w, w = rem_element(m, c[j])
    PROVE  FieldsRemoved(m, c[j], At(c, j - 1), w)
  <1> DEFINE item == c[j]
             p == At(c, j - 1)
             next == m[item].forward
             b == remque(m, item)
  <1>0. /\ Len(c) \in Nat /\ j \in 0..Len(c) /\ j - 1 \in 0..Len(c) /\ j - 1 # j /\ j > 0
        /\ p \in Blocks /\ item \in Blocks /\ item = At(c, j) /\ m \in [Blocks -> Block]
    BY ChainTypes DEF IsChain
  <1>1. item # p /\ m[item].backward = p
    BY <1>0, ChainOnce, ChainLinks
  <1>2. next # item /\ next # p
    <2>1. CASE j < Len(c)
      <3>1. next = At(c, j + 1) /\ j + 1 \in 0..Len(c) /\ j + 1 # j /\ j + 1 # j - 1
        BY <2>1, <1>0, ChainLinks
      <3> QED
        BY <1>0, <3>1, ChainOnce
    <2>2. CASE j = Len(c)
      BY <2>2, ChainLinks, ElemAssumption, <1>0
    <2> QED
      BY <1>0, <2>1, <2>2
  <1>3. next \in Blocks \cup {NULL}
    BY <1>0 DEF Block
  <1>a. w = [b EXCEPT ![item] = FREE]
    BY DEF rem_element
  <1> HIDE DEF p, item
  <1>4. /\ \A n \in Blocks : b[n] = CASE n = p -> WithForward(m[n], next)
                                      [] n = next -> WithBackward(m[n], p)
                                      [] OTHER -> m[n]
        /\ b = [n \in Blocks |-> b[n]]
    BY <1>1 DEF remque, WithForward, WithBackward
  <1> HIDE DEF b, next
  <1>5. w = [n \in Blocks |-> IF n = item THEN FREE ELSE b[n]]
    BY <1>4, <1>a
  <1>6. \A n \in Blocks : w[n] = IF n = item THEN FREE ELSE b[n]
    BY <1>5
  <1>7. w[item] = [key |-> -1, forward |-> NULL, backward |-> NULL]
    BY <1>0, <1>6 DEF FREE
  <1>8. w[p] = [key |-> m[p].key, forward |-> next, backward |-> m[p].backward]
    <2>1. w[p] = WithForward(m[p], next)
      BY <1>0, <1>1, <1>2, <1>4, <1>6
    <2>2. m[p] \in Block
      BY <1>0
    <2> QED
      BY <2>1, <2>2, FieldFacts
  <1>9. ASSUME next \in Blocks
        PROVE  w[next] = [key |-> m[next].key, forward |-> m[next].forward, backward |-> p]
    <2>1. w[next] = WithBackward(m[next], p)
      BY <1>0, <1>1, <1>2, <1>4, <1>6, <1>9
    <2>2. m[next] \in Block
      BY <1>0, <1>9
    <2> QED
      BY <2>1, <2>2, FieldFacts
  <1>10. \A n \in Blocks : n # item /\ n # p /\ n # next => w[n] = m[n]
    BY <1>4, <1>6
  <1>11. \A n \in Blocks : /\ m[n].key \in Int /\ m[n].forward \in Blocks \cup {NULL}
                           /\ m[n].backward \in Blocks \cup {NULL} /\ m[n] \in Block
    BY <1>0 DEF Block
  <1>12. \A n \in Blocks : w[n] \in Block
    BY <1>0, <1>3, <1>7, <1>8, <1>9, <1>10, <1>11 DEF Block
  <1>13. w \in [Blocks -> Block]
    <2>1. w = [n \in Blocks |-> w[n]]
      BY <1>5
    <2> QED
      BY <1>12, <2>1
  <1>14. ASSUME NEW n \in Blocks
         PROVE  /\ w[n].key = IF n = item THEN -1 ELSE m[n].key
                /\ w[n].forward = IF n = item THEN NULL ELSE IF n = p THEN next ELSE m[n].forward
                /\ w[n].backward = IF n = item THEN NULL ELSE IF n = next THEN p ELSE m[n].backward
    <2>1. n = item \/ n = p \/ n = next \/ (n # item /\ n # p /\ n # next)
      OBVIOUS
    <2> QED
      BY <1>0, <1>1, <1>2, <1>7, <1>8, <1>9, <1>10, <2>1
  <1> QED
    BY <1>13, <1>14 DEF p, next, item, FieldsRemoved

\* d is the chain of w, and that is the chain c of m without its j-th block.
ChainWithout(m, c, j, w, d) ==
    /\ IsChain(w, d) /\ Len(d) = Len(c) - 1
    /\ \A i \in j..(Len(c) - 1) : w[d[i]].key = m[c[i + 1]].key
    /\ KeySet(w, d) = KeySet(m, c) \ {m[c[j]].key}

\* rem_element makes a chain of a chain, and its block is no longer in it.
LEMMA RemoveChain ==
    ASSUME NEW m, NEW c, IsChain(m, c), NEW j \in 1..Len(c),
           NEW w, w = rem_element(m, c[j]), NEW d, d = Removed(c, j)
    PROVE  ChainWithout(m, c, j, w, d)
  <1>0. Len(c) \in Nat /\ j \in 0..Len(c) /\ j - 1 \in 0..Len(c) /\ c \in Seq(Blocks) /\ Len(c) - 1 \in Nat
    BY DEF IsChain
  <1>1. /\ w \in [Blocks -> Block]
        /\ \A n \in Blocks :
             /\ w[n].key = IF n = c[j] THEN -1 ELSE m[n].key
             /\ w[n].forward = IF n = c[j] THEN NULL
                               ELSE IF n = At(c, j - 1) THEN m[c[j]].forward ELSE m[n].forward
             /\ w[n].backward = IF n = c[j] THEN NULL
                                ELSE IF n = m[c[j]].forward THEN At(c, j - 1) ELSE m[n].backward
    BY RemqueFields DEF FieldsRemoved
  <1>2. d \in Seq(Blocks) /\ Len(d) = Len(c) - 1
    <2>1. \A i \in 1..(Len(c) - 1) : i \in 1..Len(c) /\ i + 1 \in 1..Len(c)
      BY <1>0
    <2>2. \A i \in 1..Len(c) : c[i] \in Blocks
      BY ChainTypes
    <2>3. \A i \in 1..(Len(c) - 1) : (IF i < j THEN c[i] ELSE c[i + 1]) \in Blocks
      BY <2>1, <2>2
    <2> QED
      BY <1>0, <2>3 DEF Removed
  <1>3. /\ \A i \in 0..(j - 1) : At(d, i) = At(c, i)
        /\ \A i \in j..(Len(c) - 1) : At(d, i) = At(c, i + 1)
        /\ \A i \in 1..(Len(c) - 1) : At(d, i) = d[i]
    <2>1. \A i \in 0..(j - 1) : i < j /\ i \in 0..Len(c) /\ (i # 0 => i \in 1..(Len(c) - 1))
      BY <1>0
    <2>2. \A i \in j..(Len(c) - 1) : /\ i \in 1..(Len(c) - 1) /\ i # 0 /\ i + 1 # 0 /\ ~(i < j)
      BY <1>0
    <2> QED
      BY <2>1, <2>2 DEF Removed, At
  <1>4. /\ \A i \in 0..Len(c) : At(c, i) \in Blocks
        /\ \A i \in 1..Len(c) : c[i] # ROOT /\ At(c, i) = c[i]
        /\ At(c, 0) = ROOT
    BY ChainTypes
  <1>5. \A i \in 1..Len(c) : /\ m[At(c, i - 1)].forward = At(c, i)
                             /\ m[At(c, i)].backward = At(c, i - 1)
                             /\ m[At(c, i)].key \in Keys
    BY <1>4 DEF IsChain, LinkedAlong, SortedAlong
  <1>6. m[At(c, Len(c))].forward = NULL
    BY DEF IsChain, LinkedAlong
  <1>7. \A i, k \in 0..Len(c) : At(c, i) = At(c, k) => i = k
    BY ChainOnce
  \* What follows the block that goes.
  <1>8. c[j] = At(c, j) /\ (j < Len(c) => m[c[j]].forward = At(c, j + 1)) /\ (j = Len(c) => m[c[j]].forward = NULL)
    BY <1>0, <1>4, ChainLinks
  <1>9. ASSUME NEW i \in 1..Len(d)
        PROVE  /\ d[i] # ROOT
               /\ w[At(d, i - 1)].forward = d[i]
               /\ w[d[i]].backward = At(d, i - 1)
    <2>0. i \in 1..(j - 1) \/ i = j \/ i \in (j + 1)..(Len(c) - 1)
      BY <1>0, <1>2
    <2>1. CASE i \in 1..(j - 1)
      <3>1. /\ i \in 0..(j - 1) /\ i - 1 \in 0..(j - 1) /\ i \in 1..Len(c) /\ i \in 0..Len(c)
            /\ i - 1 \in 0..Len(c) /\ i - 1 # j - 1 /\ i # j /\ i - 1 # j /\ i # j + 1 /\ i \in 1..(Len(c) - 1)
        BY <1>0, <2>1
      <3>2. d[i] = At(c, i) /\ At(d, i - 1) = At(c, i - 1)
        BY <1>3, <3>1
      <3>3. At(c, i - 1) # At(c, j - 1) /\ At(c, i) # c[j] /\ At(c, i - 1) # c[j]
        BY <1>0, <1>7, <1>8, <3>1
      <3>4. At(c, i) # m[c[j]].forward
        <4>1. CASE j = Len(c)
          BY <1>4, <1>8, <3>1, <4>1, ElemAssumption
        <4>2. CASE j # Len(c)
          <5>1. j < Len(c) /\ j + 1 \in 0..Len(c)
            BY <1>0, <4>2
          <5> QED
            BY <1>7, <1>8, <3>1, <5>1
        <4> QED
          BY <4>1, <4>2
      <3>5. /\ At(c, i) \in Blocks /\ At(c, i - 1) \in Blocks /\ At(c, i) # ROOT
            /\ m[At(c, i - 1)].forward = At(c, i) /\ m[At(c, i)].backward = At(c, i - 1)
        BY <1>4, <1>5, <3>1
      <3>6. w[At(c, i - 1)].forward = At(c, i) /\ w[At(c, i)].backward = At(c, i - 1)
        BY <1>1, <3>3, <3>4, <3>5
      <3> QED
        BY <3>2, <3>5, <3>6
    <2>2. CASE i = j
      <3>1. /\ j < Len(c) /\ j + 1 \in 0..Len(c) /\ j + 1 \in 1..Len(c) /\ j \in j..(Len(c) - 1)
            /\ j - 1 \in 0..(j - 1) /\ j - 1 # j /\ j + 1 # j /\ j \in 1..(Len(c) - 1)
        BY <1>0, <1>2, <2>2
      <3>2. d[i] = At(c, j + 1) /\ At(d, i - 1) = At(c, j - 1)
        BY <1>3, <2>2, <3>1
      <3>3. /\ At(c, j - 1) # c[j] /\ At(c, j + 1) # c[j] /\ At(c, j + 1) \in Blocks /\ At(c, j - 1) \in Blocks
            /\ m[c[j]].forward = At(c, j + 1) /\ At(c, j + 1) # ROOT
        BY <1>0, <1>4, <1>7, <1>8, <3>1
      <3>4. w[At(c, j - 1)].forward = At(c, j + 1) /\ w[At(c, j + 1)].backward = At(c, j - 1)
        BY <1>1, <3>3
      <3> QED
        BY <3>2, <3>3, <3>4
    <2>3. CASE i \in (j + 1)..(Len(c) - 1)
      <3>1. /\ i \in j..(Len(c) - 1) /\ i - 1 \in j..(Len(c) - 1) /\ (i - 1) + 1 = i /\ (i + 1) - 1 = i
            /\ i \in 1..(Len(c) - 1) /\ i \in 0..Len(c) /\ i + 1 \in 1..Len(c) /\ i + 1 \in 0..Len(c)
            /\ i # j /\ i + 1 # j /\ i # j - 1 /\ i + 1 # j + 1 /\ j < Len(c) /\ j + 1 \in 0..Len(c)
        BY <1>0, <2>3
      <3>2. d[i] = At(c, i + 1) /\ At(d, i - 1) = At(c, i)
        BY <1>3, <3>1
      <3>3. /\ At(c, i) # At(c, j - 1) /\ At(c, i) # c[j] /\ At(c, i + 1) # c[j]
            /\ At(c, i + 1) # At(c, j + 1)
        BY <1>0, <1>7, <1>8, <3>1
      <3>4. At(c, i + 1) # m[c[j]].forward
        BY <1>8, <3>1, <3>3
      <3>5. /\ At(c, i) \in Blocks /\ At(c, i + 1) \in Blocks /\ At(c, i + 1) # ROOT
        BY <1>4, <3>1
      <3>6. m[At(c, i)].forward = At(c, i + 1) /\ m[At(c, i + 1)].backward = At(c, i)
        BY <1>5, <3>1
      <3>7. w[At(c, i)].forward = At(c, i + 1) /\ w[At(c, i + 1)].backward = At(c, i)
        BY <1>1, <3>3, <3>4, <3>5, <3>6
      <3> QED
        BY <3>2, <3>5, <3>7
    <2> QED
      BY <2>0, <2>1, <2>2, <2>3
  <1>10. w[At(d, Len(d))].forward = NULL
    <2>1. CASE j = Len(c)
      <3>1. At(d, Len(d)) = At(c, j - 1) /\ j - 1 # j
        BY <1>0, <1>2, <1>3, <2>1
      <3>2. At(c, j - 1) # c[j] /\ At(c, j - 1) \in Blocks
        BY <1>0, <1>4, <1>7, <1>8, <3>1
      <3> QED
        BY <1>1, <1>8, <2>1, <3>1, <3>2
    <2>2. CASE j # Len(c)
      <3>1. Len(c) - 1 \in j..(Len(c) - 1) /\ (Len(c) - 1) + 1 = Len(c) /\ Len(c) \in 0..Len(c) /\ Len(c) # j - 1
        BY <1>0, <2>2
      <3>2. At(d, Len(d)) = At(c, Len(c)) /\ At(c, Len(c)) # At(c, j - 1) /\ At(c, Len(c)) # c[j] /\ At(c, Len(c)) \in Blocks
        BY <1>0, <1>2, <1>3, <1>4, <1>7, <1>8, <2>2, <3>1
      <3> QED
        BY <1>1, <1>6, <3>2
    <2> QED
      BY <2>1, <2>2
  <1>11. ASSUME NEW n \in Blocks, \A i \in 0..Len(d) : n # At(d, i)
         PROVE  w[n].forward = NULL
    <2>1. CASE n = c[j]
      BY <1>1, <2>1
    <2>2. CASE n # c[j]
      <3>1. ASSUME NEW i \in 0..Len(c) PROVE n # At(c, i)
        <4>1. i \in 0..(j - 1) \/ i = j \/ i - 1 \in j..(Len(c) - 1)
          BY <1>0
        <4>2. CASE i \in 0..(j - 1)
          <5>1. i \in 0..Len(d)
            BY <1>0, <1>2, <4>2
          <5> QED
            BY <1>3, <1>11, <4>2, <5>1
        <4>3. CASE i = j
          BY <1>8, <2>2, <4>3
        <4>4. CASE i - 1 \in j..(Len(c) - 1)
          <5>1. i - 1 \in 0..Len(d) /\ (i - 1) + 1 = i
            BY <1>0, <1>2, <4>4
          <5> QED
            BY <1>3, <1>11, <4>4, <5>1
        <4> QED
          BY <4>1, <4>2, <4>3, <4>4
      <3>2. n # At(c, j - 1) /\ m[n].forward = NULL
        BY <1>0, <3>1 DEF IsChain, LinkedAlong
      <3> QED
        BY <1>1, <2>2, <3>2
    <2> QED
      BY <2>1, <2>2
  <1>12. LinkedAlong(w, d)
    BY <1>9, <1>10, <1>11 DEF LinkedAlong
  <1>13. w[ROOT].key = NoKey
    <2>1. m[ROOT].key = NoKey /\ ROOT # c[j] /\ ROOT \in Blocks
      BY <1>4, ElemAssumption DEF IsChain, SortedAlong
    <2> QED
      BY <1>1, <2>1
  <1>14. \A i \in 1..Len(c) : i # j => w[c[i]].key = m[c[i]].key
    <2> SUFFICES ASSUME NEW i \in 1..Len(c), i # j PROVE w[c[i]].key = m[c[i]].key
      OBVIOUS
    <2>1. i \in 0..Len(c) /\ c[i] = At(c, i) /\ c[i] \in Blocks
      BY <1>0, <1>4
    <2>2. c[i] # c[j]
      BY <1>0, <1>7, <1>8, <2>1
    <2> QED
      BY <1>1, <2>1, <2>2
  <1>15. \A i \in 1..Len(d) : LET k == IF i < j THEN i ELSE i + 1
                              IN  w[d[i]].key = m[c[k]].key /\ k \in 1..Len(c)
    <2> SUFFICES ASSUME NEW i \in 1..Len(d), NEW k, k = IF i < j THEN i ELSE i + 1
                 PROVE  w[d[i]].key = m[c[k]].key /\ k \in 1..Len(c)
      OBVIOUS
    <2>1. (i < j /\ k = i) \/ (~(i < j) /\ k = i + 1)
      OBVIOUS
    <2>2. k \in 1..Len(c) /\ k # j /\ ((i < j /\ i \in 0..(j - 1)) \/ (~(i < j) /\ i \in j..(Len(c) - 1))) /\ i \in 1..(Len(c) - 1)
      BY <1>0, <1>2, <2>1
    <2>3. d[i] = At(c, k)
      BY <1>3, <2>1, <2>2
    <2> QED
      BY <1>4, <1>14, <2>2, <2>3
  <1>16. \A i \in 1..Len(d) : w[d[i]].key \in Keys
    <2> SUFFICES ASSUME NEW i \in 1..Len(d) PROVE w[d[i]].key \in Keys
      OBVIOUS
    <2>1. PICK k \in 1..Len(c) : w[d[i]].key = m[c[k]].key
      BY <1>15
    <2>2. m[c[k]].key \in Keys
      BY <1>4, <1>5
    <2> QED
      BY <2>1, <2>2
  <1>17. ASSUME NEW i \in 1..Len(d), NEW k \in 1..Len(d), i < k
         PROVE  w[d[i]].key < w[d[k]].key
    <2> DEFINE a == IF i < j THEN i ELSE i + 1
               b == IF k < j THEN k ELSE k + 1
    <2>1. a < b
      BY <1>0, <1>2, <1>17
    <2>2. a \in 1..Len(c) /\ b \in 1..Len(c) /\ w[d[i]].key = m[c[a]].key /\ w[d[k]].key = m[c[b]].key
      BY <1>15
    <2> HIDE DEF a, b
    <2> QED
      BY <2>1, <2>2 DEF IsChain, SortedAlong
  <1>18. SortedAlong(w, d)
    BY <1>13, <1>16, <1>17 DEF SortedAlong
  <1>19. IsChain(w, d)
    BY <1>1, <1>2, <1>12, <1>18 DEF IsChain
  <1>20. KeySet(w, d) = KeySet(m, c) \ {m[c[j]].key}
    <2>1. ASSUME NEW i \in 1..Len(c), i # j PROVE m[c[i]].key # m[c[j]].key
      <3>1. i < j \/ j < i
        BY <1>0, <2>1
      <3>2. m[c[i]].key \in Int /\ m[c[j]].key \in Int
        <4>1. \A k \in Keys : k \in Int
          BY ElemAssumption
        <4> QED
          BY <1>4, <1>5, <4>1
      <3> QED
        BY <3>1, <3>2 DEF IsChain, SortedAlong
    <2>2. ASSUME NEW i \in 1..Len(d) PROVE w[d[i]].key \in KeySet(m, c) \ {m[c[j]].key}
      <3>1. PICK k : k = IF i < j THEN i ELSE i + 1
        OBVIOUS
      <3>2. k # j
        BY <1>0, <1>2, <3>1
      <3>3. w[d[i]].key = m[c[k]].key /\ k \in 1..Len(c)
        BY <1>15, <3>1
      <3> QED
        BY <2>1, <3>2, <3>3 DEF KeySet
    <2>3. ASSUME NEW i \in 1..Len(c), i # j PROVE m[c[i]].key \in KeySet(w, d)
      <3>1. PICK k \in 1..Len(d) : i = IF k < j THEN k ELSE k + 1
        <4>1. CASE i < j
          <5>1. i \in 1..Len(d)
            BY <1>0, <1>2, <4>1
          <5> QED
            BY <4>1, <5>1
        <4>2. CASE ~(i < j)
          <5>1. i - 1 \in 1..Len(d) /\ ~(i - 1 < j) /\ (i - 1) + 1 = i
            BY <1>0, <1>2, <2>3, <4>2
          <5> QED
            BY <5>1
        <4> QED
          BY <4>1, <4>2
      <3>2. w[d[k]].key = m[c[i]].key
        BY <1>15, <3>1
      <3> QED
        BY <3>2 DEF KeySet
    <2>4. KeySet(w, d) \subseteq KeySet(m, c) \ {m[c[j]].key}
      <3> SUFFICES ASSUME NEW i \in 1..Len(d) PROVE w[d[i]].key \in KeySet(m, c) \ {m[c[j]].key}
        BY DEF KeySet
      <3> QED
        BY <2>2
    <2>5. ASSUME NEW e \in KeySet(m, c) \ {m[c[j]].key} PROVE e \in KeySet(w, d)
      <3>1. PICK i \in 1..Len(c) : e = m[c[i]].key
        BY DEF KeySet
      <3> QED
        BY <2>3, <3>1
    <2> QED
      BY <2>4, <2>5
  <1>21. \A i \in j..(Len(c) - 1) : w[d[i]].key = m[c[i + 1]].key
    <2>1. \A i \in j..(Len(c) - 1) : i \in 1..Len(d) /\ ~(i < j)
      BY <1>0, <1>2
    <2> QED
      BY <1>15, <2>1
  <1> QED
    BY <1>2, <1>19, <1>20, <1>21 DEF ChainWithout

\* A block that is not in the chain may get a key: what add_element leaves when
\* it refuses an element.
LEMMA LostBlock ==
    ASSUME NEW m, NEW c, IsChain(m, c), NEW key \in Keys,
           NEW item \in Blocks, \A i \in 0..Len(c) : item # At(c, i),
           NEW w, w = [m EXCEPT ![item].key = key]
    PROVE  IsChain(w, c) /\ KeySet(w, c) = KeySet(m, c)
  <1>0. /\ Len(c) \in Nat /\ key \in Int /\ m \in [Blocks -> Block]
        /\ \A i \in 0..Len(c) : At(c, i) \in Blocks
        /\ \A i \in 1..Len(c) : At(c, i) = c[i] /\ i \in 0..Len(c) /\ i - 1 \in 0..Len(c)
        /\ At(c, 0) = ROOT /\ ROOT # item
    BY ChainTypes, ElemAssumption DEF IsChain
  <1>1. w \in [Blocks -> Block] /\ \A n \in Blocks : n # item => w[n] = m[n]
    BY <1>0 DEF Block
  <1>2. w[item].forward = m[item].forward
    BY <1>0 DEF Block
  <1>3. \A n \in Blocks : w[n].forward = m[n].forward
    BY <1>1, <1>2
  <1>4. \A i \in 0..Len(c) : w[At(c, i)] = m[At(c, i)]
    BY <1>0, <1>1
  <1>4a. \A i \in 1..Len(c) : w[c[i]] = m[c[i]]
    BY <1>0, <1>4
  <1>4b. w[ROOT] = m[ROOT] /\ w[At(c, Len(c))] = m[At(c, Len(c))]
    BY <1>0, <1>1, <1>4, ElemAssumption
  <1>5. LinkedAlong(w, c)
    <2>1. ASSUME NEW i \in 1..Len(c)
          PROVE  c[i] # ROOT /\ w[At(c, i - 1)].forward = c[i] /\ w[c[i]].backward = At(c, i - 1)
      BY <1>0, <1>4, <1>4a DEF IsChain, LinkedAlong
    <2>2. w[At(c, Len(c))].forward = NULL
      BY <1>4b DEF IsChain, LinkedAlong
    <2>3. \A n \in Blocks : (\A i \in 0..Len(c) : n # At(c, i)) => w[n].forward = NULL
      BY <1>3 DEF IsChain, LinkedAlong
    <2> QED
      BY <2>1, <2>2, <2>3 DEF LinkedAlong
  <1>6. SortedAlong(w, c)
    BY <1>4a, <1>4b DEF IsChain, SortedAlong
  <1>7. IsChain(w, c)
    BY <1>1, <1>5, <1>6 DEF IsChain
  <1>8. KeySet(w, c) = KeySet(m, c)
    BY <1>4a DEF KeySet
  <1> QED
    BY <1>7, <1>8

-----------------------------------------------------------------------------
(* The invariant.                                                           *)

\* A walk that stands at the k-th block has called back for what was before it,
\* and what it has still to call back for is the chain from there on.
StandsAt(c, k) ==
    /\ k \in 0..Len(c) /\ walk.now = At(c, k)
    /\ k = 0 => walk.visited = <<>>
    /\ LET first == IF k = 0 THEN 1 ELSE k
       IN  /\ Len(walk.keys) = Len(walk.visited) + (Len(c) + 1 - first)
           /\ \A i \in first..Len(c) : walk.keys[Len(walk.keys) - (Len(c) - i)] = mem[c[i]].key
    /\ \A i \in 1..Len(walk.visited) : walk.keys[i] = walk.visited[i]

WalkInv(c) ==
    /\ walk = [now |-> walk.now, visited |-> walk.visited, keys |-> walk.keys]
    /\ walk.visited \in Seq(Int) /\ walk.keys \in Seq(Int)
    /\ walk.now = NULL => walk.visited = walk.keys
    /\ walk.now # NULL => \E k : StandsAt(c, k)

ElemInv == IsChain(mem, Chain(mem)) /\ WalkInv(Chain(mem))

\* The keys of the list as its users see them.
MemKeys(m) == [i \in DOMAIN Chain(m) |-> m[Chain(m)[i]].key]

\* They are the keys along the chain.
LEMMA KeysAre ==
    ASSUME NEW m, NEW c, IsChain(m, c)
    PROVE  /\ MemKeys(m) = [i \in 1..Len(c) |-> m[c[i]].key]
           /\ MemKeys(m) \in Seq(Int) /\ Len(MemKeys(m)) = Len(c)
           /\ Range(MemKeys(m)) = KeySet(m, c)
  <1>1. Chain(m) = c /\ c \in Seq(Blocks) /\ Len(c) \in Nat
    BY ChainIs DEF IsChain
  <1>2. MemKeys(m) = [i \in 1..Len(c) |-> m[c[i]].key]
    BY <1>1 DEF MemKeys
  <1>3. \A i \in 1..Len(c) : m[c[i]].key \in Int
    <2>1. \A k \in Keys : k \in Int
      BY ElemAssumption
    <2> QED
      BY <2>1 DEF IsChain, SortedAlong
  <1> DEFINE s == [i \in 1..Len(c) |-> m[c[i]].key]
  <1>4. s \in Seq(Int) /\ Len(s) = Len(c)
    BY <1>1, <1>3
  <1>5. Range(s) = KeySet(m, c)
    BY <1>1 DEF Range, KeySet
  <1> QED
    BY <1>2, <1>4, <1>5

\* get_element finds a key that is there, at a block that has it.
LEMMA FoundIs ==
    ASSUME NEW c, IsChain(mem, c), NEW key
    PROVE  /\ Found(key) # 0 => Found(key) \in 1..Len(c) /\ mem[c[Found(key)]].key = key
           /\ Found(key) = 0 <=> key \notin KeySet(mem, c)
  <1> DEFINE s == KeysOf(Chain(mem))
             I == { i \in 1..Len(s) : s[i] = key }
  <1>1. s = [i \in 1..Len(c) |-> mem[c[i]].key] /\ Len(s) = Len(c) /\ Len(c) \in Nat
    <2>1. s = MemKeys(mem)
      BY DEF KeysOf, MemKeys
    <2> HIDE DEF s
    <2> QED
      BY <2>1, KeysAre, ChainTypes
  <1>2. Found(key) = IF I # {} THEN Min(I) ELSE 0
    BY DEF Found, SelectInSeq
  <1> HIDE DEF s
  <1>3. I = { i \in 1..Len(c) : mem[c[i]].key = key }
    BY <1>1
  <1>4. I \subseteq Nat /\ 0 \notin I
    BY <1>1
  <1> HIDE DEF I
  <1>5. I # {} => Min(I) \in I
    BY <1>4, LeastMember DEF Min
  <1>6. key \in KeySet(mem, c) <=> I # {}
    BY <1>3 DEF KeySet
  <1> QED
    BY <1>2, <1>3, <1>4, <1>5, <1>6

\* No free block is in the chain.
LEMMA FreeIsOff ==
    ASSUME NEW c, IsChain(mem, c), NEW item \in Free
    PROVE  item \in Blocks /\ \A i \in 0..Len(c) : item # At(c, i)
  <1>1. mem[ROOT].key = NoKey /\ \A i \in 1..Len(c) : mem[c[i]].key \in Keys
    BY DEF IsChain, SortedAlong
  <1>2. -1 \notin Keys /\ NoKey # -1
    BY ElemAssumption DEF NoKey
  <1>3. item \in Blocks /\ mem[item].key = -1
    BY DEF Free
  <1>4. \A i \in 0..Len(c) : i = 0 \/ i \in 1..Len(c)
    BY ChainTypes
  <1> QED
    BY <1>1, <1>2, <1>3, <1>4 DEF At

\* A step from one chain to another: the set of keys it leaves is the second's.
LEMMA ChainStep ==
    ASSUME NEW c, IsChain(mem, c), NEW d, IsChain(mem', d), WalkInv(d)'
    PROVE  ElemInv' /\ Range(KeysOf(Chain(mem))) = KeySet(mem, c) /\ Range(KeysOf(Chain(mem)))' = KeySet(mem', d)
  <1>1. Chain(mem) = c /\ Chain(mem') = d
    BY ChainIs
  <1>2. KeysOf(Chain(mem)) = MemKeys(mem) /\ KeysOf(Chain(mem))' = MemKeys(mem')
    BY DEF KeysOf, MemKeys
  <1>3. Range(KeysOf(Chain(mem)))' = Range(KeysOf(Chain(mem))')
    BY DEF Range
  <1> QED
    BY <1>1, <1>2, <1>3, KeysAre DEF ElemInv

\* A walk that has ended stays as it is.
LEMMA WalkIdle ==
    ASSUME NEW c, WalkInv(c), Idle, UNCHANGED walk, NEW d
    PROVE  WalkInv(d)'
  BY DEF WalkInv, Idle

\* The list starts as a root without a successor.
LEMMA InitElem == ElemInit => ElemInv
  <1> SUFFICES ASSUME ElemInit PROVE ElemInv
    OBVIOUS
  <1>1. /\ mem \in [Blocks -> Block] /\ mem[ROOT] = [key |-> NoKey, forward |-> NULL, backward |-> NULL]
        /\ \A n \in Blocks : mem[n].forward = NULL
    BY ElemAssumption DEF ElemInit, Block, FREE, NoKey
  <1>2. << >> \in Seq(Blocks) /\ Len(<< >>) = 0 /\ At(<< >>, 0) = ROOT
    BY EmptySeq DEF At
  <1>3. LinkedAlong(mem, << >>)
    BY <1>1, <1>2, ElemAssumption DEF LinkedAlong
  <1>4. SortedAlong(mem, << >>)
    BY <1>1, <1>2 DEF SortedAlong
  <1>5. IsChain(mem, << >>)
    BY <1>1, <1>2, <1>3, <1>4 DEF IsChain
  <1>6. << >> \in Seq(Int)
    BY EmptySeq
  <1>7. WalkInv(<< >>)
    BY <1>6 DEF ElemInit, WalkInv
  <1> QED
    BY <1>5, <1>7, ChainIs DEF ElemInv

\* add_element adds its key, or finds it there and leaves the chain alone.
LEMMA AddStep ==
    ASSUME ElemInv, NEW key \in Keys, add_element(key)
    PROVE  ElemInv' /\ Abstract!Add(key)
  <1> DEFINE c == Chain(mem)
  <1>0. IsChain(mem, c) /\ WalkInv(c) /\ key \in Int /\ c \in Seq(Blocks)
    BY ElemAssumption DEF ElemInv, IsChain
  <1> HIDE DEF c
  <1>1. PICK item \in Free :
          /\ Idle
          /\ mem' = IF target(key) = NULL THEN [mem EXCEPT ![item].key = key]
                    ELSE Inserting(mem, key, item, target(key))
          /\ result' = IF target(key) = NULL THEN "exists" ELSE "added"
          /\ UNCHANGED walk
    BY DEF add_element, Inserting
  <1>2. item \in Blocks /\ \A i \in 0..Len(c) : item # At(c, i)
    BY <1>0, FreeIsOff
  <1>3. PICK j : Below(mem, c, key, j)
    BY <1>0, BelowExists
  <1>4. /\ Len(c) \in Nat /\ j \in 0..Len(c) /\ At(c, j) # NULL
        /\ \A i \in 1..Len(c) : mem[c[i]].key \in Int
    <2>1. \A k \in Keys : k \in Int
      BY ElemAssumption
    <2> QED
      BY <1>0, <1>3, <2>1, ChainTypes, ElemAssumption DEF Below, IsChain, SortedAlong
  <1>5. target(key) = IF j < Len(c) /\ mem[c[j + 1]].key = key THEN NULL ELSE At(c, j)
    BY <1>0, <1>3, TargetIs
  <1>6. key \in KeySet(mem, c) <=> j < Len(c) /\ mem[c[j + 1]].key = key
    <2>1. ASSUME j < Len(c), mem[c[j + 1]].key = key PROVE key \in KeySet(mem, c)
      <3>1. j + 1 \in 1..Len(c)
        BY <1>4, <2>1
      <3> QED
        BY <2>1, <3>1 DEF KeySet
    <2>2. ASSUME key \in KeySet(mem, c) PROVE j < Len(c) /\ mem[c[j + 1]].key = key
      <3>1. PICK i \in 1..Len(c) : mem[c[i]].key = key
        BY <2>2 DEF KeySet
      <3>2. i \in 1..j \/ i \in (j + 1)..Len(c)
        BY <1>4
      <3>3. i \notin 1..j
        BY <1>3, <1>4, <3>1 DEF Below
      <3>4. j < Len(c) /\ j + 1 \in 1..Len(c) /\ j + 1 \in (j + 1)..Len(c) /\ (i = j + 1 \/ j + 1 < i)
        BY <1>4, <3>2, <3>3
      <3>5. mem[c[j + 1]].key >= key
        BY <1>3, <3>4 DEF Below
      <3>6. j + 1 < i => mem[c[j + 1]].key < mem[c[i]].key
        BY <1>0, <3>4 DEF IsChain, SortedAlong
      <3>7. mem[c[j + 1]].key \in Int /\ mem[c[i]].key \in Int
        BY <1>4, <3>4
      <3>8. ~(j + 1 < i)
        BY <1>0, <3>1, <3>5, <3>6, <3>7
      <3> QED
        BY <3>1, <3>4, <3>8
    <2> QED
      BY <2>1, <2>2
  <1>7. \A d : WalkInv(d)'
    BY <1>0, <1>1, WalkIdle
  <1>8. CASE key \in KeySet(mem, c)
    <2>1. target(key) = NULL
      BY <1>5, <1>6, <1>8
    <2>2. mem' = [mem EXCEPT ![item].key = key] /\ result' = "exists"
      BY <1>1, <2>1
    <2>3. IsChain(mem', c) /\ KeySet(mem', c) = KeySet(mem, c)
      BY <1>0, <1>2, <2>2, LostBlock
    <2>4. /\ ElemInv' /\ Range(KeysOf(Chain(mem))) = KeySet(mem, c)
          /\ Range(KeysOf(Chain(mem)))' = KeySet(mem', c)
      BY <1>0, <1>7, <2>3, ChainStep
    <2>5. KeySet(mem, c) = KeySet(mem, c) \cup {key}
      BY <1>8
    <2> QED
      BY <1>8, <2>2, <2>3, <2>4, <2>5 DEF Abstract!Add
  <1>9. CASE key \notin KeySet(mem, c)
    <2>1. target(key) = At(c, j) /\ target(key) # NULL
      BY <1>4, <1>5, <1>6, <1>9
    <2>2. mem' = Inserting(mem, key, item, At(c, j)) /\ result' = "added"
      BY <1>1, <2>1
    <2>3. \A i \in 1..Len(c) : mem[c[i]].key # key
      BY <1>9 DEF KeySet
    <2>4. IsChain(mem', Inserted(c, j, item)) /\ KeySet(mem', Inserted(c, j, item)) = KeySet(mem, c) \cup {key}
      BY <1>0, <1>2, <1>3, <2>2, <2>3, InsertChain
    <2>5. /\ ElemInv' /\ Range(KeysOf(Chain(mem))) = KeySet(mem, c)
          /\ Range(KeysOf(Chain(mem)))' = KeySet(mem', Inserted(c, j, item))
      BY <1>0, <1>7, <2>4, ChainStep
    <2> QED
      BY <1>9, <2>2, <2>4, <2>5 DEF Abstract!Add
  <1> QED
    BY <1>8, <1>9

\* get_element changes nothing and answers by the set of keys.
LEMMA GetStep ==
    ASSUME ElemInv, NEW key \in Keys, get_element(key)
    PROVE  ElemInv' /\ Abstract!Get(key)
  <1>0. PICK c : c = Chain(mem) /\ IsChain(mem, c) /\ WalkInv(c)
    BY DEF ElemInv
  <1>1. Idle /\ mem' = mem /\ UNCHANGED walk /\ result' = IF Found(key) = 0 THEN "missing" ELSE "found"
    BY DEF get_element
  <1>2. WalkInv(c)'
    BY <1>0, <1>1, WalkIdle
  <1>3. IsChain(mem', c)
    BY <1>0, <1>1
  <1>4. ElemInv' /\ Range(KeysOf(Chain(mem))) = KeySet(mem, c) /\ Range(KeysOf(Chain(mem)))' = KeySet(mem', c)
    BY <1>0, <1>2, <1>3, ChainStep
  <1>5. Found(key) = 0 <=> key \notin KeySet(mem, c)
    BY <1>0, FoundIs
  <1> QED
    BY <1>1, <1>4, <1>5 DEF Abstract!Get

\* The caller removes the element it looked up.
LEMMA RemoveStep ==
    ASSUME ElemInv, NEW key \in Keys, RemoveFound(key)
    PROVE  ElemInv' /\ Abstract!Remove(key)
  <1>0. PICK c : c = Chain(mem) /\ IsChain(mem, c) /\ WalkInv(c)
    BY DEF ElemInv
  <1>0a. PICK j : j = Found(key)
    OBVIOUS
  <1>1. Idle /\ j # 0 /\ mem' = rem_element(mem, c[j]) /\ UNCHANGED walk /\ UNCHANGED result
    BY <1>0, <1>0a DEF RemoveFound
  <1>2. j \in 1..Len(c) /\ mem[c[j]].key = key
    BY <1>0, <1>0a, <1>1, FoundIs
  <1>3. WalkInv(Removed(c, j))'
    BY <1>0, <1>1, WalkIdle
  <1>4. IsChain(mem', Removed(c, j)) /\ KeySet(mem', Removed(c, j)) = KeySet(mem, c) \ {key}
    <2>1. IsChain(mem, c) /\ j \in 1..Len(c) /\ mem' = rem_element(mem, c[j])
      BY <1>0, <1>1, <1>2
    <2>2. PICK d : d = Removed(c, j)
      OBVIOUS
    <2>3. ChainWithout(mem, c, j, mem', d)
      BY <2>1, <2>2, RemoveChain
    <2> QED
      BY <1>2, <2>2, <2>3 DEF ChainWithout
  <1>5. /\ ElemInv' /\ Range(KeysOf(Chain(mem))) = KeySet(mem, c)
        /\ Range(KeysOf(Chain(mem)))' = KeySet(mem', Removed(c, j))
    BY <1>0, <1>3, <1>4, ChainStep
  <1>6. key \in KeySet(mem, c)
    BY <1>2 DEF KeySet
  <1> QED
    BY <1>1, <1>4, <1>5, <1>6 DEF Abstract!Remove

\* A walk begins at the root, with the whole chain before it.
LEMMA BeginStep ==
    ASSUME ElemInv, list_element
    PROVE  ElemInv' /\ Range(KeysOf(Chain(mem)))' = Range(KeysOf(Chain(mem))) /\ result' = result
  <1>0. PICK c : c = Chain(mem) /\ IsChain(mem, c) /\ WalkInv(c)
    BY DEF ElemInv
  <1>0a. PICK s : s = KeysOf(Chain(mem))
    OBVIOUS
  <1>1. mem' = mem /\ walk' = [now |-> ROOT, visited |-> <<>>, keys |-> s] /\ result' = result
    BY <1>0a DEF list_element
  <1>2. s = MemKeys(mem)
    BY <1>0a DEF KeysOf, MemKeys
  <1>3. s = [i \in 1..Len(c) |-> mem[c[i]].key] /\ s \in Seq(Int) /\ Len(s) = Len(c) /\ Len(c) \in Nat
    BY <1>0, <1>2, KeysAre, ChainTypes
  <1>4. << >> \in Seq(Int) /\ Len(<< >>) = 0
    BY EmptySeq
  <1>5. StandsAt(c, 0)'
    <2>1. \A i \in 1..Len(c) : Len(s) - (Len(c) - i) = i
      BY <1>3
    <2>2. \A i \in 1..Len(c) : s[Len(s) - (Len(c) - i)] = mem[c[i]].key
      BY <1>3, <2>1
    <2>3. 0 \in 0..Len(c) /\ Len(s) = 0 + (Len(c) + 1 - 1)
      BY <1>3
    <2>4. walk'.now = At(c, 0) /\ walk'.visited = <<>> /\ walk'.keys = s
      BY <1>1 DEF At
    <2> QED
      BY <1>1, <1>4, <2>2, <2>3, <2>4 DEF StandsAt
  <1>6. WalkInv(c)'
    <2>1. walk'.now # NULL
      BY <1>1, ElemAssumption
    <2> QED
      BY <1>1, <1>3, <1>4, <1>5, <2>1 DEF WalkInv
  <1>7. IsChain(mem', c)
    BY <1>0, <1>1
  <1>8. ElemInv' /\ Range(KeysOf(Chain(mem))) = KeySet(mem, c) /\ Range(KeysOf(Chain(mem)))' = KeySet(mem', c)
    BY <1>0, <1>6, <1>7, ChainStep
  <1> QED
    BY <1>1, <1>8

\* A callback: the walk goes on with the pointer it read before, whatever the
\* callback did to the block it stands on.
LEMMA CallbackStep ==
    ASSUME ElemInv, NEW removes \in BOOLEAN, Callback(removes)
    PROVE  /\ ElemInv' /\ result' = result
           /\ \/ Range(KeysOf(Chain(mem)))' = Range(KeysOf(Chain(mem)))
              \/ \E key \in Keys : Abstract!Remove(key)
  <1>0. PICK c : c = Chain(mem) /\ IsChain(mem, c) /\ WalkInv(c)
    BY DEF ElemInv
  <1>1. PICK now, next : now = walk.now /\ next = mem[walk.now].forward
    OBVIOUS
  <1>2. /\ now # NULL /\ result' = result
        /\ mem' = IF removes /\ now # ROOT THEN rem_element(mem, now) ELSE mem
        /\ walk' = [walk EXCEPT !.now = next, !.visited = IF now = ROOT THEN @ ELSE Append(@, mem[now].key)]
    BY <1>1 DEF Callback, Idle, list_next
  <1>3. PICK k : StandsAt(c, k)
    BY <1>0, <1>1, <1>2 DEF WalkInv
  <1>4. PICK visited, keys : /\ walk = [now |-> now, visited |-> visited, keys |-> keys]
                             /\ visited = walk.visited /\ keys = walk.keys
                             /\ visited \in Seq(Int) /\ keys \in Seq(Int)
    BY <1>0, <1>1 DEF WalkInv
  <1>5. /\ k \in 0..Len(c) /\ now = At(c, k) /\ (k = 0 => visited = <<>>)
        /\ Len(keys) = Len(visited) + (Len(c) + 1 - (IF k = 0 THEN 1 ELSE k))
        /\ \A i \in (IF k = 0 THEN 1 ELSE k)..Len(c) : keys[Len(keys) - (Len(c) - i)] = mem[c[i]].key
        /\ \A i \in 1..Len(visited) : keys[i] = visited[i]
    BY <1>1, <1>3, <1>4 DEF StandsAt
  <1>6. /\ Len(c) \in Nat /\ Len(visited) \in Nat /\ Len(keys) \in Nat
        /\ (now = ROOT <=> k = 0)
        /\ \A i \in 1..Len(c) : mem[c[i]].key \in Keys /\ mem[c[i]].key \in Int /\ At(c, i) = c[i] /\ c[i] # NULL
    <2>1. \A n \in Keys : n \in Int
      BY ElemAssumption
    <2>2. k = 0 \/ k \in 1..Len(c)
      BY <1>0, <1>5, ChainTypes
    <2>3. \A i \in 1..Len(c) : At(c, i) = c[i] /\ c[i] # ROOT /\ c[i] \in Blocks
      BY <1>0, ChainTypes
    <2>4. At(c, 0) = ROOT
      BY DEF At
    <2>5. now = ROOT <=> k = 0
      BY <1>5, <2>2, <2>3, <2>4
    <2>6. \A i \in 1..Len(c) : mem[c[i]].key \in Keys
      BY <1>0 DEF IsChain, SortedAlong
    <2>7. Len(c) \in Nat
      BY <1>0, ChainTypes
    <2>8. Len(visited) \in Nat /\ Len(keys) \in Nat
      BY <1>4
    <2>9. \A i \in 1..Len(c) : mem[c[i]].key \in Int /\ c[i] # NULL
      BY <2>1, <2>3, <2>6, ElemAssumption
    <2> QED
      BY <2>3, <2>5, <2>6, <2>7, <2>8, <2>9
  <1>7. /\ k < Len(c) => next = c[k + 1] /\ k + 1 \in 1..Len(c)
        /\ k = Len(c) => next = NULL
    BY <1>0, <1>1, <1>5, ChainLinks
  <1> DEFINE seen == IF now = ROOT THEN visited ELSE Append(visited, mem[now].key)
  <1>8. walk' = [now |-> next, visited |-> seen, keys |-> keys]
    <2>1. PICK t : t = seen
      OBVIOUS
    <2>2. walk' = [[now |-> now, visited |-> visited, keys |-> keys] EXCEPT !.now = next, !.visited = t]
      BY <1>2, <1>4, <2>1
    <2> HIDE DEF seen
    <2> QED
      BY <2>1, <2>2
  <1>9. /\ seen \in Seq(Int)
        /\ k = 0 => seen = visited /\ Len(seen) = 0
        /\ k # 0 => seen = Append(visited, mem[c[k]].key) /\ Len(seen) = Len(visited) + 1
    <2>1. CASE k = 0
      BY <1>4, <1>5, <1>6, <2>1, EmptySeq
    <2>2. CASE k # 0
      <3>1. k \in 1..Len(c) /\ now = c[k] /\ now # ROOT /\ mem[now].key \in Int
        BY <1>5, <1>6, <2>2
      <3> QED
        BY <1>4, <2>2, <3>1
    <2> QED
      BY <2>1, <2>2
  <1> HIDE DEF seen
  \* What was seen is what there was to see, so far.
  <1>10. \A i \in 1..Len(seen) : keys[i] = seen[i]
    <2>1. CASE k = 0
      BY <1>5, <1>9, <2>1
    <2>2. CASE k # 0
      <3>1. k \in k..Len(c) /\ Len(keys) - (Len(c) - k) = Len(visited) + 1
        BY <1>5, <1>6, <2>2
      <3>2. keys[Len(visited) + 1] = mem[c[k]].key
        BY <1>5, <2>2, <3>1
      <3>3. PICK e : e = mem[c[k]].key
        OBVIOUS
      <3>4. seen = Append(visited, e) /\ Len(seen) = Len(visited) + 1
        BY <1>9, <2>2, <3>3
      <3>5. \A i \in 1..Len(seen) : i \in 1..Len(visited) \/ i = Len(visited) + 1
        BY <1>6, <3>4
      <3>6. \A i \in 1..Len(visited) : seen[i] = visited[i]
        BY <1>4, <3>4
      <3>7. seen[Len(visited) + 1] = e
        BY <1>4, <3>4
      <3> QED
        BY <1>5, <3>2, <3>3, <3>5, <3>6, <3>7
    <2> QED
      BY <2>1, <2>2
  <1>11. Len(keys) = Len(seen) + (Len(c) - k) /\ k \in Nat /\ Len(seen) \in Nat
    <2>0. k \in Nat /\ Len(seen) \in Nat
      BY <1>5, <1>6, <1>9
    <2>1. CASE k = 0
      <3>1. Len(keys) = Len(visited) + (Len(c) + 1 - 1) /\ Len(visited) = 0 /\ Len(seen) = 0
        BY <1>5, <1>9, <2>1
      <3> QED
        BY <1>6, <2>0, <2>1, <3>1
    <2>2. CASE k # 0
      <3>1. Len(keys) = Len(visited) + (Len(c) + 1 - k) /\ Len(seen) = Len(visited) + 1
        BY <1>5, <1>9, <2>2
      <3> QED
        BY <1>6, <2>0, <3>1
    <2> QED
      BY <2>1, <2>2
  \* A walk that has come to the end has seen everything.
  <1>12. ASSUME NEW d, k = Len(c) PROVE WalkInv(d)'
    <2>1. next = NULL /\ Len(keys) = Len(seen)
      BY <1>6, <1>7, <1>9, <1>11, <1>12
    <2>2. seen = keys
      BY <1>4, <1>9, <1>10, <2>1, SeqEqual
    <2>3. walk'.now = NULL /\ walk'.visited = seen /\ walk'.keys = keys
      BY <1>8, <2>1
    <2> QED
      BY <1>4, <1>8, <1>9, <2>2, <2>3 DEF WalkInv
  \* Otherwise it stands at some block of the new chain.
  <1>13. ASSUME NEW d, NEW p \in 1..Len(d), Len(d) \in Nat, next = d[p], next # NULL,
                Len(d) - p = Len(c) - (k + 1), k < Len(c),
                \A i \in p..Len(d) : mem'[d[i]].key = mem[c[i + ((k + 1) - p)]].key
         PROVE  WalkInv(d)'
    <2>1. walk'.now = next /\ walk'.visited = seen /\ walk'.keys = keys
      BY <1>8
    <2>2. p # 0 /\ next = At(d, p) /\ p \in 0..Len(d)
      BY <1>13 DEF At
    <2>3. Len(keys) = Len(seen) + (Len(d) + 1 - p)
      <3>1. p \in Nat /\ Len(d) \in Nat /\ Len(c) \in Nat /\ Len(d) - p = Len(c) - (k + 1)
        BY <1>6, <1>13
      <3> QED
        BY <1>11, <3>1
    <2>4. ASSUME NEW i \in p..Len(d) PROVE keys[Len(keys) - (Len(d) - i)] = mem'[d[i]].key
      <3> DEFINE j == i + ((k + 1) - p)
      <3>1. j \in (IF k = 0 THEN 1 ELSE k)..Len(c) /\ Len(keys) - (Len(d) - i) = Len(keys) - (Len(c) - j)
        <4>1. p \in Nat /\ i \in Nat /\ p <= i /\ i <= Len(d) /\ Len(d) \in Nat /\ Len(d) - p = Len(c) - (k + 1)
          BY <1>13
        <4>2. k \in Nat /\ Len(c) \in Nat /\ Len(keys) \in Nat
          BY <1>6, <1>11
        <4>3. k + 1 <= j /\ j <= Len(c) /\ j \in Nat /\ Len(keys) - (Len(d) - i) = Len(keys) - (Len(c) - j)
          BY <4>1, <4>2
        <4> HIDE DEF j
        <4>4. (IF k = 0 THEN 1 ELSE k) \in Nat /\ (IF k = 0 THEN 1 ELSE k) <= k + 1
          BY <4>2
        <4> QED
          BY <4>2, <4>3, <4>4
      <3>2. mem'[d[i]].key = mem[c[j]].key
        BY <1>13
      <3> HIDE DEF j
      <3> QED
        BY <1>5, <3>1, <3>2
    <2>5. StandsAt(d, p)'
      BY <1>10, <2>1, <2>2, <2>3, <2>4 DEF StandsAt
    <2> QED
      BY <1>4, <1>8, <1>9, <1>13, <2>1, <2>5 DEF WalkInv
  <1>14. CASE removes /\ k # 0
    <2>1. mem' = rem_element(mem, c[k]) /\ k \in 1..Len(c)
      BY <1>2, <1>5, <1>6, <1>14
    <2>1a. PICK d : d = Removed(c, k)
      OBVIOUS
    <2>2. /\ IsChain(mem', d) /\ Len(d) = Len(c) - 1
          /\ \A i \in k..(Len(c) - 1) : mem'[d[i]].key = mem[c[i + 1]].key
          /\ KeySet(mem', d) = KeySet(mem, c) \ {mem[c[k]].key}
      <3>1. IsChain(mem, c) /\ k \in 1..Len(c) /\ mem' = rem_element(mem, c[k])
        BY <1>0, <2>1
      <3>2. ChainWithout(mem, c, k, mem', d)
        BY <2>1a, <3>1, RemoveChain
      <3> QED
        BY <3>2 DEF ChainWithout
    <2>3. ASSUME k < Len(c) PROVE WalkInv(d)'
      <3>1. k \in 1..Len(d) /\ Len(d) \in Nat /\ Len(d) - k = Len(c) - (k + 1) /\ k \in 1..(Len(c) - 1)
        BY <1>6, <2>1, <2>2, <2>3
      <3>2. d[k] = c[k + 1]
        BY <2>1a, <3>1 DEF Removed
      <3>3. next = d[k] /\ next # NULL
        BY <1>6, <1>7, <2>3, <3>2
      <3>4. ASSUME NEW i \in k..Len(d) PROVE mem'[d[i]].key = mem[c[i + ((k + 1) - k)]].key
        <4>1. i \in k..(Len(c) - 1) /\ i + ((k + 1) - k) = i + 1
          BY <1>6, <2>1, <2>2, <3>1
        <4> QED
          BY <2>1, <2>2, <4>1
      <3> QED
        BY <1>13, <2>3, <3>1, <3>3, <3>4
    <2>4. WalkInv(d)'
      <3>1. k < Len(c) \/ k = Len(c)
        BY <1>6, <2>1
      <3> QED
        BY <1>12, <2>3, <3>1
    <2>5. IsChain(mem', d)
      BY <2>1, <2>2
    <2>6. ElemInv' /\ Range(KeysOf(Chain(mem))) = KeySet(mem, c) /\ Range(KeysOf(Chain(mem)))' = KeySet(mem', d)
      BY <1>0, <2>4, <2>5, ChainStep
    <2>7. mem[c[k]].key \in Keys /\ mem[c[k]].key \in KeySet(mem, c)
      BY <1>6, <2>1 DEF KeySet
    <2>8. Abstract!Remove(mem[c[k]].key)
      BY <1>2, <2>1, <2>2, <2>6, <2>7 DEF Abstract!Remove
    <2> QED
      BY <1>2, <2>6, <2>7, <2>8
  <1>15. CASE ~(removes /\ k # 0)
    <2>1. mem' = mem
      BY <1>2, <1>6, <1>15
    <2>2. WalkInv(c)'
      <3>1. CASE k < Len(c)
        <4>1. k + 1 \in 1..Len(c) /\ next = c[k + 1] /\ next # NULL
          BY <1>6, <1>7, <3>1
        <4>2. \A i \in (k + 1)..Len(c) : i + ((k + 1) - (k + 1)) = i
          BY <1>5, <1>6
        <4>3. \A i \in (k + 1)..Len(c) : mem'[c[i]].key = mem[c[i + ((k + 1) - (k + 1))]].key
          BY <2>1, <4>2
        <4> QED
          BY <1>6, <1>13, <3>1, <4>1, <4>3
      <3>2. k < Len(c) \/ k = Len(c)
        BY <1>5, <1>6
      <3> QED
        BY <1>12, <3>1, <3>2
    <2>3. IsChain(mem', c)
      BY <1>0, <2>1
    <2>4. ElemInv' /\ Range(KeysOf(Chain(mem))) = KeySet(mem, c) /\ Range(KeysOf(Chain(mem)))' = KeySet(mem', c)
      BY <1>0, <2>2, <2>3, ChainStep
    <2> QED
      BY <1>2, <2>1, <2>4
  <1> QED
    BY <1>14, <1>15

\* Every step keeps the invariant and is a step of the set of keys, or none.
LEMMA ElemStep ==
    ASSUME ElemInv, [ElemNext]_elem_vars
    PROVE  ElemInv' /\ [Abstract!Next]_(Abstract!vars)
  <1>1. ASSUME NEW key \in Keys, add_element(key) PROVE ElemInv' /\ Abstract!Next
    BY <1>1, AddStep DEF Abstract!Next
  <1>2. ASSUME NEW key \in Keys, get_element(key) PROVE ElemInv' /\ Abstract!Next
    BY <1>2, GetStep DEF Abstract!Next
  <1>3. ASSUME NEW key \in Keys, RemoveFound(key) PROVE ElemInv' /\ Abstract!Next
    BY <1>3, RemoveStep DEF Abstract!Next
  <1>4. ASSUME list_element PROVE ElemInv' /\ UNCHANGED Abstract!vars
    BY <1>4, BeginStep DEF Abstract!vars
  <1>5. ASSUME NEW removes \in BOOLEAN, Callback(removes) PROVE ElemInv' /\ [Abstract!Next]_(Abstract!vars)
    BY <1>5, CallbackStep DEF Abstract!Next, Abstract!vars
  <1>6. ASSUME UNCHANGED elem_vars PROVE ElemInv' /\ UNCHANGED Abstract!vars
    BY <1>6 DEF elem_vars, Abstract!vars, ElemInv, WalkInv, StandsAt, KeysOf
  <1> QED
    BY <1>1, <1>2, <1>3, <1>4, <1>5, <1>6 DEF ElemNext

\* The invariant holds in every state of the list: for any keys and blocks,
\* whatever callbacks remove and whichever blocks malloc hands out again, the
\* pointers of elem.c run along one sorted chain.
THEOREM ElemInvHolds == ElemSpec => []ElemInv
  <1>1. ElemInit => ElemInv
    BY InitElem
  <1>2. ElemInv /\ [ElemNext]_elem_vars => ElemInv'
    BY ElemStep
  <1> QED
    BY <1>1, <1>2, PTL DEF ElemSpec

\* The chain is sorted, without freed blocks, and linked both ways (elem.c:41).
THEOREM ListIsLinked == ElemSpec => []Linked
  <1>1. ElemInv => Linked
    <2> SUFFICES ASSUME ElemInv PROVE Linked
      OBVIOUS
    <2>0. PICK c : c = Chain(mem) /\ IsChain(mem, c)
      BY DEF ElemInv
    <2>1. DOMAIN c = 1..Len(c) /\ Len(c) \in Nat
      BY <2>0 DEF IsChain
    <2>2. ASSUME NEW i \in 1..Len(c)
          PROVE  /\ mem[c[i]].key \in Keys
                 /\ mem[c[i]].backward = IF i = 1 THEN ROOT ELSE c[i - 1]
                 /\ i > 1 => mem[c[i - 1]].key < mem[c[i]].key
      <3>1. mem[c[i]].key \in Keys /\ mem[c[i]].backward = At(c, i - 1)
        BY <2>0 DEF IsChain, LinkedAlong, SortedAlong
      <3>2. At(c, i - 1) = IF i = 1 THEN ROOT ELSE c[i - 1]
        BY <2>1 DEF At
      <3>3. i > 1 => i - 1 \in 1..Len(c) /\ i - 1 < i
        BY <2>1
      <3> QED
        BY <2>0, <3>1, <3>2, <3>3 DEF IsChain, SortedAlong
    <2> QED
      BY <2>0, <2>1, <2>2 DEF Linked
  <1> QED
    BY <1>1, ElemInvHolds, PTL

\* list_element calls back once for each element there was (elem.c:24).
THEOREM WalkIsComplete == ElemSpec => []WalkVisitsAll
  <1>1. ElemInv => WalkVisitsAll
    BY DEF ElemInv, WalkInv, WalkVisitsAll, Idle
  <1> QED
    BY <1>1, ElemInvHolds, PTL

\* The linked list of elem.c implements a set of keys.
THEOREM ImplementsKeyedSet == ElemSpec => IsKeyedSet
  <1>1. ElemInit => Abstract!Init
    <2> SUFFICES ASSUME ElemInit PROVE Abstract!Init
      OBVIOUS
    <2>1. \A n \in Blocks : mem[n].forward = NULL
      BY DEF ElemInit, FREE
    <2>2. PICK c : IsChain(mem, c) /\ c = Chain(mem)
      BY InitElem DEF ElemInv
    <2>3. Len(c) = 0
      <3> SUFFICES ASSUME Len(c) # 0 PROVE FALSE
        OBVIOUS
      <3>1. 0 \in 0..Len(c) /\ 0 < Len(c)
        BY <2>2, ChainTypes
      <3>2. mem[At(c, 0)].forward = c[0 + 1] /\ 0 + 1 \in 1..Len(c)
        BY <2>2, <3>1, ChainLinks
      <3> QED
        BY <2>1, <2>2, <3>1, <3>2, ChainTypes, ElemAssumption
    <2>4. KeySet(mem, c) = {}
      BY <2>3 DEF KeySet
    <2>5. KeysOf(Chain(mem)) = MemKeys(mem)
      BY DEF KeysOf, MemKeys
    <2>6. Range(KeysOf(Chain(mem))) = {}
      BY <2>2, <2>4, <2>5, KeysAre
    <2> QED
      BY <2>6 DEF Abstract!Init, ElemInit
  <1>2. ElemInv /\ [ElemNext]_elem_vars => [Abstract!Next]_(Abstract!vars)
    BY ElemStep
  <1> QED
    BY <1>1, <1>2, ElemInvHolds, PTL DEF ElemSpec, IsKeyedSet, Abstract!Spec

-----------------------------------------------------------------------------
(* The socket.                                                              *)

\* A request in the socket, with its control data.
Request == [client : Clients, local : Locals, n : Nat, info : {TRUE}]

\* What the property needs: the socket holds no request from before
\* udp_fromto_init.
Inv ==
    /\ up \in 0..2
    /\ queue \in Seq(Request)
    /\ sent \in [Clients -> Nat]
    /\ RepliesFromAskedAddress

\* udp_fromto_init has been called on every socket that is bound.
LEMMA InfoBeforeBind ==
    ASSUME Inv, bound
    PROVE  udp_fromto_init
  BY DEF Inv, bound, udp_fromto_init, Done, Steps

\* The reply to a request in the socket leaves from the address it was sent to.
LEMMA ReplySource ==
    ASSUME NEW d \in Request
    PROVE  LET r == udp_recv_fromto(d)
           IN  udp_send_fromto(r.to, r.from) = [to |-> d.client, source |-> d.local]
  BY UdpAssumption DEF Request, udp_recv_fromto, udp_send_fromto

\* At start-up the socket holds nothing.
LEMMA InitInv == Init => Inv
  <1> SUFFICES ASSUME Init PROVE Inv
    OBVIOUS
  <1>1. queue \in Seq(Request)
    BY EmptySeq DEF Init
  <1> QED
    BY <1>1 DEF Init, Inv, RepliesFromAskedAddress

\* Every step keeps the invariant; only a client's datagram and a handler touch
\* the queue or the replies.
LEMMA NextInv == Inv /\ [Next]_vars => Inv'
  <1> SUFFICES ASSUME Inv, [Next]_vars PROVE Inv'
    OBVIOUS
  <1>1. CASE init_omp_server
    BY <1>1 DEF Inv, init_omp_server, Steps, RepliesFromAskedAddress
  <1>2. ASSUME NEW c \in Clients, NEW a \in Locals, ClientSends(c, a)
        PROVE  Inv'
    <2> DEFINE d == [client |-> c, local |-> a, n |-> sent[c] + 1, info |-> udp_fromto_init]
    <2>1. sent' \in [Clients -> Nat]
      BY <1>2 DEF Inv, ClientSends
    <2>2. queue' \in Seq(Request)
      <3>1. CASE bound /\ Len(queue) < MaxQueue
        <4>1. udp_fromto_init = TRUE
          BY <3>1, InfoBeforeBind DEF udp_fromto_init, Done
        <4>2. sent[c] + 1 \in Nat
          BY DEF Inv
        <4>3. d \in Request
          BY <4>1, <4>2 DEF Request
        <4>4. queue' = Append(queue, d)
          BY <1>2, <3>1 DEF ClientSends
        <4> QED
          BY <4>3, <4>4, AppendProperties DEF Inv
      <3>2. CASE ~(bound /\ Len(queue) < MaxQueue)
        BY <1>2, <3>2 DEF Inv, ClientSends
      <3> QED
        BY <3>1, <3>2
    <2> QED
      BY <1>2, <2>1, <2>2 DEF Inv, ClientSends, RepliesFromAskedAddress
  <1>3. CASE udp_server_proc
    <2> DEFINE d == Head(queue)
               r == udp_recv_fromto(d)
               out == udp_send_fromto(r.to, r.from)
    <2>1. d \in Request /\ queue' \in Seq(Request)
      BY <1>3, HeadTailProperties DEF Inv, udp_server_proc
    <2>2. out = [to |-> d.client, source |-> d.local]
      BY <2>1, ReplySource
    <2>3. RepliesFromAskedAddress'
      <3>1. \/ replies' = replies \cup {[to |-> out.to, source |-> out.source, asked |-> d]}
            \/ replies' = replies
        BY <1>3 DEF udp_server_proc
      <3> QED
        BY <2>2, <3>1 DEF Inv, RepliesFromAskedAddress
    <2> QED
      BY <1>3, <2>1, <2>3 DEF Inv, udp_server_proc
  <1>4. CASE UNCHANGED vars
    BY <1>4 DEF Inv, vars, RepliesFromAskedAddress
  <1> QED
    BY <1>1, <1>2, <1>3, <1>4 DEF Next

\* Whatever routes the kernel prefers and however early requests come, a reply
\* of udp_server_proc leaves from the address its request was sent to.
THEOREM RepliesFromAsked == Spec => []RepliesFromAskedAddress
  <1>1. Inv => RepliesFromAskedAddress
    BY DEF Inv
  <1> QED
    BY InitInv, NextInv, <1>1, PTL DEF Spec

-----------------------------------------------------------------------------
(* The merge of a reply, line by line.                                      *)

\* The types.
TypeOK ==
    /\ info \in node_info_t \cup {None}
    /\ list \in Table /\ file \in Table /\ before \in Table /\ answer \in Table
    /\ checked \subseteq Names
    /\ pc \in {"idle", "recv", "merge"}
    /\ update_count \in Nat

\* The reply of the round, as parsed, and whether the line of a name was read.
parsed == Client!Parsed(answer)
Read(n) == answer[n] # None /\ Line(answer, n) \notin lines

\* What replaced or added the entry of n so far.
Changed(n) == Read(n) /\ ~Client!Known(before, parsed, n)

\* Between two lines: the lines are lines of the reply, the names whose line
\* was read are those with a flag, their entries are merged and the others
\* are not touched yet, and the count is not zero if an entry changed.
MergeSoFar ==
    pc = "merge" =>
        /\ lines \subseteq assoc_info_reply_msg(answer)
        /\ checked = {n \in Names : Read(n)}
        /\ list = [n \in Names |-> IF Changed(n) THEN parsed[n] ELSE before[n]]
        /\ update_count > 0 <=> \E n \in Names : Changed(n)

\* The inductive invariant.
IInv == TypeOK /\ MergeSoFar

-----------------------------------------------------------------------------
(* The operators *)

\* The instance has the tables and the comparison of this module.
LEMMA SameTables ==
    /\ Client!Names = Names /\ Client!node_info_t = node_info_t
    /\ Client!Table = Table /\ Client!EmptyTable = EmptyTable
    /\ \A a, b : Client!SameAddr(a, b) <=> SameAddr(a, b)
    /\ \A e : Client!assoc_info_get_from_omp(e) = assoc_info_get_from_omp(e)
<1>1. Client!Names = Names /\ Client!node_info_t = node_info_t
      BY DEF Client!Names, Names, Client!OMP, OMP, Client!node_info_t, node_info_t,
             Client!Empty, Empty, Client!Newline, Newline
<1>2. Client!Table = Table /\ Client!EmptyTable = EmptyTable
      BY <1>1 DEF Client!Table, Table, Client!EmptyTable, EmptyTable
<1>3. \A a, b : Client!SameAddr(a, b) <=> SameAddr(a, b)
      BY DEF Client!SameAddr, SameAddr
<1>4. \A e : Client!assoc_info_get_from_omp(e) = assoc_info_get_from_omp(e)
      BY DEF Client!assoc_info_get_from_omp, assoc_info_get_from_omp, Client!Scan, Scan,
             Client!Empty, Empty, Client!Newline, Newline
<1> QED BY <1>1, <1>2, <1>3, <1>4

\* A parsed line is an entry.
LEMMA LineParsed ==
    ASSUME NEW e \in node_info_t
    PROVE  assoc_info_get_from_omp(e) \in node_info_t
BY DEF node_info_t, assoc_info_get_from_omp, Scan

\* The parsed reply, name by name.
LEMMA ParsedLine ==
    ASSUME NEW reply \in Table, NEW n \in Names
    PROVE  Client!Parsed(reply)[n] = IF reply[n] = None THEN None
                                     ELSE assoc_info_get_from_omp(reply[n])
BY SameTables DEF Client!Parsed

\* A parsed reply is a table.
LEMMA ParsedTable ==
    ASSUME NEW reply \in Table
    PROVE  Client!Parsed(reply) \in Table
<1>1. \A n \in Names : Client!Parsed(reply)[n] \in node_info_t \cup {None}
      BY ParsedLine, LineParsed DEF Table
<1>2. Client!Parsed(reply) = [n \in Names |-> Client!Parsed(reply)[n]]
      BY SameTables DEF Client!Parsed
<1> QED BY <1>1, <1>2 DEF Table

\* The lines of a reply: a readable one is that of a listed name, and holds
\* what the client parses.
LEMMA LineFacts ==
    ASSUME NEW reply \in Table, NEW l \in assoc_info_reply_msg(reply)
    PROVE  \/ NP_NONE(l)
           \/ /\ ~NP_NONE(l)
              /\ l.name \in Names /\ reply[l.name] # None
              /\ l = Line(reply, l.name)
              /\ l.entry = Client!Parsed(reply)[l.name]
              /\ l.entry \in node_info_t
<1>1. CASE l = Unreadable
      BY <1>1 DEF NP_NONE
<1>2. CASE \E n \in Listed(reply) : l = Line(reply, n)
  <2>1. PICK n \in Names : reply[n] # None /\ l = Line(reply, n)
        BY <1>2 DEF Listed
  <2>2. l.name = n /\ l.entry = assoc_info_get_from_omp(reply[n])
        BY <2>1 DEF Line
  <2>3. l.entry \in node_info_t
        BY <2>1, <2>2, LineParsed DEF Table
  <2>4. l.entry # None
        BY <2>3, NodeInfoAssumption
  <2>5. ~NP_NONE(l)
        BY <2>4 DEF NP_NONE, Unreadable
  <2>6. l.entry = Client!Parsed(reply)[l.name]
        BY <2>1, <2>2, ParsedLine
  <2> QED BY <2>1, <2>2, <2>3, <2>5, <2>6
<1> QED BY <1>1, <1>2 DEF assoc_info_reply_msg

\* The lines of two names differ, and none of them is unreadable.
LEMMA LinesDiffer ==
    ASSUME NEW reply \in Table, NEW n \in Names, NEW m \in Names
    PROVE  Line(reply, n) = Line(reply, m) => n = m
BY DEF Line

\* Known of the client, in this module's words.
LEMMA KnownHere ==
    ASSUME NEW l \in Table, NEW r \in Table, NEW n \in Names
    PROVE  Client!Known(l, r, n) <=> l[n] # None /\ r[n] # None /\ SameAddr(l[n], r[n])
BY SameTables DEF Client!Known

-----------------------------------------------------------------------------
(* The invariant *)

\* The empty table is a table.
LEMMA EmptyTableType == EmptyTable \in Table
BY DEF EmptyTable, Table

\* Nothing has run.
LEMMA InitIInv == SyncInit => IInv
BY EmptyTableType DEF SyncInit, IInv, TypeOK, MergeSoFar

\* A reply comes: no line is read, no flag set, no entry changed.
LEMMA BeginIInv ==
    ASSUME IInv, AssocSyncAssumption, NEW reply \in Replies, assoc_info_unset_chk_flag(reply)
    PROVE  IInv'
<1>1. TypeOK
      BY DEF IInv
<1>2. /\ pc' = "merge" /\ lines' = assoc_info_reply_msg(reply)
      /\ checked' = {} /\ update_count' = 0
      /\ before' = list /\ answer' = reply
      /\ info' = info /\ list' = list /\ file' = file
      BY DEF assoc_info_unset_chk_flag
<1>3. reply \in Table
      BY DEF AssocSyncAssumption
<1>4. TypeOK'
      BY <1>1, <1>2, <1>3 DEF TypeOK
<1>5. \A n \in Names : ~Read(n)'
      BY <1>2 DEF Read, assoc_info_reply_msg, Line, Listed
<1>6. \A n \in Names : ~Changed(n)'
      BY <1>5 DEF Changed
<1>7. list = [n \in Names |-> list[n]]
      BY <1>1 DEF TypeOK, Table
<1>8. MergeSoFar'
      BY <1>2, <1>5, <1>6, <1>7 DEF MergeSoFar
<1> QED BY <1>4, <1>8 DEF IInv

\* One line is read.
LEMMA LineIInv ==
    ASSUME IInv, NEW l \in lines, node_proc_omp_send_info(l)
    PROVE  IInv'
<1>1. /\ TypeOK /\ MergeSoFar /\ pc = "merge"
      /\ lines' = lines \ {l}
      /\ UNCHANGED <<info, pc, file, before, answer>>
      BY DEF IInv, node_proc_omp_send_info
<1>2. /\ answer \in Table /\ before \in Table /\ list \in Table
      /\ lines \subseteq assoc_info_reply_msg(answer)
      /\ checked = {n \in Names : Read(n)}
      /\ list = [n \in Names |-> IF Changed(n) THEN parsed[n] ELSE before[n]]
      /\ update_count > 0 <=> \E n \in Names : Changed(n)
      /\ update_count \in Nat
      BY <1>1 DEF TypeOK, MergeSoFar
<1>3. parsed' = parsed /\ parsed \in Table
      BY <1>1, <1>2, ParsedTable DEF parsed
<1>4. CASE NP_NONE(l)
  <2>1. UNCHANGED <<list, checked, update_count>>
        BY <1>4 DEF node_proc_omp_send_info
  <2>2. ASSUME NEW n \in Names PROVE Read(n)' <=> Read(n)
    <3>1. answer[n] # None => Line(answer, n) # l
      <4> SUFFICES ASSUME answer[n] # None, Line(answer, n) = l PROVE FALSE
          OBVIOUS
      <4>1. l.entry = assoc_info_get_from_omp(answer[n])
            BY DEF Line
      <4>2. l.entry \in node_info_t
            BY <1>2, <4>1, LineParsed DEF Table
      <4> QED BY <1>4, <4>2, NodeInfoAssumption DEF NP_NONE, Unreadable
    <3> QED BY <1>1, <3>1 DEF Read
  <2>3. \A n \in Names : Changed(n)' <=> Changed(n)
        BY <1>1, <1>3, <2>2 DEF Changed
  <2>4. TypeOK'
        BY <1>1, <2>1 DEF TypeOK
  <2>5. MergeSoFar'
        BY <1>1, <1>2, <1>3, <2>1, <2>2, <2>3 DEF MergeSoFar
  <2> QED BY <2>4, <2>5 DEF IInv
<1>5. CASE ~NP_NONE(l)
  <2> DEFINE m == l.name
  <2>1. /\ m \in Names /\ answer[m] # None /\ l = Line(answer, m)
        /\ l.entry = parsed[m] /\ l.entry \in node_info_t
        BY <1>2, <1>5, LineFacts DEF parsed
  <2> HIDE DEF m
  <2>2. ~Read(m) /\ ~Changed(m) /\ list[m] = before[m]
        BY <1>2, <2>1 DEF Read, Changed
  <2>3. parsed[m] # None
        BY <2>1, NodeInfoAssumption
  <2>4. NP_UPTM(l) <=> Client!Known(before, parsed, m)
        BY <1>2, <1>3, <2>1, <2>2, <2>3, KnownHere DEF NP_UPTM, m
  <2>5. \A n \in Names : Read(n)' <=> Read(n) \/ n = m
        BY <1>1, <1>2, <2>1, LinesDiffer DEF Read
  <2>6. \A n \in Names : Changed(n)' <=> Changed(n) \/ (n = m /\ ~NP_UPTM(l))
        BY <1>1, <1>3, <2>4, <2>5 DEF Changed
  <2>7. checked' = checked \cup {m}
        BY <1>5 DEF node_proc_omp_send_info, m
  <2>8. checked' = {n \in Names : Read(n)'}
        BY <1>2, <2>1, <2>5, <2>7
  <2>9. CASE NP_UPTM(l)
    <3>1. UNCHANGED <<list, update_count>>
          BY <1>5, <2>9 DEF node_proc_omp_send_info
    <3>2. \A n \in Names : Changed(n)' <=> Changed(n)
          BY <2>6, <2>9
    <3>3. TypeOK'
          BY <1>1, <2>1, <2>7, <3>1 DEF TypeOK
    <3>4. MergeSoFar'
          BY <1>1, <1>2, <1>3, <2>8, <3>1, <3>2 DEF MergeSoFar
    <3> QED BY <3>3, <3>4 DEF IInv
  <2>10. CASE ~NP_UPTM(l)
    <3>1. list' = [list EXCEPT ![m] = parsed[m]] /\ update_count' = update_count + 1
          BY <1>5, <2>1, <2>10 DEF node_proc_omp_send_info, m
    <3>2. \A n \in Names : Changed(n)' <=> Changed(n) \/ n = m
          BY <2>6, <2>10
    <3>3. \A n \in Names : list[n] = IF Changed(n) THEN parsed[n] ELSE before[n]
          BY <1>2
    <3>4. list' = [n \in Names |-> IF n = m THEN parsed[n] ELSE list[n]]
          BY <1>2, <2>1, <3>1 DEF Table
    <3>5. list' = [n \in Names |-> IF Changed(n)' THEN parsed[n] ELSE before[n]]
          BY <3>2, <3>3, <3>4
    <3>6. update_count' > 0 /\ update_count' \in Nat /\ \E n \in Names : Changed(n)'
          BY <1>2, <2>1, <3>1, <3>2
    <3>7. list' \in Table
          BY <1>2, <2>1, <3>1 DEF Table
    <3>8. TypeOK'
          BY <1>1, <2>1, <2>7, <3>6, <3>7 DEF TypeOK
    <3>9. MergeSoFar'
          BY <1>1, <1>2, <1>3, <2>8, <3>5, <3>6 DEF MergeSoFar
    <3> QED BY <3>8, <3>9 DEF IInv
  <2> QED BY <2>9, <2>10
<1> QED BY <1>4, <1>5

\* The removal counts every entry it removes.
LEMMA RemovalCounts ==
    ASSUME AssocSyncAssumption, NEW S, S \subseteq Names
    PROVE  Cardinality(S) \in Nat /\ (Cardinality(S) > 0 <=> S # {})
<1>1. IsFiniteSet(Names)
      BY FS_AddElement DEF AssocSyncAssumption, Names
<1>2. IsFiniteSet(S)
      BY <1>1, FS_Subset
<1> QED BY <1>2, FS_CardinalityType, FS_EmptySet

\* What the last step of the merge makes of the list is the merge, and the
\* count is not zero if it changed anything.
LEMMA MergeDone ==
    ASSUME IInv, AssocSyncAssumption, assoc_info_remove_uncheck_node
    PROVE  /\ list' = Client!Merge(before, parsed)
           /\ update_count' \in Nat
           /\ update_count' > 0 <=> Client!Updated(before, parsed)
<1> DEFINE gone == Listed(list) \ checked
<1>1. /\ TypeOK /\ MergeSoFar /\ pc = "merge" /\ lines = {}
      /\ list' = [n \in Names |-> IF n \in gone THEN None ELSE list[n]]
      /\ update_count' = update_count + Cardinality(gone)
      BY DEF IInv, assoc_info_remove_uncheck_node
<1>2. /\ answer \in Table /\ before \in Table
      /\ checked = {n \in Names : Read(n)}
      /\ list = [n \in Names |-> IF Changed(n) THEN parsed[n] ELSE before[n]]
      /\ update_count > 0 <=> \E n \in Names : Changed(n)
      /\ update_count \in Nat
      BY <1>1 DEF TypeOK, MergeSoFar
<1>3. parsed \in Table
      BY <1>2, ParsedTable DEF parsed
<1>4. ASSUME NEW n \in Names
      PROVE  /\ Read(n) <=> parsed[n] # None
             /\ Client!Known(before, parsed, n)
                  <=> before[n] # None /\ parsed[n] # None /\ SameAddr(before[n], parsed[n])
  <2>1. Read(n) <=> answer[n] # None
        BY <1>1 DEF Read
  <2>2. answer[n] # None => assoc_info_get_from_omp(answer[n]) # None
        BY <1>2, LineParsed, NodeInfoAssumption DEF Table
  <2>3. parsed[n] # None <=> answer[n] # None
        BY <1>2, <2>2, ParsedLine DEF parsed
  <2> QED BY <1>2, <1>3, <2>1, <2>3, KnownHere
<1>5. gone = {n \in Names : before[n] # None /\ parsed[n] = None}
      BY <1>2, <1>4 DEF Listed, Changed
<1>6. ASSUME NEW n \in Names
      PROVE  list'[n] = IF parsed[n] = None THEN None
                        ELSE IF Client!Known(before, parsed, n) THEN before[n] ELSE parsed[n]
      BY <1>1, <1>2, <1>4, <1>5 DEF Changed
<1>7. Client!Merge(before, parsed)
        = [n \in Names |-> IF parsed[n] = None THEN None
                           ELSE IF Client!Known(before, parsed, n) THEN before[n]
                           ELSE parsed[n]]
      BY SameTables
      DEF Client!Merge, Client!node_proc_omp_send_info, Client!assoc_info_remove_uncheck_node
<1>8. list' = [n \in Names |-> list'[n]]
      BY <1>1
<1>9. list' = Client!Merge(before, parsed)
      BY <1>6, <1>7, <1>8
<1>10. Cardinality(gone) \in Nat /\ (Cardinality(gone) > 0 <=> gone # {})
      BY <1>5, RemovalCounts
<1>11. Client!Updated(before, parsed)
         <=> (\E n \in Names : Changed(n)) \/ gone # {}
      BY <1>4, <1>5, SameTables DEF Client!Updated, Changed
<1>12. /\ update_count' \in Nat
       /\ update_count' > 0 <=> update_count > 0 \/ Cardinality(gone) > 0
      BY <1>1, <1>2, <1>10
<1> QED BY <1>2, <1>9, <1>10, <1>11, <1>12

\* The merge of two tables is a table.
LEMMA MergeTable ==
    ASSUME NEW l \in Table, NEW r \in Table
    PROVE  Client!Merge(l, r) \in Table
BY SameTables
DEF Client!Merge, Client!node_proc_omp_send_info, Client!assoc_info_remove_uncheck_node, Table

\* Every step keeps the invariant.
LEMMA NextIInv == AssocSyncAssumption /\ IInv /\ [SyncNext]_sync_vars => IInv'
<1> SUFFICES ASSUME AssocSyncAssumption, IInv, [SyncNext]_sync_vars PROVE IInv'
    OBVIOUS
<1>1. TypeOK /\ MergeSoFar
      BY DEF IInv
<1>2. ASSUME udp_client_send \/ udp_client_timeout PROVE IInv'
      BY <1>1, <1>2 DEF udp_client_send, udp_client_timeout, IInv, TypeOK, MergeSoFar
<1>3. ASSUME NEW reply \in Replies, assoc_info_unset_chk_flag(reply) PROVE IInv'
      BY <1>3, BeginIInv
<1>4. ASSUME NEW l \in lines, node_proc_omp_send_info(l) PROVE IInv'
      BY <1>4, LineIInv
<1>5. CASE assoc_info_remove_uncheck_node
  <2>1. list' = Client!Merge(before, parsed) /\ update_count' \in Nat
        BY <1>5, MergeDone
  <2>2. parsed \in Table
        BY <1>1, ParsedTable DEF TypeOK, parsed
  <2>3. list' \in Table
        BY <1>1, <2>1, <2>2, MergeTable DEF TypeOK
  <2>4. file' \in {file, list'} /\ pc' = "idle"
        BY <1>5 DEF assoc_info_remove_uncheck_node
  <2>5. UNCHANGED <<info, checked, before, answer>>
        BY <1>5 DEF assoc_info_remove_uncheck_node
  <2> QED BY <1>1, <2>1, <2>3, <2>4, <2>5 DEF IInv, TypeOK, MergeSoFar
<1>6. ASSUME NEW i \in Reports[Me], Start(i) \/ init_omp_client(i) PROVE IInv'
  <2>1. i \in node_info_t
        BY NodeInfoAssumption DEF AssocSyncAssumption
  <2>2. CASE init_omp_client(i)
        BY <1>1, <2>1, <2>2, EmptyTableType
        DEF init_omp_client, Dropped, IInv, TypeOK, MergeSoFar
  <2>3. CASE Start(i)
    <3>1. info' = i /\ UNCHANGED <<list, checked, pc, lines, update_count, file, before, answer>>
          BY <2>3 DEF Start
    <3>2. MergeSoFar'
          BY <1>1, <3>1 DEF MergeSoFar, Read, Changed, parsed
    <3> QED BY <1>1, <2>1, <3>1, <3>2 DEF IInv, TypeOK
  <2> QED BY <1>6, <2>2, <2>3
<1>7. CASE Stop
      BY <1>1, <1>7, EmptyTableType DEF Stop, Dropped, IInv, TypeOK, MergeSoFar
<1>8. CASE UNCHANGED sync_vars
  <2>1. UNCHANGED <<info, list, checked, pc, lines, update_count, file, before, answer>>
        BY <1>8 DEF sync_vars
  <2>2. MergeSoFar'
        BY <1>1, <2>1 DEF MergeSoFar, Read, Changed, parsed
  <2> QED BY <1>1, <2>1, <2>2 DEF IInv, TypeOK
<1> QED BY <1>2, <1>3, <1>4, <1>5, <1>6, <1>7, <1>8 DEF SyncNext

\* The invariant of the merge holds whenever the process may be killed.
THEOREM IInvHolds ==
    ASSUME AssocSyncAssumption
    PROVE  SyncSpec => []IInv
<1>1. SyncInit => IInv
      BY InitIInv
<1>2. IInv /\ [SyncNext]_sync_vars => IInv'
      BY NextIInv
<1> QED BY <1>1, <1>2, PTL DEF SyncSpec

-----------------------------------------------------------------------------
(* The refinement *)

\* The one pod of the client of TopoClient that this module follows.
LEMMA OnlyFacts ==
    ASSUME AssocSyncAssumption, NEW x, NEW y, NEW other
    PROVE  /\ Only(x, other)[Me] = x
           /\ [Only(x, other) EXCEPT ![Me] = y] = Only(y, other)
BY DEF Only, AssocSyncAssumption

\* The same of a Boolean: the client's pod_wait.
LEMMA OnlyBoolean ==
    ASSUME AssocSyncAssumption, NEW x \in BOOLEAN, NEW y \in BOOLEAN
    PROVE  /\ Only(x, FALSE)[Me] <=> x
           /\ [Only(x, FALSE) EXCEPT ![Me] = y] = Only(y, FALSE)
BY DEF Only, AssocSyncAssumption

\* What the client of TopoClient sees of the list.
shown == IF pc = "merge" THEN before ELSE list

\* The variables of the client, before and after a step.
LEMMA Mapping ==
    /\ Client!client_vars = <<Only(info, None), Only(shown, EmptyTable),
                              Only(pc # "idle", FALSE), Only(file, EmptyTable)>>
    /\ Client!client_vars' = <<Only(info', None), Only(shown', EmptyTable),
                               Only(pc' # "idle", FALSE), Only(file', EmptyTable)>>
BY DEF Client!client_vars, shown, Only

\* The client starts with an empty list and no file.
LEMMA InitImplements == SyncInit => Client!ClientInit
BY SameTables DEF SyncInit, Client!ClientInit, Only

\* The steps before and between the lines change nothing the client sees.
LEMMA LinesStutter ==
    ASSUME pc' = "merge", before' = shown, UNCHANGED <<info, file>>, pc # "idle"
    PROVE  UNCHANGED Client!client_vars
BY Mapping DEF shown

\* The removal ends the step the client makes of the reply.
LEMMA RemovalImplements ==
    ASSUME IInv, AssocSyncAssumption, assoc_info_remove_uncheck_node
    PROVE  Client!udp_client_recv(Me, answer)
<1>1. /\ list' = Client!Merge(before, parsed)
      /\ update_count' > 0 <=> Client!Updated(before, parsed)
      BY MergeDone
<1>2. /\ pc = "merge" /\ pc' = "idle" /\ info' = info
      /\ file' = IF update_count' > 0 THEN list' ELSE file
      BY DEF assoc_info_remove_uncheck_node
<1>3. shown = before /\ shown' = list'
      BY <1>2 DEF shown
<1>4. /\ Only(shown, EmptyTable)[Me] = before
      /\ Only(shown', EmptyTable) = [Only(shown, EmptyTable) EXCEPT ![Me] = list']
      /\ Only(shown', EmptyTable)[Me] = list'
      BY <1>3, OnlyFacts
<1>5. /\ Only(pc # "idle", FALSE)[Me]
      /\ Only(pc' # "idle", FALSE) = [Only(pc # "idle", FALSE) EXCEPT ![Me] = FALSE]
  <2>1. (pc # "idle") = TRUE /\ (pc' # "idle") = FALSE
        BY <1>2
  <2>2. Only(TRUE, FALSE)[Me] /\ [Only(TRUE, FALSE) EXCEPT ![Me] = FALSE] = Only(FALSE, FALSE)
        BY OnlyBoolean
  <2> QED BY <2>1, <2>2, Zenon
<1>6. Only(list', EmptyTable) = [Only(file, EmptyTable) EXCEPT ![Me] = list']
      BY OnlyFacts
<1>7. \/ Client!Updated(before, parsed) /\ file' = list'
      \/ ~Client!Updated(before, parsed) /\ file' = file
      BY <1>1, <1>2
<1> QED BY <1>1, <1>2, <1>4, <1>5, <1>6, <1>7 DEF Client!udp_client_recv, parsed, shown

\* The client waits for a reply, and gives up.
LEMMA SendImplements ==
    ASSUME AssocSyncAssumption
    PROVE  /\ udp_client_send => Client!udp_client_send(Me)
           /\ udp_client_timeout => Client!udp_client_timeout(Me)
<1>1. ASSUME udp_client_send PROVE Client!udp_client_send(Me)
  <2>1. /\ info # None /\ pc = "idle" /\ pc' = "recv" /\ shown' = shown
        /\ UNCHANGED <<info, list, file>>
        BY <1>1 DEF udp_client_send, shown
  <2>2. (pc # "idle") = FALSE /\ (pc' # "idle") = TRUE
        BY <2>1
  <2>3. /\ ~Only(FALSE, FALSE)[Me]
        /\ [Only(FALSE, FALSE) EXCEPT ![Me] = TRUE] = Only(TRUE, FALSE)
        BY OnlyBoolean
  <2>4. /\ ~Only(pc # "idle", FALSE)[Me]
        /\ Only(pc' # "idle", FALSE) = [Only(pc # "idle", FALSE) EXCEPT ![Me] = TRUE]
        BY <2>2, <2>3, Zenon
  <2>5. Only(info, None)[Me] # None
        BY <2>1, OnlyFacts
  <2> QED BY <2>1, <2>4, <2>5 DEF Client!udp_client_send, shown
<1>2. ASSUME udp_client_timeout PROVE Client!udp_client_timeout(Me)
  <2>1. /\ pc = "recv" /\ pc' = "idle" /\ shown' = shown
        /\ UNCHANGED <<info, list, file>>
        BY <1>2 DEF udp_client_timeout, shown
  <2>2. (pc # "idle") = TRUE /\ (pc' # "idle") = FALSE
        BY <2>1
  <2>3. Only(TRUE, FALSE)[Me] /\ [Only(TRUE, FALSE) EXCEPT ![Me] = FALSE] = Only(FALSE, FALSE)
        BY OnlyBoolean
  <2>4. /\ Only(pc # "idle", FALSE)[Me]
        /\ Only(pc' # "idle", FALSE) = [Only(pc # "idle", FALSE) EXCEPT ![Me] = FALSE]
        BY <2>2, <2>3, Zenon
  <2> QED BY <2>1, <2>4 DEF Client!udp_client_timeout, shown
<1> QED BY <1>1, <1>2

\* What Dropped does to the client, between lines or not.
LEMMA DroppedImplements ==
    ASSUME AssocSyncAssumption, Dropped
    PROVE  /\ Only(shown', EmptyTable) = [Only(shown, EmptyTable) EXCEPT ![Me] = EmptyTable]
           /\ Only(pc' # "idle", FALSE) = [Only(pc # "idle", FALSE) EXCEPT ![Me] = FALSE]
<1>1. shown' = EmptyTable /\ pc' = "idle"
      BY DEF Dropped, shown
<1>2. (pc' # "idle") = FALSE /\ (pc # "idle") \in BOOLEAN
      BY <1>1
<1>3. [Only(pc # "idle", FALSE) EXCEPT ![Me] = FALSE] = Only(FALSE, FALSE)
      BY <1>2, OnlyBoolean
<1>4. Only(pc' # "idle", FALSE) = Only(FALSE, FALSE)
      BY <1>2, Zenon
<1>5. Only(shown', EmptyTable) = [Only(shown, EmptyTable) EXCEPT ![Me] = EmptyTable]
      BY <1>1, OnlyFacts
<1> QED BY <1>3, <1>4, <1>5, Zenon

\* The pod starts and goes, the process restarts, in the middle of a merge too.
LEMMA LifeImplements ==
    ASSUME AssocSyncAssumption
    PROVE  /\ \A i : Start(i) => Client!PodStart(Me, i)
           /\ \A i : init_omp_client(i) => Client!init_omp_client(Me, i)
           /\ Stop => Client!PodStop(Me)
<1>1. \A x : /\ Only(info, None)[Me] = info
             /\ [Only(info, None) EXCEPT ![Me] = x] = Only(x, None)
             /\ [Only(file, EmptyTable) EXCEPT ![Me] = x] = Only(x, EmptyTable)
      BY OnlyFacts
<1>2. ASSUME NEW i, Start(i) PROVE Client!PodStart(Me, i)
  <2>1. info = None /\ info' = i /\ shown' = shown /\ UNCHANGED <<list, pc, file>>
        BY <1>2 DEF Start, shown
  <2> QED BY <1>1, <2>1 DEF Client!PodStart, shown
<1>3. ASSUME NEW i, init_omp_client(i) PROVE Client!init_omp_client(Me, i)
  <2>1. info # None /\ SameAddr(info, i) /\ info' = i /\ Dropped /\ file' = file
        BY <1>3 DEF init_omp_client
  <2> QED BY <1>1, <2>1, DroppedImplements, SameTables DEF Client!init_omp_client, shown
<1>4. ASSUME Stop PROVE Client!PodStop(Me)
  <2>1. info # None /\ info' = None /\ file' = EmptyTable /\ Dropped
        BY <1>4 DEF Stop
  <2> QED BY <1>1, <2>1, DroppedImplements, SameTables DEF Client!PodStop, shown
<1> QED BY <1>2, <1>3, <1>4

\* Every step is a step of the client, or one it does not see.
LEMMA NextImplements ==
    AssocSyncAssumption /\ IInv /\ [SyncNext]_sync_vars => [ClientNext]_(Client!client_vars)
<1> SUFFICES ASSUME AssocSyncAssumption, IInv, [SyncNext]_sync_vars
             PROVE  [ClientNext]_(Client!client_vars)
    OBVIOUS
<1>1. ASSUME udp_client_send \/ udp_client_timeout PROVE ClientNext
      BY <1>1, SendImplements DEF ClientNext
<1>2. ASSUME NEW reply \in Replies, assoc_info_unset_chk_flag(reply)
      PROVE  UNCHANGED Client!client_vars
  <2>1. pc = "recv" /\ pc' = "merge" /\ before' = list /\ UNCHANGED <<info, file>>
        BY <1>2 DEF assoc_info_unset_chk_flag
  <2> QED BY <2>1, LinesStutter DEF shown
<1>3. ASSUME NEW l \in lines, node_proc_omp_send_info(l)
      PROVE  UNCHANGED Client!client_vars
  <2>1. pc = "merge" /\ pc' = "merge" /\ before' = before /\ UNCHANGED <<info, file>>
        BY <1>3 DEF node_proc_omp_send_info
  <2> QED BY <2>1, LinesStutter DEF shown
<1>4. ASSUME assoc_info_remove_uncheck_node PROVE ClientNext
      BY <1>4, RemovalImplements DEF ClientNext
<1>5. ASSUME NEW i \in Reports[Me], Start(i) \/ init_omp_client(i) PROVE ClientNext
      BY <1>5, LifeImplements DEF ClientNext
<1>6. ASSUME Stop PROVE ClientNext
      BY <1>6, LifeImplements DEF ClientNext
<1>7. ASSUME UNCHANGED sync_vars PROVE UNCHANGED Client!client_vars
      BY <1>7, Mapping DEF sync_vars, shown
<1> QED BY <1>1, <1>2, <1>3, <1>4, <1>5, <1>6, <1>7 DEF SyncNext

\* udp_client_proc, killed whenever it may be, does what TopoClient does in one
\* step: the flags, the look-ups, the replacements, the removal and the count.
THEOREM ImplementsClient ==
    ASSUME AssocSyncAssumption
    PROVE  SyncSpec => IsClient
<1>1. SyncInit => Client!ClientInit
      BY InitImplements
<1>2. IInv /\ [SyncNext]_sync_vars => [ClientNext]_(Client!client_vars)
      BY NextImplements
<1>3. SyncSpec => []IInv
      BY IInvHolds
<1> QED BY <1>1, <1>2, <1>3, PTL DEF SyncSpec, IsClient
=============================================================================
