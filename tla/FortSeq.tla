------------------------------ MODULE FortSeq ------------------------------
(***************************************************************************)
(* What the vector of libfort promises to the tables built on it: a       *)
(* sequence of items.  The only items a caller did not put there himself   *)
(* are the gap left by an insertion beyond the end, and everything after a *)
(* growth that ran out of memory.  FortVector shows that the capacity,     *)
(* the block of memory and the reallocations of fort.c implement this.     *)
(***************************************************************************)
EXTENDS Naturals, Sequences, SequencesExt

CONSTANTS Items,      \* what a caller stores
          Unset,      \* memory nobody wrote
          Positions   \* the indices a caller passes, counted from 0

VARIABLES seq,     \* the vector a table keeps
          part     \* the vector exchanged with it: a tail split off, a row moved in

svars == <<seq, part>>

Slots == Items \cup {Unset}

Init == seq = <<>> /\ part = <<>>

Push(x) == seq' = Append(seq, x) /\ UNCHANGED part

Insert(x, pos) ==
    /\ pos <= Len(seq)
    /\ seq' = InsertAt(seq, pos + 1, x)
    /\ UNCHANGED part

\* Beyond the end the gap holds whatever the memory held.
InsertBeyond(x, pos) ==
    /\ pos > Len(seq)
    /\ \E gap \in [1..(pos - Len(seq)) -> Slots] : seq' = seq \o gap \o <<x>>
    /\ UNCHANGED part

Split(pos) ==
    /\ pos < Len(seq)
    /\ seq' = SubSeq(seq, 1, pos)
    /\ part' = SubSeq(seq, pos + 1, Len(seq))

\* part takes the place of the items from pos on; what it displaces goes back.
Swap(pos) ==
    LET from == Min({pos, Len(seq)})
        to == Min({pos + Len(part), Len(seq)})
    IN  /\ part # <<>>
        /\ \E gap \in [1..(pos - from) -> Slots] :
             seq' = SubSeq(seq, 1, from) \o gap \o part \o SubSeq(seq, to + 1, Len(seq))
        /\ part' = SubSeq(seq, from + 1, to)

Erase(i) ==
    /\ i < Len(seq)
    /\ seq' = RemoveAt(seq, i + 1)
    /\ UNCHANGED part

Clear == seq' = <<>> /\ UNCHANGED part

\* The next row to be moved in is filled item by item, as seq is.
Exchange == seq' = part /\ part' = seq

Lose == seq' = [i \in DOMAIN seq |-> Unset] /\ UNCHANGED part

Next ==
    \/ \E x \in Items : Push(x)
    \/ \E x \in Items, pos \in Positions : Insert(x, pos) \/ InsertBeyond(x, pos)
    \/ \E pos \in Positions : Split(pos) \/ Swap(pos) \/ Erase(pos)
    \/ Clear
    \/ Exchange
    \/ Lose

Spec == Init /\ [][Next]_svars
=============================================================================
