---------------------------- MODULE FortVector -----------------------------
(***************************************************************************)
(* The growing array of libfort (vector.c in the amalgamated fort.c): a    *)
(* size, a capacity and a block of memory, counted in items.  Rows,        *)
(* separators, cells and cell properties of a table all live in one.       *)
(* A caller keeps one vector in a table and works on a second one: the row *)
(* that is moved in, or the tail that was split off.                       *)
(***************************************************************************)
EXTENDS Naturals, Sequences

CONSTANTS Items,             \* the pointers or records stored
          Unset,             \* a slot of a block from malloc that nobody wrote
          NULL,              \* m_data after a realloc that failed
          DefaultCapacity,   \* DEFAULT_VECTOR_CAPACITY
          MaxCapacity        \* bound on m_capacity

VectorAssumption ==
    /\ DefaultCapacity \in Nat \ {0}
    /\ MaxCapacity \in Nat /\ MaxCapacity >= DefaultCapacity
    /\ Unset \notin Items
    /\ \A n \in 0..MaxCapacity : NULL \notin [0..(n - 1) -> Items \cup {Unset}]

VARIABLES vec,    \* the vector of the table
          part,   \* the vector it exchanges items with
          fault   \* a copy was made outside a block; nothing is said of what follows

vvars == <<vec, part, fault>>

Positions == 0..MaxCapacity

create_vector(capacity) ==
    [m_size |-> 0, m_capacity |-> capacity, m_data |-> [i \in 0..(capacity - 1) |-> Unset]]

\* realloc keeps the old items; of a NULL block it is a plain malloc.
vector_reallocate_(v, capacity) ==
    [v EXCEPT !.m_capacity = capacity,
              !.m_data = [i \in 0..(capacity - 1) |->
                            IF v.m_data # NULL /\ i < v.m_capacity
                            THEN v.m_data[i] ELSE Unset]]

\* The vector with room for n items, grown to the capacity growth if it has none.
WithRoomLate(v, n, growth) ==
    IF v.m_capacity < n - 1 THEN vector_reallocate_(v, growth) ELSE v

WithRoom(v, n, growth) ==
    IF v.m_capacity < n THEN vector_reallocate_(v, growth) ELSE v

\* Each of the three growths (an insertion at pos = m_capacity is always one)
\* may find no memory.  When realloc fails its NULL overwrites the pointer to the old block.
vector_reallocate_fails ==
    /\ vec' = [vec EXCEPT !.m_data = NULL]
    /\ UNCHANGED <<part, fault>>

\* memcpy and memmove: len items of src from position from arrive at position to.
CopiedOneLess(dst, to, src, from, len) ==
    [i \in DOMAIN dst |-> IF to <= i /\ i + 1 < to + len THEN src[from + i - to] ELSE dst[i]]

Copied(dst, to, src, from, len) ==
    [i \in DOMAIN dst |-> IF to <= i /\ i < to + len THEN src[from + i - to] ELSE dst[i]]

Stored(v, pos, x, size) ==
    [v EXCEPT !.m_data[pos] = x, !.m_size = size]

\* The positions from, from + 1, ... of len items are in the block.
Within(data, from, len) ==
    len > 0 => data # NULL /\ from..(from + len - 1) \subseteq DOMAIN data

\* An operation whose copies are within their blocks takes effect.  The code
\* looks at no pointer before it copies.
Copying(within, effect) ==
    \/ within /\ effect /\ UNCHANGED fault
    \/ ~within /\ fault' = TRUE /\ UNCHANGED <<vec, part>>

vector_push(x) ==
    LET v == WithRoom(vec, vec.m_size + 1, 2 * vec.m_capacity)
    IN  /\ v.m_capacity <= MaxCapacity
        /\ Copying(Within(v.m_data, v.m_size, 1),
                   vec' = Stored(v, v.m_size, x, v.m_size + 1) /\ UNCHANGED part)

vector_insert(x, pos) ==
    LET needed == IF pos < vec.m_size THEN vec.m_size + 1 ELSE pos + 1
        v == WithRoom(vec, needed, needed)
        behind == IF pos < v.m_size THEN v.m_size - pos ELSE 0
        moved == [v EXCEPT !.m_data = Copied(@, pos + 1, @, pos, v.m_size - pos)]
    IN  /\ needed <= MaxCapacity
        /\ Copying(Within(v.m_data, pos, behind + 1),
                   /\ vec' = IF pos >= v.m_size THEN Stored(v, pos, x, pos + 1)
                                                ELSE Stored(moved, pos, x, v.m_size + 1)
                   /\ UNCHANGED part)

\* split_cur_row asks for a tail only when there is one (cur_col < columns).
vector_split(pos) ==
    LET trailing_sz == vec.m_size - pos
        new_vector == create_vector(trailing_sz)
    IN  /\ pos < vec.m_size
        /\ Copying(Within(vec.m_data, pos, trailing_sz),
                   /\ part' = [new_vector EXCEPT
                                 !.m_data = Copied(@, 0, vec.m_data, pos, trailing_sz),
                                 !.m_size = trailing_sz]
                   /\ vec' = [vec EXCEPT !.m_size = pos])

vector_swap(pos) ==
    LET mv_sz == part.m_size
        min_targ_size == pos + mv_sz
        v == WithRoom(vec, min_targ_size, min_targ_size)
        new_mv_sz == IF v.m_size <= pos THEN 0
                     ELSE IF v.m_size - pos < mv_sz THEN v.m_size - pos ELSE mv_sz
    IN  /\ mv_sz > 0
        /\ min_targ_size <= MaxCapacity
        /\ Copying(Within(v.m_data, pos, mv_sz) /\ Within(part.m_data, 0, mv_sz),
                   /\ vec' = [v EXCEPT !.m_data = Copied(@, pos, part.m_data, 0, mv_sz),
                                       !.m_size = IF v.m_size < min_targ_size
                                                  THEN min_targ_size ELSE v.m_size]
                   /\ part' = [part EXCEPT !.m_data = Copied(@, 0, v.m_data, pos, new_mv_sz),
                                           !.m_size = new_mv_sz])

\* No memory for the displaced items: the vector may have grown, nothing moved.
vector_swap_fails(pos) ==
    LET min_targ_size == pos + part.m_size
    IN  /\ pos < vec.m_size
        /\ min_targ_size <= MaxCapacity
        /\ vec' = WithRoom(vec, min_targ_size, min_targ_size)
        /\ UNCHANGED <<part, fault>>

\* To move no items is harmless, also in a block that is not there.
vector_erase(index) ==
    LET behind == vec.m_size - 1 - index
    IN  /\ index < vec.m_size
        /\ Copying(Within(vec.m_data, index, IF behind = 0 THEN 0 ELSE behind + 1),
                   /\ vec' = [vec EXCEPT !.m_data = IF behind = 0 THEN @
                                                    ELSE Copied(@, index, @, index + 1, behind),
                                         !.m_size = vec.m_size - 1]
                   /\ UNCHANGED part)

vector_clear ==
    /\ vec' = [vec EXCEPT !.m_size = 0]
    /\ UNCHANGED <<part, fault>>

\* swap_row of an empty row: the two rows trade their vectors.
Exchange == vec' = part /\ part' = vec /\ UNCHANGED fault

Init ==
    /\ vec = create_vector(DefaultCapacity)
    /\ part = create_vector(DefaultCapacity)
    /\ fault = FALSE

Next ==
    /\ ~fault
    /\ \/ \E x \in Items : vector_push(x)
       \/ \E x \in Items, pos \in Positions : vector_insert(x, pos)
       \/ \E pos \in Positions : vector_split(pos) \/ vector_swap(pos) \/ vector_erase(pos)
                                \/ vector_swap_fails(pos)
       \/ vector_clear
       \/ Exchange
       \/ vector_reallocate_fails

Spec == Init /\ [][Next]_vvars
-----------------------------------------------------------------------------
IsVector(v) ==
    /\ v.m_capacity \in 1..MaxCapacity
    /\ v.m_size \in 0..v.m_capacity
    /\ \/ v.m_data = NULL
       \/ v.m_data \in [0..(v.m_capacity - 1) -> Items \cup {Unset}]

\* Whatever mixture of pushes, insertions, splits and swaps led to it, no memcpy
\* or memmove of vector.c leaves a block: a vector never holds more items than
\* its block has room for.  Only once a growth has found no memory, and realloc's
\* NULL is all there is (fort.c:7242), an operation that does not grow the vector
\* again copies from or to nowhere.  And the capacity of a vector is not zero,
\* not even that of a tail with its tight capacity, so that doubling makes it
\* larger (assert(new_capacity > vector->m_capacity) of vector_reallocate_).
RoomForItems ==
    /\ IsVector(vec) /\ IsVector(part)
    /\ fault => NULL \in {vec.m_data, part.m_data}

Content(v) == [i \in 1..v.m_size |-> IF v.m_data = NULL THEN Unset ELSE v.m_data[i - 1]]

Abstract == INSTANCE FortSeq WITH seq <- Content(vec), part <- Content(part)

\* Capacity, block and reallocation implement a plain sequence: the items a
\* caller put in, in order, and unset ones only in a gap it left or after a
\* failed growth; and a copy from or to nowhere, after one, is the end.
IsSequence == Abstract!Spec
=============================================================================
