------------------------------ MODULE ElemList ------------------------------
(***************************************************************************)
(* The element list of src/libs/elem.c, which k8smgr keeps its processes    *)
(* and topo its pods in: a chain of allocated blocks behind a root without  *)
(* a key, in the order of the keys.  malloc may hand out a block that was   *)
(* freed; insque and remque are those of the C library.  A walk calls back  *)
(* for each element, and a callback may remove the element it is called for *)
(* (assoc_info_clean_cb, assoc_info_remove_cb).                             *)
(***************************************************************************)
EXTENDS Integers, Sequences, FiniteSets, SequencesExt

CONSTANTS Keys,    \* integers, for strings in the order of strcmp
          Blocks,  \* blocks of memory: bounds the elements there can be
          ROOT, NULL

ASSUME ElemAssumption == ROOT \in Blocks /\ NULL \notin Blocks /\ Keys \subseteq Nat

VARIABLES mem,     \* the blocks: a key and two pointers
          walk,    \* list_element: where it stands, what it called back for
          result   \* of the last add_element or get_element

elem_vars == <<mem, walk, result>>

\* A free block has no key; neither has the root.
FREE == [key |-> -1, forward |-> NULL, backward |-> NULL]
NoKey == -2

Free == { n \in Blocks : mem[n].key = -1 }
Idle == walk.now = NULL

\* The elements in the order of their forward pointers, without the root.
Chain(m) ==
    LET from[n \in Blocks] ==
          IF m[n].forward = NULL THEN <<>> ELSE <<m[n].forward>> \o from[m[n].forward]
    IN  from[ROOT]
KeysOf(chain) == [i \in DOMAIN chain |-> mem[chain[i]].key]

-----------------------------------------------------------------------------
insque(m, item, prev) ==
    LET next == m[prev].forward
    IN  [n \in Blocks |->
           CASE n = item -> [key |-> m[item].key, forward |-> next, backward |-> prev]
             [] n = prev -> [m[prev] EXCEPT !.forward = item]
             [] n = next -> [m[next] EXCEPT !.backward = item]
             [] OTHER -> m[n]]

remque(m, item) ==
    LET e == m[item]
    IN  [n \in Blocks |->
           CASE n = e.backward -> [m[n] EXCEPT !.forward = e.forward]
             [] n = e.forward -> [m[n] EXCEPT !.backward = e.backward]
             [] OTHER -> m[n]]

\* A free block loses what it held: the allocator links it elsewhere.
rem_element(m, item) == [remque(m, item) EXCEPT ![item] = FREE]

targetFirst(key) ==
    LET from[n \in Blocks] ==
          LET next == mem[n].forward
          IN  IF next = NULL THEN n
              ELSE IF mem[next].key = key THEN NULL
              ELSE from[next]
    IN  from[ROOT]

\* The last element with a smaller key; NULL if the key is there.
target(key) ==
    LET from[n \in Blocks] ==
          LET next == mem[n].forward
          IN  IF next = NULL \/ mem[next].key > key THEN n
              ELSE IF mem[next].key = key THEN NULL
              ELSE from[next]
    IN  from[ROOT]

add_elementNoError(key) ==
    \E item \in Free :
        LET m == [mem EXCEPT ![item].key = key]
        IN  /\ Idle
            /\ mem' = IF target(key) = NULL THEN m ELSE insque(m, item, target(key))
            /\ result' = "added"
            /\ UNCHANGED walk

\* new_element and add_element.  The callers keep no pointer to an element
\* that was refused: its block is lost.
add_element(key) ==
    \E item \in Free :
        LET m == [mem EXCEPT ![item].key = key]
        IN  /\ Idle
            /\ mem' = IF target(key) = NULL THEN m ELSE insque(m, item, target(key))
            /\ result' = IF target(key) = NULL THEN "exists" ELSE "added"
            /\ UNCHANGED walk

Found(key) == SelectInSeq(KeysOf(Chain(mem)), LAMBDA k : k = key)

get_element(key) ==
    /\ Idle
    /\ result' = IF Found(key) = 0 THEN "missing" ELSE "found"
    /\ UNCHANGED <<mem, walk>>

\* A user removes an element it looked up (node.c:321, node.c:382).
RemoveFound(key) ==
    /\ Idle /\ Found(key) # 0
    /\ mem' = rem_element(mem, Chain(mem)[Found(key)])
    /\ UNCHANGED <<walk, result>>

list_element ==
    /\ Idle
    /\ walk' = [now |-> ROOT, visited |-> <<>>, keys |-> KeysOf(Chain(mem))]
    /\ UNCHANGED <<mem, result>>

list_nextAfter(before, after, now) == after[now].forward

\* The pointer to go on with is read before the callback.
list_next(before, after, now) == before[now].forward

\* One callback; for the root, which has no data, callbacks do nothing.
Callback(removes) ==
    LET now == walk.now
        m == IF removes /\ now # ROOT THEN rem_element(mem, now) ELSE mem
    IN  /\ ~Idle
        /\ mem' = m
        /\ walk' = [walk EXCEPT !.now = list_next(mem, m, now),
                                !.visited = IF now = ROOT THEN @ ELSE Append(@, mem[now].key)]
        /\ UNCHANGED result

ElemInit ==
    /\ mem = [n \in Blocks |-> IF n = ROOT THEN [FREE EXCEPT !.key = NoKey] ELSE FREE]
    /\ walk = [now |-> NULL, visited |-> <<>>, keys |-> <<>>]
    /\ result = "none"

ElemNext ==
    \/ \E key \in Keys : add_element(key) \/ get_element(key) \/ RemoveFound(key)
    \/ list_element
    \/ \E removes \in BOOLEAN : Callback(removes)

ElemSpec == ElemInit /\ [][ElemNext]_elem_vars
-----------------------------------------------------------------------------
\* The chain is in the order of its keys, each of them there once, holds no
\* freed block, and the backward pointers run along it the other way: what
\* get_element, the next insque and the next remque rely on, whatever callbacks
\* removed and whichever blocks were handed out again.
Linked ==
    LET c == Chain(mem)
    IN  \A i \in DOMAIN c :
          /\ mem[c[i]].key \in Keys
          /\ mem[c[i]].backward = IF i = 1 THEN ROOT ELSE c[i - 1]
          /\ i > 1 => mem[c[i - 1]].key < mem[c[i]].key

\* list_element calls back exactly once for every element there was when it
\* started, although callbacks free the element the walk stands on.
WalkVisitsAll == Idle => walk.visited = walk.keys

\* The list implements a set of keys.
Abstract == INSTANCE KeyedSet WITH keys <- Range(KeysOf(Chain(mem)))
IsKeyedSet == Abstract!Spec
=============================================================================
