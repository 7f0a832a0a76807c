------------------------------ MODULE KeyedSet ------------------------------
(* What the element list of src/libs promises its users: a set of keys.      *)
CONSTANT Keys

VARIABLES keys,    \* the keys that are in the list
          result   \* of the last call

vars == <<keys, result>>

Init == keys = {} /\ result = "none"

\* A key that is there is refused.
Add(k) ==
    /\ keys' = keys \cup {k}
    /\ result' = IF k \in keys THEN "exists" ELSE "added"

Get(k) == result' = (IF k \in keys THEN "found" ELSE "missing") /\ UNCHANGED keys

Remove(k) == k \in keys /\ keys' = keys \ {k} /\ UNCHANGED result

Next == \E k \in Keys : Add(k) \/ Get(k) \/ Remove(k)

Spec == Init /\ [][Next]_vars
=============================================================================
