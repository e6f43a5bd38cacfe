------------------------------ MODULE StringMap -----------------------------
(***************************************************************************)
(* What a string dictionary promises (libds/strdict.h): a map from keys to *)
(* values, with the result of the last call.                               *)
(***************************************************************************)
CONSTANTS Key, Item, Null

VARIABLES map, res

Init == map \in [Key -> Item \cup {Null}] /\ res = "SUCCESS"

Set(k, v, overwrite) ==
    IF map[k] # Null /\ ~overwrite THEN res' = "DUPLICATE" /\ UNCHANGED map
    ELSE res' = "SUCCESS" /\ map' = [map EXCEPT ![k] = v]

Remove(k) ==
    IF map[k] = Null THEN res' = "NOT_FOUND" /\ UNCHANGED map
    ELSE res' = "SUCCESS" /\ map' = [map EXCEPT ![k] = Null]

Clear == res' = "SUCCESS" /\ map' = [k \in Key |-> Null]

Next == \/ \E k \in Key, v \in Item, o \in BOOLEAN : Set(k, v, o)
        \/ \E k \in Key : Remove(k)
        \/ Clear

MapSpec == Init /\ [][Next]_<<map, res>>
=============================================================================
