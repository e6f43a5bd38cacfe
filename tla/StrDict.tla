------------------------------- MODULE StrDict ------------------------------
(***************************************************************************)
(* The string dictionary of libds (strdict.c): pairs in an array that      *)
(* grows by DICT_GROW_COUNT and is closed up when a pair is removed.       *)
(*                                                                         *)
(*   capacity, count  the slots there are, and those in use from the start *)
(*   keys, vals       items[2n] and items[2n + 1], numbered from 1         *)
(*   dict_res         the result of the last call                          *)
(***************************************************************************)
EXTENDS Integers

CONSTANTS Key, Item, Null,
          DICT_GROW_COUNT,
          MaxEntries          \* bound on the entries a dictionary is created from

ASSUME DictAssumption == /\ DICT_GROW_COUNT \in Nat \ {0} /\ MaxEntries \in Nat
                         /\ Null \notin Key /\ Null \notin Item

VARIABLES capacity, count, keys, vals, dict_res

dictVars == <<capacity, count, keys, vals, dict_res>>

\* The slots that hold a key; dict_find_key takes the first of them.
Hits(k) == {i \in 1 .. count : keys[i] = k}
dict_find_key(k) == CHOOSE i \in Hits(k) : \A j \in Hits(k) : i <= j

\* ds_strdict_create_environ: as many slots as entries; the valid ones, in their
\* order, fill the first of them, and the others hold whatever malloc returned.  The
\* keys are those of an environment, in which no name is there twice.
DictInit ==
    /\ capacity \in 0 .. MaxEntries
    /\ count \in 0 .. capacity
    /\ keys \in [1 .. capacity -> Key \cup {Null}]
    /\ vals \in [1 .. capacity -> Item \cup {Null}]
    /\ \A i \in 1 .. count : keys[i] # Null /\ vals[i] # Null
    /\ \A i, j \in 1 .. count : keys[i] = keys[j] => i = j
    /\ dict_res = "SUCCESS"

\* dict_grow, when there is no free slot: the new ones are cleared.
NewCapacity == IF capacity = count THEN capacity + DICT_GROW_COUNT ELSE capacity
dict_grow(f) == [i \in 1 .. NewCapacity |-> IF i <= capacity THEN f[i] ELSE Null]

\* Mutant: the pair goes to the first slot.
StoresAtFirst(k, v) ==
    /\ capacity' = NewCapacity
    /\ keys' = [dict_grow(keys) EXCEPT ![1] = k]
    /\ vals' = [dict_grow(vals) EXCEPT ![1] = v]
    /\ count' = count + 1

\* The pair goes to the first free slot.
StorePair(k, v) ==
    /\ capacity' = NewCapacity
    /\ keys' = [dict_grow(keys) EXCEPT ![count + 1] = k]
    /\ vals' = [dict_grow(vals) EXCEPT ![count + 1] = v]
    /\ count' = count + 1

ds_strdict_set(k, v, overwrite) ==
    IF Hits(k) # {} /\ ~overwrite THEN dict_res' = "DUPLICATE" /\ UNCHANGED <<capacity, count, keys, vals>>
    ELSE IF Hits(k) # {}
    THEN /\ vals' = [vals EXCEPT ![dict_find_key(k)] = v]
         /\ dict_res' = "SUCCESS" /\ UNCHANGED <<capacity, count, keys>>
    ELSE StorePair(k, v) /\ dict_res' = "SUCCESS"

\* memmove of the pairs behind slot n, and NULL in the slot that was last.
CloseUp(f, n) ==
    [i \in 1 .. capacity |-> IF i = count THEN Null ELSE IF i \in n .. count - 1 THEN f[i + 1] ELSE f[i]]

\* Mutant: only the keys are moved.
MovesKeys(k) ==
    IF Hits(k) = {} THEN dict_res' = "NOT_FOUND" /\ UNCHANGED <<capacity, count, keys, vals>>
    ELSE /\ keys' = CloseUp(keys, dict_find_key(k))
         /\ vals' = [vals EXCEPT ![count] = Null]
         /\ count' = count - 1
         /\ dict_res' = "SUCCESS" /\ UNCHANGED capacity

ds_strdict_remove(k) ==
    IF Hits(k) = {} THEN dict_res' = "NOT_FOUND" /\ UNCHANGED <<capacity, count, keys, vals>>
    ELSE /\ keys' = CloseUp(keys, dict_find_key(k))
         /\ vals' = CloseUp(vals, dict_find_key(k))
         /\ count' = count - 1
         /\ dict_res' = "SUCCESS" /\ UNCHANGED capacity

ds_strdict_clear ==
    /\ capacity' = 0 /\ count' = 0 /\ keys' = <<>> /\ vals' = <<>>
    /\ dict_res' = "SUCCESS"

DictNext ==
    \/ \E k \in Key, v \in Item, o \in BOOLEAN : ds_strdict_set(k, v, o)
    \/ \E k \in Key : ds_strdict_remove(k)
    \/ ds_strdict_clear

DictSpec == DictInit /\ [][DictNext]_dictVars

----------------------------------------------------------------------------
\* ds_strdict_get
ds_strdict_get(k) == IF Hits(k) = {} THEN Null ELSE vals[dict_find_key(k)]

\* The pairs in use fill the slots up to count, which is never above the capacity, and
\* no key is in two of them.
DictOK ==
    /\ capacity \in Nat /\ count \in 0 .. capacity
    /\ keys \in [1 .. capacity -> Key \cup {Null}]
    /\ vals \in [1 .. capacity -> Item \cup {Null}]
    /\ \A i \in 1 .. count : keys[i] \in Key /\ vals[i] \in Item
    /\ \A i, j \in 1 .. count : keys[i] = keys[j] => i = j
    /\ dict_res \in {"SUCCESS", "DUPLICATE", "NOT_FOUND"}

Contents == [k \in Key |-> ds_strdict_get(k)]

M == INSTANCE StringMap WITH map <- Contents, res <- dict_res

\* Through growing, overwriting, closing up and clearing, what get returns is the map
\* the header describes, and so are the results of the calls.
ImplementsMap == M!MapSpec
=============================================================================
