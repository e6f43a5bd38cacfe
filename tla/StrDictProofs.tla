--------------------------- MODULE StrDictProofs ----------------------------
(***************************************************************************)
(* The string dictionary implements a map, for every set of keys and       *)
(* values, every growth and every initial environment.                     *)
(***************************************************************************)
EXTENDS StrDict, TLAPS

\* In a well-formed dictionary the slot dict_find_key returns for a key that is there is
\* the one slot in use that holds it.
LEMMA FindsTheSlot ==
    ASSUME DictOK, NEW k \in Key, NEW n \in 1 .. count, keys[n] = k
    PROVE  Hits(k) = {n} /\ dict_find_key(k) = n
<1>1. Hits(k) = {n}
  BY DEF DictOK, Hits
<1>2. \A i \in Hits(k) : (\A j \in Hits(k) : i <= j) <=> i = n
  BY <1>1 DEF DictOK
<1>3. dict_find_key(k) = n
  BY <1>1, <1>2 DEF dict_find_key
<1> QED BY <1>1, <1>3

\* A key whose slots are not empty has one.
LEMMA SlotOfHit ==
    ASSUME DictOK, NEW k \in Key, Hits(k) # {}
    PROVE  \E n \in 1 .. count : keys[n] = k
BY DEF Hits

\* A key that is stored is found, with its value.
LEMMA GetAtSlot ==
    ASSUME DictOK, NEW k \in Key, NEW n \in 1 .. count, keys[n] = k
    PROVE  ds_strdict_get(k) = vals[n] /\ ds_strdict_get(k) \in Item /\ ds_strdict_get(k) # Null
<1>1. Hits(k) = {n} /\ dict_find_key(k) = n
  BY FindsTheSlot
<1> QED BY <1>1, DictAssumption DEF ds_strdict_get, DictOK

\* A key that is not stored is answered with Null.
LEMMA GetAbsent ==
    ASSUME NEW k \in Key, \A n \in 1 .. count : keys[n] # k
    PROVE  ds_strdict_get(k) = Null
BY DEF ds_strdict_get, Hits

\* A key is in the map exactly when a slot in use holds it.
LEMMA NullMeansAbsent ==
    ASSUME DictOK, NEW k \in Key
    PROVE  ds_strdict_get(k) = Null <=> Hits(k) = {}
BY GetAtSlot, GetAbsent, SlotOfHit DEF Hits

\* ds_strdict_set keeps the dictionary well formed.
LEMMA SetKeeps ==
    ASSUME DictOK, NEW k \in Key, NEW v \in Item, NEW o \in BOOLEAN, ds_strdict_set(k, v, o)
    PROVE  DictOK'
<1>1. CASE Hits(k) # {} /\ ~o
  BY <1>1 DEF ds_strdict_set, DictOK
<1>2. CASE Hits(k) # {} /\ o
  <2>1. PICK n \in 1 .. count : keys[n] = k
    BY <1>2, SlotOfHit
  <2>2. dict_find_key(k) = n
    BY <2>1, FindsTheSlot
  <2>3. vals' = [vals EXCEPT ![n] = v] /\ dict_res' = "SUCCESS" /\ UNCHANGED <<capacity, count, keys>>
    BY <1>2, <2>2 DEF ds_strdict_set
  <2> QED BY <2>1, <2>3 DEF DictOK
<1>3. CASE Hits(k) = {}
  <2> DEFINE cap == IF capacity = count THEN capacity + DICT_GROW_COUNT ELSE capacity
             Grown(f) == [i \in 1 .. cap |-> IF i <= capacity THEN f[i] ELSE Null]
  <2>1. /\ capacity' = cap /\ count' = count + 1 /\ dict_res' = "SUCCESS"
        /\ keys' = [Grown(keys) EXCEPT ![count + 1] = k]
        /\ vals' = [Grown(vals) EXCEPT ![count + 1] = v]
    BY <1>3 DEF ds_strdict_set, StorePair, dict_grow, NewCapacity
  <2>2. cap \in Nat /\ count + 1 \in 1 .. cap /\ capacity <= cap
    BY DictAssumption DEF DictOK
  <2>3. keys' = [i \in 1 .. cap |-> IF i = count + 1 THEN k ELSE IF i <= capacity THEN keys[i] ELSE Null]
    BY <2>1
  <2>4. vals' = [i \in 1 .. cap |-> IF i = count + 1 THEN v ELSE IF i <= capacity THEN vals[i] ELSE Null]
    BY <2>1
  <2> HIDE DEF cap
  <2>5. keys' \in [1 .. cap -> Key \cup {Null}] /\ vals' \in [1 .. cap -> Item \cup {Null}]
    BY <2>2, <2>3, <2>4 DEF DictOK
  <2>6. \A i \in 1 .. count : keys[i] # k
    BY <1>3 DEF Hits
  <2>7. \A i \in 1 .. count' : /\ i \in 1 .. cap
                               /\ keys'[i] = IF i = count + 1 THEN k ELSE keys[i]
                               /\ vals'[i] = IF i = count + 1 THEN v ELSE vals[i]
    BY <2>1, <2>2, <2>3, <2>4 DEF DictOK
  <2>8. \A i \in 1 .. count' : i = count + 1 \/ i \in 1 .. count
    BY <2>1 DEF DictOK
  <2>9. \A i \in 1 .. count' : keys'[i] \in Key /\ vals'[i] \in Item
    BY <2>7, <2>8 DEF DictOK
  <2>10. \A i, j \in 1 .. count' : keys'[i] = keys'[j] => i = j
    BY <2>6, <2>7, <2>8 DEF DictOK
  <2>11. capacity' \in Nat /\ count' \in 0 .. capacity'
    BY <2>1, <2>2 DEF DictOK
  <2>12. keys' \in [1 .. capacity' -> Key \cup {Null}] /\ vals' \in [1 .. capacity' -> Item \cup {Null}]
    BY <2>1, <2>5
  <2>13. dict_res' = "SUCCESS"
    BY <2>1
  <2> QED BY <2>9, <2>10, <2>11, <2>12, <2>13 DEF DictOK
<1> QED BY <1>1, <1>2, <1>3

\* What a removal leaves in the slots that stay in use: those behind slot n move down.
LEMMA RemoveMoves ==
    ASSUME DictOK, NEW k \in Key, NEW n \in 1 .. count, keys[n] = k, ds_strdict_remove(k)
    PROVE  /\ count' = count - 1 /\ capacity' = capacity /\ dict_res' = "SUCCESS"
           /\ keys' = CloseUp(keys, n) /\ vals' = CloseUp(vals, n)
           /\ \A i \in 1 .. count' : /\ keys'[i] = keys[IF i < n THEN i ELSE i + 1]
                                     /\ vals'[i] = vals[IF i < n THEN i ELSE i + 1]
<1>1. Hits(k) = {n} /\ dict_find_key(k) = n
  BY FindsTheSlot
<1>2. /\ count' = count - 1 /\ capacity' = capacity /\ dict_res' = "SUCCESS"
      /\ keys' = CloseUp(keys, n) /\ vals' = CloseUp(vals, n)
  BY <1>1 DEF ds_strdict_remove
<1>3. ASSUME NEW i \in 1 .. count'
      PROVE  /\ keys'[i] = keys[IF i < n THEN i ELSE i + 1]
             /\ vals'[i] = vals[IF i < n THEN i ELSE i + 1]
  <2>1. i \in 1 .. capacity /\ i # count /\ (i \in n .. count - 1 <=> ~(i < n))
    BY <1>2 DEF DictOK
  <2> QED BY <1>2, <2>1 DEF CloseUp
<1> QED BY <1>2, <1>3

\* ds_strdict_remove keeps the invariant.
LEMMA RemoveKeeps ==
    ASSUME DictOK, NEW k \in Key, ds_strdict_remove(k)
    PROVE  DictOK'
<1>1. CASE Hits(k) = {}
  BY <1>1 DEF ds_strdict_remove, DictOK
<1>2. CASE Hits(k) # {}
  <2>1. PICK n \in 1 .. count : keys[n] = k
    BY <1>2, SlotOfHit
  <2>2. /\ count' = count - 1 /\ capacity' = capacity /\ dict_res' = "SUCCESS"
        /\ keys' = CloseUp(keys, n) /\ vals' = CloseUp(vals, n)
        /\ \A i \in 1 .. count' : /\ keys'[i] = keys[IF i < n THEN i ELSE i + 1]
                                  /\ vals'[i] = vals[IF i < n THEN i ELSE i + 1]
    BY <2>1, RemoveMoves
  <2>3. keys' \in [1 .. capacity -> Key \cup {Null}] /\ vals' \in [1 .. capacity -> Item \cup {Null}]
    <3>1. \A i \in 1 .. capacity : i \in n .. count - 1 => i + 1 \in 1 .. capacity
      BY DEF DictOK
    <3> QED BY <2>2, <3>1 DEF CloseUp, DictOK
  <2>4. \A i \in 1 .. count' : (IF i < n THEN i ELSE i + 1) \in 1 .. count
    BY <2>2 DEF DictOK
  <2>5. \A i \in 1 .. count' : keys'[i] \in Key /\ vals'[i] \in Item
    BY <2>2, <2>4 DEF DictOK
  <2>6. \A i, j \in 1 .. count' : keys'[i] = keys'[j] => i = j
    <3> SUFFICES ASSUME NEW i \in 1 .. count', NEW j \in 1 .. count', keys'[i] = keys'[j] PROVE i = j
      OBVIOUS
    <3>1. (IF i < n THEN i ELSE i + 1) = (IF j < n THEN j ELSE j + 1)
      BY <2>2, <2>4 DEF DictOK
    <3> QED BY <3>1, <2>2 DEF DictOK
  <2>7. count' \in 0 .. capacity'
    BY <2>2 DEF DictOK
  <2> QED BY <2>2, <2>3, <2>5, <2>6, <2>7 DEF DictOK
<1> QED BY <1>1, <1>2

\* ds_strdict_clear keeps the invariant.
LEMMA ClearKeeps == ASSUME DictOK, ds_strdict_clear PROVE DictOK'
BY DEF DictOK, ds_strdict_clear

\* The slots in use are never more than there are, are filled from the first on, and hold
\* no key twice: growing and closing up keep the array well formed.
THEOREM WellFormed == DictSpec => []DictOK
<1>1. DictInit => DictOK
  BY DictAssumption DEF DictInit, DictOK
<1>2. DictOK /\ [DictNext]_dictVars => DictOK'
  <2> SUFFICES ASSUME DictOK, [DictNext]_dictVars PROVE DictOK'
    OBVIOUS
  <2>1. ASSUME NEW k \in Key, NEW v \in Item, NEW o \in BOOLEAN, ds_strdict_set(k, v, o) PROVE DictOK'
    BY <2>1, SetKeeps
  <2>2. ASSUME NEW k \in Key, ds_strdict_remove(k) PROVE DictOK'
    BY <2>2, RemoveKeeps
  <2>3. CASE ds_strdict_clear
    BY <2>3, ClearKeeps
  <2>4. CASE UNCHANGED dictVars
    BY <2>4 DEF DictOK, dictVars
  <2> QED BY <2>1, <2>2, <2>3, <2>4 DEF DictNext
<1> QED BY <1>1, <1>2, PTL DEF DictSpec

\* The slot a key is in after a step decides what get returns for it then.
LEMMA GetAtSlotNext ==
    ASSUME DictOK', NEW k \in Key, NEW n \in 1 .. count', keys'[n] = k
    PROVE  ds_strdict_get(k)' = vals'[n]
<1>1. Hits(k)' = {n}
  BY DEF DictOK, Hits
<1>2. \A i \in Hits(k)' : (\A j \in Hits(k)' : i <= j) <=> i = n
  BY <1>1 DEF DictOK
<1>3. dict_find_key(k)' = n
  BY <1>1, <1>2 DEF dict_find_key
<1> QED BY <1>1, <1>3 DEF ds_strdict_get

\* GetAbsent, in the next state.
LEMMA GetAbsentNext ==
    ASSUME NEW k \in Key, \A n \in 1 .. count' : keys'[n] # k
    PROVE  ds_strdict_get(k)' = Null
BY DEF ds_strdict_get, Hits

\* The other slots are what they were: setting a key changes its own value alone.
LEMMA SetIsSet ==
    ASSUME DictOK, NEW k \in Key, NEW v \in Item, NEW o \in BOOLEAN, ds_strdict_set(k, v, o)
    PROVE  M!Set(k, v, o)
<1> USE SetKeeps
<1>0. Contents[k] = Null <=> Hits(k) = {}
  BY NullMeansAbsent DEF Contents
<1>1. CASE Hits(k) # {} /\ ~o
  <2>1. dict_res' = "DUPLICATE" /\ UNCHANGED <<capacity, count, keys, vals>>
    BY <1>1 DEF ds_strdict_set
  <2>2. Contents' = Contents
    BY <2>1 DEF Contents, ds_strdict_get, dict_find_key, Hits
  <2> QED BY <1>0, <1>1, <2>1, <2>2 DEF M!Set
<1>2. CASE Hits(k) # {} /\ o
  <2>1. PICK n \in 1 .. count : keys[n] = k
    BY <1>2, SlotOfHit
  <2>2. dict_find_key(k) = n
    BY <2>1, FindsTheSlot
  <2>3. vals' = [vals EXCEPT ![n] = v] /\ dict_res' = "SUCCESS" /\ UNCHANGED <<capacity, count, keys>>
    BY <1>2, <2>2 DEF ds_strdict_set
  <2>4. ASSUME NEW x \in Key PROVE ds_strdict_get(x)' = IF x = k THEN v ELSE ds_strdict_get(x)
    <3>1. CASE \E i \in 1 .. count : keys[i] = x
      <4>1. PICK i \in 1 .. count : keys[i] = x
        BY <3>1
      <4>2. ds_strdict_get(x) = vals[i]
        BY <4>1, GetAtSlot
      <4>3. ds_strdict_get(x)' = vals'[i]
        BY <4>1, <2>3, GetAtSlotNext
      <4>4. i = n <=> x = k
        BY <2>1, <4>1 DEF DictOK
      <4>5. vals'[i] = IF i = n THEN v ELSE vals[i]
        BY <2>3 DEF DictOK
      <4> QED BY <4>2, <4>3, <4>4, <4>5
    <3>2. CASE \A i \in 1 .. count : keys[i] # x
      BY <3>2, <2>1, <2>3, GetAbsent, GetAbsentNext
    <3> QED BY <3>1, <3>2
  <2>5. Contents' = [Contents EXCEPT ![k] = v]
    BY <2>4 DEF Contents
  <2> QED BY <1>0, <1>2, <2>3, <2>5 DEF M!Set
<1>3. CASE Hits(k) = {}
  <2> DEFINE cap == IF capacity = count THEN capacity + DICT_GROW_COUNT ELSE capacity
             Grown(f) == [i \in 1 .. cap |-> IF i <= capacity THEN f[i] ELSE Null]
  <2>1. /\ count' = count + 1 /\ dict_res' = "SUCCESS"
        /\ keys' = [Grown(keys) EXCEPT ![count + 1] = k]
        /\ vals' = [Grown(vals) EXCEPT ![count + 1] = v]
    BY <1>3 DEF ds_strdict_set, StorePair, dict_grow, NewCapacity
  <2>2. cap \in Nat /\ count + 1 \in 1 .. cap /\ capacity <= cap
    BY DictAssumption DEF DictOK
  <2>3. \A i \in 1 .. count' : /\ i \in 1 .. cap
                               /\ keys'[i] = IF i = count + 1 THEN k ELSE keys[i]
                               /\ vals'[i] = IF i = count + 1 THEN v ELSE vals[i]
    <3> HIDE DEF cap
    <3> QED BY <2>1, <2>2 DEF DictOK
  <2> HIDE DEF cap
  <2>4. count + 1 \in 1 .. count' /\ \A i \in 1 .. count : i \in 1 .. count' /\ i # count + 1
    BY <2>1 DEF DictOK
  <2>5. \A i \in 1 .. count' : i = count + 1 \/ i \in 1 .. count
    BY <2>1 DEF DictOK
  <2>6. ASSUME NEW x \in Key PROVE ds_strdict_get(x)' = IF x = k THEN v ELSE ds_strdict_get(x)
    <3>1. CASE x = k
      BY <3>1, <2>3, <2>4, GetAtSlotNext
    <3>2. CASE x # k /\ \E i \in 1 .. count : keys[i] = x
      <4>1. PICK i \in 1 .. count : keys[i] = x
        BY <3>2
      <4>2. keys'[i] = x /\ vals'[i] = vals[i] /\ i \in 1 .. count'
        BY <4>1, <2>3, <2>4
      <4> QED BY <3>2, <4>1, <4>2, GetAtSlot, GetAtSlotNext
    <3>3. CASE x # k /\ \A i \in 1 .. count : keys[i] # x
      <4>1. \A i \in 1 .. count' : keys'[i] # x
        BY <3>3, <2>3, <2>5
      <4> QED BY <3>3, <4>1, GetAbsent, GetAbsentNext
    <3> QED BY <3>1, <3>2, <3>3
  <2>7. Contents' = [Contents EXCEPT ![k] = v]
    BY <2>6 DEF Contents
  <2> QED BY <1>0, <1>3, <2>1, <2>7 DEF M!Set
<1> QED BY <1>1, <1>2, <1>3

\* Closing up loses the pair that is removed and no other.
LEMMA RemoveIsRemove ==
    ASSUME DictOK, NEW k \in Key, ds_strdict_remove(k)
    PROVE  M!Remove(k)
<1>0. Contents[k] = Null <=> Hits(k) = {}
  BY NullMeansAbsent DEF Contents
<1>1. CASE Hits(k) = {}
  <2>1. dict_res' = "NOT_FOUND" /\ UNCHANGED <<capacity, count, keys, vals>>
    BY <1>1 DEF ds_strdict_remove
  <2>2. Contents' = Contents
    BY <2>1 DEF Contents, ds_strdict_get, dict_find_key, Hits
  <2> QED BY <1>0, <1>1, <2>1, <2>2 DEF M!Remove
<1>2. CASE Hits(k) # {}
  <2>1. PICK n \in 1 .. count : keys[n] = k
    BY <1>2, SlotOfHit
  <2>2. /\ count' = count - 1 /\ dict_res' = "SUCCESS"
        /\ \A i \in 1 .. count' : /\ keys'[i] = keys[IF i < n THEN i ELSE i + 1]
                                  /\ vals'[i] = vals[IF i < n THEN i ELSE i + 1]
    BY <2>1, RemoveMoves
  <2>3. DictOK'
    BY RemoveKeeps
  <2>4. ASSUME NEW x \in Key PROVE ds_strdict_get(x)' = IF x = k THEN Null ELSE ds_strdict_get(x)
    <3>1. CASE x # k /\ \E i \in 1 .. count : keys[i] = x
      <4>1. PICK i \in 1 .. count : keys[i] = x
        BY <3>1
      <4> DEFINE j == IF i < n THEN i ELSE i - 1
      <4>2. i # n
        BY <2>1, <3>1, <4>1
      <4>3. j \in 1 .. count' /\ (IF j < n THEN j ELSE j + 1) = i
        BY <2>2, <4>2 DEF DictOK
      <4>4. keys'[j] = x /\ vals'[j] = vals[i]
        BY <2>2, <4>1, <4>3
      <4>5. ds_strdict_get(x)' = vals'[j]
        <5> HIDE DEF j
        <5> QED BY <2>3, <4>3, <4>4, GetAtSlotNext
      <4> QED BY <3>1, <4>1, <4>4, <4>5, GetAtSlot
    <3>2. CASE x = k \/ \A i \in 1 .. count : keys[i] # x
      <4>1. \A i \in 1 .. count' : keys'[i] # x
        <5> SUFFICES ASSUME NEW i \in 1 .. count', keys'[i] = x PROVE FALSE
          OBVIOUS
        <5> DEFINE h == IF i < n THEN i ELSE i + 1
        <5>1. keys[h] = x /\ h \in 1 .. count /\ h # n
          BY <2>2 DEF DictOK
        <5> QED BY <2>1, <3>2, <5>1 DEF DictOK
      <4> QED BY <3>2, <4>1, GetAbsent, GetAbsentNext
    <3> QED BY <3>1, <3>2
  <2>5. Contents' = [Contents EXCEPT ![k] = Null]
    BY <2>4 DEF Contents
  <2> QED BY <1>0, <1>2, <2>2, <2>5 DEF M!Remove
<1> QED BY <1>1, <1>2

\* What get returns is a map from keys to values under set, remove and clear, for all keys
\* and values, any growth, and any environment the dictionary is made from.
THEOREM DictIsMap == DictSpec => ImplementsMap
<1>1. DictInit => M!Init
  <2> SUFFICES ASSUME DictInit PROVE M!Init
    OBVIOUS
  <2>1. DictOK
    BY DictAssumption DEF DictInit, DictOK
  <2>2. \A k \in Key : ds_strdict_get(k) \in Item \cup {Null}
    BY <2>1, GetAtSlot, GetAbsent
  <2> QED BY <2>2 DEF DictInit, M!Init, Contents
<1>2. DictOK /\ [DictNext]_dictVars => [M!Next]_<<Contents, dict_res>>
  <2> SUFFICES ASSUME DictOK, [DictNext]_dictVars PROVE [M!Next]_<<Contents, dict_res>>
    OBVIOUS
  <2>1. ASSUME NEW k \in Key, NEW v \in Item, NEW o \in BOOLEAN, ds_strdict_set(k, v, o)
        PROVE  M!Next
    BY <2>1, SetIsSet DEF M!Next
  <2>2. ASSUME NEW k \in Key, ds_strdict_remove(k) PROVE M!Next
    BY <2>2, RemoveIsRemove DEF M!Next
  <2>3. CASE ds_strdict_clear
    <3>1. dict_res' = "SUCCESS" /\ \A k \in Key : ds_strdict_get(k)' = Null
      BY <2>3, GetAbsentNext DEF ds_strdict_clear
    <3> QED BY <3>1 DEF M!Next, M!Clear, Contents
  <2>4. CASE UNCHANGED dictVars
    BY <2>4 DEF dictVars, Contents, ds_strdict_get, dict_find_key, Hits
  <2> QED BY <2>1, <2>2, <2>3, <2>4 DEF DictNext
<1> QED BY <1>1, <1>2, WellFormed, PTL DEF DictSpec, ImplementsMap, M!MapSpec
=============================================================================
