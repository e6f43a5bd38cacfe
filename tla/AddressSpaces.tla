--------------------------- MODULE AddressSpaces ---------------------------
(***************************************************************************)
(* What paging, fork, exec and brk promise together: every task has its    *)
(* own memory.  A fork copies it; a store changes one page of one task.    *)
(***************************************************************************)
CONSTANTS Task, VPage, Loaded, Heap, Stack, Value, Image, Zero, Unmapped

VARIABLE mem        \* task -> virtual page -> contents

Nothing == [v \in VPage |-> Unmapped]
Fresh   == [v \in VPage |-> IF v \in Loaded THEN Image
                            ELSE IF v \in Stack THEN Zero ELSE Unmapped]

OneTask == \E t \in Task : mem = [u \in Task |-> IF u = t THEN Fresh ELSE Nothing]

Store(t, v, x) == mem[t][v] # Unmapped /\ mem' = [mem EXCEPT ![t][v] = x]
Fork(p, c)     == mem[c] = Nothing /\ mem' = [mem EXCEPT ![c] = mem[p]]
Exec(t)        == mem' = [mem EXCEPT ![t] = Fresh]
Discard(t)     == mem' = [mem EXCEPT ![t] = Nothing]
Grow(t, V)     == /\ \A v \in V : mem[t][v] = Unmapped
                  /\ mem' = [mem EXCEPT ![t] = [v \in VPage |-> IF v \in V THEN Zero ELSE @[v]]]
Shrink(t, V)   == mem' = [mem EXCEPT ![t] = [v \in VPage |-> IF v \in V THEN Unmapped ELSE @[v]]]

MemNext == \E t \in Task :
              \/ \E v \in VPage, x \in Value : Store(t, v, x)
              \/ \E c \in Task : Fork(t, c)
              \/ Exec(t) \/ Discard(t)
              \/ \E V \in SUBSET Heap : Grow(t, V) \/ Shrink(t, V)

MemSpec == OneTask /\ [][MemNext]_mem
=============================================================================
