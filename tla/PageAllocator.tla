--------------------------- MODULE PageAllocator ---------------------------
(***************************************************************************)
(* What kernel/memory/pmm.h promises: a pool of page frames, each with the *)
(* number of references to it; 0 means free.  An allocation hands out      *)
(* frames that nobody references.                                          *)
(***************************************************************************)
EXTENDS Naturals

CONSTANT Frame
VARIABLE refs

InitialRefs == refs = [f \in Frame |-> 0]

Alloc(F) == /\ F # {} /\ \A f \in F : refs[f] = 0
            /\ refs' = [f \in Frame |-> IF f \in F THEN 1 ELSE refs[f]]

Share(f) == refs[f] > 0 /\ refs' = [refs EXCEPT ![f] = @ + 1]

\* One reference of a shared frame is given up.
Drop(f) == refs[f] > 1 /\ refs' = [refs EXCEPT ![f] = @ - 1]

Free(F) == /\ F # {} /\ \A f \in F : refs[f] = 1
           /\ refs' = [f \in Frame |-> IF f \in F THEN 0 ELSE refs[f]]

PoolNext == \/ \E F \in SUBSET Frame : Alloc(F) \/ Free(F)
            \/ \E f \in Frame : Share(f) \/ Drop(f)

PoolSpec == InitialRefs /\ [][PoolNext]_refs
=============================================================================
