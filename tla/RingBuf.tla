------------------------------ MODULE RingBuf ------------------------------
(***************************************************************************)
(* libds/src/ringbuf.c: a ring buffer over an array.  The state is the     *)
(* struct ds_ringbuf_s without capacity and item_size, which are constants *)
(* of one buffer.  The calls with a NULL buffer (DS_ERR_INVALID) touch no  *)
(* state and are left out.                                                 *)
(***************************************************************************)
EXTENDS Naturals, Sequences

CONSTANTS Capacity,     \* ringbuf->capacity
          Value         \* the possible contents of one item

ASSUME CapacityAssumption == Capacity \in Nat \ {0}

VARIABLES storage,      \* ringbuf->storage, one entry per item
          read_ptr, write_ptr, current_count,
          fail_on_full, \* set by ds_ringbuf_create, never changed
          res,          \* the ds_result_t of the last call
          got           \* what the last successful pop or peek copied out

vars == <<storage, read_ptr, write_ptr, current_count, fail_on_full, res, got>>

Index == 0..(Capacity - 1)

Result == {"DS_SUCCESS", "DS_ERR_FULL", "DS_ERR_EMPTY"}

\* The type invariant: the pointers stay inside the storage of ringbuf.c and
\* the count within the capacity.
TypeOK == /\ storage \in [Index -> Value]
          /\ read_ptr \in Index /\ write_ptr \in Index
          /\ current_count \in 0..Capacity
          /\ fail_on_full \in BOOLEAN
          /\ res \in Result /\ got \in Value

\* ds_ringbuf_create: the storage is not cleared, so it may hold anything.
Init == /\ storage \in [Index -> Value]
        /\ read_ptr = 0 /\ write_ptr = 0 /\ current_count = 0
        /\ fail_on_full \in BOOLEAN
        /\ res = "DS_SUCCESS" /\ got \in Value

AdvanceNoWrap(p) == p + 1

\* (ptr + 1) % ringbuf->capacity
Advance(p) == (p + 1) % Capacity

\* Store v at the write pointer; "count" is current_count on entry, less one
\* when the oldest item was given up.
Store(v, count) ==
    /\ storage' = [storage EXCEPT ![write_ptr] = v]
    /\ write_ptr' = Advance(write_ptr)
    /\ current_count' = count + 1
    /\ res' = "DS_SUCCESS"

PushKeepsOldest(v) ==
    /\ IF current_count = Capacity
       THEN IF fail_on_full
            THEN res' = "DS_ERR_FULL"
                 /\ UNCHANGED <<storage, read_ptr, write_ptr, current_count>>
            ELSE Store(v, current_count - 1) /\ UNCHANGED read_ptr
       ELSE Store(v, current_count) /\ UNCHANGED read_ptr
    /\ UNCHANGED <<fail_on_full, got>>

ds_ringbuf_push(v) ==
    /\ IF current_count = Capacity
       THEN IF fail_on_full
            THEN res' = "DS_ERR_FULL"
                 /\ UNCHANGED <<storage, read_ptr, write_ptr, current_count>>
            ELSE read_ptr' = Advance(read_ptr) /\ Store(v, current_count - 1)
       ELSE Store(v, current_count) /\ UNCHANGED read_ptr
    /\ UNCHANGED <<fail_on_full, got>>

Empty == /\ current_count = 0 /\ res' = "DS_ERR_EMPTY"
         /\ UNCHANGED <<storage, read_ptr, write_ptr, current_count, fail_on_full, got>>

ds_ringbuf_pop ==
    \/ Empty
    \/ /\ current_count # 0
       /\ got' = storage[read_ptr]
       /\ read_ptr' = Advance(read_ptr)
       /\ current_count' = current_count - 1
       /\ res' = "DS_SUCCESS"
       /\ UNCHANGED <<storage, write_ptr, fail_on_full>>

ds_ringbuf_peek ==
    \/ Empty
    \/ /\ current_count # 0
       /\ got' = storage[read_ptr]
       /\ res' = "DS_SUCCESS"
       /\ UNCHANGED <<storage, read_ptr, write_ptr, current_count, fail_on_full>>

ds_ringbuf_poke(v) ==
    \/ Empty
    \/ /\ current_count # 0
       /\ storage' = [storage EXCEPT ![read_ptr] = v]
       /\ res' = "DS_SUCCESS"
       /\ UNCHANGED <<read_ptr, write_ptr, current_count, fail_on_full, got>>

ds_ringbuf_clear ==
    /\ current_count' = 0 /\ read_ptr' = 0 /\ write_ptr' = 0
    /\ res' = "DS_SUCCESS"
    /\ UNCHANGED <<storage, fail_on_full, got>>

Next == \/ \E v \in Value : ds_ringbuf_push(v) \/ ds_ringbuf_poke(v)
        \/ ds_ringbuf_pop \/ ds_ringbuf_peek \/ ds_ringbuf_clear

Spec == Init /\ [][Next]_vars

----------------------------------------------------------------------------
\* Where the k-th oldest item (k from 0) lies: k slots after the read pointer.
Slot(k) == IF read_ptr + k < Capacity THEN read_ptr + k ELSE read_ptr + k - Capacity

\* The stored items, oldest first.
Items == [i \in 1..current_count |-> storage[Slot(i - 1)]]

Fifo == INSTANCE BoundedFifo WITH items <- Items

\* Every call of ringbuf.c has the result, delivers the item and leaves the
\* contents that the FIFO of ringbuf.h would: nothing is lost, duplicated or
\* reordered when the pointers wrap.
ImplementsFifo == Fifo!FifoSpec
=============================================================================
