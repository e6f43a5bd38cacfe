---------------------------- MODULE BoundedFifo ----------------------------
(***************************************************************************)
(* What libds/ringbuf.h promises of a ring buffer: a FIFO of at most       *)
(* Capacity items.  A push into a full buffer either fails and loses the   *)
(* newest item, or succeeds and loses the oldest one.  RingBuf is shown to *)
(* implement this specification; the modules of the clients (pipes, the    *)
(* ATA request queue) use a sequence with these operations instead of the  *)
(* index arithmetic.                                                       *)
(***************************************************************************)
EXTENDS Naturals, Sequences

CONSTANTS Capacity,     \* number of items the buffer holds
          Value         \* the items

VARIABLES items,        \* the stored items, oldest first
          fail_on_full, \* the fail_on_full argument of ds_ringbuf_create
          res,          \* result code of the last call
          got           \* what the last successful pop or peek delivered

avars == <<items, fail_on_full, res, got>>

Result == {"DS_SUCCESS", "DS_ERR_FULL", "DS_ERR_EMPTY"}

FifoInit == /\ items = <<>> /\ fail_on_full \in BOOLEAN
            /\ res = "DS_SUCCESS" /\ got \in Value

\* A push that finds room, one that fails, and one that drops the oldest item.
PushFits(v) == /\ Len(items) < Capacity
               /\ items' = Append(items, v) /\ res' = "DS_SUCCESS"
PushFails   == /\ Len(items) = Capacity /\ fail_on_full
               /\ res' = "DS_ERR_FULL" /\ UNCHANGED items
PushDrops(v) == /\ Len(items) = Capacity /\ ~fail_on_full
                /\ items' = Append(Tail(items), v) /\ res' = "DS_SUCCESS"
Push(v) == (PushFits(v) \/ PushFails \/ PushDrops(v)) /\ UNCHANGED <<fail_on_full, got>>

Empty == items = <<>> /\ res' = "DS_ERR_EMPTY" /\ UNCHANGED <<items, fail_on_full, got>>

Pop  == \/ Empty
        \/ /\ items # <<>> /\ res' = "DS_SUCCESS"
           /\ got' = Head(items) /\ items' = Tail(items) /\ UNCHANGED fail_on_full
Peek == \/ Empty
        \/ /\ items # <<>> /\ res' = "DS_SUCCESS"
           /\ got' = Head(items) /\ UNCHANGED <<items, fail_on_full>>
Poke(v) == \/ Empty
           \/ /\ items # <<>> /\ res' = "DS_SUCCESS"
              /\ items' = [items EXCEPT ![1] = v] /\ UNCHANGED <<fail_on_full, got>>
Clear == items' = <<>> /\ res' = "DS_SUCCESS" /\ UNCHANGED <<fail_on_full, got>>

FifoNext == (\E v \in Value : Push(v) \/ Poke(v)) \/ Pop \/ Peek \/ Clear
FifoSpec == FifoInit /\ [][FifoNext]_avars
=============================================================================
