--------------------------- MODULE RingBufProofs ---------------------------
(***************************************************************************)
(* Proofs about RingBuf for every capacity and every set of item values:   *)
(* the pointers stay in range, and the array with its two pointers         *)
(* implements the FIFO of BoundedFifo.                                     *)
(***************************************************************************)
EXTENDS RingBuf, TLAPS

\* The inductive invariant: besides the types, the write pointer is where the
\* item after the newest one belongs.  push relies on it to append at the end
\* although it only looks at write_ptr, and pop although it only looks at
\* read_ptr.
IInv == TypeOK /\ write_ptr = Slot(current_count)

\* The modulo of ringbuf.c, for a pointer that is in range: it wraps to 0
\* exactly at the last slot.
LEMMA AdvanceWraps ==
    ASSUME NEW p \in Index
    PROVE  Advance(p) = IF p + 1 = Capacity THEN 0 ELSE p + 1
<1>1. Capacity \in Nat /\ Capacity > 0
  BY CapacityAssumption
<1>2. CASE p + 1 = Capacity
  BY <1>1, <1>2 DEF Advance, Index
<1>3. CASE p + 1 # Capacity
  BY <1>1, <1>3 DEF Advance, Index
<1> QED BY <1>2, <1>3

\* Every call of ringbuf.c keeps the inductive invariant.
LEMMA IInvInductive == IInv /\ [Next]_vars => IInv'
<1> SUFFICES ASSUME IInv, [Next]_vars PROVE IInv'
  OBVIOUS
<1> USE CapacityAssumption DEF Index, Result
<1>0. TypeOK /\ write_ptr = Slot(current_count) /\ Capacity \in Nat /\ Capacity > 0
  BY DEF IInv
<1>1. /\ Advance(read_ptr) = IF read_ptr + 1 = Capacity THEN 0 ELSE read_ptr + 1
      /\ Advance(write_ptr) = IF write_ptr + 1 = Capacity THEN 0 ELSE write_ptr + 1
  BY <1>0, AdvanceWraps DEF TypeOK
<1>2. ASSUME NEW v \in Value, ds_ringbuf_push(v) PROVE IInv'
  <2>1. CASE current_count = Capacity /\ fail_on_full
    BY <1>0, <1>2, <2>1 DEF IInv, TypeOK, Slot, ds_ringbuf_push
  <2>2. CASE current_count = Capacity /\ ~fail_on_full
    BY <1>0, <1>1, <1>2, <2>2 DEF IInv, TypeOK, Slot, ds_ringbuf_push, Store
  <2>3. CASE current_count # Capacity
    BY <1>0, <1>1, <1>2, <2>3 DEF IInv, TypeOK, Slot, ds_ringbuf_push, Store
  <2> QED BY <2>1, <2>2, <2>3
<1>3. ASSUME NEW v \in Value, ds_ringbuf_poke(v) PROVE IInv'
  BY <1>0, <1>3 DEF IInv, TypeOK, Slot, ds_ringbuf_poke, Empty
<1>4. CASE ds_ringbuf_pop
  BY <1>0, <1>1, <1>4 DEF IInv, TypeOK, Slot, ds_ringbuf_pop, Empty
<1>5. CASE ds_ringbuf_peek
  BY <1>0, <1>5 DEF IInv, TypeOK, Slot, ds_ringbuf_peek, Empty
<1>6. CASE ds_ringbuf_clear
  BY <1>0, <1>6 DEF IInv, TypeOK, Slot, ds_ringbuf_clear
<1>7. CASE UNCHANGED vars
  BY <1>0, <1>7 DEF IInv, TypeOK, Slot, vars
<1> QED BY <1>2, <1>3, <1>4, <1>5, <1>6, <1>7 DEF Next

\* What ds_ringbuf_create sets up satisfies it.
LEMMA InitIInv == Init => IInv
BY CapacityAssumption DEF Init, IInv, TypeOK, Slot, Index, Result

\* The pointers of ringbuf.c never leave the storage and the count never
\* exceeds the capacity, for every capacity.
THEOREM TypeCorrect == Spec => []TypeOK
<1>1. IInv => TypeOK
  BY DEF IInv
<1> QED BY <1>1, InitIInv, IInvInductive, PTL DEF Spec

----------------------------------------------------------------------------
\* What the stored items look like as a sequence.
LEMMA ItemsType == IInv => Items \in Seq(Value) /\ Len(Items) = current_count
<1> SUFFICES ASSUME IInv PROVE Items \in Seq(Value) /\ Len(Items) = current_count
  OBVIOUS
<1>1. current_count \in Nat
  BY CapacityAssumption DEF IInv, TypeOK
<1>2. ASSUME NEW i \in 1..current_count PROVE storage[Slot(i - 1)] \in Value
  BY <1>2, CapacityAssumption DEF IInv, TypeOK, Slot, Index
<1> QED BY <1>1, <1>2 DEF Items

\* A call of ringbuf.c is a call of the FIFO.
LEMMA StepImplements ==
    ASSUME IInv, IInv', [Next]_vars
    PROVE  [Fifo!FifoNext]_(Fifo!avars)
<1> USE CapacityAssumption DEF Index
<1>0. /\ TypeOK /\ write_ptr = Slot(current_count)
      /\ TypeOK' /\ write_ptr' = Slot(current_count)'
      /\ Capacity \in Nat /\ Capacity > 0
  BY DEF IInv
<1>1. /\ Advance(read_ptr) = IF read_ptr + 1 = Capacity THEN 0 ELSE read_ptr + 1
      /\ Advance(write_ptr) = IF write_ptr + 1 = Capacity THEN 0 ELSE write_ptr + 1
  BY <1>0, AdvanceWraps DEF TypeOK
<1>j. (IInv => Items \in Seq(Value) /\ Len(Items) = current_count)'
  BY ItemsType, PTL
<1>i. /\ Items \in Seq(Value) /\ Len(Items) = current_count
      /\ Items' \in Seq(Value) /\ Len(Items') = current_count'
  BY <1>j, ItemsType
<1>2. ASSUME NEW v \in Value, ds_ringbuf_push(v) PROVE Fifo!Push(v)
  <2>1. CASE current_count = Capacity /\ fail_on_full
    BY <1>0, <1>i, <1>2, <2>1 DEF Fifo!Push, Fifo!PushFails, ds_ringbuf_push, Items, Slot
  <2>2. CASE current_count = Capacity /\ ~fail_on_full
    <3> DEFINE moved == Append(Tail(Items), v)
    <3>a. /\ moved \in Seq(Value) /\ Len(moved) = Capacity
          /\ \A i \in 1..Capacity :
                moved[i] = IF i = Capacity THEN v ELSE Items[i + 1]
      BY <1>0, <1>i, <2>2
    <3>b. current_count' = Capacity
      BY <1>0, <1>2, <2>2 DEF ds_ringbuf_push, Store
    <3> HIDE DEF moved
    <3>s. /\ storage' = [storage EXCEPT ![write_ptr] = v]
          /\ read_ptr' = Advance(read_ptr)
      BY <1>2, <2>2 DEF ds_ringbuf_push, Store
    <3>c. ASSUME NEW i \in 1..Capacity PROVE Items'[i] = moved[i]
      <4>1. Items'[i] = storage'[Slot(i - 1)']
        BY <1>0, <3>b DEF Items
      <4>2. CASE i = Capacity
        BY <1>0, <1>1, <2>2, <3>a, <3>s, <4>1, <4>2 DEF Slot, TypeOK
      <4>3. CASE i # Capacity
        <5>1. Items[i + 1] = storage[Slot(i)]
          BY <1>0, <2>2, <4>3 DEF Items
        <5>2. Slot(i - 1)' = Slot(i) /\ Slot(i) \in Index /\ Slot(i) # write_ptr
          BY <1>0, <1>1, <2>2, <3>s, <4>3 DEF Slot, TypeOK
        <5> QED BY <1>0, <3>a, <3>s, <4>1, <4>3, <5>1, <5>2 DEF TypeOK
      <4> QED BY <4>2, <4>3
    <3>1. Items' = moved
      BY <1>i, <3>a, <3>b, <3>c
    <3> QED BY <1>i, <1>2, <2>2, <3>1 DEF moved, Fifo!Push, Fifo!PushDrops, ds_ringbuf_push, Store
  <2>3. CASE current_count # Capacity
    <3> DEFINE grown == Append(Items, v)
    <3>a. /\ grown \in Seq(Value) /\ Len(grown) = current_count + 1
          /\ \A i \in 1..(current_count + 1) :
                grown[i] = IF i = current_count + 1 THEN v ELSE Items[i]
      BY <1>i
    <3>b. /\ storage' = [storage EXCEPT ![write_ptr] = v]
          /\ read_ptr' = read_ptr /\ current_count' = current_count + 1
      BY <1>2, <2>3 DEF ds_ringbuf_push, Store
    <3> HIDE DEF grown
    <3>c. ASSUME NEW i \in 1..(current_count + 1) PROVE Items'[i] = grown[i]
      <4>1. Items'[i] = storage'[Slot(i - 1)']
        BY <1>0, <3>b DEF Items
      <4>2. Slot(i - 1)' = Slot(i - 1) /\ Slot(i - 1) \in Index
        BY <1>0, <2>3, <3>b DEF Slot, TypeOK
      <4>3. CASE i = current_count + 1
        BY <1>0, <3>a, <3>b, <4>1, <4>2, <4>3 DEF TypeOK
      <4>4. CASE i # current_count + 1
        <5>1. Items[i] = storage[Slot(i - 1)]
          BY <1>0, <4>4 DEF Items, TypeOK
        <5>2. Slot(i - 1) # write_ptr
          BY <1>0, <2>3, <4>4 DEF Slot, TypeOK
        <5> QED BY <1>0, <3>a, <3>b, <4>1, <4>2, <4>4, <5>1, <5>2 DEF TypeOK
      <4> QED BY <4>3, <4>4
    <3>1. Items' = Append(Items, v)
      BY <1>i, <3>a, <3>b, <3>c DEF grown
    <3> QED BY <1>0, <1>i, <1>2, <2>3, <3>1 DEF Fifo!Push, Fifo!PushFits, ds_ringbuf_push, Store, TypeOK
  <2> QED BY <2>1, <2>2, <2>3
<1>3. ASSUME NEW v \in Value, ds_ringbuf_poke(v) PROVE Fifo!Poke(v)
  <2>1. CASE current_count = 0
    BY <1>0, <1>i, <1>3, <2>1 DEF Fifo!Poke, Fifo!Empty, ds_ringbuf_poke, Empty, Items, Slot
  <2>2. CASE current_count # 0
    <3>a. /\ storage' = [storage EXCEPT ![read_ptr] = v]
          /\ read_ptr' = read_ptr /\ current_count' = current_count
      BY <1>3, <2>2 DEF ds_ringbuf_poke, Empty
    <3>b. ASSUME NEW i \in 1..current_count
          PROVE  storage'[Slot(i - 1)'] = IF i = 1 THEN v ELSE storage[Slot(i - 1)]
      BY <1>0, <2>2, <3>a DEF Slot, TypeOK
    <3>1. Items' = [Items EXCEPT ![1] = v]
      BY <1>0, <2>2, <3>a, <3>b DEF Items
    <3> QED BY <1>0, <1>i, <1>3, <2>2, <3>1 DEF Fifo!Poke, ds_ringbuf_poke, Empty
  <2> QED BY <2>1, <2>2
<1>4. ASSUME ds_ringbuf_pop PROVE Fifo!Pop
  <2>1. CASE current_count = 0
    BY <1>0, <1>i, <1>4, <2>1 DEF Fifo!Pop, Fifo!Empty, ds_ringbuf_pop, Empty, Items, Slot
  <2>2. CASE current_count # 0
    <3>1. Items' = Tail(Items)
      BY <1>0, <1>1, <1>i, <1>4, <2>2 DEF Items, Slot, TypeOK, ds_ringbuf_pop, Empty
    <3>2. Head(Items) = storage[read_ptr]
      BY <1>0, <1>i, <2>2 DEF Items, Slot, TypeOK
    <3> QED BY <1>0, <1>i, <1>4, <2>2, <3>1, <3>2 DEF Fifo!Pop, ds_ringbuf_pop, Empty
  <2> QED BY <2>1, <2>2
<1>5. ASSUME ds_ringbuf_peek PROVE Fifo!Peek
  <2>1. CASE current_count = 0
    BY <1>0, <1>i, <1>5, <2>1 DEF Fifo!Peek, Fifo!Empty, ds_ringbuf_peek, Empty, Items, Slot
  <2>2. CASE current_count # 0
    <3>1. Head(Items) = storage[read_ptr]
      BY <1>0, <1>i, <2>2 DEF Items, Slot, TypeOK
    <3>2. Items' = Items
      BY <1>5, <2>2 DEF Items, Slot, ds_ringbuf_peek, Empty
    <3> QED BY <1>0, <1>i, <1>5, <2>2, <3>1, <3>2 DEF Fifo!Peek, ds_ringbuf_peek, Empty
  <2> QED BY <2>1, <2>2
<1>6. ASSUME ds_ringbuf_clear PROVE Fifo!Clear
  BY <1>0, <1>i, <1>6 DEF Fifo!Clear, ds_ringbuf_clear
<1>7. CASE UNCHANGED vars
  BY <1>7 DEF Fifo!avars, vars, Items, Slot
<1> QED BY <1>2, <1>3, <1>4, <1>5, <1>6, <1>7 DEF Next, Fifo!FifoNext

\* The array of ringbuf.c with its two pointers implements the FIFO its
\* header promises, for every capacity and every set of item values.
THEOREM RingBufImplementsFifo == Spec => ImplementsFifo
<1>1. Init => Fifo!FifoInit
  <2> SUFFICES ASSUME Init PROVE Fifo!FifoInit
    OBVIOUS
  <2>1. Items = <<>>
    BY InitIInv, ItemsType DEF Init
  <2> QED BY <2>1 DEF Init, Fifo!FifoInit
<1>2. IInv /\ IInv' /\ [Next]_vars => [Fifo!FifoNext]_(Fifo!avars)
  BY StepImplements
<1> QED BY <1>1, <1>2, InitIInv, IInvInductive, PTL DEF Spec, ImplementsFifo, Fifo!FifoSpec
=============================================================================
