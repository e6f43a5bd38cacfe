----------------------------- MODULE HeapBlocks -----------------------------
(***************************************************************************)
(* What kmalloc.h promises: a set of blocks of memory in use, apart from    *)
(* each other and from the allocator's own records.  A step takes a block,  *)
(* gives one back or (krealloc) exchanges one for another, and disturbs no  *)
(* other block.  A block is <<address, size>>.                              *)
(***************************************************************************)
EXTENDS Integers, FiniteSets

VARIABLES blocks, records

Extent(b) == b[1] .. b[1] + b[2] - 1

HInit == blocks = {} /\ records = {}

Exchange == /\ Cardinality(blocks \ blocks') <= 1
            /\ Cardinality(blocks' \ blocks) <= 1
            /\ \A b \in blocks' \ blocks : \A c \in (blocks' \cup records') \ {b} :
                    Extent(b) \cap Extent(c) = {}
            /\ \A b \in blocks', c \in records' \ records : Extent(b) \cap Extent(c) = {}

HSpec == HInit /\ [][Exchange]_<<blocks, records>>
=============================================================================
