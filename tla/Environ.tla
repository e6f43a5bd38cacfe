------------------------------ MODULE Environ -------------------------------
(***************************************************************************)
(* A process that uses the heap of the C library and its environment       *)
(* (libc/src/stdlib, usermode/crt0.c).  environ starts as the array the    *)
(* kernel put on the stack, behind argv and its NULL; adding a variable    *)
(* reallocates it.                                                         *)
(*                                                                         *)
(*   live     history: the pointers in use and the sizes asked for         *)
(*   env      history: the variables by name                               *)
(***************************************************************************)
EXTENDS Integers, Sequences, SequencesExt, FiniteSets, TLC

CONSTANTS HeaderSize, MIN_ALLOC, PAGE_SIZE,
          HeapBase, HeapMax,    \* heap_start and heap_max of the task
          Word,                 \* the number of values of a size_t
          Sizes, Name, Value,   \* what the process asks for, names and values
          Argc, Limits,         \* the number of arguments, how far the free frames reach
          MaxCalls              \* bound on the calls

VARIABLES heap, environ, argv, live, env, fault, calls

vars == <<heap, environ, argv, live, env, fault, calls>>

----------------------------------------------------------------------------
\* malloc and free as operators on a heap:
\*   start  heap_start, 0 before the first call
\*   brk    the end of the heap, moved by sbrk
\*   limit  how far there are frames for it
\*   hdr    address -> header (PRESENT flag, length, next)
\* A call returns the heap, the pointer, and what went wrong: it read a header that is
\* not there ("unmapped"), or it works on memory it did not get ("astray").
NULL == 0
NewHeap(limit) == [start |-> NULL, brk |-> HeapBase, limit |-> limit, hdr |-> <<>>]
Fine == [why |-> "", size |-> 0]
Free(len, next) == [used |-> FALSE, len |-> len, next |-> next]

RECURSIVE ChainFrom(_, _)
ChainFrom(hp, a) == IF a = NULL THEN <<>> ELSE <<a>> \o ChainFrom(hp, hp.hdr[a].next)

\* The headers in the order of the list.
Chain(hp) == ChainFrom(hp, hp.start)

find_fit(hp, size) ==
    LET fits == SelectSeq(Chain(hp), LAMBDA a : ~hp.hdr[a].used /\ hp.hdr[a].len >= size)
    IN  IF fits = <<>> THEN NULL ELSE fits[1]

PageUp(a) == ((a + PAGE_SIZE - 1) \div PAGE_SIZE) * PAGE_SIZE

\* sys_brk keeps the break when the page does not change or the frames run out, which
\* sbrk reports as a failure.  It answers 0 below heap_start and an error above
\* heap_max, and sbrk takes either for the new break; an increment of 2^31 or more
\* moves the break down.
sbrk(hp, increment) ==
    LET new == (hp.brk + increment) % Word
        same == \/ new = NULL
                \/ new \in HeapBase .. HeapMax /\ (PageUp(new) = PageUp(hp.brk) \/ PageUp(new) > hp.limit)
    IN  [hp |-> IF same \/ new \notin HeapBase .. HeapMax THEN hp ELSE [hp EXCEPT !.brk = new],
         ok |-> ~same, up |-> new \in hp.brk + 1 .. HeapMax]

\* What extend_heap asks sbrk for.
TotalSize(size) ==
    LET total == (size + HeaderSize) % Word IN IF total < PAGE_SIZE THEN PAGE_SIZE ELSE total

\* Mutant: a free last block grows only by the size that is asked for.
ExtendsShort(hp, size) ==
    LET total == TotalSize(size)
        last == Last(Chain(hp))
        moved == sbrk(hp, total)
        entry == hp.brk :> Free(total - HeaderSize, NULL)
    IN  IF ~moved.ok THEN [hp |-> hp, at |-> NULL, up |-> TRUE]
        ELSE IF hp.hdr[last].used
             THEN [hp |-> [moved.hp EXCEPT !.hdr = entry @@ [@ EXCEPT ![last].next = hp.brk]], at |-> hp.brk, up |-> moved.up]
             ELSE [hp |-> [moved.hp EXCEPT !.hdr[last].len = @ + size], at |-> last, up |-> moved.up]

\* sbrk by at least a page; a free last block takes in the new memory.
extend_heap(hp, size) ==
    LET total == TotalSize(size)
        last == Last(Chain(hp))
        moved == sbrk(hp, total)
        entry == hp.brk :> Free(total - HeaderSize, NULL)
    IN  IF ~moved.ok THEN [hp |-> hp, at |-> NULL, up |-> TRUE]
        ELSE IF hp.hdr[last].used
             THEN [hp |-> [moved.hp EXCEPT !.hdr = entry @@ [@ EXCEPT ![last].next = hp.brk]], at |-> hp.brk, up |-> moved.up]
             ELSE [hp |-> [moved.hp EXCEPT !.hdr[last].len = @ + total], at |-> last, up |-> moved.up]

split_block(hp, b, size) ==
    LET remainder == hp.hdr[b].len - size
        next == b + HeaderSize + size
    IN  IF remainder < HeaderSize + MIN_ALLOC THEN hp
        ELSE [hp EXCEPT !.hdr = (next :> Free(remainder - HeaderSize, hp.hdr[b].next))
                                @@ [@ EXCEPT ![b].len = size, ![b].next = next]]

\* The first call makes one free block of the first page.  heap_start is set before
\* sbrk is tried.
FirstPage(hp) ==
    LET moved == sbrk(hp, PAGE_SIZE)
    IN  [moved.hp EXCEPT !.start = hp.brk,
                         !.hdr = IF moved.ok THEN hp.brk :> Free(PAGE_SIZE - HeaderSize, NULL) ELSE <<>>]

\* A block that sbrk did not provide, or that is shorter than what is asked for since
\* the size wrapped around, is written to all the same; what that does to the process
\* is not followed.
malloc(hp, size) ==
    LET first == hp.start = NULL
        h == IF first THEN FirstPage(hp) ELSE hp
        mapped == h.start \in DOMAIN h.hdr
        want == IF size < MIN_ALLOC THEN MIN_ALLOC ELSE size
        fit == find_fit(h, want)
        got == IF fit = NULL THEN extend_heap(h, want) ELSE [hp |-> h, at |-> fit, up |-> TRUE]
        none(why) == [hp |-> h, ptr |-> NULL, fault |-> [why |-> why, size |-> IF why = "" THEN 0 ELSE want]]
    IN  IF ~mapped THEN none(IF first \/ size = 0 THEN "" ELSE "unmapped")
        ELSE IF size = 0 \/ got.at = NULL THEN none("")
        ELSE IF ~got.up \/ got.hp.hdr[got.at].len < want THEN none("astray")
        ELSE [hp |-> [split_block(got.hp, got.at, want) EXCEPT !.hdr[got.at].used = TRUE],
              ptr |-> got.at + HeaderSize, fault |-> Fine]

calloc(hp, count, size) ==
    LET final == (count * size) % Word
    IN  IF count # 0 /\ final \div count # size THEN [hp |-> hp, ptr |-> NULL, fault |-> Fine]
        ELSE malloc(hp, final)

free(hp, ptr) ==
    LET e == ptr - HeaderSize
        n == hp.hdr[e].next
        one == IF n # NULL /\ ~hp.hdr[n].used
               THEN [hp EXCEPT !.hdr[e] = Free(@.len + hp.hdr[n].len + HeaderSize, hp.hdr[n].next)]
               ELSE [hp EXCEPT !.hdr[e].used = FALSE]
        before == SelectSeq(Chain(one), LAMBDA a : one.hdr[a].next = e)
    IN  IF before # <<>> /\ ~one.hdr[before[1]].used
        THEN [one EXCEPT !.hdr[before[1]] = Free(@.len + one.hdr[e].len + HeaderSize, one.hdr[e].next)]
        ELSE one

----------------------------------------------------------------------------
InitialArray == -1      \* the address of the array crt0 finds
Entry(name, value) == [name |-> name, value |-> value]
Names(list) == {list[i].name : i \in DOMAIN list}

\* _crt_start: environ is the array on the stack.
Init ==
    /\ heap \in {NewHeap(l) : l \in Limits}
    /\ environ \in {[at |-> InitialArray, list |-> l] : l \in {<<>>, <<Entry("a", 1)>>}}
    /\ argv = [i \in 1 .. Argc |-> "ok"]
    /\ live = <<>>
    /\ env = [n \in Names(environ.list) |-> 1]
    /\ fault = Fine /\ calls = 0

Call == calls < MaxCalls /\ calls' = calls + 1 /\ fault = Fine

With(f, p, size) == IF p = NULL THEN f ELSE (p :> size) @@ f
Without(f, p) == [q \in DOMAIN f \ {p} |-> f[q]]

\* free of the array on the stack: the words before it are taken for a header.  The
\* flags are in the last but one argument, next is the NULL behind argv.
FreeStack(args) == IF Argc > 1 THEN [args EXCEPT ![Argc - 1] = "damaged"] ELSE args

----------------------------------------------------------------------------
\* What the program itself allocates.
Malloc(size) ==
    LET r == malloc(heap, size)
    IN  /\ Call
        /\ heap' = r.hp /\ fault' = r.fault /\ live' = With(live, r.ptr, size)
        /\ UNCHANGED <<environ, argv, env>>

\* The product wraps around where the machine's does.
Calloc(count, size) ==
    LET r == calloc(heap, count, size)
    IN  /\ Call
        /\ heap' = r.hp /\ fault' = r.fault /\ live' = With(live, r.ptr, count * size)
        /\ UNCHANGED <<environ, argv, env>>

FreeBlock(p) ==
    /\ Call
    /\ heap' = free(heap, p) /\ live' = Without(live, p)
    /\ UNCHANGED <<environ, argv, env, fault>>

realloc(p, size) ==
    LET r == malloc(heap, size)
    IN  /\ Call
        /\ IF size = 0 THEN heap' = free(heap, p) /\ live' = Without(live, p) /\ UNCHANGED fault
           ELSE /\ fault' = r.fault
                /\ IF r.ptr = NULL THEN heap' = r.hp /\ UNCHANGED live
                   ELSE heap' = free(r.hp, p) /\ live' = With(Without(live, p), r.ptr, size)
        /\ UNCHANGED <<environ, argv, env>>

----------------------------------------------------------------------------

\* The entries of a name (the first one counts).
__stdlib_environ_find(list, name) == {i \in DOMAIN list : list[i].name = name}

getenv(name) ==
    LET found == {i \in DOMAIN environ.list : environ.list[i].name = name}
    IN  IF found = {} THEN 0 ELSE environ.list[CHOOSE i \in found : \A j \in found : i <= j].value

\* One realloc of the array, by a word for the entry and one for the NULL.
__stdlib_environ_append(hp, lv, name, value) ==
    LET size == Len(environ.list) + 2
        r == malloc(hp, size)
        old == environ.at
    IN  IF r.ptr = NULL
        THEN /\ heap' = r.hp /\ live' = lv /\ fault' = r.fault
             /\ UNCHANGED <<environ, argv, env>>
        ELSE /\ environ' = [at |-> r.ptr, list |-> Append(environ.list, Entry(name, value))]
             /\ env' = (name :> value) @@ env
             /\ heap' = IF old \in {InitialArray, NULL} THEN r.hp ELSE free(r.hp, old)
             /\ live' = With(Without(lv, old), r.ptr, size)
             /\ argv' = IF old = InitialArray THEN FreeStack(argv) ELSE argv
             /\ UNCHANGED fault

\* The old string is not freed.
Replace(i, name, value) ==
    /\ environ' = [environ EXCEPT !.list[i] = Entry(name, value)]
    /\ env' = (name :> value) @@ env

setenv(name, value, overwrite) ==
    LET found == __stdlib_environ_find(environ.list, name)
        r == malloc(heap, 2)
    IN  /\ Call
        /\ IF found # {} /\ ~overwrite THEN UNCHANGED <<heap, environ, argv, live, env, fault>>
           ELSE IF r.ptr = NULL
           THEN heap' = r.hp /\ fault' = r.fault /\ UNCHANGED <<environ, argv, live, env>>
           ELSE IF found # {}
           THEN /\ Replace(CHOOSE i \in found : \A j \in found : i <= j, name, value)
                /\ heap' = r.hp /\ live' = With(live, r.ptr, 2)
                /\ UNCHANGED <<argv, fault>>
           ELSE __stdlib_environ_append(r.hp, With(live, r.ptr, 2), name, value)

\* The string is the caller's.
putenv(name, value) ==
    LET found == __stdlib_environ_find(environ.list, name)
    IN  /\ Call
        /\ IF found # {}
           THEN /\ Replace(CHOOSE i \in found : \A j \in found : i <= j, name, value)
                /\ UNCHANGED <<heap, argv, live, fault>>
           ELSE __stdlib_environ_append(heap, live, name, value)

__stdlib_environ_remove_index(i) == [environ EXCEPT !.list = SubSeq(@, 1, i - 1) \o SubSeq(@, i + 1, Len(@))]

unsetenv(name) ==
    LET found == __stdlib_environ_find(environ.list, name)
    IN  /\ Call
        /\ found # {}
        /\ environ' = __stdlib_environ_remove_index(CHOOSE i \in found : \A j \in found : i <= j)
        /\ env' = Without(env, name)
        /\ UNCHANGED <<heap, argv, live, fault>>

clearenv ==
    /\ Call
    /\ environ' = [at |-> NULL, list |-> <<>>]
    /\ env' = <<>>
    /\ UNCHANGED <<heap, argv, live, fault>>

\* The blocks the program may free: not the array environ is.
Mine == DOMAIN live \ {environ.at}

Next ==
    \/ \E s \in Sizes : Malloc(s)
    \/ \E c, s \in Sizes : Calloc(c, s)
    \/ \E p \in Mine : FreeBlock(p)
    \/ \E p \in Mine, s \in Sizes : realloc(p, s)
    \/ \E n \in Name, v \in Value, o \in BOOLEAN : setenv(n, v, o)
    \/ \E n \in Name, v \in Value : putenv(n, v)
    \/ \E n \in Name : unsetenv(n)
    \/ clearenv

Spec == Init /\ [][Next]_vars

----------------------------------------------------------------------------
Ready == heap.start # NULL /\ heap.start \in DOMAIN heap.hdr

\* The list of headers tiles the heap from its first byte to the break, in the order
\* of the addresses, and two free blocks are never neighbours: splitting, growing the
\* last block and merging lose nothing and leave nothing uncovered.
HeapTiled ==
    Ready => LET c == Chain(heap)
             IN  /\ c[1] = heap.start
                 /\ \A i \in DOMAIN c :
                      c[i] + HeaderSize + heap.hdr[c[i]].len = IF i = Len(c) THEN heap.brk ELSE c[i + 1]
                 /\ \A i \in 1 .. Len(c) - 1 : heap.hdr[c[i]].used \/ heap.hdr[c[i + 1]].used

\* The blocks in use are exactly those the program and the environment hold, each at
\* least as long as was asked for: none is handed out twice, lost, or too short, also
\* when a product of calloc wraps around.
LiveExact ==
    Ready => /\ {a + HeaderSize : a \in {b \in ToSet(Chain(heap)) : heap.hdr[b].used}} = DOMAIN live
             /\ \A p \in DOMAIN live : live[p] <= heap.hdr[p - HeaderSize].len

\* environ is a function: every variable has one entry, and getenv gives the value it
\* was set to last, after any mix of setenv, putenv, unsetenv and clearenv, through
\* every reallocation of the array.
EnvironExact == /\ Cardinality(Names(environ.list)) = Len(environ.list)
                /\ Names(environ.list) = DOMAIN env
                /\ \A n \in Name : getenv(n) = IF n \in DOMAIN env THEN env[n] ELSE 0

\* malloc reads a header outside of the heap only where the very first sbrk failed
\* after heap_start had been set, and then at the next call; and it works on memory it
\* did not get only where the request, or the page it is rounded up to, would end
\* above heap_max: every smaller request is met or refused.
FaultOnlyStarved ==
    /\ fault.why = "unmapped" => heap.limit < HeapBase + PAGE_SIZE
    /\ fault.why = "astray" => \/ heap.brk + fault.size + HeaderSize > HeapMax
                              \/ heap.brk + PAGE_SIZE > HeapMax

\* The array environ points to is never freed under it: it is the one on the stack, or
\* a block in use that has room for the entries and the NULL.
EnvironHeld == \/ environ.at \in {InitialArray, NULL}
               \/ environ.at \in DOMAIN live /\ live[environ.at] >= Len(environ.list) + 1
=============================================================================
