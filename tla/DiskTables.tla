----------------------------- MODULE DiskTables ----------------------------
(***************************************************************************)
(* The tables of the disk devices and of the bus behind them.              *)
(*                                                                         *)
(* device/hd/cache.c: the cached sectors of one disk, as the list from     *)
(* cache_entry_heads to cache_entry_tails.  An entry has the sector's lba, *)
(* its content, the flag is_dirty and its popularity.  Those that system   *)
(* calls use are atomic; the steps of hd_sync are in Disk.                 *)
(*                                                                         *)
(* vfs/rw_queue/rw_queue.c: the table of flags by which a disk operation   *)
(* waits for its request.  A queue Q has the flags Q.map (indexed from 0,  *)
(* Q.capacity of them), and Q.count, which the code increments only when   *)
(* it enlarges the table and decrements with every deallocation.           *)
(*                                                                         *)
(* drivers/ata: the request queue of one bus, its interrupt handler, and   *)
(* the drive behind it.  A bus B has                                       *)
(*   B.queue         primary_queue, a ds_ringbuf of ata_request_t          *)
(*   B.in_progress   primary_req_in_progress                               *)
(*   B.cmd           the command the drive executes, "idle" if none        *)
(*   B.irq           the drive has raised its interrupt                    *)
(*   B.overrun       a command was sent to a drive that had not finished   *)
(*                   the one before; what follows is not modelled          *)
(* A request r has the fields of ata_request_t that control it; r.left is  *)
(* remaining_sectors, r.owner stands for buffer and callback_data.  The    *)
(* bus's two drives share all of this.                                     *)
(***************************************************************************)
EXTENDS Integers, Sequences, SequencesExt

CONSTANTS StartPopularity,   \* STARTING_POPULARITY
          MaxPopularity,     \* POPULARITY_MAX
          MaxEntries,        \* MAX_ENTRIES_PER_DISK
          RwGrow,            \* entries added when the table grows: 10 in the code
          RwCleared,         \* entries that the memset of RwGrow bytes clears
          CountSize,         \* the values of size_t
          SectorCounts,      \* the values of a uint8_t, which counts the sectors of a request
          QUEUE_SIZE,
          Atapi              \* the drives whose type is ATAPI, the others are PIO

----------------------------------------------------------------------------
Least(a, b) == IF a < b THEN a ELSE b
popularity_inc(e) == [e EXCEPT !.popularity = Least(@ + 1, MaxPopularity)]
popularity_dec(e) == [e EXCEPT !.popularity = IF @ <= 1 THEN 0 ELSE @ - 1]

\* The position of sector lba in the list, 0 if it is not cached.
Find(cache, lba) ==
    LET at == {i \in DOMAIN cache : cache[i].lba = lba}
    IN  IF at = {} THEN 0 ELSE CHOOSE i \in at : \A k \in at : i <= k

\* hd_cache_sort: entry i moves in front of every less popular predecessor.
hd_cache_sort(cache, i) ==
    LET more == {k \in 1..(i - 1) : cache[k].popularity >= cache[i].popularity}
        to == 1 + IF more = {} THEN 0 ELSE CHOOSE k \in more : \A l \in more : l <= k
    IN  InsertAt(RemoveAt(cache, i), to, cache[i])

\* hd_cache_seek, when the sector is there: its list afterwards.
hd_cache_seek(cache, lba) ==
    LET i == Find(cache, lba)
    IN  hd_cache_sort([cache EXCEPT ![i] = popularity_inc(@)], i)

UpsertUnsorted(cache, lba, content, dirty) ==
    LET i == Find(cache, lba)
    IN  IF i # 0
        THEN [cache EXCEPT ![i] = popularity_inc([@ EXCEPT !.content = content, !.is_dirty = dirty])]
        ELSE Append(cache, [lba |-> lba, content |-> content, is_dirty |-> dirty,
                            popularity |-> StartPopularity])

hd_cache_upsert(cache, lba, content, dirty) ==
    LET i == Find(cache, lba)
        new == [lba |-> lba, content |-> content, is_dirty |-> dirty,
                popularity |-> StartPopularity]
    IN  IF i # 0
        THEN hd_cache_sort([cache EXCEPT ![i] =
                 popularity_inc([@ EXCEPT !.content = content, !.is_dirty = dirty])], i)
        ELSE hd_cache_sort(Append(cache, new), Len(cache) + 1)

\* A pointer to an entry, which stays where it is while the list is sorted, is the
\* entry's sector; NULL is NoEntry.  The fields prev and next, the head and the tail.
NoEntry == -1
Prev(cache, lba) == LET i == Find(cache, lba) IN IF i = 1 THEN NoEntry ELSE cache[i - 1].lba
Succ(cache, lba) == LET i == Find(cache, lba) IN IF i = Len(cache) THEN NoEntry ELSE cache[i + 1].lba
HeadEntry(cache) == IF cache = <<>> THEN NoEntry ELSE Head(cache).lba
TailEntry(cache) == IF cache = <<>> THEN NoEntry ELSE Last(cache).lba
Entry(cache, lba) == cache[Find(cache, lba)]

----------------------------------------------------------------------------
RwStatus == {"FREE", "NOT_READY", "READY", "JUNK"}

RW_QUEUE_INIT == [map |-> <<>>, capacity |-> 0, count |-> 0, aborted |-> FALSE]

FreePos(Q) == {i \in 0..(Q.capacity - 1) : Q.map[i] = "FREE"}

\* The table with RwGrow more entries, the first of which is taken.  What the
\* entries hold that the memset does not reach is not determined: 0, which means
\* free, or anything else.
Grown(Q, junk) ==
    LET n == Q.count
    IN  [Q EXCEPT !.capacity = @ + RwGrow, !.count = @ + 1,
                  !.map = [i \in 0..(Q.capacity + RwGrow - 1) |->
                              IF i = n THEN "NOT_READY"
                              ELSE IF i < Q.capacity THEN Q.map[i]
                              ELSE IF i < Q.capacity + RwCleared THEN "FREE" ELSE junk]]

AllocateWithoutMark(Q) ==
    IF Q.capacity = Q.count
    THEN {<<Grown(Q, j), Q.count>> : j \in {"FREE", "JUNK"}}
    ELSE IF FreePos(Q) = {} THEN {<<[Q EXCEPT !.aborted = TRUE], 0>>}
    ELSE LET i == CHOOSE i \in FreePos(Q) : \A k \in FreePos(Q) : i <= k
         IN  {<<Q, i>>}

\* rwq_allocate_pos: the possible results, each a queue and a position.
rwq_allocate_pos(Q) ==
    IF Q.capacity = Q.count
    THEN {<<Grown(Q, j), Q.count>> : j \in {"FREE", "JUNK"}}
    ELSE IF FreePos(Q) = {} THEN {<<[Q EXCEPT !.aborted = TRUE], 0>>}
    ELSE LET i == CHOOSE i \in FreePos(Q) : \A k \in FreePos(Q) : i <= k
         IN  {<<[Q EXCEPT !.map[i] = "NOT_READY"], i>>}

rwq_deallocate_pos(Q, i) ==
    IF i >= Q.capacity THEN Q
    ELSE [Q EXCEPT !.map[i] = "FREE",
                   !.count = IF Q.map[i] = "FREE" THEN @ ELSE (@ - 1) % CountSize]

rwq_set_ready(Q, i) ==
    IF i >= Q.capacity \/ Q.map[i] = "FREE" THEN Q ELSE [Q EXCEPT !.map[i] = "READY"]

rwq_set_ready_fails(Q, i) == i >= Q.capacity \/ Q.map[i] = "FREE"

rwq_is_ready(Q, i) == i < Q.capacity /\ Q.map[i] = "READY"

----------------------------------------------------------------------------
EmptyBus == [queue |-> <<>>, in_progress |-> FALSE, cmd |-> "idle", irq |-> FALSE,
             overrun |-> FALSE]

\* create_and_enqueue: the request it builds.  The count is passed as a uint8_t.
NewRequest(owner, drive, lba, count, is_write) ==
    [owner |-> owner, drive |-> drive, lba |-> lba,
     total |-> count % SectorCounts, left |-> count % SectorCounts,
     is_write |-> is_write, awaiting_flush |-> FALSE,
     phase |-> IF drive \in Atapi THEN "AWAITING_PACKET" ELSE "NONE"]

\* A command byte is written to the drive.
Send(B, cmd) == [B EXCEPT !.cmd = cmd, !.irq = FALSE, !.overrun = @ \/ B.cmd # "idle"]

\* _ata_queue_schedule with no request in progress: start the first one.  The
\* ATAPI packet is sent at once, so that the next interrupt announces data.
StartFirst(B) ==
    IF B.queue = <<>> THEN B
    ELSE LET r == Head(B.queue)
             C == [B EXCEPT !.in_progress = TRUE]
         IN  IF r.phase = "AWAITING_PACKET"
             THEN Send([C EXCEPT !.queue[1].phase = "AWAITING_DATA"], "packet")
             ELSE Send(C, IF r.is_write THEN "write" ELSE "read")

ScheduleStaysBusy(B) ==
    IF B.queue = <<>> THEN [bus |-> B, done |-> <<>>]
    ELSE IF B.in_progress
         THEN IF Head(B.queue).left = 0
              THEN [bus |-> [B EXCEPT !.queue = Tail(@)], done |-> <<Head(B.queue)>>]
              ELSE [bus |-> B, done |-> <<>>]
         ELSE [bus |-> StartFirst(B), done |-> <<>>]

\* _ata_queue_schedule when the first request counts as completed: its callback, and
\* the next one.
FinishFirst(B) == [bus |-> StartFirst([B EXCEPT !.in_progress = FALSE, !.queue = Tail(@)]),
                   done |-> <<Head(B.queue)>>]

\* _ata_queue_schedule: the bus afterwards, and the request whose callback it
\* calls.  The recursion in the code is at most one deep.
_ata_queue_schedule(B) ==
    IF B.queue = <<>> THEN [bus |-> B, done |-> <<>>]
    ELSE IF B.in_progress
         THEN IF Head(B.queue).left = 0
              THEN FinishFirst(B)
              ELSE [bus |-> B, done |-> <<>>]
         ELSE [bus |-> StartFirst(B), done |-> <<>>]

\* _ata_enqueue_request: a full queue refuses the request.
_ata_enqueue_request(B, r) ==
    IF Len(B.queue) = QUEUE_SIZE THEN [bus |-> B, done |-> <<>>]
    ELSE _ata_queue_schedule([B EXCEPT !.queue = Append(@, r)])

\* The drive has finished a sector, or its flush, and interrupts.
DriveReady(B) == B.cmd # "idle" /\ ~B.irq
RaiseIrq(B) == [B EXCEPT !.irq = TRUE]

OneSectorDone(B) == [B EXCEPT !.queue[1].left = (@ - 1) % SectorCounts]

\* irq_handler_read and irq_handler_atapi_awaiting_data: one sector has been
\* copied; after the last one the request is complete.
ReadInterrupt(B) ==
    LET last == Head(B.queue).left = 1
        C == [OneSectorDone(B) EXCEPT !.irq = FALSE, !.cmd = IF last THEN "idle" ELSE @]
    IN  IF last THEN _ata_queue_schedule(C) ELSE [bus |-> C, done |-> <<>>]

\* irq_handler_write: the next sector is sent, or the flush command.
WriteInterrupt(B) ==
    LET last == Head(B.queue).left = 1
        C == [OneSectorDone(B) EXCEPT !.irq = FALSE]
    IN  [bus |-> IF last THEN [C EXCEPT !.queue[1].awaiting_flush = TRUE, !.cmd = "flush"] ELSE C,
         done |-> <<>>]

\* irq_handler_flush
FlushInterrupt(B) == _ata_queue_schedule([B EXCEPT !.irq = FALSE, !.cmd = "idle"])

\* Whether the interrupt moves a sector, and which one, counted from 0.
MovesData(B) == B.queue # <<>> /\ ~Head(B.queue).is_write
SectorMoved(B) == Head(B.queue).total - Head(B.queue).left

\* _ata_irq_handler
_ata_irq_handler(B) ==
    IF B.queue = <<>> THEN [bus |-> [B EXCEPT !.irq = FALSE], done |-> <<>>]
    ELSE LET r == Head(B.queue)
         IN  IF r.phase = "AWAITING_DATA" THEN ReadInterrupt(B)
             ELSE IF r.is_write /\ r.awaiting_flush THEN FlushInterrupt(B)
             ELSE IF r.is_write THEN WriteInterrupt(B)
             ELSE ReadInterrupt(B)
=============================================================================
