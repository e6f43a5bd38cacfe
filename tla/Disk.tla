------------------------------- MODULE Disk --------------------------------
(***************************************************************************)
(* The disk devices of device/hd: reads and writes through the sector      *)
(* cache, the background synchronisation, their requests to the ATA bus,   *)
(* and the interrupts that complete them.                                  *)
(*                                                                         *)
(* Clients are user tasks.  Their calls run with interrupts off, so a call *)
(* holds the processor (cpu) from one wait to the next.  hd_sync is a      *)
(* kernel task with interrupts on and takes no lock: interrupts and the    *)
(* clients' calls may come between any two of its accesses to the cache,   *)
(* the queues and the waiters.  Where what it saw is then no longer so and *)
(* its next write damages a list or sends a second command, the variable   *)
(* torn is set and the behaviour ends.  Positions on a disk are counted in *)
(* half sectors, so that calls need not be aligned to sectors.             *)
(***************************************************************************)
EXTENDS DiskTables, FiniteSets

CONSTANTS Client,
          Sync,           \* the task hd_sync
          HdaClient,      \* the clients that use /dev/hda,
          PartClient,     \* ... the partition /dev/hda1,
          SrClient,       \* ... the ATAPI drive /dev/sr0
          Sectors,        \* ata_disk_info_t.sectors_count of both drives
          PartStart, PartCount,   \* part_lba_start, part_sectors_count
          Offset, Size,   \* the arguments of calls
          MaxCalls,       \* bound: calls of a client of /dev/hda, ...
          MaxOtherCalls,  \* ... of another client
          MaxSyncs        \* bound: rounds of hd_sync

ASSUME DiskAssumption == Sectors < SectorCounts   \* a call is for less than 256 sectors

Task   == Client \cup {Sync}
Meta   == {"hda", "hda1", "sr0"}
Drive  == {"hda", "sr0"}
drive_of(m) == IF m = "sr0" THEN "sr0" ELSE "hda"
Fresh  == "zeroed"      \* what a buffer of kmalloc_flags(KMALLOC_ZERO) holds
Old    == "old"         \* what the disk holds at first
Half   == Client \cup {Fresh, Old}
Sector == Half \X Half
Lba    == 0..(Sectors - 1)

VARIABLES bus, cache, rwq,
          disk,      \* what is on the drives
          wire,      \* the sector being written
          cpu,       \* the client that executes a call, Sync if none does
          call,      \* the locals of each task's call
          blocked,   \* the tasks that wait_on_condition has taken off the processor
          waiters,   \* hd_metadata_t.wait_obj
          calls,     \* calls made so far
          early,     \* the sectors for which a wait has returned before its request was completed
          abort,     \* abort() was called
          sync,      \* the locals of hd_sync
          torn,      \* hd_sync was interrupted where that damages what it works on
          mixed      \* a call has used the cache while hd_cache_clear went through it

vars == <<bus, cache, rwq, disk, wire, cpu, call, blocked, waiters, calls, early, abort, sync, torn, mixed>>

NoCall == [pc |-> "none", is_write |-> FALSE, meta |-> "hda", lo |-> 0, n |-> 0, off |-> 0,
           len |-> 0, i |-> 0, first |-> 0, last |-> 0, hit |-> TRUE, buf |-> <<>>, idx |-> 0]
NoSync == [pc |-> "none", entry |-> NoEntry, prev |-> NoEntry, cut |-> 0, idx |-> 0, off |-> FALSE]

Init ==
    /\ bus = EmptyBus /\ cache = [d \in Drive |-> <<>>] /\ rwq = RW_QUEUE_INIT
    /\ disk = [d \in Drive |-> [s \in Lba |-> <<Old, Old>>]] /\ wire = <<Old, Old>>
    /\ cpu = Sync /\ call = [c \in Client |-> NoCall] /\ blocked = {}
    /\ waiters = [m \in Meta |-> <<>>] /\ calls = [t \in Task |-> 0]
    /\ early = {} /\ abort = FALSE /\ sync = NoSync /\ torn = FALSE /\ mixed = FALSE

Running == ~abort /\ ~rwq.aborted /\ ~bus.overrun /\ ~torn

\* Another task can run: no client is in a call, and hd_sync has been switched away
\* from if it is in the middle of blocking.
Switched == cpu = Sync /\ (Sync \in blocked => sync.off)

----------------------------------------------------------------------------
Round2(x) == (x + 1) \div 2

LocUnclipped(m, offset, size) ==
    LET low == offset \div 2
    IN  [lo |-> low + (IF m = "hda1" THEN PartStart ELSE 0),
         n |-> Round2(offset + size) - low, off |-> offset - 2 * low, len |-> size]

\* hd_calc_sector_loc: the sectors of a call, cut off at the end of the disk or
\* partition; no half sector is left when the call starts behind it.
hd_calc_sector_loc(m, offset, size) ==
    LET limit == IF m = "hda1" THEN PartCount ELSE Sectors
        low  == offset \div 2
        high == Least(Round2(offset + size), limit)
    IN  [lo |-> low + (IF m = "hda1" THEN PartStart ELSE 0), n |-> high - low,
         off |-> offset - 2 * low,
         len |-> IF low >= limit THEN 0
                 ELSE IF Round2(offset + size) > limit THEN 2 * limit - offset ELSE size]

\* hd_rw_ready for the request a schedule has completed, if it has.
Complete(done, Q) ==
    IF done = <<>> THEN Q ELSE rwq_set_ready(Q, done[1].owner.idx)
Woken(done) ==
    IF done = <<>> THEN {}
    ELSE LET w == waiters[done[1].owner.meta] IN IF w = <<>> THEN {} ELSE {w[1]}
Aborts(done, Q) == done # <<>> /\ rwq_set_ready_fails(Q, done[1].owner.idx)

\* The words of a sector go to the drive when its write is started: they are
\* those of the cache entry, or of freed memory when that entry is gone.
Wire(B) ==
    IF B.cmd = "write" /\ (bus.cmd # "write" \/ Head(B.queue).owner # Head(bus.queue).owner)
    THEN LET r == Head(B.queue)
             k == Find(cache[r.drive], r.lba)
         IN  IF k = 0 THEN <<Fresh, Fresh>> ELSE cache[r.drive][k].content
    ELSE wire

\* The effect of a call to _ata_enqueue_request or of the interrupt handler,
\* with result R, when the rw_queue was Q.
BusStep(R, Q) ==
    /\ bus' = R.bus /\ wire' = Wire(R.bus)
    /\ rwq' = Complete(R.done, Q)
    /\ abort' = (abort \/ Aborts(R.done, Q))

Outstanding(t) ==
    \E k \in DOMAIN bus.queue : bus.queue[k].owner.task = t /\ bus.queue[k].owner.num = calls[t]

CallsOf(c) == IF c \in HdaClient THEN MaxCalls ELSE MaxOtherCalls

\* The sectors of the request a call waits for.
Requested(x) == {<<drive_of(x.meta), x.lo + k>> : k \in x.first..x.last}

----------------------------------------------------------------------------
\* hd_read and hd_write, up to the loop over the sectors.  An aligned write
\* does not read its sectors first.
hd_call(c, m, offset, size, is_write) ==
    /\ Running /\ Switched /\ call[c].pc = "none" /\ calls[c] < CallsOf(c)
    /\ calls' = [calls EXCEPT ![c] = @ + 1]
    /\ LET loc == hd_calc_sector_loc(m, offset, size)
       IN  \E a \in rwq_allocate_pos(rwq) :
             IF loc.len = 0
             THEN rwq' = rwq_deallocate_pos(a[1], a[2]) /\ UNCHANGED <<call, cpu>>
             ELSE /\ rwq' = a[1] /\ cpu' = c
                  /\ call' = [call EXCEPT ![c] =
                        [NoCall EXCEPT
                            !.pc = IF is_write /\ loc.off = 0 /\ size % 2 = 0 THEN "store" ELSE "scan",
                            !.is_write = is_write, !.meta = m, !.lo = loc.lo, !.n = loc.n,
                            !.off = loc.off, !.len = loc.len, !.idx = a[2],
                            !.buf = [s \in 0..(loc.n - 1) |-> <<Fresh, Fresh>>]]]
    /\ UNCHANGED <<bus, cache, disk, wire, blocked, waiters, early, abort>>

\* One sector of the loop: from the cache, or put off until the next hit.
scan(c) ==
    LET x == call[c]
        d == drive_of(x.meta)
        at == Find(cache[d], x.lo + x.i)
    IN  /\ Running /\ cpu = c /\ x.pc = "scan" /\ x.i < x.n
        /\ IF at = 0
           THEN /\ call' = [call EXCEPT ![c].first = IF x.hit THEN x.i ELSE @,
                                        ![c].hit = FALSE, ![c].i = @ + 1]
                /\ UNCHANGED cache
           ELSE /\ cache' = [cache EXCEPT ![d] = hd_cache_seek(@, x.lo + x.i)]
                /\ call' = [call EXCEPT ![c].buf[x.i] = cache[d][at].content,
                                        ![c].i = @ + 1, ![c].hit = TRUE, ![c].last = x.i - 1,
                                        ![c].pc = IF x.hit THEN "scan" ELSE "request"]
        /\ UNCHANGED <<bus, rwq, disk, wire, cpu, blocked, waiters, calls, early, abort>>

scan_end(c) ==
    LET x == call[c]
    IN  /\ Running /\ cpu = c /\ x.pc = "scan" /\ x.i = x.n
        /\ call' = [call EXCEPT ![c].hit = TRUE, ![c].last = x.n - 1,
                                ![c].pc = IF ~x.hit THEN "request"
                                          ELSE IF x.is_write THEN "store" ELSE "return"]
        /\ UNCHANGED <<bus, cache, rwq, disk, wire, cpu, blocked, waiters, calls, early, abort>>

\* read_from_ata, read_uncached_sectors: ata_read, whose result is ignored, and
\* wait_on_condition.  A flag left READY by the call's last read ends the wait.
request(c) ==
    LET x == call[c]
        r == NewRequest([task |-> c, num |-> calls[c], idx |-> x.idx, meta |-> x.meta],
                        drive_of(x.meta), x.lo + x.first, x.last - x.first + 1, FALSE)
        R == _ata_enqueue_request(bus, r)
    IN  /\ Running /\ cpu = c /\ x.pc = "request"
        /\ BusStep(R, rwq)
        /\ IF rwq_is_ready(rwq', x.idx)
           THEN /\ call' = [call EXCEPT ![c].pc = "fill"] /\ early' = early \cup Requested(x)
                /\ blocked' = blocked \ Woken(R.done) /\ UNCHANGED <<cpu, waiters>>
           ELSE /\ call' = [call EXCEPT ![c].pc = "wait"] /\ cpu' = Sync
                /\ blocked' = (blocked \ Woken(R.done)) \cup {c}
                /\ waiters' = [waiters EXCEPT ![x.meta] = Append(@, c)]
                /\ UNCHANGED early
        /\ UNCHANGED <<cache, disk, calls>>

\* The client was woken and runs again; it does not look at its flag.
resume(c) ==
    /\ Running /\ Switched /\ call[c].pc = "wait" /\ c \notin blocked
    /\ cpu' = c
    /\ call' = [call EXCEPT ![c].pc = "fill"]
    /\ waiters' = [waiters EXCEPT ![call[c].meta] = Remove(@, c)]
    /\ early' = early \cup IF Outstanding(c) \/ ~rwq_is_ready(rwq, call[c].idx)
                           THEN Requested(call[c]) ELSE {}
    /\ UNCHANGED <<bus, cache, rwq, disk, wire, blocked, calls, abort>>

\* Sectors first..last of the buffer go into the cache.
Upserted(x, list, first, last, dirty) ==
    LET up[k \in (first - 1)..last] ==
            IF k < first THEN list ELSE hd_cache_upsert(up[k - 1], x.lo + k, x.buf[k], dirty)
    IN  up[last]

fill(c) ==
    LET x == call[c]
    IN  /\ Running /\ cpu = c /\ x.pc = "fill"
        /\ cache' = [cache EXCEPT ![drive_of(x.meta)] = Upserted(x, @, x.first, x.last, FALSE)]
        /\ call' = [call EXCEPT ![c].pc = "scan"]
        /\ UNCHANGED <<bus, rwq, disk, wire, cpu, blocked, waiters, calls, early, abort>>

\* The end of hd_write: the new data over the buffer, all of it into the cache.
store(c) ==
    LET x == call[c]
        in(h) == x.off <= h /\ h < x.off + x.len
        y == [x EXCEPT !.buf = [s \in DOMAIN x.buf |->
                  << IF in(2 * s) THEN c ELSE x.buf[s][1],
                     IF in(2 * s + 1) THEN c ELSE x.buf[s][2] >>]]
    IN  /\ Running /\ cpu = c /\ x.pc = "store"
        /\ cache' = [cache EXCEPT ![drive_of(x.meta)] = Upserted(y, @, 0, x.n - 1, TRUE)]
        /\ rwq' = rwq_deallocate_pos(rwq, x.idx)
        /\ call' = [call EXCEPT ![c] = NoCall] /\ cpu' = Sync
        /\ UNCHANGED <<bus, disk, wire, blocked, waiters, calls, early, abort>>

\* The end of hd_read.
return(c) ==
    /\ Running /\ cpu = c /\ call[c].pc = "return"
    /\ rwq' = rwq_deallocate_pos(rwq, call[c].idx)
    /\ call' = [call EXCEPT ![c] = NoCall] /\ cpu' = Sync
    /\ UNCHANGED <<bus, cache, disk, wire, blocked, waiters, calls, early, abort>>

----------------------------------------------------------------------------
\* hd_sync_with_metadata for /dev/hda, which interrupts and other tasks' calls may
\* interrupt.  A task that is BLOCKED and is switched away from stays away until it
\* is woken.
SyncAt(pc) == Running /\ cpu = Sync /\ sync.pc = pc /\ (Sync \in blocked => ~sync.off)
SyncOnly == UNCHANGED <<bus, cache, rwq, disk, wire, cpu, call, blocked, waiters, calls, early, abort, torn>>
list == cache["hda"]

\* hd_cache_iterate_dirty comes to an entry of the cache.
Visit(s, entries, lba) ==
    [s EXCEPT !.entry = lba, !.idx = 0,
              !.pc = IF lba = NoEntry THEN "clear"
                     ELSE IF Entry(entries, lba).is_dirty THEN "allocate" ELSE "next"]

sync_start ==
    /\ SyncAt("none") /\ calls[Sync] < MaxSyncs
    /\ sync' = Visit(NoSync, list, HeadEntry(list))
    /\ calls' = [calls EXCEPT ![Sync] = @ + 1]
    /\ UNCHANGED <<bus, cache, rwq, disk, wire, cpu, call, blocked, waiters, early, abort, torn>>

sync_next ==
    /\ SyncAt("next")
    /\ sync' = Visit(sync, list, Succ(list, sync.entry))
    /\ SyncOnly

\* hd_sync_callback, up to the test for a full queue in ds_ringbuf_push.
sync_allocate ==
    /\ SyncAt("allocate")
    /\ \E a \in rwq_allocate_pos(rwq) :
          /\ rwq' = a[1]
          /\ sync' = [sync EXCEPT !.pc = IF Len(bus.queue) = QUEUE_SIZE THEN "block" ELSE "push", !.idx = a[2]]
    /\ UNCHANGED <<bus, cache, disk, wire, cpu, call, blocked, waiters, calls, early, abort, torn>>

\* The rest of ds_ringbuf_push.
sync_push ==
    LET r == NewRequest([task |-> Sync, num |-> calls[Sync], idx |-> sync.idx, meta |-> "hda"],
                        "hda", sync.entry, 1, TRUE)
    IN  /\ SyncAt("push") /\ sync' = [sync EXCEPT !.pc = "busy"]
        /\ IF Len(bus.queue) = QUEUE_SIZE THEN torn' = TRUE /\ UNCHANGED bus
           ELSE bus' = [bus EXCEPT !.queue = Append(@, r)] /\ UNCHANGED torn
        /\ UNCHANGED <<cache, rwq, disk, wire, cpu, call, blocked, waiters, calls, early, abort>>

\* _ata_queue_schedule: the tests of the first request and of primary_req_in_progress ...
sync_busy ==
    /\ SyncAt("busy")
    /\ sync' = [sync EXCEPT !.pc =
          CASE bus.queue = <<>> -> "block"
            [] bus.queue # <<>> /\ ~bus.in_progress -> "send"
            [] bus.in_progress -> IF Head(bus.queue).left = 0 THEN "finish" ELSE "block"]
    /\ SyncOnly

\* ... and what follows for the request that was seen: it counts as completed,
\* although another one may be the first by then ...
sync_finish ==
    /\ SyncAt("finish") /\ sync' = [sync EXCEPT !.pc = "block"]
    /\ IF bus.queue = <<>> \/ Head(bus.queue).left > 0
       THEN torn' = TRUE /\ UNCHANGED <<bus, wire, rwq, abort, blocked>>
       ELSE LET R == FinishFirst(bus)
            IN  BusStep(R, rwq) /\ blocked' = blocked \ Woken(R.done) /\ UNCHANGED torn
    /\ UNCHANGED <<cache, disk, cpu, call, waiters, calls, early>>

\* ... or it is started, for the second time if another call or the interrupt handler
\* has started it since.  _ata_write sends the command and the first words ...
sync_send ==
    /\ SyncAt("send") /\ sync' = [sync EXCEPT !.pc = "words"]
    /\ IF bus.in_progress \/ bus.queue = <<>> THEN torn' = TRUE /\ UNCHANGED <<bus, wire>>
       ELSE bus' = StartFirst(bus) /\ wire' = Wire(bus') /\ UNCHANGED torn
    /\ UNCHANGED <<cache, rwq, disk, cpu, call, blocked, waiters, calls, early, abort>>

\* ... and the others, as they are by then.
sync_words ==
    /\ SyncAt("words") /\ sync' = [sync EXCEPT !.pc = "block"]
    /\ wire' = <<wire[1], Entry(list, sync.entry).content[2]>>
    /\ UNCHANGED <<bus, cache, rwq, disk, cpu, call, blocked, waiters, calls, early, abort, torn>>

\* wait_on_condition.  An interrupt of the timer, or scheduler_yield, switches to
\* another task; one that is not among the waiters is then never woken.
sync_block ==
    /\ SyncAt("block") /\ sync' = [sync EXCEPT !.pc = "enqueue"]
    /\ blocked' = blocked \cup {Sync}
    /\ UNCHANGED <<bus, cache, rwq, disk, wire, cpu, call, waiters, calls, early, abort, torn>>

sync_switched ==
    /\ Running /\ cpu = Sync /\ Sync \in blocked /\ ~sync.off
    /\ sync' = [sync EXCEPT !.off = TRUE]
    /\ SyncOnly

sync_enqueue ==
    /\ SyncAt("enqueue") /\ sync' = [sync EXCEPT !.pc = "check"]
    /\ waiters' = [waiters EXCEPT !["hda"] = Append(@, Sync)]
    /\ UNCHANGED <<bus, cache, rwq, disk, wire, cpu, call, blocked, calls, early, abort, torn>>

sync_check ==
    /\ SyncAt("check") /\ (Sync \notin blocked \/ rwq_is_ready(rwq, sync.idx))
    /\ sync' = [sync EXCEPT !.pc = "dequeue", !.off = FALSE]
    /\ SyncOnly

sync_dequeue ==
    /\ SyncAt("dequeue") /\ sync' = [sync EXCEPT !.pc = "written"]
    /\ waiters' = [waiters EXCEPT !["hda"] = Remove(@, Sync)]
    /\ UNCHANGED <<bus, cache, rwq, disk, wire, cpu, call, blocked, calls, early, abort, torn>>

\* The end of wait_on_condition and of hd_sync_callback.
sync_written ==
    /\ SyncAt("written") /\ sync' = [sync EXCEPT !.pc = "next", !.off = FALSE]
    /\ blocked' = blocked \ {Sync}
    /\ early' = early \cup IF Outstanding(Sync) \/ ~rwq_is_ready(rwq, sync.idx)
                           THEN {<<"hda", sync.entry>>} ELSE {}
    /\ rwq' = rwq_deallocate_pos(rwq, sync.idx)
    /\ cache' = [cache EXCEPT !["hda"][Find(list, sync.entry)].is_dirty = FALSE]
    /\ UNCHANGED <<bus, disk, wire, cpu, call, waiters, calls, abort, torn>>

\* hd_cache_clear: forced_cut, and the tail, from which the loop starts.
sync_clear ==
    /\ SyncAt("clear")
    /\ sync' = [sync EXCEPT !.pc = "decay", !.entry = TailEntry(list),
                            !.cut = IF Len(list) > MaxEntries THEN Len(list) - MaxEntries ELSE 0]
    /\ SyncOnly

\* An entry loses popularity ...
sync_decay ==
    /\ SyncAt("decay")
    /\ IF sync.entry = NoEntry THEN sync' = NoSync /\ UNCHANGED cache
       ELSE /\ cache' = [cache EXCEPT !["hda"][Find(list, sync.entry)] = popularity_dec(@)]
            /\ sync' = [sync EXCEPT !.pc = "unlink", !.prev = Prev(list, sync.entry)]
    /\ UNCHANGED <<bus, rwq, disk, wire, cpu, call, blocked, waiters, calls, early, abort, torn>>

\* ... and goes when that is used up or the list is too long.  Taken out between
\* neighbours that are no longer its own it breaks the list.
sync_unlink ==
    LET i == Find(list, sync.entry)
        goes == list[i].popularity = 0 \/ sync.cut > 0
        stale == sync.prev # Prev(list, sync.entry)
    IN  /\ SyncAt("unlink")
        /\ sync' = [sync EXCEPT !.pc = "decay", !.entry = sync.prev, !.prev = NoEntry,
                                !.cut = IF goes /\ @ > 0 THEN @ - 1 ELSE @]
        /\ cache' = IF goes /\ ~stale THEN [cache EXCEPT !["hda"] = RemoveAt(@, i)] ELSE cache
        /\ torn' = (goes /\ stale)
        /\ UNCHANGED <<bus, rwq, disk, wire, cpu, call, blocked, waiters, calls, early, abort>>

\* The steps at which hd_sync has enqueued its request and will start the first one if
\* nobody else does, and those at which it has a position in the rw_queue.
Scheduling == {"busy", "send"}
SyncOperation == Scheduling \cup {"push", "finish", "words", "block", "enqueue", "check", "dequeue", "written"}

SyncStep ==
    \/ sync_start \/ sync_next \/ sync_allocate \/ sync_push \/ sync_busy \/ sync_finish \/ sync_send
    \/ sync_words \/ sync_block \/ sync_switched \/ sync_enqueue \/ sync_check \/ sync_dequeue
    \/ sync_written \/ sync_clear \/ sync_decay \/ sync_unlink

----------------------------------------------------------------------------
\* The drive interrupts when it has a sector, or has all words of one.
drive_ready ==
    /\ Running /\ cpu = Sync /\ DriveReady(bus) /\ sync.pc # "words"
    /\ bus' = RaiseIrq(bus)
    /\ UNCHANGED <<cache, rwq, disk, wire, cpu, call, blocked, waiters, calls, early, abort>>

\* The interrupt: a sector read is copied into the buffer of its call (if that
\* call is over, into memory that was freed), a sector written is on the disk.
interrupt ==
    /\ Running /\ cpu = Sync /\ bus.irq
    /\ LET r == Head(bus.queue)
           t == r.owner.task
           R == _ata_irq_handler(bus)
           s == r.lba + SectorMoved(bus)
           live == t # Sync /\ call[t].pc # "none" /\ r.owner.num = calls[t]
       IN  /\ BusStep(R, rwq)
           /\ blocked' = blocked \ Woken(R.done)
           /\ call' = IF MovesData(bus) /\ live
                      THEN [call EXCEPT ![t].buf[s - call[t].lo] = disk[r.drive][s]] ELSE call
           /\ disk' = IF bus.cmd = "write" THEN [disk EXCEPT ![r.drive][s] = wire] ELSE disk
    /\ UNCHANGED <<cache, cpu, waiters, calls, early>>

ClientStep(c) ==
    \/ \E m \in Meta, o \in Offset, z \in Size, w \in BOOLEAN :
          /\ CASE m = "hda" -> c \in HdaClient [] m = "hda1" -> c \in PartClient
               [] m = "sr0" -> c \in SrClient /\ ~w
          /\ hd_call(c, m, o, z, w)
    \/ scan(c) \/ scan_end(c) \/ request(c) \/ resume(c) \/ fill(c) \/ store(c) \/ return(c)

\* A step of a client or of the interrupt handler may come between two writes of
\* hd_sync to the same list: to the request queue (ds_ringbuf_push, or the removal of
\* a request that counts as completed), to the waiters (dequeue_waiter) or to the
\* cache (the removal of an entry).
Order(entries) == [i \in DOMAIN entries |-> entries[i].lba]
Interferes ==
    \/ sync.pc = "push" /\ Len(bus'.queue) > Len(bus.queue)
    \/ sync.pc = "finish" /\ bus'.queue # bus.queue
    \/ sync.pc = "dequeue" /\ waiters'["hda"] # waiters["hda"]
    \/ sync.pc = "unlink" /\ Order(cache'["hda"]) # Order(cache["hda"])

\* A late interrupt of the drive is taken for one of a request that has not been started.
Mistaken == bus.irq /\ ~bus'.irq /\ bus.queue # <<>> /\ ~bus.in_progress

Next ==
    \/ /\ drive_ready \/ interrupt \/ \E c \in Client : ClientStep(c)
       /\ torn' \in IF Mistaken THEN {TRUE} ELSE IF Interferes THEN BOOLEAN ELSE {FALSE}
       /\ mixed' = (mixed \/ (sync.pc \in {"decay", "unlink"} /\ cache'["hda"] # cache["hda"]))
       /\ UNCHANGED sync
    \/ SyncStep /\ UNCHANGED mixed

Spec == Init /\ [][Next]_vars

----------------------------------------------------------------------------
\* The operations in progress and their positions in the rw_queue.
Position == [t \in {c \in Client : call[c].pc # "none"} \cup
                  (IF sync.pc \in SyncOperation THEN {Sync} ELSE {}) |->
                IF t = Sync THEN sync.idx ELSE call[t].idx]

\* The types; a request never reaches beyond the end of the drive.
TypeOK ==
    /\ \A k \in DOMAIN bus.queue : LET r == bus.queue[k] IN
          /\ r.total \in 1..Sectors /\ r.left \in 0..r.total
          /\ r.lba \in Lba /\ r.lba + r.total - 1 \in Lba
          /\ r.owner.meta = "hda1" => r.lba >= PartStart /\ r.lba + r.total <= PartStart + PartCount
    /\ Len(bus.queue) <= QUEUE_SIZE /\ bus.cmd \in {"idle", "read", "write", "packet", "flush"}
    /\ bus.in_progress \in BOOLEAN /\ bus.irq \in BOOLEAN /\ bus.overrun \in BOOLEAN
    /\ \A d \in Drive : cache[d] \in Seq([lba : Lba, content : Sector, is_dirty : BOOLEAN,
                                           popularity : 0..MaxPopularity])
    /\ \A i \in 0..(rwq.capacity - 1) : rwq.map[i] \in RwStatus
    /\ rwq.count \in 0..(CountSize - 1)
    /\ disk \in [Drive -> [Lba -> Sector]] /\ wire \in Sector
    /\ cpu \in Task /\ blocked \subseteq Task /\ calls \in [Task -> Nat]
    /\ \A m \in Meta : waiters[m] \in Seq(Task) /\ IsInjective(waiters[m])
    /\ early \subseteq Drive \X Lba /\ abort \in BOOLEAN /\ torn \in BOOLEAN /\ mixed \in BOOLEAN
    /\ sync.entry \in Lba \cup {NoEntry} /\ sync.prev \in Lba \cup {NoEntry} /\ sync.cut \in Nat

\* The cache of a drive has at most one entry for a sector, whatever hd_sync is
\* interrupted by; none is used up but the one hd_cache_clear is at; the entry hd_sync
\* is at is still in the list.  It is ordered by popularity, which hd_cache_clear
\* relies on when it cuts off the tail, until a call uses the cache in the middle of
\* hd_cache_clear.
CacheOrdered ==
    /\ \A d \in Drive : \A i, k \in DOMAIN cache[d] :
          i < k => /\ cache[d][i].lba # cache[d][k].lba
                   /\ ~mixed => cache[d][i].popularity >= cache[d][k].popularity
    /\ \A d \in Drive : \A i \in DOMAIN cache[d] :
          cache[d][i].popularity = 0 => /\ d = "hda" /\ cache[d][i].lba = sync.entry
                                        /\ sync.pc = "unlink"
    /\ sync.pc # "none" /\ sync.entry # NoEntry => Find(cache["hda"], sync.entry) # 0

\* Operations in progress have different positions in the rw_queue, none of
\* which is marked free, although the count of the queue is wrong; when none is
\* left the next operation aborts.
IndexExclusive ==
    ~rwq.aborted =>
    \A t \in DOMAIN Position :
        /\ Position[t] < rwq.capacity /\ rwq.map[Position[t]] # "FREE"
        /\ \A u \in DOMAIN Position \ {t} : Position[u] # Position[t]

\* A request is in progress whenever there is one and hd_sync is not about to start
\* it, the drive then executes a command, and only a write that waits for its flush
\* has no sectors left: no request is forgotten, however hd_sync and the interrupts
\* alternate, and no count of sectors runs below zero.
RequestInProgress ==
    /\ bus.in_progress => bus.queue # <<>>
    /\ bus.queue # <<>> => bus.in_progress \/ sync.pc \in Scheduling
    /\ bus.in_progress => bus.cmd # "idle"
    /\ \A k \in DOMAIN bus.queue :
          bus.queue[k].left = 0 => k = 1 /\ bus.queue[k].awaiting_flush

\* Memory that was allocated but not filled, or freed, reaches a caller, the cache or
\* the disk only for a sector for which a wait has returned before its request was
\* done, and no other sector of the call, the cache or the disk.
NoFiller ==
    LET clean(d, l, x) == <<d, l>> \in early \/ (x[1] # Fresh /\ x[2] # Fresh)
    IN  /\ \A d \in Drive : \A k \in DOMAIN cache[d] : clean(d, cache[d][k].lba, cache[d][k].content)
        /\ \A d \in Drive, l \in Lba : clean(d, l, disk[d][l])
        /\ \A c \in Client : call[c].pc = "return" =>
              \A k \in DOMAIN call[c].buf : clean(drive_of(call[c].meta), call[c].lo + k, call[c].buf[k])

\* Operations that overlap do not disturb one another: each has its own position in the
\* rw_queue, and the memory one of them waits to be filled is seen by no other.
OperationsApart == IndexExclusive /\ NoFiller

\* hd/rw_queue.c:11: the callback of a request finds the position of its
\* operation in use; otherwise hd_rw_ready aborts.
NoAbort == ~abort
=============================================================================
