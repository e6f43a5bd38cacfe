----------------------------- MODULE Structures -----------------------------
(***************************************************************************)
(* Parts of the system that work on their own, side by side: the ring      *)
(* buffer, the task queues under scheduler_move_task_to_state, the buddy   *)
(* allocator, the string dictionary, the start-up of the PS/2 controller,  *)
(* the shell's pipelines, path resolution, and the files of an ext2        *)
(* volume.  A behaviour uses one of them ("subject").  The modules         *)
(* extended and instantiated here do the modelling.                        *)
(***************************************************************************)
EXTENDS RingBuf, StrDict, FiniteSets, TLC

CONSTANTS Task, Idle, NULL, CounterSize,
          BUDDY_MAX_ORDER, pmm_total_pages, Reserved, MaxRefs

VARIABLES subject, S, exists,
          order_map, allocated, refcount_map, free_lists, used_pages, alloc_count,
          pc, ccb, dual_channel, online, device, keyboard_on_port2, command, retry,
          hw, enabled, out, scan, faults, stray,
          sh, child, group, holds, buf, fg,
          tree, cwd, fds, gone, last, path_calls,
          fs, node, file, ext2_calls, contents, shared, reused, lost, stale, short

----------------------------------------------------------------------------
Q == INSTANCE QueueMoves

\* One region of available memory that covers every page.
B == INSTANCE Buddy WITH Regions <- <<<<0, pmm_total_pages>>>>

\* Three faults are one more than a command survives.
P == INSTANCE Ps2 WITH MaxFaults <- 3, MaxStray <- 2

\* Pipelines of up to three commands, with redirections, builtins, assignments, a
\* command that is not found, and malformed ones.
L == INSTANCE Shell WITH
    Lines <- {<<"gen", "|", "cat">>, <<"gen", "|", "cat", "|", "cat">>, <<"cd", "|", "cat">>,
              <<"gen", "|", "cd">>, <<"gen", "|", "none", "|", "cat">>, <<"gen", ">", "f", "|", "cat">>,
              <<"gen", "|", "cat", "<", "f", "|", "cat">>, <<"|", "cat">>, <<"X=1">>,
              <<"X=1", "gen", ">", "|">>, <<"exit">>},
    Assignments <- {"X=1"}, Missing <- {"none"}, Sources <- {"gen"}, PIPE_BUF_SIZE <- 2, Bytes <- 2, MaxCmd <- 3

\* Two groups of blocks, the second one short; blocks of two bytes and tables of two
\* pointers, so that a file of 15 bytes needs every level of tables and fills the disk.
Handles == {"f1", "f2"}
E == INSTANCE Ext2 WITH
    TotalBlocks <- 19, BlocksPerGroup <- 10, TotalInodes <- 5, InodesPerGroup <- 3, FirstUnreserved <- 4,
    BlockSize <- 2, AddrBlocks <- 20, NDirect <- 1, Ppb <- 2, File <- Handles, Name <- {"a", "long"}, LongName <- {"long"},
    RecSpace <- 14, Data <- {2}, WriteSizes <- {1, 15}, ReadSizes <- {1}, SeekTo <- {0, 3}, MaxSize <- 16,
    MaxCalls <- 4, calls <- ext2_calls

\* Directories and links on a mounted disk: a relative link, an absolute and dangling
\* one, one into its parent with a slash behind it, and one that leads to itself.
Node(type, hooks, target) == [type |-> type, fs |-> hooks, target |-> target]
MountedTree ==
    (<<>> :> Node("dir", "root", <<>>)) @@ (<<"m">> :> Node("dir", "disk", <<>>))
    @@ (<<"m", "d">> :> Node("dir", "disk", <<>>)) @@ (<<"m", "f">> :> Node("file", "disk", <<>>))
    @@ (<<"m", "l">> :> Node("link", "disk", <<"d">>)) @@ (<<"m", "k">> :> Node("link", "disk", <<"/", "n">>))
    @@ (<<"m", "d", "u">> :> Node("link", "disk", <<"..", "/", "l", "/">>))
    @@ (<<"m", "o">> :> Node("link", "disk", <<"o">>))
PathArgs ==
    {<<>>, <<"..">>, <<"m">>, <<"l">>, <<"l", "/">>, <<"/", "m", "/", "k", "/">>, <<"n", "/", "x">>,
     <<"m", "/", "l", "/", "x">>, <<"/", "m", "/", "d", "/", "u">>, <<"f", "/", "..">>,
     <<"u", "/", "..", "/", ".", "/", "k">>, <<"m", "/", "o">>, <<"x", "/", "/">>}
N == INSTANCE Paths WITH
    Mounted <- MountedTree, Paths <- PathArgs, VFS_SYMLINK_MAX_DEPTH <- 3, CwdSize <- 5, MaxCalls <- 3, calls <- path_calls

----------------------------------------------------------------------------
queueVars == <<S, exists>>
buddyVars == <<order_map, allocated, refcount_map, free_lists, used_pages, alloc_count>>
ps2Vars == <<pc, ccb, dual_channel, online, device, keyboard_on_port2, command, retry,
             hw, enabled, out, scan, faults, stray>>
shellVars == <<sh, child, group, holds, buf, fg>>
ext2Vars == <<fs, node, file, ext2_calls, contents, shared, reused, lost, stale, short>>
pathVars == <<tree, cwd, fds, gone, last, path_calls>>
AllVars == <<vars, subject, queueVars, buddyVars, dictVars, ps2Vars, shellVars, pathVars, ext2Vars>>

\* The variables of a part that is not the subject are 0 (or have an empty pc); the ring
\* buffer and the dictionary then keep one initial state.
NoQueues == S = 0 /\ exists = 0
NoBuddy == /\ order_map = 0 /\ allocated = 0 /\ refcount_map = 0 /\ free_lists = 0
           /\ used_pages = 0 /\ alloc_count = 0
NoPs2 == /\ pc = "" /\ ccb = 0 /\ dual_channel = 0 /\ online = 0 /\ device = 0 /\ keyboard_on_port2 = 0
         /\ command = 0 /\ retry = 0 /\ hw = 0 /\ enabled = 0 /\ out = 0 /\ scan = 0 /\ faults = 0 /\ stray = 0
NoShell == sh = [pc |-> ""] /\ child = 0 /\ group = 0 /\ holds = 0 /\ buf = 0 /\ fg = 0
NoExt2 == /\ fs = 0 /\ node = 0 /\ file = 0 /\ ext2_calls = 0 /\ contents = 0
          /\ shared = 0 /\ reused = 0 /\ lost = 0 /\ stale = 0 /\ short = 0
NoPaths == tree = 0 /\ cwd = 0 /\ fds = 0 /\ gone = 0 /\ last = 0 /\ path_calls = 0

AllInit == /\ subject \in {"ringbuf", "queues", "buddy", "dict", "ps2", "shell", "paths", "ext2"}
           /\ Init /\ (subject # "ringbuf" => fail_on_full /\ got = (CHOOSE v \in Value : TRUE) /\ storage = [i \in Index |-> got])
           /\ DictInit /\ (subject # "dict" => capacity = 0)
           /\ IF subject = "queues" THEN Q!Init ELSE NoQueues
           /\ IF subject = "buddy" THEN B!pmm_init ELSE NoBuddy
           /\ IF subject = "ps2" THEN P!Init ELSE NoPs2
           /\ IF subject = "shell" THEN L!Init ELSE NoShell
           /\ IF subject = "paths" THEN N!Init ELSE NoPaths
           /\ IF subject = "ext2" THEN E!Init ELSE NoExt2

\* A step of one part; the PS/2, shell, path and ext2 instances are bounded or end.
Ps2Step == /\ subject = "ps2" /\ P!Next
           /\ UNCHANGED <<subject, vars, queueVars, buddyVars, dictVars, shellVars, pathVars, ext2Vars>>

InShell(A) == /\ subject = "shell" /\ A
              /\ UNCHANGED <<subject, vars, queueVars, buddyVars, dictVars, ps2Vars, pathVars, ext2Vars>>

AllNext ==
    \/ /\ subject = "ringbuf" /\ Next
       /\ UNCHANGED <<subject, queueVars, buddyVars, dictVars, ps2Vars, shellVars, pathVars, ext2Vars>>
    \/ /\ subject = "queues" /\ Q!Next
       /\ UNCHANGED <<subject, vars, buddyVars, dictVars, ps2Vars, shellVars, pathVars, ext2Vars>>
    \/ /\ subject = "buddy" /\ B!Next
       /\ UNCHANGED <<subject, vars, queueVars, dictVars, ps2Vars, shellVars, pathVars, ext2Vars>>
    \/ /\ subject = "dict" /\ DictNext
       /\ UNCHANGED <<subject, vars, queueVars, buddyVars, ps2Vars, shellVars, pathVars, ext2Vars>>
    \/ Ps2Step \/ InShell(L!Next)
    \/ /\ subject = "paths" /\ N!Next
       /\ UNCHANGED <<subject, vars, queueVars, buddyVars, dictVars, ps2Vars, shellVars, ext2Vars>>
    \/ /\ subject = "ext2" /\ E!Next
       /\ UNCHANGED <<subject, vars, queueVars, buddyVars, dictVars, ps2Vars, shellVars, pathVars>>
    \/ subject \in {"ps2", "shell", "paths", "ext2"} /\ UNCHANGED AllVars

\* Start-up of the PS/2 controller runs to its end, and so does every process the
\* shell starts; the line somebody enters may never come.
AllSpec == /\ AllInit /\ [][AllNext]_AllVars
           /\ WF_AllVars(Ps2Step)
           /\ WF_AllVars(InShell(L!ShellStep))
           /\ \A p \in 1 .. 3 : WF_AllVars(InShell(L!ChildStep(p)))

----------------------------------------------------------------------------
Moves == INSTANCE TaskQueues WITH Queue <- Q!Queued,
             queues <- [q \in Q!Queued |-> Q!Chain(q)]

\* scheduler_move_task_to_state keeps the linked queues intact (IntactQueues in
\* QueueMoves) and, seen as sequences, a move takes the task out of its queue, puts it
\* at the end of the new one and disturbs no other task.
MovesAreFifo ==
    /\ [](subject = "queues" => Q!IntactQueues)
    /\ (subject = "queues" => Moves!QInit)
    /\ [][subject = "queues" => [Moves!QNext]_Moves!qvars]_queueVars

\* The free blocks of the buddy allocator and those in use tile the available memory,
\* no two buddies are both free, the statistics are the memory really in use, and a
\* page is never handed out while it is referenced (Partition, MaximallyMerged,
\* CountsExact and the abstract PageAllocator, see Buddy).
PagesExact ==
    /\ [](subject = "buddy" => B!Partition /\ B!MaximallyMerged /\ B!CountsExact)
    /\ (subject = "buddy" => B!Pool!InitialRefs)
    /\ [][subject = "buddy" => B!Pool!PoolNext]_refcount_map

\* keyboard_init ends with a keyboard that scans in set 2 and leaves no answer to be
\* taken for a key (ReadyMeansScanning, ReadyMeansDrained in Ps2).
KeyboardReady == subject = "ps2" => P!ReadyMeansScanning /\ P!ReadyMeansDrained

\* At the prompt no process, pipe end or foreground group is left over, and the
\* processes of a pipeline run in one group of their own (NothingLeft, OneGroup in
\* Shell).
PipelinesClean == subject = "shell" => L!NothingLeft /\ L!OneGroup

\* The start-up of controller and keyboard comes to an end (Terminates in Ps2), and so
\* does every line the shell executes (ShellReturns in Shell).
Returns == /\ subject = "ps2" => P!Terminates
           /\ subject = "shell" => L!ShellReturns

\* A path behind a path leads where the two joined lead; not following the last link
\* leaves out exactly that link; no dentry in use lies behind a link or a file; what
\* getcwd, open and mkdir report leads back (Composes, LastLinkKept, Canonical,
\* PathsLeadBack, MadeIsThere in Paths).
PathsExact == subject = "paths" => /\ N!Canonical /\ N!PathsLeadBack /\ N!MadeIsThere
                                   /\ N!Composes /\ N!LastLinkKept

\* The free counts of a volume are those of its bitmaps; no block belongs to two files,
\* and one marked used belongs to one unless the disk was full; a file holds the bytes
\* written to it; the records of a directory tile its blocks, and link counts are the
\* names that lead to an inode (FreeCountsExact, BlocksPrivate, NothingLeaked,
\* ContentsExact, RecordsTile, LinksExact in Ext2).
VolumeExact == subject = "ext2" => /\ E!FreeCountsExact /\ E!BlocksPrivate /\ E!NothingLeaked
                                   /\ E!ContentsExact /\ E!RecordsTile /\ E!LinksExact

\* The caches of a node that is alone agree with the volume (see Ext2).
CopiesCurrent == subject = "ext2" => E!CopiesCurrent
=============================================================================
