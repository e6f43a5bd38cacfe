------------------------------- MODULE Ext2 -------------------------------
(* Files and directories of a mounted ext2 volume.  Each lookup of a name    *)
(* builds a new vfs_node with caches of its own, and each open file has a    *)
(* third copy of the inode; nothing ties the copies together.  Calls do not  *)
(* overlap.                                                                  *)
(*                                                                           *)
(* A directory block is a sequence of records [ino, rec, name]; `rec' and    *)
(* the length of a name count 4-byte words (the unit pad_len rounds to).     *)
(*                                                                           *)
(* The first part is the space of the volume (kernel/kernel/vfs/mount/ext2): *)
(* block and inode bitmaps with their counters, inodes, and the tree of      *)
(* block pointers of an inode.  An operator takes the volume `fs', a record  *)
(*   bmap, gfree, sfree   used blocks, free blocks per group and in all      *)
(*   imap, igfree, isfree the same for inodes                                *)
(*   inode                what the inode table holds                         *)
(*   block                what each block holds: a table of pointers, the    *)
(*                        records of a directory, or bytes                   *)
(* and returns the volume the code leaves behind.  Times, owners and modes   *)
(* are left out.  A block number 0 means "none", as it does in the code.     *)
EXTENDS Integers, Sequences, FiniteSets, FiniteSetsExt, SequencesExt

CONSTANTS
  TotalBlocks, BlocksPerGroup,   \* superblock: total_blocks, blocks_per_group
  TotalInodes, InodesPerGroup,   \* superblock: total_inodes, inodes_per_group
  FirstUnreserved,               \* superblock: first_unreserved_inode
  BlockSize,                     \* bytes in a block
  AddrBlocks,                    \* blocks that 32-bit byte addresses reach: 2^32 / block_size
  NDirect,                       \* direct pointers of an inode (12)
  Ppb                            \* pointers in a block (block_size / 4)

-----------------------------------------------------------------------------
Blocks == 0 .. TotalBlocks - 1
Inodes == 1 .. TotalInodes
GroupCount(total, per) == (total + per - 1) \div per
Groups == 0 .. GroupCount(TotalBlocks, BlocksPerGroup) - 1

(* The part of the volume a group covers; the last group may be short.       *)
BlocksIn(g) == {b \in Blocks : b \div BlocksPerGroup = g}
InodesIn(g) == {i \in Inodes : (i - 1) \div InodesPerGroup = g}

(* hd_write drops what is written through a handle opened for reading only.  *)
device_write(mode, fs, new) == IF mode \in {"O_WRONLY", "O_RDWR"} THEN new ELSE fs

Zeros == [kind |-> "bytes", byte |-> [i \in 0 .. BlockSize - 1 |-> 0]]

(* Where the device puts block b: its byte address is a 32-bit size_t, so a  *)
(* block at 4 GiB or above lands on a low one.                               *)
At(b) == b % AddrBlocks

(* What a block holds when it is read as a table of pointers.                *)
Pointer(fs, b, i) == IF fs.block[At(b)].kind = "table" THEN fs.block[At(b)].ptr[i] ELSE 0
SetPointer(fs, b, i, p) ==
  [fs EXCEPT !.block[At(b)] =
     [kind |-> "table",
      ptr |-> [j \in 0 .. Ppb - 1 |-> IF j = i THEN p ELSE Pointer(fs, b, j)]]]

-----------------------------------------------------------------------------
(* The groups that say they have a free block; one whose counter is above    *)
(* zero but whose bitmap is full is passed over.                             *)
WithFree(fs) == {g \in Groups : fs.gfree[g] # 0 /\ BlocksIn(g) \ fs.bmap # {}}

TakeBlock(fs, g, b) ==
  [fs |-> device_write("O_RDWR", fs,
            [fs EXCEPT !.bmap = @ \union {b}, !.gfree[g] = @ - 1, !.sfree = @ - 1]),
   block |-> b]
FirstFree(fs, g) == TakeBlock(fs, g, Min(BlocksIn(g) \ fs.bmap))

(* The first free block of the first such group.                             *)
ext2_alloc_block(fs) ==
  IF fs.sfree = 0 \/ WithFree(fs) = {} THEN [fs |-> fs, block |-> 0] ELSE FirstFree(fs, Min(WithFree(fs)))

ext2_free_block(fs, b) ==
  device_write("O_RDWR", fs,
    [fs EXCEPT !.bmap = @ \ {b}, !.gfree[b \div BlocksPerGroup] = @ + 1, !.sfree = @ + 1])

(* The same search over inodes, past the reserved ones.  The device is       *)
(* opened O_RDONLY here, so neither bitmap nor counters reach the volume.    *)
FreeInodes(fs, g) == {i \in InodesIn(g) \ fs.imap : i >= FirstUnreserved}
WithFreeInode(fs) == {g \in Groups : fs.igfree[g] # 0 /\ FreeInodes(fs, g) # {}}

TakeInode(fs, g, i) ==
  [fs |-> device_write("O_RDONLY", fs,
            [fs EXCEPT !.imap = @ \union {i}, !.igfree[g] = @ - 1, !.isfree = @ - 1]),
   ino |-> i]
FirstFreeInode(fs, g) == TakeInode(fs, g, Min(FreeInodes(fs, g)))

ext2_alloc_inode(fs) ==
  IF fs.isfree = 0 \/ WithFreeInode(fs) = {} THEN [fs |-> fs, ino |-> 0]
  ELSE FirstFreeInode(fs, Min(WithFreeInode(fs)))

ext2_read_inode(fs, i) == fs.inode[i]
ext2_write_inode(fs, i, inode) == device_write("O_RDWR", fs, [fs EXCEPT !.inode[i] = inode])

EmptyInode(type) ==
  [type |-> type, size |-> 0, links |-> 0,
   direct |-> [i \in 0 .. NDirect - 1 |-> 0], indirect |-> [l \in 1 .. 3 |-> 0]]

-----------------------------------------------------------------------------
(* Where a block of a file is found: 0 for a direct pointer, otherwise how   *)
(* many tables are passed, and the index taken in each of them.              *)
Level(b) ==
  IF b < NDirect THEN 0
  ELSE IF b - NDirect < Ppb THEN 1
  ELSE IF b - NDirect - Ppb < Ppb * Ppb THEN 2 ELSE 3

Path(b) ==
  LET s == b - NDirect
      d == s - Ppb
      t == d - Ppb * Ppb
  IN CASE Level(b) = 1 -> <<s>>
       [] Level(b) = 2 -> <<d \div Ppb, d % Ppb>>
       [] Level(b) = 3 -> <<t \div (Ppb * Ppb), (t \div Ppb) % Ppb, t % Ppb>>

RECURSIVE Follow(_, _, _)
Follow(fs, b, path) ==
  IF path = <<>> THEN b ELSE Follow(fs, Pointer(fs, b, Head(path)), Tail(path))

(* The address, in blocks, of block `b' of a file; 0 past the end of the     *)
(* file, and 0 also for a block at a multiple of 4 GiB.                      *)
ext2_block_id_to_addr(fs, inode, b) ==
  IF b * BlockSize >= inode.size THEN 0
  ELSE IF Level(b) = 0 THEN At(inode.direct[b])
  ELSE At(Follow(fs, inode.indirect[Level(b)], Path(b)))

Zeroed(got) == IF got.block = 0 THEN got ELSE [got EXCEPT !.fs.block[At(got.block)] = Zeros]

(* A zeroed block for a table where `old' is none.                           *)
ensure_indirect(fs, old) ==
  IF old # 0 THEN [fs |-> fs, block |-> old] ELSE Zeroed(ext2_alloc_block(fs))

(* Walks down from table `t', making the tables that are missing; the first  *)
(* one that cannot be made stops the walk and keeps those made before.       *)
RECURSIVE Descend(_, _, _, _)
Below(t, old, got, path, new) ==
  IF got.block = 0 THEN [fs |-> got.fs, ok |-> FALSE]
  ELSE Descend(IF old = 0 THEN SetPointer(got.fs, t, Head(path), got.block) ELSE got.fs,
               got.block, Tail(path), new)
Descend(fs, t, path, new) ==
  IF Len(path) = 1 THEN [fs |-> SetPointer(fs, t, Head(path), new), ok |-> TRUE]
  ELSE Below(t, Pointer(fs, t, Head(path)), ensure_indirect(fs, Pointer(fs, t, Head(path))), path, new)

Rooted(inode, res) == [fs |-> res.fs, inode |-> inode, ok |-> res.ok]
SetBelow(inode, b, new, top) ==
  IF top.block = 0 THEN [fs |-> top.fs, inode |-> inode, ok |-> FALSE]
  ELSE Rooted([inode EXCEPT !.indirect[Level(b)] = top.block], Descend(top.fs, top.block, Path(b), new))

ext2_set_block_id(fs, inode, b, new) ==
  IF Level(b) = 0 THEN [fs |-> fs, inode |-> [inode EXCEPT !.direct[b] = new], ok |-> TRUE]
  ELSE SetBelow(inode, b, new, ensure_indirect(fs, inode.indirect[Level(b)]))

(* A block is allocated for block b of a file, entered in the inode, filled. *)
Filled(set, block, data) ==
  IF set.ok THEN [set EXCEPT !.fs.block[At(block)] = data] ELSE set
Entered(inode, b, data, got) ==
  IF got.block = 0 THEN [fs |-> got.fs, inode |-> inode, ok |-> FALSE]
  ELSE Filled(ext2_set_block_id(got.fs, inode, b, got.block), got.block, data)
NewBlock(fs, inode, b, data) == Entered(inode, b, data, ext2_alloc_block(fs))

-----------------------------------------------------------------------------
(* Every block a table of the given level leads to, itself included.         *)
RECURSIVE Under(_, _, _)
Under(fs, t, level) ==
  IF t = 0 THEN {}
  ELSE {t} \union (IF level = 0 THEN {}
                   ELSE UNION {Under(fs, Pointer(fs, t, i), level - 1) : i \in 0 .. Ppb - 1})

Direct(inode) == {inode.direct[i] : i \in 0 .. NDirect - 1} \ {0}

(* The blocks an inode owns: its data and its tables.                        *)
Owned(fs, inode) ==
  Direct(inode) \union UNION {Under(fs, inode.indirect[l], l) : l \in 1 .. 3}

(* What ext2_truncate gives back: free_indirect1..3 walk the trees.          *)
Freed(fs, inode) ==
  Direct(inode) \union UNION {Under(fs, inode.indirect[l], l) : l \in 1 .. 3}

FreeAll(fs, set) == FoldSet(LAMBDA b, v : ext2_free_block(v, b), fs, set)

-----------------------------------------------------------------------------
CONSTANTS
  File,           \* open file handles
  Name,           \* names a call may use
  LongName,       \* those of them that take two 4-byte words, not one
  RecSpace,       \* words in a directory block
  Data,           \* bytes a call may write
  WriteSizes, ReadSizes, SeekTo, MaxSize,
  MaxCalls

VARIABLES
  fs,         \* the volume, as the disk cache shows it
  node,       \* "root": the mount point; "cwd": a directory a task works in;
              \* and the node behind each open file
  file,       \* vfs_file_t with its ext2_file_metadata_t
  calls,
  contents,   \* the bytes a user of each inode has been told are in it
  shared,     \* inodes that two nodes have stood for at the same time
  reused,     \* inode numbers handed out again while a directory names them
  lost,       \* the blocks those inodes led to before
  stale,      \* a cached inode older than the volume's was written back
  short       \* a call stopped half way because the disk was full
vars == <<fs, node, file, calls, contents, shared, reused, lost, stale, short>>

Words == [n \in Name \union {".", ".."} |-> IF n \in LongName THEN 2 ELSE 1]
None == [none |-> TRUE]
Root == 2
NodeId == File \union {"root", "cwd"}

-----------------------------------------------------------------------------
Entry(ino, rec, name) == [ino |-> ino, rec |-> rec, name |-> name]
RealLen(name) == 2 + Words[name]                 \* 8-byte header and the name
rec_length(name) == (2 + Words[name]) % 64       \* held in a uint8_t, in words

(* The volume that is mounted, as mkfs and another system leave it: the root *)
(* directory in block 2 with a file "a" and an unused record, and inode 3    *)
(* reserved but not marked.                                                  *)
Image ==
  LET used == 0 .. 3
      imap == {1, Root, 4}
  IN [bmap |-> used,
      gfree |-> [g \in Groups |-> Cardinality(BlocksIn(g) \ used)],
      sfree |-> Cardinality(Blocks \ used),
      imap |-> imap,
      igfree |-> [g \in Groups |-> Cardinality(InodesIn(g) \ imap)],
      isfree |-> Cardinality(Inodes \ imap),
      inode |-> [i \in Inodes |->
        CASE i = Root -> [EmptyInode("dir") EXCEPT !.size = BlockSize, !.links = 2, !.direct[0] = 2]
          [] i = 4 -> [EmptyInode("file") EXCEPT !.size = 1, !.links = 1, !.direct[0] = 3]
          [] OTHER -> EmptyInode("free")],
      block |-> [b \in Blocks |->
        CASE b = 2 -> [kind |-> "dir",
                       rec |-> <<Entry(Root, 3, "."), Entry(Root, 3, ".."), Entry(4, 3, "a"),
                                 Entry(0, RecSpace - 9, "a")>>]
          [] b = 3 -> [Zeros EXCEPT !.byte[0] = 1]
          [] OTHER -> Zeros]]

BlockCount(inode) == (inode.size + BlockSize - 1) \div BlockSize

(* Records of the directory, block after block; an unmapped block or a       *)
(* record of length 0 ends the list.                                         *)
RECURSIVE Records(_, _, _)
Records(v, inode, b) ==
  LET addr == ext2_block_id_to_addr(v, inode, b)
  IN IF b >= BlockCount(inode) \/ addr = 0 THEN <<>>
     ELSE IF v.block[addr].kind # "dir" THEN <<>>
     ELSE v.block[addr].rec \o Records(v, inode, b + 1)

Fits(e, name) ==
  \/ e.ino = 0 /\ e.rec >= rec_length(name)
  \/ e.ino # 0 /\ e.rec - RealLen(e.name) >= rec_length(name)

(* The record goes into the first one that is unused and long enough, or     *)
(* into the slack behind the first one that has enough of it.                *)
Insert(recs, ino, name) ==
  LET i == Min({j \in 1 .. Len(recs) : Fits(recs[j], name)})
      e == recs[i]
  IN IF e.ino = 0 THEN [recs EXCEPT ![i] = Entry(ino, e.rec, name)]
     ELSE SubSeq(recs, 1, i - 1)
          \o <<[e EXCEPT !.rec = RealLen(e.name)],
               Entry(ino, e.rec - RealLen(e.name), name)>>
          \o SubSeq(recs, i + 1, Len(recs))

(* A fresh block for the directory `inode' with `name' as its only record.   *)
Longer(r) == IF r.ok THEN [r EXCEPT !.inode.size = @ + BlockSize] ELSE r
NewDirBlock(v, inode, b, ino, name) ==
  Longer(NewBlock(v, inode, b, [kind |-> "dir", rec |-> <<Entry(ino, RecSpace, name)>>]))

(* Walks the blocks of the directory until one takes the record.             *)
RECURSIVE AddRecord(_, _, _, _, _)
AddAt(v, inode, b, addr, ino, name) ==
  IF addr = 0 THEN NewDirBlock(v, inode, b, ino, name)
  ELSE IF v.block[addr].kind = "dir" /\ \E e \in ToSet(v.block[addr].rec) : Fits(e, name)
  THEN [fs |-> [v EXCEPT !.block[addr].rec = Insert(@, ino, name)], inode |-> inode, ok |-> TRUE]
  ELSE AddRecord(v, inode, b + 1, ino, name)
AddRecord(v, inode, b, ino, name) == AddAt(v, inode, b, ext2_block_id_to_addr(v, inode, b), ino, name)

(* The inodes are written once the record is there; `kid' was read before.   *)
WriteLinks(res, parent, child, kid) ==
  IF ~res.ok THEN [fs |-> res.fs, ok |-> FALSE]
  ELSE IF parent = child
  THEN [fs |-> ext2_write_inode(res.fs, parent, [res.inode EXCEPT !.links = @ + 1]), ok |-> TRUE]
  ELSE [fs |-> ext2_write_inode(ext2_write_inode(res.fs, parent, res.inode),
                                child, [kid EXCEPT !.links = @ + 1]),
        ok |-> TRUE]

ext2_add_inode_to_dir(v, parent, child, name) ==
  IF v.inode[parent].type # "dir" THEN [fs |-> v, ok |-> FALSE]
  ELSE WriteLinks(AddRecord(v, ext2_read_inode(v, parent), 0, child, name),
                  parent, child, ext2_read_inode(v, child))

-----------------------------------------------------------------------------
(* What a call works on and may change.                                      *)
Sys == [fs |-> fs, node |-> node, stale |-> stale]

(* The copy says at least what the volume says: a pointer the copy has and   *)
(* the volume lacks belongs to a write that ran out of space.                *)
Extends(copy, inode) ==
  /\ [copy EXCEPT !.indirect = inode.indirect] = inode
  /\ \A l \in 1 .. 3 : inode.indirect[l] \in {0, copy.indirect[l]}

WriteBack(s, ino, copy) ==
  [s EXCEPT !.fs = ext2_write_inode(s.fs, ino, copy),
            !.stale = @ \/ ~Extends(copy, s.fs.inode[ino])]

ext2_ensure_dir_cache(s, n) ==
  LET ino == s.node[n].ino
      inode == IF s.node[n].cache = None THEN ext2_read_inode(s.fs, ino) ELSE s.node[n].cache
  IN IF s.node[n].dir # None THEN s
     ELSE [s EXCEPT !.node[n].cache = inode, !.node[n].dir = Records(s.fs, inode, 0)]

NewNode(v, ino) ==
  [ino |-> ino, type |-> v.inode[ino].type, length |-> v.inode[ino].size,
   cache |-> None, dir |-> None]

(* The directory's inode is written back, for its time of last access, from  *)
(* the node's cache.  Returns the inode number found, 0 if there is none.    *)
Accessed(s, n) == WriteBack(s, s.node[n].ino, s.node[n].cache)

Lookup(dir, name) ==
  LET hits == SelectSeq(dir, LAMBDA e : e.ino # 0 /\ e.name = name)
  IN IF hits = <<>> THEN 0 ELSE hits[1].ino

FindIn(s, n, name) == [s |-> Accessed(s, n), ino |-> Lookup(s.node[n].dir, name)]
ext2_finddir(s, n, name) == FindIn(ext2_ensure_dir_cache(s, n), n, name)

ReadFrom(s, n) == IF s.node[n].dir = <<>> THEN s ELSE Accessed(s, n)
ext2_readdir(s, n) == ReadFrom(ext2_ensure_dir_cache(s, n), n)

(* Mutant: the caches of the parent survive.                                 *)
KeepsCaches(s, n) == s

Invalidate(s, n) == [s EXCEPT !.node[n].cache = None, !.node[n].dir = None]

(* Returns the inode number made, 0 on failure; it is in `reused' when it    *)
(* was in use, `short' when space ran out after the inode was written.       *)
NotMade(s) == [s |-> s, ino |-> 0, reused |-> {}, short |-> FALSE]

Added(s, n, ino, add) ==
  [s |-> IF add.ok THEN Invalidate([s EXCEPT !.fs = add.fs], n) ELSE [s EXCEPT !.fs = add.fs],
   ino |-> IF add.ok THEN ino ELSE 0,
   reused |-> {i \in {ino} : s.fs.inode[i].links > 0}, short |-> ~add.ok]

MakeInode(s, n, name, type, got) ==
  IF got.ino = 0 THEN NotMade([s EXCEPT !.fs = got.fs])
  ELSE Added(s, n, got.ino,
             ext2_add_inode_to_dir(ext2_write_inode(got.fs, got.ino, EmptyInode(type)),
                                   s.node[n].ino, got.ino, name))

MakeUnlessSeen(seen, n, name, type) ==
  IF seen.ino # 0 THEN NotMade(seen.s) ELSE MakeInode(seen.s, n, name, type, ext2_alloc_inode(seen.s.fs))

ext2_create_inode(s, n, name, type) == MakeUnlessSeen(ext2_finddir(s, n, name), n, name, type)

ext2_mkfile(s, n, name) == ext2_create_inode(s, n, name, "file")

DotDot(dot, ino, parent) ==
  IF dot.ok THEN ext2_add_inode_to_dir(dot.fs, ino, parent, "..") ELSE dot
Dots(v, ino, parent) == DotDot(ext2_add_inode_to_dir(v, ino, ino, "."), ino, parent)

AddDots(made, dots) == [made EXCEPT !.s.fs = dots.fs, !.short = ~dots.ok]
WithDots(made, n) ==
  IF made.ino = 0 THEN made ELSE AddDots(made, Dots(made.s.fs, made.ino, made.s.node[n].ino))
ext2_mkdir(s, n, name) == WithDots(ext2_create_inode(s, n, name, "dir"), n)

-----------------------------------------------------------------------------
Apply(s) == /\ fs' = s.fs
            /\ node' = s.node
            /\ stale' = s.stale
            /\ shared' = shared \union {i \in Inodes :
                 Cardinality({n \in NodeId : s.node[n] # None /\ s.node[n].ino = i}) > 1}
(* History: what the call handed out again, and where it ran out of space.   *)
Noted(r) == /\ reused' = reused \union r.reused
            /\ lost' = lost \union UNION {Owned(fs, fs.inode[i]) : i \in r.reused}
            /\ short' = (short \/ r.short)
Begin == /\ calls < MaxCalls
         /\ ~stale              \* a volume written over is not followed further
         /\ calls' = calls + 1

(* Mutant: the pointers stay in the inode.                                   *)
KeepsPointers(inode) == [inode EXCEPT !.size = 0]

Emptied(inode) == [EmptyInode(inode.type) EXCEPT !.links = inode.links]

(* All blocks the copy of the open file leads to are given back.             *)
ext2_truncate(s, f, copy) ==
  IF s.node[f].length = 0 THEN [s |-> s, copy |-> copy]
  ELSE [s |-> [s EXCEPT !.fs = ext2_write_inode(FreeAll(@, Freed(@, copy)), s.node[f].ino, Emptied(copy)),
                        !.node[f].length = 0,
                        !.node[f].cache = Emptied(copy),
                        !.stale = @ \/ ~Extends(copy, s.fs.inode[s.node[f].ino])],
        copy |-> Emptied(copy)]

(* What sys_open finds: it looks `name' up, makes the file if it is missing  *)
(* and O_CREAT is given, and looks it up again.                              *)
LookAgain(made, n, name) ==
  IF made.ino = 0 THEN made @@ [made |-> TRUE]
  ELSE ext2_finddir(made.s, n, name) @@ [reused |-> made.reused, short |-> made.short, made |-> TRUE]
LookOrMake(seen, n, name, flags) ==
  IF seen.ino = 0 /\ "O_CREAT" \in flags THEN LookAgain(ext2_mkfile(seen.s, n, name), n, name)
  ELSE seen @@ [reused |-> {}, short |-> FALSE, made |-> FALSE]

OpenNode(v, ino) == [NewNode(v, ino) EXCEPT !.cache = ext2_read_inode(v, ino)]
Opened(s, f, flags) ==
  IF "O_TRUNC" \in flags THEN ext2_truncate(s, f, s.node[f].cache) ELSE [s |-> s, copy |-> s.node[f].cache]

(* A failed creation drops the directory: the node of the working directory  *)
(* is released, that of the mount point is held by the list of the root.     *)
vfs_dentry_unref(s, n) == IF n = "cwd" THEN [s EXCEPT !.node["cwd"] = None] ELSE s

(* sys_open of `name' in the directory of node `n'.                          *)
Open(f, n, name, flags) ==
  /\ Begin /\ file[f] = None
  /\ node[n] # None /\ node[n].type = "dir"
  /\ \E r \in {LookOrMake(ext2_finddir(Sys, n, name), n, name, flags)} :
        /\ Noted(r)
        /\ IF r.ino = 0 \/ r.s.fs.inode[r.ino].type # "file"      \* -ENOENT, -EINVAL
           THEN /\ Apply(IF r.made /\ r.ino = 0 THEN vfs_dentry_unref(r.s, n) ELSE r.s)
                /\ UNCHANGED <<file, contents>>
           ELSE \E o \in {Opened([r.s EXCEPT !.node[f] = OpenNode(r.s.fs, r.ino)], f, flags)} :
                /\ Apply(o.s)
                /\ file' = [file EXCEPT ![f] = [copy |-> o.copy,
                      offset |-> IF "O_APPEND" \in flags /\ "O_TRUNC" \notin flags
                                 THEN o.copy.size ELSE 0]]
                /\ contents' = [contents EXCEPT ![r.ino] =
                      IF "O_TRUNC" \in flags \/ r.made THEN <<>> ELSE @]

(* The node goes with its last open file, and the caches with it.            *)
Close(f) ==
  /\ file[f] # None
  /\ file' = [file EXCEPT ![f] = None]
  /\ node' = [node EXCEPT ![f] = None]
  /\ UNCHANGED <<fs, calls, contents, shared, reused, lost, stale, short>>

(* The working directory opened as "." and closed again: its node goes with  *)
(* that handle although the task still points to it.                         *)
CloseDot ==
  /\ Begin /\ node["cwd"] # None
  /\ Apply(vfs_dentry_unref(Sys, "cwd"))
  /\ UNCHANGED <<file, contents, reused, lost, short>>

Seek(f, to) ==
  /\ file[f] # None /\ file[f].offset # to
  /\ file' = [file EXCEPT ![f].offset = to]
  /\ UNCHANGED <<fs, node, calls, contents, shared, reused, lost, stale, short>>

-----------------------------------------------------------------------------

(* What a write of `d' to bytes lo .. hi - 1 of the file leaves in a block.  *)
Patch(old, b, lo, hi, d) ==
  [kind |-> "bytes",
   byte |-> [i \in 0 .. BlockSize - 1 |->
     IF b * BlockSize + i \in lo .. hi - 1 THEN d
     ELSE IF old.kind = "bytes" THEN old.byte[i] ELSE 0]]

(* One round of the loop: find the block or make one, zeroed, and fill it.   *)
WriteAt(v, inode, b, addr, lo, hi, d) ==
  IF addr = 0 THEN NewBlock(v, inode, b, Patch(Zeros, b, lo, hi, d)) @@ [new |-> TRUE]
  ELSE [fs |-> [v EXCEPT !.block[addr] = Patch(@, b, lo, hi, d)],
        inode |-> inode, ok |-> TRUE, new |-> FALSE]
WriteBlock(v, inode, b, lo, hi, d) ==
  WriteAt(v, inode, b, ext2_block_id_to_addr(v, inode, b), lo, hi, d)

(* Blocks b .. (hi \div BlockSize), as far as they can be had; `done' is the *)
(* first byte that was not written, `dirty' says that a block was added.     *)
RECURSIVE WriteBlocks(_, _, _, _, _, _, _)
GoOn(r, b, lo, stop, hi, d, dirty) ==
  IF ~r.ok THEN [fs |-> r.fs, inode |-> r.inode, done |-> lo, dirty |-> dirty]
  ELSE WriteBlocks(r.fs, r.inode, b + 1, stop, hi, d, dirty \/ r.new)
WriteUpTo(v, inode, b, lo, stop, hi, d, dirty) ==
  GoOn(WriteBlock(v, inode, b, lo, stop, d), b, lo, stop, hi, d, dirty)
WriteBlocks(v, inode, b, lo, hi, d, dirty) ==
  IF lo >= hi THEN [fs |-> v, inode |-> inode, done |-> lo, dirty |-> dirty]
  ELSE WriteUpTo(v, inode, b, lo, Min({hi, (b + 1) * BlockSize}), hi, d, dirty)

Overwritten(seq, lo, hi, d) ==
  [i \in 1 .. Max({Len(seq), hi}) |-> IF i - 1 \in lo .. hi - 1 THEN d ELSE IF i <= Len(seq) THEN seq[i] ELSE 0]

ext2_write(f, size, d) ==
  /\ Begin /\ file[f] # None
  /\ \E lo \in {file[f].offset}, ino \in {node[f].ino}, length \in {node[f].length},
        s \in {WriteBack(Sys, node[f].ino, file[f].copy)} :
        /\ lo + size <= MaxSize
        /\ IF lo > length THEN UNCHANGED <<fs, node, file, stale, contents, short>>
           ELSE \E w \in {WriteBlocks(s.fs, file[f].copy, lo \div BlockSize, lo, lo + size, d, FALSE)} :
                \E copy \in {[w.inode EXCEPT !.size = IF w.done > length THEN w.done ELSE @]} :
                /\ fs' = IF w.dirty \/ w.done > length THEN ext2_write_inode(w.fs, ino, copy) ELSE w.fs
                /\ stale' = s.stale
                /\ node' = [node EXCEPT ![f].length = Max({@, w.done})]
                /\ file' = [file EXCEPT ![f] = [copy |-> copy, offset |-> w.done]]
                /\ short' = (short \/ w.done < lo + size)
                /\ contents' = [contents EXCEPT ![ino] = Overwritten(@, lo, w.done, d)]
        /\ UNCHANGED <<shared, reused, lost>>

(* The bytes a reader with this copy of the inode sees.                      *)
Bytes(v, inode, length) ==
  [i \in 1 .. length |->
     LET addr == ext2_block_id_to_addr(v, inode, (i - 1) \div BlockSize)
     IN IF addr = 0 \/ v.block[addr].kind # "bytes" THEN "hole"
        ELSE v.block[addr].byte[(i - 1) % BlockSize]]

(* A read writes the inode back too, for its time of last access.            *)
ext2_read(f, size) ==
  /\ Begin /\ file[f] # None
  /\ LET lo == file[f].offset
         hi == Min({lo + size, node[f].length})
     IN IF lo >= node[f].length THEN UNCHANGED <<fs, node, file, shared, stale>>
        ELSE /\ Apply(WriteBack(Sys, node[f].ino, file[f].copy))
             /\ file' = [file EXCEPT ![f].offset = hi]
  /\ UNCHANGED <<contents, reused, lost, short>>

Mkdir(n, name) ==
  /\ Begin
  /\ node[n] # None /\ node[n].type = "dir"
  /\ \E r \in {ext2_mkdir(Sys, n, name)} :
        /\ Apply(r.s)
        /\ Noted(r)
        /\ contents' = IF r.ino = 0 THEN contents ELSE [contents EXCEPT ![r.ino] = <<>>]
  /\ UNCHANGED file

(* chdir: the node found stays with the task as its working directory.       *)
Chdir(n, name) ==
  /\ Begin
  /\ node[n] # None /\ node[n].type = "dir"
  /\ \E seen \in {ext2_finddir(Sys, n, name)} :
        Apply(IF seen.ino = 0 THEN seen.s
              ELSE [seen.s EXCEPT !.node["cwd"] = NewNode(seen.s.fs, seen.ino)])
  /\ UNCHANGED <<file, contents, reused, lost, short>>

Getdents(n) ==
  /\ Begin
  /\ node[n] # None /\ node[n].type = "dir"
  /\ Apply(ext2_readdir(Sys, n))
  /\ UNCHANGED <<file, contents, reused, lost, short>>

Flags == {{}, {"O_CREAT"}, {"O_TRUNC"}, {"O_APPEND"}}

(* The volume passes the checks of vfs_mount_ext2.                           *)
vfs_mount_ext2 ==
  /\ GroupCount(TotalBlocks, BlocksPerGroup) = GroupCount(TotalInodes, InodesPerGroup)
  /\ node = [n \in NodeId |->
       IF n = "root" THEN [ino |-> Root, type |-> "dir", length |-> 0,
                           cache |-> None, dir |-> None]
       ELSE None]

Init ==
  /\ fs = Image
  /\ vfs_mount_ext2
  /\ file = [f \in File |-> None]
  /\ calls = 0
  /\ contents = [i \in Inodes |->
       IF Image.inode[i].type = "file"
       THEN Bytes(Image, Image.inode[i], Image.inode[i].size) ELSE <<>>]
  /\ shared = {} /\ reused = {} /\ lost = {} /\ stale = FALSE /\ short = FALSE

Next ==
  \/ \E f \in File, n \in {"root", "cwd"}, name \in Name, flags \in Flags :
       Open(f, n, name, flags)
  \/ \E f \in File : Close(f)
  \/ CloseDot
  \/ \E f \in File, to \in SeekTo : Seek(f, to)
  \/ \E f \in File, size \in WriteSizes, d \in Data : ext2_write(f, size, d)
  \/ \E f \in File, size \in ReadSizes : ext2_read(f, size)
  \/ \E n \in {"root", "cwd"}, name \in Name : Mkdir(n, name) \/ Chdir(n, name)
  \/ \E n \in {"root", "cwd"} : Getdents(n)

Spec == Init /\ [][Next]_vars
-----------------------------------------------------------------------------
OwnedOf(i) == Owned(fs, fs.inode[i])
Metadata == Image.bmap \ UNION {Owned(Image, Image.inode[i]) : i \in Inodes}
Tree(i) == UNION {Under(fs, fs.inode[i].indirect[l], l) : l \in 1 .. 3}

(* Counters and bitmap are written one after the other by alloc_block and    *)
(* free_block; between calls, each group's counter and the superblock's      *)
(* counter are the number of zero bits.                                      *)
FreeCountsExact ==
  stale \/
  /\ \A g \in Groups : fs.gfree[g] = Cardinality(BlocksIn(g) \ fs.bmap)
  /\ fs.sfree = Cardinality(Blocks \ fs.bmap)

(* A block belongs to one inode at most, never to the volume's own tables,   *)
(* and is marked used: files and directories cannot overwrite one another,   *)
(* whatever has been truncated, filled up or half written before.            *)
BlocksPrivate ==
  stale \/
  /\ \A i, j \in Inodes : i # j => OwnedOf(i) \cap OwnedOf(j) = {}
  /\ \A i \in Inodes : /\ OwnedOf(i) \subseteq fs.bmap \ Metadata
                      /\ Direct(fs.inode[i]) \cap Tree(i) = {}

(* Every block marked used is reachable: truncation gives back the data and  *)
(* each table above it.  What is left behind is only what calls that ran out *)
(* of space had taken, and what an inode handed out again had led to.        *)
NothingLeaked ==
  stale \/ short \/ fs.bmap = Metadata \union lost \union UNION {OwnedOf(i) : i \in Inodes}

(* The volume holds, for each file, the bytes its writers were told had been *)
(* written, through direct pointers and one, two and three tables: for every *)
(* volume that 32-bit byte addresses reach (TotalBlocks <= AddrBlocks).      *)
ContentsExact ==
  stale \/
  \A i \in Inodes : fs.inode[i].type = "file" =>
    Bytes(fs, fs.inode[i], fs.inode[i].size) = contents[i]

(* The records of a directory block fill it exactly, and each is as long as  *)
(* its name needs: cutting the slack of a record loses none of it.           *)
RecordsTile ==
  \A b \in Blocks : fs.block[b].kind = "dir" =>
    LET recs == fs.block[b].rec
    IN /\ FoldSeq(LAMBDA e, n : e.rec + n, 0, recs) = RecSpace
       /\ \A k \in 1 .. Len(recs) : recs[k].ino # 0 => recs[k].rec >= RealLen(recs[k].name)

(* An inode's link count is the number of records that name it, over all     *)
(* directories; a new directory is named by its parent and by its own dot.   *)
(* It is never less than that, even after a directory's inode was handed out *)
(* again, except for the inode that was.                                     *)
RecordsOf(i) ==
  FoldSet(LAMBDA d, n : n + Cardinality({k \in DOMAIN Records(fs, fs.inode[d], 0) :
                                          Records(fs, fs.inode[d], 0)[k].ino = i}),
          0, {d \in Inodes : fs.inode[d].type = "dir"})
LinksExact ==
  stale \/ \A i \in Inodes \ reused :
             /\ fs.inode[i].links >= RecordsOf(i)
             /\ fs.inode[i].links = RecordsOf(i) \/ reused # {} \/ short

(* As long as no second node has stood for an inode, the copies kept for it  *)
(* agree with the volume: a write-back for a time stamp never undoes a call. *)
CopiesCurrent ==
  /\ stale => shared \union reused # {}
  /\ \A n \in NodeId :
    (node[n] # None /\ node[n].ino \notin shared \union reused) =>
      LET i == node[n].ino
      IN /\ n \in File => Extends(file[n].copy, fs.inode[i])
         /\ node[n].dir # None => /\ node[n].cache = fs.inode[i]
                                  /\ node[n].dir = Records(fs, fs.inode[i], 0)

(* ext2.h on ext2_alloc_inode: "mark the first free inode as used".          *)
InodesMarked == \A i \in Inodes : fs.inode[i].links > 0 => i \in fs.imap
=============================================================================
