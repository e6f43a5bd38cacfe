------------------------------- MODULE Paths --------------------------------
(***************************************************************************)
(* Path resolution, vfs/path.c, the parts of vfs/vfs.c it calls, and the   *)
(* calls of a task that use it: open, mkdir, chdir, getcwd, readlink.      *)
(*                                                                         *)
(* A path is a sequence of names and slashes.  A dentry is the sequence of *)
(* names on its chain of parents, and tree gives the node each one has:    *)
(*                                                                         *)
(*   fs   "root"  the root directory, a list of entries in memory          *)
(*        "disk"  a directory of a mounted file system that can create     *)
(*        "none"  a node without hooks: no lookup finds anything in it     *)
(*                                                                         *)
(* Nothing is ever removed or renamed, so a dentry keeps its meaning.      *)
(* Lookups make new dentries; "." and ".." stay on the ones of the         *)
(* directory they start from, which a failed creation then frees.          *)
(***************************************************************************)
EXTENDS Integers, Sequences, SequencesExt, FiniteSets

CONSTANTS Paths,                  \* the arguments of the calls
          Mounted,                \* the tree at the start
          VFS_SYMLINK_MAX_DEPTH,
          CwdSize,                \* the size of the buffer passed to getcwd
          MaxCalls                \* bound on the calls

VARIABLES tree,  \* dentry -> node
          cwd,   \* working_directory
          fds,   \* the dentries of the open files
          gone,  \* which of these two reach a dentry that was freed
          last,  \* history: what the latest call did, and the path it was given
          calls

vars == <<tree, cwd, fds, gone, last, calls>>

root == <<>>
Node(type, fs) == [type |-> type, fs |-> fs, target |-> <<>>]
Nothing == [did |-> "nothing", at |-> root, from |-> root, path |-> <<>>]

----------------------------------------------------------------------------
vfs_finddir(d, name) == /\ tree[d].type = "dir" /\ tree[d].fs # "none"
                        /\ Append(d, name) \in DOMAIN tree

\* The result: its first kept names are dentries of the start, the others new ones.
Found(d, kept) == [ok |-> TRUE, at |-> d, kept |-> kept, missing |-> FALSE, name |-> IF d = root THEN "" ELSE Last(d)]
Missing(d, kept, name) == [ok |-> TRUE, at |-> d, kept |-> kept, missing |-> TRUE, name |-> name]
NotFound == [ok |-> FALSE, at |-> root, kept |-> 0, missing |-> FALSE, name |-> ""]

\* Nothing but slashes is left.
Slashes(p) == \A i \in DOMAIN p : p[i] = "/"

\* Mutant: a relative link is taken from where the resolution started.
FromStart(start, d, combined) == IF combined # <<>> /\ Head(combined) = "/" THEN root ELSE start

\* Where the target and the rest of the path are resolved: from the root, or from the
\* directory the link is in.
Base(start, d, combined) == IF combined # <<>> /\ Head(combined) = "/" THEN root ELSE d

\* A link is followed unless it is the very last thing in the path.
Follows(rest, follow_last) == follow_last \/ rest # <<>>

\* The loop over the components: d is node, p what is left of the path.
RECURSIVE Walk(_, _, _, _, _, _, _)
Walk(start, d, kept, p, depth, follow_last, allow_missing) ==
    IF p = <<>> THEN Found(d, kept)
    ELSE LET on(e) == Walk(start, e, IF kept > Len(e) THEN Len(e) ELSE kept, Tail(p), depth, follow_last, allow_missing)
             child == Append(d, Head(p))
             combined == tree[child].target \o Tail(p)
             base == Base(start, d, combined)
         IN  CASE Head(p) \in {"/", "."} -> on(d)
               [] Head(p) = ".." -> on(IF d = root THEN root ELSE Front(d))
               [] OTHER ->
                    IF ~vfs_finddir(d, Head(p))
                    THEN IF allow_missing /\ Slashes(Tail(p)) THEN Missing(d, kept, Head(p)) ELSE NotFound
                    ELSE IF tree[child].type # "link" \/ ~Follows(Tail(p), follow_last) THEN on(child)
                    ELSE IF depth + 1 >= VFS_SYMLINK_MAX_DEPTH THEN NotFound
                    ELSE Walk(base, base, IF base = root THEN 0 ELSE kept, combined, depth + 1, follow_last, allow_missing)

path_resolve_impl(start, path, depth, follow_last, allow_missing) ==
    LET d == IF path # <<>> /\ Head(path) = "/" THEN root ELSE start
    IN  Walk(start, d, Len(d), path, depth, follow_last, allow_missing)

path_resolve_relative(current, path) == path_resolve_impl(current, path, 0, TRUE, FALSE)
path_resolve_relative_no_follow(current, path) == path_resolve_impl(current, path, 0, FALSE, FALSE)
path_resolve_optional(current, path) == path_resolve_impl(current, path, 0, TRUE, TRUE)

path_build_absolute(d) == IF d = root THEN <<"/">> ELSE FlattenSeq([i \in DOMAIN d |-> <<"/", d[i]>>])

----------------------------------------------------------------------------

\* What creating a node does: a file system with the hook creates it or fails, the
\* root adds an entry without hooks, and anything else reports success.
Create(d, name, type, full) ==
    LET child == Append(d, name)
        add(fs) == [t |-> [e \in DOMAIN tree \union {child} |-> IF e = child THEN Node(type, fs) ELSE tree[e]],
                    ok |-> TRUE]
    IN  IF tree[d].type # "dir" THEN [t |-> tree, ok |-> FALSE]
        ELSE IF tree[d].fs = "disk" THEN IF full THEN [t |-> tree, ok |-> FALSE] ELSE add("disk")
        ELSE IF d = root THEN add("none")
        ELSE [t |-> tree, ok |-> TRUE]

vfs_mkdir(d, name, full) == Create(d, name, "dir", full)
vfs_mkfile(d, name, full) == Create(d, name, "file", full)

\* vfs_open: a directory only for reading, and O_DIRECTORY only a directory.
MayOpen(node, flags) == IF node.type = "dir" THEN flags \subseteq {"O_DIRECTORY"} ELSE "O_DIRECTORY" \notin flags

\* A lookup that starts at a freed dentry is undefined and is not followed.
Usable(freed, path) == freed => path # <<>> /\ Head(path) = "/"

\* vfs_dentry_unref of the directory r.at, when that is a dentry of the working
\* directory: it and the open files that may share the dentry are left with it.
vfs_dentry_unref(r) ==
    IF r.at = root \/ r.kept < Len(r.at) THEN gone
    ELSE [cwd |-> TRUE, fds |-> gone.fds \union {d \in fds : IsPrefix(r.at, d)}]

Call(did) == /\ calls < MaxCalls
             /\ calls' = calls + 1
             /\ last' = did

sys_open(path, flags, full) ==
    LET r == path_resolve_optional(cwd, path)
        made == vfs_mkfile(r.at, r.name, full)
        create == r.missing /\ "O_CREAT" \in flags
        there == Append(r.at, r.name) \in DOMAIN made.t /\ tree[r.at].fs # "none"
        at == IF create THEN Append(r.at, r.name) ELSE r.at
        opens == /\ r.ok /\ (r.missing => create /\ made.ok /\ there)
                 /\ MayOpen((IF create THEN made.t ELSE tree)[at], flags)
    IN  /\ Usable(gone.cwd, path)
        /\ Call(IF opens THEN [did |-> "open", at |-> at, from |-> cwd, path |-> path] ELSE Nothing)
        /\ tree' = IF r.ok /\ create THEN made.t ELSE tree
        /\ fds' = IF opens THEN fds \union {at} ELSE fds
        /\ gone' = IF r.ok /\ create /\ ~made.ok THEN vfs_dentry_unref(r) ELSE gone
        /\ UNCHANGED cwd

\* base is the working directory or that of an open descriptor, freed if it is gone.
sys_mkdir(base, freed, path, full) ==
    LET r == path_resolve_optional(base, path)
        made == vfs_mkdir(r.at, r.name, full)
        tries == tree[base].type = "dir" /\ r.ok /\ r.missing
    IN  /\ Usable(freed, path)
        /\ Call(IF tries /\ made.ok THEN [did |-> "mkdir", at |-> Append(r.at, r.name), from |-> base, path |-> path]
                ELSE Nothing)
        /\ tree' = IF tries THEN made.t ELSE tree
        /\ UNCHANGED <<cwd, fds, gone>>

sys_chdir(path) ==
    LET r == path_resolve_relative(cwd, path)
    IN  /\ Usable(gone.cwd, path) /\ r.ok
        /\ Call([did |-> "chdir", at |-> r.at, from |-> cwd, path |-> path])
        /\ cwd' = r.at
        /\ gone' = [gone EXCEPT !.cwd = FALSE]
        /\ UNCHANGED <<tree, fds>>

\* NULL, here an empty path, when the text and its terminator do not fit.
sys_getcwd ==
    LET p == path_build_absolute(cwd)
    IN  /\ ~gone.cwd
        /\ Call([did |-> "getcwd", at |-> cwd, from |-> cwd, path |-> IF Len(p) + 1 > CwdSize THEN <<>> ELSE p])
        /\ UNCHANGED <<tree, cwd, fds, gone>>

\* readlink answers for a link only.
sys_readlink(path) ==
    LET r == path_resolve_relative_no_follow(cwd, path)
    IN  /\ Usable(gone.cwd, path) /\ r.ok /\ tree[r.at].type = "link"
        /\ Call([did |-> "readlink", at |-> r.at, from |-> cwd, path |-> tree[r.at].target])
        /\ UNCHANGED <<tree, cwd, fds, gone>>

vfs_init == tree = Mounted

Init == vfs_init /\ cwd = root /\ fds = {} /\ gone = [cwd |-> FALSE, fds |-> {}] /\ last = Nothing /\ calls = 0

Flags == {{}, {"O_CREAT"}, {"O_DIRECTORY"}}

Next ==
    \/ sys_getcwd
    \/ \E p \in Paths :
         \/ \E f \in Flags, full \in BOOLEAN : sys_open(p, f, full)
         \/ \E full \in BOOLEAN : \/ sys_mkdir(cwd, gone.cwd, p, full)
                                  \/ \E b \in fds : sys_mkdir(b, b \in gone.fds, p, full)
         \/ sys_chdir(p)
         \/ sys_readlink(p)

Spec == Init /\ [][Next]_vars

----------------------------------------------------------------------------
\* The name a resolution ends at, if it finds one.
Leads(r) == IF r.ok THEN {r.at} ELSE {}

\* Resolving two paths one after the other and resolving them joined by a slash end
\* in the same place, through any links and any "..": what is behind a link is
\* resolved from where the link leads, and the link itself from the directory it is
\* in.  (A negative depth keeps the limit on links out of the comparison.)
Composes ==
    \A p \in Paths : \A first \in {path_resolve_impl(cwd, p, -9, TRUE, FALSE)} :
      \A q \in {r \in Paths : r = <<>> \/ Head(r) # "/"} :
        Leads(path_resolve_impl(cwd, (IF p = <<>> THEN <<".">> ELSE p) \o <<"/">> \o q, -9, TRUE, FALSE))
          = IF first.ok THEN Leads(path_resolve_impl(first.at, q, -9, TRUE, FALSE)) ELSE {}

\* Not following the last link differs from following only where the path ends in
\* one, and then by exactly that link ("Returns the symlink dentry itself", path.h);
\* a slash behind the link asks for what it points to.
LastLinkKept ==
    \A p \in Paths :
      LET kept == path_resolve_impl(cwd, p, -9, FALSE, FALSE)
          full == path_resolve_impl(cwd, p, -9, TRUE, FALSE)
      IN  IF kept.ok /\ tree[kept.at].type = "link"
          THEN /\ Last(p) # "/"
               /\ Leads(full) = Leads(path_resolve_impl(Front(kept.at), tree[kept.at].target, -8, TRUE, FALSE))
          ELSE kept = full

\* The dentries the calls hold never lie behind a link, a file or nothing: the parent
\* of each is a directory, so ".." and getcwd follow the real parents.
Canonical ==
    \A d \in fds \union {cwd} \union DOMAIN tree :
      /\ d \in DOMAIN tree
      /\ \A i \in 0 .. Len(d) - 1 : SubSeq(d, 1, i) \in DOMAIN tree /\ tree[SubSeq(d, 1, i)].type = "dir"
      /\ d \in fds \union {cwd} => tree[d].type # "link"

\* What getcwd reports leads back to the working directory from everywhere, and a
\* file that open created, through a dangling link or with slashes behind its name,
\* is what the same path leads to afterwards.
PathsLeadBack ==
    /\ last.did = "getcwd" /\ last.path # <<>> => \A d \in DOMAIN tree : Leads(path_resolve_relative(d, last.path)) = {cwd}
    /\ last.did = "open" => Leads(path_resolve_relative(last.from, last.path)) = {last.at}

\* A directory that mkdir reports as made is there, and the path leads to it, unless
\* the parent is a directory without hooks: there mkdir reports success and makes
\* nothing.
MadeIsThere ==
    last.did = "mkdir" =>
        IF tree[Front(last.at)].fs = "none" THEN last.at \notin DOMAIN tree
        ELSE Leads(path_resolve_relative(last.from, last.path)) = {last.at} /\ tree[last.at].type = "dir"
=============================================================================
