--------------------------------- MODULE Vfs ---------------------------------
(***************************************************************************)
(* The virtual file system (fs/vfs.c), its only file system fs1            *)
(* (fs/fs1/fs1.c: one directory, read only) and the pages that hold blocks *)
(* of the disk (kernel/kblockio.c).                                        *)
(*                                                                         *)
(* An absolute path is the sequence of what is between its slashes, so     *)
(* that "/" is <<"">>, "/a" is <<"a">> and "//a" is <<"", "a">>; then a    *)
(* mount path is a prefix of a path, cut at a slash or at the end, exactly *)
(* when the sequences are prefixes.  Inodes, superblocks and pages are     *)
(* numbered in the order of their allocation; 0 stands for NULL.           *)
(***************************************************************************)
EXTENDS Integers, Sequences, SequencesExt, FiniteSets, FiniteSetsExt

CONSTANTS
    Disk,         \* Disk[minor]: [dir: entries 1 ..., block: lba -> data]
    BLOCK_SIZE,   \* units of data in a block
    UMax,         \* number of values of an unsigned, 2^32 in the code
    MountPaths, VfsPaths, Rels, Sizes, Seeks,   \* what the callers give
    BadBlocks,    \* blocks that the disk may fail to read; 0 for none
    FsMax,        \* VFS_FILESYSTEM_MAX
    MaxPages,     \* pages the kernel allocator has for the vfs
    MaxFiles, MaxInodes   \* bounds: open files, inodes ever created

ASSUME VfsAssumption ==
    /\ {BLOCK_SIZE, UMax, FsMax, MaxPages} \subseteq Nat \ {0}
    /\ MountPaths \cup VfsPaths \cup Rels \subseteq Seq(STRING) /\ <<>> \notin MountPaths
    /\ Sizes \subseteq Nat /\ Seeks \subseteq Int

\* On an fs1 disk a file has all its blocks, and a read in it does not reach the
\* end of the unsigned numbers.
ASSUME DiskAssumption ==
    /\ 0 \in DOMAIN Disk
    /\ \A minor \in DOMAIN Disk :
          /\ Disk[minor].dir \in Seq([name : STRING, lba : Nat, size : Nat])
          /\ \A e \in DOMAIN Disk[minor].dir :
                LET entry == Disk[minor].dir[e]
                IN  /\ \A k \in 0 .. entry.size - 1 :
                          Disk[minor].block[entry.lba + k \div BLOCK_SIZE] \in [1 .. BLOCK_SIZE -> Int]
                    /\ \A size \in Sizes : entry.size + size <= UMax

VARIABLES
    vfs,       \* registry, mount table, superblocks, inodes and list of releasable inodes
    files,     \* the open files
    refcount,  \* refcount[p] of a page, 0 if it is free; the same bits as nbused
    outcome,   \* "boot", "run", "panic" (kernel panic), "fault" (NULL is read)
    last       \* what the last vfs_read() was asked for, and what it gave

vfsVars == <<vfs, files, refcount, outcome, last>>

NULL == 0
NoMount == [path |-> <<>>, inode |-> NULL, sb |-> NULL]
Ids == 0 .. FsMax - 1
Free(rc) == {p \in 1 .. MaxPages : rc[p] = 0}

VfsInit ==
    /\ vfs = [registry |-> {}, mount |-> [id \in Ids |-> NoMount], max |-> 0,
              sb |-> <<>>, inode |-> <<>>, lru |-> <<>>]
    /\ files = <<>>
    /\ refcount = [p \in 1 .. MaxPages |-> 0]
    /\ outcome = "boot"
    /\ last = <<>>

-----------------------------------------------------------------------------
(***************************************************************************)
(* kblockio.c.  kmalloc() leaves 1 in the counter of a page, and           *)
(* blockio_get() adds its own reference; blockio_release() takes only that *)
(* one back.  No block is ever dirty.                                      *)
(***************************************************************************)
blockio_get(rc, ok) ==
    LET p == Min(Free(rc))
    IN  IF ok THEN [page |-> p, rc |-> [rc EXCEPT ![p] = 2]] ELSE [page |-> NULL, rc |-> rc]

blockio_release(rc, page) == [rc EXCEPT ![page] = @ - 1]

-----------------------------------------------------------------------------
(***************************************************************************)
(* Inodes and their counts.                                                *)
(***************************************************************************)
vfs_inode_create(s, sb, ino, size) ==
    [s EXCEPT !.inode = Append(@, [sb |-> sb, ino |-> ino, size |-> size, refcount |-> 1])]

\* Mutant: the file does not count as a reference.
vfs_inode_get_uncounted(s, i) == s

vfs_inode_get(s, i) == [s EXCEPT !.inode[i].refcount = @ + 1]

vfs_inode_release(s, i) ==
    LET t == [s EXCEPT !.inode[i].refcount = @ - 1]
    IN  IF t.inode[i].refcount = 0 THEN [t EXCEPT !.lru = <<i>> \o @] ELSE t

Volume(s, sb) == Disk[s.sb[sb].minor]

\* ino 0 is the directory itself: it has the size of a block and no entry.
fs1_new_inode(s, sb, ino) ==
    vfs_inode_create(s, sb, ino, IF ino = 0 THEN BLOCK_SIZE ELSE Volume(s, sb).dir[ino].size)

\* vfs_inode_lookup() never finds an inode: there is a new one at each lookup.
fs1_lookup(s, sb, name) ==
    LET found == {i \in DOMAIN Volume(s, sb).dir : Volume(s, sb).dir[i].name = name}
        t == fs1_new_inode(s, sb, Min(found))
    IN  IF found = {} THEN [s |-> s, inode |-> NULL]
        ELSE [s |-> vfs_inode_get(t, Len(t.inode)), inode |-> Len(t.inode)]

-----------------------------------------------------------------------------
(***************************************************************************)
(* The mount table.                                                        *)
(***************************************************************************)
\* Mutant: the greatest id is not looked for when an entry is freed.
vfs_mount_update_max_up(s, id) == IF id >= s.max THEN [s EXCEPT !.max = id + 1] ELSE s

vfs_mount_update_max(s, id) ==
    [s EXCEPT !.max = IF id >= s.max THEN id + 1
                      ELSE Max({-1} \cup {i \in 0 .. s.max - 1 : s.mount[i].path # <<>>}) + 1]

\* An entry past max is free whatever it holds (vfs_mount_path_get()).
FreeIds(s) == {id \in Ids : id >= s.max \/ s.mount[id].path = <<>>}

vfs_mount_register(s, path, inode, sb) ==
    LET id == Min(FreeIds(s))
    IN  [vfs_mount_update_max(s, id) EXCEPT
            !.sb[sb].mnt_id = id,
            !.mount[id] = [path |-> path, inode |-> inode, sb |-> sb]]

\* The ids vfs_mount_lookup() compares, up to the one it finds.
vfs_mount_lookup(s, path) == {id \in 0 .. s.max - 1 : s.mount[id].path = path}

vfs_mount_unregister(s, id) ==
    LET t == [s EXCEPT !.mount[id] = NoMount, !.sb[s.mount[id].sb].mnt_id = -1]
    IN  vfs_mount_update_max(t, id)

\* The superblock with the longest mount path, the first one if several.
vfs_mount_resolve(s, path) ==
    LET match == {id \in 0 .. s.max - 1 : s.mount[id].path # <<>> /\ IsPrefix(s.mount[id].path, path)}
        longer(id, j) == Len(s.mount[id].path) > Len(s.mount[j].path)
        best == {id \in match : \A j \in match : longer(id, j) \/ (~ longer(j, id) /\ id <= j)}
    IN  IF match = {} THEN NULL ELSE s.mount[Min(best)].sb

\* One component; a mounted file system is entered when the inode is its
\* mount point.
ResolveStep(r, part) ==
    LET l == fs1_lookup(r.s, r.sb, part)
        over == {id \in 0 .. r.s.max - 1 : r.s.mount[id].sb # NULL /\ r.s.mount[id].inode = l.inode}
        sb == r.s.mount[Min(over)].sb
    IN  IF r.inode = NULL \/ part \in {"", "."} THEN r
        ELSE IF l.inode = NULL \/ over = {} THEN [s |-> l.s, sb |-> r.sb, inode |-> l.inode]
        ELSE [s |-> l.s, sb |-> sb, inode |-> l.s.sb[sb].root]

\* The components in order; walk[k] is what the first k of them lead to.
ResolveWalk(r, path) ==
    LET walk[k \in 0 .. Len(path)] == IF k = 0 THEN r ELSE ResolveStep(walk[k - 1], path[k])
    IN  walk[Len(path)]

\* base is NULL for an absolute path.
vfs_resolve(s, base, path) ==
    LET sb == IF base = NULL THEN vfs_mount_resolve(s, path) ELSE s.inode[base].sb
    IN  IF sb = NULL THEN [s |-> s, sb |-> NULL, inode |-> NULL]
        ELSE ResolveWalk([s |-> s, sb |-> sb, inode |-> IF base = NULL THEN s.sb[sb].root ELSE base],
                         path)

-----------------------------------------------------------------------------
(***************************************************************************)
(* Mounting.                                                               *)
(***************************************************************************)
\* fs1_mount(): the directory stays in its page, which is locked.
fs1_mount(s, minor) ==
    LET n == Len(s.sb) + 1
        t == [s EXCEPT !.sb = Append(@, [mnt_id |-> -1, minor |-> minor, root |-> NULL])]
        u == fs1_new_inode(t, n, 0)
    IN  [u EXCEPT !.sb[n].root = Len(u.inode)]

Panic ==
    /\ outcome' = "panic"
    /\ last' = <<>>
    /\ UNCHANGED <<vfs, files, refcount>>

\* The path is resolved before anything is mounted, with a page for its copy;
\* the reference to the mount point is kept.  Nothing is undone when the table
\* is full, since fs1_unmount() does nothing.
vfs_mount(path, minor, ok) ==
    LET r == vfs_resolve(vfs, NULL, path)
        b == blockio_get(refcount, ok)
        t == fs1_mount(r.s, minor)
    IN  IF Free(refcount) = {} THEN Panic
        ELSE /\ refcount' = b.rc
             /\ vfs' = IF ~ ok THEN r.s
                       ELSE IF FreeIds(t) = {} THEN t
                       ELSE vfs_mount_register(t, path, r.inode, Len(t.sb))
             /\ last' = <<>> /\ UNCHANGED <<files, outcome>>

\* A name that is known, or a full registry, changes nothing.
vfs_filesystem_register(s, name) ==
    IF name \in s.registry \/ Cardinality(s.registry) = FsMax THEN s
    ELSE [s EXCEPT !.registry = @ \cup {name}]

\* vfs_init(): register fs1, then mount '/' from block device 0.
vfs_init ==
    LET s == vfs_filesystem_register(vfs, "fs1")
        b == blockio_get(refcount, TRUE)
        t == fs1_mount(s, 0)
    IN  /\ outcome = "boot"
        /\ outcome' = "run"
        /\ vfs' = vfs_mount_register(t, <<"">>, NULL, Len(t.sb))
        /\ refcount' = b.rc
        /\ last' = <<>> /\ UNCHANGED files

mount(path, minor, ok) ==
    /\ outcome = "run" /\ Len(vfs.inode) + Len(path) < MaxInodes
    /\ vfs_mount(path, minor, ok)

\* The entries before the one that is found are compared too: a hole among
\* them, which '/' leaves too, is a NULL that strcmp() reads.  kern_unmount()
\* does nothing, for fs1.
umount(path) ==
    LET found == vfs_mount_lookup(vfs, path)
        compared == IF found = {} THEN 0 .. vfs.max - 1 ELSE 0 .. Min(found)
    IN  /\ outcome = "run"
        /\ IF \E id \in compared : vfs.mount[id].path = <<>>
           THEN outcome' = "fault" /\ UNCHANGED vfs
           ELSE /\ vfs' = IF found = {} THEN vfs ELSE vfs_mount_unregister(vfs, Min(found))
                /\ UNCHANGED outcome
        /\ last' = <<>> /\ UNCHANGED <<files, refcount>>

-----------------------------------------------------------------------------
(***************************************************************************)
(* Files.                                                                  *)
(***************************************************************************)
vfs_open(base, path) ==
    LET r == vfs_resolve(vfs, base, path)
    IN  /\ outcome = "run"
        /\ Len(files) < MaxFiles /\ Len(vfs.inode) + Len(path) <= MaxInodes
        /\ IF Free(refcount) = {} THEN Panic
           ELSE /\ IF r.inode = NULL THEN vfs' = r.s /\ UNCHANGED files
                   ELSE /\ vfs' = vfs_inode_get(r.s, r.inode)
                        /\ files' = Append(files, [inode |-> r.inode, offset |-> 0])
                /\ last' = <<>> /\ UNCHANGED <<refcount, outcome>>

vfs_close(f) ==
    /\ outcome = "run"
    /\ IF vfs.inode[files[f].inode].refcount = 0 THEN Panic
       ELSE /\ vfs' = vfs_inode_release(vfs, files[f].inode)
            /\ files' = RemoveAt(files, f)
            /\ last' = <<>> /\ UNCHANGED <<refcount, outcome>>

\* Bytes of the first block before offset are left out.  Mutant: in all blocks.
PageOffset_all(first, offset) == offset % BLOCK_SIZE

PageOffset(first, offset) == IF first THEN offset % BLOCK_SIZE ELSE 0

\* One block of fs1_read(): stop after an error, of block bad, or without a page.
ReadStep(a, lba) ==
    LET b == blockio_get(a.rc, lba # a.bad)
        off == PageOffset(lba = a.start, a.offset)
        n == Min({BLOCK_SIZE - off, a.size - Len(a.data)})
    IN  IF a.end # "no" THEN a
        ELSE IF Free(a.rc) = {} THEN [a EXCEPT !.end = "panic"]
        ELSE IF b.page = NULL THEN [a EXCEPT !.end = "error"]
        ELSE [a EXCEPT !.rc = blockio_release(b.rc, b.page),
                       !.data = @ \o SubSeq(a.block[lba], off + 1, off + n)]

\* Blocks first to end, one after the other; none if end is before first.
ReadBlocks(a, first, end) ==
    LET blocks == IF end < first THEN 0 ELSE end + 1 - first
        walk[k \in 0 .. blocks] == IF k = 0 THEN a ELSE ReadStep(walk[k - 1], first + k - 1)
    IN  walk[blocks]

\* Unsigned arithmetic wraps.
fs1_read(s, i, offset, size, bad) ==
    LET volume == Volume(s, s.inode[i].sb)
        entry == volume.dir[s.inode[i].ino]
        n == IF (offset + size) % UMax > entry.size THEN entry.size - offset ELSE size
        first == entry.lba + offset \div BLOCK_SIZE
        end == entry.lba + ((offset + n - 1) % UMax) \div BLOCK_SIZE
    IN  IF offset >= entry.size THEN [rc |-> refcount, data |-> <<>>, end |-> "no"]
        ELSE ReadBlocks([rc |-> refcount, data |-> <<>>, end |-> "no", bad |-> bad, start |-> first,
                         offset |-> offset, size |-> n, block |-> volume.block],
                        first, end)

\* Nothing is done for a size of 0.  The inode of a directory has no data:
\* fs1_read() reads NULL.
vfs_read(f, size, bad) ==
    LET i == files[f].inode
        r == fs1_read(vfs, i, files[f].offset, size, bad)
    IN  /\ outcome = "run" /\ size # 0
        /\ IF vfs.inode[i].ino = 0 \/ r.end = "panic"
           THEN /\ outcome' = IF vfs.inode[i].ino = 0 THEN "fault" ELSE "panic"
                /\ last' = <<>> /\ UNCHANGED <<refcount, files>>
           ELSE /\ refcount' = r.rc
                /\ files' = [files EXCEPT ![f].offset = @ + Len(r.data)]
                /\ last' = [inode |-> i, offset |-> files[f].offset, size |-> size,
                            error |-> r.end = "error", data |-> r.data]
                /\ UNCHANGED outcome
        /\ UNCHANGED vfs

vfs_seek(f, offset, whence) ==
    LET from == CASE whence = "SET" -> 0
                  [] whence = "CUR" -> files[f].offset
                  [] whence = "END" -> vfs.inode[files[f].inode].size
    IN  /\ outcome = "run"
        /\ files' = [files EXCEPT ![f].offset = (from + offset + UMax) % UMax]
        /\ last' = <<>> /\ UNCHANGED <<vfs, refcount, outcome>>

VfsNext ==
    \/ vfs_init
    \/ \E path \in MountPaths :
          umount(path) \/ \E minor \in DOMAIN Disk, ok \in BOOLEAN : mount(path, minor, ok)
    \/ \E path \in VfsPaths : vfs_open(NULL, path)
    \/ \E sb \in DOMAIN vfs.sb, path \in Rels : vfs_open(vfs.sb[sb].root, path)
    \/ \E f \in DOMAIN files :
          \/ vfs_close(f)
          \/ \E size \in Sizes, bad \in BadBlocks : vfs_read(f, size, bad)
          \/ \E offset \in Seeks, whence \in {"SET", "CUR", "END"} : vfs_seek(f, offset, whence)

VfsSpec == VfsInit /\ [][VfsNext]_vfsVars

-----------------------------------------------------------------------------
\* An open file pins its inode: however files are opened through several mounts
\* and closed, the count of an inode is above the number of files open on it,
\* so that none of these inodes is in the list of the releasable ones and
\* vfs_close() never meets a count of 0 (vfs_open(), vfs_inode_release()).
FilesPinInodes ==
    \A i \in DOMAIN vfs.inode :
        LET n == Cardinality({f \in DOMAIN files : files[f].inode = i})
        IN  /\ vfs.inode[i].refcount >= n + 1
            /\ i \notin ToSet(vfs.lru)

\* The mount table and the superblocks agree after mounts that fail, mounts over
\* a mounted path and unmounts in any order: max is one more than the last id in
\* use, and a superblock knows its id (vfs_mount_register(), _unregister()).
MountsAgree ==
    /\ \A id \in Ids : vfs.mount[id].sb # NULL =>
          id < vfs.max /\ vfs.sb[vfs.mount[id].sb].mnt_id = id
    /\ \A sb \in DOMAIN vfs.sb : vfs.sb[sb].mnt_id # -1 => vfs.mount[vfs.sb[sb].mnt_id].sb = sb
    /\ vfs.max > 0 => vfs.mount[vfs.max - 1].path # <<>>

\* The data of a file, from its blocks.
Content(i) ==
    LET volume == Volume(vfs, vfs.inode[i].sb)
        entry == volume.dir[vfs.inode[i].ino]
    IN  [k \in 1 .. entry.size |->
            volume.block[entry.lba + (k - 1) \div BLOCK_SIZE][((k - 1) % BLOCK_SIZE) + 1]]

\* vfs_read() gives the file from the offset on, up to the size or the end of
\* the file, wherever blocks begin and end and whatever seeks came before; when
\* a block cannot be read it gives a beginning of that.
ReadsGiveTheFile ==
    last # <<>> =>
        LET all == SubSeq(Content(last.inode), last.offset + 1,
                          Min({last.offset + last.size, vfs.inode[last.inode].size}))
        IN  IF last.error THEN IsPrefix(last.data, all) ELSE last.data = all

\* Every file of the file system mounted on '/' is found by its absolute path:
\* vfs_mount_resolve() chooses the superblock of '/' for it (vfs.h: "Resolve the
\* best mount point matching a given absolute path").
RootFilesResolve ==
    outcome = "run" /\ vfs.sb[1].mnt_id # -1 =>
        \A i \in DOMAIN Volume(vfs, 1).dir :
            vfs_resolve(vfs, NULL, <<Volume(vfs, 1).dir[i].name>>).inode # NULL

\* Mounts and unmounts alone never read NULL, whatever holes they leave in the
\* table: an unmount gives "0 on success, or a negative error code" (vfs_umount(),
\* vfs_mount_lookup()).
UnmountsWalkOverHoles == files = <<>> => outcome # "fault"

\* A block is in one page, whoever reads it and how often: no more pages are in
\* use than the disks have blocks (blockio_get(): "If the block is already
\* cached, returns a pointer to the cached page").
BlocksAreCached ==
    Cardinality({p \in 1 .. MaxPages : refcount[p] > 0})
        <= MapThenSumSet(LAMBDA minor : 1 + Cardinality(DOMAIN Disk[minor].block), DOMAIN Disk)
=============================================================================
