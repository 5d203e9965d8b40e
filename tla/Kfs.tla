--------------------------------- MODULE Kfs ---------------------------------
(***************************************************************************)
(* kfs-lite (fs/kfs/kfs.c), the file system with a tree of dentries,       *)
(* inodes, and two levels of file maps, and what the host tool kfstools.c  *)
(* does with it.                                                           *)
(*                                                                         *)
(* The static tables are one record, kfs; an operation is an operator from *)
(* a record to a record.  A pathname is the sequence of its names, which   *)
(* is what kfs_getname() makes of it.  A page has PageSize units of size,  *)
(* so that a file can end inside a page or at its end; its content is a    *)
(* member of Data, or 0 for a page full of zeros.                          *)
(***************************************************************************)
EXTENDS Integers, Sequences, SequencesExt, FiniteSets, FiniteSetsExt

CONSTANTS
    Paths,      \* the pathnames given by the callers
    Data,       \* contents of pages, other than all zeros
    Tails,      \* how many units of its last page a file ends with
    Direct,     \* pages mapped by the inode, 12 in the code
    MapSize,    \* entries of a file map, 16 in the code
    MaxDentry, MaxInode, MaxFmap, MaxPage,   \* sizes of the tables
    CountSize,  \* number of values of the field count of an inode
    MaxOffset,  \* bound: the last page of a file
    MaxUnits,   \* bound: the sizes of all the files together
    Beyond,     \* FALSE: the callers stop at the first defect
    BootOptions \* sets of the options -m and -b given to the command build

ASSUME KfsAssumption ==
    /\ {Direct, MapSize, MaxDentry, MaxInode, MaxFmap, MaxPage, CountSize} \subseteq Nat \ {0}
    /\ MaxOffset < Direct + MapSize * MapSize /\ 0 \notin Data /\ Beyond \in BOOLEAN

PageSize == 2
ASSUME TailsAssumption == Tails \subseteq 1 .. PageSize

VARIABLES
    kfs,       \* the static tables of kfs.c
    written,   \* written[i][p]: what the callers wrote to page p of inode i
    defect     \* the first of the cases met that the code does not handle

kfsVars == <<kfs, written, defect>>

KfsMax == [dentry |-> MaxDentry, inode |-> MaxInode, fmap |-> MaxFmap, page |-> MaxPage]
NoDentry == [root |-> 0, next |-> 0, leaf |-> 0, inode |-> 0, name |-> ""]
NoInode == [type |-> "DIR", count |-> 0, size |-> 0, fmap |-> 0,
            page |-> [k \in 0 .. Direct - 1 |-> 0]]
NoFmap == [k \in 0 .. MapSize - 1 |-> 0]
NoData == [p \in 0 .. MaxOffset |-> 0]

\* Entry 0 of every table is taken: '/', its inode, the map and the page that
\* stand for "none" (the pages of BOOT and METADATA are folded into page 0).
KfsInit ==
    /\ kfs = [dentry |-> [d \in 0 .. MaxDentry - 1 |-> NoDentry],
              inode  |-> [i \in 0 .. MaxInode - 1 |-> NoInode],
              fmap   |-> [f \in 0 .. MaxFmap - 1 |-> NoFmap],
              disk   |-> [p \in 1 .. MaxPage - 1 |-> 0],
              boot   |-> [m |-> "none", b |-> "none"],
              bmp    |-> [k \in DOMAIN KfsMax |-> [used |-> {0}, cur |-> 1]]]
    /\ written = [i \in 0 .. MaxInode - 1 |-> NoData]
    /\ defect = "none"

-----------------------------------------------------------------------------
(***************************************************************************)
(* Allocators: the first clear bit from cur on, 0 if there is none.        *)
(***************************************************************************)
kfs_alloc_bitmap(s, kind) ==
    LET b == s.bmp[kind]
        clear == {i \in b.cur .. KfsMax[kind] - 1 : i \notin b.used}
    IN  IF clear = {} THEN [bit |-> 0, s |-> [s EXCEPT !.bmp[kind].cur = KfsMax[kind]]]
        ELSE [bit |-> Min(clear),
              s |-> [s EXCEPT !.bmp[kind] = [used |-> b.used \cup {Min(clear)},
                                             cur |-> Min(clear)]]]

kfs_free_bitmap(s, kind, bit) ==
    [s EXCEPT !.bmp[kind] = [used |-> @.used \ {bit}, cur |-> Min({bit, @.cur})]]

kfs_alloc_dentry(s, name) ==
    LET a == kfs_alloc_bitmap(s, "dentry")
    IN  IF a.bit = 0 THEN a ELSE [a EXCEPT !.s.dentry[a.bit].name = name]

kfs_alloc_inode(s, type) ==
    LET a == kfs_alloc_bitmap(s, "inode")
    IN  IF a.bit = 0 THEN a
        ELSE [a EXCEPT !.s.inode[a.bit].type = type, !.s.inode[a.bit].count = 1]

kfs_free_inode(s, i) == kfs_free_bitmap([s EXCEPT !.inode[i] = NoInode], "inode", i)
kfs_free_fmap(s, f)  == kfs_free_bitmap([s EXCEPT !.fmap[f] = NoFmap], "fmap", f)

\* The dentries from d on, in the order of their field next (kfs_readdir()).
RECURSIVE Chain(_, _, _)
Chain(s, d, n) == IF d = 0 \/ n = 0 THEN <<>> ELSE <<d>> \o Chain(s, s.dentry[d].next, n - 1)
Leaves(s, root) == Chain(s, s.dentry[root].leaf, MaxDentry)

\* Mutant: the dentry freed is not taken out of the list of its directory.
kfs_free_dentry_listed(s, d) ==
    kfs_free_bitmap([s EXCEPT !.dentry[d].inode = 0], "dentry", d)

kfs_free_dentry(s, d) ==
    LET root == s.dentry[d].root
        leaves == Leaves(s, root)
        prev == {p \in ToSet(leaves) : s.dentry[p].next = d}
        out == IF prev = {} THEN [s EXCEPT !.dentry[root].leaf = s.dentry[d].next]
               ELSE [s EXCEPT !.dentry[Min(prev)].next = s.dentry[d].next]
    IN  kfs_free_bitmap([out EXCEPT !.dentry[d] = NoDentry], "dentry", d)

-----------------------------------------------------------------------------
(***************************************************************************)
(* Names.  open() and openat() create what they do not find; new tells      *)
(* that there was such a name, full that a table had no entry for it.      *)
(* Without a dentry the code goes on with entry 0, which is '/'.           *)
(***************************************************************************)
\* The leaf is the first of the list of root.
Attached(dentry, root, leaf, inode) ==
    LET d == [dentry EXCEPT ![leaf].inode = inode, ![leaf].leaf = 0, ![leaf].root = root]
    IN  [d EXCEPT ![leaf].next = d[root].leaf, ![root].leaf = leaf]

NewLeaf(b, root, leaf) ==
    [dentry |-> leaf, s |-> [b.s EXCEPT !.dentry = Attached(@, root, leaf, b.bit)],
     new |-> TRUE, full |-> 0 \in {leaf, b.bit}]
CreateIn(a, root) == NewLeaf(kfs_alloc_inode(a.s, "FILE"), root, a.bit)

kfs_openat(s, root, name) ==
    LET t == [s EXCEPT !.inode[s.dentry[root].inode].type = "DIR"]
        found == SelectSeq(Leaves(s, root), LAMBDA d : s.dentry[d].name = name)
    IN  IF found # <<>> THEN [dentry |-> Head(found), s |-> t, new |-> FALSE, full |-> FALSE]
        ELSE CreateIn(kfs_alloc_dentry(t, name), root)

Then(o, n) == [n EXCEPT !.new = @ \/ o.new, !.full = @ \/ o.full]
kfs_open(s, path) ==
    FoldLeft(LAMBDA o, name : Then(o, kfs_openat(o.s, o.dentry, name)),
             [dentry |-> 0, s |-> s, new |-> FALSE, full |-> FALSE], path)

OneMoreName(s, i) == [s EXCEPT !.inode[i].count = (@ + 1) % CountSize]

\* The dentry of dst, n, gets the inode of src in place of its own one.
Linked(n, src) ==
    LET i == n.s.dentry[src].inode
        j == n.s.dentry[n.dentry].inode
    IN  [inode |-> i, full |-> n.full,
         s |-> kfs_free_inode(OneMoreName([n.s EXCEPT !.dentry[n.dentry].inode = i], i), j)]
LinkedAfter(o, dst) == Linked(kfs_open(o.s, dst), o.dentry)
kfs_link(s, src, dst) == LinkedAfter(kfs_open(s, src), dst)

\* The pages and the maps of an inode that kfs_unlink() gives back, in order.
\* fm is the flag freemap, set when a map ends and never cleared.
FreePages(s, i) ==
    LET size == s.inode[i].size
        fmap1 == s.inode[i].fmap
        two == size > (Direct + MapSize) * PageSize
        step(a, p) ==
            LET map2 == IF p >= Direct /\ two THEN a.t.fmap[fmap1][(p - Direct) \div MapSize] ELSE 0
                page == IF p < Direct THEN a.t.inode[i].page[p]
                        ELSE IF two THEN a.t.fmap[map2][(p - Direct) % MapSize]
                        ELSE a.t.fmap[fmap1][p - Direct]
                fm == IF p < Direct THEN a.fm
                      ELSE IF p = size \div PageSize THEN (IF two THEN {1, 2} ELSE {1})
                      ELSE IF two /\ (p - Direct) % MapSize = MapSize - 1 THEN {2} ELSE a.fm
                t1 == kfs_free_bitmap(a.t, "page", page)
                t2 == IF 1 \in fm THEN kfs_free_fmap(t1, fmap1) ELSE t1
            IN  [t |-> IF 2 \in fm THEN kfs_free_fmap(t2, map2) ELSE t2, fm |-> fm]
    IN  FoldLeft(step, [t |-> s, fm |-> {}],
                 [k \in 1 .. (size + PageSize - 1) \div PageSize |-> k - 1]).t

\* The inode is given back only if its count was already 0.
OneNameLess(t, i) ==
    IF t.inode[i].count # 0 THEN [t EXCEPT !.inode[i].count = @ - 1]
    ELSE kfs_free_inode(FreePages([t EXCEPT !.inode[i].count = CountSize - 1], i), i)
Unlinked(o) ==
    LET d == o.s.dentry[o.dentry]
    IN  [leaf |-> d.leaf, full |-> o.full, s |-> OneNameLess(kfs_free_dentry(o.s, o.dentry), d.inode)]
kfs_unlink(s, path) == Unlinked(kfs_open(s, path))

-----------------------------------------------------------------------------
(***************************************************************************)
(* Pages.  A box is the place where the number of a page is kept.          *)
(***************************************************************************)
\* The table of maps is contiguous: an index past a map is in the next one.
Entry(s, f, k) == LET g == f + k \div MapSize IN IF g < MaxFmap THEN s.fmap[g][k % MapSize] ELSE 0

kfs_page(s, i, pg) ==
    LET size == s.inode[i].size
        map1 == s.inode[i].fmap
        off == pg - Direct
    IN  IF size = 0 \/ pg > size \div PageSize THEN -1
        ELSE IF pg < Direct THEN s.inode[i].page[pg]
        ELSE IF size <= (Direct + MapSize) * PageSize THEN Entry(s, map1, off)
        ELSE Entry(s, Entry(s, map1, off \div MapSize), off % MapSize)

InodeBox(i, k) == [at |-> "inode", of |-> i, k |-> k]
FmapBox(f, k)  == [at |-> "fmap", of |-> f, k |-> k]
NoBox == [at |-> "none"]

\* A new first level: the old one becomes its first entry.  Mutant: it does not.
NewLevel_forgets(t, i, f) == [t EXCEPT !.inode[i].fmap = f]

NewLevel(t, i, f) == [t EXCEPT !.fmap[f][0] = t.inode[i].fmap, !.inode[i].fmap = f]

\* A map f is connected: to the inode, above the map of the inode, or below it
\* in its entry k.
Connected(t, where, i, k, f) ==
    CASE where = "inode" -> [t EXCEPT !.inode[i].fmap = f]
      [] where = "above" -> NewLevel(t, i, f)
      [] where = "below" -> [t EXCEPT !.fmap[t.inode[i].fmap][k] = f]

kfs_alloc_fmap(s) == kfs_alloc_bitmap(s, "fmap")

\* The maps that are missing are allocated; which ones is decided from the
\* size, in pages, the file has before the write.
Missing(s, where, i, k, old) ==
    CASE where = "inode" -> old < Direct
      [] where = "above" -> old < Direct + MapSize
      [] where = "below" -> s.fmap[s.inode[i].fmap][k] = 0

\* A new map if one is missing; ok tells whether there was one.
NewMap(r, where, i, k, old) ==
    LET a == kfs_alloc_fmap(r.s)
    IN  IF ~ r.ok \/ ~ Missing(r.s, where, i, k, old) THEN r
        ELSE [ok |-> a.bit # 0, s |-> IF a.bit = 0 THEN a.s ELSE Connected(a.s, where, i, k, a.bit)]

\* The box of page number off, counted from the first one that is in a map.
BoxOf(r, i, off) ==
    LET top == r.s.inode[i].fmap
    IN  CASE ~ r.ok -> NoBox
          [] r.ok /\ off < MapSize -> FmapBox(top, off)
          [] r.ok /\ off >= MapSize -> FmapBox(r.s.fmap[top][off \div MapSize], off % MapSize)
Boxed(r, i, off) == [s |-> r.s, box |-> BoxOf(r, i, off)]

kfs_ppage(s, i, pg) ==
    LET old == s.inode[i].size \div PageSize
        off == pg - Direct
        levels == IF off < MapSize THEN <<"inode">> ELSE <<"inode", "above", "below">>
        alloc(r, where) == NewMap(r, where, i, off \div MapSize, old)
    IN  IF pg < Direct THEN [s |-> s, box |-> InodeBox(i, pg)]
        ELSE Boxed(FoldLeft(alloc, [ok |-> TRUE, s |-> s], levels), i, off)

Get(s, box) == IF box.at = "inode" THEN s.inode[box.of].page[box.k] ELSE s.fmap[box.of][box.k]
Set(s, box, page) == IF box.at = "inode" THEN [s EXCEPT !.inode[box.of].page[box.k] = page]
                     ELSE [s EXCEPT !.fmap[box.of][box.k] = page]

kfs_alloc_page(s) == kfs_alloc_bitmap(s, "page")
kfs_free_page(s, page) == kfs_free_bitmap(s, "page", page)
kfs_write_page(s, page, data) == [s EXCEPT !.disk[page] = data]
kfs_read_page(s, page) == IF page = 0 THEN 0 ELSE s.disk[page]

\* The page of a box, allocated if there is none.
PageOf(s, box) == IF Get(s, box) # 0 THEN [bit |-> Get(s, box), s |-> s] ELSE kfs_alloc_page(s)

\* A page of zeros is not kept.
Stored(s, box, page, data) ==
    IF data # 0 THEN Set(s, box, page) ELSE Set(kfs_free_page(s, page), box, 0)

\* done is FALSE when the result is -1.
Put(a, box, data) ==
    IF a.bit = 0 THEN [done |-> FALSE, s |-> a.s]
    ELSE [done |-> TRUE, s |-> Stored(kfs_write_page(a.s, a.bit, data), box, a.bit, data)]
WriteBox(pp, data) == IF pp.box = NoBox THEN [done |-> FALSE, s |-> pp.s]
                      ELSE Put(PageOf(pp.s, pp.box), pp.box, data)
kfs_write(s, d, pg, data) == WriteBox(kfs_ppage(s, s.dentry[d].inode, pg), data)

\* What kfs_read() puts into the buffer.
kfs_read(s, d, pg) ==
    LET page == kfs_page(s, s.dentry[d].inode, pg)
    IN  IF page = -1 THEN 0 ELSE kfs_read_page(s, page)

kfs_set_size(s, d, newsize) == [s EXCEPT !.inode[s.dentry[d].inode].size = newsize]

-----------------------------------------------------------------------------
(***************************************************************************)
(* The callers.  link() needs a file and a name that does not exist, as    *)
(* kfs.h says, and unlink() a dentry without leaves, as its FIXME does.    *)
(* What the code does not handle is recorded: a table is full, the count   *)
(* of a link wraps, a file grows from exactly the pages its maps hold.     *)
(***************************************************************************)
InodeOf(s, d) == s.dentry[d].inode
Exists(path) == ~ kfs_open(kfs, path).new

Goes == defect = "none" \/ Beyond
Meets(kinds) == defect' = IF defect # "none" \/ kinds = {} THEN defect ELSE CHOOSE k \in kinds : TRUE

open_path(path) ==
    LET o == kfs_open(kfs, path)
    IN  /\ Goes
        /\ kfs' = o.s
        /\ Meets({k \in {"full"} : o.full})
        /\ UNCHANGED written

link(src, dst) ==
    LET l == kfs_link(kfs, src, dst)
        file == kfs.inode[l.inode]
    IN  /\ Goes
        /\ Exists(src) /\ ~ Exists(dst) /\ file.type = "FILE"
        /\ kfs' = l.s
        /\ Meets({k \in {"full", "count"} : IF l.full THEN k = "full"
                                           ELSE k = "count" /\ file.count = CountSize - 1})
        /\ UNCHANGED written

unlink(path) ==
    LET u == kfs_unlink(kfs, path)
    IN  /\ Goes
        /\ u.leaf = 0
        /\ kfs' = u.s
        /\ Meets({k \in {"full"} : u.full})
        /\ UNCHANGED written

\* A round of the loop of add_new_file(), and of dummy_disk(): the page is
\* written, then the size set, whatever kfs_write() answered.  Files are
\* written from their beginning to their end.
add_page(d, pg, n, data) ==
    LET i == InodeOf(kfs, d)
        size == kfs.inode[i].size
        w == kfs_write(kfs, d, pg, data)
        exact == \E pages \in {Direct, Direct + MapSize} : size = pages * PageSize /\ pg >= pages
    IN  /\ Goes
        /\ kfs.inode[i].type = "FILE"
        /\ pg * PageSize >= size
        /\ MapThenSumSet(LAMBDA j : kfs.inode[j].size, 0 .. MaxInode - 1) - size
              + n + pg * PageSize <= MaxUnits
        /\ kfs' = kfs_set_size(w.s, d, n + pg * PageSize)
        /\ written' = IF w.done THEN [written EXCEPT ![i][pg] = data] ELSE written
        /\ Meets({k \in {"map"} : exact})

\* The disk file is the sequence of the sections, in this order.
kfs_disk_save(s) == <<s.boot, s.bmp, s.dentry, s.inode, s.fmap, s.disk>>
kfs_disk_load(f) == [boot |-> f[1], bmp |-> f[2], dentry |-> f[3], inode |-> f[4],
                     fmap |-> f[5], disk |-> f[6]]

\* The command build with -m and -b, on the disk that was saved last: the disk
\* is loaded before each of the two sections is replaced, and saved at the end.
kfs_add_boot(f, o) == [kfs_disk_load(f) EXCEPT !.boot[o] = "new"]

build_boot(opts) ==
    LET f == kfs_disk_save(kfs)
        t == IF "b" \in opts THEN kfs_add_boot(f, "b") ELSE kfs_add_boot(f, "m")
    IN  /\ Goes
        /\ kfs' = kfs_disk_load(kfs_disk_save(t))
        /\ UNCHANGED <<written, defect>>

KfsNext ==
    \/ \E path \in Paths : open_path(path) \/ unlink(path)
    \/ \E src, dst \in Paths : link(src, dst)
    \/ \E d \in kfs.bmp["dentry"].used \ {0}, pg \in 0 .. MaxOffset, n \in Tails, data \in Data \cup {0} :
          add_page(d, pg, n, data)
    \/ \E opts \in BootOptions : build_boot(opts)

KfsSpec == KfsInit /\ [][KfsNext]_kfsVars

-----------------------------------------------------------------------------
\* The dentries kfs_tree_cb() calls back, in order, and the pathname that
\* kfs_absolute_pathname() of kfstools.c gives to a dentry.
RECURSIVE kfs_tree_cb(_, _, _)
kfs_tree_cb(s, root, n) ==
    <<root>> \o IF s.inode[InodeOf(s, root)].type # "DIR" \/ n = 0 THEN <<>>
                ELSE FlattenSeq([k \in 1 .. Len(Leaves(s, root)) |->
                                    kfs_tree_cb(s, Leaves(s, root)[k], n - 1)])

RECURSIVE kfs_absolute_pathname(_, _, _)
kfs_absolute_pathname(s, d, n) ==
    IF d = 0 \/ n = 0 THEN <<>>
    ELSE Append(kfs_absolute_pathname(s, s.dentry[d].root, n - 1), s.dentry[d].name)

\* A page that holds data has it in its first unit, and zeros after it.
Unit(data, u) == IF u = 1 THEN data ELSE 0
strlen(data) == IF data = 0 THEN 0 ELSE 1

\* The file that split creates on the host for a dentry, none for '/': its
\* path and its units, of which the last page gives only those before a zero.
split(s, d) ==
    LET i == InodeOf(s, d)
        full == s.inode[i].size \div PageSize
        units == [k \in 1 .. full * PageSize |->
                    Unit(kfs_read(s, d, (k - 1) \div PageSize), ((k - 1) % PageSize) + 1)]
        last == kfs_read(s, d, full)
    IN  IF d = 0 THEN {}
        ELSE {[path |-> kfs_absolute_pathname(s, d, MaxDentry), type |-> s.inode[i].type,
               data |-> IF s.inode[i].type = "DIR" THEN <<>>
                        ELSE units \o [k \in 1 .. strlen(last) |-> last]]}

\* What the callers wrote, size units of it.
HostData(pages, size) ==
    [k \in 1 .. size |-> Unit(pages[(k - 1) \div PageSize], ((k - 1) % PageSize) + 1)]

\* The dentries make a tree: the walk of kfs_tree_cb() meets every allocated
\* dentry once, and opening the pathname of a dentry gives this dentry.
TreeIsWhole ==
    LET used == kfs.bmp["dentry"].used
        walk == kfs_tree_cb(kfs, 0, MaxDentry)
    IN  /\ IsInjective(walk) /\ ToSet(walk) = used
        /\ \A d \in used : kfs_open(kfs, kfs_absolute_pathname(kfs, d, MaxDentry)).dentry = d

\* The count of an inode is the number of dentries that name it.
CountsAreNames ==
    \A i \in 1 .. MaxInode - 1 :
        kfs.inode[i].count = Cardinality({d \in kfs.bmp["dentry"].used : InodeOf(kfs, d) = i})

\* Every page of a file that is loaded from the disk reads as what was written.
PagesReadBack ==
    LET s == kfs_disk_load(kfs_disk_save(kfs))
    IN  \A d \in s.bmp["dentry"].used, pg \in 0 .. MaxOffset :
            LET file == s.inode[InodeOf(s, d)]
            IN  file.type = "FILE" /\ pg * PageSize < file.size =>
                    kfs_read(s, d, pg) = written[InodeOf(s, d)][pg]

\* After any sequence of opens, links, unlinks and writes that meets no defect,
\* the dentries are a tree and the counts follow the names.  In each bitmap "all
\* before [cur] are occupied" (kfs_sblock_s): a search that starts at cur misses
\* no clear bit.
KfsTree ==
    defect = "none" =>
        /\ TreeIsWhole /\ CountsAreNames
        /\ \A kind \in DOMAIN KfsMax :
             \A b \in 0 .. kfs.bmp[kind].cur - 1 : b \in kfs.bmp[kind].used

\* The file split makes of a dentry of the disk s is what build read.
SplitAgrees(s, d) ==
    \A h \in split(s, d) :
        h.type = "FILE" => h.data = HostData(written[InodeOf(s, d)], s.inode[InodeOf(s, d)].size)

\* The part of a page that ends a file has a zero in it.
ZeroInLastPage(s, d) ==
    LET i == InodeOf(s, d)
        size == s.inode[i].size
    IN  \E k \in (size \div PageSize) * PageSize + 1 .. size : HostData(written[i], size)[k] = 0

\* Every page of a file reads back as what was last written to it, although
\* the maps are built and rebuilt as the file grows and pages are shared by all
\* the files (kfs_ppage() and kfs_page() agree on where a page is), and split makes
\* of the disk the files that build read, whether they end inside a page or with it,
\* unless a file grew from exactly the pages its maps hold or has a zero in its
\* last page.
FilesReadBack ==
    LET s == kfs_disk_load(kfs_disk_save(kfs))
    IN  defect = "none" =>
            /\ PagesReadBack
            /\ \A d \in s.bmp["dentry"].used : ZeroInLastPage(s, d) \/ SplitAgrees(s, d)

\* Files that grow from exactly the pages their maps hold read back too: "if
\* fmaps are not yet allocated, the function will do it" (kfs_ppage()).
LargeFilesReadBack == defect = "map" => PagesReadBack

\* A full table fails the open and leaves the tree as it is (kfs_open(): "or -1
\* on failure").
FullTablesKeepTheTree == defect = "full" => TreeIsWhole

\* The count of a file with many names is the "number of dentry pointing to this
\* inode" (kfs_count()).
LinksAreCounted == defect = "count" => CountsAreNames

\* A file without a name is removed: its inode is free (kfs_unlink(): "removes a
\* file or a directory").
UnlinkedFilesAreFreed ==
    defect = "none" =>
        \A i \in kfs.bmp["inode"].used \ {0} : \E d \in kfs.bmp["dentry"].used : InodeOf(kfs, d) = i

\* What split makes of the disk that is saved is what build read (split(): "Write
\* the last page").
SplitGivesTheFile ==
    LET s == kfs_disk_load(kfs_disk_save(kfs))
    IN  defect = "none" => \A d \in s.bmp["dentry"].used : SplitAgrees(s, d)
=============================================================================
