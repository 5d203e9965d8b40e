--------------------------------- MODULE Pfs ---------------------------------
(***************************************************************************)
(* The pseudo file system of tools/pfs/pfs.c, a tree of pfs_s in memory,   *)
(* with its file descriptors and directory streams.  fs/pvfs.c is a copy of *)
(* it for the kernel, with another table of descriptors.                   *)
(*                                                                         *)
(* A path is whether it starts with '/' and the sequence of its words, one *)
(* or two of them; a word is a sequence of letters, so that a strncmp() of *)
(* its length is IsPrefix.                                                 *)
(***************************************************************************)
EXTENDS Integers, Sequences, SequencesExt, FiniteSets, FiniteSetsExt

CONSTANTS
    PfsWords,  \* names of directories
    PfsPaths,  \* the words of the paths the callers give
    MaxPfs,    \* bound: pfs_s allocated
    MAX_FD,    \* descriptors of a table
    PfsData    \* contents written to files


VARIABLES
    pfs,        \* pfs[n]: name, type, parent, children (the list root) and data of node n
    currentDir,
    fds,        \* fileDesciptors, 0 for NULL, with the word before the table as entry -1
    dirp,       \* the directory stream, or << >>
    seen        \* what readdir() gave since the stream was rewound

pfsVars == <<pfs, currentDir, fds, dirp, seen>>

Root == 1
Dot == <<"." >>
DotDot == <<".", ".">>

PathWords == PfsWords \cup {Dot, DotDot}

ASSUME PfsAssumption ==
    /\ MaxPfs \in Nat \ {0} /\ MAX_FD \in Nat \ {0} /\ {Dot, DotDot} \cap PfsWords = {}
    /\ PfsPaths \subseteq {<<w>> : w \in PathWords} \cup {<<v, w>> : v, w \in PathWords}

Paths_p == [abs : BOOLEAN, words : PfsPaths]

\* init_pfs: a node is its own parent until create_pfs says otherwise.
init_pfs(n, name, type) == [name |-> name, type |-> type, parent |-> n, children |-> << >>, data |-> "none"]

PfsInit ==
    /\ pfs = <<init_pfs(Root, << >>, "DIR")>>
    /\ currentDir = Root
    /\ fds = [fd \in -1 .. MAX_FD - 1 |-> 0]
    /\ dirp = << >> /\ seen = << >>

-----------------------------------------------------------------------------
(***************************************************************************)
(* The tree                                                                *)
(***************************************************************************)
\* Mutant: the parent is not set.
create_pfs_orphan(t, dir, name, type) ==
    LET new == Len(t) + 1
    IN [Append(t, init_pfs(new, name, type)) EXCEPT ![dir].children = <<new>> \o @]

create_pfs(t, dir, name, type) ==
    LET new == Len(t) + 1
    IN [Append(t, [init_pfs(new, name, type) EXCEPT !.parent = dir]) EXCEPT ![dir].children = <<new>> \o @]

\* next_slash() counts the slashes around a word: strncmp() then compares the
\* whole names for every word that has one.  A word that ends the path and has no
\* slash before it matches every name it is a prefix of.
Matches(name, word, exact) ==
    IF exact THEN name = <<word>> ELSE name # <<>> /\ IsPrefix(word, name[1])

LeadsTo(dir, word, exact) ==
    LET list  == pfs[dir].children
        match == {k \in DOMAIN list : Matches(pfs[list[k]].name, word, exact)}
    IN  IF word = DotDot THEN pfs[dir].parent
        ELSE IF word = Dot THEN dir
        ELSE IF match = {} THEN 0 ELSE list[Min(match)]

\* A word that is not the last one: the dots are compared inside the loop over the
\* entries, and lead nowhere from a directory without any.
Enter(dir, word) == IF pfs[dir].children = <<>> THEN 0 ELSE LeadsTo(dir, word, TRUE)

open_any(path) ==
    LET start == IF path.abs THEN Root ELSE currentDir
        dir   == Enter(start, path.words[1])
    IN  IF Len(path.words) = 1 THEN LeadsTo(start, path.words[1], path.abs)
        ELSE IF dir = 0 THEN 0 ELSE LeadsTo(dir, path.words[2], FALSE)

mkdir(dir, word) ==     \* create_pfs by the program itself
    /\ pfs[dir].type = "DIR" /\ Len(pfs) < MaxPfs
    /\ \A k \in DOMAIN pfs[dir].children : pfs[pfs[dir].children[k]].name # <<word>>
    /\ pfs' = create_pfs(pfs, dir, <<word>>, "DIR")
    /\ UNCHANGED <<currentDir, fds, dirp, seen>>

-----------------------------------------------------------------------------
(***************************************************************************)
(* Files.  A file that is not found is created in the current directory    *)
(* under its whole relative path; an absolute one is not created, because  *)
(* the search of the last '/' stops at the final zero.                     *)
(***************************************************************************)
FreeFds == {fd \in 0 .. MAX_FD - 1 : fds[fd] = 0}
get_newFd == IF FreeFds = {} THEN -1 ELSE Min(FreeFds)

\* The entry is written before the result is looked at.
open(path) ==
    LET found == open_any(path)
        tree  == IF found = 0 THEN create_pfs(pfs, currentDir, path.words, "FILE") ELSE pfs
        file  == IF found = 0 THEN Len(tree) ELSE found
    IN /\ found = 0 => ~path.abs /\ Len(pfs) < MaxPfs
       /\ tree[file].type = "FILE"
       /\ pfs' = tree
       /\ fds' = [fds EXCEPT ![get_newFd] = file]
       /\ UNCHANGED <<currentDir, dirp, seen>>

close(fd) ==
    /\ fds[fd] # 0
    /\ fds' = [fds EXCEPT ![fd] = 0]
    /\ UNCHANGED <<pfs, currentDir, dirp, seen>>

file_write(fd, data) ==    \* always at the start of the one page of the file
    /\ fds[fd] # 0 /\ pfs[fds[fd]].type = "FILE"
    /\ pfs' = [pfs EXCEPT ![fds[fd]].data = data]
    /\ UNCHANGED <<currentDir, fds, dirp, seen>>

file_read(fd) == IF fds[fd] = 0 THEN "none" ELSE pfs[fds[fd]].data

chdir(path) ==
    LET dir == open_any(path)
    IN /\ dir # 0 /\ pfs[dir].type = "DIR"
       /\ currentDir' = dir
       /\ UNCHANGED <<pfs, fds, dirp, seen>>

home == currentDir' = Root /\ UNCHANGED <<pfs, fds, dirp, seen>>     \* chdir("")

-----------------------------------------------------------------------------
(***************************************************************************)
(* Directory streams: item is the entry given last, or the directory.      *)
(***************************************************************************)
opendir(path) ==
    LET dir == open_any(path)
    IN /\ dirp = << >> /\ dir # 0 /\ pfs[dir].type = "DIR"
       /\ dirp' = [root |-> dir, item |-> dir, end |-> FALSE, start |-> << >>]
       /\ seen' = << >>
       /\ UNCHANGED <<pfs, currentDir, fds>>

rewinddir ==
    /\ dirp # << >>
    /\ dirp' = [dirp EXCEPT !.item = dirp.root, !.end = FALSE, !.start = << >>]
    /\ seen' = << >>
    /\ UNCHANGED <<pfs, currentDir, fds>>

readdir ==
    /\ dirp # << >> /\ ~dirp.end
    /\ LET list == pfs[dirp.root].children
           next == IF dirp.item = dirp.root THEN 1 ELSE 1 + CHOOSE k \in DOMAIN list : list[k] = dirp.item
           begun == IF dirp.item = dirp.root THEN [dirp EXCEPT !.start = list] ELSE dirp
       IN IF next > Len(list)
          THEN dirp' = [begun EXCEPT !.end = TRUE] /\ UNCHANGED seen
          ELSE dirp' = [begun EXCEPT !.item = list[next]] /\ seen' = Append(seen, list[next])
    /\ UNCHANGED <<pfs, currentDir, fds>>

closedir ==
    /\ dirp # << >>
    /\ dirp' = << >> /\ seen' = << >>
    /\ UNCHANGED <<pfs, currentDir, fds>>

-----------------------------------------------------------------------------
PfsNext ==
    \/ \E dir \in DOMAIN pfs, word \in PfsWords : mkdir(dir, word)
    \/ \E path \in Paths_p : open(path) \/ chdir(path) \/ opendir(path)
    \/ \E fd \in 0 .. MAX_FD - 1 : close(fd) \/ \E data \in PfsData : file_write(fd, data)
    \/ home \/ rewinddir \/ readdir \/ closedir

PfsSpec == PfsInit /\ [][PfsNext]_pfsVars

-----------------------------------------------------------------------------
\* The children of dir whose name is one word, which a path can give.
Named(dir) == {n \in Range(pfs[dir].children) : Len(pfs[n].name) = 1}
\* No other name in dir starts with the name of n.
NotAPrefix(dir, n) ==
    \A m \in Range(pfs[dir].children) \ {n} : ~IsPrefix(pfs[n].name[1], pfs[m].name[1])

\* Paths lead to their entries, in whatever order entries were created: every
\* entry is once in the list of its parent, which is a directory, and alone there
\* with its name; ".." goes back to the directory an entry is in; an entry is
\* found by its name from the current directory and by its one or two words from
\* '/', where the search takes a prefix for a name only if the word has no slash
\* before it (open_any(), next_slash()).  A stream read to its end gives every
\* entry the directory had when it began, once and in order, although entries are
\* created while it is read.
PathsFindTheirEntries ==
    /\ \A n \in DOMAIN pfs \ {Root} :
           LET dir == pfs[n].parent
           IN /\ pfs[dir].type = "DIR"
              /\ Cardinality({k \in DOMAIN pfs[dir].children : pfs[dir].children[k] = n}) = 1
              /\ \A m \in Named(dir) : pfs[m].name = pfs[n].name => m = n
    /\ open_any([abs |-> FALSE, words |-> <<DotDot>>]) = pfs[currentDir].parent
    /\ \A n \in Named(currentDir) :
           NotAPrefix(currentDir, n) => open_any([abs |-> FALSE, words |-> pfs[n].name]) = n
    /\ \A d \in Named(Root) :
           /\ open_any([abs |-> TRUE, words |-> pfs[d].name]) = d
           /\ \A n \in Named(d) : NotAPrefix(d, n) =>
                 open_any([abs |-> TRUE, words |-> <<pfs[d].name[1], pfs[n].name[1]>>]) = n
    /\ dirp # << >> => IsPrefix(seen, dirp.start) /\ (dirp.end => seen = dirp.start)

\* open() fills the table of descriptors and no other memory, also when there is
\* no descriptor left (open(): "return the file descriptor or -1 if no more
\* available").
OpensStayInTheTable == fds[-1] = 0
=============================================================================
