------------------------------- MODULE MCFiles -------------------------------
(***************************************************************************)
(* The file systems on small instances, one of them per behaviour: vfs     *)
(* with fs1, kfs, and the pseudo file system of pfs.c.                     *)
(***************************************************************************)
EXTENDS Vfs, Kfs, Pfs

CONSTANT Parts   \* the file systems of the run

VARIABLE part   \* the file system that runs

filesVars == <<vfsVars, kfsVars, pfsVars, part>>

\* Two disks: three blocks with a file over two of them, and one with a file
\* that has the name of a mount point.
MCDisk ==
    [m \in {0, 1} |->
        IF m = 0
        THEN [dir |-> <<[name |-> "a", lba |-> 1, size |-> 3], [name |-> "b", lba |-> 2, size |-> 1]>>,
              block |-> [l \in 1 .. 3 |-> <<10 * l, 10 * l + 1>>]]
        ELSE [dir |-> <<[name |-> "m", lba |-> 1, size |-> 2]>>,
              block |-> [l \in 1 .. 3 |-> <<100 * l, 100 * l + 1>>]]]
MCMountPaths == {<<"">>, <<"m">>}
MCVfsPaths == {<<"">>, <<"", "a">>, <<"m">>}
MCRels == {<<"a">>, <<".", "m">>}
MCSeeks == {-1, 1}

\* Two files in '/', one in a directory.
MCPaths == {<<"a">>, <<"b">>, <<"b", "a">>}

\* Names enough for the count of an inode to wrap.
MCNames == {<<"a">>, <<"b">>, <<"c">>, <<"d">>}

\* A disk of a directory and one file of a block.
MCSmallDisk == [m \in {0} |-> [dir |-> <<[name |-> "a", lba |-> 1, size |-> 2]>>,
                               block |-> [l \in {1} |-> <<10, 11>>]]]

\* A word that is a prefix of another.
MCPfsWords == {<<"a">>, <<"a", "b">>}
MCPfsPaths == {<<w>> : w \in PathWords} \cup {<<v, <<"a">>>> : v \in {<<"a">>, DotDot}}

FilesInit == VfsInit /\ KfsInit /\ PfsInit /\ part \in Parts

FilesNext ==
    /\ UNCHANGED part
    /\ \/ part = "vfs" /\ VfsNext /\ UNCHANGED <<kfsVars, pfsVars>>
       \/ part = "kfs" /\ KfsNext /\ UNCHANGED <<vfsVars, pfsVars>>
       \/ part = "pfs" /\ PfsNext /\ UNCHANGED <<vfsVars, kfsVars>>

FilesSpec == FilesInit /\ [][FilesNext]_filesVars
=============================================================================
