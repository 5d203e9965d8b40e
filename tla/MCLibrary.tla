------------------------------ MODULE MCLibrary ------------------------------
(***************************************************************************)
(* The data structures and the C library on small instances, one of them   *)
(* per behaviour, and the shell, whose scripts are trees in memory.        *)
(***************************************************************************)
EXTENDS LinkedList, Radix, HTable, CStd, Shell

CONSTANTS
    i1, i2, i3,         \* the items of lists; two of them are equal for cmp()
    Parts               \* the structures of the run

VARIABLE part           \* the structure that is used

libraryVars == <<listVars, radixVars, htVars, cstdVars, shellVars, part>>

MCRank == (i1 :> 1) @@ (i2 :> 2) @@ (i3 :> 2)

\* One index for each height of the tree.  None has a zero slice after one that is
\* not zero: such an index takes the place of a root, as MCAliases does.
MCAliases == {<<0, 0, 0, 1>>, <<1, 0, 0, 1>>}
MCIndices == {<<0, 0, 0, 1>>, <<0, 0, 1, 1>>, <<0, 1, 1, 1>>, <<1, 1, 1, 1>>}

\* Keys that meet in the first probe, and a step that is a multiple of the size.
MCH1 == [a |-> 1, b |-> 4, c |-> 15, d |-> 7]
MCH2 == [a |-> 3, b |-> 5, c |-> 1, d |-> 0]

\* Strings of up to four of 'a', 'b' and '/'.
MCStrings == UNION {[1 .. n -> {97, 98, 47}] : n \in 0 .. 4}

\* A word behind the final zero of the strings.
MCBehind == <<97, 0>>

\* A letter and two directives, with the extreme integers.
MCFormats ==
    LET D(k, a) == [kind |-> k, arg |-> a]
        Second == {D("d", -128), D("d", 7), D("s", <<97, 98, 99>>), D("x", -1)}
    IN  {<<D("char", 97), x, y>> : x, y \in Second}

LibraryInit ==
    /\ ListInit /\ RadixInit /\ HTableInit /\ CStdInit /\ ShellInit
    /\ part \in Parts

LibraryNext ==
    /\ UNCHANGED part
    /\ \/ part = "list" /\ ListNext /\ UNCHANGED <<radixVars, htVars, cstdVars, shellVars>>
       \/ part = "radix" /\ RadixNext /\ UNCHANGED <<listVars, htVars, cstdVars, shellVars>>
       \/ part = "table" /\ HTableNext /\ UNCHANGED <<listVars, radixVars, cstdVars, shellVars>>
       \/ part = "cstd" /\ CStdNext /\ UNCHANGED <<listVars, radixVars, htVars, shellVars>>
       \/ part = "shell" /\ ShellNext /\ UNCHANGED <<listVars, radixVars, htVars, cstdVars>>

LibrarySpec == LibraryInit /\ [][LibraryNext]_libraryVars
=============================================================================
