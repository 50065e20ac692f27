----------------------------- MODULE MCBlockMap -----------------------------
(***************************************************************************)
(* Small instances of BlockMap for TLC.                                    *)
(***************************************************************************)
EXTENDS BlockMap, TLC

CONSTANTS f, g, extra   \* names

ThreeNames == {f, g, extra}

\* Which names the files have makes no difference.
NamesAlike == Permutations(ThreeNames)

\* Lengths below, at and above a block, and one that fills a file.
SomeLens == {1, 2, 6}

\* A block, and two blocks and a half: with both a write may begin, and end,
\* within a block, and fill a file.
FewLens == {2, 5}

NoTrunc  == {"TFS_O_CREAT", "TFS_O_APPEND"}
AllFlags == {"TFS_O_CREAT", "TFS_O_TRUNC", "TFS_O_APPEND"}

\* The state without what the last call returned, on which no action depends
\* but for the end of the thread.
Tables == <<tables, handles, lock, Running, reply.call = "overrun">>
=============================================================================
