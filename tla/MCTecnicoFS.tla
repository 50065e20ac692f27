----------------------------- MODULE MCTecnicoFS -----------------------------
(***************************************************************************)
(* Small instances of TecnicoFS for TLC.                                   *)
(***************************************************************************)
EXTENDS TecnicoFS

CONSTANTS f, g, long1, long2   \* names; long1 and long2 share their prefix

MCNames     == {f, g, long1, long2}
MCLongNames == {long1, long2}

\* The prefix of the long names is a name of its own.
MCPrefix    == [n \in MCLongNames |-> g]

Path(n) == [absolute |-> TRUE, sub |-> n]

\* What operations.h documents: absolute paths of at most 39 characters.
DocumentedPaths == {Path(f), Path(g)}

\* With "/", which names no file.
ShortPaths == {Path(f), Path(g), Path(NoName)}

\* All of the state but what the last call returned, on which no action depends
\* but for the end of the process: for the run about the tables.
Tables == <<inode_table, freeinode_ts, free_blocks, fs_data, dir_entry,
            openTable, Running>>
=============================================================================
