---------------------------- MODULE MCInodeLocks ----------------------------
(***************************************************************************)
(* Small instances of InodeLocks for TLC.                                  *)
(***************************************************************************)
EXTENDS InodeLocks

CONSTANTS t1, t2, f, g, extra   \* threads and names

TwoThreads == {t1, t2}
TwoNames   == {f, g}
ThreeNames == {f, g, extra}

AllCalls  == {"open", "close", "write", "read"}
OpenCalls == {"open"}
=============================================================================
