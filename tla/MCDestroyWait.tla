---------------------------- MODULE MCDestroyWait ----------------------------
(***************************************************************************)
(* Small instances of DestroyWait for TLC.                                 *)
(***************************************************************************)
EXTENDS DestroyWait

CONSTANTS t1, t2, t3, h1, h2

ThreeThreads == {t1, t2, t3}
TwoHandles   == {h1, h2}
=============================================================================
