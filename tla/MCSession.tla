------------------------------ MODULE MCSession ------------------------------
(***************************************************************************)
(* Small instances of Session for TLC.                                     *)
(***************************************************************************)
EXTENDS Session

CONSTANTS c1, c2

OneClient  == {c1}
TwoClients == {c1, c2}

AllCalls   == {"open", "close", "write", "read", "unmount", "shutdown"}
PlainCalls == {"open", "write", "read"}
=============================================================================
