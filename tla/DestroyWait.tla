----------------------------- MODULE DestroyWait -----------------------------
(***************************************************************************)
(* The threads that call fs/operations.c as a library, seen from the table *)
(* of open files: how tfs_open, tfs_close and tfs_destroy_after_all_closed *)
(* share it under single_global_lock, and how a close wakes the threads    *)
(* that wait on cond_lock for the last file to be closed.                  *)
(***************************************************************************)
EXTENDS Integers, FiniteSets

CONSTANTS Threads, Handles, NoHandle, NoThread

ASSUME ThreadsAssumption ==
  NoThread \notin Threads /\ NoHandle \notin Handles /\ IsFiniteSet(Handles)

VARIABLES
  lock,    \* the owner of single_global_lock, or NoThread
  pc,      \* where each thread stands
  call,    \* the call a thread makes, or made last
  handle,  \* the handle given to tfs_close or returned by tfs_open
  open,    \* the handles whose entry of free_open_file_entries is TAKEN
  var      \* what ret_var returns

vars == <<lock, pc, call, handle, open, var>>

Calls == {"open", "close", "destroy"}

Init ==
  /\ lock = NoThread
  /\ pc = [t \in Threads |-> "idle"]
  /\ call = [t \in Threads |-> "none"]
  /\ handle = [t \in Threads |-> NoHandle]
  /\ open = {} /\ var = 0

Goto(t, label) == pc' = [pc EXCEPT ![t] = label]

\* A thread enters a call; a close may be of any handle, also of none (-1).
Invoke(t) ==
  /\ pc[t] = "idle"
  /\ Goto(t, "locking")
  /\ \E c \in Calls : call' = [call EXCEPT ![t] = c]
  /\ \E h \in Handles \cup {NoHandle} :
       /\ call'[t] # "close" => h = NoHandle
       /\ handle' = [handle EXCEPT ![t] = h]
  /\ UNCHANGED <<lock, open, var>>

\* Mutant: the wait is under an if, so that a woken thread does not test again.
WakesWithoutTest(t) ==
  /\ pc[t] \in {"locking", "woken"}
  /\ lock = NoThread
  /\ lock' = t
  /\ Goto(t, IF pc[t] = "woken" THEN "unlocking" ELSE "locked")
  /\ UNCHANGED <<call, handle, open, var>>

\* pthread_mutex_lock, on entry or inside pthread_cond_wait after a wakeup.
Lock(t) ==
  /\ pc[t] \in {"locking", "woken"}
  /\ lock = NoThread
  /\ lock' = t
  /\ Goto(t, "locked")
  /\ UNCHANGED <<call, handle, open, var>>

\* _tfs_open_unsynchronized: add_to_open_file_table, unless the name is not
\* found, a table is full or a block is missing.
Open(t) ==
  /\ pc[t] = "locked" /\ call[t] = "open"
  /\ \/ \E h \in Handles \ open :
          /\ open' = open \cup {h}
          /\ var' = var + 1
          /\ handle' = [handle EXCEPT ![t] = h]
     \/ UNCHANGED <<open, var, handle>>
  /\ Goto(t, "unlocking")
  /\ UNCHANGED <<lock, call>>

\* Mutant: tfs_close never reaches the broadcast.
NoWakeup(t) ==
  /\ pc[t] = "locked" /\ call[t] = "close"
  /\ open' = open \ {handle[t]}
  /\ var' = IF handle[t] \in open THEN var - 1 ELSE var
  /\ Goto(t, "unlocking")
  /\ UNCHANGED <<lock, call, handle>>

\* Mutant: a handle is closed without a look at free_open_file_entries.
ClosesTwice(t) ==
  /\ pc[t] = "locked" /\ call[t] = "close"
  /\ open' = open \ {handle[t]} /\ var' = var - 1
  /\ Goto(t, "broadcasting")
  /\ UNCHANGED <<lock, call, handle>>

\* remove_from_open_file_table; only a close that succeeds broadcasts.
Close(t) ==
  /\ pc[t] = "locked" /\ call[t] = "close"
  /\ IF handle[t] \in open
     THEN open' = open \ {handle[t]} /\ var' = var - 1 /\ Goto(t, "broadcasting")
     ELSE UNCHANGED <<open, var>> /\ Goto(t, "unlocking")
  /\ UNCHANGED <<lock, call, handle>>

\* Mutant: pthread_cond_signal in the place of pthread_cond_broadcast.
Signal(t) ==
  /\ pc[t] = "broadcasting"
  /\ IF \E u \in Threads : pc[u] = "waiting"
     THEN \E u \in Threads : /\ pc[u] = "waiting"
                             /\ pc' = [pc EXCEPT ![t] = "unlocking", ![u] = "woken"]
     ELSE Goto(t, "unlocking")
  /\ UNCHANGED <<lock, call, handle, open, var>>

Broadcast(t) ==
  /\ pc[t] = "broadcasting"
  /\ pc' = [u \in Threads |-> IF u = t THEN "unlocking"
                              ELSE IF pc[u] = "waiting" THEN "woken" ELSE pc[u]]
  /\ UNCHANGED <<lock, call, handle, open, var>>

\* while (ret_var() > 0) pthread_cond_wait(...), which gives the lock up.
TestVar(t) ==
  /\ pc[t] = "locked" /\ call[t] = "destroy"
  /\ IF var > 0
     THEN lock' = NoThread /\ Goto(t, "waiting")
     ELSE Goto(t, "unlocking") /\ UNCHANGED lock
  /\ UNCHANGED <<call, handle, open, var>>

\* pthread_cond_wait may return although nothing was signalled.
SpuriousWakeup(t) ==
  /\ pc[t] = "waiting"
  /\ Goto(t, "woken")
  /\ UNCHANGED <<lock, call, handle, open, var>>

Unlock(t) ==
  /\ pc[t] = "unlocking"
  /\ lock' = NoThread
  /\ Goto(t, "idle")
  /\ UNCHANGED <<call, handle, open, var>>

\* What a thread does inside a call when it is not blocked.
Step(t) == Lock(t) \/ Open(t) \/ Close(t) \/ Broadcast(t) \/ TestVar(t) \/ Unlock(t)

Next == \E t \in Threads : Invoke(t) \/ Step(t) \/ SpuriousWakeup(t)

\* A thread inside a call is scheduled; nobody has to make a call, and a
\* spurious wakeup need never come.
Fairness == \A t \in Threads : WF_vars(Step(t))

Spec == Init /\ [][Next]_vars

FairSpec == Spec /\ Fairness

-----------------------------------------------------------------------------
Labels == {"idle", "locking", "locked", "broadcasting", "waiting", "woken", "unlocking"}

\* Every variable holds values of its kind, and only a destroy ever waits.
TypeOK ==
  /\ lock \in Threads \cup {NoThread}
  /\ pc \in [Threads -> Labels]
  /\ call \in [Threads -> Calls \cup {"none"}]
  /\ handle \in [Threads -> Handles \cup {NoHandle}]
  /\ open \subseteq Handles
  /\ var \in Nat

\* A thread sleeps in tfs_destroy_after_all_closed only while a file is open,
\* unless the close of the last one is about to broadcast: no wakeup is lost
\* between the test of ret_var and pthread_cond_wait.
NoLostWakeup ==
  (\E t \in Threads : pc[t] = "waiting") =>
     \/ open # {}
     \/ \E t \in Threads : pc[t] = "broadcasting"

\* The lock makes each call atomic for the others, and the call that waits
\* for the last close passes at a moment when no file is open, whichever
\* opens slipped in between the broadcast and its getting the lock back.
Atomic == INSTANCE AtomicHandles WITH
  stage <- [t \in Threads |->
              CASE pc[t] = "idle" -> "idle"
                [] pc[t] \in {"broadcasting", "unlocking"} -> "done"
                [] OTHER -> "invoked"]

CallsAreAtomic == Atomic!Spec

\* When calls cease and every file is closed, whoever waits in
\* tfs_destroy_after_all_closed returns, however many wait.
Quiescent == <>[][\A t \in Threads : ~Invoke(t)]_vars /\ <>[](open = {})

WaitersReturn ==
  Quiescent => \A t \in Threads : (pc[t] = "waiting" ~> pc[t] = "idle")
=============================================================================
