---------------------------- MODULE AtomicHandles ----------------------------
(***************************************************************************)
(* What the calls on the table of open files promise to the threads that   *)
(* make them: each takes effect in one step between its invocation and its *)
(* return, and tfs_destroy_after_all_closed takes effect only at a moment  *)
(* at which no file is open.                                               *)
(***************************************************************************)
CONSTANTS Threads, Handles, NoHandle

VARIABLES
  stage,   \* "idle", "invoked" or "done", per thread
  call,    \* the call of each thread
  handle,  \* the handle given to tfs_close or returned by tfs_open
  open     \* the set of open handles

vars == <<stage, call, handle, open>>

Init ==
  /\ stage = [t \in Threads |-> "idle"]
  /\ call = [t \in Threads |-> "none"]
  /\ handle = [t \in Threads |-> NoHandle]
  /\ open = {}

Invoke(t) ==
  /\ stage[t] = "idle"
  /\ stage' = [stage EXCEPT ![t] = "invoked"]
  /\ \E c \in {"open", "close", "destroy"}, h \in Handles \cup {NoHandle} :
       /\ call' = [call EXCEPT ![t] = c]
       /\ handle' = [handle EXCEPT ![t] = h]
  /\ UNCHANGED open

Finish(t, h) ==
  /\ stage[t] = "invoked"
  /\ stage' = [stage EXCEPT ![t] = "done"]
  /\ handle' = [handle EXCEPT ![t] = h]
  /\ UNCHANGED call

\* An open returns a handle nobody holds, or none.
Open(t) ==
  /\ call[t] = "open"
  /\ \/ \E h \in Handles \ open : Finish(t, h) /\ open' = open \cup {h}
     \/ Finish(t, NoHandle) /\ open' = open

\* A close of a handle that is not open changes nothing.
Close(t) ==
  /\ call[t] = "close"
  /\ Finish(t, handle[t])
  /\ open' = open \ {handle[t]}

Destroy(t) ==
  /\ call[t] = "destroy" /\ open = {}
  /\ Finish(t, handle[t])
  /\ UNCHANGED open

Return(t) ==
  /\ stage[t] = "done"
  /\ stage' = [stage EXCEPT ![t] = "idle"]
  /\ UNCHANGED <<call, handle, open>>

Next == \E t \in Threads :
          Invoke(t) \/ Open(t) \/ Close(t) \/ Destroy(t) \/ Return(t)

Spec == Init /\ [][Next]_vars
=============================================================================
