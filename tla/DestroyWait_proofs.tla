-------------------------- MODULE DestroyWait_proofs --------------------------
(***************************************************************************)
(* Proofs about DestroyWait, for every set of threads and every finite set *)
(* of handles: no wakeup is lost, and the calls are atomic.                *)
(***************************************************************************)
EXTENDS DestroyWait, FiniteSetTheorems, TLAPS

\* A thread holds the lock exactly where the code runs with it.
LockHeld ==
  \A t \in Threads :
    pc[t] \in {"locked", "broadcasting", "unlocking"} <=> lock = t

\* Only a destroy waits, and only a close broadcasts.
WhoWaits ==
  \A t \in Threads : /\ pc[t] \in {"waiting", "woken"} => call[t] = "destroy"
                     /\ pc[t] = "broadcasting" => call[t] = "close"

\* An open that has not taken effect has no handle yet.
NoHandleYet ==
  \A t \in Threads :
    pc[t] \in {"locking", "locked"} /\ call[t] = "open" => handle[t] = NoHandle

\* var counts the open handles.
Counted == var = Cardinality(open)

IInv == TypeOK /\ LockHeld /\ WhoWaits /\ NoHandleYet /\ Counted /\ NoLostWakeup

\* Adding and removing a handle moves the count by one, and it is zero only
\* when nothing is open.
LEMMA CountingHandles ==
  ASSUME open \in SUBSET Handles
  PROVE  /\ Cardinality(open) \in Nat
         /\ Cardinality(open) = 0 <=> open = {}
         /\ \A h \in Handles \ open : Cardinality(open \cup {h}) = Cardinality(open) + 1
         /\ \A h \in open : Cardinality(open \ {h}) = Cardinality(open) - 1
  <1>1. IsFiniteSet(open)
    BY ThreadsAssumption, FS_Subset
  <1> QED
    BY <1>1, FS_CardinalityType, FS_EmptySet, FS_AddElement, FS_RemoveElement

LEMMA InitIInv == Init => IInv
  <1> SUFFICES ASSUME Init PROVE IInv
    OBVIOUS
  <1>1. Cardinality(open) = 0
    BY FS_EmptySet DEF Init
  <1>2. TypeOK /\ LockHeld /\ WhoWaits /\ NoHandleYet /\ NoLostWakeup
    BY ThreadsAssumption
    DEF Init, TypeOK, LockHeld, WhoWaits, NoHandleYet, NoLostWakeup, Labels, Calls
  <1> QED
    BY <1>1, <1>2 DEF Init, IInv, Counted

\* Every step keeps the inductive invariant.
LEMMA NextIInv == IInv /\ [Next]_vars => IInv'
  <1> SUFFICES ASSUME IInv, [Next]_vars PROVE IInv'
    OBVIOUS
  <1> USE ThreadsAssumption DEF IInv
  <1>1. ASSUME NEW t \in Threads, Invoke(t) PROVE IInv'
    <2>1. TypeOK'
      BY <1>1 DEF Invoke, Goto, TypeOK, Labels, Calls
    <2>2. (LockHeld /\ WhoWaits /\ NoHandleYet /\ NoLostWakeup)'
      BY <1>1 DEF Invoke, Goto, TypeOK, LockHeld, WhoWaits, NoHandleYet, NoLostWakeup, Calls
    <2> QED
      BY <1>1, <2>1, <2>2 DEF Invoke, Counted
  <1>2. ASSUME NEW t \in Threads, Lock(t) PROVE IInv'
    <2>1. TypeOK'
      BY <1>2 DEF Lock, Goto, TypeOK, Labels
    <2>2. (LockHeld /\ WhoWaits /\ NoHandleYet /\ NoLostWakeup)'
      BY <1>2 DEF Lock, Goto, TypeOK, LockHeld, WhoWaits, NoHandleYet, NoLostWakeup
    <2> QED
      BY <1>2, <2>1, <2>2 DEF Lock, Counted
  <1>3. ASSUME NEW t \in Threads, Open(t) PROVE IInv'
    <2>1. TypeOK' /\ Counted'
      BY <1>3, CountingHandles DEF Open, Goto, TypeOK, Labels, Counted
    <2>2. (LockHeld /\ WhoWaits /\ NoHandleYet)'
      BY <1>3 DEF Open, Goto, TypeOK, LockHeld, WhoWaits, NoHandleYet
    <2>3. NoLostWakeup'
      BY <1>3 DEF Open, Goto, TypeOK, NoLostWakeup
    <2> QED
      BY <2>1, <2>2, <2>3
  <1>4. ASSUME NEW t \in Threads, Close(t) PROVE IInv'
    <2>1. TypeOK' /\ Counted'
      <3>1. CASE handle[t] \in open
        <4>1. Cardinality(open) # 0 /\ Cardinality(open \ {handle[t]}) = Cardinality(open) - 1
          BY <3>1, CountingHandles DEF TypeOK
        <4> QED
          BY <1>4, <3>1, <4>1, CountingHandles DEF Close, Goto, TypeOK, Labels, Counted
      <3>2. CASE handle[t] \notin open
        BY <1>4, <3>2 DEF Close, Goto, TypeOK, Labels, Counted
      <3> QED
        BY <3>1, <3>2
    <2>2. (LockHeld /\ WhoWaits /\ NoHandleYet)'
      BY <1>4 DEF Close, Goto, TypeOK, LockHeld, WhoWaits, NoHandleYet
    <2>3. NoLostWakeup'
      BY <1>4 DEF Close, Goto, TypeOK, NoLostWakeup
    <2> QED
      BY <2>1, <2>2, <2>3
  <1>5. ASSUME NEW t \in Threads, Broadcast(t) PROVE IInv'
    <2>1. TypeOK'
      BY <1>5 DEF Broadcast, TypeOK, Labels
    <2>2. (LockHeld /\ WhoWaits /\ NoHandleYet /\ NoLostWakeup)'
      BY <1>5 DEF Broadcast, TypeOK, LockHeld, WhoWaits, NoHandleYet, NoLostWakeup
    <2> QED
      BY <1>5, <2>1, <2>2 DEF Broadcast, Counted
  <1>6. ASSUME NEW t \in Threads, TestVar(t) PROVE IInv'
    <2>1. TypeOK'
      BY <1>6 DEF TestVar, Goto, TypeOK, Labels
    <2>2. (LockHeld /\ WhoWaits /\ NoHandleYet)'
      BY <1>6 DEF TestVar, Goto, TypeOK, LockHeld, WhoWaits, NoHandleYet
    <2>3. var > 0 => open # {}
      BY CountingHandles DEF TypeOK, Counted
    <2>4. NoLostWakeup'
      BY <1>6, <2>3 DEF TestVar, Goto, TypeOK, NoLostWakeup
    <2> QED
      BY <1>6, <2>1, <2>2, <2>4 DEF TestVar, Counted
  <1>7. ASSUME NEW t \in Threads, Unlock(t) PROVE IInv'
    <2>1. TypeOK'
      BY <1>7 DEF Unlock, Goto, TypeOK, Labels
    <2>2. (LockHeld /\ WhoWaits /\ NoHandleYet /\ NoLostWakeup)'
      BY <1>7 DEF Unlock, Goto, TypeOK, LockHeld, WhoWaits, NoHandleYet, NoLostWakeup
    <2> QED
      BY <1>7, <2>1, <2>2 DEF Unlock, Counted
  <1>8. ASSUME NEW t \in Threads, SpuriousWakeup(t) PROVE IInv'
    <2>1. TypeOK'
      BY <1>8 DEF SpuriousWakeup, Goto, TypeOK, Labels
    <2>2. (LockHeld /\ WhoWaits /\ NoHandleYet /\ NoLostWakeup)'
      BY <1>8 DEF SpuriousWakeup, Goto, TypeOK, LockHeld, WhoWaits, NoHandleYet, NoLostWakeup
    <2> QED
      BY <1>8, <2>1, <2>2 DEF SpuriousWakeup, Counted
  <1>9. CASE UNCHANGED vars
    BY <1>9 DEF vars, TypeOK, LockHeld, WhoWaits, NoHandleYet, Counted, NoLostWakeup
  <1> QED
    BY <1>1, <1>2, <1>3, <1>4, <1>5, <1>6, <1>7, <1>8, <1>9 DEF Next, Step

LEMMA Invariance == Spec => []IInv
  BY InitIInv, NextIInv, PTL DEF Spec

\* The variables of DestroyWait hold values of their kinds (fs/operations.c).
THEOREM TypeCorrect == Spec => []TypeOK
  BY Invariance, PTL DEF IInv

\* Nobody sleeps in tfs_destroy_after_all_closed with every file closed,
\* unless the broadcast that wakes them is the closing thread's next step.
THEOREM WakeupsAreNotLost == Spec => []NoLostWakeup
  BY Invariance, PTL DEF IInv

-----------------------------------------------------------------------------

\* The step of each action is the step of AtomicHandles it stands for, or
\* leaves what AtomicHandles sees unchanged.
LEMMA StepRefines == IInv /\ [Next]_vars => [Atomic!Next]_(Atomic!vars)
  <1> SUFFICES ASSUME IInv, [Next]_vars PROVE [Atomic!Next]_(Atomic!vars)
    OBVIOUS
  <1> USE DEF IInv
  <1> DEFINE stage == [t \in Threads |->
                CASE pc[t] = "idle" -> "idle"
                  [] pc[t] \in {"broadcasting", "unlocking"} -> "done"
                  [] OTHER -> "invoked"]
  <1>1. ASSUME NEW t \in Threads, Invoke(t) PROVE Atomic!Invoke(t)
    <2>1. stage[t] = "idle" /\ stage' = [stage EXCEPT ![t] = "invoked"]
      BY <1>1 DEF Invoke, Goto, TypeOK
    <2> QED
      BY <1>1, <2>1 DEF Invoke, Atomic!Invoke, Calls
  <1>2. ASSUME NEW t \in Threads, Lock(t) \/ SpuriousWakeup(t)
        PROVE  UNCHANGED Atomic!vars
    <2>1. stage' = stage
      BY <1>2 DEF Lock, SpuriousWakeup, Goto, TypeOK
    <2> QED
      BY <1>2, <2>1 DEF Lock, SpuriousWakeup, Atomic!vars
  <1>3. ASSUME NEW t \in Threads, Open(t) PROVE Atomic!Open(t)
    <2>1. stage[t] = "invoked" /\ stage' = [stage EXCEPT ![t] = "done"]
      <3>1. pc[t] = "locked" /\ pc' = [pc EXCEPT ![t] = "unlocking"]
        BY <1>3 DEF Open, Goto
      <3> QED
        BY <3>1 DEF TypeOK
    <2>2. handle[t] = NoHandle /\ handle = [handle EXCEPT ![t] = NoHandle]
      BY <1>3 DEF Open, TypeOK, NoHandleYet
    <2> QED
      BY <1>3, <2>1, <2>2 DEF Open, Atomic!Open, Atomic!Finish
  <1>4. ASSUME NEW t \in Threads, Close(t) PROVE Atomic!Close(t)
    <2>1. stage[t] = "invoked" /\ stage' = [stage EXCEPT ![t] = "done"]
      BY <1>4 DEF Close, Goto, TypeOK
    <2> QED
      BY <1>4, <2>1 DEF Close, TypeOK, Atomic!Close, Atomic!Finish
  <1>5. ASSUME NEW t \in Threads, Broadcast(t) PROVE UNCHANGED Atomic!vars
    <2>1. stage' = stage
      BY <1>5 DEF Broadcast, TypeOK
    <2> QED
      BY <1>5, <2>1 DEF Broadcast, Atomic!vars
  <1>6. ASSUME NEW t \in Threads, TestVar(t), var > 0 PROVE UNCHANGED Atomic!vars
    <2>1. stage' = stage
      BY <1>6 DEF TestVar, Goto, TypeOK
    <2> QED
      BY <1>6, <2>1 DEF TestVar, Atomic!vars
  <1>7. ASSUME NEW t \in Threads, TestVar(t), ~(var > 0) PROVE Atomic!Destroy(t)
    <2>1. stage[t] = "invoked" /\ stage' = [stage EXCEPT ![t] = "done"]
      BY <1>7 DEF TestVar, Goto, TypeOK
    <2>2. open = {}
      BY <1>7, CountingHandles DEF TypeOK, Counted
    <2> QED
      BY <1>7, <2>1, <2>2 DEF TestVar, TypeOK, Atomic!Destroy, Atomic!Finish
  <1>8. ASSUME NEW t \in Threads, Unlock(t) PROVE Atomic!Return(t)
    <2>1. stage[t] = "done" /\ stage' = [stage EXCEPT ![t] = "idle"]
      BY <1>8 DEF Unlock, Goto, TypeOK
    <2> QED
      BY <1>8, <2>1 DEF Unlock, Atomic!Return
  <1>9. ASSUME UNCHANGED vars PROVE UNCHANGED Atomic!vars
    BY <1>9 DEF vars, Atomic!vars
  <1> QED
    BY <1>1, <1>2, <1>3, <1>4, <1>5, <1>6, <1>7, <1>8, <1>9
    DEF Next, Step, Atomic!Next

\* single_global_lock makes every call of fs/operations.c on the table of open
\* files atomic, and a tfs_destroy_after_all_closed passes only at a moment at
\* which no file is open.
THEOREM Refinement == Spec => CallsAreAtomic
  <1>1. Init => Atomic!Init
    BY DEF Init, Atomic!Init
  <1> QED
    BY <1>1, Invariance, StepRefines, PTL DEF Spec, CallsAreAtomic, Atomic!Spec
=============================================================================
