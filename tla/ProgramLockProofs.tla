------------------------- MODULE ProgramLockProofs -------------------------
(***************************************************************************)
(* Proofs about the ProgramLock model for every set of processes and every *)
(* bound on lock files, with every operation.                              *)
(***************************************************************************)
EXTENDS ProgramLock, TLAPS

USE ProgramLockAssumption DEF Inodes, NoFile, PCs, Rets

\* The places where a process uses the file it has open.
UsesFile ==
    {"a_write", "a_lock", "holding", "l_try", "l_release", "c_try", "c_release", "r_read"}

(* The inductive invariant behind type correctness with every operation,  *)
(* try_cleanup_dead_lock included: at every place that reads, writes or   *)
(* locks its file a process has a real inode open (read_lock reads its    *)
(* content; acquire_lock, drop, and is_locked's try_lock and its release  *)
(* index its flock).                                                        *)
TInv ==
    /\ TypeOK
    /\ \A p \in Procs : pc[p] \in UsesFile => fd[p] \in Inodes

LEMMA TInvStep ==
    ASSUME TInv, NEW p \in Procs,
           Calls(p) \/ Steps(p) \/ drop(p) \/ crash(p)
    PROVE  TInv'
<1> USE DEF TInv, TypeOK, UsesFile
<1>1. CASE acquire_open(p)
  <2>1. CASE path # NoFile /\ Return(p, "err") /\ UNCHANGED <<path, created, content, locker>>
    BY <2>1 DEF Return
  <2>2. CASE /\ path = NoFile /\ created < MaxInodes
             /\ created' = created + 1 /\ path' = created + 1
             /\ fd' = [fd EXCEPT ![p] = created + 1]
             /\ pc' = [pc EXCEPT ![p] = "a_write"]
             /\ UNCHANGED <<content, ret, locker>>
    <3>1. created + 1 \in Inodes
      BY <2>2
    <3>2. QED
      BY <2>2, <3>1
  <2>3. QED
    BY <1>1, <2>1, <2>2 DEF acquire_open
<1>2. CASE acquire_write(p)
  <2>1. pc[p] = "a_write" /\ fd[p] \in Inodes
    BY <1>2 DEF acquire_write
  <2>2. CASE /\ content' = [content EXCEPT ![fd[p]] = p]
             /\ pc' = [pc EXCEPT ![p] = "a_lock"]
             /\ UNCHANGED <<fd, ret, path, created, locker>>
    BY <2>1, <2>2
  <2>3. CASE Return(p, "err") /\ UNCHANGED <<content, path, created, locker>>
    BY <2>3 DEF Return
  <2>4. QED
    BY <1>2, <2>2, <2>3 DEF acquire_write
<1>3. CASE acquire_lock(p)
  BY <1>3 DEF acquire_lock
<1>4. CASE drop(p)
  BY <1>4 DEF drop, Return
<1>5. CASE crash(p)
  BY <1>5 DEF crash, Return
<1>6. CASE is_locked(p)
  BY <1>6 DEF is_locked, Return
<1>7. CASE try_cleanup_dead_lock(p)
  BY <1>7 DEF try_cleanup_dead_lock
<1>8. CASE is_locked_open(p)
  BY <1>8 DEF is_locked_open, Return
<1>9. CASE is_locked_try(p)
  <2>1. pc[p] \in {"l_try", "c_try"} /\ fd[p] \in Inodes
    BY <1>9 DEF is_locked_try
  <2>2. CASE /\ locker[fd[p]] # NoProc
             /\ Return(p, IF pc[p] = "l_try" THEN "true" ELSE "false")
             /\ UNCHANGED <<locker, path, created, content>>
    BY <2>2 DEF Return
  <2>3. CASE /\ locker[fd[p]] = NoProc
             /\ locker' = [locker EXCEPT ![fd[p]] = p]
             /\ pc' = [pc EXCEPT ![p] = IF pc[p] = "l_try" THEN "l_release" ELSE "c_release"]
             /\ UNCHANGED <<fd, ret, path, created, content>>
    BY <2>1, <2>3
  <2>4. QED
    BY <1>9, <2>2, <2>3 DEF is_locked_try
<1>10. CASE is_locked_release(p)
  BY <1>10 DEF is_locked_release, Return
<1>11. CASE cleanup_remove(p)
  BY <1>11 DEF cleanup_remove, Return
<1>12. CASE read_lock_pid(p)
  BY <1>12 DEF read_lock_pid, Return
<1>13. CASE read_lock(p)
  <2>1. content[fd[p]] \in Procs \cup {"empty"}
    BY <1>13 DEF read_lock
  <2>2. QED
    BY <1>13, <2>1 DEF read_lock, Return
<1>14. QED
  BY <1>1, <1>2, <1>3, <1>4, <1>5, <1>6, <1>7, <1>8, <1>9, <1>10, <1>11, <1>12,
     <1>13 DEF Calls, Steps

(* Every state of the lock is well typed with every operation, for any    *)
(* set of processes and any bound on lock files: no call reads, writes or *)
(* locks a file it has not opened, even when try_cleanup_dead_lock removes *)
(* the path between a process's steps.                                     *)
THEOREM TypeCorrect == Spec => []TypeOK
<1>1. Init => TInv
  BY DEF Init, TInv, TypeOK, UsesFile
<1>2. TInv /\ [Next]_vars => TInv'
  <2> SUFFICES ASSUME TInv, [Next]_vars PROVE TInv'
    OBVIOUS
  <2>1. CASE Next
    BY <2>1, TInvStep DEF Next
  <2>2. CASE UNCHANGED vars
    BY <2>2 DEF vars, TInv, TypeOK
  <2>3. QED
    BY <2>1, <2>2
<1>3. QED
  BY <1>1, <1>2, PTL DEF Spec, TInv
=============================================================================
