---------------------------- MODULE ProgramLock ----------------------------
(***************************************************************************)
(* The single-instance lock file of src/iroh-util/src/lock.rs, shared by   *)
(* several processes through the file system.                             *)
(*                                                                         *)
(* A lock file is an inode: the path names at most one inode, an inode    *)
(* keeps its content and its flock after the path is removed, and the     *)
(* flock of a process is released when its FileGuard is dropped or the    *)
(* process dies.  Each file-system call is one step, so the calls of      *)
(* different processes interleave between them.                            *)
(***************************************************************************)
EXTENDS Naturals, FiniteSets

CONSTANTS
    Procs,      \* the processes (their pids) using the lock of one program
    MaxInodes,  \* bound: lock files created
    NoProc      \* no process: the holder of an unlocked file

ASSUME ProgramLockAssumption ==
    /\ Procs # {}
    /\ MaxInodes \in Nat \ {0}
    /\ NoProc \notin Procs

Inodes  == 1..MaxInodes
NoFile  == 0

VARIABLES
    path,      \* the inode the lock path names, or NoFile
    created,   \* inodes created so far
    content,   \* content[i]: the pid written into inode i, or "empty"
    locker,    \* locker[i]: the process whose FileGuard holds the flock of i
    pc,        \* pc[p]: where process p is
    fd,        \* fd[p]: the inode of the File p has open
    ret        \* ret[p]: what p's last call returned

vars == <<path, created, content, locker, pc, fd, ret>>

PCs == {"idle",
        "a_write", "a_lock", "holding",   \* ProgramLock::acquire, then held
        "l_open", "l_try", "l_release",   \* is_locked
        "c_open", "c_try", "c_release", "c_remove", \* try_cleanup_dead_lock
        "r_read"}                         \* read_lock
Rets == {"none", "ok", "err", "true", "false", "nolock", "corrupt"} \cup Procs

TypeOK ==
    /\ path \in Inodes \cup {NoFile}
    /\ created \in 0..MaxInodes
    /\ content \in [Inodes -> Procs \cup {"empty"}]
    /\ locker \in [Inodes -> Procs \cup {NoProc}]
    /\ pc \in [Procs -> PCs]
    /\ fd \in [Procs -> Inodes \cup {NoFile}]
    /\ ret \in [Procs -> Rets]

Init ==
    /\ path = NoFile
    /\ created = 0
    /\ content = [i \in Inodes |-> "empty"]
    /\ locker = [i \in Inodes |-> NoProc]
    /\ pc = [p \in Procs |-> "idle"]
    /\ fd = [p \in Procs |-> NoFile]
    /\ ret = [p \in Procs |-> "none"]

Return(p, r) ==
    /\ pc' = [pc EXCEPT ![p] = "idle"]
    /\ ret' = [ret EXCEPT ![p] = r]
    /\ fd' = [fd EXCEPT ![p] = NoFile]
-----------------------------------------------------------------------------
(* ProgramLock::acquire.  OpenOptions::create_new fails when the path      *)
(* exists; otherwise it creates an empty file.                             *)
acquire_open(p) ==
    /\ pc[p] = "idle"
    /\ \/ /\ path # NoFile
          /\ Return(p, "err")
          /\ UNCHANGED <<path, created, content>>
       \/ /\ path = NoFile
          /\ created < MaxInodes
          /\ created' = created + 1
          /\ path' = created + 1
          /\ fd' = [fd EXCEPT ![p] = created + 1]
          /\ pc' = [pc EXCEPT ![p] = "a_write"]
          /\ UNCHANGED <<content, ret>>
    /\ UNCHANGED locker

\* file.write_all(pid): it succeeds, or fails (the disk is full) and
\* acquire returns the error, leaving the empty file behind.
acquire_write(p) ==
    /\ pc[p] = "a_write"
    /\ \/ /\ content' = [content EXCEPT ![fd[p]] = p]
          /\ pc' = [pc EXCEPT ![p] = "a_lock"]
          /\ UNCHANGED <<fd, ret>>
       \/ /\ Return(p, "err")
          /\ UNCHANGED content
    /\ UNCHANGED <<path, created, locker>>

\* file_guard::lock(file, Exclusive): blocks while another guard holds it.
acquire_lock(p) ==
    /\ pc[p] = "a_lock"
    /\ locker[fd[p]] = NoProc
    /\ locker' = [locker EXCEPT ![fd[p]] = p]
    /\ pc' = [pc EXCEPT ![p] = "holding"]
    /\ ret' = [ret EXCEPT ![p] = "ok"]
    /\ UNCHANGED <<path, created, content, fd>>

\* The ProgramLock is dropped: the FileGuard unlocks; the file stays.
drop(p) ==
    /\ pc[p] = "holding"
    /\ locker' = [locker EXCEPT ![fd[p]] = NoProc]
    /\ Return(p, ret[p])
    /\ UNCHANGED <<path, created, content>>

\* The process dies at any point: the OS releases its flocks.
crash(p) ==
    /\ pc[p] # "idle"
    /\ locker' = [i \in Inodes |-> IF locker[i] = p THEN NoProc ELSE locker[i]]
    /\ Return(p, "none")
    /\ UNCHANGED <<path, created, content>>
-----------------------------------------------------------------------------
(* ProgramLock::is_locked: path.exists(), File::open, then try_lock, whose *)
(* FileGuard, when it gets one, is dropped at the end of the statement.    *)
is_locked(p) ==
    /\ pc[p] = "idle"
    /\ IF path = NoFile
         THEN Return(p, "false")
         ELSE /\ pc' = [pc EXCEPT ![p] = "l_open"]
              /\ UNCHANGED <<fd, ret>>
    /\ UNCHANGED <<path, created, content, locker>>

(* try_cleanup_dead_lock: lock.is_locked() (pc "c_open", "c_try"), then   *)
(* remove_file unless it said locked.  No file: is_locked is false and    *)
(* remove_file fails.                                                      *)
try_cleanup_dead_lock(p) ==
    /\ pc[p] = "idle"
    /\ pc' = [pc EXCEPT ![p] = IF path = NoFile THEN "c_remove" ELSE "c_open"]
    /\ UNCHANGED <<path, created, content, locker, fd, ret>>

\* File::open(&self.path) in is_locked: an error (the path is gone) is false.
is_locked_open(p) ==
    /\ pc[p] \in {"l_open", "c_open"}
    /\ IF path = NoFile
         THEN IF pc[p] = "l_open"
                THEN Return(p, "false")
                ELSE /\ pc' = [pc EXCEPT ![p] = "c_remove"]
                     /\ UNCHANGED <<fd, ret>>
         ELSE /\ fd' = [fd EXCEPT ![p] = path]
              /\ pc' = [pc EXCEPT ![p] = IF pc[p] = "l_open" THEN "l_try" ELSE "c_try"]
              /\ UNCHANGED ret
    /\ UNCHANGED <<path, created, content, locker>>

(* file_guard::try_lock(&file, Exclusive, 0, 1).is_err().  A file locked *)
(* by anyone is "locked": is_locked is true, try_cleanup_dead_lock ends    *)
(* with Ok(false).  An unlocked file is flocked by the prober itself,      *)
(* until the guard is dropped.                                              *)
is_locked_try(p) ==
    /\ pc[p] \in {"l_try", "c_try"}
    /\ \/ /\ locker[fd[p]] # NoProc
          /\ Return(p, IF pc[p] = "l_try" THEN "true" ELSE "false")
          /\ UNCHANGED locker
       \/ /\ locker[fd[p]] = NoProc
          /\ locker' = [locker EXCEPT ![fd[p]] = p]
          /\ pc' = [pc EXCEPT ![p] = IF pc[p] = "l_try" THEN "l_release" ELSE "c_release"]
          /\ UNCHANGED <<fd, ret>>
    /\ UNCHANGED <<path, created, content>>

is_locked_release(p) ==
    /\ pc[p] \in {"l_release", "c_release"}
    /\ locker' = [locker EXCEPT ![fd[p]] = NoProc]
    /\ IF pc[p] = "l_release"
         THEN Return(p, "false")
         ELSE /\ pc' = [pc EXCEPT ![p] = "c_remove"]
              /\ fd' = [fd EXCEPT ![p] = NoFile]
              /\ UNCHANGED ret
    /\ UNCHANGED <<path, created, content>>

\* std::fs::remove_file(lock.path) removes whatever file the path names now:
\* Ok(true), or Err when there is none.
cleanup_remove(p) ==
    /\ pc[p] = "c_remove"
    /\ \/ /\ path = NoFile
          /\ Return(p, "err")
          /\ UNCHANGED path
       \/ /\ path # NoFile
          /\ path' = NoFile
          /\ Return(p, "true")
    /\ UNCHANGED <<created, content, locker>>

(* read_lock_pid: File::open (NotFound: NoLock), then read_to_string and   *)
(* parse::<u32> (an empty file: CorruptLock).                              *)
read_lock_pid(p) ==
    /\ pc[p] = "idle"
    /\ IF path = NoFile
         THEN Return(p, "nolock")
         ELSE /\ fd' = [fd EXCEPT ![p] = path]
              /\ pc' = [pc EXCEPT ![p] = "r_read"]
              /\ UNCHANGED ret
    /\ UNCHANGED <<path, created, content, locker>>

\* Mutant: the file's content returned without parse::<u32>.
read_lock_unparsed(p) ==
    /\ pc[p] = "r_read"
    /\ Return(p, content[fd[p]])
    /\ UNCHANGED <<path, created, content, locker>>

read_lock(p) ==
    /\ pc[p] = "r_read"
    /\ Return(p, IF content[fd[p]] = "empty" THEN "corrupt" ELSE content[fd[p]])
    /\ UNCHANGED <<path, created, content, locker>>
-----------------------------------------------------------------------------
Calls(p) ==
    acquire_open(p) \/ is_locked(p) \/ try_cleanup_dead_lock(p) \/ read_lock_pid(p)

Steps(p) ==
    \/ acquire_write(p) \/ acquire_lock(p)
    \/ is_locked_open(p) \/ is_locked_try(p) \/ is_locked_release(p)
    \/ cleanup_remove(p) \/ read_lock(p)

Next == \E p \in Procs : Calls(p) \/ Steps(p) \/ drop(p) \/ crash(p)

(* The OS runs every process that can proceed; holding the lock, dying   *)
(* and starting a call are the process's own choice.  A flock blocked in  *)
(* acquire is woken at every release of the file (the kernel wakes its    *)
(* waiters on unlock) and is not beaten by another prober's try_lock at   *)
(* every one of infinitely many releases.                                  *)
Spec ==
    /\ Init /\ [][Next]_vars
    /\ \A p \in Procs : WF_vars(Steps(p)) /\ SF_vars(acquire_lock(p))
-----------------------------------------------------------------------------
(* The purpose of ProgramLock: at most one process of the program holds   *)
(* the lock at a time (acquire's create_new plus the exclusive flock, with *)
(* crashes, dropped guards and other processes' probes between).           *)
SingleInstance == Cardinality({p \in Procs : pc[p] = "holding"}) <= 1

=============================================================================
