---------------------------- MODULE RegistryFile ----------------------------
(***************************************************************************)
(* registry.Store on the file system (internal/registry/store.go): the     *)
(* registry file, its backup, the temporary file it is replaced through    *)
(* and the advisory lock, one step for each system call that another       *)
(* process can tell apart.                                                 *)
(*                                                                         *)
(* A file is an inode with contents.  Opening a path fixes the inode, so a *)
(* reader keeps what it opened while the path moves on to another inode;   *)
(* rename moves a path, writing changes the contents of an inode.  Between *)
(* the truncation of a file and the end of the write its contents are Torn *)
(* and cannot be parsed.                                                   *)
(***************************************************************************)
EXTENDS Sequences

CONSTANTS Mutations,   \* calls of Store.mutate, each by a goroutine or a CLI process
          Readers,     \* goroutines and CLI processes that call Store.Load
          Inodes,
          Torn,        \* the contents of a half-written file
          None,        \* no such file, no holder, nothing open
          Faults       \* subset of {"read", "write", "crash"}

Registries == Seq(Mutations)
Contents == Registries \cup {Torn}

ASSUME FileAssumption ==
  /\ Torn \notin Registries
  /\ None \notin Contents
  /\ None \notin Inodes
  /\ None \notin Mutations

VARIABLES main,   \* the inode of registry.json
          tmp,    \* the inode of registry.json.tmp
          data,   \* contents of the inodes
          bak,    \* contents of registry.json.bak
          lock,   \* the mutation that holds registry.json.lock
          pc,     \* next system call of each mutation
          reg,    \* the registry it loaded and changed
          prev,   \* the previous contents it read for the backup
          skipped, \* history: the last backup could not be made
          out,    \* the inode it has open for writing
          fd,     \* the inode each reader has open
          got     \* what each reader read last

files == <<main, tmp, data, bak>>
locals == <<reg, prev, out>>
readers == <<fd, got>>
vars == <<main, tmp, data, bak, lock, pc, reg, prev, out, fd, got, skipped>>

(* Load: a missing file is an empty registry. *)
Current == IF main = None THEN << >> ELSE data[main]

ReadFails == "read" \in Faults
WriteFails == "write" \in Faults

-----------------------------------------------------------------------------
(* A fresh installation: no file has been written yet. *)
Init ==
  /\ main = None
  /\ tmp = None
  /\ data \in [Inodes -> {Torn}]
  /\ bak = None
  /\ lock = None
  /\ pc = [m \in Mutations |-> "lock"]
  /\ reg = [m \in Mutations |-> << >>]
  /\ prev = [m \in Mutations |-> << >>]
  /\ out = [m \in Mutations |-> None]
  /\ skipped = FALSE
  /\ fd = [r \in Readers |-> None]
  /\ got = [r \in Readers |-> << >>]

Goto(m, step) == pc' = [pc EXCEPT ![m] = step]

-----------------------------------------------------------------------------
(* mutate *)

(* Faulty variant: the lock is shared. *)
LockShared(m) ==
  /\ pc[m] = "lock"
  /\ lock' = m
  /\ Goto(m, "load")
  /\ UNCHANGED <<files, locals, readers, skipped>>

(* The call waits until the lock is free. *)
Lock(m) ==
  /\ pc[m] = "lock"
  /\ lock = None
  /\ lock' = m
  /\ Goto(m, "load")
  /\ UNCHANGED <<files, locals, readers, skipped>>

(* The directory cannot be made or the lock file not be opened.  No fairness
   comes with it: who waits for a lock is not saved by an error. *)
LockFails(m) ==
  /\ pc[m] = "lock"
  /\ WriteFails
  /\ Goto(m, "failed")
  /\ UNCHANGED <<files, lock, locals, readers, skipped>>

(* Faulty variant: a missing file is not an empty registry. *)
LoadAsIs(m) ==
  /\ pc[m] = "load"
  /\ reg' = [reg EXCEPT ![m] = IF main = None THEN None ELSE Append(data[main], m)]
  /\ Goto(m, "backup")
  /\ UNCHANGED <<files, lock, prev, out, readers, skipped>>

(* Load and fn: an unreadable file or a rejected change ends the mutation. *)
Load(m) ==
  /\ pc[m] = "load"
  /\ \/ /\ Current # Torn
        /\ reg' = [reg EXCEPT ![m] = Append(Current, m)]
        /\ Goto(m, "backup")
     \/ /\ Goto(m, "abort")
        /\ UNCHANGED reg
  /\ UNCHANGED <<files, lock, prev, out, readers, skipped>>

(* The backup is read from the file again and written in place: it is Torn
   between truncation and write.  No error of it stops the mutation. *)
Backup(m) ==
  /\ pc[m] = "backup"
  /\ \/ /\ main # None
        /\ prev' = [prev EXCEPT ![m] = data[main]]
        /\ bak' = Torn
        /\ skipped' = FALSE
        /\ Goto(m, "backup_write")
     \/ /\ main = None \/ ReadFails \/ WriteFails
        /\ skipped' = (main # None)
        /\ Goto(m, "tmp")
        /\ UNCHANGED <<prev, bak>>
  /\ UNCHANGED <<main, tmp, data, lock, reg, out, readers>>

BackupWrite(m) ==
  /\ pc[m] = "backup_write"
  /\ \/ bak' = prev[m]
     \/ WriteFails /\ UNCHANGED bak
  /\ Goto(m, "tmp")
  /\ UNCHANGED <<main, tmp, data, lock, locals, readers, skipped>>

(* An inode no path names and no reader has open. *)
Unused(i) == i # main /\ i # tmp /\ \A r \in Readers : i # fd[r]

(* Faulty variant: the registry is written in place. *)
TmpOpenInPlace(m) ==
  /\ pc[m] = "tmp"
  /\ \E i \in Inodes :
       /\ IF main = None THEN Unused(i) ELSE i = main
       /\ data' = [data EXCEPT ![i] = Torn]
       /\ out' = [out EXCEPT ![m] = i]
       /\ tmp' = i
  /\ Goto(m, "tmp_write")
  /\ UNCHANGED <<main, bak, lock, reg, prev, readers, skipped>>

(* A leftover temporary file is truncated and reused. *)
TmpOpen(m) ==
  /\ pc[m] = "tmp"
  /\ \/ \E i \in Inodes :
          /\ IF tmp = None THEN Unused(i) ELSE i = tmp
          /\ data' = [data EXCEPT ![i] = Torn]
          /\ tmp' = i
          /\ out' = [out EXCEPT ![m] = i]
          /\ Goto(m, "tmp_write")
     \/ /\ WriteFails
        /\ Goto(m, "abort")
        /\ UNCHANGED <<data, tmp, out>>
  /\ UNCHANGED <<main, bak, lock, reg, prev, readers, skipped>>

TmpWrite(m) ==
  /\ pc[m] = "tmp_write"
  /\ \/ /\ data' = [data EXCEPT ![out[m]] = reg[m]]
        /\ Goto(m, "rename")
     \/ /\ WriteFails
        /\ Goto(m, "abort")
        /\ UNCHANGED data
  /\ UNCHANGED <<main, tmp, bak, lock, locals, readers, skipped>>

(* chmod and rename; the mutation has taken effect with the rename. *)
Rename(m) ==
  /\ pc[m] = "rename"
  /\ \/ /\ tmp # None
        /\ main' = tmp
        /\ tmp' = None
        /\ Goto(m, "unlock")
     \/ /\ WriteFails \/ tmp = None
        /\ Goto(m, "abort")
        /\ UNCHANGED <<main, tmp>>
  /\ UNCHANGED <<data, bak, lock, locals, readers, skipped>>

Unlock(m) ==
  /\ pc[m] \in {"unlock", "abort"}
  /\ lock' = None
  /\ Goto(m, IF pc[m] = "unlock" THEN "done" ELSE "failed")
  /\ UNCHANGED <<files, locals, readers, skipped>>

-----------------------------------------------------------------------------
(* The process of a mutation dies.  The kernel releases its lock; the files
   stay as they are. *)

Critical == {"load", "backup", "backup_write", "tmp", "tmp_write", "rename", "unlock", "abort"}

(* Faulty variant: the lock file itself is the lock. *)
CrashKeepsLock(m) ==
  /\ "crash" \in Faults
  /\ pc[m] \in Critical \cup {"lock"}
  /\ Goto(m, IF pc[m] = "unlock" THEN "lost" ELSE "dead")
  /\ UNCHANGED <<files, lock, locals, readers, skipped>>

Crash(m) ==
  /\ "crash" \in Faults
  /\ pc[m] \in Critical \cup {"lock"}
  /\ lock' = IF lock = m THEN None ELSE lock
  /\ Goto(m, IF pc[m] = "unlock" THEN "lost" ELSE "dead")
  /\ UNCHANGED <<files, locals, readers, skipped>>

-----------------------------------------------------------------------------
(* Load without the lock, as the read operations of the store call it.  A read
   that fails leaves the reader with an error and nothing to show here. *)

Open(r) ==
  /\ fd[r] = None
  /\ \/ main # None /\ fd' = [fd EXCEPT ![r] = main] /\ UNCHANGED got
     \/ main = None /\ got' = [got EXCEPT ![r] = << >>] /\ UNCHANGED fd
  /\ UNCHANGED <<files, lock, pc, locals, skipped>>

Read(r) ==
  /\ fd[r] # None
  /\ got' = [got EXCEPT ![r] = data[fd[r]]]
  /\ fd' = [fd EXCEPT ![r] = None]
  /\ UNCHANGED <<files, lock, pc, locals, skipped>>

-----------------------------------------------------------------------------
Step(m) ==
  \/ Lock(m) \/ Load(m) \/ Backup(m) \/ BackupWrite(m)
  \/ TmpOpen(m) \/ TmpWrite(m) \/ Rename(m) \/ Unlock(m)

Next ==
  \/ \E m \in Mutations : Step(m) \/ LockFails(m) \/ Crash(m)
  \/ \E r \in Readers : Open(r) \/ Read(r)

Spec == Init /\ [][Next]_vars

(* A process that is not blocked in a system call goes on.  Each mutation runs
   once, so a free lock is contended for finitely often. *)
FairSpec == Spec /\ \A m \in Mutations : WF_vars(Step(m))

-----------------------------------------------------------------------------
PCs == Critical \cup {"lock", "done", "failed", "lost", "dead"}

TypeOK ==
  /\ main \in Inodes \cup {None}
  /\ tmp \in Inodes \cup {None}
  /\ data \in [Inodes -> Contents]
  /\ bak \in Contents \cup {None}
  /\ lock \in Mutations \cup {None}
  /\ pc \in [Mutations -> PCs]
  /\ reg \in [Mutations -> Registries]
  /\ prev \in [Mutations -> Contents]
  /\ out \in [Mutations -> Inodes \cup {None}]
  /\ fd \in [Readers -> Inodes \cup {None}]
  /\ got \in [Readers -> Contents]
  /\ skipped \in BOOLEAN

-----------------------------------------------------------------------------
(***************************************************************************)
(* The file implements the atomic registry.  A mutation takes effect with  *)
(* its rename; a reader has seen the registry as it was when the file was  *)
(* opened, however late it reads the contents.                             *)
(***************************************************************************)
Fate(m) ==
  CASE pc[m] \in {"unlock", "done", "lost"} -> "applied"
    [] pc[m] \in {"abort", "failed", "dead"} -> "failed"
    [] OTHER -> "waiting"

Atomic == INSTANCE AtomicRegistry WITH
  registry <- Current,
  fate <- [m \in Mutations |-> Fate(m)],
  seen <- [r \in Readers |-> IF fd[r] = None THEN got[r] ELSE data[fd[r]]]

(* No update is lost, none is half done and no reader sees a partial file,
   wherever processes die or calls fail. *)
ImplementsAtomic == Atomic!Spec

(* The backup is best effort: save ignores its errors.  Unless the last one
   could not be made, it is the registry or the state before its last change
   once it is written whole, also after a process died halfway through. *)
BackupAtMostOneBehind ==
  \/ skipped
  \/ bak \in {None, Torn, Current}
  \/ \E m \in Mutations : Current = Append(bak, m)

(* Every mutation returns, unless its process dies: the lock is not left behind
   by one that failed or died. *)
EveryMutationEnds == \A m \in Mutations : <>(pc[m] \in {"done", "failed", "lost", "dead"})
=============================================================================
