-------------------------------- MODULE Capi --------------------------------
(***************************************************************************)
(* The C ABI of capi.rs: one mount handle used by several threads.  Every  *)
(* entry point clears the calling thread's error slot, checks its          *)
(* pointers, resolves a path and answers, with an errno when it fails; a   *)
(* panic is caught and becomes EIO.  read_file keeps the path it resolved  *)
(* last behind a mutex that it holds across the whole resolution; a panic  *)
(* there poisons the mutex, and the next reader takes it all the same.     *)
(*                                                                         *)
(* The caller's side of the contract is assumed: one thread uses an        *)
(* iterator, and a mount is freed only when no call on it is running.      *)
(***************************************************************************)
EXTENDS Naturals, Sequences

CONSTANTS
    Thread,
    Lookup,      \* Lookup[p]: the inode that the name p resolves to
    Unresolved,  \* Unresolved[p]: the errno of the lookup's error, for the
                 \* other names callers use
    None,        \* a null pointer; nothing
    MaxCalls     \* bound: calls made in a behaviour

\* The cleared errno slot.
Ok == "0"

Path == DOMAIN Lookup \cup DOMAIN Unresolved

\* A name resolves or has an errno, never both, and no errno reads as success.
ASSUME NamesAssumption ==
    /\ None \notin Thread
    /\ DOMAIN Lookup \cap DOMAIN Unresolved = {}
    /\ \A p \in DOMAIN Unresolved : Unresolved[p] # Ok

\* Entry points that resolve a name: a path, or for stat_ino the number
\* that read_inode_by_number turns into an inode.
NameOp == {"read_file", "stat", "stat_ino", "dir_open", "readlink", "listxattr",
           "getxattr"}

VARIABLES
    mounted,     \* the handle is live
    lastRead,    \* last_read_path: [path, inode], or None
    holder,      \* the thread that holds its mutex, or None
    poisoned,    \* a thread panicked while it held the mutex
    pc,          \* pc[t]: where t is in a call
    op,          \* op[t]: the entry point it called ...
    path,        \* ... with this path
    inode,       \* inode[t]: what the path resolved to, t's own copy
    errno,       \* errno[t]: LAST_ERRNO
    status,      \* status[t]: whether the last call failed
    faulted,     \* history: a fault outside the image hit the last call
    iter,        \* iter[t]: the directory iterator t holds, or None
    calls        \* calls made so far

handleVars == <<mounted, lastRead, holder, poisoned>>
vars == <<handleVars, pc, op, path, inode, errno, status, faulted, iter, calls>>

Init ==
    /\ mounted = FALSE
    /\ lastRead = None
    /\ holder = None
    /\ poisoned = FALSE
    /\ pc = [t \in Thread |-> "idle"]
    /\ op = [t \in Thread |-> None]
    /\ path = [t \in Thread |-> None]
    /\ inode = [t \in Thread |-> None]
    /\ errno = [t \in Thread |-> Ok]
    /\ status = [t \in Thread |-> "ok"]
    /\ faulted = [t \in Thread |-> FALSE]
    /\ iter = [t \in Thread |-> None]
    /\ calls = 0

\* Mutant: one error slot for all threads.
SetErrnoShared(t, e) == errno' = [u \in Thread |-> e]

\* set_err_from / set_err_msg: the slot is the thread's own.
SetErrno(t, e) == errno' = [errno EXCEPT ![t] = e]

\* Returning -1 or NULL, with the reason in the error slot.
FailWith(t, e) ==
    /\ SetErrno(t, e)
    /\ status' = [status EXCEPT ![t] = "failed"]
    /\ pc' = [pc EXCEPT ![t] = "idle"]

Idle(t) == pc[t] = "idle" /\ calls < MaxCalls

\* fs_squashfs_mount and its two siblings, on an image that opens.
Mount(t) ==
    /\ Idle(t)
    /\ ~mounted
    /\ mounted' = TRUE
    /\ lastRead' = None
    /\ poisoned' = FALSE
    /\ SetErrno(t, Ok)
    /\ status' = [status EXCEPT ![t] = "ok"]
    /\ faulted' = [faulted EXCEPT ![t] = FALSE]
    /\ op' = [op EXCEPT ![t] = "mount"]
    /\ calls' = calls + 1
    /\ UNCHANGED <<holder, pc, path, inode, iter>>

\* fs_squashfs_mount and its siblings, when the device or Filesystem::open
\* refuses.
MountFails(t, e) ==
    /\ Idle(t)
    /\ ~mounted
    /\ FailWith(t, e)
    /\ faulted' = [faulted EXCEPT ![t] = TRUE]
    /\ op' = [op EXCEPT ![t] = "mount"]
    /\ calls' = calls + 1
    /\ UNCHANGED <<handleVars, path, inode, iter>>

\* fs_squashfs_umount: no error slot is touched, and iterators live on.
Umount(t) ==
    /\ Idle(t)
    /\ mounted
    /\ \A u \in Thread : pc[u] = "idle"
    /\ mounted' = FALSE
    /\ calls' = calls + 1
    /\ UNCHANGED <<lastRead, holder, poisoned, pc, op, path, inode, errno, status,
                   faulted, iter>>

\* get_volume_info and is_exportable: answered from the superblock in hand.
Query(t) ==
    /\ Idle(t)
    /\ mounted
    /\ SetErrno(t, Ok)
    /\ status' = [status EXCEPT ![t] = "ok"]
    /\ faulted' = [faulted EXCEPT ![t] = FALSE]
    /\ op' = [op EXCEPT ![t] = "query"]
    /\ calls' = calls + 1
    /\ UNCHANGED <<handleVars, pc, path, inode, iter>>

\* A call with a NULL pointer: refused before anything is dereferenced.
NullArgument(t, o) ==
    /\ Idle(t)
    /\ FailWith(t, "EINVAL")
    /\ faulted' = [faulted EXCEPT ![t] = TRUE]
    /\ op' = [op EXCEPT ![t] = o]
    /\ calls' = calls + 1
    /\ UNCHANGED <<handleVars, path, inode, iter>>

\* An entry point is called on the mount: clear_last_error comes first.
Enter(t, o, p) ==
    /\ Idle(t)
    /\ mounted
    /\ o = "dir_open" => iter[t] = None
    /\ pc' = [pc EXCEPT ![t] = IF o = "read_file" THEN "acquire" ELSE "lookup"]
    /\ op' = [op EXCEPT ![t] = o]
    /\ path' = [path EXCEPT ![t] = p]
    /\ SetErrno(t, Ok)
    /\ faulted' = [faulted EXCEPT ![t] = FALSE]
    /\ calls' = calls + 1
    /\ UNCHANGED <<handleVars, inode, status, iter>>

\* Mutant: lock().unwrap(), which panics on a poisoned mutex.
AcquireUnwrap(t) ==
    /\ pc[t] = "acquire"
    /\ holder = None
    /\ IF poisoned
       THEN FailWith(t, "EIO") /\ UNCHANGED holder
       ELSE /\ holder' = t
            /\ pc' = [pc EXCEPT ![t] = "resolve"]
            /\ UNCHANGED <<errno, status>>
    /\ UNCHANGED <<mounted, lastRead, poisoned, op, path, inode, faulted, iter, calls>>

\* resolve_for_read takes the mutex; a poisoned one is taken all the same.
Acquire(t) ==
    /\ pc[t] = "acquire"
    /\ holder = None
    /\ holder' = t
    /\ pc' = [pc EXCEPT ![t] = "resolve"]
    /\ UNCHANGED <<mounted, lastRead, poisoned, op, path, inode, errno, status,
                   faulted, iter, calls>>

Resolved(p, i) == [path |-> p, inode |-> i]

Found(p) == p \in DOMAIN Lookup

\* resolve_for_read: the same path as last time.
ResolveHit(t) ==
    /\ pc[t] = "resolve"
    /\ lastRead # None
    /\ lastRead.path = path[t]
    /\ inode' = [inode EXCEPT ![t] = lastRead.inode]
    /\ holder' = None
    /\ pc' = [pc EXCEPT ![t] = "body"]
    /\ UNCHANGED <<mounted, lastRead, poisoned, op, path, errno, status, faulted,
                   iter, calls>>

\* resolve_for_read: another path is looked up, mutex in hand, and kept.
ResolveMiss(t) ==
    /\ pc[t] = "resolve"
    /\ lastRead # None => lastRead.path # path[t]
    /\ Found(path[t])
    /\ inode' = [inode EXCEPT ![t] = Lookup[path[t]]]
    /\ lastRead' = Resolved(path[t], Lookup[path[t]])
    /\ holder' = None
    /\ pc' = [pc EXCEPT ![t] = "body"]
    /\ UNCHANGED <<mounted, poisoned, op, path, errno, status, faulted, iter, calls>>

\* Mutant: the path is noted before it is looked up, and stays noted when
\* the lookup fails.
ResolveFailsNoted(t, e, fault) ==
    /\ pc[t] = "resolve"
    /\ lastRead # None => lastRead.path # path[t]
    /\ lastRead' = IF lastRead = None THEN None ELSE Resolved(path[t], lastRead.inode)
    /\ holder' = None
    /\ faulted' = [faulted EXCEPT ![t] = fault]
    /\ FailWith(t, e)
    /\ UNCHANGED <<mounted, poisoned, op, path, inode, iter, calls>>

\* resolve_for_read: the lookup fails; what was kept is still kept.
ResolveFails(t, e, fault) ==
    /\ pc[t] = "resolve"
    /\ lastRead # None => lastRead.path # path[t]
    /\ holder' = None
    /\ faulted' = [faulted EXCEPT ![t] = fault]
    /\ FailWith(t, e)
    /\ UNCHANGED <<mounted, lastRead, poisoned, op, path, inode, iter, calls>>

\* Mutant: the panic leaves the mutex locked.
ResolvePanicsLocked(t) ==
    /\ pc[t] = "resolve"
    /\ lastRead # None => lastRead.path # path[t]
    /\ poisoned' = TRUE
    /\ faulted' = [faulted EXCEPT ![t] = TRUE]
    /\ FailWith(t, "EIO")
    /\ UNCHANGED <<mounted, lastRead, holder, op, path, inode, iter, calls>>

\* The lookup panics with the mutex held: unwinding drops the guard, which
\* poisons the mutex, and ffi_guard reports EIO.
ResolvePanics(t) ==
    /\ pc[t] = "resolve"
    /\ lastRead # None => lastRead.path # path[t]
    /\ poisoned' = TRUE
    /\ holder' = None
    /\ faulted' = [faulted EXCEPT ![t] = TRUE]
    /\ FailWith(t, "EIO")
    /\ UNCHANGED <<mounted, lastRead, op, path, inode, iter, calls>>

\* Every other entry point resolves its path on its own.
LookupPath(t) ==
    /\ pc[t] = "lookup"
    /\ Found(path[t])
    /\ inode' = [inode EXCEPT ![t] = Lookup[path[t]]]
    /\ pc' = [pc EXCEPT ![t] = "body"]
    /\ UNCHANGED <<handleVars, op, path, errno, status, faulted, iter, calls>>

\* The lookup's error, or what the rest of the call reports.
CallFails(t, e, fault) ==
    /\ faulted' = [faulted EXCEPT ![t] = fault]
    /\ FailWith(t, e)
    /\ UNCHANGED <<handleVars, op, path, inode, iter, calls>>

LookupFails(t, e, fault) == pc[t] = "lookup" /\ CallFails(t, e, fault)

\* What an entry point reports of an inode, the image being read without a
\* fault: Ok, or the errno it sets.  Damage is one errno, for the errors it gives
\* once the name is resolved, BadMetadata, BadInode and BadDirent, are all EIO
\* (OutOfRange, ERANGE, is beyond an inode that parsed: GeometryHolds).
BodyErrno(o, i) ==
    CASE o = "read_file" -> IF i.kind # "file" THEN "EINVAL"
                            ELSE IF ~i.intact THEN "EIO" ELSE Ok
      [] o \in {"stat", "stat_ino"} -> IF ~i.ownerKnown THEN "EIO" ELSE Ok
      [] o = "dir_open"  -> IF i.kind # "dir" THEN "ENOTDIR"
                            ELSE IF ~i.intact THEN "EIO" ELSE Ok
      [] o = "readlink"  -> IF i.kind # "link" THEN "EINVAL"
                            ELSE IF ~i.targetFits THEN "ERANGE" ELSE Ok
      [] o = "listxattr" -> IF ~i.xattrsIntact THEN "EIO" ELSE Ok
      [] o = "getxattr"  -> IF ~i.xattrsIntact THEN "EIO"
                            ELSE IF ~i.hasXattr THEN "ENOENT" ELSE Ok

NewIter(i) == [entries |-> i.entries, position |-> 0]

\* The call succeeds; dir_open hands out an iterator that owns its entries.
BodyOk(t) ==
    /\ pc[t] = "body"
    /\ BodyErrno(op[t], inode[t]) = Ok
    /\ status' = [status EXCEPT ![t] = "ok"]
    /\ pc' = [pc EXCEPT ![t] = "idle"]
    /\ iter' = IF op[t] = "dir_open" THEN [iter EXCEPT ![t] = NewIter(inode[t])] ELSE iter
    /\ UNCHANGED <<handleVars, op, path, inode, errno, faulted, calls>>

BodyFails(t) ==
    /\ pc[t] = "body"
    /\ BodyErrno(op[t], inode[t]) # Ok
    /\ CallFails(t, BodyErrno(op[t], inode[t]), FALSE)

\* The device fails, or the body panics and ffi_guard catches it: EIO.
BodyFaults(t) == pc[t] = "body" /\ CallFails(t, "EIO", TRUE)

\* fs_squashfs_dir_next: the next entry, with no use of mount or error slot.
DirNext(t) ==
    /\ Idle(t)
    /\ iter[t] # None
    /\ iter[t].position < Len(iter[t].entries)
    /\ iter' = [iter EXCEPT ![t].position = @ + 1]
    /\ calls' = calls + 1
    /\ UNCHANGED <<handleVars, pc, op, path, inode, errno, status, faulted>>

\* fs_squashfs_dir_close.
DirClose(t) ==
    /\ Idle(t)
    /\ iter[t] # None
    /\ iter' = [iter EXCEPT ![t] = None]
    /\ calls' = calls + 1
    /\ UNCHANGED <<handleVars, pc, op, path, inode, errno, status, faulted>>

\* The steps of a call in progress.
Step(t) ==
    \/ Acquire(t)
    \/ ResolveHit(t)
    \/ ResolveMiss(t)
    \/ path[t] \in DOMAIN Unresolved /\ ResolveFails(t, Unresolved[path[t]], FALSE)
    \/ ResolveFails(t, "EIO", TRUE)
    \/ ResolvePanics(t)
    \/ LookupPath(t)
    \/ path[t] \in DOMAIN Unresolved /\ LookupFails(t, Unresolved[path[t]], FALSE)
    \/ LookupFails(t, "EIO", TRUE)
    \/ BodyOk(t)
    \/ BodyFails(t)
    \/ BodyFaults(t)

Next ==
    \E t \in Thread :
        \/ Mount(t)
        \/ \E e \in {"EIO", "EINVAL", "ENOTSUP"} : MountFails(t, e)
        \/ Umount(t)
        \/ Query(t)
        \/ \E o \in NameOp : NullArgument(t, o)
        \/ \E o \in NameOp, p \in Path : Enter(t, o, p)
        \/ pc[t] # "idle" /\ Step(t)
        \/ DirNext(t)
        \/ DirClose(t)

Spec == Init /\ [][Next]_vars

\* A thread in a call keeps running.  The mutex is not a fair one: that a
\* waiting reader gets it rests on the others making finitely many calls.
FairSpec == Spec /\ \A t \in Thread : WF_vars(pc[t] # "idle" /\ Step(t))

-----------------------------------------------------------------------------

Inode == {Lookup[p] : p \in DOMAIN Lookup}

\* last_read_path is right "for the mount's life": whatever failed or
\* panicked before, what is kept for a path is what the path resolves to,
\* and a reader goes on with the file it named and not with the one another
\* thread's read left behind.
ReadsItsOwnFile ==
    /\ lastRead # None => lastRead.inode = Lookup[lastRead.path]
    /\ \A t \in Thread : pc[t] = "body" => inode[t] = Lookup[path[t]]

\* Between calls the thread's errno tells how its last call on the mount
\* ended: non-zero exactly when it failed, whatever other threads met.
ErrnoTellsFailure ==
    \A t \in Thread : pc[t] = "idle" => (errno[t] # Ok <=> status[t] = "failed")

\* A poisoned mutex hurts nobody: a call fails only because the image says
\* so, or because a fault (a NULL pointer, the device, its own panic) hit
\* that very call.
FailsOnlyForCause ==
    \A t \in Thread :
        pc[t] = "idle" /\ status[t] = "failed" /\ ~faulted[t] =>
            (Found(path[t]) => BodyErrno(op[t], Lookup[path[t]]) # Ok)

\* Every call returns.
CallsReturn == \A t \in Thread : pc[t] # "idle" ~> pc[t] = "idle"

=============================================================================
