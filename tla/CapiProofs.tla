----------------------------- MODULE CapiProofs -----------------------------
(***************************************************************************)
(* Proofs about Capi, for any number of threads, names, inodes and calls:  *)
(* the path kept between reads is right, errno tells how a call ended, a   *)
(* call fails only for its own cause, and no thread leaves the mutex held. *)
(***************************************************************************)
EXTENDS Capi, TLAPS

Stages == {"idle", "acquire", "resolve", "lookup", "body"}

\* The per-thread variables are functions of the thread.
Types ==
    /\ pc \in [Thread -> Stages]
    /\ DOMAIN op = Thread
    /\ DOMAIN path = Thread
    /\ DOMAIN inode = Thread
    /\ DOMAIN errno = Thread
    /\ status \in [Thread -> {"ok", "failed"}]
    /\ faulted \in [Thread -> BOOLEAN]

\* The mutex is held by the thread that resolves, and by no other.
HeldWhileResolving == \A t \in Thread : pc[t] = "resolve" <=> holder = t

\* A call in progress has met no error: its slot was cleared on entry.
ErrnoCleared == \A t \in Thread : pc[t] # "idle" => errno[t] = Ok

IInv ==
    /\ Types
    /\ HeldWhileResolving
    /\ ErrnoCleared
    /\ ReadsItsOwnFile
    /\ ErrnoTellsFailure
    /\ FailsOnlyForCause

\* Nothing is kept, held or failed before the first call.
LEMMA InitInv == Init => IInv
<1> SUFFICES ASSUME Init PROVE IInv
  OBVIOUS
<1> USE DEF Init
<1>1. Types
  BY DEF Types, Stages
<1>2. HeldWhileResolving
  BY NamesAssumption DEF HeldWhileResolving
<1>3. ErrnoCleared /\ ErrnoTellsFailure
  BY DEF ErrnoCleared, ErrnoTellsFailure
<1>4. ReadsItsOwnFile /\ FailsOnlyForCause
  BY DEF ReadsItsOwnFile, FailsOnlyForCause
<1> QED
  BY <1>1, <1>2, <1>3, <1>4 DEF IInv

\* Calls that only enter, leave or never resolve anything.
LEMMA CallKeeps ==
    ASSUME IInv, NEW t \in Thread,
           \/ Mount(t)
           \/ \E e \in {"EIO", "EINVAL", "ENOTSUP"} : MountFails(t, e)
           \/ Umount(t)
           \/ Query(t)
           \/ \E o \in NameOp : NullArgument(t, o)
           \/ \E o \in NameOp, p \in Path : Enter(t, o, p)
           \/ DirNext(t)
           \/ DirClose(t)
    PROVE  IInv'
<1> USE DEF IInv, Types, Stages, HeldWhileResolving, ErrnoCleared,
            ReadsItsOwnFile, ErrnoTellsFailure, FailsOnlyForCause, Idle, SetErrno, handleVars
<1>1. CASE Mount(t)
  BY <1>1 DEF Mount
<1>2. ASSUME NEW e \in {"EIO", "EINVAL", "ENOTSUP"}, MountFails(t, e) PROVE IInv'
  BY <1>2 DEF MountFails, FailWith, Ok
<1>3. CASE Umount(t)
  BY <1>3 DEF Umount
<1>4. CASE Query(t)
  BY <1>4 DEF Query
<1>5. ASSUME NEW o \in NameOp, NullArgument(t, o) PROVE IInv'
  BY <1>5 DEF NullArgument, FailWith, Ok
<1>6. ASSUME NEW o \in NameOp, NEW p \in Path, Enter(t, o, p) PROVE IInv'
  BY <1>6 DEF Enter
<1>7. CASE DirNext(t)
  BY <1>7 DEF DirNext
<1>8. CASE DirClose(t)
  BY <1>8 DEF DirClose
<1> QED
  BY <1>1, <1>2, <1>3, <1>4, <1>5, <1>6, <1>7, <1>8

\* The steps of resolve_for_read, with the mutex: whatever path was kept is
\* right, so a hit is what a lookup would find, and every way out frees it.
LEMMA ResolveKeeps ==
    ASSUME IInv, NEW t \in Thread,
           \/ Acquire(t)
           \/ ResolveHit(t)
           \/ ResolveMiss(t)
           \/ path[t] \in DOMAIN Unresolved /\ ResolveFails(t, Unresolved[path[t]], FALSE)
           \/ ResolveFails(t, "EIO", TRUE)
           \/ ResolvePanics(t)
    PROVE  IInv'
<1> USE NamesAssumption
    DEF IInv, Types, Stages, HeldWhileResolving, ErrnoCleared,
        ReadsItsOwnFile, ErrnoTellsFailure, FailsOnlyForCause
<1>1. CASE Acquire(t)
  BY <1>1 DEF Acquire
<1>2. CASE ResolveHit(t)
  BY <1>2 DEF ResolveHit
<1>3. CASE ResolveMiss(t)
  BY <1>3 DEF ResolveMiss, Resolved
<1>4. CASE path[t] \in DOMAIN Unresolved /\ ResolveFails(t, Unresolved[path[t]], FALSE)
  BY <1>4 DEF ResolveFails, FailWith, SetErrno, Found
<1>5. CASE ResolveFails(t, "EIO", TRUE)
  BY <1>5 DEF ResolveFails, FailWith, SetErrno, Ok
<1>6. CASE ResolvePanics(t)
  BY <1>6 DEF ResolvePanics, FailWith, SetErrno, Ok
<1> QED
  BY <1>1, <1>2, <1>3, <1>4, <1>5, <1>6

\* The other entry points' lookup, and the rest of every call: what it
\* reports, it reports of the inode its own path resolves to.
LEMMA BodyKeeps ==
    ASSUME IInv, NEW t \in Thread,
           \/ LookupPath(t)
           \/ path[t] \in DOMAIN Unresolved /\ LookupFails(t, Unresolved[path[t]], FALSE)
           \/ LookupFails(t, "EIO", TRUE)
           \/ BodyOk(t)
           \/ BodyFails(t)
           \/ BodyFaults(t)
    PROVE  IInv'
<1> USE NamesAssumption
    DEF IInv, Types, Stages, HeldWhileResolving, ErrnoCleared,
        ReadsItsOwnFile, ErrnoTellsFailure, FailsOnlyForCause, handleVars
<1>1. CASE LookupPath(t)
  BY <1>1 DEF LookupPath
<1>2. CASE path[t] \in DOMAIN Unresolved /\ LookupFails(t, Unresolved[path[t]], FALSE)
  BY <1>2 DEF LookupFails, CallFails, FailWith, SetErrno, Found
<1>3. CASE LookupFails(t, "EIO", TRUE)
  BY <1>3 DEF LookupFails, CallFails, FailWith, SetErrno, Ok
<1>4. CASE BodyOk(t)
  BY <1>4 DEF BodyOk
<1>5. CASE BodyFails(t)
  BY <1>5 DEF BodyFails, CallFails, FailWith, SetErrno
<1>6. CASE BodyFaults(t)
  BY <1>6 DEF BodyFaults, CallFails, FailWith, SetErrno, Ok
<1> QED
  BY <1>1, <1>2, <1>3, <1>4, <1>5, <1>6

\* Every step of every thread keeps all of it.
LEMMA NextInv == IInv /\ [Next]_vars => IInv'
<1> SUFFICES ASSUME IInv, [Next]_vars PROVE IInv'
  OBVIOUS
<1>1. CASE UNCHANGED vars
  BY <1>1 DEF vars, handleVars, IInv, Types, HeldWhileResolving, ErrnoCleared,
              ReadsItsOwnFile, ErrnoTellsFailure, FailsOnlyForCause
<1>2. CASE Next
  <2>1. PICK t \in Thread :
           \/ Mount(t)
           \/ \E e \in {"EIO", "EINVAL", "ENOTSUP"} : MountFails(t, e)
           \/ Umount(t)
           \/ Query(t)
           \/ \E o \in NameOp : NullArgument(t, o)
           \/ \E o \in NameOp, p \in Path : Enter(t, o, p)
           \/ pc[t] # "idle" /\ Step(t)
           \/ DirNext(t)
           \/ DirClose(t)
    BY <1>2 DEF Next
  <2>2. CASE Step(t)
    BY <2>2, ResolveKeeps, BodyKeeps DEF Step
  <2> QED
    BY <2>1, <2>2, CallKeeps
<1> QED
  BY <1>1, <1>2

\* `last_read_path` is right for the mount's life, and a reader goes on with
\* the inode of the path it named, whatever other threads resolve, fail to
\* resolve, or panic over meanwhile.
THEOREM OwnFile == Spec => []ReadsItsOwnFile
<1>1. IInv => ReadsItsOwnFile
  BY DEF IInv
<1> QED
  BY <1>1, InitInv, NextInv, PTL DEF Spec

\* A thread at rest finds an errno exactly when its own last call failed.
THEOREM ErrnoTells == Spec => []ErrnoTellsFailure
<1>1. IInv => ErrnoTellsFailure
  BY DEF IInv
<1> QED
  BY <1>1, InitInv, NextInv, PTL DEF Spec

\* No thread's failure, and no mutex that a panic poisoned, makes another
\* thread's call fail.
THEOREM FailsForCause == Spec => []FailsOnlyForCause
<1>1. IInv => FailsOnlyForCause
  BY DEF IInv
<1> QED
  BY <1>1, InitInv, NextInv, PTL DEF Spec

\* One thread resolves at a time, and none leaves resolve_for_read with the
\* mutex, by whichever of its four ways out; so an idle mount is unlocked.
THEOREM MutexReleased == Spec => []HeldWhileResolving
<1>1. IInv => HeldWhileResolving
  BY DEF IInv
<1> QED
  BY <1>1, InitInv, NextInv, PTL DEF Spec

=============================================================================
