------------------------------ MODULE Publish ------------------------------
(***************************************************************************)
(* `fs read` and `fs xattr PATH NAME`: what read and xattr of              *)
(* cli/squashfs/fs.rs write, to standard output or, with `-o FILE`,        *)
(* through FILE.partial and a rename.  Several processes may name one      *)
(* FILE, a process may be killed at any step, and every call to the        *)
(* operating system may fail.                                              *)
(*                                                                         *)
(* The directory FILE is in maps two names to file numbers; a file is the  *)
(* sequence of chunks in it.  An open handle keeps writing into its file   *)
(* whatever happens to the file's name.                                    *)
(***************************************************************************)
EXTENDS Naturals, Sequences, FiniteSets

CONSTANTS
    Process,
    Source,       \* Source[s]: the chunks of the file or the value s
    Stdout,       \* the handle of standard output
    Hole,         \* what a file reads as where nothing was written
    None,         \* no file
    MaxRuns       \* bound: invocations in a behaviour

\* The bound is a number.
ASSUME RunsAssumption == MaxRuns \in Nat

\* Files are numbered; standard output and no file are neither a number nor
\* each other; every source is a sequence of chunks.
ASSUME FilesAssumption ==
    /\ Stdout \notin Nat /\ None \notin Nat /\ Stdout # None
    /\ None \notin DOMAIN Source
    /\ \A s \in DOMAIN Source :
          Source[s] \in Seq({Source[s][i] : i \in DOMAIN Source[s]})

VARIABLES
    files,      \* files[f]: contents of file f, for every file ever made
    partial,    \* the file named FILE.partial, or None
    dest,       \* the file named FILE, or None
    pc,
    verb,       \* verb[p]: the command p runs, "read" or "xattr"
    source,     \* source[p]: the file or the value that p copies
    handle,     \* handle[p]: the file p writes, or Stdout
    offset,     \* offset[p]: chunks p has written
    exit,       \* exit[p]: status of p's last run
    published,  \* history: the source of the last successful rename, or None
    abandoned,  \* history: files whose writer was killed, or failed to rename
                \* or to remove them
    runs

fileVars == <<files, partial, dest>>
publishVars == <<fileVars, pc, verb, source, handle, offset, exit, published, abandoned, runs>>

PublishInit ==
    /\ files = << >>
    /\ partial = None
    /\ dest = None
    /\ pc = [p \in Process |-> "idle"]
    /\ source = [p \in Process |-> None]
    /\ handle = [p \in Process |-> None]
    /\ offset = [p \in Process |-> 0]
    /\ verb = [p \in Process |-> "read"]
    /\ exit = [p \in Process |-> "ok"]
    /\ published = None
    /\ abandoned = {}
    /\ runs = 0

Begin(p, v, s) ==
    /\ pc[p] = "idle"
    /\ runs < MaxRuns
    /\ runs' = runs + 1
    /\ source' = [source EXCEPT ![p] = s]
    /\ offset' = [offset EXCEPT ![p] = 0]
    /\ verb' = [verb EXCEPT ![p] = v]

\* Without `-o`.
ToStdout(p, v, s) ==
    /\ Begin(p, v, s)
    /\ handle' = [handle EXCEPT ![p] = Stdout]
    /\ pc' = [pc EXCEPT ![p] = "copy"]
    /\ UNCHANGED <<fileVars, exit, published, abandoned>>

\* Mutant: FILE itself is opened and written.
ToFileInPlace(p, v, s) ==
    /\ Begin(p, v, s)
    /\ IF dest = None
       THEN files' = Append(files, << >>) /\ dest' = Len(files) + 1
       ELSE files' = [files EXCEPT ![dest] = << >>] /\ UNCHANGED dest
    /\ handle' = [handle EXCEPT ![p] = dest']
    /\ partial' = dest'
    /\ pc' = [pc EXCEPT ![p] = "copy"]
    /\ UNCHANGED <<exit, published, abandoned>>

\* With `-o FILE`: File::create, or fs::write first thing, makes FILE.partial
\* or empties the one that is there.
ToFile(p, v, s) ==
    /\ Begin(p, v, s)
    /\ IF partial = None
       THEN files' = Append(files, << >>) /\ partial' = Len(files) + 1
       ELSE files' = [files EXCEPT ![partial] = << >>] /\ UNCHANGED partial
    /\ handle' = [handle EXCEPT ![p] = partial']
    /\ pc' = [pc EXCEPT ![p] = "copy"]
    /\ abandoned' = abandoned \ {partial'}
    /\ UNCHANGED <<dest, exit, published>>

\* There is no such file or attribute, or `fs read` cannot create
\* FILE.partial.
Refuse(p, v, s) ==
    /\ Begin(p, v, s)
    /\ exit' = [exit EXCEPT ![p] = "failed"]
    /\ UNCHANGED <<fileVars, pc, handle, published, abandoned>>

\* fs::write cannot create FILE.partial, and `fs xattr` removes what is
\* called that all the same.
RefuseCreate(p, s) ==
    /\ Begin(p, "xattr", s)
    /\ exit' = [exit EXCEPT ![p] = "failed"]
    /\ partial' = None
    /\ UNCHANGED <<files, dest, pc, handle, published, abandoned>>

Exit(p, status) ==
    /\ exit' = [exit EXCEPT ![p] = status]
    /\ pc' = [pc EXCEPT ![p] = "idle"]
    /\ handle' = [handle EXCEPT ![p] = None]
    /\ UNCHANGED <<verb, source, offset, runs>>

Remaining(p) == offset[p] < Len(Source[source[p]])

\* A file with chunk c at position n, and holes before it if it was shorter.
Written(file, n, c) ==
    [i \in 1..(IF n > Len(file) THEN n ELSE Len(file)) |->
        IF i = n THEN c ELSE IF i <= Len(file) THEN file[i] ELSE Hole]

\* The copy loop: a chunk is read from the image, then written.
CopyChunk(p) ==
    LET n == offset[p] + 1 IN
    /\ pc[p] = "copy"
    /\ Remaining(p)
    /\ files' = IF handle[p] = Stdout THEN files
                ELSE [files EXCEPT ![handle[p]] = Written(@, n, Source[source[p]][n])]
    /\ offset' = [offset EXCEPT ![p] = n]
    /\ UNCHANGED <<partial, dest, pc, verb, source, handle, exit, published, abandoned, runs>>

\* Mutant: the partial file of a failed copy is left behind.
CopyFailsLeaving(p, removed) ==
    /\ pc[p] = "copy"
    /\ Exit(p, "failed")
    /\ UNCHANGED <<fileVars, published, abandoned>>

\* The image cannot be read, the chunk cannot be written, or the flush
\* fails: whatever is called FILE.partial by then is removed, unless that
\* fails too, which nobody hears of.
CopyFails(p, removed) ==
    /\ pc[p] = "copy"
    /\ handle[p] = Stdout => ~removed
    /\ partial' = IF removed THEN None ELSE partial
    /\ abandoned' = IF removed THEN abandoned ELSE abandoned \cup {handle[p]}
    /\ Exit(p, "failed")
    /\ UNCHANGED <<files, dest, published>>

\* Everything is written and flushed.
CopyDone(p) ==
    /\ pc[p] = "copy"
    /\ ~Remaining(p)
    /\ IF handle[p] = Stdout
       THEN Exit(p, "ok")
       ELSE /\ pc' = [pc EXCEPT ![p] = "rename"]
            /\ UNCHANGED <<verb, source, handle, offset, exit, runs>>
    /\ UNCHANGED <<fileVars, published, abandoned>>

\* The rename: whatever is called FILE.partial becomes FILE.
Rename(p) ==
    /\ pc[p] = "rename"
    /\ partial # None
    /\ dest' = partial
    /\ partial' = None
    /\ published' = source[p]
    /\ Exit(p, "ok")
    /\ UNCHANGED <<files, abandoned>>

\* The rename fails, or finds nothing to rename.  `fs read` leaves what is
\* called FILE.partial where it is; `fs xattr` removes it if it can.
RenameFails(p, removed) ==
    /\ pc[p] = "rename"
    /\ verb[p] = "read" => ~removed
    /\ Exit(p, "failed")
    /\ partial' = IF removed THEN None ELSE partial
    /\ abandoned' = IF removed THEN abandoned ELSE abandoned \cup {handle[p]}
    /\ UNCHANGED <<files, dest, published>>

\* The process is killed.
Kill(p) ==
    /\ pc[p] # "idle"
    /\ Exit(p, "killed")
    /\ abandoned' = abandoned \cup {handle[p]}
    /\ UNCHANGED <<fileVars, published>>

PublishStep(p) ==
    \/ CopyChunk(p)
    \/ \E removed \in BOOLEAN : CopyFails(p, removed) \/ RenameFails(p, removed)
    \/ CopyDone(p)
    \/ Rename(p)

PublishNext ==
    \E p \in Process :
        \/ \E s \in DOMAIN Source :
              \/ \E v \in {"read", "xattr"} :
                    ToStdout(p, v, s) \/ ToFile(p, v, s) \/ Refuse(p, v, s)
              \/ RefuseCreate(p, s)
        \/ PublishStep(p)
        \/ Kill(p)

PublishSpec == PublishInit /\ [][PublishNext]_publishVars

-----------------------------------------------------------------------------

\* "`-o FILE` writes `FILE.partial` and renames it, so FILE is never left
\* half written": when every process has ended, a FILE that exists is one of
\* the image's files, whole.
NeverHalfWritten ==
    dest # None /\ (\A p \in Process : pc[p] = "idle") =>
        \E s \in DOMAIN Source : files[dest] = Source[s]

\* With one process at a time, FILE is the file of the last run that
\* published, whatever runs failed or were killed before and since.
DestIsLastPublished ==
    IF published = None THEN dest = None
    ELSE dest # None /\ files[dest] = Source[published]

\* A copy that fails leaves no FILE.partial behind: one that nobody is
\* writing is the leaving of a killed process, of a failed rename or of a
\* failed removal.
FailedCopyCleansUp ==
    partial # None =>
        partial \in abandoned \/ \E p \in Process : handle[p] = partial

=============================================================================
