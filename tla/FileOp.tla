------------------------------- MODULE FileOp -------------------------------
(***************************************************************************)
(* fileop/fileop.bpf.c: file operations are reported by path although the  *)
(* system calls name descriptors.  open is seen at entry, where the path   *)
(* is known, and at exit, where the descriptor is; write at entry and exit *)
(* too; close reports what was written.  The map fd_paths joins them.      *)
(*                                                                         *)
(* The kernel is the environment: table is the descriptor table of each    *)
(* process, which its threads share, and a call takes effect at a moment   *)
(* between its tracepoints.  A tracepoint program is one step.  Paths are  *)
(* sequences of components, absolute when the first is "/"; truncation at  *)
(* MAX_PATH_SIZE is left out.                                              *)
(***************************************************************************)
EXTENDS Integers, Sequences, FiniteSets, Functions

CONSTANTS
    Threads, Procs,
    Fds,                  \* descriptors
    Programs,             \* what may run: the process proc[t] of each thread,
                          \* the descriptors, the path arguments names[p] that
                          \* process p uses, the kinds of mmap, whether threads
                          \* may use one descriptor at the same time, and a
                          \* bound on the bytes written and not reported
    PathOps,              \* "delete", "rename", "hardlink", "symlink"
    Cwd,                  \* the working directory, which the probe ignores
    NoiseDirs,            \* /proc/, /sys/, ...: is_noise_path
    OverlayDirs,          \* path_is_runtime_overlay_noise
    PrivateDirs,          \* path_is_systemd_private_tmp_noise
    SharedObjects,        \* names path_looks_like_shared_object accepts
    MaxEntries,           \* capacity of fd_paths, an LRU hash
    MaxInflight,          \* capacity of inflight_open and of inflight_write
    MaxDepth,             \* bound on the components of the path of an open
    AT_FDCWD, None

\* A path or a path argument has a component.
Paths == Seq(STRING) \ {<< >>}

\* The values of table, fd_paths, inflight_open and ptr.
FileRecords == [path : Paths, wrote : Nat, excused : BOOLEAN]

EntryRecords == [path : Paths, excuse : SUBSET {"base", "stale", "torn"},
                 write_bytes : Nat, seen : SUBSET {"write", "mmap_read", "mmap_write"}]

OpenRecords == [path : Paths, excuse : SUBSET {"base"}]

\* An element of fd_paths is known by its key.  One that is freed is used again
\* for another key, whatever pointers to it programs still hold.
Freed == <<None, None>>

Elements == (Procs \X Fds) \cup {Freed}

PtrRecords == [at : Elements, fresh : BOOLEAN, sum : Nat]

\* The values of call.
CallRecords ==
    [sys : {"open"}, fds : SUBSET Fds, arg : (Fds \cup {AT_FDCWD}) \X Paths,
     done : BOOLEAN, ret : Fds \cup {None}]
    \cup [sys : {"write"}, fds : {{fd} : fd \in Fds}, arg : Nat, done : BOOLEAN,
          ret : Int \cup {None}]
    \cup [sys : {"close"}, fds : {{fd} : fd \in Fds}, arg : {None}, done : {FALSE},
          ret : {None}]

ASSUME FileOpAssumption ==
    /\ AT_FDCWD \notin Fds
    /\ MaxEntries \in Nat \ {0} /\ MaxInflight \in Nat
    /\ Cwd \in Paths
    /\ \A g \in Programs :
         /\ g.proc \in [Threads -> Procs]
         /\ g.fds \subseteq Fds
         /\ g.names \in [Procs -> SUBSET Paths]
         /\ g.mmaps \subseteq {"mmap_read", "mmap_write"}
         /\ g.shared \in BOOLEAN
         /\ g.bytes \in Nat

ASSUME NoneAssumption ==
    /\ None \notin Fds /\ None \notin Paths
    /\ None \notin FileRecords /\ None \notin EntryRecords /\ None \notin OpenRecords
    /\ None \notin PtrRecords /\ None \notin CallRecords

VARIABLES
    program,         \* the member of Programs that runs
    table,           \* table[p][fd]: the open file, or None
    call,            \* call[t]: the system call of a thread, or None
    ptr,             \* ptr[t]: the element of fd_paths that trace_exit_write
                     \* counts in and the sum to store there, or None
    inflight_open,   \* inflight_open[t]: [path, excuse], or None
    inflight_write,  \* inflight_write[t]: a descriptor, or None
    fd_paths,        \* fd_paths[p][fd]: [path, write_bytes, seen], or None;
                     \* excuse says why it need not be true any more
    evt,             \* the record the last step submitted, or None
    unreported       \* history: bytes a process wrote and no event reported

kernel == <<table, call>>
maps == <<inflight_open, inflight_write, fd_paths, ptr>>
vars == <<program, kernel, maps, evt, unreported>>

(***************************************************************************)
(* A file in table: its real path, the bytes written through this          *)
(* descriptor by writes that inflight_write remembered, and whether the    *)
(* probe is excused from knowing the descriptor (opened by a call it does  *)
(* not trace or drops, or evicted).                                        *)
(***************************************************************************)
File(path, excused) == [path |-> path, wrote |-> 0, excused |-> excused]

ProcOf(t) == program.proc[t]   \* its tgid

IsAbsolute(path) == Head(path) = "/"

BaseName(path) == path[Len(path)]

Under(path, dirs) == IsAbsolute(path) /\ Len(path) > 2 /\ path[2] \in dirs

is_noise_path(path) == Under(path, NoiseDirs)

\* What the kernel resolves an argument to; None if dirfd is not open.
RealPath(p, dirfd, name) ==
    IF IsAbsolute(name) THEN name
    ELSE IF dirfd = AT_FDCWD THEN Cwd \o name
    ELSE IF table[p][dirfd] = None THEN None
    ELSE table[p][dirfd].path \o name

\* Mutant: a key without the tgid.
BaseOfAnyone(p, dirfd) ==
    LET owners == {q \in Procs : fd_paths[q][dirfd] # None} IN
    IF owners = {} THEN None ELSE fd_paths[CHOOSE q \in owners : TRUE][dirfd]

Base(p, dirfd) == fd_paths[p][dirfd]

\* What the probe makes of it.
resolve_dirfd_path(p, dirfd, name) ==
    IF IsAbsolute(name) \/ dirfd = AT_FDCWD \/ Base(p, dirfd) = None THEN name
    ELSE Base(p, dirfd).path \o name

\* The directory of a relative name was released by a call no program saw, so
\* the path may be wrong.
Doubt(p, dirfd, name) ==
    IF resolve_dirfd_path(p, dirfd, name) # name /\ Base(p, dirfd).excuse \ {"torn"} # {}
    THEN {"base"} ELSE {}

Init ==
    /\ program \in Programs
    /\ table = [p \in Procs |-> [fd \in Fds |-> None]]
    /\ call = [t \in Threads |-> None]
    /\ inflight_open = [t \in Threads |-> None]
    /\ inflight_write = [t \in Threads |-> None]
    /\ fd_paths = [p \in Procs |-> [fd \in Fds |-> None]]
    /\ ptr = [t \in Threads |-> None]
    /\ evt = None
    /\ unreported = [p \in Procs |-> 0]

-----------------------------------------------------------------------------
(* The environment's discipline: a thread makes one call at a time, and    *)
(* unless its program is a shared one it uses only descriptors that are    *)
(* open and that no call of another thread is using.                       *)

Uses(u, fd) == call[u] # None /\ fd \in call[u].fds

Quiet(p, fd) == \A t \in Threads : ProcOf(t) = p => ~Uses(t, fd)

MayUse(t, fd) ==
    ~program.shared => table[ProcOf(t)][fd] # None /\ Quiet(ProcOf(t), fd)

MayUseDir(t, dirfd) == dirfd # AT_FDCWD => MayUse(t, dirfd)

Idle(t) == call[t] = None

InCall(t, sys) == ~Idle(t) /\ call[t].sys = sys

\* done: the kernel has done its work, with result ret.
Call(sys, fds, arg) == [sys |-> sys, fds |-> fds, arg |-> arg, done |-> FALSE, ret |-> None]

Enter(t, c) == call' = [call EXCEPT ![t] = c]

Return(t) == call' = [call EXCEPT ![t] = None]

-----------------------------------------------------------------------------
(* Submitting an event: lost when the ring is full. *)

Submit(e) == evt' \in {e, None}

NoEvent == evt' = None

\* submit_fd_event; truth is the file the descriptor really stands for.
submit_fd_event(p, op, entry, bytes, truth) ==
    IF \/ op \in {"mmap_read", "mmap_write"} /\ BaseName(entry.path) \in SharedObjects
       \/ Under(entry.path, OverlayDirs)
    THEN NoEvent
    ELSE Submit([proc |-> p, op |-> op, path |-> entry.path, bytes |-> bytes,
                truth |-> IF entry.excuse = {} THEN truth ELSE None])

Remember(m, t, x) ==
    IF m[t] # None \/ Cardinality({u \in Threads : m[u] # None}) < MaxInflight
    THEN [m EXCEPT ![t] = x] ELSE m

Forget(m, t) == [m EXCEPT ![t] = None]

-----------------------------------------------------------------------------
(* open, openat, openat2 *)

\* remember_open_path; copied: copy_user_path could read the name.
trace_enter_open(t, dirfd, name, copied) ==
    LET p == ProcOf(t)
        path == resolve_dirfd_path(p, dirfd, name) IN
    /\ Idle(t) /\ MayUseDir(t, dirfd)
    /\ Len(path) <= MaxDepth
    /\ Enter(t, Call("open", {dirfd} \ {AT_FDCWD}, <<dirfd, name>>))
    /\ inflight_open' = IF ~copied \/ is_noise_path(path) THEN inflight_open
                        ELSE Remember(inflight_open, t,
                                      [path |-> path, excuse |-> Doubt(p, dirfd, name)])
    /\ NoEvent
    /\ UNCHANGED <<table, inflight_write, fd_paths, ptr, unreported>>

\* The kernel opens the file at a free descriptor, or fails.
KernelOpen(t) ==
    LET p == ProcOf(t)
        path == RealPath(p, call[t].arg[1], call[t].arg[2]) IN
    /\ InCall(t, "open") /\ ~call[t].done
    /\ \/ \E fd \in program.fds :
            /\ path # None
            /\ Len(path) <= MaxDepth
            /\ table[p][fd] = None
            /\ ~program.shared => Quiet(p, fd)
            /\ table' = [table EXCEPT ![p][fd] =
                           File(path, inflight_open[t] = None)]
            /\ Enter(t, [call[t] EXCEPT !.done = TRUE, !.ret = fd, !.fds = @ \cup {fd}])
       \/ /\ Enter(t, [call[t] EXCEPT !.done = TRUE])
          /\ UNCHANGED table
    /\ NoEvent
    /\ UNCHANGED <<maps, unreported>>

Keys == {k \in Procs \X Fds : fd_paths[k[1]][k[2]] # None}

\* to[at]: where a pointer to the element at leads from now on.
Repoint(to) ==
    ptr' = [t \in Threads |->
              IF ptr[t] = None THEN None
              ELSE [ptr[t] EXCEPT !.at = to[@], !.fresh = @ /\ to[ptr[t].at] = ptr[t].at]]

Excuse(gone) ==
    [p \in Procs |-> [fd \in Fds |->
        IF <<p, fd>> \in gone /\ table[p][fd] # None
        THEN [table[p][fd] EXCEPT !.excused = TRUE] ELSE table[p][fd]]]

\* Mutant: a map that refuses new entries when it is full.
UpdateFdPathsHash(p, fd, entry) ==
    /\ fd_paths' = IF <<p, fd>> \in Keys \/ Cardinality(Keys) < MaxEntries
                   THEN [fd_paths EXCEPT ![p][fd] = entry] ELSE fd_paths
    /\ UNCHANGED <<table, ptr>>

\* bpf_map_update_elem on fd_paths: the value goes to a free element, and a
\* full LRU map evicts an entry to have one.
UpdateFdPaths(p, fd, entry) ==
    LET key == <<p, fd>>
        victims == IF key \in Keys \/ Cardinality(Keys) < MaxEntries THEN {{}}
                   ELSE {{k} : k \in Keys} IN
    \E gone \in victims, to \in {key, Freed} :
        /\ fd_paths' = [q \in Procs |-> [f \in Fds |->
                           IF <<q, f>> = key THEN entry
                           ELSE IF <<q, f>> \in gone THEN None ELSE fd_paths[q][f]]]
        /\ table' = Excuse(gone)
        /\ Repoint([at \in Elements |-> IF at = key THEN Freed
                                        ELSE IF at \in gone \cup {Freed} THEN to ELSE at])

\* finalize_open_fd
trace_exit_open(t) ==
    LET p == ProcOf(t)
        fd == call[t].ret
        entry == [path |-> inflight_open[t].path, excuse |-> inflight_open[t].excuse,
                  write_bytes |-> 0, seen |-> {}] IN
    /\ InCall(t, "open") /\ call[t].done
    /\ IF inflight_open[t] # None /\ fd # None
       THEN /\ UpdateFdPaths(p, fd, entry)
            /\ submit_fd_event(p, "open", entry, 0, table[p][fd])
       ELSE NoEvent /\ UNCHANGED <<table, fd_paths, ptr>>
    /\ inflight_open' = Forget(inflight_open, t)
    /\ Return(t)
    /\ UNCHANGED <<inflight_write, unreported>>

-----------------------------------------------------------------------------
(* write *)

trace_write(t, fd, count) ==
    /\ Idle(t) /\ MayUse(t, fd)
    /\ Enter(t, Call("write", {fd}, count))
    /\ inflight_write' = IF count = 0 THEN inflight_write
                         ELSE Remember(inflight_write, t, fd)
    /\ NoEvent
    /\ UNCHANGED <<table, inflight_open, fd_paths, ptr, unreported>>

\* The kernel writes n bytes to the file the descriptor stands for, or fails.
KernelWrite(t, n) ==
    LET p == ProcOf(t)
        fd == CHOOSE f \in call[t].fds : TRUE IN
    /\ InCall(t, "write") /\ ~call[t].done
    /\ n <= call[t].arg
    /\ IF n > 0
       THEN /\ table[p][fd] # None
            /\ unreported[p] + n <= program.bytes
            /\ unreported' = [unreported EXCEPT ![p] = @ + n]
            /\ table' = IF inflight_write[t] = None THEN table
                        ELSE [table EXCEPT ![p][fd].wrote = @ + n]
       ELSE UNCHANGED <<table, unreported>>
    /\ Enter(t, [call[t] EXCEPT !.done = TRUE, !.ret = n])
    /\ NoEvent
    /\ UNCHANGED maps

\* write_bytes is added to without an atomic operation: the program loads it
\* here and stores the sum in StoreWriteBytes.
trace_exit_write(t) ==
    LET p == ProcOf(t)
        fd == inflight_write[t] IN
    /\ InCall(t, "write") /\ call[t].done /\ ptr[t] = None
    /\ IF fd # None /\ call[t].ret > 0 /\ fd_paths[p][fd] # None
       THEN /\ ptr' = [ptr EXCEPT ![t] =
                   [at |-> <<p, fd>>, fresh |-> TRUE,
                    sum |-> fd_paths[p][fd].write_bytes + call[t].ret]]
            /\ UNCHANGED <<call, inflight_write>>
       ELSE /\ inflight_write' = Forget(inflight_write, t)
            /\ Return(t)
            /\ UNCHANGED ptr
    /\ NoEvent
    /\ UNCHANGED <<table, inflight_open, fd_paths, unreported>>

\* The entry that is there now gets the sum, its own or not.
StoreWriteBytes(t) ==
    LET at == ptr[t].at IN
    /\ ptr[t] # None
    /\ fd_paths' =
         IF at = Freed THEN fd_paths
         ELSE [fd_paths EXCEPT
                 ![at[1]][at[2]].write_bytes = ptr[t].sum,
                 ![at[1]][at[2]].seen = @ \cup {"write"},
                 ![at[1]][at[2]].excuse = IF ptr[t].fresh THEN @ ELSE @ \cup {"torn"}]
    /\ ptr' = [ptr EXCEPT ![t] = None]
    /\ inflight_write' = Forget(inflight_write, t)
    /\ Return(t)
    /\ NoEvent
    /\ UNCHANGED <<table, inflight_open, unreported>>

-----------------------------------------------------------------------------
(* mmap and close *)

trace_mmap(t, fd, kind) ==
    LET p == ProcOf(t)
        entry == fd_paths[p][fd] IN
    /\ Idle(t) /\ MayUse(t, fd)
    /\ IF entry # None /\ kind \notin entry.seen
       THEN /\ fd_paths' = [fd_paths EXCEPT ![p][fd].seen = @ \cup {kind}]
            /\ submit_fd_event(p, kind, entry, 0, table[p][fd])
       ELSE NoEvent /\ UNCHANGED fd_paths
    /\ UNCHANGED <<kernel, inflight_open, inflight_write, ptr, unreported>>

\* Mutant: the entry is not deleted.
DropEntryNot(p, fd) == UNCHANGED <<fd_paths, ptr>>

DropEntry(p, fd) ==
    /\ fd_paths' = [fd_paths EXCEPT ![p][fd] = None]
    /\ Repoint([at \in Elements |-> IF at = <<p, fd>> THEN Freed ELSE at])

trace_close(t, fd) ==
    LET p == ProcOf(t)
        entry == fd_paths[p][fd] IN
    /\ Idle(t) /\ MayUse(t, fd)
    /\ Enter(t, Call("close", {fd}, None))
    /\ IF entry # None /\ "write" \in entry.seen
       THEN /\ submit_fd_event(p, "write", entry, entry.write_bytes, table[p][fd])
            /\ unreported' = IF evt' = None \/ "torn" \in entry.excuse THEN unreported
                             ELSE [unreported EXCEPT ![p] = @ - entry.write_bytes]
       ELSE NoEvent /\ UNCHANGED unreported
    /\ DropEntry(p, fd)
    /\ UNCHANGED <<table, inflight_open, inflight_write>>

KernelClose(t) ==
    LET fd == CHOOSE f \in call[t].fds : TRUE IN
    /\ InCall(t, "close")
    /\ table' = [table EXCEPT ![ProcOf(t)][fd] = None]
    /\ Return(t)
    /\ NoEvent
    /\ UNCHANGED <<maps, unreported>>

\* dup, socket, pipe and accept make descriptors that no program traces.
KernelDup(t, fd, new) ==
    LET p == ProcOf(t) IN
    /\ Idle(t) /\ MayUse(t, fd)
    /\ table[p][fd] # None /\ table[p][new] = None
    /\ ~program.shared => Quiet(p, new)
    /\ table' = [table EXCEPT ![p][new] = File(table[p][fd].path, TRUE)]
    /\ NoEvent
    /\ UNCHANGED <<call, maps, unreported>>

\* dup2, close_range and close-on-exec release descriptors that no program
\* sees go: the entry stays.
KernelRelease(t, fd) ==
    LET p == ProcOf(t) IN
    /\ Idle(t) /\ MayUse(t, fd)
    /\ table[p][fd] # None
    /\ table' = [table EXCEPT ![p][fd] = None]
    /\ fd_paths' = IF fd_paths[p][fd] = None THEN fd_paths
                   ELSE [fd_paths EXCEPT ![p][fd].excuse = @ \cup {"stale"}]
    /\ NoEvent
    /\ UNCHANGED <<call, inflight_open, inflight_write, ptr, unreported>>

-----------------------------------------------------------------------------
(* unlinkat, rename*, link*, symlink*: one event at entry.  The first name *)
(* is resolved against dirfd (the link itself for symlinks) and decides    *)
(* whether the event is kept; the other one is copied as it is.  copied:   *)
(* copy_user_path could read both.                                         *)

trace_path(t, op, dirfd, name, copied) ==
    LET p == ProcOf(t)
        path == resolve_dirfd_path(p, dirfd, name)
        real == RealPath(p, dirfd, name) IN
    /\ Idle(t) /\ MayUseDir(t, dirfd)
    /\ IF is_noise_path(path) \/ Under(path, PrivateDirs) \/ ~copied THEN NoEvent
       ELSE Submit([proc |-> p, op |-> op, path |-> path, bytes |-> 0,
                    truth |-> IF real = None \/ Doubt(p, dirfd, name) # {} THEN None
                              ELSE File(real, FALSE)])
    /\ UNCHANGED <<kernel, maps, unreported>>

DirFds == program.fds \cup {AT_FDCWD}

Step ==
    \E t \in Threads :
        \/ \E dirfd \in DirFds, name \in program.names[ProcOf(t)], copied \in BOOLEAN :
            trace_enter_open(t, dirfd, name, copied)
        \/ KernelOpen(t)
        \/ trace_exit_open(t)
        \/ \E fd \in program.fds, count \in (0 .. 1) \cap (0 .. program.bytes) : trace_write(t, fd, count)
        \/ \E n \in -1 .. 1 : KernelWrite(t, n)
        \/ trace_exit_write(t)
        \/ StoreWriteBytes(t)
        \/ \E fd \in program.fds, kind \in program.mmaps : trace_mmap(t, fd, kind)
        \/ \E fd \in program.fds : trace_close(t, fd) \/ KernelRelease(t, fd)
        \/ KernelClose(t)
        \/ \E fd, new \in program.fds : KernelDup(t, fd, new)
        \/ \E op \in PathOps, dirfd \in DirFds, name \in program.names[ProcOf(t)], copied \in BOOLEAN :
            trace_path(t, op, dirfd, name, copied)

Next == Step /\ UNCHANGED program

Spec == Init /\ [][Next]_vars

-----------------------------------------------------------------------------
\* A path the probe reports names the real one, or the end of it when it is
\* relative.
NamesPath(path, real) ==
    IF IsAbsolute(path) THEN path = real
    ELSE \E k \in 0 .. Len(real) : path = SubSeq(real, k + 1, Len(real))

(***************************************************************************)
(* For programs whose threads do not use a descriptor at the same time:    *)
(* from the return of open on, a descriptor has an entry of fd_paths, made *)
(* by that open, that names its file and counts the bytes written through  *)
(* it.  Only opens that were dropped as noise or met a full map, evicted   *)
(* entries and descriptors no traced call made have none, and an entry is  *)
(* wrong only if its element was taken over while a write was being        *)
(* counted in it, or, until the next open at or close of its number, if    *)
(* the descriptor was released by a call no program sees; a name opened    *)
(* relative to such a descriptor is wrong too.                             *)
(***************************************************************************)
EntriesTrue ==
    ~program.shared => \A p \in Procs, fd \in Fds : Quiet(p, fd) =>
        LET entry == fd_paths[p][fd]
            file == table[p][fd] IN
        /\ file # None /\ ~file.excused => entry # None /\ "stale" \notin entry.excuse
        /\ entry # None /\ entry.excuse = {} =>
             /\ file # None
             /\ NamesPath(entry.path, file.path)
             /\ entry.write_bytes = file.wrote
             /\ "write" \in entry.seen <=> entry.write_bytes > 0

(***************************************************************************)
(* For the same programs: the path of every event is that of the file that *)
(* was opened, written, mapped, removed or linked, but for entries that    *)
(* are wrong as above.                                                     *)
(***************************************************************************)
EventsTrue ==
    ~program.shared /\ evt # None =>
        (evt.truth # None => NamesPath(evt.path, evt.truth.path))

(***************************************************************************)
(* However threads race on descriptors: an event is only made of names its *)
(* own process passed to the kernel, although processes share the maps and *)
(* use the same descriptor numbers.                                        *)
(***************************************************************************)
OwnPaths == evt # None => Range(evt.path) \subseteq UNION {Range(name) : name \in program.names[evt.proc]}

(***************************************************************************)
(* However threads race on descriptors and lose each other's additions:    *)
(* the write events of a process never report more bytes than it wrote,    *)
(* unless a sum was stored in an element that had been taken over.         *)
(***************************************************************************)
ReportedBounded == \A p \in Procs : unreported[p] >= 0
=============================================================================
