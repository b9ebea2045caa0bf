-------------------------- MODULE FileOp_races_proof --------------------------
(***************************************************************************)
(* What holds however the threads of a program race on descriptors.        *)
(***************************************************************************)
EXTENDS FileOp_proof, FiniteSetTheorems

\* Leaves are for Zenon; those about numbers and records of several fields name SMT.
USE ZenonT(20)

-----------------------------------------------------------------------------
(* Events name what their own process named. *)

Own(p) == UNION {Range(name) : name \in program.names[p]}

OwnInv ==
    /\ \A p \in Procs, fd \in Fds :
         fd_paths[p][fd] # None => Range(fd_paths[p][fd].path) \subseteq Own(p)
    /\ \A t \in Threads :
         inflight_open[t] # None => Range(inflight_open[t].path) \subseteq Own(ProcOf(t))
    /\ OwnPaths

LEMMA ResolvedOwn ==
    ASSUME Shape, OwnInv, NEW p \in Procs, NEW dirfd \in Fds \cup {AT_FDCWD},
           NEW name \in Paths, name \in program.names[p]
    PROVE  Range(resolve_dirfd_path(p, dirfd, name)) \subseteq Own(p)
<1>1. Range(name) \subseteq Own(p)
  BY DEF Own
<1>2. CASE IsAbsolute(name) \/ dirfd = AT_FDCWD \/ Base(p, dirfd) = None
  BY <1>1, <1>2 DEF resolve_dirfd_path
<1>3. CASE ~(IsAbsolute(name) \/ dirfd = AT_FDCWD \/ Base(p, dirfd) = None)
  <2>1. dirfd \in Fds /\ fd_paths[p][dirfd] # None
    BY <1>3 DEF Base
  <2>2. PICK b : b = fd_paths[p][dirfd].path
    OBVIOUS
  <2>3. b \in Paths /\ Range(b) \subseteq Own(p)
    BY <2>1, <2>2, Values DEF EntryRecords, OwnInv
  <2>4. resolve_dirfd_path(p, dirfd, name) = b \o name
    BY <1>3, <2>2 DEF resolve_dirfd_path, Base
  <2>5. Range(b \o name) \subseteq Range(b) \cup Range(name)
    BY <2>3, Joined
  <2> QED
    BY <1>1, <2>3, <2>4, <2>5
<1> QED
  BY <1>2, <1>3

\* The invariant after a step that took paths only from where they were.
LEMMA OwnKept ==
    ASSUME OwnInv, UNCHANGED program,
           \A q \in Procs, f \in Fds : fd_paths'[q][f] # None =>
               \/ fd_paths[q][f] # None /\ fd_paths'[q][f].path = fd_paths[q][f].path
               \/ Range(fd_paths'[q][f].path) \subseteq Own(q),
           \A u \in Threads : inflight_open'[u] # None =>
               \/ inflight_open'[u] = inflight_open[u]
               \/ Range(inflight_open'[u].path) \subseteq Own(ProcOf(u)),
           evt' # None => Range(evt'.path) \subseteq Own(evt'.proc)
    PROVE  OwnInv'
<1>1. \A q : Own(q)' = Own(q)
  BY DEF Own
<1>2. \A q \in Procs, f \in Fds : fd_paths'[q][f] # None =>
        Range(fd_paths'[q][f].path) \subseteq Own(q)
  BY DEF OwnInv
<1>3. \A u \in Threads : inflight_open'[u] # None =>
        Range(inflight_open'[u].path) \subseteq Own(ProcOf(u))
  BY DEF OwnInv
<1>4. OwnPaths'
  BY DEF OwnPaths, Own
<1>5. \A u \in Threads : ProcOf(u)' = ProcOf(u)
  BY DEF ProcOf
<1>6. \A q \in Procs, f \in Fds : fd_paths'[q][f] # None =>
        Range(fd_paths'[q][f].path) \subseteq Own(q)'
  BY <1>1, <1>2
<1>7. \A u \in Threads : inflight_open'[u] # None =>
        Range(inflight_open'[u].path) \subseteq Own(ProcOf(u))'
  BY <1>3 DEF Own, ProcOf
<1> QED
  BY <1>4, <1>6, <1>7 DEF OwnInv

LEMMA EnterOpenOwn ==
    ASSUME Shape, OwnInv, NEW t \in Threads, NEW dirfd \in Fds \cup {AT_FDCWD}, NEW name \in Paths,
           NEW copied \in BOOLEAN, name \in program.names[ProcOf(t)],
           trace_enter_open(t, dirfd, name, copied), UNCHANGED program
    PROVE  OwnInv'
<1>1. PICK p \in Procs : p = ProcOf(t)
  BY Programs1
<1>2. PICK o : o = [path |-> resolve_dirfd_path(p, dirfd, name), excuse |-> Doubt(p, dirfd, name)]
  OBVIOUS
<1>3. o.path = resolve_dirfd_path(p, dirfd, name) /\ o.excuse = Doubt(p, dirfd, name)
  BY <1>2
<1>4. Range(o.path) \subseteq Own(p)
  BY <1>1, <1>3, ResolvedOwn
<1>5. o \in OpenRecords \cup {None} /\ inflight_open \in [Threads -> OpenRecords \cup {None}]
  BY <1>2, Resolved DEF OpenRecords, Shape, TypeOK
<1>6. \A u \in Threads \ {t} : Remember(inflight_open, t, o)[u] = inflight_open[u]
  BY <1>5 DEF Remember
<1>7. Remember(inflight_open, t, o)[t] \in {o, inflight_open[t]}
  BY <1>5 DEF Remember
<1>8. inflight_open' = inflight_open \/ inflight_open' = Remember(inflight_open, t, o)
  BY <1>1, <1>2 DEF trace_enter_open
<1>9. \A u \in Threads : inflight_open'[u] # None =>
        \/ inflight_open'[u] = inflight_open[u]
        \/ Range(inflight_open'[u].path) \subseteq Own(ProcOf(u))
  <2>1. CASE inflight_open' = inflight_open
    BY <2>1
  <2>2. CASE inflight_open' = Remember(inflight_open, t, o)
    <3> SUFFICES ASSUME NEW u \in Threads, inflight_open'[u] # inflight_open[u]
                 PROVE  Range(inflight_open'[u].path) \subseteq Own(ProcOf(u))
      OBVIOUS
    <3>1. u = t /\ inflight_open'[u] = o
      BY <1>6, <1>7, <2>2
    <3> QED
      BY <1>1, <1>4, <3>1
  <2> QED
    BY <1>8, <2>1, <2>2
<1>10. UNCHANGED fd_paths /\ evt' = None
  BY DEF trace_enter_open, NoEvent
<1> QED
  BY <1>9, <1>10, OwnKept

LEMMA ExitOpenOwn ==
    ASSUME Shape, OwnInv, NEW t \in Threads, trace_exit_open(t), UNCHANGED program
    PROVE  OwnInv'
<1>1. PICK p \in Procs : p = ProcOf(t)
  BY Programs1
<1>2. inflight_open' = [inflight_open EXCEPT ![t] = None] /\ InCall(t, "open")
  BY DEF trace_exit_open, Forget
<1>3. \A u \in Threads : inflight_open'[u] # None => inflight_open'[u] = inflight_open[u]
  BY <1>2 DEF Shape, TypeOK
<1>4. CASE inflight_open[t] # None /\ call[t].ret # None
  <2> DEFINE entry == [path |-> inflight_open[t].path, excuse |-> inflight_open[t].excuse,
                       write_bytes |-> 0, seen |-> {}]
  <2>1. entry \in EntryRecords /\ entry.path = inflight_open[t].path
    BY <1>4, Values DEF OpenRecords, EntryRecords
  <2>2. call[t].ret \in Fds
    BY <1>2, <1>4, OpenCall
  <2>3. UpdateFdPaths(p, call[t].ret, entry)
        /\ submit_fd_event(p, "open", entry, 0, table[p][call[t].ret])
    BY <1>1, <1>4 DEF trace_exit_open
  <2> HIDE DEF entry
  <2>4. Range(entry.path) \subseteq Own(p)
    BY <1>1, <1>4, <2>1 DEF OwnInv
  <2>5. evt' # None => Range(evt'.path) \subseteq Own(evt'.proc)
    BY <2>3, <2>4, Submitted
  <2>6. PICK fd \in Fds : fd = call[t].ret
    BY <2>2
  <2>7. fd_paths'[p][fd] = entry
    BY <2>1, <2>3, <2>6, UpdateEffect, SMTT(20)
  <2>8. \A q \in Procs, f \in Fds : q # p \/ f # fd =>
          fd_paths'[q][f] = fd_paths[q][f] \/ fd_paths'[q][f] = None
    BY <2>1, <2>3, <2>6, UpdateEffect, SMTT(20)
  <2>9. \A q \in Procs, f \in Fds : fd_paths'[q][f] # None =>
               \/ fd_paths[q][f] # None /\ fd_paths'[q][f].path = fd_paths[q][f].path
               \/ Range(fd_paths'[q][f].path) \subseteq Own(q)
    <3> SUFFICES ASSUME NEW q \in Procs, NEW f \in Fds, fd_paths'[q][f] # None
                 PROVE  \/ fd_paths[q][f] # None /\ fd_paths'[q][f].path = fd_paths[q][f].path
                        \/ Range(fd_paths'[q][f].path) \subseteq Own(q)
      OBVIOUS
    <3>1. CASE q = p /\ f = fd
      BY <2>4, <2>7, <3>1
    <3>2. CASE ~(q = p /\ f = fd)
      BY <2>8, <3>2
    <3> QED
      BY <3>1, <3>2
  <2> QED
    BY <1>3, <2>5, <2>9, OwnKept
<1>5. CASE ~(inflight_open[t] # None /\ call[t].ret # None)
  <2>1. UNCHANGED fd_paths /\ evt' = None
    BY <1>5 DEF trace_exit_open, NoEvent
  <2> QED
    BY <1>3, <2>1, OwnKept
<1> QED
  BY <1>4, <1>5

LEMMA MmapOwn ==
    ASSUME Shape, OwnInv, NEW t \in Threads, NEW fd \in Fds,
           NEW kind \in {"mmap_read", "mmap_write"}, trace_mmap(t, fd, kind), UNCHANGED program
    PROVE  OwnInv'
<1>1. PICK p \in Procs : p = ProcOf(t)
  BY Programs1
<1>2. evt' # None => Range(evt'.path) \subseteq Own(evt'.proc)
  <2> SUFFICES ASSUME evt' # None PROVE Range(evt'.path) \subseteq Own(evt'.proc)
    OBVIOUS
  <2>1. fd_paths[p][fd] # None /\ submit_fd_event(p, kind, fd_paths[p][fd], 0, table[p][fd])
    BY <1>1 DEF trace_mmap, NoEvent
  <2>2. evt'.proc = p /\ evt'.path = fd_paths[p][fd].path
    BY <2>1, Submitted
  <2> QED
    BY <2>1, <2>2 DEF OwnInv
<1>3. \A q \in Procs, f \in Fds : fd_paths'[q][f] # None =>
        fd_paths[q][f] # None /\ fd_paths'[q][f].path = fd_paths[q][f].path
  BY MmapEffect, SMTT(20) DEF Mapped
<1>4. UNCHANGED inflight_open
  BY DEF trace_mmap
<1> QED
  BY <1>2, <1>3, <1>4, OwnKept

LEMMA CloseOwn ==
    ASSUME Shape, OwnInv, NEW t \in Threads, NEW fd \in Fds, trace_close(t, fd), UNCHANGED program
    PROVE  OwnInv'
<1>1. PICK p \in Procs : p = ProcOf(t)
  BY Programs1
<1>2. evt' # None => Range(evt'.path) \subseteq Own(evt'.proc)
  <2> SUFFICES ASSUME evt' # None PROVE Range(evt'.path) \subseteq Own(evt'.proc)
    OBVIOUS
  <2>1. /\ fd_paths[p][fd] # None
        /\ submit_fd_event(p, "write", fd_paths[p][fd], fd_paths[p][fd].write_bytes, table[p][fd])
    BY <1>1 DEF trace_close, NoEvent
  <2>2. evt'.proc = p /\ evt'.path = fd_paths[p][fd].path
    BY <2>1, Submitted
  <2> QED
    BY <2>1, <2>2 DEF OwnInv
<1>3. DropEntry(p, fd) /\ UNCHANGED inflight_open
  BY <1>1 DEF trace_close
<1>4. \A q \in Procs, f \in Fds : fd_paths'[q][f] # None => fd_paths'[q][f] = fd_paths[q][f]
  <2> SUFFICES ASSUME NEW q \in Procs, NEW f \in Fds, fd_paths'[q][f] # None
               PROVE  fd_paths'[q][f] = fd_paths[q][f]
    OBVIOUS
  <2>1. fd_paths'[p][fd] = None
    BY <1>3, DropEffect
  <2>2. q # p \/ f # fd
    BY <2>1
  <2> QED
    BY <1>3, <2>2, DropEffect, SMTT(20)
<1> QED
  BY <1>2, <1>3, <1>4, OwnKept

LEMMA PathOwn ==
    ASSUME Shape, OwnInv, NEW t \in Threads, NEW op, NEW dirfd \in Fds \cup {AT_FDCWD},
           NEW name \in Paths, NEW copied \in BOOLEAN, name \in program.names[ProcOf(t)],
           trace_path(t, op, dirfd, name, copied), UNCHANGED program
    PROVE  OwnInv'
<1>1. PICK p \in Procs : p = ProcOf(t)
  BY Programs1
<1>2. Range(resolve_dirfd_path(p, dirfd, name)) \subseteq Own(p)
  BY <1>1, ResolvedOwn
<1>3. evt' # None => evt'.proc = p /\ evt'.path = resolve_dirfd_path(p, dirfd, name)
  <2>1. PICK truth : truth = IF RealPath(p, dirfd, name) = None \/ Doubt(p, dirfd, name) # {} THEN None
                             ELSE File(RealPath(p, dirfd, name), FALSE)
    OBVIOUS
  <2>2. evt' \in {[proc |-> p, op |-> op, path |-> resolve_dirfd_path(p, dirfd, name), bytes |-> 0,
                   truth |-> truth], None}
    BY <1>1, <2>1 DEF trace_path, NoEvent, Submit
  <2> QED
    BY <2>2, SMTT(20)
<1>4. UNCHANGED <<fd_paths, inflight_open>>
  BY DEF trace_path, maps
<1> QED
  BY <1>2, <1>3, <1>4, OwnKept

LEMMA StoreOwn ==
    ASSUME Shape, OwnInv, NEW t \in Threads, StoreWriteBytes(t), UNCHANGED program
    PROVE  OwnInv'
<1>1. UNCHANGED inflight_open /\ evt' = None
  BY DEF StoreWriteBytes, NoEvent
<1>2. \A q \in Procs, f \in Fds :
        IF ptr[t].at = <<q, f>> THEN Stored(fd_paths[q][f], fd_paths'[q][f], ptr[t])
        ELSE fd_paths'[q][f] = fd_paths[q][f]
  BY StoreEffect
<1>3. \A q \in Procs, f \in Fds : fd_paths'[q][f] # None =>
        fd_paths[q][f] # None /\ fd_paths'[q][f].path = fd_paths[q][f].path
  BY <1>2 DEF Stored
<1> QED
  BY <1>1, <1>3, OwnKept

LEMMA ReleaseOwn ==
    ASSUME Shape, OwnInv, NEW t \in Threads, NEW fd \in Fds, KernelRelease(t, fd),
           UNCHANGED program
    PROVE  OwnInv'
<1>1. UNCHANGED inflight_open /\ evt' = None
  BY DEF KernelRelease, NoEvent
<1>2. \A q \in Procs, f \in Fds : fd_paths'[q][f] # None =>
        fd_paths[q][f] # None /\ fd_paths'[q][f].path = fd_paths[q][f].path
  BY KernelReleaseEffect, SMTT(20) DEF Staled
<1> QED
  BY <1>1, <1>2, OwnKept

LEMMA NextOwn == Shape /\ OwnInv /\ [Next]_vars => OwnInv'
<1> SUFFICES ASSUME Shape, OwnInv, [Next]_vars
             PROVE  OwnInv'
  OBVIOUS
<1>1. ASSUME UNCHANGED <<program, fd_paths, inflight_open>>, evt' = None
      PROVE  OwnInv'
  BY <1>1, OwnKept
<1>2. CASE Next
  <2>1. UNCHANGED program
    BY <1>2 DEF Next
  <2>2. PICK t \in Threads :
             \/ \E dirfd \in Fds \cup {AT_FDCWD}, name \in Paths, copied \in BOOLEAN :
                  name \in program.names[ProcOf(t)] /\ trace_enter_open(t, dirfd, name, copied)
             \/ KernelOpen(t)
             \/ trace_exit_open(t)
             \/ \E fd \in Fds, count \in Nat : trace_write(t, fd, count)
             \/ \E n \in -1 .. 1 : KernelWrite(t, n)
             \/ trace_exit_write(t)
             \/ StoreWriteBytes(t)
             \/ \E fd \in Fds, kind \in {"mmap_read", "mmap_write"} : trace_mmap(t, fd, kind)
             \/ \E fd \in Fds : trace_close(t, fd)
             \/ \E fd \in Fds : KernelRelease(t, fd)
             \/ KernelClose(t)
             \/ \E fd, new \in Fds : KernelDup(t, fd, new)
             \/ \E op \in PathOps, dirfd \in Fds \cup {AT_FDCWD}, name \in Paths, copied \in BOOLEAN :
                  /\ name \in program.names[ProcOf(t)]
                  /\ trace_path(t, op, dirfd, name, copied)
    BY <1>2, Steps
  <2>3. CASE \/ KernelOpen(t)
             \/ \E fd \in Fds, count \in Nat : trace_write(t, fd, count)
             \/ \E n \in -1 .. 1 : KernelWrite(t, n)
             \/ trace_exit_write(t)
             \/ KernelClose(t)
             \/ \E fd, new \in Fds : KernelDup(t, fd, new)
    <3>1. UNCHANGED <<fd_paths, inflight_open>> /\ evt' = None
      BY <2>3, Zenon DEF KernelOpen, trace_write, KernelWrite, trace_exit_write, KernelClose, KernelDup,
         maps, NoEvent
    <3> QED
      BY <1>1, <2>1, <3>1
  <2> QED
    BY <2>1, <2>2, <2>3, EnterOpenOwn, ExitOpenOwn, StoreOwn, MmapOwn, CloseOwn, ReleaseOwn,
       PathOwn, ZenonT(60)
<1>3. CASE UNCHANGED vars
  <2>1. UNCHANGED <<program, fd_paths, inflight_open, evt>>
    BY <1>3 DEF vars, maps
  <2> QED
    BY <2>1 DEF OwnInv, OwnPaths, Own, ProcOf
<1> QED
  BY <1>2, <1>3

\* OwnPaths for any programs: whatever the threads of all processes do to one
\* another's descriptors and whatever the shared maps evict, the path of an event
\* is put together from names that the event's own process passed to open,
\* unlink, rename or link.
THEOREM OwnPathsTheorem == Spec => []OwnPaths
<1>1. Init => OwnInv
  BY SMTT(20) DEF Init, OwnInv, OwnPaths
<1>2. OwnInv => OwnPaths
  BY DEF OwnInv
<1> QED
  BY <1>1, <1>2, InitShape, NextShape, NextOwn, PTL DEF Spec

-----------------------------------------------------------------------------
(* No event reports bytes that were not written.  The bytes a process wrote *)
(* and no event reported are tokens, each labelled with who may still count *)
(* or report it: the thread whose write put it there, then the descriptor.  *)

Labels == ({"fd"} \X Fds) \cup ({"thread"} \X Threads)

Share(U, L, x) == {u \in U : L[u] = x}

LEMMA ShareFinite ==
    ASSUME NEW U, NEW L, NEW x, IsFiniteSet(U)
    PROVE  IsFiniteSet(Share(U, L, x)) /\ Cardinality(Share(U, L, x)) \in Nat
<1>1. Share(U, L, x) \in SUBSET U
  BY DEF Share
<1>2. IsFiniteSet(Share(U, L, x))
  BY <1>1, FS_Subset
<1> QED
  BY <1>2, FS_CardinalityType

LEMMA TokenAdded ==
    ASSUME NEW U, IsFiniteSet(U), NEW L \in [U -> Labels], NEW x \in Labels
    PROVE  \E V, M :
             /\ IsFiniteSet(V) /\ Cardinality(V) = Cardinality(U) + 1
             /\ M \in [V -> Labels]
             /\ Cardinality(Share(V, M, x)) >= 1
             /\ \A y \in Labels : Cardinality(Share(U, L, y)) <= Cardinality(Share(V, M, y))
<1>1. PICK z : z \notin U
  <2>1. {y \in U : y \notin y} \notin U
    BY SMTT(20)
  <2> QED
    BY <2>1
<1>2. PICK V : V = U \cup {z}
  OBVIOUS
<1>3. PICK M : M = [u \in V |-> IF u = z THEN x ELSE L[u]]
  OBVIOUS
<1>4. IsFiniteSet(V) /\ Cardinality(V) = Cardinality(U) + 1
  BY <1>1, <1>2, FS_AddElement
<1>5. M \in [V -> Labels]
  BY <1>2, <1>3
<1>6. \A y \in Labels : Share(U, L, y) \subseteq Share(V, M, y)
  BY <1>1, <1>2, <1>3 DEF Share
<1>7. {z} \subseteq Share(V, M, x)
  BY <1>2, <1>3 DEF Share
<1>8. \A y \in Labels : IsFiniteSet(Share(V, M, y))
  BY <1>4, ShareFinite
<1>9. \A y \in Labels : Cardinality(Share(U, L, y)) <= Cardinality(Share(V, M, y))
  BY <1>6, <1>8, FS_Subset
<1>10. Cardinality(Share(V, M, x)) >= 1
  <2>1. {z} \in SUBSET Share(V, M, x) /\ IsFiniteSet(Share(V, M, x))
    BY <1>7, <1>8
  <2>2. Cardinality({z}) <= Cardinality(Share(V, M, x))
    BY <2>1, FS_Subset
  <2>3. Cardinality({z}) = 1
    BY FS_Singleton
  <2>4. Cardinality(Share(V, M, x)) \in Nat
    BY <1>4, ShareFinite
  <2> QED
    BY <2>2, <2>3, <2>4
<1> QED
  BY <1>4, <1>5, <1>9, <1>10

LEMMA TokensMoved ==
    ASSUME NEW U, IsFiniteSet(U), NEW L \in [U -> Labels], NEW x \in Labels, NEW y \in Labels, x # y
    PROVE  \E M \in [U -> Labels] :
             /\ Cardinality(Share(U, M, y)) =
                  Cardinality(Share(U, L, y)) + Cardinality(Share(U, L, x))
             /\ \A w \in Labels : w # x /\ w # y => Share(U, M, w) = Share(U, L, w)
<1>1. PICK M : M = [u \in U |-> IF L[u] = x THEN y ELSE L[u]]
  OBVIOUS
<1>2. M \in [U -> Labels]
  BY <1>1
<1>3. Share(U, M, y) = Share(U, L, y) \cup Share(U, L, x)
  BY <1>1 DEF Share
<1>4. Share(U, L, y) \cap Share(U, L, x) = {}
  BY DEF Share
<1>5. IsFiniteSet(Share(U, L, x)) /\ IsFiniteSet(Share(U, L, y))
      /\ Cardinality(Share(U, L, x)) \in Nat /\ Cardinality(Share(U, L, y)) \in Nat
  BY ShareFinite
<1>6. Cardinality(Share(U, L, y) \cap Share(U, L, x)) = 0
  BY <1>4, FS_EmptySet
<1>7. Cardinality(Share(U, L, y) \cup Share(U, L, x)) =
        Cardinality(Share(U, L, y)) + Cardinality(Share(U, L, x))
        - Cardinality(Share(U, L, y) \cap Share(U, L, x))
  BY <1>5, FS_Union
<1>8. Cardinality(Share(U, M, y)) = Cardinality(Share(U, L, y)) + Cardinality(Share(U, L, x))
  BY <1>3, <1>5, <1>6, <1>7, SMTT(20)
<1>9. \A w \in Labels : w # x /\ w # y => Share(U, M, w) = Share(U, L, w)
  BY <1>1 DEF Share
<1> QED
  BY <1>2, <1>8, <1>9

LEMMA TokensSpent ==
    ASSUME NEW U, IsFiniteSet(U), NEW L \in [U -> Labels], NEW x \in Labels
    PROVE  \E V, M :
             /\ IsFiniteSet(V)
             /\ Cardinality(V) + Cardinality(Share(U, L, x)) = Cardinality(U)
             /\ M \in [V -> Labels]
             /\ \A y \in Labels : y # x => Cardinality(Share(V, M, y)) = Cardinality(Share(U, L, y))
<1>1. PICK V : V = U \ Share(U, L, x)
  OBVIOUS
<1>2. PICK M : M = [u \in V |-> L[u]]
  OBVIOUS
<1>3. U \cap Share(U, L, x) = Share(U, L, x)
  BY DEF Share
<1>4. IsFiniteSet(V) /\ Cardinality(V) = Cardinality(U) - Cardinality(Share(U, L, x))
  BY <1>1, <1>3, FS_Difference
<1>5. M \in [V -> Labels]
  BY <1>1, <1>2
<1>5a. Cardinality(V) + Cardinality(Share(U, L, x)) = Cardinality(U)
  BY <1>4, ShareFinite, FS_CardinalityType, SMTT(20)
<1>6. \A y \in Labels : y # x => Share(V, M, y) = Share(U, L, y)
  BY <1>1, <1>2 DEF Share
<1> QED
  BY <1>4, <1>5, <1>5a, <1>6

\* b bytes are counted in an entry, or will be by a pointer to it.
FdClaim(p, fd, b) ==
    /\ fd_paths[p][fd] # None /\ "torn" \notin fd_paths[p][fd].excuse
    /\ \/ b = fd_paths[p][fd].write_bytes
       \/ \E u \in Threads :
            ptr[u] # None /\ ptr[u].fresh /\ ptr[u].at = <<p, fd>> /\ b = ptr[u].sum

\* b bytes were written by a call that has not been counted.
ThreadClaim(p, t, b) ==
    /\ ProcOf(t) = p
    /\ call[t] # None /\ call[t].sys = "write" /\ call[t].done
    /\ ptr[t] = None /\ inflight_write[t] # None
    /\ b = call[t].ret

Ledger(p, U, L) ==
    /\ IsFiniteSet(U) /\ Cardinality(U) <= unreported[p]
    /\ L \in [U -> Labels]
    /\ \A fd \in Fds, b \in Int : FdClaim(p, fd, b) => b <= Cardinality(Share(U, L, <<"fd", fd>>))
    /\ \A t \in Threads, b \in Int :
         ThreadClaim(p, t, b) => b <= Cardinality(Share(U, L, <<"thread", t>>))

\* The claims on what a process wrote are covered, each by bytes of its own.
Ledgers == \A p \in Procs : \E U, L : Ledger(p, U, L)

LEMMA InitLedgers == Init => Ledgers
<1> SUFFICES ASSUME Init, NEW p \in Procs
             PROVE  \E U, L : Ledger(p, U, L)
  BY DEF Ledgers
<1>1. PICK L : L = [u \in {} |-> <<"fd", None>>]
  OBVIOUS
<1>2. IsFiniteSet({}) /\ Cardinality({}) = 0 /\ L \in [{} -> Labels]
  BY <1>1, FS_EmptySet
<1>3. \A fd \in Fds, b \in Int : ~FdClaim(p, fd, b)
  BY DEF FdClaim, Init
<1>4. \A t \in Threads, b \in Int : ~ThreadClaim(p, t, b)
  BY DEF ThreadClaim, Init
<1>5. unreported[p] = 0
  BY DEF Init
<1>6. Ledger(p, {}, L)
  BY <1>2, <1>3, <1>4, <1>5, SMTT(20) DEF Ledger
<1> QED
  BY <1>6

\* A step that makes no claim and reports nothing.
LEMMA LedgerKept ==
    ASSUME NEW p \in Procs, NEW U, NEW L, Ledger(p, U, L), unreported'[p] = unreported[p],
           \A fd \in Fds, b \in Int : FdClaim(p, fd, b)' => FdClaim(p, fd, b) \/ b <= 0,
           \A t \in Threads, b \in Int : ThreadClaim(p, t, b)' => ThreadClaim(p, t, b) \/ b <= 0
    PROVE  Ledger(p, U, L)'
<1>1. IsFiniteSet(U) /\ L \in [U -> Labels] /\ Cardinality(U) <= unreported'[p]
  BY DEF Ledger
<1>2. \A x : Cardinality(Share(U, L, x)) \in Nat
  BY <1>1, ShareFinite
<1>3. ASSUME NEW fd \in Fds, NEW b \in Int, FdClaim(p, fd, b)'
      PROVE  b <= Cardinality(Share(U, L, <<"fd", fd>>))
  <2>1. CASE FdClaim(p, fd, b)
    BY <2>1 DEF Ledger
  <2>2. CASE b <= 0
    BY <1>2, <2>2, SMTT(20)
  <2> QED
    BY <1>3, <2>1, <2>2
<1>4. ASSUME NEW t \in Threads, NEW b \in Int, ThreadClaim(p, t, b)'
      PROVE  b <= Cardinality(Share(U, L, <<"thread", t>>))
  <2>1. CASE ThreadClaim(p, t, b)
    BY <2>1 DEF Ledger
  <2>2. CASE b <= 0
    BY <1>2, <2>2, SMTT(20)
  <2> QED
    BY <1>4, <2>1, <2>2
<1> QED
  BY <1>1, <1>3, <1>4 DEF Ledger

LEMMA LedgersKept ==
    ASSUME Ledgers, UNCHANGED unreported,
           \A p \in Procs, fd \in Fds, b \in Int : FdClaim(p, fd, b)' => FdClaim(p, fd, b) \/ b <= 0,
           \A p \in Procs, t \in Threads, b \in Int :
               ThreadClaim(p, t, b)' => ThreadClaim(p, t, b) \/ b <= 0
    PROVE  Ledgers'
<1> SUFFICES ASSUME NEW p \in Procs
             PROVE  \E U, L : Ledger(p, U, L)'
  BY DEF Ledgers
<1>1. PICK U, L : Ledger(p, U, L)
  BY DEF Ledgers
<1>2. Ledger(p, U, L)'
  BY <1>1, LedgerKept
<1> QED
  BY <1>2

\* The claims of threads after a step of thread t that leaves it nothing to count.
LEMMA ThreadClaimsKept ==
    ASSUME UNCHANGED program, NEW t \in Threads,
           \A u \in Threads \ {t} :
               /\ call'[u] = call[u] /\ inflight_write'[u] = inflight_write[u]
               /\ ptr'[u] = None => ptr[u] = None,
           ~(call'[t] # None /\ call'[t].sys = "write" /\ call'[t].done /\ ptr'[t] = None)
    PROVE  \A p \in Procs, u \in Threads, b \in Int : ThreadClaim(p, u, b)' => ThreadClaim(p, u, b)
<1> SUFFICES ASSUME NEW p \in Procs, NEW u \in Threads, NEW b \in Int, ThreadClaim(p, u, b)'
             PROVE  ThreadClaim(p, u, b)
  OBVIOUS
<1>1. u # t
  BY DEF ThreadClaim
<1> QED
  BY <1>1 DEF ThreadClaim, ProcOf

\* The claims on entries after a step that counts nothing.
LEMMA FdClaimsKept ==
    ASSUME \A p \in Procs, fd \in Fds :
               fd_paths'[p][fd] # None /\ "torn" \notin fd_paths'[p][fd].excuse =>
                 \/ /\ fd_paths[p][fd] # None /\ "torn" \notin fd_paths[p][fd].excuse
                    /\ fd_paths'[p][fd].write_bytes = fd_paths[p][fd].write_bytes
                 \/ /\ fd_paths'[p][fd].write_bytes = 0
                    /\ \A u \in Threads : ptr'[u] # None /\ ptr'[u].fresh => ptr'[u].at # <<p, fd>>,
           \A u \in Threads : ptr'[u] # None /\ ptr'[u].fresh =>
               /\ ptr[u] # None /\ ptr[u].fresh
               /\ ptr'[u].at = ptr[u].at /\ ptr'[u].sum = ptr[u].sum
    PROVE  \A p \in Procs, fd \in Fds, b \in Int : FdClaim(p, fd, b)' => FdClaim(p, fd, b) \/ b <= 0
<1> SUFFICES ASSUME NEW p \in Procs, NEW fd \in Fds, NEW b \in Int, FdClaim(p, fd, b)'
             PROVE  FdClaim(p, fd, b) \/ b <= 0
  OBVIOUS
<1>1. fd_paths'[p][fd] # None /\ "torn" \notin fd_paths'[p][fd].excuse
  BY DEF FdClaim
<1>2. CASE b = fd_paths'[p][fd].write_bytes
  BY <1>1, <1>2, SMTT(20) DEF FdClaim
<1>3. CASE \E u \in Threads :
             ptr'[u] # None /\ ptr'[u].fresh /\ ptr'[u].at = <<p, fd>> /\ b = ptr'[u].sum
  <2>1. PICK u \in Threads :
          ptr'[u] # None /\ ptr'[u].fresh /\ ptr'[u].at = <<p, fd>> /\ b = ptr'[u].sum
    BY <1>3
  <2>2. ptr[u] # None /\ ptr[u].fresh /\ ptr[u].at = <<p, fd>> /\ b = ptr[u].sum
    BY <2>1
  <2>3. fd_paths[p][fd] # None /\ "torn" \notin fd_paths[p][fd].excuse
    BY <1>1, <2>1
  <2> QED
    BY <2>2, <2>3 DEF FdClaim
<1> QED
  BY <1>2, <1>3 DEF FdClaim

\* Steps that leave entries, pointers and counts alone.
LEMMA QuietLedgers ==
    ASSUME Ledgers, UNCHANGED <<program, fd_paths, ptr, unreported>>, NEW t \in Threads,
           \A u \in Threads \ {t} : call'[u] = call[u] /\ inflight_write'[u] = inflight_write[u],
           ~(call'[t] # None /\ call'[t].sys = "write" /\ call'[t].done /\ ptr'[t] = None)
    PROVE  Ledgers'
<1>1. \A p \in Procs, u \in Threads, b \in Int : ThreadClaim(p, u, b)' => ThreadClaim(p, u, b)
  BY ThreadClaimsKept
<1>2. \A p \in Procs, fd \in Fds, b \in Int : FdClaim(p, fd, b)' => FdClaim(p, fd, b)
  BY DEF FdClaim
<1> QED
  BY <1>1, <1>2, LedgersKept

LEMMA EnterOpenLedgers ==
    ASSUME Shape, Ledgers, NEW t \in Threads, NEW dirfd, NEW name, NEW copied,
           trace_enter_open(t, dirfd, name, copied), UNCHANGED program
    PROVE  Ledgers'
<1>1. PICK c : c = Call("open", {dirfd} \ {AT_FDCWD}, <<dirfd, name>>)
  OBVIOUS
<1>2. c.done = FALSE
  BY <1>1 DEF Call
<1>3. call' = [call EXCEPT ![t] = c] /\ UNCHANGED <<inflight_write, fd_paths, ptr, unreported>>
  BY <1>1 DEF trace_enter_open, Enter
<1>4. call'[t] = c /\ \A u \in Threads \ {t} : call'[u] = call[u]
  BY <1>3 DEF Shape, TypeOK
<1> QED
  BY <1>2, <1>3, <1>4, QuietLedgers

LEMMA KernelOpenLedgers ==
    ASSUME Shape, Ledgers, NEW t \in Threads, KernelOpen(t), UNCHANGED program
    PROVE  Ledgers'
<1>1. InCall(t, "open") /\ UNCHANGED <<inflight_write, fd_paths, ptr, unreported>>
  BY DEF KernelOpen, maps
<1>2. PICK c : call' = [call EXCEPT ![t] = c] /\ c.sys = call[t].sys
  <2>1. call[t] \in [sys : {"open"}, fds : SUBSET Fds, arg : (Fds \cup {AT_FDCWD}) \X Paths,
                     done : BOOLEAN, ret : Fds \cup {None}]
    BY <1>1, OpenCall
  <2>2. CASE \E fd \in program.fds :
               Enter(t, [call[t] EXCEPT !.done = TRUE, !.ret = fd, !.fds = @ \cup {fd}])
    <3>1. PICK fd \in program.fds :
            call' = [call EXCEPT ![t] = [call[t] EXCEPT !.done = TRUE, !.ret = fd, !.fds = @ \cup {fd}]]
      BY <2>2 DEF Enter
    <3>2. [call[t] EXCEPT !.done = TRUE, !.ret = fd, !.fds = @ \cup {fd}].sys = call[t].sys
      BY <2>1
    <3> QED
      BY <3>1, <3>2
  <2>3. CASE Enter(t, [call[t] EXCEPT !.done = TRUE])
    <3>1. [call[t] EXCEPT !.done = TRUE].sys = call[t].sys
      BY <2>1
    <3> QED
      BY <2>3, <3>1 DEF Enter
  <2> QED
    BY <2>2, <2>3 DEF KernelOpen
<1>3. call'[t] = c /\ \A u \in Threads \ {t} : call'[u] = call[u]
  BY <1>2 DEF Shape, TypeOK
<1>4. call'[t].sys = "open"
  BY <1>1, <1>2, <1>3 DEF InCall
<1> QED
  BY <1>1, <1>3, <1>4, QuietLedgers

LEMMA WriteLedgers ==
    ASSUME Shape, Ledgers, NEW t \in Threads, NEW fd \in Fds, NEW count \in Nat,
           trace_write(t, fd, count), UNCHANGED program
    PROVE  Ledgers'
<1>1. PICK c : c = Call("write", {fd}, count)
  OBVIOUS
<1>2. c.done = FALSE
  BY <1>1 DEF Call
<1>3. call' = [call EXCEPT ![t] = c] /\ UNCHANGED <<fd_paths, ptr, unreported>>
  BY <1>1 DEF trace_write, Enter
<1>4. call'[t] = c /\ \A u \in Threads \ {t} : call'[u] = call[u]
  BY <1>3 DEF Shape, TypeOK
<1>5. \A u \in Threads \ {t} : inflight_write'[u] = inflight_write[u]
  <2>1. inflight_write \in [Threads -> Fds \cup {None}]
    BY DEF Shape, TypeOK
  <2>2. inflight_write' \in {inflight_write, Remember(inflight_write, t, fd)}
    BY DEF trace_write
  <2> QED
    BY <2>1, <2>2 DEF Remember
<1> QED
  BY <1>2, <1>3, <1>4, <1>5, QuietLedgers

LEMMA ExitOpenLedgers ==
    ASSUME Shape, Ledgers, NEW t \in Threads, trace_exit_open(t), UNCHANGED program
    PROVE  Ledgers'
<1>1. PICK p \in Procs : p = ProcOf(t)
  BY Programs1
<1>2. InCall(t, "open") /\ call' = [call EXCEPT ![t] = None] /\ UNCHANGED <<inflight_write, unreported>>
  BY DEF trace_exit_open, Return
<1>3. call'[t] = None /\ \A u \in Threads \ {t} : call'[u] = call[u]
  BY <1>2 DEF Shape, TypeOK
<1>4. CASE inflight_open[t] # None /\ call[t].ret # None
  <2> DEFINE entry == [path |-> inflight_open[t].path, excuse |-> inflight_open[t].excuse,
                       write_bytes |-> 0, seen |-> {}]
  <2>1. entry \in EntryRecords /\ entry.write_bytes = 0
    BY <1>4, Values DEF OpenRecords, EntryRecords
  <2>2. PICK fd \in Fds : fd = call[t].ret
    BY <1>2, <1>4, OpenCall
  <2>3. UpdateFdPaths(p, fd, entry)
    BY <1>1, <1>4, <2>2 DEF trace_exit_open
  <2> HIDE DEF entry
  <2>4. fd_paths'[p][fd] = entry
    BY <2>1, <2>3, UpdateEffect, SMTT(20)
  <2>5. \A q \in Procs, f \in Fds : q # p \/ f # fd =>
          fd_paths'[q][f] = fd_paths[q][f] \/ fd_paths'[q][f] = None
    BY <2>1, <2>3, UpdateEffect, SMTT(20)
  <2>6. \A u \in Threads : ptr'[u] = None => ptr[u] = None
    BY <2>1, <2>3, UpdateEffect
  <2>7. \A u \in Threads : ptr'[u] # None /\ ptr'[u].fresh =>
          /\ ptr[u] # None /\ ptr[u].fresh
          /\ ptr'[u].at = ptr[u].at /\ ptr'[u].sum = ptr[u].sum
          /\ ptr'[u].at # <<p, fd>>
    BY <2>1, <2>3, UpdateEffect, SMTT(20)
  <2>8. \A q \in Procs, f \in Fds :
           fd_paths'[q][f] # None /\ "torn" \notin fd_paths'[q][f].excuse =>
             \/ /\ fd_paths[q][f] # None /\ "torn" \notin fd_paths[q][f].excuse
                /\ fd_paths'[q][f].write_bytes = fd_paths[q][f].write_bytes
             \/ /\ fd_paths'[q][f].write_bytes = 0
                /\ \A u \in Threads : ptr'[u] # None /\ ptr'[u].fresh => ptr'[u].at # <<q, f>>
    <3> SUFFICES ASSUME NEW q \in Procs, NEW f \in Fds,
                        fd_paths'[q][f] # None /\ "torn" \notin fd_paths'[q][f].excuse
                 PROVE  \/ /\ fd_paths[q][f] # None /\ "torn" \notin fd_paths[q][f].excuse
                           /\ fd_paths'[q][f].write_bytes = fd_paths[q][f].write_bytes
                        \/ /\ fd_paths'[q][f].write_bytes = 0
                           /\ \A u \in Threads :
                                ptr'[u] # None /\ ptr'[u].fresh => ptr'[u].at # <<q, f>>
      OBVIOUS
    <3>1. CASE q = p /\ f = fd
      BY <2>1, <2>4, <2>7, <3>1
    <3>2. CASE ~(q = p /\ f = fd)
      BY <2>5, <3>2
    <3> QED
      BY <3>1, <3>2
  <2>9. \A q \in Procs, f \in Fds, b \in Int : FdClaim(q, f, b)' => FdClaim(q, f, b) \/ b <= 0
    BY <2>7, <2>8, FdClaimsKept
  <2>10. \A q \in Procs, u \in Threads, b \in Int : ThreadClaim(q, u, b)' => ThreadClaim(q, u, b)
    BY <1>2, <1>3, <2>6, ThreadClaimsKept
  <2> QED
    BY <1>2, <2>9, <2>10, LedgersKept
<1>5. CASE ~(inflight_open[t] # None /\ call[t].ret # None)
  <2>1. UNCHANGED <<fd_paths, ptr>>
    BY <1>5 DEF trace_exit_open
  <2> QED
    BY <1>2, <1>3, <2>1, QuietLedgers
<1> QED
  BY <1>4, <1>5

LEMMA KernelWriteLedgers ==
    ASSUME Shape, Ledgers, NEW t \in Threads, NEW n \in -1 .. 1, KernelWrite(t, n),
           UNCHANGED program
    PROVE  Ledgers'
<1>1. PICK p \in Procs : p = ProcOf(t)
  BY Programs1
<1>2. InCall(t, "write") /\ ~call[t].done /\ UNCHANGED <<inflight_write, fd_paths, ptr>>
  BY DEF KernelWrite, maps
<1>3. PICK c : c = [call[t] EXCEPT !.done = TRUE, !.ret = n]
  OBVIOUS
<1>4. c.ret = n
  BY <1>2, <1>3, WriteCall
<1>5. n \in Int
  BY SMTT(20)
<1>6. call' = [call EXCEPT ![t] = c]
      /\ unreported' = IF n > 0 THEN [unreported EXCEPT ![p] = @ + n] ELSE unreported
  BY <1>1, <1>3, <1>5, KernelWriteEffect
<1>7. call'[t] = c /\ \A u \in Threads \ {t} : call'[u] = call[u]
  BY <1>6 DEF Shape, TypeOK
<1>8. \A q \in Procs, fd \in Fds, b \in Int : FdClaim(q, fd, b)' => FdClaim(q, fd, b)
  BY <1>2 DEF FdClaim
<1>9. \A q \in Procs, u \in Threads, b \in Int :
        ThreadClaim(q, u, b)' => ThreadClaim(q, u, b) \/ (q = p /\ u = t /\ b = n)
  <2> SUFFICES ASSUME NEW q \in Procs, NEW u \in Threads, NEW b \in Int, ThreadClaim(q, u, b)'
               PROVE  ThreadClaim(q, u, b) \/ (q = p /\ u = t /\ b = n)
    OBVIOUS
  <2>1. CASE u = t
    BY <1>1, <1>4, <1>7, <2>1 DEF ThreadClaim, ProcOf
  <2>2. CASE u # t
    BY <1>2, <1>7, <2>2 DEF ThreadClaim, ProcOf
  <2> QED
    BY <2>1, <2>2
<1>10. CASE n > 0
  <2> SUFFICES ASSUME NEW q \in Procs
               PROVE  \E U, L : Ledger(q, U, L)'
    BY DEF Ledgers
  <2>1. PICK U, L : Ledger(q, U, L)
    BY DEF Ledgers
  <2>2. unreported \in [Procs -> Int] /\ n = 1
    BY <1>10, SMTT(20) DEF Shape, TypeOK
  <2>3. CASE q # p
    <3>1. unreported'[q] = unreported[q]
      BY <1>6, <2>2, <2>3
    <3>2. Ledger(q, U, L)'
      BY <1>8, <1>9, <2>1, <2>3, <3>1, LedgerKept
    <3> QED
      BY <3>2
  <2>4. CASE q = p
    <3>1. unreported'[p] = unreported[p] + 1
      BY <1>6, <2>2, SMTT(20)
    <3>2. IsFiniteSet(U) /\ L \in [U -> Labels] /\ <<"thread", t>> \in Labels
      BY <2>1 DEF Ledger, Labels
    <3>3. PICK V, M :
             /\ IsFiniteSet(V) /\ Cardinality(V) = Cardinality(U) + 1
             /\ M \in [V -> Labels]
             /\ Cardinality(Share(V, M, <<"thread", t>>)) >= 1
             /\ \A y \in Labels : Cardinality(Share(U, L, y)) <= Cardinality(Share(V, M, y))
      BY <3>2, TokenAdded
    <3>4. \A y : Cardinality(Share(U, L, y)) \in Nat /\ Cardinality(Share(V, M, y)) \in Nat
      BY <3>2, <3>3, ShareFinite
    <3>5. ASSUME NEW fd \in Fds, NEW b \in Int, FdClaim(p, fd, b)'
          PROVE  b <= Cardinality(Share(V, M, <<"fd", fd>>))
      <4>1. b <= Cardinality(Share(U, L, <<"fd", fd>>))
        BY <1>8, <2>1, <2>4, <3>5 DEF Ledger
      <4>2. Cardinality(Share(U, L, <<"fd", fd>>)) <= Cardinality(Share(V, M, <<"fd", fd>>))
        BY <3>3 DEF Labels
      <4> QED
        BY <3>4, <4>1, <4>2, SMTT(20)
    <3>6. ASSUME NEW u \in Threads, NEW b \in Int, ThreadClaim(p, u, b)'
          PROVE  b <= Cardinality(Share(V, M, <<"thread", u>>))
      <4>1. CASE ThreadClaim(p, u, b)
        <5>1. b <= Cardinality(Share(U, L, <<"thread", u>>))
          BY <2>1, <2>4, <4>1 DEF Ledger
        <5>2. Cardinality(Share(U, L, <<"thread", u>>)) <= Cardinality(Share(V, M, <<"thread", u>>))
          BY <3>3 DEF Labels
        <5> QED
          BY <3>4, <5>1, <5>2, SMTT(20)
      <4>2. CASE u = t /\ b = n
        BY <2>2, <3>3, <4>2
      <4> QED
        BY <1>9, <3>6, <4>1, <4>2
    <3>7. Cardinality(U) \in Nat /\ Cardinality(U) <= unreported[p]
      BY <2>1, <2>4, <3>2, FS_CardinalityType DEF Ledger
    <3>8. Cardinality(V) <= unreported'[p]
      BY <2>2, <3>1, <3>3, <3>7, SMTT(20)
    <3>9. Ledger(p, V, M)'
      BY <3>3, <3>5, <3>6, <3>8 DEF Ledger
    <3> QED
      BY <2>4, <3>9
  <2> QED
    BY <2>3, <2>4
<1>11. CASE ~(n > 0)
  <2>1. UNCHANGED unreported /\ n <= 0
    BY <1>6, <1>11, SMTT(20)
  <2> QED
    BY <1>8, <1>9, <2>1, LedgersKept
<1> QED
  BY <1>10, <1>11

LEMMA ExitWriteLedgers ==
    ASSUME Shape, Ledgers, NEW t \in Threads, trace_exit_write(t), UNCHANGED program
    PROVE  Ledgers'
<1>1. PICK p \in Procs : p = ProcOf(t)
  BY Programs1
<1>2. /\ InCall(t, "write") /\ call[t].done /\ ptr[t] = None /\ call[t].ret \in Int
      /\ UNCHANGED <<table, inflight_open, fd_paths, unreported>>
  BY ExitWriteEffect
<1>3. CASE ptr'[t] # None
  <2>1. /\ inflight_write[t] \in Fds /\ call[t].ret > 0
        /\ fd_paths[p][inflight_write[t]] # None
        /\ \A u \in Threads \ {t} : ptr'[u] = ptr[u]
        /\ ptr'[t].at = <<p, inflight_write[t]>>
        /\ ptr'[t].sum = fd_paths[p][inflight_write[t]].write_bytes + call[t].ret
        /\ UNCHANGED <<call, inflight_write>>
    BY <1>1, <1>2, <1>3, ExitWriteEffect
  <2>2. PICK fd \in Fds : fd = inflight_write[t]
    BY <2>1
  <2>3. PICK b1, b2 : b1 = fd_paths[p][fd].write_bytes /\ b2 = call[t].ret
    OBVIOUS
  <2>4. b1 \in Int /\ b2 \in Int
    BY <1>2, <2>1, <2>2, <2>3, Values, SMTT(20) DEF EntryRecords
  <2>5. ThreadClaim(p, t, b2)
    BY <1>1, <1>2, <2>1, <2>3, NoneAssumption DEF ThreadClaim, InCall, Idle
  <2>6. "torn" \notin fd_paths[p][fd].excuse => FdClaim(p, fd, b1)
    BY <2>1, <2>2, <2>3 DEF FdClaim
  <2>7. \A q \in Procs, u \in Threads, b \in Int :
          ThreadClaim(q, u, b)' => ThreadClaim(q, u, b) /\ u # t
    BY <1>3, <2>1 DEF ThreadClaim, ProcOf
  <2>8. ASSUME NEW q \in Procs, NEW f \in Fds, NEW b \in Int, FdClaim(q, f, b)'
        PROVE  \/ FdClaim(q, f, b)
               \/ q = p /\ f = fd /\ b = b1 + b2 /\ "torn" \notin fd_paths[p][fd].excuse
    <3>1. fd_paths[q][f] # None /\ "torn" \notin fd_paths[q][f].excuse
      BY <1>2, <2>8 DEF FdClaim
    <3>2. CASE b = fd_paths[q][f].write_bytes
      BY <3>1, <3>2 DEF FdClaim
    <3>3. CASE b # fd_paths[q][f].write_bytes
      <4>1. PICK u \in Threads :
              ptr'[u] # None /\ ptr'[u].fresh /\ ptr'[u].at = <<q, f>> /\ b = ptr'[u].sum
        BY <1>2, <2>8, <3>3 DEF FdClaim
      <4>2. CASE u = t
        <5>1. <<q, f>> = <<p, fd>> /\ b = b1 + b2
          BY <2>1, <2>2, <2>3, <4>1, <4>2
        <5> QED
          BY <3>1, <5>1
      <4>3. CASE u # t
        BY <2>1, <3>1, <4>1, <4>3 DEF FdClaim
      <4> QED
        BY <4>2, <4>3
    <3> QED
      BY <3>2, <3>3
  <2> SUFFICES ASSUME NEW q \in Procs
               PROVE  \E U, L : Ledger(q, U, L)'
    BY DEF Ledgers
  <2>9. PICK U, L : Ledger(q, U, L)
    BY DEF Ledgers
  <2>10. CASE q # p
    <3>1. Ledger(q, U, L)'
      BY <1>2, <2>7, <2>8, <2>9, <2>10, LedgerKept
    <3> QED
      BY <3>1
  <2>11. CASE q = p
    <3>1. IsFiniteSet(U) /\ L \in [U -> Labels] /\ Cardinality(U) <= unreported'[p]
      BY <1>2, <2>9, <2>11 DEF Ledger
    <3>2. PICK x, y : x = <<"thread", t>> /\ y = <<"fd", fd>>
      OBVIOUS
    <3>3. x \in Labels /\ y \in Labels /\ x # y
      BY <3>2 DEF Labels
    <3>4. PICK M \in [U -> Labels] :
             /\ Cardinality(Share(U, M, y)) =
                  Cardinality(Share(U, L, y)) + Cardinality(Share(U, L, x))
             /\ \A w \in Labels : w # x /\ w # y => Share(U, M, w) = Share(U, L, w)
      BY <3>1, <3>3, TokensMoved, SMTT(20)
    <3>5. Cardinality(Share(U, L, x)) \in Nat /\ Cardinality(Share(U, L, y)) \in Nat
      BY <3>1, ShareFinite
    <3>6. b2 <= Cardinality(Share(U, L, x))
      BY <2>4, <2>5, <2>9, <2>11, <3>2 DEF Ledger
    <3>7. ASSUME NEW f \in Fds, NEW b \in Int, FdClaim(p, f, b)'
          PROVE  b <= Cardinality(Share(U, M, <<"fd", f>>))
      <4>1. CASE f # fd
        <5>1. <<"fd", f>> \in Labels /\ <<"fd", f>> # x /\ <<"fd", f>> # y
          BY <3>2, <4>1 DEF Labels
        <5>2. FdClaim(p, f, b)
          BY <2>8, <3>7, <4>1
        <5>3. b <= Cardinality(Share(U, L, <<"fd", f>>))
          BY <2>9, <2>11, <5>2 DEF Ledger
        <5> QED
          BY <3>4, <5>1, <5>3
      <4>2. CASE f = fd /\ FdClaim(p, f, b)
        <5>1. b <= Cardinality(Share(U, L, y))
          BY <2>9, <2>11, <3>2, <4>2 DEF Ledger
        <5> QED
          BY <3>2, <3>4, <3>5, <4>2, <5>1, SMTT(20)
      <4>3. CASE f = fd /\ b = b1 + b2 /\ "torn" \notin fd_paths[p][fd].excuse
        <5>1. b1 <= Cardinality(Share(U, L, y))
          BY <2>4, <2>6, <2>9, <2>11, <3>2, <4>3 DEF Ledger
        <5> QED
          BY <2>4, <3>2, <3>4, <3>5, <3>6, <4>3, <5>1, SMTT(20)
      <4> QED
        BY <2>8, <3>7, <4>1, <4>2, <4>3
    <3>8. ASSUME NEW u \in Threads, NEW b \in Int, ThreadClaim(p, u, b)'
          PROVE  b <= Cardinality(Share(U, M, <<"thread", u>>))
      <4>1. ThreadClaim(p, u, b) /\ u # t
        BY <2>7, <3>8
      <4>2. <<"thread", u>> \in Labels /\ <<"thread", u>> # x /\ <<"thread", u>> # y
        BY <3>2, <4>1 DEF Labels
      <4>3. b <= Cardinality(Share(U, L, <<"thread", u>>))
        BY <2>9, <2>11, <4>1 DEF Ledger
      <4> QED
        BY <3>4, <4>2, <4>3
    <3>9. Ledger(p, U, M)'
      BY <3>1, <3>4, <3>7, <3>8 DEF Ledger
    <3> QED
      BY <2>11, <3>9
  <2> QED
    BY <2>10, <2>11
<1>4. CASE ptr'[t] = None
  <2>1. /\ inflight_write' = [inflight_write EXCEPT ![t] = None]
        /\ call' = [call EXCEPT ![t] = None] /\ UNCHANGED ptr
    BY <1>4, ExitWriteEffect DEF Forget
  <2>2. call'[t] = None
        /\ \A u \in Threads \ {t} : call'[u] = call[u] /\ inflight_write'[u] = inflight_write[u]
    BY <2>1 DEF Shape, TypeOK
  <2> QED
    BY <1>2, <2>1, <2>2, QuietLedgers
<1> QED
  BY <1>3, <1>4

LEMMA StoreLedgers ==
    ASSUME Shape, Ledgers, NEW t \in Threads, StoreWriteBytes(t), UNCHANGED program
    PROVE  Ledgers'
<1>1. /\ ptr[t] # None /\ ptr' = [ptr EXCEPT ![t] = None]
      /\ inflight_write' = [inflight_write EXCEPT ![t] = None]
      /\ call' = [call EXCEPT ![t] = None] /\ UNCHANGED unreported
  BY StoreEffect
<1>2. call'[t] = None /\ ptr'[t] = None
      /\ \A u \in Threads \ {t} :
           call'[u] = call[u] /\ inflight_write'[u] = inflight_write[u] /\ ptr'[u] = ptr[u]
  BY <1>1 DEF Shape, TypeOK
<1>3. \A q \in Procs, f \in Fds :
        IF ptr[t].at = <<q, f>> THEN Stored(fd_paths[q][f], fd_paths'[q][f], ptr[t])
        ELSE fd_paths'[q][f] = fd_paths[q][f]
  BY StoreEffect
<1>4. \A q \in Procs, u \in Threads, b \in Int : ThreadClaim(q, u, b)' => ThreadClaim(q, u, b)
  BY <1>2, ThreadClaimsKept
<1>5. ASSUME NEW q \in Procs, NEW f \in Fds, NEW b \in Int, FdClaim(q, f, b)'
      PROVE  FdClaim(q, f, b)
  <2>1. fd_paths'[q][f] # None /\ "torn" \notin fd_paths'[q][f].excuse
    BY <1>5 DEF FdClaim
  <2>2. fd_paths[q][f] # None /\ "torn" \notin fd_paths[q][f].excuse
    BY <1>3, <2>1 DEF Stored
  <2>3. CASE b = fd_paths'[q][f].write_bytes /\ ptr[t].at = <<q, f>>
    <3>1. Stored(fd_paths[q][f], fd_paths'[q][f], ptr[t])
      BY <1>3, <2>3
    <3>2. ptr[t].fresh /\ b = ptr[t].sum
      BY <2>1, <2>3, <3>1 DEF Stored
    <3> QED
      BY <1>1, <2>2, <2>3, <3>2 DEF FdClaim
  <2>4. CASE b = fd_paths'[q][f].write_bytes /\ ptr[t].at # <<q, f>>
    BY <1>3, <2>2, <2>4 DEF FdClaim
  <2>5. CASE b # fd_paths'[q][f].write_bytes
    <3>1. PICK u \in Threads :
            ptr'[u] # None /\ ptr'[u].fresh /\ ptr'[u].at = <<q, f>> /\ b = ptr'[u].sum
      BY <1>5, <2>5 DEF FdClaim
    <3>2. ptr[u] # None /\ ptr[u].fresh /\ ptr[u].at = <<q, f>> /\ b = ptr[u].sum
      BY <1>2, <3>1
    <3> QED
      BY <2>2, <3>2 DEF FdClaim
  <2> QED
    BY <2>3, <2>4, <2>5
<1> QED
  BY <1>1, <1>4, <1>5, LedgersKept

LEMMA MmapLedgers ==
    ASSUME Shape, Ledgers, NEW t \in Threads, NEW fd \in Fds,
           NEW kind \in {"mmap_read", "mmap_write"}, trace_mmap(t, fd, kind), UNCHANGED program
    PROVE  Ledgers'
<1>1. UNCHANGED <<call, inflight_write, ptr, unreported>> /\ Idle(t)
  BY DEF trace_mmap, kernel
<1>2. \A q \in Procs, f \in Fds :
        fd_paths'[q][f] = fd_paths[q][f] \/ Mapped(fd_paths[q][f], fd_paths'[q][f], kind)
  BY MmapEffect, SMTT(20)
<1>3. \A q \in Procs, f \in Fds : fd_paths'[q][f] # None =>
        /\ fd_paths[q][f] # None /\ fd_paths'[q][f].excuse = fd_paths[q][f].excuse
        /\ fd_paths'[q][f].write_bytes = fd_paths[q][f].write_bytes
  BY <1>2 DEF Mapped
<1>4. \A q \in Procs, f \in Fds, b \in Int : FdClaim(q, f, b)' => FdClaim(q, f, b)
  BY <1>1, <1>3 DEF FdClaim
<1>5. \A q \in Procs, u \in Threads, b \in Int : ThreadClaim(q, u, b)' => ThreadClaim(q, u, b)
  BY <1>1 DEF ThreadClaim, ProcOf
<1> QED
  BY <1>1, <1>4, <1>5, LedgersKept

LEMMA ReleaseLedgers ==
    ASSUME Shape, Ledgers, NEW t \in Threads, NEW fd \in Fds, KernelRelease(t, fd),
           UNCHANGED program
    PROVE  Ledgers'
<1>1. UNCHANGED <<call, inflight_write, ptr, unreported>>
  BY DEF KernelRelease
<1>2. \A q \in Procs, f \in Fds :
        fd_paths'[q][f] = fd_paths[q][f] \/ Staled(fd_paths[q][f], fd_paths'[q][f])
  BY KernelReleaseEffect
<1>3. \A q \in Procs, f \in Fds : fd_paths'[q][f] # None =>
        /\ fd_paths[q][f] # None
        /\ "torn" \in fd_paths'[q][f].excuse <=> "torn" \in fd_paths[q][f].excuse
        /\ fd_paths'[q][f].write_bytes = fd_paths[q][f].write_bytes
  BY <1>2, SMTT(20) DEF Staled
<1>4. \A q \in Procs, f \in Fds, b \in Int : FdClaim(q, f, b)' => FdClaim(q, f, b)
  BY <1>1, <1>3 DEF FdClaim
<1>5. \A q \in Procs, u \in Threads, b \in Int : ThreadClaim(q, u, b)' => ThreadClaim(q, u, b)
  BY <1>1 DEF ThreadClaim, ProcOf
<1> QED
  BY <1>1, <1>4, <1>5, LedgersKept

LEMMA CloseLedgers ==
    ASSUME Shape, Ledgers, NEW t \in Threads, NEW fd \in Fds, trace_close(t, fd), UNCHANGED program
    PROVE  Ledgers'
<1>1. PICK p \in Procs : p = ProcOf(t)
  BY Programs1
<1>2. DropEntry(p, fd) /\ UNCHANGED inflight_write
  BY <1>1 DEF trace_close
<1>3. PICK c : c = Call("close", {fd}, None)
  OBVIOUS
<1>4. call' = [call EXCEPT ![t] = c] /\ c.sys = "close"
  BY <1>3 DEF trace_close, Enter, Call
<1>5. call'[t] = c /\ \A u \in Threads \ {t} : call'[u] = call[u]
  BY <1>4 DEF Shape, TypeOK
<1>6. \A u \in Threads : ptr'[u] = None => ptr[u] = None
  BY <1>2, DropEffect
<1>7. \A q \in Procs, u \in Threads, b \in Int : ThreadClaim(q, u, b)' => ThreadClaim(q, u, b)
  BY <1>2, <1>4, <1>5, <1>6, ThreadClaimsKept
<1>8. /\ fd_paths'[p][fd] = None
      /\ \A q \in Procs, f \in Fds : q # p \/ f # fd => fd_paths'[q][f] = fd_paths[q][f]
  BY <1>2, DropEffect
<1>9. \A u \in Threads : ptr'[u] # None /\ ptr'[u].fresh =>
        ptr[u] # None /\ ptr[u].fresh /\ ptr'[u].at = ptr[u].at /\ ptr'[u].sum = ptr[u].sum
  BY <1>2, DropEffect
<1>10. ASSUME NEW q \in Procs, NEW f \in Fds, NEW b \in Int, FdClaim(q, f, b)'
       PROVE  FdClaim(q, f, b) /\ (q # p \/ f # fd)
  <2>1. fd_paths'[q][f] # None /\ (q # p \/ f # fd)
    BY <1>8, <1>10 DEF FdClaim
  <2>2. fd_paths'[q][f] = fd_paths[q][f]
    BY <1>8, <2>1
  <2> QED
    BY <1>9, <1>10, <2>1, <2>2 DEF FdClaim
<1>11. CASE UNCHANGED unreported
  BY <1>7, <1>10, <1>11, LedgersKept
<1>12. CASE ~UNCHANGED unreported
  <2>1. PICK b0 : b0 = fd_paths[p][fd].write_bytes
    OBVIOUS
  <2>2. /\ fd_paths[p][fd] # None /\ "torn" \notin fd_paths[p][fd].excuse
        /\ unreported' = [unreported EXCEPT ![p] = @ - b0]
    BY <1>1, <1>12, <2>1 DEF trace_close
  <2>3. b0 \in Int /\ FdClaim(p, fd, b0)
    BY <2>1, <2>2, Values, SMTT(20) DEF EntryRecords, FdClaim
  <2>4. unreported \in [Procs -> Int]
    BY DEF Shape, TypeOK
  <2> SUFFICES ASSUME NEW q \in Procs
               PROVE  \E U, L : Ledger(q, U, L)'
    BY DEF Ledgers
  <2>5. PICK U, L : Ledger(q, U, L)
    BY DEF Ledgers
  <2>6. CASE q # p
    <3>1. unreported'[q] = unreported[q]
      BY <2>2, <2>4, <2>6
    <3>2. Ledger(q, U, L)'
      BY <1>7, <1>10, <2>5, <3>1, LedgerKept
    <3> QED
      BY <3>2
  <2>7. CASE q = p
    <3>1. unreported'[p] = unreported[p] - b0
      BY <2>2, <2>4
    <3>2. PICK x : x = <<"fd", fd>>
      OBVIOUS
    <3>3. IsFiniteSet(U) /\ L \in [U -> Labels] /\ x \in Labels
      BY <2>5, <3>2 DEF Ledger, Labels
    <3>4. PICK V, M :
             /\ IsFiniteSet(V)
             /\ Cardinality(V) + Cardinality(Share(U, L, x)) = Cardinality(U)
             /\ M \in [V -> Labels]
             /\ \A y \in Labels : y # x => Cardinality(Share(V, M, y)) = Cardinality(Share(U, L, y))
      BY <3>3, TokensSpent
    <3>5. b0 <= Cardinality(Share(U, L, x)) /\ Cardinality(U) <= unreported[p]
      <4>1. Ledger(p, U, L)
        BY <2>5, <2>7
      <4>2. b0 <= Cardinality(Share(U, L, <<"fd", fd>>))
        BY <2>3, <4>1 DEF Ledger
      <4>3. Cardinality(U) <= unreported[p]
        BY <4>1 DEF Ledger
      <4> QED
        BY <3>2, <4>2, <4>3
    <3>6. Cardinality(Share(U, L, x)) \in Nat /\ Cardinality(U) \in Nat
      BY <3>3, ShareFinite, FS_CardinalityType
    <3>7. unreported[p] \in Int
      BY <2>4
    <3>8. Cardinality(V) <= unreported'[p]
      <4>1. Cardinality(V) \in Nat
        BY <3>4, FS_CardinalityType
      <4> QED
        BY <2>3, <3>1, <3>4, <3>5, <3>6, <3>7, <4>1, SMTT(20)
    <3>9. ASSUME NEW f \in Fds, NEW b \in Int, FdClaim(p, f, b)'
          PROVE  b <= Cardinality(Share(V, M, <<"fd", f>>))
      <4>1. FdClaim(p, f, b) /\ f # fd
        BY <1>10, <3>9
      <4>2. <<"fd", f>> \in Labels /\ <<"fd", f>> # x
        BY <3>2, <4>1 DEF Labels
      <4>3. b <= Cardinality(Share(U, L, <<"fd", f>>))
        BY <2>5, <2>7, <4>1 DEF Ledger
      <4> QED
        BY <3>4, <4>2, <4>3
    <3>10. ASSUME NEW u \in Threads, NEW b \in Int, ThreadClaim(p, u, b)'
           PROVE  b <= Cardinality(Share(V, M, <<"thread", u>>))
      <4>1. <<"thread", u>> \in Labels /\ <<"thread", u>> # x
        BY <3>2 DEF Labels
      <4>2. b <= Cardinality(Share(U, L, <<"thread", u>>))
        BY <1>7, <2>5, <2>7, <3>10 DEF Ledger
      <4> QED
        BY <3>4, <4>1, <4>2
    <3>11. Ledger(p, V, M)'
      BY <3>4, <3>8, <3>9, <3>10 DEF Ledger
    <3> QED
      BY <2>7, <3>11
  <2> QED
    BY <2>6, <2>7
<1> QED
  BY <1>11, <1>12

LEMMA NextLedgers == Shape /\ Ledgers /\ [Next]_vars => Ledgers'
<1> SUFFICES ASSUME Shape, Ledgers, [Next]_vars
             PROVE  Ledgers'
  OBVIOUS
<1>1. CASE Next
  <2>1. UNCHANGED program
    BY <1>1 DEF Next
  <2>2. PICK t \in Threads :
             \/ \E dirfd \in Fds \cup {AT_FDCWD}, name \in Paths, copied \in BOOLEAN :
                  name \in program.names[ProcOf(t)] /\ trace_enter_open(t, dirfd, name, copied)
             \/ KernelOpen(t)
             \/ trace_exit_open(t)
             \/ \E fd \in Fds, count \in Nat : trace_write(t, fd, count)
             \/ \E n \in -1 .. 1 : KernelWrite(t, n)
             \/ trace_exit_write(t)
             \/ StoreWriteBytes(t)
             \/ \E fd \in Fds, kind \in {"mmap_read", "mmap_write"} : trace_mmap(t, fd, kind)
             \/ \E fd \in Fds : trace_close(t, fd)
             \/ \E fd \in Fds : KernelRelease(t, fd)
             \/ KernelClose(t)
             \/ \E fd, new \in Fds : KernelDup(t, fd, new)
             \/ \E op \in PathOps, dirfd \in Fds \cup {AT_FDCWD}, name \in Paths, copied \in BOOLEAN :
                  /\ name \in program.names[ProcOf(t)]
                  /\ trace_path(t, op, dirfd, name, copied)
    BY <1>1, Steps
  <2>3. CASE KernelClose(t)
    <3>1. /\ call' = [call EXCEPT ![t] = None]
          /\ UNCHANGED <<inflight_write, fd_paths, ptr, unreported>>
      BY <2>3, KernelCloseEffect
    <3>2. call'[t] = None /\ \A u \in Threads \ {t} : call'[u] = call[u]
      BY <3>1 DEF Shape, TypeOK
    <3> QED
      BY <2>1, <3>1, <3>2, QuietLedgers
  <2>4. CASE \/ \E fd, new \in Fds : KernelDup(t, fd, new)
             \/ \E op \in PathOps, dirfd \in Fds \cup {AT_FDCWD}, name \in Paths, copied \in BOOLEAN :
                  trace_path(t, op, dirfd, name, copied)
    <3>1. UNCHANGED <<call, inflight_write, fd_paths, ptr, unreported>> /\ Idle(t)
      BY <2>4, Zenon DEF KernelDup, trace_path, kernel, maps
    <3> QED
      BY <2>1, <3>1, QuietLedgers DEF Idle
  <2> QED
    BY <2>1, <2>2, <2>3, <2>4, EnterOpenLedgers, KernelOpenLedgers, ExitOpenLedgers, WriteLedgers,
       KernelWriteLedgers, ExitWriteLedgers, StoreLedgers, MmapLedgers, CloseLedgers,
       ReleaseLedgers, ZenonT(60)
<1>2. CASE UNCHANGED vars
  <2>1. UNCHANGED <<program, fd_paths, ptr, call, inflight_write, unreported>>
    BY <1>2 DEF vars, kernel, maps
  <2>2. \A p \in Procs, fd \in Fds, b \in Int : FdClaim(p, fd, b)' => FdClaim(p, fd, b)
    BY <2>1 DEF FdClaim
  <2>3. \A p \in Procs, t \in Threads, b \in Int : ThreadClaim(p, t, b)' => ThreadClaim(p, t, b)
    BY <2>1 DEF ThreadClaim, ProcOf
  <2> QED
    BY <2>1, <2>2, <2>3, LedgersKept
<1> QED
  BY <1>1, <1>2

\* ReportedBounded for any programs: however many threads write to and close the
\* same descriptors, and however the unlocked additions of trace_exit_write lose
\* one another's bytes, the write events of a process report no more than it
\* wrote, as long as no sum went to an element that had been taken over.
THEOREM ReportedBoundedTheorem == Spec => []ReportedBounded
<1>1. Shape /\ Ledgers => ReportedBounded
  <2> SUFFICES ASSUME Shape, Ledgers, NEW p \in Procs
               PROVE  unreported[p] >= 0
    BY DEF ReportedBounded
  <2>1. PICK U, L : Ledger(p, U, L)
    BY DEF Ledgers
  <2>2. Cardinality(U) \in Nat /\ Cardinality(U) <= unreported[p]
    BY <2>1, FS_CardinalityType DEF Ledger
  <2>3. unreported[p] \in Int
    BY DEF Shape, TypeOK
  <2> QED
    BY <2>2, <2>3, SMTT(20)
<1> QED
  BY <1>1, InitShape, NextShape, InitLedgers, NextLedgers, PTL DEF Spec
=============================================================================
